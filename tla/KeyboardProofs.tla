---------------------------- MODULE KeyboardProofs ----------------------------
(***************************************************************************)
(* Proofs about the keyboard, from the controller to the character: the    *)
(* start and the interrupt (modules Ps2Init and Keyboard), the buffer      *)
(* (module KbdBuffer) and the decoder of the scan codes (Scancodes).       *)
(*                                                                         *)
(* First, the start.  What init_8042 reads is the answer to what it asked  *)
(* only because nothing else can be in the output register then.  StartInv *)
(* follows the conversation access by access: which byte the controller    *)
(* has not taken, which answer is on its way, and whether the keyboard's   *)
(* clock lets it send.  Up to the reset this holds whatever is typed;      *)
(* afterwards it is said of a start without a key or a resend (Clean), and *)
(* then, beyond sti, of the keys that isr33 reads.                         *)
(***************************************************************************)
EXTENDS Keyboard, IrqProofs, Scancodes, KbdBuffer, FiniteSetTheorems

Sent(byte) == command = <<"command", byte>>
Wrote(byte) == command = <<"data", byte>>
Taken == command = <<>>

(* The controller has nothing to say. *)
Silent == own = <<>> /\ ~obf

Quiet == Taken /\ Silent /\ ~setConfig

(* A command that changes the configuration, before and after it is taken. *)
Setting(byte, old, new) ==
  /\ own = <<>> /\ ~setConfig
  /\ \/ Sent(byte) /\ config = old
     \/ Taken /\ config = new

(* The write of the configuration: the command, then the byte. *)
Announced ==
  /\ Silent
  /\ \/ Sent(96) /\ ~setConfig
     \/ Taken /\ setConfig

Configured(old, new) ==
  /\ Silent
  /\ \/ Wrote(new) /\ setConfig /\ config = old
     \/ Taken /\ ~setConfig /\ config = new

(* A query was sent with access q; access q + 1 awaits its answer, and     *)
(* access q + 2 reads it.                                                  *)
Asked(q, byte, answer) ==
  /\ ~setConfig
  /\ \/ pc = q + 1 /\ Sent(byte) /\ Silent
     \/ pc = q + 1 /\ Taken /\ own = <<answer>> /\ ~obf
     \/ pc \in {q + 1, q + 2} /\ Taken /\ own = <<>> /\ obf /\ out = answer

(* With the ports disabled: what the firmware left had the second port on  *)
(* or off.                                                                 *)
Disabled == {117, 119}

(* Up to the reset.  The keyboard is deaf from access 3 on.                *)
Disabling ==
  \/ pc = 1 /\ Taken /\ own = <<>> /\ ~setConfig /\ config \in {71, 101}
  \/ pc = 2 /\ (Setting(173, 71, 87) \/ Setting(173, 101, 117))
  \/ pc = 3 /\ (Setting(167, 87, 119) \/ Setting(167, 117, 117))
  \/ pc = 4 /\ ~obf /\ (Setting(167, 87, 119) \/ Setting(167, 117, 117))

Configuring ==
  \/ Asked(4, 32, config) /\ config \in Disabled
  \/ pc = 7 /\ Quiet /\ config \in Disabled /\ cfg = config
  \/ pc = 8 /\ Announced /\ config \in Disabled /\ cfg = config
  \/ pc = 9 /\ (Configured(119, 52) \/ Configured(117, 52))

Testing ==
  \/ Asked(9, 170, 85) /\ config = 52
  \/ pc = 12 /\ Quiet /\ config = 52
  \/ pc = 13 /\ ~obf /\ Setting(168, 52, 20)
  \/ Asked(13, 32, 20) /\ config = 20
  \/ pc = 16 /\ Quiet /\ config = 20
  \/ pc = 17 /\ ~obf /\ Setting(167, 20, 52)
  \/ Asked(17, 171, 0) /\ config = 52
  \/ pc = 20 /\ Quiet /\ config = 52 /\ out = 0

BeforeReset ==
  /\ result = "running" /\ reset = {} /\ answers = <<>> /\ resends = 0
  /\ Disabling \/ Configuring \/ Testing

(* The reset of a start without a key or a resend, as far as it was        *)
(* acknowledged: the loops that do not wait may read too early.            *)
Enabling == pc = 21 /\ ~obf /\ Setting(174, 52, 36) /\ answers = <<>> /\ out = 0 /\ reset = {}

Resetting ==
  /\ pc \in {22, 23} /\ reset = {} /\ own = <<>> /\ ~setConfig
  /\ config = 36
  /\ \/ Wrote(255) /\ ~obf /\ out = 0 /\ answers = <<>>
     \/ Taken /\ ~obf /\ out = 0 /\ \E t \in {Passed, Failed} : answers = <<Ack, t>>
     \/ Taken /\ obf /\ out = Ack /\ \E t \in {Passed, Failed} : answers = <<t>>

Acknowledged ==
  /\ pc \in {24, 25} /\ reset = {"ack"} /\ own = <<>> /\ ~setConfig /\ Taken /\ config = 36
  /\ \/ ~obf /\ out = Ack /\ \E t \in {Passed, Failed} : answers = <<t>>
     \/ obf /\ out \in {Passed, Failed} /\ answers = <<>>

AllSeen == {"ack", "passed"}

Finishing ==
  /\ result = "running" /\ reset = AllSeen /\ answers = <<>>
  /\ \/ pc = 26 /\ Quiet /\ config = 36
     \/ Asked(26, 32, 36) /\ config = 36
     \/ pc = 29 /\ Quiet /\ config = 36 /\ cfg = 36
     \/ pc = 30 /\ Announced /\ config = 36 /\ cfg = 36
     \/ pc = 31 /\ Configured(36, 37)

(* A start that did not see both answers cannot see them any more. *)
Unseen == pc >= 26 /\ reset # AllSeen

(* From the end of init_8042 on the only bytes are keys, and isr33 reads   *)
(* each of them once.                                                      *)
Counting ==
  /\ pushed \in Seq({Key})
  /\ obf => out = Key
  /\ typed = Len(pushed) + (IF obf THEN 1 ELSE 0)

Started ==
  /\ result = "initialized" /\ reset = AllSeen /\ answers = <<>> /\ own = <<>>
  /\ \/ Wrote(37) /\ setConfig /\ config = 36
     \/ Taken /\ ~setConfig /\ config = 37
  /\ Counting

Conversation ==
  \/ result = "running" /\ (Enabling \/ Resetting \/ Acknowledged)
  \/ Finishing \/ Unseen \/ Started

(* No key was typed before sti, and the reset was not repeated. *)
Clean == resends = 0 /\ (IF cpu = "boot" THEN typed ELSE early) = 0

StartInv == BeforeReset \/ (pc \in 21 .. 31 /\ (Clean => Conversation))

(* What was typed before sti is part of what was typed. *)
Counts == typed \in Nat /\ resends \in Nat /\ early \in 0 .. typed

(* Interrupts stay off until init_8042 has returned, which begins after    *)
(* remap_irqs, and until then nothing is pushed.                           *)
Polled ==
  /\ cpu # "boot" => result # "running"
  /\ cpu = "boot" => pushed = <<>>
  /\ pc > 1 /\ cpu = "boot" => todo = <<>>

(* isr33 is about to read the keyboard. *)
AtKey == cpu = "handler" /\ todo = <<Device(1), EndMaster>>

(* A request of line 1 stands for a byte, and isr33 finds it. *)
Signalled ==
  /\ 1 \in irr => Line
  /\ AtKey => obf

KeyboardInv == IrqInv(remap_irqs) /\ Counts /\ Polled /\ Signalled /\ StartInv

-----------------------------------------------------------------------------
(* The port accesses of init_8042, from the functions of 8042.c. *)
LEMMA AccessesOfProgram ==
  /\ Len(UpToReset) = 20 /\ Len(Program) = 30
  /\ Program[1] = <<"command", 173>> /\ Program[2] = <<"command", 167>>
  /\ Program[3] = <<"read", "flush">> /\ Program[4] = <<"command", 32>>
  /\ Program[5] = <<"await">> /\ Program[6] = <<"read", "keep">>
  /\ Program[7] = <<"command", 96>> /\ Program[8] = <<"config", "disable_for_init">>
  /\ Program[9] = <<"command", 170>> /\ Program[10] = <<"await">>
  /\ Program[11] = <<"read", "controller_test">> /\ Program[12] = <<"command", 168>>
  /\ Program[13] = <<"command", 32>> /\ Program[14] = <<"await">>
  /\ Program[15] = <<"read", "channels">> /\ Program[16] = <<"command", 167>>
  /\ Program[17] = <<"command", 171>> /\ Program[18] = <<"await">>
  /\ Program[19] = <<"read", "port_test">> /\ Program[20] = <<"command", 174>>
  /\ Program[21] = <<"data", 255>> /\ Program[22] = <<"peek">>
  /\ Program[23] = <<"read", "reset_ack">> /\ Program[24] = <<"peek">>
  /\ Program[25] = <<"read", "reset_result">> /\ Program[26] = <<"command", 32>>
  /\ Program[27] = <<"await">> /\ Program[28] = <<"read", "keep">>
  /\ Program[29] = <<"command", 96>> /\ Program[30] = <<"config", "enable_port_1">>
BY DEF Program, UpToReset, DisablePorts, SelfTest, EnablePort1, EnablePort1Interrupt,
   _8042_send_command, _8042_send_command_await, _8042_get_config_byte, _8042_set_config_byte,
   keyboard_send_command

(* Where the reset is, and what is left out after a bad answer. *)
LEMMA Places == AtReset = 21 /\ SkipReset = 26
<1>1. AtReset = 21
  BY AccessesOfProgram DEF AtReset
<1>2. Len(keyboard_send_command(255)) = 3
  BY DEF keyboard_send_command
<1>3. SkipReset = 21 + 3 + 2
  BY <1>1, <1>2, Zenon DEF SkipReset
<1> QED
  BY <1>1, <1>3
-----------------------------------------------------------------------------
(* What init_8042 does at each kind of access. *)

other == <<result, cfg, reset>>

(* It waits until its last byte was taken, and writes a command, *)
LEMMA CommandStep ==
  ASSUME NEW byte, NEW at \in 1 .. 30, pc = at, Program[at] = <<"command", byte>>, init_8042
  PROVE  /\ Taken /\ Sent(byte)' /\ pc' = at + 1
         /\ UNCHANGED <<other, config, setConfig, out, obf, own, answers, typed, resends>>
<1>1. Access = <<"command", byte>> /\ Len(Program) = 30
  BY AccessesOfProgram DEF Access
<1>2. Write /\ command' = <<"command", byte>>
  BY <1>1 DEF init_8042, Write, Await, Peek, Read, Done, Running
<1> QED
  BY <1>2 DEF Write, Advance, Taken, Sent, other, keyboard

(* or a byte for the keyboard, *)
LEMMA DataStep ==
  ASSUME NEW byte, NEW at \in 1 .. 30, pc = at, Program[at] = <<"data", byte>>, init_8042
  PROVE  /\ Taken /\ Wrote(byte)' /\ pc' = at + 1
         /\ UNCHANGED <<other, config, setConfig, out, obf, own, answers, typed, resends>>
<1>1. Access = <<"data", byte>> /\ Len(Program) = 30
  BY AccessesOfProgram DEF Access
<1>2. Write /\ command' = <<"data", byte>>
  BY <1>1 DEF init_8042, Write, Await, Peek, Read, Done, Running
<1> QED
  BY <1>2 DEF Write, Advance, Taken, Wrote, other, keyboard

(* or the configuration. *)
LEMMA ConfigStep ==
  ASSUME NEW change, NEW at \in 1 .. 30, pc = at, Program[at] = <<"config", change>>, init_8042
  PROVE  /\ Taken /\ command' = <<"data", Changed(change)>> /\ pc' = at + 1
         /\ UNCHANGED <<other, config, setConfig, out, obf, own, answers, typed, resends>>
<1>1. Access = <<"config", change>> /\ Len(Program) = 30
  BY AccessesOfProgram DEF Access
<1>2. Write /\ command' = <<"data", Changed(change)>>
  BY <1>1 DEF init_8042, Write, Await, Peek, Read, Done, Running
<1> QED
  BY <1>2 DEF Write, Advance, Taken, other, keyboard

(* It waits for a byte of the controller, *)
LEMMA AwaitStep ==
  ASSUME NEW at \in 1 .. 30, pc = at, Program[at] = <<"await">>, init_8042
  PROVE  /\ obf /\ pc' = at + 1
         /\ UNCHANGED <<other, command, config, setConfig, out, obf, own, answers, typed, resends>>
<1>1. Access = <<"await">> /\ Len(Program) = 30
  BY AccessesOfProgram DEF Access
<1>2. Await
  BY <1>1 DEF init_8042, Write, Await, Peek, Read, Done, Running
<1> QED
  BY <1>2 DEF Await, Advance, other, keyboard

(* or does not, *)
LEMMA PeekStep ==
  ASSUME NEW at \in 1 .. 30, pc = at, Program[at] = <<"peek">>, init_8042
  PROVE  /\ pc' = at + 1
         /\ UNCHANGED <<other, command, config, setConfig, out, obf, own, answers, typed, resends>>
<1>1. Access = <<"peek">> /\ Len(Program) = 30
  BY AccessesOfProgram DEF Access
<1>2. Peek
  BY <1>1 DEF init_8042, Write, Await, Peek, Read, Done, Running
<1> QED
  BY <1>2 DEF Peek, Advance, other, keyboard

(* and reads what the output register holds. *)
LEMMA ReadStep ==
  ASSUME NEW test, NEW at \in 1 .. 30, pc = at, Program[at] = <<"read", test>>, init_8042
  PROVE  /\ obf' = FALSE /\ cfg' = out /\ pc' = Following(test, out)
         /\ result' = IF test = "reset_result" /\ out # Passed THEN "failed" ELSE result
         /\ reset' = reset \cup (IF test = "reset_ack" /\ out = Ack THEN {"ack"} ELSE {})
                           \cup (IF test = "reset_result" /\ out = Passed THEN {"passed"} ELSE {})
         /\ UNCHANGED <<command, config, setConfig, out, own, answers, typed, resends>>
<1>1. Access = <<"read", test>> /\ Len(Program) = 30
  BY AccessesOfProgram DEF Access
<1>2. Access[1] = "read" /\ Access[2] = test
  BY <1>1
<1>3. ~Write /\ ~Await /\ ~Peek /\ ~Done
  BY <1>1, <1>2 DEF Write, Await, Peek, Done, Running
<1>4. Read
  BY <1>3 DEF init_8042
<1> QED
  BY <1>2, <1>4 DEF Read, keyboard

(* A read that only wants the byte goes on. *)
LEMMA PlainReadStep ==
  ASSUME NEW test, test \notin {"channels", "reset_ack", "reset_result"},
         NEW at \in 1 .. 30, pc = at, Program[at] = <<"read", test>>, init_8042
  PROVE  /\ obf' = FALSE /\ cfg' = out /\ pc' = at + 1 /\ UNCHANGED <<result, reset>>
         /\ UNCHANGED <<command, config, setConfig, out, own, answers, typed, resends>>
<1>1. Following(test, out) = at + 1
  BY DEF Following
<1>2. /\ obf' = FALSE /\ cfg' = out /\ pc' = Following(test, out)
      /\ result' = result
      /\ UNCHANGED <<command, config, setConfig, out, own, answers, typed, resends>>
  BY ReadStep
<1>3. reset' = reset
  BY ReadStep
<1> QED
  BY <1>1, <1>2, <1>3

-----------------------------------------------------------------------------
(* The configurations of the conversation.                                 *)

(* The bits of the configuration that the commands set and clear, *)
LEMMA Configurations ==
  /\ With(71, CLOCK1_DISABLED) = 87 /\ With(101, CLOCK1_DISABLED) = 117
  /\ With(87, CLOCK2_DISABLED) = 119 /\ With(117, CLOCK2_DISABLED) = 117
  /\ Without(52, CLOCK2_DISABLED) = 20 /\ With(20, CLOCK2_DISABLED) = 52
  /\ Without(52, CLOCK1_DISABLED) = 36
BY SMT DEF With, Without, Has, CLOCK1_DISABLED, CLOCK2_DISABLED

(* those that init_8042 sets and clears itself, *)
LEMMA ChangedConfigurations ==
  /\ cfg \in Disabled => Changed("disable_for_init") = 52
  /\ cfg = 36 => Changed("enable_port_1") = 37
<1>1. Without(Without(Without(117, INT_FIRST), INT_SECOND), TRANSLATION) = 52
  BY SMT DEF Without, Has, INT_FIRST, INT_SECOND, TRANSLATION
<1>2. Without(Without(Without(119, INT_FIRST), INT_SECOND), TRANSLATION) = 52
  BY SMT DEF Without, Has, INT_FIRST, INT_SECOND, TRANSLATION
<1>3. With(36, INT_FIRST) = 37
  BY SMT DEF With, Has, INT_FIRST
<1> QED
  BY <1>1, <1>2, <1>3 DEF Changed, Disabled

(* and those in which the keyboard cannot send. *)
LEMMA Deaf == \A c \in {87, 117, 119, 52, 20} : Has(c, CLOCK1_DISABLED)
BY SMT DEF Has, CLOCK1_DISABLED

(* The configuration that a command leaves. *)
Configures(byte, old, new) ==
  \/ byte = 173 /\ new = With(old, CLOCK1_DISABLED)
  \/ byte = 174 /\ new = Without(old, CLOCK1_DISABLED)
  \/ byte = 167 /\ new = With(old, CLOCK2_DISABLED)
  \/ byte = 168 /\ new = Without(old, CLOCK2_DISABLED)

-----------------------------------------------------------------------------
(* What the controller does meanwhile.                                     *)

Replies == Take \/ AnswerQuery \/ Answer

(* Nothing, when nothing was asked; *)
LEMMA QuietStays ==
  ASSUME Quiet, answers = <<>>, Replies
  PROVE  FALSE
BY DEF Replies, Quiet, Taken, Silent, Take, TakeSetting, TakeQuery, TakeConfig, TakeReset,
   AnswerQuery, Answer

(* A setting is taken, *)
LEMMA SettingStays ==
  ASSUME NEW byte, NEW old, NEW new, Configures(byte, old, new),
         Setting(byte, old, new), answers = <<>>, Replies
  PROVE  /\ Setting(byte, old, new)'
         /\ UNCHANGED <<program, out, obf, keyboard>>
<1>1. ~AnswerQuery /\ ~Answer
  BY DEF Setting, AnswerQuery, Answer
<1>2. command # <<>>
  BY <1>1 DEF Replies, Take, TakeSetting, TakeQuery, TakeConfig, TakeReset
<1>3. command = <<"command", byte>> /\ config = old /\ own = <<>>
  BY <1>2 DEF Setting, Sent, Taken
<1>4. byte \in {173, 174, 167, 168}
  BY DEF Configures
<1>5. TakeSetting
  BY <1>1, <1>3, <1>4 DEF Replies, Take, TakeQuery, TakeConfig, TakeReset
<1>6. config' = new
  BY <1>3, <1>5 DEF TakeSetting, Configures
<1>7. setConfig' = FALSE
  <2>1. setConfig' = (byte = 96)
    BY <1>3, <1>5 DEF TakeSetting
  <2>2. (byte = 96) = FALSE
    BY <1>4
  <2> QED
    BY <2>1, <2>2, Zenon
<1> QED
  BY <1>3, <1>5, <1>6, <1>7 DEF TakeSetting, Setting, Taken

(* the announcement of the configuration as well, *)
LEMMA AnnouncedStays ==
  ASSUME Announced, answers = <<>>, Replies
  PROVE  Announced' /\ UNCHANGED <<program, config, out, obf, keyboard>>
<1>1. ~AnswerQuery /\ ~Answer
  BY DEF Announced, Silent, AnswerQuery, Answer
<1>2. command # <<>>
  BY <1>1 DEF Replies, Take, TakeSetting, TakeQuery, TakeConfig, TakeReset
<1>3. command = <<"command", 96>> /\ own = <<>>
  BY <1>2 DEF Announced, Silent, Sent, Taken
<1>4. TakeSetting
  BY <1>1, <1>3 DEF Replies, Take, TakeQuery, TakeConfig, TakeReset
<1>5. config' = config
  BY <1>3, <1>4 DEF TakeSetting
<1>6. setConfig' = TRUE
  BY <1>3, <1>4 DEF TakeSetting
<1> QED
  BY <1>4, <1>5, <1>6 DEF TakeSetting, Announced, Taken, Silent

(* then the configuration, *)
LEMMA ConfiguredStays ==
  ASSUME NEW old, NEW new, Configured(old, new), answers = <<>>, Replies
  PROVE  Configured(old, new)' /\ UNCHANGED <<program, out, obf, keyboard>>
<1>1. ~AnswerQuery /\ ~Answer
  BY DEF Configured, Silent, AnswerQuery, Answer
<1>2. command # <<>>
  BY <1>1 DEF Replies, Take, TakeSetting, TakeQuery, TakeConfig, TakeReset
<1>3. command = <<"data", new>> /\ setConfig
  BY <1>2 DEF Configured, Wrote, Taken
<1>4. TakeConfig
  BY <1>1, <1>3 DEF Replies, Take, TakeSetting, TakeQuery, TakeReset
<1>5. config' = new
  BY <1>3, <1>4 DEF TakeConfig
<1> QED
  BY <1>4, <1>5 DEF TakeConfig, Configured, Taken, Silent

(* and a query is answered. *)
LEMMA AskedStays ==
  ASSUME NEW q \in Nat, NEW byte, NEW answer, Asked(q, byte, answer), answers = <<>>, Replies,
         \/ byte = 32 /\ answer = config
         \/ byte = 170 /\ answer = 85
         \/ byte = 171 /\ answer = 0
  PROVE  Asked(q, byte, answer)' /\ UNCHANGED <<program, config, keyboard>>
<1>1. ~Answer
  BY DEF Answer
<1>2. CASE pc = q + 1 /\ Sent(byte) /\ Silent
  <2>1. command = <<"command", byte>> /\ byte \in {32, 170, 171}
    BY <1>2 DEF Sent
  <2>2. TakeQuery
    BY <1>1, <1>2, <2>1 DEF Replies, Take, TakeSetting, TakeConfig, TakeReset, AnswerQuery, Silent
  <2>3. own' = <<answer>>
    BY <2>1, <2>2 DEF TakeQuery
  <2> QED
    BY <1>2, <2>2, <2>3 DEF TakeQuery, Asked, Taken, Silent, program
<1>3. CASE pc = q + 1 /\ Taken /\ own = <<answer>> /\ ~obf
  <2>1. AnswerQuery
    BY <1>1, <1>3 DEF Replies, Take, TakeSetting, TakeQuery, TakeConfig, TakeReset, Taken
  <2>2. out' = answer
    BY <1>3, <2>1 DEF AnswerQuery
  <2> QED
    BY <1>3, <2>1, <2>2 DEF AnswerQuery, Asked, Taken, program
<1>4. CASE pc \in {q + 1, q + 2} /\ Taken /\ own = <<>> /\ obf /\ out = answer
  BY <1>1, <1>4
  DEF Replies, Take, TakeSetting, TakeQuery, TakeConfig, TakeReset, AnswerQuery, Taken
<1> QED
  BY <1>2, <1>3, <1>4 DEF Asked

-----------------------------------------------------------------------------
(* The conversation up to the reset, access by access.                     *)

(* The ports are disabled and the output register is emptied, *)
LEMMA DisablingGoesOn ==
  ASSUME Disabling, init_8042
  PROVE  (Disabling' \/ Configuring') /\ UNCHANGED <<result, reset, answers, resends, typed>>
<1>1. CASE pc = 1
  <2>0. Program[1] = <<"command", 173>>
    BY AccessesOfProgram
  <2>1. /\ Sent(173)' /\ pc' = 2
        /\ UNCHANGED <<other, config, setConfig, out, obf, own, answers, typed, resends>>
    BY <1>1, <2>0, CommandStep
  <2>2. own = <<>> /\ ~setConfig /\ config \in {71, 101}
    BY <1>1 DEF Disabling
  <2> QED
    BY <2>1, <2>2 DEF Disabling, Setting, Sent, other
<1>2. CASE pc = 2
  <2>0. Program[2] = <<"command", 167>>
    BY AccessesOfProgram
  <2>1. /\ Taken /\ Sent(167)' /\ pc' = 3
        /\ UNCHANGED <<other, config, setConfig, out, obf, own, answers, typed, resends>>
    BY <1>2, <2>0, CommandStep
  <2>2. own = <<>> /\ ~setConfig /\ config \in {87, 117}
    BY <1>2, <2>1 DEF Disabling, Setting, Sent, Taken
  <2> QED
    BY <2>1, <2>2 DEF Disabling, Setting, Sent, other
<1>3. CASE pc = 3
  <2>1. Program[3] = <<"read", "flush">>
    BY AccessesOfProgram
  <2>2. 3 \in 1 .. 30
    OBVIOUS
  <2>3. /\ obf' = FALSE /\ pc' = 3 + 1 /\ UNCHANGED <<result, reset>>
        /\ UNCHANGED <<command, config, setConfig, out, own, answers, typed, resends>>
    BY <1>3, <2>1, <2>2, PlainReadStep, Zenon
  <2>4. Setting(167, 87, 119) \/ Setting(167, 117, 117)
    BY <1>3 DEF Disabling
  <2>5. Setting(167, 87, 119)' \/ Setting(167, 117, 117)'
    BY <2>3, <2>4 DEF Setting, Sent, Taken
  <2> QED
    BY <2>3, <2>5 DEF Disabling
<1>4. CASE pc = 4
  <2>0. Program[4] = <<"command", 32>>
    BY AccessesOfProgram
  <2>1. /\ Taken /\ Sent(32)' /\ pc' = 5
        /\ UNCHANGED <<other, config, setConfig, out, obf, own, answers, typed, resends>>
    BY <1>4, <2>0, CommandStep
  <2>2. own = <<>> /\ ~setConfig /\ ~obf /\ config \in Disabled
    BY <1>4, <2>1 DEF Disabling, Setting, Sent, Taken, Disabled
  <2>3. Asked(4, 32, config)'
    BY <2>1, <2>2 DEF Asked, Silent
  <2> QED
    BY <2>1, <2>2, <2>3 DEF Configuring, other
<1> QED
  BY <1>1, <1>2, <1>3, <1>4 DEF Disabling

(* an answer is awaited and read, *)
LEMMA AnswerRead ==
  ASSUME NEW q \in 0 .. 28, NEW byte, NEW answer, Asked(q, byte, answer), init_8042,
         Program[q + 1] = <<"await">>,
         NEW test, Program[q + 2] = <<"read", test>>, test \notin {"reset_ack", "reset_result"},
         ~Has(answer, CLOCK2_DISABLED) \/ test # "channels"
  PROVE  /\ \/ Asked(q, byte, answer)' /\ UNCHANGED cfg
            \/ pc = q + 2 /\ pc' = q + 3 /\ Quiet' /\ cfg' = answer /\ out' = answer
         /\ UNCHANGED <<result, reset, config, answers, typed, resends>>
<1>1. CASE pc = q + 1
  <2>1. /\ obf /\ pc' = q + 2
        /\ UNCHANGED <<other, command, config, setConfig, out, obf, own, answers, typed, resends>>
    BY <1>1, AwaitStep
  <2>2. Taken /\ own = <<>> /\ out = answer /\ ~setConfig
    BY <2>1 DEF Asked, Silent
  <2> QED
    BY <2>1, <2>2 DEF Asked, Taken, other
<1>2. CASE pc = q + 2
  <2>1. Taken /\ own = <<>> /\ out = answer /\ ~setConfig
    BY <1>2 DEF Asked
  <2>2. PICK r \in 1 .. 30 : r = q + 2
    OBVIOUS
  <2>3. /\ obf' = FALSE /\ cfg' = out /\ pc' = Following(test, out)
        /\ UNCHANGED <<result, reset>>
        /\ UNCHANGED <<command, config, setConfig, out, own, answers, typed, resends>>
    BY <1>2, <2>2, ReadStep
  <2>4. Following(test, out) = pc + 1
    BY <2>1 DEF Following
  <2> QED
    BY <1>2, <2>1, <2>3, <2>4 DEF Quiet, Taken, Silent
<1> QED
  BY <1>1, <1>2 DEF Asked

(* the configuration is read and written back, *)
LEMMA ConfiguringGoesOn ==
  ASSUME Configuring, init_8042
  PROVE  (Configuring' \/ Testing') /\ UNCHANGED <<result, reset, answers, resends, typed>>
<1>1. CASE Asked(4, 32, config) /\ config \in Disabled
  <2>1. PICK c : c = config
    OBVIOUS
  <2>2. Asked(4, 32, c)
    BY <1>1, <2>1, Zenon
  <2>0. Program[5] = <<"await">> /\ Program[6] = <<"read", "keep">>
    BY AccessesOfProgram
  <2>3. /\ \/ Asked(4, 32, c)' /\ UNCHANGED cfg
           \/ pc = 6 /\ pc' = 7 /\ Quiet' /\ cfg' = c
        /\ UNCHANGED <<result, reset, config, answers, typed, resends>>
    BY <2>2, <2>0, AnswerRead
  <2>4. config' = c
    BY <2>1, <2>3
  <2>5. CASE Asked(4, 32, c)'
    <3>1. Asked(4, 32, config)'
      BY <2>4, <2>5, Zenon
    <3> QED
      BY <1>1, <2>3, <3>1 DEF Configuring
  <2>6. CASE pc' = 7 /\ Quiet' /\ cfg' = c
    BY <1>1, <2>1, <2>3, <2>6 DEF Configuring
  <2> QED
    BY <2>3, <2>5, <2>6
<1>2. CASE pc = 7 /\ Quiet /\ config \in Disabled /\ cfg = config
  <2>0. Program[7] = <<"command", 96>>
    BY AccessesOfProgram
  <2>1. /\ Sent(96)' /\ pc' = 8
        /\ UNCHANGED <<other, config, setConfig, out, obf, own, answers, typed, resends>>
    BY <1>2, <2>0, CommandStep
  <2>2. Announced'
    BY <1>2, <2>1 DEF Announced, Quiet, Silent
  <2> QED
    BY <1>2, <2>1, <2>2 DEF Configuring, other
<1>3. CASE pc = 8 /\ Announced /\ config \in Disabled /\ cfg = config
  <2>0. Program[8] = <<"config", "disable_for_init">>
    BY AccessesOfProgram
  <2>1. /\ Taken /\ command' = <<"data", Changed("disable_for_init")>> /\ pc' = 9
        /\ UNCHANGED <<other, config, setConfig, out, obf, own, answers, typed, resends>>
    BY <1>3, <2>0, ConfigStep
  <2>2. cfg' \in Disabled
    BY <1>3, <2>1 DEF other
  <2>3. Changed("disable_for_init") = 52
    BY <1>3, ChangedConfigurations
  <2>4. Wrote(52)'
    BY <2>1, <2>3 DEF Wrote
  <2>6. Silent /\ setConfig
    BY <1>3, <2>1 DEF Announced, Sent, Taken
  <2>7. Configured(119, 52)' \/ Configured(117, 52)'
    BY <1>3, <2>1, <2>4, <2>6 DEF Configured, Silent, Disabled
  <2> QED
    BY <2>1, <2>7 DEF Configuring, other
<1>4. CASE pc = 9 /\ (Configured(119, 52) \/ Configured(117, 52))
  <2>0. Program[9] = <<"command", 170>>
    BY AccessesOfProgram
  <2>1. /\ Taken /\ Sent(170)' /\ pc' = 10
        /\ UNCHANGED <<other, config, setConfig, out, obf, own, answers, typed, resends>>
    BY <1>4, <2>0, CommandStep
  <2>2. Silent /\ ~setConfig /\ config = 52
    BY <1>4, <2>1 DEF Configured, Wrote, Taken
  <2>3. Asked(9, 170, 85)'
    BY <2>1, <2>2 DEF Asked, Silent
  <2> QED
    BY <2>1, <2>2, <2>3 DEF Testing, other
<1> QED
  BY <1>1, <1>2, <1>3, <1>4 DEF Configuring

(* One bit of the configuration decides about the second port. *)
LEMMA SecondPortFound == ~Has(20, CLOCK2_DISABLED)
BY SMT DEF Has, CLOCK2_DISABLED

(* and the tests are made. *)
LEMMA TestingGoesOn ==
  ASSUME Testing, init_8042
  PROVE  /\ \/ Testing'
            \/ pc = 20 /\ pc' = 21 /\ ~obf' /\ Setting(174, 52, 36)' /\ out' = 0
         /\ UNCHANGED <<result, reset, answers, resends, typed>>
<1>1. CASE Asked(9, 170, 85) /\ config = 52
  <2>0. Program[10] = <<"await">> /\ Program[11] = <<"read", "controller_test">>
    BY AccessesOfProgram
  <2>1. /\ Asked(9, 170, 85)' \/ (pc' = 12 /\ Quiet')
        /\ UNCHANGED <<result, reset, config, answers, typed, resends>>
    BY <1>1, <2>0, AnswerRead
  <2> QED
    BY <1>1, <2>1 DEF Testing
<1>2. CASE pc = 12 /\ Quiet /\ config = 52
  <2>0. Program[12] = <<"command", 168>>
    BY AccessesOfProgram
  <2>1. /\ Sent(168)' /\ pc' = 13
        /\ UNCHANGED <<other, config, setConfig, out, obf, own, answers, typed, resends>>
    BY <1>2, <2>0, CommandStep
  <2>2. Setting(168, 52, 20)' /\ ~obf'
    BY <1>2, <2>1 DEF Setting, Quiet, Silent
  <2> QED
    BY <2>1, <2>2 DEF Testing, other
<1>3. CASE pc = 13 /\ ~obf /\ Setting(168, 52, 20)
  <2>0. Program[13] = <<"command", 32>>
    BY AccessesOfProgram
  <2>1. /\ Taken /\ Sent(32)' /\ pc' = 14
        /\ UNCHANGED <<other, config, setConfig, out, obf, own, answers, typed, resends>>
    BY <1>3, <2>0, CommandStep
  <2>2. own = <<>> /\ ~setConfig /\ config = 20
    BY <1>3, <2>1 DEF Setting, Sent, Taken
  <2>3. Asked(13, 32, 20)'
    BY <1>3, <2>1, <2>2 DEF Asked, Silent
  <2> QED
    BY <2>1, <2>2, <2>3 DEF Testing, other
<1>4. CASE Asked(13, 32, 20) /\ config = 20
  <2>0. Program[14] = <<"await">> /\ Program[15] = <<"read", "channels">>
    BY AccessesOfProgram
  <2>1. /\ Asked(13, 32, 20)' \/ (pc' = 16 /\ Quiet')
        /\ UNCHANGED <<result, reset, config, answers, typed, resends>>
    BY <1>4, <2>0, AnswerRead, SecondPortFound
  <2> QED
    BY <1>4, <2>1 DEF Testing
<1>5. CASE pc = 16 /\ Quiet /\ config = 20
  <2>0. Program[16] = <<"command", 167>>
    BY AccessesOfProgram
  <2>1. /\ Sent(167)' /\ pc' = 17
        /\ UNCHANGED <<other, config, setConfig, out, obf, own, answers, typed, resends>>
    BY <1>5, <2>0, CommandStep
  <2>2. Setting(167, 20, 52)' /\ ~obf'
    BY <1>5, <2>1 DEF Setting, Quiet, Silent
  <2> QED
    BY <2>1, <2>2 DEF Testing, other
<1>6. CASE pc = 17 /\ ~obf /\ Setting(167, 20, 52)
  <2>0. Program[17] = <<"command", 171>>
    BY AccessesOfProgram
  <2>1. /\ Taken /\ Sent(171)' /\ pc' = 18
        /\ UNCHANGED <<other, config, setConfig, out, obf, own, answers, typed, resends>>
    BY <1>6, <2>0, CommandStep
  <2>2. own = <<>> /\ ~setConfig /\ config = 52
    BY <1>6, <2>1 DEF Setting, Sent, Taken
  <2>3. Asked(17, 171, 0)'
    BY <1>6, <2>1, <2>2 DEF Asked, Silent
  <2> QED
    BY <2>1, <2>2, <2>3 DEF Testing, other
<1>7. CASE Asked(17, 171, 0) /\ config = 52
  <2>0. Program[18] = <<"await">> /\ Program[19] = <<"read", "port_test">>
    BY AccessesOfProgram
  <2>1. /\ Asked(17, 171, 0)' \/ (pc' = 20 /\ Quiet' /\ out' = 0)
        /\ UNCHANGED <<result, reset, config, answers, typed, resends>>
    BY <1>7, <2>0, AnswerRead
  <2> QED
    BY <1>7, <2>1 DEF Testing
<1>8. CASE pc = 20 /\ Quiet /\ config = 52 /\ out = 0
  <2>0. Program[20] = <<"command", 174>>
    BY AccessesOfProgram
  <2>1. /\ Sent(174)' /\ pc' = 21
        /\ UNCHANGED <<other, config, setConfig, out, obf, own, answers, typed, resends>>
    BY <1>8, <2>0, CommandStep
  <2>2. Setting(174, 52, 36)' /\ ~obf'
    BY <1>8, <2>1 DEF Setting, Quiet, Silent
  <2> QED
    BY <1>8, <2>1, <2>2 DEF other
<1> QED
  BY <1>1, <1>2, <1>3, <1>4, <1>5, <1>6, <1>7, <1>8 DEF Testing

(* All of that is before the reset, which begins when nothing is left over. *)
LEMMA BeforeResetGoesOn ==
  ASSUME BeforeReset, init_8042
  PROVE  /\ BeforeReset' \/ (Enabling' /\ result' = "running")
         /\ UNCHANGED <<resends, typed>>
<1>1. CASE Disabling
  <2>1. (Disabling' \/ Configuring') /\ UNCHANGED <<result, reset, answers, resends, typed>>
    BY <1>1, DisablingGoesOn
  <2> QED
    BY <2>1 DEF BeforeReset
<1>2. CASE Configuring
  <2>1. (Configuring' \/ Testing') /\ UNCHANGED <<result, reset, answers, resends, typed>>
    BY <1>2, ConfiguringGoesOn
  <2> QED
    BY <2>1 DEF BeforeReset
<1>3. CASE Testing
  <2>1. /\ Testing' \/ (pc' = 21 /\ ~obf' /\ Setting(174, 52, 36)' /\ out' = 0)
        /\ UNCHANGED <<result, reset, answers, resends, typed>>
    BY <1>3, TestingGoesOn
  <2> QED
    BY <2>1 DEF BeforeReset, Enabling
<1> QED
  BY <1>1, <1>2, <1>3 DEF BeforeReset

(* The controller's part in it, *)
LEMMA DisablingReplies ==
  ASSUME Disabling, answers = <<>>, Replies
  PROVE  Disabling' /\ UNCHANGED <<program, keyboard>>
<1>1. CASE pc = 1 /\ Taken /\ own = <<>> /\ ~setConfig /\ config \in {71, 101}
  BY <1>1
  DEF Replies, Taken, Take, TakeSetting, TakeQuery, TakeConfig, TakeReset, AnswerQuery, Answer
<1>2. CASE pc = 2 /\ (Setting(173, 71, 87) \/ Setting(173, 101, 117))
  <2>1. Configures(173, 71, 87) /\ Configures(173, 101, 117)
    BY Configurations DEF Configures
  <2>2. /\ Setting(173, 71, 87)' \/ Setting(173, 101, 117)'
        /\ UNCHANGED <<program, out, obf, keyboard>>
    BY <1>2, <2>1, SettingStays
  <2> QED
    BY <1>2, <2>2 DEF Disabling, program
<1>3. CASE pc \in {3, 4} /\ (Setting(167, 87, 119) \/ Setting(167, 117, 117))
  <2>1. Configures(167, 87, 119) /\ Configures(167, 117, 117)
    BY Configurations DEF Configures
  <2>2. /\ Setting(167, 87, 119)' \/ Setting(167, 117, 117)'
        /\ UNCHANGED <<program, out, obf, keyboard>>
    BY <1>3, <2>1, SettingStays
  <2> QED
    BY <1>3, <2>2 DEF Disabling, program
<1> QED
  BY <1>1, <1>2, <1>3 DEF Disabling

(* in the change of the configuration, *)
LEMMA ConfiguringReplies ==
  ASSUME Configuring, answers = <<>>, Replies
  PROVE  Configuring' /\ UNCHANGED <<program, keyboard>>
<1>1. CASE Asked(4, 32, config) /\ config \in Disabled
  <2>1. PICK c : c = config
    OBVIOUS
  <2>2. Asked(4, 32, c)
    BY <1>1, <2>1, Zenon
  <2>3. Asked(4, 32, c)' /\ UNCHANGED <<program, config, keyboard>>
    BY <2>1, <2>2, AskedStays
  <2>4. config' = c
    BY <2>1, <2>3
  <2>5. Asked(4, 32, config)'
    BY <2>3, <2>4, Zenon
  <2> QED
    BY <1>1, <2>3, <2>5 DEF Configuring
<1>2. CASE pc = 7 /\ Quiet /\ config \in Disabled /\ cfg = config
  BY <1>2, QuietStays
<1>3. CASE pc = 8 /\ Announced /\ config \in Disabled /\ cfg = config
  <2>1. Announced' /\ UNCHANGED <<program, config, out, obf, keyboard>>
    BY <1>3, AnnouncedStays
  <2> QED
    BY <1>3, <2>1 DEF Configuring, program
<1>4. CASE pc = 9 /\ (Configured(119, 52) \/ Configured(117, 52))
  <2>1. /\ Configured(119, 52)' \/ Configured(117, 52)'
        /\ UNCHANGED <<program, out, obf, keyboard>>
    BY <1>4, ConfiguredStays
  <2> QED
    BY <1>4, <2>1 DEF Configuring, program
<1> QED
  BY <1>1, <1>2, <1>3, <1>4 DEF Configuring

(* and in the tests. *)
LEMMA TestingReplies ==
  ASSUME Testing, answers = <<>>, Replies
  PROVE  Testing' /\ UNCHANGED <<program, keyboard>>
<1>1. CASE Asked(9, 170, 85) /\ config = 52
  <2>1. Asked(9, 170, 85)' /\ UNCHANGED <<program, config, keyboard>>
    BY <1>1, AskedStays
  <2> QED
    BY <1>1, <2>1 DEF Testing
<1>2. CASE Quiet
  BY <1>2, QuietStays
<1>3. CASE pc = 13 /\ ~obf /\ Setting(168, 52, 20)
  <2>1. Configures(168, 52, 20)
    BY Configurations DEF Configures
  <2>2. Setting(168, 52, 20)' /\ UNCHANGED <<program, out, obf, keyboard>>
    BY <1>3, <2>1, SettingStays
  <2> QED
    BY <1>3, <2>2 DEF Testing, program
<1>4. CASE Asked(13, 32, 20) /\ config = 20
  <2>1. Asked(13, 32, 20)' /\ UNCHANGED <<program, config, keyboard>>
    BY <1>4, AskedStays
  <2> QED
    BY <1>4, <2>1 DEF Testing
<1>5. CASE pc = 17 /\ ~obf /\ Setting(167, 20, 52)
  <2>1. Configures(167, 20, 52)
    BY Configurations DEF Configures
  <2>2. Setting(167, 20, 52)' /\ UNCHANGED <<program, out, obf, keyboard>>
    BY <1>5, <2>1, SettingStays
  <2> QED
    BY <1>5, <2>2 DEF Testing, program
<1>6. CASE Asked(17, 171, 0) /\ config = 52
  <2>1. Asked(17, 171, 0)' /\ UNCHANGED <<program, config, keyboard>>
    BY <1>6, AskedStays
  <2> QED
    BY <1>6, <2>1 DEF Testing
<1> QED
  BY <1>1, <1>2, <1>3, <1>4, <1>5, <1>6 DEF Testing

(* So the conversation stays where it is while the controller replies. *)
LEMMA BeforeResetReplies ==
  ASSUME BeforeReset, Replies
  PROVE  BeforeReset'
<1>1. answers = <<>>
  BY DEF BeforeReset
<1>2. (Disabling' \/ Configuring' \/ Testing') /\ UNCHANGED <<program, keyboard>>
  BY <1>1, DisablingReplies, ConfiguringReplies, TestingReplies DEF BeforeReset
<1> QED
  BY <1>2 DEF BeforeReset, program, keyboard

(* A key typed before the port is disabled changes nothing, and afterwards *)
(* none can be sent.                                                       *)
LEMMA BeforeResetTyped ==
  ASSUME BeforeReset, Type
  PROVE  BeforeReset'
<1>1. config \notin {87, 117, 119, 52, 20}
  BY Deaf DEF Type, Heard
<1>2. \/ pc = 1 /\ Taken /\ own = <<>> /\ ~setConfig /\ config \in {71, 101}
      \/ pc = 2 /\ (Setting(173, 71, 87) \/ Setting(173, 101, 117))
  <2>1. ~Configuring
    BY <1>1 DEF Configuring, Configured, Disabled
  <2>2. ~Testing
    BY <1>1 DEF Testing, Setting
  <2>3. Disabling
    BY <2>1, <2>2 DEF BeforeReset
  <2> QED
    BY <1>1, <2>3 DEF Disabling, Setting
<1>3. UNCHANGED <<program, command, config, setConfig, own, answers, resends>>
  BY DEF Type
<1>4. Disabling'
  BY <1>2, <1>3 DEF Disabling, Setting, Sent, Taken, program
<1> QED
  BY <1>3, <1>4 DEF BeforeReset, program

-----------------------------------------------------------------------------
(* The reset and what comes after it.                                      *)

(* The reset is sent once the port is enabled, *)
LEMMA EnablingGoesOn ==
  ASSUME Enabling, init_8042
  PROVE  Resetting' /\ pc' = 22 /\ UNCHANGED <<result, resends, typed>>
<1>1. Program[21] = <<"data", 255>>
  BY AccessesOfProgram
<1>2. pc = 21
  BY DEF Enabling
<1>3. /\ Taken /\ Wrote(255)' /\ pc' = 22
      /\ UNCHANGED <<other, config, setConfig, out, obf, own, answers, typed, resends>>
  BY <1>1, <1>2, DataStep
<1>4. /\ ~obf /\ own = <<>> /\ ~setConfig /\ config = 36 /\ answers = <<>> /\ out = 0 /\ reset = {}
  BY <1>3 DEF Enabling, Setting, Sent, Taken
<1> QED
  BY <1>3, <1>4 DEF Resetting, other

(* Where a read that belongs to the reset leads. *)
LEMMA ResetFollowing ==
  /\ Following("reset_ack", 0) = 26
  /\ pc = 23 => Following("reset_ack", Ack) = 24
  /\ pc = 25 => \A value : Following("reset_result", value) = 26
BY Places DEF Following, Ack, Resend

(* the acknowledgement is read, or read too early, *)
LEMMA ResettingGoesOn ==
  ASSUME Resetting, init_8042, result = "running"
  PROVE  /\ UNCHANGED <<result, resends, typed>>
         /\ \/ pc' \in {22, 23} /\ Resetting'
            \/ pc' = 24 /\ Acknowledged'
            \/ pc' = 26 /\ Unseen'
<1>1. CASE pc = 22
  <2>1. Program[22] = <<"peek">>
    BY AccessesOfProgram
  <2>2. /\ pc' = 23
        /\ UNCHANGED <<other, command, config, setConfig, out, obf, own, answers, typed, resends>>
    BY <1>1, <2>1, PeekStep
  <2>3. Resetting'
    BY <2>2 DEF Resetting, Wrote, Taken, other
  <2> QED
    BY <2>2, <2>3 DEF other
<1>2. CASE pc = 23
  <2>1. Program[23] = <<"read", "reset_ack">>
    BY AccessesOfProgram
  <2>2. 23 \in 1 .. 30
    OBVIOUS
  <2>3. /\ obf' = FALSE /\ pc' = Following("reset_ack", out)
        /\ result' = (IF "reset_ack" = "reset_result" /\ out # Passed THEN "failed" ELSE result)
        /\ reset' = reset \cup (IF "reset_ack" = "reset_ack" /\ out = Ack THEN {"ack"} ELSE {})
                      \cup (IF "reset_ack" = "reset_result" /\ out = Passed THEN {"passed"} ELSE {})
        /\ UNCHANGED <<command, config, setConfig, out, own, answers, typed, resends>>
    BY <1>2, <2>1, <2>2, ReadStep, Zenon
  <2>4. CASE out = 0
    <3>1. pc' = 26 /\ result' = result /\ reset' = {}
      BY <2>3, <2>4, ResetFollowing DEF Resetting, Ack
    <3> QED
      BY <2>3, <3>1 DEF Unseen, AllSeen
  <2>5. CASE out = Ack
    <3>1. pc' = 24 /\ result' = result /\ reset' = {"ack"}
      BY <1>2, <2>3, <2>5, ResetFollowing DEF Resetting
    <3>2. Taken /\ config = 36 /\ own = <<>> /\ ~setConfig /\ \E t \in {Passed, Failed} : answers = <<t>>
      BY <2>5 DEF Resetting, Ack
    <3>3. Acknowledged'
      BY <2>3, <2>5, <3>1, <3>2 DEF Acknowledged, Taken
    <3> QED
      BY <2>3, <3>1, <3>3
  <2> QED
    BY <2>4, <2>5 DEF Resetting
<1> QED
  BY <1>1, <1>2 DEF Resetting

(* and so is the result. *)
LEMMA AcknowledgedGoesOn ==
  ASSUME Acknowledged, init_8042, result = "running"
  PROVE  /\ UNCHANGED <<resends, typed>>
         /\ \/ pc' = 25 /\ Acknowledged' /\ result' = "running"
            \/ pc' = 26 /\ (Finishing' \/ Unseen')
<1>1. CASE pc = 24
  <2>1. Program[24] = <<"peek">>
    BY AccessesOfProgram
  <2>2. /\ pc' = 25
        /\ UNCHANGED <<other, command, config, setConfig, out, obf, own, answers, typed, resends>>
    BY <1>1, <2>1, PeekStep
  <2>3. Acknowledged'
    BY <2>2 DEF Acknowledged, Taken, other
  <2> QED
    BY <2>2, <2>3 DEF other
<1>2. CASE pc = 25
  <2>1. Program[25] = <<"read", "reset_result">>
    BY AccessesOfProgram
  <2>2. 25 \in 1 .. 30
    OBVIOUS
  <2>3. /\ obf' = FALSE /\ pc' = Following("reset_result", out)
        /\ result' = (IF "reset_result" = "reset_result" /\ out # Passed THEN "failed" ELSE result)
        /\ reset' = reset \cup (IF "reset_result" = "reset_ack" /\ out = Ack THEN {"ack"} ELSE {})
                      \cup (IF "reset_result" = "reset_result" /\ out = Passed THEN {"passed"} ELSE {})
        /\ UNCHANGED <<command, config, setConfig, out, own, answers, typed, resends>>
    BY <1>2, <2>1, <2>2, ReadStep, Zenon
  <2>4. pc' = 26
    BY <1>2, <2>3, ResetFollowing
  <2>5. CASE out = Passed
    <3>1. result' = "running" /\ reset' = AllSeen
      BY <2>3, <2>5 DEF Acknowledged, AllSeen
    <3>2. Taken /\ config = 36 /\ own = <<>> /\ ~setConfig /\ answers = <<>>
      BY <2>5 DEF Acknowledged, Ack, Passed
    <3>3. Quiet' /\ config' = 36 /\ answers' = <<>>
      BY <2>3, <3>2 DEF Quiet, Taken, Silent
    <3>4. Finishing'
      BY <2>4, <3>1, <3>3 DEF Finishing
    <3> QED
      BY <2>3, <2>4, <3>4
  <2>6. CASE out # Passed
    <3>1. reset' = {"ack"}
      BY <2>3, <2>6 DEF Acknowledged
    <3>2. Unseen'
      BY <2>4, <3>1 DEF Unseen, AllSeen
    <3> QED
      BY <2>3, <2>4, <3>2
  <2> QED
    BY <2>5, <2>6
<1> QED
  BY <1>1, <1>2 DEF Acknowledged

(* init_8042 has returned, and the controller has the last byte or will. *)
Returned ==
  /\ result = "initialized" /\ reset = AllSeen /\ answers = <<>> /\ pc = 31
  /\ Configured(36, 37)

(* The interrupt of the port is turned on. *)
LEMMA FinishingGoesOn ==
  ASSUME Finishing, init_8042
  PROVE  (Finishing' \/ Returned') /\ UNCHANGED <<resends, typed>>
<1>1. CASE pc = 26 /\ Quiet /\ config = 36
  <2>1. Program[26] = <<"command", 32>>
    BY AccessesOfProgram
  <2>2. /\ Sent(32)' /\ pc' = 27
        /\ UNCHANGED <<other, config, setConfig, out, obf, own, answers, typed, resends>>
    BY <1>1, <2>1, CommandStep
  <2>3. Asked(26, 32, 36)'
    BY <1>1, <2>2 DEF Asked, Quiet, Silent
  <2> QED
    BY <1>1, <2>2, <2>3 DEF Finishing, other
<1>2. CASE Asked(26, 32, 36) /\ config = 36
  <2>1. Program[27] = <<"await">> /\ Program[28] = <<"read", "keep">>
    BY AccessesOfProgram
  <2>2. /\ Asked(26, 32, 36)' \/ (pc' = 29 /\ Quiet' /\ cfg' = 36)
        /\ UNCHANGED <<result, reset, config, answers, typed, resends>>
    BY <1>2, <2>1, AnswerRead
  <2> QED
    BY <1>2, <2>2 DEF Finishing
<1>3. CASE pc = 29 /\ Quiet /\ config = 36 /\ cfg = 36
  <2>1. Program[29] = <<"command", 96>>
    BY AccessesOfProgram
  <2>2. /\ Sent(96)' /\ pc' = 30
        /\ UNCHANGED <<other, config, setConfig, out, obf, own, answers, typed, resends>>
    BY <1>3, <2>1, CommandStep
  <2>3. Announced'
    BY <1>3, <2>2 DEF Announced, Quiet, Silent
  <2> QED
    BY <1>3, <2>2, <2>3 DEF Finishing, other
<1>4. CASE pc = 30 /\ Announced /\ config = 36 /\ cfg = 36
  <2>1. Program[30] = <<"config", "enable_port_1">>
    BY AccessesOfProgram
  <2>2. /\ Taken /\ command' = <<"data", Changed("enable_port_1")>> /\ pc' = 31
        /\ UNCHANGED <<other, config, setConfig, out, obf, own, answers, typed, resends>>
    BY <1>4, <2>1, ConfigStep
  <2>3. Wrote(37)'
    BY <1>4, <2>2, ChangedConfigurations DEF Wrote
  <2>4. Silent /\ setConfig
    BY <1>4, <2>2 DEF Announced, Sent, Taken
  <2>5. Configured(36, 37)'
    BY <1>4, <2>2, <2>3, <2>4 DEF Configured, Silent
  <2> QED
    BY <2>2, <2>5 DEF Finishing, other
<1>5. CASE pc = 31 /\ Configured(36, 37)
  <2>1. Len(Program) = 30
    BY AccessesOfProgram
  <2>2. Done
    BY <1>5, <2>1 DEF init_8042, Write, Await, Peek, Read, Running
  <2>3. Configured(36, 37)'
    BY <1>5, <2>2 DEF Done, Configured, Wrote, Taken, Silent
  <2> QED
    BY <1>5, <2>2, <2>3 DEF Done, Finishing, Returned, keyboard
<1> QED
  BY <1>1, <1>2, <1>3, <1>4, <1>5 DEF Finishing

(* Nothing brings init_8042 back before the reset; *)
LEMMA PastReset ==
  ASSUME pc \in 21 .. 31, init_8042
  PROVE  pc' \in 21 .. 31 /\ (pc >= 26 => pc' >= 26 /\ reset' = reset)
<1>1. Len(Program) = 30
  BY AccessesOfProgram
<1>2. CASE ~Read
  <2>1. (pc <= 30 /\ pc' = pc + 1 /\ reset' = reset) \/ (pc' = pc /\ reset' = reset)
    BY <1>1, <1>2 DEF init_8042, Write, Await, Peek, Done, Running, Advance
  <2> QED
    BY <2>1
<1>3. CASE Read
  <2>1. pc <= 30 /\ pc' = Following(Access[2], out) /\ Access[1] = "read"
    BY <1>1, <1>3 DEF Read, Running
  <2>2. pc \in {23, 25, 28}
    BY <2>1, AccessesOfProgram DEF Access
  <2>3. pc' \in {pc + 1, 21, 26}
    <3>1. Access[2] # "channels"
      BY <2>2, AccessesOfProgram DEF Access
    <3> QED
      BY <2>1, <3>1, Places DEF Following
  <2>4. pc = 28 => pc' = 29 /\ reset' = reset
    <3>1. pc = 28 => Access[2] = "keep"
      BY AccessesOfProgram DEF Access
    <3> QED
      BY <1>3, <2>1, <3>1 DEF Read, Following
  <2> QED
    BY <2>2, <2>3, <2>4
<1> QED
  BY <1>2, <1>3

(* a start whose reset was not seen to succeed stays one. *)
LEMMA UnseenStays ==
  ASSUME Unseen, pc \in 21 .. 31, init_8042
  PROVE  Unseen'
BY PastReset DEF Unseen

(* The controller takes the command, *)
LEMMA EnablingReplies ==
  ASSUME Enabling, Replies
  PROVE  Enabling' /\ UNCHANGED <<program, keyboard>>
<1>1. Configures(174, 52, 36)
  BY Configurations DEF Configures
<1>2. Setting(174, 52, 36)' /\ UNCHANGED <<program, out, obf, keyboard>>
  BY <1>1, SettingStays DEF Enabling
<1> QED
  BY <1>2 DEF Enabling, program, keyboard

(* the keyboard acknowledges the reset or asks for it again, *)
LEMMA ResettingReplies ==
  ASSUME Resetting, Replies
  PROVE  UNCHANGED <<program, typed>> /\ (Resetting' \/ resends' = resends + 1)
<1>1. CASE Wrote(255) /\ ~obf /\ out = 0 /\ answers = <<>>
  <2>1. TakeReset
    BY <1>1
    DEF Resetting, Replies, Wrote, Take, TakeSetting, TakeQuery, TakeConfig, AnswerQuery,
        Answer
  <2>2. CASE \E test \in {Passed, Failed} : answers' = <<Ack, test>> /\ UNCHANGED resends
    BY <1>1, <2>1, <2>2 DEF TakeReset, Resetting, Taken, program
  <2> QED
    BY <2>1, <2>2 DEF TakeReset, program
<1>2. CASE Taken /\ ~obf /\ out = 0 /\ \E t \in {Passed, Failed} : answers = <<Ack, t>>
  <2>1. Answer
    BY <1>2
    DEF Resetting, Taken, Replies, Take, TakeSetting, TakeQuery, TakeConfig, TakeReset,
        AnswerQuery
  <2>2. out' = Ack /\ \E t \in {Passed, Failed} : answers' = <<t>>
    BY <1>2, <2>1 DEF Answer
  <2> QED
    BY <1>2, <2>1, <2>2 DEF Answer, Resetting, Taken, program
<1>3. CASE Taken /\ obf /\ out = Ack /\ \E t \in {Passed, Failed} : answers = <<t>>
  BY <1>3
  DEF Resetting, Taken, Replies, Take, TakeSetting, TakeQuery, TakeConfig, TakeReset,
      AnswerQuery,
     Answer, Heard
<1> QED
  BY <1>1, <1>2, <1>3 DEF Resetting

(* and sends the result of its test. *)
LEMMA AcknowledgedReplies ==
  ASSUME Acknowledged, Replies
  PROVE  Acknowledged' /\ UNCHANGED <<program, typed, resends>>
<1>1. Answer
  BY
  DEF Acknowledged, Taken, Replies, Take, TakeSetting, TakeQuery, TakeConfig, TakeReset,
      AnswerQuery
<1>2. ~obf /\ \E t \in {Passed, Failed} : answers = <<t>>
  BY <1>1 DEF Acknowledged, Answer, Heard
<1>3. out' \in {Passed, Failed} /\ answers' = <<>>
  BY <1>1, <1>2 DEF Answer
<1> QED
  BY <1>1, <1>3 DEF Answer, Acknowledged, Taken, program

(* The last exchange with the controller, *)
LEMMA FinishingReplies ==
  ASSUME Finishing, Replies
  PROVE  Finishing' /\ UNCHANGED <<program, keyboard>>
<1>1. answers = <<>>
  BY DEF Finishing
<1>2. CASE Quiet
  BY <1>1, <1>2, QuietStays
<1>3. CASE Asked(26, 32, 36) /\ config = 36
  <2>1. Asked(26, 32, 36)' /\ UNCHANGED <<program, config, keyboard>>
    BY <1>1, <1>3, AskedStays
  <2> QED
    BY <1>3, <2>1 DEF Finishing, program, keyboard
<1>4. CASE pc = 30 /\ Announced /\ config = 36 /\ cfg = 36
  <2>1. Announced' /\ UNCHANGED <<program, config, out, obf, keyboard>>
    BY <1>1, <1>4, AnnouncedStays
  <2> QED
    BY <1>4, <2>1 DEF Finishing, program, keyboard
<1>5. CASE pc = 31 /\ Configured(36, 37)
  <2>1. Configured(36, 37)' /\ UNCHANGED <<program, out, obf, keyboard>>
    BY <1>1, <1>5, ConfiguredStays
  <2> QED
    BY <1>5, <2>1 DEF Finishing, program, keyboard
<1> QED
  BY <1>2, <1>3, <1>4, <1>5 DEF Finishing

(* of which the end may come after init_8042 has returned. *)
LEMMA StartedReplies ==
  ASSUME Started, Replies, UNCHANGED pushed
  PROVE  Started' /\ UNCHANGED <<program, typed, resends>>
<1>1. ~AnswerQuery /\ ~Answer
  BY DEF Started, AnswerQuery, Answer
<1>2. command # <<>>
  BY <1>1 DEF Replies, Take, TakeSetting, TakeQuery, TakeConfig, TakeReset
<1>3. command = <<"data", 37>> /\ setConfig
  BY <1>2 DEF Started, Wrote, Taken
<1>4. TakeConfig
  BY <1>1, <1>3 DEF Replies, Take, TakeSetting, TakeQuery, TakeReset
<1>5. config' = 37
  BY <1>3, <1>4 DEF TakeConfig
<1>6. Counting'
  BY <1>4 DEF Started, Counting, TakeConfig, keyboard
<1> QED
  BY <1>4, <1>5, <1>6 DEF TakeConfig, Started, Taken, program, keyboard

(* From then on a key is sent, *)
LEMMA StartedTyped ==
  ASSUME Started, Type, UNCHANGED pushed, typed \in Nat
  PROVE  Started'
<1>1. Counting'
  BY DEF Started, Counting, Type, Heard
<1> QED
  BY <1>1 DEF Started, Type, Wrote, Taken, program

(* and read. *)
LEMMA StartedRead ==
  ASSUME Started, obf, obf' = FALSE, pushed' = Append(pushed, out),
         UNCHANGED <<program, command, config, setConfig, out, own, keyboard>>
  PROVE  Started'
<1>1. out = Key /\ typed = Len(pushed) + 1 /\ pushed \in Seq({Key})
  BY DEF Started, Counting
<1>2. Len(pushed') = Len(pushed) + 1 /\ pushed' \in Seq({Key})
  BY <1>1
<1>3. Counting'
  BY <1>1, <1>2 DEF Counting, keyboard
<1> QED
  BY <1>3 DEF Started, Wrote, Taken, program, keyboard

-----------------------------------------------------------------------------
(* The conversation within the whole program.                              *)

(* A step elsewhere leaves it as it is. *)
LEMMA ElsewhereKeepsStart ==
  ASSUME StartInv, UNCHANGED <<ps2Vars, pushed>>, Clean' => Clean
  PROVE  StartInv'
<1>1. UNCHANGED <<pc, result, cfg, reset, command, config, setConfig, out, obf, own, answers, typed,
                  resends, pushed>>
  BY DEF ps2Vars
<1>2. BeforeReset' <=> BeforeReset
  BY <1>1
  DEF BeforeReset, Disabling, Configuring, Testing, Setting, Announced, Configured, Asked,
      Quiet,
     Silent, Taken, Sent, Wrote
<1>3. Conversation' <=> Conversation
  BY <1>1
  DEF Conversation, Enabling, Resetting, Acknowledged, Finishing, Unseen, Started, Counting,
     Setting, Announced, Configured, Asked, Quiet, Silent, Taken, Sent, Wrote
<1> QED
  BY <1>1, <1>2, <1>3 DEF StartInv

(* A step of init_8042, *)
LEMMA ProgramKeepsStart ==
  ASSUME StartInv, Counts, Polled, InitKeyboard
  PROVE  StartInv'
<1>1. init_8042 /\ UNCHANGED <<cpu, pushed, early>>
  BY DEF InitKeyboard, Polling
<1>2. CASE BeforeReset
  <2>1. CASE BeforeReset'
    BY <2>1 DEF StartInv
  <2>2. CASE Enabling' /\ result' = "running"
    BY <2>2 DEF Enabling, StartInv, Conversation
  <2> QED
    BY <1>1, <1>2, <2>1, <2>2, BeforeResetGoesOn
<1>3. CASE pc \in 21 .. 31 /\ (Clean => Conversation)
  <2>1. pc' \in 21 .. 31
    BY <1>1, <1>3, PastReset
  <2>2. ASSUME Clean' PROVE Conversation'
    <3>1. UNCHANGED <<typed, resends>>
      BY <1>1 DEF init_8042, Write, Await, Peek, Read, Done, keyboard
    <3>2. Clean /\ Conversation
      BY <1>1, <1>3, <2>2, <3>1 DEF Clean
    <3>3. CASE result = "running" /\ Enabling
      BY <1>1, <3>3, EnablingGoesOn DEF Conversation
    <3>4. CASE result = "running" /\ Resetting
      BY <1>1, <3>4, ResettingGoesOn DEF Conversation
    <3>5. CASE result = "running" /\ Acknowledged
      BY <1>1, <3>5, AcknowledgedGoesOn DEF Conversation
    <3>6. CASE Finishing
      <4>1. cpu = "boot" /\ pushed = <<>> /\ typed = 0
        BY <3>2, <3>6 DEF Finishing, Polled, Clean
      <4>2. pushed' = <<>> /\ typed' = 0
        BY <1>1, <3>1, <4>1
      <4>3. Finishing' \/ Returned'
        BY <1>1, <3>6, FinishingGoesOn
      <4>4. Returned' => Started'
        BY <4>2 DEF Returned, Started, Counting, Configured, Silent, Taken, Wrote
      <4> QED
        BY <4>3, <4>4 DEF Conversation
    <3>7. CASE Unseen
      BY <1>1, <1>3, <3>7, UnseenStays DEF Conversation
    <3>8. CASE Started
      <4>1. FALSE
        <5>1. ~Running("command") /\ ~Running("data") /\ ~Running("config") /\ ~Running("await")
              /\ ~Running("peek") /\ ~Running("read") /\ result # "running"
          BY <3>8 DEF Started, Running
        <5> QED
          BY <1>1, <5>1 DEF init_8042, Write, Await, Peek, Read, Done
      <4> QED
        BY <4>1
    <3> QED
      BY <3>2, <3>3, <3>4, <3>5, <3>6, <3>7, <3>8 DEF Conversation
  <2> QED
    BY <2>1, <2>2 DEF StartInv
<1> QED
  BY <1>2, <1>3 DEF StartInv

(* one of the controller or of the keyboard, *)
LEMMA ControllerKeepsStart ==
  ASSUME StartInv, Counts, Polled, Controller
  PROVE  StartInv'
<1>1. Replies /\ UNCHANGED <<cpu, pushed, early>>
  BY DEF Controller, Polling, Replies
<1>2. UNCHANGED <<program, typed>> /\ resends' \in {resends, resends + 1}
  BY <1>1
  DEF Replies, Take, TakeSetting, TakeQuery, TakeConfig, TakeReset, AnswerQuery, Answer,
      keyboard
<1>3. CASE BeforeReset
  BY <1>1, <1>3, BeforeResetReplies DEF StartInv
<1>4. CASE pc \in 21 .. 31 /\ (Clean => Conversation)
  <2>1. ASSUME Clean' PROVE Conversation'
    <3>1. resends' = 0 /\ resends \in Nat
      BY <2>1 DEF Clean, Counts
    <3>2. resends = 0 /\ resends' # resends + 1
      BY <1>2, <3>1
    <3>3. Clean /\ Conversation
      BY <1>1, <1>2, <1>4, <2>1, <3>2 DEF Clean
    <3>4. result' = result
      BY <1>2 DEF program
    <3>5. CASE result = "running" /\ Enabling
      BY <1>1, <3>4, <3>5, EnablingReplies DEF Conversation
    <3>6. CASE result = "running" /\ Resetting
      BY <1>1, <3>2, <3>4, <3>6, ResettingReplies DEF Conversation
    <3>7. CASE result = "running" /\ Acknowledged
      BY <1>1, <3>4, <3>7, AcknowledgedReplies DEF Conversation
    <3>8. CASE Finishing
      BY <1>1, <3>8, FinishingReplies DEF Conversation
    <3>9. CASE Unseen
      BY <1>2, <3>9 DEF Unseen, Conversation, program
    <3>10. CASE Started
      BY <1>1, <3>10, StartedReplies DEF Conversation
    <3> QED
      BY <3>3, <3>5, <3>6, <3>7, <3>8, <3>9, <3>10 DEF Conversation
  <2> QED
    BY <1>2, <1>4, <2>1 DEF StartInv, program
<1> QED
  BY <1>3, <1>4 DEF StartInv

(* a key, *)
LEMMA KeyKeepsStart ==
  ASSUME StartInv, Counts, Polled, Polling(Type)
  PROVE  StartInv'
<1>1. Type /\ UNCHANGED <<cpu, pushed, early>>
  BY DEF Polling
<1>2. UNCHANGED <<program, resends>> /\ typed' = typed + 1
  BY <1>1 DEF Type
<1>3. CASE BeforeReset
  BY <1>1, <1>3, BeforeResetTyped DEF StartInv
<1>4. CASE pc \in 21 .. 31 /\ (Clean => Conversation)
  <2>1. ASSUME Clean' PROVE Conversation'
    <3>1. cpu # "boot"
      BY <1>1, <1>2, <2>1 DEF Clean, Counts
    <3>2. result # "running"
      BY <3>1 DEF Polled
    <3>3. Clean
      BY <1>1, <1>2, <2>1, <3>1 DEF Clean
    <3>4. CASE Unseen
      BY <1>2, <3>4 DEF Unseen, Conversation, program
    <3>5. CASE Started
      BY <1>1, <3>5, StartedTyped DEF Conversation, Counts
    <3> QED
      BY <1>4, <3>2, <3>3, <3>4, <3>5 DEF Conversation, Finishing
  <2> QED
    BY <1>2, <1>4, <2>1 DEF StartInv, program
<1> QED
  BY <1>3, <1>4 DEF StartInv

(* and isr33, which finds the byte it was called for. *)
LEMMA IsrKeepsStart ==
  ASSUME StartInv, Counts, Polled, obf, cpu # "boot", isr33
  PROVE  StartInv'
<1>1. /\ obf' = FALSE /\ pushed' = Append(pushed, out)
      /\ UNCHANGED <<program, command, config, setConfig, out, own, keyboard, early, cpu>>
  BY DEF isr33, UseDevice
<1>2. result # "running"
  BY DEF Polled
<1>3. pc \in 21 .. 31 /\ (Clean => Conversation)
  BY <1>2 DEF StartInv, BeforeReset
<1>4. ASSUME Clean' PROVE Conversation'
  <2>1. Clean
    BY <1>1, <1>4 DEF Clean, keyboard
  <2>2. CASE Unseen
    BY <1>1, <2>2 DEF Unseen, Conversation, program
  <2>3. CASE Started
    BY <1>1, <2>3, StartedRead DEF Conversation
  <2> QED
    BY <1>2, <1>3, <2>1, <2>2, <2>3 DEF Conversation, Finishing
<1> QED
  BY <1>1, <1>3, <1>4 DEF StartInv, program

-----------------------------------------------------------------------------
(* The interrupt controllers, which line 1 reaches by its edges.           *)

(* All that startup does to the interrupt controllers is remap_irqs. *)
LEMMA KeyboardStartup == StartsWithRemap(remap_irqs)
<1>1. remap_irqs \in Seq(Writes) /\ Len(remap_irqs) = 10
  BY DEF remap_irqs, Command, Data, Writes, Chips, ICW1, Cascade
<1> QED
  BY <1>1 DEF StartsWithRemap

(* What the wire does to the requests. *)
LEMMA WireKeeps ==
  ASSUME IrqTypeOK, Wired
  PROVE  /\ irr' \subseteq (0 .. 15) \ {Cascade}
         /\ 1 \in irr' => Line'
BY DEF IrqTypeOK, Wired, Cascade

(* A step of the keyboard, its controller or init_8042 changes the         *)
(* requests and nothing else of the interrupt controllers; *)
LEMMA PollingKeepsIrq ==
  ASSUME IrqInv(remap_irqs), Wired,
         UNCHANGED <<master, slave, pic, cpu, todo, counters, history>>
  PROVE  IrqInv(remap_irqs)'
<1>1. irr' \subseteq (0 .. 15) \ {Cascade}
  BY WireKeeps DEF IrqInv
<1> QED
  BY <1>1, RequestKeeps DEF history

(* isr33 reaches its device only in a handler, *)
LEMMA IsrMoment ==
  ASSUME IrqInv(remap_irqs), NEW l, UseDevice(l)
  PROVE  /\ cpu = "handler" /\ cpu' = "handler" /\ l \in {0, 1, 6}
         /\ todo = <<Device(l), EndMaster>> /\ todo' = <<EndMaster>>
<1>1. InHandler /\ cpu' = cpu
  BY NotInBoot, InHandlerAt, KeyboardStartup DEF UseDevice, At, IrqInv, InMain, Cascading
<1>2. l \in {0, 1, 6} /\ Todo(<<Device(l), EndMaster>>)
  BY <1>1, MomentOfDevice DEF UseDevice
<1> QED
  BY <1>1, <1>2 DEF UseDevice, Todo, InHandler

(* and so every step of the composition keeps the invariant of the         *)
(* interrupt controllers.                                                  *)
LEMMA KeyboardKeepsIrq ==
  ASSUME IrqInv(remap_irqs), [Next]_vars
  PROVE  IrqInv(remap_irqs)' /\ TakesRightly
<1>0. /\ StartsWithRemap(remap_irqs) /\ irr \subseteq (0 .. 15) \ {Cascade}
      /\ Lines \subseteq (0 .. 15) \ {Cascade}
  BY KeyboardStartup, IrqAssumption DEF IrqInv, IrqTypeOK, Cascade
<1>1. CASE RemapIrqs
  <2>1. PortAccess /\ cpu = "boot"
    BY <1>1 DEF RemapIrqs
  <2> QED
    BY <1>0, <2>1, PortAccessKeeps, OthersTakeNone
<1>2. CASE InitKeyboard \/ Controller \/ Polling(Type)
  <2>1. Wired /\ UNCHANGED <<master, slave, pic, cpu, todo, counters, history>>
    BY <1>2 DEF InitKeyboard, Controller, Polling
  <2> QED
    BY <2>1, PollingKeepsIrq, OthersTakeNone
<1>3. CASE TurnOn
  BY <1>0, <1>3, StiKeeps, OthersTakeNone DEF TurnOn, sti
<1>4. CASE isr33
  <2>1. UseDevice(1) /\ Wired /\ cpu' = cpu
    BY <1>4 DEF isr33, UseDevice
  <2>2. irr' \subseteq (0 .. 15) \ {Cascade}
    BY <2>1, WireKeeps DEF IrqInv
  <2> QED
    BY <1>0, <2>1, <2>2, UseDeviceKeeps, OthersTakeNone
<1>5. CASE Handling
  <2>1. CASE Interrupt
    BY <1>0, <2>1, InterruptKeeps, InterruptTakesRightly
  <2>2. CASE PortAccess /\ cpu = "handler"
    BY <1>0, <2>2, PortAccessKeeps, OthersTakeNone
  <2>3. ASSUME NEW l \in Lines \ {1}, UseDevice(l), UNCHANGED irr
        PROVE  IrqInv(remap_irqs)' /\ TakesRightly
    BY <1>0, <2>3, UseDeviceKeeps DEF TakesRightly
  <2> QED
    BY <1>5, <2>1, <2>2, <2>3 DEF Handling
<1>6. CASE Others
  <2>1. ASSUME NEW l \in Lines \ {1}, Raise(l) PROVE IrqInv(remap_irqs)' /\ TakesRightly
    BY <1>0, <2>1, RequestKeeps DEF Raise, TakesRightly
  <2>2. ASSUME NEW l \in Lines \ {1}, Withdraw(l) PROVE IrqInv(remap_irqs)' /\ TakesRightly
    BY <1>0, <2>2, RequestKeeps DEF Withdraw, TakesRightly, history
  <2> QED
    BY <1>6, <2>1, <2>2 DEF Others
<1>7. CASE UNCHANGED vars
  BY <1>0, <1>7, RequestKeeps DEF vars, irqVars, history, TakesRightly
<1> QED
  BY <1>1, <1>2, <1>3, <1>4, <1>5, <1>6, <1>7 DEF Next

-----------------------------------------------------------------------------
(* A request of line 1 stands for a byte.                                  *)

(* The only handler that begins with the keyboard is isr33. *)
LEMMA OnlyIsr33 ==
  ASSUME NEW l \in 0 .. 15, l # 1
  PROVE  Handler(32 + l) # <<Device(1), EndMaster>>
<1>1. CASE l \in {0, 6}
  <2>1. Handler(32 + l)[1] = Device(l)
    BY <1>1 DEF Handler
  <2> QED
    BY <1>1, <2>1 DEF Device
<1>2. CASE l \in 2 .. 5
  <2>1. Handler(32 + l) = <<Command("master", EOI)>>
    BY <1>2 DEF Handler
  <2> QED
    BY <2>1
<1>3. CASE l \in 7 .. 14
  <2>1. Handler(32 + l)[1] = IsSpurious(7) \/ Handler(32 + l)[1] = Command("master", EOI)
    BY <1>3 DEF Handler
  <2> QED
    BY <2>1 DEF Device, IsSpurious, Command
<1>4. CASE l = 15
  <2>1. Handler(32 + l)[1] = Command("master", EOI)
    BY <1>4 DEF Handler
  <2> QED
    BY <2>1 DEF Device, Command
<1> QED
  BY <1>1, <1>2, <1>3, <1>4

(* A handler that goes on is not at its first access any more. *)
LEMMA GoingOnIsNotAtKey ==
  ASSUME InHandler, todo # <<>>, todo' = Tail(todo) \/ todo' = <<>>
  PROVE  ~AtKey'
<1>1. CASE AtEnd \/ AtDevice \/ AtEndMaster \/ AtCheck7 \/ AtEndBoth \/ AtEndSlave \/ AtCheck15
  <2>1. \E access : \/ todo = <<access>>
                    \/ todo = <<access, EndMaster>>
                    \/ todo = <<access, EndSlave>>
    <3>1. CASE AtDevice
      BY <3>1 DEF AtDevice, Todo
    <3>2. CASE AtEnd \/ AtEndMaster \/ AtCheck7 \/ AtEndBoth \/ AtEndSlave \/ AtCheck15
      BY <3>2, Zenon DEF AtEnd, AtEndMaster, AtCheck7, AtEndBoth, AtEndSlave, AtCheck15, Todo
    <3> QED
      BY <1>1, <3>1, <3>2
  <2>2. todo' \in {<<>>, <<EndMaster>>, <<EndSlave>>}
    <3>1. PICK access : \/ todo = <<access>>
                        \/ todo = <<access, EndMaster>>
                        \/ todo = <<access, EndSlave>>
      BY <2>1
    <3>2. /\ Tail(<<access>>) = <<>> /\ Tail(<<access, EndMaster>>) = <<EndMaster>>
          /\ Tail(<<access, EndSlave>>) = <<EndSlave>>
      OBVIOUS
    <3>3. Tail(todo) \in {<<>>, <<EndMaster>>, <<EndSlave>>}
      BY <3>1, <3>2, Zenon
    <3> QED
      BY <3>3, Zenon
  <2>3. <<Device(1), EndMaster>> \notin {<<>>, <<EndMaster>>, <<EndSlave>>}
    OBVIOUS
  <2> QED
    BY <2>2, <2>3 DEF AtKey
<1>2. CASE AtEndThenCheck
  <2>1. todo' = <<>> \/ todo' = <<IsSpurious(15), EndSlave>>
    BY <1>2 DEF AtEndThenCheck, Todo
  <2> QED
    BY <2>1 DEF AtKey, IsSpurious, Device
<1> QED
  BY <1>1, <1>2 DEF InHandler

(* The acknowledgement leads to isr33 only for line 1. *)
LEMMA InterruptSignalled ==
  ASSUME IrqInv(remap_irqs), Signalled, Interrupt, UNCHANGED ps2Vars
  PROVE  Signalled'
<1>1. obf' = obf /\ Line' = Line
  BY DEF ps2Vars, Line
<1>2. irr' \subseteq irr
  BY
  DEF Interrupt, TakeInterrupt, AcknowledgeMaster, SpuriousMaster, AcknowledgeSlave,
      SpuriousSlave,
     SpuriousAnswer, CheckSpurious7, CheckSpurious15, Iret
<1>3. AtKey' => obf
  <2>1. CASE TakeInterrupt \/ Iret
    BY <2>1 DEF TakeInterrupt, Iret, AtKey
  <2>2. CASE AcknowledgeMaster
    <3>1. PICK l : l = Min(MasterReady)
      OBVIOUS
    <3>2. l \in 0 .. 7 /\ (l = 1 => 1 \in irr)
      <4>1. l \in MasterReady
        <5>1. MasterReady \subseteq 0 .. 7 /\ MasterReady # {} /\ 0 \in Nat /\ 7 \in Nat /\ 7 <= 0 + 7
          BY <2>2 DEF AcknowledgeMaster, MasterReady, LinesOf, Cascade
        <5> QED
          BY Zenon, <3>1, <5>1, MinIsLeast
      <4>2. l = 1 => 1 \in irr
        BY <4>1 DEF MasterReady, Cascade
      <4> QED
        BY <2>2, <3>1, <4>2, MasterLine DEF AcknowledgeMaster
    <3>3. CASE l = Cascade
      BY <2>2, <3>1, <3>3 DEF AcknowledgeMaster, AtKey
    <3>4. CASE l # Cascade
      <4>1. todo' = Handler(32 + l)
        BY <2>2, <3>1, <3>4, MasterAnswers
      <4>2. AtKey' => l = 1
        BY <3>2, <4>1, OnlyIsr33 DEF AtKey
      <4> QED
        BY <3>2, <4>2 DEF Signalled, Line
    <3> QED
      BY <3>3, <3>4
  <2>3. CASE AcknowledgeSlave
    <3>1. PICK l : l = Min(SlaveReady)
      OBVIOUS
    <3>2. l \in 8 .. 15 /\ todo' = Handler(32 + l)
      BY <2>3, <3>1, SlaveLine, SlaveAnswers DEF AcknowledgeSlave
    <3> QED
      BY <3>2, OnlyIsr33 DEF AtKey
  <2>4. CASE SpuriousMaster \/ SpuriousSlave
    <3>1. Remapped
      BY <2>4 DEF SpuriousMaster, SpuriousSlave, IrqInv, Booting
    <3>2. Vector("master", 7) = 39 /\ Vector("slave", 7) = 47
      BY <3>1, VectorOfLine
    <3>3. Enter(39) \/ Enter(47)
      BY <2>4, <3>2 DEF SpuriousMaster, SpuriousSlave, SpuriousAnswer
    <3>4. todo' = Handler(32 + 7) \/ todo' = Handler(32 + 15)
      BY <3>3, Entered
    <3> QED
      BY <3>4, OnlyIsr33 DEF AtKey
  <2>5. CASE CheckSpurious7 \/ CheckSpurious15
    <3>1. cpu = "handler" /\ todo # <<>> /\ (todo' = Tail(todo) \/ todo' = <<>>)
      BY <2>5, KeyboardStartup, NotInBoot
      DEF CheckSpurious7, CheckSpurious15, At, IrqInv, InMain, Cascading, InHandler
    <3> QED
      BY <3>1, InHandlerAt, GoingOnIsNotAtKey
  <2> QED
    BY <2>1, <2>2, <2>3, <2>4, <2>5 DEF Interrupt
<1> QED
  BY <1>1, <1>2, <1>3 DEF Signalled

(* So does every other step. *)
LEMMA NextKeepsSignalled ==
  ASSUME IrqInv(remap_irqs), Counts, Polled, Signalled, [Next]_vars
  PROVE  Signalled'
<1>1. CASE RemapIrqs
  BY <1>1
  DEF RemapIrqs, PortAccess, Initialize, EndOfInterrupt, ProgramChip, Signalled, AtKey, Line,
      ps2Vars
<1>2. CASE InitKeyboard
  <2>1. Wired /\ cpu \in {"boot", "main"} /\ UNCHANGED cpu
    BY <1>2 DEF InitKeyboard, Polling
  <2>2. ~AtKey'
    BY <2>1 DEF AtKey
  <2> QED
    BY <2>1, <2>2, WireKeeps DEF Signalled, IrqInv
<1>3. CASE Controller \/ Polling(Type)
  <2>1. Wired /\ UNCHANGED <<cpu, todo>> /\ (obf => obf')
    BY <1>3
    DEF Controller, Polling, Take, TakeSetting, TakeQuery, TakeConfig, TakeReset, AnswerQuery,
        Answer, Type
  <2>2. AtKey' => obf'
    BY <2>1 DEF AtKey, Signalled
  <2> QED
    BY <2>1, <2>2, WireKeeps DEF Signalled, IrqInv
<1>4. CASE TurnOn
  BY <1>4 DEF TurnOn, sti, Signalled, AtKey, Line, ps2Vars
<1>5. CASE isr33
  <2>1. Wired /\ todo' = <<EndMaster>>
    BY <1>5, IsrMoment DEF isr33
  <2>2. ~AtKey'
    BY <2>1 DEF AtKey
  <2> QED
    BY <2>1, <2>2, WireKeeps DEF Signalled, IrqInv
<1>6. CASE Handling
  <2>1. obf' = obf /\ Line' = Line
    BY <1>6 DEF Handling, ps2Vars, Line
  <2>2. CASE Interrupt
    BY <1>6, <2>2, InterruptSignalled DEF Handling
  <2>3. CASE PortAccess /\ cpu = "handler"
    <3>1. todo # <<>> /\ todo' = Tail(todo) /\ irr' \subseteq irr
      BY <2>3 DEF PortAccess, Initialize, EndOfInterrupt, ProgramChip, At
    <3>2. ~AtKey'
      BY <2>3, <3>1, InHandlerAt, GoingOnIsNotAtKey
    <3> QED
      BY <2>1, <3>1, <3>2 DEF Signalled
  <2>4. ASSUME NEW l \in Lines \ {1}, UseDevice(l), UNCHANGED irr
        PROVE  Signalled'
    <3>1. todo' = <<EndMaster>>
      BY <2>4, IsrMoment
    <3>2. ~AtKey'
      BY <3>1 DEF AtKey
    <3> QED
      BY <2>1, <2>4, <3>2 DEF Signalled
  <2> QED
    BY <1>6, <2>2, <2>3, <2>4 DEF Handling
<1>7. CASE Others
  <2>1. (1 \in irr' => 1 \in irr) /\ UNCHANGED <<cpu, todo, ps2Vars>>
    BY <1>7 DEF Others, Raise, Withdraw
  <2> QED
    BY <2>1 DEF Signalled, AtKey, Line, ps2Vars
<1>8. CASE UNCHANGED vars
  BY <1>8 DEF vars, irqVars, ps2Vars, Signalled, AtKey, Line
<1> QED
  BY <1>1, <1>2, <1>3, <1>4, <1>5, <1>6, <1>7, <1>8 DEF Next

-----------------------------------------------------------------------------
(* What is before and after sti.                                           *)

(* Keys are only typed, never taken back. *)
LEMMA NextKeepsCounts ==
  ASSUME Counts, [Next]_vars
  PROVE  Counts'
<1>1. CASE init_8042 /\ UNCHANGED early
  BY <1>1 DEF init_8042, Write, Await, Peek, Read, Done, Counts, keyboard
<1>2. CASE (Take \/ AnswerQuery \/ Answer \/ Type) /\ UNCHANGED early
  BY <1>2
  DEF Take, TakeSetting, TakeQuery, TakeConfig, TakeReset, AnswerQuery, Answer, Type, Counts,
      keyboard
<1>3. CASE UNCHANGED ps2Vars /\ early' \in {early, typed}
  BY <1>3 DEF ps2Vars, Counts
<1>4. CASE isr33
  BY <1>4 DEF isr33, Counts, keyboard
<1> QED
  BY <1>1, <1>2, <1>3, <1>4
  DEF Next, RemapIrqs, InitKeyboard, TurnOn, Handling, Controller, Polling, Others, vars

(* Handlers are only entered after sti, *)
LEMMA HandlingAfterBoot ==
  ASSUME IrqInv(remap_irqs), Handling
  PROVE  cpu # "boot" /\ cpu' # "boot"
<1>1. CASE Interrupt
  <2>1. CASE CheckSpurious7 \/ CheckSpurious15
    <3>1. cpu = "handler" /\ cpu' = cpu
      BY <2>1, KeyboardStartup, NotInBoot
      DEF CheckSpurious7, CheckSpurious15, At, IrqInv, InMain, Cascading, InHandler
    <3> QED
      BY <3>1
  <2>2. CASE \/ TakeInterrupt \/ AcknowledgeMaster \/ SpuriousMaster
             \/ AcknowledgeSlave \/ SpuriousSlave \/ Iret
    BY <2>2 DEF TakeInterrupt, AcknowledgeMaster, SpuriousMaster, AcknowledgeSlave, SpuriousSlave,
       SpuriousAnswer, Iret, Enter
  <2> QED
    BY <1>1, <2>1, <2>2 DEF Interrupt
<1>2. CASE PortAccess /\ cpu = "handler"
  BY <1>2 DEF PortAccess, Initialize, EndOfInterrupt, ProgramChip
<1>3. CASE \E l \in Lines \ {1} : UseDevice(l) /\ UNCHANGED irr
  BY <1>3, IsrMoment
<1> QED
  BY <1>1, <1>2, <1>3 DEF Handling

(* and sti is only done after init_8042 has returned. *)
LEMMA NextKeepsPolled ==
  ASSUME IrqInv(remap_irqs), Polled, pc \in 1 .. 31, [Next]_vars
  PROVE  Polled'
<1>1. CASE RemapIrqs
  <2>1. pc = 1 /\ cpu' = cpu /\ UNCHANGED <<pc, result, pushed>>
    BY <1>1
    DEF RemapIrqs, RemapsFirst, ps2Vars, PortAccess, Initialize, EndOfInterrupt, ProgramChip
  <2> QED
    BY <2>1 DEF Polled
<1>2. CASE InitKeyboard
  <2>1. (pc = 1 => todo = <<>>) /\ UNCHANGED <<cpu, todo, pushed>>
    BY <1>2 DEF InitKeyboard, RemapsFirst, Polling
  <2>2. result # "running" => result' # "running"
    BY <1>2 DEF InitKeyboard, Polling, init_8042, Write, Await, Peek, Read, Done, Running, Advance
  <2> QED
    BY <2>1, <2>2 DEF Polled
<1>3. CASE Controller \/ Polling(Type) \/ Others \/ UNCHANGED vars
  <2>1. UNCHANGED <<pc, result, cpu, todo, pushed>>
    BY <1>3
    DEF Controller, Polling, Take, TakeSetting, TakeQuery, TakeConfig, TakeReset, AnswerQuery,
       Answer, Type, Others, Raise, Withdraw, vars, irqVars, ps2Vars, program
  <2> QED
    BY <2>1 DEF Polled
<1>4. CASE TurnOn
  BY <1>4 DEF TurnOn, TurnsOnLast, sti, ps2Vars, Polled
<1>5. CASE isr33
  <2>1. cpu = "handler" /\ cpu' = "handler"
    BY <1>5, IsrMoment DEF isr33
  <2>2. result' = result
    BY <1>5 DEF isr33, program
  <2> QED
    BY <2>1, <2>2 DEF Polled
<1>6. CASE Handling
  <2>1. cpu # "boot" /\ cpu' # "boot" /\ result' = result
    BY <1>6, HandlingAfterBoot DEF Handling, ps2Vars
  <2> QED
    BY <2>1 DEF Polled
<1> QED
  BY <1>1, <1>2, <1>3, <1>4, <1>5, <1>6 DEF Next

-----------------------------------------------------------------------------
(* All together.                                                           *)

(* Where init_8042 can be. *)
LEMMA PcInProgram == ASSUME StartInv PROVE pc \in 1 .. 31
BY DEF StartInv, BeforeReset, Disabling, Configuring, Testing, Asked

(* The conversation goes on, *)
LEMMA NextKeepsStart ==
  ASSUME KeyboardInv, [Next]_vars
  PROVE  StartInv'
<1>0. IrqInv(remap_irqs) /\ Counts /\ Polled /\ Signalled /\ StartInv
  BY DEF KeyboardInv
<1>1. CASE RemapIrqs \/ Others
  <2>1. UNCHANGED <<ps2Vars, pushed, early, cpu>>
    BY <1>1
    DEF RemapIrqs, Others, Raise, Withdraw, PortAccess, Initialize, EndOfInterrupt,
        ProgramChip
  <2>2. Clean' => Clean
    BY <2>1 DEF Clean, ps2Vars
  <2> QED
    BY <1>0, <2>1, <2>2, ElsewhereKeepsStart
<1>2. CASE InitKeyboard
  BY <1>0, <1>2, ProgramKeepsStart
<1>3. CASE TurnOn
  <2>1. UNCHANGED <<ps2Vars, pushed>> /\ cpu = "boot" /\ cpu' = "main" /\ early' = typed
    BY <1>3 DEF TurnOn, sti
  <2>2. Clean' => Clean
    BY <2>1 DEF Clean, ps2Vars
  <2> QED
    BY <1>0, <2>1, <2>2, ElsewhereKeepsStart
<1>4. CASE isr33
  <2>1. AtKey
    BY <1>0, <1>4, IsrMoment DEF isr33, AtKey
  <2>2. obf /\ cpu # "boot"
    BY <1>0, <2>1 DEF Signalled, AtKey
  <2> QED
    BY <1>0, <1>4, <2>2, IsrKeepsStart
<1>5. CASE Handling
  <2>1. cpu # "boot" /\ cpu' # "boot" /\ UNCHANGED <<ps2Vars, pushed, early>>
    BY <1>0, <1>5, HandlingAfterBoot DEF Handling
  <2>2. Clean' => Clean
    BY <2>1 DEF Clean, ps2Vars
  <2> QED
    BY <1>0, <2>1, <2>2, ElsewhereKeepsStart
<1>6. CASE Controller
  BY <1>0, <1>6, ControllerKeepsStart
<1>7. CASE Polling(Type)
  BY <1>0, <1>7, KeyKeepsStart
<1>8. CASE UNCHANGED vars
  <2>1. UNCHANGED <<ps2Vars, pushed, early, cpu>>
    BY <1>8 DEF vars, irqVars
  <2>2. Clean' => Clean
    BY <2>1 DEF Clean, ps2Vars
  <2> QED
    BY <1>0, <2>1, <2>2, ElsewhereKeepsStart
<1> QED
  BY <1>1, <1>2, <1>3, <1>4, <1>5, <1>6, <1>7, <1>8 DEF Next

(* with everything that it rests on, *)
LEMMA NextKeepsAll ==
  ASSUME KeyboardInv, [Next]_vars
  PROVE  KeyboardInv'
BY PcInProgram, KeyboardKeepsIrq, NextKeepsCounts, NextKeepsPolled, NextKeepsSignalled, NextKeepsStart
DEF KeyboardInv

(* from what the firmware leaves. *)
LEMMA KeyboardInitInv ==
  ASSUME Init
  PROVE  KeyboardInv
<1>1. IrqInv(remap_irqs)
  BY KeyboardStartup, IrqInitInv DEF Init
<1>2. Counts
  BY DEF Init, Ps2Start, Counts
<1>3. Polled /\ Signalled
  BY DEF Init, Ps2Start, IrqInit, Polled, Signalled, AtKey
<1>4. StartInv
  BY DEF Init, Ps2Start, StartInv, BeforeReset, Disabling, Taken
<1> QED
  BY <1>1, <1>2, <1>3, <1>4 DEF KeyboardInv

(* The start of the keyboard, access by access, and the interrupts that    *)
(* come after it: KeyboardInv holds of every state.                        *)
THEOREM KeyboardInvariant == Spec => []KeyboardInv
<1>1. Init => KeyboardInv
  BY KeyboardInitInv
<1>2. KeyboardInv /\ [Next]_vars => KeyboardInv'
  BY NextKeepsAll
<1> QED
  BY <1>1, <1>2, PTL DEF Spec

-----------------------------------------------------------------------------
(* What it all is for.                                                     *)

(* The two tests are read at one access each, and there nothing but the    *)
(* answer can be in the output register.                                   *)
TestsRightly ==
  Running("read") /\ pc' # pc =>
    /\ Access[2] = "controller_test" => cfg' = 85
    /\ Access[2] = "port_test" => cfg' = 0

(* init_8042 makes them so, *)
LEMMA ProgramTestsRightly ==
  ASSUME StartInv, init_8042
  PROVE  TestsRightly
<1>1. SUFFICES ASSUME Running("read"), Access[2] \in {"controller_test", "port_test"}
               PROVE  /\ Access[2] = "controller_test" => cfg' = 85
                      /\ Access[2] = "port_test" => cfg' = 0
  BY DEF TestsRightly
<1>2. pc \in 1 .. 30 /\ Access[1] = "read"
  BY <1>1, AccessesOfProgram, PcInProgram DEF Running
<1>3. \/ pc = 11 /\ Access[2] = "controller_test"
      \/ pc = 19 /\ Access[2] = "port_test"
  BY <1>1, <1>2, AccessesOfProgram DEF Access
<1>4. cfg' = out
  BY <1>1, <1>2 DEF init_8042, Write, Await, Peek, Read, Done, Running
<1>5. Testing
  BY <1>3 DEF StartInv, BeforeReset, Disabling, Configuring, Asked
<1>6. pc = 11 => out = 85
  BY <1>5 DEF Testing, Asked
<1>7. pc = 19 => out = 0
  BY <1>5 DEF Testing, Asked
<1> QED
  BY <1>3, <1>4, <1>6, <1>7

(* and nobody else moves it on. *)
LEMMA NextTestsRightly ==
  ASSUME KeyboardInv, [Next]_vars
  PROVE  [TestsRightly]_ps2Vars
<1>1. CASE InitKeyboard
  BY <1>1, ProgramTestsRightly DEF InitKeyboard, Polling, KeyboardInv
<1>2. CASE ~InitKeyboard
  <2>1. UNCHANGED pc
    BY <1>2 DEF Next, RemapIrqs, TurnOn, isr33, Handling, Controller, Polling, Take, TakeSetting,
       TakeQuery, TakeConfig, TakeReset, AnswerQuery, Answer, Type, Others, vars, ps2Vars, program
  <2> QED
    BY <2>1 DEF TestsRightly
<1> QED
  BY <1>1, <1>2

(***************************************************************************)
(* What init_8042 compares with 0x55 and 0x00 are the answers of the       *)
(* controller to its two tests, whatever is typed and whenever.            *)
(***************************************************************************)
THEOREM KeyboardTestsReadTheirAnswers == Spec => TestsReadTheirAnswers
<1>1. KeyboardInv /\ [Next]_vars => [TestsRightly]_ps2Vars
  BY NextTestsRightly
<1>2. TestsRightly => (Running("read") /\ pc' # pc =>
                         /\ Access[2] = "controller_test" => cfg' = 85
                         /\ Access[2] = "port_test" => cfg' = 0)
  BY DEF TestsRightly
<1> QED
  BY <1>1, <1>2, KeyboardInvariant, PTL DEF Spec, TestsReadTheirAnswers

(* After a start that went as expected the keys are being counted. *)
LEMMA StartedInTheEnd ==
  ASSUME KeyboardInv, Initialized, reset = {"ack", "passed"}, Clean
  PROVE  Started
BY DEF KeyboardInv, StartInv, BeforeReset, Conversation, Finishing, Unseen, Initialized, AllSeen

(* The configuration that init_8042 leaves. *)
LEMMA UsableConfiguration == ASSUME config = 37 PROVE PortUsable
<1>1. Has(37, INT_FIRST) /\ ~Has(37, CLOCK1_DISABLED) /\ ~Has(37, TRANSLATION)
  BY SMT DEF Has, INT_FIRST, CLOCK1_DISABLED, TRANSLATION
<1> QED
  BY <1>1 DEF PortUsable

(***************************************************************************)
(* When the reset went well at once and no key was typed, the port is      *)
(* usable: interrupt on, clock running, no translation.                    *)
(***************************************************************************)
THEOREM KeyboardGoodResetGoodPort == Spec => []GoodResetGoodPort
<1>1. ASSUME KeyboardInv, Initialized, reset = {"ack", "passed"}, typed = 0, resends = 0
      PROVE  PortUsable
  <2>1. Clean
    BY <1>1 DEF KeyboardInv, Counts, Clean
  <2>2. Started
    BY <1>1, <2>1, StartedInTheEnd
  <2>3. config = 37
    BY <1>1, <2>2 DEF Started, Initialized, Wrote
  <2> QED
    BY <2>3, UsableConfiguration
<1>2. KeyboardInv => GoodResetGoodPort
  BY <1>1 DEF GoodResetGoodPort
<1> QED
  BY <1>2, KeyboardInvariant, PTL

(***************************************************************************)
(* Then isr33 reads every key once, and nothing that is left over from the *)
(* start.                                                                  *)
(***************************************************************************)
THEOREM KeyboardKeysPushedOnce == Spec => []KeysPushedOnce
<1>1. ASSUME KeyboardInv, cpu # "boot", Initialized, reset = {"ack", "passed"}, early = 0, resends = 0
      PROVE  /\ \A i \in DOMAIN pushed : pushed[i] = Key
             /\ typed = Len(pushed) + (IF obf THEN 1 ELSE 0)
  <2>1. Clean
    BY <1>1 DEF Clean
  <2>2. Counting
    BY <1>1, <2>1, StartedInTheEnd DEF Started
  <2> QED
    BY <2>2 DEF Counting
<1>2. KeyboardInv => KeysPushedOnce
  BY <1>1 DEF KeysPushedOnce
<1> QED
  BY <1>2, KeyboardInvariant, PTL

(***************************************************************************)
(* isr33 reads the output register without a look at the status, and it is *)
(* full each time: the interrupt is never a left-over of a byte that       *)
(* init_8042 has read, however the start went.                             *)
(***************************************************************************)
IsrFindsAByte == [][isr33 => obf]_vars

(* isr33 is only entered for a byte, of every start. *)
THEOREM KeyboardIsrFindsAByte == Spec => IsrFindsAByte
<1>1. ASSUME KeyboardInv, isr33
      PROVE  obf
  BY <1>1, IsrMoment DEF KeyboardInv, Signalled, AtKey, isr33
<1>2. KeyboardInv /\ [Next]_vars => [isr33 => obf]_vars
  BY <1>1
<1> QED
  BY <1>2, KeyboardInvariant, PTL DEF Spec, IsrFindsAByte

(***************************************************************************)
(* The handlers of module Irq end their interrupts also when the keyboard  *)
(* is wired to line 1.                                                     *)
(***************************************************************************)
THEOREM KeyboardNothingInService == Spec => []NothingInService
<1>1. KeyboardInv => NothingInService
  BY InvNothingInService DEF KeyboardInv
<1> QED
  BY <1>1, KeyboardInvariant, PTL

(***************************************************************************)
(* Each request, the keyboard's among them, is taken by the handler of its *)
(* line.                                                                   *)
(***************************************************************************)
THEOREM KeyboardTakenByItsHandler == Spec => TakenByItsHandler
<1>1. KeyboardInv /\ [Next]_vars => [TakesRightly]_irqVars
  BY KeyboardKeepsIrq DEF KeyboardInv
<1>2. TakesRightly => \A l \in irr \ irr' :
                        cpu \in {"inta1", "inta2"} /\ cpu' # cpu =>
                          cpu' = "handler" /\ todo' = Handler(32 + l)
  BY DEF TakesRightly
<1> QED
  BY <1>1, <1>2, KeyboardInvariant, PTL DEF Spec, TakenByItsHandler

-----------------------------------------------------------------------------
(***************************************************************************)
(* Proofs about module KbdBuffer, for every length of the buffer and any   *)
(* number of key strokes.                                                  *)
(*                                                                         *)
(* InBounds is not inductive: that slot idx + 1 exists when the pop reads  *)
(* it follows from the test before, which saw idx < kbd_buff_idx - 1, and  *)
(* from the fact that the handler can only make kbd_buff_idx larger.  IInv *)
(* keeps what the tests and loads have seen.                               *)
(***************************************************************************)
TestsStillHold ==
  /\ popPc = "code" => kbd_buff_idx > 0
  /\ popPc = "cond" => idx < kbd_buff_idx
  /\ popPc \in {"load", "store"} => idx < kbd_buff_idx - 1
  /\ popPc = "store" => reg \in Chars

IInv == TypeOK /\ InBounds /\ TestsStillHold

(* The empty buffer, with the main program before getch. *)
LEMMA InitInvariant == BufferInit => IInv
BY KbdAssumption
   DEF BufferInit, IInv, TypeOK, InBounds, TestsStillHold, Slots, Chars, None, MidPop

(* A push makes the buffer longer and takes no slot from a running pop. *)
LEMMA PushInvariant == IInv /\ kbd_buff_push => IInv'
<1> SUFFICES ASSUME IInv, kbd_buff_push PROVE IInv'
  OBVIOUS
<1>1. /\ kbd_buff_idx \in 0 .. KBD_BUFF_MAX - 1
      /\ kbd_buff_idx' = kbd_buff_idx + 1
      /\ idx' = idx /\ reg' = reg
  BY KbdAssumption DEF IInv, TypeOK, kbd_buff_push, Full
<1>2. popPc' = popPc \/ (popPc = "halted" /\ popPc' = "test")
  BY DEF kbd_buff_push, Wake
<1>3. TypeOK'
  <2>1. pushes + 1 \in Chars /\ pushes' = pushes + 1
    BY KbdAssumption DEF IInv, TypeOK, kbd_buff_push, Chars, None
  <2>2. keyboard_buffer' \in [Slots -> Chars]
    <3>1. ASSUME NEW s \in Slots, s # 0 PROVE s - 1 \in Slots
      BY <3>1, KbdAssumption DEF Slots
    <3>2. \A s \in Slots : keyboard_buffer[s] \in Chars
      BY DEF IInv, TypeOK
    <3>3. /\ 0 \in Slots
          /\ keyboard_buffer' = [s \in Slots |->
                IF s = 0 THEN pushes + 1
                ELSE IF s <= kbd_buff_idx THEN keyboard_buffer[s - 1] ELSE keyboard_buffer[s]]
      BY KbdAssumption DEF kbd_buff_push, Shifted, Slots
    <3> QED
      BY <2>1, <3>1, <3>2, <3>3
  <2>3. races' \in Nat
    BY DEF IInv, TypeOK, kbd_buff_push
  <2> QED
    BY <1>1, <1>2, <2>1, <2>2, <2>3, KbdAssumption DEF IInv, TypeOK, kbd_buff_push
<1>4. InBounds'
  BY <1>1, <1>2 DEF IInv, TypeOK, InBounds, MidPop
<1>5. TestsStillHold'
  BY <1>1, <1>2 DEF IInv, TypeOK, TestsStillHold
<1> QED
  BY <1>3, <1>4, <1>5 DEF IInv

(* Every access of the main program leaves the invariant. *)
LEMMA MainInvariant == IInv /\ Main => IInv'
<1> SUFFICES ASSUME IInv, Main PROVE IInv'
  OBVIOUS
<1> USE KbdAssumption DEF IInv, TypeOK, InBounds, TestsStillHold, MidPop, buffer
<1>1. CASE Test
  BY <1>1 DEF Test
<1>2. CASE Halt
  BY <1>2 DEF Halt
<1>3. CASE ReadCode
  BY <1>3 DEF ReadCode, Slots
<1>4. CASE LoopCond
  BY <1>4 DEF LoopCond, MoreToMove, Slots
<1>5. CASE Load
  BY <1>5 DEF Load, Slots, Chars, None
<1>6. CASE Store
  BY <1>6 DEF Store, Slots
<1>7. CASE LoadIdx
  BY <1>7 DEF LoadIdx
<1>8. CASE StoreIdx
  BY <1>8 DEF StoreIdx
<1> QED
  BY <1>1, <1>2, <1>3, <1>4, <1>5, <1>6, <1>7, <1>8 DEF Main

(* No step of the handlers or of the main program leaves the invariant.    *)
LEMMA NextInvariant == IInv /\ [BufferNext]_bufferVars => IInv'
<1> SUFFICES ASSUME IInv, [BufferNext]_bufferVars PROVE IInv'
  OBVIOUS
<1>1. CASE kbd_buff_push
  BY <1>1, PushInvariant
<1>2. CASE OtherInterrupt
  BY <1>2 DEF OtherInterrupt, Wake, buffer, IInv, TypeOK, InBounds, TestsStillHold, MidPop
<1>3. CASE Main
  BY <1>3, MainInvariant
<1>4. CASE UNCHANGED bufferVars
  BY <1>4 DEF bufferVars, IInv, TypeOK, InBounds, TestsStillHold
<1> QED
  BY <1>1, <1>2, <1>3, <1>4 DEF BufferNext

(* The strengthened invariant holds always, interrupts wherever they come. *)
THEOREM KbdInvariant == BufferSpec => []IInv
BY InitInvariant, NextInvariant, PTL DEF BufferSpec

(* The buffer, the count and the pop's variables have the types they       *)
(* should: kbd_buff_idx never exceeds KBD_BUFF_MAX nor wraps below zero.   *)
THEOREM KbdTypeOK == BufferSpec => []TypeOK
<1>1. IInv => TypeOK
  BY DEF IInv
<1> QED
  BY <1>1, KbdInvariant, PTL

(* kbd_buff_pop never leaves the buffer, wherever the handler of IRQ1      *)
(* comes between its accesses.                                             *)
THEOREM KbdInBounds == BufferSpec => []InBounds
<1>1. IInv => InBounds
  BY DEF IInv
<1> QED
  BY <1>1, KbdInvariant, PTL

-----------------------------------------------------------------------------
(***************************************************************************)
(* What a pop has done so far, as long as no push came into it: the slots  *)
(* below idx hold the characters of the slots after them at its start.     *)
(***************************************************************************)
PopSoFar ==
  popPc \in MidPop /\ before # Disturbed =>
    /\ before \in Seq(Chars)
    /\ Len(before) = kbd_buff_idx
    /\ code = before[1]
    /\ idx < kbd_buff_idx
    /\ \A s \in Slots : s < kbd_buff_idx =>
         keyboard_buffer[s] = IF s < idx THEN before[s + 2] ELSE before[s + 1]
    /\ popPc = "store" => reg = before[idx + 2]
    /\ popPc \in {"dec", "write"} => idx = kbd_buff_idx - 1
    /\ popPc = "write" => reg = kbd_buff_idx

(* No pop is under way at first. *)
LEMMA InitPopSoFar == BufferInit => PopSoFar
BY DEF BufferInit, PopSoFar, MidPop

(* Contents is a sequence of characters.                                   *)
LEMMA ContentsSeq ==
  ASSUME TypeOK
  PROVE  /\ Contents \in Seq(Chars)
         /\ Len(Contents) = kbd_buff_idx
         /\ \A k \in 1 .. kbd_buff_idx : Contents[k] = keyboard_buffer[k - 1]
<1>1. \A k \in 1 .. kbd_buff_idx : keyboard_buffer[k - 1] \in Chars
  BY KbdAssumption DEF TypeOK, Slots
<1> QED
  BY <1>1 DEF TypeOK, Contents

(* Each access of the pop keeps the account, and a push closes it.         *)
LEMMA NextPopSoFar == IInv /\ PopSoFar /\ [BufferNext]_bufferVars => PopSoFar'
<1> SUFFICES ASSUME IInv, PopSoFar, [BufferNext]_bufferVars PROVE PopSoFar'
  OBVIOUS
<1> USE KbdAssumption DEF MidPop
<1>1. CASE kbd_buff_push
  <2>1. popPc' \in MidPop => popPc \in MidPop
    BY <1>1 DEF kbd_buff_push, Wake
  <2>2. popPc \in MidPop => before' = Disturbed
    BY <1>1 DEF kbd_buff_push
  <2>3. Disturbed' = Disturbed
    BY DEF Disturbed, None
  <2> QED
    BY <2>1, <2>2, <2>3 DEF PopSoFar
<1>2. CASE OtherInterrupt
  BY <1>2 DEF OtherInterrupt, Wake, buffer, PopSoFar
<1>3. CASE Test
  BY <1>3 DEF Test, PopSoFar
<1>4. CASE Halt
  BY <1>4 DEF Halt, PopSoFar
<1>5. CASE ReadCode
  BY <1>5, ContentsSeq DEF ReadCode, PopSoFar, IInv, TypeOK, TestsStillHold, buffer, Slots
<1>6. CASE LoopCond
  BY <1>6 DEF LoopCond, MoreToMove, PopSoFar, IInv, TypeOK, buffer, Disturbed
<1>7. CASE Load
  BY <1>7 DEF Load, PopSoFar, IInv, TypeOK, InBounds, TestsStillHold, buffer, Disturbed, Slots
<1>8. CASE Store
  <2> SUFFICES ASSUME before # Disturbed PROVE PopSoFar'
    BY <1>8 DEF Store, PopSoFar, Disturbed
  <2>1. /\ kbd_buff_idx' = kbd_buff_idx /\ idx' = idx + 1 /\ popPc' = "cond"
        /\ code' = code /\ before' = before
        /\ idx \in Slots /\ idx < kbd_buff_idx - 1
        /\ kbd_buff_idx \in Nat /\ idx \in Nat
    BY <1>8 DEF Store, IInv, TypeOK, InBounds, TestsStillHold
  <2>2. \A s \in Slots : keyboard_buffer'[s] = IF s = idx THEN before[idx + 2] ELSE keyboard_buffer[s]
    BY <1>8 DEF Store, PopSoFar, IInv, TypeOK
  <2>3. \A s \in Slots : s < kbd_buff_idx =>
          keyboard_buffer'[s] = IF s < idx + 1 THEN before[s + 2] ELSE before[s + 1]
    BY <1>8, <2>1, <2>2 DEF Store, PopSoFar, Slots
  <2> QED
    BY <1>8, <2>1, <2>3 DEF Store, PopSoFar
<1>9. CASE LoadIdx
  BY <1>9 DEF LoadIdx, PopSoFar, IInv, TypeOK, buffer, Disturbed
<1>10. CASE StoreIdx
  BY <1>10 DEF StoreIdx, PopSoFar
<1>11. CASE UNCHANGED bufferVars
  BY <1>11 DEF bufferVars, PopSoFar, Disturbed
<1> QED
  BY <1>1, <1>2, <1>3, <1>4, <1>5, <1>6, <1>7, <1>8, <1>9, <1>10, <1>11 DEF BufferNext, Main

(* During a pop, the buffer is the old one with as many keys moved as the
   loop has gone round, unless a push came into it. *)
THEOREM KbdPopSoFar == BufferSpec => [](IInv /\ PopSoFar)
<1>1. BufferInit => IInv /\ PopSoFar
  BY InitInvariant, InitPopSoFar
<1>2. IInv /\ PopSoFar /\ [BufferNext]_bufferVars => (IInv /\ PopSoFar)'
  BY NextInvariant, NextPopSoFar
<1> QED
  BY <1>1, <1>2, PTL DEF BufferSpec

(* The step that ends an undisturbed pop delivers the first character and  *)
(* leaves the others in their order.                                       *)
LEMMA UndisturbedPop ==
  ASSUME IInv, PopSoFar, [BufferNext]_bufferVars, delivered' # delivered, before # Disturbed
  PROVE  code = Head(before) /\ Contents' = Tail(before)
<1>1. StoreIdx
  BY DEF BufferNext, Main, kbd_buff_push, OtherInterrupt, Test, Halt, ReadCode, LoopCond, Load, Store,
         LoadIdx, bufferVars
<1>2. /\ before \in Seq(Chars)
      /\ Len(before) = kbd_buff_idx
      /\ code = before[1]
      /\ idx = kbd_buff_idx - 1
      /\ reg = kbd_buff_idx
      /\ kbd_buff_idx > 0
      /\ kbd_buff_idx \in 0 .. KBD_BUFF_MAX
      /\ \A s \in Slots : s < kbd_buff_idx =>
           keyboard_buffer[s] = IF s < idx THEN before[s + 2] ELSE before[s + 1]
  BY <1>1 DEF StoreIdx, IInv, TypeOK, InBounds, PopSoFar, MidPop
<1>3. kbd_buff_idx' = kbd_buff_idx - 1 /\ keyboard_buffer' = keyboard_buffer
  BY <1>1, <1>2 DEF StoreIdx
<1>4. /\ Contents' \in Seq(Chars)
      /\ Len(Contents') = kbd_buff_idx - 1
      /\ \A k \in 1 .. kbd_buff_idx - 1 : Contents'[k] = before[k + 1]
  <2>1. Contents' = [k \in 1 .. kbd_buff_idx - 1 |-> keyboard_buffer[k - 1]]
    BY <1>3 DEF Contents
  <2>2. \A k \in 1 .. kbd_buff_idx - 1 :
          /\ keyboard_buffer[k - 1] = before[k + 1]
          /\ keyboard_buffer[k - 1] \in Chars
    BY <1>2, KbdAssumption DEF Slots
  <2> DEFINE m == kbd_buff_idx - 1
  <2>3. m \in Nat
    BY <1>2
  <2> HIDE DEF m
  <2>4. /\ Contents' \in Seq(Chars) /\ Len(Contents') = m
        /\ \A k \in 1 .. m : Contents'[k] = keyboard_buffer[k - 1]
    BY ONLY <2>1, <2>2, <2>3 DEF m
  <2> QED
    BY <2>2, <2>4 DEF m
<1>5. /\ Tail(before) \in Seq(Chars)
      /\ Len(Tail(before)) = kbd_buff_idx - 1
      /\ \A k \in 1 .. kbd_buff_idx - 1 : Tail(before)[k] = before[k + 1]
  BY <1>2
<1>6. Contents' = Tail(before)
  BY <1>2, <1>4, <1>5, SeqEqual
<1> QED
  BY <1>2, <1>6

(* kbd_buff_pop is atomic whenever no push came into it, for every length  *)
(* of the buffer: it returns slot 0, the character pushed last, and moves  *)
(* the others down by one.                                                 *)
THEOREM KbdUndisturbedPopIsAtomic == BufferSpec => UndisturbedPopIsAtomic
<1>1. IInv /\ PopSoFar /\ [BufferNext]_bufferVars =>
        [delivered' # delivered /\ before # Disturbed
           => code = Head(before) /\ Contents' = Tail(before)]_bufferVars
  BY UndisturbedPop
<1> QED
  BY <1>1, KbdPopSoFar, PTL DEF BufferSpec, UndisturbedPopIsAtomic

-----------------------------------------------------------------------------
(***************************************************************************)
(* How many characters there are.  A push between the load and the store   *)
(* of kbd_buff_idx-- is not in the count that is stored.                   *)
(***************************************************************************)
Account ==
  LET held == IF popPc = "write" THEN Len(delivered) + reg ELSE Held
  IN held <= pushes /\ pushes - held <= races

(* Every step keeps the account. *)
LEMMA NextAccount == IInv /\ Account /\ [BufferNext]_bufferVars => Account'
<1> SUFFICES ASSUME IInv, Account, [BufferNext]_bufferVars PROVE Account'
  OBVIOUS
<1> USE KbdAssumption DEF IInv, TypeOK, Chars, None, MidPop, Account, Held
<1>1. CASE kbd_buff_push
  <2>1. /\ popPc' = popPc \/ (popPc = "halted" /\ popPc' = "test")
        /\ races' = IF popPc \in MidPop THEN races + 1 ELSE races
        /\ pushes' = pushes + 1 /\ kbd_buff_idx' = kbd_buff_idx + 1
        /\ reg' = reg /\ delivered' = delivered
    BY <1>1 DEF kbd_buff_push, Wake
  <2>2. /\ Len(delivered) \in Nat /\ reg \in Nat /\ pushes \in Nat /\ races \in Nat
        /\ kbd_buff_idx \in Nat
    OBVIOUS
  <2> DEFINE n == Len(delivered)
  <2> HIDE DEF n
  <2>3. n \in Nat /\ n = Len(delivered) /\ n = Len(delivered')
    BY <2>1, <2>2 DEF n
  <2>4. CASE popPc = "write"
    <3>1. n + reg <= pushes /\ pushes - (n + reg) <= races
      BY <2>3, <2>4
    <3>2. n + reg <= pushes' /\ pushes' - (n + reg) <= races'
      BY <2>1, <2>2, <2>3, <2>4, <3>1
    <3> QED
      BY <2>1, <2>3, <2>4, <3>2
  <2>5. CASE popPc # "write"
    <3>1. n + kbd_buff_idx <= pushes /\ pushes - (n + kbd_buff_idx) <= races
      BY <2>3, <2>5
    <3>2. n + kbd_buff_idx' <= pushes' /\ pushes' - (n + kbd_buff_idx') <= races'
      BY <2>1, <2>2, <2>3, <3>1
    <3>3. popPc' # "write"
      BY <2>1, <2>5
    <3> QED
      BY <2>3, <3>2, <3>3
  <2> QED
    BY <2>4, <2>5
<1>2. CASE OtherInterrupt
  BY <1>2 DEF OtherInterrupt, Wake, buffer
<1>3. CASE Test \/ Halt \/ ReadCode \/ LoopCond \/ Load \/ Store
  BY <1>3 DEF Test, Halt, ReadCode, LoopCond, Load, Store, buffer
<1>4. CASE LoadIdx
  BY <1>4 DEF LoadIdx, buffer
<1>5. CASE StoreIdx
  <2>1. Len(delivered') = Len(delivered) + 1
    BY <1>5 DEF StoreIdx
  <2> QED
    BY <1>5, <2>1 DEF StoreIdx, InBounds
<1>6. CASE UNCHANGED bufferVars
  BY <1>6 DEF bufferVars
<1> QED
  BY <1>1, <1>2, <1>3, <1>4, <1>5, <1>6 DEF BufferNext, Main

(***************************************************************************)
(* Which characters there are.  At every access one or a few slots are     *)
(* about to be overwritten or cut off; a character that is nowhere else    *)
(* but in these is already lost.  The loop overwrites only what it has     *)
(* just copied, so that no access of the pop makes this set larger, and a  *)
(* push, which moves everything up one slot, puts one more into danger.    *)
(***************************************************************************)
Doomed(s) ==
  \/ popPc \in {"cond", "load"} /\ s = idx
  \/ popPc = "store" /\ s \in {idx, idx + 1}
  \/ popPc = "dec" /\ s = kbd_buff_idx - 1
  \/ popPc = "write" /\ s >= reg - 1

Kept(c) ==
  \/ \E k \in 1 .. Len(delivered) : delivered[k] = c
  \/ popPc \in MidPop /\ code = c
  \/ popPc = "store" /\ reg = c
  \/ \E s \in 0 .. kbd_buff_idx - 1 : ~Doomed(s) /\ keyboard_buffer[s] = c

Gone == {c \in 1 .. pushes : ~Kept(c)}

OneGonePerRace == Cardinality(Gone) <= races

(* There are finitely many lost keys to count. *)
LEMMA GoneFinite == ASSUME TypeOK PROVE IsFiniteSet(Gone)
<1>1. pushes \in Int /\ Gone \in SUBSET (1 .. pushes)
  BY DEF Gone, TypeOK, Chars, None
<1>2. IsFiniteSet(1 .. pushes)
  BY <1>1, FS_Interval
<1> QED
  BY <1>1, <1>2, FS_Subset

(* A push between two pops loses nothing, one into a pop one character.    *)
LEMMA PushGone ==
  ASSUME IInv, kbd_buff_push
  PROVE  \/ races' = races /\ Gone' \subseteq Gone
         \/ races' = races + 1 /\ \E x : Gone' \subseteq Gone \cup {x}
<1> USE KbdAssumption
<1>1. /\ kbd_buff_idx \in 0 .. KBD_BUFF_MAX - 1
      /\ kbd_buff_idx' = kbd_buff_idx + 1
      /\ pushes' = pushes + 1 /\ pushes \in Nat
      /\ idx \in Nat /\ reg \in Nat
      /\ UNCHANGED <<idx, code, reg, delivered>>
  BY DEF IInv, TypeOK, kbd_buff_push, Full, Chars, None
<1>2. /\ keyboard_buffer'[0] = pushes + 1
      /\ \A s \in 0 .. kbd_buff_idx - 1 : keyboard_buffer'[s + 1] = keyboard_buffer[s]
  BY <1>1 DEF kbd_buff_push, Shifted, Slots
<1>3. CASE popPc \notin MidPop
  <2>1. popPc' \notin MidPop /\ races' = races
    BY <1>3 DEF kbd_buff_push, Wake, MidPop
  <2>2. ASSUME NEW c \in Gone' PROVE c \in Gone
    <3>1. c \in 1 .. pushes' /\ ~Kept(c)'
      BY DEF Gone
    <3>2. \A s \in 0 .. kbd_buff_idx : keyboard_buffer'[s] # c
      BY <1>1, <2>1, <3>1 DEF Kept, Doomed, MidPop
    <3>3. c \in 1 .. pushes
      BY <1>1, <1>2, <3>1, <3>2
    <3>4. ~Kept(c)
      BY <1>1, <1>2, <1>3, <3>1, <3>2 DEF Kept, MidPop
    <3> QED
      BY <3>3, <3>4 DEF Gone
  <2> QED
    BY <2>1, <2>2
<1>4. CASE popPc \in MidPop
  <2>1. popPc' = popPc /\ races' = races + 1
    BY <1>4 DEF kbd_buff_push, Wake, MidPop
  <2> DEFINE next == IF popPc = "write" THEN reg - 1 ELSE IF popPc = "dec" THEN kbd_buff_idx ELSE idx
  <2>2. \A s \in 0 .. kbd_buff_idx - 1 : ~Doomed(s) => ~Doomed(s + 1)' \/ s + 1 = next
    BY <1>1, <1>4, <2>1 DEF Doomed, MidPop
  <2>3. Doomed(0)' => next = 0
    BY <1>1, <1>4, <2>1 DEF Doomed, MidPop, IInv, InBounds
  <2>4. ASSUME NEW c \in Gone', c # keyboard_buffer'[next] PROVE c \in Gone
    <3>1. c \in 1 .. pushes' /\ ~Kept(c)'
      BY DEF Gone
    <3>2. \A s \in 0 .. kbd_buff_idx : ~Doomed(s)' => keyboard_buffer'[s] # c
      BY <1>1, <3>1 DEF Kept
    <3>3. c \in 1 .. pushes
      BY <1>1, <1>2, <2>3, <2>4, <3>1, <3>2
    <3>4. \A s \in 0 .. kbd_buff_idx - 1 : ~Doomed(s) => keyboard_buffer[s] # c
      BY <1>1, <1>2, <2>2, <2>4, <3>2
    <3>5. ~Kept(c)
      BY <1>1, <1>4, <2>1, <3>1, <3>4 DEF Kept
    <3> QED
      BY <3>3, <3>5 DEF Gone
  <2>5. Gone' \subseteq Gone \cup {keyboard_buffer'[next]}
    BY <2>4
  <2> QED
    BY <2>1, <2>5
<1> QED
  BY <1>3, <1>4

(* No access of the pop puts a character into danger.                      *)
LEMMA OthersGone ==
  ASSUME IInv, [BufferNext]_bufferVars, ~kbd_buff_push
  PROVE  races' = races /\ Gone' \subseteq Gone
<1>1. races' = races /\ pushes' = pushes
  BY DEF BufferNext, Main, OtherInterrupt, Test, Halt, ReadCode, LoopCond, Load, Store, LoadIdx,
         StoreIdx, bufferVars
<1> SUFFICES ASSUME NEW c, Kept(c) PROVE Kept(c)'
  BY <1>1 DEF Gone
<1> USE KbdAssumption DEF IInv, TypeOK, MidPop, buffer
<1>2. CASE OtherInterrupt
  BY <1>2 DEF OtherInterrupt, Wake, Kept, Doomed
<1>3. CASE Test \/ Halt
  BY <1>3 DEF Test, Halt, Kept, Doomed
<1>4. CASE ReadCode
  BY <1>4 DEF ReadCode, Kept, Doomed
<1>5. CASE LoopCond
  BY <1>5 DEF LoopCond, MoreToMove, Kept, Doomed, TestsStillHold
<1>6. CASE Load
  BY <1>6 DEF Load, Kept, Doomed
<1>7. CASE Store
  BY <1>7 DEF Store, Kept, Doomed, InBounds, TestsStillHold, Slots
<1>8. CASE LoadIdx
  BY <1>8 DEF LoadIdx, Kept, Doomed
<1>9. CASE StoreIdx
  BY <1>9 DEF StoreIdx, Kept, Doomed, InBounds
<1>10. CASE UNCHANGED bufferVars
  BY <1>10 DEF bufferVars, Kept, Doomed
<1> QED
  BY <1>2, <1>3, <1>4, <1>5, <1>6, <1>7, <1>8, <1>9, <1>10 DEF BufferNext, Main

(* No step loses more keys than one for each that came into the pop. *)
LEMMA NextGone == IInv /\ OneGonePerRace /\ [BufferNext]_bufferVars => OneGonePerRace'
<1> SUFFICES ASSUME IInv, OneGonePerRace, [BufferNext]_bufferVars PROVE OneGonePerRace'
  OBVIOUS
<1>1. IsFiniteSet(Gone) /\ IsFiniteSet(Gone')
  <2>1. TypeOK /\ TypeOK'
    BY NextInvariant DEF IInv
  <2>2. /\ pushes \in Int /\ Gone \in SUBSET (1 .. pushes)
        /\ pushes' \in Int /\ Gone' \in SUBSET (1 .. pushes')
    BY <2>1 DEF Gone, TypeOK, Chars, None
  <2>3. IsFiniteSet(1 .. pushes) /\ IsFiniteSet(1 .. pushes')
    BY <2>2, FS_Interval
  <2> QED
    BY <2>2, <2>3, FS_Subset
<1>2. races \in Nat
  BY DEF IInv, TypeOK
<1>3. CASE races' = races /\ Gone' \subseteq Gone
  <2>1. Cardinality(Gone') <= Cardinality(Gone)
    BY <1>1, <1>3, FS_Subset
  <2> QED
    BY <1>1, <1>2, <1>3, <2>1, FS_CardinalityType DEF OneGonePerRace
<1>4. ASSUME races' = races + 1, NEW x, Gone' \subseteq Gone \cup {x}
      PROVE  OneGonePerRace'
  <2>1. IsFiniteSet(Gone \cup {x}) /\ Cardinality(Gone \cup {x}) <= Cardinality(Gone) + 1
    <3>1. Cardinality(Gone) \in Nat
      BY <1>1, FS_CardinalityType
    <3>2. /\ IsFiniteSet(Gone \cup {x})
          /\ Cardinality(Gone \cup {x}) = IF x \in Gone THEN Cardinality(Gone)
                                         ELSE Cardinality(Gone) + 1
      BY <1>1, FS_AddElement
    <3> QED
      BY <3>1, <3>2
  <2>2. Cardinality(Gone') <= Cardinality(Gone \cup {x})
    BY <1>4, <2>1, FS_Subset
  <2> QED
    BY <1>1, <1>2, <1>4, <2>1, <2>2, FS_CardinalityType DEF OneGonePerRace
<1> QED
  BY <1>3, <1>4, PushGone, OthersGone

(* Between two pops nothing is about to be overwritten.                    *)
LEMMA LostIsGone == IInv /\ Account /\ OneGonePerRace => OneLossPerRace
<1> SUFFICES ASSUME IInv, Account, OneGonePerRace, popPc \notin MidPop PROVE Cardinality(Lost) <= races
  BY DEF OneLossPerRace, Account, MidPop
<1>1. \A c : Kept(c) <=> \/ \E k \in 1 .. Len(delivered) : delivered[k] = c
                         \/ \E s \in 0 .. kbd_buff_idx - 1 : keyboard_buffer[s] = c
  BY DEF Kept, Doomed, MidPop
<1>2. \A c : (\E s \in 0 .. kbd_buff_idx - 1 : keyboard_buffer[s] = c)
               => \E k \in 1 .. kbd_buff_idx : keyboard_buffer[k - 1] = c
  <2> SUFFICES ASSUME NEW s \in 0 .. kbd_buff_idx - 1
               PROVE  \E k \in 1 .. kbd_buff_idx : keyboard_buffer[k - 1] = keyboard_buffer[s]
    OBVIOUS
  <2>1. s + 1 \in 1 .. kbd_buff_idx /\ (s + 1) - 1 = s
    BY DEF IInv, TypeOK
  <2> QED
    BY <2>1
<1>3. Lost \subseteq Gone
  BY <1>1, <1>2 DEF Lost, Gone
<1>4. IsFiniteSet(Gone)
  BY GoneFinite DEF IInv
<1>5. Cardinality(Lost) <= Cardinality(Gone) /\ Cardinality(Lost) \in Nat /\ Cardinality(Gone) \in Nat
  BY <1>3, <1>4, FS_Subset, FS_CardinalityType
<1> QED
  BY <1>5 DEF OneGonePerRace, IInv, TypeOK

(* Characters get lost or doubled only where a push came into a pop, and   *)
(* at most one for each, wherever in the pop the handler comes and however *)
(* often.                                                                  *)
THEOREM KbdOneLossPerRace == BufferSpec => []OneLossPerRace
<1>1. BufferInit => IInv /\ Account /\ OneGonePerRace
  <2> SUFFICES ASSUME BufferInit PROVE IInv /\ Account /\ OneGonePerRace
    OBVIOUS
  <2>1. Gone = {}
    BY DEF BufferInit, Gone
  <2> QED
    BY <2>1, InitInvariant, FS_EmptySet DEF BufferInit, Account, Held, OneGonePerRace
<1>2. IInv /\ Account /\ OneGonePerRace /\ [BufferNext]_bufferVars => (IInv /\ Account /\ OneGonePerRace)'
  BY NextInvariant, NextAccount, NextGone
<1> QED
  BY <1>1, <1>2, LostIsGone, PTL DEF BufferSpec


-----------------------------------------------------------------------------
(***************************************************************************)
(* Proofs about module Scancodes, for every keyboard: any set of keys with *)
(* codes below 128, pressed, repeated and released in any order.           *)
(*                                                                         *)
(* The two properties speak of the moments between two events.  DecoderInv *)
(* follows an event byte by byte: what is left to send tells what          *)
(* key_released and enhanced_key are, a code can be misread only if its    *)
(* key and its enhanced twin are blurred already, and the modifiers of all *)
(* other keys stay right.                                                  *)
(***************************************************************************)
(* The decoder holds k's code as a modifier exactly when k is down.        *)
Tracked(k) == CodeOf(k) \in Modifiers => (CodeOf(k) \in keyboard_status <=> k \in down)

EnhancedIsDown == enhanced_key => \E e \in down : e.enhanced

(* The bytes of k's event are being handled, and the decoder has followed. *)
HandlingKey(k, press) ==
  /\ event = <<k, press>>
  /\ k \in down <=> press
  /\ \/ k.enhanced /\ sending = Bytes(k, press) /\ key_released = FALSE
     \/ /\ ~press /\ sending = <<Released, k.code>> /\ key_released = FALSE
        /\ k.enhanced => enhanced_key
     \/ /\ sending = <<k.code>> /\ (key_released <=> ~press)
        /\ k.enhanced => enhanced_key
  /\ ~k.enhanced /\ enhanced_key => {x \in Keys : x.code = k.code} \subseteq blurred
  /\ press => EnhancedIsDown
  /\ \A x \in Keys \ blurred : x # k => Tracked(x)
  /\ char = Nothing

HandlingAnswer ==
  /\ event = <<>>
  /\ sending \in {<<250>>, <<170>>}
  /\ key_released = FALSE
  /\ EnhancedIsDown
  /\ \A x \in Keys \ blurred : Tracked(x)

Waiting ==
  /\ event = <<>> \/ \E k \in Keys, press \in BOOLEAN : event = <<k, press>>
  /\ sending = <<>>
  /\ key_released = FALSE
  /\ EnhancedIsDown
  /\ \A x \in Keys \ blurred : Tracked(x)
  /\ CharsMatchKeys

DecoderTypeOK ==
  /\ key_released \in BOOLEAN
  /\ enhanced_key \in BOOLEAN
  /\ down \subseteq Keys
  (* Only the shift keys send the codes of the shift keys. *)
  /\ \A c \in {KBD_LSHIFT, KBD_RSHIFT} :
       c \in keyboard_status => \E k \in Keys : CodeOf(k) = c

DecoderInv ==
  /\ DecoderTypeOK
  /\ \/ Waiting
     \/ HandlingAnswer
     \/ \E k \in Keys, press \in BOOLEAN : HandlingKey(k, press)

(* The codes of the keys: an enhanced key's has 0x80 added, none is a      *)
(* prefix or an answer, and no two keys share one.                         *)
LEMMA KeyType ==
  ASSUME NEW k \in Keys
  PROVE  k.code \in 1 .. 127 /\ k.enhanced \in BOOLEAN /\ k = [code |-> k.code, enhanced |-> k.enhanced]
BY KeysAssumption

(* Two keys do not send the same bytes. *)
LEMMA CodesDiffer ==
  ASSUME NEW k \in Keys, NEW x \in Keys, CodeOf(k) = CodeOf(x)
  PROVE  k = x
<1>1. k.code = x.code /\ k.enhanced = x.enhanced
  BY KeyType DEF CodeOf
<1> QED
  BY <1>1, KeyType

(* A code that is no prefix is decoded as the code of the plain key, or as *)
(* that of its enhanced twin.                                              *)
LEMMA CodeDecoded ==
  ASSUME NEW k \in Keys
  PROVE  /\ k.code \notin {Released, Enhanced}
         /\ enhanced_key => Scancode(k.code) = k.code + 128
         /\ ~enhanced_key => Scancode(k.code) = k.code
<1>1. k.code \in 1 .. 127
  BY KeyType
<1>2. (k.code % 128) + 128 = k.code + 128
  BY <1>1
<1> QED
  BY SMT, <1>1, <1>2 DEF Scancode, Released, Enhanced

(* The bytes of a late answer are neither prefixes nor modifier keys. *)
LEMMA AnswerDecoded ==
  ASSUME NEW byte \in {250, 170}
  PROVE  byte \notin {Released, Enhanced} /\ Scancode(byte) \notin Modifiers
<1>1. (250 % 128) + 128 = 250 /\ (170 % 128) + 128 = 170
  BY SMT
<1>2. Scancode(byte) = byte
  BY SMT, <1>1 DEF Scancode
<1> QED
  BY SMT, <1>2 DEF Released, Enhanced, Modifiers, KBD_LSHIFT, KBD_RSHIFT

(* Bytes one after the other.                                              *)
LEMMA TwoBytes ==
  ASSUME NEW a \in Int, NEW b \in Int
  PROVE  <<a>> \o <<b>> = <<a, b>>
<1>1. /\ Len(<<a>> \o <<b>>) = 2
      /\ (<<a>> \o <<b>>)[1] = a /\ (<<a>> \o <<b>>)[2] = b
  BY SMT
<1>2. <<a>> \o <<b>> \in Seq(Int) /\ <<a, b>> \in Seq(Int)
  OBVIOUS
<1>3. \A i \in 1 .. 2 : (<<a>> \o <<b>>)[i] = <<a, b>>[i]
  BY <1>1
<1> QED
  BY <1>1, <1>2, <1>3, SeqEqual

(* The bytes received, written as one sequence. *)
LEMMA ThreeBytes ==
  ASSUME NEW a \in Int, NEW b \in Int, NEW c \in Int
  PROVE  <<a, b>> \o <<c>> = <<a, b, c>>
<1>1. /\ Len(<<a, b>> \o <<c>>) = 3
      /\ (<<a, b>> \o <<c>>)[1] = a /\ (<<a, b>> \o <<c>>)[2] = b /\ (<<a, b>> \o <<c>>)[3] = c
  BY SMT
<1>2. <<a, b>> \o <<c>> \in Seq(Int) /\ <<a, b, c>> \in Seq(Int)
  OBVIOUS
<1>3. \A i \in 1 .. 3 : (<<a, b>> \o <<c>>)[i] = <<a, b, c>>[i]
  BY <1>1
<1> QED
  BY <1>1, <1>2, <1>3, SeqEqual

(* What a key sends.                                                       *)
LEMMA BytesOf ==
  ASSUME NEW k \in Keys, NEW press \in BOOLEAN
  PROVE  /\ k.enhanced /\ press => Bytes(k, press) = <<Enhanced, k.code>>
         /\ k.enhanced /\ ~press => Bytes(k, press) = <<Enhanced, Released, k.code>>
         /\ ~k.enhanced /\ press => Bytes(k, press) = <<k.code>>
         /\ ~k.enhanced /\ ~press => Bytes(k, press) = <<Released, k.code>>
<1> DEFINE E == <<Enhanced>>  R == <<Released>>  C == <<k.code>>
<1>1. k.code \in Int /\ Enhanced \in Int /\ Released \in Int
  BY SMT, KeyType DEF Enhanced, Released
<1>2. E \in Seq(Int) /\ R \in Seq(Int) /\ C \in Seq(Int)
  BY <1>1
<1>3. /\ <<>> \o <<>> = <<>> /\ <<>> \o R = R /\ <<>> \o C = C /\ E \o <<>> = E
  BY <1>2, ConcatEmptySeq, EmptySeq
<1>4. /\ E \o C = <<Enhanced, k.code>> /\ R \o C = <<Released, k.code>>
      /\ E \o R = <<Enhanced, Released>>
  BY <1>1, TwoBytes
<1>5. <<Enhanced, Released>> \o C = <<Enhanced, Released, k.code>>
  BY <1>1, ThreeBytes
<1> QED
  BY <1>3, <1>4, <1>5 DEF Bytes

(* The decoder starts between two events. *)
LEMMA InitDecoder == DecoderInit => DecoderInv
BY DEF DecoderInit, DecoderInv, DecoderTypeOK, Waiting, EnhancedIsDown, Tracked, CharsMatchKeys

(* With nothing left to send, no event is under way.                       *)
LEMMA StartsWaiting ==
  ASSUME DecoderInv, sending = <<>>
  PROVE  Waiting
<1>1. ASSUME HandlingAnswer PROVE FALSE
  BY <1>1 DEF HandlingAnswer
<1>2. ASSUME NEW x \in Keys, NEW p \in BOOLEAN, HandlingKey(x, p) PROVE FALSE
  <2>1. /\ Bytes(x, p) # <<>>
        /\ <<Released, x.code>> # <<>> /\ <<x.code>> # <<>>
    BY <1>2, BytesOf
  <2> QED
    BY <1>2, <2>1 DEF HandlingKey
<1> QED
  BY <1>1, <1>2 DEF DecoderInv

(* An event starts: its key is no longer tracked, all bytes are left.      *)
LEMMA EventStarts ==
  ASSUME DecoderInv, NEW k \in Keys, NEW press \in BOOLEAN,
         sending = <<>>,
         down' = IF press THEN down \cup {k} ELSE down \ {k},
         sending' = Bytes(k, press), event' = <<k, press>>, blurred' = Blur(k), char' = Nothing,
         UNCHANGED <<key_released, enhanced_key, keyboard_status>>
  PROVE  DecoderInv'
<1>1. Waiting
  BY StartsWaiting
<1>2. DecoderTypeOK'
  BY DEF DecoderInv, DecoderTypeOK
<1>3. (k \in down)' <=> press
  OBVIOUS
<1>4. \/ k.enhanced /\ sending' = Bytes(k, press) /\ key_released' = FALSE
      \/ /\ ~press /\ sending' = <<Released, k.code>> /\ key_released' = FALSE
         /\ k.enhanced => enhanced_key'
      \/ /\ sending' = <<k.code>> /\ (key_released' <=> ~press)
         /\ k.enhanced => enhanced_key'
  <2>1. key_released' = FALSE
    BY <1>1 DEF Waiting
  <2> QED
    BY <2>1, BytesOf
<1>5. ~k.enhanced /\ enhanced_key' => {x \in Keys : x.code = k.code} \subseteq blurred'
  <2> SUFFICES ASSUME ~k.enhanced, enhanced_key PROVE {x \in Keys : x.code = k.code} \subseteq blurred'
    OBVIOUS
  <2>1. PICK e \in down : e.enhanced
    BY <1>1 DEF Waiting, EnhancedIsDown
  <2>2. e \in down \ {k} /\ e.enhanced
    BY <2>1
  <2>3. blurred' = blurred \cup {x \in Keys : x.code = k.code}
    BY <2>2 DEF Blur
  <2> QED
    BY <2>3
<1>6. press => EnhancedIsDown'
  <2> SUFFICES ASSUME press, enhanced_key PROVE \E e \in down' : e.enhanced
    BY DEF EnhancedIsDown
  <2>1. PICK e \in down : e.enhanced
    BY <1>1 DEF Waiting, EnhancedIsDown
  <2>2. e \in down'
    BY <2>1
  <2> QED
    BY <2>1, <2>2
<1>7. \A x \in Keys \ blurred' : x # k => Tracked(x)'
  <2> SUFFICES ASSUME NEW x \in Keys \ blurred', x # k PROVE Tracked(x)'
    OBVIOUS
  <2>1. x \notin blurred
    BY DEF Blur
  <2>2. Tracked(x)
    BY <1>1, <2>1 DEF Waiting
  <2>3. x \in down' <=> x \in down
    OBVIOUS
  <2> QED
    BY <2>2, <2>3 DEF Tracked
<1>8. HandlingKey(k, press)'
  BY <1>3, <1>4, <1>5, <1>6, <1>7 DEF HandlingKey
<1> QED
  BY <1>2, <1>8 DEF DecoderInv

(* What is left of the bytes of an event.                                  *)
LEMMA Prefixes ==
  ASSUME DecoderTypeOK, NEW k \in Keys, NEW press \in BOOLEAN, HandlingKey(k, press), KeyInterrupt,
         sending # <<k.code>>
  PROVE  DecoderInv'
<1>1. UNCHANGED <<down, event, blurred>> /\ sending' = Tail(sending) /\ Decode(Head(sending))
  BY DEF KeyInterrupt
<1>2. CASE k.enhanced /\ sending = Bytes(k, press) /\ key_released = FALSE
  <2>1. /\ Head(sending) = Enhanced
        /\ press => sending' = <<k.code>>
        /\ ~press => sending' = <<Released, k.code>>
    <3>1. CASE press
      <4>1. sending = <<Enhanced, k.code>>
        BY <1>2, <3>1, BytesOf
      <4> QED
        BY <1>1, <3>1, <4>1
    <3>2. CASE ~press
      <4>1. sending = <<Enhanced, Released, k.code>>
        BY <1>2, <3>2, BytesOf
      <4> QED
        BY <1>1, <3>2, <4>1
    <3> QED
      BY <3>1, <3>2
  <2>2. enhanced_key' = TRUE /\ UNCHANGED <<key_released, keyboard_status, char>>
    BY <1>1, <2>1 DEF Decode, ReleasePrefix, EnhancedPrefix, KeyUp, ModifierDown, KeyDown,
                      Released, Enhanced
  <2>3. press => EnhancedIsDown'
    BY <1>1, <1>2 DEF HandlingKey, EnhancedIsDown
  <2>4. \A x \in Keys \ blurred' : x # k => Tracked(x)'
    BY <1>1, <2>2 DEF HandlingKey, Tracked
  <2>5. HandlingKey(k, press)'
    BY <1>1, <1>2, <2>1, <2>2, <2>3, <2>4 DEF HandlingKey
  <2>6. DecoderTypeOK'
    BY <1>1, <2>2 DEF DecoderTypeOK
  <2> QED
    BY <2>5, <2>6 DEF DecoderInv
<1>3. CASE /\ ~press /\ sending = <<Released, k.code>> /\ key_released = FALSE
           /\ k.enhanced => enhanced_key
  <2>1. Head(sending) = Released /\ sending' = <<k.code>>
    BY <1>1, <1>3
  <2>2. key_released' = TRUE /\ UNCHANGED <<enhanced_key, keyboard_status, char>>
    BY <1>1, <2>1 DEF Decode, ReleasePrefix, EnhancedPrefix, KeyUp, ModifierDown, KeyDown,
                      Released, Enhanced
  <2>3. \A x \in Keys \ blurred' : x # k => Tracked(x)'
    BY <1>1, <2>2 DEF HandlingKey, Tracked
  <2>4. HandlingKey(k, press)'
    BY <1>1, <1>3, <2>1, <2>2, <2>3 DEF HandlingKey
  <2>5. DecoderTypeOK'
    BY <1>1, <2>2 DEF DecoderTypeOK
  <2> QED
    BY <2>4, <2>5 DEF DecoderInv
<1> QED
  BY <1>2, <1>3 DEF HandlingKey

(* The handled event leaves the other keys' modifiers as they were, unless *)
(* it blurred them.                                                        *)
LEMMA OthersUntouched ==
  ASSUME NEW k \in Keys, NEW x \in Keys, x # k, NEW press \in BOOLEAN,
         HandlingKey(k, press), x \notin blurred, k.enhanced => enhanced_key
  PROVE  CodeOf(x) # Scancode(k.code)
<1>1. k.code \in 1 .. 127 /\ k.enhanced \in BOOLEAN /\ x.code \in 1 .. 127 /\ x.enhanced \in BOOLEAN
  BY KeyType
<1>2. CodeOf(x) # CodeOf(k)
  BY CodesDiffer
<1>3. CASE k.enhanced \/ ~enhanced_key
  <2>1. Scancode(k.code) = CodeOf(k)
    BY <1>1, <1>3, CodeDecoded DEF CodeOf
  <2> QED
    BY <1>2, <2>1
<1>4. CASE ~k.enhanced /\ enhanced_key
  <2>1. x.code # k.code
    BY <1>4 DEF HandlingKey
  <2>2. Scancode(k.code) = k.code + 128
    BY <1>4, CodeDecoded
  <2>3. x.code # k.code + 128 /\ x.code + 128 # k.code + 128
    <3>1. \A c, d \in 1 .. 127 : d # c => d # c + 128 /\ d + 128 # c + 128
      OBVIOUS
    <3> QED
      BY <1>1, <2>1, <3>1
  <2>4. CodeOf(x) \in {x.code, x.code + 128}
    BY DEF CodeOf
  <2> QED
    BY <2>2, <2>3, <2>4
<1> QED
  BY <1>3, <1>4

(* A key is decoded exactly unless its event blurred it.                   *)
LEMMA DecodedExactly ==
  ASSUME NEW k \in Keys \ blurred, NEW press \in BOOLEAN, HandlingKey(k, press),
         k.enhanced => enhanced_key
  PROVE  Scancode(k.code) = CodeOf(k)
<1>1. k.enhanced \in BOOLEAN /\ k \in {x \in Keys : x.code = k.code}
  BY KeyType
<1>2. ~k.enhanced => ~enhanced_key
  BY <1>1 DEF HandlingKey
<1> QED
  BY <1>1, <1>2, CodeDecoded DEF CodeOf

(* With no key blurred, the decoder knows which shift keys are held.       *)
LEMMA ShiftIsKnown ==
  ASSUME DecoderTypeOK, \A x \in Keys : CodeOf(x) \in {KBD_LSHIFT, KBD_RSHIFT} => Tracked(x)
  PROVE  Shift(keyboard_status) <=> Shift(HeldModifiers)
<1> DEFINE S == {KBD_LSHIFT, KBD_RSHIFT}
<1>1. S \subseteq Modifiers
  BY DEF Modifiers
<1>2. ASSUME NEW c \in S PROVE c \in keyboard_status <=> c \in HeldModifiers
  <2>1. ASSUME c \in keyboard_status PROVE c \in HeldModifiers
    <3>1. PICK x \in Keys : CodeOf(x) = c
      BY <2>1 DEF DecoderTypeOK
    <3>2. x \in down
      BY <1>1, <2>1, <3>1 DEF Tracked
    <3> QED
      BY <1>1, <3>1, <3>2 DEF HeldModifiers
  <2>2. ASSUME c \in HeldModifiers PROVE c \in keyboard_status
    <3>1. PICK x \in down : CodeOf(x) = c
      BY <2>2 DEF HeldModifiers
    <3>2. x \in Keys
      BY DEF DecoderTypeOK
    <3> QED
      BY <1>1, <3>1, <3>2 DEF Tracked
  <2> QED
    BY <2>1, <2>2
<1>3. S \cap keyboard_status = S \cap HeldModifiers
  BY <1>2
<1> QED
  BY <1>3 DEF Shift

(* The last byte of a release.                                             *)
LEMMA ReleaseEnds ==
  ASSUME DecoderTypeOK, NEW k \in Keys, HandlingKey(k, FALSE), sending = <<k.code>>,
         KeyInterrupt
  PROVE  DecoderInv'
<1>1. /\ UNCHANGED <<down, event, blurred>> /\ sending' = <<>> /\ Decode(k.code)
      /\ event = <<k, FALSE>> /\ k \notin down /\ char = Nothing
      /\ key_released /\ (k.enhanced => enhanced_key)
  <2>1. Head(sending) = k.code /\ Tail(sending) = <<>>
    OBVIOUS
  <2>2. UNCHANGED <<down, event, blurred>> /\ sending' = <<>> /\ Decode(k.code)
    BY <2>1 DEF KeyInterrupt
  <2>3. /\ event = <<k, FALSE>> /\ k \notin down /\ char = Nothing
        /\ key_released /\ (k.enhanced => enhanced_key)
    <3>1. sending # <<Released, k.code>>
      <4>1. Len(<<k.code>>) = 1 /\ Len(<<Released, k.code>>) = 2
        OBVIOUS
      <4> QED
        BY <4>1
    <3>2. k.enhanced => sending # Bytes(k, FALSE)
      <4>1. /\ Len(<<k.code>>) = 1 /\ Len(<<Enhanced, k.code>>) = 2
            /\ Len(<<Enhanced, Released, k.code>>) = 3
        OBVIOUS
      <4>2. FALSE \in BOOLEAN
        OBVIOUS
      <4>3. k.enhanced => Bytes(k, FALSE) = <<Enhanced, Released, k.code>>
        BY Zenon, <4>2, BytesOf
      <4>4. <<k.code>> # <<Enhanced, Released, k.code>> /\ <<k.code>> # <<Enhanced, k.code>>
        BY <4>1
      <4> QED
        BY Zenon, <4>3, <4>4
    <3> QED
      BY <3>1, <3>2 DEF HandlingKey, DecoderTypeOK
  <2> QED
    BY <2>2, <2>3
<1>2. /\ key_released' = FALSE /\ enhanced_key' = FALSE /\ UNCHANGED char
      /\ keyboard_status' = keyboard_status \ {Scancode(k.code)}
  BY <1>1, CodeDecoded DEF Decode, ReleasePrefix, EnhancedPrefix, KeyUp, ModifierDown, KeyDown
<1>3. ASSUME NEW x \in Keys \ blurred' PROVE Tracked(x)'
  <2>1. x \notin blurred
    BY <1>1
  <2>2. CASE x = k
    <3>1. Scancode(k.code) = CodeOf(x)
      BY <1>1, <2>1, <2>2, DecodedExactly
    <3> QED
      BY <1>1, <1>2, <2>2, <3>1 DEF Tracked
  <2>3. CASE x # k
    <3>1. CodeOf(x) # Scancode(k.code)
      BY <1>1, <2>1, <2>3, OthersUntouched
    <3>2. Tracked(x)
      BY <2>1, <2>3 DEF HandlingKey
    <3> QED
      BY <1>1, <1>2, <3>1, <3>2 DEF Tracked
  <2> QED
    BY <2>2, <2>3
<1>4. CharsMatchKeys'
  BY <1>1, <1>2 DEF CharsMatchKeys
<1>5. Waiting'
  BY <1>1, <1>2, <1>3, <1>4 DEF Waiting, EnhancedIsDown
<1>6. DecoderTypeOK'
  BY <1>1, <1>2 DEF DecoderTypeOK
<1> QED
  BY <1>5, <1>6 DEF DecoderInv

(* The last byte of a press: a modifier is held from now on, any other key *)
(* puts its character into the buffer.                                     *)
LEMMA PressEnds ==
  ASSUME DecoderTypeOK, NEW k \in Keys, HandlingKey(k, TRUE), sending = <<k.code>>,
         KeyInterrupt
  PROVE  DecoderInv'
<1>1. /\ UNCHANGED <<down, event, blurred>> /\ sending' = <<>> /\ Decode(k.code)
      /\ event = <<k, TRUE>> /\ k \in down /\ char = Nothing
      /\ key_released = FALSE /\ (k.enhanced => enhanced_key)
  <2>1. Head(sending) = k.code /\ Tail(sending) = <<>>
    OBVIOUS
  <2>2. UNCHANGED <<down, event, blurred>> /\ sending' = <<>> /\ Decode(k.code)
    BY <2>1 DEF KeyInterrupt
  <2>3. /\ event = <<k, TRUE>> /\ k \in down /\ char = Nothing
        /\ key_released = FALSE /\ (k.enhanced => enhanced_key)
    <3>1. sending # <<Released, k.code>>
      <4>1. Len(<<k.code>>) = 1 /\ Len(<<Released, k.code>>) = 2
        OBVIOUS
      <4> QED
        BY <4>1
    <3>2. k.enhanced => sending # Bytes(k, TRUE)
      <4>1. /\ Len(<<k.code>>) = 1 /\ Len(<<Enhanced, k.code>>) = 2
            /\ Len(<<Enhanced, Released, k.code>>) = 3
        OBVIOUS
      <4>2. TRUE \in BOOLEAN
        OBVIOUS
      <4>3. k.enhanced => Bytes(k, TRUE) = <<Enhanced, k.code>>
        BY Zenon, <4>2, BytesOf
      <4>4. <<k.code>> # <<Enhanced, Released, k.code>> /\ <<k.code>> # <<Enhanced, k.code>>
        BY <4>1
      <4> QED
        BY Zenon, <4>3, <4>4
    <3> QED
      BY <3>1, <3>2 DEF HandlingKey, DecoderTypeOK
  <2> QED
    BY <2>2, <2>3
<1>2. /\ key_released' = FALSE /\ enhanced_key' = enhanced_key
      /\ Scancode(k.code) \in Modifiers =>
           /\ keyboard_status' = keyboard_status \cup {Scancode(k.code)}
           /\ UNCHANGED char
      /\ Scancode(k.code) \notin Modifiers =>
           /\ keyboard_status' = keyboard_status
           /\ char' = translate(Scancode(k.code), Shift(keyboard_status))
  BY <1>1, CodeDecoded DEF Decode, ReleasePrefix, EnhancedPrefix, KeyUp, ModifierDown, KeyDown
<1>3. ASSUME NEW x \in Keys \ blurred' PROVE Tracked(x)'
  <2>1. x \notin blurred
    BY <1>1
  <2>2. CASE x = k
    <3>1. Scancode(k.code) = CodeOf(x)
      BY <1>1, <2>1, <2>2, DecodedExactly
    <3> QED
      BY <1>1, <1>2, <2>2, <3>1 DEF Tracked
  <2>3. CASE x # k
    <3>1. CodeOf(x) # Scancode(k.code)
      BY <1>1, <2>1, <2>3, OthersUntouched
    <3>2. Tracked(x)
      BY <2>1, <2>3 DEF HandlingKey
    <3>3. CodeOf(x) \in keyboard_status' <=> CodeOf(x) \in keyboard_status
      BY <1>2, <3>1
    <3> QED
      BY <1>1, <3>2, <3>3 DEF Tracked
  <2> QED
    BY <2>2, <2>3
<1>4. DecoderTypeOK'
  <2>1. ASSUME NEW c \in {KBD_LSHIFT, KBD_RSHIFT}, c \in keyboard_status'
        PROVE  \E x \in Keys : CodeOf(x) = c
    <3>1. CASE c \in keyboard_status
      BY <3>1 DEF DecoderTypeOK
    <3>2. CASE c \notin keyboard_status
      <4>1. c = Scancode(k.code)
        BY <1>2, <2>1, <3>2
      <4>2. k.code \in 1 .. 127 /\ c < 128 /\ k.enhanced \in BOOLEAN
        BY KeyType DEF KBD_LSHIFT, KBD_RSHIFT
      <4>3. ~enhanced_key /\ c = k.code
        BY <4>1, <4>2, CodeDecoded
      <4> QED
        BY <1>1, <4>2, <4>3 DEF CodeOf
    <3> QED
      BY <3>1, <3>2
  <2> QED
    BY <1>1, <1>2, <2>1 DEF DecoderTypeOK
<1>5. CharsMatchKeys'
  <2> SUFFICES ASSUME blurred = {}
               PROVE  char' = IF CodeOf(k) \notin Modifiers
                              THEN translate(CodeOf(k), Shift(HeldModifiers'))
                              ELSE Nothing
    BY <1>1 DEF CharsMatchKeys
  <2>1. Scancode(k.code) = CodeOf(k)
    BY <1>1, DecodedExactly
  <2>2. CASE CodeOf(k) \in Modifiers
    BY <1>1, <1>2, <2>1, <2>2
  <2>3. CASE CodeOf(k) \notin Modifiers
    <3>1. Shift(keyboard_status) <=> Shift(HeldModifiers)
      <4>1. ASSUME NEW x \in Keys, CodeOf(x) \in {KBD_LSHIFT, KBD_RSHIFT} PROVE Tracked(x)
        <5>1. x # k
          BY <2>3, <4>1 DEF Modifiers
        <5> QED
          BY <5>1 DEF HandlingKey
      <4> QED
        BY <4>1, ShiftIsKnown
    <3>2. HeldModifiers' = HeldModifiers
      BY <1>1 DEF HeldModifiers
    <3>3. Shift(keyboard_status) = Shift(HeldModifiers')
      BY <3>1, <3>2 DEF Shift
    <3> QED
      BY <1>2, <2>1, <2>3, <3>3
  <2> QED
    BY <2>2, <2>3
<1>6. EnhancedIsDown'
  BY <1>1, <1>2 DEF HandlingKey, EnhancedIsDown
<1>7. Waiting'
  BY <1>1, <1>2, <1>3, <1>5, <1>6 DEF Waiting
<1> QED
  BY <1>4, <1>7 DEF DecoderInv

(* An answer taken for a scan code is a code without an entry: it changes  *)
(* no modifier.                                                            *)
LEMMA AnswerEnds ==
  ASSUME DecoderTypeOK, HandlingAnswer, KeyInterrupt
  PROVE  DecoderInv'
<1>1. PICK byte \in {250, 170} : sending = <<byte>>
  BY DEF HandlingAnswer
<1>2. Head(sending) = byte /\ Tail(sending) = <<>>
  BY <1>1
<1>3. UNCHANGED <<down, event, blurred>> /\ sending' = <<>> /\ Decode(byte)
  BY <1>2 DEF KeyInterrupt
<1>4. UNCHANGED <<key_released, enhanced_key, keyboard_status>>
  BY <1>3, AnswerDecoded DEF HandlingAnswer, Decode, ReleasePrefix, EnhancedPrefix, KeyUp,
                             ModifierDown, KeyDown
<1>5. \A x \in Keys \ blurred' : Tracked(x)'
  BY <1>3, <1>4 DEF HandlingAnswer, Tracked
<1>6. Waiting'
  BY <1>3, <1>4, <1>5 DEF HandlingAnswer, Waiting, EnhancedIsDown, CharsMatchKeys
<1>7. DecoderTypeOK'
  BY <1>3, <1>4 DEF DecoderTypeOK
<1> QED
  BY <1>6, <1>7 DEF DecoderInv

(* A late answer begins like an event of a key. *)
LEMMA AnswerStarts ==
  ASSUME DecoderInv, LateAnswer
  PROVE  DecoderInv'
<1>1. Waiting
  BY StartsWaiting DEF LateAnswer
<1>2. \A x \in Keys \ blurred' : Tracked(x)'
  BY <1>1 DEF Waiting, Tracked, LateAnswer
<1>3. HandlingAnswer'
  BY <1>1, <1>2 DEF HandlingAnswer, Waiting, EnhancedIsDown, LateAnswer
<1>4. DecoderTypeOK'
  BY DEF DecoderInv, DecoderTypeOK, LateAnswer
<1> QED
  BY <1>3, <1>4 DEF DecoderInv

(* Every byte, and every event that a key begins, keeps DecoderInv. *)
LEMMA NextDecoder == DecoderInv /\ [DecoderNext]_decoderVars => DecoderInv'
<1> SUFFICES ASSUME DecoderInv, [DecoderNext]_decoderVars PROVE DecoderInv'
  OBVIOUS
<1>1. ASSUME NEW k \in Keys, Press(k) PROVE DecoderInv'
  <2>1. TRUE \in BOOLEAN
    OBVIOUS
  <2> QED
    BY <1>1, <2>1, EventStarts DEF Press
<1>2. ASSUME NEW k \in Keys, Release(k) PROVE DecoderInv'
  <2>1. FALSE \in BOOLEAN
    OBVIOUS
  <2> QED
    BY <1>2, <2>1, EventStarts DEF Release
<1>3. CASE LateAnswer
  BY <1>3, AnswerStarts
<1>4. CASE KeyInterrupt
  <2>1. CASE Waiting
    BY <1>4, <2>1 DEF KeyInterrupt, Waiting
  <2>2. CASE HandlingAnswer
    BY <1>4, <2>2, AnswerEnds DEF DecoderInv
  <2>3. ASSUME NEW k \in Keys, NEW press \in BOOLEAN, HandlingKey(k, press) PROVE DecoderInv'
    <3>1. CASE sending # <<k.code>>
      BY <1>4, <2>3, <3>1, Prefixes DEF DecoderInv
    <3>2. CASE sending = <<k.code>> /\ press
      <4>1. press = TRUE
        BY <3>2
      <4>2. HandlingKey(k, TRUE)
        BY <2>3, <4>1
      <4> QED
        BY <1>4, <3>2, <4>2, PressEnds DEF DecoderInv
    <3>3. CASE sending = <<k.code>> /\ ~press
      <4>1. press = FALSE
        BY <3>3
      <4>2. HandlingKey(k, FALSE)
        BY <2>3, <4>1
      <4> QED
        BY <1>4, <3>3, <4>2, ReleaseEnds DEF DecoderInv
    <3> QED
      BY <3>1, <3>2, <3>3
  <2> QED
    BY <2>1, <2>2, <2>3 DEF DecoderInv
<1>5. CASE UNCHANGED decoderVars
  <2>1. /\ UNCHANGED <<key_released, enhanced_key, keyboard_status, char>>
        /\ UNCHANGED <<down, sending, event, blurred>>
    BY <1>5 DEF decoderVars
  <2>2. \A x : Tracked(x)' <=> Tracked(x)
    BY <2>1 DEF Tracked
  <2>3. \A k, press : HandlingKey(k, press) => HandlingKey(k, press)'
    BY <2>1, <2>2 DEF HandlingKey, EnhancedIsDown
  <2>4. Waiting => Waiting'
    BY <2>1, <2>2 DEF Waiting, EnhancedIsDown, CharsMatchKeys, HeldModifiers
  <2>5. HandlingAnswer => HandlingAnswer'
    BY <2>1, <2>2 DEF HandlingAnswer, EnhancedIsDown
  <2>6. DecoderTypeOK'
    BY <2>1 DEF DecoderInv, DecoderTypeOK
  <2> QED
    BY <2>3, <2>4, <2>5, <2>6 DEF DecoderInv
<1> QED
  BY <1>1, <1>2, <1>3, <1>4, <1>5 DEF DecoderNext

(* DecoderInv holds between any two bytes the keyboard sends.              *)
THEOREM ScancodesInvariant == DecoderSpec => []DecoderInv
BY InitDecoder, NextDecoder, PTL DEF DecoderSpec

(* Between two events the decoder holds a modifier exactly when its key is *)
(* down, unless an event of that code came while an enhanced key was held. *)
THEOREM ScancodesModifiersTrackKeys == DecoderSpec => []ModifiersTrackKeys
<1>1. DecoderInv => ModifiersTrackKeys
  BY StartsWaiting DEF ModifiersTrackKeys, Waiting, Tracked
<1> QED
  BY <1>1, ScancodesInvariant, PTL

(* A key event that is over put the key's own character into the buffer,   *)
(* shifted while a shift key is held, or none if the key has none, as long *)
(* as no key is blurred.                                                   *)
THEOREM ScancodesCharsMatchKeys == DecoderSpec => []CharsMatchKeys
<1>1. DecoderInv => CharsMatchKeys
  <2> SUFFICES ASSUME DecoderInv, sending = <<>> PROVE CharsMatchKeys
    BY DEF CharsMatchKeys
  <2> QED
    BY StartsWaiting DEF Waiting
<1> QED
  BY <1>1, ScancodesInvariant, PTL
=============================================================================
