------------------------------- MODULE Ps2Init -------------------------------
(***************************************************************************)
(* init_8042 (8042.c): the start of the keyboard controller, as the port   *)
(* accesses the functions make, against the controller and a keyboard that *)
(* answer in their own time.  Interrupts are still off: what the keyboard  *)
(* sends waits in the controller's output register until it is read.       *)
(***************************************************************************)
EXTENDS Bits, Sequences

CONSTANTS
  MaxKeys,       \* bound: keys typed meanwhile
  MaxResends     \* bound: times the keyboard asks for the command again

ASSUME Ps2Assumption == MaxKeys \in Nat /\ MaxResends \in Nat

VARIABLES
  pc,            \* the next port access of init_8042, in Program
  result,        \* "running", "failed" (early return) or "initialized"
  cfg,           \* the byte that the last inb(0x60) returned
  reset,         \* history: answers to the reset that were seen: "ack", "passed"
  command,       \* the byte in the input register, tagged; <<>> when empty
  config,        \* byte 0 of the controller's RAM
  setConfig,     \* command 0x60 waits for its data byte
  out, obf,      \* the output register and its full bit
  own,           \* the controller's own answer, until it is in the output register
  answers,       \* bytes the keyboard has still to send
  typed, resends \* keys typed and resends asked for so far

program == <<pc, result, cfg, reset>>
keyboard == <<answers, typed, resends>>
ps2Vars == <<pc, result, cfg, reset, command, config, setConfig, out, obf, own, answers, typed, resends>>

INT_FIRST == 1
INT_SECOND == 2
CLOCK1_DISABLED == 16
CLOCK2_DISABLED == 32
TRANSLATION == 64

Ack == 250         \* 0xFA
Passed == 170      \* 0xAA
Failed == 252      \* 0xFC
Resend == 254      \* 0xFE
Key == 28          \* the code of some key
-----------------------------------------------------------------------------
(* The functions of 8042.c as sequences of port accesses:                  *)
(* "command", "data", "config" (the configuration read before, changed):   *)
(* wait until the input register is empty, then write;                     *)
(* "await": wait until the output register is full; "peek": the loop       *)
(* while (!inb(PS2_STATUS_PORT) & PS2_OUTPUT_BUFFER_FULL), which negates   *)
(* the whole status; "read": inb(0x60), and the test of what it returned.  *)

_8042_send_command(byte) == <<<<"command", byte>>>>

_8042_send_command_await(byte, test) ==
  <<<<"command", byte>>, <<"await">>, <<"read", test>>>>

_8042_get_config_byte(test) == _8042_send_command_await(32, test)

_8042_set_config_byte(change) == <<<<"command", 96>>, <<"config", change>>>>

keyboard_send_command(byte) == <<<<"data", byte>>, <<"peek">>, <<"read", "reset_ack">>>>

(* Mutant of DisablePorts: the first port stays enabled. *)
DisableSecondPort == _8042_send_command(167)

DisablePorts == _8042_send_command(173) \o _8042_send_command(167)

(* Mutant of EnablePort1Interrupt: the byte is read and not written back. *)
ReadPort1Interrupt == _8042_get_config_byte("keep")

EnablePort1Interrupt == _8042_get_config_byte("keep") \o _8042_set_config_byte("enable_port_1")

(* Mutant of EnablePort1: it waits for an answer, await_response = true. *)
EnablePort1Awaiting == _8042_send_command_await(174, "keep")

EnablePort1 == _8042_send_command(174)

SelfTest == _8042_send_command_await(170, "controller_test")

UpToReset ==
  DisablePorts
  \o <<<<"read", "flush">>>>
  \o _8042_get_config_byte("keep") \o _8042_set_config_byte("disable_for_init")
  \o SelfTest
  \o _8042_send_command(168) \o _8042_get_config_byte("channels") \o _8042_send_command(167)
  \o _8042_send_command_await(171, "port_test")
  \o EnablePort1

AtReset == Len(UpToReset) + 1

SkipReset == AtReset + Len(keyboard_send_command(255)) + 2

Program ==
  UpToReset
  \o keyboard_send_command(255) \o <<<<"peek">>, <<"read", "reset_result">>>>
  \o EnablePort1Interrupt

Access == Program[pc]

(* Where the program goes on after it has read value. *)
Following(test, value) ==
  CASE test = "channels" /\ Has(value, CLOCK2_DISABLED) -> pc + 2
    [] test = "reset_ack" /\ value = Resend             -> AtReset
    [] test = "reset_ack" /\ value \notin {Ack, Resend} -> SkipReset
    [] OTHER                                            -> pc + 1

(* The configuration byte that is written back. *)
Changed(change) ==
  IF change = "enable_port_1" THEN With(cfg, INT_FIRST)
  ELSE Without(Without(Without(cfg, INT_FIRST), INT_SECOND), TRANSLATION)

Running(kind) == result = "running" /\ pc <= Len(Program) /\ Access[1] = kind

Advance == pc' = pc + 1 /\ UNCHANGED <<result, cfg, reset>>

Write ==
  /\ command = <<>>
  /\ \/ Running("command") /\ command' = <<"command", Access[2]>>
     \/ Running("data") /\ command' = <<"data", Access[2]>>
     \/ Running("config") /\ command' = <<"data", Changed(Access[2])>>
  /\ Advance
  /\ UNCHANGED <<config, setConfig, out, obf, own, keyboard>>

Await ==
  /\ Running("await")
  /\ obf
  /\ Advance
  /\ UNCHANGED <<command, config, setConfig, out, obf, own, keyboard>>

(* The system flag in the status has been set since power-on: the status   *)
(* is never 0, and the loop never waits.                                   *)
Peek ==
  /\ Running("peek")
  /\ Advance
  /\ UNCHANGED <<command, config, setConfig, out, obf, own, keyboard>>

(* inb(0x60) returns the output register, full or not. *)
Read ==
  /\ Running("read")
  /\ obf' = FALSE
  /\ cfg' = out
  /\ pc' = Following(Access[2], out)
  /\ result' = IF Access[2] = "reset_result" /\ out # Passed THEN "failed" ELSE result
  /\ reset' = reset \cup (IF Access[2] = "reset_ack" /\ out = Ack THEN {"ack"} ELSE {})
                    \cup (IF Access[2] = "reset_result" /\ out = Passed THEN {"passed"} ELSE {})
  /\ UNCHANGED <<command, config, setConfig, out, own, keyboard>>

(* "Keyboard initialized (IRQ1)." *)
Done ==
  /\ result = "running"
  /\ pc > Len(Program)
  /\ result' = "initialized"
  /\ UNCHANGED <<pc, cfg, reset, command, config, setConfig, out, obf, own, keyboard>>
-----------------------------------------------------------------------------
(* The controller takes the byte in its input register.  Its own answer    *)
(* waits for the output register and goes before what the keyboard sends.  *)

TakeSetting ==
  /\ command \in {<<"command", c>> : c \in {173, 174, 167, 168, 96}}
  /\ config' = CASE command[2] = 173 -> With(config, CLOCK1_DISABLED)
                 [] command[2] = 174 -> Without(config, CLOCK1_DISABLED)
                 [] command[2] = 167 -> With(config, CLOCK2_DISABLED)
                 [] command[2] = 168 -> Without(config, CLOCK2_DISABLED)
                 [] OTHER            -> config
  /\ setConfig' = (command[2] = 96)
  /\ command' = <<>>
  /\ UNCHANGED <<program, out, obf, own, keyboard>>

TakeQuery ==
  /\ command \in {<<"command", c>> : c \in {32, 170, 171}}
  /\ own' = <<CASE command[2] = 32 -> config [] command[2] = 170 -> 85 [] OTHER -> 0>>
  /\ command' = <<>>
  /\ UNCHANGED <<program, config, setConfig, out, obf, keyboard>>

AnswerQuery ==
  /\ own # <<>>
  /\ ~obf
  /\ out' = Head(own)
  /\ obf' = TRUE
  /\ own' = <<>>
  /\ UNCHANGED <<program, command, config, setConfig, keyboard>>

TakeConfig ==
  /\ command # <<>> /\ command[1] = "data" /\ setConfig
  /\ config' = command[2]
  /\ setConfig' = FALSE
  /\ command' = <<>>
  /\ UNCHANGED <<program, out, obf, own, keyboard>>

(* A byte for the keyboard, the reset command: it is acknowledged and the  *)
(* self test passes or fails, or the keyboard wants the byte again.        *)
TakeReset ==
  /\ command # <<>> /\ command[1] = "data" /\ ~setConfig
  /\ \/ \E test \in {Passed, Failed} : answers' = <<Ack, test>> /\ UNCHANGED resends
     \/ resends < MaxResends /\ answers' = <<Resend>> /\ resends' = resends + 1
  /\ command' = <<>>
  /\ UNCHANGED <<program, config, setConfig, out, obf, own, typed>>

Heard == ~obf /\ own = <<>> /\ ~Has(config, CLOCK1_DISABLED)

Answer ==
  /\ answers # <<>>
  /\ Heard
  /\ out' = Head(answers)
  /\ obf' = TRUE
  /\ answers' = Tail(answers)
  /\ UNCHANGED <<program, command, config, setConfig, own, typed, resends>>

Type ==
  /\ typed < MaxKeys
  /\ answers = <<>>
  /\ Heard
  /\ out' = Key
  /\ obf' = TRUE
  /\ typed' = typed + 1
  /\ UNCHANGED <<program, command, config, setConfig, own, answers, resends>>

Take == TakeSetting \/ TakeQuery \/ TakeConfig \/ TakeReset

init_8042 == Write \/ Await \/ Peek \/ Read \/ Done

(* What the BIOS leaves: interrupts and translation on, 0x47, or the       *)
(* second port off, 0x65; nothing or a key in the output register.         *)
Ps2Start ==
  /\ pc = 1 /\ result = "running" /\ cfg = 0 /\ reset = {}
  /\ command = <<>> /\ setConfig = FALSE
  /\ config \in {71, 101}
  /\ out = Key /\ obf \in BOOLEAN /\ own = <<>>
  /\ answers = <<>> /\ typed = 0 /\ resends = 0

Ps2Next == init_8042 \/ Take \/ AnswerQuery \/ Answer \/ Type

(* The program runs, the controller and the keyboard answer in the end. *)
Ps2Spec ==
  /\ Ps2Start /\ [][Ps2Next]_ps2Vars
  /\ WF_ps2Vars(init_8042)
  /\ WF_ps2Vars(Take) /\ WF_ps2Vars(AnswerQuery) /\ WF_ps2Vars(Answer)
-----------------------------------------------------------------------------
(***************************************************************************)
(* The answers to the controller's self test and to the test of the first  *)
(* port are the ones init_8042 compares: a key typed before the ports are  *)
(* disabled is never taken for one.                                        *)
(***************************************************************************)
TestsReadTheirAnswers ==
  [][Running("read") /\ pc' # pc =>
       /\ Access[2] = "controller_test" => cfg' = 85
       /\ Access[2] = "port_test" => cfg' = 0]_ps2Vars

(* The interrupt of the first port is on, its clock runs, its codes are    *)
(* not translated.                                                         *)
PortUsable ==
  /\ Has(config, INT_FIRST)
  /\ ~Has(config, CLOCK1_DISABLED)
  /\ ~Has(config, TRANSLATION)

(* init_8042 has returned and the controller has taken what it wrote. *)
Initialized == result = "initialized" /\ command = <<>>

(***************************************************************************)
(* When the reset was acknowledged and passed at the first attempt, and no *)
(* key was typed, the keyboard works after init_8042: its interrupt is on, *)
(* its clock runs and its codes are not translated.                        *)
(***************************************************************************)
GoodResetGoodPort ==
  Initialized /\ reset = {"ack", "passed"} /\ typed = 0 /\ resends = 0 => PortUsable

(* init_8042 returns, although it waits without time limit. *)
Returns == <>(result # "running")
-----------------------------------------------------------------------------
(* docs/ps2.txt: "if it doesn't return 0xFA then 0xAA [...] mark device A  *)
(* as unusable".  init_8042 only calls the keyboard initialized when both  *)
(* were returned.                                                          *)
InitializedMeansReset == result = "initialized" => reset = {"ack", "passed"}
=============================================================================
