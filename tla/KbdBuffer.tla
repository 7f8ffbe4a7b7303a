------------------------------ MODULE KbdBuffer ------------------------------
(***************************************************************************)
(* The keyboard buffer of 8042.c: the interrupt handler of IRQ1 pushes     *)
(* characters, the main program pops them from scanf's wait loop.  Both    *)
(* ends work at index 0 and shift the rest.  The handler runs with         *)
(* interrupts off, so a push is one step; kbd_buff_pop runs with           *)
(* interrupts on and is compiled with -O0, so each of its accesses to the  *)
(* buffer or to kbd_buff_idx is a step, and a push may come between any    *)
(* two of them.                                                            *)
(*                                                                         *)
(* Characters are numbered in the order they are pushed.                   *)
(***************************************************************************)
EXTENDS Integers, Sequences, FiniteSets

CONSTANTS
  KBD_BUFF_MAX,
  MaxPushes       \* bound: characters typed

ASSUME KbdAssumption ==
  /\ KBD_BUFF_MAX \in Nat \ {0}
  /\ MaxPushes \in Nat

VARIABLES
  keyboard_buffer,
  kbd_buff_idx,    \* number of characters in it
  popPc,           \* next access of the main program
  idx,             \* the loop variable of kbd_buff_pop
  code,            \* the character kbd_buff_pop will return
  reg,             \* the register the last access was loaded into
  pushes,          \* characters that went into the buffer so far
  delivered,       \* characters scanf got, in order
  races,           \* history: pushes that came into the middle of a pop
  before           \* history: contents at the start of a pop no push came into

buffer == <<keyboard_buffer, kbd_buff_idx>>
bufferVars ==
  <<keyboard_buffer, kbd_buff_idx, popPc, idx, code, reg, pushes, delivered, races, before>>

Slots == 0 .. KBD_BUFF_MAX - 1

(* No character: the buffer is in .bss. *)
None == 0

Chars == None .. MaxPushes

(* No contents: a push came into the pop. *)
Disturbed == <<None>>

Contents == [k \in 1 .. kbd_buff_idx |-> keyboard_buffer[k - 1]]

(* The accesses during which a push changes what the pop has seen. *)
MidPop == {"cond", "load", "store", "dec", "write"}

BufferInit ==
  /\ keyboard_buffer = [s \in Slots |-> None]
  /\ kbd_buff_idx = 0
  /\ popPc = "test"
  /\ idx = 0
  /\ code = None
  /\ reg = 0
  /\ pushes = 0
  /\ delivered = <<>>
  /\ races = 0
  /\ before = <<>>
-----------------------------------------------------------------------------
(* The interrupt handlers.  Either ends a hlt. *)

Wake == popPc' = IF popPc = "halted" THEN "test" ELSE popPc

(* Mutant of Full: the last slot is passed. *)
FullOneLate == kbd_buff_idx > KBD_BUFF_MAX

Full == kbd_buff_idx >= KBD_BUFF_MAX

(* Mutant of Shifted: the characters in the buffer are not moved up. *)
NotShifted(c) == [keyboard_buffer EXCEPT ![0] = c]

(* The buffer after kbd_buff_push has moved everything up and put c first. *)
Shifted(c) ==
  [s \in Slots |-> IF s = 0 THEN c
                   ELSE IF s <= kbd_buff_idx THEN keyboard_buffer[s - 1]
                   ELSE keyboard_buffer[s]]

(* isr33 with a byte that makes a character, and room for it. *)
kbd_buff_push ==
  /\ pushes < MaxPushes
  /\ ~Full
  /\ keyboard_buffer' = Shifted(pushes + 1)
  /\ kbd_buff_idx' = kbd_buff_idx + 1
  /\ pushes' = pushes + 1
  /\ Wake
  /\ IF popPc \in MidPop THEN races' = races + 1 /\ before' = Disturbed
     ELSE UNCHANGED <<races, before>>
  /\ UNCHANGED <<idx, code, reg, delivered>>

(* Mutant of OtherInterrupt: the timer is masked. *)
OtherInterruptMasked == popPc = "halted" /\ UNCHANGED bufferVars

(* Any other interrupt (above all isr32, the timer), or a key that makes   *)
(* no character or finds the buffer full: the buffer stays as it is.       *)
OtherInterrupt ==
  /\ popPc = "halted"
  /\ Wake
  /\ UNCHANGED <<buffer, idx, code, reg, pushes, delivered, races, before>>
-----------------------------------------------------------------------------
(* kbd_buff_pop, access by access, in the loop of scanf. *)

(* if (kbd_buff_idx == 0) return 0; scanf then executes hlt. *)
Test ==
  /\ popPc = "test"
  /\ popPc' = IF kbd_buff_idx = 0 THEN "hlt" ELSE "code"
  /\ UNCHANGED <<buffer, idx, code, reg, pushes, delivered, races, before>>

Halt ==
  /\ popPc = "hlt"
  /\ popPc' = "halted"
  /\ UNCHANGED <<buffer, idx, code, reg, pushes, delivered, races, before>>

(* uint8_t code = keyboard_buffer[0]; *)
ReadCode ==
  /\ popPc = "code"
  /\ code' = keyboard_buffer[0]
  /\ idx' = 0
  /\ before' = Contents
  /\ popPc' = "cond"
  /\ UNCHANGED <<buffer, reg, pushes, delivered, races>>

(* Mutant of MoreToMove: one slot too far. *)
MoreToMoveOneFar == idx < kbd_buff_idx

MoreToMove == idx < kbd_buff_idx - 1

(* idx < kbd_buff_idx-1 *)
LoopCond ==
  /\ popPc = "cond"
  /\ popPc' = IF MoreToMove THEN "load" ELSE "dec"
  /\ UNCHANGED <<buffer, idx, code, reg, pushes, delivered, races, before>>

(* Mutant of Load: every slot keeps its character. *)
LoadSameSlot ==
  /\ popPc = "load"
  /\ reg' = keyboard_buffer[idx]
  /\ popPc' = "store"
  /\ UNCHANGED <<buffer, idx, code, pushes, delivered, races, before>>

(* keyboard_buffer[idx] = keyboard_buffer[idx+1]; idx++ *)
Load ==
  /\ popPc = "load"
  /\ reg' = keyboard_buffer[idx + 1]
  /\ popPc' = "store"
  /\ UNCHANGED <<buffer, idx, code, pushes, delivered, races, before>>

Store ==
  /\ popPc = "store"
  /\ keyboard_buffer' = [keyboard_buffer EXCEPT ![idx] = reg]
  /\ idx' = idx + 1
  /\ popPc' = "cond"
  /\ UNCHANGED <<kbd_buff_idx, code, reg, pushes, delivered, races, before>>

(* kbd_buff_idx--; a load, then a store. *)
LoadIdx ==
  /\ popPc = "dec"
  /\ reg' = kbd_buff_idx
  /\ popPc' = "write"
  /\ UNCHANGED <<buffer, idx, code, pushes, delivered, races, before>>

StoreIdx ==
  /\ popPc = "write"
  /\ kbd_buff_idx' = reg - 1
  /\ delivered' = Append(delivered, code)
  /\ popPc' = "test"
  /\ UNCHANGED <<keyboard_buffer, idx, code, reg, pushes, races, before>>

Main == Test \/ Halt \/ ReadCode \/ LoopCond \/ Load \/ Store \/ LoadIdx \/ StoreIdx

BufferNext == kbd_buff_push \/ OtherInterrupt \/ Main

(***************************************************************************)
(* The processor executes the main program whenever it is not halted, and  *)
(* the timer interrupts it for ever.  Nothing makes a user type.           *)
(***************************************************************************)
Fairness == WF_bufferVars(Main) /\ WF_bufferVars(OtherInterrupt)

BufferSpec == BufferInit /\ [][BufferNext]_bufferVars /\ Fairness
-----------------------------------------------------------------------------
TypeOK ==
  /\ keyboard_buffer \in [Slots -> Chars]
  /\ kbd_buff_idx \in 0 .. KBD_BUFF_MAX
  /\ popPc \in {"test", "hlt", "halted", "code"} \cup MidPop
  /\ idx \in 0 .. KBD_BUFF_MAX
  /\ code \in Chars
  /\ reg \in Nat
  /\ pushes \in Chars
  /\ delivered \in Seq(Chars)
  /\ races \in Nat

(***************************************************************************)
(* Wherever a push comes into a pop, the pop stays inside the buffer, and  *)
(* the count it writes back is not below zero (kbd_buff_idx is unsigned:   *)
(* below zero the next pop would move four gigabytes).                     *)
(***************************************************************************)
InBounds ==
  /\ popPc = "load" => idx + 1 \in Slots
  /\ popPc = "store" => idx \in Slots
  /\ popPc = "write" => reg \in 1 .. kbd_buff_idx
  /\ popPc \in MidPop => kbd_buff_idx > 0

(***************************************************************************)
(* A pop that no push came into behaves like an atomic pop of the last     *)
(* character pushed: it returns the first element of the buffer and leaves *)
(* the others in order.                                                    *)
(***************************************************************************)
UndisturbedPopIsAtomic ==
  [][delivered' # delivered /\ before # Disturbed
       => /\ code = Head(before)
          /\ Contents' = Tail(before)]_bufferVars

(* The characters that were pushed and are neither delivered nor waiting. *)
Lost ==
  {c \in 1 .. pushes : /\ \A k \in 1 .. Len(delivered) : delivered[k] # c
                       /\ \A k \in 1 .. kbd_buff_idx : keyboard_buffer[k - 1] # c}

(* Characters delivered or waiting. *)
Held == Len(delivered) + kbd_buff_idx

(***************************************************************************)
(* Characters get lost and doubled only where a push came into a pop, and  *)
(* at most one for each: between two pops every pushed character is        *)
(* delivered or waiting, except as many as there were races, and no        *)
(* more are delivered or waiting than were pushed.                         *)
(***************************************************************************)
OneLossPerRace ==
  popPc \notin MidPop => /\ Cardinality(Lost) <= races
                         /\ Held <= pushes
                         /\ pushes - Held <= races

(***************************************************************************)
(* Nothing stays in the buffer for ever: the wait loop of scanf can miss   *)
(* the interrupt that pushed a character (it comes between the test and    *)
(* hlt), but the next timer tick ends the hlt.                             *)
(***************************************************************************)
Drained == kbd_buff_idx > 0 ~> kbd_buff_idx = 0
=============================================================================
