-------------------------------- MODULE Timer --------------------------------
(***************************************************************************)
(* Time: channel 0 of the 8254 timer (timer.c), whose ticks are IRQ0, the  *)
(* handler isr32 that counts them in kerneltimer, and usleep, which the    *)
(* command sleep calls with a number that was typed.  Main and the         *)
(* interrupts of module Irq take turns at every access to kerneltimer.     *)
(***************************************************************************)
EXTENDS Irq, Numbers

CONSTANTS
  Ticks,          \* the number of values of kerneltimer
  Arguments,      \* the numbers typed after sleep
  Phases          \* clocks from a write of kerneltimer to the next tick

ASSUME TimerAssumption ==
  /\ Ticks \in Nat /\ Ticks % 2 = 0 /\ Ticks > 2
  /\ Word \div 200 < Ticks \div 2         \* as in the code, where both are 2^32
  /\ Arguments \subseteq Nat
  /\ Phases \subseteq Nat \ {0} /\ 1 \in Phases
  /\ 0 \in Lines

VARIABLES
  pit,            \* channel 0: how it is written, what it counts down from
  kerneltimer,
  pc,             \* main: "shell", "reset", "loop", "done"
  us,             \* local of usleep
  asked,          \* history: the number after sleep
  elapsed,        \* history: ticks since kerneltimer was reset
  phase,          \* history: clocks from that reset to the first of them
  rested          \* main has run since the last tick

timerVars == <<pit, kerneltimer, pc, us, asked, elapsed, phase, rested>>
vars == <<irqVars, timerVars>>

TickUs == 100

-----------------------------------------------------------------------------
(* The 8254.  Bits 4 and 5 of the control word say which of the two bytes  *)
(* of the count are written, the low one first; a count of 0 is 65536.     *)

Pit(port, byte) == <<"pit", port, byte>>

(* Mutant of init_timer: the control word for the low byte alone. *)
init_timer_LowByte == <<Pit(67, 20), Pit(64, 119), Pit(64, 0)>>

init_timer == <<Pit(67, 52), Pit(64, 119), Pit(64, 0)>>

ControlWord(p, byte) == [p EXCEPT !.access = (byte \div 16) % 4, !.half = "low"]

LowByte(p, byte) == [p EXCEPT !.count = byte, !.half = "high"]

HighByte(p, byte) == [p EXCEPT !.count = @ + 256 * byte, !.half = "low"]

Counting(p, port, byte) ==
  IF port = 67 THEN ControlWord(p, byte)
  ELSE CASE p.access = 1 -> [p EXCEPT !.count = byte]
         [] p.access = 2 -> [p EXCEPT !.count = 256 * byte]
         [] p.access = 3 /\ p.half = "low"  -> LowByte(p, byte)
         [] p.access = 3 /\ p.half = "high" -> HighByte(p, byte)
         [] OTHER -> p

Period == IF pit.count = 0 THEN 65536 ELSE pit.count

WriteTimer ==
  /\ cpu = "boot"
  /\ todo # <<>>
  /\ Head(todo)[1] = "pit"
  /\ pit' = Counting(pit, Head(todo)[2], Head(todo)[3])
  /\ todo' = Tail(todo)
  /\ UNCHANGED <<irr, master, slave, pic, cpu, counters, history>>
  /\ UNCHANGED <<kerneltimer, pc, us, asked, elapsed, phase, rested>>

(***************************************************************************)
(* A tick stays requested until it is acknowledged.  Handlers are short    *)
(* against a period of 100 microseconds: main gets to run between ticks.   *)
(***************************************************************************)
Tick ==
  /\ rested
  /\ 0 \notin irr
  /\ irr' = irr \cup {0}
  /\ rested' = FALSE
  /\ elapsed' = IF pc = "loop" THEN elapsed + 1 ELSE elapsed
  /\ UNCHANGED <<master, slave, pic, cpu, todo, counters, history>>
  /\ UNCHANGED <<pit, kerneltimer, pc, us, asked, phase>>

(* kerneltimer++ *)
isr32 ==
  /\ UseDevice(0)
  /\ kerneltimer' = IF kerneltimer = Ticks \div 2 - 1 THEN -(Ticks \div 2)
                    ELSE kerneltimer + 1
  /\ UNCHANGED <<irr, pit, pc, us, asked, elapsed, phase, rested>>
-----------------------------------------------------------------------------
(* Main.  Interrupts are taken before its next instruction. *)

Main(from, to) ==
  /\ cpu = "main"
  /\ MasterReady = {}
  /\ pc = from
  /\ pc' = to
  /\ rested' = TRUE
  /\ UNCHANGED <<irqVars, pit>>

(* Mutant of ticksOf: us is not made signed before it is compared. *)
ticksOf_Unsigned(u) == (IF u < TickUs THEN TickUs ELSE u) \div TickUs

(* The parameter of usleep is an int32_t. *)
ticksOf(u) == (IF Signed(u) < TickUs THEN TickUs ELSE Signed(u)) \div TickUs

(* The command sleep, down to the loop of usleep. *)
sleep ==
  /\ Main("shell", "reset")
  /\ \E n \in Arguments : asked' = n /\ us' = ticksOf(atoi(Decimal(n)))
  /\ UNCHANGED <<kerneltimer, elapsed, phase>>

(* The 8254 counts on: its next tick may be any part of a period away. *)
ResetTimer ==
  /\ Main("reset", "loop")
  /\ kerneltimer' = 0
  /\ elapsed' = 0
  /\ \E clocks \in Phases : clocks <= Period /\ phase' = clocks
  /\ UNCHANGED <<us, asked>>

Loop ==
  /\ kerneltimer < us
  /\ Main("loop", "loop")
  /\ UNCHANGED <<kerneltimer, us, asked, elapsed, phase>>

LeaveLoop ==
  /\ kerneltimer >= us
  /\ Main("loop", "done")
  /\ UNCHANGED <<kerneltimer, us, asked, elapsed, phase>>

(* usleep returns; the shell waits for the next command. *)
Shell ==
  /\ \E from \in {"shell", "done"} : Main(from, "shell")
  /\ us' = 0 /\ asked' = 0 /\ elapsed' = 0 /\ phase' = 0
  /\ UNCHANGED kerneltimer

usleep == ResetTimer \/ Loop \/ LeaveLoop
-----------------------------------------------------------------------------
Init ==
  /\ IrqInit(remap_irqs \o init_timer)
  /\ pit = [access |-> 3, half |-> "low", count |-> 0]
  /\ kerneltimer = 0
  /\ pc = "shell"
  /\ us = 0 /\ asked = 0 /\ elapsed = 0 /\ phase = 0
  /\ rested = TRUE

Others ==
  \/ \E l \in Lines \ {0} : Raise(l) \/ Withdraw(l) \/ (UseDevice(l) /\ UNCHANGED irr)
  \/ Interrupt \/ PortAccess \/ sti

Next ==
  \/ Tick \/ isr32 \/ WriteTimer \/ sleep \/ usleep \/ Shell
  \/ Others /\ UNCHANGED timerVars

(***************************************************************************)
(* The processor goes on, and so does the timer: it is never stopped.      *)
(***************************************************************************)
Processor ==
  \/ isr32 \/ WriteTimer \/ usleep \/ Shell
  \/ /\ Interrupt \/ PortAccess \/ sti \/ \E l \in Lines \ {0} : UseDevice(l) /\ UNCHANGED irr
     /\ UNCHANGED timerVars

Spec == Init /\ [][Next]_vars /\ WF_vars(Processor) /\ WF_vars(Tick)
-----------------------------------------------------------------------------
(***************************************************************************)
(* sleep takes the time that was asked for, measured in the 1.193 MHz      *)
(* clock that the timer counts down with: when the tick comes that usleep  *)
(* waits for, no more of it has gone by, and less by two periods and one   *)
(* part in 300 at most.  One period is lost because usleep divides, and    *)
(* one because the first tick that it counts may come at once; the count   *)
(* of 119 makes the periods a little shorter than 100 microseconds.  So a  *)
(* sleep of less than two periods may be no sleep at all.  The number is   *)
(* taken modulo Word; the upper half of its range is negative in usleep    *)
(* and sleeps for the shortest time there is.                              *)
(***************************************************************************)
SleepsAsAsked ==
  LET n == asked % Word
      wanted == IF n \in TickUs .. Word \div 2 - 1 THEN n ELSE TickUs
      clocks == (wanted * 1193) \div 1000
      slept == phase + (elapsed - 1) * Period
      inPeriod == (TickUs * 1193) \div 1000 + 1
  IN pc = "done" =>
       /\ slept <= clocks
       /\ slept > clocks - clocks \div 300 - 2 * inPeriod

(* The loop of usleep ends: the ticks it waits for keep coming. *)
SleepReturns == pc = "loop" ~> pc = "shell"
=============================================================================
