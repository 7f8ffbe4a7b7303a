-------------------------------- MODULE Floppy --------------------------------
(***************************************************************************)
(* fdd_init (floppy.c): reset, recalibration and seek test of drive 0, as  *)
(* the accesses its functions make, against the floppy disk controller and *)
(* IRQ6.  Each command is written byte by byte, the drive moves, IRQ6 is   *)
(* raised, isr38 sets a flag the kernel spins on, and a SENSE_INTERRUPT    *)
(* fetches the outcome.  None of the waits has a time limit.  The data     *)
(* rate that fdd_reset writes to FDD_CCR is left out: no sector is read.   *)
(***************************************************************************)
EXTENDS Bits, Sequences

CONSTANTS
  Heads,       \* the tracks where the head may be at power-on
  MaxFaults    \* bound: movements the drive breaks off

LastTrack == 79

ASSUME FloppyAssumption == Heads \subseteq 0..LastTrack /\ MaxFaults \in Nat

VARIABLES
  pc,          \* the next access of fdd_init, in Program
  attempt,     \* i of fdd_recalibrate
  st0, st1,    \* the outcome of the last command, and the track it ended on
  fdd_received_irq,
  dor,         \* the controller's digital output register
  phase,       \* what its FIFO is for: "reset", "command" or "result"
  command,     \* bytes of the command received so far
  results,     \* bytes of the result still to be read
  outcomes,    \* status bytes nobody has sensed yet
  moving,      \* the track the head is moved to; -1 when it stands still
  latched,     \* IRQ6 waits in the interrupt controller
  head, pcn,   \* where the head is, and where the controller believes it is
  present,     \* whether drive 0 is there
  faults       \* movements broken off so far

kernel == <<pc, attempt, st0, st1>>
fifo == <<phase, command, results>>
drive == <<head, pcn, present, faults>>
floppyVars == <<pc, attempt, st0, st1, fdd_received_irq, dor, phase, command, results,
          outcomes, moving, latched, head, pcn, present, faults>>

SPECIFY == 3
RECALIBRATE == 7
SENSE_INTERRUPT == 8
SEEK == 15

SEEK_END == 32
NotReady == 192      \* ST0: movement broken off, or after a reset
NoTrack0 == 112      \* ST0: abnormal, seek end, equipment check
Invalid == 128       \* ST0: nothing to sense
-----------------------------------------------------------------------------
(* The functions of floppy.c as sequences of accesses.                     *)

fdd_write(bytes) == [i \in DOMAIN bytes |-> <<"write", bytes[i]>>]

fdd_sense_interrupt == fdd_write(<<SENSE_INTERRUPT>>) \o <<<<"read", "st0">>, <<"read", "st1">>>>

(* Mutant of Senses: x < 3 *)
SensesOneFewer == 3

Senses == 4

ForgottenSense == fdd_write(<<SENSE_INTERRUPT>>) \o <<<<"read", "nothing">>, <<"read", "nothing">>>>

fdd_reset ==
  <<<<"dor", 0>>, <<"clear">>, <<"dor", 12>>, <<"wait">>>>
  \o [i \in 1..(3 * Senses) |-> ForgottenSense[((i - 1) % 3) + 1]]
  \o fdd_write(<<SPECIFY, 175, 2>>)

(* Mutant of Moved: the flag is cleared when the command is on its way. *)
MovedLateClear(bytes) == fdd_write(bytes) \o <<<<"clear">>, <<"wait">>>> \o fdd_sense_interrupt

(* Mutant of Moved: the flag is not cleared. *)
MovedNoClear(bytes) == fdd_write(bytes) \o <<<<"wait">>>> \o fdd_sense_interrupt

(* One movement: the flag is cleared first, "This will prevent the FDC     *)
(* from being faster than us!"                                             *)
Moved(bytes) == <<<<"clear">>>> \o fdd_write(bytes) \o <<<<"wait">>>> \o fdd_sense_interrupt

fdd_seek_track(track) == Moved(<<SEEK, 0, track>>)

(* Mutant of fdd_recalibrate: the loop does not look at st0. *)
fdd_recalibrate_Once == <<<<"dor", 28>>>> \o Moved(<<RECALIBRATE, 0>>)

fdd_recalibrate == <<<<"dor", 28>>>> \o Moved(<<RECALIBRATE, 0>>) \o <<<<"retry">>>>

fdd_seektest ==
  fdd_seek_track(39) \o fdd_seek_track(0) \o fdd_seek_track(79) \o fdd_seek_track(0)

fdd_disable_drives == <<<<"dor", 12>>>>

fdd_init == fdd_reset \o fdd_recalibrate \o fdd_seektest \o fdd_disable_drives

Program == fdd_init

AtRecalibrate == Len(fdd_reset) + 2     \* the loop's first statement
AtSeeks == Len(fdd_reset \o fdd_recalibrate) + 1
AtEnd == Len(Program) + 1
-----------------------------------------------------------------------------
Running(kind) == pc < AtEnd /\ Program[pc][1] = kind

Advance == pc' = pc + 1 /\ UNCHANGED <<attempt, st0, st1>>

(* outb(FDD_DOR, byte): bit 2 clear holds the controller in reset, where   *)
(* it forgets everything but the position of the head.                     *)
WriteDor ==
  /\ Running("dor")
  /\ dor' = Program[pc][2]
  /\ IF Has(dor', 4)
       THEN UNCHANGED <<fifo, outcomes, moving, latched>>
       ELSE /\ phase' = "reset" /\ command' = <<>> /\ results' = <<>>
            /\ outcomes' = <<>> /\ moving' = -1 /\ UNCHANGED latched
  /\ Advance
  /\ UNCHANGED <<fdd_received_irq, drive>>

Clear ==
  /\ Running("clear")
  /\ fdd_received_irq' = FALSE
  /\ Advance
  /\ UNCHANGED <<dor, fifo, outcomes, moving, latched, drive>>

fdd_wait_for_irq ==
  /\ Running("wait")
  /\ fdd_received_irq
  /\ Advance
  /\ UNCHANGED <<fdd_received_irq, dor, fifo, outcomes, moving, latched, drive>>

(* How many bytes a command has. *)
Bytes(cmd) == CASE cmd = SENSE_INTERRUPT -> 1 [] cmd = RECALIBRATE -> 2 [] OTHER -> 3

Complete == command # <<>> /\ Len(command) = Bytes(command[1])

(* RQM: not while the controller carries out what it received. *)
fdd_write_byte ==
  /\ Running("write")
  /\ phase = "command" /\ ~Complete
  /\ command' = Append(command, Program[pc][2])
  /\ Advance
  /\ UNCHANGED <<fdd_received_irq, dor, phase, results, outcomes, moving, latched, drive>>

fdd_read_byte ==
  /\ Running("read")
  /\ phase = "result" /\ results # <<>>
  /\ results' = Tail(results)
  /\ phase' = IF results' = <<>> THEN "command" ELSE "result"
  /\ st0' = IF Program[pc][2] = "st0" THEN Head(results) ELSE st0
  /\ st1' = IF Program[pc][2] = "st1" THEN Head(results) ELSE st1
  /\ pc' = pc + 1
  /\ UNCHANGED <<attempt, fdd_received_irq, dor, command, outcomes, moving, latched, drive>>

(* if (st0 & 0x20) break; *)
Retry ==
  /\ Running("retry")
  /\ attempt' = attempt + 1
  /\ pc' = IF Has(st0, SEEK_END) \/ attempt' = 8 THEN pc + 1 ELSE AtRecalibrate
  /\ UNCHANGED <<st0, st1, fdd_received_irq, dor, fifo, outcomes, moving, latched, drive>>

Kernel ==
  WriteDor \/ Clear \/ fdd_wait_for_irq \/ fdd_write_byte \/ fdd_read_byte \/ Retry

isr38 ==
  /\ latched
  /\ latched' = FALSE
  /\ fdd_received_irq' = TRUE
  /\ UNCHANGED <<kernel, dor, fifo, outcomes, moving, drive>>
-----------------------------------------------------------------------------
(* The controller and the drive.                                           *)

Raise(status) == outcomes' = outcomes \o status /\ latched' = (latched \/ Has(dor, 8))

(* Out of reset: one interrupt, a status for each of the four drives.      *)
ResetDone ==
  /\ phase = "reset" /\ Has(dor, 4)
  /\ phase' = "command"
  /\ pcn' = 0
  /\ Raise([d \in 1..4 |-> NotReady + d - 1])
  /\ UNCHANGED <<kernel, fdd_received_irq, dor, command, results, moving, head, present, faults>>

Specify ==
  /\ Complete /\ command[1] = SPECIFY
  /\ command' = <<>>
  /\ UNCHANGED <<kernel, fdd_received_irq, dor, phase, results, outcomes, moving, latched, drive>>

Sense ==
  /\ Complete /\ command[1] = SENSE_INTERRUPT
  /\ command' = <<>>
  /\ phase' = "result"
  /\ IF outcomes = <<>>
       THEN results' = <<Invalid>> /\ UNCHANGED outcomes
       ELSE results' = <<Head(outcomes), pcn>> /\ outcomes' = Tail(outcomes)
  /\ UNCHANGED <<kernel, fdd_received_irq, dor, moving, latched, drive>>

Move ==
  /\ Complete
  /\ \/ command[1] = RECALIBRATE /\ moving' = 0
     \/ command[1] = SEEK /\ moving' = command[3]
  /\ command' = <<>>
  /\ UNCHANGED <<kernel, fdd_received_irq, dor, phase, results, outcomes, latched, drive>>

Recalibrating == pc < AtSeeks

OnTrack(t) == IF t < 0 THEN 0 ELSE IF t > LastTrack THEN LastTrack ELSE t

(* A recalibration steps until the drive reports track 0; a seek steps the *)
(* distance from the track where the controller believes the head to be.   *)
Arrive ==
  /\ moving # -1
  /\ moving' = -1
  /\ pcn' = moving
  /\ head' = IF ~present THEN head
             ELSE IF Recalibrating THEN 0 ELSE OnTrack(head + moving - pcn)
  /\ Raise(<<IF Recalibrating /\ ~present THEN NoTrack0 ELSE SEEK_END>>)
  /\ UNCHANGED <<kernel, fdd_received_irq, dor, fifo, present, faults>>

(* The drive became not ready: the movement is broken off at once.         *)
BreakOff ==
  /\ moving # -1
  /\ faults < MaxFaults
  /\ faults' = faults + 1
  /\ moving' = -1
  /\ Raise(<<NotReady>>)
  /\ UNCHANGED <<kernel, fdd_received_irq, dor, fifo, head, pcn, present>>

Controller == ResetDone \/ Specify \/ Sense \/ Move \/ Arrive \/ BreakOff

(* The firmware used the controller before: it may have left the motor on  *)
(* and a status unread.  remap_irqs forgot the interrupts latched by then. *)
FloppyInit ==
  /\ pc = 1 /\ attempt = 0 /\ st0 = 0 /\ st1 = 0
  /\ fdd_received_irq = FALSE
  /\ dor \in {12, 28}
  /\ phase = "command" /\ command = <<>> /\ results = <<>>
  /\ outcomes \in {<<>>, <<SEEK_END>>}
  /\ moving = -1 /\ latched = FALSE
  /\ head \in Heads /\ pcn \in Heads
  /\ present \in BOOLEAN
  /\ faults = 0

FloppyNext == Kernel \/ isr38 \/ Controller
-----------------------------------------------------------------------------
(* Where a seek of fdd_seektest has returned, and the track it was for.    *)
SeekReturned(track) ==
  \E n \in 1..4 :
    /\ track = <<39, 0, 79, 0>>[n]
    /\ pc = AtSeeks + n * Len(fdd_seek_track(0))

(* The drive is there and did not break off every attempt. *)
Calibrated == present /\ faults < 8

(***************************************************************************)
(* fdd_seek_track returns when its own seek has ended, never on the        *)
(* interrupt of an earlier command: st0 and st1 are the outcome of this    *)
(* seek, and when st0 says it ended the head is on the track asked for.    *)
(***************************************************************************)
SeekArrives ==
  \A track \in {0, 39, 79} :
    SeekReturned(track) =>
      /\ moving = -1 /\ outcomes = <<>>
      /\ Has(st0, SEEK_END) => st1 = track /\ (Calibrated => head = track)

(***************************************************************************)
(* When the seek test begins, the head of a drive that is there is where   *)
(* the controller believes it to be, unless every attempt broke off.       *)
(***************************************************************************)
RecalibrateReachesTrack0 == pc = AtSeeks /\ Calibrated => head = 0 /\ pcn = 0

(***************************************************************************)
(* A command is only begun when the one before is over and its interrupt   *)
(* was taken: no byte of a command is written while a movement or an       *)
(* interrupt is under way.                                                 *)
(***************************************************************************)
OneCommandAtATime ==
  [][Running("write") /\ command = <<>> /\ command' # <<>> => moving = -1 /\ ~latched]_floppyVars

(***************************************************************************)
(* fdd_init returns: no wait for the interrupt, for room in the FIFO or    *)
(* for a result lasts for ever.                                            *)
(***************************************************************************)
InitReturns == <>(pc = AtEnd)
=============================================================================
