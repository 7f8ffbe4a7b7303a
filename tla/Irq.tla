-------------------------------- MODULE Irq --------------------------------
(***************************************************************************)
(* Hardware interrupts: the handlers isr32 to isr47 (interrupt.c, irq.c)   *)
(* against the two 8259 interrupt controllers, the second one behind line  *)
(* 2 of the first, from the moment startup programs them.  All gates are   *)
(* interrupt gates, so no handler is interrupted, but devices raise and    *)
(* withdraw requests at any time: also before the kernel is ready for      *)
(* them, and between the moment the processor decides to take an interrupt *)
(* and the moment the controllers name it, which makes a spurious one.     *)
(*                                                                         *)
(* Modules Timer and Keyboard add the devices of lines 0 and 1.  What the  *)
(* handlers do besides is in KbdBuffer, Scancodes (IRQ1), Floppy (IRQ6).   *)
(***************************************************************************)
EXTENDS Bits, Descriptors, Sequences, FiniteSets, FiniteSetsExt

CONSTANTS
  Lines,          \* the lines that have a device
  MaxRequests     \* bound: requests raised

ASSUME IrqAssumption == Lines \subseteq (0 .. 15) \ {2} /\ MaxRequests \in Nat

VARIABLES
  irr,                   \* requested and not acknowledged
  master, slave,         \* the in-service bits of the controllers
  pic,                   \* what each controller was programmed to
  cpu,                   \* "boot", "main", "inta1", "inta2" (acknowledging), "handler", "fault"
  todo,                  \* the accesses startup or the handler has still to make
  sys_spurious_irqs7,
  sys_spurious_irqs15,
  spurious,              \* history: spurious interrupts each controller made
  requests               \* requests raised so far

counters == <<sys_spurious_irqs7, sys_spurious_irqs15>>
history == <<spurious, requests>>
irqVars == <<irr, master, slave, pic, cpu, todo, counters, history>>

Chips == {"master", "slave"}

LinesOf(chip) == IF chip = "master" THEN 0 .. 7 ELSE 8 .. 15

Cascade == 2

-----------------------------------------------------------------------------
(* The 8259s.  A lower number has priority, and a line in service keeps    *)
(* the lines behind it waiting.                                            *)

Ahead(l, inService) == \A s \in inService : l < s

Masked(chip, l) == Has(pic[chip].mask, 2^(l % 8))

SlaveReady == {l \in irr \cap LinesOf("slave") : Ahead(l, slave) /\ ~Masked("slave", l)}

(* ICW3: the slave is at line 2, and knows it. *)
Cascaded == pic["master"].wiring = 4 /\ pic["slave"].wiring = Cascade

MasterReady ==
  {l \in (irr \cap LinesOf("master"))
          \cup (IF Cascaded /\ SlaveReady # {} THEN {Cascade} ELSE {}) :
     Ahead(l, master) /\ ~Masked("master", l)}

(* A non-specific end of interrupt clears the foremost bit. *)
Eoi(inService) == IF inService = {} THEN {} ELSE inService \ {Min(inService)}

Raise(l) ==
  /\ requests < MaxRequests
  /\ l \notin irr
  /\ irr' = irr \cup {l}
  /\ requests' = requests + 1
  /\ UNCHANGED <<master, slave, pic, cpu, todo, counters, spurious>>

(* The line drops again before the request is acknowledged. *)
Withdraw(l) ==
  /\ l \in irr
  /\ irr' = irr \ {l}
  /\ UNCHANGED <<master, slave, pic, cpu, todo, counters, history>>
-----------------------------------------------------------------------------
(* The kernel, as the accesses it makes. *)

Command(chip, byte) == <<"command", chip, byte>>
Data(chip, byte) == <<"data", chip, byte>>
Device(line) == <<"device", line>>       \* what a handler does with its device
IsSpurious(line) == <<"is_spurious", line>>

ICW1 == 17
EOI == 32

(* Mutant of remap_irqs: the vectors of the two controllers are exchanged. *)
remap_irqs_Exchanged ==
  <<Command("master", ICW1), Command("slave", ICW1),
    Data("master", 40), Data("slave", 32), Data("master", 4), Data("slave", Cascade),
    Data("master", 1), Data("slave", 1), Data("master", 0), Data("slave", 0)>>

remap_irqs ==
  <<Command("master", ICW1), Command("slave", ICW1),
    Data("master", 32), Data("slave", 40), Data("master", 4), Data("slave", Cascade),
    Data("master", 1), Data("slave", 1), Data("master", 0), Data("slave", 0)>>

(* Mutant of Handler: isr47 looks before it ends the interrupt of line 2. *)
HandlerChecksFirst(isr) ==
  CASE isr \in {32, 33, 38} -> <<Device(isr - 32), Command("master", EOI)>>
    [] isr \in 34 .. 37 -> <<Command("master", EOI)>>
    [] isr = 39 -> <<IsSpurious(7), Command("master", EOI)>>
    [] isr \in 40 .. 46 -> <<Command("master", EOI), Command("slave", EOI)>>
    [] isr = 47 -> <<IsSpurious(15), Command("master", EOI), Command("slave", EOI)>>
    [] OTHER -> <<>>

(* Mutant of Handler: isr39 does not check. *)
HandlerTrustsIrq7(isr) ==
  CASE isr \in {32, 33, 38} -> <<Device(isr - 32), Command("master", EOI)>>
    [] isr \in 34 .. 37 \cup {39} -> <<Command("master", EOI)>>
    [] isr \in 40 .. 46 -> <<Command("master", EOI), Command("slave", EOI)>>
    [] isr = 47 -> <<Command("master", EOI), IsSpurious(15), Command("slave", EOI)>>
    [] OTHER -> <<>>

(* Mutant of Handler: isr32 does not end its interrupt. *)
HandlerNoTimerEoi(isr) ==
  CASE isr = 32 -> <<Device(0)>>
    [] isr \in {33, 38} -> <<Device(isr - 32), Command("master", EOI)>>
    [] isr \in 34 .. 37 -> <<Command("master", EOI)>>
    [] isr = 39 -> <<IsSpurious(7), Command("master", EOI)>>
    [] isr \in 40 .. 46 -> <<Command("master", EOI), Command("slave", EOI)>>
    [] isr = 47 -> <<Command("master", EOI), IsSpurious(15), Command("slave", EOI)>>
    [] OTHER -> <<>>

(* Mutant of Handler: the handlers of IRQ8 to IRQ14 forget the slave. *)
HandlerForgetsSlave(isr) ==
  CASE isr \in {32, 33, 38} -> <<Device(isr - 32), Command("master", EOI)>>
    [] isr \in 34 .. 37 \cup 40 .. 46 -> <<Command("master", EOI)>>
    [] isr = 39 -> <<IsSpurious(7), Command("master", EOI)>>
    [] isr = 47 -> <<Command("master", EOI), IsSpurious(15), Command("slave", EOI)>>
    [] OTHER -> <<>>

(* isr0 to isr31, the exceptions, are empty. *)
Handler(isr) ==
  CASE isr \in {32, 33, 38} -> <<Device(isr - 32), Command("master", EOI)>>
    [] isr \in 34 .. 37 -> <<Command("master", EOI)>>
    [] isr = 39 -> <<IsSpurious(7), Command("master", EOI)>>
    [] isr \in 40 .. 46 -> <<Command("master", EOI), Command("slave", EOI)>>
    [] isr = 47 -> <<Command("master", EOI), IsSpurious(15), Command("slave", EOI)>>
    [] OTHER -> <<>>

(* Through the gate of vector v; without one the processor stops. *)
Enter(v) ==
  /\ cpu' = IF LeadsTo[v] = {} THEN "fault" ELSE "handler"
  /\ todo' = IF LeadsTo[v] = {} THEN <<>> ELSE Handler(CHOOSE isr \in LeadsTo[v] : TRUE)

(* The vector the controller puts on the bus. *)
Vector(chip, l) == pic[chip].base + (l % 8)

(* Main runs with interrupts on and sees the master's INT output. *)
TakeInterrupt ==
  /\ cpu = "main"
  /\ MasterReady # {}
  /\ cpu' = "inta1"
  /\ UNCHANGED <<irr, master, slave, pic, todo, counters, history>>

AcknowledgeMaster ==
  /\ cpu = "inta1"
  /\ MasterReady # {}
  /\ master' = master \cup {Min(MasterReady)}
  /\ irr' = irr \ {Min(MasterReady)}
  /\ IF Min(MasterReady) = Cascade THEN cpu' = "inta2" /\ UNCHANGED todo
     ELSE Enter(Vector("master", Min(MasterReady)))
  /\ UNCHANGED <<slave, pic, counters, history>>

AcknowledgeSlave ==
  /\ cpu = "inta2"
  /\ SlaveReady # {}
  /\ slave' = slave \cup {Min(SlaveReady)}
  /\ irr' = irr \ {Min(SlaveReady)}
  /\ Enter(Vector("slave", Min(SlaveReady)))
  /\ UNCHANGED <<master, pic, counters, history>>

(* No request is left: the controller answers with its last line. *)
SpuriousAnswer(chip) ==
  /\ Enter(Vector(chip, 7))
  /\ spurious' = [spurious EXCEPT ![chip] = @ + 1]
  /\ UNCHANGED <<irr, master, slave, pic, counters, requests>>

SpuriousMaster == cpu = "inta1" /\ MasterReady = {} /\ SpuriousAnswer("master")

SpuriousSlave == cpu = "inta2" /\ SlaveReady = {} /\ SpuriousAnswer("slave")

(* The next access of startup or of the handler. *)
At(access) == cpu \in {"boot", "handler"} /\ todo # <<>> /\ Head(todo) = access

InService(chip) == IF chip = "master" THEN master ELSE slave

SetInService(chip, lines) ==
  IF chip = "master" THEN master' = lines /\ UNCHANGED slave
  ELSE slave' = lines /\ UNCHANGED master

(* The controller forgets everything and expects three more words. *)
Initialize(chip) ==
  /\ At(Command(chip, ICW1))
  /\ pic' = [pic EXCEPT ![chip].word = 2, ![chip].mask = 0]
  /\ irr' = irr \ LinesOf(chip)
  /\ SetInService(chip, {})
  /\ todo' = Tail(todo)
  /\ UNCHANGED <<cpu, counters, history>>

EndOfInterrupt(chip) ==
  /\ At(Command(chip, EOI))
  /\ SetInService(chip, Eoi(InService(chip)))
  /\ todo' = Tail(todo)
  /\ UNCHANGED <<irr, pic, cpu, counters, history>>

(* ICW2 to ICW4 in their order after ICW1; the mask otherwise. *)
Programmed(chip, byte) ==
  CASE pic[chip].word = 2 -> [pic[chip] EXCEPT !.base = 8 * (byte \div 8), !.word = 3]
    [] pic[chip].word = 3 -> [pic[chip] EXCEPT !.wiring = byte, !.word = 4]
    [] pic[chip].word = 4 -> [pic[chip] EXCEPT !.word = 0]
    [] OTHER              -> [pic[chip] EXCEPT !.mask = byte]

ProgramChip(chip) ==
  /\ cpu = "boot"
  /\ todo # <<>>
  /\ Head(todo)[1] = "data"
  /\ Head(todo)[2] = chip
  /\ pic' = [pic EXCEPT ![chip] = Programmed(chip, Head(todo)[3])]
  /\ todo' = Tail(todo)
  /\ UNCHANGED <<irr, master, slave, cpu, counters, history>>

(* The end of startup: interrupts are turned on. *)
sti ==
  /\ cpu = "boot"
  /\ todo = <<>>
  /\ cpu' = "main"
  /\ UNCHANGED <<irr, master, slave, pic, todo, counters, history>>

(* What this does to the device, and to its request, is said by the device. *)
UseDevice(line) ==
  /\ At(Device(line))
  /\ todo' = Tail(todo)
  /\ UNCHANGED <<master, slave, pic, cpu, counters, history>>

(* readISR shows no in-service bit for the line: count and return. *)
CheckSpurious7 ==
  /\ At(IsSpurious(7))
  /\ IF 7 \in master
     THEN todo' = Tail(todo) /\ UNCHANGED counters
     ELSE /\ todo' = <<>>
          /\ sys_spurious_irqs7' = sys_spurious_irqs7 + 1
          /\ UNCHANGED sys_spurious_irqs15
  /\ UNCHANGED <<irr, master, slave, pic, cpu, history>>

CheckSpurious15 ==
  /\ At(IsSpurious(15))
  /\ IF 15 \in slave
     THEN todo' = Tail(todo) /\ UNCHANGED counters
     ELSE /\ todo' = <<>>
          /\ sys_spurious_irqs15' = sys_spurious_irqs15 + 1
          /\ UNCHANGED sys_spurious_irqs7
  /\ UNCHANGED <<irr, master, slave, pic, cpu, history>>

(* iret turns interrupts on again. *)
Iret ==
  /\ cpu = "handler"
  /\ todo = <<>>
  /\ cpu' = "main"
  /\ UNCHANGED <<irr, master, slave, pic, todo, counters, history>>

Interrupt ==
  \/ TakeInterrupt \/ AcknowledgeMaster \/ SpuriousMaster \/ AcknowledgeSlave \/ SpuriousSlave
  \/ CheckSpurious7 \/ CheckSpurious15 \/ Iret

PortAccess == \E chip \in Chips : Initialize(chip) \/ EndOfInterrupt(chip) \/ ProgramChip(chip)
-----------------------------------------------------------------------------
(* What the firmware left, and startup still has to do. *)
IrqInit(startup) ==
  /\ irr = {}
  /\ master = {}
  /\ slave = {}
  /\ pic = [chip \in Chips |->
              [word |-> 0, base |-> IF chip = "master" THEN 8 ELSE 112,
               wiring |-> IF chip = "master" THEN 4 ELSE Cascade, mask |-> 255]]
  /\ cpu = "boot"
  /\ todo = startup
  /\ sys_spurious_irqs7 = 0
  /\ sys_spurious_irqs15 = 0
  /\ spurious = [chip \in Chips |-> 0]
  /\ requests = 0
-----------------------------------------------------------------------------
(***************************************************************************)
(* Between handlers no line is in service, so none is kept waiting: every  *)
(* handler ends exactly the interrupts that were acknowledged for it, the  *)
(* spurious ones included (a spurious IRQ15 has the master's line 2 in     *)
(* service, but nothing in the slave).                                     *)
(***************************************************************************)
NothingInService == cpu = "main" => master = {} /\ slave = {}

(***************************************************************************)
(* sys_spurious_irqs7 and 15 count the spurious interrupts and nothing     *)
(* else: a real IRQ7 or IRQ15 is never taken for a spurious one.           *)
(***************************************************************************)
SpuriousCounted ==
  cpu = "main" => /\ sys_spurious_irqs7 = spurious["master"]
                  /\ sys_spurious_irqs15 = spurious["slave"]

(***************************************************************************)
(* A request is taken by the handler of its line, isr32 for line 0 up to   *)
(* isr47 for line 15, and by no exception handler: the vectors that        *)
(* remap_irqs programs in ten writes are those of the gates, and the gates *)
(* lead where init_interrupts meant them to.                               *)
(***************************************************************************)
TakenByItsHandler ==
  [][\A l \in irr \ irr' :
       cpu \in {"inta1", "inta2"} /\ cpu' # cpu =>
         cpu' = "handler" /\ todo' = Handler(32 + l)]_irqVars

(***************************************************************************)
(* Every request that is not withdrawn is acknowledged: the timer, whose   *)
(* requests never end and go before all others, leaves them room.          *)
(***************************************************************************)
EveryRequestServed == \A l \in Lines : l \in irr ~> l \notin irr
=============================================================================
