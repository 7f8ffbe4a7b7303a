------------------------------- MODULE IrqProofs -------------------------------
(***************************************************************************)
(* Proofs about module Irq, for every set of lines and any number of       *)
(* requests, raised and withdrawn at any time.  Module TimerProofs makes   *)
(* them theorems of a specification.                                       *)
(*                                                                         *)
(* What is promised of main, that no line is in service, is kept only      *)
(* because every handler, at each of its accesses, has as much left to do  *)
(* as is in service.  IrqInv therefore lists the moments of the handlers,  *)
(* each with what is left of the accesses, the in-service bits and the     *)
(* spurious interrupt that is not counted yet; and for startup, how far    *)
(* the ten writes of remap_irqs have programmed the two controllers.       *)
(***************************************************************************)
EXTENDS Irq, SequenceTheorems, TLAPS

Registers(word, base, wiring, mask) ==
  [word |-> word, base |-> base, wiring |-> wiring, mask |-> mask]

(* A controller after i of the ten writes, the first of which is its own. *)
ChipAfter(i, old, new, wiring) ==
  Registers(IF i < 1 \/ i > 6 THEN 0 ELSE IF i < 3 THEN 2 ELSE IF i < 5 THEN 3 ELSE 4,
            IF i < 3 THEN old ELSE new,
            wiring,
            IF i < 1 THEN 255 ELSE 0)

(* Both after k of them: the slave is always one behind. *)
Both(m, s) == [chip \in Chips |-> IF chip = "master" THEN m ELSE s]

PicAfter(k) == Both(ChipAfter(k, 8, 32, 4), ChipAfter(k - 1, 112, 40, Cascade))

Remapped ==
  /\ pic["master"].base = 32 /\ pic["slave"].base = 40
  /\ pic["master"].mask = 0

(* The spurious interrupts of each controller that are not counted yet. *)
Uncounted(ofMaster, ofSlave) ==
  /\ sys_spurious_irqs7 + ofMaster = spurious["master"]
  /\ sys_spurious_irqs15 + ofSlave = spurious["slave"]

Todo(accesses) == todo = accesses

EndMaster == Command("master", EOI)
EndSlave == Command("slave", EOI)

Booting(startup) ==
  /\ cpu = "boot"
  /\ master = {} /\ slave = {} /\ Uncounted(0, 0)
  /\ \E k \in 0 .. Len(startup) :
       /\ Todo(SubSeq(startup, k + 1, Len(startup)))
       /\ pic = PicAfter(k)

InMain ==
  /\ cpu \in {"main", "inta1"}
  /\ master = {} /\ slave = {} /\ Uncounted(0, 0)

Cascading ==
  /\ cpu = "inta2"
  /\ master = {Cascade} /\ slave = {} /\ Uncounted(0, 0)

AtEnd == Todo(<<>>) /\ master = {} /\ slave = {} /\ Uncounted(0, 0)

AtDevice ==
  \E l \in {0, 1, 6} : /\ Todo(<<Device(l), EndMaster>>)
                       /\ master = {l} /\ slave = {} /\ Uncounted(0, 0)

AtEndMaster ==
  \E l \in 0 .. 7 : /\ Todo(<<EndMaster>>)
                    /\ master = {l} /\ slave = {} /\ Uncounted(0, 0)

AtCheck7 ==
  /\ Todo(<<IsSpurious(7), EndMaster>>)
  /\ slave = {}
  /\ \/ master = {7} /\ Uncounted(0, 0)
     \/ master = {} /\ Uncounted(1, 0)

AtEndBoth ==
  \E l \in 8 .. 14 : /\ Todo(<<EndMaster, EndSlave>>)
                     /\ master = {Cascade} /\ slave = {l} /\ Uncounted(0, 0)

AtEndSlave ==
  \E l \in 8 .. 15 : /\ Todo(<<EndSlave>>)
                     /\ master = {} /\ slave = {l} /\ Uncounted(0, 0)

(* IRQ15, or a spurious one: only the master has something in service. *)
Irq15 ==
  \/ slave = {15} /\ Uncounted(0, 0)
  \/ slave = {} /\ Uncounted(0, 1)

AtEndThenCheck ==
  Todo(<<EndMaster, IsSpurious(15), EndSlave>>) /\ master = {Cascade} /\ Irq15

AtCheck15 == Todo(<<IsSpurious(15), EndSlave>>) /\ master = {} /\ Irq15

InHandler ==
  /\ cpu = "handler"
  /\ \/ AtEnd \/ AtDevice \/ AtEndMaster \/ AtCheck7
     \/ AtEndBoth \/ AtEndSlave \/ AtEndThenCheck \/ AtCheck15

IrqTypeOK ==
  /\ irr \subseteq (0 .. 15) \ {Cascade}
  /\ sys_spurious_irqs7 \in Nat /\ sys_spurious_irqs15 \in Nat
  /\ spurious \in [Chips -> Nat]

IrqInv(startup) ==
  /\ IrqTypeOK
  /\ Booting(startup) \/ (Remapped /\ (InMain \/ Cascading \/ InHandler))

(* The writes of startup: to the controllers, and to the timer. *)
Writes == ({"command", "data"} \X Chips \X Nat) \cup ({"pit"} \X Nat \X Nat)

(* What startup does to the controllers is remap_irqs, and that first. *)
StartsWithRemap(startup) ==
  /\ startup \in Seq(Writes)
  /\ Len(startup) >= 10
  /\ \A i \in 1 .. 10 : startup[i] = remap_irqs[i]
  /\ \A i \in 11 .. Len(startup) : startup[i][1] = "pit"

-----------------------------------------------------------------------------
(* The gates lead to the handlers, and the least line is one of them.      *)

(* A handler's address is stored in two halves and read from both. *)
LEMMA Halved ==
  ASSUME NEW a \in Nat
  PROVE  (a % 65536) + 65536 * (a \div 65536) = a
BY SMT

(* A gate leads to the address that was put into it. *)
LEMMA TargetIsIsr ==
  ASSUME NEW v \in 0 .. 47
  PROVE  Target(v) = 1113000 + 37 * v
<1>1. idt[v] = init_interrupt(8, 1113000 + 37 * v, DESCTYPE_INT_GATE_386, 0)
  BY SMT DEF idt, Isr
<1>2. Bits16(1113000 + 37 * v, 1) + 65536 * Bits16(1113000 + 37 * v, 65536) = 1113000 + 37 * v
  BY SMT DEF Bits16
<1> QED
  BY SMT, <1>1, <1>2 DEF Target, init_interrupt

(* The code segment of the gates begins at address 0. *)
LEMMA Flat == FlatCode(8)
<1>1. 8 \div 8 = 1 /\ 1 \in DOMAIN gdt /\ gdt[1] = init_descriptor(0, 1048575, 1, 1, 1, 0, EXE_SEG + EXE_READABLE)
  BY SMT DEF gdt
<1>2. /\ Bits16(0, 1) = 0 /\ Bits8(0, 65536) = 0 /\ Bits8(0, 2^24) = 0
  BY SMT DEF Bits16, Bits8
<1>3. Bits16(1048575, 1) = 65535 /\ Bits8(1048575, 65536) = 15
  BY SMT DEF Bits16, Bits8
<1>4. EXE_SEG + EXE_READABLE \in EXE_SEG .. 31
  BY SMT DEF EXE_SEG, EXE_READABLE
<1> QED
  BY SMT, <1>1, <1>2, <1>3, <1>4 DEF FlatCode, init_descriptor

(* So the gate of each vector leads to that vector's handler. *)
LEMMA GateLeadsToIsr ==
  ASSUME NEW v \in 0 .. 47
  PROVE  LeadsTo[v] = {v}
<1>1. LeadsTo[v] =   {n \in DOMAIN Isr :
     /\ v \in DOMAIN idt
     /\ idt[v].present = 1 /\ idt[v].type = DESCTYPE_INT_GATE_386
     /\ FlatCode(idt[v].selector)
     /\ Target(v) = Isr[n]}
  BY SMT DEF LeadsTo
<1>2. /\ DOMAIN Isr = 0 .. 47 /\ DOMAIN idt = 0 .. 47
      /\ \A n \in 0 .. 47 : Isr[n] = 1113000 + 37 * n
  BY SMT DEF Isr, idt
<1>3. idt[v].present = 1 /\ idt[v].type = DESCTYPE_INT_GATE_386 /\ idt[v].selector = 8
  BY SMT DEF idt, init_interrupt
<1>4. \A n \in 0 .. 47 : Target(v) = Isr[n] <=> n = v
  BY SMT, <1>2, TargetIsIsr
<1> QED
  BY <1>1, <1>2, <1>3, <1>4, Flat

(* The highest priority among one line. *)
LEMMA MinSingle == ASSUME NEW x \in Int PROVE Min({x}) = x
BY DEF Min

(* The highest priority among the lines of one controller. *)
LEMMA MinIsLeast ==
  ASSUME NEW a \in Nat, NEW b \in Nat, b <= a + 7, NEW S, S \subseteq a .. b, S # {}
  PROVE  Min(S) \in S /\ \A y \in S : Min(S) <= y
<1>1. \E x \in S : \A y \in S : x <= y
  <2> SUFFICES ASSUME \A x \in S : \E y \in S : y < x
               PROVE  FALSE
    OBVIOUS
  <2>0. a \notin S
    OBVIOUS
  <2>1. a + 1 \notin S
    BY <2>0
  <2>2. a + 2 \notin S
    BY <2>0, <2>1
  <2>3. a + 3 \notin S
    BY <2>0, <2>1, <2>2
  <2>4. a + 4 \notin S
    BY <2>0, <2>1, <2>2, <2>3
  <2>5. a + 5 \notin S
    BY <2>0, <2>1, <2>2, <2>3, <2>4
  <2>6. a + 6 \notin S
    BY <2>0, <2>1, <2>2, <2>3, <2>4, <2>5
  <2>7. a + 7 \notin S
    BY <2>0, <2>1, <2>2, <2>3, <2>4, <2>5, <2>6
  <2>8. \E x \in S : x \in a .. b
    OBVIOUS
  <2> QED
    BY <2>8, <2>0, <2>1, <2>2, <2>3, <2>4, <2>5, <2>6, <2>7
<1> QED
  BY <1>1 DEF Min

(* What the processor does when it is given a vector. *)
LEMMA Entered ==
  ASSUME NEW v \in 0 .. 47, Enter(v)
  PROVE  cpu' = "handler" /\ todo' = Handler(v)
<1>1. LeadsTo[v] = {v}
  BY GateLeadsToIsr
<1>2. (CHOOSE isr \in LeadsTo[v] : TRUE) = v
  BY <1>1
<1> QED
  BY <1>1, <1>2 DEF Enter

-----------------------------------------------------------------------------
(* Startup.  Each of its writes goes one further through remap_irqs.       *)

(* What startup does next is the head of what it has left. *)
LEMMA BootRest ==
  ASSUME NEW startup, StartsWithRemap(startup),
         NEW k \in 0 .. Len(startup),
         Todo(SubSeq(startup, k + 1, Len(startup))),
         todo # <<>>
  PROVE  /\ k < Len(startup)
         /\ Head(todo) = startup[k + 1]
         /\ Tail(todo) = SubSeq(startup, k + 2, Len(startup))
<1>1. startup \in Seq(Writes) /\ Len(startup) \in Nat
  BY LenProperties DEF StartsWithRemap
<1>2. k < Len(startup)
  BY <1>1, SubSeqEmpty DEF Todo
<1> QED
  BY <1>1, <1>2, HeadTailOfSubSeq DEF Todo

(* One of the two controllers is set.                                      *)
LEMMA SetMaster ==
  ASSUME NEW m, NEW s, NEW x, NEW r, r = Both(m, s)
  PROVE  [r EXCEPT !["master"] = x] = Both(x, s)
BY SMT DEF Both, Chips

(* Both chips' registers are kept in one record: changing one field, *)
LEMMA SetSlave ==
  ASSUME NEW m, NEW s, NEW x, NEW r, r = Both(m, s)
  PROVE  [r EXCEPT !["slave"] = x] = Both(m, x)
BY SMT DEF Both, Chips

(* and reading both. *)
LEMMA OfBoth == ASSUME NEW m, NEW s PROVE Both(m, s)["master"] = m /\ Both(m, s)["slave"] = s
BY SMT DEF Both, Chips

(* ICW1 starts an initialisation. *)
LEMMA InitializeKeeps ==
  ASSUME NEW startup, StartsWithRemap(startup), IrqInv(startup),
         NEW chip \in Chips, Initialize(chip)
  PROVE  IrqInv(startup)'
<1>1. IrqTypeOK'
  BY DEF Initialize, IrqInv, IrqTypeOK, counters, history
<1>2. CASE Booting(startup)
  <2>1. PICK k \in 0 .. Len(startup) : /\ Todo(SubSeq(startup, k + 1, Len(startup)))
                                       /\ pic = PicAfter(k)
    BY <1>2 DEF Booting
  <2>2. /\ k < Len(startup) /\ Head(todo) = startup[k + 1]
        /\ Tail(todo) = SubSeq(startup, k + 2, Len(startup))
    BY <2>1, BootRest DEF Initialize, At
  <2>3. Len(startup) \in Nat /\ startup \in Seq(Writes)
    BY LenProperties DEF StartsWithRemap
  <2>4. startup[k + 1] = Command(chip, ICW1)
    BY <2>2 DEF Initialize, At
  <2>5. \/ k = 0 /\ chip = "master"
        \/ k = 1 /\ chip = "slave"
    <3>1. k + 1 \in 1 .. 10
      BY <2>2, <2>3, <2>4 DEF StartsWithRemap, Command
    <3> QED
      BY <3>1, <2>4 DEF StartsWithRemap, Command, Data, ICW1, Chips, remap_irqs
  <2>6. pic' = PicAfter(k + 1)
    <3>1. PICK r : r = pic[chip]
      OBVIOUS
    <3>2. PICK q : q = [r EXCEPT !.word = 2]
      OBVIOUS
    <3>3. PICK t : t = [q EXCEPT !.mask = 0]
      OBVIOUS
    <3>4. pic' = [pic EXCEPT ![chip] = t]
      BY <3>1, <3>2, <3>3 DEF Initialize
    <3>5. CASE chip = "master"
      <4>1. r = Registers(0, 8, 4, 255)
        BY <2>1, <2>5, <3>1, <3>5, OfBoth DEF PicAfter, ChipAfter
      <4>2. q = Registers(2, 8, 4, 255)
        BY SMT, <3>2, <4>1 DEF Registers
      <4>3. t = Registers(2, 8, 4, 0)
        BY SMT, <3>3, <4>2 DEF Registers
      <4> QED
        BY <2>1, <2>5, <3>4, <3>5, <4>3, SetMaster DEF PicAfter, ChipAfter
    <3>6. CASE chip = "slave"
      <4>1. r = Registers(0, 112, Cascade, 255)
        BY <2>1, <2>5, <3>1, <3>6, OfBoth DEF PicAfter, ChipAfter
      <4>2. q = Registers(2, 112, Cascade, 255)
        BY SMT, <3>2, <4>1 DEF Registers
      <4>3. t = Registers(2, 112, Cascade, 0)
        BY SMT, <3>3, <4>2 DEF Registers
      <4> QED
        BY <2>1, <2>5, <3>4, <3>6, <4>3, SetSlave DEF PicAfter, ChipAfter
    <3> QED
      BY <2>5, <3>5, <3>6
  <2>7. Todo(SubSeq(startup, (k + 1) + 1, Len(startup)))' /\ k + 1 \in 0 .. Len(startup)
    BY <2>2, <2>3 DEF Todo, Initialize
  <2> QED
    BY <1>1, <1>2, <2>6, <2>7
    DEF IrqInv, Booting, Initialize, SetInService, Uncounted, counters, history
<1>3. CASE Remapped /\ (InMain \/ Cascading \/ InHandler)
  <2>1. cpu = "handler" /\ InHandler
    BY <1>3 DEF Initialize, At, InMain, Cascading, InHandler
  <2>2. Head(todo) # Command(chip, ICW1)
    BY <2>1 DEF Initialize, At, InHandler, AtEnd, AtDevice, AtEndMaster, AtCheck7, AtEndBoth,
       AtEndSlave, AtEndThenCheck, AtCheck15, Todo, Command, Device, IsSpurious,
       EndMaster, EndSlave, EOI, ICW1
  <2> QED
    BY <2>2 DEF Initialize, At
<1> QED
  BY <1>2, <1>3 DEF IrqInv

(* A word of a controller that is at most six writes behind its ICW1.      *)
LEMMA WordMoves ==
  ASSUME NEW chip \in Chips, NEW byte \in Nat, NEW i \in 2 .. 8, NEW old, NEW new, NEW wiring,
         pic[chip] = ChipAfter(i, old, new, wiring),
         i = 2 => 8 * (byte \div 8) = new,
         i = 4 => byte = wiring,
         i = 8 => byte = 0,
         i \in {2, 4, 6, 8}
  PROVE  Programmed(chip, byte) = ChipAfter(i + 1, old, new, wiring)
<1> PICK r : r = pic[chip]
  OBVIOUS
<1>1. CASE i = 2
  <2>1. r = Registers(2, old, wiring, 0)
    BY <1>1 DEF ChipAfter
  <2>2. r.word = 2
    BY SMT, <2>1 DEF Registers
  <2>3. Programmed(chip, byte) = [r EXCEPT !.base = 8 * (byte \div 8), !.word = 3]
    BY <2>2 DEF Programmed
  <2>4. PICK q : q = [r EXCEPT !.base = 8 * (byte \div 8)]
    OBVIOUS
  <2>5. q = Registers(2, new, wiring, 0)
    BY SMT, <1>1, <2>1, <2>4 DEF Registers
  <2>6. [q EXCEPT !.word = 3] = Registers(3, new, wiring, 0)
    BY SMT, <2>5 DEF Registers
  <2> QED
    BY <1>1, <2>3, <2>4, <2>6 DEF ChipAfter
<1>2. CASE i = 4
  <2>1. r = Registers(3, new, wiring, 0)
    BY <1>2 DEF ChipAfter
  <2>2. r.word = 3
    BY SMT, <2>1 DEF Registers
  <2>3. Programmed(chip, byte) = [r EXCEPT !.wiring = wiring, !.word = 4]
    BY <1>2, <2>2 DEF Programmed
  <2>4. PICK q : q = [r EXCEPT !.wiring = wiring]
    OBVIOUS
  <2>5. q = Registers(3, new, wiring, 0)
    BY SMT, <2>1, <2>4 DEF Registers
  <2>6. [q EXCEPT !.word = 4] = Registers(4, new, wiring, 0)
    BY SMT, <2>5 DEF Registers
  <2> QED
    BY <1>2, <2>3, <2>4, <2>6 DEF ChipAfter
<1>3. CASE i = 6
  <2>1. r = Registers(4, new, wiring, 0)
    BY <1>3 DEF ChipAfter
  <2>2. r.word = 4
    BY SMT, <2>1 DEF Registers
  <2>3. Programmed(chip, byte) = [r EXCEPT !.word = 0]
    BY <2>2 DEF Programmed
  <2>4. [r EXCEPT !.word = 0] = Registers(0, new, wiring, 0)
    BY SMT, <2>1 DEF Registers
  <2> QED
    BY <1>3, <2>3, <2>4 DEF ChipAfter
<1>4. CASE i = 8
  <2>1. r = Registers(0, new, wiring, 0)
    BY <1>4 DEF ChipAfter
  <2>2. r.word = 0
    BY SMT, <2>1 DEF Registers
  <2>3. Programmed(chip, byte) = [r EXCEPT !.mask = 0]
    BY <1>4, <2>2 DEF Programmed
  <2>4. [r EXCEPT !.mask = 0] = Registers(0, new, wiring, 0)
    BY SMT, <2>1 DEF Registers
  <2> QED
    BY <1>4, <2>3, <2>4 DEF ChipAfter
<1> QED
  BY <1>1, <1>2, <1>3, <1>4

(* A write to the other controller counts, but changes nothing here.       *)
LEMMA OtherWaits ==
  ASSUME NEW i \in Int, NEW old, NEW new, NEW wiring, i \notin {0, 2, 4, 6}
  PROVE  ChipAfter(i + 1, old, new, wiring) = ChipAfter(i, old, new, wiring)
BY SMT DEF ChipAfter

(* ICW2 to ICW4 and the mask: after the tenth write both vectors are set. *)
LEMMA ProgramKeeps ==
  ASSUME NEW startup, StartsWithRemap(startup), IrqInv(startup),
         NEW chip \in Chips, ProgramChip(chip)
  PROVE  IrqInv(startup)'
<1>1. IrqTypeOK'
  BY DEF ProgramChip, IrqInv, IrqTypeOK, counters, history
<1>2. Booting(startup)
  BY DEF ProgramChip, IrqInv, InMain, Cascading, InHandler
<1>3. PICK k \in 0 .. Len(startup) : /\ Todo(SubSeq(startup, k + 1, Len(startup)))
                                     /\ pic = PicAfter(k)
  BY <1>2 DEF Booting
<1>4. /\ k < Len(startup) /\ Head(todo) = startup[k + 1]
      /\ Tail(todo) = SubSeq(startup, k + 2, Len(startup))
  BY <1>3, BootRest DEF ProgramChip
<1>5. Len(startup) \in Nat /\ startup \in Seq(Writes)
  BY LenProperties DEF StartsWithRemap
<1>6. startup[k + 1][1] = "data" /\ startup[k + 1][2] = chip
  BY <1>4 DEF ProgramChip
<1>7. k + 1 \in 3 .. 10 /\ startup[k + 1] = remap_irqs[k + 1]
  <2>1. k + 1 \in 1 .. 10
    BY <1>4, <1>5, <1>6 DEF StartsWithRemap
  <2>2. startup[k + 1] = remap_irqs[k + 1]
    BY <2>1 DEF StartsWithRemap
  <2> QED
    BY <1>6, <2>1, <2>2 DEF Command, remap_irqs
<1>8. pic' = PicAfter(k + 1)
  <2>1. pic' = [pic EXCEPT ![chip] = Programmed(chip, remap_irqs[k + 1][3])]
    BY <1>4, <1>7 DEF ProgramChip
  <2>2. CASE chip = "master"
    <3>1. k \in {2, 4, 6, 8} /\ remap_irqs[k + 1][3] = (IF k = 2 THEN 32 ELSE IF k = 4 THEN 4 ELSE IF k = 6 THEN 1 ELSE 0)
      BY SMT, <1>6, <1>7, <2>2 DEF remap_irqs, Command, Data
    <3>2. Programmed(chip, remap_irqs[k + 1][3]) = ChipAfter(k + 1, 8, 32, 4)
      <4>1. pic[chip] = ChipAfter(k, 8, 32, 4)
        BY <1>3, <2>2, OfBoth DEF PicAfter
      <4> QED
        BY SMT, <3>1, <4>1, WordMoves
    <3>3. ChipAfter((k - 1) + 1, 112, 40, Cascade) = ChipAfter(k - 1, 112, 40, Cascade)
      BY <3>1, OtherWaits
    <3> QED
      BY <1>3, <2>1, <2>2, <3>2, <3>3, SetMaster, SetSlave DEF PicAfter
  <2>3. CASE chip = "slave"
    <3>1. k \in {3, 5, 7, 9} /\ remap_irqs[k + 1][3] = (IF k = 3 THEN 40 ELSE IF k = 5 THEN Cascade ELSE IF k = 7 THEN 1 ELSE 0)
      BY SMT, <1>6, <1>7, <2>3 DEF remap_irqs, Command, Data, Cascade
    <3>2. Programmed(chip, remap_irqs[k + 1][3]) = ChipAfter((k - 1) + 1, 112, 40, Cascade)
      <4>1. pic[chip] = ChipAfter(k - 1, 112, 40, Cascade)
        BY <1>3, <2>3, OfBoth DEF PicAfter
      <4> QED
        BY SMT, <3>1, <4>1, WordMoves DEF Cascade
    <3>3. ChipAfter(k + 1, 8, 32, 4) = ChipAfter(k, 8, 32, 4)
      BY <3>1, OtherWaits
    <3> QED
      BY <1>3, <2>1, <2>3, <3>2, <3>3, SetMaster, SetSlave DEF PicAfter
  <2> QED
    BY <2>2, <2>3 DEF Chips
<1>9. Todo(SubSeq(startup, (k + 1) + 1, Len(startup)))' /\ k + 1 \in 0 .. Len(startup)
  BY <1>4, <1>5 DEF Todo, ProgramChip
<1> QED
  BY <1>1, <1>2, <1>8, <1>9 DEF IrqInv, Booting, ProgramChip, Uncounted, counters, history

(* startup ends with nothing in service. *)
LEMMA StiKeeps ==
  ASSUME NEW startup, StartsWithRemap(startup), IrqInv(startup), sti
  PROVE  IrqInv(startup)'
<1>1. IrqTypeOK'
  BY DEF sti, IrqInv, IrqTypeOK, counters, history
<1>2. Booting(startup)
  BY DEF sti, IrqInv, InMain, Cascading, InHandler
<1>3. PICK k \in 0 .. Len(startup) : /\ Todo(SubSeq(startup, k + 1, Len(startup)))
                                     /\ pic = PicAfter(k)
  BY <1>2 DEF Booting
<1>4. Len(startup) \in Nat /\ startup \in Seq(Writes) /\ Len(startup) >= 10
  BY LenProperties DEF StartsWithRemap
<1>5. k = Len(startup)
  <2>1. SUFFICES ASSUME k < Len(startup)
                 PROVE  FALSE
    BY <1>4
  <2>2. Len(todo) = Len(startup) - (k + 1) + 1
    BY <1>3, <1>4, <2>1, SubSeqProperties DEF Todo
  <2> QED
    BY <1>4, <2>1, <2>2 DEF sti
<1>6. Remapped'
  <2>1. pic["master"] = ChipAfter(k, 8, 32, 4) /\ pic["slave"] = ChipAfter(k - 1, 112, 40, Cascade)
    BY <1>3, OfBoth DEF PicAfter
  <2>2. pic["master"].base = 32 /\ pic["slave"].base = 40 /\ pic["master"].mask = 0
    BY SMT, <1>4, <1>5, <2>1 DEF ChipAfter, Registers
  <2> QED
    BY <2>2 DEF Remapped, sti
<1> QED
  BY <1>1, <1>2, <1>6 DEF IrqInv, Booting, InMain, sti, Uncounted, counters, history

-----------------------------------------------------------------------------
(* An interrupt is taken.                                                  *)

(* The processor asks for a vector when interrupts are on. *)
LEMMA TakeKeeps ==
  ASSUME NEW startup, IrqInv(startup), TakeInterrupt
  PROVE  IrqInv(startup)'
<1>1. InMain /\ Remapped
  BY DEF TakeInterrupt, IrqInv, Booting, Cascading, InHandler
<1> QED
  BY <1>1 DEF IrqInv, IrqTypeOK, InMain, Remapped, TakeInterrupt, Uncounted, counters, history

(* The line that the first controller acknowledges, *)
LEMMA MasterLine ==
  ASSUME MasterReady # {}
  PROVE  Min(MasterReady) \in 0 .. 7
<1>1. MasterReady \subseteq 0 .. 7
  BY DEF MasterReady, LinesOf, Cascade
<1>2. 7 <= 0 + 7 /\ 0 \in Nat /\ 7 \in Nat
  OBVIOUS
<1>3. Min(MasterReady) \in MasterReady
  BY Zenon, <1>1, <1>2, MinIsLeast
<1> QED
  BY <1>1, <1>3

(* and the one of the second. *)
LEMMA SlaveLine ==
  ASSUME SlaveReady # {}
  PROVE  Min(SlaveReady) \in 8 .. 15
<1>1. SlaveReady \subseteq 8 .. 15
  BY DEF SlaveReady, LinesOf
<1>2. 15 <= 8 + 7 /\ 8 \in Nat /\ 15 \in Nat
  OBVIOUS
<1>3. Min(SlaveReady) \in SlaveReady
  BY Zenon, <1>1, <1>2, MinIsLeast
<1> QED
  BY <1>1, <1>3

(* The vector of every line is that of its handler.                        *)
LEMMA VectorOfLine ==
  ASSUME Remapped
  PROVE  /\ \A l \in 0 .. 7 : Vector("master", l) = 32 + l
         /\ \A l \in 8 .. 15 : Vector("slave", l) = 32 + l
         /\ Vector("slave", 7) = 47
BY DEF Remapped, Vector

(* What is left to do is what the interrupt put in service.                *)
LEMMA Delivered ==
  ASSUME NEW l \in 0 .. 15, l # Cascade, todo' = Handler(32 + l), Uncounted(0, 0)',
         master' = (IF l < 8 THEN {l} ELSE {Cascade}),
         slave' = (IF l < 8 THEN {} ELSE {l}),
         cpu' = "handler"
  PROVE  InHandler'
<1>1. CASE l \in {0, 1, 6}
  <2>1. Handler(32 + l) = <<Device(l), EndMaster>>
    BY <1>1 DEF Handler, EndMaster
  <2>2. AtDevice'
    BY <1>1, <2>1 DEF AtDevice, Todo
  <2> QED
    BY <2>2 DEF InHandler
<1>2. CASE l \in 3 .. 5
  <2>1. Handler(32 + l) = <<EndMaster>>
    BY <1>2 DEF Handler, EndMaster
  <2>2. AtEndMaster'
    BY <1>2, <2>1 DEF AtEndMaster, Todo
  <2> QED
    BY <2>2 DEF InHandler
<1>3. CASE l = 7
  <2>1. AtCheck7'
    BY <1>3 DEF AtCheck7, Todo, Handler, EndMaster
  <2> QED
    BY <2>1 DEF InHandler
<1>4. CASE l \in 8 .. 14
  <2>1. AtEndBoth'
    BY <1>4 DEF AtEndBoth, Todo, Handler, EndMaster, EndSlave
  <2> QED
    BY <2>1 DEF InHandler
<1>5. CASE l = 15
  <2>1. AtEndThenCheck'
    BY <1>5 DEF AtEndThenCheck, Irq15, Todo, Handler, EndMaster, EndSlave
  <2> QED
    BY <2>1 DEF InHandler
<1> QED
  BY <1>1, <1>2, <1>3, <1>4, <1>5 DEF Cascade

(* A line of the first controller enters the handler of that line; *)
LEMMA MasterAnswers ==
  ASSUME NEW startup, IrqInv(startup), AcknowledgeMaster, Min(MasterReady) # Cascade
  PROVE  cpu' = "handler" /\ todo' = Handler(32 + Min(MasterReady))
<1>1. Remapped
  BY DEF AcknowledgeMaster, IrqInv, Booting
<1>2. Min(MasterReady) \in 0 .. 7
  BY MasterLine DEF AcknowledgeMaster
<1>3. Enter(32 + Min(MasterReady))
  BY <1>1, <1>2, VectorOfLine DEF AcknowledgeMaster
<1> QED
  BY <1>2, <1>3, Entered

(* so does one of the second. *)
LEMMA SlaveAnswers ==
  ASSUME NEW startup, IrqInv(startup), AcknowledgeSlave
  PROVE  cpu' = "handler" /\ todo' = Handler(32 + Min(SlaveReady))
<1>1. Remapped
  BY DEF AcknowledgeSlave, IrqInv, Booting
<1>2. Min(SlaveReady) \in 8 .. 15
  BY SlaveLine DEF AcknowledgeSlave
<1>3. Enter(32 + Min(SlaveReady))
  BY <1>1, <1>2, VectorOfLine DEF AcknowledgeSlave
<1> QED
  BY <1>2, <1>3, Entered

(* The acknowledge cycles, in which a bit comes into service, *)
LEMMA AcknowledgeMasterKeeps ==
  ASSUME NEW startup, IrqInv(startup), AcknowledgeMaster
  PROVE  IrqInv(startup)'
<1>1. InMain /\ Remapped
  BY DEF AcknowledgeMaster, IrqInv, Booting, Cascading, InHandler
<1>2. IrqTypeOK' /\ Remapped'
  BY <1>1 DEF AcknowledgeMaster, IrqInv, IrqTypeOK, Remapped, counters, history
<1>3. Min(MasterReady) \in 0 .. 7
  BY MasterLine DEF AcknowledgeMaster
<1>4. Uncounted(0, 0)' /\ slave' = {} /\ master' = {Min(MasterReady)}
  BY <1>1 DEF AcknowledgeMaster, InMain, Uncounted, counters, history
<1>5. CASE Min(MasterReady) = Cascade
  BY <1>2, <1>4, <1>5 DEF AcknowledgeMaster, IrqInv, Cascading
<1>6. CASE Min(MasterReady) # Cascade
  <2>1. InHandler'
    BY <1>3, <1>4, <1>6, MasterAnswers, Delivered
  <2> QED
    BY <1>2, <2>1 DEF IrqInv
<1> QED
  BY <1>5, <1>6

(* one on each controller for a cascaded line; *)
LEMMA AcknowledgeSlaveKeeps ==
  ASSUME NEW startup, IrqInv(startup), AcknowledgeSlave
  PROVE  IrqInv(startup)'
<1>1. Cascading /\ Remapped
  BY DEF AcknowledgeSlave, IrqInv, Booting, InMain, InHandler
<1>2. IrqTypeOK' /\ Remapped'
  BY <1>1 DEF AcknowledgeSlave, IrqInv, IrqTypeOK, Remapped, counters, history
<1>3. Min(SlaveReady) \in 8 .. 15
  BY SlaveLine DEF AcknowledgeSlave
<1>4. Uncounted(0, 0)' /\ slave' = {Min(SlaveReady)} /\ master' = {Cascade}
  BY <1>1 DEF AcknowledgeSlave, Cascading, Uncounted, counters, history
<1>5. InHandler'
  BY <1>3, <1>4, SlaveAnswers, Delivered DEF Cascade
<1> QED
  BY <1>2, <1>5 DEF IrqInv

(* and in which none does because the request has gone. *)
LEMMA SpuriousMasterKeeps ==
  ASSUME NEW startup, IrqInv(startup), SpuriousMaster
  PROVE  IrqInv(startup)'
<1>1. InMain /\ Remapped
  BY DEF SpuriousMaster, IrqInv, Booting, Cascading, InHandler
<1>2. IrqTypeOK' /\ Remapped'
  BY <1>1 DEF SpuriousMaster, SpuriousAnswer, IrqInv, IrqTypeOK, Remapped, counters, Chips
<1>3. cpu' = "handler" /\ todo' = Handler(39)
  BY <1>1, VectorOfLine, Entered DEF SpuriousMaster, SpuriousAnswer
<1>4. Uncounted(1, 0)' /\ slave' = {} /\ master' = {}
  BY <1>1 DEF SpuriousMaster, SpuriousAnswer, IrqInv, IrqTypeOK, InMain, Uncounted, counters, Chips
<1>5. AtCheck7'
  BY <1>3, <1>4 DEF AtCheck7, Todo, Handler, EndMaster
<1> QED
  BY <1>2, <1>3, <1>5 DEF IrqInv, InHandler

(* A spurious line 15 leaves the cascade in service on the first controller. *)
LEMMA SpuriousSlaveKeeps ==
  ASSUME NEW startup, IrqInv(startup), SpuriousSlave
  PROVE  IrqInv(startup)'
<1>1. Cascading /\ Remapped
  BY DEF SpuriousSlave, IrqInv, Booting, InMain, InHandler
<1>2. IrqTypeOK' /\ Remapped'
  BY <1>1 DEF SpuriousSlave, SpuriousAnswer, IrqInv, IrqTypeOK, Remapped, counters, Chips
<1>3. cpu' = "handler" /\ todo' = Handler(47)
  BY <1>1, VectorOfLine, Entered DEF SpuriousSlave, SpuriousAnswer
<1>4. Uncounted(0, 1)' /\ slave' = {} /\ master' = {Cascade}
  BY <1>1 DEF SpuriousSlave, SpuriousAnswer, IrqInv, IrqTypeOK, Cascading, Uncounted, counters, Chips
<1>5. AtEndThenCheck'
  BY <1>3, <1>4 DEF AtEndThenCheck, Irq15, Todo, Handler, EndMaster, EndSlave
<1> QED
  BY <1>2, <1>3, <1>5 DEF IrqInv, InHandler

-----------------------------------------------------------------------------
(* The handlers go on.                                                     *)

(* An end of interrupt with one line in service leaves none. *)
LEMMA EoiOfOne == ASSUME NEW l \in Nat PROVE Eoi({l}) = {}
BY MinSingle DEF Eoi

(* A handler only runs after remap_irqs. *)
LEMMA InHandlerAt ==
  ASSUME NEW startup, IrqInv(startup), cpu = "handler"
  PROVE  InHandler /\ Remapped
BY DEF IrqInv, Booting, InMain, Cascading

(* The first access of a handler tells how far it is.                      *)
LEMMA MomentOfDevice ==
  ASSUME InHandler, NEW l, At(Device(l))
  PROVE  /\ l \in {0, 1, 6} /\ Todo(<<Device(l), EndMaster>>)
         /\ master = {l} /\ slave = {} /\ Uncounted(0, 0)
BY DEF InHandler, At, AtEnd, AtDevice, AtEndMaster, AtCheck7, AtEndBoth, AtEndSlave,
   AtEndThenCheck, AtCheck15, Todo, Command, Device, IsSpurious, EndMaster, EndSlave, EOI

(* The next access of a handler says which of the listed moments it is at: *)
LEMMA MomentOfCheck7 ==
  ASSUME InHandler, At(IsSpurious(7))
  PROVE  AtCheck7
BY DEF InHandler, At, AtEnd, AtDevice, AtEndMaster, AtEndBoth, AtEndSlave,
   AtEndThenCheck, AtCheck15, Todo, Command, Device, IsSpurious, EndMaster, EndSlave, EOI

(* at is_spurious for either controller, *)
LEMMA MomentOfCheck15 ==
  ASSUME InHandler, At(IsSpurious(15))
  PROVE  AtCheck15
BY DEF InHandler, At, AtEnd, AtDevice, AtEndMaster, AtCheck7, AtEndBoth, AtEndSlave,
   AtEndThenCheck, Todo, Command, Device, IsSpurious, EndMaster, EndSlave, EOI

(* or at an end of interrupt. *)
LEMMA MomentOfEnd ==
  ASSUME InHandler, NEW chip \in Chips, At(Command(chip, EOI))
  PROVE  \/ chip = "master" /\ (AtEndMaster \/ AtEndBoth \/ AtEndThenCheck)
         \/ chip = "slave" /\ AtEndSlave
BY DEF InHandler, At, AtEnd, AtDevice, AtCheck7, AtEndMaster, AtEndBoth, AtEndThenCheck, AtEndSlave,
   AtCheck15, Todo, Command, Device, IsSpurious, EndMaster, EndSlave, EOI, Chips

(* startup uses neither a device nor the check, and ends no interrupt.     *)
LEMMA NotInBoot ==
  ASSUME NEW startup, StartsWithRemap(startup), Booting(startup), NEW access,
         At(access)
  PROVE  /\ \A l : access # Device(l)
         /\ \A l : access # IsSpurious(l)
         /\ \A chip : access # Command(chip, EOI)
<1>1. PICK k \in 0 .. Len(startup) : Todo(SubSeq(startup, k + 1, Len(startup)))
  BY DEF Booting
<1>2. k < Len(startup) /\ access = startup[k + 1]
  BY <1>1, BootRest DEF At
<1>3. Len(startup) \in Nat
  BY LenProperties DEF StartsWithRemap
<1>4. CASE k < 10
  <2>1. k + 1 \in 1 .. 10 /\ access = remap_irqs[k + 1]
    BY <1>2, <1>4 DEF StartsWithRemap
  <2> QED
    BY <2>1 DEF remap_irqs, Command, Data, Device, IsSpurious, EOI, ICW1
<1>5. CASE k >= 10
  <2>1. access[1] = "pit"
    BY <1>2, <1>3, <1>5 DEF StartsWithRemap
  <2> QED
    BY <2>1 DEF Command, Device, IsSpurious
<1> QED
  BY <1>4, <1>5

(* Each access of a handler leads from a listed moment to a listed moment: *)
(* that to its device, *)
LEMMA UseDeviceKeeps ==
  ASSUME NEW startup, StartsWithRemap(startup), IrqInv(startup),
         NEW l, UseDevice(l), irr' \subseteq (0 .. 15) \ {Cascade}
  PROVE  IrqInv(startup)'
<1>1. IrqTypeOK'
  BY DEF UseDevice, IrqInv, IrqTypeOK, counters, history
<1>2. InHandler /\ Remapped
  BY NotInBoot, InHandlerAt DEF UseDevice, At, IrqInv, InMain, Cascading
<1>3. AtEndMaster'
  <2>1. /\ l \in {0, 1, 6} /\ Todo(<<Device(l), EndMaster>>)
        /\ master = {l} /\ slave = {} /\ Uncounted(0, 0)
    BY <1>2, MomentOfDevice DEF UseDevice
  <2>2. todo' = <<EndMaster>> /\ l \in 0 .. 7
    BY <2>1 DEF UseDevice, Todo
  <2>3. master' = {l} /\ slave' = {} /\ Uncounted(0, 0)'
    BY <2>1 DEF UseDevice, Uncounted, counters, history
  <2> QED
    BY <2>2, <2>3 DEF AtEndMaster, Todo
<1> QED
  BY <1>1, <1>2, <1>3 DEF IrqInv, InHandler, Remapped, UseDevice

(* is_spurious on line 7, *)
LEMMA Check7Keeps ==
  ASSUME NEW startup, StartsWithRemap(startup), IrqInv(startup), CheckSpurious7
  PROVE  IrqInv(startup)'
<1>1. IrqTypeOK'
  BY DEF CheckSpurious7, IrqInv, IrqTypeOK, counters, history
<1>2. InHandler /\ Remapped
  BY NotInBoot, InHandlerAt DEF CheckSpurious7, At, IrqInv, InMain, Cascading
<1>3. AtCheck7
  BY <1>2, MomentOfCheck7 DEF CheckSpurious7
<1>4. AtEndMaster' \/ AtEnd'
  <2>1. CASE 7 \in master
    <3>1. todo' = <<EndMaster>> /\ master' = {7} /\ slave' = {} /\ Uncounted(0, 0)'
      BY <1>3, <2>1 DEF CheckSpurious7, AtCheck7, Todo, Uncounted, counters, history
    <3> QED
      BY <3>1 DEF AtEndMaster, Todo
  <2>2. CASE 7 \notin master
    <3>1. todo' = <<>> /\ master' = {} /\ slave' = {} /\ Uncounted(0, 0)'
      BY <1>3, <2>2 DEF CheckSpurious7, AtCheck7, Uncounted, IrqInv, IrqTypeOK, counters, history
    <3> QED
      BY <3>1 DEF AtEnd, Todo
  <2> QED
    BY <2>1, <2>2
<1> QED
  BY <1>1, <1>2, <1>4 DEF IrqInv, InHandler, Remapped, CheckSpurious7

(* is_spurious on line 15, *)
LEMMA Check15Keeps ==
  ASSUME NEW startup, StartsWithRemap(startup), IrqInv(startup), CheckSpurious15
  PROVE  IrqInv(startup)'
<1>1. IrqTypeOK'
  BY DEF CheckSpurious15, IrqInv, IrqTypeOK, counters, history
<1>2. InHandler /\ Remapped
  BY NotInBoot, InHandlerAt DEF CheckSpurious15, At, IrqInv, InMain, Cascading
<1>3. AtCheck15
  BY <1>2, MomentOfCheck15 DEF CheckSpurious15
<1>4. AtEndSlave' \/ AtEnd'
  <2>1. CASE 15 \in slave
    <3>1. todo' = <<EndSlave>> /\ master' = {} /\ slave' = {15} /\ Uncounted(0, 0)'
      BY <1>3, <2>1 DEF CheckSpurious15, AtCheck15, Irq15, Todo, Uncounted, counters, history
    <3> QED
      BY <3>1 DEF AtEndSlave, Todo
  <2>2. CASE 15 \notin slave
    <3>1. todo' = <<>> /\ master' = {} /\ slave' = {} /\ Uncounted(0, 0)'
      BY <1>3, <2>2 DEF CheckSpurious15, AtCheck15, Irq15, Uncounted, IrqInv, IrqTypeOK, counters, history
    <3> QED
      BY <3>1 DEF AtEnd, Todo
  <2> QED
    BY <2>1, <2>2
<1> QED
  BY <1>1, <1>2, <1>4 DEF IrqInv, InHandler, Remapped, CheckSpurious15

(* the end of an interrupt, *)
LEMMA EndKeeps ==
  ASSUME NEW startup, StartsWithRemap(startup), IrqInv(startup),
         NEW chip \in Chips, EndOfInterrupt(chip)
  PROVE  IrqInv(startup)'
<1>1. IrqTypeOK'
  BY DEF EndOfInterrupt, IrqInv, IrqTypeOK, counters, history
<1>2. InHandler /\ Remapped
  BY NotInBoot, InHandlerAt DEF EndOfInterrupt, At, IrqInv, InMain, Cascading
<1>3. \A a, b \in {0, 1} : Uncounted(a, b)' <=> Uncounted(a, b)
  BY DEF EndOfInterrupt, Uncounted, counters, history
<1>4. CASE chip = "master" /\ AtEndMaster
  <2>1. todo' = <<>> /\ master' = {} /\ slave' = {}
    BY <1>4, EoiOfOne DEF AtEndMaster, EndOfInterrupt, SetInService, InService, Todo
  <2>2. AtEnd'
    BY <1>3, <1>4, <2>1 DEF AtEnd, AtEndMaster, Todo
  <2> QED
    BY <1>1, <1>2, <2>2 DEF IrqInv, InHandler, Remapped, EndOfInterrupt
<1>5. CASE chip = "master" /\ AtEndBoth
  <2>1. todo' = <<EndSlave>> /\ master' = {} /\ slave' = slave
    BY <1>5, EoiOfOne DEF AtEndBoth, EndOfInterrupt, SetInService, InService, Todo, Cascade
  <2>2. AtEndSlave'
    BY <1>3, <1>5, <2>1 DEF AtEndSlave, AtEndBoth, Todo
  <2> QED
    BY <1>1, <1>2, <2>2 DEF IrqInv, InHandler, Remapped, EndOfInterrupt
<1>6. CASE chip = "master" /\ AtEndThenCheck
  <2>1. todo' = <<IsSpurious(15), EndSlave>> /\ master' = {} /\ slave' = slave
    BY <1>6, EoiOfOne DEF AtEndThenCheck, EndOfInterrupt, SetInService, InService, Todo, Cascade
  <2>2. AtCheck15'
    BY <1>3, <1>6, <2>1 DEF AtCheck15, AtEndThenCheck, Irq15, Todo
  <2> QED
    BY <1>1, <1>2, <2>2 DEF IrqInv, InHandler, Remapped, EndOfInterrupt
<1>7. CASE chip = "slave" /\ AtEndSlave
  <2>1. todo' = <<>> /\ master' = {} /\ slave' = {}
    BY <1>7, EoiOfOne DEF AtEndSlave, EndOfInterrupt, SetInService, InService, Todo
  <2>2. AtEnd'
    BY <1>3, <1>7, <2>1 DEF AtEnd, AtEndSlave, Todo
  <2> QED
    BY <1>1, <1>2, <2>2 DEF IrqInv, InHandler, Remapped, EndOfInterrupt
<1> QED
  BY <1>2, <1>4, <1>5, <1>6, <1>7, MomentOfEnd DEF EndOfInterrupt

(* and the return, which finds nothing left in service. *)
LEMMA IretKeeps ==
  ASSUME NEW startup, IrqInv(startup), Iret
  PROVE  IrqInv(startup)'
<1>1. InHandler /\ Remapped
  BY InHandlerAt DEF Iret
<1>2. AtEnd
  BY <1>1 DEF Iret, InHandler, AtDevice, AtEndMaster, AtCheck7, AtEndBoth, AtEndSlave,
     AtEndThenCheck, AtCheck15, Todo
<1> QED
  BY <1>1, <1>2
  DEF AtEnd, Iret, IrqInv, IrqTypeOK, InMain, Remapped, Uncounted, counters, history

-----------------------------------------------------------------------------
(* A request that is raised or withdrawn changes nothing of this.          *)
LEMMA RequestKeeps ==
  ASSUME NEW startup, IrqInv(startup), irr' \subseteq (0 .. 15) \ {Cascade},
         UNCHANGED <<master, slave, pic, cpu, todo, counters, spurious>>
  PROVE  IrqInv(startup)'
<1>1. IrqTypeOK'
  BY DEF IrqInv, IrqTypeOK, counters
<1>2. /\ Booting(startup)' <=> Booting(startup)
      /\ Remapped' <=> Remapped
      /\ InMain' <=> InMain
      /\ Cascading' <=> Cascading
      /\ InHandler' <=> InHandler
  <2>1. /\ cpu' = cpu /\ todo' = todo /\ master' = master /\ slave' = slave /\ pic' = pic
        /\ sys_spurious_irqs7' = sys_spurious_irqs7 /\ sys_spurious_irqs15' = sys_spurious_irqs15
        /\ spurious' = spurious
    BY DEF counters
  <2> QED
    BY <2>1 DEF Booting, Remapped, InMain, Cascading, InHandler, AtEnd, AtDevice, AtEndMaster,
       AtCheck7, AtEndBoth, AtEndSlave, AtEndThenCheck, AtCheck15, Irq15, Todo, Uncounted
<1> QED
  BY <1>1, <1>2 DEF IrqInv

(* All that the interrupt controllers and the processor do, *)
LEMMA InterruptKeeps ==
  ASSUME NEW startup, StartsWithRemap(startup), IrqInv(startup), Interrupt
  PROVE  IrqInv(startup)'
BY TakeKeeps, AcknowledgeMasterKeeps, SpuriousMasterKeeps, AcknowledgeSlaveKeeps,
   SpuriousSlaveKeeps, Check7Keeps, Check15Keeps, IretKeeps DEF Interrupt

(* and all port accesses of startup and of the handlers. *)
LEMMA PortAccessKeeps ==
  ASSUME NEW startup, StartsWithRemap(startup), IrqInv(startup), PortAccess
  PROVE  IrqInv(startup)'
BY InitializeKeeps, EndKeeps, ProgramKeeps DEF PortAccess

(* What the firmware leaves satisfies the invariant. *)
LEMMA IrqInitInv ==
  ASSUME NEW startup, StartsWithRemap(startup), IrqInit(startup)
  PROVE  IrqInv(startup)
<1>1. IrqTypeOK
  BY DEF IrqInit, IrqTypeOK
<1>2. Len(startup) \in Nat /\ startup \in Seq(Writes)
  BY LenProperties DEF StartsWithRemap
<1>3. Todo(SubSeq(startup, 0 + 1, Len(startup)))
  BY <1>2, SubSeqFull DEF IrqInit, Todo
<1>4. pic = PicAfter(0)
  BY DEF IrqInit, PicAfter, Both, ChipAfter, Registers, Cascade
<1>5. Booting(startup)
  BY <1>2, <1>3, <1>4 DEF IrqInit, Booting, Uncounted, Chips
<1> QED
  BY <1>1, <1>5 DEF IrqInv

-----------------------------------------------------------------------------
(* What it all is for.                                                     *)

(* What the invariant says between handlers. *)
LEMMA InvNothingInService ==
  ASSUME NEW startup, IrqInv(startup)
  PROVE  NothingInService /\ SpuriousCounted
BY DEF IrqInv, IrqTypeOK, Booting, InMain, Cascading, InHandler, Uncounted, NothingInService,
   SpuriousCounted

(* A step takes a request by the handler of its line, or takes none.       *)
TakesRightly ==
  \A l \in irr \ irr' :
    cpu \in {"inta1", "inta2"} /\ cpu' # cpu => cpu' = "handler" /\ todo' = Handler(32 + l)

(* A request that the first controller acknowledges is taken by the handler *)
(* of its line, *)
LEMMA MasterTakesRightly ==
  ASSUME NEW startup, IrqInv(startup), AcknowledgeMaster
  PROVE  TakesRightly
<1>1. irr' = irr \ {Min(MasterReady)} /\ Cascade \notin irr
  BY DEF AcknowledgeMaster, IrqInv, IrqTypeOK
<1>2. CASE Min(MasterReady) = Cascade
  BY <1>1, <1>2 DEF TakesRightly
<1>3. CASE Min(MasterReady) # Cascade
  BY <1>1, <1>3, MasterAnswers DEF TakesRightly
<1> QED
  BY <1>2, <1>3

(* one of the second as well, *)
LEMMA SlaveTakesRightly ==
  ASSUME NEW startup, IrqInv(startup), AcknowledgeSlave
  PROVE  TakesRightly
<1>1. irr' = irr \ {Min(SlaveReady)}
  BY DEF AcknowledgeSlave
<1> QED
  BY <1>1, SlaveAnswers DEF TakesRightly

(* and no other step takes one. *)
LEMMA InterruptTakesRightly ==
  ASSUME NEW startup, IrqInv(startup), Interrupt
  PROVE  TakesRightly
<1>1. CASE AcknowledgeMaster
  BY <1>1, MasterTakesRightly
<1>2. CASE AcknowledgeSlave
  BY <1>2, SlaveTakesRightly
<1>3. CASE ~AcknowledgeMaster /\ ~AcknowledgeSlave
  BY <1>3 DEF Interrupt, TakeInterrupt, SpuriousMaster, SpuriousSlave, SpuriousAnswer,
     CheckSpurious7, CheckSpurious15, Iret, TakesRightly
<1> QED
  BY <1>1, <1>2, <1>3

(* No other step leaves the acknowledgement of an interrupt.               *)
LEMMA OthersTakeNone ==
  ASSUME cpu' = cpu \/ cpu \notin {"inta1", "inta2"}
  PROVE  TakesRightly
BY DEF TakesRightly
=============================================================================
