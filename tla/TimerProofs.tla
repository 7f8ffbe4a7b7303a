------------------------------ MODULE TimerProofs ------------------------------
(***************************************************************************)
(* Theorems about the specification of module Timer: those of the          *)
(* interrupt controllers, whose steps module IrqProofs proves, and that    *)
(* usleep waits for the ticks it counts.                                   *)
(*                                                                         *)
(* Nothing in usleep keeps kerneltimer from passing the count that the     *)
(* loop waits for: that no tick is missed and none comes twice between two *)
(* looks at it follows from the invariant TickInv, which follows a tick    *)
(* from the request over the acknowledgement to isr32, and relates what is *)
(* still under way to kerneltimer, elapsed and us.  How long that takes    *)
(* depends on when in a period kerneltimer is reset (PhaseInv).            *)
(***************************************************************************)
EXTENDS Timer, IrqProofs, NumbersProofs

Startup == remap_irqs \o init_timer

Channel(access, half, count) == [access |-> access, half |-> half, count |-> count]

(* The 8254 when startup has so many writes left. *)
PitBefore(left) ==
  IF left >= 2 THEN Channel(3, "low", 0)
  ELSE IF left = 1 THEN Channel(3, "high", 119) ELSE Channel(3, "low", 119)

PitInv == pit = PitBefore(IF cpu = "boot" THEN Len(todo) ELSE 0)

AtTick == cpu = "handler" /\ todo = <<Device(0), EndMaster>>

(* The tick that isr32 has not counted yet. *)
Due == IF 0 \in irr \/ AtTick THEN 1 ELSE 0

TickInv ==
  /\ 0 \in irr \/ AtTick => ~rested
  /\ AtTick => 0 \notin irr
  /\ kerneltimer \in Int /\ us \in Int /\ elapsed \in Int /\ rested \in BOOLEAN
  /\ pc \in {"shell", "reset", "loop", "done"} /\ (cpu = "boot" => pc = "shell")
  /\ pc # "shell" => asked \in Arguments /\ us = ticksOf(atoi(Decimal(asked)))
  /\ pc = "loop" => /\ elapsed = kerneltimer + Due
                    /\ 0 <= kerneltimer /\ kerneltimer + Due <= us
                    /\ rested => kerneltimer < us
  /\ pc = "done" => elapsed = us

(* The first tick that usleep counts comes within a period. *)
PhaseInv == pc \in {"loop", "done"} => phase \in 1 .. 119

TimerInv == IrqInv(Startup) /\ PitInv /\ TickInv /\ PhaseInv

-----------------------------------------------------------------------------
(* startup makes the ten writes of remap_irqs and the three of init_timer. *)
LEMMA StartupWrites ==
  /\ Len(Startup) = 13
  /\ \A i \in 1 .. 10 : Startup[i] = remap_irqs[i]
  /\ \A i \in 11 .. 13 : Startup[i] = init_timer[i - 10]
  /\ StartsWithRemap(Startup)
<1>1. remap_irqs \in Seq(Writes) /\ Len(remap_irqs) = 10
  BY DEF remap_irqs, Command, Data, Writes, Chips, ICW1, Cascade
<1>2. init_timer \in Seq(Writes) /\ Len(init_timer) = 3
  BY DEF init_timer, Pit, Writes
<1>3. /\ Startup \in Seq(Writes)
      /\ Len(Startup) = Len(remap_irqs) + Len(init_timer)
      /\ \A i \in 1 .. Len(remap_irqs) + Len(init_timer) :
           Startup[i] = IF i <= Len(remap_irqs) THEN remap_irqs[i]
                        ELSE init_timer[i - Len(remap_irqs)]
  BY <1>1, <1>2, ConcatProperties DEF Startup
<1>4. \A i \in 1 .. 10 : Startup[i] = remap_irqs[i]
  BY <1>1, <1>2, <1>3
<1>5. \A i \in 11 .. 13 : Startup[i] = init_timer[i - 10]
  BY <1>1, <1>2, <1>3
<1>6. \A i \in 11 .. 13 : Startup[i][1] = "pit"
  BY <1>5 DEF init_timer, Pit
<1> QED
  BY <1>1, <1>2, <1>3, <1>4, <1>5, <1>6 DEF StartsWithRemap

(* How far startup is.                                                     *)
LEMMA BootMoment ==
  ASSUME IrqInv(Startup), cpu = "boot"
  PROVE  \E k \in 0 .. 13 :
           /\ todo = SubSeq(Startup, k + 1, 13)
           /\ pic = PicAfter(k)
           /\ Len(todo) = 13 - k
           /\ todo # <<>> => /\ k < 13
                             /\ Head(todo) = Startup[k + 1]
                             /\ Tail(todo) = SubSeq(Startup, k + 2, 13)
                             /\ Len(Tail(todo)) = 12 - k
<1>1. Booting(Startup)
  BY DEF IrqInv, InMain, Cascading, InHandler
<1>2. Len(Startup) = 13 /\ Startup \in Seq(Writes) /\ StartsWithRemap(Startup)
  BY StartupWrites DEF StartsWithRemap
<1>3. PICK k \in 0 .. 13 : Todo(SubSeq(Startup, k + 1, 13)) /\ pic = PicAfter(k)
  BY <1>1, <1>2 DEF Booting
<1>4. Len(todo) = 13 - k
  <2>1. CASE k < 13
    BY <1>2, <1>3, <2>1, SubSeqProperties DEF Todo
  <2>2. CASE k = 13
    BY <1>2, <1>3, <2>2, SubSeqEmpty DEF Todo
  <2> QED
    BY <2>1, <2>2
<1>5. ASSUME todo # <<>>
      PROVE  /\ k < 13 /\ Head(todo) = Startup[k + 1]
             /\ Tail(todo) = SubSeq(Startup, k + 2, 13)
  BY <1>2, <1>3, <1>5, BootRest
<1>6. k < 13 => Len(SubSeq(Startup, k + 2, 13)) = 12 - k
  <2>1. CASE k < 12
    BY <1>2, <2>1, SubSeqProperties
  <2>2. CASE k = 12
    <3>1. SubSeq(Startup, k + 2, 13) = <<>>
      BY <2>2, SubSeqEmpty
    <3> QED
      BY <2>2, <3>1
  <2> QED
    BY <2>1, <2>2
<1> QED
  BY <1>3, <1>4, <1>5, <1>6 DEF Todo

-----------------------------------------------------------------------------
(* The interrupt controllers.                                              *)

(* Programming the 8254 does not concern the 8259s; *)
LEMMA WriteTimerKeepsIrq ==
  ASSUME IrqInv(Startup), WriteTimer
  PROVE  IrqInv(Startup)'
<1>1. IrqTypeOK'
  BY DEF WriteTimer, IrqInv, IrqTypeOK, counters, history
<1>2. Booting(Startup)
  BY DEF WriteTimer, IrqInv, InMain, Cascading, InHandler
<1>3. PICK k \in 0 .. 13 :
           /\ pic = PicAfter(k)
           /\ todo # <<>> => /\ k < 13
                             /\ Head(todo) = Startup[k + 1]
                             /\ Tail(todo) = SubSeq(Startup, k + 2, 13)
  BY BootMoment DEF WriteTimer
<1>4. k \in 10 .. 12
  <2>1. k \in 0 .. 12 /\ Startup[k + 1][1] = "pit"
    BY <1>3 DEF WriteTimer
  <2>2. k + 1 \in 1 .. 10 => Startup[k + 1] = remap_irqs[k + 1]
    BY StartupWrites
  <2>3. k + 1 \in 1 .. 10 => remap_irqs[k + 1][1] # "pit"
    BY SMT DEF remap_irqs, Command, Data
  <2> QED
    BY <2>1, <2>2, <2>3
<1>5. pic' = PicAfter(k + 1)
  <2>1. ChipAfter(k + 1, 8, 32, 4) = ChipAfter(k, 8, 32, 4)
    BY <1>4, OtherWaits
  <2>2. ChipAfter((k - 1) + 1, 112, 40, Cascade) = ChipAfter(k - 1, 112, 40, Cascade)
    BY <1>4, OtherWaits
  <2>3. (k + 1) - 1 = (k - 1) + 1
    BY <1>4
  <2> QED
    BY <1>3, <2>1, <2>2, <2>3 DEF PicAfter, WriteTimer
<1>6. Len(Startup) = 13
  BY StartupWrites
<1>7. Todo(SubSeq(Startup, (k + 1) + 1, Len(Startup)))' /\ k + 1 \in 0 .. Len(Startup)
  BY <1>3, <1>4, <1>6 DEF Todo, WriteTimer
<1> QED
  BY <1>1, <1>2, <1>5, <1>7 DEF IrqInv, Booting, WriteTimer, Uncounted, counters, history

(* neither do usleep, the shell and the requests of the devices, *)
LEMMA OthersKeepIrq ==
  ASSUME IrqInv(Startup), Others
  PROVE  IrqInv(Startup)' /\ TakesRightly
<1>0. StartsWithRemap(Startup) /\ Lines \subseteq (0 .. 15) \ {Cascade}
  BY StartupWrites, IrqAssumption DEF Cascade
<1>1. irr \subseteq (0 .. 15) \ {Cascade}
  BY DEF IrqInv, IrqTypeOK
<1>2. ASSUME NEW l \in Lines \ {0}, Raise(l) PROVE IrqInv(Startup)' /\ TakesRightly
  BY <1>0, <1>1, <1>2, RequestKeeps DEF Raise, TakesRightly
<1>3. ASSUME NEW l \in Lines \ {0}, Withdraw(l) PROVE IrqInv(Startup)' /\ TakesRightly
  BY <1>0, <1>1, <1>3, RequestKeeps DEF Withdraw, TakesRightly, history
<1>4. ASSUME NEW l \in Lines \ {0}, UseDevice(l), UNCHANGED irr
      PROVE  IrqInv(Startup)' /\ TakesRightly
  BY <1>0, <1>1, <1>4, UseDeviceKeeps DEF TakesRightly
<1>5. ASSUME Interrupt PROVE IrqInv(Startup)' /\ TakesRightly
  BY <1>0, <1>5, InterruptKeeps, InterruptTakesRightly
<1>6. ASSUME PortAccess PROVE IrqInv(Startup)' /\ TakesRightly
  <2>1. cpu' = cpu
    BY <1>6 DEF PortAccess, Initialize, EndOfInterrupt, ProgramChip
  <2> QED
    BY <1>0, <1>6, <2>1, PortAccessKeeps, OthersTakeNone
<1>7. ASSUME sti PROVE IrqInv(Startup)' /\ TakesRightly
  BY <1>0, <1>7, StiKeeps, OthersTakeNone DEF sti
<1> QED
  BY <1>2, <1>3, <1>4, <1>5, <1>6, <1>7 DEF Others

(* so that every step of the composition keeps their invariant. *)
LEMMA NextKeepsIrq ==
  ASSUME IrqInv(Startup), [Next]_vars
  PROVE  IrqInv(Startup)' /\ TakesRightly
<1>1. irr \subseteq (0 .. 15) \ {Cascade} /\ StartsWithRemap(Startup)
  BY StartupWrites DEF IrqInv, IrqTypeOK
<1>2. CASE Tick
  BY <1>1, <1>2, RequestKeeps DEF Tick, TakesRightly, history, Cascade
<1>3. CASE isr32
  BY <1>1, <1>3, UseDeviceKeeps, OthersTakeNone DEF isr32, UseDevice
<1>4. CASE WriteTimer
  BY <1>4, WriteTimerKeepsIrq, OthersTakeNone DEF WriteTimer
<1>5. CASE sleep \/ usleep \/ Shell
  BY <1>1, <1>5, RequestKeeps
  DEF sleep, usleep, ResetTimer, Loop, LeaveLoop, Shell, Main, TakesRightly, irqVars, history
<1>6. CASE Others
  BY <1>6, OthersKeepIrq
<1>7. CASE UNCHANGED vars
  BY <1>1, <1>7, RequestKeeps DEF vars, TakesRightly, irqVars, history
<1> QED
  BY <1>2, <1>3, <1>4, <1>5, <1>6, <1>7 DEF Next

(***************************************************************************)
(* What module Irq says of its handlers, of the whole specification: every *)
(* moment of every handler is one of those that IrqInv lists.              *)
(***************************************************************************)
THEOREM TimerIrqInvariant == Spec => []IrqInv(Startup)
<1>1. Init => IrqInv(Startup)
  BY StartupWrites, IrqInitInv DEF Init, Startup
<1>2. IrqInv(Startup) /\ [Next]_vars => IrqInv(Startup)'
  BY NextKeepsIrq
<1> QED
  BY <1>1, <1>2, PTL DEF Spec

(***************************************************************************)
(* Between handlers no line is in service: isr32 to isr47 end exactly the  *)
(* interrupts that were acknowledged for them, also spurious ones.         *)
(***************************************************************************)
THEOREM TimerNothingInService == Spec => []NothingInService
<1>1. IrqInv(Startup) => NothingInService
  BY InvNothingInService
<1> QED
  BY <1>1, TimerIrqInvariant, PTL

(***************************************************************************)
(* sys_spurious_irqs7 and 15 count what is spurious and nothing else.      *)
(***************************************************************************)
THEOREM TimerSpuriousCounted == Spec => []SpuriousCounted
<1>1. IrqInv(Startup) => SpuriousCounted
  BY InvNothingInService
<1> QED
  BY <1>1, TimerIrqInvariant, PTL

(***************************************************************************)
(* Every request is taken by the handler of its line, through the vectors  *)
(* of remap_irqs and the gates of init_interrupts.                         *)
(***************************************************************************)
THEOREM TimerTakenByItsHandler == Spec => TakenByItsHandler
<1>1. IrqInv(Startup) /\ [Next]_vars => [TakesRightly]_irqVars
  BY NextKeepsIrq
<1>2. TakesRightly => \A l \in irr \ irr' :
                        cpu \in {"inta1", "inta2"} /\ cpu' # cpu =>
                          cpu' = "handler" /\ todo' = Handler(32 + l)
  BY DEF TakesRightly
<1> QED
  BY <1>1, <1>2, TimerIrqInvariant, PTL DEF Spec, TakenByItsHandler

-----------------------------------------------------------------------------
(* The 8254.                                                               *)

(* A write of startup, to whatever it is.                                  *)
LEMMA BootWrite ==
  ASSUME IrqInv(Startup), cpu = "boot", todo # <<>>, todo' = Tail(todo)
  PROVE  \E k \in 0 .. 12 : /\ Head(todo) = Startup[k + 1]
                           /\ Len(todo) = 13 - k /\ Len(todo') = 12 - k
BY BootMoment

(* A write of remap_irqs leaves the 8254 as it is; *)
LEMMA PortAccessOfBoot ==
  ASSUME IrqInv(Startup), PitInv, PortAccess, cpu = "boot", UNCHANGED pit
  PROVE  PitInv'
<1>1. todo # <<>> /\ todo' = Tail(todo) /\ cpu' = "boot" /\ Head(todo)[1] \in {"command", "data"}
  BY DEF PortAccess, Initialize, EndOfInterrupt, ProgramChip, At, Command
<1>2. PICK k \in 0 .. 12 : /\ Head(todo) = Startup[k + 1]
                           /\ Len(todo) = 13 - k /\ Len(todo') = 12 - k
  BY <1>1, BootWrite
<1>3. k < 10
  <2>1. k + 1 \in 11 .. 13 => Startup[k + 1][1] = "pit"
    BY StartupWrites DEF StartsWithRemap
  <2> QED
    BY <1>1, <1>2, <2>1
<1> QED
  BY <1>1, <1>2, <1>3 DEF PitInv, PitBefore

(* one of init_timer brings it one step closer to its period; *)
LEMMA WriteTimerSetsPit ==
  ASSUME IrqInv(Startup), PitInv, WriteTimer
  PROVE  PitInv'
<1>1. todo # <<>> /\ todo' = Tail(todo) /\ cpu = "boot" /\ cpu' = "boot" /\ Head(todo)[1] = "pit"
  BY DEF WriteTimer
<1>2. PICK k \in 0 .. 12 : /\ Head(todo) = Startup[k + 1]
                           /\ Len(todo) = 13 - k /\ Len(todo') = 12 - k
  BY <1>1, BootWrite
<1>3. k \in 10 .. 12 /\ Head(todo) = init_timer[k - 9]
  <2>1. k + 1 \in 1 .. 10 => Startup[k + 1] = remap_irqs[k + 1]
    BY StartupWrites
  <2>2. k + 1 \in 1 .. 10 => remap_irqs[k + 1][1] # "pit"
    BY SMT DEF remap_irqs, Command, Data
  <2>3. k + 1 \in 11 .. 13 => Startup[k + 1] = init_timer[k - 9]
    <3>1. k + 1 \in 11 .. 13 => Startup[k + 1] = init_timer[(k + 1) - 10]
      BY StartupWrites
    <3> QED
      BY <3>1
  <2> QED
    BY <1>1, <1>2, <2>1, <2>2, <2>3
<1>4. PICK p : p = pit
  OBVIOUS
<1>5. pit' = Counting(p, Head(todo)[2], Head(todo)[3])
  BY <1>4 DEF WriteTimer
<1>6. CASE k = 10
  <2>1. Head(todo)[2] = 67 /\ Head(todo)[3] = 52
    BY <1>3, <1>6 DEF init_timer, Pit
  <2>2. p = Channel(3, "low", 0)
    <3>1. Len(todo) = 3
      BY <1>2, <1>6
    <3>2. pit = PitBefore(3)
      BY <1>1, <3>1 DEF PitInv
    <3> QED
      BY <1>4, <3>2 DEF PitBefore
  <2>3. pit' = [p EXCEPT !.access = 3, !.half = "low"]
    <3>1. (52 \div 16) % 4 = 3
      OBVIOUS
    <3> QED
      BY <1>5, <2>1, <3>1 DEF Counting, ControlWord
  <2>4. PICK q : q = [p EXCEPT !.access = 3]
    OBVIOUS
  <2>5. q = Channel(3, "low", 0)
    BY SMT, <2>2, <2>4 DEF Channel
  <2>6. [q EXCEPT !.half = "low"] = Channel(3, "low", 0)
    BY SMT, <2>5 DEF Channel
  <2>7. Len(todo') = 2 /\ pit' = PitBefore(2)
    BY <1>2, <1>6, <2>3, <2>4, <2>6 DEF PitBefore
  <2> QED
    BY <1>1, <2>7 DEF PitInv
<1>7. CASE k = 11
  <2>1. Head(todo)[2] = 64 /\ Head(todo)[3] = 119
    BY <1>3, <1>7 DEF init_timer, Pit
  <2>2. p = Channel(3, "low", 0)
    <3>1. Len(todo) = 2
      BY <1>2, <1>7
    <3>2. pit = PitBefore(2)
      BY <1>1, <3>1 DEF PitInv
    <3> QED
      BY <1>4, <3>2 DEF PitBefore
  <2>3. pit' = [p EXCEPT !.count = 119, !.half = "high"]
    <3>1. p.access = 3 /\ p.half = "low"
      BY <2>2 DEF Channel
    <3>2. pit' = LowByte(p, 119)
      BY <1>5, <2>1, <3>1 DEF Counting
    <3> QED
      BY <3>2 DEF LowByte
  <2>4. PICK q : q = [p EXCEPT !.count = 119]
    OBVIOUS
  <2>5. q = Channel(3, "low", 119)
    BY SMT, <2>2, <2>4 DEF Channel
  <2>6. [q EXCEPT !.half = "high"] = Channel(3, "high", 119)
    BY SMT, <2>5 DEF Channel
  <2>7. Len(todo') = 1 /\ pit' = PitBefore(1)
    BY <1>2, <1>7, <2>3, <2>4, <2>6 DEF PitBefore
  <2> QED
    BY <1>1, <2>7 DEF PitInv
<1>8. CASE k = 12
  <2>1. Head(todo)[2] = 64 /\ Head(todo)[3] = 0
    BY <1>3, <1>8 DEF init_timer, Pit
  <2>2. p = Channel(3, "high", 119)
    <3>1. Len(todo) = 1
      BY <1>2, <1>8
    <3>2. pit = PitBefore(1)
      BY <1>1, <3>1 DEF PitInv
    <3> QED
      BY <1>4, <3>2 DEF PitBefore
  <2>3. PICK c : c = p.count + 256 * 0
    OBVIOUS
  <2>4. c = 119 /\ pit' = [p EXCEPT !.count = c, !.half = "low"]
    <3>1. p.access = 3 /\ p.half = "high" /\ p.count = 119
      BY <2>2 DEF Channel
    <3>2. pit' = HighByte(p, 0)
      BY <1>5, <2>1, <3>1 DEF Counting
    <3> QED
      BY <2>3, <3>1, <3>2 DEF HighByte
  <2>5. PICK q : q = [p EXCEPT !.count = 119]
    OBVIOUS
  <2>6. q = Channel(3, "high", 119)
    BY SMT, <2>2, <2>5 DEF Channel
  <2>7. [q EXCEPT !.half = "low"] = Channel(3, "low", 119)
    BY SMT, <2>6 DEF Channel
  <2>8. Len(todo') = 0 /\ pit' = PitBefore(0)
    BY <1>2, <1>8, <2>4, <2>5, <2>7 DEF PitBefore
  <2> QED
    BY <1>1, <2>8 DEF PitInv
<1> QED
  BY <1>3, <1>6, <1>7, <1>8

(* and nothing else writes to it. *)
LEMMA NextKeepsPit ==
  ASSUME IrqInv(Startup), PitInv, [Next]_vars
  PROVE  PitInv'
<1>1. CASE WriteTimer
  BY <1>1, WriteTimerSetsPit
<1>2. CASE Others /\ UNCHANGED timerVars
  <2>1. pit' = pit
    BY <1>2 DEF timerVars
  <2>2. CASE PortAccess /\ cpu = "boot"
    BY <2>1, <2>2, PortAccessOfBoot
  <2>3. CASE PortAccess /\ cpu # "boot"
    BY <2>1, <2>3 DEF PortAccess, Initialize, EndOfInterrupt, ProgramChip, PitInv
  <2>4. CASE sti
    <3>1. Len(todo) = 0
      BY <2>4 DEF sti
    <3> QED
      BY <2>1, <2>4, <3>1 DEF sti, PitInv
  <2>5. CASE Interrupt
    <3>1. cpu # "boot" /\ cpu' # "boot"
      <4>1. StartsWithRemap(Startup)
        BY StartupWrites
      <4> QED
        BY <2>5, <4>1, NotInBoot DEF Interrupt, TakeInterrupt, AcknowledgeMaster, AcknowledgeSlave,
           SpuriousMaster, SpuriousSlave, SpuriousAnswer, Enter, CheckSpurious7, CheckSpurious15,
           Iret, At, IrqInv, InMain, Cascading, InHandler
    <3> QED
      BY <2>1, <3>1 DEF PitInv
  <2>6. CASE \E l \in Lines \ {0} : Raise(l) \/ Withdraw(l)
    BY <2>1, <2>6 DEF Raise, Withdraw, PitInv
  <2>7. CASE \E l \in Lines \ {0} : UseDevice(l)
    <3>1. StartsWithRemap(Startup)
      BY StartupWrites
    <3>2. cpu # "boot" /\ cpu' = cpu
      BY <2>7, <3>1, NotInBoot DEF UseDevice, At, IrqInv, InMain, Cascading, InHandler
    <3> QED
      BY <2>1, <3>2 DEF PitInv
  <2> QED
    BY <1>2, <2>2, <2>3, <2>4, <2>5, <2>6, <2>7 DEF Others
<1>3. CASE isr32
  <2>1. StartsWithRemap(Startup)
    BY StartupWrites
  <2>2. cpu # "boot" /\ cpu' = cpu
    BY <1>3, <2>1, NotInBoot DEF isr32, UseDevice, At, IrqInv, InMain, Cascading, InHandler
  <2> QED
    BY <1>3, <2>2 DEF isr32, PitInv
<1>4. CASE Tick
  BY <1>4 DEF Tick, PitInv
<1>5. CASE sleep \/ usleep \/ Shell
  BY <1>5 DEF sleep, usleep, ResetTimer, Loop, LeaveLoop, Shell, Main, irqVars, PitInv
<1>6. CASE UNCHANGED vars
  BY <1>6 DEF vars, irqVars, timerVars, PitInv
<1> QED
  BY <1>1, <1>2, <1>3, <1>4, <1>5, <1>6 DEF Next

-----------------------------------------------------------------------------
(* A tick on its way to kerneltimer.                                       *)

(* usleep computes a number of periods that is less than half of the *)
(* counter's range. *)
LEMMA PeriodOf ==
  ASSUME NEW n \in Arguments
  PROVE  ticksOf(atoi(Decimal(n))) \in 1 .. (Ticks \div 2 - 1)
<1>1. PICK u : u = n % Word
  OBVIOUS
<1>2. u \in 0 .. (Word - 1) /\ atoi(Decimal(n)) = u
  BY <1>1, NumbersAssumption, TimerAssumption, AtoiReadsDecimal
<1>3. Signed(u) < Word \div 2 /\ Signed(u) \in Int
  BY <1>2, NumbersAssumption DEF Signed
<1>4. PICK v : v = IF Signed(u) < 100 THEN 100 ELSE Signed(u)
  OBVIOUS
<1>5. v \in Nat /\ v >= 100 /\ (v = 100 \/ v < Word \div 2)
  BY <1>3, <1>4
<1>6. v \div 100 >= 1 /\ v \div 100 \in Nat /\ (v \div 100 = 1 \/ v \div 100 <= Word \div 200)
  BY <1>5, NumbersAssumption
<1>7. v \div 100 <= Ticks \div 2 - 1
  BY <1>6, TimerAssumption, NumbersAssumption
<1> QED
  BY <1>2, <1>4, <1>6, <1>7, TimerAssumption DEF ticksOf, TickUs

(* When main runs, no tick is left to count.                               *)
LEMMA MainSeesNoTick ==
  ASSUME IrqInv(Startup), cpu = "main", MasterReady = {}
  PROVE  0 \notin irr
<1>1. Remapped /\ master = {}
  BY DEF IrqInv, Booting, InMain, Cascading, InHandler
<1>2. ~Masked("master", 0)
  <2>1. (0 \div 2^(0 % 8)) % 2 = 0
    <3>1. 2^(0 % 8) = 1
      OBVIOUS
    <3> QED
      BY <3>1
  <2> QED
    BY <1>1, <2>1 DEF Masked, Has, Remapped
<1> QED
  BY <1>1, <1>2 DEF MasterReady, LinesOf, Ahead

Underway == 0 \in irr \/ AtTick

(* A step that neither makes a tick nor counts one keeps TickInv, if no tick *)
(* is overlooked by it. *)
LEMMA TickStays ==
  ASSUME TickInv, UNCHANGED timerVars,
         cpu' = "boot" => cpu = "boot",
         Underway' => Underway,
         pc # "shell" => (Underway => Underway'),
         AtTick' => 0 \notin irr'
  PROVE  TickInv'
<1>1. /\ kerneltimer' = kerneltimer /\ pc' = pc /\ us' = us /\ asked' = asked
      /\ elapsed' = elapsed /\ rested' = rested
  BY DEF timerVars
<1>2. pc # "shell" => Due' = Due
  BY DEF Due, Underway
<1> QED
  BY <1>1, <1>2 DEF TickInv, Underway

(* A handler comes to isr32's access only at its beginning.                *)
LEMMA NoTickAhead ==
  ASSUME InHandler, todo' = Tail(todo) \/ todo' = <<>>
  PROVE  ~AtTick'
<1>1. todo' # <<Device(0), EndMaster>>
  <2>1. CASE todo' = <<>>
    BY <2>1
  <2>2. CASE todo' = Tail(todo) /\ AtEnd
    BY <2>2 DEF AtEnd, Todo
  <2>3. CASE todo' = Tail(todo) /\ AtDevice
    BY <2>3 DEF AtDevice, Todo, Device, EndMaster, Command, EOI
  <2>4. CASE todo' = Tail(todo) /\ (AtEndMaster \/ AtEndSlave)
    BY <2>4 DEF AtEndMaster, AtEndSlave, Todo
  <2>5. CASE todo' = Tail(todo) /\ (AtCheck7 \/ AtEndBoth \/ AtCheck15)
    BY <2>5 DEF AtCheck7, AtEndBoth, AtCheck15, Todo
  <2>6. CASE todo' = Tail(todo) /\ AtEndThenCheck
    BY <2>6 DEF AtEndThenCheck, Todo, Device, IsSpurious, Command, EndMaster, EndSlave
  <2> QED
    BY <2>1, <2>2, <2>3, <2>4, <2>5, <2>6 DEF InHandler
<1> QED
  BY <1>1 DEF AtTick

(* The handlers whose first access is not isr32's.                         *)
LEMMA OnlyIsr32 ==
  ASSUME NEW l \in 1 .. 15
  PROVE  Handler(32 + l) # <<Device(0), EndMaster>>
<1>1. CASE l \in {1, 6}
  <2>1. Handler(32 + l)[1] = Device(l)
    BY <1>1 DEF Handler
  <2> QED
    BY <1>1, <2>1 DEF Device
<1>2. CASE l \in 2 .. 5
  <2>1. Handler(32 + l) = <<Command("master", EOI)>>
    BY <1>2 DEF Handler
  <2> QED
    BY <2>1
<1>3. CASE l \in 7 .. 15 \ {15}
  <2>1. Handler(32 + l)[1] = IsSpurious(7) \/ Handler(32 + l)[1] = Command("master", EOI)
    BY <1>3 DEF Handler
  <2> QED
    BY <2>1 DEF Device, IsSpurious, Command
<1>4. CASE l = 15
  <2>1. Handler(32 + l)[1] = Command("master", EOI)
    BY <1>4 DEF Handler
  <2> QED
    BY <2>1 DEF Device, Command
<1> QED
  BY <1>1, <1>2, <1>3, <1>4

(* The acknowledgement takes a tick from the request to isr32; *)
LEMMA InterruptKeepsTick ==
  ASSUME IrqInv(Startup), TickInv, Interrupt, UNCHANGED timerVars
  PROVE  TickInv'
<1>0. StartsWithRemap(Startup)
  BY StartupWrites
<1>1. CASE TakeInterrupt
  BY <1>1, TickStays DEF TakeInterrupt, Underway, AtTick
<1>2. CASE AcknowledgeMaster
  <2>1. PICK l : l = Min(MasterReady)
    OBVIOUS
  <2>2. l \in 0 .. 7 /\ irr' = irr \ {l} /\ cpu = "inta1" /\ (l = 0 => 0 \in irr)
    <3>1. l \in MasterReady
      <4>1. MasterReady \subseteq 0 .. 7 /\ MasterReady # {} /\ 0 \in Nat /\ 7 \in Nat /\ 7 <= 0 + 7
        BY <1>2 DEF AcknowledgeMaster, MasterReady, LinesOf, Cascade
      <4> QED
        BY Zenon, <2>1, <4>1, MinIsLeast
    <3>2. l = 0 => 0 \in irr
      BY <3>1 DEF MasterReady, Cascade
    <3> QED
      BY <1>2, <2>1, <3>2, MasterLine DEF AcknowledgeMaster
  <2>3. CASE l = 0
    <3>1. cpu' = "handler" /\ todo' = Handler(32 + 0)
      BY <1>2, <2>1, <2>3, MasterAnswers DEF Cascade
    <3>2. AtTick'
      BY <3>1 DEF AtTick, Handler, EndMaster
    <3> QED
      BY <2>2, <2>3, <3>1, <3>2, TickStays DEF Underway, AtTick
  <2>4. CASE l = Cascade
    BY <1>2, <2>1, <2>2, <2>4, TickStays DEF AcknowledgeMaster, Underway, AtTick, Cascade
  <2>5. CASE l # 0 /\ l # Cascade
    <3>1. cpu' = "handler" /\ todo' = Handler(32 + l)
      BY <1>2, <2>1, <2>5, MasterAnswers
    <3>2. ~AtTick'
      BY <2>2, <2>5, <3>1, OnlyIsr32 DEF AtTick
    <3> QED
      BY <2>2, <2>5, <3>1, <3>2, TickStays DEF Underway, AtTick
  <2> QED
    BY <2>3, <2>4, <2>5
<1>3. CASE AcknowledgeSlave
  <2>1. Min(SlaveReady) \in 8 .. 15 /\ irr' = irr \ {Min(SlaveReady)} /\ cpu = "inta2"
    BY <1>3, SlaveLine DEF AcknowledgeSlave
  <2>2. ~AtTick'
    <3>1. Min(SlaveReady) - 0 \in 1 .. 15 /\ todo' = Handler(32 + Min(SlaveReady))
      BY <1>3, <2>1, SlaveAnswers
    <3> QED
      BY <2>1, <3>1, OnlyIsr32 DEF AtTick
  <2> QED
    BY <1>3, <2>1, <2>2, TickStays, SlaveAnswers DEF Underway, AtTick
<1>4. CASE SpuriousMaster \/ SpuriousSlave
  <2>1. cpu' = "handler" /\ (todo' = Handler(32 + 7) \/ todo' = Handler(32 + 15))
    <3>1. Remapped
      BY <1>4 DEF SpuriousMaster, SpuriousSlave, IrqInv, Booting
    <3>2. Vector("master", 7) = 39 /\ Vector("slave", 7) = 47
      BY <3>1, VectorOfLine
    <3>3. Enter(39) \/ Enter(47)
      BY <1>4, <3>2 DEF SpuriousMaster, SpuriousSlave, SpuriousAnswer
    <3> QED
      BY <3>3, Entered
  <2>2. ~AtTick'
    BY <2>1, OnlyIsr32 DEF AtTick
  <2> QED
    BY <1>4, <2>1, <2>2, TickStays
    DEF SpuriousMaster, SpuriousSlave, SpuriousAnswer, Underway, AtTick
<1>5. CASE CheckSpurious7 \/ CheckSpurious15
  <2>1. cpu = "handler" /\ cpu' = cpu /\ irr' = irr /\ (todo' = Tail(todo) \/ todo' = <<>>)
    BY <1>0, <1>5, NotInBoot DEF CheckSpurious7, CheckSpurious15, At, IrqInv, InMain, Cascading, InHandler
  <2>2. InHandler
    BY <2>1, InHandlerAt
  <2>3. ~AtTick /\ ~AtTick'
    BY <1>5, <2>1, <2>2, NoTickAhead DEF CheckSpurious7, CheckSpurious15, At, AtTick, Device, IsSpurious
  <2> QED
    BY <2>1, <2>3, TickStays DEF Underway
<1>6. CASE Iret
  BY <1>6, TickStays DEF Iret, Underway, AtTick
<1> QED
  BY <1>1, <1>2, <1>3, <1>4, <1>5, <1>6 DEF Interrupt

(* an access of a handler to a controller leaves it where it is; *)
LEMMA PortAccessKeepsTick ==
  ASSUME IrqInv(Startup), TickInv, PortAccess, UNCHANGED timerVars
  PROVE  TickInv'
<1>1. cpu' = cpu /\ todo' = Tail(todo) /\ cpu \in {"boot", "handler"} /\ irr' \subseteq irr
  BY DEF PortAccess, Initialize, EndOfInterrupt, ProgramChip, At
<1>2. CASE cpu = "boot"
  BY <1>1, <1>2, TickStays DEF TickInv, Underway, AtTick
<1>3. CASE cpu = "handler"
  <2>1. InHandler
    BY <1>3, InHandlerAt
  <2>2. PICK chip \in Chips : EndOfInterrupt(chip)
    <3>1. \A chip \in Chips : ~ProgramChip(chip)
      BY <1>3 DEF ProgramChip
    <3>2. \A chip \in Chips : ~Initialize(chip)
      BY <2>1 DEF Initialize, At, InHandler, AtEnd, AtDevice, AtEndMaster, AtCheck7, AtEndBoth,
         AtEndSlave, AtEndThenCheck, AtCheck15, Todo, Command, Device, IsSpurious,
         EndMaster, EndSlave, EOI, ICW1
    <3> QED
      BY <3>1, <3>2 DEF PortAccess
  <2>3. irr' = irr /\ ~AtTick
    BY <2>2 DEF EndOfInterrupt, At, AtTick, Device, Command
  <2>4. ~AtTick'
    BY <1>1, <2>1, NoTickAhead
  <2> QED
    BY <1>1, <2>3, <2>4, TickStays DEF Underway
<1> QED
  BY <1>1, <1>2, <1>3

(* isr32 counts it, and usleep looks at the counter only when none is under *)
(* way. *)
LEMMA OthersKeepTick ==
  ASSUME IrqInv(Startup), TickInv, Others, UNCHANGED timerVars
  PROVE  TickInv'
<1>1. CASE Interrupt
  BY <1>1, InterruptKeepsTick
<1>2. CASE PortAccess
  BY <1>2, PortAccessKeepsTick
<1>3. CASE sti
  BY <1>3, TickStays DEF sti, Underway, AtTick
<1>4. ASSUME NEW l \in Lines \ {0}, Raise(l) \/ Withdraw(l)
      PROVE  TickInv'
  <2>1. (0 \in irr' <=> 0 \in irr) /\ cpu' = cpu /\ todo' = todo
    BY <1>4 DEF Raise, Withdraw
  <2>2. (Underway' <=> Underway) /\ (AtTick' <=> AtTick)
    BY <2>1 DEF Underway, AtTick
  <2> QED
    BY <2>1, <2>2, TickStays DEF TickInv
<1>5. ASSUME NEW l \in Lines \ {0}, UseDevice(l), UNCHANGED irr
      PROVE  TickInv'
  <2>1. InHandler
    BY <1>5, StartupWrites, NotInBoot DEF UseDevice, At, IrqInv, InMain, Cascading
  <2>2. ~AtTick'
    BY <1>5, <2>1, NoTickAhead DEF UseDevice
  <2>3. ~AtTick
    BY <1>5 DEF UseDevice, At, AtTick, Device
  <2> QED
    BY <1>5, <2>2, <2>3, TickStays DEF UseDevice, Underway
<1> QED
  BY <1>1, <1>2, <1>3, <1>4, <1>5 DEF Others

(* Every step keeps TickInv. *)
LEMMA NextKeepsTick ==
  ASSUME IrqInv(Startup), TickInv, [Next]_vars
  PROVE  TickInv'
<1>0. pc # "shell" => us \in 1 .. (Ticks \div 2 - 1)
  BY PeriodOf DEF TickInv
<1>1. CASE Others /\ UNCHANGED timerVars
  BY <1>1, OthersKeepTick
<1>2. CASE Tick
  <2>1. 0 \notin irr /\ 0 \in irr' /\ ~AtTick /\ ~AtTick' /\ rested = TRUE /\ rested' = FALSE
    BY <1>2 DEF Tick, TickInv, AtTick
  <2>2. Due = 0 /\ Due' = 1
    BY <2>1 DEF Due
  <2>3. /\ kerneltimer' = kerneltimer /\ pc' = pc /\ us' = us /\ asked' = asked /\ cpu' = cpu
        /\ elapsed' = IF pc = "loop" THEN elapsed + 1 ELSE elapsed
    BY <1>2 DEF Tick
  <2>4. pc = "loop" => elapsed = kerneltimer /\ 0 <= kerneltimer /\ kerneltimer < us
    BY <2>1, <2>2 DEF TickInv
  <2>5. /\ ~rested' /\ rested' \in BOOLEAN /\ (AtTick' => 0 \notin irr')
        /\ kerneltimer' \in Int /\ us' \in Int /\ elapsed' \in Int
    <3>1. ~rested' /\ rested' \in BOOLEAN /\ (AtTick' => 0 \notin irr')
      BY <2>1
    <3>2. kerneltimer' \in Int /\ us' \in Int
      BY <2>3 DEF TickInv
    <3>3. elapsed' \in Int
      BY <2>3 DEF TickInv
    <3> QED
      BY <3>1, <3>2, <3>3
  <2>6. /\ pc' \in {"shell", "reset", "loop", "done"} /\ (cpu' = "boot" => pc' = "shell")
        /\ pc' # "shell" => asked' \in Arguments /\ us' = ticksOf(atoi(Decimal(asked')))
        /\ pc' = "done" => elapsed' = us'
    BY <2>3 DEF TickInv
  <2>7. pc' = "loop" => /\ elapsed' = kerneltimer' + Due'
                       /\ 0 <= kerneltimer' /\ kerneltimer' + Due' <= us'
    BY <2>2, <2>3, <2>4 DEF TickInv
  <2> QED
    BY <2>5, <2>6, <2>7 DEF TickInv
<1>3. CASE isr32
  <2>1. InHandler
    BY <1>3, StartupWrites, NotInBoot DEF isr32, UseDevice, At, IrqInv, InMain, Cascading
  <2>2. AtTick
    BY <1>3, <2>1, MomentOfDevice DEF isr32, UseDevice, AtTick, Todo, InHandler
  <2>3. ~AtTick' /\ irr' = irr /\ 0 \notin irr /\ rested = FALSE
    BY <1>3, <2>1, <2>2, NoTickAhead DEF isr32, UseDevice, TickInv
  <2>4. Due = 1 /\ Due' = 0
    BY <2>2, <2>3 DEF Due
  <2>5. kerneltimer' \in Int /\ (pc = "loop" => kerneltimer' = kerneltimer + 1)
    <3>1. Ticks \div 2 \in Int
      BY TimerAssumption
    <3> QED
      BY <1>0, <1>3, <2>4, <3>1 DEF isr32, TickInv
  <2>6. pc' = pc /\ us' = us /\ asked' = asked /\ elapsed' = elapsed /\ rested' = rested /\ cpu' = cpu
    BY <1>3 DEF isr32, UseDevice
  <2>7. pc = "loop" => elapsed = kerneltimer + 1 /\ 0 <= kerneltimer /\ kerneltimer + 1 <= us
    BY <2>4 DEF TickInv
  <2>8. rested' = FALSE /\ 0 \notin irr'
    BY <2>3, <2>6
  <2>9. ~rested' /\ rested' \in BOOLEAN /\ us' \in Int /\ elapsed' \in Int
    BY <2>6, <2>8 DEF TickInv
  <2>10. /\ pc' \in {"shell", "reset", "loop", "done"} /\ (cpu' = "boot" => pc' = "shell")
         /\ pc' # "shell" => asked' \in Arguments /\ us' = ticksOf(atoi(Decimal(asked')))
         /\ pc' = "done" => elapsed' = us'
    BY <2>6 DEF TickInv
  <2>11. pc' = "loop" => /\ elapsed' = kerneltimer' + Due'
                        /\ 0 <= kerneltimer' /\ kerneltimer' + Due' <= us'
    BY <2>4, <2>5, <2>6, <2>7 DEF TickInv
  <2> QED
    BY <2>3, <2>5, <2>8, <2>9, <2>10, <2>11 DEF TickInv
<1>4. CASE WriteTimer
  <2>1. ~AtTick /\ ~AtTick' /\ irr' = irr /\ cpu' = cpu
    BY <1>4 DEF WriteTimer, AtTick
  <2>2. Due' = Due
    BY <2>1 DEF Due
  <2> QED
    BY <1>4, <2>1, <2>2 DEF WriteTimer, TickInv
<1>5. CASE sleep \/ usleep \/ Shell
  <2>1. cpu = "main" /\ MasterReady = {} /\ cpu' = cpu /\ irr' = irr /\ todo' = todo /\ rested' = TRUE
    BY <1>5 DEF sleep, usleep, ResetTimer, Loop, LeaveLoop, Shell, Main, irqVars
  <2>2. 0 \notin irr /\ ~AtTick /\ ~AtTick'
    BY <2>1, MainSeesNoTick DEF AtTick
  <2>3. Due = 0 /\ Due' = 0
    BY <2>1, <2>2 DEF Due
  <2>4. CASE sleep
    <3>1. PICK n \in Arguments : asked' = n /\ us' = ticksOf(atoi(Decimal(n)))
      BY <2>4 DEF sleep
    <3>2. us' \in Int
      BY <3>1, PeriodOf, TimerAssumption
    <3> QED
      BY <2>1, <2>2, <2>4, <3>1, <3>2 DEF sleep, Main, TickInv
  <2>5. CASE ResetTimer
    BY <1>0, <2>1, <2>2, <2>3, <2>5 DEF ResetTimer, Main, TickInv
  <2>6. CASE Loop
    BY <1>0, <2>1, <2>2, <2>3, <2>6 DEF Loop, Main, TickInv
  <2>7. CASE LeaveLoop
    BY <1>0, <2>1, <2>2, <2>3, <2>7 DEF LeaveLoop, Main, TickInv
  <2>8. CASE Shell
    BY <2>1, <2>2, <2>8 DEF Shell, Main, TickInv
  <2> QED
    BY <1>5, <2>4, <2>5, <2>6, <2>7, <2>8 DEF usleep
<1>6. CASE UNCHANGED vars
  <2>1. irr' = irr /\ cpu' = cpu /\ todo' = todo /\ UNCHANGED timerVars
    BY <1>6 DEF vars, irqVars
  <2>2. (Underway' <=> Underway) /\ (AtTick' <=> AtTick)
    BY <2>1 DEF Underway, AtTick
  <2> QED
    BY <2>1, <2>2, TickStays DEF TickInv
<1> QED
  BY <1>1, <1>2, <1>3, <1>4, <1>5, <1>6 DEF Next

(* Every step keeps PhaseInv: the period is set before usleep runs.        *)
LEMMA NextKeepsPhase ==
  ASSUME PitInv, PhaseInv, [Next]_vars
  PROVE  PhaseInv'
<1>1. CASE ResetTimer
  <2>1. cpu = "main"
    BY <1>1 DEF ResetTimer, Main
  <2>2. pit.count = 119
    BY <2>1 DEF PitInv, PitBefore, Channel
  <2>3. PICK clocks \in Phases : clocks <= Period /\ phase' = clocks
    BY <1>1 DEF ResetTimer
  <2>4. clocks \in 1 .. 119
    BY <2>2, <2>3, TimerAssumption DEF Period
  <2> QED
    BY <2>3, <2>4 DEF PhaseInv
<1>2. CASE sleep \/ Shell
  BY <1>2 DEF sleep, Shell, Main, PhaseInv
<1>3. CASE Loop \/ LeaveLoop
  BY <1>3 DEF Loop, LeaveLoop, Main, PhaseInv
<1>4. CASE Tick \/ isr32 \/ WriteTimer
  BY <1>4 DEF Tick, isr32, WriteTimer, PhaseInv
<1>5. CASE (Others /\ UNCHANGED timerVars) \/ UNCHANGED vars
  BY <1>5 DEF vars, timerVars, PhaseInv
<1> QED
  BY <1>1, <1>2, <1>3, <1>4, <1>5 DEF Next, usleep

(***************************************************************************)
(* Every tick is counted once: the invariant that follows it to            *)
(* kerneltimer holds, with all that module Irq says of the handlers and    *)
(* with the count that init_timer writes.                                  *)
(***************************************************************************)
THEOREM TimerInvariant == Spec => []TimerInv
<1>1. Init => TimerInv
  <2> SUFFICES ASSUME Init
               PROVE  TimerInv
    OBVIOUS
  <2>1. IrqInv(Startup)
    BY StartupWrites, IrqInitInv DEF Init, Startup
  <2>2. PitInv
    BY StartupWrites DEF Init, IrqInit, Startup, PitInv, PitBefore, Channel
  <2>3. TickInv
    BY DEF Init, IrqInit, TickInv, AtTick
  <2>4. PhaseInv
    BY DEF Init, PhaseInv
  <2> QED
    BY <2>1, <2>2, <2>3, <2>4 DEF TimerInv
<1>2. TimerInv /\ [Next]_vars => TimerInv'
  BY NextKeepsIrq, NextKeepsPit, NextKeepsTick, NextKeepsPhase DEF TimerInv
<1> QED
  BY <1>1, <1>2, PTL DEF Spec

(* 119 clocks for 100 microseconds.                                        *)
LEMMA Clocks ==
  ASSUME NEW wanted \in Nat
  PROVE  LET periods == wanted \div 100
             clocks == (wanted * 1193) \div 1000
         IN  /\ periods * 119 <= clocks
             /\ periods * 119 > clocks - (clocks \div 300) - 120
BY SMTT(60)

(***************************************************************************)
(* The ticks that sleep waits for take no more than the time that was      *)
(* asked for, and less by two periods and one part in 300 at most, for     *)
(* every number that can be typed, every width of the integers and every   *)
(* moment of a period at which kerneltimer is reset.                       *)
(***************************************************************************)
THEOREM TimerSleepsAsAsked == Spec => []SleepsAsAsked
<1>1. TimerInv => SleepsAsAsked
  <2> SUFFICES ASSUME TimerInv, pc = "done"
               PROVE  SleepsAsAsked
    BY DEF SleepsAsAsked
  <2>1. cpu # "boot" /\ pit.count = 119
    BY DEF TimerInv, TickInv, PitInv, PitBefore, Channel
  <2>2. asked \in Arguments /\ elapsed = ticksOf(asked % Word)
    BY AtoiReadsDecimal, TimerAssumption DEF TimerInv, TickInv
  <2>3. PICK n : n = asked % Word
    OBVIOUS
  <2>4. PICK wanted : wanted = IF n \in 100 .. Word \div 2 - 1 THEN n ELSE 100
    OBVIOUS
  <2>5. n \in 0 .. (Word - 1) /\ Word \div 2 \in Nat
    BY <2>2, <2>3, TimerAssumption, NumbersAssumption
  <2>6. wanted \in Nat
    BY <2>4, <2>5
  <2>7. elapsed = wanted \div 100
    BY <2>2, <2>3, <2>4, <2>5, NumbersAssumption DEF ticksOf, Signed, TickUs
  <2>8. (100 * 1193) \div 1000 + 1 = 120
    BY SMT
  <2>9. phase \in 1 .. 119 /\ Period = 119
    BY <2>1 DEF TimerInv, PhaseInv, Period
  <2> DEFINE periods == wanted \div 100
             clocks == (wanted * 1193) \div 1000
             least == clocks - clocks \div 300
  <2>10. periods * 119 <= clocks /\ periods * 119 > least - 120
    BY <2>6, Clocks
  <2>11. periods \in Int /\ clocks \in Int /\ least \in Int
    BY <2>6
  <2>12. elapsed = periods
    BY <2>7
  <2>13. SleepsAsAsked <=>
           /\ phase + (elapsed - 1) * Period <= clocks
           /\ phase + (elapsed - 1) * Period > least - 2 * 120
    BY <2>3, <2>4, <2>8 DEF SleepsAsAsked, TickUs
  <2> HIDE DEF periods, clocks, least
  <2>14. (elapsed - 1) * Period = periods * 119 - 119
    BY <2>9, <2>11, <2>12
  <2>15. /\ phase + (periods * 119 - 119) <= clocks
         /\ phase + (periods * 119 - 119) > least - 2 * 120
    <3>1. PICK p \in Int : p = periods * 119
      BY <2>11
    <3> QED
      BY <2>9, <2>10, <2>11, <3>1
  <2> QED
    BY <2>13, <2>14, <2>15
<1> QED
  BY <1>1, TimerInvariant, PTL
=============================================================================
