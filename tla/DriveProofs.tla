------------------------------ MODULE DriveProofs ------------------------------
(***************************************************************************)
(* Proofs about the floppy drive and its DMA channel (modules Dma, Floppy  *)
(* and Drive).                                                             *)
(*                                                                         *)
(* That the channel is programmed when a call is over says nothing while   *)
(* the call runs.  DmaInv says for each of the nine port writes of         *)
(* DMA_floppy_init_mem what the writes before it have reached: which half  *)
(* the flip-flop takes next, which register is complete, and that the      *)
(* channel is masked from the first write to the last.                     *)
(*                                                                         *)
(* FloppyInv says, for each access of fdd_init, what the controller is     *)
(* doing then: how much of a command it has, whose status waits to be      *)
(* sensed, whether the head moves, and whether IRQ6 is latched or was      *)
(* taken.  The accesses themselves follow from the definitions of the      *)
(* functions.  DmaSpec is implemented by the drive's specification.        *)
(***************************************************************************)
EXTENDS Drive, SequenceTheorems, TLAPS

-----------------------------------------------------------------------------
(* The channel, for every set of addresses and counts and every sequence   *)
(* of calls.                                                               *)


Plan == InitMem(call[1], call[2])

(* The writes that DMA_floppy_init_mem has made, k of its nine. *)
Reached(k) ==
  /\ k >= 1 => masked
  /\ k \in {2, 5} => ~flipflop
  /\ k \in {3, 6} => flipflop
  /\ k = 3 => Low(address) = Low(call[1])
  /\ k >= 4 => address = call[1] % PageSize
  /\ k = 6 => Low(count) = Low(call[2])
  /\ k >= 7 => count = call[2]
  /\ k >= 8 => page = call[1] \div PageSize

InInitMem ==
  \E k \in 0 .. 8 : call # <<>> /\ writes = SubSeq(Plan, k + 1, 9) /\ Reached(k)

Programmed ==
  call # <<>> => /\ address = call[1] % PageSize
                 /\ page = call[1] \div PageSize
                 /\ count = call[2]

InMode ==
  /\ Programmed
  /\ \E m \in {86, 90} :
       \/ writes = <<Mask, <<"mode", m>>, Unmask>>
       \/ writes = <<<<"mode", m>>, Unmask>> /\ masked
       \/ writes = <<Unmask>> /\ masked

Idle == writes = <<>> /\ Programmed

DmaTypeOK ==
  /\ call = <<>> \/ \E addr \in Addresses, n \in Counts : call = <<addr, n>>
  /\ flipflop \in BOOLEAN
  /\ address \in Nat
  /\ count \in Nat
  /\ masked \in BOOLEAN

DmaInv == DmaTypeOK /\ (Idle \/ InMode \/ InInitMem)

Ports == {"mask", "flipflop", "address", "count", "page"}

(* The addresses and counts are natural numbers, and a count has 16 bits.  *)
LEMMA PageSizeType == PageSize \in Nat
BY SMT DEF PageSize

(* An address is a natural number. *)
LEMMA AddressType == ASSUME NEW addr \in Addresses PROVE addr \in Nat
BY DmaAssumption, PageSizeType

(* A count is one that the 16-bit register holds. *)
LEMMA CountType == ASSUME NEW n \in Counts PROVE n \in Nat /\ n % PageSize = n
<1>1. n \in Nat /\ n < PageSize
  BY DmaAssumption, PageSizeType
<1> QED
  BY SMT, <1>1 DEF PageSize

(* The page and the address within it make up the address. *)
LEMMA PageAndAddress ==
  ASSUME NEW addr \in Nat
  PROVE  PageSize * (addr \div PageSize) + (addr % PageSize) = addr /\ addr \div PageSize \in Nat
BY SMT DEF PageSize

(* Two halves make the word, whatever was in the register before.          *)
LEMMA Halves ==
  ASSUME NEW word \in Nat, NEW old \in Nat
  PROVE  /\ Low(word) + 256 * High(word) = word % PageSize
         /\ Low(256 * High(old) + Low(word)) = Low(word)
         /\ Low(word) \in Nat /\ High(word) \in Nat
BY SMT DEF Low, High, PageSize

(* The nine writes of DMA_floppy_init_mem.                                 *)
LEMMA InitMemElements ==
  ASSUME NEW addr, NEW n
  PROVE  /\ Len(InitMem(addr, n)) = 9
         /\ InitMem(addr, n)[1] = <<"mask", 6>>
         /\ InitMem(addr, n)[2] = <<"flipflop", 255>>
         /\ InitMem(addr, n)[3] = <<"address", Low(addr)>>
         /\ InitMem(addr, n)[4] = <<"address", High(addr)>>
         /\ InitMem(addr, n)[5] = <<"flipflop", 255>>
         /\ InitMem(addr, n)[6] = <<"count", Low(n)>>
         /\ InitMem(addr, n)[7] = <<"count", High(n)>>
         /\ InitMem(addr, n)[8] = <<"page", addr \div PageSize>>
         /\ InitMem(addr, n)[9] = <<"mask", 2>>
BY SMT DEF InitMem, SetAddress, SetCount, SetPage, Mask, Unmask, ResetFlipflop

(* DMA_floppy_init_mem makes nine port writes. *)
LEMMA InitMemWrites ==
  ASSUME NEW addr \in Addresses, NEW n \in Counts
  PROVE  InitMem(addr, n) \in Seq(Ports \X Nat) /\ Len(InitMem(addr, n)) = 9
<1>1. addr \in Nat /\ n \in Nat
  BY AddressType, CountType
<1>2. /\ Low(addr) \in Nat /\ High(addr) \in Nat /\ Low(n) \in Nat /\ High(n) \in Nat
      /\ addr \div PageSize \in Nat
  BY <1>1, Halves, PageAndAddress
<1> DEFINE S == Ports \X Nat
<1>3. /\ <<Mask>> \in Seq(S) /\ SetAddress(addr) \in Seq(S) /\ SetCount(n) \in Seq(S)
      /\ SetPage(addr) \in Seq(S) /\ <<Unmask>> \in Seq(S)
  BY <1>2 DEF Mask, Unmask, ResetFlipflop, SetAddress, SetCount, SetPage, Ports
<1> HIDE DEF S
<1>4. <<Mask>> \o SetAddress(addr) \in Seq(S)
  BY <1>3, ConcatProperties
<1>5. <<Mask>> \o SetAddress(addr) \o SetCount(n) \in Seq(S)
  BY <1>3, <1>4, ConcatProperties
<1>6. <<Mask>> \o SetAddress(addr) \o SetCount(n) \o SetPage(addr) \in Seq(S)
  BY <1>3, <1>5, ConcatProperties
<1>7. InitMem(addr, n) \in Seq(S)
  BY <1>3, <1>6, ConcatProperties DEF InitMem
<1> QED
  BY <1>7, InitMemElements DEF S

(* What the next write of DMA_floppy_init_mem is.                          *)
LEMMA NextOfInitMem ==
  ASSUME DmaTypeOK, call # <<>>, NEW k \in 0 .. 8, writes = SubSeq(Plan, k + 1, 9)
  PROVE  /\ writes # <<>>
         /\ Head(writes) = Plan[k + 1]
         /\ k < 8 => Tail(writes) = SubSeq(Plan, (k + 1) + 1, 9)
         /\ k = 8 => Tail(writes) = <<>>
<1>1. PICK addr \in Addresses, n \in Counts : call = <<addr, n>>
  BY DEF DmaTypeOK
<1> DEFINE S == Ports \X Nat
<1>2. Plan \in Seq(S) /\ Len(Plan) = 9
  BY <1>1, InitMemWrites DEF Plan
<1> HIDE DEF S
<1>3. k + 1 \in 1 .. Len(Plan) /\ 9 \in k + 1 .. Len(Plan)
  BY <1>2
<1>4. Head(writes) = Plan[k + 1] /\ Tail(writes) = SubSeq(Plan, (k + 1) + 1, 9)
  BY <1>2, <1>3, HeadTailOfSubSeq
<1>5. Len(writes) = 9 - k
  <2>1. \A i \in k + 1 .. 9 : Plan[i] \in S
    <3>1. \A i \in 1 .. 9 : Plan[i] \in S
      BY <1>2, LenProperties
    <3>2. \A i \in k + 1 .. 9 : i \in 1 .. 9
      OBVIOUS
    <3> QED
      BY <3>1, <3>2
  <2>2. k + 1 \in Int /\ 9 \in Int /\ k + 1 <= 9 /\ 9 - (k + 1) + 1 = 9 - k
    OBVIOUS
  <2> QED
    BY <2>1, <2>2, SubSeqProperties
<1>6. k = 8 => SubSeq(Plan, (k + 1) + 1, 9) = <<>>
  BY SubSeqEmpty
<1>7. writes # <<>>
  <2>1. Len(<<>>) = 0 /\ 9 - k # 0
    OBVIOUS
  <2> QED
    BY <1>5, <2>1
<1> QED
  BY <1>4, <1>6, <1>7

(* Before the first call nothing is promised but that no write is left over. *)
LEMMA InitDma == DmaInit => DmaInv
BY DEF DmaInit, DmaInv, DmaTypeOK, Idle, Programmed

(* What a write to each port changes.                                      *)
LEMMA PortWrite ==
  ASSUME outb, NEW port, NEW value, Head(writes) = <<port, value>>
  PROVE  Written(port, value) /\ writes # <<>> /\ writes' = Tail(writes) /\ call' = call
<1>1. Head(writes)[1] = port /\ Head(writes)[2] = value
  OBVIOUS
<1> QED
  BY <1>1 DEF outb

(* What each kind of write does to the channel: the mask, *)
LEMMA MaskWrite ==
  /\ Written("mask", 6) => masked' = TRUE /\ UNCHANGED chip
  /\ Written("mask", 2) => masked' = FALSE /\ UNCHANGED chip
<1>1. (6 \div 4) % 2 = 1 /\ (2 \div 4) % 2 # 1
  OBVIOUS
<1> QED
  BY <1>1 DEF Written, chip

(* the reset of the flip-flop, *)
LEMMA FlipflopWrite ==
  ASSUME Written("flipflop", 255)
  PROVE  flipflop' = FALSE /\ UNCHANGED <<address, count, page, mode, masked>>
BY DEF Written

(* one half of a 16-bit register, *)
LEMMA HalfWrite ==
  ASSUME NEW value, flipflop \in BOOLEAN
  PROVE  /\ Written("address", value) => /\ flipflop' = ~flipflop
                                         /\ address' = Half(address, value)
                                         /\ UNCHANGED <<count, page, mode, masked>>
         /\ Written("count", value) => /\ flipflop' = ~flipflop
                                       /\ count' = Half(count, value)
                                       /\ UNCHANGED <<address, page, mode, masked>>
BY DEF Written

(* and the registers of one byte. *)
LEMMA OtherWrite ==
  ASSUME NEW value
  PROVE  /\ Written("page", value) =>
              page' = value /\ UNCHANGED <<flipflop, address, count, mode, masked>>
         /\ Written("mode", value) =>
              mode' = value /\ UNCHANGED <<flipflop, address, count, page, masked>>
BY DEF Written

(* What the next write of DMA_floppy_init_mem reaches.                     *)
LEMMA ReachedStep ==
  ASSUME outb, NEW k \in 0 .. 8, Reached(k), call # <<>>,
         DmaTypeOK, Head(writes) = Plan[k + 1]
  PROVE  /\ flipflop' \in BOOLEAN /\ masked' \in BOOLEAN
         /\ address' \in Nat /\ count' \in Nat
         /\ k < 8 => Reached(k + 1)'
         /\ k = 8 => Programmed'
         /\ <<address, count, page, mode>>' # <<address, count, page, mode>> => masked
<1>1. PICK addr \in Addresses, n \in Counts : call = <<addr, n>>
  BY DEF DmaTypeOK
<1>2. addr \in Nat /\ n \in Nat /\ n % PageSize = n
  BY AddressType, CountType
<1>3. call[1] = addr /\ call[2] = n /\ call'[1] = addr /\ call'[2] = n
  BY <1>1 DEF outb
<1>4. flipflop \in BOOLEAN /\ masked \in BOOLEAN /\ address \in Nat /\ count \in Nat
  BY DEF DmaTypeOK
<1>5. /\ k = 0 => Head(writes) = <<"mask", 6>>
      /\ k \in {1, 4} => Head(writes) = <<"flipflop", 255>>
      /\ k = 2 => Head(writes) = <<"address", Low(addr)>>
      /\ k = 3 => Head(writes) = <<"address", High(addr)>>
      /\ k = 5 => Head(writes) = <<"count", Low(n)>>
      /\ k = 6 => Head(writes) = <<"count", High(n)>>
      /\ k = 7 => Head(writes) = <<"page", addr \div PageSize>>
      /\ k = 8 => Head(writes) = <<"mask", 2>>
  <2>1. Plan = InitMem(addr, n)
    BY <1>3 DEF Plan
  <2>2. /\ k = 0 => k + 1 = 1
        /\ k = 1 => k + 1 = 2
        /\ k = 2 => k + 1 = 3
        /\ k = 3 => k + 1 = 4
        /\ k = 4 => k + 1 = 5
        /\ k = 5 => k + 1 = 6
        /\ k = 6 => k + 1 = 7
        /\ k = 7 => k + 1 = 8
        /\ k = 8 => k + 1 = 9
    OBVIOUS
  <2>3. /\ k = 0 => Head(writes) = InitMem(addr, n)[1]
        /\ k = 1 => Head(writes) = InitMem(addr, n)[2]
        /\ k = 2 => Head(writes) = InitMem(addr, n)[3]
        /\ k = 3 => Head(writes) = InitMem(addr, n)[4]
        /\ k = 4 => Head(writes) = InitMem(addr, n)[5]
        /\ k = 5 => Head(writes) = InitMem(addr, n)[6]
        /\ k = 6 => Head(writes) = InitMem(addr, n)[7]
        /\ k = 7 => Head(writes) = InitMem(addr, n)[8]
        /\ k = 8 => Head(writes) = InitMem(addr, n)[9]
    BY <2>1, <2>2
  <2>4. /\ InitMem(addr, n)[1] = <<"mask", 6>>
        /\ InitMem(addr, n)[2] = <<"flipflop", 255>>
        /\ InitMem(addr, n)[3] = <<"address", Low(addr)>>
        /\ InitMem(addr, n)[4] = <<"address", High(addr)>>
        /\ InitMem(addr, n)[5] = <<"flipflop", 255>>
        /\ InitMem(addr, n)[6] = <<"count", Low(n)>>
        /\ InitMem(addr, n)[7] = <<"count", High(n)>>
        /\ InitMem(addr, n)[8] = <<"page", addr \div PageSize>>
        /\ InitMem(addr, n)[9] = <<"mask", 2>>
    BY SMT, InitMemElements
  <2>5. k \in {1, 4} => Head(writes) = <<"flipflop", 255>>
    BY <2>3, <2>4
  <2> QED
    BY <2>3, <2>4, <2>5
<1>6. /\ Low(addr) \in Nat /\ High(addr) \in Nat
      /\ Low(addr) + 256 * High(addr) = addr % PageSize
      /\ Low(256 * High(address) + Low(addr)) = Low(addr)
      /\ Low(address) \in Nat /\ High(address) \in Nat
  BY <1>2, <1>4, Halves
<1>7. /\ Low(n) \in Nat /\ High(n) \in Nat
      /\ Low(n) + 256 * High(n) = n
      /\ Low(256 * High(count) + Low(n)) = Low(n)
      /\ Low(count) \in Nat /\ High(count) \in Nat
  BY <1>2, <1>4, Halves
<1> USE <1>3, <1>4 DEF Reached
<1>8. CASE k = 0
  <2>1. Head(writes) = <<"mask", 6>>
    BY <1>5, <1>8
  <2>2. masked' = TRUE /\ UNCHANGED chip
    BY <2>1, PortWrite, MaskWrite
  <2> QED
    BY <1>8, <2>2 DEF chip
<1>9. CASE k \in {1, 4}
  <2>1. Head(writes) = <<"flipflop", 255>>
    BY <1>5, <1>9
  <2>2. flipflop' = FALSE /\ UNCHANGED <<address, count, page, mode, masked>>
    BY <2>1, PortWrite, FlipflopWrite
  <2>3. /\ flipflop' \in BOOLEAN /\ masked' \in BOOLEAN /\ address' \in Nat /\ count' \in Nat
        /\ <<address, count, page, mode>>' = <<address, count, page, mode>>
    BY <2>2
  <2>4. Reached(k + 1)'
    <3>1. CASE k = 1
      BY <2>2, <3>1
    <3>2. CASE k = 4
      BY <2>2, <3>2
    <3> QED
      BY <1>9, <3>1, <3>2
  <2> QED
    BY <1>9, <2>3, <2>4
<1>10. CASE k = 2
  <2>1. Head(writes) = <<"address", Low(addr)>>
    BY <1>5, <1>10
  <2>2. /\ flipflop' = ~flipflop /\ address' = Half(address, Low(addr))
        /\ UNCHANGED <<count, page, mode, masked>>
    BY <2>1, PortWrite, HalfWrite
  <2>3. flipflop' /\ address' = 256 * High(address) + Low(addr)
    BY <1>10, <2>2 DEF Half
  <2>4. address' \in Nat /\ Low(address') = Low(addr)
    BY <1>6, <2>3
  <2> QED
    BY <1>10, <2>2, <2>3, <2>4
<1>11. CASE k = 3
  <2>1. Head(writes) = <<"address", High(addr)>>
    BY <1>5, <1>11
  <2>2. /\ flipflop' = ~flipflop /\ address' = Half(address, High(addr))
        /\ UNCHANGED <<count, page, mode, masked>>
    BY <2>1, PortWrite, HalfWrite
  <2>3. address' = Low(addr) + 256 * High(addr)
    BY <1>11, <2>2 DEF Half
  <2>4. address' \in Nat /\ address' = addr % PageSize
    BY <1>6, <2>3
  <2> QED
    BY <1>11, <2>2, <2>4
<1>12. CASE k = 5
  <2>1. Head(writes) = <<"count", Low(n)>>
    BY <1>5, <1>12
  <2>2. /\ flipflop' = ~flipflop /\ count' = Half(count, Low(n))
        /\ UNCHANGED <<address, page, mode, masked>>
    BY <2>1, PortWrite, HalfWrite
  <2>3. flipflop' /\ count' = 256 * High(count) + Low(n)
    BY <1>12, <2>2 DEF Half
  <2>4. count' \in Nat /\ Low(count') = Low(n)
    BY <1>7, <2>3
  <2> QED
    BY <1>12, <2>2, <2>3, <2>4
<1>13. CASE k = 6
  <2>1. Head(writes) = <<"count", High(n)>>
    BY <1>5, <1>13
  <2>2. /\ flipflop' = ~flipflop /\ count' = Half(count, High(n))
        /\ UNCHANGED <<address, page, mode, masked>>
    BY <2>1, PortWrite, HalfWrite
  <2>3. count' = n
    BY <1>7, <1>13, <2>2 DEF Half
  <2> QED
    BY <1>2, <1>13, <2>2, <2>3
<1>14. CASE k = 7
  <2>1. Head(writes) = <<"page", addr \div PageSize>>
    BY <1>5, <1>14
  <2>2. page' = addr \div PageSize /\ UNCHANGED <<flipflop, address, count, mode, masked>>
    BY <2>1, PortWrite, OtherWrite
  <2> QED
    BY <1>14, <2>2
<1>15. CASE k = 8
  <2>1. Head(writes) = <<"mask", 2>>
    BY <1>5, <1>15
  <2>2. masked' = FALSE /\ UNCHANGED chip
    BY <2>1, PortWrite, MaskWrite
  <2>3. Programmed' /\ UNCHANGED <<flipflop, address, count, page, mode>>
    BY <1>15, <2>2 DEF chip, Programmed
  <2>4. flipflop' \in BOOLEAN /\ masked' \in BOOLEAN /\ address' \in Nat /\ count' \in Nat
    BY <2>2, <2>3
  <2>5. <<address, count, page, mode>>' = <<address, count, page, mode>>
    BY <2>3
  <2> HIDE DEF Reached
  <2> QED
    BY <1>15, <2>3, <2>4, <2>5
<1> QED
  BY <1>8, <1>9, <1>10, <1>11, <1>12, <1>13, <1>14, <1>15

(* A port write of a running DMA_floppy_init_mem.                          *)
LEMMA InitMemStep ==
  ASSUME DmaTypeOK, InInitMem, outb
  PROVE  DmaInv' /\ (<<address, count, page, mode>>' # <<address, count, page, mode>> => masked)
<1>1. PICK k \in 0 .. 8 : call # <<>> /\ writes = SubSeq(Plan, k + 1, 9) /\ Reached(k)
  BY DEF InInitMem
<1>2. call' = call /\ Plan' = Plan /\ writes' = Tail(writes)
  BY DEF outb, Plan
<1>3. /\ Head(writes) = Plan[k + 1]
      /\ k < 8 => writes' = SubSeq(Plan', (k + 1) + 1, 9)
      /\ k = 8 => writes' = <<>>
  BY <1>1, <1>2, NextOfInitMem
<1>4. /\ flipflop' \in BOOLEAN /\ masked' \in BOOLEAN
      /\ address' \in Nat /\ count' \in Nat
      /\ k < 8 => Reached(k + 1)'
      /\ k = 8 => Programmed'
      /\ <<address, count, page, mode>>' # <<address, count, page, mode>> => masked
  BY <1>1, <1>3, ReachedStep
<1>5. DmaTypeOK'
  BY <1>2, <1>4 DEF DmaTypeOK
<1>6. CASE k < 8
  <2>1. k + 1 \in 0 .. 8
    BY <1>6
  <2>2. call' # <<>> /\ writes' = SubSeq(Plan', (k + 1) + 1, 9) /\ Reached(k + 1)'
    BY <1>1, <1>2, <1>3, <1>4, <1>6
  <2>3. InInitMem'
    BY <2>1, <2>2 DEF InInitMem
  <2> QED
    BY <1>4, <1>5, <2>3 DEF DmaInv
<1>7. CASE k = 8
  BY <1>3, <1>4, <1>5, <1>7 DEF DmaInv, Idle
<1> QED
  BY <1>6, <1>7

(* A port write of a running DMA_floppy_read or DMA_floppy_write.          *)
LEMMA ModeStep ==
  ASSUME DmaTypeOK, InMode, outb
  PROVE  DmaInv' /\ (<<address, count, page, mode>>' # <<address, count, page, mode>> => masked)
<1>1. PICK m \in {86, 90} :
        \/ writes = <<Mask, <<"mode", m>>, Unmask>>
        \/ writes = <<<<"mode", m>>, Unmask>> /\ masked
        \/ writes = <<Unmask>> /\ masked
  BY DEF InMode
<1>2. call' = call /\ writes' = Tail(writes)
  BY DEF outb
<1>3. CASE writes = <<Mask, <<"mode", m>>, Unmask>>
  <2>1. Head(writes) = <<"mask", 6>> /\ writes' = <<<<"mode", m>>, Unmask>>
    BY <1>2, <1>3 DEF Mask
  <2>2. masked' = TRUE /\ UNCHANGED chip
    BY <2>1, PortWrite, MaskWrite
  <2> QED
    BY <1>2, <2>1, <2>2 DEF chip, DmaInv, DmaTypeOK, InMode, Programmed
<1>4. CASE writes = <<<<"mode", m>>, Unmask>> /\ masked
  <2>1. Head(writes) = <<"mode", m>> /\ writes' = <<Unmask>>
    BY <1>2, <1>4
  <2>2. UNCHANGED <<masked, flipflop, address, count, page>>
    BY <2>1, PortWrite, OtherWrite
  <2> QED
    BY <1>2, <1>4, <2>1, <2>2 DEF DmaInv, DmaTypeOK, InMode, Programmed
<1>5. CASE writes = <<Unmask>> /\ masked
  <2>1. Head(writes) = <<"mask", 2>> /\ writes' = <<>>
    BY <1>2, <1>5 DEF Unmask
  <2>2. masked' = FALSE /\ UNCHANGED chip
    BY <2>1, PortWrite, MaskWrite
  <2> QED
    BY <1>2, <2>1, <2>2 DEF chip, DmaInv, DmaTypeOK, InMode, Idle, Programmed
<1> QED
  BY <1>1, <1>3, <1>4, <1>5

(* Every write keeps DmaInv, and changes a register only behind the mask. *)
LEMMA NextDma ==
  DmaInv /\ [DmaNext]_dmaVars =>
    DmaInv' /\ (<<address, count, page, mode>>' # <<address, count, page, mode>> => masked)
<1> SUFFICES ASSUME DmaInv, [DmaNext]_dmaVars
             PROVE  DmaInv' /\ (<<address, count, page, mode>>' # <<address, count, page, mode>> => masked)
  OBVIOUS
<1>1. CASE DMA_floppy_init_mem
  <2>1. PICK addr \in Addresses, n \in Counts : writes' = InitMem(addr, n) /\ call' = <<addr, n>>
    BY <1>1 DEF DMA_floppy_init_mem
  <2>2. Plan' = InitMem(addr, n)
    BY <2>1 DEF Plan
  <2>3. SubSeq(Plan', 0 + 1, 9) = writes'
    BY <2>1, <2>2, InitMemWrites, SubSeqFull
  <2>4. call' # <<>> /\ Reached(0)'
    BY <2>1 DEF Reached
  <2>5. InInitMem'
    BY <2>3, <2>4 DEF InInitMem
  <2>6. DmaTypeOK' /\ UNCHANGED chip
    BY <1>1, <2>1 DEF DMA_floppy_init_mem, DmaInv, DmaTypeOK, chip
  <2> QED
    BY <2>5, <2>6 DEF DmaInv, chip
<1>2. CASE DMA_floppy_mode
  <2>1. writes = <<>>
    BY <1>2 DEF DMA_floppy_mode
  <2>2. Programmed
    <3>1. ASSUME InInitMem PROVE FALSE
      BY <2>1, <3>1, NextOfInitMem DEF InInitMem, DmaInv
    <3> QED
      BY <3>1 DEF DmaInv, Idle, InMode
  <2>3. InMode' /\ DmaTypeOK' /\ UNCHANGED chip
    BY <1>2, <2>2 DEF DMA_floppy_mode, InMode, Programmed, DmaInv, DmaTypeOK, chip
  <2> QED
    BY <2>3 DEF DmaInv, chip
<1>3. CASE outb
  <2>1. ~Idle
    BY <1>3 DEF outb, Idle
  <2> QED
    BY <1>3, <2>1, ModeStep, InitMemStep DEF DmaInv
<1>4. CASE UNCHANGED dmaVars
  BY <1>4 DEF dmaVars, DmaInv, DmaTypeOK, Idle, InMode, InInitMem, Programmed, Reached, Plan
<1> QED
  BY <1>1, <1>2, <1>3, <1>4 DEF DmaNext

(* DmaInv holds between any two port writes.                               *)
THEOREM DmaInvariant == DmaSpec => []DmaInv
BY InitDma, NextDma, PTL DEF DmaSpec

(* Whatever half the flip-flop was left at, after DMA_floppy_init_mem the  *)
(* channel holds the whole 24-bit address and the whole count of the call. *)
THEOREM DmaUnmaskedIsProgrammed == DmaSpec => []UnmaskedIsProgrammed
<1>1. DmaInv => UnmaskedIsProgrammed
  <2> SUFFICES ASSUME DmaInv, call # <<>>, writes = <<>>
               PROVE  PageSize * page + address = call[1] /\ count = call[2]
    BY DEF UnmaskedIsProgrammed
  <2>1. PICK addr \in Addresses, n \in Counts : call = <<addr, n>>
    BY DEF DmaInv, DmaTypeOK
  <2>2. Programmed
    <3>1. ASSUME InInitMem PROVE FALSE
      BY <3>1, NextOfInitMem DEF InInitMem, DmaInv
    <3> QED
      BY <3>1 DEF DmaInv, Idle, InMode
  <2>3. addr \in Nat /\ PageSize * (addr \div PageSize) + (addr % PageSize) = addr
    BY AddressType, PageAndAddress
  <2> QED
    BY <2>1, <2>2, <2>3 DEF Programmed
<1> QED
  BY <1>1, DmaInvariant, PTL

(* No register of the channel changes while the drive may transfer.        *)
THEOREM DmaRegistersChangeMasked == DmaSpec => RegistersChangeMasked
<1>1. DmaInv /\ [DmaNext]_dmaVars =>
        [<<address, count, page, mode>>' # <<address, count, page, mode>> => masked]_dmaVars
  BY NextDma
<1> QED
  BY <1>1, DmaInvariant, PTL DEF DmaSpec, RegistersChangeMasked

-----------------------------------------------------------------------------
(* The drive.                                                              *)


(* The accesses that the functions of floppy.c make.                       *)
Access == {<<"clear">>, <<"wait">>, <<"retry">>} \cup ({"write", "dor"} \X Nat)
          \cup ({"read"} \X {"st0", "st1", "nothing"})

SensePart == <<<<"write", 8>>, <<"read", "st0">>, <<"read", "st1">>>>

SeekPart(track) ==
  <<<<"clear">>, <<"write", 15>>, <<"write", 0>>, <<"write", track>>, <<"wait">>,
    <<"write", 8>>, <<"read", "st0">>, <<"read", "st1">>>>

RecalibratePart ==
  <<<<"dor", 28>>, <<"clear">>, <<"write", 7>>, <<"write", 0>>, <<"wait">>,
    <<"write", 8>>, <<"read", "st0">>, <<"read", "st1">>, <<"retry">>>>

(* What concatenated sequences hold.                                       *)
LEMMA Joined ==
  ASSUME NEW S, NEW s \in Seq(S), NEW t \in Seq(S), NEW u, u = s \o t
  PROVE  /\ u \in Seq(S)
         /\ Len(u) = Len(s) + Len(t)
         /\ \A i \in 1 .. Len(s) + Len(t) : u[i] = IF i <= Len(s) THEN s[i] ELSE t[i - Len(s)]
<1>1. u \in Seq(S)
  BY ConcatProperties
<1>2. Len(u) = Len(s) + Len(t)
  BY ConcatProperties
<1>3. \A i \in 1 .. Len(s) + Len(t) : u[i] = IF i <= Len(s) THEN s[i] ELSE t[i - Len(s)]
  BY ConcatProperties
<1> QED
  BY <1>1, <1>2, <1>3

(* What fdd_write makes of a command.                                      *)
LEMMA WriteOne == ASSUME NEW a PROVE fdd_write(<<a>>) = <<<<"write", a>>>>
BY DEF fdd_write

(* fdd_write for a list of two bytes, *)
LEMMA WriteTwo == ASSUME NEW a, NEW b PROVE fdd_write(<<a, b>>) = <<<<"write", a>>, <<"write", b>>>>
BY DEF fdd_write

(* and of three. *)
LEMMA WriteThree ==
  ASSUME NEW a, NEW b, NEW c
  PROVE  fdd_write(<<a, b, c>>) = <<<<"write", a>>, <<"write", b>>, <<"write", c>>>>
BY DEF fdd_write

(* The accesses of fdd_sense_interrupt, *)
LEMMA SenseAccesses == fdd_sense_interrupt = SensePart
<1> DEFINE s == <<<<"write", 8>>>> \o <<<<"read", "st0">>, <<"read", "st1">>>>
           t == SensePart
<1>1. fdd_sense_interrupt = s
  BY WriteOne DEF fdd_sense_interrupt, SENSE_INTERRUPT
<1>2. s[1] = t[1] /\ s[2] = t[2] /\ s[3] = t[3] /\ Len(s) = 3
  BY SMT DEF SensePart
<1>3. s \in Seq(Access) /\ t \in Seq(Access)
  BY SMT DEF Access, SensePart
<1>4. Len(t) = 3
  BY DEF SensePart
<1> HIDE DEF s, t
<1>5. \A i \in 1 .. 3 : s[i] = t[i]
  BY <1>2
<1>6. s = t
  BY <1>2, <1>3, <1>4, <1>5, SeqEqual
<1> QED
  BY <1>1, <1>6 DEF t

(* of fdd_seek_track, *)
LEMMA SeekAccesses ==
  ASSUME NEW track \in Nat
  PROVE  /\ fdd_seek_track(track) = SeekPart(track)
         /\ SeekPart(track) \in Seq(Access) /\ Len(SeekPart(track)) = 8
<1> DEFINE s == <<<<"clear">>>> \o <<<<"write", 15>>, <<"write", 0>>, <<"write", track>>>>
                \o <<<<"wait">>>> \o SensePart
           t == SeekPart(track)
<1>1. fdd_seek_track(track) = s
  BY WriteThree, SenseAccesses DEF fdd_seek_track, Moved, SEEK
<1>2. /\ s[1] = t[1] /\ s[2] = t[2] /\ s[3] = t[3] /\ s[4] = t[4]
  BY SMT DEF SeekPart, SensePart
<1>3. /\ s[5] = t[5] /\ s[6] = t[6] /\ s[7] = t[7] /\ s[8] = t[8]
  BY SMT DEF SeekPart, SensePart
<1>4. s \in Seq(Access) /\ Len(s) = 8
  BY SMT DEF Access, SensePart
<1>5. t \in Seq(Access) /\ Len(t) = 8
  BY SMT DEF Access, SeekPart
<1> HIDE DEF s, t
<1>6. \A i \in 1 .. 8 : s[i] = t[i]
  BY <1>2, <1>3
<1>7. s = t
  BY <1>4, <1>5, <1>6, SeqEqual
<1> QED
  BY <1>1, <1>5, <1>7 DEF t

(* One access before and one behind seven others.                          *)
LEMMA Framed ==
  ASSUME NEW S, NEW a \in S, NEW z \in S, NEW m \in Seq(S)
  PROVE  Len(m) = 7 =>
           /\ <<a>> \o m \o <<z>> \in Seq(S) /\ Len(<<a>> \o m \o <<z>>) = 9
           /\ (<<a>> \o m \o <<z>>)[1] = a
           /\ (<<a>> \o m \o <<z>>)[9] = z
           /\ \A i \in 1 .. 7 : (<<a>> \o m \o <<z>>)[1 + i] = m[i]
<1>1. PICK x : x = <<a>>
  OBVIOUS
<1>2. PICK y : y = <<z>>
  OBVIOUS
<1>3. /\ x \in Seq(S) /\ Len(x) = 1 /\ x[1] = a
      /\ y \in Seq(S) /\ Len(y) = 1 /\ y[1] = z
  BY <1>1, <1>2
<1>4. PICK u : u = x \o m
  OBVIOUS
<1>5. Len(m) = 7 =>
      /\ u \in Seq(S) /\ Len(u) = 8
      /\ u[1] = a
      /\ \A i \in 1 .. 7 : u[1 + i] = m[i]
  <2>1. x \in Seq(S)
    BY <1>3
  <2>2. u \in Seq(S) /\ Len(u) = Len(x) + Len(m)
    BY <1>4, <2>1, Joined
  <2>3. \A i \in 1 .. Len(x) + Len(m) : u[i] = IF i <= Len(x) THEN x[i] ELSE m[i - Len(x)]
    BY <1>4, <2>1, Joined
  <2> QED
    BY <1>3, <2>2, <2>3
<1>6. PICK v : v = u \o y
  OBVIOUS
<1>7. Len(m) = 7 =>
      /\ v \in Seq(S) /\ Len(v) = 9
      /\ \A i \in 1 .. 8 : v[i] = u[i]
      /\ v[9] = z
  <2>1. u \in Seq(S) /\ y \in Seq(S)
    BY <1>3, <1>4, Joined
  <2>2. v \in Seq(S) /\ Len(v) = Len(u) + Len(y)
    BY <1>6, <2>1, Joined
  <2>3. \A i \in 1 .. Len(u) + Len(y) : v[i] = IF i <= Len(u) THEN u[i] ELSE y[i - Len(u)]
    BY <1>6, <2>1, Joined
  <2>4. ASSUME Len(m) = 7
        PROVE  Len(v) = 9 /\ (\A i \in 1 .. 8 : v[i] = u[i]) /\ v[9] = z
    <3>1. Len(u) = 8 /\ Len(y) = 1 /\ y[1] = z
      BY <1>3, <1>5, <2>4
    <3>2. \A i \in 1 .. 9 : v[i] = IF i <= 8 THEN u[i] ELSE y[i - 8]
      BY <2>3, <3>1
    <3>3. \A i \in 1 .. 8 : i \in 1 .. 9 /\ i <= 8
      OBVIOUS
    <3>4. 9 \in 1 .. 9 /\ ~(9 <= 8) /\ 9 - 8 = 1
      BY SMT
    <3> QED
      BY <2>2, <3>1, <3>2, <3>3, <3>4
  <2> QED
    BY <2>2, <2>4
<1> QED
  BY <1>1, <1>2, <1>4, <1>5, <1>6, <1>7

(* and of one attempt of fdd_recalibrate. *)
LEMMA RecalibrateAccesses ==
  /\ fdd_recalibrate = RecalibratePart
  /\ RecalibratePart \in Seq(Access) /\ Len(RecalibratePart) = 9
<1> DEFINE m == <<<<"clear">>>> \o <<<<"write", 7>>, <<"write", 0>>>> \o <<<<"wait">>>> \o SensePart
           s == <<<<"dor", 28>>>> \o m \o <<<<"retry">>>>
           t == RecalibratePart
<1>1. fdd_recalibrate = s
  BY WriteTwo, SenseAccesses DEF fdd_recalibrate, Moved, RECALIBRATE
<1>2. /\ m[1] = t[2] /\ m[2] = t[3] /\ m[3] = t[4] /\ m[4] = t[5] /\ m[5] = t[6]
      /\ m[6] = t[7] /\ m[7] = t[8]
  BY SMT DEF RecalibratePart, SensePart
<1>3. m \in Seq(Access) /\ Len(m) = 7
  BY SMT DEF Access, SensePart
<1>4. t \in Seq(Access) /\ Len(t) = 9 /\ t[1] = <<"dor", 28>> /\ t[9] = <<"retry">>
  BY SMT DEF Access, RecalibratePart
<1>5. <<<<"dor", 28>>>> \in Seq(Access) /\ <<<<"retry">>>> \in Seq(Access)
  BY SMT DEF Access
<1>6. /\ s \in Seq(Access) /\ Len(s) = 9
      /\ s[1] = t[1] /\ s[9] = t[9]
      /\ \A i \in 1 .. 7 : s[1 + i] = m[i]
  <2>1. <<"dor", 28>> \in Access /\ <<"retry">> \in Access
    BY DEF Access
  <2> QED
    BY <1>3, <1>4, <2>1, Framed
<1> HIDE DEF m, s, t
<1>7. \A i \in 1 .. 9 : s[i] = t[i]
  <2>1. /\ s[2] = t[2] /\ s[3] = t[3] /\ s[4] = t[4] /\ s[5] = t[5] /\ s[6] = t[6] /\ s[7] = t[7]
        /\ s[8] = t[8]
    BY <1>2, <1>6
  <2> QED
    BY <1>6, <2>1
<1>8. s = t
  BY <1>4, <1>6, <1>7, SeqEqual
<1> QED
  BY <1>1, <1>4, <1>8 DEF t

(* The four SENSE_INTERRUPT of fdd_reset.                                  *)
LEMMA ResetAccesses ==
  /\ fdd_reset \in Seq(Access) /\ Len(fdd_reset) = 19
  /\ fdd_reset[1] = <<"dor", 0>> /\ fdd_reset[2] = <<"clear">>
  /\ fdd_reset[3] = <<"dor", 12>> /\ fdd_reset[4] = <<"wait">>
  /\ \A j \in 0 .. 3 : /\ fdd_reset[5 + 3 * j] = <<"write", 8>>
                       /\ fdd_reset[6 + 3 * j] = <<"read", "nothing">>
                       /\ fdd_reset[7 + 3 * j] = <<"read", "nothing">>
  /\ fdd_reset[17] = <<"write", 3>> /\ fdd_reset[18] = <<"write", 175>> /\ fdd_reset[19] = <<"write", 2>>
<1>a. PICK begin : begin = <<<<"dor", 0>>, <<"clear">>, <<"dor", 12>>, <<"wait">>>>
  OBVIOUS
<1>b. PICK specify : specify = <<<<"write", 3>>, <<"write", 175>>, <<"write", 2>>>>
  OBVIOUS
<1>1. PICK senses : senses = [i \in 1 .. 12 |-> ForgottenSense[((i - 1) % 3) + 1]]
  OBVIOUS
<1>2. fdd_reset = begin \o senses \o specify
  <2>1. 3 * Senses = 12
    BY DEF Senses
  <2> QED
    BY <1>1, <1>a, <1>b, <2>1, WriteThree DEF fdd_reset, SPECIFY
<1>3. /\ ForgottenSense[1] = <<"write", 8>> /\ ForgottenSense[2] = <<"read", "nothing">>
      /\ ForgottenSense[3] = <<"read", "nothing">>
  BY SMT, WriteOne DEF ForgottenSense, SENSE_INTERRUPT
<1>4. \A j \in 0 .. 3 : /\ senses[1 + 3 * j] = <<"write", 8>>
                        /\ senses[2 + 3 * j] = <<"read", "nothing">>
                        /\ senses[3 + 3 * j] = <<"read", "nothing">>
  <2>1. ASSUME NEW j \in 0 .. 3
        PROVE  /\ 1 + 3 * j \in 1 .. 12 /\ ((((1 + 3 * j) - 1) % 3) + 1) = 1
               /\ 2 + 3 * j \in 1 .. 12 /\ ((((2 + 3 * j) - 1) % 3) + 1) = 2
               /\ 3 + 3 * j \in 1 .. 12 /\ ((((3 + 3 * j) - 1) % 3) + 1) = 3
    OBVIOUS
  <2> QED
    BY <1>1, <1>3, <2>1
<1>5. senses \in Seq(Access) /\ Len(senses) = 12
  <2>1. \A i \in 1 .. 12 : ((i - 1) % 3) + 1 \in 1 .. 3
    OBVIOUS
  <2>2. \A k \in 1 .. 3 : ForgottenSense[k] \in Access
    BY <1>3 DEF Access
  <2>3. \A i \in 1 .. 12 : ForgottenSense[((i - 1) % 3) + 1] \in Access
    BY <2>1, <2>2
  <2> QED
    BY <1>1, <2>3
<1>6. /\ begin \in Seq(Access) /\ Len(begin) = 4
      /\ begin[1] = <<"dor", 0>> /\ begin[2] = <<"clear">>
      /\ begin[3] = <<"dor", 12>> /\ begin[4] = <<"wait">>
  BY <1>a DEF Access
<1>7. /\ specify \in Seq(Access) /\ Len(specify) = 3
      /\ specify[1] = <<"write", 3>> /\ specify[2] = <<"write", 175>> /\ specify[3] = <<"write", 2>>
  BY <1>b DEF Access
<1>8. PICK front : front = begin \o senses
  OBVIOUS
<1>9. /\ front \in Seq(Access) /\ Len(front) = 16
      /\ \A i \in 1 .. 4 : front[i] = begin[i]
      /\ \A i \in 1 .. 12 : front[4 + i] = senses[i]
  <2>1. begin \in Seq(Access) /\ senses \in Seq(Access)
    BY <1>5, <1>6
  <2>2. front \in Seq(Access) /\ Len(front) = Len(begin) + Len(senses)
    BY <1>8, <2>1, Joined
  <2>3. \A i \in 1 .. Len(begin) + Len(senses) : front[i] = IF i <= Len(begin) THEN begin[i] ELSE senses[i - Len(begin)]
    BY <1>8, <2>1, Joined
  <2> QED
    BY <1>5, <1>6, <2>2, <2>3
<1>10. /\ fdd_reset \in Seq(Access) /\ Len(fdd_reset) = 19
       /\ \A i \in 1 .. 16 : fdd_reset[i] = front[i]
       /\ \A i \in 1 .. 3 : fdd_reset[16 + i] = specify[i]
  <2>0. fdd_reset = front \o specify
    BY <1>2, <1>8
  <2>1. front \in Seq(Access) /\ specify \in Seq(Access)
    BY <1>7, <1>9
  <2>2. fdd_reset \in Seq(Access) /\ Len(fdd_reset) = Len(front) + Len(specify)
    BY <2>0, <2>1, Joined
  <2>3. \A i \in 1 .. Len(front) + Len(specify) : fdd_reset[i] = IF i <= Len(front) THEN front[i] ELSE specify[i - Len(front)]
    BY <2>0, <2>1, Joined
  <2> QED
    BY <1>7, <1>9, <2>2, <2>3
<1>11. /\ fdd_reset[17] = <<"write", 3>> /\ fdd_reset[18] = <<"write", 175>>
       /\ fdd_reset[19] = <<"write", 2>>
  <2>1. fdd_reset[16 + 1] = specify[1] /\ fdd_reset[16 + 2] = specify[2]
        /\ fdd_reset[16 + 3] = specify[3]
    BY <1>10
  <2> QED
    BY <1>7, <2>1
<1>12. ASSUME NEW i \in 1 .. 12 PROVE fdd_reset[4 + i] = senses[i]
  <2>1. 4 + i \in 1 .. 16
    OBVIOUS
  <2> QED
    BY <1>9, <1>10, <2>1
<1>13. ASSUME NEW j \in 0 .. 3
       PROVE  /\ fdd_reset[5 + 3 * j] = <<"write", 8>>
              /\ fdd_reset[6 + 3 * j] = <<"read", "nothing">>
              /\ fdd_reset[7 + 3 * j] = <<"read", "nothing">>
  <2>1. /\ 1 + 3 * j \in 1 .. 12 /\ 4 + (1 + 3 * j) = 5 + 3 * j
        /\ 2 + 3 * j \in 1 .. 12 /\ 4 + (2 + 3 * j) = 6 + 3 * j
        /\ 3 + 3 * j \in 1 .. 12 /\ 4 + (3 + 3 * j) = 7 + 3 * j
    OBVIOUS
  <2>2. /\ fdd_reset[4 + (1 + 3 * j)] = senses[1 + 3 * j]
        /\ fdd_reset[4 + (2 + 3 * j)] = senses[2 + 3 * j]
        /\ fdd_reset[4 + (3 + 3 * j)] = senses[3 + 3 * j]
    BY <1>12, <2>1
  <2> QED
    BY <1>4, <2>1, <2>2
<1>14. \A i \in 1 .. 4 : fdd_reset[i] = begin[i]
  <2>1. \A i \in 1 .. 4 : i \in 1 .. 16
    OBVIOUS
  <2> QED
    BY <1>9, <1>10, <2>1
<1> QED
  BY <1>6, <1>10, <1>11, <1>13, <1>14

Targets == <<39, 0, 79, 0>>

(* fdd_init, access by access.                                             *)
LEMMA ProgramAccesses ==
  /\ Len(Program) = 61
  /\ AtRecalibrate = 21 /\ AtSeeks = 29 /\ AtEnd = 62 /\ Len(fdd_seek_track(0)) = 8
  /\ \A i \in 1 .. 19 : Program[i] = fdd_reset[i]
  /\ \A i \in 1 .. 9 : Program[19 + i] = RecalibratePart[i]
  /\ \A n \in 1 .. 4, i \in 1 .. 8 : Program[20 + 8 * n + i] = SeekPart(Targets[n])[i]
  /\ Program[61] = <<"dor", 12>>
<1>1. PICK r : r = fdd_reset
  OBVIOUS
<1>2. PICK c : c = fdd_recalibrate
  OBVIOUS
<1>3. PICK s39 : s39 = fdd_seek_track(39)
  OBVIOUS
<1>4. PICK s0 : s0 = fdd_seek_track(0)
  OBVIOUS
<1>5. PICK s79 : s79 = fdd_seek_track(79)
  OBVIOUS
<1>6. PICK d : d = fdd_disable_drives
  OBVIOUS
<1>7. r \in Seq(Access) /\ Len(r) = 19
  BY <1>1, ResetAccesses
<1>8. c \in Seq(Access) /\ Len(c) = 9
  BY <1>2, RecalibrateAccesses
<1>9. /\ s39 \in Seq(Access) /\ Len(s39) = 8
      /\ s0 \in Seq(Access) /\ Len(s0) = 8
      /\ s79 \in Seq(Access) /\ Len(s79) = 8
  <2>1. 39 \in Nat /\ 0 \in Nat /\ 79 \in Nat
    BY SMT
  <2> QED
    BY <1>3, <1>4, <1>5, <2>1, SeekAccesses
<1>10. d \in Seq(Access) /\ Len(d) = 1 /\ d[1] = <<"dor", 12>>
  BY <1>6 DEF fdd_disable_drives, Access
<1>11. PICK t2 : t2 = s39 \o s0
  OBVIOUS
<1>12. PICK t3 : t3 = t2 \o s79
  OBVIOUS
<1>13. PICK t4 : t4 = t3 \o s0
  OBVIOUS
<1>14. /\ t2 \in Seq(Access) /\ Len(t2) = 16
       /\ \A i \in 1 .. 8 : t2[i] = s39[i]
       /\ \A i \in 1 .. 8 : t2[8 + i] = s0[i]
  <2>1. s39 \in Seq(Access) /\ s0 \in Seq(Access)
    BY <1>9
  <2>2. t2 \in Seq(Access) /\ Len(t2) = Len(s39) + Len(s0)
    BY <1>11, <2>1, Joined
  <2>3. \A i \in 1 .. Len(s39) + Len(s0) : t2[i] = IF i <= Len(s39) THEN s39[i] ELSE s0[i - Len(s39)]
    BY <1>11, <2>1, Joined
  <2> QED
    BY <1>9, <2>2, <2>3
<1>15. /\ t3 \in Seq(Access) /\ Len(t3) = 24
       /\ \A i \in 1 .. 16 : t3[i] = t2[i]
       /\ \A i \in 1 .. 8 : t3[16 + i] = s79[i]
  <2>1. t2 \in Seq(Access) /\ s79 \in Seq(Access)
    BY <1>9, <1>14
  <2>2. t3 \in Seq(Access) /\ Len(t3) = Len(t2) + Len(s79)
    BY <1>12, <2>1, Joined
  <2>3. \A i \in 1 .. Len(t2) + Len(s79) : t3[i] = IF i <= Len(t2) THEN t2[i] ELSE s79[i - Len(t2)]
    BY <1>12, <2>1, Joined
  <2> QED
    BY <1>9, <1>14, <2>2, <2>3
<1>16. /\ t4 \in Seq(Access) /\ Len(t4) = 32
       /\ \A i \in 1 .. 24 : t4[i] = t3[i]
       /\ \A i \in 1 .. 8 : t4[24 + i] = s0[i]
  <2>1. t3 \in Seq(Access) /\ s0 \in Seq(Access)
    BY <1>9, <1>15
  <2>2. t4 \in Seq(Access) /\ Len(t4) = Len(t3) + Len(s0)
    BY <1>13, <2>1, Joined
  <2>3. \A i \in 1 .. Len(t3) + Len(s0) : t4[i] = IF i <= Len(t3) THEN t3[i] ELSE s0[i - Len(t3)]
    BY <1>13, <2>1, Joined
  <2> QED
    BY <1>9, <1>15, <2>2, <2>3
<1>17. PICK p2 : p2 = r \o c
  OBVIOUS
<1>18. PICK p3 : p3 = p2 \o t4
  OBVIOUS
<1>19. /\ p2 \in Seq(Access) /\ Len(p2) = 28
       /\ \A i \in 1 .. 19 : p2[i] = r[i]
       /\ \A i \in 1 .. 9 : p2[19 + i] = c[i]
  <2>1. r \in Seq(Access) /\ c \in Seq(Access)
    BY <1>7, <1>8
  <2>2. p2 \in Seq(Access) /\ Len(p2) = Len(r) + Len(c)
    BY <1>17, <2>1, Joined
  <2>3. \A i \in 1 .. Len(r) + Len(c) : p2[i] = IF i <= Len(r) THEN r[i] ELSE c[i - Len(r)]
    BY <1>17, <2>1, Joined
  <2> QED
    BY <1>7, <1>8, <2>2, <2>3
<1>20. /\ p3 \in Seq(Access) /\ Len(p3) = 60
       /\ \A i \in 1 .. 28 : p3[i] = p2[i]
       /\ \A i \in 1 .. 32 : p3[28 + i] = t4[i]
  <2>1. p2 \in Seq(Access) /\ t4 \in Seq(Access)
    BY <1>16, <1>19
  <2>2. p3 \in Seq(Access) /\ Len(p3) = Len(p2) + Len(t4)
    BY <1>18, <2>1, Joined
  <2>3. \A i \in 1 .. Len(p2) + Len(t4) : p3[i] = IF i <= Len(p2) THEN p2[i] ELSE t4[i - Len(p2)]
    BY <1>18, <2>1, Joined
  <2> QED
    BY <1>16, <1>19, <2>2, <2>3
<1>21. Program = p3 \o d
  BY <1>1, <1>2, <1>3, <1>4, <1>5, <1>6, <1>11, <1>12, <1>13, <1>17, <1>18
     DEF Program, fdd_init, fdd_seektest
<1>22. /\ Len(Program) = 61
       /\ \A i \in 1 .. 60 : Program[i] = p3[i]
       /\ \A i \in 1 .. 1 : Program[60 + i] = d[i]
  <2>1. p3 \in Seq(Access) /\ d \in Seq(Access)
    BY <1>10, <1>20
  <2>2. Program \in Seq(Access) /\ Len(Program) = Len(p3) + Len(d)
    BY <1>21, <2>1, Joined
  <2>3. \A i \in 1 .. Len(p3) + Len(d) : Program[i] = IF i <= Len(p3) THEN p3[i] ELSE d[i - Len(p3)]
    BY <1>21, <2>1, Joined
  <2> QED
    BY <1>10, <1>20, <2>2, <2>3
<1>23. AtRecalibrate = 21 /\ AtSeeks = 29 /\ AtEnd = 62 /\ Len(fdd_seek_track(0)) = 8
  BY <1>1, <1>2, <1>4, <1>7, <1>9, <1>17, <1>19, <1>22 DEF AtRecalibrate, AtSeeks, AtEnd
<1>24. ASSUME NEW i \in 1 .. 19 PROVE Program[i] = fdd_reset[i]
  <2>1. i \in 1 .. 28 /\ i \in 1 .. 60
    OBVIOUS
  <2> QED
    BY <1>1, <1>19, <1>20, <1>22, <2>1
<1>25. ASSUME NEW i \in 1 .. 9 PROVE Program[19 + i] = RecalibratePart[i]
  <2>1. 19 + i \in 1 .. 28 /\ 19 + i \in 1 .. 60
    OBVIOUS
  <2> QED
    <3>1. Program[19 + i] = p3[19 + i] /\ p3[19 + i] = p2[19 + i] /\ p2[19 + i] = c[i]
      BY <1>19, <1>20, <1>22, <2>1
    <3>2. c = RecalibratePart
      BY <1>2, RecalibrateAccesses
    <3> QED
      BY <3>1, <3>2
<1>26. ASSUME NEW n \in 1 .. 4, NEW i \in 1 .. 8
       PROVE  Program[20 + 8 * n + i] = SeekPart(Targets[n])[i]
  <2>1. /\ s39 = SeekPart(39) /\ s0 = SeekPart(0) /\ s79 = SeekPart(79)
    <3>1. 39 \in Nat /\ 0 \in Nat /\ 79 \in Nat
      BY SMT
    <3> QED
      BY <1>3, <1>4, <1>5, <3>1, SeekAccesses
  <2>2. /\ 8 * n - 8 + i \in 1 .. 32 /\ 28 + (8 * n - 8 + i) = 20 + 8 * n + i
        /\ 20 + 8 * n + i \in 1 .. 60
    OBVIOUS
  <2>3. Program[20 + 8 * n + i] = t4[8 * n - 8 + i]
    <3>1. p3[28 + (8 * n - 8 + i)] = t4[8 * n - 8 + i]
      BY <1>20, <2>2
    <3> QED
      BY <1>22, <2>2, <3>1
  <2>4. CASE n = 1
    <3>1. 8 * n - 8 + i = i /\ i \in 1 .. 24 /\ i \in 1 .. 16
      BY <2>4
    <3>2. Targets[n] = 39
      BY <2>4 DEF Targets
    <3>3. t4[i] = t3[i] /\ t3[i] = t2[i] /\ t2[i] = s39[i]
      BY <1>14, <1>15, <1>16, <3>1
    <3> QED
      BY <2>1, <2>3, <3>1, <3>2, <3>3
  <2>5. CASE n = 2
    <3>1. 8 * n - 8 + i = 8 + i /\ 8 + i \in 1 .. 24 /\ 8 + i \in 1 .. 16
      BY <2>5
    <3>2. Targets[n] = 0
      BY <2>5 DEF Targets
    <3>3. t4[8 + i] = t3[8 + i] /\ t3[8 + i] = t2[8 + i] /\ t2[8 + i] = s0[i]
      BY <1>14, <1>15, <1>16, <3>1
    <3> QED
      BY <2>1, <2>3, <3>1, <3>2, <3>3
  <2>6. CASE n = 3
    <3>1. 8 * n - 8 + i = 16 + i /\ 16 + i \in 1 .. 24
      BY <2>6
    <3>2. Targets[n] = 79
      BY <2>6 DEF Targets
    <3>3. t4[16 + i] = t3[16 + i] /\ t3[16 + i] = s79[i]
      BY <1>14, <1>15, <1>16, <3>1
    <3> QED
      BY <2>1, <2>3, <3>1, <3>2, <3>3
  <2>7. CASE n = 4
    <3>1. 8 * n - 8 + i = 24 + i
      BY <2>7
    <3>2. Targets[n] = 0
      BY <2>7 DEF Targets
    <3> QED
      BY <1>16, <2>1, <2>3, <3>1, <3>2
  <2> QED
    BY <2>4, <2>5, <2>6, <2>7
<1>27. Program[61] = <<"dor", 12>>
  <2>1. 1 \in 1 .. 1 /\ 60 + 1 = 61
    BY SMT
  <2>2. Program[60 + 1] = d[1]
    BY <1>22, <2>1
  <2> QED
    BY <1>10, <2>1, <2>2
<1> QED
  BY <1>22, <1>23, <1>24, <1>25, <1>26, <1>27
-----------------------------------------------------------------------------
(* Where fdd_init is, and what the controller is doing then.               *)

Ready == phase = "command" /\ command = <<>> /\ results = <<>>

Quiet == moving = -1 /\ latched = FALSE

(* A command has been received as far as these bytes.                      *)
Receiving(bytes) ==
  phase = "command" /\ command = bytes /\ results = <<>> /\ outcomes = <<>> /\ Quiet

(* fdd_reset up to the interrupt that ends the reset.                      *)
Resetting ==
  \/ pc = 1 /\ Ready /\ Quiet /\ fdd_received_irq = FALSE
  \/ /\ pc \in {2, 3, 4} /\ phase = "reset" /\ command = <<>> /\ results = <<>> /\ outcomes = <<>>
     /\ Quiet /\ fdd_received_irq = FALSE
     /\ dor = IF pc = 4 THEN 12 ELSE 0
  \/ /\ pc = 4 /\ dor = 12 /\ Ready /\ moving = -1 /\ (latched <=> ~fdd_received_irq)
     /\ Len(outcomes) = 4

(* Its SENSE_INTERRUPTs, of which j are over.                              *)
Emptying(j) ==
  /\ Quiet
  /\ \/ pc = 5 + 3 * j /\ Ready /\ Len(outcomes) = 4 - j
     \/ /\ j < 4 /\ pc = 6 + 3 * j
        /\ phase = "command" /\ command = <<SENSE_INTERRUPT>> /\ results = <<>>
        /\ Len(outcomes) = 4 - j
     \/ /\ j < 4 /\ pc = 6 + 3 * j
        /\ phase = "result" /\ command = <<>> /\ Len(results) = 2
        /\ Len(outcomes) = 3 - j
     \/ /\ j < 4 /\ pc = 7 + 3 * j
        /\ phase = "result" /\ command = <<>> /\ Len(results) = 1
        /\ Len(outcomes) = 3 - j

Specifying ==
  \/ pc = 18 /\ Receiving(<<SPECIFY>>)
  \/ pc = 19 /\ Receiving(<<SPECIFY, 175>>)

(* No command runs; the last byte of SPECIFY may have just been received.  *)
NoCommand == Receiving(<<>>) \/ Receiving(<<SPECIFY, 175, 2>>)

Statuses == {NotReady, NoTrack0, SEEK_END}

(* What the status says of a movement to the track that has ended.         *)
Outcome(track, status) ==
  /\ status \in Statuses
  /\ Has(status, SEEK_END) => pcn = track /\ (Calibrated => head = track)
  /\ Recalibrating /\ status = NotReady => faults > attempt

(* A movement has ended with this status and the kernel fetches it; c is   *)
(* its wait.                                                               *)
Sensing(c, status) ==
  \/ /\ pc = c /\ Ready /\ outcomes = <<status>> /\ moving = -1
     /\ (latched <=> ~fdd_received_irq)
  \/ pc = c + 1 /\ Ready /\ outcomes = <<status>> /\ Quiet
  \/ /\ pc = c + 2 /\ phase = "command" /\ command = <<SENSE_INTERRUPT>> /\ results = <<>>
     /\ outcomes = <<status>> /\ Quiet
  \/ /\ pc = c + 2 /\ phase = "result" /\ command = <<>> /\ results = <<status, pcn>>
     /\ outcomes = <<>> /\ Quiet
  \/ /\ pc = c + 3 /\ phase = "result" /\ command = <<>> /\ results = <<pcn>>
     /\ outcomes = <<>> /\ Quiet /\ st0 = status

(* A movement, from the last byte of its command on.                       *)
Moving(c, bytes, track) ==
  \/ pc = c /\ Receiving(bytes) /\ fdd_received_irq = FALSE
  \/ /\ pc = c /\ Ready /\ outcomes = <<>> /\ latched = FALSE /\ fdd_received_irq = FALSE
     /\ moving = track
  \/ \E status \in Statuses : Outcome(track, status) /\ Sensing(c, status)

(* The movement's outcome has been sensed.                                 *)
Ended(track) == Receiving(<<>>) /\ st1 = pcn /\ Outcome(track, st0)

InRecalibrate ==
  \/ pc \in {20, 21} /\ NoCommand
  \/ pc = 22 /\ NoCommand /\ fdd_received_irq = FALSE
  \/ pc = 23 /\ Receiving(<<RECALIBRATE>>) /\ fdd_received_irq = FALSE
  \/ Moving(24, <<RECALIBRATE, 0>>, 0)
  \/ pc = 28 /\ Ended(0)

(* The n-th seek of fdd_seektest; it has returned at 29 + 8 * n.           *)
InSeek(n) ==
  \/ n = 1 /\ pc = 29 /\ Receiving(<<>>)
  \/ pc = 22 + 8 * n /\ Receiving(<<>>) /\ fdd_received_irq = FALSE
  \/ pc = 23 + 8 * n /\ Receiving(<<SEEK>>) /\ fdd_received_irq = FALSE
  \/ pc = 24 + 8 * n /\ Receiving(<<SEEK, 0>>) /\ fdd_received_irq = FALSE
  \/ Moving(25 + 8 * n, <<SEEK, 0, Targets[n]>>, Targets[n])
  \/ pc = 29 + 8 * n /\ Ended(Targets[n])

Where ==
  \/ Resetting
  \/ \E j \in 0 .. 4 : Emptying(j)
  \/ Specifying
  \/ InRecalibrate
  \/ \E n \in 1 .. 4 : InSeek(n)
  \/ pc = 62 /\ Receiving(<<>>)

FloppyTypeOK ==
  /\ pc \in 1 .. 62
  /\ attempt \in 0 .. 8
  /\ fdd_received_irq \in BOOLEAN
  /\ outcomes \in Seq(Nat)
  /\ results \in Seq(Nat)
  /\ latched \in BOOLEAN
  /\ head \in 0 .. LastTrack
  /\ pcn \in 0 .. LastTrack
  /\ present \in BOOLEAN
  /\ faults \in Nat

(* The controller's interrupt is on and it is out of reset.                *)
DorOK == pc > 4 => dor \in {12, 28}

(* While the drive is recalibrated, every attempt before this one broke    *)
(* off; from then on the head is where the controller believes it to be.   *)
HeadKnown ==
  /\ Recalibrating => attempt < 8 /\ attempt <= faults
  /\ ~Recalibrating /\ Calibrated => head = pcn
  /\ RecalibrateReachesTrack0

FloppyInv == FloppyTypeOK /\ DorOK /\ HeadKnown /\ Where
-----------------------------------------------------------------------------
(* The access at each place.                                               *)
LEMMA At ==
  /\ Program[1] = <<"dor", 0>> /\ Program[2] = <<"clear">>
  /\ Program[3] = <<"dor", 12>> /\ Program[4] = <<"wait">>
  /\ \A j \in 0 .. 3 : /\ Program[5 + 3 * j] = <<"write", 8>>
                       /\ Program[6 + 3 * j] = <<"read", "nothing">>
                       /\ Program[7 + 3 * j] = <<"read", "nothing">>
  /\ Program[17] = <<"write", 3>> /\ Program[18] = <<"write", 175>> /\ Program[19] = <<"write", 2>>
  /\ Program[20] = <<"dor", 28>> /\ Program[21] = <<"clear">>
  /\ Program[22] = <<"write", 7>> /\ Program[23] = <<"write", 0>>
  /\ Program[28] = <<"retry">> /\ Program[61] = <<"dor", 12>>
<1>1. /\ 1 \in 1 .. 19 /\ 2 \in 1 .. 19 /\ 3 \in 1 .. 19 /\ 4 \in 1 .. 19 /\ 17 \in 1 .. 19
      /\ 18 \in 1 .. 19 /\ 19 \in 1 .. 19
      /\ \A j \in 0 .. 3 : 5 + 3 * j \in 1 .. 19 /\ 6 + 3 * j \in 1 .. 19 /\ 7 + 3 * j \in 1 .. 19
  BY SMT
<1>2. /\ Program[1] = <<"dor", 0>> /\ Program[2] = <<"clear">>
      /\ Program[3] = <<"dor", 12>> /\ Program[4] = <<"wait">>
  BY <1>1, ProgramAccesses, ResetAccesses
<1>3. \A j \in 0 .. 3 : /\ Program[5 + 3 * j] = <<"write", 8>>
                        /\ Program[6 + 3 * j] = <<"read", "nothing">>
                        /\ Program[7 + 3 * j] = <<"read", "nothing">>
  <2> SUFFICES ASSUME NEW j \in 0 .. 3
               PROVE  /\ Program[5 + 3 * j] = <<"write", 8>>
                      /\ Program[6 + 3 * j] = <<"read", "nothing">>
                      /\ Program[7 + 3 * j] = <<"read", "nothing">>
    OBVIOUS
  <2>1. /\ Program[5 + 3 * j] = fdd_reset[5 + 3 * j]
        /\ Program[6 + 3 * j] = fdd_reset[6 + 3 * j]
        /\ Program[7 + 3 * j] = fdd_reset[7 + 3 * j]
    BY <1>1, ProgramAccesses
  <2> QED
    BY <2>1, ResetAccesses
<1>4. Program[17] = <<"write", 3>> /\ Program[18] = <<"write", 175>> /\ Program[19] = <<"write", 2>>
  <2>1. /\ Program[17] = fdd_reset[17] /\ Program[18] = fdd_reset[18]
        /\ Program[19] = fdd_reset[19]
    BY <1>1, ProgramAccesses
  <2> QED
    BY <2>1, ResetAccesses
<1>5. /\ Program[19 + 1] = <<"dor", 28>> /\ Program[19 + 2] = <<"clear">>
      /\ Program[19 + 3] = <<"write", 7>> /\ Program[19 + 4] = <<"write", 0>>
      /\ Program[19 + 9] = <<"retry">>
  BY SMT, ProgramAccesses DEF RecalibratePart
<1> QED
  BY <1>2, <1>3, <1>4, <1>5, ProgramAccesses

(* A movement's wait and SENSE_INTERRUPT.                                  *)
Waits(c) ==
  /\ Program[c] = <<"wait">> /\ Program[c + 1] = <<"write", 8>>
  /\ Program[c + 2] = <<"read", "st0">> /\ Program[c + 3] = <<"read", "st1">>

(* The recalibration waits for its interrupt at access 24. *)
LEMMA RecalibrateWaits == Waits(24)
<1>1. /\ Program[19 + 5] = <<"wait">> /\ Program[19 + 6] = <<"write", 8>>
      /\ Program[19 + 7] = <<"read", "st0">> /\ Program[19 + 8] = <<"read", "st1">>
  BY SMT, ProgramAccesses DEF RecalibratePart
<1> QED
  BY <1>1 DEF Waits

(* The n-th of the four seeks, access by access. *)
LEMMA AtSeek ==
  ASSUME NEW n \in 1 .. 4
  PROVE  /\ Program[21 + 8 * n] = <<"clear">> /\ Program[22 + 8 * n] = <<"write", 15>>
         /\ Program[23 + 8 * n] = <<"write", 0>> /\ Program[24 + 8 * n] = <<"write", Targets[n]>>
         /\ Waits(25 + 8 * n)
         /\ Targets[n] \in {0, 39, 79}
<1>1. \A i \in 1 .. 8 : Program[20 + 8 * n + i] = SeekPart(Targets[n])[i]
  BY ProgramAccesses
<1>2. PICK s : s = SeekPart(Targets[n])
  OBVIOUS
<1>3. /\ s[1] = <<"clear">> /\ s[2] = <<"write", 15>> /\ s[3] = <<"write", 0>>
      /\ s[4] = <<"write", Targets[n]>> /\ s[5] = <<"wait">>
      /\ s[6] = <<"write", 8>> /\ s[7] = <<"read", "st0">> /\ s[8] = <<"read", "st1">>
  BY <1>2 DEF SeekPart
<1>4. /\ Program[20 + 8 * n + 1] = s[1] /\ Program[20 + 8 * n + 2] = s[2]
      /\ Program[20 + 8 * n + 3] = s[3] /\ Program[20 + 8 * n + 4] = s[4]
      /\ Program[20 + 8 * n + 5] = s[5] /\ Program[20 + 8 * n + 6] = s[6]
      /\ Program[20 + 8 * n + 7] = s[7] /\ Program[20 + 8 * n + 8] = s[8]
  BY <1>1, <1>2
<1>5. /\ 20 + 8 * n + 1 = 21 + 8 * n /\ 20 + 8 * n + 2 = 22 + 8 * n /\ 20 + 8 * n + 3 = 23 + 8 * n
      /\ 20 + 8 * n + 4 = 24 + 8 * n /\ 20 + 8 * n + 5 = 25 + 8 * n
      /\ 20 + 8 * n + 6 = (25 + 8 * n) + 1 /\ 20 + 8 * n + 7 = (25 + 8 * n) + 2
      /\ 20 + 8 * n + 8 = (25 + 8 * n) + 3
  OBVIOUS
<1>6. Targets[n] \in {0, 39, 79}
  BY DEF Targets
<1> QED
  BY <1>3, <1>4, <1>5, <1>6 DEF Waits

(* The access decides which action of the kernel it is.                    *)
LEMMA KernelAccess ==
  ASSUME Kernel
  PROVE  /\ pc < 62
         /\ Program[pc][1] = "dor" => WriteDor
         /\ Program[pc][1] = "clear" => Clear
         /\ Program[pc][1] = "wait" => fdd_wait_for_irq
         /\ Program[pc][1] = "write" => fdd_write_byte
         /\ Program[pc][1] = "read" => fdd_read_byte
         /\ Program[pc][1] = "retry" => Retry
BY ProgramAccesses
   DEF Kernel, WriteDor, Clear, fdd_wait_for_irq, fdd_write_byte, fdd_read_byte, Retry, Running

(* The controller does nothing while no command is complete and nothing    *)
(* moves.                                                                  *)
LEMMA NothingToDo ==
  ASSUME phase # "reset", moving = -1, ~Complete
  PROVE  ~Controller
BY DEF Controller, ResetDone, Specify, Sense, Move, Arrive, BreakOff

(* A command is only complete with its last byte. *)
LEMMA CommandLengths ==
  /\ command = <<>> => ~Complete
  /\ \A b : command = <<b>> /\ b # SENSE_INTERRUPT => ~Complete
  /\ \A a, b : command = <<a, b>> /\ a \in {SPECIFY, SEEK} => ~Complete
  /\ command = <<SENSE_INTERRUPT>> => Complete
<1>1. command = <<>> => ~Complete
  BY DEF Complete
<1>2. ASSUME NEW b, command = <<b>>, b # SENSE_INTERRUPT PROVE ~Complete
  <2>1. Len(command) = 1 /\ command[1] = b
    BY <1>2
  <2>2. Bytes(b) \in {2, 3}
    BY <1>2 DEF Bytes
  <2> QED
    BY <2>1, <2>2 DEF Complete
<1>3. ASSUME NEW a \in {SPECIFY, SEEK}, NEW b, command = <<a, b>> PROVE ~Complete
  <2>1. Len(command) = 2 /\ command[1] = a
    BY <1>3
  <2>2. Bytes(a) = 3
    BY SMT DEF Bytes, SENSE_INTERRUPT, RECALIBRATE, SPECIFY, SEEK
  <2> QED
    BY <2>1, <2>2 DEF Complete
<1>4. ASSUME command = <<SENSE_INTERRUPT>> PROVE Complete
  <2>1. Len(command) = 1 /\ command[1] = SENSE_INTERRUPT /\ command # <<>>
    BY <1>4
  <2>2. Bytes(SENSE_INTERRUPT) = 1
    BY DEF Bytes, SENSE_INTERRUPT, RECALIBRATE
  <2> QED
    BY <2>1, <2>2 DEF Complete
<1> QED
  BY <1>1, <1>2, <1>3, <1>4

(* A command is complete of one kind only.                                 *)
LEMMA ControllerSenses ==
  ASSUME phase # "reset", moving = -1, command # <<>>, command[1] = SENSE_INTERRUPT, Controller
  PROVE  Sense
BY DEF Controller, ResetDone, Specify, Sense, Move, Arrive, BreakOff, SENSE_INTERRUPT, RECALIBRATE,
       SPECIFY, SEEK

(* What the controller does once it has a whole command: SPECIFY has no *)
(* answer, *)
LEMMA ControllerSpecifies ==
  ASSUME phase # "reset", moving = -1, command # <<>>, command[1] = SPECIFY, Controller
  PROVE  Specify
BY DEF Controller, ResetDone, Specify, Sense, Move, Arrive, BreakOff, SENSE_INTERRUPT, RECALIBRATE,
       SPECIFY, SEEK

(* and the other two start a movement. *)
LEMMA ControllerMoves ==
  ASSUME phase # "reset", moving = -1, command # <<>>, command[1] \in {RECALIBRATE, SEEK}, Controller
  PROVE  Move
BY DEF Controller, ResetDone, Specify, Sense, Move, Arrive, BreakOff, SENSE_INTERRUPT, RECALIBRATE,
       SPECIFY, SEEK

(* A step that leaves the head alone and goes on inside the same part of   *)
(* fdd_init keeps HeadKnown.                                               *)
LEMMA HeadLeft ==
  ASSUME HeadKnown, UNCHANGED <<attempt, head, pcn, present, faults>>, pc \in 1 .. 62,
         pc' = pc \/ (pc' = pc + 1 /\ pc # 28)
  PROVE  HeadKnown' /\ (Recalibrating' <=> Recalibrating)
<1>1. AtSeeks = 29
  BY ProgramAccesses
<1>2. Recalibrating' <=> Recalibrating
  BY <1>1 DEF Recalibrating
<1>3. pc' = 29 => pc = 29
  OBVIOUS
<1> QED
  BY <1>1, <1>2, <1>3 DEF HeadKnown, RecalibrateReachesTrack0, Calibrated

(* Bytes that are received one after the other.                            *)
LEMMA Received ==
  ASSUME NEW a \in Nat, NEW b \in Nat, NEW c \in Nat
  PROVE  /\ Append(<<>>, a) = <<a>>
         /\ Append(<<a>>, b) = <<a, b>>
         /\ Append(<<a, b>>, c) = <<a, b, c>>
<1>1. Append(<<>>, a) = <<a>>
  OBVIOUS
<1>2. Append(<<a>>, b) = <<a, b>>
  <2>1. /\ Len(Append(<<a>>, b)) = 2
        /\ Append(<<a>>, b)[1] = a /\ Append(<<a>>, b)[2] = b
    BY SMT
  <2>2. Append(<<a>>, b) \in Seq(Nat) /\ <<a, b>> \in Seq(Nat)
    OBVIOUS
  <2>3. \A i \in 1 .. 2 : Append(<<a>>, b)[i] = <<a, b>>[i]
    BY <2>1
  <2> QED
    BY <2>1, <2>2, <2>3, SeqEqual
<1>3. Append(<<a, b>>, c) = <<a, b, c>>
  <2>1. /\ Len(Append(<<a, b>>, c)) = 3
        /\ Append(<<a, b>>, c)[1] = a /\ Append(<<a, b>>, c)[2] = b /\ Append(<<a, b>>, c)[3] = c
    BY SMT
  <2>2. Append(<<a, b>>, c) \in Seq(Nat) /\ <<a, b, c>> \in Seq(Nat)
    OBVIOUS
  <2>3. \A i \in 1 .. 3 : Append(<<a, b>>, c)[i] = <<a, b, c>>[i]
    BY <2>1
  <2> QED
    BY <2>1, <2>2, <2>3, SeqEqual
<1> QED
  BY <1>1, <1>2, <1>3

(* What is not touched by the kernel.                                      *)
LEMMA KernelLeaves ==
  ASSUME Kernel, Program[pc][1] # "dor", Program[pc][1] # "retry"
  PROVE  /\ pc' = pc + 1
         /\ UNCHANGED <<attempt, dor, outcomes, moving, latched, head, pcn, present, faults>>
BY DEF Kernel, WriteDor, Clear, fdd_wait_for_irq, fdd_write_byte, fdd_read_byte, Retry, Running,
       Advance, drive

(* An interrupt is taken.                                                  *)
LEMMA IsrLeaves ==
  ASSUME isr38
  PROVE  /\ latched /\ latched' = FALSE /\ fdd_received_irq' = TRUE
         /\ UNCHANGED <<pc, attempt, st0, st1, dor, phase, command, results, outcomes, moving,
                        head, pcn, present, faults>>
BY DEF isr38, kernel, fifo, drive

-----------------------------------------------------------------------------
(* Each part of fdd_init leads to itself or to the next.                   *)

(* From the reset to its interrupt. *)
LEMMA ResettingStep ==
  ASSUME FloppyTypeOK, HeadKnown, Resetting, FloppyNext
  PROVE  /\ Resetting' \/ Emptying(0)'
         /\ HeadKnown'
         /\ pc' > 4 => dor' \in {12, 28}
<1>1. pc \in 1 .. 4 /\ moving = -1 /\ command = <<>> /\ results = <<>> /\ ~Complete
  BY CommandLengths DEF Resetting, Ready, Quiet
<1>2. CASE pc = 1
  <2>1. Ready /\ Quiet /\ fdd_received_irq = FALSE
    BY <1>2 DEF Resetting
  <2>2. ~Controller /\ ~isr38
    BY <1>1, <2>1, NothingToDo, IsrLeaves DEF Ready, Quiet
  <2>3. WriteDor
    BY <1>2, <2>2, At, KernelAccess DEF FloppyNext
  <2>4. dor' = 0 /\ pc' = 2 /\ ~Has(0, 4)
    <3>1. (0 \div 4) % 2 # 1
      BY SMT
    <3> QED
      BY <1>2, <2>3, <3>1, At DEF WriteDor, Advance, Has
  <2>5. Resetting'
    BY <2>1, <2>3, <2>4 DEF WriteDor, Resetting, Ready, Quiet
  <2>6. HeadKnown'
    BY <1>1, <1>2, <2>3, <2>4, HeadLeft DEF WriteDor, Advance, drive
  <2> QED
    BY <2>4, <2>5, <2>6
<1>3. CASE pc \in {2, 3}
  <2>1. /\ phase = "reset" /\ outcomes = <<>> /\ Quiet /\ fdd_received_irq = FALSE /\ dor = 0
    BY <1>3 DEF Resetting
  <2>2. ~Controller /\ ~isr38
    <3>1. ~Has(0, 4)
      BY SMT DEF Has
    <3> QED
      BY <1>1, <2>1, <3>1, IsrLeaves
         DEF Quiet, Controller, ResetDone, Specify, Sense, Move, Arrive, BreakOff
  <2>3. CASE pc = 2
    <3>1. Clear
      BY <2>2, <2>3, At, KernelAccess DEF FloppyNext
    <3>2. pc' = 3
      BY <2>3, <3>1 DEF Clear, Advance
    <3>3. Resetting'
      BY <1>1, <2>1, <3>1, <3>2 DEF Clear, Resetting, Quiet, fifo
    <3>4. HeadKnown'
      BY <1>1, <2>3, <3>1, <3>2, HeadLeft DEF Clear, Advance, drive
    <3> QED
      BY <3>2, <3>3, <3>4
  <2>4. CASE pc = 3
    <3>1. WriteDor
      BY <2>2, <2>4, At, KernelAccess DEF FloppyNext
    <3>2. dor' = 12 /\ pc' = 4 /\ Has(12, 4)
      <4>1. (12 \div 4) % 2 = 1
        BY SMT
      <4> QED
        BY <2>4, <3>1, <4>1, At DEF WriteDor, Advance, Has
    <3>3. Resetting'
      BY <1>1, <2>1, <3>1, <3>2 DEF WriteDor, Resetting, Quiet, fifo
    <3>4. HeadKnown'
      BY <1>1, <2>4, <3>1, <3>2, HeadLeft DEF WriteDor, Advance, drive
    <3> QED
      BY <3>2, <3>3, <3>4
  <2> QED
    BY <1>3, <2>3, <2>4
<1>4. CASE pc = 4 /\ phase = "reset"
  <2>1. /\ outcomes = <<>> /\ Quiet /\ fdd_received_irq = FALSE /\ dor = 12
    BY <1>4 DEF Resetting, Ready
  <2>2. ~isr38
    BY <2>1, IsrLeaves DEF Quiet
  <2>3. ~Kernel
    BY <1>4, <2>1, At, KernelAccess DEF fdd_wait_for_irq
  <2>4. ResetDone
    BY <1>1, <2>2, <2>3 DEF FloppyNext, Controller, Specify, Sense, Move, Arrive, BreakOff
  <2>5. Len(outcomes') = 4
    <3>1. outcomes' = <<>> \o [d \in 1 .. 4 |-> NotReady + d - 1]
      BY <2>1, <2>4 DEF ResetDone, Raise
    <3> QED
      BY <3>1
  <2>6. latched' = TRUE
    <3>1. Has(12, 8)
      BY SMT DEF Has
    <3> QED
      BY <2>1, <2>4, <3>1 DEF ResetDone, Raise
  <2>7. Resetting'
    BY <1>1, <1>4, <2>1, <2>4, <2>5, <2>6 DEF ResetDone, Resetting, Ready, kernel
  <2>8. HeadKnown'
    BY <1>4, <2>4, ProgramAccesses
       DEF ResetDone, HeadKnown, Recalibrating, RecalibrateReachesTrack0, kernel
  <2> QED
    BY <1>4, <2>4, <2>7, <2>8 DEF ResetDone, kernel
<1>5. CASE pc = 4 /\ phase # "reset"
  <2>1. /\ dor = 12 /\ Ready /\ moving = -1 /\ (latched <=> ~fdd_received_irq)
        /\ Len(outcomes) = 4
    BY <1>5 DEF Resetting
  <2>2. ~Controller
    BY <1>1, <1>5, NothingToDo
  <2>3. CASE isr38
    <3>1. Resetting'
      BY <1>5, <2>1, <2>3, IsrLeaves DEF Resetting, Ready
    <3>2. HeadKnown'
      BY <1>1, <2>3, IsrLeaves, HeadLeft
    <3> QED
      BY <1>5, <2>3, <3>1, <3>2, IsrLeaves
  <2>4. CASE Kernel
    <3>1. fdd_wait_for_irq
      BY <1>5, <2>4, At, KernelAccess
    <3>2. /\ pc' = 5 /\ ~latched
          /\ UNCHANGED <<dor, phase, command, results, outcomes, moving, latched>>
          /\ UNCHANGED <<attempt, head, pcn, present, faults>>
      BY <1>5, <2>1, <3>1 DEF fdd_wait_for_irq, Advance, fifo, drive
    <3>3. Emptying(0)'
      BY <2>1, <3>2 DEF Emptying, Ready, Quiet, FloppyTypeOK
    <3>4. HeadKnown'
      BY <1>5, <3>2, HeadLeft
    <3> QED
      BY <2>1, <3>2, <3>3, <3>4
  <2> QED
    BY <2>2, <2>3, <2>4 DEF FloppyNext
<1> QED
  BY <1>1, <1>2, <1>3, <1>4, <1>5

(* The four interrupts after the reset are sensed in turn. *)
LEMMA EmptyingStep ==
  ASSUME FloppyTypeOK, HeadKnown, NEW j \in 0 .. 4, Emptying(j), FloppyNext
  PROVE  /\ Emptying(j)' \/ (j < 4 /\ Emptying(j + 1)') \/ Specifying'
         /\ HeadKnown'
         /\ dor' = dor
<1>1. Quiet /\ moving = -1 /\ latched = FALSE /\ ~isr38 /\ pc \in 5 .. 17
  <2>1. Quiet /\ moving = -1 /\ latched = FALSE
    BY DEF Emptying, Quiet
  <2>2. pc \in 5 .. 17
    BY DEF Emptying
  <2> QED
    BY <2>1, <2>2, IsrLeaves
<1>2. CASE pc = 5 + 3 * j /\ Ready /\ Len(outcomes) = 4 - j
  <2>1. phase = "command" /\ command = <<>> /\ results = <<>> /\ ~Complete
    BY <1>2, CommandLengths DEF Ready
  <2>2. Kernel
    BY <1>1, <2>1, NothingToDo DEF FloppyNext
  <2>3. CASE j = 4
    <3>1. pc = 17 /\ Program[17] = <<"write", 3>>
      BY <1>2, <2>3, At
    <3>2. fdd_write_byte /\ pc' = pc + 1
          /\ UNCHANGED <<attempt, dor, outcomes, moving, latched, head, pcn, present, faults>>
      BY <2>2, <3>1, KernelAccess, KernelLeaves
    <3>3. command' = <<3>> /\ phase' = "command" /\ results' = <<>>
      <4>1. 3 \in Nat
        BY SMT
      <4> QED
        BY <2>1, <3>1, <3>2, <4>1, Received DEF fdd_write_byte
    <3>4. outcomes = <<>>
      BY <1>2, <2>3 DEF FloppyTypeOK
    <3>5. Specifying'
      BY <1>1, <3>1, <3>2, <3>3, <3>4 DEF Specifying, Receiving, Quiet, SPECIFY
    <3>6. HeadKnown'
      BY <3>1, <3>2, HeadLeft
    <3> QED
      BY <3>2, <3>5, <3>6
  <2>4. CASE j \in 0 .. 3
    <3>1. Program[pc] = <<"write", 8>>
      BY <1>2, <2>4, At
    <3>2. fdd_write_byte /\ pc' = pc + 1
          /\ UNCHANGED <<attempt, dor, outcomes, moving, latched, head, pcn, present, faults>>
      BY <2>2, <3>1, KernelAccess, KernelLeaves
    <3>3. command' = <<8>> /\ phase' = "command" /\ results' = <<>>
      <4>1. 8 \in Nat
        BY SMT
      <4> QED
        BY <2>1, <3>1, <3>2, <4>1, Received DEF fdd_write_byte
    <3>4. Emptying(j)'
      <4>1. pc' = 6 + 3 * j /\ j < 4 /\ Len(outcomes') = 4 - j
        BY <1>2, <2>4, <3>2
      <4> QED
        BY <1>1, <3>2, <3>3, <4>1 DEF Emptying, Quiet, SENSE_INTERRUPT
    <3>5. HeadKnown'
      BY <1>1, <3>2, HeadLeft
    <3> QED
      BY <3>2, <3>4, <3>5
  <2> QED
    BY <2>3, <2>4
<1>3. CASE /\ j < 4 /\ pc = 6 + 3 * j
           /\ phase = "command" /\ command = <<SENSE_INTERRUPT>> /\ results = <<>>
           /\ Len(outcomes) = 4 - j
  <2>1. ~Kernel
    <3>1. Program[pc][1] = "read"
      <4>1. j \in 0 .. 3
        BY <1>3
      <4>2. Program[pc] = <<"read", "nothing">>
        BY <1>3, <4>1, At
      <4> QED
        BY <4>2
    <3> QED
      BY <1>3, <3>1, KernelAccess DEF fdd_read_byte
  <2>2. Sense
    <3>1. command # <<>> /\ command[1] = SENSE_INTERRUPT
      BY <1>3
    <3> QED
      BY <1>1, <1>3, <2>1, <3>1, ControllerSenses DEF FloppyNext
  <2>3. /\ command' = <<>> /\ phase' = "result" /\ results' = <<Head(outcomes), pcn>>
        /\ outcomes' = Tail(outcomes)
        /\ UNCHANGED <<pc, attempt, dor, moving, latched, head, pcn, present, faults>>
    <3>1. outcomes # <<>>
      BY <1>3
    <3> QED
      BY <2>2, <3>1 DEF Sense, kernel, drive
  <2>4. Len(outcomes') = 3 - j /\ Len(results') = 2
    BY <1>3, <2>3 DEF FloppyTypeOK
  <2>5. Emptying(j)'
    BY <1>1, <1>3, <2>3, <2>4 DEF Emptying, Quiet
  <2>6. HeadKnown'
    BY <1>1, <2>3, HeadLeft
  <2> QED
    BY <2>3, <2>5, <2>6
<1>4. CASE /\ j < 4 /\ phase = "result" /\ command = <<>> /\ Len(outcomes) = 3 - j
           /\ pc = 6 + 3 * j \/ pc = 7 + 3 * j
           /\ Len(results) = 8 + 3 * j - pc
  <2>1. Program[pc] = <<"read", "nothing">>
    <3>1. j \in 0 .. 3
      BY <1>4
    <3> QED
      BY <1>4, <3>1, At
  <2>2. Kernel
    BY <1>1, <1>4, CommandLengths, NothingToDo DEF FloppyNext
  <2>3. fdd_read_byte /\ pc' = pc + 1
        /\ UNCHANGED <<attempt, dor, outcomes, moving, latched, head, pcn, present, faults>>
    BY <2>1, <2>2, KernelAccess, KernelLeaves
  <2>4. /\ command' = <<>> /\ results' = Tail(results) /\ results # <<>>
        /\ phase' = IF results' = <<>> THEN "command" ELSE "result"
    BY <1>4, <2>3 DEF fdd_read_byte
  <2>5. Len(results') = Len(results) - 1 /\ results' \in Seq(Nat)
    BY <2>4 DEF FloppyTypeOK
  <2>6. HeadKnown'
    BY <1>1, <2>3, HeadLeft
  <2>7. CASE pc = 6 + 3 * j
    <3>1. Len(results') = 1 /\ pc' = 7 + 3 * j
      BY <1>4, <2>3, <2>5, <2>7
    <3>2. phase' = "result"
      BY <2>4, <3>1
    <3>3. Emptying(j)'
      BY <1>1, <1>4, <2>3, <2>4, <3>1, <3>2 DEF Emptying, Quiet
    <3> QED
      BY <2>3, <2>6, <3>3
  <2>8. CASE pc = 7 + 3 * j
    <3>1. Len(results') = 0 /\ pc' = 5 + 3 * (j + 1) /\ Len(outcomes') = 4 - (j + 1)
      BY <1>4, <2>3, <2>5, <2>8
    <3>2. results' = <<>>
      BY <2>5, <3>1
    <3>3. Emptying(j + 1)'
      BY <1>1, <2>3, <2>4, <3>1, <3>2 DEF Emptying, Quiet, Ready
    <3> QED
      BY <1>4, <2>3, <2>6, <3>3
  <2> QED
    BY <1>4, <2>7, <2>8
<1>5. /\ pc = 6 + 3 * j => 8 + 3 * j - pc = 2
      /\ pc = 7 + 3 * j => 8 + 3 * j - pc = 1
  BY DEF FloppyTypeOK
<1> QED
  BY <1>2, <1>3, <1>4, <1>5, Zenon DEF Emptying

(* The bytes of SPECIFY. *)
LEMMA SpecifyingStep ==
  ASSUME FloppyTypeOK, HeadKnown, Specifying, FloppyNext
  PROVE  /\ Specifying' \/ (pc' = 20 /\ Receiving(<<SPECIFY, 175, 2>>)')
         /\ HeadKnown'
         /\ dor' = dor
<1>1. /\ moving = -1 /\ latched = FALSE /\ ~isr38 /\ pc \in {18, 19}
      /\ phase = "command" /\ results = <<>> /\ outcomes = <<>>
  BY IsrLeaves DEF Specifying, Receiving, Quiet
<1>2. ~Complete
  <2>1. SPECIFY # SENSE_INTERRUPT
    BY SMT DEF SPECIFY, SENSE_INTERRUPT
  <2> QED
    BY <2>1, CommandLengths DEF Specifying, Receiving
<1>3. Kernel
  BY <1>1, <1>2, NothingToDo DEF FloppyNext
<1>4. Program[pc] = <<"write", IF pc = 18 THEN 175 ELSE 2>>
  BY <1>1, At
<1>5. fdd_write_byte /\ pc' = pc + 1
      /\ UNCHANGED <<attempt, dor, outcomes, moving, latched, head, pcn, present, faults>>
  BY <1>3, <1>4, KernelAccess, KernelLeaves
<1>6. /\ command' = Append(command, IF pc = 18 THEN 175 ELSE 2)
      /\ phase' = "command" /\ results' = <<>>
  BY <1>1, <1>4, <1>5 DEF fdd_write_byte
<1>7. HeadKnown'
  BY <1>1, <1>5, HeadLeft
<1>8. SPECIFY \in Nat /\ 175 \in Nat /\ 2 \in Nat
  BY SMT DEF SPECIFY
<1>9. CASE pc = 18
  <2>1. command' = <<SPECIFY, 175>>
    <3>1. command = <<SPECIFY>>
      BY <1>9 DEF Specifying, Receiving
    <3> QED
      BY <1>6, <1>8, <1>9, <3>1, Received
  <2>2. pc' = 19
    BY <1>5, <1>9
  <2>3. Specifying'
    BY <1>1, <1>5, <1>6, <2>1, <2>2, Zenon DEF Specifying, Receiving, Quiet
  <2> QED
    BY <1>5, <1>7, <2>3
<1>10. CASE pc = 19
  <2>1. command' = <<SPECIFY, 175, 2>>
    <3>1. command = <<SPECIFY, 175>>
      BY <1>10 DEF Specifying, Receiving
    <3>2. command' = Append(<<SPECIFY, 175>>, 2)
      BY <1>6, <1>10, <3>1
    <3>3. Append(<<SPECIFY, 175>>, 2) = <<SPECIFY, 175, 2>>
      <4>1. \A a, b, c \in Nat : Append(<<a, b>>, c) = <<a, b, c>>
        BY Received
      <4> QED
        BY <1>8, <4>1, Zenon
    <3> QED
      BY <3>2, <3>3
  <2>2. pc' = 20
    BY <1>5, <1>10
  <2>3. Receiving(<<SPECIFY, 175, 2>>)'
    BY <1>1, <1>5, <1>6, <2>1, Zenon DEF Receiving, Quiet
  <2> QED
    BY <1>5, <1>7, <2>2, <2>3
<1> QED
  BY <1>1, <1>9, <1>10

(* The places where a movement of fdd_init is waited for.                  *)
WaitPlaces == {24, 33, 41, 49, 57}

(* A movement of the recalibration, or a seek.                             *)
MovementTo(c, bytes, track) ==
  /\ c \in WaitPlaces /\ track \in {0, 39, 79} /\ Waits(c)
  /\ \/ c = 24 /\ bytes = <<RECALIBRATE, 0>> /\ track = 0
     \/ c # 24 /\ bytes = <<SEEK, 0, track>>

(* The bits of ST0 and of the digital output register that are tested. *)
LEMMA StatusBits ==
  /\ Has(SEEK_END, SEEK_END) /\ ~Has(NotReady, SEEK_END)
  /\ NotReady # NoTrack0 /\ NotReady # SEEK_END
  /\ Has(12, 8) /\ Has(28, 8) /\ Has(12, 4) /\ Has(28, 4)
BY SMT DEF Has, SEEK_END, NotReady, NoTrack0

(* An outcome remains true while the head is left alone.                   *)
LEMMA OutcomeStays ==
  ASSUME NEW track, NEW status, Outcome(track, status),
         UNCHANGED <<attempt, head, pcn, present, faults>>, Recalibrating' <=> Recalibrating
  PROVE  Outcome(track, status)'
BY DEF Outcome, Calibrated

(* The movement is carried out, or broken off.                             *)
LEMMA MovementStep ==
  ASSUME FloppyTypeOK, HeadKnown, dor \in {12, 28}, FloppyNext,
         NEW c, NEW bytes, NEW track, MovementTo(c, bytes, track), pc = c,
         \/ Receiving(bytes) /\ fdd_received_irq = FALSE
         \/ /\ Ready /\ outcomes = <<>> /\ latched = FALSE /\ fdd_received_irq = FALSE
            /\ moving = track
  PROVE  Moving(c, bytes, track)' /\ HeadKnown' /\ UNCHANGED <<pc, dor>>
<1>1. ~Kernel
  BY KernelAccess DEF MovementTo, Waits, fdd_wait_for_irq
<1>2. ~isr38 /\ latched = FALSE /\ fdd_received_irq = FALSE /\ outcomes = <<>>
  BY IsrLeaves DEF Receiving, Quiet
<1>3. Controller
  BY <1>1, <1>2 DEF FloppyNext
<1>4. CASE Receiving(bytes)
  <2>1. command = bytes /\ phase = "command" /\ results = <<>> /\ moving = -1
    BY <1>4 DEF Receiving, Quiet
  <2>2. command # <<>> /\ command[1] \in {RECALIBRATE, SEEK}
    BY <2>1 DEF MovementTo
  <2>3. Move
    BY <1>3, <2>1, <2>2, ControllerMoves
  <2>4. moving' = track
    <3>1. RECALIBRATE # SEEK
      BY SMT DEF RECALIBRATE, SEEK
    <3>2. CASE c = 24
      <4>1. command[1] = RECALIBRATE /\ track = 0
        BY <2>1, <3>2 DEF MovementTo
      <4> QED
        BY <2>3, <3>1, <4>1 DEF Move
    <3>3. CASE c # 24
      <4>1. command[1] = SEEK /\ command[3] = track
        BY <2>1, <3>3 DEF MovementTo
      <4> QED
        BY <2>3, <3>1, <4>1 DEF Move
    <3> QED
      BY <3>2, <3>3
  <2>5. /\ command' = <<>> /\ UNCHANGED <<pc, fdd_received_irq, dor, phase, results, outcomes, latched>>
        /\ UNCHANGED <<attempt, head, pcn, present, faults>>
    BY <2>3 DEF Move, kernel, drive
  <2>6. Moving(c, bytes, track)'
    BY <1>2, <2>1, <2>4, <2>5 DEF Moving, Ready
  <2>7. HeadKnown'
    BY <2>5, HeadLeft DEF FloppyTypeOK
  <2> QED
    BY <2>5, <2>6, <2>7
<1>5. CASE /\ Ready /\ moving = track
  <2>1. phase = "command" /\ command = <<>> /\ results = <<>> /\ ~Complete /\ track \in 0 .. 79
        /\ moving # -1
    BY <1>5, CommandLengths DEF Ready, MovementTo
  <2>2. Arrive \/ BreakOff
    BY <1>3, <2>1 DEF Controller, ResetDone, Specify, Sense, Move
  <2>3. AtSeeks = 29 /\ (Recalibrating <=> c = 24) /\ (Recalibrating' <=> Recalibrating)
    <3>1. pc' = pc /\ AtSeeks = 29
      BY <2>2, ProgramAccesses DEF Arrive, BreakOff, kernel
    <3>2. c \in {24, 33, 41, 49, 57}
      BY DEF MovementTo, WaitPlaces
    <3> QED
      BY <3>1, <3>2 DEF Recalibrating
  <2>4. \A status \in Nat : Raise(<<status>>) => outcomes' = <<status>> /\ latched' = TRUE
    <3> SUFFICES ASSUME NEW status \in Nat, Raise(<<status>>)
                 PROVE  outcomes' = <<status>> /\ latched' = TRUE
      OBVIOUS
    <3>1. outcomes' = <<>> \o <<status>>
      BY <1>2 DEF Raise
    <3>2. Has(dor, 8)
      BY StatusBits
    <3>3. outcomes' = <<status>>
      BY <3>1
    <3>4. latched' = TRUE
      BY <3>2, Zenon DEF Raise
    <3> QED
      BY <3>3, <3>4
  <2>5. CASE Arrive
    <3>1. PICK status : status = IF Recalibrating /\ ~present THEN NoTrack0 ELSE SEEK_END
      OBVIOUS
    <3>2. status \in Statuses /\ status \in Nat /\ status # NotReady
      BY <3>1, StatusBits, SMT DEF Statuses, NoTrack0, SEEK_END
    <3>3. outcomes' = <<status>> /\ latched' = TRUE
      BY <2>4, <2>5, <3>1, <3>2 DEF Arrive
    <3>4. /\ moving' = -1 /\ pcn' = track
          /\ UNCHANGED <<pc, attempt, fdd_received_irq, dor, phase, command, results, present, faults>>
      BY <1>5, <2>5 DEF Arrive, kernel, fifo
    <3>5. Calibrated => head' = track
      <4> SUFFICES ASSUME Calibrated PROVE head' = track
        OBVIOUS
      <4>1. present
        BY DEF Calibrated
      <4>2. CASE Recalibrating
        BY <2>3, <2>5, <4>1, <4>2 DEF Arrive, MovementTo
      <4>3. CASE ~Recalibrating
        <5>1. head = pcn /\ head \in 0 .. 79
          BY <4>3 DEF HeadKnown, FloppyTypeOK, LastTrack
        <5>2. head' = OnTrack(head + track - pcn)
          BY <1>5, <2>5, <4>1, <4>3 DEF Arrive
        <5>3. head + track - pcn = track
          BY <2>1, <5>1
        <5> QED
          BY <2>1, <5>2, <5>3 DEF OnTrack, LastTrack
      <4> QED
        BY <4>2, <4>3
    <3>6. Calibrated' <=> Calibrated
      BY <3>4 DEF Calibrated
    <3>7. Outcome(track, status)'
      BY <3>2, <3>4, <3>5, <3>6 DEF Outcome
    <3>8. Sensing(c, status)'
      BY <1>2, <2>1, <3>3, <3>4 DEF Sensing, Ready
    <3>9. Moving(c, bytes, track)'
      BY <3>2, <3>7, <3>8 DEF Moving
    <3>10. HeadKnown'
      <4>1. pc # 29
        BY DEF MovementTo, WaitPlaces
      <4> QED
        BY <2>3, <3>4, <3>5, <3>6, <4>1 DEF HeadKnown, RecalibrateReachesTrack0
    <3> QED
      BY <3>4, <3>9, <3>10
  <2>6. CASE BreakOff
    <3>1. NotReady \in Statuses /\ NotReady \in Nat
      BY SMT DEF Statuses, NotReady
    <3>2. outcomes' = <<NotReady>> /\ latched' = TRUE
      BY <2>4, <2>6, <3>1 DEF BreakOff
    <3>3. /\ moving' = -1 /\ faults' = faults + 1
          /\ UNCHANGED <<pc, attempt, fdd_received_irq, dor, phase, command, results>>
          /\ UNCHANGED <<head, pcn, present>>
      BY <2>6 DEF BreakOff, kernel, fifo
    <3>4. Calibrated' => Calibrated
      BY <3>3 DEF Calibrated, FloppyTypeOK
    <3>5. Outcome(track, NotReady)'
      <4>1. Recalibrating => faults' > attempt'
        BY <3>3 DEF HeadKnown, FloppyTypeOK
      <4> QED
        BY <2>3, <3>1, <4>1, StatusBits DEF Outcome
    <3>6. Sensing(c, NotReady)'
      BY <1>2, <2>1, <3>2, <3>3 DEF Sensing, Ready
    <3>7. Moving(c, bytes, track)'
      BY <3>1, <3>5, <3>6 DEF Moving
    <3>8. HeadKnown'
      <4>1. pc # 29
        BY DEF MovementTo, WaitPlaces
      <4>2. attempt <= faults => attempt <= faults + 1
        BY DEF FloppyTypeOK
      <4> QED
        BY <2>3, <3>3, <3>4, <4>1, <4>2 DEF HeadKnown, RecalibrateReachesTrack0
    <3> QED
      BY <3>3, <3>7, <3>8
  <2> QED
    BY <2>2, <2>5, <2>6
<1> QED
  BY <1>4, <1>5

(* The kernel takes the interrupt of a movement and fetches its outcome.   *)
LEMMA SensingStep ==
  ASSUME FloppyTypeOK, HeadKnown, FloppyNext,
         NEW c \in WaitPlaces, Waits(c), NEW track, NEW status \in Statuses,
         Outcome(track, status), Sensing(c, status)
  PROVE  /\ Outcome(track, status)' /\ HeadKnown' /\ dor' = dor
         /\ \/ Sensing(c, status)'
            \/ pc' = c + 4 /\ Receiving(<<>>)' /\ st1' = pcn' /\ st0' = status
<1>1. /\ moving = -1 /\ phase # "reset" /\ pc \in c .. c + 3
      /\ c \in 24 .. 57 /\ c # 25 /\ c # 26 /\ c # 27 /\ c # 28
  <2>1. c \in 24 .. 57 /\ c # 25 /\ c # 26 /\ c # 27 /\ c # 28
    BY DEF WaitPlaces
  <2>2. moving = -1 /\ phase # "reset"
    BY DEF Sensing, Ready, Quiet
  <2>3. pc = c \/ pc = c + 1 \/ pc = c + 2 \/ pc = c + 3
    BY DEF Sensing
  <2> QED
    BY <2>1, <2>2, <2>3
<1>2. status \in Nat /\ pcn \in Nat
  BY SMT DEF Statuses, NotReady, NoTrack0, SEEK_END, FloppyTypeOK, LastTrack
<1>3. ASSUME UNCHANGED <<attempt, head, pcn, present, faults>>, pc' = pc \/ pc' = pc + 1
      PROVE  Outcome(track, status)' /\ HeadKnown'
  <2>1. pc # 28 /\ pc \in 1 .. 62
    BY <1>1
  <2>2. HeadKnown' /\ (Recalibrating' <=> Recalibrating)
    BY <1>3, <2>1, HeadLeft
  <2> QED
    BY <1>3, <2>2, OutcomeStays
<1>4. CASE /\ pc = c /\ Ready /\ outcomes = <<status>> /\ (latched <=> ~fdd_received_irq)
  <2>1. phase = "command" /\ command = <<>> /\ results = <<>> /\ ~Controller
    BY <1>1, <1>4, CommandLengths, NothingToDo DEF Ready
  <2>2. CASE isr38
    <3>1. /\ latched' = FALSE /\ fdd_received_irq' = TRUE
          /\ UNCHANGED <<pc, attempt, dor, phase, command, results, outcomes, moving,
                         head, pcn, present, faults>>
      BY <2>2, IsrLeaves
    <3>2. Sensing(c, status)'
      BY <1>1, <1>4, <2>1, <3>1 DEF Sensing, Ready
    <3> QED
      BY <1>3, <3>1, <3>2
  <2>3. CASE Kernel
    <3>1. fdd_wait_for_irq /\ pc' = pc + 1
          /\ UNCHANGED <<attempt, dor, outcomes, moving, latched, head, pcn, present, faults>>
      BY <1>4, <2>3, KernelAccess, KernelLeaves DEF Waits
    <3>2. /\ UNCHANGED <<phase, command, results>> /\ latched = FALSE
      <4>1. fdd_received_irq
        BY <3>1 DEF fdd_wait_for_irq
      <4>2. latched = FALSE
        BY <1>4, <4>1 DEF FloppyTypeOK
      <4> QED
        BY <3>1, <4>2 DEF fdd_wait_for_irq, fifo
    <3>3. Sensing(c, status)'
      <4>1. pc' = c + 1
        BY <1>4, <3>1
      <4>2. Ready' /\ Quiet'
        BY <1>1, <2>1, <3>1, <3>2, Zenon DEF Ready, Quiet
      <4> QED
        BY <1>4, <3>1, <4>1, <4>2 DEF Sensing
    <3> QED
      BY <1>3, <3>1, <3>3
  <2> QED
    BY <2>1, <2>2, <2>3 DEF FloppyNext
<1>5. CASE pc = c + 1 /\ Ready /\ outcomes = <<status>> /\ Quiet
  <2>1. /\ phase = "command" /\ command = <<>> /\ results = <<>> /\ ~Controller /\ ~isr38
    BY <1>1, <1>5, CommandLengths, NothingToDo, IsrLeaves DEF Ready, Quiet
  <2>2. fdd_write_byte /\ pc' = pc + 1 /\ Program[pc] = <<"write", 8>>
        /\ UNCHANGED <<attempt, dor, outcomes, moving, latched, head, pcn, present, faults>>
    BY <1>5, <2>1, KernelAccess, KernelLeaves DEF Waits, FloppyNext
  <2>3. command' = <<SENSE_INTERRUPT>> /\ phase' = "command" /\ results' = <<>>
    <3>1. 8 \in Nat
      BY SMT
    <3> QED
      BY <2>1, <2>2, <3>1, Received DEF fdd_write_byte, SENSE_INTERRUPT
  <2>4. Sensing(c, status)'
    <3>1. pc' = c + 2
      BY <1>1, <1>5, <2>2
    <3> QED
      BY <1>5, <2>2, <2>3, <3>1, Zenon DEF Sensing, Quiet
  <2> QED
    BY <1>3, <2>2, <2>4
<1>6. CASE /\ pc = c + 2 /\ phase = "command" /\ command = <<SENSE_INTERRUPT>> /\ results = <<>>
           /\ outcomes = <<status>> /\ Quiet
  <2>1. ~Kernel
    BY <1>6, KernelAccess DEF Waits, fdd_read_byte
  <2>2. Sense
    <3>1. command # <<>> /\ command[1] = SENSE_INTERRUPT /\ ~isr38
      BY <1>6, IsrLeaves DEF Quiet
    <3> QED
      BY <1>1, <1>6, <2>1, <3>1, ControllerSenses DEF FloppyNext
  <2>3. /\ command' = <<>> /\ phase' = "result" /\ results' = <<status, pcn>> /\ outcomes' = <<>>
        /\ UNCHANGED <<pc, attempt, dor, moving, latched, head, pcn, present, faults>>
    <3>1. outcomes # <<>> /\ Head(outcomes) = status /\ Tail(outcomes) = <<>>
      BY <1>2, <1>6
    <3> QED
      BY <2>2, <3>1 DEF Sense, kernel, drive
  <2>4. Sensing(c, status)'
    BY <1>6, <2>3, Zenon DEF Sensing, Quiet
  <2> QED
    BY <1>3, <2>3, <2>4
<1>7. CASE /\ pc = c + 2 /\ phase = "result" /\ command = <<>> /\ results = <<status, pcn>>
           /\ outcomes = <<>> /\ Quiet
  <2>1. ~Controller /\ ~isr38
    BY <1>1, <1>7, CommandLengths, NothingToDo, IsrLeaves DEF Quiet
  <2>2. fdd_read_byte /\ pc' = pc + 1 /\ Program[pc] = <<"read", "st0">>
        /\ UNCHANGED <<attempt, dor, outcomes, moving, latched, head, pcn, present, faults>>
    BY <1>7, <2>1, KernelAccess, KernelLeaves DEF Waits, FloppyNext
  <2>3. results' = <<pcn>> /\ phase' = "result" /\ command' = <<>> /\ st0' = status
    <3>1. Head(results) = status /\ Tail(results) = <<pcn>> /\ <<pcn>> # <<>>
      BY <1>2, <1>7
    <3> QED
      BY <1>7, <2>2, <3>1 DEF fdd_read_byte
  <2>4. Sensing(c, status)'
    <3>1. pc' = c + 3
      BY <1>1, <1>7, <2>2
    <3> QED
      BY <1>7, <2>2, <2>3, <3>1, Zenon DEF Sensing, Quiet
  <2> QED
    BY <1>3, <2>2, <2>4
<1>8. CASE /\ pc = c + 3 /\ phase = "result" /\ command = <<>> /\ results = <<pcn>>
           /\ outcomes = <<>> /\ Quiet /\ st0 = status
  <2>1. ~Controller /\ ~isr38
    BY <1>1, <1>8, CommandLengths, NothingToDo, IsrLeaves DEF Quiet
  <2>2. fdd_read_byte /\ pc' = pc + 1 /\ Program[pc] = <<"read", "st1">>
        /\ UNCHANGED <<attempt, dor, outcomes, moving, latched, head, pcn, present, faults>>
    BY <1>8, <2>1, KernelAccess, KernelLeaves DEF Waits, FloppyNext
  <2>3. results' = <<>> /\ phase' = "command" /\ command' = <<>> /\ st1' = pcn /\ st0' = status
    <3>1. Head(results) = pcn /\ Tail(results) = <<>>
      BY <1>2, <1>8
    <3> QED
      BY <1>8, <2>2, <3>1 DEF fdd_read_byte
  <2>4. pc' = c + 4
    BY <1>1, <1>8, <2>2
  <2>5. Receiving(<<>>)'
    BY <1>8, <2>2, <2>3, Zenon DEF Receiving, Quiet
  <2> QED
    BY <1>3, <2>2, <2>3, <2>4, <2>5
<1> QED
  BY <1>4, <1>5, <1>6, <1>7, <1>8, Zenon DEF Sensing

(* A movement leads to its end.                                            *)
LEMMA MovingStep ==
  ASSUME FloppyTypeOK, HeadKnown, dor \in {12, 28}, FloppyNext,
         NEW c, NEW bytes, NEW track, MovementTo(c, bytes, track), Moving(c, bytes, track)
  PROVE  /\ Moving(c, bytes, track)' \/ (pc' = c + 4 /\ Ended(track)')
         /\ HeadKnown' /\ dor' = dor /\ pc' \in c .. c + 4
<1>0. c \in WaitPlaces /\ Waits(c) /\ c \in 1 .. 57
  BY DEF MovementTo, WaitPlaces
<1>1. CASE \/ pc = c /\ Receiving(bytes) /\ fdd_received_irq = FALSE
           \/ /\ pc = c /\ Ready /\ outcomes = <<>> /\ latched = FALSE /\ fdd_received_irq = FALSE
              /\ moving = track
  <2>1. pc = c
    BY <1>1
  <2>2. Moving(c, bytes, track)' /\ HeadKnown' /\ UNCHANGED <<pc, dor>>
    BY <1>1, <2>1, MovementStep
  <2> QED
    BY <1>0, <2>1, <2>2
<1>2. ASSUME NEW status \in Statuses, Outcome(track, status), Sensing(c, status)
      PROVE  /\ Moving(c, bytes, track)' \/ (pc' = c + 4 /\ Ended(track)')
             /\ HeadKnown' /\ dor' = dor /\ pc' \in c .. c + 4
  <2>1. /\ Outcome(track, status)' /\ HeadKnown' /\ dor' = dor
        /\ \/ Sensing(c, status)'
           \/ pc' = c + 4 /\ Receiving(<<>>)' /\ st1' = pcn' /\ st0' = status
    BY <1>0, <1>2, SensingStep
  <2>2. CASE Sensing(c, status)'
    <3>1. Moving(c, bytes, track)'
      BY <2>1, <2>2 DEF Moving
    <3>2. pc' \in c .. c + 4
      <4>1. pc' = c \/ pc' = c + 1 \/ pc' = c + 2 \/ pc' = c + 3
        BY <2>2, Zenon DEF Sensing
      <4> QED
        BY <1>0, <4>1
    <3> QED
      BY <2>1, <3>1, <3>2
  <2>3. CASE pc' = c + 4 /\ Receiving(<<>>)' /\ st1' = pcn' /\ st0' = status
    <3>1. Ended(track)'
      BY <2>1, <2>3 DEF Ended
    <3>2. pc' \in c .. c + 4
      BY <1>0, <2>3
    <3> QED
      BY <2>1, <2>3, <3>1, <3>2
  <2> QED
    BY <2>1, <2>2, <2>3
<1> QED
  BY <1>1, <1>2 DEF Moving

(* One more byte of a command.                                             *)
LEMMA ByteReceived ==
  ASSUME FloppyTypeOK, HeadKnown, FloppyNext,
         NEW bytes, NEW b, Receiving(bytes), ~Complete, Program[pc] = <<"write", b>>, pc # 28
  PROVE  /\ pc' = pc + 1 /\ Receiving(Append(bytes, b))'
         /\ HeadKnown' /\ UNCHANGED <<fdd_received_irq, dor>>
<1>1. /\ phase = "command" /\ command = bytes /\ results = <<>> /\ outcomes = <<>> /\ Quiet
      /\ moving = -1 /\ latched = FALSE
  BY DEF Receiving, Quiet
<1>2. Kernel
  BY <1>1, NothingToDo, IsrLeaves DEF FloppyNext
<1>3. fdd_write_byte /\ pc' = pc + 1
      /\ UNCHANGED <<attempt, dor, outcomes, moving, latched, head, pcn, present, faults>>
  BY <1>2, KernelAccess, KernelLeaves
<1>4. command' = Append(bytes, b) /\ phase' = "command" /\ results' = <<>>
      /\ fdd_received_irq' = fdd_received_irq
  BY <1>1, <1>3 DEF fdd_write_byte
<1>5. Receiving(Append(bytes, b))'
  BY <1>1, <1>3, <1>4, Zenon DEF Receiving, Quiet
<1>6. HeadKnown'
  BY <1>3, HeadLeft DEF FloppyTypeOK
<1> QED
  BY <1>3, <1>4, <1>5, <1>6

(* The flag is cleared.                                                    *)
LEMMA FlagCleared ==
  ASSUME FloppyTypeOK, HeadKnown, Kernel, Program[pc] = <<"clear">>, pc # 28
  PROVE  /\ pc' = pc + 1 /\ fdd_received_irq' = FALSE
         /\ UNCHANGED <<dor, phase, command, results, outcomes, moving, latched>>
         /\ HeadKnown'
<1>1. Clear
  BY KernelAccess
<1>2. /\ pc' = pc + 1 /\ fdd_received_irq' = FALSE
      /\ UNCHANGED <<dor, phase, command, results, outcomes, moving, latched>>
      /\ UNCHANGED <<attempt, head, pcn, present, faults>>
  BY <1>1 DEF Clear, Advance, fifo, drive
<1> QED
  BY <1>2, HeadLeft DEF FloppyTypeOK

(* The recalibration begins, and SPECIFY is carried out meanwhile.         *)
LEMMA BeginRecalibrateStep ==
  ASSUME FloppyTypeOK, HeadKnown, dor \in {12, 28}, FloppyNext, NoCommand,
         pc \in {20, 21} \/ (pc = 22 /\ fdd_received_irq = FALSE)
  PROVE  InRecalibrate' /\ HeadKnown' /\ dor' \in {12, 28} /\ pc' > 4
<1>1. /\ phase = "command" /\ results = <<>> /\ outcomes = <<>> /\ Quiet
      /\ moving = -1 /\ latched = FALSE /\ ~isr38 /\ pc \in 20 .. 22
  <2>1. phase = "command" /\ results = <<>> /\ outcomes = <<>> /\ Quiet
    BY DEF NoCommand, Receiving
  <2>2. pc \in 20 .. 22
    OBVIOUS
  <2> QED
    BY <2>1, <2>2, IsrLeaves DEF Quiet
<1>2. CASE Controller
  <2>1. command = <<SPECIFY, 175, 2>>
    BY <1>1, <1>2, CommandLengths, NothingToDo DEF NoCommand, Receiving
  <2>2. Specify
    <3>1. command # <<>> /\ command[1] = SPECIFY
      BY <2>1
    <3> QED
      BY <1>1, <1>2, <3>1, ControllerSpecifies
  <2>3. /\ command' = <<>>
        /\ UNCHANGED <<pc, attempt, fdd_received_irq, dor, phase, results, outcomes, moving, latched>>
        /\ UNCHANGED <<head, pcn, present, faults>>
    BY <2>2 DEF Specify, kernel, drive
  <2>4. NoCommand'
    BY <1>1, <2>3, Zenon DEF NoCommand, Receiving, Quiet
  <2>5. HeadKnown'
    BY <1>1, <2>3, HeadLeft
  <2>6. InRecalibrate' /\ pc' > 4
    BY <2>3, <2>4 DEF InRecalibrate
  <2> QED
    BY <2>3, <2>5, <2>6
<1>3. CASE Kernel /\ pc = 20
  <2>1. WriteDor
    BY <1>3, At, KernelAccess
  <2>2. /\ dor' = 28 /\ pc' = 21
        /\ UNCHANGED <<attempt, phase, command, results, outcomes, moving, latched>>
        /\ UNCHANGED <<head, pcn, present, faults>>
    <3>1. dor' = 28 /\ Has(dor', 4)
      BY <1>3, <2>1, At, StatusBits DEF WriteDor
    <3> QED
      BY <1>3, <2>1, <3>1 DEF WriteDor, Advance, fifo, drive
  <2>3. NoCommand'
    BY <2>2 DEF NoCommand, Receiving, Quiet
  <2>4. HeadKnown'
    BY <1>3, <2>2, HeadLeft
  <2> QED
    BY <2>2, <2>3, <2>4 DEF InRecalibrate
<1>4. CASE Kernel /\ pc = 21
  <2>1. /\ pc' = 22 /\ fdd_received_irq' = FALSE /\ HeadKnown'
        /\ UNCHANGED <<dor, phase, command, results, outcomes, moving, latched>>
    BY <1>4, At, FlagCleared
  <2>2. NoCommand'
    BY <2>1 DEF NoCommand, Receiving, Quiet
  <2> QED
    BY <2>1, <2>2 DEF InRecalibrate
<1>5. CASE Kernel /\ pc = 22
  <2>1. Program[pc] = <<"write", 7>>
    BY <1>5, At
  <2>2. fdd_write_byte
    BY <1>5, <2>1, KernelAccess
  <2>3. Receiving(<<>>) /\ ~Complete
    <3>1. ~Complete
      BY <2>2 DEF fdd_write_byte
    <3>2. command = <<SPECIFY, 175, 2>> => Complete
      <4> SUFFICES ASSUME command = <<SPECIFY, 175, 2>> PROVE Complete
        OBVIOUS
      <4>1. Len(command) = 3 /\ command[1] = SPECIFY /\ command # <<>>
        OBVIOUS
      <4>2. Bytes(SPECIFY) = 3
        BY SMT DEF Bytes, SPECIFY, SENSE_INTERRUPT, RECALIBRATE
      <4> QED
        BY <4>1, <4>2 DEF Complete
    <3> QED
      BY <3>1, <3>2 DEF NoCommand, Receiving
  <2>4. /\ pc' = 23 /\ Receiving(Append(<<>>, 7))'
        /\ HeadKnown' /\ UNCHANGED <<fdd_received_irq, dor>>
    <3>1. pc # 28
      BY <1>5
    <3>2. /\ pc' = pc + 1 /\ Receiving(Append(<<>>, 7))'
          /\ HeadKnown' /\ UNCHANGED <<fdd_received_irq, dor>>
      BY <2>1, <2>3, <3>1, ByteReceived, Zenon
    <3> QED
      BY <1>5, <3>2
  <2>5. Receiving(<<RECALIBRATE>>)'
    <3>1. Append(<<>>, 7) = <<RECALIBRATE>>
      BY SMT DEF RECALIBRATE
    <3> QED
      BY <2>4, <3>1 DEF Receiving
  <2> QED
    BY <1>5, <2>4, <2>5 DEF InRecalibrate
<1> QED
  BY <1>1, <1>2, <1>3, <1>4, <1>5 DEF FloppyNext

(* fdd_recalibrate tries again, or is over.                                *)
LEMMA RetryStep ==
  ASSUME FloppyTypeOK, HeadKnown, FloppyNext, pc = 28, Ended(0)
  PROVE  /\ (pc' = 21 /\ NoCommand') \/ (pc' = 29 /\ Receiving(<<>>)')
         /\ HeadKnown' /\ dor' = dor
<1>1. /\ phase = "command" /\ command = <<>> /\ results = <<>> /\ outcomes = <<>> /\ Quiet
      /\ moving = -1 /\ latched = FALSE /\ ~isr38 /\ Outcome(0, st0)
  BY IsrLeaves DEF Ended, Receiving, Quiet
<1>2. Retry
  BY <1>1, CommandLengths, NothingToDo, At, KernelAccess DEF FloppyNext
<1>3. /\ UNCHANGED <<dor, phase, command, results, outcomes, moving, latched>>
      /\ UNCHANGED <<head, pcn, present, faults>>
      /\ attempt' = attempt + 1
      /\ pc' = IF Has(st0, SEEK_END) \/ attempt' = 8 THEN 29 ELSE 21
  BY <1>2, ProgramAccesses DEF Retry, fifo, drive
<1>4. Receiving(<<>>)' /\ NoCommand'
  BY <1>1, <1>3, Zenon DEF NoCommand, Receiving, Quiet
<1>5. AtSeeks = 29 /\ Recalibrating /\ attempt < 8 /\ attempt <= faults
      /\ (Calibrated' <=> Calibrated)
  BY <1>3, ProgramAccesses DEF Recalibrating, HeadKnown, Calibrated
<1>6. CASE Has(st0, SEEK_END)
  <2>1. pcn = 0 /\ (Calibrated => head = 0)
    BY <1>1, <1>6 DEF Outcome
  <2>2. pc' = 29 /\ ~Recalibrating'
    BY <1>3, <1>5, <1>6 DEF Recalibrating
  <2>3. HeadKnown'
    BY <1>3, <1>5, <2>1, <2>2 DEF HeadKnown, RecalibrateReachesTrack0
  <2> QED
    BY <1>3, <1>4, <2>2, <2>3
<1>7. CASE ~Has(st0, SEEK_END)
  <2>1. st0 = NotReady
    <3>1. Has(NoTrack0, SEEK_END) /\ Has(SEEK_END, SEEK_END)
      BY SMT DEF Has, NoTrack0, SEEK_END
    <3> QED
      BY <1>1, <1>7, <3>1 DEF Outcome, Statuses
  <2>2. faults > attempt
    BY <1>1, <1>5, <2>1 DEF Outcome
  <2>3. CASE attempt' = 8
    <3>1. ~Calibrated /\ pc' = 29
      BY <1>3, <2>2, <2>3 DEF Calibrated, FloppyTypeOK
    <3>2. HeadKnown'
      BY <1>5, <3>1 DEF HeadKnown, RecalibrateReachesTrack0, Recalibrating
    <3> QED
      BY <1>3, <1>4, <3>1, <3>2
  <2>4. CASE attempt' # 8
    <3>1. pc' = 21
      BY <1>3, <1>7, <2>4
    <3>2. attempt' < 8 /\ attempt' <= faults'
      BY <1>3, <1>5, <2>2, <2>4 DEF FloppyTypeOK
    <3>3. HeadKnown'
      BY <1>5, <3>1, <3>2 DEF HeadKnown, RecalibrateReachesTrack0, Recalibrating
    <3> QED
      BY <1>3, <1>4, <3>1, <3>3
  <2> QED
    BY <2>3, <2>4
<1> QED
  BY <1>6, <1>7

(* An attempt to recalibrate ends in another one or in the first seek. *)
LEMMA InRecalibrateStep ==
  ASSUME FloppyTypeOK, HeadKnown, dor \in {12, 28}, FloppyNext, InRecalibrate
  PROVE  /\ InRecalibrate' \/ InSeek(1)'
         /\ HeadKnown' /\ dor' \in {12, 28} /\ pc' > 4
<1>1. CASE \/ pc \in {20, 21} /\ NoCommand
           \/ pc = 22 /\ NoCommand /\ fdd_received_irq = FALSE
  <2>1. NoCommand /\ (pc \in {20, 21} \/ (pc = 22 /\ fdd_received_irq = FALSE))
    BY <1>1
  <2> QED
    BY <2>1, BeginRecalibrateStep
<1>2. CASE pc = 23 /\ Receiving(<<RECALIBRATE>>) /\ fdd_received_irq = FALSE
  <2>1. ~Complete
    <3>1. RECALIBRATE # SENSE_INTERRUPT
      BY SMT DEF RECALIBRATE, SENSE_INTERRUPT
    <3> QED
      BY <1>2, <3>1, CommandLengths DEF Receiving
  <2>2. /\ pc' = 24 /\ Receiving(Append(<<RECALIBRATE>>, 0))'
        /\ HeadKnown' /\ UNCHANGED <<fdd_received_irq, dor>>
    BY <1>2, <2>1, At, ByteReceived
  <2>3. Append(<<RECALIBRATE>>, 0) = <<RECALIBRATE, 0>>
    <3>1. \A a, b \in Nat : Append(<<a>>, b) = <<a, b>>
      BY Received
    <3>2. RECALIBRATE \in Nat /\ 0 \in Nat
      BY SMT DEF RECALIBRATE
    <3> QED
      BY <3>1, <3>2, Zenon
  <2>4. Receiving(<<RECALIBRATE, 0>>)'
    BY <2>2, <2>3 DEF Receiving
  <2>5. InRecalibrate'
    BY <1>2, <2>2, <2>4 DEF InRecalibrate, Moving
  <2> QED
    BY <2>2, <2>5
<1>3. CASE Moving(24, <<RECALIBRATE, 0>>, 0)
  <2>1. MovementTo(24, <<RECALIBRATE, 0>>, 0)
    BY RecalibrateWaits, SMT DEF MovementTo, WaitPlaces
  <2>2. /\ Moving(24, <<RECALIBRATE, 0>>, 0)' \/ (pc' = 24 + 4 /\ Ended(0)')
        /\ HeadKnown' /\ dor' = dor /\ pc' \in 24 .. 24 + 4
    BY <1>3, <2>1, MovingStep
  <2>3. 24 + 4 = 28 /\ pc' > 4
    BY <2>2
  <2> QED
    BY <2>2, <2>3 DEF InRecalibrate
<1>4. CASE pc = 28 /\ Ended(0)
  <2>1. /\ (pc' = 21 /\ NoCommand') \/ (pc' = 29 /\ Receiving(<<>>)')
        /\ HeadKnown' /\ dor' = dor
    BY <1>4, RetryStep
  <2>2. CASE pc' = 21 /\ NoCommand'
    BY <2>1, <2>2 DEF InRecalibrate
  <2>3. CASE pc' = 29 /\ Receiving(<<>>)'
    <3>1. InSeek(1)'
      BY <2>3 DEF InSeek
    <3> QED
      BY <2>1, <2>3, <3>1
  <2> QED
    BY <2>1, <2>2, <2>3
<1> QED
  BY <1>1, <1>2, <1>3, <1>4 DEF InRecalibrate

(* A seek is begun.                                                        *)
LEMMA SeekBegins ==
  ASSUME FloppyTypeOK, HeadKnown, FloppyNext, NEW n \in 1 .. 4,
         pc = 21 + 8 * n, Receiving(<<>>)
  PROVE  InSeek(n)' /\ HeadKnown' /\ dor' = dor /\ pc' > 4
<1>1. phase = "command" /\ command = <<>> /\ moving = -1 /\ latched = FALSE
  BY DEF Receiving, Quiet
<1>2. Kernel
  BY <1>1, CommandLengths, NothingToDo, IsrLeaves DEF FloppyNext
<1>3. Program[pc] = <<"clear">> /\ pc # 28
  <2>1. Program[21 + 8 * n] = <<"clear">>
    BY AtSeek
  <2>2. 21 + 8 * n # 28
    OBVIOUS
  <2> QED
    BY <2>1, <2>2
<1>4. /\ pc' = 22 + 8 * n /\ fdd_received_irq' = FALSE /\ HeadKnown'
      /\ UNCHANGED <<dor, phase, command, results, outcomes, moving, latched>>
  BY <1>2, <1>3, FlagCleared
<1>5. Receiving(<<>>)'
  BY <1>4 DEF Receiving, Quiet
<1> QED
  BY <1>4, <1>5 DEF InSeek

(* A seek ends in another attempt, in the next seek, or in the return of *)
(* fdd_init. *)
LEMMA InSeekStep ==
  ASSUME FloppyTypeOK, HeadKnown, dor \in {12, 28}, FloppyNext, NEW n \in 1 .. 4, InSeek(n)
  PROVE  /\ InSeek(n)' \/ (n < 4 /\ InSeek(n + 1)') \/ (pc' = 62 /\ Receiving(<<>>)')
         /\ HeadKnown' /\ dor' \in {12, 28} /\ pc' > 4
<1>1. CASE n = 1 /\ pc = 29 /\ Receiving(<<>>)
  <2>1. pc = 21 + 8 * n
    BY <1>1
  <2> QED
    BY <1>1, <2>1, SeekBegins
<1>2. CASE pc = 22 + 8 * n /\ Receiving(<<>>) /\ fdd_received_irq = FALSE
  <2>1. Program[pc] = <<"write", 15>> /\ pc # 28 /\ ~Complete
    <3>1. Program[22 + 8 * n] = <<"write", 15>>
      BY AtSeek
    <3>2. 22 + 8 * n # 28
      OBVIOUS
    <3> QED
      BY <1>2, <3>1, <3>2, CommandLengths DEF Receiving
  <2>2. /\ pc' = pc + 1 /\ Receiving(Append(<<>>, 15))'
        /\ HeadKnown' /\ UNCHANGED <<fdd_received_irq, dor>>
    BY <1>2, <2>1, ByteReceived, Zenon
  <2>3. pc' = 23 + 8 * n /\ Append(<<>>, 15) = <<SEEK>>
    BY <1>2, <2>2 DEF SEEK
  <2>4. Receiving(<<SEEK>>)'
    BY <2>2, <2>3 DEF Receiving
  <2> QED
    BY <1>2, <2>2, <2>3, <2>4 DEF InSeek
<1>3. CASE pc = 23 + 8 * n /\ Receiving(<<SEEK>>) /\ fdd_received_irq = FALSE
  <2>1. Program[pc] = <<"write", 0>> /\ pc # 28 /\ ~Complete
    <3>1. SEEK # SENSE_INTERRUPT
      BY SMT DEF SEEK, SENSE_INTERRUPT
    <3>2. Program[23 + 8 * n] = <<"write", 0>>
      BY AtSeek
    <3>3. 23 + 8 * n # 28
      OBVIOUS
    <3> QED
      BY <1>3, <3>1, <3>2, <3>3, CommandLengths DEF Receiving
  <2>2. /\ pc' = pc + 1 /\ Receiving(Append(<<SEEK>>, 0))'
        /\ HeadKnown' /\ UNCHANGED <<fdd_received_irq, dor>>
    BY <1>3, <2>1, ByteReceived, Zenon
  <2>3. Append(<<SEEK>>, 0) = <<SEEK, 0>>
    <3>1. \A a, b \in Nat : Append(<<a>>, b) = <<a, b>>
      BY Received
    <3>2. SEEK \in Nat /\ 0 \in Nat
      BY SMT DEF SEEK
    <3> QED
      BY <3>1, <3>2, Zenon
  <2>4. pc' = 24 + 8 * n
    BY <1>3, <2>2
  <2>5. Receiving(<<SEEK, 0>>)'
    BY <2>2, <2>3 DEF Receiving
  <2> QED
    BY <1>3, <2>2, <2>4, <2>5 DEF InSeek
<1>4. CASE pc = 24 + 8 * n /\ Receiving(<<SEEK, 0>>) /\ fdd_received_irq = FALSE
  <2>1. Program[pc] = <<"write", Targets[n]>> /\ pc # 28 /\ ~Complete
    <3>1. \A a, b : command = <<a, b>> /\ a \in {SPECIFY, SEEK} => ~Complete
      BY CommandLengths
    <3>2. command = <<SEEK, 0>>
      BY <1>4 DEF Receiving
    <3>3. ~Complete
      BY <3>1, <3>2, Zenon
    <3> QED
      BY <1>4, <3>3, AtSeek
  <2>2. /\ pc' = pc + 1 /\ Receiving(Append(<<SEEK, 0>>, Targets[n]))'
        /\ HeadKnown' /\ UNCHANGED <<fdd_received_irq, dor>>
    BY <1>4, <2>1, ByteReceived, Zenon
  <2>3. Append(<<SEEK, 0>>, Targets[n]) = <<SEEK, 0, Targets[n]>>
    <3>1. \A a, b, c \in Nat : Append(<<a, b>>, c) = <<a, b, c>>
      BY Received
    <3>2. SEEK \in Nat /\ 0 \in Nat
      BY SMT DEF SEEK
    <3>3. Targets[n] \in Nat
      <4>1. Targets[n] \in {0, 39, 79}
        BY AtSeek
      <4> QED
        BY <4>1, SMT
    <3> QED
      BY <3>1, <3>2, <3>3, Zenon
  <2>4. pc' = 25 + 8 * n
    BY <1>4, <2>2
  <2>5. Receiving(<<SEEK, 0, Targets[n]>>)'
    BY <2>2, <2>3 DEF Receiving
  <2> QED
    BY <1>4, <2>2, <2>4, <2>5 DEF InSeek, Moving
<1>5. CASE Moving(25 + 8 * n, <<SEEK, 0, Targets[n]>>, Targets[n])
  <2>1. MovementTo(25 + 8 * n, <<SEEK, 0, Targets[n]>>, Targets[n])
    <3>1. 25 + 8 * n \in WaitPlaces /\ 25 + 8 * n # 24
      BY DEF WaitPlaces
    <3>2. Waits(25 + 8 * n) /\ Targets[n] \in {0, 39, 79}
      BY AtSeek
    <3> QED
      BY <3>1, <3>2 DEF MovementTo
  <2>2. /\ \/ Moving(25 + 8 * n, <<SEEK, 0, Targets[n]>>, Targets[n])'
           \/ pc' = 25 + 8 * n + 4 /\ Ended(Targets[n])'
        /\ HeadKnown' /\ dor' = dor /\ pc' \in 25 + 8 * n .. 25 + 8 * n + 4
    BY <1>5, <2>1, MovingStep
  <2>3. 25 + 8 * n + 4 = 29 + 8 * n /\ pc' > 4
    BY <2>2
  <2> QED
    BY <2>2, <2>3 DEF InSeek
<1>6. CASE pc = 29 + 8 * n /\ Ended(Targets[n])
  <2>1. Receiving(<<>>)
    BY <1>6 DEF Ended
  <2>2. CASE n \in 1 .. 3
    <3>1. n + 1 \in 1 .. 4 /\ pc = 21 + 8 * (n + 1)
      BY <1>6, <2>2
    <3>2. InSeek(n + 1)' /\ HeadKnown' /\ dor' = dor /\ pc' > 4
      BY <2>1, <3>1, SeekBegins
    <3> QED
      BY <2>2, <3>2
  <2>3. CASE n = 4
    <3>1. pc = 61 /\ phase = "command" /\ command = <<>> /\ moving = -1 /\ latched = FALSE
      BY <1>6, <2>1, <2>3 DEF Receiving, Quiet
    <3>2. WriteDor
      <4>1. ~Controller
        BY <3>1, CommandLengths, NothingToDo
      <4>2. Kernel
        BY <3>1, <4>1, IsrLeaves DEF FloppyNext
      <4> QED
        BY <3>1, <4>2, At, KernelAccess
    <3>3. dor' = 12 /\ Has(dor', 4)
      BY <3>1, <3>2, At, StatusBits DEF WriteDor
    <3>4. /\ pc' = 62 /\ UNCHANGED <<phase, command, results, outcomes, moving, latched>>
          /\ UNCHANGED <<attempt, head, pcn, present, faults>>
      BY <3>1, <3>2, <3>3 DEF WriteDor, Advance, fifo, drive
    <3>5. Receiving(<<>>)'
      BY <2>1, <3>4 DEF Receiving, Quiet
    <3>6. HeadKnown'
      BY <3>1, <3>4, HeadLeft
    <3> QED
      BY <3>3, <3>4, <3>5, <3>6
  <2> QED
    BY <2>2, <2>3
<1> QED
  BY <1>1, <1>2, <1>3, <1>4, <1>5, <1>6 DEF InSeek

(* Nothing moves once fdd_init has returned.                               *)
LEMMA ReturnedStays ==
  ASSUME pc = 62, Receiving(<<>>), FloppyNext
  PROVE  FALSE
<1>1. phase = "command" /\ command = <<>> /\ moving = -1 /\ latched = FALSE
  BY DEF Receiving, Quiet
<1>2. ~Controller
  BY <1>1, CommandLengths, NothingToDo
<1>3. ~isr38
  BY <1>1, IsrLeaves
<1>4. ~Kernel
  BY KernelAccess
<1> QED
  BY <1>2, <1>3, <1>4 DEF FloppyNext
-----------------------------------------------------------------------------
(* What Where says of a state.                                             *)

(* The head only moves between the last byte of a command and its interrupt. *)
LEMMA MovingPlaces ==
  ASSUME NEW c \in WaitPlaces, NEW bytes, NEW track, Moving(c, bytes, track), Waits(c)
  PROVE  /\ pc \in c .. c + 3
         /\ moving = -1 \/ moving = track
         /\ Running("write") => Quiet
<1>1. c \in 24 .. 57
  BY DEF WaitPlaces
<1>2. CASE pc = c /\ (moving = -1 \/ moving = track)
  <2>1. ~Running("write")
    BY <1>2 DEF Running, Waits
  <2> QED
    BY <1>1, <1>2, <2>1
<1>3. CASE (pc = c + 1 \/ pc = c + 2 \/ pc = c + 3) /\ Quiet
  <2>1. pc \in c .. c + 3
    BY <1>1, <1>3
  <2> QED
    BY <1>3, <2>1 DEF Quiet
<1>4. \/ pc = c /\ (moving = -1 \/ moving = track)
      \/ (pc = c + 1 \/ pc = c + 2 \/ pc = c + 3) /\ Quiet
  BY Zenon DEF Moving, Sensing, Receiving, Quiet
<1> QED
  BY <1>2, <1>3, <1>4

(* Where fdd_init is during a seek, and what the controller is doing then; *)
LEMMA SeekPlaces ==
  ASSUME NEW n \in 1 .. 4, InSeek(n)
  PROVE  /\ \/ n = 1 /\ pc = 29
            \/ pc \in 22 + 8 * n .. 28 + 8 * n
            \/ pc = 29 + 8 * n /\ Ended(Targets[n])
         /\ moving \in {-1, 0, 39, 79}
         /\ Running("write") => Quiet
<1>0. /\ 25 + 8 * n \in WaitPlaces /\ Waits(25 + 8 * n) /\ Targets[n] \in {0, 39, 79}
  BY AtSeek DEF WaitPlaces
<1>1. CASE \/ n = 1 /\ pc = 29 /\ Receiving(<<>>)
           \/ pc = 22 + 8 * n /\ Receiving(<<>>)
           \/ pc = 23 + 8 * n /\ Receiving(<<SEEK>>)
           \/ pc = 24 + 8 * n /\ Receiving(<<SEEK, 0>>)
  <2>1. Quiet /\ moving = -1
    BY <1>1 DEF Receiving, Quiet
  <2>2. (n = 1 /\ pc = 29) \/ pc \in 22 + 8 * n .. 28 + 8 * n
    BY <1>1
  <2> QED
    BY <2>1, <2>2
<1>2. CASE Moving(25 + 8 * n, <<SEEK, 0, Targets[n]>>, Targets[n])
  <2>1. /\ pc \in 25 + 8 * n .. 25 + 8 * n + 3
        /\ moving = -1 \/ moving = Targets[n]
        /\ Running("write") => Quiet
    BY <1>0, <1>2, MovingPlaces
  <2> QED
    BY <1>0, <2>1
<1>3. CASE pc = 29 + 8 * n /\ Ended(Targets[n])
  <2>1. Quiet /\ moving = -1
    BY <1>3 DEF Ended, Receiving, Quiet
  <2> QED
    BY <1>3, <2>1
<1> QED
  BY <1>1, <1>2, <1>3 DEF InSeek

(* the same of the recalibration, *)
LEMMA RecalibratePlaces ==
  ASSUME InRecalibrate
  PROVE  pc \in 20 .. 28 /\ moving \in {-1, 0} /\ (Running("write") => Quiet)
<1>1. CASE \/ pc \in {20, 21} /\ NoCommand
           \/ pc = 22 /\ NoCommand
           \/ pc = 23 /\ Receiving(<<RECALIBRATE>>)
           \/ pc = 28 /\ Ended(0)
  <2>1. Quiet /\ moving = -1
    BY <1>1 DEF NoCommand, Ended, Receiving, Quiet
  <2> QED
    BY <1>1, <2>1
<1>2. CASE Moving(24, <<RECALIBRATE, 0>>, 0)
  <2>1. 24 \in WaitPlaces
    BY SMT DEF WaitPlaces
  <2>2. /\ pc \in 24 .. 24 + 3 /\ (moving = -1 \/ moving = 0) /\ (Running("write") => Quiet)
    BY <1>2, <2>1, MovingPlaces, RecalibrateWaits
  <2> QED
    BY <2>2
<1> QED
  BY <1>1, <1>2 DEF InRecalibrate

(* and of what comes before it. *)
LEMMA EarlyPlaces ==
  /\ Resetting => pc \in 1 .. 4 /\ moving = -1
  /\ \A j \in 0 .. 4 : Emptying(j) => pc \in 5 .. 17 /\ Quiet
  /\ Specifying => pc \in {18, 19} /\ Quiet
BY DEF Resetting, Ready, Emptying, Specifying, Receiving, Quiet

(* The head only ever moves to a track, and no byte of a command is        *)
(* written meanwhile.                                                      *)
LEMMA WherePlaces ==
  ASSUME Where
  PROVE  /\ moving \in {-1, 0, 39, 79}
         /\ Running("write") => Quiet
<1>1. CASE Resetting
  <2>1. pc \in {1, 2, 3, 4} /\ moving = -1
    BY <1>1, EarlyPlaces
  <2>2. ~Running("write")
    BY <2>1, At DEF Running
  <2> QED
    BY <2>1, <2>2
<1>2. CASE \E j \in 0 .. 4 : Emptying(j)
  BY <1>2, EarlyPlaces DEF Quiet
<1>3. CASE Specifying
  BY <1>3, EarlyPlaces DEF Quiet
<1>4. CASE InRecalibrate
  BY <1>4, RecalibratePlaces
<1>5. CASE \E n \in 1 .. 4 : InSeek(n)
  BY <1>5, SeekPlaces
<1>6. CASE pc = 62 /\ Receiving(<<>>)
  BY <1>6 DEF Receiving, Quiet
<1> QED
  BY <1>1, <1>2, <1>3, <1>4, <1>5, <1>6 DEF Where

(* Only fdd_recalibrate tries again.                                       *)
LEMMA RetryPlace ==
  ASSUME NEW i \in 1 .. 61, Program[i][1] = "retry"
  PROVE  i < 29
<1>1. ASSUME i \in 29 .. 60 PROVE FALSE
  <2>1. PICK n \in 1 .. 4, k \in 1 .. 8 : i = 20 + 8 * n + k
    <3>1. /\ (i - 21) \div 8 \in 1 .. 4 /\ i - 20 - 8 * ((i - 21) \div 8) \in 1 .. 8
          /\ i = 20 + 8 * ((i - 21) \div 8) + (i - 20 - 8 * ((i - 21) \div 8))
      BY <1>1
    <3> QED
      BY <3>1, Zenon
  <2>2. Program[i] = SeekPart(Targets[n])[k]
    BY <2>1, ProgramAccesses
  <2>3. PICK s : s = SeekPart(Targets[n])
    OBVIOUS
  <2>4. /\ s[1][1] # "retry" /\ s[2][1] # "retry" /\ s[3][1] # "retry" /\ s[4][1] # "retry"
        /\ s[5][1] # "retry" /\ s[6][1] # "retry" /\ s[7][1] # "retry" /\ s[8][1] # "retry"
    BY <2>3 DEF SeekPart
  <2>5. s[k][1] # "retry"
    BY <2>4
  <2> QED
    BY <2>2, <2>3, <2>5
<1>2. ASSUME i = 61 PROVE FALSE
  BY <1>2, ProgramAccesses
<1> QED
  BY <1>1, <1>2

(* Every step keeps the types of the registers.                            *)
LEMMA TypeStep ==
  ASSUME FloppyTypeOK, HeadKnown, moving \in {-1, 0, 39, 79}, FloppyNext
  PROVE  /\ attempt' \in 0 .. 8
         /\ fdd_received_irq' \in BOOLEAN
         /\ outcomes' \in Seq(Nat) /\ results' \in Seq(Nat)
         /\ latched' \in BOOLEAN
         /\ head' \in 0 .. LastTrack /\ pcn' \in 0 .. LastTrack
         /\ present' \in BOOLEAN /\ faults' \in Nat
<1>0. /\ NotReady \in Nat /\ NoTrack0 \in Nat /\ SEEK_END \in Nat /\ Invalid \in Nat
      /\ 0 \in 0 .. LastTrack /\ 39 \in 0 .. LastTrack /\ 79 \in 0 .. LastTrack
      /\ 0 .. LastTrack \subseteq Nat
  BY SMT DEF NotReady, NoTrack0, SEEK_END, Invalid, LastTrack
<1>1. ASSUME NEW status \in Seq(Nat), Raise(status)
      PROVE  outcomes' \in Seq(Nat) /\ latched' \in BOOLEAN
  <2>1. outcomes' \in Seq(Nat)
    BY <1>1 DEF Raise, FloppyTypeOK
  <2>2. latched' \in BOOLEAN
    BY <1>1, Zenon DEF Raise, FloppyTypeOK, Has
  <2> QED
    BY <2>1, <2>2
<1>2. CASE WriteDor
  <2>1. <<>> \in Seq(Nat)
    OBVIOUS
  <2> QED
    BY <1>2, <2>1 DEF WriteDor, Advance, FloppyTypeOK, fifo, drive
<1>3. CASE Clear
  BY <1>3 DEF Clear, Advance, FloppyTypeOK, fifo, drive
<1>4. CASE fdd_wait_for_irq
  BY <1>4 DEF fdd_wait_for_irq, Advance, FloppyTypeOK, fifo, drive
<1>5. CASE fdd_write_byte
  BY <1>5 DEF fdd_write_byte, Advance, FloppyTypeOK, fifo, drive
<1>6. CASE fdd_read_byte
  <2>1. results' \in Seq(Nat)
    BY <1>6 DEF fdd_read_byte, FloppyTypeOK
  <2> QED
    BY <1>6, <2>1 DEF fdd_read_byte, FloppyTypeOK, drive
<1>7. CASE Retry
  <2>1. attempt < 8
    <3>1. Program[pc][1] = "retry" /\ pc \in 1 .. 61
      BY <1>7, ProgramAccesses DEF Retry, Running, FloppyTypeOK
    <3>2. pc < 29
      BY <3>1, RetryPlace
    <3> QED
      BY <3>2, ProgramAccesses DEF HeadKnown, Recalibrating
  <2> QED
    BY <1>7, <2>1 DEF Retry, FloppyTypeOK, fifo, drive
<1>8. CASE isr38
  BY <1>8 DEF isr38, FloppyTypeOK, kernel, fifo, drive
<1>9. CASE ResetDone
  <2>1. [d \in 1 .. 4 |-> NotReady + d - 1] \in Seq(Nat)
    <3>1. \A d \in 1 .. 4 : NotReady + d - 1 \in Nat
      BY SMT DEF NotReady
    <3> QED
      BY <3>1
  <2> QED
    BY <1>0, <1>1, <1>9, <2>1 DEF ResetDone, FloppyTypeOK, kernel
<1>10. CASE Specify
  BY <1>10 DEF Specify, FloppyTypeOK, kernel, drive
<1>11. CASE Sense
  <2>1. outcomes' \in Seq(Nat) /\ results' \in Seq(Nat)
    <3>1. pcn \in Nat
      BY <1>0 DEF FloppyTypeOK
    <3>2. CASE outcomes = <<>>
      <4>1. results' = <<Invalid>> /\ outcomes' = outcomes
        BY <1>11, <3>2 DEF Sense
      <4>2. <<Invalid>> \in Seq(Nat)
        BY <1>0
      <4> QED
        BY <4>1, <4>2 DEF FloppyTypeOK
    <3>3. CASE outcomes # <<>>
      <4>1. Head(outcomes) \in Nat /\ Tail(outcomes) \in Seq(Nat)
        BY <3>3 DEF FloppyTypeOK
      <4>2. results' = <<Head(outcomes), pcn>> /\ outcomes' = Tail(outcomes)
        BY <1>11, <3>3 DEF Sense
      <4>3. <<Head(outcomes), pcn>> \in Seq(Nat)
        BY <3>1, <4>1
      <4> QED
        BY <4>1, <4>2, <4>3
    <3> QED
      BY <3>2, <3>3
  <2> QED
    BY <1>11, <2>1 DEF Sense, FloppyTypeOK, kernel, drive
<1>12. CASE Move
  BY <1>12 DEF Move, FloppyTypeOK, kernel, drive
<1>13. CASE Arrive
  <2>1. PICK status : status = IF Recalibrating /\ ~present THEN NoTrack0 ELSE SEEK_END
    OBVIOUS
  <2>2. <<status>> \in Seq(Nat) /\ Raise(<<status>>)
    BY <1>0, <1>13, <2>1 DEF Arrive
  <2>3. outcomes' \in Seq(Nat) /\ latched' \in BOOLEAN
    BY <1>1, <2>2
  <2>4. pcn' \in 0 .. LastTrack
    BY <1>0, <1>13 DEF Arrive
  <2>5. head' \in 0 .. LastTrack
    <3>1. \A t \in Int : OnTrack(t) \in 0 .. LastTrack
      BY DEF OnTrack, LastTrack
    <3>2. head + moving - pcn \in Int
      BY <1>0 DEF FloppyTypeOK
    <3> QED
      BY <1>0, <1>13, <3>1, <3>2 DEF Arrive, FloppyTypeOK
  <2> QED
    BY <1>13, <2>3, <2>4, <2>5 DEF Arrive, FloppyTypeOK, kernel, fifo
<1>14. CASE BreakOff
  <2>1. <<NotReady>> \in Seq(Nat)
    BY <1>0
  <2> QED
    <3>1. Raise(<<NotReady>>)
      BY <1>14 DEF BreakOff
    <3>2. outcomes' \in Seq(Nat) /\ latched' \in BOOLEAN
      BY <1>1, <2>1, <3>1
    <3> QED
      BY <1>14, <3>2 DEF BreakOff, FloppyTypeOK, kernel, fifo
<1> QED
  BY <1>2, <1>3, <1>4, <1>5, <1>6, <1>7, <1>8, <1>9, <1>10, <1>11, <1>12, <1>13, <1>14
     DEF FloppyNext, Kernel, Controller
-----------------------------------------------------------------------------
(* FloppyInv at power-on, and in every step.                               *)

(* FloppyInv holds when startup calls fdd_init, *)
LEMMA InitFloppy == FloppyInit => FloppyInv
<1> SUFFICES ASSUME FloppyInit PROVE FloppyInv
  OBVIOUS
<1>1. FloppyTypeOK
  <2>1. head \in 0 .. LastTrack /\ pcn \in 0 .. LastTrack
    BY FloppyAssumption DEF FloppyInit
  <2>2. outcomes \in Seq(Nat)
    <3>1. <<>> \in Seq(Nat) /\ <<SEEK_END>> \in Seq(Nat)
      BY SMT DEF SEEK_END
    <3> QED
      BY <3>1 DEF FloppyInit
  <2>3. pc \in 1 .. 62 /\ attempt \in 0 .. 8 /\ faults \in Nat
    BY DEF FloppyInit
  <2>4. fdd_received_irq \in BOOLEAN /\ latched \in BOOLEAN /\ present \in BOOLEAN
    BY DEF FloppyInit
  <2>5. results \in Seq(Nat)
    BY DEF FloppyInit
  <2> QED
    BY <2>1, <2>2, <2>3, <2>4, <2>5 DEF FloppyTypeOK
<1>2. DorOK
  BY DEF FloppyInit, DorOK
<1>3. HeadKnown
  BY ProgramAccesses DEF FloppyInit, HeadKnown, RecalibrateReachesTrack0, Recalibrating
<1>4. Resetting
  BY DEF FloppyInit, Resetting, Ready, Quiet
<1> QED
  BY <1>1, <1>2, <1>3, <1>4 DEF FloppyInv, Where

(* The part of fdd_init that runs next.                                    *)
LEMMA WhereStep ==
  ASSUME FloppyInv, FloppyNext
  PROVE  Where' /\ HeadKnown' /\ DorOK'
<1>1. FloppyTypeOK /\ DorOK /\ HeadKnown /\ Where
  BY DEF FloppyInv
<1>2. CASE Resetting
  <2>1. (Resetting' \/ Emptying(0)') /\ HeadKnown' /\ (pc' > 4 => dor' \in {12, 28})
    BY <1>1, <1>2, ResettingStep
  <2>2. 0 \in 0 .. 4
    BY SMT
  <2> QED
    BY <2>1, <2>2 DEF Where, DorOK
<1>3. CASE \E j \in 0 .. 4 : Emptying(j)
  <2>1. PICK j \in 0 .. 4 : Emptying(j)
    BY <1>3
  <2>2. /\ Emptying(j)' \/ (j < 4 /\ Emptying(j + 1)') \/ Specifying'
        /\ HeadKnown' /\ dor' = dor
    BY <1>1, <2>1, EmptyingStep
  <2>3. Where'
    <3>1. j < 4 => j + 1 \in 0 .. 4
      OBVIOUS
    <3> QED
      BY <2>2, <3>1 DEF Where
  <2>4. pc > 4
    BY <2>1, EarlyPlaces
  <2> QED
    BY <1>1, <2>2, <2>3, <2>4 DEF DorOK
<1>4. CASE Specifying
  <2>1. /\ Specifying' \/ (pc' = 20 /\ Receiving(<<SPECIFY, 175, 2>>)')
        /\ HeadKnown' /\ dor' = dor
    BY <1>1, <1>4, SpecifyingStep
  <2>2. Specifying' \/ InRecalibrate'
    BY <2>1 DEF InRecalibrate, NoCommand
  <2>3. pc > 4
    BY <1>4, EarlyPlaces
  <2> QED
    BY <1>1, <2>1, <2>2, <2>3 DEF Where, DorOK
<1>5. CASE InRecalibrate
  <2>1. dor \in {12, 28}
    BY <1>1, <1>5, RecalibratePlaces DEF DorOK
  <2>2. (InRecalibrate' \/ InSeek(1)') /\ HeadKnown' /\ dor' \in {12, 28} /\ pc' > 4
    BY <1>1, <1>5, <2>1, InRecalibrateStep
  <2>3. 1 \in 1 .. 4
    BY SMT
  <2> QED
    BY <2>2, <2>3 DEF Where, DorOK
<1>6. CASE \E n \in 1 .. 4 : InSeek(n)
  <2>1. PICK n \in 1 .. 4 : InSeek(n)
    BY <1>6
  <2>2. dor \in {12, 28}
    <3>1. pc > 4
      BY <2>1, SeekPlaces
    <3> QED
      BY <1>1, <3>1 DEF DorOK
  <2>3. /\ InSeek(n)' \/ (n < 4 /\ InSeek(n + 1)') \/ (pc' = 62 /\ Receiving(<<>>)')
        /\ HeadKnown' /\ dor' \in {12, 28} /\ pc' > 4
    BY <1>1, <2>1, <2>2, InSeekStep
  <2>4. Where'
    <3>1. n < 4 => n + 1 \in 1 .. 4
      OBVIOUS
    <3> QED
      BY <2>3, <3>1 DEF Where
  <2> QED
    BY <2>3, <2>4 DEF DorOK
<1>7. CASE pc = 62 /\ Receiving(<<>>)
  BY <1>7, ReturnedStays
<1> QED
  BY <1>1, <1>2, <1>3, <1>4, <1>5, <1>6, <1>7 DEF Where

(* Where keeps pc inside fdd_init.                                         *)
LEMMA PlaceType == Where' => pc' \in 1 .. 62
<1>1. Resetting' => pc' \in 1 .. 62
  BY DEF Resetting
<1>2. ASSUME NEW j \in 0 .. 4, Emptying(j)' PROVE pc' \in 1 .. 62
  <2>1. pc' = 5 + 3 * j \/ pc' = 6 + 3 * j \/ pc' = 7 + 3 * j
    BY <1>2, Zenon DEF Emptying
  <2> QED
    BY <2>1
<1>3. Specifying' => pc' \in 1 .. 62
  BY DEF Specifying
<1>4. ASSUME NEW c \in WaitPlaces, NEW bytes, NEW track, Moving(c, bytes, track)'
      PROVE  pc' \in 1 .. 62
  <2>1. pc' = c \/ pc' = c + 1 \/ pc' = c + 2 \/ pc' = c + 3
    BY <1>4, Zenon DEF Moving, Sensing
  <2> QED
    BY <2>1 DEF WaitPlaces
<1>5. InRecalibrate' => pc' \in 1 .. 62
  <2>1. Moving(24, <<RECALIBRATE, 0>>, 0)' => pc' \in 1 .. 62
    <3>1. 24 \in WaitPlaces
      BY SMT DEF WaitPlaces
    <3> QED
      BY <1>4, <3>1
  <2> QED
    BY <2>1 DEF InRecalibrate
<1>6. ASSUME NEW n \in 1 .. 4, InSeek(n)' PROVE pc' \in 1 .. 62
  <2>1. Moving(25 + 8 * n, <<SEEK, 0, Targets[n]>>, Targets[n])' => pc' \in 1 .. 62
    <3>1. 25 + 8 * n \in WaitPlaces
      BY DEF WaitPlaces
    <3> QED
      BY <1>4, <3>1
  <2>2. \/ pc' = 29 \/ pc' = 22 + 8 * n \/ pc' = 23 + 8 * n \/ pc' = 24 + 8 * n
        \/ pc' = 29 + 8 * n \/ pc' \in 1 .. 62
    BY <1>6, <2>1, Zenon DEF InSeek
  <2> QED
    BY <2>2
<1> QED
  BY <1>1, <1>2, <1>3, <1>5, <1>6 DEF Where

(* is kept by its accesses and by what the controller and the drive do, *)
LEMMA NextFloppy == FloppyInv /\ FloppyNext => FloppyInv'
<1> SUFFICES ASSUME FloppyInv, FloppyNext PROVE FloppyInv'
  OBVIOUS
<1>1. Where' /\ HeadKnown' /\ DorOK'
  BY WhereStep
<1>2. FloppyTypeOK'
  <2>1. moving \in {-1, 0, 39, 79}
    BY WherePlaces DEF FloppyInv
  <2> QED
    BY <1>1, <2>1, PlaceType, TypeStep DEF FloppyTypeOK, FloppyInv
<1> QED
  BY <1>1, <1>2 DEF FloppyInv

(* A step that leaves fdd_init alone.                                      *)
LEMMA StutterFloppy == FloppyInv /\ UNCHANGED floppyVars => FloppyInv'
<1> SUFFICES ASSUME FloppyInv, UNCHANGED floppyVars PROVE FloppyInv'
  OBVIOUS
<1>1. UNCHANGED <<pc, attempt, st0, st1, fdd_received_irq, dor, phase, command, results,
                  outcomes, moving, latched, head, pcn, present, faults>>
  BY DEF floppyVars
<1>2. FloppyTypeOK' /\ DorOK' /\ HeadKnown'
  BY <1>1 DEF FloppyInv, FloppyTypeOK, DorOK, HeadKnown, Recalibrating, Calibrated,
              RecalibrateReachesTrack0
<1>3. /\ Resetting => Resetting'
      /\ Specifying => Specifying'
      /\ NoCommand => NoCommand'
      /\ \A j \in 0 .. 4 : Emptying(j) => Emptying(j)'
      /\ \A bytes : Receiving(bytes) => Receiving(bytes)'
  BY <1>1 DEF Resetting, Specifying, NoCommand, Emptying, Receiving, Ready, Quiet
<1>4. \A track, status : Outcome(track, status) => Outcome(track, status)'
  BY <1>1 DEF Outcome, Calibrated, Recalibrating
<1>5. \A track : Ended(track) => Ended(track)'
  BY <1>1, <1>3, <1>4 DEF Ended
<1>6. \A c, status : Sensing(c, status) => Sensing(c, status)'
  BY <1>1 DEF Sensing, Ready, Quiet
<1>7. \A c, bytes, track : Moving(c, bytes, track) => Moving(c, bytes, track)'
  BY <1>1, <1>3, <1>4, <1>6 DEF Moving, Ready
<1>8. InRecalibrate => InRecalibrate'
  BY <1>1, <1>3, <1>5, <1>7 DEF InRecalibrate
<1>9. \A n \in 1 .. 4 : InSeek(n) => InSeek(n)'
  BY <1>1, <1>3, <1>5, <1>7 DEF InSeek
<1> QED
  BY <1>1, <1>2, <1>3, <1>8, <1>9 DEF FloppyInv, Where

(* and so it does in the composition: *)
LEMMA InitDrive == Init => FloppyInv
BY InitFloppy DEF Init

(* programming the DMA channel touches none of it. *)
LEMMA NextDrive == FloppyInv /\ [Next]_vars => FloppyInv'
<1> SUFFICES ASSUME FloppyInv, [Next]_vars PROVE FloppyInv'
  OBVIOUS
<1>1. FloppyNext \/ UNCHANGED floppyVars
  BY DEF Next, Start, Transfer, vars
<1> QED
  BY <1>1, NextFloppy, StutterFloppy
-----------------------------------------------------------------------------
(* FloppyInv holds between any two accesses of fdd_init, and after it.     *)
THEOREM DriveInvariant == Spec => []FloppyInv
BY InitDrive, NextDrive, PTL DEF Spec

(* fdd_seek_track returns when its own seek has ended: what it read is the *)
(* outcome of this seek, and a head that was calibrated is on the track.   *)
THEOREM DriveSeekArrives == Spec => []SeekArrives
<1>1. FloppyInv => SeekArrives
  <2> SUFFICES ASSUME FloppyInv, NEW track \in {0, 39, 79}, SeekReturned(track)
               PROVE  /\ moving = -1 /\ outcomes = <<>>
                      /\ Has(st0, SEEK_END) => st1 = track /\ (Calibrated => head = track)
    BY DEF SeekArrives
  <2>1. PICK n \in 1 .. 4 : track = Targets[n] /\ pc = 29 + n * 8
    BY ProgramAccesses DEF SeekReturned, Targets
  <2>2. PICK m \in 1 .. 4 : InSeek(m)
    <3>1. ~Resetting /\ ~Specifying /\ ~InRecalibrate /\ (\A j \in 0 .. 4 : ~Emptying(j))
      BY <2>1, EarlyPlaces, RecalibratePlaces
    <3>2. pc # 62
      BY <2>1
    <3> QED
      BY <3>1, <3>2 DEF FloppyInv, Where
  <2>3. m = n /\ Ended(Targets[n])
    <3>1. \/ m = 1 /\ pc = 29
          \/ pc \in 22 + 8 * m .. 28 + 8 * m
          \/ pc = 29 + 8 * m /\ Ended(Targets[m])
      BY <2>2, SeekPlaces
    <3>2. pc # 29 /\ ~(pc \in 22 + 8 * m .. 28 + 8 * m)
      BY <2>1
    <3>3. pc = 29 + 8 * m => m = n
      BY <2>1
    <3> QED
      BY <3>1, <3>2, <3>3
  <2> QED
    BY <2>1, <2>3 DEF Ended, Receiving, Quiet, Outcome
<1> QED
  BY <1>1, DriveInvariant, PTL

(* When the seek test begins, the head of a drive that is there is where   *)
(* the controller believes it to be, unless every attempt broke off.       *)
THEOREM DriveRecalibrateReachesTrack0 == Spec => []RecalibrateReachesTrack0
<1>1. FloppyInv => RecalibrateReachesTrack0
  BY DEF FloppyInv, HeadKnown
<1> QED
  BY <1>1, DriveInvariant, PTL

(* No command is begun while a movement or an interrupt is under way.      *)
THEOREM DriveOneCommandAtATime == Spec => OneCommandAtATime
<1>1. FloppyInv /\ [Next]_vars =>
        [Running("write") /\ command = <<>> /\ command' # <<>> => moving = -1 /\ ~latched]_floppyVars
  <2>1. FloppyInv => (Running("write") => Quiet)
    BY WherePlaces DEF FloppyInv
  <2> QED
    BY <2>1 DEF Quiet
<1> QED
  BY <1>1, DriveInvariant, PTL DEF Spec, OneCommandAtATime
-----------------------------------------------------------------------------
(* The drive uses its DMA channel as module Dma allows: fdd_init makes no  *)
(* access to the channel, and a transfer is prepared by the calls of dma.c *)
(* alone.                                                                  *)
THEOREM DriveImplementsDma == Spec => DmaSpec
<1>1. Init => DmaInit
  BY DEF Init
<1>2. [Next]_vars => [DmaNext]_dmaVars
  BY DEF Next, Start, Transfer, vars
<1> QED
  BY <1>1, <1>2, PTL DEF Spec, DmaSpec

(* Whenever the drive may transfer, its channel holds the whole address    *)
(* and count of the last DMA_floppy_init_mem.                              *)
THEOREM DriveUnmaskedIsProgrammed == Spec => []UnmaskedIsProgrammed
BY DriveImplementsDma, DmaUnmaskedIsProgrammed, PTL

(* No register of the channel changes while the drive may transfer.        *)
THEOREM DriveRegistersChangeMasked == Spec => RegistersChangeMasked
BY DriveImplementsDma, DmaRegistersChangeMasked, PTL
=============================================================================
