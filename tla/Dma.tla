---------------------------------- MODULE Dma ----------------------------------
(***************************************************************************)
(* dma.c: the kernel programs channel 2 of the 8237A for the floppy drive. *)
(* Its 16-bit registers are written through 8-bit ports: one flip-flop of  *)
(* the chip says which half comes next, and nobody knows where the         *)
(* firmware left it.                                                       *)
(***************************************************************************)
EXTENDS Integers, Sequences

CONSTANTS
  Addresses,   \* physical addresses a caller gives
  Counts       \* counts a caller gives

(* What the 16-bit address register spans; the page register goes above.   *)
PageSize == 65536

(* The address has 24 bits, the count 16. *)
ASSUME DmaAssumption ==
  /\ Addresses \subseteq 0 .. (256 * PageSize - 1)
  /\ Counts \subseteq 0 .. (PageSize - 1)

VARIABLES
  writes,        \* port writes still to be made, <<port, value>>
  call,        \* history: phys_mem_addr and count of the last call; <<>> before
  flipflop,    \* FALSE: the low half comes next
  address, count, page, mode,   \* the channel's registers
  masked       \* the channel does not answer the drive

chip == <<flipflop, address, count, page, mode>>
dmaVars == <<writes, call, flipflop, address, count, page, mode, masked>>

Low(word) == word % 256
High(word) == (word \div 256) % 256

(* DMA_mask_channel(2) and DMA_unmask_channel(2): bit 2 masks. *)
Mask == <<"mask", 6>>
Unmask == <<"mask", 2>>
ResetFlipflop == <<"flipflop", 255>>

(* Mutant of SetAddress: no reset of the flip-flop. *)
SetAddressNoReset(addr) == <<<<"address", Low(addr)>>, <<"address", High(addr)>>>>

SetAddress(addr) == <<ResetFlipflop, <<"address", Low(addr)>>, <<"address", High(addr)>>>>

SetCount(n) == <<ResetFlipflop, <<"count", Low(n)>>, <<"count", High(n)>>>>

SetPage(addr) == <<<<"page", addr \div PageSize>>>>

(* Mutant of InitMem: the channel is unmasked before the page is set. *)
InitMemUnmaskedEarly(addr, n) ==
  <<Mask>> \o SetAddress(addr) \o SetCount(n) \o <<Unmask>> \o SetPage(addr)

InitMem(addr, n) ==
  <<Mask>> \o SetAddress(addr) \o SetCount(n) \o SetPage(addr) \o <<Unmask>>
-----------------------------------------------------------------------------
DMA_floppy_init_mem ==
  /\ writes = <<>>
  /\ \E addr \in Addresses, n \in Counts :
       /\ writes' = InitMem(addr, n)
       /\ call' = <<addr, n>>
  /\ UNCHANGED <<chip, masked>>

(* DMA_floppy_read and DMA_floppy_write.  The mode 0x56 has the drive      *)
(* write to memory.                                                        *)
DMA_floppy_mode ==
  /\ writes = <<>>
  /\ \E m \in {86, 90} : writes' = <<Mask, <<"mode", m>>, Unmask>>
  /\ UNCHANGED <<call, chip, masked>>

Half(word, value) == IF flipflop THEN Low(word) + 256 * value ELSE 256 * High(word) + value

(* What the chip does with a byte. *)
Written(port, value) ==
  /\ flipflop' = CASE port = "flipflop" -> FALSE
                   [] port \in {"address", "count"} -> ~flipflop
                   [] OTHER -> flipflop
  /\ address' = IF port = "address" THEN Half(address, value) ELSE address
  /\ count' = IF port = "count" THEN Half(count, value) ELSE count
  /\ page' = IF port = "page" THEN value ELSE page
  /\ mode' = IF port = "mode" THEN value ELSE mode
  /\ masked' = IF port = "mask" THEN (value \div 4) % 2 = 1 ELSE masked

outb ==
  /\ writes # <<>>
  /\ Written(Head(writes)[1], Head(writes)[2])
  /\ writes' = Tail(writes)
  /\ UNCHANGED call

(* What the firmware left. *)
DmaInit ==
  /\ writes = <<>> /\ call = <<>>
  /\ flipflop \in BOOLEAN /\ masked \in BOOLEAN
  /\ address = 0 /\ count = 0 /\ page = 0 /\ mode = 0

DmaNext == DMA_floppy_init_mem \/ DMA_floppy_mode \/ outb

DmaSpec == DmaInit /\ [][DmaNext]_dmaVars
-----------------------------------------------------------------------------
(***************************************************************************)
(* Whenever the drive may transfer after DMA_floppy_init_mem, the channel  *)
(* holds the whole address and count of the last call, whatever half the   *)
(* firmware or an earlier call left the flip-flop at.                      *)
(***************************************************************************)
UnmaskedIsProgrammed ==
  ~masked /\ call # <<>> /\ writes = <<>> =>
    PageSize * page + address = call[1] /\ count = call[2]

(***************************************************************************)
(* The registers of the channel never change while the drive may transfer. *)
(***************************************************************************)
RegistersChangeMasked ==
  [][<<address, count, page, mode>>' # <<address, count, page, mode>> => masked]_dmaVars
=============================================================================
