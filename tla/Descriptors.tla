------------------------------ MODULE Descriptors ------------------------------
(***************************************************************************)
(* The tables the processor looks into: segment descriptors (mem.c) and    *)
(* interrupt gates (interrupt.c).  The functions spread base, limit and    *)
(* offset over the fields of the 386; the processor puts them together.    *)
(***************************************************************************)
EXTENDS Integers

Bits16(n, from) == (n \div from) % 65536
Bits8(n, from) == (n \div from) % 256

EXE_SEG == 24
EXE_READABLE == 2
DATA_SEG == 16
DATA_WRITEABLE == 2
DESCTYPE_INT_GATE_386 == 14

init_descriptor(base, limit, granularity, datasize, present, dpl, type) ==
  [base_lo |-> Bits16(base, 1), base_mid |-> Bits8(base, 65536), base_hi |-> Bits8(base, 2^24),
   limit_lo |-> Bits16(limit, 1), limit_hi |-> Bits8(limit, 65536),
   granularity |-> granularity, datasize |-> datasize,
   present |-> present, dpl |-> dpl, type |-> type]

Data4G == init_descriptor(0, 1048575, 1, 1, 1, 0, DATA_SEG + DATA_WRITEABLE)

(* mem_init: kernel code, kernel data, global data; the first stays null.  *)
gdt ==
  [s \in 1 .. 3 |-> IF s = 1 THEN init_descriptor(0, 1048575, 1, 1, 1, 0, EXE_SEG + EXE_READABLE)
                    ELSE Data4G]

(* Mutant of init_interrupt: the high half of the offset is lost. *)
init_interrupt_NearOnly(selector, offset, type, dpl) ==
  [offset_lo |-> Bits16(offset, 1), offset_mid |-> 0,
   selector |-> selector, type |-> type, dpl |-> dpl, present |-> 1]

init_interrupt(selector, offset, type, dpl) ==
  [offset_lo |-> Bits16(offset, 1), offset_mid |-> Bits16(offset, 65536),
   selector |-> selector, type |-> type, dpl |-> dpl, present |-> 1]

(* Where the linker put isr0 to isr47: somewhere above 1 MB. *)
Isr == [n \in 0 .. 47 |-> 1113000 + 37 * n]

(* init_interrupts: one gate for each isr, in their order. *)
idt == [v \in 0 .. 47 |-> init_interrupt(8, Isr[v], DESCTYPE_INT_GATE_386, 0)]

-----------------------------------------------------------------------------
(* The processor. *)

FlatCode(selector) ==
  LET s == selector \div 8 IN
  /\ s \in DOMAIN gdt
  /\ gdt[s].present = 1 /\ gdt[s].type \in EXE_SEG .. 31
  /\ gdt[s].base_lo = 0 /\ gdt[s].base_mid = 0 /\ gdt[s].base_hi = 0
  /\ gdt[s].limit_lo = 65535 /\ gdt[s].limit_hi = 15 /\ gdt[s].granularity = 1

Target(v) == idt[v].offset_lo + 65536 * idt[v].offset_mid

(* The isr that gate v leads to, with interrupts off. *)
LeadsTo == [v \in 0 .. 255 |->
  {n \in DOMAIN Isr :
     /\ v \in DOMAIN idt
     /\ idt[v].present = 1 /\ idt[v].type = DESCTYPE_INT_GATE_386
     /\ FlatCode(idt[v].selector)
     /\ Target(v) = Isr[n]}]
=============================================================================
