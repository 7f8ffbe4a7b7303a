--------------------------------- MODULE Drive ---------------------------------
(***************************************************************************)
(* The floppy drive as startup uses it: fdd_init (module Floppy) first,    *)
(* then the calls of dma.c (module Dma) that prepare its transfers.        *)
(***************************************************************************)
EXTENDS Floppy, Dma

vars == <<floppyVars, dmaVars>>

Init == FloppyInit /\ DmaInit

Start == FloppyNext /\ UNCHANGED dmaVars

Transfer == pc = AtEnd /\ DmaNext /\ UNCHANGED floppyVars

Next == Start \/ Transfer

(* The kernel runs, interrupts are on, the controller carries out what it  *)
(* was told, and a movement ends, one way or the other.                    *)
Spec ==
  /\ Init /\ [][Next]_vars
  /\ WF_vars(Kernel /\ UNCHANGED dmaVars)
  /\ WF_vars(isr38 /\ UNCHANGED dmaVars)
  /\ WF_vars(Controller /\ UNCHANGED dmaVars)
=============================================================================
