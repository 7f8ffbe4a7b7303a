----------------------------- MODULE Allocator -----------------------------
(***************************************************************************)
(* What kmalloc and kfree promise their callers, and nothing about how:    *)
(* a request returns 0, or a block of the requested length that lies in    *)
(* the heap region and shares no byte with a block the caller still owns.  *)
(* A failed request leaves every block alone; so does freeing another one. *)
(***************************************************************************)
EXTENDS Integers, FiniteSets

CONSTANTS
  Base,     \* first address of the heap region
  Limit,    \* first address behind it
  Sizes     \* lengths the callers ask for

VARIABLE live     \* the blocks handed out and not yet freed, as regions

Disjoint(r, s) == r.hi <= s.lo \/ s.hi <= r.lo

InHeap(r) == Base <= r.lo /\ r.lo <= r.hi /\ r.hi <= Limit

Init == live = {}

Malloc(size) ==
  \E lo \in Base .. Limit :
    LET block == [lo |-> lo, hi |-> lo + size] IN
      /\ InHeap(block)
      /\ \A r \in live : Disjoint(block, r)
      /\ live' = live \cup {block}

Free(block) ==
  /\ block \in live
  /\ live' = live \ {block}

Next ==
  \/ \E size \in Sizes : Malloc(size)
  \/ \E block \in live : Free(block)

Spec == Init /\ [][Next]_live
=============================================================================
