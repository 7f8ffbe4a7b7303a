----------------------------- MODULE HeapArena -----------------------------
(***************************************************************************)
(* The heap of kmalloc.c seen as regions of memory instead of as a tree of *)
(* linked nodes.  Every byte of the arena belongs to a block the caller    *)
(* owns, to a chunk the tree can still hand out, to a heap_tree_node, or   *)
(* is lost.  Which chunk a request takes and which chunks the tree loses   *)
(* while it is rebuilt is left open here; module Heap has the tree and     *)
(* implements this module, and this module implements Allocator.           *)
(***************************************************************************)
EXTENDS Integers, FiniteSets

CONSTANTS
  HDR,      \* sizeof(heap_tree_node)
  Base,     \* first address of the heap region
  Limit,    \* first address behind it
  Sizes     \* lengths the callers ask for

(***************************************************************************)
(* kfree puts a new heap_tree_node into the freed block itself, so a block *)
(* shorter than a node has no room for it: callers ask for HDR at least.   *)
(***************************************************************************)
ASSUME ArenaAssumption ==
  /\ HDR \in Nat \ {0}
  /\ Base \in Nat
  /\ Limit \in Nat
  /\ Base < Limit
  /\ Sizes \subseteq {n \in Nat : n >= HDR}

VARIABLES
  live,     \* blocks owned by callers: what kmalloc returned, up to a_header.ptr_end
  free,     \* chunks described by the lists of the tree
  nodes     \* the heap_tree_nodes ever written into the arena

vars == <<live, free, nodes>>

Region == [lo : Base .. Limit, hi : Base .. Limit]

Disjoint(r, s) == r.hi <= s.lo \/ s.hi <= r.lo

-----------------------------------------------------------------------------
(* heap_init: one chunk, the whole arena; its node is outside, in .bss. *)
Init ==
  /\ live = {}
  /\ free = {[lo |-> Base, hi |-> Limit]}
  /\ nodes = {}

(* Mutant of Remainder: it begins behind the node, where the block does. *)
RemainderUnderBlock(c, size) ==
  IF c.hi - c.lo > size + HDR THEN {[lo |-> c.lo + HDR, hi |-> c.hi]} ELSE {}

(* What is left of chunk c behind the node and the block; nothing is put   *)
(* into the tree when nothing is left.                                     *)
Remainder(c, size) ==
  IF c.hi - c.lo > size + HDR THEN {[lo |-> c.lo + HDR + size, hi |-> c.hi]} ELSE {}

(* Mutant of Kmalloc: the first chunk is taken, long enough or not. *)
KmallocAnyChunk(size) ==
  \E c \in free :
    /\ live' = live \cup {[lo |-> c.lo + HDR, hi |-> c.lo + HDR + size]}
    /\ nodes' = nodes \cup {[lo |-> c.lo, hi |-> c.lo + HDR]}
    /\ free' \in SUBSET ((free \ {c}) \cup Remainder(c, size))

(***************************************************************************)
(* A successful kmalloc: node at the start of the chunk, block behind it,  *)
(* the remainder back to the tree.  Rebuilding the tree may drop chunks.   *)
(***************************************************************************)
Kmalloc(size) ==
  \E c \in free :
    /\ c.hi - c.lo >= size + HDR
    /\ live' = live \cup {[lo |-> c.lo + HDR, hi |-> c.lo + HDR + size]}
    /\ nodes' = nodes \cup {[lo |-> c.lo, hi |-> c.lo + HDR]}
    /\ free' \in SUBSET ((free \ {c}) \cup Remainder(c, size))

(* kmalloc finds no node, or one without a list: it returns 0. *)
KmallocNone == UNCHANGED vars

(* Mutant of Kfree: the chunk begins where its node is written. *)
KfreeChunkUnderNode(b) ==
  /\ live' = live \ {b}
  /\ nodes' = nodes \cup {[lo |-> b.lo, hi |-> b.lo + HDR]}
  /\ free' \in SUBSET (free \cup {b})

(***************************************************************************)
(* kfree of a block: its first bytes become the node of the chunk that the *)
(* rest of it makes.  The node in front of the block stays where it is.    *)
(***************************************************************************)
Kfree(b) ==
  /\ live' = live \ {b}
  /\ nodes' = nodes \cup {[lo |-> b.lo, hi |-> b.lo + HDR]}
  /\ free' \in SUBSET (free \cup {[lo |-> b.lo + HDR, hi |-> b.hi]})

(* The early return "kfree: error, dynlist is NULL": the caller gave the   *)
(* block up and the heap has not taken it back.                            *)
KfreeRefused(b) ==
  /\ live' = live \ {b}
  /\ UNCHANGED <<free, nodes>>

Next ==
  \/ \E size \in Sizes : Kmalloc(size)
  \/ KmallocNone
  \/ \E b \in live : Kfree(b)
  \/ \E b \in live : KfreeRefused(b)

Spec == Init /\ [][Next]_vars

-----------------------------------------------------------------------------
(* Every region is made of addresses of the arena. *)
TypeOK ==
  /\ live \subseteq Region
  /\ free \subseteq Region
  /\ nodes \subseteq Region

PairwiseDisjoint(S) == \A r, s \in S : r # s => Disjoint(r, s)

AllDisjoint(S, T) == \A r \in S, s \in T : Disjoint(r, s)

(***************************************************************************)
(* No byte has two uses: blocks, chunks and nodes are inside the arena and *)
(* no two of them overlap, so no caller can see another caller's data or   *)
(* overwrite the bookkeeping by staying inside its own block (kmalloc and  *)
(* kfree, in any order, with any choice of chunk).                         *)
(***************************************************************************)
NoOverlap ==
  /\ \A r \in live \cup free \cup nodes : r.lo <= r.hi
  /\ PairwiseDisjoint(live)
  /\ PairwiseDisjoint(free)
  /\ PairwiseDisjoint(nodes)
  /\ AllDisjoint(live, free)
  /\ AllDisjoint(live, nodes)
  /\ AllDisjoint(free, nodes)

Promise == INSTANCE Allocator

(***************************************************************************)
(* The arena keeps the promise of module Allocator: seen through the       *)
(* blocks alone, every kmalloc and kfree is a step Allocator allows.       *)
(***************************************************************************)
AllocatorSpec == Promise!Spec
=============================================================================
