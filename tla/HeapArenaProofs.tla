--------------------------- MODULE HeapArenaProofs ---------------------------
(***************************************************************************)
(* Proofs about module HeapArena, for every arena, every size of a         *)
(* heap_tree_node and every set of lengths not shorter than a node.        *)
(*                                                                         *)
(* NoOverlap is not inductive: kfree writes a node into the block it       *)
(* takes, and that node stays clear of the block's neighbours only if the  *)
(* block is long enough.  IInv adds that.                                  *)
(***************************************************************************)
EXTENDS HeapArena, TLAPS

BlocksHoldANode == \A b \in live : b.lo + HDR <= b.hi

IInv == TypeOK /\ NoOverlap /\ BlocksHoldANode

Inside(r, c) == c.lo <= r.lo /\ r.lo <= r.hi /\ r.hi <= c.hi

(* A part of a region overlaps nothing that the region does not overlap:   *)
(* what kmalloc cuts from a chunk and kfree from a block.                  *)
LEMMA InsideDisjoint ==
  ASSUME NEW r \in Region, NEW c \in Region, NEW s \in Region,
         Inside(r, c), Disjoint(c, s)
  PROVE  Disjoint(r, s) /\ Disjoint(s, r)
BY ArenaAssumption DEF Inside, Disjoint, Region

(* Disjoint is symmetric: whichever of two blocks or chunks came first.   *)
LEMMA DisjointSymmetric ==
  ASSUME NEW r, NEW s, Disjoint(r, s)
  PROVE  Disjoint(s, r)
BY DEF Disjoint

(* heap_init starts with one chunk and nothing else. *)
LEMMA InitInvariant == Init => IInv
BY ArenaAssumption
   DEF Init, IInv, TypeOK, NoOverlap, BlocksHoldANode, Region, PairwiseDisjoint, AllDisjoint

(***************************************************************************)
(* The three parts kmalloc cuts a chunk into are regions of the arena that *)
(* follow one another inside the chunk.                                    *)
(***************************************************************************)
LEMMA ChunkIsCut ==
  ASSUME TypeOK, NEW size \in Sizes, NEW c \in free, c.hi - c.lo >= size + HDR,
         NEW node, node = [lo |-> c.lo, hi |-> c.lo + HDR],
         NEW block, block = [lo |-> c.lo + HDR, hi |-> c.lo + HDR + size]
  PROVE  /\ node \in Region /\ Inside(node, c)
         /\ block \in Region /\ Inside(block, c)
         /\ block.lo + HDR <= block.hi
         /\ Disjoint(node, block)
         /\ \A rest \in Remainder(c, size) :
              /\ rest \in Region /\ Inside(rest, c)
              /\ Disjoint(rest, node) /\ Disjoint(rest, block)
         /\ \A rest, more \in Remainder(c, size) : rest = more
<1>1. c \in [lo : Base .. Limit, hi : Base .. Limit]
  BY DEF TypeOK, Region
<1>2. size \in Nat /\ size >= HDR /\ HDR \in Nat \ {0} /\ Base \in Nat /\ Limit \in Nat
  BY ArenaAssumption
<1>3. node \in Region /\ block \in Region
  BY <1>1, <1>2 DEF Region
<1>4. Inside(node, c) /\ Inside(block, c) /\ Disjoint(node, block) /\ block.lo + HDR <= block.hi
  BY <1>1, <1>2 DEF Inside, Disjoint
<1>5. ASSUME NEW rest \in Remainder(c, size)
      PROVE  /\ rest \in Region /\ Inside(rest, c)
             /\ Disjoint(rest, node) /\ Disjoint(rest, block)
  <2>1. rest = [lo |-> c.lo + HDR + size, hi |-> c.hi] /\ c.hi - c.lo > size + HDR
    BY DEF Remainder
  <2> QED
    BY <1>1, <1>2, <2>1 DEF Region, Inside, Disjoint
<1>6. \A rest, more \in Remainder(c, size) : rest = more
  BY DEF Remainder
<1> QED
  BY <1>3, <1>4, <1>5, <1>6

(* kmalloc keeps the invariant, whichever chunk it takes. *)
LEMMA KmallocInvariant ==
  ASSUME IInv, NEW size \in Sizes, Kmalloc(size)
  PROVE  IInv'
<1> USE DEF IInv
<1>1. PICK c \in free :
        /\ c.hi - c.lo >= size + HDR
        /\ live' = live \cup {[lo |-> c.lo + HDR, hi |-> c.lo + HDR + size]}
        /\ nodes' = nodes \cup {[lo |-> c.lo, hi |-> c.lo + HDR]}
        /\ free' \in SUBSET ((free \ {c}) \cup Remainder(c, size))
  BY DEF Kmalloc
<1> DEFINE node  == [lo |-> c.lo, hi |-> c.lo + HDR]
           block == [lo |-> c.lo + HDR, hi |-> c.lo + HDR + size]
<1>2. /\ node \in Region /\ Inside(node, c)
      /\ block \in Region /\ Inside(block, c)
      /\ block.lo + HDR <= block.hi
      /\ Disjoint(node, block)
      /\ \A rest \in Remainder(c, size) :
           /\ rest \in Region /\ Inside(rest, c)
           /\ Disjoint(rest, node) /\ Disjoint(rest, block)
      /\ \A rest, more \in Remainder(c, size) : rest = more
  BY <1>1, ChunkIsCut
<1>3. /\ live' = live \cup {block}
      /\ nodes' = nodes \cup {node}
      /\ free' \subseteq (free \ {c}) \cup Remainder(c, size)
  BY <1>1
<1> HIDE DEF node, block
<1>4. c \in Region /\ live \subseteq Region /\ free \subseteq Region /\ nodes \subseteq Region
  BY DEF TypeOK
<1>5. ASSUME NEW part \in Region, Inside(part, c)
      PROVE  /\ \A s \in live : Disjoint(part, s) /\ Disjoint(s, part)
             /\ \A s \in nodes : Disjoint(part, s) /\ Disjoint(s, part)
             /\ \A s \in free \ {c} : Disjoint(part, s) /\ Disjoint(s, part)
  <2>1. \A s \in live \cup nodes \cup (free \ {c}) : s \in Region /\ Disjoint(c, s)
    BY <1>4, DisjointSymmetric DEF NoOverlap, AllDisjoint, PairwiseDisjoint
  <2> QED
    BY <1>4, <1>5, <2>1, InsideDisjoint
<1>6. TypeOK'
  BY <1>2, <1>3, <1>4 DEF TypeOK
<1>7. BlocksHoldANode'
  BY <1>2, <1>3 DEF BlocksHoldANode
<1>8. NoOverlap'
  <2>1. \A r \in live' \cup free' \cup nodes' : r.lo <= r.hi
    BY <1>2, <1>3 DEF NoOverlap, Inside
  <2>2. PairwiseDisjoint(live')
    BY <1>2, <1>3, <1>5 DEF NoOverlap, PairwiseDisjoint
  <2>3. PairwiseDisjoint(free')
    BY <1>2, <1>3, <1>5 DEF NoOverlap, PairwiseDisjoint
  <2>4. PairwiseDisjoint(nodes')
    BY <1>2, <1>3, <1>5 DEF NoOverlap, PairwiseDisjoint
  <2>5. AllDisjoint(live', free')
    BY <1>2, <1>3, <1>5, DisjointSymmetric DEF NoOverlap, AllDisjoint
  <2>6. AllDisjoint(live', nodes')
    BY <1>2, <1>3, <1>5, DisjointSymmetric DEF NoOverlap, AllDisjoint
  <2>7. AllDisjoint(free', nodes')
    BY <1>2, <1>3, <1>5, DisjointSymmetric DEF NoOverlap, AllDisjoint
  <2> QED
    BY <2>1, <2>2, <2>3, <2>4, <2>5, <2>6, <2>7
       DEF NoOverlap, PairwiseDisjoint, AllDisjoint
<1> QED
  BY <1>6, <1>7, <1>8

(* kfree keeps the invariant: node and chunk are cut from the block. *)
LEMMA KfreeInvariant ==
  ASSUME IInv, NEW b \in live, Kfree(b)
  PROVE  IInv'
<1> USE DEF IInv
<1> DEFINE node  == [lo |-> b.lo, hi |-> b.lo + HDR]
           chunk == [lo |-> b.lo + HDR, hi |-> b.hi]
<1>1. /\ live' = live \ {b}
      /\ nodes' = nodes \cup {node}
      /\ free' \subseteq free \cup {chunk}
  BY DEF Kfree
<1>2. b \in Region /\ live \subseteq Region /\ free \subseteq Region /\ nodes \subseteq Region
  BY DEF TypeOK
<1>3. /\ node \in Region /\ Inside(node, b)
      /\ chunk \in Region /\ Inside(chunk, b)
      /\ Disjoint(chunk, node)
  BY <1>2, ArenaAssumption DEF BlocksHoldANode, Region, Inside, Disjoint
<1> HIDE DEF node, chunk
<1>4. ASSUME NEW part \in Region, Inside(part, b)
      PROVE  /\ \A s \in live \ {b} : Disjoint(part, s) /\ Disjoint(s, part)
             /\ \A s \in nodes : Disjoint(part, s) /\ Disjoint(s, part)
             /\ \A s \in free : Disjoint(part, s) /\ Disjoint(s, part)
  <2>1. \A s \in (live \ {b}) \cup nodes \cup free : s \in Region /\ Disjoint(b, s)
    BY <1>2 DEF NoOverlap, AllDisjoint, PairwiseDisjoint
  <2> QED
    BY <1>2, <1>4, <2>1, InsideDisjoint
<1>5. TypeOK'
  BY <1>1, <1>2, <1>3 DEF TypeOK
<1>6. BlocksHoldANode'
  BY <1>1 DEF BlocksHoldANode
<1>7. NoOverlap'
  <2>1. \A r \in live' \cup free' \cup nodes' : r.lo <= r.hi
    BY <1>1, <1>3 DEF NoOverlap, Inside
  <2>2. PairwiseDisjoint(live')
    BY <1>1 DEF NoOverlap, PairwiseDisjoint
  <2>3. PairwiseDisjoint(free')
    BY <1>1, <1>3, <1>4 DEF NoOverlap, PairwiseDisjoint
  <2>4. PairwiseDisjoint(nodes')
    BY <1>1, <1>3, <1>4 DEF NoOverlap, PairwiseDisjoint
  <2>5. AllDisjoint(live', free')
    BY <1>1, <1>3, <1>4 DEF NoOverlap, AllDisjoint
  <2>6. AllDisjoint(live', nodes')
    BY <1>1, <1>3, <1>4 DEF NoOverlap, AllDisjoint
  <2>7. AllDisjoint(free', nodes')
    BY <1>1, <1>3, <1>4 DEF NoOverlap, AllDisjoint
  <2> QED
    BY <2>1, <2>2, <2>3, <2>4, <2>5, <2>6, <2>7
       DEF NoOverlap, PairwiseDisjoint, AllDisjoint
<1> QED
  BY <1>5, <1>6, <1>7

(* No step leaves the invariant. *)
LEMMA NextInvariant == IInv /\ [Next]_vars => IInv'
<1> SUFFICES ASSUME IInv, [Next]_vars PROVE IInv'
  OBVIOUS
<1>1. ASSUME NEW size \in Sizes, Kmalloc(size) PROVE IInv'
  BY <1>1, KmallocInvariant
<1>2. ASSUME NEW b \in live, Kfree(b) PROVE IInv'
  BY <1>2, KfreeInvariant
<1>3. ASSUME NEW b \in live, KfreeRefused(b) PROVE IInv'
  BY <1>3 DEF KfreeRefused, IInv, TypeOK, NoOverlap, BlocksHoldANode,
              PairwiseDisjoint, AllDisjoint
<1>4. CASE UNCHANGED vars
  BY <1>4 DEF vars, IInv, TypeOK, NoOverlap, BlocksHoldANode, PairwiseDisjoint, AllDisjoint
<1> QED
  BY <1>1, <1>2, <1>3, <1>4 DEF Next, KmallocNone

(* The strengthened invariant holds always: kmalloc and kfree keep it.    *)
THEOREM ArenaInvariant == Spec => []IInv
BY InitInvariant, NextInvariant, PTL DEF Spec

(* Every block, chunk and node is made of addresses of the arena. *)
THEOREM ArenaTypeOK == Spec => []TypeOK
<1>1. IInv => TypeOK
  BY DEF IInv
<1> QED
  BY <1>1, ArenaInvariant, PTL

(* No byte of the heap ever has two uses, in any arena: kmalloc and kfree. *)
THEOREM ArenaNoOverlap == Spec => []NoOverlap
<1>1. IInv => NoOverlap
  BY DEF IInv
<1> QED
  BY <1>1, ArenaInvariant, PTL
-----------------------------------------------------------------------------
(* A kmalloc of the arena is a Malloc of Allocator. *)
LEMMA KmallocIsMalloc ==
  ASSUME IInv, NEW size \in Sizes, Kmalloc(size)
  PROVE  Promise!Malloc(size)
<1>1. PICK c \in free :
        /\ c.hi - c.lo >= size + HDR
        /\ live' = live \cup {[lo |-> c.lo + HDR, hi |-> c.lo + HDR + size]}
  BY DEF Kmalloc
<1> DEFINE block == [lo |-> c.lo + HDR, hi |-> c.lo + HDR + size]
           node  == [lo |-> c.lo, hi |-> c.lo + HDR]
<1>2. block \in Region /\ Inside(block, c)
  <2>1. TypeOK /\ node = node /\ block = block
    BY DEF IInv
  <2> QED
    BY <1>1, <2>1, ChunkIsCut
<1>3. c \in Region /\ live \subseteq Region
  BY DEF IInv, TypeOK
<1>4. \A r \in live : Disjoint(c, r)
  BY DisjointSymmetric DEF IInv, NoOverlap, AllDisjoint
<1>5. \A r \in live : Disjoint(block, r)
  BY <1>2, <1>3, <1>4, InsideDisjoint
<1>6. block.lo \in Base .. Limit /\ block = [lo |-> block.lo, hi |-> block.lo + size]
  BY <1>2 DEF Region
<1>7. Promise!InHeap(block)
  BY <1>2, <1>3, ArenaAssumption DEF Promise!InHeap, Region, Inside
<1>8. live' = live \cup {block}
  BY <1>1
<1> HIDE DEF block, node
<1>9. \A r \in live : Promise!Disjoint(block, r)
  BY <1>5 DEF Disjoint, Promise!Disjoint
<1> QED
  BY <1>6, <1>7, <1>8, <1>9 DEF Promise!Malloc

(***************************************************************************)
(* Refinement: the heap of regions keeps the promise of Allocator for all  *)
(* sizes and arenas.                                                       *)
(***************************************************************************)
THEOREM ArenaImplementsAllocator == Spec => AllocatorSpec
<1>1. Init => Promise!Init
  BY DEF Init, Promise!Init
<1>2. IInv /\ [Next]_vars => [Promise!Next]_live
  <2> SUFFICES ASSUME IInv, [Next]_vars PROVE [Promise!Next]_live
    OBVIOUS
  <2>1. ASSUME NEW size \in Sizes, Kmalloc(size) PROVE Promise!Next
    BY <2>1, KmallocIsMalloc DEF Promise!Next
  <2>2. ASSUME NEW b \in live, Kfree(b) \/ KfreeRefused(b) PROVE Promise!Next
    BY <2>2 DEF Kfree, KfreeRefused, Promise!Next, Promise!Free
  <2>3. CASE UNCHANGED vars
    BY <2>3 DEF vars
  <2> QED
    BY <2>1, <2>2, <2>3 DEF Next, KmallocNone
<1> QED
  BY <1>1, <1>2, ArenaInvariant, PTL DEF Spec, AllocatorSpec, Promise!Spec
=============================================================================
