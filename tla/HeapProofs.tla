----------------------------- MODULE HeapProofs -----------------------------
(***************************************************************************)
(* Proofs about the heap (module Heap).                                    *)
(*                                                                         *)
(* The shapes that the code keeps cannot be computed by an induction over  *)
(* the links, so the invariant names them.  T is the set of the nodes of   *)
(* the tree; up[n] is the set of the links on the way from the root to n,  *)
(* and rank falls along it (Tree), so a walk is a loop that a measure      *)
(* ends; L[n] is the list of node n, as the smallest set that holds its    *)
(* first element and what follows each (Lists).  Order says what hangs on  *)
(* the left of a key: without it a node that a search found would not be   *)
(* the one that bst_delete_node finds again by its key.  KeysHaveLists     *)
(* says that only a node whose key has become 0 has lost its list.         *)
(* Regions says where chunks, blocks and nodes lie: without it a node      *)
(* could be written over another.                                          *)
(*                                                                         *)
(* Each operator of Heap is shown to keep such a tree or a part of it; a   *)
(* walk that leaves the tree leaves it through what a caller left there.   *)
(***************************************************************************)
EXTENDS Heap, FiniteSetTheorems, WellFoundedInduction, TLAPS

-----------------------------------------------------------------------------
(* Loops: what the recursive functions of tree_bst.c have in common. *)

(* A set of numbers has a least one. *)
LEMMA LeastNumber ==
  ASSUME NEW T, T \subseteq Nat, T # {}
  PROVE  \E x \in T : \A y \in T : x <= y
<1>1. PICK x \in T : \A y \in T : <<y, x>> \notin OpToRel(<, Nat)
  BY WFMin, NatLessThanWellFounded, Zenon
<1>2. ASSUME NEW y \in T
      PROVE  ~(y < x)
  <2>1. <<y, x>> \notin {pair \in Nat \X Nat : pair[1] < pair[2]}
    BY <1>1, Zenon DEF OpToRel
  <2> QED
    BY <2>1
<1> QED
  BY <1>2

(* A loop over D that ends at the points of stop and then returns out. *)
IsLoop(f, D, stop, next, out) ==
  f = [x \in D |-> IF x \in stop THEN out[x] ELSE f[next[x]]]

ClosedUnder(S, stop, next) == \A x \in S \ stop : next[x] \in S

Reach(x, D, stop, next) ==
  {y \in D : \A S \in SUBSET D : x \in S /\ ClosedUnder(S, stop, next) => y \in S}

Outcomes(x, D, stop, next, out) == {out[y] : y \in Reach(x, D, stop, next) \cap stop}

(* There is such a loop. *)
LEMMA LoopExists ==
  ASSUME NEW D, NEW stop, NEW next, NEW out, \A x \in D \ stop : next[x] \in D
  PROVE  \E f : IsLoop(f, D, stop, next, out)
<1> DEFINE R(x) == Reach(x, D, stop, next)
           f == [x \in D |-> CHOOSE v : v \in Outcomes(x, D, stop, next, out)]
<1>1. ASSUME NEW x \in D \cap stop
      PROVE  f[x] = out[x]
  <2>1. {x} \in SUBSET D /\ ClosedUnder({x}, stop, next)
    BY DEF ClosedUnder
  <2>2. R(x) = {x}
    BY <2>1 DEF Reach
  <2>3. Outcomes(x, D, stop, next, out) = {out[x]}
    BY <2>2 DEF Outcomes
  <2> QED
    BY <2>3
<1>2. ASSUME NEW x \in D \ stop
      PROVE  f[x] = f[next[x]]
  <2>1. next[x] \in D
    OBVIOUS
  <2>2. R(next[x]) \subseteq R(x)
    BY DEF Reach, ClosedUnder
  <2>3. ASSUME NEW y \in R(x), y # x
        PROVE  y \in R(next[x])
    <3> SUFFICES ASSUME NEW S \in SUBSET D, next[x] \in S, ClosedUnder(S, stop, next)
                 PROVE  y \in S
      BY DEF Reach
    <3>1. S \cup {x} \in SUBSET D /\ ClosedUnder(S \cup {x}, stop, next)
      BY DEF ClosedUnder
    <3>2. y \in S \cup {x}
      BY <3>1 DEF Reach
    <3> QED
      BY <3>2, <2>3
  <2>4. R(next[x]) \cap stop = R(x) \cap stop
    BY <2>2, <2>3
  <2>5. Outcomes(x, D, stop, next, out) = Outcomes(next[x], D, stop, next, out)
    BY <2>4 DEF Outcomes
  <2> QED
    BY <2>1, <2>5
<1>3. \A x \in D : f[x] = IF x \in stop THEN out[x] ELSE f[next[x]]
  BY <1>1, <1>2
<1>4. f = [x \in D |-> f[x]]
  OBVIOUS
<1> HIDE DEF f
<1>5. f = [x \in D |-> IF x \in stop THEN out[x] ELSE f[next[x]]]
  BY <1>3, <1>4
<1> QED
  BY <1>5 DEF IsLoop

(* In a set it does not leave, where a measure falls, a loop ends. *)
LEMMA LoopEnds ==
  ASSUME NEW D, NEW stop, NEW next, NEW out, NEW f, IsLoop(f, D, stop, next, out),
         NEW C, C \subseteq D, NEW measure \in [C -> Nat],
         \A x \in C \ stop : next[x] \in C /\ measure[next[x]] < measure[x],
         NEW first \in C
  PROVE  \E y \in C \cap stop : f[first] = out[y]
<1> DEFINE Bad == {x \in C : ~ \E y \in C \cap stop : f[x] = out[y]}
           M == {measure[x] : x \in Bad}
<1> SUFFICES ASSUME Bad # {}
             PROVE  FALSE
  OBVIOUS
<1>1. M \subseteq Nat /\ M # {}
  OBVIOUS
<1>2. PICK m \in M : \A k \in M : m <= k
  BY <1>1, LeastNumber
<1>3. PICK x \in Bad : m = measure[x]
  OBVIOUS
<1>4. f[x] = IF x \in stop THEN out[x] ELSE f[next[x]]
  BY DEF IsLoop
<1>5. CASE x \in stop
  BY <1>4, <1>5
<1>6. CASE x \notin stop
  <2>1. next[x] \in C /\ measure[next[x]] < measure[x] /\ f[x] = f[next[x]]
    BY <1>4, <1>6
  <2>2. next[x] \in Bad
    BY <2>1
  <2>3. m <= measure[next[x]]
    BY <1>2, <2>2
  <2> QED
    BY <2>1, <2>3, <1>3
<1> QED
  BY <1>5, <1>6

WalkPoints(t) == [link : Links(t), larger : DOMAIN t.mem \cup {Null}]

WalkStops(t, key) ==
  {at \in WalkPoints(t) : \/ Deref(t, at.link) \notin DOMAIN t.mem
                          \/ t.mem[Deref(t, at.link)].key = key}

WalkNext(t, key) ==
  [at \in WalkPoints(t) |->
     LET n == Deref(t, at.link)
     IN IF key > t.mem[n].key THEN [link |-> <<n, "right">>, larger |-> at.larger]
        ELSE [link |-> <<n, "left">>, larger |-> n]]

WalkOut(t) == [at \in WalkPoints(t) |-> at]

IsWalk(f, t, key) == IsLoop(f, WalkPoints(t), WalkStops(t, key), WalkNext(t, key), WalkOut(t))

WalkStart == [link |-> RootLink, larger |-> Null]

(* The walk of bst_insert and bst_search_smallest_ge is a loop. *)
LEMMA WalkIsLoop ==
  ASSUME NEW t, NEW key
  PROVE  \E f : IsWalk(f, t, key) /\ Walk(t, key) = f[WalkStart]
<1> DEFINE Is(f) ==
  f = [at \in [link : Links(t), larger : DOMAIN t.mem \cup {Null}] |->
        LET n == Deref(t, at.link)
        IN IF ~IsNode(t, n) \/ t.mem[n].key = key THEN at
           ELSE IF key > t.mem[n].key THEN f[[link |-> <<n, "right">>, larger |-> at.larger]]
           ELSE f[[link |-> <<n, "left">>, larger |-> n]]]
<1>1. Walk(t, key) = (CHOOSE f : Is(f))[WalkStart]
  BY DEF Walk, WalkStart
<1>2. \A x \in WalkPoints(t) \ WalkStops(t, key) : WalkNext(t, key)[x] \in WalkPoints(t)
  BY DEF WalkPoints, WalkStops, WalkNext, Links
<1>3. PICK f : IsWalk(f, t, key)
  BY <1>2, LoopExists, Zenon DEF IsWalk
<1>4. ASSUME NEW g
      PROVE  Is(g) <=> IsWalk(g, t, key)
  BY DEF IsWalk, IsLoop, WalkPoints, WalkStops, WalkNext, WalkOut, IsNode
<1> HIDE DEF Is
<1>5. Is(CHOOSE g : Is(g))
  BY <1>3, <1>4
<1> QED
  BY <1>1, <1>4, <1>5

MinStops(t) ==
  {link \in Links(t) : \/ Deref(t, link) \notin DOMAIN t.mem
                       \/ t.mem[Deref(t, link)].left = Null}

MinNext(t) == [link \in Links(t) |-> <<Deref(t, link), "left">>]

MinOut(t) == [link \in Links(t) |-> link]

(* So is bst_find_min. *)
LEMMA MinIsLoop ==
  ASSUME NEW t, NEW start
  PROVE  \E f : IsLoop(f, Links(t), MinStops(t), MinNext(t), MinOut(t))
                /\ bst_find_min(t, start) = f[start]
<1> DEFINE Is(f) ==
  f = [link \in Links(t) |->
        LET n == Deref(t, link)
        IN IF ~IsNode(t, n) \/ t.mem[n].left = Null THEN link ELSE f[<<n, "left">>]]
<1>1. bst_find_min(t, start) = (CHOOSE f : Is(f))[start]
  BY DEF bst_find_min
<1>2. \A x \in Links(t) \ MinStops(t) : MinNext(t)[x] \in Links(t)
  BY DEF MinStops, MinNext, Links
<1>3. PICK f : IsLoop(f, Links(t), MinStops(t), MinNext(t), MinOut(t))
  BY <1>2, LoopExists, Zenon
<1>4. ASSUME NEW g
      PROVE  Is(g) <=> IsLoop(g, Links(t), MinStops(t), MinNext(t), MinOut(t))
  BY DEF IsLoop, MinStops, MinNext, MinOut, IsNode
<1> HIDE DEF Is
<1>5. Is(CHOOSE g : Is(g))
  BY <1>3, <1>4
<1> QED
  BY <1>1, <1>4, <1>5

(* A set grows until it does not. *)
Grows(A, more) ==
  more \in [SUBSET A -> SUBSET A] /\ \A S \in SUBSET A : S \subseteq more[S]

Stable(A, more) == {S \in SUBSET A : more[S] = S}

Itself(A) == [S \in SUBSET A |-> S]

GrowsIn(C, first, A, more) ==
  /\ IsFiniteSet(A) /\ Grows(A, more)
  /\ C \in SUBSET A /\ first \in SUBSET C
  /\ \A S \in SUBSET C : more[S] \subseteq C

Grown(S, C, first, more) == first \subseteq S /\ S \subseteq C /\ more[S] = S

(* Growing is a loop over the subsets of A. *)
LEMMA GrowthExists ==
  ASSUME NEW A, NEW more, Grows(A, more)
  PROVE  \E f : IsLoop(f, SUBSET A, Stable(A, more), more, Itself(A))
<1>1. \A x \in (SUBSET A) \ Stable(A, more) : more[x] \in SUBSET A
  BY DEF Grows
<1> QED
  BY <1>1, LoopExists, Zenon

(* In a finite set it ends, inside every set that it does not leave. *)
LEMMA GrowthEnds ==
  ASSUME NEW A, NEW more, NEW C, NEW first, GrowsIn(C, first, A, more),
         NEW f, IsLoop(f, SUBSET A, Stable(A, more), more, Itself(A))
  PROVE  Grown(f[first], C, first, more)
<1>0. /\ IsFiniteSet(A) /\ Grows(A, more) /\ C \in SUBSET A /\ first \in SUBSET C
      /\ \A S \in SUBSET C : more[S] \subseteq C
  BY DEF GrowsIn
<1> DEFINE P == {S \in SUBSET C : first \subseteq S}
           measure == [S \in P |-> Cardinality(A) - Cardinality(S)]
<1>1. \A S \in SUBSET A : IsFiniteSet(S) /\ Cardinality(S) \in Nat /\ Cardinality(S) <= Cardinality(A)
  BY <1>0, FS_Subset, FS_CardinalityType
<1>2. Cardinality(A) \in Nat
  BY <1>0, FS_CardinalityType
<1>3. measure \in [P -> Nat]
  BY <1>0, <1>1, <1>2
<1>4. ASSUME NEW S \in P \ Stable(A, more)
      PROVE  more[S] \in P /\ measure[more[S]] < measure[S]
  <2>1. more[S] \in P /\ S \in SUBSET A /\ more[S] \in SUBSET A
    BY <1>0 DEF Grows
  <2>2. S \subseteq more[S] /\ S # more[S]
    BY <1>0, <2>1 DEF Grows, Stable
  <2>3. Cardinality(S) < Cardinality(more[S])
    BY <1>1, <2>1, <2>2, FS_Subset
  <2> QED
    BY <1>1, <1>2, <2>1, <2>3
<1>5. first \in P /\ P \subseteq SUBSET A
  BY <1>0
<1> HIDE DEF P, measure
<1>6. \E y \in P \cap Stable(A, more) : f[first] = Itself(A)[y]
  BY <1>3, <1>4, <1>5, LoopEnds
<1>7. PICK y \in P \cap Stable(A, more) : f[first] = Itself(A)[y]
  BY <1>6
<1>8. y \in SUBSET A /\ f[first] = y /\ more[y] = y
  BY <1>5, <1>7 DEF Itself, Stable
<1> QED
  BY <1>7, <1>8 DEF P, Grown

(* The nodes below others, and the elements behind others. *)
Below == [S \in SUBSET DOMAIN mem |-> S \cup UNION {Children(n) : n \in S}]
Behind == [S \in SUBSET DOMAIN mem |-> S \cup UNION {Following(d) : d \in S}]

(* TreeNodes is linked from heap_root and lies in every set that is. *)
LEMMA TreeNodesAre ==
  ASSUME IsFiniteSet(DOMAIN mem), NEW C \in SUBSET DOMAIN mem, heap_root \in C,
         \A n \in C : Children(n) \subseteq C
  PROVE  /\ heap_root \in TreeNodes /\ TreeNodes \subseteq C
         /\ \A n \in TreeNodes : Children(n) \subseteq TreeNodes
<1> DEFINE A == DOMAIN mem
           Is(f) == f = [seen \in SUBSET A |->
                          LET more == seen \cup UNION {Children(a) : a \in seen}
                          IN IF more = seen THEN seen ELSE f[more]]
           Loop(f) == IsLoop(f, SUBSET A, Stable(A, Below), Below, Itself(A))
<1>1. TreeNodes = (CHOOSE f : Is(f))[{heap_root}]
  BY DEF TreeNodes, Closure
<1>2. \A S \in SUBSET A : Below[S] = S \cup UNION {Children(n) : n \in S} /\ Below[S] \in SUBSET A
  BY DEF Below, Children
<1>3. Grows(A, Below)
  BY <1>2 DEF Grows, Below
<1>4. ASSUME NEW g
      PROVE  Is(g) <=> Loop(g)
  <2> DEFINE G == [S \in SUBSET A |-> IF Below[S] = S THEN S ELSE g[Below[S]]]
             H == [S \in SUBSET A |-> LET more == S \cup UNION {Children(a) : a \in S}
                                      IN IF more = S THEN S ELSE g[more]]
  <2>1. \A S \in SUBSET A : G[S] = H[S]
    BY <1>2
  <2>2. G = H
    BY <2>1
  <2>3. IsLoop(g, SUBSET A, Stable(A, Below), Below, Itself(A)) <=> g = G
    BY <1>2 DEF IsLoop, Stable, Itself
  <2> HIDE DEF G
  <2> QED
    BY <2>2, <2>3
<1>5. GrowsIn(C, {heap_root}, A, Below)
  BY <1>2, <1>3 DEF GrowsIn
<1>6. \A S \in SUBSET A : Below[S] = S => \A n \in S : Children(n) \subseteq S
  BY <1>2
<1>7. \E f : Loop(f)
  BY <1>3, GrowthExists
<1> HIDE DEF Is
<1>8. Loop(CHOOSE f : Is(f))
  BY <1>4, <1>7
<1> DEFINE f == CHOOSE f : Is(f)
           N == f[{heap_root}]
<1> HIDE DEF f
<1>9. Grown(N, C, {heap_root}, Below)
  <2>1. Loop(f)
    BY <1>8 DEF f
  <2> QED
    BY <1>5, <2>1, GrowthEnds
<1> QED
  BY <1>1, <1>6, <1>9 DEF f, Grown

HoldsList(C, n) ==
  /\ C \in SUBSET DOMAIN mem
  /\ mem[n].data = Null \/ mem[n].data \in C
  /\ \A d \in C : Following(d) \subseteq C

(* ListOf(n) holds the first element and lies in every set that does. *)
LEMMA ListIs ==
  ASSUME IsFiniteSet(DOMAIN mem), NEW n, NEW C, HoldsList(C, n)
  PROVE  /\ mem[n].data # Null => mem[n].data \in ListOf(n)
         /\ ListOf(n) \subseteq C
         /\ \A d \in ListOf(n) : Following(d) \subseteq ListOf(n)
<1> DEFINE A == DOMAIN mem
           first == {mem[n].data} \ {Null}
           Is(f) == f = [seen \in SUBSET A |->
                          LET more == seen \cup UNION {Following(a) : a \in seen}
                          IN IF more = seen THEN seen ELSE f[more]]
           Loop(f) == IsLoop(f, SUBSET A, Stable(A, Behind), Behind, Itself(A))
<1>1. ListOf(n) = (CHOOSE f : Is(f))[first]
  BY DEF ListOf, Closure
<1>2. \A S \in SUBSET A : Behind[S] = S \cup UNION {Following(d) : d \in S} /\ Behind[S] \in SUBSET A
  BY DEF Behind, Following
<1>3. Grows(A, Behind)
  BY <1>2 DEF Grows, Behind
<1>4. ASSUME NEW g
      PROVE  Is(g) <=> Loop(g)
  <2> DEFINE G == [S \in SUBSET A |-> IF Behind[S] = S THEN S ELSE g[Behind[S]]]
             H == [S \in SUBSET A |-> LET more == S \cup UNION {Following(a) : a \in S}
                                      IN IF more = S THEN S ELSE g[more]]
  <2>1. \A S \in SUBSET A : G[S] = H[S]
    BY <1>2
  <2>2. G = H
    BY <2>1
  <2>3. IsLoop(g, SUBSET A, Stable(A, Behind), Behind, Itself(A)) <=> g = G
    BY <1>2 DEF IsLoop, Stable, Itself
  <2> HIDE DEF G
  <2> QED
    BY <2>2, <2>3
<1>5. GrowsIn(C, first, A, Behind)
  BY <1>2, <1>3 DEF GrowsIn, HoldsList
<1>6. \A S \in SUBSET A : Behind[S] = S => \A d \in S : Following(d) \subseteq S
  BY <1>2
<1>7. \E f : Loop(f)
  BY <1>3, GrowthExists
<1> HIDE DEF Is
<1>8. Loop(CHOOSE f : Is(f))
  BY <1>4, <1>7
<1> DEFINE f == CHOOSE f : Is(f)
           N == f[first]
<1> HIDE DEF f
<1>9. Grown(N, C, first, Behind)
  <2>1. Loop(f)
    BY <1>8 DEF f
  <2> QED
    BY <1>5, <2>1, GrowthEnds
<1>10. mem[n].data # Null => mem[n].data \in first
  OBVIOUS
<1> HIDE DEF first
<1> QED
  BY <1>1, <1>6, <1>9, <1>10 DEF f, Grown, HoldsList

-----------------------------------------------------------------------------
(* The nodes in memory. *)

NodeRecord ==
  [parent : Nat, left : Nat, right : Nat, key : Nat, data : Nat, next : Nat, prev : Nat,
   f_ptr : Nat, f_end : Nat, a_ptr : Nat, a_end : Nat]

Fields == {"parent", "left", "right", "key", "data", "next", "prev",
           "f_ptr", "f_end", "a_ptr", "a_end"}

Addresses == {Root} \cup (Base .. Limit - 1)

(* What the fields of the nodes hold, whatever the tree looks like. *)
Cells(t) ==
  /\ t = [root |-> Root, mem |-> t.mem, wild |-> t.wild]
  /\ t.mem \in [DOMAIN t.mem -> NodeRecord]
  /\ Root \in DOMAIN t.mem /\ DOMAIN t.mem \subseteq Addresses
  /\ \A a \in DOMAIN t.mem : t.mem[a].parent \in Junk

(* No junk is the address of a node (CallersAssumption). *)
LEMMA AddressesApart ==
  /\ \A a \in Addresses : a \in Nat /\ a \notin Junk /\ a # Null
  /\ Null \in Junk /\ Junk \subseteq Nat
  /\ IsFiniteSet(Addresses)
<1>1. Base \in Nat /\ Limit \in Nat /\ Root \in Nat /\ Root # 0 /\ Base # 0 /\ HDR \in Nat
  BY HeapAssumption DEF Null
<1>2. \A a \in Addresses : a \in Nat /\ a # Null
  BY <1>1 DEF Addresses, Null
<1>3. \A a \in Addresses : a \notin Junk
  BY CallersAssumption DEF Addresses
<1>4. Null \in Junk /\ Junk \subseteq Nat
  BY HeapAssumption, CallersAssumption
<1>5. IsFiniteSet(Base .. Limit - 1)
  BY <1>1, FS_Interval
<1>6. IsFiniteSet(Addresses)
  BY <1>5, FS_Singleton, FS_Union DEF Addresses
<1> QED
  BY <1>2, <1>3, <1>4, <1>6

(* Assigning one field. *)
LEMMA SetFieldSets ==
  ASSUME NEW t, Cells(t), NEW a \in DOMAIN t.mem, NEW field \in Fields, NEW value \in Nat,
         field = "parent" => value \in Junk
  PROVE  LET u == SetField(t, a, field, value)
         IN /\ Cells(u) /\ u.wild = t.wild
            /\ DOMAIN u.mem = DOMAIN t.mem
            /\ \A x \in DOMAIN t.mem, f \in Fields :
                 u.mem[x][f] = IF x = a /\ f = field THEN value ELSE t.mem[x][f]
<1> DEFINE u == SetField(t, a, field, value)
<1>1. \A x \in DOMAIN t.mem, f \in Fields :
        u.mem[x][f] = IF x = a /\ f = field THEN value ELSE t.mem[x][f]
  BY DEF Cells, SetField, NodeRecord, Fields
<1>2. /\ u = [root |-> Root, mem |-> u.mem, wild |-> u.wild]
      /\ u.mem \in [DOMAIN u.mem -> NodeRecord]
      /\ DOMAIN u.mem = DOMAIN t.mem /\ u.wild = t.wild
  BY DEF Cells, SetField, NodeRecord, Fields
<1> HIDE DEF u
<1>3. \A x \in DOMAIN t.mem : u.mem[x].parent \in Junk
  <2>1. "parent" \in Fields
    BY DEF Fields
  <2> QED
    BY <1>1, <2>1 DEF Cells
<1>4. Cells(u)
  BY <1>2, <1>3 DEF Cells
<1> QED
  BY <1>1, <1>2, <1>4 DEF u

(* Writing a node where there is none. *)
LEMMA StoreAdds ==
  ASSUME NEW t, Cells(t), NEW a \in Addresses, a \notin DOMAIN t.mem,
         NEW node \in NodeRecord, node.parent \in Junk
  PROVE  LET u == Store(t, a, node)
         IN /\ Cells(u) /\ u.wild = t.wild
            /\ DOMAIN u.mem = DOMAIN t.mem \cup {a}
            /\ u.mem[a] = node
            /\ \A x \in DOMAIN t.mem : u.mem[x] = t.mem[x]
BY DEF Cells, Store

(* Overwriting the tree fields of a node with another's. *)
LEMMA CopyNodeCopies ==
  ASSUME NEW t, Cells(t), NEW a \in DOMAIN t.mem, NEW n \in DOMAIN t.mem
  PROVE  LET u == CopyNode(t, a, n)
         IN /\ Cells(u) /\ u.wild = t.wild
            /\ DOMAIN u.mem = DOMAIN t.mem
            /\ \A x \in DOMAIN t.mem, f \in Fields :
                 u.mem[x][f] = IF x = a /\ f \in {"parent", "left", "right", "key", "data"}
                               THEN t.mem[n][f] ELSE t.mem[x][f]
<1> DEFINE u == CopyNode(t, a, n)
<1>1. /\ u = [root |-> Root, mem |-> u.mem, wild |-> u.wild]
      /\ DOMAIN u.mem = DOMAIN t.mem /\ u.wild = t.wild
  <2>1. t = [root |-> Root, mem |-> t.mem, wild |-> t.wild]
    BY DEF Cells
  <2>2. u.root = Root /\ u.wild = t.wild
    BY <2>1 DEF CopyNode
  <2>3. DOMAIN u.mem = DOMAIN t.mem
    BY <2>1 DEF CopyNode
  <2>4. u = [root |-> u.root, mem |-> u.mem, wild |-> u.wild]
    BY <2>1 DEF CopyNode
  <2> QED
    BY <2>2, <2>3, <2>4
<1>2. \A x \in DOMAIN t.mem : x # a => u.mem[x] = t.mem[x]
  BY DEF Cells, CopyNode
<1>3. u.mem[a] = [t.mem[a] EXCEPT !.parent = t.mem[n].parent, !.left = t.mem[n].left,
                                  !.right = t.mem[n].right, !.key = t.mem[n].key,
                                  !.data = t.mem[n].data]
  BY DEF Cells, CopyNode
<1>4. t.mem[a] \in NodeRecord /\ t.mem[n] \in NodeRecord
  BY DEF Cells
<1> HIDE DEF u
<1>5. /\ u.mem[a] \in NodeRecord
      /\ \A f \in Fields : u.mem[a][f] = IF f \in {"parent", "left", "right", "key", "data"}
                                         THEN t.mem[n][f] ELSE t.mem[a][f]
  BY <1>3, <1>4 DEF NodeRecord, Fields
<1>6. \A x \in DOMAIN t.mem : u.mem[x] \in NodeRecord /\ u.mem[x].parent \in Junk
  <2>1. u.mem[a].parent = t.mem[n].parent
    BY <1>3, <1>4 DEF NodeRecord
  <2> QED
    BY <1>2, <1>5, <2>1 DEF Cells
<1>7. u.mem = [x \in DOMAIN u.mem |-> u.mem[x]]
  BY DEF u, CopyNode, Cells
<1>8. Cells(u)
  BY <1>1, <1>6, <1>7 DEF Cells
<1> QED
  BY <1>1, <1>2, <1>5, <1>8 DEF u

(* The fields hold numbers, and nodes stand at addresses. *)
LEMMA Typed ==
  ASSUME NEW t, Cells(t)
  PROVE  /\ \A x \in DOMAIN t.mem, f \in Fields : t.mem[x][f] \in Nat
         /\ \A x \in DOMAIN t.mem : x \in Nat /\ x \notin Junk /\ x # Null
         /\ IsFiniteSet(DOMAIN t.mem)
<1>1. \A x \in DOMAIN t.mem, f \in Fields : t.mem[x][f] \in Nat
  BY DEF Cells, NodeRecord, Fields
<1>2. IsFiniteSet(DOMAIN t.mem)
  BY AddressesApart, FS_Subset DEF Cells
<1> QED
  BY <1>1, <1>2, AddressesApart DEF Cells

Sides == {"left", "right"}

(* The links on the way from the root to n are in up[n]. *)
Ways(t, T, up) ==
  /\ \A n \in T, s \in Sides :
       \/ t.mem[n][s] \in Junk
       \/ t.mem[n][s] \in T /\ up[t.mem[n][s]] = up[n] \cup {<<n, s>>}
  /\ \A n \in T, m \in T, s \in Sides :
       <<m, s>> \in up[n] =>
         /\ t.mem[m][s] \in T
         /\ t.mem[m][s] = n \/ \E r \in Sides : <<t.mem[m][s], r>> \in up[n]
  /\ \A n \in T \ {Root} : \E s \in Sides : <<Root, s>> \in up[n]

Tree(t, T, up, rank) ==
  /\ T \subseteq DOMAIN t.mem /\ Root \in T
  /\ rank \in [T -> Nat] /\ up \in [T -> SUBSET (T \X Sides)] /\ up[Root] = {}
  /\ \A n \in T, m \in T, s \in Sides : <<m, s>> \in up[n] => rank[n] < rank[m]
  /\ Ways(t, T, up)

(* A walk for key turns to side s at node m. *)
Turns(t, m, key, s) ==
  /\ s = "left" => key < t.mem[m].key
  /\ s = "right" => t.mem[m].key < key

(* A walk for key comes to n. *)
On(t, up, n, key) ==
  \A m \in DOMAIN t.mem, s \in Sides : <<m, s>> \in up[n] => Turns(t, m, key, s)

(* What the nodes and the links of a tree are. *)
LEMMA TreeTyped ==
  ASSUME NEW t, Cells(t), NEW T, NEW up, NEW rank, Tree(t, T, up, rank)
  PROVE  /\ \A n \in T : n \in DOMAIN t.mem /\ n \in Nat /\ n \notin Junk /\ n # Null
         /\ Deref(t, RootLink) = Root
         /\ \A n \in T, s \in Sides : /\ <<n, s>> # RootLink
                                      /\ Deref(t, <<n, s>>) = t.mem[n][s]
                                      /\ <<n, s>> \in Links(t)
         /\ \A j \in Junk : j \notin DOMAIN t.mem /\ j \notin T
         /\ \A n \in T, s \in Sides : <<n, s>> \notin up[n]
<1>1. \A n \in T : n \in DOMAIN t.mem /\ n \in Nat /\ n \notin Junk /\ n # Null
  BY Typed DEF Tree
<1>2. Deref(t, RootLink) = Root
  BY DEF Deref, Cells
<1>3. \A n \in T, s \in Sides : <<n, s>> # RootLink
  BY <1>1 DEF RootLink
<1>4. \A j \in Junk : j \notin DOMAIN t.mem /\ j \notin T
  BY Typed DEF Tree
<1>5. ASSUME NEW n \in T, NEW s \in Sides, <<n, s>> \in up[n]
      PROVE  FALSE
  <2>1. rank[n] < rank[n] /\ rank[n] \in Nat
    BY <1>5 DEF Tree
  <2> QED
    BY <2>1
<1> QED
  BY <1>1, <1>2, <1>3, <1>4, <1>5 DEF Deref, Links, Sides

(* A link of the tree leads lower, and no other leads to the same node. *)
LEMMA LinksApart ==
  ASSUME NEW t, Cells(t), NEW T, NEW up, NEW rank, Tree(t, T, up, rank),
         NEW n \in T, NEW s \in Sides, t.mem[n][s] \in T
  PROVE  /\ rank[t.mem[n][s]] < rank[n] /\ t.mem[n][s] # Root /\ t.mem[n][s] # n
         /\ up[t.mem[n][s]] = up[n] \cup {<<n, s>>}
         /\ \A m \in T, r \in Sides : t.mem[m][r] = t.mem[n][s] => m = n /\ r = s
<1> DEFINE c == t.mem[n][s]
<1>0. \A m \in T, r \in Sides : t.mem[m][r] \in T => up[t.mem[m][r]] = up[m] \cup {<<m, r>>}
  <2>1. \A m \in T, r \in Sides :
          t.mem[m][r] \in Junk \/ up[t.mem[m][r]] = up[m] \cup {<<m, r>>}
    BY DEF Tree, Ways
  <2> QED
    BY <2>1, TreeTyped
<1>1. up[c] = up[n] \cup {<<n, s>>}
  BY <1>0
<1>2. rank[c] < rank[n] /\ c # Root
  BY <1>1 DEF Tree
<1>3. ASSUME NEW m \in T, NEW r \in Sides, t.mem[m][r] = c
      PROVE  m = n /\ r = s
  <2>1. up[c] = up[m] \cup {<<m, r>>}
    BY <1>0, <1>3
  <2>2. <<m, r>> \in up[n] \/ <<m, r>> = <<n, s>>
    BY <1>1, <2>1
  <2>3. <<n, s>> \in up[m] \/ <<m, r>> = <<n, s>>
    BY <1>1, <2>1
  <2>4. ~(<<m, r>> \in up[n] /\ <<n, s>> \in up[m])
    BY DEF Tree
  <2>5. <<m, r>> = <<n, s>>
    BY <2>2, <2>3, <2>4
  <2> QED
    BY <2>5
<1>4. c # n
  BY <1>2 DEF Tree
<1> QED
  BY <1>1, <1>2, <1>3, <1>4

-----------------------------------------------------------------------------
(* The walks end, in the tree. *)

WalkRank(t, T, rank) ==
  [at \in WalkPoints(t) |-> IF Deref(t, at.link) \in T THEN rank[Deref(t, at.link)] + 1 ELSE 0]

(* What holds at every point of a walk for key. *)
OnTheWay(t, T, up, key, at) ==
  LET n == Deref(t, at.link)
  IN /\ n \in T => On(t, up, n, key)
     /\ n \in T \cup Junk
     /\ \/ at.link = RootLink
        \/ /\ at.link \in T \X Sides
           /\ On(t, up, at.link[1], key) /\ Turns(t, at.link[1], key, at.link[2])
     /\ \/ at.larger = Null
        \/ /\ at.larger \in T /\ On(t, up, at.larger, key)
           /\ key < t.mem[at.larger].key

(* A step of the walk stays on the way for its key and goes down. *)
LEMMA WalkGoesOn ==
  ASSUME NEW t, Cells(t), NEW T, NEW up, NEW rank, Tree(t, T, up, rank), NEW key \in Nat,
         NEW at \in WalkPoints(t) \ WalkStops(t, key), OnTheWay(t, T, up, key, at)
  PROVE  LET then == WalkNext(t, key)[at]
         IN /\ then \in WalkPoints(t) /\ OnTheWay(t, T, up, key, then)
            /\ WalkRank(t, T, rank)[then] < WalkRank(t, T, rank)[at]
            /\ Deref(t, then.link) \in {t.mem[Deref(t, at.link)].left, t.mem[Deref(t, at.link)].right}
<1> DEFINE n == Deref(t, at.link)
           s == IF key > t.mem[n].key THEN "right" ELSE "left"
           then == WalkNext(t, key)[at]
<1>1. n \in T /\ t.mem[n].key # key /\ On(t, up, n, key)
  BY TreeTyped DEF WalkStops, OnTheWay
<1>2. /\ then = [link |-> <<n, s>>, larger |-> IF s = "left" THEN n ELSE at.larger]
      /\ s \in Sides
  BY DEF WalkNext, Sides
<1>3. t.mem[n].key \in Nat
  BY <1>1, Typed, TreeTyped DEF Fields
<1>4. Turns(t, n, key, s)
  BY <1>1, <1>3 DEF Turns
<1>5. then \in WalkPoints(t)
  BY <1>1, <1>2, TreeTyped DEF WalkPoints
<1> HIDE DEF s, then, n
<1>6. Deref(t, then.link) = t.mem[n][s]
  BY <1>1, <1>2, TreeTyped
<1>7. t.mem[n][s] \in T \cup Junk
  BY <1>1, <1>2 DEF Tree, Ways
<1>8. t.mem[n][s] \in T => On(t, up, t.mem[n][s], key)
  <2> SUFFICES ASSUME t.mem[n][s] \in T
               PROVE  On(t, up, t.mem[n][s], key)
    OBVIOUS
  <2>1. up[t.mem[n][s]] = up[n] \cup {<<n, s>>}
    BY <1>1, <1>2, LinksApart
  <2> QED
    BY <1>1, <1>4, <2>1 DEF On
<1>9. s = "left" => key < t.mem[n].key
  BY <1>4 DEF Turns
<1>10. OnTheWay(t, T, up, key, then)
  BY <1>1, <1>2, <1>4, <1>6, <1>7, <1>8, <1>9 DEF OnTheWay
<1>11. WalkRank(t, T, rank)[then] < WalkRank(t, T, rank)[at]
  <2>1. t.mem[n][s] \in T => rank[t.mem[n][s]] < rank[n]
    BY <1>1, <1>2, LinksApart
  <2>2. WalkRank(t, T, rank)[at] = rank[n] + 1
    BY <1>1 DEF WalkRank, n
  <2>3. WalkRank(t, T, rank)[then] = IF t.mem[n][s] \in T THEN rank[t.mem[n][s]] + 1 ELSE 0
    BY <1>5, <1>6 DEF WalkRank
  <2> QED
    BY <1>1, <2>1, <2>2, <2>3 DEF Tree
<1>12. t.mem[n][s] \in {t.mem[n].left, t.mem[n].right}
  BY <1>2 DEF Sides
<1> QED
  BY <1>5, <1>6, <1>10, <1>11, <1>12 DEF then, n

(* The rank of a point of the walk is a number. *)
LEMMA WalkRanked ==
  ASSUME NEW t, NEW T, NEW up, NEW rank, Tree(t, T, up, rank)
  PROVE  WalkRank(t, T, rank) \in [WalkPoints(t) -> Nat]
BY DEF WalkRank, Tree

(* The walk starts on the way. *)
LEMMA WalkStarts ==
  ASSUME NEW t, Cells(t), NEW T, NEW up, NEW rank, Tree(t, T, up, rank), NEW key
  PROVE  WalkStart \in WalkPoints(t) /\ OnTheWay(t, T, up, key, WalkStart)
<1>1. Deref(t, RootLink) = Root /\ Root \in T
  BY TreeTyped DEF Tree
<1>2. On(t, up, Root, key)
  BY DEF On, Tree
<1> QED
  BY <1>1, <1>2 DEF WalkStart, WalkPoints, Links, OnTheWay

(* The walk ends on the way for its key, at the key or outside the tree. *)
LEMMA WalkEnds ==
  ASSUME NEW t, Cells(t), NEW T, NEW up, NEW rank, Tree(t, T, up, rank), NEW key \in Nat
  PROVE  LET w == Walk(t, key)
         IN /\ w \in WalkStops(t, key) /\ OnTheWay(t, T, up, key, w)
            /\ Deref(t, w.link) \in T => t.mem[Deref(t, w.link)].key = key
<1>1. PICK f : IsWalk(f, t, key) /\ Walk(t, key) = f[WalkStart]
  BY WalkIsLoop
<1> DEFINE C == {at \in WalkPoints(t) : OnTheWay(t, T, up, key, at)}
           measure == [at \in C |-> WalkRank(t, T, rank)[at]]
<1>2. measure \in [C -> Nat]
  BY WalkRanked
<1>3. \A at \in C \ WalkStops(t, key) :
        WalkNext(t, key)[at] \in C /\ measure[WalkNext(t, key)[at]] < measure[at]
  BY WalkGoesOn
<1>4. WalkStart \in C /\ C \subseteq WalkPoints(t)
  BY WalkStarts
<1>5. IsLoop(f, WalkPoints(t), WalkStops(t, key), WalkNext(t, key), WalkOut(t))
  BY <1>1 DEF IsWalk
<1> HIDE DEF C, measure
<1>6. \E y \in C \cap WalkStops(t, key) : f[WalkStart] = WalkOut(t)[y]
  BY <1>2, <1>3, <1>4, <1>5, LoopEnds
<1>7. PICK y \in C \cap WalkStops(t, key) : f[WalkStart] = WalkOut(t)[y]
  BY <1>6
<1>8. Walk(t, key) = y
  BY <1>1, <1>4, <1>7 DEF WalkOut
<1> QED
  BY <1>7, <1>8, TreeTyped DEF C, WalkStops

(* A node that the walk for its key comes to is the one that it finds. *)
LEMMA WalkFinds ==
  ASSUME NEW t, Cells(t), NEW T, NEW up, NEW rank, Tree(t, T, up, rank),
         NEW o \in T, On(t, up, o, t.mem[o].key)
  PROVE  Deref(t, Walk(t, t.mem[o].key).link) = o
<1> DEFINE key == t.mem[o].key
           Above(n) == n \in T /\ (n = o \/ \E s \in Sides : <<n, s>> \in up[o])
           C == {at \in WalkPoints(t) : OnTheWay(t, T, up, key, at) /\ Above(Deref(t, at.link))}
           measure == [at \in C |-> WalkRank(t, T, rank)[at]]
<1>0. key \in Nat
  BY Typed, TreeTyped DEF Fields
<1>1. PICK f : IsWalk(f, t, key) /\ Walk(t, key) = f[WalkStart]
  BY WalkIsLoop
<1>2. measure \in [C -> Nat]
  BY WalkRanked
<1>3. ASSUME NEW at \in C \ WalkStops(t, key)
      PROVE  WalkNext(t, key)[at] \in C /\ measure[WalkNext(t, key)[at]] < measure[at]
  <2> DEFINE n == Deref(t, at.link)
             then == WalkNext(t, key)[at]
  <2>1. n \in T /\ Above(n) /\ t.mem[n].key # key /\ n # o
    BY TreeTyped DEF WalkStops
  <2>2. PICK s \in Sides : <<n, s>> \in up[o]
    BY <2>1
  <2>3. Turns(t, n, key, s) /\ t.mem[n].key \in Nat
    BY <2>1, <2>2, TreeTyped, Typed DEF On, Fields
  <2>4. then.link = <<n, s>>
    BY <1>0, <2>1, <2>2, <2>3 DEF WalkNext, Turns, Sides
  <2>5. t.mem[n][s] \in T /\ (t.mem[n][s] = o \/ \E r \in Sides : <<t.mem[n][s], r>> \in up[o])
    BY <2>1, <2>2 DEF Tree, Ways
  <2>6. Deref(t, then.link) = t.mem[n][s]
    BY <2>1, <2>4, TreeTyped
  <2>7. then \in WalkPoints(t) /\ OnTheWay(t, T, up, key, then)
        /\ WalkRank(t, T, rank)[then] < WalkRank(t, T, rank)[at]
    BY <1>0, WalkGoesOn
  <2> HIDE DEF then
  <2>8. then \in C
    BY <2>5, <2>6, <2>7
  <2> QED
    BY <2>7, <2>8 DEF then
<1>4. WalkStart \in C /\ C \subseteq WalkPoints(t)
  <2>1. Above(Root)
    BY DEF Tree, Ways
  <2>2. Deref(t, WalkStart.link) = Root
    BY TreeTyped DEF WalkStart
  <2> QED
    BY <1>0, <2>1, <2>2, WalkStarts
<1>5. IsLoop(f, WalkPoints(t), WalkStops(t, key), WalkNext(t, key), WalkOut(t))
  BY <1>1 DEF IsWalk
<1> HIDE DEF C, measure
<1>6. \E y \in C \cap WalkStops(t, key) : f[WalkStart] = WalkOut(t)[y]
  BY <1>2, <1>3, <1>4, <1>5, LoopEnds
<1>7. PICK y \in C \cap WalkStops(t, key) : f[WalkStart] = WalkOut(t)[y]
  BY <1>6
<1>8. Walk(t, key) = y
  BY <1>1, <1>4, <1>7 DEF WalkOut
<1> DEFINE n == Deref(t, y.link)
<1>9. n \in T /\ (n = o \/ \E s \in Sides : <<n, s>> \in up[o]) /\ t.mem[n].key = key
  BY <1>7, TreeTyped DEF C, WalkStops
<1>10. n = o
  <2> SUFFICES ASSUME NEW s \in Sides, <<n, s>> \in up[o]
               PROVE  FALSE
    BY <1>9
  <2>1. Turns(t, n, key, s)
    BY <1>9, TreeTyped DEF On
  <2> QED
    BY <1>0, <1>9, <2>1 DEF Turns, Sides
<1> QED
  BY <1>8, <1>10

(* bst_find_min ends below n, at a node without a left child. *)
LEMMA MinEnds ==
  ASSUME NEW t, Cells(t), NEW T, NEW up, NEW rank, Tree(t, T, up, rank), NEW n \in T
  PROVE  LET link == bst_find_min(t, <<n, "right">>)
             s == Deref(t, link)
         IN /\ link \in T \X Sides
            /\ s \in T => t.mem[s].left = Null /\ rank[s] < rank[n]
            /\ s \in T \cup Junk
            /\ s = Null => t.mem[n].right = Null
<1> DEFINE start == <<n, "right">>
           Sound(link) == LET s == Deref(t, link)
                          IN /\ link \in T \X Sides
                             /\ s \in T => rank[s] < rank[n]
                             /\ s \in T \cup Junk
                             /\ s = Null => t.mem[n].right = Null
           C == {link \in Links(t) : Sound(link)}
           measure == [link \in C |-> IF Deref(t, link) \in T THEN rank[Deref(t, link)] + 1 ELSE 0]
<1>1. PICK f : /\ IsLoop(f, Links(t), MinStops(t), MinNext(t), MinOut(t))
               /\ bst_find_min(t, start) = f[start]
  BY MinIsLoop
<1>2. measure \in [C -> Nat]
  BY DEF Tree
<1>3. ASSUME NEW link \in C \ MinStops(t)
      PROVE  MinNext(t)[link] \in C /\ measure[MinNext(t)[link]] < measure[link]
  <2> DEFINE m == Deref(t, link)
             then == MinNext(t)[link]
  <2>1. m \in T /\ t.mem[m].left # Null /\ rank[m] < rank[n]
    BY TreeTyped DEF MinStops
  <2>2. then = <<m, "left">> /\ "left" \in Sides
    BY DEF MinNext, Sides
  <2> HIDE DEF m, then
  <2>3. then \in Links(t) /\ Deref(t, then) = t.mem[m].left /\ then \in T \X Sides
    BY <2>1, <2>2, TreeTyped
  <2>4. t.mem[m].left \in T \cup Junk
    BY <2>1, <2>2 DEF Tree, Ways
  <2>5. t.mem[m].left \in T => rank[t.mem[m].left] < rank[m]
    BY <2>1, <2>2, LinksApart
  <2>6. rank[m] \in Nat /\ rank[n] \in Nat /\ (t.mem[m].left \in T => rank[t.mem[m].left] \in Nat)
    BY <2>1 DEF Tree
  <2>7. then \in C
    BY <2>1, <2>3, <2>4, <2>5, <2>6
  <2>8. measure[then] = IF t.mem[m].left \in T THEN rank[t.mem[m].left] + 1 ELSE 0
    BY <2>3, <2>7
  <2>9. measure[link] = rank[m] + 1
    BY <2>1 DEF m
  <2> QED
    BY <2>5, <2>6, <2>7, <2>8, <2>9 DEF then
<1>4. start \in C /\ C \subseteq Links(t)
  <2>1. start \in Links(t) /\ Deref(t, start) = t.mem[n].right /\ start \in T \X Sides
    BY TreeTyped DEF Sides
  <2>2. "right" \in Sides
    BY DEF Sides
  <2>3. t.mem[n].right \in T \cup Junk
    BY <2>2 DEF Tree, Ways
  <2>4. t.mem[n].right \in T => rank[t.mem[n].right] < rank[n]
    BY <2>2, LinksApart
  <2> QED
    BY <2>1, <2>3, <2>4
<1> HIDE DEF C, measure, start
<1>6. \E y \in C \cap MinStops(t) : f[start] = MinOut(t)[y]
  BY <1>1, <1>2, <1>3, <1>4, LoopEnds
<1>7. PICK y \in C \cap MinStops(t) : f[start] = MinOut(t)[y]
  BY <1>6
<1>8. bst_find_min(t, start) = y /\ Sound(y)
  BY <1>1, <1>4, <1>7 DEF MinOut, C
<1>9. Deref(t, y) \in T => t.mem[Deref(t, y)].left = Null
  BY <1>7, TreeTyped DEF MinStops
<1> QED
  BY <1>8, <1>9 DEF start

-----------------------------------------------------------------------------
(* Rebuilding the tree. *)

(* The tree is a matter of the links. *)
LEMMA TreeStays ==
  ASSUME NEW t, NEW T, NEW up, NEW rank, Tree(t, T, up, rank),
         NEW u, DOMAIN u.mem = DOMAIN t.mem,
         \A n \in T, s \in Sides : u.mem[n][s] = t.mem[n][s]
  PROVE  Tree(u, T, up, rank)
<1>1. \A n \in T, s \in Sides :
        u.mem[n][s] \in Junk \/ (u.mem[n][s] \in T /\ up[u.mem[n][s]] = up[n] \cup {<<n, s>>})
  BY DEF Tree, Ways
<1>2. ASSUME NEW n \in T, NEW m \in T, NEW s \in Sides, <<m, s>> \in up[n]
      PROVE  /\ u.mem[m][s] \in T
             /\ u.mem[m][s] = n \/ \E r \in Sides : <<u.mem[m][s], r>> \in up[n]
  <2>1. /\ t.mem[m][s] \in T
        /\ t.mem[m][s] = n \/ \E r \in Sides : <<t.mem[m][s], r>> \in up[n]
    BY <1>2 DEF Tree, Ways
  <2>2. u.mem[m][s] = t.mem[m][s]
    OBVIOUS
  <2> QED
    BY <2>1, <2>2
<1>3. \A n \in T \ {Root} : \E s \in Sides : <<Root, s>> \in up[n]
  BY DEF Tree, Ways
<1>4. Ways(u, T, up)
  BY <1>1, <1>2, <1>3 DEF Ways
<1> QED
  BY <1>4 DEF Tree

(* A node is hung where there was none. *)
LEMMA GrownTree ==
  ASSUME NEW t, Cells(t), NEW T, NEW up, NEW rank, Tree(t, T, up, rank),
         NEW u, Cells(u), DOMAIN u.mem = DOMAIN t.mem,
         NEW p \in T, NEW side \in Sides, t.mem[p][side] = Null,
         NEW new \in DOMAIN t.mem, new \notin T,
         \A s \in Sides : u.mem[new][s] \in Junk,
         \A n \in T, s \in Sides :
           u.mem[n][s] = IF n = p /\ s = side THEN new ELSE t.mem[n][s]
  PROVE  Tree(u, T \cup {new},
              [n \in T \cup {new} |-> IF n = new THEN up[p] \cup {<<p, side>>} ELSE up[n]],
              [n \in T \cup {new} |-> IF n = new THEN 0 ELSE rank[n] + 1])
<1> DEFINE T2 == T \cup {new}
           up2 == [n \in T2 |-> IF n = new THEN up[p] \cup {<<p, side>>} ELSE up[n]]
           rank2 == [n \in T2 |-> IF n = new THEN 0 ELSE rank[n] + 1]
<1>1. /\ T \subseteq DOMAIN t.mem /\ Root \in T
      /\ rank \in [T -> Nat] /\ up \in [T -> SUBSET (T \X Sides)] /\ up[Root] = {}
      /\ \A n \in T, m \in T, s \in Sides : <<m, s>> \in up[n] => rank[n] < rank[m]
      /\ \A n \in T \ {Root} : \E s \in Sides : <<Root, s>> \in up[n]
  BY DEF Tree, Ways
<1>2. \A n \in T, s \in Sides : t.mem[n][s] \in T => up[t.mem[n][s]] = up[n] \cup {<<n, s>>}
  BY LinksApart
<1>3. \A n \in T, m \in T, s \in Sides : <<m, s>> \in up[n] =>
        /\ t.mem[m][s] \in T
        /\ t.mem[m][s] = n \/ \E r \in Sides : <<t.mem[m][s], r>> \in up[n]
  BY DEF Tree, Ways
<1>4. \A n \in T, s \in Sides : t.mem[n][s] \in T \/ t.mem[n][s] \in Junk
  BY DEF Tree, Ways
<1>5. Null \notin T
  BY TreeTyped
<1>6. \A n \in T : up2[n] = up[n] /\ rank2[n] = rank[n] + 1
  OBVIOUS
<1>7. up2[new] = up[p] \cup {<<p, side>>} /\ rank2[new] = 0
  OBVIOUS
<1>8. rank2 \in [T2 -> Nat] /\ up2 \in [T2 -> SUBSET (T2 \X Sides)]
  BY <1>1
<1> HIDE DEF up2, rank2
<1>9. \A n \in T2, m \in T2, s \in Sides : <<m, s>> \in up2[n] => rank2[n] < rank2[m]
  <2> SUFFICES ASSUME NEW n \in T2, NEW m \in T2, NEW s \in Sides, <<m, s>> \in up2[n]
               PROVE  rank2[n] < rank2[m]
    OBVIOUS
  <2>1. m \in T
    BY <1>1, <1>6, <1>7
  <2>2. rank[m] \in Nat
    BY <1>1, <2>1
  <2>3. CASE n = new
    BY <1>6, <1>7, <2>1, <2>2, <2>3
  <2>4. CASE n # new
    <3>1. rank[n] < rank[m] /\ rank[n] \in Nat
      BY <1>1, <1>6, <2>1, <2>4
    <3> QED
      BY <1>6, <2>1, <2>2, <2>4, <3>1
  <2> QED
    BY <2>3, <2>4
<1>10. \A n \in T2, s \in Sides :
         u.mem[n][s] \in Junk \/ (u.mem[n][s] \in T2 /\ up2[u.mem[n][s]] = up2[n] \cup {<<n, s>>})
  BY <1>2, <1>4, <1>6, <1>7
<1>11. \A n \in T2, m \in T2, s \in Sides : <<m, s>> \in up2[n] =>
         /\ u.mem[m][s] \in T2
         /\ u.mem[m][s] = n \/ \E r \in Sides : <<u.mem[m][s], r>> \in up2[n]
  <2> SUFFICES ASSUME NEW n \in T2, NEW m \in T2, NEW s \in Sides, <<m, s>> \in up2[n]
               PROVE  /\ u.mem[m][s] \in T2
                      /\ u.mem[m][s] = n \/ \E r \in Sides : <<u.mem[m][s], r>> \in up2[n]
    OBVIOUS
  <2>1. m \in T
    BY <1>1, <1>6, <1>7
  <2>2. CASE n # new
    <3>1. t.mem[m][s] \in T /\ (t.mem[m][s] = n \/ \E r \in Sides : <<t.mem[m][s], r>> \in up[n])
      BY <1>3, <1>6, <2>1, <2>2
    <3>2. u.mem[m][s] = t.mem[m][s]
      BY <1>5, <2>1, <3>1
    <3> QED
      BY <1>6, <2>2, <3>1, <3>2
  <2>3. CASE n = new /\ <<m, s>> = <<p, side>>
    BY <2>1, <2>3
  <2>4. CASE n = new /\ <<m, s>> # <<p, side>>
    <3>1. <<m, s>> \in up[p]
      BY <1>7, <2>4
    <3>2. t.mem[m][s] \in T /\ (t.mem[m][s] = p \/ \E r \in Sides : <<t.mem[m][s], r>> \in up[p])
      BY <1>3, <2>1, <3>1
    <3>3. u.mem[m][s] = t.mem[m][s]
      BY <1>5, <2>1, <3>2
    <3> QED
      BY <1>7, <2>4, <3>2, <3>3
  <2> QED
    BY <2>2, <2>3, <2>4
<1>12. \A n \in T2 \ {Root} : \E s \in Sides : <<Root, s>> \in up2[n]
  <2> SUFFICES ASSUME NEW n \in T2 \ {Root}
               PROVE  \E s \in Sides : <<Root, s>> \in up2[n]
    OBVIOUS
  <2>1. CASE n # new
    BY <1>1, <1>6, <2>1
  <2>2. CASE n = new /\ p = Root
    BY <1>7, <2>2
  <2>3. CASE n = new /\ p # Root
    BY <1>1, <1>7, <2>3
  <2> QED
    BY <2>1, <2>2, <2>3
<1>13. up2[Root] = {} /\ T2 \subseteq DOMAIN u.mem /\ Root \in T2
  BY <1>1, <1>6
<1> HIDE DEF T2
<1>14. Ways(u, T2, up2)
  BY <1>10, <1>11, <1>12 DEF Ways
<1>15. Tree(u, T2, up2, rank2)
  BY <1>8, <1>9, <1>13, <1>14 DEF Tree
<1> QED
  BY <1>15 DEF T2, up2, rank2

(* The link to x leads to c, x's only child or none of the tree, in u. *)
Unlinks(t, T, u, p, side, x, c) ==
  /\ p \in T /\ side \in Sides /\ x \in T /\ t.mem[p][side] = x
  /\ \A s \in Sides : t.mem[x][s] \in T => t.mem[x][s] = c
  /\ c \in Junk \/ \E s \in Sides : c = t.mem[x][s] /\ c \in T
  /\ \A n \in T \ {x}, s \in Sides :
       u.mem[n][s] = IF n = p /\ s = side THEN c ELSE t.mem[n][s]

UpWithout(T, up, x) == [n \in T \ {x} |-> up[n] \ ({x} \X Sides)]

RankWithout(T, rank, x) == [n \in T \ {x} |-> rank[n]]

(* The only child of a node, if it has one, takes its place. *)
LEMMA UnlinkedTree ==
  ASSUME NEW t, Cells(t), NEW T, NEW up, NEW rank, Tree(t, T, up, rank),
         NEW u, Cells(u), DOMAIN u.mem = DOMAIN t.mem,
         NEW p, NEW side, NEW x, NEW c, Unlinks(t, T, u, p, side, x, c)
  PROVE  Tree(u, T \ {x}, UpWithout(T, up, x), RankWithout(T, rank, x))
<1> DEFINE T2 == T \ {x}
           up2 == [n \in T2 |-> up[n] \ ({x} \X Sides)]
           rank2 == [n \in T2 |-> rank[n]]
<1>0. /\ p \in T /\ side \in Sides /\ x \in T /\ t.mem[p][side] = x
      /\ \A s \in Sides : t.mem[x][s] \in T => t.mem[x][s] = c
      /\ c \in Junk \/ \E s \in Sides : c = t.mem[x][s] /\ c \in T
      /\ \A n \in T \ {x}, s \in Sides :
           u.mem[n][s] = IF n = p /\ s = side THEN c ELSE t.mem[n][s]
  BY DEF Unlinks
<1> USE <1>0
<1>1. /\ T \subseteq DOMAIN t.mem /\ Root \in T
      /\ rank \in [T -> Nat] /\ up \in [T -> SUBSET (T \X Sides)] /\ up[Root] = {}
      /\ \A n \in T, m \in T, s \in Sides : <<m, s>> \in up[n] => rank[n] < rank[m]
      /\ \A n \in T \ {Root} : \E s \in Sides : <<Root, s>> \in up[n]
  BY DEF Tree, Ways
<1>2. \A n \in T, s \in Sides : t.mem[n][s] \in T => up[t.mem[n][s]] = up[n] \cup {<<n, s>>}
  BY LinksApart
<1>3. \A n \in T, m \in T, s \in Sides : <<m, s>> \in up[n] =>
        /\ t.mem[m][s] \in T
        /\ t.mem[m][s] = n \/ \E r \in Sides : <<t.mem[m][s], r>> \in up[n]
  BY DEF Tree, Ways
<1>4. \A n \in T, s \in Sides : t.mem[n][s] \in T \/ t.mem[n][s] \in Junk
  BY DEF Tree, Ways
<1>5. x # Root /\ p # x /\ \A n \in T, s \in Sides : t.mem[n][s] = x => n = p /\ s = side
  BY LinksApart
<1>6. \A n \in T2 : /\ rank2[n] = rank[n]
                    /\ \A m, s : <<m, s>> \in up2[n] <=> <<m, s>> \in up[n] /\ ~(m = x /\ s \in Sides)
  OBVIOUS
<1>7. \A n \in T2 : up2[n] = up[n] \ ({x} \X Sides)
  OBVIOUS
<1>8. rank2 \in [T2 -> Nat]
  BY <1>1
<1>9. up2 \in [T2 -> SUBSET (T2 \X Sides)]
  <2>1. \A n \in T2 : up[n] \subseteq T \X Sides
    BY <1>1
  <2>2. \A n \in T2 : up2[n] \subseteq T2 \X Sides
    BY <1>7, <2>1
  <2>3. up2 = [n \in T2 |-> up2[n]]
    OBVIOUS
  <2> HIDE DEF up2
  <2> QED
    BY <2>2, <2>3
<1> HIDE DEF up2, rank2
<1>10. \A n \in T2, m \in T2, s \in Sides : <<m, s>> \in up2[n] => rank2[n] < rank2[m]
  BY <1>1, <1>6
<1>11. \A n \in T2, s \in Sides :
         u.mem[n][s] \in Junk \/ (u.mem[n][s] \in T2 /\ up2[u.mem[n][s]] = up2[n] \cup {<<n, s>>})
  <2> SUFFICES ASSUME NEW n \in T2, NEW s \in Sides, u.mem[n][s] \notin Junk
               PROVE  u.mem[n][s] \in T2 /\ up2[u.mem[n][s]] = up2[n] \cup {<<n, s>>}
    OBVIOUS
  <2>1. CASE n = p /\ s = side
    <3>1. u.mem[n][s] = c
      BY <2>1
    <3>2. PICK r \in Sides : c = t.mem[x][r] /\ c \in T
      BY <3>1
    <3>3. up[c] = up[x] \cup {<<x, r>>} /\ c # x
      BY <3>2, <1>2, LinksApart
    <3>4. up[x] = up[n] \cup {<<n, s>>}
      BY <1>2, <2>1
    <3>5. up2[c] = up2[n] \cup {<<n, s>>}
      BY <1>7, <3>2, <3>3, <3>4
    <3> QED
      BY <3>1, <3>2, <3>3, <3>5
  <2>2. CASE ~(n = p /\ s = side)
    <3>1. u.mem[n][s] = t.mem[n][s]
      BY <2>2
    <3>2. t.mem[n][s] \in T /\ t.mem[n][s] # x
      BY <1>4, <1>5, <2>2, <3>1
    <3>3. up[t.mem[n][s]] = up[n] \cup {<<n, s>>}
      BY <1>2, <3>2
    <3>4. up2[t.mem[n][s]] = up2[n] \cup {<<n, s>>}
      BY <1>7, <3>2, <3>3
    <3> QED
      BY <3>1, <3>2, <3>4
  <2> QED
    BY <2>1, <2>2
<1>12. \A n \in T2, m \in T2, s \in Sides : <<m, s>> \in up2[n] =>
         /\ u.mem[m][s] \in T2
         /\ u.mem[m][s] = n \/ \E r \in Sides : <<u.mem[m][s], r>> \in up2[n]
  <2> SUFFICES ASSUME NEW n \in T2, NEW m \in T2, NEW s \in Sides, <<m, s>> \in up2[n]
               PROVE  /\ u.mem[m][s] \in T2
                      /\ u.mem[m][s] = n \/ \E r \in Sides : <<u.mem[m][s], r>> \in up2[n]
    OBVIOUS
  <2>1. <<m, s>> \in up[n]
    BY <1>6
  <2>2. t.mem[m][s] \in T /\ (t.mem[m][s] = n \/ \E r \in Sides : <<t.mem[m][s], r>> \in up[n])
    BY <1>3, <2>1
  <2>3. CASE ~(m = p /\ s = side)
    <3>1. u.mem[m][s] = t.mem[m][s] /\ t.mem[m][s] # x
      BY <1>5, <2>3
    <3> QED
      BY <1>6, <2>2, <3>1
  <2>4. CASE m = p /\ s = side
    <3>1. PICK r \in Sides : <<x, r>> \in up[n]
      BY <2>2, <2>4
    <3>2. t.mem[x][r] \in T /\ (t.mem[x][r] = n \/ \E q \in Sides : <<t.mem[x][r], q>> \in up[n])
      BY <1>3, <3>1
    <3>3. t.mem[x][r] = c /\ u.mem[m][s] = c /\ c # x
      BY <2>4, <3>2, LinksApart
    <3> QED
      BY <1>6, <3>2, <3>3
  <2> QED
    BY <2>3, <2>4
<1>13. \A n \in T2 \ {Root} : \E s \in Sides : <<Root, s>> \in up2[n]
  BY <1>1, <1>5, <1>6
<1>14. up2[Root] = {} /\ T2 \subseteq DOMAIN u.mem /\ Root \in T2
  BY <1>1, <1>5, <1>7
<1> HIDE DEF T2
<1>15. Ways(u, T2, up2)
  BY <1>11, <1>12, <1>13 DEF Ways
<1>16. Tree(u, T2, up2, rank2)
  BY <1>8, <1>9, <1>10, <1>14, <1>15 DEF Tree
<1> QED
  BY <1>16 DEF T2, up2, rank2, UpWithout, RankWithout

(* The nodes below n. *)
Under(T, up, n) == {x \in T : \E s \in Sides : <<n, s>> \in up[x]}

(* The root takes over the links of a node below it. *)
LEMMA CopiedTree ==
  ASSUME NEW t, Cells(t), NEW T, NEW up, NEW rank, Tree(t, T, up, rank),
         NEW u, Cells(u), DOMAIN u.mem = DOMAIN t.mem, NEW n \in T \ {Root},
         \A x \in T, s \in Sides : u.mem[x][s] = IF x = Root THEN t.mem[n][s] ELSE t.mem[x][s]
  PROVE  LET D == Under(T, up, n)
         IN Tree(u, {Root} \cup D,
                 [x \in {Root} \cup D |->
                    IF x = Root THEN {}
                    ELSE {l \in up[x] : l[1] \in D} \cup {l \in {Root} \X Sides : <<n, l[2]>> \in up[x]}],
                 [x \in {Root} \cup D |-> IF x = Root THEN rank[n] ELSE rank[x]])
<1> DEFINE D == Under(T, up, n)
           T2 == {Root} \cup D
           up2 == [x \in T2 |->
                    IF x = Root THEN {}
                    ELSE {l \in up[x] : l[1] \in D} \cup {l \in {Root} \X Sides : <<n, l[2]>> \in up[x]}]
           rank2 == [x \in T2 |-> IF x = Root THEN rank[n] ELSE rank[x]]
<1>1. /\ T \subseteq DOMAIN t.mem /\ Root \in T
      /\ rank \in [T -> Nat] /\ up \in [T -> SUBSET (T \X Sides)] /\ up[Root] = {}
      /\ \A x \in T, m \in T, s \in Sides : <<m, s>> \in up[x] => rank[x] < rank[m]
  BY DEF Tree, Ways
<1>2. \A x \in T, s \in Sides : t.mem[x][s] \in T => up[t.mem[x][s]] = up[x] \cup {<<x, s>>}
  BY LinksApart
<1>3. \A x \in T, m \in T, s \in Sides : <<m, s>> \in up[x] =>
        /\ t.mem[m][s] \in T
        /\ t.mem[m][s] = x \/ \E r \in Sides : <<t.mem[m][s], r>> \in up[x]
  BY DEF Tree, Ways
<1>4. \A x \in T, s \in Sides : t.mem[x][s] \in T \/ t.mem[x][s] \in Junk
  BY DEF Tree, Ways
<1>5. /\ \A x \in D : x \in T /\ x # Root /\ \E s \in Sides : <<n, s>> \in up[x]
      /\ \A x \in T, s \in Sides : <<n, s>> \in up[x] => x \in D
      /\ n \notin D
  <2>1. n \notin D
    BY TreeTyped DEF Under
  <2> QED
    BY <1>1, <2>1 DEF Under
<1>6. \A m \in D, s \in Sides : <<m, s>> \notin up[n]
  <2> SUFFICES ASSUME NEW m \in D, NEW s \in Sides, <<m, s>> \in up[n]
               PROVE  FALSE
    OBVIOUS
  <2>1. rank[n] < rank[m] /\ rank[m] < rank[n] /\ rank[n] \in Nat /\ rank[m] \in Nat
    BY <1>1, <1>5
  <2> QED
    BY <2>1
<1>7. up2[Root] = {} /\ rank2[Root] = rank[n]
  OBVIOUS
<1>8. \A x \in D : /\ rank2[x] = rank[x]
                   /\ up2[x] = {l \in up[x] : l[1] \in D} \cup {l \in {Root} \X Sides : <<n, l[2]>> \in up[x]}
  BY <1>5
<1>9. \A x \in D, m \in T2, s \in Sides :
        <<m, s>> \in up2[x] <=> IF m = Root THEN <<n, s>> \in up[x] ELSE <<m, s>> \in up[x]
  BY <1>5, <1>8
<1>10. rank2 \in [T2 -> Nat]
  BY <1>1, <1>5
<1>11. up2 \in [T2 -> SUBSET (T2 \X Sides)]
  <2>1. \A x \in D : up[x] \subseteq T \X Sides
    BY <1>1, <1>5
  <2>2. \A x \in D : \A l \in up2[x] : l \in T2 \X Sides
    BY <1>8, <2>1
  <2>3. \A x \in T2 : up2[x] \subseteq T2 \X Sides
    BY <1>7, <2>2
  <2>4. up2 = [x \in T2 |-> up2[x]]
    OBVIOUS
  <2> HIDE DEF up2
  <2> QED
    BY <2>3, <2>4
<1> HIDE DEF up2, rank2, D
<1>12. \A x \in T2, m \in T2, s \in Sides : <<m, s>> \in up2[x] => rank2[x] < rank2[m]
  <2> SUFFICES ASSUME NEW x \in D, NEW m \in T2, NEW s \in Sides, <<m, s>> \in up2[x]
               PROVE  rank2[x] < rank2[m]
    BY <1>7
  <2>1. CASE m = Root
    <3>1. <<n, s>> \in up[x] /\ x \in T
      BY <1>5, <1>9, <2>1
    <3>2. rank[x] < rank[n]
      BY <1>1, <3>1
    <3> QED
      BY <1>7, <1>8, <2>1, <3>2
  <2>2. CASE m # Root
    <3>1. m \in D /\ m \in T /\ x \in T
      BY <1>5, <2>2
    <3>2. rank[x] < rank[m]
      BY <1>1, <1>9, <2>2, <3>1
    <3> QED
      BY <1>8, <3>1, <3>2
  <2> QED
    BY <2>1, <2>2
<1>13. \A x \in T2, s \in Sides :
         u.mem[x][s] \in Junk \/ (u.mem[x][s] \in T2 /\ up2[u.mem[x][s]] = up2[x] \cup {<<x, s>>})
  <2> SUFFICES ASSUME NEW x \in T2, NEW s \in Sides, u.mem[x][s] \notin Junk
               PROVE  u.mem[x][s] \in T2 /\ up2[u.mem[x][s]] = up2[x] \cup {<<x, s>>}
    OBVIOUS
  <2>1. CASE x = Root
    <3> DEFINE c == t.mem[n][s]
    <3>1. u.mem[x][s] = c /\ c \in T
      BY <1>1, <1>4, <2>1
    <3>2. up[c] = up[n] \cup {<<n, s>>}
      BY <1>2, <3>1
    <3>3. c \in D
      BY <1>5, <3>1, <3>2
    <3> HIDE DEF c
    <3>4. \A m \in T2, r \in Sides : <<m, r>> \in up2[c] <=> <<m, r>> = <<Root, s>>
      <4> SUFFICES ASSUME NEW m \in T2, NEW r \in Sides
                   PROVE  <<m, r>> \in up2[c] <=> <<m, r>> = <<Root, s>>
        OBVIOUS
      <4>1. CASE m = Root
        <5>1. <<n, r>> \notin up[n]
          BY TreeTyped
        <5> QED
          BY <1>9, <3>2, <3>3, <4>1, <5>1
      <4>2. CASE m # Root
        <5>1. m \in D /\ m # n
          BY <1>5, <4>2
        <5>2. <<m, r>> \notin up[n]
          BY <1>6, <5>1
        <5> QED
          BY <1>9, <3>2, <3>3, <4>2, <5>1, <5>2
      <4> QED
        BY <4>1, <4>2
    <3>5. up2[c] \subseteq T2 \X Sides
      BY <1>11, <3>3
    <3>6. up2[c] = {<<Root, s>>}
      BY <3>4, <3>5
    <3> QED
      BY <1>7, <2>1, <3>1, <3>3, <3>6
  <2>2. CASE x # Root
    <3> DEFINE c == t.mem[x][s]
    <3>1. x \in D /\ x \in T
      BY <1>5, <2>2
    <3>2. u.mem[x][s] = c /\ c \in T
      BY <1>4, <2>2, <3>1
    <3>3. up[c] = up[x] \cup {<<x, s>>}
      BY <1>2, <3>1, <3>2
    <3>4. c \in D
      BY <1>5, <3>1, <3>2, <3>3
    <3>5. x # n
      BY <1>5, <3>1
    <3> HIDE DEF c
    <3>6. up2[c] = up2[x] \cup {<<x, s>>}
      <4>1. {l \in up[c] : l[1] \in D} = {l \in up[x] : l[1] \in D} \cup {<<x, s>>}
        BY <3>1, <3>3
      <4>2. \A r \in Sides : <<n, r>> \in up[c] <=> <<n, r>> \in up[x]
        BY <3>3, <3>5
      <4>3. {l \in {Root} \X Sides : <<n, l[2]>> \in up[c]} = {l \in {Root} \X Sides : <<n, l[2]>> \in up[x]}
        BY <4>2
      <4> QED
        BY <1>8, <3>1, <3>4, <4>1, <4>3
    <3> QED
      BY <3>2, <3>4, <3>6
  <2> QED
    BY <2>1, <2>2
<1>14. \A x \in T2, m \in T2, s \in Sides : <<m, s>> \in up2[x] =>
         /\ u.mem[m][s] \in T2
         /\ u.mem[m][s] = x \/ \E r \in Sides : <<u.mem[m][s], r>> \in up2[x]
  <2> SUFFICES ASSUME NEW x \in D, NEW m \in T2, NEW s \in Sides, <<m, s>> \in up2[x]
               PROVE  /\ u.mem[m][s] \in T2
                      /\ u.mem[m][s] = x \/ \E r \in Sides : <<u.mem[m][s], r>> \in up2[x]
    BY <1>7
  <2> DEFINE o == IF m = Root THEN n ELSE m
             c == t.mem[o][s]
  <2>1. o \in T /\ <<o, s>> \in up[x] /\ x \in T
    BY <1>5, <1>9
  <2>2. c \in T /\ (c = x \/ \E r \in Sides : <<c, r>> \in up[x])
    BY <1>3, <2>1
  <2>3. up[c] = up[o] \cup {<<o, s>>}
    BY <1>2, <2>1, <2>2
  <2>4. c \in D
    BY <1>5, <2>1, <2>2, <2>3
  <2>5. u.mem[m][s] = c
    BY <1>1, <1>5
  <2> HIDE DEF c
  <2>6. c # Root
    BY <1>5, <2>4
  <2>7. \A r \in Sides : <<c, r>> \in up[x] => <<c, r>> \in up2[x]
    BY <1>9, <2>4, <2>6
  <2> QED
    BY <2>2, <2>4, <2>5, <2>7
<1>15. \A x \in T2 \ {Root} : \E s \in Sides : <<Root, s>> \in up2[x]
  BY <1>5, <1>9
<1>16. T2 \subseteq DOMAIN u.mem /\ Root \in T2
  BY <1>1, <1>5
<1>17. Root \in T2
  OBVIOUS
<1> HIDE DEF T2
<1>18. Ways(u, T2, up2)
  BY <1>13, <1>14, <1>15 DEF Ways
<1>19. Tree(u, T2, up2, rank2)
  BY <1>7, <1>10, <1>11, <1>12, <1>16, <1>18 DEF Tree
<1> QED
  BY <1>19 DEF T2, up2, rank2, D

-----------------------------------------------------------------------------
(* The lists. *)

(* S is the list of node n. *)
IsList(t, n, S) ==
  /\ t.mem[n].data = Null \/ (t.mem[n].data \in S /\ t.mem[t.mem[n].data].prev = Null)
  /\ \A d \in S : t.mem[d].next = Null \/ (t.mem[d].next \in S /\ t.mem[t.mem[d].next].prev = d)
  /\ \A d \in S : t.mem[d].f_end = t.mem[d].f_ptr + t.mem[n].key
  /\ \A R \in SUBSET S :
       /\ t.mem[n].data = Null \/ t.mem[n].data \in R
       /\ \A d \in R : t.mem[d].next = Null \/ t.mem[d].next \in R
       => R = S

Lists(t, T, L) ==
  /\ L \in [T -> SUBSET DOMAIN t.mem]
  /\ \A n \in T : IsList(t, n, L[n])
  /\ \A n \in T, m \in T : n # m => L[n] \cap L[m] = {}

(* Two states agree on the fields in F of the nodes in S. *)
Agree(t, u, S, F) == \A x \in S, f \in F : u.mem[x][f] = t.mem[x][f]

ChunkFields == {"f_ptr", "f_end", "a_ptr", "a_end"}

(* A list is a matter of a few fields of its node and of its elements. *)
LEMMA ListStays ==
  ASSUME NEW t, NEW u, NEW n, NEW S, IsList(t, n, S),
         Agree(t, u, {n}, {"data", "key"}), Agree(t, u, S, {"next", "prev", "f_ptr", "f_end"})
  PROVE  IsList(u, n, S)
<1>1. u.mem[n].data = t.mem[n].data /\ u.mem[n].key = t.mem[n].key
  BY DEF Agree
<1>2. \A d \in S : /\ u.mem[d].next = t.mem[d].next /\ u.mem[d].prev = t.mem[d].prev
                   /\ u.mem[d].f_ptr = t.mem[d].f_ptr /\ u.mem[d].f_end = t.mem[d].f_end
  BY DEF Agree
<1>3. u.mem[n].data = Null \/ (u.mem[n].data \in S /\ u.mem[u.mem[n].data].prev = Null)
  BY <1>1, <1>2 DEF IsList
<1>4. \A d \in S : u.mem[d].next = Null \/ (u.mem[d].next \in S /\ u.mem[u.mem[d].next].prev = d)
  BY <1>2 DEF IsList
<1>5. \A d \in S : u.mem[d].f_end = u.mem[d].f_ptr + u.mem[n].key
  BY <1>1, <1>2 DEF IsList
<1>6. ASSUME NEW R \in SUBSET S, u.mem[n].data = Null \/ u.mem[n].data \in R,
             \A d \in R : u.mem[d].next = Null \/ u.mem[d].next \in R
      PROVE  R = S
  <2>1. t.mem[n].data = Null \/ t.mem[n].data \in R
    BY <1>1, <1>6
  <2>2. \A d \in R : t.mem[d].next = Null \/ t.mem[d].next \in R
    BY <1>2, <1>6
  <2> QED
    BY <2>1, <2>2 DEF IsList
<1> QED
  BY <1>3, <1>4, <1>5, <1>6 DEF IsList

(* dynlist_del takes the first element. *)
LEMMA DelTakesFirst ==
  ASSUME NEW t, Cells(t), NEW n \in DOMAIN t.mem, NEW S \in SUBSET DOMAIN t.mem, IsList(t, n, S),
         t.mem[n].data # Null
  PROVE  LET u == dynlist_del(t, n)
             d == t.mem[n].data
         IN /\ Cells(u) /\ u.wild = t.wild /\ DOMAIN u.mem = DOMAIN t.mem
            /\ u.mem[n].data = t.mem[d].next
            /\ IsList(u, n, S \ {d})
            /\ Agree(t, u, DOMAIN t.mem, Fields \ {"data", "prev"})
            /\ Agree(t, u, DOMAIN t.mem \ {n}, {"data"})
            /\ Agree(t, u, DOMAIN t.mem \ S, {"prev"})
<1> DEFINE d == t.mem[n].data
           next == t.mem[d].next
           t2 == IF next = Null THEN t ELSE SetField(t, next, "prev", Null)
           u == dynlist_del(t, n)
<1>1. /\ d \in S /\ t.mem[d].prev = Null /\ d \in DOMAIN t.mem
      /\ next = Null \/ (next \in S /\ t.mem[next].prev = d)
  BY DEF IsList
<1>2. u = SetField(t2, n, "data", next)
  BY <1>1 DEF dynlist_del
<1>3. next \in Nat /\ d \in Nat /\ d # Null /\ Null \in Nat
  BY <1>1, Typed DEF Fields, Null
<1>4. "prev" \in Fields /\ "data" \in Fields /\ "next" \in Fields
  BY DEF Fields
<1> HIDE DEF u, d, next
<1>5. /\ Cells(t2) /\ t2.wild = t.wild /\ DOMAIN t2.mem = DOMAIN t.mem
      /\ \A x \in DOMAIN t.mem, f \in Fields :
           t2.mem[x][f] = IF next # Null /\ x = next /\ f = "prev" THEN Null ELSE t.mem[x][f]
  <2>1. CASE next = Null
    BY <2>1
  <2>2. CASE next # Null
    <3>1. next \in DOMAIN t.mem
      BY <1>1, <2>2
    <3>2. t2 = SetField(t, next, "prev", Null)
      BY <2>2
    <3> HIDE DEF t2
    <3> QED
      BY <1>3, <1>4, <2>2, <3>1, <3>2, SetFieldSets
  <2> QED
    BY <2>1, <2>2
<1> HIDE DEF t2
<1>6. /\ Cells(u) /\ u.wild = t2.wild /\ DOMAIN u.mem = DOMAIN t2.mem
      /\ \A x \in DOMAIN t.mem, f \in Fields :
           u.mem[x][f] = IF x = n /\ f = "data" THEN next ELSE t2.mem[x][f]
  BY <1>2, <1>3, <1>4, <1>5, SetFieldSets
<1>7. \A x \in DOMAIN t.mem, f \in Fields :
        u.mem[x][f] = IF x = n /\ f = "data" THEN next
                      ELSE IF next # Null /\ x = next /\ f = "prev" THEN Null ELSE t.mem[x][f]
  BY <1>5, <1>6
<1>8. /\ u.mem[n].data = next
      /\ \A x \in DOMAIN t.mem : u.mem[x].next = t.mem[x].next /\ u.mem[x].key = t.mem[x].key
                                 /\ u.mem[x].f_ptr = t.mem[x].f_ptr /\ u.mem[x].f_end = t.mem[x].f_end
      /\ \A x \in DOMAIN t.mem : u.mem[x].prev = IF next # Null /\ x = next THEN Null ELSE t.mem[x].prev
  BY <1>7 DEF Fields
<1>9. \A e \in S : e # Null /\ (t.mem[e].next = Null \/ (t.mem[e].next \in S /\ t.mem[t.mem[e].next].prev = e))
  BY Typed DEF IsList
<1>10. IsList(u, n, S \ {d})
  <2>1. next # d
    BY <1>1, <1>3
  <2>2. u.mem[n].data = Null \/ (u.mem[n].data \in S \ {d} /\ u.mem[u.mem[n].data].prev = Null)
    BY <1>1, <1>8, <2>1
  <2>3. ASSUME NEW e \in S \ {d}
        PROVE  u.mem[e].next = Null \/ (u.mem[e].next \in S \ {d} /\ u.mem[u.mem[e].next].prev = e)
    <3>1. u.mem[e].next = t.mem[e].next
      BY <1>8
    <3>2. CASE t.mem[e].next # Null
      <4>1. t.mem[e].next \in S /\ t.mem[t.mem[e].next].prev = e /\ e # Null
        BY <1>9, <3>2
      <4>2. t.mem[e].next # d
        BY <1>1, <4>1
      <4>3. t.mem[e].next # next
        BY <1>1, <3>2, <4>1
      <4> QED
        BY <1>8, <3>1, <4>1, <4>2, <4>3
    <3> QED
      BY <3>1, <3>2
  <2>4. \A e \in S \ {d} : u.mem[e].f_end = u.mem[e].f_ptr + u.mem[n].key
    <3>1. \A e \in S : t.mem[e].f_end = t.mem[e].f_ptr + t.mem[n].key
      BY DEF IsList
    <3> QED
      BY <1>8, <3>1
  <2>5. ASSUME NEW R \in SUBSET (S \ {d}), u.mem[n].data = Null \/ u.mem[n].data \in R,
               \A e \in R : u.mem[e].next = Null \/ u.mem[e].next \in R
        PROVE  R = S \ {d}
    <3> DEFINE Q == R \cup {d}
    <3>1. Q \in SUBSET S /\ t.mem[n].data \in Q
      BY <1>1 DEF d
    <3>2. \A e \in Q : t.mem[e].next = Null \/ t.mem[e].next \in Q
      BY <1>8, <2>5 DEF next
    <3> HIDE DEF Q
    <3>3. Q = S
      BY <3>1, <3>2 DEF IsList
    <3> QED
      BY <3>3 DEF Q
  <2> QED
    BY <2>2, <2>3, <2>4, <2>5 DEF IsList
<1>11. /\ Agree(t, u, DOMAIN t.mem, Fields \ {"data", "prev"})
       /\ Agree(t, u, DOMAIN t.mem \ {n}, {"data"})
       /\ Agree(t, u, DOMAIN t.mem \ S, {"prev"})
  <2>1. Agree(t, u, DOMAIN t.mem, Fields \ {"data", "prev"})
    BY <1>7 DEF Agree
  <2>2. Agree(t, u, DOMAIN t.mem \ {n}, {"data"})
    BY <1>4, <1>7 DEF Agree
  <2>3. Agree(t, u, DOMAIN t.mem \ S, {"prev"})
    BY <1>1, <1>4, <1>8 DEF Agree
  <2> QED
    BY <2>1, <2>2, <2>3
<1> QED
  BY <1>5, <1>6, <1>8, <1>10, <1>11 DEF u, d, next

(* dynlist_prepend puts an element in front. *)
LEMMA PrependAdds ==
  ASSUME NEW t, Cells(t), NEW n \in DOMAIN t.mem, NEW S \in SUBSET DOMAIN t.mem, IsList(t, n, S),
         NEW new \in DOMAIN t.mem \ S, t.mem[new].next = Null, t.mem[new].prev = Null,
         t.mem[new].f_end = t.mem[new].f_ptr + t.mem[n].key
  PROVE  LET u == dynlist_prepend(t, n, new)
         IN /\ Cells(u) /\ u.wild = t.wild /\ DOMAIN u.mem = DOMAIN t.mem
            /\ u.mem[n].data = new
            /\ IsList(u, n, S \cup {new})
            /\ Agree(t, u, DOMAIN t.mem, Fields \ {"data", "prev", "next"})
            /\ Agree(t, u, DOMAIN t.mem \ {n}, {"data"})
            /\ Agree(t, u, DOMAIN t.mem \ (S \cup {new}), {"prev", "next"})
<1> DEFINE old == t.mem[n].data
           u == dynlist_prepend(t, n, new)
<1>0. /\ old \in Nat /\ new \in Nat /\ new # Null /\ Null \in Nat
      /\ \A d \in S : d # Null
  BY Typed DEF Fields, Null
<1>00. "prev" \in Fields /\ "data" \in Fields /\ "next" \in Fields
  BY DEF Fields
<1>1. old = Null \/ (old \in S /\ t.mem[old].prev = Null)
  BY DEF IsList
<1> HIDE DEF old, u
<1>2. /\ Cells(u) /\ u.wild = t.wild /\ DOMAIN u.mem = DOMAIN t.mem
      /\ \A x \in DOMAIN t.mem, f \in Fields :
           u.mem[x][f] = IF x = n /\ f = "data" THEN new
                         ELSE IF x = new /\ f = "next" THEN old
                         ELSE IF x = old /\ f = "prev" THEN new
                         ELSE t.mem[x][f]
  <2>1. CASE old = Null
    <3> DEFINE t1 == SetField(t, n, "data", new)
               t2 == SetField(t1, new, "next", Null)
    <3>1. u = SetField(t2, new, "prev", Null)
      BY <2>1 DEF dynlist_prepend, u, old
    <3>2. /\ Cells(t1) /\ t1.wild = t.wild /\ DOMAIN t1.mem = DOMAIN t.mem
          /\ \A x \in DOMAIN t.mem, f \in Fields :
               t1.mem[x][f] = IF x = n /\ f = "data" THEN new ELSE t.mem[x][f]
      BY <1>0, <1>00, SetFieldSets
    <3> HIDE DEF t1
    <3>3. /\ Cells(t2) /\ t2.wild = t.wild /\ DOMAIN t2.mem = DOMAIN t.mem
          /\ \A x \in DOMAIN t.mem, f \in Fields :
               t2.mem[x][f] = IF x = new /\ f = "next" THEN Null ELSE t1.mem[x][f]
      BY <1>0, <1>00, <3>2, SetFieldSets
    <3> HIDE DEF t2
    <3>4. /\ Cells(u) /\ u.wild = t.wild /\ DOMAIN u.mem = DOMAIN t.mem
          /\ \A x \in DOMAIN t.mem, f \in Fields :
               u.mem[x][f] = IF x = new /\ f = "prev" THEN Null ELSE t2.mem[x][f]
      BY <1>0, <1>00, <3>1, <3>3, SetFieldSets
    <3>5. \A x \in DOMAIN t.mem : x # Null
      BY Typed
    <3> QED
      BY <2>1, <3>2, <3>3, <3>4, <3>5
  <2>2. CASE old # Null
    <3> DEFINE t1 == SetField(t, new, "next", old)
               t2 == SetField(t1, old, "prev", new)
    <3>1. u = SetField(t2, n, "data", new)
      BY <1>1, <2>2 DEF dynlist_prepend, u, old
    <3>2. /\ Cells(t1) /\ t1.wild = t.wild /\ DOMAIN t1.mem = DOMAIN t.mem
          /\ \A x \in DOMAIN t.mem, f \in Fields :
               t1.mem[x][f] = IF x = new /\ f = "next" THEN old ELSE t.mem[x][f]
      BY <1>0, <1>00, SetFieldSets
    <3> HIDE DEF t1
    <3>3. /\ Cells(t2) /\ t2.wild = t.wild /\ DOMAIN t2.mem = DOMAIN t.mem
          /\ \A x \in DOMAIN t.mem, f \in Fields :
               t2.mem[x][f] = IF x = old /\ f = "prev" THEN new ELSE t1.mem[x][f]
      BY <1>0, <1>00, <1>1, <2>2, <3>2, SetFieldSets
    <3> HIDE DEF t2
    <3>4. /\ Cells(u) /\ u.wild = t.wild /\ DOMAIN u.mem = DOMAIN t.mem
          /\ \A x \in DOMAIN t.mem, f \in Fields :
               u.mem[x][f] = IF x = n /\ f = "data" THEN new ELSE t2.mem[x][f]
      BY <1>0, <1>00, <3>1, <3>3, SetFieldSets
    <3> QED
      BY <3>2, <3>3, <3>4
  <2> QED
    BY <2>1, <2>2
<1>3. /\ u.mem[n].data = new
      /\ \A x \in DOMAIN t.mem : u.mem[x].key = t.mem[x].key
                                 /\ u.mem[x].f_ptr = t.mem[x].f_ptr /\ u.mem[x].f_end = t.mem[x].f_end
      /\ \A x \in DOMAIN t.mem : u.mem[x].prev = IF x = old THEN new ELSE t.mem[x].prev
      /\ \A x \in DOMAIN t.mem : u.mem[x].next = IF x = new THEN old ELSE t.mem[x].next
  BY <1>2 DEF Fields
<1>4. \A e \in S : t.mem[e].next = Null \/ (t.mem[e].next \in S /\ t.mem[t.mem[e].next].prev = e)
  BY DEF IsList
<1>5. old = Null => S = {}
  <2>1. \A R \in SUBSET S :
          (old = Null \/ old \in R) /\ (\A d \in R : t.mem[d].next = Null \/ t.mem[d].next \in R) => R = S
    BY DEF IsList, old
  <2>2. {} \in SUBSET S
    OBVIOUS
  <2> QED
    BY <2>1, <2>2
<1>6. IsList(u, n, S \cup {new})
  <2>1. u.mem[n].data \in S \cup {new} /\ u.mem[u.mem[n].data].prev = Null
    <3>1. new # old
      BY <1>0, <1>1
    <3> QED
      BY <1>3, <3>1
  <2>2. ASSUME NEW e \in S \cup {new}
        PROVE  u.mem[e].next = Null \/ (u.mem[e].next \in S \cup {new} /\ u.mem[u.mem[e].next].prev = e)
    <3>1. CASE e = new
      BY <1>1, <1>3, <3>1
    <3>2. CASE e # new /\ t.mem[e].next = Null
      BY <1>3, <3>2
    <3>3. CASE e # new /\ t.mem[e].next # Null
      <4>1. t.mem[e].next \in S /\ t.mem[t.mem[e].next].prev = e /\ e # Null
        BY <1>0, <1>4, <3>3
      <4>2. t.mem[e].next # old
        BY <1>1, <3>3, <4>1
      <4>3. u.mem[e].next = t.mem[e].next
        BY <1>3, <3>3
      <4> QED
        BY <1>3, <4>1, <4>2, <4>3
    <3> QED
      BY <3>1, <3>2, <3>3
  <2>3. \A e \in S \cup {new} : u.mem[e].f_end = u.mem[e].f_ptr + u.mem[n].key
    <3>1. \A e \in S : t.mem[e].f_end = t.mem[e].f_ptr + t.mem[n].key
      BY DEF IsList
    <3> QED
      BY <1>3, <3>1
  <2>4. ASSUME NEW R \in SUBSET (S \cup {new}), u.mem[n].data = Null \/ u.mem[n].data \in R,
               \A e \in R : u.mem[e].next = Null \/ u.mem[e].next \in R
        PROVE  R = S \cup {new}
    <3> DEFINE Q == R \ {new}
    <3>1. new \in R
      BY <1>0, <1>3, <2>4
    <3>2. Q \in SUBSET S /\ (old = Null \/ old \in Q)
      BY <1>1, <1>3, <2>4, <3>1
    <3>3. \A e \in Q : t.mem[e].next = Null \/ t.mem[e].next \in Q
      BY <1>3, <1>4, <2>4
    <3> HIDE DEF Q
    <3>4. Q = S
      BY <3>2, <3>3 DEF IsList, old
    <3> QED
      BY <3>1, <3>4 DEF Q
  <2> QED
    BY <2>1, <2>2, <2>3, <2>4 DEF IsList
<1>7. /\ Agree(t, u, DOMAIN t.mem, Fields \ {"data", "prev", "next"})
      /\ Agree(t, u, DOMAIN t.mem \ {n}, {"data"})
      /\ Agree(t, u, DOMAIN t.mem \ (S \cup {new}), {"prev", "next"})
  <2>1. Agree(t, u, DOMAIN t.mem, Fields \ {"data", "prev", "next"})
    BY <1>2 DEF Agree
  <2>2. Agree(t, u, DOMAIN t.mem \ {n}, {"data"})
    BY <1>00, <1>2 DEF Agree
  <2>3. Agree(t, u, DOMAIN t.mem \ (S \cup {new}), {"prev", "next"})
    <3>1. \A x \in DOMAIN t.mem \ (S \cup {new}) : x # old
      BY <1>1, Typed
    <3> QED
      BY <1>3, <3>1 DEF Agree
  <2> QED
    BY <2>1, <2>2, <2>3
<1> QED
  BY <1>2, <1>3, <1>6, <1>7 DEF u

-----------------------------------------------------------------------------
(* The keys. *)

(* What hangs on the left of a key is smaller. *)
Order(t, T, up) ==
  \A n \in T, m \in T : <<m, "left">> \in up[n] => t.mem[m].key = 0 \/ t.mem[n].key < t.mem[m].key

Sound(t, T, up, rank, L) == Cells(t) /\ Tree(t, T, up, rank) /\ Order(t, T, up) /\ Lists(t, T, L)

Elements(T, L) == UNION {L[n] : n \in T}

(* Only a node that has lost its key may have no list. *)
KeysHaveLists(t, S) == \A n \in S : t.mem[n].data = Null => t.mem[n].key = 0

(* The walk for a smaller key that came to n would also come for n's own. *)
LEMMA OnForItsKey ==
  ASSUME NEW t, Cells(t), NEW T, NEW up, NEW rank, Tree(t, T, up, rank), Order(t, T, up),
         NEW n \in T, NEW key \in Nat, On(t, up, n, key), key <= t.mem[n].key
  PROVE  On(t, up, n, t.mem[n].key)
<1> SUFFICES ASSUME NEW m \in DOMAIN t.mem, NEW s \in Sides, <<m, s>> \in up[n]
             PROVE  Turns(t, m, t.mem[n].key, s)
  BY DEF On
<1>1. m \in T
  BY DEF Tree
<1>2. Turns(t, m, key, s) /\ t.mem[m].key \in Nat /\ t.mem[n].key \in Nat
  BY <1>1, TreeTyped, Typed DEF On, Fields
<1>3. s = "left" => t.mem[m].key = 0 \/ t.mem[n].key < t.mem[m].key
  BY <1>1 DEF Order
<1> QED
  BY <1>2, <1>3 DEF Turns

-----------------------------------------------------------------------------
(* heap_add_chunk *)

(* A node that describes a chunk of length k and is in no tree and no list. *)
IsNew(t, T, L, new, k) ==
  /\ new \in DOMAIN t.mem /\ new \notin T
  /\ \A n \in T : new \notin L[n]
  /\ \A s \in Sides : t.mem[new][s] \in Junk
  /\ t.mem[new].key = k /\ t.mem[new].data = new
  /\ t.mem[new].next = Null /\ t.mem[new].prev = Null
  /\ t.mem[new].f_end = t.mem[new].f_ptr + k

(* The tree and the lists of u are those of t with new added, at node q. *)
Added(t, T, up, L, new, u, q) ==
  /\ u.wild = t.wild /\ DOMAIN u.mem = DOMAIN t.mem
  /\ q \in T \cup {new} /\ u.mem[q].data # Null /\ u.mem[q].key = t.mem[new].key
  /\ Agree(t, u, DOMAIN t.mem, {"key", "parent"} \cup ChunkFields)
  /\ Agree(t, u, DOMAIN t.mem \ {q}, {"data"})
  /\ \A x \in DOMAIN t.mem, s \in Sides : u.mem[x][s] \in {t.mem[x][s], new}
  /\ \E T2, up2, rank2, L2 :
       /\ Sound(u, T2, up2, rank2, L2)
       /\ q \in T2 /\ T \subseteq T2 /\ \A n \in T2 : n # q => n \in T /\ L2[n] = L[n]
       /\ \A n \in T : up2[n] = up[n]
       /\ Elements(T2, L2) = Elements(T, L) \cup {new}

(* There is a node of that length already. *)
LEMMA PrependedSound ==
  ASSUME NEW t, NEW T, NEW up, NEW rank, NEW L, Sound(t, T, up, rank, L),
         NEW new, NEW k \in Nat, IsNew(t, T, L, new, k), NEW q \in T, t.mem[q].key = k
  PROVE  Added(t, T, up, L, new, dynlist_prepend(t, q, new), q)
<1> DEFINE u == dynlist_prepend(t, q, new)
           L2 == [n \in T |-> IF n = q THEN L[q] \cup {new} ELSE L[n]]
<1>1. /\ Cells(t) /\ Tree(t, T, up, rank) /\ Order(t, T, up) /\ Lists(t, T, L)
      /\ T \subseteq DOMAIN t.mem /\ q \in DOMAIN t.mem
  BY DEF Sound, Tree
<1>2. L[q] \in SUBSET DOMAIN t.mem /\ IsList(t, q, L[q])
  BY <1>1 DEF Lists
<1>3. /\ new \in DOMAIN t.mem \ L[q] /\ t.mem[new].next = Null /\ t.mem[new].prev = Null
      /\ t.mem[new].f_end = t.mem[new].f_ptr + t.mem[q].key /\ new # q
  BY DEF IsNew
<1>4. /\ Cells(u) /\ u.wild = t.wild /\ DOMAIN u.mem = DOMAIN t.mem
      /\ u.mem[q].data = new
      /\ IsList(u, q, L[q] \cup {new})
      /\ Agree(t, u, DOMAIN t.mem, Fields \ {"data", "prev", "next"})
      /\ Agree(t, u, DOMAIN t.mem \ {q}, {"data"})
      /\ Agree(t, u, DOMAIN t.mem \ (L[q] \cup {new}), {"prev", "next"})
  BY <1>1, <1>2, <1>3, PrependAdds
<1> HIDE DEF u
<1>5. \A x \in DOMAIN t.mem : /\ u.mem[x].key = t.mem[x].key
                              /\ \A s \in Sides : u.mem[x][s] = t.mem[x][s]
  BY <1>4 DEF Agree, Fields, Sides
<1>6. Tree(u, T, up, rank)
  <2>1. \A n \in T, s \in Sides : u.mem[n][s] = t.mem[n][s]
    BY <1>1, <1>5
  <2> QED
    BY <1>1, <1>4, <2>1, TreeStays
<1>7. Order(u, T, up)
  BY <1>1, <1>5 DEF Order
<1>8. Lists(u, T, L2)
  <2>1. L2 \in [T -> SUBSET DOMAIN u.mem]
    BY <1>1, <1>2, <1>3, <1>4 DEF Lists
  <2>2. L2[q] = L[q] \cup {new} /\ \A n \in T : n # q => L2[n] = L[n]
    OBVIOUS
  <2> HIDE DEF L2
  <2>3. ASSUME NEW n \in T, n # q
        PROVE  IsList(u, n, L[n])
    <3>1. IsList(t, n, L[n]) /\ L[n] \subseteq DOMAIN t.mem \ (L[q] \cup {new}) /\ n \in DOMAIN t.mem
      BY <1>1, <2>3 DEF Lists, IsNew
    <3>2. Agree(t, u, {n}, {"data", "key"})
      BY <1>4, <2>3, <3>1 DEF Agree, Fields
    <3>3. Agree(t, u, L[n], {"next", "prev", "f_ptr", "f_end"})
      <4>1. \A x \in L[n] : u.mem[x].next = t.mem[x].next /\ u.mem[x].prev = t.mem[x].prev
        BY <1>4, <3>1 DEF Agree
      <4>2. \A x \in L[n] : u.mem[x].f_ptr = t.mem[x].f_ptr /\ u.mem[x].f_end = t.mem[x].f_end
        BY <1>4, <3>1 DEF Agree, Fields
      <4> QED
        BY <4>1, <4>2 DEF Agree
    <3> QED
      BY <3>1, <3>2, <3>3, ListStays
  <2>4. \A n \in T : IsList(u, n, L2[n])
    BY <1>4, <2>2, <2>3
  <2>5. \A n \in T, m \in T : n # m => L[n] \cap L[m] = {} /\ new \notin L[n]
    BY <1>1 DEF Lists, IsNew
  <2>6. \A n \in T, m \in T : n # m => L2[n] \cap L2[m] = {}
    BY <2>2, <2>5
  <2> QED
    BY <2>1, <2>4, <2>6 DEF Lists
<1>9. Sound(u, T, up, rank, L2)
  BY <1>4, <1>6, <1>7, <1>8 DEF Sound
<1>10. Elements(T, L2) = Elements(T, L) \cup {new}
  BY DEF Elements
<1>11. /\ Agree(t, u, DOMAIN t.mem, {"key", "parent"} \cup ChunkFields)
       /\ u.mem[q].data # Null /\ u.mem[q].key = t.mem[new].key
  BY <1>1, <1>3, <1>4, <1>5, Typed DEF Agree, Fields, ChunkFields, IsNew
<1> DEFINE P(T2, up2, rank2, M) ==
       /\ Sound(u, T2, up2, rank2, M)
       /\ q \in T2 /\ T \subseteq T2 /\ \A n \in T2 : n # q => n \in T /\ M[n] = L[n]
       /\ \A n \in T : up2[n] = up[n]
       /\ Elements(T2, M) = Elements(T, L) \cup {new}
<1>12. P(T, up, rank, L2)
  BY <1>9, <1>10
<1>13. \E T2, up2, rank2, M : P(T2, up2, rank2, M)
  BY <1>12
<1>14. \A x \in DOMAIN t.mem, s \in Sides : u.mem[x][s] \in {t.mem[x][s], new}
  BY <1>5
<1> HIDE DEF L2
<1>15. Added(t, T, up, L, new, u, q)
  BY <1>4, <1>11, <1>13, <1>14 DEF Added
<1> QED
  BY <1>15 DEF u

(* Or the node becomes a leaf. *)
LEMMA HungSound ==
  ASSUME NEW t, NEW T, NEW up, NEW rank, NEW L, Sound(t, T, up, rank, L),
         NEW new, NEW k \in Nat, IsNew(t, T, L, new, k),
         NEW p \in T, NEW side \in Sides, t.mem[p][side] = Null,
         On(t, up, p, k), Turns(t, p, k, side)
  PROVE  /\ Added(t, T, up, L, new, SetLink(t, <<p, side>>, new), new)
         /\ Deref(SetLink(t, <<p, side>>, new), <<p, side>>) = new
<1> DEFINE u == SetLink(t, <<p, side>>, new)
           T2 == T \cup {new}
           up2 == [n \in T2 |-> IF n = new THEN up[p] \cup {<<p, side>>} ELSE up[n]]
           rank2 == [n \in T2 |-> IF n = new THEN 0 ELSE rank[n] + 1]
           L2 == [n \in T2 |-> IF n = new THEN {new} ELSE L[n]]
<1>1. /\ Cells(t) /\ Tree(t, T, up, rank) /\ Order(t, T, up) /\ Lists(t, T, L)
      /\ T \subseteq DOMAIN t.mem /\ p \in DOMAIN t.mem
  BY DEF Sound, Tree
<1>2. new \in DOMAIN t.mem /\ new \notin T /\ new \in Nat /\ new # Null /\ new # p
  BY <1>1, Typed DEF IsNew
<1>3. u = SetField(t, p, side, new)
  BY <1>1, TreeTyped DEF SetLink
<1>4. side \in Fields /\ side # "parent" /\ side \notin {"key", "data", "next", "prev"} \cup ChunkFields
  BY DEF Sides, Fields, ChunkFields
<1> HIDE DEF u
<1>5. /\ Cells(u) /\ u.wild = t.wild /\ DOMAIN u.mem = DOMAIN t.mem
      /\ \A x \in DOMAIN t.mem, f \in Fields :
           u.mem[x][f] = IF x = p /\ f = side THEN new ELSE t.mem[x][f]
  BY <1>1, <1>2, <1>3, <1>4, SetFieldSets
<1>6. Agree(t, u, DOMAIN t.mem, Fields \ Sides)
  BY <1>5 DEF Agree
<1>7. \A x \in DOMAIN t.mem : u.mem[x].key = t.mem[x].key /\ u.mem[x].data = t.mem[x].data
  BY <1>6 DEF Agree, Fields, Sides
<1>8. \A x \in DOMAIN t.mem, s \in Sides : u.mem[x][s] = IF x = p /\ s = side THEN new ELSE t.mem[x][s]
  BY <1>5 DEF Sides, Fields
<1>9. Tree(u, T2, up2, rank2)
  <2>1. \A s \in Sides : u.mem[new][s] \in Junk
    BY <1>2, <1>8 DEF IsNew
  <2>2. \A n \in T, s \in Sides : u.mem[n][s] = IF n = p /\ s = side THEN new ELSE t.mem[n][s]
    BY <1>1, <1>8
  <2> QED
    BY <1>1, <1>2, <1>5, <2>1, <2>2, GrownTree
<1>10. (\A n \in T : up2[n] = up[n]) /\ up2[new] = up[p] \cup {<<p, side>>}
  BY <1>2
<1>11. up \in [T -> SUBSET (T \X Sides)]
  BY <1>1 DEF Tree
<1> HIDE DEF up2, rank2
<1>12. Order(u, T2, up2)
  <2> SUFFICES ASSUME NEW n \in T2, NEW m \in T2, <<m, "left">> \in up2[n]
               PROVE  u.mem[m].key = 0 \/ u.mem[n].key < u.mem[m].key
    BY DEF Order
  <2>1. "left" \in Sides
    BY DEF Sides
  <2>2. CASE n # new
    <3>1. n \in T /\ m \in T /\ <<m, "left">> \in up[n]
      BY <1>10, <1>11, <2>2
    <3>2. t.mem[m].key = 0 \/ t.mem[n].key < t.mem[m].key
      BY <1>1, <3>1 DEF Order
    <3> QED
      BY <1>1, <1>7, <3>1, <3>2
  <2>3. CASE n = new
    <3>1. m \in T /\ (<<m, "left">> = <<p, side>> \/ <<m, "left">> \in up[p])
      BY <1>10, <1>11, <2>3
    <3>2. m \in DOMAIN t.mem
      BY <1>1, <3>1
    <3>3. Turns(t, m, k, "left")
      BY <2>1, <3>1, <3>2 DEF On
    <3>4. k < t.mem[m].key
      BY <3>3 DEF Turns
    <3> QED
      BY <1>2, <1>7, <2>3, <3>2, <3>4 DEF IsNew
  <2> QED
    BY <2>2, <2>3
<1>13. Lists(u, T2, L2)
  <2>1. L2[new] = {new} /\ \A n \in T : L2[n] = L[n]
    BY <1>2
  <2>2. L2 \in [T2 -> SUBSET DOMAIN u.mem]
    BY <1>1, <1>2, <1>5 DEF Lists
  <2> HIDE DEF L2
  <2>3. ASSUME NEW n \in T
        PROVE  IsList(u, n, L[n])
    <3>1. IsList(t, n, L[n]) /\ L[n] \subseteq DOMAIN t.mem /\ n \in DOMAIN t.mem
      BY <1>1 DEF Lists
    <3>2. Agree(t, u, {n}, {"data", "key"}) /\ Agree(t, u, L[n], {"next", "prev", "f_ptr", "f_end"})
      BY <1>6, <3>1 DEF Agree, Fields, Sides
    <3> QED
      BY <3>1, <3>2, ListStays
  <2>4. /\ u.mem[new].key = k /\ u.mem[new].data = new /\ u.mem[new].next = Null
        /\ u.mem[new].prev = Null /\ u.mem[new].f_end = u.mem[new].f_ptr + k
    BY <1>2, <1>6 DEF Agree, Fields, Sides, IsNew
  <2>5. IsList(u, new, {new})
    BY <1>2, <2>4 DEF IsList
  <2>6. \A n \in T2 : IsList(u, n, L2[n])
    BY <2>1, <2>3, <2>5
  <2>7. \A n \in T, m \in T : n # m => L[n] \cap L[m] = {}
    BY <1>1 DEF Lists
  <2>8. \A n \in T : new \notin L[n]
    BY DEF IsNew
  <2>9. \A n \in T2, m \in T2 : n # m => L2[n] \cap L2[m] = {}
    BY <2>1, <2>7, <2>8
  <2> QED
    BY <2>2, <2>6, <2>9 DEF Lists
<1>14. Sound(u, T2, up2, rank2, L2)
  BY <1>5, <1>9, <1>12, <1>13 DEF Sound
<1>15. L2[new] = {new} /\ \A n \in T : L2[n] = L[n]
  BY <1>2
<1> HIDE DEF L2
<1>16. Elements(T2, L2) = Elements(T, L) \cup {new}
  BY <1>15 DEF Elements
<1>17. /\ Agree(t, u, DOMAIN t.mem, {"key", "parent"} \cup ChunkFields)
       /\ Agree(t, u, DOMAIN t.mem \ {new}, {"data"})
  BY <1>6 DEF Agree, Fields, Sides, ChunkFields
<1>18. u.mem[new].data # Null /\ u.mem[new].key = t.mem[new].key
  BY <1>2, <1>7 DEF IsNew
<1> DEFINE P(U, up3, rank3, M) ==
       /\ Sound(u, U, up3, rank3, M)
       /\ new \in U /\ T \subseteq U /\ \A n \in U : n # new => n \in T /\ M[n] = L[n]
       /\ \A n \in T : up3[n] = up[n]
       /\ Elements(U, M) = Elements(T, L) \cup {new}
<1>19. P(T2, up2, rank2, L2)
  BY <1>10, <1>14, <1>15, <1>16
<1> HIDE DEF T2
<1>20. \E U, up3, rank3, M : P(U, up3, rank3, M)
  BY <1>19
<1>21. \A x \in DOMAIN t.mem, s \in Sides : u.mem[x][s] \in {t.mem[x][s], new}
  BY <1>8
<1>22. Added(t, T, up, L, new, u, new)
  BY <1>5, <1>17, <1>18, <1>20, <1>21 DEF Added
<1>23. Deref(u, <<p, side>>) = new
  BY <1>1, <1>8, TreeTyped DEF Deref
<1> QED
  BY <1>22, <1>23 DEF u

(***************************************************************************)
(* Either the walk leaves the tree through what a caller left in a link,   *)
(* or the chunk is added, at the node that the same link then leads to.    *)
(***************************************************************************)
LEMMA AddChunkAdds ==
  ASSUME NEW t, NEW T, NEW up, NEW rank, NEW L, Sound(t, T, up, rank, L),
         NEW new, NEW k \in Nat, IsNew(t, T, L, new, k)
  PROVE  LET u == heap_add_chunk(t, k, new)
             link == bst_insert(t, k)
         IN \/ /\ u.wild
               /\ \E x \in T, s \in Sides : t.mem[x][s] \in Junk \ {Null}
            \/ /\ Added(t, T, up, L, new, u, Deref(u, link))
               /\ link = RootLink \/ link \in T \X Sides
<1> DEFINE link == Walk(t, k).link
           n == Deref(t, link)
           u == heap_add_chunk(t, k, new)
<1>1. /\ Cells(t) /\ Tree(t, T, up, rank)
      /\ T \subseteq DOMAIN t.mem
  BY DEF Sound, Tree
<1>2. /\ Walk(t, k) \in WalkStops(t, k) /\ OnTheWay(t, T, up, k, Walk(t, k))
      /\ n \in T => t.mem[n].key = k
  BY <1>1, WalkEnds
<1>3. /\ n \in T \cup Junk
      /\ \/ link = RootLink
         \/ link \in T \X Sides /\ On(t, up, link[1], k) /\ Turns(t, link[1], k, link[2])
  BY <1>2 DEF OnTheWay
<1> HIDE DEF link
<1>4. n \in T => n \in DOMAIN t.mem /\ n # Null
  BY <1>1, TreeTyped
<1>5. n \in Junk => n \notin DOMAIN t.mem /\ link \in T \X Sides
  <2>1. link = RootLink => n = Root
    BY <1>1, TreeTyped
  <2>2. Root \in T
    BY <1>1 DEF Tree
  <2> QED
    BY <1>1, <1>3, <2>1, <2>2, TreeTyped
<1>6. Strays(t, k) <=> n # Null /\ n \notin DOMAIN t.mem
  BY DEF Strays, IsNode, link
<1>7. link = bst_insert(t, k)
  BY DEF bst_insert, link
<1>8. u = IF Strays(t, k) THEN Undefined(t) ELSE IF n = Null THEN SetLink(t, link, new)
          ELSE dynlist_prepend(t, n, new)
  BY <1>7 DEF heap_add_chunk
<1>9. CASE n \in T
  <2>1. u = dynlist_prepend(t, n, new)
    BY <1>4, <1>6, <1>8, <1>9
  <2>2. Added(t, T, up, L, new, u, n)
    BY <1>2, <1>9, <2>1, PrependedSound
  <2>3. Deref(u, link) = n
    <3> HIDE DEF u
    <3>1. CASE link = RootLink
      <4>1. u.root = Root
        BY <2>2 DEF Added, Sound, Cells
      <4> QED
        BY <1>1, <3>1, <4>1, TreeTyped DEF Deref
    <3>2. CASE link # RootLink
      <4>1. link \in T \X Sides
        BY <1>3, <3>2
      <4>2. u.mem[link[1]][link[2]] \in {t.mem[link[1]][link[2]], new}
        BY <1>1, <2>2, <4>1 DEF Added
      <4>3. PICK T2, up2, rank2, L2 : Sound(u, T2, up2, rank2, L2)
        BY <2>2 DEF Added
      <4> QED
        <5>1. dynlist_prepend(t, n, new).mem[link[1]][link[2]] = t.mem[link[1]][link[2]]
          <6>1. L[n] \in SUBSET DOMAIN t.mem /\ IsList(t, n, L[n])
            BY <1>9 DEF Sound, Lists
          <6>2. /\ new \in DOMAIN t.mem \ L[n] /\ t.mem[new].next = Null /\ t.mem[new].prev = Null
                /\ t.mem[new].f_end = t.mem[new].f_ptr + t.mem[n].key
            BY <1>2, <1>9 DEF IsNew
          <6>3. Agree(t, dynlist_prepend(t, n, new), DOMAIN t.mem, Fields \ {"data", "prev", "next"})
            BY <1>1, <1>4, <1>9, <6>1, <6>2, PrependAdds
          <6>4. link[1] \in DOMAIN t.mem /\ link[2] \in Fields \ {"data", "prev", "next"}
            BY <1>1, <4>1 DEF Sides, Fields
          <6> QED
            BY <6>3, <6>4 DEF Agree
        <5> QED
          BY <2>1, <3>2, <5>1 DEF Deref
    <3> QED
      BY <3>1, <3>2
  <2> QED
    BY <1>3, <1>7, <2>2, <2>3
<1>10. CASE n = Null
  <2>1. n \in Junk /\ n \notin DOMAIN t.mem
    BY <1>1, <1>10, AddressesApart, Typed
  <2>2. link \in T \X Sides /\ n \notin T
    BY <1>1, <1>5, <2>1
  <2>3. PICK p \in T, side \in Sides : link = <<p, side>>
    BY <2>2
  <2>4. link # RootLink /\ t.mem[p][side] = Null
    BY <1>1, <1>10, <2>3, TreeTyped
  <2>5. On(t, up, p, k) /\ Turns(t, p, k, side)
    BY <1>3, <2>3, <2>4
  <2>6. u = SetLink(t, <<p, side>>, new)
    BY <1>6, <1>8, <1>10, <2>3
  <2>7. Added(t, T, up, L, new, u, new) /\ Deref(u, link) = new
    BY <2>3, <2>4, <2>5, <2>6, HungSound
  <2> QED
    BY <1>7, <2>2, <2>7
<1>11. CASE n \in Junk \ {Null}
  <2>1. u = Undefined(t)
    BY <1>5, <1>6, <1>8, <1>11
  <2>2. u.wild
    BY <1>1, <2>1 DEF Undefined, Cells
  <2>3. link \in T \X Sides
    BY <1>5, <1>11
  <2>4. n = t.mem[link[1]][link[2]]
    BY <1>1, <2>3, TreeTyped
  <2> QED
    BY <1>11, <2>2, <2>3, <2>4
<1> QED
  BY <1>3, <1>9, <1>10, <1>11

-----------------------------------------------------------------------------
(* dynlist_del and what follows when the list has become empty. *)

Shortened(T, L, n, d) == [m \in T |-> IF m = n THEN L[n] \ {d} ELSE L[m]]

(* dynlist_del shortens the list of n and touches nothing else. *)
LEMMA DelSound ==
  ASSUME NEW t, NEW T, NEW up, NEW rank, NEW L, Sound(t, T, up, rank, L),
         NEW n \in T, t.mem[n].data # Null
  PROVE  LET u == dynlist_del(t, n)
             d == t.mem[n].data
             L2 == Shortened(T, L, n, d)
         IN /\ Sound(u, T, up, rank, L2)
            /\ d \in L[n] /\ \A e : e \in Elements(T, L2) <=> e \in Elements(T, L) /\ e # d
            /\ u.wild = t.wild /\ DOMAIN u.mem = DOMAIN t.mem
            /\ u.mem[n].data = t.mem[d].next
            /\ Agree(t, u, DOMAIN t.mem, Fields \ {"data", "prev"})
            /\ Agree(t, u, DOMAIN t.mem \ {n}, {"data"})
<1> DEFINE u == dynlist_del(t, n)
           d == t.mem[n].data
           L2 == Shortened(T, L, n, d)
<1>1. /\ Cells(t) /\ Tree(t, T, up, rank) /\ Order(t, T, up) /\ Lists(t, T, L)
      /\ T \subseteq DOMAIN t.mem /\ n \in DOMAIN t.mem
  BY DEF Sound, Tree
<1>2. L[n] \in SUBSET DOMAIN t.mem /\ IsList(t, n, L[n])
  BY <1>1 DEF Lists
<1>3. /\ Cells(u) /\ u.wild = t.wild /\ DOMAIN u.mem = DOMAIN t.mem
      /\ u.mem[n].data = t.mem[d].next
      /\ IsList(u, n, L[n] \ {d})
      /\ Agree(t, u, DOMAIN t.mem, Fields \ {"data", "prev"})
      /\ Agree(t, u, DOMAIN t.mem \ {n}, {"data"})
      /\ Agree(t, u, DOMAIN t.mem \ L[n], {"prev"})
  BY <1>1, <1>2, DelTakesFirst
<1>4. d \in L[n]
  BY <1>2 DEF IsList
<1> HIDE DEF u, d
<1>5. \A x \in DOMAIN t.mem : /\ u.mem[x].key = t.mem[x].key
                              /\ \A s \in Sides : u.mem[x][s] = t.mem[x][s]
  BY <1>3 DEF Agree, Fields, Sides
<1>6. Tree(u, T, up, rank)
  <2>1. \A m \in T, s \in Sides : u.mem[m][s] = t.mem[m][s]
    BY <1>1, <1>5
  <2> QED
    BY <1>1, <1>3, <2>1, TreeStays
<1>7. Order(u, T, up)
  BY <1>1, <1>5 DEF Order
<1>8. L2[n] = L[n] \ {d} /\ \A m \in T : m # n => L2[m] = L[m]
  BY DEF Shortened
<1>9. L2 \in [T -> SUBSET DOMAIN u.mem]
  BY <1>1, <1>2, <1>3 DEF Lists, Shortened
<1> HIDE DEF L2
<1>10. \A m \in T, k \in T : m # k => L[m] \cap L[k] = {}
  BY <1>1 DEF Lists
<1>11. Lists(u, T, L2)
  <2>3. ASSUME NEW m \in T, m # n
        PROVE  IsList(u, m, L[m])
    <3>1. IsList(t, m, L[m]) /\ L[m] \subseteq DOMAIN t.mem \ L[n] /\ m \in DOMAIN t.mem
      BY <1>1, <1>10, <2>3 DEF Lists
    <3>2. Agree(t, u, {m}, {"data", "key"})
      BY <1>3, <1>5, <2>3, <3>1 DEF Agree
    <3>3. Agree(t, u, L[m], {"next", "prev", "f_ptr", "f_end"})
      <4>1. \A x \in L[m] : u.mem[x].prev = t.mem[x].prev
        BY <1>3, <3>1 DEF Agree
      <4>2. \A x \in L[m] : u.mem[x].f_ptr = t.mem[x].f_ptr /\ u.mem[x].f_end = t.mem[x].f_end
                            /\ u.mem[x].next = t.mem[x].next
        BY <1>3, <3>1 DEF Agree, Fields
      <4> QED
        BY <4>1, <4>2 DEF Agree
    <3> QED
      BY <3>1, <3>2, <3>3, ListStays
  <2>4. \A m \in T : IsList(u, m, L2[m])
    BY <1>3, <1>8, <2>3
  <2>6. \A m \in T, k \in T : m # k => L2[m] \cap L2[k] = {}
    BY <1>8, <1>10
  <2> QED
    BY <1>9, <2>4, <2>6 DEF Lists
<1>12. Sound(u, T, up, rank, L2)
  BY <1>3, <1>6, <1>7, <1>11 DEF Sound
<1>13. \A e : e \in Elements(T, L2) <=> e \in Elements(T, L) /\ e # d
  <2>1. \A m \in T : m # n => d \notin L[m]
    BY <1>4, <1>10
  <2>2. \A e : e \in Elements(T, L2) <=> \E m \in T : e \in L2[m]
    BY DEF Elements
  <2>3. \A e : e \in Elements(T, L) <=> \E m \in T : e \in L[m]
    BY DEF Elements
  <2>4. \A m \in T : L2[m] = L[m] \ {d}
    BY <1>8, <2>1
  <2> QED
    BY <2>2, <2>3, <2>4
<1> QED
  BY <1>3, <1>4, <1>12, <1>13 DEF u, d, L2

(* What is left of the tree when a node has gone. *)
Dropped(t, T, L, u) ==
  /\ u.wild = t.wild /\ DOMAIN u.mem = DOMAIN t.mem
  /\ Agree(t, u, DOMAIN t.mem, ChunkFields)
  /\ \E T2, up2, rank2, L2 :
       /\ Sound(u, T2, up2, rank2, L2) /\ KeysHaveLists(u, T2)
       /\ T2 \subseteq T /\ Elements(T2, L2) \subseteq Elements(T, L)

(***************************************************************************)
(* Node x is unlinked, its link leads to c now, and node old loses its     *)
(* key.                                                                    *)
(***************************************************************************)
Vacates(t, T, u, old, p, side, x, c) ==
  /\ p \in T /\ side \in Sides /\ x \in T /\ t.mem[p][side] = x
  /\ \A s \in Sides : t.mem[x][s] \in T => t.mem[x][s] = c
  /\ c \in Junk \/ \E s \in Sides : c = t.mem[x][s] /\ c \in T
  /\ \A n \in DOMAIN t.mem, f \in Fields :
       u.mem[n][f] = IF n = p /\ f = side THEN c
                     ELSE IF n = old /\ f = "key" THEN 0 ELSE t.mem[n][f]

(* Node x is old, or the node whose key old would have taken over. *)
LEMMA UnlinkedSound ==
  ASSUME NEW t, NEW T, NEW up, NEW rank, NEW L, Sound(t, T, up, rank, L),
         NEW old \in T, t.mem[old].data = Null, KeysHaveLists(t, T \ {old}),
         NEW u, Cells(u), DOMAIN u.mem = DOMAIN t.mem, u.wild = t.wild,
         NEW p, NEW side, NEW x, NEW c, Vacates(t, T, u, old, p, side, x, c)
  PROVE  Dropped(t, T, L, u)
<1> DEFINE T2 == T \ {x}
           up2 == UpWithout(T, up, x)
           rank2 == RankWithout(T, rank, x)
           L2 == [n \in T2 |-> L[n]]
<1>0. /\ p \in T /\ side \in Sides /\ x \in T /\ t.mem[p][side] = x
      /\ \A s \in Sides : t.mem[x][s] \in T => t.mem[x][s] = c
      /\ c \in Junk \/ \E s \in Sides : c = t.mem[x][s] /\ c \in T
      /\ \A n \in DOMAIN t.mem, f \in Fields :
           u.mem[n][f] = IF n = p /\ f = side THEN c
                         ELSE IF n = old /\ f = "key" THEN 0 ELSE t.mem[n][f]
  BY DEF Vacates
<1> USE <1>0
<1>1. /\ Cells(t) /\ Tree(t, T, up, rank) /\ Order(t, T, up) /\ Lists(t, T, L)
      /\ T \subseteq DOMAIN t.mem
  BY DEF Sound, Tree
<1>2. \A n \in T2, s \in Sides : u.mem[n][s] = IF n = p /\ s = side THEN c ELSE t.mem[n][s]
  BY <1>1 DEF Sides, Fields
<1>3. Tree(u, T2, up2, rank2)
  <2>1. Unlinks(t, T, u, p, side, x, c)
    BY <1>2 DEF Unlinks
  <2> QED
    BY <1>1, <2>1, UnlinkedTree
<1>4. \A n \in DOMAIN t.mem : /\ u.mem[n].key = IF n = old THEN 0 ELSE t.mem[n].key
                              /\ u.mem[n].data = t.mem[n].data
                              /\ t.mem[n].key \in Nat
  BY <1>1, Typed DEF Sides, Fields
<1>5. Agree(t, u, DOMAIN t.mem, {"next", "prev"} \cup ChunkFields)
  BY DEF Agree, ChunkFields, Fields, Sides
<1>6. \A n \in T2 : up2[n] \subseteq up[n] /\ L2[n] = L[n]
  BY DEF UpWithout
<1>7. Order(u, T2, up2)
  <2> SUFFICES ASSUME NEW n \in T2, NEW m \in T2, <<m, "left">> \in up2[n]
               PROVE  u.mem[m].key = 0 \/ u.mem[n].key < u.mem[m].key
    BY DEF Order
  <2>1. <<m, "left">> \in up[n]
    BY <1>6
  <2>2. t.mem[m].key = 0 \/ t.mem[n].key < t.mem[m].key
    BY <1>1, <2>1 DEF Order
  <2>3. n \in DOMAIN t.mem /\ m \in DOMAIN t.mem
    BY <1>1
  <2> QED
    BY <1>4, <2>2, <2>3
<1>8. Lists(u, T2, L2)
  <2>1. ASSUME NEW n \in T2
        PROVE  IsList(u, n, L[n])
    <3>1. IsList(t, n, L[n]) /\ L[n] \subseteq DOMAIN t.mem /\ n \in DOMAIN t.mem
      BY <1>1 DEF Lists
    <3>2. Agree(t, u, L[n], {"next", "prev", "f_ptr", "f_end"})
      BY <1>5, <3>1 DEF Agree, ChunkFields
    <3>3. CASE n # old
      <4>1. Agree(t, u, {n}, {"data", "key"})
        BY <1>4, <3>1, <3>3 DEF Agree
      <4> QED
        BY <3>1, <3>2, <4>1, ListStays
    <3>4. CASE n = old
      <4>1. L[n] = {}
        <5>1. \A R \in SUBSET L[n] : (\A d \in R : t.mem[d].next = Null \/ t.mem[d].next \in R) => R = L[n]
          BY <3>1, <3>4 DEF IsList
        <5>2. {} \in SUBSET L[n]
          OBVIOUS
        <5> QED
          BY <5>1, <5>2
      <4>2. u.mem[n].data = Null
        BY <1>1, <1>4, <3>4
      <4> QED
        BY <4>1, <4>2 DEF IsList
    <3> QED
      BY <3>3, <3>4
  <2>2. L2 \in [T2 -> SUBSET DOMAIN u.mem]
    BY <1>1 DEF Lists
  <2>3. \A n \in T2, m \in T2 : n # m => L2[n] \cap L2[m] = {}
    BY <1>1 DEF Lists
  <2> QED
    BY <1>6, <2>1, <2>2, <2>3 DEF Lists
<1>9. Sound(u, T2, up2, rank2, L2)
  BY <1>3, <1>7, <1>8 DEF Sound
<1>10. KeysHaveLists(u, T2)
  BY <1>1, <1>4 DEF KeysHaveLists
<1>11. T2 \subseteq T /\ Elements(T2, L2) \subseteq Elements(T, L)
  BY DEF Elements
<1>12. Agree(t, u, DOMAIN t.mem, ChunkFields)
  BY <1>5 DEF Agree
<1> HIDE DEF T2, up2, rank2, L2
<1> QED
  BY <1>9, <1>10, <1>11, <1>12 DEF Dropped

(* The root has become a copy of node n. *)
LEMMA CopiedSound ==
  ASSUME NEW t, NEW T, NEW up, NEW rank, NEW L, Sound(t, T, up, rank, L),
         KeysHaveLists(t, T \ {Root}), NEW n \in T \ {Root}
  PROVE  Dropped(t, T, L, CopyNode(t, Root, n))
<1> DEFINE u == CopyNode(t, Root, n)
           D == Under(T, up, n)
           T2 == {Root} \cup D
           up2 == [x \in T2 |->
                    IF x = Root THEN {}
                    ELSE {l \in up[x] : l[1] \in D} \cup {l \in {Root} \X Sides : <<n, l[2]>> \in up[x]}]
           rank2 == [x \in T2 |-> IF x = Root THEN rank[n] ELSE rank[x]]
           L2 == [x \in T2 |-> IF x = Root THEN L[n] ELSE L[x]]
<1>1. /\ Cells(t) /\ Tree(t, T, up, rank) /\ Order(t, T, up) /\ Lists(t, T, L)
      /\ T \subseteq DOMAIN t.mem /\ n \in DOMAIN t.mem /\ Root \in T /\ up[Root] = {}
  BY DEF Sound, Tree
<1>2. /\ Cells(u) /\ u.wild = t.wild
      /\ DOMAIN u.mem = DOMAIN t.mem
      /\ \A x \in DOMAIN t.mem, f \in Fields :
           u.mem[x][f] = IF x = Root /\ f \in {"parent", "left", "right", "key", "data"}
                         THEN t.mem[n][f] ELSE t.mem[x][f]
  BY <1>1, CopyNodeCopies
<1> HIDE DEF u
<1>3. \A x \in T, s \in Sides : u.mem[x][s] = IF x = Root THEN t.mem[n][s] ELSE t.mem[x][s]
  BY <1>1, <1>2 DEF Sides, Fields
<1>4. Tree(u, T2, up2, rank2)
  BY <1>1, <1>2, <1>3, CopiedTree
<1>5. \A x \in T : /\ u.mem[x].key = IF x = Root THEN t.mem[n].key ELSE t.mem[x].key
                   /\ u.mem[x].data = IF x = Root THEN t.mem[n].data ELSE t.mem[x].data
  BY <1>1, <1>2 DEF Fields
<1>6. Agree(t, u, DOMAIN t.mem, {"next", "prev"} \cup ChunkFields)
  BY <1>2 DEF Agree, ChunkFields, Fields
<1>7. /\ \A x \in D : x \in T /\ x # Root
      /\ n \notin D
  BY <1>1, TreeTyped DEF Under
<1>8. up2[Root] = {} /\ \A x \in D : \A m, s : <<m, s>> \in up2[x] =>
                          (m # Root /\ <<m, s>> \in up[x]) \/ (m = Root /\ <<n, s>> \in up[x])
  BY <1>7
<1>9. L2[Root] = L[n] /\ \A x \in D : L2[x] = L[x]
  BY <1>7
<1> HIDE DEF up2, rank2, L2, D
<1>10. Order(u, T2, up2)
  <2> SUFFICES ASSUME NEW x \in T2, NEW m \in T2, <<m, "left">> \in up2[x]
               PROVE  u.mem[m].key = 0 \/ u.mem[x].key < u.mem[m].key
    BY DEF Order
  <2>1. x \in D /\ x \in T /\ x # Root
    BY <1>7, <1>8
  <2>2. CASE m # Root
    <3>1. <<m, "left">> \in up[x] /\ m \in T
      BY <1>7, <1>8, <2>1, <2>2
    <3>2. t.mem[m].key = 0 \/ t.mem[x].key < t.mem[m].key
      BY <1>1, <2>1, <3>1 DEF Order
    <3> QED
      BY <1>5, <2>1, <2>2, <3>1, <3>2
  <2>3. CASE m = Root
    <3>1. <<n, "left">> \in up[x]
      BY <1>8, <2>1, <2>3
    <3>2. t.mem[n].key = 0 \/ t.mem[x].key < t.mem[n].key
      BY <1>1, <2>1, <3>1 DEF Order
    <3> QED
      BY <1>1, <1>5, <2>1, <2>3, <3>2
  <2> QED
    BY <2>2, <2>3
<1>11. Lists(u, T2, L2)
  <2>1. ASSUME NEW x \in D
        PROVE  IsList(u, x, L[x])
    <3>1. IsList(t, x, L[x]) /\ L[x] \subseteq DOMAIN t.mem /\ x \in DOMAIN t.mem /\ x \in T /\ x # Root
      BY <1>1, <1>7 DEF Lists
    <3>2. Agree(t, u, L[x], {"next", "prev", "f_ptr", "f_end"})
      BY <1>6, <3>1 DEF Agree, ChunkFields
    <3>3. Agree(t, u, {x}, {"data", "key"})
      BY <1>5, <3>1 DEF Agree
    <3> QED
      BY <3>1, <3>2, <3>3, ListStays
  <2>2. IsList(u, Root, L[n])
    <3>1. IsList(t, n, L[n]) /\ L[n] \subseteq DOMAIN t.mem
      BY <1>1 DEF Lists
    <3>2. \A d \in L[n] : /\ u.mem[d].next = t.mem[d].next /\ u.mem[d].prev = t.mem[d].prev
                          /\ u.mem[d].f_ptr = t.mem[d].f_ptr /\ u.mem[d].f_end = t.mem[d].f_end
      BY <1>6, <3>1 DEF Agree, ChunkFields
    <3>3. u.mem[Root].data = t.mem[n].data /\ u.mem[Root].key = t.mem[n].key
      BY <1>1, <1>5
    <3>4. u.mem[Root].data = Null \/ (u.mem[Root].data \in L[n] /\ u.mem[u.mem[Root].data].prev = Null)
      BY <3>1, <3>2, <3>3 DEF IsList
    <3>5. \A d \in L[n] : u.mem[d].next = Null \/ (u.mem[d].next \in L[n] /\ u.mem[u.mem[d].next].prev = d)
      BY <3>1, <3>2 DEF IsList
    <3>6. \A d \in L[n] : u.mem[d].f_end = u.mem[d].f_ptr + u.mem[Root].key
      BY <3>1, <3>2, <3>3 DEF IsList
    <3>7. ASSUME NEW R \in SUBSET L[n], u.mem[Root].data = Null \/ u.mem[Root].data \in R,
                 \A d \in R : u.mem[d].next = Null \/ u.mem[d].next \in R
          PROVE  R = L[n]
      <4>1. t.mem[n].data = Null \/ t.mem[n].data \in R
        BY <3>3, <3>7
      <4>2. \A d \in R : t.mem[d].next = Null \/ t.mem[d].next \in R
        BY <3>2, <3>7
      <4> QED
        BY <3>1, <4>1, <4>2 DEF IsList
    <3> QED
      BY <3>4, <3>5, <3>6, <3>7 DEF IsList
  <2>3. \A x \in T2 : L2[x] \in SUBSET DOMAIN u.mem
    BY <1>1, <1>2, <1>7, <1>9 DEF Lists
  <2>4. L2 \in [T2 -> SUBSET DOMAIN u.mem]
    BY <2>3 DEF L2
  <2>5. \A x \in T, m \in T : x # m => L[x] \cap L[m] = {}
    BY <1>1 DEF Lists
  <2>6. \A x \in T2, m \in T2 : x # m => L2[x] \cap L2[m] = {}
    <3> SUFFICES ASSUME NEW x \in T2, NEW m \in T2, x # m
                 PROVE  L2[x] \cap L2[m] = {}
      OBVIOUS
    <3>1. CASE x # Root /\ m # Root
      BY <1>7, <1>9, <2>5, <3>1
    <3>2. CASE x = Root
      BY <1>7, <1>9, <2>5, <3>2
    <3>3. CASE m = Root
      BY <1>7, <1>9, <2>5, <3>3
    <3> QED
      BY <3>1, <3>2, <3>3
  <2>7. \A x \in T2 : IsList(u, x, L2[x])
    BY <1>9, <2>1, <2>2
  <2> QED
    BY <2>4, <2>6, <2>7 DEF Lists
<1>12. Sound(u, T2, up2, rank2, L2)
  BY <1>2, <1>4, <1>10, <1>11 DEF Sound
<1>13. KeysHaveLists(u, T2)
  BY <1>1, <1>5, <1>7 DEF KeysHaveLists
<1>14. T2 \subseteq T /\ Elements(T2, L2) \subseteq Elements(T, L)
  BY <1>1, <1>7, <1>9 DEF Elements
<1>15. Agree(t, u, DOMAIN t.mem, ChunkFields)
  BY <1>6 DEF Agree
<1> HIDE DEF T2
<1>16. Dropped(t, T, L, u)
  BY <1>2, <1>12, <1>13, <1>14, <1>15 DEF Dropped
<1> QED
  BY <1>16 DEF u

-----------------------------------------------------------------------------
(* bst_delete_node *)

(* A caller's data stands in a link of the tree. *)
Marred(t, T) == \E x \in T, f \in {"left", "right", "parent"} : t.mem[x][f] \in Junk \ {Null}

(* bst_replace_node_in_parent changes the link, or follows a caller's data. *)
LEMMA ReplaceLinks ==
  ASSUME NEW t, NEW T, NEW up, NEW rank, Cells(t), Tree(t, T, up, rank),
         NEW p \in T, NEW side \in Sides, NEW x \in T, t.mem[p][side] = x, NEW c \in T \cup Junk
  PROVE  LET u == bst_replace_node_in_parent(t, <<p, side>>, c)
         IN \/ u = Undefined(t) /\ (t.mem[x].parent \in Junk \ {Null} \/ c \in Junk \ {Null})
            \/ /\ Cells(u) /\ DOMAIN u.mem = DOMAIN t.mem /\ u.wild = t.wild
               /\ c \in T \cup {Null}
               /\ \A n \in DOMAIN t.mem, f \in Fields :
                    u.mem[n][f] = IF n = p /\ f = side THEN c ELSE t.mem[n][f]
<1> DEFINE link == <<p, side>>
           parent == t.mem[x].parent
           t1 == SetField(t, p, side, c)
           u == bst_replace_node_in_parent(t, link, c)
<1>1. /\ Deref(t, link) = x /\ link # RootLink /\ p \in DOMAIN t.mem /\ x \in DOMAIN t.mem
      /\ parent \in Junk /\ (\A j \in Junk : j \notin DOMAIN t.mem)
      /\ c # Null => (c \in T \/ c \in Junk \ {Null})
      /\ c \in T => c \in DOMAIN t.mem /\ c # Null
  BY TreeTyped DEF Cells
<1>2. side \in Fields /\ side # "parent" /\ "parent" \in Fields
  BY DEF Sides, Fields
<1>3. c \in Nat /\ Null \in Junk
  BY TreeTyped, AddressesApart
<1>4. parent # Null => u = Undefined(t)
  BY <1>1 DEF bst_replace_node_in_parent, IsNode
<1>5. parent = Null => u = IF c = Null THEN SetLink(t, link, c) ELSE IF c \notin DOMAIN t.mem
                           THEN Undefined(t)
                           ELSE SetField(SetLink(t, link, c), c, "parent",
                                         SetLink(t, link, c).mem[Deref(SetLink(t, link, c), link)].parent)
  BY <1>1 DEF bst_replace_node_in_parent, IsNode
<1>6. SetLink(t, link, c) = t1
  BY <1>1 DEF SetLink
<1>7. /\ Cells(t1) /\ t1.wild = t.wild /\ DOMAIN t1.mem = DOMAIN t.mem
      /\ \A n \in DOMAIN t.mem, f \in Fields :
           t1.mem[n][f] = IF n = p /\ f = side THEN c ELSE t.mem[n][f]
  BY <1>1, <1>2, <1>3, SetFieldSets
<1> HIDE DEF u, t1, link
<1>8. Deref(t1, link) = c
  BY <1>1, <1>2, <1>7 DEF Deref, link
<1>9. CASE parent # Null
  BY <1>1, <1>4, <1>9 DEF u, link
<1>10. CASE parent = Null /\ c = Null
  <2>1. u = t1
    BY <1>5, <1>6, <1>10
  <2> QED
    BY <1>7, <1>10, <2>1 DEF u, link
<1>11. CASE parent = Null /\ c \in Junk \ {Null}
  <2>1. u = Undefined(t)
    BY <1>1, <1>5, <1>11
  <2> QED
    BY <1>11, <2>1 DEF u, link
<1>12. CASE parent = Null /\ c \in T
  <2>1. u = SetField(t1, c, "parent", t1.mem[c].parent)
    BY <1>1, <1>5, <1>6, <1>8, <1>12
  <2>2. t1.mem[c].parent \in Junk /\ t1.mem[c].parent \in Nat
    BY <1>1, <1>7, <1>12, AddressesApart DEF Cells
  <2>3. /\ Cells(u) /\ u.wild = t1.wild /\ DOMAIN u.mem = DOMAIN t1.mem
        /\ \A n \in DOMAIN t1.mem, f \in Fields :
             u.mem[n][f] = IF n = c /\ f = "parent" THEN t1.mem[c].parent ELSE t1.mem[n][f]
    BY <1>1, <1>2, <1>7, <1>12, <2>1, <2>2, SetFieldSets
  <2>4. \A n \in DOMAIN t.mem, f \in Fields : u.mem[n][f] = t1.mem[n][f]
    BY <1>7, <2>3
  <2>5. /\ Cells(u) /\ DOMAIN u.mem = DOMAIN t.mem /\ u.wild = t.wild
        /\ \A n \in DOMAIN t.mem, f \in Fields :
             u.mem[n][f] = IF n = p /\ f = side THEN c ELSE t.mem[n][f]
    BY <1>7, <2>3, <2>4
  <2> QED
    BY <1>12, <2>5 DEF u, link
<1> QED
  BY <1>1, <1>9, <1>10, <1>11, <1>12

(* bst_delete_node of a node that the walk for its key comes to. *)
LEMMA DeleteDrops ==
  ASSUME NEW t, NEW T, NEW up, NEW rank, NEW L, Sound(t, T, up, rank, L),
         NEW old \in T \ {Root}, t.mem[old].data = Null, KeysHaveLists(t, T \ {old}),
         On(t, up, old, t.mem[old].key)
  PROVE  LET u == SetField(bst_delete_node(t, t.mem[old].key), old, "key", 0)
         IN (u.wild /\ Marred(t, T)) \/ Dropped(t, T, L, u)
<1> DEFINE key == t.mem[old].key
           link == bst_insert(t, key)
           v == bst_delete_node(t, key)
           u == SetField(v, old, "key", 0)
<1>1. /\ Cells(t) /\ Tree(t, T, up, rank)
      /\ T \subseteq DOMAIN t.mem /\ old # Null /\ old \in DOMAIN t.mem
  BY TreeTyped DEF Sound, Tree
<1>2. Deref(t, link) = old
  BY <1>1, WalkFinds DEF bst_insert
<1>3. key \in Nat /\ 0 \in Nat /\ "key" \in Fields /\ "key" # "parent"
  BY <1>1, Typed DEF Fields
<1>4. OnTheWay(t, T, up, key, Walk(t, key))
  BY <1>1, <1>3, WalkEnds
<1>5. link \in T \X Sides
  <2>1. link # RootLink
    BY <1>1, <1>2, TreeTyped
  <2> QED
    BY <1>4, <2>1 DEF OnTheWay, bst_insert
<1>6. PICK p \in T, side \in Sides : link = <<p, side>>
  BY <1>5
<1>7. t.mem[p][side] = old
  BY <1>1, <1>2, <1>6, TreeTyped
<1>8. \A n \in T, s \in Sides : t.mem[n][s] \in T \cup Junk
  BY <1>1 DEF Tree, Ways
<1>9. ASSUME v = Undefined(t)
      PROVE  u.wild
  BY <1>1, <1>9 DEF Undefined, SetField, Cells
<1>10. v = IF t.mem[old].left = Null \/ t.mem[old].right = Null THEN UnlinkNode(t, link)
           ELSE LET s == Deref(t, bst_find_min(t, <<old, "right">>))
                IN IF ~IsNode(t, s) THEN Undefined(t)
                   ELSE UnlinkNode(SetField(t, old, "key", t.mem[s].key), bst_find_min(t, <<old, "right">>))
  BY <1>1, <1>2 DEF bst_delete_node, IsNode
<1>11. "left" \in Sides /\ "right" \in Sides
  BY DEF Sides
<1>12. Null \in Junk /\ Null \notin T
  BY <1>1, TreeTyped, AddressesApart
<1> HIDE DEF link, v, u
<1>13. CASE t.mem[old].left = Null \/ t.mem[old].right = Null
  <2> DEFINE c == IF t.mem[old].left # Null THEN t.mem[old].left ELSE t.mem[old].right
  <2>1. v = bst_replace_node_in_parent(t, <<p, side>>, c)
    BY <1>2, <1>6, <1>10, <1>13 DEF UnlinkNode
  <2>2. /\ c \in T \cup Junk
        /\ \A s \in Sides : t.mem[old][s] \in T => t.mem[old][s] = c
        /\ c \in Junk \/ \E s \in Sides : c = t.mem[old][s] /\ c \in T
        /\ \E s \in Sides : c = t.mem[old][s]
    BY <1>8, <1>11, <1>12, <1>13 DEF Sides
  <2> HIDE DEF c
  <2>3. \/ v = Undefined(t) /\ (t.mem[old].parent \in Junk \ {Null} \/ c \in Junk \ {Null})
        \/ /\ Cells(v) /\ DOMAIN v.mem = DOMAIN t.mem /\ v.wild = t.wild
           /\ \A n \in DOMAIN t.mem, f \in Fields :
                v.mem[n][f] = IF n = p /\ f = side THEN c ELSE t.mem[n][f]
    BY <1>1, <1>7, <2>1, <2>2, ReplaceLinks
  <2>4. CASE v = Undefined(t) /\ (t.mem[old].parent \in Junk \ {Null} \/ c \in Junk \ {Null})
    <3>1. Marred(t, T)
      BY <2>2, <2>4 DEF Marred, Sides
    <3> QED
      BY <1>9, <2>4, <3>1 DEF u, v
  <2>5. CASE /\ Cells(v) /\ DOMAIN v.mem = DOMAIN t.mem /\ v.wild = t.wild
             /\ \A n \in DOMAIN t.mem, f \in Fields :
                  v.mem[n][f] = IF n = p /\ f = side THEN c ELSE t.mem[n][f]
    <3>1. /\ Cells(u) /\ u.wild = v.wild /\ DOMAIN u.mem = DOMAIN v.mem
          /\ \A n \in DOMAIN v.mem, f \in Fields :
               u.mem[n][f] = IF n = old /\ f = "key" THEN 0 ELSE v.mem[n][f]
      BY <1>1, <1>3, <2>5, SetFieldSets DEF u
    <3>2. \A n \in DOMAIN t.mem, f \in Fields :
            u.mem[n][f] = IF n = p /\ f = side THEN c
                          ELSE IF n = old /\ f = "key" THEN 0 ELSE t.mem[n][f]
      BY <2>5, <3>1 DEF Sides
    <3>3. Vacates(t, T, u, old, p, side, old, c)
      BY <1>7, <2>2, <3>2 DEF Vacates
    <3>4. Dropped(t, T, L, u)
      BY <2>5, <3>1, <3>3, UnlinkedSound
    <3> QED
      BY <3>4 DEF u, v
  <2> QED
    BY <2>3, <2>4, <2>5
<1>14. CASE t.mem[old].left # Null /\ t.mem[old].right # Null
  <2> DEFINE succ == bst_find_min(t, <<old, "right">>)
             s == Deref(t, succ)
  <2>1. /\ succ \in T \X Sides
        /\ s \in T => t.mem[s].left = Null /\ rank[s] < rank[old]
        /\ s \in T \cup Junk /\ s # Null
    BY <1>1, <1>14, MinEnds
  <2> HIDE DEF succ
  <2>2. PICK q \in T, r \in Sides : succ = <<q, r>>
    BY <2>1
  <2>3. t.mem[q][r] = s
    BY <1>1, <2>2, TreeTyped
  <2>4. CASE s \notin T
    <3>1. v = Undefined(t)
      BY <1>1, <1>10, <1>14, <2>1, <2>4, TreeTyped DEF succ, IsNode
    <3>2. Marred(t, T)
      BY <2>1, <2>3, <2>4 DEF Marred, Sides
    <3> QED
      BY <1>9, <3>1, <3>2 DEF u, v
  <2>5. CASE s \in T
    <3> DEFINE t1 == SetField(t, old, "key", t.mem[s].key)
               c == t.mem[s].right
    <3>1. s # old /\ s \in DOMAIN t.mem /\ t.mem[s].key \in Nat
      BY <1>1, <1>3, <2>1, <2>5, Typed DEF Tree
    <3>2. /\ Cells(t1) /\ t1.wild = t.wild /\ DOMAIN t1.mem = DOMAIN t.mem
          /\ \A n \in DOMAIN t.mem, f \in Fields :
               t1.mem[n][f] = IF n = old /\ f = "key" THEN t.mem[s].key ELSE t.mem[n][f]
      BY <1>1, <1>3, <3>1, SetFieldSets
    <3>3. v = UnlinkNode(t1, succ)
      BY <1>10, <1>14, <3>1 DEF succ, IsNode
    <3> HIDE DEF t1, s
    <3>4. \A n \in T : /\ \A f \in Sides : t1.mem[n][f] = t.mem[n][f]
                       /\ t1.mem[n].parent = t.mem[n].parent
      BY <1>1, <3>2 DEF Sides, Fields
    <3>5. Tree(t1, T, up, rank)
      BY <1>1, <3>2, <3>4, TreeStays
    <3>6. Deref(t1, succ) = s /\ t1.mem[q][r] = s
      BY <2>2, <2>3, <3>2, <3>4, <3>5, TreeTyped
    <3>7. t1.mem[s].left = Null /\ t1.mem[s].right = c
      BY <1>11, <2>1, <2>5, <3>4
    <3>8. v = bst_replace_node_in_parent(t1, <<q, r>>, c)
      BY <2>2, <3>3, <3>6, <3>7 DEF UnlinkNode
    <3>9. /\ c \in T \cup Junk
          /\ \A f \in Sides : t.mem[s][f] \in T => t.mem[s][f] = c
          /\ c \in Junk \/ \E f \in Sides : c = t.mem[s][f] /\ c \in T
      BY <1>8, <1>11, <1>12, <2>1, <2>5 DEF Sides
    <3>10. \/ v = Undefined(t1) /\ (t1.mem[s].parent \in Junk \ {Null} \/ c \in Junk \ {Null})
           \/ /\ Cells(v) /\ DOMAIN v.mem = DOMAIN t1.mem /\ v.wild = t1.wild
              /\ \A n \in DOMAIN t1.mem, f \in Fields :
                   v.mem[n][f] = IF n = q /\ f = r THEN c ELSE t1.mem[n][f]
      BY <2>5, <3>2, <3>5, <3>6, <3>8, <3>9, ReplaceLinks
    <3>11. CASE v = Undefined(t1) /\ (t1.mem[s].parent \in Junk \ {Null} \/ c \in Junk \ {Null})
      <4>1. Marred(t, T)
        BY <2>5, <3>4, <3>11 DEF Marred
      <4>2. u.wild
        BY <3>2, <3>11 DEF u, Undefined, SetField, Cells
      <4> QED
        BY <4>1, <4>2 DEF u, v
    <3>12. CASE /\ Cells(v) /\ DOMAIN v.mem = DOMAIN t1.mem /\ v.wild = t1.wild
                /\ \A n \in DOMAIN t1.mem, f \in Fields :
                     v.mem[n][f] = IF n = q /\ f = r THEN c ELSE t1.mem[n][f]
      <4>1. /\ Cells(u) /\ u.wild = v.wild /\ DOMAIN u.mem = DOMAIN v.mem
            /\ \A n \in DOMAIN v.mem, f \in Fields :
                 u.mem[n][f] = IF n = old /\ f = "key" THEN 0 ELSE v.mem[n][f]
        BY <1>1, <1>3, <3>2, <3>12, SetFieldSets DEF u
      <4>2. \A n \in DOMAIN t.mem, f \in Fields :
              u.mem[n][f] = IF n = q /\ f = r THEN c
                            ELSE IF n = old /\ f = "key" THEN 0 ELSE t.mem[n][f]
        BY <3>2, <3>12, <4>1 DEF Sides
      <4>3. Vacates(t, T, u, old, q, r, s, c)
        BY <2>3, <2>5, <3>9, <4>2 DEF Vacates
      <4>4. Dropped(t, T, L, u)
        BY <3>2, <3>12, <4>1, <4>3, UnlinkedSound
      <4> QED
        BY <4>4 DEF u, v
    <3> QED
      BY <3>10, <3>11, <3>12
  <2> QED
    BY <2>4, <2>5
<1> QED
  BY <1>13, <1>14

(* DropNode: the node old, whose list is empty, leaves the tree. *)
LEMMA DropDrops ==
  ASSUME NEW t, NEW T, NEW up, NEW rank, NEW L, Sound(t, T, up, rank, L),
         NEW old \in T, t.mem[old].data = Null, KeysHaveLists(t, T \ {old}),
         On(t, up, old, t.mem[old].key),
         NEW f_size, NEW f_node, f_size # 0 => Deref(t, f_node) \in T \ {old}
  PROVE  LET u == DropNode(t, old, f_size, f_node)
         IN \/ u.wild /\ (Marred(t, T) \/ (old = Root /\ f_size = 0))
            \/ Dropped(t, T, L, u)
<1>1. Cells(t) /\ t.root = Root
  BY DEF Sound, Cells
<1>2. CASE old # Root
  BY <1>1, <1>2, DeleteDrops DEF DropNode
<1>3. CASE old = Root /\ f_size = 0
  BY <1>1, <1>3 DEF DropNode, Undefined, Cells
<1>4. CASE old = Root /\ f_size # 0
  BY <1>1, <1>4, CopiedSound DEF DropNode
<1> QED
  BY <1>2, <1>3, <1>4

-----------------------------------------------------------------------------
(* kmalloc: the search and what it takes. *)

(* bst_search_smallest_ge finds a node of the tree that is large enough. *)
LEMMA SearchFinds ==
  ASSUME NEW t, NEW T, NEW up, NEW rank, NEW L, Sound(t, T, up, rank, L), NEW key \in Nat
  PROVE  LET n == bst_search_smallest_ge(t, key)
         IN /\ n \in T \cup {Null}
            /\ n \in T => key <= t.mem[n].key /\ On(t, up, n, t.mem[n].key)
            /\ Strays(t, key) => Marred(t, T)
<1> DEFINE w == Walk(t, key)
           match == Deref(t, w.link)
           n == bst_search_smallest_ge(t, key)
<1>1. Cells(t) /\ Tree(t, T, up, rank) /\ Order(t, T, up) /\ T \subseteq DOMAIN t.mem
  BY DEF Sound, Tree
<1>2. /\ OnTheWay(t, T, up, key, w)
      /\ match \in T => t.mem[match].key = key
  BY <1>1, WalkEnds
<1>3. n = IF match \in DOMAIN t.mem THEN match ELSE w.larger
  BY DEF bst_search_smallest_ge, IsNode
<1> HIDE DEF w
<1>4. match \in T \cup Junk /\ (match \in DOMAIN t.mem <=> match \in T)
  BY <1>1, <1>2, TreeTyped DEF OnTheWay
<1>5. n \in T => t.mem[n].key \in Nat
  BY <1>1, Typed DEF Fields
<1> HIDE DEF n
<1>6. n \in T \cup {Null} /\ (n \in T => key <= t.mem[n].key /\ On(t, up, n, key))
  BY <1>2, <1>3, <1>4, <1>5, TreeTyped, <1>1 DEF OnTheWay
<1>7. n \in T => On(t, up, n, t.mem[n].key)
  BY <1>1, <1>6, OnForItsKey
<1>8. ASSUME Strays(t, key)
      PROVE  Marred(t, T)
  <2>1. match # Null /\ match \notin DOMAIN t.mem
    BY <1>8 DEF Strays, IsNode, w
  <2>2. match \in Junk \ {Null} /\ match \notin T
    BY <1>4, <2>1
  <2>3. w.link # RootLink
    <3>1. Root \in T
      BY <1>1 DEF Tree
    <3> QED
      BY <1>1, <2>2, <3>1, TreeTyped
  <2>4. w.link \in T \X Sides
    BY <1>2, <2>3 DEF OnTheWay
  <2>5. PICK p \in T, s \in Sides : w.link = <<p, s>>
    BY <2>4
  <2>6. t.mem[p][s] = match
    BY <1>1, <2>5, TreeTyped
  <2> QED
    BY <2>2, <2>6 DEF Marred, Sides
<1> QED
  BY <1>6, <1>7, <1>8 DEF n

(* A node written where there was none changes nothing. *)
LEMMA StoreSound ==
  ASSUME NEW t, NEW T, NEW up, NEW rank, NEW L, Sound(t, T, up, rank, L),
         NEW a \in Addresses, a \notin DOMAIN t.mem, NEW node \in NodeRecord, node.parent \in Junk
  PROVE  LET u == Store(t, a, node)
         IN /\ Sound(u, T, up, rank, L) /\ u.wild = t.wild
            /\ DOMAIN u.mem = DOMAIN t.mem \cup {a} /\ u.mem[a] = node
            /\ \A x \in DOMAIN t.mem : u.mem[x] = t.mem[x]
            /\ a \notin T /\ \A n \in T : a \notin L[n]
<1> DEFINE u == Store(t, a, node)
<1>1. /\ Cells(t) /\ Tree(t, T, up, rank) /\ Order(t, T, up) /\ Lists(t, T, L)
      /\ T \subseteq DOMAIN t.mem
  BY DEF Sound, Tree
<1>2. /\ Cells(u) /\ u.wild = t.wild
      /\ DOMAIN u.mem = DOMAIN t.mem \cup {a}
      /\ u.mem[a] = node
      /\ \A x \in DOMAIN t.mem : u.mem[x] = t.mem[x]
  BY <1>1, StoreAdds
<1> HIDE DEF u
<1>3. \A n \in T : u.mem[n] = t.mem[n]
  BY <1>1, <1>2
<1>4. Ways(u, T, up)
  <2>1. \A n \in T, s \in Sides :
          u.mem[n][s] \in Junk \/ (u.mem[n][s] \in T /\ up[u.mem[n][s]] = up[n] \cup {<<n, s>>})
    BY <1>1, <1>3 DEF Tree, Ways
  <2>2. ASSUME NEW n \in T, NEW m \in T, NEW s \in Sides, <<m, s>> \in up[n]
        PROVE  /\ u.mem[m][s] \in T
               /\ u.mem[m][s] = n \/ \E r \in Sides : <<u.mem[m][s], r>> \in up[n]
    <3>1. /\ t.mem[m][s] \in T
          /\ t.mem[m][s] = n \/ \E r \in Sides : <<t.mem[m][s], r>> \in up[n]
      BY <1>1, <2>2 DEF Tree, Ways
    <3> QED
      BY <1>3, <3>1
  <2>3. \A n \in T \ {Root} : \E s \in Sides : <<Root, s>> \in up[n]
    BY <1>1 DEF Tree, Ways
  <2> QED
    BY <2>1, <2>2, <2>3 DEF Ways
<1>5. Tree(u, T, up, rank)
  BY <1>1, <1>2, <1>4 DEF Tree
<1>6. Order(u, T, up)
  BY <1>1, <1>3 DEF Order
<1>7. Lists(u, T, L)
  <2>1. ASSUME NEW n \in T
        PROVE  IsList(u, n, L[n])
    <3>1. IsList(t, n, L[n]) /\ L[n] \subseteq DOMAIN t.mem
      BY <1>1 DEF Lists
    <3>2. Agree(t, u, {n}, {"data", "key"}) /\ Agree(t, u, L[n], {"next", "prev", "f_ptr", "f_end"})
      BY <1>2, <1>3, <3>1 DEF Agree
    <3> QED
      BY <3>1, <3>2, ListStays
  <2>2. L \in [T -> SUBSET DOMAIN u.mem]
    BY <1>1, <1>2 DEF Lists
  <2>3. \A n \in T, m \in T : n # m => L[n] \cap L[m] = {}
    BY <1>1 DEF Lists
  <2> QED
    BY <2>1, <2>2, <2>3 DEF Lists
<1>8. a \notin T /\ \A n \in T : a \notin L[n]
  BY <1>1 DEF Lists
<1> QED
  BY <1>2, <1>5, <1>6, <1>7, <1>8 DEF Sound, u

-----------------------------------------------------------------------------
(* TakeChunk: the first chunk of old's list is cut. *)

Same(t, u) == u.wild = t.wild /\ DOMAIN u.mem = DOMAIN t.mem /\ Agree(t, u, DOMAIN t.mem, ChunkFields)

(* A part of a sound tree, with no key on a node that has no list. *)
Kept(u, E) ==
  \E T, up, rank, L : /\ Sound(u, T, up, rank, L) /\ KeysHaveLists(u, T)
                      /\ Elements(T, L) \subseteq E

Without(S, d) == S \ {d}

(* The first chunk of old goes, and old with it if it was the last one. *)
LEMMA ChunkGoes ==
  ASSUME NEW t, NEW T, NEW up, NEW rank, NEW L, Sound(t, T, up, rank, L), KeysHaveLists(t, T),
         NEW old \in T, t.mem[old].data # Null, On(t, up, old, t.mem[old].key),
         NEW f_size, NEW f_node \in {RootLink} \cup (T \X Sides),
         f_size # 0 => Deref(t, f_node) \in T \ {old}
  PROVE  LET d == t.mem[old].data
             t3 == dynlist_del(t, old)
             u == IF t3.mem[old].data # Null THEN t3 ELSE DropNode(t3, old, f_size, f_node)
         IN \/ /\ u.wild
               /\ \/ t.wild \/ Marred(t, T)
                  \/ old = Root /\ f_size = 0 /\ t.mem[d].next = Null
            \/ Same(t, u) /\ Kept(u, Without(Elements(T, L), d))
<1> DEFINE d == t.mem[old].data
           t3 == dynlist_del(t, old)
           L3 == Shortened(T, L, old, d)
           u == IF t3.mem[old].data # Null THEN t3 ELSE DropNode(t3, old, f_size, f_node)
<1>0. Sound(t, T, up, rank, L) /\ old \in T /\ t.mem[old].data # Null
  OBVIOUS
<1>1. /\ Sound(t3, T, up, rank, L3)
      /\ \A e : e \in Elements(T, L3) <=> e \in Elements(T, L) /\ e # d
      /\ t3.wild = t.wild /\ DOMAIN t3.mem = DOMAIN t.mem
      /\ t3.mem[old].data = t.mem[d].next
      /\ Agree(t, t3, DOMAIN t.mem, Fields \ {"data", "prev"})
      /\ Agree(t, t3, DOMAIN t.mem \ {old}, {"data"})
  BY ONLY <1>0, DelSound
<1>2. /\ Cells(t) /\ Tree(t, T, up, rank) /\ T \subseteq DOMAIN t.mem
      /\ Cells(t3) /\ Tree(t3, T, up, rank)
  BY <1>1 DEF Sound, Tree
<1> HIDE DEF t3, L3, d
<1>3. \A x \in T : /\ t3.mem[x].key = t.mem[x].key /\ t3.mem[x].left = t.mem[x].left
                   /\ t3.mem[x].right = t.mem[x].right /\ t3.mem[x].parent = t.mem[x].parent
                   /\ x # old => t3.mem[x].data = t.mem[x].data
  BY <1>1, <1>2 DEF Agree, Fields
<1>4. KeysHaveLists(t3, T \ {old})
  BY <1>3 DEF KeysHaveLists
<1>5. Same(t, t3)
  BY <1>1 DEF Same, Agree, Fields, ChunkFields
<1>6. Marred(t3, T) => Marred(t, T)
  BY <1>3 DEF Marred
<1>7. On(t3, up, old, t3.mem[old].key)
  <2> SUFFICES ASSUME NEW m \in DOMAIN t3.mem, NEW s \in Sides, <<m, s>> \in up[old]
               PROVE  Turns(t3, m, t3.mem[old].key, s)
    BY DEF On
  <2>1. m \in T
    BY <1>2 DEF Tree
  <2>2. Turns(t, m, t.mem[old].key, s)
    BY <1>1 DEF On
  <2> QED
    BY <1>3, <2>1, <2>2 DEF Turns
<1>8. f_size # 0 => Deref(t3, f_node) \in T \ {old}
  <2>1. Deref(t3, f_node) = Deref(t, f_node)
    <3>1. CASE f_node = RootLink
      BY <1>2, <3>1, TreeTyped
    <3>2. CASE f_node \in T \X Sides
      <4>1. PICK p \in T, s \in Sides : f_node = <<p, s>>
        BY <3>2
      <4>2. t3.mem[p][s] = t.mem[p][s]
        BY <1>3 DEF Sides
      <4> QED
        BY <1>2, <4>1, <4>2, TreeTyped
    <3> QED
      BY <3>1, <3>2
  <2> QED
    BY <2>1
<1>9. CASE t3.mem[old].data # Null
  <2>1. u = t3
    BY <1>9 DEF u
  <2>2. KeysHaveLists(t3, T)
    BY <1>4, <1>9 DEF KeysHaveLists
  <2>3. Kept(t3, Without(Elements(T, L), d))
    BY <1>1, <2>2 DEF Kept, Without
  <2> QED
    BY <1>5, <2>1, <2>3 DEF t3, d
<1>10. CASE t3.mem[old].data = Null
  <2> DEFINE v == DropNode(t3, old, f_size, f_node)
  <2>1. u = v
    BY <1>10 DEF u
  <2>2. \/ v.wild /\ (Marred(t3, T) \/ (old = Root /\ f_size = 0))
        \/ Dropped(t3, T, L3, v)
    BY <1>1, <1>4, <1>7, <1>8, <1>10, DropDrops
  <2> HIDE DEF v, u
  <2>3. CASE v.wild /\ (Marred(t3, T) \/ (old = Root /\ f_size = 0))
    BY <1>1, <1>6, <1>10, <2>1, <2>3 DEF u, t3, d
  <2>4. CASE Dropped(t3, T, L3, v)
    <3>1. Same(t3, v) /\ Kept(v, Elements(T, L3))
      BY <2>4 DEF Dropped, Same, Kept
    <3>2. Same(t, v)
      BY <1>5, <3>1 DEF Same, Agree
    <3>3. Kept(v, Without(Elements(T, L), d))
      <4>1. Elements(T, L3) = Without(Elements(T, L), d)
        BY <1>1 DEF Without
      <4> QED
        BY <3>1, <4>1
    <3> QED
      BY <2>1, <3>2, <3>3 DEF u, t3, d
  <2> QED
    BY <2>2, <2>3, <2>4
<1> QED
  BY <1>9, <1>10

(* The remainder is put into the tree, if there is one. *)
LEMMA RemainderAdded ==
  ASSUME NEW t, NEW T, NEW up, NEW rank, NEW L, Sound(t, T, up, rank, L), KeysHaveLists(t, T),
         NEW old \in T, On(t, up, old, t.mem[old].key),
         NEW k \in Nat, k # t.mem[old].key, NEW new, IsNew(t, T, L, new, k),
         t.mem[new].parent = Null, \A s \in Sides : t.mem[new][s] = Null
  PROVE  LET f_node == bst_insert(t, k)
             u == IF k = 0 THEN t ELSE heap_add_chunk(t, k, new)
         IN \/ u.wild /\ (t.wild \/ Marred(t, T))
            \/ /\ Same(t, u) /\ u.mem[old].data = t.mem[old].data /\ u.mem[old].key = t.mem[old].key
               /\ k = 0 => u = t
               /\ \E T2, up2, rank2, L2 :
                    /\ Sound(u, T2, up2, rank2, L2) /\ KeysHaveLists(u, T2) /\ T \subseteq T2
                    /\ Elements(T2, L2) = Elements(T, L) \cup (IF k = 0 THEN {} ELSE {new})
                    /\ On(u, up2, old, u.mem[old].key)
                    /\ f_node \in {RootLink} \cup (T2 \X Sides)
                    /\ k # 0 => Deref(u, f_node) \in T2 \ {old}
                    /\ Marred(u, T2) => Marred(t, T)
<1> DEFINE f_node == bst_insert(t, k)
           u == IF k = 0 THEN t ELSE heap_add_chunk(t, k, new)
<1>1. Cells(t) /\ Tree(t, T, up, rank) /\ T \subseteq DOMAIN t.mem
  BY DEF Sound, Tree
<1>2. f_node \in {RootLink} \cup (T \X Sides)
  <2>1. OnTheWay(t, T, up, k, Walk(t, k))
    BY <1>1, WalkEnds
  <2> QED
    BY <2>1 DEF OnTheWay, bst_insert
<1>3. CASE k = 0
  <2>1. u = t
    BY <1>3
  <2>2. Same(t, u)
    BY <2>1 DEF Same, Agree
  <2>3. Elements(T, L) = Elements(T, L) \cup (IF k = 0 THEN {} ELSE {new})
    BY <1>3
  <2> HIDE DEF u, f_node
  <2>4. /\ Sound(u, T, up, rank, L) /\ KeysHaveLists(u, T) /\ T \subseteq T
        /\ Elements(T, L) = Elements(T, L) \cup (IF k = 0 THEN {} ELSE {new})
        /\ On(u, up, old, u.mem[old].key)
        /\ f_node \in {RootLink} \cup (T \X Sides)
        /\ k # 0 => Deref(u, f_node) \in T \ {old}
        /\ Marred(u, T) => Marred(t, T)
    BY <1>2, <1>3, <2>1, <2>3
  <2> QED
    BY <2>1, <2>2, <2>4 DEF u, f_node
<1>4. CASE k # 0
  <2> DEFINE q == Deref(u, f_node)
  <2>1. u = heap_add_chunk(t, k, new)
    BY <1>4
  <2>2. \/ u.wild /\ \E x \in T, s \in Sides : t.mem[x][s] \in Junk \ {Null}
        \/ Added(t, T, up, L, new, u, q)
    BY <2>1, AddChunkAdds
  <2> HIDE DEF u, f_node, q
  <2>3. CASE u.wild /\ \E x \in T, s \in Sides : t.mem[x][s] \in Junk \ {Null}
    BY <2>3 DEF Marred, Sides, u
  <2>4. CASE Added(t, T, up, L, new, u, q)
    <3>1. /\ u.wild = t.wild /\ DOMAIN u.mem = DOMAIN t.mem
          /\ q \in T \cup {new} /\ u.mem[q].data # Null /\ u.mem[q].key = t.mem[new].key
          /\ Agree(t, u, DOMAIN t.mem, {"key", "parent"} \cup ChunkFields)
          /\ Agree(t, u, DOMAIN t.mem \ {q}, {"data"})
          /\ \A x \in DOMAIN t.mem, s \in Sides : u.mem[x][s] \in {t.mem[x][s], new}
      BY <2>4 DEF Added
    <3>2. PICK T2, up2, rank2, L2 :
            /\ Sound(u, T2, up2, rank2, L2)
            /\ q \in T2 /\ T \subseteq T2 /\ \A n \in T2 : n # q => n \in T /\ L2[n] = L[n]
            /\ \A n \in T : up2[n] = up[n]
            /\ Elements(T2, L2) = Elements(T, L) \cup {new}
      BY <2>4 DEF Added
    <3>3. new \in DOMAIN t.mem /\ t.mem[new].key = k
      BY DEF IsNew
    <3>4. /\ \A x \in DOMAIN t.mem : u.mem[x].key = t.mem[x].key /\ u.mem[x].parent = t.mem[x].parent
          /\ \A x \in DOMAIN t.mem : x # q => u.mem[x].data = t.mem[x].data
      BY <3>1 DEF Agree
    <3>5. q # old /\ u.mem[old].data = t.mem[old].data /\ u.mem[old].key = t.mem[old].key
      BY <1>1, <3>1, <3>3, <3>4
    <3>6. Same(t, u)
      BY <3>1 DEF Same, Agree
    <3>7. KeysHaveLists(u, T2)
      BY <1>1, <3>1, <3>2, <3>4 DEF KeysHaveLists
    <3>8. On(u, up2, old, u.mem[old].key)
      <4> SUFFICES ASSUME NEW m \in DOMAIN u.mem, NEW s \in Sides, <<m, s>> \in up2[old]
                   PROVE  Turns(u, m, u.mem[old].key, s)
        BY DEF On
      <4>1. Turns(t, m, t.mem[old].key, s)
        BY <3>1, <3>2 DEF On
      <4> QED
        BY <3>1, <3>4, <3>5, <4>1 DEF Turns
    <3>9. Marred(u, T2) => Marred(t, T)
      <4> SUFFICES ASSUME NEW x \in T2, NEW f \in {"left", "right", "parent"},
                          u.mem[x][f] \in Junk \ {Null}
                   PROVE  Marred(t, T)
        BY DEF Marred
      <4>1. new \notin Junk
        BY <1>1, <3>3, Typed
      <4>2. x \in T \cup {new} /\ x \in DOMAIN t.mem
        BY <1>1, <3>1, <3>2, <3>3
      <4>3. u.mem[x][f] \in {t.mem[x][f], new}
        BY <3>1, <3>4, <4>2 DEF Sides
      <4>4. t.mem[x][f] \in Junk \ {Null}
        BY <4>1, <4>3
      <4>5. x # new
        BY <4>4 DEF Sides
      <4> QED
        BY <4>2, <4>4, <4>5 DEF Marred
    <3>10. f_node \in {RootLink} \cup (T2 \X Sides)
      BY <1>2, <3>2
    <3>11. Elements(T2, L2) = Elements(T, L) \cup (IF k = 0 THEN {} ELSE {new})
      BY <1>4, <3>2
    <3>12. k # 0 => Deref(u, f_node) \in T2 \ {old}
      BY <3>2, <3>5 DEF q
    <3>13. /\ Sound(u, T2, up2, rank2, L2) /\ KeysHaveLists(u, T2) /\ T \subseteq T2
           /\ Elements(T2, L2) = Elements(T, L) \cup (IF k = 0 THEN {} ELSE {new})
           /\ On(u, up2, old, u.mem[old].key)
           /\ f_node \in {RootLink} \cup (T2 \X Sides)
           /\ k # 0 => Deref(u, f_node) \in T2 \ {old}
           /\ Marred(u, T2) => Marred(t, T)
      BY <3>2, <3>7, <3>8, <3>9, <3>10, <3>11, <3>12
    <3> QED
      BY <1>4, <3>5, <3>6, <3>13 DEF u, f_node
  <2> QED
    BY <2>2, <2>3, <2>4
<1> QED
  BY <1>3, <1>4

(* A node that kmalloc writes at start, of a chunk of length key. *)
WrittenBy(node, start, alloc_size, key) ==
  /\ node.f_ptr = start + alloc_size /\ node.f_end = start + key
  /\ node.a_ptr = start + HDR /\ node.a_end = start + alloc_size

Cut(S, d, key, alloc_size, start) ==
  Without(S, d) \cup (IF key = alloc_size THEN {} ELSE {start})

(***************************************************************************)
(* What kmalloc does once a node has been found: the first chunk of the    *)
(* list is cut, and the rest of the tree is kept or lost as a whole, unless *)
(* a caller's data is followed or the root's only chunk fits exactly.      *)
(***************************************************************************)
LEMMA TakeChunkTakes ==
  ASSUME NEW t, NEW T, NEW up, NEW rank, NEW L, Sound(t, T, up, rank, L), KeysHaveLists(t, T),
         ~t.wild,
         NEW old \in T, t.mem[old].data # Null, On(t, up, old, t.mem[old].key),
         NEW alloc_size \in Nat, 0 < alloc_size, alloc_size <= t.mem[old].key,
         t.mem[t.mem[old].data].f_ptr \in Addresses \ DOMAIN t.mem,
         t.mem[t.mem[old].data].f_ptr + t.mem[old].key < Word
  PROVE  LET took == TakeChunk(t, old, alloc_size)
             u == took.t
             d == t.mem[old].data
             start == t.mem[d].f_ptr
             key == t.mem[old].key
             E == Cut(Elements(T, L), d, key, alloc_size, start)
         IN /\ took.start = start /\ took.f_size = key - alloc_size
            /\ \/ /\ u.wild
                  /\ \/ Marred(t, T)
                     \/ old = Root /\ key = alloc_size /\ t.mem[d].next = Null
               \/ /\ u.wild = t.wild /\ DOMAIN u.mem = DOMAIN t.mem \cup {start}
                  /\ Agree(t, u, DOMAIN t.mem, ChunkFields)
                  /\ WrittenBy(u.mem[start], start, alloc_size, key)
                  /\ Kept(u, E)
<1> DEFINE took == TakeChunk(t, old, alloc_size)
           d == t.mem[old].data
           start == t.mem[d].f_ptr
           key == t.mem[old].key
           f_size == key - alloc_size
           node == [parent |-> Null, left |-> Null, right |-> Null, key |-> f_size, data |-> start,
                    next |-> Null, prev |-> Null,
                    f_ptr |-> start + alloc_size, f_end |-> start + key,
                    a_ptr |-> start + HDR, a_end |-> start + alloc_size]
           t1 == Store(t, start, node)
           f_node == bst_insert(t1, f_size)
           t2 == IF f_size = 0 THEN t1 ELSE heap_add_chunk(t1, f_size, start)
           t3 == dynlist_del(t2, old)
           u == IF t2.wild THEN t2
                ELSE IF t3.mem[old].data # Null THEN t3
                ELSE DropNode(t3, old, f_size, f_node)
           E == Cut(Elements(T, L), d, key, alloc_size, start)
<1>1. /\ Cells(t) /\ Tree(t, T, up, rank) /\ Lists(t, T, L)
      /\ T \subseteq DOMAIN t.mem /\ old \in DOMAIN t.mem
  BY DEF Sound, Tree
<1>2. key \in Nat /\ start \in Nat /\ start # Null /\ start \notin Junk
  BY <1>1, Typed, AddressesApart DEF Fields
<1>3. HDR \in Nat /\ HDR # 0 /\ Word \in Nat /\ 0 \in Nat /\ Null = 0
  BY HeapAssumption DEF Null
<1> HIDE DEF key, start, d
<1>4. f_size \in Nat /\ (key - alloc_size) % Word = f_size /\ f_size # key
      /\ (start + alloc_size + f_size) % Word = start + key
      /\ (f_size = 0 <=> key = alloc_size)
  <2>1. alloc_size <= key /\ start + key < Word
    BY DEF key, start, d
  <2>2. f_size \in Nat /\ f_size < Word
    BY <1>2, <1>3, <2>1
  <2>3. (key - alloc_size) % Word = f_size
    BY <1>3, <2>2
  <2>4. start + alloc_size + f_size = start + key /\ start + key \in Nat
    BY <1>2, <1>3
  <2>5. (start + alloc_size + f_size) % Word = start + key
    BY <1>2, <1>3, <2>1, <2>4
  <2> QED
    BY <1>2, <2>2, <2>3, <2>5
<1>5. prepare_bst_node(t, start, alloc_size, start + alloc_size, f_size) = t1
  BY <1>4, <1>3 DEF prepare_bst_node
<1>6. took = [start |-> start, f_size |-> f_size, t |-> u]
  BY <1>4, <1>5 DEF TakeChunk, key, start, d
<1>7. node \in NodeRecord /\ node.parent \in Junk
  BY <1>2, <1>3, <1>4, AddressesApart DEF NodeRecord
<1>8. start \in Addresses /\ start \notin DOMAIN t.mem
  BY DEF start, d
<1>9. /\ node.key = f_size /\ node.data = start /\ node.next = Null /\ node.prev = Null
      /\ node.parent = Null /\ node.left = Null /\ node.right = Null
      /\ node.f_ptr = start + alloc_size /\ node.f_end = start + key
      /\ node.a_ptr = start + HDR /\ node.a_end = start + alloc_size
  OBVIOUS
<1> HIDE DEF node, f_size, took
<1>10. /\ Sound(t1, T, up, rank, L) /\ t1.wild = t.wild
       /\ DOMAIN t1.mem = DOMAIN t.mem \cup {start} /\ t1.mem[start] = node
       /\ \A x \in DOMAIN t.mem : t1.mem[x] = t.mem[x]
       /\ start \notin T /\ \A n \in T : start \notin L[n]
  BY <1>7, <1>8, StoreSound
<1> HIDE DEF t1
<1>11. IsNew(t1, T, L, start, f_size)
  <2>1. Null \in Junk
    BY AddressesApart
  <2>2. node.f_end = node.f_ptr + f_size
    BY <1>2, <1>9 DEF f_size
  <2> QED
    BY <1>9, <1>10, <2>1, <2>2 DEF IsNew, Sides
<1>12. KeysHaveLists(t1, T) /\ t1.mem[old].data = d /\ t1.mem[old].key = key
       /\ t1.mem[d].next = t.mem[d].next
  <2>1. d \in L[old] /\ L[old] \subseteq DOMAIN t.mem
    BY <1>1 DEF Lists, IsList, d
  <2> QED
    BY <1>1, <1>10, <2>1 DEF KeysHaveLists, d, key
<1>13. On(t1, up, old, t1.mem[old].key)
  <2> SUFFICES ASSUME NEW m \in DOMAIN t1.mem, NEW s \in Sides, <<m, s>> \in up[old]
               PROVE  Turns(t1, m, t1.mem[old].key, s)
    BY DEF On
  <2>1. m \in T
    BY <1>1 DEF Tree
  <2>2. Turns(t, m, t.mem[old].key, s)
    BY <1>1, <2>1 DEF On
  <2> QED
    BY <1>1, <1>10, <2>1, <2>2 DEF Turns
<1>14. Marred(t1, T) => Marred(t, T)
  BY <1>1, <1>10 DEF Marred
<1>15. t1.mem[start].parent = Null /\ \A s \in Sides : t1.mem[start][s] = Null
  BY <1>9, <1>10 DEF Sides
<1>16. \/ t2.wild /\ (t1.wild \/ Marred(t1, T))
       \/ /\ Same(t1, t2) /\ t2.mem[old].data = t1.mem[old].data /\ t2.mem[old].key = t1.mem[old].key
          /\ f_size = 0 => t2 = t1
          /\ \E T2, up2, rank2, L2 :
               /\ Sound(t2, T2, up2, rank2, L2) /\ KeysHaveLists(t2, T2) /\ T \subseteq T2
               /\ Elements(T2, L2) = Elements(T, L) \cup (IF f_size = 0 THEN {} ELSE {start})
               /\ On(t2, up2, old, t2.mem[old].key)
               /\ f_node \in {RootLink} \cup (T2 \X Sides)
               /\ f_size # 0 => Deref(t2, f_node) \in T2 \ {old}
               /\ Marred(t2, T2) => Marred(t1, T)
  BY <1>4, <1>10, <1>11, <1>12, <1>13, <1>15, RemainderAdded
<1> HIDE DEF t2, f_node
<1> DEFINE Taken ==
       \/ /\ u.wild
          /\ \/ Marred(t, T)
             \/ old = Root /\ key = alloc_size /\ t.mem[d].next = Null
       \/ /\ u.wild = t.wild /\ DOMAIN u.mem = DOMAIN t.mem \cup {start}
          /\ Agree(t, u, DOMAIN t.mem, ChunkFields)
          /\ WrittenBy(u.mem[start], start, alloc_size, key)
          /\ Kept(u, E)
<1>17. ASSUME t2.wild PROVE Taken
  <2>1. u = t2
    BY <1>17
  <2> HIDE DEF u
  <2>2. Marred(t, T)
    BY <1>10, <1>14, <1>16, <1>17 DEF Same
  <2> QED
    BY <1>17, <2>1, <2>2
<1>18. ASSUME ~t2.wild PROVE Taken
  <2>1. /\ Same(t1, t2) /\ t2.mem[old].data = d /\ t2.mem[old].key = key
        /\ f_size = 0 => t2 = t1
    BY <1>12, <1>16, <1>18
  <2>2. PICK T2, up2, rank2, L2 :
               /\ Sound(t2, T2, up2, rank2, L2) /\ KeysHaveLists(t2, T2) /\ T \subseteq T2
               /\ Elements(T2, L2) = Elements(T, L) \cup (IF f_size = 0 THEN {} ELSE {start})
               /\ On(t2, up2, old, t2.mem[old].key)
               /\ f_node \in {RootLink} \cup (T2 \X Sides)
               /\ f_size # 0 => Deref(t2, f_node) \in T2 \ {old}
               /\ Marred(t2, T2) => Marred(t1, T)
    BY <1>16, <1>18
  <2>3. u = IF t3.mem[old].data # Null THEN t3 ELSE DropNode(t3, old, f_size, f_node)
    BY <1>18
  <2> HIDE DEF u
  <2>4. old \in T2 /\ t2.mem[old].data # Null
    BY <2>1, <2>2 DEF d
  <2>5. \/ /\ u.wild
           /\ \/ t2.wild \/ Marred(t2, T2)
              \/ old = Root /\ f_size = 0 /\ t2.mem[d].next = Null
        \/ Same(t2, u) /\ Kept(u, Without(Elements(T2, L2), d))
    <3>1. /\ Sound(t2, T2, up2, rank2, L2) /\ KeysHaveLists(t2, T2)
          /\ old \in T2 /\ t2.mem[old].data # Null /\ On(t2, up2, old, t2.mem[old].key)
          /\ f_node \in {RootLink} \cup (T2 \X Sides)
          /\ f_size # 0 => Deref(t2, f_node) \in T2 \ {old}
      BY <2>2, <2>4
    <3>2. LET t4 == dynlist_del(t2, old)
              w == IF t4.mem[old].data # Null THEN t4 ELSE DropNode(t4, old, f_size, f_node)
          IN \/ /\ w.wild
                /\ \/ t2.wild \/ Marred(t2, T2)
                   \/ old = Root /\ f_size = 0 /\ t2.mem[t2.mem[old].data].next = Null
             \/ Same(t2, w) /\ Kept(w, Without(Elements(T2, L2), t2.mem[old].data))
      BY ONLY <3>1, ChunkGoes
    <3> QED
      BY <2>1, <2>3, <3>2
  <2>6. CASE /\ u.wild
             /\ \/ t2.wild \/ Marred(t2, T2)
                \/ old = Root /\ f_size = 0 /\ t2.mem[d].next = Null
    <3>1. Marred(t, T) \/ (old = Root /\ key = alloc_size /\ t.mem[d].next = Null)
      BY <1>4, <1>12, <1>14, <1>18, <2>1, <2>2, <2>6
    <3> QED
      BY <2>6, <3>1
  <2>7. CASE Same(t2, u) /\ Kept(u, Without(Elements(T2, L2), d))
    <3>1. u.wild = t.wild /\ DOMAIN u.mem = DOMAIN t.mem \cup {start}
      BY <1>10, <1>18, <2>1, <2>7 DEF Same
    <3>2. \A x \in DOMAIN t1.mem, f \in ChunkFields : u.mem[x][f] = t1.mem[x][f]
      BY <2>1, <2>7 DEF Same, Agree
    <3>3. Agree(t, u, DOMAIN t.mem, ChunkFields)
      BY <1>10, <3>2 DEF Agree
    <3>4. WrittenBy(u.mem[start], start, alloc_size, key)
      BY <1>9, <1>10, <3>2 DEF WrittenBy, ChunkFields
    <3>5. Without(Elements(T2, L2), d) \subseteq E
      BY <1>4, <2>2 DEF Cut, Without
    <3>6. Kept(u, E)
      BY <2>7, <3>5 DEF Kept
    <3> QED
      BY <3>1, <3>3, <3>4, <3>6
  <2> QED
    BY <2>5, <2>6, <2>7
<1>19. Taken
  BY <1>17, <1>18
<1> HIDE DEF u
<1>20. took.start = start /\ took.f_size = f_size /\ took.t = u
  BY <1>6
<1> QED
  BY <1>19, <1>20 DEF took, start, d, key, f_size

-----------------------------------------------------------------------------
(* The regions of the arena. *)

Span == [lo : Nat, hi : Nat]

Apart(r, s) == r.hi <= s.lo \/ s.hi <= r.lo

ChunkAt(m, d) == [lo |-> m[d].f_ptr, hi |-> m[d].f_end]

NodeAt(a) == [lo |-> a, hi |-> a + HDR]

(* The chunks of the nodes in E and the blocks in lv. *)
Chunks(m, E) ==
  /\ E \subseteq DOMAIN m
  /\ \A d \in E : /\ ChunkAt(m, d) \in Span
                  /\ Base <= m[d].f_ptr /\ m[d].f_ptr <= m[d].f_end /\ m[d].f_end <= Limit
  /\ \A d \in E, e \in E : d # e => Apart(ChunkAt(m, d), ChunkAt(m, e))
  /\ \A d \in E, a \in DOMAIN m \ {Root} : Apart(NodeAt(a), ChunkAt(m, d))

(* A block is as long as the node in front of it says. *)
Blocks(m, lv) ==
  /\ \A b \in lv : /\ b \in Span
                   /\ Base <= b.lo /\ b.lo + HDR <= b.hi /\ b.hi <= Limit
                   /\ b.lo - HDR \in DOMAIN m
                   /\ m[b.lo - HDR].a_ptr = b.lo /\ m[b.lo - HDR].a_end = b.hi
  /\ \A b \in lv, c \in lv : b # c => Apart(b, c)
  /\ \A b \in lv, a \in DOMAIN m \ {Root} : Apart(NodeAt(a), b)

Regions(m, lv, E) ==
  /\ DOMAIN m \subseteq Nat
  /\ Chunks(m, E) /\ Blocks(m, lv)
  /\ \A b \in lv, d \in E : Apart(b, ChunkAt(m, d))

(* The fields that say where the chunks and blocks are. *)
SameChunks(m, w) == \A x \in DOMAIN m, f \in ChunkFields : w[x][f] = m[x][f]

(* The constants are numbers, and the root lies below the arena. *)
LEMMA Lengths ==
  /\ HDR \in Nat /\ HDR # 0 /\ Base \in Nat /\ Limit \in Nat /\ Root \in Nat
  /\ Root + HDR <= Base /\ Limit < Word /\ Word \in Nat
BY HeapAssumption

(* Fewer blocks and fewer chunks lie apart all the more. *)
LEMMA RegionsFewer ==
  ASSUME NEW m, NEW lv, NEW E, Regions(m, lv, E), NEW E2, E2 \subseteq E, NEW lv2, lv2 \subseteq lv
  PROVE  Regions(m, lv2, E2)
<1>1. Chunks(m, E2)
  BY DEF Regions, Chunks
<1>2. Blocks(m, lv2)
  BY DEF Regions, Blocks
<1> QED
  BY <1>1, <1>2 DEF Regions

(* There is no node where a chunk that is not empty begins. *)
LEMMA ChunkStart ==
  ASSUME NEW m, NEW lv, NEW E, Regions(m, lv, E), NEW d \in E, m[d].f_ptr < m[d].f_end
  PROVE  m[d].f_ptr \in Addresses \ DOMAIN m
<1>1. /\ ChunkAt(m, d) \in Span
      /\ Base <= m[d].f_ptr /\ m[d].f_end <= Limit
      /\ \A a \in DOMAIN m \ {Root} : Apart(NodeAt(a), ChunkAt(m, d))
  BY DEF Regions, Chunks
<1>2. m[d].f_ptr \in Nat /\ m[d].f_end \in Nat
  BY <1>1 DEF Span, ChunkAt
<1>3. m[d].f_ptr \in Base .. Limit - 1 /\ m[d].f_ptr # Root
  BY <1>1, <1>2, Lengths
<1>4. m[d].f_ptr \notin DOMAIN m
  <2> SUFFICES ASSUME m[d].f_ptr \in DOMAIN m
               PROVE  FALSE
    OBVIOUS
  <2>1. Apart(NodeAt(m[d].f_ptr), ChunkAt(m, d))
    BY <1>1, <1>3
  <2> QED
    BY <1>2, <2>1, Lengths DEF Apart, NodeAt, ChunkAt
<1> QED
  BY <1>3, <1>4 DEF Addresses

(* Nor where a block begins. *)
LEMMA BlockStart ==
  ASSUME NEW m, NEW lv, NEW E, Regions(m, lv, E), NEW b \in lv
  PROVE  b.lo \in Addresses \ DOMAIN m
<1>1. /\ b \in Span
      /\ Base <= b.lo /\ b.lo + HDR <= b.hi /\ b.hi <= Limit
      /\ \A a \in DOMAIN m \ {Root} : Apart(NodeAt(a), b)
  BY DEF Regions, Blocks
<1>2. b.lo \in Nat /\ b.hi \in Nat
  BY <1>1 DEF Span
<1>3. b.lo \in Base .. Limit - 1 /\ b.lo # Root
  BY <1>1, <1>2, Lengths
<1>4. b.lo \notin DOMAIN m
  <2> SUFFICES ASSUME b.lo \in DOMAIN m
               PROVE  FALSE
    OBVIOUS
  <2>1. Apart(NodeAt(b.lo), b)
    BY <1>1, <1>3
  <2> QED
    BY <1>1, <1>2, <2>1, Lengths DEF Apart, NodeAt
<1> QED
  BY <1>3, <1>4 DEF Addresses

(* kmalloc cuts the chunk of d into a node, a block and what is left. *)
LEMMA RegionsTaken ==
  ASSUME NEW m, NEW lv, NEW E, Regions(m, lv, E), NEW d \in E,
         NEW alloc_size \in Nat, HDR + HDR <= alloc_size, alloc_size <= m[d].f_end - m[d].f_ptr,
         NEW start, start = m[d].f_ptr, NEW key, key = m[d].f_end - m[d].f_ptr,
         NEW w, DOMAIN w = DOMAIN m \cup {start}, SameChunks(m, w),
         WrittenBy(w[start], start, alloc_size, key)
  PROVE  Regions(w, lv \cup {[lo |-> start + HDR, hi |-> start + alloc_size]},
                 Cut(E, d, key, alloc_size, start))
<1> DEFINE block == [lo |-> start + HDR, hi |-> start + alloc_size]
           lv2 == lv \cup {block}
           E2 == Cut(E, d, key, alloc_size, start)
<1>1. /\ Chunks(m, E) /\ Blocks(m, lv) /\ DOMAIN m \subseteq Nat
      /\ \A b \in lv, e \in E : Apart(b, ChunkAt(m, e))
  BY DEF Regions
<1>2. /\ m[d].f_ptr \in Nat /\ m[d].f_end \in Nat
      /\ Base <= m[d].f_ptr /\ m[d].f_end <= Limit
  BY <1>1 DEF Chunks, Span, ChunkAt
<1>3. /\ start \in Nat /\ key \in Nat /\ Base <= start /\ start + key <= Limit
      /\ alloc_size <= key /\ HDR < alloc_size /\ start + key = m[d].f_end
  BY <1>2, Lengths
<1>4. start \notin DOMAIN m /\ start # Root
  <2>1. m[d].f_ptr < m[d].f_end
    BY <1>2, Lengths
  <2>2. start \in Addresses \ DOMAIN m
    BY <2>1, ChunkStart
  <2> QED
    BY <1>3, <2>2, Lengths
<1>5. \A x \in DOMAIN m : /\ ChunkAt(w, x) = ChunkAt(m, x) /\ w[x].f_ptr = m[x].f_ptr
                          /\ w[x].f_end = m[x].f_end /\ w[x].a_ptr = m[x].a_ptr
                          /\ w[x].a_end = m[x].a_end
  BY DEF SameChunks, ChunkFields, ChunkAt
<1>6. /\ w[start].f_ptr = start + alloc_size /\ w[start].f_end = start + key
      /\ w[start].a_ptr = start + HDR /\ w[start].a_end = start + alloc_size
      /\ ChunkAt(w, start) = [lo |-> start + alloc_size, hi |-> start + key]
  BY DEF WrittenBy, ChunkAt
<1>7. \A e \in E2 : e \in E \ {d} \/ e = start
  BY DEF Cut, Without
<1>8. E \subseteq DOMAIN m
  BY <1>1 DEF Chunks
<1> DEFINE whole == ChunkAt(m, d)
           rest == ChunkAt(w, start)
           node == NodeAt(start)
<1>9. \A s \in Span : Apart(whole, s) \/ Apart(s, whole) =>
        /\ Apart(block, s) /\ Apart(rest, s) /\ Apart(node, s)
        /\ Apart(s, block) /\ Apart(s, rest) /\ Apart(s, node)
  BY <1>3, <1>6, Lengths DEF Apart, Span, ChunkAt, NodeAt
<1>10. /\ Apart(block, rest) /\ Apart(rest, block) /\ Apart(node, block)
       /\ Apart(node, rest)
  BY <1>3, <1>6, Lengths DEF Apart, NodeAt
<1>11. \A a \in DOMAIN m : NodeAt(a) \in Span
  BY <1>1, Lengths DEF NodeAt, Span
<1>12. \A e \in E : e # d => Apart(whole, ChunkAt(m, e)) /\ ChunkAt(m, e) \in Span
  BY <1>1 DEF Chunks
<1>13. \A a \in DOMAIN m \ {Root} : Apart(NodeAt(a), whole)
  BY <1>1 DEF Chunks
<1>14. \A b \in lv : Apart(b, whole) /\ b \in Span
  BY <1>1 DEF Blocks
<1>15. rest \in Span /\ block \in Span
  BY <1>3, <1>6, Lengths DEF Span
<1> HIDE DEF E2, whole, rest, node, block
<1>16. \A e \in E2 : (e \in E \ {d} /\ ChunkAt(w, e) = ChunkAt(m, e)) \/ (e = start /\ ChunkAt(w, e) = rest)
  BY <1>5, <1>7, <1>8 DEF rest
<1>17. Chunks(w, E2)
  <2>1. E2 \subseteq DOMAIN w
    BY <1>7, <1>8
  <2>2. ASSUME NEW e \in E2
        PROVE  /\ ChunkAt(w, e) \in Span
               /\ Base <= w[e].f_ptr /\ w[e].f_ptr <= w[e].f_end /\ w[e].f_end <= Limit
    <3>1. CASE e \in E \ {d} /\ ChunkAt(w, e) = ChunkAt(m, e)
      BY <1>1, <1>5, <1>8, <3>1 DEF Chunks
    <3>2. CASE e = start
      BY <1>3, <1>6, <1>15, <3>2, Lengths DEF rest
    <3> QED
      BY <1>16, <3>1, <3>2
  <2>3. ASSUME NEW e \in E2, NEW f \in E2, e # f
        PROVE  Apart(ChunkAt(w, e), ChunkAt(w, f))
    <3>1. CASE e # start /\ f # start
      <4>1. e \in E /\ f \in E /\ ChunkAt(w, e) = ChunkAt(m, e) /\ ChunkAt(w, f) = ChunkAt(m, f)
        BY <1>16, <3>1
      <4> QED
        BY <1>1, <2>3, <4>1 DEF Chunks
    <3>2. CASE e = start
      <4>1. f \in E \ {d} /\ ChunkAt(w, f) = ChunkAt(m, f) /\ ChunkAt(w, e) = rest
        BY <1>16, <2>3, <3>2 DEF rest
      <4>2. Apart(whole, ChunkAt(m, f)) /\ ChunkAt(m, f) \in Span
        BY <1>12, <4>1
      <4> QED
        BY <1>9, <4>1, <4>2
    <3>3. CASE f = start
      <4>1. e \in E \ {d} /\ ChunkAt(w, e) = ChunkAt(m, e) /\ ChunkAt(w, f) = rest
        BY <1>16, <2>3, <3>3 DEF rest
      <4>2. Apart(whole, ChunkAt(m, e)) /\ ChunkAt(m, e) \in Span
        BY <1>12, <4>1
      <4> QED
        BY <1>9, <4>1, <4>2
    <3> QED
      BY <3>1, <3>2, <3>3
  <2>4. ASSUME NEW e \in E2, NEW a \in DOMAIN w \ {Root}
        PROVE  Apart(NodeAt(a), ChunkAt(w, e))
    <3>1. CASE a = start /\ e = start
      BY <1>10, <3>1 DEF node, rest
    <3>2. CASE a = start /\ e # start
      BY <1>9, <1>12, <1>16, <3>2 DEF node
    <3>3. CASE a # start /\ e = start
      BY <1>9, <1>11, <1>13, <3>3 DEF rest
    <3>4. CASE a # start /\ e # start
      <4>1. e \in E /\ ChunkAt(w, e) = ChunkAt(m, e) /\ a \in DOMAIN m \ {Root}
        BY <1>16, <3>4
      <4> QED
        BY <1>1, <4>1 DEF Chunks
    <3> QED
      BY <3>1, <3>2, <3>3, <3>4
  <2> QED
    BY <2>1, <2>2, <2>3, <2>4 DEF Chunks
<1>18. Blocks(w, lv2)
  <2>1. ASSUME NEW b \in lv2
        PROVE  /\ b \in Span
               /\ Base <= b.lo /\ b.lo + HDR <= b.hi /\ b.hi <= Limit
               /\ b.lo - HDR \in DOMAIN w
               /\ w[b.lo - HDR].a_ptr = b.lo /\ w[b.lo - HDR].a_end = b.hi
    <3>1. CASE b \in lv
      <4>1. /\ b \in Span
            /\ Base <= b.lo /\ b.lo + HDR <= b.hi /\ b.hi <= Limit
            /\ b.lo - HDR \in DOMAIN m
            /\ m[b.lo - HDR].a_ptr = b.lo /\ m[b.lo - HDR].a_end = b.hi
        BY <1>1, <3>1 DEF Blocks
      <4> QED
        BY <1>5, <4>1
    <3>2. CASE b = block
      <4>1. b.lo = start + HDR /\ b.hi = start + alloc_size /\ b.lo - HDR = start
        BY <1>3, <3>2, Lengths DEF block
      <4> QED
        BY <1>3, <1>6, <1>15, <3>2, <4>1, Lengths
    <3> QED
      BY <3>1, <3>2
  <2>2. ASSUME NEW b \in lv2, NEW c \in lv2, b # c
        PROVE  Apart(b, c)
    <3>1. CASE b \in lv /\ c \in lv
      BY <1>1, <2>2, <3>1 DEF Blocks
    <3>2. CASE b = block \/ c = block
      BY <1>9, <1>14, <2>2, <3>2
    <3> QED
      BY <3>1, <3>2
  <2>3. ASSUME NEW b \in lv2, NEW a \in DOMAIN w \ {Root}
        PROVE  Apart(NodeAt(a), b)
    <3>1. CASE a = start /\ b = block
      BY <1>10, <3>1 DEF node
    <3>2. CASE a = start /\ b \in lv
      BY <1>9, <1>14, <3>2 DEF node
    <3>3. CASE a # start /\ b = block
      BY <1>9, <1>11, <1>13, <3>3
    <3>4. CASE a # start /\ b \in lv
      BY <1>1, <3>4 DEF Blocks
    <3> QED
      BY <3>1, <3>2, <3>3, <3>4
  <2> QED
    BY <2>1, <2>2, <2>3 DEF Blocks
<1>19. ASSUME NEW b \in lv2, NEW e \in E2
       PROVE  Apart(b, ChunkAt(w, e))
  <2>1. CASE b = block /\ e = start
    BY <1>10, <2>1 DEF rest
  <2>2. CASE b = block /\ e # start
    BY <1>9, <1>12, <1>16, <2>2
  <2>3. CASE b \in lv /\ e = start
    BY <1>9, <1>14, <2>3 DEF rest
  <2>4. CASE b \in lv /\ e # start
    BY <1>1, <1>16, <2>4
  <2> QED
    BY <2>1, <2>2, <2>3, <2>4
<1>20. DOMAIN w \subseteq Nat
  BY <1>1, <1>3
<1>21. Regions(w, lv2, E2)
  BY <1>17, <1>18, <1>19, <1>20 DEF Regions
<1> QED
  BY <1>21 DEF E2, block

(* kfree makes a node and a chunk of block b. *)
LEMMA RegionsFreed ==
  ASSUME NEW m, NEW lv, NEW E, Regions(m, lv, E), NEW b \in lv,
         NEW w, DOMAIN w = DOMAIN m \cup {b.lo}, SameChunks(m, w),
         w[b.lo].f_ptr = b.lo + HDR, w[b.lo].f_end = b.hi
  PROVE  Regions(w, lv \ {b}, E \cup {b.lo})
<1> DEFINE start == b.lo
           lv2 == lv \ {b}
           E2 == E \cup {start}
           rest == ChunkAt(w, start)
           node == NodeAt(start)
<1>1. /\ Chunks(m, E) /\ Blocks(m, lv) /\ DOMAIN m \subseteq Nat
      /\ \A c \in lv, e \in E : Apart(c, ChunkAt(m, e))
  BY DEF Regions
<1>2. /\ b \in Span /\ start \in Nat /\ b.hi \in Nat
      /\ Base <= start /\ start + HDR <= b.hi /\ b.hi <= Limit
  BY <1>1 DEF Blocks, Span
<1>3. start \notin DOMAIN m /\ start # Root
  BY <1>2, BlockStart, Lengths
<1>4. \A x \in DOMAIN m : /\ ChunkAt(w, x) = ChunkAt(m, x) /\ w[x].f_ptr = m[x].f_ptr
                          /\ w[x].f_end = m[x].f_end /\ w[x].a_ptr = m[x].a_ptr
                          /\ w[x].a_end = m[x].a_end
  BY DEF SameChunks, ChunkFields, ChunkAt
<1>5. rest = [lo |-> start + HDR, hi |-> b.hi]
  BY DEF ChunkAt
<1>6. E \subseteq DOMAIN m
  BY <1>1 DEF Chunks
<1>7. \A s \in Span : Apart(b, s) \/ Apart(s, b) =>
        /\ Apart(rest, s) /\ Apart(node, s) /\ Apart(s, rest) /\ Apart(s, node)
  BY <1>2, <1>5, Lengths DEF Apart, Span, NodeAt
<1>8. Apart(node, rest)
  BY <1>2, <1>5, Lengths DEF Apart, NodeAt
<1>9. \A a \in DOMAIN m : NodeAt(a) \in Span
  BY <1>1, Lengths DEF NodeAt, Span
<1>10. \A e \in E : Apart(b, ChunkAt(m, e)) /\ ChunkAt(m, e) \in Span
  BY <1>1 DEF Chunks
<1>11. \A a \in DOMAIN m \ {Root} : Apart(NodeAt(a), b)
  BY <1>1 DEF Blocks
<1>12. \A c \in lv2 : Apart(c, b) /\ c \in Span
  BY <1>1 DEF Blocks
<1>13. rest \in Span
  BY <1>2, <1>5, Lengths DEF Span
<1>14. \A e \in E : ChunkAt(w, e) = ChunkAt(m, e) /\ e # start
  BY <1>3, <1>4, <1>6
<1>15. rest = ChunkAt(w, start) /\ node = NodeAt(start)
  OBVIOUS
<1>16. w[start].f_ptr = start + HDR /\ w[start].f_end = b.hi /\ DOMAIN w = DOMAIN m \cup {start}
  OBVIOUS
<1> HIDE DEF rest, node, start
<1>17. Chunks(w, E2)
  <2>1. E2 \subseteq DOMAIN w
    BY <1>6, <1>16
  <2>2. ASSUME NEW e \in E2
        PROVE  /\ ChunkAt(w, e) \in Span
               /\ Base <= w[e].f_ptr /\ w[e].f_ptr <= w[e].f_end /\ w[e].f_end <= Limit
    <3>1. CASE e \in E
      BY <1>1, <1>4, <1>6, <3>1 DEF Chunks
    <3>2. CASE e = start
      BY <1>2, <1>13, <1>15, <1>16, <3>2, Lengths
    <3> QED
      BY <3>1, <3>2
  <2>3. ASSUME NEW e \in E2, NEW f \in E2, e # f
        PROVE  Apart(ChunkAt(w, e), ChunkAt(w, f))
    <3>1. CASE e \in E /\ f \in E
      BY <1>1, <1>14, <2>3, <3>1 DEF Chunks
    <3>2. CASE e = start
      <4>1. f \in E /\ ChunkAt(w, f) = ChunkAt(m, f)
        BY <1>14, <2>3, <3>2
      <4> QED
        BY <1>7, <1>10, <1>15, <3>2, <4>1
    <3>3. CASE f = start
      <4>1. e \in E /\ ChunkAt(w, e) = ChunkAt(m, e)
        BY <1>14, <2>3, <3>3
      <4> QED
        BY <1>7, <1>10, <1>15, <3>3, <4>1
    <3> QED
      BY <3>1, <3>2, <3>3
  <2>4. ASSUME NEW e \in E2, NEW a \in DOMAIN w \ {Root}
        PROVE  Apart(NodeAt(a), ChunkAt(w, e))
    <3>1. CASE a = start /\ e = start
      BY <1>8, <1>15, <3>1
    <3>2. CASE a = start /\ e \in E
      BY <1>7, <1>10, <1>14, <1>15, <3>2
    <3>3. CASE a # start /\ e = start
      BY <1>7, <1>9, <1>11, <1>15, <1>16, <3>3
    <3>4. CASE a # start /\ e \in E
      BY <1>1, <1>14, <1>16, <3>4 DEF Chunks
    <3> QED
      BY <3>1, <3>2, <3>3, <3>4
  <2> QED
    BY <2>1, <2>2, <2>3, <2>4 DEF Chunks
<1>18. Blocks(w, lv2)
  <2>1. ASSUME NEW c \in lv2
        PROVE  /\ c \in Span
               /\ Base <= c.lo /\ c.lo + HDR <= c.hi /\ c.hi <= Limit
               /\ c.lo - HDR \in DOMAIN w
               /\ w[c.lo - HDR].a_ptr = c.lo /\ w[c.lo - HDR].a_end = c.hi
    <3>1. /\ c \in Span
          /\ Base <= c.lo /\ c.lo + HDR <= c.hi /\ c.hi <= Limit
          /\ c.lo - HDR \in DOMAIN m
          /\ m[c.lo - HDR].a_ptr = c.lo /\ m[c.lo - HDR].a_end = c.hi
      BY <1>1 DEF Blocks
    <3> QED
      BY <1>4, <1>16, <3>1
  <2>2. \A c \in lv2, e \in lv2 : c # e => Apart(c, e)
    BY <1>1 DEF Blocks
  <2>3. ASSUME NEW c \in lv2, NEW a \in DOMAIN w \ {Root}
        PROVE  Apart(NodeAt(a), c)
    <3>1. CASE a = start
      BY <1>7, <1>12, <1>15, <3>1
    <3>2. CASE a # start
      BY <1>1, <1>16, <3>2 DEF Blocks
    <3> QED
      BY <3>1, <3>2
  <2> QED
    BY <2>1, <2>2, <2>3 DEF Blocks
<1>19. ASSUME NEW c \in lv2, NEW e \in E2
       PROVE  Apart(c, ChunkAt(w, e))
  <2>1. CASE e = start
    BY <1>7, <1>12, <1>15, <2>1
  <2>2. CASE e \in E
    BY <1>1, <1>14, <2>2
  <2> QED
    BY <2>1, <2>2
<1>20. DOMAIN w \subseteq Nat
  BY <1>1, <1>2, <1>16
<1>21. Regions(w, lv2, E2)
  BY <1>17, <1>18, <1>19, <1>20 DEF Regions
<1> QED
  BY <1>21 DEF start

-----------------------------------------------------------------------------
(* The invariant. *)

HeapInv ==
  /\ wild \in BOOLEAN
  /\ \E T, up, rank, L :
       /\ Sound(Heap, T, up, rank, L) /\ KeysHaveLists(Heap, T)
       /\ Regions(mem, live, Elements(T, L))

(* heap_init: one chunk, the whole arena. *)
LEMMA InitHolds ==
  ASSUME Init
  PROVE  /\ wild = FALSE /\ live = {} /\ DOMAIN mem = {Root}
         /\ mem[Root].f_ptr = Base /\ mem[Root].f_end = Limit
         /\ \E T, up, rank, L :
              /\ Sound(Heap, T, up, rank, L) /\ KeysHaveLists(Heap, T)
              /\ Regions(mem, live, Elements(T, L)) /\ Elements(T, L) = {Root}
<1> DEFINE size == Limit - Base
           node == [parent |-> Null, left |-> Null, right |-> Null, key |-> size, data |-> Root,
                    next |-> Null, prev |-> Null, f_ptr |-> Base, f_end |-> Limit,
                    a_ptr |-> Root + HDR, a_end |-> Root + HDR]
           T == {Root}
           up == [n \in T |-> {}]
           rank == [n \in T |-> 0]
           L == [n \in T |-> {Root}]
<1>1. /\ size \in Nat /\ Base + size = Limit /\ Limit % Word = Limit /\ Null = 0 /\ Null \in Nat
      /\ Base < Limit
  BY HeapAssumption DEF Null
<1>2. heap_root = Root /\ wild = FALSE /\ live = {} /\ DOMAIN mem = {Root} /\ mem[Root] = node
      /\ mem = [x \in {Root} |-> node]
  <2>1. DOMAIN <<>> = {}
    OBVIOUS
  <2>2. mem = [x \in {} \cup {Root} |-> IF x = Root THEN node ELSE <<>>[x]]
    BY <1>1, <2>1 DEF Init, prepare_bst_node, Store
  <2> HIDE DEF node
  <2> QED
    BY <2>2 DEF Init
<1>3. node \in NodeRecord
  BY <1>1, Lengths DEF NodeRecord
<1>4. mem \in [{Root} -> NodeRecord]
  BY <1>2, <1>3
<1>5. /\ node.parent = Null /\ node.left = Null /\ node.right = Null /\ node.key = size
      /\ node.data = Root /\ node.next = Null /\ node.prev = Null /\ node.f_ptr = Base
      /\ node.f_end = Limit
  OBVIOUS
<1> HIDE DEF node, size
<1>6. Heap.mem = mem /\ Heap.wild = FALSE /\ Heap.root = Root /\ Heap = [root |-> Root, mem |-> mem, wild |-> FALSE]
  BY <1>2 DEF Heap
<1>7. Cells(Heap)
  BY <1>2, <1>4, <1>5, <1>6, AddressesApart DEF Cells, Addresses
<1>8. Tree(Heap, T, up, rank)
  <2>1. Ways(Heap, T, up)
    BY <1>2, <1>5, <1>6, AddressesApart DEF Ways, Sides
  <2> QED
    BY <1>2, <1>6, <2>1 DEF Tree
<1>9. Order(Heap, T, up)
  BY DEF Order
<1>10. Lists(Heap, T, L)
  <2>1. IsList(Heap, Root, {Root})
    BY <1>1, <1>2, <1>5, <1>6, Lengths, HeapAssumption DEF IsList
  <2> QED
    BY <1>2, <1>6, <2>1 DEF Lists
<1>11. KeysHaveLists(Heap, T)
  BY <1>2, <1>5, <1>6, HeapAssumption DEF KeysHaveLists
<1>12. Elements(T, L) = {Root}
  BY DEF Elements
<1>13. Regions(mem, live, {Root})
  <2>1. Chunks(mem, {Root})
    BY <1>1, <1>2, <1>5, Lengths DEF Chunks, ChunkAt, Span
  <2>2. Blocks(mem, live)
    BY <1>2 DEF Blocks
  <2> QED
    BY <1>2, <2>1, <2>2, Lengths DEF Regions
<1>14. Sound(Heap, T, up, rank, L)
  BY <1>7, <1>8, <1>9, <1>10 DEF Sound
<1> HIDE DEF T, up, rank, L
<1>15. Regions(mem, live, Elements(T, L))
  BY <1>12, <1>13
<1> QED
  BY <1>2, <1>5, <1>11, <1>12, <1>14, <1>15

(* Whether a bad pointer has been followed does not change the tree. *)
LEMMA WildStays ==
  ASSUME NEW t, NEW u, u = [root |-> t.root, mem |-> t.mem, wild |-> u.wild],
         NEW T, NEW up, NEW rank, NEW L, Sound(t, T, up, rank, L), KeysHaveLists(t, T)
  PROVE  Sound(u, T, up, rank, L) /\ KeysHaveLists(u, T)
<1>1. u.mem = t.mem /\ u.root = t.root
  OBVIOUS
<1>2. Cells(u)
  BY <1>1 DEF Sound, Cells
<1>3. Tree(u, T, up, rank)
  BY <1>1, TreeStays DEF Sound
<1>4. Order(u, T, up) /\ KeysHaveLists(u, T)
  BY <1>1 DEF Sound, Order, KeysHaveLists
<1>5. Lists(u, T, L)
  <2>1. \A n \in T : IsList(t, n, L[n])
    BY DEF Sound, Lists
  <2>2. \A n \in T : IsList(u, n, L[n])
    BY <1>1, <2>1, ListStays DEF Agree
  <2> QED
    BY <1>1, <2>2 DEF Sound, Lists
<1> QED
  BY <1>2, <1>3, <1>4, <1>5 DEF Sound

-----------------------------------------------------------------------------
(* The actions. *)

(* A tree, its lists and its regions, as HeapInv has them. *)
Holds(T, up, rank, L) ==
  /\ Sound(Heap, T, up, rank, L) /\ KeysHaveLists(Heap, T)
  /\ Regions(mem, live, Elements(T, L))

(* What the fields of the tree state are. *)
LEMMA HeapFields ==
  /\ Heap.root = heap_root /\ Heap.mem = mem /\ Heap.wild = wild
BY DEF Heap

(* A marred tree is what LinkUnassigned speaks of. *)
LEMMA MarredLinks ==
  ASSUME NEW T, NEW up, NEW rank, NEW L, Holds(T, up, rank, L), Marred(Heap, T)
  PROVE  LinkUnassigned
<1>1. PICK x \in T, f \in {"left", "right", "parent"} : mem[x][f] \in Junk \ {Null}
  BY HeapFields DEF Marred
<1>2. x \in DOMAIN mem /\ mem[x][f] \notin DOMAIN mem
  BY <1>1, TreeTyped, HeapFields DEF Holds, Sound
<1>3. mem[x][f] \in {mem[x].left, mem[x].right, mem[x].parent}
  BY <1>1
<1> QED
  BY <1>1, <1>2, <1>3, HeapFields DEF LinkUnassigned, IsNode

(* No length of a caller wraps around when the node is added. *)
LEMMA AllocSizes ==
  ASSUME NEW size \in Sizes
  PROVE  AllocSize(size) = size + HDR /\ AllocSize(size) \in Nat
         /\ HDR + HDR <= AllocSize(size) /\ size \in Nat
<1>1. size \in 0 .. Word - 1 /\ HDR <= size /\ size + HDR < Word
  BY HeapAssumption, CallersAssumption
<1> QED
  BY <1>1, Lengths DEF AllocSize

(* The chunk a request takes is long enough and stands on a list of the tree. *)
LEMMA ChunkFound ==
  ASSUME NEW T, NEW up, NEW rank, NEW L, Holds(T, up, rank, L), NEW size \in Sizes,
         NEW old, old = bst_search_smallest_ge(Heap, AllocSize(size)), old # Null,
         mem[old].data # Null
  PROVE  /\ old \in T /\ On(Heap, up, old, mem[old].key)
         /\ mem[old].data \in L[old]
         /\ AllocSize(size) <= mem[old].key
         /\ mem[mem[old].data].f_end = mem[mem[old].data].f_ptr + mem[old].key
         /\ mem[mem[old].data].f_ptr \in Addresses \ DOMAIN mem
         /\ mem[mem[old].data].f_ptr + mem[old].key < Word
         /\ mem[old].key \in Nat /\ mem[mem[old].data].f_ptr \in Nat
         /\ mem[mem[old].data].f_end <= Limit
<1> DEFINE d == mem[old].data
           E == Elements(T, L)
<1>1. AllocSize(size) \in Nat /\ HDR + HDR <= AllocSize(size)
  BY AllocSizes
<1>2. old \in T /\ AllocSize(size) <= mem[old].key /\ On(Heap, up, old, mem[old].key)
  BY <1>1, SearchFinds, HeapFields DEF Holds
<1>3. /\ Cells(Heap) /\ Tree(Heap, T, up, rank) /\ Lists(Heap, T, L)
      /\ old \in DOMAIN mem
  BY <1>2, HeapFields DEF Holds, Sound, Tree
<1>4. mem[old].key \in Nat
  BY <1>3, Typed, HeapFields DEF Fields
<1>5. d \in L[old] /\ mem[d].f_end = mem[d].f_ptr + mem[old].key
  BY <1>2, <1>3, HeapFields DEF Lists, IsList
<1>6. d \in E
  BY <1>2, <1>5 DEF Elements
<1> HIDE DEF d, E
<1>7. /\ mem[d].f_ptr \in Nat /\ mem[d].f_end \in Nat /\ mem[d].f_end <= Limit
      /\ Regions(mem, live, E)
  <2>1. Regions(mem, live, E)
    BY DEF Holds, E
  <2>2. ChunkAt(mem, d) \in Span /\ mem[d].f_end <= Limit
    BY <1>6, <2>1 DEF Regions, Chunks
  <2> QED
    BY <2>1, <2>2 DEF ChunkAt, Span
<1>8. mem[d].f_ptr < mem[d].f_end
  BY <1>1, <1>2, <1>4, <1>5, <1>7, Lengths
<1>9. mem[d].f_ptr \in Addresses \ DOMAIN mem
  BY <1>6, <1>7, <1>8, ChunkStart
<1>10. mem[d].f_ptr + mem[old].key < Word
  BY <1>5, <1>7, Lengths
<1> QED
  BY <1>2, <1>4, <1>5, <1>7, <1>9, <1>10 DEF d

(* What a successful kmalloc changes: chunk d is cut. *)
KmallocCuts(T, L, size, d) ==
  LET start == mem[d].f_ptr
      key == mem[d].f_end - mem[d].f_ptr
      E == Elements(T, L)
  IN /\ d \in E /\ AllocSize(size) <= key /\ start \notin DOMAIN mem /\ start # Root
     /\ heap_root' = Root /\ wild' = wild
     /\ DOMAIN mem' = DOMAIN mem \cup {start} /\ SameChunks(mem, mem')
     /\ WrittenBy(mem'[start], start, AllocSize(size), key)
     /\ Kept(Heap', Cut(E, d, key, AllocSize(size), start))
     /\ live' = live \cup {[lo |-> start + HDR, hi |-> start + AllocSize(size)]}

(* A successful kmalloc cuts one chunk of the tree. *)
LEMMA KmallocStep ==
  ASSUME NEW T, NEW up, NEW rank, NEW L, Holds(T, up, rank, L), wild \in BOOLEAN,
         NEW size \in Sizes, Kmalloc(size)
  PROVE  \E d : KmallocCuts(T, L, size, d)
<1> DEFINE alloc_size == AllocSize(size)
           old == bst_search_smallest_ge(Heap, alloc_size)
           took == TakeChunk(Heap, old, alloc_size)
           d == mem[old].data
           start == mem[d].f_ptr
           key == mem[old].key
           E == Elements(T, L)
           u == took.t
<1>1. /\ ~wild /\ old # Null /\ d # Null /\ ~u.wild
      /\ heap_root' = u.root /\ mem' = u.mem /\ wild' = wild
      /\ live' = live \cup {[lo |-> took.start + HDR, hi |-> took.start + alloc_size]}
  BY DEF Kmalloc, Install
<1>2. alloc_size \in Nat /\ HDR + HDR <= alloc_size /\ 0 < alloc_size
  BY AllocSizes, Lengths
<1>3. /\ old \in T /\ On(Heap, up, old, key)
      /\ d \in L[old] /\ alloc_size <= key
      /\ mem[d].f_end = start + key
      /\ start \in Addresses \ DOMAIN mem
      /\ start + key < Word
      /\ key \in Nat /\ start \in Nat /\ mem[d].f_end <= Limit
  BY <1>1, ChunkFound
<1> HIDE DEF old, took, alloc_size
<1>4. /\ Sound(Heap, T, up, rank, L) /\ KeysHaveLists(Heap, T) /\ ~Heap.wild
      /\ old \in T /\ Heap.mem[old].data # Null /\ On(Heap, up, old, Heap.mem[old].key)
      /\ alloc_size \in Nat /\ 0 < alloc_size /\ alloc_size <= Heap.mem[old].key
      /\ Heap.mem[Heap.mem[old].data].f_ptr \in Addresses \ DOMAIN Heap.mem
      /\ Heap.mem[Heap.mem[old].data].f_ptr + Heap.mem[old].key < Word
  BY <1>1, <1>2, <1>3, HeapFields DEF Holds
<1>5. /\ took.start = start /\ took.f_size = key - alloc_size
      /\ u.wild = Heap.wild /\ DOMAIN u.mem = DOMAIN mem \cup {start}
      /\ Agree(Heap, u, DOMAIN mem, ChunkFields)
      /\ WrittenBy(u.mem[start], start, alloc_size, key)
      /\ Kept(u, Cut(E, d, key, alloc_size, start))
  BY <1>1, <1>4, TakeChunkTakes, HeapFields DEF took
<1>6. key = mem[d].f_end - mem[d].f_ptr
  BY <1>3
<1>7. start # Root /\ d \in E
  <2>1. Base <= start
    BY <1>3, Lengths DEF Addresses, Holds, Regions, Chunks, Elements
  <2> QED
    BY <1>3, <2>1, Lengths DEF Elements
<1>8. SameChunks(mem, mem')
  BY <1>1, <1>5, HeapFields DEF SameChunks, Agree
<1>9. Heap' = u /\ heap_root' = Root
  <2>1. u = [root |-> Root, mem |-> u.mem, wild |-> u.wild]
    BY <1>5 DEF Kept, Sound, Cells
  <2> QED
    BY <1>1, <1>5, <2>1, HeapFields DEF Heap
<1> HIDE DEF u, E, d
<1>10. KmallocCuts(T, L, size, d)
  <2>1. wild' = wild /\ d \in E /\ start \notin DOMAIN mem /\ start # Root /\ heap_root' = Root
    BY <1>1, <1>3, <1>7, <1>9
  <2>2. alloc_size <= mem[d].f_end - mem[d].f_ptr
    BY <1>3, <1>6
  <2>3. DOMAIN mem' = DOMAIN mem \cup {start} /\ SameChunks(mem, mem')
    BY <1>1, <1>5, <1>8
  <2>4. WrittenBy(mem'[start], start, alloc_size, mem[d].f_end - mem[d].f_ptr)
    BY <1>1, <1>5, <1>6
  <2>5. Kept(Heap', Cut(E, d, mem[d].f_end - mem[d].f_ptr, alloc_size, start))
    BY <1>5, <1>6, <1>9
  <2>6. live' = live \cup {[lo |-> start + HDR, hi |-> start + alloc_size]}
    BY <1>1, <1>5
  <2> QED
    BY <2>1, <2>2, <2>3, <2>4, <2>5, <2>6 DEF KmallocCuts, E, alloc_size
<1> QED
  BY <1>10

(* What kfree adds: the node and the chunk of block b. *)
KfreeAdds(T, L, b) ==
  /\ b.lo \notin DOMAIN mem /\ b.lo # Root
  /\ heap_root' = Root /\ wild' = wild
  /\ DOMAIN mem' = DOMAIN mem \cup {b.lo} /\ SameChunks(mem, mem')
  /\ mem'[b.lo].f_ptr = b.lo + HDR /\ mem'[b.lo].f_end = b.hi
  /\ Kept(Heap', Elements(T, L) \cup {b.lo})
  /\ live' = live \ {b}

(* kfree adds the node and the chunk, or follows what a caller left. *)
LEMMA GivenBack ==
  ASSUME NEW T, NEW up, NEW rank, NEW L, Holds(T, up, rank, L), ~wild,
         NEW b \in live, NEW links \in Leftovers
  PROVE  LET u == GiveBack(b, links)
         IN \/ u.wild /\ Marred(Heap, T)
            \/ /\ u.wild = wild /\ DOMAIN u.mem = DOMAIN mem \cup {b.lo}
               /\ Agree(Heap, u, DOMAIN mem, ChunkFields)
               /\ u.mem[b.lo].f_ptr = b.lo + HDR /\ u.mem[b.lo].f_end = b.hi
               /\ Kept(u, Elements(T, L) \cup {b.lo})
<1> DEFINE k == b.hi - b.lo - HDR
           node == [parent |-> links.parent, left |-> links.left, right |-> links.right,
                    key |-> k, data |-> b.lo,
                    next |-> Null, prev |-> Null,
                    f_ptr |-> b.lo + HDR, f_end |-> b.hi, a_ptr |-> Null, a_end |-> Null]
           t1 == Store(Heap, b.lo, node)
           u == GiveBack(b, links)
<1>1. /\ b \in Span /\ Base <= b.lo /\ b.lo + HDR <= b.hi /\ b.hi <= Limit
      /\ mem[b.lo - HDR].a_ptr = b.lo /\ mem[b.lo - HDR].a_end = b.hi
  BY DEF Holds, Regions, Blocks
<1>2. b.lo \in Nat /\ b.hi \in Nat
  BY <1>1 DEF Span
<1>3. k \in Nat /\ k < Word /\ (b.hi - b.lo - HDR) % Word = k
  <2>1. k \in Nat /\ k < Word
    BY <1>1, <1>2, Lengths
  <2> QED
    BY <2>1, Lengths
<1>4. u = heap_add_chunk(t1, k, b.lo)
  BY <1>1, <1>3 DEF GiveBack
<1>15. links.parent \in Junk /\ links.left \in Junk /\ links.right \in Junk
  BY CallersAssumption
<1>5. node \in NodeRecord /\ node.parent \in Junk
  <2>1. links.parent \in Nat /\ links.left \in Nat /\ links.right \in Nat
    BY <1>15, AddressesApart
  <2>2. Null \in Nat /\ b.lo + HDR \in Nat
    BY <1>2, Lengths DEF Null
  <2> QED
    BY <1>2, <1>3, <1>15, <2>1, <2>2 DEF NodeRecord
<1>6. b.lo \in Addresses /\ b.lo \notin DOMAIN Heap.mem
  BY BlockStart, HeapFields DEF Holds
<1>7. /\ node.key = k /\ node.data = b.lo /\ node.next = Null /\ node.prev = Null
      /\ node.left \in Junk /\ node.right \in Junk
      /\ node.f_ptr = b.lo + HDR /\ node.f_end = b.hi
  BY <1>15
<1>8. node.f_end = node.f_ptr + k
  BY <1>2, <1>7, Lengths
<1> HIDE DEF node, k
<1>9. /\ Sound(t1, T, up, rank, L) /\ t1.wild = wild
      /\ DOMAIN t1.mem = DOMAIN mem \cup {b.lo} /\ t1.mem[b.lo] = node
      /\ \A x \in DOMAIN mem : t1.mem[x] = mem[x]
      /\ b.lo \notin T /\ \A n \in T : b.lo \notin L[n]
  BY <1>5, <1>6, StoreSound, HeapFields DEF Holds
<1> HIDE DEF t1, u
<1>10. IsNew(t1, T, L, b.lo, k)
  BY <1>7, <1>8, <1>9 DEF IsNew, Sides
<1>11. T \subseteq DOMAIN mem
  BY HeapFields DEF Holds, Sound, Tree
<1>12. \/ u.wild /\ \E x \in T, s \in Sides : t1.mem[x][s] \in Junk \ {Null}
       \/ Added(t1, T, up, L, b.lo, u, Deref(u, bst_insert(t1, k)))
  BY <1>3, <1>4, <1>9, <1>10, AddChunkAdds
<1>13. CASE u.wild /\ \E x \in T, s \in Sides : t1.mem[x][s] \in Junk \ {Null}
  <2>1. PICK x \in T, s \in Sides : t1.mem[x][s] \in Junk \ {Null}
    BY <1>13
  <2>2. Heap.mem[x][s] \in Junk \ {Null}
    BY <1>9, <1>11, <2>1, HeapFields
  <2>3. Marred(Heap, T)
    BY <2>2 DEF Marred, Sides
  <2> QED
    BY <1>13, <2>3 DEF u
<1>14. CASE Added(t1, T, up, L, b.lo, u, Deref(u, bst_insert(t1, k)))
  <2> DEFINE q == Deref(u, bst_insert(t1, k))
  <2>1. /\ u.wild = t1.wild /\ DOMAIN u.mem = DOMAIN t1.mem
        /\ u.mem[q].data # Null
        /\ Agree(t1, u, DOMAIN t1.mem, {"key", "parent"} \cup ChunkFields)
        /\ Agree(t1, u, DOMAIN t1.mem \ {q}, {"data"})
    BY <1>14 DEF Added
  <2>2. PICK T2, up2, rank2, L2 :
          /\ Sound(u, T2, up2, rank2, L2)
          /\ \A n \in T2 : n # q => n \in T /\ L2[n] = L[n]
          /\ Elements(T2, L2) = Elements(T, L) \cup {b.lo}
    BY <1>14 DEF Added
  <2> HIDE DEF q
  <2>3. /\ \A x \in DOMAIN t1.mem : u.mem[x].key = t1.mem[x].key
        /\ \A x \in DOMAIN t1.mem : x # q => u.mem[x].data = t1.mem[x].data
        /\ \A x \in DOMAIN t1.mem, f \in ChunkFields : u.mem[x][f] = t1.mem[x][f]
    BY <2>1 DEF Agree
  <2>4. KeysHaveLists(u, T2)
    <3> SUFFICES ASSUME NEW n \in T2, u.mem[n].data = Null
                 PROVE  u.mem[n].key = 0
      BY DEF KeysHaveLists
    <3>1. n # q /\ n \in T /\ n \in DOMAIN mem
      BY <1>11, <2>1, <2>2
    <3>2. u.mem[n].data = mem[n].data /\ u.mem[n].key = mem[n].key
      BY <1>9, <2>3, <3>1
    <3> QED
      BY <3>1, <3>2, HeapFields DEF Holds, KeysHaveLists
  <2>5. Kept(u, Elements(T, L) \cup {b.lo})
    BY <2>2, <2>4 DEF Kept
  <2>6. Agree(Heap, u, DOMAIN mem, ChunkFields)
    BY <1>9, <2>3, HeapFields DEF Agree
  <2>7. u.mem[b.lo].f_ptr = b.lo + HDR /\ u.mem[b.lo].f_end = b.hi
    BY <1>7, <1>9, <2>3 DEF ChunkFields
  <2> QED
    BY <1>9, <2>1, <2>5, <2>6, <2>7 DEF u
<1> QED
  BY <1>12, <1>13, <1>14

(* A kfree that is not refused adds them. *)
LEMMA KfreeStep ==
  ASSUME NEW T, NEW up, NEW rank, NEW L, Holds(T, up, rank, L), wild \in BOOLEAN,
         NEW b \in live, NEW links \in Leftovers, Kfree(b, links)
  PROVE  KfreeAdds(T, L, b)
<1> DEFINE u == GiveBack(b, links)
<1>1. /\ ~wild /\ ~u.wild
      /\ heap_root' = u.root /\ mem' = u.mem /\ wild' = wild
      /\ live' = live \ {b}
  BY DEF Kfree, Install
<1>2. /\ u.wild = wild /\ DOMAIN u.mem = DOMAIN mem \cup {b.lo}
      /\ Agree(Heap, u, DOMAIN mem, ChunkFields)
      /\ u.mem[b.lo].f_ptr = b.lo + HDR /\ u.mem[b.lo].f_end = b.hi
      /\ Kept(u, Elements(T, L) \cup {b.lo})
  BY <1>1, GivenBack
<1> HIDE DEF u
<1>3. Heap' = u /\ heap_root' = Root
  <2>1. u = [root |-> Root, mem |-> u.mem, wild |-> u.wild]
    BY <1>2 DEF Kept, Sound, Cells
  <2> QED
    BY <1>1, <1>2, <2>1 DEF Heap
<1>4. b.lo \notin DOMAIN mem /\ b.lo # Root
  <2>1. Base <= b.lo /\ b.lo \in Nat
    BY DEF Holds, Regions, Blocks, Span
  <2> QED
    BY <2>1, BlockStart, Lengths DEF Holds
<1>5. SameChunks(mem, mem')
  BY <1>1, <1>2, HeapFields DEF SameChunks, Agree
<1>6. DOMAIN mem' = DOMAIN mem \cup {b.lo} /\ mem'[b.lo].f_ptr = b.lo + HDR /\ mem'[b.lo].f_end = b.hi
  BY <1>1, <1>2
<1>7. Kept(Heap', Elements(T, L) \cup {b.lo})
  BY <1>2, <1>3
<1> QED
  BY <1>1, <1>3, <1>4, <1>5, <1>6, <1>7 DEF KfreeAdds

(* heap_init makes a tree of one node with one chunk. *)
LEMMA InitInvariant == Init => HeapInv
<1> SUFFICES ASSUME Init
             PROVE  HeapInv
  OBVIOUS
<1>1. /\ wild = FALSE
      /\ \E T, up, rank, L :
           /\ Sound(Heap, T, up, rank, L) /\ KeysHaveLists(Heap, T)
           /\ Regions(mem, live, Elements(T, L))
  BY InitHolds
<1> QED
  BY <1>1 DEF HeapInv

(* Steps that change neither the tree nor the nodes keep both. *)
LEMMA TreeKept ==
  ASSUME HeapInv, heap_root' = heap_root, mem' = mem, wild' \in BOOLEAN, live' \subseteq live
  PROVE  HeapInv'
<1>1. PICK T, up, rank, L : Holds(T, up, rank, L)
  BY DEF HeapInv, Holds
<1>2. Heap' = [root |-> Heap.root, mem |-> Heap.mem, wild |-> Heap'.wild]
  BY DEF Heap
<1>3. Sound(Heap', T, up, rank, L) /\ KeysHaveLists(Heap', T)
  BY <1>1, <1>2, WildStays DEF Holds
<1>4. Regions(mem', live', Elements(T, L))
  BY <1>1, RegionsFewer DEF Holds
<1> QED
  BY <1>3, <1>4 DEF HeapInv

(* kmalloc keeps the invariant. *)
LEMMA KmallocKeeps ==
  ASSUME HeapInv, NEW size \in Sizes, Kmalloc(size)
  PROVE  HeapInv'
<1>1. PICK T, up, rank, L : Holds(T, up, rank, L)
  BY DEF HeapInv, Holds
<1>2. PICK d : KmallocCuts(T, L, size, d)
  BY <1>1, KmallocStep DEF HeapInv
<1> DEFINE start == mem[d].f_ptr
           key == mem[d].f_end - mem[d].f_ptr
           E == Elements(T, L)
           E2 == Cut(E, d, key, AllocSize(size), start)
<1>3. /\ d \in E /\ AllocSize(size) <= key
      /\ wild' = wild
      /\ DOMAIN mem' = DOMAIN mem \cup {start} /\ SameChunks(mem, mem')
      /\ WrittenBy(mem'[start], start, AllocSize(size), key)
      /\ Kept(Heap', E2)
      /\ live' = live \cup {[lo |-> start + HDR, hi |-> start + AllocSize(size)]}
  BY <1>2 DEF KmallocCuts
<1>4. Regions(mem, live, E)
  BY <1>1 DEF Holds
<1>5. AllocSize(size) \in Nat /\ HDR + HDR <= AllocSize(size)
  BY AllocSizes
<1> HIDE DEF E
<1>6. Regions(mem', live', E2)
  BY <1>3, <1>4, <1>5, RegionsTaken
<1> HIDE DEF E2
<1>7. PICK T2, up2, rank2, L2 : /\ Sound(Heap', T2, up2, rank2, L2) /\ KeysHaveLists(Heap', T2)
                                /\ Elements(T2, L2) \subseteq E2
  BY <1>3 DEF Kept
<1>8. Regions(mem', live', Elements(T2, L2))
  BY <1>6, <1>7, RegionsFewer
<1> QED
  BY <1>3, <1>7, <1>8 DEF HeapInv

(* So does kfree. *)
LEMMA KfreeKeeps ==
  ASSUME HeapInv, NEW b \in live, NEW links \in Leftovers, Kfree(b, links)
  PROVE  HeapInv'
<1>1. PICK T, up, rank, L : Holds(T, up, rank, L)
  BY DEF HeapInv, Holds
<1>2. KfreeAdds(T, L, b)
  BY <1>1, KfreeStep DEF HeapInv
<1> DEFINE E == Elements(T, L)
<1>3. Regions(mem, live, E)
  BY <1>1 DEF Holds
<1> HIDE DEF E
<1>4. Regions(mem', live', E \cup {b.lo})
  BY <1>2, <1>3, RegionsFreed DEF KfreeAdds
<1>5. PICK T2, up2, rank2, L2 : /\ Sound(Heap', T2, up2, rank2, L2) /\ KeysHaveLists(Heap', T2)
                                /\ Elements(T2, L2) \subseteq E \cup {b.lo}
  BY <1>2 DEF Kept, KfreeAdds, E
<1>6. Regions(mem', live', Elements(T2, L2))
  BY <1>4, <1>5, RegionsFewer
<1> QED
  BY <1>2, <1>5, <1>6 DEF HeapInv, KfreeAdds

(* Every step keeps the invariant. *)
LEMMA NextInvariant == HeapInv /\ [Next]_vars => HeapInv'
<1> SUFFICES ASSUME HeapInv, [Next]_vars
             PROVE  HeapInv'
  OBVIOUS
<1>0. wild \in BOOLEAN
  BY DEF HeapInv
<1>1. ASSUME NEW size \in Sizes, KmallocFails(size)
      PROVE  HeapInv'
  BY <1>0, <1>1, TreeKept DEF KmallocFails, vars
<1>2. ASSUME NEW size \in Sizes, Kmalloc(size)
      PROVE  HeapInv'
  BY <1>2, KmallocKeeps
<1>3. ASSUME NEW size \in Sizes, KmallocUndefined(size)
      PROVE  HeapInv'
  BY <1>3, TreeKept DEF KmallocUndefined, GoesWild
<1>4. ASSUME NEW b \in live, NEW links \in Leftovers, Kfree(b, links)
      PROVE  HeapInv'
  BY <1>4, KfreeKeeps
<1>5. ASSUME NEW b \in live, NEW links \in Leftovers, KfreeUndefined(b, links)
      PROVE  HeapInv'
  BY <1>5, TreeKept DEF KfreeUndefined, GoesWild
<1>6. ASSUME NEW b \in live, KfreeRefused(b)
      PROVE  HeapInv'
  BY <1>0, <1>6, TreeKept DEF KfreeRefused
<1>7. CASE UNCHANGED vars
  BY <1>0, <1>7, TreeKept DEF vars
<1> QED
  BY <1>1, <1>2, <1>3, <1>4, <1>5, <1>6, <1>7 DEF Next

(***************************************************************************)
(* The memory of kmalloc.c holds a sound tree with sound lists, whose      *)
(* chunks, nodes and blocks lie apart, after any sequence of kmalloc and   *)
(* kfree: in the order in which the code assigns the fields, and whatever  *)
(* words the callers leave in each of the three links of the blocks they   *)
(* free, as long as none is an address at which a node may stand           *)
(* (CallersAssumption): with such an address in a link the tree can become *)
(* a graph with cycles, which the theorem does not speak about.            *)
(***************************************************************************)
THEOREM HeapInvariant == Spec => []HeapInv
BY InitInvariant, NextInvariant, PTL DEF Spec

-----------------------------------------------------------------------------
(* The tree and the lists are what the operators of Heap compute. *)

(* A link of the tree leads to a node of the tree or to none at all. *)
LEMMA LinksLead ==
  ASSUME Cells(Heap), NEW T, NEW up, NEW rank, Tree(Heap, T, up, rank)
  PROVE  \A n \in T : \A s \in Sides : mem[n][s] \in T \/ mem[n][s] \notin DOMAIN mem
<1>1. \A j \in Junk : j \notin DOMAIN Heap.mem
  BY TreeTyped
<1>2. \A n \in T : \A s \in Sides : Heap.mem[n][s] \in T \/ Heap.mem[n][s] \in Junk
  BY DEF Tree, Ways
<1> QED
  BY <1>1, <1>2, HeapFields

(* TreeNodes and ListOf are the sets of the invariant. *)
LEMMA NodesAre ==
  ASSUME NEW T, NEW up, NEW rank, NEW L, Sound(Heap, T, up, rank, L)
  PROVE  TreeNodes = T /\ \A n \in T : ListOf(n) = L[n]
<1>1. /\ Cells(Heap) /\ Tree(Heap, T, up, rank) /\ Lists(Heap, T, L)
      /\ heap_root = Root /\ T \subseteq DOMAIN mem /\ Root \in T
  BY HeapFields DEF Sound, Tree, Cells
<1>2. IsFiniteSet(DOMAIN mem) /\ \A x \in DOMAIN mem : x # Null
  BY <1>1, Typed, HeapFields
<1>3. \A n \in T : \A s \in Sides : mem[n][s] \in T \/ mem[n][s] \notin DOMAIN mem
  BY <1>1, LinksLead
<1>4. \A n \in T : Children(n) \subseteq T
  BY <1>3 DEF Children, Sides
<1>5. /\ Root \in TreeNodes /\ TreeNodes \subseteq T
      /\ \A n \in TreeNodes : Children(n) \subseteq TreeNodes
  BY <1>1, <1>2, <1>4, TreeNodesAre
<1>6. ASSUME NEW n \in T, n \notin TreeNodes
      PROVE  FALSE
  <2> DEFINE Above == {m \in TreeNodes : \E s \in Sides : <<m, s>> \in up[n]}
             M == {rank[m] : m \in Above}
  <2>1. Above # {} /\ Above \subseteq T
    BY <1>1, <1>5, <1>6 DEF Tree, Ways
  <2>2. M \subseteq Nat /\ M # {}
    BY <1>1, <2>1 DEF Tree
  <2>3. PICK k \in M : \A j \in M : k <= j
    BY <2>2, LeastNumber
  <2>4. PICK m \in Above : k = rank[m]
    OBVIOUS
  <2>5. PICK s \in Sides : <<m, s>> \in up[n]
    BY <2>4
  <2> DEFINE c == mem[m][s]
  <2>6. c \in T /\ (c = n \/ \E r \in Sides : <<c, r>> \in up[n])
    BY <1>1, <2>1, <2>5, HeapFields DEF Tree, Ways
  <2>7. c \in TreeNodes
    <3>1. c \in Children(m)
      BY <1>1, <2>6 DEF Children, Sides
    <3> QED
      BY <1>5, <3>1
  <2>8. c \in Above
    BY <1>6, <2>6, <2>7
  <2>9. rank[c] < rank[m] /\ rank[c] \in Nat /\ rank[m] \in Nat
    <3>1. rank[c] < rank[m]
      BY <1>1, <2>1, <2>6, LinksApart, HeapFields
    <3> QED
      BY <1>1, <2>1, <2>6, <3>1 DEF Tree
  <2>10. k <= rank[c]
    BY <2>3, <2>8
  <2> QED
    BY <2>4, <2>9, <2>10
<1>7. ASSUME NEW n \in T
      PROVE  ListOf(n) = L[n]
  <2>1. IsList(Heap, n, L[n]) /\ L[n] \subseteq DOMAIN mem
    BY <1>1, HeapFields DEF Lists
  <2>2. HoldsList(L[n], n)
    BY <1>2, <2>1, HeapFields DEF IsList, HoldsList, Following
  <2>3. /\ mem[n].data # Null => mem[n].data \in ListOf(n)
        /\ ListOf(n) \subseteq L[n]
        /\ \A d \in ListOf(n) : Following(d) \subseteq ListOf(n)
    BY <1>2, <2>2, ListIs
  <2>4. \A d \in ListOf(n) : mem[d].next = Null \/ mem[d].next \in ListOf(n)
    <3> SUFFICES ASSUME NEW d \in ListOf(n), mem[d].next # Null
                 PROVE  mem[d].next \in ListOf(n)
      OBVIOUS
    <3>1. mem[d].next \in L[n]
      BY <2>1, <2>3, HeapFields DEF IsList
    <3>2. mem[d].next \in Following(d)
      BY <2>1, <3>1 DEF Following
    <3> QED
      BY <2>3, <3>2
  <2> QED
    BY <2>1, <2>3, <2>4, HeapFields DEF IsList
<1> QED
  BY <1>5, <1>6, <1>7

(***************************************************************************)
(* Next and prev of every list agree, no chunk is on two lists, and every  *)
(* chunk is as long as its node's key says (dynlist_prepend, dynlist_del,  *)
(* bst_delete_node and the copy over the root in kmalloc).                 *)
(***************************************************************************)
THEOREM HeapListsWellFormed == Spec => []ListsWellFormed
<1>1. HeapInv => ListsWellFormed
  <2> SUFFICES ASSUME HeapInv
               PROVE  ListsWellFormed
    OBVIOUS
  <2>1. PICK T, up, rank, L : Holds(T, up, rank, L)
    BY DEF HeapInv, Holds
  <2>2. TreeNodes = T /\ \A n \in T : ListOf(n) = L[n]
    BY <2>1, NodesAre DEF Holds
  <2>3. Lists(Heap, T, L) /\ Cells(Heap) /\ T \subseteq DOMAIN mem
    BY <2>1, HeapFields DEF Holds, Sound, Tree
  <2>4. ASSUME NEW n \in T
        PROVE  /\ mem[n].data # Null => mem[mem[n].data].prev = Null
               /\ \A d \in L[n] : /\ mem[d].next # Null => mem[mem[d].next].prev = d
                                  /\ mem[d].f_end - mem[d].f_ptr = mem[n].key
    <3>1. IsList(Heap, n, L[n]) /\ L[n] \subseteq DOMAIN mem
      BY <2>3, HeapFields DEF Lists
    <3>2. \A d \in L[n] : mem[d].f_ptr \in Nat /\ mem[d].f_end \in Nat /\ mem[n].key \in Nat
      BY <2>3, <3>1, Typed, HeapFields DEF Fields
    <3> QED
      BY <3>1, <3>2, HeapFields DEF IsList
  <2>5. \A n \in T, m \in T : n # m => L[n] \cap L[m] = {}
    BY <2>3 DEF Lists
  <2> QED
    BY <2>2, <2>4, <2>5 DEF ListsWellFormed
<1> QED
  BY <1>1, HeapInvariant, PTL

(***************************************************************************)
(* No node of the tree has two links to it and the root has none, so every *)
(* walk of tree_bst.c ends (bst_delete_node, bst_replace_node_in_parent,   *)
(* heap_add_chunk and the copy over the root).                             *)
(***************************************************************************)
THEOREM HeapTreeShaped == Spec => []TreeShaped
<1>1. HeapInv => TreeShaped
  <2> SUFFICES ASSUME HeapInv
               PROVE  TreeShaped
    OBVIOUS
  <2>1. PICK T, up, rank, L : Holds(T, up, rank, L)
    BY DEF HeapInv, Holds
  <2>2. TreeNodes = T /\ heap_root = Root
    BY <2>1, NodesAre, HeapFields DEF Holds, Sound, Cells
  <2>3. Tree(Heap, T, up, rank) /\ Cells(Heap)
    BY <2>1 DEF Holds, Sound
  <2>4. \A n \in T : \A s \in Sides : mem[n][s] \in T \/ mem[n][s] \notin DOMAIN mem
    BY <2>3, LinksLead
  <2>5. ASSUME NEW n \in T, NEW s \in Sides
        PROVE  mem[n][s] # Root
    BY <2>3, LinksApart, HeapFields DEF Tree
  <2>6. ASSUME NEW n \in T, NEW s \in Sides, NEW m \in T, NEW r \in Sides,
               <<n, s>> # <<m, r>>, mem[n][s] \in DOMAIN mem
        PROVE  mem[n][s] # mem[m][r]
    <3>1. mem[n][s] \in T
      BY <2>4, <2>6
    <3> QED
      BY <2>3, <2>6, <3>1, LinksApart, HeapFields
  <2> QED
    BY <2>2, <2>5, <2>6 DEF TreeShaped, Sides
<1> QED
  BY <1>1, HeapInvariant, PTL

(***************************************************************************)
(* kmalloc never reports "heap corruption! Zombie BST node": only nodes whose *)
(* key is 0 have lost their list, and no request is that short.            *)
(***************************************************************************)
THEOREM HeapNoZombieFound == Spec => []NoZombieFound
<1>1. HeapInv => NoZombieFound
  <2> SUFFICES ASSUME HeapInv, NEW size \in Sizes,
                      NEW n, n = bst_search_smallest_ge(Heap, AllocSize(size)), n # Null
               PROVE  mem[n].data # Null
    BY DEF NoZombieFound
  <2>1. PICK T, up, rank, L : Holds(T, up, rank, L)
    BY DEF HeapInv, Holds
  <2>2. AllocSize(size) \in Nat /\ HDR + HDR <= AllocSize(size)
    BY AllocSizes
  <2>3. n \in T /\ AllocSize(size) <= mem[n].key
    BY <2>1, <2>2, SearchFinds, HeapFields DEF Holds
  <2>4. mem[n].key # 0
    BY <2>2, <2>3, Lengths
  <2> QED
    BY <2>1, <2>3, <2>4, HeapFields DEF Holds, KeysHaveLists
<1> QED
  BY <1>1, HeapInvariant, PTL

(***************************************************************************)
(* The tree code follows a bad pointer only because of what kfree left     *)
(* unassigned, or when the root's only chunk fits a request exactly.       *)
(***************************************************************************)
THEOREM HeapUndefinedOnlyThen == Spec => UndefinedOnlyThen
<1>1. HeapInv /\ [Next]_vars => [~wild /\ wild' => LinkUnassigned \/ ExactFitAtRoot]_vars
  <2> SUFFICES ASSUME HeapInv, Next, ~wild, wild'
               PROVE  LinkUnassigned \/ ExactFitAtRoot
    OBVIOUS
  <2>0. PICK T, up, rank, L : Holds(T, up, rank, L)
    BY DEF HeapInv, Holds
  <2>1. ASSUME NEW size \in Sizes, KmallocUndefined(size)
        PROVE  LinkUnassigned \/ ExactFitAtRoot
    <3> DEFINE old == bst_search_smallest_ge(Heap, AllocSize(size))
    <3>1. AllocSize(size) \in Nat /\ 0 < AllocSize(size)
      BY AllocSizes, Lengths
    <3>2. CASE Strays(Heap, AllocSize(size))
      BY <2>0, <3>1, <3>2, SearchFinds, MarredLinks DEF Holds
    <3>3. CASE ~Strays(Heap, AllocSize(size))
      <4>1. old # Null /\ mem[old].data # Null /\ TakeChunk(Heap, old, AllocSize(size)).t.wild
        BY <2>1, <3>3 DEF KmallocUndefined
      <4>2. old = bst_search_smallest_ge(Heap, AllocSize(size))
        OBVIOUS
      <4> HIDE DEF old
      <4>3. /\ old \in T /\ On(Heap, up, old, mem[old].key)
            /\ AllocSize(size) <= mem[old].key
            /\ mem[mem[old].data].f_ptr \in Addresses \ DOMAIN mem
            /\ mem[mem[old].data].f_ptr + mem[old].key < Word
        BY <2>0, <4>1, <4>2, ChunkFound
      <4>4. /\ Sound(Heap, T, up, rank, L) /\ KeysHaveLists(Heap, T) /\ ~Heap.wild
            /\ old \in T /\ Heap.mem[old].data # Null /\ On(Heap, up, old, Heap.mem[old].key)
            /\ AllocSize(size) \in Nat /\ 0 < AllocSize(size) /\ AllocSize(size) <= Heap.mem[old].key
            /\ Heap.mem[Heap.mem[old].data].f_ptr \in Addresses \ DOMAIN Heap.mem
            /\ Heap.mem[Heap.mem[old].data].f_ptr + Heap.mem[old].key < Word
        BY <2>0, <3>1, <4>1, <4>3, HeapFields DEF Holds
      <4>5. \/ Marred(Heap, T)
            \/ old = Root /\ mem[old].key = AllocSize(size) /\ mem[mem[old].data].next = Null
        BY <4>1, <4>4, TakeChunkTakes, HeapFields
      <4>6. heap_root = Root
        BY <2>0, HeapFields DEF Holds, Sound, Cells
      <4> QED
        BY <2>0, <4>2, <4>5, <4>6, MarredLinks DEF ExactFitAtRoot
    <3> QED
      BY <3>2, <3>3
  <2>2. ASSUME NEW b \in live, NEW links \in Leftovers, KfreeUndefined(b, links)
        PROVE  LinkUnassigned
    <3>1. GiveBack(b, links).wild
      BY <2>2 DEF KfreeUndefined
    <3>2. Marred(Heap, T)
      BY <2>0, <3>1, GivenBack
    <3> QED
      BY <2>0, <3>2, MarredLinks
  <2>3. ASSUME NEW size \in Sizes, KmallocFails(size) \/ Kmalloc(size)
        PROVE  FALSE
    BY <2>3 DEF KmallocFails, Kmalloc, Install, vars
  <2>4. ASSUME NEW b \in live, NEW links \in Leftovers, Kfree(b, links) \/ KfreeRefused(b)
        PROVE  FALSE
    BY <2>4 DEF Kfree, KfreeRefused, Install
  <2>5. \A b \in live : ~KfreeRefused(b)
    BY DEF KfreeRefused
  <2> QED
    BY <2>1, <2>2, <2>3, <2>4, <2>5 DEF Next
<1> QED
  BY <1>1, HeapInvariant, PTL DEF Spec, UndefinedOnlyThen

-----------------------------------------------------------------------------
(* The tree's chunks are those of the regions. *)

ChunksOf(m, E) == {ChunkAt(m, d) : d \in E}

(* TreeChunks are the chunks of the elements. *)
LEMMA ChunksAre ==
  \A T, up, rank, L : Sound(Heap, T, up, rank, L) => TreeChunks = ChunksOf(mem, Elements(T, L))
<1> SUFFICES ASSUME NEW T, NEW up, NEW rank, NEW L, Sound(Heap, T, up, rank, L)
             PROVE  TreeChunks = ChunksOf(mem, Elements(T, L))
  OBVIOUS
<1>1. TreeNodes = T /\ \A n \in T : ListOf(n) = L[n]
  BY NodesAre
<1>2. UNION {ListOf(n) : n \in TreeNodes} = Elements(T, L)
  <2>1. UNION {ListOf(n) : n \in TreeNodes} = UNION {L[n] : n \in T}
    BY <1>1
  <2> QED
    BY <2>1 DEF Elements
<1> QED
  BY <1>2 DEF TreeChunks, Chunk, ChunksOf, ChunkAt

(* ... in the next state as well. *)
LEMMA ChunksAreNext ==
  (\A T, up, rank, L : Sound(Heap, T, up, rank, L) => TreeChunks = ChunksOf(mem, Elements(T, L)))'
BY ChunksAre, PTL

(* Nothing but mem and heap_root says which chunks there are. *)
LEMMA ChunksStay ==
  ASSUME HeapInv, heap_root' = heap_root, mem' = mem
  PROVE  TreeChunks' = TreeChunks /\ NodeRegions' = NodeRegions
<1>1. PICK T, up, rank, L : Holds(T, up, rank, L)
  BY DEF HeapInv, Holds
<1>2. Heap' = [root |-> Heap.root, mem |-> Heap.mem, wild |-> Heap'.wild]
  BY DEF Heap
<1>3. Sound(Heap, T, up, rank, L) /\ Sound(Heap', T, up, rank, L)
  BY <1>1, <1>2, WildStays DEF Holds
<1>4. TreeChunks = ChunksOf(mem, Elements(T, L))
  BY <1>3, ChunksAre
<1>5. TreeChunks' = ChunksOf(mem', Elements(T, L))
  BY <1>3, ChunksAreNext
<1>6. NodeRegions' = NodeRegions
  BY DEF NodeRegions
<1> QED
  BY <1>4, <1>5, <1>6

(* What is kept of the tree has no other chunks. *)
LEMMA KeptChunks ==
  ASSUME NEW E, Kept(Heap', E)
  PROVE  TreeChunks' \subseteq ChunksOf(mem', E)
<1>1. PICK T, up, rank, L : Sound(Heap', T, up, rank, L) /\ Elements(T, L) \subseteq E
  BY DEF Kept
<1>2. TreeChunks' = ChunksOf(mem', Elements(T, L))
  BY <1>1, ChunksAreNext
<1> QED
  BY <1>1, <1>2 DEF ChunksOf

(* The new node is one more node region. *)
LEMMA NodeAdded ==
  ASSUME NEW start, start # Root, DOMAIN mem' = DOMAIN mem \cup {start}
  PROVE  NodeRegions' = NodeRegions \cup {[lo |-> start, hi |-> start + HDR]}
BY DEF NodeRegions

(* heap_init is the arena's initial state. *)
LEMMA InitArena == Init => Arena!Init
<1> SUFFICES ASSUME Init
             PROVE  Arena!Init
  OBVIOUS
<1>1. /\ live = {} /\ DOMAIN mem = {Root} /\ mem[Root].f_ptr = Base /\ mem[Root].f_end = Limit
      /\ \E T, up, rank, L : Sound(Heap, T, up, rank, L) /\ Elements(T, L) = {Root}
  BY InitHolds
<1>2. TreeChunks = ChunksOf(mem, {Root})
  BY <1>1, ChunksAre
<1>3. ChunksOf(mem, {Root}) = {[lo |-> Base, hi |-> Limit]}
  BY <1>1 DEF ChunksOf, ChunkAt
<1>4. NodeRegions = {}
  BY <1>1 DEF NodeRegions
<1> QED
  BY <1>1, <1>2, <1>3, <1>4 DEF Arena!Init

(* kmalloc takes a chunk of the arena and puts the remainder back. *)
LEMMA KmallocArena ==
  ASSUME HeapInv, NEW size \in Sizes, Kmalloc(size)
  PROVE  Arena!Kmalloc(size)
<1>1. PICK T, up, rank, L : Holds(T, up, rank, L)
  BY DEF HeapInv, Holds
<1>2. PICK d : KmallocCuts(T, L, size, d)
  BY <1>1, KmallocStep DEF HeapInv
<1> DEFINE start == mem[d].f_ptr
           key == mem[d].f_end - mem[d].f_ptr
           E == Elements(T, L)
           E2 == Cut(E, d, key, AllocSize(size), start)
           c == ChunkAt(mem, d)
<1>3. /\ d \in E /\ AllocSize(size) <= key /\ start # Root
      /\ DOMAIN mem' = DOMAIN mem \cup {start} /\ SameChunks(mem, mem')
      /\ WrittenBy(mem'[start], start, AllocSize(size), key)
      /\ Kept(Heap', E2)
      /\ live' = live \cup {[lo |-> start + HDR, hi |-> start + AllocSize(size)]}
  BY <1>2 DEF KmallocCuts
<1>4. AllocSize(size) = size + HDR /\ size \in Nat /\ HDR + HDR <= AllocSize(size)
  BY AllocSizes
<1>5. Chunks(mem, E) /\ TreeChunks = ChunksOf(mem, E)
  BY <1>1, ChunksAre DEF Holds, Regions
<1>6. start \in Nat /\ mem[d].f_end \in Nat /\ E \subseteq DOMAIN mem
  BY <1>3, <1>5 DEF Chunks, ChunkAt, Span
<1>7. c.lo = start /\ c.hi = mem[d].f_end /\ c \in TreeChunks
  BY <1>3, <1>5 DEF ChunkAt, ChunksOf
<1>8. c.hi - c.lo = key /\ c.hi - c.lo >= size + HDR
  BY <1>3, <1>4, <1>6, <1>7, Lengths
<1>9. live' = live \cup {[lo |-> c.lo + HDR, hi |-> c.lo + HDR + size]}
  <2>1. start + AllocSize(size) = start + HDR + size
    BY <1>4, <1>6, Lengths
  <2> QED
    BY <1>3, <1>7, <2>1
<1>10. NodeRegions' = NodeRegions \cup {[lo |-> c.lo, hi |-> c.lo + HDR]}
  BY <1>3, <1>7, NodeAdded
<1>11. ASSUME NEW e \in E2
       PROVE  ChunkAt(mem', e) \in (TreeChunks \ {c}) \cup Arena!Remainder(c, size)
  <2>1. CASE e \in E /\ e # d
    <3>1. ChunkAt(mem', e) = ChunkAt(mem, e)
      BY <1>3, <1>6, <2>1 DEF SameChunks, ChunkFields, ChunkAt
    <3>2. ChunkAt(mem, e) \in TreeChunks
      BY <1>5, <2>1 DEF ChunksOf
    <3>3. Apart(c, ChunkAt(mem, e)) /\ c.lo < c.hi /\ c.lo \in Nat /\ c.hi \in Nat
      <4>1. Apart(c, ChunkAt(mem, e))
        BY <1>3, <1>5, <2>1 DEF Chunks
      <4>2. c.lo < c.hi
        BY <1>4, <1>6, <1>7, <1>8, Lengths
      <4> QED
        BY <1>6, <1>7, <4>1, <4>2
    <3>4. ChunkAt(mem, e) # c
      BY <3>3 DEF Apart
    <3> QED
      BY <3>1, <3>2, <3>4
  <2>2. CASE e = start /\ key # AllocSize(size)
    <3>1. ChunkAt(mem', e) = [lo |-> start + AllocSize(size), hi |-> start + key]
      BY <1>3, <2>2 DEF WrittenBy, ChunkAt
    <3>2. /\ start + AllocSize(size) = c.lo + HDR + size /\ start + key = c.hi
          /\ c.hi - c.lo > size + HDR
      BY <1>3, <1>4, <1>6, <1>7, <1>8, <2>2, Lengths
    <3> QED
      BY <3>1, <3>2 DEF Arena!Remainder
  <2> QED
    BY <2>1, <2>2 DEF Cut, Without
<1>12. TreeChunks' \subseteq (TreeChunks \ {c}) \cup Arena!Remainder(c, size)
  <2>1. TreeChunks' \subseteq ChunksOf(mem', E2)
    BY <1>3, KeptChunks
  <2> QED
    BY <1>11, <2>1 DEF ChunksOf
<1> HIDE DEF c
<1> QED
  BY <1>7, <1>8, <1>9, <1>10, <1>12 DEF Arena!Kmalloc

(* kfree gives a block of the arena back. *)
LEMMA KfreeArena ==
  ASSUME HeapInv, NEW b \in live, NEW links \in Leftovers, Kfree(b, links)
  PROVE  Arena!Kfree(b)
<1>1. PICK T, up, rank, L : Holds(T, up, rank, L)
  BY DEF HeapInv, Holds
<1>2. KfreeAdds(T, L, b)
  BY <1>1, KfreeStep DEF HeapInv
<1> DEFINE E == Elements(T, L)
<1>3. /\ b.lo # Root /\ DOMAIN mem' = DOMAIN mem \cup {b.lo} /\ SameChunks(mem, mem')
      /\ mem'[b.lo].f_ptr = b.lo + HDR /\ mem'[b.lo].f_end = b.hi
      /\ Kept(Heap', E \cup {b.lo})
      /\ live' = live \ {b}
  BY <1>2 DEF KfreeAdds
<1>4. E \subseteq DOMAIN mem /\ TreeChunks = ChunksOf(mem, E)
  BY <1>1, ChunksAre DEF Holds, Regions, Chunks
<1>5. NodeRegions' = NodeRegions \cup {[lo |-> b.lo, hi |-> b.lo + HDR]}
  BY <1>3, NodeAdded
<1>6. ASSUME NEW e \in E \cup {b.lo}
      PROVE  ChunkAt(mem', e) \in TreeChunks \cup {[lo |-> b.lo + HDR, hi |-> b.hi]}
  <2>1. CASE e \in E
    <3>1. ChunkAt(mem', e) = ChunkAt(mem, e)
      BY <1>3, <1>4, <2>1 DEF SameChunks, ChunkFields, ChunkAt
    <3> QED
      BY <1>4, <2>1, <3>1 DEF ChunksOf
  <2>2. CASE e = b.lo
    BY <1>3, <2>2 DEF ChunkAt
  <2> QED
    BY <1>6, <2>1, <2>2
<1>7. TreeChunks' \subseteq TreeChunks \cup {[lo |-> b.lo + HDR, hi |-> b.hi]}
  <2>1. TreeChunks' \subseteq ChunksOf(mem', E \cup {b.lo})
    BY <1>3, KeptChunks
  <2> QED
    BY <1>6, <2>1 DEF ChunksOf
<1> QED
  BY <1>3, <1>5, <1>7 DEF Arena!Kfree

(* Every step of the heap is one of the arena, or changes nothing of it. *)
LEMMA NextArena == HeapInv /\ [Next]_vars => [Arena!Next]_(Arena!vars)
<1> SUFFICES ASSUME HeapInv, [Next]_vars
             PROVE  [Arena!Next]_(Arena!vars)
  OBVIOUS
<1>1. ASSUME NEW size \in Sizes, Kmalloc(size)
      PROVE  Arena!Next
  BY <1>1, KmallocArena DEF Arena!Next
<1>2. ASSUME NEW b \in live, NEW links \in Leftovers, Kfree(b, links)
      PROVE  Arena!Next
  BY <1>2, KfreeArena DEF Arena!Next
<1>3. ASSUME NEW b \in live, KfreeRefused(b)
      PROVE  Arena!Next
  <2>1. TreeChunks' = TreeChunks /\ NodeRegions' = NodeRegions /\ live' = live \ {b}
    BY <1>3, ChunksStay DEF KfreeRefused
  <2>2. Arena!KfreeRefused(b)
    BY <2>1 DEF Arena!KfreeRefused
  <2> QED
    BY <2>2 DEF Arena!Next
<1>4. ASSUME heap_root' = heap_root, mem' = mem, live' = live
      PROVE  UNCHANGED Arena!vars
  BY <1>4, ChunksStay DEF Arena!vars
<1>5. ASSUME NEW size \in Sizes, KmallocFails(size)
      PROVE  UNCHANGED Arena!vars
  BY <1>4, <1>5 DEF KmallocFails, vars
<1>6. ASSUME NEW size \in Sizes, KmallocUndefined(size)
      PROVE  UNCHANGED Arena!vars
  BY <1>4, <1>6 DEF KmallocUndefined, GoesWild
<1>7. ASSUME NEW b \in live, NEW links \in Leftovers, KfreeUndefined(b, links)
      PROVE  UNCHANGED Arena!vars
  BY <1>4, <1>7 DEF KfreeUndefined, GoesWild
<1>8. CASE UNCHANGED vars
  BY <1>4, <1>8 DEF vars
<1> QED
  BY <1>1, <1>2, <1>3, <1>5, <1>6, <1>7, <1>8 DEF Next

(***************************************************************************)
(* The tree implements the arena of regions (module HeapArena): kmalloc only *)
(* hands out part of a chunk that some list of the tree describes, kfree   *)
(* only gives back what was handed out, and no lost chunk reappears.       *)
(***************************************************************************)
THEOREM HeapArenaSpec == Spec => ArenaSpec
<1>1. Init => Arena!Init
  BY InitArena
<1>2. HeapInv /\ [Next]_vars => [Arena!Next]_(Arena!vars)
  BY NextArena
<1> QED
  BY <1>1, <1>2, HeapInvariant, PTL DEF Spec, ArenaSpec, Arena!Spec

-----------------------------------------------------------------------------
(* The callers' view, without the arena in between. *)

Callers == INSTANCE Allocator

(* kmalloc hands out a block inside the arena and apart from all others. *)
LEMMA KmallocPromise ==
  ASSUME HeapInv, NEW size \in Sizes, Kmalloc(size)
  PROVE  Callers!Malloc(size)
<1>1. PICK T, up, rank, L : Holds(T, up, rank, L)
  BY DEF HeapInv, Holds
<1>2. PICK d : KmallocCuts(T, L, size, d)
  BY <1>1, KmallocStep DEF HeapInv
<1> DEFINE c == ChunkAt(mem, d)
           lo == c.lo + HDR
           block == [lo |-> lo, hi |-> lo + size]
<1>3. /\ d \in Elements(T, L) /\ AllocSize(size) <= c.hi - c.lo
      /\ live' = live \cup {[lo |-> c.lo + HDR, hi |-> c.lo + AllocSize(size)]}
  BY <1>2 DEF KmallocCuts, ChunkAt
<1>4. AllocSize(size) = size + HDR /\ size \in Nat
  BY AllocSizes
<1>5. /\ c \in Span /\ Base <= c.lo /\ c.lo <= c.hi /\ c.hi <= Limit
      /\ \A b \in live : b \in Span /\ Apart(b, c)
  BY <1>1, <1>3 DEF Holds, Regions, Chunks, Blocks, ChunkAt
<1>6. c.lo \in Nat /\ c.hi \in Nat /\ \A b \in live : b.lo \in Nat /\ b.hi \in Nat
  BY <1>5 DEF Span
<1> HIDE DEF c
<1>7. lo + size = c.lo + AllocSize(size) /\ lo + size <= c.hi /\ lo \in Base .. Limit
  BY <1>3, <1>4, <1>5, <1>6, Lengths
<1>8. live' = live \cup {block}
  BY <1>3, <1>7
<1>9. Callers!InHeap(block)
  BY <1>4, <1>5, <1>6, <1>7, Lengths DEF Callers!InHeap
<1>10. \A r \in live : Callers!Disjoint(block, r)
  BY <1>4, <1>5, <1>6, <1>7, Lengths DEF Callers!Disjoint, Apart
<1> QED
  BY <1>7, <1>8, <1>9, <1>10 DEF Callers!Malloc

(* Every step is one that callers are promised, or changes no block of theirs. *)
LEMMA NextPromise == HeapInv /\ [Next]_vars => [Callers!Next]_live
<1> SUFFICES ASSUME HeapInv, [Next]_vars, live' # live
             PROVE  Callers!Next
  OBVIOUS
<1>1. ASSUME NEW size \in Sizes, Kmalloc(size)
      PROVE  Callers!Next
  BY <1>1, KmallocPromise DEF Callers!Next
<1>2. ASSUME NEW b \in live, NEW links \in Leftovers, Kfree(b, links)
      PROVE  Callers!Next
  BY <1>2 DEF Kfree, Callers!Free, Callers!Next
<1>3. ASSUME NEW b \in live, KfreeRefused(b)
      PROVE  Callers!Next
  BY <1>3 DEF KfreeRefused, Callers!Free, Callers!Next
<1>4. ~UNCHANGED vars
  BY DEF vars
<1> QED
  BY <1>1, <1>2, <1>3, <1>4 DEF Next, KmallocFails, KmallocUndefined, KfreeUndefined, GoesWild

(***************************************************************************)
(* The tree keeps what Allocator promises callers: a block handed out is   *)
(* as long as was asked, lies in the arena and shares no byte with a block *)
(* that is still owned; freeing a block leaves all others alone.           *)
(***************************************************************************)
THEOREM HeapImplementsAllocator == Spec => Callers!Spec
<1>1. Init => Callers!Init
  BY DEF Init, Callers!Init
<1>2. HeapInv /\ [Next]_vars => [Callers!Next]_live
  BY NextPromise
<1> QED
  BY <1>1, <1>2, HeapInvariant, PTL DEF Spec, Callers!Spec
=============================================================================
