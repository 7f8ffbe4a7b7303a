-------------------------------- MODULE Heap --------------------------------
(***************************************************************************)
(* The kernel heap: kmalloc.c over tree_bst.c and dynlist.c.               *)
(*                                                                         *)
(* A heap_tree_node is written at the start of every block kmalloc hands   *)
(* out and at the start of every block kfree takes back.  It is three      *)
(* things at once: a node of a binary search tree keyed by chunk length    *)
(* (bst_node), an element of the list of the chunks that share that length *)
(* (dynlist) and the bounds of one free chunk and one allocated block      *)
(* (f_header, a_header).  All of them are named here by the address of the *)
(* heap_tree_node they sit in: pointerlist.e always points to the f_header *)
(* of its own node, so it is not kept.                                     *)
(*                                                                         *)
(* The operators take and return a tree state t = [root, mem, wild]: the   *)
(* variable heap_root, the nodes in memory by address, and whether a       *)
(* pointer that designates no node has been followed.  Once that happens   *)
(* the C program is undefined and the model stops.                         *)
(***************************************************************************)
EXTENDS Integers, FiniteSets

CONSTANTS
  HDR,      \* sizeof(heap_tree_node)
  Root,     \* address of heap_tree_root, outside the arena
  Base,     \* first address of the arena, 0x150000
  Limit,    \* first address behind it, 0x150000 + 1048576
  Word,     \* uint32_t arithmetic is modulo Word
  Sizes,    \* lengths the callers ask for
  Junk,     \* what a caller may leave in a word that kfree does not assign
  Leftovers \* what callers leave in the three links kfree does not assign

Null == 0

ASSUME HeapAssumption ==
  /\ HDR \in Nat \ {0}
  /\ Root \in Nat \ {Null}
  /\ Base \in Nat /\ Limit \in Nat /\ Word \in Nat
  /\ Root + HDR <= Base
  /\ Base < Limit
  /\ Limit < Word
  /\ Sizes \subseteq 0 .. Word - 1
  /\ Null \in Junk

(***************************************************************************)
(* What callers do: a block has room for the node that kfree writes into   *)
(* it, and the words they leave in a block are not the address of a node.  *)
(***************************************************************************)
ASSUME CallersAssumption ==
  /\ \A size \in Sizes : HDR <= size /\ size + HDR < Word
  /\ Junk \subseteq 0 .. Word - 1
  /\ Leftovers \subseteq [parent : Junk, left : Junk, right : Junk]
  /\ \A junk \in Junk : junk # Root /\ junk \notin Base .. Limit - 1

VARIABLES
  heap_root,  \* the pointer of that name
  mem,        \* the heap_tree_nodes written so far: address -> node
  wild,       \* a pointer to no node has been followed
  live,       \* blocks the callers own, [lo, hi)
  avail       \* history: chunks given to the heap and not handed out since

vars == <<heap_root, mem, wild, live, avail>>

Heap == [root |-> heap_root, mem |-> mem, wild |-> wild]

-----------------------------------------------------------------------------
(* Pointers.  A bst_node ** is a link: the variable heap_root, or the left *)
(* or right field of a node.                                               *)

RootLink == <<Null, "root">>

IsNode(t, a) == a \in DOMAIN t.mem

Deref(t, link) == IF link = RootLink THEN t.root ELSE t.mem[link[1]][link[2]]

Store(t, a, node) ==
  [t EXCEPT !.mem = [x \in DOMAIN t.mem \cup {a} |-> IF x = a THEN node ELSE t.mem[x]]]

SetField(t, a, field, value) == [t EXCEPT !.mem[a][field] = value]

SetLink(t, link, a) ==
  IF link = RootLink THEN [t EXCEPT !.root = a] ELSE SetField(t, link[1], link[2], a)

Undefined(t) == [t EXCEPT !.wild = TRUE]

-----------------------------------------------------------------------------
(* dynlist.c.  The list header is the data field of tree node n. *)

dynlist_prepend(t, n, new) ==
  LET old  == t.mem[n].data
      prev == t.mem[old].prev
      t1   == IF prev = Null THEN t
              ELSE SetField(SetField(t, prev, "next", new), new, "prev", prev)
  IN IF old = Null
     THEN SetField(SetField(SetField(t, n, "data", new), new, "next", Null), new, "prev", Null)
     ELSE SetField(SetField(SetField(t1, new, "next", old), old, "prev", new), n, "data", new)

(* Mutant of dynlist_del: the new first element keeps its prev. *)
dynlist_del_KeepsPrev(t, n) ==
  LET d == t.mem[n].data
  IN SetField(IF t.mem[d].prev = Null THEN t
              ELSE SetField(t, t.mem[d].prev, "next", t.mem[d].next),
              n, "data", t.mem[d].next)

dynlist_del(t, n) ==
  LET d    == t.mem[n].data
      prev == t.mem[d].prev
      next == t.mem[d].next
      t1   == IF prev = Null THEN t ELSE SetField(t, prev, "next", next)
      t2   == IF next = Null THEN t1 ELSE SetField(t1, next, "prev", prev)
  IN SetField(t2, n, "data", next)

-----------------------------------------------------------------------------
(* tree_bst.c.  Every walk starts at heap_root and turns left at a larger  *)
(* key, right at a smaller one.  It stops at the link to the match, to     *)
(* nothing, or to no node at all, and remembers the last larger node.      *)

Links(t) == {RootLink} \cup ((DOMAIN t.mem) \X {"left", "right"})

Walk(t, key) ==
  LET from[at \in [link : Links(t), larger : DOMAIN t.mem \cup {Null}]] ==
        LET n == Deref(t, at.link)
        IN IF ~IsNode(t, n) \/ t.mem[n].key = key THEN at
           ELSE IF key > t.mem[n].key THEN from[[link |-> <<n, "right">>, larger |-> at.larger]]
           ELSE from[[link |-> <<n, "left">>, larger |-> n]]
  IN from[[link |-> RootLink, larger |-> Null]]

(* The walk has left the tree through a pointer that is not one. *)
Strays(t, key) == LET n == Deref(t, Walk(t, key).link) IN n # Null /\ ~IsNode(t, n)

bst_insert(t, key) == Walk(t, key).link

bst_search_smallest_ge(t, key) ==
  LET walk  == Walk(t, key)
      match == Deref(t, walk.link)
  IN IF IsNode(t, match) THEN match ELSE walk.larger

bst_find_min(t, start) ==
  LET from[link \in Links(t)] ==
        LET n == Deref(t, link)
        IN IF ~IsNode(t, n) \/ t.mem[n].left = Null THEN link ELSE from[<<n, "left">>]
  IN from[start]

(* The node at the link gives way to new; a parent pointer, if there is    *)
(* one, decides which field changes.                                       *)
bst_replace_node_in_parent(t, link, new) ==
  LET n      == Deref(t, link)
      parent == t.mem[n].parent
      t1     == IF parent = Null THEN SetLink(t, link, new)
                ELSE IF n = t.mem[parent].left THEN SetField(t, parent, "left", new)
                ELSE SetField(t, parent, "right", new)
  IN IF parent # Null /\ ~IsNode(t, parent) THEN Undefined(t)
     ELSE IF new = Null THEN t1
     ELSE IF ~IsNode(t, new) THEN Undefined(t)
     ELSE SetField(t1, new, "parent", t1.mem[Deref(t1, link)].parent)

(* A node with at most one child is unlinked. *)
UnlinkNode(t, link) ==
  LET n == t.mem[Deref(t, link)]
  IN bst_replace_node_in_parent(t, link, IF n.left # Null THEN n.left ELSE n.right)

(* Mutant of bst_delete_node: the successor takes over both links, and so  *)
(* points to itself when it is the right child.                            *)
bst_delete_node_LinksSuccessor(t, key) ==
  LET link == bst_insert(t, key)
      n    == Deref(t, link)
      s    == Deref(t, bst_find_min(t, <<n, "right">>))
  IN IF n = Null THEN t
     ELSE IF ~IsNode(t, n) THEN Undefined(t)
     ELSE IF t.mem[n].left = Null \/ t.mem[n].right = Null THEN UnlinkNode(t, link)
     ELSE bst_replace_node_in_parent(
            [t EXCEPT !.mem[s].left = t.mem[n].left, !.mem[s].right = t.mem[n].right], link, s)

(* A node with two children takes over the key of the smallest node on its *)
(* right, and that node is unlinked.                                       *)
bst_delete_node(t, key) ==
  LET link  == bst_insert(t, key)
      n     == Deref(t, link)
      succ  == bst_find_min(t, <<n, "right">>)
      s     == Deref(t, succ)
  IN IF n = Null THEN t
     ELSE IF ~IsNode(t, n) THEN Undefined(t)
     ELSE IF t.mem[n].left = Null \/ t.mem[n].right = Null THEN UnlinkNode(t, link)
     ELSE IF ~IsNode(t, s) THEN Undefined(t)
     ELSE UnlinkNode(SetField(t, n, "key", t.mem[s].key), succ)
-----------------------------------------------------------------------------
(* kmalloc.c *)

prepare_bst_node(t, htn, a_size, f_start, f_size) ==
  Store(t, htn,
    [parent |-> Null, left |-> Null, right |-> Null, key |-> f_size, data |-> htn,
     next |-> Null, prev |-> Null,
     f_ptr |-> f_start, f_end |-> (f_start + f_size) % Word,
     a_ptr |-> htn + HDR, a_end |-> htn + (IF a_size = 0 THEN HDR ELSE a_size)])

heap_add_chunk(t, f_size, newnode) ==
  LET link == bst_insert(t, f_size)
      n    == Deref(t, link)
  IN IF Strays(t, f_size) THEN Undefined(t)
     ELSE IF n = Null THEN SetLink(t, link, newnode)
     ELSE dynlist_prepend(t, n, newnode)

(* kmemcpy(old_node, *f_node, sizeof(bst_node)): the bst_node part of n. *)
CopyNode(t, to, n) ==
  [t EXCEPT !.mem[to] =
     [@ EXCEPT !.parent = t.mem[n].parent, !.left = t.mem[n].left, !.right = t.mem[n].right,
               !.key = t.mem[n].key, !.data = t.mem[n].data]]

(* Mutant of DropNode: the deleted node keeps its key. *)
DropNodeKeepsKey(t, old, f_size, f_node) ==
  IF old # t.root THEN bst_delete_node(t, t.mem[old].key)
  ELSE IF f_size = 0 THEN Undefined(t)
  ELSE CopyNode(t, old, Deref(t, f_node))

(* Mutant of DropNode: every node is overwritten by the remainder's. *)
DropNodeOverwrites(t, old, f_size, f_node) ==
  IF f_size = 0 THEN Undefined(t) ELSE CopyNode(t, old, Deref(t, f_node))

(***************************************************************************)
(* The list of old has become empty.  The root is overwritten with the     *)
(* node that the remainder went to; f_node was assigned only when there is *)
(* a remainder.  Any other node is deleted by its key, then loses its key. *)
(***************************************************************************)
DropNode(t, old, f_size, f_node) ==
  IF old = t.root
  THEN IF f_size = 0 THEN Undefined(t) ELSE CopyNode(t, old, Deref(t, f_node))
  ELSE SetField(bst_delete_node(t, t.mem[old].key), old, "key", 0)

(* kmalloc once a node has been found: [t, start of the chunk, its length]. *)
TakeChunk(t, old, alloc_size) ==
  LET start  == t.mem[t.mem[old].data].f_ptr
      f_size == (t.mem[old].key - alloc_size) % Word
      t1     == prepare_bst_node(t, start, alloc_size, start + alloc_size, f_size)
      f_node == bst_insert(t1, f_size)
      t2     == IF f_size = 0 THEN t1 ELSE heap_add_chunk(t1, f_size, start)
      t3     == dynlist_del(t2, old)
  IN [start |-> start, f_size |-> f_size,
      t |-> IF t2.wild THEN t2
            ELSE IF t3.mem[old].data # Null THEN t3
            ELSE DropNode(t3, old, f_size, f_node)]

(* Mutant of AllocSize: the node in front of the block is forgotten. *)
AllocSizeWithoutNode(size) == size

AllocSize(size) == (size + HDR) % Word
-----------------------------------------------------------------------------
(* heap_init: the root describes the whole arena as one free chunk. *)
Init ==
  /\ heap_root = Root
  /\ mem = prepare_bst_node([root |-> Root, mem |-> <<>>, wild |-> FALSE],
                            Root, 0, Base, Limit - Base).mem
  /\ wild = FALSE
  /\ live = {}
  /\ avail = {[lo |-> Base, hi |-> Limit]}

Install(t) ==
  /\ heap_root' = t.root
  /\ mem' = t.mem
  /\ UNCHANGED wild

(* A pointer that designates no node has been followed. *)
GoesWild ==
  /\ wild' = TRUE
  /\ UNCHANGED <<heap_root, mem, live, avail>>

(* kmalloc finds no node with a large enough key, or a node whose list is  *)
(* empty ("heap corruption! Zombie BST node"), and returns 0.              *)
KmallocFails(size) ==
  LET old == bst_search_smallest_ge(Heap, AllocSize(size))
  IN /\ ~wild
     /\ ~Strays(Heap, AllocSize(size))
     /\ old # Null => mem[old].data = Null
     /\ UNCHANGED vars

Kmalloc(size) ==
  LET old  == bst_search_smallest_ge(Heap, AllocSize(size))
      took == TakeChunk(Heap, old, AllocSize(size))
      rest == [lo |-> took.start + AllocSize(size),
               hi |-> took.start + AllocSize(size) + took.f_size]
  IN /\ ~wild
     /\ ~Strays(Heap, AllocSize(size))
     /\ old # Null
     /\ mem[old].data # Null
     /\ ~took.t.wild
     /\ Install(took.t)
     /\ live' = live \cup {[lo |-> took.start + HDR, hi |-> took.start + AllocSize(size)]}
     /\ avail' = {c \in avail : c.lo # took.start} \cup (IF took.f_size = 0 THEN {} ELSE {rest})

(* The search, or the rebuilding of the tree, follows a bad pointer. *)
KmallocUndefined(size) ==
  LET old == bst_search_smallest_ge(Heap, AllocSize(size))
  IN /\ ~wild
     /\ IF Strays(Heap, AllocSize(size)) THEN TRUE
        ELSE IF old = Null THEN FALSE
        ELSE mem[old].data # Null /\ TakeChunk(Heap, old, AllocSize(size)).t.wild
     /\ GoesWild

(***************************************************************************)
(* kfree of a block the caller owns.  The new node is written over the     *)
(* start of the block; its left, right and parent fields are not assigned, *)
(* so each of them keeps the word the caller left there.  The key is       *)
(* recomputed from the a_header in front of the block.                     *)
(***************************************************************************)
GiveBack(b, links) ==
  LET htn == mem[b.lo - HDR]
      key == (htn.a_end - htn.a_ptr - HDR) % Word
      new == [parent |-> links.parent, left |-> links.left, right |-> links.right,
              key |-> key, data |-> b.lo,
              next |-> Null, prev |-> Null,
              f_ptr |-> b.lo + HDR, f_end |-> htn.a_end, a_ptr |-> Null, a_end |-> Null]
  IN heap_add_chunk(Store(Heap, b.lo, new), key, b.lo)

Kfree(b, links) ==
  LET t == GiveBack(b, links)
  IN /\ ~wild
     /\ mem[b.lo - HDR].data # Null
     /\ ~t.wild
     /\ Install(t)
     /\ live' = live \ {b}
     /\ avail' = avail \cup {[lo |-> b.lo + HDR, hi |-> mem[b.lo - HDR].a_end]}

KfreeUndefined(b, links) ==
  /\ ~wild
  /\ mem[b.lo - HDR].data # Null
  /\ GiveBack(b, links).wild
  /\ GoesWild

(* "kfree: error, dynlist is NULL": kfree returns and takes nothing back. *)
KfreeRefused(b) ==
  /\ ~wild
  /\ mem[b.lo - HDR].data = Null
  /\ live' = live \ {b}
  /\ UNCHANGED <<heap_root, mem, wild, avail>>

Next ==
  \/ \E size \in Sizes : KmallocFails(size)
  \/ \E size \in Sizes : Kmalloc(size)
  \/ \E size \in Sizes : KmallocUndefined(size)
  \/ \E b \in live, links \in Leftovers : Kfree(b, links)
  \/ \E b \in live, links \in Leftovers : KfreeUndefined(b, links)
  \/ \E b \in live : KfreeRefused(b)

Spec == Init /\ [][Next]_vars
-----------------------------------------------------------------------------
(* What the tree describes. *)

Closure(S, Succ(_)) ==
  LET from[seen \in SUBSET DOMAIN mem] ==
        LET more == seen \cup UNION {Succ(a) : a \in seen}
        IN IF more = seen THEN seen ELSE from[more]
  IN from[S]

Children(n) == {mem[n].left, mem[n].right} \cap DOMAIN mem

Following(d) == {mem[d].next} \cap DOMAIN mem

(* The nodes linked from heap_root. *)
TreeNodes == Closure({heap_root}, Children)

(* The elements of the list of tree node n. *)
ListOf(n) == Closure({mem[n].data} \ {Null}, Following)

Chunk(d) == [lo |-> mem[d].f_ptr, hi |-> mem[d].f_end]

TreeChunks == {Chunk(d) : d \in UNION {ListOf(n) : n \in TreeNodes}}

NodeRegions == {[lo |-> a, hi |-> a + HDR] : a \in DOMAIN mem \ {Root}}

-----------------------------------------------------------------------------
(***************************************************************************)
(* The heap's regions behave as module HeapArena says: kmalloc only ever   *)
(* hands out part of a chunk that some list of the tree describes, kfree   *)
(* only gives back what was handed out, and a chunk never reappears.       *)
(***************************************************************************)
Arena == INSTANCE HeapArena WITH free <- TreeChunks, nodes <- NodeRegions

ArenaSpec == Arena!Spec

(***************************************************************************)
(* The list of a tree node is doubly linked: following next and then prev  *)
(* comes back, the first element has no prev (dynlist_prepend and          *)
(* dynlist_del rely on it), and no element is on two lists.  Every chunk   *)
(* on it has the length the node's key says, so kmalloc's f_size is what   *)
(* is really left of the chunk (old_node->key - alloc_size, kmalloc.c).    *)
(***************************************************************************)
ListsWellFormed ==
  LET lists == {<<n, ListOf(n)>> : n \in TreeNodes}
  IN \A l \in lists :
       /\ mem[l[1]].data # Null => mem[mem[l[1]].data].prev = Null
       /\ \A d \in l[2] :
            /\ mem[d].next # Null => mem[mem[d].next].prev = d
            /\ mem[d].f_end - mem[d].f_ptr = mem[l[1]].key
       /\ \A m \in lists : m[1] # l[1] => m[2] \cap l[2] = {}

(***************************************************************************)
(* The tree stays a tree: no node has two links to it, the root has none,  *)
(* so every walk of tree_bst.c ends.                                       *)
(***************************************************************************)
TreeShaped ==
  LET links == {<<n, side>> : n \in TreeNodes, side \in {"left", "right"}}
  IN /\ \A l \in links : mem[l[1]][l[2]] # heap_root
     /\ \A l, m \in links :
          l # m /\ mem[l[1]][l[2]] \in DOMAIN mem => mem[l[1]][l[2]] # mem[m[1]][m[2]]

(***************************************************************************)
(* "heap corruption! Zombie BST node" is never reported: deletion can      *)
(* leave nodes without a list in the tree, but no request finds one.       *)
(***************************************************************************)
NoZombieFound ==
  \A size \in Sizes :
    LET n == bst_search_smallest_ge(Heap, AllocSize(size))
    IN ~wild /\ ~Strays(Heap, AllocSize(size)) /\ n # Null => mem[n].data # Null

(* A caller's data stands where a node in memory has a link. *)
LinkUnassigned == \E a \in DOMAIN mem :
  \E link \in {mem[a].left, mem[a].right, mem[a].parent} : link # Null /\ ~IsNode(Heap, link)

(* The only chunk of the root has exactly the length of a request. *)
ExactFitAtRoot == \E size \in Sizes :
  /\ bst_search_smallest_ge(Heap, AllocSize(size)) = heap_root
  /\ mem[heap_root].key = AllocSize(size)
  /\ mem[mem[heap_root].data].next = Null

(***************************************************************************)
(* A pointer to no node is only followed for one of two reasons: kfree has *)
(* left a caller's data in a link, or kmalloc overwrites the root through  *)
(* f_node, which it has not assigned because the root's only chunk was     *)
(* used up to the last byte.                                               *)
(***************************************************************************)
UndefinedOnlyThen == [][~wild /\ wild' => LinkUnassigned \/ ExactFitAtRoot]_vars
-----------------------------------------------------------------------------
(***************************************************************************)
(* A statement of the sources about the heap that the code does not keep.  *)
(***************************************************************************)

(* kmalloc.c: "we could not find any, no memory available": a request only *)
(* returns 0 when no chunk the heap owns is long enough.                   *)
FailsOnlyWhenFull ==
  \A size \in Sizes :
    ~wild /\ bst_search_smallest_ge(Heap, AllocSize(size)) = Null
      => \A c \in avail : c.hi - c.lo < AllocSize(size)
=============================================================================
