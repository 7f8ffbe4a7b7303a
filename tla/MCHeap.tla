------------------------------- MODULE MCHeap -------------------------------
(***************************************************************************)
(* Instances of Heap for TLC.  Lengths are counted in units of one         *)
(* heap_tree_node (48 bytes), so HDR = 1.                                  *)
(***************************************************************************)
EXTENDS Heap

(* Addresses at which no heap_tree_node is ever written. *)
AnyJunk == {Null, Word - 1, Word - 2, Word - 3}

(* A caller has not touched the links its block will hold, *)
Untouched == {[parent |-> Null, left |-> Null, right |-> Null]}

(* ... or has stored data there, another word in each. *)
AnyLeftovers ==
  Untouched \cup {[parent |-> Word - 1, left |-> Word - 2, right |-> Word - 3]}
=============================================================================
