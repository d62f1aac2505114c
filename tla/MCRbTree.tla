------------------------------ MODULE MCRbTree ------------------------------
(***************************************************************************)
(* The containers of the event loop, one at a time: the lists of its       *)
(* events and the tree of its timers.                                      *)
(*                                                                         *)
(* Trees of the first Free nodes are built in every way. A larger tree,    *)
(* up to all of the nodes, is built by adding the nodes in their order and *)
(* then taken apart in every way: the removal loop takes a second turn     *)
(* only in trees that have been this large. Nodes 3 and 5 share one time.  *)
(***************************************************************************)
EXTENDS ListHead, SequencesExt

CONSTANTS Nodes, Keys, Free

VARIABLES t, key, aug, container

treeVars == <<t, key, aug>>

Tree == INSTANCE RbTree

MCNodes == 1 .. 11
MCKeys == [n \in MCNodes |-> IF n \in {3, 5} THEN {5} ELSE {n}]

(* What may be added to a tree of the nodes g, and what be replaced in it. *)
MayAdd(g) == {n \in Nodes \ g : g \cup {n} \subseteq 1 .. Free \/ g = 1 .. (n - 1)}
MayReplace(g) == {n \in g : g \ {n} \subseteq 1 .. Free}

TreeNext ==
  LET grown == ToSet(Tree!InOrder) IN
  \/ \E n \in MayAdd(grown) : Tree!Add(n)
  \/ \E n \in grown : Tree!Erase(n)
  \/ \E n \in MayReplace(grown), new \in (1 .. Free) \ grown : Tree!Replace(n, new)

MCInit == Init /\ Tree!Init /\ container \in {"rbtree", "list"}

MCNext ==
  \/ container = "rbtree" /\ TreeNext /\ UNCHANGED <<vars, container>>
  \/ container = "list" /\ Next /\ UNCHANGED <<treeVars, container>>

MCSpec == MCInit /\ [][MCNext]_<<vars, treeVars, container>>

-----------------------------------------------------------------------------
(* After every operation of rbtree.c the tree is red-black and its parent  *)
(* pointers lead back to the parents (RbTree).                             *)
RedBlack == Tree!RedBlack

(* rb_first, rb_last, rb_next and rb_prev walk the nodes in order (RbTree). *)
WalksInOrder == Tree!WalksInOrder

(* The rb_augment_... functions keep the users' data right (RbTree). *)
AugmentRight == Tree!AugmentRight

(* The tree is the ordered list that the event loop takes it for (RbTree). *)
TimeListSpec == Tree!TimeListSpec
=============================================================================
