------------------------------- MODULE STree --------------------------------
(***************************************************************************)
(* cpp_console/stree.h: a tree whose nodes are linked by left_child and    *)
(* right_sibling, built from a helper that has been told the data of each  *)
(* key and the children of each parent. What the data is does not matter.  *)
(*                                                                         *)
(* A user tells each family once, and a child of one family only, as       *)
(* main.cpp does. Before a node without a parent has been built, root is   *)
(* not initialised. An operator Bad... is a mistake the code does not      *)
(* make.                                                                   *)
(***************************************************************************)
EXTENDS Naturals, FiniteSets, SequencesExt

CONSTANTS Keys, NULL

VARIABLES helper, \* _node_data (its keys) and _node_pos
          tree,   \* _nodes, the pointers of the nodes, and root
          fam,    \* the families told, in the order of their children
          builds, \* how often build has been called
          fresh   \* the helper has not changed since

vars == <<helper, tree, fam, builds, fresh>>

MaxBuilds == 2

(* Whatever root is, it is not read before a top node has been built. *)
NewTree ==
  LET nowhere == [k \in Keys |-> NULL] IN
  [nodes |-> {}, parent |-> nowhere, left_child |-> nowhere,
   right_sibling |-> nowhere, root |-> NULL]

NoPos == [parent |-> NULL, left |-> NULL, right |-> NULL]

Init ==
  /\ helper = [data |-> {}, pos |-> <<>>]
  /\ tree = NewTree
  /\ fam = <<>> /\ builds = 0 /\ fresh = FALSE

With(f, g) == [x \in DOMAIN f \cup DOMAIN g |-> IF x \in DOMAIN g THEN g[x] ELSE f[x]]

add_nodes(S) ==
  /\ S # {} /\ S \cap helper.data = {}
  /\ helper' = [helper EXCEPT !.data = @ \cup S]
  /\ fresh' = FALSE
  /\ UNCHANGED <<tree, fam, builds>>

(* The positions of the children in vec. *)
Positions(p, vec) ==
  [k \in ToSet(vec) |->
     LET i == CHOOSE i \in DOMAIN vec : vec[i] = k IN
     [parent |-> p,
      left |-> IF i > 1 THEN vec[i - 1] ELSE NULL,
      right |-> IF i < Len(vec) THEN vec[i + 1] ELSE NULL]]

(* The keys above k, k included. *)
RECURSIVE Above(_)
Above(k) == {k} \cup UNION {Above(p) : p \in {q \in DOMAIN fam : k \in ToSet(fam[q])}}

Child(k) == \E q \in DOMAIN fam : k \in ToSet(fam[q])

add_pos_info(p, vec) ==
  /\ vec # <<>>
  /\ p \notin DOMAIN fam
  /\ \A k \in ToSet(vec) : ~Child(k) /\ k \notin Above(p)
  /\ LET pos1 == IF p \in DOMAIN helper.pos THEN helper.pos ELSE With(helper.pos, [q \in {p} |-> NoPos])
     IN helper' = [helper EXCEPT !.pos = With(pos1, Positions(p, vec))]
  /\ fam' = With(fam, [q \in {p} |-> vec])
  /\ fresh' = FALSE
  /\ UNCHANGED <<tree, builds>>

-----------------------------------------------------------------------------
(* The chain of siblings from q on. *)
RECURSIVE Siblings(_, _)
Siblings(u, q) == IF q = NULL THEN <<>> ELSE <<q>> \o Siblings(u, u.right_sibling[q])

Children(u, n) == Siblings(u, u.left_child[n])

rightmost_child(u, p) == IF Children(u, p) = <<>> THEN NULL ELSE Last(Children(u, p))

BadAddChild(u, p, l, r, n) ==
  LET rc == rightmost_child(u, p)
      u1 == [u EXCEPT !.parent[n] = p]
  IN  IF p = NULL THEN [u EXCEPT !.root = n]
      ELSE IF rc # NULL THEN [u1 EXCEPT !.right_sibling[rc] = n]
      ELSE [u1 EXCEPT !.left_child[p] = n]

add_child(u, p, l, r, n) ==
  LET rc == rightmost_child(u, p)
      u1 == [u EXCEPT !.parent[n] = p]
  IN  IF p = NULL THEN [u EXCEPT !.root = n]
      ELSE IF l # NULL /\ r # NULL
           THEN [u1 EXCEPT !.right_sibling = [@ EXCEPT ![l] = n, ![n] = r]]
      ELSE IF l # NULL THEN [u1 EXCEPT !.right_sibling[l] = n]
      ELSE IF r # NULL THEN [u1 EXCEPT !.right_sibling[n] = r, !.left_child[p] = n]
      ELSE IF rc # NULL THEN [u1 EXCEPT !.right_sibling[rc] = n]
      ELSE [u1 EXCEPT !.left_child[p] = n]

(* set_node and get_node: the nodes of these keys, created where need be. *)
get_nodes(u, keys) == [u EXCEPT !.nodes = @ \cup (keys \ {NULL})]

add_node(u, pos, k) ==
  add_child(get_nodes(u, {k, pos.parent, pos.left, pos.right}),
            pos.parent, pos.left, pos.right, k)

(* The keys that have data and a position, in their order in the map. *)
build ==
  /\ builds < MaxBuilds
  /\ LET keys == SetToSortSeq(helper.data \cap DOMAIN helper.pos, <)
     IN tree' = FoldLeft(LAMBDA u, k : add_node(u, helper.pos[k], k), tree, keys)
  /\ builds' = builds + 1
  /\ fresh' = TRUE
  /\ UNCHANGED <<helper, fam>>

(* ~stree deletes the nodes; the next tree starts from the same helper. *)
destroy ==
  /\ builds > 0
  /\ tree' = NewTree /\ builds' = 0 /\ fresh' = FALSE
  /\ UNCHANGED <<helper, fam>>

Deeper(n, kids) == [i \in DOMAIN kids |-> <<n[1] + 1, kids[i]>>]

RECURSIVE DepthFrom(_, _)
DepthFrom(u, stack) ==
  IF stack = <<>> THEN <<>>
  ELSE LET n == Last(stack) IN
       <<n>> \o DepthFrom(u, Front(stack) \o Reverse(Deeper(n, Children(u, n[2]))))

RECURSIVE BreadthFrom(_, _)
BreadthFrom(u, que) ==
  IF que = <<>> THEN <<>>
  ELSE LET n == Head(que) IN
       <<n>> \o BreadthFrom(u, Tail(que) \o Deeper(n, Children(u, n[2])))

depth_traversal(u) == IF u.root = NULL THEN <<>> ELSE DepthFrom(u, <<<<0, u.root>>>>)
breadth_traversal(u) == IF u.root = NULL THEN <<>> ELSE BreadthFrom(u, <<<<0, u.root>>>>)

(* print, without its layout. *)
print == <<depth_traversal(tree), breadth_traversal(tree)>>

Next ==
  \/ build \/ destroy
  \/ \E S \in SUBSET Keys : add_nodes(S)
  \/ \E p \in Keys, vec \in SetToAllKPermutations(Keys) : add_pos_info(p, vec)

Spec == Init /\ [][Next]_vars

-----------------------------------------------------------------------------
(* The family tree below k in the order of a depth-first walk, with the    *)
(* depths from d on.                                                       *)
RECURSIVE Told(_, _)
Told(k, d) ==
  <<<<d, k>>>> \o (IF k \notin DOMAIN fam THEN <<>>
                   ELSE FlattenSeq([i \in DOMAIN fam[k] |-> Told(fam[k][i], d + 1)]))

Level(s, d) == SelectSeq(s, LAMBDA n : n[1] = d)

Tops == {k \in DOMAIN fam : ~Child(k)}
OnlyChild == \E p \in DOMAIN fam : Len(fam[p]) = 1

(* The tree that build links, in the order of the keys, whatever order     *)
(* families and children have, is the one the helper was told: print shows *)
(* the whole family tree of the greatest key without a parent, depth first *)
(* and level by level, every child knows its parent, and ~stree deletes    *)
(* every node that is shown. It holds too when a tree is built again from  *)
(* a helper that knows more by then, unless a node is an only child: build *)
(* would then link that node to itself. All nodes have to have data.       *)
TreeAsTold ==
  (fresh /\ fam # <<>> /\ DOMAIN helper.pos \subseteq helper.data /\ (builds = 1 \/ ~OnlyChild)) =>
     LET top == CHOOSE k \in Tops : \A j \in Tops : j <= k
         told == Told(top, 0)
     IN  /\ print = <<told, FlattenSeq([d \in 1 .. Cardinality(Keys) |-> Level(told, d - 1)])>>
         /\ {told[i][2] : i \in DOMAIN told} \subseteq tree.nodes
         /\ \A p \in DOMAIN fam : \A k \in ToSet(fam[p]) : tree.parent[k] = p
=============================================================================
