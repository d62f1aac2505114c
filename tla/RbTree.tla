------------------------------- MODULE RbTree -------------------------------
(***************************************************************************)
(* network/wba_event/rbtree.c at the level of its pointers, with the       *)
(* insertion of event_add_timeout. Left and right are one operator with a  *)
(* side, the code's two halves being mirror images.                        *)
(*                                                                         *)
(* A tree t holds the fields of every node: t.ch["left"], t.ch["right"],   *)
(* t.par, t.red, and t.root. aug is what a user of rb_augment_... keeps in *)
(* the nodes, here the size of the subtree. An operator Bad... is a        *)
(* mistake the code does not make.                                         *)
(***************************************************************************)
EXTENDS Naturals, FiniteSets, SequencesExt

CONSTANTS Nodes, NULL,
          Keys    \* per node, the times it may be added for

VARIABLES t, key, aug

vars == <<t, key, aug>>

Side == {"left", "right"}
Other(s) == IF s = "left" THEN "right" ELSE "left"

IsRed(u, n) == n # NULL /\ u.red[n]
Painted(u, n, red) == [u EXCEPT !.red[n] = red]
SideOf(u, parent, n) == IF u.ch["left"][parent] = n THEN "left" ELSE "right"

(* The link to the child n of parent, or the root, now leads to new. *)
Relinked(u, parent, n, new) ==
  IF parent = NULL THEN [u EXCEPT !.root = new]
  ELSE [u EXCEPT !.ch[SideOf(u, parent, n)][parent] = new]

SetParent(u, n, p) == IF n = NULL THEN u ELSE [u EXCEPT !.par[n] = p]

(* __rb_rotate_left, __rb_rotate_right: n goes down on side s. *)
rb_rotate(u, n, s) ==
  LET up == u.ch[Other(s)][n]
      inner == u.ch[s][up]
      u1 == SetParent([u EXCEPT !.ch[Other(s)][n] = inner, !.ch[s][up] = n], inner, n)
      u2 == Relinked(u1, u.par[n], n, up)
  IN  [u2 EXCEPT !.par[up] = u.par[n], !.par[n] = up]

RECURSIVE rb_insert_color(_, _)
rb_insert_color(u, n) ==
  LET parent == u.par[n] IN
  IF ~IsRed(u, parent) THEN Painted(u, u.root, FALSE)
  ELSE
    LET g == u.par[parent]
        s == SideOf(u, g, parent)
        uncle == u.ch[Other(s)][g]
        inside == u.ch[Other(s)][parent] = n
        u1 == IF inside THEN rb_rotate(u, parent, s) ELSE u
        top == IF inside THEN n ELSE parent
        low == IF inside THEN parent ELSE n
    IN  IF IsRed(u, uncle)
        THEN rb_insert_color(
               Painted(Painted(Painted(u, uncle, FALSE), parent, FALSE), g, TRUE), g)
        ELSE rb_insert_color(
               rb_rotate(Painted(Painted(u1, top, FALSE), g, TRUE), g, Other(s)), low)

BadEraseColor(u, n, parent) == IF n = NULL THEN u ELSE Painted(u, n, FALSE)

RECURSIVE rb_erase_color(_, _, _)
rb_erase_color(u, n, parent) ==
  IF IsRed(u, n) \/ n = u.root THEN IF n = NULL THEN u ELSE Painted(u, n, FALSE)
  ELSE
    LET s == SideOf(u, parent, n)
        o == Other(s)
        sib == u.ch[o][parent]
        u1 == IF IsRed(u, sib)
              THEN rb_rotate(Painted(Painted(u, sib, FALSE), parent, TRUE), parent, s) ELSE u
        sib1 == u1.ch[o][parent]
        near == u1.ch[s][sib1]
        far == u1.ch[o][sib1]
        u2 == IF ~IsRed(u1, far)
              THEN rb_rotate(Painted(Painted(u1, near, FALSE), sib1, TRUE), sib1, o) ELSE u1
        sib2 == u2.ch[o][parent]
        u3 == Painted(Painted(Painted(u2, sib2, u2.red[parent]), parent, FALSE),
                      u2.ch[o][sib2], FALSE)
        u4 == rb_rotate(u3, parent, s)
    IN  IF ~IsRed(u1, near) /\ ~IsRed(u1, far)
        THEN rb_erase_color(Painted(u1, sib1, TRUE), parent, u1.par[parent])
        ELSE Painted(u4, u4.root, FALSE)

(* As far as one can go down on side s. *)
RECURSIVE Deepest(_, _, _)
Deepest(u, n, s) == IF u.ch[s][n] = NULL THEN n ELSE Deepest(u, u.ch[s][n], s)

(* rb_init_node. A node that left the tree has its fields set by           *)
(* rb_link_node before they are read again; the model forgets them.        *)
rb_init_node(u, n) ==
  [u EXCEPT !.par[n] = n, !.red[n] = TRUE, !.ch["left"][n] = NULL, !.ch["right"][n] = NULL]

(* A node with one child or none: the child takes its place. *)
EraseOuter(u, n) ==
  LET child == IF u.ch["left"][n] = NULL THEN u.ch["right"][n] ELSE u.ch["left"][n]
      u1 == Relinked(SetParent(u, child, u.par[n]), u.par[n], n, child)
  IN  IF u.red[n] THEN u1 ELSE rb_erase_color(u1, child, u.par[n])

(* A node with two: its successor takes its place and its colour. *)
EraseInner(u, old) ==
  LET n == Deepest(u, u.ch["right"][old], "left")
      child == u.ch["right"][n]
      parent == IF u.par[n] = old THEN n ELSE u.par[n]
      u1 == Relinked(u, u.par[old], old, n)
      u2 == IF parent = n THEN u1
            ELSE [SetParent(u1, child, parent) EXCEPT
                    !.ch["left"][parent] = child,
                    !.ch["right"][n] = u.ch["right"][old],
                    !.par[u.ch["right"][old]] = n]
      u3 == [u2 EXCEPT !.par[n] = u.par[old], !.red[n] = u.red[old],
                       !.ch["left"][n] = u.ch["left"][old],
                       !.par[u.ch["left"][old]] = n]
  IN  IF u.red[n] THEN u3 ELSE rb_erase_color(u3, child, parent)

rb_erase(u, n) ==
  IF NULL \in {u.ch["left"][n], u.ch["right"][n]} THEN EraseOuter(u, n) ELSE EraseInner(u, n)

rb_replace_node(u, victim, new) ==
  LET u1 == Relinked(u, u.par[victim], victim, new)
      u2 == SetParent(SetParent(u1, u.ch["left"][victim], new), u.ch["right"][victim], new)
  IN  [u2 EXCEPT !.par[new] = u.par[victim], !.red[new] = u.red[victim],
                 !.ch["left"][new] = u.ch["left"][victim],
                 !.ch["right"][new] = u.ch["right"][victim]]

rb_first(u) == IF u.root = NULL THEN NULL ELSE Deepest(u, u.root, "left")
rb_last(u) == IF u.root = NULL THEN NULL ELSE Deepest(u, u.root, "right")

(* Up from n, as long as it is a child on side s. *)
RECURSIVE Ascent(_, _, _)
Ascent(u, n, s) ==
  LET parent == u.par[n] IN
  IF parent # NULL /\ u.ch[s][parent] = n THEN Ascent(u, parent, s) ELSE parent

BadNeighbour(u, n, s) ==
  IF u.ch[s][n] # NULL THEN Deepest(u, u.ch[s][n], Other(s)) ELSE u.par[n]

(* rb_next (s = "right") and rb_prev (s = "left"). *)
Neighbour(u, n, s) ==
  CASE u.par[n] = n -> NULL
    [] u.par[n] # n /\ u.ch[s][n] # NULL -> Deepest(u, u.ch[s][n], Other(s))
    [] u.par[n] # n /\ u.ch[s][n] = NULL -> Ascent(u, n, s)

-----------------------------------------------------------------------------
(* The callback of a user that keeps subtree sizes in the nodes. *)
SizeIn(a, n) == IF n = NULL THEN 0 ELSE a[n]
Update(u, a, n) == [a EXCEPT ![n] = 1 + SizeIn(a, u.ch["left"][n]) + SizeIn(a, u.ch["right"][n])]

(* From n up to the root, each node and the child beside the path. *)
RECURSIVE rb_augment_path(_, _, _)
rb_augment_path(u, a, n) ==
  LET a1 == Update(u, a, n)
      parent == u.par[n]
      left == u.ch["left"][parent]
      right == u.ch["right"][parent]
      a2 == CASE n = left /\ right # NULL -> Update(u, a1, right)
              [] ~(n = left /\ right # NULL) /\ left # NULL -> Update(u, a1, left)
              [] left = NULL -> a1
  IN  IF parent = NULL THEN a1 ELSE rb_augment_path(u, a2, parent)

rb_augment_insert(u, a, n) ==
  rb_augment_path(u, a, CASE u.ch["left"][n] # NULL -> u.ch["left"][n]
                          [] u.ch["left"][n] = NULL /\ u.ch["right"][n] # NULL -> u.ch["right"][n]
                          [] OTHER -> n)

BadEraseBegin(u, n) ==
  IF u.ch["right"][n] = NULL /\ u.ch["left"][n] = NULL THEN u.par[n]
  ELSE IF u.ch["right"][n] = NULL THEN u.ch["left"][n] ELSE u.ch["right"][n]

(* The deepest node of the rebalance path that is still there after n has  *)
(* been removed.                                                           *)
rb_augment_erase_begin(u, n) ==
  LET left == u.ch["left"][n]
      right == u.ch["right"][n]
      next == Neighbour(u, n, "right")
  IN  CASE right = NULL /\ left = NULL -> u.par[n]
        [] right = NULL /\ left # NULL -> left
        [] right # NULL /\ left = NULL -> right
        [] right # NULL /\ left # NULL ->
             CASE u.ch["right"][next] # NULL -> u.ch["right"][next]
               [] u.ch["right"][next] = NULL /\ u.par[next] # n -> u.par[next]
               [] u.ch["right"][next] = NULL /\ u.par[next] = n -> next

rb_augment_erase_end(u, a, n) == IF n = NULL THEN a ELSE rb_augment_path(u, a, n)

-----------------------------------------------------------------------------
RECURSIVE InOrderFrom(_, _)
InOrderFrom(u, n) ==
  IF n = NULL THEN <<>>
  ELSE InOrderFrom(u, u.ch["left"][n]) \o <<n>> \o InOrderFrom(u, u.ch["right"][n])

InOrder == InOrderFrom(t, t.root)
InTree(n) == n \in ToSet(InOrder)

(* RB_ROOT, with every node as rb_init_node leaves it. *)
Init ==
  /\ t = [root |-> NULL,
          par |-> [n \in Nodes |-> n],
          red |-> [n \in Nodes |-> TRUE],
          ch |-> [s \in Side |-> [n \in Nodes |-> NULL]]]
  /\ key = [n \in Nodes |-> 0]
  /\ aug = [n \in Nodes |-> 0]

BadTurn(k, n, at) == IF k[n] <= k[at] THEN "left" ELSE "right"

(* The comparison of event_add_timeout: left only before a later node. *)
Turn(k, n, at) == IF k[n] < k[at] THEN "left" ELSE "right"

(* The node below which its loop, now at at, links n. *)
RECURSIVE Descent(_, _, _, _, _)
Descent(u, k, n, at, parent) ==
  IF at = NULL THEN parent ELSE Descent(u, k, n, u.ch[Turn(k, n, at)][at], at)

rb_link_node(u, k, n, parent) ==
  LET u1 == [u EXCEPT !.par[n] = parent, !.red[n] = TRUE,
                      !.ch["left"][n] = NULL, !.ch["right"][n] = NULL]
  IN  IF parent = NULL THEN [u1 EXCEPT !.root = n]
      ELSE [u1 EXCEPT !.ch[Turn(k, n, parent)][parent] = n]

Add(n) ==
  /\ ~InTree(n)
  /\ \E k \in Keys[n] : key' = [key EXCEPT ![n] = k]
  /\ t' = rb_insert_color(rb_link_node(t, key', n, Descent(t, key', n, t.root, NULL)), n)
  /\ aug' = rb_augment_insert(t', aug, n)

Erase(n) ==
  /\ InTree(n)
  /\ LET deepest == rb_augment_erase_begin(t, n)
         u == rb_erase(t, n)
     IN /\ aug' = [rb_augment_erase_end(u, aug, deepest) EXCEPT ![n] = 0]
        /\ t' = rb_init_node(u, n)
  /\ UNCHANGED key

(* rb_replace_node, by a user that copies its own data. *)
Replace(n, new) ==
  /\ key[n] \in Keys[new]
  /\ InTree(n) /\ ~InTree(new)
  /\ key' = [key EXCEPT ![new] = key[n]]
  /\ t' = rb_init_node(rb_replace_node(t, n, new), n)
  /\ aug' = [aug EXCEPT ![new] = aug[n], ![n] = 0]

Next ==
  \/ \E n \in Nodes : Add(n) \/ Erase(n)
  \/ \E n, new \in Nodes : Replace(n, new)

Spec == Init /\ [][Next]_vars

-----------------------------------------------------------------------------
RECURSIVE BlackHeight(_)
BlackHeight(n) ==
  IF n = NULL THEN 0 ELSE BlackHeight(t.ch["left"][n]) + (IF t.red[n] THEN 0 ELSE 1)

(* After every operation the tree is red-black: black at the root, no red  *)
(* child of a red node, and as many black nodes on every way down; and     *)
(* every child's parent pointer, which shares a word with the colour,      *)
(* leads back to its parent.                                               *)
RedBlack ==
  /\ ~IsRed(t, t.root)
  /\ t.root # NULL => t.par[t.root] = NULL
  /\ Len(InOrder) = Cardinality(ToSet(InOrder))
  /\ \A n \in ToSet(InOrder) :
       /\ \A s \in Side : t.ch[s][n] # NULL =>
            t.par[t.ch[s][n]] = n /\ (IsRed(t, n) => ~IsRed(t, t.ch[s][n]))
       /\ BlackHeight(t.ch["left"][n]) = BlackHeight(t.ch["right"][n])

(* rb_first, rb_last, rb_next and rb_prev walk the nodes in their order,   *)
(* and end with NULL.                                                      *)
WalksInOrder ==
  LET s == InOrder
      At(i) == IF i \in DOMAIN s THEN s[i] ELSE NULL
  IN  /\ rb_first(t) = At(1) /\ rb_last(t) = At(Len(s))
      /\ \A i \in DOMAIN s : /\ Neighbour(t, s[i], "right") = At(i + 1)
                             /\ Neighbour(t, s[i], "left") = At(i - 1)

(* The augmented data is right after every operation: rb_augment_insert    *)
(* and rb_augment_erase_begin/_end reach every node whose subtree changed, *)
(* "any damage done by rebalance" included.                                *)
AugmentRight ==
  \A n \in ToSet(InOrder) : aug[n] = Len(InOrderFrom(t, n))

List == INSTANCE TimeList WITH seq <- InOrder

(* The tree is the ordered list that the event loop takes it for: adding,  *)
(* erasing and replacing do to the in-order sequence what TimeList says,   *)
(* equal times in the order they were added.                               *)
TimeListSpec == List!Spec
=============================================================================
