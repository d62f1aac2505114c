----------------------------- MODULE SkipListR ------------------------------
(***************************************************************************)
(* c_data_structure/skiplist/skiplist.r.c: the recursive skip list of int  *)
(* keys. Its levels end in NULL, there are no prev pointers, the level in  *)
(* use never falls, and sklist_delete counts size down whether it has      *)
(* found the key or not. The head has the key -1, which a node may have as *)
(* well: only a search looks at the key of the head.                       *)
(*                                                                         *)
(* The list is searched and deleted from only after a first insertion: its *)
(* level is 0 before, and the code would read link[-1]. malloc succeeds,   *)
(* since sklist_insert does not look at its result. An operator Bad... is  *)
(* a mistake the code does not make.                                       *)
(***************************************************************************)
EXTENDS Integers, FiniteSets, SequencesExt

CONSTANTS Nodes, head, NULL, Keys, MaxLevel

Levels == 0 .. MaxLevel - 1

VARIABLES r,    \* the links, the height of each node, level, size, live nodes,
                \*   and how many deletions have found nothing (history)
          rkey  \* the key of each node

rvars == <<r, rkey>>

(* sklist_init: the head's key is -1. *)
Init ==
  /\ r = [link |-> [n \in Nodes \cup {head} |-> [i \in Levels |-> NULL]],
          height |-> [n \in Nodes |-> 0], level |-> 0, size |-> 0, live |-> {},
          absent |-> 0]
  /\ rkey \in [Nodes \cup {head} -> Keys \cup {-1}]
  /\ rkey[head] = -1 /\ \A n \in Nodes : rkey[n] \in Keys

RECURSIVE search_node(_, _, _)
search_node(node, k, n) ==
  LET next == r.link[node][n] IN
  IF rkey[node] = k THEN node
  ELSE IF next # NULL /\ k >= rkey[next] THEN search_node(next, k, n)
  ELSE IF n = 0 THEN NULL
  ELSE search_node(node, k, n - 1)

sklist_search(k) == search_node(head, k, r.level - 1)

RECURSIVE BadInsert(_, _, _, _, _)
BadInsert(u, keys, node, new, n) ==
  LET next == u.link[node][n]
      u1 == IF n < u.height[new]
            THEN [u EXCEPT !.link[new][n] = next, !.link[node][n] = new] ELSE u
  IN  IF next # NULL /\ keys[new] > keys[next] THEN BadInsert(u, keys, next, new, n)
      ELSE IF n = 0 THEN u1
      ELSE BadInsert(u1, keys, node, new, n - 1)

RECURSIVE insert_node(_, _, _, _, _)
insert_node(u, keys, node, new, n) ==
  LET next == u.link[node][n]
      u1 == IF n < u.height[new]
            THEN [u EXCEPT !.link[new][n] = next, !.link[node][n] = new] ELSE u
  IN  IF next # NULL /\ keys[new] >= keys[next] THEN insert_node(u, keys, next, new, n)
      ELSE IF n = 0 THEN u1
      ELSE insert_node(u1, keys, node, new, n - 1)

(* rand_level returns a height from 1 to max_level and raises the level. *)
sklist_insert(new, k, h) ==
  /\ new \notin r.live
  /\ rkey' = [rkey EXCEPT ![new] = k]
  /\ LET u == [r EXCEPT !.level = IF h > @ THEN h ELSE @, !.height[new] = h,
                        !.live = @ \cup {new}, !.size = @ + 1]
     IN r' = insert_node(u, rkey', head, new, u.level - 1)

(* destroy_node; what the memory held is forgotten. *)
destroy_node(u, n) ==
  [u EXCEPT !.live = @ \ {n}, !.height[n] = 0, !.link[n] = [i \in Levels |-> NULL]]

RECURSIVE delete_node(_, _, _, _)
delete_node(u, node, k, n) ==
  LET next == u.link[node][n]
      match == next # NULL /\ rkey[next] = k
      u1 == IF match THEN [u EXCEPT !.link[node][n] = u.link[next][n]] ELSE u
  IN  IF next # NULL /\ k > rkey[next] THEN delete_node(u, next, k, n)
      ELSE IF n > 0 THEN delete_node(u1, node, k, n - 1)
      ELSE IF match THEN destroy_node(u1, next)
      ELSE u1

(* Bound: as many absent keys are deleted. *)
MaxAbsent == 1

Held(k) == \E n \in r.live : rkey[n] = k

sklist_delete(k) ==
  /\ r.level > 0
  /\ Held(k) \/ r.absent < MaxAbsent
  /\ r' = [delete_node(r, head, k, r.level - 1)
             EXCEPT !.size = @ - 1, !.absent = IF Held(k) THEN @ ELSE @ + 1]
  /\ UNCHANGED rkey

Next ==
  \E k \in Keys :
    \/ \E new \in Nodes, h \in 1 .. MaxLevel : sklist_insert(new, k, h)
    \/ sklist_delete(k)

Spec == Init /\ [][Next]_rvars

-----------------------------------------------------------------------------
(* A level from node n on; a link to freed memory is a link of its own.    *)
RECURSIVE Chain(_, _)
Chain(n, i) == IF n = NULL THEN <<>> ELSE <<n>> \o
               (IF n \in r.live THEN Chain(r.link[n][i], i) ELSE <<>>)
OnLevel(i) == Chain(r.link[head][i], i)

List == INSTANCE KeyList
          WITH seq <- OnLevel(0), size <- r.size + r.absent,
               key <- [n \in Nodes |-> rkey[n]]

(* The recursive list is the same ordered list KeyList as the iterative    *)
(* one is, equal keys in the order of insertion, although a deletion may   *)
(* take different nodes of one key off different levels; level 0 holds     *)
(* exactly the nodes that are not freed, every level holds only such nodes *)
(* (no link to freed memory), and a search finds an object of a key        *)
(* whenever there is one. The size field falls short of the number of      *)
(* nodes by exactly the deletions that found nothing. A search for -1 is   *)
(* left out: it stops at the head, whether a node has that key or not.     *)
RecursiveListSpec ==
  /\ List!Spec
  /\ [](/\ ToSet(OnLevel(0)) = r.live
        /\ \A i \in Levels : ToSet(OnLevel(i)) \subseteq r.live
        /\ r.level > 0 => \A k \in Keys \ {rkey[head]} :
             LET n == sklist_search(k) IN
             IF Held(k) THEN n \in r.live /\ rkey[n] = k ELSE n = NULL)
=============================================================================
