------------------------------ MODULE SkipList ------------------------------
(***************************************************************************)
(* c_data_structure/skiplist/skiplist.c at the level of its pointers.      *)
(*                                                                         *)
(* A list s holds the links of every node and of the head, per level from  *)
(* 0, the prev pointers, the height of each node (node->level), the level  *)
(* in use and the size. Freed nodes are not in s.live. An operator Bad...  *)
(* is a mistake the code does not make.                                    *)
(***************************************************************************)
EXTENDS Integers, FiniteSets, SequencesExt

CONSTANTS Nodes,    \* the memory for nodes
          head,
          Keys,
          MaxLevel  \* max_level

ASSUME ListAssumption ==
  /\ head \notin Nodes
  /\ Keys \subseteq Nat
  /\ MaxLevel \in Nat \ {0}

Levels == 0 .. MaxLevel - 1

VARIABLES s, key

vars == <<s, key>>

(* sklist_init; an unallocated node points nowhere that matters. *)
Init ==
  /\ s = [link |-> [n \in Nodes \cup {head} |-> [i \in Levels |-> head]],
          prev |-> [n \in Nodes \cup {head} |-> head],
          height |-> [n \in Nodes |-> 0],
          level |-> 0, size |-> 0, live |-> {}]
  /\ key \in [Nodes -> Keys]

(* The inner loops: from n along level i while the next node comes before  *)
(* what is looked for.                                                     *)
RECURSIVE Advance(_, _, _, _)
Advance(u, n, i, before) ==
  LET next == u.link[n][i] IN
  IF next \in before THEN Advance(u, next, i, before) ELSE n

(* search_node, as <<the node found or head, *pos>>. *)
RECURSIVE SearchFrom(_, _, _, _)
SearchFrom(u, n, i, k) ==
  LET p == Advance(u, n, i, {x \in Nodes : key[x] < k})
      next == u.link[p][i]
  IN  CASE i < 0 -> <<head, n>>
        [] i >= 0 /\ next # head /\ key[next] = k -> <<next, next>>
        [] OTHER -> SearchFrom(u, p, i - 1, k)

BadSearchNode(u, k) == SearchFrom(u, head, u.level - 2, k)

search_node(u, k) == SearchFrom(u, head, u.level - 1, k)

-----------------------------------------------------------------------------
(* rand_level: a height from 1 to max_level, raising the level in use. *)
RaisedTo(u, h) == [u EXCEPT !.level = IF h > @ THEN h ELSE @]

(* Link new behind p on level i, if it is that high. *)
LinkAt(u, p, i, new) ==
  LET u1 == [u EXCEPT !.link[new][i] = u.link[p][i], !.link[p][i] = new] IN
  CASE i >= u.height[new] -> u
    [] 0 < i /\ i < u.height[new] -> u1
    [] i = 0 -> [u1 EXCEPT !.prev[new] = p, !.prev[u1.link[new][0]] = new]

RECURSIVE BadLinkFrom(_, _, _, _, _)
BadLinkFrom(u, k, n, i, new) ==
  IF i < 0 THEN u
  ELSE LET p == Advance(u, n, i, {x \in Nodes : k[x] < k[new]})
       IN  BadLinkFrom(LinkAt(u, p, i, new), k, p, i - 1, new)

RECURSIVE LinkFrom(_, _, _, _, _)
LinkFrom(u, k, n, i, new) ==
  IF i < 0 THEN u
  ELSE LET p == Advance(u, n, i, {x \in Nodes : k[x] <= k[new]})
       IN  LinkFrom(LinkAt(u, p, i, new), k, p, i - 1, new)

(* sklist_insert, with new as the memory that malloc returns. *)
sklist_insert(new, k, h) ==
  /\ new \notin s.live
  /\ key' = [key EXCEPT ![new] = k]
  /\ LET u == [RaisedTo(s, h) EXCEPT !.live = @ \cup {new}, !.height[new] = h,
                                     !.size = @ + 1]
     IN s' = LinkFrom(u, key', head, u.level - 1, new)

(* sklist_insert when malloc fails: the level has been raised. *)
InsertFails(h) ==
  /\ s' = RaisedTo(s, h)
  /\ UNCHANGED key

BadUnlinkAt(u, p, i) ==
  LET next == u.link[p][i] IN
  IF i > 0 THEN u
  ELSE [u EXCEPT !.link[p][0] = u.link[next][0], !.prev[u.link[next][0]] = p,
                 !.live = @ \ {next}, !.size = @ - 1]

(* Unlink the node behind p on level i; on level 0 it is freed, and what   *)
(* its memory held is forgotten.                                           *)
UnlinkAt(u, p, i) ==
  LET next == u.link[p][i]
      u1 == [u EXCEPT !.link[p][i] = u.link[next][i],
                      !.level = IF u.link[next][i] = p THEN @ - 1 ELSE @]
  IN  IF i > 0 THEN u1
      ELSE [u1 EXCEPT !.prev[u1.link[p][0]] = p, !.live = @ \ {next}, !.size = @ - 1,
                      !.link[next] = [j \in Levels |-> head], !.prev[next] = head,
                      !.height[next] = 0]

RECURSIVE UnlinkFrom(_, _, _, _)
UnlinkFrom(u, n, i, k) ==
  IF i < 0 THEN u
  ELSE LET p == Advance(u, n, i, {x \in Nodes : key[x] < k})
           next == u.link[p][i]
       IN  UnlinkFrom(IF next # head /\ key[next] = k THEN UnlinkAt(u, p, i) ELSE u,
                      p, i - 1, k)

sklist_delete(k) ==
  /\ s' = UnlinkFrom(s, head, s.level - 1, k)
  /\ UNCHANGED key

(* The loop of sklist_free: the next node is read before the first one is  *)
(* deleted by its key.                                                     *)
RECURSIVE FreeFrom(_, _)
FreeFrom(u, n) ==
  IF n = head THEN u
  ELSE FreeFrom(UnlinkFrom(u, head, u.level - 1, key[n]), u.link[n][0])

(* sklist_free, and sklist_init for the next list. *)
sklist_free ==
  /\ s' = [FreeFrom(s, s.link[head][0]) EXCEPT !.level = 0]
  /\ UNCHANGED key

Next ==
  \/ \E new \in Nodes, k \in Keys, h \in 1 .. MaxLevel : sklist_insert(new, k, h)
  \/ \E h \in 1 .. MaxLevel : InsertFails(h)
  \/ \E k \in Keys : sklist_delete(k)
  \/ sklist_free

Spec == Init /\ [][Next]_vars

-----------------------------------------------------------------------------
(* The nodes on level i in order; a link to freed memory ends it. *)
RECURSIVE Chain(_, _, _)
Chain(u, n, i) ==
  IF u.link[n][i] \notin u.live THEN <<>> ELSE <<u.link[n][i]>> \o Chain(u, u.link[n][i], i)

OnLevel(i) == Chain(s, head, i)
RECURSIVE Back(_)
Back(n) == IF s.prev[n] \notin s.live THEN <<>> ELSE <<s.prev[n]>> \o Back(s.prev[n])

(* No link leads to freed memory: every level is a chain of live nodes     *)
(* from the head back to the head, also after a deletion that takes        *)
(* different nodes of one key off different levels, and the prev pointers  *)
(* run through level 0 backwards, as sklist_foreach_reverse needs. Each    *)
(* level holds only nodes of the level below, in the same order, and the   *)
(* levels from sk_list->level up are empty, so that a search from there    *)
(* misses nothing.                                                         *)
LinksKept ==
  /\ \A i \in Levels :
       s.link[IF OnLevel(i) = <<>> THEN head ELSE Last(OnLevel(i))][i] = head
  /\ ToSet(OnLevel(0)) = s.live
  /\ Back(head) = Reverse(OnLevel(0))
  /\ \A i \in Levels \ {0} :
       OnLevel(i) = SelectSeq(OnLevel(i - 1), LAMBDA n : n \in ToSet(OnLevel(i)))
  /\ \A i \in Levels : i >= s.level => OnLevel(i) = <<>>
  /\ s.level \in 0 .. MaxLevel

(* A search finds an object of the key whenever there is one, and else     *)
(* leaves in *pos the last node before the key (the head, if none is).     *)
SearchFinds ==
  \A k \in Keys :
    LET r == search_node(s, k)
        before == {i \in DOMAIN OnLevel(0) : key[OnLevel(0)[i]] < k}
    IN  IF \E n \in s.live : key[n] = k
        THEN r[1] \in s.live /\ key[r[1]] = k /\ r[2] = r[1]
        ELSE r = <<head, IF before = {} THEN head ELSE OnLevel(0)[Max(before)]>>

List == INSTANCE KeyList WITH seq <- OnLevel(0), size <- s.size

(* The skip list is the ordered list KeyList: equal keys stay in the order *)
(* they were inserted, a deletion takes the first of its key, size counts  *)
(* the nodes, and sklist_free, which deletes node after node by key,       *)
(* leaves none.                                                            *)
KeyListSpec == List!Spec
=============================================================================
