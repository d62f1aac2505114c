------------------------------ MODULE TimeList ------------------------------
(***************************************************************************)
(* What the event loop asks of its time tree: an ordered list, in which a  *)
(* new node goes where EvBase puts it (TimePosition, before the first      *)
(* later node and after its equals), any node may be removed, and a node   *)
(* may take the place of another.                                          *)
(***************************************************************************)
EXTENDS Naturals, SequencesExt

CONSTANTS Nodes,  \* the tree nodes
          Keys    \* per node, the times it may be added for

VARIABLES seq,    \* the nodes in the tree, in order
          key     \* the time of each node

Base == INSTANCE EvBase
          WITH Events <- Nodes, Fds <- {}, MapSize <- 1, TicksPerMs <- 1, DefWaitMs <- 0, S32Max <- 1

Init ==
  /\ seq = <<>>
  /\ key = [n \in Nodes |-> 0]

Add(n) ==
  /\ \E k \in Keys[n] : key' = [key EXCEPT ![n] = k]
  /\ n \notin ToSet(seq)
  /\ seq' = InsertAt(seq, Base!TimePosition([evt_time |-> seq, evt_timeout |-> key'], n), n)

Erase(n) ==
  /\ UNCHANGED key
  /\ n \in ToSet(seq)
  /\ seq' = RemoveFirst(seq, n)

Replace(n, new) ==
  /\ key[n] \in Keys[new]
  /\ key' = [key EXCEPT ![new] = key[n]]
  /\ n \in ToSet(seq) /\ new \notin ToSet(seq)
  /\ seq' = [i \in DOMAIN seq |-> IF seq[i] = n THEN new ELSE seq[i]]

Next ==
  \/ \E n \in Nodes : Add(n) \/ Erase(n)
  \/ \E n, new \in Nodes : Replace(n, new)

Spec == Init /\ [][Next]_<<seq, key>>
=============================================================================
