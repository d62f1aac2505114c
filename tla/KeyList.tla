------------------------------ MODULE KeyList -------------------------------
(***************************************************************************)
(* What the skip list promises: a list in the order of the keys, a new     *)
(* object after those of the same key, and a deletion that takes the first *)
(* object of its key, if there is one. Freeing it ends with no object.     *)
(***************************************************************************)
EXTENDS Integers, FiniteSets, SequencesExt

CONSTANTS Nodes, Keys

VARIABLES seq,   \* the nodes in order
          key,   \* the key of each node's object
          size

Init ==
  /\ seq = <<>> /\ size = 0
  /\ key \in [Nodes -> Keys]

HasKey(k) == {i \in DOMAIN seq : key[seq[i]] = k}
NotAfter(k) == {i \in DOMAIN seq : key[seq[i]] <= k}

Insert(n, k) ==
  /\ n \notin ToSet(seq)
  /\ key' = [key EXCEPT ![n] = k]
  /\ seq' = InsertAt(seq, Cardinality(NotAfter(k)) + 1, n)
  /\ size' = size + 1

Delete(k) ==
  /\ HasKey(k) # {}
  /\ seq' = RemoveAt(seq, Min(HasKey(k)))
  /\ size' = size - 1
  /\ UNCHANGED key

Clear ==
  /\ seq' = <<>> /\ size' = 0
  /\ UNCHANGED key

Operation ==
  \/ \E k \in Keys : Delete(k) \/ \E n \in Nodes : Insert(n, k)
  \/ Clear

vars == <<seq, key, size>>

(* Stuttering is left to the specification. *)
Next == vars' # vars /\ Operation

Spec == Init /\ [][Next]_vars
=============================================================================
