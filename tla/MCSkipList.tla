----------------------------- MODULE MCSkipList -----------------------------
(***************************************************************************)
(* Four nodes, linked by skiplist.c or by skiplist.r.c; nodes are          *)
(* interchangeable.                                                        *)
(***************************************************************************)
EXTENDS SkipList

CONSTANT NULL

VARIABLES r, rkey, file  \* the file that is linked into the program

(* The recursive list may hold the key of its head too; one level fewer    *)
(* makes up for the third key.                                             *)
Rec == INSTANCE SkipListR WITH Keys <- Keys \cup {-1}, MaxLevel <- MaxLevel - 1

NodeSymmetry == Permutations(Nodes)

MCInit ==
  /\ file \in {"skiplist.c", "skiplist.r.c"}
  /\ Init /\ Rec!Init
  /\ \A n \in Nodes : IF file = "skiplist.c" THEN rkey[n] = -1 ELSE key[n] = Min(Keys)

MCNext ==
  \/ file = "skiplist.c" /\ Next /\ UNCHANGED <<r, rkey, file>>
  \/ file = "skiplist.r.c" /\ Rec!Next /\ UNCHANGED <<s, key, file>>

MCSpec == MCInit /\ [][MCNext]_<<s, key, r, rkey, file>>

(* The recursive skip list is the ordered list too, keeps no link to freed *)
(* memory and finds every key it holds (SkipListR).                        *)
RecursiveListSpec == Rec!RecursiveListSpec
=============================================================================
