------------------------------- MODULE Lists --------------------------------
(***************************************************************************)
(* What list.h promises its users: each list head has a sequence of        *)
(* entries, no entry is on two lists, and a walk with                      *)
(* list_for_each_entry_safe goes on with the entries that were behind the  *)
(* current one, whatever becomes of the current one.                       *)
(***************************************************************************)
EXTENDS Naturals, Sequences

CONSTANTS Heads, Entries, NULL

VARIABLES lists,  \* the entries of each list, in order
          on,     \* the list being walked, or NULL
          pos,    \* the current entry of the walk
          rest    \* what the walk has before it

In(e, s) == \E i \in DOMAIN s : s[i] = e

(* s less the entry e, which is in it once or not at all. *)
Other(s, e) ==
  IF ~In(e, s) THEN s
  ELSE LET k == CHOOSE i \in DOMAIN s : s[i] = e
       IN  [i \in 1 .. Len(s) - 1 |-> IF i < k THEN s[i] ELSE s[i + 1]]

Listed(e) == \E h \in Heads : In(e, lists[h])
Without(e) == [h \in Heads |-> Other(lists[h], e)]

Init ==
  /\ lists = [h \in Heads |-> <<>>]
  /\ on = NULL /\ pos = NULL /\ rest = <<>>

(* A walk that is not at its last entry will meet the new one.             *)
AddTail(e, h) ==
  /\ ~Listed(e)
  /\ lists' = [lists EXCEPT ![h] = Append(@, e)]
  /\ rest' = IF h = on /\ rest # <<>> THEN Append(rest, e) ELSE rest
  /\ UNCHANGED <<on, pos>>

AddFront(e, h) ==
  /\ ~Listed(e)
  /\ lists' = [lists EXCEPT ![h] = <<e>> \o @]
  /\ UNCHANGED <<on, pos, rest>>

Delete(e) ==
  /\ Listed(e)
  /\ lists' = Without(e)
  /\ rest' = Other(rest, e)
  /\ UNCHANGED <<on, pos>>

MoveFront(e, h) ==
  /\ Listed(e)
  /\ lists' = [Without(e) EXCEPT ![h] = <<e>> \o @]
  /\ rest' = Other(rest, e)
  /\ UNCHANGED <<on, pos>>

MoveTail(e, h) ==
  /\ Listed(e)
  /\ lists' = [Without(e) EXCEPT ![h] = Append(@, e)]
  /\ rest' = Other(rest, e)
  /\ UNCHANGED <<on, pos>>

Splice(l, h) ==
  /\ l # h
  /\ lists' = [lists EXCEPT ![h] = lists[l] \o @, ![l] = <<>>]
  /\ UNCHANGED <<on, pos, rest>>

WalkBegin(h) ==
  /\ on = NULL /\ lists[h] # <<>>
  /\ on' = h /\ pos' = Head(lists[h]) /\ rest' = Tail(lists[h])
  /\ UNCHANGED lists

WalkNext ==
  /\ on # NULL
  /\ IF rest = <<>> THEN on' = NULL /\ pos' = NULL /\ rest' = <<>>
     ELSE on' = on /\ pos' = Head(rest) /\ rest' = Tail(rest)
  /\ UNCHANGED lists

Operation ==
  \/ WalkNext
  \/ \E e \in Entries : Delete(e)
  \/ \E h \in Heads : WalkBegin(h)
  \/ \E e \in Entries, h \in Heads :
       AddTail(e, h) \/ AddFront(e, h) \/ MoveFront(e, h) \/ MoveTail(e, h)
  \/ \E l, h \in Heads : Splice(l, h)

vars == <<lists, on, pos, rest>>

(* An operation that changes nothing is a stuttering step. *)
Next == vars' # vars /\ Operation

Spec == Init /\ [][Next]_vars
=============================================================================
