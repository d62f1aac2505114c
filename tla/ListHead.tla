------------------------------ MODULE ListHead ------------------------------
(***************************************************************************)
(* network/wba_event/list.h: doubly linked circular lists, whose nodes are *)
(* embedded in the entries. p.next and p.prev are the pointers of every    *)
(* head and entry.                                                         *)
(*                                                                         *)
(* A user adds what is on no list, removes and moves what is on one, and   *)
(* initialises a head again after list_splice has left it undefined. While *)
(* it walks a list with list_for_each_entry_safe it removes or moves only  *)
(* the current entry, and adds only at tails. An operator Bad... is a      *)
(* mistake the code does not make.                                         *)
(***************************************************************************)
EXTENDS Naturals, Sequences, FiniteSets

CONSTANTS Heads, Entries, NULL

(* Entries is finite: a sequence longer than their number repeats one. *)
ASSUME ListAssumption ==
  /\ Heads \cap Entries = {} /\ NULL \notin Heads \cup Entries
  /\ Cardinality(Entries) \in Nat
  /\ \A s \in [1 .. Cardinality(Entries) + 1 -> Entries] :
       \E i, j \in DOMAIN s : i # j /\ s[i] = s[j]

VARIABLES p,     \* the pointers
          undef, \* heads that list_splice left as they were
          walk   \* the walk: its head, pos and n; pos = head when it is over

vars == <<p, undef, walk>>

Idle == [head |-> NULL, pos |-> NULL, n |-> NULL]

Init ==
  /\ p = [next |-> [x \in Heads \cup Entries |-> IF x \in Heads THEN x ELSE NULL],
          prev |-> [x \in Heads \cup Entries |-> IF x \in Heads THEN x ELSE NULL]]
  /\ undef = {}
  /\ walk = Idle

INIT_LIST_HEAD(q, x) == [q EXCEPT !.next[x] = x, !.prev[x] = x]

__list_add(q, new, prev, next) ==
  [q EXCEPT !.prev = [@ EXCEPT ![next] = new, ![new] = prev],
            !.next = [@ EXCEPT ![new] = next, ![prev] = new]]

list_add(q, new, head) == __list_add(q, new, head, q.next[head])

list_add_tail(q, new, head) == __list_add(q, new, q.prev[head], head)

__list_del(q, prev, next) == [q EXCEPT !.prev[next] = prev, !.next[prev] = next]

Unlinked(q, x) == __list_del(q, q.prev[x], q.next[x])

list_del(q, x) == [Unlinked(q, x) EXCEPT !.next[x] = NULL, !.prev[x] = NULL]
list_del_init(q, x) == INIT_LIST_HEAD(Unlinked(q, x), x)
list_move(q, x, head) == list_add(Unlinked(q, x), x, head)
list_move_tail(q, x, head) == list_add_tail(Unlinked(q, x), x, head)

list_empty(q, head) == q.next[head] = head

Bad_list_splice(q, list, head) ==
  LET first == q.next[list]
      last == q.prev[list]
  IN  [q EXCEPT !.prev = [@ EXCEPT ![first] = head, ![head] = last],
                !.next = [@ EXCEPT ![head] = first, ![last] = head]]

__list_splice(q, list, head) ==
  LET first == q.next[list]
      last == q.prev[list]
      at == q.next[head]
  IN  [q EXCEPT !.prev = [@ EXCEPT ![first] = head, ![at] = last],
                !.next = [@ EXCEPT ![head] = first, ![last] = at]]

-----------------------------------------------------------------------------
(* The i-th place of the list s with its head h, which stands at both ends. *)
At(h, s, i) == IF i \in DOMAIN s THEN s[i] ELSE h

EntrySeqs == UNION {[1 .. n -> Entries] : n \in 0 .. Cardinality(Entries)}

(* The entries from the head h along next, back to h. *)
ChainOf(q, h) ==
  CHOOSE s \in EntrySeqs :
    \A i \in 0 .. Len(s) : q.next[At(h, s, i)] = At(h, s, i + 1)

Chain(h) == IF h \in undef THEN <<>> ELSE ChainOf(p, h)
Listed(e) == \E h \in Heads : LET s == Chain(h) IN \E i \in DOMAIN s : s[i] = e
Walking == walk # Idle

Change(q) == p' = q /\ UNCHANGED <<undef, walk>>

Add(e, h) ==
  /\ ~Listed(e) /\ h \notin undef
  /\ \/ ~Walking /\ Change(list_add(p, e, h))
     \/ Change(list_add_tail(p, e, h))

(* The entry is not in use by a walk, or is its current one. *)
MayTake(e) == Listed(e) /\ (Walking => e = walk.pos)

Del(e) ==
  /\ MayTake(e)
  /\ Change(list_del(p, e)) \/ Change(list_del_init(p, e))

Move(e, h) ==
  /\ MayTake(e) /\ h \notin undef
  /\ Walking => h # walk.head
  /\ Change(list_move(p, e, h)) \/ Change(list_move_tail(p, e, h))

list_splice(l, h) ==
  /\ l # h /\ {l, h} \cap undef = {} /\ ~Walking
  /\ ~list_empty(p, l)
  /\ p' = __list_splice(p, l, h)
  /\ undef' = undef \cup {l}
  /\ UNCHANGED walk

list_splice_init(l, h) ==
  /\ l # h /\ {l, h} \cap undef = {} /\ ~Walking
  /\ ~list_empty(p, l)
  /\ p' = INIT_LIST_HEAD(__list_splice(p, l, h), l)
  /\ UNCHANGED <<undef, walk>>

Reinit(h) ==
  /\ h \in undef
  /\ p' = INIT_LIST_HEAD(p, h)
  /\ undef' = undef \ {h}
  /\ UNCHANGED walk

(* list_for_each_entry_safe: the entry and the next one are read before    *)
(* the body, and the body runs as long as the entry is not the head.       *)
WalkBegin(h) ==
  /\ ~Walking /\ h \notin undef /\ ~list_empty(p, h)
  /\ walk' = [head |-> h, pos |-> p.next[h], n |-> p.next[p.next[h]]]
  /\ UNCHANGED <<p, undef>>

WalkNext ==
  /\ Walking
  /\ walk' = IF walk.n = walk.head THEN Idle
             ELSE [walk EXCEPT !.pos = walk.n, !.n = p.next[walk.n]]
  /\ UNCHANGED <<p, undef>>

Next ==
  \/ \E e \in Entries : Del(e) \/ \E h \in Heads : Add(e, h) \/ Move(e, h)
  \/ \E l, h \in Heads : list_splice(l, h) \/ list_splice_init(l, h)
  \/ \E h \in Heads : Reinit(h) \/ WalkBegin(h)
  \/ WalkNext

Spec == Init /\ [][Next]_vars

-----------------------------------------------------------------------------
(* What a list holds from its entry e on. *)
From(s, e) == SubSeq(s, CHOOSE i \in DOMAIN s : s[i] = e, Len(s))

Seqs == INSTANCE Lists
          WITH lists <- [h \in Heads |-> Chain(h)],
               on <- walk.head,
               pos <- walk.pos,
               rest <- IF walk.n \in Entries THEN From(Chain(walk.head), walk.n) ELSE <<>>

(* Backwards the lists hold the same entries. *)
BothWays ==
  \A h \in Heads \ undef :
    LET s == Chain(h)
    IN  \A i \in 0 .. Len(s) : p.prev[At(h, s, i + 1)] = At(h, s, i)

(* By its name: list_add puts the entry first, list_add_tail last, ... *)
EachItsOwn ==
  /\ \A e \in Entries, h \in Heads :
       /\ ~Walking /\ p' = list_add(p, e, h) /\ Add(e, h) => Seqs!AddFront(e, h)
       /\ p' = list_add_tail(p, e, h) /\ Add(e, h) => Seqs!AddTail(e, h)
       /\ Move(e, h) /\ p' = list_move(p, e, h) => Seqs!MoveFront(e, h)
       /\ Move(e, h) /\ p' = list_move_tail(p, e, h) => Seqs!MoveTail(e, h)
  /\ \A e \in Entries : Del(e) => Seqs!Delete(e)
  /\ \A l, h \in Heads : list_splice(l, h) \/ list_splice_init(l, h) => Seqs!Splice(l, h)

(* The pointers implement the sequences of Lists, which EvBase takes the   *)
(* lists of the event loop for: each operation of list.h does to the       *)
(* sequence what its comment says, leaves the other list alone, and a walk *)
(* meets each entry that was before it once although its current entry is  *)
(* removed or moved away. Backwards the lists hold the same entries.       *)
ListSpec == Seqs!Spec /\ []BothWays /\ [][p' # p => EachItsOwn]_p
=============================================================================
