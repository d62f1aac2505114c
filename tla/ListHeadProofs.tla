--------------------------- MODULE ListHeadProofs ---------------------------
(***************************************************************************)
(* The pointers of list.h implement the sequences of Lists, for any number *)
(* of heads and entries: each operation of ListHead, and the walk beside   *)
(* them, is a step of Lists or leaves its state as it is.                  *)
(***************************************************************************)
EXTENDS ListHead, WellFoundedInduction, TLAPS

Nodes == Heads \cup Entries
Pointers == [next : [Nodes -> Nodes \cup {NULL}], prev : [Nodes -> Nodes \cup {NULL}]]

In(e, s) == \E i \in 1 .. Len(s) : s[i] = e

(* The pointers q link the head h and the entries of s both ways. *)
Links(q, h, s) ==
  \A i \in 0 .. Len(s) :
    q.next[At(h, s, i)] = At(h, s, i + 1) /\ q.prev[At(h, s, i + 1)] = At(h, s, i)

(* No entry is twice on the lists L. *)
Apart(L) ==
  \A g, h \in Heads : \A i \in 1 .. Len(L[g]), j \in 1 .. Len(L[h]) :
    L[g][i] = L[h][j] => g = h /\ i = j

(* The pointers q, with the heads U undefined, hold the lists L. *)
Holds(q, U, L) ==
  /\ q \in Pointers /\ U \subseteq Heads
  /\ L \in [Heads -> Seq(Entries)] /\ Apart(L)
  /\ \A h \in U : L[h] = <<>>
  /\ \A h \in Heads \ U : Links(q, h, L[h])

Chains == [h \in Heads |-> Chain(h)]

-----------------------------------------------------------------------------
(* Sequences of the same length and elements are equal. *)
LEMMA SeqSame ==
  ASSUME NEW S, NEW s \in Seq(S), NEW t \in Seq(S),
         Len(s) = Len(t), \A i \in 1 .. Len(s) : s[i] = t[i]
  PROVE  s = t
OBVIOUS

(* What \o and Append return. *)
LEMMA ConcatIs ==
  ASSUME NEW S, NEW s \in Seq(S), NEW t \in Seq(S)
  PROVE  /\ s \o t \in Seq(S) /\ Len(s \o t) = Len(s) + Len(t)
         /\ \A i \in 1 .. Len(s) + Len(t) :
              (s \o t)[i] = IF i <= Len(s) THEN s[i] ELSE t[i - Len(s)]
OBVIOUS

LEMMA AppendIs ==
  ASSUME NEW S, NEW s \in Seq(S), NEW e \in S
  PROVE  /\ Append(s, e) \in Seq(S) /\ Append(s, e) # << >>
         /\ Len(Append(s, e)) = Len(s) + 1
         /\ \A i \in 1 .. Len(s) : Append(s, e)[i] = s[i]
         /\ Append(s, e)[Len(s) + 1] = e
OBVIOUS

-----------------------------------------------------------------------------
(* Sets of numbers have a least element, and so induction.                 *)
LEMMA LeastNumber ==
  ASSUME NEW T, T \subseteq Nat, T # {}
  PROVE  \E x \in T : \A y \in T : x <= y
<1>1. PICK R : /\ IsWellFoundedOn(R, Nat)
               /\ \A x, y \in Nat : y < x => <<y, x>> \in R
  <2>1. \A x, y \in Nat : y < x => <<y, x>> \in OpToRel(<, Nat)
    BY DEF OpToRel
  <2> QED BY <2>1, NatLessThanWellFounded, Zenon
<1>2. PICK x \in T : \A y \in T : ~(<<y, x>> \in R)
  BY <1>1, WFMin, Zenon
<1>3. \A y \in T : ~(y < x)
  BY <1>1, <1>2, Zenon
<1>4. \A y \in T : x <= y
  BY <1>3
<1> QED BY <1>4

-----------------------------------------------------------------------------
(* The places of a list. *)
LEMMA Places ==
  ASSUME NEW h, NEW s \in Seq(Entries)
  PROVE  /\ Len(s) \in Nat /\ DOMAIN s = 1 .. Len(s)
         /\ At(h, s, 0) = h /\ At(h, s, Len(s) + 1) = h
         /\ \A i \in 1 .. Len(s) : At(h, s, i) = s[i] /\ s[i] \in Entries
<1>1. Len(s) \in Nat /\ DOMAIN s = 1 .. Len(s)
  OBVIOUS
<1>2. \A i \in 1 .. Len(s) : s[i] \in Entries
  OBVIOUS
<1> QED BY <1>1, <1>2 DEF At

Placed(h, s) ==
  /\ Len(s) \in Nat /\ At(h, s, 0) = h
  /\ \A i \in 1 .. Len(s) : At(h, s, i) = s[i] /\ s[i] \in Entries

LEMMA ArePlaced ==
  ASSUME NEW h, NEW s \in Seq(Entries)
  PROVE  Placed(h, s)
BY Places, ZenonT(30) DEF Placed

(* What lists hold, unfolded. *)
LEMMA Held ==
  ASSUME NEW q, NEW U, NEW L, Holds(q, U, L)
  PROVE  /\ q \in Pointers /\ U \subseteq Heads /\ L \in [Heads -> Seq(Entries)]
         /\ \A h \in Heads : L[h] \in Seq(Entries)
         /\ \A h \in U : L[h] = <<>>
         /\ \A h \in Heads \ U : Links(q, h, L[h])
BY DEF Holds

(* A place of one list is no place of another, and no other of the same. *)
LEMMA Distinct ==
  ASSUME NEW q, NEW U, NEW L, Holds(q, U, L), NEW g \in Heads, NEW h \in Heads,
         NEW i \in 0 .. Len(L[g]), NEW j \in 0 .. Len(L[h]),
         At(g, L[g], i) = At(h, L[h], j)
  PROVE  g = h /\ i = j
<1>1. L[g] \in Seq(Entries) /\ L[h] \in Seq(Entries)
  BY Held
<1>2. /\ Len(L[g]) \in Nat /\ Len(L[h]) \in Nat
      /\ At(g, L[g], 0) = g /\ At(h, L[h], 0) = h
      /\ \A k \in 1 .. Len(L[g]) : At(g, L[g], k) = L[g][k] /\ L[g][k] \in Entries
      /\ \A k \in 1 .. Len(L[h]) : At(h, L[h], k) = L[h][k] /\ L[h][k] \in Entries
  <2>1. Placed(g, L[g]) /\ Placed(h, L[h])
    BY <1>1, ArePlaced, Zenon
  <2> QED BY <2>1, Zenon DEF Placed
<1>3. g \notin Entries /\ h \notin Entries
  BY ListAssumption
<1>4. CASE i = 0 /\ j = 0
  BY <1>2, <1>4
<1>5. CASE i # 0 /\ j # 0
  <2>1. i \in 1 .. Len(L[g]) /\ j \in 1 .. Len(L[h]) /\ L[g][i] = L[h][j]
    BY <1>2, <1>5
  <2> QED BY <2>1 DEF Holds, Apart
<1>6. CASE (i = 0) # (j = 0)
  BY <1>2, <1>3, <1>6
<1> QED BY <1>4, <1>5, <1>6

LEMMA Successors ==
  ASSUME NEW q, NEW U, NEW L, Holds(q, U, L), NEW h \in Heads,
         NEW i \in 0 .. Len(L[h]), NEW k \in 0 .. Len(L[h]), i # k
  PROVE  At(h, L[h], i + 1) # At(h, L[h], k + 1)
<1> DEFINE s == L[h]
           x == IF i = Len(s) THEN 0 ELSE i + 1
           y == IF k = Len(s) THEN 0 ELSE k + 1
<1>1. s \in Seq(Entries)
  BY Held
<1>2. Len(s) \in Nat /\ At(h, s, 0) = h /\ At(h, s, Len(s) + 1) = h
  BY <1>1, Places, Zenon
<1>3. x \in 0 .. Len(s) /\ y \in 0 .. Len(s) /\ x # y
  BY <1>2
<1>4. At(h, s, x) = At(h, s, i + 1) /\ At(h, s, y) = At(h, s, k + 1)
  BY <1>2
<1> HIDE DEF x, y
<1> QED BY <1>3, <1>4, Distinct

(* What may change of the pointers without changing what a list holds. *)
LEMMA LinksFrame ==
  ASSUME NEW q, NEW r, NEW h, NEW s \in Seq(Entries), Links(q, h, s),
         \A i \in 0 .. Len(s) : r.next[At(h, s, i)] = q.next[At(h, s, i)]
                                /\ r.prev[At(h, s, i)] = q.prev[At(h, s, i)]
  PROVE  Links(r, h, s)
<1>1. Len(s) \in Nat /\ At(h, s, 0) = h /\ At(h, s, Len(s) + 1) = h
  BY Places
<1>2. ASSUME NEW i \in 0 .. Len(s)
      PROVE  r.prev[At(h, s, i + 1)] = q.prev[At(h, s, i + 1)]
  <2>1. CASE i = Len(s)
    BY <1>1, <2>1
  <2>2. CASE i # Len(s)
    <3>1. i + 1 \in 0 .. Len(s)
      BY <1>1, <2>2
    <3> QED BY <3>1
  <2> QED BY <2>1, <2>2
<1> QED BY <1>2 DEF Links

-----------------------------------------------------------------------------
(* The pointers that __list_add and __list_del write. *)
LEMMA AddWrites ==
  ASSUME NEW q \in Pointers, NEW e \in Nodes, NEW a \in Nodes \ {e}, NEW b \in Nodes \ {e}
  PROVE  LET r == __list_add(q, e, a, b) IN
         /\ r \in Pointers
         /\ r.next[e] = b /\ r.next[a] = e
         /\ r.prev[e] = a /\ r.prev[b] = e
         /\ \A x \in Nodes \ {e, a} : r.next[x] = q.next[x]
         /\ \A x \in Nodes \ {e, b} : r.prev[x] = q.prev[x]
BY Zenon DEF __list_add, Pointers

Closed(q, a, b, r) ==
  /\ r \in Pointers
  /\ r.next[a] = b /\ r.prev[b] = a
  /\ \A x \in Nodes \ {a} : r.next[x] = q.next[x]
  /\ \A x \in Nodes \ {b} : r.prev[x] = q.prev[x]

LEMMA DelWrites ==
  ASSUME NEW q \in Pointers, NEW a \in Nodes, NEW b \in Nodes
  PROVE  Closed(q, a, b, __list_del(q, a, b))
BY Zenon DEF __list_del, Pointers, Closed

(* s with e behind its place k, and s without its place k. *)
Inserted(s, k, e) ==
  [i \in 1 .. Len(s) + 1 |-> IF i <= k THEN s[i] ELSE IF i = k + 1 THEN e ELSE s[i - 1]]
Removed(s, k) == [i \in 1 .. Len(s) - 1 |-> IF i < k THEN s[i] ELSE s[i + 1]]

InsertedAt(h, s, k, e, t) ==
  /\ t \in Seq(Entries) /\ Len(t) = Len(s) + 1
  /\ At(h, t, k + 1) = e
  /\ \A i \in 0 .. k : At(h, t, i) = At(h, s, i)
  /\ \A i \in k + 1 .. Len(s) + 1 : At(h, t, i + 1) = At(h, s, i)

RemovedAt(h, s, k, t) ==
  /\ t \in Seq(Entries) /\ Len(t) = Len(s) - 1
  /\ \A i \in 0 .. k - 1 : At(h, t, i) = At(h, s, i)
  /\ \A i \in k .. Len(s) : At(h, t, i) = At(h, s, i + 1)

LEMMA InsertedPlaces ==
  ASSUME NEW h, NEW s \in Seq(Entries), NEW e \in Entries, NEW k \in 0 .. Len(s)
  PROVE  InsertedAt(h, s, k, e, Inserted(s, k, e))
<1> DEFINE r == Inserted(s, k, e)
<1>1. /\ Len(s) \in Nat /\ DOMAIN s = 1 .. Len(s)
      /\ \A i \in 1 .. Len(s) : s[i] \in Entries
  BY Places
<1>2. \A i \in 1 .. Len(s) + 1 :
        (IF i <= k THEN s[i] ELSE IF i = k + 1 THEN e ELSE s[i - 1]) \in Entries
  BY <1>1
<1>3. r \in [1 .. Len(s) + 1 -> Entries]
  BY <1>2 DEF Inserted
<1>4. /\ DOMAIN r = 1 .. Len(s) + 1
      /\ \A i \in 1 .. Len(s) + 1 :
           r[i] = IF i <= k THEN s[i] ELSE IF i = k + 1 THEN e ELSE s[i - 1]
  BY DEF Inserted
<1> HIDE DEF r
<1>5. r \in Seq(Entries) /\ Len(r) = Len(s) + 1
  BY <1>1, <1>3
<1>6. At(h, r, k + 1) = e
  BY <1>1, <1>4 DEF At
<1>7. \A i \in 0 .. k : At(h, r, i) = At(h, s, i)
  BY <1>1, <1>4 DEF At
<1>8. \A i \in k + 1 .. Len(s) + 1 : At(h, r, i + 1) = At(h, s, i)
  BY <1>1, <1>4 DEF At
<1> QED BY <1>5, <1>6, <1>7, <1>8 DEF r, InsertedAt

LEMMA RemovedPlaces ==
  ASSUME NEW h, NEW s \in Seq(Entries), NEW k \in 1 .. Len(s)
  PROVE  RemovedAt(h, s, k, Removed(s, k))
<1> DEFINE r == Removed(s, k)
<1>1. /\ Len(s) \in Nat /\ DOMAIN s = 1 .. Len(s)
      /\ \A i \in 1 .. Len(s) : s[i] \in Entries
  BY Places
<1>2. \A i \in 1 .. Len(s) - 1 : (IF i < k THEN s[i] ELSE s[i + 1]) \in Entries
  BY <1>1
<1>3. r \in [1 .. Len(s) - 1 -> Entries]
  BY <1>2 DEF Removed
<1>4. /\ DOMAIN r = 1 .. Len(s) - 1
      /\ \A i \in 1 .. Len(s) - 1 : r[i] = IF i < k THEN s[i] ELSE s[i + 1]
  BY DEF Removed
<1> HIDE DEF r
<1>5. r \in Seq(Entries) /\ Len(r) = Len(s) - 1
  <2>1. Len(s) - 1 \in Nat
    BY <1>1
  <2> QED BY <1>3, <2>1
<1>6. \A i \in 0 .. k - 1 : At(h, r, i) = At(h, s, i)
  BY <1>1, <1>4 DEF At
<1>7. \A i \in k .. Len(s) : At(h, r, i) = At(h, s, i + 1)
  BY <1>1, <1>4 DEF At
<1> QED BY <1>5, <1>6, <1>7 DEF r, RemovedAt

-----------------------------------------------------------------------------
(* __list_add between two places of a list inserts there. *)
LEMMA AddHolds ==
  ASSUME NEW q, NEW U, NEW L, Holds(q, U, L), NEW h \in Heads \ U,
         NEW e \in Entries, \A g \in Heads : ~In(e, L[g]), NEW k \in 0 .. Len(L[h])
  PROVE  Holds(__list_add(q, e, At(h, L[h], k), At(h, L[h], k + 1)), U,
               [L EXCEPT ![h] = Inserted(L[h], k, e)])
<1> DEFINE s == L[h]
           a == At(h, s, k)
           b == At(h, s, k + 1)
           r == __list_add(q, e, a, b)
           t == Inserted(s, k, e)
           M == [L EXCEPT ![h] = t]
<1>1. /\ q \in Pointers /\ U \subseteq Heads /\ L \in [Heads -> Seq(Entries)]
      /\ \A g \in Heads : L[g] \in Seq(Entries)
      /\ \A g \in U : L[g] = <<>>
      /\ \A g \in Heads \ U : Links(q, g, L[g])
  BY Held
<1>0. h \in Heads /\ s \in Seq(Entries) /\ k \in 0 .. Len(s)
  BY <1>1
<1>2. /\ Len(s) \in Nat /\ At(h, s, 0) = h /\ At(h, s, Len(s) + 1) = h
      /\ \A i \in 1 .. Len(s) : At(h, s, i) = s[i] /\ s[i] \in Entries
  BY <1>0, Places, Zenon
<1>3. \A i \in 0 .. Len(s) + 1 : At(h, s, i) \in Nodes \ {e}
  <2>1. e \notin Heads /\ h \in Heads
    BY ListAssumption
  <2>2. \A i \in 1 .. Len(s) : s[i] # e
    BY DEF In
  <2> QED BY <1>2, <2>1, <2>2 DEF Nodes
<1>4. /\ r \in Pointers
      /\ r.next[e] = b /\ r.next[a] = e
      /\ r.prev[e] = a /\ r.prev[b] = e
      /\ \A x \in Nodes \ {e, a} : r.next[x] = q.next[x]
      /\ \A x \in Nodes \ {e, b} : r.prev[x] = q.prev[x]
  <2>1. e \in Nodes /\ a \in Nodes \ {e} /\ b \in Nodes \ {e}
    BY <1>2, <1>3 DEF Nodes
  <2> QED BY <1>1, <2>1, AddWrites
<1>5. /\ t \in Seq(Entries) /\ Len(t) = Len(s) + 1
      /\ At(h, t, k + 1) = e
      /\ \A i \in 0 .. k : At(h, t, i) = At(h, s, i)
      /\ \A i \in k + 1 .. Len(s) + 1 : At(h, t, i + 1) = At(h, s, i)
  <2>1. InsertedAt(h, s, k, e, t)
    BY <1>0, InsertedPlaces, Zenon
  <2> HIDE DEF s, t
  <2> QED BY <2>1, Zenon DEF InsertedAt
<1>6. \A i \in 0 .. Len(s) :
        /\ i # k => At(h, s, i) # a
        /\ q.next[At(h, s, i)] = At(h, s, i + 1)
        /\ q.prev[At(h, s, i + 1)] = At(h, s, i)
  <2>1. \A i \in 0 .. Len(s) : i # k => At(h, s, i) # a
    BY Distinct
  <2>2. Links(q, h, s)
    BY <1>1
  <2> QED BY <2>1, <2>2 DEF Links
<1>7. \A i \in 0 .. Len(s) : i # k => At(h, s, i + 1) # b
  <2>1. k \in 0 .. Len(s)
    BY <1>2
  <2> QED BY <1>0, <2>1, Successors
<1> HIDE DEF r, t, a, b
<1>8. Links(r, h, t)
  <2> SUFFICES ASSUME NEW i \in 0 .. Len(s) + 1
               PROVE  r.next[At(h, t, i)] = At(h, t, i + 1) /\ r.prev[At(h, t, i + 1)] = At(h, t, i)
    BY <1>5 DEF Links
  <2>1. CASE i < k
    <3>1. i \in 0 .. Len(s) /\ i # k /\ i + 1 \in 0 .. k /\ i \in 0 .. k /\ i + 1 \in 0 .. Len(s) + 1
      BY <1>2, <2>1
    <3>2. At(h, s, i) \in Nodes \ {e, a} /\ At(h, s, i + 1) \in Nodes \ {e, b}
      BY <1>3, <1>6, <1>7, <3>1
    <3> QED BY <1>4, <1>5, <1>6, <3>1, <3>2, SMTT(30)
  <2>2. CASE i = k
    <3>1. At(h, t, i) = a /\ At(h, t, i + 1) = e
      BY <1>5, <2>2 DEF a
    <3> QED BY <1>4, <3>1
  <2>3. CASE i = k + 1
    <3>1. i \in k + 1 .. Len(s) + 1
      BY <1>2, <2>3
    <3>2. At(h, t, i) = e /\ At(h, t, i + 1) = b
      BY <1>5, <2>3, <3>1 DEF b
    <3> QED BY <1>4, <3>2
  <2>4. CASE i > k + 1
    <3>1. /\ i - 1 \in 0 .. Len(s) /\ i - 1 # k /\ i \in k + 1 .. Len(s) + 1
          /\ i - 1 \in k + 1 .. Len(s) + 1 /\ (i - 1) + 1 = i
      BY <1>2, <2>4
    <3>2. At(h, s, i - 1) \in Nodes \ {e, a} /\ At(h, s, i) \in Nodes \ {e, b}
      BY <1>3, <1>6, <1>7, <3>1
    <3>3. At(h, t, i) = At(h, s, i - 1) /\ At(h, t, i + 1) = At(h, s, i)
      BY <1>5, <3>1
    <3> QED BY <1>4, <1>6, <3>1, <3>2, <3>3, SMTT(30)
  <2> QED BY <1>2, <2>1, <2>2, <2>3, <2>4
<1>9. ASSUME NEW g \in Heads \ U, g # h
      PROVE  Links(r, g, L[g])
  <2>0. g \in Heads /\ L[g] \in Seq(Entries) /\ Links(q, g, L[g])
    BY <1>1, <1>9
  <2>1. ASSUME NEW i \in 0 .. Len(L[g])
        PROVE  At(g, L[g], i) \in Nodes \ {e, a, b}
    <3>1. /\ Len(L[g]) \in Nat /\ At(g, L[g], 0) = g
          /\ \A j \in 1 .. Len(L[g]) : At(g, L[g], j) = L[g][j] /\ L[g][j] \in Entries
      BY <2>0, Places, Zenon
    <3>2. At(g, L[g], i) \in Nodes
      BY <3>1 DEF Nodes
    <3>3. At(g, L[g], i) # e
      BY <3>1, ListAssumption DEF In
    <3>4. \A j \in 0 .. Len(s) : At(g, L[g], i) # At(h, s, j)
      BY <1>9, Distinct
    <3>5. k + 1 \in 0 .. Len(s) \/ b = At(h, s, 0)
      BY <1>2 DEF b
    <3> QED BY <1>2, <3>2, <3>3, <3>4, <3>5 DEF a, b
  <2> QED BY <1>4, <2>0, <2>1, LinksFrame
<1>10. M \in [Heads -> Seq(Entries)] /\ M[h] = t /\ \A g \in Heads : g # h => M[g] = L[g]
  BY <1>1, <1>5
<1>11. \A g \in U : M[g] = <<>>
  BY <1>1, <1>10
<1>12. Apart(M)
  <2>1. ASSUME NEW i \in 1 .. Len(t)
        PROVE  \/ t[i] = e /\ i = k + 1
               \/ i <= k /\ i \in 1 .. Len(s) /\ t[i] = s[i]
               \/ i > k + 1 /\ i - 1 \in 1 .. Len(s) /\ t[i] = s[i - 1]
    BY <1>2, <1>5 DEF t, Inserted
  <2>2. ASSUME NEW g \in Heads, NEW i \in 1 .. Len(M[g])
        PROVE  \/ g = h /\ M[g][i] = e /\ i = k + 1
               \/ \E x \in 1 .. Len(L[g]) :
                    M[g][i] = L[g][x] /\ M[g][i] # e
                    /\ (g # h => x = i) /\ (g = h => x = IF i <= k THEN i ELSE i - 1)
                    /\ (g = h => i # k + 1)
    <3>1. CASE g = h
      BY <1>2, <1>10, <2>1, <3>1 DEF In
    <3>2. CASE g # h
      BY <1>10, <3>2 DEF In
    <3> QED BY <3>1, <3>2
  <2> SUFFICES ASSUME NEW g \in Heads, NEW f \in Heads,
                      NEW i \in 1 .. Len(M[g]), NEW j \in 1 .. Len(M[f]), M[g][i] = M[f][j]
               PROVE  g = f /\ i = j
    BY DEF Apart
  <2>3. CASE M[g][i] = e
    BY <2>2, <2>3
  <2>4. CASE M[g][i] # e
    <3>1. PICK x \in 1 .. Len(L[g]) :
            /\ M[g][i] = L[g][x] /\ (g # h => x = i)
            /\ (g = h => x = IF i <= k THEN i ELSE i - 1) /\ (g = h => i # k + 1)
      BY <2>2, <2>4, SMTT(30)
    <3>2. PICK y \in 1 .. Len(L[f]) :
            /\ M[f][j] = L[f][y] /\ (f # h => y = j)
            /\ (f = h => y = IF j <= k THEN j ELSE j - 1) /\ (f = h => j # k + 1)
      BY <2>2, <2>4, SMTT(30)
    <3>3. g = f /\ x = y
      BY <3>1, <3>2 DEF Holds, Apart
    <3>4. i \in Nat /\ j \in Nat
      OBVIOUS
    <3> QED BY <3>1, <3>2, <3>3, <3>4
  <2> QED BY <2>3, <2>4
<1>13. \A g \in Heads \ U : Links(r, g, M[g])
  BY <1>8, <1>9, <1>10
<1> HIDE DEF M
<1>14. Holds(r, U, M)
  BY <1>1, <1>4, <1>10, <1>11, <1>12, <1>13 DEF Holds
<1> QED BY <1>14 DEF r, a, b, M, t

-----------------------------------------------------------------------------
(* __list_del of an entry's neighbours takes the entry off its list. *)
LEMMA RemoveHolds ==
  ASSUME NEW q, NEW U, NEW L, Holds(q, U, L), NEW h \in Heads \ U,
         NEW k \in 1 .. Len(L[h])
  PROVE  /\ Holds(Unlinked(q, L[h][k]), U, [L EXCEPT ![h] = Removed(L[h], k)])
         /\ \A g \in Heads : ~In(L[h][k], [L EXCEPT ![h] = Removed(L[h], k)][g])
<1> DEFINE s == L[h]
           e == L[h][k]
           a == At(h, s, k - 1)
           b == At(h, s, k + 1)
           r == __list_del(q, a, b)
           t == Removed(s, k)
           M == [L EXCEPT ![h] = t]
<1>1. /\ q \in Pointers /\ U \subseteq Heads /\ L \in [Heads -> Seq(Entries)]
      /\ \A g \in Heads : L[g] \in Seq(Entries)
      /\ \A g \in U : L[g] = <<>>
      /\ \A g \in Heads \ U : Links(q, g, L[g])
  BY Held
<1>0. h \in Heads /\ s \in Seq(Entries) /\ k \in 1 .. Len(s)
  BY <1>1
<1>2. /\ Len(s) \in Nat /\ At(h, s, 0) = h /\ At(h, s, Len(s) + 1) = h
      /\ \A i \in 1 .. Len(s) : At(h, s, i) = s[i] /\ s[i] \in Entries
  BY <1>0, Places, Zenon
<1>3. \A i \in 0 .. Len(s) + 1 : At(h, s, i) \in Nodes
  BY <1>2 DEF Nodes
<1>4. Links(q, h, s)
  BY <1>1
<1>5. \A i \in 0 .. Len(s) :
        /\ q.next[At(h, s, i)] = At(h, s, i + 1)
        /\ q.prev[At(h, s, i + 1)] = At(h, s, i)
  BY <1>4 DEF Links
<1>6. q.prev[e] = a /\ q.next[e] = b
  <2>1. k \in 0 .. Len(s) /\ k - 1 \in 0 .. Len(s) /\ (k - 1) + 1 = k /\ At(h, s, k) = e
    BY <1>2
  <2> QED BY <1>5, <2>1
<1>7. Unlinked(q, e) = r
  BY <1>6 DEF Unlinked
<1>8. /\ r \in Pointers /\ r.next[a] = b /\ r.prev[b] = a
      /\ \A x \in Nodes \ {a} : r.next[x] = q.next[x]
      /\ \A x \in Nodes \ {b} : r.prev[x] = q.prev[x]
  <2>1. a \in Nodes /\ b \in Nodes
    BY <1>2, <1>3
  <2>2. Closed(q, a, b, r)
    BY <1>1, <2>1, DelWrites, Zenon
  <2> QED BY <2>2, Zenon DEF Closed
<1>9. /\ t \in Seq(Entries) /\ Len(t) = Len(s) - 1
      /\ \A i \in 0 .. k - 1 : At(h, t, i) = At(h, s, i)
      /\ \A i \in k .. Len(s) : At(h, t, i) = At(h, s, i + 1)
  <2>1. RemovedAt(h, s, k, t)
    BY <1>0, RemovedPlaces, Zenon
  <2> HIDE DEF s, t
  <2> QED BY <2>1, Zenon DEF RemovedAt
<1>10. \A i \in 0 .. Len(s) : i # k - 1 => At(h, s, i) # a
  <2>1. k - 1 \in 0 .. Len(s)
    BY <1>2
  <2> QED BY <2>1, Distinct
<1>11. \A i \in 0 .. Len(s) : i # k => At(h, s, i + 1) # b
  <2>1. k \in 0 .. Len(s)
    BY <1>2
  <2> QED BY <1>0, <2>1, Successors
<1> HIDE DEF r, t, a, b
<1>12. Links(r, h, t)
  <2> SUFFICES ASSUME NEW i \in 0 .. Len(s) - 1
               PROVE  r.next[At(h, t, i)] = At(h, t, i + 1) /\ r.prev[At(h, t, i + 1)] = At(h, t, i)
    BY <1>9, Zenon DEF Links
  <2>1. CASE i < k - 1
    <3>1. i \in 0 .. Len(s) /\ i # k - 1 /\ i # k /\ i + 1 \in 0 .. k - 1 /\ i \in 0 .. k - 1
          /\ i + 1 \in 0 .. Len(s) + 1 /\ i \in 0 .. Len(s) + 1
      BY <1>2, <2>1
    <3>2. At(h, s, i) \in Nodes \ {a} /\ At(h, s, i + 1) \in Nodes \ {b}
      BY <1>3, <1>10, <1>11, <3>1
    <3> QED BY <1>5, <1>8, <1>9, <3>1, <3>2
  <2>2. CASE i = k - 1
    <3>1. i \in 0 .. k - 1 /\ k \in k .. Len(s) /\ i + 1 = k
      BY <1>2, <2>2
    <3>2. At(h, t, i) = a /\ At(h, t, i + 1) = b
      BY <1>9, <2>2, <3>1 DEF a, b
    <3> QED BY <1>8, <3>2
  <2>3. CASE i > k - 1
    <3>1. /\ i \in k .. Len(s) /\ i + 1 \in k .. Len(s) /\ i + 1 \in 0 .. Len(s)
          /\ i + 1 # k /\ i + 1 # k - 1 /\ (i + 1) + 1 \in 0 .. Len(s) + 1 /\ i + 1 \in 0 .. Len(s) + 1
      BY <1>2, <2>3, SMTT(30)
    <3>2. At(h, s, i + 1) \in Nodes \ {a} /\ At(h, s, (i + 1) + 1) \in Nodes \ {b}
      BY <1>3, <1>10, <1>11, <3>1
    <3> QED BY <1>5, <1>8, <1>9, <3>1, <3>2
  <2> QED BY <1>2, <2>1, <2>2, <2>3
<1>13. ASSUME NEW g \in Heads \ U, g # h
      PROVE  Links(r, g, L[g])
  <2>0. g \in Heads /\ L[g] \in Seq(Entries) /\ Links(q, g, L[g])
    BY <1>1, <1>13
  <2>1. ASSUME NEW i \in 0 .. Len(L[g])
        PROVE  At(g, L[g], i) \in Nodes \ {a, b}
    <3>1. /\ Len(L[g]) \in Nat /\ At(g, L[g], 0) = g
          /\ \A j \in 1 .. Len(L[g]) : At(g, L[g], j) = L[g][j] /\ L[g][j] \in Entries
      BY <2>0, Places, Zenon
    <3>2. At(g, L[g], i) \in Nodes
      BY <3>1 DEF Nodes
    <3>4. \A j \in 0 .. Len(s) : At(g, L[g], i) # At(h, s, j)
      BY <1>13, Distinct
    <3>5. k + 1 \in 0 .. Len(s) \/ b = At(h, s, 0)
      BY <1>2 DEF b
    <3>6. k - 1 \in 0 .. Len(s) /\ 0 \in 0 .. Len(s)
      BY <1>2
    <3> QED BY <3>2, <3>4, <3>5, <3>6 DEF a, b
  <2> QED BY <1>8, <2>0, <2>1, LinksFrame
<1>14. M \in [Heads -> Seq(Entries)] /\ M[h] = t /\ \A g \in Heads : g # h => M[g] = L[g]
  BY <1>1, <1>9
<1>15. \A g \in U : M[g] = <<>>
  BY <1>1, <1>14
<1>16. ASSUME NEW g \in Heads, NEW i \in 1 .. Len(M[g])
       PROVE  \E x \in 1 .. Len(L[g]) :
                M[g][i] = L[g][x] /\ (g # h => x = i)
                /\ (g = h => x # k /\ x = IF i < k THEN i ELSE i + 1)
  <2>1. CASE g = h
    <3>1. i \in 1 .. Len(s) - 1
      BY <1>9, <1>14, <2>1
    <3>2. t[i] = IF i < k THEN s[i] ELSE s[i + 1]
      BY <3>1 DEF t, Removed
    <3>3. (IF i < k THEN i ELSE i + 1) \in 1 .. Len(s) /\ (IF i < k THEN i ELSE i + 1) # k
      BY <1>2, <3>1
    <3> QED BY <1>14, <2>1, <3>2, <3>3
  <2>2. CASE g # h
    BY <1>14, <2>2
  <2> QED BY <2>1, <2>2
<1> HIDE DEF M
<1>17. Apart(M)
  <2> SUFFICES ASSUME NEW g \in Heads, NEW f \in Heads,
                      NEW i \in 1 .. Len(M[g]), NEW j \in 1 .. Len(M[f]), M[g][i] = M[f][j]
               PROVE  g = f /\ i = j
    BY DEF Apart
  <2>1. PICK x \in 1 .. Len(L[g]) :
          M[g][i] = L[g][x] /\ (g # h => x = i) /\ (g = h => x # k /\ x = IF i < k THEN i ELSE i + 1)
    BY <1>16, Zenon
  <2>2. PICK y \in 1 .. Len(L[f]) :
          M[f][j] = L[f][y] /\ (f # h => y = j) /\ (f = h => y # k /\ y = IF j < k THEN j ELSE j + 1)
    BY <1>16, SMTT(30)
  <2>3. L[g][x] = L[f][y]
    BY <2>1, <2>2, Zenon
  <2>4. g = f /\ x = y
    <3>1. Apart(L)
      BY DEF Holds
    <3> QED BY <2>3, <3>1, SMTT(30) DEF Apart
  <2>5. i \in Nat /\ j \in Nat /\ k \in Nat
    BY SMTT(30)
  <2> QED BY <2>1, <2>2, <2>4, <2>5
<1>18. \A g \in Heads \ U : Links(r, g, M[g])
  BY <1>12, <1>13, <1>14
<1>19. Holds(r, U, M)
  BY <1>1, <1>8, <1>14, <1>15, <1>17, <1>18 DEF Holds
<1>20. ASSUME NEW g \in Heads, In(e, M[g])
       PROVE  FALSE
  <2>1. PICK i \in 1 .. Len(M[g]) : M[g][i] = e
    BY <1>20 DEF In
  <2>2. PICK x \in 1 .. Len(L[g]) : e = L[g][x] /\ (g = h => x # k)
    BY <1>16, <2>1
  <2> QED BY <1>0, <2>2 DEF Holds, Apart
<1> QED BY <1>7, <1>19, <1>20 DEF M, t

-----------------------------------------------------------------------------
(* Writing the pointers of an entry on no list changes no list. *)
LEMMA OffList ==
  ASSUME NEW q, NEW U, NEW L, Holds(q, U, L), NEW r \in Pointers, NEW e \in Entries,
         \A g \in Heads : ~In(e, L[g]),
         \A x \in Nodes \ {e} : r.next[x] = q.next[x] /\ r.prev[x] = q.prev[x]
  PROVE  Holds(r, U, L)
<1>1. /\ U \subseteq Heads /\ L \in [Heads -> Seq(Entries)]
      /\ \A g \in Heads : L[g] \in Seq(Entries)
      /\ \A g \in U : L[g] = <<>>
      /\ \A g \in Heads \ U : Links(q, g, L[g])
  BY Held
<1>2. ASSUME NEW g \in Heads \ U
      PROVE  Links(r, g, L[g])
  <2>0. g \in Heads /\ L[g] \in Seq(Entries) /\ Links(q, g, L[g])
    BY <1>1, <1>2
  <2>1. ASSUME NEW i \in 0 .. Len(L[g])
        PROVE  At(g, L[g], i) \in Nodes \ {e}
    <3>1. /\ Len(L[g]) \in Nat /\ At(g, L[g], 0) = g
          /\ \A j \in 1 .. Len(L[g]) : At(g, L[g], j) = L[g][j] /\ L[g][j] \in Entries
      <4>1. Placed(g, L[g])
        BY <2>0, ArePlaced, Zenon
      <4> QED BY <4>1 DEF Placed
    <3>2. At(g, L[g], i) \in Nodes
      BY <3>1 DEF Nodes
    <3> QED BY <3>1, <3>2, ListAssumption DEF In
  <2> QED BY <2>0, <2>1, LinksFrame
<1> QED BY <1>1, <1>2 DEF Holds

(* Initialising an undefined head makes it the head of an empty list. *)
LEMMA InitHolds ==
  ASSUME NEW q, NEW U, NEW L, Holds(q, U, L), NEW h \in U
  PROVE  Holds(INIT_LIST_HEAD(q, h), U \ {h}, L)
<1> DEFINE r == INIT_LIST_HEAD(q, h)
<1>1. /\ q \in Pointers /\ U \subseteq Heads /\ L \in [Heads -> Seq(Entries)]
      /\ \A g \in Heads : L[g] \in Seq(Entries)
      /\ \A g \in U : L[g] = <<>>
      /\ \A g \in Heads \ U : Links(q, g, L[g])
  BY Held
<1>2. h \in Heads /\ h \in Nodes /\ h \notin Entries /\ L[h] = <<>>
  BY <1>1, ListAssumption DEF Nodes
<1>3. /\ r \in Pointers /\ r.next[h] = h /\ r.prev[h] = h
      /\ \A x \in Nodes \ {h} : r.next[x] = q.next[x] /\ r.prev[x] = q.prev[x]
  BY <1>1, <1>2, Zenon DEF INIT_LIST_HEAD, Pointers
<1> HIDE DEF r
<1>4. Links(r, h, L[h])
  BY <1>2, <1>3 DEF Links, At
<1>5. ASSUME NEW g \in Heads \ U
      PROVE  Links(r, g, L[g])
  <2>0. g \in Heads /\ g # h /\ L[g] \in Seq(Entries) /\ Links(q, g, L[g])
    BY <1>1, <1>5
  <2>1. ASSUME NEW i \in 0 .. Len(L[g])
        PROVE  At(g, L[g], i) \in Nodes \ {h}
    <3>1. /\ Len(L[g]) \in Nat /\ At(g, L[g], 0) = g
          /\ \A j \in 1 .. Len(L[g]) : At(g, L[g], j) = L[g][j] /\ L[g][j] \in Entries
      BY <2>0, Places, Zenon
    <3> QED BY <1>2, <2>0, <3>1 DEF Nodes
  <2> QED BY <1>3, <2>0, <2>1, LinksFrame
<1>6. Holds(r, U \ {h}, L)
  BY <1>1, <1>3, <1>4, <1>5 DEF Holds
<1> QED BY <1>6 DEF r

-----------------------------------------------------------------------------
(* The lists that the pointers hold are the chains read from them. *)
LEMMA ChainUnique ==
  ASSUME NEW q, NEW h \in Heads, NEW s \in Seq(Entries), NEW t \in Seq(Entries),
         \A i \in 0 .. Len(s) : q.next[At(h, s, i)] = At(h, s, i + 1),
         \A i \in 0 .. Len(t) : q.next[At(h, t, i)] = At(h, t, i + 1)
  PROVE  s = t
<1>1. /\ Len(s) \in Nat /\ DOMAIN s = 1 .. Len(s)
      /\ At(h, s, 0) = h /\ At(h, s, Len(s) + 1) = h
      /\ \A i \in 1 .. Len(s) : At(h, s, i) = s[i] /\ s[i] \in Entries
  BY Places, ZenonT(60)
<1>2. /\ Len(t) \in Nat /\ DOMAIN t = 1 .. Len(t)
      /\ At(h, t, 0) = h /\ At(h, t, Len(t) + 1) = h
      /\ \A i \in 1 .. Len(t) : At(h, t, i) = t[i] /\ t[i] \in Entries
  BY Places, SMTT(30)
<1>3. \A i \in Nat : i <= Len(s) + 1 /\ i <= Len(t) + 1 => At(h, s, i) = At(h, t, i)
  <2> DEFINE T == {i \in Nat : i <= Len(s) + 1 /\ i <= Len(t) + 1 /\ At(h, s, i) # At(h, t, i)}
  <2> SUFFICES ASSUME T # {} PROVE FALSE
    OBVIOUS
  <2>1. PICK x \in T : \A y \in T : x <= y
    BY LeastNumber, T \subseteq Nat, Zenon
  <2>2. x \in Nat /\ x <= Len(s) + 1 /\ x <= Len(t) + 1 /\ At(h, s, x) # At(h, t, x)
    OBVIOUS
  <2>3. x # 0
    BY <1>1, <1>2, <2>2
  <2>4. /\ x - 1 \in 0 .. Len(s) /\ x - 1 \in 0 .. Len(t) /\ (x - 1) + 1 = x
        /\ x - 1 \in Nat /\ x - 1 <= Len(s) + 1 /\ x - 1 <= Len(t) + 1 /\ ~(x <= x - 1)
    BY <1>1, <1>2, <2>2, <2>3
  <2>5. At(h, s, x - 1) = At(h, t, x - 1)
    BY <2>1, <2>4
  <2> QED BY <2>2, <2>4, <2>5, SMTT(30)
<1>4. h \notin Entries
  BY ListAssumption
<1>5. Len(s) = Len(t)
  <2>1. ~(Len(s) < Len(t))
    BY <1>1, <1>2, <1>3, <1>4
  <2>2. ~(Len(t) < Len(s))
    BY <1>1, <1>2, <1>3, <1>4
  <2>3. Len(s) \in Nat /\ Len(t) \in Nat
    BY <1>1, <1>2, Zenon
  <2>4. \A m, n \in Nat : ~(m < n) /\ ~(n < m) => m = n
    OBVIOUS
  <2> QED BY <2>1, <2>2, <2>3, <2>4, Zenon
<1>6. \A i \in 1 .. Len(s) : s[i] = t[i]
  BY <1>1, <1>2, <1>3, <1>5
<1> QED BY <1>5, <1>6, SeqSame

LEMMA ChainIs ==
  ASSUME NEW q, NEW U, NEW L, Holds(q, U, L), NEW h \in Heads \ U
  PROVE  ChainOf(q, h) = L[h]
<1> DEFINE s == L[h]
           Follows(t) == \A i \in 0 .. Len(t) : q.next[At(h, t, i)] = At(h, t, i + 1)
<1>1. h \in Heads /\ s \in Seq(Entries) /\ Links(q, h, s)
  BY Held
<1>2. Len(s) \in Nat /\ DOMAIN s = 1 .. Len(s) /\ s \in [1 .. Len(s) -> Entries]
  BY <1>1
<1>3. Len(s) \in 0 .. Cardinality(Entries)
  <2>1. ASSUME Cardinality(Entries) < Len(s) PROVE FALSE
    <3> DEFINE n == Cardinality(Entries) + 1
               t == [i \in 1 .. n |-> s[i]]
    <3>1. n \in Nat /\ n <= Len(s)
      BY <1>2, <2>1, ListAssumption
    <3>2. t \in [1 .. n -> Entries]
      BY <1>2, <3>1
    <3>3. \E i, j \in 1 .. n : i # j /\ t[i] = t[j]
      BY <3>2, ListAssumption, ZenonT(30)
    <3> QED BY <1>1, <1>2, <3>1, <3>3 DEF Holds, Apart
  <2> QED BY <1>2, <2>1, ListAssumption
<1>4. s \in EntrySeqs
  BY <1>2, <1>3 DEF EntrySeqs
<1>5. Follows(s)
  BY <1>1 DEF Links
<1>6. ASSUME NEW t \in EntrySeqs, Follows(t)
      PROVE  t = s
  <2>1. t \in Seq(Entries)
    <3>1. Cardinality(Entries) \in Nat
      BY ListAssumption
    <3>2. PICK n \in 0 .. Cardinality(Entries) : t \in [1 .. n -> Entries]
      BY DEF EntrySeqs
    <3> QED BY <3>1, <3>2
  <2> HIDE DEF s
  <2> QED BY <1>1, <1>5, <1>6, <2>1, ChainUnique, Zenon
<1>7. ChainOf(q, h) = CHOOSE t \in EntrySeqs : Follows(t)
  BY DEF ChainOf
<1> HIDE DEF s, Follows
<1>8. ChainOf(q, h) = s
  BY <1>4, <1>5, <1>6, <1>7
<1> QED BY <1>8 DEF s

-----------------------------------------------------------------------------
(* The pointers that __list_splice writes: f and z are the first and the   *)
(* last entry of the list that is moved, b the node behind the head h.     *)
Spliced(q, h, f, z, b, r) ==
  /\ r \in Pointers
  /\ r.next[h] = f /\ r.next[z] = b /\ r.prev[f] = h /\ r.prev[b] = z
  /\ \A x \in Nodes \ {h, z} : r.next[x] = q.next[x]
  /\ \A x \in Nodes \ {f, b} : r.prev[x] = q.prev[x]

LEMMA SpliceWrites ==
  ASSUME NEW q \in Pointers, NEW l \in Nodes, NEW h \in Nodes,
         q.next[l] \in Nodes, q.prev[l] \in Nodes \ {h},
         q.next[h] \in Nodes \ {q.next[l]}
  PROVE  Spliced(q, h, q.next[l], q.prev[l], q.next[h], __list_splice(q, l, h))
BY Zenon DEF __list_splice, Pointers, Spliced

Joined(l, h, s, t, c) ==
  /\ c \in Seq(Entries) /\ Len(c) = Len(s) + Len(t)
  /\ At(h, c, 0) = h
  /\ \A i \in 1 .. Len(s) : At(h, c, i) = At(l, s, i)
  /\ \A j \in 1 .. Len(t) + 1 : At(h, c, Len(s) + j) = At(h, t, j)

LEMMA ConcatPlaces ==
  ASSUME NEW l, NEW h, NEW s \in Seq(Entries), NEW t \in Seq(Entries)
  PROVE  Joined(l, h, s, t, s \o t)
<1> DEFINE c == s \o t
<1>1. /\ Len(s) \in Nat /\ DOMAIN s = 1 .. Len(s)
      /\ Len(t) \in Nat /\ DOMAIN t = 1 .. Len(t)
  OBVIOUS
<1>2. /\ c \in Seq(Entries) /\ Len(c) = Len(s) + Len(t)
      /\ \A i \in 1 .. Len(s) + Len(t) : c[i] = IF i <= Len(s) THEN s[i] ELSE t[i - Len(s)]
  BY ConcatIs
<1>3. DOMAIN c = 1 .. Len(s) + Len(t)
  BY <1>2
<1> HIDE DEF c
<1>4. At(h, c, 0) = h
  BY <1>1, <1>3 DEF At
<1>5. \A i \in 1 .. Len(s) : At(h, c, i) = At(l, s, i)
  BY <1>1, <1>2, <1>3 DEF At
<1>6. \A j \in 1 .. Len(t) + 1 : At(h, c, Len(s) + j) = At(h, t, j)
  BY <1>1, <1>2, <1>3, SMTT(30) DEF At
<1> QED BY <1>2, <1>4, <1>5, <1>6 DEF c, Joined

(* __list_splice puts the entries of the list l before those of h. *)
LEMMA SpliceHolds ==
  ASSUME NEW q, NEW U, NEW L, Holds(q, U, L), NEW l \in Heads \ U, NEW h \in Heads \ U,
         l # h, Len(L[l]) # 0
  PROVE  Holds(__list_splice(q, l, h), U \cup {l},
               [L EXCEPT ![h] = L[l] \o L[h], ![l] = <<>>])
<1> DEFINE s == L[l]
           t == L[h]
           f == At(l, s, 1)
           z == At(l, s, Len(s))
           b == At(h, t, 1)
           r == __list_splice(q, l, h)
           c == s \o t
           M == [L EXCEPT ![h] = c, ![l] = <<>>]
<1>1. /\ q \in Pointers /\ U \subseteq Heads /\ L \in [Heads -> Seq(Entries)]
      /\ \A g \in Heads : L[g] \in Seq(Entries)
      /\ \A g \in U : L[g] = <<>>
      /\ \A g \in Heads \ U : Links(q, g, L[g])
  BY Held
<1>2. l \in Heads /\ h \in Heads /\ s \in Seq(Entries) /\ t \in Seq(Entries)
  BY <1>1
<1>3. /\ Len(s) \in Nat /\ Len(s) # 0 /\ At(l, s, 0) = l /\ At(l, s, Len(s) + 1) = l
      /\ \A i \in 1 .. Len(s) : At(l, s, i) = s[i] /\ s[i] \in Entries
  BY <1>2, Places, Zenon
<1>4. /\ Len(t) \in Nat /\ At(h, t, 0) = h /\ At(h, t, Len(t) + 1) = h
      /\ \A i \in 1 .. Len(t) : At(h, t, i) = t[i] /\ t[i] \in Entries
  BY <1>2, Places, Zenon
<1>5. \A i \in 0 .. Len(s) + 1 : At(l, s, i) \in Nodes
  BY <1>3 DEF Nodes
<1>6. \A j \in 0 .. Len(t) + 1 : At(h, t, j) \in Nodes
  BY <1>4 DEF Nodes
<1>7. \A i \in 0 .. Len(s) :
        q.next[At(l, s, i)] = At(l, s, i + 1) /\ q.prev[At(l, s, i + 1)] = At(l, s, i)
  BY <1>1 DEF Links
<1>8. \A j \in 0 .. Len(t) :
        q.next[At(h, t, j)] = At(h, t, j + 1) /\ q.prev[At(h, t, j + 1)] = At(h, t, j)
  BY <1>1 DEF Links
<1>9. \A i \in 0 .. Len(s), j \in 0 .. Len(t) + 1 : At(l, s, i) # At(h, t, j)
  <2>1. \A i \in 0 .. Len(s), j \in 0 .. Len(t) : At(l, s, i) # At(h, t, j)
    BY <1>2, Distinct
  <2>2. \A j \in 0 .. Len(t) + 1 : j \in 0 .. Len(t) \/ j = Len(t) + 1
    BY <1>4
  <2>3. 0 \in 0 .. Len(t)
    BY <1>4
  <2> QED BY <1>4, <2>1, <2>2, <2>3, Zenon
<1>10. /\ q.next[l] = f /\ q.prev[l] = z /\ q.next[h] = b
       /\ f \in Nodes /\ z \in Nodes \ {h} /\ b \in Nodes \ {f}
  <2>1. /\ 0 \in 0 .. Len(s) /\ Len(s) \in 0 .. Len(s) /\ 1 \in 0 .. Len(s) /\ 0 + 1 = 1
        /\ 0 \in 0 .. Len(t) /\ 0 \in 0 .. Len(t) + 1 /\ 1 \in 0 .. Len(t) + 1
        /\ Len(s) \in 0 .. Len(s) + 1 /\ 1 \in 0 .. Len(s) + 1
    BY <1>3, <1>4
  <2>2. q.next[l] = f /\ q.prev[l] = z /\ q.next[h] = b
    BY <1>3, <1>4, <1>7, <1>8, <2>1
  <2>3. f \in Nodes /\ z \in Nodes /\ b \in Nodes
    BY <1>5, <1>6, <2>1
  <2> QED BY <1>4, <1>9, <2>1, <2>2, <2>3, SMTT(30)
<1>11. /\ r \in Pointers
       /\ r.next[h] = f /\ r.next[z] = b /\ r.prev[f] = h /\ r.prev[b] = z
       /\ \A x \in Nodes \ {h, z} : r.next[x] = q.next[x]
       /\ \A x \in Nodes \ {f, b} : r.prev[x] = q.prev[x]
  <2>1. l \in Nodes /\ h \in Nodes
    BY <1>2 DEF Nodes
  <2> HIDE DEF f, z, b
  <2>2. Spliced(q, h, f, z, b, r)
    BY <1>1, <1>10, <2>1, SpliceWrites
  <2> QED BY <2>2, Zenon DEF Spliced
<1>12. /\ c \in Seq(Entries) /\ Len(c) = Len(s) + Len(t)
       /\ At(h, c, 0) = h
       /\ \A i \in 1 .. Len(s) : At(h, c, i) = At(l, s, i)
       /\ \A j \in 1 .. Len(t) + 1 : At(h, c, Len(s) + j) = At(h, t, j)
  <2>1. Joined(l, h, s, t, c)
    BY <1>2, ConcatPlaces, Zenon
  <2> HIDE DEF s, t, c
  <2> QED BY <2>1, Zenon DEF Joined
<1> HIDE DEF r, c
<1>13. Links(r, h, c)
  <2> SUFFICES ASSUME NEW i \in 0 .. Len(s) + Len(t)
               PROVE  r.next[At(h, c, i)] = At(h, c, i + 1) /\ r.prev[At(h, c, i + 1)] = At(h, c, i)
    BY <1>12, Zenon DEF Links
  <2>1. CASE i = 0
    <3>1. At(h, c, 1) = f
      BY <1>3, <1>12
    <3> HIDE DEF f, z, b
    <3> QED BY <1>11, <1>12, <2>1, <3>1
  <2>2. CASE i \in 1 .. Len(s) - 1
    <3>1. /\ i \in 1 .. Len(s) /\ i + 1 \in 1 .. Len(s) /\ i \in 0 .. Len(s) /\ i + 1 \in 0 .. Len(s)
          /\ i + 1 \in 0 .. Len(s) + 1 /\ i \in 0 .. Len(s) + 1
          /\ i # Len(s) /\ i + 1 # 1 /\ Len(s) \in 0 .. Len(s) /\ 1 \in 0 .. Len(s)
          /\ 0 \in 0 .. Len(t) + 1 /\ 1 \in 0 .. Len(t) + 1
      BY <1>3, <1>4, <2>2
    <3>2. At(l, s, i) # z /\ At(l, s, i + 1) # f
      BY <1>2, <3>1, Distinct
    <3>3. At(l, s, i) # h /\ At(l, s, i + 1) # b
      BY <1>4, <1>9, <3>1, Zenon
    <3>4. At(l, s, i) \in Nodes \ {h, z} /\ At(l, s, i + 1) \in Nodes \ {f, b}
      BY <1>5, <3>1, <3>2, <3>3
    <3>5. At(h, c, i) = At(l, s, i) /\ At(h, c, i + 1) = At(l, s, i + 1)
      BY <1>12, <3>1
    <3> HIDE DEF f, z, b
    <3> QED BY <1>7, <1>11, <3>1, <3>4, <3>5, SMTT(30)
  <2>3. CASE i = Len(s)
    <3>1. Len(s) \in 1 .. Len(s) /\ 1 \in 1 .. Len(t) + 1
      BY <1>3, <1>4
    <3>2. At(h, c, i) = z /\ At(h, c, i + 1) = b
      BY <1>12, <2>3, <3>1, SMTT(30)
    <3> HIDE DEF f, z, b
    <3> QED BY <1>11, <3>2
  <2>4. CASE i > Len(s)
    <3> DEFINE j == i - Len(s)
    <3>0. Len(s) \in Nat /\ Len(s) # 0 /\ Len(t) \in Nat
      BY <1>3, <1>4, Zenon
    <3>1. /\ j \in 1 .. Len(t) /\ j \in 1 .. Len(t) + 1 /\ j + 1 \in 1 .. Len(t) + 1
          /\ i = Len(s) + j /\ i + 1 = Len(s) + (j + 1)
          /\ j \in 0 .. Len(t) /\ j \in 0 .. Len(t) + 1 /\ j + 1 \in 0 .. Len(t) + 1 /\ j # 0
          /\ 0 \in 0 .. Len(t) /\ 0 + 1 = 1 /\ Len(s) \in 0 .. Len(s) /\ 1 \in 0 .. Len(s)
      <4> HIDE DEF s, t
      <4> QED BY <2>4, <3>0
    <3> HIDE DEF j
    <3>2. At(h, t, j) # h
      BY <1>2, <1>4, <3>1, Distinct
    <3>3. At(h, t, j + 1) # b
      BY <1>2, <3>1, Successors
    <3>4. At(h, t, j) # z /\ At(h, t, j + 1) # f
      BY <1>9, <3>1, Zenon
    <3>5. At(h, t, j) \in Nodes \ {h, z} /\ At(h, t, j + 1) \in Nodes \ {f, b}
      BY <1>6, <3>1, <3>2, <3>3, <3>4, SMTT(30)
    <3>6. At(h, c, i) = At(h, t, j) /\ At(h, c, i + 1) = At(h, t, j + 1)
      BY <1>12, <3>1
    <3> HIDE DEF f, z, b
    <3> QED BY <1>8, <1>11, <3>1, <3>5, <3>6
  <2> QED BY <1>3, <1>4, <2>1, <2>2, <2>3, <2>4, SMTT(30)
<1>14. ASSUME NEW g \in Heads \ U, g # h, g # l
       PROVE  Links(r, g, L[g])
  <2>0. g \in Heads /\ L[g] \in Seq(Entries) /\ Links(q, g, L[g])
    BY <1>1, <1>14
  <2>1. ASSUME NEW i \in 0 .. Len(L[g])
        PROVE  At(g, L[g], i) \in Nodes \ {f, z, b, h}
    <3>1. /\ Len(L[g]) \in Nat /\ At(g, L[g], 0) = g
          /\ \A j \in 1 .. Len(L[g]) : At(g, L[g], j) = L[g][j] /\ L[g][j] \in Entries
      <4>1. Placed(g, L[g])
        BY <2>0, ArePlaced, Zenon
      <4> QED BY <4>1 DEF Placed
    <3>2. At(g, L[g], i) \in Nodes
      BY <3>1 DEF Nodes
    <3>3. \A j \in 0 .. Len(t) : At(g, L[g], i) # At(h, t, j)
      BY <1>2, <1>14, Distinct
    <3>4. \A j \in 0 .. Len(s) : At(g, L[g], i) # At(l, s, j)
      BY <1>2, <1>14, Distinct
    <3>5. 1 \in 0 .. Len(t) \/ b = At(h, t, 0)
      BY <1>4
    <3>6. 0 \in 0 .. Len(t) /\ Len(s) \in 0 .. Len(s) /\ 1 \in 0 .. Len(s)
      BY <1>3, <1>4
    <3> QED BY <1>4, <3>2, <3>3, <3>4, <3>5, <3>6, SMTT(30)
  <2> HIDE DEF f, z, b
  <2> QED BY <1>11, <2>0, <2>1, LinksFrame
<1>15. /\ M \in [Heads -> Seq(Entries)] /\ M[h] = c /\ M[l] = <<>>
       /\ \A g \in Heads : g # h /\ g # l => M[g] = L[g]
  BY <1>1, <1>2, <1>12, SMTT(30)
<1> HIDE DEF M
<1> DEFINE Origin(g, i, v, x) ==
             /\ v \in Heads /\ x \in 1 .. Len(L[v]) /\ M[g][i] = L[v][x]
             /\ v = l => g = h /\ x = i
             /\ v = h => g = h /\ i = x + Len(s)
             /\ v # l /\ v # h => g = v /\ x = i
<1>16. ASSUME NEW g \in Heads, NEW i \in 1 .. Len(M[g])
       PROVE  \E v, x : Origin(g, i, v, x)
  <2>1. CASE g = h
    <3>0. Len(s) \in Nat /\ Len(t) \in Nat
      BY <1>3, <1>4, Zenon
    <3>1. i \in 1 .. Len(s) + Len(t)
      BY <1>12, <1>15, <2>1, Zenon
    <3>2. c[i] = IF i <= Len(s) THEN s[i] ELSE t[i - Len(s)]
      BY <1>2, <3>1, ConcatIs DEF c
    <3>3. CASE i <= Len(s)
      <4>1. i \in 1 .. Len(L[l]) /\ M[g][i] = L[l][i]
        BY <1>15, <2>1, <3>0, <3>1, <3>2, <3>3
      <4> QED BY <1>1, <2>1, <4>1
    <3>4. CASE ~(i <= Len(s))
      <4>1. i - Len(s) \in 1 .. Len(t) /\ i = (i - Len(s)) + Len(s)
        <5> HIDE DEF s, t
        <5> QED BY <3>0, <3>1, <3>4
      <4>2. M[g][i] = L[h][i - Len(s)]
        BY <1>15, <2>1, <3>2, <3>4, Zenon
      <4>3. Origin(g, i, h, i - Len(s))
        BY <1>1, <2>1, <4>1, <4>2, Zenon
      <4> QED BY <4>3, Zenon
    <3> QED BY <3>3, <3>4
  <2>2. CASE g = l
    BY <1>15, <2>2
  <2>3. CASE g # h /\ g # l
    BY <1>15, <2>3, Zenon
  <2> QED BY <2>1, <2>2, <2>3
<1>17. Apart(M)
  <2> SUFFICES ASSUME NEW g \in Heads, NEW d \in Heads,
                      NEW i \in 1 .. Len(M[g]), NEW j \in 1 .. Len(M[d]), M[g][i] = M[d][j]
               PROVE  g = d /\ i = j
    BY DEF Apart
  <2>1. PICK v, x : Origin(g, i, v, x)
    BY <1>16, Zenon
  <2>2. PICK w, y : Origin(d, j, w, y)
    BY <1>16, Zenon
  <2>3. Apart(L)
    BY DEF Holds
  <2>4. v = w /\ x = y
    <3>1. /\ v \in Heads /\ x \in 1 .. Len(L[v]) /\ M[g][i] = L[v][x]
          /\ w \in Heads /\ y \in 1 .. Len(L[w]) /\ M[d][j] = L[w][y]
      BY <2>1, <2>2, Zenon
    <3>2. L[v][x] = L[w][y]
      BY <3>1, Zenon
    <3> QED BY <2>3, <3>1, <3>2, SMTT(30) DEF Apart
  <2>5. i \in Nat /\ j \in Nat /\ Len(s) \in Nat
    BY <1>3
  <2>6. CASE v = h
    <3>1. g = h /\ d = h /\ i = x + Len(s) /\ j = x + Len(s)
      BY <2>1, <2>2, <2>4, <2>6, Zenon
    <3> QED BY <3>1
  <2>7. CASE v # h
    BY <2>1, <2>2, <2>4, <2>7, Zenon
  <2> QED BY <2>6, <2>7
<1>18. Holds(r, U \cup {l}, M)
  <2>1. \A g \in U \cup {l} : M[g] = <<>>
    BY <1>1, <1>15
  <2>2. \A g \in Heads \ (U \cup {l}) : Links(r, g, M[g])
    BY <1>13, <1>14, <1>15
  <2> QED BY <1>1, <1>2, <1>11, <1>15, <1>17, <2>1, <2>2, SMTT(30) DEF Holds
<1> QED BY <1>18 DEF r, M, c

-----------------------------------------------------------------------------
(* Removing from a sequence, and what it holds from an entry on.           *)
Once(s) == \A i, j \in 1 .. Len(s) : s[i] = s[j] => i = j

LEMMA FromIs ==
  ASSUME NEW s \in Seq(Entries), Once(s), NEW i \in 1 .. Len(s)
  PROVE  From(s, s[i]) = SubSeq(s, i, Len(s))
<1>1. DOMAIN s = 1 .. Len(s)
  OBVIOUS
<1>2. (CHOOSE j \in DOMAIN s : s[j] = s[i]) = i
  BY <1>1 DEF Once
<1> QED BY <1>2, Zenon DEF From

LEMMA OtherIs ==
  ASSUME NEW s \in Seq(Entries), Once(s), NEW k \in 1 .. Len(s)
  PROVE  Seqs!Other(s, s[k]) = Removed(s, k)
<1>1. DOMAIN s = 1 .. Len(s)
  OBVIOUS
<1>2. (CHOOSE j \in DOMAIN s : s[j] = s[k]) = k
  BY <1>1 DEF Once
<1>3. Seqs!In(s[k], s)
  BY <1>1 DEF Seqs!In
<1> QED BY <1>2, <1>3, Zenon DEF Seqs!Other, Removed

LEMMA OtherNone ==
  ASSUME NEW s \in Seq(Entries), NEW e, ~In(e, s)
  PROVE  Seqs!Other(s, e) = s
<1>1. DOMAIN s = 1 .. Len(s)
  OBVIOUS
<1>2. ~Seqs!In(e, s)
  BY <1>1 DEF Seqs!In, In
<1> QED BY <1>2 DEF Seqs!Other

LEMMA SuffixIs ==
  ASSUME NEW s \in Seq(Entries), NEW i \in 1 .. Len(s)
  PROVE  /\ SubSeq(s, i, Len(s)) \in Seq(Entries)
         /\ Len(SubSeq(s, i, Len(s))) = Len(s) - i + 1
         /\ \A j \in 1 .. Len(s) - i + 1 : SubSeq(s, i, Len(s))[j] = s[i + j - 1]
<1>1. Len(s) \in Nat /\ \A j \in 1 .. Len(s) : s[j] \in Entries
  BY Places
<1>2. i \in Int /\ Len(s) \in Int /\ i <= Len(s) /\ \A j \in i .. Len(s) : s[j] \in Entries
  BY <1>1
<1> QED BY <1>2

(* What is before a walk when the entry at k, not the next one, goes away. *)
LEMMA FromRemoved ==
  ASSUME NEW s \in Seq(Entries), Once(s), NEW i \in 1 .. Len(s), NEW k \in 1 .. Len(s), i # k
  PROVE  From(Removed(s, k), s[i]) = Seqs!Other(From(s, s[i]), s[k])
<1> DEFINE r == Removed(s, k)
           n == Len(s)
           j == IF i < k THEN i ELSE i - 1
           f == SubSeq(s, i, n)
           g == SubSeq(r, j, n - 1)
<1>1. n \in Nat /\ \A x \in 1 .. n : s[x] \in Entries
  BY Places
<1>2. /\ r \in Seq(Entries) /\ Len(r) = n - 1
      /\ \A x \in 1 .. n - 1 : r[x] = IF x < k THEN s[x] ELSE s[x + 1]
  <2>1. RemovedAt(s[k], s, k, r)
    BY RemovedPlaces, Zenon
  <2>2. r \in Seq(Entries) /\ Len(r) = n - 1
    BY <2>1, Zenon DEF RemovedAt
  <2> QED BY <2>2 DEF Removed
<1> HIDE DEF r
<1>3. j \in 1 .. n - 1 /\ r[j] = s[i]
  BY <1>1, <1>2, SMTT(30)
<1>4. Once(r)
  <2> SUFFICES ASSUME NEW x \in 1 .. n - 1, NEW y \in 1 .. n - 1, r[x] = r[y]
               PROVE  x = y
    BY <1>2 DEF Once
  <2> DEFINE u == IF x < k THEN x ELSE x + 1
             v == IF y < k THEN y ELSE y + 1
  <2>1. u \in 1 .. n /\ v \in 1 .. n /\ r[x] = s[u] /\ r[y] = s[v] /\ (u = v => x = y)
    BY <1>1, <1>2
  <2> HIDE DEF u, v
  <2> QED BY <2>1, Zenon DEF Once
<1>5. From(s, s[i]) = f /\ From(r, s[i]) = g
  <2>1. From(s, s[i]) = f
    BY FromIs
  <2>2. From(r, r[j]) = SubSeq(r, j, Len(r))
    BY <1>2, <1>3, <1>4, FromIs, Zenon
  <2> QED BY <1>2, <1>3, <2>1, <2>2
<1>6. /\ f \in Seq(Entries) /\ Len(f) = n - i + 1
      /\ \A x \in 1 .. n - i + 1 : f[x] = s[i + x - 1]
  BY SuffixIs
<1>7. /\ g \in Seq(Entries) /\ Len(g) = (n - 1) - j + 1
      /\ \A x \in 1 .. (n - 1) - j + 1 : g[x] = r[j + x - 1]
  <2>1. j \in 1 .. Len(r)
    BY <1>2, <1>3
  <2>2. /\ SubSeq(r, j, Len(r)) \in Seq(Entries)
        /\ Len(SubSeq(r, j, Len(r))) = Len(r) - j + 1
        /\ \A x \in 1 .. Len(r) - j + 1 : SubSeq(r, j, Len(r))[x] = r[j + x - 1]
    <3> HIDE DEF j
    <3> QED BY <1>2, <2>1, SuffixIs
  <2>3. SubSeq(r, j, Len(r)) = g
    BY <1>2
  <2> HIDE DEF j, g
  <2> QED BY <1>2, <2>2, <2>3, Zenon
<1> HIDE DEF f, g
<1>8. CASE k < i
  <2>1. ~In(s[k], f)
    <3> SUFFICES ASSUME NEW x \in 1 .. n - i + 1, f[x] = s[k] PROVE FALSE
      BY <1>6 DEF In
    <3>1. i + x - 1 \in 1 .. n /\ i + x - 1 # k
      BY <1>1, <1>8
    <3> QED BY <1>6, <3>1 DEF Once
  <2>2. Seqs!Other(f, s[k]) = f
    BY <1>6, <2>1, OtherNone
  <2>3. j = i - 1
    BY <1>8
  <2>4. Len(g) = Len(f)
    BY <1>1, <1>6, <1>7, <2>3, SMTT(30)
  <2>5. ASSUME NEW x \in 1 .. Len(f) PROVE f[x] = g[x]
    <3>1. /\ x \in 1 .. n - i + 1 /\ x \in 1 .. (n - 1) - j + 1
          /\ j + x - 1 \in 1 .. n - 1 /\ ~(j + x - 1 < k) /\ (j + x - 1) + 1 = i + x - 1
      BY <1>1, <1>6, <1>8, <2>3
    <3> QED BY <1>2, <1>6, <1>7, <3>1, ZenonT(30)
  <2>6. f = g
    BY <1>6, <1>7, <2>4, <2>5, SeqSame, Zenon
  <2> QED BY <1>5, <2>2, <2>6 DEF r
<1>9. CASE i < k
  <2> DEFINE m == k - i + 1
  <2>0. m \in 1 .. n - i + 1 /\ i + m - 1 = k /\ j = i
    BY <1>1, <1>9
  <2>1. m \in 1 .. Len(f) /\ f[m] = s[k]
    BY <1>6, <2>0
  <2>2. Once(f)
    <3> SUFFICES ASSUME NEW x \in 1 .. n - i + 1, NEW y \in 1 .. n - i + 1, f[x] = f[y]
                 PROVE  x = y
      BY <1>6 DEF Once
    <3>1. i + x - 1 \in 1 .. n /\ i + y - 1 \in 1 .. n /\ (i + x - 1 = i + y - 1 => x = y)
      BY <1>1
    <3> QED BY <1>6, <3>1, SMTT(30) DEF Once
  <2>3. Seqs!Other(f, s[k]) = Removed(f, m)
    BY <1>6, <2>1, <2>2, OtherIs
  <2>4. /\ Removed(f, m) \in Seq(Entries) /\ Len(Removed(f, m)) = Len(f) - 1
        /\ \A x \in 1 .. Len(f) - 1 : Removed(f, m)[x] = IF x < m THEN f[x] ELSE f[x + 1]
    <3>1. RemovedAt(s[k], f, m, Removed(f, m))
      BY <1>6, <2>1, RemovedPlaces, Zenon
    <3>2. Removed(f, m) \in Seq(Entries) /\ Len(Removed(f, m)) = Len(f) - 1
      BY <3>1, Zenon DEF RemovedAt
    <3> QED BY <3>2, Zenon DEF Removed
  <2>5. Len(g) = Len(f) - 1
    BY <1>1, <1>6, <1>7, <2>0
  <2>6. ASSUME NEW x \in 1 .. Len(f) - 1 PROVE Removed(f, m)[x] = g[x]
    <3>1. /\ x \in 1 .. n - i /\ x \in 1 .. n - i + 1 /\ x + 1 \in 1 .. n - i + 1
          /\ x \in 1 .. (n - 1) - j + 1
          /\ j + x - 1 \in 1 .. n - 1 /\ j + x - 1 = i + x - 1
          /\ i + (x + 1) - 1 = (i + x - 1) + 1 /\ (x < m <=> i + x - 1 < k)
      BY <1>1, <1>6, <1>9, <2>0, SMTT(30)
    <3>2. g[x] = IF i + x - 1 < k THEN s[i + x - 1] ELSE s[(i + x - 1) + 1]
      BY <1>2, <1>7, <3>1, SMTT(30)
    <3>3. f[x] = s[i + x - 1] /\ f[x + 1] = s[(i + x - 1) + 1]
      <4>1. f[x] = s[i + x - 1]
        BY <1>6, <3>1, Zenon
      <4>2. f[x + 1] = s[i + (x + 1) - 1]
        BY <1>6, <3>1, Zenon
      <4> QED BY <3>1, <4>1, <4>2, Zenon
    <3> QED BY <2>4, <3>1, <3>2, <3>3, SMTT(30)
  <2>7. Removed(f, m) = g
    BY <1>7, <2>4, <2>5, <2>6, SeqSame, Zenon
  <2> QED BY <1>5, <2>3, <2>7 DEF r
<1> QED BY <1>8, <1>9

(* ... and when an entry is added at the tail. *)
LEMMA FromAppend ==
  ASSUME NEW s \in Seq(Entries), Once(s), NEW i \in 1 .. Len(s), NEW e \in Entries, ~In(e, s)
  PROVE  /\ Once(Append(s, e))
         /\ From(Append(s, e), s[i]) = Append(From(s, s[i]), e)
<1> DEFINE a == Append(s, e)
           n == Len(s)
           f == SubSeq(s, i, n)
           g == SubSeq(a, i, n + 1)
           b == Append(f, e)
<1>1. n \in Nat /\ \A x \in 1 .. n : s[x] \in Entries
  BY Places
<1>2. /\ a \in Seq(Entries) /\ Len(a) = n + 1
      /\ (\A x \in 1 .. n : a[x] = s[x]) /\ a[n + 1] = e
  BY AppendIs
<1> HIDE DEF a
<1>3. Once(a)
  <2> SUFFICES ASSUME NEW x \in 1 .. n + 1, NEW y \in 1 .. n + 1, a[x] = a[y]
               PROVE  x = y
    BY <1>2 DEF Once
  <2>1. \A z \in 1 .. n + 1 : z = n + 1 \/ z \in 1 .. n
    BY <1>1
  <2>2. \A z \in 1 .. n : s[z] # e
    BY DEF In
  <2> QED BY <1>2, <2>1, <2>2 DEF Once
<1>4. i \in 1 .. n + 1 /\ a[i] = s[i]
  BY <1>1, <1>2
<1>5. From(s, s[i]) = f /\ From(a, s[i]) = g
  <2>1. From(s, s[i]) = f
    BY FromIs
  <2>2. From(a, a[i]) = SubSeq(a, i, Len(a))
    BY <1>2, <1>3, <1>4, FromIs, Zenon
  <2> QED BY <1>2, <1>4, <2>1, <2>2
<1>6. /\ f \in Seq(Entries) /\ Len(f) = n - i + 1
      /\ \A x \in 1 .. n - i + 1 : f[x] = s[i + x - 1]
  BY SuffixIs
<1>7. /\ g \in Seq(Entries) /\ Len(g) = (n + 1) - i + 1
      /\ \A x \in 1 .. (n + 1) - i + 1 : g[x] = a[i + x - 1]
  <2>1. i \in 1 .. Len(a)
    BY <1>2, <1>4
  <2>2. /\ SubSeq(a, i, Len(a)) \in Seq(Entries)
        /\ Len(SubSeq(a, i, Len(a))) = Len(a) - i + 1
        /\ \A x \in 1 .. Len(a) - i + 1 : SubSeq(a, i, Len(a))[x] = a[i + x - 1]
    BY <1>2, <2>1, SuffixIs
  <2>3. SubSeq(a, i, Len(a)) = g
    BY <1>2
  <2> HIDE DEF g
  <2> QED BY <1>2, <2>2, <2>3, ZenonT(30)
<1> HIDE DEF f, g
<1>8. /\ b \in Seq(Entries) /\ Len(b) = Len(f) + 1
      /\ (\A x \in 1 .. Len(f) : b[x] = f[x]) /\ b[Len(f) + 1] = e
  BY <1>6, AppendIs
<1> HIDE DEF b
<1>9. Len(b) = Len(g)
  BY <1>1, <1>6, <1>7, <1>8
<1>10. ASSUME NEW x \in 1 .. Len(b) PROVE b[x] = g[x]
  <2>1. CASE x = n - i + 2
    <3>1. x = Len(f) + 1 /\ x \in 1 .. (n + 1) - i + 1 /\ i + x - 1 = n + 1
      BY <1>1, <1>6, <2>1
    <3> QED BY <1>2, <1>7, <1>8, <3>1, SMTT(30)
  <2>2. CASE x # n - i + 2
    <3>1. x \in 1 .. n - i + 1 /\ x \in 1 .. Len(f) /\ x \in 1 .. (n + 1) - i + 1
          /\ i + x - 1 \in 1 .. n
      BY <1>1, <1>6, <1>8, <2>2
    <3> QED BY <1>2, <1>6, <1>7, <1>8, <3>1, SMTT(30)
  <2> QED BY <2>1, <2>2
<1>11. b = g
  BY <1>7, <1>8, <1>9, <1>10, SeqSame, Zenon
<1> QED BY <1>3, <1>5, <1>11 DEF a, b

-----------------------------------------------------------------------------
(* The operations of list.h on the lists.                                  *)
LEMMA InsertedFront ==
  ASSUME NEW s \in Seq(Entries), NEW e \in Entries
  PROVE  Inserted(s, 0, e) = <<e>> \o s
<1> DEFINE r == Inserted(s, 0, e)
           c == <<e>> \o s
<1>1. Len(s) \in Nat
  BY Places
<1>2. <<e>> \in Seq(Entries) /\ Len(<<e>>) = 1 /\ <<e>>[1] = e
  OBVIOUS
<1>3. /\ c \in Seq(Entries) /\ Len(c) = 1 + Len(s)
      /\ \A i \in 1 .. 1 + Len(s) : c[i] = IF i <= 1 THEN <<e>>[i] ELSE s[i - 1]
  BY <1>2, ConcatIs
<1>4. r \in Seq(Entries) /\ Len(r) = Len(s) + 1
  <2>1. InsertedAt(e, s, 0, e, r)
    BY <1>1, InsertedPlaces
  <2> QED BY <2>1, Zenon DEF InsertedAt
<1>5. \A i \in 1 .. Len(s) + 1 : r[i] = IF i <= 0 THEN s[i] ELSE IF i = 0 + 1 THEN e ELSE s[i - 1]
  BY DEF Inserted
<1> HIDE DEF r, c
<1>6. \A i \in 1 .. Len(s) + 1 : r[i] = c[i]
  BY <1>1, <1>2, <1>3, <1>5, SMTT(30)
<1>7. r = c
  BY <1>1, <1>3, <1>4, <1>6, SeqSame
<1> QED BY <1>7 DEF r, c

LEMMA InsertedTail ==
  ASSUME NEW s \in Seq(Entries), NEW e \in Entries
  PROVE  Inserted(s, Len(s), e) = Append(s, e)
<1> DEFINE r == Inserted(s, Len(s), e)
           c == Append(s, e)
<1>1. Len(s) \in Nat
  BY Places
<1>3. /\ c \in Seq(Entries) /\ Len(c) = Len(s) + 1
      /\ (\A i \in 1 .. Len(s) : c[i] = s[i]) /\ c[Len(s) + 1] = e
  BY AppendIs
<1>4. r \in Seq(Entries) /\ Len(r) = Len(s) + 1
  <2>1. InsertedAt(e, s, Len(s), e, r)
    BY <1>1, InsertedPlaces
  <2> QED BY <2>1, Zenon DEF InsertedAt
<1>5. \A i \in 1 .. Len(s) + 1 :
        r[i] = IF i <= Len(s) THEN s[i] ELSE IF i = Len(s) + 1 THEN e ELSE s[i - 1]
  BY DEF Inserted
<1> HIDE DEF r, c
<1>6. \A i \in 1 .. Len(s) + 1 : r[i] = c[i]
  BY <1>1, <1>3, <1>5
<1>7. r = c
  BY <1>1, <1>3, <1>4, <1>6, SeqSame
<1> QED BY <1>7 DEF r, c

Linked(q, h, s) ==
  /\ Len(s) \in Nat /\ At(h, s, 0) = h /\ At(h, s, Len(s) + 1) = h
  /\ \A i \in 0 .. Len(s) :
       q.next[At(h, s, i)] = At(h, s, i + 1) /\ q.prev[At(h, s, i + 1)] = At(h, s, i)

LEMMA Neighbours ==
  ASSUME NEW q, NEW U, NEW L, Holds(q, U, L), NEW h \in Heads \ U
  PROVE  Linked(q, h, L[h])
<1>1. h \in Heads /\ L[h] \in Seq(Entries) /\ Links(q, h, L[h])
  BY Held
<1>2. Len(L[h]) \in Nat /\ At(h, L[h], 0) = h /\ At(h, L[h], Len(L[h]) + 1) = h
  BY <1>1, Places, Zenon
<1> QED BY <1>1, <1>2, Zenon DEF Links, Linked

LEMMA FrontHolds ==
  ASSUME NEW q, NEW U, NEW L, Holds(q, U, L), NEW h \in Heads \ U,
         NEW e \in Entries, \A g \in Heads : ~In(e, L[g])
  PROVE  Holds(list_add(q, e, h), U, [L EXCEPT ![h] = <<e>> \o L[h]])
<1>1. h \in Heads /\ L[h] \in Seq(Entries)
  BY Held
<1>2. Len(L[h]) \in Nat /\ At(h, L[h], 0) = h /\ q.next[h] = At(h, L[h], 0 + 1)
  <2>0. Linked(q, h, L[h])
    BY Neighbours, Zenon
  <2>1. Len(L[h]) \in Nat
    BY <2>0, Zenon DEF Linked
  <2>2. 0 \in 0 .. Len(L[h])
    BY <2>1
  <2>3. At(h, L[h], 0) = h /\ q.next[At(h, L[h], 0)] = At(h, L[h], 0 + 1)
    BY <2>0, <2>2, Zenon DEF Linked
  <2> QED BY <2>1, <2>3, Zenon
<1>3. 0 \in 0 .. Len(L[h])
  BY <1>2
<1>4. Holds(__list_add(q, e, At(h, L[h], 0), At(h, L[h], 0 + 1)), U,
            [L EXCEPT ![h] = Inserted(L[h], 0, e)])
  BY <1>3, AddHolds, Zenon
<1>5. Inserted(L[h], 0, e) = <<e>> \o L[h]
  BY <1>1, InsertedFront, Zenon
<1> QED BY <1>2, <1>4, <1>5, Zenon DEF list_add

LEMMA TailHolds ==
  ASSUME NEW q, NEW U, NEW L, Holds(q, U, L), NEW h \in Heads \ U,
         NEW e \in Entries, \A g \in Heads : ~In(e, L[g])
  PROVE  Holds(list_add_tail(q, e, h), U, [L EXCEPT ![h] = Append(L[h], e)])
<1> DEFINE n == Len(L[h])
<1>1. h \in Heads /\ L[h] \in Seq(Entries)
  BY Held
<1>2. n \in Nat /\ At(h, L[h], n + 1) = h /\ q.prev[h] = At(h, L[h], n)
  <2>0. Linked(q, h, L[h])
    BY Neighbours, Zenon
  <2>1. n \in Nat
    BY <2>0, Zenon DEF Linked
  <2>2. n \in 0 .. n
    BY <2>1
  <2>3. At(h, L[h], n + 1) = h /\ q.prev[At(h, L[h], n + 1)] = At(h, L[h], n)
    BY <2>0, <2>2, Zenon DEF Linked
  <2> QED BY <2>1, <2>3, Zenon
<1>3. n \in 0 .. n
  BY <1>2
<1>4. Holds(__list_add(q, e, At(h, L[h], n), At(h, L[h], n + 1)), U,
            [L EXCEPT ![h] = Inserted(L[h], n, e)])
  BY <1>3, AddHolds, Zenon
<1>5. Inserted(L[h], n, e) = Append(L[h], e)
  BY <1>1, InsertedTail, Zenon
<1> QED BY <1>2, <1>4, <1>5, Zenon DEF list_add_tail

Off(L, e) == [g \in Heads |-> Seqs!Other(L[g], e)]

LEMMA HeldOnce ==
  ASSUME NEW q, NEW U, NEW L, Holds(q, U, L), NEW h \in Heads
  PROVE  L[h] \in Seq(Entries) /\ Once(L[h])
<1>1. L[h] \in Seq(Entries) /\ Apart(L)
  BY DEF Holds
<1> QED BY <1>1 DEF Apart, Once

LEMMA TakeHolds ==
  ASSUME NEW q, NEW U, NEW L, Holds(q, U, L), NEW e \in Entries,
         NEW h \in Heads, In(e, L[h])
  PROVE  /\ Holds(Unlinked(q, e), U, Off(L, e))
         /\ \A g \in Heads : ~In(e, Off(L, e)[g])
<1>1. /\ L \in [Heads -> Seq(Entries)] /\ \A g \in U : L[g] = <<>>
      /\ \A g \in Heads : L[g] \in Seq(Entries)
  BY Held
<1>2. PICK k \in 1 .. Len(L[h]) : L[h][k] = e
  BY DEF In
<1>3. h \in Heads \ U
  BY <1>1, <1>2, SMTT(30)
<1>4. Seqs!Other(L[h], e) = Removed(L[h], k)
  <2>1. L[h] \in Seq(Entries) /\ Once(L[h])
    BY HeldOnce
  <2>2. Seqs!Other(L[h], L[h][k]) = Removed(L[h], k)
    BY <2>1, OtherIs, Zenon
  <2> QED BY <1>2, <2>2
<1>5. ASSUME NEW g \in Heads, g # h PROVE Seqs!Other(L[g], e) = L[g]
  <2>1. ~In(e, L[g])
    BY <1>2, <1>5 DEF In, Holds, Apart
  <2> QED BY <1>1, <2>1, OtherNone
<1>6. Off(L, e) = [L EXCEPT ![h] = Removed(L[h], k)]
  BY <1>1, <1>4, <1>5, Zenon DEF Off
<1>7. /\ Holds(Unlinked(q, L[h][k]), U, [L EXCEPT ![h] = Removed(L[h], k)])
      /\ \A g \in Heads : ~In(L[h][k], [L EXCEPT ![h] = Removed(L[h], k)][g])
  BY <1>3, RemoveHolds
<1> QED BY <1>2, <1>6, <1>7, Zenon

-----------------------------------------------------------------------------
(* The chains read from the pointers, now and after a step.                *)
LEMMA ChainsAre ==
  ASSUME NEW L, Holds(p, undef, L)
  PROVE  Chains = L /\ \A h \in Heads : Chain(h) = L[h]
<1>1. L \in [Heads -> Seq(Entries)] /\ \A h \in undef : L[h] = <<>>
  BY Held
<1>2. \A h \in Heads : Chain(h) = L[h]
  BY <1>1, ChainIs DEF Chain
<1> QED BY <1>1, <1>2 DEF Chains

LEMMA ChainsAreNext ==
  ASSUME NEW L, Holds(p', undef', L)
  PROVE  Chains' = L /\ \A h \in Heads : Chain(h)' = L[h]
<1>1. L \in [Heads -> Seq(Entries)] /\ \A h \in undef' : L[h] = <<>>
  BY Held
<1>2. \A h \in Heads : Chain(h)' = L[h]
  BY <1>1, ChainIs DEF Chain
<1> QED BY <1>1, <1>2 DEF Chains

LEMMA ChainAtIs ==
  ASSUME NEW q, NEW U, NEW L, Holds(q, U, L), NEW h \in Heads
  PROVE  (IF h \in U THEN <<>> ELSE ChainOf(q, h)) = L[h]
<1>1. \A g \in U : L[g] = <<>>
  BY Held
<1> QED BY <1>1, ChainIs

-----------------------------------------------------------------------------
(* The inductive invariant: the pointers hold the chains read from them,   *)
(* no entry twice, and a walk stands at an entry, with the next one it     *)
(* read still on its list, or at the end of it.                            *)
WalkInv ==
  \/ walk = Idle
  \/ /\ walk \in [head : Heads \ undef, pos : Entries, n : Nodes]
     /\ walk.n # walk.pos
     /\ walk.n = walk.head \/ In(walk.n, Chain(walk.head))

ListInv == Holds(p, undef, Chains) /\ WalkInv

Rest == IF walk.n \in Entries THEN From(Chain(walk.head), walk.n) ELSE <<>>

LEMMA NotWalked ==
  ASSUME ~Walking
  PROVE  walk = Idle /\ walk.head = NULL /\ walk.pos = NULL /\ walk.n = NULL /\ Rest = <<>>
<1>1. walk = Idle /\ walk.head = NULL /\ walk.pos = NULL /\ walk.n = NULL
  BY DEF Walking, Idle
<1>2. NULL \notin Entries
  BY ListAssumption
<1> QED BY <1>1, <1>2 DEF Rest

LEMMA Walked ==
  ASSUME ListInv, Walking
  PROVE  /\ walk \in [head : Heads \ undef, pos : Entries, n : Nodes]
         /\ walk.head \in Heads \ undef /\ walk.pos \in Entries /\ walk.n \in Nodes
         /\ walk.n # walk.pos
         /\ Chain(walk.head) = Chains[walk.head]
         /\ Chain(walk.head) \in Seq(Entries) /\ Once(Chain(walk.head))
         /\ \/ walk.n = walk.head /\ walk.n \notin Entries /\ Rest = <<>>
            \/ /\ walk.n \in Entries /\ In(walk.n, Chain(walk.head))
               /\ Rest = From(Chain(walk.head), walk.n)
<1>1. /\ walk \in [head : Heads \ undef, pos : Entries, n : Nodes]
      /\ walk.n # walk.pos
      /\ walk.n = walk.head \/ In(walk.n, Chain(walk.head))
  BY Zenon DEF ListInv, WalkInv, Walking
<1>2. walk.head \in Heads \ undef /\ walk.pos \in Entries /\ walk.n \in Nodes
  BY <1>1
<1>3. Chain(walk.head) = Chains[walk.head]
  BY <1>2 DEF Chains
<1>4. Chain(walk.head) \in Seq(Entries) /\ Once(Chain(walk.head))
  <2>1. Holds(p, undef, Chains) /\ walk.head \in Heads
    BY <1>2 DEF ListInv
  <2> QED BY <1>3, <2>1, HeldOnce
<1>5. walk.n = walk.head => walk.n \notin Entries /\ Rest = <<>>
  BY <1>2, ListAssumption DEF Rest
<1>6. In(walk.n, Chain(walk.head)) => walk.n \in Entries /\ Rest = From(Chain(walk.head), walk.n)
  BY <1>4, Places, SMTT(30) DEF In, Rest
<1> QED BY <1>1, <1>2, <1>3, <1>4, <1>5, <1>6, Zenon

(* What a step that leaves the walk alone does to it. *)
LEMMA WalkStays ==
  ASSUME ListInv, Walking, walk' = walk, NEW L, Holds(p', undef', L), walk.head \notin undef'
  PROVE  /\ Rest' = IF walk.n \in Entries THEN From(L[walk.head], walk.n) ELSE <<>>
         /\ (walk.n \in Entries => In(walk.n, L[walk.head])) => WalkInv'
<1>1. /\ walk \in [head : Heads \ undef, pos : Entries, n : Nodes]
      /\ walk.head \in Heads \ undef /\ walk.pos \in Entries /\ walk.n \in Nodes
      /\ walk.n # walk.pos
      /\ walk.n = walk.head \/ walk.n \in Entries
  BY Walked, Zenon
<1>2. Chain(walk.head)' = L[walk.head]
  <2>1. Chain(walk.head)' = IF walk.head \in undef' THEN <<>> ELSE ChainOf(p', walk.head)
    BY DEF Chain
  <2> QED BY <1>1, <2>1, ChainAtIs
<1>3. Rest' = IF walk.n \in Entries THEN From(L[walk.head], walk.n) ELSE <<>>
  BY <1>2 DEF Rest
<1>4. ASSUME walk.n \in Entries => In(walk.n, L[walk.head])
      PROVE  WalkInv'
  <2>1. walk' \in [head : Heads \ undef', pos : Entries, n : Nodes]
    BY <1>1
  <2>2. walk'.n # walk'.pos /\ (walk'.n = walk'.head \/ In(walk'.n, Chain(walk.head)'))
    BY <1>1, <1>2, <1>4, Zenon
  <2> QED BY <2>1, <2>2 DEF WalkInv
<1> QED BY <1>3, <1>4

LEMMA WalkIdle ==
  ASSUME ~Walking, walk' = walk
  PROVE  Rest' = <<>> /\ WalkInv'
<1>1. NULL \notin Entries
  BY ListAssumption
<1> QED BY <1>1 DEF Walking, WalkInv, Idle, Rest

-----------------------------------------------------------------------------
(* The steps of Lists, under the refinement mapping of ListHead.           *)
LEMMA ListedIs ==
  ASSUME NEW e
  PROVE  /\ Seqs!Listed(e) <=> Listed(e)
         /\ ListInv => (Listed(e) <=> \E h \in Heads : In(e, Chains[h]))
<1>1. Seqs!Listed(e) <=> Listed(e)
  BY DEF Seqs!Listed, Seqs!In, Listed
<1>2. ASSUME ListInv, NEW h \in Heads
      PROVE  (\E i \in DOMAIN Chain(h) : Chain(h)[i] = e) <=> In(e, Chains[h])
  <2>1. Chain(h) = Chains[h]
    BY DEF Chains
  <2>2. Chain(h) \in Seq(Entries)
    BY <1>2, <2>1, HeldOnce DEF ListInv
  <2>3. DOMAIN Chain(h) = 1 .. Len(Chain(h))
    BY <2>2
  <2> QED BY <2>1, <2>3 DEF In
<1> QED BY <1>1, <1>2 DEF Listed

LEMMA ToAddTail ==
  ASSUME NEW e, NEW h, ~Listed(e), walk' = walk,
         Chains' = [Chains EXCEPT ![h] = Append(Chains[h], e)],
         Rest' = IF h = walk.head /\ Rest # <<>> THEN Append(Rest, e) ELSE Rest
  PROVE  Seqs!AddTail(e, h)
BY ListedIs, Zenon DEF Seqs!AddTail, Chains, Rest

LEMMA ToAddFront ==
  ASSUME NEW e, NEW h, ~Listed(e), walk' = walk,
         Chains' = [Chains EXCEPT ![h] = <<e>> \o Chains[h]], Rest' = Rest
  PROVE  Seqs!AddFront(e, h)
BY ListedIs, Zenon DEF Seqs!AddFront, Chains, Rest

LEMMA ToDelete ==
  ASSUME NEW e, Listed(e), walk' = walk,
         Chains' = Off(Chains, e), Rest' = Seqs!Other(Rest, e)
  PROVE  Seqs!Delete(e)
BY ListedIs, Zenon DEF Seqs!Delete, Seqs!Without, Off, Chains, Rest

LEMMA ToMoveFront ==
  ASSUME NEW e, NEW h, Listed(e), walk' = walk,
         Chains' = [Off(Chains, e) EXCEPT ![h] = <<e>> \o Off(Chains, e)[h]],
         Rest' = Seqs!Other(Rest, e)
  PROVE  Seqs!MoveFront(e, h)
BY ListedIs, Zenon DEF Seqs!MoveFront, Seqs!Without, Off, Chains, Rest

LEMMA ToMoveTail ==
  ASSUME NEW e, NEW h, Listed(e), walk' = walk,
         Chains' = [Off(Chains, e) EXCEPT ![h] = Append(Off(Chains, e)[h], e)],
         Rest' = Seqs!Other(Rest, e)
  PROVE  Seqs!MoveTail(e, h)
BY ListedIs, Zenon DEF Seqs!MoveTail, Seqs!Without, Off, Chains, Rest

LEMMA ToSplice ==
  ASSUME NEW l, NEW h, l # h, walk' = walk, Rest' = Rest,
         Chains' = [Chains EXCEPT ![h] = Chains[l] \o Chains[h], ![l] = <<>>]
  PROVE  Seqs!Splice(l, h)
BY Zenon DEF Seqs!Splice, Chains, Rest

LEMMA ToWalkBegin ==
  ASSUME NEW h, walk.head = NULL, Chains[h] # <<>>, Chains' = Chains,
         walk'.head = h, walk'.pos = Head(Chains[h]), Rest' = Tail(Chains[h])
  PROVE  Seqs!WalkBegin(h)
BY Zenon DEF Seqs!WalkBegin, Chains, Rest

LEMMA ToWalkNext ==
  ASSUME walk.head # NULL, Chains' = Chains,
         IF Rest = <<>> THEN walk'.head = NULL /\ walk'.pos = NULL /\ Rest' = <<>>
         ELSE walk'.head = walk.head /\ walk'.pos = Head(Rest) /\ Rest' = Tail(Rest)
  PROVE  Seqs!WalkNext
BY Zenon DEF Seqs!WalkNext, Chains, Rest

-----------------------------------------------------------------------------
(* Each action keeps the invariant and is a step of Lists, or leaves the   *)
(* lists and the walk as they are.                                         *)
LEMMA TailStep ==
  ASSUME ListInv, NEW e \in Entries, NEW h \in Heads, ~Listed(e), h \notin undef,
         Change(list_add_tail(p, e, h))
  PROVE  ListInv' /\ Seqs!AddTail(e, h)
<1> DEFINE L == [Chains EXCEPT ![h] = Append(Chains[h], e)]
<1>1. /\ Holds(p, undef, Chains) /\ h \in Heads \ undef
      /\ p' = list_add_tail(p, e, h) /\ undef' = undef /\ walk' = walk
      /\ \A g \in Heads : ~In(e, Chains[g])
  BY ListedIs DEF ListInv, Change
<1>2. Holds(p', undef', L)
  <2>1. Holds(list_add_tail(p, e, h), undef, L)
    BY <1>1, TailHolds, Zenon
  <2> QED BY <1>1, <2>1, Zenon
<1>3. Chains' = L
  BY <1>2, ChainsAreNext, Zenon
<1>4. Chains \in [Heads -> Seq(Entries)]
  BY <1>1, Held, Zenon
<1>5. CASE ~Walking
  <2>1. Rest = <<>> /\ Rest' = <<>> /\ WalkInv'
    BY <1>1, <1>5, NotWalked, WalkIdle, Zenon
  <2>2. Seqs!AddTail(e, h)
    BY <1>1, <1>3, <2>1, ToAddTail, Zenon
  <2> QED BY <1>2, <1>3, <2>1, <2>2, Zenon DEF ListInv
<1>6. CASE Walking
  <2> DEFINE c == Chain(walk.head)
  <2>1. /\ walk.head \in Heads \ undef /\ c = Chains[walk.head]
        /\ c \in Seq(Entries) /\ Once(c)
        /\ \/ walk.n \notin Entries /\ Rest = <<>>
           \/ walk.n \in Entries /\ In(walk.n, c) /\ Rest = From(c, walk.n)
    BY <1>6, Walked, Zenon
  <2>2. /\ Rest' = IF walk.n \in Entries THEN From(L[walk.head], walk.n) ELSE <<>>
        /\ (walk.n \in Entries => In(walk.n, L[walk.head])) => WalkInv'
    <3>1. walk.head \notin undef'
      BY <1>1, <2>1, SMTT(30)
    <3> HIDE DEF L
    <3> QED BY <1>1, <1>2, <1>6, <3>1, WalkStays, Zenon
  <2>3. ASSUME walk.n \in Entries
        PROVE  /\ In(walk.n, L[walk.head]) /\ Rest # <<>>
               /\ h = walk.head => From(L[walk.head], walk.n) = Append(Rest, e)
               /\ h # walk.head => From(L[walk.head], walk.n) = Rest
    <3>0. In(walk.n, c) /\ Rest = From(c, walk.n) /\ ~In(e, c)
      BY <1>1, <2>1, <2>3, SMTT(30)
    <3>1. PICK i \in 1 .. Len(c) : c[i] = walk.n
      BY <3>0, SMTT(30) DEF In
    <3> HIDE DEF c
    <3>2. /\ Len(c) \in Nat /\ From(c, walk.n) = SubSeq(c, i, Len(c))
          /\ Len(SubSeq(c, i, Len(c))) = Len(c) - i + 1
      BY <2>1, <3>1, FromIs, SuffixIs, Places, ZenonT(30)
    <3>3. Rest # <<>>
      <4>1. Len(Rest) # 0
        BY <3>0, <3>1, <3>2
      <4> QED BY <4>1
    <3>4. CASE h = walk.head
      <4>1. L[walk.head] = Append(c, e)
        BY <1>4, <2>1, <3>4, SMTT(30)
      <4>2. In(walk.n, Append(c, e))
        BY <2>1, <3>1, AppendIs, SMTT(30) DEF In
      <4>3. From(Append(c, e), walk.n) = Append(From(c, walk.n), e)
        BY <2>1, <3>0, <3>1, FromAppend, SMTT(30)
      <4> HIDE DEF L
      <4>4. From(L[walk.head], walk.n) = Append(Rest, e)
        BY <3>0, <4>1, <4>3, SMTT(30)
      <4>5. In(walk.n, L[walk.head])
        BY <4>1, <4>2
      <4> QED BY <3>3, <3>4, <4>4, <4>5, SMTT(30)
    <3>5. CASE h # walk.head
      <4>1. L[walk.head] = c
        BY <1>4, <2>1, <3>5
      <4> QED BY <3>0, <3>3, <3>5, <4>1, Zenon
    <3> QED BY <3>4, <3>5, SMTT(30)
  <2>4. WalkInv' /\ Rest' = IF h = walk.head /\ Rest # <<>> THEN Append(Rest, e) ELSE Rest
    <3> HIDE DEF L, c
    <3>1. CASE walk.n \in Entries
      BY <2>2, <2>3, <3>1, Zenon
    <3>2. CASE walk.n \notin Entries
      BY <2>1, <2>2, <3>2, Zenon
    <3> QED BY <3>1, <3>2
  <2>5. Seqs!AddTail(e, h)
    BY <1>1, <1>3, <2>4, ToAddTail, Zenon
  <2> QED BY <1>2, <1>3, <2>4, <2>5, Zenon DEF ListInv
<1> QED BY <1>5, <1>6

LEMMA FrontStep ==
  ASSUME ListInv, NEW e \in Entries, NEW h \in Heads, ~Listed(e), h \notin undef,
         ~Walking, Change(list_add(p, e, h))
  PROVE  ListInv' /\ Seqs!AddFront(e, h)
<1> DEFINE L == [Chains EXCEPT ![h] = <<e>> \o Chains[h]]
<1>1. /\ Holds(p, undef, Chains) /\ h \in Heads \ undef
      /\ p' = list_add(p, e, h) /\ undef' = undef /\ walk' = walk
      /\ \A g \in Heads : ~In(e, Chains[g])
  BY ListedIs DEF ListInv, Change
<1>2. Holds(p', undef', L)
  <2>1. Holds(list_add(p, e, h), undef, L)
    BY <1>1, FrontHolds, Zenon
  <2> QED BY <1>1, <2>1, Zenon
<1>3. Chains' = L
  BY <1>2, ChainsAreNext, Zenon
<1>4. Rest = <<>> /\ Rest' = <<>> /\ WalkInv'
  BY <1>1, NotWalked, WalkIdle, Zenon
<1>5. Seqs!AddFront(e, h)
  BY <1>1, <1>3, <1>4, ToAddFront, Zenon
<1> QED BY <1>2, <1>3, <1>4, <1>5, Zenon DEF ListInv

(* What is before a walk when its current entry is taken off its list. *)
LEMMA WalkTakes ==
  ASSUME ListInv, NEW e \in Entries, Walking => e = walk.pos, walk' = walk, undef' = undef,
         NEW L, Holds(p', undef', L),
         Walking => L[walk.head] = Seqs!Other(Chains[walk.head], e)
  PROVE  WalkInv' /\ Rest' = Seqs!Other(Rest, e)
<1>0. Seqs!Other(<<>>, e) = <<>>
  <2>1. <<>> \in Seq(Entries) /\ ~In(e, <<>>)
    BY DEF In
  <2> QED BY <2>1, OtherNone, Zenon
<1>1. CASE ~Walking
  <2>1. Rest = <<>> /\ Rest' = <<>> /\ WalkInv'
    BY <1>1, NotWalked, WalkIdle, Zenon
  <2> QED BY <1>0, <2>1
<1>2. CASE Walking
  <2> DEFINE c == Chain(walk.head)
  <2>1. /\ walk.head \in Heads \ undef /\ c = Chains[walk.head] /\ walk.n # walk.pos
        /\ c \in Seq(Entries) /\ Once(c)
        /\ \/ walk.n \notin Entries /\ Rest = <<>>
           \/ walk.n \in Entries /\ In(walk.n, c) /\ Rest = From(c, walk.n)
    BY <1>2, Walked, Zenon
  <2>2. /\ Rest' = IF walk.n \in Entries THEN From(L[walk.head], walk.n) ELSE <<>>
        /\ (walk.n \in Entries => In(walk.n, L[walk.head])) => WalkInv'
    <3>1. walk.head \notin undef'
      BY <2>1
    <3> QED BY <1>2, <3>1, WalkStays, Zenon
  <2>3. L[walk.head] = Seqs!Other(c, e) /\ walk.n # e
    BY <1>2, <2>1, Zenon
  <2> HIDE DEF c
  <2>4. CASE walk.n \notin Entries
    BY <1>0, <2>1, <2>2, <2>4, Zenon
  <2>5. CASE walk.n \in Entries
    <3>1. PICK i \in 1 .. Len(c) : c[i] = walk.n
      BY <2>1, <2>5, SMTT(30) DEF In
    <3>2. Rest = From(c, c[i])
      BY <2>1, <2>5, <3>1
    <3>3. CASE In(e, c)
      <4>1. PICK k \in 1 .. Len(c) : c[k] = e
        BY <3>3 DEF In
      <4>2. i # k
        BY <2>3, <3>1, <4>1
      <4>3. L[walk.head] = Removed(c, k)
        <5>1. Seqs!Other(c, c[k]) = Removed(c, k)
          BY <2>1, OtherIs, Zenon
        <5> QED BY <2>3, <4>1, <5>1, Zenon
      <4>4. From(Removed(c, k), c[i]) = Seqs!Other(From(c, c[i]), c[k])
        BY <2>1, <4>2, FromRemoved, Zenon
      <4>5. In(walk.n, Removed(c, k))
        <5> DEFINE j == IF i < k THEN i ELSE i - 1
        <5>1. Len(c) \in Nat
          BY <2>1, Places, SMTT(30)
        <5>2. j \in 1 .. Len(c) - 1 /\ Removed(c, k)[j] = c[i]
          BY <4>2, <5>1, SMTT(30) DEF Removed
        <5>3. Len(Removed(c, k)) = Len(c) - 1
          BY <5>1 DEF Removed
        <5> QED BY <3>1, <5>2, <5>3, SMTT(30) DEF In
      <4>6. WalkInv'
        BY <2>2, <4>3, <4>5, Zenon
      <4>7. Rest' = From(Removed(c, k), c[i])
        BY <2>2, <2>5, <3>1, <4>3, Zenon
      <4> QED BY <3>2, <4>1, <4>4, <4>6, <4>7, Zenon
    <3>4. CASE ~In(e, c)
      <4>1. L[walk.head] = c
        BY <2>1, <2>3, <3>4, OtherNone, SMTT(30)
      <4>2. From(c, c[i]) = SubSeq(c, i, Len(c)) /\ SubSeq(c, i, Len(c)) \in Seq(Entries)
        BY <2>1, FromIs, SuffixIs, Zenon
      <4>3. ~In(e, SubSeq(c, i, Len(c)))
        <5> SUFFICES ASSUME NEW x \in 1 .. Len(c) - i + 1, SubSeq(c, i, Len(c))[x] = e
                     PROVE  FALSE
          BY <2>1, SuffixIs, ZenonT(30) DEF In
        <5>1. Len(c) \in Nat
          BY <2>1, Places
        <5>2. i + x - 1 \in 1 .. Len(c)
          BY <5>1
        <5>3. SubSeq(c, i, Len(c))[x] = c[i + x - 1]
          BY <2>1, SuffixIs, SMTT(30)
        <5> QED BY <3>4, <5>2, <5>3 DEF In
      <4>4. Seqs!Other(Rest, e) = Rest
        BY <3>2, <4>2, <4>3, OtherNone, Zenon
      <4>5. WalkInv'
        BY <2>1, <2>2, <2>5, <4>1, Zenon
      <4>6. Rest' = Rest
        BY <2>2, <2>5, <3>1, <3>2, <4>1, Zenon
      <4> QED BY <4>4, <4>5, <4>6, SMTT(30)
    <3> QED BY <3>3, <3>4, SMTT(30)
  <2> QED BY <2>4, <2>5
<1> QED BY <1>1, <1>2

LEMMA DelWritesOne ==
  ASSUME NEW q \in Pointers, NEW e \in Entries, NEW v \in Nodes \cup {NULL},
         NEW r, r = [q EXCEPT !.next[e] = v, !.prev[e] = v]
  PROVE  /\ r \in Pointers
         /\ \A x \in Nodes \ {e} : r.next[x] = q.next[x] /\ r.prev[x] = q.prev[x]
BY Zenon DEF Pointers, Nodes

LEMMA TakenFrom ==
  ASSUME ListInv, NEW e \in Entries, Listed(e)
  PROVE  /\ Holds(Unlinked(p, e), undef, Off(Chains, e))
         /\ \A g \in Heads : ~In(e, Off(Chains, e)[g])
         /\ \A g \in Heads : Off(Chains, e)[g] = Seqs!Other(Chains[g], e)
<1>1. PICK h \in Heads : In(e, Chains[h])
  BY ListedIs
<1>2. Holds(p, undef, Chains)
  BY DEF ListInv
<1>3. \A g \in Heads : Off(Chains, e)[g] = Seqs!Other(Chains[g], e)
  BY DEF Off
<1> QED BY <1>1, <1>2, <1>3, TakeHolds, Zenon

LEMMA DelStep ==
  ASSUME ListInv, NEW e \in Entries, Del(e)
  PROVE  ListInv' /\ Seqs!Delete(e)
<1> DEFINE q == Unlinked(p, e)
           L == Off(Chains, e)
<1>1. /\ Listed(e) /\ (Walking => e = walk.pos) /\ undef' = undef /\ walk' = walk
      /\ p' = list_del(p, e) \/ p' = list_del_init(p, e)
  BY DEF Del, MayTake, Change
<1>2. /\ Holds(q, undef, L)
      /\ \A g \in Heads : ~In(e, L[g])
      /\ \A g \in Heads : L[g] = Seqs!Other(Chains[g], e)
  BY <1>1, TakenFrom, Zenon
<1>3. PICK v \in Nodes \cup {NULL} : p' = [q EXCEPT !.next[e] = v, !.prev[e] = v]
  BY <1>1, Zenon DEF list_del, list_del_init, INIT_LIST_HEAD, Nodes
<1> HIDE DEF q, L
<1>4. q \in Pointers
  BY <1>2, Held
<1>5. /\ p' \in Pointers
      /\ \A x \in Nodes \ {e} : p'.next[x] = q.next[x] /\ p'.prev[x] = q.prev[x]
  <2>1. \A r : r = [q EXCEPT !.next[e] = v, !.prev[e] = v] =>
          /\ r \in Pointers
          /\ \A x \in Nodes \ {e} : r.next[x] = q.next[x] /\ r.prev[x] = q.prev[x]
    BY <1>4, DelWritesOne, ZenonT(30)
  <2> QED BY <1>3, <2>1, ZenonT(60)
<1>6. Holds(p', undef', L)
  <2>1. Holds(p', undef, L)
    BY <1>2, <1>5, OffList
  <2> QED BY <1>1, <2>1, SMTT(30)
<1>7. Chains' = L
  BY <1>6, ChainsAreNext, Zenon
<1>8. WalkInv' /\ Rest' = Seqs!Other(Rest, e)
  <2>1. Walking => L[walk.head] = Seqs!Other(Chains[walk.head], e)
    BY <1>2, Walked
  <2> QED BY <1>1, <1>6, <2>1, WalkTakes, Zenon
<1>9. Seqs!Delete(e)
  BY <1>1, <1>7, <1>8, ToDelete, Zenon DEF L
<1> QED BY <1>6, <1>7, <1>8, <1>9, Zenon DEF ListInv

LEMMA MoveStep ==
  ASSUME ListInv, NEW e \in Entries, NEW h \in Heads, Move(e, h)
  PROVE  /\ ListInv' /\ p' \in {list_move(p, e, h), list_move_tail(p, e, h)}
         /\ p' = list_move(p, e, h) => Seqs!MoveFront(e, h)
         /\ p' = list_move_tail(p, e, h) => Seqs!MoveTail(e, h)
<1> DEFINE q == Unlinked(p, e)
           O == Off(Chains, e)
           F == [O EXCEPT ![h] = <<e>> \o O[h]]
           T == [O EXCEPT ![h] = Append(O[h], e)]
<1>1. /\ Listed(e) /\ (Walking => e = walk.pos) /\ undef' = undef /\ walk' = walk
      /\ h \in Heads \ undef /\ (Walking => h # walk.head)
      /\ p' = list_add(q, e, h) \/ p' = list_add_tail(q, e, h)
  BY DEF Move, MayTake, Change, list_move, list_move_tail
<1>2. /\ Holds(q, undef, O)
      /\ \A g \in Heads : ~In(e, O[g])
      /\ \A g \in Heads : O[g] = Seqs!Other(Chains[g], e)
  BY <1>1, TakenFrom, Zenon
<1> HIDE DEF q, O
<1>3. O \in [Heads -> Seq(Entries)]
  BY <1>2, Held
<1>4. ASSUME NEW L, Holds(p', undef', L), \A g \in Heads : g # h => L[g] = O[g]
      PROVE  ListInv' /\ Chains' = L /\ Rest' = Seqs!Other(Rest, e)
  <2>1. Walking => L[walk.head] = Seqs!Other(Chains[walk.head], e)
    <3>1. Walking => walk.head \in Heads
      BY Walked
    <3> QED BY <1>1, <1>2, <1>4, <3>1, Zenon
  <2>2. WalkInv' /\ Rest' = Seqs!Other(Rest, e)
    BY <1>1, <1>4, <2>1, WalkTakes, Zenon
  <2>3. Chains' = L
    BY <1>4, ChainsAreNext, Zenon
  <2> QED BY <1>4, <2>2, <2>3, Zenon DEF ListInv
<1>5. ASSUME p' = list_add(q, e, h) PROVE ListInv' /\ Seqs!MoveFront(e, h)
  <2>1. Holds(p', undef', F)
    <3>1. Holds(list_add(q, e, h), undef, F)
      BY <1>1, <1>2, FrontHolds, Zenon
    <3> QED BY <1>1, <1>5, <3>1, Zenon
  <2>2. \A g \in Heads : g # h => F[g] = O[g]
    BY <1>3
  <2>3. ListInv' /\ Chains' = F /\ Rest' = Seqs!Other(Rest, e)
    BY <1>4, <2>1, <2>2, Zenon
  <2>4. Seqs!MoveFront(e, h)
    BY <1>1, <2>3, ToMoveFront, Zenon DEF O
  <2> QED BY <2>3, <2>4
<1>6. ASSUME p' = list_add_tail(q, e, h) PROVE ListInv' /\ Seqs!MoveTail(e, h)
  <2>1. Holds(p', undef', T)
    <3>1. Holds(list_add_tail(q, e, h), undef, T)
      BY <1>1, <1>2, TailHolds, Zenon
    <3> QED BY <1>1, <1>6, <3>1, Zenon
  <2>2. \A g \in Heads : g # h => T[g] = O[g]
    BY <1>3
  <2>3. ListInv' /\ Chains' = T /\ Rest' = Seqs!Other(Rest, e)
    BY <1>4, <2>1, <2>2, Zenon
  <2>4. Seqs!MoveTail(e, h)
    BY <1>1, <2>3, ToMoveTail, Zenon DEF O
  <2> QED BY <2>3, <2>4
<1> QED BY <1>1, <1>5, <1>6, Zenon DEF q, list_move, list_move_tail

LEMMA SpliceStep ==
  ASSUME ListInv, NEW l \in Heads, NEW h \in Heads,
         list_splice(l, h) \/ list_splice_init(l, h)
  PROVE  ListInv' /\ Seqs!Splice(l, h)
<1> DEFINE r == __list_splice(p, l, h)
           L == [Chains EXCEPT ![h] = Chains[l] \o Chains[h], ![l] = <<>>]
<1>1. /\ l # h /\ l \in Heads \ undef /\ h \in Heads \ undef /\ ~Walking /\ walk' = walk
      /\ p.next[l] # l
      /\ \/ p' = r /\ undef' = undef \cup {l}
         \/ p' = INIT_LIST_HEAD(r, l) /\ undef' = undef
  BY DEF list_splice, list_splice_init, list_empty
<1>2. Holds(p, undef, Chains)
  BY DEF ListInv
<1>3. Len(Chains[l]) # 0
  <2>1. Linked(p, l, Chains[l])
    BY <1>1, <1>2, Neighbours, Zenon
  <2>2. ASSUME Len(Chains[l]) = 0 PROVE FALSE
    <3>1. 0 \in 0 .. 0
      OBVIOUS
    <3>2. At(l, Chains[l], 0) = l /\ At(l, Chains[l], 0 + 1) = l
          /\ p.next[At(l, Chains[l], 0)] = At(l, Chains[l], 0 + 1)
      BY <2>1, <2>2, <3>1, Zenon DEF Linked
    <3> QED BY <1>1, <3>2, Zenon
  <2> QED BY <2>2
<1>4. Holds(r, undef \cup {l}, L)
  BY <1>1, <1>2, <1>3, SpliceHolds, Zenon
<1> HIDE DEF r, L
<1>5. Holds(p', undef', L)
  <2>1. CASE p' = r /\ undef' = undef \cup {l}
    BY <1>4, <2>1, Zenon
  <2>2. CASE p' = INIT_LIST_HEAD(r, l) /\ undef' = undef
    <3>1. l \in undef \cup {l}
      OBVIOUS
    <3>2. Holds(INIT_LIST_HEAD(r, l), (undef \cup {l}) \ {l}, L)
      BY <1>4, <3>1, InitHolds, Zenon
    <3>3. (undef \cup {l}) \ {l} = undef
      BY <1>1
    <3> QED BY <2>2, <3>2, <3>3, Zenon
  <2> QED BY <1>1, <2>1, <2>2
<1>6. Chains' = L
  BY <1>5, ChainsAreNext, Zenon
<1>7. Rest = <<>> /\ Rest' = <<>> /\ WalkInv'
  BY <1>1, NotWalked, WalkIdle, Zenon
<1>8. Seqs!Splice(l, h)
  BY <1>1, <1>6, <1>7, ToSplice, Zenon DEF L
<1> QED BY <1>5, <1>6, <1>7, <1>8, Zenon DEF ListInv

LEMMA ReinitStep ==
  ASSUME ListInv, NEW h \in Heads, Reinit(h)
  PROVE  ListInv' /\ walk' = walk /\ Chains' = Chains /\ Rest' = Rest
<1>1. h \in undef /\ p' = INIT_LIST_HEAD(p, h) /\ undef' = undef \ {h} /\ walk' = walk
  BY DEF Reinit
<1>2. Holds(p, undef, Chains)
  BY DEF ListInv
<1>3. Holds(p', undef', Chains)
  <2>1. Holds(INIT_LIST_HEAD(p, h), undef \ {h}, Chains)
    BY <1>1, <1>2, InitHolds, Zenon
  <2> QED BY <1>1, <2>1, Zenon
<1>4. Chains' = Chains
  BY <1>3, ChainsAreNext, Zenon
<1>5. WalkInv' /\ Rest' = Rest
  <2>1. CASE ~Walking
    BY <1>1, <2>1, NotWalked, WalkIdle, Zenon
  <2>2. CASE Walking
    <3>1. /\ walk.head \in Heads \ undef /\ Chain(walk.head) = Chains[walk.head]
          /\ \/ walk.n \notin Entries /\ Rest = <<>>
             \/ /\ walk.n \in Entries /\ In(walk.n, Chain(walk.head))
                /\ Rest = From(Chain(walk.head), walk.n)
      BY <2>2, Walked, Zenon
    <3>2. walk.head \notin undef'
      BY <1>1, <3>1
    <3>3. /\ Rest' = IF walk.n \in Entries THEN From(Chains[walk.head], walk.n) ELSE <<>>
          /\ (walk.n \in Entries => In(walk.n, Chains[walk.head])) => WalkInv'
      BY <1>1, <1>3, <2>2, <3>2, WalkStays, Zenon
    <3> QED BY <3>1, <3>3, Zenon
  <2> QED BY <2>1, <2>2
<1> QED BY <1>1, <1>3, <1>4, <1>5, Zenon DEF ListInv

(* A walk that goes on to the entry at i reads the one behind it. *)
LEMMA WalkAt ==
  ASSUME NEW h \in Heads, NEW c \in Seq(Entries), Once(c), NEW i \in 1 .. Len(c),
         NEW v, v = At(h, c, i + 1)
  PROVE  /\ v \in Nodes /\ v # c[i] /\ c[i] \in Entries /\ (v = h \/ In(v, c))
         /\ (IF v \in Entries THEN From(c, v) ELSE <<>>) = SubSeq(c, i + 1, Len(c))
<1>1. /\ Len(c) \in Nat /\ At(h, c, Len(c) + 1) = h
      /\ \A j \in 1 .. Len(c) : At(h, c, j) = c[j] /\ c[j] \in Entries
  BY Places, Zenon
<1>2. h \notin Entries /\ h \in Nodes
  BY ListAssumption DEF Nodes
<1>3. CASE i = Len(c)
  <2>1. v = h
    BY <1>1, <1>3
  <2>2. SubSeq(c, i + 1, Len(c)) = <<>>
    <3>1. i + 1 \in Int /\ Len(c) \in Int /\ Len(c) < i + 1
      BY <1>1, <1>3
    <3> QED BY <3>1
  <2> QED BY <1>1, <1>2, <2>1, <2>2, SMTT(30)
<1>4. CASE i # Len(c)
  <2>1. i + 1 \in 1 .. Len(c) /\ i + 1 # i
    BY <1>1, <1>4
  <2>2. v = c[i + 1] /\ v \in Entries /\ c[i] \in Entries
    BY <1>1, <2>1
  <2>3. v # c[i]
    BY <2>1, <2>2 DEF Once
  <2>4. From(c, c[i + 1]) = SubSeq(c, i + 1, Len(c))
    BY <2>1, FromIs, Zenon
  <2>5. v \in Nodes /\ In(v, c)
    BY <2>1, <2>2 DEF Nodes, In
  <2> QED BY <2>2, <2>3, <2>4, <2>5, Zenon
<1> QED BY <1>3, <1>4

(* The walk after a step that reads c[i] and the node behind it. *)
LEMMA WalkReads ==
  ASSUME ListInv, NEW h \in Heads \ undef, NEW i \in 1 .. Len(Chains[h]),
         UNCHANGED <<p, undef>>,
         walk' = [head |-> h, pos |-> Chains[h][i], n |-> At(h, Chains[h], i + 1)]
  PROVE  /\ ListInv' /\ Chains' = Chains
         /\ Rest' = SubSeq(Chains[h], i + 1, Len(Chains[h]))
<1> DEFINE c == Chains[h]
           v == At(h, c, i + 1)
<1>1. Holds(p, undef, Chains) /\ Holds(p', undef', Chains)
  BY DEF ListInv
<1>2. Chains' = Chains
  BY <1>1, ChainsAreNext, Zenon
<1>3. h \in Heads /\ c \in Seq(Entries) /\ Once(c)
  BY <1>1, HeldOnce
<1>4. /\ v \in Nodes /\ v # c[i] /\ c[i] \in Entries /\ (v = h \/ In(v, c))
      /\ (IF v \in Entries THEN From(c, v) ELSE <<>>) = SubSeq(c, i + 1, Len(c))
  BY <1>3, WalkAt, Zenon
<1> HIDE DEF c, v
<1>5. walk'.head = h /\ walk'.pos = c[i] /\ walk'.n = v
  BY SMTT(30) DEF c, v
<1>6. Chain(walk.head)' = c
  <2>1. Chain(walk.head)' = IF h \in undef' THEN <<>> ELSE ChainOf(p', h)
    BY <1>5, SMTT(30) DEF Chain
  <2> QED BY <1>1, <1>3, <2>1, ChainAtIs, SMTT(30) DEF c
<1>7. WalkInv'
  <2>1. walk' \in [head : Heads \ undef', pos : Entries, n : Nodes]
    BY <1>4 DEF c, v
  <2>2. walk'.n # walk'.pos /\ (walk'.n = walk'.head \/ In(walk'.n, Chain(walk.head)'))
    BY <1>4, <1>5, <1>6, Zenon
  <2> QED BY <2>1, <2>2, SMTT(30) DEF WalkInv
<1>8. Rest' = SubSeq(c, i + 1, Len(c))
  BY <1>4, <1>5, <1>6, Zenon DEF Rest
<1> QED BY <1>1, <1>2, <1>7, <1>8, Zenon DEF ListInv, c

LEMMA WalkBeginStep ==
  ASSUME ListInv, NEW h \in Heads, WalkBegin(h)
  PROVE  ListInv' /\ Seqs!WalkBegin(h)
<1> DEFINE c == Chains[h]
<1>1. /\ ~Walking /\ h \in Heads \ undef /\ p.next[h] # h /\ UNCHANGED <<p, undef>>
      /\ walk' = [head |-> h, pos |-> p.next[h], n |-> p.next[p.next[h]]]
  BY DEF WalkBegin, list_empty
<1>2. Holds(p, undef, Chains)
  BY DEF ListInv
<1>3. h \in Heads /\ c \in Seq(Entries) /\ Once(c)
  BY <1>2, HeldOnce
<1>4. Linked(p, h, c)
  BY <1>1, <1>2, Neighbours, Zenon
<1> HIDE DEF c
<1>5. /\ Len(c) \in Nat /\ At(h, c, 0) = h /\ At(h, c, Len(c) + 1) = h
      /\ \A i \in 0 .. Len(c) : p.next[At(h, c, i)] = At(h, c, i + 1)
  BY <1>4, Zenon DEF Linked
<1>6. /\ 0 \in 0 .. Len(c) /\ 0 + 1 = 1
  BY <1>5
<1>7. p.next[h] = At(h, c, 1)
  BY <1>5, <1>6, Zenon
<1>8. Len(c) # 0
  BY <1>1, <1>5, <1>7, SMTT(30)
<1>9. 1 \in 1 .. Len(c) /\ 1 \in 0 .. Len(c)
  BY <1>5, <1>8
<1>10. At(h, c, 1) = c[1]
  <2>1. Placed(h, c)
    BY <1>3, ArePlaced, Zenon
  <2> QED BY <1>9, <2>1, Zenon DEF Placed
<1>11. p.next[c[1]] = At(h, c, 1 + 1)
  BY <1>5, <1>9, <1>10, Zenon
<1>12. walk' = [head |-> h, pos |-> c[1], n |-> At(h, c, 1 + 1)]
  BY <1>1, <1>7, <1>10, <1>11, Zenon
<1>13. ListInv' /\ Chains' = Chains /\ Rest' = SubSeq(c, 1 + 1, Len(c))
  BY <1>1, <1>9, <1>12, WalkReads, Zenon DEF c
<1>14. c # <<>> /\ Head(c) = c[1] /\ Tail(c) = SubSeq(c, 1 + 1, Len(c))
  <2>1. c # <<>>
    BY <1>8
  <2>2. Tail(c) = SubSeq(c, 2, Len(c)) /\ 1 + 1 = 2
    BY <1>3, <2>1
  <2>3. Head(c) = c[1]
    BY <1>3, <2>1
  <2> QED BY <2>1, <2>2, <2>3
<1>15. walk.head = NULL
  BY <1>1, NotWalked, Zenon
<1>16. walk'.head = h /\ walk'.pos = Head(c)
  BY <1>12, <1>14
<1>17. Seqs!WalkBegin(h)
  BY <1>13, <1>14, <1>15, <1>16, ToWalkBegin, Zenon DEF c
<1> QED BY <1>13, <1>17, SMTT(30)

LEMMA WalkNextStep ==
  ASSUME ListInv, WalkNext
  PROVE  ListInv' /\ Seqs!WalkNext
<1> DEFINE h == walk.head
           c == Chains[h]
<1>1. /\ Walking /\ UNCHANGED <<p, undef>>
      /\ walk' = IF walk.n = h THEN Idle ELSE [walk EXCEPT !.pos = walk.n, !.n = p.next[walk.n]]
  BY DEF WalkNext
<1>2. /\ walk \in [head : Heads \ undef, pos : Entries, n : Nodes]
      /\ h \in Heads \ undef /\ Chain(h) = c /\ c \in Seq(Entries) /\ Once(c)
      /\ \/ walk.n = h /\ Rest = <<>>
         \/ walk.n \in Entries /\ In(walk.n, c) /\ Rest = From(c, walk.n)
  <2>1. /\ walk \in [head : Heads \ undef, pos : Entries, n : Nodes]
        /\ h \in Heads \ undef /\ Chain(h) = c /\ Chain(h) \in Seq(Entries) /\ Once(Chain(h))
        /\ \/ walk.n = h /\ Rest = <<>>
           \/ walk.n \in Entries /\ In(walk.n, Chain(h)) /\ Rest = From(Chain(h), walk.n)
    BY <1>1, Walked, Zenon
  <2> HIDE DEF c
  <2> QED BY <2>1
<1>3. Holds(p, undef, Chains) /\ Holds(p', undef', Chains)
  BY <1>1 DEF ListInv
<1>4. h \in Heads /\ h # NULL /\ h \notin Entries
  BY <1>2, ListAssumption
<1>5. CASE walk.n = h
  <2>1. walk' = Idle /\ Rest = <<>>
    BY <1>1, <1>2, <1>4, <1>5, Zenon
  <2>2. Chains' = Chains
    BY <1>3, ChainsAreNext, Zenon
  <2>3. walk'.head = NULL /\ walk'.pos = NULL /\ walk'.n = NULL /\ NULL \notin Entries
    BY <2>1, ListAssumption DEF Idle
  <2>4. Rest' = <<>>
    BY <2>3, Zenon DEF Rest
  <2>5. WalkInv'
    BY <2>1, Zenon DEF WalkInv, Idle
  <2>6. Seqs!WalkNext
    BY <1>4, <2>1, <2>2, <2>3, <2>4, ToWalkNext, Zenon
  <2> QED BY <1>3, <2>2, <2>5, <2>6, Zenon DEF ListInv
<1>6. CASE walk.n # h
  <2>1. PICK i \in 1 .. Len(c) : c[i] = walk.n
    BY <1>2, <1>6 DEF In
  <2>2. Linked(p, h, c)
    BY <1>2, <1>3, Neighbours, Zenon
  <2>3. Placed(h, c)
    BY <1>2, ArePlaced, Zenon
  <2> HIDE DEF c
  <2>4. Len(c) \in Nat /\ At(h, c, i) = c[i]
    BY <2>3, Zenon DEF Placed
  <2>5. i \in 0 .. Len(c) /\ i \in Int /\ Len(c) \in Int /\ Len(c) \in i .. Len(c)
    BY <2>4
  <2>6. p.next[walk.n] = At(h, c, i + 1)
    BY <2>1, <2>2, <2>4, <2>5, Zenon DEF Linked
  <2>7. walk' = [head |-> h, pos |-> c[i], n |-> At(h, c, i + 1)]
    <3>1. walk' = [walk EXCEPT !.pos = c[i], !.n = At(h, c, i + 1)]
      BY <1>1, <1>6, <2>1, <2>6, Zenon
    <3> QED BY <1>2, <3>1, Zenon
  <2>8. ListInv' /\ Chains' = Chains /\ Rest' = SubSeq(c, i + 1, Len(c))
    BY <1>1, <1>2, <2>7, WalkReads, Zenon DEF c
  <2>9. Rest = SubSeq(c, i, Len(c))
    <3>1. From(c, c[i]) = SubSeq(c, i, Len(c))
      BY <1>2, FromIs, Zenon
    <3> QED BY <1>2, <1>6, <2>1, <3>1, Zenon
  <2>10. Head(Rest) = c[i] /\ Tail(Rest) = SubSeq(c, i + 1, Len(c)) /\ Rest # <<>>
    <3>1. Head(SubSeq(c, i, Len(c))) = c[i] /\ Tail(SubSeq(c, i, Len(c))) = SubSeq(c, i + 1, Len(c))
      BY <1>2, <2>5
    <3>2. Len(SubSeq(c, i, Len(c))) = Len(c) - i + 1
      BY <1>2, SuffixIs
    <3>3. SubSeq(c, i, Len(c)) # <<>>
      <4>1. Len(SubSeq(c, i, Len(c))) # 0
        BY <2>4, <3>2
      <4>2. \A s : s = <<>> => Len(s) = 0
        OBVIOUS
      <4> QED BY <4>1, <4>2, Zenon
    <3> QED BY <2>9, <3>1, <3>3, Zenon
  <2>11. walk'.head = h /\ walk'.pos = c[i]
    BY <2>7
  <2>12. Seqs!WalkNext
    BY <1>4, <2>8, <2>10, <2>11, ToWalkNext, Zenon
  <2> QED BY <2>8, <2>12
<1> QED BY <1>5, <1>6

-----------------------------------------------------------------------------
LEMMA InitStep ==
  ASSUME Init
  PROVE  ListInv /\ Seqs!Init
<1> DEFINE L == [h \in Heads |-> <<>>]
<1>1. p \in Pointers /\ \A h \in Heads : p.next[h] = h /\ p.prev[h] = h
  BY ListAssumption DEF Init, Pointers, Nodes
<1>2. undef = {} /\ walk = Idle
  BY DEF Init
<1>3. Holds(p, undef, L)
  <2>1. L \in [Heads -> Seq(Entries)] /\ \A h \in Heads : L[h] = <<>> /\ Len(L[h]) = 0
    OBVIOUS
  <2>2. Apart(L)
    BY <2>1 DEF Apart
  <2>3. \A h \in Heads : Links(p, h, L[h])
    BY <1>1, <2>1 DEF Links, At
  <2> QED BY <1>1, <1>2, <2>1, <2>2, <2>3 DEF Holds
<1>4. Chains = L
  BY <1>3, ChainsAre, Zenon
<1>5. WalkInv /\ ~Walking
  BY <1>2 DEF WalkInv, Walking
<1>6. walk.head = NULL /\ walk.pos = NULL /\ Rest = <<>>
  BY <1>5, NotWalked, Zenon
<1>7. Seqs!Init
  BY <1>4, <1>6, Zenon DEF Seqs!Init, Chains, Rest
<1> QED BY <1>3, <1>4, <1>5, <1>7, Zenon DEF ListInv

LEMMA NextStep ==
  ASSUME ListInv, [Next]_vars
  PROVE  ListInv' /\ (Seqs!Operation \/ UNCHANGED <<Chains, walk.head, walk.pos, Rest>>)
<1>1. CASE UNCHANGED vars
  <2>1. UNCHANGED <<p, undef, walk>>
    BY <1>1 DEF vars
  <2>2. Chains' = Chains /\ Rest' = Rest /\ WalkInv'
    BY <2>1 DEF Chains, Chain, Rest, WalkInv, ListInv
  <2>3. Holds(p', undef', Chains')
    BY <2>1, <2>2 DEF ListInv
  <2> QED BY <2>1, <2>2, <2>3 DEF ListInv
<1>2. ASSUME NEW e \in Entries, NEW h \in Heads, Add(e, h)
      PROVE  ListInv' /\ Seqs!Operation
  <2>1. ListInv' /\ (Seqs!AddFront(e, h) \/ Seqs!AddTail(e, h))
    BY <1>2, FrontStep, TailStep, Zenon DEF Add
  <2> QED BY <2>1, Zenon DEF Seqs!Operation
<1>3. ASSUME NEW e \in Entries, Del(e) PROVE ListInv' /\ Seqs!Operation
  <2>1. ListInv' /\ Seqs!Delete(e)
    BY <1>3, DelStep, Zenon
  <2> QED BY <2>1, Zenon DEF Seqs!Operation
<1>4. ASSUME NEW e \in Entries, NEW h \in Heads, Move(e, h) PROVE ListInv' /\ Seqs!Operation
  <2>1. ListInv' /\ (Seqs!MoveFront(e, h) \/ Seqs!MoveTail(e, h))
    BY <1>4, MoveStep, Zenon
  <2> QED BY <2>1, Zenon DEF Seqs!Operation
<1>5. ASSUME NEW l \in Heads, NEW h \in Heads, list_splice(l, h) \/ list_splice_init(l, h)
      PROVE  ListInv' /\ Seqs!Operation
  <2>1. ListInv' /\ Seqs!Splice(l, h)
    BY <1>5, SpliceStep, Zenon
  <2> QED BY <2>1, Zenon DEF Seqs!Operation
<1>6. ASSUME NEW h \in Heads, Reinit(h)
      PROVE  ListInv' /\ UNCHANGED <<Chains, walk.head, walk.pos, Rest>>
  <2>1. ListInv' /\ walk' = walk /\ Chains' = Chains /\ Rest' = Rest
    BY <1>6, ReinitStep, Zenon
  <2> QED BY <2>1
<1>7. ASSUME NEW h \in Heads, WalkBegin(h) PROVE ListInv' /\ Seqs!Operation
  <2>1. ListInv' /\ Seqs!WalkBegin(h)
    BY <1>7, WalkBeginStep, Zenon
  <2> QED BY <2>1, Zenon DEF Seqs!Operation
<1>8. ASSUME WalkNext PROVE ListInv' /\ Seqs!Operation
  <2>1. ListInv' /\ Seqs!WalkNext
    BY <1>8, WalkNextStep, Zenon
  <2> QED BY <2>1, Zenon DEF Seqs!Operation
<1> QED BY <1>1, <1>2, <1>3, <1>4, <1>5, <1>6, <1>7, <1>8, Zenon DEF Next

LEMMA InvBothWays ==
  ASSUME ListInv
  PROVE  BothWays
<1>1. ASSUME NEW h \in Heads \ undef, NEW i \in 0 .. Len(Chain(h))
      PROVE  p.prev[At(h, Chain(h), i + 1)] = At(h, Chain(h), i)
  <2>1. Linked(p, h, Chains[h])
    BY Neighbours DEF ListInv
  <2>2. Chain(h) = Chains[h]
    BY DEF Chains
  <2> QED BY <2>1, <2>2, Zenon DEF Linked
<1> QED BY <1>1 DEF BothWays

LEMMA EachStep ==
  ASSUME ListInv
  PROVE  EachItsOwn
<1>1. ASSUME NEW e \in Entries, NEW h \in Heads, Add(e, h)
      PROVE  /\ ~Walking /\ p' = list_add(p, e, h) => Seqs!AddFront(e, h)
             /\ p' = list_add_tail(p, e, h) => Seqs!AddTail(e, h)
  <2>1. ~Listed(e) /\ h \notin undef /\ UNCHANGED <<undef, walk>>
    BY <1>1, Zenon DEF Add, Change
  <2>2. p' = list_add(p, e, h) => Change(list_add(p, e, h))
    BY <2>1, Zenon DEF Change
  <2>3. p' = list_add_tail(p, e, h) => Change(list_add_tail(p, e, h))
    BY <2>1, Zenon DEF Change
  <2> QED BY <2>1, <2>2, <2>3, FrontStep, TailStep, Zenon
<1>2. ASSUME NEW e \in Entries, NEW h \in Heads, Move(e, h)
      PROVE  /\ p' = list_move(p, e, h) => Seqs!MoveFront(e, h)
             /\ p' = list_move_tail(p, e, h) => Seqs!MoveTail(e, h)
  BY <1>2, MoveStep, Zenon
<1>3. ASSUME NEW e \in Entries, Del(e) PROVE Seqs!Delete(e)
  BY <1>3, DelStep, Zenon
<1>4. ASSUME NEW l \in Heads, NEW h \in Heads, list_splice(l, h) \/ list_splice_init(l, h)
      PROVE  Seqs!Splice(l, h)
  BY <1>4, SpliceStep, Zenon
<1> QED BY <1>1, <1>2, <1>3, <1>4, Zenon DEF EachItsOwn

(* The pointers of list.h implement the sequences of Lists: list_add,      *)
(* list_add_tail, list_del, list_del_init, list_move, list_move_tail,      *)
(* list_splice, list_splice_init and list_for_each_entry_safe do to the    *)
(* sequence of entries what they promise, for any heads and entries, and   *)
(* the lists read backwards hold the same entries.                         *)
THEOREM PointersImplementLists == Spec => ListSpec
<1>1. Init => ListInv /\ Seqs!Init
  BY InitStep
<1>2. ListInv /\ [Next]_vars => ListInv' /\ [Seqs!Next]_<<Chains, walk.head, walk.pos, Rest>>
  BY NextStep, Zenon DEF Seqs!Next, Seqs!vars, Chains, Rest
<1>3. ListInv => BothWays
  BY InvBothWays
<1>4. Seqs!Spec <=> Seqs!Init /\ [][Seqs!Next]_<<Chains, walk.head, walk.pos, Rest>>
  BY DEF Seqs!Spec, Seqs!vars, Chains, Rest
<1>5. ListInv => [p' # p => EachItsOwn]_p
  BY EachStep, Zenon
<1> QED BY <1>1, <1>2, <1>3, <1>4, <1>5, PTL DEF Spec, ListSpec
=============================================================================
