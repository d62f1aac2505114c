---------------------------- MODULE EvBaseProofs ----------------------------
(* Lemmas about the operations of EvBase, for every value of its constants. *)
EXTENDS EvBase, FiniteSetTheorems, TLAPS

-----------------------------------------------------------------------------
(* What the operators on sequences return. *)
LEMMA LenIs ==
  ASSUME NEW S, NEW s \in Seq(S)
  PROVE  Len(s) \in Nat /\ s \in [1 .. Len(s) -> S] /\ DOMAIN s = 1 .. Len(s)
OBVIOUS

LEMMA ElementIs ==
  ASSUME NEW S, NEW s \in Seq(S), NEW i \in 1 .. Len(s)
  PROVE  s[i] \in S
OBVIOUS

LEMMA EmptyIs ==
  ASSUME NEW S
  PROVE  /\ <<>> \in Seq(S) /\ Len(<<>>) = 0
         /\ \A s \in Seq(S) : s # <<>> => Len(s) \in Nat \ {0}
OBVIOUS

LEMMA SeqSame ==
  ASSUME NEW S, NEW s \in Seq(S), NEW t \in Seq(S),
         Len(s) = Len(t), \A i \in 1 .. Len(s) : s[i] = t[i]
  PROVE  s = t
OBVIOUS

LEMMA ConcatIs ==
  ASSUME NEW S, NEW s \in Seq(S), NEW t \in Seq(S)
  PROVE  /\ s \o t \in Seq(S) /\ Len(s \o t) = Len(s) + Len(t)
         /\ \A i \in 1 .. Len(s) + Len(t) :
              (s \o t)[i] = IF i <= Len(s) THEN s[i] ELSE t[i - Len(s)]
OBVIOUS

LEMMA AppendIs ==
  ASSUME NEW S, NEW s \in Seq(S), NEW e \in S
  PROVE  /\ Append(s, e) \in Seq(S) /\ Append(s, e) # <<>>
         /\ Len(Append(s, e)) = Len(s) + 1
         /\ \A i \in 1 .. Len(s) : Append(s, e)[i] = s[i]
         /\ Append(s, e)[Len(s) + 1] = e
OBVIOUS

LEMMA SubSeqIs ==
  ASSUME NEW S, NEW s, NEW m \in Int, NEW n \in Int, \A i \in m .. n : s[i] \in S
  PROVE  /\ SubSeq(s, m, n) \in Seq(S)
         /\ Len(SubSeq(s, m, n)) = IF m <= n THEN n - m + 1 ELSE 0
         /\ \A i \in 1 .. n - m + 1 : SubSeq(s, m, n)[i] = s[m + i - 1]
OBVIOUS

LEMMA HeadTailIs ==
  ASSUME NEW S, NEW s \in Seq(S), s # <<>>
  PROVE  /\ Head(s) \in S /\ Tail(s) \in Seq(S) /\ Len(Tail(s)) = Len(s) - 1
         /\ \A i \in 1 .. Len(Tail(s)) : Tail(s)[i] = s[i + 1]
OBVIOUS

-----------------------------------------------------------------------------
(* Lists. *)

(* A non-empty set of naturals has a least element, which Min returns. *)
LEMMA MinNat ==
  ASSUME NEW S, S \subseteq Nat, S # {}
  PROVE  /\ Min(S) \in S
         /\ \A x \in S : Min(S) <= x
<1>1. PICK x \in S : \A y \in S : ~(<<y, x>> \in OpToRel(<, Nat))
  BY NatLessThanWellFounded, WFMin, Zenon
<1>2. \A y \in S : x <= y
  <2> SUFFICES ASSUME NEW y \in S, y < x PROVE FALSE
    BY SMT
  <2>1. <<y, x>> \in Nat \X Nat /\ <<y, x>>[1] < <<y, x>>[2]
    BY SMT
  <2> QED BY <1>1, <2>1, SMT DEF OpToRel
<1> QED BY <1>2, Zenon DEF Min

(* list_del of a linked entry: the others keep their order. *)
LEMMA RemoveFirstIs ==
  ASSUME NEW S, NEW s \in Seq(S), NEW e, In(e, s)
  PROVE  \E k \in 1 .. Len(s) :
           /\ s[k] = e
           /\ RemoveFirst(s, e) \in Seq(S)
           /\ Len(RemoveFirst(s, e)) = Len(s) - 1
           /\ \A i \in 1 .. Len(s) - 1 :
                RemoveFirst(s, e)[i] = IF i < k THEN s[i] ELSE s[i + 1]
<1> DEFINE I == {i \in 1 .. Len(s) : s[i] = e}
           k == SelectInSeq(s, LAMBDA v : v = e)
<1>1. I # {} /\ I \subseteq Nat
  BY DEF In
<1>2. k = Min(I)
  BY <1>1 DEF SelectInSeq
<1>3. k \in 1 .. Len(s) /\ s[k] = e
  BY <1>1, <1>2, MinNat, Zenon
<1>4. RemoveFirst(s, e) = RemoveAt(s, k)
  BY <1>3 DEF RemoveFirst
<1> HIDE DEF k, I
<1>5. /\ RemoveAt(s, k) \in Seq(S)
      /\ Len(RemoveAt(s, k)) = Len(s) - 1
      /\ \A i \in 1 .. Len(s) - 1 :
                RemoveAt(s, k)[i] = IF i < k THEN s[i] ELSE s[i + 1]
  <2> DEFINE a == SubSeq(s, 1, k - 1)
             b == SubSeq(s, k + 1, Len(s))
  <2>1. \A i \in 1 .. Len(s) : s[i] \in S
    BY ElementIs
  <2>2. /\ a \in Seq(S) /\ Len(a) = k - 1
        /\ \A i \in 1 .. k - 1 : a[i] = s[i]
    <3>1. Len(s) \in Nat /\ k - 1 \in Int
      BY <1>3
    <3>2. \A i \in 1 .. k - 1 : s[i] \in S
      BY <1>3, <2>1
    <3> QED BY <1>3, <3>1, <3>2, SubSeqIs
  <2>3. /\ b \in Seq(S) /\ Len(b) = Len(s) - k
        /\ \A i \in 1 .. Len(s) - k : b[i] = s[k + i]
    <3>1. Len(s) \in Nat /\ k + 1 \in Int
      BY <1>3
    <3>2. \A i \in k + 1 .. Len(s) : s[i] \in S
      BY <1>3, <2>1
    <3> QED BY <1>3, <3>1, <3>2, SubSeqIs
  <2> HIDE DEF a, b
  <2>4. /\ a \o b \in Seq(S) /\ Len(a \o b) = Len(s) - 1
        /\ \A i \in 1 .. Len(s) - 1 :
             (a \o b)[i] = IF i <= Len(a) THEN a[i] ELSE b[i - Len(a)]
    <3>1. /\ a \o b \in Seq(S)
          /\ Len(a \o b) = Len(a) + Len(b)
          /\ \A i \in 1 .. Len(a) + Len(b) :
               (a \o b)[i] = IF i <= Len(a) THEN a[i] ELSE b[i - Len(a)]
      BY <2>2, <2>3, ConcatIs, Zenon
    <3>2. Len(a) + Len(b) = Len(s) - 1
      BY <1>3, <2>2, <2>3
    <3> QED BY <3>1, <3>2
  <2>5. \A i \in 1 .. Len(s) - 1 : (a \o b)[i] = IF i < k THEN s[i] ELSE s[i + 1]
    BY <1>3, <2>2, <2>3, <2>4
  <2> QED BY <2>4, <2>5, Zenon DEF RemoveAt, a, b
<1> QED BY <1>3, <1>4, <1>5

(* The element inserted at i, and the others in their order around it. *)
LEMMA InsertAtIs ==
  ASSUME NEW S, NEW s \in Seq(S), NEW e \in S, NEW k \in 1 .. Len(s) + 1
  PROVE  /\ InsertAt(s, k, e) \in Seq(S)
         /\ Len(InsertAt(s, k, e)) = Len(s) + 1
         /\ \A i \in 1 .. Len(s) + 1 :
              InsertAt(s, k, e)[i] =
                IF i < k THEN s[i] ELSE IF i = k THEN e ELSE s[i - 1]
<1> DEFINE a == SubSeq(s, 1, k - 1)
           b == SubSeq(s, k, Len(s))
           c == <<e>>
<1>1. Len(s) \in Nat /\ \A i \in 1 .. Len(s) : s[i] \in S
  BY ElementIs
<1>2. /\ a \in Seq(S) /\ Len(a) = k - 1
      /\ \A i \in 1 .. k - 1 : a[i] = s[i]
  <2>1. k - 1 \in Int /\ \A i \in 1 .. k - 1 : s[i] \in S
    BY <1>1
  <2> QED BY <1>1, <2>1, SubSeqIs
<1>3. /\ b \in Seq(S) /\ Len(b) = Len(s) - k + 1
      /\ \A i \in 1 .. Len(s) - k + 1 : b[i] = s[k + i - 1]
  <2>1. k \in Int /\ \A i \in k .. Len(s) : s[i] \in S
    BY <1>1
  <2> QED BY <1>1, <2>1, SubSeqIs
<1>4. c \in Seq(S) /\ Len(c) = 1 /\ c[1] = e
  OBVIOUS
<1> HIDE DEF a, b, c
<1>5. /\ a \o c \in Seq(S)
      /\ Len(a \o c) = Len(a) + Len(c)
      /\ \A i \in 1 .. Len(a) + Len(c) :
           (a \o c)[i] = IF i <= Len(a) THEN a[i] ELSE c[i - Len(a)]
  BY <1>2, <1>4, ConcatIs, Zenon
<1> DEFINE ac == a \o c
<1>6. /\ ac \in Seq(S) /\ Len(ac) = k
      /\ \A i \in 1 .. k : ac[i] = IF i < k THEN s[i] ELSE e
  BY <1>2, <1>4, <1>5
<1>7. InsertAt(s, k, e) = ac \o b
  BY DEF InsertAt, a, b, c
<1> HIDE DEF ac
<1>8. /\ ac \o b \in Seq(S)
      /\ Len(ac \o b) = Len(ac) + Len(b)
      /\ \A i \in 1 .. Len(ac) + Len(b) :
           (ac \o b)[i] = IF i <= Len(ac) THEN ac[i] ELSE b[i - Len(ac)]
  BY <1>3, <1>6, ConcatIs, Zenon
<1> DEFINE r == ac \o b
<1> HIDE DEF r
<1>9. Len(ac) + Len(b) = Len(s) + 1
  BY <1>1, <1>3, <1>6
<1>10. ASSUME NEW i \in 1 .. Len(s) + 1
       PROVE  r[i] = IF i < k THEN s[i] ELSE IF i = k THEN e ELSE s[i - 1]
  BY <1>1, <1>3, <1>6, <1>8, <1>9 DEF r
<1> QED BY <1>7, <1>8, <1>9, <1>10 DEF r

(* list_del of an entry of a list without repetitions. *)
LEMMA RemoveFirstKeeps ==
  ASSUME NEW S, NEW s \in Seq(S), NEW e, In(e, s), IsInjective(s)
  PROVE  /\ IsInjective(RemoveFirst(s, e))
         /\ \A x : In(x, RemoveFirst(s, e)) <=> In(x, s) /\ x # e
<1> DEFINE r == RemoveFirst(s, e)
<1>1. PICK k \in 1 .. Len(s) :
        /\ s[k] = e
        /\ r \in Seq(S)
        /\ Len(r) = Len(s) - 1
        /\ \A i \in 1 .. Len(s) - 1 : r[i] = IF i < k THEN s[i] ELSE s[i + 1]
  BY RemoveFirstIs
<1>2. Len(s) \in Nat /\ DOMAIN s = 1 .. Len(s) /\ DOMAIN r = 1 .. Len(s) - 1
  BY <1>1, LenIs
<1> HIDE DEF r
<1>3. IsInjective(r)
  <2> SUFFICES ASSUME NEW i \in 1 .. Len(s) - 1, NEW j \in 1 .. Len(s) - 1,
                      r[i] = r[j]
               PROVE  i = j
    BY <1>2 DEF IsInjective
  <2> DEFINE at(n) == IF n < k THEN n ELSE n + 1
  <2>1. /\ at(i) \in DOMAIN s /\ r[i] = s[at(i)]
        /\ at(j) \in DOMAIN s /\ r[j] = s[at(j)]
    BY <1>1, <1>2
  <2>2. at(i) = at(j)
    BY <2>1, Zenon DEF IsInjective
  <2> QED BY <1>1, <1>2, <2>2
<1>4. ASSUME NEW x, In(x, r) PROVE In(x, s) /\ x # e
  <2>1. PICK i \in 1 .. Len(s) - 1 : r[i] = x
    BY <1>2, <1>4 DEF In
  <2>2. CASE i < k
    <3>1. i \in DOMAIN s /\ k \in DOMAIN s /\ i # k /\ s[i] = x
      BY <1>1, <1>2, <2>1, <2>2
    <3> QED BY <1>1, <3>1 DEF IsInjective, In
  <2>3. CASE i >= k
    <3>1. i + 1 \in DOMAIN s /\ k \in DOMAIN s /\ i + 1 # k /\ s[i + 1] = x
      BY <1>1, <1>2, <2>1, <2>3
    <3> QED BY <1>1, <3>1 DEF IsInjective, In
  <2> QED BY <2>2, <2>3
<1>5. ASSUME NEW x, In(x, s), x # e PROVE In(x, r)
  <2>1. PICK i \in 1 .. Len(s) : s[i] = x
    BY <1>2, <1>5 DEF In
  <2>2. CASE i < k
    BY <1>1, <1>2, <2>1, <2>2 DEF In
  <2>3. CASE i > k
    <3>1. i - 1 \in DOMAIN r /\ r[i - 1] = x
      BY <1>1, <1>2, <2>1, <2>3
    <3> QED BY <3>1 DEF In
  <2> QED BY <1>1, <1>2, <1>5, <2>1, <2>2, <2>3
<1> QED BY <1>3, <1>4, <1>5 DEF r

(* list_add_tail of an entry that is not linked. *)
LEMMA AppendKeeps ==
  ASSUME NEW S, NEW s \in Seq(S), NEW e \in S, ~In(e, s), IsInjective(s)
  PROVE  /\ Append(s, e) \in Seq(S)
         /\ Len(Append(s, e)) = Len(s) + 1
         /\ IsInjective(Append(s, e))
         /\ \A x : In(x, Append(s, e)) <=> In(x, s) \/ x = e
<1> DEFINE r == Append(s, e)
<1>1. /\ r \in Seq(S) /\ Len(r) = Len(s) + 1
      /\ \A i \in 1 .. Len(s) : r[i] = s[i]
      /\ r[Len(s) + 1] = e
  BY AppendIs
<1>2. Len(s) \in Nat /\ DOMAIN s = 1 .. Len(s) /\ DOMAIN r = 1 .. Len(s) + 1
  BY <1>1, LenIs
<1> HIDE DEF r
<1>3. IsInjective(r)
  BY <1>1, <1>2 DEF IsInjective, In
<1>4. ASSUME NEW x PROVE In(x, r) <=> In(x, s) \/ x = e
  BY <1>1, <1>2 DEF In
<1> QED BY <1>1, <1>3, <1>4 DEF r

(* Linking a node at any place of a sequence that does not hold it. *)
LEMMA InsertAtKeeps ==
  ASSUME NEW S, NEW s \in Seq(S), NEW e \in S, NEW k \in 1 .. Len(s) + 1,
         ~In(e, s), IsInjective(s)
  PROVE  /\ IsInjective(InsertAt(s, k, e))
         /\ \A x : In(x, InsertAt(s, k, e)) <=> In(x, s) \/ x = e
<1> DEFINE r == InsertAt(s, k, e)
<1>1. /\ r \in Seq(S) /\ Len(r) = Len(s) + 1
      /\ \A i \in 1 .. Len(s) + 1 :
           r[i] = IF i < k THEN s[i] ELSE IF i = k THEN e ELSE s[i - 1]
  BY InsertAtIs
<1>2. Len(s) \in Nat /\ DOMAIN s = 1 .. Len(s) /\ DOMAIN r = 1 .. Len(s) + 1
  BY <1>1, LenIs
<1> HIDE DEF r
<1>3. IsInjective(r)
  <2> SUFFICES ASSUME NEW i \in 1 .. Len(s) + 1, NEW j \in 1 .. Len(s) + 1,
                      r[i] = r[j]
               PROVE  i = j
    BY <1>2 DEF IsInjective
  <2> DEFINE at(n) == IF n < k THEN n ELSE n - 1
  <2>0. \A n \in 1 .. Len(s) + 1 : n # k => at(n) \in DOMAIN s /\ r[n] = s[at(n)]
    BY <1>1, <1>2
  <2>1. \A n \in 1 .. Len(s) + 1 :
          n # k => at(n) \in DOMAIN s /\ r[n] = s[at(n)] /\ r[n] # e
    BY <2>0, Zenon DEF In
  <2>2. r[k] = e
    BY <1>1, <1>2
  <2>3. CASE i # k /\ j # k
    <3>1. at(i) = at(j)
      BY <2>1, <2>3 DEF IsInjective
    <3> QED BY <1>2, <2>3, <3>1
  <2>4. CASE i = k \/ j = k
    BY <2>1, <2>2, <2>4
  <2> QED BY <2>3, <2>4
<1>4. ASSUME NEW x, In(x, s) PROVE In(x, r)
  <2>1. PICK i \in 1 .. Len(s) : s[i] = x
    BY <1>2, <1>4 DEF In
  <2>2. CASE i < k
    BY <1>1, <1>2, <2>1, <2>2 DEF In
  <2>3. CASE i >= k
    <3>1. i + 1 \in DOMAIN r /\ r[i + 1] = x
      BY <1>1, <1>2, <2>1, <2>3
    <3> QED BY <3>1 DEF In
  <2> QED BY <2>1, <2>2, <2>3
<1>5. ASSUME NEW x, In(x, r) PROVE In(x, s) \/ x = e
  BY <1>1, <1>2, <1>5 DEF In
<1>6. In(e, r)
  BY <1>1, <1>2 DEF In
<1> QED BY <1>3, <1>4, <1>5, <1>6 DEF r

(* The sequence s of nodes is in the order of the deadlines d. *)
InOrder(s, d) == \A i, j \in DOMAIN s : i < j => d[s[i]] <= d[s[j]]

(* Removing a node keeps the order. *)
LEMMA RemoveFirstInOrder ==
  ASSUME NEW S, NEW s \in Seq(S), NEW d, NEW e, In(e, s), InOrder(s, d)
  PROVE  InOrder(RemoveFirst(s, e), d)
<1> DEFINE r == RemoveFirst(s, e)
<1>1. PICK k \in 1 .. Len(s) :
        /\ s[k] = e
        /\ r \in Seq(S)
        /\ Len(r) = Len(s) - 1
        /\ \A i \in 1 .. Len(s) - 1 : r[i] = IF i < k THEN s[i] ELSE s[i + 1]
  BY RemoveFirstIs
<1>2. Len(s) \in Nat /\ DOMAIN s = 1 .. Len(s) /\ DOMAIN r = 1 .. Len(s) - 1
  BY <1>1, LenIs
<1> HIDE DEF r
<1> SUFFICES ASSUME NEW i \in DOMAIN r, NEW j \in DOMAIN r, i < j
             PROVE  d[r[i]] <= d[r[j]]
  BY DEF InOrder, r
<1> DEFINE at(x) == IF x < k THEN x ELSE x + 1
<1>3. /\ at(i) \in DOMAIN s /\ at(j) \in DOMAIN s /\ at(i) < at(j)
      /\ r[i] = s[at(i)] /\ r[j] = s[at(j)]
  BY <1>1, <1>2
<1> QED BY <1>3 DEF InOrder

(* Inserting a node between the nodes that are not later and those that    *)
(* are not earlier keeps the order.                                        *)
LEMMA InsertAtInOrder ==
  ASSUME NEW S, NEW s \in Seq(S), NEW d \in [S -> Int], NEW e \in S,
         NEW k \in 1 .. Len(s) + 1, InOrder(s, d),
         \A i \in 1 .. Len(s) : i < k => d[s[i]] <= d[e],
         \A i \in 1 .. Len(s) : k <= i => d[e] <= d[s[i]]
  PROVE  InOrder(InsertAt(s, k, e), d)
<1> DEFINE r == InsertAt(s, k, e)
<1>1. /\ r \in Seq(S) /\ Len(r) = Len(s) + 1
      /\ \A i \in 1 .. Len(s) + 1 :
           r[i] = IF i < k THEN s[i] ELSE IF i = k THEN e ELSE s[i - 1]
  BY InsertAtIs
<1>2. Len(s) \in Nat /\ DOMAIN s = 1 .. Len(s) /\ DOMAIN r = 1 .. Len(s) + 1
  BY <1>1, LenIs
<1> HIDE DEF r
<1> SUFFICES ASSUME NEW i \in DOMAIN r, NEW j \in DOMAIN r, i < j
             PROVE  d[r[i]] <= d[r[j]]
  BY DEF InOrder, r
<1>3. CASE i # k /\ j # k
  <2> DEFINE at(x) == IF x < k THEN x ELSE x - 1
  <2>1. at(i) \in DOMAIN s /\ at(j) \in DOMAIN s /\ at(i) < at(j)
    <3>1. /\ i \in Int /\ j \in Int /\ k \in Int /\ Len(s) \in Nat
          /\ 1 <= i /\ i < j /\ j <= Len(s) + 1 /\ i # k /\ j # k
          /\ 1 <= k /\ k <= Len(s) + 1
      BY <1>2, <1>3
    <3>2. /\ at(i) \in Int /\ 1 <= at(i) /\ at(i) <= Len(s)
          /\ at(j) \in Int /\ 1 <= at(j) /\ at(j) <= Len(s)
          /\ at(i) < at(j)
      BY ONLY <3>1, SMTT(30)
    <3> QED BY <1>2, <3>1, <3>2
  <2>2. r[i] = s[at(i)]
    BY <1>1, <1>2, <1>3, Zenon
  <2>3. r[j] = s[at(j)]
    BY <1>1, <1>2, <1>3, Zenon
  <2> QED BY <2>1, <2>2, <2>3 DEF InOrder
<1>4. CASE j = k
  <2>1. i \in 1 .. Len(s) /\ i < k /\ r[i] = s[i] /\ r[j] = e
    BY <1>1, <1>2, <1>4
  <2> QED BY <2>1
<1>5. CASE i = k
  <2>1. j - 1 \in 1 .. Len(s) /\ k <= j - 1 /\ r[j] = s[j - 1] /\ r[i] = e
    BY <1>1, <1>2, <1>5, SMTT(30)
  <2> QED BY <2>1
<1> QED BY <1>3, <1>4, <1>5

-----------------------------------------------------------------------------
(* The operations keep the memory well typed and its links, flags and      *)
(* counters in agreement.                                                  *)

Agree(m) == m \in Mem /\ ActiveListOK(m) /\ TimeTreeOK(m) /\ MapOK(m)

(* The fields of a memory have their types. *)
LEMMA Fields ==
  ASSUME NEW m, Agree(m)
  PROVE  /\ m \in Mem
         /\ m.flags \in [Events -> SUBSET ListFlags]
         /\ m.timeout \in [Events -> Nat] /\ m.evt_timeout \in [Events -> Nat]
         /\ m.evt_list \in [Slots -> Seq(Events)]
         /\ m.evt_time \in Seq(Events) /\ m.evt_active \in Seq(Events)
         /\ m.epoll \in [Fds -> SUBSET Interest]
<1>1. m \in Mem
  BY DEF Agree
<1> QED BY <1>1 DEF Mem

(* What an operation leaves alone stays in agreement. *)
LEMMA ActiveFrame ==
  ASSUME NEW m, NEW n, ActiveListOK(m),
         n.evt_active = m.evt_active,
         n.event_count_active = m.event_count_active,
         \A x \in Events : "ACTIVE" \in n.flags[x] <=> "ACTIVE" \in m.flags[x]
  PROVE  ActiveListOK(n)
BY DEF ActiveListOK

LEMMA TimeFrame ==
  ASSUME NEW m, NEW n, m \in Mem, TimeTreeOK(m),
         n.evt_time = m.evt_time,
         \A x \in Events : "TIMEOUT" \in m.flags[x] =>
                             n.evt_timeout[x] = m.evt_timeout[x],
         \A x \in Events : "TIMEOUT" \in n.flags[x] <=> "TIMEOUT" \in m.flags[x],
         \A x \in Events : "TIMEOUT" \in m.flags[x] => "REG" \in n.flags[x]
  PROVE  TimeTreeOK(n)
<1>1. \A i \in DOMAIN m.evt_time : m.evt_time[i] \in Events /\ In(m.evt_time[i], m.evt_time)
  BY ElementIs, LenIs DEF Mem, In
<1>2. \A i \in DOMAIN m.evt_time :
        n.evt_timeout[m.evt_time[i]] = m.evt_timeout[m.evt_time[i]]
  BY <1>1 DEF TimeTreeOK
<1> QED BY <1>2 DEF TimeTreeOK

LEMMA MapFrame ==
  ASSUME NEW m, NEW n, MapOK(m),
         n.fd = m.fd, n.events = m.events, n.evt_list = m.evt_list,
         n.used = m.used, n.event_count = n.used + Len(n.evt_time),
         \A x \in Events : "REG" \in n.flags[x] <=> "REG" \in m.flags[x]
  PROVE  MapOK(n)
<1>1. \A x \in Events : InMap(n, x) <=> InMap(m, x)
  BY DEF InMap, IsIo
<1>2. {x \in Events : InMap(n, x)} = {x \in Events : InMap(m, x)}
  BY <1>1
<1> QED BY <1>1, <1>2, ZenonT(30) DEF MapOK

(* Changing the flags of one event. *)
LEMMA FlagsOfOne ==
  ASSUME NEW m \in Mem, NEW e \in Events, NEW F \in SUBSET ListFlags
  PROVE  LET fl == [m.flags EXCEPT ![e] = F] IN
         /\ fl \in [Events -> SUBSET ListFlags]
         /\ \A x \in Events : fl[x] = IF x = e THEN F ELSE m.flags[x]
<1>1. m.flags \in [Events -> SUBSET ListFlags]
  BY DEF Mem
<1> QED BY <1>1

(* event_remove_active unlinks the event from the active list, if it was   *)
(* there, and keeps the agreement.                                         *)
LEMMA RemoveActiveAgrees ==
  ASSUME NEW m, Agree(m), NEW e \in Events, "ACTIVE" \in m.flags[e]
  PROVE  LET n == event_remove_active(m, e) IN
         /\ Agree(n)
         /\ n = [m EXCEPT !.evt_active = RemoveFirst(m.evt_active, e),
                          !.flags = [m.flags EXCEPT ![e] = @ \ {"ACTIVE"}],
                          !.event_count_active = m.event_count_active - 1]
<1> DEFINE n == event_remove_active(m, e)
           fl == [m.flags EXCEPT ![e] = @ \ {"ACTIVE"}]
           al == RemoveFirst(m.evt_active, e)
<1>0. m \in Mem
  BY DEF Agree
<1>1. n = [m EXCEPT !.evt_active = al, !.flags = fl,
                    !.event_count_active = m.event_count_active - 1]
  BY <1>0 DEF event_remove_active, Mem
<1>2. /\ al \in Seq(Events) /\ Len(al) = Len(m.evt_active) - 1
      /\ IsInjective(al) /\ \A x : In(x, al) <=> In(x, m.evt_active) /\ x # e
  BY RemoveFirstIs, RemoveFirstKeeps DEF Agree, ActiveListOK, Mem
<1>3. /\ fl \in [Events -> SUBSET ListFlags]
      /\ \A x \in Events : fl[x] = IF x = e THEN m.flags[e] \ {"ACTIVE"} ELSE m.flags[x]
      /\ m.event_count_active - 1 \in Int
  <2>1. m.flags[e] \ {"ACTIVE"} \in SUBSET ListFlags /\ m.event_count_active \in Int
    BY <1>0 DEF Mem
  <2> QED BY <1>0, <2>1, FlagsOfOne
<1> HIDE DEF n, al, fl
<1>4. n \in Mem
  BY <1>0, <1>1, <1>2, <1>3, ZenonT(30) DEF Mem
<1>5. /\ n.flags = fl /\ n.evt_active = al
      /\ n.event_count_active = m.event_count_active - 1
      /\ n.fd = m.fd /\ n.events = m.events /\ n.evt_timeout = m.evt_timeout
      /\ n.evt_list = m.evt_list /\ n.evt_time = m.evt_time
      /\ n.used = m.used /\ n.event_count = m.event_count
  BY <1>0, <1>1 DEF Mem
<1>6. ActiveListOK(n)
  BY <1>2, <1>3, <1>5, SMTT(30) DEF Agree, ActiveListOK
<1>7. TimeTreeOK(n)
  BY <1>0, <1>3, <1>5, TimeFrame DEF Agree, TimeTreeOK
<1>8. MapOK(n)
  <2>1. MapOK(m) /\ n.event_count = n.used + Len(n.evt_time)
    BY <1>5 DEF Agree, MapOK
  <2> QED BY <1>3, <1>5, <2>1, MapFrame
<1> QED BY <1>1, <1>4, <1>6, <1>7, <1>8 DEF Agree, n, al, fl

(* event_add_active links an event that is not active at the tail. *)
LEMMA AddActiveAgrees ==
  ASSUME NEW m, Agree(m), NEW e \in Events, "ACTIVE" \notin m.flags[e],
         NEW r \in SUBSET (Io \cup {"TIMEOUT"})
  PROVE  LET n == event_add_active(m, e, r) IN
         /\ Agree(n)
         /\ n = [m EXCEPT !.res = [m.res EXCEPT ![e] = r],
                          !.evt_active = Append(m.evt_active, e),
                          !.flags = [m.flags EXCEPT ![e] = @ \cup {"ACTIVE"}],
                          !.event_count_active = m.event_count_active + 1]
<1> DEFINE n == event_add_active(m, e, r)
           fl == [m.flags EXCEPT ![e] = @ \cup {"ACTIVE"}]
           al == Append(m.evt_active, e)
           rs == [m.res EXCEPT ![e] = r]
<1>0. m \in Mem
  BY DEF Agree
<1>1. n = [m EXCEPT !.res = rs, !.evt_active = al, !.flags = fl,
                    !.event_count_active = m.event_count_active + 1]
  BY <1>0 DEF event_add_active, Mem
<1>2. /\ al \in Seq(Events) /\ Len(al) = Len(m.evt_active) + 1
      /\ IsInjective(al) /\ \A x : In(x, al) <=> In(x, m.evt_active) \/ x = e
  <2>1. /\ m.evt_active \in Seq(Events) /\ IsInjective(m.evt_active)
        /\ ~In(e, m.evt_active)
    BY DEF Agree, ActiveListOK, Mem
  <2> QED BY <2>1, AppendKeeps
<1>3. /\ fl \in [Events -> SUBSET ListFlags]
      /\ \A x \in Events : fl[x] = IF x = e THEN m.flags[e] \cup {"ACTIVE"} ELSE m.flags[x]
      /\ m.event_count_active + 1 \in Int
      /\ rs \in [Events -> SUBSET (Io \cup {"TIMEOUT"})]
  <2>1. /\ m.flags[e] \cup {"ACTIVE"} \in SUBSET ListFlags /\ m.event_count_active \in Int
        /\ m.res \in [Events -> SUBSET (Io \cup {"TIMEOUT"})]
    BY <1>0 DEF Mem, ListFlags
  <2> QED BY <1>0, <2>1, FlagsOfOne
<1> HIDE DEF n, al, fl, rs
<1>4. n \in Mem
  BY <1>0, <1>1, <1>2, <1>3, ZenonT(30) DEF Mem
<1>5. /\ n.flags = fl /\ n.evt_active = al
      /\ n.event_count_active = m.event_count_active + 1
      /\ n.fd = m.fd /\ n.events = m.events /\ n.evt_timeout = m.evt_timeout
      /\ n.evt_list = m.evt_list /\ n.evt_time = m.evt_time
      /\ n.used = m.used /\ n.event_count = m.event_count
  BY <1>0, <1>1 DEF Mem
<1>6. ActiveListOK(n)
  BY <1>2, <1>3, <1>5, SMTT(30) DEF Agree, ActiveListOK
<1>7. TimeTreeOK(n)
  BY <1>0, <1>3, <1>5, TimeFrame DEF Agree, TimeTreeOK
<1>8. MapOK(n)
  <2>1. MapOK(m) /\ n.event_count = n.used + Len(n.evt_time)
    BY <1>5 DEF Agree, MapOK
  <2> QED BY <1>3, <1>5, <2>1, MapFrame
<1> QED BY <1>1, <1>4, <1>6, <1>7, <1>8 DEF Agree, n, al, fl, rs

(* event_remove_timeout unlinks the event's node from the time tree. *)
LEMMA RemoveTimeoutAgrees ==
  ASSUME NEW m, Agree(m), NEW e \in Events, "TIMEOUT" \in m.flags[e]
  PROVE  LET n == event_remove_timeout(m, e) IN
         /\ Agree(n)
         /\ n = [m EXCEPT !.evt_time = RemoveFirst(m.evt_time, e),
                          !.flags = [m.flags EXCEPT ![e] = @ \ {"TIMEOUT"}],
                          !.event_count = m.event_count - 1]
<1> DEFINE n == event_remove_timeout(m, e)
           fl == [m.flags EXCEPT ![e] = @ \ {"TIMEOUT"}]
           tl == RemoveFirst(m.evt_time, e)
<1>0. m \in Mem
  BY DEF Agree
<1>1. n = [m EXCEPT !.evt_time = tl, !.flags = fl, !.event_count = m.event_count - 1]
  BY <1>0 DEF event_remove_timeout, Mem
<1>2. /\ m.evt_time \in Seq(Events) /\ IsInjective(m.evt_time) /\ In(e, m.evt_time)
  BY <1>0 DEF Agree, TimeTreeOK, Mem
<1>3. tl \in Seq(Events) /\ Len(tl) = Len(m.evt_time) - 1
  BY <1>2, RemoveFirstIs
<1>4. IsInjective(tl) /\ \A x : In(x, tl) <=> In(x, m.evt_time) /\ x # e
  BY <1>2, RemoveFirstKeeps
<1>5. /\ fl \in [Events -> SUBSET ListFlags]
      /\ \A x \in Events : fl[x] = IF x = e THEN m.flags[e] \ {"TIMEOUT"} ELSE m.flags[x]
      /\ m.event_count - 1 \in Int
  <2>1. m.flags[e] \ {"TIMEOUT"} \in SUBSET ListFlags /\ m.event_count \in Int
    BY <1>0 DEF Mem
  <2> QED BY <1>0, <2>1, FlagsOfOne
<1> HIDE DEF n, tl, fl
<1>6. n \in Mem
  BY <1>0, <1>1, <1>3, <1>5, Zenon DEF Mem
<1>7. /\ n.flags = fl /\ n.evt_time = tl /\ n.event_count = m.event_count - 1
      /\ n.fd = m.fd /\ n.events = m.events /\ n.evt_timeout = m.evt_timeout
      /\ n.evt_list = m.evt_list /\ n.evt_active = m.evt_active
      /\ n.used = m.used /\ n.event_count_active = m.event_count_active
  BY <1>0, <1>1 DEF Mem
<1>8. ActiveListOK(n)
  BY <1>5, <1>7, ActiveFrame DEF Agree
<1>9. TimeTreeOK(n)
  <2>1. InOrder(m.evt_time, m.evt_timeout)
    BY DEF Agree, TimeTreeOK, InOrder
  <2>2. InOrder(tl, m.evt_timeout)
    BY <1>2, <2>1, RemoveFirstInOrder DEF tl
  <2> QED BY <1>4, <1>5, <1>7, <2>2 DEF Agree, TimeTreeOK, InOrder
<1>10. MapOK(n)
  <2>1. m.event_count = m.used + Len(m.evt_time)
    BY DEF Agree, MapOK
  <2>2. m.event_count \in Int /\ m.used \in Int /\ Len(m.evt_time) \in Nat
    BY <1>0, <1>2 DEF Mem
  <2>3. n.event_count = n.used + (Len(m.evt_time) - 1)
    BY <1>7, <2>1, <2>2
  <2>4. n.event_count = n.used + Len(n.evt_time)
    BY <1>3, <1>7, <2>3
  <2> QED BY <1>5, <1>7, <2>4, MapFrame DEF Agree
<1> QED BY <1>1, <1>6, <1>8, <1>9, <1>10 DEF Agree, n, tl, fl

(* event_add_timeout links the event's node before the first later one. *)
LEMMA AddTimeoutAgrees ==
  ASSUME NEW m, Agree(m), NEW e \in Events,
         "TIMEOUT" \notin m.flags[e], "REG" \in m.flags[e]
  PROVE  LET n == event_add_timeout(m, e) IN
         /\ Agree(n)
         /\ n = [m EXCEPT !.evt_time = InsertAt(m.evt_time, TimePosition(m, e), e),
                          !.flags = [m.flags EXCEPT ![e] = @ \cup {"TIMEOUT"}],
                          !.event_count = m.event_count + 1]
<1> DEFINE n == event_add_timeout(m, e)
           fl == [m.flags EXCEPT ![e] = @ \cup {"TIMEOUT"}]
           k == TimePosition(m, e)
           s == m.evt_time
           d == m.evt_timeout
           tl == InsertAt(s, k, e)
<1>0. m \in Mem
  BY DEF Agree
<1>1. n = [m EXCEPT !.evt_time = tl, !.flags = fl, !.event_count = m.event_count + 1]
  BY <1>0 DEF event_add_timeout, Mem
<1>2. /\ s \in Seq(Events) /\ IsInjective(s) /\ ~In(e, s)
      /\ d \in [Events -> Int] /\ InOrder(s, d)
  BY <1>0 DEF Agree, TimeTreeOK, InOrder, Mem
<1>3. /\ k \in 1 .. Len(s) + 1
      /\ \A i \in 1 .. Len(s) : i < k => d[s[i]] <= d[e]
      /\ \A i \in 1 .. Len(s) : k <= i => d[e] <= d[s[i]]
  <2> DEFINE I == {i \in 1 .. Len(s) : d[s[i]] > d[e]}
  <2>0. /\ Len(s) \in Nat /\ DOMAIN s = 1 .. Len(s)
        /\ \A i \in 1 .. Len(s) : d[s[i]] \in Int
        /\ d[e] \in Int
    BY <1>2, LenIs, ElementIs
  <2>1. k = IF (IF I # {} THEN Min(I) ELSE 0) = 0 THEN Len(s) + 1
            ELSE IF I # {} THEN Min(I) ELSE 0
    BY DEF TimePosition, SelectInSeq
  <2>2. CASE I = {}
    <3>1. k = Len(s) + 1
      BY <2>1, <2>2
    <3> QED BY <2>0, <2>2, <3>1, SMTT(30)
  <2>3. CASE I # {}
    <3>0. I \subseteq Nat
      BY <2>0
    <3>1. Min(I) \in I /\ \A x \in I : Min(I) <= x
      <4> HIDE DEF I
      <4> QED BY <2>3, <3>0, MinNat, Zenon
    <3>2. k = Min(I)
      BY <2>1, <2>3, <3>1, SMTT(30)
    <3> HIDE DEF k
    <3>3. k \in 1 .. Len(s) /\ d[s[k]] > d[e]
      BY <3>1, <3>2, SMTT(30)
    <3>4. \A i \in 1 .. Len(s) : i < k => d[s[i]] <= d[e]
      BY <2>0, <3>1, <3>2, SMTT(30)
    <3>5. \A i \in 1 .. Len(s) : k < i => d[s[k]] <= d[s[i]]
      BY <1>2, <2>0, <3>3, Zenon DEF InOrder
    <3> QED BY <2>0, <3>3, <3>4, <3>5, SMTT(30)
  <2> QED BY <2>2, <2>3
<1> HIDE DEF s, d, k
<1>4. tl \in Seq(Events) /\ Len(tl) = Len(s) + 1
  BY <1>2, <1>3, InsertAtIs
<1>5. IsInjective(tl) /\ \A x : In(x, tl) <=> In(x, s) \/ x = e
  BY <1>2, <1>3, InsertAtKeeps
<1>6. InOrder(tl, d)
  BY <1>2, <1>3, InsertAtInOrder, Zenon
<1>7. /\ fl \in [Events -> SUBSET ListFlags]
      /\ \A x \in Events : fl[x] = IF x = e THEN m.flags[e] \cup {"TIMEOUT"} ELSE m.flags[x]
      /\ m.event_count + 1 \in Int
  <2>1. m.flags[e] \cup {"TIMEOUT"} \in SUBSET ListFlags /\ m.event_count \in Int
    BY <1>0 DEF Mem, ListFlags
  <2> QED BY <1>0, <2>1, FlagsOfOne
<1> HIDE DEF n, tl, fl
<1>8. n \in Mem
  BY <1>0, <1>1, <1>4, <1>7, Zenon DEF Mem
<1>9. /\ n.flags = fl /\ n.evt_time = tl /\ n.event_count = m.event_count + 1
      /\ n.fd = m.fd /\ n.events = m.events /\ n.evt_timeout = d
      /\ n.evt_list = m.evt_list /\ n.evt_active = m.evt_active
      /\ n.used = m.used /\ n.event_count_active = m.event_count_active
  BY <1>0, <1>1 DEF Mem, d
<1>10. ActiveListOK(n)
  BY <1>7, <1>9, ActiveFrame, SMTT(30) DEF Agree
<1>11. TimeTreeOK(n)
  BY <1>5, <1>6, <1>7, <1>9 DEF Agree, TimeTreeOK, InOrder, s
<1>12. MapOK(n)
  <2>1. m.event_count = m.used + Len(s)
    BY DEF Agree, MapOK, s
  <2>2. m.event_count \in Int /\ m.used \in Int /\ Len(s) \in Nat
    BY <1>0, <1>2 DEF Mem
  <2>3. n.event_count = n.used + (Len(s) + 1)
    BY <1>9, <2>1, <2>2
  <2>4. n.event_count = n.used + Len(n.evt_time)
    BY <1>4, <1>9, <2>3
  <2> QED BY <1>7, <1>9, <2>4, MapFrame DEF Agree
<1> QED BY <1>1, <1>8, <1>10, <1>11, <1>12 DEF Agree, n, tl, fl, s, k

(* The fd of an I/O event has a slot. *)
LEMMA SlotOfIo ==
  ASSUME NEW m \in Mem, NEW e \in Events, IsIo(m, e)
  PROVE  m.fd[e] \in Fds /\ event_map_get_slot(m.fd[e]) \in Slots
<1>1. m.fd[e] \in Fds \cup {-1} /\ m.fd[e] >= 0
  BY DEF Mem, IsIo
<1>2. m.fd[e] # -1
  BY <1>1
<1>3. m.fd[e] \in Fds
  BY <1>1, <1>2
<1>4. m.fd[e] \in Nat /\ MapSize \in Nat \ {0}
  BY <1>3, BaseAssumption, Zenon
<1> QED BY <1>3, <1>4 DEF event_map_get_slot, Slots

(* The first part of event_add, for an event that is not registered:       *)
(* event_map_add, when it does not fail, and the REG flag.                 *)
LEMMA RegisterAgrees ==
  ASSUME NEW m, Agree(m), NEW e \in Events, "REG" \notin m.flags[e],
         NEW registered, IsIo(m, e) => registered
  PROVE  LET n == [event_map_add(m, e, registered) EXCEPT !.flags[e] = @ \cup {"REG"}] IN
         /\ Agree(n)
         /\ n.flags = [m.flags EXCEPT ![e] = @ \cup {"REG"}]
         /\ n.evt_active = m.evt_active /\ n.evt_time = m.evt_time
         /\ n.fd = m.fd /\ n.events = m.events /\ n.res = m.res
         /\ n.timeout = m.timeout /\ n.evt_timeout = m.evt_timeout
<1> DEFINE n == [event_map_add(m, e, registered) EXCEPT !.flags[e] = @ \cup {"REG"}]
           fl == [m.flags EXCEPT ![e] = @ \cup {"REG"}]
           k == event_map_get_slot(m.fd[e])
           el == [m.evt_list EXCEPT ![k] = Append(@, e)]
           ep == [m.epoll EXCEPT ![m.fd[e]] = EpollInterest(m.events[e])]
<1>0. m \in Mem
  BY DEF Agree
<1>1. /\ fl \in [Events -> SUBSET ListFlags]
      /\ \A x \in Events : fl[x] = IF x = e THEN m.flags[e] \cup {"REG"} ELSE m.flags[x]
  <2>1. m.flags[e] \cup {"REG"} \in SUBSET ListFlags
    BY <1>0 DEF Mem, ListFlags
  <2> QED BY <1>0, <2>1, FlagsOfOne
<1>2. CASE ~IsIo(m, e)
  <2>1. n = [m EXCEPT !.flags = fl]
    BY <1>0, <1>2 DEF event_map_add, Mem
  <2> HIDE DEF n, fl
  <2>2. n \in Mem
    BY <1>0, <1>1, <2>1, Zenon DEF Mem
  <2>3. /\ n.flags = fl /\ n.evt_active = m.evt_active
        /\ n.event_count_active = m.event_count_active
        /\ n.fd = m.fd /\ n.events = m.events /\ n.evt_timeout = m.evt_timeout
        /\ n.evt_list = m.evt_list /\ n.evt_time = m.evt_time
        /\ n.used = m.used /\ n.event_count = m.event_count
        /\ n.res = m.res /\ n.timeout = m.timeout
    BY <1>0, <2>1 DEF Mem
  <2>4. ActiveListOK(n)
    BY <1>1, <2>3, ActiveFrame DEF Agree
  <2>5. TimeTreeOK(n)
    BY <1>0, <1>1, <2>3, TimeFrame DEF Agree, TimeTreeOK
  <2>6. MapOK(n)
    <3>1. \A x \in Events : InMap(n, x) <=> InMap(m, x)
      BY <1>1, <1>2, <2>3 DEF InMap, IsIo
    <3>2. {x \in Events : InMap(n, x)} = {x \in Events : InMap(m, x)}
      BY <3>1
    <3> QED BY <2>3, <3>1, <3>2, ZenonT(30) DEF Agree, MapOK
  <2> QED BY <2>2, <2>3, <2>4, <2>5, <2>6 DEF Agree, n, fl
<1>3. CASE IsIo(m, e)
  <2>0. m.fd[e] \in Fds /\ k \in Slots
    BY <1>0, <1>3, SlotOfIo
  <2>1. n = [m EXCEPT !.epoll = ep, !.evt_list = el, !.used = m.used + 1,
                      !.event_count = m.event_count + 1, !.flags = fl]
    BY <1>0, <1>3, SMTT(30) DEF event_map_add, event_register, Mem
  <2>2. m.evt_list[k] \in Seq(Events) /\ IsInjective(m.evt_list[k]) /\ ~In(e, m.evt_list[k])
    BY <1>0, <2>0 DEF Agree, MapOK, InMap, Mem
  <2>3. /\ Append(m.evt_list[k], e) \in Seq(Events)
        /\ IsInjective(Append(m.evt_list[k], e))
        /\ \A x : In(x, Append(m.evt_list[k], e)) <=> In(x, m.evt_list[k]) \/ x = e
    BY <2>2, AppendKeeps
  <2>4. /\ el \in [Slots -> Seq(Events)]
        /\ \A i \in Slots : el[i] = IF i = k THEN Append(m.evt_list[k], e) ELSE m.evt_list[i]
    BY <1>0, <2>0, <2>3 DEF Mem
  <2>5. ep \in [Fds -> SUBSET Interest]
    BY <1>0, <2>0 DEF Mem, EpollInterest, Interest
  <2>6. m.used \in Int /\ m.used + 1 \in Int /\ m.event_count \in Int /\ m.event_count + 1 \in Int
    BY <1>0 DEF Mem
  <2> HIDE DEF n, fl, el, ep, k
  <2>7. n \in Mem
    BY <1>0, <1>1, <2>1, <2>4, <2>5, <2>6, ZenonT(60) DEF Mem
  <2>8. /\ n.flags = fl /\ n.evt_active = m.evt_active
        /\ n.event_count_active = m.event_count_active
        /\ n.fd = m.fd /\ n.events = m.events /\ n.evt_timeout = m.evt_timeout
        /\ n.evt_list = el /\ n.evt_time = m.evt_time
        /\ n.used = m.used + 1 /\ n.event_count = m.event_count + 1
        /\ n.res = m.res /\ n.timeout = m.timeout
    BY <1>0, <2>1 DEF Mem
  <2>9. ActiveListOK(n)
    BY <1>1, <2>8, ActiveFrame, SMTT(30) DEF Agree
  <2>10. TimeTreeOK(n)
    BY <1>0, <1>1, <2>8, TimeFrame DEF Agree, TimeTreeOK
  <2>11. MapOK(n)
    <3>1. \A x \in Events : InMap(n, x) <=> InMap(m, x) \/ x = e
      BY <1>1, <1>3, <2>8 DEF InMap, IsIo
    <3>2. \A i \in Slots :
            /\ IsInjective(n.evt_list[i])
            /\ \A x \in Events :
                 In(x, n.evt_list[i]) <=> InMap(n, x) /\ event_map_get_slot(n.fd[x]) = i
      <4>1. \A i \in Slots : \A x \in Events :
              In(x, m.evt_list[i]) <=> InMap(m, x) /\ event_map_get_slot(m.fd[x]) = i
        BY DEF Agree, MapOK
      <4>2. \A i \in Slots : IsInjective(m.evt_list[i])
        BY DEF Agree, MapOK
      <4> SUFFICES ASSUME NEW i \in Slots
                   PROVE  /\ IsInjective(el[i])
                          /\ \A x \in Events :
                               In(x, el[i]) <=> InMap(n, x) /\ event_map_get_slot(m.fd[x]) = i
        BY <2>8, SMTT(30)
      <4>3. CASE i = k
        <5>1. el[i] = Append(m.evt_list[k], e)
          BY <2>4, <4>3
        <5> QED BY <2>3, <3>1, <4>1, <4>3, <5>1, SMTT(30) DEF k
      <4>4. CASE i # k
        <5>1. el[i] = m.evt_list[i]
          BY <2>4, <4>4
        <5> QED BY <3>1, <4>1, <4>2, <4>4, <5>1 DEF k
      <4> QED BY <4>3, <4>4
    <3> DEFINE M == {x \in Events : InMap(m, x)}
    <3>3. {x \in Events : InMap(n, x)} = M \cup {e}
      BY <3>1
    <3>4. e \notin M /\ IsFiniteSet(M)
      BY BaseAssumption, FS_Subset DEF InMap
    <3>5. Cardinality(M \cup {e}) = Cardinality(M) + 1
      BY <3>4, FS_AddElement, Zenon
    <3>6. m.used = Cardinality(M) /\ m.event_count = m.used + Len(m.evt_time)
      BY DEF Agree, MapOK
    <3>7. Len(m.evt_time) \in Nat
      BY <1>0 DEF Mem
    <3>8. n.event_count = n.used + Len(n.evt_time)
      BY <2>6, <2>8, <3>6, <3>7
    <3> QED BY <2>8, <3>2, <3>3, <3>5, <3>6, <3>8, ZenonT(30) DEF MapOK
  <2> QED BY <2>7, <2>8, <2>9, <2>10, <2>11 DEF Agree, n, fl
<1> QED BY <1>2, <1>3

(* The last part of event_del, for a registered event whose timer is gone: *)
(* event_map_remove, and the REG flag.                                     *)
LEMMA UnregisterAgrees ==
  ASSUME NEW m, Agree(m), NEW e \in Events,
         "REG" \in m.flags[e], "TIMEOUT" \notin m.flags[e]
  PROVE  LET n == [event_map_remove(m, e) EXCEPT !.flags[e] = @ \ {"REG"}] IN
         /\ Agree(n)
         /\ n.flags = [m.flags EXCEPT ![e] = @ \ {"REG"}]
         /\ n.evt_active = m.evt_active /\ n.evt_time = m.evt_time
         /\ n.fd = m.fd /\ n.events = m.events /\ n.res = m.res
         /\ n.timeout = m.timeout /\ n.evt_timeout = m.evt_timeout
<1> DEFINE n == [event_map_remove(m, e) EXCEPT !.flags[e] = @ \ {"REG"}]
           fl == [m.flags EXCEPT ![e] = @ \ {"REG"}]
           k == event_map_get_slot(m.fd[e])
           el == [m.evt_list EXCEPT ![k] = RemoveFirst(@, e)]
           ep == [m.epoll EXCEPT ![m.fd[e]] = {}]
<1>0. m \in Mem
  BY DEF Agree
<1>1. /\ fl \in [Events -> SUBSET ListFlags]
      /\ \A x \in Events : fl[x] = IF x = e THEN m.flags[e] \ {"REG"} ELSE m.flags[x]
  <2>1. m.flags[e] \ {"REG"} \in SUBSET ListFlags
    BY <1>0 DEF Mem
  <2> QED BY <1>0, <2>1, FlagsOfOne
<1>2. CASE ~IsIo(m, e)
  <2>1. n = [m EXCEPT !.flags = fl]
    BY <1>0, <1>2 DEF event_map_remove, Mem
  <2> HIDE DEF n, fl
  <2>2. n \in Mem
    BY <1>0, <1>1, <2>1, ZenonT(30) DEF Mem
  <2>3. /\ n.flags = fl /\ n.evt_active = m.evt_active
        /\ n.event_count_active = m.event_count_active
        /\ n.fd = m.fd /\ n.events = m.events /\ n.evt_timeout = m.evt_timeout
        /\ n.evt_list = m.evt_list /\ n.evt_time = m.evt_time
        /\ n.used = m.used /\ n.event_count = m.event_count
        /\ n.res = m.res /\ n.timeout = m.timeout
    BY <1>0, <2>1 DEF Mem
  <2>4. ActiveListOK(n)
    BY <1>1, <2>3, ActiveFrame, SMTT(30) DEF Agree
  <2>5. TimeTreeOK(n)
    BY <1>0, <1>1, <2>3, TimeFrame, SMTT(30) DEF Agree, TimeTreeOK
  <2>6. MapOK(n)
    <3>1. \A x \in Events : InMap(n, x) <=> InMap(m, x)
      BY <1>1, <1>2, <2>3 DEF InMap, IsIo
    <3>2. {x \in Events : InMap(n, x)} = {x \in Events : InMap(m, x)}
      BY <3>1
    <3> QED BY <2>3, <3>1, <3>2, ZenonT(60) DEF Agree, MapOK
  <2> QED BY <2>2, <2>3, <2>4, <2>5, <2>6 DEF Agree, n, fl
<1>3. CASE IsIo(m, e)
  <2>0. m.fd[e] \in Fds /\ k \in Slots
    BY <1>0, <1>3, SlotOfIo
  <2>1. n = [m EXCEPT !.epoll = ep, !.evt_list = el, !.used = m.used - 1,
                      !.event_count = m.event_count - 1, !.flags = fl]
    BY <1>0, <1>3, SMTT(30) DEF event_map_remove, event_unregister, Mem
  <2>2. m.evt_list[k] \in Seq(Events) /\ IsInjective(m.evt_list[k]) /\ In(e, m.evt_list[k])
    BY <1>0, <1>3, <2>0, SMTT(30) DEF Agree, MapOK, InMap, Mem
  <2>3. /\ RemoveFirst(m.evt_list[k], e) \in Seq(Events)
        /\ IsInjective(RemoveFirst(m.evt_list[k], e))
        /\ \A x : In(x, RemoveFirst(m.evt_list[k], e)) <=> In(x, m.evt_list[k]) /\ x # e
    BY <2>2, RemoveFirstIs, RemoveFirstKeeps, SMTT(30)
  <2>4. /\ el \in [Slots -> Seq(Events)]
        /\ \A i \in Slots : el[i] = IF i = k THEN RemoveFirst(m.evt_list[k], e)
                                    ELSE m.evt_list[i]
    BY <1>0, <2>0, <2>3 DEF Mem
  <2>5. ep \in [Fds -> SUBSET Interest]
    BY <1>0, <2>0 DEF Mem
  <2>6. m.used \in Int /\ m.used - 1 \in Int /\ m.event_count \in Int /\ m.event_count - 1 \in Int
    BY <1>0 DEF Mem
  <2> HIDE DEF n, fl, el, ep, k
  <2>7. n \in Mem
    BY <1>0, <1>1, <2>1, <2>4, <2>5, <2>6, ZenonT(60) DEF Mem
  <2>8. /\ n.flags = fl /\ n.evt_active = m.evt_active
        /\ n.event_count_active = m.event_count_active
        /\ n.fd = m.fd /\ n.events = m.events /\ n.evt_timeout = m.evt_timeout
        /\ n.evt_list = el /\ n.evt_time = m.evt_time
        /\ n.used = m.used - 1 /\ n.event_count = m.event_count - 1
        /\ n.res = m.res /\ n.timeout = m.timeout
    BY <1>0, <2>1 DEF Mem
  <2>9. ActiveListOK(n)
    BY <1>1, <2>8, ActiveFrame, SMTT(30) DEF Agree
  <2>10. TimeTreeOK(n)
    BY <1>0, <1>1, <2>8, TimeFrame, ZenonT(30) DEF Agree, TimeTreeOK
  <2>11. MapOK(n)
    <3>1. \A x \in Events : InMap(n, x) <=> InMap(m, x) /\ x # e
      BY <1>1, <1>3, <2>8, SMTT(30) DEF InMap, IsIo
    <3>2. \A i \in Slots :
            /\ IsInjective(n.evt_list[i])
            /\ \A x \in Events :
                 In(x, n.evt_list[i]) <=> InMap(n, x) /\ event_map_get_slot(n.fd[x]) = i
      <4>1. \A i \in Slots : \A x \in Events :
              In(x, m.evt_list[i]) <=> InMap(m, x) /\ event_map_get_slot(m.fd[x]) = i
        BY DEF Agree, MapOK
      <4>2. \A i \in Slots : IsInjective(m.evt_list[i])
        BY DEF Agree, MapOK
      <4> SUFFICES ASSUME NEW i \in Slots
                   PROVE  /\ IsInjective(el[i])
                          /\ \A x \in Events :
                               In(x, el[i]) <=> InMap(n, x) /\ event_map_get_slot(m.fd[x]) = i
        BY <2>8, SMTT(30)
      <4>3. CASE i = k
        <5>1. el[i] = RemoveFirst(m.evt_list[k], e)
          BY <2>4, <4>3
        <5> QED BY <2>3, <3>1, <4>1, <4>3, <5>1, SMTT(30) DEF k
      <4>4. CASE i # k
        <5>1. el[i] = m.evt_list[i]
          BY <2>4, <4>4
        <5> QED BY <3>1, <4>1, <4>2, <4>4, <5>1 DEF k
      <4> QED BY <4>3, <4>4
    <3> DEFINE M == {x \in Events : InMap(m, x)}
    <3>3. {x \in Events : InMap(n, x)} = M \ {e}
      BY <3>1
    <3>4. e \in M /\ IsFiniteSet(M)
      BY <1>3, BaseAssumption, FS_Subset DEF InMap
    <3>5. Cardinality(M \ {e}) = Cardinality(M) - 1
      BY <3>4, FS_RemoveElement, SMTT(30)
    <3>6. m.used = Cardinality(M) /\ m.event_count = m.used + Len(m.evt_time)
      BY DEF Agree, MapOK
    <3>7. Len(m.evt_time) \in Nat
      BY <1>0 DEF Mem
    <3>8. n.event_count = n.used + Len(n.evt_time)
      BY <2>6, <2>8, <3>6, <3>7, SMTT(30)
    <3> QED BY <2>8, <3>2, <3>3, <3>5, <3>6, <3>8, ZenonT(30) DEF MapOK
  <2> QED BY <2>7, <2>8, <2>9, <2>10, <2>11 DEF Agree, n, fl
<1> QED BY <1>2, <1>3

(* n is m but for the links, the counters and the flags. *)
SameFields(m, n) ==
  /\ n.fd = m.fd /\ n.events = m.events /\ n.res = m.res
  /\ n.timeout = m.timeout /\ n.evt_timeout = m.evt_timeout

(* n's flags are m's, but for those of e, which are F. *)
FlagsAt(m, n, e, F) ==
  \A x \in Events : n.flags[x] = IF x = e THEN F ELSE m.flags[x]

LEMMA RemoveTimeoutIs ==
  ASSUME NEW m, Agree(m), NEW e \in Events
  PROVE  LET n == event_remove_timeout(m, e) IN
         /\ Agree(n) /\ SameFields(m, n) /\ n.evt_active = m.evt_active
         /\ n.evt_list = m.evt_list /\ n.epoll = m.epoll
         /\ FlagsAt(m, n, e, m.flags[e] \ {"TIMEOUT"})
         /\ n.evt_time = IF "TIMEOUT" \in m.flags[e]
                         THEN RemoveFirst(m.evt_time, e) ELSE m.evt_time
<1> DEFINE n == event_remove_timeout(m, e)
<1>0. m \in Mem
  BY DEF Agree
<1>1. CASE "TIMEOUT" \notin m.flags[e]
  <2>1. n = m /\ m.flags[e] \ {"TIMEOUT"} = m.flags[e]
    BY <1>1 DEF event_remove_timeout
  <2> QED BY <1>1, <2>1 DEF SameFields, FlagsAt
<1>2. CASE "TIMEOUT" \in m.flags[e]
  <2> DEFINE fl == [m.flags EXCEPT ![e] = @ \ {"TIMEOUT"}]
             tl == RemoveFirst(m.evt_time, e)
  <2>1. /\ Agree(n)
        /\ n = [m EXCEPT !.evt_time = tl, !.flags = fl, !.event_count = m.event_count - 1]
    BY <1>2, RemoveTimeoutAgrees, Zenon
  <2>2. \A x \in Events : fl[x] = IF x = e THEN m.flags[e] \ {"TIMEOUT"} ELSE m.flags[x]
    BY <1>0 DEF Mem
  <2> HIDE DEF n, fl, tl
  <2>3. /\ n.flags = fl /\ n.evt_time = tl /\ n.evt_active = m.evt_active
        /\ n.evt_list = m.evt_list /\ n.epoll = m.epoll /\ SameFields(m, n)
    BY <1>0, <2>1 DEF Mem, SameFields
  <2>4. FlagsAt(m, n, e, m.flags[e] \ {"TIMEOUT"})
    BY <2>2, <2>3 DEF FlagsAt
  <2> QED BY <1>2, <2>1, <2>3, <2>4 DEF n, tl
<1> QED BY <1>1, <1>2

LEMMA RemoveActiveIs ==
  ASSUME NEW m, Agree(m), NEW e \in Events
  PROVE  LET n == event_remove_active(m, e) IN
         /\ Agree(n) /\ SameFields(m, n) /\ n.evt_time = m.evt_time
         /\ n.evt_list = m.evt_list /\ n.epoll = m.epoll
         /\ FlagsAt(m, n, e, m.flags[e] \ {"ACTIVE"})
         /\ n.evt_active = IF "ACTIVE" \in m.flags[e]
                           THEN RemoveFirst(m.evt_active, e) ELSE m.evt_active
<1> DEFINE n == event_remove_active(m, e)
<1>0. m \in Mem
  BY DEF Agree
<1>1. CASE "ACTIVE" \notin m.flags[e]
  <2>1. n = m /\ m.flags[e] \ {"ACTIVE"} = m.flags[e]
    BY <1>1 DEF event_remove_active
  <2> QED BY <1>1, <2>1 DEF SameFields, FlagsAt
<1>2. CASE "ACTIVE" \in m.flags[e]
  <2> DEFINE fl == [m.flags EXCEPT ![e] = @ \ {"ACTIVE"}]
             al == RemoveFirst(m.evt_active, e)
  <2>1. /\ Agree(n)
        /\ n = [m EXCEPT !.evt_active = al, !.flags = fl,
                         !.event_count_active = m.event_count_active - 1]
    BY <1>2, RemoveActiveAgrees, Zenon
  <2>2. \A x \in Events : fl[x] = IF x = e THEN m.flags[e] \ {"ACTIVE"} ELSE m.flags[x]
    BY <1>0 DEF Mem
  <2> HIDE DEF n, fl, al
  <2>3. /\ n.flags = fl /\ n.evt_active = al /\ n.evt_time = m.evt_time
        /\ n.evt_list = m.evt_list /\ n.epoll = m.epoll /\ SameFields(m, n)
    BY <1>0, <2>1 DEF Mem, SameFields
  <2>4. FlagsAt(m, n, e, m.flags[e] \ {"ACTIVE"})
    BY <2>2, <2>3 DEF FlagsAt
  <2> QED BY <1>2, <2>1, <2>3, <2>4 DEF n, al
<1> QED BY <1>1, <1>2

(* event_del leaves the event in no list, and the others where they were. *)
LEMMA DelIs ==
  ASSUME NEW m, Agree(m), NEW e \in Events
  PROVE  LET n == event_del(m, e) IN
         /\ Agree(n) /\ SameFields(m, n)
         /\ FlagsAt(m, n, e, m.flags[e] \ {"REG", "ACTIVE", "TIMEOUT"})
         /\ n.evt_active = IF "ACTIVE" \in m.flags[e]
                           THEN RemoveFirst(m.evt_active, e) ELSE m.evt_active
         /\ n.evt_time = IF "TIMEOUT" \in m.flags[e]
                         THEN RemoveFirst(m.evt_time, e) ELSE m.evt_time
<1> DEFINE n == event_del(m, e)
           a == event_remove_timeout(m, e)
           b == event_remove_active(a, e)
           c == [event_map_remove(b, e) EXCEPT !.flags[e] = @ \ {"REG"}]
           d == [b EXCEPT !.flags[e] = @ \ {"REG"}]
<1>1. /\ Agree(a) /\ SameFields(m, a) /\ a.evt_active = m.evt_active
      /\ FlagsAt(m, a, e, m.flags[e] \ {"TIMEOUT"})
      /\ a.evt_time = IF "TIMEOUT" \in m.flags[e]
                      THEN RemoveFirst(m.evt_time, e) ELSE m.evt_time
  BY RemoveTimeoutIs
<1> HIDE DEF a
<1>2. /\ Agree(b) /\ SameFields(a, b) /\ b.evt_time = a.evt_time
      /\ FlagsAt(a, b, e, a.flags[e] \ {"ACTIVE"})
      /\ b.evt_active = IF "ACTIVE" \in a.flags[e]
                        THEN RemoveFirst(a.evt_active, e) ELSE a.evt_active
  BY <1>1, RemoveActiveIs
<1> HIDE DEF b
<1>3. a.flags[e] = m.flags[e] \ {"TIMEOUT"} /\ b.flags[e] = m.flags[e] \ {"TIMEOUT", "ACTIVE"}
  <2>1. a.flags[e] = m.flags[e] \ {"TIMEOUT"}
    BY <1>1 DEF FlagsAt
  <2>2. b.flags[e] = a.flags[e] \ {"ACTIVE"}
    BY <1>2 DEF FlagsAt
  <2> QED BY <2>1, <2>2
<1>4. \A x \in Events : x # e => b.flags[x] = m.flags[x]
  BY <1>1, <1>2 DEF FlagsAt
<1>5. b.evt_active = IF "ACTIVE" \in m.flags[e]
                     THEN RemoveFirst(m.evt_active, e) ELSE m.evt_active
  BY <1>1, <1>2, <1>3, SMTT(30)
<1>6. SameFields(m, b)
  BY <1>1, <1>2 DEF SameFields
<1>7. CASE m.flags[e] \cap {"REG", "ACTIVE"} = {}
  <2>1. n = m
    BY <1>7 DEF event_del
  <2>2. "ACTIVE" \notin m.flags[e] /\ "REG" \notin m.flags[e] /\ "TIMEOUT" \notin m.flags[e]
    BY <1>7 DEF Agree, TimeTreeOK
  <2>3. m.flags[e] \ {"REG", "ACTIVE", "TIMEOUT"} = m.flags[e]
    BY <2>2
  <2> QED BY <2>1, <2>2, <2>3 DEF SameFields, FlagsAt
<1>8. CASE "REG" \in m.flags[e]
  <2>1. n = c
    BY <1>8 DEF event_del, a, b
  <2>2. "REG" \in b.flags[e] /\ "TIMEOUT" \notin b.flags[e]
    BY <1>3, <1>8
  <2>3. /\ Agree(c) /\ SameFields(b, c) /\ c.evt_active = b.evt_active
        /\ c.evt_time = b.evt_time
        /\ c.flags = [b.flags EXCEPT ![e] = @ \ {"REG"}]
    BY <1>2, <2>2, UnregisterAgrees, SMTT(30) DEF SameFields
  <2> HIDE DEF c, n
  <2>4. b.flags \in [Events -> SUBSET ListFlags]
    BY <1>2, Fields
  <2>5. FlagsAt(m, c, e, m.flags[e] \ {"REG", "ACTIVE", "TIMEOUT"})
    BY <1>3, <1>4, <2>3, <2>4, ZenonT(60) DEF FlagsAt
  <2>6. SameFields(m, c)
    BY <1>6, <2>3 DEF SameFields
  <2> QED BY <1>1, <1>2, <1>5, <2>1, <2>3, <2>5, <2>6 DEF n
<1>9. CASE "REG" \notin m.flags[e] /\ "ACTIVE" \in m.flags[e]
  <2>1. n = d
    BY <1>9 DEF event_del, a, b
  <2>2. b.flags[e] \ {"REG"} = b.flags[e] /\ b \in Mem
    BY <1>2, <1>3, <1>9 DEF Agree
  <2>3. d = b
    BY <2>2 DEF Mem
  <2> HIDE DEF d, n
  <2>4. FlagsAt(m, b, e, m.flags[e] \ {"REG", "ACTIVE", "TIMEOUT"})
    BY <1>3, <1>4, <1>9, SMTT(30) DEF FlagsAt
  <2> QED BY <1>1, <1>2, <1>5, <1>6, <2>1, <2>3, <2>4 DEF n
<1> QED BY <1>7, <1>8, <1>9

WithDeadline(m, e, i, d) == [m EXCEPT !.timeout[e] = i, !.evt_timeout[e] = d]

(* n is m but for the interval and the deadline of e. *)
DeadlineSet(m, n, e, i, d) ==
  /\ Agree(n) /\ n.flags = m.flags /\ n.evt_active = m.evt_active
  /\ n.evt_time = m.evt_time /\ n.fd = m.fd /\ n.events = m.events
  /\ n.res = m.res /\ n.epoll = m.epoll /\ n.evt_list = m.evt_list
  /\ n.timeout = [m.timeout EXCEPT ![e] = i]
  /\ n.evt_timeout = [m.evt_timeout EXCEPT ![e] = d]

(* Setting the deadline of an event that is not in the tree. *)
LEMMA SetDeadlineAgrees ==
  ASSUME NEW m, Agree(m), NEW e \in Events, "TIMEOUT" \notin m.flags[e],
         NEW i \in Nat, NEW d \in Nat
  PROVE  DeadlineSet(m, WithDeadline(m, e, i, d), e, i, d)
<1> DEFINE ti == [m.timeout EXCEPT ![e] = i]
           de == [m.evt_timeout EXCEPT ![e] = d]
           n == WithDeadline(m, e, i, d)
<1>0. m \in Mem
  BY DEF Agree
<1>1. n = [m EXCEPT !.timeout = ti, !.evt_timeout = de]
  BY <1>0 DEF Mem, WithDeadline
<1>2. /\ ti \in [Events -> Nat] /\ de \in [Events -> Nat]
      /\ \A x \in Events : x # e => de[x] = m.evt_timeout[x]
  BY <1>0 DEF Mem
<1> HIDE DEF ti, de, n
<1>3. n \in Mem
  BY <1>0, <1>1, <1>2, ZenonT(30) DEF Mem
<1>4. /\ n.flags = m.flags /\ n.evt_active = m.evt_active
      /\ n.evt_time = m.evt_time /\ n.fd = m.fd /\ n.events = m.events
      /\ n.res = m.res /\ n.epoll = m.epoll /\ n.evt_list = m.evt_list
      /\ n.used = m.used /\ n.event_count = m.event_count
      /\ n.event_count_active = m.event_count_active
      /\ n.timeout = ti /\ n.evt_timeout = de
  BY <1>0, <1>1 DEF Mem
<1>5. ActiveListOK(n)
  BY <1>4, ActiveFrame DEF Agree
<1>6. TimeTreeOK(n)
  <2>1. \A x \in Events : "TIMEOUT" \in m.flags[x] => n.evt_timeout[x] = m.evt_timeout[x]
    BY <1>2, <1>4
  <2>2. \A x \in Events : "TIMEOUT" \in m.flags[x] => "REG" \in m.flags[x]
    BY DEF Agree, TimeTreeOK
  <2> QED BY <1>0, <1>4, <2>1, <2>2, TimeFrame DEF Agree
<1>7. MapOK(n)
  <2>1. n.event_count = n.used + Len(n.evt_time)
    BY <1>4 DEF Agree, MapOK
  <2> QED BY <1>4, <2>1, MapFrame DEF Agree
<1> QED BY <1>3, <1>4, <1>5, <1>6, <1>7, Zenon DEF DeadlineSet, Agree, ti, de, n

(* n is m but for the registration, the timer and the deadline of e. *)
AddedTo(m, n, e) ==
  /\ Agree(n) /\ n.evt_active = m.evt_active
  /\ n.fd = m.fd /\ n.events = m.events /\ n.res = m.res
  /\ \A x \in Events : x # e => /\ n.flags[x] = m.flags[x]
                                /\ n.evt_timeout[x] = m.evt_timeout[x]
                                /\ n.timeout[x] = m.timeout[x]
  /\ m.flags[e] \subseteq n.flags[e] \cup {"TIMEOUT"}
  /\ n.flags[e] \subseteq m.flags[e] \cup {"REG", "TIMEOUT"}

(* event_add changes the registration, the timer and the deadline of its   *)
(* event, and nothing of another event.                                    *)
LEMMA AddIs ==
  ASSUME NEW m, Agree(m), NEW e \in Events, NEW tv \in Nat \cup {NoTv},
         NEW is_absolute \in BOOLEAN, NEW t \in Nat, NEW registered \in BOOLEAN
  PROVE  AddedTo(m, event_add(m, e, tv, is_absolute, t, registered), e)
<1> DEFINE n == event_add(m, e, tv, is_absolute, t, registered)
           reg == "REG" \in m.flags[e]
           fails == ~reg /\ IsIo(m, e) /\ ~registered
           mapped == IF reg THEN m ELSE event_map_add(m, e, registered)
           added == [mapped EXCEPT !.flags[e] = @ \cup {"REG"}]
           untimed == event_remove_timeout(added, e)
           interval == IF ~is_absolute /\ "PERSIST" \in m.events[e]
                       THEN tv ELSE m.timeout[e]
           deadline == IF is_absolute THEN tv ELSE t + tv
           timed == [untimed EXCEPT !.timeout[e] = interval, !.evt_timeout[e] = deadline]
<1>0. m \in Mem /\ m.flags \in [Events -> SUBSET ListFlags]
  BY Fields
<1>1. n = CASE fails -> m
            [] ~fails /\ tv = NoTv -> added
            [] ~fails /\ tv # NoTv -> event_add_timeout(timed, e)
  BY DEF event_add
<1>2. CASE fails
  BY <1>1, <1>2, Zenon DEF AddedTo
<1>3. ASSUME ~fails
      PROVE  /\ Agree(added) /\ SameFields(m, added) /\ added.evt_active = m.evt_active
             /\ FlagsAt(m, added, e, m.flags[e] \cup {"REG"})
  <2>1. CASE reg
    <3>1. m.flags[e] \cup {"REG"} = m.flags[e]
      BY <2>1
    <3>2. added = m
      BY <1>0, <2>1, <3>1 DEF Mem
    <3> HIDE DEF added
    <3> QED BY <3>1, <3>2 DEF SameFields, FlagsAt
  <2>2. CASE ~reg
    <3>1. IsIo(m, e) => registered
      BY <1>3, <2>2
    <3>2. added = [event_map_add(m, e, registered) EXCEPT !.flags[e] = @ \cup {"REG"}]
      BY <2>2
    <3> HIDE DEF added
    <3>3. /\ Agree(added) /\ added.flags = [m.flags EXCEPT ![e] = @ \cup {"REG"}]
          /\ added.evt_active = m.evt_active /\ SameFields(m, added)
      BY <2>2, <3>1, <3>2, RegisterAgrees, SMTT(30) DEF SameFields
    <3> QED BY <1>0, <3>3 DEF FlagsAt
  <2> QED BY <2>1, <2>2
<1> HIDE DEF added, n
<1>4. CASE ~fails /\ tv = NoTv
  <2>1. n = added
    BY <1>1, <1>4
  <2>2. \A x \in Events : x # e => added.flags[x] = m.flags[x]
    BY <1>3, <1>4 DEF FlagsAt
  <2>3. added.flags[e] = m.flags[e] \cup {"REG"}
    BY <1>3, <1>4 DEF FlagsAt
  <2> QED BY <1>3, <1>4, <2>1, <2>2, <2>3 DEF SameFields, n, AddedTo
<1>5. CASE ~fails /\ tv # NoTv
  <2>1. /\ Agree(untimed) /\ SameFields(added, untimed)
        /\ untimed.evt_active = added.evt_active
        /\ FlagsAt(added, untimed, e, added.flags[e] \ {"TIMEOUT"})
    BY <1>3, <1>5, RemoveTimeoutIs
  <2> HIDE DEF untimed
  <2>2. interval \in Nat /\ deadline \in Nat
    <3>1. tv \in Nat
      BY <1>5
    <3>2. m.timeout[e] \in Nat
      BY <1>0 DEF Mem
    <3> QED BY <3>1, <3>2
  <2>3. "TIMEOUT" \notin untimed.flags[e]
    BY <2>1 DEF FlagsAt
  <2> HIDE DEF interval, deadline
  <2>0. timed = WithDeadline(untimed, e, interval, deadline)
    BY DEF WithDeadline
  <2> HIDE DEF timed
  <2>4. /\ Agree(timed) /\ timed.flags = untimed.flags
        /\ timed.evt_active = untimed.evt_active
        /\ timed.fd = untimed.fd /\ timed.events = untimed.events /\ timed.res = untimed.res
        /\ timed.timeout = [untimed.timeout EXCEPT ![e] = interval]
        /\ timed.evt_timeout = [untimed.evt_timeout EXCEPT ![e] = deadline]
    <3>1. Agree(untimed)
      BY <2>1
    <3>2. DeadlineSet(untimed, timed, e, interval, deadline)
      BY <2>0, <2>2, <2>3, <3>1, SetDeadlineAgrees, ZenonT(60)
    <3> QED BY <3>2, ZenonT(60) DEF DeadlineSet
  <2>5. n = event_add_timeout(timed, e)
    BY <1>1, <1>5
  <2>6. \A x \in Events : timed.flags[x] =
          IF x = e THEN (m.flags[e] \cup {"REG"}) \ {"TIMEOUT"} ELSE m.flags[x]
    <3>1. added.flags[e] = m.flags[e] \cup {"REG"}
      BY <1>3, <1>5 DEF FlagsAt
    <3>2. timed.flags[e] = (m.flags[e] \cup {"REG"}) \ {"TIMEOUT"}
      BY <2>1, <2>4, <3>1 DEF FlagsAt
    <3>3. \A x \in Events : x # e => timed.flags[x] = m.flags[x]
      BY <1>3, <1>5, <2>1, <2>4 DEF FlagsAt
    <3> QED BY <3>2, <3>3
  <2>7. "TIMEOUT" \notin timed.flags[e] /\ "REG" \in timed.flags[e]
    BY <2>6
  <2> DEFINE tl == InsertAt(timed.evt_time, TimePosition(timed, e), e)
             fl == [timed.flags EXCEPT ![e] = @ \cup {"TIMEOUT"}]
  <2>8. /\ Agree(n)
        /\ n = [timed EXCEPT !.evt_time = tl, !.flags = fl,
                             !.event_count = timed.event_count + 1]
    BY <2>4, <2>5, <2>7, AddTimeoutAgrees, ZenonT(30)
  <2>9. timed \in Mem /\ timed.flags \in [Events -> SUBSET ListFlags]
    BY <2>4, Fields
  <2> HIDE DEF tl
  <2>10. \A x \in Events :
           fl[x] = IF x = e THEN m.flags[e] \cup {"REG", "TIMEOUT"} ELSE m.flags[x]
    BY <2>6, <2>9, ZenonT(30)
  <2> HIDE DEF fl
  <2>11. /\ n.flags = fl /\ n.evt_active = timed.evt_active /\ n.fd = timed.fd
         /\ n.events = timed.events /\ n.res = timed.res
         /\ n.timeout = timed.timeout /\ n.evt_timeout = timed.evt_timeout
    BY <2>8, <2>9 DEF Mem
  <2>12. /\ n.evt_active = m.evt_active
         /\ n.fd = m.fd /\ n.events = m.events /\ n.res = m.res
    BY <1>3, <1>5, <2>1, <2>4, <2>11 DEF SameFields
  <2>13. /\ untimed.timeout = m.timeout /\ untimed.evt_timeout = m.evt_timeout
         /\ m.timeout \in [Events -> Nat] /\ m.evt_timeout \in [Events -> Nat]
    BY <1>0, <1>3, <1>5, <2>1 DEF SameFields, Mem
  <2>14. \A x \in Events : x # e => /\ n.evt_timeout[x] = m.evt_timeout[x]
                                    /\ n.timeout[x] = m.timeout[x]
    BY <2>4, <2>11, <2>13
  <2>15. /\ \A x \in Events : x # e => n.flags[x] = m.flags[x]
         /\ n.flags[e] = m.flags[e] \cup {"REG", "TIMEOUT"}
    BY <2>10, <2>11, SMTT(30)
  <2> QED BY <2>8, <2>12, <2>14, <2>15, SMTT(30) DEF n, AddedTo
<1> QED BY <1>2, <1>4, <1>5 DEF n

LEMMA AddActiveIs ==
  ASSUME NEW m, Agree(m), NEW e \in Events, NEW r \in SUBSET (Io \cup {"TIMEOUT"})
  PROVE  LET n == event_add_active(m, e, r) IN
         /\ Agree(n) /\ n.fd = m.fd /\ n.events = m.events
         /\ n.timeout = m.timeout /\ n.evt_timeout = m.evt_timeout
         /\ n.evt_time = m.evt_time /\ n.evt_list = m.evt_list /\ n.epoll = m.epoll
         /\ FlagsAt(m, n, e, m.flags[e] \cup {"ACTIVE"})
<1> DEFINE n == event_add_active(m, e, r)
<1>0. m \in Mem
  BY DEF Agree
<1>1. CASE "ACTIVE" \in m.flags[e]
  <2>1. n = m /\ m.flags[e] \cup {"ACTIVE"} = m.flags[e]
    BY <1>1 DEF event_add_active
  <2> QED BY <2>1 DEF FlagsAt
<1>2. CASE "ACTIVE" \notin m.flags[e]
  <2> DEFINE fl == [m.flags EXCEPT ![e] = @ \cup {"ACTIVE"}]
             al == Append(m.evt_active, e)
             re == [m.res EXCEPT ![e] = r]
  <2>1. /\ Agree(n)
        /\ n = [m EXCEPT !.res = re, !.evt_active = al, !.flags = fl,
                         !.event_count_active = m.event_count_active + 1]
    BY <1>2, AddActiveAgrees, ZenonT(30)
  <2>2. \A x \in Events : fl[x] = IF x = e THEN m.flags[e] \cup {"ACTIVE"} ELSE m.flags[x]
    BY <1>0, SMTT(30) DEF Mem
  <2> HIDE DEF n, fl, al, re
  <2>3. /\ n.flags = fl /\ n.fd = m.fd /\ n.events = m.events
        /\ n.timeout = m.timeout /\ n.evt_timeout = m.evt_timeout
        /\ n.evt_time = m.evt_time /\ n.evt_list = m.evt_list /\ n.epoll = m.epoll
    BY <1>0, <2>1 DEF Mem
  <2>4. FlagsAt(m, n, e, m.flags[e] \cup {"ACTIVE"})
    BY <2>2, <2>3, SMTT(30) DEF FlagsAt
  <2> QED BY <2>1, <2>3, <2>4 DEF n
<1> QED BY <1>1, <1>2

(* One due event of event_process_timeout: out of every list and of the    *)
(* map, and in the active list.                                            *)
LEMMA TimeOutEventIs ==
  ASSUME NEW m, Agree(m), NEW e \in Events
  PROVE  LET n == TimeOutEvent(m, e) IN
         /\ Agree(n) /\ n.fd = m.fd /\ n.events = m.events
         /\ n.timeout = m.timeout /\ n.evt_timeout = m.evt_timeout
         /\ n.evt_time = IF "TIMEOUT" \in m.flags[e]
                         THEN RemoveFirst(m.evt_time, e) ELSE m.evt_time
         /\ \A x \in Events : x # e => n.flags[x] = m.flags[x]
<1> DEFINE d == event_del(m, e)
           n == event_add_active(d, e, {"TIMEOUT"})
<1>1. /\ Agree(d) /\ SameFields(m, d)
      /\ FlagsAt(m, d, e, m.flags[e] \ {"REG", "ACTIVE", "TIMEOUT"})
      /\ d.evt_time = IF "TIMEOUT" \in m.flags[e]
                      THEN RemoveFirst(m.evt_time, e) ELSE m.evt_time
  BY DelIs
<1> HIDE DEF d
<1>2. /\ Agree(n) /\ n.fd = d.fd /\ n.events = d.events
      /\ n.timeout = d.timeout /\ n.evt_timeout = d.evt_timeout
      /\ n.evt_time = d.evt_time
      /\ FlagsAt(d, n, e, d.flags[e] \cup {"ACTIVE"})
  BY <1>1, AddActiveIs, SMTT(30)
<1> HIDE DEF n
<1>3. \A x \in Events : x # e => n.flags[x] = m.flags[x]
  BY <1>1, <1>2 DEF FlagsAt
<1>4. n = TimeOutEvent(m, e)
  BY DEF n, d, TimeOutEvent
<1> QED BY <1>1, <1>2, <1>3, <1>4 DEF SameFields

(* event_process_active, up to the callback: the event leaves the active   *)
(* list, and the others keep their places and their flags.                 *)
LEMMA DispatchEventIs ==
  ASSUME NEW m, Agree(m), NEW e \in Events, "ACTIVE" \in m.flags[e],
         NEW t \in Nat, NEW registered \in BOOLEAN
  PROVE  LET n == DispatchEvent(m, e, t, registered) IN
         /\ Agree(n)
         /\ n.evt_active = RemoveFirst(m.evt_active, e)
         /\ "ACTIVE" \notin n.flags[e]
         /\ \A x \in Events : x # e => n.flags[x] = m.flags[x]
<1> DEFINE n == DispatchEvent(m, e, t, registered)
           i == event_remove_active(m, e)
           d == NextDeadline(m, e, t)
<1>1. CASE "PERSIST" \notin m.events[e]
  <2>1. n = event_del(m, e)
    BY <1>1 DEF DispatchEvent
  <2> HIDE DEF n
  <2>2. /\ Agree(n) /\ n.evt_active = RemoveFirst(m.evt_active, e)
        /\ FlagsAt(m, n, e, m.flags[e] \ {"REG", "ACTIVE", "TIMEOUT"})
    BY <2>1, DelIs
  <2> QED BY <2>2 DEF FlagsAt, n
<1>2. /\ Agree(i) /\ i.evt_active = RemoveFirst(m.evt_active, e)
      /\ FlagsAt(m, i, e, m.flags[e] \ {"ACTIVE"})
  BY RemoveActiveIs
<1>3. CASE "PERSIST" \in m.events[e] /\ m.timeout[e] = 0
  <2>1. n = i
    BY <1>3 DEF DispatchEvent
  <2> HIDE DEF n, i
  <2> QED BY <1>2, <2>1 DEF FlagsAt, n
<1>4. CASE "PERSIST" \in m.events[e] /\ m.timeout[e] # 0
  <2>1. n = event_add(i, e, d, TRUE, t, registered)
    BY <1>4, ZenonT(30) DEF DispatchEvent
  <2>2. d \in Nat
    <3>1. m.timeout[e] \in Nat /\ m.evt_timeout[e] \in Nat
      BY Fields
    <3> QED BY <3>1 DEF NextDeadline
  <2> HIDE DEF n, i, d
  <2>3. /\ Agree(n) /\ n.evt_active = i.evt_active
        /\ \A x \in Events : x # e => n.flags[x] = i.flags[x]
        /\ n.flags[e] \subseteq i.flags[e] \cup {"REG", "TIMEOUT"}
    <3>1. d \in Nat \cup {NoTv} /\ TRUE \in BOOLEAN
      BY <2>2
    <3>2. AddedTo(i, event_add(i, e, d, TRUE, t, registered), e)
      BY <1>2, <3>1, AddIs, ZenonT(30)
    <3> QED BY <2>1, <3>2, Zenon DEF AddedTo
  <2>4. /\ i.flags[e] = m.flags[e] \ {"ACTIVE"}
        /\ \A x \in Events : x # e => i.flags[x] = m.flags[x]
    BY <1>2 DEF FlagsAt
  <2> QED BY <1>2, <2>3, <2>4 DEF n
<1> QED BY <1>1, <1>3, <1>4

(* One entry of event_map_active. *)
LEMMA MapActiveIs ==
  ASSUME NEW m, Agree(m), NEW e \in Events, NEW events \in SUBSET Io
  PROVE  LET n == event_map_active(m, e, events) IN
         /\ Agree(n) /\ n.fd = m.fd /\ n.events = m.events /\ n.evt_time = m.evt_time
         /\ \A x \in Events : x # e => n.flags[x] = m.flags[x]
         /\ \A x \in Events : "REG" \in n.flags[x] <=> "REG" \in m.flags[x]
<1> DEFINE n == event_map_active(m, e, events)
           r == m.events[e] \cap events
<1>1. CASE r = {}
  <2>1. n = m
    BY <1>1 DEF event_map_active
  <2> QED BY <2>1
<1>2. CASE r # {}
  <2>1. n = event_add_active(m, e, r)
    BY <1>2 DEF event_map_active
  <2>2. r \in SUBSET (Io \cup {"TIMEOUT"})
    OBVIOUS
  <2> HIDE DEF n, r
  <2>3. /\ Agree(n) /\ n.fd = m.fd /\ n.events = m.events /\ n.evt_time = m.evt_time
        /\ FlagsAt(m, n, e, m.flags[e] \cup {"ACTIVE"})
    BY <2>1, <2>2, AddActiveIs, Zenon
  <2> QED BY <2>3 DEF FlagsAt, n
<1> QED BY <1>1, <1>2

(* n is m but for the fields of e, whose flags are F. *)
ConstructedAt(m, n, e, F) ==
  /\ Agree(n) /\ n.evt_active = m.evt_active
  /\ n.flags[e] = F
  /\ \A x \in Events : x # e => /\ n.flags[x] = m.flags[x] /\ n.fd[x] = m.fd[x]
                                /\ n.events[x] = m.events[x]

(* Constructing, or wiping, an event that is in no list. *)
LEMMA ConstructAgrees ==
  ASSUME NEW m, Agree(m), NEW e \in Events,
         m.flags[e] \cap {"REG", "ACTIVE", "TIMEOUT"} = {},
         NEW fd \in Fds \cup {-1}, NEW events \in SUBSET Mask, NEW flags \in SUBSET {"INIT"}
  PROVE  ConstructedAt(m, ConstructEvent(m, e, fd, events, flags), e, flags)
<1> DEFINE n == ConstructEvent(m, e, fd, events, flags)
           fl == [m.flags EXCEPT ![e] = flags]
           f == [m.fd EXCEPT ![e] = fd]
           ev == [m.events EXCEPT ![e] = events]
           re == [m.res EXCEPT ![e] = {}]
           ti == [m.timeout EXCEPT ![e] = 0]
           de == [m.evt_timeout EXCEPT ![e] = 0]
<1>0. m \in Mem
  BY DEF Agree
<1>1. n = [m EXCEPT !.flags = fl, !.fd = f, !.events = ev, !.res = re,
                    !.timeout = ti, !.evt_timeout = de]
  BY <1>0 DEF ConstructEvent, Mem
<1>2. /\ fl \in [Events -> SUBSET ListFlags] /\ f \in [Events -> Fds \cup {-1}]
      /\ ev \in [Events -> SUBSET Mask] /\ re \in [Events -> SUBSET (Io \cup {"TIMEOUT"})]
      /\ ti \in [Events -> Nat] /\ de \in [Events -> Nat]
  BY <1>0 DEF Mem, ListFlags
<1>3. /\ fl[e] = flags
      /\ \A x \in Events : x # e => /\ fl[x] = m.flags[x] /\ f[x] = m.fd[x]
                                    /\ ev[x] = m.events[x] /\ de[x] = m.evt_timeout[x]
  BY <1>0 DEF Mem
<1> HIDE DEF n, fl, f, ev, re, ti, de
<1>4. n \in Mem
  BY <1>0, <1>1, <1>2, ZenonT(30) DEF Mem
<1>5. /\ n.flags = fl /\ n.fd = f /\ n.events = ev /\ n.evt_timeout = de
      /\ n.evt_active = m.evt_active /\ n.evt_time = m.evt_time
      /\ n.evt_list = m.evt_list /\ n.used = m.used /\ n.event_count = m.event_count
      /\ n.event_count_active = m.event_count_active
  BY <1>0, <1>1 DEF Mem
<1>6. \A x \in Events : \A g \in {"REG", "ACTIVE", "TIMEOUT"} :
        g \in n.flags[x] <=> g \in m.flags[x]
  BY <1>3, <1>5
<1>7. ActiveListOK(n)
  BY <1>5, <1>6, ActiveFrame, SMTT(30) DEF Agree
<1>8. TimeTreeOK(n)
  <2>1. \A x \in Events : "TIMEOUT" \in m.flags[x] => n.evt_timeout[x] = m.evt_timeout[x]
    BY <1>3, <1>5
  <2>2. \A x \in Events : "TIMEOUT" \in m.flags[x] => "REG" \in n.flags[x]
    BY <1>6 DEF Agree, TimeTreeOK
  <2>3. \A x \in Events : "TIMEOUT" \in n.flags[x] <=> "TIMEOUT" \in m.flags[x]
    BY <1>6
  <2> QED BY <1>0, <1>5, <2>1, <2>2, <2>3, TimeFrame, SMTT(30) DEF Agree
<1>9. MapOK(n)
  <2>1. \A x \in Events : InMap(n, x) <=> InMap(m, x)
    BY <1>3, <1>5, <1>6, SMTT(30) DEF InMap, IsIo
  <2>2. \A x \in Events : InMap(m, x) => n.fd[x] = m.fd[x]
    BY <1>3, <1>5 DEF InMap
  <2>3. {x \in Events : InMap(n, x)} = {x \in Events : InMap(m, x)}
    BY <2>1
  <2> QED BY <1>5, <2>1, <2>2, <2>3, ZenonT(30) DEF Agree, MapOK
<1>10. Agree(n)
  BY <1>4, <1>7, <1>8, <1>9 DEF Agree
<1>11. ConstructedAt(m, n, e, flags)
  <2>1. n.flags[e] = flags
    BY <1>3, <1>5, Zenon
  <2>2. ASSUME NEW x \in Events, x # e
        PROVE  /\ n.flags[x] = m.flags[x] /\ n.fd[x] = m.fd[x]
               /\ n.events[x] = m.events[x]
    BY <1>3, <1>5, <2>2, Zenon
  <2>3. n.evt_active = m.evt_active
    BY <1>5, Zenon
  <2> QED BY <1>10, <2>1, <2>2, <2>3, Zenon DEF ConstructedAt
<1> QED BY <1>11, Zenon DEF n

(* A change of the epoll set alone. *)
LEMMA EpollFrame ==
  ASSUME NEW m, Agree(m), NEW f \in Fds
  PROVE  LET n == [m EXCEPT !.epoll[f] = {}] IN
         /\ Agree(n) /\ n.evt_active = m.evt_active /\ n.flags = m.flags
<1> DEFINE n == [m EXCEPT !.epoll[f] = {}]
           ep == [m.epoll EXCEPT ![f] = {}]
<1>0. m \in Mem
  BY DEF Agree
<1>1. n = [m EXCEPT !.epoll = ep] /\ ep \in [Fds -> SUBSET Interest]
  BY <1>0 DEF Mem
<1> HIDE DEF n, ep
<1>2. n \in Mem
  BY <1>0, <1>1, Zenon DEF Mem
<1>3. /\ n.flags = m.flags /\ n.fd = m.fd /\ n.events = m.events
      /\ n.evt_timeout = m.evt_timeout
      /\ n.evt_active = m.evt_active /\ n.evt_time = m.evt_time
      /\ n.evt_list = m.evt_list /\ n.used = m.used /\ n.event_count = m.event_count
      /\ n.event_count_active = m.event_count_active
  BY <1>0, <1>1, SMTT(30) DEF Mem
<1>4. ActiveListOK(n) /\ TimeTreeOK(n)
  BY <1>3 DEF Agree, ActiveListOK, TimeTreeOK
<1>5. MapOK(n)
  <2>1. n.event_count = n.used + Len(n.evt_time)
    BY <1>3 DEF Agree, MapOK
  <2> QED BY <1>3, <2>1, MapFrame, SMTT(30) DEF Agree
<1> QED BY <1>2, <1>3, <1>4, <1>5 DEF Agree, n

(* The base as wba_evtbase_new leaves it. *)
LEMMA NewAgrees ==
  Agree(wba_evtbase_new)
<1> DEFINE n == wba_evtbase_new
<1>1. /\ n.flags = [e \in Events |-> {}] /\ n.fd = [e \in Events |-> -1]
      /\ n.events = [e \in Events |-> {}] /\ n.res = [e \in Events |-> {}]
      /\ n.timeout = [e \in Events |-> 0] /\ n.evt_timeout = [e \in Events |-> 0]
      /\ n.evt_list = [i \in Slots |-> <<>>] /\ n.evt_time = <<>>
      /\ n.evt_active = <<>> /\ n.used = 0 /\ n.event_count = 0
      /\ n.event_count_active = 0 /\ n.epoll = [f \in Fds |-> {}]
  BY SMTT(30) DEF wba_evtbase_new
<1>2. n \in Mem
  <2>1. <<>> \in Seq(Events)
    BY EmptyIs
  <2>2. [i \in Slots |-> <<>>] \in [Slots -> Seq(Events)]
    BY <2>1
  <2>3. /\ [e \in Events |-> {}] \in [Events -> SUBSET ListFlags]
        /\ [e \in Events |-> {}] \in [Events -> SUBSET Mask]
        /\ [e \in Events |-> {}] \in [Events -> SUBSET (Io \cup {"TIMEOUT"})]
        /\ [f \in Fds |-> {}] \in [Fds -> SUBSET Interest]
    OBVIOUS
  <2>4. /\ [e \in Events |-> -1] \in [Events -> Fds \cup {-1}]
        /\ [e \in Events |-> 0] \in [Events -> Nat]
        /\ 0 \in Int
    OBVIOUS
  <2> QED BY <2>1, <2>2, <2>3, <2>4, Zenon DEF wba_evtbase_new, Mem
<1> HIDE DEF n
<1>3. /\ IsInjective(<<>>) /\ \A x : ~In(x, <<>>) /\ Len(<<>>) = 0
  BY DEF IsInjective, In
<1>4. \A e \in Events : ~InMap(n, e)
  BY <1>1 DEF InMap
<1>5. ActiveListOK(n)
  BY <1>1, <1>3 DEF ActiveListOK
<1>6. TimeTreeOK(n)
  BY <1>1, <1>3 DEF TimeTreeOK
<1>7. {e \in Events : InMap(n, e)} = {}
  BY <1>4
<1>8. MapOK(n)
  <2>1. n.used = Cardinality({e \in Events : InMap(n, e)})
    BY <1>1, <1>7, FS_EmptySet, Zenon
  <2>2. n.event_count = n.used + Len(n.evt_time)
    BY <1>1
  <2>3. \A i \in Slots : n.evt_list[i] = <<>>
    BY <1>1
  <2> QED BY <1>3, <1>4, <2>1, <2>2, <2>3 DEF MapOK
<1> QED BY <1>2, <1>5, <1>6, <1>8, SMTT(30) DEF Agree, n

-----------------------------------------------------------------------------
(* Queues of active events.                                                *)

(* The list s of active events: those that timed out have deadlines up to  *)
(* t, and are in the order of them.                                        *)
Queue(s, res, deadline, t) ==
  /\ \A i \in DOMAIN s : "TIMEOUT" \in res[s[i]] =>
                           res[s[i]] = {"TIMEOUT"} /\ deadline[s[i]] <= t
  /\ \A i, j \in DOMAIN s :
       i < j /\ res[s[i]] = {"TIMEOUT"} /\ res[s[j]] = {"TIMEOUT"} =>
         deadline[s[i]] <= deadline[s[j]]

(* The rest of the time tree once its first node is removed. *)
LEMMA RemoveHead ==
  ASSUME NEW s \in Seq(Events), s # <<>>, IsInjective(s)
  PROVE  /\ RemoveFirst(s, Head(s)) = Tail(s)
         /\ Tail(s) \in Seq(Events) /\ Head(s) \in Events /\ In(Head(s), s)
         /\ \A y : In(y, Tail(s)) => \E j \in DOMAIN s : 1 < j /\ s[j] = y
         /\ 1 \in DOMAIN s /\ Head(s) = s[1]
<1>1. Len(s) \in Nat /\ DOMAIN s = 1 .. Len(s) /\ Len(s) > 0
  BY EmptyIs, LenIs
<1>2. Head(s) = s[1] /\ s[1] \in Events /\ In(s[1], s) /\ 1 \in DOMAIN s
  BY <1>1, ElementIs DEF In
<1> DEFINE r == RemoveFirst(s, s[1])
           t == Tail(s)
<1>3. PICK k \in 1 .. Len(s) :
        /\ s[k] = s[1] /\ r \in Seq(Events) /\ Len(r) = Len(s) - 1
        /\ \A i \in 1 .. Len(s) - 1 : r[i] = IF i < k THEN s[i] ELSE s[i + 1]
  BY <1>2, RemoveFirstIs
<1>4. k = 1
  BY <1>1, <1>2, <1>3, ZenonT(30) DEF IsInjective
<1>5. /\ t \in Seq(Events) /\ Len(t) = Len(s) - 1
      /\ \A i \in 1 .. Len(s) - 1 : t[i] = s[i + 1]
  BY HeadTailIs
<1> HIDE DEF r, t
<1>6. r = t
  <2>1. \A i \in 1 .. Len(r) : r[i] = t[i]
    BY <1>1, <1>3, <1>4, <1>5
  <2> QED BY <1>3, <1>5, <2>1, SeqSame
<1>7. \A y : In(y, t) => \E j \in DOMAIN s : 1 < j /\ s[j] = y
  <2> SUFFICES ASSUME NEW y, In(y, t) PROVE \E j \in DOMAIN s : 1 < j /\ s[j] = y
    OBVIOUS
  <2>1. PICK i \in DOMAIN t : t[i] = y
    BY DEF In
  <2>2. i \in 1 .. Len(s) - 1
    BY <1>5, <2>1, LenIs
  <2>3. i + 1 \in DOMAIN s /\ 1 < i + 1 /\ s[i + 1] = y
    BY <1>1, <1>5, <2>1, <2>2
  <2> QED BY <2>3
<1> QED BY <1>2, <1>5, <1>6, <1>7 DEF r, t

LEMMA QueueRemove ==
  ASSUME NEW s \in Seq(Events), NEW res, NEW d, NEW t, Queue(s, res, d, t),
         NEW e, In(e, s)
  PROVE  Queue(RemoveFirst(s, e), res, d, t)
<1>0. \E k \in 1 .. Len(s) :
        /\ s[k] = e
        /\ RemoveFirst(s, e) \in Seq(Events)
        /\ Len(RemoveFirst(s, e)) = Len(s) - 1
        /\ \A i \in 1 .. Len(s) - 1 :
             RemoveFirst(s, e)[i] = IF i < k THEN s[i] ELSE s[i + 1]
  BY RemoveFirstIs, SMTT(30)
<1> DEFINE r == RemoveFirst(s, e)
<1>1. PICK k \in 1 .. Len(s) :
        /\ s[k] = e /\ r \in Seq(Events) /\ Len(r) = Len(s) - 1
        /\ \A i \in 1 .. Len(s) - 1 : r[i] = IF i < k THEN s[i] ELSE s[i + 1]
  BY <1>0, Zenon
<1>2. Len(s) \in Nat /\ DOMAIN s = 1 .. Len(s) /\ DOMAIN r = 1 .. Len(s) - 1
  BY <1>1, LenIs
<1> HIDE DEF r
<1> DEFINE at(x) == IF x < k THEN x ELSE x + 1
<1>3. ASSUME NEW i \in DOMAIN r
      PROVE  at(i) \in DOMAIN s /\ r[i] = s[at(i)]
  BY <1>1, <1>2, SMTT(30)
<1>4. ASSUME NEW i \in DOMAIN r, NEW j \in DOMAIN r, i < j
      PROVE  at(i) < at(j)
  BY <1>1, <1>2, <1>4, SMTT(30)
<1> HIDE DEF at
<1>5. \A i \in DOMAIN r : "TIMEOUT" \in res[r[i]] => res[r[i]] = {"TIMEOUT"} /\ d[r[i]] <= t
  BY <1>3 DEF Queue
<1>6. \A i, j \in DOMAIN r :
        i < j /\ res[r[i]] = {"TIMEOUT"} /\ res[r[j]] = {"TIMEOUT"} => d[r[i]] <= d[r[j]]
  BY <1>3, <1>4 DEF Queue
<1> QED BY <1>5, <1>6, ZenonT(30) DEF Queue, r

LEMMA QueueAppend ==
  ASSUME NEW s \in Seq(Events), NEW res, NEW d, NEW t, Queue(s, res, d, t),
         NEW e \in Events,
         "TIMEOUT" \in res[e] => /\ res[e] = {"TIMEOUT"} /\ d[e] <= t
                                 /\ \A i \in DOMAIN s :
                                      res[s[i]] = {"TIMEOUT"} => d[s[i]] <= d[e]
  PROVE  Queue(Append(s, e), res, d, t)
<1> DEFINE r == Append(s, e)
<1>1. /\ r \in Seq(Events) /\ Len(r) = Len(s) + 1
      /\ \A i \in 1 .. Len(s) : r[i] = s[i]
      /\ r[Len(s) + 1] = e
  BY AppendIs
<1>2. Len(s) \in Nat /\ DOMAIN s = 1 .. Len(s) /\ DOMAIN r = 1 .. Len(s) + 1
  BY <1>1, LenIs
<1> HIDE DEF r
<1>3. \A i \in DOMAIN r : "TIMEOUT" \in res[r[i]] => res[r[i]] = {"TIMEOUT"} /\ d[r[i]] <= t
  <2> SUFFICES ASSUME NEW i \in DOMAIN r, "TIMEOUT" \in res[r[i]]
               PROVE  res[r[i]] = {"TIMEOUT"} /\ d[r[i]] <= t
    OBVIOUS
  <2>1. CASE i = Len(s) + 1
    BY <1>1, <2>1
  <2>2. CASE i # Len(s) + 1
    <3>1. i \in DOMAIN s /\ r[i] = s[i]
      BY <1>1, <1>2, <2>2
    <3> QED BY <3>1 DEF Queue
  <2> QED BY <2>1, <2>2
<1>4. \A i, j \in DOMAIN r :
        i < j /\ res[r[i]] = {"TIMEOUT"} /\ res[r[j]] = {"TIMEOUT"} => d[r[i]] <= d[r[j]]
  <2> SUFFICES ASSUME NEW i \in DOMAIN r, NEW j \in DOMAIN r, i < j,
                      res[r[i]] = {"TIMEOUT"}, res[r[j]] = {"TIMEOUT"}
               PROVE  d[r[i]] <= d[r[j]]
    OBVIOUS
  <2>1. i \in DOMAIN s /\ r[i] = s[i]
    BY <1>1, <1>2
  <2>2. CASE j = Len(s) + 1
    BY <1>1, <2>1, <2>2
  <2>3. CASE j # Len(s) + 1
    <3>1. j \in DOMAIN s /\ r[j] = s[j]
      BY <1>1, <1>2, <2>3
    <3> QED BY <2>1, <3>1 DEF Queue
  <2> QED BY <2>2, <2>3
<1> QED BY <1>3, <1>4, ZenonT(60) DEF Queue, r

(* Changes to an event that is not in the queue, and the clock. *)
LEMMA QueueFrame ==
  ASSUME NEW s \in Seq(Events), NEW res, NEW d \in [Events -> Nat], NEW t \in Nat,
         Queue(s, res, d, t),
         NEW res2, NEW d2, NEW t2 \in Nat, t <= t2,
         \A x \in Events : In(x, s) => res2[x] = res[x] /\ d2[x] = d[x]
  PROVE  Queue(s, res2, d2, t2)
<1>1. \A i \in DOMAIN s : s[i] \in Events /\ In(s[i], s)
  BY ElementIs, LenIs DEF In
<1>2. \A i \in DOMAIN s : res2[s[i]] = res[s[i]] /\ d2[s[i]] = d[s[i]] /\ d[s[i]] \in Nat
  BY <1>1
<1>3. \A i \in DOMAIN s :
        "TIMEOUT" \in res2[s[i]] => res2[s[i]] = {"TIMEOUT"} /\ d2[s[i]] <= t2
  <2> SUFFICES ASSUME NEW i \in DOMAIN s, "TIMEOUT" \in res2[s[i]]
               PROVE  res2[s[i]] = {"TIMEOUT"} /\ d2[s[i]] <= t2
    BY SMTT(30)
  <2>1. res[s[i]] = {"TIMEOUT"} /\ d[s[i]] <= t
    BY <1>2 DEF Queue
  <2> QED BY <1>2, <2>1
<1> QED BY <1>2, <1>3, SMTT(30) DEF Queue

-----------------------------------------------------------------------------
(* What the operations do to results and deadlines.                        *)

(* n is m for the events other than e, as far as a queue can tell. *)
SameButFor(m1, n, e) ==
  \A x \in Events : x # e => n.res[x] = m1.res[x] /\ n.evt_timeout[x] = m1.evt_timeout[x]

LEMMA ConstructTimes ==
  ASSUME NEW m1 \in Mem, NEW e \in Events, NEW fd, NEW events, NEW flags
  PROVE  SameButFor(m1, ConstructEvent(m1, e, fd, events, flags), e)
<1> DEFINE n == ConstructEvent(m1, e, fd, events, flags)
           fl == [m1.flags EXCEPT ![e] = flags]
           f == [m1.fd EXCEPT ![e] = fd]
           ev == [m1.events EXCEPT ![e] = events]
           re == [m1.res EXCEPT ![e] = {}]
           ti == [m1.timeout EXCEPT ![e] = 0]
           de == [m1.evt_timeout EXCEPT ![e] = 0]
<1>1. n = [m1 EXCEPT !.flags = fl, !.fd = f, !.events = ev, !.res = re,
                     !.timeout = ti, !.evt_timeout = de]
  BY DEF ConstructEvent, Mem
<1>2. \A x \in Events : x # e => re[x] = m1.res[x] /\ de[x] = m1.evt_timeout[x]
  BY DEF Mem
<1> HIDE DEF fl, f, ev, re, ti, de, n
<1>3. n.res = re /\ n.evt_timeout = de
  BY <1>1 DEF Mem
<1> QED BY <1>2, <1>3 DEF SameButFor, n

LEMMA AddActiveTimes ==
  ASSUME NEW m1, Agree(m1), NEW e \in Events, "ACTIVE" \notin m1.flags[e],
         NEW r \in SUBSET (Io \cup {"TIMEOUT"})
  PROVE  LET n == event_add_active(m1, e, r) IN
         /\ n.evt_active = Append(m1.evt_active, e)
         /\ n.res[e] = r /\ SameButFor(m1, n, e)
         /\ n.evt_timeout = m1.evt_timeout /\ n.evt_time = m1.evt_time
<1> DEFINE n == event_add_active(m1, e, r)
           re == [m1.res EXCEPT ![e] = r]
           al == Append(m1.evt_active, e)
           fl == [m1.flags EXCEPT ![e] = @ \cup {"ACTIVE"}]
<1>0. m1 \in Mem
  BY DEF Agree
<1>1. n = [m1 EXCEPT !.res = re, !.evt_active = al, !.flags = fl,
                     !.event_count_active = m1.event_count_active + 1]
  BY AddActiveAgrees, Zenon
<1>2. re[e] = r /\ \A x \in Events : x # e => re[x] = m1.res[x]
  BY <1>0 DEF Mem
<1> HIDE DEF re, al, fl, n
<1>3. /\ n.res = re /\ n.evt_active = al
      /\ n.evt_timeout = m1.evt_timeout /\ n.evt_time = m1.evt_time
  BY <1>0, <1>1, SMTT(30) DEF Mem
<1> QED BY <1>2, <1>3 DEF SameButFor, n, al

(* event_process_timeout moves its event to the tail of the active list. *)
LEMMA TimeOutTimes ==
  ASSUME NEW m1, Agree(m1), NEW e \in Events
  PROVE  LET n == TimeOutEvent(m1, e)
             s == IF "ACTIVE" \in m1.flags[e]
                  THEN RemoveFirst(m1.evt_active, e) ELSE m1.evt_active
         IN  /\ n.evt_active = Append(s, e)
             /\ n.res[e] = {"TIMEOUT"} /\ SameButFor(m1, n, e)
             /\ n.evt_timeout = m1.evt_timeout
<1> DEFINE d == event_del(m1, e)
           n == event_add_active(d, e, {"TIMEOUT"})
           s == IF "ACTIVE" \in m1.flags[e]
                THEN RemoveFirst(m1.evt_active, e) ELSE m1.evt_active
<1>1. /\ Agree(d) /\ SameFields(m1, d) /\ d.evt_active = s
      /\ FlagsAt(m1, d, e, m1.flags[e] \ {"REG", "ACTIVE", "TIMEOUT"})
  BY DelIs
<1> HIDE DEF d, s
<1>2. "ACTIVE" \notin d.flags[e] /\ {"TIMEOUT"} \in SUBSET (Io \cup {"TIMEOUT"})
  BY <1>1, SMTT(30) DEF FlagsAt
<1>3. /\ n.evt_active = Append(d.evt_active, e)
      /\ n.res[e] = {"TIMEOUT"} /\ SameButFor(d, n, e)
      /\ n.evt_timeout = d.evt_timeout
  BY <1>1, <1>2, AddActiveTimes
<1>4. n = TimeOutEvent(m1, e)
  BY DEF TimeOutEvent, d
<1> HIDE DEF n
<1> QED BY <1>1, <1>3, <1>4, SMTT(30) DEF SameButFor, SameFields, s

(* event_process_active, up to the callback, changes its own event only. *)
LEMMA DispatchTimes ==
  ASSUME NEW m1, Agree(m1), NEW e \in Events, NEW t \in Nat, NEW registered \in BOOLEAN
  PROVE  SameButFor(m1, DispatchEvent(m1, e, t, registered), e)
<1> DEFINE n == DispatchEvent(m1, e, t, registered)
           i == event_remove_active(m1, e)
           d == NextDeadline(m1, e, t)
<1>0. Agree(i) /\ SameFields(m1, i)
  BY RemoveActiveIs, ZenonT(30)
<1>1. CASE "PERSIST" \notin m1.events[e]
  <2>1. n = event_del(m1, e)
    BY <1>1 DEF DispatchEvent
  <2> HIDE DEF n
  <2>2. SameFields(m1, n)
    BY <2>1, DelIs, ZenonT(30)
  <2> QED BY <2>2 DEF SameFields, SameButFor, n
<1>2. CASE "PERSIST" \in m1.events[e] /\ m1.timeout[e] = 0
  <2>1. n = i
    BY <1>2, SMTT(30) DEF DispatchEvent
  <2> HIDE DEF n, i
  <2> QED BY <1>0, <2>1 DEF SameFields, SameButFor, n
<1>3. CASE "PERSIST" \in m1.events[e] /\ m1.timeout[e] # 0
  <2>1. n = event_add(i, e, d, TRUE, t, registered)
    BY <1>3, ZenonT(30) DEF DispatchEvent
  <2>2. d \in Nat
    <3>1. m1.evt_timeout[e] \in Nat /\ m1.timeout[e] \in Nat
      BY Fields
    <3> QED BY <3>1 DEF NextDeadline
  <2> HIDE DEF n, i, d
  <2>3. AddedTo(i, n, e)
    <3>1. d \in Nat \cup {NoTv} /\ TRUE \in BOOLEAN
      BY <2>2
    <3>2. AddedTo(i, event_add(i, e, d, TRUE, t, registered), e)
      BY <1>0, <3>1, AddIs, ZenonT(30)
    <3> QED BY <2>1, <3>2, ZenonT(30)
  <2> QED BY <1>0, <2>3 DEF AddedTo, SameFields, SameButFor, n
<1> QED BY <1>1, <1>2, <1>3

-----------------------------------------------------------------------------
(* What event_add and event_del do to the epoll set and to the deadline.   *)

(* The epoll set of m1 with the interest in fd set to i. *)
EpollWith(m1, fd, i) == [m1.epoll EXCEPT ![fd] = i]

LEMMA RegisterEpoll ==
  ASSUME NEW m1 \in Mem, NEW e \in Events, NEW registered, IsIo(m1, e) => registered
  PROVE  [event_map_add(m1, e, registered) EXCEPT !.flags[e] = @ \cup {"REG"}].epoll
           = IF IsIo(m1, e) THEN EpollWith(m1, m1.fd[e], EpollInterest(m1.events[e]))
             ELSE m1.epoll
<1> DEFINE n == [event_map_add(m1, e, registered) EXCEPT !.flags[e] = @ \cup {"REG"}]
           fl == [m1.flags EXCEPT ![e] = @ \cup {"REG"}]
           k == event_map_get_slot(m1.fd[e])
           el == [m1.evt_list EXCEPT ![k] = Append(@, e)]
           ep == EpollWith(m1, m1.fd[e], EpollInterest(m1.events[e]))
<1>1. CASE ~IsIo(m1, e)
  <2>1. n = [m1 EXCEPT !.flags = fl]
    BY <1>1 DEF event_map_add, Mem
  <2> HIDE DEF n, fl
  <2>2. n.epoll = m1.epoll
    BY <2>1 DEF Mem
  <2> QED BY <1>1, <2>2 DEF n
<1>2. CASE IsIo(m1, e)
  <2>1. n = [m1 EXCEPT !.epoll = ep, !.evt_list = el, !.used = m1.used + 1,
                       !.event_count = m1.event_count + 1, !.flags = fl]
    BY <1>2 DEF event_map_add, event_register, Mem, EpollWith
  <2> HIDE DEF n, fl, el, ep, k
  <2>2. n.epoll = ep
    BY <2>1 DEF Mem
  <2> QED BY <1>2, <2>2, ZenonT(30) DEF n, ep
<1> QED BY <1>1, <1>2

LEMMA UnregisterEpoll ==
  ASSUME NEW m1 \in Mem, NEW e \in Events
  PROVE  [event_map_remove(m1, e) EXCEPT !.flags[e] = @ \ {"REG"}].epoll
           = IF IsIo(m1, e) THEN EpollWith(m1, m1.fd[e], {}) ELSE m1.epoll
<1> DEFINE n == [event_map_remove(m1, e) EXCEPT !.flags[e] = @ \ {"REG"}]
           fl == [m1.flags EXCEPT ![e] = @ \ {"REG"}]
           k == event_map_get_slot(m1.fd[e])
           el == [m1.evt_list EXCEPT ![k] = RemoveFirst(@, e)]
           ep == EpollWith(m1, m1.fd[e], {})
<1>1. CASE ~IsIo(m1, e)
  <2>1. n = [m1 EXCEPT !.flags = fl]
    BY <1>1 DEF event_map_remove, Mem
  <2> HIDE DEF n, fl
  <2>2. n.epoll = m1.epoll
    BY <2>1 DEF Mem
  <2> QED BY <1>1, <2>2 DEF n
<1>2. CASE IsIo(m1, e)
  <2>1. n = [m1 EXCEPT !.epoll = ep, !.evt_list = el, !.used = m1.used - 1,
                       !.event_count = m1.event_count - 1, !.flags = fl]
    BY <1>2 DEF event_map_remove, event_unregister, Mem, EpollWith
  <2> HIDE DEF n, fl, el, ep, k
  <2>2. n.epoll = ep
    BY <2>1 DEF Mem
  <2> QED BY <1>2, <2>2 DEF n, ep
<1> QED BY <1>1, <1>2

LEMMA SetDeadlineEffect ==
  ASSUME NEW m1, Agree(m1), NEW e \in Events, "TIMEOUT" \notin m1.flags[e],
         NEW i \in Nat, NEW d \in Nat
  PROVE  LET n == WithDeadline(m1, e, i, d) IN
         /\ Agree(n) /\ n.flags = m1.flags /\ n.epoll = m1.epoll
         /\ n.evt_timeout[e] = d
<1> DEFINE n == WithDeadline(m1, e, i, d)
           ti == [m1.timeout EXCEPT ![e] = i]
           de == [m1.evt_timeout EXCEPT ![e] = d]
<1>0. m1 \in Mem
  BY DEF Agree
<1>1. Agree(n)
  BY SetDeadlineAgrees, Zenon DEF DeadlineSet
<1>2. n = [m1 EXCEPT !.timeout = ti, !.evt_timeout = de] /\ de[e] = d
  BY <1>0 DEF Mem, WithDeadline
<1> HIDE DEF n, ti, de
<1>3. n.flags = m1.flags /\ n.epoll = m1.epoll /\ n.evt_timeout = de
  BY <1>0, <1>2, SMTT(30) DEF Mem
<1> QED BY <1>1, <1>2, <1>3 DEF n

(* Whether EPOLL_CTL_ADD is called for e, and refuses it. *)
Refused(m1, e, registered) ==
  "REG" \notin m1.flags[e] /\ IsIo(m1, e) /\ ~registered

(* The epoll set of m1, with e registered unless it was. *)
EpollAdded(m1, e) ==
  IF "REG" \notin m1.flags[e] /\ IsIo(m1, e)
  THEN EpollWith(m1, m1.fd[e], EpollInterest(m1.events[e]))
  ELSE m1.epoll

(* n is m1 after an event_add with the given outcome: unless epoll refused *)
(* it, e is registered and its timer, if any, is armed for deadline.       *)
AddDid(m1, n, e, registered, tv, deadline) ==
  /\ Refused(m1, e, registered) => n = m1
  /\ ~Refused(m1, e, registered) =>
       /\ "REG" \in n.flags[e]
       /\ n.epoll = EpollAdded(m1, e)
       /\ tv # NoTv => "TIMEOUT" \in n.flags[e] /\ n.evt_timeout[e] = deadline

LEMMA AddEffect ==
  ASSUME NEW m1, Agree(m1), NEW e \in Events, NEW tv \in Nat \cup {NoTv},
         NEW is_absolute \in BOOLEAN, NEW t \in Nat, NEW registered \in BOOLEAN
  PROVE  AddDid(m1, event_add(m1, e, tv, is_absolute, t, registered), e, registered, tv,
                IF is_absolute THEN tv ELSE t + tv)
<1> DEFINE n == event_add(m1, e, tv, is_absolute, t, registered)
           reg == "REG" \in m1.flags[e]
           fails == ~reg /\ IsIo(m1, e) /\ ~registered
           mapped == IF reg THEN m1 ELSE event_map_add(m1, e, registered)
           added == [mapped EXCEPT !.flags[e] = @ \cup {"REG"}]
           untimed == event_remove_timeout(added, e)
           interval == IF ~is_absolute /\ "PERSIST" \in m1.events[e]
                       THEN tv ELSE m1.timeout[e]
           deadline == IF is_absolute THEN tv ELSE t + tv
           timed == [untimed EXCEPT !.timeout[e] = interval, !.evt_timeout[e] = deadline]
           ep == EpollAdded(m1, e)
<1>r. fails <=> Refused(m1, e, registered)
  BY Zenon DEF Refused
<1>0. m1 \in Mem /\ m1.flags \in [Events -> SUBSET ListFlags]
  BY Fields
<1>1. n = CASE fails -> m1
            [] ~fails /\ tv = NoTv -> added
            [] ~fails /\ tv # NoTv -> event_add_timeout(timed, e)
  BY DEF event_add
<1>2. CASE fails
  <2>1. n = m1
    BY <1>1, <1>2, Zenon
  <2> HIDE DEF n
  <2> QED BY <1>r, <1>2, <2>1, Zenon DEF n, AddDid
<1>3. ASSUME ~fails
      PROVE  /\ Agree(added) /\ "REG" \in added.flags[e] /\ added.epoll = ep
  <2>1. CASE reg
    <3>1. m1.flags[e] \cup {"REG"} = m1.flags[e]
      BY <2>1
    <3>2. added = m1
      BY <1>0, <2>1, <3>1 DEF Mem
    <3> HIDE DEF added
    <3> QED BY <2>1, <3>1, <3>2, SMTT(30) DEF EpollAdded
  <2>2. CASE ~reg
    <3>1. IsIo(m1, e) => registered
      BY <1>3, <2>2
    <3>2. added = [event_map_add(m1, e, registered) EXCEPT !.flags[e] = @ \cup {"REG"}]
      BY <2>2
    <3> HIDE DEF added
    <3>3. /\ Agree(added) /\ added.flags = [m1.flags EXCEPT ![e] = @ \cup {"REG"}]
      BY <2>2, <3>1, <3>2, RegisterAgrees, SMTT(30)
    <3>4. added.epoll = ep
      <4>1. added.epoll = IF IsIo(m1, e)
                          THEN EpollWith(m1, m1.fd[e], EpollInterest(m1.events[e]))
                          ELSE m1.epoll
        BY <1>0, <3>1, <3>2, RegisterEpoll, ZenonT(30)
      <4> QED BY <2>2, <4>1 DEF EpollAdded
    <3>5. "REG" \in added.flags[e]
      BY <1>0, <3>3
    <3> QED BY <3>3, <3>4, <3>5
  <2> QED BY <2>1, <2>2
<1> HIDE DEF added, n, ep
<1>4. CASE ~fails /\ tv = NoTv
  <2>1. n = added
    BY <1>1, <1>4
  <2> QED BY <1>r, <1>3, <1>4, <2>1, Zenon DEF n, ep, AddDid
<1>5. CASE ~fails /\ tv # NoTv
  <2>1. /\ Agree(untimed) /\ untimed.epoll = added.epoll
        /\ FlagsAt(added, untimed, e, added.flags[e] \ {"TIMEOUT"})
    BY <1>3, <1>5, RemoveTimeoutIs, SMTT(30)
  <2> HIDE DEF untimed
  <2>2. interval \in Nat /\ deadline \in Nat
    <3>1. tv \in Nat
      BY <1>5
    <3>2. m1.timeout[e] \in Nat
      BY <1>0 DEF Mem
    <3> QED BY <3>1, <3>2
  <2>3. "TIMEOUT" \notin untimed.flags[e] /\ "REG" \in untimed.flags[e]
    BY <1>3, <1>5, <2>1, SMTT(30) DEF FlagsAt
  <2> HIDE DEF interval, deadline
  <2>0. timed = WithDeadline(untimed, e, interval, deadline)
    BY DEF WithDeadline
  <2> HIDE DEF timed
  <2>4. /\ Agree(timed) /\ timed.flags = untimed.flags /\ timed.epoll = untimed.epoll
        /\ timed.evt_timeout[e] = deadline
    BY <2>0, <2>1, <2>2, <2>3, SetDeadlineEffect, SMTT(30)
  <2>5. n = event_add_timeout(timed, e)
    BY <1>1, <1>5
  <2> DEFINE tl == InsertAt(timed.evt_time, TimePosition(timed, e), e)
             fl == [timed.flags EXCEPT ![e] = @ \cup {"TIMEOUT"}]
  <2>6. "TIMEOUT" \notin timed.flags[e] /\ "REG" \in timed.flags[e]
    BY <2>3, <2>4
  <2>7. n = [timed EXCEPT !.evt_time = tl, !.flags = fl,
                          !.event_count = timed.event_count + 1]
    BY <2>4, <2>5, <2>6, AddTimeoutAgrees, ZenonT(30)
  <2>8. timed \in Mem /\ timed.flags \in [Events -> SUBSET ListFlags]
    BY <2>4, Fields
  <2>9. "TIMEOUT" \in fl[e] /\ "REG" \in fl[e]
    BY <2>6, <2>8
  <2> HIDE DEF tl, fl
  <2>10. n.flags = fl /\ n.epoll = timed.epoll /\ n.evt_timeout = timed.evt_timeout
    BY <2>7, <2>8 DEF Mem
  <2>11. n.evt_timeout[e] = deadline
    BY <2>4, <2>10, SMTT(30)
  <2>12. n.epoll = ep
    BY <1>3, <1>5, <2>1, <2>4, <2>10, SMTT(30)
  <2> QED BY <1>r, <1>5, <2>9, <2>10, <2>11, <2>12, ZenonT(60) DEF n, ep, deadline, AddDid
<1> QED BY <1>2, <1>4, <1>5 DEF n

-----------------------------------------------------------------------------
(* The epoll set.                                                          *)

(* The events of the map have open descriptors o, one each, and epoll is   *)
(* asked for what they want and for nothing else.                          *)
EpollOK(m1, o) ==
  /\ \A e \in Events : InMap(m1, e) =>
       m1.fd[e] \in o /\ m1.epoll[m1.fd[e]] = EpollInterest(m1.events[e])
  /\ \A d, e \in Events : InMap(m1, d) /\ InMap(m1, e) /\ m1.fd[d] = m1.fd[e] => d = e
  /\ \A f \in Fds : m1.epoll[f] # {} => \E e \in Events : InMap(m1, e) /\ m1.fd[e] = f

(* n has the map's events of m1, but for what happened to e. *)
SameMapBut(m1, n, e) ==
  /\ \A x \in Events : x # e => (InMap(n, x) <=> InMap(m1, x))
  /\ \A x \in Events : InMap(n, x) => n.fd[x] = m1.fd[x] /\ n.events[x] = m1.events[x]

LEMMA EpollSame ==
  ASSUME NEW m1, NEW n, NEW o, NEW o2, EpollOK(m1, o), o \subseteq o2,
         NEW e, SameMapBut(m1, n, e), InMap(n, e) <=> InMap(m1, e), n.epoll = m1.epoll
  PROVE  EpollOK(n, o2)
<1>1. \A x \in Events : InMap(n, x) <=> InMap(m1, x)
  BY DEF SameMapBut
<1>2. \A x \in Events : InMap(n, x) => n.fd[x] = m1.fd[x] /\ n.events[x] = m1.events[x]
  BY SMTT(30) DEF SameMapBut
<1> QED BY <1>1, <1>2, SMTT(30) DEF EpollOK

(* EPOLL_CTL_DEL when an event leaves the map. *)
LEMMA EpollRemoved ==
  ASSUME NEW m1 \in Mem, NEW n, NEW o, EpollOK(m1, o),
         NEW e \in Events, InMap(m1, e), ~InMap(n, e), SameMapBut(m1, n, e),
         n.epoll = EpollWith(m1, m1.fd[e], {})
  PROVE  EpollOK(n, o)
<1> DEFINE g == m1.fd[e]
<1>1. g \in Fds /\ m1.epoll \in [Fds -> SUBSET Interest]
  BY SlotOfIo, ZenonT(30) DEF InMap, Mem
<1>2. \A f \in Fds : n.epoll[f] = IF f = g THEN {} ELSE m1.epoll[f]
  BY <1>1 DEF EpollWith
<1>3. \A x \in Events : InMap(n, x) => /\ InMap(m1, x) /\ x # e
                                       /\ n.fd[x] = m1.fd[x] /\ n.events[x] = m1.events[x]
  BY DEF SameMapBut
<1>4. \A x \in Events : InMap(n, x) => m1.fd[x] # g /\ m1.fd[x] \in Fds
  <2> SUFFICES ASSUME NEW x \in Events, InMap(n, x) PROVE m1.fd[x] # g /\ m1.fd[x] \in Fds
    OBVIOUS
  <2>1. InMap(m1, x) /\ x # e
    BY <1>3, SMTT(30)
  <2>2. m1.fd[x] \in Fds
    BY <2>1, SlotOfIo, SMTT(30) DEF InMap
  <2> QED BY <2>1, <2>2 DEF EpollOK
<1>5. ASSUME NEW f \in Fds, n.epoll[f] # {}
      PROVE  \E x \in Events : InMap(n, x) /\ n.fd[x] = f
  <2>1. f # g /\ m1.epoll[f] # {}
    BY <1>2, <1>5
  <2>2. PICK x \in Events : InMap(m1, x) /\ m1.fd[x] = f
    BY <2>1 DEF EpollOK
  <2>3. InMap(n, x)
    BY <2>1, <2>2, SMTT(30) DEF SameMapBut
  <2> QED BY <1>3, <2>2, <2>3, SMTT(30)
<1> HIDE DEF g
<1>6. \A x \in Events : InMap(n, x) =>
        n.fd[x] \in o /\ n.epoll[n.fd[x]] = EpollInterest(n.events[x])
  BY <1>2, <1>3, <1>4, SMTT(30) DEF EpollOK
<1>7. \A d, x \in Events : InMap(n, d) /\ InMap(n, x) /\ n.fd[d] = n.fd[x] => d = x
  BY <1>3, SMTT(30) DEF EpollOK
<1> QED BY <1>5, <1>6, <1>7 DEF EpollOK

(* EPOLL_CTL_ADD succeeds only for an open fd that epoll does not know, so *)
(* no other event of the map has that fd.                                  *)
LEMMA EpollInserted ==
  ASSUME NEW m1 \in Mem, NEW n, NEW o, EpollOK(m1, o),
         NEW e \in Events, IsIo(m1, e), ~InMap(m1, e), InMap(n, e), SameMapBut(m1, n, e),
         m1.fd[e] \in o, m1.epoll[m1.fd[e]] = {},
         n.epoll = EpollWith(m1, m1.fd[e], EpollInterest(m1.events[e]))
  PROVE  EpollOK(n, o)
<1> DEFINE g == m1.fd[e]
<1>1. g \in Fds /\ m1.epoll \in [Fds -> SUBSET Interest]
  BY SlotOfIo, ZenonT(30) DEF Mem
<1>2. \A f \in Fds : n.epoll[f] = IF f = g THEN EpollInterest(m1.events[e]) ELSE m1.epoll[f]
  BY <1>1, SMTT(30) DEF EpollWith
<1>3. \A x \in Events : InMap(n, x) => /\ InMap(m1, x) \/ x = e
                                       /\ n.fd[x] = m1.fd[x] /\ n.events[x] = m1.events[x]
  BY SMTT(30) DEF SameMapBut
<1>4. \A x \in Events : InMap(m1, x) => m1.fd[x] # g /\ m1.fd[x] \in Fds
  <2> SUFFICES ASSUME NEW x \in Events, InMap(m1, x) PROVE m1.fd[x] # g /\ m1.fd[x] \in Fds
    BY SMTT(30)
  <2>1. m1.fd[x] \in Fds
    BY SlotOfIo, SMTT(30) DEF InMap
  <2>2. EpollInterest(m1.events[x]) # {}
    <3>1. m1.events[x] \cap Io # {}
      BY DEF InMap, IsIo
    <3>2. "READ" \in m1.events[x] \/ "WRITE" \in m1.events[x] \/ "CLOSED" \in m1.events[x]
      BY <3>1, SMTT(30) DEF Io
    <3> QED BY <3>2, SMTT(30) DEF EpollInterest
  <2> QED BY <2>1, <2>2, SMTT(30) DEF EpollOK
<1>5. ASSUME NEW f \in Fds, n.epoll[f] # {}
      PROVE  \E x \in Events : InMap(n, x) /\ n.fd[x] = f
  <2>1. CASE f = g
    BY <1>3, <2>1, SMTT(30)
  <2>2. CASE f # g
    <3>1. PICK x \in Events : InMap(m1, x) /\ m1.fd[x] = f
      BY <1>2, <1>5, <2>2, SMTT(30) DEF EpollOK
    <3>2. InMap(n, x)
      BY <3>1, SMTT(30) DEF SameMapBut
    <3> QED BY <1>3, <3>1, <3>2, SMTT(30)
  <2> QED BY <2>1, <2>2, SMTT(30)
<1>6. ASSUME NEW x \in Events, InMap(n, x)
      PROVE  n.fd[x] \in o /\ n.epoll[n.fd[x]] = EpollInterest(n.events[x])
  <2>1. CASE x = e
    BY <1>1, <1>2, <1>3, <1>6, <2>1, SMTT(30)
  <2>2. CASE x # e
    <3>1. InMap(m1, x) /\ n.fd[x] = m1.fd[x] /\ n.events[x] = m1.events[x]
      BY <1>3, <1>6, <2>2, SMTT(30)
    <3> HIDE DEF g
    <3> QED BY <1>2, <1>4, <3>1, SMTT(30) DEF EpollOK
  <2> QED BY <2>1, <2>2, SMTT(30)
<1>7. ASSUME NEW d \in Events, NEW x \in Events,
             InMap(n, d), InMap(n, x), n.fd[d] = n.fd[x]
      PROVE  d = x
  <2>1. m1.fd[d] = m1.fd[x] /\ (InMap(m1, d) \/ d = e) /\ (InMap(m1, x) \/ x = e)
    BY <1>3, <1>7, SMTT(30)
  <2>2. CASE InMap(m1, d) /\ InMap(m1, x)
    BY <2>1, <2>2, SMTT(30) DEF EpollOK
  <2>3. CASE d = e \/ x = e
    BY <1>4, <2>1, <2>3, SMTT(30)
  <2> QED BY <2>1, <2>2, <2>3, SMTT(30)
<1> QED BY <1>5, <1>6, <1>7 DEF EpollOK

(* event_del takes its event's fd out of the epoll set. *)
LEMMA DelEpoll ==
  ASSUME NEW m1, Agree(m1), NEW e \in Events
  PROVE  event_del(m1, e).epoll
           = IF InMap(m1, e) THEN EpollWith(m1, m1.fd[e], {}) ELSE m1.epoll
<1> DEFINE n == event_del(m1, e)
           a == event_remove_timeout(m1, e)
           b == event_remove_active(a, e)
           c == [event_map_remove(b, e) EXCEPT !.flags[e] = @ \ {"REG"}]
           d == [b EXCEPT !.flags[e] = @ \ {"REG"}]
<1>1. Agree(a) /\ SameFields(m1, a) /\ a.epoll = m1.epoll
  BY RemoveTimeoutIs, ZenonT(30)
<1> HIDE DEF a
<1>2. Agree(b) /\ SameFields(a, b) /\ b.epoll = a.epoll
  BY <1>1, RemoveActiveIs, ZenonT(30)
<1> HIDE DEF b
<1>3. b \in Mem /\ b.fd = m1.fd /\ b.epoll = m1.epoll /\ (IsIo(b, e) <=> IsIo(m1, e))
  BY <1>1, <1>2, SMTT(30) DEF SameFields, IsIo, Agree
<1>4. CASE m1.flags[e] \cap {"REG", "ACTIVE"} = {}
  <2>1. n = m1
    BY <1>4 DEF event_del
  <2> QED BY <1>4, <2>1, SMTT(30) DEF InMap
<1>5. CASE "REG" \in m1.flags[e]
  <2>1. n = c
    BY <1>5 DEF event_del, a, b
  <2>2. c.epoll = IF IsIo(b, e) THEN EpollWith(b, b.fd[e], {}) ELSE b.epoll
    BY <1>3, UnregisterEpoll, ZenonT(30)
  <2> HIDE DEF n, c
  <2> QED BY <1>3, <1>5, <2>1, <2>2 DEF InMap, EpollWith, n
<1>6. CASE "REG" \notin m1.flags[e] /\ "ACTIVE" \in m1.flags[e]
  <2>1. n = d
    BY <1>6 DEF event_del, a, b
  <2> DEFINE fl == [b.flags EXCEPT ![e] = @ \ {"REG"}]
  <2>2. d = [b EXCEPT !.flags = fl]
    BY <1>3 DEF Mem
  <2> HIDE DEF n, d, fl
  <2>3. d.epoll = b.epoll
    BY <1>3, <2>2 DEF Mem
  <2> QED BY <1>3, <1>6, <2>1, <2>3, SMTT(30) DEF InMap, n
<1> QED BY <1>4, <1>5, <1>6

LEMMA EpollDel ==
  ASSUME NEW m1, Agree(m1), NEW o, EpollOK(m1, o), NEW e \in Events
  PROVE  EpollOK(event_del(m1, e), o)
<1> DEFINE n == event_del(m1, e)
<1>1. SameFields(m1, n) /\ FlagsAt(m1, n, e, m1.flags[e] \ {"REG", "ACTIVE", "TIMEOUT"})
  BY DelIs, ZenonT(30)
<1>2. n.epoll = IF InMap(m1, e) THEN EpollWith(m1, m1.fd[e], {}) ELSE m1.epoll
  BY DelEpoll
<1> HIDE DEF n
<1>3. ~InMap(n, e)
  BY <1>1 DEF FlagsAt, InMap
<1>4. SameMapBut(m1, n, e)
  BY <1>1 DEF FlagsAt, SameFields, InMap, IsIo, SameMapBut
<1>5. m1 \in Mem /\ o \subseteq o
  BY DEF Agree
<1>6. CASE InMap(m1, e)
  BY <1>2, <1>3, <1>4, <1>5, <1>6, EpollRemoved, SMTT(30) DEF n
<1>7. CASE ~InMap(m1, e)
  BY <1>2, <1>3, <1>4, <1>5, <1>7, EpollSame, SMTT(30) DEF n
<1> QED BY <1>6, <1>7

(* Linking an event in the active list does not touch the epoll set. *)
LEMMA EpollAddActive ==
  ASSUME NEW m1, Agree(m1), NEW o, EpollOK(m1, o), NEW e \in Events,
         NEW r \in SUBSET (Io \cup {"TIMEOUT"})
  PROVE  EpollOK(event_add_active(m1, e, r), o)
<1> DEFINE n == event_add_active(m1, e, r)
<1>1. /\ n.fd = m1.fd /\ n.events = m1.events /\ n.epoll = m1.epoll
      /\ FlagsAt(m1, n, e, m1.flags[e] \cup {"ACTIVE"})
  BY AddActiveIs, ZenonT(30)
<1> HIDE DEF n
<1>2. SameMapBut(m1, n, e) /\ (InMap(n, e) <=> InMap(m1, e)) /\ o \subseteq o
  BY <1>1, SMTT(30) DEF FlagsAt, InMap, IsIo, SameMapBut
<1> QED BY <1>1, <1>2, EpollSame DEF n

LEMMA EpollRemoveActive ==
  ASSUME NEW m1, Agree(m1), NEW o, EpollOK(m1, o), NEW e \in Events
  PROVE  EpollOK(event_remove_active(m1, e), o)
<1> DEFINE n == event_remove_active(m1, e)
<1>1. /\ SameFields(m1, n) /\ n.epoll = m1.epoll
      /\ FlagsAt(m1, n, e, m1.flags[e] \ {"ACTIVE"})
  BY RemoveActiveIs, ZenonT(60)
<1> HIDE DEF n
<1>2. SameMapBut(m1, n, e) /\ (InMap(n, e) <=> InMap(m1, e)) /\ o \subseteq o
  BY <1>1, SMTT(30) DEF FlagsAt, InMap, IsIo, SameMapBut, SameFields
<1> QED BY <1>1, <1>2, EpollSame DEF n

(* event_add registers the fd only when epoll takes it. *)
LEMMA EpollAdd ==
  ASSUME NEW m1, Agree(m1), NEW o, EpollOK(m1, o), NEW e \in Events,
         NEW tv \in Nat \cup {NoTv}, NEW is_absolute \in BOOLEAN, NEW t \in Nat,
         NEW registered \in BOOLEAN,
         IsIo(m1, e) /\ registered => m1.fd[e] \in o /\ m1.epoll[m1.fd[e]] = {}
  PROVE  EpollOK(event_add(m1, e, tv, is_absolute, t, registered), o)
<1> DEFINE n == event_add(m1, e, tv, is_absolute, t, registered)
           dl == IF is_absolute THEN tv ELSE t + tv
<1>1. AddedTo(m1, n, e)
  BY AddIs, ZenonT(30)
<1>2. AddDid(m1, n, e, registered, tv, dl)
  BY AddEffect, ZenonT(30)
<1> HIDE DEF n, dl
<1>3. /\ n.fd = m1.fd /\ n.events = m1.events
      /\ \A x \in Events : x # e => n.flags[x] = m1.flags[x]
  BY <1>1, SMTT(30) DEF AddedTo
<1>4. SameMapBut(m1, n, e) /\ m1 \in Mem /\ o \subseteq o
  BY <1>3, SMTT(30) DEF InMap, IsIo, SameMapBut, Agree
<1>5. CASE Refused(m1, e, registered)
  BY <1>2, <1>5 DEF AddDid, n
<1>6. CASE ~Refused(m1, e, registered) /\ "REG" \notin m1.flags[e] /\ IsIo(m1, e)
  <2>1. registered /\ ~InMap(m1, e)
    BY <1>6, SMTT(30) DEF Refused, InMap
  <2>2. InMap(n, e) /\ n.epoll = EpollWith(m1, m1.fd[e], EpollInterest(m1.events[e]))
    BY <1>2, <1>3, <1>6, SMTT(30) DEF AddDid, InMap, IsIo, EpollAdded
  <2> QED BY <1>4, <1>6, <2>1, <2>2, EpollInserted, ZenonT(60) DEF n
<1>7. CASE ~Refused(m1, e, registered) /\ ("REG" \in m1.flags[e] \/ ~IsIo(m1, e))
  <2>1. (InMap(n, e) <=> InMap(m1, e)) /\ n.epoll = m1.epoll
    BY <1>2, <1>3, <1>7, SMTT(30) DEF AddDid, InMap, IsIo, EpollAdded
  <2>2. EpollOK(n, o)
    BY <1>4, <2>1, EpollSame, ZenonT(60)
  <2> QED BY <2>2, ZenonT(60) DEF n
<1> QED BY <1>5, <1>6, <1>7

(* Constructing or wiping an event that is not registered. *)
LEMMA EpollConstruct ==
  ASSUME NEW m1, Agree(m1), NEW o, EpollOK(m1, o), NEW e \in Events,
         "REG" \notin m1.flags[e], NEW fd, NEW events, NEW flags, "REG" \notin flags
  PROVE  EpollOK(ConstructEvent(m1, e, fd, events, flags), o)
<1> DEFINE n == ConstructEvent(m1, e, fd, events, flags)
           fl == [m1.flags EXCEPT ![e] = flags]
           f == [m1.fd EXCEPT ![e] = fd]
           ev == [m1.events EXCEPT ![e] = events]
           re == [m1.res EXCEPT ![e] = {}]
           ti == [m1.timeout EXCEPT ![e] = 0]
           de == [m1.evt_timeout EXCEPT ![e] = 0]
<1>0. m1 \in Mem
  BY DEF Agree
<1>1. n = [m1 EXCEPT !.flags = fl, !.fd = f, !.events = ev, !.res = re,
                     !.timeout = ti, !.evt_timeout = de]
  BY <1>0, SMTT(30) DEF ConstructEvent, Mem
<1>2. /\ fl[e] = flags
      /\ \A x \in Events : x # e => fl[x] = m1.flags[x] /\ f[x] = m1.fd[x] /\ ev[x] = m1.events[x]
  BY <1>0 DEF Mem
<1> HIDE DEF fl, f, ev, re, ti, de, n
<1>3. n.flags = fl /\ n.fd = f /\ n.events = ev /\ n.epoll = m1.epoll
  BY <1>0, <1>1, SMTT(30) DEF Mem
<1>4. ~InMap(n, e) /\ ~InMap(m1, e) /\ o \subseteq o
  BY <1>2, <1>3, SMTT(30) DEF InMap
<1>5. SameMapBut(m1, n, e)
  BY <1>2, <1>3, <1>4, SMTT(30) DEF InMap, IsIo, SameMapBut
<1>6. EpollOK(n, o)
  BY <1>3, <1>4, <1>5, EpollSame, ZenonT(60)
<1> QED BY <1>6, ZenonT(60) DEF n

(* The turn of event_process_active, with the outcomes epoll can have. *)
LEMMA EpollDispatch ==
  ASSUME NEW m1, Agree(m1), NEW o, EpollOK(m1, o), NEW e \in Events,
         NEW t \in Nat, NEW registered \in BOOLEAN,
         IsIo(m1, e) /\ registered => m1.fd[e] \in o /\ m1.epoll[m1.fd[e]] = {}
  PROVE  EpollOK(DispatchEvent(m1, e, t, registered), o)
<1> DEFINE n == DispatchEvent(m1, e, t, registered)
           i == event_remove_active(m1, e)
           d == NextDeadline(m1, e, t)
<1>0. Agree(i) /\ SameFields(m1, i) /\ i.epoll = m1.epoll
  BY RemoveActiveIs, ZenonT(30)
<1>1. EpollOK(i, o)
  BY EpollRemoveActive
<1>2. CASE "PERSIST" \notin m1.events[e]
  <2>1. n = event_del(m1, e)
    BY <1>2, SMTT(30) DEF DispatchEvent
  <2> QED BY <2>1, EpollDel
<1>3. CASE "PERSIST" \in m1.events[e] /\ m1.timeout[e] = 0
  <2>1. n = i
    BY <1>3 DEF DispatchEvent
  <2> HIDE DEF n, i
  <2> QED BY <1>1, <2>1 DEF n
<1>4. CASE "PERSIST" \in m1.events[e] /\ m1.timeout[e] # 0
  <2>1. n = event_add(i, e, d, TRUE, t, registered)
    BY <1>4, ZenonT(30) DEF DispatchEvent
  <2>2. d \in Nat \cup {NoTv} /\ TRUE \in BOOLEAN
    <3>1. m1.evt_timeout[e] \in Nat /\ m1.timeout[e] \in Nat
      BY Fields, SMTT(30)
    <3> QED BY <3>1, SMTT(30) DEF NextDeadline
  <2> HIDE DEF n, i, d
  <2>3. IsIo(i, e) /\ registered => i.fd[e] \in o /\ i.epoll[i.fd[e]] = {}
    BY <1>0 DEF SameFields, IsIo
  <2>4. EpollOK(event_add(i, e, d, TRUE, t, registered), o)
    BY <1>0, <1>1, <2>2, <2>3, EpollAdd, ZenonT(30)
  <2> QED BY <2>1, <2>4, ZenonT(30) DEF n
<1> QED BY <1>2, <1>3, <1>4
=============================================================================
