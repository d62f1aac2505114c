---------------------------- MODULE WbaStrProofs ----------------------------
(***************************************************************************)
(* Proofs about WbaStr for any strings, separators, sizes and failures of  *)
(* the heap, as long as nobody asks for a capacity of SIZE_MAX (for which  *)
(* the run of StrGrowMax.cfg shows that the buffer is lost).               *)
(***************************************************************************)
EXTENDS WbaStr, SequenceTheorems, WellFoundedInduction, TLAPS

Byte == Nat \cup {Raw}

(* Types; the block is one the heap could give. *)
TypeOK ==
  /\ live \in BOOLEAN
  /\ len \in Nat /\ cap \in Nat
  /\ buf \in Seq(Byte)
  /\ live => cap < HeapMax
  /\ wss \in Seq(Seq(Byte)) \cup {NULL}

Inv == TypeOK /\ WellFormed /\ NoTokenLeak

-----------------------------------------------------------------------------
(* Blocks of bytes.                                                        *)

LEMMA FcnIsSeq ==
  ASSUME NEW S, NEW n \in Nat, NEW f \in [1 .. n -> S]
  PROVE  f \in Seq(S) /\ Len(f) = n /\ DOMAIN f = 1 .. n
OBVIOUS

LEMMA SeqIs ==
  ASSUME NEW S, NEW s \in Seq(S)
  PROVE  /\ Len(s) \in Nat
         /\ DOMAIN s = 1 .. Len(s)
         /\ \A i \in 1 .. Len(s) : s[i] \in S
OBVIOUS

(* Below SIZE_MAX a size_t does not wrap. *)
LEMMA SizeIs ==
  ASSUME NEW n \in 0 .. SizeMax
  PROVE  Size(n) = n
<1>1. SizeMax + 1 \in Nat /\ n \in Nat /\ n < SizeMax + 1
  BY StrAssumption
<1>2. \A m \in Nat : n < m => n % m = n
  BY <1>1
<1> QED BY <1>1, <1>2 DEF Size

LEMMA ZerosIs ==
  ASSUME NEW n \in Nat
  PROVE  /\ Zeros(n) \in Seq(Nat) /\ Zeros(n) \in Seq(Byte)
         /\ Len(Zeros(n)) = n
         /\ \A i \in 1 .. n : Zeros(n)[i] = 0
<1>1. Zeros(n) \in [1 .. n -> Nat] /\ Zeros(n) \in [1 .. n -> Byte]
  BY DEF Zeros, Byte
<1>2. \A i \in 1 .. n : Zeros(n)[i] = 0
  BY DEF Zeros
<1> QED BY <1>1, <1>2, FcnIsSeq

LEMMA AppendZeroIs ==
  ASSUME NEW s \in Seq(Nat)
  PROVE  /\ Append(s, 0) \in Seq(Nat) /\ Append(s, 0) \in Seq(Byte)
         /\ Len(Append(s, 0)) = Len(s) + 1
         /\ \A i \in 1 .. Len(s) : Append(s, 0)[i] = s[i] /\ s[i] \in Nat
         /\ Append(s, 0)[Len(s) + 1] = 0
<1>1. Append(s, 0) \in Seq(Nat)
  OBVIOUS
<1>2. s \in Seq(Byte)
  BY DEF Byte
<1>3. Append(s, 0) \in Seq(Byte)
  BY <1>2 DEF Byte
<1> QED BY <1>1, <1>3

(* memcpy inside a block. *)
LEMMA WriteIs ==
  ASSUME NEW b \in Seq(Byte), NEW at \in Nat, NEW s \in Seq(Nat),
         at + Len(s) <= Len(b)
  PROVE  /\ Write(b, at, s) \in Seq(Byte)
         /\ Len(Write(b, at, s)) = Len(b)
         /\ \A i \in 1 .. at : Write(b, at, s)[i] = b[i]
         /\ \A i \in 1 .. Len(s) : Write(b, at, s)[at + i] = s[i]
<1>1. Len(b) \in Nat /\ DOMAIN b = 1 .. Len(b) /\ Len(s) \in Nat
  BY SeqIs
<1>2. \A i \in 1 .. Len(b) : b[i] \in Byte
  BY SeqIs
<1>3. \A i \in 1 .. Len(s) : s[i] \in Byte
  BY SeqIs DEF Byte
<1>4. \A i \in 1 .. Len(b) : i \in at + 1 .. at + Len(s) => i - at \in 1 .. Len(s)
  BY <1>1
<1>5. Write(b, at, s) \in [1 .. Len(b) -> Byte]
  BY <1>1, <1>2, <1>3, <1>4 DEF Write
<1>6. \A i \in 1 .. at : Write(b, at, s)[i] = b[i]
  BY <1>1 DEF Write
<1>7. \A i \in 1 .. Len(s) : Write(b, at, s)[at + i] = s[i]
  BY <1>1 DEF Write
<1> QED BY <1>1, <1>5, <1>6, <1>7, FcnIsSeq, Zenon

(* A non-empty set of naturals has a least element, which Min returns. *)
LEMMA MinNat ==
  ASSUME NEW S, S \subseteq Nat, S # {}
  PROVE  /\ Min(S) \in S
         /\ \A x \in S : Min(S) <= x
<1>1. PICK x \in S : \A y \in S : ~(<<y, x>> \in OpToRel(<, Nat))
  BY NatLessThanWellFounded, WFMin, Zenon
<1>2. \A y \in S : x <= y
  <2> SUFFICES ASSUME NEW y \in S, y < x PROVE FALSE
    BY SMT
  <2>1. <<y, x>> \in Nat \X Nat /\ <<y, x>>[1] < <<y, x>>[2]
    BY SMT
  <2> QED BY <1>1, <2>1, SMT DEF OpToRel
<1> QED BY <1>2, Zenon DEF Min

(* strlen of a C string: it is no longer than the block. *)
LEMMA CStrIs ==
  ASSUME NEW s \in Seq(Nat)
  PROVE  CStr(s) \in Seq(Nat) /\ Len(CStr(s)) <= Len(s)
<1> DEFINE ends == {i \in DOMAIN s : s[i] = 0}
<1>1. CASE ends = {}
  BY <1>1, SeqIs DEF CStr
<1>2. CASE ends # {}
  <2>1. ends \subseteq Nat
    BY SeqIs
  <2>2. Min(ends) \in 1 .. Len(s)
    <3>1. Min(ends) \in ends
      BY <1>2, <2>1, MinNat, Zenon
    <3> QED BY <3>1, SeqIs
  <2>3. CStr(s) = SubSeq(s, 1, Min(ends) - 1)
    BY <1>2, Zenon DEF CStr
  <2> DEFINE k == Min(ends) - 1
  <2>4. k \in 0 .. Len(s)
    BY <2>2, SeqIs
  <2> HIDE DEF k
  <2>5. SubSeq(s, 1, k) \in Seq(Nat) /\ Len(SubSeq(s, 1, k)) = k
    BY <2>4, SeqIs
  <2> QED BY <2>3, <2>4, <2>5, SeqIs DEF k
<1> QED BY <1>1, <1>2

-----------------------------------------------------------------------------
(* Growing.                                                                *)

(* What an attempt to grow gives: the block with all its old bytes, and    *)
(* either room for c bytes and a terminator, or just the old block.        *)
Grown(r, c) ==
  /\ r.cap \in Nat /\ cap <= r.cap /\ r.cap < HeapMax
  /\ r.buf \in Seq(Byte) /\ Len(r.buf) = r.cap + 1
  /\ \A i \in 1 .. cap + 1 : r.buf[i] = buf[i]
  /\ r.ok \in BOOLEAN
  /\ IF r.ok THEN c <= r.cap ELSE r.buf = buf /\ r.cap = cap

(* realloc to a size that is not 0. *)
LEMMA ReallocIs ==
  ASSUME NEW b \in Seq(Byte), NEW n \in Nat \ {0}, NEW r \in Realloc(b, n)
  PROVE  \/ r.ok = FALSE /\ r.buf = b
         \/ /\ r.ok = TRUE /\ n <= HeapMax
            /\ r.buf \in Seq(Byte) /\ Len(r.buf) = n
            /\ \A i \in 1 .. n : i <= Len(b) => r.buf[i] = b[i]
<1> DEFINE f == [i \in 1 .. n |-> IF i <= Len(b) THEN b[i] ELSE Raw]
<1>1. \/ r = [ok |-> FALSE, buf |-> b]
      \/ r = [ok |-> TRUE, buf |-> f] /\ n <= HeapMax
  BY DEF Realloc
<1>2. f \in [1 .. n -> Byte]
  BY SeqIs DEF Byte
<1>3. f \in Seq(Byte) /\ Len(f) = n
  BY <1>2, FcnIsSeq
<1>4. \A i \in 1 .. n : i <= Len(b) => f[i] = b[i]
  OBVIOUS
<1> HIDE DEF f
<1>5. CASE r = [ok |-> FALSE, buf |-> b]
  BY <1>5
<1>6. CASE r = [ok |-> TRUE, buf |-> f] /\ n <= HeapMax
  BY <1>3, <1>4, <1>6
<1> QED BY <1>1, <1>5, <1>6, Zenon

LEMMA KeptIs ==
  ASSUME Inv, live, NEW c \in Nat, c <= cap,
         NEW r, r = [ok |-> TRUE, buf |-> buf, cap |-> cap]
  PROVE  Grown(r, c)
<1>1. r.ok = TRUE /\ r.buf = buf /\ r.cap = cap
  OBVIOUS
<1> QED BY <1>1 DEF Grown, Inv, TypeOK, WellFormed

(* wba_strgrow to less than SIZE_MAX. *)
LEMMA GrowIs ==
  ASSUME Inv, live, NEW c \in 0 .. SizeMax - 1, NEW r \in Grow(c)
  PROVE  Grown(r, c)
<1>0. c \in Nat /\ cap \in Nat /\ cap < HeapMax /\ HeapMax \in Nat
  BY StrAssumption DEF Inv, TypeOK
<1>1. CASE c <= cap
  <2>1. r = [ok |-> TRUE, buf |-> buf, cap |-> cap]
    BY <1>1 DEF Grow
  <2> QED BY <1>0, <1>1, <2>1, KeptIs
<1>2. CASE ~(c <= cap)
  <2>1. Size(c + 1) = c + 1
    BY StrAssumption, SizeIs
  <2>2. PICK q \in Realloc(buf, c + 1) :
          r = [ok |-> q.ok, buf |-> q.buf, cap |-> IF q.ok THEN c ELSE cap]
    BY <1>2, <2>1 DEF Grow
  <2>3. r.ok = q.ok /\ r.buf = q.buf /\ r.cap = IF q.ok THEN c ELSE cap
    BY <2>2
  <2>4. /\ buf \in Seq(Byte) /\ Len(buf) = cap + 1
        /\ c + 1 \in Nat \ {0}
    BY <1>0 DEF Inv, TypeOK, WellFormed
  <2>5. CASE q.ok = FALSE /\ q.buf = buf
    <3>1. r.ok = FALSE /\ r.buf = buf /\ r.cap = cap
      BY <2>3, <2>5, Zenon
    <3>2. r.cap \in Nat /\ cap <= r.cap /\ r.cap < HeapMax
      BY <1>0, <3>1
    <3>3. /\ r.buf \in Seq(Byte) /\ Len(r.buf) = r.cap + 1
          /\ \A i \in 1 .. cap + 1 : r.buf[i] = buf[i]
      BY <2>4, <3>1
    <3> QED BY <3>1, <3>2, <3>3, Zenon DEF Grown
  <2>6. CASE /\ q.ok = TRUE /\ c + 1 <= HeapMax
             /\ q.buf \in Seq(Byte) /\ Len(q.buf) = c + 1
             /\ \A i \in 1 .. c + 1 : i <= Len(buf) => q.buf[i] = buf[i]
    <3>1. r.ok = TRUE /\ r.buf = q.buf /\ r.cap = c
      BY <2>3, <2>6, Zenon
    <3>2. r.cap \in Nat /\ cap <= r.cap /\ r.cap < HeapMax /\ c <= r.cap
      BY <1>0, <1>2, <2>6, <3>1
    <3>3. /\ r.buf \in Seq(Byte) /\ Len(r.buf) = r.cap + 1
          /\ \A i \in 1 .. cap + 1 : r.buf[i] = buf[i]
      BY <1>0, <1>2, <2>4, <2>6, <3>1
    <3> QED BY <3>1, <3>2, <3>3, Zenon DEF Grown
  <2> QED BY <2>4, <2>5, <2>6, ReallocIs, ZenonT(30)
<1> QED BY <1>1, <1>2

(* wba_str_reserve, which asks for more than is needed. *)
LEMMA ReserveIs ==
  ASSUME Inv, live, NEW c \in Nat, c <= 2 * HeapMax - 2, NEW r \in Reserve(c)
  PROVE  Grown(r, c)
<1>0. cap \in Nat /\ HeapMax \in Nat /\ MaxReserve \in Nat /\ SizeMax \in Nat
      /\ 4 * HeapMax + MaxReserve <= SizeMax /\ HeapMax # 0
  BY StrAssumption DEF Inv, TypeOK
<1>1. CASE cap >= c
  <2>1. r = [ok |-> TRUE, buf |-> buf, cap |-> cap]
    BY <1>1 DEF Reserve
  <2> QED BY <1>0, <1>1, <2>1, KeptIs
<1>2. CASE ~(cap >= c)
  <2>1. c * 2 \in 0 .. SizeMax - 1 /\ c + MaxReserve \in 0 .. SizeMax - 1
    BY <1>0
  <2>2. Size(c * 2) = c * 2 /\ Size(c + MaxReserve) = c + MaxReserve
    BY <1>0, <2>1, SizeIs
  <2>3. r \in Grow(c * 2) \/ r \in Grow(c + MaxReserve)
    BY <1>2, <2>2 DEF Reserve
  <2>4. Grown(r, c * 2) \/ Grown(r, c + MaxReserve)
    BY <2>1, <2>3, GrowIs
  <2> QED BY <1>0, <2>4 DEF Grown
<1> QED BY <1>1, <1>2

-----------------------------------------------------------------------------
(* The operations on the string.                                           *)

LEMMA PrefixIs ==
  ASSUME NEW b \in Seq(Byte), NEW n \in 0 .. Len(b)
  PROVE  /\ SubSeq(b, 1, n) \in Seq(Byte)
         /\ Len(SubSeq(b, 1, n)) = n
         /\ \A i \in 1 .. n : SubSeq(b, 1, n)[i] = b[i]
OBVIOUS

LEMMA SamePrefix ==
  ASSUME NEW a \in Seq(Byte), NEW b \in Seq(Byte),
         NEW n \in 0 .. Len(a), n <= Len(b),
         \A i \in 1 .. n : a[i] = b[i]
  PROVE  SubSeq(a, 1, n) = SubSeq(b, 1, n)
<1>1. n \in 0 .. Len(b)
  OBVIOUS
<1>2. \A i \in 1 .. n : SubSeq(a, 1, n)[i] = SubSeq(b, 1, n)[i]
  BY <1>1, PrefixIs
<1>3. SubSeq(a, 1, n) \in Seq(Byte) /\ SubSeq(b, 1, n) \in Seq(Byte)
      /\ Len(SubSeq(a, 1, n)) = n /\ Len(SubSeq(b, 1, n)) = n
  BY <1>1, PrefixIs
<1> QED BY <1>2, <1>3, SeqEqual

(* What wba_strncpy and wba_strncat do once there is room. *)
LEMMA WrittenIs ==
  ASSUME NEW b \in Seq(Byte), NEW at \in Nat, NEW s \in Seq(Nat),
         at + Len(s) + 1 <= Len(b)
  PROVE  LET w == Write(b, at, Append(s, 0)) IN
         /\ w \in Seq(Byte) /\ Len(w) = Len(b)
         /\ w[at + Len(s) + 1] = 0
         /\ \A i \in 1 .. at : w[i] = b[i]
         /\ \A i \in 1 .. Len(s) : w[at + i] \in Nat
         /\ SubSeq(w, 1, at + Len(s)) = SubSeq(b, 1, at) \o s
<1> DEFINE z == Append(s, 0)
           w == Write(b, at, z)
<1>1. /\ z \in Seq(Nat) /\ Len(z) = Len(s) + 1 /\ z[Len(s) + 1] = 0
      /\ \A i \in 1 .. Len(s) : z[i] = s[i] /\ s[i] \in Nat
  BY AppendZeroIs
<1>0. Len(s) \in Nat /\ Len(b) \in Nat
  OBVIOUS
<1> HIDE DEF z
<1>2. /\ w \in Seq(Byte) /\ Len(w) = Len(b)
      /\ \A i \in 1 .. at : w[i] = b[i]
      /\ \A i \in 1 .. Len(s) + 1 : w[at + i] = z[i]
  BY <1>0, <1>1, WriteIs, SMTT(30)
<1> HIDE DEF w
<1>3. w[at + Len(s) + 1] = 0
  BY <1>0, <1>1, <1>2
<1>4. \A i \in 1 .. Len(s) : w[at + i] = s[i] /\ w[at + i] \in Nat
  BY <1>0, <1>1, <1>2, SMTT(30)
<1>5. SubSeq(w, 1, at + Len(s)) = SubSeq(b, 1, at) \o s
  <2> DEFINE p == SubSeq(b, 1, at)
             q == SubSeq(w, 1, at + Len(s))
             n == at + Len(s)
  <2>1. /\ p \in Seq(Byte) /\ Len(p) = at
        /\ \A i \in 1 .. at : p[i] = b[i]
    BY <1>0, PrefixIs
  <2>2. /\ q \in Seq(Byte) /\ Len(q) = n
        /\ \A i \in 1 .. n : q[i] = w[i]
    BY <1>0, <1>2, PrefixIs
  <2>3. s \in Seq(Byte)
    BY DEF Byte
  <2> HIDE DEF p, q
  <2>4. /\ p \o s \in Seq(Byte) /\ Len(p \o s) = n
        /\ \A i \in 1 .. n : (p \o s)[i] = IF i <= at THEN p[i] ELSE s[i - at]
    <3>1. /\ p \o s \in Seq(Byte) /\ Len(p \o s) = Len(p) + Len(s)
          /\ \A i \in 1 .. Len(p) + Len(s) :
               (p \o s)[i] = IF i <= Len(p) THEN p[i] ELSE s[i - Len(p)]
      BY <2>1, <2>3, ConcatProperties, Zenon
    <3> QED BY <2>1, <3>1
  <2>5. ASSUME NEW i \in 1 .. n
        PROVE  q[i] = (p \o s)[i]
    <3>1. CASE i <= at
      <4>1. i \in 1 .. at
        BY <1>0, <3>1
      <4> QED BY <1>2, <2>1, <2>2, <2>4, <3>1, <4>1, ZenonT(30)
    <3>2. CASE ~(i <= at)
      <4>1. i - at \in 1 .. Len(s) /\ i = at + (i - at)
        BY <1>0, <3>2
      <4>2. w[at + (i - at)] = s[i - at]
        BY <1>4, <4>1
      <4> QED BY <2>2, <2>4, <3>2, <4>1, <4>2, Zenon
    <3> QED BY <3>1, <3>2, Zenon
  <2>6. q = p \o s
    BY <2>2, <2>4, <2>5, SeqEqual, Zenon
  <2> QED BY <2>6 DEF p, q
<1> QED BY <1>2, <1>3, <1>4, <1>5, SMTT(30) DEF w, z

(* A failed or a successful attempt to grow keeps what is in the string. *)
LEMMA GrownKeeps ==
  ASSUME Inv, live, NEW c \in Nat, NEW r, Grown(r, c),
         live' = live, len' = len, wss' = wss, buf' = r.buf, cap' = r.cap
  PROVE  TypeOK' /\ WellFormed' /\ Content' = Content
<1>0. /\ len \in Nat /\ cap \in Nat /\ len <= cap /\ buf \in Seq(Byte)
      /\ Len(buf) = cap + 1 /\ live \in BOOLEAN
      /\ buf[len + 1] = 0 /\ \A i \in 1 .. len : buf[i] # Raw
      /\ wss \in Seq(Seq(Byte)) \cup {NULL}
  BY DEF Inv, TypeOK, WellFormed
<1>1. /\ cap' \in Nat /\ cap <= cap' /\ cap' < HeapMax
      /\ buf' \in Seq(Byte) /\ Len(buf') = cap' + 1
      /\ \A i \in 1 .. cap + 1 : buf'[i] = buf[i]
  BY DEF Grown
<1>2. TypeOK'
  BY <1>0, <1>1 DEF TypeOK
<1>3. WellFormed'
  BY <1>0, <1>1, SMTT(30) DEF WellFormed
<1>4. \A i \in 1 .. len : buf'[i] = buf[i]
  BY <1>0, <1>1
<1>5. len \in 0 .. Len(buf') /\ len <= Len(buf)
  BY <1>0, <1>1
<1>6. Content' = Content
  BY <1>0, <1>1, <1>4, <1>5, SamePrefix DEF Content
<1> QED BY <1>2, <1>3, <1>6

(* Put: all of s after the first at bytes, or the string as it was. *)
LEMMA PutStep ==
  ASSUME Inv, live, NEW at \in {0, len}, NEW s \in Seq(Nat), Len(s) < HeapMax,
         Put(at, s), live' = live, wss' = wss
  PROVE  /\ TypeOK' /\ WellFormed'
         /\ ret' = NULL => Content' = Content
         /\ ret' # NULL => Content' = SubSeq(buf, 1, at) \o s
<1>0. /\ len \in Nat /\ cap \in Nat /\ len <= cap /\ cap < HeapMax
      /\ buf \in Seq(Byte) /\ Len(buf) = cap + 1 /\ live \in BOOLEAN
      /\ buf[len + 1] = 0 /\ \A i \in 1 .. len : buf[i] # Raw
      /\ wss \in Seq(Seq(Byte)) \cup {NULL}
  BY DEF Inv, TypeOK, WellFormed
<1>1. at \in Nat /\ at <= len /\ Len(s) \in Nat /\ HeapMax \in Nat
  BY <1>0, StrAssumption, SMTT(30)
<1>2. PICK r \in Reserve(at + Len(s)) :
        /\ cap' = r.cap
        /\ buf' = IF r.ok THEN Write(r.buf, at, Append(s, 0)) ELSE r.buf
        /\ len' = IF r.ok THEN at + Len(s) ELSE len
        /\ ret' = IF r.ok THEN "ws" ELSE NULL
  BY DEF Put, Return
<1> DEFINE c == at + Len(s)
<1>3. c \in Nat /\ c <= 2 * HeapMax - 2
  BY <1>0, <1>1
<1>4. Grown(r, c)
  BY <1>2, <1>3, ReserveIs
<1>5. CASE r.ok = FALSE
  <2>1. buf' = r.buf /\ len' = len /\ ret' = NULL
    BY <1>2, <1>5, Zenon
  <2> QED BY <1>2, <1>3, <1>4, <2>1, GrownKeeps
<1>6. CASE r.ok = TRUE
  <2> DEFINE w == Write(r.buf, at, Append(s, 0))
  <2>1. buf' = w /\ len' = c /\ ret' = "ws"
    BY <1>2, <1>6, Zenon
  <2>2. /\ r.cap \in Nat /\ cap <= r.cap /\ r.cap < HeapMax /\ c <= r.cap
        /\ r.buf \in Seq(Byte) /\ Len(r.buf) = r.cap + 1
        /\ \A i \in 1 .. cap + 1 : r.buf[i] = buf[i]
    BY <1>4, <1>6, Zenon DEF Grown
  <2>3. at + Len(s) + 1 <= Len(r.buf)
    BY <1>1, <2>2
  <2>4. /\ w \in Seq(Byte) /\ Len(w) = r.cap + 1
        /\ w[c + 1] = 0
        /\ \A i \in 1 .. at : w[i] = r.buf[i]
        /\ \A i \in 1 .. Len(s) : w[at + i] \in Nat
        /\ SubSeq(w, 1, c) = SubSeq(r.buf, 1, at) \o s
    BY <1>1, <2>2, <2>3, WrittenIs, ZenonT(60)
  <2> HIDE DEF w
  <2>5. TypeOK'
    BY <1>0, <1>2, <1>3, <2>1, <2>2, <2>4 DEF TypeOK
  <2>6. ASSUME NEW i \in 1 .. c
        PROVE  w[i] # Raw
    <3>1. CASE i <= at
      <4>1. i \in 1 .. at /\ i \in 1 .. len /\ i \in 1 .. cap + 1
        BY <1>0, <1>1, <3>1
      <4> QED BY <1>0, <2>2, <2>4, <4>1, Zenon
    <3>2. CASE ~(i <= at)
      <4>1. i - at \in 1 .. Len(s) /\ i = at + (i - at)
        BY <1>1, <3>2
      <4>2. w[at + (i - at)] \in Nat
        BY <2>4, <4>1
      <4> QED BY <4>1, <4>2, StrAssumption, SMTT(30)
    <3> QED BY <3>1, <3>2
  <2>7. WellFormed'
    BY <1>2, <2>1, <2>2, <2>4, <2>6, SMTT(30) DEF WellFormed
  <2>8. SubSeq(r.buf, 1, at) = SubSeq(buf, 1, at)
    <3>1. /\ at \in 0 .. Len(r.buf) /\ at <= Len(buf)
          /\ \A i \in 1 .. at : r.buf[i] = buf[i]
      BY <1>0, <1>1, <2>2, SMTT(30)
    <3> QED BY <1>0, <2>2, <3>1, SamePrefix, SMTT(30)
  <2>9. Content' = SubSeq(buf, 1, at) \o s
    BY <2>1, <2>4, <2>8, SMTT(30) DEF Content
  <2> QED BY <2>1, <2>5, <2>7, <2>9, StrAssumption
<1> QED BY <1>4, <1>5, <1>6, Zenon DEF Grown

LEMMA PutSomeStep ==
  ASSUME Inv, live, NEW at \in {0, len}, NEW s \in Seq(Nat), Len(s) < HeapMax,
         PutSome(at, s), live' = live, wss' = wss
  PROVE  /\ TypeOK' /\ WellFormed'
         /\ ret' = NULL \/ s = <<>> => Content' = Content
         /\ ret' # NULL /\ s # <<>> => Content' = SubSeq(buf, 1, at) \o s
<1>1. CASE s # <<>> /\ Put(at, s)
  BY <1>1, PutStep, Zenon
<1>2. CASE s = <<>> /\ UNCHANGED <<len, cap, buf>>
  BY <1>2 DEF Inv, TypeOK, WellFormed, Content
<1> QED BY <1>1, <1>2, Zenon DEF PutSome

(* wba_strnewlen and the calls that end in it. *)
LEMMA NewlenStep ==
  ASSUME Inv, NEW s \in Seq(Nat), Len(s) < SizeMax, Strnewlen(s)
  PROVE  Inv'
<1>0. /\ live \in BOOLEAN /\ len \in Nat /\ cap \in Nat /\ buf \in Seq(Byte)
      /\ wss \in Seq(Seq(Byte)) \cup {NULL}
  BY DEF Inv, TypeOK
<1>1. Size(Len(s) + 1) = Len(s) + 1
  <2>1. Len(s) + 1 \in 0 .. SizeMax
    BY StrAssumption
  <2> QED BY <2>1, SizeIs
<1> DEFINE z == Append(s, 0)
<1>2. /\ z \in Seq(Byte) /\ Len(z) = Len(s) + 1 /\ z[Len(s) + 1] = 0
      /\ \A i \in 1 .. Len(s) : z[i] = s[i] /\ s[i] \in Nat
  BY AppendZeroIs
<1>3. SubSeq(z, 1, Len(s) + 1) = z
  <2> HIDE DEF z
  <2> QED BY <1>2, SubSeqFull
<1> HIDE DEF z
<1>4. wss' = wss /\ strs' = strs
  BY DEF Strnewlen
<1>5. NoTokenLeak'
  BY <1>4 DEF Inv, NoTokenLeak
<1>6. CASE /\ Len(s) + 1 <= HeapMax /\ live' = TRUE
           /\ len' = Len(s) /\ cap' = Len(s) /\ buf' = z
  <2>1. Len(s) \in Nat
    OBVIOUS
  <2>2. TypeOK'
    BY <1>0, <1>2, <1>4, <1>6, <2>1, StrAssumption DEF TypeOK
  <2>3. \A i \in 1 .. Len(s) : z[i] # Raw
    BY <1>2, StrAssumption, Zenon
  <2>4. WellFormed'
    BY <1>2, <1>6, <2>1, <2>3 DEF WellFormed
  <2> QED BY <1>5, <2>2, <2>4 DEF Inv
<1>7. CASE UNCHANGED <<live, len, cap, buf>>
  BY <1>4, <1>5, <1>7 DEF Inv, TypeOK, WellFormed
<1> QED BY <1>1, <1>3, <1>6, <1>7, Zenon DEF Strnewlen, z

LEMMA NewStep ==
  ASSUME Inv, NEW c \in 0 .. SizeMax - 1, Strnew(c)
  PROVE  Inv'
<1>0. /\ live \in BOOLEAN /\ len \in Nat /\ cap \in Nat /\ buf \in Seq(Byte)
      /\ wss \in Seq(Seq(Byte)) \cup {NULL} /\ HeapMax \in Nat /\ SizeMax \in Nat
  BY StrAssumption DEF Inv, TypeOK
<1>1. Size(c + 1) = c + 1
  BY <1>0, SizeIs
<1>2. wss' = wss /\ strs' = strs
  BY DEF Strnew
<1>3. NoTokenLeak'
  BY <1>2 DEF Inv, NoTokenLeak
<1>4. CASE /\ c + 1 <= HeapMax /\ live' = TRUE
           /\ len' = 0 /\ cap' = c /\ buf' = Zeros(c + 1)
  <2>1. /\ buf' \in Seq(Byte) /\ Len(buf') = c + 1
        /\ \A i \in 1 .. c + 1 : buf'[i] = 0
    BY <1>0, <1>4, ZerosIs
  <2>2. TypeOK' /\ WellFormed'
    BY <1>0, <1>2, <1>4, <2>1 DEF TypeOK, WellFormed
  <2> QED BY <1>3, <2>2 DEF Inv
<1>5. CASE UNCHANGED <<live, len, cap, buf>>
  BY <1>2, <1>3, <1>5 DEF Inv, TypeOK, WellFormed
<1> QED BY <1>1, <1>4, <1>5, Zenon DEF Strnew

LEMMA FreeStep == Inv /\ Strfree => Inv'
<1> SUFFICES ASSUME Inv, Strfree PROVE Inv'
  OBVIOUS
<1>1. /\ live' = FALSE /\ len' = 0 /\ cap' = 0 /\ buf' = <<>>
      /\ wss' = wss /\ strs' = strs
  BY DEF Strfree
<1>2. <<>> \in Seq(Byte) /\ 0 \in Nat /\ wss \in Seq(Seq(Byte)) \cup {NULL}
  BY DEF Inv, TypeOK
<1>3. TypeOK'
  BY <1>1, <1>2, Zenon DEF TypeOK
<1> QED BY <1>1, <1>3 DEF Inv, WellFormed, NoTokenLeak

LEMMA ClrStep == Inv /\ Strclr => Inv'
<1> SUFFICES ASSUME Inv, Strclr PROVE Inv'
  OBVIOUS
<1>0. /\ live = TRUE /\ len \in Nat /\ cap \in Nat /\ buf \in Seq(Byte)
      /\ Len(buf) = cap + 1 /\ cap < HeapMax
      /\ wss \in Seq(Seq(Byte)) \cup {NULL}
  BY DEF Inv, TypeOK, WellFormed, Strclr
<1>1. /\ len' = 0 /\ buf' = Write(buf, 0, <<0>>) /\ live' = live /\ cap' = cap
      /\ wss' = wss /\ strs' = strs
  BY DEF Strclr
<1>2. <<0>> \in Seq(Nat) /\ Len(<<0>>) = 1 /\ <<0>>[1] = 0
  OBVIOUS
<1>3. /\ buf' \in Seq(Byte) /\ Len(buf') = cap + 1
      /\ \A i \in 1 .. 1 : buf'[0 + i] = <<0>>[i]
  <2>1. 0 + Len(<<0>>) <= Len(buf) /\ 0 \in Nat
    BY <1>0, <1>2
  <2> DEFINE z == <<0>>
  <2>2. z \in Seq(Nat) /\ Len(z) = 1 /\ 0 + Len(z) <= Len(buf) /\ buf' = Write(buf, 0, z)
    BY <1>1, <1>2, <2>1
  <2> HIDE DEF z
  <2>3. /\ buf' \in Seq(Byte) /\ Len(buf') = Len(buf)
        /\ \A i \in 1 .. Len(z) : buf'[0 + i] = z[i]
    BY <1>0, <2>1, <2>2, WriteIs, Zenon
  <2> QED BY <1>0, <2>2, <2>3 DEF z
<1>4. buf'[1] = 0
  <2>1. buf'[0 + 1] = <<0>>[1]
    BY <1>3
  <2> QED BY <1>2, <2>1
<1>5. TypeOK' /\ WellFormed'
  BY <1>0, <1>1, <1>3, <1>4 DEF TypeOK, WellFormed
<1> QED BY <1>1, <1>5 DEF Inv, NoTokenLeak

LEMMA GrowStep ==
  ASSUME Inv, NEW c \in 0 .. SizeMax - 1, Strgrow(c)
  PROVE  Inv' /\ Content' = Content /\ (ret' # NULL => cap' >= c)
<1>1. PICK r \in Grow(c) :
        buf' = r.buf /\ cap' = r.cap /\ ret' = IF r.ok THEN "ws" ELSE NULL
  BY DEF Strgrow, Return
<1>2. live /\ live' = live /\ len' = len /\ wss' = wss /\ strs' = strs /\ c \in Nat
  BY StrAssumption DEF Strgrow
<1>3. Grown(r, c)
  BY <1>1, <1>2, GrowIs
<1>4. TypeOK' /\ WellFormed' /\ Content' = Content
  BY <1>1, <1>2, <1>3, GrownKeeps
<1>5. ret' # NULL => cap' >= c
  <2>1. ret' # NULL => c <= r.cap
    BY <1>1, <1>3, Zenon DEF Grown
  <2> QED BY <1>1, <1>2, <1>3, <2>1 DEF Grown
<1> QED BY <1>2, <1>4, <1>5 DEF Inv, NoTokenLeak

-----------------------------------------------------------------------------
(* The tokenizer.                                                          *)

IsScan(f, n, str, sep) ==
  f = [m \in 0 .. n |-> IF m = 0 THEN Begin ELSE ScanChar(str, sep, m, f[m - 1])]

(* A loop over n bytes has a course, by induction on n. *)
LEMMA ScanExists ==
  ASSUME NEW str, NEW sep, NEW n \in Nat
  PROVE  \E f : IsScan(f, n, str, sep)
<1> DEFINE Bad == {k \in Nat : ~ \E f : IsScan(f, k, str, sep)}
<1> SUFFICES ASSUME Bad # {} PROVE FALSE
  OBVIOUS
<1> DEFINE k == Min(Bad)
<1>1. k \in Bad /\ \A x \in Bad : k <= x
  <2>1. Bad \subseteq Nat
    OBVIOUS
  <2> HIDE DEF Bad
  <2> QED BY <2>1, MinNat, Zenon
<1> HIDE DEF k
<1>2. k \in Nat /\ ~ \E f : IsScan(f, k, str, sep)
  BY <1>1
<1>3. CASE k = 0
  <2> DEFINE f == [m \in 0 .. 0 |-> Begin]
  <2>1. IsScan(f, 0, str, sep)
    BY DEF IsScan
  <2> QED BY <1>2, <1>3, <2>1
<1>4. CASE k # 0
  <2>1. k - 1 \in Nat /\ k - 1 \notin Bad
    BY <1>1, <1>2, <1>4
  <2>2. PICK f : IsScan(f, k - 1, str, sep)
    BY <2>1
  <2>3. \A m \in 0 .. k - 1 :
          f[m] = IF m = 0 THEN Begin ELSE ScanChar(str, sep, m, f[m - 1])
    BY <2>2, Zenon DEF IsScan
  <2> DEFINE g == [m \in 0 .. k |->
                     IF m = k THEN ScanChar(str, sep, k, f[k - 1]) ELSE f[m]]
  <2>4. ASSUME NEW m \in 0 .. k
        PROVE  g[m] = IF m = 0 THEN Begin ELSE ScanChar(str, sep, m, g[m - 1])
    <3>1. CASE m = k
      <4>1. g[k] = ScanChar(str, sep, k, f[k - 1]) /\ g[k - 1] = f[k - 1]
        BY <1>2, <1>4
      <4> QED BY <1>4, <3>1, <4>1
    <3>2. CASE m # k
      <4>1. m \in 0 .. k - 1 /\ (m # 0 => m - 1 \in 0 .. k /\ m - 1 # k)
        BY <1>2, <3>2
      <4>2. g[m] = f[m] /\ (m # 0 => g[m - 1] = f[m - 1])
        BY <1>2, <3>2, <4>1
      <4> HIDE DEF g
      <4> QED BY <2>3, <4>1, <4>2
    <3> QED BY <3>1, <3>2
  <2>5. IsScan(g, k, str, sep)
    <3>1. g = [m \in 0 .. k |-> g[m]]
      OBVIOUS
    <3> HIDE DEF g
    <3> QED BY <2>4, <3>1 DEF IsScan
  <2> QED BY <1>2, <2>5
<1> QED BY <1>3, <1>4

LEMMA ScanIs ==
  ASSUME NEW str \in Seq(Byte), NEW sep
  PROVE  \A m \in 0 .. Len(str) :
           Scan(str, sep)[m] =
             IF m = 0 THEN Begin ELSE ScanChar(str, sep, m, Scan(str, sep)[m - 1])
<1>1. \E f : IsScan(f, Len(str), str, sep)
  <2>1. Len(str) \in Nat
    OBVIOUS
  <2> QED BY <2>1, ScanExists, Zenon
<1>2. IsScan(Scan(str, sep), Len(str), str, sep)
  BY <1>1, Zenon DEF Scan, IsScan
<1> DEFINE f == Scan(str, sep)
<1>3. IsScan(f, Len(str), str, sep)
  BY <1>2
<1> HIDE DEF f
<1>4. \A m \in 0 .. Len(str) :
        f[m] = IF m = 0 THEN Begin ELSE ScanChar(str, sep, m, f[m - 1])
  BY <1>3 DEF IsScan
<1> QED BY <1>4 DEF f

ScanRec == [start : Nat, toks : Seq(Seq(Byte)), made : Nat, slots : Nat, allocs : Nat]

(* A state of the loop after m bytes: as many strings were made as are     *)
(* kept, and the array has a slot to spare.                                *)
ScanState(t, m) ==
  /\ t \in ScanRec
  /\ t.start <= m
  /\ t.made = Len(t.toks)
  /\ t.slots >= 2 /\ t.made <= t.slots - 1

(* The record keeps its shape. *)
LEMMA SlotsRec ==
  ASSUME NEW t \in ScanRec, NEW d \in Nat, NEW e \in Nat
  PROVE  LET v == [t EXCEPT !.slots = d, !.allocs = e] IN
         /\ v \in ScanRec
         /\ v.start = t.start /\ v.toks = t.toks /\ v.made = t.made /\ v.slots = d
BY Zenon DEF ScanRec

LEMMA StartRec ==
  ASSUME NEW t \in ScanRec, NEW d \in Nat
  PROVE  LET v == [t EXCEPT !.start = d] IN
         /\ v \in ScanRec
         /\ v.start = d /\ v.toks = t.toks /\ v.made = t.made /\ v.slots = t.slots
BY SMTT(30) DEF ScanRec

LEMMA MoreSlotsIs ==
  ASSUME NEW m \in Nat, NEW t, ScanState(t, m)
  PROVE  ScanState(MoreSlots(t), m) /\ MoreSlots(t).made < MoreSlots(t).slots - 1
<1>1. CASE Len(t.toks) >= t.slots - 1
  <2> DEFINE d == 2 * t.slots
             e == t.allocs + 1
             v == [t EXCEPT !.slots = d, !.allocs = e]
  <2>1. MoreSlots(t) = v
    BY <1>1 DEF MoreSlots
  <2>2. t \in ScanRec /\ d \in Nat /\ e \in Nat
    BY DEF ScanState, ScanRec
  <2> HIDE DEF d, e
  <2>3. /\ v \in ScanRec
        /\ v.start = t.start /\ v.toks = t.toks /\ v.made = t.made /\ v.slots = d
    BY <2>2, SlotsRec, ZenonT(30)
  <2> HIDE DEF v
  <2> QED BY <1>1, <2>1, <2>2, <2>3, SMTT(30) DEF ScanState, ScanRec, d
<1>2. CASE ~(Len(t.toks) >= t.slots - 1)
  BY <1>2, SMTT(30) DEF MoreSlots, ScanState, ScanRec
<1> QED BY <1>1, <1>2

LEMMA PushTokenIs ==
  ASSUME NEW m \in Nat, NEW t, ScanState(t, m), NEW tok \in Seq(Byte)
  PROVE  ScanState(PushToken(t, tok), m)
<1> DEFINE u == MoreSlots(t)
<1>1. ScanState(u, m) /\ u.made < u.slots - 1
  BY MoreSlotsIs
<1>2. PushToken(t, tok) =
        [u EXCEPT !.start = 0,
                  !.toks = IF Len(@) < u.slots THEN Append(@, tok) ELSE @,
                  !.made = @ + 1,
                  !.allocs = @ + 1]
  BY DEF PushToken
<1> HIDE DEF u
<1>3. /\ u \in ScanRec
      /\ u.toks \in Seq(Seq(Byte)) /\ Len(u.toks) < u.slots
      /\ u.made \in Nat /\ u.slots \in Nat /\ u.allocs \in Nat /\ u.made = Len(u.toks)
  BY <1>1, SMTT(30) DEF ScanState, ScanRec
<1> DEFINE a == Append(u.toks, tok)
           d == u.made + 1
           e == u.allocs + 1
           v == [u EXCEPT !.start = 0, !.toks = a, !.made = d, !.allocs = e]
<1>4. PushToken(t, tok) = v
  BY <1>2, <1>3
<1>5. /\ a \in Seq(Seq(Byte)) /\ Len(a) = Len(u.toks) + 1
      /\ d \in Nat /\ e \in Nat
  BY <1>3, AppendProperties, SMTT(30)
<1> HIDE DEF a, e
<1>6. d = u.made + 1
  OBVIOUS
<1> HIDE DEF d
<1>7. /\ v \in ScanRec
      /\ v.start = 0 /\ v.toks = a /\ v.made = d /\ v.slots = u.slots
  BY <1>3, <1>5, Zenon DEF ScanRec
<1> HIDE DEF v
<1>8. 0 <= m /\ d = Len(a) /\ d <= u.slots - 1 /\ u.slots >= 2
  BY <1>1, <1>3, <1>5, <1>6, SMTT(30) DEF ScanState
<1> QED BY <1>4, <1>7, <1>8 DEF ScanState

LEMMA ScanCharIs ==
  ASSUME NEW str \in Seq(Byte), NEW sep, NEW m \in 1 .. Len(str),
         NEW t, ScanState(t, m - 1)
  PROVE  ScanState(ScanChar(str, sep, m, t), m)
<1> DEFINE hit == str[m] \in sep
           start == IF ~hit /\ t.start = 0 THEN m ELSE t.start
           end == IF start = 0 THEN 0
                  ELSE IF hit THEN m
                  ELSE IF m = Len(str) THEN m + 1 ELSE 0
           tok == SubSeq(str, start, end - 1)
<1>0. m \in Nat /\ m - 1 \in Nat /\ t.start \in Nat /\ t.start <= m - 1
      /\ Len(str) \in Nat
  BY DEF ScanState, ScanRec
<1>1. ScanState(t, m)
  BY <1>0 DEF ScanState
<1>2. start \in 0 .. m
  BY <1>0
<1>3. end # 0 => start \in 1 .. Len(str) /\ end - 1 \in 0 .. Len(str)
  BY <1>0, <1>2
<1>4. ScanChar(str, sep, m, t) =
        IF end # 0 THEN PushToken(t, tok) ELSE [t EXCEPT !.start = start]
  BY DEF ScanChar
<1>5. CASE end # 0
  <2> HIDE DEF start, end
  <2>1. tok \in Seq(Byte)
    BY <1>0, <1>3, <1>5
  <2> HIDE DEF tok
  <2> QED BY <1>0, <1>1, <1>4, <1>5, <2>1, PushTokenIs, SMTT(30)
<1>6. CASE end = 0
  <2> HIDE DEF start, end
  <2> DEFINE v == [t EXCEPT !.start = start]
  <2>1. t \in ScanRec /\ start \in Nat
    BY <1>1, <1>2 DEF ScanState
  <2>2. /\ v \in ScanRec
        /\ v.start = start /\ v.toks = t.toks /\ v.made = t.made /\ v.slots = t.slots
    BY <2>1, StartRec
  <2>3. ScanChar(str, sep, m, t) = v
    BY <1>4, <1>6
  <2> HIDE DEF v
  <2> QED BY <1>0, <1>1, <1>2, <2>2, <2>3, SMTT(30) DEF ScanState
<1> QED BY <1>5, <1>6

(* The loop keeps its books straight for all its turns. *)
LEMMA ScanStates ==
  ASSUME NEW str \in Seq(Byte), NEW sep, NEW n \in 0 .. Len(str)
  PROVE  ScanState(Scan(str, sep)[n], n)
<1> DEFINE f == Scan(str, sep)
           Bad == {k \in 0 .. Len(str) : ~ScanState(f[k], k)}
<1>0. \A m \in 0 .. Len(str) :
        f[m] = IF m = 0 THEN Begin ELSE ScanChar(str, sep, m, f[m - 1])
  BY ScanIs
<1> HIDE DEF f
<1> SUFFICES ASSUME Bad # {} PROVE FALSE
  BY DEF f
<1> DEFINE k == Min(Bad)
<1>1. k \in Bad /\ \A x \in Bad : k <= x
  <2>1. Bad \subseteq Nat
    OBVIOUS
  <2> HIDE DEF Bad
  <2> QED BY <2>1, MinNat, Zenon
<1> HIDE DEF k
<1>2. k \in 0 .. Len(str) /\ ~ScanState(f[k], k) /\ Len(str) \in Nat
  BY <1>1
<1>3. CASE k = 0
  <2>1. f[k] = Begin
    BY <1>0, <1>2, <1>3, SMTT(30)
  <2>2. Begin \in ScanRec
    BY StrAssumption DEF Begin, ScanRec
  <2>3. ScanState(Begin, 0)
    BY <2>2, StrAssumption DEF ScanState, Begin
  <2> QED BY <1>2, <1>3, <2>1, <2>3, SMTT(30)
<1>4. CASE k # 0
  <2>1. k \in 1 .. Len(str) /\ k - 1 \in 0 .. Len(str) /\ k - 1 \notin Bad
    BY <1>1, <1>2, <1>4
  <2>2. ScanState(f[k - 1], k - 1)
    BY <2>1
  <2>3. f[k] = ScanChar(str, sep, k, f[k - 1])
    BY <1>0, <1>2, <1>4, SMTT(30)
  <2>4. ScanState(ScanChar(str, sep, k, f[k - 1]), k)
    BY <2>1, <2>2, ScanCharIs, SMTT(30)
  <2> QED BY <1>2, <2>3, <2>4
<1> QED BY <1>3, <1>4, SMTT(30)

(* wba_strntok: whether it ends or fails at any of its allocations, every  *)
(* string it leaves is one of those it returns.                            *)
LEMMA TokStep ==
  ASSUME Inv, NEW sep, Strntok(sep)
  PROVE  Inv'
<1>0. /\ live /\ wss = NULL
      /\ live' = live /\ len' = len /\ cap' = cap /\ buf' = buf
  BY DEF Strntok
<1>1. strs = 0
  BY <1>0 DEF Inv, NoTokenLeak
<1> DEFINE str == SubSeq(buf, 1, len)
           f == Scan(str, sep)
<1>2. str \in Seq(Byte) /\ Len(str) = len
  <2>1. buf \in Seq(Byte) /\ len \in 0 .. Len(buf)
    BY <1>0 DEF Inv, TypeOK, WellFormed
  <2> QED BY <2>1, PrefixIs
<1>3. \/ wss' = f[len].toks /\ strs' = strs + f[len].made
      \/ \E m \in 0 .. len :
           strs' = FreeTokens(strs + f[m].made, f[m]) /\ wss' = NULL
  BY Zenon DEF Strntok
<1> HIDE DEF str
<1>4. \A m \in 0 .. len : ScanState(f[m], m)
  BY <1>2, ScanStates
<1> HIDE DEF f
<1>5. len \in Nat
  BY DEF Inv, TypeOK
<1>6. CASE wss' = f[len].toks /\ strs' = strs + f[len].made
  <2>1. /\ f[len].toks \in Seq(Seq(Byte))
        /\ f[len].made = Len(f[len].toks) /\ f[len].made \in Nat
    BY <1>4, <1>5 DEF ScanState, ScanRec
  <2>2. wss' # NULL
    BY <1>6, <2>1, StrAssumption DEF Byte
  <2>3. NoTokenLeak'
    BY <1>1, <1>6, <2>1, <2>2, SMTT(30) DEF NoTokenLeak
  <2>4. TypeOK'
    BY <1>0, <1>6, <2>1, SMTT(30) DEF Inv, TypeOK
  <2> QED BY <1>0, <2>3, <2>4 DEF Inv, WellFormed
<1>7. CASE \E m \in 0 .. len :
             strs' = FreeTokens(strs + f[m].made, f[m]) /\ wss' = NULL
  <2>1. PICK m \in 0 .. len :
          strs' = FreeTokens(strs + f[m].made, f[m]) /\ wss' = NULL
    BY <1>7
  <2>2. f[m].made \in Nat
    BY <1>4 DEF ScanState, ScanRec
  <2>3. strs' = 0
    BY <1>1, <2>1, <2>2 DEF FreeTokens
  <2>4. NoTokenLeak'
    BY <2>1, <2>3 DEF NoTokenLeak
  <2>5. TypeOK'
    BY <1>0, <2>1, SMTT(30) DEF Inv, TypeOK
  <2> QED BY <1>0, <2>4, <2>5 DEF Inv, WellFormed
<1> QED BY <1>3, <1>6, <1>7, SMTT(30)

LEMMA FreeTokensStep == Inv /\ StrfreeTokens => Inv'
<1> SUFFICES ASSUME Inv, StrfreeTokens PROVE Inv'
  OBVIOUS
<1>1. /\ wss # NULL /\ wss' = NULL /\ strs' = strs - Len(wss)
      /\ live' = live /\ len' = len /\ cap' = cap /\ buf' = buf
  BY DEF StrfreeTokens
<1>2. wss \in Seq(Seq(Byte)) /\ strs = Len(wss)
  BY <1>1 DEF Inv, TypeOK, NoTokenLeak
<1>3. strs' = 0
  BY <1>1, <1>2
<1>4. TypeOK'
  BY <1>1 DEF Inv, TypeOK
<1> QED BY <1>1, <1>3, <1>4 DEF Inv, WellFormed, NoTokenLeak

-----------------------------------------------------------------------------
LEMMA Initially == Init => Inv
<1> SUFFICES ASSUME Init PROVE Inv
  OBVIOUS
<1>1. <<>> \in Seq(Byte)
  OBVIOUS
<1>2. TypeOK
  BY <1>1, Zenon DEF Init, TypeOK
<1> QED BY <1>2 DEF Init, Inv, WellFormed, NoTokenLeak

LEMMA StrsAre ==
  ASSUME NEW s \in Strs
  PROVE  /\ s \in Seq(Nat) /\ Len(s) < HeapMax /\ Len(s) < SizeMax
         /\ CStr(s) \in Seq(Nat) /\ Len(CStr(s)) < HeapMax /\ Len(CStr(s)) < SizeMax
<1>1. s \in Seq(Nat) /\ Len(s) < HeapMax /\ Len(s) < SizeMax /\ Len(s) \in Nat
  BY StrAssumption
<1>2. CStr(s) \in Seq(Nat) /\ Len(CStr(s)) <= Len(s)
  BY <1>1, CStrIs
<1>3. Len(CStr(s)) \in Nat
  BY <1>2
<1> QED BY <1>1, <1>2, <1>3, StrAssumption

(* wba_strncpy, wba_strncat and wba_strcat_vprintf. *)
LEMMA PutsStep ==
  ASSUME Inv, NEW s \in Seq(Nat), Len(s) < HeapMax,
         Strncpy(s) \/ Strncat(s) \/ StrcatPrintf(s)
  PROVE  Inv'
<1>1. live /\ live' = live /\ wss' = wss /\ strs' = strs
  BY Zenon DEF Strncpy, Strncat, StrcatPrintf
<1>2. \/ PutSome(0, s) \/ PutSome(len, s) \/ Put(len, s)
      \/ UNCHANGED <<len, cap, buf>>
  BY ZenonT(30) DEF Strncpy, Strncat, StrcatPrintf
<1>3. TypeOK' /\ WellFormed'
  <2>1. CASE UNCHANGED <<len, cap, buf>>
    BY <1>1, <2>1 DEF Inv, TypeOK, WellFormed
  <2> QED BY <1>1, <1>2, <2>1, PutSomeStep, PutStep, SMTT(30)
<1> QED BY <1>1, <1>3 DEF Inv, NoTokenLeak

LEMMA NextStep ==
  ASSUME SizeMax \notin Caps, Inv, [Next]_vars
  PROVE  Inv'
<1>1. ASSUME NEW s \in Strs,
             \/ Strnewlen(s) \/ Strnew2(s)
             \/ Strncpy(s) \/ Strcpy(s)
             \/ Strncat(s) \/ Strcat(s) \/ StrcatPrintf(s)
      PROVE  Inv'
  <2>1. CASE Strnewlen(s) \/ Strnew2(s)
    BY <2>1, StrsAre, NewlenStep DEF Strnew2
  <2>2. CASE Strncpy(s) \/ Strncat(s) \/ StrcatPrintf(s)
    BY <2>2, StrsAre, PutsStep, SMTT(30)
  <2>3. CASE Strcpy(s) \/ Strcat(s)
    BY <2>3, StrsAre, PutsStep, SMTT(30) DEF Strcpy, Strcat
  <2> QED BY <1>1, <2>1, <2>2, <2>3, SMTT(30)
<1>2. ASSUME NEW c \in Caps, Strnewzero(c) \/ Strnew(c) \/ Strgrow(c)
      PROVE  Inv'
  <2>1. c \in 0 .. SizeMax - 1 /\ c \in Nat /\ c < SizeMax
    BY StrAssumption
  <2>2. CASE Strnewzero(c)
    BY <2>1, <2>2, ZerosIs, NewlenStep, SMTT(30) DEF Strnewzero
  <2>3. CASE Strnew(c)
    BY <2>1, <2>3, NewStep, SMTT(30)
  <2>4. CASE Strgrow(c)
    BY <2>1, <2>4, GrowStep, SMTT(30)
  <2> QED BY <1>2, <2>2, <2>3, <2>4, SMTT(30)
<1>3. CASE Strclr \/ Strfree
  BY <1>3, ClrStep, FreeStep, SMTT(30)
<1>4. CASE (\E sep \in Seps : Strntok(sep)) \/ StrfreeTokens
  BY <1>4, TokStep, FreeTokensStep, SMTT(30)
<1>5. CASE UNCHANGED vars
  BY <1>5 DEF vars, Inv, TypeOK, WellFormed, NoTokenLeak
<1> QED BY <1>1, <1>2, <1>3, <1>4, <1>5, SMTT(30) DEF Next

(* The inductive invariant: the fields of the string agree with its block  *)
(* and the tokens with the heap, after any calls that ask for less than    *)
(* SIZE_MAX bytes and whichever allocations fail.                          *)
THEOREM Invariant ==
  ASSUME SizeMax \notin Caps
  PROVE  Spec => []Inv
<1>1. Inv /\ [Next]_vars => Inv'
  BY NextStep
<1> QED BY Initially, <1>1, PTL DEF Spec

(* The string fits in its block, is terminated, and has no uninitialised   *)
(* byte, whatever wba_strgrow and wba_str_reserve made of the sizes.       *)
THEOREM AlwaysWellFormed ==
  ASSUME SizeMax \notin Caps
  PROVE  Spec => []WellFormed
<1>1. Inv => WellFormed
  BY SMTT(30) DEF Inv
<1> QED BY Invariant, <1>1, PTL

(* wba_strntok frees what it made when one of its allocations fails, and   *)
(* wba_strfree_tokens frees the rest: no token string is left behind.      *)
THEOREM TokensAreFreed ==
  ASSUME SizeMax \notin Caps
  PROVE  Spec => []NoTokenLeak
<1>1. Inv => NoTokenLeak
  BY SMTT(30) DEF Inv
<1> QED BY Invariant, <1>1, PTL

(* The string keeps its buffer as long as no call passes SIZE_MAX as the   *)
(* capacity, as StrGrowMax.cfg lets wba_strgrow do.                        *)
THEOREM BufferIsKept ==
  ASSUME SizeMax \notin Caps
  PROVE  Spec => []KeepsBuffer
<1>1. Inv => KeepsBuffer
  BY StrAssumption DEF Inv, TypeOK, KeepsBuffer, Byte
<1> QED BY Invariant, <1>1, PTL

(* wba_strncpy, wba_strncat, wba_strcat_vprintf and wba_strgrow do all of  *)
(* their work, or return NULL and leave the string as it was.              *)
THEOREM DoesAllOrNothing ==
  ASSUME SizeMax \notin Caps
  PROVE  Spec => AllOrNothing
<1>1. ASSUME Inv, NEW s \in Strs
      PROVE  Strncpy(s) => Content' = IF ret' = NULL \/ s = <<>> THEN Content ELSE s
  <2> SUFFICES ASSUME Strncpy(s)
               PROVE  Content' = IF ret' = NULL \/ s = <<>> THEN Content ELSE s
    OBVIOUS
  <2>1. /\ ret' = NULL \/ s = <<>> => Content' = Content
        /\ ret' # NULL /\ s # <<>> => Content' = SubSeq(buf, 1, 0) \o s
    BY <1>1, StrsAre, PutSomeStep DEF Strncpy
  <2>2. SubSeq(buf, 1, 0) \o s = s
    <3>1. buf \in Seq(Byte) /\ s \in Seq(Nat)
      BY <1>1, StrsAre DEF Inv, TypeOK
    <3>2. SubSeq(buf, 1, 0) = <<>>
      BY <3>1
    <3> QED BY <3>1, <3>2, SMTT(30)
  <2> QED BY <2>1, <2>2, SMTT(30)
<1>2. ASSUME Inv, NEW s \in Strs
      PROVE  Strncat(s) \/ StrcatPrintf(s) =>
               Content' = IF ret' = NULL THEN Content ELSE Content \o s
  <2>1. CASE Strncat(s)
    <3>1. /\ ret' = NULL \/ s = <<>> => Content' = Content
          /\ ret' # NULL /\ s # <<>> => Content' = SubSeq(buf, 1, len) \o s
      BY <1>2, <2>1, StrsAre, PutSomeStep, ZenonT(30) DEF Strncat
    <3>2. Content \o <<>> = Content
      <4>1. buf \in Seq(Byte) /\ len \in 0 .. Len(buf)
        BY <1>2, <2>1, SMTT(30) DEF Inv, TypeOK, WellFormed, Strncat
      <4>2. Content \in Seq(Byte)
        BY <4>1, PrefixIs DEF Content
      <4> QED BY <4>2, SMTT(30)
    <3> QED BY <3>1, <3>2, Zenon DEF Content
  <2>2. CASE StrcatPrintf(s)
    <3>1. CASE Put(len, s)
      BY <1>2, <2>2, <3>1, StrsAre, PutStep, ZenonT(30) DEF StrcatPrintf, Content
    <3>2. CASE Return(FALSE) /\ UNCHANGED <<len, cap, buf>>
      BY <3>2 DEF Return, Content
    <3> QED BY <2>2, <3>1, <3>2, ZenonT(30) DEF StrcatPrintf
  <2> QED BY <2>1, <2>2
<1>3. ASSUME Inv, NEW c \in Caps
      PROVE  Strgrow(c) => Content' = Content /\ (ret' # NULL => cap' >= c)
  <2>1. c \in 0 .. SizeMax - 1
    BY StrAssumption, SMTT(30)
  <2> QED BY <1>3, <2>1, GrowStep, SMTT(30)
<1> DEFINE All ==
       /\ \A s \in Strs :
            /\ Strncpy(s) => Content' = IF ret' = NULL \/ s = <<>> THEN Content ELSE s
            /\ Strncat(s) \/ StrcatPrintf(s) =>
                 Content' = IF ret' = NULL THEN Content ELSE Content \o s
       /\ \A c \in Caps :
            Strgrow(c) => Content' = Content /\ (ret' # NULL => cap' >= c)
<1>4. Inv => All
  BY <1>1, <1>2, <1>3, SMTT(30)
<1>5. AllOrNothing <=> [][All]_vars
  BY DEF AllOrNothing
<1> HIDE DEF All
<1> QED BY Invariant, <1>4, <1>5, PTL
=============================================================================
