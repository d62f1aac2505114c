------------------------------- MODULE WbaStr -------------------------------
(***************************************************************************)
(* c_data_structure/wba_str: a growing, binary-safe string and a tokenizer *)
(* over it. One string ws is made, changed, tokenized and freed, and every *)
(* allocation may fail.                                                    *)
(*                                                                         *)
(* buf is the block at ws->buf as the sequence of its bytes, so that the   *)
(* size of the block is its length: bytes are numbered from 1 here and     *)
(* from 0 in the code. A byte is 0 (the terminator), another number, or    *)
(* Raw where realloc left it uninitialised. An operator Bad... is a        *)
(* mistake the code does not make.                                         *)
(***************************************************************************)
EXTENDS Integers, Sequences, FiniteSets, FiniteSetsExt

CONSTANTS SizeMax,     \* SIZE_MAX (scaled down)
          MaxReserve,  \* WBA_STR_MAX_RESERVE_SIZE (scaled down)
          Slots,       \* the first number of slots in wba_strntok
          HeapMax,     \* bound: the largest block the heap can give
          Strs,        \* strings that are passed in
          Caps,        \* capacities that are passed in
          Seps,        \* sets of separators that are passed in
          Raw, Freed, NULL

ASSUME StrAssumption ==
  /\ {SizeMax, MaxReserve, HeapMax} \subseteq Nat \ {0}
  /\ Slots \in Nat /\ Slots >= 2
  /\ Strs \subseteq Seq(Nat)
  /\ Caps \subseteq 0 .. SizeMax
  /\ \A s \in Strs : Len(s) < HeapMax        \* they are in memory, and
  /\ 4 * HeapMax + MaxReserve <= SizeMax     \*   memory is far below SIZE_MAX
  /\ Raw \notin Nat
  /\ NULL # "ws" /\ NULL \notin Seq(Seq(Nat \cup {Raw}))
  /\ Freed \notin Seq(Nat \cup {Raw})

VARIABLES live,           \* the program holds a ws
          len, cap, buf,  \* its fields
          ret,            \* whether the last call gave "ws" or NULL
          wss,            \* the tokens the program holds, or NULL
          strs            \* token strings on the heap

vars == <<live, len, cap, buf, ret, wss, strs>>

Init ==
  /\ live = FALSE
  /\ len = 0 /\ cap = 0 /\ buf = <<>>
  /\ ret = NULL /\ wss = NULL /\ strs = 0

(* size_t *)
Size(n) == n % (SizeMax + 1)

(* strlen: the bytes before the terminator. *)
CStr(s) ==
  LET ends == {i \in DOMAIN s : s[i] = 0} IN
  IF ends = {} THEN s ELSE SubSeq(s, 1, Min(ends) - 1)

Zeros(n) == [i \in 1 .. n |-> 0]

(* memcpy: bytes past the end of the block are lost. *)
Write(b, at, s) ==
  [i \in DOMAIN b |-> IF i \in at + 1 .. at + Len(s) THEN s[i - at] ELSE b[i]]

-----------------------------------------------------------------------------
(* What realloc may give for the block b: it may fail and leave b alone,   *)
(* and with size 0 it frees b and gives NULL.                              *)
Realloc(b, n) ==
  IF n = 0 THEN {[ok |-> FALSE, buf |-> Freed]}
  ELSE {[ok |-> FALSE, buf |-> b]} \cup
       {[ok |-> TRUE, buf |-> [i \in 1 .. n |-> IF i <= Len(b) THEN b[i] ELSE Raw]] :
          h \in {h \in {HeapMax} : n <= h}}

BadGrow(c) ==
  IF c <= cap THEN {[ok |-> TRUE, buf |-> buf, cap |-> cap]}
  ELSE {[ok |-> r.ok, buf |-> r.buf, cap |-> IF r.ok THEN c ELSE cap] : r \in Realloc(buf, c)}

(* wba_strgrow: the fields and the outcome. *)
Grow(c) ==
  IF c <= cap THEN {[ok |-> TRUE, buf |-> buf, cap |-> cap]}
  ELSE {[ok |-> r.ok, buf |-> r.buf, cap |-> IF r.ok THEN c ELSE cap] :
          r \in Realloc(buf, Size(c + 1))}

(* wba_str_reserve *)
Reserve(c) ==
  IF cap >= c THEN {[ok |-> TRUE, buf |-> buf, cap |-> cap]}
  ELSE IF c < MaxReserve THEN Grow(Size(c * 2)) ELSE Grow(Size(c + MaxReserve))

Return(ok) == ret' = IF ok THEN "ws" ELSE NULL

(* wba_strnewlen; the two allocations fail alike. *)
Strnewlen(s) ==
  /\ ~live
  /\ \/ /\ Size(Len(s) + 1) <= HeapMax
        /\ live' = TRUE
        /\ len' = Len(s) /\ cap' = Len(s)
        /\ buf' = SubSeq(Append(s, 0), 1, Size(Len(s) + 1))
        /\ Return(TRUE)
     \/ Return(FALSE) /\ UNCHANGED <<live, len, cap, buf>>
  /\ UNCHANGED <<wss, strs>>

Strnewzero(n) == Strnewlen(Zeros(n))

Strnew(c) ==
  /\ ~live
  /\ \/ /\ Size(c + 1) <= HeapMax
        /\ live' = TRUE
        /\ len' = 0 /\ cap' = c /\ buf' = Zeros(Size(c + 1))
        /\ Return(TRUE)
     \/ Return(FALSE) /\ UNCHANGED <<live, len, cap, buf>>
  /\ UNCHANGED <<wss, strs>>

Strnew2(s) == Strnewlen(CStr(s))

Strfree ==
  /\ live
  /\ live' = FALSE
  /\ len' = 0 /\ cap' = 0 /\ buf' = <<>>
  /\ UNCHANGED <<ret, wss, strs>>

Strclr ==
  /\ live
  /\ len' = 0
  /\ buf' = Write(buf, 0, <<0>>)
  /\ UNCHANGED <<live, cap, ret, wss, strs>>

Strgrow(c) ==
  /\ live
  /\ \E r \in Grow(c) : buf' = r.buf /\ cap' = r.cap /\ Return(r.ok)
  /\ UNCHANGED <<live, len, wss, strs>>

(* Put s and a terminator at the offset at, which becomes its end. *)
Put(at, s) ==
  \E r \in Reserve(at + Len(s)) :
    /\ cap' = r.cap
    /\ buf' = IF r.ok THEN Write(r.buf, at, Append(s, 0)) ELSE r.buf
    /\ len' = IF r.ok THEN at + Len(s) ELSE len
    /\ Return(r.ok)

BadPutSome(at, s) == Put(at, s)

(* Nothing is done for an empty string, which leaves the old one. *)
PutSome(at, s) ==
  \/ s # <<>> /\ Put(at, s)
  \/ s = <<>> /\ Return(TRUE) /\ UNCHANGED <<len, cap, buf>>

Strncpy(s) == live /\ PutSome(0, s) /\ UNCHANGED <<live, wss, strs>>
Strcpy(s) == Strncpy(CStr(s))
Strncat(s) == live /\ PutSome(len, s) /\ UNCHANGED <<live, wss, strs>>
Strcat(s) == Strncat(CStr(s))

(* wba_strcat_vprintf of what vsnprintf makes of its arguments, unless it  *)
(* fails.                                                                  *)
StrcatPrintf(s) ==
  /\ live
  /\ \/ Put(len, s)
     \/ Return(FALSE) /\ UNCHANGED <<len, cap, buf>>
  /\ UNCHANGED <<live, wss, strs>>

-----------------------------------------------------------------------------
(* wba_strntok: the first allocation is that of the array, which keeps     *)
(* only what fits in it; wba_strnew and wba_strncpy give a string of       *)
(* exactly the token.                                                      *)
Begin == [start |-> 0, toks |-> <<>>, made |-> 0, slots |-> Slots, allocs |-> 1]

(* The array doubles before its last slot is taken. *)
MoreSlots(t) ==
  IF Len(t.toks) >= t.slots - 1
  THEN [t EXCEPT !.slots = 2 * @, !.allocs = @ + 1]
  ELSE t

PushToken(t, tok) ==
  LET u == MoreSlots(t) IN
  [u EXCEPT !.start = 0,
            !.toks = IF Len(@) < u.slots THEN Append(@, tok) ELSE @,
            !.made = @ + 1,
            !.allocs = @ + 1]

BadScanChar(str, sep, m, t) ==
  LET hit == str[m] \in sep
      start == IF ~hit /\ t.start = 0 THEN m ELSE t.start
  IN  IF start # 0 /\ hit THEN PushToken(t, SubSeq(str, start, m - 1))
      ELSE [t EXCEPT !.start = start]

(* One turn of the loop over str. *)
ScanChar(str, sep, m, t) ==
  LET hit == str[m] \in sep
      start == IF ~hit /\ t.start = 0 THEN m ELSE t.start
      end == IF start = 0 THEN 0
             ELSE IF hit THEN m
             ELSE IF m = Len(str) THEN m + 1 ELSE 0
  IN  IF end # 0 THEN PushToken(t, SubSeq(str, start, end - 1))
      ELSE [t EXCEPT !.start = start]

Scan(str, sep) ==
  LET scan[m \in 0 .. Len(str)] ==
        IF m = 0 THEN Begin ELSE ScanChar(str, sep, m, scan[m - 1])
  IN  scan

BadFreeTokens(n, t) == IF t.made > 0 THEN n - (t.made - 1) ELSE n

(* wba_strfree_tokens(wss, cnt) on the way out of a failure. *)
FreeTokens(n, t) == n - t.made

(* The tokens of the string, if all its allocations succeed; else those    *)
(* made so far are freed.                                                  *)
Strntok(sep) ==
  /\ live /\ wss = NULL
  /\ LET scan == Scan(SubSeq(buf, 1, len), sep)
     IN \/ /\ wss' = scan[len].toks
           /\ strs' = strs + scan[len].made
           /\ Return(TRUE)
        \/ \E m \in 0 .. len :
             /\ m = 0 \/ (m < len /\ scan[m + 1].allocs > scan[m].allocs)
             /\ strs' = FreeTokens(strs + scan[m].made, scan[m])
             /\ wss' = NULL
             /\ Return(FALSE)
  /\ UNCHANGED <<live, len, cap, buf>>

(* wba_strfree_tokens(wss, cnt) by the program. *)
StrfreeTokens ==
  /\ wss # NULL
  /\ wss' = NULL
  /\ strs' = strs - Len(wss)
  /\ UNCHANGED <<live, len, cap, buf, ret>>

-----------------------------------------------------------------------------
Next ==
  \/ \E s \in Strs : \/ Strnewlen(s) \/ Strnew2(s)
                     \/ Strncpy(s) \/ Strcpy(s)
                     \/ Strncat(s) \/ Strcat(s) \/ StrcatPrintf(s)
  \/ \E c \in Caps : Strnewzero(c) \/ Strnew(c) \/ Strgrow(c)
  \/ Strclr \/ Strfree
  \/ (\E sep \in Seps : Strntok(sep)) \/ StrfreeTokens

Spec == Init /\ [][Next]_vars

-----------------------------------------------------------------------------
Content == SubSeq(buf, 1, len)

(* cap is the size of the block "excluding the NULL terminator", the       *)
(* string fits, it is terminated, and no byte of it is uninitialised,      *)
(* whatever was allocated or failed before.                                *)
WellFormed ==
  live =>
    /\ Len(buf) = cap + 1
    /\ len <= cap
    /\ buf[len + 1] = 0
    /\ \A i \in 1 .. len : buf[i] # Raw

(* A call that returns NULL leaves the string as it was, and one that      *)
(* returns it has done all of its work: copied, appended, or kept it.      *)
AllOrNothing ==
  [][/\ \A s \in Strs :
          /\ Strncpy(s) => Content' = IF ret' = NULL \/ s = <<>> THEN Content ELSE s
          /\ Strncat(s) \/ StrcatPrintf(s) =>
               Content' = IF ret' = NULL THEN Content ELSE Content \o s
     /\ \A c \in Caps :
          Strgrow(c) => Content' = Content /\ (ret' # NULL => cap' >= c)]_vars

(* The tokens of str: its longest runs without a separator, in order. *)
Runs(str, sep) ==
  {r \in (DOMAIN str) \X (DOMAIN str) :
     /\ r[1] <= r[2]
     /\ \A k \in r[1] .. r[2] : str[k] \notin sep
     /\ r[1] = 1 \/ str[r[1] - 1] \in sep
     /\ r[2] = Len(str) \/ str[r[2] + 1] \in sep}

Tokens(str, sep) ==
  LET runs == Runs(str, sep)
      nth(k) == CHOOSE r \in runs : Cardinality({q \in runs : q[1] <= r[1]}) = k
  IN  [k \in 1 .. Cardinality(runs) |-> SubSeq(str, nth(k)[1], nth(k)[2])]

(* wba_strntok returns the runs of characters between separators, however  *)
(* often it had to enlarge its array.                                      *)
TokensRight ==
  [][\A sep \in Seps : Strntok(sep) => wss' \in {NULL, Tokens(Content, sep)}]_vars

(* The only token strings on the heap are those the program holds: a       *)
(* failure half-way leaves none, and wba_strfree_tokens frees all.         *)
NoTokenLeak == strs = IF wss = NULL THEN 0 ELSE Len(wss)

(* A string whose growth fails still has its buffer, as grow_test01 and    *)
(* reserve rely on.                                                        *)
KeepsBuffer == live => buf # Freed
=============================================================================
