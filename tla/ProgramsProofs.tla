--------------------------- MODULE ProgramsProofs ---------------------------
(***************************************************************************)
(* ManualResetEvent loses no wake-up and its waits return what is true,    *)
(* for any set of threads: TypeOK and NoLostWakeup together are inductive, *)
(* and so are TypeOK and ExpiredLate. The echo of UnixEcho is right for    *)
(* any number of clients, any size of the buffers and any backlog, and the *)
(* stop watch is at any instants.                                          *)
(***************************************************************************)
EXTENDS Programs, Integers, TLAPS


(* Only the pcs matter to NoLostWakeup, and only while the event is set:   *)
(* a step that leaves every blocked thread blocked before it, and takes no *)
(* thread away from the ones that got through, keeps it.                   *)
LEMMA PcStep ==
  ASSUME TypeOK, NoLostWakeup, signaled_' => signaled_,
         \A t \in Setters : pc[t] = "notify" => pc'[t] = "notify",
         signaled_' => \A w \in Waiting :
           /\ pc'[w] = "blocked" => pc[w] = "blocked"
           /\ pc[w] \in {"woken", "expired", "returned"} =>
                pc'[w] \in {"woken", "expired", "returned"}
  PROVE  NoLostWakeup'
BY SMTT(30) DEF NoLostWakeup, TypeOK

(* The steps of set(), reset(), wait() and wait(timeout) keep the types. *)
LEMMA EventTypeStep ==
  ASSUME TypeOK, [Next]_vars
  PROVE  TypeOK'
<1> USE EventAssumption DEF TypeOK, Threads, Waiting, Goto
<1>1. ASSUME NEW t \in Setters, Set(t) PROVE TypeOK'
  BY <1>1 DEF Set
<1>2. ASSUME NEW t \in Setters, NotifyOne(t) PROVE TypeOK'
  BY <1>2 DEF NotifyOne
<1>3. ASSUME NEW t \in Resetters, Reset(t) PROVE TypeOK'
  BY <1>3, Zenon DEF Reset
<1>4. ASSUME NEW w \in Waiters, Wait(w) \/ Recheck(w) PROVE TypeOK'
  BY <1>4 DEF Wait, Recheck
<1>5. ASSUME NEW w \in TimedWaiters, TimedWait(w) PROVE TypeOK'
  BY <1>5 DEF TimedWait
<1>6. ASSUME NEW w \in TimedWaiters, TimedRecheck(w) PROVE TypeOK'
  <2>1. pc'[w] \in {"returned", "expired", "blocked"} /\ pc' = [pc EXCEPT ![w] = pc'[w]]
    BY <1>6 DEF TimedRecheck
  <2> QED BY <1>6, <2>1 DEF TimedRecheck
<1>7. ASSUME NEW w \in TimedWaiters, TimeOut(w) \/ ReturnExpired(w) PROVE TypeOK'
  BY <1>7 DEF TimeOut, ReturnExpired
<1>8. ASSUME NEW w \in Waiting, SpuriousWake(w) PROVE TypeOK'
  BY <1>8 DEF SpuriousWake
<1>9. CASE Tick
  BY <1>9 DEF Tick
<1>10. CASE UNCHANGED vars
  BY <1>10 DEF vars
<1> QED
  BY <1>1, <1>2, <1>3, <1>4, <1>5, <1>6, <1>7, <1>8, <1>9, <1>10 DEF Next, Proceed

(* No step of any thread loses a wake-up: set() is about to notify, the    *)
(* notification goes to a blocked thread, and a thread that is through     *)
(* does not block again while the event stays set.                         *)
LEMMA WakeupStep ==
  ASSUME TypeOK, NoLostWakeup, [Next]_vars
  PROVE  NoLostWakeup'
<1> USE EventAssumption DEF Threads, Waiting, Goto
<1>1. ASSUME NEW t \in Setters, Set(t) PROVE NoLostWakeup'
  BY <1>1 DEF Set, NoLostWakeup, TypeOK
<1>2. ASSUME NEW t \in Setters, NotifyOne(t) PROVE NoLostWakeup'
  <2> DEFINE blocked == {w \in Waiting : pc[w] = "blocked"}
  <2>1. CASE blocked = {} /\ pc' = [pc EXCEPT ![t] = "out"]
    BY <2>1 DEF NoLostWakeup, TypeOK
  <2>2. ASSUME NEW w \in blocked, pc' = [pc EXCEPT ![t] = "out", ![w] = "woken"]
        PROVE  NoLostWakeup'
    BY <2>2 DEF NoLostWakeup, TypeOK
  <2> QED BY <1>2, <2>1, <2>2 DEF NotifyOne
<1>3. ASSUME NEW t \in Resetters, Reset(t) PROVE NoLostWakeup'
  BY <1>3 DEF Reset, NoLostWakeup
<1>4. ASSUME NEW w \in Waiters, Wait(w) \/ Recheck(w) PROVE NoLostWakeup'
  BY <1>4, PcStep DEF Wait, Recheck, TypeOK
<1>5. ASSUME NEW w \in TimedWaiters, TimedWait(w) PROVE NoLostWakeup'
  BY <1>5, PcStep DEF TimedWait, TypeOK
<1>6. ASSUME NEW w \in TimedWaiters, TimedRecheck(w) PROVE NoLostWakeup'
  <2>1. /\ pc' = [pc EXCEPT ![w] = pc'[w]] /\ signaled_' = signaled_
        /\ signaled_ => pc'[w] = "returned"
    BY <1>6 DEF TimedRecheck, TypeOK
  <2> QED BY <1>6, <2>1, PcStep DEF TimedRecheck, TypeOK
<1>7. ASSUME NEW w \in TimedWaiters, TimeOut(w) \/ ReturnExpired(w) PROVE NoLostWakeup'
  BY <1>7, PcStep DEF TimeOut, ReturnExpired, TypeOK
<1>8. ASSUME NEW w \in Waiting, SpuriousWake(w) PROVE NoLostWakeup'
  BY <1>8, PcStep DEF SpuriousWake, TypeOK
<1>9. CASE Tick \/ UNCHANGED vars
  BY <1>9, Zenon DEF Tick, vars, NoLostWakeup
<1> QED
  BY <1>1, <1>2, <1>3, <1>4, <1>5, <1>6, <1>7, <1>8, <1>9 DEF Next, Proceed

(* Whatever threads set, reset and wait, with any timeouts and spurious    *)
(* wake-ups: set() never leaves all the waiters blocked behind it.         *)
THEOREM WakeupsKept == Spec => []NoLostWakeup
<1>1. Init => TypeOK /\ NoLostWakeup
  BY EventAssumption DEF Init, TypeOK, NoLostWakeup, Threads, Waiting
<1>2. TypeOK /\ NoLostWakeup /\ [Next]_vars => (TypeOK /\ NoLostWakeup)'
  BY EventTypeStep, WakeupStep
<1> QED
  BY <1>1, <1>2, PTL DEF Spec

-----------------------------------------------------------------------------
(* A thread is past its absolute time when timed_wait gives up. *)
ExpiredLate == \A w \in TimedWaiters : pc[w] = "expired" => now >= abs_time[w]

LEMMA ExpiredStep ==
  ASSUME TypeOK, ExpiredLate, [Next]_vars
  PROVE  ExpiredLate'
<1> USE EventAssumption DEF Threads, Waiting, Goto
<1>1. CASE (\E t \in Setters : Set(t) \/ NotifyOne(t)) \/ (\E t \in Resetters : Reset(t))
  BY <1>1 DEF Set, NotifyOne, Reset, ExpiredLate, TypeOK
<1>2. ASSUME NEW w \in Waiters, Wait(w) \/ Recheck(w) PROVE ExpiredLate'
  BY <1>2 DEF Wait, Recheck, ExpiredLate, TypeOK
<1>3. ASSUME NEW w \in TimedWaiters, TimedWait(w) PROVE ExpiredLate'
  BY <1>3 DEF TimedWait, ExpiredLate, TypeOK
<1>4. ASSUME NEW w \in TimedWaiters, TimedRecheck(w) PROVE ExpiredLate'
  BY <1>4 DEF TimedRecheck, ExpiredLate, TypeOK
<1>5. ASSUME NEW w \in TimedWaiters, TimeOut(w) \/ ReturnExpired(w) PROVE ExpiredLate'
  BY <1>5 DEF TimeOut, ReturnExpired, ExpiredLate, TypeOK
<1>6. ASSUME NEW w \in Waiting, SpuriousWake(w) PROVE ExpiredLate'
  BY <1>6 DEF SpuriousWake, ExpiredLate, TypeOK
<1>7. CASE Tick
  BY <1>7 DEF Tick, ExpiredLate, TypeOK
<1>8. CASE UNCHANGED vars
  BY <1>8 DEF vars, ExpiredLate
<1> QED
  BY <1>1, <1>2, <1>3, <1>4, <1>5, <1>6, <1>7, <1>8 DEF Next, Proceed

(* wait() and wait(timeout) return what is true of the event, and false    *)
(* only once the absolute time of the call has passed, whatever wakes the  *)
(* thread up.                                                              *)
THEOREM WaitsReturnTruth == Spec => ReturnsTruth
<1> DEFINE True(w) == pc[w] # "returned" /\ pc'[w] = "returned" =>
                        /\ w \in Waiters => signaled_
                        /\ w \in TimedWaiters =>
                             /\ result'[w] = signaled_
                             /\ ~signaled_ => now >= abs_time'[w]
<1>1. Init => TypeOK /\ ExpiredLate
  BY EventAssumption DEF Init, TypeOK, ExpiredLate, Threads, Waiting
<1>2. TypeOK /\ ExpiredLate /\ [Next]_vars => (TypeOK /\ ExpiredLate)'
  BY EventTypeStep, ExpiredStep, SMTT(30)
<1>3. TypeOK /\ ExpiredLate /\ [Next]_vars => [\A w \in Waiting : True(w)]_vars
  <2> SUFFICES ASSUME TypeOK, ExpiredLate, Next, NEW w \in Waiting PROVE True(w)
    OBVIOUS
  <2> USE EventAssumption DEF Threads, Waiting, Goto
  <2>1. CASE (\E t \in Setters : Set(t) \/ NotifyOne(t)) \/ (\E t \in Resetters : Reset(t))
             \/ (\E x \in Waiting : SpuriousWake(x)) \/ Tick
    BY <2>1 DEF Set, NotifyOne, Reset, SpuriousWake, Tick, TypeOK
  <2>2. ASSUME NEW x \in Waiters, Wait(x) \/ Recheck(x) PROVE True(w)
    BY <2>2 DEF Wait, Recheck, TypeOK
  <2>3. ASSUME NEW x \in TimedWaiters, TimedWait(x) PROVE True(w)
    BY <2>3 DEF TimedWait, TypeOK
  <2>4. ASSUME NEW x \in TimedWaiters, TimedRecheck(x) PROVE True(w)
    BY <2>4 DEF TimedRecheck, TypeOK
  <2>5. ASSUME NEW x \in TimedWaiters, TimeOut(x) \/ ReturnExpired(x) PROVE True(w)
    BY <2>5 DEF TimeOut, ReturnExpired, ExpiredLate, TypeOK
  <2> QED BY <2>1, <2>2, <2>3, <2>4, <2>5 DEF Next, Proceed
<1> QED
  BY <1>1, <1>2, <1>3, PTL DEF Spec, ReturnsTruth

-----------------------------------------------------------------------------
(* network/unixsock *)

Bytes == Clients \X {0, 1}

EchoTypeOK ==
  /\ client \in [Clients -> {"off", "prompt", "recv", "gone"}]
  /\ line \in [Clients -> Seq(Bytes)]
  /\ up \in [Clients -> Seq(Bytes)]
  /\ down \in [Clients -> Seq(Bytes)]
  /\ str \in [Clients -> Seq(Bytes)]
  /\ child \in [Clients -> {"none", "recv", "send", "gone"}]

(* The bytes under way between c and its process, in the order in which    *)
(* they come back, are in one place at a time.                             *)
InUp(c, l) == up[c] = l /\ str[c] = <<>> /\ down[c] = <<>>
InStr(c, l) == up[c] = <<>> /\ str[c] = l /\ down[c] = <<>>
InDown(c, l) == up[c] = <<>> /\ str[c] = <<>> /\ down[c] = l

(* A client that can type has nothing under way; one that waits has just   *)
(* its line under way.                                                     *)
Turn(c) ==
  /\ client[c] \in {"off", "prompt"} => InUp(c, <<>>)
  /\ client[c] = "recv" =>
       /\ Len(line[c]) < BufSize
       /\ InUp(c, line[c]) \/ InStr(c, line[c]) \/ InDown(c, line[c])

EchoInv == EchoTypeOK /\ \A c \in Clients : Turn(c)

-----------------------------------------------------------------------------
(* recv into a buffer of BufSize takes a shorter line whole. *)
LEMMA RecvWhole ==
  ASSUME BufSize \in Nat, NEW s \in Seq(Bytes)
  PROVE  /\ Unix!Received(s) \in Seq(Bytes) /\ Unix!Left(s) \in Seq(Bytes)
         /\ Len(s) < BufSize => Unix!Received(s) = s /\ Unix!Left(s) = <<>>
<1> DEFINE k == IF Len(s) < BufSize THEN Len(s) ELSE BufSize
<1>0. Len(s) \in Nat /\ \A i \in 1 .. Len(s) : s[i] \in Bytes
  OBVIOUS
<1>2. k \in Nat /\ k <= Len(s) /\ (Len(s) < BufSize => k = Len(s))
  BY <1>0
<1> HIDE DEF k
<1>3. Unix!Received(s) = SubSeq(s, 1, k) /\ Unix!Left(s) = SubSeq(s, BufSize + 1, Len(s))
  BY DEF Unix!Received, Unix!Left, k
<1>4. SubSeq(s, 1, k) \in Seq(Bytes)
  <2>1. \A i \in 1 .. k : s[i] \in Bytes
    BY <1>0, <1>2
  <2> QED BY <1>2, <2>1
<1>5. SubSeq(s, BufSize + 1, Len(s)) \in Seq(Bytes)
  <2>1. \A i \in BufSize + 1 .. Len(s) : s[i] \in Bytes
    BY <1>0
  <2> QED BY <1>0, <2>1
<1>6. SubSeq(s, 1, Len(s)) = s
  BY <1>0
<1>7. Len(s) < BufSize => SubSeq(s, BufSize + 1, Len(s)) = <<>>
  BY <1>0
<1> QED BY <1>2, <1>3, <1>4, <1>5, <1>6, <1>7, ZenonT(30)

LEMMA JoinEmpty ==
  ASSUME NEW s \in Seq(Bytes), NEW t \in Seq(Bytes)
  PROVE  s \o t \in Seq(Bytes) /\ <<>> \o s = s /\ s \o <<>> = s
OBVIOUS

(* What c does, and what is done for c, leaves the others as they are. *)
LEMMA OneClient ==
  ASSUME EchoInv, NEW c \in Clients, EchoTypeOK', Turn(c)',
         \A x \in Clients : x # c =>
           /\ client'[x] = client[x] /\ line'[x] = line[x] /\ up'[x] = up[x]
           /\ down'[x] = down[x] /\ str'[x] = str[x]
  PROVE  EchoInv'
BY DEF EchoInv, Turn, InUp, InStr, InDown

-----------------------------------------------------------------------------
(* The steps.                                                              *)

(* The server accepts, forks and fails without touching a byte. *)
LEMMA ServerSteps ==
  ASSUME EchoInv, Unix!accept \/ Unix!AcceptFails \/ Unix!fork \/ Unix!ForkFails
  PROVE  EchoInv'
<1>1. UNCHANGED <<client, line, up, down, str>>
  BY DEF Unix!accept, Unix!AcceptFails, Unix!fork, Unix!ForkFails
<1>2. child' \in [Clients -> {"none", "recv", "send", "gone"}]
  BY DEF EchoInv, EchoTypeOK, Unix!accept, Unix!AcceptFails, Unix!fork, Unix!ForkFails
<1> QED BY <1>1, <1>2 DEF EchoInv, EchoTypeOK, Turn, InUp, InStr, InDown

(* Connecting and leaving move no byte either. *)
LEMMA ComeAndGo ==
  ASSUME EchoInv, NEW c \in Clients, Unix!ConnectTo(c) \/ Unix!Leave(c)
  PROVE  EchoInv'
<1>1. /\ UNCHANGED <<up, down, str, child>>
      /\ client' = [client EXCEPT ![c] = "prompt"] \/ client' = [client EXCEPT ![c] = "gone"]
      /\ line' = line \/ line' = [line EXCEPT ![c] = <<>>]
  BY DEF Unix!ConnectTo, Unix!Leave, Unix!toServer
<1>2. EchoTypeOK'
  <2>1. client' \in [Clients -> {"off", "prompt", "recv", "gone"}]
    BY <1>1, ZenonT(30) DEF EchoInv, EchoTypeOK
  <2>2. line' \in [Clients -> Seq(Bytes)]
    <3>1. [line EXCEPT ![c] = <<>>] \in [Clients -> Seq(Bytes)]
      BY DEF EchoInv, EchoTypeOK
    <3> QED BY <1>1, <3>1, Zenon DEF EchoInv, EchoTypeOK
  <2> QED BY <1>1, <2>1, <2>2 DEF EchoInv, EchoTypeOK
<1>3. client'[c] = "prompt" => client[c] = "off"
  BY <1>1 DEF Unix!ConnectTo, Unix!Leave, EchoInv, EchoTypeOK
<1>4. client'[c] \in {"prompt", "gone"}
  BY <1>1 DEF EchoInv, EchoTypeOK
<1>5. Turn(c)'
  BY <1>1, <1>3, <1>4 DEF EchoInv, Turn, InUp
<1>6. \A x \in Clients : x # c => client'[x] = client[x] /\ line'[x] = line[x]
  BY <1>1 DEF EchoInv, EchoTypeOK
<1> QED BY <1>1, <1>2, <1>5, <1>6, OneClient

LEMMA SendLineStep ==
  ASSUME BufSize \in Nat, EchoInv, NEW c \in Clients, Unix!SendLine(c)
  PROVE  EchoInv'
<1>1. PICK l \in Unix!Typed(c) :
        IF Unix!Closed(c)
        THEN client' = [client EXCEPT ![c] = "gone"] /\ UNCHANGED <<line, up>>
        ELSE /\ client' = [client EXCEPT ![c] = "recv"]
             /\ line' = [line EXCEPT ![c] = l]
             /\ up' = [up EXCEPT ![c] = @ \o l]
  BY SMTT(30) DEF Unix!SendLine
<1>2. l \in Seq(Bytes) /\ Len(l) < BufSize
  <2>1. PICK n \in 0 .. BufSize - 1 : l \in [1 .. n -> {c} \X {0, 1}]
    BY DEF Unix!Typed
  <2>2. l \in [1 .. n -> Bytes]
    BY <2>1 DEF Bytes
  <2> QED BY <2>1, <2>2
<1>3. client[c] = "prompt" /\ UNCHANGED <<down, str, child>>
  BY DEF Unix!SendLine, Unix!toServer
<1>4. up[c] = <<>> /\ str[c] = <<>> /\ down[c] = <<>> /\ up[c] \o l = l
  <2>1. up[c] = <<>> /\ str[c] = <<>> /\ down[c] = <<>>
    BY <1>3, SMTT(30) DEF EchoInv, Turn, InUp
  <2> QED BY <1>2, <2>1, JoinEmpty, SMTT(30)
<1>5. CASE Unix!Closed(c)
  <2>1. client' = [client EXCEPT ![c] = "gone"] /\ UNCHANGED <<line, up>>
    BY <1>1, <1>5
  <2>2. EchoTypeOK' /\ client'[c] = "gone"
    BY <1>3, <2>1 DEF EchoInv, EchoTypeOK
  <2>3. \A x \in Clients : x # c => client'[x] = client[x]
    BY <2>1 DEF EchoInv, EchoTypeOK
  <2> QED BY <1>3, <2>1, <2>2, <2>3, OneClient DEF Turn
<1>6. CASE ~Unix!Closed(c)
  <2>1. /\ client' = [client EXCEPT ![c] = "recv"] /\ line' = [line EXCEPT ![c] = l]
        /\ up' = [up EXCEPT ![c] = l]
    BY <1>1, <1>4, <1>6
  <2>2. EchoTypeOK' /\ client'[c] = "recv" /\ line'[c] = l /\ up'[c] = l
    BY <1>2, <1>3, <2>1 DEF EchoInv, EchoTypeOK
  <2>3. \A x \in Clients : x # c =>
          client'[x] = client[x] /\ line'[x] = line[x] /\ up'[x] = up[x]
    BY <2>1 DEF EchoInv, EchoTypeOK
  <2>4. Turn(c)'
    BY <1>2, <1>3, <1>4, <2>2 DEF Turn, InUp
  <2> QED BY <1>3, <2>2, <2>3, <2>4, OneClient
<1> QED BY <1>5, <1>6

LEMMA RecvEchoStep ==
  ASSUME BufSize \in Nat, EchoInv, NEW c \in Clients, Unix!RecvEcho(c)
  PROVE  EchoInv'
<1>1. /\ client[c] = "recv" /\ line' = [line EXCEPT ![c] = <<>>]
      /\ UNCHANGED <<up, str, child>>
  BY SMTT(30) DEF Unix!RecvEcho, Unix!toServer
<1>2. CASE down[c] # <<>>
  <2>1. down' = [down EXCEPT ![c] = Unix!Left(@)] /\ client' = [client EXCEPT ![c] = "prompt"]
    BY <1>2 DEF Unix!RecvEcho
  <2>2. /\ down[c] = line[c] /\ Len(line[c]) < BufSize
        /\ up[c] = <<>> /\ str[c] = <<>> /\ down[c] \in Seq(Bytes)
    BY <1>1, <1>2 DEF EchoInv, EchoTypeOK, Turn, InUp, InStr, InDown
  <2>3. Unix!Left(down[c]) = <<>>
    BY <2>2, RecvWhole
  <2>4. down' = [down EXCEPT ![c] = <<>>]
    BY <2>1, <2>3
  <2>5. EchoTypeOK' /\ client'[c] = "prompt" /\ down'[c] = <<>>
    BY <1>1, <2>1, <2>4 DEF EchoInv, EchoTypeOK
  <2>6. \A x \in Clients : x # c =>
          client'[x] = client[x] /\ line'[x] = line[x] /\ down'[x] = down[x]
    BY <1>1, <2>1, <2>4, SMTT(30) DEF EchoInv, EchoTypeOK
  <2>7. Turn(c)'
    BY <1>1, <2>2, <2>5, SMTT(30) DEF Turn, InUp
  <2> QED BY <1>1, <2>5, <2>6, <2>7, OneClient
<1>3. CASE down[c] = <<>>
  <2>1. down' = down /\ client' = [client EXCEPT ![c] = "gone"]
    BY <1>3 DEF Unix!RecvEcho
  <2>2. EchoTypeOK' /\ client'[c] = "gone"
    BY <1>1, <2>1 DEF EchoInv, EchoTypeOK
  <2>3. \A x \in Clients : x # c => client'[x] = client[x] /\ line'[x] = line[x]
    BY <1>1, <2>1 DEF EchoInv, EchoTypeOK
  <2> QED BY <1>1, <2>1, <2>2, <2>3, OneClient DEF Turn
<1> QED BY <1>2, <1>3

(* The process takes the line whole: it is shorter than its buffer. *)
LEMMA ChildRecvStep ==
  ASSUME BufSize \in Nat, EchoInv, NEW c \in Clients, Unix!ChildRecv(c)
  PROVE  EchoInv'
<1>1. UNCHANGED <<client, line, down>>
  BY DEF Unix!ChildRecv
<1>2. CASE /\ up[c] # <<>> /\ str' = [str EXCEPT ![c] = Unix!Received(up[c])]
           /\ up' = [up EXCEPT ![c] = Unix!Left(@)] /\ child' = [child EXCEPT ![c] = "send"]
  <2> DEFINE r == Unix!Received(up[c])
             f == Unix!Left(up[c])
  <2>1. /\ r \in Seq(Bytes) /\ f \in Seq(Bytes)
        /\ Len(up[c]) < BufSize => r = up[c] /\ f = <<>>
    BY RecvWhole DEF EchoInv, EchoTypeOK
  <2>2. str' = [str EXCEPT ![c] = r] /\ up' = [up EXCEPT ![c] = f]
    BY <1>2
  <2> HIDE DEF r, f
  <2>3. EchoTypeOK' /\ str'[c] = r /\ up'[c] = f
    BY <1>1, <1>2, <2>1, <2>2 DEF EchoInv, EchoTypeOK
  <2>4. \A x \in Clients : x # c => str'[x] = str[x] /\ up'[x] = up[x]
    BY <2>2 DEF EchoInv, EchoTypeOK
  <2>5. client[c] \notin {"off", "prompt"}
    BY <1>2, SMTT(30) DEF EchoInv, Turn, InUp
  <2>6. client[c] = "recv" => Len(line[c]) < BufSize /\ InUp(c, line[c])
    BY <1>2, SMTT(30) DEF EchoInv, Turn, InUp, InStr, InDown
  <2>7. Turn(c)'
    BY <1>1, <2>1, <2>3, <2>5, <2>6 DEF Turn, InUp, InStr
  <2> QED BY <1>1, <2>3, <2>4, <2>7, OneClient
<1>3. CASE UNCHANGED <<str, up>> /\ Unix!ChildExit(c)
  <2>1. child' \in [Clients -> {"none", "recv", "send", "gone"}]
    BY <1>3 DEF Unix!ChildExit, EchoInv, EchoTypeOK
  <2> QED BY <1>1, <1>3, <2>1 DEF EchoInv, EchoTypeOK, Turn, InUp, InStr, InDown
<1> QED BY <1>2, <1>3 DEF Unix!ChildRecv

LEMMA ChildSendStep ==
  ASSUME EchoInv, NEW c \in Clients, Unix!ChildSend(c)
  PROVE  EchoInv'
<1>1. UNCHANGED <<client, line, up>> /\ str' = [str EXCEPT ![c] = <<>>]
  BY DEF Unix!ChildSend
<1>2. child' \in [Clients -> {"none", "recv", "send", "gone"}]
  BY ZenonT(30) DEF Unix!ChildSend, Unix!ChildExit, EchoInv, EchoTypeOK
<1>3. CASE client[c] = "gone"
  <2>1. down' = down
    BY <1>3 DEF Unix!ChildSend
  <2>2. EchoTypeOK' /\ \A x \in Clients : x # c => str'[x] = str[x]
    <3>1. [str EXCEPT ![c] = <<>>] \in [Clients -> Seq(Bytes)]
      BY SMTT(30) DEF EchoInv, EchoTypeOK
    <3> QED BY <1>1, <1>2, <2>1, <3>1, ZenonT(30) DEF EchoInv, EchoTypeOK
  <2>3. Turn(c)'
    BY <1>1, <1>3 DEF Turn
  <2> QED BY <1>1, <2>1, <2>2, <2>3, OneClient
<1>4. CASE client[c] # "gone"
  <2> DEFINE d == down[c] \o str[c]
  <2>1. down' = [down EXCEPT ![c] = d]
    BY <1>4, Zenon DEF Unix!ChildSend
  <2>2. down[c] \in Seq(Bytes) /\ str[c] \in Seq(Bytes)
    BY DEF EchoInv, EchoTypeOK
  <2>3. /\ d \in Seq(Bytes)
        /\ down[c] = <<>> => d = str[c]
        /\ str[c] = <<>> => d = down[c]
    BY <2>2, JoinEmpty, Zenon
  <2> HIDE DEF d
  <2>4. EchoTypeOK' /\ down'[c] = d /\ str'[c] = <<>>
    BY <1>1, <1>2, <2>1, <2>3 DEF EchoInv, EchoTypeOK
  <2>5. \A x \in Clients : x # c => str'[x] = str[x] /\ down'[x] = down[x]
    BY <1>1, <2>1, SMTT(30) DEF EchoInv, EchoTypeOK
  <2>6. Turn(c)'
    BY <1>1, <2>3, <2>4 DEF EchoInv, Turn, InUp, InStr, InDown
  <2> QED BY <1>1, <2>4, <2>5, <2>6, OneClient
<1> QED BY <1>3, <1>4

-----------------------------------------------------------------------------
(* A line is in one place at a time, whoever connects, leaves or is killed,*)
(* and however the server and its processes end.                           *)
THEOREM EchoInvariant ==
  ASSUME BufSize \in Nat
  PROVE  Unix!Spec => []EchoInv
<1>1. Unix!Init => EchoInv
  <2> SUFFICES ASSUME Unix!Init PROVE EchoInv
    OBVIOUS
  <2>1. EchoTypeOK
    BY DEF Unix!Init, EchoTypeOK
  <2> QED BY <2>1 DEF Unix!Init, EchoInv, Turn, InUp
<1>2. EchoInv /\ [Unix!Next]_(Unix!vars) => EchoInv'
  <2> SUFFICES ASSUME EchoInv, [Unix!Next]_(Unix!vars) PROVE EchoInv'
    BY SMTT(30)
  <2>1. CASE UNCHANGED Unix!vars
    BY <2>1 DEF Unix!vars, EchoInv, EchoTypeOK, Turn, InUp, InStr, InDown
  <2>2. CASE Unix!Next
    BY <2>2, ServerSteps, ComeAndGo, SendLineStep, RecvEchoStep, ChildRecvStep,
       ChildSendStep DEF Unix!Next
  <2> QED BY <2>1, <2>2
<1> QED BY <1>1, <1>2, PTL DEF Unix!Spec

(* The client of network/unixsock receives its own line, whole, and the 0  *)
(* that it writes behind what it has received is within its buffer.        *)
THEOREM EchoIsRight ==
  ASSUME BufSize \in Nat
  PROVE  Unix!Spec => []EchoRight
<1>1. EchoInv => EchoRight
  BY DEF EchoInv, Turn, InUp, InStr, InDown, EchoRight, Unix!EchoRight
<1> QED BY <1>1, EchoInvariant, PTL

-----------------------------------------------------------------------------
(* cpp_console/stop_watch.h *)

(* The watch, while it runs, has kept the time of day of its start. *)
WatchInv ==
  /\ clock \in Nat /\ since \in Nat /\ duration \in Int /\ _running \in BOOLEAN
  /\ ran \in Int \X Int /\ duration = ran[1] - Watch!Day * ran[2]
  /\ _running => Watch!time_of_day(time_point) = since % Watch!Day

(* An stime holds the time of day to the millisecond. *)
LEMMA TimeOfDay ==
  ASSUME clock \in Nat
  PROVE  Watch!time_of_day(Watch!cur_time) = clock % Watch!Day
<1> DEFINE t == clock % 86400000
<1>1. t \in Nat
  OBVIOUS
<1>2. Watch!Day = 86400000
  BY DEF Watch!Day, Watch!Hour
<1> DEFINE h == t \div 3600000
           m == (t % 3600000) \div 60000
           c == (t % 60000) \div 1000
           u == t % 1000
<1>3. Watch!cur_time = [hour |-> h, minute |-> m, second |-> c, millisecond |-> u]
  BY <1>2 DEF Watch!cur_time, Watch!Hour, Watch!Minute
<1> HIDE DEF t
<1>4. ((h * 60 + m) * 60 + c) * 1000 + u = t
  BY <1>1
<1> HIDE DEF h, m, c, u
<1>5. Watch!time_of_day(Watch!cur_time) = ((h * 60 + m) * 60 + c) * 1000 + u
  <2> DEFINE ct == Watch!cur_time
  <2>1. ct.hour = h /\ ct.minute = m /\ ct.second = c /\ ct.millisecond = u
    BY <1>3
  <2> HIDE DEF ct
  <2>2. Watch!time_of_day(ct) = ((h * 60 + m) * 60 + c) * 1000 + u
    BY <2>1, SMT DEF Watch!time_of_day
  <2> QED BY <2>2 DEF ct
<1>6. Watch!time_of_day(Watch!cur_time) = t
  BY <1>4, <1>5, Zenon
<1> QED BY <1>2, <1>6 DEF t

(* The parts of a duration, of which C++ rounds each towards zero. *)
LEMMA PartsAddUp ==
  ASSUME NEW d \in Int
  PROVE  d = ((Watch!hours(d) * 60 + Watch!minutes(d)) * 60 + Watch!seconds(d)) * 1000
               + Watch!milliseconds(d)
<1>1. ASSUME NEW a \in Int, NEW b \in {1000, 60000, 3600000}
      PROVE  Watch!Quotient(a, b) \in Int /\ Watch!Remainder(a, b) \in Int
  BY DEF Watch!Quotient, Watch!Remainder
<1> DEFINE q1 == Watch!Quotient(d, 3600000)
           r1 == Watch!Remainder(d, 3600000)
           q2 == Watch!Quotient(r1, 60000)
           r2 == Watch!Remainder(r1, 60000)
           q3 == Watch!Quotient(r2, 1000)
           r3 == Watch!Remainder(r2, 1000)
<1>2. q1 \in Int /\ r1 \in Int /\ r1 = d - 3600000 * q1
  BY <1>1 DEF Watch!Remainder
<1>3. Watch!hours(d) = q1 /\ Watch!minutes(d) = q2 /\ Watch!seconds(d) = q3
      /\ Watch!milliseconds(d) = r3
  BY SMT DEF Watch!hours, Watch!minutes, Watch!seconds, Watch!milliseconds, Watch!Hour,
    Watch!Minute
<1> HIDE DEF q1, r1
<1>4. q2 \in Int /\ r2 \in Int /\ r2 = r1 - 60000 * q2
  BY <1>1, <1>2 DEF Watch!Remainder
<1> HIDE DEF q2, r2
<1>5. q3 \in Int /\ r3 \in Int /\ r3 = r2 - 1000 * q3
  BY <1>1, <1>4 DEF Watch!Remainder
<1> HIDE DEF q3, r3
<1> QED BY <1>2, <1>3, <1>4, <1>5

LEMMA WatchStep ==
  ASSUME Instants \subseteq Nat, WatchInv, [Watch!Next]_(Watch!vars)
  PROVE  WatchInv'
<1> DEFINE D == Watch!Day
<1>0. D \in Nat \ {0} /\ clock \in Nat /\ since \in Nat
  BY DEF WatchInv, Watch!Day, Watch!Hour
<1>1. ran[1] \in Int /\ ran[2] \in Int /\ duration = ran[1] - D * ran[2]
  BY DEF WatchInv
<1>2. Watch!time_of_day(Watch!cur_time) = clock % D
  BY <1>0, TimeOfDay
<1>3. \A n \in Nat : n \div D \in Int /\ n % D = n - D * (n \div D)
  BY SMT DEF Watch!Day, Watch!Hour
<1>4. CASE Watch!reset \/ Watch!restart
  <2>1. /\ duration' = 0 /\ ran' = <<0, 0>> /\ clock' = clock
        /\ \/ _running' = FALSE /\ since' = since
           \/ _running' = TRUE /\ since' = clock /\ time_point' = Watch!cur_time
    BY <1>4 DEF Watch!reset, Watch!restart, Watch!records
  <2>2. ran' \in Int \X Int /\ duration' = ran'[1] - D * ran'[2] /\ duration' \in Int
    BY <1>0, <2>1
  <2>3. _running' => Watch!time_of_day(time_point') = since' % D
    BY <1>2, <2>1
  <2>4. clock' \in Nat /\ since' \in Nat /\ _running' \in BOOLEAN
    BY <1>0, <2>1, Zenon
  <2> QED BY <2>2, <2>3, <2>4 DEF WatchInv, Watch!time_of_day
<1>5. CASE Watch!start
  <2>1. /\ UNCHANGED <<duration, ran, clock>> /\ _running' = TRUE
        /\ since' = clock /\ time_point' = Watch!cur_time
    BY <1>5 DEF Watch!start
  <2>2. Watch!time_of_day(time_point') = since' % D
    BY <1>2, <2>1
  <2> QED BY <1>0, <2>1, <2>2 DEF WatchInv, Watch!time_of_day
<1>6. CASE Watch!stop
  <2> DEFINE T == ran[1] + (clock - since)
             N == ran[2] + (clock \div D - since \div D)
  <2>1. duration' = duration + ((clock % D) - (since % D))
    <3>1. Watch!time_of_day(time_point) = since % D
      BY <1>6 DEF Watch!stop, WatchInv
    <3>2. duration' = duration + (Watch!time_of_day(Watch!cur_time) - Watch!time_of_day(time_point))
      BY <1>6, Zenon DEF Watch!stop, Watch!Difference
    <3> QED BY <1>2, <3>1, <3>2
  <2>2. _running' = FALSE /\ ran' = <<T, N>> /\ UNCHANGED <<since, clock>>
    BY <1>6 DEF Watch!stop, Watch!Since
  <2>3. T \in Int /\ N \in Int
    BY <1>0, <1>1, <1>3, SMTT(30)
  <2>4. duration' = T - D * N
    <3>1. clock % D = clock - D * (clock \div D) /\ clock \div D \in Int
      BY <1>0, <1>3, Zenon
    <3>2. since % D = since - D * (since \div D) /\ since \div D \in Int
      BY <1>0, <1>3, Zenon
    <3>3. duration' = (ran[1] - D * ran[2])
                        + ((clock - D * (clock \div D)) - (since - D * (since \div D)))
      BY <1>1, <2>1, <3>1, <3>2, Zenon
    <3>4. ran[1] \in Int /\ ran[2] \in Int /\ clock \in Int /\ since \in Int
      BY <1>0, <1>1
    <3>5. \A x, y \in Int :
            (ran[1] - D * ran[2]) + ((clock - D * x) - (since - D * y))
              = (ran[1] + (clock - since)) - D * (ran[2] + (x - y))
      BY <3>4, SMT DEF Watch!Day, Watch!Hour
    <3> QED BY <3>1, <3>2, <3>3, <3>5, Zenon
  <2> HIDE DEF T, N
  <2>5. duration' \in Int
    BY <1>0, <2>3, <2>4, SMT
  <2>6. ran' \in Int \X Int /\ ran'[1] = T /\ ran'[2] = N
    BY <2>2, <2>3
  <2> QED BY <1>0, <2>2, <2>4, <2>5, <2>6, Zenon DEF WatchInv
<1>7. CASE Watch!Tick
  <2>1. clock' \in Nat /\ UNCHANGED <<_running, duration, time_point, since, ran>>
    BY <1>7 DEF Watch!Tick, Watch!watch
  <2> QED BY <2>1 DEF WatchInv, Watch!time_of_day
<1>8. CASE Watch!accumulate \/ UNCHANGED Watch!vars \/ \E k \in Items : Watch!add(k)
  <2>1. UNCHANGED <<_running, duration, time_point, since, ran, clock>>
    BY <1>8 DEF Watch!accumulate, Watch!add, Watch!vars, Watch!watch
  <2> QED BY <2>1 DEF WatchInv, Watch!time_of_day
<1> QED BY <1>4, <1>5, <1>6, <1>7, <1>8 DEF Watch!Next

(* The stop watch shows the true time less a day for each midnight passed  *)
(* while it ran, whenever it is started, stopped and read.                 *)
THEOREM WatchIsTrue ==
  ASSUME Instants \subseteq Nat
  PROVE  Watch!Spec => []Watch!WatchTrue
<1>1. Watch!Init => WatchInv
  <2>1. 0 = <<0, 0>>[1] - Watch!Day * <<0, 0>>[2]
    BY DEF Watch!Day, Watch!Hour
  <2>2. <<0, 0>> \in Int \X Int
    OBVIOUS
  <2>3. ASSUME Watch!Init
        PROVE  clock = 0 /\ since = 0 /\ duration = 0 /\ ran = <<0, 0>> /\ _running = FALSE
    BY <2>3 DEF Watch!Init
  <2>4. 0 \in Nat /\ 0 \in Int
    OBVIOUS
  <2> QED BY <2>1, <2>2, <2>3, <2>4, Zenon DEF WatchInv
<1>2. WatchInv /\ [Watch!Next]_(Watch!vars) => WatchInv'
  BY WatchStep, SMTT(30)
<1>3. WatchInv => Watch!WatchTrue
  <2> SUFFICES ASSUME WatchInv PROVE Watch!WatchTrue
    OBVIOUS
  <2>1. duration \in Int
    BY DEF WatchInv
  <2>2. duration = Watch!Shown(ran)
    BY DEF WatchInv, Watch!Shown
  <2> QED BY <2>1, <2>2, PartsAddUp, SMT DEF Watch!WatchTrue
<1> QED BY <1>1, <1>2, <1>3, PTL DEF Watch!Spec
=============================================================================
