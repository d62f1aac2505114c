-------------------------- MODULE InetServerProofs --------------------------
(***************************************************************************)
(* Proofs about InetServer for any number of descriptors, connections,     *)
(* readers and overlapping timer handlers.                                 *)
(***************************************************************************)
EXTENDS InetServer, TLAPS

Stages == {"idle", "lock", "scan", "clear"}
ReaderStates == [at : {"check", "sleep", "call", "read"}, fd : Int, seen : Int]

(* The types; a connection's number is at most accepted. *)
TypeOK ==
  /\ pc \in {"accept", "store", "close", "stamp"}
  /\ got \in Fds \cup {0} /\ con_fd \in Fds \cup {0, -1}
  /\ tm \in [Fds -> Nat]
  /\ mtx \in Handlers \cup {None}
  /\ timer \in [Handlers -> [at : Stages, now : Nat, i : Fds]]
  /\ reader \in [Readers -> ReaderStates]
  /\ tab \in [Fds -> Nat \cup {None}]
  /\ since \in [Fds -> Nat] /\ accepted \in Nat
  /\ now \in Nat \ {0}

(* The handler h has closed the descriptor i and not yet reset its time. *)
Clearing(h, i) == mtx = h /\ timer[h].at = "clear" /\ timer[h].i = i

(* The handlers exclude each other, and none runs ahead of the clock. *)
TimerInv ==
  \A h \in Handlers :
    /\ timer[h].at \in {"scan", "clear"} => mtx = h
    /\ timer[h].at = "clear" => timer[h].i <= MaxFd /\ tm[timer[h].i] > 0
    /\ timer[h].now <= now

(* From accept to the locked block the new descriptor is open and is the   *)
(* last connection. It has no time yet, or one that a handler is about to  *)
(* reset: so no handler can find it aged.                                  *)
MainInv ==
  pc # "accept" =>
    /\ got \in Fds /\ tab[got] = accepted
    /\ tm[got] > 0 => \E h \in Handlers : Clearing(h, got)
    /\ pc = "stamp" => con_fd = got /\ got <= MaxFd
    /\ pc = "close" => con_fd = got /\ got > MaxFd

(* What a time and an open descriptor say of each other. *)
TimesAt(i) ==
  /\ tm[i] > 0 => \/ tab[i] # None /\ since[i] <= tm[i] /\ i <= MaxFd
                  \/ \E h \in Handlers : Clearing(h, i)
  /\ since[i] <= now
  /\ \A h \in Handlers : Clearing(h, i) /\ tab[i] # None => pc # "accept" /\ got = i
  /\ tab[i] # None /\ tm[i] = 0 => pc # "accept" /\ got = i

TimesInv == \A i \in Fds : TimesAt(i)

(* What con_fd leads to, if it is open. *)
LatestInv ==
  con_fd \in Fds /\ tab[con_fd] # None =>
    \/ tab[con_fd] = accepted
    \/ tab[con_fd] = accepted - 1 /\ pc = "store"

(* What the number leads to that a reader has loaded and not yet used, if  *)
(* it is open by now.                                                      *)
LoadedAt(r) ==
  /\ reader[r].seen <= accepted
  /\ reader[r].at = "call" /\ Open(reader[r].fd) => tab[reader[r].fd] >= reader[r].seen

LoadedInv == \A r \in Readers : LoadedAt(r)

Inv == TypeOK /\ TimerInv /\ MainInv /\ TimesInv /\ LatestInv /\ LoadedInv

-----------------------------------------------------------------------------
(* No step of main or of a handler brings an older connection back to a    *)
(* number: one that is open afterwards was so before, or it is the newest. *)
LEMMA LoadedLater ==
  ASSUME TypeOK, LoadedInv, UNCHANGED reader,
         accepted' \in Nat, accepted' >= accepted,
         \A i \in Fds : tab'[i] \in {tab[i], None} \/ tab'[i] = accepted'
  PROVE  LoadedInv'
<1> SUFFICES ASSUME NEW r \in Readers PROVE LoadedAt(r)'
  BY DEF LoadedInv
<1>1. LoadedAt(r) /\ reader'[r] = reader[r] /\ reader[r].seen \in Int /\ accepted \in Nat
  BY DEF LoadedInv, TypeOK, ReaderStates
<1>2. reader[r].seen <= accepted'
  BY <1>1 DEF LoadedAt
<1>3. ASSUME reader[r].at = "call", reader[r].fd \in Fds, tab'[reader[r].fd] # None
      PROVE  tab'[reader[r].fd] >= reader[r].seen
  BY <1>1, <1>2, <1>3 DEF LoadedAt, Open
<1> QED BY <1>1, <1>2, <1>3 DEF LoadedAt, Open

(* accept, outside the mutex, while a handler may be between closing the   *)
(* same number and resetting its time.                                     *)
LEMMA AcceptStep ==
  ASSUME Inv, Accept
  PROVE  Inv'
<1> USE ServerAssumption DEF Inv, Fds
<1>1. PICK i \in Free : /\ got' = i
                         /\ tab' = [tab EXCEPT ![i] = accepted + 1]
                         /\ since' = [since EXCEPT ![i] = now]
  BY Zenon DEF Accept
<1>2. i \in Fds /\ tab[i] = None /\ pc = "accept" /\ pc' = "store" /\ accepted' = accepted + 1
  BY DEF Accept, Free
<1>3. UNCHANGED <<con_fd, tm, mtx, timer, reader, now>>
  BY DEF Accept, timerVars
<1>4. TypeOK'
  <2>1. tab' \in [Fds -> Nat \cup {None}] /\ since' \in [Fds -> Nat]
    BY <1>1, <1>2, SMTT(30) DEF TypeOK
  <2> QED BY <1>1, <1>2, <1>3, <2>1, SMTT(30) DEF TypeOK
<1>5. TimerInv'
  BY <1>3 DEF TimerInv
<1>6. \A h \in Handlers, j \in Fds : Clearing(h, j)' <=> Clearing(h, j)
  BY <1>3 DEF Clearing
<1>7. MainInv'
  BY <1>1, <1>2, <1>3, <1>6 DEF MainInv, TimesInv, TimesAt, TypeOK
<1>8. TimesInv'
  <2> SUFFICES ASSUME NEW j \in Fds PROVE TimesAt(j)'
    BY DEF TimesInv
  <2>1. TimesAt(j)
    BY DEF TimesInv
  <2>2. CASE j = i
    <3>1. tab'[i] = accepted + 1 /\ since'[i] = now /\ tm' = tm /\ now' = now /\ now \in Nat
      BY <1>1, <1>2, <1>3 DEF TypeOK
    <3>2. pc' # "accept" /\ got' = i /\ tab[i] = None
      BY <1>1, <1>2
    <3>3. tm[i] > 0 => \E h \in Handlers : Clearing(h, i)'
      BY <1>6, <2>1, <2>2, <3>2 DEF TimesAt
    <3> QED BY <2>2, <3>1, <3>2, <3>3 DEF TimesAt
  <2>3. CASE j # i
    <3>1. tab'[j] = tab[j] /\ since'[j] = since[j] /\ tm' = tm /\ now' = now
      BY <1>1, <1>3, <2>3 DEF TypeOK
    <3>2. /\ \A h \in Handlers : Clearing(h, j)' <=> Clearing(h, j)
          /\ pc = "accept"
      BY <1>2, <1>6
    <3> QED BY <2>1, <3>1, <3>2 DEF TimesAt
  <2> QED BY <2>2, <2>3
<1>9. LatestInv'
  BY <1>1, <1>2, <1>3 DEF LatestInv, TypeOK
<1>10. LoadedInv'
  BY <1>1, <1>2, <1>3, LoadedLater, SMTT(30) DEF TypeOK
<1> QED BY <1>4, <1>5, <1>7, <1>8, <1>9, <1>10

(* The other steps of main. *)
LEMMA MainStep ==
  ASSUME Inv, AcceptFails \/ Store \/ CloseExcess \/ Stamp
  PROVE  Inv'
<1> USE ServerAssumption DEF Inv, Fds
<1>0. /\ UNCHANGED <<mtx, timer, reader, now, since, accepted, got>>
      /\ \A h \in Handlers, j \in Fds : Clearing(h, j)' <=> Clearing(h, j)
  BY DEF AcceptFails, Store, CloseExcess, Stamp, timerVars, kernelVars, Clearing
<1> DEFINE InvBut == TypeOK /\ TimerInv /\ MainInv /\ TimesInv /\ LatestInv
<1>1. ASSUME AcceptFails PROVE InvBut'
  <2>1. TypeOK' /\ TimerInv' /\ MainInv' /\ LatestInv'
    BY <1>0, <1>1 DEF AcceptFails, kernelVars, TypeOK, TimerInv, MainInv, LatestInv
  <2>2. TimesInv'
    BY <1>0, <1>1 DEF AcceptFails, kernelVars, TimesInv, TimesAt
  <2> QED BY <2>1, <2>2
<1>2. ASSUME Store PROVE InvBut'
  <2>1. /\ UNCHANGED <<tm, tab>> /\ con_fd' = got
        /\ pc = "store" /\ pc' = IF got > MaxFd THEN "close" ELSE "stamp"
    BY <1>2 DEF Store, kernelVars, MainInv
  <2>2. TypeOK' /\ TimerInv'
    BY <1>0, <2>1, SMTT(30) DEF TypeOK, TimerInv
  <2>3. MainInv' /\ LatestInv'
    BY <1>0, <2>1 DEF MainInv, LatestInv, TypeOK
  <2>4. TimesInv'
    BY <1>0, <2>1 DEF TimesInv, TimesAt
  <2> QED BY <2>2, <2>3, <2>4
<1>3. ASSUME CloseExcess PROVE InvBut'
  <2>1. TypeOK' /\ TimerInv' /\ MainInv' /\ LatestInv'
    BY <1>0, <1>3, SMTT(30) DEF CloseExcess, TypeOK, TimerInv, MainInv, LatestInv
  <2>2. TimesInv'
    BY <1>0, <1>3, SMTT(30) DEF CloseExcess, TypeOK, TimerInv, MainInv, TimesInv, TimesAt
  <2> QED BY <2>1, <2>2
<1>4. ASSUME Stamp PROVE InvBut'
  <2>1. /\ pc = "stamp" /\ pc' = "accept" /\ mtx = None /\ con_fd = got /\ got \in Fds
        /\ tm' = [tm EXCEPT ![got] = now] /\ UNCHANGED <<con_fd, tab>>
    BY <1>4 DEF Stamp, kernelVars, MainInv
  <2>2. \A h \in Handlers : timer[h].at \notin {"scan", "clear"} /\ mtx # h
    BY <2>1 DEF TimerInv
  <2>3. TypeOK'
    BY <1>0, <2>1, SMTT(30) DEF TypeOK
  <2>4. TimerInv' /\ MainInv' /\ LatestInv'
    BY <1>0, <2>1, <2>2 DEF TimerInv, MainInv, LatestInv
  <2>5. TimesInv'
    BY <1>0, <2>1, <2>2, <2>3, SMTT(30) DEF TypeOK, MainInv, TimesInv, TimesAt, Clearing
  <2> QED BY <2>3, <2>4, <2>5
<1>5. LoadedInv'
  <2>1. \A i \in Fds : tab'[i] \in {tab[i], None}
    BY SMTT(30) DEF AcceptFails, Store, CloseExcess, Stamp, kernelVars, TypeOK
  <2> QED BY <1>0, <2>1, LoadedLater, SMTT(30) DEF TypeOK
<1> QED BY <1>1, <1>2, <1>3, <1>4, <1>5

(* The steps of a timer handler. What it closes is aged, and never the     *)
(* descriptor that main has accepted and not yet stamped.                  *)
LEMMA TimerStep ==
  ASSUME Inv, NEW h \in Handlers, Timer(h)
  PROVE  Inv'
<1> USE ServerAssumption DEF Inv, Fds
<1>0. UNCHANGED <<pc, got, con_fd, reader, since, accepted, now>>
  BY DEF Timer, TimerFires, TimerLock, TimerScan, TimerClear, TimerUnlock, mainVars, kernelVars
<1>1. timer[h] \in [at : Stages, now : Nat, i : Fds]
  BY DEF TypeOK
<1>2. ASSUME NEW r \in [at : Stages, now : Nat, i : Fds], timer' = [timer EXCEPT ![h] = r]
      PROVE  /\ timer' \in [Handlers -> [at : Stages, now : Nat, i : Fds]] /\ timer'[h] = r
             /\ \A g \in Handlers : g # h => timer'[g] = timer[g]
  BY <1>2 DEF TypeOK
<1> DEFINE InvBut == TypeOK /\ TimerInv /\ MainInv /\ TimesInv /\ LatestInv
<1>3. ASSUME TimerFires(h) PROVE InvBut'
  <2> DEFINE r == [at |-> "lock", now |-> now, i |-> 1]
  <2>1. timer' = [timer EXCEPT ![h] = r] /\ timer[h].at = "idle" /\ UNCHANGED <<tm, mtx, tab>>
    BY <1>3 DEF TimerFires, kernelVars
  <2>2. r \in [at : Stages, now : Nat, i : Fds] /\ r.at = "lock" /\ r.now = now
    BY DEF TypeOK, Stages
  <2> HIDE DEF r
  <2>3. /\ timer' \in [Handlers -> [at : Stages, now : Nat, i : Fds]]
        /\ timer'[h] = r /\ \A g \in Handlers : g # h => timer'[g] = timer[g]
    BY <1>2, <2>1, <2>2, Zenon
  <2>4. \A g \in Handlers, j \in Fds : Clearing(g, j)' <=> Clearing(g, j)
    BY <2>1, <2>2, <2>3 DEF Clearing
  <2>5. TypeOK' /\ TimerInv'
    <3>1. TypeOK'
      BY <1>0, <2>1, <2>3, SMTT(30) DEF TypeOK
    <3>2. now \in Nat
      BY DEF TypeOK
    <3>3. TimerInv'
      BY <1>0, <2>1, <2>2, <2>3, <3>2 DEF TimerInv
    <3> QED BY <3>1, <3>3
  <2>6. MainInv' /\ TimesInv' /\ LatestInv'
    BY <1>0, <2>1, <2>4 DEF MainInv, TimesInv, TimesAt, LatestInv
  <2> QED BY <2>5, <2>6
<1>4. ASSUME TimerLock(h) PROVE InvBut'
  <2> DEFINE r == [timer[h] EXCEPT !.at = "scan"]
  <2>1. /\ timer' = [timer EXCEPT ![h] = r] /\ timer[h].at = "lock"
        /\ mtx = None /\ mtx' = h /\ UNCHANGED <<tm, tab>>
    BY <1>4 DEF TimerLock, kernelVars
  <2>2. r \in [at : Stages, now : Nat, i : Fds] /\ r.at = "scan" /\ r.now = timer[h].now
    BY <1>1 DEF Stages
  <2> HIDE DEF r
  <2>3. /\ timer' \in [Handlers -> [at : Stages, now : Nat, i : Fds]]
        /\ timer'[h] = r /\ \A g \in Handlers : g # h => timer'[g] = timer[g]
    BY <1>2, <2>1, <2>2, Zenon
  <2>4. \A g \in Handlers : timer[g].at \notin {"scan", "clear"}
    BY <2>1 DEF TimerInv
  <2>5. \A g \in Handlers, j \in Fds : ~Clearing(g, j) /\ ~Clearing(g, j)'
    BY <2>1, <2>2, <2>3, <2>4 DEF Clearing
  <2>6. TypeOK' /\ TimerInv'
    BY <1>0, <2>1, <2>2, <2>3, <2>4, Zenon DEF TypeOK, TimerInv
  <2>7. MainInv' /\ TimesInv' /\ LatestInv'
    BY <1>0, <2>1, <2>5 DEF MainInv, TimesInv, TimesAt, LatestInv
  <2> QED BY <2>6, <2>7
<1>5. ASSUME TimerScan(h) /\ Aged(h, timer[h].i) /\ tab[timer[h].i] # None PROVE InvBut'
  <2> DEFINE r == [timer[h] EXCEPT !.at = "clear"]
             i == timer[h].i
  <2>1. /\ timer' = [timer EXCEPT ![h] = r] /\ timer[h].at = "scan" /\ i \in Fds /\ i <= MaxFd
        /\ tm[i] > 0 /\ tab' = [tab EXCEPT ![i] = None] /\ UNCHANGED <<tm, mtx>>
    BY <1>1, <1>5 DEF TimerScan, Aged
  <2>2. /\ r \in [at : Stages, now : Nat, i : Fds]
        /\ r.at = "clear" /\ r.now = timer[h].now /\ r.i = i
    BY <1>1 DEF Stages
  <2> HIDE DEF r, i
  <2>3. /\ timer' \in [Handlers -> [at : Stages, now : Nat, i : Fds]]
        /\ timer'[h] = r /\ \A g \in Handlers : g # h => timer'[g] = timer[g]
    BY <1>2, <2>1, <2>2, Zenon
  <2>4. mtx = h
    BY <2>1 DEF TimerInv
  <2>5. \A g \in Handlers, j \in Fds : ~Clearing(g, j) /\ (Clearing(g, j)' <=> g = h /\ j = i)
    BY <2>1, <2>2, <2>3, <2>4 DEF Clearing
  <2>6. TypeOK' /\ TimerInv'
    BY <1>0, <2>1, <2>2, <2>3, <2>4, Zenon DEF TypeOK, TimerInv
  <2>7. pc # "accept" => got # i
    BY <2>1, <2>5 DEF MainInv
  <2>8. MainInv' /\ LatestInv'
    BY <1>0, <2>1, <2>5, <2>7, Zenon DEF MainInv, LatestInv, TypeOK
  <2>9. TimesInv'
    BY <1>0, <2>1, <2>5, <2>7, ZenonT(60) DEF TimesInv, TimesAt, TypeOK
  <2> QED BY <2>6, <2>8, <2>9
<1>6. ASSUME TimerScan(h) /\ ~(Aged(h, timer[h].i) /\ tab[timer[h].i] # None) PROVE InvBut'
  <2> DEFINE r == [timer[h] EXCEPT !.i = timer[h].i + 1]
  <2>1. /\ timer' = [timer EXCEPT ![h] = r] /\ timer[h].at = "scan" /\ timer[h].i <= MaxFd
        /\ UNCHANGED <<tm, mtx, tab>>
    BY <1>6 DEF TimerScan
  <2>2. /\ r \in [at : Stages, now : Nat, i : Fds]
        /\ r.at = "scan" /\ r.now = timer[h].now
    BY <1>1, <2>1 DEF Stages
  <2> HIDE DEF r
  <2>3. /\ timer' \in [Handlers -> [at : Stages, now : Nat, i : Fds]]
        /\ timer'[h] = r /\ \A g \in Handlers : g # h => timer'[g] = timer[g]
    BY <1>2, <2>1, <2>2, Zenon
  <2>4. \A g \in Handlers, j \in Fds : Clearing(g, j)' <=> Clearing(g, j)
    BY <2>1, <2>2, <2>3 DEF Clearing
  <2>5. TypeOK' /\ TimerInv'
    BY <1>0, <2>1, <2>2, <2>3, Zenon DEF TypeOK, TimerInv
  <2>6. MainInv' /\ TimesInv' /\ LatestInv'
    BY <1>0, <2>1, <2>4 DEF MainInv, TimesInv, TimesAt, LatestInv
  <2> QED BY <2>5, <2>6
<1>7. ASSUME TimerClear(h) PROVE InvBut'
  <2> DEFINE r == [timer[h] EXCEPT !.at = "scan", !.i = timer[h].i + 1]
             i == timer[h].i
  <2>1. /\ timer' = [timer EXCEPT ![h] = r] /\ timer[h].at = "clear" /\ i \in Fds
        /\ i <= MaxFd /\ mtx = h
        /\ tm' = [tm EXCEPT ![i] = 0] /\ UNCHANGED <<tab, mtx>>
    BY <1>1, <1>7, Zenon DEF TimerClear, kernelVars, TimerInv
  <2>2. /\ r \in [at : Stages, now : Nat, i : Fds]
        /\ r.at = "scan" /\ r.now = timer[h].now
    <3>1. timer[h].i + 1 \in Fds /\ "scan" \in Stages
      BY <2>1 DEF Stages
    <3> QED BY <1>1, <3>1, Zenon
  <2> HIDE DEF r, i
  <2>3. /\ timer' \in [Handlers -> [at : Stages, now : Nat, i : Fds]]
        /\ timer'[h] = r /\ \A g \in Handlers : g # h => timer'[g] = timer[g]
    BY <1>2, <2>1, <2>2, Zenon
  <2>4. \A g \in Handlers, j \in Fds : ~Clearing(g, j)' /\ (Clearing(g, j) <=> g = h /\ j = i)
    BY <2>1, <2>2, <2>3 DEF Clearing, i
  <2>5. \A g \in Handlers : g # h => timer[g].at \notin {"scan", "clear"}
    BY <2>1 DEF TimerInv
  <2>6. TypeOK' /\ TimerInv'
    BY <1>0, <2>1, <2>2, <2>3, <2>5, Zenon DEF TypeOK, TimerInv
  <2>7. MainInv' /\ LatestInv'
    BY <1>0, <2>1, <2>4 DEF MainInv, LatestInv, TypeOK
  <2>8. TimesInv'
    <3> SUFFICES ASSUME NEW j \in Fds PROVE TimesAt(j)'
      BY DEF TimesInv
    <3>1. TimesAt(j) /\ \A g \in Handlers : ~Clearing(g, j)' /\ (Clearing(g, j) <=> g = h /\ j = i)
      BY <2>4 DEF TimesInv
    <3>2. tm'[j] = IF j = i THEN 0 ELSE tm[j]
      BY <2>1 DEF TypeOK
    <3>3. UNCHANGED <<tab, since, now, pc, got>>
      BY <1>0, <2>1
    <3> QED BY <3>1, <3>2, <3>3 DEF TimesAt
  <2> QED BY <2>6, <2>7, <2>8
<1>8. ASSUME TimerUnlock(h) PROVE InvBut'
  <2>1. /\ timer' = [timer EXCEPT ![h] = IdleTimer] /\ timer[h].at = "scan" /\ mtx = h
        /\ mtx' = None /\ UNCHANGED <<tm, tab>>
    BY <1>8 DEF TimerUnlock, kernelVars, TimerInv
  <2>2. /\ IdleTimer \in [at : Stages, now : Nat, i : Fds]
        /\ IdleTimer.at = "idle" /\ IdleTimer.now = 0
    BY DEF Stages, IdleTimer
  <2>3. /\ timer' \in [Handlers -> [at : Stages, now : Nat, i : Fds]]
        /\ timer'[h] = IdleTimer /\ \A g \in Handlers : g # h => timer'[g] = timer[g]
    BY <1>2, <2>1, <2>2, Zenon
  <2>4. \A g \in Handlers : g # h => timer[g].at \notin {"scan", "clear"}
    BY <2>1 DEF TimerInv
  <2>5. \A g \in Handlers, j \in Fds : ~Clearing(g, j) /\ ~Clearing(g, j)'
    BY <2>1, <2>2, <2>3, <2>4 DEF Clearing
  <2>6. TypeOK' /\ TimerInv'
    <3>1. TypeOK'
      BY <1>0, <2>1, <2>3, SMTT(30) DEF TypeOK
    <3>2. TimerInv'
      BY <1>0, <2>1, <2>2, <2>3, <2>4, SMTT(30) DEF TypeOK, TimerInv
    <3> QED BY <3>1, <3>2
  <2>7. MainInv' /\ TimesInv' /\ LatestInv'
    BY <1>0, <2>1, <2>5 DEF MainInv, TimesInv, TimesAt, LatestInv
  <2> QED BY <2>6, <2>7
<1>9. LoadedInv'
  <2>1. \A i \in Fds : tab'[i] \in {tab[i], None}
    BY <1>1, SMTT(30) DEF Timer, TimerFires, TimerLock, TimerScan, TimerClear, TimerUnlock, kernelVars, TypeOK
  <2> QED BY <1>0, <2>1, LoadedLater, SMTT(30) DEF TypeOK
<1> QED BY <1>3, <1>4, <1>5, <1>6, <1>7, <1>8, <1>9 DEF Timer

(* The readers and the clock touch nothing that the others rely on; what  *)
(* a reader loads is what LatestInv says of con_fd.                        *)
LEMMA ReaderStep ==
  ASSUME Inv, (\E r \in Readers : Reader(r)) \/ Tick \/ UNCHANGED vars
  PROVE  Inv'
<1>1. /\ UNCHANGED <<pc, got, con_fd, tm, mtx, timer, tab, since, accepted>>
      /\ now' \in {now, now + 1}
  BY DEF Reader, ReaderCheck, ReaderLoad, ReaderRead, ReaderReturn, Tick, vars, mainVars,
         timerVars, kernelVars
<1>2. reader' \in [Readers -> ReaderStates] /\ LoadedInv'
  <2>1. CASE UNCHANGED reader
    BY <1>1, <2>1 DEF Inv, TypeOK, LoadedInv, LoadedAt, Open
  <2>2. ASSUME NEW r \in Readers, NEW s \in ReaderStates, reader' = [reader EXCEPT ![r] = s],
               s.seen <= accepted,
               s.at = "call" /\ Open(s.fd) => tab[s.fd] >= s.seen
        PROVE  reader' \in [Readers -> ReaderStates] /\ LoadedInv'
    <3>1. reader' \in [Readers -> ReaderStates]
      BY <2>2 DEF Inv, TypeOK
    <3>2. ASSUME NEW q \in Readers PROVE LoadedAt(q)'
      <4>1. CASE q = r
        BY <1>1, <2>2, <4>1 DEF Inv, TypeOK, LoadedAt, Open
      <4>2. CASE q # r
        BY <1>1, <2>2, <4>2 DEF Inv, TypeOK, LoadedInv, LoadedAt, Open
      <4> QED BY <4>1, <4>2
    <3> QED BY <3>1, <3>2 DEF LoadedInv
  <2>3. ASSUME NEW r \in Readers, NEW st \in {"check", "sleep", "read"},
               reader' = [reader EXCEPT ![r] = ReaderAt(st)]
        PROVE  reader' \in [Readers -> ReaderStates] /\ LoadedInv'
    <3>1. ReaderAt(st) \in ReaderStates /\ ReaderAt(st).at = st /\ ReaderAt(st).seen = 0
      BY DEF ReaderAt, ReaderStates
    <3>2. accepted >= 0
      BY DEF Inv, TypeOK
    <3> QED BY <2>2, <2>3, <3>1, <3>2, Zenon
  <2>4. ASSUME NEW r \in Readers, ReaderLoad(r)
        PROVE  reader' \in [Readers -> ReaderStates] /\ LoadedInv'
    <3> DEFINE s == [at |-> "call", fd |-> con_fd, seen |-> LastStored]
    <3>1. reader' = [reader EXCEPT ![r] = s]
      BY <2>4 DEF ReaderLoad
    <3>2. s \in ReaderStates /\ s.seen <= accepted /\ s.fd = con_fd /\ s.seen = LastStored
      BY ServerAssumption DEF Inv, TypeOK, ReaderStates, LastStored, Fds
    <3>3. Open(con_fd) => tab[con_fd] >= LastStored
      BY DEF Inv, TypeOK, LatestInv, LastStored, Open
    <3> HIDE DEF s
    <3> QED BY <2>2, <3>1, <3>2, <3>3, Zenon
  <2> QED BY <2>1, <2>3, <2>4 DEF Reader, ReaderCheck, ReaderRead, ReaderReturn, Tick, vars
<1>3. \A h \in Handlers, j \in Fds : Clearing(h, j)' <=> Clearing(h, j)
  BY <1>1 DEF Clearing
<1>4. TypeOK'
  BY <1>1, <1>2 DEF Inv, TypeOK
<1>5. TimerInv'
  BY <1>1 DEF Inv, TimerInv, TypeOK
<1>6. MainInv' /\ LatestInv'
  BY <1>1, <1>3 DEF Inv, MainInv, LatestInv
<1>7. TimesInv'
  BY <1>1, <1>3 DEF Inv, TimesInv, TimesAt, TypeOK
<1> QED BY <1>2, <1>4, <1>5, <1>6, <1>7 DEF Inv

-----------------------------------------------------------------------------
LEMMA Initially ==
  ASSUME Init
  PROVE  Inv
BY ServerAssumption DEF Init, Inv, TypeOK, TimerInv, MainInv, TimesInv, TimesAt, LatestInv, LoadedInv,
                        LoadedAt, Fds, Stages, ReaderStates, IdleTimer, ReaderAt, Clearing

(* Inv holds in every state, whatever main, the handlers and the readers   *)
(* interleave.                                                             *)
THEOREM Invariant == Spec => []Inv
<1>1. Inv /\ [Next]_vars => Inv'
  BY AcceptStep, MainStep, TimerStep, ReaderStep DEF Next, Main
<1> QED BY Initially, <1>1, PTL DEF Spec

(* fds[].tm tells the truth about the descriptors, although accept runs    *)
(* outside the mutex (TimesTracked).                                       *)
THEOREM TimesAreTracked == Spec => []TimesTracked
<1>1. Inv => TimesTracked
  BY DEF Inv, TimesInv, TimesAt, TimesTracked, Clearing
<1> QED BY Invariant, <1>1, PTL

(* timer_handler closes only what was accepted more than FD_AGE ago, never *)
(* a new connection with the number of an old one (ClosesAged).            *)
THEOREM OnlyAgedClosed == Spec => ClosesAged
<1>1. ASSUME Inv, [Next]_vars, NEW i \in 1 .. MaxFd, tab[i] # None, tab'[i] = None
      PROVE  since[i] + FdAge < now
  <2> USE ServerAssumption DEF Fds
  <2>1. CASE Accept
    BY <1>1, <2>1 DEF Accept, Inv, TypeOK, Free
  <2>2. CASE CloseExcess
    BY <1>1, <2>2 DEF CloseExcess, Inv, TypeOK, MainInv
  <2>3. ASSUME NEW h \in Handlers, TimerScan(h)
        PROVE  since[i] + FdAge < now
    <3>1. /\ i = timer[h].i /\ timer[h].at = "scan" /\ tm[i] > 0 /\ tm[i] + FdAge < timer[h].now
      <4>1. Aged(h, timer[h].i) /\ tab' = [tab EXCEPT ![timer[h].i] = None]
        BY <1>1, <2>3 DEF TimerScan
      <4>2. i = timer[h].i
        BY <1>1, <4>1 DEF Inv, TypeOK
      <4> QED BY <2>3, <4>1, <4>2 DEF TimerScan, Aged
    <3>2. \A g \in Handlers : ~Clearing(g, i)
      BY <1>1, <3>1 DEF Inv, TimerInv, Clearing
    <3>3. since[i] <= tm[i] /\ timer[h].now <= now
      BY <1>1, <3>1, <3>2 DEF Inv, TimesInv, TimesAt, TimerInv
    <3>4. since[i] \in Nat /\ tm[i] \in Nat /\ timer[h].now \in Nat /\ now \in Nat
      BY <1>1 DEF Inv, TypeOK
    <3> QED BY <3>1, <3>3, <3>4
  <2>4. CASE UNCHANGED tab
    BY <1>1, <2>4
  <2> QED
    BY <1>1, <2>1, <2>2, <2>3, <2>4, Zenon
    DEF Next, Main, AcceptFails, Store, Stamp, Timer, TimerFires, TimerLock, TimerClear,
        TimerUnlock, Reader, ReaderCheck, ReaderLoad, ReaderRead, ReaderReturn, Tick, vars, kernelVars
<1>2. Inv /\ [Next]_vars =>
        [\A i \in 1 .. MaxFd : tab[i] # None /\ tab'[i] = None => since[i] + FdAge < now]_vars
  BY <1>1
<1> QED BY Invariant, <1>2, PTL DEF Spec, ClosesAged

(* A reader that has loaded con_fd never reads from an older connection    *)
(* than main had stored last by then, however often the number was closed  *)
(* and given out again before the read (ReadsNoOlder).                     *)
THEOREM NoOlderIsRead == Spec => ReadsNoOlder
<1>1. ASSUME Inv, [Next]_vars, NEW r \in Readers,
             reader[r].at = "call", reader'[r].at = "read"
      PROVE  tab[reader[r].fd] >= reader[r].seen
  <2>1. PICK q \in Readers : Reader(q)
    BY <1>1, Zenon DEF Next, Main, Accept, AcceptFails, Store, CloseExcess, Stamp, Timer, TimerFires,
                TimerLock, TimerScan, TimerClear, TimerUnlock, Tick, vars
  <2>2. q = r /\ ReaderRead(r)
    BY <1>1, <2>1 DEF Reader, ReaderCheck, ReaderLoad, ReaderRead, ReaderReturn, ReaderAt, Inv, TypeOK
  <2>3. Open(reader[r].fd)
    BY <1>1, <2>2 DEF ReaderRead, ReaderAt, Inv, TypeOK
  <2> QED BY <1>1, <2>3 DEF Inv, LoadedInv, LoadedAt
<1>2. Inv /\ [Next]_vars =>
        [\A r \in Readers : reader[r].at = "call" /\ reader'[r].at = "read" =>
           tab[reader[r].fd] >= reader[r].seen]_vars
  BY <1>1
<1> QED BY Invariant, <1>2, PTL DEF Spec, ReadsNoOlder
=============================================================================
