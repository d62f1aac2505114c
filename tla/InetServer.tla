----------------------------- MODULE InetServer -----------------------------
(***************************************************************************)
(* network/tcp/inet_server.c: main accepts connections into con_fd, two    *)
(* threads read from con_fd, and a timer closes every descriptor that was  *)
(* accepted more than FD_AGE seconds ago. fds[].tm is guarded by mtx;      *)
(* con_fd, accept and read are not.                                        *)
(*                                                                         *)
(* tab is the kernel's table of descriptors. When a read returns is up to  *)
(* the client, and what it gives is only printed. An operator Bad... is a  *)
(* mistake the code does not make.                                         *)
(***************************************************************************)
EXTENDS Integers

CONSTANTS MaxFd,     \* MAX_FD; descriptors 1 .. MaxFd + 1 are free at first
          FdAge,     \* FD_AGE
          Readers,   \* threads in read_task
          Handlers,  \* threads that run timer_handler, which may overlap
          None,
          MaxConn,   \* bound: connections that are accepted
          MaxTime    \* bound: the clock stops here

Fds == 1 .. MaxFd + 1
Conns == 1 .. MaxConn

ASSUME ServerAssumption ==
  /\ MaxFd \in Nat \ {0} /\ FdAge \in Nat /\ MaxConn \in Nat /\ MaxTime \in Nat
  /\ None \notin Handlers \cup Int

VARIABLES pc,       \* main: "accept", "store" after accept, "stamp"
          got,      \* what accept returned
          con_fd,
          tm,       \* fds[].tm
          mtx,      \* the handler that holds the mutex, or None
          timer,    \* per handler: where it is, its now, its i
          reader,   \* per reader: where it is, the con_fd it has loaded, and the
                    \*   connection that main had stored last by then (history)
          tab, since, accepted,  \* descriptors, when they were accepted, how many were
          now

mainVars == <<pc, got, con_fd>>
timerVars == <<mtx, timer>>
kernelVars == <<tab, since, accepted>>
vars == <<mainVars, tm, timerVars, reader, kernelVars, now>>

IdleTimer == [at |-> "idle", now |-> 0, i |-> 1]
ReaderAt(stage) == [at |-> stage, fd |-> 0, seen |-> 0]

Init ==
  /\ pc = "accept" /\ got = 0 /\ con_fd = 0
  /\ tm = [i \in Fds |-> 0]
  /\ mtx = None
  /\ timer = [h \in Handlers |-> IdleTimer]
  /\ reader = [r \in Readers |-> ReaderAt("check")]
  /\ tab = [i \in Fds |-> None] /\ since = [i \in Fds |-> 0] /\ accepted = 0
  /\ now = 1

-----------------------------------------------------------------------------
Free == {i \in Fds : tab[i] = None}

(* accept gives the lowest free descriptor. *)
Accept ==
  /\ pc = "accept" /\ accepted < MaxConn
  /\ \E i \in Free :
       /\ \A j \in Free : i <= j
       /\ got' = i
       /\ tab' = [tab EXCEPT ![i] = accepted + 1]
       /\ since' = [since EXCEPT ![i] = now]
  /\ accepted' = accepted + 1
  /\ pc' = "store"
  /\ UNCHANGED <<con_fd, tm, timerVars, reader, now>>

AcceptFails ==
  /\ pc = "accept"
  /\ con_fd' = -1
  /\ UNCHANGED <<pc, got, tm, timerVars, reader, kernelVars, now>>

BadStore ==
  /\ pc = "store"
  /\ con_fd' = IF got > MaxFd THEN con_fd ELSE got
  /\ pc' = IF got > MaxFd THEN "close" ELSE "stamp"
  /\ UNCHANGED <<got, tm, timerVars, reader, kernelVars, now>>

(* con_fd takes the result, and one above MAX_FD goes on to be closed. *)
Store ==
  /\ pc = "store"
  /\ con_fd' = got
  /\ pc' = IF got > MaxFd THEN "close" ELSE "stamp"
  /\ UNCHANGED <<got, tm, timerVars, reader, kernelVars, now>>

CloseExcess ==
  /\ pc = "close"
  /\ tab' = [tab EXCEPT ![con_fd] = None]
  /\ pc' = "accept"
  /\ UNCHANGED <<got, con_fd, tm, timerVars, reader, since, accepted, now>>

BadStamp ==
  /\ pc = "stamp"
  /\ tm' = [tm EXCEPT ![con_fd] = now]
  /\ pc' = "accept"
  /\ UNCHANGED <<got, con_fd, timerVars, reader, kernelVars, now>>

(* The locked block of main. *)
Stamp ==
  /\ pc = "stamp" /\ mtx = None
  /\ tm' = [tm EXCEPT ![con_fd] = now]
  /\ pc' = "accept"
  /\ UNCHANGED <<got, con_fd, timerVars, reader, kernelVars, now>>

-----------------------------------------------------------------------------
(* timer_handler reads the clock before it has the mutex. *)
TimerFires(h) ==
  /\ timer[h].at = "idle"
  /\ timer' = [timer EXCEPT ![h] = [at |-> "lock", now |-> now, i |-> 1]]
  /\ UNCHANGED <<mainVars, tm, mtx, reader, kernelVars, now>>

TimerLock(h) ==
  /\ timer[h].at = "lock" /\ mtx = None
  /\ mtx' = h
  /\ timer' = [timer EXCEPT ![h].at = "scan"]
  /\ UNCHANGED <<mainVars, tm, reader, kernelVars, now>>

BadAged(h, i) == tm[i] + FdAge < timer[h].now

Aged(h, i) == tm[i] > 0 /\ tm[i] + FdAge < timer[h].now

(* One turn of the loop, up to close; a failed close leaves tm. *)
TimerScan(h) ==
  LET i == timer[h].i IN
  /\ timer[h].at = "scan" /\ i <= MaxFd
  /\ IF Aged(h, i) /\ tab[i] # None
     THEN /\ tab' = [tab EXCEPT ![i] = None]
          /\ timer' = [timer EXCEPT ![h].at = "clear"]
     ELSE /\ timer' = [timer EXCEPT ![h].i = i + 1]
          /\ UNCHANGED tab
  /\ UNCHANGED <<mainVars, tm, mtx, reader, since, accepted, now>>

TimerClear(h) ==
  /\ timer[h].at = "clear"
  /\ tm' = [tm EXCEPT ![timer[h].i] = 0]
  /\ timer' = [timer EXCEPT ![h].at = "scan", ![h].i = @ + 1]
  /\ UNCHANGED <<mainVars, mtx, reader, kernelVars, now>>

BadTimerUnlock(h) ==
  /\ timer[h].at = "scan" /\ timer[h].i > MaxFd
  /\ timer' = [timer EXCEPT ![h] = IdleTimer]
  /\ UNCHANGED <<mainVars, tm, mtx, reader, kernelVars, now>>

TimerUnlock(h) ==
  /\ timer[h].at = "scan" /\ timer[h].i > MaxFd
  /\ mtx' = None
  /\ timer' = [timer EXCEPT ![h] = IdleTimer]
  /\ UNCHANGED <<mainVars, tm, reader, kernelVars, now>>

-----------------------------------------------------------------------------
(* read_task: the test of con_fd, after the sleep the load of what con_fd  *)
(* is by then, and the read of that number, which fails if it is not open. *)
(* Neither the test nor the load is locked: main and the timer may take    *)
(* any number of steps before the kernel looks the number up.              *)
ReaderCheck(r) ==
  /\ reader[r].at = "check" /\ con_fd > 0
  /\ reader' = [reader EXCEPT ![r] = ReaderAt("sleep")]
  /\ UNCHANGED <<mainVars, tm, timerVars, kernelVars, now>>

LastStored == IF pc = "store" THEN accepted - 1 ELSE accepted

ReaderLoad(r) ==
  /\ reader[r].at = "sleep"
  /\ reader' = [reader EXCEPT ![r] = [at |-> "call", fd |-> con_fd, seen |-> LastStored]]
  /\ UNCHANGED <<mainVars, tm, timerVars, kernelVars, now>>

Open(fd) == fd \in Fds /\ tab[fd] # None

ReaderRead(r) ==
  /\ reader[r].at = "call"
  /\ reader' = [reader EXCEPT ![r] = ReaderAt(IF Open(reader[r].fd) THEN "read" ELSE "check")]
  /\ UNCHANGED <<mainVars, tm, timerVars, kernelVars, now>>

ReaderReturn(r) ==
  /\ reader[r].at = "read"
  /\ reader' = [reader EXCEPT ![r] = ReaderAt("check")]
  /\ UNCHANGED <<mainVars, tm, timerVars, kernelVars, now>>

-----------------------------------------------------------------------------
Tick ==
  /\ now < MaxTime
  /\ now' = now + 1
  /\ UNCHANGED <<mainVars, tm, timerVars, reader, kernelVars>>

Main == Accept \/ AcceptFails \/ Store \/ CloseExcess \/ Stamp
Timer(h) == TimerFires(h) \/ TimerLock(h) \/ TimerScan(h) \/ TimerClear(h) \/ TimerUnlock(h)
Reader(r) == ReaderCheck(r) \/ ReaderLoad(r) \/ ReaderRead(r) \/ ReaderReturn(r)

Next ==
  \/ Main
  \/ \E h \in Handlers : Timer(h)
  \/ \E r \in Readers : Reader(r)
  \/ Tick

Spec == Init /\ [][Next]_vars

(* The interval timer keeps firing, threads that can go on do, the mutex   *)
(* is not withheld from main for ever, and time passes. Clients owe        *)
(* nothing.                                                                *)
FairSpec ==
  /\ Spec
  /\ WF_vars(Store) /\ WF_vars(CloseExcess) /\ SF_vars(Stamp)
  /\ \A h \in Handlers :
       /\ WF_vars(TimerFires(h)) /\ SF_vars(TimerLock(h))
       /\ WF_vars(TimerScan(h) \/ TimerClear(h) \/ TimerUnlock(h))
  /\ WF_vars(Tick)

-----------------------------------------------------------------------------
(* fds[].tm tells the truth about the descriptors although accept runs     *)
(* outside the mutex: a time stands only at an open descriptor (except     *)
(* between close and the assignment after it), and an open descriptor has  *)
(* a time unless main is about to write it, or to close it as too large.   *)
TimesTracked ==
  \A i \in Fds :
    /\ tm[i] > 0 =>
         \/ tab[i] # None
         \/ \E h \in Handlers : mtx = h /\ timer[h].at = "clear" /\ timer[h].i = i
    /\ tab[i] # None /\ tm[i] = 0 => pc # "accept" /\ got = i

(* The timer closes only what was accepted more than FD_AGE ago, never a   *)
(* new connection that took over the number of an aged one.                *)
ClosesAged ==
  [][\A i \in 1 .. MaxFd :
       tab[i] # None /\ tab'[i] = None => since[i] + FdAge < now]_vars

(* Every connection is closed in the end, unless its age comes after the   *)
(* bound of the clock: no descriptor leaks, whatever main and the readers  *)
(* are doing.                                                              *)
Reaped ==
  \A i \in Fds : \A c \in Conns :
    tab[i] = c ~> (tab[i] # c \/ tm[i] + FdAge >= MaxTime)

(* Numbers of descriptors are reused, and con_fd is loaded long before the *)
(* kernel reads from it: a read may then be from another connection than   *)
(* the one con_fd stood for, but never from an older one than main had     *)
(* stored last when it was loaded.                                         *)
ReadsNoOlder ==
  [][\A r \in Readers :
       reader[r].at = "call" /\ reader'[r].at = "read" =>
         tab[reader[r].fd] >= reader[r].seen]_vars
=============================================================================
