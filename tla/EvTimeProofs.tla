---------------------------- MODULE EvTimeProofs ----------------------------
(***************************************************************************)
(* Theorems about the deadlines of EvLoop (how long the loop sleeps, which *)
(* timers it calls, in which order, and when it arms them again) and about *)
(* its epoll set, on top of the invariant of EvLoopProofs.                 *)
(***************************************************************************)
EXTENDS EvLoopProofs

(* The inductive invariant for the deadlines. No event has timed out       *)
(* before event_process_timeout starts; what that has left to visit is     *)
(* just the time tree, and is due no earlier than what it has queued.      *)
DueInv ==
  /\ Queue(m.evt_active, m.res, m.evt_timeout, now)
  /\ pc = "dispatch" =>
       \A x \in Events : In(x, m.evt_active) => "TIMEOUT" \notin m.res[x]
  /\ pc = "timeout" =>
       /\ tnow <= now
       /\ walk = m.evt_time
       /\ \A x, y \in Events :
            In(x, m.evt_active) /\ m.res[x] = {"TIMEOUT"} /\ In(y, walk) =>
              m.evt_timeout[x] <= m.evt_timeout[y]

-----------------------------------------------------------------------------
(* How long the loop sleeps.                                               *)

LEMMA Division ==
  ASSUME NEW a \in Nat, NEW t \in Nat \ {0}
  PROVE  /\ a \div t \in Nat
         /\ (a \div t) * t <= a /\ a < (a \div t) * t + t
         /\ (a \div t + 1) * t = (a \div t) * t + t
<1> DEFINE q == a \div t
           r == a % t
<1>1. q \in Nat /\ r \in 0 .. t - 1 /\ a = t * q + r
  OBVIOUS
<1> HIDE DEF q, r
<1>2. t * q \in Nat /\ t * q = q * t
  BY <1>1
<1>3. (q + 1) * t = q * t + t
  BY <1>1
<1> QED BY <1>1, <1>2, <1>3 DEF q

LEMMA Monotone ==
  ASSUME NEW a \in Int, NEW b \in Int, a <= b, NEW t \in Nat
  PROVE  a * t <= b * t
<1>1. (b - a) * t \in Nat
  OBVIOUS
<1>2. b * t = a * t + (b - a) * t
  OBVIOUS
<1>3. a * t \in Int /\ b * t \in Int
  OBVIOUS
<1> QED BY <1>1, <1>2, <1>3

(* event_next_timeout, rounded up to a millisecond and cut to an s32. *)
LEMMA WaitStep ==
  ASSUME LoopInv, LoopWait, m.evt_time # <<>>,
         NEW d, d = m.evt_timeout[Head(m.evt_time)]
  PROVE  /\ d - now < S32Max * TicksPerMs => wake' # NoWake /\ wake' >= d
         /\ wake' <= d + TicksPerMs \/ wake' <= now
<1> DEFINE w == event_next_timeout(m, now)
<1>1. wake' = IF w < 0 THEN NoWake ELSE now + w * TicksPerMs
  BY DEF LoopWait
<1>2. now \in Nat /\ TicksPerMs \in Nat \ {0} /\ S32Max \in Nat
  BY BaseAssumption, LoopAssumption DEF LoopInv, TypeOK
<1>3. d \in Nat
  <2>1. m.evt_time \in Seq(Events) /\ m.evt_timeout \in [Events -> Nat]
    BY LoopFields
  <2>2. Head(m.evt_time) \in Events
    BY <2>1
  <2> QED BY <2>1, <2>2
<1>4. w = IF d <= now THEN 0 ELSE S32((d - now) \div TicksPerMs + 1)
  BY DEF event_next_timeout
<1> HIDE DEF w
<1>5. CASE d <= now
  <2>1. w = 0 /\ w * TicksPerMs = 0
    BY <1>2, <1>4, <1>5, SMTT(30)
  <2> QED BY <1>1, <1>2, <1>3, <1>5, <2>1, SMTT(30) DEF NoWake
<1>6. CASE ~(d <= now)
  <2> DEFINE a == d - now
             q == a \div TicksPerMs
             p == q * TicksPerMs
  <2>1. a \in Nat
    BY <1>2, <1>3, <1>6
  <2> HIDE DEF a
  <2>2. /\ q \in Nat /\ p <= a /\ a < p + TicksPerMs
        /\ (q + 1) * TicksPerMs = p + TicksPerMs
    BY <1>2, <2>1, Division, SMTT(30)
  <2>3. w = S32(q + 1)
    BY <1>4, <1>6 DEF a
  <2>4. p \in Nat
    BY <1>2, <2>2
  <2> HIDE DEF q
  <2>5. w \in Int /\ w <= q + 1 /\ (q + 1 <= S32Max => w = q + 1)
    BY <2>2, <2>3, S32Is
  <2>6. w * TicksPerMs <= p + TicksPerMs
    BY <1>2, <2>2, <2>5, Monotone, SMTT(30)
  <2>7. a < S32Max * TicksPerMs => q + 1 <= S32Max
    <3>1. S32Max <= q => S32Max * TicksPerMs <= p
      BY <1>2, <2>2, Monotone
    <3>2. S32Max * TicksPerMs \in Nat
      BY <1>2
    <3> QED BY <1>2, <2>1, <2>2, <2>4, <3>1, <3>2, SMTT(30)
  <2>8. w * TicksPerMs \in Int
    BY <1>2, <2>5
  <2> DEFINE wt == w * TicksPerMs
  <2>9. a < S32Max * TicksPerMs => w >= 0 /\ wt = p + TicksPerMs
    BY <2>2, <2>5, <2>7, SMTT(30)
  <2>10. wake' = IF w < 0 THEN NoWake ELSE now + wt
    BY <1>1
  <2> HIDE DEF p, wt
  <2>11. wt \in Int /\ wt <= p + TicksPerMs
    BY <2>6, <2>8 DEF wt
  <2>12. d = now + a
    BY <1>2, <1>3 DEF a
  <2>13. ASSUME a < S32Max * TicksPerMs PROVE wake' # NoWake /\ wake' >= d
    <3>1. wake' = now + (p + TicksPerMs)
      BY <1>2, <2>5, <2>9, <2>10, <2>13, SMTT(30)
    <3> QED BY <1>2, <2>1, <2>2, <2>4, <2>12, <3>1, SMTT(30) DEF NoWake
  <2>14. wake' <= d + TicksPerMs \/ wake' <= now
    BY <1>2, <2>1, <2>2, <2>4, <2>5, <2>10, <2>11, <2>12, SMTT(30) DEF NoWake
  <2> QED BY <2>13, <2>14 DEF a
<1> QED BY <1>5, <1>6

(* No other step enters epoll_wait. *)
LEMMA OnlyLoopWait ==
  ASSUME Next, ~LoopWait, pc' = "wait"
  PROVE  pc = "wait"
<1>1. CASE Client
  <2>1. (pc' = pc /\ ClientRuns) \/ pc' \in {"idle", "free", "top"}
    <3>1. CASE BaseNew \/ BaseFree \/ LoopEnter
      BY <3>1 DEF BaseNew, BaseFree, LoopEnter
    <3>2. ASSUME NEW e \in Events,
                 EventNew(e) \/ EventAssign(e) \/ EventAdd(e) \/ EventDel(e) \/ EventFree(e)
          PROVE  pc' = pc /\ ClientRuns
      BY <3>2, Zenon DEF EventNew, EventAssign, EventAdd, EventDel, EventFree, MayTouch
    <3>3. ASSUME NEW f \in Fds, CloseFd(f) \/ OpenFd(f)
          PROVE  pc' = pc /\ ClientRuns
      BY <3>3, Zenon DEF CloseFd, OpenFd
    <3> QED BY <1>1, <3>1, <3>2, <3>3, SMTT(30) DEF Client
  <2> QED BY <2>1 DEF ClientRuns
<1>2. CASE FreeStep
  BY <1>2, Zenon DEF FreeStep, BaseFreeMap, BaseFreeTimers, BaseFreeDone
<1>3. CASE LoopStep
  <2>1. CASE LoopExit \/ EpollTimeout \/ TimeoutBegin \/ ActiveBegin \/ CallbackReturn
             \/ ActiveDone
    BY <2>1, Zenon DEF LoopExit, EpollTimeout, TimeoutBegin, ActiveBegin, CallbackReturn,
                       ActiveDone
  <2>2. CASE (\E f \in Fds : DispatchFd(f)) \/ MapActive \/ ProcessTimeout \/ ProcessActive
    BY <2>2, Zenon DEF DispatchFd, MapActive, ProcessTimeout, ProcessActive
  <2> QED BY <1>3, <2>1, <2>2, SMTT(30) DEF LoopStep
<1>4. CASE EpollReady \/ EpollError
  BY <1>4, Zenon DEF EpollReady, EpollError
<1>5. CASE Tick
  BY <1>5 DEF Tick, locals
<1> QED BY <1>1, <1>2, <1>3, <1>4, <1>5, SMTT(30) DEF Next

(* The loop sleeps until its first deadline has passed, if that is within  *)
(* the reach of an s32, and in no case more than a millisecond longer,     *)
(* unless for ever: by the rounding and the conversion of                  *)
(* event_next_timeout (WaitExact).                                         *)
THEOREM SleepsLongEnough ==
  ASSUME OthersOps \subseteq {"add"}
  PROVE  Spec => WaitExact
<1> DEFINE Exact ==
       pc = "top" /\ pc' = "wait" /\ m.evt_time # <<>> =>
         LET deadline == m.evt_timeout[Head(m.evt_time)]
         IN  /\ deadline - now < S32Max * TicksPerMs => wake' # NoWake /\ wake' >= deadline
             /\ wake' <= deadline + TicksPerMs \/ wake' <= now
<1>1. LoopInv /\ [Next]_vars => [Exact]_vars
  <2> SUFFICES ASSUME LoopInv, Next, pc = "top", pc' = "wait", m.evt_time # <<>>
               PROVE  Exact
    BY Zenon
  <2>1. LoopWait
    BY OnlyLoopWait, SMTT(30)
  <2> QED BY <2>1, WaitStep, Zenon
<1>2. WaitExact <=> [][Exact]_vars
  BY DEF WaitExact
<1> HIDE DEF Exact
<1> QED BY <1>1, <1>2, LoopInvariant, PTL DEF Spec

-----------------------------------------------------------------------------
(* The steps keep the deadlines in order.                                  *)

(* The types that the proofs of this section need. *)
LEMMA Typed ==
  ASSUME LoopInv
  PROVE  /\ m \in Mem /\ Agree(m) /\ now \in Nat
         /\ m.evt_active \in Seq(Events) /\ IsInjective(m.evt_active)
         /\ m.evt_time \in Seq(Events) /\ IsInjective(m.evt_time)
         /\ m.evt_timeout \in [Events -> Nat]
         /\ \A e \in Events : "ACTIVE" \in m.flags[e] <=> In(e, m.evt_active)
         /\ \A e \in Events : "TIMEOUT" \in m.flags[e] <=> In(e, m.evt_time)
<1>1. m \in Mem /\ Agree(m)
  BY DEF LoopInv, TypeOK
<1>2. now \in Nat
  BY LoopAssumption, SMTT(30) DEF LoopInv, TypeOK
<1>3. /\ m.evt_active \in Seq(Events) /\ m.evt_time \in Seq(Events)
      /\ m.evt_timeout \in [Events -> Nat]
  BY <1>1 DEF Mem
<1>4. /\ IsInjective(m.evt_active) /\ IsInjective(m.evt_time)
      /\ \A e \in Events : "ACTIVE" \in m.flags[e] <=> In(e, m.evt_active)
      /\ \A e \in Events : "TIMEOUT" \in m.flags[e] <=> In(e, m.evt_time)
  BY <1>1, Zenon DEF Agree, ActiveListOK, TimeTreeOK
<1> QED BY <1>1, <1>2, <1>3, <1>4, SMTT(30)

(* Where the active list is empty there is nothing to show. *)
LEMMA DueEmpty ==
  ASSUME m'.evt_active = <<>>, pc' # "timeout"
  PROVE  DueInv'
<1>1. DOMAIN m'.evt_active = {}
  OBVIOUS
<1> QED BY <1>1, Zenon DEF DueInv, Queue, In

LEMMA DueOutside ==
  ASSUME LoopInv', pc' \in {"idle", "free", "top", "wait"}
  PROVE  DueInv'
<1>1. m'.evt_active = <<>> /\ pc' # "timeout"
  BY DEF LoopInv
<1> QED BY <1>1, DueEmpty, SMTT(30)

(* A step that leaves the memory alone, and may advance the clock. *)
LEMMA DueLocal ==
  ASSUME LoopInv, LoopInv', DueInv, m' = m, now <= now',
         pc' = "dispatch" => pc = "dispatch",
         pc' = "timeout" => pc = "timeout" /\ UNCHANGED <<tnow, walk>>
  PROVE  DueInv'
<1>1. now \in Nat /\ now' \in Nat
  BY LoopAssumption, SMTT(30) DEF LoopInv, TypeOK
<1>2. Queue(m'.evt_active, m'.res, m'.evt_timeout, now')
  BY <1>1, Typed, QueueFrame, ZenonT(60) DEF DueInv
<1>3. pc' = "timeout" => tnow' <= now'
  <2>1. tnow \in Nat
    BY SMTT(30) DEF LoopInv, TypeOK
  <2> QED BY <1>1, <2>1, SMTT(30) DEF DueInv
<1> QED BY <1>2, <1>3, ZenonT(60) DEF DueInv

(* A call of the client, or a dispatch, that changes one event which is    *)
(* not in the queue any more.                                              *)
LEMMA DueCall ==
  ASSUME LoopInv, LoopInv', NEW e \in Events, SameButFor(m, m', e), now' = now,
         pc' = "callback",
         "ACTIVE" \notin m'.flags[e],
         Queue(m'.evt_active, m.res, m.evt_timeout, now)
  PROVE  DueInv'
<1> DEFINE s == m'.evt_active
<1>1. /\ s \in Seq(Events) /\ now \in Nat /\ m.evt_timeout \in [Events -> Nat]
      /\ \A x \in Events : In(x, s) => "ACTIVE" \in m'.flags[x]
  <2>1. m' \in Mem /\ Agree(m')
    BY DEF LoopInv, TypeOK
  <2>2. s \in Seq(Events)
    BY <2>1 DEF Mem
  <2>3. \A x \in Events : In(x, s) => "ACTIVE" \in m'.flags[x]
    BY <2>1, Zenon DEF Agree, ActiveListOK
  <2> QED BY <2>2, <2>3, Typed, SMTT(30)
<1>2. \A x \in Events : In(x, s) => /\ m'.res[x] = m.res[x]
                                    /\ m'.evt_timeout[x] = m.evt_timeout[x]
  BY <1>1 DEF SameButFor
<1> HIDE DEF s
<1>3. now <= now
  BY <1>1
<1>4. Queue(s, m'.res, m'.evt_timeout, now)
  BY <1>1, <1>2, <1>3, QueueFrame, ZenonT(60) DEF s
<1> QED BY <1>4 DEF DueInv, s

(* An event that the client may touch is not in the active list. *)
LEMMA TouchedIdle ==
  ASSUME OthersOps = {}, LoopInv, NEW e \in Events, NEW op, MayTouch(e, op), pc = "callback"
  PROVE  "ACTIVE" \notin m.flags[e]
<1>1. e = pos \/ ~Pending(e)
  BY DEF MayTouch
<1>2. CASE e = pos
  BY <1>2 DEF LoopInv
<1>3. CASE ~Pending(e)
  BY <1>3 DEF Pending
<1> QED BY <1>1, <1>2, <1>3

(* The calls that a callback makes. *)
LEMMA DueEvents ==
  ASSUME OthersOps = {}, LoopInv, LoopInv', DueInv, NEW e \in Events,
         EventNew(e) \/ EventAssign(e) \/ EventAdd(e) \/ EventDel(e) \/ EventFree(e)
  PROVE  DueInv'
<1>1. pc \in {"idle", "callback"} /\ pc' = pc /\ now' = now
  BY Zenon DEF EventNew, EventAssign, EventAdd, EventDel, EventFree, MayTouch, ClientRuns
<1>2. CASE pc = "idle"
  BY <1>1, <1>2, DueOutside, SMTT(30)
<1>3. CASE pc = "callback"
  <2>1. "ACTIVE" \notin m.flags[e] /\ m \in Mem /\ Agree(m)
    <3>1. CASE EventNew(e)
      <4>1. e \notin alive
        BY <3>1 DEF EventNew
      <4> QED BY <4>1, Typed, SMTT(30) DEF LoopInv
    <3>2. CASE EventAssign(e) \/ EventAdd(e) \/ EventDel(e) \/ EventFree(e)
      <4>1. \E op \in {"assign", "add", "del"} : MayTouch(e, op)
        BY <3>2, ZenonT(60) DEF EventAssign, EventAdd, EventDel, EventFree
      <4> QED BY <1>3, <4>1, TouchedIdle, Typed, SMTT(30)
    <3> QED BY <3>1, <3>2, SMTT(30)
  <2>2. m'.evt_active = m.evt_active /\ SameButFor(m, m', e)
    <3>1. CASE EventNew(e) \/ EventAssign(e)
      <4>1. PICK u \in Uses[e] : m' = ConstructEvent(m, e, u[1], u[2], {"INIT"})
        BY <3>1, ZenonT(60) DEF EventNew, EventAssign
      <4>2. m'.evt_active = m.evt_active
        BY <2>1, <4>1, SMTT(30) DEF ConstructEvent, Mem
      <4> QED BY <2>1, <4>1, <4>2, ConstructTimes, SMTT(30)
    <3>2. CASE EventAdd(e)
      <4>1. PICK tv \in Timeouts \cup {NoTv}, registered \in AddOutcomes(e) :
              m' = event_add(m, e, tv, FALSE, now, registered)
        BY <3>2, ZenonT(60) DEF EventAdd
      <4>2. /\ tv \in Nat \cup {NoTv} /\ FALSE \in BOOLEAN /\ now \in Nat
        BY LoopAssumption, Typed
      <4>3. registered \in BOOLEAN
        BY LoopAssumption, Zenon DEF AddOutcomes
      <4>4. AddedTo(m, m', e)
        BY <2>1, <4>1, <4>2, <4>3, AddIs, ZenonT(60)
      <4> QED BY <4>4 DEF AddedTo, SameButFor
    <3> DEFINE d == event_del(m, e)
    <3>3. SameFields(m, d) /\ d.evt_active = m.evt_active /\ Agree(d)
      BY <2>1, DelIs, ZenonT(60)
    <3>4. CASE EventDel(e)
      <4>1. m' = d
        BY <3>4 DEF EventDel
      <4> HIDE DEF d
      <4> QED BY <3>3, <4>1 DEF SameFields, SameButFor
    <3>5. CASE EventFree(e)
      <4>1. m' = ConstructEvent(d, e, -1, {}, {})
        BY <3>5, SMTT(30) DEF EventFree
      <4> HIDE DEF d
      <4>2. d \in Mem
        BY <3>3 DEF Agree
      <4>3. m'.evt_active = d.evt_active
        BY <4>1, <4>2, SMTT(30) DEF ConstructEvent, Mem
      <4>4. SameButFor(d, m', e)
        BY <4>1, <4>2, ConstructTimes, SMTT(30)
      <4> QED BY <3>3, <4>3, <4>4, SMTT(30) DEF SameFields, SameButFor
    <3> QED BY <3>1, <3>2, <3>4, <3>5, SMTT(30)
  <2>3. "ACTIVE" \notin m'.flags[e]
    <3>1. Agree(m')
      BY DEF LoopInv
    <3> QED BY <2>1, <2>2, <3>1, ZenonT(60) DEF Agree, ActiveListOK
  <2> QED BY <1>1, <1>3, <2>2, <2>3, DueCall, SMTT(30) DEF DueInv
<1> QED BY <1>1, <1>2, <1>3, SMTT(30)

LEMMA DueCloseFd ==
  ASSUME LoopInv, LoopInv', DueInv, NEW f \in Fds, CloseFd(f)
  PROVE  DueInv'
<1>1. /\ pc \in {"idle", "callback"} /\ pc' = pc /\ now' = now
      /\ m' = [m EXCEPT !.epoll[f] = {}]
  BY DEF CloseFd, ClientRuns
<1>2. m \in Mem
  BY Typed
<1>3. m'.evt_active = m.evt_active /\ m'.res = m.res /\ m'.evt_timeout = m.evt_timeout
  BY <1>1, <1>2, SMTT(30) DEF Mem
<1> QED BY <1>1, <1>3 DEF DueInv

(* event_map_active queues an event that has not timed out. *)
LEMMA DueMapActive ==
  ASSUME LoopInv, LoopInv', DueInv, MapActive
  PROVE  DueInv'
<1> DEFINE e == Head(walk)
           r == m.events[e] \cap EventsOf(cur.what)
           s == m.evt_active
<1>1. /\ pc = "dispatch" /\ walk # <<>> /\ pc' = pc /\ now' = now
      /\ m' = event_map_active(m, e, EventsOf(cur.what))
  BY DEF MapActive
<1>2. e \in Events
  BY <1>1, TailOfWalk, SMTT(30)
<1>3. CASE r = {} \/ "ACTIVE" \in m.flags[e]
  <2>1. m' = m
    BY <1>1, <1>3, SMTT(30) DEF event_map_active, event_add_active
  <2> QED BY <1>1, <2>1, ZenonT(60) DEF DueInv
<1>4. CASE r # {} /\ "ACTIVE" \notin m.flags[e]
  <2>1. m' = event_add_active(m, e, r)
    BY <1>1, <1>4 DEF event_map_active
  <2>2. r \in SUBSET (Io \cup {"TIMEOUT"}) /\ "TIMEOUT" \notin r
    <3>1. EventsOf(cur.what) \subseteq Io /\ "TIMEOUT" \notin EventsOf(cur.what)
      BY DEF EventsOf, Io
    <3> QED BY <3>1
  <2> HIDE DEF e, r
  <2>3. /\ m'.evt_active = Append(s, e)
        /\ m'.res[e] = r /\ SameButFor(m, m', e)
        /\ m'.evt_timeout = m.evt_timeout
    BY <1>2, <1>4, <2>1, <2>2, Typed, AddActiveTimes, SMTT(30)
  <2>4. s \in Seq(Events) /\ ~In(e, s) /\ IsInjective(s)
    BY <1>2, <1>4, Typed, SMTT(30)
  <2>5. now \in Nat /\ now <= now /\ m.evt_timeout \in [Events -> Nat]
    BY Typed, SMTT(30)
  <2> HIDE DEF s
  <2>6. \A x \in Events : In(x, s) => /\ m'.res[x] = m.res[x]
                                      /\ m'.evt_timeout[x] = m.evt_timeout[x]
    BY <2>3, <2>4, SMTT(30) DEF SameButFor
  <2>7. Queue(s, m.res, m.evt_timeout, now)
    BY DEF DueInv, s
  <2>8. Queue(s, m'.res, m'.evt_timeout, now)
    BY <2>4, <2>5, <2>6, <2>7, QueueFrame, ZenonT(60)
  <2>9. Queue(m'.evt_active, m'.res, m'.evt_timeout, now')
    BY <1>1, <1>2, <2>2, <2>3, <2>4, <2>8, QueueAppend, SMTT(30)
  <2>10. \A x \in Events : In(x, m'.evt_active) => "TIMEOUT" \notin m'.res[x]
    <3>1. \A x : In(x, m'.evt_active) <=> In(x, s) \/ x = e
      <4>1. \A x : In(x, Append(s, e)) <=> In(x, s) \/ x = e
        BY <1>2, <2>4, AppendKeeps, SMTT(30)
      <4> QED BY <2>3, <4>1
    <3>2. \A x \in Events : In(x, s) => "TIMEOUT" \notin m.res[x]
      BY <1>1 DEF DueInv, s
    <3> QED BY <2>2, <2>3, <2>6, <3>1, <3>2, SMTT(30)
  <2> QED BY <1>1, <2>9, <2>10, SMTT(30) DEF DueInv
<1> QED BY <1>3, <1>4, SMTT(30)

LEMMA DueTimeoutBegin ==
  ASSUME LoopInv, LoopInv', DueInv, TimeoutBegin
  PROVE  DueInv'
<1>1. /\ pc = "dispatch" /\ pc' = "timeout" /\ m' = m /\ now' = now /\ tnow' = now
      /\ walk' = m.evt_time
  BY DEF TimeoutBegin
<1>2. now <= now
  BY Typed, SMTT(30)
<1>3. \A x \in Events : In(x, m.evt_active) => m.res[x] # {"TIMEOUT"}
  BY <1>1 DEF DueInv
<1> QED BY <1>1, <1>2, <1>3, ZenonT(60) DEF DueInv

(* event_process_timeout queues the first node of the time tree, which is  *)
(* due, and not before what it has queued already.                         *)
LEMMA DueProcessTimeout ==
  ASSUME LoopInv, LoopInv', DueInv, ProcessTimeout
  PROVE  DueInv'
<1> DEFINE e == Head(walk)
           a == m.evt_active
           s == IF "ACTIVE" \in m.flags[e] THEN RemoveFirst(a, e) ELSE a
           d == m.evt_timeout
           t == m.evt_time
<1>1. /\ pc = "timeout" /\ walk # <<>> /\ walk' = Tail(walk) /\ pc' = pc
      /\ d[e] <= tnow /\ m' = TimeOutEvent(m, e) /\ now' = now /\ tnow' = tnow
  BY DEF ProcessTimeout
<1>2. /\ tnow <= now /\ walk = t /\ Queue(a, m.res, d, now)
      /\ \A x, y \in Events :
           In(x, a) /\ m.res[x] = {"TIMEOUT"} /\ In(y, t) => d[x] <= d[y]
  BY <1>1, ZenonT(60) DEF DueInv
<1>3. /\ Agree(m) /\ now \in Nat /\ tnow \in Nat
      /\ a \in Seq(Events) /\ IsInjective(a) /\ t \in Seq(Events) /\ IsInjective(t)
      /\ d \in [Events -> Nat]
      /\ \A x \in Events : "ACTIVE" \in m.flags[x] <=> In(x, a)
      /\ \A x \in Events : "TIMEOUT" \in m.flags[x] <=> In(x, t)
  <2>1. tnow \in Nat
    BY SMTT(30) DEF LoopInv, TypeOK
  <2> QED BY <2>1, Typed, SMTT(30)
<1>4. /\ RemoveFirst(t, e) = Tail(t) /\ e \in Events /\ In(e, t)
      /\ \A y : In(y, Tail(t)) => \E j \in DOMAIN t : 1 < j /\ t[j] = y
      /\ 1 \in DOMAIN t /\ e = t[1]
  <2> HIDE DEF t
  <2> QED BY <1>1, <1>2, <1>3, RemoveHead, SMTT(30)
<1>5. \A i, j \in DOMAIN t : i < j => d[t[i]] <= d[t[j]]
  BY <1>3, ZenonT(60) DEF Agree, TimeTreeOK
<1> HIDE DEF e
<1>6. /\ m'.evt_active = Append(s, e)
      /\ m'.res[e] = {"TIMEOUT"} /\ SameButFor(m, m', e)
      /\ m'.evt_timeout = d
  BY <1>1, <1>3, <1>4, TimeOutTimes, ZenonT(60)
<1>7. m'.evt_time = Tail(t)
  <2>1. m'.evt_time = IF "TIMEOUT" \in m.flags[e] THEN RemoveFirst(t, e) ELSE t
    BY <1>1, <1>3, <1>4, TimeOutEventIs, ZenonT(60)
  <2> QED BY <1>3, <1>4, <2>1, ZenonT(60)
<1>8. /\ s \in Seq(Events) /\ IsInjective(s) /\ Queue(s, m.res, d, now)
      /\ ~In(e, s) /\ \A x : In(x, s) => In(x, a)
  <2>1. CASE "ACTIVE" \in m.flags[e]
    <3>1. s = RemoveFirst(a, e) /\ In(e, a)
      BY <1>3, <1>4, <2>1, SMTT(30)
    <3> HIDE DEF s, a
    <3>2. s \in Seq(Events)
      BY <1>3, <3>1, RemoveFirstIs, SMTT(30)
    <3>3. /\ IsInjective(RemoveFirst(a, e))
          /\ \A x : In(x, RemoveFirst(a, e)) <=> In(x, a) /\ x # e
      BY <1>3, <3>1, RemoveFirstKeeps, SMTT(30)
    <3>4. Queue(RemoveFirst(a, e), m.res, d, now)
      BY <1>2, <1>3, <3>1, QueueRemove, SMTT(30)
    <3> QED BY <3>1, <3>2, <3>3, <3>4, SMTT(30)
  <2>2. CASE "ACTIVE" \notin m.flags[e]
    BY <1>2, <1>3, <1>4, <2>2, ZenonT(60)
  <2> QED BY <2>1, <2>2, ZenonT(60)
<1> HIDE DEF s, a, d, t
<1>9. \A x \in Events : In(x, s) => m'.res[x] = m.res[x] /\ m'.evt_timeout[x] = d[x]
  BY <1>6, <1>8, ZenonT(60) DEF SameButFor
<1>10. now <= now /\ d[e] <= now
  BY <1>1, <1>2, <1>3, <1>4, SMTT(30)
<1>11. Queue(s, m'.res, m'.evt_timeout, now)
  BY <1>3, <1>8, <1>9, <1>10, QueueFrame, ZenonT(90)
<1>12. \A i \in DOMAIN s : m'.res[s[i]] = {"TIMEOUT"} => m'.evt_timeout[s[i]] <= m'.evt_timeout[e]
  <2>1. \A i \in DOMAIN s : s[i] \in Events /\ In(s[i], s)
    BY <1>8, ElementIs, LenIs DEF In
  <2> QED BY <1>2, <1>4, <1>6, <1>8, <1>9, <2>1, ZenonT(30)
<1>13. Queue(m'.evt_active, m'.res, m'.evt_timeout, now')
  <2>1. Queue(Append(s, e), m'.res, m'.evt_timeout, now)
    BY <1>4, <1>6, <1>8, <1>10, <1>11, <1>12, QueueAppend, ZenonT(60)
  <2> QED BY <1>1, <1>6, <2>1
<1>14. ASSUME NEW x \in Events, NEW y \in Events,
              In(x, m'.evt_active), m'.res[x] = {"TIMEOUT"}, In(y, Tail(t))
       PROVE  d[x] <= d[y]
  <2>1. PICK j \in DOMAIN t : 1 < j /\ t[j] = y
    BY <1>4, <1>14, SMTT(30)
  <2>2. CASE x = e
    BY <1>4, <1>5, <2>1, <2>2, SMTT(30)
  <2>3. CASE x # e
    <3>1. \A z : In(z, Append(s, e)) <=> In(z, s) \/ z = e
      BY <1>4, <1>8, AppendKeeps, SMTT(30)
    <3>2. In(x, s)
      BY <1>6, <1>14, <2>3, <3>1, SMTT(30)
    <3>3. In(x, a) /\ m.res[x] = {"TIMEOUT"} /\ In(y, t)
      BY <1>8, <1>9, <1>14, <2>1, <3>2, ZenonT(60) DEF In
    <3> QED BY <1>2, <3>3, SMTT(30)
  <2> QED BY <2>2, <2>3, SMTT(30)
<1> QED BY <1>1, <1>2, <1>6, <1>7, <1>13, <1>14, ZenonT(60) DEF DueInv

(* event_process_active takes the head out of the queue. *)
LEMMA DueProcessActive ==
  ASSUME LoopInv, LoopInv', DueInv, ProcessActive
  PROVE  DueInv'
<1>1. pc = "active" /\ pos # NoEvt /\ pc' = "callback" /\ now' = now
  BY DEF ProcessActive
<1>2. PICK registered \in AddOutcomes(pos) : m' = DispatchEvent(m, pos, now, registered)
  BY DEF ProcessActive
<1>3. registered \in BOOLEAN
  BY LoopAssumption, Zenon DEF AddOutcomes
<1>4. pos \in Events /\ "ACTIVE" \in m.flags[pos]
  <2>1. pos \in Events /\ pos = FirstActive
    BY <1>1, SMTT(30) DEF LoopInv, TypeOK
  <2> QED BY <1>1, <2>1, Cursors, SMTT(30)
<1>5. /\ m'.evt_active = RemoveFirst(m.evt_active, pos)
      /\ "ACTIVE" \notin m'.flags[pos]
  BY <1>2, <1>3, <1>4, Typed, DispatchEventIs, SMTT(30)
<1>6. SameButFor(m, m', pos)
  BY <1>2, <1>3, <1>4, Typed, DispatchTimes, SMTT(30)
<1>7. Queue(RemoveFirst(m.evt_active, pos), m.res, m.evt_timeout, now)
  <2>1. In(pos, m.evt_active) /\ m.evt_active \in Seq(Events)
    BY <1>4, Typed, SMTT(30)
  <2> QED BY <2>1, QueueRemove, SMTT(30) DEF DueInv
<1> QED BY <1>1, <1>4, <1>5, <1>6, <1>7, DueCall, SMTT(30)

(* The steps that only move the program counter, the clock or the locals. *)
LEMMA DueControl ==
  ASSUME LoopInv, LoopInv', DueInv,
         \/ BaseNew \/ BaseFree \/ LoopEnter \/ LoopExit \/ LoopWait \/ FreeStep
         \/ EpollTimeout \/ EpollReady \/ EpollError \/ (\E f \in Fds : OpenFd(f))
         \/ (\E f \in Fds : DispatchFd(f)) \/ ActiveBegin \/ CallbackReturn
         \/ ActiveDone \/ Tick \/ UNCHANGED vars
  PROVE  DueInv'
<1>0. now \in Nat
  BY Typed
<1>1. CASE \/ BaseNew \/ BaseFree \/ LoopEnter \/ LoopExit \/ LoopWait \/ FreeStep
           \/ EpollError \/ ActiveDone
  <2>1. pc' \in {"idle", "free", "top", "wait"}
    BY <1>1, Zenon DEF BaseNew, BaseFree, LoopEnter, LoopExit, LoopWait, FreeStep, BaseFreeMap,
                       BaseFreeTimers, BaseFreeDone, EpollError, ActiveDone
  <2> QED BY <2>1, DueOutside, SMTT(30)
<1>2. CASE EpollTimeout \/ EpollReady
  <2>1. pc = "wait" /\ pc' = "dispatch" /\ m' = m
    BY <1>2, ZenonT(60) DEF EpollTimeout, EpollReady
  <2>2. m.evt_active = <<>>
    BY <2>1 DEF LoopInv
  <2> QED BY <2>1, <2>2, DueEmpty, SMTT(30)
<1>3. CASE (\E f \in Fds : OpenFd(f)) \/ ActiveBegin \/ CallbackReturn
  <2>1. m' = m /\ now' = now /\ pc' \in {"idle", "callback", "active"}
    BY <1>3, Zenon DEF OpenFd, ActiveBegin, CallbackReturn, ClientRuns
  <2>2. now <= now' /\ pc' # "dispatch" /\ pc' # "timeout"
    BY <1>0, <2>1, SMTT(30)
  <2> QED BY <2>1, <2>2, DueLocal, SMTT(30)
<1>4. CASE \E f \in Fds : DispatchFd(f)
  <2>1. m' = m /\ now' = now /\ pc = "dispatch" /\ pc' = pc
    BY <1>4, ZenonT(60) DEF DispatchFd
  <2>2. now <= now' /\ pc' # "timeout"
    BY <1>0, <2>1, SMTT(30)
  <2> QED BY <2>1, <2>2, DueLocal, SMTT(30)
<1>5. CASE Tick \/ UNCHANGED vars
  <2>1. m' = m /\ now' \in {now, now + 1} /\ pc' = pc /\ UNCHANGED <<tnow, walk>>
    BY <1>5 DEF Tick, vars, locals
  <2>2. now <= now'
    BY <1>0, <2>1
  <2> QED BY <2>1, <2>2, DueLocal, SMTT(30)
<1> QED BY <1>1, <1>2, <1>3, <1>4, <1>5, SMTT(30)

LEMMA NextDueInv ==
  ASSUME OthersOps = {}
  PROVE  LoopInv /\ LoopInv' /\ DueInv /\ [Next]_vars => DueInv'
<1> SUFFICES ASSUME LoopInv, LoopInv', DueInv, [Next]_vars PROVE DueInv'
  OBVIOUS
<1>1. CASE Client
  BY <1>1, DueControl, DueEvents, DueCloseFd, SMTT(30) DEF Client
<1>2. CASE LoopStep
  BY <1>2, DueControl, DueMapActive, DueTimeoutBegin, DueProcessTimeout, DueProcessActive, SMTT(30)
     DEF LoopStep
<1>3. CASE FreeStep \/ EpollReady \/ EpollError \/ Tick \/ UNCHANGED vars
  BY <1>3, DueControl
<1> QED BY <1>1, <1>2, <1>3, SMTT(30) DEF Next

(* The invariant of the deadlines holds when callbacks touch no other      *)
(* pending event.                                                          *)
THEOREM DueInvariant ==
  ASSUME OthersOps = {}
  PROVE  Spec => []DueInv
<1>1. Init => DueInv
  <2> SUFFICES ASSUME Init PROVE DueInv
    OBVIOUS
  <2>1. pc = "idle" /\ m.evt_active = <<>>
    BY ZenonT(30) DEF Init, wba_evtbase_new
  <2>2. DOMAIN m.evt_active = {}
    BY <2>1
  <2> QED BY <2>1, <2>2, Zenon DEF DueInv, Queue
<1>2. OthersOps \subseteq {"add"}
  OBVIOUS
<1> QED BY <1>1, <1>2, NextDueInv, LoopInvariant, PTL DEF Spec

(* event_process_timeout times no event out early, and the callbacks of    *)
(* timed-out events come in the order of their deadlines.                  *)
THEOREM TimersAreDue ==
  ASSUME OthersOps = {}
  PROVE  Spec => []TimeoutsDue
<1>1. LoopInv /\ DueInv => TimeoutsDue
  <2> SUFFICES ASSUME LoopInv, DueInv, NEW i \in DOMAIN m.evt_active,
                      m.res[m.evt_active[i]] = {"TIMEOUT"}
               PROVE  /\ m.evt_timeout[m.evt_active[i]] <= now
                      /\ \A j \in 1 .. i - 1 :
                           m.res[m.evt_active[j]] = {"TIMEOUT"} =>
                             m.evt_timeout[m.evt_active[j]] <= m.evt_timeout[m.evt_active[i]]
    BY ZenonT(60) DEF TimeoutsDue
  <2> DEFINE s == m.evt_active
  <2>1. s \in Seq(Events) /\ Queue(s, m.res, m.evt_timeout, now)
    BY Typed, SMTT(30) DEF DueInv
  <2> HIDE DEF s
  <2>2. i \in DOMAIN s /\ \A j \in 1 .. i - 1 : j \in DOMAIN s /\ j < i
    BY <2>1, LenIs, SMTT(30) DEF s
  <2> QED BY <2>1, <2>2 DEF Queue, s
<1>2. OthersOps \subseteq {"add"}
  OBVIOUS
<1> QED BY <1>1, <1>2, DueInvariant, LoopInvariant, PTL

-----------------------------------------------------------------------------
(* Persistent timers.                                                      *)

(* A step that starts a callback is a turn of event_process_active. *)
LEMMA CallbackStarts ==
  ASSUME Next, pc = "active", pc' = "callback"
  PROVE  ProcessActive
BY ZenonT(60) DEF Next, Client, FreeStep, LoopStep, BaseNew, BaseFree, LoopEnter, EventNew,
       EventAssign, EventAdd, EventDel, EventFree, CloseFd, OpenFd, BaseFreeMap,
       BaseFreeTimers, BaseFreeDone, LoopExit, LoopWait, EpollTimeout, DispatchFd,
       MapActive, TimeoutBegin, ProcessTimeout, ActiveBegin, CallbackReturn, ActiveDone,
       EpollReady, EpollError, Tick, MayTouch, ClientRuns

(* event_process_active arms a persistent timer again: from its last       *)
(* deadline if that leaves one to come, and else from now, so never in the *)
(* past and at most one interval ahead. Only epoll can keep it from that.  *)
THEOREM PersistsOnTime ==
  ASSUME OthersOps = {}
  PROVE  Spec => PersistInterval
<1> DEFINE Rearmed(e) ==
             Dispatched(e) /\ "PERSIST" \in m.events[e] /\ m.timeout[e] # 0 =>
               \/ {"REG", "TIMEOUT"} \subseteq m'.flags[e] /\ m'.evt_timeout[e] >= now
                    /\ m'.evt_timeout[e] <= now + m.timeout[e]
               \/ "REG" \notin m'.flags[e] /\ IsIo(m, e)
<1>1. LoopInv /\ DueInv /\ [Next]_vars => [\A e \in Events : Rearmed(e)]_vars
  <2> SUFFICES ASSUME LoopInv, DueInv, Next, NEW e \in Events, Dispatched(e),
                      "PERSIST" \in m.events[e], m.timeout[e] # 0
               PROVE  \/ {"REG", "TIMEOUT"} \subseteq m'.flags[e] /\ m'.evt_timeout[e] >= now
                           /\ m'.evt_timeout[e] <= now + m.timeout[e]
                      \/ "REG" \notin m'.flags[e] /\ IsIo(m, e)
    BY Zenon
  <2> DEFINE i == event_remove_active(m, e)
             d == NextDeadline(m, e, now)
  <2>1. pc = "active" /\ pos = e /\ ProcessActive
    BY CallbackStarts, SMTT(30) DEF Dispatched
  <2>2. PICK registered \in AddOutcomes(e) : m' = DispatchEvent(m, e, now, registered)
    BY <2>1 DEF ProcessActive
  <2>3. registered \in BOOLEAN
    BY LoopAssumption, ZenonT(60) DEF AddOutcomes
  <2>4. Agree(m) /\ now \in Nat /\ m.evt_timeout[e] \in Nat /\ m.timeout[e] \in Nat
    <3>1. m \in Mem /\ Agree(m) /\ now \in Nat
      BY Typed
    <3> QED BY <3>1, SMTT(30) DEF Mem
  <2>5. m' = event_add(i, e, d, TRUE, now, registered)
    BY <2>2, ZenonT(60) DEF DispatchEvent
  <2>6. Agree(i) /\ SameFields(m, i)
    BY <2>4, RemoveActiveIs, ZenonT(60)
  <2>7. "TIMEOUT" \in m.res[e] => m.evt_timeout[e] <= now
    <3>1. e = FirstActive /\ e # NoEvt
      BY <2>1, LoopAssumption, ZenonT(60) DEF LoopInv
    <3>2. In(e, m.evt_active)
      BY <3>1, Cursors, Typed, SMTT(30)
    <3> QED BY <3>2 DEF In, DueInv, Queue
  <2>8. d \in Nat /\ d >= now /\ d <= now + m.timeout[e]
    <3> DEFINE last == IF "TIMEOUT" \in m.res[e] THEN m.evt_timeout[e] ELSE now
    <3>1. last \in Nat /\ last <= now
      BY <2>4, <2>7
    <3>2. d = IF last + m.timeout[e] < now THEN now + m.timeout[e] ELSE last + m.timeout[e]
      BY Zenon DEF NextDeadline
    <3> HIDE DEF last, d
    <3> QED BY <2>4, <3>1, <3>2, SMTT(30)
  <2> HIDE DEF i, d
  <2>9. d \in Nat \cup {NoTv} /\ TRUE \in BOOLEAN /\ d # NoTv
    BY <2>8 DEF NoTv
  <2> DEFINE n == event_add(i, e, d, TRUE, now, registered)
  <2>10. AddDid(i, n, e, registered, d, d)
    <3>1. (IF TRUE THEN d ELSE now + d) = d
      OBVIOUS
    <3>2. AddDid(i, n, e, registered, d, IF TRUE THEN d ELSE now + d)
      BY <2>3, <2>4, <2>6, <2>9, AddEffect, ZenonT(60)
    <3> QED BY <3>1, <3>2, ZenonT(30)
  <2>11. m' = n
    BY <2>5, SMTT(30)
  <2> HIDE DEF n
  <2>12. CASE Refused(i, e, registered)
    <3>1. IsIo(m, e) /\ "REG" \notin i.flags[e]
      BY <2>6, <2>12, SMTT(30) DEF Refused, SameFields, IsIo
    <3> QED BY <2>10, <2>11, <2>12, <3>1, SMTT(30) DEF AddDid
  <2>13. CASE ~Refused(i, e, registered)
    BY <2>8, <2>9, <2>10, <2>11, <2>13, SMTT(30) DEF AddDid
  <2> QED BY <2>12, <2>13, SMTT(30)
<1>2. OthersOps \subseteq {"add"}
  OBVIOUS
<1> QED BY <1>1, <1>2, DueInvariant, LoopInvariant, PTL DEF Spec, PersistInterval

-----------------------------------------------------------------------------
(* The epoll set.                                                          *)

(* What epoll may answer: yes only for an open fd that it does not know.   *)
LEMMA Outcomes ==
  ASSUME NEW e, NEW registered \in AddOutcomes(e)
  PROVE  /\ registered \in BOOLEAN
         /\ IsIo(m, e) /\ registered => m.fd[e] \in open /\ m.epoll[m.fd[e]] = {}
<1>1. registered \in BOOLEAN
  BY LoopAssumption, Zenon DEF AddOutcomes
<1>2. IsIo(m, e) /\ ~(m.fd[e] \in open /\ m.epoll[m.fd[e]] = {}) => registered = FALSE
  BY Zenon DEF AddOutcomes
<1> QED BY <1>1, <1>2

(* The client's calls. *)
LEMMA EpollEvents ==
  ASSUME OthersOps \subseteq {"add"}, LoopInv, EpollOK(m, open), NEW e \in Events,
         EventNew(e) \/ EventAssign(e) \/ EventAdd(e) \/ EventDel(e) \/ EventFree(e)
  PROVE  EpollOK(m', open')
<1>1. open' = open /\ Agree(m) /\ now \in Nat
  <2>1. open' = open
    BY Zenon DEF EventNew, EventAssign, EventAdd, EventDel, EventFree
  <2> QED BY <2>1, Typed, SMTT(30)
<1>2. CASE EventNew(e) \/ EventAssign(e)
  <2>1. PICK u : m' = ConstructEvent(m, e, u[1], u[2], {"INIT"})
    BY <1>2, ZenonT(60) DEF EventNew, EventAssign
  <2>2. "REG" \notin m.flags[e] /\ "REG" \notin {"INIT"}
    BY <1>2, ZenonT(30) DEF LoopInv, EventNew, EventAssign
  <2>3. EpollOK(ConstructEvent(m, e, u[1], u[2], {"INIT"}), open)
    BY <1>1, <2>2, EpollConstruct, ZenonT(30)
  <2> QED BY <1>1, <2>1, <2>3, SMTT(30)
<1>3. CASE EventAdd(e)
  <2>1. PICK tv \in Timeouts \cup {NoTv}, registered \in AddOutcomes(e) :
          m' = event_add(m, e, tv, FALSE, now, registered)
    BY <1>3, Zenon DEF EventAdd
  <2>2. tv \in Nat \cup {NoTv} /\ FALSE \in BOOLEAN
    BY LoopAssumption, ZenonT(60)
  <2>3. /\ registered \in BOOLEAN
        /\ IsIo(m, e) /\ registered => m.fd[e] \in open /\ m.epoll[m.fd[e]] = {}
    BY Outcomes
  <2>4. EpollOK(event_add(m, e, tv, FALSE, now, registered), open)
    BY <1>1, <2>2, <2>3, EpollAdd, ZenonT(60)
  <2> QED BY <1>1, <2>1, <2>4, Zenon
<1>4. CASE EventDel(e)
  <2>1. m' = event_del(m, e)
    BY <1>4 DEF EventDel
  <2> QED BY <1>1, <2>1, EpollDel, SMTT(30)
<1>5. CASE EventFree(e)
  <2> DEFINE d == event_del(m, e)
  <2>1. m' = ConstructEvent(d, e, -1, {}, {})
    BY <1>5 DEF EventFree
  <2>2. /\ Agree(d) /\ FlagsAt(m, d, e, m.flags[e] \ {"REG", "ACTIVE", "TIMEOUT"})
    BY <1>1, DelIs, ZenonT(30)
  <2>3. EpollOK(d, open)
    BY <1>1, EpollDel, SMTT(30)
  <2> HIDE DEF d
  <2>4. "REG" \notin d.flags[e] /\ "REG" \notin {}
    BY <2>2 DEF FlagsAt
  <2>5. EpollOK(ConstructEvent(d, e, -1, {}, {}), open)
    BY <2>2, <2>3, <2>4, EpollConstruct, ZenonT(60)
  <2> QED BY <1>1, <2>1, <2>5, SMTT(30)
<1> QED BY <1>2, <1>3, <1>4, <1>5, SMTT(30)

(* The steps of the loop and of wba_evtbase_free. *)
LEMMA EpollLoop ==
  ASSUME LoopInv, EpollOK(m, open),
         MapActive \/ ProcessTimeout \/ ProcessActive \/ BaseFreeMap \/ BaseFreeTimers
  PROVE  EpollOK(m', open')
<1>1. open' = open /\ Agree(m) /\ now \in Nat
  <2>1. open' = open
    BY Zenon DEF MapActive, ProcessTimeout, ProcessActive, BaseFreeMap, BaseFreeTimers
  <2> QED BY <2>1, Typed, SMTT(30)
<1>2. CASE MapActive
  <2> DEFINE e == Head(walk)
             ev == EventsOf(cur.what)
             r == m.events[e] \cap ev
  <2>1. m' = event_map_active(m, e, ev) /\ e \in Events
    BY <1>2, TailOfWalk, SMTT(30) DEF MapActive
  <2>2. r \in SUBSET (Io \cup {"TIMEOUT"})
    BY DEF EventsOf, Io
  <2>3. m' = m \/ m' = event_add_active(m, e, r)
    BY <2>1 DEF event_map_active
  <2> HIDE DEF e, r
  <2>4. EpollOK(event_add_active(m, e, r), open)
    BY <1>1, <2>1, <2>2, EpollAddActive, SMTT(30)
  <2> QED BY <1>1, <2>3, <2>4, SMTT(30)
<1>3. CASE ProcessTimeout
  <2> DEFINE e == Head(walk)
             d == event_del(m, e)
  <2>1. m' = event_add_active(d, e, {"TIMEOUT"}) /\ e \in Events
    BY <1>3, TailOfWalk DEF ProcessTimeout, TimeOutEvent
  <2> HIDE DEF e
  <2>2. Agree(d)
    BY <1>1, <2>1, DelIs, ZenonT(60)
  <2>3. EpollOK(d, open)
    BY <1>1, <2>1, EpollDel, SMTT(30)
  <2> HIDE DEF d
  <2>4. {"TIMEOUT"} \in SUBSET (Io \cup {"TIMEOUT"})
    OBVIOUS
  <2>5. EpollOK(event_add_active(d, e, {"TIMEOUT"}), open)
    BY <2>1, <2>2, <2>3, <2>4, EpollAddActive, ZenonT(60)
  <2> QED BY <1>1, <2>1, <2>5, SMTT(30)
<1>4. CASE ProcessActive
  <2>1. pos \in Events
    BY <1>4, ZenonT(30) DEF ProcessActive, LoopInv, TypeOK
  <2>2. PICK registered \in AddOutcomes(pos) : m' = DispatchEvent(m, pos, now, registered)
    BY <1>4, SMTT(30) DEF ProcessActive
  <2>3. /\ registered \in BOOLEAN
        /\ IsIo(m, pos) /\ registered => m.fd[pos] \in open /\ m.epoll[m.fd[pos]] = {}
    BY Outcomes
  <2>4. EpollOK(DispatchEvent(m, pos, now, registered), open)
    BY <1>1, <2>1, <2>3, EpollDispatch, ZenonT(60)
  <2> QED BY <1>1, <2>2, <2>4, SMTT(30)
<1>5. CASE BaseFreeMap \/ BaseFreeTimers
  <2>1. PICK e \in Events : m' = event_del(m, e)
    <3>1. \A s \in Seq(Events) : s # <<>> => Head(s) \in Events
      OBVIOUS
    <3>2. m.evt_time \in Seq(Events) /\ \A i \in Slots : m.evt_list[i] \in Seq(Events)
      BY LoopFields, SMTT(30)
    <3> QED BY <1>5, <3>1, <3>2, ZenonT(60) DEF BaseFreeMap, BaseFreeTimers
  <2> QED BY <1>1, <2>1, EpollDel, SMTT(30)
<1> QED BY <1>2, <1>3, <1>4, <1>5, SMTT(30)

(* A client that closes no fd of a registered event takes nothing from     *)
(* under the map.                                                          *)
LEMMA EpollClose ==
  ASSUME ~CloseEarly, LoopInv, EpollOK(m, open), NEW g \in Fds, CloseFd(g)
  PROVE  EpollOK(m', open')
<1> DEFINE ep == [m.epoll EXCEPT ![g] = {}]
<1>1. /\ \A e \in Events : m.fd[e] = g => ~InMap(m, e)
      /\ open' = open \ {g} /\ m' = [m EXCEPT !.epoll[g] = {}]
  BY SMTT(30) DEF CloseFd
<1>2. m \in Mem
  BY Typed, ZenonT(30)
<1>3. m' = [m EXCEPT !.epoll = ep] /\ \A f \in Fds : ep[f] = IF f = g THEN {} ELSE m.epoll[f]
  BY <1>1, <1>2, SMTT(30) DEF Mem
<1> HIDE DEF ep
<1>4. m'.flags = m.flags /\ m'.fd = m.fd /\ m'.events = m.events /\ m'.epoll = ep
  BY <1>2, <1>3, SMTT(30) DEF Mem
<1>5. \A e \in Events : InMap(m', e) <=> InMap(m, e)
  BY <1>4 DEF InMap, IsIo
<1>6. \A e \in Events : InMap(m, e) => m.fd[e] \in Fds /\ m.fd[e] # g
  BY <1>1, <1>2, SlotOfIo, SMTT(30) DEF InMap
<1>7. ASSUME NEW e \in Events, InMap(m', e)
      PROVE  m'.fd[e] \in open' /\ m'.epoll[m'.fd[e]] = EpollInterest(m'.events[e])
  <2>1. InMap(m, e) /\ m.fd[e] \in Fds /\ m.fd[e] # g
    BY <1>5, <1>6, <1>7, SMTT(30)
  <2>2. m.fd[e] \in open /\ m.epoll[m.fd[e]] = EpollInterest(m.events[e])
    BY <2>1 DEF EpollOK
  <2>3. ep[m.fd[e]] = m.epoll[m.fd[e]]
    BY <1>3, <2>1, SMTT(30)
  <2> QED BY <1>1, <1>4, <2>1, <2>2, <2>3, SMTT(30)
<1>8. ASSUME NEW d \in Events, NEW e \in Events,
             InMap(m', d), InMap(m', e), m'.fd[d] = m'.fd[e]
      PROVE  d = e
  BY <1>4, <1>5, <1>8, SMTT(30) DEF EpollOK
<1>9. ASSUME NEW f \in Fds, m'.epoll[f] # {}
      PROVE  \E e \in Events : InMap(m', e) /\ m'.fd[e] = f
  <2>1. m.epoll[f] # {}
    BY <1>3, <1>4, <1>9, SMTT(30)
  <2>2. PICK e \in Events : InMap(m, e) /\ m.fd[e] = f
    BY <2>1, SMTT(30) DEF EpollOK
  <2> QED BY <1>4, <1>5, <2>2, SMTT(30)
<1> QED BY <1>7, <1>8, <1>9, SMTT(30) DEF EpollOK

LEMMA NextEpoll ==
  ASSUME OthersOps \subseteq {"add"}, ~CloseEarly
  PROVE  LoopInv /\ EpollOK(m, open) /\ [Next]_vars => EpollOK(m, open)'
<1> SUFFICES ASSUME LoopInv, EpollOK(m, open), [Next]_vars PROVE EpollOK(m', open')
  OBVIOUS
<1>1. CASE \/ BaseNew \/ BaseFree \/ LoopEnter \/ BaseFreeDone \/ LoopExit \/ LoopWait
           \/ EpollTimeout \/ (\E f \in Fds : DispatchFd(f)) \/ TimeoutBegin
           \/ ActiveBegin \/ CallbackReturn \/ ActiveDone \/ EpollReady \/ EpollError
           \/ Tick \/ UNCHANGED vars
  <2>1. m' = m /\ open' = open
    BY <1>1, ZenonT(60) DEF BaseNew, BaseFree, LoopEnter, BaseFreeDone, LoopExit, LoopWait,
         EpollTimeout, DispatchFd, TimeoutBegin, ActiveBegin, CallbackReturn, ActiveDone,
         EpollReady, EpollError, Tick, vars
  <2> QED BY <2>1, SMTT(30)
<1>2. CASE \E f \in Fds : OpenFd(f)
  <2>1. m' = m /\ open \subseteq open'
    BY <1>2, SMTT(30) DEF OpenFd
  <2> QED BY <2>1, SMTT(30) DEF EpollOK
<1>3. CASE Client
  BY <1>1, <1>2, <1>3, EpollEvents, EpollClose, SMTT(30) DEF Client
<1>4. CASE FreeStep
  BY <1>1, <1>4, EpollLoop, SMTT(30) DEF FreeStep
<1>5. CASE LoopStep
  BY <1>1, <1>5, EpollLoop, SMTT(30) DEF LoopStep
<1> QED BY <1>1, <1>3, <1>4, <1>5, SMTT(30) DEF Next

(* As long as the client deletes events before it closes their fd, the     *)
(* epoll set is what the events of the fd map ask for: nothing is lost     *)
(* when persistent events are added again, and nothing stays behind when   *)
(* events time out, are deleted or are freed.                              *)
THEOREM EpollAgrees ==
  ASSUME OthersOps \subseteq {"add"}
  PROVE  Spec => []EpollMatchesMap
<1> DEFINE Inv == ~CloseEarly => EpollOK(m, open)
<1>1. Init => Inv
  <2> SUFFICES ASSUME Init PROVE EpollOK(m, open)
    BY SMTT(30)
  <2>1. m.flags = [e \in Events |-> {}] /\ m.epoll = [f \in Fds |-> {}]
    BY SMTT(30) DEF Init, wba_evtbase_new
  <2> QED BY <2>1 DEF EpollOK, InMap
<1>2. LoopInv /\ Inv /\ [Next]_vars => Inv'
  <2> SUFFICES ASSUME LoopInv, Inv, [Next]_vars, ~CloseEarly PROVE EpollOK(m, open)'
    BY SMTT(30)
  <2> QED BY NextEpoll
<1>3. Inv => EpollMatchesMap
  BY DEF EpollOK, EpollMatchesMap
<1> HIDE DEF Inv
<1> QED BY <1>1, <1>2, <1>3, LoopInvariant, PTL DEF Spec
=============================================================================
