------------------------------- MODULE EvLoop -------------------------------
(***************************************************************************)
(* The event loop of network/wba_event/wba_evloop.c together with a client *)
(* that calls its API, between loops and from inside callbacks, and with   *)
(* the clock, the file descriptors and epoll_wait as the environment.      *)
(*                                                                         *)
(* The program is single-threaded: one API call, one entry of a list walk  *)
(* or one callback boundary is a step. The clock may advance between any   *)
(* two steps. A callback is any sequence of the client's calls.            *)
(* As in EvBase, Bad... marks a deliberately wrong variant.                *)
(***************************************************************************)
EXTENDS EvBase

CONSTANTS NoEvt,       \* the list head, where a walk of the active list ends
          Uses,        \* Uses[e]: the <<fd, mask>> pairs e is constructed for
          Timeouts,    \* the intervals passed to wba_event_add
          NEvents,     \* EVT_NUM_EVENTS, what one epoll_wait may return
          MaxTime,     \* bound: the clock stops here
          OthersOps,   \* what a callback may do to another pending event,
                       \*   a subset of {"add", "del"}
          CloseEarly,  \* whether the client closes fds that have events
          AddMayFail   \* whether EPOLL_CTL_ADD fails for want of resources

ASSUME LoopAssumption ==
  /\ NoEvt \notin Events
  /\ Uses \in [Events -> SUBSET ((Fds \cup {-1}) \X SUBSET Mask)]
  /\ Timeouts \subseteq Nat
  /\ NEvents \in Nat \ {0}
  /\ MaxTime \in Nat
  /\ OthersOps \subseteq {"add", "del"}
  /\ CloseEarly \in BOOLEAN
  /\ AddMayFail \in BOOLEAN

VARIABLES m,      \* the memory of EvBase
          base,   \* "none", "live" or "freed"
          alive,  \* the constructed, not yet freed events
          open,   \* the open file descriptors
          now,    \* the monotonic clock
          pc,     \* where the program is
          wake,   \* when the current epoll_wait times out, or NoWake
          ready,  \* the results of epoll_wait not dispatched yet, by fd
          cur,    \* the result being dispatched
          walk,   \* what is left of the list or tree walk of the pass
          tnow,   \* the time event_process_timeout has read
          pos,    \* evt, in event_process_active
          nxt     \* p, the saved next entry, in event_process_active

locals == <<wake, ready, cur, walk, tnow, pos, nxt>>
vars == <<m, base, alive, open, now, pc, locals>>

NoWake == -1
NoResult == [fd |-> -1, what |-> {}]
NoReady == [f \in {} |-> {}]

Init ==
  /\ m = wba_evtbase_new
  /\ base = "none"
  /\ alive = {}
  /\ open = Fds
  /\ now = 0
  /\ pc = "idle"
  /\ wake = 0
  /\ ready = NoReady
  /\ cur = NoResult
  /\ walk = <<>>
  /\ tnow = 0
  /\ pos = NoEvt
  /\ nxt = NoEvt

-----------------------------------------------------------------------------
(* The client. It runs when the loop does not, and in callbacks. *)

ClientRuns == pc \in {"idle", "callback"}

Pending(e) == m.flags[e] \cap {"REG", "ACTIVE"} # {}

(* A callback works on its own event and on events that are not pending,   *)
(* as those of test.c do; OthersOps widens this.                           *)
MayTouch(e, op) ==
  /\ ClientRuns
  /\ pc = "idle" \/ e = pos \/ ~Pending(e) \/ op \in OthersOps

(* The outcomes of EPOLL_CTL_ADD for e: EBADF, EEXIST, ENOSPC or success. *)
AddOutcomes(e) ==
  LET possible == m.fd[e] \in open /\ m.epoll[m.fd[e]] = {}
  IN  CASE ~IsIo(m, e) -> {TRUE}
        [] IsIo(m, e) /\ ~possible -> {FALSE}
        [] IsIo(m, e) /\ possible -> {TRUE} \cup {~AddMayFail}

BaseNew ==
  /\ pc = "idle" /\ base = "none"
  /\ base' = "live"
  /\ UNCHANGED <<m, alive, open, now, pc, locals>>

EventNew(e) ==
  /\ ClientRuns /\ base = "live" /\ e \notin alive
  /\ \E u \in Uses[e] : m' = ConstructEvent(m, e, u[1], u[2], {"INIT"})
  /\ alive' = alive \cup {e}
  /\ UNCHANGED <<base, open, now, pc, locals>>

(* Refused when the event is registered; memset wipes it otherwise. What   *)
(* the client assigns is not active: it never does this to another pending *)
(* event, whose list node memset would wipe as well.                       *)
EventAssign(e) ==
  /\ base = "live" /\ e \in alive /\ MayTouch(e, "assign")
  /\ "REG" \notin m.flags[e]
  /\ \E u \in Uses[e] : m' = ConstructEvent(m, e, u[1], u[2], {"INIT"})
  /\ UNCHANGED <<base, alive, open, now, pc, locals>>

EventAdd(e) ==
  /\ base = "live" /\ e \in alive /\ MayTouch(e, "add")
  /\ \E tv \in Timeouts \cup {NoTv}, registered \in AddOutcomes(e) :
       m' = event_add(m, e, tv, FALSE, now, registered)
  /\ UNCHANGED <<base, alive, open, now, pc, locals>>

(* Events may outlive their base: wba_evtbase_free does not free them. *)
EventDel(e) ==
  /\ e \in alive /\ MayTouch(e, "del")
  /\ m' = event_del(m, e)
  /\ UNCHANGED <<base, alive, open, now, pc, locals>>

EventFree(e) ==
  /\ e \in alive /\ MayTouch(e, "del")
  /\ m' = ConstructEvent(event_del(m, e), e, -1, {}, {})
  /\ alive' = alive \ {e}
  /\ UNCHANGED <<base, open, now, pc, locals>>

(* Closing a descriptor takes it out of the epoll set. *)
CloseFd(f) ==
  /\ ClientRuns /\ f \in open
  /\ CloseEarly \/ \A e \in Events : m.fd[e] = f => ~InMap(m, e)
  /\ open' = open \ {f}
  /\ m' = [m EXCEPT !.epoll[f] = {}]
  /\ UNCHANGED <<base, alive, now, pc, locals>>

OpenFd(f) ==
  /\ ClientRuns /\ f \notin open
  /\ open' = open \cup {f}
  /\ UNCHANGED <<m, base, alive, now, pc, locals>>

-----------------------------------------------------------------------------
(* wba_evtbase_free: delete what the map links, then what the tree links. *)

BaseFree ==
  /\ pc = "idle" /\ base = "live"
  /\ pc' = "free"
  /\ UNCHANGED <<m, base, alive, open, now, locals>>

BaseFreeMap ==
  /\ pc = "free"
  /\ \E i \in Slots :
       /\ m.evt_list[i] # <<>>
       /\ \A j \in Slots : j < i => m.evt_list[j] = <<>>
       /\ m' = event_del(m, Head(m.evt_list[i]))
  /\ UNCHANGED <<base, alive, open, now, pc, locals>>

BaseFreeTimers ==
  /\ pc = "free"
  /\ \A i \in Slots : m.evt_list[i] = <<>>
  /\ m.evt_time # <<>>
  /\ m' = event_del(m, Head(m.evt_time))
  /\ UNCHANGED <<base, alive, open, now, pc, locals>>

BadFreeDone ==
  /\ pc = "free"
  /\ m.evt_time = <<>>
  /\ base' = "freed"
  /\ pc' = "idle"
  /\ UNCHANGED <<m, alive, open, now, locals>>

BaseFreeDone ==
  /\ pc = "free"
  /\ \A i \in Slots : m.evt_list[i] = <<>>
  /\ m.evt_time = <<>>
  /\ base' = "freed"
  /\ pc' = "idle"
  /\ UNCHANGED <<m, alive, open, now, locals>>

-----------------------------------------------------------------------------
(* wba_event_loop *)

LoopEnter ==
  /\ pc = "idle" /\ base = "live"
  /\ pc' = "top"
  /\ UNCHANGED <<m, base, alive, open, now, locals>>

BadLoopExit ==
  /\ pc = "top"
  /\ m.event_count_active = 0
  /\ pc' = "idle"
  /\ UNCHANGED <<m, base, alive, open, now, locals>>

LoopExit ==
  /\ pc = "top"
  /\ m.event_count = 0 /\ m.event_count_active = 0
  /\ pc' = "idle"
  /\ UNCHANGED <<m, base, alive, open, now, locals>>

(* epoll_wait with a negative timeout waits for ever. The clock may go on  *)
(* between event_next_timeout and epoll_wait: the wait then ends so much   *)
(* later, as EpollTimeout may.                                             *)
LoopWait ==
  /\ pc = "top"
  /\ m.event_count # 0 \/ m.event_count_active # 0
  /\ LET timeout == event_next_timeout(m, now)
     IN  wake' = IF timeout < 0 THEN NoWake ELSE now + timeout * TicksPerMs
  /\ pc' = "wait"
  /\ UNCHANGED <<m, base, alive, open, now, ready, cur, walk, tnow, pos, nxt>>

(* What epoll_wait may report of a registered fd. "HUP" is EPOLLHUP or     *)
(* EPOLLERR, which are reported whether asked for or not.                  *)
Reports(f) == SUBSET (m.epoll[f] \cup {"HUP"}) \ {{}}

EpollReady ==
  /\ pc = "wait"
  /\ \E S \in SUBSET {f \in Fds : m.epoll[f] # {}} :
       /\ S # {} /\ Cardinality(S) <= NEvents
       /\ ready' \in [S -> UNION {Reports(f) : f \in S}]
       /\ \A f \in S : ready'[f] \in Reports(f)
  /\ wake' = 0
  /\ pc' = "dispatch"
  /\ UNCHANGED <<m, base, alive, open, now, cur, walk, tnow, pos, nxt>>

EpollTimeout ==
  /\ pc = "wait" /\ wake # NoWake /\ now >= wake
  /\ wake' = 0
  /\ pc' = "dispatch"
  /\ UNCHANGED <<m, base, alive, open, now, ready, cur, walk, tnow, pos, nxt>>

(* epoll_wait returns -1 (EINTR): the loop ends. *)
EpollError ==
  /\ pc = "wait"
  /\ wake' = 0
  /\ pc' = "idle"
  /\ UNCHANGED <<m, base, alive, open, now, ready, cur, walk, tnow, pos, nxt>>

(* The event mask that the loop makes of an epoll report. *)
EventsOf(what) ==
  IF "HUP" \in what THEN {"READ", "WRITE"}
  ELSE {i \in {"READ"} : "IN" \in what}
         \cup {i \in {"WRITE"} : "OUT" \in what}
         \cup {i \in {"CLOSED"} : "RDHUP" \in what}

DispatchFd(f) ==
  /\ pc = "dispatch" /\ walk = <<>> /\ f \in DOMAIN ready
  /\ ready' = [g \in DOMAIN ready \ {f} |-> ready[g]]
  /\ cur' = [fd |-> f, what |-> ready[f]]
  /\ walk' = IF EventsOf(ready[f]) = {} THEN <<>>
             ELSE m.evt_list[event_map_get_slot(f)]
  /\ UNCHANGED <<m, base, alive, open, now, pc, wake, tnow, pos, nxt>>

MapActive ==
  /\ pc = "dispatch" /\ walk # <<>>
  /\ m' = event_map_active(m, Head(walk), EventsOf(cur.what))
  /\ walk' = Tail(walk)
  /\ UNCHANGED <<base, alive, open, now, pc, wake, ready, cur, tnow, pos, nxt>>

(* event_process_timeout reads the clock once, and the next node before it *)
(* removes the current one: it visits the nodes the tree has now, in order.*)
TimeoutBegin ==
  /\ pc = "dispatch" /\ walk = <<>> /\ DOMAIN ready = {}
  /\ cur' = NoResult
  /\ tnow' = now
  /\ walk' = m.evt_time
  /\ pc' = "timeout"
  /\ UNCHANGED <<m, base, alive, open, now, wake, ready, pos, nxt>>

BadProcessTimeout ==
  /\ pc = "timeout" /\ walk # <<>>
  /\ m.evt_timeout[Head(walk)] < tnow + TicksPerMs
  /\ m' = TimeOutEvent(m, Head(walk))
  /\ walk' = Tail(walk)
  /\ UNCHANGED <<base, alive, open, now, pc, wake, ready, cur, tnow, pos, nxt>>

ProcessTimeout ==
  /\ pc = "timeout" /\ walk # <<>>
  /\ m.evt_timeout[Head(walk)] <= tnow
  /\ m' = TimeOutEvent(m, Head(walk))
  /\ walk' = Tail(walk)
  /\ UNCHANGED <<base, alive, open, now, pc, wake, ready, cur, tnow, pos, nxt>>

(* What the next pointer of e's node in the list s points at: a removed    *)
(* node, left by list_del_init, points at itself.                          *)
NextIn(s, e) ==
  IF ~In(e, s) THEN e
  ELSE LET i == CHOOSE i \in DOMAIN s : s[i] = e
       IN  IF i = Len(s) THEN NoEvt ELSE s[i + 1]

NextActive(e) == IF e = NoEvt THEN NoEvt ELSE NextIn(m.evt_active, e)

FirstActive == IF m.evt_active = <<>> THEN NoEvt ELSE Head(m.evt_active)

(* The timeout pass ends at the first node that is not due; the active     *)
(* pass starts.                                                            *)
ActiveBegin ==
  /\ pc = "timeout"
  /\ walk # <<>> => m.evt_timeout[Head(walk)] > tnow
  /\ walk' = <<>>
  /\ tnow' = 0
  /\ pos' = FirstActive
  /\ nxt' = NextActive(FirstActive)
  /\ pc' = "active"
  /\ UNCHANGED <<m, base, alive, open, now, wake, ready, cur>>

ProcessActive ==
  /\ pc = "active" /\ pos # NoEvt
  /\ \E registered \in AddOutcomes(pos) :
       m' = DispatchEvent(m, pos, now, registered)
  /\ pc' = "callback"
  /\ UNCHANGED <<base, alive, open, now, locals>>

BadCallbackReturn ==
  /\ pc = "callback"
  /\ pos' = NextActive(pos)
  /\ nxt' = NextActive(NextActive(pos))
  /\ pc' = "active"
  /\ UNCHANGED <<m, base, alive, open, now, wake, ready, cur, walk, tnow>>

CallbackReturn ==
  /\ pc = "callback"
  /\ pos' = nxt
  /\ nxt' = NextActive(nxt)
  /\ pc' = "active"
  /\ UNCHANGED <<m, base, alive, open, now, wake, ready, cur, walk, tnow>>

ActiveDone ==
  /\ pc = "active" /\ pos = NoEvt
  /\ nxt' = NoEvt
  /\ pc' = "top"
  /\ UNCHANGED <<m, base, alive, open, now, wake, ready, cur, walk, tnow, pos>>

Tick ==
  /\ now < MaxTime
  /\ now' = now + 1
  /\ UNCHANGED <<m, base, alive, open, pc, locals>>

-----------------------------------------------------------------------------
Client ==
  \/ BaseNew \/ BaseFree \/ LoopEnter
  \/ \E e \in Events : \/ EventNew(e) \/ EventAssign(e) \/ EventAdd(e)
                       \/ EventDel(e) \/ EventFree(e)
  \/ \E f \in Fds : CloseFd(f) \/ OpenFd(f)

FreeStep == BaseFreeMap \/ BaseFreeTimers \/ BaseFreeDone

(* The steps the loop takes by itself. *)
LoopStep ==
  \/ LoopExit \/ LoopWait \/ EpollTimeout
  \/ (\E f \in Fds : DispatchFd(f)) \/ MapActive
  \/ TimeoutBegin \/ ProcessTimeout
  \/ ActiveBegin \/ ProcessActive \/ CallbackReturn \/ ActiveDone

Next == Client \/ FreeStep \/ LoopStep \/ EpollReady \/ EpollError \/ Tick

Spec == Init /\ [][Next]_vars

(* The thread runs on, callbacks return, and time passes. *)
FairSpec == Spec /\ WF_vars(LoopStep) /\ WF_vars(Tick)

-----------------------------------------------------------------------------
(* Every variable keeps its type; now stays within the bound. *)
TypeOK ==
  /\ m \in Mem
  /\ base \in {"none", "live", "freed"}
  /\ alive \subseteq Events
  /\ open \subseteq Fds
  /\ now \in 0 .. MaxTime
  /\ pc \in {"idle", "free", "top", "wait", "dispatch", "timeout", "active",
            "callback"}
  /\ wake \in Nat \cup {NoWake}
  /\ DOMAIN ready \subseteq Fds
  /\ \A f \in DOMAIN ready : ready[f] \subseteq Interest \cup {"HUP"}
  /\ cur \in [fd : Fds \cup {-1}, what : SUBSET (Interest \cup {"HUP"})]
  /\ walk \in Seq(Events)
  /\ tnow \in Nat
  /\ pos \in Events \cup {NoEvt}
  /\ nxt \in Events \cup {NoEvt}

(* The active list, the ACTIVE flags and event_count_active agree at every *)
(* step, also inside callbacks that add, delete, reassign or free events;  *)
(* and so do the fd map, the REG flags, evt_map.used and event_count,      *)
(* failing EPOLL_CTL_ADD calls included.                                   *)
ListsKept == ActiveListOK(m) /\ MapOK(m)

(* The time tree is sorted, and agrees with the TIMEOUT and REG flags,     *)
(* however events are added again, time out and are rescheduled.           *)
TimeTreeKept == TimeTreeOK(m)

(* The walk of event_process_active only visits live events that are still *)
(* linked in the active list, whatever the callbacks run so far have done. *)
WalkLinked ==
  pc = "active" /\ pos # NoEvt => pos \in alive /\ "ACTIVE" \in m.flags[pos]

(* Events that timed out wait for their callbacks in the order of their    *)
(* deadlines, and no event times out early.                                *)
TimeoutsDue ==
  \A i \in DOMAIN m.evt_active :
    LET e == m.evt_active[i] IN
      m.res[e] = {"TIMEOUT"} =>
        /\ m.evt_timeout[e] <= now
        /\ \A j \in 1 .. i - 1 :
             LET d == m.evt_active[j] IN
               m.res[d] = {"TIMEOUT"} => m.evt_timeout[d] <= m.evt_timeout[e]

(* epoll_wait sleeps until the first deadline has passed ("make sure that  *)
(* the waiting time is enough"), if the milliseconds up to it fit in an    *)
(* s32. It never sleeps more than a millisecond longer, unless it waits    *)
(* for ever: a deadline further away may make it return early or never.    *)
WaitExact ==
  [][pc = "top" /\ pc' = "wait" /\ m.evt_time # <<>> =>
       LET deadline == m.evt_timeout[Head(m.evt_time)]
       IN  /\ deadline - now < S32Max * TicksPerMs => wake' # NoWake /\ wake' >= deadline
           /\ wake' <= deadline + TicksPerMs \/ wake' <= now]_vars

(* As long as the client deletes events before it closes their fd, the     *)
(* epoll set is exactly what the map's events ask for, one event to an fd. *)
EpollMatchesMap ==
  ~CloseEarly =>
    \A f \in Fds :
      IF \E e \in Events : InMap(m, e) /\ m.fd[e] = f
      THEN /\ f \in open
           /\ \A e \in Events : InMap(m, e) /\ m.fd[e] = f =>
                /\ m.epoll[f] = EpollInterest(m.events[e])
                /\ \A d \in Events : InMap(m, d) /\ m.fd[d] = f => d = e
      ELSE m.epoll[f] = {}

(* After wba_evtbase_free no event is left in a state in which             *)
(* wba_event_del or wba_event_free would follow its pointer to the base.   *)
BaseFreeClean ==
  base = "freed" =>
    \A e \in Events : m.flags[e] \cap {"ACTIVE", "TIMEOUT"} = {} /\ ~InMap(m, e)

(* The loop ends with "empty base" only when nothing can fire any more. *)
NoEarlyExit ==
  [][pc = "top" /\ pc' = "idle" =>
       \A e \in Events : ~InMap(m, e) /\ m.flags[e] \cap {"ACTIVE", "TIMEOUT"} = {}]_vars

(* The dispatch of e: from the head of the walk to its callback. *)
Dispatched(e) == pc = "active" /\ pc' = "callback" /\ pos = e

(* A persistent event with an interval is armed again when its callback    *)
(* starts, within the interval and not in the past, unless epoll refuses   *)
(* to take its fd back.                                                    *)
PersistInterval ==
  [][\A e \in Events :
       Dispatched(e) /\ "PERSIST" \in m.events[e] /\ m.timeout[e] # 0 =>
         \/ {"REG", "TIMEOUT"} \subseteq m'.flags[e] /\ m'.evt_timeout[e] >= now
              /\ m'.evt_timeout[e] <= now + m.timeout[e]
         \/ "REG" \notin m'.flags[e] /\ IsIo(m, e)]_vars

(* An event that stays in the map while its fd stays open keeps its epoll  *)
(* registration ("closing fd will cause it to be removed from epoll set,   *)
(* so don't worry about it").                                              *)
RegistrationKept ==
  [][\A e \in Events :
       /\ InMap(m, e) /\ InMap(m', e)
       /\ m.fd[e] \in open \cap open'
       /\ m.epoll[m.fd[e]] # {}
       => m'.epoll[m.fd[e]] # {}]_vars

Running == pc \notin {"idle", "free"}

(* While the loop runs, a timer does not stay armed for ever with a        *)
(* deadline that the clock passes, if the client's intervals fit in an s32 *)
(* as milliseconds: otherwise epoll_wait may never return.                 *)
TimerFires ==
  (\A tv \in Timeouts : tv < S32Max * TicksPerMs) =>
  \A e \in Events : \A d \in 0 .. MaxTime - TicksPerMs :
    (Running /\ "TIMEOUT" \in m.flags[e] /\ m.evt_timeout[e] = d)
      ~> ~(Running /\ "TIMEOUT" \in m.flags[e] /\ m.evt_timeout[e] = d)
=============================================================================
