------------------------------- MODULE EvBase -------------------------------
(***************************************************************************)
(* The data structures of network/wba_event/wba_evloop.c and the           *)
(* operations on them, as operators from a memory to a memory.             *)
(*                                                                         *)
(* A memory m holds the fields of every event (functions on Events), the   *)
(* fields of the one event base, and the kernel's epoll set:               *)
(*   evt_list   the fd map: per slot, the list of registered events        *)
(*   evt_time   the time tree, as the in-order sequence of its nodes       *)
(*   evt_active the active list                                            *)
(*   epoll      per fd, the interest set registered in epoll ({}: none)    *)
(* Time is a number of clock ticks; TicksPerMs of them make the            *)
(* millisecond in which epoll_wait counts.                                 *)
(*                                                                         *)
(* Operators named Bad... are deliberately wrong variants of the operator  *)
(* that follows them; the runs use them to show that a property can fail.  *)
(***************************************************************************)
EXTENDS Integers, Sequences, FiniteSets, FiniteSetsExt, Functions

CONSTANTS Events,      \* the event objects the client may own
          Fds,         \* the file descriptors
          MapSize,     \* EVT_MAP_SIZE, a power of two
          TicksPerMs,  \* clock ticks in a millisecond
          DefWaitMs,   \* EVT_DEF_WAIT_MS
          S32Max       \* the largest s32

ASSUME BaseAssumption ==
  /\ IsFiniteSet(Events)
  /\ Fds \subseteq Nat
  /\ MapSize \in Nat \ {0}
  /\ TicksPerMs \in Nat \ {0}
  /\ S32Max \in Nat \ {0}
  /\ DefWaitMs \in 0 .. S32Max

(* A NULL struct timeval pointer. *)
NoTv == -1

(* The event mask. WBA_EVT_TIMEOUT in evt->events is never tested by the   *)
(* code, so TIMEOUT only occurs in evt->res.                               *)
Io == {"READ", "WRITE", "CLOSED"}
Mask == Io \cup {"PERSIST"}
ListFlags == {"INIT", "REG", "ACTIVE", "TIMEOUT"}
Interest == {"IN", "OUT", "RDHUP"}

Slots == 0 .. MapSize - 1

Mem == [flags : [Events -> SUBSET ListFlags],
        fd : [Events -> Fds \cup {-1}],
        events : [Events -> SUBSET Mask],
        res : [Events -> SUBSET (Io \cup {"TIMEOUT"})],
        timeout : [Events -> Nat],
        evt_timeout : [Events -> Nat],
        evt_list : [Slots -> Seq(Events)],
        evt_time : Seq(Events),
        evt_active : Seq(Events),
        used : Int,
        event_count : Int,
        event_count_active : Int,
        epoll : [Fds -> SUBSET Interest]]

(* Lists and the tree as sequences: the first position that passes a test  *)
(* (0: none), a node linked in at a position, and an entry unlinked. These *)
(* are SequencesExt's; they stand here so that the proofs, whose cost      *)
(* grows with every definition in scope, do without the rest of it.        *)
SelectInSeq(s, Test(_)) ==
  LET I == {i \in 1 .. Len(s) : Test(s[i])}
  IN  IF I # {} THEN Min(I) ELSE 0
InsertAt(s, i, e) == SubSeq(s, 1, i - 1) \o <<e>> \o SubSeq(s, i, Len(s))
RemoveAt(s, i) == SubSeq(s, 1, i - 1) \o SubSeq(s, i + 1, Len(s))
RemoveFirst(s, e) ==
  IF \E i \in 1 .. Len(s) : s[i] = e
  THEN RemoveAt(s, SelectInSeq(s, LAMBDA x : x = e))
  ELSE s

(* A base as wba_evtbase_new leaves it, with no event constructed yet. *)
wba_evtbase_new ==
  [flags |-> [e \in Events |-> {}],
   fd |-> [e \in Events |-> -1],
   events |-> [e \in Events |-> {}],
   res |-> [e \in Events |-> {}],
   timeout |-> [e \in Events |-> 0],
   evt_timeout |-> [e \in Events |-> 0],
   evt_list |-> [i \in Slots |-> <<>>],
   evt_time |-> <<>>,
   evt_active |-> <<>>,
   used |-> 0,
   event_count |-> 0,
   event_count_active |-> 0,
   epoll |-> [f \in Fds |-> {}]]

(* The events that event_map_add and event_map_remove act on. *)
IsIo(m, e) == m.fd[e] >= 0 /\ m.events[e] \cap Io # {}

(* The events linked in the fd map. *)
InMap(m, e) == "REG" \in m.flags[e] /\ IsIo(m, e)

(* The event fields after memset and the assignments of the constructors. *)
ConstructEvent(m, e, fd, events, flags) ==
  [m EXCEPT !.flags[e] = flags,
            !.fd[e] = fd,
            !.events[e] = events,
            !.res[e] = {},
            !.timeout[e] = 0,
            !.evt_timeout[e] = 0]

-----------------------------------------------------------------------------
(* The epoll set. *)

(* The interest that event_register asks of epoll for an event mask. *)
EpollInterest(events) ==
     {i \in {"IN"} : "READ" \in events}
  \cup {i \in {"OUT"} : "WRITE" \in events}
  \cup {i \in {"RDHUP"} : "CLOSED" \in events}

event_register(m, e) == [m EXCEPT !.epoll[m.fd[e]] = EpollInterest(m.events[e])]

BadUnregister(m, e) == m

(* EPOLL_CTL_DEL; when it fails the fd was not in the set. *)
event_unregister(m, e) == [m EXCEPT !.epoll[m.fd[e]] = {}]

-----------------------------------------------------------------------------
(* The active list. *)

event_add_active(m, e, res) ==
  IF "ACTIVE" \in m.flags[e] THEN m
  ELSE [m EXCEPT !.res[e] = res,
                 !.evt_active = Append(@, e),
                 !.flags[e] = @ \cup {"ACTIVE"},
                 !.event_count_active = @ + 1]

event_remove_active(m, e) ==
  IF "ACTIVE" \notin m.flags[e] THEN m
  ELSE [m EXCEPT !.evt_active = RemoveFirst(@, e),
                 !.flags[e] = @ \ {"ACTIVE"},
                 !.event_count_active = @ - 1]

-----------------------------------------------------------------------------
(* The fd map. *)

(* fd & sizemask, for a size that is a power of two. *)
event_map_get_slot(fd) == fd % MapSize

(* registered: whether EPOLL_CTL_ADD succeeds. *)
event_map_add(m, e, registered) ==
  IF ~IsIo(m, e) \/ ~registered THEN m
  ELSE [event_register(m, e) EXCEPT
          !.evt_list[event_map_get_slot(m.fd[e])] = Append(@, e),
          !.used = @ + 1,
          !.event_count = @ + 1]

BadMapRemove(m, e) ==
  IF ~IsIo(m, e) THEN m
  ELSE [event_unregister(m, e) EXCEPT
          !.evt_list[event_map_get_slot(m.fd[e])] = RemoveFirst(@, e),
          !.event_count = @ - 1]

event_map_remove(m, e) ==
  IF ~IsIo(m, e) THEN m
  ELSE [event_unregister(m, e) EXCEPT
          !.evt_list[event_map_get_slot(m.fd[e])] = RemoveFirst(@, e),
          !.used = @ - 1,
          !.event_count = @ - 1]

(* One entry of the walk of a slot's list in event_map_active. *)
event_map_active(m, e, events) ==
  IF m.events[e] \cap events = {} THEN m
  ELSE event_add_active(m, e, m.events[e] \cap events)

-----------------------------------------------------------------------------
(* The time tree. *)

BadTimePosition(m, e) == Len(m.evt_time) + 1

(* The descent goes left only at a strictly later node, so the new node    *)
(* comes in order just before the first later one.                         *)
TimePosition(m, e) ==
  LET later == SelectInSeq(m.evt_time,
                           LAMBDA x : m.evt_timeout[x] > m.evt_timeout[e])
  IN  IF later = 0 THEN Len(m.evt_time) + 1 ELSE later

event_add_timeout(m, e) ==
  IF "TIMEOUT" \in m.flags[e] THEN m
  ELSE [m EXCEPT !.evt_time = InsertAt(@, TimePosition(m, e), e),
                 !.flags[e] = @ \cup {"TIMEOUT"},
                 !.event_count = @ + 1]

event_remove_timeout(m, e) ==
  IF "TIMEOUT" \notin m.flags[e] THEN m
  ELSE [m EXCEPT !.evt_time = RemoveFirst(@, e),
                 !.flags[e] = @ \ {"TIMEOUT"},
                 !.event_count = @ - 1]

(* An s32 keeps the low bits of what is assigned to it. *)
S32(v) == ((v + S32Max + 1) % (2 * S32Max + 2)) - (S32Max + 1)

BadNextTimeout(m, t) ==
  IF m.evt_time = <<>> THEN DefWaitMs
  ELSE S32((m.evt_timeout[Head(m.evt_time)] - t) \div TicksPerMs + 1)

BadRounding(m, t) ==
  IF m.evt_time = <<>> THEN DefWaitMs
  ELSE LET deadline == m.evt_timeout[Head(m.evt_time)]
       IN  IF deadline <= t THEN 0 ELSE S32((deadline - t) \div TicksPerMs)

(* What event_next_timeout returns at time t, in milliseconds: computed as *)
(* a long and returned as an s32.                                          *)
event_next_timeout(m, t) ==
  IF m.evt_time = <<>> THEN DefWaitMs
  ELSE LET deadline == m.evt_timeout[Head(m.evt_time)]
       IN  IF deadline <= t THEN 0
           ELSE S32((deadline - t) \div TicksPerMs + 1)

-----------------------------------------------------------------------------
(* Adding and deleting an event. *)

(* event_add at time t. tv is NoTv, an interval, or (is_absolute) a        *)
(* deadline; registered is the outcome of EPOLL_CTL_ADD, if it is called.  *)
event_add(m, e, tv, is_absolute, t, registered) ==
  LET reg == "REG" \in m.flags[e]
      fails == ~reg /\ IsIo(m, e) /\ ~registered
      mapped == IF reg THEN m ELSE event_map_add(m, e, registered)
      added == [mapped EXCEPT !.flags[e] = @ \cup {"REG"}]
      untimed == event_remove_timeout(added, e)
      interval == IF ~is_absolute /\ "PERSIST" \in m.events[e]
                  THEN tv ELSE m.timeout[e]
      timed == [untimed EXCEPT !.timeout[e] = interval,
                               !.evt_timeout[e] = IF is_absolute THEN tv
                                                  ELSE t + tv]
  IN  CASE fails -> m
        [] ~fails /\ tv = NoTv -> added
        [] ~fails /\ tv # NoTv -> event_add_timeout(timed, e)

event_del(m, e) ==
  LET unlinked == event_remove_active(event_remove_timeout(m, e), e)
      unmapped == IF "REG" \in m.flags[e] THEN event_map_remove(unlinked, e)
                  ELSE unlinked
  IN  IF m.flags[e] \cap {"REG", "ACTIVE"} = {} THEN m
      ELSE [unmapped EXCEPT !.flags[e] = @ \ {"REG"}]

-----------------------------------------------------------------------------
(* The bodies of the loop's two processing passes. *)

(* event_process_timeout, for one due event. *)
TimeOutEvent(m, e) == event_add_active(event_del(m, e), e, {"TIMEOUT"})

BadNextDeadline(m, e, t) ==
  (IF "TIMEOUT" \in m.res[e] THEN m.evt_timeout[e] ELSE t) + m.timeout[e]

(* The next deadline of a persistent event dispatched at time t. *)
NextDeadline(m, e, t) ==
  LET last == IF "TIMEOUT" \in m.res[e] THEN m.evt_timeout[e] ELSE t
      next == last + m.timeout[e]
  IN  IF next < t THEN t + m.timeout[e] ELSE next

(* event_process_active, for one event, up to the call of its callback. *)
DispatchEvent(m, e, t, registered) ==
  LET inactive == event_remove_active(m, e)
  IN  CASE "PERSIST" \notin m.events[e] -> event_del(m, e)
        [] "PERSIST" \in m.events[e] /\ m.timeout[e] = 0 -> inactive
        [] "PERSIST" \in m.events[e] /\ m.timeout[e] # 0 ->
             event_add(inactive, e, NextDeadline(m, e, t), TRUE, t, registered)

-----------------------------------------------------------------------------
(* What the operations keep of the links, flags and counters. *)

(* e is linked in the list s. *)
In(e, s) == \E i \in DOMAIN s : s[i] = e

(* The active list holds each event flagged ACTIVE once, and no other;     *)
(* event_count_active, by which the loop decides to stop, is its length.   *)
ActiveListOK(m) ==
  /\ IsInjective(m.evt_active)
  /\ \A e \in Events : "ACTIVE" \in m.flags[e] <=> In(e, m.evt_active)
  /\ m.event_count_active = Len(m.evt_active)

(* The time tree holds each event flagged TIMEOUT once, in the order of    *)
(* the deadlines, and only events that are registered.                     *)
TimeTreeOK(m) ==
  /\ IsInjective(m.evt_time)
  /\ \A e \in Events : "TIMEOUT" \in m.flags[e] <=> In(e, m.evt_time)
  /\ \A e \in Events : "TIMEOUT" \in m.flags[e] => "REG" \in m.flags[e]
  /\ \A i, j \in DOMAIN m.evt_time :
       i < j => m.evt_timeout[m.evt_time[i]] <= m.evt_timeout[m.evt_time[j]]

(* Each registered event with an fd and an I/O mask is linked once, in the *)
(* slot of its fd, and no other event is; evt_map.used counts them, and    *)
(* event_count counts them and the timers.                                 *)
MapOK(m) ==
  /\ \A i \in Slots :
       /\ IsInjective(m.evt_list[i])
       /\ \A e \in Events :
            In(e, m.evt_list[i]) <=> InMap(m, e) /\ event_map_get_slot(m.fd[e]) = i
  /\ m.used = Cardinality({e \in Events : InMap(m, e)})
  /\ m.event_count = m.used + Len(m.evt_time)
=============================================================================
