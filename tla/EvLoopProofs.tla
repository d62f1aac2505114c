---------------------------- MODULE EvLoopProofs ----------------------------
(***************************************************************************)
(* Theorems about EvLoop for any number of events, fds and slots, as long  *)
(* as a callback does no more to other pending events than add them again: *)
(* with "del" the walk of event_process_active can leave the list (run     *)
(* EvDelOther).                                                            *)
(***************************************************************************)
EXTENDS EvLoop, EvBaseProofs

(* The inductive invariant. Besides the agreement of links, flags and      *)
(* counters it says where event_process_active is: its cursor is the head  *)
(* of the active list, the saved next entry is the entry after it, and     *)
(* inside the callback, when the head is gone, the new head. So the list   *)
(* is empty whenever the loop is outside a pass. The other two passes only *)
(* have live events before them.                                           *)
LoopInv ==
  /\ TypeOK
  /\ Agree(m)
  /\ \A e \in Events : e \notin alive => m.flags[e] = {}
  /\ pc = "active" => pos = FirstActive /\ nxt = NextActive(pos)
  /\ pc = "callback" => /\ pos \in Events /\ "ACTIVE" \notin m.flags[pos]
                        /\ nxt = FirstActive
  /\ pc \in {"idle", "free", "top", "wait"} => m.evt_active = <<>>
  /\ pc \notin {"dispatch", "timeout"} => walk = <<>>
  /\ \A i \in DOMAIN walk : walk[i] \in alive
  /\ base # "live" => pc = "idle"
  /\ BaseFreeClean

LEMMA LoopFields ==
  ASSUME LoopInv
  PROVE  /\ m.evt_list \in [Slots -> Seq(Events)]
         /\ m.evt_time \in Seq(Events)
         /\ m.evt_timeout \in [Events -> Nat]
         /\ m.epoll \in [Fds -> SUBSET Interest]
<1>1. Agree(m)
  BY DEF LoopInv
<1> QED BY <1>1, Fields

-----------------------------------------------------------------------------
(* The saved entry after the head of a list, and what the head's removal   *)
(* leaves.                                                                 *)
LEMMA HeadOfList ==
  ASSUME NEW s \in Seq(Events), s # <<>>, IsInjective(s)
  PROVE  /\ Head(s) = s[1] /\ s[1] \in Events /\ In(s[1], s)
         /\ Len(s) \in Nat /\ 1 \in DOMAIN s
         /\ NextIn(s, s[1]) = IF Len(s) = 1 THEN NoEvt ELSE s[2]
         /\ RemoveFirst(s, s[1]) \in Seq(Events)
         /\ Len(RemoveFirst(s, s[1])) = Len(s) - 1
         /\ Len(s) > 1 => RemoveFirst(s, s[1])[1] = s[2] /\ s[2] \in Events
<1>1. Len(s) \in Nat /\ DOMAIN s = 1 .. Len(s) /\ Len(s) > 0
  BY EmptyIs, LenIs
<1>2. Head(s) = s[1] /\ s[1] \in Events /\ In(s[1], s)
  BY <1>1, ElementIs DEF In
<1>3. \A i \in 1 .. Len(s) : s[i] = s[1] => i = 1
  BY <1>1 DEF IsInjective
<1>8. NextIn(s, s[1]) = IF Len(s) = 1 THEN NoEvt ELSE s[2]
  <2> DEFINE c == CHOOSE i \in DOMAIN s : s[i] = s[1]
  <2>1. c = 1
    BY <1>1, <1>3
  <2>2. NextIn(s, s[1]) = IF c = Len(s) THEN NoEvt ELSE s[c + 1]
    BY <1>2 DEF NextIn
  <2> HIDE DEF c
  <2>3. c + 1 = 2
    BY <2>1
  <2> QED BY <2>1, <2>2, <2>3
<1> DEFINE r == RemoveFirst(s, s[1])
<1>4. PICK k \in 1 .. Len(s) :
        /\ s[k] = s[1] /\ r \in Seq(Events) /\ Len(r) = Len(s) - 1
        /\ \A i \in 1 .. Len(s) - 1 : r[i] = IF i < k THEN s[i] ELSE s[i + 1]
  BY <1>2, RemoveFirstIs
<1>5. k = 1
  BY <1>3, <1>4
<1> HIDE DEF r
<1>6. ASSUME Len(s) > 1 PROVE r[1] = s[2] /\ s[2] \in Events
  <2>1. 1 \in 1 .. Len(s) - 1 /\ 2 \in 1 .. Len(s)
    BY <1>1, <1>6
  <2>2. r[1] = s[1 + 1]
    BY <1>4, <1>5, <2>1
  <2>3. s[2] \in Events
    BY <2>1, ElementIs
  <2> QED BY <2>2, <2>3
<1>7. 1 \in DOMAIN s
  BY <1>1
<1> QED BY <1>1, <1>2, <1>4, <1>6, <1>7, <1>8, Zenon DEF r

(* A call of the client that changes one event, and not the active list. *)
LEMMA ClientCall ==
  ASSUME LoopInv, ClientRuns, NEW e \in Events,
         Agree(m'), m'.evt_active = m.evt_active,
         \A x \in Events : x # e => m'.flags[x] = m.flags[x],
         alive' \subseteq Events, e \notin alive' => m'.flags[e] = {},
         \A x \in Events : x # e => (x \in alive' <=> x \in alive),
         base = "freed" => \A x \in Events : /\ m'.flags[x] \cap {"ACTIVE", "TIMEOUT"} = {}
                                             /\ ~InMap(m', x),
         UNCHANGED <<base, open, now, pc, locals>>
  PROVE  LoopInv'
<1>1. TypeOK'
  <2>1. m' \in Mem
    BY DEF Agree
  <2> QED BY <2>1 DEF LoopInv, TypeOK, locals
<1>2. \A x \in Events : "ACTIVE" \in m'.flags[x] <=> "ACTIVE" \in m.flags[x]
  BY DEF LoopInv, Agree, ActiveListOK
<1>3. (\A x \in Events : x \notin alive => m.flags[x] = {})'
  BY DEF LoopInv
<1>4. (pc = "callback" => /\ pos \in Events /\ "ACTIVE" \notin m.flags[pos]
                          /\ nxt = FirstActive)'
  BY <1>2 DEF LoopInv, FirstActive, locals
<1>5. pc' # "active"
  BY DEF ClientRuns
<1>6. (pc \in {"idle", "free", "top", "wait"} => m.evt_active = <<>>)'
  BY DEF LoopInv
<1>7. (base # "live" => pc = "idle")' /\ BaseFreeClean'
  BY DEF LoopInv, BaseFreeClean
<1>8. walk' = <<>> /\ (\A i \in DOMAIN walk : walk[i] \in alive)'
  BY DEF LoopInv, ClientRuns, locals
<1> QED BY <1>1, <1>3, <1>4, <1>5, <1>6, <1>7, <1>8, SMTT(30) DEF LoopInv

(* A step that leaves the memory, the events and the base alone. *)
LEMMA LocalStep ==
  ASSUME LoopInv, UNCHANGED <<m, base, alive, open>>, TypeOK',
         base # "live" => pc' = "idle",
         pc' = "active" => pos' = FirstActive /\ nxt' = NextActive(pos'),
         pc' = "callback" => pc = "callback" /\ pos' = pos /\ nxt' = nxt,
         pc' \in {"idle", "free", "top", "wait"} => m.evt_active = <<>>,
         pc' \notin {"dispatch", "timeout"} => walk' = <<>>,
         \A i \in DOMAIN walk' : walk'[i] \in alive
  PROVE  LoopInv'
<1>1. Agree(m') /\ (\A e \in Events : e \notin alive => m.flags[e] = {})' /\ BaseFreeClean'
  BY DEF LoopInv, BaseFreeClean
<1>2. (pc = "active" => pos = FirstActive /\ nxt = NextActive(pos))'
  BY DEF FirstActive, NextActive
<1>3. (pc = "callback" => /\ pos \in Events /\ "ACTIVE" \notin m.flags[pos]
                          /\ nxt = FirstActive)'
  BY DEF LoopInv, FirstActive
<1> QED BY <1>1, <1>2, <1>3, SMTT(30) DEF LoopInv

(* An event that the client may delete or assign is not active. *)
LEMMA TouchedNotActive ==
  ASSUME LoopInv, OthersOps \subseteq {"add"}, NEW e \in Events,
         NEW op \in {"del", "assign"}, MayTouch(e, op)
  PROVE  "ACTIVE" \notin m.flags[e]
<1>1. CASE pc = "idle"
  <2>1. m.evt_active = <<>>
    BY <1>1 DEF LoopInv
  <2>2. ~In(e, <<>>)
    BY DEF In
  <2> QED BY <2>1, <2>2 DEF LoopInv, Agree, ActiveListOK
<1>2. CASE pc = "callback" /\ (e = pos \/ ~Pending(e))
  BY <1>2 DEF LoopInv, Pending
<1> QED BY <1>1, <1>2 DEF MayTouch, ClientRuns

LEMMA EventNewStep ==
  ASSUME LoopInv, NEW e \in Events, EventNew(e)
  PROVE  LoopInv'
<1>1. PICK u \in Uses[e] : m' = ConstructEvent(m, e, u[1], u[2], {"INIT"})
  BY DEF EventNew
<1>2. u[1] \in Fds \cup {-1} /\ u[2] \in SUBSET Mask
  BY LoopAssumption
<1>3. Agree(m) /\ m.flags[e] = {}
  BY DEF LoopInv, EventNew
<1>4. {"INIT"} \in SUBSET {"INIT"} /\ m.flags[e] \cap {"REG", "ACTIVE", "TIMEOUT"} = {}
  BY <1>3
<1>5. /\ Agree(m') /\ m'.evt_active = m.evt_active
      /\ \A x \in Events : x # e => m'.flags[x] = m.flags[x]
  <2>1. ConstructedAt(m, ConstructEvent(m, e, u[1], u[2], {"INIT"}), e, {"INIT"})
    BY <1>2, <1>3, <1>4, ConstructAgrees, SMTT(30)
  <2> QED BY <1>1, <2>1 DEF ConstructedAt
<1>6. alive \subseteq Events /\ alive' = alive \cup {e} /\ base # "freed" /\ ClientRuns
      /\ UNCHANGED <<base, open, now, pc, locals>>
  BY DEF LoopInv, TypeOK, EventNew
<1> QED BY <1>5, <1>6, ClientCall, SMTT(30)

LEMMA EventAssignStep ==
  ASSUME LoopInv, OthersOps \subseteq {"add"}, NEW e \in Events, EventAssign(e)
  PROVE  LoopInv'
<1>1. PICK u \in Uses[e] : m' = ConstructEvent(m, e, u[1], u[2], {"INIT"})
  BY DEF EventAssign
<1>2. u[1] \in Fds \cup {-1} /\ u[2] \in SUBSET Mask
  BY LoopAssumption
<1>3. Agree(m) /\ "ACTIVE" \notin m.flags[e] /\ "REG" \notin m.flags[e]
  BY TouchedNotActive DEF LoopInv, EventAssign
<1>4. {"INIT"} \in SUBSET {"INIT"} /\ m.flags[e] \cap {"REG", "ACTIVE", "TIMEOUT"} = {}
  BY <1>3 DEF Agree, TimeTreeOK
<1>5. /\ Agree(m') /\ m'.evt_active = m.evt_active
      /\ \A x \in Events : x # e => m'.flags[x] = m.flags[x]
  <2>1. ConstructedAt(m, ConstructEvent(m, e, u[1], u[2], {"INIT"}), e, {"INIT"})
    BY <1>2, <1>3, <1>4, ConstructAgrees, SMTT(30)
  <2> QED BY <1>1, <2>1, SMTT(30) DEF ConstructedAt
<1>6. alive \subseteq Events /\ alive' = alive /\ e \in alive /\ base # "freed" /\ ClientRuns
      /\ UNCHANGED <<base, open, now, pc, locals>>
  BY SMTT(30) DEF LoopInv, TypeOK, EventAssign, MayTouch
<1> QED BY <1>5, <1>6, ClientCall, SMTT(30)

LEMMA EventAddStep ==
  ASSUME LoopInv, NEW e \in Events, EventAdd(e)
  PROVE  LoopInv'
<1>1. PICK tv \in Timeouts \cup {NoTv}, registered \in AddOutcomes(e) :
        m' = event_add(m, e, tv, FALSE, now, registered)
  BY Zenon DEF EventAdd
<1>2. /\ tv \in Nat \cup {NoTv} /\ registered \in BOOLEAN /\ FALSE \in BOOLEAN
      /\ now \in Nat /\ Agree(m)
  <2>1. registered \in BOOLEAN
    BY LoopAssumption, Zenon DEF AddOutcomes
  <2>2. now \in Nat
    BY LoopAssumption DEF LoopInv, TypeOK
  <2> QED BY <2>1, <2>2, LoopAssumption, SMTT(30) DEF LoopInv
<1>3. AddedTo(m, m', e)
  BY <1>1, <1>2, AddIs, Zenon
<1>4. alive \subseteq Events /\ alive' = alive /\ e \in alive /\ base # "freed" /\ ClientRuns
      /\ UNCHANGED <<base, open, now, pc, locals>>
  BY DEF LoopInv, TypeOK, EventAdd, MayTouch
<1>5. /\ Agree(m') /\ m'.evt_active = m.evt_active
      /\ \A x \in Events : x # e => m'.flags[x] = m.flags[x]
  BY <1>3, SMTT(30) DEF AddedTo
<1> QED BY <1>4, <1>5, ClientCall

LEMMA EventDelStep ==
  ASSUME LoopInv, OthersOps \subseteq {"add"}, NEW e \in Events, EventDel(e)
  PROVE  LoopInv'
<1>1. "ACTIVE" \notin m.flags[e] /\ Agree(m)
  BY TouchedNotActive, SMTT(30) DEF LoopInv, EventDel
<1>2. m' = event_del(m, e)
  BY DEF EventDel
<1>3. /\ Agree(m') /\ SameFields(m, m') /\ m'.evt_active = m.evt_active
      /\ FlagsAt(m, m', e, m.flags[e] \ {"REG", "ACTIVE", "TIMEOUT"})
  BY <1>1, <1>2, DelIs, SMTT(30)
<1>4. /\ \A x \in Events : x # e => m'.flags[x] = m.flags[x]
      /\ \A x \in Events : m'.flags[x] \subseteq m.flags[x]
  BY <1>3 DEF FlagsAt
<1>5. \A x \in Events : InMap(m', x) => InMap(m, x)
  BY <1>3, <1>4, SMTT(30) DEF SameFields, InMap, IsIo
<1>6. base = "freed" => \A x \in Events : /\ m'.flags[x] \cap {"ACTIVE", "TIMEOUT"} = {}
                                          /\ ~InMap(m', x)
  BY <1>4, <1>5, SMTT(30) DEF LoopInv, BaseFreeClean
<1>7. alive \subseteq Events /\ alive' = alive /\ e \in alive /\ ClientRuns
      /\ UNCHANGED <<base, open, now, pc, locals>>
  BY DEF LoopInv, TypeOK, EventDel, MayTouch
<1> QED BY <1>3, <1>4, <1>6, <1>7, ClientCall, SMTT(30)

LEMMA EventFreeStep ==
  ASSUME LoopInv, OthersOps \subseteq {"add"}, NEW e \in Events, EventFree(e)
  PROVE  LoopInv'
<1> DEFINE d == event_del(m, e)
<1>1. "ACTIVE" \notin m.flags[e] /\ Agree(m)
  BY TouchedNotActive, SMTT(30) DEF LoopInv, EventFree
<1>2. /\ Agree(d) /\ SameFields(m, d) /\ d.evt_active = m.evt_active
      /\ FlagsAt(m, d, e, m.flags[e] \ {"REG", "ACTIVE", "TIMEOUT"})
  BY <1>1, DelIs
<1>3. m' = ConstructEvent(d, e, -1, {}, {})
  BY DEF EventFree
<1> HIDE DEF d
<1>4. d.flags[e] \cap {"REG", "ACTIVE", "TIMEOUT"} = {}
  BY <1>2 DEF FlagsAt
<1>5. /\ Agree(m') /\ m'.evt_active = d.evt_active /\ m'.flags[e] = {}
      /\ \A x \in Events : x # e => /\ m'.flags[x] = d.flags[x] /\ m'.fd[x] = d.fd[x]
                                    /\ m'.events[x] = d.events[x]
  <2>1. -1 \in Fds \cup {-1} /\ {} \in SUBSET Mask /\ {} \in SUBSET {"INIT"}
    OBVIOUS
  <2>2. ConstructedAt(d, ConstructEvent(d, e, -1, {}, {}), e, {})
    BY <1>2, <1>4, <2>1, ConstructAgrees, SMTT(30)
  <2> QED BY <1>3, <2>2, SMTT(30) DEF ConstructedAt
<1>6. \A x \in Events : x # e => m'.flags[x] = m.flags[x]
  BY <1>2, <1>5, SMTT(30) DEF FlagsAt
<1>7. \A x \in Events : x # e => (InMap(m', x) <=> InMap(m, x))
  BY <1>2, <1>5, <1>6, SMTT(30) DEF SameFields, InMap, IsIo
<1>8. base = "freed" => \A x \in Events : /\ m'.flags[x] \cap {"ACTIVE", "TIMEOUT"} = {}
                                          /\ ~InMap(m', x)
  <2>1. ~InMap(m', e)
    BY <1>5 DEF InMap
  <2> QED BY <1>5, <1>6, <1>7, <2>1, SMTT(30) DEF LoopInv, BaseFreeClean
<1>9. alive \subseteq Events /\ alive' = alive \ {e} /\ ClientRuns
      /\ UNCHANGED <<base, open, now, pc, locals>>
  BY DEF LoopInv, TypeOK, EventFree, MayTouch
<1>10. m'.evt_active = m.evt_active
  BY <1>2, <1>5, SMTT(30)
<1> QED BY <1>5, <1>6, <1>8, <1>9, <1>10, ClientCall, SMTT(30)

(* Taking a descriptor out of the epoll set. *)
LEMMA CloseFdStep ==
  ASSUME LoopInv, NEW f \in Fds, CloseFd(f)
  PROVE  LoopInv'
<1>1. m' = [m EXCEPT !.epoll[f] = {}] /\ Agree(m) /\ m \in Mem
  BY DEF CloseFd, LoopInv, Agree
<1>2. Agree(m') /\ m'.evt_active = m.evt_active /\ m'.flags = m.flags
  BY <1>1, EpollFrame
<1>3. m'.fd = m.fd /\ m'.events = m.events
  BY <1>1 DEF Mem
<1>4. /\ open' \subseteq Fds /\ ClientRuns
      /\ UNCHANGED <<base, alive, now, pc, locals>>
  BY DEF LoopInv, TypeOK, CloseFd
<1>5. TypeOK'
  BY <1>2, <1>4, SMTT(30) DEF LoopInv, TypeOK, Agree, locals
<1>6. BaseFreeClean'
  BY <1>2, <1>3, <1>4, SMTT(30) DEF LoopInv, BaseFreeClean, InMap, IsIo
<1>7. (pc = "callback" => /\ pos \in Events /\ "ACTIVE" \notin m.flags[pos]
                          /\ nxt = FirstActive)'
  BY <1>2, <1>4 DEF LoopInv, FirstActive, locals
<1>8. pc' # "active"
  BY <1>4 DEF ClientRuns
<1> QED BY <1>2, <1>4, <1>5, <1>6, <1>7, <1>8, SMTT(30) DEF LoopInv, locals

LEMMA OpenFdStep ==
  ASSUME LoopInv, NEW f \in Fds, OpenFd(f)
  PROVE  LoopInv'
<1>1. /\ open' \subseteq Fds /\ ClientRuns
      /\ UNCHANGED <<m, base, alive, now, pc, locals>>
  BY DEF LoopInv, TypeOK, OpenFd
<1>2. TypeOK'
  BY <1>1 DEF LoopInv, TypeOK, locals
<1>3. BaseFreeClean'
  BY <1>1 DEF LoopInv, BaseFreeClean
<1>4. (pc = "callback" => /\ pos \in Events /\ "ACTIVE" \notin m.flags[pos]
                          /\ nxt = FirstActive)'
  BY <1>1 DEF LoopInv, FirstActive, locals
<1>5. pc' # "active"
  BY <1>1, SMTT(30) DEF ClientRuns
<1> QED BY <1>1, <1>2, <1>3, <1>4, <1>5, SMTT(30) DEF LoopInv, locals

LEMMA BaseNewStep ==
  ASSUME LoopInv, BaseNew
  PROVE  LoopInv'
<1>1. /\ base' = "live" /\ pc = "idle" /\ UNCHANGED <<m, alive, open, now, pc, locals>>
  BY DEF BaseNew
<1>2. TypeOK'
  BY <1>1 DEF LoopInv, TypeOK, locals
<1>3. BaseFreeClean'
  BY <1>1 DEF BaseFreeClean
<1> QED BY <1>1, <1>2, <1>3, SMTT(30) DEF LoopInv, locals

(* The end of wba_evtbase_free. *)
LEMMA BaseFreeDoneStep ==
  ASSUME LoopInv, BaseFreeDone
  PROVE  LoopInv'
<1>1. /\ base' = "freed" /\ pc = "free" /\ pc' = "idle" /\ m.evt_time = <<>>
      /\ \A i \in Slots : m.evt_list[i] = <<>>
      /\ UNCHANGED <<m, alive, open, now, locals>>
  BY DEF BaseFreeDone
<1>2. TypeOK'
  BY <1>1 DEF LoopInv, TypeOK, locals
<1>3. BaseFreeClean'
  <2> SUFFICES ASSUME NEW e \in Events
               PROVE  /\ "ACTIVE" \notin m.flags[e] /\ "TIMEOUT" \notin m.flags[e]
                      /\ ~InMap(m, e)
    BY <1>1 DEF BaseFreeClean
  <2>1. ~In(e, <<>>)
    BY DEF In
  <2>2. "ACTIVE" \notin m.flags[e]
    BY <1>1, <2>1, SMTT(30) DEF LoopInv, Agree, ActiveListOK
  <2>3. "TIMEOUT" \notin m.flags[e]
    BY <1>1, <2>1, SMTT(30) DEF LoopInv, Agree, TimeTreeOK
  <2>4. ~InMap(m, e)
    <3>1. InMap(m, e) => event_map_get_slot(m.fd[e]) \in Slots
      BY SlotOfIo DEF LoopInv, Agree, InMap
    <3> QED BY <1>1, <2>1, <3>1, SMTT(30) DEF LoopInv, Agree, MapOK
  <2> QED BY <2>2, <2>3, <2>4
<1> QED BY <1>1, <1>2, <1>3 DEF LoopInv, locals

(* A step of a pass, or of wba_evtbase_free, that changes the memory. *)
LEMMA MemStep ==
  ASSUME LoopInv, Agree(m'), pc \in {"free", "dispatch", "timeout"},
         UNCHANGED <<base, alive, open, now, pc, wake, ready, cur, tnow, pos, nxt>>,
         \A x \in Events : x \notin alive => m'.flags[x] = {},
         pc = "free" => m'.evt_active = <<>> /\ walk' = walk,
         walk' \in Seq(Events), \A i \in DOMAIN walk' : walk'[i] \in alive
  PROVE  LoopInv'
<1>1. TypeOK'
  BY SMTT(30) DEF LoopInv, TypeOK, Agree
<1>2. BaseFreeClean' /\ base = "live"
  BY SMTT(30) DEF LoopInv, BaseFreeClean
<1> QED BY <1>1, <1>2, SMTT(30) DEF LoopInv

(* event_del of an event, by wba_evtbase_free. *)
LEMMA FreeStepKeeps ==
  ASSUME LoopInv, BaseFreeMap \/ BaseFreeTimers
  PROVE  LoopInv'
<1>1. PICK e \in Events : m' = event_del(m, e)
  <2>1. \A s \in Seq(Events) : s # <<>> => Head(s) \in Events
    OBVIOUS
  <2>2. m.evt_time \in Seq(Events) /\ \A i \in Slots : m.evt_list[i] \in Seq(Events)
    BY LoopFields
  <2> QED BY <2>1, <2>2 DEF BaseFreeMap, BaseFreeTimers
<1>2. Agree(m) /\ pc = "free" /\ UNCHANGED <<base, alive, open, now, pc, locals>>
  BY DEF LoopInv, BaseFreeMap, BaseFreeTimers
<1>3. /\ Agree(m') /\ FlagsAt(m, m', e, m.flags[e] \ {"REG", "ACTIVE", "TIMEOUT"})
      /\ m'.evt_active = IF "ACTIVE" \in m.flags[e]
                         THEN RemoveFirst(m.evt_active, e) ELSE m.evt_active
  BY <1>1, <1>2, DelIs, SMTT(30)
<1>4. m.evt_active = <<>> /\ "ACTIVE" \notin m.flags[e]
  <2>1. ~In(e, <<>>)
    BY DEF In
  <2> QED BY <1>2, <2>1, SMTT(30) DEF LoopInv, Agree, ActiveListOK
<1>5. \A x \in Events : x \notin alive => m'.flags[x] = {}
  BY <1>3 DEF FlagsAt, LoopInv
<1>6. walk' = walk /\ walk \in Seq(Events) /\ \A i \in DOMAIN walk : walk[i] \in alive
  BY <1>2 DEF locals, LoopInv, TypeOK
<1> QED BY <1>2, <1>3, <1>4, <1>5, <1>6, MemStep, SMTT(30) DEF locals

(* What is left of a walk. *)
LEMMA TailOfWalk ==
  ASSUME LoopInv, walk # <<>>
  PROVE  /\ Head(walk) \in Events /\ Head(walk) \in alive
         /\ Tail(walk) \in Seq(Events)
         /\ \A i \in DOMAIN Tail(walk) : Tail(walk)[i] \in alive
<1>1. walk \in Seq(Events) /\ \A i \in DOMAIN walk : walk[i] \in alive
  BY DEF LoopInv, TypeOK
<1>2. /\ Len(walk) \in Nat /\ Len(walk) > 0 /\ DOMAIN walk = 1 .. Len(walk)
      /\ Head(walk) = walk[1] /\ 1 \in DOMAIN walk
  BY <1>1, EmptyIs, LenIs, SMTT(30)
<1>3. /\ Tail(walk) \in Seq(Events) /\ Len(Tail(walk)) = Len(walk) - 1
      /\ \A i \in 1 .. Len(walk) - 1 : Tail(walk)[i] = walk[i + 1]
  BY <1>1, HeadTailIs
<1>4. DOMAIN Tail(walk) = 1 .. Len(walk) - 1
  BY <1>3, LenIs
<1>5. \A i \in DOMAIN Tail(walk) : i + 1 \in DOMAIN walk /\ Tail(walk)[i] = walk[i + 1]
  BY <1>2, <1>3, <1>4
<1> QED BY <1>1, <1>2, <1>3, <1>5, SMTT(30)

(* The entries of a slot's list, or of the time tree, are live events. *)
LEMMA LinkedAlive ==
  ASSUME LoopInv
  PROVE  /\ \A i \in DOMAIN m.evt_time : m.evt_time[i] \in alive
         /\ \A k \in Slots : \A i \in DOMAIN m.evt_list[k] : m.evt_list[k][i] \in alive
<1>1. /\ m.evt_time \in Seq(Events)
      /\ \A k \in Slots : m.evt_list[k] \in Seq(Events)
      /\ \A e \in Events : m.flags[e] # {} => e \in alive
  BY ZenonT(30) DEF LoopInv, TypeOK, Mem
<1>2. \A s \in Seq(Events) : \A i \in DOMAIN s : s[i] \in Events /\ In(s[i], s)
  BY ElementIs, LenIs, SMTT(30) DEF In
<1>3. \A e \in Events : In(e, m.evt_time) => "TIMEOUT" \in m.flags[e]
  BY SMTT(30) DEF LoopInv, Agree, TimeTreeOK
<1>4. \A k \in Slots : \A e \in Events : In(e, m.evt_list[k]) => "REG" \in m.flags[e]
  BY SMTT(30) DEF LoopInv, Agree, MapOK, InMap
<1>5. \A i \in DOMAIN m.evt_time : m.evt_time[i] \in alive
  BY <1>1, <1>2, <1>3, SMTT(30)
<1>6. \A k \in Slots : \A i \in DOMAIN m.evt_list[k] : m.evt_list[k][i] \in alive
  BY <1>1, <1>2, <1>4, SMTT(30)
<1> QED BY <1>5, <1>6

LEMMA MapActiveStep ==
  ASSUME LoopInv, MapActive
  PROVE  LoopInv'
<1> DEFINE e == Head(walk)
           ev == EventsOf(cur.what)
<1>1. /\ pc = "dispatch" /\ walk # <<>> /\ walk' = Tail(walk)
      /\ m' = event_map_active(m, e, ev)
      /\ UNCHANGED <<base, alive, open, now, pc, wake, ready, cur, tnow, pos, nxt>>
  BY DEF MapActive
<1>2. /\ e \in Events /\ e \in alive /\ Tail(walk) \in Seq(Events)
      /\ \A i \in DOMAIN Tail(walk) : Tail(walk)[i] \in alive
  BY <1>1, TailOfWalk, ZenonT(30)
<1>3. ev \in SUBSET Io /\ Agree(m)
  BY DEF EventsOf, Io, LoopInv
<1> HIDE DEF e, ev
<1>4. Agree(m') /\ \A x \in Events : x # e => m'.flags[x] = m.flags[x]
  BY <1>1, <1>2, <1>3, MapActiveIs, SMTT(30)
<1>5. \A x \in Events : x \notin alive => m'.flags[x] = {}
  BY <1>2, <1>4, SMTT(30) DEF LoopInv
<1> QED BY <1>1, <1>2, <1>4, <1>5, MemStep, SMTT(30)

LEMMA ProcessTimeoutStep ==
  ASSUME LoopInv, ProcessTimeout
  PROVE  LoopInv'
<1> DEFINE e == Head(walk)
<1>1. /\ pc = "timeout" /\ walk # <<>> /\ walk' = Tail(walk)
      /\ m' = TimeOutEvent(m, e)
      /\ UNCHANGED <<base, alive, open, now, pc, wake, ready, cur, tnow, pos, nxt>>
  BY DEF ProcessTimeout
<1>2. /\ e \in Events /\ e \in alive /\ Tail(walk) \in Seq(Events)
      /\ \A i \in DOMAIN Tail(walk) : Tail(walk)[i] \in alive
  BY <1>1, TailOfWalk, SMTT(30)
<1>3. Agree(m)
  BY DEF LoopInv
<1> HIDE DEF e
<1>4. Agree(m') /\ \A x \in Events : x # e => m'.flags[x] = m.flags[x]
  BY <1>1, <1>2, <1>3, TimeOutEventIs, ZenonT(60)
<1>5. \A x \in Events : x \notin alive => m'.flags[x] = {}
  BY <1>2, <1>4, SMTT(30) DEF LoopInv
<1>6. /\ walk' \in Seq(Events) /\ \A i \in DOMAIN walk' : walk'[i] \in alive
      /\ pc \in {"free", "dispatch", "timeout"} /\ pc # "free"
  BY <1>1, <1>2
<1> QED BY <1>1, <1>4, <1>5, <1>6, MemStep, ZenonT(60)

(* Where the cursors of event_process_active point. *)
LEMMA Cursors ==
  ASSUME LoopInv
  PROVE  /\ FirstActive \in Events \cup {NoEvt}
         /\ NextActive(FirstActive) \in Events \cup {NoEvt}
         /\ FirstActive = NoEvt => m.evt_active = <<>>
         /\ FirstActive # NoEvt => "ACTIVE" \in m.flags[FirstActive]
<1> DEFINE s == m.evt_active
<1>1. s \in Seq(Events) /\ IsInjective(s)
      /\ \A e \in Events : "ACTIVE" \in m.flags[e] <=> In(e, s)
  BY SMTT(30) DEF LoopInv, Agree, ActiveListOK, TypeOK, Mem
<1>2. CASE s = <<>>
  <2>1. FirstActive = NoEvt
    BY <1>2 DEF FirstActive
  <2> QED BY <1>2, <2>1 DEF NextActive
<1>3. CASE s # <<>>
  <2>1. FirstActive = Head(s)
    BY <1>3 DEF FirstActive
  <2> HIDE DEF s
  <2>2. /\ Head(s) = s[1] /\ s[1] \in Events /\ In(s[1], s) /\ Len(s) \in Nat
        /\ NextIn(s, s[1]) = IF Len(s) = 1 THEN NoEvt ELSE s[2]
        /\ Len(s) > 1 => s[2] \in Events
    BY <1>1, <1>3, HeadOfList, ZenonT(60)
  <2>3. FirstActive = s[1] /\ FirstActive # NoEvt
    BY <2>1, <2>2, LoopAssumption
  <2>4. NextActive(FirstActive) = NextIn(s, s[1])
    BY <2>3 DEF NextActive, s
  <2>5. Len(s) # 1 => Len(s) > 1
    <3>1. Len(s) \in Nat /\ Len(s) # 0
      BY <1>1, <1>3, EmptyIs, LenIs
    <3>2. \A n \in Nat : n # 0 /\ n # 1 => n > 1
      OBVIOUS
    <3> QED BY <3>1, <3>2, Zenon
  <2>6. NextIn(s, s[1]) \in Events \cup {NoEvt}
    BY <2>2, <2>5, SMTT(30)
  <2> QED BY <1>1, <2>2, <2>3, <2>4, <2>6, ZenonT(60)
<1> QED BY <1>2, <1>3, SMTT(30)

(* The dispatch of the head of the active list leaves its successor, which *)
(* the walk has saved, as the new head.                                    *)
LEMMA ProcessActiveStep ==
  ASSUME LoopInv, ProcessActive
  PROVE  LoopInv'
<1> DEFINE s == m.evt_active
<1>1. /\ pc = "active" /\ pos # NoEvt /\ pc' = "callback"
      /\ UNCHANGED <<base, alive, open, now, locals>>
  BY DEF ProcessActive
<1>2. PICK registered \in AddOutcomes(pos) : m' = DispatchEvent(m, pos, now, registered)
  BY DEF ProcessActive
<1>3. /\ registered \in BOOLEAN /\ now \in Nat /\ Agree(m) /\ pos \in Events
      /\ pos = FirstActive /\ nxt = NextActive(pos) /\ "ACTIVE" \in m.flags[pos]
  <2>1. registered \in BOOLEAN
    BY LoopAssumption, Zenon DEF AddOutcomes
  <2>2. now \in Nat
    BY LoopAssumption, SMTT(30) DEF LoopInv, TypeOK
  <2>3. Agree(m) /\ pos \in Events /\ pos = FirstActive /\ nxt = NextActive(pos)
    BY <1>1 DEF LoopInv, TypeOK
  <2> QED BY <1>1, <2>1, <2>2, <2>3, Cursors, SMTT(30)
<1>4. /\ Agree(m') /\ m'.evt_active = RemoveFirst(s, pos)
      /\ "ACTIVE" \notin m'.flags[pos]
      /\ \A x \in Events : x # pos => m'.flags[x] = m.flags[x]
  BY <1>2, <1>3, DispatchEventIs, SMTT(30)
<1>5. s \in Seq(Events) /\ IsInjective(s) /\ s # <<>>
  BY <1>1, <1>3, ZenonT(30) DEF LoopInv, Agree, ActiveListOK, TypeOK, Mem, FirstActive
<1>6. pos = Head(s) /\ nxt = NextIn(s, pos)
  BY <1>1, <1>3, <1>5, ZenonT(30) DEF FirstActive, NextActive
<1> HIDE DEF s
<1> DEFINE r == RemoveFirst(s, s[1])
<1>7. /\ Head(s) = s[1] /\ Len(s) \in Nat
      /\ NextIn(s, s[1]) = IF Len(s) = 1 THEN NoEvt ELSE s[2]
      /\ r \in Seq(Events) /\ Len(r) = Len(s) - 1
      /\ Len(s) > 1 => r[1] = s[2]
  BY <1>5, HeadOfList, Zenon
<1>8. nxt' = FirstActive'
  <2>1. m'.evt_active = r /\ nxt' = nxt /\ nxt = IF Len(s) = 1 THEN NoEvt ELSE s[2]
    BY <1>1, <1>4, <1>6, <1>7, SMTT(30) DEF locals
  <2> HIDE DEF r
  <2>2. CASE Len(s) = 1
    <3>1. r = <<>>
      BY <1>7, <2>2, EmptyIs, SMTT(30)
    <3> QED BY <2>1, <2>2, <3>1 DEF FirstActive
  <2>3. CASE Len(s) # 1
    <3>1. Len(r) \in Nat
      BY <1>7
    <3>2. Len(s) > 1 /\ Len(r) > 0
      BY <1>5, <1>7, <2>3, <3>1, EmptyIs, SMTT(30)
    <3>3. r # <<>> /\ Head(r) = r[1]
      BY <1>7, <3>2, SMTT(30)
    <3> QED BY <1>7, <2>1, <2>3, <3>2, <3>3, SMTT(30) DEF FirstActive
  <2> QED BY <2>2, <2>3, SMTT(30)
<1>9. \A x \in Events : x \notin alive => m'.flags[x] = {}
  <2>1. pos \in alive
    BY <1>3, SMTT(30) DEF LoopInv
  <2> QED BY <1>4, <2>1, SMTT(30) DEF LoopInv
<1>10. TypeOK'
  BY <1>1, <1>4, SMTT(30) DEF LoopInv, TypeOK, Agree, locals
<1>11. base = "live" /\ BaseFreeClean'
  BY <1>1, SMTT(30) DEF LoopInv, BaseFreeClean
<1> QED BY <1>1, <1>3, <1>4, <1>8, <1>9, <1>10, <1>11, SMTT(30) DEF LoopInv, locals

(* What an s32 makes of a number of milliseconds: one that fits it keeps,  *)
(* and it never makes one larger.                                          *)
LEMMA S32Is ==
  ASSUME NEW x \in Nat
  PROVE  S32(x) \in Int /\ S32(x) <= x /\ (x <= S32Max => S32(x) = x)
<1> DEFINE v == x + S32Max + 1
           d == 2 * S32Max + 2
<1>1. v \in Nat /\ d \in Nat \ {0}
  BY BaseAssumption
<1>2. \A a \in Nat, t \in Nat \ {0} : a % t \in Nat /\ a % t <= a /\ (a < t => a % t = a)
  <2> TAKE a \in Nat, t \in Nat \ {0}
  <2> DEFINE q == a \div t
             r == a % t
  <2>1. q \in Nat /\ r \in 0 .. t - 1 /\ a = t * q + r
    OBVIOUS
  <2>2. a < t => r = a
    OBVIOUS
  <2> HIDE DEF q, r
  <2>3. t * q \in Nat
    BY <2>1
  <2> QED BY <2>1, <2>2, <2>3 DEF r
<1>3. v % d \in Nat /\ v % d <= v /\ (v < d => v % d = v)
  BY <1>1, <1>2, Zenon
<1>4. S32(x) = (v % d) - (S32Max + 1)
  BY DEF S32
<1> DEFINE r == v % d
<1> HIDE DEF r, d
<1>5. r \in Nat /\ r <= v /\ (v < d => r = v) /\ S32(x) = r - (S32Max + 1)
  BY <1>3, <1>4 DEF r
<1> QED BY <1>5, BaseAssumption DEF d

(* The steps of the loop between passes, and the clock. *)
LEMMA LoopWaitStep ==
  ASSUME LoopInv, LoopWait
  PROVE  LoopInv'
<1> DEFINE w == event_next_timeout(m, now)
<1>1. /\ pc = "top" /\ pc' = "wait"
      /\ wake' = IF w < 0 THEN NoWake ELSE now + w * TicksPerMs
      /\ UNCHANGED <<m, base, alive, open, now, ready, cur, walk, tnow, pos, nxt>>
  BY DEF LoopWait
<1>2. w \in Int
  <2> DEFINE d == m.evt_timeout[Head(m.evt_time)]
  <2>1. DefWaitMs \in Nat /\ TicksPerMs \in Nat \ {0} /\ now \in Nat
    BY BaseAssumption, LoopAssumption, SMTT(30) DEF LoopInv, TypeOK
  <2>2. m.evt_time # <<>> => d \in Nat
    <3>1. m.evt_time \in Seq(Events) /\ m.evt_timeout \in [Events -> Nat]
      BY LoopFields
    <3>2. m.evt_time # <<>> => Head(m.evt_time) \in Events
      BY <3>1
    <3> QED BY <3>1, <3>2, SMTT(30)
  <2>3. w = IF m.evt_time = <<>> THEN DefWaitMs
            ELSE IF d <= now THEN 0 ELSE S32((d - now) \div TicksPerMs + 1)
    BY DEF event_next_timeout
  <2> HIDE DEF d, w
  <2>4. ASSUME d \in Nat, ~(d <= now) PROVE S32((d - now) \div TicksPerMs + 1) \in Int
    <3>1. (d - now) \div TicksPerMs + 1 \in Nat
      BY <2>1, <2>4
    <3> QED BY <3>1, S32Is
  <2> QED BY <2>1, <2>2, <2>3, <2>4, SMTT(30)
<1>3. wake' \in Nat \cup {NoWake}
  <2>1. now \in Nat /\ TicksPerMs \in Nat
    BY BaseAssumption, LoopAssumption DEF LoopInv, TypeOK
  <2> HIDE DEF w
  <2>2. ~(w < 0) => now + w * TicksPerMs \in Nat
    BY <1>2, <2>1, SMTT(30)
  <2> QED BY <1>1, <2>2, SMTT(30)
<1>4. TypeOK'
  BY <1>1, <1>3, SMTT(30) DEF LoopInv, TypeOK
<1>5. m.evt_active = <<>> /\ walk = <<>> /\ base = "live"
  BY <1>1 DEF LoopInv
<1> QED BY <1>1, <1>4, <1>5, LocalStep, SMTT(30)

LEMMA EpollReadyStep ==
  ASSUME LoopInv, EpollReady
  PROVE  LoopInv'
<1>1. /\ pc = "wait" /\ pc' = "dispatch" /\ wake' = 0
      /\ UNCHANGED <<m, base, alive, open, now, cur, walk, tnow, pos, nxt>>
  BY DEF EpollReady
<1>2. DOMAIN ready' \subseteq Fds /\ \A f \in DOMAIN ready' : ready'[f] \in Reports(f)
  BY DEF EpollReady
<1>3. \A f \in Fds : \A r \in Reports(f) : r \subseteq Interest \cup {"HUP"}
  <2>1. m.epoll \in [Fds -> SUBSET Interest]
    BY LoopFields, SMTT(30)
  <2> QED BY <2>1 DEF Reports
<1>4. TypeOK'
  BY <1>1, <1>2, <1>3, SMTT(30) DEF LoopInv, TypeOK
<1>5. walk = <<>> /\ base = "live"
  BY <1>1, SMTT(30) DEF LoopInv
<1> QED BY <1>1, <1>4, <1>5, LocalStep, SMTT(30)

LEMMA DispatchFdStep ==
  ASSUME LoopInv, NEW f \in Fds, DispatchFd(f)
  PROVE  LoopInv'
<1>1. /\ pc = "dispatch" /\ f \in DOMAIN ready
      /\ ready' = [g \in DOMAIN ready \ {f} |-> ready[g]]
      /\ cur' = [fd |-> f, what |-> ready[f]]
      /\ walk' = IF EventsOf(ready[f]) = {} THEN <<>>
                 ELSE m.evt_list[event_map_get_slot(f)]
      /\ UNCHANGED <<m, base, alive, open, now, pc, wake, tnow, pos, nxt>>
  BY SMTT(30) DEF DispatchFd
<1>2. event_map_get_slot(f) \in Slots
  BY BaseAssumption DEF event_map_get_slot, Slots
<1>3. walk' \in Seq(Events) /\ \A i \in DOMAIN walk' : walk'[i] \in alive
  <2>1. m.evt_list \in [Slots -> Seq(Events)]
    BY LoopFields
  <2>2. CASE EventsOf(ready[f]) = {}
    <3>1. walk' = <<>>
      BY <1>1, <2>2, Zenon
    <3> QED BY <3>1, EmptyIs
  <2>3. CASE EventsOf(ready[f]) # {}
    BY <1>1, <1>2, <2>1, <2>3, LinkedAlive, ZenonT(60)
  <2> QED BY <2>2, <2>3, SMTT(30)
<1>4. /\ DOMAIN ready' = DOMAIN ready \ {f}
      /\ \A g \in DOMAIN ready' : ready'[g] = ready[g]
  <2>1. ready' = [g \in DOMAIN ready \ {f} |-> ready[g]]
    BY <1>1, ZenonT(30)
  <2> QED BY <2>1, Zenon
<1>5. cur' \in [fd : Fds \cup {-1}, what : SUBSET (Interest \cup {"HUP"})]
  <2>1. ready[f] \in SUBSET (Interest \cup {"HUP"})
    <3>1. TypeOK
      BY DEF LoopInv
    <3>2. \A g \in DOMAIN ready : ready[g] \subseteq Interest \cup {"HUP"}
      BY <3>1, SMTT(30) DEF TypeOK
    <3>3. f \in DOMAIN ready
      BY <1>1, ZenonT(30)
    <3> QED BY <3>2, <3>3, SMTT(30)
  <2> QED BY <1>1, <2>1, ZenonT(30)
<1>6. TypeOK'
  <2>1. TypeOK
    BY DEF LoopInv
  <2>2. DOMAIN ready' \subseteq Fds
    BY <1>4, <2>1, SMTT(30) DEF TypeOK
  <2>3. \A g \in DOMAIN ready' : ready'[g] \subseteq Interest \cup {"HUP"}
    BY <1>4, <2>1, SMTT(30) DEF TypeOK
  <2>4. walk' \in Seq(Events)
    BY <1>3, Zenon
  <2>5. UNCHANGED <<m, base, alive, open, now, pc, wake, tnow, pos, nxt>>
    BY <1>1, ZenonT(30)
  <2> QED BY <1>5, <2>1, <2>2, <2>3, <2>4, <2>5, ZenonT(60) DEF TypeOK
<1>7. base = "live"
  BY <1>1, SMTT(30) DEF LoopInv
<1> QED BY <1>1, <1>3, <1>6, <1>7, LocalStep, SMTT(30)

LEMMA TimeoutBeginStep ==
  ASSUME LoopInv, TimeoutBegin
  PROVE  LoopInv'
<1>1. /\ pc = "dispatch" /\ pc' = "timeout" /\ cur' = NoResult /\ tnow' = now
      /\ walk' = m.evt_time
      /\ UNCHANGED <<m, base, alive, open, now, wake, ready, pos, nxt>>
  BY SMTT(30) DEF TimeoutBegin
<1>2. /\ NoResult \in [fd : Fds \cup {-1}, what : SUBSET (Interest \cup {"HUP"})]
      /\ now \in Nat /\ m.evt_time \in Seq(Events)
  BY LoopAssumption, SMTT(30) DEF NoResult, LoopInv, TypeOK, Mem
<1>3. TypeOK'
  BY <1>1, <1>2, SMTT(30) DEF LoopInv, TypeOK
<1>4. base = "live" /\ \A i \in DOMAIN walk' : walk'[i] \in alive
  BY <1>1, LinkedAlive, SMTT(30) DEF LoopInv
<1> QED BY <1>1, <1>3, <1>4, LocalStep, SMTT(30)

(* The steps that only move the program counter and the cursors. *)
LEMMA ControlStep ==
  ASSUME LoopInv,
         \/ BaseFree \/ LoopEnter \/ LoopExit \/ EpollTimeout \/ EpollError
         \/ ActiveBegin \/ CallbackReturn \/ ActiveDone \/ Tick
  PROVE  LoopInv'
<1>1. CASE BaseFree \/ LoopEnter \/ LoopExit
  <2>1. /\ UNCHANGED <<m, base, alive, open, now, locals>>
        /\ pc \in {"idle", "top"} /\ pc' \in {"free", "top", "idle"}
        /\ base = "live" \/ pc' = "idle"
    BY <1>1, SMTT(30) DEF BaseFree, LoopEnter, LoopExit
  <2>2. TypeOK'
    BY <2>1, SMTT(30) DEF LoopInv, TypeOK, locals
  <2>3. walk' = <<>> /\ m.evt_active = <<>>
    BY <2>1, SMTT(30) DEF LoopInv, locals
  <2> QED BY <2>1, <2>2, <2>3, LocalStep, SMTT(30)
<1>2. CASE EpollTimeout \/ EpollError
  <2>1. /\ UNCHANGED <<m, base, alive, open, now, ready, cur, walk, tnow, pos, nxt>>
        /\ pc = "wait" /\ pc' \in {"dispatch", "idle"} /\ wake' = 0
    BY <1>2, SMTT(30) DEF EpollTimeout, EpollError
  <2>2. TypeOK'
    BY <2>1, SMTT(30) DEF LoopInv, TypeOK
  <2>3. walk' = <<>> /\ m.evt_active = <<>> /\ base = "live"
    BY <2>1, SMTT(30) DEF LoopInv
  <2> QED BY <2>1, <2>2, <2>3, LocalStep, SMTT(30)
<1>3. CASE ActiveBegin
  <2>1. /\ UNCHANGED <<m, base, alive, open, now, wake, ready, cur>>
        /\ pc = "timeout" /\ pc' = "active" /\ walk' = <<>> /\ tnow' = 0
        /\ pos' = FirstActive /\ nxt' = NextActive(FirstActive)
    BY <1>3, SMTT(30) DEF ActiveBegin
  <2>2. TypeOK'
    <3>1. TypeOK
      BY DEF LoopInv
    <3>2. pos' \in Events \cup {NoEvt} /\ nxt' \in Events \cup {NoEvt}
      BY <2>1, Cursors, Zenon
    <3>3. <<>> \in Seq(Events) /\ 0 \in Nat
      OBVIOUS
    <3> QED BY <2>1, <3>1, <3>2, <3>3, SMTT(30) DEF TypeOK
  <2>3. base = "live"
    BY <2>1, ZenonT(30) DEF LoopInv
  <2> QED BY <2>1, <2>2, <2>3, LocalStep, SMTT(30)
<1>4. CASE CallbackReturn
  <2>1. /\ UNCHANGED <<m, base, alive, open, now, wake, ready, cur, walk, tnow>>
        /\ pc = "callback" /\ pc' = "active" /\ pos' = nxt /\ nxt' = NextActive(nxt)
    BY <1>4 DEF CallbackReturn
  <2>2. nxt = FirstActive /\ walk' = <<>> /\ base = "live"
    BY <2>1, SMTT(30) DEF LoopInv
  <2>3. TypeOK'
    <3>1. TypeOK
      BY DEF LoopInv
    <3>2. nxt' \in Events \cup {NoEvt}
      BY <2>1, <2>2, Cursors, ZenonT(60)
    <3> QED BY <2>1, <3>1, <3>2, SMTT(30) DEF TypeOK
  <2> QED BY <2>1, <2>2, <2>3, LocalStep, SMTT(30)
<1>5. CASE ActiveDone
  <2>1. /\ UNCHANGED <<m, base, alive, open, now, wake, ready, cur, walk, tnow, pos>>
        /\ pc = "active" /\ pc' = "top" /\ pos = NoEvt /\ nxt' = NoEvt
    BY <1>5, SMTT(30) DEF ActiveDone
  <2>2. TypeOK'
    BY <2>1, SMTT(30) DEF LoopInv, TypeOK
  <2>3. m.evt_active = <<>> /\ walk' = <<>> /\ base = "live"
    BY <2>1, Cursors, SMTT(30) DEF LoopInv
  <2> QED BY <2>1, <2>2, <2>3, LocalStep, SMTT(30)
<1>6. CASE Tick
  <2>1. /\ now < MaxTime /\ now' = now + 1
        /\ UNCHANGED <<m, base, alive, open, pc, locals>>
    BY <1>6, SMTT(30) DEF Tick
  <2>2. now' \in 0 .. MaxTime
    BY <2>1, LoopAssumption, SMTT(30) DEF LoopInv, TypeOK
  <2>3. TypeOK'
    BY <2>1, <2>2, SMTT(30) DEF LoopInv, TypeOK, locals
  <2>4. (pc = "active" => pos = FirstActive /\ nxt = NextActive(pos))'
    BY <2>1, SMTT(30) DEF LoopInv, FirstActive, NextActive, locals
  <2>5. (pc = "callback" => /\ pos \in Events /\ "ACTIVE" \notin m.flags[pos]
                            /\ nxt = FirstActive)'
    BY <2>1, SMTT(30) DEF LoopInv, FirstActive, locals
  <2>6. BaseFreeClean'
    BY <2>1, SMTT(30) DEF LoopInv, BaseFreeClean
  <2> QED BY <2>1, <2>3, <2>4, <2>5, <2>6, SMTT(30) DEF LoopInv, locals
<1> QED BY <1>1, <1>2, <1>3, <1>4, <1>5, <1>6, SMTT(30)

-----------------------------------------------------------------------------
LEMMA InitLoopInv ==
  Init => LoopInv
<1> SUFFICES ASSUME Init PROVE LoopInv
  OBVIOUS
<1>1. Agree(m) /\ m.evt_active = <<>> /\ \A e \in Events : m.flags[e] = {}
  BY NewAgrees, ZenonT(30) DEF Init, wba_evtbase_new
<1>2. TypeOK
  <2>1. /\ NoResult \in [fd : Fds \cup {-1}, what : SUBSET (Interest \cup {"HUP"})]
        /\ DOMAIN NoReady = {} /\ 0 \in 0 .. MaxTime
    BY LoopAssumption DEF NoResult, NoReady
  <2> QED BY <1>1, <2>1, SMTT(30) DEF Init, TypeOK, Agree
<1> QED BY <1>1, <1>2 DEF Init, LoopInv, BaseFreeClean

LEMMA NextLoopInv ==
  ASSUME OthersOps \subseteq {"add"}
  PROVE  LoopInv /\ [Next]_vars => LoopInv'
<1> SUFFICES ASSUME LoopInv, [Next]_vars PROVE LoopInv'
  BY SMTT(30)
<1>1. CASE UNCHANGED vars
  <2>1. UNCHANGED <<m, base, alive, open, now, pc, wake, ready, cur, walk, tnow, pos, nxt>>
    BY <1>1, SMTT(30) DEF vars, locals
  <2>2. TypeOK' /\ BaseFreeClean'
    BY <2>1, SMTT(30) DEF LoopInv, TypeOK, BaseFreeClean
  <2> QED BY <2>1, <2>2, SMTT(30) DEF LoopInv, FirstActive, NextActive
<1>2. CASE Client
  BY <1>2, BaseNewStep, ControlStep, EventNewStep, EventAssignStep, EventAddStep,
     EventDelStep, EventFreeStep, CloseFdStep, OpenFdStep, SMTT(30) DEF Client
<1>3. CASE FreeStep
  BY <1>3, FreeStepKeeps, BaseFreeDoneStep, SMTT(30) DEF FreeStep
<1>4. CASE LoopStep
  BY <1>4, ControlStep, LoopWaitStep, DispatchFdStep, MapActiveStep, TimeoutBeginStep,
     ProcessTimeoutStep, ProcessActiveStep, SMTT(30) DEF LoopStep
<1>5. CASE EpollReady \/ EpollError \/ Tick
  BY <1>5, EpollReadyStep, ControlStep
<1> QED BY <1>1, <1>2, <1>3, <1>4, <1>5, SMTT(30) DEF Next

(* The invariant holds of every behaviour of the loop and its client. *)
THEOREM LoopInvariant ==
  ASSUME OthersOps \subseteq {"add"}
  PROVE  Spec => []LoopInv
BY InitLoopInv, NextLoopInv, PTL DEF Spec

(* Every variable keeps its type. *)
THEOREM TypeCorrect ==
  ASSUME OthersOps \subseteq {"add"}
  PROVE  Spec => []TypeOK
<1>1. LoopInv => TypeOK
  BY SMTT(30) DEF LoopInv
<1> QED BY <1>1, LoopInvariant, PTL

(* The active list and the fd map of wba_evloop.c agree with the flags of  *)
(* the events and with the counters by which the loop decides to stop,     *)
(* whatever callbacks do to their own and to idle events, and with any     *)
(* epoll failures.                                                         *)
THEOREM LinksAgree ==
  ASSUME OthersOps \subseteq {"add"}
  PROVE  Spec => []ListsKept
<1>1. LoopInv => ListsKept
  BY SMTT(30) DEF LoopInv, Agree, ListsKept
<1> QED BY <1>1, LoopInvariant, PTL

(* The time tree is sorted and agrees with the TIMEOUT and REG flags.      *)
THEOREM TimeTreeAgrees ==
  ASSUME OthersOps \subseteq {"add"}
  PROVE  Spec => []TimeTreeKept
<1>1. LoopInv => TimeTreeKept
  BY SMTT(30) DEF LoopInv, Agree, TimeTreeKept
<1> QED BY <1>1, LoopInvariant, PTL

(* event_process_active only ever dispatches live, linked events. *)
THEOREM WalkIsSafe ==
  ASSUME OthersOps \subseteq {"add"}
  PROVE  Spec => []WalkLinked
<1>1. LoopInv => WalkLinked
  <2> SUFFICES ASSUME LoopInv, pc = "active", pos # NoEvt
               PROVE  pos \in alive /\ "ACTIVE" \in m.flags[pos]
    BY SMTT(30) DEF WalkLinked
  <2>1. pos = FirstActive /\ pos \in Events
    BY SMTT(30) DEF LoopInv, TypeOK
  <2>2. "ACTIVE" \in m.flags[pos]
    BY <2>1, Cursors, SMTT(30)
  <2> QED BY <2>1, <2>2 DEF LoopInv
<1> QED BY <1>1, LoopInvariant, PTL

(* wba_evtbase_free leaves no event linked to the freed base. *)
THEOREM FreeIsClean ==
  ASSUME OthersOps \subseteq {"add"}
  PROVE  Spec => []BaseFreeClean
<1>1. LoopInv => BaseFreeClean
  BY DEF LoopInv
<1> QED BY <1>1, LoopInvariant, PTL

(* wba_event_loop returns for an "empty base" only when the map, the tree  *)
(* and the active list are empty.                                          *)
THEOREM ExitIsDue ==
  ASSUME OthersOps \subseteq {"add"}
  PROVE  Spec => NoEarlyExit
<1> DEFINE Idle(e) == ~InMap(m, e) /\ m.flags[e] \cap {"ACTIVE", "TIMEOUT"} = {}
<1>1. LoopInv /\ [Next]_vars => [pc = "top" /\ pc' = "idle" => \A e \in Events : Idle(e)]_vars
  <2> SUFFICES ASSUME LoopInv, Next, pc = "top", pc' = "idle", NEW e \in Events
               PROVE  Idle(e)
    OBVIOUS
  <2>1. LoopExit
    BY Zenon DEF Next, Client, FreeStep, LoopStep, BaseNew, BaseFree, LoopEnter, EventNew,
           EventAssign, EventAdd, EventDel, EventFree, CloseFd, OpenFd, BaseFreeMap,
           BaseFreeTimers, BaseFreeDone, LoopExit, LoopWait, EpollTimeout, DispatchFd,
           MapActive, TimeoutBegin, ProcessTimeout, ActiveBegin, ProcessActive,
           CallbackReturn, ActiveDone, EpollReady, EpollError, Tick, MayTouch, ClientRuns
  <2>2. m.event_count = 0 /\ m.event_count_active = 0
    BY <2>1, SMTT(30) DEF LoopExit
  <2> DEFINE M == {x \in Events : InMap(m, x)}
  <2>3. /\ m.event_count = m.used + Len(m.evt_time) /\ m.used = Cardinality(M)
        /\ m.event_count_active = Len(m.evt_active)
        /\ m.evt_time \in Seq(Events) /\ m.evt_active \in Seq(Events)
    BY SMTT(30) DEF LoopInv, Agree, MapOK, ActiveListOK, Mem
  <2>4. IsFiniteSet(M)
    BY BaseAssumption, FS_Subset, SMTT(30)
  <2> HIDE DEF M
  <2>5. Cardinality(M) \in Nat /\ Len(m.evt_time) \in Nat
    BY <2>3, <2>4, FS_CardinalityType, LenIs, SMTT(30)
  <2>6. Cardinality(M) = 0 /\ Len(m.evt_time) = 0
    BY <2>2, <2>3, <2>5, SMTT(30)
  <2>7. M = {} /\ m.evt_time = <<>> /\ m.evt_active = <<>>
    BY <2>2, <2>3, <2>4, <2>6, FS_EmptySet, EmptyIs, SMTT(30)
  <2>8. ~In(e, <<>>)
    BY SMTT(30) DEF In
  <2>9. "ACTIVE" \notin m.flags[e] /\ "TIMEOUT" \notin m.flags[e]
    BY <2>7, <2>8, SMTT(30) DEF LoopInv, Agree, ActiveListOK, TimeTreeOK
  <2> QED BY <2>7, <2>9 DEF M
<1> QED BY <1>1, LoopInvariant, PTL DEF Spec, NoEarlyExit
=============================================================================
