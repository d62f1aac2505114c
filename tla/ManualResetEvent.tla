-------------------------- MODULE ManualResetEvent --------------------------
(***************************************************************************)
(* my_lib/ManualResetEvent: a flag signaled_ under a mutex, with a         *)
(* condition variable for the threads that wait until it is set.           *)
(*                                                                         *)
(* Every section under mtx_ reads and writes signaled_ once and ends by    *)
(* unlocking or by waiting on cond_, so it is one step. The notification   *)
(* in set() comes after the unlock and is a step of its own, and so is the *)
(* way of a woken thread back through the mutex. An operator Bad... is a   *)
(* mistake the code does not make.                                         *)
(***************************************************************************)
EXTENDS Naturals, FiniteSets

CONSTANTS Setters,       \* threads that call set()
          Resetters,     \* threads that call reset()
          Waiters,       \* threads that call wait()
          TimedWaiters,  \* threads that call wait(timeout)
          Timeout,       \* the timeout they pass
          MaxTime        \* bound: the clock stops here

Waiting == Waiters \cup TimedWaiters
Threads == Setters \cup Resetters \cup Waiting

ASSUME EventAssumption ==
  /\ Setters \cap Waiting = {}
  /\ Waiters \cap TimedWaiters = {}
  /\ Timeout \in Nat
  /\ MaxTime \in Nat

VARIABLES signaled_,  \* the flag
          pc,         \* "out", "notify" in set(), and in wait(): "blocked" on
                      \*   cond_, "woken", "expired", and "returned" after it
          abs_time,   \* per timed waiter, the time its call ends
          result,     \* per timed waiter, what its last call returned
          now

vars == <<signaled_, pc, abs_time, result, now>>

Init ==
  /\ signaled_ \in BOOLEAN
  /\ pc = [t \in Threads |-> "out"]
  /\ abs_time = [t \in TimedWaiters |-> 0]
  /\ result = [t \in TimedWaiters |-> FALSE]
  /\ now = 0

Goto(t, l) == pc' = [pc EXCEPT ![t] = l]

-----------------------------------------------------------------------------
(* set(), up to the end of the locked block. *)
Set(t) ==
  /\ pc[t] = "out"
  /\ signaled_' = TRUE
  /\ Goto(t, "notify")
  /\ UNCHANGED <<abs_time, result, now>>

BadNotifyOne(t) ==
  /\ pc[t] = "notify"
  /\ Goto(t, "out")
  /\ UNCHANGED <<signaled_, abs_time, result, now>>

(* cond_.notify_one() wakes one blocked thread, if there is one. *)
NotifyOne(t) ==
  /\ pc[t] = "notify"
  /\ LET blocked == {w \in Waiting : pc[w] = "blocked"} IN
       \/ /\ blocked = {}
          /\ Goto(t, "out")
       \/ \E w \in blocked : pc' = [pc EXCEPT ![t] = "out", ![w] = "woken"]
  /\ UNCHANGED <<signaled_, abs_time, result, now>>

Reset(t) ==
  /\ signaled_' = FALSE
  /\ UNCHANGED <<pc, abs_time, result, now>>

(* wait(): the first test of the flag. *)
Wait(w) ==
  /\ pc[w] \in {"out", "returned"}
  /\ Goto(w, IF signaled_ THEN "returned" ELSE "blocked")
  /\ UNCHANGED <<signaled_, abs_time, result, now>>

(* A condition variable may wake a thread that nobody notified. *)
SpuriousWake(w) ==
  /\ pc[w] = "blocked"
  /\ Goto(w, "woken")
  /\ UNCHANGED <<signaled_, abs_time, result, now>>

(* Back in the loop of wait(). *)
Recheck(w) ==
  /\ pc[w] = "woken"
  /\ Goto(w, IF signaled_ THEN "returned" ELSE "blocked")
  /\ UNCHANGED <<signaled_, abs_time, result, now>>

-----------------------------------------------------------------------------
(* wait(timeout): the end of the call is fixed before the first wait. *)
TimedWait(w) ==
  /\ pc[w] \in {"out", "returned"}
  /\ abs_time' = [abs_time EXCEPT ![w] = now + Timeout]
  /\ result' = [result EXCEPT ![w] = signaled_]
  /\ Goto(w, IF signaled_ THEN "returned" ELSE "blocked")
  /\ UNCHANGED <<signaled_, now>>

BadDeadline(w) ==
  /\ pc[w] = "woken"
  /\ result' = [result EXCEPT ![w] = signaled_]
  /\ abs_time' = [abs_time EXCEPT ![w] = now + Timeout]
  /\ Goto(w, IF signaled_ THEN "returned" ELSE "blocked")
  /\ UNCHANGED <<signaled_, now>>

(* timed_wait with a predicate tests it after every wake-up; waiting again *)
(* for a time that has passed ends at once.                                *)
TimedRecheck(w) ==
  /\ pc[w] = "woken"
  /\ result' = [result EXCEPT ![w] = signaled_]
  /\ Goto(w, IF signaled_ THEN "returned"
             ELSE IF now >= abs_time[w] THEN "expired" ELSE "blocked")
  /\ UNCHANGED <<signaled_, abs_time, now>>

TimeOut(w) ==
  /\ pc[w] = "blocked" /\ now >= abs_time[w]
  /\ Goto(w, "expired")
  /\ UNCHANGED <<signaled_, abs_time, result, now>>

(* After the timeout, under the mutex again: the predicate decides. *)
ReturnExpired(w) ==
  /\ pc[w] = "expired"
  /\ result' = [result EXCEPT ![w] = signaled_]
  /\ Goto(w, "returned")
  /\ UNCHANGED <<signaled_, abs_time, now>>

Tick ==
  /\ now < MaxTime
  /\ now' = now + 1
  /\ UNCHANGED <<signaled_, pc, abs_time, result>>

-----------------------------------------------------------------------------
(* What a thread does inside a call, until it blocks or returns. *)
Proceed ==
  \/ \E t \in Setters : NotifyOne(t)
  \/ \E w \in Waiters : Recheck(w)
  \/ \E w \in TimedWaiters : TimedRecheck(w) \/ TimeOut(w) \/ ReturnExpired(w)

Next ==
  \/ \E t \in Setters : Set(t)
  \/ \E t \in Resetters : Reset(t)
  \/ \E w \in Waiters : Wait(w)
  \/ \E w \in TimedWaiters : TimedWait(w)
  \/ \E w \in Waiting : SpuriousWake(w)
  \/ Proceed
  \/ Tick

Spec == Init /\ [][Next]_vars

(* The scheduler runs every thread that can go on, and time passes. *)
Fairness ==
  /\ \A t \in Setters : WF_vars(NotifyOne(t))
  /\ \A w \in Waiters : WF_vars(Recheck(w))
  /\ \A w \in TimedWaiters :
       WF_vars(TimedRecheck(w)) /\ WF_vars(TimeOut(w)) /\ WF_vars(ReturnExpired(w))
  /\ WF_vars(Tick)

-----------------------------------------------------------------------------
(* Every variable keeps its type, and only waiting threads wait. *)
TypeOK ==
  /\ signaled_ \in BOOLEAN
  /\ pc \in [Threads -> {"out", "notify", "blocked", "woken", "expired", "returned"}]
  /\ \A t \in Setters : pc[t] \in {"out", "notify"}
  /\ \A t \in Waiters : pc[t] \in {"out", "blocked", "woken", "returned"}
  /\ abs_time \in [TimedWaiters -> Nat]
  /\ result \in [TimedWaiters -> BOOLEAN]
  /\ now \in 0 .. MaxTime

(* No wake-up is lost: while the event is set and a thread is blocked,    *)
(* some set() is about to notify, or another thread got the notification.  *)
(* (notify_one releases one thread: with two, the other may stay blocked.) *)
NoLostWakeup ==
  signaled_ /\ (\E w \in Waiting : pc[w] = "blocked") =>
    \/ \E t \in Setters : pc[t] = "notify"
    \/ \E w \in Waiting : pc[w] \in {"woken", "expired", "returned"}

(* wait() returns only while the event is set, whatever wakes it up; and   *)
(* wait(timeout) returns whether the event is set, false only once its     *)
(* absolute time has passed ("use absolute time to avoid spurious wake").  *)
ReturnsTruth ==
  [][\A w \in Waiting :
       pc[w] # "returned" /\ pc'[w] = "returned" =>
         /\ w \in Waiters => signaled_
         /\ w \in TimedWaiters => /\ result'[w] = signaled_
                                  /\ ~signaled_ => now >= abs_time'[w]]_vars

(* Waits end with the truth; and wait(timeout) does end when its absolute  *)
(* time comes within the bound of the clock, however often it is woken for *)
(* nothing.                                                                *)
WaitsEndTruly ==
  /\ ReturnsTruth
  /\ \A w \in TimedWaiters :
       (pc[w] = "blocked" /\ abs_time[w] <= MaxTime) ~> pc[w] = "returned"
=============================================================================
