------------------------------ MODULE MCEvLoop ------------------------------
(* Small instances of EvLoop for TLC. *)
EXTENDS EvLoop, TLC

CONSTANTS e1, e2

(* Timers only: one-shot or persistent. *)
TimerUses == [e \in Events |-> {<<-1, {}>>, <<-1, {"PERSIST"}>>}]

(* One-shot timers. *)
OneShotUses == [e \in Events |-> {<<-1, {}>>}]

(* e1 and e2 may compete for fd 1; fds 1 and 3 share a slot of a map of 2. *)
IoUses == (e1 :> {<<1, {"READ"}>>, <<1, {"READ", "PERSIST"}>>})
       @@ (e2 :> {<<1, {"WRITE", "CLOSED"}>>, <<3, {"READ"}>>})

(* One fd, shared by two events. *)
SharedFdUses == [e \in Events |-> {<<1, {"READ"}>>}]

(* A persistent reader and a timer. *)
LiveUses == (e1 :> {<<1, {"READ", "PERSIST"}>>}) @@ (e2 :> {<<-1, {}>>})
=============================================================================
