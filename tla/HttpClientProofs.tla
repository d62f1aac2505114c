-------------------------- MODULE HttpClientProofs --------------------------
(***************************************************************************)
(* Proofs about HttpClient for any number of endpoints, any timeouts and   *)
(* any responses of the server.                                            *)
(***************************************************************************)
EXTENDS HttpClient, TLAPS

Kinds == {"none", "connect", "write", "status", "headers", "content", "size", "chunk"}
States == {"none", "inflight", "ok", "err", "eof"}

(* o is an operation, whatever its numbers are. *)
IsOp(o) ==
  /\ o = [kind |-> o.kind, st |-> o.st, size |-> o.size, rem |-> o.rem]
  /\ o.kind \in Kinds /\ o.st \in States
  /\ o.kind = "none" \/ o.st = "none" => o = NoOp

TypeOK ==
  /\ started \in BOOLEAN /\ stopped_ \in BOOLEAN /\ open \in BOOLEAN
  /\ IsOp(op)
  /\ iter \in Nat
  /\ left \in Nat \cup {Inf}
  /\ wait \in {"none", "waiting", "ready"}

(* Before start() nothing has happened; an endpoint is being connected to  *)
(* only if there is one; until the client stops an operation is pending    *)
(* and the deadline is waited for; and once it has expired the socket is   *)
(* closed.                                                                 *)
ClientInv ==
  /\ ~started => /\ ~stopped_ /\ ~open /\ op = NoOp /\ iter = 0
                 /\ wait = "none" /\ results = <<>>
  /\ op.kind = "connect" => iter \in 1 .. Endpoints
  /\ started /\ ~stopped_ => op # NoOp /\ wait # "none"
  /\ stopped_ => ~open
  /\ left = Inf => ~open
  /\ op.st = "inflight" => open

Inv == TypeOK /\ ClientInv /\ ResultOnce

-----------------------------------------------------------------------------
(* Operations: what the record says of each. *)
LEMMA NoOpIs ==
  /\ IsOp(NoOp) /\ NoOp.kind = "none" /\ NoOp.st = "none"
BY DEF IsOp, NoOp, Kinds, States

LEMMA OpFields ==
  ASSUME NEW kind, NEW st
  PROVE  Op(kind, st) = [kind |-> kind, st |-> st, size |-> 0, rem |-> 0]
<1> DEFINE o == [NoOp EXCEPT !.kind = kind]
<1>1. o = [kind |-> kind, st |-> "none", size |-> 0, rem |-> 0]
  BY DEF NoOp
<1>2. Op(kind, st) = [o EXCEPT !.st = st]
  BY Zenon DEF Op
<1> HIDE DEF o
<1> QED BY <1>1, <1>2

LEMMA OpIs ==
  ASSUME NEW kind \in Kinds \ {"none"}, NEW st \in States \ {"none"}
  PROVE  IsOp(Op(kind, st)) /\ Op(kind, st).kind = kind /\ Op(kind, st).st = st
<1>1. Op(kind, st) = [kind |-> kind, st |-> st, size |-> 0, rem |-> 0]
  BY OpFields
<1> QED BY <1>1 DEF IsOp

(* A completed or aborted operation is still the same operation. *)
LEMMA WithState ==
  ASSUME NEW o, IsOp(o), o.kind # "none", NEW st \in States \ {"none"}
  PROVE  /\ IsOp([o EXCEPT !.st = st])
         /\ [o EXCEPT !.st = st].kind = o.kind /\ [o EXCEPT !.st = st].st = st
BY DEF IsOp

LEMMA AbortedIs ==
  ASSUME NEW o, IsOp(o)
  PROVE  /\ IsOp(Aborted(o)) /\ Aborted(o).kind = o.kind /\ Aborted(o).st # "inflight"
         /\ o = NoOp => Aborted(o) = NoOp
         /\ o # NoOp => Aborted(o) # NoOp
<1>1. CASE o.st = "inflight"
  <2>1. o.kind # "none" /\ o # NoOp
    BY <1>1, NoOpIs DEF IsOp
  <2>2. Aborted(o) = [o EXCEPT !.st = "err"]
    BY <1>1 DEF Aborted
  <2>3. "err" \in States \ {"none"}
    BY DEF States
  <2>4. IsOp(Aborted(o)) /\ Aborted(o).kind = o.kind /\ Aborted(o).st = "err"
    BY <2>1, <2>2, <2>3, WithState, SMTT(30)
  <2> QED BY <2>1, <2>4, NoOpIs
<1>2. CASE o.st # "inflight"
  BY <1>2 DEF Aborted
<1> QED BY <1>1, <1>2

(* What a handler does last: stop and signal, *)
LEMMA SignalStep ==
  ASSUME Inv, started, ~stopped_, NEW r, StopAndSignal(r)
  PROVE  Inv'
<1>1. results = <<>>
  BY DEF Inv, ResultOnce
<1>2. Len(results') = 1
  BY <1>1 DEF StopAndSignal
<1>3. TypeOK'
  BY NoOpIs, ZenonT(30) DEF Inv, TypeOK, StopAndSignal, Cancelled
<1>4. ClientInv' /\ ResultOnce'
  BY <1>2, NoOpIs DEF Inv, TypeOK, ClientInv, ResultOnce, StopAndSignal, Cancelled
<1> QED BY <1>3, <1>4 DEF Inv

(* go on to an endpoint, *)
LEMMA ConnectStep ==
  ASSUME Inv, ~stopped_, NEW i \in Nat \ {0}, StartConnect(i), started',
         wait' \in {"waiting", "ready"}
  PROVE  Inv'
<1> USE ClientAssumption
<1>1. results = <<>>
  BY DEF Inv, ResultOnce
<1>2. CASE i <= Endpoints
  <2>1. /\ IsOp(op') /\ op'.kind = "connect" /\ op'.st \in {"inflight", "err"} /\ op' # NoOp
        /\ op'.st = "inflight" => open'
    BY <1>2, OpIs, NoOpIs, SMTT(30) DEF StartConnect, Kinds, States
  <2>2. left' = ConnTimeout /\ iter' = i /\ ~stopped_' /\ open' \in BOOLEAN /\ results' = <<>>
    <3>1. ~(i > Endpoints)
      BY <1>2
    <3> QED BY <1>1, <3>1, Zenon DEF StartConnect
  <2>3. TypeOK'
    BY <2>1, <2>2, ZenonT(30) DEF Inv, TypeOK, StartConnect
  <2>4. ClientInv' /\ ResultOnce'
    BY <1>2, <2>1, <2>2, SMTT(30) DEF ClientInv, ResultOnce, Inf
  <2> QED BY <2>3, <2>4, SMTT(30) DEF Inv
<1>3. CASE i > Endpoints
  <2>1. stopped_' /\ ~open' /\ op' = NoOp /\ iter' = i /\ Len(results') = 1 /\ left' = left
    BY <1>1, <1>3 DEF StartConnect
  <2>2. TypeOK'
    BY <1>3, <2>1, NoOpIs, ZenonT(30) DEF Inv, TypeOK, StartConnect
  <2>3. ClientInv' /\ ResultOnce'
    BY <2>1, NoOpIs DEF ClientInv, ResultOnce
  <2> QED BY <2>2, <2>3 DEF Inv
<1> QED BY <1>2, <1>3, SMTT(30)

(* or read on. *)
LEMMA ReadStep ==
  ASSUME Inv, started, ~stopped_, NEW o, NEW b, Continue(o, b),
         o = [kind |-> o.kind, st |-> o.st, size |-> o.size, rem |-> o.rem],
         o.kind \in Kinds \ {"none", "connect"}
  PROVE  Inv'
<1>1. PICK st \in {"ok", "inflight", "err"} :
        op' = [o EXCEPT !.st = st] /\ (st = "inflight" => open)
  BY DEF Continue, StartRead
<1>2. IsOp(op') /\ op'.kind = o.kind /\ op'.st = st
  BY <1>1 DEF IsOp, States
<1>3. TypeOK'
  BY <1>2 DEF Inv, TypeOK, Continue
<1>4. ClientInv' /\ ResultOnce'
  BY <1>1, <1>2, NoOpIs DEF Inv, ClientInv, ResultOnce, Continue
<1> QED BY <1>3, <1>4 DEF Inv

(* start() and stop(). *)
LEMMA UserStep ==
  ASSUME Inv, Start \/ Stop
  PROVE  Inv'
<1>1. CASE Start
  BY <1>1, ConnectStep DEF Start, Inv, ClientInv
<1>2. CASE Stop
  <2>1. /\ IsOp(op') /\ op'.kind = op.kind /\ op'.st # "inflight"
    BY <1>2, AbortedIs DEF Stop, Inv, TypeOK
  <2>2. results' = <<>>
    BY <1>2 DEF Stop, Inv, ResultOnce
  <2>3. TypeOK'
    BY <1>2, <2>1, ZenonT(30) DEF Stop, Inv, TypeOK, Cancelled
  <2>4. ClientInv' /\ ResultOnce'
    BY <1>2, <2>1, <2>2 DEF Stop, Inv, TypeOK, ClientInv, ResultOnce
  <2> QED BY <2>3, <2>4 DEF Inv
<1> QED BY <1>1, <1>2

(* The handlers of the operations on the socket. *)
LEMMA HandlerStep ==
  ASSUME Inv, Handler
  PROVE  Inv'
<1> DEFINE Reads == {"status", "headers", "content", "size", "chunk"}
<1>1. ASSUME NEW kind, Ready(kind), kind # "none"
      PROVE  started /\ ~stopped_ /\ op.kind = kind
  BY <1>1, NoOpIs DEF Ready, Inv, ClientInv
<1>2. ASSUME NEW kind \in Reads
      PROVE  /\ Op(kind, "none").kind = kind
             /\ Op(kind, "none") = [kind |-> Op(kind, "none").kind, st |-> Op(kind, "none").st,
                                    size |-> Op(kind, "none").size, rem |-> Op(kind, "none").rem]
  BY OpFields
<1>3. ASSUME NEW kind \in Reads, NEW b, started, ~stopped_, Continue(Op(kind, "none"), b)
      PROVE  Inv'
  <2> DEFINE o == Op(kind, "none")
  <2>1. o.kind \in Kinds \ {"none", "connect"}
    BY <1>2 DEF Kinds
  <2> HIDE DEF o
  <2>2. o = [kind |-> o.kind, st |-> o.st, size |-> o.size, rem |-> o.rem]
    BY <1>2, Zenon DEF o
  <2>3. Continue(o, b)
    BY <1>3, Zenon DEF o
  <2> QED BY <1>3, <2>1, <2>2, <2>3, ReadStep
<1>4. CASE HandleStopped
  BY <1>4, NoOpIs DEF HandleStopped, Inv, TypeOK, ClientInv, ResultOnce
<1>5. CASE HandleConnect
  <2>1. /\ started /\ ~stopped_ /\ op.kind = "connect" /\ started' = started
        /\ wait' \in {"waiting", "ready"}
    BY <1>1, <1>5 DEF HandleConnect, Cancelled, Inv, TypeOK, ClientInv
  <2>2. CASE StartConnect(iter + 1)
    BY <2>1, <2>2, ConnectStep DEF Inv, TypeOK
  <2>3. CASE open /\ op.st = "ok" /\ left' = TransferTimeout /\ op' = Op("write", "inflight")
             /\ UNCHANGED <<stopped_, open, iter, results>>
    <3>1. IsOp(op') /\ op'.kind = "write" /\ op'.st = "inflight"
      BY <2>3, OpIs DEF Kinds, States
    <3>2. TypeOK'
      BY <2>1, <2>3, <3>1, ClientAssumption, SMTT(30) DEF Inv, TypeOK
    <3>3. ClientInv' /\ ResultOnce'
      BY <2>1, <2>3, <3>1, NoOpIs, ClientAssumption, SMTT(30) DEF Inv, ClientInv, ResultOnce, Inf
    <3> QED BY <3>2, <3>3 DEF Inv
  <2> QED BY <1>5, <2>2, <2>3 DEF HandleConnect
<1>6. CASE HandleWriteRequest
  BY <1>1, <1>3, <1>6, SignalStep, SMTT(30) DEF HandleWriteRequest
<1>7. CASE HandleReadStatusLine
  BY <1>1, <1>3, <1>7, SignalStep DEF HandleReadStatusLine
<1>8. CASE HandleReadHeaders
  BY <1>1, <1>3, <1>8, SignalStep, SMTT(30) DEF HandleReadHeaders
<1>9. CASE HandleReadContent
  BY <1>1, <1>3, <1>9, SignalStep DEF HandleReadContent
<1>10. CASE HandleReadChunkSize
  <2>1. started /\ ~stopped_
    BY <1>1, <1>10 DEF HandleReadChunkSize
  <2>2. ASSUME NEW n, NEW k, NEW b,
               Continue([Op("chunk", "none") EXCEPT !.size = n, !.rem = k], b)
        PROVE  Inv'
    <3> DEFINE o == [Op("chunk", "none") EXCEPT !.size = n, !.rem = k]
    <3>1. o = [kind |-> "chunk", st |-> "none", size |-> n, rem |-> k]
      <4> DEFINE p == [Op("chunk", "none") EXCEPT !.size = n]
      <4>1. p = [kind |-> "chunk", st |-> "none", size |-> n, rem |-> 0]
        BY OpFields
      <4>2. o = [p EXCEPT !.rem = k]
        BY Zenon
      <4> HIDE DEF o, p
      <4> QED BY <4>1, <4>2
    <3>2. Continue(o, b)
      BY <2>2
    <3> HIDE DEF o
    <3> QED BY <2>1, <3>1, <3>2, ReadStep, SMTT(30) DEF Kinds
  <2> QED BY <1>10, <2>1, <2>2, SignalStep, ZenonT(30) DEF HandleReadChunkSize
<1>11. CASE HandleReadChunkData
  BY <1>1, <1>3, <1>11, SignalStep, SMTT(30) DEF HandleReadChunkData
<1> QED BY <1>4, <1>5, <1>6, <1>7, <1>8, <1>9, <1>10, <1>11, SMTT(30) DEF Handler

(* The deadline, the clock and the network. *)
LEMMA OtherStep ==
  ASSUME Inv, CheckDeadline \/ TimerFires \/ Tick \/ Network \/ UNCHANGED vars
  PROVE  Inv'
<1>1. CASE CheckDeadline
  <2>1. CASE ~stopped_ /\ left = 0 /\ left' = Inf /\ open' = FALSE /\ op' = Aborted(op)
    <3>1. /\ IsOp(op') /\ op'.kind = op.kind /\ op'.st # "inflight"
          /\ op = NoOp <=> op' = NoOp
      BY <2>1, AbortedIs DEF Inv, TypeOK
    <3>2. TypeOK'
      BY <1>1, <2>1, <3>1, ZenonT(30) DEF CheckDeadline, Inv, TypeOK
    <3>3. ClientInv' /\ ResultOnce'
      BY <1>1, <2>1, <3>1 DEF CheckDeadline, Inv, ClientInv, ResultOnce
    <3> QED BY <3>2, <3>3 DEF Inv
  <2>2. CASE UNCHANGED <<left, open, op>>
    BY <1>1, <2>2 DEF CheckDeadline, Inv, TypeOK, ClientInv, ResultOnce
  <2> QED BY <1>1, <2>1, <2>2, ZenonT(30) DEF CheckDeadline
<1>2. CASE TimerFires
  BY <1>2 DEF TimerFires, Inv, TypeOK, ClientInv, ResultOnce
<1>3. CASE Tick
  BY <1>3 DEF Tick, Inv, TypeOK, ClientInv, ResultOnce, Inf
<1>4. ASSUME op.st = "inflight", IsOp(op'), op'.kind = op.kind, op'.st # "none",
             op'.st = "inflight" => op.st = "inflight",
             UNCHANGED <<started, stopped_, open, iter, left, wait, results>>
      PROVE  Inv'
  <2>1. op # NoOp /\ op' # NoOp
    BY <1>4, NoOpIs
  <2> QED BY <1>4, <2>1 DEF Inv, TypeOK, ClientInv, ResultOnce
<1>5. ASSUME op.st = "inflight" PROVE op.kind # "none"
  BY <1>5, NoOpIs DEF Inv, TypeOK, IsOp
<1>6. ASSUME NEW st \in {"ok", "err", "eof"}, op.st = "inflight", Complete(st) PROVE Inv'
  <2>1. IsOp(op') /\ op'.kind = op.kind /\ op'.st = st
    BY <1>5, <1>6, WithState DEF Complete, Inv, TypeOK, States
  <2> QED BY <1>4, <1>6, <2>1 DEF Complete
<1>7. CASE Established \/ NetworkError \/ Eof
  BY <1>6, <1>7 DEF Established, NetworkError, Eof, Reading
<1>8. CASE Deliver
  <2>1. op.st = "inflight"
    BY <1>8 DEF Deliver, Reading
  <2>2. PICK st \in {"ok", "inflight"} :
          \/ op' = [op EXCEPT !.st = st]
          \/ \E k : op' = [[op EXCEPT !.rem = k] EXCEPT !.st = st]
    <3>1. PICK n \in 1 .. Len(wire) :
            LET b == buf \o SubSeq(wire, 1, n)
                o == IF op.kind = "chunk" THEN [op EXCEPT !.rem = @ - n] ELSE op
            IN  op' = [o EXCEPT !.st = IF o.kind = "content" \/ Satisfied(o, b)
                                       THEN "ok" ELSE "inflight"]
      BY <1>8, Zenon DEF Deliver
    <3> QED BY <3>1, Zenon
  <2>3. IsOp(op') /\ op'.kind = op.kind /\ op'.st = st
    BY <1>5, <2>1, <2>2, ZenonT(30) DEF Inv, TypeOK, IsOp, States
  <2> QED BY <1>4, <1>8, <2>1, <2>3 DEF Deliver
<1>9. CASE PeerClose \/ UNCHANGED vars
  BY <1>9 DEF PeerClose, vars, clientVars, Inv, TypeOK, ClientInv, ResultOnce
<1> QED BY <1>1, <1>2, <1>3, <1>7, <1>8, <1>9, SMTT(30) DEF Network

-----------------------------------------------------------------------------
LEMMA Initially ==
  ASSUME Init
  PROVE  Inv
<1>1. TypeOK
  BY NoOpIs, ZenonT(30) DEF Init, TypeOK
<1>2. ClientInv
  BY NoOpIs DEF Init, ClientInv, Inf
<1>3. ResultOnce
  BY DEF Init, ResultOnce
<1> QED BY <1>1, <1>2, <1>3 DEF Inv

(* Inv holds in every state, in whatever order handlers, deadline, network *)
(* and user act.                                                           *)
THEOREM Invariant == Spec => []Inv
<1>1. Inv /\ [Next]_vars => Inv'
  BY UserStep, HandlerStep, OtherStep DEF Next
<1> QED BY Initially, <1>1, PTL DEF Spec

(* No operation is in flight without an open socket and a deadline that is *)
(* set and waited for (DeadlineArmed).                                     *)
THEOREM AlwaysArmed == Spec => []DeadlineArmed
<1>1. Inv => DeadlineArmed
  BY NoOpIs DEF Inv, ClientInv, DeadlineArmed
<1> QED BY Invariant, <1>1, PTL

(* signal_result is called at most once, after stop() (ResultOnce). *)
THEOREM OneResult == Spec => []ResultOnce
<1>1. Inv => ResultOnce
  BY DEF Inv
<1> QED BY Invariant, <1>1, PTL

(* After stop() the queued handlers receive nothing, signal nothing and    *)
(* open nothing (QuietAfterStop).                                          *)
THEOREM StopIsQuiet == Spec => QuietAfterStop
<1>1. ASSUME Inv, [Next]_vars, stopped_
      PROVE  UNCHANGED <<stopped_, open, iter, content, results>>
  <2>1. started /\ op.st # "inflight"
    BY <1>1 DEF Inv, ClientInv
  <2>2. CASE Handler
    BY <1>1, <2>2
    DEF Handler, Ready, HandleStopped, HandleConnect, HandleWriteRequest, HandleReadStatusLine,
        HandleReadHeaders, HandleReadContent, HandleReadChunkSize, HandleReadChunkData
  <2>3. CASE CheckDeadline \/ TimerFires \/ Tick \/ UNCHANGED vars
    BY <1>1, <2>3, ZenonT(30) DEF CheckDeadline, TimerFires, Tick, vars, clientVars
  <2> QED
    BY <1>1, <2>1, <2>2, <2>3, ZenonT(30)
    DEF Next, Start, Stop, Network, Established, NetworkError, Deliver, PeerClose, Eof, Reading
<1>2. Inv /\ [Next]_vars =>
        [stopped_ => UNCHANGED <<stopped_, open, iter, content, results>>]_vars
  BY <1>1
<1> QED BY Invariant, <1>2, PTL DEF Spec, QuietAfterStop

(* A connection whose deadline passed while its handler was queued counts  *)
(* as failed: the request is written to an open socket only, and failure   *)
(* is reported after the last endpoint only (TimedOutMovesOn).             *)
THEOREM MovesOn == Spec => TimedOutMovesOn
<1> DEFINE Good == /\ op.kind = "connect" /\ op'.kind = "write" => open
                   /\ iter' # iter => iter' = iter + 1 /\ (open => op.st # "ok")
                   /\ results' # results /\ op.kind = "connect" => iter = Endpoints
<1>1. ASSUME Inv, [Next]_vars PROVE Good
  <2>1. CASE Start
    <3>1. op.kind = "none" /\ ~open /\ iter = 0 /\ iter' = 1
      BY <1>1, <2>1, NoOpIs, SMTT(30) DEF Start, StartConnect, Inv, ClientInv
    <3> QED BY <3>1
  <2>2. CASE HandleConnect
    <3>1. op.kind = "connect" /\ iter \in 1 .. Endpoints
      BY <1>1, <2>2 DEF HandleConnect, Ready, Inv, ClientInv
    <3>2. CASE (~open \/ op.st # "ok") /\ StartConnect(iter + 1)
      <4>1. op'.kind # "write"
        BY <3>2, OpIs, NoOpIs DEF StartConnect, Kinds, States
      <4>2. iter' = iter + 1 /\ (results' # results => iter + 1 > Endpoints)
        BY <3>2 DEF StartConnect
      <4>3. iter + 1 > Endpoints => iter = Endpoints
        BY <3>1, ClientAssumption
      <4> QED BY <3>2, <4>1, <4>2, <4>3, SMTT(30)
    <3>3. CASE open /\ UNCHANGED <<iter, results>>
      BY <3>3
    <3> QED BY <2>2, <3>2, <3>3, SMTT(30) DEF HandleConnect
  <2>3. CASE HandleStopped
    BY <2>3, NoOpIs DEF HandleStopped
  <2>4. CASE op.kind # "connect" /\ UNCHANGED iter
    BY <2>4
  <2>5. CASE op'.kind = op.kind /\ UNCHANGED <<iter, results>>
    BY <2>5
  <2>6. CASE Handler
    BY <2>2, <2>3, <2>4, <2>6, ZenonT(30)
    DEF Handler, Ready, HandleWriteRequest, HandleReadStatusLine,
        HandleReadHeaders, HandleReadContent, HandleReadChunkSize, HandleReadChunkData,
        StopAndSignal, Continue
  <2>7. CASE Stop \/ CheckDeadline
    <3>1. op'.kind = op.kind /\ UNCHANGED <<iter, results>>
      BY <1>1, <2>7, AbortedIs DEF Stop, CheckDeadline, Inv, TypeOK
    <3> QED BY <2>5, <3>1
  <2>8. CASE TimerFires \/ Tick \/ UNCHANGED vars
    BY <2>5, <2>8, SMTT(30) DEF TimerFires, Tick, vars, clientVars
  <2>9. CASE Network
    <3>1. op'.kind = op.kind /\ UNCHANGED <<iter, results>>
      BY <1>1, <2>9, Zenon DEF Network, Established, NetworkError, Deliver, PeerClose, Eof, Complete,
                        clientVars, Inv, TypeOK, IsOp
    <3> QED BY <2>5, <3>1
  <2> QED BY <1>1, <2>1, <2>6, <2>7, <2>8, <2>9, SMTT(30) DEF Next
<1>2. Inv /\ [Next]_vars => [Good]_vars
  BY <1>1
<1> QED BY Invariant, <1>2, PTL DEF Spec, TimedOutMovesOn
=============================================================================
