----------------------------- MODULE HttpClient -----------------------------
(***************************************************************************)
(* my_lib/http_client: one HTTP request over Boost.Asio. The client tries  *)
(* its endpoints in turn, writes the request, reads the response, and      *)
(* signals one result. A deadline timer runs beside every operation on the *)
(* socket and closes the socket when it expires.                           *)
(*                                                                         *)
(* Handlers run one at a time. Between them the network, the timer and the *)
(* user act, so a completed operation may wait in the queue while the      *)
(* deadline closes the socket, and the other way round.                    *)
(*                                                                         *)
(* Bytes are units [k, n]: a whole line ("status", the header blocks       *)
(* "chunked", "length" and "empty", "size" of a chunk), a "byte" of the    *)
(* body numbered n, or one half "cr", "lf" of the end of a chunk. An       *)
(* operator Bad... is a mistake the code does not make.                    *)
(***************************************************************************)
EXTENDS Integers, Sequences, SequencesExt

CONSTANTS Endpoints,        \* number of endpoints_
          ConnTimeout,      \* conn_timeout of each
          TransferTimeout,  \* transfer_timeout of each
          Responses,        \* what a server may answer
          IntMax            \* largest int (scaled down)

Inf == -1  \* pos_infin

ASSUME ClientAssumption ==
  /\ Endpoints \in Nat
  /\ ConnTimeout \in Nat /\ TransferTimeout \in Nat
  /\ IntMax \in Nat

VARIABLES started, stopped_,
          open,      \* socket_.is_open()
          op,        \* the pending operation on the socket
          iter,      \* the endpoint bound to it
          left,      \* time to deadline_.expires_at(), or Inf
          wait,      \* deadline_.async_wait: "none", "waiting", "ready"
          buf,       \* response_
          content,   \* content_: the bytes in order
          results,   \* what result_sig was given
          response,  \* what the server answers,
          wire,      \*   what of it has not arrived,
          peer       \*   and whether it still holds the connection

clientVars == <<started, stopped_, open, op, iter, left, wait, buf, content, results>>
netVars == <<response, wire, peer>>
vars == <<clientVars, netVars>>

NoOp == [kind |-> "none", st |-> "none", size |-> 0, rem |-> 0]
Op(kind, st) == [NoOp EXCEPT !.kind = kind, !.st = st]

Init ==
  /\ started = FALSE /\ stopped_ = FALSE /\ open = FALSE
  /\ op = NoOp /\ iter = 0
  /\ left = 0 /\ wait = "none"
  /\ buf = <<>> /\ content = <<>> /\ results = <<>>
  /\ response \in Responses
  /\ wire = response /\ peer = "up"

-----------------------------------------------------------------------------
(* Asio: a new expiry or a cancel makes the pending wait complete, and a   *)
(* closed socket makes the operation in flight complete with an error.     *)
Cancelled(w) == IF w = "waiting" THEN "ready" ELSE w
Aborted(o) == IF o.st = "inflight" THEN [o EXCEPT !.st = "err"] ELSE o

(* What each async_read waits for. *)
Lines(kind) ==
  CASE kind = "status" -> {"status"}
    [] kind = "headers" -> {"chunked", "length", "empty"}
    [] kind = "size" -> {"size"}

Satisfied(o, b) ==
  CASE o.kind \in {"status", "headers", "size"} -> \E i \in DOMAIN b : b[i].k \in Lines(o.kind)
    [] o.kind = "chunk" -> o.rem = 0
    [] o.kind = "content" -> FALSE

(* A read that has all it needs completes without touching the socket. *)
StartRead(o, b) ==
  [o EXCEPT !.st = IF Satisfied(o, b) THEN "ok" ELSE IF open THEN "inflight" ELSE "err"]

BadStopAndSignal(r) ==
  /\ open' = FALSE
  /\ op' = NoOp
  /\ wait' = Cancelled(wait)
  /\ results' = Append(results, r)
  /\ UNCHANGED <<started, stopped_, iter, left, content>>

(* stop() and signal_result(r), from a handler: nothing else is pending. *)
StopAndSignal(r) ==
  /\ stopped_' = TRUE
  /\ open' = FALSE
  /\ op' = NoOp
  /\ wait' = Cancelled(wait)
  /\ results' = Append(results, r)
  /\ UNCHANGED <<started, iter, left, content>>

(* start_connect(iter), less what it does to the pending wait. Opening the *)
(* socket may fail.                                                        *)
StartConnect(i) ==
  /\ iter' = i
  /\ \/ /\ i <= Endpoints
        /\ left' = ConnTimeout
        /\ \/ open' = TRUE /\ op' = Op("connect", "inflight")
           \/ open' = FALSE /\ op' = Op("connect", "err")
        /\ stopped_' = FALSE
        /\ UNCHANGED results
     \/ /\ i > Endpoints
        /\ stopped_' = TRUE /\ open' = FALSE /\ op' = NoOp
        /\ results' = Append(results, "noserver")
        /\ UNCHANGED left

(* start(); a client is started once. *)
Start ==
  /\ ~started
  /\ started' = TRUE
  /\ StartConnect(1)
  /\ wait' = "waiting"
  /\ UNCHANGED <<buf, content, netVars>>

(* stop() by the user of the class, between two handlers. *)
Stop ==
  /\ started /\ ~stopped_
  /\ stopped_' = TRUE
  /\ open' = FALSE
  /\ op' = Aborted(op)
  /\ wait' = Cancelled(wait)
  /\ UNCHANGED <<started, iter, left, buf, content, results, netVars>>

-----------------------------------------------------------------------------
BadReady(kind) == op.kind = kind /\ op.st # "inflight"

(* The handler of the pending operation may run. *)
Ready(kind) == op.kind = kind /\ op.st # "inflight" /\ ~stopped_

(* The first test of every handler. *)
HandleStopped ==
  /\ stopped_ /\ op.st \notin {"none", "inflight"}
  /\ op' = NoOp
  /\ UNCHANGED <<started, stopped_, open, iter, left, wait, buf, content, results, netVars>>

BadHandleConnect ==
  /\ Ready("connect")
  /\ wait' = Cancelled(wait)
  /\ \/ /\ op.st # "ok"
        /\ StartConnect(iter + 1)
     \/ /\ op.st = "ok"
        /\ left' = TransferTimeout
        /\ op' = Op("write", IF open THEN "inflight" ELSE "err")
        /\ UNCHANGED <<stopped_, open, iter, results>>
  /\ UNCHANGED <<started, buf, content, netVars>>

(* A socket closed by the deadline, or an error: the next endpoint. *)
HandleConnect ==
  /\ Ready("connect")
  /\ wait' = Cancelled(wait)
  /\ \/ /\ ~open \/ op.st # "ok"
        /\ StartConnect(iter + 1)
     \/ /\ open /\ op.st = "ok"
        /\ left' = TransferTimeout
        /\ op' = Op("write", "inflight")
        /\ UNCHANGED <<stopped_, open, iter, results>>
  /\ UNCHANGED <<started, buf, content, netVars>>

(* The next read, over the buffer b. *)
Continue(o, b) ==
  /\ op' = StartRead(o, b)
  /\ buf' = b
  /\ UNCHANGED <<started, stopped_, open, iter, left, wait, results>>

HandleWriteRequest ==
  /\ Ready("write")
  /\ \/ op.st # "ok" /\ StopAndSignal("error") /\ UNCHANGED buf
     \/ op.st = "ok" /\ Continue(Op("status", "none"), buf) /\ UNCHANGED content
  /\ UNCHANGED netVars

HandleReadStatusLine ==
  /\ Ready("status")
  /\ \/ op.st # "ok" /\ StopAndSignal("error") /\ UNCHANGED buf
     \/ op.st = "ok" /\ Head(buf).n # 200 /\ StopAndSignal("error") /\ buf' = Tail(buf)
     \/ /\ op.st = "ok" /\ Head(buf).n = 200
        /\ Continue(Op("headers", "none"), Tail(buf))
        /\ UNCHANGED content
  /\ UNCHANGED netVars

HandleReadHeaders ==
  /\ Ready("headers")
  /\ \/ op.st # "ok" /\ StopAndSignal("error") /\ UNCHANGED buf
     \/ op.st = "ok" /\ Head(buf).k = "empty" /\ StopAndSignal("error") /\ buf' = Tail(buf)
     \/ /\ op.st = "ok" /\ Head(buf).k = "chunked"
        /\ Continue(Op("size", "none"), Tail(buf))
        /\ UNCHANGED content
     \/ /\ op.st = "ok" /\ Head(buf).k = "length"
        /\ Continue(Op("content", "none"), <<>>)
        /\ content' = content \o Tail(buf)
  /\ UNCHANGED netVars

(* The end of the stream ends the content, whatever its length. *)
HandleReadContent ==
  /\ Ready("content")
  /\ \/ op.st = "eof" /\ StopAndSignal("ok") /\ UNCHANGED buf
     \/ op.st = "err" /\ StopAndSignal("error") /\ UNCHANGED buf
     \/ /\ op.st = "ok"
        /\ Continue(Op("content", "none"), <<>>)
        /\ content' = content \o buf
  /\ UNCHANGED netVars

(* size_t to int. *)
ToInt(x) == ((x + IntMax + 1) % (2 * (IntMax + 1))) - (IntMax + 1)

BadRemaining(size, b) == LET diff == size - Len(b) IN IF diff > 0 THEN diff ELSE 0

(* What is still to come of a chunk and the line end after it. *)
Remaining(size, b) ==
  LET diff == ToInt(size + 2 - Len(b)) IN IF diff > 0 THEN diff ELSE 0

HandleReadChunkSize ==
  /\ Ready("size")
  /\ LET size == Head(buf).n
         b == Tail(buf)
     IN \/ op.st # "ok" /\ StopAndSignal("error") /\ UNCHANGED buf
        \/ op.st = "ok" /\ size = 0 /\ StopAndSignal("ok") /\ buf' = b
        \/ /\ op.st = "ok" /\ size > 0
           /\ Continue([Op("chunk", "none") EXCEPT !.size = size, !.rem = Remaining(size, b)], b)
           /\ UNCHANGED content
  /\ UNCHANGED netVars

(* getline: drop all up to the first newline. *)
AfterLine(b) ==
  SubSeq(b, SelectInSeq(b, LAMBDA u : u.k \notin {"byte", "cr"}) + 1, Len(b))

(* http_chunk_data takes the chunk and the line end from the buffer. *)
HandleReadChunkData ==
  /\ Ready("chunk")
  /\ \/ op.st # "ok" /\ StopAndSignal("error") /\ UNCHANGED buf
     \/ op.st = "ok" /\ Len(buf) < op.size /\ StopAndSignal("error") /\ buf' = <<>>
     \/ /\ op.st = "ok" /\ Len(buf) >= op.size
        /\ content' = content \o SubSeq(buf, 1, op.size)
        /\ Continue(Op("size", "none"), AfterLine(SubSeq(buf, op.size + 1, Len(buf))))
  /\ UNCHANGED netVars

-----------------------------------------------------------------------------
BadCheckDeadline ==
  /\ wait = "ready"
  /\ wait' = IF left = 0 /\ ~stopped_ THEN "waiting" ELSE "none"
  /\ \/ /\ ~stopped_ /\ left = 0
        /\ left' = Inf
        /\ open' = FALSE
        /\ op' = Aborted(op)
     \/ /\ stopped_ \/ left # 0
        /\ UNCHANGED <<left, open, op>>
  /\ UNCHANGED <<started, stopped_, iter, buf, content, results, netVars>>

BadDrainDeadline ==
  /\ wait = "ready"
  /\ wait' = "waiting"
  /\ \/ /\ ~stopped_ /\ left = 0
        /\ left' = Inf
        /\ open' = FALSE
        /\ op' = Aborted(op)
     \/ /\ stopped_ \/ left # 0
        /\ UNCHANGED <<left, open, op>>
  /\ UNCHANGED <<started, stopped_, iter, buf, content, results, netVars>>

(* check_deadline: whether the wait ended or was cancelled, the expiry     *)
(* time decides.                                                           *)
CheckDeadline ==
  /\ wait = "ready"
  /\ wait' = IF stopped_ THEN "none" ELSE "waiting"
  /\ \/ /\ ~stopped_ /\ left = 0
        /\ left' = Inf
        /\ open' = FALSE
        /\ op' = Aborted(op)
     \/ /\ stopped_ \/ left # 0
        /\ UNCHANGED <<left, open, op>>
  /\ UNCHANGED <<started, stopped_, iter, buf, content, results, netVars>>

(* The timer's time comes. *)
TimerFires ==
  /\ wait = "waiting" /\ left = 0
  /\ wait' = "ready"
  /\ UNCHANGED <<started, stopped_, open, op, iter, left, buf, content, results, netVars>>

Tick ==
  /\ left > 0
  /\ left' = left - 1
  /\ UNCHANGED <<started, stopped_, open, op, iter, wait, buf, content, results, netVars>>

-----------------------------------------------------------------------------
(* The network. *)
Complete(st) ==
  /\ op' = [op EXCEPT !.st = st]
  /\ UNCHANGED <<started, stopped_, open, iter, left, wait, buf, content, results>>

Established ==
  /\ op.st = "inflight" /\ op.kind \in {"connect", "write"}
  /\ Complete("ok")
  /\ UNCHANGED netVars

NetworkError ==
  /\ op.st = "inflight"
  /\ Complete("err")
  /\ UNCHANGED netVars

Reading == op.st = "inflight" /\ op.kind \notin {"connect", "write"}

(* Some of what the server sent arrives; a read of a chunk takes no more   *)
(* than it asked for.                                                      *)
Deliver ==
  /\ Reading
  /\ \E n \in 1 .. Len(wire) :
       LET b == buf \o SubSeq(wire, 1, n)
           o == IF op.kind = "chunk" THEN [op EXCEPT !.rem = @ - n] ELSE op
       IN /\ op.kind = "chunk" => n <= op.rem
          /\ buf' = b
          /\ wire' = SubSeq(wire, n + 1, Len(wire))
          /\ op' = [o EXCEPT !.st = IF o.kind = "content" \/ Satisfied(o, b)
                                    THEN "ok" ELSE "inflight"]
  /\ UNCHANGED <<started, stopped_, open, iter, left, wait, content, results, response, peer>>

(* The server closes the connection, maybe before all of it is sent. *)
PeerClose ==
  /\ peer = "up" /\ Reading
  /\ peer' = "closed"
  /\ \E n \in 0 .. Len(wire) : wire' = SubSeq(wire, 1, n)
  /\ UNCHANGED <<clientVars, response>>

Eof ==
  /\ Reading /\ peer = "closed" /\ wire = <<>>
  /\ Complete("eof")
  /\ UNCHANGED netVars

-----------------------------------------------------------------------------
Handler ==
  \/ HandleStopped
  \/ HandleConnect
  \/ HandleWriteRequest
  \/ HandleReadStatusLine
  \/ HandleReadHeaders
  \/ HandleReadContent
  \/ HandleReadChunkSize
  \/ HandleReadChunkData

Network == Established \/ NetworkError \/ Deliver \/ PeerClose \/ Eof

Next == Start \/ Stop \/ Handler \/ CheckDeadline \/ TimerFires \/ Tick \/ Network

Spec == Init /\ [][Next]_vars

(* io_service runs what is ready, and time passes; the network may stall. *)
FairSpec ==
  Spec /\ WF_vars(Handler) /\ WF_vars(CheckDeadline) /\ WF_vars(TimerFires) /\ WF_vars(Tick)

-----------------------------------------------------------------------------
(* While an operation is in flight the socket is open, and a deadline that *)
(* will close it is set and waited for: whatever the order of handlers, no *)
(* operation is ever left without the timer that start_connect,            *)
(* handle_connect and check_deadline keep re-arming.                       *)
DeadlineArmed ==
  op.st = "inflight" => open /\ left # Inf /\ wait # "none"

(* One result at most, and when it is out the client has stopped, with its *)
(* socket closed.                                                          *)
ResultOnce ==
  /\ Len(results) <= 1
  /\ results # <<>> => stopped_ /\ ~open /\ op = NoOp

Body == SelectSeq(response, LAMBDA u : u.k = "byte")

(* What was received is the beginning of the body: no byte is lost,        *)
(* repeated, or taken from the framing, however the stream was cut into    *)
(* reads; and a chunked response is reported as received only with its     *)
(* whole body.                                                             *)
ContentRight ==
  /\ IsPrefix(content, Body)
  /\ results = <<"ok">> /\ response[2].k = "chunked" => content = Body

(* The client reports that it failed to connect only after it has tried    *)
(* every endpoint, and it writes the request only to a socket that is      *)
(* open: a connection whose deadline passed while its handler was queued   *)
(* counts as failed, and the next endpoint is tried.                       *)
TimedOutMovesOn ==
  [][/\ op.kind = "connect" /\ op'.kind = "write" => open
     /\ iter' # iter => iter' = iter + 1 /\ (open => op.st # "ok")
     /\ results' # results /\ op.kind = "connect" => iter = Endpoints]_vars

(* After stop() nothing is received and no result is signalled, although   *)
(* handlers are still queued.                                              *)
QuietAfterStop ==
  [][stopped_ => UNCHANGED <<stopped_, open, iter, content, results>>]_vars

(* A client that is started ends, although the network may stall at any    *)
(* point, since the deadlines end every operation; then the last handlers  *)
(* run and none is queued again, so that the io_service and the shared_ptr *)
(* of the client are let go.                                               *)
Drains == started ~> [](stopped_ /\ op = NoOp /\ wait = "none")
=============================================================================
