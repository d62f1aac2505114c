------------------------------ MODULE Programs ------------------------------
(***************************************************************************)
(* The event of my_lib, the stop watch of cpp_console and the echo server  *)
(* of network/unixsock, which share nothing.                               *)
(***************************************************************************)
EXTENDS ManualResetEvent, Sequences

CONSTANTS Items, MaxRecords, Instants,       \* StopWatch
          Clients, BufSize, Backlog          \* UnixEcho

VARIABLES _running, duration, time_point, records, totals, clock, since, ran, spent,
          client, line, queue, up, down, server, s2, child, str, holds

watchVars == <<_running, duration, time_point, records, totals, clock, since, ran, spent>>
unixVars == <<client, line, queue, up, down, server, s2, child, str, holds>>

Watch == INSTANCE StopWatch WITH _data <- records, _result <- totals, now <- clock
Unix == INSTANCE UnixEcho

(* stop_watch: only whole days can be missing in what is shown (StopWatch).*)
ElapsedTrue == Watch!ElapsedTrue

(* unixsock: what a client receives is its own line, whole (UnixEcho). *)
EchoRight == Unix!EchoRight

=============================================================================
