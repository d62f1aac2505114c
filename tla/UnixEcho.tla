------------------------------ MODULE UnixEcho ------------------------------
(***************************************************************************)
(* network/unixsock: an echo server that forks a process for each          *)
(* connection, and the clients that send it lines.                         *)
(*                                                                         *)
(* The server process never closes the socket s2 of a connection, and a    *)
(* process it forks later inherits the ones of the earlier connections: a  *)
(* connection is closed when no process holds its s2. Closing or ending a  *)
(* process is one step. A client may be killed at any time; the server and *)
(* its processes end only as their code does. An operator Bad... is a      *)
(* mistake the code does not make.                                         *)
(***************************************************************************)
EXTENDS Naturals, Sequences

CONSTANTS Clients,
          BufSize,  \* the size of str, in the server and in the client
          Backlog   \* what listen allows

VARIABLES client,  \* "off", "prompt", "recv" or "gone"
          line,    \* the line each client waits for
          queue,   \* connections that wait for accept
          up,      \* bytes on the way to the server, per connection
          down,    \* bytes on the way to the client
          server,  \* "accept", "fork" or "gone"
          s2,      \* the connection accepted last
          child,   \* the process of each connection: "none", "recv", "send", "gone"
          str,     \* what it has received and not sent
          holds    \* the processes that hold s2 of each connection

vars == <<client, line, queue, up, down, server, s2, child, str, holds>>
toServer == <<server, s2, child, str, holds>>

Server == "server"

Init ==
  /\ client = [c \in Clients |-> "off"]
  /\ line = [c \in Clients |-> <<>>]
  /\ queue = <<>>
  /\ up = [c \in Clients |-> <<>>] /\ down = [c \in Clients |-> <<>>]
  /\ server = "accept" /\ s2 = CHOOSE c \in Clients : TRUE
  /\ child = [c \in Clients |-> "none"] /\ str = [c \in Clients |-> <<>>]
  /\ holds = [c \in Clients |-> {}]

(* The other end of c's socket is closed. *)
Closed(c) == holds[c] = {} /\ \A i \in DOMAIN queue : queue[i] # c

(* fgets gives at most BufSize - 1 characters; the newline is cut off. A   *)
(* byte of a client is one of two.                                         *)
Typed(c) == UNION {[1 .. n -> {c} \X {0, 1}] : n \in 0 .. BufSize - 1}

-----------------------------------------------------------------------------
ConnectTo(c) ==
  /\ client[c] = "off"
  /\ \/ /\ server # "gone" /\ Len(queue) <= Backlog
        /\ queue' = Append(queue, c)
        /\ client' = [client EXCEPT ![c] = "prompt"]
     \/ /\ server = "gone"
        /\ client' = [client EXCEPT ![c] = "gone"]
        /\ UNCHANGED queue
  /\ UNCHANGED <<line, up, down, toServer>>

(* fgets and send; SIGPIPE ends a client that sends to nobody. *)
SendLine(c) ==
  /\ client[c] = "prompt"
  /\ \E l \in Typed(c) :
       IF Closed(c)
       THEN client' = [client EXCEPT ![c] = "gone"] /\ UNCHANGED <<line, up>>
       ELSE /\ client' = [client EXCEPT ![c] = "recv"]
            /\ line' = [line EXCEPT ![c] = l]
            /\ up' = [up EXCEPT ![c] = @ \o l]
  /\ UNCHANGED <<queue, down, toServer>>

Received(buf) == SubSeq(buf, 1, IF Len(buf) < BufSize THEN Len(buf) ELSE BufSize)
Left(buf) == SubSeq(buf, BufSize + 1, Len(buf))

(* recv in the client: bytes, or the end of the connection. *)
RecvEcho(c) ==
  /\ client[c] = "recv"
  /\ \/ /\ down[c] # <<>>
        /\ down' = [down EXCEPT ![c] = Left(@)]
        /\ client' = [client EXCEPT ![c] = "prompt"]
     \/ /\ down[c] = <<>> /\ Closed(c)
        /\ client' = [client EXCEPT ![c] = "gone"]
        /\ UNCHANGED down
  /\ line' = [line EXCEPT ![c] = <<>>]
  /\ UNCHANGED <<queue, up, toServer>>

(* The end of the input at the prompt, or a signal anywhere. *)
Leave(c) ==
  /\ client[c] \in {"prompt", "recv"}
  /\ client' = [client EXCEPT ![c] = "gone"]
  /\ line' = [line EXCEPT ![c] = <<>>]
  /\ UNCHANGED <<queue, up, down, toServer>>

-----------------------------------------------------------------------------
(* What a process held is closed when it ends. *)
Released(p) == [c \in Clients |-> holds[c] \ {p}]

(* exit(1) closes the listening socket too, with all that waits there. *)
ServerExit ==
  /\ server' = "gone" /\ holds' = Released(Server) /\ queue' = <<>>

accept ==
  /\ server = "accept" /\ queue # <<>>
  /\ s2' = Head(queue) /\ queue' = Tail(queue)
  /\ holds' = [holds EXCEPT ![Head(queue)] = {Server}]
  /\ server' = "fork"
  /\ UNCHANGED <<client, line, up, down, child, str>>

(* Without a connection waiting too: for want of a descriptor accept fails *)
(* at once, and the server uses one up for every connection.               *)
AcceptFails ==
  /\ server = "accept"
  /\ ServerExit
  /\ UNCHANGED <<client, line, up, down, s2, child, str>>

fork ==
  /\ server = "fork"
  /\ server' = "accept"
  /\ child' = [child EXCEPT ![s2] = "recv"]
  /\ holds' = [c \in Clients |-> IF Server \in holds[c] THEN holds[c] \cup {s2} ELSE holds[c]]
  /\ UNCHANGED <<client, line, queue, up, down, s2, str>>


ForkFails ==
  /\ server = "fork"
  /\ ServerExit
  /\ UNCHANGED <<client, line, up, down, s2, child, str>>

(* close(s2) and exit(0) *)
ChildExit(c) ==
  /\ child' = [child EXCEPT ![c] = "gone"]
  /\ holds' = Released(c)

(* recv in the process of connection c. A client that is gone with bytes   *)
(* unread resets the connection, and recv may fail before it has all.      *)
ChildRecv(c) ==
  /\ child[c] = "recv"
  /\ \/ /\ up[c] # <<>>
        /\ str' = [str EXCEPT ![c] = Received(up[c])]
        /\ up' = [up EXCEPT ![c] = Left(@)]
        /\ child' = [child EXCEPT ![c] = "send"]
        /\ UNCHANGED holds
     \/ /\ client[c] = "gone" /\ (up[c] = <<>> \/ down[c] # <<>>)
        /\ ChildExit(c)
        /\ UNCHANGED <<str, up>>
  /\ UNCHANGED <<client, line, queue, down, server, s2>>

BadChildSend(c) ==
  /\ child[c] = "send"
  /\ down' = [down EXCEPT ![s2] = @ \o str[c]]
  /\ child' = [child EXCEPT ![c] = "recv"]
  /\ str' = [str EXCEPT ![c] = <<>>]
  /\ UNCHANGED <<client, line, queue, up, server, s2, holds>>

(* send: SIGPIPE ends the process when the client is gone. *)
ChildSend(c) ==
  /\ child[c] = "send"
  /\ IF client[c] = "gone" THEN ChildExit(c) /\ UNCHANGED down
     ELSE /\ down' = [down EXCEPT ![c] = @ \o str[c]]
          /\ child' = [child EXCEPT ![c] = "recv"]
          /\ UNCHANGED holds
  /\ str' = [str EXCEPT ![c] = <<>>]
  /\ UNCHANGED <<client, line, queue, up, server, s2>>

Next ==
  \/ accept \/ AcceptFails \/ fork \/ ForkFails
  \/ \E c \in Clients : \/ ConnectTo(c) \/ SendLine(c) \/ RecvEcho(c) \/ Leave(c)
                        \/ ChildRecv(c) \/ ChildSend(c)

Spec == Init /\ [][Next]_vars

(* Each process goes on as long as its next call does not block; accept    *)
(* and fork succeed or fail. Nobody has to type.                           *)
Fairness ==
  /\ WF_vars(accept \/ (queue # <<>> /\ AcceptFails)) /\ WF_vars(fork \/ ForkFails)
  /\ \A c \in Clients : WF_vars(ChildRecv(c)) /\ WF_vars(ChildSend(c)) /\ WF_vars(RecvEcho(c))

-----------------------------------------------------------------------------
(* What a client receives is the line it has sent, whole, and ends within  *)
(* str, where the code writes a 0 behind it: no byte of another            *)
(* connection or of an earlier line comes in between, whoever connects,    *)
(* leaves or is killed.                                                    *)
EchoRight ==
  \A c \in Clients :
    (client[c] = "recv" /\ down[c] # <<>>) => down[c] = line[c] /\ Len(down[c]) < BufSize

=============================================================================
