---------------------------- MODULE PromiseServer ----------------------------
(***************************************************************************)
(* promise_server (src/promise_demo/promise_server.cpp): one thread that   *)
(* loops over select(), at most one accept(), and one pass over the        *)
(* connections that answers every complete request frame with two blocking *)
(* send_all() calls whose results it ignores.                              *)
(***************************************************************************)
EXTENDS Transport

CONSTANTS
    FdSetSize,      \* sockets an fd_set holds, the listener included
    ServerSigPipe   \* TRUE where ::send() on a dead socket raises SIGPIPE

ASSUME ServerAssumption ==
    /\ FdSetSize \in Nat \ {0}
    /\ ServerSigPipe \in BOOLEAN

VARIABLES
    backlog,      \* connections that completed connect(), not yet accepted
    connections,  \* the vector `connections', in accept order
    sbuf,         \* sbuf[c]: the complete frames in read_buffer
    sfrag,        \* sfrag[c]: read_buffer ends with a fragment
    ready,        \* `readable' after select(): sockets, and "listener"
    srvPc,        \* where main() is
    it,           \* the loop's iterator, an index of `connections'
    request,      \* the frame the inner while loop is answering
    srvUp         \* FALSE once the process is gone

srvVars == <<backlog, connections, sbuf, sfrag, ready, srvPc, it, request, srvUp>>

\* The listener in a set of sockets; connections are numbered from 1.
Listener == 0

\* The server has bound its port; `waiting' are the clients in connect().
ServerInit(waiting) ==
    /\ backlog = waiting
    /\ connections = <<>>
    /\ sbuf = [c \in Conns |-> <<>>]
    /\ sfrag = [c \in Conns |-> FALSE]
    /\ ready = {}
    /\ srvPc = "select"
    /\ it = 1
    /\ request = [id |-> 1, payload |-> END]
    /\ srvUp = TRUE

AtSrv(label) == srvUp /\ srvPc = label

\* The connection the iterator points at.
Current == connections[it]

(***************************************************************************)
(* FD_SET() on Windows ignores a socket when the fd_set is full; what      *)
(* select() is given is the listener and the first connections.            *)
(***************************************************************************)
Watched == {connections[k] : k \in {k \in DOMAIN connections : k < FdSetSize}}

ReadySockets ==
    {c \in Watched : Readable(c2s[c], c)}
        \cup (IF backlog # <<>> THEN {Listener} ELSE {})

\* select() with no timeout: blocks until something is ready.
Select ==
    /\ AtSrv("select")
    /\ ReadySockets # {}
    /\ ready' = ReadySockets
    /\ srvPc' = "accept"
    /\ UNCHANGED <<backlog, connections, sbuf, sfrag, it, request, srvUp, netVars>>

(***************************************************************************)
(* One accept() per round, if the listener is readable; it fails only for  *)
(* a peer that is gone again.  Then the first connection, a new one        *)
(* included.                                                               *)
(***************************************************************************)
Accept ==
    /\ AtSrv("accept")
    /\ IF Listener \in ready
       THEN /\ \/ connections' = Append(connections, Head(backlog))
               \/ broken[Head(backlog)] /\ UNCHANGED connections
            /\ backlog' = Tail(backlog)
       ELSE UNCHANGED <<connections, backlog>>
    /\ it' = 1
    /\ srvPc' = IF connections' = <<>> THEN "select" ELSE "recv"
    /\ UNCHANGED <<sbuf, sfrag, ready, request, srvUp, netVars>>

\* VARIANT of Disconnect with a bug: the end of the vector is not tested.
DisconnectRunsOn ==
    /\ AtSrv("recv")
    /\ Current \in ready /\ AtEnd(c2s[Current], Current)
    /\ connections' = Keep(connections, it - 1) \o Drop(connections, it)
    /\ sbuf' = [sbuf EXCEPT ![Current] = <<>>]
    /\ UNCHANGED <<backlog, sfrag, ready, srvPc, it, request, srvUp, netVars>>

\* recv_some() reports the end: close_socket(), erase, on to the next.
Disconnect ==
    /\ AtSrv("recv")
    /\ Current \in ready /\ AtEnd(c2s[Current], Current)
    /\ connections' = Keep(connections, it - 1) \o Drop(connections, it)
    /\ sbuf' = [sbuf EXCEPT ![Current] = <<>>]
    /\ srvPc' = IF it = Len(connections) THEN "select" ELSE "recv"
    /\ UNCHANGED <<backlog, sfrag, ready, it, request, srvUp, netVars>>

Receive ==
    /\ AtSrv("recv") /\ Current \in ready
    /\ \E taken \in 0..Len(c2s[Current]), part \in BOOLEAN :
          /\ RecvSome(c2s[Current], sfrag[Current], taken, part)
          /\ c2s' = [c2s EXCEPT ![Current] = Drop(@, taken)]
          /\ sfrag' = [sfrag EXCEPT ![Current] = part]
          /\ sbuf' = [sbuf EXCEPT ![Current] = @ \o Keep(c2s[Current], taken)]
    /\ srvPc' = "decode"
    /\ UNCHANGED <<backlog, connections, ready, it, request, srvUp, s2c, broken>>

SkipReceive ==
    /\ AtSrv("recv") /\ Current \notin ready
    /\ srvPc' = "decode"
    /\ UNCHANGED <<backlog, connections, sbuf, sfrag, ready, it, request, srvUp,
                   netVars>>

\* VARIANT of Decode with a bug: the frame is not erased from the buffer.
DecodeKeepsFrame ==
    /\ AtSrv("decode") /\ sbuf[Current] # <<>>
    /\ request' = Head(sbuf[Current])
    /\ srvPc' = "echo"
    /\ UNCHANGED <<backlog, connections, sbuf, sfrag, ready, it, srvUp, netVars>>

\* while (try_decode_frame(...)): the next request of this connection.
Decode ==
    /\ AtSrv("decode") /\ sbuf[Current] # <<>>
    /\ request' = Head(sbuf[Current])
    /\ sbuf' = [sbuf EXCEPT ![Current] = Tail(@)]
    /\ srvPc' = "echo"
    /\ UNCHANGED <<backlog, connections, sfrag, ready, it, srvUp, netVars>>

\* No complete frame is left: ++it, and back to select() after the last.
NextClient ==
    /\ AtSrv("decode") /\ sbuf[Current] = <<>>
    /\ IF it < Len(connections) THEN it' = it + 1 /\ srvPc' = "recv"
                                ELSE it' = it /\ srvPc' = "select"
    /\ UNCHANGED <<backlog, connections, sbuf, sfrag, ready, request, srvUp, netVars>>

(***************************************************************************)
(* send_all(frame): blocks while the socket buffers are full.  On a        *)
(* connection that is gone the frame goes nowhere, the result is ignored.  *)
(***************************************************************************)
SendAll(payload) ==
    IF broken[Current]
    THEN UNCHANGED netVars
    ELSE /\ Len(s2c[Current]) < RecvCap
         /\ s2c' = [s2c EXCEPT ![Current] =
                       Append(@, [id |-> request.id, payload |-> payload])]
         /\ UNCHANGED <<c2s, broken>>

SendEcho ==
    /\ AtSrv("echo")
    /\ SendAll(request.payload)
    /\ srvPc' = "end"
    /\ UNCHANGED <<backlog, connections, sbuf, sfrag, ready, it, request, srvUp>>

\* VARIANT of SendEnd with a bug: one request per round instead of a loop.
SendEndLeavesLoop ==
    /\ AtSrv("end")
    /\ SendAll(END)
    /\ IF it < Len(connections) THEN it' = it + 1 /\ srvPc' = "recv"
                                ELSE it' = it /\ srvPc' = "select"
    /\ UNCHANGED <<backlog, connections, sbuf, sfrag, ready, request, srvUp>>

SendEnd ==
    /\ AtSrv("end")
    /\ SendAll(END)
    /\ srvPc' = "decode"
    /\ UNCHANGED <<backlog, connections, sbuf, sfrag, ready, it, request, srvUp>>

\* SIGPIPE, neither ignored nor masked, ends the process: every connection
\* it had breaks.
SendKilled ==
    /\ srvUp /\ srvPc \in {"echo", "end"}
    /\ broken[Current] /\ ServerSigPipe
    /\ srvUp' = FALSE
    /\ broken' = [c \in Conns |-> TRUE]
    /\ UNCHANGED <<backlog, connections, sbuf, sfrag, ready, srvPc, it, request,
                   c2s, s2c>>

ServerNext ==
    \/ Select \/ Accept \/ Disconnect \/ Receive \/ SkipReceive
    \/ Decode \/ NextClient \/ SendEcho \/ SendEnd \/ SendKilled
=============================================================================
