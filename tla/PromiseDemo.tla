----------------------------- MODULE PromiseDemo -----------------------------
(***************************************************************************)
(* The two programs of src/promise_demo together: promise_client connected *)
(* to promise_server, which both use blocking sends over bounded socket    *)
(* buffers.  The composition implements PromiseSystem, so what is shown    *)
(* there of the client against any server that keeps the protocol holds    *)
(* here; what it adds is that both ends can block.                         *)
(***************************************************************************)
EXTENDS PromiseClient, PromiseServer

CONSTANT MayBreak    \* TRUE when the network may break a connection

vars == <<clientVars, srvVars, netVars>>

\* main() creates the I/O thread after connect() has succeeded: the
\* connections are in the listener's backlog.
Init == ClientInit /\ NetInit /\ ServerInit([c \in Conns |-> c])

Break(c) ==
    /\ MayBreak /\ proc = "running"
    /\ BreakConnection(c)
    /\ UNCHANGED <<clientVars, srvVars>>

\* After the client is gone the server may wait in select() for ever.
Over == proc # "running" /\ UNCHANGED vars

Next ==
    \/ ClientNext /\ UNCHANGED srvVars
    \/ ServerNext /\ UNCHANGED clientVars
    \/ \E c \in Conns : Break(c)
    \/ Over

Spec == Init /\ [][Next]_vars

\* The threads of both processes are scheduled.
FairSpec ==
    /\ Spec
    /\ ClientFairness
    /\ WF_vars(ServerNext /\ UNCHANGED clientVars)

-----------------------------------------------------------------------------
\* What the server still owes for the request it is answering.
OwedNow ==
    IF srvPc = "echo" THEN <<request.payload, END>>
    ELSE IF srvPc = "end" THEN <<END>> ELSE <<>>

System == INSTANCE PromiseSystem WITH
    SendCap <- MaxId,
    c2s  <- [c \in Conns |-> sbuf[c] \o c2s[c]],
    owed <- [c \in Conns |-> [i \in Ids |->
                IF it \in DOMAIN connections /\ Current = c /\ request.id = i
                THEN OwedNow ELSE <<>>]]

\* The demo is an instance of the client with a protocol-keeping server.
ImplementsPromiseSystem == System!Spec

\* main() comes to an end, by returning after the I/O thread saw
\* stop_requested and was joined, or by an exception or signal that ends the
\* process: nobody is left waiting for anybody (promise_client.cpp main()).
MainEnds == <>(proc # "running")

\* No waiting future hangs for ever, with the blocking sends of both ends.
DemoWaitersAreReleased == System!WaitersAreReleased
=============================================================================
