---------------------------- MODULE SelectServer ----------------------------
(***************************************************************************)
(* promise_server serving several clients.                                 *)
(***************************************************************************)
EXTENDS PromiseServer, EchoClients

vars == <<srvVars, netVars, clientsVars>>

Init == NetInit /\ ServerInit(<<>>) /\ ClientsInit

ConnectClient(c) ==
    /\ srvUp
    /\ Connect(c)
    /\ backlog' = Append(backlog, c)
    /\ UNCHANGED <<connections, sbuf, sfrag, ready, srvPc, it, request, srvUp>>

ClientStep(c) == Ask(c) \/ ReadReply(c) \/ Vanish(c)

Next ==
    \/ ServerNext /\ UNCHANGED clientsVars
    \/ \E c \in Conns : ConnectClient(c)
    \/ \E c \in Conns : ClientStep(c) /\ UNCHANGED srvVars

Spec == Init /\ [][Next]_vars

\* The server's thread runs; clients that read keep reading.
FairSpec ==
    /\ Spec
    /\ WF_vars(ServerNext /\ UNCHANGED clientsVars)
    /\ \A c \in Conns : WF_vars(ReadReply(c) /\ UNCHANGED srvVars)

-----------------------------------------------------------------------------

(***************************************************************************)
(* Erasing from the vector while looping over it: the iterator always      *)
(* points at a connection, no socket is in the vector twice, and one that  *)
(* was erased (and closed) is in no later select() nor sent to.            *)
(***************************************************************************)
IteratorValid ==
    /\ srvPc \in {"recv", "decode", "echo", "end"} => it \in DOMAIN connections
    /\ \A j, k \in DOMAIN connections : connections[j] = connections[k] => j = k

\* What the server still owes a client for the request it is answering.
OwedNow ==
    IF srvPc = "echo" THEN <<request.payload, END>>
    ELSE IF srvPc = "end" THEN <<END>> ELSE <<>>

Peer == INSTANCE EchoPeer WITH
    c2s  <- [c \in Conns |-> sbuf[c] \o c2s[c]],
    owed <- [c \in Conns |-> [i \in Ids |->
                IF it \in DOMAIN connections /\ Current = c /\ request.id = i
                THEN OwedNow ELSE <<>>]]

\* The server keeps the promise its clients rely on.
ImplementsEchoPeer == Peer!PeerSpec
=============================================================================
