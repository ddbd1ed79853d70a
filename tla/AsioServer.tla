----------------------------- MODULE AsioServer -----------------------------
(***************************************************************************)
(* promise_server_asio serving several clients.                            *)
(***************************************************************************)
EXTENDS PromiseServerAsio, EchoClients

vars == <<srvVars, netVars, clientsVars>>

Init == NetInit /\ ServerInit(<<>>) /\ ClientsInit

ConnectClient(c) ==
    /\ srv = "up"
    /\ Connect(c)
    /\ backlog' = Append(backlog, c)
    /\ UNCHANGED <<opVars, sessVars, srv>>

ClientStep(c) == Ask(c) \/ ReadReply(c) \/ Vanish(c)

Next ==
    \/ ServerNext /\ UNCHANGED clientsVars
    \/ \E c \in Conns : ConnectClient(c)
    \/ \E c \in Conns : ClientStep(c) /\ UNCHANGED srvVars

Spec == Init /\ [][Next]_vars

\* The pool's threads run, so queued handlers are run and operations that can
\* complete do; clients that read keep reading.
FairSpec ==
    /\ Spec
    /\ WF_vars(AcceptNext /\ UNCHANGED clientsVars)
    /\ \A c \in Conns :
          /\ SF_vars(SessionNext(c) /\ UNCHANGED clientsVars)
          /\ WF_vars(ReadReply(c) /\ UNCHANGED srvVars)

-----------------------------------------------------------------------------

(***************************************************************************)
(* "Only one async_write may be in flight per socket": do_write() is only  *)
(* ever called when no write of the session is pending or has its handler  *)
(* queued, and with a reply at the front of the queue.  And a queued reply *)
(* is never forgotten: unless the socket was closed after a write error,   *)
(* some write or handler will still take up the queue.                     *)
(***************************************************************************)
OneWriteInFlight ==
    \A c \in Conns :
        /\ rh[c] = "start" \/ (wh[c] = "next" /\ queue[c] # <<>>) =>
              writeOp[c] = "none" /\ queue[c] # <<>>
        /\ writeOp[c] # "none" \/ wh[c] = "pop" => queue[c] # <<>>
        /\ queue[c] # <<>> /\ sockOpen[c] =>
              writeOp[c] # "none" \/ rh[c] = "start" \/ wh[c] # "off"

\* The reply frames a session still has to write for request i.
OwedBy(c, i) ==
    LET parts == [k \in DOMAIN queue[c] |->
                     IF queue[c][k].id # i THEN <<>>
                     ELSE Drop(ReplyTo(queue[c][k]), IF k = 1 THEN written[c] ELSE 0)]
        held  == IF rh[c] \in {"test", "push"} /\ cur[c].id = i
                 THEN ReplyTo(cur[c]) ELSE <<>>
        mine  == {k \in DOMAIN parts : parts[k] # <<>>}
    IN  IF mine = {} THEN held ELSE parts[CHOOSE k \in mine : TRUE]

Peer == INSTANCE EchoPeer WITH
    c2s  <- [c \in Conns |-> sbuf[c] \o chunk[c] \o c2s[c]],
    owed <- [c \in Conns |-> [i \in Ids |-> OwedBy(c, i)]]

\* The server keeps the promise its clients rely on.
ImplementsEchoPeer == Peer!PeerSpec

=============================================================================
