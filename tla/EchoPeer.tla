------------------------------ MODULE EchoPeer ------------------------------
(***************************************************************************)
(* What the protocol comment shared by promise_server.cpp and              *)
(* promise_server_asio.cpp promises a client, and no more: for each        *)
(* request frame two reply frames with the same id, first the text of the  *)
(* request and then "END".  Replies to different requests may be written   *)
(* in any order and interleave frame by frame; both servers are more       *)
(* orderly than that.                                                      *)
(***************************************************************************)
EXTENDS Transport

VARIABLE owed    \* owed[c][i]: the reply frames of request i still to be sent

PeerTypeOK == owed \in [Conns -> [Ids -> Seq(Text)]]

PeerInit == owed = [c \in Conns |-> [i \in Ids |-> <<>>]]

\* The peer reads the next request.
PeerTake(c) ==
    /\ c2s[c] # <<>>
    /\ LET req == Head(c2s[c])
       IN  owed' = [owed EXCEPT ![c][req.id] = @ \o <<req.payload, END>>]
    /\ c2s' = [c2s EXCEPT ![c] = Tail(@)]
    /\ UNCHANGED <<s2c, broken>>

\* The peer writes the next frame of the reply to request i.
PeerReply(c, i) ==
    /\ ~broken[c]
    /\ owed[c][i] # <<>>
    /\ Len(s2c[c]) < RecvCap
    /\ s2c' = [s2c EXCEPT ![c] =
                  Append(@, [id |-> i, payload |-> Head(owed[c][i])])]
    /\ owed' = [owed EXCEPT ![c][i] = Tail(@)]
    /\ UNCHANGED <<c2s, broken>>

\* A reply frame for a connection that is gone goes nowhere.
PeerDrop(c, i) ==
    /\ broken[c]
    /\ owed[c][i] # <<>>
    /\ owed' = [owed EXCEPT ![c][i] = Tail(@)]
    /\ UNCHANGED netVars

PeerNext(c) ==
    \/ PeerTake(c)
    \/ \E i \in Ids : PeerReply(c, i) \/ PeerDrop(c, i)

-----------------------------------------------------------------------------
(***************************************************************************)
(* The rest of the world, for the servers that are shown to implement this *)
(* module: clients send and receive, connections break and then lose what  *)
(* was in flight.                                                          *)
(***************************************************************************)
ClientSends(c) ==
    /\ \E f \in Frame : c2s' = [c2s EXCEPT ![c] = Append(@, f)]
    /\ UNCHANGED <<s2c, broken, owed>>

ClientReads(c) ==
    /\ \E n \in 1..Len(s2c[c]) : s2c' = [s2c EXCEPT ![c] = Drop(@, n)]
    /\ UNCHANGED <<c2s, broken, owed>>

SomeBreak ==
    /\ \A c \in Conns :
          /\ broken[c] => broken'[c]
          /\ IF broken'[c]
             THEN /\ \E n \in 0..Len(c2s[c]) : c2s'[c] = Keep(c2s[c], n)
                  /\ \E n \in 0..Len(s2c[c]) : s2c'[c] = Keep(s2c[c], n)
             ELSE c2s'[c] = c2s[c] /\ s2c'[c] = s2c[c]
    /\ UNCHANGED owed

PeerStep ==
    \/ \E c \in Conns : PeerNext(c) \/ ClientSends(c) \/ ClientReads(c)
    \/ SomeBreak

peerVars == <<netVars, owed>>

PeerSpec == NetInit /\ PeerInit /\ [][PeerStep]_peerVars
=============================================================================
