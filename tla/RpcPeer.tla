------------------------------ MODULE RpcPeer -------------------------------
(***************************************************************************)
(* What an rpc::client may count on: a server answers a call at most once, *)
(* with the id of the call and an outcome computed from its own argument,  *)
(* in any order, and answers nothing that is not a call.  It may also      *)
(* leave a call unanswered (disable_response(), a closed session).         *)
(***************************************************************************)
EXTENDS RpcNet

VARIABLE accepted    \* accepted[c]: calls read and not answered

PeerTypeOK == accepted \in [Conns -> SUBSET Call]

PeerInit == accepted = [c \in Conns |-> {}]

PeerTake(c) ==
    /\ \E n \in 1..Len(up[c]) :
          /\ up' = [up EXCEPT ![c] = Drop(@, n)]
          /\ accepted' = [accepted EXCEPT ![c] = @ \cup ({up[c][k] : k \in 1..n} \cap Call)]
    /\ UNCHANGED <<down, gone>>

PeerAnswer(c, call) ==
    /\ ~gone[c]
    /\ accepted' = [accepted EXCEPT ![c] = @ \ {call}]
    /\ \E failed \in BOOLEAN :
          down' = [down EXCEPT ![c] =
             Append(@, [id |-> call.id, error |-> failed, of |-> call.arg])]
    /\ UNCHANGED <<up, gone>>

PeerForget(c, call) ==
    /\ accepted' = [accepted EXCEPT ![c] = @ \ {call}]
    /\ UNCHANGED netVars

PeerNext(c) ==
    \/ PeerTake(c)
    \/ \E call \in accepted[c] : PeerAnswer(c, call)
    \/ \E call \in accepted[c] : PeerForget(c, call)

-----------------------------------------------------------------------------
(***************************************************************************)
(* A server is shown to implement this module in a world of clients that   *)
(* write requests and read responses, and of connections that drop.        *)
(***************************************************************************)
ClientWrites(c) ==
    /\ \E m \in Request : up' = [up EXCEPT ![c] = Append(@, m)]
    /\ UNCHANGED <<down, gone, accepted>>

ClientReads(c) ==
    /\ down[c] # <<>>
    /\ down' = [down EXCEPT ![c] = Tail(@)]
    /\ UNCHANGED <<up, gone, accepted>>

PeerEnds == AllGone /\ accepted' = [c \in Conns |-> {}]

peerVars == <<netVars, accepted>>

PeerStep ==
    \/ \E c \in Conns :
          \/ PeerNext(c) \/ ClientWrites(c) \/ ClientReads(c)
          \/ Drops(c) /\ UNCHANGED accepted
    \/ PeerEnds

PeerSpec == NetInit /\ PeerInit /\ [][PeerStep]_peerVars
=============================================================================
