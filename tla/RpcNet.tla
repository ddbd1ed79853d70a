------------------------------- MODULE RpcNet -------------------------------
(***************************************************************************)
(* The connections between rpclib clients and an rpclib server, as streams *)
(* of msgpack-rpc messages (rpclib/doc/pages/spec.md).  What msgpack does  *)
(* to the bytes of a message is left out; how many messages one read       *)
(* yields is a choice of the reading end.                                  *)
(***************************************************************************)
EXTENDS Streams

CONSTANTS
    NumConns,   \* number of connections
    Args,       \* arguments of calls, which handlers echo
    MaxId       \* BOUND: call ids of a connection

ASSUME RpcNetAssumption == NumConns \in Nat \ {0} /\ MaxId \in Nat

Conns == 1..NumConns
Ids   == 1..MaxId

\* Requests [0, id, f, args] and notifications [2, f, args], which have no id.
Call   == [kind : {"call"}, id : Ids, arg : Args]
Note   == [kind : {"note"}, id : {0}, arg : Args]
Request == Call \cup Note

(***************************************************************************)
(* Responses [1, id, error, result]: the error object is nil or not, and   *)
(* `of' is the argument of the call the result or error was computed from. *)
(***************************************************************************)
Response == [id : Ids, error : BOOLEAN, of : Args]

VARIABLES
    up,         \* up[c]: messages on their way to the server
    down,       \* down[c]: messages on their way to the client
    gone        \* gone[c]: the connection is gone

netVars == <<up, down, gone>>

NetTypeOK ==
    /\ up \in [Conns -> Seq(Request)]
    /\ down \in [Conns -> Seq(Response)]
    /\ gone \in [Conns -> BOOLEAN]

NetInit ==
    /\ up = [c \in Conns |-> <<>>]
    /\ down = [c \in Conns |-> <<>>]
    /\ gone = [c \in Conns |-> FALSE]

\* A connection ends; each side may still read some first part of what was
\* in flight.
Drops(c) ==
    /\ ~gone[c]
    /\ gone' = [gone EXCEPT ![c] = TRUE]
    /\ \E n \in 0..Len(up[c]) : up' = [up EXCEPT ![c] = Keep(up[c], n)]
    /\ \E n \in 0..Len(down[c]) : down' = [down EXCEPT ![c] = Keep(down[c], n)]

\* The server closes its end: what came is not read any more, and some last
\* part of what it wrote may be lost.  Of a connection that is gone already
\* nothing more can be lost.
ServerCloses(c) ==
    \/ gone[c] /\ UNCHANGED netVars
    \/ /\ ~gone[c]
       /\ gone' = [gone EXCEPT ![c] = TRUE]
       /\ up' = [up EXCEPT ![c] = <<>>]
       /\ \E n \in 0..Len(down[c]) : down' = [down EXCEPT ![c] = Keep(@, n)]

\* The server's process ends its connections; clients may read what came.
AllGone ==
    /\ gone' = [c \in Conns |-> TRUE]
    /\ up' = [c \in Conns |-> <<>>]
    /\ UNCHANGED down
=============================================================================
