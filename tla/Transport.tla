----------------------------- MODULE Transport -----------------------------
(***************************************************************************)
(* The TCP connections between promise_client and its server, as the       *)
(* helpers of src/promise_demo/net.h see them.  A direction of a           *)
(* connection is the sequence of frames that were handed to ::send() and   *)
(* not yet returned by ::recv(); its length is bounded by what the two     *)
(* socket buffers hold, and ::send() blocks when they are full.            *)
(*                                                                         *)
(* The unit of the model is the frame.  That a chunk of bytes may end in   *)
(* the middle of a frame is kept as the choice of how many complete frames *)
(* one recv_some() yields and whether it also takes a fragment of the next *)
(* one; what the bytes of a frame look like is the subject of Framing.     *)
(***************************************************************************)
EXTENDS Streams

CONSTANTS
    NumConns,   \* number of TCP connections
    Text,       \* the payloads the model tells apart, "END" among them
    MaxId,      \* BOUND: largest request id a connection hands out
    SendCap,    \* BOUND: frames the client-to-server socket buffers hold
    RecvCap     \* BOUND: frames the server-to-client socket buffers hold

\* The payload that closes a reply.
END == "END"

ASSUME TransportAssumption ==
    /\ NumConns \in Nat \ {0}
    /\ MaxId \in Nat \ {0}
    /\ SendCap \in Nat \ {0}
    /\ RecvCap \in Nat \ {0}
    /\ END \in Text

Conns == 1..NumConns
Ids   == 1..MaxId

\* [4-byte id][4-byte length][payload]; requests and reply frames alike.
Frame == [id : Ids, payload : Text]

VARIABLES
    c2s,        \* c2s[c]: frames on their way from the client to the server
    s2c,        \* s2c[c]: frames on their way from the server to the client
    broken      \* broken[c]: the connection is gone (reset, or an end closed)

netVars == <<c2s, s2c, broken>>

NetTypeOK ==
    /\ c2s \in [Conns -> Seq(Frame)]
    /\ s2c \in [Conns -> Seq(Frame)]
    /\ broken \in [Conns -> BOOLEAN]

NetInit ==
    /\ c2s = [c \in Conns |-> <<>>]
    /\ s2c = [c \in Conns |-> <<>>]
    /\ broken = [c \in Conns |-> FALSE]

\* wait_readable(): data is there, or recv() would report the end at once.
Readable(stream, c) == stream # <<>> \/ broken[c]

\* recv_some() <= 0: everything sent has been read and the connection is gone.
AtEnd(stream, c) == stream = <<>> /\ broken[c]

(***************************************************************************)
(* The connection breaks: nothing further gets through, and of what was in *)
(* flight each end can still read some first part.                         *)
(***************************************************************************)
BreakConnection(c) ==
    /\ ~broken[c]
    /\ broken' = [broken EXCEPT ![c] = TRUE]
    /\ \E n \in 0..Len(c2s[c]) : c2s' = [c2s EXCEPT ![c] = Keep(c2s[c], n)]
    /\ \E n \in 0..Len(s2c[c]) : s2c' = [s2c EXCEPT ![c] = Keep(s2c[c], n)]
=============================================================================
