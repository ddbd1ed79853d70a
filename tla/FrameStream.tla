---------------------------- MODULE FrameStream ----------------------------
(***************************************************************************)
(* A direction of a connection as the other modules see it: frames, of     *)
(* which recv() delivers any number of complete ones and perhaps the first *)
(* bytes of one more.                                                      *)
(***************************************************************************)
EXTENDS Streams

CONSTANT Item

VARIABLES
    inflight,   \* frames not yet completely received
    ready,      \* complete frames in the read buffer
    frag        \* the read buffer ends with the first bytes of another frame

Init == inflight = <<>> /\ ready = <<>> /\ frag = FALSE

Put ==
    /\ \E f \in Item : inflight' = Append(inflight, f)
    /\ UNCHANGED <<ready, frag>>

Receive ==
    \E taken \in 0..Len(inflight), part \in BOOLEAN :
        /\ RecvSome(inflight, frag, taken, part)
        /\ ready' = ready \o Keep(inflight, taken)
        /\ inflight' = Drop(inflight, taken)
        /\ frag' = part

Take == ready # <<>> /\ ready' = Tail(ready) /\ UNCHANGED <<inflight, frag>>

Spec == Init /\ [][Put \/ Receive \/ Take]_<<inflight, ready, frag>>
=============================================================================
