------------------------------ MODULE Streams ------------------------------
(***************************************************************************)
(* What one recv() may do to a stream of frames: recv_some() of            *)
(* src/promise_demo/net.h, seen above the byte level.                      *)
(***************************************************************************)
EXTENDS Naturals, Sequences

\* A sequence without its first n elements, and its first n elements.
Drop(s, n) == SubSeq(s, n + 1, Len(s))
Keep(s, n) == SubSeq(s, 1, n)

(***************************************************************************)
(* recv_some() on a non-empty stream moves `taken' complete frames into    *)
(* the receiver's read buffer and, when `frag' is TRUE, the first bytes of *)
(* the frame after them.  `had' says whether such first bytes were there   *)
(* already; a call that yields neither a frame nor a first fragment would  *)
(* only repeat itself and is left out, a frame is finite.                  *)
(***************************************************************************)
RecvSome(stream, had, taken, frag) ==
    /\ taken \in 0..Len(stream)
    /\ frag => taken < Len(stream)
    /\ taken = 0 => frag /\ ~had
=============================================================================
