-------------------------- MODULE MCPromiseSystem --------------------------
(* Instances of PromiseSystem for TLC. *)
EXTENDS PromiseSystem

\* Two threads call send_request() on the same connection.
TwoUsers == [u \in User |-> IF u = "main" THEN <<"a", "b">> ELSE <<"b">>]

\* A request whose text is the end marker.
EndText == [u \in User |-> <<"END">>]
=============================================================================
