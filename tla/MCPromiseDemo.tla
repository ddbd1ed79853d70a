---------------------------- MODULE MCPromiseDemo ----------------------------
(* Instances of PromiseDemo for TLC. *)
EXTENDS PromiseDemo

\* The three requests of main().
ThreeRequests == [u \in User |-> <<"hello", "promise", "world">>]

\* More requests than the socket buffers of the instance hold replies for.
ManyRequests == [u \in User |-> <<"a", "a", "a", "a", "a", "a">>]
=============================================================================
