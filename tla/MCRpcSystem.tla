----------------------------- MODULE MCRpcSystem ----------------------------
(***************************************************************************)
(* Instances of RpcSystem for TLC: the threads are named after what they   *)
(* do, and a call's argument is the thread that makes it.                  *)
(***************************************************************************)
EXTENDS RpcSystem

MCUser == {"call", "async", "note", "wait_all", "set_timeout"}
MCCaller == {"call", "async", "wait_all"}
MCDoes == [u \in MCUser |-> u]
MCCallerDoes == [u \in MCCaller |-> u]
=============================================================================
