------------------------------ MODULE RpcSystem -----------------------------
(***************************************************************************)
(* rpc::client talking to a server that keeps the protocol, over a         *)
(* connection that may drop.                                               *)
(***************************************************************************)
EXTENDS RpcClient, RpcPeer

vars == <<rpcVars, netVars, accepted>>

Init == ClientInit /\ NetInit /\ PeerInit

ConnectionDrops == life = "up" /\ Drops(1) /\ UNCHANGED <<rpcVars, accepted>>

\* What the server does once the client has ended concerns nobody.
ServerStep ==
    life \notin {"destroyed", "crashed"} /\ PeerNext(1) /\ UNCHANGED rpcVars

Next ==
    \/ ClientNext /\ UNCHANGED accepted
    \/ ServerStep
    \/ ConnectionDrops

Spec == Init /\ [][Next]_vars

\* The I/O thread and the callers run; the others, the server and the network
\* owe nothing.
FairSpec ==
    /\ Spec
    /\ WF_vars(IoNext /\ UNCHANGED accepted)
    /\ WF_vars(DestroyJoined /\ UNCHANGED accepted)
    /\ \A u \in {u \in User : Does[u] \in {"call", "async"}} :
          WF_vars(UserNext(u) /\ UNCHANGED accepted)

-----------------------------------------------------------------------------
\* Every variable keeps its type.
TypeOK == NetTypeOK /\ ClientTypeOK /\ PeerTypeOK

\* The calls in a sequence of messages or strand handlers.
CallsIn(s) == {s[k].id : k \in {k \in DOMAIN s : s[k].kind = "call"}}

(***************************************************************************)
(* Nobody waits for a promise that is lost: it is with the thread about to *)
(* post it, in a handler on the strand, or in ongoing_calls_, where a      *)
(* response or the destructor finds it.                                    *)
(***************************************************************************)
WaitingPromiseIsHeld ==
    life \in {"up", "idle", "stopping"} =>
        \A i \in Ids : promise[i] = Waiting =>
            \/ \E u \in User : user[u].pc = "post" /\ user[u].id = i
            \/ i \in CallsIn(strand)
            \/ i \in ongoing

(***************************************************************************)
(* Every response that is on its way finds its call in ongoing_calls_ with *)
(* a promise that is still open, although entries are added and erased by  *)
(* handlers that run later, and callers may have given up: so neither      *)
(* set_value() nor set_exception() throws in the I/O thread.               *)
(***************************************************************************)
ResponseFindsItsCall ==
    life \in {"up", "idle", "stopping"} =>
        LET coming == chunk \o down[1]
        IN  \A k \in DOMAIN coming :
                /\ coming[k].id \in ongoing
                /\ promise[coming[k].id] = Waiting
                /\ \A j \in DOMAIN coming : coming[j].id = coming[k].id => j = k

(***************************************************************************)
(* The queue of the writer is served, whatever handlers of two strands add *)
(* to it and take from it: one async_write, of its front, is running while *)
(* it is not empty, and none otherwise.  Only an error ends the chain.     *)
(***************************************************************************)
OneWriteChain ==
    writer.inFlight = IF writer.queue = <<>> \/ writer.stuck THEN 0 ELSE 1

(***************************************************************************)
(* A caller that gets a result gets the one computed from its own          *)
(* argument, whatever the order of responses and however many calls timed  *)
(* out before; and no call loses its promise while the client lives.       *)
(***************************************************************************)
OwnResult ==
    \A u \in User :
        /\ user[u].outcome \in {"value", "error"} => promise[user[u].id].of = u
        /\ user[u].outcome = "broken" => life = "destroyed"

(***************************************************************************)
(* The I/O thread leaves run(), after which no handler runs any more, only *)
(* when the connection is lost or was never made: as long as there is one, *)
(* a read is pending whatever responses, timeouts and erases there were.   *)
(***************************************************************************)
RunsWhileConnected == life = "idle" => gone[1]

(***************************************************************************)
(* A call() or async_call() that found the timeout set when it began to    *)
(* wait, for the connection or for the response, goes on or throws,        *)
(* whatever becomes of the connection, the server and the I/O thread.      *)
(***************************************************************************)
TimedWaitsEnd ==
    []<>(life = "crashed" \/ ~\E u \in User : user[u].pc \in {"connecting", "wait"} /\ user[u].timed)

(***************************************************************************)
(* A future that was handed out is decided once the client is destroyed:   *)
(* by its response, or as a broken promise.                                *)
(***************************************************************************)
DestructorReleases ==
    []<>(life = "destroyed" => \A u \in User : user[u].pc # "wait")

(***************************************************************************)
(* "Waits for the completion of all ongoing calls": when it has returned   *)
(* or thrown, every call that async_call() had posted before is decided.   *)
(***************************************************************************)
WaitAllWaits ==
    [][\A u \in User :
          Does[u] = "wait_all" /\ user[u].pc = "start" /\ user'[u].pc = "done" =>
              \A v \in User : user[v].pc = "wait" => promise[user[v].id] # Waiting]_vars
=============================================================================
