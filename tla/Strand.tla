------------------------------- MODULE Strand ------------------------------
(***************************************************************************)
(* What io_service::strand promises (asio/strand.hpp, "Order of handler    *)
(* invocation"): handlers never run concurrently, they start in the order  *)
(* in which they were posted or dispatched, and one that is dispatched     *)
(* inside the strand runs at once, before its caller goes on.              *)
(***************************************************************************)
EXTENDS Naturals, Sequences

CONSTANTS Actor, Handlers

VARIABLES
    queue,      \* handlers given to the strand and not started, oldest first
    running     \* running[x]: handlers that x is in, the innermost last

Free == \A x \in Actor : running[x] = <<>>

Init == queue = <<>> /\ running = [x \in Actor |-> <<>>]

Submit(h) == queue' = Append(queue, h) /\ UNCHANGED running

Start(x) ==
    /\ Free /\ queue # <<>>
    /\ running' = [running EXCEPT ![x] = <<Head(queue)>>]
    /\ queue' = Tail(queue)

StartAtOnce(x, h) ==
    /\ running[x] # <<>> \/ (Free /\ queue = <<>>)
    /\ running' = [running EXCEPT ![x] = Append(@, h)]
    /\ UNCHANGED queue

Finish(x) ==
    /\ running[x] # <<>>
    /\ running' = [running EXCEPT ![x] = SubSeq(@, 1, Len(@) - 1)]
    /\ UNCHANGED queue

Next ==
    \/ \E h \in Handlers : Submit(h)
    \/ \E x \in Actor : Start(x) \/ Finish(x) \/ \E h \in Handlers : StartAtOnce(x, h)

Spec == Init /\ [][Next]_<<queue, running>>
=============================================================================
