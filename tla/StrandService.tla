---------------------------- MODULE StrandService ---------------------------
(***************************************************************************)
(* strand_service (asio/detail/impl/strand_service.ipp and .hpp) for one   *)
(* strand_impl: the lock bit that a handler holds, or the operation that   *)
(* will run it, and the two queues behind it.  The strand is itself an     *)
(* operation of the io_service; the handlers in its queues are not counted *)
(* as work, only that operation is.                                        *)
(*                                                                         *)
(* The thread that locks the strand pushes to ready_queue_ and calls       *)
(* work_started() after it has released impl->mutex_.  Both are part of    *)
(* the step that locks (Takes).  Nobody else uses ready_queue_ meanwhile,  *)
(* and the count is only ever compared with zero, which it cannot reach    *)
(* while the thread runs a handler, itself counted.  For a thread outside  *)
(* run() this hides a moment in which the others may run out of work and   *)
(* return with handlers behind a strand that it is about to post.          *)
(***************************************************************************)
EXTENDS TaskIoService

VARIABLE strand     \* locked_, waiting_queue_, ready_queue_

StrandOp   == [call |-> "strand"]

\* The completion of an operation whose handler is strand.wrap(h): it passes
\* h to strand.dispatch().
Wrapped(h) == [call |-> "wrapped", h |-> h]

StrandInit == strand = [locked |-> FALSE, waiting |-> <<>>, ready |-> <<>>]

\* running_in_this_thread()
InStrand(x) == \E i \in DOMAIN frames[x] : frames[x][i].call \in {"strand", "dispatched"}

-----------------------------------------------------------------------------
\* post_immediate_completion(impl, false): the strand is counted and queued.
Posts == <<[call |-> "enqueue", ops |-> <<StrandOp>>]>>

\* The strand is free: its new holder locks it, makes h ready and posts it.
Takes(h) ==
    /\ strand' = [strand EXCEPT !.locked = TRUE, !.ready = Append(@, h)]
    /\ outstanding_work' = outstanding_work + 1

\* Some other handler holds the strand.
Waits(h) ==
    /\ strand' = [strand EXCEPT !.waiting = Append(@, h)]
    /\ UNCHANGED outstanding_work

\* do_post().
Post(x) ==
    /\ Calls(x, "post")
    /\ IF strand.locked THEN Waits(Arg(x).h) /\ Advance(x, <<>>)
                        ELSE Takes(Arg(x).h) /\ Advance(x, Posts)
    /\ UNCHANGED <<op_queue, stopped, task_interrupted, owner, eventVars,
                   interrupt, threadVars>>

\* dispatch() and do_dispatch(): at once in the strand, or on a thread of the
\* io_service if the strand is free; otherwise as post().
DispatchTo(x, h) ==
    \/ InStrand(x) /\ UNCHANGED <<strand, outstanding_work>>
    \/ /\ ~InStrand(x) /\ ~strand.locked /\ x \in Thread
       /\ strand' = [strand EXCEPT !.locked = TRUE]
       /\ UNCHANGED outstanding_work
    \/ ~InStrand(x) /\ ~strand.locked /\ x \notin Thread /\ Takes(h)
    \/ ~InStrand(x) /\ strand.locked /\ Waits(h)

\* The calls that x is in after that.
Dispatched(x, h) ==
    CASE InStrand(x) -> <<Handler(h)>>
      [] ~InStrand(x) /\ strand.locked -> <<>>
      [] ~InStrand(x) /\ ~strand.locked ->
            IF x \in Thread THEN <<[call |-> "dispatched"], Handler(h)>> ELSE Posts

Dispatch(x) ==
    /\ \/ Calls(x, "dispatch") /\ DispatchTo(x, Arg(x).h) /\ Advance(x, Dispatched(x, Arg(x).h))
       \/ InCall(x, "wrapped") /\ DispatchTo(x, Top(x).h) /\ Replace(x, Dispatched(x, Top(x).h))
    /\ UNCHANGED <<op_queue, stopped, task_interrupted, owner, eventVars,
                   interrupt, threadVars>>

\* do_complete(): the ready handlers run one after the other.
StrandRuns(x) ==
    /\ InCall(x, "strand") /\ strand.ready # <<>>
    /\ strand' = [strand EXCEPT !.ready = Tail(@)]
    /\ Push(x, <<Handler(Head(strand.ready))>>)
    /\ UNCHANGED <<op_queue, outstanding_work, stopped, task_interrupted, owner,
                   eventVars, interrupt, threadVars>>

\* What waited while a handler had the strand becomes ready; the strand stays
\* locked as long as there is some.
HandsOver == strand' = [locked  |-> strand.ready \o strand.waiting # <<>>,
                        waiting |-> <<>>,
                        ready   |-> strand.ready \o strand.waiting]

\* on_do_complete_exit: post_immediate_completion(impl, true) puts the strand
\* on the thread's own queue.
StrandExit(x) ==
    /\ InCall(x, "strand") /\ strand.ready = <<>>
    /\ HandsOver /\ Pop(x)
    /\ IF strand.waiting # <<>>
       THEN /\ private' = [private EXCEPT ![x] = Append(@, StrandOp)]
            /\ private_work' = [private_work EXCEPT ![x] = @ + 1]
       ELSE UNCHANGED <<private, private_work>>
    /\ UNCHANGED <<op_queue, outstanding_work, stopped, task_interrupted, owner,
                   eventVars, interrupt, at>>

\* VARIANT of DispatchExit with a bug: the strand is unlocked whatever waits.
DispatchExitUnlocks(x) ==
    /\ InCall(x, "dispatched")
    /\ strand' = [locked |-> FALSE, waiting |-> <<>>, ready |-> strand.ready \o strand.waiting]
    /\ IF strand.ready \o strand.waiting # <<>>
       THEN Replace(x, Posts) /\ outstanding_work' = outstanding_work + 1
       ELSE Pop(x) /\ UNCHANGED outstanding_work
    /\ UNCHANGED <<op_queue, stopped, task_interrupted, owner, eventVars,
                   interrupt, threadVars>>

\* on_dispatch_exit: post_immediate_completion(impl, false).
DispatchExit(x) ==
    /\ InCall(x, "dispatched")
    /\ HandsOver
    /\ IF strand.ready \o strand.waiting # <<>>
       THEN Replace(x, Posts) /\ outstanding_work' = outstanding_work + 1
       ELSE Pop(x) /\ UNCHANGED outstanding_work
    /\ UNCHANGED <<op_queue, stopped, task_interrupted, owner, eventVars,
                   interrupt, threadVars>>

StrandStep(x) == Post(x) \/ Dispatch(x) \/ StrandRuns(x) \/ StrandExit(x) \/ DispatchExit(x)
=============================================================================
