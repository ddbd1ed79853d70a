---------------------------- MODULE EpollReactor ----------------------------
(***************************************************************************)
(* epoll_reactor (asio/detail/impl/epoll_reactor.ipp) with one socket: the *)
(* operations that wait for it to become readable or writable, the edge-   *)
(* triggered events that epoll_wait() reports for it, and the descriptor's *)
(* own operation, which travels through the io_service's queue.  Timers    *)
(* are left out: neither program has one; so are EPOLLERR and EPOLLHUP,    *)
(* which perform operations of both kinds as if something had arrived.     *)
(*                                                                         *)
(* avail["read"] is what has arrived, avail["write"] the room there is to  *)
(* send, both in units of one operation.                                   *)
(***************************************************************************)
EXTENDS StrandService

VARIABLES
    queued,      \* op_queue_[k]: handlers of the waiting operations of kind k
    registered,  \* registered_events_: the kinds epoll reports
    closed,      \* shutdown_, and the null descriptor_data after it
    avail,       \* what the kernel has for an operation of kind k
    edge         \* the descriptor is on epoll's list of ready ones

descVars == <<queued, registered, closed, avail, edge>>

Kind == {"read", "write"}

DescriptorInit ==
    /\ queued = [k \in Kind |-> <<>>] /\ registered = {"read"} /\ closed = FALSE
    /\ avail = [k \in Kind |-> 0] /\ edge = FALSE

ReadyKinds == {k \in registered : avail[k] > 0}

\* The kernel: something arrives, or room is made.
Arrives(k) ==
    /\ ~closed
    /\ avail' = [avail EXCEPT ![k] = @ + 1]
    /\ edge' = (edge \/ k \in registered)
    /\ UNCHANGED <<queued, registered, closed, ioVars, strand>>

\* No thread is between the two halves of start_op(), with the descriptor's
\* mutex.
DescriptorUnlocked == \A y \in Actor : ~InCall(y, "await")

\* post_immediate_completion() for an operation with a strand.wrap()ped
\* handler: it continues what this thread does if that is in the strand.
\* (work_started() comes after the descriptor's mutex is released.)
CompletesAtOnce(x, h) ==
    IF InStrand(x)
    THEN /\ private' = [private EXCEPT ![x] = Append(@, Wrapped(h))]
         /\ private_work' = [private_work EXCEPT ![x] = @ + 1]
         /\ Advance(x, <<>>)
         /\ UNCHANGED outstanding_work
    ELSE /\ Advance(x, <<[call |-> "enqueue", ops |-> <<Wrapped(h)>>]>>)
         /\ outstanding_work' = outstanding_work + 1
         /\ UNCHANGED <<private, private_work>>

\* start_op() of an async_read_some or async_write: if no other operation is
\* before it, it is tried at once; else, or if it would block, it waits.
StartOp(x) ==
    /\ Calls(x, "async") /\ DescriptorUnlocked
    /\ LET k == Arg(x).k
           performed == ~closed /\ queued[k] = <<>> /\ avail[k] > 0
       IN  /\ avail' = [avail EXCEPT ![k] = IF performed THEN @ - 1 ELSE @]
           /\ IF performed \/ closed
              THEN CompletesAtOnce(x, Arg(x).h)
              ELSE /\ Advance(x, <<[call |-> "await", k |-> k, h |-> Arg(x).h]>>)
                   /\ UNCHANGED <<private, private_work, outstanding_work>>
    /\ UNCHANGED <<op_queue, stopped, task_interrupted, owner,
                   eventVars, interrupt, at, strand, queued, registered, closed, edge>>

\* The rest of start_op(): EPOLL_CTL_MOD with EPOLLOUT the first time, which
\* reports the descriptor again if it is ready already, for whichever kind.
Await(x) ==
    /\ InCall(x, "await")
    /\ LET k == Top(x).k
       IN  /\ registered' = registered \cup {k}
           /\ edge' = (edge \/ (k \notin registered /\ \E j \in registered \cup {k} : avail[j] > 0))
           /\ queued' = [queued EXCEPT ![k] = Append(@, Top(x).h)]
    /\ outstanding_work' = outstanding_work + 1
    /\ Pop(x)
    /\ UNCHANGED <<op_queue, stopped, task_interrupted, owner, eventVars,
                   interrupt, threadVars, strand, closed, avail>>

WrappedOps(hs) == [i \in DOMAIN hs |-> Wrapped(hs[i])]

\* socket.close(): deregister_descriptor() aborts what waits.
Close(x) ==
    /\ Calls(x, "close") /\ DescriptorUnlocked
    /\ Advance(x, PostDeferred(WrappedOps(queued["read"] \o queued["write"])))
    /\ queued' = [k \in Kind |-> <<>>]
    /\ closed' = TRUE /\ edge' = FALSE
    /\ UNCHANGED <<op_queue, outstanding_work, stopped, task_interrupted, owner,
                   eventVars, interrupt, threadVars, strand, registered, avail>>

\* run(): epoll_wait() and what it reports; it blocks until there is something
\* unless there are other operations to run.
EpollWait(t) ==
    /\ At(t, "poll") \/ (At(t, "block") /\ (interrupt \/ (edge /\ ReadyKinds # {})))
    /\ private' = IF edge /\ ReadyKinds # {}
                  THEN [private EXCEPT ![t] = Append(@, [call |-> "perform", events |-> ReadyKinds])]
                  ELSE private
    /\ interrupt' = FALSE /\ edge' = FALSE
    /\ Goes(t, "task_done")
    /\ UNCHANGED <<op_queue, outstanding_work, stopped, task_interrupted, owner,
                   eventVars, private_work, frames, strand, queued, registered, closed, avail>>

\* The operations of kind k that perform() completes now.
Performed(k, events) ==
    IF k \notin events THEN 0
    ELSE IF Len(queued[k]) < avail[k] THEN Len(queued[k]) ELSE avail[k]

\* VARIANT of PerformIo with a bug: no compensation for the work_finished()
\* that the io_service will do when nothing was completed.
PerformIoUncompensated(x) ==
    /\ InCall(x, "perform") /\ DescriptorUnlocked
    /\ LET n == [k \in Kind |-> Performed(k, Top(x).events)]
           done == WrappedOps(SubSeq(queued["write"], 1, n["write"]) \o
                              SubSeq(queued["read"], 1, n["read"]))
       IN  /\ queued' = [k \in Kind |-> SubSeq(queued[k], n[k] + 1, Len(queued[k]))]
           /\ avail' = [k \in Kind |-> avail[k] - n[k]]
           /\ Replace(x, IF done = <<>> THEN <<>> ELSE <<Head(done)>> \o PostDeferred(Tail(done)))
    /\ UNCHANGED <<op_queue, outstanding_work, stopped, task_interrupted, owner, eventVars,
                   interrupt, threadVars, strand, registered, closed, edge>>

\* descriptor_state::do_complete() and perform_io(): the first operation that
\* could be performed is completed here, the others are posted before that.
\* With none, work_started() makes up for work_finished() afterwards.
PerformIo(x) ==
    /\ InCall(x, "perform") /\ DescriptorUnlocked
    /\ LET n == [k \in Kind |-> Performed(k, Top(x).events)]
           done == WrappedOps(SubSeq(queued["write"], 1, n["write"]) \o
                              SubSeq(queued["read"], 1, n["read"]))
       IN  /\ queued' = [k \in Kind |-> SubSeq(queued[k], n[k] + 1, Len(queued[k]))]
           /\ avail' = [k \in Kind |-> avail[k] - n[k]]
           /\ outstanding_work' = IF done = <<>> THEN outstanding_work + 1 ELSE outstanding_work
           /\ Replace(x, IF done = <<>> THEN <<>> ELSE <<Head(done)>> \o PostDeferred(Tail(done)))
    /\ UNCHANGED <<op_queue, stopped, task_interrupted, owner, eventVars,
                   interrupt, threadVars, strand, registered, closed, edge>>

ReactorStep(x) == StartOp(x) \/ Await(x) \/ Close(x) \/ PerformIo(x)
=============================================================================
