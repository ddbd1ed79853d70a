----------------------------- MODULE AsioRuntime ----------------------------
(***************************************************************************)
(* The part of asio that promise_server_asio and rpclib run on: the        *)
(* io_service and its threads, one strand, the reactor and one socket, and *)
(* users that make library calls from handlers and from other threads.     *)
(* The models of the two servers take from here that the handlers of a     *)
(* strand exclude one another and that a handler that may run will.        *)
(***************************************************************************)
EXTENDS EpollReactor

CONSTANT MaxArrivals    \* bound: units of each kind the kernel ever delivers

VARIABLE arrived    \* how many it has delivered

vars == <<ioVars, strand, descVars, arrived>>

Handlers == DOMAIN Script \ Outside

\* The library calls that user code makes.
LibraryCall ==
    [do : {"io_post", "post", "dispatch"}, h : Handlers]
    \cup [do : {"async"}, k : Kind, h : Handlers]
    \cup [do : {"thread"}, t : Thread]
    \cup [do : {"stop", "close"}]

ASSUME ScriptAssumption ==
    /\ Outside \subseteq DOMAIN Script
    /\ \A h \in DOMAIN Script : Script[h] \in Seq(LibraryCall)

Init ==
    /\ IoInit /\ StrandInit /\ DescriptorInit
    /\ frames = [x \in Actor |-> IF x \in Outside THEN <<Handler(x)>> ELSE <<>>]
    /\ arrived = [k \in Kind |-> 0]

-----------------------------------------------------------------------------
\* A thread that will call run() is created.
StartThread(x) ==
    /\ Calls(x, "thread") /\ at[Arg(x).t] = "new"
    /\ Goes(Arg(x).t, "start")
    /\ Advance(x, <<>>)
    /\ UNCHANGED <<op_queue, outstanding_work, stopped, task_interrupted, owner,
                   eventVars, interrupt, private, private_work, strand>>

\* User code returns to the library, or ends.
Return(x) ==
    /\ InCall(x, "handler") /\ Top(x).todo = <<>>
    /\ Pop(x)
    /\ UNCHANGED <<op_queue, outstanding_work, stopped, task_interrupted, owner,
                   eventVars, interrupt, threadVars, strand>>

ServiceStep(x) == SignalOne(x) \/ StopAllThreads(x) \/ IoPost(x) \/ Enqueue(x)
UserStep(x)    == StartThread(x) \/ Return(x)

Step(x) ==
    /\ UNCHANGED arrived
    /\ \/ (ServiceStep(x) \/ (x \in Thread /\ RunLoop(x))) /\ UNCHANGED <<strand, descVars>>
       \/ (StrandStep(x) \/ UserStep(x)) /\ UNCHANGED descVars
       \/ ReactorStep(x)
       \/ x \in Thread /\ EpollWait(x)

KernelStep ==
    \E k \in Kind : /\ arrived[k] < MaxArrivals[k]
                    /\ arrived' = [arrived EXCEPT ![k] = @ + 1]
                    /\ Arrives(k)

Next == KernelStep \/ \E x \in Actor : Step(x)

\* Threads are scheduled.  Whether anything arrives, and whether an outside
\* thread ever calls stop(), is open.
Fairness ==
    /\ \A t \in Thread : WF_vars(Step(t))
    /\ \A x \in Outside : WF_vars(~Calls(x, "stop") /\ Step(x))

Spec == Init /\ [][Next]_vars /\ Fairness

-----------------------------------------------------------------------------
InQueue(o, q) == \E i \in DOMAIN q : q[i] = o

\* Types, and what a thread's place in run() says about the rest: it is asleep
\* exactly if the event knows it, has calls on its stack only while it runs an
\* operation or stops the others, and keeps mutex_ only in the loop.
TypeOK ==
    /\ outstanding_work \in Nat /\ private_work \in [Thread -> Nat]
    /\ {stopped, task_interrupted, signalled, interrupt, closed, edge} \subseteq BOOLEAN
    /\ waiting \subseteq Thread /\ notified \subseteq Thread /\ waiting \cap notified = {}
    /\ owner = Nobody \/ (owner \in Thread /\ at[owner] = "loop")
    /\ \A t \in Thread : /\ (at[t] = "wait") <=> (t \in waiting \cup notified)
                         /\ frames[t] # <<>> => at[t] \in {"running", "loop", "flush", "returned"}
                         /\ at[t] \in {"new", "start", "loop", "wait", "returned"} => private[t] = <<>>

-----------------------------------------------------------------------------
(***************************************************************************)
(* The count of work                                                       *)
(***************************************************************************)
\* How many of a sequence of operations (or of calls) have one of these names,
\* and the sum of a function's values.
Count(names, q) == Cardinality({i \in DOMAIN q : q[i].call \in names})
Total(f) == Cardinality(UNION {{x} \X (1..f[x]) : x \in DOMAIN f})

\* The task and the descriptor's operation do not count.
Counted == {"handler", "wrapped", "strand"}

\* An operation is counted until the work_cleanup after it.
Executing(t) == IF at[t] = "running" /\ ~(frames[t] # <<>> /\ frames[t][1].call = "perform") THEN 1 ELSE 0

BeingQueued(names, x) ==
    IF frames[x] # <<>> /\ Top(x).call = "enqueue" THEN Count(names, Top(x).ops) ELSE 0

\* The atomic count, with what the threads keep back, is the number of
\* operations that have not completed: were it ever less, run() would return
\* with handlers left; were it more, run() would never return.
WorkAccounted ==
    outstanding_work + Total(private_work) =
        Count(Counted, op_queue) + Len(queued["read"]) + Len(queued["write"])
        + Total([t \in Thread |-> Count(Counted, private[t]) + Executing(t)])
        + Total([x \in Actor |-> BeingQueued(Counted, x)])

\* "By the time we reach this point, any previously returned descriptor
\* operations have already been dequeued" (epoll_reactor::run()): the intrusive
\* queues hold the descriptor's operation, and the task, at most once.
QueuedOnce ==
    \A name \in {"perform", "task"} :
        Count({name}, op_queue) + Total([t \in Thread |-> Count({name}, private[t])]) <= 1

-----------------------------------------------------------------------------
(***************************************************************************)
(* The strand                                                              *)
(***************************************************************************)
\* Where on its stack x entered the strand.
Entry(x) == CHOOSE i \in DOMAIN frames[x] : frames[x][i].call \in {"strand", "dispatched"}

\* The handlers that x runs inside the strand: the innermost one may be in a
\* library call that has not returned.
StrandHandlers(x) ==
    IF ~InStrand(x) THEN <<>>
    ELSE LET last == IF Top(x).call \in {"enqueue", "await"} THEN Len(frames[x]) - 1 ELSE Len(frames[x])
         IN  [i \in 1..(last - Entry(x)) |-> frames[x][Entry(x) + i].h]

Serialised == INSTANCE Strand
              WITH queue <- strand.ready \o strand.waiting,
                   running <- [x \in Actor |-> StrandHandlers(x)]

\* strand_service implements the guarantee of asio/strand.hpp: no two handlers
\* at a time, in the order they were given to it, nested ones at once.
ImplementsStrand == Serialised!Spec

-----------------------------------------------------------------------------
(***************************************************************************)
(* Progress                                                                *)
(***************************************************************************)
Posted(h) ==
    \/ InQueue(h, strand.ready \o strand.waiting)
    \/ \E o \in {Handler(h), Wrapped(h)} :
          InQueue(o, op_queue) \/ \E t \in Thread : InQueue(o, private[t])

Performable(h) == \E k \in Kind : queued[k] # <<>> /\ Head(queued[k]) = h /\ avail[k] > 0

\* The outside threads, whose last call is stop(), have made all their calls.
StopAsked == \A x \in Outside : frames[x] = <<>> \/ frames[x][1].todo = <<>>

\* Every handler that was posted, and every operation whose socket has become
\* ready, is invoked unless somebody stops the service: no wakeup is lost
\* between the idle threads, the thread in epoll_wait and the strand, and
\* run() does not return for want of work before.  (There are finitely many
\* invocations: none can be passed over for ever if all of them end.)
HandlersRun ==
    (\E h \in Handlers : Posted(h) \/ Performable(h))
        ~> (StopAsked \/ ~\E h \in Handlers : Posted(h) \/ Performable(h))

\* "Ctrl+C stops the io_service, so all run() calls return and main exits"
\* (promise_server_asio.cpp): also the threads that sleep or wait for events.
StopReturns == stopped ~> \A t \in Thread : at[t] = "returned"
=============================================================================
