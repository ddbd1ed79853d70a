---------------------------- MODULE TaskIoService ---------------------------
(***************************************************************************)
(* task_io_service (asio/detail/impl/task_io_service.ipp): the queue of    *)
(* operations that the threads in io_service::run() share, the count of    *)
(* outstanding work whose end stops them, the event idle threads sleep on  *)
(* (posix_event.hpp) and the reactor's task, which travels through the     *)
(* queue as an operation of its own.  one_thread_ is FALSE, as in both     *)
(* programs.  Each action is a critical section of mutex_ or the code      *)
(* between two of them.                                                    *)
(*                                                                         *)
(* What user code does in a handler, or on a thread of its own, is a       *)
(* script: the sequence of the library calls it makes.                     *)
(***************************************************************************)
EXTENDS Naturals, Sequences, FiniteSets

CONSTANTS
    Thread,     \* the threads that call run()
    Outside,    \* the threads that only call post(), stop() and so on
    Script      \* Script[h]: the calls that handler (or outside thread) h makes

ASSUME ThreadAssumption ==
    IsFiniteSet(Thread) /\ IsFiniteSet(Outside) /\ Thread \cap Outside = {}

VARIABLES
    op_queue,          \* op_queue_
    outstanding_work,  \* outstanding_work_
    stopped,           \* stopped_
    task_interrupted,  \* task_interrupted_
    owner,             \* the thread that keeps mutex_ for its next step
    signalled,         \* bit 0 of wakeup_event_.state_
    waiting,           \* threads in pthread_cond_wait()
    notified,          \* threads that were woken in it and need mutex_
    owes,              \* owes[x]: x has unlocked and must signal one waiter
    interrupt,         \* the interrupter is ready in the epoll set
    at,                \* at[t]: where thread t is in run()
    private,           \* private[t]: its private_op_queue
    private_work,      \* private_work[t]: private_outstanding_work
    frames             \* frames[x]: the calls on the stack of x, last on top

eventVars  == <<signalled, waiting, notified, owes>>
threadVars == <<at, private, private_work>>
ioVars     == <<op_queue, outstanding_work, stopped, task_interrupted, owner,
                eventVars, interrupt, threadVars, frames>>

Actor == Thread \cup Outside
Nobody == "nobody"

\* An operation is the call that its complete() makes; task_operation_ is the
\* one that is never completed.
Task == [call |-> "task"]

At(t, pc) == at[t] = pc /\ ~owes[t]
Goes(t, pc) == at' = [at EXCEPT ![t] = pc]

Top(x)          == frames[x][Len(frames[x])]
Push(x, new)    == frames' = [frames EXCEPT ![x] = @ \o new]
Pop(x)          == frames' = [frames EXCEPT ![x] = SubSeq(@, 1, Len(@) - 1)]
Replace(x, new) == frames' = [frames EXCEPT ![x] = SubSeq(@, 1, Len(@) - 1) \o new]

\* x is about to do what its innermost call does next.
InCall(x, name) == ~owes[x] /\ frames[x] # <<>> /\ Top(x).call = name

\* User code, its next call being of this kind; it goes on after the call once
\* the calls in "new" have returned.
Handler(h)      == [call |-> "handler", h |-> h, todo |-> Script[h]]
Calls(x, kind)  == InCall(x, "handler") /\ Top(x).todo # <<>> /\ Head(Top(x).todo).do = kind
Arg(x)          == Head(Top(x).todo)
Advance(x, new) == Replace(x, <<[Top(x) EXCEPT !.todo = Tail(@)]>> \o new)

IoInit ==
    /\ op_queue = <<Task>> /\ outstanding_work = 0
    /\ stopped = FALSE /\ task_interrupted = TRUE /\ owner = Nobody
    /\ signalled = FALSE /\ waiting = {} /\ notified = {}
    /\ owes = [x \in Actor |-> FALSE]
    /\ interrupt = TRUE
    /\ at = [t \in Thread |-> "new"]
    /\ private = [t \in Thread |-> <<>>] /\ private_work = [t \in Thread |-> 0]

-----------------------------------------------------------------------------
(***************************************************************************)
(* wakeup_event_ and wake_one_thread_and_unlock()                          *)
(***************************************************************************)
HaveWaiters == waiting \cup notified # {}

\* stop_all_threads() and wake_one_thread_and_unlock() make epoll_wait return.
Interrupt ==
    /\ task_interrupted' = TRUE
    /\ interrupt' = (interrupt \/ ~task_interrupted)

\* VARIANT of WakeOne with a bug: the event is set and nobody is signalled.
WakeOneSilently(x) ==
    /\ signalled' = TRUE
    /\ UNCHANGED <<owes, waiting, notified, task_interrupted, interrupt>>

\* An idle thread if there is one, which x signals after unlocking, or else
\* the thread that is in epoll_wait.
WakeOne(x) ==
    /\ signalled' = TRUE
    /\ owes' = [owes EXCEPT ![x] = HaveWaiters]
    /\ IF HaveWaiters THEN UNCHANGED <<task_interrupted, interrupt>> ELSE Interrupt
    /\ UNCHANGED <<waiting, notified>>

\* pthread_cond_signal() after the unlock.
SignalOne(x) ==
    /\ owes[x]
    /\ owes' = [owes EXCEPT ![x] = FALSE]
    /\ IF waiting = {}
       THEN UNCHANGED <<waiting, notified>>
       ELSE \E t \in waiting : /\ waiting' = waiting \ {t}
                               /\ notified' = notified \cup {t}
    /\ UNCHANGED <<op_queue, outstanding_work, stopped, task_interrupted, owner,
                   signalled, interrupt, threadVars, frames>>

\* VARIANT of StopAllThreads with a bug: a blocked reactor is not interrupted.
StopAllThreadsNoInterrupt(x) ==
    /\ InCall(x, "stop") \/ Calls(x, "stop")
    /\ owner = Nobody
    /\ stopped' = TRUE
    /\ signalled' = TRUE /\ notified' = notified \cup waiting /\ waiting' = {}
    /\ IF Top(x).call = "stop" THEN Pop(x) ELSE Advance(x, <<>>)
    /\ UNCHANGED <<op_queue, outstanding_work, owner, owes, threadVars,
                   task_interrupted, interrupt>>

\* stop(): stop_all_threads().
StopAllThreads(x) ==
    /\ InCall(x, "stop") \/ Calls(x, "stop")
    /\ owner = Nobody
    /\ stopped' = TRUE
    /\ signalled' = TRUE /\ notified' = notified \cup waiting /\ waiting' = {}
    /\ Interrupt
    /\ IF Top(x).call = "stop" THEN Pop(x) ELSE Advance(x, <<>>)
    /\ UNCHANGED <<op_queue, outstanding_work, owner, owes, threadVars>>

\* io_service::post(), never a continuation: post_immediate_completion(op,
\* false) counts it with work_started() and then queues it.
IoPost(x) ==
    /\ Calls(x, "io_post")
    /\ outstanding_work' = outstanding_work + 1
    /\ Advance(x, <<[call |-> "enqueue", ops |-> <<Handler(Arg(x).h)>>]>>)
    /\ UNCHANGED <<op_queue, stopped, task_interrupted, owner, eventVars,
                   interrupt, threadVars>>

\* post_deferred_completions(): operations that are counted already.
PostDeferred(ops) == IF ops = <<>> THEN <<>> ELSE <<[call |-> "enqueue", ops |-> ops]>>

\* The rest of post_immediate_completion() and of post_deferred_completions().
Enqueue(x) ==
    /\ InCall(x, "enqueue") /\ owner = Nobody
    /\ op_queue' = op_queue \o Top(x).ops
    /\ WakeOne(x)
    /\ Pop(x)
    /\ UNCHANGED <<outstanding_work, stopped, owner, threadVars>>

-----------------------------------------------------------------------------
(***************************************************************************)
(* run() and do_run_one()                                                  *)
(***************************************************************************)
\* In do_run_one() with the mutex.
MayLock(t) == owner \in {Nobody, t} /\ frames[t] = <<>>

\* run() with nothing to do stops everybody and returns.
RunBegins(t) ==
    /\ At(t, "start")
    /\ IF outstanding_work = 0
       THEN Goes(t, "returned") /\ Push(t, <<[call |-> "stop"]>>)
       ELSE Goes(t, "loop") /\ UNCHANGED frames
    /\ UNCHANGED <<op_queue, outstanding_work, stopped, task_interrupted, owner,
                   eventVars, interrupt, private, private_work>>

RunReturns(t) ==
    /\ At(t, "loop") /\ MayLock(t) /\ stopped
    /\ Goes(t, "returned") /\ owner' = Nobody
    /\ UNCHANGED <<op_queue, outstanding_work, stopped, task_interrupted,
                   eventVars, interrupt, private, private_work, frames>>

\* The reactor's task: it may block only if nothing else is queued.
TakeTask(t) ==
    /\ At(t, "loop") /\ MayLock(t) /\ ~stopped
    /\ op_queue # <<>> /\ Head(op_queue) = Task
    /\ op_queue' = Tail(op_queue)
    /\ LET more == Tail(op_queue) # <<>>
       IN  /\ task_interrupted' = more
           /\ signalled' = (signalled \/ more)
           /\ owes' = [owes EXCEPT ![t] = more /\ HaveWaiters]
           /\ Goes(t, IF more THEN "poll" ELSE "block")
    /\ owner' = Nobody
    /\ UNCHANGED <<outstanding_work, stopped, waiting, notified, interrupt,
                   private, private_work, frames>>

\* Any other operation; another thread is woken for what is left.
TakeOp(t) ==
    /\ At(t, "loop") /\ MayLock(t) /\ ~stopped
    /\ op_queue # <<>> /\ Head(op_queue) # Task
    /\ op_queue' = Tail(op_queue) /\ Push(t, <<Head(op_queue)>>)
    /\ Goes(t, "running") /\ owner' = Nobody
    /\ IF Tail(op_queue) # <<>> THEN WakeOne(t)
                                ELSE UNCHANGED <<eventVars, task_interrupted, interrupt>>
    /\ UNCHANGED <<outstanding_work, stopped, private, private_work>>

\* Nothing queued: clear() the event and wait().
Idle(t) ==
    /\ At(t, "loop") /\ MayLock(t) /\ ~stopped
    /\ op_queue = <<>>
    /\ signalled' = FALSE /\ waiting' = waiting \cup {t}
    /\ Goes(t, "wait") /\ owner' = Nobody
    /\ UNCHANGED <<op_queue, outstanding_work, stopped, task_interrupted, notified,
                   owes, interrupt, private, private_work, frames>>

\* pthread_cond_wait() returns with the mutex; wait() tests the event again.
Wakes(t) ==
    /\ At(t, "wait") /\ t \in notified /\ owner = Nobody
    /\ notified' = notified \ {t}
    /\ IF signalled THEN Goes(t, "loop") /\ owner' = t /\ UNCHANGED waiting
                    ELSE waiting' = waiting \cup {t} /\ UNCHANGED <<at, owner>>
    /\ UNCHANGED <<op_queue, outstanding_work, stopped, task_interrupted,
                   signalled, owes, interrupt, private, private_work, frames>>

\* VARIANT of TaskCleanup with a bug: the task goes in before what it found.
TaskCleanupTaskFirst(t) ==
    /\ At(t, "task_done") /\ owner = Nobody
    /\ task_interrupted' = TRUE
    /\ op_queue' = Append(op_queue, Task) \o private[t]
    /\ private' = [private EXCEPT ![t] = <<>>]
    /\ outstanding_work' = outstanding_work + private_work[t]
    /\ private_work' = [private_work EXCEPT ![t] = 0]
    /\ Goes(t, "loop") /\ owner' = t
    /\ UNCHANGED <<stopped, eventVars, interrupt, frames>>

\* task_cleanup: what the reactor found, then the task again.
TaskCleanup(t) ==
    /\ At(t, "task_done") /\ owner = Nobody
    /\ task_interrupted' = TRUE
    /\ op_queue' = Append(op_queue \o private[t], Task)
    /\ private' = [private EXCEPT ![t] = <<>>]
    /\ outstanding_work' = outstanding_work + private_work[t]
    /\ private_work' = [private_work EXCEPT ![t] = 0]
    /\ Goes(t, "loop") /\ owner' = t
    /\ UNCHANGED <<stopped, eventVars, interrupt, frames>>

\* work_cleanup: the count of work, less the finished operation; at zero
\* everything stops.  Without the mutex.
WorkCleanup(t) ==
    /\ At(t, "running") /\ frames[t] = <<>>
    /\ outstanding_work' = outstanding_work + private_work[t] - 1
    /\ IF outstanding_work' = 0 THEN Push(t, <<[call |-> "stop"]>>) ELSE UNCHANGED frames
    /\ private_work' = [private_work EXCEPT ![t] = 0]
    /\ Goes(t, IF private[t] = <<>> THEN "loop" ELSE "flush")
    /\ UNCHANGED <<op_queue, stopped, task_interrupted, owner, eventVars,
                   interrupt, private>>

\* VARIANT of FlushPrivate with a bug: the mutex is taken, nothing is moved.
FlushPrivateForgets(t) ==
    /\ At(t, "flush") /\ frames[t] = <<>> /\ owner = Nobody
    /\ Goes(t, "loop") /\ owner' = t
    /\ UNCHANGED <<op_queue, private, outstanding_work, stopped, task_interrupted,
                   eventVars, interrupt, private_work, frames>>

\* Then the thread's own queue, if it has one, moves to the common one, and
\* run() goes on with the mutex.
FlushPrivate(t) ==
    /\ At(t, "flush") /\ frames[t] = <<>> /\ owner = Nobody
    /\ op_queue' = op_queue \o private[t]
    /\ private' = [private EXCEPT ![t] = <<>>]
    /\ Goes(t, "loop") /\ owner' = t
    /\ UNCHANGED <<outstanding_work, stopped, task_interrupted, eventVars,
                   interrupt, private_work, frames>>

RunLoop(t) ==
    \/ RunBegins(t) \/ RunReturns(t) \/ TakeTask(t) \/ TakeOp(t) \/ Idle(t)
    \/ Wakes(t) \/ TaskCleanup(t) \/ WorkCleanup(t) \/ FlushPrivate(t)
=============================================================================
