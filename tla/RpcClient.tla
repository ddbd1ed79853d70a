------------------------------ MODULE RpcClient -----------------------------
(***************************************************************************)
(* rpc::client (rpclib/lib/rpc/client.cc, include/rpc/client.inl): threads *)
(* that call async_call(), call(), send() and wait_all_responses(), and    *)
(* the one thread in io_service::run() that executes everything posted to  *)
(* the strand, the connect, read and write handlers.  The client is at the *)
(* end 1 of the only connection.                                           *)
(***************************************************************************)
EXTENDS RpcNet, RpcWriter

CONSTANTS
    User,            \* the threads that use the client
    Does             \* Does[u]: the member function that thread u calls

ASSUME RpcClientAssumption ==
    /\ Does \in [User -> {"call", "async", "note", "wait_all", "set_timeout"}]
    /\ User \subseteq Args /\ NumConns = 1

VARIABLES
    state,        \* state_
    isConnected,  \* is_connected_
    connectionEc, \* connection_ec_ is set
    timeout,      \* timeout_ is set
    callIdx,      \* call_idx_
    strand,       \* handlers posted to strand_ and not yet run
    ongoing,      \* the keys of ongoing_calls_
    promise,      \* promise[i]: the shared state of the promise of call i
    writer,       \* writer_
    reading,      \* an async_read_some is pending
    chunk,        \* unpacked responses the read handler has still to handle
    life,         \* "up", "idle" (run() has returned), "stopping" (io_.stop()),
                  \* "destroyed", "crashed"
    user          \* user[u]: where thread u is, whether it waits for at most a
                  \* time, its call id and its outcome

rpcVars == <<state, isConnected, connectionEc, timeout, callIdx, strand, ongoing,
             promise, writer, reading, chunk, life, user>>

Unused    == [state |-> "unused",  of |-> "none"]
Waiting   == [state |-> "waiting", of |-> "none"]
Broken    == [state |-> "broken",  of |-> "none"]
Decided(r) == [state |-> IF r.error THEN "error" ELSE "value", of |-> r.of]

Task == Request \cup [kind : {"erase"}, id : Ids]

ClientTypeOK ==
    /\ state \in {"initial", "connected", "disconnected"}
    /\ isConnected \in BOOLEAN /\ connectionEc \in BOOLEAN /\ timeout \in BOOLEAN
    /\ callIdx \in 0..MaxId
    /\ strand \in Seq(Task)
    /\ ongoing \subseteq Ids
    /\ promise \in [Ids -> [state : {"unused", "waiting", "value", "error", "broken"},
                            of : Args \cup {"none"}]]
    /\ writer \in Writer(Request)
    /\ reading \in BOOLEAN
    /\ chunk \in Seq(Response)
    /\ life \in {"up", "idle", "stopping", "destroyed", "crashed"}
    /\ user \in [User -> [pc : {"start", "connecting", "number", "post", "choose", "wait", "set", "done"},
                          timed : BOOLEAN,
                          id : Ids \cup {0},
                          outcome : {"none", "value", "error", "broken", "timeout",
                                     "system_error", "sent", "ok", "future_error"}]]

\* The constructor has started connecting.
ClientInit ==
    /\ state = "initial"
    /\ isConnected = FALSE /\ connectionEc = FALSE
    /\ timeout = FALSE
    /\ callIdx = 0
    /\ strand = <<>>
    /\ ongoing = {}
    /\ promise = [i \in Ids |-> Unused]
    /\ writer = NewWriter
    /\ reading = FALSE
    /\ chunk = <<>>
    /\ life = "up"
    /\ user = [u \in User |-> [pc |-> "start", timed |-> FALSE, id |-> 0, outcome |-> "none"]]

-----------------------------------------------------------------------------
(***************************************************************************)
(* The threads that use the client                                         *)
(***************************************************************************)
AtPc(u, pc) == life \in {"up", "idle"} /\ user[u].pc = pc

Ends(u, outcome) ==
    user' = [user EXCEPT ![u].pc = "done", ![u].timed = FALSE, ![u].outcome = outcome]

\* wait_conn(): the test of its loop, with the mutex held.
WaitConn(u) ==
    /\ AtPc(u, "start") /\ Does[u] \in {"call", "async"}
    /\ \/ isConnected /\ user' = [user EXCEPT ![u].pc = "number"]
       \/ ~isConnected /\ connectionEc /\ Ends(u, "system_error")
       \/ ~isConnected /\ ~connectionEc /\ user' = [user EXCEPT ![u].pc = "connecting", ![u].timed = timeout]
    /\ UNCHANGED <<state, isConnected, connectionEc, timeout, callIdx, strand, ongoing,
                   promise, writer, reading, chunk, life, netVars>>

\* conn_finished_ was notified: back to the test.
ConnFinished(u) ==
    /\ AtPc(u, "connecting") /\ (isConnected \/ connectionEc)
    /\ user' = [user EXCEPT ![u].pc = "start", ![u].timed = FALSE]
    /\ UNCHANGED <<state, isConnected, connectionEc, timeout, callIdx, strand, ongoing,
                   promise, writer, reading, chunk, life, netVars>>

\* rpc::timeout is thrown; its text takes *get_timeout() again, which is
\* undefined when clear_timeout() came in between.
TimesOut(u) ==
    \/ Ends(u, "timeout") /\ UNCHANGED life
    \/ ~timeout /\ life' = "crashed" /\ UNCHANGED user

\* wait_for() of the condition variable timed out, even if the connection
\* came at the last moment.
ConnectTimesOut(u) ==
    /\ AtPc(u, "connecting") /\ user[u].timed
    /\ TimesOut(u)
    /\ UNCHANGED <<state, isConnected, connectionEc, timeout, callIdx, strand, ongoing,
                   promise, writer, reading, chunk, netVars>>

\* VARIANT of NextCallIdx with a bug: the increment is not atomic.
NextCallIdxRaces(u) ==
    /\ AtPc(u, "number") /\ callIdx < MaxId
    /\ \E id \in {callIdx, callIdx + 1} \ {0} :
          /\ callIdx' = id
          /\ promise' = [promise EXCEPT ![id] = Waiting]
          /\ user' = [user EXCEPT ![u].pc = "post", ![u].id = id]
    /\ UNCHANGED <<state, isConnected, connectionEc, timeout, strand, ongoing, writer,
                   reading, chunk, life, netVars>>

\* get_next_call_idx(), the packed call, its promise and future.
NextCallIdx(u) ==
    /\ AtPc(u, "number") /\ callIdx < MaxId
    /\ callIdx' = callIdx + 1
    /\ promise' = [promise EXCEPT ![callIdx + 1] = Waiting]
    /\ user' = [user EXCEPT ![u].pc = "post", ![u].id = callIdx + 1]
    /\ UNCHANGED <<state, isConnected, connectionEc, timeout, strand, ongoing, writer,
                   reading, chunk, life, netVars>>

\* post(): the call goes to the strand.
PostCall(u) ==
    /\ AtPc(u, "post")
    /\ strand' = Append(strand, [kind |-> "call", id |-> user[u].id, arg |-> u])
    /\ user' = [user EXCEPT ![u].pc = IF Does[u] = "call" THEN "choose" ELSE "wait"]
    /\ UNCHANGED <<state, isConnected, connectionEc, timeout, callIdx, ongoing, promise,
                   writer, reading, chunk, life, netVars>>

\* call() looks at the timeout, once.
ChooseWait(u) ==
    /\ AtPc(u, "choose")
    /\ user' = [user EXCEPT ![u].pc = "wait", ![u].timed = timeout]
    /\ UNCHANGED <<state, isConnected, connectionEc, timeout, callIdx, strand, ongoing,
                   promise, writer, reading, chunk, life, netVars>>

SetTimeout(u) ==
    /\ AtPc(u, "start") /\ Does[u] = "set_timeout"
    /\ timeout' = TRUE
    /\ user' = [user EXCEPT ![u].pc = "set"]
    /\ UNCHANGED <<state, isConnected, connectionEc, callIdx, strand, ongoing, promise,
                   writer, reading, chunk, life, netVars>>

\* The thread that has set the timeout clears it at some time.
ClearTimeout(u) ==
    /\ AtPc(u, "set")
    /\ timeout' = FALSE
    /\ Ends(u, "ok")
    /\ UNCHANGED <<state, isConnected, connectionEc, callIdx, strand, ongoing, promise,
                   writer, reading, chunk, life, netVars>>

\* send(): posts the notification, connected or not.
Send(u) ==
    /\ AtPc(u, "start") /\ Does[u] = "note"
    /\ strand' = Append(strand, [kind |-> "note", id |-> 0, arg |-> u])
    /\ Ends(u, "sent")
    /\ UNCHANGED <<state, isConnected, connectionEc, timeout, callIdx, ongoing, promise,
                   writer, reading, chunk, life, netVars>>

\* future.get(), of call() or of the holder of async_call()'s future, which
\* may be waited for longer than the client lives.
GetResult(u) ==
    /\ life # "crashed" /\ user[u].pc = "wait"
    /\ promise[user[u].id].state \in {"value", "error", "broken"}
    /\ Ends(u, promise[user[u].id].state)
    /\ UNCHANGED <<state, isConnected, connectionEc, timeout, callIdx, strand, ongoing,
                   promise, writer, reading, chunk, life, netVars>>

\* VARIANT of CallTimesOut with a bug: call() does not apply the timeout.
CallIgnoresTimeout(u) == user[u].pc = "none" /\ UNCHANGED <<rpcVars, netVars>>

\* call() gives up: wait_for() has timed out.  The entry stays.
CallTimesOut(u) ==
    /\ AtPc(u, "wait") /\ Does[u] = "call" /\ user[u].timed
    /\ promise[user[u].id].state = "waiting"
    /\ TimesOut(u)
    /\ UNCHANGED <<state, isConnected, connectionEc, timeout, callIdx, strand, ongoing,
                   promise, writer, reading, chunk, netVars>>

\* The handler that runs, or the next one, changes ongoing_calls_.
OngoingChanges ==
    life = "up" /\ (chunk # <<>> \/ (strand # <<>> /\ Head(strand).kind # "note"))

(***************************************************************************)
(* wait_all_responses(): get_future() on a promise whose future was        *)
(* retrieved throws; with no ongoing call the loop does nothing.  It reads *)
(* ongoing_calls_ without a lock and outside the strand: concurrent with a *)
(* handler that changes it, it may do either, or end the process.          *)
(***************************************************************************)
WaitAllResponses(u) ==
    /\ AtPc(u, "start") /\ Does[u] = "wait_all"
    /\ \/ Ends(u, IF ongoing = {} THEN "ok" ELSE "future_error") /\ UNCHANGED life
       \/ OngoingChanges /\ Ends(u, "ok") /\ UNCHANGED life
       \/ OngoingChanges /\ Ends(u, "future_error") /\ UNCHANGED life
       \/ OngoingChanges /\ life' = "crashed" /\ UNCHANGED user
    /\ UNCHANGED <<state, isConnected, connectionEc, timeout, callIdx, strand, ongoing,
                   promise, writer, reading, chunk, netVars>>

(***************************************************************************)
(* ~client(): io_.stop(), then join.  No thread is inside the client; the  *)
(* future of an async_call() may still be waited on.                       *)
(***************************************************************************)
Outside(u) == user[u].pc \in {"set", "done"} \/ (Does[u] = "async" /\ user[u].pc = "wait")

DestroyStop ==
    /\ life \in {"up", "idle"}
    /\ \A u \in User : Outside(u)
    /\ life' = "stopping"
    /\ UNCHANGED <<state, isConnected, connectionEc, timeout, callIdx, strand, ongoing,
                   promise, writer, reading, chunk, user, netVars>>

\* VARIANT of DestroyJoined with a bug: promises are kept alive elsewhere.
DestroyJoinedKeepsPromises ==
    /\ life = "stopping" /\ chunk = <<>>
    /\ life' = "destroyed"
    /\ strand' = <<>> /\ ongoing' = {}
    /\ gone' = [gone EXCEPT ![1] = TRUE]
    /\ UNCHANGED <<state, isConnected, connectionEc, timeout, callIdx, promise, writer,
                   reading, chunk, user, up, down>>

\* The running handler is finished, handlers and promises are destroyed: a
\* promise that was not satisfied breaks.
DestroyJoined ==
    /\ life = "stopping" /\ chunk = <<>>
    /\ life' = "destroyed"
    /\ promise' = [i \in Ids |-> IF promise[i] = Waiting THEN Broken ELSE promise[i]]
    /\ strand' = <<>> /\ ongoing' = {}
    /\ gone' = [gone EXCEPT ![1] = TRUE]
    /\ UNCHANGED <<state, isConnected, connectionEc, timeout, callIdx, writer, reading,
                   chunk, user, up, down>>

-----------------------------------------------------------------------------
(***************************************************************************)
(* The thread in io_service::run(): one handler after the other.           *)
(***************************************************************************)
IoIdle == life = "up" /\ chunk = <<>>

\* The handler of async_connect.
Connected ==
    /\ IoIdle /\ state = "initial" /\ ~gone[1]
    /\ isConnected' = TRUE /\ state' = "connected"
    /\ reading' = TRUE
    /\ UNCHANGED <<connectionEc, timeout, callIdx, strand, ongoing, promise, writer, chunk,
                   life, user, netVars>>

ConnectFails ==
    /\ IoIdle /\ state = "initial"
    /\ connectionEc' = TRUE /\ state' = "disconnected"
    /\ gone' = [gone EXCEPT ![1] = TRUE]
    /\ UNCHANGED <<isConnected, timeout, callIdx, strand, ongoing, promise, writer,
                   reading, chunk, life, user, up, down>>

\* VARIANT of RunStrand with a bug: the call is written but not remembered.
RunStrandForgets ==
    /\ IoIdle /\ strand # <<>>
    /\ LET task == Head(strand)
       IN  IF task.kind = "erase"
           THEN ongoing' = ongoing \ {task.id} /\ UNCHANGED writer
           ELSE ongoing' = ongoing /\ writer' = write(writer, task)
    /\ strand' = Tail(strand)
    /\ UNCHANGED <<state, isConnected, connectionEc, timeout, callIdx, promise, reading,
                   chunk, life, user, netVars>>

\* The next handler of the strand: both post()s, and the erase after a
\* response.
RunStrand ==
    /\ IoIdle /\ strand # <<>>
    /\ LET task == Head(strand)
       IN  CASE task.kind = "call"  -> /\ ongoing' = ongoing \cup {task.id}
                                       /\ writer' = write(writer, task)
             [] task.kind = "note"  -> /\ writer' = write(writer, task)
                                       /\ UNCHANGED ongoing
             [] task.kind = "erase" -> /\ ongoing' = ongoing \ {task.id}
                                       /\ UNCHANGED writer
    /\ strand' = Tail(strand)
    /\ UNCHANGED <<state, isConnected, connectionEc, timeout, callIdx, promise, reading,
                   chunk, life, user, netVars>>

\* async_write has written the front; on a dead connection it may vanish.
WriteCompletes ==
    /\ IoIdle /\ writer.inFlight > 0 /\ isConnected
    /\ up' = IF gone[1] THEN up
                        ELSE [up EXCEPT ![1] = Append(@, Head(writer.queue))]
    /\ writer' = write_done(writer)
    /\ UNCHANGED <<state, isConnected, connectionEc, timeout, callIdx, strand, ongoing,
                   promise, reading, chunk, life, user, down, gone>>

\* async_write fails on a dead connection, and, started by send() before
\* the socket is connected, when the system refuses it or async_connect goes
\* on to the next endpoint.
WriteFails ==
    /\ IoIdle /\ writer.inFlight > 0
    /\ gone[1] \/ ~isConnected
    /\ writer' = write_failed(writer)
    /\ UNCHANGED <<state, isConnected, connectionEc, timeout, callIdx, strand, ongoing,
                   promise, reading, chunk, life, user, netVars>>

\* The read handler starts on what arrived.
ReadCompletes ==
    /\ IoIdle /\ reading /\ down[1] # <<>>
    /\ \E n \in 1..Len(down[1]) :
          /\ chunk' = Keep(down[1], n)
          /\ down' = [down EXCEPT ![1] = Drop(@, n)]
    /\ reading' = FALSE
    /\ UNCHANGED <<state, isConnected, connectionEc, timeout, callIdx, strand, ongoing,
                   promise, writer, life, user, up, gone>>

\* VARIANT of HandleResponse with a bug: the next read is not started.
HandleResponseReadsNoMore ==
    /\ life \in {"up", "stopping"} /\ chunk # <<>>
    /\ LET r     == Head(chunk)
           known == r.id \in ongoing
       IN  /\ promise' = IF known /\ promise[r.id] = Waiting
                         THEN [promise EXCEPT ![r.id] = Decided(r)] ELSE promise
           /\ life' = IF known /\ promise[r.id] # Waiting THEN "crashed" ELSE life
           /\ ongoing' = ongoing \cup {r.id}
           /\ strand' = Append(strand, [kind |-> "erase", id |-> r.id])
    /\ chunk' = Tail(chunk)
    /\ UNCHANGED <<state, isConnected, connectionEc, timeout, callIdx, writer, reading,
                   user, netVars>>

(***************************************************************************)
(* One turn of its loop: the promise of ongoing_calls_[id], which makes an *)
(* entry if there is none, is satisfied, and the erase is posted.  A       *)
(* satisfied promise makes set_value() throw, and the set_exception() that *)
(* answers this throw again, out of io_service::run().                     *)
(***************************************************************************)
HandleResponse ==
    /\ life \in {"up", "stopping"} /\ chunk # <<>>
    /\ LET r     == Head(chunk)
           known == r.id \in ongoing
       IN  /\ promise' = IF known /\ promise[r.id] = Waiting
                         THEN [promise EXCEPT ![r.id] = Decided(r)] ELSE promise
           /\ life' = IF known /\ promise[r.id] # Waiting THEN "crashed" ELSE life
           /\ ongoing' = ongoing \cup {r.id}
           /\ strand' = Append(strand, [kind |-> "erase", id |-> r.id])
    /\ chunk' = Tail(chunk)
    /\ reading' = (Len(chunk) = 1)
    /\ UNCHANGED <<state, isConnected, connectionEc, timeout, callIdx, writer, user, netVars>>

\* The read handler with an error: eof and reset change state_, and nothing
\* else; other errors are only logged.
ReadFails ==
    /\ IoIdle /\ reading /\ down[1] = <<>> /\ gone[1]
    /\ state' \in {"disconnected", state}
    /\ reading' = FALSE
    /\ UNCHANGED <<isConnected, connectionEc, timeout, callIdx, strand, ongoing, promise,
                   writer, chunk, life, user, netVars>>

(***************************************************************************)
(* Nothing is queued or under way: run() returns.  The client holds no     *)
(* io_service::work and does not call run() again, so what is posted to    *)
(* the strand from now on stays there.                                     *)
(***************************************************************************)
RunReturns ==
    /\ IoIdle /\ state # "initial"
    /\ strand = <<>> /\ writer.inFlight = 0 /\ ~reading
    /\ life' = "idle"
    /\ UNCHANGED <<state, isConnected, connectionEc, timeout, callIdx, strand, ongoing,
                   promise, writer, reading, chunk, user, netVars>>

-----------------------------------------------------------------------------
UserNext(u) ==
    \/ WaitConn(u) \/ ConnFinished(u) \/ ConnectTimesOut(u)
    \/ NextCallIdx(u) \/ PostCall(u) \/ ChooseWait(u) \/ Send(u)
    \/ SetTimeout(u) \/ ClearTimeout(u)
    \/ GetResult(u) \/ CallTimesOut(u) \/ WaitAllResponses(u)

IoNext ==
    \/ Connected \/ ConnectFails \/ RunStrand \/ WriteCompletes \/ WriteFails
    \/ ReadCompletes \/ HandleResponse \/ ReadFails \/ RunReturns

DestroyNext == DestroyStop \/ DestroyJoined

ClientNext == IoNext \/ DestroyNext \/ \E u \in User : UserNext(u)
=============================================================================
