------------------------------ MODULE RpcServer -----------------------------
(***************************************************************************)
(* rpc::server and its server_sessions (lib/rpc/server.cc,                 *)
(* lib/rpc/detail/server_session.cc): worker threads in io_service::run()  *)
(* that accept connections, read requests, run the bound functions and     *)
(* write responses.  A session is named by its connection.                 *)
(***************************************************************************)
EXTENDS RpcDispatcher, RpcWriter

CONSTANT Thread    \* the threads of async_run()

ASSUME ThreadAssumption == Thread # {}

VARIABLES
    backlog,    \* connections not yet accepted
    acceptor,   \* async_accept: "pending", "cancelled" or "none"
    sessions,   \* sessions_
    reading,    \* reading[c]: an async_read_some is pending
    tasks,      \* what sessions posted to io_, in order
    worker,     \* worker[t]: the session t works for and what it still does
    stopping,   \* stopping[t]: this_server().stopping_ of thread t
    wstrand,    \* wstrand[c]: handlers posted to write_strand_
    writer,     \* writer[c]: the async_writer part of the session
    sockOpen,   \* sockOpen[c]: the session has not closed its socket
    srv         \* "up", "stopped" by ~server(), or "crashed"

srvVars == <<backlog, acceptor, sessions, reading, tasks, worker, stopping,
             wstrand, writer, sockOpen, srv>>

\* A thread with nothing left to do works for no session in particular.
Idle == [conn |-> 1, todo |-> <<>>]
Busy(c, todo) == IF todo = <<>> THEN Idle ELSE [conn |-> c, todo |-> todo]
Push == Post("push_back")

ServerInit ==
    /\ backlog = <<>>
    /\ acceptor = "pending"
    /\ sessions = {}
    /\ reading = [c \in Conns |-> FALSE]
    /\ tasks = <<>>
    /\ worker = [t \in Thread |-> Idle]
    /\ stopping = [t \in Thread |-> FALSE]
    /\ wstrand = [c \in Conns |-> <<>>]
    /\ writer = [c \in Conns |-> NewWriter]
    /\ sockOpen = [c \in Conns |-> TRUE]
    /\ srv = "up"

\* Thread t is between two handlers.
Free(t) == srv = "up" /\ worker[t].todo = <<>>

-----------------------------------------------------------------------------
(***************************************************************************)
(* The accept handler, on thread t                                         *)
(***************************************************************************)
\* The session is created and starts reading before it is in sessions_.
Accept(t) ==
    /\ Free(t) /\ acceptor = "pending" /\ backlog # <<>>
    /\ LET c == Head(backlog)
       IN  /\ reading' = [reading EXCEPT ![c] = TRUE]
           /\ worker' = [worker EXCEPT ![t] = Busy(c, <<Push>>)]
    /\ backlog' = Tail(backlog)
    /\ acceptor' = "none"
    /\ UNCHANGED <<sessions, tasks, stopping, wstrand, writer, sockOpen, srv, netVars>>

\* remote_endpoint() throws when the peer is gone.
AcceptThrows(t) ==
    /\ Free(t) /\ acceptor = "pending" /\ backlog # <<>>
    /\ gone[Head(backlog)]
    /\ srv' = "crashed"
    /\ UNCHANGED <<backlog, acceptor, sessions, reading, tasks, worker, stopping,
                   wstrand, writer, sockOpen, netVars>>

\* push_back() under the mutex, and the next async_accept.
AcceptPush(t) ==
    /\ srv = "up" /\ worker[t].todo = <<Push>>
    /\ sessions' = sessions \cup {worker[t].conn}
    /\ worker' = [worker EXCEPT ![t] = Idle]
    /\ acceptor' = IF stopping[t] THEN "none" ELSE "pending"
    /\ UNCHANGED <<backlog, reading, tasks, stopping, wstrand, writer, sockOpen,
                   srv, netVars>>

\* The handler of a cancelled accept looks at the flag of its own thread.
AcceptCancelled(t) ==
    /\ Free(t) /\ acceptor = "cancelled"
    /\ acceptor' = IF stopping[t] THEN "none" ELSE "pending"
    /\ UNCHANGED <<backlog, sessions, reading, tasks, worker, stopping, wstrand,
                   writer, sockOpen, srv, netVars>>

-----------------------------------------------------------------------------
(***************************************************************************)
(* The read handler of a session, on the read strand                       *)
(***************************************************************************)
\* async_writer::close() and server_session::close(), for the sessions of C:
\* exit_ is set at once, the rest goes through their write strands.  The two
\* posts are one step: exit_ is set before them, so what another thread posts
\* in between writes nothing, and close_session only ends a reference.
CloseAll(C, exitOf, strandOf) ==
    /\ writer' = [c \in Conns |-> IF c \in C THEN [exitOf[c] EXCEPT !.exit = TRUE]
                                             ELSE exitOf[c]]
    /\ wstrand' = [c \in Conns |->
                      IF c \in C
                      THEN strandOf[c] \o <<Post("close_socket"), Post("close_session")>>
                      ELSE strandOf[c]]

\* VARIANT of Read with a bug: the next read is not started.
ReadOnce(c) ==
    /\ srv = "up" /\ reading[c] /\ sockOpen[c] /\ ~writer[c].exit
    /\ \E n \in 1..Len(up[c]) :
          /\ tasks' = tasks \o [k \in 1..n |-> [conn |-> c, msg |-> up[c][k]]]
          /\ up' = [up EXCEPT ![c] = Drop(@, n)]
    /\ reading' = [reading EXCEPT ![c] = FALSE]
    /\ UNCHANGED <<backlog, acceptor, sessions, worker, stopping, wstrand, writer,
                   sockOpen, srv, down, gone>>

\* Every message that came is posted to io_, and the next read is started.
\* (That the loop stops when it finds the session closed is a shorter read.)
Read(c) ==
    /\ srv = "up" /\ reading[c] /\ sockOpen[c] /\ ~writer[c].exit
    /\ \E n \in 1..Len(up[c]) :
          /\ tasks' = tasks \o [k \in 1..n |-> [conn |-> c, msg |-> up[c][k]]]
          /\ up' = [up EXCEPT ![c] = Drop(@, n)]
    /\ UNCHANGED <<backlog, acceptor, sessions, reading, worker, stopping, wstrand,
                   writer, sockOpen, srv, down, gone>>

\* eof or reset: the client has disconnected.
ReadEnds(c) ==
    /\ srv = "up" /\ reading[c] /\ sockOpen[c] /\ ~writer[c].exit
    /\ gone[c] /\ up[c] = <<>>
    /\ reading' = [reading EXCEPT ![c] = FALSE]
    /\ CloseAll({c}, writer, wstrand)
    /\ UNCHANGED <<backlog, acceptor, sessions, tasks, worker, stopping, sockOpen,
                   srv, netVars>>

\* Any other error (a timeout of the network, a lost route) is only logged: no
\* read is pending any more and the session stays in sessions_.
ReadFails(c) ==
    /\ srv = "up" /\ reading[c] /\ sockOpen[c] /\ ~writer[c].exit
    /\ gone[c] /\ up[c] = <<>>
    /\ reading' = [reading EXCEPT ![c] = FALSE]
    /\ UNCHANGED <<backlog, acceptor, sessions, tasks, worker, stopping, wstrand,
                   writer, sockOpen, srv, netVars>>

\* The session is closed: whatever the read brought, the handler returns.
ReadWhenClosed(c) ==
    /\ srv = "up" /\ reading[c] /\ writer[c].exit
    /\ ~sockOpen[c] \/ up[c] # <<>> \/ gone[c]
    /\ reading' = [reading EXCEPT ![c] = FALSE]
    /\ UNCHANGED <<backlog, acceptor, sessions, tasks, worker, stopping, wstrand,
                   writer, sockOpen, srv, netVars>>

-----------------------------------------------------------------------------
(***************************************************************************)
(* The task of a message, on thread t                                      *)
(***************************************************************************)
\* The thread's flags are cleared, the function runs, and the session decides
\* what to post.
RunTask(t) ==
    /\ Free(t) /\ tasks # <<>>
    /\ LET c == Head(tasks).conn
           m == Head(tasks).msg
       IN  IF DispatchThrows(m) \/ CaptureErrorFails(m)
           THEN srv' = "crashed" /\ UNCHANGED <<worker, stopping>>
           ELSE /\ stopping' = [stopping EXCEPT ![t] = "stop" \in m.arg]
                /\ worker' = [worker EXCEPT ![t] = Busy(c, Posts(m))]
                /\ UNCHANGED srv
    /\ tasks' = Tail(tasks)
    /\ UNCHANGED <<backlog, acceptor, sessions, reading, wstrand, writer, sockOpen,
                   netVars>>

\* The next write_strand().post() of the task.
PostToStrand(t) ==
    /\ srv = "up" /\ worker[t].todo \notin {<<>>, <<Push>>}
    /\ wstrand' = [wstrand EXCEPT ![worker[t].conn] = Append(@, Head(worker[t].todo))]
    /\ worker' = [worker EXCEPT ![t] = Busy(@.conn, Tail(@.todo))]
    /\ UNCHANGED <<backlog, acceptor, sessions, reading, tasks, stopping, writer,
                   sockOpen, srv, netVars>>

-----------------------------------------------------------------------------
(***************************************************************************)
(* The write strand of a session                                           *)
(***************************************************************************)
NextOn(c, do) == wstrand[c] # <<>> /\ Head(wstrand[c]).do = do
Advanced(c) == [wstrand EXCEPT ![c] = Tail(@)]

(***************************************************************************)
(* A session lives as long as sessions_, a pending operation, a task or a  *)
(* handler with `self' refers to it.  The two posts at server_session.cc   *)
(* 108 and 115 capture `this' only.  (So does the write of line 97, which  *)
(* only MSVC compiles; this is the build with line 100.)                   *)
(***************************************************************************)
Alive(c) ==
    \/ c \in sessions \/ reading[c] \/ writer[c].inFlight > 0
    \/ \E k \in DOMAIN tasks : tasks[k].conn = c
    \/ \E t \in Thread : worker[t].conn = c /\ worker[t].todo # <<>>
    \/ \E k \in DOMAIN wstrand[c] :
          wstrand[c][k].do \in {"write", "close_socket", "close_session"}

StrandWrite(t, c) ==
    /\ Free(t) /\ NextOn(c, "write")
    /\ writer' = [writer EXCEPT ![c] = write(@, Head(wstrand[c]).resp[1])]
    /\ wstrand' = Advanced(c)
    /\ UNCHANGED <<backlog, acceptor, sessions, reading, tasks, worker, stopping,
                   sockOpen, srv, netVars>>

\* close(), of this_session().post_exit().
StrandClose(t, c) ==
    /\ Free(t) /\ NextOn(c, "close") /\ Alive(c)
    /\ CloseAll({c}, writer, Advanced(c))
    /\ UNCHANGED <<backlog, acceptor, sessions, reading, tasks, worker, stopping,
                   sockOpen, srv, netVars>>

\* close_sessions(), of this_server().stop(): it looks at the flag of the
\* thread that runs it.  It is one step: closing a session changes only that
\* session's writer and strand.  (A connection accepted between clear() and
\* cancel() would stay open with nobody accepting any more; here that comes
\* about when AcceptPush runs on a thread whose flag is set.)
StrandCloseSessions(t, c) ==
    /\ Free(t) /\ NextOn(c, "close_sessions") /\ Alive(c)
    /\ CloseAll(sessions, writer, Advanced(c))
    /\ sessions' = {}
    /\ acceptor' = IF stopping[t] /\ acceptor = "pending" THEN "cancelled" ELSE acceptor
    /\ UNCHANGED <<backlog, reading, tasks, worker, stopping, sockOpen, srv, netVars>>

\* Either of them on a session that is destroyed: undefined behaviour, here
\* the end of the process or nothing.
StrandOnDeadSession(t, c) ==
    /\ Free(t) /\ (NextOn(c, "close") \/ NextOn(c, "close_sessions")) /\ ~Alive(c)
    /\ srv' \in {"up", "crashed"}
    /\ wstrand' = Advanced(c)
    /\ UNCHANGED <<backlog, acceptor, sessions, reading, tasks, worker, stopping,
                   writer, sockOpen, netVars>>

\* shutdown() and close() of the socket.
StrandCloseSocket(t, c) ==
    /\ Free(t) /\ NextOn(c, "close_socket")
    /\ sockOpen' = [sockOpen EXCEPT ![c] = FALSE]
    /\ wstrand' = Advanced(c)
    /\ ServerCloses(c)
    /\ UNCHANGED <<backlog, acceptor, sessions, reading, tasks, worker, stopping,
                   writer, srv>>

\* server::close_session().
StrandCloseSession(t, c) ==
    /\ Free(t) /\ NextOn(c, "close_session")
    /\ sessions' = sessions \ {c}
    /\ wstrand' = Advanced(c)
    /\ UNCHANGED <<backlog, acceptor, reading, tasks, worker, stopping, writer,
                   sockOpen, srv, netVars>>

\* async_write has written the front; on a dead connection it may vanish.
WriteCompletes(c) ==
    /\ srv = "up" /\ writer[c].inFlight > 0 /\ sockOpen[c]
    /\ down' = IF gone[c] THEN down
                          ELSE [down EXCEPT ![c] = Append(@, Head(writer[c].queue))]
    /\ writer' = [writer EXCEPT ![c] = write_done(@)]
    /\ UNCHANGED <<backlog, acceptor, sessions, reading, tasks, worker, stopping,
                   wstrand, sockOpen, srv, up, gone>>

\* The connection is gone, or the socket was closed under the write.
WriteFails(c) ==
    /\ srv = "up" /\ writer[c].inFlight > 0 /\ gone[c]
    /\ writer' = [writer EXCEPT ![c] = write_failed(@)]
    /\ UNCHANGED <<backlog, acceptor, sessions, reading, tasks, worker, stopping,
                   wstrand, sockOpen, srv, netVars>>

-----------------------------------------------------------------------------
\* ~server(): io_.stop(), the threads are joined, sessions and whatever was
\* queued are destroyed, the connections close.
StopServer ==
    /\ srv = "up"
    /\ srv' = "stopped"
    /\ acceptor' = "none" /\ backlog' = <<>> /\ sessions' = {} /\ tasks' = <<>>
    /\ reading' = [c \in Conns |-> FALSE]
    /\ worker' = [t \in Thread |-> Idle]
    /\ stopping' = [t \in Thread |-> FALSE]
    /\ wstrand' = [c \in Conns |-> <<>>]
    /\ writer' = [c \in Conns |-> NewWriter]
    /\ sockOpen' = [c \in Conns |-> FALSE]
    /\ AllGone

AcceptNext == \E t \in Thread :
    Accept(t) \/ AcceptThrows(t) \/ AcceptPush(t) \/ AcceptCancelled(t)

TaskNext(t) == RunTask(t) \/ PostToStrand(t)

ReadNext(c) == Read(c) \/ ReadEnds(c) \/ ReadFails(c) \/ ReadWhenClosed(c)

StrandNext(c) == \E t \in Thread :
    \/ StrandWrite(t, c) \/ StrandClose(t, c) \/ StrandCloseSessions(t, c)
    \/ StrandOnDeadSession(t, c) \/ StrandCloseSocket(t, c) \/ StrandCloseSession(t, c)

WriteNext(c) == WriteCompletes(c) \/ WriteFails(c)

ServerNext ==
    \/ AcceptNext \/ StopServer
    \/ \E t \in Thread : TaskNext(t)
    \/ \E c \in Conns : ReadNext(c) \/ StrandNext(c) \/ WriteNext(c)
=============================================================================
