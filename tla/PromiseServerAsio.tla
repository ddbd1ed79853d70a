-------------------------- MODULE PromiseServerAsio --------------------------
(***************************************************************************)
(* promise_server_asio (src/promise_demo/promise_server_asio.cpp): a pool  *)
(* of threads in io_service::run(), one session object per connection,     *)
(* whose handlers go through the session's strand, and a queue of replies  *)
(* of which the front is being written.                                    *)
(*                                                                         *)
(* An asynchronous operation is "none", "pending", or complete with its    *)
(* handler queued, as "ok" or "error".  A handler runs in steps, so that   *)
(* only the strand keeps the handlers of one session apart.                *)
(***************************************************************************)
EXTENDS Transport, FiniteSets

CONSTANT Threads    \* threads in io_service::run()

ASSUME ThreadsAssumption == Threads \in Nat \ {0}

VARIABLES
    backlog,      \* connections waiting for async_accept
    readOp,       \* readOp[c]: the session's async_read_some
    chunk,        \* chunk[c]: the complete frames it has delivered
    sfrag,        \* sfrag[c]: and whether a fragment came last
    writeOp,      \* writeOp[c]: the session's async_write
    written,      \* written[c]: frames of the front reply already written
    sbuf,         \* sbuf[c]: the complete frames in read_buffer_
    queue,        \* queue[c]: write_queue_, a reply as its request's frame
    sockOpen,     \* sockOpen[c]: socket_ is open
    rh,           \* rh[c]: where the read handler is, "off" when not running
    wh,           \* wh[c]: where the write handler is
    cur,          \* cur[c]: the read handler's locals `id' and `request'
    wasIdle,      \* wasIdle[c]: queue_write()'s local `idle'
    srv           \* "up", "stopped" by a signal, "crashed" by an exception

opVars   == <<readOp, chunk, sfrag, writeOp, written>>
sessVars == <<sbuf, queue, sockOpen, rh, wh, cur, wasIdle>>
srvVars  == <<backlog, opVars, sessVars, srv>>

ServerInit(waiting) ==
    /\ backlog = waiting
    /\ readOp = [c \in Conns |-> "none"] /\ writeOp = [c \in Conns |-> "none"]
    /\ chunk = [c \in Conns |-> <<>>]
    /\ sfrag = [c \in Conns |-> FALSE]
    /\ written = [c \in Conns |-> 0]
    /\ sbuf = [c \in Conns |-> <<>>]
    /\ queue = [c \in Conns |-> <<>>]
    /\ sockOpen = [c \in Conns |-> FALSE]
    /\ rh = [c \in Conns |-> "off"] /\ wh = [c \in Conns |-> "off"]
    /\ cur = [c \in Conns |-> [id |-> 1, payload |-> END]]
    /\ wasIdle = [c \in Conns |-> FALSE]
    /\ srv = "up"

\* The handlers running right now; each occupies a thread of the pool.
Busy == {c \in Conns : rh[c] # "off"} \cup {NumConns + c : c \in {c \in Conns : wh[c] # "off"}}

ThreadFree == Cardinality(Busy) < Threads

\* VARIANT of StrandFree with a bug: handlers are not wrapped in the strand.
StrandIgnored(c) == c \in Conns

\* strand_: no handler of this session is running.
StrandFree(c) == rh[c] = "off" /\ wh[c] = "off"

-----------------------------------------------------------------------------
(***************************************************************************)
(* server::do_accept(): its handler starts a session and the next accept.  *)
(***************************************************************************)
Accept ==
    /\ srv = "up" /\ backlog # <<>> /\ ThreadFree
    /\ LET c == Head(backlog)
       IN  /\ sockOpen' = [sockOpen EXCEPT ![c] = TRUE]
           /\ readOp' = [readOp EXCEPT ![c] = "pending"]
    /\ backlog' = Tail(backlog)
    /\ UNCHANGED <<chunk, sfrag, writeOp, written, sbuf, queue, rh, wh, cur,
                   wasIdle, srv, netVars>>

\* The accept itself fails, the peer having given up: logged, next accept.
AcceptError ==
    /\ srv = "up" /\ backlog # <<>> /\ ThreadFree
    /\ broken[Head(backlog)]
    /\ backlog' = Tail(backlog)
    /\ UNCHANGED <<opVars, sessVars, srv, netVars>>

(***************************************************************************)
(* set_option(), local_endpoint() and remote_endpoint() throw when the     *)
(* accepted peer has reset the connection meanwhile; no handler catches,   *)
(* so the exception leaves io_service::run() and ends the server.          *)
(***************************************************************************)
AcceptThrows ==
    /\ srv = "up" /\ backlog # <<>> /\ ThreadFree
    /\ broken[Head(backlog)]
    /\ srv' = "crashed"
    /\ broken' = [c \in Conns |-> TRUE]
    /\ UNCHANGED <<backlog, opVars, sessVars, c2s, s2c>>

\* SIGINT or SIGTERM: io.stop(), every run() returns, main() returns.
StopSignal ==
    /\ srv = "up"
    /\ srv' = "stopped"
    /\ broken' = [c \in Conns |-> TRUE]
    /\ UNCHANGED <<backlog, opVars, sessVars, c2s, s2c>>

-----------------------------------------------------------------------------
(***************************************************************************)
(* The operating system completes operations; asio queues their handlers.  *)
(***************************************************************************)
ReadCompletes(c) ==
    /\ srv = "up" /\ readOp[c] = "pending"
    /\ \/ /\ sockOpen[c]
          /\ \E taken \in 0..Len(c2s[c]), part \in BOOLEAN :
                /\ RecvSome(c2s[c], sfrag[c], taken, part)
                /\ chunk' = [chunk EXCEPT ![c] = Keep(c2s[c], taken)]
                /\ c2s' = [c2s EXCEPT ![c] = Drop(@, taken)]
                /\ sfrag' = [sfrag EXCEPT ![c] = part]
          /\ readOp' = [readOp EXCEPT ![c] = "ok"]
       \/ /\ ~sockOpen[c] \/ AtEnd(c2s[c], c)
          /\ readOp' = [readOp EXCEPT ![c] = "error"]
          /\ UNCHANGED <<chunk, c2s, sfrag>>
    /\ UNCHANGED <<backlog, writeOp, written, sessVars, srv, s2c, broken>>

\* The payloads of the frames a reply consists of.
ReplyTo(req) == <<req.payload, END>>

\* async_write writes as much as there is room for and completes after the
\* last frame of the reply; on a dead connection bytes may vanish first.
WriteFrame(c) ==
    /\ srv = "up" /\ writeOp[c] = "pending" /\ sockOpen[c]
    /\ IF broken[c]
       THEN UNCHANGED s2c
       ELSE /\ Len(s2c[c]) < RecvCap
            /\ LET front == Head(queue[c])
               IN  s2c' = [s2c EXCEPT ![c] =
                      Append(@, [id |-> front.id,
                                 payload |-> ReplyTo(front)[written[c] + 1]])]
    /\ written' = [written EXCEPT ![c] = @ + 1]
    /\ writeOp' = [writeOp EXCEPT ![c] = IF written[c] = 1 THEN "ok" ELSE @]
    /\ UNCHANGED <<backlog, readOp, chunk, sfrag, sessVars, srv, c2s, broken>>

WriteFails(c) ==
    /\ srv = "up" /\ writeOp[c] = "pending" /\ broken[c]
    /\ writeOp' = [writeOp EXCEPT ![c] = "error"]
    /\ UNCHANGED <<backlog, readOp, chunk, sfrag, written, sessVars, srv, netVars>>

-----------------------------------------------------------------------------
(***************************************************************************)
(* session::do_read()'s handler.                                           *)
(***************************************************************************)
\* An error, end of file included: no new read.
ReadHandlerError(c) ==
    /\ srv = "up" /\ readOp[c] = "error" /\ StrandFree(c) /\ ThreadFree
    /\ readOp' = [readOp EXCEPT ![c] = "none"]
    /\ UNCHANGED <<backlog, chunk, sfrag, writeOp, written, sessVars, srv, netVars>>

ReadHandler(c) ==
    /\ srv = "up" /\ readOp[c] = "ok" /\ StrandFree(c) /\ ThreadFree
    /\ sbuf' = [sbuf EXCEPT ![c] = @ \o chunk[c]]
    /\ chunk' = [chunk EXCEPT ![c] = <<>>]
    /\ readOp' = [readOp EXCEPT ![c] = "none"]
    /\ rh' = [rh EXCEPT ![c] = "decode"]
    /\ UNCHANGED <<backlog, sfrag, writeOp, written, queue, sockOpen, wh, cur,
                   wasIdle, srv, netVars>>

\* VARIANT of ReadHandlerDecode with a bug: the next read is not started.
ReadHandlerDecodeStops(c) ==
    /\ srv = "up" /\ rh[c] = "decode"
    /\ IF sbuf[c] # <<>>
       THEN /\ cur' = [cur EXCEPT ![c] = Head(sbuf[c])]
            /\ sbuf' = [sbuf EXCEPT ![c] = Tail(@)]
            /\ rh' = [rh EXCEPT ![c] = "test"]
       ELSE /\ rh' = [rh EXCEPT ![c] = "off"]
            /\ UNCHANGED <<cur, sbuf>>
    /\ UNCHANGED <<backlog, opVars, queue, sockOpen, wh, wasIdle, srv, netVars>>

\* while (try_decode_frame(...)), then do_read() again.
ReadHandlerDecode(c) ==
    /\ srv = "up" /\ rh[c] = "decode"
    /\ IF sbuf[c] # <<>>
       THEN /\ cur' = [cur EXCEPT ![c] = Head(sbuf[c])]
            /\ sbuf' = [sbuf EXCEPT ![c] = Tail(@)]
            /\ rh' = [rh EXCEPT ![c] = "test"]
            /\ UNCHANGED readOp
       ELSE /\ readOp' = [readOp EXCEPT ![c] = "pending"]
            /\ rh' = [rh EXCEPT ![c] = "off"]
            /\ UNCHANGED <<cur, sbuf>>
    /\ UNCHANGED <<backlog, chunk, sfrag, writeOp, written, queue, sockOpen, wh,
                   wasIdle, srv, netVars>>

\* queue_write(): test, push, and start the write if the queue was empty.
QueueWriteTest(c) ==
    /\ srv = "up" /\ rh[c] = "test"
    /\ wasIdle' = [wasIdle EXCEPT ![c] = queue[c] = <<>>]
    /\ rh' = [rh EXCEPT ![c] = "push"]
    /\ UNCHANGED <<backlog, opVars, sbuf, queue, sockOpen, wh, cur, srv, netVars>>

\* VARIANT of QueueWritePush with a bug: push_front() under the running write.
QueueWritePushFront(c) ==
    /\ srv = "up" /\ rh[c] = "push"
    /\ queue' = [queue EXCEPT ![c] = <<cur[c]>> \o @]
    /\ rh' = [rh EXCEPT ![c] = IF wasIdle[c] THEN "start" ELSE "decode"]
    /\ UNCHANGED <<backlog, opVars, sbuf, sockOpen, wh, cur, wasIdle, srv, netVars>>

QueueWritePush(c) ==
    /\ srv = "up" /\ rh[c] = "push"
    /\ queue' = [queue EXCEPT ![c] = Append(@, cur[c])]
    /\ rh' = [rh EXCEPT ![c] = IF wasIdle[c] THEN "start" ELSE "decode"]
    /\ UNCHANGED <<backlog, opVars, sbuf, sockOpen, wh, cur, wasIdle, srv, netVars>>

\* do_write() on the front of the queue.
DoWrite(c) == writeOp' = [writeOp EXCEPT ![c] = "pending"]

QueueWriteStart(c) ==
    /\ srv = "up" /\ rh[c] = "start"
    /\ DoWrite(c)
    /\ rh' = [rh EXCEPT ![c] = "decode"]
    /\ UNCHANGED <<backlog, readOp, chunk, sfrag, written, sbuf, queue, sockOpen, wh, cur,
                   wasIdle, srv, netVars>>

(***************************************************************************)
(* session::do_write()'s handler.                                          *)
(***************************************************************************)
\* An error closes the socket, which makes the pending read fail too.
WriteHandlerError(c) ==
    /\ srv = "up" /\ writeOp[c] = "error" /\ StrandFree(c) /\ ThreadFree
    /\ writeOp' = [writeOp EXCEPT ![c] = "none"]
    /\ sockOpen' = [sockOpen EXCEPT ![c] = FALSE]
    /\ UNCHANGED <<backlog, readOp, chunk, sfrag, written, sbuf, queue, rh, wh,
                   cur, wasIdle, srv, netVars>>

WriteHandler(c) ==
    /\ srv = "up" /\ writeOp[c] = "ok" /\ StrandFree(c) /\ ThreadFree
    /\ writeOp' = [writeOp EXCEPT ![c] = "none"]
    /\ wh' = [wh EXCEPT ![c] = "pop"]
    /\ UNCHANGED <<backlog, readOp, chunk, sfrag, written, sbuf, queue, sockOpen,
                   rh, cur, wasIdle, srv, netVars>>

\* VARIANT of WriteHandlerPop with a bug: the written reply stays queued.
WriteHandlerPopForgets(c) ==
    /\ srv = "up" /\ wh[c] = "pop"
    /\ written' = [written EXCEPT ![c] = 0]
    /\ wh' = [wh EXCEPT ![c] = "next"]
    /\ UNCHANGED <<backlog, readOp, chunk, sfrag, writeOp, sbuf, queue, sockOpen,
                   rh, cur, wasIdle, srv, netVars>>

WriteHandlerPop(c) ==
    /\ srv = "up" /\ wh[c] = "pop"
    /\ queue' = [queue EXCEPT ![c] = Tail(@)]
    /\ written' = [written EXCEPT ![c] = 0]
    /\ wh' = [wh EXCEPT ![c] = "next"]
    /\ UNCHANGED <<backlog, readOp, chunk, sfrag, writeOp, sbuf, sockOpen, rh, cur, wasIdle, srv, netVars>>

WriteHandlerNext(c) ==
    /\ srv = "up" /\ wh[c] = "next"
    /\ IF queue[c] # <<>> THEN DoWrite(c) ELSE UNCHANGED writeOp
    /\ wh' = [wh EXCEPT ![c] = "off"]
    /\ UNCHANGED <<backlog, readOp, chunk, sfrag, written, sbuf, queue, sockOpen, rh, cur,
                   wasIdle, srv, netVars>>

SessionNext(c) ==
    \/ ReadCompletes(c) \/ WriteFrame(c) \/ WriteFails(c)
    \/ ReadHandlerError(c) \/ ReadHandler(c) \/ ReadHandlerDecode(c)
    \/ QueueWriteTest(c) \/ QueueWritePush(c) \/ QueueWriteStart(c)
    \/ WriteHandlerError(c) \/ WriteHandler(c)
    \/ WriteHandlerPop(c) \/ WriteHandlerNext(c)

AcceptNext == Accept \/ AcceptError \/ AcceptThrows

ServerNext == AcceptNext \/ StopSignal \/ \E c \in Conns : SessionNext(c)
=============================================================================
