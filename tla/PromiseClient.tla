---------------------------- MODULE PromiseClient ----------------------------
(***************************************************************************)
(* promise_client (src/promise_demo/promise_client.cpp): user threads that *)
(* call connection::send_request() and wait on the future it returns, and  *)
(* the single I/O thread in process_connections() that sends the queued    *)
(* requests, collects the reply frames per id and fulfils the promises.    *)
(*                                                                         *)
(* One step of the model is one critical section of connection::mutex_, or *)
(* one piece of work on data that only the I/O thread touches: between two *)
(* of them the other threads, the server and the network may act.          *)
(***************************************************************************)
EXTENDS Transport

CONSTANTS
    User,       \* the user threads; main() is the only one of the program
    Messages,   \* Messages[u]: the texts thread u sends, in this order
    SigPipe     \* TRUE where ::send() on a dead socket raises SIGPIPE (POSIX)

ASSUME ClientAssumption ==
    /\ Messages \in [User -> Seq(Text)]
    /\ SigPipe \in BOOLEAN

VARIABLES
    \* class connection
    closed,     \* closed_
    nextId,     \* next_id_
    outgoing,   \* outgoing_: requests waiting to be sent
    pending,    \* the keys of pending_
    frames,     \* pending_[id].frames: frames of the reply collected so far
    promise,    \* the shared state of pending_[id].promise and its future
    rbuf,       \* read_buffer_: the complete frames in it
    frag,       \* read_buffer_ ends with the first bytes of another frame
    \* the I/O thread
    ioPc,       \* where process_connections() is
    ioConn,     \* the connection its for loop is at
    packet,     \* its local `data': the frame received, or the packet to send
    \* the user threads and the process
    replies,    \* replies[u]: the futures thread u holds
    got,        \* got[u]: how many of them it has got
    stop,       \* stop_requested
    proc        \* "running", "exited" (main returned) or "aborted"

connVars   == <<closed, nextId, outgoing, pending, frames, promise>>
bufVars    == <<rbuf, frag>>
ioVars     == <<ioPc, ioConn, packet>>
userVars   == <<replies, got>>
clientVars == <<connVars, bufVars, ioVars, userVars, stop, proc>>

\* A promise is unused, waited for, or satisfied by a value or an exception.
Unused     == [state |-> "unused",  reply |-> <<>>]
Waiting    == [state |-> "waiting", reply |-> <<>>]
Failed     == [state |-> "error",   reply |-> <<>>]
Value(fs)  == [state |-> "value",   reply |-> fs]

Promise == [state : {"unused", "waiting", "error", "value"}, reply : Seq(Text)]

Satisfied(p) == p.state \in {"error", "value"}

IoLabels == {"done", "incoming", "lost", "get", "set", "remove",
             "outgoing", "pop", "send", "failed", "exited"}

ClientTypeOK ==
    /\ closed \in [Conns -> BOOLEAN]
    /\ nextId \in [Conns -> 1..(MaxId + 1)]
    /\ outgoing \in [Conns -> Seq(Frame)]
    /\ pending \in [Conns -> SUBSET Ids]
    /\ frames \in [Conns -> [Ids -> Seq(Text)]]
    /\ promise \in [Conns -> [Ids -> Promise]]
    /\ rbuf \in [Conns -> Seq(Frame)]
    /\ frag \in [Conns -> BOOLEAN]
    /\ ioPc \in IoLabels
    /\ ioConn \in Conns
    /\ packet \in Frame
    /\ replies \in [User -> Seq(Conns \X Ids)]
    /\ got \in [User -> Nat]
    /\ stop \in BOOLEAN
    /\ proc \in {"running", "exited", "aborted"}

ClientInit ==
    /\ closed = [c \in Conns |-> FALSE]
    /\ nextId = [c \in Conns |-> 1]
    /\ outgoing = [c \in Conns |-> <<>>]
    /\ pending = [c \in Conns |-> {}]
    /\ frames = [c \in Conns |-> [i \in Ids |-> <<>>]]
    /\ promise = [c \in Conns |-> [i \in Ids |-> Unused]]
    /\ rbuf = [c \in Conns |-> <<>>]
    /\ frag = [c \in Conns |-> FALSE]
    /\ ioPc = "done"
    /\ ioConn = 1
    /\ packet = [id |-> 1, payload |-> END]
    /\ replies = [u \in User |-> <<>>]
    /\ got = [u \in User |-> 0]
    /\ stop = FALSE
    /\ proc = "running"

-----------------------------------------------------------------------------
(***************************************************************************)
(* User threads                                                            *)
(***************************************************************************)
AllSent(u)  == Len(replies[u]) = Len(Messages[u])
Finished(u) == AllSent(u) /\ got[u] = Len(replies[u])

\* VARIANT of SendRequest with a bug: closed_ is not tested under the mutex.
SendRequestUnchecked(u, c) ==
    /\ proc = "running" /\ ~AllSent(u)
    /\ nextId[c] <= MaxId
    /\ LET id == nextId[c]
           text == Messages[u][Len(replies[u]) + 1]
       IN  /\ nextId' = [nextId EXCEPT ![c] = id + 1]
           /\ outgoing' = [outgoing EXCEPT
                              ![c] = Append(@, [id |-> id, payload |-> text])]
           /\ pending' = [pending EXCEPT ![c] = @ \cup {id}]
           /\ frames' = [frames EXCEPT ![c][id] = <<>>]
           /\ promise' = [promise EXCEPT ![c][id] = Waiting]
           /\ replies' = [replies EXCEPT ![u] = Append(@, <<c, id>>)]
    /\ UNCHANGED <<closed, bufVars, ioVars, got, stop, proc, netVars>>

\* VARIANT of SendRequest with a bug: next_id_ is not incremented.
SendRequestSameId(u, c) ==
    /\ proc = "running" /\ ~AllSent(u)
    /\ ~closed[c]
    /\ LET id == nextId[c]
           text == Messages[u][Len(replies[u]) + 1]
       IN  /\ outgoing' = [outgoing EXCEPT
                              ![c] = Append(@, [id |-> id, payload |-> text])]
           /\ pending' = [pending EXCEPT ![c] = @ \cup {id}]
           /\ frames' = [frames EXCEPT ![c][id] = <<>>]
           /\ promise' = [promise EXCEPT ![c][id] = Waiting]
           /\ replies' = [replies EXCEPT ![u] = Append(@, <<c, id>>)]
    /\ UNCHANGED <<closed, nextId, bufVars, ioVars, got, stop, proc, netVars>>

\* send_request(): under the mutex, a new id, a queued request, a future.
SendRequest(u, c) ==
    /\ proc = "running" /\ ~AllSent(u)
    /\ ~closed[c]
    /\ nextId[c] <= MaxId
    /\ LET id == nextId[c]
           text == Messages[u][Len(replies[u]) + 1]
       IN  /\ nextId' = [nextId EXCEPT ![c] = id + 1]
           /\ outgoing' = [outgoing EXCEPT
                              ![c] = Append(@, [id |-> id, payload |-> text])]
           /\ pending' = [pending EXCEPT ![c] = @ \cup {id}]
           /\ frames' = [frames EXCEPT ![c][id] = <<>>]
           /\ promise' = [promise EXCEPT ![c][id] = Waiting]
           /\ replies' = [replies EXCEPT ![u] = Append(@, <<c, id>>)]
    /\ UNCHANGED <<closed, bufVars, ioVars, got, stop, proc, netVars>>

(***************************************************************************)
(* send_request() on a closed connection throws.  The loop that calls it   *)
(* is outside any try block, so the exception ends the process.            *)
(***************************************************************************)
SendRequestThrows(u, c) ==
    /\ proc = "running" /\ ~AllSent(u)
    /\ closed[c]
    /\ proc' = "aborted"
    /\ UNCHANGED <<connVars, bufVars, ioVars, userVars, stop, netVars>>

\* replies[i].get(): blocks until the promise is satisfied; an exception is
\* caught and reported, like a value.
GetReply(u) ==
    /\ proc = "running" /\ AllSent(u) /\ got[u] < Len(replies[u])
    /\ LET future == replies[u][got[u] + 1]
       IN  Satisfied(promise[future[1]][future[2]])
    /\ got' = [got EXCEPT ![u] = @ + 1]
    /\ UNCHANGED <<connVars, bufVars, ioVars, replies, stop, proc, netVars>>

RequestStop ==
    /\ proc = "running" /\ ~stop
    /\ \A u \in User : Finished(u)
    /\ stop' = TRUE
    /\ UNCHANGED <<connVars, bufVars, ioVars, userVars, proc, netVars>>

\* io_thread.join() returns, main() returns, ~connection closes the sockets.
JoinAndExit ==
    /\ proc = "running" /\ stop /\ ioPc = "exited"
    /\ proc' = "exited"
    /\ broken' = [c \in Conns |-> TRUE]
    /\ UNCHANGED <<connVars, bufVars, ioVars, userVars, stop, c2s, s2c>>

-----------------------------------------------------------------------------
(***************************************************************************)
(* The I/O thread: process_connections().                                  *)
(***************************************************************************)
At(label) == proc = "running" /\ ioPc = label

Goto(label) == ioPc' = label /\ UNCHANGED ioConn

\* VARIANT of NextConnection with a bug: the loop runs one past the end.
NextConnectionPastEnd ==
    IF ioConn <= NumConns
    THEN ioPc' = "incoming" /\ ioConn' = ioConn + 1
    ELSE ioPc' = "done" /\ ioConn' = 1

\* The end of the for loop's body: on to the next connection, or to the test.
NextConnection ==
    IF ioConn < NumConns
    THEN ioPc' = "incoming" /\ ioConn' = ioConn + 1
    ELSE ioPc' = "done" /\ ioConn' = 1

\* VARIANT of IoDone with a bug: stop_requested is not looked at.
IoDoneIgnoresStop ==
    /\ At("done")
    /\ IF \A c \in Conns : closed[c] THEN Goto("exited") ELSE Goto("incoming")
    /\ UNCHANGED <<connVars, bufVars, packet, userVars, stop, proc, netVars>>

\* while (!done(connections)): only this thread sets closed_, so the locks
\* that done() takes one after another cannot see different moments.
IoDone ==
    /\ At("done")
    /\ IF stop \/ \A c \in Conns : closed[c] THEN Goto("exited")
                                             ELSE Goto("incoming")
    /\ UNCHANGED <<connVars, bufVars, packet, userVars, stop, proc, netVars>>

\* has_incoming_data() finds a complete frame; incoming() extracts it.
IoFrameReady ==
    /\ At("incoming") /\ rbuf[ioConn] # <<>>
    /\ packet' = Head(rbuf[ioConn])
    /\ rbuf' = [rbuf EXCEPT ![ioConn] = Tail(@)]
    /\ Goto("get")
    /\ UNCHANGED <<connVars, frag, userVars, stop, proc, netVars>>

\* has_incoming_data() is false: closed, or nothing to read right now.
IoNothingToRead ==
    /\ At("incoming") /\ rbuf[ioConn] = <<>>
    /\ closed[ioConn] \/ ~Readable(s2c[ioConn], ioConn)
    /\ Goto("outgoing")
    /\ UNCHANGED <<connVars, bufVars, packet, userVars, stop, proc, netVars>>

\* VARIANT of IoReceive with a bug: what follows the first frame is dropped.
IoReceiveDropsRest ==
    /\ At("incoming") /\ rbuf[ioConn] = <<>>
    /\ ~closed[ioConn]
    /\ \E taken \in 1..Len(s2c[ioConn]) :
          /\ s2c' = [s2c EXCEPT ![ioConn] = Drop(@, taken)]
          /\ packet' = Head(s2c[ioConn])
    /\ Goto("get")
    /\ UNCHANGED <<connVars, bufVars, userVars, stop, proc, c2s, broken>>

\* has_incoming_data() reads the socket; with a complete frame in the buffer
\* afterwards incoming() extracts it, with only a fragment there is no data.
IoReceive ==
    /\ At("incoming") /\ rbuf[ioConn] = <<>>
    /\ ~closed[ioConn]
    /\ \E taken \in 0..Len(s2c[ioConn]), part \in BOOLEAN :
          /\ RecvSome(s2c[ioConn], frag[ioConn], taken, part)
          /\ s2c' = [s2c EXCEPT ![ioConn] = Drop(@, taken)]
          /\ frag' = [frag EXCEPT ![ioConn] = part]
          /\ IF taken > 0
             THEN /\ packet' = Head(s2c[ioConn])
                  /\ rbuf' = [rbuf EXCEPT
                                 ![ioConn] = Tail(Keep(s2c[ioConn], taken))]
                  /\ Goto("get")
             ELSE /\ Goto("outgoing")
                  /\ UNCHANGED <<packet, rbuf>>
    /\ UNCHANGED <<connVars, userVars, stop, proc, c2s, broken>>

\* VARIANT of IoConnectionLost with a bug: nothing is closed.
IoConnectionLostIgnored ==
    /\ At("incoming") /\ rbuf[ioConn] = <<>>
    /\ ~closed[ioConn]
    /\ AtEnd(s2c[ioConn], ioConn)
    /\ Goto("outgoing")
    /\ UNCHANGED <<connVars, bufVars, packet, userVars, stop, proc, netVars>>

\* has_incoming_data(): recv_some() <= 0.
IoConnectionLost ==
    /\ At("incoming") /\ rbuf[ioConn] = <<>>
    /\ ~closed[ioConn]
    /\ AtEnd(s2c[ioConn], ioConn)
    /\ Goto("lost")
    /\ UNCHANGED <<connVars, bufVars, packet, userVars, stop, proc, netVars>>

\* VARIANT of CloseWithError with a bug: closed_ is not set.
CloseWithErrorStaysOpen(c) ==
    /\ promise' = [promise EXCEPT ![c] =
                      [i \in Ids |-> IF i \in pending[c] THEN Failed ELSE @[i]]]
    /\ pending' = [pending EXCEPT ![c] = {}]
    /\ outgoing' = [outgoing EXCEPT ![c] = <<>>]
    /\ UNCHANGED <<closed, nextId, frames, proc>>

(***************************************************************************)
(* close_with_error(): under the mutex, every pending promise gets the     *)
(* exception and both containers are emptied.  set_exception() on a        *)
(* promise that is already satisfied would throw and end the process.      *)
(***************************************************************************)
CloseWithError(c) ==
    /\ closed' = [closed EXCEPT ![c] = TRUE]
    /\ promise' = [promise EXCEPT ![c] =
                      [i \in Ids |-> IF i \in pending[c] THEN Failed ELSE @[i]]]
    /\ proc' = IF \E i \in pending[c] : Satisfied(promise[c][i])
               THEN "aborted" ELSE proc
    /\ pending' = [pending EXCEPT ![c] = {}]
    /\ outgoing' = [outgoing EXCEPT ![c] = <<>>]
    /\ UNCHANGED <<nextId, frames>>

IoCloseLost ==
    /\ At("lost")
    /\ CloseWithError(ioConn)
    /\ Goto("outgoing")
    /\ UNCHANGED <<bufVars, packet, userVars, stop, netVars>>

IoCloseFailed ==
    /\ At("failed")
    /\ CloseWithError(ioConn)
    /\ NextConnection
    /\ UNCHANGED <<bufVars, packet, userVars, stop, netVars>>

\* VARIANT of IoGetRequest with a bug: the first frame counts as the last.
IoGetRequestFirstFrameEnds ==
    /\ At("get")
    /\ packet.id \in pending[ioConn]
    /\ frames' = [frames EXCEPT ![ioConn][packet.id] = Append(@, packet.payload)]
    /\ Goto("set")
    /\ UNCHANGED <<closed, nextId, outgoing, pending, promise, bufVars,
                   packet, userVars, stop, proc, netVars>>

(***************************************************************************)
(* get_request() and frames.push_back().  pending_.at() throws for an id   *)
(* it does not hold; nothing catches that in the I/O thread.  The frames   *)
(* belong to this thread, so that they are appended to outside the mutex   *)
(* cannot be noticed.                                                      *)
(***************************************************************************)
IoGetRequest ==
    /\ At("get")
    /\ LET found == packet.id \in pending[ioConn]
       IN  /\ proc' = IF found THEN proc ELSE "aborted"
           /\ frames' = IF found
                        THEN [frames EXCEPT ![ioConn][packet.id] =
                                                   Append(@, packet.payload)]
                        ELSE frames
    /\ Goto(IF packet.payload = END THEN "set" ELSE "outgoing")
    /\ UNCHANGED <<closed, nextId, outgoing, pending, promise, bufVars,
                   packet, userVars, stop, netVars>>

\* promise.set_value(std::move(frames)), which wakes the waiter; it throws
\* when the promise is satisfied already.
IoSetValue ==
    /\ At("set")
    /\ LET id == packet.id
       IN  /\ proc' = IF Satisfied(promise[ioConn][id]) THEN "aborted" ELSE proc
           /\ promise' = [promise EXCEPT ![ioConn][id] =
                             IF Satisfied(@) THEN @ ELSE Value(frames[ioConn][id])]
           /\ frames' = [frames EXCEPT ![ioConn][id] = <<>>]
    /\ Goto("remove")
    /\ UNCHANGED <<closed, nextId, outgoing, pending, bufVars, packet,
                   userVars, stop, netVars>>

\* VARIANT of IoRemoveRequest with a bug: the entry stays in pending_.
IoRemoveRequestForgets ==
    /\ At("remove")
    /\ Goto("outgoing")
    /\ UNCHANGED <<connVars, bufVars, packet, userVars, stop, proc, netVars>>

IoRemoveRequest ==
    /\ At("remove")
    /\ pending' = [pending EXCEPT ![ioConn] = @ \ {packet.id}]
    /\ Goto("outgoing")
    /\ UNCHANGED <<closed, nextId, outgoing, frames, promise, bufVars, packet,
                   userVars, stop, proc, netVars>>

\* has_outgoing_data(): under the mutex.
IoHasOutgoing ==
    /\ At("outgoing")
    /\ IF ~closed[ioConn] /\ outgoing[ioConn] # <<>> THEN Goto("pop")
                                                     ELSE NextConnection
    /\ UNCHANGED <<connVars, bufVars, packet, userVars, stop, proc, netVars>>

\* pop_outgoing(): a second critical section; the front it takes is there
\* because only this thread removes packets.
IoPopOutgoing ==
    /\ At("pop")
    /\ packet' = Head(outgoing[ioConn])
    /\ outgoing' = [outgoing EXCEPT ![ioConn] = Tail(@)]
    /\ Goto("send")
    /\ UNCHANGED <<closed, nextId, pending, frames, promise, bufVars,
                   userVars, stop, proc, netVars>>

\* send(): send_all() blocks while the socket buffers are full.
IoSend ==
    /\ At("send") /\ ~broken[ioConn]
    /\ Len(c2s[ioConn]) < SendCap
    /\ c2s' = [c2s EXCEPT ![ioConn] = Append(@, packet)]
    /\ NextConnection
    /\ UNCHANGED <<connVars, bufVars, packet, userVars, stop, proc, s2c, broken>>

\* send() on a connection that is gone before the OS knows: the bytes vanish.
IoSendIntoVoid ==
    /\ At("send") /\ broken[ioConn]
    /\ NextConnection
    /\ UNCHANGED <<connVars, bufVars, packet, userVars, stop, proc, netVars>>

\* send() on a connection that is known to be gone: ::send() fails.
IoSendFails ==
    /\ At("send") /\ broken[ioConn] /\ ~SigPipe
    /\ Goto("failed")
    /\ UNCHANGED <<connVars, bufVars, packet, userVars, stop, proc, netVars>>

\* The same with no one to catch SIGPIPE, which net.h neither ignores nor masks.
IoSendKilled ==
    /\ At("send") /\ broken[ioConn] /\ SigPipe
    /\ proc' = "aborted"
    /\ UNCHANGED <<connVars, bufVars, ioVars, userVars, stop, netVars>>

-----------------------------------------------------------------------------
IoNext ==
    \/ IoDone \/ IoFrameReady \/ IoNothingToRead \/ IoReceive
    \/ IoConnectionLost \/ IoCloseLost \/ IoCloseFailed
    \/ IoGetRequest \/ IoSetValue \/ IoRemoveRequest
    \/ IoHasOutgoing \/ IoPopOutgoing
    \/ IoSend \/ IoSendIntoVoid \/ IoSendFails \/ IoSendKilled

UserNext(u) ==
    \/ \E c \in Conns : SendRequest(u, c) \/ SendRequestThrows(u, c)
    \/ GetReply(u)

MainNext == RequestStop \/ JoinAndExit

ClientNext == IoNext \/ MainNext \/ \E u \in User : UserNext(u)

(***************************************************************************)
(* Every thread that can take a step is scheduled again.  A thread inside  *)
(* a blocking ::send() takes its step once there is room.                  *)
(***************************************************************************)
ClientFairness ==
    /\ WF_<<clientVars, netVars>>(IoNext)
    /\ WF_<<clientVars, netVars>>(MainNext)
    /\ \A u \in User : WF_<<clientVars, netVars>>(UserNext(u))
=============================================================================
