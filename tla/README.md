# TLA+ models of rpc_test

Specifications of the concurrent parts of this repository, TLC configurations that
check them on small instances, and TLAPS proofs of the central invariants and refinements.

    tlc -workers 2 -config PromiseSystem.cfg MCPromiseSystem     # one run
    tlapm RpcSystemProofs.tla                                    # the proofs of one module

`PROJECT.json` lists the runs, the source lines behind every definition, the hazards
and the theorems.

## 1. The system

The repository holds two independent request/reply systems over TCP.

**The promise demo** (`src/src/promise_demo/`), plain sockets, one protocol: a request
`[id, text]` is answered by two frames with the same id, the text and `END`.

| part | state | operations | hard because |
|---|---|---|---|
| `promise_client.cpp` | per connection: `outgoing_`, `pending_`, `next_id_`, `closed_` under one mutex; `read_buffer_` and the loop position of the I/O thread; the promises | `send_request` (any thread), `process_connections` (one I/O thread), `close_with_error`, `main`'s send loop, `get` loop, stop and join | each member function is its own critical section, so checks and uses are apart; a connection drops between any two of them; `set_value` twice or `pending_.at` without an entry ends the process |
| `net.h` | a byte buffer | `encode_frame`, `try_decode_frame`, `send_all`, `recv_some`, `wait_readable` | frames are cut anywhere; 32-bit arithmetic |
| `promise_server.cpp` | vector of connections with read buffers | `select`, accept, receive, decode loop, two blocking sends | erases from the vector it walks; a blocking send stops everybody |
| `promise_server_asio.cpp` | per session: read buffer, write queue, socket, strand; a pool of threads | accept, read and write handlers, stop signal | handlers of one session may run on different threads; errors while operations are pending |

**rpclib** (`src/rpclib/lib`, `src/rpclib/include/rpc`), msgpack-rpc over the vendored asio, and two
straight-line example programs (`src/src/client.cpp`, `server.cpp`).

| part | state | operations | hard because |
|---|---|---|---|
| `rpc::client` | `call_idx_`, `ongoing_calls_`, `is_connected_`, `state_`, `connection_ec_`, the strand, the writer | `call`, `async_call`, `send`, `wait_all_responses`, timeouts, connect/read handlers, destructor | ids are taken on user threads, entries are made and erased by strand handlers, read handlers touch the map outside the strand; responses come late, in any order or never |
| `async_writer` | `write_queue_`, the running `async_write`, `exit_` | `write`, its handler, `close` | one chain of writes, started and continued from different handlers |
| `server`, `server_session` | sessions, thread-local handler/session/server flags, strands | accept, read loop, dispatch tasks on any worker, close, stop | thread-local flags, reordering between tasks, lifetime of sessions |
| `dispatcher`, `response` | bound functions | dispatch of calls and notifications, special responses | precedence of errors and results, exceptions |

Client and server of each system interact only through their TCP connections; inside
a process the parts share state under a mutex (promise client) or through handlers
posted to strands (asio server, rpclib).

**What both run on**, of the vendored code, where the correctness of the above is decided:

| part | state | operations | hard because |
|---|---|---|---|
| `task_io_service` | queue of operations, count of outstanding work, wakeup event, stop flag; per thread a private queue and a private count | `run`, `post_immediate_completion`, `post_deferred_completions`, `stop` | a wakeup must reach a thread that sleeps or the one in `epoll_wait`; the count changes outside the mutex and its end stops everybody |
| `strand_service` | lock bit, waiting and ready queue | `post`, `dispatch`, `wrap`, the strand's own operation | the lock is handed from a handler to an operation in the queue |
| `epoll_reactor` | per socket: waiting operations, registered events | `start_op`, `deregister_descriptor`, `run`, `perform_io` | edge-triggered events; the descriptor itself is an element of the queue |
| msgpack `unpacker` | buffer with a reference count, parser state, zone of the message being parsed | `reserve_buffer`, `buffer_consumed`, `next`, release of a message | messages point into the buffer and outlive the read; values are cut anywhere |

What makes them correct, and is stated below: every future is decided, once, and by
the reply to its own request; nobody waits for a promise that is lost; the servers
keep the protocol the clients rely on whatever other clients do; queues are served by
exactly one chain of writes; framing is independent of chunking; everything ends.

## 2. Modules

    Streams ── Transport ─┬─ PromiseClient ─┬─ PromiseSystem ── MCPromiseSystem
       │                  │   EchoPeer ─────┘       └── implements RequestReply
       │                  ├─ PromiseClient + PromiseServer ── PromiseDemo ── MCPromiseDemo
       │                  │                         └── implements PromiseSystem
       │                  ├─ PromiseServer + EchoClients ── SelectServer      implements EchoPeer
       │                  └─ PromiseServerAsio + EchoClients ── AsioServer    implements EchoPeer
       ├── Framing  implements FrameStream
       └── RpcNet ─┬─ RpcClient (with RpcWriter) ─┬─ RpcSystem ── MCRpcSystem
                   ├─ RpcPeer ────────────────────┘
                   └─ RpcDispatcher ── RpcServer (with RpcWriter) ── RpcService ── MCRpcService
                                                        └── implements RpcPeer
    TaskIoService ── StrandService ── EpollReactor ── AsioRuntime ── MCAsioRuntime   implements Strand
    Msgpack ── Unpacker ── MCUnpacker

Proofs (TLAPS) are in modules of their own, on top of the module they are about:

    StreamsProofs ─┬─ SelectServerProofs   (SelectServer)
                   ├─ AsioServerProofs     (AsioServer)
                   ├─ RpcSystemProofs      (RpcSystem)
                   ├─ RpcServiceProofs     (RpcService)
                   ├─ AsioRuntimeProofs    (AsioRuntime)
                   └─ PromiseSystemProofs  (PromiseSystem)
    UnpackerProofs (Unpacker)

* **Streams, Transport** - cutting a stream of frames at any point (`RecvSome`), two
  bounded directions per connection (`SendCap` frames of room before `::send` blocks,
  `RecvCap` frames per `recv`), and a connection that breaks, losing any last part of
  what is in flight.
* **PromiseClient** - one action per critical section or system call. User threads:
  `SendRequest`, `SendRequestThrows`, `GetReply`. The I/O thread walks
  `IoDone -> IoFrameReady | IoReceive | IoConnectionLost | IoNothingToRead -> IoGetRequest ->
  IoSetValue -> IoRemoveRequest -> IoHasOutgoing -> IoPopOutgoing -> IoSend...`, its position
  is `ioPc`, its loop variable `ioConn`. `proc` becomes `"aborted"` where an exception
  leaves a thread. `SigPipe` says whether a send on a dead connection kills the
  process (POSIX) or fails (Windows).
* **EchoPeer** - what a client may count on: a server that answers each request with
  the two frames in order, or loses its connection. `PeerSpec` is the abstract
  specification of both servers.
* **RequestReply** - what the client promises its callers: each request is decided once,
  by `<<text, END>>` or by the failure of its connection, which fails all undecided ones together.
* **PromiseServer** - select, accept (also of a peer that is gone), the pass over the
  vector with erase, decode loop, the two sends. **PromiseServerAsio** - handlers in the
  steps between which another thread could interfere; the strand is the guard `StrandFree`,
  so that its absence is a mutant. **EchoClients** - clients that connect, ask, read or
  not (`Deaf`), and vanish (`Mortal`).
* **PromiseDemo** - the real client with the real server, both with blocking sends.
* **Framing, FrameStream** - `put_u32` to `try_decode_frame` on bytes, with the modulus of
  a u32 (`Base`, `Width` stand for 256 and 4), against a stream of whole frames.
* **RpcNet, RpcWriter, RpcClient, RpcPeer, RpcSystem** - `rpc::client`: user threads step through
  `WaitConn`/`ConnFinished`/`ConnectTimesOut`, `NextCallIdx`, `PostCall`, `GetResult` or
  `CallTimesOut`; another thread sets and clears the timeout, which a call reads when it starts to wait
  (`user[u].timed`) and once more when it throws. The io thread runs one handler at a time, except that a read handler
  handles one response per step (`HandleResponse`), because user threads run meanwhile.
  `writer` is the record of an `async_writer`. `wait_all_responses` reads the map while
  handlers change it; that data race is a choice between both results and the end of
  the process. `~client` is two steps, `io_.stop()` and the end of the thread, after
  which unsatisfied promises break. `RunReturns` is the end of `io_.run()` for want of work: nobody
  calls it again, and what is posted afterwards stays on the strand. `RpcPeer` is a server that answers a call at most
  once, in any order, or never.
* **RpcDispatcher, RpcServer, RpcService** - `rpc::server`. A bound function is the set of what its
  body does (throw, `respond_error`, `disable_response`, `post_exit`, `stop`...);
  RpcDispatcher says what its message leads to: a response or none, and the handlers the
  task posts to the session's write strand, in order (`Posts`), or the exception that ends
  a worker. RpcServer has the accept handler in its two steps (the session starts reading
  before `push_back`), the read handler, tasks that any free thread takes (`RunTask`) and posts one by
  one (`PostToStrand`), the strand's handlers, and write completions. `stopping[t]` is the
  thread-local flag. `Alive` says whether anything still refers to a session; a handler that
  runs without is undefined behaviour (`StrandOnDeadSession`). The posts of one `close()`, and all of `close_sessions()`, are one step; the
comments of `CloseAll` and `StrandCloseSessions` say why nothing is lost by it. It is the build of other compilers than MSVC, whose
posted write does not keep the session alive. RpcService adds clients that
  follow a plan. The server implements `RpcPeer`, the module the client is checked
  against, so the two halves fit.

* **TaskIoService, StrandService, EpollReactor, AsioRuntime** - the io_service. One action is a critical section of
  `mutex_` or the code between two of them; `owner` is the thread that comes out of one section still holding it.
  What user code does is a script of library calls (`Script`), and the calls a thread is in are on a stack
  (`frames`): a handler that dispatches, a strand that runs its handlers, a completion that still has to be
  queued. `signalled`, `waiting`, `notified` and `owes` are the condition variable: bit 0 of its state, sleepers, sleepers
  that were woken and want the mutex, and signals that are sent after the unlock. `edge` and `interrupt`
  are epoll's list of ready descriptors; errors of a descriptor (`EPOLLERR`, `EPOLLHUP`) are left out. A thread that finds the strand free locks
it, fills `ready_queue_` and counts the work in one step. **Strand** is the guarantee of `asio/strand.hpp`:
  one handler at a time, in order, nested ones at once.
* **Msgpack, Unpacker** - the wire format as functions, and the unpacker as the read loops use it, on bytes: one
  action per read, per round of `context::execute()`, per `reserve_buffer()` and per release of a message. `mem`
  holds the allocated buffers with their counts; addresses are reused, so that a stale pointer shows.

The server models take from the runtime that handlers of a strand exclude each other (`StrandFree` of PromiseServerAsio, one
queue per strand in RpcServer) and that a handler that may run does (their fairness); `asio_runtime` checks
both, and the first is proved (`StrandIsSerialised`). They take from the unpacker that a read yields whole messages, the next ones that were sent; `unpacker` checks that.

Operators whose comment begins with "VARIANT of ... with a bug" are mutated forms of the
operator that follows; nothing in the specifications uses them. Each shows that a property fails
when the code is changed that way.

Abstracted everywhere: texts and arguments are members of small sets, logging and
console output are left out, Winsock start-up too; the modules of rpclib's client and server exchange whole messages, whose bytes are in Msgpack and Unpacker.

## 3. Runs

| run | shows | states |
|---|---|---|
| `promise_system` | two threads call `send_request` on one connection that may break at any moment: no orphaned future, no promise set twice, lookups succeed, replies belong to their request, nothing is lost or duplicated on the way, `RequestReply` is implemented, no waiter is left | 211 000 |
| `demo` | client and select server together, three requests, SIGPIPE, breaking connection: implements `PromiseSystem`, `main` ends with its I/O thread joined | 56 000 |
| `select_server` | two clients, one may vanish: valid iterator, `EchoPeer` implemented, every request of a live client answered | 31 000 |
| `asio_server` | two threads, two clients of which one never reads and may vanish: one write in flight for a queue that is not empty and none else, order, `EchoPeer`, the other client answered | 184 000 |
| `framing` | encode, chunk, decode gives the frames sent; the byte level implements the frame level | 14 000 |
| `rpc_client` | `call`, `async_call`, `send`, `wait_all_responses` and `set_timeout`/`clear_timeout` on five threads, connection fails or drops: waiting promises are held, responses find an open promise, one write chain, own results, the io thread has work while connected, waits that saw a timeout end, the destructor decides every future | 699 000 |
| `rpc_server` | two workers; one client calls, the other exits its session, stops the server, notifies or vanishes: one chain of writes per session, `RpcPeer` implemented, calls of open sessions answered, a session whose function asks to exit (and does not disable its response) is closed | 96 000 |
| `asio_runtime` | two threads in `run()`, one socket, one strand, a third thread that posts and may stop: exact count of work, the descriptor queued once, `Strand` implemented, handlers run, `stop()` ends every `run()` | 84 000 |
| `unpacker` | four messages in reads of 1 and 7 bytes, messages released at any time: reads fit, held messages stay intact, counts exact, everything delivered | 553 000 |
| `end_text` (violation) | a request whose text is `END` ends its reply early | |
| `demo_blocked` (violation) | enough outstanding requests: both programs block in `send_all` for ever | |
| `wait_all` (violation) | `wait_all_responses` throws or returns with calls undecided | |

**Bounds.** Ids (`MaxId`) are enough for every request of the instance, so no behaviour is cut
short: the bound guards of `SendRequest` and `NextCallIdx` are never what stops a thread. Two
threads, or two requests of one thread, are the least with which ids can be
confused, replies interleave and a close meets several entries. `SendCap` of 1 or 2 frames makes `::send`
block, `RecvCap` of 2 makes several frames arrive at once. Two clients are the
least for erasing one while another is served; one that does not read and may vanish
covers a full socket buffer and a write error. In `framing`, three values per byte and
two bytes per number give a modulus of 9, so that the numbers 1 and 8 (all bits) and both header fields
use both bytes; chunks up to 7 bytes cut headers and payloads everywhere. Two calls, a
notification and a `wait_all_responses` are the least with which rpclib responses can be
swapped and a notification can start the write chain before the connection is made. For the
rpclib server, two workers and two sessions are the least with which thread-local flags
and sessions of others matter; of the three plans one gives a session two calls, so that a second response is queued
behind a running write, one lets the server be stopped from the other session, and in the third a client vanishes with a
message on its way to a session that is ending. A session is asked to exit by calls, by notifications, which have no
response to write first, and by functions that disable their response, which `ExitClosesSession` leaves out (see below).
In `asio_runtime` two threads are the least with which one sleeps or polls while the other runs, and the script has every
library call the programs make, from inside and outside the strand and the io_service (the third thread uses the strand only
before the two run; see StrandService for what an outside thread's post to the strand hides); one arrival of each kind lets a
read wait, complete and be started again, and a write wait for room. In `unpacker` the buffer is 8 bytes at first
and a read at most 8, so that it is rewound, grown and replaced in the middle of messages; four doublings are more than it needs; the
messages have every kind of value rpclib packs and, in the fourth, every size written in full.

**Deadlock** is checked in `promise_system` and `demo`; elsewhere clients may simply stop
asking and servers wait for ever, or (`demo_blocked`) the deadlock is what the temporal
property shows.

**Fairness.** Weak fairness for each thread: the scheduler runs a thread that can
take a step. Client I/O thread, `main`, user threads, the select server's only thread
and rpclib's io thread. Timers of `wait_for` expire, which is a step of the waiting
thread. In the asio server, strong fairness of each session: a session's
handler may be disabled again and again because all pool threads are busy, but the
io_service's queue is first in, first out. The same holds in the rpclib server for accepting, for
tasks and for the handlers of a strand, which all need a free thread. The network never has to break, and clients
need not ask. In `promise_system` the abstract server answers; in `rpc_client` only the io thread and
the callers are fair, the server, the network and the thread that sets the timeout owe nothing. In `asio_runtime`
each thread is fair, except that nobody has to call `stop()` and nothing has to arrive; in `unpacker` the
read loop is, and what was sent arrives. `EveryRequestAnswered` assumes a client that
reads its replies.

### What the violations mean

* `end_text`: `process_connections` (`promise_client.cpp:163`) cannot tell an echoed
  `END` from the marker; the value has one frame instead of two and the second `END`
  then throws from `pending_.at`.
* `demo_blocked`: server blocked in `send_all` (`promise_server.cpp:145`), client's only I/O
  thread in `send_all` of the next request; nobody reads. The shipped demo sends three short
  requests and cannot reach it.
* `wait_all`: `get_future()` a second time throws `future_error`
  (`client.cc:233`), and a call still queued on the strand is not seen.

Further disagreements seen while modelling, not made runs. `promise_server`: on POSIX a `send()` to a client that has vanished
(`promise_server.cpp:145`) raises `SIGPIPE`, which nobody ignores, and the server ends with all its other clients, although line 136 is there to
drop one client and go on; the model has it (`ServerSigPipe`, and the proof covers both values), `select_server` takes the value of
Windows, where the send fails, since otherwise the server may not outlive the client that vanishes. `promise_server_asio`: `remote_endpoint()` and
`set_option()` in the accept handler (`promise_server_asio.cpp:180`) throw when the peer has reset the connection meanwhile, and the
exception leaves `run()` (`AcceptThrows`), although line 144 says "Accepts connections and creates a session for each one". rpclib: `client.h:107`
says "The default value for timeout is 5000ms", `client.cc:41` starts without one; `client.h:104` says that the
timeout has no effect on async calls, yet `async_call` throws `rpc::timeout` from `wait_conn`; once the connection has
ended and `run()` has returned, a posted call is never executed and, without a timeout, waits until the client is destroyed; a `clear_timeout()` between a call's wait and `throw_timeout` leaves it an empty optional to dereference
(`client.cc:240`, `TimesOut`); `~client` drops queued
writes although `client.h:44` says they are completed; `send` returns after queueing although
`client.inl:48` says after writing; a failed write (also one started by `send` before the
connection is made) stops the writer for good. On the server side: `this_server().stop()`
sets a thread-local flag that the next message clears and that `close_sessions`
and the accept handler read on whatever thread they run, so the acceptor may go on
although `this_server.h` says "Gracefully stops the server"; a handler that disables its response loses its
request to exit or stop, since `server_session.cc:77-79` returns before lines 104 and 111 look at the flags, although `this_session.h:24` says
"Use this function if you need to close the connection from a handler" (the function `{disable, exit}` of `rpc_server` leaves its session open); `post_exit` may cut off the response that is being written; `respond_error` in
a notification handler ends the process; a session that ends before `push_back`
stays in `sessions_`.

## 4. Proofs

TLC checks the instances above; the theorems hold for every number of connections, threads, requests and ids and for
every buffer size. Their assumptions are the named ones on the constants (`TransportAssumption`, `ClientAssumption`,
`ServiceAssumption`, `ThreadAssumption`: finitely many threads, `ScriptAssumption`: user code makes library calls...), which
TLC evaluates in the runs, and the two hypotheses of PromiseSystemProofs below. For the unpacker these are: the buffer's first size holds the
count, a read returns at most `MaxRead` bytes (`SizesAssumption`), what is sent are bytes (`BytesAssumption`), and sizes
may be doubled often enough for all of it (`FactorsAssumption`; the limit of the code is that of `size_t`).

| module | theorem | states |
|---|---|---|
| PromiseSystemProofs | `TypeCorrect`, `FuturesNeverOrphaned`, `PromisesSetOnce` | `[]TypeOK`, `[]NoFutureOrphaned`, `[]NoPromiseSetTwice` |
| PromiseSystemProofs | `RepliesAreEchoes`, `LookupsAlwaysSucceed`, `RequestsAccountedFor`, `ClientImplementsRequestReply` | `[]ReplyIsEchoThenEnd`, `[]LookupsSucceed`, `[]RequestAccountedFor`, `ImplementsRequestReply` |
| SelectServerProofs | `IteratorValidHolds`, `ServerImplementsEchoPeer` | `[]IteratorValid`, `ImplementsEchoPeer` |
| AsioServerProofs | `OneWriteInFlightHolds`, `RepliesInRequestOrderHolds`, `ServerImplementsEchoPeer` | `[]OneWriteInFlight`, `[]RepliesInRequestOrder`, `ImplementsEchoPeer` |
| RpcSystemProofs | `TypeCorrect`, `OneWriteChainHolds`, `RunsWhileConnectedHolds`, `CallsAreInOnePlace`, `WaitingPromiseIsHeldHolds`, `ResponseFindsItsCallHolds`, `OwnResultHolds`, `ResponsesNeverThrowHolds` | `[]TypeOK`, the run's five invariants, the inductive invariant, and the action property that no response throws out of `run()` |
| RpcServiceProofs | `OneChainPerSessionHolds`, `ServerImplementsRpcPeer` | `[]OneChainPerSession`, `ImplementsRpcPeer` |
| AsioRuntimeProofs | `TypeCorrect`, `WorkAccountedHolds`, `QueuedOnceHolds`, `StrandIsSerialised` | `[]TypeOK`, `[]WorkAccounted`, `[]QueuedOnce`, `ImplementsStrand` |
| UnpackerProofs | `ReadsFit`, `CountsMatch`, `NoDanglingStrings`, `MessagesStay` | `[]ReadFits`, `[]CountsMatchHolders`, `[]NothingDangles`, the action property `ParsedStays` |

StreamsProofs has the lemmas about sequences that these share: what `Head`, `Tail`, `Append` and cutting do to the
elements, and that different elements stay different.

**promise_client: promises** (PromiseSystemProofs). *Typing* needs two additions (`TypeInv`): `pop_outgoing` takes a
packet only because the queue that `has_outgoing_data` saw in an earlier critical section is still not empty (`PopFinds`: other
threads only push), and a thread holds no more futures than it has messages (`SentBound`). The other properties are not
inductive. That `close_with_error` leaves no waiter rests on
`pending_` holding every promise that is waited for, and only those; the exception is the
entry the I/O thread has satisfied and not yet removed. `PromiseInv` is the conjunction:
waiting promises are pending; a closed connection has nothing pending; pending ids are
older than `next_id_` (a fresh id cannot revive an entry); pending promises are waiting, except
the one at `ioPc = "remove"`; at `"set"` and `"remove"` the entry is still there (only the I/O thread closes
and removes); the removed one is satisfied. Nothing is assumed about texts or how a peer fills its replies.

**promise_client: replies** (the second half of PromiseSystemProofs). `ReplyInv` follows the frames of one connection (`FlowInv`): request ids rise
along wire, packet being sent and `outgoing_` (`OutOK`); of a reply, the frames collected, arriving and owed are the
two frames in their order, none twice (`InOK`); a request that is still going out has nothing coming back,
and whatever is going or coming is pending (`Flow`). What was asked is read off the threads' futures (`AskedInv`), what was
answered off the promises (`ValueInv`). These are stated over the values of the sequences, so that a step is a lemma about
sequences. `ReplyInv` says that nothing comes back twice; that nothing is lost (`RequestsAccountedFor`) needs `EndInv`: of a request
that is waited for on an unbroken connection the final `END` is still ahead, in the request going out, among what the
server owes, among the frames coming in, or at the `set_value` about to run. A reply whose `END` is ahead is whole
(`ReplyWhole`). The steps of the refinement: `SendRequest` is `Accept`, `IoSetValue` answers, both kinds of
closing fail the open requests together, everything else stutters. Two hypotheses:

* `PlainTexts`: no text is `END`. This is necessary, as the run `end_text` shows.
* `NoLateFrames`, only for `LookupsAlwaysSucceed`: one connection (which is what the program makes), or no breaks, or
  a `SIGPIPE` that ends the process. It is necessary too: with two connections and without `SIGPIPE`, a send may fail
  while complete frames are left in `read_buffer_`; `close_with_error` clears `pending_`, the other connection keeps
  the loop running, `has_incoming_data` (`promise_client.cpp:68`) finds the leftover frame before it tests
  `closed_`, and `pending_.at` (line 87) throws. With one connection the loop ends when it is closed.

**promise_server** (SelectServerProofs). `LoopInv`: inside the loop the iterator is on an element, a listener found readable
has a connection to accept, and a socket is in vector and backlog at most once together, which is what makes
erasing an element remove the socket. The mapping to EchoPeer takes `sbuf \o c2s` for the requests not yet taken
(`Pending`) and the request between `decode` and the second `send_all` for what is owed (`Owed`): decoding takes a
request, the two sends answer it.

**promise_server_asio** (AsioServerProofs). `SessionsInv` is the strand's work: of the two handlers of a session at most one
runs, so what it read of the queue (`idle`) is still true when it acts, there is one write for a queue that is not empty, and
`written` counts what it has put on the wire. `OrderInv` says that the unanswered requests - queue, the one
in the handler's hand, buffer, chunk and wire, in this order (`Unanswered`) - are consecutive, and follow exactly those whose
replies the client has read or can read; `RepliesInv` keeps the second half of it for connections that are broken. The mapping
needs more than in the select server, since several requests are owed at a time and one of them in part; `OwedSpec`,
which follows from the invariant, says what is owed under each id.

**rpc::client** (RpcSystemProofs). `ClientInv` is typing, the writer (`WriterInv`: one chain, and the front stays after an error) and
the numbering (`NumberInv`: ids are taken before posting, by one thread each). `CallInv` says where a call is: with the thread that posts
it, on the strand, in the write queue, on the wire, with the server or on its way back, never at two of these and
never twice at one (`BeforeInv`, `AfterInv`); in the first two it is not yet in `ongoing_calls_`, afterwards it is and its promise
is open (`OngoingInv`) until it is erased; it has the argument of the thread that waits for it (`OwnedInv`). It follows that a response
finds its call although read handlers change the map outside the strand. `ReadInv` says that from connecting on a read is pending or its chunk is being handled.

**rpc::server** (RpcServiceProofs). For `OneChainPerSession` it is enough that every writer stays `Chained`, with every handler of
the strand that writes having a response (`Posted`). For the refinement `PlaceInv` says that a call of a client is at one place - the wire, a task, one
thread's list of things to post, the write strand, the write queue - and there once, and that these calls have ids the client has used, so that a new call is
new. `accepted` of RpcPeer is mapped to the calls at
all these places but the wire (`AcceptedCalls`). A read takes calls; the completion of a write answers one, or forgets it if the client is
gone; a task whose function disables its response, or ends the process, forgets its call; closing the socket drops the connection;
stopping the server ends all of them; the rest stutters. RpcPeer is the module that rpc::client is checked and proved against.

Planning this proof corrected the model: `ServerCloses` of RpcNet, applied to a connection that its client had left already, discarded
messages a second time, which RpcPeer does not allow. It now leaves such a connection alone, as `close()` of a dead socket does, and the
third plan of `rpc_server` reaches the case.

**The io_service and its strand** (AsioRuntimeProofs), for any number of threads and any calls in the handlers. The argument is that operations are
conserved. `Count` counts the operations of a kind in a queue and `Total` adds up over the threads; `Flow` describes a step
by what enters the io_service and what leaves it, and almost every action is an instance of it. `Inv` is

* `TypeInv`: types; the shape of a stack (`StackInv`: only the top is a call that is about to change the queues, only the
  bottom an operation, and above the entry into the strand there is user code of the strand); and what a thread's place in `run()` implies
  (`ThreadInv`: a stack only while it runs an operation or stops the others, `private_work` never more than its own queue holds
  and zero outside `"running"`, which is why subtracting it before the flush is never too much);
* `WorkAccounted` itself, inductive with these: the atomic is changed early and late, by one thread on behalf
  of another's operation, and work kept back by `post` from inside a handler is added after the handler returns;
* `TaskInv`: the task is in `op_queue_` or with one polling thread, and the descriptor's operation, if it is queued, is ahead of the
  task (`TaskOrder`), so that nobody can poll and queue it again before it was taken: the comment in `epoll_reactor::run()`;
* `StrandInv`: a locked strand has exactly one place - a thread inside it, or its operation in a queue, in a thread's own queue or about to
  be queued; an unlocked one has no handlers and no place.

`QueuedOnce` and `TypeOK` follow. For the refinement the handlers in the strand are read off the stacks (`Running`) and those given to it off
`ready \o waiting` (`Given`): `post` and a `dispatch` that has to wait are `Submit`, a `dispatch` from inside the strand or to a free one
is `StartAtOnce`, `do_complete` going on to the next handler is `Start`, the return of a strand's handler is `Finish`; the rest
stutters. That no two threads are inside is not visible in any step: it is `StrandInv`.

This proof too corrected the model: a script could have created the same thread twice, which no program can; `StartThread` now
requires a thread that is new.

**msgpack's unpacker** (UnpackerProofs), for any bytes, any sizes and any order of reads and releases. `Inv` is

* `SizeInv`: `m_used + m_free` is the size of the buffer and at least `MaxRead + COUNTER_SIZE`. The second half is why rewinding
  is always enough, so that the code's second test of `m_free` never goes on to the `realloc`;
* `ParseInv`: a value that is waited for has at least one byte, and a size 1, 2 or 4, so that every round of
  `execute()` takes bytes, and only bytes that were read;
* `CountInv`: counts are exact, a zone has at most one finalizer for a buffer and none for the unpacker's own, and what a finalizer
  is for is allocated. `HeldInv`: messages are numbered, so a delivered one is new and adds its finalizers;
* `CleanStart`: while `m_off` is `COUNTER_SIZE` nobody points into the buffer. `expand_buffer()` calls `realloc` without
  looking at the count, and this is why it may;
* `RefInv`: a message points only into buffers it has finalizers for, the message being parsed into the buffer only if it is marked
  `referenced`, and nobody in the unpacker's buffer beyond `m_off`.

`Decr` gets one lemma (`DecrCounted`): what a release takes from the counts it takes from the holders, and nobody who still holds loses a buffer. A round of
`execute()` is reduced to what it does to the message (`Round`: nothing, one more value, or the last one), so that the table of the parser's
states is looked at once. Every step leaves all buffers as they are but for the part of the unpacker's own beyond `m_off` (`Kept`);
with `RefInv` and the counts this gives `MessagesStay`. What the values are (`HeldIntact`) is left to TLC.

Only model-checked, and why:

* liveness (`WaitersAreReleased`, `MainEnds`, `EveryRequestAnswered`, `TimedWaitsEnd`, `CallsAnswered`, `HandlersRun`, `StopReturns`...): fairness and `ENABLED`
  are outside the prover;
* `Framing` with FrameStream, and that the unpacker delivers what was packed (`HeldIntact`; that it does not change afterwards is proved): what a
  recursive function computes needs induction over data;
* that PromiseDemo implements PromiseSystem: not attempted.

## 5. Not modelled

Nearly all of the repository's lines are vendored: of some 239 000, the programs, rpclib and what is modelled of
asio and msgpack are a few thousand, and no model of the rest would say anything about this system. Left out are

* fmt, gtest and gmock; asio's other platforms and services (Windows' completion ports, kqueue, timers, resolver, signal
  delivery, SSL); msgpack's adaptors, generated for every arity;
* of the io_service: `run_one`, `poll`, fork, `shutdown_service`, `cancel`, handlers that throw, and strands
  that happen to share an implementation (they then exclude each other too, which only removes behaviours);
* of msgpack: malformed input and size limits, conversion of objects to types, packing of signed and
  floating point numbers (parsed as bits), failing allocations;
* of rpclib: `bind` (used before the server runs), moving a server, messages that are neither calls nor
  notifications, logging and the compile-time helpers;
* the example programs `client.cpp` and `server.cpp`, which keep no state, and the build files.

Numbers that need 2^32 steps or bytes (wrap-around of ids and of `8 + length`) and `FD_SETSIZE` are outside the bounds; `Framing` keeps
the modulus, for frames shorter than it. Spurious wake-ups of condition variables only repeat a test and
are left out.

## 6. Plan

Done: the promise demo from bytes to the pair of programs, rpclib's client and server, the io_service and the
unpacker they run on; the invariants of both clients, of the three servers, of the io_service and of the unpacker, and the refinements of RequestReply, EchoPeer, RpcPeer and Strand, proved.
Left:

1. The steps of `ImplementsPromiseSystem`, which would carry the client's theorems over to the pair of programs.
