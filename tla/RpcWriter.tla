------------------------------ MODULE RpcWriter -----------------------------
(***************************************************************************)
(* rpc::detail::async_writer (include/rpc/detail/async_writer.h), which    *)
(* the client owns: a queue of buffers whose front is being written.  A    *)
(* writer is a record; its operations are functions from writer to writer, *)
(* executed on a strand of the owner.                                      *)
(***************************************************************************)
EXTENDS Naturals, Sequences

Writer(Item) ==
    [queue    : Seq(Item),    \* write_queue_
     inFlight : Nat,          \* async_writes of its front without a handler call
     stuck    : BOOLEAN,      \* the last async_write ended with an error
     exit     : BOOLEAN]      \* exit_

NewWriter == [queue |-> <<>>, inFlight |-> 0, stuck |-> FALSE, exit |-> FALSE]

\* do_write(): starts writing the front, unless the writer is closing.
do_write(w) == IF w.exit THEN w ELSE [w EXCEPT !.inFlight = @ + 1]

\* VARIANT of write with a bug: a write is started whether or not one runs.
write_unconditionally(w, item) ==
    do_write([w EXCEPT !.queue = Append(@, item)])

\* write(): queues the buffer and starts a write chain if there is none.
write(w, item) ==
    LET queued == [w EXCEPT !.queue = Append(@, item)]
    IN  IF Len(queued.queue) > 1 THEN queued ELSE do_write(queued)

\* The handler of async_write: on to the next buffer, if any.
write_done(w) ==
    LET rest == [w EXCEPT !.queue = Tail(@), !.inFlight = @ - 1]
    IN  IF rest.queue # <<>> /\ ~rest.exit THEN do_write(rest) ELSE rest

\* The handler with an error only logs it: the front stays in the queue, so
\* that write() never starts a chain again.
write_failed(w) == [w EXCEPT !.inFlight = @ - 1, !.stuck = TRUE]
=============================================================================
