---------------------------- MODULE RpcDispatcher ---------------------------
(***************************************************************************)
(* rpc::detail::dispatcher and response, and what the task of a            *)
(* server_session makes of them (server_session.cc:64-118): which          *)
(* handlers a message leads to on the session's write strand.  A function  *)
(* is known by the set of what its body does, {} for a plain return:       *)
(*    "unbound"        it is not in funcs_                                 *)
(*    "wrong_arity"    enforce_arg_count() throws client_error             *)
(*    "throw"          it throws something of its own                      *)
(*    "respond_error"  this_handler().respond_error(), which throws        *)
(*    "disable"        this_handler().disable_response()                   *)
(*    "exit", "stop"   this_session().post_exit(), this_server().stop()    *)
(* this_handler().respond() replaces the result by another one; both       *)
(* belong to the call, so it needs no effect of its own.                   *)
(***************************************************************************)
EXTENDS RpcNet

CONSTANT Suppress    \* suppress_exceptions_

Effect == {"unbound", "wrong_arity", "throw", "respond_error",
           "disable", "exit", "stop"}

ASSUME DispatcherAssumption == Suppress \in BOOLEAN /\ Args \subseteq SUBSET Effect

Fails(m) == m.arg \cap {"unbound", "wrong_arity", "throw", "respond_error"} # {}

\* The exception that dispatch() does not catch and the worker thread dies of.
DispatchThrows(m) ==
    /\ ~Suppress
    /\ \/ "throw" \in m.arg
       \/ m.kind = "note" /\ "wrong_arity" \in m.arg

\* capture_error() on the response to a notification: it has no error object
\* yet, and the one made for it is an empty pointer.
CaptureErrorFails(m) ==
    m.kind = "note" /\ "respond_error" \in m.arg /\ "disable" \notin m.arg

\* Handlers of a session's write strand; `resp' holds the response to write.
Post(do) == [do |-> do, resp |-> <<>>]
WritePost(r) == [do |-> "write", resp |-> <<r>>]

\* VARIANT of dispatch with a bug: notifications are answered like calls.
dispatch_answers_all(m) ==
    <<[id |-> IF m.id = 0 THEN 1 ELSE m.id, error |-> Fails(m), of |-> m.arg]>>

\* The response to a call, or none for a notification (response::empty()).
dispatch(m) ==
    IF m.kind = "call"
    THEN <<[id |-> m.id, error |-> Fails(m), of |-> m.arg]>> ELSE <<>>

\* VARIANT of Posts with a bug: what the handler asked for is looked at only
\* where a response is written, so that it is lost in a notification.
PostsWithResponse(m) ==
    IF "disable" \in m.arg \/ dispatch(m) = <<>> THEN <<>>
    ELSE <<WritePost(dispatch(m)[1])>>
         \o (IF "exit" \in m.arg THEN <<Post("close")>> ELSE <<>>)
         \o (IF "stop" \in m.arg THEN <<Post("close_sessions")>> ELSE <<>>)

\* What the task posts: nothing if the response is disabled, else the
\* response, then what the handler asked for.
Posts(m) ==
    IF "disable" \in m.arg THEN <<>>
    ELSE [k \in DOMAIN dispatch(m) |-> WritePost(dispatch(m)[k])]
         \o (IF "exit" \in m.arg THEN <<Post("close")>> ELSE <<>>)
         \o (IF "stop" \in m.arg THEN <<Post("close_sessions")>> ELSE <<>>)
=============================================================================
