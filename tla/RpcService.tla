------------------------------ MODULE RpcService ----------------------------
(***************************************************************************)
(* rpc::server with clients that call its functions.  What they do with    *)
(* the responses does not concern the server; down[c] keeps them.          *)
(***************************************************************************)
EXTENDS RpcServer

\* What clients may do: plan[c].asks are the functions client c calls, .notes
\* those it sends notifications for, .quota (BOUND) how many messages it
\* sends, and .mortal whether it may vanish.
CONSTANT Plans

ASSUME ServiceAssumption ==
    Plans \subseteq [Conns -> [asks : SUBSET Args, notes : SUBSET Args,
                              quota : 0..MaxId, mortal : BOOLEAN]]

VARIABLES
    plan,       \* the plan of this behaviour
    linked,     \* linked[c]: client c has connected
    sent        \* sent[c]: what it has sent

clientsVars == <<plan, linked, sent>>
vars == <<srvVars, netVars, clientsVars>>

Init ==
    /\ NetInit /\ ServerInit
    /\ plan \in Plans
    /\ linked = [c \in Conns |-> FALSE]
    /\ sent = [c \in Conns |-> <<>>]

Connect(c) ==
    /\ srv = "up" /\ ~linked[c]
    /\ linked' = [linked EXCEPT ![c] = TRUE]
    /\ backlog' = Append(backlog, c)
    /\ UNCHANGED <<acceptor, sessions, reading, tasks, worker, stopping, wstrand,
                   writer, sockOpen, srv, netVars, plan, sent>>

\* Ids are the client's running number, as in rpc::client.
Ask(c) ==
    /\ srv = "up" /\ linked[c] /\ ~gone[c] /\ Len(sent[c]) < plan[c].quota
    /\ \E m \in Request :
          /\ \/ m.kind = "call" /\ m.arg \in plan[c].asks /\ m.id = Len(sent[c]) + 1
             \/ m.kind = "note" /\ m.arg \in plan[c].notes
          /\ up' = [up EXCEPT ![c] = Append(@, m)]
          /\ sent' = [sent EXCEPT ![c] = Append(@, m)]
    /\ UNCHANGED <<plan, linked, down, gone>>

Vanish(c) ==
    /\ srv = "up" /\ plan[c].mortal /\ linked[c]
    /\ Drops(c)
    /\ UNCHANGED clientsVars

ClientStep(c) == Ask(c) \/ Vanish(c)

Next ==
    \/ ServerNext /\ UNCHANGED clientsVars
    \/ \E c \in Conns : Connect(c)
    \/ \E c \in Conns : ClientStep(c) /\ UNCHANGED srvVars

Spec == Init /\ [][Next]_vars

(***************************************************************************)
(* The threads run: every queued handler and every operation that can      *)
(* complete gets its turn, although threads are busy now and then.         *)
(* Nobody has to destroy the server.                                       *)
(***************************************************************************)
FairSpec ==
    /\ Spec
    /\ SF_vars(AcceptNext /\ UNCHANGED clientsVars)
    /\ SF_vars((\E t \in Thread : RunTask(t)) /\ UNCHANGED clientsVars)
    /\ \A t \in Thread : WF_vars(PostToStrand(t) /\ UNCHANGED clientsVars)
    /\ \A c \in Conns :
          /\ WF_vars(ReadNext(c) /\ UNCHANGED clientsVars)
          /\ SF_vars(StrandNext(c) /\ UNCHANGED clientsVars)
          /\ WF_vars(WriteNext(c) /\ UNCHANGED clientsVars)

-----------------------------------------------------------------------------

(***************************************************************************)
(* The write queue of an open session is served by exactly one chain of    *)
(* writes, whichever threads run the tasks that fill it; a closing session *)
(* finishes at most the write that is running.                             *)
(***************************************************************************)
OneChainPerSession ==
    \A c \in Conns :
        LET w == writer[c]
        IN  /\ w.inFlight <= 1
            /\ w.inFlight = 1 => w.queue # <<>>
            /\ w.queue # <<>> /\ ~w.stuck /\ ~w.exit => w.inFlight = 1

\* The call a response answers.
CallOf(r) == [kind |-> "call", id |-> r.id, arg |-> r.of]
CallsTo(posts) ==
    {CallOf(posts[k].resp[1]) : k \in {k \in DOMAIN posts : posts[k].do = "write"}}

\* The calls of session c that are read and not answered.
Outstanding(c) ==
    ({tasks[k].msg : k \in {k \in DOMAIN tasks : tasks[k].conn = c}} \cap Call)
    \cup (UNION {CallsTo(worker[t].todo) : t \in {t \in Thread : worker[t].conn = c}})
    \cup CallsTo(wstrand[c])
    \cup {CallOf(writer[c].queue[k]) : k \in DOMAIN writer[c].queue}

AcceptedCalls == [c \in Conns |-> Outstanding(c)]

Peer == INSTANCE RpcPeer WITH accepted <- AcceptedCalls

(***************************************************************************)
(* The server is what rpc::client relies on: a call is answered at most    *)
(* once, on its own connection, with its own id and an outcome of its own  *)
(* arguments, and a notification never.                                    *)
(***************************************************************************)
ImplementsRpcPeer == Peer!PeerSpec

\* The accept loop has ended with client c not accepted.
NeverAccepted(c) ==
    /\ acceptor = "none" /\ \E k \in DOMAIN backlog : backlog[k] = c
    /\ \A t \in Thread : worker[t].todo # <<Push>>

(***************************************************************************)
(* "The server must send a response message in reply": a call that does    *)
(* not disable its response is answered, unless its session is being       *)
(* closed, the connection is lost, or the server has stopped accepting or  *)
(* has ended.                                                              *)
(***************************************************************************)
CallsAnswered ==
    \A c \in Conns : \A i \in Ids :
        (i \in DOMAIN sent[c] /\ sent[c][i].kind = "call" /\ "disable" \notin sent[c][i].arg)
            ~> \/ \E k \in DOMAIN down[c] : down[c][k].id = i
               \/ writer[c].exit \/ gone[c] \/ srv # "up" \/ NeverAccepted(c)

(***************************************************************************)
(* "Use this function if you need to close the connection from a handler": *)
(* once a call or notification waits for its handler that will call        *)
(* post_exit(), the session is closed in the end, its socket and its read, *)
(* unless the whole server ends.  A handler that also disables its         *)
(* response is left out: server_session.cc:77 returns before line 104      *)
(* looks at exit_, and the session stays open.                             *)
(***************************************************************************)
ExitClosesSession ==
    \A c \in Conns :
        (\E k \in DOMAIN tasks :
            /\ tasks[k].conn = c
            /\ "exit" \in tasks[k].msg.arg /\ "disable" \notin tasks[k].msg.arg)
            ~> (~sockOpen[c] /\ ~reading[c]) \/ srv # "up"
=============================================================================
