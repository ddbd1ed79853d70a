---------------------------- MODULE MCRpcService ----------------------------
(* Instances of RpcService for TLC. *)
EXTENDS RpcService

\* Functions that fail, end their session, end the server or do both and
\* disable their response.
SomeFunctions == {{"throw"}, {"respond_error"}, {"exit"}, {"stop"}, {"disable", "exit"}}

Client(asks, notes, quota, mortal) ==
    [asks |-> asks, notes |-> notes, quota |-> quota, mortal |-> mortal]

\* Two calls on one session while another one is ended by a notification, or
\* asks to exit with its response disabled, or its client vanishes.
ServedWhileOtherEnds ==
    <<Client({{"throw"}}, {}, 2, FALSE),
      Client({{"disable", "exit"}}, {{"exit"}}, 1, TRUE)>>

\* One call while the other client stops the server, or vanishes.
ServedWhileStopping ==
    <<Client({{"throw"}}, {}, 1, FALSE),
      Client({{"stop"}}, {{"stop"}}, 1, TRUE)>>

\* A client vanishes with a message on its way to a session that is ending, or
\* the process ends meanwhile.
VanishesWhileEnding ==
    <<Client({}, {}, 0, FALSE), Client({{"exit"}}, {{"exit"}, {"respond_error"}}, 2, TRUE)>>

MCPlans == {ServedWhileOtherEnds, ServedWhileStopping, VanishesWhileEnding}
=============================================================================
