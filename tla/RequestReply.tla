---------------------------- MODULE RequestReply ----------------------------
(***************************************************************************)
(* What promise_client promises the callers of send_request(), without     *)
(* threads, queues, frames or sockets: every accepted request has one      *)
(* outcome, decided once.  It is the echo of the request followed by       *)
(* "END", or the exception that all requests still undecided get together  *)
(* at the one moment their connection closes; a closed connection accepts  *)
(* nothing.                                                                *)
(***************************************************************************)
EXTENDS Naturals, Sequences

CONSTANTS Conn, Request, End

VARIABLES
    asked,      \* asked[c]: the requests accepted on c, in order
    outcome,    \* outcome[c][i]: what became of the i-th of them
    open        \* open[c]: c still accepts requests

Undecided   == [state |-> "waiting", reply |-> <<>>]
Exception   == [state |-> "error",   reply |-> <<>>]
Echo(text)  == [state |-> "value",   reply |-> <<text, End>>]

Init ==
    /\ asked = [c \in Conn |-> <<>>]
    /\ outcome = [c \in Conn |-> <<>>]
    /\ open = [c \in Conn |-> TRUE]

Accept(c, text) ==
    /\ open[c]
    /\ asked' = [asked EXCEPT ![c] = Append(@, text)]
    /\ outcome' = [outcome EXCEPT ![c] = Append(@, Undecided)]
    /\ UNCHANGED open

Answer(c, i) ==
    /\ outcome[c][i] = Undecided
    /\ outcome' = [outcome EXCEPT ![c][i] = Echo(asked[c][i])]
    /\ UNCHANGED <<asked, open>>

Close(c) ==
    /\ open[c]
    /\ open' = [open EXCEPT ![c] = FALSE]
    /\ outcome' = [outcome EXCEPT ![c] =
          [i \in DOMAIN @ |-> IF @[i] = Undecided THEN Exception ELSE @[i]]]
    /\ UNCHANGED asked

Next ==
    \E c \in Conn :
        \/ \E text \in Request : Accept(c, text)
        \/ \E i \in DOMAIN outcome[c] : Answer(c, i)
        \/ Close(c)

Spec == Init /\ [][Next]_<<asked, outcome, open>>
=============================================================================
