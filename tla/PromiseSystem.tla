---------------------------- MODULE PromiseSystem ----------------------------
(***************************************************************************)
(* promise_client talking to a server that keeps the protocol's promise,   *)
(* over connections that may break at any moment.                          *)
(***************************************************************************)
EXTENDS PromiseClient, EchoPeer, FiniteSets

CONSTANT MayBreak    \* TRUE when the network may break a connection

ASSUME BreakAssumption == MayBreak \in BOOLEAN

vars == <<clientVars, netVars, owed>>

Init == ClientInit /\ NetInit /\ PeerInit

Break(c) ==
    /\ MayBreak /\ proc = "running"
    /\ BreakConnection(c)
    /\ UNCHANGED <<clientVars, owed>>

\* A process that has exited or aborted stays so.
Over == proc # "running" /\ UNCHANGED vars

Next ==
    \/ ClientNext /\ UNCHANGED owed
    \/ \E c \in Conns : PeerNext(c) /\ UNCHANGED clientVars
    \/ \E c \in Conns : Break(c)
    \/ Over

Spec == Init /\ [][Next]_vars

\* Threads are scheduled, the server works; a connection need not break.
FairSpec ==
    /\ Spec
    /\ ClientFairness
    /\ \A c \in Conns : WF_vars(PeerNext(c) /\ UNCHANGED clientVars)

-----------------------------------------------------------------------------
(***************************************************************************)
(* Properties                                                              *)
(***************************************************************************)
\* Every variable keeps its type.
TypeOK == NetTypeOK /\ ClientTypeOK /\ PeerTypeOK

(***************************************************************************)
(* No caller waits for a promise that nobody will ever satisfy: a future   *)
(* that is waited on has its entry in pending_, of a connection that is    *)
(* open, where either "END" or close_with_error() will find it.  It needs  *)
(* closed_ to be tested in the critical section that adds the entry.       *)
(***************************************************************************)
NoFutureOrphaned ==
    \A c \in Conns, i \in Ids :
        promise[c][i].state = "waiting" => i \in pending[c] /\ ~closed[c]

(***************************************************************************)
(* No promise is satisfied twice, which would throw in the I/O thread and  *)
(* end the process: when "END" is about to set the value the promise is    *)
(* still open, although the entry stays in pending_ until a later critical *)
(* section, and close_with_error() finds only open promises there.         *)
(***************************************************************************)
NoPromiseSetTwice ==
    /\ At("set") => ~Satisfied(promise[ioConn][packet.id])
    /\ At("lost") \/ At("failed") =>
          \A i \in pending[ioConn] : ~Satisfied(promise[ioConn][i])

(***************************************************************************)
(* What the I/O thread looks up is there: pending_.at() finds "the request *)
(* waiting for reply id" of every frame, and pop_outgoing() the packet     *)
(* that has_outgoing_data() saw before it released the mutex.  The first   *)
(* would throw and end the process, the second is undefined behaviour.     *)
(***************************************************************************)
LookupsSucceed ==
    /\ At("get") => packet.id \in pending[ioConn]
    /\ At("pop") => outgoing[ioConn] # <<>>

(***************************************************************************)
(* A future that gets a value gets the reply to its own request: the echo  *)
(* of its text, then "END", and no frame of any other reply.               *)
(***************************************************************************)
ReplyIsEchoThenEnd ==
    \A u \in User : \A k \in DOMAIN replies[u] :
        LET p == promise[replies[u][k][1]][replies[u][k][2]]
        IN  p.state = "value" => p.reply = <<Messages[u][k], END>>

\* Where the frames with id i are in a sequence of frames, how many they are,
\* and their payloads in the order of the sequence.
Places(fs, i) == {k \in DOMAIN fs : fs[k].id = i}
Occurs(fs, i) == Cardinality(Places(fs, i))

Payloads(fs, i) ==
    LET nth(n) == CHOOSE k \in Places(fs, i) : Cardinality({j \in Places(fs, i) : j <= k}) = n
    IN  [n \in 1..Occurs(fs, i) |-> fs[nth(n)].payload]

(***************************************************************************)
(* Conservation: while a connection is up, a request that is waited for is *)
(* in exactly one place on its way to the server, or its two reply frames  *)
(* are in order between what the client has collected and what the server  *)
(* still owes.  Nothing is lost, duplicated or attributed to another id,   *)
(* whatever the chunks that recv() returns.                                *)
(***************************************************************************)
RequestAccountedFor ==
    \A u \in User : \A k \in DOMAIN replies[u] :
        LET c    == replies[u][k][1]
            i    == replies[u][k][2]
            here == IF ioConn # c THEN <<>>
                    ELSE IF ioPc \in {"get", "send"} THEN <<packet>> ELSE <<>>
            out  == c2s[c] \o ((IF ioPc = "send" THEN here ELSE <<>>) \o outgoing[c])
            in   == (IF ioPc = "get" THEN here ELSE <<>>) \o (rbuf[c] \o s2c[c])
            got2 == frames[c][i] \o Payloads(in, i) \o owed[c][i]
        IN  proc = "running" /\ ~broken[c] /\ promise[c][i].state = "waiting" =>
                IF Occurs(out, i) > 0
                THEN Occurs(out, i) = 1 /\ got2 = <<>>
                ELSE got2 = <<Messages[u][k], END>>

-----------------------------------------------------------------------------
(***************************************************************************)
(* The client implements RequestReply.  The text of request i of           *)
(* connection c is known to the thread that holds its future.              *)
(***************************************************************************)
TextOf(c, i) ==
    CHOOSE text \in Text :
        \E u \in User : \E k \in DOMAIN replies[u] :
            replies[u][k] = <<c, i>> /\ text = Messages[u][k]

AskedTexts == [c \in Conns |-> [i \in 1..(nextId[c] - 1) |-> TextOf(c, i)]]
Outcomes   == [c \in Conns |-> [i \in 1..(nextId[c] - 1) |-> promise[c][i]]]
Accepting  == [c \in Conns |-> ~closed[c]]

Abstract == INSTANCE RequestReply WITH
    Conn    <- Conns,
    Request <- Text,
    End     <- END,
    asked   <- AskedTexts,
    outcome <- Outcomes,
    open    <- Accepting

\* Each future is decided once, by its own reply or by the one close of its
\* connection that fails all undecided futures together.
ImplementsRequestReply == Abstract!Spec

(***************************************************************************)
(* "every waiting future gets an exception instead of hanging forever":    *)
(* whatever breaks, a promise that is waited for is eventually satisfied,  *)
(* unless the process itself is gone.                                      *)
(***************************************************************************)
WaitersAreReleased ==
    \A c \in Conns, i \in Ids :
        promise[c][i].state = "waiting" ~>
            (promise[c][i].state # "waiting" \/ proc = "aborted")

=============================================================================
