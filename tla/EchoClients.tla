----------------------------- MODULE EchoClients -----------------------------
(***************************************************************************)
(* Any number of clients as a server meets them: each opens its connection *)
(* when it likes, sends request frames with ids 1, 2, ..., reads reply     *)
(* frames when it likes, and may be gone at any moment.  It stands for     *)
(* promise_client processes, and keeps the history the properties of the   *)
(* servers speak about.                                                    *)
(***************************************************************************)
EXTENDS Transport

CONSTANTS
    Deaf,       \* clients that never read a reply
    Mortal      \* clients whose connection may break

ASSUME ClientsAssumption == Deaf \subseteq Conns /\ Mortal \subseteq Conns

VARIABLES
    linked,     \* linked[c]: client c has called connect()
    asked,      \* asked[c]: the texts it has sent
    seen        \* seen[c]: the reply frames it has read

clientsVars == <<linked, asked, seen>>

ClientsInit ==
    /\ linked = [c \in Conns |-> FALSE]
    /\ asked = [c \in Conns |-> <<>>]
    /\ seen = [c \in Conns |-> <<>>]

\* connect(): the connection enters the listener's backlog (the server's
\* variable, so the composing module adds it there).
Connect(c) ==
    /\ ~linked[c]
    /\ linked' = [linked EXCEPT ![c] = TRUE]
    /\ UNCHANGED <<asked, seen, netVars>>

Ask(c) ==
    /\ linked[c] /\ ~broken[c]
    /\ Len(asked[c]) < MaxId
    /\ Len(c2s[c]) < SendCap
    /\ \E text \in Text \ {END} :
          /\ asked' = [asked EXCEPT ![c] = Append(@, text)]
          /\ c2s' = [c2s EXCEPT ![c] =
                        Append(@, [id |-> Len(asked[c]) + 1, payload |-> text])]
    /\ UNCHANGED <<linked, seen, s2c, broken>>

ReadReply(c) ==
    /\ c \notin Deaf
    /\ s2c[c] # <<>>
    /\ seen' = [seen EXCEPT ![c] = Append(@, Head(s2c[c]))]
    /\ s2c' = [s2c EXCEPT ![c] = Tail(@)]
    /\ UNCHANGED <<linked, asked, c2s, broken>>

Vanish(c) ==
    /\ linked[c] /\ c \in Mortal
    /\ BreakConnection(c)
    /\ UNCHANGED clientsVars

-----------------------------------------------------------------------------
\* The reply frames of a connection, in order: each request's echo, then END.
Expected(texts) ==
    [k \in 1..(2 * Len(texts)) |->
        [id      |-> (k + 1) \div 2,
         payload |-> IF k % 2 = 1 THEN texts[(k + 1) \div 2] ELSE END]]

IsPrefixOf(s, t) == Len(s) <= Len(t) /\ s = Keep(t, Len(s))

(***************************************************************************)
(* What a client reads is a first part of the replies to what it asked, in *)
(* the order it asked, two frames each, none twice, none of another        *)
(* client's.                                                               *)
(***************************************************************************)
RepliesInRequestOrder ==
    \A c \in Conns : IsPrefixOf(seen[c] \o s2c[c], Expected(asked[c]))

\* Every request of a client that reads and stays is answered completely.
EveryRequestAnswered ==
    \A c \in Conns \ Deaf : \A n \in 1..MaxId :
        Len(asked[c]) >= n ~> Len(seen[c]) >= 2 * n \/ broken[c]
=============================================================================
