------------------------- MODULE PromiseSystemProofs -------------------------
(***************************************************************************)
(* Proofs about PromiseSystem, for every number of connections and user    *)
(* threads, every list of messages and every buffer size.                  *)
(***************************************************************************)
EXTENDS PromiseSystem, StreamsProofs, FiniteSetTheorems

-----------------------------------------------------------------------------
(***************************************************************************)
(* Typing.  TypeOK alone is not inductive: pop_outgoing() yields a packet  *)
(* only if the queue that has_outgoing_data() saw is still not empty.      *)
(***************************************************************************)
PopFinds == ioPc = "pop" => outgoing[ioConn] # <<>>

\* A thread holds at most one future for each of its messages.
SentBound == \A u \in User : Len(replies[u]) <= Len(Messages[u])

TypeInv == TypeOK /\ PopFinds /\ SentBound

USE TransportAssumption, ClientAssumption, BreakAssumption

\* The constructed connections and threads have their types.
LEMMA TypeInit == Init => TypeInv
  <1> SUFFICES ASSUME Init PROVE TypeInv
    OBVIOUS
  <1> USE DEF Init, ClientInit, NetInit, PeerInit
  <1>1. 1 \in Conns /\ 1 \in Ids /\ 1 \in 1..(MaxId + 1)
    BY DEF Conns, Ids
  <1>2. NetTypeOK
    BY DEF NetTypeOK
  <1>3. PeerTypeOK
    BY DEF PeerTypeOK
  <1>4. /\ packet \in Frame
        /\ promise \in [Conns -> [Ids -> Promise]]
    BY <1>1 DEF Frame, Promise, Unused
  <1>5. /\ closed \in [Conns -> BOOLEAN] /\ frag \in [Conns -> BOOLEAN]
        /\ nextId \in [Conns -> 1..(MaxId + 1)]
        /\ pending \in [Conns -> SUBSET Ids]
    BY <1>1
  <1>6. /\ outgoing \in [Conns -> Seq(Frame)] /\ rbuf \in [Conns -> Seq(Frame)]
        /\ frames \in [Conns -> [Ids -> Seq(Text)]]
        /\ replies \in [User -> Seq(Conns \X Ids)]
    BY EmptySeq
  <1>7. got \in [User -> Nat] /\ ioPc \in IoLabels /\ ioConn \in Conns
        /\ stop \in BOOLEAN /\ proc \in {"running", "exited", "aborted"}
    BY <1>1 DEF IoLabels
  <1>8. ClientTypeOK
    BY <1>4, <1>5, <1>6, <1>7 DEF ClientTypeOK
  <1>9. SentBound
    BY EmptySeq, LenProperties DEF SentBound
  <1> QED  BY <1>2, <1>3, <1>8, <1>9 DEF TypeInv, TypeOK, PopFinds

\* The for loop moves to a connection of the set or back to the test.
LEMMA NextConnectionType ==
    ASSUME ioConn \in Conns, NextConnection
    PROVE  ioConn' \in Conns /\ ioPc' \in {"incoming", "done"}
  BY DEF NextConnection, Conns

\* close_with_error() keeps the types.
LEMMA CloseType ==
    ASSUME ClientTypeOK, NEW c \in Conns, CloseWithError(c)
    PROVE  /\ closed' \in [Conns -> BOOLEAN]
           /\ nextId' \in [Conns -> 1..(MaxId + 1)]
           /\ outgoing' \in [Conns -> Seq(Frame)]
           /\ pending' \in [Conns -> SUBSET Ids]
           /\ frames' \in [Conns -> [Ids -> Seq(Text)]]
           /\ promise' \in [Conns -> [Ids -> Promise]]
           /\ proc' \in {"running", "exited", "aborted"}
  <1> USE DEF ClientTypeOK, CloseWithError
  <1>1. [i \in Ids |-> IF i \in pending[c] THEN Failed ELSE promise[c][i]]
            \in [Ids -> Promise]
    BY DEF Promise, Failed
  <1>2. promise' \in [Conns -> [Ids -> Promise]]
    BY <1>1
  <1> QED  BY <1>2

\* Every step of the client, the network and the peer keeps the types.
LEMMA TypeStep == TypeInv /\ [Next]_vars => TypeInv'
  <1> SUFFICES ASSUME TypeInv, [Next]_vars PROVE TypeInv'
    OBVIOUS
  <1> USE DEF TypeInv, TypeOK, PopFinds, SentBound, NetTypeOK, ClientTypeOK, PeerTypeOK,
              connVars, bufVars, ioVars, userVars, netVars, clientVars,
              At, Goto
  <1>1. ASSUME NEW u \in User, NEW c \in Conns, SendRequest(u, c), UNCHANGED owed
        PROVE  TypeInv'
    <2> DEFINE id   == nextId[c]
               text == Messages[u][Len(replies[u]) + 1]
               req  == [id |-> id, payload |-> text]
    <2>1. /\ nextId[c] <= MaxId
          /\ nextId' = [nextId EXCEPT ![c] = id + 1]
          /\ outgoing' = [outgoing EXCEPT ![c] = Append(@, req)]
          /\ pending' = [pending EXCEPT ![c] = @ \cup {id}]
          /\ frames' = [frames EXCEPT ![c][id] = <<>>]
          /\ promise' = [promise EXCEPT ![c][id] = Waiting]
          /\ replies' = [replies EXCEPT ![u] = Append(@, <<c, id>>)]
          /\ Len(replies[u]) # Len(Messages[u])
          /\ UNCHANGED <<closed, bufVars, ioVars, got, stop, proc, netVars, owed>>
      BY <1>1 DEF SendRequest, AllSent
    <2>2. id \in 1..(MaxId + 1) /\ id <= MaxId /\ MaxId \in Nat
      BY <2>1
    <2>3. id \in Ids /\ id + 1 \in 1..(MaxId + 1)
      <3> HIDE DEF id, TypeInv
      <3> QED  BY <2>2 DEF Ids
    <2>4. text \in Text /\ Len(replies[u]) + 1 <= Len(Messages[u])
      <3>1. /\ Len(replies[u]) \in Nat /\ Len(Messages[u]) \in Nat
            /\ Len(replies[u]) <= Len(Messages[u])
            /\ Messages[u] \in Seq(Text)
        BY LenProperties
      <3>2. Len(replies[u]) + 1 \in 1..Len(Messages[u])
        BY <3>1, <2>1
      <3> QED  BY <3>1, <3>2, ElementOfSeq
    <2>5. req \in Frame
      BY <2>3, <2>4 DEF Frame
    <2>6. outgoing' \in [Conns -> Seq(Frame)] /\ outgoing'[c] # <<>>
      <3>1. /\ Append(outgoing[c], req) \in Seq(Frame)
            /\ Len(Append(outgoing[c], req)) = Len(outgoing[c]) + 1
            /\ Len(outgoing[c]) \in Nat
        BY <2>5, AppendProperties, LenProperties
      <3>2. Append(outgoing[c], req) # <<>>
        <4>1. outgoing[c] \in Seq(Frame)
          OBVIOUS
        <4>2. \A e \in Frame : Append(outgoing[c], e) # <<>>
          BY <4>1, AppendNotEmpty, Zenon
        <4> QED  BY <2>5, <4>2
      <3> QED  BY <2>1, <3>1, <3>2
    <2>7. nextId' \in [Conns -> 1..(MaxId + 1)] /\ pending' \in [Conns -> SUBSET Ids]
      BY <2>1, <2>3
    <2>8. frames' \in [Conns -> [Ids -> Seq(Text)]]
      <3>1. [frames[c] EXCEPT ![id] = <<>>] \in [Ids -> Seq(Text)]
        BY <2>3, EmptySeq
      <3> QED  BY <2>1, <3>1
    <2>9. promise' \in [Conns -> [Ids -> Promise]]
      <3>1. Waiting \in Promise
        BY EmptySeq DEF Waiting, Promise
      <3>2. promise' = [promise EXCEPT ![c][id] = Waiting]
        BY <2>1
      <3> HIDE DEF id
      <3> QED  BY <2>3, <3>1, <3>2
    <2>10. replies' \in [User -> Seq(Conns \X Ids)] /\ SentBound'
      <3>1. <<c, id>> \in Conns \X Ids
        BY <2>3
      <3>2. /\ Append(replies[u], <<c, id>>) \in Seq(Conns \X Ids)
            /\ Len(Append(replies[u], <<c, id>>)) = Len(replies[u]) + 1
        BY <3>1, AppendProperties
      <3> QED  BY <2>1, <2>4, <3>2
    <2>11. PopFinds'
      BY <2>1, <2>6
    <2> QED  BY <2>1, <2>6, <2>7, <2>8, <2>9, <2>10, <2>11
  <1>2. ASSUME NEW u \in User, NEW c \in Conns,
               SendRequestThrows(u, c), UNCHANGED owed
        PROVE  TypeInv'
    BY <1>2 DEF SendRequestThrows
  <1>3. ASSUME NEW u \in User, GetReply(u), UNCHANGED owed
        PROVE  TypeInv'
    <2>1. got' = [got EXCEPT ![u] = @ + 1]
      BY <1>3 DEF GetReply
    <2>2. got' \in [User -> Nat]
      BY <2>1
    <2> QED  BY <1>3, <2>2 DEF GetReply
  <1>4. CASE (RequestStop \/ JoinAndExit) /\ UNCHANGED owed
    BY <1>4 DEF RequestStop, JoinAndExit
  <1>5. CASE IoDone /\ UNCHANGED owed
    BY <1>5 DEF IoDone, IoLabels
  <1>6. CASE IoFrameReady /\ UNCHANGED owed
    <2>1. Head(rbuf[ioConn]) \in Frame /\ Tail(rbuf[ioConn]) \in Seq(Frame)
      BY <1>6, HeadTailProperties DEF IoFrameReady
    <2>2. packet' \in Frame /\ rbuf' \in [Conns -> Seq(Frame)]
      BY <1>6, <2>1 DEF IoFrameReady
    <2> QED  BY <1>6, <2>2 DEF IoFrameReady, IoLabels
  <1>7. CASE IoNothingToRead /\ UNCHANGED owed
    BY <1>7 DEF IoNothingToRead, IoLabels
  <1>8. CASE IoReceive /\ UNCHANGED owed
    <2>1. PICK taken \in 0..Len(s2c[ioConn]), part \in BOOLEAN :
             /\ s2c' = [s2c EXCEPT ![ioConn] = Drop(@, taken)]
             /\ frag' = [frag EXCEPT ![ioConn] = part]
             /\ IF taken > 0
                THEN /\ packet' = Head(s2c[ioConn])
                     /\ rbuf' = [rbuf EXCEPT
                                    ![ioConn] = Tail(Keep(s2c[ioConn], taken))]
                     /\ Goto("get")
                ELSE /\ Goto("outgoing")
                     /\ UNCHANGED <<packet, rbuf>>
      BY <1>8 DEF IoReceive
    <2>2. /\ Keep(s2c[ioConn], taken) \in Seq(Frame)
          /\ Drop(s2c[ioConn], taken) \in Seq(Frame)
          /\ Len(Keep(s2c[ioConn], taken)) = taken
      BY KeepDropType
    <2>3. s2c' \in [Conns -> Seq(Frame)] /\ frag' \in [Conns -> BOOLEAN]
      BY <2>1, <2>2
    <2>4. packet' \in Frame /\ rbuf' \in [Conns -> Seq(Frame)]
          /\ ioPc' \in {"get", "outgoing"} /\ ioConn' = ioConn
      <3>1. CASE taken > 0
        <4>1. s2c[ioConn] # <<>> /\ Keep(s2c[ioConn], taken) # <<>>
          BY <3>1, <2>2
        <4>2. /\ Head(s2c[ioConn]) \in Frame
              /\ Tail(Keep(s2c[ioConn], taken)) \in Seq(Frame)
          BY <4>1, <2>2, HeadTailProperties
        <4> QED  BY <2>1, <3>1, <4>2
      <3>2. CASE ~(taken > 0)
        BY <2>1, <3>2
      <3> QED  BY <3>1, <3>2
    <2>5. UNCHANGED <<connVars, userVars, stop, proc, c2s, broken, owed>>
      BY <1>8 DEF IoReceive
    <2> QED  BY <2>3, <2>4, <2>5 DEF IoLabels
  <1>9. CASE IoConnectionLost /\ UNCHANGED owed
    BY <1>9 DEF IoConnectionLost, IoLabels
  <1>10. CASE IoCloseLost /\ UNCHANGED owed
    <2>1. CloseWithError(ioConn)
      BY <1>10 DEF IoCloseLost
    <2>2. UNCHANGED <<bufVars, packet, userVars, stop, netVars, owed, ioConn>>
          /\ ioPc' = "outgoing"
      BY <1>10 DEF IoCloseLost
    <2> QED  BY <2>1, <2>2, CloseType DEF IoLabels
  <1>11. CASE IoCloseFailed /\ UNCHANGED owed
    <2>1. CloseWithError(ioConn)
      BY <1>11 DEF IoCloseFailed
    <2>2. UNCHANGED <<bufVars, packet, userVars, stop, netVars, owed>>
          /\ ioConn' \in Conns /\ ioPc' \in {"incoming", "done"}
      BY <1>11, NextConnectionType DEF IoCloseFailed
    <2> QED  BY <2>1, <2>2, CloseType DEF IoLabels
  <1>12. CASE IoGetRequest /\ UNCHANGED owed
    <2>1. packet.id \in Ids /\ packet.payload \in Text
      BY DEF Frame
    <2>2. Append(frames[ioConn][packet.id], packet.payload) \in Seq(Text)
      BY <2>1
    <2>3. frames' \in [Conns -> [Ids -> Seq(Text)]]
      BY <1>12, <2>1, <2>2 DEF IoGetRequest
    <2>4. ioPc' \in {"set", "outgoing"} /\ ioConn' = ioConn
      BY <1>12 DEF IoGetRequest
    <2> QED  BY <1>12, <2>3, <2>4 DEF IoGetRequest, IoLabels
  <1>13. CASE IoSetValue /\ UNCHANGED owed
    <2>1. packet.id \in Ids
      BY DEF Frame
    <2>2. frames' \in [Conns -> [Ids -> Seq(Text)]]
      BY <1>13, <2>1 DEF IoSetValue
    <2>3. Value(frames[ioConn][packet.id]) \in Promise
      BY <2>1 DEF Value, Promise
    <2>4. promise' \in [Conns -> [Ids -> Promise]]
      BY <1>13, <2>1, <2>3 DEF IoSetValue
    <2> QED  BY <1>13, <2>2, <2>4 DEF IoSetValue, IoLabels
  <1>14. CASE IoRemoveRequest /\ UNCHANGED owed
    BY <1>14 DEF IoRemoveRequest, IoLabels
  <1>15. CASE IoHasOutgoing /\ UNCHANGED owed
    <2>1. /\ ioConn' \in Conns
          /\ \/ ioPc' \in {"incoming", "done"}
             \/ ioPc' = "pop" /\ ioConn' = ioConn /\ outgoing[ioConn] # <<>>
      BY <1>15, NextConnectionType DEF IoHasOutgoing
    <2> QED  BY <1>15, <2>1 DEF IoHasOutgoing, IoLabels
  <1>16. CASE IoPopOutgoing /\ UNCHANGED owed
    <2>1. /\ Head(outgoing[ioConn]) \in Frame
          /\ Tail(outgoing[ioConn]) \in Seq(Frame)
      BY <1>16, HeadTailProperties DEF IoPopOutgoing
    <2>2. packet' \in Frame /\ outgoing' \in [Conns -> Seq(Frame)]
      BY <1>16, <2>1 DEF IoPopOutgoing
    <2> QED  BY <1>16, <2>2 DEF IoPopOutgoing, IoLabels
  <1>17. CASE IoSend /\ UNCHANGED owed
    <2>1. c2s' \in [Conns -> Seq(Frame)]
      BY <1>17 DEF IoSend
    <2>2. ioConn' \in Conns /\ ioPc' \in {"incoming", "done"}
      BY <1>17, NextConnectionType DEF IoSend
    <2> QED  BY <1>17, <2>1, <2>2 DEF IoSend, IoLabels
  <1>18. CASE IoSendIntoVoid /\ UNCHANGED owed
    <2>1. ioConn' \in Conns /\ ioPc' \in {"incoming", "done"}
      BY <1>18, NextConnectionType DEF IoSendIntoVoid
    <2> QED  BY <1>18, <2>1 DEF IoSendIntoVoid, IoLabels
  <1>19. CASE (IoSendFails \/ IoSendKilled) /\ UNCHANGED owed
    BY <1>19 DEF IoSendFails, IoSendKilled, IoLabels
  <1>20. ASSUME NEW c \in Conns, PeerTake(c), UNCHANGED clientVars
         PROVE  TypeInv'
    <2>1. /\ Head(c2s[c]) \in Frame
          /\ Tail(c2s[c]) \in Seq(Frame)
      BY <1>20, HeadTailProperties DEF PeerTake
    <2>2. Head(c2s[c]).id \in Ids /\ Head(c2s[c]).payload \in Text
      BY <2>1 DEF Frame
    <2>3. <<Head(c2s[c]).payload, END>> \in Seq(Text)
      BY <2>2
    <2>4. owed[c][Head(c2s[c]).id] \o <<Head(c2s[c]).payload, END>> \in Seq(Text)
      BY SMTT(30), <2>2, <2>3, ConcatProperties
    <2>5. owed' \in [Conns -> [Ids -> Seq(Text)]]
      BY <1>20, <2>2, <2>4 DEF PeerTake
    <2>6. c2s' \in [Conns -> Seq(Frame)]
      BY <1>20, <2>1 DEF PeerTake
    <2> QED  BY <1>20, <2>5, <2>6 DEF PeerTake
  <1>21. ASSUME NEW c \in Conns, NEW i \in Ids,
                PeerReply(c, i) \/ PeerDrop(c, i), UNCHANGED clientVars
         PROVE  TypeInv'
    <2>1. owed[c][i] \in Seq(Text) /\ owed[c][i] # <<>>
      BY <1>21 DEF PeerReply, PeerDrop
    <2>2. Head(owed[c][i]) \in Text /\ Tail(owed[c][i]) \in Seq(Text)
      BY <2>1, HeadTailProperties
    <2>3. owed' \in [Conns -> [Ids -> Seq(Text)]]
      <3>1. owed' = [owed EXCEPT ![c][i] = Tail(@)]
        BY <1>21 DEF PeerReply, PeerDrop
      <3> QED  BY <2>2, <3>1
    <2>4. [id |-> i, payload |-> Head(owed[c][i])] \in Frame
      BY <2>2 DEF Frame
    <2>5. s2c' \in [Conns -> Seq(Frame)]
      <3>1. \/ s2c' = [s2c EXCEPT ![c] =
                         Append(@, [id |-> i, payload |-> Head(owed[c][i])])]
            \/ s2c' = s2c
        BY <1>21 DEF PeerReply, PeerDrop
      <3>2. Append(s2c[c], [id |-> i, payload |-> Head(owed[c][i])]) \in Seq(Frame)
        BY <2>4, AppendProperties
      <3> QED  BY <3>1, <3>2
    <2> QED  BY <1>21, <2>3, <2>5 DEF PeerReply, PeerDrop
  <1>22. ASSUME NEW c \in Conns, Break(c)
         PROVE  TypeInv'
    <2> USE DEF Break, BreakConnection
    <2>1. c2s' \in [Conns -> Seq(Frame)]
      <3>1. PICK n \in 0..Len(c2s[c]) : c2s' = [c2s EXCEPT ![c] = Keep(c2s[c], n)]
        BY <1>22
      <3> QED  BY <3>1, KeepDropType
    <2>2. s2c' \in [Conns -> Seq(Frame)]
      <3>1. PICK n \in 0..Len(s2c[c]) : s2c' = [s2c EXCEPT ![c] = Keep(s2c[c], n)]
        BY <1>22
      <3> QED  BY <3>1, KeepDropType
    <2>3. broken' \in [Conns -> BOOLEAN] /\ UNCHANGED <<clientVars, owed>>
      BY <1>22
    <2> QED  BY <2>1, <2>2, <2>3
  <1>23. CASE Over \/ UNCHANGED vars
    BY <1>23 DEF Over, vars
  <1> QED
    BY <1>1, <1>2, <1>3, <1>4, <1>5, <1>6, <1>7, <1>8, <1>9, <1>10, <1>11,
       <1>12, <1>13, <1>14, <1>15, <1>16, <1>17, <1>18, <1>19, <1>20, <1>21,
       <1>22, <1>23
    DEF Next, ClientNext, IoNext, MainNext, UserNext, PeerNext

\* Every variable of the client, the network and the peer keeps its type.
THEOREM TypeCorrect == Spec => []TypeOK
  <1>1. Spec => []TypeInv
    BY TypeInit, TypeStep, PTL DEF Spec
  <1> QED  BY <1>1, PTL DEF TypeInv

-----------------------------------------------------------------------------
(***************************************************************************)
(* Promises.  NoFutureOrphaned is not inductive: that close_with_error()   *)
(* leaves no waiter behind rests on pending_ holding exactly the promises  *)
(* that are waited for, except while the I/O thread is between set_value() *)
(* and remove_request(), and on new ids being fresh.                       *)
(***************************************************************************)
WaitingIsPending ==
    \A c \in Conns : \A i \in Ids :
        promise[c][i].state = "waiting" => i \in pending[c]

ClosedIsEmpty == \A c \in Conns : closed[c] => pending[c] = {}

PendingIsOld == \A c \in Conns : \A i \in pending[c] : i < nextId[c]

\* The entry the I/O thread has satisfied and not yet removed.
BeingRemoved(c, i) == ioPc = "remove" /\ ioConn = c /\ packet.id = i

PendingIsWaiting ==
    \A c \in Conns : \A i \in pending[c] :
        promise[c][i].state = "waiting" \/ BeingRemoved(c, i)

SettingIsPending ==
    proc = "running" /\ ioPc \in {"set", "remove"} => packet.id \in pending[ioConn]

RemovingIsSatisfied ==
    ioPc = "remove" => promise[ioConn][packet.id].state # "waiting"

PromiseInv ==
    /\ WaitingIsPending /\ ClosedIsEmpty /\ PendingIsOld
    /\ PendingIsWaiting /\ SettingIsPending /\ RemovingIsSatisfied

\* At the start no promise exists and nothing is pending.
LEMMA PromiseInit == Init => PromiseInv
  BY DEF Init, ClientInit, PromiseInv, WaitingIsPending, ClosedIsEmpty,
         PendingIsOld, PendingIsWaiting, SettingIsPending, RemovingIsSatisfied,
         Unused

\* A close leaves no promise waiting and no entry pending.
LEMMA CloseReleases ==
    ASSUME TypeInv, PromiseInv, NEW c \in Conns, CloseWithError(c)
    PROVE  /\ WaitingIsPending' /\ ClosedIsEmpty' /\ PendingIsOld'
           /\ \A d \in Conns : \A i \in pending'[d] :
                 d # c /\ i \in pending[d] /\ promise'[d] = promise[d]
  <1> USE DEF TypeInv, TypeOK, ClientTypeOK, PromiseInv, CloseWithError
  <1>1. /\ pending' = [pending EXCEPT ![c] = {}]
        /\ closed' = [closed EXCEPT ![c] = TRUE]
        /\ nextId' = nextId
        /\ \A d \in Conns : d # c => promise'[d] = promise[d]
        /\ promise'[c] = [i \in Ids |-> IF i \in pending[c] THEN Failed
                                                           ELSE promise[c][i]]
    OBVIOUS
  <1>2. \A i \in Ids : promise'[c][i].state # "waiting"
    BY <1>1 DEF WaitingIsPending, Failed
  <1>3. WaitingIsPending'
    BY <1>1, <1>2 DEF WaitingIsPending
  <1>4. ClosedIsEmpty' /\ PendingIsOld'
    BY <1>1 DEF ClosedIsEmpty, PendingIsOld
  <1> QED  BY <1>1, <1>3, <1>4

\* Steps of the I/O thread that touch no promise and end elsewhere.
LEMMA PromiseQuiet ==
    ASSUME PromiseInv, UNCHANGED <<closed, nextId, pending, promise>>,
           ioPc # "remove", ioPc' \notin {"set", "remove"}
    PROVE  PromiseInv'
  BY DEF PromiseInv, WaitingIsPending, ClosedIsEmpty, PendingIsOld,
         PendingIsWaiting, SettingIsPending, RemovingIsSatisfied, BeingRemoved

\* Steps of others that touch neither promises nor the I/O thread.
LEMMA PromiseFrozen ==
    ASSUME PromiseInv, UNCHANGED <<closed, nextId, pending, promise>>,
           UNCHANGED <<ioPc, ioConn, packet>>,
           proc' = "running" => proc = "running"
    PROVE  PromiseInv'
  BY DEF PromiseInv, WaitingIsPending, ClosedIsEmpty, PendingIsOld,
         PendingIsWaiting, SettingIsPending, RemovingIsSatisfied, BeingRemoved

\* Every step keeps promises, pending_, closed_ and the place of the I/O
\* thread in agreement.
LEMMA PromiseStep == TypeInv /\ PromiseInv /\ [Next]_vars => PromiseInv'
  <1> SUFFICES ASSUME TypeInv, PromiseInv, [Next]_vars PROVE PromiseInv'
    OBVIOUS
  <1> USE DEF TypeInv, TypeOK, ClientTypeOK, At, Goto
  <1>a. packet.id \in Ids
    BY DEF Frame
  <1>1. ASSUME NEW u \in User, NEW c \in Conns, SendRequest(u, c)
        PROVE  PromiseInv'
    <2> DEFINE id == nextId[c]
    <2>1. /\ proc = "running" /\ ~closed[c] /\ id <= MaxId
          /\ nextId' = [nextId EXCEPT ![c] = id + 1]
          /\ pending' = [pending EXCEPT ![c] = @ \cup {id}]
          /\ promise' = [promise EXCEPT ![c][id] = Waiting]
          /\ UNCHANGED <<closed, ioPc, ioConn, packet, proc>>
      BY <1>1 DEF SendRequest, ioVars
    <2>2. id \in Ids /\ id \notin pending[c]
      BY <2>1 DEF PromiseInv, PendingIsOld, Ids
    <2>3. /\ \A d \in Conns : \A i \in Ids :
                d # c \/ i # id => promise'[d][i] = promise[d][i]
          /\ promise'[c][id].state = "waiting"
          /\ \A d \in Conns : d # c => pending'[d] = pending[d] /\ nextId'[d] = nextId[d]
          /\ pending'[c] = pending[c] \cup {id}
          /\ nextId'[c] = id + 1
      BY <2>1, <2>2 DEF Waiting
    <2> HIDE DEF TypeInv, id
    <2>4. WaitingIsPending'
      BY <2>3 DEF PromiseInv, WaitingIsPending
    <2>5. ClosedIsEmpty'
      BY <2>1, <2>3 DEF PromiseInv, ClosedIsEmpty
    <2>6. PendingIsOld' /\ PendingIsWaiting'
      <3> SUFFICES ASSUME NEW d \in Conns, NEW i \in pending'[d]
                   PROVE  /\ i < nextId'[d]
                          /\ promise'[d][i].state = "waiting" \/ BeingRemoved(d, i)'
        BY DEF PendingIsOld, PendingIsWaiting
      <3>1. CASE i \in pending[d]
        <4>0. pending[d] \subseteq Ids /\ nextId[d] \in 1..(MaxId + 1)
          BY DEF TypeInv
        <4>1. /\ i \in Ids /\ i < nextId[d] /\ nextId[d] \in Nat
              /\ promise[d][i].state = "waiting" \/ BeingRemoved(d, i)
          BY <3>1, <4>0 DEF PromiseInv, PendingIsOld, PendingIsWaiting
        <4>2. nextId'[d] = nextId[d] \/ nextId'[d] = nextId[d] + 1
          BY <2>3 DEF id
        <4>3. i < nextId'[d]
          BY <4>1, <4>2 DEF Ids
        <4>4. d # c \/ i # id
          BY <2>2, <3>1
        <4> QED  BY <2>1, <2>3, <4>1, <4>3, <4>4 DEF BeingRemoved
      <3>2. CASE i \notin pending[d]
        <4>1. d = c /\ i = id
          BY <2>3, <3>2
        <4> QED  BY <2>2, <2>3, <4>1 DEF Ids
      <3> QED  BY <3>1, <3>2
    <2>7. SettingIsPending' /\ RemovingIsSatisfied'
      BY <1>a, <2>1, <2>2, <2>3 DEF PromiseInv, SettingIsPending, RemovingIsSatisfied
    <2> QED  BY <2>4, <2>5, <2>6, <2>7 DEF PromiseInv
  <1>2. ASSUME NEW u \in User, NEW c \in Conns, SendRequestThrows(u, c)
        PROVE  PromiseInv'
    BY <1>2, PromiseFrozen DEF SendRequestThrows, connVars, ioVars
  <1>3. ASSUME NEW u \in User, GetReply(u)
        PROVE  PromiseInv'
    BY <1>3, PromiseFrozen DEF GetReply, connVars, ioVars
  <1>4. CASE RequestStop \/ JoinAndExit
    BY <1>4, PromiseFrozen DEF RequestStop, JoinAndExit, connVars, ioVars
  <1>5. CASE IoDone \/ IoFrameReady \/ IoNothingToRead \/ IoConnectionLost
    BY <1>5, PromiseQuiet
    DEF IoDone, IoFrameReady, IoNothingToRead, IoConnectionLost, connVars
  <1>6. CASE IoReceive
    <2>1. ioPc = "incoming" /\ ioPc' \in {"get", "outgoing"}
      BY <1>6 DEF IoReceive
    <2> QED  BY <1>6, <2>1, PromiseQuiet DEF IoReceive, connVars
  <1>7. ASSUME CloseWithError(ioConn), ioPc \in {"lost", "failed"},
               ioPc' \in {"outgoing", "incoming", "done"}
        PROVE  PromiseInv'
    <2>1. /\ WaitingIsPending' /\ ClosedIsEmpty' /\ PendingIsOld'
          /\ \A d \in Conns : \A i \in pending'[d] :
                 i \in pending[d] /\ promise'[d] = promise[d]
      BY <1>7, CloseReleases
    <2>2. PendingIsWaiting'
      BY <1>7, <2>1 DEF PromiseInv, PendingIsWaiting, BeingRemoved
    <2>3. SettingIsPending' /\ RemovingIsSatisfied'
      BY <1>7 DEF SettingIsPending, RemovingIsSatisfied
    <2> QED  BY <2>1, <2>2, <2>3 DEF PromiseInv
  <1>8. CASE IoCloseLost
    BY <1>7, <1>8 DEF IoCloseLost
  <1>9. CASE IoCloseFailed
    BY <1>7, <1>9, NextConnectionType DEF IoCloseFailed
  <1>10. CASE IoGetRequest
    <2>1. /\ UNCHANGED <<closed, nextId, pending, promise, packet, ioConn>>
          /\ ioPc = "get" /\ ioPc' \in {"set", "outgoing"}
          /\ proc' = IF packet.id \in pending[ioConn] THEN proc ELSE "aborted"
      BY <1>10 DEF IoGetRequest
    <2> QED
      BY <2>1 DEF PromiseInv, WaitingIsPending, ClosedIsEmpty, PendingIsOld,
         PendingIsWaiting, SettingIsPending, RemovingIsSatisfied, BeingRemoved
  <1>11. CASE IoSetValue
    <2> DEFINE id == packet.id
    <2>1. /\ UNCHANGED <<closed, nextId, pending, packet, ioConn>>
          /\ ioPc = "set" /\ ioPc' = "remove" /\ proc = "running"
          /\ promise' = [promise EXCEPT ![ioConn][id] =
                           IF Satisfied(@) THEN @ ELSE Value(frames[ioConn][id])]
      BY <1>11 DEF IoSetValue
    <2>2. /\ promise'[ioConn][id].state # "waiting"
          /\ \A d \in Conns : \A i \in Ids :
                d # ioConn \/ i # id => promise'[d][i] = promise[d][i]
      BY <1>a, <2>1 DEF Satisfied, Value
    <2>3. WaitingIsPending' /\ ClosedIsEmpty' /\ PendingIsOld'
      BY <2>1, <2>2 DEF PromiseInv, WaitingIsPending, ClosedIsEmpty, PendingIsOld
    <2>4. PendingIsWaiting'
      BY <2>1, <2>2 DEF PromiseInv, PendingIsWaiting, BeingRemoved
    <2>5. SettingIsPending' /\ RemovingIsSatisfied'
      BY <2>1, <2>2 DEF PromiseInv, SettingIsPending, RemovingIsSatisfied
    <2> QED  BY <2>3, <2>4, <2>5 DEF PromiseInv
  <1>12. CASE IoRemoveRequest
    <2>1. /\ UNCHANGED <<closed, nextId, promise, packet, ioConn>>
          /\ ioPc = "remove" /\ ioPc' = "outgoing"
          /\ pending' = [pending EXCEPT ![ioConn] = @ \ {packet.id}]
      BY <1>12 DEF IoRemoveRequest
    <2>2. WaitingIsPending' /\ ClosedIsEmpty' /\ PendingIsOld'
      BY <2>1 DEF PromiseInv, WaitingIsPending, ClosedIsEmpty, PendingIsOld,
                  RemovingIsSatisfied
    <2>3. PendingIsWaiting'
      BY <2>1 DEF PromiseInv, PendingIsWaiting, BeingRemoved
    <2>4. SettingIsPending' /\ RemovingIsSatisfied'
      BY <2>1 DEF SettingIsPending, RemovingIsSatisfied
    <2> QED  BY <2>2, <2>3, <2>4 DEF PromiseInv
  <1>13. CASE IoHasOutgoing
    <2>1. ioPc = "outgoing" /\ ioPc' \in {"pop", "incoming", "done"}
      BY <1>13, NextConnectionType DEF IoHasOutgoing
    <2> QED  BY <1>13, <2>1, PromiseQuiet DEF IoHasOutgoing, connVars
  <1>14. CASE IoPopOutgoing \/ IoSendFails
    BY <1>14, PromiseQuiet DEF IoPopOutgoing, IoSendFails, connVars
  <1>15. CASE IoSend \/ IoSendIntoVoid
    <2>1. ioPc = "send" /\ ioPc' \in {"incoming", "done"}
      BY <1>15, NextConnectionType DEF IoSend, IoSendIntoVoid
    <2> QED  BY <1>15, <2>1, PromiseQuiet DEF IoSend, IoSendIntoVoid, connVars
  <1>16. CASE IoSendKilled
    BY <1>16, PromiseFrozen DEF IoSendKilled, connVars, ioVars
  <1>17. CASE \E c \in Conns : PeerNext(c) /\ UNCHANGED clientVars
    BY <1>17, PromiseFrozen DEF clientVars, connVars, ioVars
  <1>18. CASE \E c \in Conns : Break(c)
    BY <1>18, PromiseFrozen DEF Break, clientVars, connVars, ioVars
  <1>19. CASE Over \/ UNCHANGED vars
    BY <1>19, PromiseFrozen DEF Over, vars, clientVars, connVars, ioVars
  <1> QED
    BY <1>1, <1>2, <1>3, <1>4, <1>5, <1>6, <1>8, <1>9, <1>10, <1>11, <1>12,
       <1>13, <1>14, <1>15, <1>16, <1>17, <1>18, <1>19
    DEF Next, ClientNext, IoNext, MainNext, UserNext

\* The inductive invariant holds in every reachable state of the system.
LEMMA InvariantHolds == Spec => [](TypeInv /\ PromiseInv)
  BY TypeInit, TypeStep, PromiseInit, PromiseStep, PTL DEF Spec

(***************************************************************************)
(* A future that is waited on always has its entry in pending_ of an open  *)
(* connection, whenever send_request() and close_with_error() interleave.  *)
(***************************************************************************)
THEOREM FuturesNeverOrphaned == Spec => []NoFutureOrphaned
  <1>1. TypeInv /\ PromiseInv => NoFutureOrphaned
    BY DEF PromiseInv, WaitingIsPending, ClosedIsEmpty, NoFutureOrphaned
  <1> QED  BY <1>1, InvariantHolds, PTL

(***************************************************************************)
(* set_value() and set_exception() are only called on open promises, with  *)
(* any number of connections and whatever texts and replies.               *)
(***************************************************************************)
THEOREM PromisesSetOnce == Spec => []NoPromiseSetTwice
  <1>1. TypeInv /\ PromiseInv => NoPromiseSetTwice
    BY DEF TypeInv, TypeOK, ClientTypeOK, PromiseInv, PendingIsWaiting,
           SettingIsPending, BeingRemoved, NoPromiseSetTwice, At, Satisfied
  <1> QED  BY <1>1, InvariantHolds, PTL

-----------------------------------------------------------------------------
(***************************************************************************)
(* Proofs about what promise_client's futures get: the reply to their own  *)
(* request, whatever the other threads, the chunks and the connection do.  *)
(*                                                                         *)
(* The invariant follows the frames of one connection: the requests on     *)
(* their way out, the reply frames on their way in, what the server still  *)
(* owes and what the client has collected.  It is stated over the values   *)
(* of these, so that what a step does to them is a lemma about sequences.  *)
(***************************************************************************)

\* An id occurs in a sequence of frames.
Has(s, i) == \E k \in 1..Len(s) : s[k].id = i

\* Ids rise along a sequence, and from one sequence to the next.
Rising(s)    == \A j, k \in 1..Len(s) : j < k => s[j].id < s[k].id
Before(s, t) == \A j \in 1..Len(s), k \in 1..Len(t) : s[j].id < t[k].id

(***************************************************************************)
(* Requests: q on the connection, p the packet being sent (or nothing), o  *)
(* queued.  A is the set of requests that were asked.                      *)
(***************************************************************************)
OutOK(A, q, p, o) ==
    /\ Rising(q) /\ Rising(o)
    /\ Before(q, p) /\ Before(q, o) /\ Before(p, o)
    /\ \A k \in 1..Len(q) : q[k] \in A
    /\ \A k \in 1..Len(p) : p[k] \in A
    /\ \A k \in 1..Len(o) : o[k] \in A

\* A request is somewhere on its way to the server.
Going(q, p, o, i) == Has(q, i) \/ Has(p, i) \/ Has(o, i)

(***************************************************************************)
(* Reply frames: r on their way in, fr[i] collected for request i, set the *)
(* request whose promise is about to be set (or 0).  A reply has two       *)
(* frames, the text of its request comes before "END", and the frames of   *)
(* a reply are never there twice.                                          *)
(***************************************************************************)
InOrder(r) ==
    \A j, k \in 1..Len(r) : j < k /\ r[j].id = r[k].id =>
        r[j].payload # END /\ r[k].payload = END

InText(A, r, fr) ==
    \A k \in 1..Len(r) : r[k].payload # END => r[k] \in A /\ fr[r[k].id] = <<>>

InEnd(A, r, fr) ==
    \A k \in 1..Len(r) : r[k].payload = END =>
        /\ \E f \in A : f.id = r[k].id
        /\ \/ fr[r[k].id] # <<>>
           \/ \E j \in 1..Len(r) : j < k /\ r[j].id = r[k].id

Collected(A, r, fr, set) ==
    /\ \A i \in Ids : i # set =>
          fr[i] = <<>> \/ \E f \in A : f.id = i /\ fr[i] = <<f.payload>>
    /\ set # 0 => ~Has(r, set) /\ \E f \in A : f.id = set /\ fr[set] = <<f.payload, END>>

\* What the server owes for request i; frames that it owes on a connection
\* that is gone will not be sent.
OwedOK(A, r, fr, set, ow, gone, i) ==
    \/ ow[i] = <<>>
    \/ \E f \in A : /\ f.id = i /\ ow[i] = <<f.payload, END>>
                    /\ ~gone => ~Has(r, i) /\ fr[i] = <<>>
    \/ /\ ow[i] = <<END>> /\ \E f \in A : f.id = i
       /\ ~gone => /\ i # set
                   /\ \A k \in 1..Len(r) : r[k].id = i => r[k].payload # END
                   /\ fr[i] # <<>> \/ Has(r, i)

InOK(A, r, fr, set, ow, gone) ==
    /\ InOrder(r) /\ InText(A, r, fr) /\ InEnd(A, r, fr) /\ Collected(A, r, fr, set)
    /\ \A i \in Ids : OwedOK(A, r, fr, set, ow, gone, i)

\* The reply to a request is still coming.
Coming(r, fr, ow, gone, i) == Has(r, i) \/ fr[i] # <<>> \/ (ow[i] # <<>> /\ ~gone)

\* What is assumed of the values throughout.
Values(A, r, fr, ow) ==
    /\ A \subseteq Frame /\ r \in Seq(Frame)
    /\ fr \in [Ids -> Seq(Text)] /\ ow \in [Ids -> Seq(Text)]
    /\ \A f \in A : f.payload # END

-----------------------------------------------------------------------------
\* The ids in a sequence, when a frame is appended or taken off the front.
LEMMA HasParts ==
    ASSUME NEW s \in Seq(Frame), NEW e \in Frame, NEW i
    PROVE  /\ Has(Append(s, e), i) <=> Has(s, i) \/ e.id = i
           /\ s # <<>> => (Has(s, i) <=> Head(s).id = i \/ Has(Tail(s), i))
           /\ Has(<<e>>, i) <=> e.id = i
           /\ ~Has(<<>>, i)
           /\ \A n \in 0..Len(s) : Has(Keep(s, n), i) => Has(s, i)
  <1>1. Has(Append(s, e), i) <=> Has(s, i) \/ e.id = i
    <2>1. /\ Len(s) \in Nat /\ Len(Append(s, e)) = Len(s) + 1
          /\ \A k \in 1..Len(s) : Append(s, e)[k] = s[k]
          /\ Append(s, e)[Len(s) + 1] = e
      BY AppendParts
    <2>2. /\ \A k \in 1..Len(s) : k \in 1..(Len(s) + 1)
          /\ Len(s) + 1 \in 1..(Len(s) + 1)
          /\ \A k \in 1..(Len(s) + 1) : k \in 1..Len(s) \/ k = Len(s) + 1
      BY <2>1
    <2> QED  BY <2>1, <2>2 DEF Has
  <1>2. ASSUME s # <<>> PROVE Has(s, i) <=> Head(s).id = i \/ Has(Tail(s), i)
    <2>1. /\ Len(s) \in Nat /\ Len(s) >= 1 /\ Head(s) = s[1] /\ Len(Tail(s)) = Len(s) - 1
          /\ \A k \in 1..(Len(s) - 1) : Tail(s)[k] = s[k + 1]
      BY <1>2, HeadTailParts
    <2>2. /\ \A k \in 1..(Len(s) - 1) : k + 1 \in 1..Len(s)
          /\ 1 \in 1..Len(s)
          /\ \A k \in 1..Len(s) : k = 1 \/ \E j \in 1..(Len(s) - 1) : k = j + 1
      <3>1. ASSUME NEW k \in 1..Len(s), k # 1
            PROVE  \E j \in 1..(Len(s) - 1) : k = j + 1
        <4>1. k - 1 \in 1..(Len(s) - 1) /\ k = (k - 1) + 1
          BY <2>1, <3>1
        <4> QED  BY <4>1
      <3> QED  BY <2>1, <3>1
    <2> QED  BY ZenonT(60), <2>1, <2>2 DEF Has
  <1>3. Has(<<e>>, i) <=> e.id = i
    BY DEF Has
  <1>4. ~Has(<<>>, i)
    BY EmptySeq DEF Has
  <1>5. ASSUME NEW n \in 0..Len(s), Has(Keep(s, n), i) PROVE Has(s, i)
    <2>1. Len(Keep(s, n)) = n /\ \A k \in 1..n : Keep(s, n)[k] = s[k]
      BY KeepDropType
    <2>2. \A k \in 1..n : k \in 1..Len(s)
      BY LenProperties
    <2> QED  BY <1>5, <2>1, <2>2 DEF Has
  <1> QED  BY <1>1, <1>2, <1>3, <1>4, <1>5

-----------------------------------------------------------------------------
(***************************************************************************)
(* Requests on their way.                                                  *)
(***************************************************************************)
\* A new request goes to the end of the queue.
LEMMA OutAsk ==
    ASSUME NEW A, NEW q \in Seq(Frame), NEW p \in Seq(Frame), NEW o \in Seq(Frame),
           OutOK(A, q, p, o), NEW f \in Frame, A \subseteq Frame,
           \A g \in A : g.id < f.id
    PROVE  OutOK(A \cup {f}, q, p, Append(o, f))
  <1> DEFINE x == Append(o, f)
             n == Len(o)
  <1>1. /\ n \in Nat /\ Len(x) = n + 1 /\ x[n + 1] = f
        /\ \A k \in 1..n : x[k] = o[k]
    BY AppendParts
  <1>2. \A k \in 1..(n + 1) : k \in 1..n \/ k = n + 1
    BY <1>1
  <1>3. /\ \A k \in 1..n : o[k] \in A
        /\ \A k \in 1..Len(q) : q[k] \in A
        /\ \A k \in 1..Len(p) : p[k] \in A
    BY DEF OutOK
  <1> HIDE DEF x, n
  <1>4. \A k \in 1..(n + 1) : x[k] \in A \cup {f}
    BY <1>1, <1>2, <1>3
  <1>5. Rising(x)
    <2> SUFFICES ASSUME NEW j \in 1..(n + 1), NEW k \in 1..(n + 1), j < k
                 PROVE  x[j].id < x[k].id
      BY <1>1 DEF Rising
    <2>1. j \in 1..n
      BY <1>1
    <2>2. CASE k \in 1..n
      BY <1>1, <2>1, <2>2 DEF OutOK, Rising, n
    <2>3. CASE k = n + 1
      BY <1>1, <1>3, <2>1, <2>3
    <2> QED  BY <1>2, <2>2, <2>3
  <1>6. Before(q, x) /\ Before(p, x)
    BY <1>1, <1>2, <1>3 DEF OutOK, Before, n
  <1> QED  BY <1>1, <1>3, <1>4, <1>5, <1>6 DEF OutOK, x

\* pop_outgoing() takes the front of the queue.
LEMMA OutPop ==
    ASSUME NEW A, NEW q \in Seq(Frame), NEW o \in Seq(Frame),
           OutOK(A, q, <<>>, o), o # <<>>
    PROVE  OutOK(A, q, <<Head(o)>>, Tail(o))
  <1> DEFINE n == Len(o)
             x == Tail(o)
             h == Head(o)
  <1>1. /\ n \in Nat /\ n >= 1 /\ h = o[1] /\ Len(x) = n - 1
        /\ \A k \in 1..(n - 1) : x[k] = o[k + 1]
    BY HeadTailParts
  <1>2. 1 \in 1..n /\ \A k \in 1..(n - 1) : k + 1 \in 1..n /\ 1 < k + 1
    BY <1>1
  <1>3. Len(<<h>>) = 1 /\ <<h>>[1] = h /\ \A k \in 1..1 : k = 1
    OBVIOUS
  <1>4. \A k \in 1..n : o[k] \in A
    BY DEF OutOK
  <1> HIDE DEF n, x, h
  <1>5. Rising(x)
    <2> SUFFICES ASSUME NEW j \in 1..(n - 1), NEW k \in 1..(n - 1), j < k
                 PROVE  x[j].id < x[k].id
      BY <1>1 DEF Rising
    <2>1. j + 1 < k + 1
      OBVIOUS
    <2> QED  BY <1>1, <1>2, <2>1 DEF OutOK, Rising, n
  <1>6. Before(<<h>>, x)
    BY <1>1, <1>2, <1>3 DEF OutOK, Rising, Before, n
  <1>7. Before(q, <<h>>) /\ Before(q, x)
    BY <1>1, <1>2, <1>3 DEF OutOK, Before, n
  <1>8. \A k \in 1..Len(x) : x[k] \in A
    BY <1>1, <1>2, <1>4
  <1>9. \A k \in 1..Len(<<h>>) : <<h>>[k] \in A
    BY <1>1, <1>2, <1>3, <1>4
  <1> QED  BY <1>5, <1>6, <1>7, <1>8, <1>9 DEF OutOK, x, h

\* send() puts the packet on the connection.
LEMMA OutSend ==
    ASSUME NEW A, NEW q \in Seq(Frame), NEW f \in Frame, NEW o \in Seq(Frame),
           OutOK(A, q, <<f>>, o)
    PROVE  OutOK(A, Append(q, f), <<>>, o)
  <1> DEFINE n == Len(q)
             x == Append(q, f)
  <1>1. /\ n \in Nat /\ Len(x) = n + 1 /\ x[n + 1] = f
        /\ \A k \in 1..n : x[k] = q[k]
    BY AppendParts
  <1>2. \A k \in 1..(n + 1) : k \in 1..n \/ k = n + 1
    BY <1>1
  <1>3. Len(<<f>>) = 1 /\ <<f>>[1] = f /\ 1 \in 1..1 /\ Len(<<>>) = 0
    OBVIOUS
  <1>4. (\A k \in 1..n : q[k] \in A) /\ f \in A
    BY <1>3 DEF OutOK
  <1>5. /\ \A k \in 1..n : q[k].id < f.id
        /\ \A k \in 1..Len(o) : f.id < o[k].id
    BY <1>3 DEF OutOK, Before
  <1> HIDE DEF x, n
  <1>6. Rising(x)
    <2> SUFFICES ASSUME NEW j \in 1..(n + 1), NEW k \in 1..(n + 1), j < k
                 PROVE  x[j].id < x[k].id
      BY <1>1 DEF Rising
    <2>1. j \in 1..n
      BY <1>1
    <2>2. CASE k \in 1..n
      BY <1>1, <2>1, <2>2 DEF OutOK, Rising, n
    <2>3. CASE k = n + 1
      BY <1>1, <1>5, <2>1, <2>3
    <2> QED  BY <1>2, <2>2, <2>3
  <1>7. Before(x, o)
    BY <1>1, <1>2, <1>5 DEF OutOK, Before, n
  <1>8. Before(x, <<>>) /\ Before(<<>>, o)
    BY <1>3 DEF Before
  <1>9. \A k \in 1..Len(x) : x[k] \in A
    BY <1>1, <1>2, <1>4
  <1>10. Rising(o) /\ \A k \in 1..Len(o) : o[k] \in A
    BY DEF OutOK
  <1>11. \A k \in 1..Len(<<>>) : <<>>[k] \in A
    BY <1>3
  <1> QED  BY <1>6, <1>7, <1>8, <1>9, <1>10, <1>11 DEF OutOK, x

\* The packet is lost, the queue is cleared, the connection loses its end.
LEMMA OutLoses ==
    ASSUME NEW A, NEW q \in Seq(Frame), NEW p \in Seq(Frame), NEW o \in Seq(Frame),
           OutOK(A, q, p, o)
    PROVE  /\ OutOK(A, q, <<>>, o) /\ OutOK(A, q, <<>>, <<>>)
           /\ \A n \in 0..Len(q) : OutOK(A, Keep(q, n), p, o)
  <1>1. Len(<<>>) = 0
    OBVIOUS
  <1>2. OutOK(A, q, <<>>, o) /\ OutOK(A, q, <<>>, <<>>)
    BY <1>1 DEF OutOK, Rising, Before
  <1>3. ASSUME NEW n \in 0..Len(q) PROVE OutOK(A, Keep(q, n), p, o)
    <2>1. Len(Keep(q, n)) = n /\ \A k \in 1..n : Keep(q, n)[k] = q[k]
      BY KeepDropType
    <2>2. \A k \in 1..n : k \in 1..Len(q)
      BY LenProperties
    <2>3. PICK x : x = Keep(q, n)
      OBVIOUS
    <2>4. Rising(x)
      BY <2>1, <2>2, <2>3 DEF OutOK, Rising
    <2>5. Before(x, p) /\ Before(x, o)
      BY <2>1, <2>2, <2>3 DEF OutOK, Before
    <2>6. \A k \in 1..Len(x) : x[k] \in A
      BY <2>1, <2>2, <2>3 DEF OutOK
    <2> QED  BY <2>3, <2>4, <2>5, <2>6 DEF OutOK
  <1> QED  BY <1>2, <1>3

\* The server takes a request: it is then on its way no more.
LEMMA OutTaken ==
    ASSUME NEW A, NEW q \in Seq(Frame), NEW p \in Seq(Frame), NEW o \in Seq(Frame),
           OutOK(A, q, p, o), q # <<>>, A \subseteq Frame
    PROVE  /\ OutOK(A, Tail(q), p, o) /\ Head(q) \in A
           /\ ~Going(Tail(q), p, o, Head(q).id)
  <1> DEFINE n == Len(q)
             x == Tail(q)
             h == Head(q)
  <1>1. /\ n \in Nat /\ n >= 1 /\ h = q[1] /\ Len(x) = n - 1
        /\ \A k \in 1..(n - 1) : x[k] = q[k + 1]
    BY HeadTailParts
  <1>2. 1 \in 1..n /\ \A k \in 1..(n - 1) : k + 1 \in 1..n /\ 1 < k + 1
    BY <1>1
  <1>3. /\ \A k \in 1..n : q[k] \in A
        /\ \A k \in 1..Len(p) : p[k] \in A
        /\ \A k \in 1..Len(o) : o[k] \in A
    BY DEF OutOK
  <1>4. \A f \in Frame : f.id \in Nat /\ ~(f.id < f.id)
    BY DEF Frame, Ids
  <1> HIDE DEF n, x, h
  <1>5. Rising(x)
    <2> SUFFICES ASSUME NEW j \in 1..(n - 1), NEW k \in 1..(n - 1), j < k
                 PROVE  x[j].id < x[k].id
      BY <1>1 DEF Rising
    <2>1. j + 1 < k + 1
      OBVIOUS
    <2> QED  BY <1>1, <1>2, <2>1 DEF OutOK, Rising, n
  <1>6. Before(x, p) /\ Before(x, o)
    BY <1>1, <1>2 DEF OutOK, Before, n
  <1>7. h \in A /\ \A k \in 1..Len(x) : x[k] \in A
    BY <1>1, <1>2, <1>3
  <1>8. OutOK(A, x, p, o)
    BY <1>3, <1>5, <1>6, <1>7 DEF OutOK
  <1>9. /\ \A k \in 1..Len(x) : h.id < x[k].id
        /\ \A k \in 1..Len(p) : h.id < p[k].id
        /\ \A k \in 1..Len(o) : h.id < o[k].id
    BY <1>1, <1>2 DEF OutOK, Rising, Before, n
  <1>10. h \in Frame
    BY <1>7
  <1>11. ~Going(x, p, o, h.id)
    BY <1>4, <1>9, <1>10 DEF Going, Has
  <1> QED  BY <1>7, <1>8, <1>11 DEF x, h

-----------------------------------------------------------------------------
(***************************************************************************)
(* Replies on their way.                                                   *)
(***************************************************************************)
\* The two frames a server can owe, and what is left after the first.
LEMMA OwedParts ==
    ASSUME NEW A, NEW r, NEW fr, NEW set, NEW ow, NEW gone, NEW i \in Ids,
           Values(A, r, fr, ow), OwedOK(A, r, fr, set, ow, gone, i), ow[i] # <<>>
    PROVE  /\ \E f \in A : f.id = i
           /\ \/ \E f \in A : /\ f.id = i /\ Head(ow[i]) = f.payload /\ f.payload # END
                              /\ Tail(ow[i]) = <<END>>
                              /\ ~gone => ~Has(r, i) /\ fr[i] = <<>>
              \/ /\ Head(ow[i]) = END /\ Tail(ow[i]) = <<>>
                 /\ ~gone => /\ i # set
                             /\ \A k \in 1..Len(r) : r[k].id = i => r[k].payload # END
                             /\ fr[i] # <<>> \/ Has(r, i)
  <1>1. CASE \E f \in A : /\ f.id = i /\ ow[i] = <<f.payload, END>>
                          /\ ~gone => ~Has(r, i) /\ fr[i] = <<>>
    <2>1. PICK f \in A : /\ f.id = i /\ ow[i] = <<f.payload, END>>
                         /\ ~gone => ~Has(r, i) /\ fr[i] = <<>>
      BY <1>1
    <2>2. Head(ow[i]) = f.payload /\ Tail(ow[i]) = <<END>>
      BY <2>1
    <2> QED  BY <2>1, <2>2 DEF Values
  <1>2. CASE /\ ow[i] = <<END>> /\ \E f \in A : f.id = i
             /\ ~gone => /\ i # set
                         /\ \A k \in 1..Len(r) : r[k].id = i => r[k].payload # END
                         /\ fr[i] # <<>> \/ Has(r, i)
    <2>1. Head(ow[i]) = END /\ Tail(ow[i]) = <<>>
      BY <1>2
    <2> QED  BY <1>2, <2>1
  <1> QED  BY <1>1, <1>2 DEF OwedOK

\* A frame on a connection that is gone is lost.
LEMMA InDropped ==
    ASSUME NEW A, NEW r, NEW fr, NEW set, NEW ow, NEW gone, gone, NEW i \in Ids,
           Values(A, r, fr, ow), InOK(A, r, fr, set, ow, gone), ow[i] # <<>>
    PROVE  InOK(A, r, fr, set, [ow EXCEPT ![i] = Tail(@)], gone)
  <1> DEFINE w == [ow EXCEPT ![i] = Tail(@)]
  <1>1. OwedOK(A, r, fr, set, ow, gone, i)
    BY DEF InOK
  <1>2. (Tail(ow[i]) = <<END>> \/ Tail(ow[i]) = <<>>) /\ \E f \in A : f.id = i
    <2> HIDE DEF w
    <2>1. \/ \E f \in A : f.id = i /\ ow[i] = <<f.payload, END>>
          \/ ow[i] = <<END>> /\ \E f \in A : f.id = i
      BY <1>1 DEF OwedOK
    <2>2. \A t : Tail(<<t, END>>) = <<END>> /\ Tail(<<END>>) = <<>>
      OBVIOUS
    <2> QED  BY <2>1, <2>2
  <1>3. w[i] = Tail(ow[i]) /\ \A j \in Ids : j # i => w[j] = ow[j]
    BY DEF Values
  <1> HIDE DEF w
  <1>4. ASSUME NEW j \in Ids PROVE OwedOK(A, r, fr, set, w, gone, j)
    <2>1. OwedOK(A, r, fr, set, ow, gone, j)
      BY DEF InOK
    <2>2. CASE j # i
      BY <1>3, <2>1, <2>2 DEF OwedOK
    <2>3. CASE j = i
      BY <1>2, <1>3, <2>3 DEF OwedOK
    <2> QED  BY <2>2, <2>3
  <1> QED  BY <1>4 DEF InOK, w

\* The connection breaks: of the frames on it a first part arrives.
LEMMA InBroken ==
    ASSUME NEW A, NEW r, NEW fr, NEW set, NEW ow, NEW gone, NEW late, late,
           Values(A, r, fr, ow), InOK(A, r, fr, set, ow, gone), NEW n \in 0..Len(r)
    PROVE  InOK(A, Keep(r, n), fr, set, ow, late)
  <1>1. r \in Seq(Frame)
    BY DEF Values
  <1>2. PICK x : x = Keep(r, n)
    OBVIOUS
  <1>3. Len(x) = n /\ \A k \in 1..n : x[k] = r[k]
    BY <1>1, <1>2, KeepDropType
  <1>4. n \in Nat /\ Len(r) \in Nat /\ \A k \in 1..n : k \in 1..Len(r)
    BY <1>1, LenProperties
  <1>5. InOrder(x)
    BY <1>3, <1>4 DEF InOK, InOrder
  <1>6. InText(A, x, fr)
    BY <1>3, <1>4 DEF InOK, InText
  <1>7. InEnd(A, x, fr)
    <2> SUFFICES ASSUME NEW k \in 1..n, x[k].payload = END
                 PROVE  /\ \E f \in A : f.id = x[k].id
                        /\ \/ fr[x[k].id] # <<>>
                           \/ \E j \in 1..n : j < k /\ x[j].id = x[k].id
      BY <1>3 DEF InEnd
    <2>1. /\ \E f \in A : f.id = r[k].id
          /\ \/ fr[r[k].id] # <<>>
             \/ \E j \in 1..Len(r) : j < k /\ r[j].id = r[k].id
      BY <1>3, <1>4 DEF InOK, InEnd
    <2>2. \A j \in 1..Len(r) : j < k => j \in 1..n
      BY <1>4
    <2> QED  BY <1>3, <1>4, <2>1, <2>2
  <1>8. \A i : Has(x, i) => Has(r, i)
    BY <1>3, <1>4 DEF Has
  <1>9. Collected(A, x, fr, set)
    BY <1>8 DEF InOK, Collected
  <1>10. ASSUME NEW i \in Ids PROVE OwedOK(A, x, fr, set, ow, late, i)
    <2>1. OwedOK(A, r, fr, set, ow, gone, i)
      BY DEF InOK
    <2> QED  BY <2>1 DEF OwedOK
  <1> QED  BY <1>2, <1>5, <1>6, <1>7, <1>9, <1>10 DEF InOK

\* The server takes a request and owes its reply.
LEMMA InTaken ==
    ASSUME NEW A, NEW r, NEW fr, NEW set, NEW ow, NEW gone, NEW f \in A,
           Values(A, r, fr, ow), InOK(A, r, fr, set, ow, gone),
           ow[f.id] = <<>>, ~Has(r, f.id), fr[f.id] = <<>>
    PROVE  InOK(A, r, fr, set, [ow EXCEPT ![f.id] = @ \o <<f.payload, END>>], gone)
  <1> DEFINE w == [ow EXCEPT ![f.id] = @ \o <<f.payload, END>>]
  <1>1. f.id \in Ids /\ f.payload \in Text
    BY DEF Values, Frame
  <1>2. <<>> \o <<f.payload, END>> = <<f.payload, END>>
    <2>1. <<f.payload, END>> \in Seq(Text)
      BY <1>1
    <2> QED  BY <2>1, ConcatEmptySeq
  <1>3. w[f.id] = <<f.payload, END>> /\ \A j \in Ids : j # f.id => w[j] = ow[j]
    BY <1>1, <1>2 DEF Values
  <1> HIDE DEF w
  <1>4. ASSUME NEW j \in Ids PROVE OwedOK(A, r, fr, set, w, gone, j)
    <2>1. OwedOK(A, r, fr, set, ow, gone, j)
      BY DEF InOK
    <2>2. CASE j # f.id
      BY <1>3, <2>1, <2>2 DEF OwedOK
    <2>3. CASE j = f.id
      BY <1>3, <2>3 DEF OwedOK
    <2> QED  BY <2>2, <2>3
  <1> QED  BY <1>4 DEF InOK, w

\* A request more was asked.
LEMMA InAsked ==
    ASSUME NEW A, NEW B, NEW r, NEW fr, NEW set, NEW ow, NEW gone, A \subseteq B,
           InOK(A, r, fr, set, ow, gone)
    PROVE  InOK(B, r, fr, set, ow, gone)
  <1>1. InText(B, r, fr) /\ InEnd(B, r, fr)
    BY DEF InOK, InText, InEnd
  <1>2. Collected(B, r, fr, set)
    BY DEF InOK, Collected
  <1>3. ASSUME NEW j \in Ids PROVE OwedOK(B, r, fr, set, ow, gone, j)
    <2>1. OwedOK(A, r, fr, set, ow, gone, j)
      BY DEF InOK
    <2> QED  BY <2>1 DEF OwedOK
  <1> QED  BY <1>1, <1>2, <1>3 DEF InOK

\* The server sends a frame of a reply.
LEMMA InSent ==
    ASSUME NEW A, NEW r, NEW fr, NEW set, NEW ow, NEW gone, ~gone, NEW i \in Ids,
           Values(A, r, fr, ow), InOK(A, r, fr, set, ow, gone), ow[i] # <<>>
    PROVE  /\ [id |-> i, payload |-> Head(ow[i])] \in Frame
           /\ InOK(A, Append(r, [id |-> i, payload |-> Head(ow[i])]), fr, set,
                   [ow EXCEPT ![i] = Tail(@)], gone)
  <1> DEFINE w == [ow EXCEPT ![i] = Tail(@)]
             e == [id |-> i, payload |-> Head(ow[i])]
             x == Append(r, e)
             n == Len(r)
  <1>1. w[i] = Tail(ow[i]) /\ \A j \in Ids : j # i => w[j] = ow[j]
    BY DEF Values
  <1>2. r \in Seq(Frame) /\ ow[i] \in Seq(Text) /\ A \subseteq Frame /\ set = set
    BY DEF Values
  <1>3. e \in Frame /\ e.id = i /\ e.payload = Head(ow[i])
    <2>1. Head(ow[i]) \in Text
      BY <1>2, HeadTailParts
    <2> QED  BY <2>1 DEF Frame
  <1> HIDE DEF w, e
  <1>4. /\ n \in Nat /\ Len(x) = n + 1 /\ x[n + 1] = e
        /\ \A k \in 1..n : x[k] = r[k]
    BY <1>2, <1>3, AppendParts
  <1>5. /\ \A k \in 1..(n + 1) : k \in 1..n \/ k = n + 1
        /\ \A k \in 1..n : k \in 1..(n + 1) /\ k < n + 1
        /\ n + 1 \in 1..(n + 1)
    BY <1>4
  <1>6. \A j : Has(x, j) <=> Has(r, j) \/ i = j
    BY <1>2, <1>3, HasParts
  <1>7. OwedOK(A, r, fr, set, ow, gone, i)
    BY DEF InOK
  <1>8. /\ \E f \in A : f.id = i
        /\ \/ \E f \in A : /\ f.id = i /\ e.payload = f.payload /\ f.payload # END
                           /\ w[i] = <<END>> /\ ~Has(r, i) /\ fr[i] = <<>>
           \/ /\ e.payload = END /\ w[i] = <<>> /\ i # set
              /\ \A k \in 1..n : r[k].id = i => r[k].payload # END
              /\ fr[i] # <<>> \/ Has(r, i)
    <2>1. /\ \E f \in A : f.id = i
          /\ \/ \E f \in A : /\ f.id = i /\ Head(ow[i]) = f.payload /\ f.payload # END
                             /\ Tail(ow[i]) = <<END>>
                             /\ ~gone => ~Has(r, i) /\ fr[i] = <<>>
             \/ /\ Head(ow[i]) = END /\ Tail(ow[i]) = <<>>
                /\ ~gone => /\ i # set
                            /\ \A k \in 1..Len(r) : r[k].id = i => r[k].payload # END
                            /\ fr[i] # <<>> \/ Has(r, i)
      BY <1>7, OwedParts
    <2> QED  BY <1>1, <1>3, <2>1
  <1> HIDE DEF x
  <1>9. InOrder(x)
    <2> SUFFICES ASSUME NEW j \in 1..(n + 1), NEW k \in 1..(n + 1),
                        j < k, x[j].id = x[k].id
                 PROVE  x[j].payload # END /\ x[k].payload = END
      BY <1>4 DEF InOrder
    <2>1. j \in 1..n
      BY <1>4
    <2>2. CASE k \in 1..n
      BY <1>4, <2>1, <2>2 DEF InOK, InOrder
    <2>3. CASE k = n + 1
      <3>1. x[j] = r[j] /\ r[j].id = i /\ x[k] = e
        BY <1>3, <1>4, <2>1, <2>3
      <3>2. Has(r, i)
        BY <2>1, <3>1 DEF Has
      <3> QED  BY <1>8, <2>1, <3>1, <3>2
    <2> QED  BY <1>5, <2>2, <2>3
  <1>10. InText(A, x, fr)
    <2> SUFFICES ASSUME NEW k \in 1..(n + 1), x[k].payload # END
                 PROVE  x[k] \in A /\ fr[x[k].id] = <<>>
      BY <1>4 DEF InText
    <2>1. CASE k \in 1..n
      BY <1>4, <2>1 DEF InOK, InText
    <2>2. CASE k = n + 1
      <3>1. x[k] = e /\ e.payload # END
        BY <1>4, <2>2
      <3>2. PICK f \in A : f.id = i /\ e.payload = f.payload /\ fr[i] = <<>>
        BY <1>8, <3>1
      <3>3. f \in Frame /\ e \in Frame /\ e.id = f.id
        BY <1>2, <1>3, <3>2
      <3>4. f = e
        BY <3>2, <3>3 DEF Frame
      <3> QED  BY <1>3, <3>1, <3>2, <3>4
    <2> QED  BY <1>5, <2>1, <2>2
  <1>11. InEnd(A, x, fr)
    <2> SUFFICES ASSUME NEW k \in 1..(n + 1), x[k].payload = END
                 PROVE  /\ \E f \in A : f.id = x[k].id
                        /\ \/ fr[x[k].id] # <<>>
                           \/ \E j \in 1..(n + 1) : j < k /\ x[j].id = x[k].id
      BY <1>4 DEF InEnd
    <2>1. CASE k \in 1..n
      <3>1. /\ \E f \in A : f.id = r[k].id
            /\ \/ fr[r[k].id] # <<>>
               \/ \E j \in 1..n : j < k /\ r[j].id = r[k].id
        BY <1>4, <2>1 DEF InOK, InEnd
      <3> QED  BY <1>4, <1>5, <2>1, <3>1
    <2>2. CASE k = n + 1
      <3>1. x[k] = e /\ e.payload = END
        BY <1>4, <2>2
      <3>2. fr[i] # <<>> \/ Has(r, i)
        BY <1>8, <3>1
      <3>3. CASE Has(r, i)
        <4>1. PICK j \in 1..n : r[j].id = i
          BY <3>3 DEF Has
        <4>2. j \in 1..(n + 1) /\ j < k /\ x[j] = r[j]
          BY <1>4, <1>5, <2>2
        <4> QED  BY <1>3, <1>8, <3>1, <4>1, <4>2
      <3> QED  BY <1>3, <1>8, <3>1, <3>2, <3>3
    <2> QED  BY <1>5, <2>1, <2>2
  <1>12. Collected(A, x, fr, set)
    <2>1. ASSUME set # 0 PROVE ~Has(x, set)
      <3>1. ~Has(r, set) /\ \E f \in A : f.id = set /\ fr[set] = <<f.payload, END>>
        BY <2>1 DEF InOK, Collected
      <3>2. fr[set] # <<>>
        BY <3>1
      <3>3. i # set
        BY <1>8, <3>2
      <3> QED  BY <1>6, <3>1, <3>3
    <2> QED  BY <2>1 DEF InOK, Collected
  <1>13. ASSUME NEW j \in Ids PROVE OwedOK(A, x, fr, set, w, gone, j)
    <2>1. OwedOK(A, r, fr, set, ow, gone, j)
      BY DEF InOK
    <2>2. CASE j # i
      <3>1. \A k \in 1..Len(x) : x[k].id = j => k \in 1..n /\ x[k] = r[k]
        BY <1>3, <1>4, <1>5, <2>2
      <3>2. w[j] = ow[j] /\ (Has(x, j) <=> Has(r, j))
        BY <1>1, <1>6, <2>2
      <3> QED  BY <2>1, <3>1, <3>2 DEF OwedOK
    <2>3. CASE j = i /\ w[i] = <<>>
      BY <2>3 DEF OwedOK
    <2>4. CASE j = i /\ w[i] # <<>>
      <3>1. PICK f \in A : /\ f.id = i /\ e.payload = f.payload /\ f.payload # END
                           /\ w[i] = <<END>> /\ ~Has(r, i) /\ fr[i] = <<>>
        BY <1>8, <2>4
      <3>2. \A k \in 1..Len(x) : x[k].id = i => x[k].payload # END
        BY <1>4, <1>5, <3>1 DEF Has
      <3>3. i # set
        <4>1. i # 0
          BY DEF Ids
        <4>2. ASSUME set # 0 PROVE fr[set] # <<>>
          <5>1. \E g \in A : g.id = set /\ fr[set] = <<g.payload, END>>
            BY <4>2 DEF InOK, Collected
          <5> QED  BY <5>1
        <4> QED  BY <3>1, <4>1, <4>2
      <3> QED  BY <1>6, <2>4, <3>1, <3>2, <3>3 DEF OwedOK
    <2> QED  BY <2>2, <2>3, <2>4
  <1>14. InOK(A, x, fr, set, w, gone)
    BY <1>9, <1>10, <1>11, <1>12, <1>13 DEF InOK
  <1> QED  BY <1>3, <1>14 DEF x, w, e

\* The I/O thread adds a frame to what it has collected.
LEMMA InGot ==
    ASSUME NEW A, NEW r, NEW fr, NEW ow, NEW gone, NEW i \in Ids,
           Values(A, r, fr, ow), InOK(A, r, fr, 0, ow, gone), r # <<>>, i = Head(r).id
    PROVE  InOK(A, Tail(r), [fr EXCEPT ![i] = Append(@, Head(r).payload)],
                IF Head(r).payload = END THEN i ELSE 0, ow, gone)
  <1> DEFINE g == [fr EXCEPT ![i] = Append(@, Head(r).payload)]
             e == Head(r)
             x == Tail(r)
             n == Len(r)
             new == IF e.payload = END THEN i ELSE 0
  <1>1. r \in Seq(Frame) /\ A \subseteq Frame /\ \A f \in A : f.payload # END
    BY DEF Values
  <1>2. /\ n \in Nat /\ n >= 1 /\ e = r[1] /\ e \in Frame /\ Len(x) = n - 1
        /\ \A k \in 1..(n - 1) : x[k] = r[k + 1]
    BY <1>1, HeadTailParts
  <1>3. g[i] = Append(fr[i], e.payload) /\ \A j \in Ids : j # i => g[j] = fr[j]
    BY DEF Values
  <1>4. /\ \A k \in 1..(n - 1) : k + 1 \in 1..n /\ 1 < k + 1 /\ k \in Nat
        /\ 1 \in 1..n /\ e.id = i /\ i # 0
    BY <1>2 DEF Ids
  <1> HIDE DEF g, e, x, n
  <1>5. \A k \in 1..(n - 1) : x[k].id = i => e.payload # END /\ x[k].payload = END
    BY <1>2, <1>4 DEF InOK, InOrder, n
  <1>6. \A k \in 1..n : r[k] \in Frame /\ r[k].id \in Ids
    <2>1. \A k \in 1..n : r[k] \in Frame
      BY <1>1, ElementOfSeq DEF n
    <2> QED  BY <2>1 DEF Frame
  <1>7. \/ e.payload # END /\ e \in A /\ fr[i] = <<>> /\ g[i] = <<e.payload>>
        \/ /\ e.payload = END /\ ~Has(x, i)
           /\ \E f \in A : f.id = i /\ fr[i] = <<f.payload>> /\ g[i] = <<f.payload, END>>
    <2>1. CASE e.payload # END
      <3>1. e \in A /\ fr[i] = <<>>
        BY <1>2, <1>4, <2>1 DEF InOK, InText, n
      <3>2. Append(<<>>, e.payload) = <<e.payload>>
        OBVIOUS
      <3> QED  BY <1>3, <2>1, <3>1, <3>2
    <2>2. CASE e.payload = END
      <3>1. ~Has(x, i)
        BY <1>2, <1>5, <2>2 DEF Has
      <3>2. fr[i] # <<>>
        <4>1. \/ fr[r[1].id] # <<>>
              \/ \E j \in 1..n : j < 1 /\ r[j].id = r[1].id
          BY <1>2, <1>4, <2>2 DEF InOK, InEnd, n
        <4>2. \A j \in 1..n : ~(j < 1)
          BY <1>2
        <4> QED  BY <1>2, <1>4, <4>1, <4>2
      <3>3. PICK f \in A : f.id = i /\ fr[i] = <<f.payload>>
        BY <1>4, <3>2 DEF InOK, Collected
      <3>4. Append(<<f.payload>>, END) = <<f.payload, END>>
        <4>1. f.payload \in Text /\ END \in Text
          BY <1>1 DEF Frame
        <4> QED  BY <4>1, AppendToOne
      <3> QED  BY <1>3, <2>2, <3>1, <3>3, <3>4
    <2> QED  BY <2>1, <2>2
  <1>8. g[i] # <<>>
    <2>1. CASE g[i] = <<e.payload>>
      BY <2>1
    <2>2. CASE \E f \in A : g[i] = <<f.payload, END>>
      BY <2>2
    <2> QED  BY <1>7, <2>1, <2>2
  <1>9. \A j : Has(x, j) => Has(r, j)
    BY <1>2, <1>4 DEF Has, n
  <1>10. \A j : Has(r, j) /\ j # i => Has(x, j)
    <2> SUFFICES ASSUME NEW j, Has(r, j), j # i PROVE Has(x, j)
      OBVIOUS
    <2>1. PICK k \in 1..n : r[k].id = j
      BY DEF Has, n
    <2>2. k # 1
      BY <1>2, <1>4, <2>1
    <2>3. k - 1 \in 1..(n - 1) /\ (k - 1) + 1 = k
      BY <1>2, <2>2
    <2> QED  BY <1>2, <2>1, <2>3 DEF Has
  <1>11. InOrder(x)
    <2> SUFFICES ASSUME NEW j \in 1..(n - 1), NEW k \in 1..(n - 1),
                        j < k, x[j].id = x[k].id
                 PROVE  x[j].payload # END /\ x[k].payload = END
      BY <1>2 DEF InOrder
    <2>1. j + 1 < k + 1
      BY <1>4
    <2> QED  BY <1>2, <1>4, <2>1 DEF InOK, InOrder, n
  <1>12. InText(A, x, g)
    <2> SUFFICES ASSUME NEW k \in 1..(n - 1), x[k].payload # END
                 PROVE  x[k] \in A /\ g[x[k].id] = <<>>
      BY <1>2 DEF InText
    <2>1. x[k] \in A /\ fr[x[k].id] = <<>> /\ x[k].id \in Ids
      BY <1>2, <1>4, <1>6 DEF InOK, InText, n
    <2> QED  BY <1>3, <1>5, <2>1
  <1>13. InEnd(A, x, g)
    <2> SUFFICES ASSUME NEW k \in 1..(n - 1), x[k].payload = END
                 PROVE  /\ \E f \in A : f.id = x[k].id
                        /\ \/ g[x[k].id] # <<>>
                           \/ \E j \in 1..(n - 1) : j < k /\ x[j].id = x[k].id
      BY <1>2 DEF InEnd
    <2>1. /\ \E f \in A : f.id = x[k].id
          /\ \/ fr[x[k].id] # <<>>
             \/ \E j \in 1..n : j < k + 1 /\ r[j].id = x[k].id
      BY <1>2, <1>4 DEF InOK, InEnd, n
    <2>2. x[k].id \in Ids
      BY <1>2, <1>4, <1>6
    <2>3. CASE x[k].id = i
      BY <1>8, <2>1, <2>3
    <2>4. CASE x[k].id # i /\ fr[x[k].id] # <<>>
      BY <1>3, <2>1, <2>2, <2>4
    <2>5. CASE x[k].id # i /\ \E j \in 1..n : j < k + 1 /\ r[j].id = x[k].id
      <3>1. PICK j \in 1..n : j < k + 1 /\ r[j].id = x[k].id
        BY <2>5
      <3>2. j # 1
        BY <1>2, <1>4, <2>5, <3>1
      <3>3. PICK l \in 1..(n - 1) : l + 1 = j
        <4>1. j - 1 \in 1..(n - 1) /\ (j - 1) + 1 = j
          BY <1>2, <3>2
        <4> QED  BY <4>1
      <3>4. l < k /\ x[l].id = x[k].id
        BY <1>2, <3>1, <3>3
      <3> QED  BY <2>1, <3>4
    <2> QED  BY <2>1, <2>3, <2>4, <2>5
  <1>14. Collected(A, x, g, new)
    <2>1. ASSUME NEW j \in Ids, j # new
          PROVE  g[j] = <<>> \/ \E f \in A : f.id = j /\ g[j] = <<f.payload>>
      <3>1. CASE j = i
        BY <1>4, <1>7, <2>1, <3>1
      <3>2. CASE j # i
        <4>1. j # 0
          BY DEF Ids
        <4>2. fr[j] = <<>> \/ \E f \in A : f.id = j /\ fr[j] = <<f.payload>>
          BY <4>1 DEF InOK, Collected
        <4> QED  BY <1>3, <3>2, <4>2
      <3> QED  BY <3>1, <3>2
    <2>2. ASSUME new # 0
          PROVE  ~Has(x, new) /\ \E f \in A : f.id = new /\ g[new] = <<f.payload, END>>
      BY <1>7, <2>2
    <2> QED  BY <2>1, <2>2 DEF Collected
  <1>15. ASSUME NEW j \in Ids PROVE OwedOK(A, x, g, new, ow, gone, j)
    <2>1. OwedOK(A, r, fr, 0, ow, gone, j)
      BY DEF InOK
    <2>2. \A k \in 1..Len(x) : \E l \in 1..n : x[k] = r[l]
      BY <1>2, <1>4
    <2>3. CASE j # i
      <3>1. g[j] = fr[j] /\ (Has(x, j) <=> Has(r, j)) /\ j # new
        <4>1. j # 0
          BY DEF Ids
        <4> QED  BY <1>3, <1>9, <1>10, <2>3, <4>1
      <3> QED  BY <2>1, <2>2, <3>1 DEF OwedOK, n
    <2>4. CASE j = i /\ ow[j] # <<>>
      <3>1. Has(r, i)
        BY <1>2, <1>4 DEF Has, n
      <3>2. CASE \E f \in A : /\ f.id = j /\ ow[j] = <<f.payload, END>>
                              /\ ~gone => ~Has(r, j) /\ fr[j] = <<>>
        <4>1. gone
          BY <2>4, <3>1, <3>2
        <4> QED  BY <3>2, <4>1 DEF OwedOK
      <3>3. CASE /\ ow[j] = <<END>> /\ \E f \in A : f.id = j
                 /\ ~gone => /\ j # 0
                             /\ \A k \in 1..Len(r) : r[k].id = j => r[k].payload # END
                             /\ fr[j] # <<>> \/ Has(r, j)
        <4>1. CASE gone
          BY <3>3, <4>1 DEF OwedOK
        <4>2. CASE ~gone
          <5>1. e.payload # END
            BY <1>2, <1>4, <2>4, <3>3, <4>2 DEF n
          <5>2. \A k \in 1..Len(x) : x[k].id = j => x[k].payload # END
            BY <2>2, <3>3, <4>2 DEF n
          <5>3. new # j
            BY <1>4, <2>4, <5>1
          <5> QED  BY <1>8, <2>4, <3>3, <5>2, <5>3 DEF OwedOK
        <4> QED  BY <4>1, <4>2
      <3> QED  BY <2>1, <2>4, <3>2, <3>3 DEF OwedOK
    <2>5. CASE ow[j] = <<>>
      BY <2>5 DEF OwedOK
    <2> QED  BY <2>3, <2>4, <2>5
  <1>16. InOK(A, x, g, new, ow, gone)
    <2> HIDE DEF new
    <2> QED  BY <1>11, <1>12, <1>13, <1>14, <1>15 DEF InOK
  <1> QED  BY <1>16 DEF x, g, e

\* set_value() moves the collected frames out.
LEMMA InTakenOut ==
    ASSUME NEW A, NEW r, NEW fr, NEW set \in Ids, NEW ow, NEW gone,
           Values(A, r, fr, ow), InOK(A, r, fr, set, ow, gone)
    PROVE  /\ InOK(A, r, [fr EXCEPT ![set] = <<>>], 0, ow, gone)
           /\ \E f \in A : f.id = set /\ fr[set] = <<f.payload, END>>
           /\ ~Coming(r, [fr EXCEPT ![set] = <<>>], ow, gone, set)
  <1> DEFINE g == [fr EXCEPT ![set] = <<>>]
  <1>1. g[set] = <<>> /\ \A j \in Ids : j # set => g[j] = fr[j]
    BY DEF Values
  <1>2. set # 0
    BY DEF Ids
  <1>3. ~Has(r, set) /\ \E f \in A : f.id = set /\ fr[set] = <<f.payload, END>>
    BY <1>2 DEF InOK, Collected
  <1>4. fr[set] # <<>>
    BY <1>3
  <1>5. r \in Seq(Frame) /\ \A k \in 1..Len(r) : r[k].id \in Ids /\ r[k].id # set
    <2>1. r \in Seq(Frame)
      BY DEF Values
    <2>2. \A k \in 1..Len(r) : r[k] \in Frame
      BY <2>1, ElementOfSeq
    <2> QED  BY <1>3, <2>1, <2>2 DEF Has, Frame
  <1> HIDE DEF g
  <1>6. InText(A, r, g) /\ InEnd(A, r, g)
    BY <1>1, <1>5 DEF InOK, InText, InEnd
  <1>7. Collected(A, r, g, 0)
    BY <1>1 DEF InOK, Collected
  <1>8. ASSUME NEW j \in Ids PROVE OwedOK(A, r, g, 0, ow, gone, j)
    <2>0. j # 0
      BY DEF Ids
    <2>1. OwedOK(A, r, fr, set, ow, gone, j)
      BY DEF InOK
    <2>2. CASE j # set
      BY <1>1, <2>0, <2>1, <2>2 DEF OwedOK
    <2>3. CASE j = set
      BY <1>4, <2>1, <2>3 DEF OwedOK
    <2> QED  BY <2>2, <2>3
  <1>9. ow[set] = <<>> \/ gone
    <2>1. OwedOK(A, r, fr, set, ow, gone, set)
      BY DEF InOK
    <2> QED  BY <1>4, <2>1 DEF OwedOK
  <1>10. ~Coming(r, g, ow, gone, set)
    BY <1>1, <1>3, <1>9 DEF Coming
  <1>11. InOK(A, r, g, 0, ow, gone)
    BY <1>6, <1>7, <1>8 DEF InOK
  <1> QED  BY <1>3, <1>10, <1>11 DEF g


-----------------------------------------------------------------------------
(***************************************************************************)
(* All frames of a connection.  A request that is on its way has no reply  *)
(* anywhere, and a request with something on its way in either direction   *)
(* is in W: its promise waits, or nobody can ask for it any more.          *)
(***************************************************************************)
Flow(A, q, p, o, r, fr, set, ow, gone, W) ==
    /\ OutOK(A, q, p, o) /\ InOK(A, r, fr, set, ow, gone)
    /\ \A i \in Ids : Going(q, p, o, i) => ow[i] = <<>> /\ ~Has(r, i) /\ fr[i] = <<>>
    /\ \A i \in Ids : Going(q, p, o, i) \/ Coming(r, fr, ow, gone, i) => i \in W

FlowValues(A, q, p, o, r, fr, ow) ==
    /\ q \in Seq(Frame) /\ p \in Seq(Frame) /\ o \in Seq(Frame)
    /\ Values(A, r, fr, ow)

\* Only requests that were asked have frames anywhere on the way in.
LEMMA ComingIsAsked ==
    ASSUME NEW A, NEW r, NEW fr, NEW set, NEW ow, NEW gone, NEW i \in Ids,
           InOK(A, r, fr, set, ow, gone),
           Has(r, i) \/ fr[i] # <<>> \/ ow[i] # <<>>
    PROVE  \E f \in A : f.id = i
  <1>1. CASE Has(r, i)
    BY <1>1 DEF Has, InOK, InText, InEnd
  <1>2. CASE fr[i] # <<>>
    <2>1. i # 0
      BY DEF Ids
    <2> QED  BY <1>2, <2>1 DEF InOK, Collected
  <1>3. CASE ow[i] # <<>>
    <2>1. OwedOK(A, r, fr, set, ow, gone, i)
      BY DEF InOK
    <2> QED  BY <1>3, <2>1 DEF OwedOK
  <1> QED  BY <1>1, <1>2, <1>3

\* send_request(): a request with a new id, for which nothing is there yet.
LEMMA FlowAsk ==
    ASSUME NEW A, NEW q, NEW p, NEW o, NEW r, NEW fr, NEW set, NEW ow, NEW gone, NEW W,
           FlowValues(A, q, p, o, r, fr, ow), Flow(A, q, p, o, r, fr, set, ow, gone, W),
           NEW f \in Frame, \A g \in A : g.id < f.id
    PROVE  Flow(A \cup {f}, q, p, Append(o, f), r, [fr EXCEPT ![f.id] = <<>>],
                set, ow, gone, W \cup {f.id})
  <1> DEFINE i == f.id
             g == [fr EXCEPT ![i] = <<>>]
  <1>1. /\ q \in Seq(Frame) /\ p \in Seq(Frame) /\ o \in Seq(Frame) /\ r \in Seq(Frame)
        /\ A \subseteq Frame /\ fr \in [Ids -> Seq(Text)] /\ i \in Ids
    BY DEF FlowValues, Values, Frame
  <1>2. ~\E h \in A : h.id = i
    <2> SUFFICES ASSUME NEW h \in A, h.id = i PROVE FALSE
      OBVIOUS
    <2>1. i < i /\ i \in Nat
      BY <1>1 DEF Ids
    <2> QED  BY <2>1
  <1>3. ~Has(r, i) /\ fr[i] = <<>> /\ ow[i] = <<>>
    <2>1. InOK(A, r, fr, set, ow, gone)
      BY DEF Flow
    <2>2. ASSUME Has(r, i) \/ fr[i] # <<>> \/ ow[i] # <<>> PROVE FALSE
      <3>1. PICK j \in Ids : j = i
        BY <1>1
      <3>2. Has(r, j) \/ fr[j] # <<>> \/ ow[j] # <<>>
        BY <2>2, <3>1
      <3>3. \E h \in A : h.id = j
        BY <2>1, <3>2, ComingIsAsked
      <3> QED  BY <1>2, <3>1, <3>3
    <2> QED  BY <2>2
  <1>4. g = fr
    BY <1>1, <1>3
  <1>5. OutOK(A \cup {f}, q, p, Append(o, f))
    BY <1>1, OutAsk DEF Flow
  <1>6. InOK(A \cup {f}, r, fr, set, ow, gone)
    BY InAsked DEF Flow
  <1>7. \A j : Going(q, p, Append(o, f), j) => Going(q, p, o, j) \/ j = i
    BY <1>1, HasParts DEF Going
  <1> HIDE DEF i, g
  <1>8. \A j \in Ids : Going(q, p, Append(o, f), j) =>
            ow[j] = <<>> /\ ~Has(r, j) /\ fr[j] = <<>> /\ j \in W \cup {i}
    BY <1>3, <1>7 DEF Flow
  <1>9. \A j \in Ids : Coming(r, fr, ow, gone, j) => j \in W \cup {i}
    BY DEF Flow
  <1>10. Flow(A \cup {f}, q, p, Append(o, f), r, fr, set, ow, gone, W \cup {i})
    BY <1>5, <1>6, <1>8, <1>9 DEF Flow
  <1> QED  BY <1>4, <1>10 DEF i, g

\* pop_outgoing(), send(), and packets that get nowhere.
LEMMA FlowOut ==
    ASSUME NEW A, NEW q, NEW p, NEW o, NEW r, NEW fr, NEW set, NEW ow, NEW gone, NEW W,
           FlowValues(A, q, p, o, r, fr, ow), Flow(A, q, p, o, r, fr, set, ow, gone, W)
    PROVE  /\ p = <<>> /\ o # <<>> =>
                 Flow(A, q, <<Head(o)>>, Tail(o), r, fr, set, ow, gone, W)
           /\ \A f \in Frame : p = <<f>> =>
                 Flow(A, Append(q, f), <<>>, o, r, fr, set, ow, gone, W)
           /\ Flow(A, q, <<>>, o, r, fr, set, ow, gone, W)
           /\ Flow(A, q, <<>>, <<>>, r, fr, set, ow, gone, W)
  <1>1. q \in Seq(Frame) /\ p \in Seq(Frame) /\ o \in Seq(Frame)
    BY DEF FlowValues
  <1>2. ASSUME NEW x, NEW y, NEW z, OutOK(A, x, y, z),
               \A j : Going(x, y, z, j) => Going(q, p, o, j)
        PROVE  Flow(A, x, y, z, r, fr, set, ow, gone, W)
    BY <1>2 DEF Flow
  <1>3. ASSUME p = <<>>, o # <<>>
        PROVE  Flow(A, q, <<Head(o)>>, Tail(o), r, fr, set, ow, gone, W)
    <2>1. OutOK(A, q, <<Head(o)>>, Tail(o))
      BY <1>1, <1>3, OutPop DEF Flow
    <2>2. Head(o) \in Frame
      BY <1>1, <1>3, HeadTailParts
    <2>3. \A j : Has(<<Head(o)>>, j) \/ Has(Tail(o), j) => Has(o, j)
      BY <1>1, <1>3, <2>2, HasParts
    <2>4. \A j : Going(q, <<Head(o)>>, Tail(o), j) => Going(q, p, o, j)
      BY <2>3 DEF Going
    <2> QED  BY <1>2, <2>1, <2>4
  <1>4. ASSUME NEW f \in Frame, p = <<f>>
        PROVE  Flow(A, Append(q, f), <<>>, o, r, fr, set, ow, gone, W)
    <2>1. OutOK(A, Append(q, f), <<>>, o)
      BY <1>1, <1>4, OutSend DEF Flow
    <2>2. \A j : Has(Append(q, f), j) \/ Has(<<>>, j) => Has(q, j) \/ Has(<<f>>, j)
      BY <1>1, <1>4, HasParts
    <2>3. \A j : Going(Append(q, f), <<>>, o, j) => Going(q, p, o, j)
      BY <1>4, <2>2 DEF Going
    <2> QED  BY <1>2, <2>1, <2>3
  <1>5. ~\E j : Has(<<>>, j)
    BY EmptySeq DEF Has
  <1>6. Flow(A, q, <<>>, o, r, fr, set, ow, gone, W)
    <2>1. OutOK(A, q, <<>>, o)
      BY <1>1, OutLoses DEF Flow
    <2>2. \A j : Going(q, <<>>, o, j) => Going(q, p, o, j)
      BY <1>5 DEF Going
    <2> QED  BY <1>2, <2>1, <2>2
  <1>7. Flow(A, q, <<>>, <<>>, r, fr, set, ow, gone, W)
    <2>1. OutOK(A, q, <<>>, <<>>)
      BY <1>1, OutLoses DEF Flow
    <2>2. \A j : Going(q, <<>>, <<>>, j) => Going(q, p, o, j)
      BY <1>5 DEF Going
    <2> QED  BY <1>2, <2>1, <2>2
  <1> QED  BY <1>3, <1>4, <1>6, <1>7


\* The server takes a request.
LEMMA FlowTaken ==
    ASSUME NEW A, NEW q, NEW p, NEW o, NEW r, NEW fr, NEW set, NEW ow, NEW gone, NEW W,
           FlowValues(A, q, p, o, r, fr, ow), Flow(A, q, p, o, r, fr, set, ow, gone, W),
           q # <<>>
    PROVE  Flow(A, Tail(q), p, o, r, fr, set,
                [ow EXCEPT ![Head(q).id] = @ \o <<Head(q).payload, END>>], gone, W)
  <1> DEFINE h == Head(q)
             w == [ow EXCEPT ![h.id] = @ \o <<h.payload, END>>]
  <1>1. /\ q \in Seq(Frame) /\ p \in Seq(Frame) /\ o \in Seq(Frame)
        /\ A \subseteq Frame /\ Values(A, r, fr, ow) /\ ow \in [Ids -> Seq(Text)]
    BY DEF FlowValues, Values
  <1>2. /\ OutOK(A, Tail(q), p, o) /\ h \in A
        /\ ~Going(Tail(q), p, o, h.id)
    BY <1>1, OutTaken DEF Flow
  <1>3. h \in Frame /\ h.id \in Ids
    BY <1>1, <1>2 DEF Frame
  <1>4. /\ Has(q, h.id)
        /\ \A j : Has(Tail(q), j) => Has(q, j)
    BY <1>1, <1>3, HasParts
  <1> HIDE DEF h
  <1>5. ow[h.id] = <<>> /\ ~Has(r, h.id) /\ fr[h.id] = <<>> /\ h.id \in W
    BY <1>3, <1>4 DEF Flow, Going
  <1>6. InOK(A, r, fr, set, w, gone)
    <2>1. InOK(A, r, fr, set, ow, gone)
      BY DEF Flow
    <2> QED  BY <1>1, <1>2, <1>5, <2>1, InTaken
  <1>7. \A j \in Ids : j # h.id => w[j] = ow[j]
    BY <1>1
  <1> HIDE DEF w
  <1>8. \A j \in Ids : Going(Tail(q), p, o, j) =>
           j # h.id /\ w[j] = <<>> /\ ~Has(r, j) /\ fr[j] = <<>> /\ j \in W
    <2> SUFFICES ASSUME NEW j \in Ids, Going(Tail(q), p, o, j)
                 PROVE  j # h.id /\ w[j] = <<>> /\ ~Has(r, j) /\ fr[j] = <<>> /\ j \in W
      OBVIOUS
    <2>1. j # h.id /\ Going(q, p, o, j)
      BY <1>2, <1>4 DEF Going
    <2> QED  BY <1>7, <2>1 DEF Flow
  <1>9. \A j \in Ids : Coming(r, fr, w, gone, j) => j \in W
    BY <1>5, <1>7 DEF Flow, Coming
  <1>10. Flow(A, Tail(q), p, o, r, fr, set, w, gone, W)
    BY <1>2, <1>6, <1>8, <1>9 DEF Flow
  <1> QED  BY <1>10 DEF h, w

\* The connection breaks and some of what was in flight is lost.
LEMMA FlowBroken ==
    ASSUME NEW A, NEW q, NEW p, NEW o, NEW r, NEW fr, NEW set, NEW ow, NEW gone, NEW W,
           FlowValues(A, q, p, o, r, fr, ow), Flow(A, q, p, o, r, fr, set, ow, gone, W),
           NEW late, late, NEW n \in 0..Len(q), NEW m \in 0..Len(r)
    PROVE  Flow(A, Keep(q, n), p, o, Keep(r, m), fr, set, ow, late, W)
  <1>1. /\ q \in Seq(Frame) /\ p \in Seq(Frame) /\ o \in Seq(Frame)
        /\ r \in Seq(Frame) /\ Values(A, r, fr, ow)
    BY DEF FlowValues, Values
  <1>2. OutOK(A, Keep(q, n), p, o)
    BY <1>1, OutLoses DEF Flow
  <1>3. InOK(A, Keep(r, m), fr, set, ow, late)
    <2>1. InOK(A, r, fr, set, ow, gone)
      BY DEF Flow
    <2> QED  BY <1>1, <2>1, InBroken
  <1>4. \A j : Has(Keep(q, n), j) => Has(q, j)
    <2>1. Len(Keep(q, n)) = n /\ \A k \in 1..n : Keep(q, n)[k] = q[k]
      BY <1>1, KeepDropType
    <2>2. \A k \in 1..n : k \in 1..Len(q)
      BY <1>1, LenProperties
    <2> QED  BY <2>1, <2>2 DEF Has
  <1>5. \A j : Has(Keep(r, m), j) => Has(r, j)
    <2>1. Len(Keep(r, m)) = m /\ \A k \in 1..m : Keep(r, m)[k] = r[k]
      BY <1>1, KeepDropType
    <2>2. \A k \in 1..m : k \in 1..Len(r)
      BY <1>1, LenProperties
    <2> QED  BY <2>1, <2>2 DEF Has
  <1>6. /\ \A j : Going(Keep(q, n), p, o, j) => Going(q, p, o, j)
        /\ \A j : Coming(Keep(r, m), fr, ow, late, j) => Coming(r, fr, ow, gone, j)
    BY <1>4, <1>5 DEF Going, Coming
  <1> QED  BY <1>2, <1>3, <1>5, <1>6 DEF Flow

\* The server sends a frame it owes, or drops it on a connection that is gone.
LEMMA FlowReply ==
    ASSUME NEW A, NEW q, NEW p, NEW o, NEW r, NEW fr, NEW set, NEW ow, NEW gone, NEW W,
           FlowValues(A, q, p, o, r, fr, ow), Flow(A, q, p, o, r, fr, set, ow, gone, W),
           NEW i \in Ids, ow[i] # <<>>
    PROVE  /\ ~gone => Flow(A, q, p, o, Append(r, [id |-> i, payload |-> Head(ow[i])]), fr,
                            set, [ow EXCEPT ![i] = Tail(@)], gone, W)
           /\ gone  => Flow(A, q, p, o, r, fr, set, [ow EXCEPT ![i] = Tail(@)], gone, W)
  <1> DEFINE e == [id |-> i, payload |-> Head(ow[i])]
             w == [ow EXCEPT ![i] = Tail(@)]
  <1>1. Values(A, r, fr, ow) /\ r \in Seq(Frame) /\ ow \in [Ids -> Seq(Text)]
    BY DEF FlowValues, Values
  <1>2. OutOK(A, q, p, o) /\ InOK(A, r, fr, set, ow, gone)
    BY DEF Flow
  <1>3. ~Going(q, p, o, i)
    BY DEF Flow
  <1>4. \A j \in Ids : j # i => w[j] = ow[j]
    BY <1>1
  <1>5. ASSUME ~gone PROVE Flow(A, q, p, o, Append(r, e), fr, set, w, gone, W)
    <2>1. e \in Frame /\ InOK(A, Append(r, e), fr, set, w, gone)
      BY <1>1, <1>2, <1>5, InSent
    <2>2. \A j : Has(Append(r, e), j) <=> Has(r, j) \/ i = j
      <3>1. e.id = i /\ e \in Frame /\ r \in Seq(Frame)
        BY <1>1, <2>1
      <3> HIDE DEF e
      <3>2. \A j : Has(Append(r, e), j) <=> Has(r, j) \/ e.id = j
        BY <3>1, HasParts
      <3> QED  BY <3>1, <3>2
    <2> HIDE DEF e, w
    <2>3. i \in W
      BY <1>5 DEF Flow, Coming
    <2>4. \A j \in Ids : Going(q, p, o, j) =>
             w[j] = <<>> /\ ~Has(Append(r, e), j) /\ fr[j] = <<>> /\ j \in W
      BY <1>3, <1>4, <2>2 DEF Flow
    <2>5. \A j \in Ids : Coming(Append(r, e), fr, w, gone, j) => j \in W
      BY <1>4, <2>2, <2>3 DEF Flow, Coming
    <2> QED  BY <1>2, <2>1, <2>4, <2>5 DEF Flow
  <1>6. ASSUME gone PROVE Flow(A, q, p, o, r, fr, set, w, gone, W)
    <2>1. InOK(A, r, fr, set, w, gone)
      BY <1>1, <1>2, <1>6, InDropped
    <2> HIDE DEF w
    <2>2. \A j \in Ids : Going(q, p, o, j) =>
             w[j] = <<>> /\ ~Has(r, j) /\ fr[j] = <<>> /\ j \in W
      BY <1>3, <1>4 DEF Flow
    <2>3. \A j \in Ids : Coming(r, fr, w, gone, j) => j \in W
      BY <1>6 DEF Flow, Coming
    <2> QED  BY <1>2, <2>1, <2>2, <2>3 DEF Flow
  <1> QED  BY <1>5, <1>6 DEF e, w


\* get_request() and push_back(): the I/O thread collects the next frame.
LEMMA FlowGot ==
    ASSUME NEW A, NEW q, NEW p, NEW o, NEW r, NEW fr, NEW ow, NEW gone, NEW W,
           FlowValues(A, q, p, o, r, fr, ow), Flow(A, q, p, o, r, fr, 0, ow, gone, W),
           r # <<>>
    PROVE  Flow(A, q, p, o, Tail(r), [fr EXCEPT ![Head(r).id] = Append(@, Head(r).payload)],
                IF Head(r).payload = END THEN Head(r).id ELSE 0, ow, gone, W)
  <1> DEFINE h == Head(r)
             i == h.id
             g == [fr EXCEPT ![i] = Append(@, h.payload)]
             new == IF h.payload = END THEN i ELSE 0
  <1>1. Values(A, r, fr, ow) /\ r \in Seq(Frame) /\ fr \in [Ids -> Seq(Text)]
    BY DEF FlowValues, Values
  <1>2. OutOK(A, q, p, o) /\ InOK(A, r, fr, 0, ow, gone)
    BY DEF Flow
  <1>3. h \in Frame /\ i \in Ids
    <2>1. h \in Frame
      BY <1>1, HeadTailParts
    <2> QED  BY <2>1 DEF Frame
  <1>4. InOK(A, Tail(r), g, new, ow, gone)
    <2>1. i \in Ids /\ i = Head(r).id /\ Values(A, r, fr, ow)
      BY <1>1, <1>3
    <2> HIDE DEF h, i
    <2>2. InOK(A, Tail(r), [fr EXCEPT ![i] = Append(@, Head(r).payload)],
               IF Head(r).payload = END THEN i ELSE 0, ow, gone)
      BY <1>2, <2>1, InGot
    <2> QED  BY <2>2 DEF h
  <1>5. Has(r, i) /\ \A j : Has(Tail(r), j) => Has(r, j)
    <2>1. \A j : Has(r, j) <=> h.id = j \/ Has(Tail(r), j)
      <3>1. r \in Seq(Frame) /\ Head(r) \in Frame
        BY <1>1, <1>3
      <3>2. \A j : Has(r, j) <=> Head(r).id = j \/ Has(Tail(r), j)
        BY <3>1, HasParts
      <3> QED  BY <3>2
    <2> QED  BY <2>1
  <1>6. \A j \in Ids : j # i => g[j] = fr[j]
    BY <1>1
  <1> HIDE DEF h, i, g, new
  <1>7. \A j \in Ids : Going(q, p, o, j) =>
           ow[j] = <<>> /\ ~Has(Tail(r), j) /\ g[j] = <<>> /\ j \in W
    <2> SUFFICES ASSUME NEW j \in Ids, Going(q, p, o, j)
                 PROVE  ow[j] = <<>> /\ ~Has(Tail(r), j) /\ g[j] = <<>> /\ j \in W
      OBVIOUS
    <2>1. ow[j] = <<>> /\ ~Has(r, j) /\ fr[j] = <<>> /\ j \in W
      BY DEF Flow
    <2>2. j # i
      BY <1>5, <2>1
    <2> QED  BY <1>5, <1>6, <2>1, <2>2
  <1>8. \A j \in Ids : Coming(Tail(r), g, ow, gone, j) => j \in W
    <2> SUFFICES ASSUME NEW j \in Ids, Coming(Tail(r), g, ow, gone, j) PROVE j \in W
      OBVIOUS
    <2>1. Coming(r, fr, ow, gone, j)
      BY <1>5, <1>6 DEF Coming
    <2> QED  BY <2>1 DEF Flow
  <1>9. Flow(A, q, p, o, Tail(r), g, new, ow, gone, W)
    BY <1>2, <1>4, <1>7, <1>8 DEF Flow
  <1> QED  BY <1>9 DEF h, i, g, new

\* set_value(): the collected frames are the whole reply, and nothing more
\* of it is there.
LEMMA FlowSet ==
    ASSUME NEW A, NEW q, NEW p, NEW o, NEW r, NEW fr, NEW set \in Ids, NEW ow, NEW gone,
           NEW W,
           FlowValues(A, q, p, o, r, fr, ow), Flow(A, q, p, o, r, fr, set, ow, gone, W)
    PROVE  /\ Flow(A, q, p, o, r, [fr EXCEPT ![set] = <<>>], 0, ow, gone, W \ {set})
           /\ \E f \in A : f.id = set /\ fr[set] = <<f.payload, END>>
  <1> DEFINE g == [fr EXCEPT ![set] = <<>>]
  <1>1. Values(A, r, fr, ow) /\ fr \in [Ids -> Seq(Text)]
    BY DEF FlowValues, Values
  <1>2. OutOK(A, q, p, o) /\ InOK(A, r, fr, set, ow, gone)
    BY DEF Flow
  <1>3. /\ InOK(A, r, g, 0, ow, gone)
        /\ \E f \in A : f.id = set /\ fr[set] = <<f.payload, END>>
        /\ ~Coming(r, g, ow, gone, set)
    BY <1>1, <1>2, InTakenOut
  <1>4. g[set] = <<>> /\ \A j \in Ids : j # set => g[j] = fr[j]
    BY <1>1
  <1>5. ~Going(q, p, o, set)
    <2>1. fr[set] # <<>>
      BY <1>3
    <2> QED  BY <2>1 DEF Flow
  <1> HIDE DEF g
  <1>6. \A j \in Ids : Going(q, p, o, j) =>
           ow[j] = <<>> /\ ~Has(r, j) /\ g[j] = <<>> /\ j \in W \ {set}
    BY <1>4, <1>5 DEF Flow
  <1>7. \A j \in Ids : Coming(r, g, ow, gone, j) => j \in W \ {set}
    <2> SUFFICES ASSUME NEW j \in Ids, Coming(r, g, ow, gone, j) PROVE j \in W \ {set}
      OBVIOUS
    <2>1. j # set /\ Coming(r, fr, ow, gone, j)
      BY <1>3, <1>4 DEF Coming
    <2> QED  BY <2>1 DEF Flow
  <1>8. Flow(A, q, p, o, r, g, 0, ow, gone, W \ {set})
    BY <1>2, <1>3, <1>6, <1>7 DEF Flow
  <1> QED  BY <1>3, <1>8 DEF g

\* It may matter to more than it did.
LEMMA FlowWider ==
    ASSUME NEW A, NEW q, NEW p, NEW o, NEW r, NEW fr, NEW set, NEW ow, NEW gone, NEW W,
           NEW V, Flow(A, q, p, o, r, fr, set, ow, gone, W), W \subseteq V
    PROVE  Flow(A, q, p, o, r, fr, set, ow, gone, V)
  BY DEF Flow


-----------------------------------------------------------------------------
(***************************************************************************)
(* The state of connection c in these terms.                               *)
(***************************************************************************)
\* No text that is sent is "END" itself: the protocol has no way to tell it
\* from the end of the reply.
PlainTexts == \A u \in User : \A k \in 1..Len(Messages[u]) : Messages[u][k] # END

\* The requests that were asked on c, as the threads that asked know them.
AskedFrames(c) ==
    {f \in Frame : \E u \in User : \E k \in 1..Len(replies[u]) :
        replies[u][k] = <<c, f.id>> /\ f.payload = Messages[u][k]}

\* The I/O thread's local packet, while it is at a label with connection c.
Packet(label, c) == IF ioPc = label /\ ioConn = c THEN <<packet>> ELSE <<>>

Incoming(c) == Packet("get", c) \o (rbuf[c] \o s2c[c])
Setting(c)  == IF ioPc = "set" /\ ioConn = c THEN packet.id ELSE 0
Wanted(c)   == {i \in Ids : promise[c][i].state = "waiting" \/ closed[c]}

FlowInv(c) ==
    Flow(AskedFrames(c), c2s[c], Packet("send", c), outgoing[c], Incoming(c),
         frames[c], Setting(c), owed[c], broken[c], Wanted(c))

\* Ids are given out once: they are below next_id_, one request to each.
AskedInv(c) ==
    /\ \A f \in AskedFrames(c) : f.id < nextId[c]
    /\ \A f, g \in AskedFrames(c) : f.id = g.id => f = g

\* A promise that has a value has the reply to its request.
ValueInv(c) ==
    \A i \in Ids : promise[c][i].state = "value" =>
        \E f \in AskedFrames(c) : f.id = i /\ promise[c][i].reply = <<f.payload, END>>

ReplyInv ==
    /\ PlainTexts
    /\ \A c \in Conns : AskedInv(c) /\ ValueInv(c)
    /\ proc = "running" => \A c \in Conns : FlowInv(c)

\* The values have their types.
LEMMA StateValues ==
    ASSUME TypeInv, PlainTexts, NEW c \in Conns
    PROVE  FlowValues(AskedFrames(c), c2s[c], Packet("send", c), outgoing[c],
                      Incoming(c), frames[c], owed[c])
  <1> USE DEF TypeInv, TypeOK, NetTypeOK, ClientTypeOK, PeerTypeOK
  <1>1. Packet("send", c) \in Seq(Frame) /\ Packet("get", c) \in Seq(Frame)
    BY EmptySeq DEF Packet
  <1>2. Incoming(c) \in Seq(Frame)
    <2>1. rbuf[c] \in Seq(Frame) /\ s2c[c] \in Seq(Frame)
      OBVIOUS
    <2>2. rbuf[c] \o s2c[c] \in Seq(Frame)
      BY <2>1, ConcatProperties
    <2> QED  BY <1>1, <2>2, ConcatProperties DEF Incoming
  <1>3. ASSUME NEW f \in AskedFrames(c) PROVE f.payload # END
    <2>1. PICK u \in User : \E k \in 1..Len(replies[u]) : f.payload = Messages[u][k]
      BY <1>3 DEF AskedFrames
    <2>2. PICK k \in 1..Len(replies[u]) : f.payload = Messages[u][k]
      BY <2>1
    <2>3. Len(replies[u]) \in Nat /\ Len(Messages[u]) \in Nat
          /\ Len(replies[u]) <= Len(Messages[u])
      BY LenProperties DEF SentBound
    <2>4. k \in 1..Len(Messages[u])
      BY <2>3
    <2> QED  BY <2>2, <2>4 DEF PlainTexts
  <1>4. AskedFrames(c) \subseteq Frame
    BY DEF AskedFrames
  <1>5. /\ c2s[c] \in Seq(Frame) /\ outgoing[c] \in Seq(Frame)
        /\ frames[c] \in [Ids -> Seq(Text)] /\ owed[c] \in [Ids -> Seq(Text)]
    OBVIOUS
  <1> QED  BY <1>1, <1>2, <1>3, <1>4, <1>5 DEF FlowValues, Values

\* The invariant from the values after a step.
LEMMA FlowNext ==
    ASSUME NEW c \in Conns, NEW W,
           Flow(AskedFrames(c)', c2s'[c], Packet("send", c)', outgoing'[c], Incoming(c)',
                frames'[c], Setting(c)', owed'[c], broken'[c], W),
           W \subseteq Wanted(c)'
    PROVE  FlowInv(c)'
  BY FlowWider DEF FlowInv

\* A connection of which a step changes nothing.
LEMMA FlowKept ==
    ASSUME NEW c \in Conns, FlowInv(c), replies' = replies,
           c2s'[c] = c2s[c], outgoing'[c] = outgoing[c], frames'[c] = frames[c],
           owed'[c] = owed[c], broken'[c] = broken[c],
           Packet("send", c)' = Packet("send", c), Incoming(c)' = Incoming(c),
           Setting(c)' = Setting(c), Wanted(c) \subseteq Wanted(c)'
    PROVE  FlowInv(c)'
  <1>1. AskedFrames(c)' = AskedFrames(c)
    BY DEF AskedFrames
  <1>2. Flow(AskedFrames(c)', c2s'[c], Packet("send", c)', outgoing'[c], Incoming(c)',
             frames'[c], Setting(c)', owed'[c], broken'[c], Wanted(c))
    BY <1>1 DEF FlowInv
  <1> QED  BY <1>2, FlowNext

\* While the I/O thread is elsewhere, or at the head of its loop, it holds no
\* packet of a connection.
LEMMA Elsewhere ==
    /\ \A c : ioConn # c \/ ioPc \notin {"send", "get", "set"} =>
          /\ Packet("send", c) = <<>> /\ Packet("get", c) = <<>> /\ Setting(c) = 0
    /\ \A c : ioPc # "send" => Packet("send", c) = <<>>
    /\ \A c : ioPc # "get" => Packet("get", c) = <<>>
    /\ \A c : ioPc # "set" => Setting(c) = 0
  BY DEF Packet, Setting


\* A step of the I/O thread leaves the other connections alone.
LEMMA IoOthers ==
    ASSUME NEW d \in Conns, FlowInv(d), d # ioConn, replies' = replies,
           ioConn' = ioConn \/ ioPc' \in {"incoming", "done"},
           c2s'[d] = c2s[d], s2c'[d] = s2c[d], outgoing'[d] = outgoing[d],
           rbuf'[d] = rbuf[d], frames'[d] = frames[d], owed'[d] = owed[d],
           broken'[d] = broken[d], promise'[d] = promise[d], closed'[d] = closed[d]
    PROVE  FlowInv(d)'
  <1>1. /\ Packet("send", d) = <<>> /\ Packet("get", d) = <<>> /\ Setting(d) = 0
        /\ Packet("send", d)' = <<>> /\ Packet("get", d)' = <<>> /\ Setting(d)' = 0
    BY DEF Packet, Setting
  <1>2. Incoming(d)' = Incoming(d)
    BY <1>1 DEF Incoming
  <1>3. Wanted(d)' = Wanted(d)
    BY DEF Wanted
  <1> QED  BY <1>1, <1>2, <1>3, FlowKept

\* A step of the I/O thread between labels at which it holds no packet.
LEMMA IoQuiet ==
    ASSUME NEW d \in Conns, FlowInv(d), replies' = replies,
           ioPc \notin {"send", "get", "set"}, ioPc' \notin {"send", "get", "set"},
           c2s'[d] = c2s[d], s2c'[d] = s2c[d], outgoing'[d] = outgoing[d],
           rbuf'[d] = rbuf[d], frames'[d] = frames[d], owed'[d] = owed[d],
           broken'[d] = broken[d], promise'[d] = promise[d], closed'[d] = closed[d]
    PROVE  FlowInv(d)'
  <1>1. /\ Packet("send", d) = <<>> /\ Packet("get", d) = <<>> /\ Setting(d) = 0
        /\ Packet("send", d)' = <<>> /\ Packet("get", d)' = <<>> /\ Setting(d)' = 0
    BY DEF Packet, Setting
  <1>2. Incoming(d)' = Incoming(d)
    BY <1>1 DEF Incoming
  <1>3. Wanted(d)' = Wanted(d)
    BY DEF Wanted
  <1> QED  BY <1>1, <1>2, <1>3, FlowKept

\* A step of another actor leaves the I/O thread where it is.
LEMMA IoStays ==
    ASSUME NEW d \in Conns, UNCHANGED <<ioPc, ioConn, packet>>
    PROVE  /\ Packet("send", d)' = Packet("send", d)
           /\ Packet("get", d)' = Packet("get", d) /\ Setting(d)' = Setting(d)
  BY DEF Packet, Setting

\* Steps that touch no connection and not the I/O thread.
LEMMA FlowFrozen ==
    ASSUME NEW d \in Conns, FlowInv(d), UNCHANGED <<ioPc, ioConn, packet>>,
           replies' = replies,
           c2s'[d] = c2s[d], s2c'[d] = s2c[d], outgoing'[d] = outgoing[d],
           rbuf'[d] = rbuf[d], frames'[d] = frames[d], owed'[d] = owed[d],
           broken'[d] = broken[d], promise'[d] = promise[d], closed'[d] = closed[d]
    PROVE  FlowInv(d)'
  <1>1. /\ Packet("send", d)' = Packet("send", d)
        /\ Packet("get", d)' = Packet("get", d) /\ Setting(d)' = Setting(d)
    BY IoStays
  <1>2. Incoming(d)' = Incoming(d)
    BY <1>1 DEF Incoming
  <1>3. Wanted(d)' = Wanted(d)
    BY DEF Wanted
  <1> QED  BY <1>1, <1>2, <1>3, FlowKept

\* A promise keeps a value, and what was asked stays asked.
LEMMA ValueKept ==
    ASSUME NEW c \in Conns, ValueInv(c),
           AskedFrames(c) \subseteq AskedFrames(c)',
           \A i \in Ids : promise'[c][i].state = "value" => promise'[c][i] = promise[c][i]
    PROVE  ValueInv(c)'
  BY DEF ValueInv

\* Without a new request the ids that were given out are the same.
LEMMA AskedKept ==
    ASSUME NEW c \in Conns, replies' = replies, nextId' = nextId
    PROVE  /\ AskedFrames(c)' = AskedFrames(c)
           /\ AskedInv(c) => AskedInv(c)'
  <1>1. AskedFrames(c)' = AskedFrames(c)
    BY DEF AskedFrames
  <1> QED  BY <1>1 DEF AskedInv

\* At the start there is nothing on the way.
LEMMA ReplyInit == Init /\ PlainTexts => ReplyInv
  <1> SUFFICES ASSUME Init, PlainTexts, NEW c \in Conns
               PROVE  AskedInv(c) /\ ValueInv(c) /\ FlowInv(c)
    BY DEF ReplyInv
  <1> USE DEF Init, ClientInit, NetInit, PeerInit
  <1>1. AskedFrames(c) = {}
    BY EmptySeq DEF AskedFrames
  <1>2. Packet("send", c) = <<>> /\ Setting(c) = 0
    BY DEF Packet, Setting
  <1>3. Incoming(c) = <<>>
    BY DEF Incoming, Packet
  <1>4. /\ c2s[c] = <<>> /\ outgoing[c] = <<>> /\ broken[c] = FALSE
        /\ \A i \in Ids : frames[c][i] = <<>> /\ owed[c][i] = <<>>
        /\ \A i \in Ids : promise[c][i].state = "unused"
    BY DEF Unused
  <1>5. AskedInv(c) /\ ValueInv(c)
    BY <1>1, <1>4 DEF AskedInv, ValueInv
  <1>6. Len(<<>>) = 0 /\ \A k : k \notin 1..Len(<<>>)
    BY EmptySeq
  <1>7. \A A, q, p, o, r, fr, set, ow, gone, W :
           /\ q = <<>> /\ p = <<>> /\ o = <<>> /\ r = <<>> /\ set = 0
           /\ \A i \in Ids : fr[i] = <<>> /\ ow[i] = <<>>
           => Flow(A, q, p, o, r, fr, set, ow, gone, W)
    <2> SUFFICES ASSUME NEW A, NEW fr, NEW ow, NEW gone, NEW W,
                        \A i \in Ids : fr[i] = <<>> /\ ow[i] = <<>>
                 PROVE  Flow(A, <<>>, <<>>, <<>>, <<>>, fr, 0, ow, gone, W)
      OBVIOUS
    <2>1. OutOK(A, <<>>, <<>>, <<>>)
      BY <1>6 DEF OutOK, Rising, Before
    <2>2. InOK(A, <<>>, fr, 0, ow, gone)
      BY <1>6 DEF InOK, InOrder, InText, InEnd, Collected, OwedOK
    <2> QED  BY <1>6, <2>1, <2>2 DEF Flow, Going, Coming, Has
  <1>8. FlowInv(c)
    BY <1>2, <1>3, <1>4, <1>7 DEF FlowInv
  <1> QED  BY <1>5, <1>8


-----------------------------------------------------------------------------
(***************************************************************************)
(* What each step of the I/O thread does to the connection it is at.       *)
(***************************************************************************)
\* Taking frames off the front of the incoming frames, one into the packet.
LEMMA SplitIncoming ==
    ASSUME NEW b \in Seq(Frame), NEW s \in Seq(Frame)
    PROVE  /\ <<>> \o (b \o s) = b \o s
           /\ b # <<>> => <<Head(b)>> \o (Tail(b) \o s) = <<>> \o (b \o s)
           /\ \A n \in 0..Len(s) : n > 0 =>
                 <<Head(s)>> \o (Tail(Keep(s, n)) \o Drop(s, n)) = s
           /\ \A e \in Frame : /\ <<e>> \o (b \o s) # <<>>
                               /\ Head(<<e>> \o (b \o s)) = e
                               /\ Tail(<<e>> \o (b \o s)) = <<>> \o (b \o s)
  <1>1. b \o s \in Seq(Frame)
    BY ConcatProperties
  <1>2. \A x \in Seq(Frame) : <<>> \o x = x
    BY ConcatEmptySeq
  <1>3. \A x, y \in Seq(Frame) : x # <<>> => <<Head(x)>> \o (Tail(x) \o y) = x \o y
    <2> SUFFICES ASSUME NEW x \in Seq(Frame), NEW y \in Seq(Frame), x # <<>>
                 PROVE  <<Head(x)>> \o (Tail(x) \o y) = x \o y
      OBVIOUS
    <2>1. Head(x) \in Frame /\ Tail(x) \in Seq(Frame)
      BY HeadTailParts
    <2>2. <<Head(x)>> \in Seq(Frame)
      BY <2>1
    <2>3. <<Head(x)>> \o (Tail(x) \o y) = (<<Head(x)>> \o Tail(x)) \o y
      BY SMTT(30), <2>1, <2>2, ConcatAssociative
    <2>4. <<Head(x)>> \o Tail(x) = x
      BY MoveFront
    <2> QED  BY <2>3, <2>4
  <1>4. ASSUME NEW n \in 0..Len(s), n > 0
        PROVE  <<Head(s)>> \o (Tail(Keep(s, n)) \o Drop(s, n)) = s
    <2>1. /\ Keep(s, n) \in Seq(Frame) /\ Drop(s, n) \in Seq(Frame)
          /\ Len(Keep(s, n)) = n /\ \A k \in 1..n : Keep(s, n)[k] = s[k]
      BY KeepDropType
    <2>2. Len(s) \in Nat /\ n \in Nat /\ 1 \in 1..n /\ Len(<<>>) = 0
      BY <1>4, LenProperties, EmptySeq
    <2>3. Keep(s, n) # <<>> /\ s # <<>>
      BY <1>4, <2>1, <2>2
    <2>4. Head(Keep(s, n)) = Head(s)
      BY <2>1, <2>2, <2>3, HeadTailParts
    <2>5. Keep(s, n) \o Drop(s, n) = s
      BY KeepThenDrop
    <2> QED  BY <1>3, <2>1, <2>3, <2>4, <2>5
  <1>5. ASSUME NEW e \in Frame
        PROVE  /\ <<e>> \o (b \o s) # <<>>
               /\ Head(<<e>> \o (b \o s)) = e
               /\ Tail(<<e>> \o (b \o s)) = <<>> \o (b \o s)
    <2>1. /\ <<e>> \in Seq(Frame) /\ <<e>> # <<>> /\ Head(<<e>>) = e /\ Tail(<<e>>) = <<>>
      OBVIOUS
    <2> QED  BY <1>1, <2>1, HeadTailConcat
  <1> QED  BY <1>1, <1>2, <1>3, <1>4, <1>5

\* has_incoming_data() and incoming() move frames between the socket, the
\* buffer and the packet, and lose none.
LEMMA IncomingKept ==
    ASSUME TypeInv, NEW c \in Conns, c = ioConn, IoFrameReady \/ IoReceive
    PROVE  /\ Incoming(c)' = Incoming(c)
           /\ Packet("send", c) = <<>> /\ Setting(c) = 0
           /\ Packet("send", c)' = <<>> /\ Setting(c)' = 0
  <1> USE DEF At, Goto
  <1>1. /\ ioPc = "incoming" /\ ioPc' \in {"get", "outgoing"} /\ ioConn' = c
        /\ UNCHANGED <<connVars, userVars, c2s, broken>>
    BY DEF IoFrameReady, IoReceive, netVars
  <1>2. /\ Packet("send", c) = <<>> /\ Packet("get", c) = <<>> /\ Setting(c) = 0
        /\ Packet("send", c)' = <<>> /\ Setting(c)' = 0
        /\ Packet("get", c)' = IF ioPc' = "get" THEN <<packet'>> ELSE <<>>
    BY <1>1 DEF Packet, Setting
  <1>4. rbuf[c] \in Seq(Frame) /\ s2c[c] \in Seq(Frame)
    BY DEF TypeInv, TypeOK, NetTypeOK, ClientTypeOK
  <1>5. Incoming(c)' = Incoming(c)
    <2>1. CASE IoFrameReady
      <3>1. /\ rbuf[c] # <<>> /\ ioPc' = "get" /\ packet' = Head(rbuf[c])
            /\ rbuf'[c] = Tail(rbuf[c]) /\ s2c'[c] = s2c[c]
        BY <2>1 DEF IoFrameReady, netVars, TypeInv, TypeOK, ClientTypeOK
      <3>2. Incoming(c)' = <<Head(rbuf[c])>> \o (Tail(rbuf[c]) \o s2c[c])
        BY <1>2, <3>1 DEF Incoming
      <3>3. Incoming(c) = <<>> \o (rbuf[c] \o s2c[c])
        BY <1>2 DEF Incoming
      <3> QED  BY <1>4, <3>1, <3>2, <3>3, SplitIncoming
    <2>2. CASE IoReceive
      <3>1. PICK taken \in 0..Len(s2c[c]) :
              /\ rbuf[c] = <<>> /\ s2c'[c] = Drop(s2c[c], taken)
              /\ taken > 0 => /\ packet' = Head(s2c[c]) /\ ioPc' = "get"
                              /\ rbuf'[c] = Tail(Keep(s2c[c], taken))
              /\ ~(taken > 0) => ioPc' = "outgoing" /\ rbuf'[c] = <<>>
        BY <2>2 DEF IoReceive, TypeInv, TypeOK, ClientTypeOK, NetTypeOK
      <3>2. Incoming(c) = s2c[c]
        <4>1. <<>> \in Seq(Frame)
          BY EmptySeq
        <4> QED  BY <1>2, <1>4, <3>1, <4>1, ConcatEmptySeq DEF Incoming
      <3>3. CASE taken > 0
        <4>1. Incoming(c)' =
                <<Head(s2c[c])>> \o (Tail(Keep(s2c[c], taken)) \o Drop(s2c[c], taken))
          BY <1>2, <3>1, <3>3 DEF Incoming
        <4> QED  BY <1>4, <3>2, <3>3, <4>1, SplitIncoming
      <3>4. CASE ~(taken > 0)
        <4>1. taken = 0
          BY <1>4, <3>4, LenProperties
        <4>2. s2c'[c] = s2c[c]
          <5>1. Keep(s2c[c], 0) \o Drop(s2c[c], 0) = s2c[c] /\ Keep(s2c[c], 0) = <<>>
            BY <1>4, <4>1, KeepThenDrop, KeepDropEnds
          <5>2. Drop(s2c[c], 0) \in Seq(Frame)
            BY <1>4, <4>1, KeepDropType
          <5> QED  BY <3>1, <4>1, <5>1, <5>2, ConcatEmptySeq
        <4>3. Incoming(c)' = <<>> \o (<<>> \o s2c[c])
          BY <1>2, <3>1, <3>4, <4>2 DEF Incoming
        <4>4. <<>> \in Seq(Frame)
          BY EmptySeq
        <4> QED  BY <1>4, <3>2, <4>3, <4>4, ConcatEmptySeq
      <3> QED  BY <3>3, <3>4
    <2> QED  BY <2>1, <2>2
  <1> QED  BY <1>2, <1>5

LEMMA FlowReceives ==
    ASSUME TypeInv, NEW c \in Conns, c = ioConn, FlowInv(c),
           IoFrameReady \/ IoReceive, UNCHANGED owed
    PROVE  FlowInv(c)'
  <1>1. UNCHANGED <<connVars, userVars, c2s, broken, owed>>
    BY DEF IoFrameReady, IoReceive, netVars
  <1>2. /\ Incoming(c)' = Incoming(c)
        /\ Packet("send", c)' = Packet("send", c) /\ Setting(c)' = Setting(c)
    BY IncomingKept
  <1>3. Wanted(c)' = Wanted(c)
    BY <1>1 DEF Wanted, connVars
  <1> QED  BY <1>1, <1>2, <1>3, FlowKept DEF connVars, userVars


\* get_request() finds the entry and adds the frame to it.
LEMMA FlowGetRequest ==
    ASSUME TypeInv, PlainTexts, NEW c \in Conns, c = ioConn, FlowInv(c),
           IoGetRequest, proc' = "running", UNCHANGED owed
    PROVE  FlowInv(c)'
  <1> USE DEF At, Goto
  <1>1. /\ ioPc = "get" /\ ioConn' = c /\ packet' = packet
        /\ ioPc' = IF packet.payload = END THEN "set" ELSE "outgoing"
        /\ frames' = [frames EXCEPT ![c][packet.id] = Append(@, packet.payload)]
        /\ UNCHANGED <<replies, closed, outgoing, promise, rbuf, c2s, s2c, broken, owed>>
    BY DEF IoGetRequest, netVars, userVars, bufVars
  <1>2. /\ packet \in Frame /\ rbuf[c] \in Seq(Frame) /\ s2c[c] \in Seq(Frame)
        /\ frames \in [Conns -> [Ids -> Seq(Text)]]
    BY DEF TypeInv, TypeOK, NetTypeOK, ClientTypeOK
  <1>3. /\ Packet("send", c) = <<>> /\ Packet("get", c) = <<packet>> /\ Setting(c) = 0
        /\ Packet("send", c)' = <<>> /\ Packet("get", c)' = <<>>
        /\ Setting(c)' = IF packet.payload = END THEN packet.id ELSE 0
    BY <1>1 DEF Packet, Setting
  <1>4. /\ Incoming(c) # <<>> /\ Head(Incoming(c)) = packet
        /\ Tail(Incoming(c)) = Incoming(c)'
    <2>1. /\ Incoming(c) = <<packet>> \o (rbuf[c] \o s2c[c])
          /\ Incoming(c)' = <<>> \o (rbuf[c] \o s2c[c])
      BY <1>1, <1>3 DEF Incoming
    <2>2. PICK b \in Seq(Frame), s \in Seq(Frame), e \in Frame :
             b = rbuf[c] /\ s = s2c[c] /\ e = packet
      BY <1>2
    <2>3. /\ <<e>> \o (b \o s) # <<>> /\ Head(<<e>> \o (b \o s)) = e
          /\ Tail(<<e>> \o (b \o s)) = <<>> \o (b \o s)
      BY SplitIncoming
    <2> QED  BY <2>1, <2>2, <2>3
  <1>5. frames'[c] = [frames[c] EXCEPT ![packet.id] = Append(@, packet.payload)]
    BY <1>1, <1>2
  <1>6. Wanted(c)' = Wanted(c) /\ AskedFrames(c)' = AskedFrames(c)
    BY <1>1 DEF Wanted, AskedFrames
  <1>7. PICK A, q, p, o, r, fr, ow, gone, W :
           /\ A = AskedFrames(c) /\ q = c2s[c] /\ p = <<>> /\ o = outgoing[c]
           /\ r = Incoming(c) /\ fr = frames[c] /\ ow = owed[c] /\ gone = broken[c]
           /\ W = Wanted(c)
    OBVIOUS
  <1>8. FlowValues(A, q, p, o, r, fr, ow) /\ Flow(A, q, p, o, r, fr, 0, ow, gone, W)
    BY <1>3, <1>7, StateValues DEF FlowInv
  <1>9. r # <<>> /\ Head(r) = packet
    BY <1>4, <1>7
  <1>10. Flow(A, q, p, o, Tail(r), [fr EXCEPT ![Head(r).id] = Append(@, Head(r).payload)],
              IF Head(r).payload = END THEN Head(r).id ELSE 0, ow, gone, W)
    BY <1>8, <1>9, FlowGot
  <1>11. Flow(AskedFrames(c)', c2s'[c], Packet("send", c)', outgoing'[c], Incoming(c)',
              frames'[c], Setting(c)', owed'[c], broken'[c], W)
    BY <1>1, <1>3, <1>4, <1>5, <1>6, <1>7, <1>9, <1>10
  <1> QED  BY <1>6, <1>7, <1>11, FlowNext

\* set_value() gives the promise the whole reply.
LEMMA FlowSetValue ==
    ASSUME TypeInv, PlainTexts, NEW c \in Conns, c = ioConn, FlowInv(c),
           IoSetValue, proc' = "running", UNCHANGED owed
    PROVE  /\ FlowInv(c)'
           /\ \E f \in AskedFrames(c) :
                 f.id = packet.id /\ frames[c][packet.id] = <<f.payload, END>>
  <1> USE DEF At, Goto
  <1>1. /\ ioPc = "set" /\ ioConn' = c /\ packet' = packet /\ ioPc' = "remove"
        /\ ~Satisfied(promise[c][packet.id])
        /\ promise' = [promise EXCEPT ![c][packet.id] =
                          IF Satisfied(@) THEN @ ELSE Value(frames[c][packet.id])]
        /\ frames' = [frames EXCEPT ![c][packet.id] = <<>>]
        /\ UNCHANGED <<replies, closed, outgoing, rbuf, c2s, s2c, broken, owed>>
    BY DEF IoSetValue, netVars, userVars, bufVars
  <1>2. /\ packet.id \in Ids
        /\ frames \in [Conns -> [Ids -> Seq(Text)]]
        /\ promise \in [Conns -> [Ids -> Promise]]
    BY DEF TypeInv, TypeOK, ClientTypeOK, Frame
  <1>3. /\ Packet("send", c) = <<>> /\ Packet("get", c) = <<>> /\ Setting(c) = packet.id
        /\ Packet("send", c)' = <<>> /\ Packet("get", c)' = <<>> /\ Setting(c)' = 0
    BY <1>1 DEF Packet, Setting
  <1>4. Incoming(c)' = Incoming(c)
    BY <1>1, <1>3 DEF Incoming
  <1>5. frames'[c] = [frames[c] EXCEPT ![packet.id] = <<>>]
    BY <1>1, <1>2
  <1>6. AskedFrames(c)' = AskedFrames(c) /\ Wanted(c) \ {packet.id} \subseteq Wanted(c)'
    <2>1. \A i \in Ids : i # packet.id => promise'[c][i] = promise[c][i]
      BY <1>1, <1>2
    <2> QED  BY <1>1, <2>1 DEF Wanted, AskedFrames
  <1>7. PICK A, q, p, o, r, fr, set, ow, gone, W :
           /\ A = AskedFrames(c) /\ q = c2s[c] /\ p = <<>> /\ o = outgoing[c]
           /\ r = Incoming(c) /\ fr = frames[c] /\ set = packet.id
           /\ ow = owed[c] /\ gone = broken[c] /\ W = Wanted(c)
    OBVIOUS
  <1>8. /\ FlowValues(A, q, p, o, r, fr, ow) /\ Flow(A, q, p, o, r, fr, set, ow, gone, W)
        /\ set \in Ids
    BY <1>2, <1>3, <1>7, StateValues DEF FlowInv
  <1>9. /\ Flow(A, q, p, o, r, [fr EXCEPT ![set] = <<>>], 0, ow, gone, W \ {set})
        /\ \E f \in A : f.id = set /\ fr[set] = <<f.payload, END>>
    <2>1. set \in Ids
      BY <1>8
    <2>2. FlowValues(A, q, p, o, r, fr, ow)
      BY <1>8
    <2>3. Flow(A, q, p, o, r, fr, set, ow, gone, W)
      BY <1>8
    <2>4. Flow(A, q, p, o, r, [fr EXCEPT ![set] = <<>>], 0, ow, gone, W \ {set})
      BY <2>1, <2>2, <2>3, FlowSet
    <2>5. \E f \in A : f.id = set /\ fr[set] = <<f.payload, END>>
      <3>1. set # 0
        BY <2>1 DEF Ids
      <3> QED  BY <2>3, <3>1 DEF Flow, InOK, Collected
    <2> QED  BY <2>4, <2>5
  <1>10. Flow(AskedFrames(c)', c2s'[c], Packet("send", c)', outgoing'[c], Incoming(c)',
              frames'[c], Setting(c)', owed'[c], broken'[c], W \ {set})
    BY <1>1, <1>3, <1>4, <1>5, <1>6, <1>7, <1>9
  <1>11. FlowInv(c)'
    BY <1>6, <1>7, <1>10, FlowNext
  <1> QED  BY <1>7, <1>9, <1>11

\* pop_outgoing() and send(), also where the packet gets nowhere.
LEMMA FlowSends ==
    ASSUME TypeInv, PlainTexts, NEW c \in Conns, c = ioConn, FlowInv(c),
           IoPopOutgoing \/ IoSend \/ IoSendIntoVoid \/ IoSendFails, UNCHANGED owed
    PROVE  FlowInv(c)'
  <1> USE DEF At, Goto
  <1>1. /\ UNCHANGED <<replies, closed, frames, promise, rbuf, s2c, broken, owed>>
        /\ ioPc \in {"pop", "send"} /\ ioPc' \notin {"get", "set"}
    BY NextConnectionType
    DEF IoPopOutgoing, IoSend, IoSendIntoVoid, IoSendFails, netVars, userVars, bufVars,
        connVars, TypeInv, TypeOK, ClientTypeOK
  <1>2. /\ packet \in Frame
        /\ outgoing \in [Conns -> Seq(Frame)] /\ c2s \in [Conns -> Seq(Frame)]
    BY DEF TypeInv, TypeOK, NetTypeOK, ClientTypeOK
  <1>3. /\ Packet("get", c) = <<>> /\ Setting(c) = 0
        /\ Packet("get", c)' = <<>> /\ Setting(c)' = 0
    BY <1>1 DEF Packet, Setting
  <1>4. Incoming(c)' = Incoming(c)
    BY <1>1, <1>3 DEF Incoming
  <1>5. Wanted(c)' = Wanted(c) /\ AskedFrames(c)' = AskedFrames(c)
    BY <1>1 DEF Wanted, AskedFrames
  <1>6. PICK A, q, p, o, r, fr, set, ow, gone, W :
           /\ A = AskedFrames(c) /\ q = c2s[c] /\ p = Packet("send", c) /\ o = outgoing[c]
           /\ r = Incoming(c) /\ fr = frames[c] /\ set = 0
           /\ ow = owed[c] /\ gone = broken[c] /\ W = Wanted(c)
    OBVIOUS
  <1>7. FlowValues(A, q, p, o, r, fr, ow) /\ Flow(A, q, p, o, r, fr, set, ow, gone, W)
    BY <1>3, <1>6, StateValues DEF FlowInv
  <1>8. /\ p = <<>> /\ o # <<>> =>
              Flow(A, q, <<Head(o)>>, Tail(o), r, fr, set, ow, gone, W)
        /\ \A f \in Frame : p = <<f>> =>
              Flow(A, Append(q, f), <<>>, o, r, fr, set, ow, gone, W)
        /\ Flow(A, q, <<>>, o, r, fr, set, ow, gone, W)
    BY <1>7, FlowOut
  <1>9. SUFFICES Flow(A, c2s'[c], Packet("send", c)', outgoing'[c], r, fr, set, ow, gone, W)
    BY <1>1, <1>3, <1>4, <1>5, <1>6, FlowNext
  <1>10. CASE IoPopOutgoing
    <2>1. /\ ioPc = "pop" /\ ioPc' = "send" /\ ioConn' = c /\ packet' = Head(outgoing[c])
          /\ outgoing' = [outgoing EXCEPT ![c] = Tail(@)] /\ c2s' = c2s
      BY <1>10 DEF IoPopOutgoing, netVars
    <2>2. o # <<>>
      BY <1>6, <2>1 DEF TypeInv, PopFinds
    <2>3. Packet("send", c) = <<>> /\ Packet("send", c)' = <<Head(o)>>
      BY <1>6, <2>1 DEF Packet
    <2>4. c2s'[c] = q /\ outgoing'[c] = Tail(o)
      BY <1>2, <1>6, <2>1
    <2> QED  BY <1>6, <1>8, <2>2, <2>3, <2>4
  <1>11. CASE IoSend
    <2>1. /\ ioPc = "send" /\ ioPc' \in {"incoming", "done"} /\ outgoing' = outgoing
          /\ c2s' = [c2s EXCEPT ![c] = Append(@, packet)]
      BY <1>11, NextConnectionType DEF IoSend, connVars, TypeInv, TypeOK, ClientTypeOK
    <2>2. Packet("send", c) = <<packet>> /\ Packet("send", c)' = <<>>
      BY <2>1 DEF Packet
    <2>3. c2s'[c] = Append(q, packet) /\ outgoing'[c] = o
      BY <1>2, <1>6, <2>1
    <2> QED  BY <1>2, <1>6, <1>8, <2>2, <2>3
  <1>12. CASE IoSendIntoVoid \/ IoSendFails
    <2>1. /\ ioPc' \in {"incoming", "done", "failed"} /\ outgoing' = outgoing
          /\ c2s' = c2s
      BY <1>12, NextConnectionType
      DEF IoSendIntoVoid, IoSendFails, connVars, netVars, TypeInv, TypeOK, ClientTypeOK
    <2>2. Packet("send", c)' = <<>>
      BY <2>1 DEF Packet
    <2> QED  BY <1>6, <1>8, <2>1, <2>2
  <1> QED  BY <1>10, <1>11, <1>12


\* close_with_error() forgets the queued requests.
LEMMA FlowCloses ==
    ASSUME TypeInv, PlainTexts, NEW c \in Conns, c = ioConn, FlowInv(c),
           CloseWithError(c), ioPc \in {"lost", "failed"},
           ioPc' \in {"outgoing", "incoming", "done"},
           UNCHANGED <<replies, rbuf, c2s, s2c, broken, owed>>
    PROVE  FlowInv(c)'
  <1>1. closed' = [closed EXCEPT ![c] = TRUE] /\ outgoing' = [outgoing EXCEPT ![c] = <<>>]
        /\ frames' = frames
    BY DEF CloseWithError
  <1>2. closed'[c] /\ outgoing'[c] = <<>>
    BY <1>1 DEF TypeInv, TypeOK, ClientTypeOK
  <1>3. /\ Packet("send", c) = <<>> /\ Packet("get", c) = <<>> /\ Setting(c) = 0
        /\ Packet("send", c)' = <<>> /\ Packet("get", c)' = <<>> /\ Setting(c)' = 0
    BY DEF Packet, Setting
  <1>4. Incoming(c)' = Incoming(c)
    BY <1>3 DEF Incoming
  <1>5. Wanted(c) \subseteq Wanted(c)' /\ AskedFrames(c)' = AskedFrames(c)
    BY <1>2 DEF Wanted, AskedFrames
  <1>6. PICK A, q, p, o, r, fr, set, ow, gone, W :
           /\ A = AskedFrames(c) /\ q = c2s[c] /\ p = Packet("send", c) /\ o = outgoing[c]
           /\ r = Incoming(c) /\ fr = frames[c] /\ set = Setting(c)
           /\ ow = owed[c] /\ gone = broken[c] /\ W = Wanted(c)
    OBVIOUS
  <1>7. FlowValues(A, q, p, o, r, fr, ow) /\ Flow(A, q, p, o, r, fr, set, ow, gone, W)
    BY <1>6, StateValues DEF FlowInv
  <1>8. Flow(A, q, <<>>, <<>>, r, fr, set, ow, gone, W)
    BY <1>7, FlowOut
  <1>9. Flow(AskedFrames(c)', c2s'[c], Packet("send", c)', outgoing'[c], Incoming(c)',
              frames'[c], Setting(c)', owed'[c], broken'[c], W)
    BY <1>1, <1>2, <1>3, <1>4, <1>5, <1>6, <1>8
  <1> QED  BY <1>5, <1>6, <1>9, FlowNext

\* A frame that the server sends is the last on its way in.
LEMMA IncomingSent ==
    ASSUME TypeInv, NEW c \in Conns, NEW e \in Frame, s2c'[c] = Append(s2c[c], e),
           UNCHANGED <<ioPc, ioConn, packet, rbuf>>
    PROVE  Incoming(c)' = Append(Incoming(c), e)
  <1>1. Packet("get", c)' = Packet("get", c)
    BY IoStays
  <1>2. rbuf[c] \in Seq(Frame) /\ s2c[c] \in Seq(Frame) /\ packet \in Frame
    BY DEF TypeInv, TypeOK, NetTypeOK, ClientTypeOK
  <1>3. Packet("get", c) \in Seq(Frame)
    BY <1>2, EmptySeq DEF Packet
  <1>4. PICK x \in Seq(Frame), y \in Seq(Frame), z \in Seq(Frame) :
          x = Packet("get", c) /\ y = rbuf[c] /\ z = s2c[c]
    BY <1>2, <1>3
  <1>5. y \o Append(z, e) = Append(y \o z, e) /\ y \o z \in Seq(Frame)
    BY AppendConcat, ConcatProperties
  <1>6. x \o Append(y \o z, e) = Append(x \o (y \o z), e)
    BY <1>5, AppendConcat
  <1> QED  BY <1>1, <1>4, <1>5, <1>6 DEF Incoming

\* The server takes a request, sends or drops a frame of a reply.
LEMMA FlowPeer ==
    ASSUME TypeInv, PlainTexts, NEW c \in Conns, FlowInv(c),
           PeerNext(c), UNCHANGED clientVars
    PROVE  FlowInv(c)'
  <1>1. /\ UNCHANGED <<ioPc, ioConn, packet, replies, closed, promise, outgoing, frames>>
        /\ UNCHANGED rbuf
    BY DEF clientVars, connVars, bufVars, ioVars, userVars
  <1>2. /\ Packet("send", c)' = Packet("send", c)
        /\ Packet("get", c)' = Packet("get", c) /\ Setting(c)' = Setting(c)
    BY <1>1, IoStays
  <1>3. Wanted(c)' = Wanted(c) /\ AskedFrames(c)' = AskedFrames(c)
    BY <1>1 DEF Wanted, AskedFrames
  <1>4. /\ c2s \in [Conns -> Seq(Frame)] /\ s2c \in [Conns -> Seq(Frame)]
        /\ owed \in [Conns -> [Ids -> Seq(Text)]] /\ rbuf \in [Conns -> Seq(Frame)]
        /\ packet \in Frame
    BY DEF TypeInv, TypeOK, NetTypeOK, ClientTypeOK, PeerTypeOK
  <1>5. PICK A, q, p, o, r, fr, set, ow, gone, W :
           /\ A = AskedFrames(c) /\ q = c2s[c] /\ p = Packet("send", c) /\ o = outgoing[c]
           /\ r = Incoming(c) /\ fr = frames[c] /\ set = Setting(c)
           /\ ow = owed[c] /\ gone = broken[c] /\ W = Wanted(c)
    OBVIOUS
  <1>6. FlowValues(A, q, p, o, r, fr, ow) /\ Flow(A, q, p, o, r, fr, set, ow, gone, W)
    BY <1>5, StateValues DEF FlowInv
  <1>7. SUFFICES Flow(A, c2s'[c], p, o, Incoming(c)', fr, set, owed'[c], broken'[c], W)
    BY <1>1, <1>2, <1>3, <1>5, FlowNext
  <1>8. CASE PeerTake(c)
    <2>1. /\ q # <<>> /\ s2c' = s2c /\ broken' = broken
          /\ owed' = [owed EXCEPT ![c][Head(q).id] = @ \o <<Head(q).payload, END>>]
          /\ c2s' = [c2s EXCEPT ![c] = Tail(@)]
      BY <1>5, <1>8 DEF PeerTake
    <2>2. c2s'[c] = Tail(q) /\ broken'[c] = gone
          /\ owed'[c] = [ow EXCEPT ![Head(q).id] = @ \o <<Head(q).payload, END>>]
      BY <1>4, <1>5, <2>1
    <2>3. Incoming(c)' = r
      BY <1>1, <1>2, <1>5, <2>1 DEF Incoming
    <2>4. Flow(A, Tail(q), p, o, r, fr, set,
               [ow EXCEPT ![Head(q).id] = @ \o <<Head(q).payload, END>>], gone, W)
      BY <1>6, <2>1, FlowTaken
    <2> QED  BY <2>2, <2>3, <2>4
  <1>9. ASSUME NEW i \in Ids, PeerReply(c, i)
        PROVE  Flow(A, c2s'[c], p, o, Incoming(c)', fr, set, owed'[c], broken'[c], W)
    <2> DEFINE e == [id |-> i, payload |-> Head(ow[i])]
    <2>1. /\ ow[i] # <<>> /\ ~gone /\ c2s' = c2s /\ broken' = broken
          /\ owed' = [owed EXCEPT ![c][i] = Tail(@)]
          /\ s2c' = [s2c EXCEPT ![c] = Append(@, e)]
      BY <1>5, <1>9 DEF PeerReply
    <2>2. /\ c2s'[c] = q /\ broken'[c] = gone /\ owed'[c] = [ow EXCEPT ![i] = Tail(@)]
          /\ s2c'[c] = Append(s2c[c], e)
      BY <1>4, <1>5, <2>1
    <2>3. e \in Frame
      <3>1. ow[i] \in Seq(Text)
        BY <1>4, <1>5
      <3>2. Head(ow[i]) \in Text
        BY <2>1, <3>1, HeadTailParts
      <3> QED  BY <3>2 DEF Frame
    <2>4. Flow(A, q, p, o, Append(r, e), fr, set, [ow EXCEPT ![i] = Tail(@)], gone, W)
      BY <1>6, <2>1, FlowReply
    <2> HIDE DEF e
    <2>5. Incoming(c)' = Append(r, e)
      BY <1>1, <1>5, <2>2, <2>3, IncomingSent
    <2> QED  BY <2>2, <2>4, <2>5
  <1>10. ASSUME NEW i \in Ids, PeerDrop(c, i)
         PROVE  Flow(A, c2s'[c], p, o, Incoming(c)', fr, set, owed'[c], broken'[c], W)
    <2>1. /\ ow[i] # <<>> /\ gone /\ UNCHANGED netVars
          /\ owed' = [owed EXCEPT ![c][i] = Tail(@)]
      BY <1>5, <1>10 DEF PeerDrop
    <2>2. /\ c2s'[c] = q /\ broken'[c] = gone /\ owed'[c] = [ow EXCEPT ![i] = Tail(@)]
      BY <1>4, <1>5, <2>1 DEF netVars
    <2>3. Incoming(c)' = r
      BY <1>1, <1>2, <1>5, <2>1 DEF Incoming, netVars
    <2>4. Flow(A, q, p, o, r, fr, set, [ow EXCEPT ![i] = Tail(@)], gone, W)
      BY <1>6, <2>1, FlowReply
    <2> QED  BY <2>2, <2>3, <2>4
  <1> QED  BY <1>8, <1>9, <1>10 DEF PeerNext

\* The connection breaks.
LEMMA FlowBreaks ==
    ASSUME TypeInv, PlainTexts, NEW c \in Conns, FlowInv(c), Break(c)
    PROVE  FlowInv(c)'
  <1>1. /\ UNCHANGED <<ioPc, ioConn, packet, replies, closed, promise, outgoing, frames>>
        /\ UNCHANGED <<rbuf, owed>>
    BY DEF Break, clientVars, connVars, bufVars, ioVars, userVars
  <1>2. /\ Packet("send", c)' = Packet("send", c)
        /\ Packet("get", c)' = Packet("get", c) /\ Setting(c)' = Setting(c)
    BY <1>1, IoStays
  <1>3. Wanted(c)' = Wanted(c) /\ AskedFrames(c)' = AskedFrames(c)
    BY <1>1 DEF Wanted, AskedFrames
  <1>4. /\ c2s \in [Conns -> Seq(Frame)] /\ s2c \in [Conns -> Seq(Frame)]
        /\ broken \in [Conns -> BOOLEAN] /\ rbuf \in [Conns -> Seq(Frame)]
        /\ packet \in Frame
    BY DEF TypeInv, TypeOK, NetTypeOK, ClientTypeOK
  <1>5. PICK A, q, p, o, r, fr, set, ow, gone, W :
           /\ A = AskedFrames(c) /\ q = c2s[c] /\ p = Packet("send", c) /\ o = outgoing[c]
           /\ r = Incoming(c) /\ fr = frames[c] /\ set = Setting(c)
           /\ ow = owed[c] /\ gone = broken[c] /\ W = Wanted(c)
    OBVIOUS
  <1>6. FlowValues(A, q, p, o, r, fr, ow) /\ Flow(A, q, p, o, r, fr, set, ow, gone, W)
    BY <1>5, StateValues DEF FlowInv
  <1>7. PICK n \in 0..Len(c2s[c]) : c2s' = [c2s EXCEPT ![c] = Keep(c2s[c], n)]
    BY DEF Break, BreakConnection
  <1>8. PICK m \in 0..Len(s2c[c]) : s2c' = [s2c EXCEPT ![c] = Keep(s2c[c], m)]
    BY DEF Break, BreakConnection
  <1>9. c2s'[c] = Keep(q, n) /\ s2c'[c] = Keep(s2c[c], m) /\ broken'[c] /\ n \in 0..Len(q)
    BY <1>4, <1>5, <1>7, <1>8 DEF Break, BreakConnection
  <1>10. PICK k \in 0..Len(r) : Incoming(c)' = Keep(r, k)
    <2>1. Packet("get", c) \in Seq(Frame)
      BY <1>4, EmptySeq DEF Packet
    <2>2. PICK x \in Seq(Frame), y \in Seq(Frame), z \in Seq(Frame) :
            x = Packet("get", c) /\ y = rbuf[c] /\ z = s2c[c]
      BY <1>4, <2>1
    <2>3. m \in 0..Len(z) /\ y \o z \in Seq(Frame)
      BY <2>2, ConcatProperties
    <2>4. PICK l \in 0..Len(y \o z) : y \o Keep(z, m) = Keep(y \o z, l)
      BY ZenonT(30), <2>3, KeepConcat
    <2>5. PICK k \in 0..Len(x \o (y \o z)) : x \o Keep(y \o z, l) = Keep(x \o (y \o z), k)
      <3>1. PICK v \in Seq(Frame) : v = y \o z
        BY <2>3
      <3>2. l \in 0..Len(v)
        BY <3>1
      <3>3. \E k \in 0..Len(x \o v) : x \o Keep(v, l) = Keep(x \o v, k)
        BY ZenonT(30), <3>2, KeepConcat
      <3> QED  BY <3>1, <3>3
    <2>6. r = x \o (y \o z) /\ Incoming(c)' = x \o (y \o Keep(z, m))
      BY <1>1, <1>2, <1>5, <1>9, <2>2 DEF Incoming
    <2> QED  BY <2>4, <2>5, <2>6
  <1>11. PICK late : late = broken'[c]
    OBVIOUS
  <1>12. Flow(A, Keep(q, n), p, o, Keep(r, k), fr, set, ow, late, W)
    BY <1>6, <1>9, <1>11, FlowBroken
  <1> QED  BY <1>1, <1>2, <1>3, <1>5, <1>9, <1>10, <1>11, <1>12, FlowNext


\* send_request() gives the request the next id.
LEMMA AskedMore ==
    ASSUME TypeInv, NEW u \in User, NEW c \in Conns, SendRequest(u, c)
    PROVE  LET req == [id |-> nextId[c], payload |-> Messages[u][Len(replies[u]) + 1]]
           IN  /\ req \in Frame
               /\ AskedFrames(c)' = AskedFrames(c) \cup {req}
               /\ \A d \in Conns : d # c => AskedFrames(d)' = AskedFrames(d)
  <1> DEFINE n   == Len(replies[u])
             id  == nextId[c]
             req == [id |-> id, payload |-> Messages[u][n + 1]]
  <1>1. /\ id <= MaxId /\ n # Len(Messages[u])
        /\ replies' = [replies EXCEPT ![u] = Append(@, <<c, id>>)]
    BY DEF SendRequest, AllSent
  <1>2. /\ id \in 1..(MaxId + 1) /\ replies \in [User -> Seq(Conns \X Ids)]
        /\ Messages[u] \in Seq(Text)
    BY DEF TypeInv, TypeOK, ClientTypeOK
  <1>3. id \in Ids
    BY <1>1, <1>2 DEF Ids
  <1>4. n \in Nat /\ n + 1 \in 1..Len(Messages[u])
    <2>1. n \in Nat /\ Len(Messages[u]) \in Nat /\ n <= Len(Messages[u])
      BY <1>2, LenProperties DEF TypeInv, SentBound
    <2> QED  BY <1>1, <2>1
  <1>5. Messages[u][n + 1] \in Text
    BY <1>2, <1>4, ElementOfSeq
  <1>6. req \in Frame
    BY <1>3, <1>5 DEF Frame
  <1>7. /\ Len(replies'[u]) = n + 1 /\ replies'[u][n + 1] = <<c, id>>
        /\ \A k \in 1..n : replies'[u][k] = replies[u][k]
    <2>1. replies'[u] = Append(replies[u], <<c, id>>)
      BY <1>1, <1>2
    <2>2. PICK s \in Seq(Conns \X Ids), e \in Conns \X Ids :
             s = replies[u] /\ e = <<c, id>>
      BY <1>2, <1>3
    <2>3. /\ Len(Append(s, e)) = Len(s) + 1 /\ Append(s, e)[Len(s) + 1] = e
          /\ \A k \in 1..Len(s) : Append(s, e)[k] = s[k]
      BY AppendParts
    <2> QED  BY <2>1, <2>2, <2>3
  <1>8. \A v \in User : v # u => replies'[v] = replies[v]
    BY <1>1, <1>2
  <1>9. /\ \A k \in 1..n : k \in 1..(n + 1)
        /\ \A k \in 1..(n + 1) : k \in 1..n \/ k = n + 1
        /\ n + 1 \in 1..(n + 1)
    BY <1>4
  <1>10. req.id = id /\ req.payload = Messages[u][n + 1]
    OBVIOUS
  <1> HIDE DEF id, req
  <1>11. ASSUME NEW d \in Conns, NEW f \in AskedFrames(d) PROVE f \in AskedFrames(d)'
    <2>1. f \in Frame
      BY <1>11 DEF AskedFrames
    <2>0. PICK v \in User : \E k \in 1..Len(replies[v]) :
             replies[v][k] = <<d, f.id>> /\ f.payload = Messages[v][k]
      BY <1>11 DEF AskedFrames
    <2>2. PICK k \in 1..Len(replies[v]) :
             replies[v][k] = <<d, f.id>> /\ f.payload = Messages[v][k]
      BY <2>0
    <2>3. k \in 1..Len(replies'[v]) /\ replies'[v][k] = <<d, f.id>>
      <3>1. CASE v = u
        BY <1>7, <1>9, <2>2, <3>1
      <3>2. CASE v # u
        BY <1>8, <2>2, <3>2
      <3> QED  BY <3>1, <3>2
    <2> QED  BY <2>1, <2>2, <2>3 DEF AskedFrames
  <1>12. ASSUME NEW d \in Conns, NEW f \in AskedFrames(d)'
         PROVE  f \in AskedFrames(d) \/ (d = c /\ f = req)
    <2>1. f \in Frame
      BY <1>12 DEF AskedFrames
    <2>0. PICK v \in User : \E k \in 1..Len(replies'[v]) :
             replies'[v][k] = <<d, f.id>> /\ f.payload = Messages[v][k]
      BY <1>12 DEF AskedFrames
    <2>2. PICK k \in 1..Len(replies'[v]) :
             replies'[v][k] = <<d, f.id>> /\ f.payload = Messages[v][k]
      BY <2>0
    <2>3. CASE v = u /\ k = n + 1
      <3>1. d = c /\ f.id = id /\ f.payload = Messages[u][n + 1]
        BY <1>7, <2>2, <2>3
      <3>2. f = req
        BY <1>6, <1>10, <2>1, <3>1 DEF Frame
      <3> QED  BY <3>1, <3>2
    <2>4. CASE v = u /\ k # n + 1
      <3>1. k \in 1..n /\ replies[v][k] = <<d, f.id>>
        BY <1>7, <1>9, <2>2, <2>4
      <3> QED  BY <2>1, <2>2, <2>4, <3>1 DEF AskedFrames
    <2>5. CASE v # u
      <3>1. replies'[v] = replies[v]
        BY <1>8, <2>5
      <3> QED  BY <2>1, <2>2, <3>1 DEF AskedFrames
    <2> QED  BY <2>3, <2>4, <2>5
  <1>13. req \in AskedFrames(c)'
    <2>1. n + 1 \in 1..Len(replies'[u]) /\ replies'[u][n + 1] = <<c, req.id>>
          /\ req.payload = Messages[u][n + 1]
      BY <1>7, <1>9, <1>10
    <2> QED  BY <1>6, <2>1 DEF AskedFrames
  <1>14. AskedFrames(c)' = AskedFrames(c) \cup {req}
    BY <1>11, <1>12, <1>13
  <1>15. \A d \in Conns : d # c => AskedFrames(d)' = AskedFrames(d)
    BY <1>11, <1>12
  <1> QED  BY <1>6, <1>14, <1>15 DEF req, id

\* send_request() keeps what is known of the requests.
LEMMA ReplySendRequest ==
    ASSUME TypeInv, ReplyInv, NEW u \in User, NEW c \in Conns, SendRequest(u, c),
           UNCHANGED owed
    PROVE  ReplyInv'
  <1> DEFINE id  == nextId[c]
             req == [id |-> id, payload |-> Messages[u][Len(replies[u]) + 1]]
  <1>1. /\ req \in Frame /\ AskedFrames(c)' = AskedFrames(c) \cup {req}
        /\ \A d \in Conns : d # c => AskedFrames(d)' = AskedFrames(d)
    BY AskedMore
  <1>2. /\ proc = "running" /\ id <= MaxId
        /\ nextId' = [nextId EXCEPT ![c] = id + 1]
        /\ outgoing' = [outgoing EXCEPT ![c] = Append(@, req)]
        /\ frames' = [frames EXCEPT ![c][id] = <<>>]
        /\ promise' = [promise EXCEPT ![c][id] = Waiting]
        /\ UNCHANGED <<closed, rbuf, ioPc, ioConn, packet, c2s, s2c, broken, owed, proc>>
    BY DEF SendRequest, bufVars, ioVars, netVars
  <1>3. /\ nextId \in [Conns -> 1..(MaxId + 1)]
        /\ outgoing \in [Conns -> Seq(Frame)]
        /\ frames \in [Conns -> [Ids -> Seq(Text)]]
        /\ promise \in [Conns -> [Ids -> Promise]]
    BY DEF TypeInv, TypeOK, ClientTypeOK
  <1>4. id \in Ids /\ id \in Nat /\ req.id = id
    BY <1>2, <1>3 DEF Ids
  <1>5. PlainTexts /\ \A d \in Conns : AskedInv(d) /\ ValueInv(d) /\ FlowInv(d)
    BY <1>2 DEF ReplyInv
  <1> HIDE DEF req
  <1>6. /\ nextId'[c] = id + 1 /\ outgoing'[c] = Append(outgoing[c], req)
        /\ frames'[c] = [frames[c] EXCEPT ![id] = <<>>]
        /\ promise'[c] = [promise[c] EXCEPT ![id] = Waiting]
        /\ promise'[c][id].state = "waiting"
        /\ \A i \in Ids : i # id => promise'[c][i] = promise[c][i]
        /\ \A d \in Conns : d # c => /\ nextId'[d] = nextId[d] /\ outgoing'[d] = outgoing[d]
                                     /\ frames'[d] = frames[d] /\ promise'[d] = promise[d]
    BY <1>2, <1>3, <1>4 DEF Waiting
  <1> HIDE DEF id
  <1>7. \A f \in AskedFrames(c) : f.id < id /\ f.id \in Nat
    <2>1. \A f \in AskedFrames(c) : f \in Frame
      BY DEF AskedFrames
    <2> QED  BY <1>5, <2>1 DEF AskedInv, Frame, Ids, id
  <1>8. ASSUME NEW d \in Conns PROVE AskedInv(d)'
    <2>1. CASE d = c
      <3>1. \A f \in AskedFrames(c) : f.id < id + 1 /\ f.id # id
        BY <1>4, <1>7
      <3>2. req.id < id + 1
        BY <1>4
      <3>3. \A f, g \in AskedFrames(c) : f.id = g.id => f = g
        BY <1>5 DEF AskedInv
      <3>4. \A f \in AskedFrames(c)' : f.id < nextId'[c]
        BY <1>1, <1>6, <3>1, <3>2
      <3>5. \A f, g \in AskedFrames(c)' : f.id = g.id => f = g
        BY <1>1, <1>4, <3>1, <3>3
      <3> QED  BY <2>1, <3>4, <3>5 DEF AskedInv
    <2>2. CASE d # c
      BY <1>1, <1>5, <1>6, <2>2 DEF AskedInv
    <2> QED  BY <2>1, <2>2
  <1>9. ASSUME NEW d \in Conns PROVE ValueInv(d)'
    <2>1. AskedFrames(d) \subseteq AskedFrames(d)'
      BY <1>1
    <2>2. \A i \in Ids : promise'[d][i].state = "value" => promise'[d][i] = promise[d][i]
      BY <1>6
    <2> QED  BY <1>5, <2>1, <2>2, ValueKept
  <1>10. ASSUME NEW d \in Conns PROVE FlowInv(d)'
    <2>1. /\ Packet("send", d)' = Packet("send", d)
          /\ Packet("get", d)' = Packet("get", d) /\ Setting(d)' = Setting(d)
      BY <1>2, IoStays
    <2>2. Incoming(d)' = Incoming(d)
      BY <1>2, <2>1 DEF Incoming
    <2>3. CASE d # c
      <3>1. AskedFrames(d)' = AskedFrames(d) /\ Wanted(d)' = Wanted(d)
        BY <1>1, <1>2, <1>6, <2>3 DEF Wanted
      <3>2. Flow(AskedFrames(d)', c2s'[d], Packet("send", d)', outgoing'[d], Incoming(d)',
                 frames'[d], Setting(d)', owed'[d], broken'[d], Wanted(d))
        BY <1>2, <1>5, <1>6, <2>1, <2>2, <2>3, <3>1 DEF FlowInv
      <3> QED  BY <3>1, <3>2, FlowNext
    <2>4. CASE d = c
      <3>1. PICK A, q, p, o, r, fr, set, ow, gone, W :
               /\ A = AskedFrames(c) /\ q = c2s[c] /\ p = Packet("send", c)
               /\ o = outgoing[c] /\ r = Incoming(c) /\ fr = frames[c]
               /\ set = Setting(c) /\ ow = owed[c] /\ gone = broken[c] /\ W = Wanted(c)
        OBVIOUS
      <3>2. FlowValues(A, q, p, o, r, fr, ow) /\ Flow(A, q, p, o, r, fr, set, ow, gone, W)
        BY <1>5, <3>1, StateValues DEF FlowInv
      <3>3. PICK f \in Frame : f = req
        BY <1>1
      <3>4. \A g \in A : g.id < f.id
        BY <1>4, <1>7, <3>1, <3>3
      <3>5. Flow(A \cup {f}, q, p, Append(o, f), r, [fr EXCEPT ![f.id] = <<>>],
                 set, ow, gone, W \cup {f.id})
        BY <3>2, <3>4, FlowAsk
      <3>6. f.id = id
        BY <1>4, <3>3
      <3>7. W \cup {f.id} \subseteq Wanted(c)'
        BY <1>2, <1>4, <1>6, <3>1, <3>6 DEF Wanted
      <3>8. Flow(AskedFrames(c)', c2s'[c], Packet("send", c)', outgoing'[c], Incoming(c)',
                 frames'[c], Setting(c)', owed'[c], broken'[c], W \cup {f.id})
        BY <1>1, <1>2, <1>6, <2>1, <2>2, <2>4, <3>1, <3>3, <3>5, <3>6
      <3> QED  BY <2>4, <3>7, <3>8, FlowNext
    <2> QED  BY <2>3, <2>4
  <1> QED  BY <1>5, <1>8, <1>9, <1>10 DEF ReplyInv


\* A step that asks nothing and answers nothing.
LEMMA ReplyQuiet ==
    ASSUME ReplyInv, UNCHANGED <<replies, nextId>>,
           \A d \in Conns : \A i \in Ids :
               promise'[d][i].state = "value" => promise'[d][i] = promise[d][i],
           proc' = "running" => \A d \in Conns : FlowInv(d)'
    PROVE  ReplyInv'
  <1> SUFFICES ASSUME NEW d \in Conns PROVE AskedInv(d)' /\ ValueInv(d)'
    BY DEF ReplyInv
  <1>1. AskedInv(d) /\ ValueInv(d)
    BY DEF ReplyInv
  <1>2. AskedFrames(d)' = AskedFrames(d) /\ AskedInv(d)'
    BY <1>1, AskedKept
  <1> QED  BY <1>1, <1>2, ValueKept

\* A step of the I/O thread that may change something of one connection.
LEMMA ReplyIo ==
    ASSUME TypeInv, ReplyInv, proc = "running", NEW c \in Conns, c = ioConn,
           UNCHANGED <<replies, nextId, broken, owed>>,
           ioConn' = ioConn \/ ioPc' \in {"incoming", "done"},
           proc' = "running" => FlowInv(c)',
           \A d \in Conns : \A i \in Ids :
               promise'[d][i].state = "value" => promise'[d][i] = promise[d][i],
           \A d \in Conns : d # c =>
               /\ c2s'[d] = c2s[d] /\ s2c'[d] = s2c[d] /\ outgoing'[d] = outgoing[d]
               /\ rbuf'[d] = rbuf[d] /\ frames'[d] = frames[d]
               /\ promise'[d] = promise[d] /\ closed'[d] = closed[d]
    PROVE  ReplyInv'
  <1>1. ASSUME NEW d \in Conns, d # c PROVE FlowInv(d)'
    <2>1. FlowInv(d)
      BY DEF ReplyInv
    <2> QED  BY <1>1, <2>1, IoOthers
  <1>2. proc' = "running" => \A d \in Conns : FlowInv(d)'
    BY <1>1
  <1> QED  BY <1>2, ReplyQuiet

\* Every step keeps the frames of every connection in order.
LEMMA ReplyStep == TypeInv /\ ReplyInv /\ [Next]_vars => ReplyInv'
  <1> SUFFICES ASSUME TypeInv, ReplyInv, [Next]_vars PROVE ReplyInv'
    OBVIOUS
  <1> USE DEF At, Goto
  <1>t. /\ c2s \in [Conns -> Seq(Frame)] /\ s2c \in [Conns -> Seq(Frame)]
        /\ broken \in [Conns -> BOOLEAN]
        /\ closed \in [Conns -> BOOLEAN] /\ outgoing \in [Conns -> Seq(Frame)]
        /\ frames \in [Conns -> [Ids -> Seq(Text)]]
        /\ promise \in [Conns -> [Ids -> Promise]]
        /\ rbuf \in [Conns -> Seq(Frame)] /\ packet.id \in Ids
        /\ owed \in [Conns -> [Ids -> Seq(Text)]]
    BY DEF TypeInv, TypeOK, NetTypeOK, ClientTypeOK, PeerTypeOK, Frame
  <1>p. PlainTexts /\ (proc = "running" => \A d \in Conns : FlowInv(d))
    BY DEF ReplyInv
  <1>c. PICK c \in Conns : c = ioConn
    BY DEF TypeInv, TypeOK, ClientTypeOK
  <1>1. ASSUME NEW u \in User, NEW d \in Conns, SendRequest(u, d), UNCHANGED owed
        PROVE  ReplyInv'
    BY <1>1, ReplySendRequest
  <1>2. ASSUME UNCHANGED <<replies, nextId, connVars, bufVars, ioVars, netVars, owed>>,
               proc' = "running" => proc = "running"
        PROVE  ReplyInv'
    <2>1. /\ UNCHANGED <<ioPc, ioConn, packet, replies, nextId>>
          /\ UNCHANGED <<c2s, s2c, outgoing, rbuf, frames, owed, broken, promise, closed>>
      BY <1>2 DEF connVars, bufVars, ioVars, netVars
    <2>2. ASSUME NEW d \in Conns, proc' = "running" PROVE FlowInv(d)'
      BY <1>2, <1>p, <2>1, <2>2, FlowFrozen
    <2>3. \A d \in Conns : \A i \in Ids : promise'[d][i] = promise[d][i]
      BY <2>1
    <2> QED  BY <2>1, <2>2, <2>3, ReplyQuiet
  <1>3. ASSUME NEW u \in User, NEW d \in Conns, SendRequestThrows(u, d), UNCHANGED owed
        PROVE  ReplyInv'
    BY <1>2, <1>3 DEF SendRequestThrows, userVars, connVars
  <1>4. ASSUME NEW u \in User, GetReply(u), UNCHANGED owed
        PROVE  ReplyInv'
    BY <1>2, <1>4 DEF GetReply, connVars
  <1>5. CASE RequestStop /\ UNCHANGED owed
    BY <1>2, <1>5 DEF RequestStop, userVars, connVars
  <1>6. CASE JoinAndExit
    <2>1. proc' # "running" /\ UNCHANGED <<replies, nextId, promise>>
      BY <1>6 DEF JoinAndExit, userVars, connVars
    <2> QED  BY <2>1, ReplyQuiet
  <1>7. ASSUME UNCHANGED <<connVars, bufVars, userVars, netVars, owed>>,
               proc = "running",
               ioPc \notin {"send", "get", "set"}, ioPc' \notin {"send", "get", "set"}
        PROVE  ReplyInv'
    <2>1. UNCHANGED <<replies, nextId, c2s, s2c, outgoing, rbuf, frames, owed, broken,
                      promise, closed>>
      BY <1>7 DEF connVars, bufVars, userVars, netVars
    <2>2. ASSUME NEW d \in Conns PROVE FlowInv(d)'
      BY <1>7, <1>p, <2>1, <2>2, IoQuiet
    <2> QED  BY <2>1, <2>2, ReplyQuiet
  <1>8. CASE (IoDone \/ IoNothingToRead \/ IoConnectionLost \/ IoHasOutgoing) /\ UNCHANGED owed
    <2>1. ioPc' \in {"exited", "incoming", "outgoing", "lost", "pop", "done"}
      BY <1>8, NextConnectionType
      DEF IoDone, IoNothingToRead, IoConnectionLost, IoHasOutgoing, TypeInv, TypeOK,
          ClientTypeOK
    <2> QED  BY <1>7, <1>8, <2>1 DEF IoDone, IoNothingToRead, IoConnectionLost, IoHasOutgoing
  <1>9. CASE IoRemoveRequest /\ UNCHANGED owed
    <2>1. /\ UNCHANGED <<replies, nextId, c2s, s2c, outgoing, rbuf, frames, owed, broken,
                         promise, closed>>
          /\ proc = "running" /\ ioPc = "remove" /\ ioPc' = "outgoing"
      BY <1>9 DEF IoRemoveRequest, bufVars, userVars, netVars
    <2>2. ASSUME NEW d \in Conns PROVE FlowInv(d)'
      BY <1>p, <2>1, <2>2, IoQuiet
    <2> QED  BY <2>1, <2>2, ReplyQuiet
  <1>10. CASE (IoFrameReady \/ IoReceive) /\ UNCHANGED owed
    <2>1. /\ proc = "running" /\ ioConn' = ioConn
          /\ UNCHANGED <<replies, nextId, broken, owed, c2s, outgoing, frames, promise, closed>>
          /\ \A d \in Conns : d # c => rbuf'[d] = rbuf[d] /\ s2c'[d] = s2c[d]
      BY <1>10, <1>t, <1>c DEF IoFrameReady, IoReceive, connVars, userVars, netVars
    <2>2. FlowInv(c)'
      BY <1>10, <1>c, <1>p, <2>1, FlowReceives
    <2>3. \A d \in Conns : \A i \in Ids : promise'[d][i] = promise[d][i]
      BY <2>1
    <2> QED  BY <1>c, <2>1, <2>2, <2>3, ReplyIo
  <1>11. CASE IoGetRequest /\ UNCHANGED owed
    <2>1. /\ proc = "running" /\ ioConn' = ioConn
          /\ UNCHANGED <<replies, nextId, broken, owed, c2s, s2c, outgoing, rbuf, promise, closed>>
          /\ \A d \in Conns : d # c => frames'[d] = frames[d]
      BY <1>11, <1>t, <1>c DEF IoGetRequest, bufVars, userVars, netVars
    <2>2. ASSUME proc' = "running" PROVE FlowInv(c)'
      BY <1>11, <1>c, <1>p, <2>1, <2>2, FlowGetRequest
    <2>3. \A d \in Conns : \A i \in Ids : promise'[d][i] = promise[d][i]
      BY <2>1
    <2> QED  BY <1>c, <2>1, <2>2, <2>3, ReplyIo
  <1>12. CASE IoSetValue /\ UNCHANGED owed
    <2>1. /\ proc = "running" /\ ioPc = "set" /\ ioPc' = "remove" /\ ioConn' = ioConn
          /\ UNCHANGED <<replies, nextId, broken, owed, c2s, s2c, outgoing, rbuf, closed>>
          /\ \A d \in Conns : d # c => frames'[d] = frames[d] /\ promise'[d] = promise[d]
          /\ \A i \in Ids : i # packet.id => promise'[c][i] = promise[c][i]
          /\ promise'[c][packet.id] = IF Satisfied(promise[c][packet.id])
                                      THEN promise[c][packet.id]
                                      ELSE Value(frames[c][packet.id])
          /\ proc' = IF Satisfied(promise[c][packet.id]) THEN "aborted" ELSE proc
      BY <1>12, <1>t, <1>c DEF IoSetValue, bufVars, userVars, netVars
    <2>2. CASE Satisfied(promise[c][packet.id])
      <3>1. proc' # "running"
        BY <2>1, <2>2
      <3>2. \A d \in Conns : \A i \in Ids : promise'[d][i] = promise[d][i]
        BY <2>1, <2>2
      <3> QED  BY <2>1, <3>1, <3>2, ReplyQuiet
    <2>3. CASE ~Satisfied(promise[c][packet.id])
      <3>1. proc' = "running" /\ promise'[c][packet.id] = Value(frames[c][packet.id])
        BY <2>1, <2>3
      <3>2. /\ FlowInv(c)'
            /\ \E f \in AskedFrames(c) :
                  f.id = packet.id /\ frames[c][packet.id] = <<f.payload, END>>
        BY <1>12, <1>c, <1>p, <2>1, <3>1, FlowSetValue
      <3>3. ASSUME NEW d \in Conns PROVE FlowInv(d)'
        <4>1. CASE d # c
          BY <1>c, <1>p, <2>1, <4>1, IoOthers
        <4> QED  BY <3>2, <4>1
      <3>4. ASSUME NEW d \in Conns PROVE AskedInv(d)' /\ ValueInv(d)'
        <4>1. AskedInv(d) /\ ValueInv(d)
          BY DEF ReplyInv
        <4>2. AskedFrames(d)' = AskedFrames(d) /\ AskedInv(d)'
          BY <2>1, <4>1, AskedKept
        <4>3. CASE d # c
          <5>1. \A i \in Ids : promise'[d][i] = promise[d][i]
            BY <2>1, <4>3
          <5> QED  BY <4>1, <4>2, <5>1, ValueKept
        <4>4. CASE d = c
          <5>1. promise'[c][packet.id].reply = frames[c][packet.id]
            BY <3>1 DEF Value
          <5>2. ASSUME NEW i \in Ids, promise'[c][i].state = "value"
                PROVE  \E f \in AskedFrames(c) :
                          f.id = i /\ promise'[c][i].reply = <<f.payload, END>>
            <6>1. CASE i = packet.id
              BY <3>2, <5>1, <6>1
            <6>2. CASE i # packet.id
              <7>1. promise'[c][i] = promise[c][i]
                BY <2>1, <6>2
              <7> QED  BY <4>1, <4>4, <5>2, <7>1 DEF ValueInv
            <6> QED  BY <6>1, <6>2
          <5> QED  BY <4>2, <4>4, <5>2 DEF ValueInv
        <4> QED  BY <4>2, <4>3, <4>4
      <3> QED  BY <1>p, <3>3, <3>4 DEF ReplyInv
    <2> QED  BY <2>2, <2>3
  <1>13. CASE (IoPopOutgoing \/ IoSend \/ IoSendIntoVoid \/ IoSendFails) /\ UNCHANGED owed
    <2>1. /\ proc = "running"
          /\ ioConn' = ioConn \/ ioPc' \in {"incoming", "done"}
          /\ UNCHANGED <<replies, nextId, broken, owed, s2c, rbuf, frames, promise, closed>>
          /\ \A d \in Conns : d # c => c2s'[d] = c2s[d] /\ outgoing'[d] = outgoing[d]
      BY <1>13, <1>t, <1>c, NextConnectionType
      DEF IoPopOutgoing, IoSend, IoSendIntoVoid, IoSendFails, connVars, bufVars, userVars,
          netVars
    <2>2. FlowInv(c)'
      BY <1>13, <1>c, <1>p, <2>1, FlowSends
    <2>3. \A d \in Conns : \A i \in Ids : promise'[d][i] = promise[d][i]
      BY <2>1
    <2> QED  BY <1>c, <2>1, <2>2, <2>3, ReplyIo
  <1>14. CASE IoSendKilled /\ UNCHANGED owed
    BY <1>2, <1>14 DEF IoSendKilled, userVars, connVars
  <1>15. CASE (IoCloseLost \/ IoCloseFailed) /\ UNCHANGED owed
    <2>1. /\ proc = "running"
          /\ ioConn' = ioConn \/ ioPc' \in {"incoming", "done"}
          /\ ioPc \in {"lost", "failed"} /\ ioPc' \in {"outgoing", "incoming", "done"}
          /\ CloseWithError(c)
          /\ UNCHANGED <<replies, broken, owed, c2s, s2c, rbuf>>
      BY <1>15, <1>c, NextConnectionType
      DEF IoCloseLost, IoCloseFailed, bufVars, userVars, netVars
    <2>2. /\ UNCHANGED <<nextId, frames>>
          /\ \A d \in Conns : d # c => /\ outgoing'[d] = outgoing[d] /\ closed'[d] = closed[d]
                                       /\ promise'[d] = promise[d]
          /\ promise'[c] = [i \in Ids |-> IF i \in pending[c] THEN Failed ELSE promise[c][i]]
      BY <1>t, <2>1 DEF CloseWithError
    <2>3. FlowInv(c)'
      BY <1>c, <1>p, <2>1, FlowCloses
    <2>4. \A d \in Conns : \A i \in Ids :
             promise'[d][i].state = "value" => promise'[d][i] = promise[d][i]
      BY <2>2 DEF Failed
    <2> QED  BY <1>c, <2>1, <2>2, <2>3, <2>4, ReplyIo
  <1>16. ASSUME NEW d \in Conns, PeerNext(d) \/ Break(d), UNCHANGED clientVars
         PROVE  ReplyInv'
    <2>1. /\ UNCHANGED <<ioPc, ioConn, packet, replies, nextId, proc>>
          /\ UNCHANGED <<outgoing, rbuf, frames, promise, closed>>
      BY SMTT(30), <1>16 DEF clientVars, connVars, bufVars, ioVars, userVars
    <2>2. \A b \in Conns : b # d => /\ c2s'[b] = c2s[b] /\ s2c'[b] = s2c[b]
                                    /\ owed'[b] = owed[b] /\ broken'[b] = broken[b]
      BY ZenonT(30), <1>16, <1>t DEF PeerNext, PeerTake, PeerReply, PeerDrop, Break, BreakConnection, netVars
    <2>3. ASSUME NEW b \in Conns, proc' = "running" PROVE FlowInv(b)'
      <3>1. FlowInv(b)
        BY <1>p, <2>1, <2>3
      <3>2. CASE b # d
        BY <2>1, <2>2, <3>1, <3>2, FlowFrozen
      <3>3. CASE b = d
        BY <1>16, <1>p, <3>1, <3>3, FlowPeer, FlowBreaks
      <3> QED  BY <3>2, <3>3
    <2> QED  BY <2>1, <2>3, ReplyQuiet
  <1>17. CASE Over \/ UNCHANGED vars
    BY <1>2, <1>17 DEF Over, vars, clientVars, userVars, connVars
  <1> QED
    BY <1>1, <1>3, <1>4, <1>5, <1>6, <1>8, <1>9, <1>10, <1>11, <1>12, <1>13, <1>14, <1>15,
       <1>16, <1>17
    DEF Next, ClientNext, IoNext, MainNext, UserNext, Break

(***************************************************************************)
(* A future that gets a value gets the echo of its own text, then "END",   *)
(* whatever threads, connections, chunks and breaks there are, as long as  *)
(* no text is "END" itself.                                                *)
(***************************************************************************)
THEOREM RepliesAreEchoes == Spec /\ PlainTexts => []ReplyIsEchoThenEnd
  <1>1. TypeInv /\ ReplyInv => ReplyIsEchoThenEnd
    <2> SUFFICES ASSUME TypeInv, ReplyInv, NEW u \in User, NEW k \in DOMAIN replies[u],
                        promise[replies[u][k][1]][replies[u][k][2]].state = "value"
                 PROVE  promise[replies[u][k][1]][replies[u][k][2]].reply =
                            <<Messages[u][k], END>>
      BY DEF ReplyIsEchoThenEnd
    <2>1. /\ replies[u] \in Seq(Conns \X Ids) /\ Messages[u] \in Seq(Text)
          /\ Len(replies[u]) <= Len(Messages[u])
      BY DEF TypeInv, TypeOK, ClientTypeOK, SentBound
    <2>2. /\ Len(replies[u]) \in Nat /\ Len(Messages[u]) \in Nat
          /\ DOMAIN replies[u] = 1..Len(replies[u])
      BY <2>1, LenProperties
    <2>3. k \in 1..Len(replies[u]) /\ k \in 1..Len(Messages[u])
      BY <2>1, <2>2
    <2>4. replies[u][k] \in Conns \X Ids /\ Messages[u][k] \in Text
      BY <2>1, <2>3, ElementOfSeq
    <2>5. PICK c \in Conns, i \in Ids : replies[u][k] = <<c, i>>
      BY <2>4
    <2> DEFINE f == [id |-> i, payload |-> Messages[u][k]]
    <2>6. f \in Frame /\ f.id = i /\ f.payload = Messages[u][k]
      BY <2>4 DEF Frame
    <2> HIDE DEF f
    <2>7. f \in AskedFrames(c)
      BY <2>3, <2>5, <2>6 DEF AskedFrames
    <2>8. promise[c][i].state = "value"
      BY <2>5
    <2>9. PICK g \in AskedFrames(c) : g.id = i /\ promise[c][i].reply = <<g.payload, END>>
      BY <2>8 DEF ReplyInv, ValueInv
    <2>10. f = g
      BY <2>6, <2>7, <2>9 DEF ReplyInv, AskedInv
    <2> QED  BY <2>5, <2>6, <2>9, <2>10
  <1>2. Init /\ PlainTexts => TypeInv /\ ReplyInv
    BY TypeInit, ReplyInit
  <1>3. TypeInv /\ ReplyInv /\ [Next]_vars => (TypeInv /\ ReplyInv)'
    BY TypeStep, ReplyStep
  <1> QED  BY <1>1, <1>2, <1>3, PTL DEF Spec


-----------------------------------------------------------------------------
(***************************************************************************)
(* Lookups.  That pending_.at() finds the id of a frame follows for a      *)
(* connection that is open; a closed one must have no frame left that      *)
(* has_incoming_data() could still find.  close_with_error() leaves some   *)
(* behind when a send fails, and the loop runs on if another connection is *)
(* open, so it takes one of these to be sure.                              *)
(***************************************************************************)
NoLateFrames ==
    \/ NumConns = 1     \* the program: main() makes one connection
    \/ ~MayBreak        \* no send fails
    \/ SigPipe          \* a send that fails ends the process

NeverBroken   == proc = "running" /\ ~MayBreak => \A c \in Conns : ~broken[c]
FailedIsOnly  == ioPc = "failed" => NumConns = 1
WorksOnOpen   == ioPc \in {"lost", "pop", "send", "failed"} => ~closed[ioConn]
LostIsEmpty   == ioPc = "lost" => rbuf[ioConn] = <<>>
ClosedIsDrained ==
    \A c \in Conns : closed[c] =>
        /\ rbuf[c] = <<>> \/ (NumConns = 1 /\ ioPc \in {"done", "exited"})
        /\ ~(ioPc = "get" /\ ioConn = c)

LeftoverInv ==
    /\ NoLateFrames /\ NeverBroken /\ FailedIsOnly
    /\ WorksOnOpen /\ LostIsEmpty /\ ClosedIsDrained

\* At the start every connection is open.
LEMMA LeftoverInit == Init /\ NoLateFrames => LeftoverInv
  BY DEF Init, ClientInit, NetInit, LeftoverInv, NeverBroken, FailedIsOnly,
         WorksOnOpen, LostIsEmpty, ClosedIsDrained

\* Steps that leave the connections and the I/O thread alone.
LEMMA LeftoverFrozen ==
    ASSUME LeftoverInv, UNCHANGED <<ioPc, ioConn, closed, rbuf>>,
           proc' = "running" => proc = "running",
           ~MayBreak /\ proc' = "running" => broken' = broken
    PROVE  LeftoverInv'
  BY DEF LeftoverInv, NoLateFrames, NeverBroken, FailedIsOnly, WorksOnOpen,
         LostIsEmpty, ClosedIsDrained

\* Every step keeps closed connections without frames to read.
LEMMA LeftoverStep == TypeInv /\ LeftoverInv /\ [Next]_vars => LeftoverInv'
  <1> SUFFICES ASSUME TypeInv, LeftoverInv, [Next]_vars PROVE LeftoverInv'
    OBVIOUS
  <1> USE DEF At, Goto
  <1>t. /\ ioConn \in Conns /\ closed \in [Conns -> BOOLEAN]
        /\ rbuf \in [Conns -> Seq(Frame)] /\ broken \in [Conns -> BOOLEAN]
    BY DEF TypeInv, TypeOK, ClientTypeOK, NetTypeOK
  <1>1. ASSUME NEW u \in User, NEW d \in Conns,
               SendRequest(u, d) \/ SendRequestThrows(u, d)
        PROVE  LeftoverInv'
    BY <1>1, LeftoverFrozen
    DEF SendRequest, SendRequestThrows, connVars, bufVars, ioVars, netVars
  <1>g. ASSUME NEW u \in User, GetReply(u)
        PROVE  LeftoverInv'
    BY <1>g, LeftoverFrozen DEF GetReply, connVars, bufVars, ioVars, netVars
  <1>2. CASE RequestStop \/ JoinAndExit
    BY <1>2, LeftoverFrozen DEF RequestStop, JoinAndExit, connVars, bufVars, ioVars, netVars
  <1>3. CASE IoDone
    <2>1. /\ ioPc = "done" /\ ioConn' = ioConn
          /\ UNCHANGED <<closed, rbuf, broken, proc>>
          /\ ioPc' \in {"exited", "incoming"}
          /\ ioPc' = "incoming" => \E d \in Conns : ~closed[d]
      BY <1>3 DEF IoDone, connVars, bufVars, netVars
    <2>2. ASSUME NEW d \in Conns, closed[d] PROVE
             rbuf[d] = <<>> \/ (NumConns = 1 /\ ioPc' \in {"done", "exited"})
      <3>1. CASE NumConns = 1 /\ ioPc' = "incoming"
        <4>1. \A a, b \in Conns : a = b
          BY <3>1 DEF Conns
        <4> QED  BY <2>1, <2>2, <3>1, <4>1
      <3>2. CASE ~(NumConns = 1 /\ ioPc' = "incoming")
        BY <2>1, <2>2, <3>2 DEF LeftoverInv, ClosedIsDrained
      <3> QED  BY <3>1, <3>2
    <2> QED
      BY <2>1, <2>2 DEF LeftoverInv, NoLateFrames, NeverBroken, FailedIsOnly,
                   WorksOnOpen, LostIsEmpty, ClosedIsDrained
  <1>4. CASE IoFrameReady
    <2>1. /\ ioPc = "incoming" /\ ioPc' = "get" /\ ioConn' = ioConn /\ rbuf[ioConn] # <<>>
          /\ rbuf' = [rbuf EXCEPT ![ioConn] = Tail(@)] /\ UNCHANGED <<closed, broken, proc>>
      BY <1>4 DEF IoFrameReady, connVars, netVars
    <2>2. ~closed[ioConn] /\ \A d \in Conns : d # ioConn => rbuf'[d] = rbuf[d]
      BY <1>t, <2>1 DEF LeftoverInv, ClosedIsDrained
    <2> QED
      BY <2>1, <2>2 DEF LeftoverInv, NoLateFrames, NeverBroken, FailedIsOnly,
                        WorksOnOpen, LostIsEmpty, ClosedIsDrained
  <1>5. CASE IoReceive
    <2>1. /\ ioPc = "incoming" /\ ioPc' \in {"get", "outgoing"} /\ ioConn' = ioConn
          /\ ~closed[ioConn] /\ UNCHANGED <<closed, broken, proc>>
          /\ \A d \in Conns : d # ioConn => rbuf'[d] = rbuf[d]
      BY <1>5, <1>t DEF IoReceive, connVars
    <2> QED
      BY <2>1 DEF LeftoverInv, NoLateFrames, NeverBroken, FailedIsOnly,
                  WorksOnOpen, LostIsEmpty, ClosedIsDrained
  <1>6. CASE IoNothingToRead \/ IoConnectionLost
    <2>1. /\ ioPc = "incoming" /\ rbuf[ioConn] = <<>> /\ ioConn' = ioConn
          /\ ioPc' = "outgoing" \/ (ioPc' = "lost" /\ ~closed[ioConn])
          /\ UNCHANGED <<closed, broken, proc, rbuf>>
      BY <1>6 DEF IoNothingToRead, IoConnectionLost, connVars, bufVars, netVars
    <2> QED
      BY <2>1 DEF LeftoverInv, NoLateFrames, NeverBroken, FailedIsOnly,
                  WorksOnOpen, LostIsEmpty, ClosedIsDrained
  <1>7. CASE IoCloseLost
    <2>1. /\ ioPc = "lost" /\ ioPc' = "outgoing" /\ UNCHANGED <<broken, rbuf>>
          /\ closed' = [closed EXCEPT ![ioConn] = TRUE] /\ proc = "running"
      BY <1>7 DEF IoCloseLost, CloseWithError, bufVars, netVars
    <2>2. rbuf[ioConn] = <<>> /\ \A d \in Conns : d # ioConn => closed'[d] = closed[d]
      BY <1>t, <2>1 DEF LeftoverInv, LostIsEmpty
    <2> QED
      BY <2>1, <2>2 DEF LeftoverInv, NoLateFrames, NeverBroken, FailedIsOnly,
                        WorksOnOpen, LostIsEmpty, ClosedIsDrained
  <1>8. CASE IoCloseFailed
    <2>1. /\ ioPc = "failed" /\ UNCHANGED <<broken, rbuf>> /\ proc = "running"
      BY <1>8 DEF IoCloseFailed, CloseWithError, bufVars, netVars
    <2>2. NumConns = 1 /\ ~(ioConn < NumConns)
      <3>1. NumConns = 1
        BY <2>1 DEF LeftoverInv, FailedIsOnly
      <3> QED  BY <1>t, <3>1 DEF Conns
    <2>3. ioPc' = "done"
      BY <1>8, <2>2 DEF IoCloseFailed, NextConnection
    <2> QED
      BY <2>1, <2>2, <2>3 DEF LeftoverInv, NoLateFrames, NeverBroken, FailedIsOnly,
                        WorksOnOpen, LostIsEmpty, ClosedIsDrained
  <1>9. ASSUME UNCHANGED <<closed, rbuf, broken>>, proc' = "running" => proc = "running",
               ioPc \notin {"done", "exited"}, ioPc' \notin {"lost", "get", "failed"},
               ioPc' \in {"pop", "send"} => ~closed[ioConn] /\ ioConn' = ioConn
        PROVE  LeftoverInv'
    BY <1>9 DEF LeftoverInv, NoLateFrames, NeverBroken, FailedIsOnly,
                WorksOnOpen, LostIsEmpty, ClosedIsDrained
  <1>10. CASE IoGetRequest \/ IoSetValue \/ IoRemoveRequest
    BY <1>9, <1>10 DEF IoGetRequest, IoSetValue, IoRemoveRequest, bufVars, netVars
  <1>11. CASE IoHasOutgoing
    <2>1. /\ ioPc = "outgoing" /\ UNCHANGED <<closed, rbuf, broken, proc>>
          /\ \/ ioPc' = "pop" /\ ~closed[ioConn] /\ ioConn' = ioConn
             \/ ioPc' \in {"incoming", "done"}
      BY <1>11, <1>t, NextConnectionType DEF IoHasOutgoing, connVars, bufVars, netVars
    <2> QED  BY <1>9, <2>1
  <1>12. CASE IoPopOutgoing
    <2>1. /\ ioPc = "pop" /\ ioPc' = "send" /\ ioConn' = ioConn
          /\ UNCHANGED <<closed, rbuf, broken, proc>>
      BY <1>12 DEF IoPopOutgoing, bufVars, netVars
    <2>2. ~closed[ioConn]
      BY <2>1 DEF LeftoverInv, WorksOnOpen
    <2> QED  BY <1>9, <2>1, <2>2
  <1>13. CASE IoSend \/ IoSendIntoVoid
    <2>1. ioPc = "send" /\ ioPc' \in {"incoming", "done"}
          /\ UNCHANGED <<closed, rbuf, broken, proc>>
      BY <1>13, <1>t, NextConnectionType
      DEF IoSend, IoSendIntoVoid, connVars, bufVars, netVars
    <2> QED  BY <1>9, <2>1
  <1>14. CASE IoSendFails
    <2>1. /\ ioPc = "send" /\ ioPc' = "failed" /\ ioConn' = ioConn /\ proc = "running"
          /\ broken[ioConn] /\ ~SigPipe /\ UNCHANGED <<closed, rbuf, broken, proc>>
      BY <1>14 DEF IoSendFails, connVars, bufVars, netVars
    <2>2. NumConns = 1 /\ ~closed[ioConn]
      BY <1>t, <2>1 DEF LeftoverInv, NoLateFrames, NeverBroken, WorksOnOpen
    <2> QED
      BY <2>1, <2>2 DEF LeftoverInv, NoLateFrames, NeverBroken, FailedIsOnly,
                        WorksOnOpen, LostIsEmpty, ClosedIsDrained
  <1>15. CASE IoSendKilled
    BY SMTT(30), <1>15, LeftoverFrozen DEF IoSendKilled, connVars, bufVars, ioVars, netVars
  <1>16. ASSUME NEW d \in Conns, PeerNext(d), UNCHANGED clientVars
         PROVE  LeftoverInv'
    BY <1>16, LeftoverFrozen
    DEF PeerNext, PeerTake, PeerReply, PeerDrop, clientVars, connVars, bufVars, ioVars, netVars
  <1>17. ASSUME NEW d \in Conns, Break(d)
         PROVE  LeftoverInv'
    BY <1>17, LeftoverFrozen DEF Break, clientVars, connVars, bufVars, ioVars
  <1>18. CASE Over \/ UNCHANGED vars
    BY <1>18, LeftoverFrozen DEF Over, vars, clientVars, connVars, bufVars, ioVars, netVars
  <1> QED
    BY <1>1, <1>2, <1>3, <1>4, <1>5, <1>6, <1>7, <1>8, <1>10, <1>11, <1>12, <1>13, <1>14,
       <1>15, <1>16, <1>17, <1>18, <1>g
    DEF Next, ClientNext, IoNext, MainNext, UserNext

(***************************************************************************)
(* pending_.at() finds the request of every frame, and pop_outgoing() the  *)
(* packet that has_outgoing_data() saw, where no connection is left with   *)
(* frames behind a failed send.                                            *)
(***************************************************************************)
THEOREM LookupsAlwaysSucceed ==
    Spec /\ PlainTexts /\ NoLateFrames => []LookupsSucceed
  <1>1. TypeInv /\ PromiseInv /\ ReplyInv /\ LeftoverInv => LookupsSucceed
    <2> SUFFICES ASSUME TypeInv, PromiseInv, ReplyInv, LeftoverInv, At("get")
                 PROVE  packet.id \in pending[ioConn]
      BY DEF LookupsSucceed, TypeInv, PopFinds, At
    <2>1. PICK c \in Conns : c = ioConn
      BY DEF TypeInv, TypeOK, ClientTypeOK
    <2>2. /\ packet \in Frame /\ packet.id \in Ids
          /\ rbuf[c] \in Seq(Frame) /\ s2c[c] \in Seq(Frame)
      BY DEF TypeInv, TypeOK, ClientTypeOK, NetTypeOK, Frame
    <2>3. FlowInv(c) /\ ~closed[c]
      BY <2>1 DEF At, ReplyInv, LeftoverInv, ClosedIsDrained
    <2>4. Has(Incoming(c), packet.id)
      <3>1. PICK b \in Seq(Frame), s \in Seq(Frame), e \in Frame :
               b = rbuf[c] /\ s = s2c[c] /\ e = packet
        BY <2>2
      <3>2. PICK r \in Seq(Frame) : r = <<e>> \o (b \o s)
        <4>1. b \o s \in Seq(Frame) /\ <<e>> \in Seq(Frame)
          BY ConcatProperties
        <4>2. \A x, y \in Seq(Frame) : x \o y \in Seq(Frame)
          BY ConcatProperties
        <4> QED  BY <4>1, <4>2
      <3>3. r # <<>> /\ Head(r) = e
        BY <3>2, SplitIncoming
      <3>4. Incoming(c) = r
        BY <2>1, <3>1, <3>2 DEF Incoming, Packet, At
      <3>5. Has(r, e.id)
        BY <3>3, HasParts
      <3> QED  BY <3>1, <3>4, <3>5
    <2>5. packet.id \in Wanted(c)
      BY <2>2, <2>3, <2>4 DEF FlowInv, Flow, Coming
    <2> QED  BY <2>1, <2>2, <2>3, <2>5 DEF Wanted, PromiseInv, WaitingIsPending
  <1>2. Init /\ PlainTexts /\ NoLateFrames => TypeInv /\ PromiseInv /\ ReplyInv /\ LeftoverInv
    BY TypeInit, PromiseInit, ReplyInit, LeftoverInit
  <1>3. TypeInv /\ PromiseInv /\ ReplyInv /\ LeftoverInv /\ [Next]_vars =>
           (TypeInv /\ PromiseInv /\ ReplyInv /\ LeftoverInv)'
    BY TypeStep, PromiseStep, ReplyStep, LeftoverStep
  <1> QED  BY <1>1, <1>2, <1>3, PTL DEF Spec


-----------------------------------------------------------------------------
(***************************************************************************)
(* Conservation.  ReplyInv says what cannot be on the way; that nothing is *)
(* lost is the other half: of a request that is waited for the "END" is    *)
(* still ahead, in the request itself or in its reply.                     *)
(***************************************************************************)
EndsIn(r, i) == \E k \in 1..Len(r) : r[k].id = i /\ r[k].payload = END

Ahead(c, i) ==
    \/ Going(c2s[c], Packet("send", c), outgoing[c], i)
    \/ owed[c][i] # <<>> \/ EndsIn(Incoming(c), i) \/ Setting(c) = i

EndInv ==
    proc = "running" => \A c \in Conns : ~broken[c] =>
        \A i \in Ids : promise[c][i].state = "waiting" => Ahead(c, i)

\* "END" in a sequence, when a frame is appended or taken off the front.
LEMMA EndsInParts ==
    ASSUME NEW s \in Seq(Frame), NEW e \in Frame, NEW i
    PROVE  /\ EndsIn(Append(s, e), i) <=> EndsIn(s, i) \/ (e.id = i /\ e.payload = END)
           /\ s # <<>> => (EndsIn(s, i) <=> EndsIn(Tail(s), i)
                                            \/ (Head(s).id = i /\ Head(s).payload = END))
  <1>1. EndsIn(Append(s, e), i) <=> EndsIn(s, i) \/ (e.id = i /\ e.payload = END)
    <2>1. /\ Len(s) \in Nat /\ Len(Append(s, e)) = Len(s) + 1
          /\ \A k \in 1..Len(s) : Append(s, e)[k] = s[k]
          /\ Append(s, e)[Len(s) + 1] = e
      BY AppendParts
    <2>2. /\ \A k \in 1..Len(s) : k \in 1..(Len(s) + 1)
          /\ Len(s) + 1 \in 1..(Len(s) + 1)
          /\ \A k \in 1..(Len(s) + 1) : k \in 1..Len(s) \/ k = Len(s) + 1
      BY <2>1
    <2> QED  BY <2>1, <2>2 DEF EndsIn
  <1>2. ASSUME s # <<>>
        PROVE  EndsIn(s, i) <=> EndsIn(Tail(s), i) \/ (Head(s).id = i /\ Head(s).payload = END)
    <2>1. /\ Len(s) \in Nat /\ Len(s) >= 1 /\ Head(s) = s[1] /\ Len(Tail(s)) = Len(s) - 1
          /\ \A k \in 1..(Len(s) - 1) : Tail(s)[k] = s[k + 1]
      BY <1>2, HeadTailParts
    <2>2. /\ \A k \in 1..(Len(s) - 1) : k + 1 \in 1..Len(s)
          /\ 1 \in 1..Len(s)
          /\ \A k \in 1..Len(s) : k = 1 \/ \E j \in 1..(Len(s) - 1) : k = j + 1
      <3>1. ASSUME NEW k \in 1..Len(s), k # 1
            PROVE  \E j \in 1..(Len(s) - 1) : k = j + 1
        <4>1. k - 1 \in 1..(Len(s) - 1) /\ k = (k - 1) + 1
          BY <2>1, <3>1
        <4> QED  BY <4>1
      <3> QED  BY <2>1, <3>1
    <2> DEFINE E(x) == x.id = i /\ x.payload = END
    <2>3. (\E k \in 1..Len(s) : E(s[k])) <=> E(s[1]) \/ \E k \in 1..(Len(s) - 1) : E(s[k + 1])
      <3> HIDE DEF E
      <3> QED  BY ZenonT(30), <2>2
    <2>4. EndsIn(s, i) <=> \E k \in 1..Len(s) : E(s[k])
      BY DEF EndsIn
    <2>5. EndsIn(Tail(s), i) <=> \E k \in 1..(Len(s) - 1) : E(s[k + 1])
      BY ZenonT(30), <2>1 DEF EndsIn
    <2> QED  BY <2>1, <2>3, <2>4, <2>5
  <1> QED  BY <1>1, <1>2

\* A connection of which a step changes nothing.
LEMMA AheadKept ==
    ASSUME NEW c \in Conns, NEW i \in Ids, Ahead(c, i),
           c2s'[c] = c2s[c], outgoing'[c] = outgoing[c], owed'[c] = owed[c],
           Packet("send", c)' = Packet("send", c), Incoming(c)' = Incoming(c),
           Setting(c)' = Setting(c)
    PROVE  Ahead(c, i)'
  BY DEF Ahead

\* Where the I/O thread is does not matter to the other connections, and to
\* none while it holds no packet.
LEMMA AheadElsewhere ==
    ASSUME NEW c \in Conns, NEW i \in Ids, Ahead(c, i),
           c2s'[c] = c2s[c], outgoing'[c] = outgoing[c], owed'[c] = owed[c],
           rbuf'[c] = rbuf[c], s2c'[c] = s2c[c],
           \/ UNCHANGED <<ioPc, ioConn, packet>>
           \/ /\ ioConn # c \/ ioPc \notin {"send", "get", "set"}
              /\ ioConn' # c \/ ioPc' \notin {"send", "get", "set"}
    PROVE  Ahead(c, i)'
  <1>1. /\ Packet("send", c)' = Packet("send", c)
        /\ Packet("get", c)' = Packet("get", c) /\ Setting(c)' = Setting(c)
    BY DEF Packet, Setting
  <1>2. Incoming(c)' = Incoming(c)
    BY <1>1 DEF Incoming
  <1> QED  BY <1>1, <1>2, AheadKept

\* send_request() queues the request it has just made a promise for.
LEMMA AheadAsk ==
    ASSUME TypeInv, NEW u \in User, NEW d \in Conns, SendRequest(u, d), UNCHANGED owed,
           NEW c \in Conns, NEW i \in Ids, promise'[c][i].state = "waiting",
           promise[c][i].state = "waiting" => Ahead(c, i)
    PROVE  Ahead(c, i)'
  <1> DEFINE id  == nextId[d]
             req == [id |-> id, payload |-> Messages[u][Len(replies[u]) + 1]]
  <1>1. /\ outgoing' = [outgoing EXCEPT ![d] = Append(@, req)]
        /\ promise' = [promise EXCEPT ![d][id] = Waiting]
        /\ UNCHANGED <<rbuf, ioPc, ioConn, packet, c2s, s2c>>
    BY DEF SendRequest, bufVars, ioVars, netVars
  <1>2. req \in Frame /\ req.id = id
    BY AskedMore
  <1>3. outgoing \in [Conns -> Seq(Frame)] /\ promise \in [Conns -> [Ids -> Promise]]
    BY DEF TypeInv, TypeOK, ClientTypeOK
  <1> HIDE DEF req, id
  <1>4. c # d \/ i # id => promise'[c][i] = promise[c][i]
    BY <1>1, <1>2, <1>3 DEF Frame
  <1>5. CASE c # d
    <2>1. outgoing'[c] = outgoing[c]
      BY <1>1, <1>3, <1>5
    <2> QED  BY <1>1, <1>4, <1>5, <2>1, AheadElsewhere
  <1>6. CASE c = d
    <2>1. outgoing'[c] = Append(outgoing[c], req) /\ outgoing[c] \in Seq(Frame)
      BY <1>1, <1>3, <1>6
    <2>2. Has(outgoing'[c], i) <=> Has(outgoing[c], i) \/ i = id
      <3>1. PICK s \in Seq(Frame), e \in Frame : s = outgoing[c] /\ e = req
        BY <1>2, <2>1
      <3>2. Has(Append(s, e), i) <=> Has(s, i) \/ e.id = i
        BY HasParts
      <3> QED  BY <1>2, <2>1, <3>1, <3>2
    <2>3. CASE i = id
      BY <2>2, <2>3 DEF Ahead, Going
    <2>4. CASE i # id
      <3>1. Ahead(c, i)
        BY <1>4, <2>4
      <3>2. /\ Packet("send", c)' = Packet("send", c)
            /\ Packet("get", c)' = Packet("get", c) /\ Setting(c)' = Setting(c)
        BY <1>1, IoStays
      <3>3. Incoming(c)' = Incoming(c)
        BY <1>1, <3>2 DEF Incoming
      <3> QED  BY <1>1, <2>2, <3>1, <3>2, <3>3 DEF Ahead, Going
    <2> QED  BY <2>3, <2>4
  <1> QED  BY <1>5, <1>6

\* The packet moves from the queue to the connection.
LEMMA AheadSends ==
    ASSUME TypeInv, NEW c \in Conns, c = ioConn, IoPopOutgoing \/ IoSend, UNCHANGED owed,
           NEW i \in Ids, Ahead(c, i)
    PROVE  Ahead(c, i)'
  <1> USE DEF At, Goto
  <1>1. /\ UNCHANGED <<rbuf, s2c>> /\ ioPc \in {"pop", "send"} /\ ioPc' \notin {"get", "set"}
    BY NextConnectionType
    DEF IoPopOutgoing, IoSend, netVars, bufVars, TypeInv, TypeOK, ClientTypeOK
  <1>2. /\ packet \in Frame /\ outgoing[c] \in Seq(Frame) /\ c2s[c] \in Seq(Frame)
        /\ outgoing \in [Conns -> Seq(Frame)] /\ c2s \in [Conns -> Seq(Frame)]
    BY DEF TypeInv, TypeOK, NetTypeOK, ClientTypeOK
  <1>3. /\ Packet("get", c) = <<>> /\ Setting(c) = 0
        /\ Packet("get", c)' = <<>> /\ Setting(c)' = 0
    BY <1>1 DEF Packet, Setting
  <1>4. Incoming(c)' = Incoming(c)
    BY <1>1, <1>3 DEF Incoming
  <1>5. CASE IoPopOutgoing
    <2>1. /\ ioPc = "pop" /\ ioPc' = "send" /\ ioConn' = c /\ packet' = Head(outgoing[c])
          /\ outgoing' = [outgoing EXCEPT ![c] = Tail(@)] /\ c2s' = c2s
      BY <1>5 DEF IoPopOutgoing, netVars
    <2>2. outgoing[c] # <<>>
      BY <2>1 DEF TypeInv, PopFinds
    <2>3. /\ Packet("send", c) = <<>> /\ Packet("send", c)' = <<Head(outgoing[c])>>
          /\ outgoing'[c] = Tail(outgoing[c]) /\ Head(outgoing[c]) \in Frame
      BY <1>2, <2>1, <2>2, HeadTailParts DEF Packet
    <2>4. /\ Has(outgoing[c], i) => Has(<<Head(outgoing[c])>>, i) \/ Has(Tail(outgoing[c]), i)
          /\ ~Has(<<>>, i)
      BY <1>2, <2>2, <2>3, HasParts
    <2> QED  BY <1>3, <1>4, <2>1, <2>3, <2>4 DEF Ahead, Going
  <1>6. CASE IoSend
    <2>1. /\ ioPc = "send" /\ ioPc' \in {"incoming", "done"} /\ outgoing' = outgoing
          /\ c2s' = [c2s EXCEPT ![c] = Append(@, packet)]
      BY <1>6, NextConnectionType DEF IoSend, connVars, TypeInv, TypeOK, ClientTypeOK
    <2>2. /\ Packet("send", c) = <<packet>> /\ Packet("send", c)' = <<>>
          /\ c2s'[c] = Append(c2s[c], packet)
      BY <1>2, <2>1 DEF Packet
    <2>3. /\ Has(c2s[c], i) \/ Has(<<packet>>, i) => Has(Append(c2s[c], packet), i)
      BY <1>2, HasParts
    <2> QED  BY <1>3, <1>4, <2>1, <2>2, <2>3 DEF Ahead, Going
  <1> QED  BY <1>5, <1>6

\* A frame is added to its reply; with "END" the promise is about to be set.
LEMMA AheadGot ==
    ASSUME TypeInv, NEW c \in Conns, c = ioConn, IoGetRequest, UNCHANGED owed,
           NEW i \in Ids, Ahead(c, i)
    PROVE  Ahead(c, i)'
  <1> USE DEF At, Goto
  <1>1. /\ ioPc = "get" /\ ioConn' = c /\ packet' = packet
        /\ ioPc' = IF packet.payload = END THEN "set" ELSE "outgoing"
        /\ UNCHANGED <<outgoing, rbuf, c2s, s2c>>
    BY DEF IoGetRequest, netVars, bufVars
  <1>2. packet \in Frame /\ rbuf[c] \in Seq(Frame) /\ s2c[c] \in Seq(Frame)
    BY DEF TypeInv, TypeOK, NetTypeOK, ClientTypeOK
  <1>3. /\ Packet("send", c) = <<>> /\ Packet("get", c) = <<packet>> /\ Setting(c) = 0
        /\ Packet("send", c)' = <<>> /\ Packet("get", c)' = <<>>
        /\ Setting(c)' = IF packet.payload = END THEN packet.id ELSE 0
    BY <1>1 DEF Packet, Setting
  <1>4. PICK b \in Seq(Frame), s \in Seq(Frame), e \in Frame :
           b = rbuf[c] /\ s = s2c[c] /\ e = packet
    BY <1>2
  <1>5. PICK r : r = <<e>> \o (b \o s)
    OBVIOUS
  <1>6. r # <<>> /\ Head(r) = e /\ Tail(r) = <<>> \o (b \o s)
    BY <1>5, SplitIncoming
  <1>7. Incoming(c) = r /\ Incoming(c)' = Tail(r)
    BY <1>1, <1>3, <1>4, <1>5, <1>6 DEF Incoming
  <1>8. r \in Seq(Frame)
    <2>1. <<e>> \in Seq(Frame) /\ b \o s \in Seq(Frame)
      BY ConcatProperties
    <2> QED  BY <1>5, <2>1, ConcatProperties
  <1>9. EndsIn(r, i) => EndsIn(Tail(r), i) \/ (e.id = i /\ e.payload = END)
    BY <1>6, <1>8, EndsInParts
  <1>10. i # 0
    BY DEF Ids
  <1> QED  BY <1>1, <1>3, <1>4, <1>7, <1>9, <1>10 DEF Ahead

\* The server takes a request and owes its reply, or sends a frame of it: what
\* it sends last is "END".
LEMMA AheadPeer ==
    ASSUME TypeInv, PlainTexts, NEW c \in Conns, FlowInv(c), PeerNext(c), UNCHANGED clientVars,
           ~broken[c], NEW i \in Ids, Ahead(c, i)
    PROVE  Ahead(c, i)'
  <1>1. UNCHANGED <<ioPc, ioConn, packet, outgoing, rbuf>>
    BY DEF clientVars, connVars, bufVars, ioVars
  <1>2. /\ Packet("send", c)' = Packet("send", c)
        /\ Packet("get", c)' = Packet("get", c) /\ Setting(c)' = Setting(c)
    BY <1>1, IoStays
  <1>3. /\ c2s \in [Conns -> Seq(Frame)] /\ s2c \in [Conns -> Seq(Frame)]
        /\ owed \in [Conns -> [Ids -> Seq(Text)]] /\ c2s[c] \in Seq(Frame)
    BY DEF TypeInv, TypeOK, NetTypeOK, PeerTypeOK
  <1>4. FlowValues(AskedFrames(c), c2s[c], Packet("send", c), outgoing[c], Incoming(c),
                   frames[c], owed[c])
    BY StateValues
  <1>5. Incoming(c) \in Seq(Frame) /\ owed[c] \in [Ids -> Seq(Text)]
    BY <1>4 DEF FlowValues, Values
  <1>6. CASE PeerTake(c)
    <2> DEFINE h == Head(c2s[c])
    <2>1. /\ c2s[c] # <<>> /\ s2c' = s2c
          /\ owed' = [owed EXCEPT ![c][h.id] = @ \o <<h.payload, END>>]
          /\ c2s' = [c2s EXCEPT ![c] = Tail(@)]
      BY <1>6 DEF PeerTake
    <2>2. h \in Frame /\ h.id \in Ids /\ h.payload \in Text /\ c2s'[c] = Tail(c2s[c])
      <3>1. h \in Frame
        BY <1>3, <2>1, HeadTailParts
      <3>2. c2s'[c] = Tail(c2s[c])
        BY <1>3, <2>1
      <3> QED  BY <3>1, <3>2 DEF Frame
    <2>3. Incoming(c)' = Incoming(c)
      BY <1>1, <1>2, <2>1 DEF Incoming
    <2>4. Has(c2s[c], i) <=> h.id = i \/ Has(Tail(c2s[c]), i)
      BY <1>3, <2>1, <2>2, HasParts
    <2> HIDE DEF h
    <2>5. /\ h.id # i => owed'[c][i] = owed[c][i]
          /\ h.id = i => owed'[c][i] = owed[c][i] \o <<h.payload, END>>
      BY <1>3, <2>1, <2>2
    <2>6. owed[c][i] \o <<h.payload, END>> # <<>>
      <3>0. owed[c][i] \in Seq(Text) /\ <<h.payload, END>> \in Seq(Text)
        BY <1>5, <2>2
      <3>1. PICK x \in Seq(Text), y \in Seq(Text) : x = owed[c][i] /\ y = <<h.payload, END>>
        BY <3>0
      <3>2. Len(x \o y) = Len(x) + Len(y) /\ Len(y) = 2 /\ Len(x) \in Nat
        BY <3>1, ConcatProperties, LenProperties
      <3> QED  BY <3>1, <3>2, EmptySeq
    <2> QED  BY <1>1, <1>2, <2>2, <2>3, <2>4, <2>5, <2>6 DEF Ahead, Going
  <1>7. ASSUME NEW j \in Ids, PeerReply(c, j) PROVE Ahead(c, i)'
    <2> DEFINE e == [id |-> j, payload |-> Head(owed[c][j])]
    <2>1. /\ owed[c][j] # <<>> /\ c2s' = c2s
          /\ owed' = [owed EXCEPT ![c][j] = Tail(@)]
          /\ s2c' = [s2c EXCEPT ![c] = Append(@, e)]
      BY <1>7 DEF PeerReply
    <2>2. e \in Frame /\ e.id = j /\ e.payload = Head(owed[c][j])
      <3>1. Head(owed[c][j]) \in Text
        BY <1>5, <2>1, HeadTailParts
      <3> QED  BY <3>1 DEF Frame
    <2> HIDE DEF e
    <2>3. Incoming(c)' = Append(Incoming(c), e)
      <3>1. s2c'[c] = Append(s2c[c], e)
        BY <1>3, <2>1
      <3> QED  BY <1>1, <2>2, <3>1, IncomingSent
    <2>4. EndsIn(Append(Incoming(c), e), i) <=> EndsIn(Incoming(c), i) \/ (e.id = i /\ e.payload = END)
      BY <1>5, <2>2, EndsInParts
    <2>5. Tail(owed[c][j]) # <<>> \/ e.payload = END
      <3>1. PICK A, r, fr, set, ow, gone :
               /\ A = AskedFrames(c) /\ r = Incoming(c) /\ fr = frames[c] /\ set = Setting(c)
               /\ ow = owed[c] /\ gone = broken[c]
        OBVIOUS
      <3>2. Values(A, r, fr, ow) /\ OwedOK(A, r, fr, set, ow, gone, j) /\ ow[j] # <<>>
        BY <1>4, <2>1, <3>1 DEF FlowValues, FlowInv, Flow, InOK
      <3>3. \/ \E f \in A : Tail(ow[j]) = <<END>>
            \/ Head(ow[j]) = END
        BY <3>2, OwedParts
      <3>4. <<END>> # <<>>
        OBVIOUS
      <3> QED  BY <2>2, <3>1, <3>3, <3>4
    <2>6. /\ i # j => owed'[c][i] = owed[c][i]
          /\ i = j => owed'[c][i] = Tail(owed[c][j])
      BY <1>3, <2>1
    <2> QED  BY <1>1, <1>2, <2>1, <2>2, <2>3, <2>4, <2>5, <2>6 DEF Ahead, Going
  <1>8. ASSUME NEW j \in Ids, PeerDrop(c, j) PROVE FALSE
    BY <1>8 DEF PeerDrop
  <1> QED  BY <1>6, <1>7, <1>8 DEF PeerNext

\* At the start nobody waits.
LEMMA EndInit == Init => EndInv
  BY DEF Init, ClientInit, Unused, EndInv

\* Every step keeps the end of a reply ahead of those who wait for it.
LEMMA EndStep ==
    TypeInv /\ PromiseInv /\ PromiseInv' /\ ReplyInv /\ EndInv /\ [Next]_vars => EndInv'
  <1> SUFFICES ASSUME TypeInv, PromiseInv', ReplyInv, EndInv, [Next]_vars,
                      proc' = "running", NEW c \in Conns, ~broken'[c], NEW i \in Ids,
                      promise'[c][i].state = "waiting"
               PROVE  Ahead(c, i)'
    BY DEF EndInv
  <1> USE DEF At, Goto
  <1>t. /\ c2s \in [Conns -> Seq(Frame)] /\ s2c \in [Conns -> Seq(Frame)]
        /\ broken \in [Conns -> BOOLEAN] /\ outgoing \in [Conns -> Seq(Frame)]
        /\ rbuf \in [Conns -> Seq(Frame)] /\ packet.id \in Ids /\ ioConn \in Conns
        /\ owed \in [Conns -> [Ids -> Seq(Text)]]
        /\ promise \in [Conns -> [Ids -> Promise]]
    BY DEF TypeInv, TypeOK, NetTypeOK, ClientTypeOK, PeerTypeOK, Frame
  <1>p. proc = "running" => PlainTexts /\ \A d \in Conns : FlowInv(d)
    BY DEF ReplyInv
  <1>e. proc = "running" /\ ~broken[c] /\ promise[c][i].state = "waiting" => Ahead(c, i)
    BY DEF EndInv
  <1>1. ASSUME NEW u \in User, NEW d \in Conns, SendRequest(u, d), UNCHANGED owed
        PROVE  Ahead(c, i)'
    <2>1. proc = "running" /\ broken' = broken
      BY <1>1 DEF SendRequest, netVars
    <2> QED  BY <1>1, <1>e, <2>1, AheadAsk
  <1>2. ASSUME UNCHANGED <<connVars, bufVars, ioVars, netVars, owed>>, proc = "running"
        PROVE  Ahead(c, i)'
    <2>1. /\ UNCHANGED <<ioPc, ioConn, packet>>
          /\ UNCHANGED <<c2s, s2c, outgoing, rbuf, owed, broken, promise>>
      BY <1>2 DEF connVars, bufVars, ioVars, netVars
    <2> QED  BY <1>2, <1>e, <2>1, AheadElsewhere
  <1>3. CASE \/ \E u \in User : GetReply(u) /\ UNCHANGED owed
             \/ RequestStop /\ UNCHANGED owed
    BY <1>2, <1>3 DEF GetReply, RequestStop
  <1>4. CASE \/ \E u \in User, d \in Conns : SendRequestThrows(u, d)
             \/ JoinAndExit \/ IoSendKilled
    BY <1>4 DEF SendRequestThrows, JoinAndExit, IoSendKilled
  <1>5. CASE (IoDone \/ IoNothingToRead \/ IoConnectionLost \/ IoHasOutgoing \/ IoRemoveRequest)
             /\ UNCHANGED owed
    <2>1. ioPc' \in {"exited", "incoming", "outgoing", "lost", "pop", "done"}
      BY <1>5, <1>t, NextConnectionType
      DEF IoDone, IoNothingToRead, IoConnectionLost, IoHasOutgoing, IoRemoveRequest
    <2>2. /\ proc = "running" /\ ioPc \in {"done", "incoming", "outgoing", "remove"}
          /\ UNCHANGED <<c2s, s2c, outgoing, rbuf, owed, broken, promise>>
      BY <1>5 DEF IoDone, IoNothingToRead, IoConnectionLost, IoHasOutgoing, IoRemoveRequest,
                  connVars, bufVars, netVars
    <2> QED  BY <1>e, <2>1, <2>2, AheadElsewhere
  <1>6. ASSUME UNCHANGED <<owed, broken>>, proc = "running", c # ioConn,
               ioConn' = ioConn \/ ioPc' \in {"incoming", "done"},
               c2s'[c] = c2s[c], s2c'[c] = s2c[c], outgoing'[c] = outgoing[c],
               rbuf'[c] = rbuf[c], promise'[c] = promise[c]
        PROVE  Ahead(c, i)'
    BY <1>6, <1>e, AheadElsewhere
  <1>7. CASE (IoFrameReady \/ IoReceive) /\ UNCHANGED owed
    <2>1. /\ proc = "running" /\ ioConn' = ioConn
          /\ UNCHANGED <<broken, owed, c2s, outgoing, promise>>
          /\ c # ioConn => rbuf'[c] = rbuf[c] /\ s2c'[c] = s2c[c]
      BY <1>7, <1>t DEF IoFrameReady, IoReceive, connVars, netVars
    <2>2. CASE c = ioConn
      <3>1. /\ Incoming(c)' = Incoming(c)
            /\ Packet("send", c)' = Packet("send", c) /\ Setting(c)' = Setting(c)
        BY <1>7, <2>2, IncomingKept
      <3> QED  BY <1>e, <2>1, <3>1, AheadKept
    <2> QED  BY <1>6, <2>1, <2>2
  <1>8. CASE IoGetRequest /\ UNCHANGED owed
    <2>1. /\ proc = "running" /\ ioConn' = ioConn
          /\ UNCHANGED <<broken, owed, c2s, s2c, outgoing, rbuf, promise>>
      BY <1>8 DEF IoGetRequest, bufVars, netVars
    <2>2. CASE c = ioConn
      BY <1>8, <1>e, <2>1, <2>2, AheadGot
    <2> QED  BY <1>6, <2>1, <2>2
  <1>9. CASE IoSetValue /\ UNCHANGED owed
    <2>1. /\ proc = "running" /\ ioPc = "set" /\ ioPc' = "remove" /\ ioConn' = ioConn
          /\ UNCHANGED <<broken, owed, c2s, s2c, outgoing, rbuf>>
          /\ promise' = [promise EXCEPT ![ioConn][packet.id] =
                            IF Satisfied(@) THEN @ ELSE Value(frames[ioConn][packet.id])]
      BY <1>9 DEF IoSetValue, bufVars, netVars
    <2>2. c # ioConn => promise'[c] = promise[c]
      BY <1>t, <2>1
    <2>3. CASE c = ioConn
      <3>1. i # packet.id
        <4>1. promise'[c][packet.id] = IF Satisfied(promise[c][packet.id])
                                       THEN promise[c][packet.id]
                                       ELSE Value(frames[c][packet.id])
          BY <1>t, <2>1, <2>3
        <4> QED  BY <4>1 DEF Value, Satisfied
      <3>2. promise'[c][i] = promise[c][i]
        BY <1>t, <2>1, <2>3, <3>1
      <3>3. /\ Packet("send", c) = <<>> /\ Packet("get", c) = <<>> /\ Setting(c) = packet.id
            /\ Packet("send", c)' = <<>> /\ Packet("get", c)' = <<>>
        BY <2>1, <2>3 DEF Packet, Setting
      <3>4. Incoming(c)' = Incoming(c)
        BY <2>1, <3>3 DEF Incoming
      <3> QED  BY <1>e, <2>1, <3>1, <3>2, <3>3, <3>4 DEF Ahead
    <2> QED  BY <1>6, <2>1, <2>2, <2>3
  <1>10. CASE (IoPopOutgoing \/ IoSend) /\ UNCHANGED owed
    <2>1. /\ proc = "running" /\ (ioConn' = ioConn \/ ioPc' \in {"incoming", "done"})
          /\ UNCHANGED <<broken, owed, s2c, rbuf, promise>>
          /\ c # ioConn => c2s'[c] = c2s[c] /\ outgoing'[c] = outgoing[c]
      BY <1>10, <1>t, NextConnectionType DEF IoPopOutgoing, IoSend, connVars, bufVars, netVars
    <2>2. CASE c = ioConn
      BY <1>10, <1>e, <2>1, <2>2, AheadSends
    <2> QED  BY <1>6, <2>1, <2>2
  <1>11. CASE (IoSendIntoVoid \/ IoSendFails) /\ UNCHANGED owed
    <2>1. /\ proc = "running" /\ (ioConn' = ioConn \/ ioPc' \in {"incoming", "done"})
          /\ UNCHANGED <<broken, owed, c2s, s2c, outgoing, rbuf, promise>> /\ broken[ioConn]
      BY <1>11, <1>t, NextConnectionType
      DEF IoSendIntoVoid, IoSendFails, connVars, bufVars, netVars
    <2> QED  BY <1>6, <2>1
  <1>12. CASE (IoCloseLost \/ IoCloseFailed) /\ UNCHANGED owed
    <2>1. /\ proc = "running" /\ (ioConn' = ioConn \/ ioPc' \in {"incoming", "done"})
          /\ CloseWithError(ioConn) /\ UNCHANGED <<broken, owed, c2s, s2c, rbuf>>
      BY <1>12, <1>t, NextConnectionType DEF IoCloseLost, IoCloseFailed, bufVars, netVars
    <2>2. /\ c # ioConn => outgoing'[c] = outgoing[c] /\ promise'[c] = promise[c]
          /\ pending' = [pending EXCEPT ![ioConn] = {}]
      BY <1>t, <2>1 DEF CloseWithError
    <2>3. c # ioConn
      <3>1. i \in pending'[c]
        BY DEF PromiseInv, WaitingIsPending
      <3>2. pending'[ioConn] = {}
        BY <1>t, <2>2 DEF TypeInv, TypeOK, ClientTypeOK
      <3> QED  BY <3>1, <3>2
    <2> QED  BY <1>6, <2>1, <2>2, <2>3
  <1>13. ASSUME NEW d \in Conns, PeerNext(d), UNCHANGED clientVars
         PROVE  Ahead(c, i)'
    <2>1. /\ UNCHANGED <<ioPc, ioConn, packet, proc>>
          /\ UNCHANGED <<outgoing, rbuf, promise>>
      BY <1>13 DEF clientVars, connVars, bufVars, ioVars
    <2>2. /\ broken' = broken
          /\ c # d => c2s'[c] = c2s[c] /\ s2c'[c] = s2c[c] /\ owed'[c] = owed[c]
      BY ZenonT(30), <1>13, <1>t DEF PeerNext, PeerTake, PeerReply, PeerDrop, netVars
    <2>3. CASE c # d
      BY <1>e, <2>1, <2>2, <2>3, AheadElsewhere
    <2>4. CASE c = d
      BY <1>13, <1>e, <1>p, <2>1, <2>2, <2>4, AheadPeer
    <2> QED  BY <2>3, <2>4
  <1>14. ASSUME NEW d \in Conns, Break(d)
         PROVE  Ahead(c, i)'
    <2>1. /\ UNCHANGED <<ioPc, ioConn, packet, proc>>
          /\ UNCHANGED <<outgoing, rbuf, promise, owed>>
      BY <1>14 DEF Break, clientVars, connVars, bufVars, ioVars
    <2>2. /\ broken' = [broken EXCEPT ![d] = TRUE]
          /\ c # d => c2s'[c] = c2s[c] /\ s2c'[c] = s2c[c]
      BY <1>14, <1>t DEF Break, BreakConnection
    <2>3. c # d /\ ~broken[c]
      BY <1>t, <2>2
    <2> QED  BY <1>e, <2>1, <2>2, <2>3, AheadElsewhere
  <1>15. CASE Over \/ UNCHANGED vars
    BY <1>2, <1>15 DEF Over, vars, clientVars
  <1> QED
    BY <1>1, <1>3, <1>4, <1>5, <1>7, <1>8, <1>9, <1>10, <1>11, <1>12, <1>13, <1>14, <1>15
    DEF Next, ClientNext, IoNext, MainNext, UserNext

(***************************************************************************)
(* The places of an id, as RequestAccountedFor counts them.                *)
(***************************************************************************)
\* None, one or two places: how often the id occurs, and what it carries.
LEMMA PlacesNone ==
    ASSUME NEW s \in Seq(Frame), NEW i, ~Has(s, i)
    PROVE  Occurs(s, i) = 0 /\ Payloads(s, i) = <<>>
  <1>1. Places(s, i) = {}
    BY LenProperties DEF Has, Places
  <1>2. Occurs(s, i) = 0
    BY <1>1, FS_EmptySet DEF Occurs
  <1>3. 1..0 = {}
    OBVIOUS
  <1> QED  BY <1>2, <1>3 DEF Payloads

LEMMA PlacesOne ==
    ASSUME NEW s \in Seq(Frame), NEW i, NEW k \in 1..Len(s), s[k].id = i,
           \A j \in 1..Len(s) : s[j].id = i => j = k
    PROVE  Occurs(s, i) = 1 /\ Payloads(s, i) = <<s[k].payload>>
  <1>1. DOMAIN s = 1..Len(s) /\ Len(s) \in Nat
    BY LenProperties
  <1>2. Places(s, i) = {k}
    BY <1>1 DEF Places
  <1>3. Cardinality({k}) = 1
    BY FS_Singleton
  <1>4. Occurs(s, i) = 1
    BY <1>2, <1>3 DEF Occurs
  <1>5. {j \in {k} : j <= k} = {k}
    BY <1>1
  <1> DEFINE nth(n) == CHOOSE l \in {k} : Cardinality({j \in {k} : j <= l}) = n
  <1>6. nth(1) = k
    BY <1>3, <1>5
  <1>7. Payloads(s, i) = [n \in 1..1 |-> s[nth(n)].payload]
    BY <1>2, <1>4 DEF Payloads
  <1>8. \A n \in 1..1 : n = 1
    OBVIOUS
  <1> HIDE DEF nth
  <1>9. Payloads(s, i) = [n \in 1..1 |-> s[k].payload]
    BY <1>6, <1>7, <1>8
  <1> QED  BY <1>4, <1>9

LEMMA PlacesTwo ==
    ASSUME NEW s \in Seq(Frame), NEW i, NEW a \in 1..Len(s), NEW b \in 1..Len(s), a < b,
           s[a].id = i, s[b].id = i, \A j \in 1..Len(s) : s[j].id = i => j = a \/ j = b
    PROVE  Payloads(s, i) = <<s[a].payload, s[b].payload>>
  <1>1. DOMAIN s = 1..Len(s) /\ Len(s) \in Nat
    BY LenProperties
  <1>2. Places(s, i) = {a, b}
    BY <1>1 DEF Places
  <1>a. a \in Nat /\ b \in Nat /\ a # b /\ a <= b /\ ~(b <= a) /\ a <= a /\ b <= b
    BY <1>1
  <1>3. Cardinality({a}) = 1 /\ IsFiniteSet({a}) /\ b \notin {a}
    BY <1>a, FS_Singleton
  <1>4. Cardinality({a, b}) = 2
    <2>1. Cardinality({a} \cup {b}) = Cardinality({a}) + 1
      BY <1>3, FS_AddElement
    <2>2. {a} \cup {b} = {a, b}
      OBVIOUS
    <2>3. Cardinality({a, b}) = 1 + 1
      BY <1>3, <2>1, <2>2
    <2> QED  BY <2>3
  <1>5. {j \in {a, b} : j <= a} = {a} /\ {j \in {a, b} : j <= b} = {a, b}
    BY <1>a
  <1> DEFINE nth(n) == CHOOSE l \in {a, b} : Cardinality({j \in {a, b} : j <= l}) = n
  <1>6. nth(1) = a /\ nth(2) = b
    <2> DEFINE C(l) == Cardinality({j \in {a, b} : j <= l})
    <2>1. C(a) = 1
      BY <1>3, <1>5, Zenon
    <2>2. C(b) = 2
      BY <1>4, <1>5, Zenon
    <2> HIDE DEF C
    <2>3. \A l \in {a, b} : (C(l) = 1 <=> l = a) /\ (C(l) = 2 <=> l = b)
      BY <1>a, <2>1, <2>2
    <2>4. (CHOOSE l \in {a, b} : C(l) = 1) = a
      BY <2>3
    <2>5. (CHOOSE l \in {a, b} : C(l) = 2) = b
      BY <2>3
    <2> QED  BY <2>4, <2>5, Zenon DEF C
  <1>7. Payloads(s, i) = [n \in 1..2 |-> s[nth(n)].payload]
    BY <1>2, <1>4 DEF Payloads, Occurs
  <1>8. \A n \in 1..2 : n = 1 \/ n = 2
    OBVIOUS
  <1> HIDE DEF nth
  <1>9. \A n \in 1..2 : s[nth(n)].payload = <<s[a].payload, s[b].payload>>[n]
    BY <1>6, <1>8
  <1> QED  BY <1>7, <1>9

\* Ids that rise along a sequence occur once.
LEMMA RisingConcat ==
    ASSUME NEW s \in Seq(Frame), NEW t \in Seq(Frame), Rising(s), Rising(t), Before(s, t)
    PROVE  /\ s \o t \in Seq(Frame) /\ Rising(s \o t)
           /\ \A i : Has(s \o t, i) <=> Has(s, i) \/ Has(t, i)
           /\ \A r : Before(r, s) /\ Before(r, t) => Before(r, s \o t)
  <1> DEFINE m == Len(s)
             n == Len(t)
             u == s \o t
  <1>1. /\ u \in Seq(Frame) /\ Len(u) = m + n
        /\ \A k \in 1..(m + n) : u[k] = IF k <= m THEN s[k] ELSE t[k - m]
    BY ConcatProperties
  <1>2. m \in Nat /\ n \in Nat
    BY LenProperties
  <1> HIDE DEF u, m, n
  <1>3. /\ \A k \in 1..m : k \in 1..(m + n) /\ u[k] = s[k]
        /\ \A k \in 1..n : m + k \in 1..(m + n) /\ u[m + k] = t[k]
    BY <1>1, <1>2
  <1>4. \A k \in 1..(m + n) : k \in 1..m \/ \E j \in 1..n : k = m + j
    <2> SUFFICES ASSUME NEW k \in 1..(m + n), k \notin 1..m
                 PROVE  \E j \in 1..n : k = m + j
      OBVIOUS
    <2>1. k - m \in 1..n /\ k = m + (k - m)
      BY <1>2
    <2> QED  BY <2>1
  <1>5. Rising(u)
    <2> SUFFICES ASSUME NEW j \in 1..(m + n), NEW k \in 1..(m + n), j < k
                 PROVE  u[j].id < u[k].id
      BY <1>1 DEF Rising
    <2>1. CASE j \in 1..m /\ k \in 1..m
      BY <1>3, <2>1 DEF Rising, m
    <2>2. CASE j \in 1..m /\ k \notin 1..m
      <3>1. PICK l \in 1..n : k = m + l
        BY <1>4, <2>2
      <3> QED  BY <1>3, <2>2, <3>1 DEF Before, m, n
    <2>3. CASE j \notin 1..m
      <3>1. k \notin 1..m
        BY <1>2, <2>3
      <3>2. PICK l \in 1..n, o \in 1..n : j = m + l /\ k = m + o
        BY <1>4, <2>3, <3>1
      <3>3. l < o
        BY <1>2, <3>2
      <3> QED  BY <1>3, <3>2, <3>3 DEF Rising, n
    <2> QED  BY <2>1, <2>2, <2>3
  <1>6. ASSUME NEW i PROVE Has(u, i) <=> Has(s, i) \/ Has(t, i)
    <2>1. Has(s, i) <=> \E k \in 1..m : u[k].id = i
      BY <1>3 DEF Has, m
    <2>2. Has(t, i) <=> \E k \in 1..n : u[m + k].id = i
      BY <1>3 DEF Has, n
    <2>3. Has(u, i) <=> \E k \in 1..(m + n) : u[k].id = i
      BY <1>1 DEF Has
    <2>4. ASSUME Has(u, i) PROVE Has(s, i) \/ Has(t, i)
      <3>1. PICK k \in 1..(m + n) : u[k].id = i
        BY <2>3, <2>4
      <3>2. CASE k \in 1..m
        BY <2>1, <3>1, <3>2
      <3>3. CASE k \notin 1..m
        <4>1. PICK j \in 1..n : k = m + j
          BY <1>4, <3>3
        <4> QED  BY <2>2, <3>1, <4>1
      <3> QED  BY <3>2, <3>3
    <2> QED  BY <1>3, <2>1, <2>2, <2>3, <2>4
  <1>7. ASSUME NEW r, Before(r, s), Before(r, t) PROVE Before(r, u)
    <2> SUFFICES ASSUME NEW j \in 1..Len(r), NEW k \in 1..(m + n) PROVE r[j].id < u[k].id
      BY <1>1 DEF Before
    <2>1. CASE k \in 1..m
      BY <1>3, <1>7, <2>1 DEF Before, m
    <2>2. CASE k \notin 1..m
      <3>1. PICK l \in 1..n : k = m + l
        BY <1>4, <2>2
      <3> QED  BY <1>3, <1>7, <3>1 DEF Before, n
    <2> QED  BY <2>1, <2>2
  <1> QED  BY <1>1, <1>5, <1>6, <1>7 DEF u

LEMMA RisingOnce ==
    ASSUME NEW s \in Seq(Frame), Rising(s), NEW i, Has(s, i)
    PROVE  Occurs(s, i) = 1
  <1>1. PICK k \in 1..Len(s) : s[k].id = i
    BY DEF Has
  <1>2. ASSUME NEW j \in 1..Len(s) PROVE s[j].id \in Nat
    <2>1. s[j] \in Frame
      BY ElementOfSeq
    <2> QED  BY <2>1 DEF Frame, Ids
  <1>3. ASSUME NEW j \in 1..Len(s), s[j].id = i PROVE j = k
    <2>1. ~(j < k) /\ ~(k < j)
      BY <1>1, <1>2, <1>3 DEF Rising
    <2>2. j \in Nat /\ k \in Nat
      BY LenProperties
    <2> QED  BY <2>1, <2>2
  <1> QED  BY <1>1, <1>3, PlacesOne

\* The two frames of a reply, wherever the cuts between the parts are.
LEMMA TwoFrames ==
    ASSUME NEW p \in Text, NEW e \in Text
    PROVE  /\ <<>> \o <<>> \o <<p, e>> = <<p, e>> /\ <<p>> \o <<>> \o <<e>> = <<p, e>>
           /\ <<>> \o <<p>> \o <<e>> = <<p, e>> /\ <<p>> \o <<e>> \o <<>> = <<p, e>>
           /\ <<>> \o <<p, e>> \o <<>> = <<p, e>> /\ <<p, e>> \o <<>> \o <<>> = <<p, e>>
           /\ <<>> \o <<>> \o <<>> = <<>>
  <1>1. PICK x \in Seq(Text), y \in Seq(Text), z \in Seq(Text), o \in Seq(Text) :
           x = <<p>> /\ y = <<e>> /\ z = <<p, e>> /\ o = <<>>
    <2>1. /\ <<p>> \in Seq(Text) /\ <<e>> \in Seq(Text) /\ <<p, e>> \in Seq(Text)
          /\ <<>> \in Seq(Text)
      BY EmptySeq
    <2> QED  BY <2>1
  <1>2. \A s \in Seq(Text) : o \o s = s /\ s \o o = s
    BY <1>1, ConcatEmptySeq
  <1>3. x \o y = z
    <2>1. Append(x, e) = z
      BY <1>1, AppendToOne
    <2>2. Append(x, e) = x \o <<e>>
      BY AppendIsConcat
    <2> QED  BY <1>1, <2>1, <2>2
  <1> QED  BY <1>1, <1>2, <1>3

\* Both frames of the reply to f are collected, on the way in or owed.
Whole(r, fr, ow, i, f) == fr[i] \o Payloads(r, i) \o ow[i] = <<f.payload, END>>

\* f is the frame of request i, and the only one that was asked.
OnlyAsked(A, i, f) == f \in A /\ f.id = i /\ \A g \in A : g.id = i => g = f

(***************************************************************************)
(* Of a reply whose "END" is still ahead, the frames collected, on the way *)
(* and owed are both frames, in their order.                               *)
(***************************************************************************)
LEMMA ReplyWhole ==
    ASSUME NEW A, NEW r, NEW fr, NEW set, NEW ow, NEW gone, NEW i \in Ids, NEW f, gone = FALSE,
           OnlyAsked(A, i, f), Values(A, r, fr, ow), InOK(A, r, fr, set, ow, gone),
           ow[i] # <<>> \/ EndsIn(r, i) \/ set = i
    PROVE  Whole(r, fr, ow, i, f)
  <1> SUFFICES fr[i] \o Payloads(r, i) \o ow[i] = <<f.payload, END>>
    BY DEF Whole
  <1> f \in A /\ f.id = i /\ \A g \in A : g.id = i => g = f
    BY DEF OnlyAsked
  <1>1. /\ r \in Seq(Frame) /\ f.payload \in Text /\ f.payload # END /\ i # 0
        /\ END \in Text
    BY DEF Values, Frame, Ids
  <1>2. PICK t \in Text : t = f.payload
    BY <1>1
  <1>3. /\ InOrder(r) /\ InText(A, r, fr) /\ InEnd(A, r, fr) /\ Collected(A, r, fr, set)
        /\ OwedOK(A, r, fr, set, ow, gone, i)
    BY DEF InOK
  <1>4. i # set => fr[i] = <<>> \/ fr[i] = <<t>>
    BY <1>2, <1>3 DEF Collected
  <1>5. ~Has(r, i) => Payloads(r, i) = <<>>
    BY <1>1, PlacesNone
  <1>6. CASE set = i
    <2>1. ~Has(r, i) /\ fr[i] = <<t, END>>
      BY <1>1, <1>2, <1>3, <1>6 DEF Collected
    <2>2. ow[i] = <<>>
      BY <1>3, <1>6, <2>1 DEF OwedOK
    <2> QED  BY <1>1, <1>2, <1>5, <2>1, <2>2, TwoFrames
  <1>7. CASE set # i /\ ow[i] # <<>>
    <2>1. CASE ow[i] = <<t, END>> /\ ~Has(r, i) /\ fr[i] = <<>>
      BY <1>1, <1>2, <1>5, <2>1, TwoFrames
    <2>2. CASE /\ ow[i] = <<END>> /\ (fr[i] # <<>> \/ Has(r, i))
               /\ \A k \in 1..Len(r) : r[k].id = i => r[k].payload # END
      <3>1. \A k \in 1..Len(r) : r[k].id = i => r[k] = f /\ fr[i] = <<>>
        BY <1>3, <2>2 DEF InText
      <3>2. CASE fr[i] # <<>>
        <4>1. ~Has(r, i)
          BY <3>1, <3>2 DEF Has
        <4> QED  BY <1>1, <1>2, <1>4, <1>5, <1>7, <2>2, <3>2, <4>1, TwoFrames
      <3>3. CASE fr[i] = <<>>
        <4>1. PICK k \in 1..Len(r) : r[k].id = i
          BY <2>2, <3>3 DEF Has
        <4>2. ASSUME NEW j \in 1..Len(r), r[j].id = i PROVE j = k
          <5>1. ~(j < k) /\ ~(k < j)
            BY <1>3, <2>2, <4>1, <4>2 DEF InOrder
          <5>2. Len(r) \in Nat
            BY <1>1, LenProperties
          <5> QED  BY <5>1, <5>2
        <4>3. Payloads(r, i) = <<r[k].payload>>
          BY <1>1, <4>1, <4>2, PlacesOne
        <4>4. Payloads(r, i) = <<t>>
          BY <1>2, <3>1, <4>1, <4>3
        <4> QED  BY <1>1, <1>2, <2>2, <3>3, <4>4, TwoFrames
      <3> QED  BY <3>2, <3>3
    <2> QED  BY <1>2, <1>3, <1>7, <2>1, <2>2 DEF OwedOK
  <1>8. CASE set # i /\ ow[i] = <<>> /\ EndsIn(r, i)
    <2>1. PICK k \in 1..Len(r) : r[k].id = i /\ r[k].payload = END
      BY <1>8 DEF EndsIn
    <2>2. Len(r) \in Nat
      BY <1>1, LenProperties
    <2>3. CASE fr[i] # <<>>
      <3>1. \A j \in 1..Len(r) : r[j].id = i => r[j].payload = END
        BY <1>3, <2>3 DEF InText
      <3>2. ASSUME NEW j \in 1..Len(r), r[j].id = i PROVE j = k
        <4>1. ~(j < k) /\ ~(k < j)
          BY <1>3, <2>1, <3>1, <3>2 DEF InOrder
        <4> QED  BY <2>2, <4>1
      <3>3. Payloads(r, i) = <<END>>
        BY <1>1, <2>1, <3>2, PlacesOne
      <3> QED  BY <1>1, <1>2, <1>4, <1>8, <2>3, <3>3, TwoFrames
    <2>4. CASE fr[i] = <<>>
      <3>1. PICK j \in 1..Len(r) : j < k /\ r[j].id = i
        BY <1>3, <2>1, <2>4 DEF InEnd
      <3>2. r[j].payload # END
        BY <1>3, <2>1, <3>1 DEF InOrder
      <3>3. r[j] = f
        BY <1>3, <3>1, <3>2 DEF InText
      <3>4. ASSUME NEW l \in 1..Len(r), r[l].id = i PROVE l = j \/ l = k
        <4>1. ~(l < j)
          BY <1>3, <3>1, <3>2, <3>4 DEF InOrder
        <4>2. ~(k < l)
          BY <1>3, <2>1, <3>4 DEF InOrder
        <4>3. ~(j < l /\ l < k)
          BY <1>3, <2>1, <3>1, <3>4 DEF InOrder
        <4> QED  BY <2>2, <3>1, <4>1, <4>2, <4>3
      <3>5. Payloads(r, i) = <<r[j].payload, r[k].payload>>
        BY <1>1, <2>1, <3>1, <3>4, PlacesTwo
      <3>6. Payloads(r, i) = <<t, END>>
        BY <1>2, <2>1, <3>3, <3>5
      <3> QED  BY <1>1, <1>2, <1>8, <2>4, <3>6, TwoFrames
    <2> QED  BY <2>3, <2>4
  <1> QED  BY <1>6, <1>7, <1>8

(***************************************************************************)
(* While a connection is up, a request that is waited for is at one place  *)
(* on its way to the server, or both frames of its reply are between what  *)
(* was collected and what is owed, as long as no text is "END" itself.     *)
(***************************************************************************)
THEOREM RequestsAccountedFor == Spec /\ PlainTexts => []RequestAccountedFor
  <1>1. TypeInv /\ ReplyInv /\ EndInv => RequestAccountedFor
    <2> SUFFICES ASSUME TypeInv, ReplyInv, EndInv, NEW u \in User, NEW k \in DOMAIN replies[u],
                        NEW c, c = replies[u][k][1], NEW i, i = replies[u][k][2],
                        proc = "running", ~broken[c], promise[c][i].state = "waiting"
                 PROVE  LET here == IF ioConn # c THEN <<>>
                                    ELSE IF ioPc \in {"get", "send"} THEN <<packet>> ELSE <<>>
                            out  == c2s[c] \o ((IF ioPc = "send" THEN here ELSE <<>>) \o outgoing[c])
                            in   == (IF ioPc = "get" THEN here ELSE <<>>) \o (rbuf[c] \o s2c[c])
                            got2 == frames[c][i] \o Payloads(in, i) \o owed[c][i]
                        IN  IF Occurs(out, i) > 0
                            THEN Occurs(out, i) = 1 /\ got2 = <<>>
                            ELSE got2 = <<Messages[u][k], END>>
      BY DEF RequestAccountedFor
    <2> DEFINE here == IF ioConn # c THEN <<>>
                       ELSE IF ioPc \in {"get", "send"} THEN <<packet>> ELSE <<>>
               sent == IF ioPc = "send" THEN here ELSE <<>>
               back == IF ioPc = "get" THEN here ELSE <<>>
               out  == c2s[c] \o (sent \o outgoing[c])
               in   == back \o (rbuf[c] \o s2c[c])
               n    == Occurs(out, i)
               got2 == frames[c][i] \o Payloads(in, i) \o owed[c][i]
    <2> SUFFICES IF n > 0 THEN n = 1 /\ got2 = <<>> ELSE got2 = <<Messages[u][k], END>>
      OBVIOUS
    <2> HIDE DEF n, got2
    <2>1. /\ replies[u] \in Seq(Conns \X Ids) /\ Messages[u] \in Seq(Text)
          /\ Len(replies[u]) <= Len(Messages[u])
      BY DEF TypeInv, TypeOK, ClientTypeOK, SentBound
    <2>2. /\ Len(replies[u]) \in Nat /\ Len(Messages[u]) \in Nat
          /\ DOMAIN replies[u] = 1..Len(replies[u])
      BY <2>1, LenProperties
    <2>3. k \in 1..Len(replies[u]) /\ k \in 1..Len(Messages[u])
      BY <2>1, <2>2
    <2>4. replies[u][k] \in Conns \X Ids /\ Messages[u][k] \in Text
      BY <2>1, <2>3, ElementOfSeq
    <2>5. c \in Conns /\ i \in Ids /\ replies[u][k] = <<c, i>>
      BY <2>4
    <2>6. sent = Packet("send", c) /\ back = Packet("get", c)
      BY DEF Packet
    <2>7. in = Incoming(c)
      BY <2>6 DEF Incoming
    <2> HIDE DEF sent, back
    <2>8. PICK f \in AskedFrames(c) : f.id = i /\ f.payload = Messages[u][k]
      <3> DEFINE f == [id |-> i, payload |-> Messages[u][k]]
      <3>1. f \in Frame /\ f.id = i /\ f.payload = Messages[u][k]
        BY <2>4, <2>5 DEF Frame
      <3> HIDE DEF f
      <3>2. f \in AskedFrames(c)
        BY <2>3, <2>5, <3>1 DEF AskedFrames
      <3> QED  BY <3>1, <3>2
    <2>9. PICK A, q, p, o, r, fr, set, ow, gone, W :
             /\ A = AskedFrames(c) /\ q = c2s[c] /\ p = Packet("send", c) /\ o = outgoing[c]
             /\ r = Incoming(c) /\ fr = frames[c] /\ set = Setting(c)
             /\ ow = owed[c] /\ gone = broken[c] /\ W = Wanted(c)
      OBVIOUS
    <2>10. FlowValues(A, q, p, o, r, fr, ow) /\ Flow(A, q, p, o, r, fr, set, ow, gone, W)
      BY <2>5, <2>9, StateValues DEF ReplyInv, FlowInv
    <2>11. /\ f \in A /\ f.id = i /\ ~gone /\ \A g \in A : g.id = i => g = f
      BY <2>5, <2>8, <2>9 DEF ReplyInv, AskedInv
    <2>12. Going(q, p, o, i) \/ ow[i] # <<>> \/ EndsIn(r, i) \/ set = i
      BY <2>5, <2>9, <2>11 DEF EndInv, Ahead
    <2>13. /\ q \o (p \o o) \in Seq(Frame) /\ Rising(q \o (p \o o))
           /\ Has(q \o (p \o o), i) <=> Going(q, p, o, i)
      <3>1. /\ q \in Seq(Frame) /\ p \in Seq(Frame) /\ o \in Seq(Frame)
            /\ Rising(q) /\ Rising(o) /\ Before(q, p) /\ Before(q, o) /\ Before(p, o)
        BY <2>10 DEF FlowValues, Flow, OutOK
      <3>2. Rising(p)
        <4>1. p = <<>> \/ p = <<packet>>
          BY <2>9 DEF Packet
        <4>2. Len(<<>>) = 0 /\ Len(<<packet>>) = 1
          OBVIOUS
        <4> QED  BY <4>1, <4>2 DEF Rising
      <3>3. /\ p \o o \in Seq(Frame) /\ Rising(p \o o) /\ Before(q, p \o o)
            /\ Has(p \o o, i) <=> Has(p, i) \/ Has(o, i)
        BY <3>1, <3>2, RisingConcat
      <3>4. PICK x \in Seq(Frame) : x = p \o o
        BY <3>3
      <3>5. /\ q \o x \in Seq(Frame) /\ Rising(q \o x)
            /\ Has(q \o x, i) <=> Has(q, i) \/ Has(x, i)
        <4>1. Rising(x) /\ Before(q, x)
          BY <3>3, <3>4
        <4> QED  BY <3>1, <4>1, RisingConcat
      <3> QED  BY <3>3, <3>4, <3>5 DEF Going
    <2>14. PICK x \in Seq(Frame) : x = q \o (p \o o)
      BY <2>13
    <2>15. out = x /\ in = r
      BY <2>6, <2>7, <2>9, <2>14
    <2> HIDE DEF out, in
    <2>16. CASE Going(q, p, o, i)
      <3>1. Occurs(x, i) = 1
        BY <2>13, <2>14, <2>16, RisingOnce
      <3>2. ow[i] = <<>> /\ ~Has(r, i) /\ fr[i] = <<>> /\ r \in Seq(Frame)
        BY <2>5, <2>10, <2>16 DEF Flow, FlowValues, Values
      <3>3. Payloads(r, i) = <<>>
        BY <3>2, PlacesNone
      <3>4. fr[i] \o Payloads(r, i) \o ow[i] = <<>>
        BY <2>4, <3>2, <3>3, TwoFrames
      <3>5. n = 1
        BY <2>15, <3>1 DEF n
      <3>6. got2 = <<>>
        BY <2>9, <2>15, <3>4 DEF got2
      <3> QED  BY <3>5, <3>6
    <2>17. CASE ~Going(q, p, o, i)
      <3>1. Occurs(x, i) = 0
        BY <2>13, <2>14, <2>17, PlacesNone
      <3>2. Values(A, r, fr, ow) /\ InOK(A, r, fr, set, ow, gone)
        BY <2>10 DEF FlowValues, Flow
      <3>3. fr[i] \o Payloads(r, i) \o ow[i] = <<f.payload, END>>
        <4>1. ow[i] # <<>> \/ EndsIn(r, i) \/ set = i
          BY <2>12, <2>17
        <4>2. i \in Ids /\ gone = FALSE
          <5>1. broken \in [Conns -> BOOLEAN]
            BY DEF TypeInv, TypeOK, NetTypeOK
          <5>2. broken[c] = FALSE
            BY <2>5, <5>1
          <5> QED  BY <2>5, <2>9, <5>2
        <4>3. OnlyAsked(A, i, f)
          BY <2>11 DEF OnlyAsked
        <4>4. Whole(r, fr, ow, i, f)
          BY <3>2, <4>1, <4>2, <4>3, ReplyWhole
        <4> QED  BY <4>4 DEF Whole
      <3>4. n = 0
        BY <2>15, <3>1 DEF n
      <3>5. got2 = <<f.payload, END>>
        BY <2>9, <2>15, <3>3 DEF got2
      <3>6. got2 = <<Messages[u][k], END>>
        BY <2>8, <3>5
      <3> QED  BY <3>4, <3>6
    <2> QED  BY <2>16, <2>17
  <1>2. Init /\ PlainTexts => TypeInv /\ PromiseInv /\ ReplyInv /\ EndInv
    BY TypeInit, PromiseInit, ReplyInit, EndInit
  <1>3. TypeInv /\ PromiseInv /\ ReplyInv /\ EndInv /\ [Next]_vars =>
           (TypeInv /\ PromiseInv /\ ReplyInv /\ EndInv)'
    BY TypeStep, PromiseStep, ReplyStep, EndStep
  <1> QED  BY <1>1, <1>2, <1>3, PTL DEF Spec


-----------------------------------------------------------------------------
(***************************************************************************)
(* Refinement.  Each future is decided as RequestReply says.               *)
(***************************************************************************)
\* Every id below next_id_ was given to a request.
AllAsked == \A c \in Conns : \A i \in 1..(nextId[c] - 1) :
                \E f \in AskedFrames(c) : f.id = i

\* A promise that is waited for has no reply yet.
WaitingIsOpen == \A c \in Conns : \A i \in Ids :
                     promise[c][i].state = "waiting" => promise[c][i] = Waiting

AcceptInv == AllAsked /\ WaitingIsOpen

\* At the start nothing was asked.
LEMMA AcceptInit == Init => AcceptInv
  <1> SUFFICES ASSUME Init PROVE AcceptInv
    OBVIOUS
  <1>1. \A c \in Conns : nextId[c] = 1 /\ \A i \in Ids : promise[c][i].state = "unused"
    BY DEF Init, ClientInit, Unused
  <1>2. \A i : i \notin 1..(1 - 1)
    OBVIOUS
  <1> QED  BY <1>1, <1>2 DEF AcceptInv, AllAsked, WaitingIsOpen

\* Steps that neither ask nor change a promise, except to satisfy it.
LEMMA AcceptQuiet ==
    ASSUME AcceptInv, UNCHANGED <<replies, nextId>>,
           \A c \in Conns : \A i \in Ids :
               promise'[c][i].state = "waiting" => promise'[c][i] = promise[c][i]
    PROVE  AcceptInv'
  <1>1. \A c \in Conns : AskedFrames(c)' = AskedFrames(c)
    BY DEF AskedFrames
  <1>2. AllAsked'
    BY <1>1 DEF AcceptInv, AllAsked
  <1> QED  BY <1>2 DEF AcceptInv, WaitingIsOpen

\* Every step keeps the ids without gaps.
LEMMA AcceptStep == TypeInv /\ AcceptInv /\ [Next]_vars => AcceptInv'
  <1> SUFFICES ASSUME TypeInv, AcceptInv, [Next]_vars PROVE AcceptInv'
    OBVIOUS
  <1>t. /\ promise \in [Conns -> [Ids -> Promise]] /\ ioConn \in Conns /\ packet.id \in Ids
        /\ nextId \in [Conns -> 1..(MaxId + 1)]
    BY DEF TypeInv, TypeOK, ClientTypeOK, Frame
  <1>1. ASSUME NEW u \in User, NEW c \in Conns, SendRequest(u, c)
        PROVE  AcceptInv'
    <2> DEFINE id  == nextId[c]
               req == [id |-> id, payload |-> Messages[u][Len(replies[u]) + 1]]
    <2>1. /\ AskedFrames(c)' = AskedFrames(c) \cup {req}
          /\ \A d \in Conns : d # c => AskedFrames(d)' = AskedFrames(d)
      BY <1>1, AskedMore
    <2>2. /\ id <= MaxId /\ nextId' = [nextId EXCEPT ![c] = id + 1]
          /\ promise' = [promise EXCEPT ![c][id] = Waiting]
      BY <1>1 DEF SendRequest
    <2>3. req.id = id
      OBVIOUS
    <2> HIDE DEF req
    <2>4. id \in Ids /\ \A d \in Conns : nextId[d] \in Nat
      BY <1>t, <2>2 DEF Ids
    <2>5. /\ nextId'[c] = id + 1 /\ \A d \in Conns : d # c => nextId'[d] = nextId[d]
          /\ promise'[c][id] = Waiting
          /\ \A d \in Conns : \A i \in Ids :
                d # c \/ i # id => promise'[d][i] = promise[d][i]
      BY <1>t, <2>2, <2>4
    <2>6. ASSUME NEW d \in Conns, NEW i \in 1..(nextId'[d] - 1)
          PROVE  \E f \in AskedFrames(d)' : f.id = i
      <3>1. CASE d = c /\ i = id
        BY <2>1, <2>3, <3>1
      <3>2. CASE ~(d = c /\ i = id)
        <4>1. i \in 1..(nextId[d] - 1)
          BY <2>4, <2>5, <2>6, <3>2
        <4>2. \E f \in AskedFrames(d) : f.id = i
          BY <4>1 DEF AcceptInv, AllAsked
        <4>3. AskedFrames(d) \subseteq AskedFrames(d)'
          BY <2>1
        <4> QED  BY <4>2, <4>3
      <3> QED  BY <3>1, <3>2
    <2>7. WaitingIsOpen'
      BY <2>5 DEF AcceptInv, WaitingIsOpen
    <2> QED  BY <2>6, <2>7 DEF AcceptInv, AllAsked
  <1>2. ASSUME UNCHANGED <<replies, nextId, promise>> PROVE AcceptInv'
    BY <1>2, AcceptQuiet
  <1>3. CASE IoSetValue
    <2>1. /\ UNCHANGED <<replies, nextId>>
          /\ promise' = [promise EXCEPT ![ioConn][packet.id] =
                            IF Satisfied(@) THEN @ ELSE Value(frames[ioConn][packet.id])]
      BY <1>3 DEF IoSetValue, userVars
    <2>2. \A c \in Conns : \A i \in Ids :
             promise'[c][i].state = "waiting" => promise'[c][i] = promise[c][i]
      BY <1>t, <2>1 DEF Value, Satisfied
    <2> QED  BY <2>1, <2>2, AcceptQuiet
  <1>4. CASE IoCloseLost \/ IoCloseFailed
    <2>1. UNCHANGED <<replies, nextId>> /\ CloseWithError(ioConn)
      BY <1>4 DEF IoCloseLost, IoCloseFailed, CloseWithError, userVars
    <2>2. \A c \in Conns : \A i \in Ids :
             promise'[c][i].state = "waiting" => promise'[c][i] = promise[c][i]
      BY <1>t, <2>1 DEF CloseWithError, Failed
    <2> QED  BY <2>1, <2>2, AcceptQuiet
  <1>5. CASE IoNext
    BY <1>2, <1>3, <1>4, <1>5
    DEF IoNext, IoDone, IoFrameReady, IoNothingToRead, IoReceive, IoConnectionLost,
        IoGetRequest, IoRemoveRequest, IoHasOutgoing, IoPopOutgoing, IoSend,
        IoSendIntoVoid, IoSendFails, IoSendKilled, connVars, userVars
  <1>6. CASE MainNext \/ (\E u \in User : GetReply(u))
             \/ (\E u \in User : \E c \in Conns : SendRequestThrows(u, c))
    BY <1>2, <1>6 DEF MainNext, RequestStop, JoinAndExit, GetReply, SendRequestThrows,
                      connVars, userVars
  <1>7. CASE (\E c \in Conns : PeerNext(c) /\ UNCHANGED clientVars)
             \/ (\E c \in Conns : Break(c)) \/ Over \/ UNCHANGED vars
    BY <1>2, <1>7 DEF Break, Over, vars, clientVars, connVars, userVars
  <1> QED  BY <1>1, <1>5, <1>6, <1>7 DEF Next, ClientNext, UserNext


\* The text of a request is the one its thread sent.
TextsKnown ==
    \A c \in Conns : \A f \in AskedFrames(c) :
        f.id \in Ids /\ f.payload \in Text /\ TextOf(c, f.id) = f.payload

\* No id was given to two requests, so their texts are known.
LEMMA TextOfAsked == TypeInv /\ ReplyInv => TextsKnown
  <1> SUFFICES ASSUME TypeInv, ReplyInv,
                      NEW c \in Conns, NEW f \in AskedFrames(c)
               PROVE  f.id \in Ids /\ f.payload \in Text /\ TextOf(c, f.id) = f.payload
    BY DEF TextsKnown
  <1> DEFINE i == f.id
             t == TextOf(c, i)
  <1>1. f \in Frame /\ i \in Ids /\ f.payload \in Text
    BY DEF AskedFrames, Frame
  <1>2. \A u \in User : DOMAIN replies[u] = 1..Len(replies[u])
    <2>1. \A u \in User : replies[u] \in Seq(Conns \X Ids)
      BY DEF TypeInv, TypeOK, ClientTypeOK
    <2> QED  BY <2>1, LenProperties
  <1>3. \E u \in User : \E k \in DOMAIN replies[u] :
           replies[u][k] = <<c, i>> /\ f.payload = Messages[u][k]
    BY <1>2 DEF AskedFrames
  <1>4. t \in Text /\ \E u \in User : \E k \in DOMAIN replies[u] :
           replies[u][k] = <<c, i>> /\ t = Messages[u][k]
    <2> HIDE DEF i
    <2> QED  BY <1>1, <1>3 DEF TextOf
  <1> DEFINE g == [id |-> i, payload |-> t]
  <1> HIDE DEF t, i
  <1>5. g \in Frame /\ g.id = i /\ g.payload = t
    BY <1>1, <1>4 DEF Frame
  <1> HIDE DEF g
  <1>6. g \in AskedFrames(c)
    BY <1>2, <1>4, <1>5 DEF AskedFrames
  <1>7. g = f
    BY <1>5, <1>6 DEF ReplyInv, AskedInv, i
  <1> QED  BY <1>1, <1>5, <1>7 DEF t, i

\* The requests of a connection, as RequestReply sees them.
LEMMA AskedSequence ==
    ASSUME TypeInv, TextsKnown, AllAsked, NEW c \in Conns
    PROVE  /\ nextId[c] - 1 \in Nat /\ nextId[c] \in Nat
           /\ AskedTexts[c] \in Seq(Text) /\ Outcomes[c] \in Seq(Promise)
           /\ Len(AskedTexts[c]) = nextId[c] - 1 /\ Len(Outcomes[c]) = nextId[c] - 1
           /\ \A i \in 1..(nextId[c] - 1) : /\ i \in Ids
                                            /\ AskedTexts[c][i] = TextOf(c, i)
                                            /\ Outcomes[c][i] = promise[c][i]
           /\ DOMAIN Outcomes[c] = 1..(nextId[c] - 1)
  <1> DEFINE n == nextId[c] - 1
  <1>1. nextId[c] \in 1..(MaxId + 1) /\ promise[c] \in [Ids -> Promise]
    BY DEF TypeInv, TypeOK, ClientTypeOK
  <1>2. n \in Nat /\ \A i \in 1..n : i \in Ids
    BY <1>1 DEF Ids
  <1>3. AskedTexts[c] = [i \in 1..n |-> TextOf(c, i)]
    BY DEF AskedTexts
  <1>4. Outcomes[c] = [i \in 1..n |-> promise[c][i]]
    BY DEF Outcomes
  <1>5. \A i \in 1..n : TextOf(c, i) \in Text
    BY DEF TextsKnown, AllAsked
  <1> HIDE DEF n
  <1>6. AskedTexts[c] \in Seq(Text) /\ Len(AskedTexts[c]) = n
    BY <1>2, <1>3, <1>5
  <1>7. Outcomes[c] \in Seq(Promise) /\ Len(Outcomes[c]) = n
    BY <1>1, <1>2, <1>4
  <1>8. \A i \in 1..n : AskedTexts[c][i] = TextOf(c, i) /\ Outcomes[c][i] = promise[c][i]
    BY <1>3, <1>4
  <1>9. DOMAIN Outcomes[c] = 1..n
    BY <1>4
  <1>10. nextId[c] \in Nat
    BY <1>1
  <1> QED  BY <1>2, <1>6, <1>7, <1>8, <1>9, <1>10, Zenon DEF n


\* The invariant that the refinement rests on.
RefineInv == TypeInv /\ PromiseInv /\ ReplyInv /\ AcceptInv /\ TextsKnown

\* send_request() is Accept.
LEMMA SendRequestAccepts ==
    ASSUME RefineInv, RefineInv', NEW u \in User, NEW c \in Conns, SendRequest(u, c)
    PROVE  Abstract!Next
  <1> DEFINE text == Messages[u][Len(replies[u]) + 1]
             req  == [id |-> nextId[c], payload |-> text]
  <1>1. /\ req \in Frame /\ AskedFrames(c)' = AskedFrames(c) \cup {req}
        /\ \A d \in Conns : d # c => AskedFrames(d)' = AskedFrames(d)
    BY AskedMore DEF RefineInv
  <1>2. /\ ~closed[c] /\ closed' = closed
        /\ nextId' = [nextId EXCEPT ![c] = nextId[c] + 1]
        /\ promise' = [promise EXCEPT ![c][nextId[c]] = Waiting]
    BY DEF SendRequest
  <1>3. text \in Text /\ nextId[c] \in Ids /\ req.id = nextId[c] /\ req.payload = text
    BY <1>1 DEF Frame
  <1> HIDE DEF req, text
  <1>4. \A d \in Conns : \A f \in AskedFrames(d) : TextOf(d, f.id) = f.payload
    BY DEF RefineInv, TextsKnown
  <1>5. \A d \in Conns : \A f \in AskedFrames(d)' : TextOf(d, f.id)' = f.payload
    BY DEF RefineInv, TextsKnown
  <1>6. /\ promise \in [Conns -> [Ids -> Promise]]
        /\ nextId \in [Conns -> 1..(MaxId + 1)]
    BY DEF RefineInv, TypeInv, TypeOK, ClientTypeOK
  <1>7. \A d \in Conns :
           /\ nextId[d] - 1 \in Nat /\ nextId[d] \in Nat
           /\ AskedTexts[d] \in Seq(Text) /\ Outcomes[d] \in Seq(Promise)
           /\ Len(AskedTexts[d]) = nextId[d] - 1 /\ Len(Outcomes[d]) = nextId[d] - 1
           /\ \A i \in 1..(nextId[d] - 1) : /\ i \in Ids
                                            /\ AskedTexts[d][i] = TextOf(d, i)
                                            /\ Outcomes[d][i] = promise[d][i]
    BY AskedSequence DEF RefineInv, AcceptInv
  <1>8. ASSUME NEW d \in Conns, NEW i \in 1..(nextId[d] - 1)
        PROVE  TextOf(d, i)' = TextOf(d, i)
    <2>1. PICK f \in AskedFrames(d) : f.id = i
      BY <1>8 DEF RefineInv, AcceptInv, AllAsked
    <2>2. f \in AskedFrames(d)'
      BY <1>1
    <2> QED  BY <1>4, <1>5, <2>1, <2>2
  <1>10. PICK n \in Nat : n = nextId[c] - 1
    BY <1>7
  <1>11. nextId[c] = n + 1 /\ nextId'[c] - 1 = n + 1
    BY <1>2, <1>6, <1>7, <1>10
  <1>9. TextOf(c, n + 1)' = text
    <2>1. PICK f : f = req
      OBVIOUS
    <2>2. f \in AskedFrames(c)' /\ f.id = n + 1 /\ f.payload = text
      BY <1>1, <1>3, <1>11, <2>1
    <2> QED  BY <1>5, <2>2
  <1>12. AskedTexts'[c] = Append(AskedTexts[c], text)
    <2>1. AskedTexts'[c] = [i \in 1..(n + 1) |-> TextOf(c, i)']
      BY <1>11 DEF AskedTexts
    <2>2. PICK s \in Seq(Text) : s = AskedTexts[c]
      BY <1>7
    <2>3. PICK t : t = AskedTexts'[c]
      OBVIOUS
    <2>4. Len(s) = n /\ t = [i \in 1..(n + 1) |-> t[i]]
      BY <1>7, <1>10, <2>1, <2>2, <2>3
    <2>5. (\A k \in 1..n : k \in 1..(n + 1)) /\ n + 1 \in 1..(n + 1)
      OBVIOUS
    <2>6. \A k \in 1..n : t[k] = s[k]
      BY <1>7, <1>8, <1>10, <2>1, <2>2, <2>3, <2>5
    <2>7. t[n + 1] = text
      BY <1>9, <2>1, <2>3, <2>5
    <2>8. t = Append(s, text)
      BY <1>3, <2>4, <2>6, <2>7, IsAppended
    <2> QED  BY <2>2, <2>3, <2>8
  <1>13. Outcomes'[c] = Append(Outcomes[c], Waiting)
    <2>1. Outcomes'[c] = [i \in 1..(n + 1) |-> promise'[c][i]]
      BY <1>11 DEF Outcomes
    <2>2. PICK s \in Seq(Promise) : s = Outcomes[c]
      BY <1>7
    <2>3. PICK t : t = Outcomes'[c]
      OBVIOUS
    <2>4. Len(s) = n /\ t = [i \in 1..(n + 1) |-> t[i]]
      BY <1>7, <1>10, <2>1, <2>2, <2>3
    <2>5. (\A k \in 1..n : k \in 1..(n + 1) /\ k # n + 1) /\ n + 1 \in 1..(n + 1)
      OBVIOUS
    <2>6. /\ promise'[c][n + 1] = Waiting
          /\ \A i \in Ids : i # n + 1 => promise'[c][i] = promise[c][i]
      BY <1>2, <1>3, <1>6, <1>11
    <2>7. \A k \in 1..n : t[k] = s[k]
      BY <1>7, <1>10, <2>1, <2>2, <2>3, <2>5, <2>6
    <2>8. t[n + 1] = Waiting /\ Waiting \in Promise
      <3>1. Waiting \in Promise
        BY EmptySeq DEF Waiting, Promise
      <3> QED  BY <2>1, <2>3, <2>5, <2>6, <3>1
    <2>9. PICK w \in Promise : w = Waiting
      BY <2>8
    <2>10. t[n + 1] = w
      BY <2>8, <2>9
    <2>11. t = Append(s, w)
      <3>1. PICK a : a = Append(s, w)
        OBVIOUS
      <3>2. /\ a = [k \in 1..(n + 1) |-> a[k]]
            /\ \A k \in 1..n : a[k] = s[k]
            /\ a[n + 1] = w
        <4>1. a \in Seq(Promise) /\ Len(a) = Len(s) + 1
          BY <3>1, AppendParts
        <4>2. (\A k \in 1..Len(s) : a[k] = s[k]) /\ a[Len(s) + 1] = w
          BY <3>1, AppendParts
        <4> QED  BY <2>4, <4>1, <4>2
      <3>3. \A k \in 1..(n + 1) : k \in 1..n \/ k = n + 1
        OBVIOUS
      <3>4. \A k \in 1..(n + 1) : t[k] = a[k]
        BY <2>7, <2>10, <3>2, <3>3
      <3>5. t = a
        BY <2>4, <3>2, <3>4
      <3> QED  BY <3>1, <3>5
    <2> QED  BY <2>2, <2>3, <2>9, <2>11
  <1>14. ASSUME NEW d \in Conns, d # c
         PROVE  AskedTexts'[d] = AskedTexts[d] /\ Outcomes'[d] = Outcomes[d]
    <2>1. nextId'[d] = nextId[d] /\ promise'[d] = promise[d]
      BY <1>2, <1>6, <1>14
    <2>2. AskedTexts'[d] = [i \in 1..(nextId[d] - 1) |-> TextOf(d, i)']
      BY <2>1 DEF AskedTexts
    <2>3. AskedTexts[d] = [i \in 1..(nextId[d] - 1) |-> TextOf(d, i)]
      BY DEF AskedTexts
    <2>4. AskedTexts'[d] = AskedTexts[d]
      BY <1>8, <2>2, <2>3
    <2>5. Outcomes'[d] = Outcomes[d]
      BY <2>1 DEF Outcomes
    <2> QED  BY <2>4, <2>5
  <1>15. AskedTexts' = [AskedTexts EXCEPT ![c] = Append(@, text)]
    <2>1. /\ AskedTexts = [d \in Conns |-> AskedTexts[d]]
          /\ AskedTexts' = [d \in Conns |-> AskedTexts'[d]]
      BY DEF AskedTexts
    <2> QED  BY <1>12, <1>14, <2>1
  <1>16. Outcomes' = [Outcomes EXCEPT ![c] = Append(@, Waiting)]
    <2>1. /\ Outcomes = [d \in Conns |-> Outcomes[d]]
          /\ Outcomes' = [d \in Conns |-> Outcomes'[d]]
      BY DEF Outcomes
    <2> QED  BY <1>13, <1>14, <2>1
  <1>17. Accepting' = Accepting /\ Accepting[c]
    BY <1>2 DEF Accepting
  <1>18. Abstract!Accept(c, text)
    BY <1>15, <1>16, <1>17 DEF Abstract!Accept, Abstract!Undecided, Waiting
  <1> QED  BY <1>3, <1>18 DEF Abstract!Next


\* The texts and the open connections change with replies and closed_ only.
LEMMA TextsKept ==
    ASSUME UNCHANGED <<replies, nextId>>
    PROVE  UNCHANGED AskedTexts
  <1>1. \A c, i : TextOf(c, i)' = TextOf(c, i)
    BY DEF TextOf
  <1> QED  BY <1>1 DEF AskedTexts

\* set_value() is Answer: the promise was open, and gets its own reply.
LEMMA SetValueAnswers ==
    ASSUME RefineInv, IoSetValue, UNCHANGED owed
    PROVE  Abstract!Next
  <1>1. /\ proc = "running" /\ ioPc = "set" /\ UNCHANGED <<replies, nextId, closed>>
        /\ proc' = IF Satisfied(promise[ioConn][packet.id]) THEN "aborted" ELSE proc
        /\ promise' = [promise EXCEPT ![ioConn][packet.id] =
                          IF Satisfied(@) THEN @ ELSE Value(frames[ioConn][packet.id])]
    BY DEF IoSetValue, At, userVars
  <1>2. PICK c \in Conns, i \in Ids : c = ioConn /\ i = packet.id
    BY DEF RefineInv, TypeInv, TypeOK, ClientTypeOK, Frame
  <1>3. i \in pending[c] /\ promise[c][i].state = "waiting" /\ i < nextId[c]
    BY <1>1, <1>2 DEF RefineInv, PromiseInv, SettingIsPending, PendingIsWaiting,
                      PendingIsOld, BeingRemoved
  <1>4. promise[c][i] = Waiting /\ ~Satisfied(promise[c][i])
    BY <1>3 DEF RefineInv, AcceptInv, WaitingIsOpen, Satisfied
  <1>5. PICK f \in AskedFrames(c) : f.id = i /\ frames[c][i] = <<f.payload, END>>
    <2>1. proc' = "running"
      BY <1>1, <1>2, <1>4
    <2>2. FlowInv(c) /\ PlainTexts
      BY <1>1 DEF RefineInv, ReplyInv
    <2> QED  BY <1>2, <2>1, <2>2, FlowSetValue DEF RefineInv
  <1>6. TextOf(c, i) = f.payload
    BY <1>5 DEF RefineInv, TextsKnown
  <1>7. i \in 1..(nextId[c] - 1)
    BY <1>3 DEF RefineInv, TypeInv, TypeOK, ClientTypeOK, Ids
  <1>8. AskedTexts[c][i] = f.payload
    BY <1>6, <1>7 DEF AskedTexts
  <1>9. PICK v : v = Value(<<f.payload, END>>)
    OBVIOUS
  <1>10. promise' = [promise EXCEPT ![c][i] = v]
    BY <1>1, <1>2, <1>4, <1>5, <1>9
  <1>11. \A d \in Conns : \A k \in Ids :
            promise'[d][k] = IF d = c /\ k = i THEN v ELSE promise[d][k]
    BY <1>10 DEF RefineInv, TypeInv, TypeOK, ClientTypeOK
  <1>12. Outcomes' = [Outcomes EXCEPT ![c][i] = v]
    <2>1. \A d \in Conns : \A k \in 1..(nextId[d] - 1) : k \in Ids
      <3>1. \A d \in Conns : nextId[d] \in 1..(MaxId + 1)
        BY DEF RefineInv, TypeInv, TypeOK, ClientTypeOK
      <3> QED  BY <3>1 DEF Ids
    <2>2. \A d \in Conns : Outcomes[d] = [k \in 1..(nextId[d] - 1) |-> promise[d][k]]
      BY DEF Outcomes
    <2>3. Outcomes = [d \in Conns |-> Outcomes[d]]
      BY DEF Outcomes
    <2>4. Outcomes' = [d \in Conns |-> [k \in 1..(nextId[d] - 1) |-> promise'[d][k]]]
      BY <1>1 DEF Outcomes
    <2>5. \A d \in Conns : d # c =>
             [k \in 1..(nextId[d] - 1) |-> promise'[d][k]] = Outcomes[d]
      <3>1. \A d \in Conns : d # c => \A k \in 1..(nextId[d] - 1) :
               promise'[d][k] = promise[d][k]
        BY <1>11, <2>1
      <3> QED  BY ZenonT(30), <2>2, <3>1
    <2>6. [k \in 1..(nextId[c] - 1) |-> promise'[c][k]] = [Outcomes[c] EXCEPT ![i] = v]
      <3>1. PICK D, o, p : D = 1..(nextId[c] - 1) /\ o = Outcomes[c] /\ p = promise'[c]
        OBVIOUS
      <3>2. o = [k \in D |-> o[k]]
        BY <2>2, <3>1
      <3>3. \A k \in D : p[k] = IF k = i THEN v ELSE o[k]
        <4>1. \A k \in D : k \in Ids /\ o[k] = promise[c][k]
          BY <2>1, <2>2, <3>1
        <4>2. \A k \in Ids : p[k] = IF k = i THEN v ELSE promise[c][k]
          BY <1>11, <3>1
        <4> QED  BY <4>1, <4>2
      <3>4. [k \in D |-> p[k]] = [o EXCEPT ![i] = v]
        BY <3>2, <3>3
      <3> QED  BY <3>1, <3>4
    <2> QED  BY <2>3, <2>4, <2>5, <2>6
  <1>13. Outcomes[c][i] = Abstract!Undecided /\ i \in DOMAIN Outcomes[c]
    BY <1>4, <1>7 DEF Outcomes, Abstract!Undecided, Waiting
  <1>14. v = Abstract!Echo(AskedTexts[c][i])
    BY <1>8, <1>9 DEF Abstract!Echo, Value
  <1>15. UNCHANGED <<AskedTexts, Accepting>>
    BY <1>1, TextsKept DEF Accepting
  <1>16. Abstract!Answer(c, i)
    BY <1>12, <1>13, <1>14, <1>15 DEF Abstract!Answer
  <1> QED  BY <1>13, <1>16 DEF Abstract!Next

\* close_with_error() is Close: pending_ holds the promises that are open.
LEMMA CloseCloses ==
    ASSUME RefineInv, WorksOnOpen, IoCloseLost \/ IoCloseFailed
    PROVE  Abstract!Next
  <1>1. PICK c \in Conns : c = ioConn
    BY DEF RefineInv, TypeInv, TypeOK, ClientTypeOK
  <1>2. /\ ioPc # "remove" /\ ~closed[c] /\ UNCHANGED <<replies, nextId>>
        /\ closed' = [closed EXCEPT ![c] = TRUE]
        /\ promise' = [promise EXCEPT ![c] =
              [i \in Ids |-> IF i \in pending[c] THEN Failed ELSE promise[c][i]]]
    BY <1>1 DEF IoCloseLost, IoCloseFailed, CloseWithError, At, WorksOnOpen, userVars
  <1>3. /\ promise \in [Conns -> [Ids -> Promise]] /\ closed \in [Conns -> BOOLEAN]
        /\ pending \in [Conns -> SUBSET Ids]
    BY DEF RefineInv, TypeInv, TypeOK, ClientTypeOK
  <1>4. \A i \in Ids : i \in pending[c] <=> promise[c][i] = Waiting
    <2>1. Waiting.state = "waiting"
      BY DEF Waiting
    <2> QED  BY <1>2, <2>1 DEF RefineInv, PromiseInv, WaitingIsPending, PendingIsWaiting,
                          BeingRemoved, AcceptInv, WaitingIsOpen
  <1>5. /\ \A i \in Ids : promise'[c][i] = IF promise[c][i] = Waiting THEN Failed
                                                                   ELSE promise[c][i]
        /\ \A d \in Conns : d # c => promise'[d] = promise[d]
    BY <1>2, <1>3, <1>4
  <1>6. PICK un, ex : un = Waiting /\ ex = Failed
    OBVIOUS
  <1>7. Outcomes' = [Outcomes EXCEPT ![c] =
            [i \in DOMAIN @ |-> IF @[i] = un THEN ex ELSE @[i]]]
    <2>1. \A d \in Conns : \A k \in 1..(nextId[d] - 1) : k \in Ids
      <3>1. \A d \in Conns : nextId[d] \in 1..(MaxId + 1)
        BY DEF RefineInv, TypeInv, TypeOK, ClientTypeOK
      <3> QED  BY <3>1 DEF Ids
    <2>2. \A d \in Conns : Outcomes[d] = [k \in 1..(nextId[d] - 1) |-> promise[d][k]]
      BY DEF Outcomes
    <2>3. Outcomes = [d \in Conns |-> Outcomes[d]]
      BY DEF Outcomes
    <2>4. Outcomes' = [d \in Conns |-> [k \in 1..(nextId[d] - 1) |-> promise'[d][k]]]
      BY <1>2 DEF Outcomes
    <2>5. [k \in 1..(nextId[c] - 1) |-> promise'[c][k]] =
              [i \in DOMAIN Outcomes[c] |-> IF Outcomes[c][i] = un THEN ex
                                                                  ELSE Outcomes[c][i]]
      <3>1. PICK D, o, p : D = 1..(nextId[c] - 1) /\ o = Outcomes[c] /\ p = promise'[c]
        OBVIOUS
      <3>2. DOMAIN o = D
        BY <2>2, <3>1
      <3>3. \A k \in D : k \in Ids /\ o[k] = promise[c][k]
        BY <2>1, <2>2, <3>1
      <3>4. \A k \in D : p[k] = IF o[k] = un THEN ex ELSE o[k]
        BY <1>5, <1>6, <3>1, <3>3
      <3>5. [k \in D |-> p[k]] = [i \in DOMAIN o |-> IF o[i] = un THEN ex ELSE o[i]]
        BY <3>2, <3>4
      <3> QED  BY <3>1, <3>5
    <2>6. \A d \in Conns : d # c =>
             [k \in 1..(nextId[d] - 1) |-> promise'[d][k]] = Outcomes[d]
      <3>1. \A d \in Conns : d # c => \A k \in 1..(nextId[d] - 1) :
               promise'[d][k] = promise[d][k]
        BY <1>5
      <3> QED  BY ZenonT(30), <2>2, <3>1
    <2> QED  BY <2>3, <2>4, <2>5, <2>6
  <1>8. un = Abstract!Undecided /\ ex = Abstract!Exception
    BY <1>6 DEF Abstract!Undecided, Abstract!Exception, Waiting, Failed
  <1>9. Accepting[c] /\ Accepting' = [Accepting EXCEPT ![c] = FALSE]
    BY <1>2, <1>3 DEF Accepting
  <1>10. UNCHANGED AskedTexts
    BY <1>2, TextsKept
  <1>11. Abstract!Close(c)
    BY <1>7, <1>8, <1>9, <1>10 DEF Abstract!Close
  <1> QED  BY <1>11 DEF Abstract!Next


\* The I/O thread works on an open connection wherever it may close it.
LEMMA WorksOnOpenStep == TypeInv /\ WorksOnOpen /\ [Next]_vars => WorksOnOpen'
  <1> SUFFICES ASSUME TypeInv, WorksOnOpen, [Next]_vars PROVE WorksOnOpen'
    OBVIOUS
  <1>1. CASE UNCHANGED <<ioPc, ioConn, closed>>
    BY <1>1 DEF WorksOnOpen
  <1>2. CASE IoDone \/ IoFrameReady \/ IoNothingToRead \/ IoReceive \/ IoCloseLost
             \/ IoGetRequest \/ IoSetValue \/ IoRemoveRequest
    BY <1>2 DEF WorksOnOpen, IoDone, IoFrameReady, IoNothingToRead, IoReceive, IoCloseLost,
                IoGetRequest, IoSetValue, IoRemoveRequest, Goto
  <1>3. CASE IoCloseFailed \/ IoSend \/ IoSendIntoVoid
    BY <1>3 DEF WorksOnOpen, IoCloseFailed, IoSend, IoSendIntoVoid, NextConnection
  <1>4. CASE IoHasOutgoing
    BY <1>4 DEF WorksOnOpen, IoHasOutgoing, NextConnection, Goto, connVars
  <1>5. CASE IoConnectionLost \/ IoPopOutgoing \/ IoSendFails
    BY <1>5 DEF WorksOnOpen, IoConnectionLost, IoPopOutgoing, IoSendFails, At, Goto, connVars
  <1>6. CASE IoSendKilled
    BY SMTT(30), <1>1, <1>6 DEF IoSendKilled, ioVars, connVars
  <1>7. CASE MainNext \/ (\E u \in User : UserNext(u))
    BY <1>1, <1>7 DEF MainNext, RequestStop, JoinAndExit, UserNext, SendRequest,
                      SendRequestThrows, GetReply, ioVars, connVars
  <1>8. CASE (\E c \in Conns : PeerNext(c) /\ UNCHANGED clientVars)
             \/ (\E c \in Conns : Break(c)) \/ Over \/ UNCHANGED vars
    BY <1>1, <1>8 DEF Break, Over, vars, clientVars, ioVars, connVars
  <1> QED  BY <1>2, <1>3, <1>4, <1>5, <1>6, <1>7, <1>8 DEF Next, ClientNext, IoNext

\* A step that leaves requests, promises and closed_ alone is a stutter.
LEMMA QuietStutters ==
    ASSUME UNCHANGED <<replies, nextId, promise, closed>>
    PROVE  UNCHANGED <<AskedTexts, Outcomes, Accepting>>
  BY TextsKept DEF Outcomes, Accepting

\* Every step of the client, the server and the network is a step of
\* RequestReply or changes nothing that it shows.
LEMMA StepImplements ==
    ASSUME RefineInv, RefineInv', WorksOnOpen, [Next]_vars
    PROVE  [Abstract!Next]_<<AskedTexts, Outcomes, Accepting>>
  <1>1. CASE UNCHANGED <<replies, nextId, promise, closed>>
    BY <1>1, QuietStutters
  <1>2. ASSUME NEW u \in User, NEW c \in Conns, SendRequest(u, c)
        PROVE  Abstract!Next
    BY <1>2, SendRequestAccepts
  <1>3. CASE IoSetValue /\ UNCHANGED owed
    BY <1>3, SetValueAnswers
  <1>4. CASE IoCloseLost \/ IoCloseFailed
    BY <1>4, CloseCloses
  <1>5. CASE IoNext /\ UNCHANGED owed
    BY <1>1, <1>3, <1>4, <1>5
    DEF IoNext, IoDone, IoFrameReady, IoNothingToRead, IoReceive, IoConnectionLost,
        IoGetRequest, IoRemoveRequest, IoHasOutgoing, IoPopOutgoing, IoSend,
        IoSendIntoVoid, IoSendFails, IoSendKilled, connVars, userVars
  <1>6. CASE MainNext \/ (\E u \in User : GetReply(u))
             \/ (\E u \in User : \E c \in Conns : SendRequestThrows(u, c))
    BY <1>1, <1>6 DEF MainNext, RequestStop, JoinAndExit, GetReply, SendRequestThrows,
                      connVars, userVars
  <1>7. CASE (\E c \in Conns : PeerNext(c) /\ UNCHANGED clientVars)
             \/ (\E c \in Conns : Break(c)) \/ Over \/ UNCHANGED vars
    BY <1>1, <1>7 DEF Break, Over, vars, clientVars, connVars, userVars
  <1> QED  BY <1>2, <1>5, <1>6, <1>7 DEF Next, ClientNext, UserNext

\* Nothing was asked at the start, and all connections are open.
LEMMA InitImplements == TypeInv /\ Init => Abstract!Init
  <1> SUFFICES ASSUME TypeInv, Init PROVE Abstract!Init
    OBVIOUS
  <1>1. \A c \in Conns : nextId[c] = 1 /\ ~closed[c]
    BY DEF Init, ClientInit
  <1>2. 1..(1 - 1) = {}
    OBVIOUS
  <1>3. ASSUME NEW c \in Conns
        PROVE  AskedTexts[c] = <<>> /\ Outcomes[c] = <<>>
    <2>1. AskedTexts[c] = [i \in {} |-> TextOf(c, i)]
      BY <1>1, <1>2 DEF AskedTexts
    <2>2. Outcomes[c] = [i \in {} |-> promise[c][i]]
      BY <1>1, <1>2 DEF Outcomes
    <2> QED  BY <2>1, <2>2
  <1>4. AskedTexts = [c \in Conns |-> <<>>] /\ Outcomes = [c \in Conns |-> <<>>]
    <2>1. /\ AskedTexts = [c \in Conns |-> AskedTexts[c]]
          /\ Outcomes = [c \in Conns |-> Outcomes[c]]
      BY DEF AskedTexts, Outcomes
    <2> QED  BY <1>3, <2>1
  <1>5. Accepting = [c \in Conns |-> TRUE]
    BY <1>1 DEF Accepting
  <1> QED  BY <1>4, <1>5 DEF Abstract!Init

(***************************************************************************)
(* promise_client implements RequestReply: whatever the threads, the       *)
(* chunks and the network do, each future of send_request() is decided     *)
(* once, by the echo of its own text or by the one close_with_error() of   *)
(* its connection, which decides all futures that are open at that moment. *)
(***************************************************************************)
THEOREM ClientImplementsRequestReply == Spec /\ PlainTexts => ImplementsRequestReply
  <1> DEFINE Inv == RefineInv /\ WorksOnOpen
  <1>1. Init /\ PlainTexts => Inv /\ Abstract!Init
    BY TypeInit, PromiseInit, ReplyInit, AcceptInit, TextOfAsked, InitImplements
    DEF RefineInv, WorksOnOpen, Init, ClientInit
  <1>2. Inv /\ [Next]_vars => Inv'
    <2>1. TypeInv /\ PromiseInv /\ ReplyInv /\ AcceptInv /\ WorksOnOpen /\ [Next]_vars =>
             (TypeInv /\ PromiseInv /\ ReplyInv /\ AcceptInv /\ WorksOnOpen)'
      BY TypeStep, PromiseStep, ReplyStep, AcceptStep, WorksOnOpenStep
    <2>2. (TypeInv /\ ReplyInv => TextsKnown)'
      BY TextOfAsked, PTL
    <2> QED  BY <2>1, <2>2 DEF RefineInv
  <1>3. Inv /\ Inv' /\ [Next]_vars => [Abstract!Next]_<<AskedTexts, Outcomes, Accepting>>
    BY StepImplements
  <1> QED  BY <1>1, <1>2, <1>3, PTL DEF Spec, ImplementsRequestReply, Abstract!Spec
=============================================================================
