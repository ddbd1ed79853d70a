--------------------------- MODULE AsioServerProofs ---------------------------
(***************************************************************************)
(* Proofs about promise_server_asio serving any number of clients with any *)
(* number of threads: its sessions keep one write in flight, answer in the *)
(* order of the requests, and do to every connection what EchoPeer         *)
(* promises.                                                               *)
(***************************************************************************)
EXTENDS AsioServer, StreamsProofs

OpStates    == {"none", "pending", "ok", "error"}
ReadLabels  == {"off", "decode", "test", "push", "start"}
WriteLabels == {"off", "pop", "next"}

TypeInv ==
    /\ NetTypeOK
    /\ backlog \in Seq(Conns)
    /\ readOp \in [Conns -> OpStates] /\ writeOp \in [Conns -> OpStates]
    /\ chunk \in [Conns -> Seq(Frame)]
    /\ sfrag \in [Conns -> BOOLEAN]
    /\ written \in [Conns -> 0..2]
    /\ sbuf \in [Conns -> Seq(Frame)]
    /\ queue \in [Conns -> Seq(Frame)]
    /\ sockOpen \in [Conns -> BOOLEAN]
    /\ rh \in [Conns -> ReadLabels] /\ wh \in [Conns -> WriteLabels]
    /\ cur \in [Conns -> Frame]
    /\ wasIdle \in [Conns -> BOOLEAN]
    /\ srv \in {"up", "stopped", "crashed"}
    /\ linked \in [Conns -> BOOLEAN]
    /\ asked \in [Conns -> Seq(Text)]
    /\ seen \in [Conns -> Seq(Frame)]

(***************************************************************************)
(* The strand: no two handlers of a session run, so that what one of them  *)
(* has read of the session stays true until it acts on it.  `idle' says of *)
(* the queue what it said when it was read, and the front of the queue is  *)
(* being written by the one write there is.                                *)
(***************************************************************************)
SessionInv(c) ==
    /\ rh[c] = "off" \/ wh[c] = "off"
    /\ rh[c] # "off" => readOp[c] = "none"
    /\ chunk[c] # <<>> => readOp[c] = "ok"
    /\ writeOp[c] # "none" => queue[c] # <<>> /\ rh[c] # "start" /\ wh[c] = "off"
    /\ rh[c] = "start" \/ wh[c] = "pop" => queue[c] # <<>>
    /\ rh[c] = "push" => (wasIdle[c] <=> queue[c] = <<>>)
    /\ queue[c] # <<>> /\ sockOpen[c] =>
          writeOp[c] # "none" \/ rh[c] = "start" \/ wh[c] # "off"

\* How much of the front reply is written.
WrittenInv(c) ==
    /\ writeOp[c] = "ok" \/ wh[c] = "pop" <=> written[c] = 2
    /\ queue[c] = <<>> => written[c] = 0

\* A connection that has not been accepted has no session.
Fresh(c) ==
    /\ readOp[c] = "none" /\ writeOp[c] = "none"
    /\ rh[c] = "off" /\ wh[c] = "off"
    /\ queue[c] = <<>>

BacklogInv ==
    /\ \A j, k \in DOMAIN backlog : backlog[j] = backlog[k] => j = k
    /\ \A k \in DOMAIN backlog : linked[backlog[k]] /\ Fresh(backlog[k])
    /\ \A c \in Conns : ~linked[c] => Fresh(c)

\* The request the read handler holds between decoding and queueing it.
Held(c) == IF rh[c] \in {"test", "push"} THEN <<cur[c]>> ELSE <<>>

\* The requests of a connection that are not answered completely, wherever
\* they are, in the order they will be answered.
Unanswered(c) == queue[c] \o (Held(c) \o (sbuf[c] \o (chunk[c] \o c2s[c])))

\* The n-th request of a connection.
RequestNo(c, n) == [id |-> n, payload |-> asked[c][n]]

(***************************************************************************)
(* Nothing overtakes, nothing is lost on a connection that stands: the     *)
(* unanswered requests are consecutive, after n that were answered, and    *)
(* the frames of the n replies, and of the part of the next one that is    *)
(* written, are the ones the client has read or can still read.            *)
(***************************************************************************)
OrderAt(c, n) ==
    /\ \A k \in 1..Len(Unanswered(c)) : Unanswered(c)[k] = RequestNo(c, n + k)
    /\ n + Len(Unanswered(c)) <= Len(asked[c])
    /\ ~broken[c] =>
          /\ n + Len(Unanswered(c)) = Len(asked[c])
          /\ 2 * n + written[c] = Len(seen[c]) + Len(s2c[c])

OrderInv(c) == \E n \in Nat : OrderAt(c, n)

\* The replies that were sent are those to the requests, in order.
Replies(c) == seen[c] \o s2c[c]

RepliesInv(c) ==
    /\ Len(Replies(c)) <= 2 * Len(asked[c])
    /\ \A k \in 1..Len(Replies(c)) : Replies(c)[k] = Expected(asked[c])[k]

-----------------------------------------------------------------------------

\* Init satisfies the types.
LEMMA TypeInit == Init => TypeInv
  <1> SUFFICES ASSUME Init PROVE TypeInv
    OBVIOUS
  <1> USE DEF Init, NetInit, ServerInit, ClientsInit
  <1>1. \A S : <<>> \in Seq(S)
    BY EmptySeq
  <1>2. [id |-> 1, payload |-> END] \in Frame
    BY TransportAssumption DEF Frame, Ids
  <1>3. NetTypeOK
    BY <1>1 DEF NetTypeOK
  <1> QED  BY <1>1, <1>2, <1>3 DEF TypeInv, OpStates, ReadLabels, WriteLabels

\* The streams of a connection are sequences of frames.
LEMMA SessionTypes ==
    ASSUME TypeInv, NEW c \in Conns
    PROVE  /\ c2s[c] \in Seq(Frame) /\ s2c[c] \in Seq(Frame)
           /\ chunk[c] \in Seq(Frame) /\ sbuf[c] \in Seq(Frame)
           /\ queue[c] \in Seq(Frame) /\ seen[c] \in Seq(Frame)
           /\ asked[c] \in Seq(Text) /\ cur[c] \in Frame
           /\ written[c] \in 0..2
           /\ broken[c] \in BOOLEAN /\ wasIdle[c] \in BOOLEAN /\ sockOpen[c] \in BOOLEAN
  BY DEF TypeInv, NetTypeOK

\* The frame that async_write puts on the connection next.
ReplyFrame(c) ==
    [id |-> Head(queue[c]).id, payload |-> ReplyTo(Head(queue[c]))[written[c] + 1]]

LEMMA ReplyFrameType ==
    ASSUME TypeInv, NEW c \in Conns, SessionInv(c), WrittenInv(c), writeOp[c] = "pending"
    PROVE  /\ queue[c] # <<>> /\ Head(queue[c]) \in Frame /\ written[c] \in {0, 1}
           /\ ReplyFrame(c) =
                 [id |-> Head(queue[c]).id,
                  payload |-> IF written[c] = 0 THEN Head(queue[c]).payload ELSE END]
           /\ ReplyFrame(c) \in Frame
  <1>1. queue[c] # <<>> /\ wh[c] = "off" /\ written[c] # 2
    BY DEF SessionInv, WrittenInv
  <1>2. written[c] \in {0, 1}
    BY <1>1, SessionTypes
  <1>3. Head(queue[c]) \in Frame
    BY <1>1, SessionTypes, HeadTailParts
  <1>4. ReplyTo(Head(queue[c]))[written[c] + 1] =
           IF written[c] = 0 THEN Head(queue[c]).payload ELSE END
    <2>1. CASE written[c] = 0
      BY <2>1 DEF ReplyTo
    <2>2. CASE written[c] = 1
      BY <2>2 DEF ReplyTo
    <2> QED  BY <1>2, <2>1, <2>2
  <1>5. Head(queue[c]).id \in Ids /\ Head(queue[c]).payload \in Text
    BY <1>3 DEF Frame
  <1> QED  BY <1>1, <1>2, <1>3, <1>4, <1>5, TransportAssumption DEF ReplyFrame, Frame

\* Every step of a session keeps the types.
LEMMA SessionKeepsTypes ==
    ASSUME TypeInv, NEW c \in Conns, SessionInv(c), WrittenInv(c),
           SessionNext(c), UNCHANGED clientsVars
    PROVE  TypeInv'
  <1> USE DEF TypeInv, NetTypeOK, netVars, clientsVars, sessVars, opVars,
              OpStates, ReadLabels, WriteLabels
  <1>1. CASE ReadCompletes(c)
    <2>1. readOp' \in [Conns -> OpStates]
      <3>1. \/ readOp' = [readOp EXCEPT ![c] = "ok"]
            \/ readOp' = [readOp EXCEPT ![c] = "error"]
        BY <1>1 DEF ReadCompletes
      <3> QED  BY <3>1
    <2>2. /\ chunk' \in [Conns -> Seq(Frame)] /\ c2s' \in [Conns -> Seq(Frame)]
          /\ sfrag' \in [Conns -> BOOLEAN]
      <3>1. CASE UNCHANGED <<chunk, c2s, sfrag>>
        BY <3>1
      <3>2. ASSUME NEW taken \in 0..Len(c2s[c]), NEW part \in BOOLEAN,
                   chunk' = [chunk EXCEPT ![c] = Keep(c2s[c], taken)],
                   c2s' = [c2s EXCEPT ![c] = Drop(@, taken)],
                   sfrag' = [sfrag EXCEPT ![c] = part]
            PROVE  /\ chunk' \in [Conns -> Seq(Frame)] /\ c2s' \in [Conns -> Seq(Frame)]
                   /\ sfrag' \in [Conns -> BOOLEAN]
        <4>1. Keep(c2s[c], taken) \in Seq(Frame) /\ Drop(c2s[c], taken) \in Seq(Frame)
          BY KeepDropType
        <4> QED  BY <3>2, <4>1
      <3> QED  BY <1>1, <3>1, <3>2 DEF ReadCompletes
    <2> QED  BY <1>1, <2>1, <2>2 DEF ReadCompletes
  <1>2. CASE WriteFrame(c)
    <2>1. written[c] \in {0, 1} /\ ReplyFrame(c) \in Frame
      BY <1>2, ReplyFrameType DEF WriteFrame
    <2>2. written' \in [Conns -> 0..2]
      BY <1>2, <2>1 DEF WriteFrame
    <2>3. s2c' \in [Conns -> Seq(Frame)]
      <3>1. Append(s2c[c], ReplyFrame(c)) \in Seq(Frame)
        BY <2>1, AppendProperties
      <3> QED  BY <1>2, <3>1 DEF WriteFrame, ReplyFrame
    <2>4. writeOp' \in [Conns -> OpStates]
      BY <1>2 DEF WriteFrame
    <2> QED  BY <1>2, <2>2, <2>3, <2>4 DEF WriteFrame
  <1>3. CASE WriteFails(c) \/ ReadHandlerError(c) \/ WriteHandlerError(c)
    BY <1>3 DEF WriteFails, ReadHandlerError, WriteHandlerError
  <1>4. CASE ReadHandler(c)
    <2>1. sbuf[c] \o chunk[c] \in Seq(Frame) /\ <<>> \in Seq(Frame)
      BY SessionTypes, ConcatProperties, EmptySeq
    <2> QED  BY <1>4, <2>1 DEF ReadHandler
  <1>5. CASE ReadHandlerDecode(c)
    <2>1. CASE sbuf[c] # <<>>
      <3>1. Head(sbuf[c]) \in Frame /\ Tail(sbuf[c]) \in Seq(Frame)
        BY <2>1, HeadTailParts
      <3>2. /\ cur' = [cur EXCEPT ![c] = Head(sbuf[c])]
            /\ sbuf' = [sbuf EXCEPT ![c] = Tail(sbuf[c])]
            /\ rh' = [rh EXCEPT ![c] = "test"]
            /\ UNCHANGED <<backlog, readOp, chunk, sfrag, writeOp, written, queue,
                           sockOpen, wh, wasIdle, srv, netVars>>
        BY <1>5, <2>1 DEF ReadHandlerDecode
      <3>3. cur' \in [Conns -> Frame] /\ sbuf' \in [Conns -> Seq(Frame)]
        BY <3>1, <3>2
      <3>4. rh' \in [Conns -> ReadLabels]
        BY <3>2
      <3> QED  BY <3>2, <3>3, <3>4
    <2>2. CASE sbuf[c] = <<>>
      BY <1>5, <2>2 DEF ReadHandlerDecode
    <2> QED  BY <2>1, <2>2
  <1>6. CASE QueueWriteTest(c)
    <2>1. wasIdle' \in [Conns -> BOOLEAN]
      BY <1>6 DEF QueueWriteTest
    <2>2. rh' \in [Conns -> ReadLabels]
      BY <1>6 DEF QueueWriteTest
    <2>3. UNCHANGED <<backlog, opVars, sbuf, queue, sockOpen, wh, cur, srv, netVars>>
      BY <1>6 DEF QueueWriteTest
    <2> QED  BY <2>1, <2>2, <2>3
  <1>7. CASE QueueWritePush(c)
    <2>1. Append(queue[c], cur[c]) \in Seq(Frame)
      BY SessionTypes, AppendProperties
    <2>2. rh' \in [Conns -> ReadLabels]
      BY <1>7 DEF QueueWritePush
    <2> QED  BY <1>7, <2>1, <2>2 DEF QueueWritePush
  <1>8. CASE QueueWriteStart(c) \/ WriteHandler(c)
    BY <1>8 DEF QueueWriteStart, DoWrite, WriteHandler
  <1>9. CASE WriteHandlerPop(c)
    <2>1. queue[c] # <<>>
      BY <1>9 DEF SessionInv, WriteHandlerPop
    <2>2. Tail(queue[c]) \in Seq(Frame)
      BY <2>1, HeadTailParts
    <2> QED  BY <1>9, <2>2 DEF WriteHandlerPop
  <1>10. CASE WriteHandlerNext(c)
    <2>1. writeOp' \in [Conns -> OpStates]
      BY <1>10 DEF WriteHandlerNext, DoWrite
    <2> QED  BY <1>10, <2>1 DEF WriteHandlerNext
  <1> QED  BY <1>1, <1>2, <1>3, <1>4, <1>5, <1>6, <1>7, <1>8, <1>9, <1>10
           DEF SessionNext

\* So does every other step.
LEMMA OthersKeepTypes ==
    ASSUME TypeInv, BacklogInv,
           \/ (AcceptNext \/ StopSignal) /\ UNCHANGED clientsVars
           \/ \E c \in Conns : ConnectClient(c) \/ (ClientStep(c) /\ UNCHANGED srvVars)
           \/ UNCHANGED vars
    PROVE  TypeInv'
  <1> USE DEF TypeInv, NetTypeOK, netVars, clientsVars, sessVars, opVars, srvVars,
              OpStates, ReadLabels, WriteLabels
  <1>1. CASE (AcceptNext \/ StopSignal) /\ UNCHANGED clientsVars
    <2>1. CASE Accept \/ AcceptError
      <3>1. backlog # <<>>
        BY <2>1 DEF Accept, AcceptError
      <3>2. Head(backlog) \in Conns /\ Tail(backlog) \in Seq(Conns)
        BY <3>1, HeadTailParts
      <3>3. CASE Accept
        BY <1>1, <3>3, <3>2 DEF Accept
      <3>4. CASE AcceptError
        BY <1>1, <3>4, <3>2 DEF AcceptError
      <3> QED  BY <2>1, <3>3, <3>4
    <2>2. CASE AcceptThrows \/ StopSignal
      <3>1. broken' \in [Conns -> BOOLEAN]
        BY <2>2 DEF AcceptThrows, StopSignal
      <3>2. srv' \in {"up", "stopped", "crashed"}
        BY <2>2 DEF AcceptThrows, StopSignal
      <3> QED  BY <1>1, <2>2, <3>1, <3>2 DEF AcceptThrows, StopSignal
    <2> QED  BY <1>1, <2>1, <2>2 DEF AcceptNext
  <1>2. ASSUME NEW c \in Conns, ConnectClient(c) PROVE TypeInv'
    <2>1. Append(backlog, c) \in Seq(Conns)
      BY AppendProperties
    <2> QED  BY <1>2, <2>1 DEF ConnectClient, Connect
  <1>3. ASSUME NEW c \in Conns, Ask(c), UNCHANGED srvVars PROVE TypeInv'
    <2>1. PICK text \in Text \ {END} :
             /\ asked' = [asked EXCEPT ![c] = Append(@, text)]
             /\ c2s' = [c2s EXCEPT ![c] =
                           Append(@, [id |-> Len(asked[c]) + 1, payload |-> text])]
      BY <1>3 DEF Ask
    <2>2. asked[c] \in Seq(Text) /\ c2s[c] \in Seq(Frame) /\ Len(asked[c]) < MaxId
      BY <1>3 DEF Ask
    <2>3. Len(asked[c]) \in Nat
      BY <2>2, LenProperties
    <2>4. [id |-> Len(asked[c]) + 1, payload |-> text] \in Frame
      BY SMTT(60), <2>2, <2>3, TransportAssumption DEF Frame, Ids
    <2>5. /\ Append(asked[c], text) \in Seq(Text)
          /\ Append(c2s[c], [id |-> Len(asked[c]) + 1, payload |-> text]) \in Seq(Frame)
      BY <2>2, <2>4, AppendProperties
    <2>6. asked' \in [Conns -> Seq(Text)] /\ c2s' \in [Conns -> Seq(Frame)]
      BY <2>1, <2>5
    <2> QED  BY <1>3, <2>6 DEF Ask
  <1>4. ASSUME NEW c \in Conns, ReadReply(c), UNCHANGED srvVars PROVE TypeInv'
    <2>1. s2c[c] \in Seq(Frame) /\ s2c[c] # <<>> /\ seen[c] \in Seq(Frame)
      BY <1>4 DEF ReadReply
    <2>2. Head(s2c[c]) \in Frame /\ Tail(s2c[c]) \in Seq(Frame)
      BY <2>1, HeadTailParts
    <2>3. Append(seen[c], Head(s2c[c])) \in Seq(Frame)
      BY <2>1, <2>2, AppendProperties
    <2> QED  BY <1>4, <2>2, <2>3 DEF ReadReply
  <1>5. ASSUME NEW c \in Conns, Vanish(c), UNCHANGED srvVars PROVE TypeInv'
    <2>1. PICK n \in 0..Len(c2s[c]) : c2s' = [c2s EXCEPT ![c] = Keep(c2s[c], n)]
      BY <1>5 DEF Vanish, BreakConnection
    <2>2. PICK m \in 0..Len(s2c[c]) : s2c' = [s2c EXCEPT ![c] = Keep(s2c[c], m)]
      BY <1>5 DEF Vanish, BreakConnection
    <2>3. Keep(c2s[c], n) \in Seq(Frame) /\ Keep(s2c[c], m) \in Seq(Frame)
      BY KeepDropType
    <2> QED  BY <1>5, <2>1, <2>2, <2>3 DEF Vanish, BreakConnection
  <1>6. CASE UNCHANGED vars
    BY <1>6 DEF vars
  <1> QED  BY <1>1, <1>2, <1>3, <1>4, <1>5, <1>6 DEF ClientStep

-----------------------------------------------------------------------------
(***************************************************************************)
(* One session.                                                            *)
(***************************************************************************)
\* A step that leaves the session of d alone.
Untouched(d) ==
    /\ readOp'[d] = readOp[d] /\ chunk'[d] = chunk[d]
    /\ writeOp'[d] = writeOp[d] /\ written'[d] = written[d]
    /\ sbuf'[d] = sbuf[d] /\ queue'[d] = queue[d] /\ sockOpen'[d] = sockOpen[d]
    /\ rh'[d] = rh[d] /\ wh'[d] = wh[d] /\ cur'[d] = cur[d] /\ wasIdle'[d] = wasIdle[d]

\* A handler, or the completion of an operation, touches one session only.
LEMMA OneSession ==
    ASSUME TypeInv, NEW c \in Conns, SessionNext(c), NEW d \in Conns, d # c
    PROVE  Untouched(d) /\ c2s'[d] = c2s[d] /\ s2c'[d] = s2c[d] /\ broken' = broken
  <1> USE DEF Untouched, TypeInv, NetTypeOK, netVars, sessVars, opVars
  <1>1. CASE ReadCompletes(c)
    BY <1>1 DEF ReadCompletes
  <1>2. CASE WriteFrame(c) \/ WriteFails(c)
    BY <1>2 DEF WriteFrame, WriteFails
  <1>3. CASE ReadHandlerError(c) \/ ReadHandler(c) \/ ReadHandlerDecode(c)
    BY SMTT(60), <1>3 DEF ReadHandlerError, ReadHandler, ReadHandlerDecode
  <1>4. CASE QueueWriteTest(c) \/ QueueWritePush(c) \/ QueueWriteStart(c)
    BY SMTT(30), <1>4 DEF QueueWriteTest, QueueWritePush, QueueWriteStart, DoWrite
  <1>5. CASE WriteHandlerError(c) \/ WriteHandler(c)
    BY <1>5 DEF WriteHandlerError, WriteHandler
  <1>6. CASE WriteHandlerPop(c) \/ WriteHandlerNext(c)
    BY <1>6 DEF WriteHandlerPop, WriteHandlerNext, DoWrite
  <1> QED  BY <1>1, <1>2, <1>3, <1>4, <1>5, <1>6 DEF SessionNext

\* What holds of a session that is left alone goes on holding.
LEMMA UntouchedKeeps ==
    ASSUME NEW d \in Conns, Untouched(d)
    PROVE  /\ SessionInv(d) => SessionInv(d)'
           /\ WrittenInv(d) => WrittenInv(d)'
           /\ Fresh(d) => Fresh(d)'
  BY DEF Untouched, SessionInv, WrittenInv, Fresh

\* Every step of a session keeps its invariant.
LEMMA SessionStep ==
    ASSUME TypeInv, NEW c \in Conns, SessionInv(c), WrittenInv(c), SessionNext(c)
    PROVE  SessionInv(c)' /\ WrittenInv(c)'
  <1> USE DEF TypeInv, sessVars, opVars, StrandFree
  <1>1. CASE ReadCompletes(c)
    <2>1. /\ readOp[c] = "pending" /\ readOp'[c] \in {"ok", "error"}
          /\ readOp'[c] = "error" => chunk'[c] = chunk[c]
          /\ UNCHANGED <<writeOp, written, queue, sockOpen, rh, wh, wasIdle>>
      BY <1>1 DEF ReadCompletes
    <2> QED  BY <2>1 DEF SessionInv, WrittenInv
  <1>2. CASE WriteFrame(c)
    <2>1. /\ writeOp[c] = "pending" /\ written'[c] = written[c] + 1
          /\ writeOp'[c] = IF written[c] = 1 THEN "ok" ELSE "pending"
          /\ UNCHANGED <<readOp, chunk, queue, sockOpen, rh, wh, wasIdle>>
      BY <1>2 DEF WriteFrame
    <2>2. written[c] \in {0, 1}
      BY <2>1, ReplyFrameType
    <2> QED  BY <2>1, <2>2 DEF SessionInv, WrittenInv
  <1>3. CASE WriteFails(c)
    <2>1. /\ writeOp[c] = "pending" /\ writeOp'[c] = "error"
          /\ UNCHANGED <<readOp, chunk, queue, sockOpen, rh, wh, wasIdle, written>>
      BY <1>3 DEF WriteFails
    <2> QED  BY <2>1 DEF SessionInv, WrittenInv
  <1>4. CASE ReadHandlerError(c)
    <2>1. /\ readOp[c] = "error" /\ readOp'[c] = "none"
          /\ UNCHANGED <<writeOp, chunk, queue, sockOpen, rh, wh, wasIdle, written>>
      BY <1>4 DEF ReadHandlerError
    <2> QED  BY <2>1 DEF SessionInv, WrittenInv
  <1>5. CASE ReadHandler(c)
    <2>1. /\ chunk'[c] = <<>> /\ readOp'[c] = "none" /\ rh'[c] = "decode" /\ rh[c] = "off"
          /\ wh[c] = "off"
          /\ UNCHANGED <<writeOp, queue, sockOpen, wh, wasIdle, written>>
      BY <1>5 DEF ReadHandler
    <2> QED  BY <2>1 DEF SessionInv, WrittenInv
  <1>6. CASE ReadHandlerDecode(c)
    <2>1. /\ rh[c] = "decode"
          /\ \/ rh'[c] = "test" /\ readOp'[c] = readOp[c]
             \/ rh'[c] = "off" /\ readOp'[c] = "pending"
          /\ UNCHANGED <<writeOp, queue, sockOpen, wh, wasIdle, written, chunk>>
      BY <1>6 DEF ReadHandlerDecode
    <2> QED  BY <2>1 DEF SessionInv, WrittenInv
  <1>7. CASE QueueWriteTest(c)
    <2>1. /\ rh[c] = "test" /\ rh'[c] = "push"
          /\ UNCHANGED <<readOp, writeOp, queue, sockOpen, wh, written, chunk>>
      BY <1>7 DEF QueueWriteTest
    <2>2. wasIdle'[c] = (queue[c] = <<>>)
      BY <1>7 DEF QueueWriteTest
    <2>3. wasIdle'[c] <=> queue'[c] = <<>>
      BY <2>1, <2>2
    <2> QED  BY <2>1, <2>3 DEF SessionInv, WrittenInv
  <1>8. CASE QueueWritePush(c)
    <2>1. /\ rh[c] = "push" /\ rh'[c] = IF wasIdle[c] THEN "start" ELSE "decode"
          /\ queue'[c] = Append(queue[c], cur[c])
          /\ UNCHANGED <<readOp, writeOp, sockOpen, wh, written, chunk, wasIdle>>
      BY <1>8 DEF QueueWritePush
    <2>2. queue'[c] # <<>>
      <3>1. queue[c] \in Seq(Frame) /\ cur[c] \in Frame
        BY SessionTypes
      <3> QED  BY <2>1, <3>1, AppendNotEmpty
    <2> QED  BY <2>1, <2>2 DEF SessionInv, WrittenInv
  <1>9. CASE QueueWriteStart(c)
    <2>1. /\ rh[c] = "start" /\ rh'[c] = "decode" /\ writeOp'[c] = "pending"
          /\ UNCHANGED <<readOp, queue, sockOpen, wh, written, chunk, wasIdle>>
      BY <1>9 DEF QueueWriteStart, DoWrite
    <2> QED  BY <2>1 DEF SessionInv, WrittenInv
  <1>10. CASE WriteHandlerError(c)
    <2>1. /\ writeOp[c] = "error" /\ writeOp'[c] = "none" /\ ~sockOpen'[c]
          /\ UNCHANGED <<readOp, queue, rh, wh, written, chunk, wasIdle>>
      BY <1>10 DEF WriteHandlerError
    <2> QED  BY <2>1 DEF SessionInv, WrittenInv
  <1>11. CASE WriteHandler(c)
    <2>1. /\ writeOp[c] = "ok" /\ writeOp'[c] = "none" /\ wh'[c] = "pop" /\ rh[c] = "off"
          /\ UNCHANGED <<readOp, queue, rh, sockOpen, written, chunk, wasIdle>>
      BY <1>11 DEF WriteHandler
    <2> QED  BY <2>1 DEF SessionInv, WrittenInv
  <1>12. CASE WriteHandlerPop(c)
    <2>1. /\ wh[c] = "pop" /\ wh'[c] = "next" /\ written'[c] = 0
          /\ UNCHANGED <<readOp, writeOp, rh, sockOpen, chunk, wasIdle>>
      BY <1>12 DEF WriteHandlerPop
    <2> QED  BY <2>1 DEF SessionInv, WrittenInv
  <1>13. CASE WriteHandlerNext(c)
    <2>1. /\ wh[c] = "next" /\ wh'[c] = "off"
          /\ queue[c] # <<>> => writeOp'[c] = "pending"
          /\ queue[c] = <<>> => writeOp'[c] = writeOp[c]
          /\ UNCHANGED <<readOp, queue, rh, sockOpen, written, chunk, wasIdle>>
      BY <1>13 DEF WriteHandlerNext, DoWrite
    <2> QED  BY <2>1 DEF SessionInv, WrittenInv
  <1> QED  BY <1>1, <1>2, <1>3, <1>4, <1>5, <1>6, <1>7, <1>8, <1>9, <1>10,
              <1>11, <1>12, <1>13 DEF SessionNext

\* A session that does not exist takes no step.
LEMMA FreshIsIdle ==
    ASSUME NEW c \in Conns, Fresh(c)
    PROVE  ~SessionNext(c)
  BY DEF Fresh, SessionNext, ReadCompletes, WriteFrame, WriteFails, ReadHandlerError,
         ReadHandler, ReadHandlerDecode, QueueWriteTest, QueueWritePush, QueueWriteStart,
         WriteHandlerError, WriteHandler, WriteHandlerPop, WriteHandlerNext

\* accept() takes a connection without a session out of the backlog.
LEMMA AcceptTakesFresh ==
    ASSUME TypeInv, BacklogInv, Accept \/ AcceptError
    PROVE  /\ Head(backlog) \in Conns /\ Fresh(Head(backlog)) /\ linked[Head(backlog)]
           /\ \A j, k \in DOMAIN backlog' : backlog'[j] = backlog'[k] => j = k
           /\ \A k \in DOMAIN backlog' :
                 /\ backlog'[k] \in Conns /\ backlog'[k] # Head(backlog)
                 /\ linked[backlog'[k]] /\ Fresh(backlog'[k])
  <1>1. backlog \in Seq(Conns) /\ backlog # <<>> /\ backlog' = Tail(backlog)
    BY DEF TypeInv, Accept, AcceptError
  <1> DEFINE n == Len(backlog)
  <1>2. /\ n \in Nat /\ n >= 1 /\ Head(backlog) = backlog[1] /\ Head(backlog) \in Conns
        /\ DOMAIN backlog = 1..n /\ DOMAIN Tail(backlog) = 1..(n - 1)
        /\ \A k \in 1..(n - 1) : Tail(backlog)[k] = backlog[k + 1]
    BY <1>1, HeadTailParts
  <1>3. \A k \in 1..n : backlog[k] \in Conns
    BY <1>1, ElementOfSeq
  <1> HIDE DEF n
  <1>4. 1 \in 1..n /\ \A k \in 1..(n - 1) : k + 1 \in 1..n /\ k + 1 # 1
    BY <1>2
  <1>5. Fresh(backlog[1]) /\ linked[backlog[1]]
    BY <1>2, <1>4 DEF BacklogInv
  <1>6. ASSUME NEW k \in 1..(n - 1)
        PROVE  /\ backlog[k + 1] \in Conns /\ backlog[k + 1] # backlog[1]
               /\ linked[backlog[k + 1]] /\ Fresh(backlog[k + 1])
    <2> HIDE DEF Fresh
    <2> QED  BY <1>2, <1>3, <1>4 DEF BacklogInv
  <1>7. ASSUME NEW j \in 1..(n - 1), NEW k \in 1..(n - 1), backlog[j + 1] = backlog[k + 1]
        PROVE  j = k
    <2>1. j + 1 = k + 1
      BY <1>7, <1>2, <1>4 DEF BacklogInv
    <2> QED  BY <2>1, <1>2
  <1> HIDE DEF Fresh
  <1> QED  BY <1>1, <1>2, <1>5, <1>6, <1>7

\* Connections and sessions together: the invariant of every session, and of
\* the backlog.
SessionsInv ==
    /\ TypeInv /\ BacklogInv
    /\ \A c \in Conns : SessionInv(c) /\ WrittenInv(c)

\* Every step keeps the invariant of all sessions.
LEMMA SessionsStep == SessionsInv /\ [Next]_vars => SessionsInv'
  <1> SUFFICES ASSUME SessionsInv, [Next]_vars PROVE SessionsInv'
    OBVIOUS
  <1>0. TypeInv /\ BacklogInv /\ \A c \in Conns : SessionInv(c) /\ WrittenInv(c)
    BY DEF SessionsInv
  <1>1. TypeInv'
    BY <1>0, SessionKeepsTypes, OthersKeepTypes DEF Next, ServerNext
  <1>2. ASSUME \A d \in Conns : Untouched(d), UNCHANGED <<backlog, linked>>
        PROVE  SessionsInv'
    <2>1. \A d \in Conns : /\ SessionInv(d)' /\ WrittenInv(d)'
                           /\ Fresh(d) => Fresh(d)'
      BY <1>0, <1>2, UntouchedKeeps
    <2>2. BacklogInv'
      <3>1. \A k \in DOMAIN backlog : backlog[k] \in Conns
        BY <1>0, ElementOfSeq, LenProperties DEF TypeInv
      <3> HIDE DEF Fresh
      <3> QED  BY <1>0, <1>2, <2>1, <3>1 DEF BacklogInv
    <2> QED  BY <1>1, <2>1, <2>2 DEF SessionsInv
  <1>3. ASSUME NEW c \in Conns, SessionNext(c), UNCHANGED clientsVars
        PROVE  SessionsInv'
    <2>1. \A d \in Conns : d # c => Untouched(d)
      BY <1>0, <1>3, OneSession
    <2>2. \A d \in Conns : d # c => /\ SessionInv(d)' /\ WrittenInv(d)'
                                    /\ Fresh(d) => Fresh(d)'
      BY <1>0, <2>1, UntouchedKeeps
    <2>3. SessionInv(c)' /\ WrittenInv(c)'
      BY <1>0, <1>3, SessionStep
    <2>4. ~Fresh(c)
      BY <1>3, FreshIsIdle
    <2>5. backlog' = backlog /\ linked' = linked
      BY <1>3 DEF clientsVars, SessionNext, ReadCompletes, WriteFrame, WriteFails,
         ReadHandlerError, ReadHandler, ReadHandlerDecode, QueueWriteTest, QueueWritePush,
         QueueWriteStart, WriteHandlerError, WriteHandler, WriteHandlerPop, WriteHandlerNext
    <2>6. BacklogInv'
      <3>1. \A k \in DOMAIN backlog : backlog[k] \in Conns
        BY <1>0, ElementOfSeq, LenProperties DEF TypeInv
      <3> HIDE DEF Fresh
      <3> QED  BY <1>0, <2>2, <2>4, <2>5, <3>1 DEF BacklogInv
    <2> QED  BY <1>1, <2>2, <2>3, <2>6 DEF SessionsInv
  <1>4. ASSUME Accept, UNCHANGED clientsVars PROVE SessionsInv'
    <2>0. Head(backlog) \in Conns
      BY <1>0, <1>4, AcceptTakesFresh
    <2> PICK c \in Conns : c = Head(backlog)
      BY <2>0
    <2>1. /\ c \in Conns /\ Fresh(c) /\ linked[c]
          /\ \A j, k \in DOMAIN backlog' : backlog'[j] = backlog'[k] => j = k
          /\ \A k \in DOMAIN backlog' :
                /\ backlog'[k] \in Conns /\ backlog'[k] # c
                /\ linked[backlog'[k]] /\ Fresh(backlog'[k])
      BY <1>0, <1>4, AcceptTakesFresh
    <2>2. /\ sockOpen' = [sockOpen EXCEPT ![c] = TRUE]
          /\ readOp' = [readOp EXCEPT ![c] = "pending"]
          /\ linked' = linked
          /\ UNCHANGED <<chunk, writeOp, written, sbuf, queue, rh, wh, cur, wasIdle>>
      BY <1>4 DEF Accept, clientsVars
    <2>3. \A d \in Conns : d # c => Untouched(d)
      BY <1>0, <2>1, <2>2 DEF Untouched, TypeInv
    <2>4. \A d \in Conns : d # c => /\ SessionInv(d)' /\ WrittenInv(d)'
                                    /\ Fresh(d) => Fresh(d)'
      BY <1>0, <2>3, UntouchedKeeps
    <2>5. SessionInv(c)' /\ WrittenInv(c)'
      <3>1. SessionInv(c) /\ WrittenInv(c) /\ Fresh(c) /\ readOp'[c] = "pending"
        BY <1>0, <2>1, <2>2 DEF TypeInv
      <3> QED  BY <2>2, <3>1 DEF SessionInv, WrittenInv, Fresh
    <2>6. BacklogInv'
      <3> HIDE DEF Fresh
      <3> QED  BY <1>0, <2>1, <2>2, <2>4 DEF BacklogInv
    <2> QED  BY <1>1, <2>4, <2>5, <2>6 DEF SessionsInv
  <1>5. ASSUME AcceptError, UNCHANGED clientsVars PROVE SessionsInv'
    <2>1. /\ \A j, k \in DOMAIN backlog' : backlog'[j] = backlog'[k] => j = k
          /\ \A k \in DOMAIN backlog' :
                backlog'[k] \in Conns /\ linked[backlog'[k]] /\ Fresh(backlog'[k])
      BY <1>0, <1>5, AcceptTakesFresh
    <2>2. (\A d \in Conns : Untouched(d)) /\ linked' = linked
      BY <1>5 DEF AcceptError, opVars, sessVars, Untouched, clientsVars
    <2>3. \A d \in Conns : /\ SessionInv(d)' /\ WrittenInv(d)'
                           /\ Fresh(d) => Fresh(d)'
      BY <1>0, <2>2, UntouchedKeeps
    <2>4. BacklogInv'
      <3> HIDE DEF Fresh
      <3> QED  BY <1>0, <2>1, <2>2, <2>3 DEF BacklogInv
    <2> QED  BY <1>1, <2>3, <2>4 DEF SessionsInv
  <1>6. ASSUME AcceptThrows \/ StopSignal, UNCHANGED clientsVars PROVE SessionsInv'
    BY <1>2, <1>6 DEF AcceptThrows, StopSignal, opVars, sessVars, Untouched, clientsVars
  <1>7. ASSUME NEW c \in Conns, ConnectClient(c) PROVE SessionsInv'
    <2>1. /\ ~linked[c] /\ linked' = [linked EXCEPT ![c] = TRUE]
          /\ backlog' = Append(backlog, c) /\ backlog \in Seq(Conns)
          /\ \A d \in Conns : Untouched(d)
      BY <1>0, <1>7 DEF ConnectClient, Connect, TypeInv, opVars, sessVars, Untouched
    <2> DEFINE n == Len(backlog)
    <2>2. /\ n \in Nat /\ DOMAIN backlog = 1..n /\ DOMAIN backlog' = 1..(n + 1)
          /\ \A k \in 1..n : backlog'[k] = backlog[k]
          /\ backlog'[n + 1] = c
      <3>1. \A e \in Conns :
               /\ Len(backlog) \in Nat /\ DOMAIN backlog = 1..Len(backlog)
               /\ DOMAIN Append(backlog, e) = 1..(Len(backlog) + 1)
               /\ \A k \in 1..Len(backlog) : Append(backlog, e)[k] = backlog[k]
               /\ Append(backlog, e)[Len(backlog) + 1] = e
        BY <2>1, AppendParts
      <3> QED  BY <2>1, <3>1
    <2>3. \A k \in 1..n : backlog[k] \in Conns
      BY <2>1, ElementOfSeq
    <2> HIDE DEF n
    <2>4. \A d \in Conns : /\ SessionInv(d)' /\ WrittenInv(d)'
                           /\ Fresh(d) => Fresh(d)'
      BY <1>0, <2>1, UntouchedKeeps
    <2>5. \A k \in 1..(n + 1) : k \in 1..n \/ k = n + 1
      BY <2>2
    <2>6. \A k \in 1..n : linked[backlog[k]] /\ Fresh(backlog[k]) /\ backlog[k] # c
      <3> HIDE DEF Fresh
      <3> QED  BY <1>0, <2>1, <2>2 DEF BacklogInv
    <2>7. Fresh(c)
      BY <1>0, <2>1 DEF BacklogInv
    <2>8. \A d \in Conns : linked'[d] <=> linked[d] \/ d = c
      BY <1>0, <2>1 DEF TypeInv
    <2>9. BacklogInv'
      <3> HIDE DEF Fresh
      <3>1. ASSUME NEW j \in 1..(n + 1), NEW k \in 1..(n + 1), backlog'[j] = backlog'[k]
            PROVE  j = k
        BY <3>1, <1>0, <2>2, <2>5, <2>6 DEF BacklogInv
      <3>2. ASSUME NEW k \in 1..(n + 1)
            PROVE  (linked[backlog[k]] /\ Fresh(backlog[k]))'
        <4>1. PICK d \in Conns : d = backlog'[k] /\ Fresh(d) /\ (linked[d] \/ d = c)
          BY <2>2, <2>3, <2>5, <2>6, <2>7
        <4>2. linked'[d] /\ Fresh(d)'
          BY <2>4, <2>8, <4>1
        <4> QED  BY <4>1, <4>2 DEF Fresh
      <3>3. \A d \in Conns : ~linked'[d] => Fresh(d)'
        BY <1>0, <2>4, <2>8 DEF BacklogInv
      <3> QED  BY <2>2, <3>1, <3>2, <3>3 DEF BacklogInv
    <2> QED  BY <1>1, <2>4, <2>9 DEF SessionsInv
  <1>8. ASSUME NEW c \in Conns, ClientStep(c), UNCHANGED srvVars PROVE SessionsInv'
    <2>1. linked' = linked
      BY <1>8 DEF ClientStep, Ask, ReadReply, Vanish, clientsVars
    <2> QED  BY <1>2, <1>8, <2>1 DEF srvVars, opVars, sessVars, Untouched
  <1>9. CASE UNCHANGED vars
    BY <1>2, <1>9 DEF vars, srvVars, opVars, sessVars, clientsVars, Untouched
  <1> QED  BY <1>3, <1>4, <1>5, <1>6, <1>7, <1>8, <1>9 DEF Next, ServerNext, AcceptNext

\* The sessions' invariant holds throughout.
LEMMA SessionsHold == Spec => []SessionsInv
  <1>1. Init => SessionsInv
    <2> SUFFICES ASSUME Init PROVE SessionsInv
      OBVIOUS
    <2>1. \A c \in Conns : SessionInv(c) /\ WrittenInv(c) /\ Fresh(c)
      BY DEF Init, ServerInit, SessionInv, WrittenInv, Fresh
    <2>2. DOMAIN backlog = {}
      BY DEF Init, ServerInit
    <2> QED  BY <2>1, <2>2, TypeInit DEF SessionsInv, BacklogInv
  <1> QED  BY <1>1, SessionsStep, PTL DEF Spec

(***************************************************************************)
(* One async_write per socket, for every number of connections and of      *)
(* threads in io_service::run(): do_write() is called only when no write   *)
(* of the session is under way, with a reply at the front of the queue,    *)
(* and a queued reply always has a write or a handler that takes it up.    *)
(***************************************************************************)
THEOREM OneWriteInFlightHolds == Spec => []OneWriteInFlight
  <1>1. SessionsInv => OneWriteInFlight
    <2> SUFFICES ASSUME SessionsInv, NEW c \in Conns
                 PROVE  /\ rh[c] = "start" \/ (wh[c] = "next" /\ queue[c] # <<>>) =>
                              writeOp[c] = "none" /\ queue[c] # <<>>
                        /\ writeOp[c] # "none" \/ wh[c] = "pop" => queue[c] # <<>>
                        /\ queue[c] # <<>> /\ sockOpen[c] =>
                              writeOp[c] # "none" \/ rh[c] = "start" \/ wh[c] # "off"
      BY DEF OneWriteInFlight
    <2>1. SessionInv(c)
      BY DEF SessionsInv
    <2> QED  BY <2>1 DEF SessionInv
  <1> QED  BY <1>1, SessionsHold, PTL

-----------------------------------------------------------------------------
(***************************************************************************)
(* The order of replies.                                                   *)
(***************************************************************************)
\* The requests of a connection behind each of the places they pass through.
LEMMA Places ==
    ASSUME TypeInv, NEW c \in Conns
    PROVE  /\ Held(c) \in Seq(Frame) /\ queue[c] \in Seq(Frame) /\ sbuf[c] \in Seq(Frame)
           /\ chunk[c] \in Seq(Frame) /\ c2s[c] \in Seq(Frame)
           /\ chunk[c] \o c2s[c] \in Seq(Frame)
           /\ sbuf[c] \o (chunk[c] \o c2s[c]) \in Seq(Frame)
           /\ Held(c) \o (sbuf[c] \o (chunk[c] \o c2s[c])) \in Seq(Frame)
           /\ Unanswered(c) \in Seq(Frame) /\ Len(Unanswered(c)) \in Nat
  <1>1. /\ queue[c] \in Seq(Frame) /\ sbuf[c] \in Seq(Frame) /\ cur[c] \in Frame
        /\ chunk[c] \in Seq(Frame) /\ c2s[c] \in Seq(Frame)
    BY SessionTypes
  <1>2. <<cur[c]>> \in Seq(Frame) /\ <<>> \in Seq(Frame)
    BY <1>1
  <1>3. Held(c) \in Seq(Frame)
    BY <1>2 DEF Held
  <1>4. \A s, t \in Seq(Frame) : s \o t \in Seq(Frame)
    BY ConcatProperties
  <1>5. chunk[c] \o c2s[c] \in Seq(Frame)
    BY <1>1, <1>4
  <1>6. sbuf[c] \o (chunk[c] \o c2s[c]) \in Seq(Frame)
    BY <1>1, <1>4, <1>5
  <1>7. Held(c) \o (sbuf[c] \o (chunk[c] \o c2s[c])) \in Seq(Frame)
    BY <1>3, <1>4, <1>6
  <1>8. Unanswered(c) \in Seq(Frame)
    BY <1>1, <1>4, <1>7 DEF Unanswered
  <1> QED  BY <1>1, <1>3, <1>5, <1>6, <1>7, <1>8, LenProperties

\* The steps of a session that neither read from the connection nor pop a
\* reply leave the unanswered requests where they are, or pass them on.
LEMMA SessionPassesOn ==
    ASSUME TypeInv, NEW c \in Conns, SessionInv(c), SessionNext(c), ~WriteHandlerPop(c)
    PROVE  Unanswered(c)' = Unanswered(c)
  <1> DEFINE q == queue[c]
             h == Held(c)
             b == sbuf[c]
             k == chunk[c]
             n == c2s[c]
  <1>0. \A x, y, z \in Seq(Frame) : (x \o y) \o z = x \o (y \o z)
    BY ConcatAssociative
  <1>00. \A x \in Seq(Frame) : x \o <<>> = x /\ <<>> \o x = x
    BY ConcatEmptySeq
  <1>a. /\ h \in Seq(Frame) /\ q \in Seq(Frame) /\ b \in Seq(Frame)
        /\ k \in Seq(Frame) /\ n \in Seq(Frame)
        /\ k \o n \in Seq(Frame) /\ b \o (k \o n) \in Seq(Frame)
    BY Places
  <1>1. CASE ReadCompletes(c)
    <2>1. UNCHANGED <<queue, sbuf, rh, cur>> /\ k = <<>>
      BY <1>1 DEF ReadCompletes, sessVars, SessionInv
    <2>2. chunk'[c] \o c2s'[c] = k \o n
      <3>1. CASE UNCHANGED <<chunk, c2s>>
        BY <3>1
      <3>2. ASSUME NEW taken \in 0..Len(c2s[c]),
                   chunk' = [chunk EXCEPT ![c] = Keep(c2s[c], taken)],
                   c2s' = [c2s EXCEPT ![c] = Drop(@, taken)]
            PROVE  chunk'[c] \o c2s'[c] = k \o n
        <4>1. chunk'[c] = Keep(n, taken) /\ c2s'[c] = Drop(n, taken)
          BY <3>2 DEF TypeInv, NetTypeOK
        <4>2. Keep(n, taken) \o Drop(n, taken) = n
          BY <1>a, KeepThenDrop
        <4> QED  BY <2>1, <4>1, <4>2, <1>a, <1>00
      <3> QED  BY <1>1, <3>1, <3>2 DEF ReadCompletes
    <2> QED  BY <2>1, <2>2 DEF Unanswered, Held
  <1>2. CASE \/ WriteFrame(c) \/ WriteFails(c) \/ ReadHandlerError(c)
             \/ WriteHandlerError(c) \/ WriteHandler(c) \/ WriteHandlerNext(c)
    <2>1. UNCHANGED <<queue, sbuf, chunk, c2s, rh, cur>>
      BY <1>2 DEF WriteFrame, WriteFails, ReadHandlerError, WriteHandlerError,
                  WriteHandler, WriteHandlerNext, sessVars, netVars
    <2> QED  BY <2>1 DEF Unanswered, Held
  <1>3. CASE ReadHandler(c)
    <2>1. /\ sbuf'[c] = b \o k /\ chunk'[c] = <<>> /\ rh[c] = "off" /\ rh'[c] = "decode"
          /\ UNCHANGED <<queue, cur, c2s>>
      BY <1>3 DEF ReadHandler, StrandFree, TypeInv, netVars
    <2>2. (b \o k) \o n = b \o (k \o n) /\ <<>> \o n = n
      <3> HIDE DEF b, k, n, h, q
      <3> QED  BY SMTT(60), <1>0, <1>00, <1>a
    <2>3. Held(c)' = h
      BY <2>1 DEF Held
    <2> QED  BY <2>1, <2>2, <2>3 DEF Unanswered
  <1>4. CASE ReadHandlerDecode(c)
    <2>1. h = <<>> /\ UNCHANGED <<queue, chunk, c2s>>
      BY <1>4 DEF ReadHandlerDecode, Held, netVars
    <2>2. CASE b = <<>>
      <3>1. sbuf' = sbuf /\ rh'[c] = "off"
        BY <1>4, <2>2 DEF ReadHandlerDecode, TypeInv
      <3>2. Held(c)' = h
        BY <2>1, <3>1 DEF Held
      <3> QED  BY <2>1, <3>1, <3>2 DEF Unanswered
    <2>3. CASE b # <<>>
      <3>1. sbuf'[c] = Tail(b) /\ rh'[c] = "test" /\ cur'[c] = Head(b)
        BY <1>4, <2>3 DEF ReadHandlerDecode, TypeInv
      <3>2. Held(c)' = <<Head(b)>>
        BY <3>1 DEF Held
      <3>3. /\ <<Head(b)>> \in Seq(Frame) /\ Tail(b) \in Seq(Frame)
            /\ <<Head(b)>> \o Tail(b) = b
        BY <2>3, <1>a, MoveFront, HeadTailParts
      <3>4. <<Head(b)>> \o (Tail(b) \o (k \o n)) = b \o (k \o n)
        <4>1. (<<Head(b)>> \o Tail(b)) \o (k \o n) = <<Head(b)>> \o (Tail(b) \o (k \o n))
          <5> DEFINE f == <<Head(b)>>
                     r == Tail(b)
                     y == k \o n
          <5>1. f \in Seq(Frame) /\ r \in Seq(Frame) /\ y \in Seq(Frame)
            BY <1>a, <3>3
          <5> HIDE DEF f, r, y
          <5>2. (f \o r) \o y = f \o (r \o y)
            BY <5>1, <1>0
          <5> QED  BY <5>2 DEF f, r, y
        <4> QED  BY <4>1, <3>3
      <3>5. h \o (b \o (k \o n)) = b \o (k \o n)
        BY <2>1, <1>a, <1>00
      <3> QED  BY <2>1, <3>1, <3>2, <3>4, <3>5 DEF Unanswered
    <2> QED  BY <2>2, <2>3
  <1>5. CASE QueueWriteTest(c) \/ QueueWriteStart(c)
    <2>1. /\ UNCHANGED <<queue, sbuf, chunk, c2s, cur>>
          /\ \/ rh[c] = "test" /\ rh'[c] = "push"
             \/ rh[c] = "start" /\ rh'[c] = "decode"
      BY <1>5 DEF QueueWriteTest, QueueWriteStart, TypeInv, netVars, opVars
    <2>2. Held(c)' = h
      BY <2>1 DEF Held
    <2> QED  BY <2>1, <2>2 DEF Unanswered
  <1>6. CASE QueueWritePush(c)
    <2>1. /\ rh[c] = "push" /\ rh'[c] \in {"start", "decode"}
          /\ queue'[c] = Append(q, cur[c])
          /\ UNCHANGED <<sbuf, chunk, c2s, cur>>
      BY <1>6 DEF QueueWritePush, TypeInv, netVars, opVars
    <2>2. h = <<cur[c]>> /\ Held(c)' = <<>>
      BY <2>1 DEF Held
    <2>3. Append(q, cur[c]) = q \o h
      <3>1. cur[c] \in Frame
        BY SessionTypes
      <3> QED  BY <2>2, <3>1, <1>a, AppendIsConcat
    <2> DEFINE y == b \o (k \o n)
    <2>4. (q \o h) \o y = q \o (h \o y) /\ <<>> \o y = y
      BY ZenonT(60), <1>0, <1>00, <1>a
    <2> QED  BY <2>1, <2>2, <2>3, <2>4 DEF Unanswered
  <1> QED  BY <1>1, <1>2, <1>3, <1>4, <1>5, <1>6 DEF SessionNext

\* The next request is at the front of the queue while there is one, and
\* popping its reply is what ends it.
LEMMA FrontIsNext ==
    ASSUME TypeInv, NEW c \in Conns, queue[c] # <<>>
    PROVE  /\ Unanswered(c) # <<>> /\ Unanswered(c)[1] = Head(queue[c])
           /\ WriteHandlerPop(c) => Unanswered(c)' = Tail(Unanswered(c))
  <1> DEFINE y == Held(c) \o (sbuf[c] \o (chunk[c] \o c2s[c]))
  <1>1. queue[c] \in Seq(Frame) /\ y \in Seq(Frame) /\ Unanswered(c) = queue[c] \o y
    BY Places DEF Unanswered
  <1> HIDE DEF y
  <1>2. /\ queue[c] \o y # <<>> /\ Head(queue[c] \o y) = Head(queue[c])
        /\ Tail(queue[c] \o y) = Tail(queue[c]) \o y
    BY <1>1, HeadTailConcat
  <1>3. Unanswered(c) \in Seq(Frame)
    BY Places
  <1>4. Head(Unanswered(c)) = Unanswered(c)[1]
    BY <1>1, <1>2, <1>3, HeadTailParts
  <1>5. ASSUME WriteHandlerPop(c) PROVE Unanswered(c)' = Tail(Unanswered(c))
    <2>1. queue'[c] = Tail(queue[c]) /\ UNCHANGED <<sbuf, chunk, c2s, rh, cur>>
      BY <1>5 DEF WriteHandlerPop, TypeInv, netVars
    <2>2. Unanswered(c)' = Tail(queue[c]) \o y
      BY <2>1 DEF Unanswered, Held, y
    <2> QED  BY <2>2, <1>1, <1>2
  <1> QED  BY <1>1, <1>2, <1>4, <1>5

\* Lengths are numbers.
LEMMA Lengths ==
    ASSUME TypeInv, NEW c \in Conns
    PROVE  /\ Len(seen[c]) \in Nat /\ Len(s2c[c]) \in Nat /\ Len(asked[c]) \in Nat
           /\ written[c] \in Nat /\ Len(Unanswered(c)) \in Nat
  <1>1. seen[c] \in Seq(Frame) /\ s2c[c] \in Seq(Frame) /\ asked[c] \in Seq(Text)
    BY SessionTypes
  <1>2. written[c] \in Nat
    BY SessionTypes
  <1> QED  BY <1>1, <1>2, Places, LenProperties

\* The order survives a step that leaves the unanswered requests alone and
\* counts a frame as written when it puts it on the connection.
LEMMA OrderKept ==
    ASSUME TypeInv, TypeInv', NEW c \in Conns, OrderInv(c),
           Unanswered(c)' = Unanswered(c), asked'[c] = asked[c],
           \/ broken'[c]
           \/ /\ ~broken[c]
              /\ Len(seen'[c]) + Len(s2c'[c]) + written[c] =
                    Len(seen[c]) + Len(s2c[c]) + written'[c]
    PROVE  OrderInv(c)'
  <1>1. PICK n \in Nat : OrderAt(c, n)
    BY DEF OrderInv
  <1>2. /\ Len(seen[c]) \in Nat /\ Len(s2c[c]) \in Nat /\ written[c] \in Nat
        /\ Len(seen'[c]) \in Nat /\ Len(s2c'[c]) \in Nat /\ written'[c] \in Nat
    <2>1. /\ Len(seen[c]) \in Nat /\ Len(s2c[c]) \in Nat /\ written[c] \in Nat
      BY Lengths
    <2>2. (/\ Len(seen[c]) \in Nat /\ Len(s2c[c]) \in Nat /\ written[c] \in Nat)'
      <3>1. seen'[c] \in Seq(Frame) /\ s2c'[c] \in Seq(Frame) /\ written'[c] \in 0..2
        BY DEF TypeInv, NetTypeOK
      <3> QED  BY <3>1, LenProperties
    <2> QED  BY <2>1, <2>2
  <1>3. ~broken'[c] => 2 * n + written'[c] = Len(seen'[c]) + Len(s2c'[c])
    <2> SUFFICES ASSUME ~broken'[c]
                 PROVE  2 * n + written'[c] = Len(seen'[c]) + Len(s2c'[c])
      OBVIOUS
    <2>1. PICK a \in Nat, b \in Nat, w \in Nat :
             a = Len(seen[c]) /\ b = Len(s2c[c]) /\ w = written[c]
      BY <1>2
    <2>2. PICK a2 \in Nat, b2 \in Nat, w2 \in Nat :
             a2 = Len(seen'[c]) /\ b2 = Len(s2c'[c]) /\ w2 = written'[c]
      BY <1>2
    <2>3. 2 * n + w = a + b
      BY <1>1, <2>1 DEF OrderAt
    <2>4. a2 + b2 + w = a + b + w2
      BY <2>1, <2>2
    <2>5. 2 * n + w2 = a2 + b2
      BY <2>3, <2>4
    <2> QED  BY <2>2, <2>5
  <1>4. OrderAt(c, n)'
    BY <1>1, <1>3 DEF OrderAt, RequestNo
  <1> QED  BY <1>4 DEF OrderInv

\* The order survives what a session does.
LEMMA SessionKeepsOrder ==
    ASSUME TypeInv, TypeInv', NEW c \in Conns, SessionInv(c), WrittenInv(c),
           OrderInv(c), SessionNext(c), UNCHANGED clientsVars
    PROVE  OrderInv(c)'
  <1>1. asked' = asked /\ seen' = seen
    BY DEF clientsVars
  <1>2. broken' = broken
    BY DEF SessionNext, ReadCompletes, WriteFrame, WriteFails, ReadHandlerError,
       ReadHandler, ReadHandlerDecode, QueueWriteTest, QueueWritePush, QueueWriteStart,
       WriteHandlerError, WriteHandler, WriteHandlerPop, WriteHandlerNext, netVars
  <1>3. CASE WriteHandlerPop(c)
    <2>1. queue[c] # <<>> /\ written[c] = 2 /\ written'[c] = 0 /\ s2c' = s2c
      BY <1>3 DEF SessionInv, WrittenInv, WriteHandlerPop, TypeInv, netVars
    <2>2. PICK n \in Nat : OrderAt(c, n)
      BY DEF OrderInv
    <2> DEFINE u == Unanswered(c)
    <2>3. u # <<>> /\ Unanswered(c)' = Tail(u) /\ u \in Seq(Frame)
      BY <1>3, <2>1, FrontIsNext, Places
    <2>4. /\ Len(u) \in Nat /\ Len(u) >= 1 /\ Len(Tail(u)) = Len(u) - 1
          /\ \A k \in 1..(Len(u) - 1) : Tail(u)[k] = u[k + 1]
      BY <2>3, HeadTailParts
    <2>5. /\ \A k \in 1..Len(u) : u[k] = RequestNo(c, n + k)
          /\ n + Len(u) <= Len(asked[c])
          /\ ~broken[c] => /\ n + Len(u) = Len(asked[c])
                           /\ 2 * n + 2 = Len(seen[c]) + Len(s2c[c])
      BY <2>1, <2>2 DEF OrderAt
    <2> HIDE DEF u
    <2>6. ASSUME NEW k \in 1..(Len(u) - 1) PROVE Tail(u)[k] = RequestNo(c, (n + 1) + k)
      <3>1. k + 1 \in 1..Len(u) /\ n + (k + 1) = (n + 1) + k
        BY <2>4
      <3> QED  BY <2>4, <2>5, <3>1
    <2>7. /\ (n + 1) + (Len(u) - 1) = n + Len(u) /\ 2 * (n + 1) + 0 = 2 * n + 2
          /\ n + 1 \in Nat
      BY <2>4
    <2>8. Len(Unanswered(c)') = Len(u) - 1
      BY <2>3, <2>4
    <2>9. /\ \A k \in 1..Len(Unanswered(c)') : Unanswered(c)'[k] = RequestNo(c, (n + 1) + k)'
          /\ (n + 1) + Len(Unanswered(c)') <= Len(asked'[c])
      BY <1>1, <2>3, <2>5, <2>6, <2>7, <2>8 DEF RequestNo
    <2>10. ~broken'[c] => /\ (n + 1) + Len(Unanswered(c)') = Len(asked'[c])
                          /\ 2 * (n + 1) + written'[c] = Len(seen'[c]) + Len(s2c'[c])
      BY <1>1, <1>2, <2>1, <2>5, <2>7, <2>8
    <2>11. OrderAt(c, n + 1)'
      BY <2>9, <2>10 DEF OrderAt
    <2> QED  BY <2>7, <2>11 DEF OrderInv
  <1>4. CASE ~WriteHandlerPop(c)
    <2>1. Unanswered(c)' = Unanswered(c)
      BY <1>4, SessionPassesOn
    <2>2. CASE broken[c]
      BY <1>1, <1>2, <2>1, <2>2, OrderKept
    <2>3. CASE ~broken[c]
      <3>1. /\ Len(seen[c]) \in Nat /\ Len(s2c[c]) \in Nat /\ written[c] \in Nat
        BY Lengths
      <3>2. CASE WriteFrame(c)
        <4>1. written'[c] = written[c] + 1 /\ s2c'[c] = Append(s2c[c], ReplyFrame(c))
          BY <2>3, <3>2 DEF WriteFrame, TypeInv, NetTypeOK, ReplyFrame
        <4>2. ReplyFrame(c) \in Frame /\ s2c[c] \in Seq(Frame)
          BY <3>2, ReplyFrameType, SessionTypes DEF WriteFrame
        <4>3. Len(s2c'[c]) = Len(s2c[c]) + 1
          BY <4>1, <4>2, AppendParts
        <4>4. Len(seen'[c]) + Len(s2c'[c]) + written[c] =
                    Len(seen[c]) + Len(s2c[c]) + written'[c]
          <5>1. PICK a \in Nat, b \in Nat, w \in Nat :
                   a = Len(seen[c]) /\ b = Len(s2c[c]) /\ w = written[c]
            BY <3>1
          <5>2. Len(seen'[c]) = a /\ Len(s2c'[c]) = b + 1 /\ written'[c] = w + 1
            BY <1>1, <4>1, <4>3, <5>1
          <5>3. a + (b + 1) + w = a + b + (w + 1)
            OBVIOUS
          <5> QED  BY <5>1, <5>2, <5>3
        <4> QED  BY <1>1, <2>1, <2>3, <4>4, OrderKept
      <3>3. CASE ~WriteFrame(c)
        <4>1. s2c' = s2c /\ written' = written
          BY <1>4, <3>3 DEF SessionNext, ReadCompletes, WriteFails, ReadHandlerError,
             ReadHandler, ReadHandlerDecode, QueueWriteTest, QueueWritePush,
             QueueWriteStart, WriteHandlerError, WriteHandler, WriteHandlerNext,
             netVars, opVars
        <4> QED  BY <1>1, <2>1, <2>3, <4>1, OrderKept
      <3> QED  BY <3>2, <3>3
    <2> QED  BY <2>2, <2>3
  <1> QED  BY <1>3, <1>4

\* A new request is the last of the unanswered ones.
LEMMA AskKeepsOrder ==
    ASSUME TypeInv, NEW c \in Conns, OrderInv(c), Ask(c), UNCHANGED srvVars
    PROVE  OrderInv(c)'
  <1>1. PICK text \in Text \ {END} :
           /\ asked' = [asked EXCEPT ![c] = Append(@, text)]
           /\ c2s' = [c2s EXCEPT ![c] =
                         Append(@, [id |-> Len(asked[c]) + 1, payload |-> text])]
    BY DEF Ask
  <1>2. /\ ~broken[c] /\ Len(asked[c]) < MaxId
        /\ UNCHANGED <<seen, s2c, broken, queue, sbuf, chunk, rh, cur, written>>
    BY DEF Ask, srvVars, opVars, sessVars
  <1> DEFINE m == Len(asked[c])
             f == [id |-> m + 1, payload |-> text]
             u == Unanswered(c)
  <1>3. /\ asked[c] \in Seq(Text) /\ m \in Nat
        /\ asked'[c] = Append(asked[c], text) /\ c2s'[c] = Append(c2s[c], f)
    BY <1>1, SessionTypes, Lengths DEF TypeInv, NetTypeOK
  <1>4. f \in Frame
    BY <1>2, <1>3, TransportAssumption DEF Frame, Ids
  <1> HIDE DEF f
  <1>5. Unanswered(c)' = Append(u, f)
    <2>1. \A x, y \in Seq(Frame) : x \o Append(y, f) = Append(x \o y, f)
      BY <1>4, AppendConcat
    <2>2. chunk[c] \o Append(c2s[c], f) = Append(chunk[c] \o c2s[c], f)
      BY <2>1, Places
    <2>3. sbuf[c] \o Append(chunk[c] \o c2s[c], f) = Append(sbuf[c] \o (chunk[c] \o c2s[c]), f)
      BY <2>1, Places
    <2>4. Held(c) \o Append(sbuf[c] \o (chunk[c] \o c2s[c]), f) =
             Append(Held(c) \o (sbuf[c] \o (chunk[c] \o c2s[c])), f)
      BY <2>1, Places
    <2>5. queue[c] \o Append(Held(c) \o (sbuf[c] \o (chunk[c] \o c2s[c])), f) = Append(u, f)
      <3> DEFINE y == Held(c) \o (sbuf[c] \o (chunk[c] \o c2s[c]))
      <3>1. queue[c] \in Seq(Frame) /\ y \in Seq(Frame)
        BY Places
      <3> HIDE DEF y
      <3>2. queue[c] \o Append(y, f) = Append(queue[c] \o y, f)
        BY <2>1, <3>1
      <3> QED  BY <3>2 DEF y, Unanswered
    <2>6. Held(c)' = Held(c)
      BY <1>2 DEF Held
    <2>7. Unanswered(c)' = queue[c] \o (Held(c) \o (sbuf[c] \o (chunk[c] \o Append(c2s[c], f))))
      BY <1>2, <1>3, <2>6 DEF Unanswered
    <2> HIDE DEF u
    <2> QED  BY <2>2, <2>3, <2>4, <2>5, <2>7
  <1>6. u \in Seq(Frame) /\ Len(u) \in Nat
    BY Places
  <1> HIDE DEF u
  <1>7. /\ Len(Append(u, f)) = Len(u) + 1 /\ Append(u, f)[Len(u) + 1] = f
        /\ \A k \in 1..Len(u) : Append(u, f)[k] = u[k]
    BY <1>4, <1>6, AppendParts
  <1>8. /\ Len(asked'[c]) = m + 1 /\ asked'[c][m + 1] = text
        /\ \A k \in 1..m : asked'[c][k] = asked[c][k]
    BY <1>3, AppendParts
  <1>9. PICK n \in Nat : OrderAt(c, n)
    BY DEF OrderInv
  <1>10. /\ \A k \in 1..Len(u) : u[k] = RequestNo(c, n + k)
         /\ n + Len(u) = m
         /\ 2 * n + written[c] = Len(seen[c]) + Len(s2c[c])
    BY <1>2, <1>9 DEF OrderAt, u
  <1> HIDE DEF m
  <1>11. ASSUME NEW k \in 1..(Len(u) + 1)
         PROVE  Append(u, f)[k] = [id |-> n + k, payload |-> asked'[c][n + k]]
    <2>1. CASE k \in 1..Len(u)
      <3>1. n + k \in 1..m
        BY <2>1, <1>3, <1>6, <1>10
      <3> QED  BY <2>1, <3>1, <1>7, <1>8, <1>10 DEF RequestNo
    <2>2. CASE k = Len(u) + 1
      <3>1. n + k = m + 1
        <4>1. PICK l \in Nat : l = Len(u)
          BY <1>6
        <4>2. k = l + 1 /\ n + l = m
          BY <2>2, <4>1, <1>10
        <4>3. n + (l + 1) = (n + l) + 1
          OBVIOUS
        <4> QED  BY <4>2, <4>3
      <3> QED  BY <2>2, <3>1, <1>7, <1>8 DEF f
    <2> QED  BY <2>1, <2>2, <1>6
  <1>12. n + (Len(u) + 1) = m + 1 /\ m + 1 <= m + 1
    BY <1>3, <1>6, <1>10
  <1>13. OrderAt(c, n)'
    BY ZenonT(60), <1>2, <1>5, <1>7, <1>8, <1>10, <1>11, <1>12 DEF OrderAt, RequestNo
  <1> QED  BY <1>13 DEF OrderInv

\* What a break leaves of a stream is its first part.
LEMMA VanishKeepsOrder ==
    ASSUME TypeInv, NEW c \in Conns, OrderInv(c), Vanish(c), UNCHANGED srvVars
    PROVE  OrderInv(c)'
  <1>1. PICK j \in 0..Len(c2s[c]) : c2s' = [c2s EXCEPT ![c] = Keep(c2s[c], j)]
    BY DEF Vanish, BreakConnection
  <1>2. /\ broken'[c] /\ asked' = asked /\ c2s'[c] = Keep(c2s[c], j)
        /\ UNCHANGED <<queue, sbuf, chunk, rh, cur>>
    BY <1>1 DEF Vanish, BreakConnection, clientsVars, srvVars, opVars, sessVars,
                TypeInv, NetTypeOK
  <1> DEFINE x1 == c2s[c]
             x2 == chunk[c] \o x1
             x3 == sbuf[c] \o x2
             x4 == Held(c) \o x3
             u == Unanswered(c)
  <1>3. /\ x1 \in Seq(Frame) /\ x2 \in Seq(Frame) /\ x3 \in Seq(Frame)
        /\ x4 \in Seq(Frame) /\ u \in Seq(Frame) /\ u = queue[c] \o x4
        /\ chunk[c] \in Seq(Frame) /\ sbuf[c] \in Seq(Frame)
        /\ Held(c) \in Seq(Frame) /\ queue[c] \in Seq(Frame)
    BY Places DEF Unanswered
  <1>4. Unanswered(c)' = queue[c] \o (Held(c) \o (sbuf[c] \o (chunk[c] \o Keep(x1, j))))
    BY <1>2 DEF Unanswered, Held
  <1>5. \A s, t \in Seq(Frame) : \A i \in 0..Len(t) :
           \E k \in 0..Len(s \o t) : s \o Keep(t, i) = Keep(s \o t, k)
    BY KeepConcat
  <1>6. PICK k2 \in 0..Len(x2) : chunk[c] \o Keep(x1, j) = Keep(x2, k2)
    BY <1>3, <1>5
  <1>7. PICK k3 \in 0..Len(x3) : sbuf[c] \o Keep(x2, k2) = Keep(x3, k3)
    <2> HIDE DEF x2
    <2> QED  BY <1>3, <1>5
  <1>8. PICK k4 \in 0..Len(x4) : Held(c) \o Keep(x3, k3) = Keep(x4, k4)
    <2> HIDE DEF x3
    <2> QED  BY <1>3, <1>5
  <1>9. PICK k \in 0..Len(u) : queue[c] \o Keep(x4, k4) = Keep(u, k)
    <2> HIDE DEF x4, u
    <2>1. \E i \in 0..Len(queue[c] \o x4) : queue[c] \o Keep(x4, k4) = Keep(queue[c] \o x4, i)
      BY <1>3, <1>5
    <2> QED  BY <1>3, <2>1
  <1>10. Unanswered(c)' = Keep(u, k)
    <2> HIDE DEF x1, x2, x3, x4, u
    <2> QED  BY <1>4, <1>6, <1>7, <1>8, <1>9
  <1>11. PICK n \in Nat : OrderAt(c, n)
    BY DEF OrderInv
  <1>12. Len(u) \in Nat /\ Len(asked[c]) \in Nat
    BY Lengths
  <1> HIDE DEF x1, x2, x3, x4
  <1>13. /\ \A i \in 1..Len(u) : u[i] = RequestNo(c, n + i)
         /\ n + Len(u) <= Len(asked[c])
    BY <1>11 DEF OrderAt
  <1> HIDE DEF u
  <1>14. Len(Keep(u, k)) = k /\ \A i \in 1..k : Keep(u, k)[i] = u[i]
    BY <1>3, KeepDropType
  <1>15. n + k <= Len(asked[c]) /\ \A i \in 1..k : i \in 1..Len(u)
    BY <1>12, <1>13
  <1>16. OrderAt(c, n)'
    BY <1>2, <1>10, <1>13, <1>14, <1>15 DEF OrderAt, RequestNo
  <1> QED  BY <1>16 DEF OrderInv

\* The reply frames of a connection are a sequence.
LEMMA RepliesType ==
    ASSUME TypeInv, NEW c \in Conns
    PROVE  /\ Replies(c) \in Seq(Frame) /\ Len(Replies(c)) \in Nat
           /\ Len(Replies(c)) = Len(seen[c]) + Len(s2c[c])
  <1>1. seen[c] \in Seq(Frame) /\ s2c[c] \in Seq(Frame)
    BY SessionTypes
  <1> QED  BY <1>1, ConcatProperties, LenProperties DEF Replies

\* Asking again does not change the replies expected so far.
LEMMA ExpectedGrows ==
    ASSUME NEW texts \in Seq(Text), NEW text \in Text, NEW k \in 1..(2 * Len(texts))
    PROVE  Expected(Append(texts, text))[k] = Expected(texts)[k]
  <1> DEFINE m == Len(texts)
  <1>1. /\ m \in Nat /\ Len(Append(texts, text)) = m + 1
        /\ \A j \in 1..m : Append(texts, text)[j] = texts[j]
    BY AppendParts
  <1>2. k \in 1..(2 * (m + 1)) /\ (k + 1) \div 2 \in 1..m
    <2> HIDE DEF m
    <2>1. k \in 1..(2 * m)
      BY DEF m
    <2> QED  BY <1>1, <2>1
  <1>3. Append(texts, text)[(k + 1) \div 2] = texts[(k + 1) \div 2]
    BY <1>1, <1>2
  <1> QED  BY <1>1, <1>2, <1>3 DEF Expected

\* The frame that async_write puts on the connection next is the reply frame
\* that is due.
LEMMA WriteIsDue ==
    ASSUME TypeInv, NEW c \in Conns, SessionInv(c), WrittenInv(c), OrderInv(c),
           writeOp[c] = "pending", ~broken[c]
    PROVE  /\ Len(Replies(c)) + 1 <= 2 * Len(asked[c])
           /\ ReplyFrame(c) = Expected(asked[c])[Len(Replies(c)) + 1]
  <1>1. PICK n \in Nat : OrderAt(c, n)
    BY DEF OrderInv
  <1>2. /\ queue[c] # <<>> /\ written[c] \in {0, 1}
        /\ ReplyFrame(c) =
              [id |-> Head(queue[c]).id,
               payload |-> IF written[c] = 0 THEN Head(queue[c]).payload ELSE END]
    BY ReplyFrameType
  <1>3. /\ Unanswered(c) # <<>> /\ Unanswered(c)[1] = Head(queue[c])
        /\ Unanswered(c) \in Seq(Frame)
    BY <1>2, FrontIsNext, Places
  <1>4. Len(Unanswered(c)) \in Nat /\ Len(Unanswered(c)) >= 1
    BY <1>3, HeadTailParts
  <1>5. Head(queue[c]) = RequestNo(c, n + 1)
    BY <1>1, <1>3, <1>4 DEF OrderAt
  <1> DEFINE m == Len(asked[c])
             w == written[c]
             r == Len(Replies(c))
  <1>6. m \in Nat /\ r \in Nat /\ r = Len(seen[c]) + Len(s2c[c])
    BY Lengths, RepliesType
  <1>7. 2 * n + w = r
    BY <1>1, <1>6 DEF OrderAt
  <1>8. n + Len(Unanswered(c)) = m
    BY <1>1 DEF OrderAt
  <1>9. n + 1 <= m
    BY <1>4, <1>6, <1>8
  <1> HIDE DEF m, w, r
  <1>10. w = 0 \/ w = 1
    BY <1>2 DEF w
  <1>11. /\ r + 1 <= 2 * m /\ r + 1 \in 1..(2 * m)
         /\ ((r + 1) + 1) \div 2 = n + 1
         /\ (r + 1) % 2 = 1 <=> w = 0
    <2>1. CASE w = 0
      <3>0. 2 * n + 0 = 2 * n
        OBVIOUS
      <3>1. r = 2 * n
        BY <2>1, <3>0, <1>7
      <3>2. (2 * n + 1) + 1 = 2 * (n + 1) /\ (2 * (n + 1)) \div 2 = n + 1
        OBVIOUS
      <3>3. (2 * n + 1) % 2 = 1
        OBVIOUS
      <3>4. 2 * n + 1 <= 2 * m /\ 2 * n + 1 \in 1..(2 * m)
        BY <1>6, <1>9
      <3> QED  BY <2>1, <3>1, <3>2, <3>3, <3>4
    <2>2. CASE w = 1
      <3>1. r = 2 * n + 1
        BY <2>2, <1>6, <1>7
      <3>2. ((2 * n + 1) + 1) + 1 = 2 * (n + 1) + 1 /\ (2 * (n + 1) + 1) \div 2 = n + 1
        OBVIOUS
      <3>3. ((2 * n + 1) + 1) % 2 = 0
        OBVIOUS
      <3>4. (2 * n + 1) + 1 <= 2 * m /\ (2 * n + 1) + 1 \in 1..(2 * m)
        BY <1>6, <1>9
      <3> QED  BY <2>2, <3>1, <3>2, <3>3, <3>4
    <2> QED  BY <1>10, <2>1, <2>2
  <1>12. Expected(asked[c])[r + 1] =
            [id |-> n + 1, payload |-> IF w = 0 THEN asked[c][n + 1] ELSE END]
    BY <1>11 DEF Expected, m
  <1>13. ReplyFrame(c) = [id |-> n + 1, payload |-> IF w = 0 THEN asked[c][n + 1] ELSE END]
    BY <1>2, <1>5 DEF RequestNo, w
  <1> QED  BY <1>11, <1>12, <1>13 DEF r, m

\* The replies sent survive every step.
LEMMA SessionKeepsReplies ==
    ASSUME TypeInv, NEW c \in Conns, SessionInv(c), WrittenInv(c), OrderInv(c),
           RepliesInv(c), SessionNext(c), UNCHANGED clientsVars
    PROVE  RepliesInv(c)'
  <1>1. asked' = asked /\ seen' = seen
    BY DEF clientsVars
  <1>2. CASE s2c'[c] = s2c[c]
    BY <1>1, <1>2 DEF RepliesInv, Replies
  <1>3. CASE s2c'[c] # s2c[c]
    <2>1. WriteFrame(c)
      BY <1>3 DEF SessionNext, ReadCompletes, WriteFails, ReadHandlerError,
         ReadHandler, ReadHandlerDecode, QueueWriteTest, QueueWritePush,
         QueueWriteStart, WriteHandlerError, WriteHandler, WriteHandlerPop,
         WriteHandlerNext, netVars
    <2>2. /\ writeOp[c] = "pending" /\ ~broken[c]
          /\ s2c'[c] = Append(s2c[c], ReplyFrame(c))
      BY <2>1, <1>3 DEF WriteFrame, ReplyFrame, TypeInv, NetTypeOK
    <2> DEFINE f == ReplyFrame(c)
               r == Replies(c)
    <2>3. f \in Frame /\ seen[c] \in Seq(Frame) /\ s2c[c] \in Seq(Frame)
      BY <2>2, ReplyFrameType, SessionTypes
    <2>4. Replies(c)' = Append(r, f)
      <3>1. \A x, y \in Seq(Frame), z \in Frame : x \o Append(y, z) = Append(x \o y, z)
        BY AppendConcat
      <3>2. seen[c] \o Append(s2c[c], f) = Append(seen[c] \o s2c[c], f)
        <4> HIDE DEF f
        <4> QED  BY <2>3, <3>1
      <3> QED  BY <1>1, <2>2, <3>2 DEF Replies
    <2>5. Len(r) + 1 <= 2 * Len(asked[c]) /\ f = Expected(asked[c])[Len(r) + 1]
      BY <2>2, WriteIsDue
    <2>6. r \in Seq(Frame) /\ Len(r) \in Nat
      BY RepliesType
    <2>7. \A k \in 1..Len(r) : r[k] = Expected(asked[c])[k]
      BY DEF RepliesInv
    <2> HIDE DEF f, r
    <2>8. /\ Len(Append(r, f)) = Len(r) + 1 /\ Append(r, f)[Len(r) + 1] = f
          /\ \A k \in 1..Len(r) : Append(r, f)[k] = r[k]
      BY <2>3, <2>6, AppendParts
    <2>9. ASSUME NEW k \in 1..(Len(r) + 1)
          PROVE  Append(r, f)[k] = Expected(asked[c])[k]
      <3>1. k \in 1..Len(r) \/ k = Len(r) + 1
        BY <2>6
      <3> QED  BY <3>1, <2>5, <2>7, <2>8
    <2> QED  BY <1>1, <2>4, <2>5, <2>8, <2>9 DEF RepliesInv
  <1> QED  BY <1>2, <1>3

\* Nor does a client's step disturb them.
LEMMA ClientKeepsReplies ==
    ASSUME TypeInv, NEW c \in Conns, RepliesInv(c), ClientStep(c)
    PROVE  RepliesInv(c)'
  <1> DEFINE r == Replies(c)
  <1>0. /\ seen[c] \in Seq(Frame) /\ s2c[c] \in Seq(Frame) /\ asked[c] \in Seq(Text)
        /\ r \in Seq(Frame) /\ Len(r) \in Nat /\ Len(asked[c]) \in Nat
    BY SessionTypes, RepliesType, Lengths
  <1>00. Len(r) <= 2 * Len(asked[c]) /\ \A k \in 1..Len(r) : r[k] = Expected(asked[c])[k]
    BY DEF RepliesInv
  <1>1. CASE Ask(c)
    <2>1. PICK text \in Text : asked' = [asked EXCEPT ![c] = Append(@, text)]
      BY <1>1 DEF Ask
    <2>2. asked'[c] = Append(asked[c], text) /\ Replies(c)' = r
      BY <1>1, <2>1 DEF Ask, TypeInv, Replies
    <2>3. Len(asked'[c]) = Len(asked[c]) + 1
      BY <1>0, <2>2, AppendParts
    <2> HIDE DEF r
    <2>4. ASSUME NEW k \in 1..Len(r) PROVE r[k] = Expected(asked'[c])[k]
      <3>1. k \in 1..(2 * Len(asked[c]))
        BY <1>0, <1>00
      <3>2. Expected(Append(asked[c], text))[k] = Expected(asked[c])[k]
        BY <1>0, <3>1, ExpectedGrows
      <3> QED  BY <1>00, <2>2, <3>2
    <2>5. Len(r) <= 2 * Len(asked'[c])
      BY <1>0, <1>00, <2>3
    <2> QED  BY <2>2, <2>4, <2>5 DEF RepliesInv
  <1>2. CASE ReadReply(c)
    <2>1. /\ s2c[c] # <<>> /\ asked' = asked
          /\ seen'[c] = Append(seen[c], Head(s2c[c])) /\ s2c'[c] = Tail(s2c[c])
      BY <1>2 DEF ReadReply, TypeInv, NetTypeOK
    <2>2. Append(seen[c], Head(s2c[c])) \o Tail(s2c[c]) = seen[c] \o s2c[c]
      <3>1. \A x, y \in Seq(Frame) : y # <<>> => Append(x, Head(y)) \o Tail(y) = x \o y
        BY MoveFront
      <3> QED  BY <1>0, <2>1, <3>1
    <2>3. Replies(c)' = r
      BY <2>1, <2>2 DEF Replies
    <2> QED  BY <1>00, <2>1, <2>3 DEF RepliesInv
  <1>3. CASE Vanish(c)
    <2>1. PICK j \in 0..Len(s2c[c]) : s2c' = [s2c EXCEPT ![c] = Keep(s2c[c], j)]
      BY <1>3 DEF Vanish, BreakConnection
    <2>2. /\ asked' = asked /\ seen' = seen /\ s2c'[c] = Keep(s2c[c], j)
      BY <1>3, <2>1 DEF Vanish, clientsVars, TypeInv, NetTypeOK
    <2>3. PICK k \in 0..Len(r) : seen[c] \o Keep(s2c[c], j) = Keep(r, k)
      BY <1>0, KeepConcat DEF Replies
    <2>4. Replies(c)' = Keep(r, k)
      BY <2>2, <2>3 DEF Replies
    <2> HIDE DEF r
    <2>5. Len(Keep(r, k)) = k /\ \A i \in 1..k : Keep(r, k)[i] = r[i]
      BY <1>0, KeepDropType
    <2>6. k <= 2 * Len(asked[c]) /\ \A i \in 1..k : i \in 1..Len(r)
      BY <1>0, <1>00
    <2> QED  BY <1>00, <2>2, <2>4, <2>5, <2>6 DEF RepliesInv
  <1> QED  BY <1>1, <1>2, <1>3 DEF ClientStep

\* The sessions, the order of requests and the replies sent, together.
IInv ==
    /\ SessionsInv
    /\ \A c \in Conns : OrderInv(c) /\ RepliesInv(c)

\* What a step leaves alone of a connection keeps its order and its replies.
LEMMA UntouchedKeepsOrder ==
    ASSUME TypeInv, TypeInv', NEW d \in Conns, Untouched(d), OrderInv(d), RepliesInv(d),
           c2s'[d] = c2s[d], s2c'[d] = s2c[d], asked'[d] = asked[d], seen'[d] = seen[d],
           broken'[d] \/ ~broken[d]
    PROVE  OrderInv(d)' /\ RepliesInv(d)'
  <1>1. Unanswered(d)' = Unanswered(d)
    BY DEF Untouched, Unanswered, Held
  <1>2. OrderInv(d)'
    BY <1>1, OrderKept DEF Untouched
  <1>3. RepliesInv(d)'
    BY DEF RepliesInv, Replies
  <1> QED  BY <1>2, <1>3

\* Every step keeps the whole invariant.
LEMMA OrderStep == IInv /\ [Next]_vars => IInv'
  <1> SUFFICES ASSUME IInv, [Next]_vars PROVE IInv'
    OBVIOUS
  <1>1. SessionsInv /\ SessionsInv'
    BY SessionsStep DEF IInv
  <1>2. TypeInv /\ TypeInv' /\ \A c \in Conns : SessionInv(c) /\ WrittenInv(c)
    BY <1>1 DEF SessionsInv
  <1>3. \A c \in Conns : OrderInv(c) /\ RepliesInv(c)
    BY DEF IInv
  <1>b. \A c \in Conns : broken[c] \in BOOLEAN /\ broken'[c] \in BOOLEAN
    BY <1>2 DEF TypeInv, NetTypeOK
  <1> SUFFICES ASSUME NEW d \in Conns PROVE OrderInv(d)' /\ RepliesInv(d)'
    BY <1>1 DEF IInv
  <1>4. ASSUME NEW c \in Conns, SessionNext(c), UNCHANGED clientsVars
        PROVE  OrderInv(d)' /\ RepliesInv(d)'
    <2>1. CASE d = c
      BY <1>2, <1>3, <1>4, <2>1, SessionKeepsOrder, SessionKeepsReplies
    <2>2. CASE d # c
      <3>1. Untouched(d) /\ c2s'[d] = c2s[d] /\ s2c'[d] = s2c[d] /\ broken' = broken
        BY <1>2, <1>4, <2>2, OneSession
      <3>2. asked' = asked /\ seen' = seen
        BY <1>4 DEF clientsVars
      <3> QED  BY <1>2, <1>3, <3>1, <3>2, UntouchedKeepsOrder
    <2> QED  BY <2>1, <2>2
  <1>5. ASSUME AcceptNext \/ StopSignal, UNCHANGED clientsVars
        PROVE  OrderInv(d)' /\ RepliesInv(d)'
    <2>1. UNCHANGED <<chunk, written, sbuf, queue, rh, cur, c2s, s2c, asked, seen>>
      BY <1>5 DEF AcceptNext, Accept, AcceptError, AcceptThrows, StopSignal, netVars,
                  opVars, sessVars, clientsVars
    <2>2. UNCHANGED broken \/ broken'[d]
      BY <1>5 DEF AcceptNext, Accept, AcceptError, AcceptThrows, StopSignal, netVars
    <2>3. Unanswered(d)' = Unanswered(d)
      BY <2>1 DEF Unanswered, Held
    <2>4. OrderInv(d)'
      BY <1>2, <1>3, <2>1, <2>2, <2>3, OrderKept
    <2>5. RepliesInv(d)'
      BY <1>3, <2>1 DEF RepliesInv, Replies
    <2> QED  BY <2>4, <2>5
  <1>6. ASSUME UNCHANGED <<srvVars, netVars, asked, seen>> \/ \E c \in Conns : ConnectClient(c)
        PROVE  OrderInv(d)' /\ RepliesInv(d)'
    <2>1. UNCHANGED <<opVars, sessVars, netVars, asked, seen>>
      BY <1>6 DEF ConnectClient, Connect, srvVars
    <2>2. Untouched(d)
      BY <2>1 DEF Untouched, opVars, sessVars
    <2> QED  BY <1>2, <1>3, <2>1, <2>2, UntouchedKeepsOrder DEF netVars
  <1>7. ASSUME NEW c \in Conns, ClientStep(c), UNCHANGED srvVars
        PROVE  OrderInv(d)' /\ RepliesInv(d)'
    <2>1. CASE d # c
      <3>1. /\ c2s'[d] = c2s[d] /\ s2c'[d] = s2c[d] /\ asked'[d] = asked[d]
            /\ seen'[d] = seen[d] /\ broken'[d] = broken[d]
        <4> USE <1>2 DEF TypeInv, NetTypeOK
        <4>1. CASE Ask(c)
          BY <2>1, <4>1 DEF Ask
        <4>2. CASE ReadReply(c)
          BY <2>1, <4>2 DEF ReadReply
        <4>3. CASE Vanish(c)
          BY <2>1, <4>3 DEF Vanish, BreakConnection, clientsVars
        <4> QED  BY <1>7, <4>1, <4>2, <4>3 DEF ClientStep
      <3>2. Untouched(d)
        BY <1>7 DEF srvVars, opVars, sessVars, Untouched
      <3> QED  BY <1>2, <1>3, <3>1, <3>2, UntouchedKeepsOrder
    <2>2. CASE d = c
      <3>1. RepliesInv(d)'
        BY <1>2, <1>3, <1>7, <2>2, ClientKeepsReplies
      <3>2. CASE Ask(c)
        BY <1>2, <1>3, <1>7, <2>2, <3>1, <3>2, AskKeepsOrder
      <3>3. CASE Vanish(c)
        BY <1>2, <1>3, <1>7, <2>2, <3>1, <3>3, VanishKeepsOrder
      <3>4. CASE ReadReply(c)
        <4>1. /\ s2c[c] # <<>> /\ UNCHANGED <<asked, c2s, broken>>
              /\ seen'[c] = Append(seen[c], Head(s2c[c])) /\ s2c'[c] = Tail(s2c[c])
          BY <1>2, <3>4 DEF ReadReply, TypeInv, NetTypeOK
        <4>2. Unanswered(c)' = Unanswered(c) /\ written' = written
          BY <1>7, <4>1 DEF Unanswered, Held, srvVars, opVars, sessVars
        <4>3. seen[c] \in Seq(Frame) /\ s2c[c] \in Seq(Frame)
          BY <1>2, SessionTypes
        <4>4. Head(s2c[c]) \in Frame /\ Len(s2c[c]) \in Nat /\ Len(Tail(s2c[c])) = Len(s2c[c]) - 1
          BY <4>1, <4>3, HeadTailParts
        <4>5. Len(seen[c]) \in Nat /\ Len(Append(seen[c], Head(s2c[c]))) = Len(seen[c]) + 1
          BY <4>3, <4>4, AppendParts
        <4>6. PICK a \in Nat, b \in Nat : a = Len(seen[c]) /\ b = Len(s2c[c])
          BY <4>4, <4>5
        <4>7. Len(seen'[c]) = a + 1 /\ Len(s2c'[c]) = b - 1
          BY <4>1, <4>4, <4>5, <4>6
        <4>8. (a + 1) + (b - 1) = a + b
          OBVIOUS
        <4>9. Len(seen'[c]) + Len(s2c'[c]) + written[c] = Len(seen[c]) + Len(s2c[c]) + written'[c]
          BY <4>2, <4>6, <4>7, <4>8
        <4> QED  BY <1>2, <1>3, <1>b, <2>2, <3>1, <4>1, <4>2, <4>9, OrderKept
      <3> QED  BY <1>7, <3>2, <3>3, <3>4 DEF ClientStep
    <2> QED  BY <2>1, <2>2
  <1>8. CASE UNCHANGED vars
    BY <1>6, <1>8 DEF vars, clientsVars
  <1> QED  BY <1>4, <1>5, <1>6, <1>7, <1>8 DEF Next, ServerNext

\* The invariant holds throughout.
LEMMA InvariantHolds == Spec => []IInv
  <1>1. Init => IInv
    <2> SUFFICES ASSUME Init PROVE IInv
      OBVIOUS
    <2>1. TypeInv
      BY TypeInit
    <2>2. SessionsInv
      <3>1. \A c \in Conns : SessionInv(c) /\ WrittenInv(c) /\ Fresh(c)
        BY DEF Init, ServerInit, SessionInv, WrittenInv, Fresh
      <3>2. DOMAIN backlog = {}
        BY DEF Init, ServerInit
      <3> QED  BY <2>1, <3>1, <3>2 DEF SessionsInv, BacklogInv
    <2> SUFFICES ASSUME NEW c \in Conns PROVE OrderInv(c) /\ RepliesInv(c)
      BY <2>2 DEF IInv
    <2>3. /\ queue[c] = <<>> /\ sbuf[c] = <<>> /\ chunk[c] = <<>> /\ c2s[c] = <<>>
          /\ Held(c) = <<>> /\ seen[c] = <<>> /\ s2c[c] = <<>> /\ asked[c] = <<>>
          /\ written[c] = 0
      BY DEF Init, ServerInit, NetInit, ClientsInit, Held
    <2>4. <<>> \o <<>> = <<>> /\ Len(<<>>) = 0
      BY ConcatEmptySeq, EmptySeq
    <2>5. Unanswered(c) = <<>> /\ Replies(c) = <<>>
      BY <2>3, <2>4 DEF Unanswered, Replies
    <2>6. OrderAt(c, 0)
      BY <2>3, <2>4, <2>5 DEF OrderAt
    <2>7. RepliesInv(c)
      BY <2>3, <2>4, <2>5 DEF RepliesInv
    <2> QED  BY <2>6, <2>7 DEF OrderInv
  <1> QED  BY <1>1, OrderStep, PTL DEF Spec

\* Frames with any number as their id: what Expected() consists of.
AnyFrame == [id : Nat, payload : Text]

(***************************************************************************)
(* A client of promise_server_asio reads the replies to its requests in    *)
(* the order it sent them, two frames each, none twice, none missing in    *)
(* between, for every number of clients, of threads and of requests.       *)
(***************************************************************************)
THEOREM RepliesInRequestOrderHolds == Spec => []RepliesInRequestOrder
  <1>1. IInv => RepliesInRequestOrder
    <2> SUFFICES ASSUME IInv, NEW c \in Conns
                 PROVE  IsPrefixOf(seen[c] \o s2c[c], Expected(asked[c]))
      BY DEF RepliesInRequestOrder
    <2> DEFINE r == Replies(c)
               x == Expected(asked[c])
               m == Len(asked[c])
    <2>1. TypeInv /\ RepliesInv(c)
      BY DEF IInv, SessionsInv
    <2>2. /\ r \in Seq(Frame) /\ Len(r) \in Nat /\ m \in Nat /\ asked[c] \in Seq(Text)
          /\ Len(r) <= 2 * m /\ \A k \in 1..Len(r) : r[k] = x[k]
      BY <2>1, RepliesType, Lengths, SessionTypes DEF RepliesInv
    <2>3. \A k \in 1..(2 * m) : (k + 1) \div 2 \in 1..m /\ (k + 1) \div 2 \in Nat
      <3> HIDE DEF m
      <3> QED  BY <2>2
    <2>4. \A k \in 1..(2 * m) : x[k] \in AnyFrame
      <3>1. \A j \in 1..m : asked[c][j] \in Text
        BY <2>2, ElementOfSeq
      <3> QED  BY <2>3, <3>1, TransportAssumption DEF Expected, AnyFrame
    <2>5. x \in [1..(2 * m) -> AnyFrame]
      BY <2>4 DEF Expected
    <2>6. 2 * m \in Nat
      BY <2>2
    <2>7. x \in Seq(AnyFrame) /\ Len(x) = 2 * m
      <3> HIDE DEF x, m
      <3> QED  BY <2>5, <2>6
    <2>8. r \in Seq(AnyFrame)
      <3>1. Frame \subseteq AnyFrame
        BY TransportAssumption DEF Frame, AnyFrame, Ids
      <3> QED  BY <2>2, <3>1, SeqMonotonic
    <2> HIDE DEF r, x, m
    <2>9. Len(r) \in 0..Len(x)
      BY <2>2, <2>7
    <2>10. /\ Keep(x, Len(r)) \in Seq(AnyFrame) /\ Len(Keep(x, Len(r))) = Len(r)
           /\ \A k \in 1..Len(r) : Keep(x, Len(r))[k] = x[k]
      BY <2>7, <2>9, KeepDropType
    <2>11. r = Keep(x, Len(r))
      BY <2>2, <2>8, <2>10, SeqEqual
    <2> QED  BY <2>2, <2>7, <2>11 DEF IsPrefixOf, r, x, Replies
  <1> QED  BY <1>1, InvariantHolds, PTL

-----------------------------------------------------------------------------
(***************************************************************************)
(* The refinement.  To a client, what the session has read and not decoded *)
(* is still on its way; what it owes for a request is the rest of the      *)
(* reply that is held or queued.                                           *)
(***************************************************************************)
Pending == [c \in Conns |-> sbuf[c] \o chunk[c] \o c2s[c]]

Owed == [c \in Conns |-> [i \in Ids |-> OwedBy(c, i)]]

\* A step that leaves these alone is invisible to a client.
LEMMA PeerQuiet ==
    ASSUME Pending' = Pending, Owed' = Owed, UNCHANGED <<s2c, broken>>
    PROVE  UNCHANGED Peer!peerVars
  BY DEF Peer!peerVars, Peer!netVars, Pending, Owed

\* The actions of Peer, over Pending and Owed: it takes a request, ...
LEMMA PeerTakes ==
    ASSUME NEW c \in Conns, Pending[c] # <<>>,
           Owed' = [Owed EXCEPT ![c][Head(Pending[c]).id] =
                       @ \o <<Head(Pending[c]).payload, END>>],
           Pending' = [Pending EXCEPT ![c] = Tail(@)],
           UNCHANGED <<s2c, broken>>
    PROVE  Peer!PeerStep
  <1>1. Peer!PeerTake(c)
    BY DEF Peer!PeerTake, Peer!END, END, Pending, Owed
  <1> QED  BY ZenonT(60), <1>1 DEF Peer!PeerStep, Peer!PeerNext, Peer!Conns, Conns

\* ... sends a frame of a reply, ...
LEMMA PeerReplies ==
    ASSUME NEW c \in Conns, NEW i \in Ids, Owed[c][i] # <<>>,
           ~broken[c], Len(s2c[c]) < RecvCap,
           s2c' = [s2c EXCEPT ![c] =
                      Append(@, [id |-> i, payload |-> Head(Owed[c][i])])],
           Owed' = [Owed EXCEPT ![c][i] = Tail(@)],
           Pending' = Pending, UNCHANGED broken
    PROVE  Peer!PeerStep
  <1>1. Peer!PeerReply(c, i)
    BY DEF Peer!PeerReply, Pending, Owed
  <1> QED  BY <1>1 DEF Peer!PeerStep, Peer!PeerNext, Peer!Conns, Conns, Peer!Ids, Ids

\* ... loses a frame of a reply on a connection that is gone, ...
LEMMA PeerDrops ==
    ASSUME NEW c \in Conns, NEW i \in Ids, Owed[c][i] # <<>>, broken[c],
           Owed' = [Owed EXCEPT ![c][i] = Tail(@)],
           Pending' = Pending, UNCHANGED <<s2c, broken>>
    PROVE  Peer!PeerStep
  <1>1. Peer!PeerDrop(c, i)
    BY DEF Peer!PeerDrop, Peer!netVars, Pending, Owed
  <1> QED  BY <1>1 DEF Peer!PeerStep, Peer!PeerNext, Peer!Conns, Conns, Peer!Ids, Ids

\* ... a client sends a request, ...
LEMMA PeerHears ==
    ASSUME NEW c \in Conns, NEW f \in Frame,
           Pending' = [Pending EXCEPT ![c] = Append(@, f)],
           Owed' = Owed, UNCHANGED <<s2c, broken>>
    PROVE  Peer!PeerStep
  <1>1. Peer!ClientSends(c)
    BY DEF Peer!ClientSends, Peer!Frame, Frame, Peer!Ids, Ids, Pending, Owed
  <1> QED  BY <1>1 DEF Peer!PeerStep, Peer!Conns, Conns

\* ... reads reply frames, ...
LEMMA PeerIsRead ==
    ASSUME NEW c \in Conns, NEW n \in 1..Len(s2c[c]),
           s2c' = [s2c EXCEPT ![c] = Drop(@, n)],
           Pending' = Pending, Owed' = Owed, UNCHANGED broken
    PROVE  Peer!PeerStep
  <1>1. Peer!ClientReads(c)
    BY DEF Peer!ClientReads, Peer!Drop, Drop, Pending, Owed
  <1> QED  BY <1>1 DEF Peer!PeerStep, Peer!Conns, Conns

\* ... and connections break, losing what was in flight.
LEMMA PeerBreaks ==
    ASSUME \A c \in Conns :
              /\ broken[c] => broken'[c]
              /\ \E n \in 0..Len(Pending[c]) : Pending'[c] = Keep(Pending[c], n)
              /\ \E n \in 0..Len(s2c[c]) : s2c'[c] = Keep(s2c[c], n)
              /\ ~broken'[c] => Pending'[c] = Pending[c] /\ s2c'[c] = s2c[c],
           Owed' = Owed
    PROVE  Peer!PeerStep
  <1>1. Peer!SomeBreak
    BY DEF Peer!SomeBreak, Peer!Conns, Conns, Peer!Keep, Keep, Pending, Owed
  <1> QED  BY <1>1 DEF Peer!PeerStep


\* What is left of a reply.
LEMMA DropPair ==
    ASSUME NEW a \in Text, NEW b \in Text
    PROVE  /\ Drop(<<a, b>>, 0) = <<a, b>>
           /\ Drop(<<a, b>>, 1) = <<b>>
           /\ Drop(<<a, b>>, 2) = <<>>
  <1>1. <<a, b>> \in Seq(Text) /\ Len(<<a, b>>) = 2
    OBVIOUS
  <1>2. PICK s \in Seq(Text) : s = <<a, b>>
    BY <1>1
  <1>3. Len(s) = 2 /\ s # <<>> /\ s[1] = a /\ s[2] = b /\ Tail(s) = <<b>>
    BY <1>1, <1>2
  <1>4. Drop(s, 0) = s
    <2>1. 0 \in 0..Len(s) /\ 0 + 1 = 1
      BY <1>3
    <2> QED  BY <2>1, SubSeqFull DEF Drop
  <1>5. Drop(s, 1) = Tail(s)
    BY <1>3, KeepDropEnds
  <1>6. Drop(s, 2) = <<>>
    BY <1>3, SubSeqEmpty DEF Drop
  <1> QED  BY <1>2, <1>3, <1>4, <1>5, <1>6

\* The requests in the queue, and the one held or about to be decoded, have
\* consecutive ids.
LEMMA QueueIds ==
    ASSUME TypeInv, NEW c \in Conns, OrderInv(c)
    PROVE  \E n \in Nat :
              /\ \A k \in 1..Len(queue[c]) : queue[c][k].id = n + k
              /\ rh[c] \in {"test", "push"} => cur[c].id = n + (Len(queue[c]) + 1)
              /\ rh[c] \notin {"test", "push"} /\ sbuf[c] # <<>> =>
                    Head(sbuf[c]).id = n + (Len(queue[c]) + 1)
  <1> DEFINE q == queue[c]
             y == Held(c) \o (sbuf[c] \o (chunk[c] \o c2s[c]))
             m == Len(q)
             u == Unanswered(c)
  <1>1. /\ q \in Seq(Frame) /\ y \in Seq(Frame) /\ u \in Seq(Frame) /\ u = q \o y
        /\ sbuf[c] \in Seq(Frame) /\ chunk[c] \o c2s[c] \in Seq(Frame)
        /\ Held(c) \in Seq(Frame) /\ sbuf[c] \o (chunk[c] \o c2s[c]) \in Seq(Frame)
    BY Places DEF Unanswered
  <1>2. PICK n \in Nat : \A k \in 1..Len(u) : u[k] = RequestNo(c, n + k)
    BY DEF OrderInv, OrderAt
  <1>3. m \in Nat /\ Len(y) \in Nat
    BY <1>1, LenProperties
  <1> HIDE DEF q, y, u
  <1>4. /\ Len(u) = m + Len(y)
        /\ \A k \in 1..(m + Len(y)) : u[k] = IF k <= m THEN q[k] ELSE y[k - m]
    BY <1>1, ConcatProperties
  <1> HIDE DEF m
  <1>5. ASSUME NEW k \in 1..m PROVE q[k].id = n + k
    <2>1. k \in 1..(m + Len(y)) /\ k <= m
      BY <1>3
    <2>2. q[k] = RequestNo(c, n + k)
      BY <1>2, <1>4, <2>1
    <2> QED  BY <2>2 DEF RequestNo
  <1>6. ASSUME y # <<>> PROVE Head(y).id = n + (m + 1)
    <2>1. Len(y) >= 1 /\ Head(y) = y[1]
      BY <1>1, <1>6, HeadTailParts
    <2>2. m + 1 \in 1..(m + Len(y)) /\ ~(m + 1 <= m) /\ (m + 1) - m = 1
      BY <1>3, <2>1
    <2>3. u[m + 1] = y[1]
      BY <1>4, <2>2
    <2>4. u[m + 1] = RequestNo(c, n + (m + 1))
      BY <1>2, <1>4, <2>2
    <2> QED  BY <2>1, <2>3, <2>4 DEF RequestNo
  <1>7. ASSUME rh[c] \in {"test", "push"} PROVE cur[c].id = n + (m + 1)
    <2>1. Held(c) = <<cur[c]>>
      BY <1>7 DEF Held
    <2>2. Held(c) # <<>> /\ Head(Held(c)) = cur[c]
      BY <2>1
    <2>3. y # <<>> /\ Head(y) = Head(Held(c))
      BY ZenonT(60), <1>1, <2>2, HeadTailConcat DEF y
    <2> QED  BY <1>6, <2>2, <2>3
  <1>8. ASSUME rh[c] \notin {"test", "push"}, sbuf[c] # <<>>
        PROVE  Head(sbuf[c]).id = n + (m + 1)
    <2>1. Held(c) = <<>>
      BY <1>8 DEF Held
    <2>2. y = sbuf[c] \o (chunk[c] \o c2s[c])
      BY <1>1, <2>1, ConcatEmptySeq DEF y
    <2>3. y # <<>> /\ Head(y) = Head(sbuf[c])
      BY ZenonT(60), <1>1, <1>8, <2>2, HeadTailConcat
    <2> QED  BY <1>6, <2>3
  <1> QED  BY <1>5, <1>7, <1>8 DEF q, m

\* What is left of the k-th reply of the queue.
Left(c, k) == Drop(ReplyTo(queue[c][k]), IF k = 1 THEN written[c] ELSE 0)

\* What OwedBy() finds: the reply of the one queued request with that id, ...
LEMMA OwedQueued ==
    ASSUME TypeInv, NEW c \in Conns, OrderInv(c), NEW k \in 1..Len(queue[c])
    PROVE  OwedBy(c, queue[c][k].id) = Left(c, k)
  <1> DEFINE q == queue[c]
             i == q[k].id
             parts == [j \in DOMAIN q |->
                         IF q[j].id # i THEN <<>>
                         ELSE Drop(ReplyTo(q[j]), IF j = 1 THEN written[c] ELSE 0)]
             held == IF rh[c] \in {"test", "push"} /\ cur[c].id = i
                     THEN ReplyTo(cur[c]) ELSE <<>>
             mine == {j \in DOMAIN parts : parts[j] # <<>>}
  <1>1. OwedBy(c, i) = IF mine = {} THEN held ELSE parts[CHOOSE j \in mine : TRUE]
    BY DEF OwedBy
  <1>2. PICK n \in Nat :
           /\ \A j \in 1..Len(q) : q[j].id = n + j
           /\ rh[c] \in {"test", "push"} => cur[c].id = n + (Len(q) + 1)
    BY QueueIds
  <1>3. DOMAIN q = 1..Len(q) /\ Len(q) \in Nat
    BY SessionTypes, LenProperties
  <1>4. \A j \in DOMAIN q : q[j].id = i => j = k
    <2> HIDE DEF q
    <2>1. i = n + k
      BY <1>2 DEF q
    <2> HIDE DEF i
    <2> QED  BY <1>2, <1>3, <2>1
  <1>5. held = <<>>
    <2>1. ASSUME rh[c] \in {"test", "push"} PROVE cur[c].id # i
      <3>1. cur[c].id = n + (Len(q) + 1) /\ i = n + k
        BY <1>2, <2>1
      <3> HIDE DEF q, i
      <3>2. k \in 1..Len(q)
        BY DEF q
      <3> QED  BY <3>1, <3>2, <1>3
    <2> QED  BY <2>1
  <1>6. parts[k] = Left(c, k) /\ k \in DOMAIN parts
    <2>1. k \in DOMAIN q /\ q[k].id = i
      BY <1>3
    <2> HIDE DEF i, q
    <2>2. parts[k] = Drop(ReplyTo(q[k]), IF k = 1 THEN written[c] ELSE 0)
      BY <2>1
    <2> QED  BY <2>1, <2>2 DEF Left, q
  <1>7. \A j \in DOMAIN parts : j # k => parts[j] = <<>>
    <2> HIDE DEF i, q
    <2> QED  BY <1>4
  <1> HIDE DEF parts, held, i
  <1>8. CASE Left(c, k) = <<>>
    <2>1. mine = {}
      BY <1>6, <1>7, <1>8
    <2> QED  BY <1>1, <1>5, <1>8, <2>1 DEF i
  <1>9. CASE Left(c, k) # <<>>
    <2>1. mine = {k}
      BY <1>6, <1>7, <1>9
    <2>2. (CHOOSE j \in mine : TRUE) = k
      BY <2>1
    <2> QED  BY <1>1, <1>6, <2>1, <2>2 DEF i
  <1> QED  BY <1>8, <1>9

\* ... or the reply that is held, or nothing.
LEMMA OwedElse ==
    ASSUME TypeInv, NEW c \in Conns, NEW i,
           \A k \in 1..Len(queue[c]) : queue[c][k].id # i
    PROVE  OwedBy(c, i) = IF rh[c] \in {"test", "push"} /\ cur[c].id = i
                          THEN ReplyTo(cur[c]) ELSE <<>>
  <1> DEFINE q == queue[c]
             parts == [j \in DOMAIN q |->
                         IF q[j].id # i THEN <<>>
                         ELSE Drop(ReplyTo(q[j]), IF j = 1 THEN written[c] ELSE 0)]
             mine == {j \in DOMAIN parts : parts[j] # <<>>}
  <1>1. OwedBy(c, i) = IF mine = {} THEN IF rh[c] \in {"test", "push"} /\ cur[c].id = i
                                         THEN ReplyTo(cur[c]) ELSE <<>>
                       ELSE parts[CHOOSE j \in mine : TRUE]
    BY DEF OwedBy
  <1>2. DOMAIN q = 1..Len(q)
    BY SessionTypes, LenProperties
  <1>3. mine = {}
    BY <1>2
  <1> QED  BY <1>1, <1>3

\* The two lemmas above in one formula.
OwedSpec(c) ==
    /\ \A k \in 1..Len(queue[c]) : OwedBy(c, queue[c][k].id) = Left(c, k)
    /\ \A i \in Ids : (\A k \in 1..Len(queue[c]) : queue[c][k].id # i) =>
          OwedBy(c, i) = IF rh[c] \in {"test", "push"} /\ cur[c].id = i
                         THEN ReplyTo(cur[c]) ELSE <<>>

AllOwed == \A c \in Conns : OwedSpec(c)

\* It follows from the invariant.
LEMMA OwedIs == IInv => AllOwed
  <1> SUFFICES ASSUME IInv, NEW c \in Conns PROVE OwedSpec(c)
    BY DEF AllOwed
  <1>1. TypeInv /\ OrderInv(c)
    BY DEF IInv, SessionsInv
  <1>2. \A k \in 1..Len(queue[c]) : OwedBy(c, queue[c][k].id) = Left(c, k)
    BY <1>1, OwedQueued
  <1>3. ASSUME NEW i \in Ids, \A k \in 1..Len(queue[c]) : queue[c][k].id # i
        PROVE  OwedBy(c, i) = IF rh[c] \in {"test", "push"} /\ cur[c].id = i
                              THEN ReplyTo(cur[c]) ELSE <<>>
    BY <1>1, <1>3, OwedElse
  <1> QED  BY <1>2, <1>3 DEF OwedSpec

\* The id of a frame, and the two frames of its reply.
LEMMA ReplyParts ==
    ASSUME NEW f \in Frame
    PROVE  /\ f.id \in Ids /\ f.payload \in Text /\ END \in Text
           /\ ReplyTo(f) \in Seq(Text) /\ ReplyTo(f) = <<f.payload, END>>
           /\ Drop(ReplyTo(f), 0) = ReplyTo(f)
           /\ Drop(ReplyTo(f), 1) = <<END>> /\ Drop(ReplyTo(f), 2) = <<>>
  <1>1. f.id \in Ids /\ f.payload \in Text /\ END \in Text
    BY TransportAssumption DEF Frame
  <1>2. /\ Drop(<<f.payload, END>>, 0) = <<f.payload, END>>
        /\ Drop(<<f.payload, END>>, 1) = <<END>> /\ Drop(<<f.payload, END>>, 2) = <<>>
    BY <1>1, DropPair
  <1> QED  BY <1>1, <1>2 DEF ReplyTo

\* Decoding a request makes its reply owed.
LEMMA DecodeOwes ==
    ASSUME TypeInv, NEW c \in Conns, OrderInv(c), OwedSpec(c), OwedSpec(c)',
           ReadHandlerDecode(c), sbuf[c] # <<>>
    PROVE  /\ Head(sbuf[c]) \in Frame
           /\ \A i \in Ids :
                 OwedBy(c, i)' = IF i = Head(sbuf[c]).id
                                 THEN OwedBy(c, i) \o ReplyTo(Head(sbuf[c]))
                                 ELSE OwedBy(c, i)
  <1>1. /\ rh[c] = "decode" /\ rh'[c] = "test" /\ cur'[c] = Head(sbuf[c])
        /\ queue' = queue /\ written' = written
    BY DEF ReadHandlerDecode, TypeInv
  <1>2. PICK f \in Frame : f = Head(sbuf[c])
    BY SessionTypes, HeadTailParts
  <1>3. PICK n \in Nat :
           /\ \A k \in 1..Len(queue[c]) : queue[c][k].id = n + k
           /\ f.id = n + (Len(queue[c]) + 1)
    BY <1>1, <1>2, QueueIds
  <1>4. Len(queue[c]) \in Nat
    BY SessionTypes, LenProperties
  <1>5. \A k \in 1..Len(queue[c]) : queue[c][k].id # f.id
    BY <1>3, <1>4
  <1>6. ASSUME NEW i \in Ids
        PROVE  OwedBy(c, i)' = IF i = f.id THEN OwedBy(c, i) \o ReplyTo(f) ELSE OwedBy(c, i)
    <2>1. CASE \E k \in 1..Len(queue[c]) : queue[c][k].id = i
      <3>1. PICK k \in 1..Len(queue[c]) : queue[c][k].id = i
        BY <2>1
      <3>2. OwedBy(c, i) = Left(c, k)
        BY <3>1 DEF OwedSpec
      <3>3. OwedBy(c, i)' = Left(c, k)'
        BY <1>1, <3>1 DEF OwedSpec
      <3>4. Left(c, k)' = Left(c, k)
        BY <1>1 DEF Left
      <3> QED  BY <1>5, <3>1, <3>2, <3>3, <3>4
    <2>2. CASE \A k \in 1..Len(queue[c]) : queue[c][k].id # i
      <3>1. OwedBy(c, i) = <<>>
        BY <1>1, <2>2 DEF OwedSpec
      <3>2. OwedBy(c, i)' = IF f.id = i THEN ReplyTo(f) ELSE <<>>
        BY <1>1, <1>2, <2>2 DEF OwedSpec, ReplyTo
      <3>3. <<>> \o ReplyTo(f) = ReplyTo(f)
        BY ReplyParts, ConcatEmptySeq
      <3> QED  BY <3>1, <3>2, <3>3
    <2> QED  BY <2>1, <2>2
  <1> QED  BY <1>2, <1>6

\* Queueing a reply does not change what is owed.
LEMMA PushOwes ==
    ASSUME TypeInv, NEW c \in Conns, OrderInv(c), WrittenInv(c), OwedSpec(c), OwedSpec(c)',
           QueueWritePush(c)
    PROVE  \A i \in Ids : OwedBy(c, i)' = OwedBy(c, i)
  <1>1. /\ rh[c] = "push" /\ rh'[c] \notin {"test", "push"} /\ written' = written
        /\ queue'[c] = Append(queue[c], cur[c])
    BY DEF QueueWritePush, TypeInv, opVars
  <1> DEFINE q == queue[c]
             f == cur[c]
             m == Len(q)
  <1>2. f \in Frame /\ q \in Seq(Frame)
    BY SessionTypes
  <1>3. /\ m \in Nat /\ Len(Append(q, f)) = m + 1 /\ Append(q, f)[m + 1] = f
        /\ \A k \in 1..m : Append(q, f)[k] = q[k]
    BY <1>2, AppendParts
  <1>4. PICK n \in Nat : (\A k \in 1..m : q[k].id = n + k) /\ f.id = n + (m + 1)
    BY <1>1, QueueIds
  <1>5. \A k \in 1..m : q[k].id # f.id
    <2> HIDE DEF q, f, m
    <2> QED  BY <1>3, <1>4
  <1>6. Len(queue'[c]) = m + 1
    BY <1>1, <1>3
  <1>7. m = 0 => written[c] = 0
    BY <1>2, EmptySeq DEF WrittenInv
  <1>8. \A k \in 1..m : k \in 1..(m + 1)
    BY <1>3
  <1>9. m + 1 \in 1..(m + 1) /\ \A k \in 1..(m + 1) : k \in 1..m \/ k = m + 1
    BY <1>3
  <1> SUFFICES ASSUME NEW i \in Ids PROVE OwedBy(c, i)' = OwedBy(c, i)
    OBVIOUS
  <1>10. CASE \E k \in 1..m : q[k].id = i
    <2>1. PICK k \in 1..m : q[k].id = i
      BY <1>10
    <2>2. OwedBy(c, i) = Left(c, k)
      BY <2>1 DEF OwedSpec
    <2>3. queue'[c][k] = q[k] /\ k \in 1..Len(queue'[c])
      BY <1>1, <1>3, <1>6, <1>8
    <2>4. OwedBy(c, i)' = Left(c, k)'
      BY <2>1, <2>3 DEF OwedSpec
    <2>5. Left(c, k)' = Left(c, k)
      BY <1>1, <2>3 DEF Left, ReplyTo
    <2> QED  BY <2>2, <2>4, <2>5
  <1>11. CASE i = f.id
    <2>1. OwedBy(c, i) = ReplyTo(f)
      BY <1>1, <1>5, <1>11 DEF OwedSpec
    <2>2. PICK k \in Nat : k = m + 1
      BY <1>3
    <2>3. queue'[c][k] = f /\ k \in 1..Len(queue'[c])
      BY <1>1, <1>3, <1>6, <1>9, <2>2
    <2>4. OwedBy(c, i)' = Left(c, k)'
      BY <1>11, <2>3 DEF OwedSpec
    <2>5. Left(c, k)' = Drop(ReplyTo(f), 0)
      <3>1. (IF k = 1 THEN written'[c] ELSE 0) = 0
        BY <1>1, <1>3, <1>7, <2>2
      <3> QED  BY <2>3, <3>1 DEF Left, ReplyTo
    <2> QED  BY <1>2, <2>1, <2>4, <2>5, ReplyParts
  <1>12. CASE i # f.id /\ \A k \in 1..m : q[k].id # i
    <2>1. OwedBy(c, i) = <<>>
      BY <1>12 DEF OwedSpec
    <2>2. \A k \in 1..Len(queue'[c]) : queue'[c][k].id # i
      BY <1>1, <1>3, <1>6, <1>9, <1>12
    <2>3. OwedBy(c, i)' = <<>>
      BY <1>1, <2>2 DEF OwedSpec
    <2> QED  BY <2>1, <2>3
  <1> QED  BY <1>10, <1>11, <1>12

\* Writing a frame of the front reply pays the first of what is owed for it.
LEMMA WriteOwes ==
    ASSUME TypeInv, NEW c \in Conns, SessionInv(c), WrittenInv(c),
           OwedSpec(c), OwedSpec(c)', WriteFrame(c)
    PROVE  \E i \in Ids :
              /\ i = ReplyFrame(c).id /\ OwedBy(c, i) # <<>>
              /\ Head(OwedBy(c, i)) = ReplyFrame(c).payload
              /\ OwedBy(c, i)' = Tail(OwedBy(c, i))
              /\ \A j \in Ids : j # i => OwedBy(c, j)' = OwedBy(c, j)
  <1>1. /\ writeOp[c] = "pending" /\ UNCHANGED <<queue, rh, cur>>
        /\ written'[c] = written[c] + 1
    BY DEF WriteFrame, TypeInv, sessVars
  <1>2. /\ queue[c] # <<>> /\ Head(queue[c]) \in Frame /\ written[c] \in {0, 1}
        /\ ReplyFrame(c).id = Head(queue[c]).id
        /\ ReplyFrame(c).payload = IF written[c] = 0 THEN Head(queue[c]).payload ELSE END
    BY <1>1, ReplyFrameType
  <1>3. PICK f \in Frame : f = Head(queue[c])
    BY <1>2
  <1>4. 1 \in 1..Len(queue[c]) /\ queue[c][1] = f
    <2>1. queue[c] \in Seq(Frame)
      BY SessionTypes
    <2>2. Len(queue[c]) \in Nat /\ Len(queue[c]) >= 1 /\ Head(queue[c]) = queue[c][1]
      BY <1>2, <2>1, HeadTailParts
    <2> QED  BY <1>3, <2>2
  <1>5. PICK i \in Ids : i = f.id
    BY <1>3, ReplyParts
  <1>6. OwedBy(c, i) = Drop(ReplyTo(f), written[c])
    BY <1>4, <1>5 DEF OwedSpec, Left
  <1>7. OwedBy(c, i)' = Drop(ReplyTo(f), written[c] + 1)
    <2>1. OwedBy(c, i)' = Left(c, 1)'
      BY <1>1, <1>4, <1>5 DEF OwedSpec
    <2> QED  BY <1>1, <1>4, <2>1 DEF Left, ReplyTo
  <1>8. /\ OwedBy(c, i) # <<>>
        /\ Head(OwedBy(c, i)) = IF written[c] = 0 THEN f.payload ELSE END
        /\ OwedBy(c, i)' = Tail(OwedBy(c, i))
    <2>0. /\ ReplyTo(f) = <<f.payload, END>> /\ Drop(ReplyTo(f), 0) = ReplyTo(f)
          /\ Drop(ReplyTo(f), 1) = <<END>> /\ Drop(ReplyTo(f), 2) = <<>>
      BY ReplyParts
    <2>1. CASE written[c] = 0
      <3>1. OwedBy(c, i) = <<f.payload, END>> /\ OwedBy(c, i)' = <<END>>
        BY <1>6, <1>7, <2>0, <2>1
      <3> QED  BY <2>1, <3>1
    <2>2. CASE written[c] = 1
      <3>1. OwedBy(c, i) = <<END>> /\ OwedBy(c, i)' = <<>>
        BY <1>6, <1>7, <2>0, <2>2
      <3> QED  BY <2>2, <3>1
    <2> QED  BY <1>2, <2>1, <2>2
  <1>9. ASSUME NEW j \in Ids, j # i PROVE OwedBy(c, j)' = OwedBy(c, j)
    <2>1. CASE \E k \in 1..Len(queue[c]) : queue[c][k].id = j
      <3>1. PICK k \in 1..Len(queue[c]) : queue[c][k].id = j
        BY <2>1
      <3>2. k # 1
        BY <1>4, <1>5, <1>9, <3>1
      <3>3. OwedBy(c, j) = Left(c, k) /\ OwedBy(c, j)' = Left(c, k)'
        BY <1>1, <3>1 DEF OwedSpec
      <3>4. Left(c, k)' = Left(c, k)
        BY <1>1, <3>2 DEF Left
      <3> QED  BY <3>3, <3>4
    <2>2. CASE \A k \in 1..Len(queue[c]) : queue[c][k].id # j
      BY <1>1, <2>2 DEF OwedSpec, ReplyTo
    <2> QED  BY <2>1, <2>2
  <1> QED  BY <1>2, <1>3, <1>5, <1>8, <1>9

\* Popping a reply that is written does not change what is owed.
LEMMA PopOwes ==
    ASSUME TypeInv, NEW c \in Conns, OrderInv(c), SessionInv(c), WrittenInv(c),
           OwedSpec(c), OwedSpec(c)', WriteHandlerPop(c)
    PROVE  \A i \in Ids : OwedBy(c, i)' = OwedBy(c, i)
  <1>1. /\ wh[c] = "pop" /\ rh[c] = "off" /\ rh' = rh /\ written[c] = 2 /\ written'[c] = 0
        /\ queue[c] # <<>> /\ queue'[c] = Tail(queue[c])
    BY DEF WriteHandlerPop, TypeInv, SessionInv, WrittenInv
  <1>2. PICK q \in Seq(Frame) : q = queue[c]
    BY SessionTypes
  <1>3. PICK m \in Nat : m = Len(q)
    BY <1>2, LenProperties
  <1>4. /\ m >= 1 /\ q[1] \in Frame /\ Len(Tail(q)) = m - 1
        /\ \A k \in 1..(m - 1) : Tail(q)[k] = q[k + 1]
    BY <1>1, <1>2, <1>3, HeadTailParts
  <1>5. PICK n \in Nat : \A k \in 1..m : q[k].id = n + k
    BY <1>2, <1>3, QueueIds
  <1>6. queue'[c] = Tail(q) /\ Len(queue'[c]) = m - 1
    BY <1>1, <1>2, <1>4
  <1>7. \A k \in 1..(m - 1) : k + 1 \in 1..m /\ k + 1 # 1
    BY <1>3
  <1> SUFFICES ASSUME NEW i \in Ids PROVE OwedBy(c, i)' = OwedBy(c, i)
    OBVIOUS
  <1>8. CASE i = q[1].id
    <2>1. OwedBy(c, i) = Drop(ReplyTo(q[1]), 2)
      <3>1. 1 \in 1..m
        BY <1>3, <1>4
      <3> QED  BY <1>1, <1>2, <1>3, <1>8, <3>1 DEF OwedSpec, Left
    <2>2. OwedBy(c, i) = <<>>
      BY <1>4, <2>1, ReplyParts
    <2>3. \A k \in 1..(m - 1) : q[k + 1].id # i
      <3>1. 1 \in 1..m
        BY <1>3, <1>4
      <3> QED  BY <1>3, <1>5, <1>7, <1>8, <3>1
    <2>4. \A k \in 1..Len(queue'[c]) : queue'[c][k].id # i
      BY <1>4, <1>6, <2>3
    <2>5. OwedBy(c, i)' = <<>>
      BY <1>1, <2>4 DEF OwedSpec
    <2> QED  BY <2>2, <2>5
  <1>9. CASE \E k \in 1..m : k # 1 /\ q[k].id = i
    <2>1. PICK k \in 1..m : k # 1 /\ q[k].id = i
      BY <1>9
    <2>2. PICK j \in 1..(m - 1) : j + 1 = k
      BY <2>1, <1>3
    <2>3. OwedBy(c, i) = Drop(ReplyTo(q[k]), 0)
      BY <1>2, <1>3, <2>1 DEF OwedSpec, Left
    <2>4. queue'[c][j] = q[k] /\ j \in 1..Len(queue'[c])
      BY <1>4, <1>6, <2>2
    <2>5. OwedBy(c, i)' = Left(c, j)'
      BY <2>1, <2>4 DEF OwedSpec
    <2>6. Left(c, j)' = Drop(ReplyTo(q[k]), 0)
      BY <1>1, <2>4 DEF Left, ReplyTo
    <2> QED  BY <2>3, <2>5, <2>6
  <1>10. CASE \A k \in 1..m : q[k].id # i
    <2>1. OwedBy(c, i) = <<>>
      BY <1>1, <1>2, <1>3, <1>10 DEF OwedSpec
    <2>2. \A k \in 1..Len(queue'[c]) : queue'[c][k].id # i
      BY <1>4, <1>6, <1>7, <1>10
    <2>3. OwedBy(c, i)' = <<>>
      BY <1>1, <2>2 DEF OwedSpec
    <2> QED  BY <2>1, <2>3
  <1> QED  BY <1>8, <1>9, <1>10

\* What is owed on a connection depends on the queue, on what is written of
\* its front and on the request that is held.
LEMMA QuietOwes ==
    ASSUME NEW c \in Conns, OwedSpec(c), OwedSpec(c)',
           queue'[c] = queue[c], written'[c] = written[c], cur'[c] = cur[c],
           rh'[c] \in {"test", "push"} <=> rh[c] \in {"test", "push"}
    PROVE  \A i \in Ids : OwedBy(c, i)' = OwedBy(c, i)
  <1> SUFFICES ASSUME NEW i \in Ids PROVE OwedBy(c, i)' = OwedBy(c, i)
    OBVIOUS
  <1>1. CASE \E k \in 1..Len(queue[c]) : queue[c][k].id = i
    <2>1. PICK k \in 1..Len(queue[c]) : queue[c][k].id = i
      BY <1>1
    <2>2. OwedBy(c, i) = Left(c, k) /\ OwedBy(c, i)' = Left(c, k)'
      BY <2>1 DEF OwedSpec
    <2>3. Left(c, k)' = Left(c, k)
      BY DEF Left, ReplyTo
    <2> QED  BY <2>2, <2>3
  <1>2. CASE \A k \in 1..Len(queue[c]) : queue[c][k].id # i
    BY <1>2 DEF OwedSpec, ReplyTo
  <1> QED  BY <1>1, <1>2

\* A step of one session changes what it owes and has pending, or nothing.
LEMMA OneSessionShows ==
    ASSUME TypeInv, NEW c \in Conns, SessionNext(c),
           \A d \in Conns : OwedSpec(d), \A d \in Conns : OwedSpec(d)'
    PROVE  /\ broken' = broken
           /\ \A d \in Conns : d # c => /\ s2c'[d] = s2c[d]
                                        /\ Pending'[d] = Pending[d]
                                        /\ \A i \in Ids : OwedBy(d, i)' = OwedBy(d, i)
  <1>1. broken' = broken
    BY DEF SessionNext, ReadCompletes, WriteFrame, WriteFails, ReadHandlerError,
       ReadHandler, ReadHandlerDecode, QueueWriteTest, QueueWritePush, QueueWriteStart,
       WriteHandlerError, WriteHandler, WriteHandlerPop, WriteHandlerNext, netVars
  <1>2. ASSUME NEW d \in Conns, d # c
        PROVE  /\ s2c'[d] = s2c[d] /\ Pending'[d] = Pending[d]
               /\ \A i \in Ids : OwedBy(d, i)' = OwedBy(d, i)
    <2>1. Untouched(d) /\ c2s'[d] = c2s[d] /\ s2c'[d] = s2c[d]
      BY <1>2, OneSession
    <2>2. Pending'[d] = Pending[d]
      BY <2>1 DEF Untouched, Pending
    <2>3. \A i \in Ids : OwedBy(d, i)' = OwedBy(d, i)
      BY <2>1, QuietOwes DEF Untouched
    <2> QED  BY <2>1, <2>2, <2>3
  <1> QED  BY <1>1, <1>2

\* What is pending on a connection, as one sequence of frames.
LEMMA PendingParts ==
    ASSUME TypeInv, NEW c \in Conns
    PROVE  /\ Pending[c] = (sbuf[c] \o chunk[c]) \o c2s[c]
           /\ Pending[c] = sbuf[c] \o (chunk[c] \o c2s[c])
           /\ Pending[c] \in Seq(Frame) /\ sbuf[c] \o chunk[c] \in Seq(Frame)
  <1>1. sbuf[c] \in Seq(Frame) /\ chunk[c] \in Seq(Frame) /\ c2s[c] \in Seq(Frame)
    BY SessionTypes
  <1>2. \A x, y, z \in Seq(Frame) : /\ x \o y \in Seq(Frame)
                                    /\ (x \o y) \o z = x \o (y \o z)
    BY ConcatProperties, ConcatAssociative
  <1>3. Pending[c] = (sbuf[c] \o chunk[c]) \o c2s[c]
    BY DEF Pending
  <1>4. PICK x \in Seq(Frame), y \in Seq(Frame), z \in Seq(Frame) :
           x = sbuf[c] /\ y = chunk[c] /\ z = c2s[c]
    BY <1>1
  <1>5. /\ x \o y \in Seq(Frame) /\ (x \o y) \o z \in Seq(Frame)
        /\ (x \o y) \o z = x \o (y \o z)
    BY SMTT(30), <1>2
  <1> QED  BY <1>3, <1>4, <1>5

\* Reading moves frames from the connection to the session, in order.
LEMMA ReadingIsQuiet ==
    ASSUME TypeInv, NEW c \in Conns, SessionInv(c), ReadCompletes(c) \/ ReadHandler(c)
    PROVE  /\ Pending'[c] = Pending[c] /\ s2c' = s2c
           /\ queue' = queue /\ written' = written /\ cur' = cur
           /\ rh'[c] \notin {"test", "push"} <=> rh[c] \notin {"test", "push"}
  <1>1. /\ sbuf[c] \in Seq(Frame) /\ chunk[c] \in Seq(Frame) /\ c2s[c] \in Seq(Frame)
        /\ <<>> \in Seq(Frame)
    BY SessionTypes
  <1>2. \A x, y, z \in Seq(Frame) : /\ x \o y \in Seq(Frame) /\ x \o <<>> = x
                                    /\ <<>> \o x = x
                                    /\ (x \o y) \o z = x \o (y \o z)
    BY SMTT(30), ConcatProperties, ConcatAssociative, ConcatEmptySeq
  <1>3. Pending'[c] = (sbuf'[c] \o chunk'[c]) \o c2s'[c]
    BY DEF Pending
  <1>4. Pending[c] = (sbuf[c] \o chunk[c]) \o c2s[c]
    BY DEF Pending
  <1>5. CASE ReadCompletes(c)
    <2>1. UNCHANGED <<queue, written, cur, s2c, rh, sbuf>>
      BY <1>5 DEF ReadCompletes, sessVars
    <2>2. CASE UNCHANGED <<chunk, c2s>>
      BY <1>3, <1>4, <2>1, <2>2
    <2>3. CASE ~UNCHANGED <<chunk, c2s>>
      <3>1. PICK n \in 0..Len(c2s[c]) : /\ chunk'[c] = Keep(c2s[c], n)
                                        /\ c2s'[c] = Drop(c2s[c], n)
        BY <1>5, <2>3 DEF ReadCompletes, TypeInv, NetTypeOK
      <3>2. chunk[c] = <<>>
        BY <1>5 DEF ReadCompletes, SessionInv
      <3>3. /\ Keep(c2s[c], n) \in Seq(Frame) /\ Drop(c2s[c], n) \in Seq(Frame)
            /\ Keep(c2s[c], n) \o Drop(c2s[c], n) = c2s[c]
        BY <1>1, KeepDropType, KeepThenDrop
      <3>4. Pending'[c] = sbuf[c] \o (Keep(c2s[c], n) \o Drop(c2s[c], n))
        <4>1. PICK x \in Seq(Frame), y \in Seq(Frame), z \in Seq(Frame) :
                 x = sbuf[c] /\ y = Keep(c2s[c], n) /\ z = Drop(c2s[c], n)
          BY <1>1, <3>3
        <4>2. (x \o y) \o z = x \o (y \o z)
          BY <1>2
        <4> QED  BY <1>3, <2>1, <3>1, <4>1, <4>2
      <3>5. Pending[c] = sbuf[c] \o c2s[c]
        BY <1>1, <1>2, <1>4, <3>2
      <3> QED  BY <2>1, <3>3, <3>4, <3>5
    <2> QED  BY <2>2, <2>3
  <1>6. CASE ReadHandler(c)
    <2>1. /\ UNCHANGED <<queue, written, cur, s2c, c2s>>
          /\ sbuf'[c] = sbuf[c] \o chunk[c] /\ chunk'[c] = <<>>
          /\ rh[c] = "off" /\ rh'[c] = "decode"
      BY <1>6 DEF ReadHandler, TypeInv, netVars, StrandFree
    <2>2. Pending'[c] = ((sbuf[c] \o chunk[c]) \o <<>>) \o c2s[c]
      BY <1>3, <2>1
    <2>3. (sbuf[c] \o chunk[c]) \o <<>> = sbuf[c] \o chunk[c]
      BY <1>1, <1>2
    <2> QED  BY <1>4, <2>1, <2>2, <2>3
  <1> QED  BY <1>5, <1>6

\* Every step of a session is a step of the peer, or invisible.
LEMMA SessionLikePeer ==
    ASSUME TypeInv, NEW c \in Conns, SessionInv(c), WrittenInv(c), OrderInv(c),
           \A d \in Conns : OwedSpec(d), \A d \in Conns : OwedSpec(d)',
           SessionNext(c)
    PROVE  Peer!PeerStep \/ UNCHANGED Peer!peerVars
  <1>1. /\ broken' = broken
        /\ \A d \in Conns : d # c => /\ s2c'[d] = s2c[d]
                                     /\ Pending'[d] = Pending[d]
                                     /\ \A i \in Ids : OwedBy(d, i)' = OwedBy(d, i)
    BY OneSessionShows
  <1>2. ASSUME \A i \in Ids : OwedBy(c, i)' = OwedBy(c, i),
               Pending'[c] = Pending[c], s2c' = s2c
        PROVE  UNCHANGED Peer!peerVars
    <2>1. \A d \in Conns : Pending'[d] = Pending[d]
      BY <1>1, <1>2
    <2>2. Pending' = Pending
      BY <2>1 DEF Pending
    <2>3. \A d \in Conns : \A i \in Ids : OwedBy(d, i)' = OwedBy(d, i)
      BY <1>1, <1>2
    <2>4. Owed' = Owed
      BY <2>3 DEF Owed
    <2> QED  BY <1>1, <1>2, <2>2, <2>4, PeerQuiet
  <1>3. ASSUME queue'[c] = queue[c], written'[c] = written[c], cur'[c] = cur[c],
               rh'[c] \in {"test", "push"} <=> rh[c] \in {"test", "push"}
        PROVE  \A i \in Ids : OwedBy(c, i)' = OwedBy(c, i)
    BY <1>3, QuietOwes
  <1>4. CASE ReadCompletes(c) \/ ReadHandler(c)
    <2>1. /\ Pending'[c] = Pending[c] /\ s2c' = s2c
          /\ queue' = queue /\ written' = written /\ cur' = cur
          /\ rh'[c] \notin {"test", "push"} <=> rh[c] \notin {"test", "push"}
      BY <1>4, ReadingIsQuiet
    <2> QED  BY <1>2, <1>3, <2>1
  <1>5. CASE WriteFrame(c)
    <2>1. PICK i \in Ids :
              /\ i = ReplyFrame(c).id /\ OwedBy(c, i) # <<>>
              /\ Head(OwedBy(c, i)) = ReplyFrame(c).payload
              /\ OwedBy(c, i)' = Tail(OwedBy(c, i))
              /\ \A j \in Ids : j # i => OwedBy(c, j)' = OwedBy(c, j)
      BY <1>5, WriteOwes
    <2>2. Pending' = Pending
      BY <1>5 DEF WriteFrame, sessVars, Pending
    <2>3. Owed[c][i] = OwedBy(c, i)
      BY DEF Owed
    <2>4. Owed' = [Owed EXCEPT ![c][i] = Tail(@)]
      <3>1. \A d \in Conns : \A j \in Ids :
               OwedBy(d, j)' = IF d = c /\ j = i THEN Tail(OwedBy(d, j)) ELSE OwedBy(d, j)
        BY <1>1, <2>1
      <3> QED  BY <3>1 DEF Owed
    <2>5. CASE broken[c]
      <3>1. s2c' = s2c
        BY <1>5, <2>5 DEF WriteFrame
      <3> QED  BY <1>1, <2>1, <2>2, <2>3, <2>4, <2>5, <3>1, PeerDrops
    <2>6. CASE ~broken[c]
      <3>1. /\ Len(s2c[c]) < RecvCap
            /\ s2c' = [s2c EXCEPT ![c] = Append(@, ReplyFrame(c))]
        BY <1>5, <2>6 DEF WriteFrame, ReplyFrame
      <3>2. ReplyFrame(c) = [id |-> i, payload |-> Head(Owed[c][i])]
        BY <2>1, <2>3 DEF ReplyFrame
      <3> QED  BY <1>1, <2>1, <2>2, <2>3, <2>4, <2>6, <3>1, <3>2, PeerReplies
    <2> QED  BY <2>5, <2>6
  <1>6. CASE ReadHandlerDecode(c) /\ sbuf[c] # <<>>
    <2>0. /\ sbuf'[c] = Tail(sbuf[c]) /\ sbuf' = [sbuf EXCEPT ![c] = Tail(@)]
          /\ UNCHANGED <<chunk, c2s, s2c>>
      BY <1>6 DEF ReadHandlerDecode, netVars, TypeInv
    <2>1. PICK f \in Frame :
            /\ f = Head(sbuf[c])
            /\ \A i \in Ids : OwedBy(c, i)' = IF i = f.id THEN OwedBy(c, i) \o ReplyTo(f)
                                              ELSE OwedBy(c, i)
      BY <1>6, DecodeOwes
    <2>2. Pending[c] # <<>> /\ Head(Pending[c]) = f /\ Pending'[c] = Tail(Pending[c])
      <3>1. PICK x \in Seq(Frame), y \in Seq(Frame), z \in Seq(Frame) :
               x = sbuf[c] /\ y = chunk[c] /\ z = c2s[c]
        BY SessionTypes
      <3>2. \A s, t \in Seq(Frame) : s \o t \in Seq(Frame)
        BY ConcatProperties
      <3>3. x \o y # <<>> /\ Head(x \o y) = f /\ Tail(x \o y) = Tail(x) \o y
        BY <1>6, <2>1, <3>1, HeadTailConcat
      <3>4. /\ (x \o y) \o z # <<>> /\ Head((x \o y) \o z) = f
            /\ Tail((x \o y) \o z) = (Tail(x) \o y) \o z
        <4>1. PICK w \in Seq(Frame) : w = x \o y
          BY <3>2
        <4>2. w # <<>> /\ Head(w) = f /\ Tail(w) = Tail(x) \o y
          BY <3>3, <4>1
        <4>3. w \o z # <<>> /\ Head(w \o z) = Head(w) /\ Tail(w \o z) = Tail(w) \o z
          BY <4>2, HeadTailConcat
        <4> QED  BY <4>1, <4>2, <4>3
      <3>5. Pending[c] = (x \o y) \o z /\ Pending'[c] = (Tail(x) \o y) \o z
        BY <2>0, <3>1 DEF Pending
      <3> QED  BY <3>4, <3>5
    <2>3. Pending' = [Pending EXCEPT ![c] = Tail(@)]
      <3>1. \A d \in Conns : Pending'[d] = IF d = c THEN Tail(Pending[d]) ELSE Pending[d]
        BY <1>1, <2>2
      <3> QED  BY <3>1 DEF Pending
    <2>4. Owed' = [Owed EXCEPT ![c][f.id] = @ \o <<f.payload, END>>]
      <3>1. f.id \in Ids /\ ReplyTo(f) = <<f.payload, END>>
        BY ReplyParts
      <3>2. \A d \in Conns : \A j \in Ids :
               OwedBy(d, j)' = IF d = c /\ j = f.id THEN OwedBy(d, j) \o <<f.payload, END>>
                               ELSE OwedBy(d, j)
        BY <1>1, <2>1, <3>1
      <3> QED  BY <3>1, <3>2 DEF Owed
    <2> QED  BY <1>1, <2>0, <2>2, <2>3, <2>4, PeerTakes
  <1>7. CASE QueueWritePush(c)
    <2>1. Pending' = Pending /\ s2c' = s2c
      BY <1>7 DEF QueueWritePush, opVars, netVars, Pending
    <2> QED  BY <1>2, <1>7, <2>1, PushOwes
  <1>8. CASE WriteHandlerPop(c)
    <2>1. Pending' = Pending /\ s2c' = s2c
      BY <1>8 DEF WriteHandlerPop, netVars, Pending
    <2> QED  BY <1>2, <1>8, <2>1, PopOwes
  <1>9. CASE \/ WriteFails(c) \/ ReadHandlerError(c) \/ QueueWriteTest(c)
             \/ QueueWriteStart(c) \/ WriteHandlerError(c) \/ WriteHandler(c)
             \/ WriteHandlerNext(c) \/ (ReadHandlerDecode(c) /\ sbuf[c] = <<>>)
    <2>1. /\ UNCHANGED <<sbuf, chunk, c2s, s2c, queue, written, cur>>
          /\ rh'[c] \in {"test", "push"} <=> rh[c] \in {"test", "push"}
      <3> USE DEF sessVars, opVars, netVars, TypeInv
      <3>1. CASE WriteFails(c) \/ ReadHandlerError(c)
        BY <3>1 DEF WriteFails, ReadHandlerError
      <3>2. CASE QueueWriteTest(c)
        BY <3>2 DEF QueueWriteTest
      <3>3. CASE QueueWriteStart(c)
        BY <3>3 DEF QueueWriteStart, DoWrite
      <3>4. CASE WriteHandlerError(c) \/ WriteHandler(c)
        BY <3>4 DEF WriteHandlerError, WriteHandler
      <3>5. CASE WriteHandlerNext(c)
        BY <3>5 DEF WriteHandlerNext, DoWrite
      <3>6. CASE ReadHandlerDecode(c) /\ sbuf[c] = <<>>
        BY <3>6 DEF ReadHandlerDecode
      <3> QED  BY <1>9, <3>1, <3>2, <3>3, <3>4, <3>5, <3>6
    <2>2. Pending' = Pending
      BY <2>1 DEF Pending
    <2> QED  BY <1>2, <1>3, <2>1, <2>2
  <1> QED  BY <1>4, <1>5, <1>6, <1>7, <1>8, <1>9 DEF SessionNext

\* What clients do, and what ends the server, are steps of the peer too.
LEMMA OthersLikePeer ==
    ASSUME TypeInv, TypeInv', NEW c \in Conns,
           \A d \in Conns : OwedSpec(d), \A d \in Conns : OwedSpec(d)',
           \/ Accept \/ AcceptError \/ AcceptThrows \/ StopSignal
           \/ ConnectClient(c) \/ (ClientStep(c) /\ UNCHANGED srvVars)
           \/ UNCHANGED vars
    PROVE  Peer!PeerStep \/ UNCHANGED Peer!peerVars
  <1>1. UNCHANGED <<sbuf, chunk, queue, written, cur, rh>>
    BY DEF Accept, AcceptError, AcceptThrows, StopSignal, ConnectClient, ClientStep, vars,
       srvVars, sessVars, opVars
  <1>2. Owed' = Owed
    <2>1. \A d \in Conns : \A i \in Ids : OwedBy(d, i)' = OwedBy(d, i)
      BY <1>1, QuietOwes
    <2> QED  BY <2>1 DEF Owed
  <1>3. \A d \in Conns : /\ Pending[d] = (sbuf[d] \o chunk[d]) \o c2s[d]
                         /\ Pending'[d] = (sbuf[d] \o chunk[d]) \o c2s'[d]
                         /\ sbuf[d] \o chunk[d] \in Seq(Frame)
                         /\ Pending[d] \in Seq(Frame)
    BY <1>1, PendingParts DEF Pending
  <1>4. CASE \/ Accept \/ AcceptError \/ ConnectClient(c) \/ UNCHANGED vars
    <2>1. UNCHANGED <<c2s, s2c, broken>>
      BY <1>4 DEF Accept, AcceptError, ConnectClient, Connect, netVars, vars
    <2>2. Pending' = Pending
      BY <1>1, <2>1 DEF Pending
    <2> QED  BY <1>2, <2>1, <2>2, PeerQuiet
  <1>5. CASE AcceptThrows \/ StopSignal
    <2>1. UNCHANGED <<c2s, s2c>> /\ broken' = [d \in Conns |-> TRUE]
      BY <1>5 DEF AcceptThrows, StopSignal
    <2>2. Pending' = Pending
      BY <1>1, <2>1 DEF Pending
    <2>3. ASSUME NEW d \in Conns
          PROVE  /\ \E n \in 0..Len(Pending[d]) : Pending'[d] = Keep(Pending[d], n)
                 /\ \E n \in 0..Len(s2c[d]) : s2c'[d] = Keep(s2c[d], n)
      <3>1. s2c[d] \in Seq(Frame) /\ Pending[d] \in Seq(Frame)
        BY <1>3, SessionTypes
      <3>2. \A s \in Seq(Frame) : Keep(s, Len(s)) = s /\ Len(s) \in 0..Len(s)
        BY KeepDropEnds
      <3>3. \A s \in Seq(Frame) : \E n \in 0..Len(s) : s = Keep(s, n)
        BY <3>2
      <3> QED  BY <2>1, <2>2, <3>1, <3>3
    <2> QED  BY <1>2, <2>1, <2>3, PeerBreaks
  <1>6. CASE Ask(c)
    <2>1. /\ UNCHANGED <<s2c, broken>>
          /\ \E f : c2s' = [c2s EXCEPT ![c] = Append(@, f)]
      BY <1>6 DEF Ask
    <2>2. PICK text \in Text :
             c2s' = [c2s EXCEPT ![c] = Append(@, [id |-> Len(asked[c]) + 1, payload |-> text])]
      BY <1>6 DEF Ask
    <2>3. PICK f \in Frame : f = [id |-> Len(asked[c]) + 1, payload |-> text]
      <3>1. Len(asked[c]) \in Nat /\ Len(asked[c]) < MaxId
        BY <1>6, SessionTypes, LenProperties DEF Ask
      <3>2. Len(asked[c]) + 1 \in Ids
        BY <3>1, TransportAssumption DEF Ids
      <3> QED  BY <3>2 DEF Frame
    <2>4. c2s \in [Conns -> Seq(Frame)] /\ c2s' = [c2s EXCEPT ![c] = Append(@, f)]
      BY <2>2, <2>3 DEF TypeInv, NetTypeOK
    <2>5. Pending'[c] = Append(Pending[c], f)
      <3>1. PICK s \in Seq(Frame), t \in Seq(Frame) : s = sbuf[c] \o chunk[c] /\ t = c2s[c]
        BY <1>3, SessionTypes
      <3>2. s \o Append(t, f) = Append(s \o t, f)
        BY AppendConcat
      <3> QED  BY <1>3, <2>4, <3>1, <3>2
    <2>6. \A d \in Conns : d # c => Pending'[d] = Pending[d]
      BY <1>3, <2>4
    <2>7. Pending' = [Pending EXCEPT ![c] = Append(@, f)]
      <3>1. \A d \in Conns : Pending'[d] = IF d = c THEN Append(Pending[d], f) ELSE Pending[d]
        BY <2>5, <2>6
      <3> QED  BY <3>1 DEF Pending
    <2> QED  BY <1>2, <2>1, <2>7, PeerHears
  <1>7. CASE ReadReply(c)
    <2>1. /\ s2c[c] # <<>> /\ s2c' = [s2c EXCEPT ![c] = Tail(@)] /\ UNCHANGED <<c2s, broken>>
      BY <1>7 DEF ReadReply
    <2>2. Pending' = Pending
      BY <1>1, <2>1 DEF Pending
    <2>3. 1 \in 1..Len(s2c[c]) /\ Drop(s2c[c], 1) = Tail(s2c[c])
      BY <2>1, SessionTypes, KeepDropEnds
    <2>4. s2c' = [s2c EXCEPT ![c] = Drop(@, 1)]
      BY <2>1, <2>3
    <2> QED  BY <1>2, <2>1, <2>2, <2>3, <2>4, PeerIsRead
  <1>8. CASE Vanish(c)
    <2>1. PICK n \in 0..Len(c2s[c]) : c2s' = [c2s EXCEPT ![c] = Keep(c2s[c], n)]
      BY <1>8 DEF Vanish, BreakConnection
    <2>2. PICK m \in 0..Len(s2c[c]) : s2c' = [s2c EXCEPT ![c] = Keep(s2c[c], m)]
      BY <1>8 DEF Vanish, BreakConnection
    <2>3. broken' = [broken EXCEPT ![c] = TRUE]
      BY <1>8 DEF Vanish, BreakConnection
    <2>4. c2s \in [Conns -> Seq(Frame)] /\ s2c \in [Conns -> Seq(Frame)]
          /\ broken \in [Conns -> BOOLEAN]
      BY DEF TypeInv, NetTypeOK
    <2>5. \A s \in Seq(Frame) : \E k \in 0..Len(s) : s = Keep(s, k)
      <3>1. \A s \in Seq(Frame) : Keep(s, Len(s)) = s /\ Len(s) \in 0..Len(s)
        BY KeepDropEnds
      <3> QED  BY <3>1
    <2>6. \E k \in 0..Len(Pending[c]) : Pending'[c] = Keep(Pending[c], k)
      <3>1. PICK s \in Seq(Frame), t \in Seq(Frame) : s = sbuf[c] \o chunk[c] /\ t = c2s[c]
        BY <1>3, SessionTypes
      <3>2. \E k \in 0..Len(s \o t) : s \o Keep(t, n) = Keep(s \o t, k)
        BY ZenonT(60), <2>1, <3>1, KeepConcat
      <3>3. Pending'[c] = s \o Keep(t, n) /\ Pending[c] = s \o t
        BY <1>3, <2>1, <2>4, <3>1
      <3> QED  BY <3>2, <3>3
    <2>7. ASSUME NEW d \in Conns, d # c
          PROVE  Pending'[d] = Pending[d] /\ s2c'[d] = s2c[d] /\ broken'[d] = broken[d]
      BY <1>3, <2>1, <2>2, <2>3, <2>4, <2>7
    <2>8. broken'[c] /\ s2c'[c] = Keep(s2c[c], m)
      BY <2>2, <2>3, <2>4
    <2>9. \A d \in Conns : s2c[d] \in Seq(Frame) /\ Pending[d] \in Seq(Frame)
      BY <1>3, SessionTypes
    <2>10. \A d \in Conns :
              /\ broken[d] => broken'[d]
              /\ \E k \in 0..Len(Pending[d]) : Pending'[d] = Keep(Pending[d], k)
              /\ \E k \in 0..Len(s2c[d]) : s2c'[d] = Keep(s2c[d], k)
              /\ ~broken'[d] => Pending'[d] = Pending[d] /\ s2c'[d] = s2c[d]
      BY <2>2, <2>5, <2>6, <2>7, <2>8, <2>9
    <2> QED  BY <1>2, <2>10, PeerBreaks
  <1> QED  BY <1>4, <1>5, <1>6, <1>7, <1>8 DEF ClientStep

(***************************************************************************)
(* promise_server_asio keeps the promise of the protocol comment, for any  *)
(* number of connections, threads and requests, whatever chunks arrive and *)
(* however its clients come, read and go: each request gets its text and   *)
(* then "END", under its own id.                                           *)
(***************************************************************************)
THEOREM ServerImplementsEchoPeer == Spec => ImplementsEchoPeer
  <1>1. Init => Peer!NetInit /\ Peer!PeerInit
    <2> SUFFICES ASSUME Init PROVE Peer!NetInit /\ Peer!PeerInit
      OBVIOUS
    <2>1. Pending = [c \in Conns |-> <<>>]
      <3>1. \A c \in Conns : (sbuf[c] \o chunk[c]) \o c2s[c] = <<>>
        <4>1. <<>> \o <<>> = <<>>
          BY ConcatEmptySeq, EmptySeq
        <4> QED  BY <4>1 DEF Init, NetInit, ServerInit
      <3> QED  BY <3>1 DEF Pending
    <2>2. Owed = [c \in Conns |-> [i \in Ids |-> <<>>]]
      <3>1. ASSUME NEW c \in Conns, NEW i \in Ids PROVE OwedBy(c, i) = <<>>
        <4>1. queue[c] = <<>> /\ rh[c] = "off"
          BY DEF Init, ServerInit
        <4>2. \A k \in 1..Len(queue[c]) : queue[c][k].id # i
          BY <4>1, EmptySeq
        <4>3. OwedBy(c, i) = IF rh[c] \in {"test", "push"} /\ cur[c].id = i
                             THEN ReplyTo(cur[c]) ELSE <<>>
          BY <4>2, TypeInit, OwedElse
        <4> QED  BY <4>1, <4>3
      <3> QED  BY <3>1 DEF Owed
    <2>3. s2c = [c \in Conns |-> <<>>] /\ broken = [c \in Conns |-> FALSE]
      BY DEF Init, NetInit
    <2>4. Peer!NetInit
      BY <2>1, <2>3 DEF Peer!NetInit, Peer!Conns, Conns, Pending
    <2>5. Peer!PeerInit
      BY <2>2 DEF Peer!PeerInit, Peer!Conns, Conns, Peer!Ids, Ids, Owed
    <2> QED  BY <2>4, <2>5
  <1>2. IInv /\ AllOwed /\ (IInv /\ AllOwed)' /\ [Next]_vars
           => [Peer!PeerStep]_(Peer!peerVars)
    <2> SUFFICES ASSUME IInv, AllOwed, (IInv /\ AllOwed)', [Next]_vars
                 PROVE  Peer!PeerStep \/ UNCHANGED Peer!peerVars
      OBVIOUS
    <2>1. /\ TypeInv /\ TypeInv'
          /\ \A c \in Conns : SessionInv(c) /\ WrittenInv(c) /\ OrderInv(c)
          /\ \A c \in Conns : OwedSpec(c) /\ OwedSpec(c)'
      BY DEF IInv, SessionsInv, AllOwed
    <2>2. 1 \in Conns
      BY TransportAssumption DEF Conns
    <2>3. ASSUME NEW c \in Conns, SessionNext(c)
          PROVE  Peer!PeerStep \/ UNCHANGED Peer!peerVars
      BY <2>1, <2>3, SessionLikePeer
    <2>4. ASSUME NEW c \in Conns, ConnectClient(c) \/ (ClientStep(c) /\ UNCHANGED srvVars)
          PROVE  Peer!PeerStep \/ UNCHANGED Peer!peerVars
      BY <2>1, <2>4, OthersLikePeer
    <2>5. CASE \/ Accept \/ AcceptError \/ AcceptThrows \/ StopSignal
               \/ UNCHANGED vars
      BY <2>1, <2>2, <2>5, OthersLikePeer
    <2> QED  BY <2>3, <2>4, <2>5 DEF Next, ServerNext, AcceptNext
  <1> QED  BY <1>1, <1>2, InvariantHolds, OwedIs, PTL
              DEF Spec, ImplementsEchoPeer, Peer!PeerSpec
=============================================================================
