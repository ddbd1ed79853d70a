-------------------------- MODULE SelectServerProofs --------------------------
(***************************************************************************)
(* Proofs about promise_server serving any number of clients: its loop     *)
(* over the vector of connections never leaves the vector, and what it     *)
(* does to every connection is what EchoPeer promises.                     *)
(***************************************************************************)
EXTENDS SelectServer, StreamsProofs

SrvLabels == {"select", "accept", "recv", "decode", "echo", "end"}

\* The labels inside the loop over `connections'.
InLoop == {"recv", "decode", "echo", "end"}

TypeInv ==
    /\ NetTypeOK
    /\ backlog \in Seq(Conns)
    /\ connections \in Seq(Conns)
    /\ sbuf \in [Conns -> Seq(Frame)]
    /\ sfrag \in [Conns -> BOOLEAN]
    /\ ready \subseteq Conns \cup {Listener}
    /\ srvPc \in SrvLabels
    /\ it \in Nat
    /\ request \in Frame
    /\ srvUp \in BOOLEAN
    /\ linked \in [Conns -> BOOLEAN]
    /\ asked \in [Conns -> Seq(Text)]
    /\ seen \in [Conns -> Seq(Frame)]

\* The sockets of a sequence are different ones, all of them of clients that
\* have called connect().
Sockets(s) ==
    /\ \A j, k \in DOMAIN s : s[j] = s[k] => j = k
    /\ \A j \in DOMAIN s : linked[s[j]]

(***************************************************************************)
(* The loop's iterator is on an element; a listener that select() found    *)
(* readable has a connection to accept; and a socket is at most once in    *)
(* the backlog and in the vector together, which is what makes erasing one *)
(* element remove the socket.                                              *)
(***************************************************************************)
LoopInv ==
    /\ srvPc \in InLoop => it \in DOMAIN connections
    /\ srvPc = "accept" /\ Listener \in ready => backlog # <<>>
    /\ Sockets(connections)
    /\ Sockets(backlog)
    /\ \A j \in DOMAIN connections, k \in DOMAIN backlog :
          connections[j] # backlog[k]

-----------------------------------------------------------------------------

\* Init satisfies the invariant.
LEMMA InitInv == Init => TypeInv /\ LoopInv
  <1> SUFFICES ASSUME Init PROVE TypeInv /\ LoopInv
    OBVIOUS
  <1> USE DEF Init, NetInit, ServerInit, ClientsInit
  <1>1. \A S : <<>> \in Seq(S)
    BY EmptySeq
  <1>2. request \in Frame
    BY TransportAssumption DEF Frame, Ids
  <1>3. NetTypeOK
    BY <1>1 DEF NetTypeOK
  <1>4. TypeInv
    BY <1>1, <1>2, <1>3 DEF TypeInv, SrvLabels
  <1>5. DOMAIN connections = {} /\ DOMAIN backlog = {}
    OBVIOUS
  <1>6. LoopInv
    BY <1>5 DEF LoopInv, Sockets, InLoop
  <1> QED  BY <1>4, <1>6

\* The connection under the iterator is one of the connections.
LEMMA CurrentIsConn ==
    ASSUME TypeInv, LoopInv, srvPc \in InLoop
    PROVE  it \in 1..Len(connections) /\ Current \in Conns
  <1>1. connections \in Seq(Conns) /\ it \in DOMAIN connections
    BY DEF TypeInv, LoopInv
  <1>2. DOMAIN connections = 1..Len(connections)
    BY <1>1, LenProperties
  <1> QED  BY <1>1, <1>2, ElementOfSeq DEF Current

\* What a recv_some() leaves in the stream and adds to read_buffer.
LEMMA ReceiveTypes ==
    ASSUME NEW s \in Seq(Frame), NEW b \in Seq(Frame), NEW n \in 0..Len(s)
    PROVE  /\ Drop(s, n) \in Seq(Frame) /\ Keep(s, n) \in Seq(Frame)
           /\ b \o Keep(s, n) \in Seq(Frame)
  BY KeepDropType, ConcatProperties

\* Every step of the server keeps the types.
LEMMA ServerKeepsTypes ==
    ASSUME TypeInv, LoopInv, ServerNext, UNCHANGED clientsVars
    PROVE  TypeInv'
  <1> USE DEF TypeInv, NetTypeOK, netVars, clientsVars, AtSrv, SrvLabels
  <1>1. CASE Select
    <2>1. ready' \subseteq Conns \cup {Listener}
      <3>1. Watched \subseteq Conns
        BY ElementOfSeq, LenProperties DEF Watched
      <3> QED  BY <1>1, <3>1 DEF Select, ReadySockets
    <2> QED  BY <1>1, <2>1 DEF Select
  <1>2. CASE Accept
    <2>1. connections' \in Seq(Conns) /\ backlog' \in Seq(Conns)
      <3>1. CASE Listener \in ready
        <4>1. backlog # <<>>
          BY <1>2, <3>1 DEF Accept, LoopInv
        <4>2. Head(backlog) \in Conns /\ Tail(backlog) \in Seq(Conns)
          BY <4>1, HeadTailParts
        <4>3. Append(connections, Head(backlog)) \in Seq(Conns)
          BY <4>2, AppendProperties
        <4> QED  BY <1>2, <3>1, <4>2, <4>3 DEF Accept
      <3>2. CASE Listener \notin ready
        BY <1>2, <3>2 DEF Accept
      <3> QED  BY <3>1, <3>2
    <2> QED  BY <1>2, <2>1 DEF Accept
  <1>3. CASE Disconnect
    <2>1. it \in 1..Len(connections) /\ Current \in Conns
      BY <1>3, CurrentIsConn DEF Disconnect, InLoop
    <2>2. Keep(connections, it - 1) \o Drop(connections, it) \in Seq(Conns)
      BY <2>1, EraseParts
    <2>3. sbuf' \in [Conns -> Seq(Frame)]
      BY <1>3, <2>1, EmptySeq DEF Disconnect
    <2> QED  BY <1>3, <2>2, <2>3 DEF Disconnect
  <1>4. CASE Receive
    <2>1. Current \in Conns
      BY <1>4, CurrentIsConn DEF Receive, InLoop
    <2>2. PICK taken \in 0..Len(c2s[Current]), part \in BOOLEAN :
             /\ c2s' = [c2s EXCEPT ![Current] = Drop(@, taken)]
             /\ sfrag' = [sfrag EXCEPT ![Current] = part]
             /\ sbuf' = [sbuf EXCEPT ![Current] = @ \o Keep(c2s[Current], taken)]
      BY <1>4 DEF Receive
    <2>3. c2s[Current] \in Seq(Frame) /\ sbuf[Current] \in Seq(Frame)
      BY <2>1
    <2>4. /\ Drop(c2s[Current], taken) \in Seq(Frame)
          /\ sbuf[Current] \o Keep(c2s[Current], taken) \in Seq(Frame)
      BY <2>3, ReceiveTypes
    <2>5. c2s' \in [Conns -> Seq(Frame)] /\ sbuf' \in [Conns -> Seq(Frame)]
      BY <2>2, <2>4
    <2>6. sfrag' \in [Conns -> BOOLEAN]
      BY <2>2
    <2> QED  BY <1>4, <2>5, <2>6 DEF Receive
  <1>5. CASE SkipReceive
    BY <1>5 DEF SkipReceive
  <1>6. CASE Decode
    <2>1. Current \in Conns
      BY <1>6, CurrentIsConn DEF Decode, InLoop
    <2>2. sbuf[Current] \in Seq(Frame) /\ sbuf[Current] # <<>>
      BY <1>6, <2>1 DEF Decode
    <2>3. Head(sbuf[Current]) \in Frame /\ Tail(sbuf[Current]) \in Seq(Frame)
      BY <2>2, HeadTailParts
    <2> QED  BY <1>6, <2>1, <2>3 DEF Decode
  <1>7. CASE NextClient
    <2>1. CASE it < Len(connections)
      <3>1. it' = it + 1 /\ srvPc' = "recv"
        BY <1>7, <2>1 DEF NextClient
      <3>2. it' \in Nat
        BY <3>1
      <3> QED  BY <1>7, <3>1, <3>2 DEF NextClient
    <2>2. CASE ~(it < Len(connections))
      BY <1>7, <2>2 DEF NextClient
    <2> QED  BY <2>1, <2>2
  <1>8. ASSUME NEW payload \in Text, SendAll(payload), srvPc \in InLoop
        PROVE  NetTypeOK'
    <2>1. Current \in Conns
      BY <1>8, CurrentIsConn
    <2>2. [id |-> request.id, payload |-> payload] \in Frame
      BY <1>8 DEF Frame
    <2>3. Append(s2c[Current], [id |-> request.id, payload |-> payload]) \in Seq(Frame)
      BY <2>1, <2>2, AppendProperties
    <2> QED  BY <1>8, <2>1, <2>3 DEF SendAll
  <1>9. CASE SendEcho
    <2>1. request.payload \in Text
      BY DEF Frame
    <2> QED  BY <1>8, <1>9, <2>1 DEF SendEcho, InLoop
  <1>10. CASE SendEnd
    BY <1>8, <1>10, TransportAssumption DEF SendEnd, InLoop
  <1>11. CASE SendKilled
    BY <1>11 DEF SendKilled
  <1> QED  BY <1>1, <1>2, <1>3, <1>4, <1>5, <1>6, <1>7, <1>9, <1>10, <1>11
           DEF ServerNext

\* Every step of a client keeps the types.
LEMMA ClientsKeepTypes ==
    ASSUME TypeInv, NEW c \in Conns,
           ConnectClient(c) \/ (ClientStep(c) /\ UNCHANGED srvVars)
    PROVE  TypeInv'
  <1> USE DEF TypeInv, NetTypeOK, netVars, clientsVars, srvVars
  <1>1. CASE ConnectClient(c)
    <2>1. Append(backlog, c) \in Seq(Conns)
      BY AppendProperties
    <2> QED  BY <1>1, <2>1 DEF ConnectClient, Connect
  <1>2. CASE Ask(c) /\ UNCHANGED srvVars
    <2>1. PICK text \in Text \ {END} :
             /\ asked' = [asked EXCEPT ![c] = Append(@, text)]
             /\ c2s' = [c2s EXCEPT ![c] =
                           Append(@, [id |-> Len(asked[c]) + 1, payload |-> text])]
      BY <1>2 DEF Ask
    <2>2. asked[c] \in Seq(Text) /\ c2s[c] \in Seq(Frame) /\ Len(asked[c]) < MaxId
      BY <1>2 DEF Ask
    <2>3. Len(asked[c]) \in Nat
      BY <2>2, LenProperties
    <2>4. [id |-> Len(asked[c]) + 1, payload |-> text] \in Frame
      BY <2>2, <2>3, TransportAssumption DEF Frame, Ids
    <2>5. /\ Append(asked[c], text) \in Seq(Text)
          /\ Append(c2s[c], [id |-> Len(asked[c]) + 1, payload |-> text]) \in Seq(Frame)
      BY <2>2, <2>4, AppendProperties
    <2>6. asked' \in [Conns -> Seq(Text)] /\ c2s' \in [Conns -> Seq(Frame)]
      BY <2>1, <2>5
    <2> QED  BY <1>2, <2>6 DEF Ask
  <1>3. CASE ReadReply(c) /\ UNCHANGED srvVars
    <2>1. s2c[c] \in Seq(Frame) /\ s2c[c] # <<>> /\ seen[c] \in Seq(Frame)
      BY <1>3 DEF ReadReply
    <2>2. Head(s2c[c]) \in Frame /\ Tail(s2c[c]) \in Seq(Frame)
      BY <2>1, HeadTailParts
    <2>3. Append(seen[c], Head(s2c[c])) \in Seq(Frame)
      BY <2>1, <2>2, AppendProperties
    <2> QED  BY <1>3, <2>2, <2>3 DEF ReadReply
  <1>4. CASE Vanish(c) /\ UNCHANGED srvVars
    <2>1. PICK n \in 0..Len(c2s[c]) : c2s' = [c2s EXCEPT ![c] = Keep(c2s[c], n)]
      BY <1>4 DEF Vanish, BreakConnection
    <2>2. PICK m \in 0..Len(s2c[c]) : s2c' = [s2c EXCEPT ![c] = Keep(s2c[c], m)]
      BY <1>4 DEF Vanish, BreakConnection
    <2>3. Keep(c2s[c], n) \in Seq(Frame) /\ Keep(s2c[c], m) \in Seq(Frame)
      BY KeepDropType
    <2> QED  BY <1>4, <2>1, <2>2, <2>3 DEF Vanish, BreakConnection
  <1> QED  BY <1>1, <1>2, <1>3, <1>4 DEF ClientStep

-----------------------------------------------------------------------------

\* Erasing the element under the iterator leaves it on the next one, unless
\* it was the last; the others stay apart.
LEMMA EraseKeepsLoop ==
    ASSUME TypeInv, LoopInv, Disconnect
    PROVE  /\ it # Len(connections) => it \in DOMAIN connections'
           /\ Sockets(connections')
           /\ \A j \in DOMAIN connections', k \in DOMAIN backlog :
                 connections'[j] # backlog[k]
  <1>1. connections \in Seq(Conns) /\ it \in 1..Len(connections)
    BY CurrentIsConn DEF TypeInv, Disconnect, AtSrv, InLoop
  <1> DEFINE after == Keep(connections, it - 1) \o Drop(connections, it)
             n == Len(connections)
  <1>2. /\ n \in Nat /\ DOMAIN connections = 1..n /\ DOMAIN after = 1..(n - 1)
        /\ \A k \in 1..(n - 1) :
              after[k] = IF k < it THEN connections[k] ELSE connections[k + 1]
    BY <1>1, EraseParts
  <1>3. connections' = after
    BY DEF Disconnect
  <1> HIDE DEF after, n
  <1>4. \A k \in 1..(n - 1) : k \in 1..n /\ k + 1 \in 1..n
    BY <1>2
  <1>5. it \in 1..n
    BY <1>1 DEF n
  <1>6. it # n => it \in DOMAIN after
    BY <1>2, <1>5
  <1>7. ASSUME NEW j \in 1..(n - 1)
        PROVE  linked[after[j]] /\ \A k \in DOMAIN backlog : after[j] # backlog[k]
    BY <1>2, <1>4 DEF LoopInv, Sockets
  <1>8. ASSUME NEW j \in 1..(n - 1), NEW k \in 1..(n - 1), after[j] = after[k]
        PROVE  j = k
    <2>1. PICK a \in 1..n : connections[a] = after[j] /\ a = IF j < it THEN j ELSE j + 1
      BY <1>2, <1>4
    <2>2. PICK b \in 1..n : connections[b] = after[k] /\ b = IF k < it THEN k ELSE k + 1
      BY <1>2, <1>4
    <2>3. a = b
      BY <2>1, <2>2, <1>8, <1>2 DEF LoopInv, Sockets
    <2> QED  BY <2>1, <2>2, <2>3, <1>2, <1>5
  <1>9. Sockets(after)
    BY <1>2, <1>7, <1>8 DEF Sockets
  <1> QED  BY <1>2, <1>3, <1>6, <1>7, <1>9 DEF n

\* accept() moves the first socket of the backlog to the end of the vector,
\* or drops it.
LEMMA AcceptKeepsSockets ==
    ASSUME TypeInv, LoopInv, Accept, UNCHANGED linked
    PROVE  /\ Sockets(connections') /\ Sockets(backlog')
           /\ \A j \in DOMAIN connections', k \in DOMAIN backlog' :
                 connections'[j] # backlog'[k]
           /\ connections' \in Seq(Conns)
  <1>1. CASE Listener \notin ready
    BY <1>1 DEF Accept, LoopInv, Sockets, TypeInv
  <1>2. CASE Listener \in ready
    <2>1. backlog \in Seq(Conns) /\ backlog # <<>> /\ connections \in Seq(Conns)
      BY <1>2 DEF Accept, LoopInv, TypeInv, AtSrv
    <2> DEFINE n == Len(backlog)
               m == Len(connections)
               first == Head(backlog)
    <2>2. /\ n \in Nat /\ n >= 1 /\ first = backlog[1] /\ first \in Conns
          /\ DOMAIN backlog = 1..n /\ DOMAIN Tail(backlog) = 1..(n - 1)
          /\ \A k \in 1..(n - 1) : Tail(backlog)[k] = backlog[k + 1]
      BY <2>1, HeadTailParts
    <2>3. /\ Append(connections, first) \in Seq(Conns) /\ m \in Nat
          /\ DOMAIN connections = 1..m
          /\ DOMAIN Append(connections, first) = 1..(m + 1)
          /\ \A k \in 1..m : Append(connections, first)[k] = connections[k]
          /\ Append(connections, first)[m + 1] = first
      BY <2>1, <2>2, AppendParts
    <2> HIDE DEF n, m, first
    <2>4. \A k \in 1..(n - 1) : k + 1 \in 1..n /\ k + 1 # 1
      BY <2>2
    <2>5. 1 \in 1..n /\ linked[first]
      BY <2>2 DEF LoopInv, Sockets
    <2>6. ASSUME NEW k \in 1..(n - 1)
          PROVE  linked[Tail(backlog)[k]] /\ Tail(backlog)[k] # first
      BY <2>2, <2>4, <2>5 DEF LoopInv, Sockets
    <2>7. ASSUME NEW j \in 1..(n - 1), NEW k \in 1..(n - 1),
                 Tail(backlog)[j] = Tail(backlog)[k]
          PROVE  j = k
      <3>1. j + 1 = k + 1
        BY <2>7, <2>2, <2>4 DEF LoopInv, Sockets
      <3> QED  BY <3>1, <2>2
    <2>8. Sockets(Tail(backlog))
      BY <2>2, <2>6, <2>7 DEF Sockets
    <2>9. ASSUME NEW j \in 1..m
          PROVE  /\ linked[connections[j]] /\ connections[j] # first
                 /\ \A k \in 1..(n - 1) : connections[j] # Tail(backlog)[k]
      BY <2>2, <2>3, <2>4, <2>5 DEF LoopInv, Sockets
    <2>10. \A j \in 1..(m + 1) : j \in 1..m \/ j = m + 1
      BY <2>3
    <2>11. Sockets(Append(connections, first))
      <3>1. ASSUME NEW j \in 1..(m + 1), NEW k \in 1..(m + 1),
                   Append(connections, first)[j] = Append(connections, first)[k]
            PROVE  j = k
        BY <3>1, <2>3, <2>9, <2>10 DEF LoopInv, Sockets
      <3>2. \A j \in 1..(m + 1) : linked[Append(connections, first)[j]]
        BY <2>3, <2>5, <2>9, <2>10
      <3> QED  BY <3>1, <3>2, <2>3 DEF Sockets
    <2>12. \A j \in 1..(m + 1), k \in 1..(n - 1) :
              Append(connections, first)[j] # Tail(backlog)[k]
      BY <2>3, <2>6, <2>9, <2>10
    <2>13. backlog' = Tail(backlog) /\ linked' = linked
      BY <1>2 DEF Accept
    <2>14. CASE connections' = Append(connections, first)
      BY <2>2, <2>3, <2>8, <2>11, <2>12, <2>13, <2>14 DEF Sockets
    <2>15. CASE connections' = connections
      BY <2>1, <2>2, <2>3, <2>8, <2>9, <2>13, <2>15 DEF Sockets, LoopInv
    <2> QED  BY <1>2, <2>14, <2>15 DEF Accept, first
  <1> QED  BY <1>1, <1>2

\* Every step keeps the invariant of the loop.
LEMMA LoopStep == TypeInv /\ LoopInv /\ [Next]_vars => LoopInv'
  <1> SUFFICES ASSUME TypeInv, LoopInv, [Next]_vars PROVE LoopInv'
    OBVIOUS
  <1> USE DEF AtSrv, InLoop
  <1>1. ASSUME UNCHANGED <<backlog, connections, linked>>,
               srvPc' \in InLoop => it' \in DOMAIN connections,
               srvPc' # "accept" \/ UNCHANGED <<srvPc, ready>>
        PROVE  LoopInv'
    BY <1>1 DEF LoopInv, Sockets
  <1>2. ASSUME ServerNext, UNCHANGED clientsVars PROVE LoopInv'
    <2> USE <1>2 DEF clientsVars
    <2>1. CASE Select
      <3>1. Listener \in ready' => backlog # <<>>
        <4>1. Watched \subseteq Conns
          BY ElementOfSeq, LenProperties DEF Watched, TypeInv
        <4>2. Listener \notin Conns
          BY TransportAssumption DEF Listener, Conns
        <4> QED  BY <2>1, <4>1, <4>2 DEF Select, ReadySockets
      <3> QED  BY <2>1, <3>1 DEF Select, LoopInv, Sockets
    <2>2. CASE Accept
      <3>1. /\ Sockets(connections') /\ Sockets(backlog')
            /\ \A j \in DOMAIN connections', k \in DOMAIN backlog' :
                  connections'[j] # backlog'[k]
            /\ connections' \in Seq(Conns)
        BY <2>2, AcceptKeepsSockets
      <3>2. connections' # <<>> => it' \in DOMAIN connections'
        <4>1. connections' # <<>> => Len(connections') # 0 /\ Len(connections') \in Nat
          BY <3>1, EmptySeq, LenProperties
        <4>2. DOMAIN connections' = 1..Len(connections')
          BY <3>1, LenProperties
        <4>3. it' = 1
          BY <2>2 DEF Accept
        <4> QED  BY <4>1, <4>2, <4>3
      <3>3. srvPc' # "accept" /\ (srvPc' \in InLoop => connections' # <<>>)
        BY <2>2 DEF Accept
      <3> QED  BY <3>1, <3>2, <3>3 DEF LoopInv, Sockets
    <2>3. CASE Disconnect
      <3>1. /\ it # Len(connections) => it \in DOMAIN connections'
            /\ Sockets(connections')
            /\ \A j \in DOMAIN connections', k \in DOMAIN backlog :
                  connections'[j] # backlog[k]
        BY <2>3, EraseKeepsLoop
      <3>2. /\ it' = it /\ backlog' = backlog
            /\ srvPc' = IF it = Len(connections) THEN "select" ELSE "recv"
        BY <2>3 DEF Disconnect
      <3> QED  BY <3>1, <3>2 DEF LoopInv, Sockets
    <2>4. CASE Receive
      BY <2>4, <1>1 DEF Receive, LoopInv
    <2>5. CASE SkipReceive
      BY <2>5, <1>1 DEF SkipReceive, LoopInv
    <2>6. CASE Decode
      BY <2>6, <1>1 DEF Decode, LoopInv
    <2>7. CASE NextClient
      <3>1. it \in 1..Len(connections) /\ Len(connections) \in Nat
            /\ DOMAIN connections = 1..Len(connections)
        BY <2>7, CurrentIsConn, LenProperties DEF NextClient, TypeInv
      <3>2. srvPc' \in InLoop => it' \in DOMAIN connections
        BY <2>7, <3>1 DEF NextClient
      <3> QED  BY <2>7, <3>2, <1>1 DEF NextClient
    <2>8. CASE SendEcho
      BY <2>8, <1>1 DEF SendEcho, LoopInv
    <2>9. CASE SendEnd
      BY <2>9, <1>1 DEF SendEnd, LoopInv
    <2>10. CASE SendKilled
      BY <2>10, <1>1 DEF SendKilled, LoopInv
    <2> QED  BY <2>1, <2>2, <2>3, <2>4, <2>5, <2>6, <2>7, <2>8, <2>9, <2>10
             DEF ServerNext
  <1>3. ASSUME NEW c \in Conns, ConnectClient(c) PROVE LoopInv'
    <2>1. /\ ~linked[c] /\ linked' = [linked EXCEPT ![c] = TRUE]
          /\ backlog' = Append(backlog, c)
          /\ UNCHANGED <<connections, ready, srvPc, it>>
          /\ backlog \in Seq(Conns)
      BY <1>3 DEF ConnectClient, Connect, TypeInv
    <2> DEFINE n == Len(backlog)
    <2>2. /\ n \in Nat /\ DOMAIN backlog = 1..n
          /\ backlog' # <<>> /\ DOMAIN backlog' = 1..(n + 1)
          /\ \A k \in 1..n : backlog'[k] = backlog[k]
          /\ backlog'[n + 1] = c
      <3> HIDE DEF TypeInv, LoopInv
      <3> QED  BY <2>1, AppendParts
    <2> HIDE DEF n
    <2>3. \A k \in 1..(n + 1) : k \in 1..n \/ k = n + 1
      BY <2>2
    <2>4. ASSUME NEW d \in Conns, linked[d] PROVE linked'[d] /\ d # c
      BY <2>1, <2>4 DEF TypeInv
    <2>5. linked'[c]
      BY <2>1 DEF TypeInv
    <2>6. \A k \in 1..n : backlog[k] \in Conns /\ linked[backlog[k]]
      <3>1. \A k \in 1..Len(backlog) : backlog[k] \in Conns
        BY <2>1, ElementOfSeq
      <3>2. \A k \in DOMAIN backlog : linked[backlog[k]]
        BY DEF LoopInv, Sockets
      <3> QED  BY <2>2, <3>1, <3>2 DEF n
    <2>7. \A j \in DOMAIN connections : connections[j] \in Conns /\ linked[connections[j]]
      BY ElementOfSeq, LenProperties DEF LoopInv, Sockets, TypeInv
    <2>8. Sockets(backlog)'
      <3>1. ASSUME NEW j \in 1..(n + 1), NEW k \in 1..(n + 1), backlog'[j] = backlog'[k]
            PROVE  j = k
        BY <3>1, <2>2, <2>3, <2>4, <2>6 DEF LoopInv, Sockets
      <3>2. \A k \in 1..(n + 1) : linked'[backlog'[k]]
        BY <2>2, <2>3, <2>4, <2>5, <2>6
      <3> QED  BY <3>1, <3>2, <2>2 DEF Sockets
    <2>9. Sockets(connections)'
      BY <2>1, <2>4, <2>7 DEF LoopInv, Sockets
    <2>10. \A j \in DOMAIN connections, k \in 1..(n + 1) : connections[j] # backlog'[k]
      BY <2>2, <2>3, <2>4, <2>7 DEF LoopInv
    <2> QED  BY <2>1, <2>2, <2>8, <2>9, <2>10 DEF LoopInv
  <1>4. ASSUME NEW c \in Conns, ClientStep(c), UNCHANGED srvVars PROVE LoopInv'
    <2>1. UNCHANGED linked
      BY <1>4 DEF ClientStep, Ask, ReadReply, Vanish, clientsVars
    <2> QED  BY <1>1, <1>4, <2>1 DEF srvVars, LoopInv
  <1>5. CASE UNCHANGED vars
    BY <1>1, <1>5 DEF vars, srvVars, clientsVars, LoopInv
  <1> QED  BY <1>2, <1>3, <1>4, <1>5 DEF Next

\* The invariant holds throughout.
LEMMA InvariantHolds == Spec => [](TypeInv /\ LoopInv)
  <1>1. TypeInv /\ LoopInv /\ [Next]_vars => TypeInv'
    <2> SUFFICES ASSUME TypeInv, LoopInv, [Next]_vars PROVE TypeInv'
      OBVIOUS
    <2>1. CASE UNCHANGED vars
      BY <2>1 DEF vars, srvVars, netVars, clientsVars, TypeInv, NetTypeOK
    <2> QED  BY <2>1, ServerKeepsTypes, ClientsKeepTypes DEF Next
  <1> QED  BY InitInv, <1>1, LoopStep, PTL DEF Spec

\* Erasing from the vector of connections while looping over it is safe for
\* every number of clients: the iterator is on an element whenever main()
\* uses it, and no socket is in the vector twice.
THEOREM IteratorValidHolds == Spec => []IteratorValid
  <1>1. TypeInv /\ LoopInv => IteratorValid
    BY DEF LoopInv, IteratorValid, InLoop, Sockets
  <1> QED  BY <1>1, InvariantHolds, PTL

-----------------------------------------------------------------------------
(***************************************************************************)
(* The refinement.  To a client, what the server has read and not answered *)
(* is still on its way, and what it owes is the rest of the reply that     *)
(* main() is sending; `Pending' and `Owed' are the two variables of Peer.  *)
(***************************************************************************)
Pending == [c \in Conns |-> sbuf[c] \o c2s[c]]

Owed == [c \in Conns |-> [i \in Ids |->
            IF it \in DOMAIN connections /\ Current = c /\ request.id = i
            THEN OwedNow ELSE <<>>]]

\* Outside the two send_all() calls nothing is owed.
LEMMA NothingOwed ==
    ASSUME srvPc \notin {"echo", "end"}
    PROVE  Owed = [c \in Conns |-> [i \in Ids |-> <<>>]]
  <1>1. OwedNow = <<>>
    BY DEF OwedNow
  <1> QED  BY <1>1 DEF Owed

\* The types of the variables of Peer.
LEMMA PendingType ==
    ASSUME TypeInv
    PROVE  /\ Pending \in [Conns -> Seq(Frame)]
           /\ \A c \in Conns : /\ sbuf[c] \in Seq(Frame) /\ c2s[c] \in Seq(Frame)
                               /\ s2c[c] \in Seq(Frame)
  <1>1. \A c \in Conns : sbuf[c] \in Seq(Frame) /\ c2s[c] \in Seq(Frame) /\ s2c[c] \in Seq(Frame)
    BY DEF TypeInv, NetTypeOK
  <1>2. \A c \in Conns : sbuf[c] \o c2s[c] \in Seq(Frame)
    BY <1>1, ConcatProperties
  <1> QED  BY <1>1, <1>2 DEF Pending

\* A step that leaves these alone is invisible to a client.
LEMMA PeerQuiet ==
    ASSUME Pending' = Pending, Owed' = Owed, UNCHANGED <<s2c, broken>>
    PROVE  UNCHANGED Peer!peerVars
  BY DEF Peer!peerVars, Peer!netVars, Pending, Owed

\* The actions of Peer, over Pending and Owed: it takes a request, ...
LEMMA PeerTakes ==
    ASSUME NEW c \in Conns, Pending[c] # <<>>,
           Owed' = [Owed EXCEPT ![c][Head(Pending[c]).id] =
                       @ \o <<Head(Pending[c]).payload, END>>],
           Pending' = [Pending EXCEPT ![c] = Tail(@)],
           UNCHANGED <<s2c, broken>>
    PROVE  Peer!PeerStep
  <1>1. Peer!PeerTake(c)
    BY DEF Peer!PeerTake, Peer!END, END, Pending, Owed
  <1> QED  BY Zenon, <1>1 DEF Peer!PeerStep, Peer!PeerNext, Peer!Conns, Conns

\* ... sends a frame of a reply, ...
LEMMA PeerReplies ==
    ASSUME NEW c \in Conns, NEW i \in Ids, Owed[c][i] # <<>>,
           ~broken[c], Len(s2c[c]) < RecvCap,
           s2c' = [s2c EXCEPT ![c] =
                      Append(@, [id |-> i, payload |-> Head(Owed[c][i])])],
           Owed' = [Owed EXCEPT ![c][i] = Tail(@)],
           Pending' = Pending, UNCHANGED broken
    PROVE  Peer!PeerStep
  <1>1. Peer!PeerReply(c, i)
    BY DEF Peer!PeerReply, Pending, Owed
  <1> QED  BY <1>1 DEF Peer!PeerStep, Peer!PeerNext, Peer!Conns, Conns, Peer!Ids, Ids

\* ... loses a frame of a reply on a connection that is gone, ...
LEMMA PeerDrops ==
    ASSUME NEW c \in Conns, NEW i \in Ids, Owed[c][i] # <<>>, broken[c],
           Owed' = [Owed EXCEPT ![c][i] = Tail(@)],
           Pending' = Pending, UNCHANGED <<s2c, broken>>
    PROVE  Peer!PeerStep
  <1>1. Peer!PeerDrop(c, i)
    BY DEF Peer!PeerDrop, Peer!netVars, Pending, Owed
  <1> QED  BY <1>1 DEF Peer!PeerStep, Peer!PeerNext, Peer!Conns, Conns, Peer!Ids, Ids

\* ... a client sends a request, ...
LEMMA PeerHears ==
    ASSUME NEW c \in Conns, NEW f \in Frame,
           Pending' = [Pending EXCEPT ![c] = Append(@, f)],
           Owed' = Owed, UNCHANGED <<s2c, broken>>
    PROVE  Peer!PeerStep
  <1>1. Peer!ClientSends(c)
    BY DEF Peer!ClientSends, Peer!Frame, Frame, Peer!Ids, Ids, Pending, Owed
  <1> QED  BY <1>1 DEF Peer!PeerStep, Peer!Conns, Conns

\* ... reads reply frames, ...
LEMMA PeerIsRead ==
    ASSUME NEW c \in Conns, NEW n \in 1..Len(s2c[c]),
           s2c' = [s2c EXCEPT ![c] = Drop(@, n)],
           Pending' = Pending, Owed' = Owed, UNCHANGED broken
    PROVE  Peer!PeerStep
  <1>1. Peer!ClientReads(c)
    BY DEF Peer!ClientReads, Peer!Drop, Drop, Pending, Owed
  <1> QED  BY <1>1 DEF Peer!PeerStep, Peer!Conns, Conns

\* ... and connections break, losing what was in flight.
LEMMA PeerBreaks ==
    ASSUME \A c \in Conns :
              /\ broken[c] => broken'[c]
              /\ \E n \in 0..Len(Pending[c]) : Pending'[c] = Keep(Pending[c], n)
              /\ \E n \in 0..Len(s2c[c]) : s2c'[c] = Keep(s2c[c], n)
              /\ ~broken'[c] => Pending'[c] = Pending[c] /\ s2c'[c] = s2c[c],
           Owed' = Owed
    PROVE  Peer!PeerStep
  <1>1. Peer!SomeBreak
    BY DEF Peer!SomeBreak, Peer!Conns, Conns, Peer!Keep, Keep, Pending, Owed
  <1> QED  BY <1>1 DEF Peer!PeerStep

\* Nothing of a connection is lost where its streams are left alone.
LEMMA NothingLost ==
    ASSUME TypeInv, NEW c \in Conns
    PROVE  /\ \E n \in 0..Len(Pending[c]) : Pending[c] = Keep(Pending[c], n)
           /\ \E n \in 0..Len(s2c[c]) : s2c[c] = Keep(s2c[c], n)
  <1>1. Pending[c] \in Seq(Frame) /\ s2c[c] \in Seq(Frame)
    BY PendingType
  <1> QED  BY <1>1, KeepDropEnds

\* Each step of the server that sends nothing.
LEMMA ServerReadsLikePeer ==
    ASSUME TypeInv, LoopInv, TypeInv', LoopInv',
           Select \/ Accept \/ Disconnect \/ Receive \/ SkipReceive \/ NextClient
    PROVE  Peer!PeerStep \/ UNCHANGED Peer!peerVars
  <1> USE DEF AtSrv
  <1>1. Owed' = Owed
    <2>1. srvPc \notin {"echo", "end"} /\ srvPc' \notin {"echo", "end"}
      BY DEF Select, Accept, Disconnect, Receive, SkipReceive, NextClient
    <2>2. Owed = [c \in Conns |-> [i \in Ids |-> <<>>]]
      BY <2>1, NothingOwed
    <2>3. Owed' = [c \in Conns |-> [i \in Ids |-> <<>>]]
      <3>1. OwedNow' = <<>>
        BY <2>1 DEF OwedNow
      <3> QED  BY <3>1 DEF Owed
    <2> QED  BY <2>2, <2>3
  <1>2. CASE Select \/ Accept \/ SkipReceive \/ NextClient
    <2>1. UNCHANGED <<sbuf, netVars>>
      BY <1>2 DEF Select, Accept, SkipReceive, NextClient
    <2>2. Pending' = Pending
      BY <2>1 DEF Pending, netVars
    <2> QED  BY <1>1, <2>1, <2>2, PeerQuiet DEF netVars
  <1>3. CASE Receive
    <2>1. Current \in Conns
      BY <1>3, CurrentIsConn DEF Receive, InLoop
    <2>2. PICK taken \in 0..Len(c2s[Current]) :
             /\ c2s' = [c2s EXCEPT ![Current] = Drop(@, taken)]
             /\ sbuf' = [sbuf EXCEPT ![Current] = @ \o Keep(c2s[Current], taken)]
      BY <1>3 DEF Receive
    <2> DEFINE s == c2s[Current]
               b == sbuf[Current]
    <2>3. s \in Seq(Frame) /\ b \in Seq(Frame)
      BY <2>1, PendingType
    <2>4. Keep(s, taken) \in Seq(Frame) /\ Drop(s, taken) \in Seq(Frame)
      BY <2>3, KeepDropType
    <2>5. (b \o Keep(s, taken)) \o Drop(s, taken) = b \o (Keep(s, taken) \o Drop(s, taken))
      <3>1. \A x, y, z \in Seq(Frame) : (x \o y) \o z = x \o (y \o z)
        BY SMTT(60), ConcatAssociative
      <3> HIDE DEF s, b
      <3> QED  BY <2>3, <2>4, <3>1
    <2>6. Keep(s, taken) \o Drop(s, taken) = s
      BY <2>3, KeepThenDrop
    <2>7. ASSUME NEW c \in Conns PROVE sbuf'[c] \o c2s'[c] = sbuf[c] \o c2s[c]
      <3>1. CASE c = Current
        <4>1. sbuf'[c] = b \o Keep(s, taken) /\ c2s'[c] = Drop(s, taken)
          BY <3>1, <2>1, <2>2 DEF TypeInv, NetTypeOK
        <4> QED  BY <3>1, <4>1, <2>5, <2>6
      <3>2. CASE c # Current
        BY <3>2, <2>2 DEF TypeInv, NetTypeOK
      <3> QED  BY <3>1, <3>2
    <2>8. Pending' = Pending
      BY <2>7 DEF Pending
    <2> QED  BY <1>1, <1>3, <2>8, PeerQuiet DEF Receive
  <1>4. CASE Disconnect
    <2>1. /\ Current \in Conns /\ c2s[Current] = <<>> /\ broken[Current]
          /\ sbuf' = [sbuf EXCEPT ![Current] = <<>>] /\ UNCHANGED netVars
      BY <1>4, CurrentIsConn DEF Disconnect, InLoop, AtEnd
    <2>2. ASSUME NEW c \in Conns
          PROVE  /\ \E n \in 0..Len(Pending[c]) : Pending'[c] = Keep(Pending[c], n)
                 /\ ~broken[c] => Pending'[c] = Pending[c]
      <3>1. CASE c = Current
        <4>1. sbuf'[c] = <<>> /\ c2s'[c] = <<>>
          BY <2>1, <3>1 DEF TypeInv, netVars
        <4>2. Pending'[c] = <<>>
          BY <4>1, ConcatEmptySeq, EmptySeq DEF Pending
        <4>3. Pending[c] \in Seq(Frame)
          BY PendingType
        <4> QED  BY <2>1, <3>1, <4>2, <4>3, KeepDropEnds
      <3>2. CASE c # Current
        <4>1. Pending'[c] = Pending[c]
          BY <2>1, <3>2 DEF Pending, TypeInv, netVars
        <4> QED  BY <4>1, NothingLost
      <3> QED  BY <3>1, <3>2
    <2> QED  BY <1>1, <2>1, <2>2, NothingLost, PeerBreaks DEF netVars
  <1> QED  BY <1>2, <1>3, <1>4

\* Decoding a request is taking it, and owing its reply.
LEMMA DecodeTakes ==
    ASSUME TypeInv, LoopInv, Decode
    PROVE  Peer!PeerStep
  <1> USE DEF AtSrv
  <1> DEFINE c == Current
             b == sbuf[c]
  <1>1. /\ c \in Conns /\ it \in 1..Len(connections)
        /\ b # <<>> /\ request' = Head(b)
        /\ sbuf' = [sbuf EXCEPT ![c] = Tail(@)] /\ srvPc' = "echo"
        /\ UNCHANGED <<connections, it, netVars>>
    BY CurrentIsConn DEF Decode, InLoop
  <1>2. b \in Seq(Frame) /\ c2s[c] \in Seq(Frame) /\ Pending[c] = b \o c2s[c]
    BY <1>1, PendingType DEF Pending
  <1>3. /\ Pending[c] # <<>> /\ Head(Pending[c]) = Head(b)
        /\ Tail(Pending[c]) = Tail(b) \o c2s[c]
    BY <1>1, <1>2, HeadTailConcat
  <1>4. Head(b) \in Frame /\ Head(b).id \in Ids
    <2>1. Head(b) \in Frame
      BY <1>1, <1>2, HeadTailParts
    <2> QED  BY <2>1 DEF Frame
  <1>5. Pending' = [Pending EXCEPT ![c] = Tail(@)]
    <2>1. ASSUME NEW d \in Conns
          PROVE  sbuf'[d] \o c2s'[d] = IF d = c THEN Tail(Pending[c]) ELSE Pending[d]
      BY <1>1, <1>3 DEF Pending, TypeInv, netVars
    <2> HIDE DEF c
    <2> QED  BY <2>1, <1>1 DEF Pending
  <1>6. Owed = [d \in Conns |-> [i \in Ids |-> <<>>]]
    BY NothingOwed DEF Decode
  <1>7. Owed' = [d \in Conns |-> [i \in Ids |->
                   IF d = c /\ i = Head(b).id THEN <<Head(b).payload, END>> ELSE <<>>]]
    <2>1. it' \in DOMAIN connections' /\ Current' = c
      BY <1>1 DEF LoopInv, Decode, InLoop, Current
    <2>2. OwedNow' = <<Head(b).payload, END>>
      BY <1>1 DEF OwedNow
    <2> HIDE DEF c, b
    <2> QED  BY <1>1, <2>1, <2>2 DEF Owed
  <1>8. <<Head(b).payload, END>> = <<>> \o <<Head(b).payload, END>>
    <2>1. <<Head(b).payload, END>> \in Seq(Text)
      BY <1>4, TransportAssumption DEF Frame
    <2> QED  BY <2>1, ConcatEmptySeq
  <1> HIDE DEF c, b
  <1>9. Owed' = [Owed EXCEPT ![c][Head(b).id] = @ \o <<Head(b).payload, END>>]
    BY <1>1, <1>4, <1>6, <1>7, <1>8
  <1> QED  BY <1>1, <1>3, <1>5, <1>9, PeerTakes DEF netVars

\* Each send_all() sends the next frame that is owed.
LEMMA SendPays ==
    ASSUME TypeInv, LoopInv, SendEcho \/ SendEnd
    PROVE  Peer!PeerStep
  <1> USE DEF AtSrv
  <1> DEFINE c == Current
             i == request.id
             p == IF srvPc = "echo" THEN request.payload ELSE END
             rest == IF srvPc = "echo" THEN <<END>> ELSE <<>>
  <1>1. /\ c \in Conns /\ i \in Ids /\ it \in DOMAIN connections
        /\ srvPc \in {"echo", "end"} /\ SendAll(p)
        /\ srvPc' = IF srvPc = "echo" THEN "end" ELSE "decode"
        /\ UNCHANGED <<connections, it, sbuf, request>>
    BY CurrentIsConn DEF SendEcho, SendEnd, InLoop, TypeInv, LoopInv, Frame
  <1>2. OwedNow # <<>> /\ Head(OwedNow) = p /\ Tail(OwedNow) = rest
    BY <1>1 DEF OwedNow
  <1>3. OwedNow' = rest
    BY <1>1 DEF OwedNow
  <1>4. Owed = [d \in Conns |-> [j \in Ids |-> IF d = c /\ j = i THEN OwedNow ELSE <<>>]]
    BY <1>1 DEF Owed
  <1>5. Owed' = [d \in Conns |-> [j \in Ids |-> IF d = c /\ j = i THEN rest ELSE <<>>]]
    <2>1. it' \in DOMAIN connections' /\ Current' = c /\ request'.id = i
      BY <1>1 DEF Current
    <2> HIDE DEF c, i, rest
    <2> QED  BY <1>3, <2>1 DEF Owed
  <1> HIDE DEF c, i, p, rest
  <1>6. Owed[c][i] # <<>> /\ Head(Owed[c][i]) = p
    BY <1>1, <1>2, <1>4
  <1>7. Owed' = [Owed EXCEPT ![c][i] = Tail(@)]
    BY <1>1, <1>2, <1>4, <1>5
  <1>8. UNCHANGED <<c2s, broken>>
    BY <1>1 DEF SendAll, netVars
  <1>9. Pending' = Pending
    BY <1>1, <1>8 DEF Pending
  <1>10. CASE broken[c]
    <2>1. UNCHANGED s2c
      BY <1>1, <1>10 DEF SendAll, netVars, c
    <2> QED  BY <1>1, <1>6, <1>7, <1>8, <1>9, <1>10, <2>1, PeerDrops
  <1>11. CASE ~broken[c]
    <2>1. /\ Len(s2c[c]) < RecvCap
          /\ s2c' = [s2c EXCEPT ![c] = Append(@, [id |-> i, payload |-> p])]
      BY <1>1, <1>11 DEF SendAll, c, i
    <2> QED  BY <1>1, <1>6, <1>7, <1>8, <1>9, <1>11, <2>1, PeerReplies
  <1> QED  BY <1>10, <1>11

\* SIGPIPE is every connection breaking at once.
LEMMA KilledBreaks ==
    ASSUME TypeInv, SendKilled
    PROVE  Peer!PeerStep
  <1>1. Pending' = Pending /\ Owed' = Owed /\ s2c' = s2c
    BY DEF SendKilled, Pending, Owed, OwedNow, Current
  <1>2. \A c \in Conns : broken'[c]
    BY DEF SendKilled
  <1> QED  BY <1>1, <1>2, NothingLost, PeerBreaks

\* Each step of a client.
LEMMA ClientsLikePeer ==
    ASSUME TypeInv, NEW c \in Conns,
           ConnectClient(c) \/ (ClientStep(c) /\ UNCHANGED srvVars)
    PROVE  Peer!PeerStep \/ UNCHANGED Peer!peerVars
  <1>1. Owed' = Owed /\ sbuf' = sbuf
    BY DEF ConnectClient, srvVars, Owed, OwedNow, Current
  <1>2. /\ Pending[c] \in Seq(Frame) /\ sbuf[c] \in Seq(Frame)
        /\ c2s[c] \in Seq(Frame) /\ s2c[c] \in Seq(Frame)
    BY PendingType
  <1>3. CASE ConnectClient(c)
    <2>1. UNCHANGED netVars
      BY <1>3 DEF ConnectClient, Connect, netVars
    <2>2. Pending' = Pending
      BY <1>1, <2>1 DEF Pending, netVars
    <2> QED  BY <1>1, <2>1, <2>2, PeerQuiet DEF netVars
  <1>4. CASE Ask(c)
    <2>1. PICK text \in Text \ {END} :
             c2s' = [c2s EXCEPT ![c] =
                        Append(@, [id |-> Len(asked[c]) + 1, payload |-> text])]
      BY <1>4 DEF Ask
    <2> DEFINE f == [id |-> Len(asked[c]) + 1, payload |-> text]
    <2>2. f \in Frame
      <3>1. Len(asked[c]) \in Nat /\ Len(asked[c]) < MaxId
        BY <1>4, LenProperties DEF Ask, TypeInv
      <3> QED  BY <3>1, TransportAssumption DEF Frame, Ids
    <2> HIDE DEF f
    <2>3. c2s' = [c2s EXCEPT ![c] = Append(@, f)] /\ UNCHANGED <<s2c, broken>>
      BY <1>4, <2>1 DEF f, Ask
    <2>4. sbuf[c] \o Append(c2s[c], f) = Append(sbuf[c] \o c2s[c], f)
      <3>1. \A x, y \in Seq(Frame), z \in Frame : x \o Append(y, z) = Append(x \o y, z)
        BY AppendConcat
      <3> QED  BY <1>2, <2>2, <3>1
    <2>5. Pending' = [Pending EXCEPT ![c] = Append(@, f)]
      <3>1. ASSUME NEW d \in Conns
            PROVE  sbuf'[d] \o c2s'[d] = IF d = c THEN Append(Pending[d], f) ELSE Pending[d]
        BY <1>1, <2>3, <2>4 DEF Pending, TypeInv, NetTypeOK
      <3> QED  BY <3>1 DEF Pending
    <2> QED  BY <1>1, <2>2, <2>3, <2>5, PeerHears
  <1>5. CASE ReadReply(c)
    <2>1. s2c[c] # <<>> /\ UNCHANGED <<c2s, broken>> /\ s2c' = [s2c EXCEPT ![c] = Tail(@)]
      BY <1>5 DEF ReadReply
    <2>2. Pending' = Pending
      BY <1>1, <2>1 DEF Pending
    <2>3. 1 \in 1..Len(s2c[c]) /\ Drop(s2c[c], 1) = Tail(s2c[c])
      BY <1>2, <2>1, KeepDropEnds
    <2>4. s2c' = [s2c EXCEPT ![c] = Drop(@, 1)]
      BY <2>1, <2>3
    <2> QED  BY <1>1, <2>1, <2>2, <2>3, <2>4, PeerIsRead
  <1>6. CASE Vanish(c)
    <2>1. PICK n \in 0..Len(c2s[c]) : c2s' = [c2s EXCEPT ![c] = Keep(c2s[c], n)]
      BY <1>6 DEF Vanish, BreakConnection
    <2>2. PICK m \in 0..Len(s2c[c]) : s2c' = [s2c EXCEPT ![c] = Keep(s2c[c], m)]
      BY <1>6 DEF Vanish, BreakConnection
    <2>3. broken' = [broken EXCEPT ![c] = TRUE]
      BY <1>6 DEF Vanish, BreakConnection
    <2>4. PICK k \in 0..Len(Pending[c]) :
             sbuf[c] \o Keep(c2s[c], n) = Keep(Pending[c], k)
      BY ZenonT(60), <1>2, KeepConcat DEF Pending
    <2>5. ASSUME NEW d \in Conns
          PROVE  /\ broken[d] => broken'[d]
                 /\ \E j \in 0..Len(Pending[d]) : Pending'[d] = Keep(Pending[d], j)
                 /\ \E j \in 0..Len(s2c[d]) : s2c'[d] = Keep(s2c[d], j)
                 /\ ~broken'[d] => Pending'[d] = Pending[d] /\ s2c'[d] = s2c[d]
      <3>1. CASE d = c
        <4>1. Pending'[d] = Keep(Pending[d], k) /\ s2c'[d] = Keep(s2c[d], m) /\ broken'[d]
          BY <3>1, <1>1, <2>1, <2>2, <2>3, <2>4 DEF Pending, TypeInv, NetTypeOK
        <4> QED  BY <3>1, <4>1
      <3>2. CASE d # c
        <4>1. Pending'[d] = Pending[d] /\ s2c'[d] = s2c[d] /\ broken'[d] = broken[d]
          BY <3>2, <1>1, <2>1, <2>2, <2>3 DEF Pending, TypeInv, NetTypeOK
        <4> QED  BY <4>1, NothingLost
      <3> QED  BY <3>1, <3>2
    <2> QED  BY <1>1, <2>5, PeerBreaks
  <1> QED  BY <1>3, <1>4, <1>5, <1>6 DEF ClientStep

(***************************************************************************)
(* promise_server implements EchoPeer: whatever the clients do, and        *)
(* however recv_some() cuts their streams, every connection sees for each  *)
(* request the echo and then END under its id, and nothing else.           *)
(***************************************************************************)
THEOREM ServerImplementsEchoPeer == Spec => ImplementsEchoPeer
  <1>1. Init => Peer!NetInit /\ Peer!PeerInit
    <2> SUFFICES ASSUME Init PROVE Peer!NetInit /\ Peer!PeerInit
      OBVIOUS
    <2>1. Pending = [c \in Conns |-> <<>>]
      <3>1. \A c \in Conns : sbuf[c] \o c2s[c] = <<>>
        BY ConcatEmptySeq, EmptySeq DEF Init, NetInit, ServerInit
      <3> QED  BY <3>1 DEF Pending
    <2>2. Owed = [c \in Conns |-> [i \in Ids |-> <<>>]]
      BY NothingOwed DEF Init, ServerInit
    <2>3. s2c = [c \in Conns |-> <<>>] /\ broken = [c \in Conns |-> FALSE]
      BY DEF Init, NetInit
    <2>4. Peer!NetInit
      BY <2>1, <2>3 DEF Peer!NetInit, Peer!Conns, Conns, Pending
    <2>5. Peer!PeerInit
      BY <2>2 DEF Peer!PeerInit, Peer!Conns, Conns, Peer!Ids, Ids, Owed
    <2> QED  BY <2>4, <2>5
  <1>2. TypeInv /\ LoopInv /\ (TypeInv /\ LoopInv)' /\ [Next]_vars
           => [Peer!PeerStep]_(Peer!peerVars)
    <2> SUFFICES ASSUME TypeInv, LoopInv, (TypeInv /\ LoopInv)', [Next]_vars
                 PROVE  Peer!PeerStep \/ UNCHANGED Peer!peerVars
      OBVIOUS
    <2>1. CASE ServerNext
      BY <2>1, ServerReadsLikePeer, DecodeTakes, SendPays, KilledBreaks DEF ServerNext
    <2>2. ASSUME NEW c \in Conns, ConnectClient(c) \/ (ClientStep(c) /\ UNCHANGED srvVars)
          PROVE  Peer!PeerStep \/ UNCHANGED Peer!peerVars
      BY <2>2, ClientsLikePeer
    <2>3. CASE UNCHANGED vars
      <3>1. Pending' = Pending /\ Owed' = Owed /\ UNCHANGED <<s2c, broken>>
        BY <2>3 DEF vars, srvVars, netVars, Pending, Owed, OwedNow, Current
      <3> QED  BY <3>1, PeerQuiet
    <2> QED  BY <2>1, <2>2, <2>3 DEF Next
  <1> QED  BY <1>1, <1>2, InvariantHolds, PTL DEF Spec, ImplementsEchoPeer, Peer!PeerSpec
=============================================================================
