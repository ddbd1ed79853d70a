--------------------------- MODULE RpcSystemProofs ---------------------------
(***************************************************************************)
(* Proofs about RpcSystem, for every set of threads that use the client,   *)
(* whatever they call, and every bound on the call ids.                    *)
(***************************************************************************)
EXTENDS RpcSystem, StreamsProofs

-----------------------------------------------------------------------------
(***************************************************************************)
(* The inductive invariant.  Part one: the threads and the writer.         *)
(***************************************************************************)
\* The chain of writes, with what its steps count on: the client never sets
\* exit_, and after an error the front stays in the queue.
WriterInv ==
    /\ OneWriteChain
    /\ ~writer.exit
    /\ writer.stuck => writer.queue # <<>>

\* A thread has an id from get_next_call_idx() on, and it is its own.
NumberInv ==
    /\ \A u \in User : user[u].pc \in {"start", "connecting", "number", "set"} => user[u].id = 0
    /\ \A u \in User : user[u].pc \in {"post", "choose", "wait"} => user[u].id # 0
    /\ \A u \in User : user[u].id <= callIdx
    /\ \A u, v \in User : user[u].id = user[v].id /\ user[u].id # 0 => u = v

ClientInv == TypeOK /\ WriterInv /\ NumberInv

\* A read is pending, or its chunk is being handled, from the connect
\* handler on until the connection is lost.
ReadInv ==
    /\ life = "idle" => state # "initial" /\ chunk = <<>> /\ ~reading
    /\ life \in {"up", "idle"} /\ state # "initial" /\ chunk = <<>> /\ ~reading => gone[1]

-----------------------------------------------------------------------------
(***************************************************************************)
(* Part two: where a call is.  Its id moves from the thread that posts it  *)
(* through the strand, the writer's queue, the stream to the server, the   *)
(* server and the stream back, and is at one of these places at most.      *)
(***************************************************************************)
CallMsgs(s) == {s[k] : k \in {k \in DOMAIN s : s[k].kind = "call"}}
Erases(s)   == {s[k].id : k \in {k \in DOMAIN s : s[k].kind = "erase"}}
IdsOf(s)    == {s[k].id : k \in DOMAIN s}

\* No call is in a sequence of messages or handlers twice.
CallsOnce(s) ==
    \A j, k \in DOMAIN s :
        s[j].kind = "call" /\ s[k].kind = "call" /\ s[j].id = s[k].id => j = k

\* No two elements of a sequence of responses have the same id.
IdsOnce(s) == \A j, k \in DOMAIN s : s[j].id = s[k].id => j = k

Posting  == {user[u].id : u \in {v \in User : user[v].pc = "post"}}
Accepted == {m.id : m \in accepted[1]}
Coming   == chunk \o down[1]

\* Not yet in ongoing_calls_, and no two of them are the same.
BeforeInv ==
    /\ \A i \in Posting \cup CallsIn(strand) : promise[i] = Waiting /\ i \notin ongoing
    /\ Posting \cap CallsIn(strand) = {}
    /\ CallsOnce(strand)

\* In ongoing_calls_, unanswered, and at one place.
AfterInv ==
    /\ \A i \in CallsIn(writer.queue) \cup CallsIn(up[1]) \cup Accepted \cup IdsOf(Coming) :
          promise[i] = Waiting /\ i \in ongoing
    /\ CallsIn(writer.queue) \cap (CallsIn(up[1]) \cup Accepted \cup IdsOf(Coming)) = {}
    /\ CallsIn(up[1]) \cap (Accepted \cup IdsOf(Coming)) = {}
    /\ Accepted \cap IdsOf(Coming) = {}
    /\ CallsOnce(writer.queue) /\ CallsOnce(up[1]) /\ IdsOnce(Coming)
    /\ \A m, n \in accepted[1] : m.id = n.id => m = n

\* ongoing_calls_ holds numbered calls; the handlers that erase from it come
\* after the answer.
OngoingInv ==
    /\ \A i \in ongoing : promise[i] # Unused
    /\ \A i \in Erases(strand) : promise[i] # Waiting /\ promise[i] # Unused
    /\ \A i \in Ids : promise[i] = Waiting => i \in Posting \cup CallsIn(strand) \cup ongoing

\* Every call carries the argument of the thread that has its id, and every
\* response was computed from it.
OwnedInv ==
    /\ \A m \in CallMsgs(strand) \cup CallMsgs(writer.queue) \cup CallMsgs(up[1]) \cup accepted[1] :
          m.arg \in User /\ user[m.arg].id = m.id
    /\ \A k \in DOMAIN Coming : Coming[k].of \in User /\ user[Coming[k].of].id = Coming[k].id

PlaceInv ==
    life \in {"up", "idle", "stopping"} => BeforeInv /\ AfterInv /\ OngoingInv /\ OwnedInv

\* What a promise holds: nothing before it has a number, then a result
\* computed from the argument of its own thread; it breaks with the client.
PromiseInv ==
    /\ \A i \in Ids : i > callIdx => promise[i] = Unused
    /\ \A i \in Ids : promise[i].state \in {"value", "error"} =>
                         promise[i].of \in User /\ user[promise[i].of].id = i
    /\ \A i \in Ids : promise[i].state = "broken" => life = "destroyed"
    /\ \A u \in User : user[u].outcome \in {"value", "error", "broken"} =>
                          user[u].id # 0 /\ promise[user[u].id].state = user[u].outcome

-----------------------------------------------------------------------------
(***************************************************************************)
(* What the operations on queues and streams do to the calls in them.      *)
(***************************************************************************)
\* A sequence that lies within another, d places on, has no other elements
\* and none more often.
LEMMA WithinCalls ==
    ASSUME NEW S, NEW s \in Seq(S), NEW t \in Seq(S), NEW d \in Nat,
           Len(t) + d <= Len(s), \A k \in 1..Len(t) : t[k] = s[k + d]
    PROVE  /\ CallsIn(t) \subseteq CallsIn(s) /\ CallMsgs(t) \subseteq CallMsgs(s)
           /\ Erases(t) \subseteq Erases(s) /\ IdsOf(t) \subseteq IdsOf(s)
           /\ CallsOnce(s) => CallsOnce(t)
           /\ IdsOnce(s) => IdsOnce(t)
  <1>1. /\ Len(s) \in Nat /\ Len(t) \in Nat
        /\ DOMAIN s = 1..Len(s) /\ DOMAIN t = 1..Len(t)
    BY LenProperties
  <1>2. \A k \in DOMAIN t : k + d \in DOMAIN s /\ t[k] = s[k + d]
    BY <1>1
  <1>3. /\ CallsIn(t) \subseteq CallsIn(s) /\ CallMsgs(t) \subseteq CallMsgs(s)
        /\ Erases(t) \subseteq Erases(s) /\ IdsOf(t) \subseteq IdsOf(s)
    BY <1>2 DEF CallsIn, CallMsgs, Erases, IdsOf
  <1>4. ASSUME NEW j \in DOMAIN t, NEW k \in DOMAIN t, j + d = k + d PROVE j = k
    BY <1>1, <1>4
  <1>5. CallsOnce(s) => CallsOnce(t)
    BY <1>2, <1>4 DEF CallsOnce
  <1>6. IdsOnce(s) => IdsOnce(t)
    BY <1>2, <1>4 DEF IdsOnce
  <1> QED  BY <1>3, <1>5, <1>6

\* Appending adds what is appended.
LEMMA AppendCalls ==
    ASSUME NEW S, NEW s \in Seq(S), NEW e \in S
    PROVE  /\ e.kind = "call" => /\ CallsIn(Append(s, e)) = CallsIn(s) \cup {e.id}
                                 /\ CallMsgs(Append(s, e)) = CallMsgs(s) \cup {e}
           /\ e.kind # "call" => /\ CallsIn(Append(s, e)) = CallsIn(s)
                                 /\ CallMsgs(Append(s, e)) = CallMsgs(s)
           /\ e.kind = "erase" => Erases(Append(s, e)) = Erases(s) \cup {e.id}
           /\ e.kind # "erase" => Erases(Append(s, e)) = Erases(s)
           /\ CallsOnce(s) /\ (e.kind = "call" => e.id \notin CallsIn(s)) => CallsOnce(Append(s, e))
  <1> DEFINE t == Append(s, e)
             n == Len(s) + 1
  <1>1. /\ Len(s) \in Nat /\ DOMAIN s = 1..Len(s) /\ DOMAIN t = 1..n
        /\ \A k \in 1..Len(s) : t[k] = s[k]
        /\ t[n] = e
    BY AppendParts
  <1> HIDE DEF t
  <1>2. DOMAIN t = DOMAIN s \cup {n} /\ n \notin DOMAIN s
        /\ (\A k \in DOMAIN s : t[k] = s[k])
    BY <1>1
  <1> HIDE DEF n
  <1>3. CallsIn(t) = CallsIn(s) \cup (IF e.kind = "call" THEN {e.id} ELSE {})
    BY <1>1, <1>2 DEF CallsIn
  <1>4. CallMsgs(t) = CallMsgs(s) \cup (IF e.kind = "call" THEN {e} ELSE {})
    BY <1>1, <1>2 DEF CallMsgs
  <1>5. Erases(t) = Erases(s) \cup (IF e.kind = "erase" THEN {e.id} ELSE {})
    BY <1>1, <1>2 DEF Erases
  <1>6. CallsOnce(s) /\ (e.kind = "call" => e.id \notin CallsIn(s)) => CallsOnce(t)
    BY ZenonT(60), <1>1, <1>2 DEF CallsOnce, CallsIn
  <1> QED  BY <1>3, <1>4, <1>5, <1>6 DEF t

\* The same for a response.
LEMMA AppendIds ==
    ASSUME NEW S, NEW s \in Seq(S), NEW e \in S
    PROVE  /\ IdsOf(Append(s, e)) = IdsOf(s) \cup {e.id}
           /\ IdsOnce(s) /\ e.id \notin IdsOf(s) => IdsOnce(Append(s, e))
  <1> DEFINE t == Append(s, e)
             n == Len(s) + 1
  <1>1. /\ Len(s) \in Nat /\ DOMAIN s = 1..Len(s) /\ DOMAIN t = 1..n
        /\ \A k \in 1..Len(s) : t[k] = s[k]
        /\ t[n] = e
    BY AppendParts
  <1> HIDE DEF t
  <1>2. DOMAIN t = DOMAIN s \cup {n} /\ n \notin DOMAIN s
        /\ (\A k \in DOMAIN s : t[k] = s[k])
    BY <1>1
  <1> HIDE DEF n
  <1>3. IdsOf(t) = IdsOf(s) \cup {e.id}
    BY <1>1, <1>2 DEF IdsOf
  <1>4. \A k \in DOMAIN s : t[k].id \in IdsOf(s)
    BY <1>2 DEF IdsOf
  <1>5. IdsOnce(s) /\ e.id \notin IdsOf(s) => IdsOnce(t)
    BY <1>1, <1>2, <1>4 DEF IdsOnce
  <1> QED  BY <1>3, <1>5 DEF t

\* Taking the front of a queue leaves the others.
LEMMA TailCalls ==
    ASSUME NEW S, NEW s \in Seq(S), s # <<>>
    PROVE  /\ Head(s).kind = "call" => CallsIn(s) = CallsIn(Tail(s)) \cup {Head(s).id}
           /\ Head(s).kind # "call" => CallsIn(s) = CallsIn(Tail(s))
           /\ Head(s).kind = "call" => Head(s) \in CallMsgs(s)
           /\ Head(s).kind = "erase" => Head(s).id \in Erases(s)
           /\ CallMsgs(Tail(s)) \subseteq CallMsgs(s) /\ Erases(Tail(s)) \subseteq Erases(s)
           /\ CallsOnce(s) => CallsOnce(Tail(s))
           /\ CallsOnce(s) /\ Head(s).kind = "call" => Head(s).id \notin CallsIn(Tail(s))
  <1> DEFINE t == Tail(s)
             h == Head(s)
  <1>1. /\ Len(s) \in Nat /\ Len(s) >= 1 /\ h = s[1]
        /\ t \in Seq(S) /\ Len(t) = Len(s) - 1
        /\ DOMAIN s = 1..Len(s) /\ DOMAIN t = 1..(Len(s) - 1)
        /\ \A k \in 1..(Len(s) - 1) : t[k] = s[k + 1]
    BY HeadTailParts
  <1> HIDE DEF t, h
  <1>2. /\ CallMsgs(t) \subseteq CallMsgs(s) /\ Erases(t) \subseteq Erases(s)
        /\ CallsIn(t) \subseteq CallsIn(s)
        /\ CallsOnce(s) => CallsOnce(t)
    BY <1>1, WithinCalls
  <1>3. 1 \in DOMAIN s /\ (\A k \in DOMAIN s : k # 1 => k - 1 \in DOMAIN t /\ s[k] = t[k - 1])
    BY <1>1
  <1>4. h.kind = "call" => h \in CallMsgs(s) /\ h.id \in CallsIn(s)
    BY <1>1, <1>3 DEF CallMsgs, CallsIn
  <1>5. h.kind = "erase" => h.id \in Erases(s)
    BY <1>1, <1>3 DEF Erases
  <1>6. CallsIn(s) \subseteq CallsIn(t) \cup (IF h.kind = "call" THEN {h.id} ELSE {})
    BY <1>1, <1>3 DEF CallsIn
  <1>7. ASSUME CallsOnce(s), h.kind = "call", h.id \in CallsIn(t) PROVE FALSE
    <2>1. PICK k \in DOMAIN t : t[k].kind = "call" /\ t[k].id = h.id
      BY <1>7 DEF CallsIn
    <2>2. k + 1 \in DOMAIN s /\ s[k + 1] = t[k] /\ k + 1 # 1
      BY <1>1
    <2> QED  BY <1>1, <1>3, <1>7, <2>1, <2>2 DEF CallsOnce
  <1> QED  BY <1>2, <1>4, <1>5, <1>6, <1>7 DEF t, h

\* A stream that is cut has each of its calls on one side.
LEMMA CutCalls ==
    ASSUME NEW S, NEW s \in Seq(S), NEW n \in 0..Len(s)
    PROVE  /\ CallsIn(Keep(s, n)) \subseteq CallsIn(s) /\ CallsIn(Drop(s, n)) \subseteq CallsIn(s)
           /\ CallMsgs(Keep(s, n)) \subseteq CallMsgs(s) /\ CallMsgs(Drop(s, n)) \subseteq CallMsgs(s)
           /\ CallsOnce(s) => /\ CallsOnce(Keep(s, n)) /\ CallsOnce(Drop(s, n))
                              /\ CallsIn(Keep(s, n)) \cap CallsIn(Drop(s, n)) = {}
  <1> DEFINE a == Keep(s, n)
             b == Drop(s, n)
  <1>1. Len(s) \in Nat /\ DOMAIN s = 1..Len(s)
    BY LenProperties
  <1>2. /\ a \in Seq(S) /\ b \in Seq(S) /\ Len(a) = n /\ Len(b) = Len(s) - n
        /\ \A k \in 1..n : a[k] = s[k]
        /\ \A k \in 1..(Len(s) - n) : b[k] = s[n + k]
    BY KeepDropType
  <1> HIDE DEF a, b
  <1>3. DOMAIN a = 1..n /\ DOMAIN b = 1..(Len(s) - n)
    BY <1>2, LenProperties
  <1>4. /\ CallsIn(a) \subseteq CallsIn(s) /\ CallMsgs(a) \subseteq CallMsgs(s)
        /\ CallsOnce(s) => CallsOnce(a)
    <2>1. Len(a) + 0 <= Len(s)
      BY <1>1, <1>2
    <2>2. ASSUME NEW k \in 1..Len(a) PROVE a[k] = s[k + 0]
      <3>1. a[k] = s[k] /\ k + 0 = k
        BY <1>1, <1>2
      <3> QED  BY <3>1
    <2> QED  BY <2>1, <2>2, <1>2, WithinCalls
  <1>5. /\ CallsIn(b) \subseteq CallsIn(s) /\ CallMsgs(b) \subseteq CallMsgs(s)
        /\ CallsOnce(s) => CallsOnce(b)
    <2>1. n \in Nat /\ Len(b) + n <= Len(s)
      BY <1>1, <1>2
    <2>2. ASSUME NEW k \in 1..Len(b) PROVE b[k] = s[k + n]
      <3>1. b[k] = s[n + k] /\ n + k = k + n
        BY <1>1, <1>2
      <3> QED  BY <3>1
    <2> QED  BY <2>1, <2>2, <1>2, WithinCalls
  <1>6. ASSUME CallsOnce(s), NEW i \in CallsIn(a), i \in CallsIn(b) PROVE FALSE
    <2>1. PICK j \in DOMAIN a : a[j].kind = "call" /\ a[j].id = i
      BY <1>6 DEF CallsIn
    <2>2. PICK k \in DOMAIN b : b[k].kind = "call" /\ b[k].id = i
      BY <1>6 DEF CallsIn
    <2>3. /\ j \in DOMAIN s /\ n + k \in DOMAIN s /\ j # n + k
          /\ a[j] = s[j] /\ b[k] = s[n + k]
      BY <1>1, <1>2, <1>3
    <2> QED  BY <1>6, <2>1, <2>2, <2>3 DEF CallsOnce
  <1> QED  BY <1>4, <1>5, <1>6 DEF a, b

\* The first response of a chunk is the first of what is coming.
LEMMA TakeResponse ==
    ASSUME NEW S, NEW s \in Seq(S), NEW t \in Seq(S), s # <<>>
    PROVE  /\ IdsOf(s \o t) = IdsOf(Tail(s) \o t) \cup {Head(s).id}
           /\ IdsOnce(s \o t) => IdsOnce(Tail(s) \o t) /\ Head(s).id \notin IdsOf(Tail(s) \o t)
           /\ 1 \in DOMAIN (s \o t) /\ (s \o t)[1] = Head(s)
           /\ \A k \in DOMAIN (Tail(s) \o t) : k + 1 \in DOMAIN (s \o t)
                                             /\ (Tail(s) \o t)[k] = (s \o t)[k + 1]
  <1> DEFINE a == s \o t
             b == Tail(s) \o t
             n == Len(s) + Len(t)
  <1>1. /\ Len(s) \in Nat /\ Len(s) >= 1 /\ Head(s) = s[1]
        /\ Tail(s) \in Seq(S) /\ Len(Tail(s)) = Len(s) - 1
        /\ \A k \in 1..(Len(s) - 1) : Tail(s)[k] = s[k + 1]
        /\ Len(t) \in Nat
    BY HeadTailParts, LenProperties
  <1>2. /\ a \in Seq(S) /\ Len(a) = n
        /\ \A k \in 1..n : a[k] = IF k <= Len(s) THEN s[k] ELSE t[k - Len(s)]
    BY ConcatProperties
  <1>3. /\ b \in Seq(S) /\ Len(b) = (Len(s) - 1) + Len(t)
        /\ \A k \in 1..((Len(s) - 1) + Len(t)) :
              b[k] = IF k <= Len(s) - 1 THEN Tail(s)[k] ELSE t[k - (Len(s) - 1)]
    BY <1>1, ConcatProperties
  <1>4. DOMAIN a = 1..n /\ DOMAIN b = 1..(n - 1)
    BY <1>1, <1>2, <1>3, LenProperties
  <1> HIDE DEF a, b
  <1>5. 1 \in DOMAIN a /\ a[1] = Head(s)
    BY <1>1, <1>2, <1>4
  <1>6. ASSUME NEW k \in 1..(n - 1) PROVE k + 1 \in 1..n /\ b[k] = a[k + 1]
    <2>1. k + 1 \in 1..n /\ k \in 1..((Len(s) - 1) + Len(t)) /\ k \in Nat
      BY <1>1
    <2>2. CASE k <= Len(s) - 1
      BY <1>1, <1>2, <1>3, <2>1, <2>2
    <2>3. CASE ~(k <= Len(s) - 1)
      <3>1. ~(k + 1 <= Len(s)) /\ (k + 1) - Len(s) = k - (Len(s) - 1)
        BY <1>1, <2>1, <2>3
      <3>2. a[k + 1] = t[(k + 1) - Len(s)] /\ b[k] = t[k - (Len(s) - 1)]
        BY <1>2, <1>3, <2>1, <2>3, <3>1
      <3> QED  BY <2>1, <3>1, <3>2
    <2> QED  BY <2>2, <2>3
  <1>7. Len(b) + 1 <= Len(a) /\ \A k \in 1..Len(b) : b[k] = a[k + 1]
    BY <1>1, <1>2, <1>3, <1>6
  <1>8. IdsOf(b) \subseteq IdsOf(a) /\ (IdsOnce(a) => IdsOnce(b))
    BY <1>2, <1>3, <1>7, WithinCalls
  <1>9. \A k \in DOMAIN a : k # 1 => k - 1 \in DOMAIN b /\ a[k] = b[k - 1]
    <2>1. ASSUME NEW k \in 1..n, k # 1 PROVE k - 1 \in 1..(n - 1) /\ (k - 1) + 1 = k
      BY <1>1, <2>1
    <2> QED  BY <1>4, <1>6, <2>1
  <1>10. IdsOf(a) = IdsOf(b) \cup {Head(s).id}
    <2>1. Head(s).id \in IdsOf(a)
      BY <1>5 DEF IdsOf
    <2>2. ASSUME NEW i \in IdsOf(a), i # Head(s).id PROVE i \in IdsOf(b)
      <3>1. PICK k \in DOMAIN a : a[k].id = i
        BY DEF IdsOf
      <3>2. k - 1 \in DOMAIN b /\ b[k - 1].id = i
        BY <1>5, <1>9, <2>2, <3>1
      <3> QED  BY <3>2 DEF IdsOf
    <2> QED  BY <1>8, <2>1, <2>2
  <1>11. ASSUME IdsOnce(a), Head(s).id \in IdsOf(b) PROVE FALSE
    <2>1. PICK k \in DOMAIN b : b[k].id = Head(s).id
      BY <1>11 DEF IdsOf
    <2>2. k + 1 \in DOMAIN a /\ a[k + 1] = b[k] /\ k + 1 # 1
      BY <1>1, <1>4, <1>6
    <2> QED  BY <1>5, <1>11, <2>1, <2>2 DEF IdsOnce
  <1> QED  BY <1>4, <1>5, <1>6, <1>8, <1>10, <1>11 DEF a, b

\* A response that is sent is the last of what is coming.
LEMMA AddResponse ==
    ASSUME NEW S, NEW s \in Seq(S), NEW t \in Seq(S), NEW e \in S
    PROVE  s \o Append(t, e) = Append(s \o t, e)
  <1>1. <<e>> \in Seq(S)
    OBVIOUS
  <1>2. Append(t, e) = t \o <<e>> /\ s \o t \in Seq(S)
    BY AppendIsConcat, ConcatProperties
  <1>3. Append(s \o t, e) = (s \o t) \o <<e>>
    BY <1>2, AppendIsConcat
  <1> QED  BY <1>1, <1>2, <1>3, ConcatAssociative

\* When the end of a stream is lost, what is coming is a first part of it.
LEMMA LoseResponses ==
    ASSUME NEW S, NEW s \in Seq(S), NEW t \in Seq(S), NEW n \in 0..Len(t)
    PROVE  /\ IdsOf(s \o Keep(t, n)) \subseteq IdsOf(s \o t)
           /\ IdsOnce(s \o t) => IdsOnce(s \o Keep(t, n))
           /\ \A k \in DOMAIN (s \o Keep(t, n)) : k \in DOMAIN (s \o t)
                                                /\ (s \o Keep(t, n))[k] = (s \o t)[k]
  <1> DEFINE a == s \o t
             b == s \o Keep(t, n)
  <1>1. Len(s) \in Nat /\ Len(t) \in Nat
    BY LenProperties
  <1>2. Keep(t, n) \in Seq(S) /\ Len(Keep(t, n)) = n /\ \A k \in 1..n : Keep(t, n)[k] = t[k]
    BY KeepDropType
  <1>3. /\ a \in Seq(S) /\ Len(a) = Len(s) + Len(t)
        /\ \A k \in 1..(Len(s) + Len(t)) : a[k] = IF k <= Len(s) THEN s[k] ELSE t[k - Len(s)]
    BY ConcatProperties
  <1>4. /\ b \in Seq(S) /\ Len(b) = Len(s) + n
        /\ \A k \in 1..(Len(s) + n) : b[k] = IF k <= Len(s) THEN s[k] ELSE Keep(t, n)[k - Len(s)]
    BY ZenonT(60), <1>2, ConcatProperties
  <1>5. DOMAIN a = 1..(Len(s) + Len(t)) /\ DOMAIN b = 1..(Len(s) + n)
    BY <1>3, <1>4, LenProperties
  <1> HIDE DEF a, b
  <1>6. ASSUME NEW k \in 1..(Len(s) + n) PROVE k \in 1..(Len(s) + Len(t)) /\ b[k] = a[k]
    <2>1. k \in 1..(Len(s) + Len(t)) /\ (~(k <= Len(s)) => k - Len(s) \in 1..n)
      BY <1>1
    <2> QED  BY <1>2, <1>3, <1>4, <2>1
  <1>7. Len(b) + 0 <= Len(a) /\ \A k \in 1..Len(b) : b[k] = a[k + 0]
    <2>1. \A k \in 1..Len(b) : k + 0 = k
      BY <1>1, <1>4
    <2> QED  BY <1>1, <1>3, <1>4, <1>6, <2>1
  <1>8. IdsOf(b) \subseteq IdsOf(a) /\ (IdsOnce(a) => IdsOnce(b))
    BY <1>3, <1>4, <1>7, WithinCalls
  <1> QED  BY <1>5, <1>6, <1>8 DEF a, b

-----------------------------------------------------------------------------
(***************************************************************************)
(* Typing, numbering and the writer                                        *)
(***************************************************************************)
USE RpcNetAssumption, RpcClientAssumption

\* The constructed client has its types.
LEMMA ClientInitially == Init => ClientInv
  <1> SUFFICES ASSUME Init PROVE ClientInv
    OBVIOUS
  <1> USE DEF Init, ClientInit, NetInit, PeerInit
  <1>1. NetTypeOK /\ PeerTypeOK
    BY EmptySeq DEF NetTypeOK, PeerTypeOK
  <1>2. NewWriter \in Writer(Request)
    BY EmptySeq DEF NewWriter, Writer
  <1>3. ClientTypeOK
    <2>1. promise \in [Ids -> [state : {"unused", "waiting", "value", "error", "broken"},
                               of : Args \cup {"none"}]]
      BY DEF Unused
    <2>2. strand \in Seq(Task) /\ chunk \in Seq(Response) /\ writer \in Writer(Request)
      BY <1>2, EmptySeq
    <2>3. callIdx \in 0..MaxId
      OBVIOUS
    <2> QED  BY <2>1, <2>2, <2>3 DEF ClientTypeOK
  <1>4. WriterInv
    BY DEF WriterInv, OneWriteChain, NewWriter
  <1>5. NumberInv
    BY DEF NumberInv
  <1> QED  BY <1>1, <1>3, <1>4, <1>5 DEF ClientInv, TypeOK

\* A writer is what its fields are.
LEMMA WriterFields ==
    ASSUME NEW w \in Writer(Request)
    PROVE  /\ w = [queue |-> w.queue, inFlight |-> w.inFlight, stuck |-> w.stuck, exit |-> w.exit]
           /\ w.queue \in Seq(Request) /\ w.inFlight \in Nat
           /\ w.stuck \in BOOLEAN /\ w.exit \in BOOLEAN
  BY DEF Writer

\* write() queues a buffer and keeps the chain.
LEMMA WriteKeepsChain ==
    ASSUME writer \in Writer(Request), WriterInv, NEW m \in Request, writer' = write(writer, m)
    PROVE  writer' \in Writer(Request) /\ WriterInv' /\ writer'.queue = Append(writer.queue, m)
  <1> DEFINE q == Append(writer.queue, m)
  <1>1. /\ writer.queue \in Seq(Request) /\ writer.inFlight \in Nat
        /\ writer.stuck \in BOOLEAN /\ ~writer.exit
        /\ writer = [queue |-> writer.queue, inFlight |-> writer.inFlight,
                     stuck |-> writer.stuck, exit |-> writer.exit]
    BY WriterFields DEF WriterInv
  <1>2. q \in Seq(Request) /\ q # <<>> /\ Len(q) = Len(writer.queue) + 1 /\ Len(writer.queue) \in Nat
    BY <1>1, AppendParts
  <1>3. writer.queue # <<>> <=> Len(q) > 1
    BY <1>1, <1>2, EmptySeq
  <1> HIDE DEF q
  <1>4. writer' = IF Len(q) > 1 THEN [writer EXCEPT !.queue = q]
                  ELSE [writer EXCEPT !.queue = q, !.inFlight = @ + 1]
    <2>1. [writer EXCEPT !.queue = q].queue = q /\ ~[writer EXCEPT !.queue = q].exit
      BY <1>1
    <2> QED  BY <1>1, <2>1 DEF write, do_write, q
  <1>5. CASE Len(q) > 1
    <2>1. writer' = [queue |-> q, inFlight |-> writer.inFlight, stuck |-> writer.stuck, exit |-> writer.exit]
      BY <1>1, <1>4, <1>5
    <2> QED  BY <1>1, <1>2, <1>3, <1>5, <2>1 DEF q, Writer, WriterInv, OneWriteChain
  <1>6. CASE ~(Len(q) > 1)
    <2>1. writer' = [queue |-> q, inFlight |-> writer.inFlight + 1, stuck |-> writer.stuck, exit |-> writer.exit]
      BY <1>1, <1>4, <1>6
    <2> QED  BY <1>1, <1>2, <1>3, <1>6, <2>1 DEF q, Writer, WriterInv, OneWriteChain
  <1> QED  BY <1>5, <1>6

\* The handler of async_write takes the front, and keeps the chain.
LEMMA WriteDoneKeepsChain ==
    ASSUME writer \in Writer(Request), WriterInv, writer.inFlight > 0, writer' = write_done(writer)
    PROVE  /\ writer' \in Writer(Request) /\ WriterInv'
           /\ writer.queue # <<>> /\ writer'.queue = Tail(writer.queue)
  <1> DEFINE q == Tail(writer.queue)
             rest == [queue |-> q, inFlight |-> 0, stuck |-> writer.stuck, exit |-> writer.exit]
  <1>1. /\ writer.queue \in Seq(Request) /\ writer.inFlight \in Nat
        /\ writer.stuck \in BOOLEAN /\ ~writer.exit
        /\ writer = [queue |-> writer.queue, inFlight |-> writer.inFlight,
                     stuck |-> writer.stuck, exit |-> writer.exit]
    BY WriterFields DEF WriterInv
  <1>2. writer.queue # <<>> /\ ~writer.stuck /\ writer.inFlight = 1
    BY DEF WriterInv, OneWriteChain
  <1>3. q \in Seq(Request)
    BY <1>1, <1>2, HeadTailParts
  <1>4. [writer EXCEPT !.queue = Tail(@), !.inFlight = @ - 1] = rest
    <2>1. [writer EXCEPT !.queue = Tail(@), !.inFlight = @ - 1] =
              [writer EXCEPT !.queue = q, !.inFlight = @ - 1]
      OBVIOUS
    <2>2. [writer EXCEPT !.queue = q, !.inFlight = @ - 1] =
              [queue |-> q, inFlight |-> writer.inFlight - 1, stuck |-> writer.stuck, exit |-> writer.exit]
      <3> SUFFICES ASSUME NEW w, w = [writer EXCEPT !.queue = q, !.inFlight = @ - 1]
                   PROVE  w = [queue |-> q, inFlight |-> writer.inFlight - 1,
                               stuck |-> writer.stuck, exit |-> writer.exit]
        OBVIOUS
      <3> HIDE DEF q
      <3> QED  BY <1>1
    <2>3. writer.inFlight - 1 = 0
      BY <1>2
    <2> QED  BY <2>1, <2>2, <2>3
  <1>5. ~rest.exit /\ rest.queue = q /\ [rest EXCEPT !.inFlight = @ + 1] = [rest EXCEPT !.inFlight = 1]
    BY <1>1
  <1>6. writer' = IF q # <<>> THEN [rest EXCEPT !.inFlight = 1] ELSE rest
    <2> HIDE DEF rest, q
    <2> QED  BY <1>4, <1>5 DEF write_done, do_write
  <1> HIDE DEF q
  <1>7. CASE q # <<>>
    <2>1. writer' = [queue |-> q, inFlight |-> 1, stuck |-> writer.stuck, exit |-> writer.exit]
      BY <1>6, <1>7
    <2> QED  BY <1>1, <1>2, <1>3, <1>7, <2>1 DEF q, Writer, WriterInv, OneWriteChain
  <1>8. CASE q = <<>>
    <2>1. writer' = [queue |-> q, inFlight |-> 0, stuck |-> writer.stuck, exit |-> writer.exit]
      BY <1>6, <1>8
    <2> QED  BY <1>1, <1>2, <1>3, <1>8, <2>1 DEF q, Writer, WriterInv, OneWriteChain
  <1> QED  BY <1>7, <1>8

\* A failed write ends the chain for good.
LEMMA WriteFailedKeepsChain ==
    ASSUME writer \in Writer(Request), WriterInv, writer.inFlight > 0, writer' = write_failed(writer)
    PROVE  writer' \in Writer(Request) /\ WriterInv' /\ writer'.queue = writer.queue
  <1>1. /\ writer.queue \in Seq(Request) /\ writer.inFlight \in Nat
        /\ writer.stuck \in BOOLEAN /\ ~writer.exit /\ writer.exit \in BOOLEAN
        /\ writer = [queue |-> writer.queue, inFlight |-> writer.inFlight,
                     stuck |-> writer.stuck, exit |-> writer.exit]
    BY WriterFields DEF WriterInv
  <1>2. writer.queue # <<>> /\ ~writer.stuck /\ writer.inFlight = 1
    BY DEF WriterInv, OneWriteChain
  <1>3. writer' = [queue |-> writer.queue, inFlight |-> 0, stuck |-> TRUE, exit |-> writer.exit]
    <2>1. writer' = [queue |-> writer.queue, inFlight |-> writer.inFlight - 1, stuck |-> TRUE,
                     exit |-> writer.exit]
      BY <1>1 DEF write_failed
    <2>2. writer.inFlight - 1 = 0
      BY <1>2
    <2> QED  BY <2>1, <2>2
  <1> QED  BY <1>1, <1>2, <1>3 DEF Writer, WriterInv, OneWriteChain

-----------------------------------------------------------------------------
(***************************************************************************)
(* The steps of a thread                                                   *)
(***************************************************************************)
Thread == [pc : {"start", "connecting", "number", "post", "choose", "wait", "set", "done"},
           timed : BOOLEAN,
           id : Ids \cup {0},
           outcome : {"none", "value", "error", "broken", "timeout",
                      "system_error", "sent", "ok", "future_error"}]

\* Thread u moves, and only it.
Moves(u) ==
    /\ user' \in [User -> Thread]
    /\ \A v \in User : v # u => user'[v] = user[v]

\* Every step but taking a number and posting a call: the thread keeps its
\* id, or has none, and what it may have come from is known.
QuietStep(u) ==
    /\ Moves(u)
    /\ user[u].pc \notin {"number", "post"} /\ user'[u].pc # "post"
    /\ user'[u].id = user[u].id
    /\ user'[u].pc \in {"start", "connecting", "number", "set"} => user[u].pc \in {"start", "connecting", "set"}
    /\ user'[u].pc \in {"choose", "wait"} => user[u].pc \in {"choose", "wait"}
    /\ \/ user'[u].outcome = user[u].outcome
       \/ user'[u].outcome \notin {"value", "error", "broken"}
       \/ user[u].pc = "wait" /\ user'[u].outcome = promise[user[u].id].state
    /\ strand' \in {strand, Append(strand, [kind |-> "note", id |-> 0, arg |-> u])}
    /\ life' = life \/ (life \in {"up", "idle"} /\ life' = "crashed")
    /\ timeout' \in BOOLEAN
    /\ UNCHANGED <<state, isConnected, connectionEc, callIdx, ongoing, promise, writer,
                   reading, chunk, netVars>>

\* The types that a thread's step starts from.
LEMMA ThreadTypes ==
    ASSUME ClientTypeOK, NEW u \in User
    PROVE  /\ user \in [User -> Thread]
           /\ user[u].timed \in BOOLEAN /\ user[u].id \in Ids \cup {0}
           /\ user[u].outcome \in {"none", "value", "error", "broken", "timeout",
                                    "system_error", "sent", "ok", "future_error"}
  <1>1. user \in [User -> Thread]
    BY DEF ClientTypeOK, Thread
  <1>2. user[u] \in Thread
    BY <1>1
  <1> QED  BY <1>1, <1>2 DEF Thread

\* What Ends() does.
LEMMA EndsMoves ==
    ASSUME ClientTypeOK, NEW u \in User, NEW outcome, Ends(u, outcome),
           outcome \in {"value", "error", "broken", "timeout", "system_error", "sent", "ok", "future_error"}
    PROVE  /\ Moves(u)
           /\ user'[u].pc = "done" /\ user'[u].id = user[u].id /\ user'[u].outcome = outcome
  <1>0. /\ user \in [User -> Thread]
        /\ user' = [user EXCEPT ![u].pc = "done", ![u].timed = FALSE, ![u].outcome = outcome]
    BY ThreadTypes DEF Ends
  <1>1. DOMAIN user' = User /\ \A v \in User : v # u => user'[v] = user[v]
    BY <1>0
  <1>2. user'[u].pc = "done" /\ user'[u].id = user[u].id /\ user'[u].outcome = outcome
    BY <1>0 DEF Thread
  <1>3. user'[u] \in Thread
    BY <1>0 DEF Thread
  <1>4. user' \in [User -> Thread]
    BY <1>0, <1>1, <1>3
  <1> QED  BY <1>1, <1>2, <1>4 DEF Moves

\* What the steps that only move a thread do.
LEMMA GoesMoves ==
    ASSUME ClientTypeOK, NEW u \in User, NEW timed \in BOOLEAN,
           NEW pc \in {"start", "connecting", "number", "choose", "wait", "set"},
           \/ user' = [user EXCEPT ![u].pc = pc, ![u].timed = timed]
           \/ user' = [user EXCEPT ![u].pc = pc]
    PROVE  /\ Moves(u)
           /\ user'[u].pc = pc /\ user'[u].id = user[u].id /\ user'[u].outcome = user[u].outcome
  <1>0. user \in [User -> Thread]
    BY ThreadTypes
  <1>1. DOMAIN user' = User /\ \A v \in User : v # u => user'[v] = user[v]
    BY <1>0
  <1>2. user'[u].pc = pc /\ user'[u].id = user[u].id /\ user'[u].outcome = user[u].outcome
    BY <1>0 DEF Thread
  <1>3. user'[u] \in Thread
    BY <1>0 DEF Thread
  <1>4. user' \in [User -> Thread]
    BY <1>0, <1>1, <1>3
  <1> QED  BY <1>1, <1>2, <1>4 DEF Moves

\* A step of a thread takes a number, posts a call or is quiet.
LEMMA ThreadSteps ==
    ASSUME ClientTypeOK, NEW u \in User, UserNext(u)
    PROVE  NextCallIdx(u) \/ PostCall(u) \/ QuietStep(u)
  <1> USE DEF QuietStep, AtPc
  <1>0. timeout \in BOOLEAN
    BY DEF ClientTypeOK
  <1>1. CASE WaitConn(u)
    <2>1. CASE user' = [user EXCEPT ![u].pc = "number"]
      BY <1>0, <1>1, <2>1, GoesMoves DEF WaitConn
    <2>2. CASE Ends(u, "system_error")
      BY <1>0, <1>1, <2>2, EndsMoves DEF WaitConn
    <2>3. CASE user' = [user EXCEPT ![u].pc = "connecting", ![u].timed = timeout]
      BY <1>0, <1>1, <2>3, GoesMoves DEF WaitConn
    <2> QED  BY <1>1, <2>1, <2>2, <2>3 DEF WaitConn
  <1>2. CASE ConnFinished(u)
    BY <1>0, <1>2, GoesMoves DEF ConnFinished
  <1>3. ASSUME TimesOut(u), user[u].pc \in {"connecting", "wait"}
        PROVE  /\ Moves(u) /\ life' \in {life, "crashed"} /\ user'[u].id = user[u].id
               /\ \/ user'[u].pc = "done" /\ user'[u].outcome = "timeout"
                  \/ user'[u] = user[u]
    <2>1. CASE Ends(u, "timeout") /\ UNCHANGED life
      BY <2>1, EndsMoves
    <2>2. CASE life' = "crashed" /\ UNCHANGED user
      BY <2>2, ThreadTypes DEF Moves
    <2> QED  BY <1>3, <2>1, <2>2 DEF TimesOut
  <1>4. CASE ConnectTimesOut(u)
    BY <1>0, <1>3, <1>4 DEF ConnectTimesOut
  <1>5. CASE ChooseWait(u)
    BY <1>0, <1>5, GoesMoves DEF ChooseWait
  <1>6. CASE Send(u)
    BY <1>0, <1>6, EndsMoves DEF Send
  <1>7. CASE SetTimeout(u)
    BY <1>7, GoesMoves DEF SetTimeout
  <1>8. CASE ClearTimeout(u)
    <2>1. timeout' \in BOOLEAN /\ Ends(u, "ok") /\ user[u].pc = "set"
      BY <1>8 DEF ClearTimeout
    <2>2. Moves(u) /\ user'[u].pc = "done" /\ user'[u].id = user[u].id /\ user'[u].outcome = "ok"
      BY <2>1, EndsMoves
    <2> QED  BY <1>8, <2>1, <2>2 DEF ClearTimeout
  <1>9. CASE GetResult(u)
    BY <1>0, <1>9, EndsMoves DEF GetResult
  <1>10. CASE CallTimesOut(u)
    BY <1>0, <1>3, <1>10 DEF CallTimesOut
  <1>11. CASE WaitAllResponses(u)
    <2>1. ASSUME NEW o \in {"ok", "future_error"}, Ends(u, o), UNCHANGED life PROVE QuietStep(u)
      BY <1>0, <1>11, <2>1, EndsMoves DEF WaitAllResponses
    <2>2. CASE life' = "crashed" /\ UNCHANGED user
      BY <1>0, <1>11, <2>2, ThreadTypes DEF WaitAllResponses, Moves
    <2> HIDE DEF QuietStep
    <2> QED  BY <1>11, <2>1, <2>2 DEF WaitAllResponses
  <1> QED  BY <1>1, <1>2, <1>4, <1>5, <1>6, <1>7, <1>8, <1>9, <1>10, <1>11 DEF UserNext

\* get_next_call_idx() yields an id that is within the bound.
LEMMA NumberMoves ==
    ASSUME ClientTypeOK, NEW u \in User, NextCallIdx(u)
    PROVE  /\ Moves(u)
           /\ user'[u].pc = "post" /\ user'[u].id = callIdx + 1 /\ user'[u].outcome = user[u].outcome
           /\ callIdx \in Nat /\ callIdx + 1 \in Ids /\ callIdx + 1 \in 0..MaxId
  <1>0. /\ user \in [User -> Thread] /\ callIdx \in Nat
        /\ callIdx + 1 \in Ids /\ callIdx + 1 \in 0..MaxId
        /\ user' = [user EXCEPT ![u].pc = "post", ![u].id = callIdx + 1]
    BY ThreadTypes DEF NextCallIdx, ClientTypeOK, Ids
  <1>1. DOMAIN user' = User /\ \A v \in User : v # u => user'[v] = user[v]
    BY <1>0
  <1>2. user'[u].pc = "post" /\ user'[u].id = callIdx + 1 /\ user'[u].outcome = user[u].outcome
    BY <1>0 DEF Thread
  <1>3. user'[u] \in Thread
    BY <1>0 DEF Thread
  <1>4. user' \in [User -> Thread]
    BY <1>0, <1>1, <1>3
  <1> QED  BY <1>0, <1>1, <1>2, <1>4 DEF Moves

\* post() hands over a call with an id.
LEMMA PostMoves ==
    ASSUME ClientTypeOK, NumberInv, NEW u \in User, PostCall(u)
    PROVE  /\ Moves(u)
           /\ user'[u].pc \in {"choose", "wait"} /\ user'[u].id = user[u].id
           /\ user'[u].outcome = user[u].outcome
           /\ user[u].id \in Ids
           /\ [kind |-> "call", id |-> user[u].id, arg |-> u] \in Call
  <1>1. PICK pc \in {"choose", "wait"} : user' = [user EXCEPT ![u].pc = pc]
    BY DEF PostCall
  <1>2. /\ Moves(u) /\ user'[u].pc = pc /\ user'[u].id = user[u].id
        /\ user'[u].outcome = user[u].outcome
    BY <1>1, GoesMoves
  <1>3. user[u].id \in Ids
    <2>1. user[u].pc = "post"
      BY DEF PostCall, AtPc
    <2>2. user[u].id # 0
      BY <2>1 DEF NumberInv
    <2> QED  BY <2>2, ThreadTypes
  <1>4. u \in Args
    OBVIOUS
  <1> QED  BY <1>2, <1>3, <1>4 DEF Call

-----------------------------------------------------------------------------
(***************************************************************************)
(* Types, numbers and the writer are kept by every step.                   *)
(***************************************************************************)
\* The thread part of the types.
LEMMA ThreadTypeKept ==
    ASSUME NEW u \in User, Moves(u)
    PROVE  user' \in [User -> [pc : {"start", "connecting", "number", "post", "choose", "wait", "set", "done"},
                               timed : BOOLEAN,
                               id : Ids \cup {0},
                               outcome : {"none", "value", "error", "broken", "timeout",
                                          "system_error", "sent", "ok", "future_error"}]]
  BY DEF Moves, Thread

\* The steps of the threads.
LEMMA ClientInvThread ==
    ASSUME ClientInv, NEW u \in User, UserNext(u), UNCHANGED accepted
    PROVE  ClientInv'
  <1> USE DEF ClientInv, TypeOK
  <1>1. CASE NextCallIdx(u)
    <2>1. /\ Moves(u)
          /\ user'[u].pc = "post" /\ user'[u].id = callIdx + 1
          /\ callIdx \in Nat /\ callIdx + 1 \in Ids /\ callIdx + 1 \in 0..MaxId
      BY <1>1, NumberMoves
    <2>2. /\ callIdx' = callIdx + 1 /\ promise' = [promise EXCEPT ![callIdx + 1] = Waiting]
          /\ UNCHANGED <<state, isConnected, connectionEc, timeout, strand, ongoing, writer,
                         reading, chunk, life, netVars>>
      BY <1>1 DEF NextCallIdx
    <2>3. promise' \in [Ids -> [state : {"unused", "waiting", "value", "error", "broken"},
                                of : Args \cup {"none"}]]
      BY <2>1, <2>2 DEF ClientTypeOK, Waiting
    <2>4. ClientTypeOK'
      BY <2>1, <2>2, <2>3, ThreadTypeKept DEF ClientTypeOK
    <2>5. NumberInv'
      <3>1. \A v \in User : user[v].id \in Nat /\ user[v].id <= callIdx
        BY ThreadTypes DEF NumberInv, Ids
      <3>2. \A v \in User : v # u => user'[v] = user[v]
        BY <2>1 DEF Moves
      <3> QED  BY <2>1, <2>2, <3>1, <3>2 DEF NumberInv
    <2>6. NetTypeOK' /\ PeerTypeOK' /\ WriterInv'
      BY <2>2 DEF NetTypeOK, netVars, PeerTypeOK, WriterInv, OneWriteChain
    <2> QED  BY <2>4, <2>5, <2>6
  <1>2. CASE PostCall(u)
    <2> DEFINE task == [kind |-> "call", id |-> user[u].id, arg |-> u]
    <2>1. /\ Moves(u)
          /\ user'[u].pc \in {"choose", "wait"} /\ user'[u].id = user[u].id
          /\ user[u].id \in Ids /\ task \in Call
      BY <1>2, PostMoves
    <2>2. /\ strand' = Append(strand, task)
          /\ UNCHANGED <<state, isConnected, connectionEc, timeout, callIdx, ongoing, promise,
                         writer, reading, chunk, life, netVars>>
      BY <1>2 DEF PostCall
    <2>3. task \in Task
      BY <2>1 DEF Task, Request
    <2> HIDE DEF task
    <2>4. strand' \in Seq(Task)
      BY <2>2, <2>3, AppendParts DEF ClientTypeOK
    <2>5. ClientTypeOK'
      BY <2>1, <2>2, <2>4, ThreadTypeKept DEF ClientTypeOK
    <2>6. NumberInv'
      <3>1. \A v \in User : user'[v].id = user[v].id
        BY <2>1 DEF Moves
      <3>2. user[u].id # 0
        BY <2>1 DEF Ids
      <3> QED  BY <2>1, <2>2, <3>1, <3>2 DEF NumberInv, Moves
    <2>7. NetTypeOK' /\ PeerTypeOK' /\ WriterInv'
      BY <2>2 DEF NetTypeOK, netVars, PeerTypeOK, WriterInv, OneWriteChain
    <2> QED  BY <2>5, <2>6, <2>7
  <1>3. CASE QuietStep(u)
    <2> USE <1>3 DEF QuietStep
    <2>1. strand' \in Seq(Task)
      <3>1. [kind |-> "note", id |-> 0, arg |-> u] \in Task
        BY DEF Task, Request, Note
      <3>2. strand \in Seq(Task)
        BY DEF ClientTypeOK
      <3>3. Append(strand, [kind |-> "note", id |-> 0, arg |-> u]) \in Seq(Task)
        BY <3>1, <3>2, AppendProperties
      <3> QED  BY <3>2, <3>3
    <2>2. life' \in {"up", "idle", "stopping", "destroyed", "crashed"}
      BY DEF ClientTypeOK
    <2>3. ClientTypeOK'
      BY <2>1, <2>2, ThreadTypeKept DEF ClientTypeOK
    <2>4. NumberInv'
      <3>1. \A v \in User : user'[v].id = user[v].id
        BY DEF Moves
      <3> QED  BY <3>1 DEF NumberInv, Moves
    <2>5. NetTypeOK' /\ PeerTypeOK' /\ WriterInv'
      BY DEF NetTypeOK, netVars, PeerTypeOK, WriterInv, OneWriteChain
    <2> QED  BY <2>3, <2>4, <2>5
  <1> QED  BY <1>1, <1>2, <1>3, ThreadSteps

\* The steps of the I/O thread and of the destructor.
LEMMA ClientInvIo ==
    ASSUME ClientInv, IoNext \/ DestroyNext, UNCHANGED accepted
    PROVE  ClientInv'
  <1> USE DEF ClientInv, TypeOK
  <1>1. /\ strand \in Seq(Task) /\ writer \in Writer(Request) /\ chunk \in Seq(Response)
        /\ up \in [Conns -> Seq(Request)] /\ down \in [Conns -> Seq(Response)]
        /\ gone \in [Conns -> BOOLEAN] /\ 1 \in Conns
        /\ WriterInv
    BY DEF ClientTypeOK, NetTypeOK, Conns
  <1>2. CASE Connected
    BY <1>2 DEF Connected, ClientTypeOK, NetTypeOK, netVars, PeerTypeOK, WriterInv, OneWriteChain, NumberInv
  <1>3. CASE ConnectFails
    <2>1. gone' \in [Conns -> BOOLEAN]
      BY <1>1, <1>3 DEF ConnectFails
    <2> QED  BY <1>3, <2>1 DEF ConnectFails, ClientTypeOK, NetTypeOK, PeerTypeOK, WriterInv, OneWriteChain, NumberInv
  <1>4. CASE RunStrand
    <2> DEFINE task == Head(strand)
    <2>1. task \in Task /\ Tail(strand) \in Seq(Task)
      BY <1>1, <1>4, HeadTailParts DEF RunStrand
    <2>2. /\ strand' = Tail(strand)
          /\ UNCHANGED <<state, isConnected, connectionEc, timeout, callIdx, promise, reading,
                         chunk, life, user, netVars>>
          /\ \/ task.kind = "call" /\ ongoing' = ongoing \cup {task.id} /\ writer' = write(writer, task)
             \/ task.kind = "note" /\ ongoing' = ongoing /\ writer' = write(writer, task)
             \/ task.kind = "erase" /\ ongoing' = ongoing \ {task.id} /\ writer' = writer
      BY <1>4, <2>1 DEF RunStrand, Task, Request, Call, Note
    <2> HIDE DEF task
    <2>3. /\ task.kind = "call" => task \in Request /\ task.id \in Ids
          /\ task.kind = "note" => task \in Request
      BY <2>1 DEF Task, Request, Call, Note
    <2>4. writer' \in Writer(Request) /\ WriterInv'
      <3>1. CASE writer' = writer
        BY <1>1, <3>1 DEF WriterInv, OneWriteChain
      <3>2. CASE task \in Request /\ writer' = write(writer, task)
        BY <1>1, <3>2, WriteKeepsChain
      <3> QED  BY <2>2, <2>3, <3>1, <3>2
    <2>5. ongoing' \subseteq Ids
      BY <2>2, <2>3 DEF ClientTypeOK
    <2> QED  BY <2>1, <2>2, <2>4, <2>5 DEF ClientTypeOK, NetTypeOK, netVars, PeerTypeOK, NumberInv
  <1>5. CASE WriteCompletes
    <2>1. /\ writer.inFlight > 0 /\ writer' = write_done(writer)
          /\ up' = IF gone[1] THEN up ELSE [up EXCEPT ![1] = Append(@, Head(writer.queue))]
          /\ UNCHANGED <<state, isConnected, connectionEc, timeout, callIdx, strand, ongoing,
                         promise, reading, chunk, life, user, down, gone>>
      BY <1>5 DEF WriteCompletes
    <2>2. writer' \in Writer(Request) /\ WriterInv' /\ writer.queue # <<>>
      BY <1>1, <2>1, WriteDoneKeepsChain
    <2>3. Head(writer.queue) \in Request
      BY <1>1, <2>2, WriterFields, HeadTailParts
    <2>4. Append(up[1], Head(writer.queue)) \in Seq(Request)
      BY <1>1, <2>3, AppendParts
    <2>5. up' \in [Conns -> Seq(Request)]
      BY <1>1, <2>1, <2>4
    <2> QED  BY <2>1, <2>2, <2>5 DEF ClientTypeOK, NetTypeOK, PeerTypeOK, NumberInv
  <1>6. CASE WriteFails
    <2>1. writer' \in Writer(Request) /\ WriterInv'
      BY <1>1, <1>6, WriteFailedKeepsChain DEF WriteFails
    <2> QED  BY <1>6, <2>1 DEF WriteFails, ClientTypeOK, NetTypeOK, netVars, PeerTypeOK, NumberInv
  <1>7. CASE ReadCompletes
    <2>1. PICK n \in 1..Len(down[1]) : chunk' = Keep(down[1], n) /\ down' = [down EXCEPT ![1] = Drop(@, n)]
      BY <1>7 DEF ReadCompletes
    <2>2. down[1] \in Seq(Response) /\ n \in 0..Len(down[1])
      BY <1>1
    <2>3. Keep(down[1], n) \in Seq(Response) /\ Drop(down[1], n) \in Seq(Response)
      BY <2>2, KeepDropType
    <2>4. chunk' \in Seq(Response) /\ down' \in [Conns -> Seq(Response)]
      BY <1>1, <2>1, <2>3
    <2> QED  BY <1>7, <2>4 DEF ReadCompletes, ClientTypeOK, NetTypeOK, PeerTypeOK, WriterInv, OneWriteChain, NumberInv
  <1>8. CASE HandleResponse
    <2> DEFINE r == Head(chunk)
               erase == [kind |-> "erase", id |-> r.id]
    <2>1. r \in Response /\ Tail(chunk) \in Seq(Response)
      BY <1>1, <1>8, HeadTailParts DEF HandleResponse
    <2>2. /\ promise' \in {promise, [promise EXCEPT ![r.id] = Decided(r)]}
          /\ life' \in {life, "crashed"}
          /\ ongoing' = ongoing \cup {r.id}
          /\ strand' = Append(strand, erase)
          /\ chunk' = Tail(chunk) /\ reading' = (Len(chunk) = 1)
          /\ UNCHANGED <<state, isConnected, connectionEc, timeout, callIdx, writer, user, netVars>>
      BY <1>8 DEF HandleResponse
    <2>3. r.id \in Ids /\ r.of \in Args
      BY <2>1 DEF Response
    <2>4. erase \in Task
      BY <2>3 DEF Task
    <2> HIDE DEF r
    <2>5. Append(strand, erase) \in Seq(Task)
      <3> HIDE DEF erase
      <3> QED  BY <1>1, <2>4, AppendParts
    <2>6. promise' \in [Ids -> [state : {"unused", "waiting", "value", "error", "broken"},
                                of : Args \cup {"none"}]]
      <3>1. Decided(r) \in [state : {"unused", "waiting", "value", "error", "broken"},
                            of : Args \cup {"none"}]
        BY <2>3 DEF Decided
      <3> QED  BY <2>2, <2>3, <3>1 DEF ClientTypeOK
    <2>7. ongoing' \subseteq Ids /\ life' \in {"up", "idle", "stopping", "destroyed", "crashed"}
      BY <2>2, <2>3 DEF ClientTypeOK
    <2>8. reading' \in BOOLEAN
      BY <2>2
    <2>9. ClientTypeOK'
      BY <2>1, <2>2, <2>5, <2>6, <2>7, <2>8 DEF ClientTypeOK
    <2> QED  BY <2>2, <2>9 DEF NetTypeOK, netVars, PeerTypeOK, WriterInv, OneWriteChain, NumberInv
  <1>9. CASE ReadFails
    BY <1>9 DEF ReadFails, ClientTypeOK, NetTypeOK, netVars, PeerTypeOK, WriterInv, OneWriteChain, NumberInv
  <1>10. CASE RunReturns
    BY <1>10 DEF RunReturns, ClientTypeOK, NetTypeOK, netVars, PeerTypeOK, WriterInv, OneWriteChain, NumberInv
  <1>11. CASE DestroyStop
    BY <1>11 DEF DestroyStop, ClientTypeOK, NetTypeOK, netVars, PeerTypeOK, WriterInv, OneWriteChain, NumberInv
  <1>12. CASE DestroyJoined
    <2>1. promise' \in [Ids -> [state : {"unused", "waiting", "value", "error", "broken"},
                                of : Args \cup {"none"}]]
      BY <1>12 DEF DestroyJoined, ClientTypeOK, Broken
    <2>2. gone' \in [Conns -> BOOLEAN] /\ strand' \in Seq(Task)
      BY <1>1, <1>12, EmptySeq DEF DestroyJoined
    <2> QED  BY <1>12, <2>1, <2>2 DEF DestroyJoined, ClientTypeOK, NetTypeOK, PeerTypeOK, WriterInv, OneWriteChain, NumberInv
  <1> QED  BY <1>2, <1>3, <1>4, <1>5, <1>6, <1>7, <1>8, <1>9, <1>10, <1>11, <1>12 DEF IoNext, DestroyNext

\* What a server does leaves the client alone.
LEMMA ClientInvServer ==
    ASSUME ClientInv, ServerStep
    PROVE  ClientInv'
  <1> USE DEF ClientInv, TypeOK
  <1>1. /\ up \in [Conns -> Seq(Request)] /\ down \in [Conns -> Seq(Response)]
        /\ accepted \in [Conns -> SUBSET Call] /\ 1 \in Conns
    BY DEF NetTypeOK, PeerTypeOK, Conns
  <1>2. UNCHANGED rpcVars
    BY DEF ServerStep
  <1>3. ClientTypeOK' /\ WriterInv' /\ NumberInv'
    BY <1>2 DEF rpcVars, ClientTypeOK, WriterInv, OneWriteChain, NumberInv
  <1>4. CASE PeerTake(1)
    <2>1. PICK n \in 1..Len(up[1]) :
             /\ up' = [up EXCEPT ![1] = Drop(@, n)]
             /\ accepted' = [accepted EXCEPT ![1] = @ \cup ({up[1][k] : k \in 1..n} \cap Call)]
      BY <1>4 DEF PeerTake
    <2>2. up[1] \in Seq(Request) /\ n \in 0..Len(up[1])
      BY <1>1
    <2>3. Drop(up[1], n) \in Seq(Request)
      BY <2>2, KeepDropType
    <2>4. up' \in [Conns -> Seq(Request)] /\ accepted' \in [Conns -> SUBSET Call]
      BY <1>1, <2>1, <2>3
    <2> QED  BY <1>3, <1>4, <2>4 DEF PeerTake, NetTypeOK, PeerTypeOK
  <1>5. ASSUME NEW call \in accepted[1], PeerAnswer(1, call) PROVE ClientInv'
    <2>1. PICK failed \in BOOLEAN :
             down' = [down EXCEPT ![1] = Append(@, [id |-> call.id, error |-> failed, of |-> call.arg])]
      BY <1>5 DEF PeerAnswer
    <2>2. call \in Call
      BY <1>1
    <2>3. [id |-> call.id, error |-> failed, of |-> call.arg] \in Response
      BY <2>2 DEF Call, Response
    <2>4. Append(down[1], [id |-> call.id, error |-> failed, of |-> call.arg]) \in Seq(Response)
      BY <1>1, <2>3, AppendProperties
    <2>5. down' \in [Conns -> Seq(Response)]
      BY <1>1, <2>1, <2>4
    <2>6. accepted' \in [Conns -> SUBSET Call]
      BY <1>1, <1>5 DEF PeerAnswer
    <2> QED  BY <1>3, <1>5, <2>5, <2>6 DEF PeerAnswer, NetTypeOK, PeerTypeOK
  <1>6. ASSUME NEW call \in accepted[1], PeerForget(1, call) PROVE ClientInv'
    <2>1. accepted' \in [Conns -> SUBSET Call]
      BY <1>1, <1>6 DEF PeerForget
    <2> QED  BY <1>3, <1>6, <2>1 DEF PeerForget, netVars, NetTypeOK, PeerTypeOK
  <1> QED  BY <1>4, <1>5, <1>6 DEF ServerStep, PeerNext

\* A connection that drops keeps first parts of its streams.
LEMMA ClientInvDrops ==
    ASSUME ClientInv, ConnectionDrops
    PROVE  ClientInv'
  <1> USE DEF ClientInv, TypeOK
  <1>1. /\ up \in [Conns -> Seq(Request)] /\ down \in [Conns -> Seq(Response)]
        /\ gone \in [Conns -> BOOLEAN] /\ 1 \in Conns
    BY DEF NetTypeOK, Conns
  <1>2. UNCHANGED <<rpcVars, accepted>>
    BY DEF ConnectionDrops
  <1>3. ClientTypeOK' /\ WriterInv' /\ NumberInv' /\ PeerTypeOK'
    BY <1>2 DEF rpcVars, ClientTypeOK, WriterInv, OneWriteChain, NumberInv, PeerTypeOK
  <1>4. PICK n \in 0..Len(up[1]) : up' = [up EXCEPT ![1] = Keep(up[1], n)]
    BY DEF ConnectionDrops, Drops
  <1>5. PICK m \in 0..Len(down[1]) : down' = [down EXCEPT ![1] = Keep(down[1], m)]
    BY DEF ConnectionDrops, Drops
  <1>6. Keep(up[1], n) \in Seq(Request) /\ Keep(down[1], m) \in Seq(Response)
    BY <1>1, KeepDropType
  <1>7. up' \in [Conns -> Seq(Request)] /\ down' \in [Conns -> Seq(Response)]
    BY <1>1, <1>4, <1>5, <1>6
  <1>8. gone' \in [Conns -> BOOLEAN]
    BY <1>1 DEF ConnectionDrops, Drops
  <1> QED  BY <1>3, <1>7, <1>8 DEF NetTypeOK

\* Every step keeps types, numbers and the writer.
LEMMA ClientStep == ClientInv /\ [Next]_vars => ClientInv'
  <1> SUFFICES ASSUME ClientInv, [Next]_vars PROVE ClientInv'
    OBVIOUS
  <1>1. CASE UNCHANGED vars
    BY <1>1 DEF vars, rpcVars, netVars, ClientInv, TypeOK, ClientTypeOK, NetTypeOK, PeerTypeOK,
                WriterInv, OneWriteChain, NumberInv
  <1>2. CASE ClientNext /\ UNCHANGED accepted
    BY <1>2, ClientInvIo, ClientInvThread DEF ClientNext
  <1> QED  BY <1>1, <1>2, ClientInvServer, ClientInvDrops DEF Next

\* In every reachable state, all variables have their types.
THEOREM TypeCorrect == Spec => []TypeOK
  <1>1. ClientInv => TypeOK
    BY DEF ClientInv
  <1> QED  BY <1>1, ClientInitially, ClientStep, PTL DEF Spec

(***************************************************************************)
(* The writer never has two async_writes under way and never forgets to    *)
(* start the next one, however handlers of post() and of async_write       *)
(* alternate: one runs while the queue is not empty, until an error.       *)
(***************************************************************************)
THEOREM OneWriteChainHolds == Spec => []OneWriteChain
  <1>1. ClientInv => OneWriteChain
    BY DEF ClientInv, WriterInv
  <1> QED  BY <1>1, ClientInitially, ClientStep, PTL DEF Spec

-----------------------------------------------------------------------------
(***************************************************************************)
(* The chain of reads                                                      *)
(***************************************************************************)
\* Every step keeps a read pending or handled while there is a connection.
LEMMA ReadStep == ClientInv /\ ReadInv /\ [Next]_vars => ReadInv'
  <1> SUFFICES ASSUME ClientInv, ReadInv, [Next]_vars PROVE ReadInv'
    OBVIOUS
  <1> USE DEF ReadInv
  <1>1. /\ ClientTypeOK /\ chunk \in Seq(Response) /\ down[1] \in Seq(Response)
        /\ gone \in [Conns -> BOOLEAN] /\ 1 \in Conns
    BY DEF ClientInv, TypeOK, ClientTypeOK, NetTypeOK, Conns
  <1>2. CASE UNCHANGED vars
    BY <1>2 DEF vars, rpcVars, netVars
  <1>3. ASSUME NEW u \in User, UserNext(u) PROVE ReadInv'
    <2>1. CASE NextCallIdx(u) \/ PostCall(u)
      BY <2>1 DEF NextCallIdx, PostCall, netVars
    <2>2. CASE QuietStep(u)
      BY <2>2 DEF QuietStep, netVars
    <2> QED  BY <1>1, <1>3, <2>1, <2>2, ThreadSteps
  <1>4. CASE Connected
    BY <1>4 DEF Connected, IoIdle, netVars
  <1>5. CASE ConnectFails
    BY <1>1, <1>5 DEF ConnectFails, IoIdle
  <1>6. CASE RunStrand
    BY <1>6 DEF RunStrand, IoIdle, netVars
  <1>7. CASE WriteCompletes
    BY <1>7 DEF WriteCompletes, IoIdle
  <1>8. CASE WriteFails
    BY <1>8 DEF WriteFails, IoIdle, netVars
  <1>9. CASE ReadCompletes
    <2>1. PICK n \in 1..Len(down[1]) : chunk' = Keep(down[1], n)
      BY <1>9 DEF ReadCompletes
    <2>2. n \in 0..Len(down[1]) /\ n # 0
      BY <1>1
    <2>3. Keep(down[1], n) \in Seq(Response) /\ Len(Keep(down[1], n)) = n
      BY <1>1, <2>2, KeepDropType
    <2>4. chunk' # <<>>
      BY <2>1, <2>2, <2>3, EmptySeq
    <2> QED  BY <1>9, <2>4 DEF ReadCompletes, IoIdle
  <1>10. CASE HandleResponse
    <2>1. /\ chunk # <<>> /\ chunk' = Tail(chunk) /\ reading' = (Len(chunk) = 1)
          /\ life \in {"up", "stopping"} /\ life' \in {life, "crashed"}
      BY <1>10 DEF HandleResponse
    <2>2. Tail(chunk) \in Seq(Response) /\ Len(Tail(chunk)) = Len(chunk) - 1 /\ Len(chunk) \in Nat
      BY <1>1, <2>1, HeadTailParts
    <2>3. chunk' = <<>> => Len(chunk) = 1
      BY <2>1, <2>2, EmptySeq
    <2>4. chunk' = <<>> => reading'
      BY <2>1, <2>3
    <2> QED  BY <2>1, <2>4
  <1>11. CASE ReadFails
    BY <1>11 DEF ReadFails, IoIdle, netVars
  <1>12. CASE RunReturns
    BY <1>12 DEF RunReturns, IoIdle, netVars
  <1>13. CASE DestroyStop \/ DestroyJoined
    BY <1>13 DEF DestroyStop, DestroyJoined
  <1>14. CASE ServerStep
    BY <1>14 DEF ServerStep, rpcVars, PeerNext, PeerTake, PeerAnswer, PeerForget, netVars
  <1>15. CASE ConnectionDrops
    BY <1>1, <1>15 DEF ConnectionDrops, Drops, rpcVars
  <1> QED  BY <1>2, <1>3, <1>4, <1>5, <1>6, <1>7, <1>8, <1>9, <1>10, <1>11, <1>12, <1>13, <1>14, <1>15
           DEF Next, ClientNext, IoNext, DestroyNext

(***************************************************************************)
(* io_service::run() returns, after which no response is handled any more, *)
(* only if the connection is gone: handling responses, timeouts and erases *)
(* never leaves the client without a pending read.                         *)
(***************************************************************************)
THEOREM RunsWhileConnectedHolds == Spec => []RunsWhileConnected
  <1>1. Init => ReadInv
    BY DEF Init, ClientInit, ReadInv
  <1>2. ReadInv => RunsWhileConnected
    BY DEF ReadInv, RunsWhileConnected
  <1> QED  BY <1>1, <1>2, ClientInitially, ClientStep, ReadStep, PTL DEF Spec

-----------------------------------------------------------------------------
(***************************************************************************)
(* The place of every call                                                 *)
(***************************************************************************)
CallInv == PlaceInv /\ PromiseInv

Live == life \in {"up", "idle", "stopping"}

\* Whatever is at one of the places is a call id.
LEMMA PlaceTypes ==
    ASSUME ClientInv
    PROVE  /\ strand \in Seq(Task) /\ writer \in Writer(Request) /\ writer.queue \in Seq(Request)
           /\ up \in [Conns -> Seq(Request)] /\ down \in [Conns -> Seq(Response)]
           /\ up[1] \in Seq(Request) /\ down[1] \in Seq(Response) /\ chunk \in Seq(Response)
           /\ accepted \in [Conns -> SUBSET Call] /\ accepted[1] \subseteq Call
           /\ Coming \in Seq(Response) /\ 1 \in Conns
           /\ CallsIn(strand) \subseteq Ids /\ Erases(strand) \subseteq Ids
           /\ CallsIn(writer.queue) \subseteq Ids /\ CallsIn(up[1]) \subseteq Ids
           /\ Posting \subseteq Ids /\ Accepted \subseteq Ids /\ IdsOf(Coming) \subseteq Ids
           /\ ongoing \subseteq Ids /\ callIdx \in 0..MaxId
           /\ user \in [User -> Thread] /\ \A u \in User : user[u].id \in Ids \cup {0}
           /\ promise \in [Ids -> [state : {"unused", "waiting", "value", "error", "broken"},
                                   of : Args \cup {"none"}]]
  <1> USE DEF ClientInv, TypeOK
  <1>1. /\ strand \in Seq(Task) /\ writer \in Writer(Request) /\ chunk \in Seq(Response)
        /\ up \in [Conns -> Seq(Request)] /\ down \in [Conns -> Seq(Response)]
        /\ accepted \in [Conns -> SUBSET Call] /\ 1 \in Conns
        /\ ongoing \subseteq Ids /\ callIdx \in 0..MaxId
        /\ promise \in [Ids -> [state : {"unused", "waiting", "value", "error", "broken"},
                                of : Args \cup {"none"}]]
    BY DEF ClientTypeOK, NetTypeOK, PeerTypeOK, Conns
  <1>2. /\ up[1] \in Seq(Request) /\ down[1] \in Seq(Response) /\ accepted[1] \subseteq Call
        /\ writer.queue \in Seq(Request)
    BY <1>1, WriterFields
  <1>3. Coming \in Seq(Response)
    BY <1>1, <1>2, ConcatProperties DEF Coming
  <1>4. ASSUME NEW s \in Seq(Task) PROVE CallsIn(s) \subseteq Ids /\ Erases(s) \subseteq Ids
    <2>1. \A k \in DOMAIN s : s[k] \in Task
      BY ElementOfSeq, LenProperties
    <2>2. \A t \in Task : t.kind \in {"call", "erase"} => t.id \in Ids
      BY DEF Task, Request, Call, Note
    <2> QED  BY <2>1, <2>2 DEF CallsIn, Erases
  <1>5. Request \subseteq Task
    BY DEF Task
  <1>6. writer.queue \in Seq(Task) /\ up[1] \in Seq(Task)
    BY <1>2, <1>5, SeqMonotonic
  <1>7. user \in [User -> Thread] /\ \A u \in User : user[u].id \in Ids \cup {0}
    <2>1. user \in [User -> Thread]
      BY DEF ClientTypeOK, Thread
    <2> QED  BY <2>1 DEF Thread
  <1>8. Posting \subseteq Ids
    BY <1>7 DEF Posting, NumberInv
  <1>9. Accepted \subseteq Ids
    BY <1>2 DEF Accepted, Call
  <1>10. IdsOf(Coming) \subseteq Ids
    <2>1. \A k \in DOMAIN Coming : Coming[k] \in Response
      BY <1>3, ElementOfSeq, LenProperties
    <2> QED  BY <2>1 DEF IdsOf, Response
  <1> QED  BY <1>1, <1>2, <1>3, <1>4, <1>6, <1>7, <1>8, <1>9, <1>10

\* The promises that are waiting, unused and decided differ.
LEMMA PromiseKinds ==
    /\ Waiting.state = "waiting" /\ Unused.state = "unused" /\ Broken.state = "broken"
    /\ Waiting # Unused /\ Waiting # Broken
    /\ \A r \in Response : /\ Decided(r).state \in {"value", "error"} /\ Decided(r).of = r.of
                           /\ Decided(r) # Waiting /\ Decided(r) # Unused
  BY DEF Waiting, Unused, Broken, Decided

\* The constructed client has no calls.
LEMMA CallInitially == Init => CallInv
  <1> SUFFICES ASSUME Init PROVE CallInv
    OBVIOUS
  <1> USE DEF Init, ClientInit, NetInit, PeerInit
  <1>1. CallsIn(<<>>) = {} /\ Erases(<<>>) = {} /\ CallMsgs(<<>>) = {} /\ IdsOf(<<>>) = {}
        /\ CallsOnce(<<>>) /\ IdsOnce(<<>>)
    BY DEF CallsIn, Erases, CallMsgs, IdsOf, CallsOnce, IdsOnce
  <1>2. up[1] = <<>> /\ down[1] = <<>> /\ accepted[1] = {} /\ writer.queue = <<>>
    BY DEF Conns, NewWriter
  <1>3. Coming = <<>>
    BY <1>2, ConcatEmptySeq, EmptySeq DEF Coming
  <1>4. Posting = {} /\ Accepted = {}
    BY <1>2 DEF Posting, Accepted
  <1>5. BeforeInv /\ AfterInv /\ OngoingInv
    BY <1>1, <1>2, <1>3, <1>4, PromiseKinds DEF BeforeInv, AfterInv, OngoingInv
  <1>6. OwnedInv
    <2>1. DOMAIN Coming = {}
      BY <1>3
    <2>2. CallMsgs(strand) \cup CallMsgs(writer.queue) \cup CallMsgs(up[1]) \cup accepted[1] = {}
      BY <1>1, <1>2
    <2> QED  BY <2>1, <2>2 DEF OwnedInv
  <1>7. PromiseInv
    BY PromiseKinds DEF PromiseInv
  <1> QED  BY <1>5, <1>6, <1>7 DEF CallInv, PlaceInv

\* A thread's step that is quiet moves no call.
LEMMA CallInvQuiet ==
    ASSUME ClientInv, CallInv, NEW u \in User, QuietStep(u), UNCHANGED accepted
    PROVE  CallInv'
  <1>1. /\ \A v \in User : v # u => user'[v] = user[v]
        /\ user[u].pc # "post" /\ user'[u].pc # "post"
        /\ \A v \in User : user'[v].id = user[v].id
        /\ strand' \in {strand, Append(strand, [kind |-> "note", id |-> 0, arg |-> u])}
        /\ UNCHANGED <<callIdx, ongoing, promise, writer, chunk, up, down, accepted>>
    BY DEF QuietStep, Moves, netVars
  <1>2. Posting' = Posting
    BY <1>1 DEF Posting
  <1>3. Accepted' = Accepted /\ Coming' = Coming
    BY <1>1 DEF Accepted, Coming
  <1>4. /\ CallsIn(strand') = CallsIn(strand) /\ CallMsgs(strand') = CallMsgs(strand)
        /\ Erases(strand') = Erases(strand) /\ (CallsOnce(strand) => CallsOnce(strand'))
    <2> DEFINE note == [kind |-> "note", id |-> 0, arg |-> u]
    <2>1. strand \in Seq(Task)
      BY PlaceTypes
    <2>2. note \in Task /\ note.kind = "note"
      BY DEF Task, Request, Note
    <2> HIDE DEF note
    <2>3. /\ CallsIn(Append(strand, note)) = CallsIn(strand) /\ CallMsgs(Append(strand, note)) = CallMsgs(strand)
          /\ Erases(Append(strand, note)) = Erases(strand)
          /\ CallsOnce(strand) => CallsOnce(Append(strand, note))
      BY <2>1, <2>2, AppendCalls
    <2> QED  BY <1>1, <2>3 DEF note
  <1>5. ASSUME Live' PROVE BeforeInv' /\ AfterInv' /\ OngoingInv' /\ OwnedInv'
    <2>1. BeforeInv /\ AfterInv /\ OngoingInv /\ OwnedInv
      BY <1>5 DEF CallInv, PlaceInv, Live, QuietStep
    <2>2. BeforeInv' /\ AfterInv' /\ OngoingInv'
      BY <1>1, <1>2, <1>3, <1>4, <2>1 DEF BeforeInv, AfterInv, OngoingInv
    <2>3. OwnedInv'
      BY <1>1, <1>3, <1>4, <2>1 DEF OwnedInv
    <2> QED  BY <2>2, <2>3
  <1>6. PromiseInv'
    <2>1. life = "destroyed" => life' = "destroyed"
      BY DEF QuietStep
    <2>2. PromiseInv
      BY DEF CallInv
    <2>3. user'[u].outcome \in {"value", "error", "broken"} =>
             user[u].id # 0 /\ promise[user[u].id].state = user'[u].outcome
      BY <2>2 DEF PromiseInv, QuietStep, ClientInv, NumberInv
    <2> QED  BY <1>1, <2>1, <2>2, <2>3 DEF PromiseInv
  <1> QED  BY <1>5, <1>6 DEF CallInv, PlaceInv, Live

\* The ids of the calls in a sequence.
LEMMA CallMsgIds ==
    ASSUME NEW s, NEW m \in CallMsgs(s)
    PROVE  m.id \in CallsIn(s)
  BY DEF CallMsgs, CallsIn

\* Threads keep their ids, so calls and responses stay those of their thread.
LEMMA OwnersKept ==
    ASSUME ClientInv, OwnedInv, \A v \in User : user[v].id # 0 => user'[v].id = user[v].id
    PROVE  /\ \A m \in CallMsgs(strand) \cup CallMsgs(writer.queue) \cup CallMsgs(up[1]) \cup accepted[1] :
                 m.arg \in User /\ user'[m.arg].id = m.id
           /\ \A k \in DOMAIN Coming : Coming[k].of \in User /\ user'[Coming[k].of].id = Coming[k].id
  <1>1. 0 \notin Ids
    BY DEF Ids
  <1>2. ASSUME NEW m \in CallMsgs(strand) \cup CallMsgs(writer.queue) \cup CallMsgs(up[1]) \cup accepted[1]
        PROVE  m.id \in Ids
    <2>1. ASSUME m \in accepted[1] PROVE m.id \in Ids
      BY <2>1, PlaceTypes DEF Call
    <2> QED  BY <2>1, CallMsgIds, PlaceTypes
  <1>3. ASSUME NEW k \in DOMAIN Coming PROVE Coming[k].id \in Ids
    BY PlaceTypes DEF IdsOf
  <1> QED  BY <1>1, <1>2, <1>3 DEF OwnedInv

\* A call gets its number: nobody has it yet.
LEMMA CallInvNumber ==
    ASSUME ClientInv, CallInv, NEW u \in User, NextCallIdx(u), UNCHANGED accepted
    PROVE  CallInv'
  <1> DEFINE n == callIdx + 1
  <1>1. /\ \A v \in User : v # u => user'[v] = user[v]
        /\ user'[u].pc = "post" /\ user'[u].id = n /\ user'[u].outcome = user[u].outcome
        /\ callIdx \in Nat /\ n \in Ids
    BY NumberMoves DEF ClientInv, TypeOK, Moves
  <1>2. /\ callIdx' = n /\ promise' = [promise EXCEPT ![n] = Waiting]
        /\ life \in {"up", "idle"} /\ life' = life /\ user[u].pc = "number"
        /\ UNCHANGED <<strand, ongoing, writer, chunk, up, down, accepted>>
    BY DEF NextCallIdx, AtPc, netVars
  <1>3. /\ promise \in [Ids -> [state : {"unused", "waiting", "value", "error", "broken"},
                                of : Args \cup {"none"}]]
        /\ \A v \in User : user[v].id \in Ids \cup {0}
    BY PlaceTypes
  <1>4. BeforeInv /\ AfterInv /\ OngoingInv /\ OwnedInv /\ PromiseInv
    BY <1>2 DEF CallInv, PlaceInv
  <1>5. promise[n] = Unused
    BY <1>1, <1>4 DEF PromiseInv
  <1> HIDE DEF n
  <1>6. promise'[n] = Waiting /\ \A i \in Ids : i # n => promise'[i] = promise[i]
    BY <1>1, <1>2, <1>3
  <1>7. user[u].id = 0 /\ \A v \in User : user[v].id # 0 => user'[v].id = user[v].id
    BY <1>1, <1>2 DEF ClientInv, NumberInv
  <1>8. Posting' = Posting \cup {n}
    BY <1>1, <1>2 DEF Posting
  <1>9. Accepted' = Accepted /\ Coming' = Coming
    BY <1>2 DEF Accepted, Coming
  <1>10. /\ CallsIn(strand) \subseteq Ids /\ Erases(strand) \subseteq Ids
         /\ CallsIn(writer.queue) \subseteq Ids /\ CallsIn(up[1]) \subseteq Ids
         /\ Posting \subseteq Ids /\ Accepted \subseteq Ids /\ IdsOf(Coming) \subseteq Ids
         /\ ongoing \subseteq Ids
    BY PlaceTypes
  <1>11. BeforeInv'
    BY <1>2, <1>4, <1>5, <1>6, <1>8, <1>10, PromiseKinds DEF BeforeInv, OngoingInv
  <1>12. AfterInv'
    BY <1>2, <1>4, <1>5, <1>6, <1>9, <1>10, PromiseKinds DEF AfterInv
  <1>13. OngoingInv'
    BY <1>2, <1>4, <1>5, <1>6, <1>8, <1>10, PromiseKinds DEF OngoingInv
  <1>14. OwnedInv'
    <2>1. /\ CallMsgs(strand)' = CallMsgs(strand) /\ CallMsgs(writer.queue)' = CallMsgs(writer.queue)
          /\ CallMsgs(up[1])' = CallMsgs(up[1]) /\ accepted'[1] = accepted[1]
      BY <1>2
    <2> QED  BY <1>4, <1>7, <1>9, <2>1, OwnersKept DEF OwnedInv
  <1>15. PromiseInv'
    <2>1. \A i \in Ids : i > n => i > callIdx /\ i # n
      BY <1>1 DEF n, Ids
    <2>2. \A i \in Ids : i > callIdx' => promise'[i] = Unused
      BY <1>2, <1>4, <1>6, <2>1 DEF PromiseInv
    <2>3. ASSUME NEW i \in Ids, promise'[i].state \in {"value", "error"}
          PROVE  promise'[i].of \in User /\ user'[promise'[i].of].id = i
      <3>1. i # n /\ promise'[i] = promise[i]
        BY <1>6, <2>3, PromiseKinds
      <3>2. promise[i].of \in User /\ user[promise[i].of].id = i
        BY <1>4, <2>3, <3>1 DEF PromiseInv
      <3>3. i # 0
        BY DEF Ids
      <3> QED  BY <1>7, <3>1, <3>2, <3>3
    <2>4. \A i \in Ids : promise'[i].state = "broken" => life' = "destroyed"
      BY <1>2, <1>4, <1>6, PromiseKinds DEF PromiseInv
    <2>5. ASSUME NEW v \in User, user'[v].outcome \in {"value", "error", "broken"}
          PROVE  user'[v].id # 0 /\ promise'[user'[v].id].state = user'[v].outcome
      <3>1. user[v].outcome = user'[v].outcome
        BY <1>1
      <3>2. user[v].id # 0 /\ promise[user[v].id].state = user[v].outcome
        BY <1>4, <2>5, <3>1 DEF PromiseInv
      <3>3. user[v].id # n
        BY <1>3, <1>5, <2>5, <3>1, <3>2, PromiseKinds
      <3> QED  BY <1>3, <1>6, <1>7, <3>1, <3>2, <3>3
    <2> QED  BY <2>2, <2>3, <2>4, <2>5 DEF PromiseInv
  <1> QED  BY <1>11, <1>12, <1>13, <1>14, <1>15 DEF CallInv, PlaceInv

\* A step that decides no promise and lets no thread finish.
LEMMA PromiseInvKept ==
    ASSUME PromiseInv, UNCHANGED <<promise, callIdx>>,
           \A v \in User : user'[v].id = user[v].id /\ user'[v].outcome = user[v].outcome,
           life = "destroyed" => life' = "destroyed"
    PROVE  PromiseInv'
  BY DEF PromiseInv

\* A step that moves no call.
LEMMA PlacesKept ==
    ASSUME BeforeInv, AfterInv, OngoingInv, OwnedInv,
           UNCHANGED <<promise, strand, ongoing, chunk, up, down, user, accepted>>,
           writer'.queue = writer.queue
    PROVE  BeforeInv' /\ AfterInv' /\ OngoingInv' /\ OwnedInv'
  <1>1. Posting' = Posting /\ Accepted' = Accepted /\ Coming' = Coming
    BY DEF Posting, Accepted, Coming
  <1> QED  BY <1>1 DEF BeforeInv, AfterInv, OngoingInv, OwnedInv

\* A call goes from its thread to the strand.
LEMMA CallInvPost ==
    ASSUME ClientInv, CallInv, NEW u \in User, PostCall(u), UNCHANGED accepted
    PROVE  CallInv'
  <1> DEFINE n    == user[u].id
             task == [kind |-> "call", id |-> n, arg |-> u]
  <1>1. /\ \A v \in User : v # u => user'[v] = user[v]
        /\ user'[u].pc \in {"choose", "wait"} /\ user'[u].id = n /\ user'[u].outcome = user[u].outcome
        /\ n \in Ids /\ task \in Call
    BY PostMoves DEF ClientInv, TypeOK, Moves
  <1>2. /\ strand' = Append(strand, task)
        /\ life \in {"up", "idle"} /\ life' = life /\ user[u].pc = "post"
        /\ UNCHANGED <<callIdx, promise, ongoing, writer, chunk, up, down, accepted>>
    BY DEF PostCall, AtPc, netVars
  <1>3. task \in Task /\ task.kind = "call" /\ task.id = n /\ task.arg = u
    BY <1>1 DEF Task, Request
  <1>4. BeforeInv /\ AfterInv /\ OngoingInv /\ OwnedInv /\ PromiseInv
    BY <1>2 DEF CallInv, PlaceInv
  <1> HIDE DEF task, n
  <1>5. n # 0
    BY <1>1 DEF Ids
  <1>6. n \in Posting
    BY <1>2 DEF Posting, n
  <1>7. Posting' = Posting \ {n}
    <2>1. \A v \in User : v # u /\ user[v].pc = "post" => user[v].id # n
      BY <1>5 DEF ClientInv, NumberInv, n
    <2> QED  BY <1>1, <1>2, <2>1 DEF Posting, n
  <1>8. Accepted' = Accepted /\ Coming' = Coming
    BY <1>2 DEF Accepted, Coming
  <1>9. n \notin CallsIn(strand)
    BY <1>4, <1>6 DEF BeforeInv
  <1>10. /\ CallsIn(strand') = CallsIn(strand) \cup {n} /\ CallMsgs(strand') = CallMsgs(strand) \cup {task}
         /\ Erases(strand') = Erases(strand)
         /\ CallsOnce(strand) => CallsOnce(strand')
    BY <1>2, <1>3, <1>9, AppendCalls, PlaceTypes
  <1>11. BeforeInv'
    BY <1>2, <1>4, <1>6, <1>7, <1>10 DEF BeforeInv
  <1>12. AfterInv'
    BY <1>2, <1>4, <1>8 DEF AfterInv
  <1>13. OngoingInv'
    BY <1>2, <1>4, <1>7, <1>10 DEF OngoingInv
  <1>14. OwnedInv'
    <2>1. \A v \in User : user'[v].id = user[v].id
      BY <1>1 DEF n
    <2>2. /\ CallMsgs(writer.queue)' = CallMsgs(writer.queue)
          /\ CallMsgs(up[1])' = CallMsgs(up[1]) /\ accepted'[1] = accepted[1]
      BY <1>2
    <2>3. user'[task.arg].id = task.id
      BY <1>1, <1>3
    <2> QED  BY <1>3, <1>4, <1>8, <1>10, <2>1, <2>2, <2>3 DEF OwnedInv
  <1>15. PromiseInv'
    <2>1. \A v \in User : user'[v].id = user[v].id /\ user'[v].outcome = user[v].outcome
      BY <1>1 DEF n
    <2> QED  BY <1>2, <1>4, <2>1, PromiseInvKept
  <1> QED  BY <1>11, <1>12, <1>13, <1>14, <1>15 DEF CallInv, PlaceInv

\* A handler of the strand: a call is remembered and queued, a notification
\* only queued; what is erased was answered.
LEMMA CallInvStrand ==
    ASSUME ClientInv, CallInv, RunStrand, UNCHANGED accepted
    PROVE  CallInv'
  <1> DEFINE task == Head(strand)
  <1>1. strand \in Seq(Task) /\ strand # <<>> /\ writer \in Writer(Request) /\ writer.queue \in Seq(Request)
    BY PlaceTypes DEF RunStrand
  <1>2. task \in Task
    BY <1>1, HeadTailParts
  <1>3. /\ strand' = Tail(strand)
        /\ life = "up" /\ life' = life
        /\ UNCHANGED <<callIdx, promise, chunk, user, up, down, accepted>>
        /\ \/ task.kind = "call" /\ ongoing' = ongoing \cup {task.id} /\ writer' = write(writer, task)
           \/ task.kind = "note" /\ ongoing' = ongoing /\ writer' = write(writer, task)
           \/ task.kind = "erase" /\ ongoing' = ongoing \ {task.id} /\ writer' = writer
    BY <1>2 DEF RunStrand, IoIdle, netVars, Task, Request, Call, Note
  <1>4. BeforeInv /\ AfterInv /\ OngoingInv /\ OwnedInv /\ PromiseInv
    BY <1>3 DEF CallInv, PlaceInv
  <1>5. /\ task.kind = "call" => /\ CallsIn(strand) = CallsIn(strand') \cup {task.id}
                                 /\ task \in CallMsgs(strand)
                                 /\ CallsOnce(strand) => task.id \notin CallsIn(strand')
        /\ task.kind # "call" => CallsIn(strand) = CallsIn(strand')
        /\ task.kind = "erase" => task.id \in Erases(strand)
        /\ CallMsgs(strand') \subseteq CallMsgs(strand) /\ Erases(strand') \subseteq Erases(strand)
        /\ CallsOnce(strand) => CallsOnce(strand')
    BY <1>1, <1>3, TailCalls
  <1> HIDE DEF task
  <1>6. /\ task.kind = "call" => task \in Request /\ task.id \in Ids
        /\ task.kind = "note" => task \in Request
    BY <1>2 DEF Task, Request, Call, Note
  <1>7. Posting' = Posting /\ Accepted' = Accepted /\ Coming' = Coming
    BY <1>3 DEF Posting, Accepted, Coming
  <1>8. ASSUME writer' = write(writer, task), task \in Request
        PROVE  writer'.queue = Append(writer.queue, task)
    BY <1>1, <1>8, WriteKeepsChain DEF ClientInv
  <1>9. PromiseInv'
    BY <1>3, <1>4, PromiseInvKept
  <1>10. CASE task.kind = "call"
    <2>1. /\ writer'.queue = Append(writer.queue, task) /\ ongoing' = ongoing \cup {task.id}
          /\ task \in Request /\ task \in CallMsgs(strand)
      BY <1>3, <1>5, <1>6, <1>8, <1>10
    <2>2. /\ task.id \in CallsIn(strand) /\ promise[task.id] = Waiting /\ task.id \notin ongoing
          /\ task.id \notin Posting
      BY <1>4, <1>5, <1>10 DEF BeforeInv
    <2>3. task.id \notin CallsIn(writer.queue)
      BY <1>4, <2>2 DEF AfterInv
    <2>4. /\ CallsIn(writer'.queue) = CallsIn(writer.queue) \cup {task.id}
          /\ CallMsgs(writer'.queue) = CallMsgs(writer.queue) \cup {task}
          /\ CallsOnce(writer.queue) => CallsOnce(writer'.queue)
      BY <1>1, <1>10, <2>1, <2>3, AppendCalls
    <2>5. BeforeInv'
      BY <1>3, <1>4, <1>5, <1>7, <1>10, <2>1, <2>2 DEF BeforeInv
    <2>6. AfterInv'
      BY <1>3, <1>4, <1>7, <2>1, <2>2, <2>4 DEF AfterInv
    <2>7. OngoingInv'
      BY <1>3, <1>4, <1>5, <1>7, <1>10, <2>1, <2>2, PromiseKinds DEF OngoingInv
    <2>8. OwnedInv'
      BY <1>3, <1>4, <1>5, <1>7, <2>1, <2>4 DEF OwnedInv
    <2> QED  BY <1>9, <2>5, <2>6, <2>7, <2>8 DEF CallInv, PlaceInv
  <1>11. CASE task.kind = "note"
    <2>1. /\ writer'.queue = Append(writer.queue, task) /\ ongoing' = ongoing /\ task \in Request
      BY <1>3, <1>6, <1>8, <1>11
    <2>2. /\ CallsIn(writer'.queue) = CallsIn(writer.queue)
          /\ CallMsgs(writer'.queue) = CallMsgs(writer.queue)
          /\ CallsOnce(writer.queue) => CallsOnce(writer'.queue)
      BY <1>1, <1>11, <2>1, AppendCalls
    <2>3. BeforeInv'
      BY <1>3, <1>4, <1>5, <1>7, <1>11, <2>1 DEF BeforeInv
    <2>4. AfterInv'
      BY <1>3, <1>4, <1>7, <2>1, <2>2 DEF AfterInv
    <2>5. OngoingInv'
      BY <1>3, <1>4, <1>5, <1>7, <1>11, <2>1 DEF OngoingInv
    <2>6. OwnedInv'
      BY <1>3, <1>4, <1>5, <1>7, <2>2 DEF OwnedInv
    <2> QED  BY <1>9, <2>3, <2>4, <2>5, <2>6 DEF CallInv, PlaceInv
  <1>12. CASE task.kind = "erase"
    <2>1. ongoing' = ongoing \ {task.id} /\ writer' = writer /\ task.id \in Erases(strand)
      BY <1>3, <1>5, <1>12
    <2>2. promise[task.id] # Waiting
      BY <1>4, <2>1 DEF OngoingInv
    <2>3. BeforeInv'
      BY <1>3, <1>4, <1>5, <1>7, <1>12, <2>1 DEF BeforeInv
    <2>4. AfterInv'
      BY <1>3, <1>4, <1>7, <2>1, <2>2 DEF AfterInv
    <2>5. OngoingInv'
      BY <1>3, <1>4, <1>5, <1>7, <1>12, <2>1, <2>2 DEF OngoingInv
    <2>6. OwnedInv'
      BY <1>3, <1>4, <1>5, <1>7, <2>1 DEF OwnedInv
    <2> QED  BY <1>9, <2>3, <2>4, <2>5, <2>6 DEF CallInv, PlaceInv
  <1> QED  BY <1>3, <1>10, <1>11, <1>12

\* A request leaves the queue and is on its way, or is lost.
LEMMA CallInvWrite ==
    ASSUME ClientInv, CallInv, WriteCompletes, UNCHANGED accepted
    PROVE  CallInv'
  <1> DEFINE h == Head(writer.queue)
  <1>1. /\ writer \in Writer(Request) /\ writer.queue \in Seq(Request)
        /\ up \in [Conns -> Seq(Request)] /\ up[1] \in Seq(Request) /\ 1 \in Conns
    BY PlaceTypes
  <1>2. /\ writer.inFlight > 0 /\ writer' = write_done(writer)
        /\ up' = IF gone[1] THEN up ELSE [up EXCEPT ![1] = Append(@, h)]
        /\ life = "up" /\ life' = life
        /\ UNCHANGED <<callIdx, strand, ongoing, promise, chunk, user, down, accepted>>
    BY DEF WriteCompletes, IoIdle
  <1>3. writer.queue # <<>> /\ writer'.queue = Tail(writer.queue)
    BY <1>1, <1>2, WriteDoneKeepsChain DEF ClientInv
  <1>4. BeforeInv /\ AfterInv /\ OngoingInv /\ OwnedInv /\ PromiseInv
    BY <1>2 DEF CallInv, PlaceInv
  <1>5. h \in Request
    BY <1>1, <1>3, HeadTailParts
  <1>6. /\ h.kind = "call" => /\ CallsIn(writer.queue) = CallsIn(writer'.queue) \cup {h.id}
                              /\ h \in CallMsgs(writer.queue)
                              /\ CallsOnce(writer.queue) => h.id \notin CallsIn(writer'.queue)
        /\ h.kind # "call" => CallsIn(writer.queue) = CallsIn(writer'.queue)
        /\ CallMsgs(writer'.queue) \subseteq CallMsgs(writer.queue)
        /\ CallsOnce(writer.queue) => CallsOnce(writer'.queue)
    BY <1>1, <1>3, TailCalls
  <1> HIDE DEF h
  <1>7. Posting' = Posting /\ Accepted' = Accepted /\ Coming' = Coming
    BY <1>2 DEF Posting, Accepted, Coming
  <1>8. up'[1] = up[1] \/ up'[1] = Append(up[1], h)
    BY <1>1, <1>2
  <1>9. PromiseInv' /\ BeforeInv' /\ OngoingInv'
    BY <1>2, <1>4, <1>7, PromiseInvKept DEF BeforeInv, OngoingInv
  <1>10. CASE up'[1] = up[1]
    <2>1. CallsIn(writer'.queue) \subseteq CallsIn(writer.queue)
      BY <1>6
    <2>2. AfterInv'
      BY <1>2, <1>4, <1>6, <1>7, <1>10, <2>1 DEF AfterInv
    <2>3. OwnedInv'
      BY <1>2, <1>4, <1>6, <1>7, <1>10 DEF OwnedInv
    <2> QED  BY <1>9, <2>2, <2>3 DEF CallInv, PlaceInv
  <1>11. CASE up'[1] = Append(up[1], h) /\ h.kind = "call"
    <2>1. h.id \in CallsIn(writer.queue)
      BY <1>6, <1>11
    <2>2. h.id \notin CallsIn(up[1])
      BY <1>4, <2>1 DEF AfterInv
    <2>3. /\ CallsIn(up'[1]) = CallsIn(up[1]) \cup {h.id} /\ CallMsgs(up'[1]) = CallMsgs(up[1]) \cup {h}
          /\ CallsOnce(up[1]) => CallsOnce(up'[1])
      BY <1>1, <1>5, <1>11, <2>2, AppendCalls
    <2>4. AfterInv'
      BY <1>2, <1>4, <1>6, <1>7, <1>11, <2>1, <2>3 DEF AfterInv
    <2>5. OwnedInv'
      BY <1>2, <1>4, <1>6, <1>7, <1>11, <2>3 DEF OwnedInv
    <2> QED  BY <1>9, <2>4, <2>5 DEF CallInv, PlaceInv
  <1>12. CASE up'[1] = Append(up[1], h) /\ h.kind # "call"
    <2>1. /\ CallsIn(up'[1]) = CallsIn(up[1]) /\ CallMsgs(up'[1]) = CallMsgs(up[1])
          /\ CallsOnce(up[1]) => CallsOnce(up'[1])
      BY <1>1, <1>5, <1>12, AppendCalls
    <2>2. AfterInv'
      BY <1>2, <1>4, <1>6, <1>7, <1>12, <2>1 DEF AfterInv
    <2>3. OwnedInv'
      BY <1>2, <1>4, <1>6, <1>7, <2>1 DEF OwnedInv
    <2> QED  BY <1>9, <2>2, <2>3 DEF CallInv, PlaceInv
  <1> QED  BY <1>8, <1>10, <1>11, <1>12

\* The read handler gets a first part of what is coming.
LEMMA CallInvRead ==
    ASSUME ClientInv, CallInv, ReadCompletes, UNCHANGED accepted
    PROVE  CallInv'
  <1>1. /\ chunk = <<>> /\ life = "up" /\ life' = life
        /\ UNCHANGED <<callIdx, strand, ongoing, promise, writer, user, up, accepted>>
    BY DEF ReadCompletes, IoIdle
  <1>2. down \in [Conns -> Seq(Response)] /\ down[1] \in Seq(Response) /\ 1 \in Conns
    BY PlaceTypes
  <1>3. PICK n \in 1..Len(down[1]) : chunk' = Keep(down[1], n) /\ down' = [down EXCEPT ![1] = Drop(@, n)]
    BY DEF ReadCompletes
  <1>4. n \in 0..Len(down[1]) /\ down'[1] = Drop(down[1], n)
    BY <1>2, <1>3
  <1>5. Coming' = down[1]
    BY <1>2, <1>3, <1>4, KeepThenDrop DEF Coming
  <1>6. Coming = down[1]
    BY <1>1, <1>2, ConcatEmptySeq DEF Coming
  <1>7. Posting' = Posting /\ Accepted' = Accepted /\ Coming' = Coming
    BY <1>1, <1>5, <1>6 DEF Posting, Accepted
  <1>8. BeforeInv /\ AfterInv /\ OngoingInv /\ OwnedInv /\ PromiseInv
    BY <1>1 DEF CallInv, PlaceInv
  <1>9. BeforeInv' /\ AfterInv' /\ OngoingInv' /\ OwnedInv'
    BY <1>1, <1>7, <1>8 DEF BeforeInv, AfterInv, OngoingInv, OwnedInv
  <1>10. PromiseInv'
    BY <1>1, <1>8, PromiseInvKept
  <1> QED  BY <1>9, <1>10 DEF CallInv, PlaceInv

\* A response finds an open promise and decides it; the erase comes after.
LEMMA CallInvResponse ==
    ASSUME ClientInv, CallInv, HandleResponse, UNCHANGED accepted
    PROVE  CallInv' /\ life' = life
  <1> DEFINE r     == Head(chunk)
             erase == [kind |-> "erase", id |-> r.id]
  <1>1. /\ chunk \in Seq(Response) /\ chunk # <<>> /\ down[1] \in Seq(Response)
        /\ strand \in Seq(Task) /\ IdsOf(Coming) \subseteq Ids
        /\ promise \in [Ids -> [state : {"unused", "waiting", "value", "error", "broken"},
                                of : Args \cup {"none"}]]
        /\ \A u \in User : user[u].id \in Ids \cup {0}
    BY PlaceTypes DEF HandleResponse
  <1>2. life \in {"up", "stopping"}
    BY DEF HandleResponse
  <1>3. BeforeInv /\ AfterInv /\ OngoingInv /\ OwnedInv /\ PromiseInv
    BY <1>2 DEF CallInv, PlaceInv
  <1>4. chunk' = Tail(chunk) /\ UNCHANGED <<callIdx, writer, user, up, down, accepted>>
    BY DEF HandleResponse, netVars
  <1>5. r \in Response
    BY <1>1, HeadTailParts
  <1>6. /\ IdsOf(Coming) = IdsOf(Coming') \cup {r.id}
        /\ IdsOnce(Coming) => IdsOnce(Coming') /\ r.id \notin IdsOf(Coming')
        /\ 1 \in DOMAIN Coming /\ Coming[1] = r
        /\ \A k \in DOMAIN Coming' : k + 1 \in DOMAIN Coming /\ Coming'[k] = Coming[k + 1]
    BY SMTT(30), <1>1, <1>4, TakeResponse DEF Coming
  <1> HIDE DEF r
  <1>7. r.id \in Ids /\ r.id \in IdsOf(Coming) /\ r.id \in ongoing /\ promise[r.id] = Waiting
    BY <1>1, <1>3, <1>6 DEF AfterInv
  <1>8. /\ promise' = [promise EXCEPT ![r.id] = Decided(r)]
        /\ life' = life /\ ongoing' = ongoing
        /\ strand' = Append(strand, erase)
    BY <1>7 DEF HandleResponse, r
  <1>9. promise'[r.id] = Decided(r) /\ \A i \in Ids : i # r.id => promise'[i] = promise[i]
    BY <1>1, <1>7, <1>8
  <1>10. erase \in Task /\ erase.kind = "erase" /\ erase.id = r.id
    BY <1>7 DEF Task
  <1> HIDE DEF erase
  <1>11. /\ CallsIn(strand') = CallsIn(strand) /\ CallMsgs(strand') = CallMsgs(strand)
         /\ Erases(strand') = Erases(strand) \cup {r.id}
         /\ CallsOnce(strand) => CallsOnce(strand')
    BY <1>1, <1>8, <1>10, AppendCalls
  <1>12. Posting' = Posting /\ Accepted' = Accepted
    BY <1>4 DEF Posting, Accepted
  <1>13. /\ CallsIn(strand) \subseteq Ids /\ Erases(strand) \subseteq Ids
         /\ CallsIn(writer.queue) \subseteq Ids /\ CallsIn(up[1]) \subseteq Ids
         /\ Posting \subseteq Ids /\ Accepted \subseteq Ids /\ IdsOf(Coming) \subseteq Ids
         /\ ongoing \subseteq Ids
    BY PlaceTypes
  <1>14. BeforeInv'
    BY <1>3, <1>7, <1>8, <1>9, <1>11, <1>12, <1>13 DEF BeforeInv
  <1>15. AfterInv'
    <2>1. /\ r.id \notin CallsIn(writer.queue) /\ r.id \notin CallsIn(up[1]) /\ r.id \notin Accepted
          /\ r.id \notin IdsOf(Coming')
      BY <1>3, <1>6, <1>7 DEF AfterInv
    <2> QED  BY <1>3, <1>4, <1>6, <1>8, <1>9, <1>12, <1>13, <2>1 DEF AfterInv
  <1>16. OngoingInv'
    <2>1. Decided(r) # Waiting /\ Decided(r) # Unused
      BY <1>5, PromiseKinds DEF r
    <2> QED  BY <1>3, <1>7, <1>8, <1>9, <1>11, <1>12, <1>13, <2>1 DEF OngoingInv
  <1>17. OwnedInv'
    BY <1>3, <1>4, <1>6, <1>11 DEF OwnedInv
  <1>18. PromiseInv'
    <2>1. Decided(r).state \in {"value", "error"} /\ Decided(r).of = r.of
      BY <1>5, PromiseKinds DEF r
    <2>2. r.of \in User /\ user[r.of].id = r.id
      BY <1>3, <1>6 DEF OwnedInv
    <2>3. \A i \in Ids : i > callIdx' => promise'[i] = Unused
      BY <1>3, <1>4, <1>7, <1>9, PromiseKinds DEF PromiseInv
    <2>4. \A i \in Ids : promise'[i].state \in {"value", "error"} =>
                             promise'[i].of \in User /\ user'[promise'[i].of].id = i
      BY <1>3, <1>4, <1>9, <2>1, <2>2 DEF PromiseInv
    <2>5. \A i \in Ids : promise'[i].state = "broken" => life' = "destroyed"
      BY <1>3, <1>8, <1>9, <2>1 DEF PromiseInv
    <2>6. ASSUME NEW v \in User, user'[v].outcome \in {"value", "error", "broken"}
          PROVE  user'[v].id # 0 /\ promise'[user'[v].id].state = user'[v].outcome
      <3>1. user[v].id # 0 /\ promise[user[v].id].state = user[v].outcome
        BY <1>3, <1>4, <2>6 DEF PromiseInv
      <3>2. user[v].id # r.id
        BY <1>4, <1>7, <2>6, <3>1, PromiseKinds
      <3> QED  BY <1>1, <1>4, <1>9, <3>1, <3>2
    <2> QED  BY <2>3, <2>4, <2>5, <2>6 DEF PromiseInv
  <1> QED  BY <1>8, <1>14, <1>15, <1>16, <1>17, <1>18 DEF CallInv, PlaceInv

\* The other handlers, and the begin of the destructor, move no call.
LEMMA CallInvIdle ==
    ASSUME ClientInv, CallInv, UNCHANGED accepted,
           Connected \/ ConnectFails \/ WriteFails \/ ReadFails \/ RunReturns \/ DestroyStop
    PROVE  CallInv'
  <1>1. /\ life \in {"up", "idle"}
        /\ UNCHANGED <<callIdx, strand, ongoing, promise, chunk, user, up, down, accepted>>
    BY DEF Connected, ConnectFails, WriteFails, ReadFails, RunReturns, DestroyStop, IoIdle, netVars
  <1>2. writer'.queue = writer.queue
    <2>1. CASE WriteFails
      BY <2>1, PlaceTypes, WriteFailedKeepsChain DEF WriteFails, ClientInv
    <2>2. CASE ~WriteFails
      BY <2>2 DEF Connected, ConnectFails, ReadFails, RunReturns, DestroyStop
    <2> QED  BY <2>1, <2>2
  <1>3. BeforeInv /\ AfterInv /\ OngoingInv /\ OwnedInv /\ PromiseInv
    BY <1>1 DEF CallInv, PlaceInv
  <1>4. BeforeInv' /\ AfterInv' /\ OngoingInv' /\ OwnedInv'
    BY <1>1, <1>2, <1>3, PlacesKept
  <1>5. PromiseInv'
    BY <1>1, <1>3, PromiseInvKept
  <1> QED  BY <1>4, <1>5 DEF CallInv, PlaceInv

\* The destructor breaks the promises that are still open, and no other.
LEMMA CallInvJoined ==
    ASSUME ClientInv, CallInv, DestroyJoined
    PROVE  CallInv'
  <1>1. /\ life = "stopping" /\ life' = "destroyed" /\ UNCHANGED <<callIdx, user>>
        /\ promise' = [i \in Ids |-> IF promise[i] = Waiting THEN Broken ELSE promise[i]]
    BY DEF DestroyJoined
  <1>2. PromiseInv /\ \A u \in User : user[u].id \in Ids \cup {0}
    BY PlaceTypes DEF CallInv
  <1>3. \A i \in Ids : promise'[i] = IF promise[i] = Waiting THEN Broken ELSE promise[i]
    BY <1>1
  <1>4. PromiseInv'
    <2>1. \A i \in Ids : i > callIdx' => promise'[i] = Unused
      BY <1>1, <1>2, <1>3, PromiseKinds DEF PromiseInv
    <2>2. \A i \in Ids : promise'[i].state \in {"value", "error"} =>
                             promise'[i].of \in User /\ user'[promise'[i].of].id = i
      BY <1>1, <1>2, <1>3, PromiseKinds DEF PromiseInv
    <2>3. ASSUME NEW v \in User, user'[v].outcome \in {"value", "error", "broken"}
          PROVE  user'[v].id # 0 /\ promise'[user'[v].id].state = user'[v].outcome
      <3>1. user[v].id # 0 /\ promise[user[v].id].state = user[v].outcome
        BY <1>1, <1>2, <2>3 DEF PromiseInv
      <3>2. promise[user[v].id] # Waiting
        BY <1>1, <2>3, <3>1, PromiseKinds
      <3> QED  BY <1>1, <1>2, <1>3, <3>1, <3>2
    <2> QED  BY <1>1, <2>1, <2>2, <2>3 DEF PromiseInv
  <1> QED  BY <1>1, <1>4 DEF CallInv, PlaceInv

\* The server takes calls, answers or forgets them.
LEMMA CallInvServer ==
    ASSUME ClientInv, CallInv, ServerStep
    PROVE  CallInv'
  <1>1. /\ up \in [Conns -> Seq(Request)] /\ up[1] \in Seq(Request)
        /\ down \in [Conns -> Seq(Response)] /\ down[1] \in Seq(Response)
        /\ accepted \in [Conns -> SUBSET Call] /\ accepted[1] \subseteq Call /\ 1 \in Conns
        /\ chunk \in Seq(Response) /\ Coming \in Seq(Response)
        /\ life \in {"up", "idle", "stopping", "destroyed", "crashed"}
    BY PlaceTypes DEF ClientInv, TypeOK, ClientTypeOK
  <1>2. /\ UNCHANGED <<callIdx, strand, ongoing, promise, writer, chunk, user, life>>
        /\ life \in {"up", "idle", "stopping"}
    BY <1>1 DEF ServerStep, rpcVars
  <1>3. BeforeInv /\ AfterInv /\ OngoingInv /\ OwnedInv /\ PromiseInv
    BY <1>2 DEF CallInv, PlaceInv
  <1>4. Posting' = Posting
    BY <1>2 DEF Posting
  <1>5. BeforeInv' /\ OngoingInv' /\ PromiseInv'
    BY <1>2, <1>3, <1>4, PromiseInvKept DEF BeforeInv, OngoingInv
  <1>6. CASE PeerTake(1)
    <2>1. PICK n \in 1..Len(up[1]) :
             /\ up' = [up EXCEPT ![1] = Drop(@, n)]
             /\ accepted' = [accepted EXCEPT ![1] = @ \cup ({up[1][k] : k \in 1..n} \cap Call)]
      BY <1>6 DEF PeerTake
    <2> DEFINE a == Keep(up[1], n)
               b == Drop(up[1], n)
    <2>2. n \in 0..Len(up[1])
      BY <1>1
    <2>3. up'[1] = b /\ accepted'[1] = accepted[1] \cup ({up[1][k] : k \in 1..n} \cap Call)
      BY <1>1, <2>1
    <2>4. a \in Seq(Request) /\ Len(a) = n /\ \A k \in 1..n : a[k] = up[1][k]
      <3>1. up[1] \in Seq(Request)
        BY <1>1
      <3>2. /\ Keep(up[1], n) \in Seq(Request) /\ Len(Keep(up[1], n)) = n
            /\ \A k \in 1..n : Keep(up[1], n)[k] = up[1][k]
        BY <2>2, <3>1, KeepDropType
      <3> QED  BY <3>2
    <2>5. /\ CallsIn(a) \subseteq CallsIn(up[1]) /\ CallsIn(b) \subseteq CallsIn(up[1])
          /\ CallMsgs(a) \subseteq CallMsgs(up[1]) /\ CallMsgs(b) \subseteq CallMsgs(up[1])
          /\ CallsOnce(up[1]) => CallsOnce(a) /\ CallsOnce(b) /\ CallsIn(a) \cap CallsIn(b) = {}
      BY <1>1, <2>2, CutCalls
    <2> HIDE DEF a, b
    <2>6. DOMAIN a = 1..n /\ \A k \in 1..n : a[k] \in Request
      <3>1. DOMAIN a = 1..Len(a) /\ \A k \in 1..Len(a) : a[k] \in Request
        BY <2>4, LenProperties, ElementOfSeq
      <3> QED  BY <2>4, <3>1
    <2>7. \A m \in Request : m \in Call <=> m.kind = "call"
      BY DEF Request, Call, Note
    <2>8. accepted'[1] = accepted[1] \cup CallMsgs(a)
      BY <2>3, <2>4, <2>6, <2>7 DEF CallMsgs
    <2>9. \A m \in CallMsgs(a) : m.id \in CallsIn(a)
      BY CallMsgIds
    <2>10. CallsIn(a) = {m.id : m \in CallMsgs(a)}
      BY DEF CallsIn, CallMsgs
    <2>11. Accepted' = Accepted \cup CallsIn(a)
      BY <2>8, <2>10 DEF Accepted
    <2>12. ASSUME CallsOnce(a), NEW m \in CallMsgs(a), NEW l \in CallMsgs(a), m.id = l.id PROVE m = l
      BY <2>12 DEF CallsOnce, CallMsgs
    <2>13. Coming' = Coming
      BY <1>2, <1>6 DEF PeerTake, Coming
    <2>14. ASSUME NEW m \in accepted'[1], NEW l \in accepted'[1], m.id = l.id PROVE m = l
      <3>1. \A x \in accepted[1] : x.id \in Accepted
        BY DEF Accepted
      <3>2. Accepted \cap CallsIn(a) = {} /\ CallsOnce(a)
        BY <1>3, <2>5 DEF AfterInv
      <3>3. \A x, y \in accepted[1] : x.id = y.id => x = y
        BY <1>3 DEF AfterInv
      <3> QED  BY <2>8, <2>9, <2>12, <2>14, <3>1, <3>2, <3>3
    <2>15. AfterInv'
      BY <1>2, <1>3, <2>3, <2>5, <2>11, <2>13, <2>14 DEF AfterInv
    <2>16. OwnedInv'
      BY <1>2, <1>3, <2>3, <2>5, <2>8, <2>13 DEF OwnedInv
    <2> QED  BY <1>5, <2>15, <2>16 DEF CallInv, PlaceInv
  <1>7. ASSUME NEW call \in accepted[1], PeerAnswer(1, call) PROVE CallInv'
    <2>1. PICK failed \in BOOLEAN :
             down' = [down EXCEPT ![1] = Append(@, [id |-> call.id, error |-> failed, of |-> call.arg])]
      BY <1>7 DEF PeerAnswer
    <2> DEFINE r == [id |-> call.id, error |-> failed, of |-> call.arg]
    <2>2. call \in Call
      BY <1>1
    <2>3. r \in Response /\ r.id = call.id /\ r.of = call.arg
      BY <2>2 DEF Call, Response
    <2> HIDE DEF r
    <2>4. accepted'[1] = accepted[1] \ {call} /\ up' = up /\ down'[1] = Append(down[1], r)
      BY <1>1, <1>7, <2>1 DEF PeerAnswer, r
    <2>5. Coming' = Append(Coming, r)
      BY <1>1, <1>2, <2>3, <2>4, AddResponse DEF Coming
    <2>6. call.id \in Accepted
      BY DEF Accepted
    <2>7. Accepted' = Accepted \ {call.id}
      <3>1. \A m \in accepted[1] : m.id = call.id => m = call
        BY <1>3 DEF AfterInv
      <3> QED  BY <2>4, <3>1 DEF Accepted
    <2>8. call.id \notin IdsOf(Coming)
      BY <1>3, <2>6 DEF AfterInv
    <2>9. /\ IdsOf(Coming') = IdsOf(Coming) \cup {call.id}
          /\ IdsOnce(Coming) => IdsOnce(Coming')
      BY <1>1, <2>3, <2>5, <2>8, AppendIds
    <2>10. AfterInv'
      BY <1>2, <1>3, <2>4, <2>6, <2>7, <2>9 DEF AfterInv
    <2>11. OwnedInv'
      <3>1. call.arg \in User /\ user[call.arg].id = call.id
        BY <1>3 DEF OwnedInv
      <3>2. ASSUME NEW k \in DOMAIN Coming'
            PROVE  Coming'[k].of \in User /\ user[Coming'[k].of].id = Coming'[k].id
        <4>1. /\ Len(Coming) \in Nat /\ DOMAIN Coming = 1..Len(Coming)
              /\ DOMAIN Coming' = 1..(Len(Coming) + 1)
              /\ \A j \in 1..Len(Coming) : Coming'[j] = Coming[j]
              /\ Coming'[Len(Coming) + 1] = r
          BY <1>1, <2>3, <2>5, AppendParts
        <4>2. CASE k \in 1..Len(Coming)
          BY <1>3, <4>1, <4>2 DEF OwnedInv
        <4>3. CASE k = Len(Coming) + 1
          BY <2>3, <3>1, <4>1, <4>3
        <4> QED  BY <4>1, <4>2, <4>3
      <3> QED  BY <1>2, <1>3, <2>4, <3>2 DEF OwnedInv
    <2> QED  BY <1>5, <2>10, <2>11 DEF CallInv, PlaceInv
  <1>8. ASSUME NEW call \in accepted[1], PeerForget(1, call) PROVE CallInv'
    <2>1. accepted'[1] \subseteq accepted[1] /\ UNCHANGED <<up, down>>
      BY <1>1, <1>8 DEF PeerForget, netVars
    <2>2. Accepted' \subseteq Accepted /\ Coming' = Coming
      BY <1>2, <2>1 DEF Accepted, Coming
    <2>3. AfterInv'
      BY <1>2, <1>3, <2>1, <2>2 DEF AfterInv
    <2>4. OwnedInv'
      BY <1>2, <1>3, <2>1, <2>2 DEF OwnedInv
    <2> QED  BY <1>5, <2>3, <2>4 DEF CallInv, PlaceInv
  <1> QED  BY <1>6, <1>7, <1>8 DEF ServerStep, PeerNext

\* Calls and responses that are lost with the connection are just gone.
LEMMA CallInvDrops ==
    ASSUME ClientInv, CallInv, ConnectionDrops
    PROVE  CallInv'
  <1>1. /\ up \in [Conns -> Seq(Request)] /\ up[1] \in Seq(Request)
        /\ down \in [Conns -> Seq(Response)] /\ down[1] \in Seq(Response)
        /\ chunk \in Seq(Response) /\ 1 \in Conns
    BY PlaceTypes
  <1>2. /\ UNCHANGED <<callIdx, strand, ongoing, promise, writer, chunk, user, life, accepted>>
        /\ life = "up"
    BY DEF ConnectionDrops, rpcVars
  <1>3. BeforeInv /\ AfterInv /\ OngoingInv /\ OwnedInv /\ PromiseInv
    BY <1>2 DEF CallInv, PlaceInv
  <1>4. Posting' = Posting /\ Accepted' = Accepted
    BY <1>2 DEF Posting, Accepted
  <1>5. PICK n \in 0..Len(up[1]) : up' = [up EXCEPT ![1] = Keep(up[1], n)]
    BY DEF ConnectionDrops, Drops
  <1>6. PICK m \in 0..Len(down[1]) : down' = [down EXCEPT ![1] = Keep(down[1], m)]
    BY DEF ConnectionDrops, Drops
  <1>7. up'[1] = Keep(up[1], n) /\ down'[1] = Keep(down[1], m)
    BY <1>1, <1>5, <1>6
  <1>8. /\ CallsIn(up'[1]) \subseteq CallsIn(up[1]) /\ CallMsgs(up'[1]) \subseteq CallMsgs(up[1])
        /\ CallsOnce(up[1]) => CallsOnce(up'[1])
    BY <1>1, <1>7, CutCalls
  <1>9. /\ IdsOf(Coming') \subseteq IdsOf(Coming)
        /\ IdsOnce(Coming) => IdsOnce(Coming')
        /\ \A k \in DOMAIN Coming' : k \in DOMAIN Coming /\ Coming'[k] = Coming[k]
    BY <1>1, <1>2, <1>7, LoseResponses DEF Coming
  <1>10. BeforeInv' /\ OngoingInv' /\ PromiseInv'
    BY <1>2, <1>3, <1>4, PromiseInvKept DEF BeforeInv, OngoingInv
  <1>11. AfterInv'
    BY <1>2, <1>3, <1>4, <1>8, <1>9 DEF AfterInv
  <1>12. OwnedInv'
    BY <1>2, <1>3, <1>8, <1>9 DEF OwnedInv
  <1> QED  BY <1>10, <1>11, <1>12 DEF CallInv, PlaceInv

\* Every step keeps every call at its place.
LEMMA CallStep == ClientInv /\ CallInv /\ [Next]_vars => CallInv'
  <1> SUFFICES ASSUME ClientInv, CallInv, [Next]_vars PROVE CallInv'
    OBVIOUS
  <1>1. CASE UNCHANGED vars
    <2>1. UNCHANGED <<callIdx, strand, ongoing, promise, writer, chunk, up, down, user, accepted, life>>
      BY <1>1 DEF vars, rpcVars, netVars
    <2>2. PromiseInv'
      BY <2>1, PromiseInvKept DEF CallInv
    <2>3. PlaceInv'
      BY <2>1, PlacesKept DEF CallInv, PlaceInv
    <2> QED  BY <2>2, <2>3 DEF CallInv
  <1>2. ASSUME NEW u \in User, UserNext(u), UNCHANGED accepted PROVE CallInv'
    BY <1>2, ThreadSteps, CallInvNumber, CallInvPost, CallInvQuiet DEF ClientInv, TypeOK
  <1>3. CASE ClientNext /\ UNCHANGED accepted
    BY <1>2, <1>3, CallInvStrand, CallInvWrite, CallInvRead, CallInvResponse, CallInvIdle, CallInvJoined
       DEF ClientNext, IoNext, DestroyNext
  <1> QED  BY <1>1, <1>3, CallInvServer, CallInvDrops DEF Next

(***************************************************************************)
(* The inductive invariant holds: every call is at one place, until it is  *)
(* answered, lost or forgotten.                                            *)
(***************************************************************************)
THEOREM CallsAreInOnePlace == Spec => [](ClientInv /\ CallInv)
  BY ClientInitially, ClientStep, CallInitially, CallStep, PTL DEF Spec

(***************************************************************************)
(* Nobody waits for a promise that neither a thread about to post, nor a   *)
(* handler on the strand, nor ongoing_calls_ holds.                        *)
(***************************************************************************)
THEOREM WaitingPromiseIsHeldHolds == Spec => []WaitingPromiseIsHeld
  <1>1. CallInv => WaitingPromiseIsHeld
    BY DEF CallInv, PlaceInv, OngoingInv, WaitingPromiseIsHeld, Posting
  <1> QED  BY <1>1, CallsAreInOnePlace, PTL

(***************************************************************************)
(* Every response on its way finds its call in ongoing_calls_ and its      *)
(* promise open, and no second one with its id follows.                    *)
(***************************************************************************)
THEOREM ResponseFindsItsCallHolds == Spec => []ResponseFindsItsCall
  <1>1. CallInv => ResponseFindsItsCall
    BY DEF CallInv, PlaceInv, AfterInv, ResponseFindsItsCall, Coming, IdsOf, IdsOnce
  <1> QED  BY <1>1, CallsAreInOnePlace, PTL

(***************************************************************************)
(* A caller gets the result computed from its own argument; a promise      *)
(* breaks only with the client.                                            *)
(***************************************************************************)
THEOREM OwnResultHolds == Spec => []OwnResult
  <1>1. ASSUME ClientInv, CallInv PROVE OwnResult
    <2>1. PromiseInv /\ NumberInv /\ \A u \in User : user[u].id \in Ids \cup {0}
      BY <1>1, PlaceTypes DEF CallInv, ClientInv
    <2>2. ASSUME NEW u \in User, user[u].outcome \in {"value", "error"}
          PROVE  promise[user[u].id].of = u
      <3>1. user[u].id \in Ids /\ user[u].id # 0 /\ promise[user[u].id].state \in {"value", "error"}
        BY <2>1, <2>2 DEF PromiseInv
      <3>2. /\ promise[user[u].id].of \in User
            /\ user[promise[user[u].id].of].id = user[u].id
        BY <2>1, <3>1 DEF PromiseInv
      <3> QED  BY <2>1, <3>1, <3>2 DEF NumberInv
    <2>3. ASSUME NEW u \in User, user[u].outcome = "broken" PROVE life = "destroyed"
      BY <2>1, <2>3 DEF PromiseInv
    <2> QED  BY <2>2, <2>3 DEF OwnResult
  <1> QED  BY <1>1, CallsAreInOnePlace, PTL

(***************************************************************************)
(* Handling a response never throws out of io_service::run(): the I/O      *)
(* thread is still the one that runs, or is being stopped, afterwards.     *)
(***************************************************************************)
ResponsesNeverThrow == [][HandleResponse => life' = life]_vars

\* set_value() and set_exception() meet an open promise in every behaviour.
THEOREM ResponsesNeverThrowHolds == Spec => ResponsesNeverThrow
  <1>1. ClientInv /\ CallInv /\ [Next]_vars => [HandleResponse => life' = life]_vars
    <2> SUFFICES ASSUME ClientInv, CallInv, Next, HandleResponse PROVE life' = life
      BY DEF vars, rpcVars
    <2>1. CASE UNCHANGED accepted
      BY <2>1, CallInvResponse
    <2>2. CASE ~UNCHANGED accepted
      BY <2>2 DEF Next, ServerStep, ConnectionDrops, rpcVars
    <2> QED  BY <2>1, <2>2
  <1> QED  BY <1>1, CallsAreInOnePlace, PTL DEF Spec, ResponsesNeverThrow
=============================================================================
