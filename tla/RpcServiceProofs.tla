-------------------------- MODULE RpcServiceProofs --------------------------
(***************************************************************************)
(* Proofs about rpc::server, for every number of connections, threads and  *)
(* messages, whatever the bound functions do and the clients plan.         *)
(***************************************************************************)
EXTENDS RpcService, StreamsProofs

PostLabels == {"push_back", "write", "close", "close_sessions",
               "close_socket", "close_session"}

\* Handlers of a write strand; one that writes has a response.
Posted == {p \in [do : PostLabels, resp : Seq(Response)] :
              p.do = "write" => p.resp # <<>>}

Task == [conn : Conns, msg : Request]

\* A writer with one chain of writes; a failed write ends the chain for good,
\* and leaves its buffer at the front.
Chained ==
    {w \in Writer(Response) :
        /\ w.inFlight <= 1
        /\ w.inFlight = 1 => w.queue # <<>> /\ ~w.stuck
        /\ w.queue # <<>> /\ ~w.stuck /\ ~w.exit => w.inFlight = 1
        /\ w.stuck => w.queue # <<>>}

TypeInv ==
    /\ NetTypeOK
    /\ backlog \in Seq(Conns)
    /\ acceptor \in {"pending", "cancelled", "none"}
    /\ sessions \subseteq Conns
    /\ reading \in [Conns -> BOOLEAN]
    /\ tasks \in Seq(Task)
    /\ worker \in [Thread -> [conn : Conns, todo : Seq(Posted)]]
    /\ stopping \in [Thread -> BOOLEAN]
    /\ wstrand \in [Conns -> Seq(Posted)]
    /\ writer \in [Conns -> Chained]
    /\ sockOpen \in [Conns -> BOOLEAN]
    /\ srv \in {"up", "stopped", "crashed"}
    /\ plan \in Plans
    /\ linked \in [Conns -> BOOLEAN]
    /\ sent \in [Conns -> Seq(Request)]

-----------------------------------------------------------------------------
(***************************************************************************)
(* Posts(m) is a sequence of handlers, of which the first may write.       *)
(***************************************************************************)
\* The response a handler writes.
LEMMA PostedParts ==
    ASSUME NEW p \in Posted
    PROVE  /\ p.do \in PostLabels /\ p.resp \in Seq(Response)
           /\ p.do = "write" => p.resp[1] \in Response
  <1>1. p.do \in PostLabels /\ p.resp \in Seq(Response) /\ (p.do = "write" => p.resp # <<>>)
    BY DEF Posted
  <1>2. ASSUME p.resp # <<>> PROVE p.resp[1] \in Response
    BY <1>1, <1>2, HeadTailParts
  <1> QED  BY <1>1, <1>2

\* Handlers that only close, and the one that writes a response.
LEMMA PostIsPosted ==
    /\ \A d \in PostLabels \ {"write"} : Post(d) \in Posted /\ Post(d).do = d
    /\ \A r \in Response : /\ WritePost(r) \in Posted /\ WritePost(r).do = "write"
                           /\ WritePost(r).resp[1] = r
  <1>1. ASSUME NEW d \in PostLabels \ {"write"} PROVE Post(d) \in Posted /\ Post(d).do = d
    BY EmptySeq DEF Post, Posted, PostLabels
  <1>2. ASSUME NEW r \in Response
        PROVE  /\ WritePost(r) \in Posted /\ WritePost(r).do = "write"
               /\ WritePost(r).resp[1] = r
    <2>1. <<r>> \in Seq(Response) /\ <<r>> # <<>> /\ <<r>>[1] = r
      OBVIOUS
    <2>2. PICK s \in Seq(Response) : s = <<r>>
      BY <2>1
    <2>3. s # <<>> /\ s[1] = r /\ WritePost(r) = [do |-> "write", resp |-> s]
      BY <2>1, <2>2 DEF WritePost
    <2> QED  BY <2>2, <2>3 DEF Posted, PostLabels
  <1> QED  BY <1>1, <1>2


-----------------------------------------------------------------------------
(***************************************************************************)
(* Where calls are: the calls that a sequence of handlers answers, of      *)
(* responses, of requests and of tasks, and that none of them is there     *)
(* twice.                                                                  *)
(***************************************************************************)
PostsOnce(s) ==
    \A j, k \in 1..Len(s) :
        s[j].do = "write" /\ s[k].do = "write" /\ CallOf(s[j].resp[1]) = CallOf(s[k].resp[1])
            => j = k

\* A call is answered by a sequence of handlers if one of them writes.
LEMMA InCallsTo ==
    ASSUME NEW s \in Seq(Posted), NEW x
    PROVE  x \in CallsTo(s) <=>
               \E k \in 1..Len(s) : s[k].do = "write" /\ x = CallOf(s[k].resp[1])
  <1>1. DOMAIN s = 1..Len(s)
    BY LenProperties
  <1> QED  BY <1>1 DEF CallsTo

\* No handlers, and one handler.
LEMMA PostsFew ==
    /\ CallsTo(<<>>) = {} /\ PostsOnce(<<>>)
    /\ \A p \in Posted : /\ <<p>> \in Seq(Posted) /\ PostsOnce(<<p>>)
                         /\ CallsTo(<<p>>) = IF p.do = "write" THEN {CallOf(p.resp[1])} ELSE {}
  <1>1. CallsTo(<<>>) = {} /\ PostsOnce(<<>>)
    BY DEF CallsTo, PostsOnce
  <1>2. ASSUME NEW p \in Posted
        PROVE  /\ <<p>> \in Seq(Posted) /\ PostsOnce(<<p>>)
               /\ CallsTo(<<p>>) = IF p.do = "write" THEN {CallOf(p.resp[1])} ELSE {}
    <2>0. <<p>> \in Seq(Posted)
      OBVIOUS
    <2>1. PICK s \in Seq(Posted) : s = <<p>>
      BY <2>0
    <2>2. Len(s) = 1 /\ s[1] = p /\ \A k \in 1..1 : k = 1
      BY <2>1
    <2>3. PostsOnce(s)
      BY <2>2 DEF PostsOnce
    <2>4. CallsTo(s) = IF p.do = "write" THEN {CallOf(p.resp[1])} ELSE {}
      BY <2>2, InCallsTo
    <2> QED  BY <2>1, <2>3, <2>4
  <1> QED  BY <1>1, <1>2

\* Handlers after other handlers.
LEMMA PostsConcat ==
    ASSUME NEW s \in Seq(Posted), NEW t \in Seq(Posted)
    PROVE  /\ s \o t \in Seq(Posted) /\ CallsTo(s \o t) = CallsTo(s) \cup CallsTo(t)
           /\ PostsOnce(s) /\ PostsOnce(t) /\ CallsTo(s) \cap CallsTo(t) = {} => PostsOnce(s \o t)
  <1>1. PICK u \in Seq(Posted) : u = s \o t
    BY ConcatProperties
  <1>2. Len(s) \in Nat /\ Len(t) \in Nat
    BY LenProperties
  <1>3. Len(u) = Len(s) + Len(t) /\ \A k \in 1..(Len(s) + Len(t)) :
                                       u[k] = IF k <= Len(s) THEN s[k] ELSE t[k - Len(s)]
    BY <1>1, ConcatProperties
  <1>4. /\ \A k \in 1..Len(s) : k \in 1..Len(u) /\ u[k] = s[k]
        /\ \A k \in 1..Len(t) : k + Len(s) \in 1..Len(u) /\ u[k + Len(s)] = t[k]
        /\ \A k \in 1..Len(u) : \/ k \in 1..Len(s) /\ u[k] = s[k]
                                \/ k - Len(s) \in 1..Len(t) /\ u[k] = t[k - Len(s)]
    <2>1. ASSUME NEW k \in 1..Len(t)
          PROVE  k + Len(s) \in 1..Len(u) /\ u[k + Len(s)] = t[k]
      <3>1. k + Len(s) \in 1..(Len(s) + Len(t)) /\ ~(k + Len(s) <= Len(s)) /\ (k + Len(s)) - Len(s) = k
        BY <1>2
      <3> QED  BY <1>3, <3>1
    <2>2. ASSUME NEW k \in 1..Len(s) PROVE k \in 1..Len(u) /\ u[k] = s[k]
      BY <1>2, <1>3
    <2>3. ASSUME NEW k \in 1..Len(u)
          PROVE  \/ k \in 1..Len(s) /\ u[k] = s[k]
                 \/ k - Len(s) \in 1..Len(t) /\ u[k] = t[k - Len(s)]
      BY <1>2, <1>3
    <2> QED  BY <2>1, <2>2, <2>3
  <1>5. CallsTo(u) = CallsTo(s) \cup CallsTo(t)
    <2>1. ASSUME NEW x PROVE x \in CallsTo(u) <=> x \in CallsTo(s) \/ x \in CallsTo(t)
      <3>0. \A q \in Seq(Posted) : x \in CallsTo(q) <=>
               \E k \in 1..Len(q) : q[k].do = "write" /\ x = CallOf(q[k].resp[1])
        BY InCallsTo
      <3>1. ASSUME x \in CallsTo(s) PROVE x \in CallsTo(u)
        <4>1. PICK k \in 1..Len(s) : s[k].do = "write" /\ x = CallOf(s[k].resp[1])
          BY <3>0, <3>1
        <4>2. k \in 1..Len(u) /\ u[k] = s[k]
          BY <1>4
        <4> QED  BY <3>0, <4>1, <4>2
      <3>2. ASSUME x \in CallsTo(t) PROVE x \in CallsTo(u)
        <4>1. PICK k \in 1..Len(t) : t[k].do = "write" /\ x = CallOf(t[k].resp[1])
          BY <3>0, <3>2
        <4>2. PICK l \in 1..Len(u) : u[l] = t[k]
          BY <1>4
        <4> QED  BY <3>0, <4>1, <4>2
      <3>3. ASSUME x \in CallsTo(u) PROVE x \in CallsTo(s) \/ x \in CallsTo(t)
        <4>1. PICK k \in 1..Len(u) : u[k].do = "write" /\ x = CallOf(u[k].resp[1])
          BY <3>0, <3>3
        <4>2. \/ \E l \in 1..Len(s) : u[k] = s[l]
              \/ \E l \in 1..Len(t) : u[k] = t[l]
          BY <1>4
        <4> QED  BY <3>0, <4>1, <4>2
      <3> QED  BY <3>1, <3>2, <3>3
    <2> QED  BY <2>1
  <1>6. ASSUME PostsOnce(s), PostsOnce(t), CallsTo(s) \cap CallsTo(t) = {}
        PROVE  PostsOnce(u)
    <2> SUFFICES ASSUME NEW j \in 1..Len(u), NEW k \in 1..Len(u),
                        u[j].do = "write", u[k].do = "write",
                        CallOf(u[j].resp[1]) = CallOf(u[k].resp[1])
                 PROVE  j = k
      BY DEF PostsOnce
    <2>1. CASE j \in 1..Len(s) /\ u[j] = s[j]
      <3>1. CASE k \in 1..Len(s) /\ u[k] = s[k]
        BY <1>6, <2>1, <3>1 DEF PostsOnce
      <3>2. CASE k - Len(s) \in 1..Len(t) /\ u[k] = t[k - Len(s)]
        <4>1. CallOf(u[j].resp[1]) \in CallsTo(s)
          BY <2>1, InCallsTo
        <4>2. CallOf(u[k].resp[1]) \in CallsTo(t)
          BY <3>2, InCallsTo
        <4> QED  BY <1>6, <4>1, <4>2
      <3> QED  BY <1>4, <3>1, <3>2
    <2>2. CASE j - Len(s) \in 1..Len(t) /\ u[j] = t[j - Len(s)]
      <3>1. CASE k \in 1..Len(s) /\ u[k] = s[k]
        <4>1. CallOf(u[k].resp[1]) \in CallsTo(s)
          BY <3>1, InCallsTo
        <4>2. CallOf(u[j].resp[1]) \in CallsTo(t)
          BY <2>2, InCallsTo
        <4> QED  BY <1>6, <4>1, <4>2
      <3>2. CASE k - Len(s) \in 1..Len(t) /\ u[k] = t[k - Len(s)]
        <4>1. j - Len(s) = k - Len(s)
          BY <1>6, <2>2, <3>2 DEF PostsOnce
        <4>2. j \in Int /\ k \in Int
          OBVIOUS
        <4> QED  BY <1>2, <4>1, <4>2
      <3> QED  BY <1>4, <3>1, <3>2
    <2> QED  BY <1>4, <2>1, <2>2
  <1> QED  BY <1>1, <1>5, <1>6

\* The first handler and the others.
LEMMA PostsTail ==
    ASSUME NEW s \in Seq(Posted), s # <<>>
    PROVE  /\ Head(s) \in Posted /\ Tail(s) \in Seq(Posted)
           /\ CallsTo(s) = CallsTo(<<Head(s)>>) \cup CallsTo(Tail(s))
           /\ PostsOnce(s) => /\ PostsOnce(Tail(s))
                              /\ CallsTo(<<Head(s)>>) \cap CallsTo(Tail(s)) = {}
  <1>1. /\ Len(s) \in Nat /\ Len(s) >= 1 /\ Head(s) = s[1] /\ Head(s) \in Posted
        /\ Tail(s) \in Seq(Posted) /\ Len(Tail(s)) = Len(s) - 1
        /\ \A k \in 1..(Len(s) - 1) : Tail(s)[k] = s[k + 1]
    BY HeadTailParts
  <1>2. PICK h \in Posted, t \in Seq(Posted) : h = Head(s) /\ t = Tail(s)
    BY <1>1
  <1>3. <<h>> \o t = s
    BY <1>2, MoveFront
  <1>4. CallsTo(s) = CallsTo(<<h>>) \cup CallsTo(t)
    BY <1>3, PostsFew, PostsConcat
  <1>5. \A k \in 1..Len(t) : k + 1 \in 1..Len(s) /\ k + 1 # 1 /\ t[k] = s[k + 1]
    BY <1>1, <1>2
  <1>6. ASSUME PostsOnce(s) PROVE PostsOnce(t)
    <2> SUFFICES ASSUME NEW j \in 1..Len(t), NEW k \in 1..Len(t),
                        t[j].do = "write", t[k].do = "write",
                        CallOf(t[j].resp[1]) = CallOf(t[k].resp[1])
                 PROVE  j = k
      BY DEF PostsOnce
    <2>1. j + 1 = k + 1
      BY <1>5, <1>6 DEF PostsOnce
    <2> QED  BY <2>1
  <1>7. ASSUME PostsOnce(s) PROVE CallsTo(<<h>>) \cap CallsTo(t) = {}
    <2> SUFFICES ASSUME h.do = "write", CallOf(h.resp[1]) \in CallsTo(t) PROVE FALSE
      BY PostsFew
    <2>1. PICK k \in 1..Len(t) : t[k].do = "write" /\ CallOf(h.resp[1]) = CallOf(t[k].resp[1])
      BY InCallsTo
    <2>2. 1 \in 1..Len(s) /\ s[1] = h
      BY <1>1, <1>2
    <2> QED  BY <1>5, <1>7, <2>1, <2>2 DEF PostsOnce
  <1> QED  BY <1>2, <1>4, <1>6, <1>7


\* A response carries the call it answers.
LEMMA CallOfResponse ==
    /\ \A r \in Response : CallOf(r) \in Call /\ CallOf(r).id = r.id /\ CallOf(r).arg = r.of
    /\ \A m \in Call : \A e \in BOOLEAN :
          LET r == [id |-> m.id, error |-> e, of |-> m.arg]
          IN  r \in Response /\ CallOf(r) = m
  BY DEF CallOf, Call, Response

(***************************************************************************)
(* What a task posts answers its own message, if it is a call, once.       *)
(***************************************************************************)
LEMMA PostsShape ==
    ASSUME NEW m \in Request
    PROVE  /\ Posts(m) \in Seq(Posted) /\ PostsOnce(Posts(m))
           /\ CallsTo(Posts(m)) = IF m \in Call /\ "disable" \notin m.arg THEN {m} ELSE {}
  <1> DEFINE w == [k \in DOMAIN dispatch(m) |-> WritePost(dispatch(m)[k])]
             e == IF "exit" \in m.arg THEN <<Post("close")>> ELSE <<>>
             s == IF "stop" \in m.arg THEN <<Post("close_sessions")>> ELSE <<>>
  <1>1. w \in Seq(Posted) /\ PostsOnce(w) /\ CallsTo(w) = IF m \in Call THEN {m} ELSE {}
    <2>1. CASE m \in Call
      <3>1. m.kind = "call"
        BY <2>1 DEF Call
      <3>2. PICK r : r = [id |-> m.id, error |-> Fails(m), of |-> m.arg]
        OBVIOUS
      <3>3. r \in Response /\ CallOf(r) = m
        <4>1. Fails(m) \in BOOLEAN
          BY DEF Fails
        <4> QED  BY <2>1, <3>2, <4>1, CallOfResponse
      <3>4. dispatch(m) = <<r>>
        BY <3>1, <3>2 DEF dispatch
      <3>5. PICK p \in Posted : p = WritePost(r) /\ p.do = "write" /\ p.resp[1] = r
        BY <3>3, PostIsPosted
      <3>6. w = <<p>>
        BY <3>4, <3>5
      <3>7. <<p>> \in Seq(Posted) /\ PostsOnce(<<p>>) /\ CallsTo(<<p>>) = {m}
        BY <3>3, <3>5, PostsFew
      <3> QED  BY <2>1, <3>6, <3>7
    <2>2. CASE m \notin Call
      <3>1. m.kind # "call"
        BY <2>2 DEF Request, Note
      <3>2. dispatch(m) = <<>>
        BY <3>1 DEF dispatch
      <3>3. w = <<>>
        BY <3>2
      <3> QED  BY <2>2, <3>3, PostsFew, EmptySeq
    <2> QED  BY <2>1, <2>2
  <1>2. e \in Seq(Posted) /\ PostsOnce(e) /\ CallsTo(e) = {}
    <2>1. Post("close") \in Posted /\ Post("close").do = "close"
      BY PostIsPosted DEF PostLabels
    <2>2. <<Post("close")>> \in Seq(Posted) /\ PostsOnce(<<Post("close")>>) /\ CallsTo(<<Post("close")>>) = {}
      BY <2>1, PostsFew
    <2> QED  BY <2>2, PostsFew, EmptySeq
  <1>3. s \in Seq(Posted) /\ PostsOnce(s) /\ CallsTo(s) = {}
    <2>1. Post("close_sessions") \in Posted /\ Post("close_sessions").do = "close_sessions"
      BY PostIsPosted DEF PostLabels
    <2>2. /\ <<Post("close_sessions")>> \in Seq(Posted) /\ PostsOnce(<<Post("close_sessions")>>)
          /\ CallsTo(<<Post("close_sessions")>>) = {}
      BY <2>1, PostsFew
    <2> QED  BY <2>2, PostsFew, EmptySeq
  <1>4. Posts(m) = IF "disable" \in m.arg THEN <<>> ELSE w \o e \o s
    BY DEF Posts
  <1> HIDE DEF w, e, s
  <1>5. w \o e \in Seq(Posted) /\ PostsOnce(w \o e) /\ CallsTo(w \o e) = CallsTo(w)
    BY <1>1, <1>2, PostsConcat
  <1>6. PICK v \in Seq(Posted) : v = w \o e
    BY <1>5
  <1>7. v \o s \in Seq(Posted) /\ PostsOnce(v \o s) /\ CallsTo(v \o s) = CallsTo(w)
    <2>1. PostsOnce(v) /\ CallsTo(v) = CallsTo(w)
      BY <1>5, <1>6
    <2>2. s \in Seq(Posted) /\ PostsOnce(s) /\ CallsTo(s) = {} /\ CallsTo(v) \cap CallsTo(s) = {}
      BY <1>3
    <2>3. v \o s \in Seq(Posted) /\ CallsTo(v \o s) = CallsTo(v) \cup CallsTo(s)
      BY <2>2, PostsConcat
    <2>4. PostsOnce(v \o s)
      BY <2>1, <2>2, PostsConcat
    <2> QED  BY <2>1, <2>2, <2>3, <2>4
  <1>8. CASE "disable" \in m.arg
    BY <1>4, <1>8, PostsFew, EmptySeq
  <1>9. CASE "disable" \notin m.arg
    BY <1>1, <1>4, <1>6, <1>7, <1>9
  <1> QED  BY <1>8, <1>9


\* The calls that responses answer.
CallsOf(q) == {CallOf(q[k]) : k \in DOMAIN q}

OneEach(q) == \A j, k \in 1..Len(q) : CallOf(q[j]) = CallOf(q[k]) => j = k

\* A response behind others.
LEMMA ResponsesAppend ==
    ASSUME NEW q \in Seq(Response), NEW r \in Response
    PROVE  /\ CallsOf(Append(q, r)) = CallsOf(q) \cup {CallOf(r)}
           /\ OneEach(q) /\ CallOf(r) \notin CallsOf(q) => OneEach(Append(q, r))
  <1> DEFINE a == Append(q, r)
             n == Len(q)
  <1>1. /\ n \in Nat /\ Len(a) = n + 1 /\ DOMAIN q = 1..n /\ DOMAIN a = 1..(n + 1)
        /\ \A k \in 1..n : a[k] = q[k]
        /\ a[n + 1] = r
    BY AppendParts
  <1> HIDE DEF a, n
  <1>2. \A k \in 1..(n + 1) : k \in 1..n \/ k = n + 1
    BY <1>1
  <1>3. (\A k \in 1..n : k \in 1..(n + 1)) /\ n + 1 \in 1..(n + 1)
    BY <1>1
  <1>4. CallsOf(a) = CallsOf(q) \cup {CallOf(r)}
    BY <1>1, <1>2, <1>3 DEF CallsOf
  <1>5. OneEach(q) /\ CallOf(r) \notin CallsOf(q) => OneEach(a)
    BY <1>1, <1>2 DEF OneEach, CallsOf, n
  <1> QED  BY <1>4, <1>5 DEF a

\* The first response and the others.
LEMMA ResponsesTail ==
    ASSUME NEW q \in Seq(Response), q # <<>>
    PROVE  /\ Head(q) \in Response /\ Tail(q) \in Seq(Response)
           /\ CallsOf(q) = CallsOf(Tail(q)) \cup {CallOf(Head(q))}
           /\ OneEach(q) => OneEach(Tail(q)) /\ CallOf(Head(q)) \notin CallsOf(Tail(q))
  <1> DEFINE t == Tail(q)
             n == Len(q)
  <1>1. /\ n \in Nat /\ n >= 1 /\ Head(q) = q[1] /\ Head(q) \in Response
        /\ t \in Seq(Response) /\ Len(t) = n - 1
        /\ DOMAIN q = 1..n /\ DOMAIN t = 1..(n - 1)
        /\ \A k \in 1..(n - 1) : t[k] = q[k + 1]
    BY HeadTailParts
  <1> HIDE DEF t, n
  <1>2. /\ \A k \in 1..(n - 1) : k + 1 \in 1..n /\ k + 1 # 1
        /\ 1 \in 1..n
    BY <1>1
  <1>3. ASSUME NEW k \in 1..n, k # 1 PROVE \E j \in 1..(n - 1) : q[k] = t[j]
    <2>1. k - 1 \in 1..(n - 1) /\ (k - 1) + 1 = k
      BY <1>1, <1>3
    <2>2. q[k] = t[k - 1]
      BY <1>1, <2>1
    <2> QED  BY <2>1, <2>2
  <1>4. CallsOf(q) = CallsOf(t) \cup {CallOf(Head(q))}
    <2>1. ASSUME NEW x \in CallsOf(q) PROVE x \in CallsOf(t) \/ x = CallOf(Head(q))
      BY <1>1, <1>3 DEF CallsOf
    <2>2. ASSUME NEW x \in CallsOf(t) PROVE x \in CallsOf(q)
      <3>1. PICK k \in 1..(n - 1) : x = CallOf(t[k])
        BY <1>1 DEF CallsOf
      <3>2. k + 1 \in 1..n /\ x = CallOf(q[k + 1])
        BY <1>1, <1>2, <3>1
      <3> QED  BY <1>1, <3>2 DEF CallsOf
    <2>3. CallOf(Head(q)) \in CallsOf(q)
      BY <1>1, <1>2 DEF CallsOf
    <2> QED  BY <2>1, <2>2, <2>3
  <1>5. ASSUME OneEach(q) PROVE OneEach(t)
    <2> SUFFICES ASSUME NEW j \in 1..(n - 1), NEW k \in 1..(n - 1), CallOf(t[j]) = CallOf(t[k])
                 PROVE  j = k
      BY <1>1 DEF OneEach
    <2>1. j + 1 = k + 1
      BY <1>1, <1>2, <1>5 DEF OneEach, n
    <2> QED  BY <2>1
  <1>6. ASSUME OneEach(q) PROVE CallOf(Head(q)) \notin CallsOf(t)
    BY <1>1, <1>2, <1>6 DEF OneEach, CallsOf, n
  <1> QED  BY <1>1, <1>4, <1>5, <1>6 DEF t

-----------------------------------------------------------------------------
\* The calls among requests.
CallsIn(s) == {s[k] : k \in DOMAIN s} \cap Call

CallsOnce(s) == \A j, k \in 1..Len(s) : s[j] \in Call /\ s[j] = s[k] => j = k

\* A request behind others.
LEMMA RequestsAppend ==
    ASSUME NEW s \in Seq(Request), NEW m \in Request
    PROVE  /\ CallsIn(Append(s, m)) = CallsIn(s) \cup ({m} \cap Call)
           /\ CallsOnce(s) /\ (m \in Call => m \notin CallsIn(s)) => CallsOnce(Append(s, m))
  <1> DEFINE a == Append(s, m)
             n == Len(s)
  <1>1. /\ n \in Nat /\ Len(a) = n + 1 /\ DOMAIN s = 1..n /\ DOMAIN a = 1..(n + 1)
        /\ \A k \in 1..n : a[k] = s[k]
        /\ a[n + 1] = m
    BY AppendParts
  <1> HIDE DEF a, n
  <1>2. \A k \in 1..(n + 1) : k \in 1..n \/ k = n + 1
    BY <1>1
  <1>3. (\A k \in 1..n : k \in 1..(n + 1)) /\ n + 1 \in 1..(n + 1)
    BY <1>1
  <1>4. CallsIn(a) = CallsIn(s) \cup ({m} \cap Call)
    BY <1>1, <1>2, <1>3 DEF CallsIn
  <1>5. CallsOnce(s) /\ (m \in Call => m \notin CallsIn(s)) => CallsOnce(a)
    BY <1>1, <1>2 DEF CallsOnce, CallsIn, n
  <1> QED  BY <1>4, <1>5 DEF a

\* Some first requests, and the others.
LEMMA RequestsSplit ==
    ASSUME NEW s \in Seq(Request), NEW n \in 0..Len(s)
    PROVE  /\ CallsIn(Keep(s, n)) = {s[k] : k \in 1..n} \cap Call
           /\ CallsIn(s) = CallsIn(Keep(s, n)) \cup CallsIn(Drop(s, n))
           /\ CallsOnce(s) => /\ CallsOnce(Keep(s, n)) /\ CallsOnce(Drop(s, n))
                              /\ CallsIn(Keep(s, n)) \cap CallsIn(Drop(s, n)) = {}
  <1> DEFINE a == Keep(s, n)
             b == Drop(s, n)
             l == Len(s)
  <1>1. /\ a \in Seq(Request) /\ b \in Seq(Request) /\ Len(a) = n /\ Len(b) = l - n
        /\ \A k \in 1..n : a[k] = s[k]
        /\ \A k \in 1..(l - n) : b[k] = s[n + k]
    BY KeepDropType
  <1>2. l \in Nat /\ DOMAIN s = 1..l
    BY LenProperties
  <1>3. DOMAIN a = 1..n /\ DOMAIN b = 1..(l - n)
    BY <1>1, LenProperties
  <1> HIDE DEF a, b, l
  <1>4. /\ n \in Nat /\ n <= l
        /\ \A k \in 1..n : k \in 1..l
        /\ \A k \in 1..(l - n) : n + k \in 1..l /\ n + k \notin 1..n
        /\ \A k \in 1..l : k \in 1..n \/ (k - n \in 1..(l - n) /\ n + (k - n) = k)
    BY <1>2 DEF l
  <1>5. CallsIn(a) = {s[k] : k \in 1..n} \cap Call
    BY <1>1, <1>3 DEF CallsIn
  <1>6. CallsIn(s) = CallsIn(a) \cup CallsIn(b)
    <2>1. ASSUME NEW x \in CallsIn(s) PROVE x \in CallsIn(a) \/ x \in CallsIn(b)
      <3>1. PICK k \in 1..l : x = s[k]
        BY <1>2 DEF CallsIn
      <3>2. x \in Call
        BY DEF CallsIn
      <3>3. CASE k \in 1..n
        BY <1>1, <1>3, <3>1, <3>2, <3>3 DEF CallsIn
      <3>4. CASE k - n \in 1..(l - n) /\ n + (k - n) = k
        <4>1. PICK j \in 1..(l - n) : n + j = k
          BY <3>4
        <4>2. b[j] = x
          BY <1>1, <3>1, <4>1
        <4> QED  BY <1>3, <3>2, <4>2 DEF CallsIn
      <3> QED  BY <1>4, <3>3, <3>4
    <2>2. ASSUME NEW x \in CallsIn(a) PROVE x \in CallsIn(s)
      BY <1>1, <1>2, <1>3, <1>4 DEF CallsIn
    <2>3. ASSUME NEW x \in CallsIn(b) PROVE x \in CallsIn(s)
      <3>1. PICK k \in 1..(l - n) : x = b[k] /\ x \in Call
        BY <1>3 DEF CallsIn
      <3>2. n + k \in 1..l /\ x = s[n + k]
        BY <1>1, <1>4, <3>1
      <3> QED  BY <1>2, <3>1, <3>2 DEF CallsIn
    <2> QED  BY <2>1, <2>2, <2>3
  <1>7. ASSUME CallsOnce(s) PROVE CallsOnce(a)
    BY <1>1, <1>4, <1>7 DEF CallsOnce, l
  <1>8. ASSUME CallsOnce(s) PROVE CallsOnce(b)
    <2> SUFFICES ASSUME NEW j \in 1..(l - n), NEW k \in 1..(l - n), b[j] \in Call, b[j] = b[k]
                 PROVE  j = k
      BY <1>1 DEF CallsOnce
    <2>1. n + j \in 1..l /\ n + k \in 1..l /\ s[n + j] = b[j] /\ s[n + k] = b[k]
      BY <1>1, <1>4
    <2>2. \A x, y \in 1..l : s[x] \in Call /\ s[x] = s[y] => x = y
      BY <1>8 DEF CallsOnce, l
    <2>3. n + j = n + k
      BY <2>1, <2>2
    <2> QED  BY <1>4, <2>3
  <1>9. ASSUME CallsOnce(s) PROVE CallsIn(a) \cap CallsIn(b) = {}
    <2> SUFFICES ASSUME NEW j \in 1..n, NEW k \in 1..(l - n), a[j] \in Call, a[j] = b[k]
                 PROVE  FALSE
      BY <1>3 DEF CallsIn
    <2>1. /\ j \in 1..l /\ n + k \in 1..l /\ n + k \notin 1..n
          /\ s[j] = a[j] /\ s[n + k] = b[k]
      BY <1>1, <1>4
    <2>2. \A x, y \in 1..l : s[x] \in Call /\ s[x] = s[y] => x = y
      BY <1>9 DEF CallsOnce, l
    <2>3. j = n + k
      BY <2>1, <2>2
    <2> QED  BY <2>1, <2>3
  <1> QED  BY <1>5, <1>6, <1>7, <1>8, <1>9 DEF a, b

-----------------------------------------------------------------------------
\* The calls of connection c among tasks.
ConnCalls(ts, c) == {ts[k].msg : k \in {k \in DOMAIN ts : ts[k].conn = c}} \cap Call

TasksOnce(ts) == \A j, k \in 1..Len(ts) : ts[j].msg \in Call /\ ts[j] = ts[k] => j = k

\* A message has a task if one of them is for it.
LEMMA InConnCalls ==
    ASSUME NEW ts \in Seq(Task), NEW c, NEW x
    PROVE  x \in ConnCalls(ts, c) <=>
               x \in Call /\ \E k \in 1..Len(ts) : ts[k].conn = c /\ x = ts[k].msg
  <1>1. DOMAIN ts = 1..Len(ts)
    BY LenProperties
  <1> QED  BY <1>1 DEF ConnCalls

\* A task is its connection and its message.
LEMMA SameTask ==
    \A x, y \in Task : x.conn = y.conn /\ x.msg = y.msg => x = y
  BY DEF Task

\* The first task and the others.
LEMMA TasksTail ==
    ASSUME NEW ts \in Seq(Task), ts # <<>>
    PROVE  /\ Head(ts) \in Task /\ Tail(ts) \in Seq(Task)
           /\ \A c : ConnCalls(ts, c) = ConnCalls(Tail(ts), c) \cup
                        (IF Head(ts).conn = c THEN {Head(ts).msg} \cap Call ELSE {})
           /\ TasksOnce(ts) => /\ TasksOnce(Tail(ts))
                               /\ Head(ts).msg \notin ConnCalls(Tail(ts), Head(ts).conn)
  <1>1. /\ Len(ts) \in Nat /\ Len(ts) >= 1 /\ Head(ts) = ts[1] /\ Head(ts) \in Task
        /\ Tail(ts) \in Seq(Task) /\ Len(Tail(ts)) = Len(ts) - 1
        /\ \A k \in 1..(Len(ts) - 1) : Tail(ts)[k] = ts[k + 1]
    BY HeadTailParts
  <1>2. PICK h \in Task, t \in Seq(Task) : h = Head(ts) /\ t = Tail(ts)
    BY <1>1
  <1>3. PICK n \in Nat : n = Len(ts) - 1 /\ Len(ts) = n + 1
    <2>1. Len(ts) - 1 \in Nat /\ Len(ts) = (Len(ts) - 1) + 1
      BY <1>1
    <2> QED  BY <2>1
  <1>4. /\ Len(t) = n /\ ts[1] = h /\ 1 \in 1..(n + 1)
        /\ \A k \in 1..n : k + 1 \in 1..(n + 1) /\ k + 1 # 1 /\ t[k] = ts[k + 1]
    BY <1>1, <1>2, <1>3
  <1>5. ASSUME NEW k \in 1..(n + 1), k # 1 PROVE \E j \in 1..n : ts[k] = t[j]
    <2>1. k - 1 \in 1..n /\ (k - 1) + 1 = k
      BY <1>5
    <2>2. ts[k] = t[k - 1]
      BY <1>4, <2>1
    <2> QED  BY <2>1, <2>2
  <1>6. ASSUME NEW c
        PROVE  ConnCalls(ts, c) = ConnCalls(t, c) \cup (IF h.conn = c THEN {h.msg} \cap Call ELSE {})
    <2>1. ASSUME NEW x
          PROVE  x \in ConnCalls(ts, c) <=>
                    x \in ConnCalls(t, c) \/ (h.conn = c /\ x = h.msg /\ x \in Call)
      <3>0. /\ x \in ConnCalls(ts, c) <=>
                  x \in Call /\ \E k \in 1..(n + 1) : ts[k].conn = c /\ x = ts[k].msg
            /\ x \in ConnCalls(t, c) <=>
                  x \in Call /\ \E k \in 1..n : t[k].conn = c /\ x = t[k].msg
        BY <1>3, <1>4, InConnCalls
      <3>1. ASSUME x \in ConnCalls(ts, c)
            PROVE  x \in ConnCalls(t, c) \/ (h.conn = c /\ x = h.msg /\ x \in Call)
        <4>1. PICK k \in 1..(n + 1) : ts[k].conn = c /\ x = ts[k].msg /\ x \in Call
          BY <3>0, <3>1
        <4>2. CASE k = 1
          BY <1>4, <4>1, <4>2
        <4>3. CASE k # 1
          BY <1>5, <3>0, <4>1, <4>3
        <4> QED  BY <4>2, <4>3
      <3>2. ASSUME x \in ConnCalls(t, c) PROVE x \in ConnCalls(ts, c)
        <4>1. PICK k \in 1..n : t[k].conn = c /\ x = t[k].msg /\ x \in Call
          BY <3>0, <3>2
        <4>2. k + 1 \in 1..(n + 1) /\ t[k] = ts[k + 1]
          BY <1>4
        <4> QED  BY <3>0, <4>1, <4>2
      <3>3. ASSUME h.conn = c /\ x = h.msg /\ x \in Call PROVE x \in ConnCalls(ts, c)
        BY <1>4, <3>0, <3>3
      <3> QED  BY <3>1, <3>2, <3>3
    <2> QED  BY <2>1
  <1>7. ASSUME TasksOnce(ts) PROVE TasksOnce(t)
    <2>1. \A x, y \in 1..(n + 1) : ts[x].msg \in Call /\ ts[x] = ts[y] => x = y
      BY <1>3, <1>7 DEF TasksOnce
    <2> SUFFICES ASSUME NEW j \in 1..n, NEW k \in 1..n, t[j].msg \in Call, t[j] = t[k]
                 PROVE  j = k
      BY <1>4 DEF TasksOnce
    <2>2. j + 1 = k + 1
      <3>1. /\ j + 1 \in 1..(n + 1) /\ k + 1 \in 1..(n + 1)
            /\ ts[j + 1] = t[j] /\ ts[k + 1] = t[k]
        BY <1>4
      <3> QED  BY <2>1, <3>1
    <2> QED  BY <2>2
  <1>8. ASSUME TasksOnce(ts) PROVE h.msg \notin ConnCalls(t, h.conn)
    <2> SUFFICES ASSUME h.msg \in ConnCalls(t, h.conn) PROVE FALSE
      OBVIOUS
    <2>1. \A x, y \in 1..(n + 1) : ts[x].msg \in Call /\ ts[x] = ts[y] => x = y
      BY <1>3, <1>8 DEF TasksOnce
    <2>2. PICK k \in 1..n : t[k].conn = h.conn /\ h.msg = t[k].msg /\ h.msg \in Call
      BY <1>4, InConnCalls
    <2>3. t[k] \in Task
      BY <1>4, ElementOfSeq
    <2>4. t[k] = h
      BY <2>2, <2>3, SameTask
    <2>5. k + 1 \in 1..(n + 1) /\ k + 1 # 1 /\ ts[k + 1] = ts[1] /\ ts[1].msg \in Call
      BY <1>4, <2>2, <2>4
    <2> QED  BY <1>4, <2>1, <2>5
  <1>9. /\ \A c : ConnCalls(ts, c) = ConnCalls(t, c) \cup (IF h.conn = c THEN {h.msg} \cap Call ELSE {})
        /\ TasksOnce(ts) => TasksOnce(t) /\ h.msg \notin ConnCalls(t, h.conn)
    BY <1>6, <1>7, <1>8
  <1> QED  BY <1>2, <1>9, SMTT(30)

\* The tasks of the first n messages of a session.
LEMMA TasksOfMessages ==
    ASSUME NEW s \in Seq(Request), NEW n \in 0..Len(s), NEW c \in Conns
    PROVE  \E r \in Seq(Task) :
              /\ r = [k \in 1..n |-> [conn |-> c, msg |-> s[k]]]
              /\ Len(r) = n /\ \A k \in 1..n : r[k].conn = c /\ r[k].msg = s[k]
  <1>1. Len(s) \in Nat /\ n \in Nat /\ n <= Len(s) /\ \A k \in 1..n : k \in 1..Len(s) /\ s[k] \in Request
    <2>1. Len(s) \in Nat
      BY LenProperties
    <2>2. n \in Nat /\ n <= Len(s) /\ \A k \in 1..n : k \in 1..Len(s)
      BY <2>1
    <2> QED  BY <2>1, <2>2, ElementOfSeq
  <1>2. PICK r : r = [k \in 1..n |-> [conn |-> c, msg |-> s[k]]]
    OBVIOUS
  <1>3. \A k \in 1..n : r[k] = [conn |-> c, msg |-> s[k]] /\ r[k].conn = c /\ r[k].msg = s[k] /\ r[k] \in Task
    BY <1>1, <1>2 DEF Task
  <1>4. r \in Seq(Task) /\ Len(r) = n
    <2>1. r \in [1..n -> Task]
      BY <1>2, <1>3
    <2> QED  BY <1>1, <2>1, SeqDef, LenProperties
  <1> QED  BY <1>2, <1>3, <1>4

\* The tasks of the first n messages of a session, behind others.
LEMMA TasksRead ==
    ASSUME NEW ts \in Seq(Task), NEW s \in Seq(Request), NEW n \in 0..Len(s), NEW c \in Conns,
           NEW r \in Seq(Task), Len(r) = n,
           \A k \in 1..n : r[k].conn = c /\ r[k].msg = s[k]
    PROVE  /\ ts \o r \in Seq(Task)
           /\ \A d : ConnCalls(ts \o r, d) =
                         ConnCalls(ts, d) \cup (IF d = c THEN CallsIn(Keep(s, n)) ELSE {})
           /\ TasksOnce(ts) /\ CallsOnce(s) /\ CallsIn(s) \cap ConnCalls(ts, c) = {}
                 => TasksOnce(ts \o r)
  <1>1. Len(s) \in Nat /\ n \in Nat /\ n <= Len(s) /\ \A k \in 1..n : k \in 1..Len(s) /\ s[k] \in Request
    <2>1. Len(s) \in Nat
      BY LenProperties
    <2>2. n \in Nat /\ n <= Len(s) /\ \A k \in 1..n : k \in 1..Len(s)
      BY <2>1
    <2> QED  BY <2>1, <2>2, ElementOfSeq
  <1>3. \A k \in 1..n : r[k].conn = c /\ r[k].msg = s[k] /\ r[k] \in Task
    BY ElementOfSeq
  <1>5. PICK l \in Nat : l = Len(ts)
    BY LenProperties
  <1>6. PICK u \in Seq(Task) : u = ts \o r
    BY ConcatProperties
  <1>7. Len(u) = l + n /\ \A k \in 1..(l + n) : u[k] = IF k <= l THEN ts[k] ELSE r[k - l]
    BY <1>5, <1>6, ConcatProperties, ZenonT(60)
  <1>8. /\ \A k \in 1..l : k \in 1..(l + n) /\ u[k] = ts[k]
        /\ \A k \in 1..n : k + l \in 1..(l + n) /\ u[k + l] = r[k]
        /\ \A k \in 1..(l + n) : \/ k \in 1..l /\ u[k] = ts[k]
                                 \/ k - l \in 1..n /\ u[k] = r[k - l]
    <2>1. ASSUME NEW k \in 1..n PROVE k + l \in 1..(l + n) /\ u[k + l] = r[k]
      <3>1. k + l \in 1..(l + n) /\ ~(k + l <= l) /\ (k + l) - l = k
        BY <1>1
      <3> QED  BY <1>7, <3>1
    <2>2. ASSUME NEW k \in 1..l PROVE k \in 1..(l + n) /\ u[k] = ts[k]
      BY <1>1, <1>7
    <2>3. ASSUME NEW k \in 1..(l + n)
          PROVE  \/ k \in 1..l /\ u[k] = ts[k]
                 \/ k - l \in 1..n /\ u[k] = r[k - l]
      BY <1>1, <1>7
    <2> QED  BY <2>1, <2>2, <2>3
  <1>9. CallsIn(Keep(s, n)) = {s[k] : k \in 1..n} \cap Call /\ CallsIn(Keep(s, n)) \subseteq CallsIn(s)
    BY RequestsSplit
  <1>10. ASSUME NEW d
         PROVE  ConnCalls(u, d) = ConnCalls(ts, d) \cup (IF d = c THEN CallsIn(Keep(s, n)) ELSE {})
    <2>1. ASSUME NEW x
          PROVE  x \in ConnCalls(u, d) <=>
                     x \in ConnCalls(ts, d) \/ (d = c /\ x \in CallsIn(Keep(s, n)))
      <3>0. /\ x \in ConnCalls(u, d) <=>
                  x \in Call /\ \E k \in 1..(l + n) : u[k].conn = d /\ x = u[k].msg
            /\ x \in ConnCalls(ts, d) <=>
                  x \in Call /\ \E k \in 1..l : ts[k].conn = d /\ x = ts[k].msg
            /\ x \in CallsIn(Keep(s, n)) <=> x \in Call /\ \E k \in 1..n : x = s[k]
        <4>1. x \in ConnCalls(u, d) <=>
                  x \in Call /\ \E k \in 1..(l + n) : u[k].conn = d /\ x = u[k].msg
          <5>1. x \in ConnCalls(u, d) <=>
                    x \in Call /\ \E k \in 1..Len(u) : u[k].conn = d /\ x = u[k].msg
            BY InConnCalls
          <5> QED  BY <1>7, <5>1
        <4>2. x \in ConnCalls(ts, d) <=>
                  x \in Call /\ \E k \in 1..l : ts[k].conn = d /\ x = ts[k].msg
          <5>1. x \in ConnCalls(ts, d) <=>
                    x \in Call /\ \E k \in 1..Len(ts) : ts[k].conn = d /\ x = ts[k].msg
            BY InConnCalls
          <5> QED  BY <1>5, <5>1
        <4>3. x \in CallsIn(Keep(s, n)) <=> x \in Call /\ \E k \in 1..n : x = s[k]
          BY <1>9
        <4> QED  BY <4>1, <4>2, <4>3
      <3>1. ASSUME x \in ConnCalls(u, d)
            PROVE  x \in ConnCalls(ts, d) \/ (d = c /\ x \in CallsIn(Keep(s, n)))
        <4>1. PICK k \in 1..(l + n) : u[k].conn = d /\ x = u[k].msg /\ x \in Call
          BY <3>0, <3>1
        <4>2. CASE k \in 1..l /\ u[k] = ts[k]
          BY <3>0, <4>1, <4>2
        <4>3. CASE k - l \in 1..n /\ u[k] = r[k - l]
          <5>1. PICK j \in 1..n : u[k] = r[j]
            BY <4>3
          <5> QED  BY <1>3, <3>0, <4>1, <5>1
        <4> QED  BY <1>8, <4>2, <4>3
      <3>2. ASSUME x \in ConnCalls(ts, d) PROVE x \in ConnCalls(u, d)
        <4>1. PICK k \in 1..l : ts[k].conn = d /\ x = ts[k].msg /\ x \in Call
          BY <3>0, <3>2
        <4>2. k \in 1..(l + n) /\ u[k] = ts[k]
          BY <1>8
        <4> QED  BY <3>0, <4>1, <4>2
      <3>3. ASSUME d = c, x \in CallsIn(Keep(s, n)) PROVE x \in ConnCalls(u, d)
        <4>1. PICK k \in 1..n : x = s[k] /\ x \in Call
          BY <3>0, <3>3
        <4>2. PICK j \in 1..(l + n) : u[j] = r[k]
          BY <1>8
        <4> QED  BY <1>3, <3>0, <3>3, <4>1, <4>2
      <3> QED  BY <3>1, <3>2, <3>3
    <2> QED  BY <2>1
  <1>11. ASSUME TasksOnce(ts), CallsOnce(s), CallsIn(s) \cap ConnCalls(ts, c) = {}
         PROVE  TasksOnce(u)
    <2>1. \A x, y \in 1..l : ts[x].msg \in Call /\ ts[x] = ts[y] => x = y
      BY <1>5, <1>11 DEF TasksOnce
    <2>2. \A x, y \in 1..n : s[x] \in Call /\ s[x] = s[y] => x = y
      BY <1>1, <1>11 DEF CallsOnce
    <2>3. ASSUME NEW x \in 1..l, NEW y \in 1..n, ts[x] = r[y], ts[x].msg \in Call PROVE FALSE
      <3>1. ts[x].conn = c /\ ts[x].msg = s[y] /\ s[y] \in Call
        BY <1>3, <2>3
      <3>2. s[y] \in ConnCalls(ts, c)
        BY <1>5, <3>1, InConnCalls
      <3>3. s[y] \in CallsIn(s)
        BY <1>9, <3>1
      <3> QED  BY <1>11, <3>2, <3>3
    <2> SUFFICES ASSUME NEW j \in 1..(l + n), NEW k \in 1..(l + n), u[j].msg \in Call, u[j] = u[k]
                 PROVE  j = k
      BY <1>7 DEF TasksOnce
    <2>4. CASE j \in 1..l /\ u[j] = ts[j]
      <3>1. CASE k \in 1..l /\ u[k] = ts[k]
        BY <2>1, <2>4, <3>1
      <3>2. CASE k - l \in 1..n /\ u[k] = r[k - l]
        BY <2>3, <2>4, <3>2
      <3> QED  BY <1>8, <3>1, <3>2
    <2>5. CASE j - l \in 1..n /\ u[j] = r[j - l]
      <3>1. CASE k \in 1..l /\ u[k] = ts[k]
        BY <2>3, <2>5, <3>1
      <3>2. CASE k - l \in 1..n /\ u[k] = r[k - l]
        <4>1. s[j - l] \in Call /\ s[j - l] = s[k - l]
          BY <1>3, <2>5, <3>2
        <4>2. j - l = k - l
          BY <2>2, <2>5, <3>2, <4>1
        <4>3. j \in Int /\ k \in Int
          OBVIOUS
        <4> QED  BY <4>2, <4>3
      <3> QED  BY <1>8, <3>1, <3>2
    <2> QED  BY <1>8, <2>4, <2>5
  <1> QED  BY <1>6, <1>10, <1>11

-----------------------------------------------------------------------------
(***************************************************************************)
(* The operations of async_writer keep its chain.                          *)
(***************************************************************************)
\* A writer is what its fields are.
LEMMA ChainedFields ==
    ASSUME NEW w \in Chained
    PROVE  /\ w = [queue |-> w.queue, inFlight |-> w.inFlight, stuck |-> w.stuck, exit |-> w.exit]
           /\ w.queue \in Seq(Response) /\ w.inFlight \in {0, 1}
           /\ w.stuck \in BOOLEAN /\ w.exit \in BOOLEAN
           /\ w.inFlight = 1 => w.queue # <<>> /\ ~w.stuck
           /\ w.queue # <<>> /\ ~w.stuck /\ ~w.exit => w.inFlight = 1
           /\ w.stuck => w.queue # <<>>
  <1>1. w \in Writer(Response) /\ w.inFlight <= 1
    BY DEF Chained
  <1>2. /\ w = [queue |-> w.queue, inFlight |-> w.inFlight, stuck |-> w.stuck, exit |-> w.exit]
        /\ w.queue \in Seq(Response) /\ w.inFlight \in Nat
        /\ w.stuck \in BOOLEAN /\ w.exit \in BOOLEAN
    BY <1>1 DEF Writer
  <1>3. w.inFlight \in {0, 1}
    BY <1>1, <1>2
  <1> QED  BY <1>2, <1>3 DEF Chained

\* Fields that make a writer with one chain.
LEMMA ChainedMade ==
    ASSUME NEW q \in Seq(Response), NEW n \in {0, 1}, NEW s \in BOOLEAN, NEW e \in BOOLEAN,
           n = 1 => q # <<>> /\ ~s,
           q # <<>> /\ ~s /\ ~e => n = 1,
           s => q # <<>>
    PROVE  [queue |-> q, inFlight |-> n, stuck |-> s, exit |-> e] \in Chained
  <1> DEFINE w == [queue |-> q, inFlight |-> n, stuck |-> s, exit |-> e]
  <1>1. w.queue = q /\ w.inFlight = n /\ w.stuck = s /\ w.exit = e
    OBVIOUS
  <1>2. n \in Nat /\ n <= 1
    OBVIOUS
  <1>3. w \in Writer(Response)
    BY <1>2 DEF Writer
  <1> HIDE DEF w
  <1>4. w \in Chained
    BY <1>1, <1>2, <1>3 DEF Chained
  <1> QED  BY <1>4 DEF w

\* A writer that has done nothing.
LEMMA NewWriterChained == NewWriter \in Chained /\ NewWriter.queue = <<>>
  <1>1. <<>> \in Seq(Response)
    BY EmptySeq
  <1>2. [queue |-> <<>>, inFlight |-> 0, stuck |-> FALSE, exit |-> FALSE] \in Chained
    <2>1. 0 \in {0, 1} /\ 0 # 1
      OBVIOUS
    <2> QED  BY <1>1, <2>1, ChainedMade
  <1> QED  BY <1>2 DEF NewWriter

\* write() queues a response and keeps the chain.
LEMMA WriteKeepsChain ==
    ASSUME NEW w \in Chained, NEW r \in Response
    PROVE  write(w, r) \in Chained /\ write(w, r).queue = Append(w.queue, r)
  <1> DEFINE q == Append(w.queue, r)
  <1>1. /\ w = [queue |-> w.queue, inFlight |-> w.inFlight, stuck |-> w.stuck, exit |-> w.exit]
        /\ w.queue \in Seq(Response) /\ w.inFlight \in {0, 1}
        /\ w.stuck \in BOOLEAN /\ w.exit \in BOOLEAN
        /\ w.inFlight = 1 => w.queue # <<>> /\ ~w.stuck
        /\ w.queue # <<>> /\ ~w.stuck /\ ~w.exit => w.inFlight = 1
        /\ w.stuck => w.queue # <<>>
    BY ChainedFields
  <1>2. q \in Seq(Response) /\ q # <<>> /\ Len(q) = Len(w.queue) + 1 /\ Len(w.queue) \in Nat
    BY <1>1, AppendParts
  <1>3. w.queue # <<>> <=> Len(q) > 1
    BY <1>1, <1>2, EmptySeq
  <1> HIDE DEF q
  <1>4. write(w, r) = IF Len(q) > 1 \/ w.exit THEN [w EXCEPT !.queue = q]
                      ELSE [w EXCEPT !.queue = q, !.inFlight = @ + 1]
    <2>1. [w EXCEPT !.queue = q].queue = q /\ [w EXCEPT !.queue = q].exit = w.exit
      BY <1>1
    <2> QED  BY <1>1, <2>1 DEF write, do_write, q
  <1>5. CASE Len(q) > 1 \/ w.exit
    <2>1. write(w, r) = [queue |-> q, inFlight |-> w.inFlight, stuck |-> w.stuck, exit |-> w.exit]
      BY <1>1, <1>4, <1>5
    <2>2. [queue |-> q, inFlight |-> w.inFlight, stuck |-> w.stuck, exit |-> w.exit] \in Chained
      <3>1. /\ w.inFlight = 1 => q # <<>> /\ ~w.stuck
            /\ q # <<>> /\ ~w.stuck /\ ~w.exit => w.inFlight = 1
            /\ w.stuck => q # <<>>
        BY <1>1, <1>2, <1>3, <1>5
      <3> QED  BY <1>1, <1>2, <3>1, ChainedMade
    <2> QED  BY <2>1, <2>2 DEF q
  <1>6. CASE ~(Len(q) > 1 \/ w.exit)
    <2>0. w.inFlight = 0 /\ ~w.stuck
      BY <1>1, <1>3, <1>6
    <2>1. write(w, r) = [queue |-> q, inFlight |-> 1, stuck |-> w.stuck, exit |-> w.exit]
      <3>1. write(w, r) = [queue |-> q, inFlight |-> w.inFlight + 1, stuck |-> w.stuck, exit |-> w.exit]
        <4>1. w.inFlight \in Nat
          BY <2>0
        <4> QED  BY <1>1, <1>4, <1>6, <4>1
      <3> QED  BY <2>0, <3>1
    <2>2. [queue |-> q, inFlight |-> 1, stuck |-> w.stuck, exit |-> w.exit] \in Chained
      <3>1. 1 \in {0, 1}
        OBVIOUS
      <3> QED  BY <1>1, <1>2, <2>0, <3>1, ChainedMade
    <2> QED  BY <2>1, <2>2 DEF q
  <1> QED  BY <1>5, <1>6

\* The handler of async_write takes the front, and keeps the chain.
LEMMA WriteDoneKeepsChain ==
    ASSUME NEW w \in Chained, w.inFlight > 0
    PROVE  /\ write_done(w) \in Chained
           /\ w.queue # <<>> /\ write_done(w).queue = Tail(w.queue)
  <1> DEFINE q == Tail(w.queue)
             rest == [queue |-> q, inFlight |-> 0, stuck |-> w.stuck, exit |-> w.exit]
  <1>1. /\ w = [queue |-> w.queue, inFlight |-> w.inFlight, stuck |-> w.stuck, exit |-> w.exit]
        /\ w.queue \in Seq(Response) /\ w.inFlight = 1
        /\ w.stuck = FALSE /\ w.exit \in BOOLEAN
        /\ w.queue # <<>>
    <2>1. w.inFlight = 1
      BY ChainedFields
    <2> QED  BY <2>1, ChainedFields
  <1>3. q \in Seq(Response)
    BY <1>1, HeadTailParts
  <1>4. [w EXCEPT !.queue = Tail(@), !.inFlight = @ - 1] = rest
    <2>1. [w EXCEPT !.queue = Tail(@), !.inFlight = @ - 1] =
              [w EXCEPT !.queue = q, !.inFlight = @ - 1]
      OBVIOUS
    <2>2. [w EXCEPT !.queue = q, !.inFlight = @ - 1] =
              [queue |-> q, inFlight |-> w.inFlight - 1, stuck |-> w.stuck, exit |-> w.exit]
      <3> SUFFICES ASSUME NEW v, v = [w EXCEPT !.queue = q, !.inFlight = @ - 1]
                   PROVE  v = [queue |-> q, inFlight |-> w.inFlight - 1,
                               stuck |-> w.stuck, exit |-> w.exit]
        OBVIOUS
      <3> HIDE DEF q
      <3> QED  BY <1>1
    <2>3. w.inFlight - 1 = 0
      BY <1>1
    <2> QED  BY <2>1, <2>2, <2>3
  <1>5. rest.exit = w.exit /\ rest.queue = q /\ [rest EXCEPT !.inFlight = @ + 1] = [rest EXCEPT !.inFlight = 1]
    BY <1>1
  <1>6. write_done(w) = IF q # <<>> /\ ~w.exit THEN [rest EXCEPT !.inFlight = 1] ELSE rest
    <2> HIDE DEF rest, q
    <2> QED  BY <1>4, <1>5 DEF write_done, do_write
  <1> HIDE DEF q
  <1>7. CASE q # <<>> /\ ~w.exit
    <2>1. write_done(w) = [queue |-> q, inFlight |-> 1, stuck |-> FALSE, exit |-> w.exit]
      BY <1>1, <1>6, <1>7
    <2>2. [queue |-> q, inFlight |-> 1, stuck |-> FALSE, exit |-> w.exit] \in Chained
      BY <1>1, <1>3, <1>7, ChainedMade
    <2> QED  BY <1>1, <2>1, <2>2 DEF q
  <1>8. CASE ~(q # <<>> /\ ~w.exit)
    <2>1. write_done(w) = [queue |-> q, inFlight |-> 0, stuck |-> FALSE, exit |-> w.exit]
      BY <1>1, <1>6, <1>8
    <2>2. [queue |-> q, inFlight |-> 0, stuck |-> FALSE, exit |-> w.exit] \in Chained
      <3>1. 0 \in {0, 1} /\ 0 # 1
        OBVIOUS
      <3> QED  BY <1>1, <1>3, <1>8, <3>1, ChainedMade
    <2> QED  BY <1>1, <2>1, <2>2 DEF q
  <1> QED  BY <1>7, <1>8

\* A failed write ends the chain for good.
LEMMA WriteFailedKeepsChain ==
    ASSUME NEW w \in Chained, w.inFlight > 0
    PROVE  write_failed(w) \in Chained /\ write_failed(w).queue = w.queue
  <1>1. /\ w = [queue |-> w.queue, inFlight |-> w.inFlight, stuck |-> w.stuck, exit |-> w.exit]
        /\ w.queue \in Seq(Response) /\ w.inFlight = 1 /\ w.inFlight \in Nat
        /\ w.stuck \in BOOLEAN /\ w.exit \in BOOLEAN
        /\ w.queue # <<>>
    <2>1. w.inFlight = 1
      BY ChainedFields
    <2> QED  BY <2>1, ChainedFields
  <1>2. write_failed(w) = [queue |-> w.queue, inFlight |-> 0, stuck |-> TRUE, exit |-> w.exit]
    <2>1. write_failed(w) = [queue |-> w.queue, inFlight |-> w.inFlight - 1, stuck |-> TRUE,
                             exit |-> w.exit]
      <3>1. w \in [queue : Seq(Response), inFlight : Nat, stuck : BOOLEAN, exit : BOOLEAN]
        BY DEF Chained, Writer
      <3>2. PICK x \in Nat : x = w.inFlight - 1
        BY <1>1
      <3>3. PICK v \in [queue : Seq(Response), inFlight : Nat, stuck : BOOLEAN, exit : BOOLEAN] :
               v = [w EXCEPT !.inFlight = x]
        BY <3>1
      <3>4. v.queue = w.queue /\ v.inFlight = x /\ v.exit = w.exit
        BY <3>1, <3>3
      <3>5. \A b \in BOOLEAN : [v EXCEPT !.stuck = b] =
               [queue |-> v.queue, inFlight |-> v.inFlight, stuck |-> b, exit |-> v.exit]
        OBVIOUS
      <3>6. write_failed(w) = [v EXCEPT !.stuck = TRUE]
        BY <3>2, <3>3 DEF write_failed
      <3> QED  BY <3>2, <3>4, <3>5, <3>6
    <2>2. w.inFlight - 1 = 0
      BY <1>1
    <2> QED  BY <2>1, <2>2
  <1>3. [queue |-> w.queue, inFlight |-> 0, stuck |-> TRUE, exit |-> w.exit] \in Chained
    <2>1. 0 \in {0, 1} /\ 0 # 1
      OBVIOUS
    <2> QED  BY <1>1, <2>1, ChainedMade
  <1> QED  BY <1>2, <1>3

\* async_writer::close() sets exit_.
LEMMA ExitKeepsChain ==
    ASSUME NEW w \in Chained
    PROVE  [w EXCEPT !.exit = TRUE] \in Chained /\ [w EXCEPT !.exit = TRUE].queue = w.queue
  <1>1. /\ w = [queue |-> w.queue, inFlight |-> w.inFlight, stuck |-> w.stuck, exit |-> w.exit]
        /\ w.queue \in Seq(Response) /\ w.inFlight \in {0, 1} /\ w.stuck \in BOOLEAN
        /\ w.exit \in BOOLEAN
        /\ w.inFlight = 1 => w.queue # <<>> /\ ~w.stuck
        /\ w.stuck => w.queue # <<>>
    BY ChainedFields
  <1>2. [w EXCEPT !.exit = TRUE] =
            [queue |-> w.queue, inFlight |-> w.inFlight, stuck |-> w.stuck, exit |-> TRUE]
    <2>1. w \in [queue : Seq(Response), inFlight : Nat, stuck : BOOLEAN, exit : BOOLEAN]
      BY DEF Chained, Writer
    <2>2. \A b \in BOOLEAN : [w EXCEPT !.exit = b] =
             [queue |-> w.queue, inFlight |-> w.inFlight, stuck |-> w.stuck, exit |-> b]
      BY <2>1
    <2> QED  BY <2>2
  <1>3. [queue |-> w.queue, inFlight |-> w.inFlight, stuck |-> w.stuck, exit |-> TRUE] \in Chained
    BY <1>1, ChainedMade
  <1> QED  BY <1>2, <1>3

-----------------------------------------------------------------------------
(***************************************************************************)
(* The parts of the server's steps.                                        *)
(***************************************************************************)
\* What is posted when a session closes writes nothing.
LEMMA ClosePosts ==
    LET s == <<Post("close_socket"), Post("close_session")>>
    IN  s \in Seq(Posted) /\ PostsOnce(s) /\ CallsTo(s) = {}
  <1>1. PICK p \in Posted : p = Post("close_socket") /\ p.do # "write"
    BY PostIsPosted DEF PostLabels
  <1>2. PICK q \in Posted : q = Post("close_session") /\ q.do # "write"
    BY PostIsPosted DEF PostLabels
  <1>3. /\ <<p>> \in Seq(Posted) /\ PostsOnce(<<p>>) /\ CallsTo(<<p>>) = {}
        /\ <<q>> \in Seq(Posted) /\ PostsOnce(<<q>>) /\ CallsTo(<<q>>) = {}
    BY <1>1, <1>2, PostsFew
  <1>4. PICK a \in Seq(Posted), b \in Seq(Posted) : a = <<p>> /\ b = <<q>>
    BY <1>3
  <1>5. a \o b \in Seq(Posted) /\ PostsOnce(a \o b) /\ CallsTo(a \o b) = {}
    <2>1. PostsOnce(a) /\ PostsOnce(b) /\ CallsTo(a) = {} /\ CallsTo(b) = {} /\ CallsTo(a) \cap CallsTo(b) = {}
      BY <1>3, <1>4
    <2>2. a \o b \in Seq(Posted) /\ CallsTo(a \o b) = CallsTo(a) \cup CallsTo(b)
      BY PostsConcat
    <2>3. PostsOnce(a \o b)
      BY <2>1, PostsConcat
    <2> QED  BY <2>1, <2>2, <2>3
  <1>6. <<p>> \o <<q>> = <<p, q>>
    BY <1>3, AppendIsConcat, AppendToOne
  <1> QED  BY <1>1, <1>2, <1>4, <1>5, <1>6

\* CloseAll() sets flags and posts handlers that write nothing.
LEMMA CloseAllMoves ==
    ASSUME writer \in [Conns -> Chained], NEW so \in [Conns -> Seq(Posted)], NEW C,
           CloseAll(C, writer, so)
    PROVE  /\ writer' \in [Conns -> Chained] /\ wstrand' \in [Conns -> Seq(Posted)]
           /\ \A d \in Conns : /\ writer'[d].queue = writer[d].queue
                               /\ CallsTo(wstrand'[d]) = CallsTo(so[d])
                               /\ PostsOnce(so[d]) => PostsOnce(wstrand'[d])
  <1>1. PICK s \in Seq(Posted) : /\ s = <<Post("close_socket"), Post("close_session")>>
                                 /\ PostsOnce(s) /\ CallsTo(s) = {}
    BY ClosePosts
  <1>2. /\ writer' = [d \in Conns |-> IF d \in C THEN [writer[d] EXCEPT !.exit = TRUE] ELSE writer[d]]
        /\ wstrand' = [d \in Conns |-> IF d \in C THEN so[d] \o s ELSE so[d]]
    BY <1>1 DEF CloseAll
  <1>3. ASSUME NEW d \in Conns
        PROVE  /\ writer'[d] \in Chained /\ writer'[d].queue = writer[d].queue
               /\ wstrand'[d] \in Seq(Posted) /\ CallsTo(wstrand'[d]) = CallsTo(so[d])
               /\ PostsOnce(so[d]) => PostsOnce(wstrand'[d])
    <2>1. writer[d] \in Chained /\ so[d] \in Seq(Posted)
      OBVIOUS
    <2>2. writer'[d] \in Chained /\ writer'[d].queue = writer[d].queue
      <3>1. writer'[d] = [writer[d] EXCEPT !.exit = TRUE] \/ writer'[d] = writer[d]
        BY <1>2
      <3> QED  BY <2>1, <3>1, ExitKeepsChain
    <2>3. wstrand'[d] = so[d] \o s \/ wstrand'[d] = so[d]
      BY <1>2
    <2>4. /\ so[d] \o s \in Seq(Posted) /\ CallsTo(so[d] \o s) = CallsTo(so[d]) \cup CallsTo(s)
          /\ PostsOnce(so[d]) /\ PostsOnce(s) /\ CallsTo(so[d]) \cap CallsTo(s) = {}
                => PostsOnce(so[d] \o s)
      BY <2>1, PostsConcat
    <2> QED  BY <1>1, <2>1, <2>2, <2>3, <2>4
  <1> QED  BY <1>2, <1>3

\* A step that runs the first handler of a strand.
LEMMA StrandAdvances ==
    ASSUME wstrand \in [Conns -> Seq(Posted)], NEW c \in Conns, wstrand[c] # <<>>
    PROVE  /\ Advanced(c) \in [Conns -> Seq(Posted)] /\ Head(wstrand[c]) \in Posted
           /\ Advanced(c)[c] = Tail(wstrand[c])
           /\ \A d \in Conns : d # c => Advanced(c)[d] = wstrand[d]
           /\ CallsTo(wstrand[c]) =
                 CallsTo(Tail(wstrand[c])) \cup
                 (IF Head(wstrand[c]).do = "write" THEN {CallOf(Head(wstrand[c]).resp[1])} ELSE {})
           /\ PostsOnce(wstrand[c]) =>
                 /\ PostsOnce(Tail(wstrand[c]))
                 /\ Head(wstrand[c]).do = "write" =>
                       CallOf(Head(wstrand[c]).resp[1]) \notin CallsTo(Tail(wstrand[c]))
  <1>1. PICK s \in Seq(Posted) : s = wstrand[c] /\ s # <<>>
    OBVIOUS
  <1>2. /\ Head(s) \in Posted /\ Tail(s) \in Seq(Posted)
        /\ CallsTo(s) = CallsTo(<<Head(s)>>) \cup CallsTo(Tail(s))
        /\ PostsOnce(s) => PostsOnce(Tail(s)) /\ CallsTo(<<Head(s)>>) \cap CallsTo(Tail(s)) = {}
    BY <1>1, PostsTail
  <1>3. CallsTo(<<Head(s)>>) = IF Head(s).do = "write" THEN {CallOf(Head(s).resp[1])} ELSE {}
    BY <1>2, PostsFew
  <1>4. Advanced(c) = [wstrand EXCEPT ![c] = Tail(s)]
    BY <1>1 DEF Advanced
  <1>5. /\ Advanced(c) \in [Conns -> Seq(Posted)] /\ Advanced(c)[c] = Tail(s)
        /\ \A d \in Conns : d # c => Advanced(c)[d] = wstrand[d]
    BY <1>2, <1>4
  <1>6. /\ CallsTo(s) = CallsTo(Tail(s)) \cup
              (IF Head(s).do = "write" THEN {CallOf(Head(s).resp[1])} ELSE {})
        /\ PostsOnce(s) => PostsOnce(Tail(s)) /\
              (Head(s).do = "write" => CallOf(Head(s).resp[1]) \notin CallsTo(Tail(s)))
    BY <1>2, <1>3
  <1> QED  BY <1>1, <1>2, <1>5, <1>6

-----------------------------------------------------------------------------
(***************************************************************************)
(* Types                                                                   *)
(***************************************************************************)
\* What a thread works on.
LEMMA BusyType ==
    /\ Idle \in [conn : Conns, todo : Seq(Posted)] /\ Idle.todo = <<>>
    /\ \A c \in Conns : \A s \in Seq(Posted) :
          /\ Busy(c, s) \in [conn : Conns, todo : Seq(Posted)]
          /\ Busy(c, s).todo = s
          /\ s # <<>> => Busy(c, s).conn = c
  <1>1. 1 \in Conns
    BY RpcNetAssumption DEF Conns
  <1>2. <<>> \in Seq(Posted)
    BY EmptySeq
  <1>3. Idle \in [conn : Conns, todo : Seq(Posted)] /\ Idle.todo = <<>>
    BY <1>1, <1>2 DEF Idle
  <1>4. ASSUME NEW c \in Conns, NEW s \in Seq(Posted)
        PROVE  /\ Busy(c, s) \in [conn : Conns, todo : Seq(Posted)]
               /\ Busy(c, s).todo = s
               /\ s # <<>> => Busy(c, s).conn = c
    <2>1. CASE s = <<>>
      BY <1>3, <2>1 DEF Busy
    <2>2. CASE s # <<>>
      BY <2>2 DEF Busy
    <2> QED  BY <2>1, <2>2
  <1> QED  BY <1>3, <1>4

\* The initial state.
LEMMA TypeInitially == Init => TypeInv
  <1> SUFFICES ASSUME Init PROVE TypeInv
    OBVIOUS
  <1>1. NetTypeOK
    <2>1. <<>> \in Seq(Request) /\ <<>> \in Seq(Response)
      BY EmptySeq
    <2> QED  BY <2>1 DEF Init, NetInit, NetTypeOK
  <1>2. /\ backlog \in Seq(Conns) /\ tasks \in Seq(Task)
        /\ wstrand \in [Conns -> Seq(Posted)] /\ sent \in [Conns -> Seq(Request)]
    BY EmptySeq DEF Init, ServerInit
  <1>3. worker \in [Thread -> [conn : Conns, todo : Seq(Posted)]]
    BY BusyType DEF Init, ServerInit
  <1>4. writer \in [Conns -> Chained]
    BY NewWriterChained DEF Init, ServerInit
  <1>5. /\ acceptor \in {"pending", "cancelled", "none"} /\ sessions \subseteq Conns
        /\ reading \in [Conns -> BOOLEAN] /\ stopping \in [Thread -> BOOLEAN]
        /\ sockOpen \in [Conns -> BOOLEAN] /\ srv \in {"up", "stopped", "crashed"}
        /\ plan \in Plans /\ linked \in [Conns -> BOOLEAN]
    BY DEF Init, ServerInit
  <1> QED  BY <1>1, <1>2, <1>3, <1>4, <1>5 DEF TypeInv

\* The accept handler.
LEMMA TypeAccept ==
    ASSUME TypeInv, NEW t \in Thread,
           Accept(t) \/ AcceptThrows(t) \/ AcceptPush(t) \/ AcceptCancelled(t),
           UNCHANGED clientsVars
    PROVE  TypeInv'
  <1>1. CASE Accept(t)
    <2>1. backlog # <<>> /\ backlog \in Seq(Conns)
      BY <1>1 DEF Accept, TypeInv
    <2>2. Head(backlog) \in Conns /\ Tail(backlog) \in Seq(Conns)
      BY <2>1, HeadTailParts
    <2>3. Push \in Posted
      BY PostIsPosted DEF Push, PostLabels
    <2>4. Busy(Head(backlog), <<Push>>) \in [conn : Conns, todo : Seq(Posted)]
      BY <2>2, <2>3, BusyType, PostsFew
    <2>5. backlog' \in Seq(Conns) /\ reading' \in [Conns -> BOOLEAN]
      BY <1>1, <2>2 DEF Accept, TypeInv
    <2>6. worker' \in [Thread -> [conn : Conns, todo : Seq(Posted)]]
      BY <1>1, <2>4 DEF Accept, TypeInv
    <2> QED  BY <1>1, <2>5, <2>6 DEF Accept, TypeInv, NetTypeOK, netVars, clientsVars
  <1>2. CASE AcceptThrows(t)
    BY <1>2 DEF AcceptThrows, TypeInv, NetTypeOK, netVars, clientsVars
  <1>3. CASE AcceptPush(t)
    <2>1. worker' \in [Thread -> [conn : Conns, todo : Seq(Posted)]]
      BY <1>3, BusyType DEF AcceptPush, TypeInv
    <2>2. worker[t].conn \in Conns
      BY DEF TypeInv
    <2> QED  BY <1>3, <2>1, <2>2 DEF AcceptPush, TypeInv, NetTypeOK, netVars, clientsVars
  <1>4. CASE AcceptCancelled(t)
    BY <1>4 DEF AcceptCancelled, TypeInv, NetTypeOK, netVars, clientsVars
  <1> QED  BY <1>1, <1>2, <1>3, <1>4

\* Tasks, and the end of the server.
LEMMA TypeTask ==
    ASSUME TypeInv, (\E t \in Thread : TaskNext(t)) \/ StopServer, UNCHANGED clientsVars
    PROVE  TypeInv'
  <1>1. ASSUME NEW t \in Thread, RunTask(t) PROVE TypeInv'
    <2>1. tasks # <<>> /\ tasks \in Seq(Task)
      BY <1>1 DEF RunTask, TypeInv
    <2>2. PICK h \in Task : h = Head(tasks) /\ Tail(tasks) \in Seq(Task)
      BY <2>1, HeadTailParts
    <2>3. h.conn \in Conns /\ h.msg \in Request
      BY DEF Task
    <2>4. Posts(h.msg) \in Seq(Posted)
      BY <2>3, PostsShape
    <2>5. Busy(h.conn, Posts(h.msg)) \in [conn : Conns, todo : Seq(Posted)]
      BY <2>3, <2>4, BusyType
    <2>6. tasks' \in Seq(Task)
      BY <1>1, <2>2 DEF RunTask
    <2>7. /\ worker' = worker \/ worker' = [worker EXCEPT ![t] = Busy(h.conn, Posts(h.msg))]
          /\ stopping' = stopping \/ stopping' = [stopping EXCEPT ![t] = "stop" \in h.msg.arg]
          /\ srv' \in {srv, "crashed"}
      BY <1>1, <2>2 DEF RunTask
    <2>8. worker' \in [Thread -> [conn : Conns, todo : Seq(Posted)]]
      BY <2>5, <2>7 DEF TypeInv
    <2>9. stopping' \in [Thread -> BOOLEAN] /\ srv' \in {"up", "stopped", "crashed"}
      <3>1. \A b \in BOOLEAN : [stopping EXCEPT ![t] = b] \in [Thread -> BOOLEAN]
        BY DEF TypeInv
      <3>2. ("stop" \in h.msg.arg) \in BOOLEAN
        OBVIOUS
      <3>3. [stopping EXCEPT ![t] = "stop" \in h.msg.arg] \in [Thread -> BOOLEAN]
        BY <3>1, <3>2, Zenon
      <3> QED  BY <2>7, <3>3 DEF TypeInv
    <2> QED  BY <1>1, <2>6, <2>8, <2>9 DEF RunTask, TypeInv, NetTypeOK, netVars, clientsVars
  <1>2. ASSUME NEW t \in Thread, PostToStrand(t) PROVE TypeInv'
    <2>1. worker[t].todo \in Seq(Posted) /\ worker[t].conn \in Conns
      BY DEF TypeInv
    <2>2. worker[t].todo # <<>>
      BY <1>2 DEF PostToStrand
    <2>3. PICK h \in Posted, s \in Seq(Posted), c \in Conns :
             h = Head(worker[t].todo) /\ s = Tail(worker[t].todo) /\ c = worker[t].conn
      BY <2>1, <2>2, HeadTailParts
    <2>4. worker' = [worker EXCEPT ![t] = Busy(c, s)] /\ wstrand' = [wstrand EXCEPT ![c] = Append(@, h)]
      BY <1>2, <2>3 DEF PostToStrand
    <2>5. wstrand[c] \in Seq(Posted)
      BY DEF TypeInv
    <2>6. Append(wstrand[c], h) \in Seq(Posted) /\ Busy(c, s) \in [conn : Conns, todo : Seq(Posted)]
      BY <2>5, AppendParts, BusyType
    <2>7. /\ worker' \in [Thread -> [conn : Conns, todo : Seq(Posted)]]
          /\ wstrand' \in [Conns -> Seq(Posted)]
      BY <2>4, <2>6 DEF TypeInv
    <2> QED  BY <1>2, <2>7 DEF PostToStrand, TypeInv, NetTypeOK, netVars, clientsVars
  <1>3. CASE StopServer
    <2>1. /\ backlog' \in Seq(Conns) /\ tasks' \in Seq(Task)
          /\ wstrand' \in [Conns -> Seq(Posted)]
      BY <1>3, EmptySeq DEF StopServer
    <2>2. worker' \in [Thread -> [conn : Conns, todo : Seq(Posted)]]
      BY <1>3, BusyType DEF StopServer
    <2>3. writer' \in [Conns -> Chained]
      BY <1>3, NewWriterChained DEF StopServer
    <2>4. NetTypeOK'
      <3>1. <<>> \in Seq(Request)
        BY EmptySeq
      <3> QED  BY <1>3, <3>1 DEF StopServer, AllGone, NetTypeOK, TypeInv
    <2>5. /\ acceptor' \in {"pending", "cancelled", "none"} /\ sessions' \subseteq Conns
          /\ reading' \in [Conns -> BOOLEAN] /\ stopping' \in [Thread -> BOOLEAN]
          /\ sockOpen' \in [Conns -> BOOLEAN] /\ srv' \in {"up", "stopped", "crashed"}
      BY <1>3 DEF StopServer
    <2>6. plan' \in Plans /\ linked' \in [Conns -> BOOLEAN] /\ sent' \in [Conns -> Seq(Request)]
      BY DEF TypeInv, clientsVars
    <2> QED  BY <2>1, <2>2, <2>3, <2>4, <2>5, <2>6 DEF TypeInv
  <1> QED  BY <1>1, <1>2, <1>3 DEF TaskNext

\* The read handler of a session.
LEMMA TypeRead ==
    ASSUME TypeInv, NEW c \in Conns, ReadNext(c), UNCHANGED clientsVars
    PROVE  TypeInv'
  <1>1. CASE Read(c)
    <2>1. PICK n \in 1..Len(up[c]) :
             /\ tasks' = tasks \o [k \in 1..n |-> [conn |-> c, msg |-> up[c][k]]]
             /\ up' = [up EXCEPT ![c] = Drop(@, n)]
      BY <1>1 DEF Read
    <2>2. up[c] \in Seq(Request) /\ tasks \in Seq(Task)
      BY DEF TypeInv, NetTypeOK
    <2>3. n \in 0..Len(up[c])
      BY <2>2, LenProperties
    <2>4. Drop(up[c], n) \in Seq(Request)
      BY <2>2, <2>3, KeepDropType
    <2>5. tasks' \in Seq(Task)
      <3>1. PICK s \in Seq(Request) : s = up[c] /\ n \in 0..Len(s)
        BY <2>2, <2>3
      <3>2. PICK r \in Seq(Task) : r = [k \in 1..n |-> [conn |-> c, msg |-> s[k]]]
        BY <3>1, TasksOfMessages
      <3>3. tasks' = tasks \o r
        BY <2>1, <3>1, <3>2
      <3> QED  BY <2>2, <3>3, ConcatProperties
    <2>6. up' \in [Conns -> Seq(Request)]
      BY <2>1, <2>4 DEF TypeInv, NetTypeOK
    <2> QED  BY <1>1, <2>5, <2>6 DEF Read, TypeInv, NetTypeOK, clientsVars
  <1>2. CASE ReadEnds(c)
    <2>1. writer \in [Conns -> Chained] /\ wstrand \in [Conns -> Seq(Posted)]
      BY DEF TypeInv
    <2>2. writer' \in [Conns -> Chained] /\ wstrand' \in [Conns -> Seq(Posted)]
      <3>1. CloseAll({c}, writer, wstrand)
        BY <1>2 DEF ReadEnds
      <3> QED  BY <2>1, <3>1, CloseAllMoves
    <2> QED  BY <1>2, <2>2 DEF ReadEnds, TypeInv, NetTypeOK, netVars, clientsVars
  <1>3. CASE ReadFails(c)
    BY <1>3 DEF ReadFails, TypeInv, NetTypeOK, netVars, clientsVars
  <1>4. CASE ReadWhenClosed(c)
    BY <1>4 DEF ReadWhenClosed, TypeInv, NetTypeOK, netVars, clientsVars
  <1> QED  BY <1>1, <1>2, <1>3, <1>4 DEF ReadNext

\* A strand that runs a handler other than that of write().
LEMMA TypeStrand ==
    ASSUME TypeInv, NEW c \in Conns, StrandNext(c), UNCHANGED clientsVars
    PROVE  TypeInv'
  <1>1. PICK t \in Thread :
           \/ StrandWrite(t, c) \/ StrandClose(t, c) \/ StrandCloseSessions(t, c)
           \/ StrandOnDeadSession(t, c) \/ StrandCloseSocket(t, c) \/ StrandCloseSession(t, c)
    BY DEF StrandNext
  <1>2. wstrand[c] # <<>>
    BY <1>1 DEF StrandWrite, StrandClose, StrandCloseSessions, StrandOnDeadSession,
                StrandCloseSocket, StrandCloseSession, NextOn
  <1>3. writer \in [Conns -> Chained] /\ wstrand \in [Conns -> Seq(Posted)]
    BY DEF TypeInv
  <1>4. Advanced(c) \in [Conns -> Seq(Posted)] /\ Head(wstrand[c]) \in Posted
    BY <1>2, <1>3, StrandAdvances
  <1>5. CASE StrandWrite(t, c)
    <2>1. Head(wstrand[c]).do = "write"
      BY <1>5 DEF StrandWrite, NextOn
    <2>2. PICK r \in Response : r = Head(wstrand[c]).resp[1]
      BY <1>4, <2>1, PostedParts
    <2>3. writer[c] \in Chained
      BY <1>3
    <2>4. write(writer[c], r) \in Chained
      BY <2>3, WriteKeepsChain
    <2>5. writer' = [writer EXCEPT ![c] = write(writer[c], r)] /\ wstrand' = Advanced(c)
      BY <1>5, <2>2 DEF StrandWrite
    <2>6. writer' \in [Conns -> Chained] /\ wstrand' \in [Conns -> Seq(Posted)]
      BY <1>3, <1>4, <2>4, <2>5
    <2> QED  BY <1>5, <2>6 DEF StrandWrite, TypeInv, NetTypeOK, netVars, clientsVars
  <1>6. CASE StrandClose(t, c)
    <2>1. CloseAll({c}, writer, Advanced(c))
      BY <1>6 DEF StrandClose
    <2>2. writer' \in [Conns -> Chained] /\ wstrand' \in [Conns -> Seq(Posted)]
      BY <1>3, <1>4, <2>1, CloseAllMoves
    <2> QED  BY <1>6, <2>2 DEF StrandClose, TypeInv, NetTypeOK, netVars, clientsVars
  <1>7. CASE StrandCloseSessions(t, c)
    <2>1. CloseAll(sessions, writer, Advanced(c))
      BY <1>7 DEF StrandCloseSessions
    <2>2. writer' \in [Conns -> Chained] /\ wstrand' \in [Conns -> Seq(Posted)]
      BY <1>3, <1>4, <2>1, CloseAllMoves
    <2>3. acceptor' \in {"pending", "cancelled", "none"}
      BY <1>7 DEF StrandCloseSessions, TypeInv
    <2> QED  BY <1>7, <2>2, <2>3 DEF StrandCloseSessions, TypeInv, NetTypeOK, netVars, clientsVars
  <1>8. CASE StrandOnDeadSession(t, c)
    BY <1>4, <1>8 DEF StrandOnDeadSession, TypeInv, NetTypeOK, netVars, clientsVars
  <1>9. CASE StrandCloseSocket(t, c)
    <2>1. NetTypeOK'
      <3>1. CASE UNCHANGED netVars
        BY <3>1 DEF TypeInv, NetTypeOK, netVars
      <3>2. CASE ~UNCHANGED netVars
        <4>1. ServerCloses(c)
          BY <1>9 DEF StrandCloseSocket
        <4>2. PICK n \in 0..Len(down[c]) :
                 /\ gone' = [gone EXCEPT ![c] = TRUE] /\ up' = [up EXCEPT ![c] = <<>>]
                 /\ down' = [down EXCEPT ![c] = Keep(@, n)]
          BY <3>2, <4>1 DEF ServerCloses
        <4>3. <<>> \in Seq(Request) /\ down[c] \in Seq(Response)
          BY EmptySeq DEF TypeInv, NetTypeOK
        <4>4. Keep(down[c], n) \in Seq(Response)
          BY <4>3, KeepDropType
        <4> QED  BY <4>2, <4>3, <4>4 DEF TypeInv, NetTypeOK
      <3> QED  BY <3>1, <3>2
    <2> QED  BY <1>4, <1>9, <2>1 DEF StrandCloseSocket, TypeInv, clientsVars
  <1>10. CASE StrandCloseSession(t, c)
    BY <1>4, <1>10 DEF StrandCloseSession, TypeInv, NetTypeOK, netVars, clientsVars
  <1> QED  BY <1>1, <1>5, <1>6, <1>7, <1>8, <1>9, <1>10

\* The handlers of async_write.
LEMMA TypeWrite ==
    ASSUME TypeInv, NEW c \in Conns, WriteNext(c), UNCHANGED clientsVars
    PROVE  TypeInv'
  <1>1. writer[c] \in Chained /\ writer[c].inFlight > 0
    BY DEF TypeInv, WriteNext, WriteCompletes, WriteFails
  <1>2. CASE WriteCompletes(c)
    <2>1. write_done(writer[c]) \in Chained /\ writer[c].queue # <<>>
      BY <1>1, WriteDoneKeepsChain
    <2>2. writer[c].queue \in Seq(Response)
      BY <1>1, ChainedFields
    <2>3. PICK r \in Response : r = Head(writer[c].queue)
      BY <2>1, <2>2, HeadTailParts
    <2>4. down' = down \/ down' = [down EXCEPT ![c] = Append(@, r)]
      BY <1>2, <2>3 DEF WriteCompletes
    <2>5. down \in [Conns -> Seq(Response)]
      BY DEF TypeInv, NetTypeOK
    <2>6. Append(down[c], r) \in Seq(Response)
      BY <2>5, AppendParts
    <2>7. down' \in [Conns -> Seq(Response)]
      BY <2>4, <2>5, <2>6
    <2>8. writer' \in [Conns -> Chained]
      BY <1>2, <2>1 DEF WriteCompletes, TypeInv
    <2> QED  BY <1>2, <2>7, <2>8 DEF WriteCompletes, TypeInv, NetTypeOK, clientsVars
  <1>3. CASE WriteFails(c)
    <2>1. write_failed(writer[c]) \in Chained
      BY <1>1, WriteFailedKeepsChain
    <2>2. writer' \in [Conns -> Chained]
      BY <1>3, <2>1 DEF WriteFails, TypeInv
    <2> QED  BY <1>3, <2>2 DEF WriteFails, TypeInv, NetTypeOK, netVars, clientsVars
  <1> QED  BY <1>2, <1>3 DEF WriteNext

\* What clients do.
LEMMA TypeClient ==
    ASSUME TypeInv, NEW c \in Conns,
           Connect(c) \/ (ClientStep(c) /\ UNCHANGED srvVars)
    PROVE  TypeInv'
  <1>1. CASE Connect(c)
    <2>1. Append(backlog, c) \in Seq(Conns)
      BY AppendParts DEF TypeInv
    <2> QED  BY <1>1, <2>1 DEF Connect, TypeInv, NetTypeOK, netVars
  <1>2. CASE Ask(c) /\ UNCHANGED srvVars
    <2>1. PICK m \in Request : /\ up' = [up EXCEPT ![c] = Append(@, m)]
                               /\ sent' = [sent EXCEPT ![c] = Append(@, m)]
      BY <1>2 DEF Ask
    <2>2. up[c] \in Seq(Request) /\ sent[c] \in Seq(Request)
      BY DEF TypeInv, NetTypeOK
    <2>3. Append(up[c], m) \in Seq(Request) /\ Append(sent[c], m) \in Seq(Request)
      BY <2>2, AppendParts
    <2>4. up' \in [Conns -> Seq(Request)] /\ sent' \in [Conns -> Seq(Request)]
      BY <2>1, <2>3 DEF TypeInv, NetTypeOK
    <2> QED  BY <1>2, <2>4 DEF Ask, TypeInv, NetTypeOK, srvVars
  <1>3. CASE Vanish(c) /\ UNCHANGED srvVars
    <2>1. PICK n \in 0..Len(up[c]), k \in 0..Len(down[c]) :
             /\ gone' = [gone EXCEPT ![c] = TRUE]
             /\ up' = [up EXCEPT ![c] = Keep(up[c], n)]
             /\ down' = [down EXCEPT ![c] = Keep(down[c], k)]
      BY <1>3 DEF Vanish, Drops
    <2>2. up[c] \in Seq(Request) /\ down[c] \in Seq(Response)
      BY DEF TypeInv, NetTypeOK
    <2>3. Keep(up[c], n) \in Seq(Request) /\ Keep(down[c], k) \in Seq(Response)
      BY <2>2, KeepDropType
    <2>4. NetTypeOK'
      BY <2>1, <2>3 DEF TypeInv, NetTypeOK
    <2> QED  BY <1>3, <2>4 DEF Vanish, TypeInv, srvVars, clientsVars
  <1> QED  BY <1>1, <1>2, <1>3 DEF ClientStep

\* Every step.
LEMMA TypeStep == TypeInv /\ [Next]_vars => TypeInv'
  <1> SUFFICES ASSUME TypeInv, [Next]_vars PROVE TypeInv'
    OBVIOUS
  <1>1. CASE UNCHANGED vars
    BY <1>1 DEF vars, srvVars, netVars, clientsVars, TypeInv, NetTypeOK
  <1>2. CASE ServerNext /\ UNCHANGED clientsVars
    BY <1>2, TypeAccept, TypeTask, TypeRead, TypeStrand, TypeWrite DEF ServerNext, AcceptNext
  <1>3. CASE \E c \in Conns : Connect(c)
    BY <1>3, TypeClient
  <1>4. CASE \E c \in Conns : ClientStep(c) /\ UNCHANGED srvVars
    BY <1>4, TypeClient
  <1> QED  BY <1>1, <1>2, <1>3, <1>4 DEF Next

(***************************************************************************)
(* Whatever threads run the tasks of a session and however its writes and  *)
(* its closing interleave, its queue is served by one chain of writes.     *)
(***************************************************************************)
THEOREM OneChainPerSessionHolds == Spec => []OneChainPerSession
  <1>1. TypeInv => OneChainPerSession
    <2> SUFFICES ASSUME TypeInv, NEW c \in Conns
                 PROVE  /\ writer[c].inFlight <= 1
                        /\ writer[c].inFlight = 1 => writer[c].queue # <<>>
                        /\ writer[c].queue # <<>> /\ ~writer[c].stuck /\ ~writer[c].exit
                              => writer[c].inFlight = 1
      BY DEF OneChainPerSession
    <2>1. writer[c] \in Chained
      BY DEF TypeInv
    <2>2. /\ writer[c].inFlight \in {0, 1}
          /\ writer[c].inFlight = 1 => writer[c].queue # <<>>
          /\ writer[c].queue # <<>> /\ ~writer[c].stuck /\ ~writer[c].exit
                => writer[c].inFlight = 1
      BY <2>1, ChainedFields
    <2> QED  BY <2>2
  <1> QED  BY <1>1, TypeInitially, TypeStep, PTL DEF Spec

-----------------------------------------------------------------------------
(***************************************************************************)
(* A call is in one place at a time: on its way, in a task, with a thread  *)
(* that posts its response, on the write strand or in the write queue.     *)
(***************************************************************************)
UpCalls(c) == CallsIn(up[c])
TaskCalls(c) == ConnCalls(tasks, c)
HeldCalls(t, c) == IF worker[t].conn = c THEN CallsTo(worker[t].todo) ELSE {}
StrandCalls(c) == CallsTo(wstrand[c])
QueueCalls(c) == CallsOf(writer[c].queue)

\* In each place it is there once.
OnceInv ==
    /\ TasksOnce(tasks)
    /\ \A t \in Thread : PostsOnce(worker[t].todo)
    /\ \A c \in Conns : CallsOnce(up[c]) /\ PostsOnce(wstrand[c]) /\ OneEach(writer[c].queue)

Apart(c, m) ==
    /\ m \in UpCalls(c) => m \notin TaskCalls(c) /\ m \notin StrandCalls(c) /\ m \notin QueueCalls(c)
    /\ m \in TaskCalls(c) => m \notin StrandCalls(c) /\ m \notin QueueCalls(c)
    /\ m \in StrandCalls(c) => m \notin QueueCalls(c)
    /\ \A t \in Thread : m \in HeldCalls(t, c) =>
          /\ m \notin UpCalls(c) /\ m \notin TaskCalls(c)
          /\ m \notin StrandCalls(c) /\ m \notin QueueCalls(c)
          /\ \A u \in Thread : m \in HeldCalls(u, c) => u = t

\* The calls of connection c that have been sent and not answered.
Somewhere(c, m) ==
    \/ m \in UpCalls(c) \/ m \in TaskCalls(c) \/ m \in StrandCalls(c) \/ m \in QueueCalls(c)
    \/ \E t \in Thread : m \in HeldCalls(t, c)

\* The next call of a client has a number that no such call has.
PlaceInv ==
    /\ OnceInv
    /\ \A c \in Conns : \A m : Apart(c, m) /\ (Somewhere(c, m) => m.id <= Len(sent[c]))

\* Where outstanding calls are.
OutstandingParts ==
    \A c \in Conns : \A m :
        m \in Outstanding(c) <=>
            \/ m \in TaskCalls(c) \/ m \in StrandCalls(c) \/ m \in QueueCalls(c)
            \/ \E t \in Thread : m \in HeldCalls(t, c)

\* Outstanding(c) is what these places hold, in every state.
LEMMA OutstandingIs == OutstandingParts
  <1> SUFFICES ASSUME NEW c \in Conns, NEW m
               PROVE  m \in Outstanding(c) <=>
                         \/ m \in TaskCalls(c) \/ m \in StrandCalls(c) \/ m \in QueueCalls(c)
                         \/ \E t \in Thread : m \in HeldCalls(t, c)
    BY DEF OutstandingParts
  <1> DEFINE H == UNION {CallsTo(worker[t].todo) : t \in {t \in Thread : worker[t].conn = c}}
  <1>1. Outstanding(c) = TaskCalls(c) \cup H \cup StrandCalls(c) \cup QueueCalls(c)
    BY DEF Outstanding, TaskCalls, ConnCalls, StrandCalls, QueueCalls, CallsOf
  <1>2. m \in H <=> \E t \in Thread : m \in HeldCalls(t, c)
    <2>1. \A t \in Thread : m \in HeldCalls(t, c) <=> worker[t].conn = c /\ m \in CallsTo(worker[t].todo)
      BY DEF HeldCalls
    <2>2. m \in H <=> \E t \in Thread : worker[t].conn = c /\ m \in CallsTo(worker[t].todo)
      OBVIOUS
    <2> QED  BY <2>1, <2>2
  <1> HIDE DEF H
  <1> QED  BY <1>1, <1>2

\* The same in the next state.
LEMMA OutstandingThen == OutstandingParts'
  BY OutstandingIs, PTL

\* When no call moves, and nothing on the connections does, nothing happens
\* for the clients.
LEMMA QuietStep ==
    ASSUME PlaceInv, UNCHANGED <<netVars, tasks, sent>>,
           \A d \in Conns : /\ CallsTo(wstrand'[d]) = CallsTo(wstrand[d])
                            /\ PostsOnce(wstrand'[d])
                            /\ writer'[d].queue = writer[d].queue,
           \A t \in Thread : /\ PostsOnce(worker'[t].todo)
                             /\ \A d \in Conns : HeldCalls(t, d)' = HeldCalls(t, d)
    PROVE  PlaceInv' /\ UNCHANGED Peer!peerVars
  <1>1. \A d \in Conns : /\ UpCalls(d)' = UpCalls(d) /\ TaskCalls(d)' = TaskCalls(d)
                         /\ StrandCalls(d)' = StrandCalls(d) /\ QueueCalls(d)' = QueueCalls(d)
    BY DEF UpCalls, TaskCalls, StrandCalls, QueueCalls, netVars
  <1>2. OnceInv'
    BY DEF PlaceInv, OnceInv, netVars
  <1>3. \A d \in Conns : \A m : Apart(d, m)' /\ (Somewhere(d, m)' => m.id <= Len(sent[d]))
    BY <1>1 DEF PlaceInv, Apart, Somewhere
  <1>4. PlaceInv'
    BY <1>2, <1>3 DEF PlaceInv
  <1>5. \A d \in Conns : Outstanding(d)' = Outstanding(d)
    BY <1>1, OutstandingIs, OutstandingThen DEF OutstandingParts
  <1>6. AcceptedCalls' = AcceptedCalls
    BY <1>5 DEF AcceptedCalls
  <1> QED  BY <1>4, <1>6 DEF Peer!peerVars, Peer!netVars, netVars

\* A strand that hands a response to write().
LEMMA PlaceStrandWrite ==
    ASSUME TypeInv, PlaceInv, NEW t \in Thread, NEW c \in Conns,
           StrandWrite(t, c), UNCHANGED clientsVars
    PROVE  PlaceInv' /\ UNCHANGED Peer!peerVars
  <1>1. wstrand[c] # <<>> /\ Head(wstrand[c]).do = "write"
    BY DEF StrandWrite, NextOn
  <1>2. writer \in [Conns -> Chained] /\ wstrand \in [Conns -> Seq(Posted)]
    BY DEF TypeInv
  <1>3. Head(wstrand[c]) \in Posted
    BY <1>1, <1>2, StrandAdvances
  <1>4. PICK r \in Response : r = Head(wstrand[c]).resp[1]
    BY <1>1, <1>3, PostedParts
  <1>5. PICK x : x = CallOf(r)
    OBVIOUS
  <1>6. /\ wstrand' = Advanced(c) /\ writer' = [writer EXCEPT ![c] = write(writer[c], r)]
        /\ UNCHANGED <<up, tasks, worker, sent, netVars>>
    BY <1>4 DEF StrandWrite, clientsVars, netVars
  <1>7. writer[c] \in Chained
    BY <1>2
  <1>8. write(writer[c], r).queue = Append(writer[c].queue, r) /\ writer[c].queue \in Seq(Response)
    BY <1>7, WriteKeepsChain, ChainedFields
  <1>9. writer'[c].queue = Append(writer[c].queue, r) /\ \A d \in Conns : d # c => writer'[d] = writer[d]
    BY <1>2, <1>6, <1>8
  <1>10. /\ wstrand'[c] = Tail(wstrand[c]) /\ \A d \in Conns : d # c => wstrand'[d] = wstrand[d]
         /\ StrandCalls(c) = StrandCalls(c)' \cup {x}
         /\ PostsOnce(wstrand'[c]) /\ x \notin StrandCalls(c)'
    <2>1. PostsOnce(wstrand[c])
      BY DEF PlaceInv, OnceInv
    <2> QED  BY <1>1, <1>2, <1>4, <1>5, <1>6, <2>1, StrandAdvances DEF StrandCalls
  <1>11. QueueCalls(c)' = QueueCalls(c) \cup {x} /\ (x \notin QueueCalls(c) => OneEach(writer'[c].queue))
    <2>1. OneEach(writer[c].queue)
      BY DEF PlaceInv, OnceInv
    <2> QED  BY <1>5, <1>8, <1>9, <2>1, ResponsesAppend DEF QueueCalls
  <1>12. /\ \A d \in Conns : UpCalls(d)' = UpCalls(d) /\ TaskCalls(d)' = TaskCalls(d)
         /\ \A d \in Conns : d # c => StrandCalls(d)' = StrandCalls(d) /\ QueueCalls(d)' = QueueCalls(d)
         /\ \A u \in Thread : \A d \in Conns : HeldCalls(u, d)' = HeldCalls(u, d)
    BY <1>6, <1>9, <1>10 DEF UpCalls, TaskCalls, StrandCalls, QueueCalls, HeldCalls
  <1>13. x \notin QueueCalls(c)
    BY <1>10 DEF PlaceInv, Apart
  <1>14. OnceInv'
    BY <1>6, <1>9, <1>10, <1>11, <1>13 DEF PlaceInv, OnceInv
  <1>15. ASSUME NEW d \in Conns, NEW m
         PROVE  Apart(d, m)' /\ (Somewhere(d, m)' => m.id <= Len(sent[d]))
    <2>1. Apart(d, m) /\ (Somewhere(d, m) => m.id <= Len(sent[d]))
      BY DEF PlaceInv
    <2> QED  BY <1>10, <1>11, <1>12, <2>1 DEF Apart, Somewhere
  <1>16. PlaceInv'
    BY <1>6, <1>14, <1>15 DEF PlaceInv
  <1>17. \A d \in Conns : Outstanding(d)' = Outstanding(d)
    <2> SUFFICES ASSUME NEW d \in Conns, NEW m PROVE m \in Outstanding(d)' <=> m \in Outstanding(d)
      OBVIOUS
    <2> QED  BY <1>10, <1>11, <1>12, OutstandingIs, OutstandingThen DEF OutstandingParts
  <1>18. AcceptedCalls' = AcceptedCalls
    BY <1>17 DEF AcceptedCalls
  <1> QED  BY <1>6, <1>16, <1>18 DEF Peer!peerVars, Peer!netVars, netVars

\* A handler behind others.
LEMMA PostsAppend ==
    ASSUME NEW s \in Seq(Posted), NEW p \in Posted
    PROVE  /\ CallsTo(Append(s, p)) = CallsTo(s) \cup CallsTo(<<p>>)
           /\ PostsOnce(s) /\ CallsTo(s) \cap CallsTo(<<p>>) = {} => PostsOnce(Append(s, p))
  <1>1. PICK q \in Seq(Posted) : q = <<p>> /\ PostsOnce(q)
    BY PostsFew
  <1>2. Append(s, p) = s \o q
    BY <1>1, AppendIsConcat
  <1>3. /\ CallsTo(s \o q) = CallsTo(s) \cup CallsTo(q)
        /\ PostsOnce(s) /\ PostsOnce(q) /\ CallsTo(s) \cap CallsTo(q) = {} => PostsOnce(s \o q)
    BY PostsConcat
  <1> QED  BY <1>1, <1>2, <1>3

\* What a thread holds once it has turned to something else.
LEMMA HeldBusy ==
    ASSUME worker \in [Thread -> [conn : Conns, todo : Seq(Posted)]],
           NEW t \in Thread, NEW c \in Conns, NEW s \in Seq(Posted),
           worker' = [worker EXCEPT ![t] = Busy(c, s)]
    PROVE  /\ worker'[t].todo = s
           /\ \A d \in Conns : HeldCalls(t, d)' = IF d = c THEN CallsTo(s) ELSE {}
           /\ \A u \in Thread : u # t =>
                 worker'[u] = worker[u] /\ \A d \in Conns : HeldCalls(u, d)' = HeldCalls(u, d)
  <1>1. worker'[t] = Busy(c, s) /\ \A u \in Thread : u # t => worker'[u] = worker[u]
    OBVIOUS
  <1>2. worker'[t].todo = s /\ (s # <<>> => worker'[t].conn = c)
    BY <1>1, BusyType
  <1>3. ASSUME NEW d \in Conns PROVE HeldCalls(t, d)' = IF d = c THEN CallsTo(s) ELSE {}
    <2>1. HeldCalls(t, d)' = IF worker'[t].conn = d THEN CallsTo(s) ELSE {}
      BY <1>2 DEF HeldCalls
    <2>2. CASE s = <<>>
      BY <2>1, <2>2, PostsFew
    <2>3. CASE s # <<>>
      BY <1>2, <2>1, <2>3
    <2> QED  BY <2>2, <2>3
  <1>4. \A u \in Thread : u # t => \A d \in Conns : HeldCalls(u, d)' = HeldCalls(u, d)
    BY <1>1 DEF HeldCalls
  <1> QED  BY <1>1, <1>2, <1>3, <1>4

\* A thread that posts the next handler of its task.
LEMMA PlacePost ==
    ASSUME TypeInv, PlaceInv, NEW t \in Thread, PostToStrand(t), UNCHANGED clientsVars
    PROVE  PlaceInv' /\ UNCHANGED Peer!peerVars
  <1>1. /\ worker \in [Thread -> [conn : Conns, todo : Seq(Posted)]]
        /\ worker[t].todo \in Seq(Posted) /\ worker[t].conn \in Conns
        /\ wstrand \in [Conns -> Seq(Posted)]
    BY DEF TypeInv
  <1>2. worker[t].todo # <<>>
    BY DEF PostToStrand
  <1>3. PICK a \in Seq(Posted) : a = worker[t].todo /\ a # <<>>
    BY <1>1, <1>2
  <1>4. PICK h \in Posted, s \in Seq(Posted) : h = Head(a) /\ s = Tail(a)
    BY <1>3, PostsTail
  <1>5. PICK c \in Conns : c = worker[t].conn
    BY <1>1
  <1>6. /\ worker' = [worker EXCEPT ![t] = Busy(c, s)]
        /\ wstrand' = [wstrand EXCEPT ![c] = Append(wstrand[c], h)]
        /\ UNCHANGED <<up, tasks, writer, sent, netVars>>
    BY <1>3, <1>4, <1>5 DEF PostToStrand, clientsVars, netVars
  <1>7. PICK X : X = CallsTo(<<h>>)
    OBVIOUS
  <1>8. /\ CallsTo(a) = X \cup CallsTo(s)
        /\ PostsOnce(a) => PostsOnce(s) /\ X \cap CallsTo(s) = {}
    BY <1>3, <1>4, <1>7, PostsTail
  <1>9. PostsOnce(a) /\ PostsOnce(wstrand[c])
    BY <1>3 DEF PlaceInv, OnceInv
  <1>10. /\ worker'[t].todo = s
         /\ \A d \in Conns : HeldCalls(t, d)' = IF d = c THEN CallsTo(s) ELSE {}
         /\ \A u \in Thread : u # t =>
               worker'[u] = worker[u] /\ \A d \in Conns : HeldCalls(u, d)' = HeldCalls(u, d)
    BY <1>1, <1>6, HeldBusy
  <1>11. \A d \in Conns : HeldCalls(t, d) = IF d = c THEN X \cup CallsTo(s) ELSE {}
    BY <1>3, <1>5, <1>8 DEF HeldCalls
  <1>12. PICK w \in Seq(Posted) : w = wstrand[c]
    BY <1>1
  <1>13. wstrand'[c] = Append(w, h) /\ \A d \in Conns : d # c => wstrand'[d] = wstrand[d]
    BY <1>1, <1>6, <1>12
  <1>14. /\ CallsTo(Append(w, h)) = CallsTo(w) \cup X
         /\ CallsTo(w) \cap X = {} => PostsOnce(Append(w, h))
    BY <1>7, <1>9, <1>12, PostsAppend
  <1>15. /\ StrandCalls(c)' = StrandCalls(c) \cup X
         /\ \A d \in Conns : d # c => StrandCalls(d)' = StrandCalls(d)
    BY <1>12, <1>13, <1>14 DEF StrandCalls
  <1>16. /\ \A d \in Conns : UpCalls(d)' = UpCalls(d) /\ TaskCalls(d)' = TaskCalls(d)
         /\ \A d \in Conns : QueueCalls(d)' = QueueCalls(d)
    BY <1>6 DEF UpCalls, TaskCalls, QueueCalls
  <1>17. \A m \in X : m \in HeldCalls(t, c) /\ m \notin StrandCalls(c)
    BY <1>11 DEF PlaceInv, Apart
  <1>18. CallsTo(w) \cap X = {}
    BY <1>12, <1>17 DEF StrandCalls
  <1>19. OnceInv'
    <2>1. \A d \in Conns : PostsOnce(wstrand'[d])
      BY <1>13, <1>14, <1>18 DEF PlaceInv, OnceInv
    <2>2. \A u \in Thread : PostsOnce(worker'[u].todo)
      BY <1>8, <1>9, <1>10 DEF PlaceInv, OnceInv
    <2> QED  BY <1>6, <2>1, <2>2 DEF PlaceInv, OnceInv
  <1>20. ASSUME NEW d \in Conns, NEW m
         PROVE  Apart(d, m)' /\ (Somewhere(d, m)' => m.id <= Len(sent[d]))
    <2>1. Apart(d, m) /\ (Somewhere(d, m) => m.id <= Len(sent[d]))
      BY DEF PlaceInv
    <2>2. CASE d = c
      <3>1. ~(m \in X /\ m \in CallsTo(s))
        BY <1>8, <1>9
      <3>2. /\ m \in HeldCalls(t, c)' <=> m \in CallsTo(s)
            /\ m \in HeldCalls(t, c) <=> m \in X \/ m \in CallsTo(s)
            /\ m \in StrandCalls(c)' <=> m \in StrandCalls(c) \/ m \in X
            /\ \A u \in Thread : u # t => (m \in HeldCalls(u, c)' <=> m \in HeldCalls(u, c))
        BY <1>10, <1>11, <1>15
      <3> QED  BY <1>16, <2>1, <2>2, <3>1, <3>2 DEF Apart, Somewhere
    <2>3. CASE d # c
      <3>1. \A u \in Thread : HeldCalls(u, d)' = HeldCalls(u, d)
        BY <1>10, <1>11, <2>3
      <3> QED  BY <1>15, <1>16, <2>1, <2>3, <3>1 DEF Apart, Somewhere
    <2> QED  BY <2>2, <2>3
  <1>21. PlaceInv'
    BY <1>6, <1>19, <1>20 DEF PlaceInv
  <1>22. ASSUME NEW d \in Conns, NEW m PROVE m \in Outstanding(d)' <=> m \in Outstanding(d)
    <2>1. (\E u \in Thread : m \in HeldCalls(u, d)') \/ (d = c /\ m \in X)
             <=> (\E u \in Thread : m \in HeldCalls(u, d))
      BY <1>10, <1>11
    <2>2. m \in StrandCalls(d)' <=> m \in StrandCalls(d) \/ (d = c /\ m \in X)
      BY <1>15
    <2> QED  BY <1>16, <2>1, <2>2, OutstandingIs, OutstandingThen DEF OutstandingParts
  <1>23. AcceptedCalls' = AcceptedCalls
    <2>1. \A d \in Conns : Outstanding(d)' = Outstanding(d)
      BY <1>22
    <2> QED  BY <2>1 DEF AcceptedCalls
  <1> QED  BY <1>6, <1>21, <1>23 DEF Peer!peerVars, Peer!netVars, netVars

\* A call that the server drops.
LEMMA PeerForgets ==
    ASSUME NEW c \in Conns, NEW m, m \in Outstanding(c), UNCHANGED netVars,
           \A d \in Conns : \A x : x \in Outstanding(d)' <=>
                                      x \in Outstanding(d) /\ ~(d = c /\ x = m)
    PROVE  Peer!PeerStep
  <1>1. /\ Outstanding(c)' = Outstanding(c) \ {m}
        /\ \A d \in Conns : d # c => Outstanding(d)' = Outstanding(d)
    <2>1. ASSUME NEW d \in Conns, d # c PROVE Outstanding(d)' = Outstanding(d)
      BY <2>1
    <2>2. Outstanding(c)' = Outstanding(c) \ {m}
      OBVIOUS
    <2> QED  BY <2>1, <2>2
  <1>2. AcceptedCalls' = [AcceptedCalls EXCEPT ![c] = @ \ {m}] /\ m \in AcceptedCalls[c]
    BY <1>1 DEF AcceptedCalls
  <1>3. Peer!PeerForget(c, m)
    BY <1>2 DEF Peer!PeerForget, Peer!netVars, netVars
  <1>4. c \in Peer!Conns
    BY DEF Peer!Conns, Conns
  <1> QED  BY <1>2, <1>3, <1>4 DEF Peer!PeerStep, Peer!PeerNext

\* The task of a message: a thread takes it, and answers it or not.
LEMMA PlaceRunTask ==
    ASSUME TypeInv, PlaceInv, NEW t \in Thread, RunTask(t), UNCHANGED clientsVars
    PROVE  PlaceInv' /\ [Peer!PeerStep]_(Peer!peerVars)
  <1>1. /\ worker \in [Thread -> [conn : Conns, todo : Seq(Posted)]]
        /\ tasks \in Seq(Task) /\ tasks # <<>> /\ worker[t].todo = <<>>
    BY DEF TypeInv, RunTask, Free
  <1>2. PICK h \in Task : h = Head(tasks)
    BY <1>1, HeadTailParts
  <1>3. PICK c \in Conns, m \in Request : c = h.conn /\ m = h.msg
    BY DEF Task
  <1>4. tasks' = Tail(tasks) /\ UNCHANGED <<up, wstrand, writer, sent, netVars>>
    BY DEF RunTask, clientsVars, netVars
  <1>5. worker' = worker \/ worker' = [worker EXCEPT ![t] = Busy(c, Posts(m))]
    BY <1>2, <1>3 DEF RunTask
  <1>6. TasksOnce(tasks)
    BY DEF PlaceInv, OnceInv
  <1>7. /\ TasksOnce(tasks') /\ m \notin TaskCalls(c)'
        /\ \A d \in Conns : \A x : x \in TaskCalls(d) <=>
                                      x \in TaskCalls(d)' \/ (d = c /\ x = m /\ m \in Call)
    <2>1. /\ \A d : ConnCalls(tasks, d) = ConnCalls(tasks', d) \cup
                        (IF c = d THEN {m} \cap Call ELSE {})
          /\ TasksOnce(tasks') /\ m \notin ConnCalls(tasks', c)
      BY <1>1, <1>2, <1>3, <1>4, <1>6, TasksTail
    <2> QED  BY <2>1 DEF TaskCalls
  <1>8. /\ Posts(m) \in Seq(Posted) /\ PostsOnce(Posts(m))
        /\ CallsTo(Posts(m)) = {} \/ (CallsTo(Posts(m)) = {m} /\ m \in Call)
    BY PostsShape
  <1>9. PICK kept \in BOOLEAN :
           /\ kept => m \in Call
           /\ PostsOnce(worker'[t].todo)
           /\ \A d \in Conns : \A x : x \in HeldCalls(t, d)' <=> kept /\ d = c /\ x = m
           /\ \A u \in Thread : u # t =>
                 worker'[u] = worker[u] /\ \A d \in Conns : HeldCalls(u, d)' = HeldCalls(u, d)
    <2>1. CASE worker' = worker
      <3>1. \A d \in Conns : HeldCalls(t, d)' = {}
        BY <1>1, <2>1, PostsFew DEF HeldCalls
      <3>2. PostsOnce(worker'[t].todo)
        BY <1>1, <2>1, PostsFew
      <3>3. \A u \in Thread : u # t =>
                 worker'[u] = worker[u] /\ \A d \in Conns : HeldCalls(u, d)' = HeldCalls(u, d)
        BY <2>1 DEF HeldCalls
      <3>4. FALSE \in BOOLEAN
        OBVIOUS
      <3> QED  BY <3>1, <3>2, <3>3, <3>4, Zenon
    <2>2. CASE worker' = [worker EXCEPT ![t] = Busy(c, Posts(m))]
      <3>1. PICK s \in Seq(Posted) : s = Posts(m)
        BY <1>8
      <3>2. /\ worker'[t].todo = s
            /\ \A d \in Conns : HeldCalls(t, d)' = IF d = c THEN CallsTo(s) ELSE {}
            /\ \A u \in Thread : u # t =>
                  worker'[u] = worker[u] /\ \A d \in Conns : HeldCalls(u, d)' = HeldCalls(u, d)
        <4>1. worker' = [worker EXCEPT ![t] = Busy(c, s)]
          BY <2>2, <3>1
        <4> QED  BY <1>1, <4>1, HeldBusy, ZenonT(60)
      <3>3. PICK b \in BOOLEAN : b = (CallsTo(s) = {m})
        OBVIOUS
      <3>4. \A x : x \in CallsTo(s) <=> b /\ x = m
        BY <1>8, <3>1, <3>3
      <3>5. b => m \in Call
        BY <1>8, <3>1, <3>3
      <3>6. \A d \in Conns : \A x : x \in HeldCalls(t, d)' <=> b /\ d = c /\ x = m
        BY <3>2, <3>4
      <3>7. PostsOnce(worker'[t].todo)
        BY <1>8, <3>1, <3>2
      <3> QED  BY <3>2, <3>5, <3>6, <3>7
    <2> QED  BY <1>5, <2>1, <2>2
  <1>10. \A d \in Conns : HeldCalls(t, d) = {}
    BY <1>1, PostsFew DEF HeldCalls
  <1>11. \A d \in Conns : /\ UpCalls(d)' = UpCalls(d) /\ StrandCalls(d)' = StrandCalls(d)
                          /\ QueueCalls(d)' = QueueCalls(d)
    BY <1>4 DEF UpCalls, StrandCalls, QueueCalls
  <1>12. OnceInv'
    <2>1. \A u \in Thread : PostsOnce(worker'[u].todo)
      BY <1>9 DEF PlaceInv, OnceInv
    <2> QED  BY <1>4, <1>7, <2>1 DEF PlaceInv, OnceInv
  <1>13. ASSUME NEW d \in Conns, NEW x
         PROVE  Apart(d, x)' /\ (Somewhere(d, x)' => x.id <= Len(sent[d]))
    <2>1. Apart(d, x) /\ (Somewhere(d, x) => x.id <= Len(sent[d]))
      BY DEF PlaceInv
    <2>2. \A u \in Thread : x \in HeldCalls(u, d)' <=>
             \/ u # t /\ x \in HeldCalls(u, d)
             \/ u = t /\ kept /\ d = c /\ x = m
      BY <1>9
    <2>3. x \in TaskCalls(d) <=> x \in TaskCalls(d)' \/ (d = c /\ x = m /\ m \in Call)
      BY <1>7
    <2>4. d = c /\ x = m => x \notin TaskCalls(d)'
      BY <1>7
    <2>5. kept => m \in Call
      BY <1>9
    <2> QED  BY <1>11, <2>1, <2>2, <2>3, <2>4, <2>5 DEF Apart, Somewhere
  <1>14. PlaceInv'
    BY <1>4, <1>12, <1>13 DEF PlaceInv
  <1>15. ASSUME NEW d \in Conns, NEW x
         PROVE  x \in Outstanding(d)' <=>
                   x \in Outstanding(d) /\ ~(d = c /\ x = m /\ m \in Call /\ ~kept)
    <2>1. (\E u \in Thread : x \in HeldCalls(u, d)') <=>
             (\E u \in Thread : x \in HeldCalls(u, d)) \/ (kept /\ d = c /\ x = m)
      BY <1>9, <1>10
    <2>2. x \in TaskCalls(d) <=> x \in TaskCalls(d)' \/ (d = c /\ x = m /\ m \in Call)
      BY <1>7
    <2>3. d = c /\ x = m => x \notin TaskCalls(d)'
      BY <1>7
    <2>4. Apart(d, x)
      BY DEF PlaceInv
    <2>5. x \in TaskCalls(d) => /\ x \notin StrandCalls(d) /\ x \notin QueueCalls(d)
                                /\ ~\E u \in Thread : x \in HeldCalls(u, d)
      BY <2>4 DEF Apart
    <2>6. kept => m \in Call
      BY <1>9
    <2>7. x \in Outstanding(d) <=>
             \/ x \in TaskCalls(d) \/ x \in StrandCalls(d) \/ x \in QueueCalls(d)
             \/ \E u \in Thread : x \in HeldCalls(u, d)
      BY OutstandingIs DEF OutstandingParts
    <2>8. x \in Outstanding(d)' <=>
             \/ x \in TaskCalls(d)' \/ x \in StrandCalls(d) \/ x \in QueueCalls(d)
             \/ \E u \in Thread : x \in HeldCalls(u, d)'
      BY <1>11, OutstandingThen DEF OutstandingParts
    <2> QED  BY <2>1, <2>2, <2>3, <2>5, <2>6, <2>7, <2>8
  <1>16. CASE m \in Call /\ ~kept
    <2>1. m \in Outstanding(c)
      BY <1>7, <1>16, OutstandingIs DEF OutstandingParts
    <2>2. \A d \in Conns : \A x : x \in Outstanding(d)' <=>
                                     x \in Outstanding(d) /\ ~(d = c /\ x = m)
      BY <1>15, <1>16
    <2>3. Peer!PeerStep
      BY <1>4, <2>1, <2>2, PeerForgets
    <2> QED  BY <1>14, <2>3
  <1>17. CASE ~(m \in Call /\ ~kept)
    <2>1. \A d \in Conns : Outstanding(d)' = Outstanding(d)
      BY <1>15, <1>17
    <2>2. AcceptedCalls' = AcceptedCalls
      BY <2>1 DEF AcceptedCalls
    <2>3. UNCHANGED Peer!peerVars
      BY <1>4, <2>2 DEF Peer!peerVars, Peer!netVars, netVars
    <2> QED  BY <1>14, <2>3
  <1> QED  BY <1>16, <1>17

\* The read handler makes tasks of messages.
LEMMA PlaceRead ==
    ASSUME TypeInv, PlaceInv, NEW c \in Conns, Read(c), UNCHANGED clientsVars
    PROVE  PlaceInv' /\ Peer!PeerStep
  <1>1. PICK n \in 1..Len(up[c]) :
           /\ tasks' = tasks \o [k \in 1..n |-> [conn |-> c, msg |-> up[c][k]]]
           /\ up' = [up EXCEPT ![c] = Drop(up[c], n)]
    BY DEF Read
  <1>2. UNCHANGED <<worker, wstrand, writer, sent, down, gone>>
    BY DEF Read, clientsVars
  <1>3. up \in [Conns -> Seq(Request)] /\ tasks \in Seq(Task)
    BY DEF TypeInv, NetTypeOK
  <1>4. PICK s \in Seq(Request) : s = up[c]
    BY <1>3
  <1>5. n \in 0..Len(s)
    BY <1>4, LenProperties
  <1>6. PICK r \in Seq(Task) : /\ r = [k \in 1..n |-> [conn |-> c, msg |-> s[k]]]
                               /\ Len(r) = n /\ \A k \in 1..n : r[k].conn = c /\ r[k].msg = s[k]
    BY <1>5, TasksOfMessages
  <1>7. tasks' = tasks \o r
    BY <1>1, <1>4, <1>6
  <1>8. PICK X, Y : X = CallsIn(Keep(s, n)) /\ Y = CallsIn(Drop(s, n))
    OBVIOUS
  <1>9. CallsOnce(s) /\ TasksOnce(tasks)
    BY <1>4 DEF PlaceInv, OnceInv
  <1>10. /\ X = {s[k] : k \in 1..n} \cap Call /\ UpCalls(c) = X \cup Y
         /\ CallsOnce(Drop(s, n)) /\ X \cap Y = {}
    BY <1>4, <1>5, <1>8, <1>9, RequestsSplit DEF UpCalls
  <1>11. CallsIn(s) \cap ConnCalls(tasks, c) = {}
    BY <1>4 DEF PlaceInv, Apart, UpCalls, TaskCalls
  <1>12. /\ \A d : ConnCalls(tasks \o r, d) = ConnCalls(tasks, d) \cup (IF d = c THEN X ELSE {})
         /\ TasksOnce(tasks \o r)
    <2>1. /\ \A d : ConnCalls(tasks \o r, d) =
                       ConnCalls(tasks, d) \cup (IF d = c THEN CallsIn(Keep(s, n)) ELSE {})
          /\ TasksOnce(tasks) /\ CallsOnce(s) /\ CallsIn(s) \cap ConnCalls(tasks, c) = {}
                => TasksOnce(tasks \o r)
      <3>1. Len(r) = n /\ \A k \in 1..n : r[k].conn = c /\ r[k].msg = s[k]
        BY <1>6
      <3>2. PICK ts \in Seq(Task) : ts = tasks
        BY <1>3
      <3>3. /\ \A d : ConnCalls(ts \o r, d) =
                         ConnCalls(ts, d) \cup (IF d = c THEN CallsIn(Keep(s, n)) ELSE {})
            /\ TasksOnce(ts) /\ CallsOnce(s) /\ CallsIn(s) \cap ConnCalls(ts, c) = {}
                  => TasksOnce(ts \o r)
        <4>1. s \in Seq(Request) /\ n \in 0..Len(s) /\ c \in Conns /\ r \in Seq(Task)
          BY <1>5
        <4>2. \A d : ConnCalls(ts \o r, d) =
                         ConnCalls(ts, d) \cup (IF d = c THEN CallsIn(Keep(s, n)) ELSE {})
          BY ONLY <3>1, <3>2, <4>1, TasksRead, SMTT(30)
        <4>3. TasksOnce(ts) /\ CallsOnce(s) /\ CallsIn(s) \cap ConnCalls(ts, c) = {}
                  => TasksOnce(ts \o r)
          BY ONLY <3>1, <3>2, <4>1, TasksRead, SMTT(30)
        <4> QED  BY <4>2, <4>3
      <3> QED  BY <3>2, <3>3
    <2> QED  BY <1>8, <1>9, <1>11, <2>1
  <1>13. \A d \in Conns : TaskCalls(d)' = TaskCalls(d) \cup (IF d = c THEN X ELSE {})
    BY <1>7, <1>12 DEF TaskCalls
  <1>14. up'[c] = Drop(s, n) /\ \A d \in Conns : d # c => up'[d] = up[d]
    BY <1>1, <1>3, <1>4
  <1>15. UpCalls(c)' = Y /\ \A d \in Conns : d # c => UpCalls(d)' = UpCalls(d)
    BY <1>8, <1>14 DEF UpCalls
  <1>16. /\ \A d \in Conns : StrandCalls(d)' = StrandCalls(d) /\ QueueCalls(d)' = QueueCalls(d)
         /\ \A u \in Thread : \A d \in Conns : HeldCalls(u, d)' = HeldCalls(u, d)
    BY <1>2 DEF StrandCalls, QueueCalls, HeldCalls
  <1>17. OnceInv'
    <2>1. \A d \in Conns : CallsOnce(up'[d])
      BY <1>10, <1>14 DEF PlaceInv, OnceInv
    <2>2. TasksOnce(tasks')
      BY <1>7, <1>12
    <2> QED  BY <1>2, <2>1, <2>2 DEF PlaceInv, OnceInv
  <1>18. ASSUME NEW d \in Conns, NEW m
         PROVE  Apart(d, m)' /\ (Somewhere(d, m)' => m.id <= Len(sent[d]))
    <2>1. Apart(d, m) /\ (Somewhere(d, m) => m.id <= Len(sent[d]))
      BY DEF PlaceInv
    <2>2. m \in TaskCalls(d)' <=> m \in TaskCalls(d) \/ (d = c /\ m \in X)
      BY <1>13
    <2>3. /\ d = c => (m \in UpCalls(d) <=> m \in X \/ m \in Y) /\ (m \in UpCalls(d)' <=> m \in Y)
          /\ d # c => UpCalls(d)' = UpCalls(d)
          /\ ~(m \in X /\ m \in Y)
      BY <1>10, <1>15
    <2> QED  BY <1>16, <2>1, <2>2, <2>3 DEF Apart, Somewhere
  <1>19. PlaceInv'
    BY <1>2, <1>17, <1>18 DEF PlaceInv
  <1>20. ASSUME NEW d \in Conns
         PROVE  Outstanding(d)' = Outstanding(d) \cup (IF d = c THEN X ELSE {})
    <2> SUFFICES ASSUME NEW m
                 PROVE  m \in Outstanding(d)' <=> m \in Outstanding(d) \/ (d = c /\ m \in X)
      OBVIOUS
    <2>1. m \in TaskCalls(d)' <=> m \in TaskCalls(d) \/ (d = c /\ m \in X)
      BY <1>13
    <2> QED  BY <1>16, <2>1, OutstandingIs, OutstandingThen DEF OutstandingParts
  <1>21. AcceptedCalls' = [AcceptedCalls EXCEPT ![c] = @ \cup ({up[c][k] : k \in 1..n} \cap Call)]
    <2>1. Outstanding(c)' = Outstanding(c) \cup ({up[c][k] : k \in 1..n} \cap Call)
      BY <1>4, <1>10, <1>20
    <2>2. \A d \in Conns : d # c => Outstanding(d)' = Outstanding(d)
      BY <1>20
    <2> QED  BY <2>1, <2>2 DEF AcceptedCalls
  <1>22. Peer!PeerTake(c)
    <2>1. Peer!Drop(up[c], n) = Drop(up[c], n) /\ Peer!Call = Call
      BY DEF Peer!Drop, Drop, Peer!Call, Call, Peer!Ids, Ids
    <2> QED  BY <1>1, <1>2, <1>21, <2>1 DEF Peer!PeerTake
  <1>23. c \in Peer!Conns
    BY DEF Peer!Conns, Conns
  <1> QED  BY <1>19, <1>22, <1>23 DEF Peer!PeerStep, Peer!PeerNext

\* A response that is written, or vanishes with the connection.
LEMMA PlaceWriteCompletes ==
    ASSUME TypeInv, PlaceInv, NEW c \in Conns, WriteCompletes(c), UNCHANGED clientsVars
    PROVE  PlaceInv' /\ Peer!PeerStep
  <1>1. writer \in [Conns -> Chained] /\ writer[c] \in Chained /\ writer[c].inFlight > 0
    BY DEF TypeInv, WriteCompletes
  <1>2. /\ writer[c].queue # <<>> /\ write_done(writer[c]).queue = Tail(writer[c].queue)
        /\ writer[c].queue \in Seq(Response)
    BY <1>1, WriteDoneKeepsChain, ChainedFields
  <1>3. PICK r \in Response : r = Head(writer[c].queue)
    BY <1>2, HeadTailParts
  <1>4. PICK x : x = CallOf(r)
    OBVIOUS
  <1>5. /\ writer' = [writer EXCEPT ![c] = write_done(writer[c])]
        /\ UNCHANGED <<up, gone, tasks, worker, wstrand, sent>>
    BY DEF WriteCompletes, clientsVars
  <1>6. writer'[c].queue = Tail(writer[c].queue) /\ \A d \in Conns : d # c => writer'[d] = writer[d]
    BY <1>1, <1>2, <1>5
  <1>7. /\ QueueCalls(c) = QueueCalls(c)' \cup {x} /\ x \notin QueueCalls(c)'
        /\ OneEach(writer'[c].queue)
    <2>1. OneEach(writer[c].queue)
      BY DEF PlaceInv, OnceInv
    <2> QED  BY <1>2, <1>3, <1>4, <1>6, <2>1, ResponsesTail DEF QueueCalls
  <1>8. /\ \A d \in Conns : UpCalls(d)' = UpCalls(d) /\ TaskCalls(d)' = TaskCalls(d)
        /\ \A d \in Conns : StrandCalls(d)' = StrandCalls(d)
        /\ \A d \in Conns : d # c => QueueCalls(d)' = QueueCalls(d)
        /\ \A u \in Thread : \A d \in Conns : HeldCalls(u, d)' = HeldCalls(u, d)
    BY <1>5, <1>6 DEF UpCalls, TaskCalls, StrandCalls, QueueCalls, HeldCalls
  <1>9. OnceInv'
    BY <1>5, <1>6, <1>7 DEF PlaceInv, OnceInv
  <1>10. ASSUME NEW d \in Conns, NEW m
         PROVE  Apart(d, m)' /\ (Somewhere(d, m)' => m.id <= Len(sent[d]))
    <2>1. Apart(d, m) /\ (Somewhere(d, m) => m.id <= Len(sent[d]))
      BY DEF PlaceInv
    <2> QED  BY <1>7, <1>8, <2>1 DEF Apart, Somewhere
  <1>11. PlaceInv'
    BY <1>5, <1>9, <1>10 DEF PlaceInv
  <1>12. x \in Outstanding(c)
    BY <1>7, OutstandingIs DEF OutstandingParts
  <1>13. ASSUME NEW d \in Conns, NEW m
         PROVE  m \in Outstanding(d)' <=> m \in Outstanding(d) /\ ~(d = c /\ m = x)
    <2>1. Apart(c, x)
      BY DEF PlaceInv
    <2>2. /\ x \notin TaskCalls(c) /\ x \notin StrandCalls(c)
          /\ ~\E u \in Thread : x \in HeldCalls(u, c)
      BY <1>7, <2>1 DEF Apart
    <2>3. m \in QueueCalls(d)' <=> m \in QueueCalls(d) /\ ~(d = c /\ m = x)
      BY <1>7, <1>8
    <2>4. m \in Outstanding(d) <=>
             \/ m \in TaskCalls(d) \/ m \in StrandCalls(d) \/ m \in QueueCalls(d)
             \/ \E u \in Thread : m \in HeldCalls(u, d)
      BY OutstandingIs DEF OutstandingParts
    <2>5. m \in Outstanding(d)' <=>
             \/ m \in TaskCalls(d) \/ m \in StrandCalls(d) \/ m \in QueueCalls(d)'
             \/ \E u \in Thread : m \in HeldCalls(u, d)
      BY <1>8, OutstandingThen DEF OutstandingParts
    <2> QED  BY <2>2, <2>3, <2>4, <2>5
  <1>14. CASE gone[c]
    <2>1. UNCHANGED netVars
      BY <1>5, <1>14 DEF WriteCompletes, netVars
    <2>2. Peer!PeerStep
      BY <1>12, <1>13, <2>1, PeerForgets
    <2> QED  BY <1>11, <2>2
  <1>15. CASE ~gone[c]
    <2>1. down' = [down EXCEPT ![c] = Append(@, r)]
      BY <1>3, <1>15 DEF WriteCompletes
    <2>2. r.error \in BOOLEAN /\ r = [id |-> x.id, error |-> r.error, of |-> x.arg]
      BY <1>4 DEF CallOf, Response
    <2>3. AcceptedCalls' = [AcceptedCalls EXCEPT ![c] = @ \ {x}] /\ x \in AcceptedCalls[c]
      <3>1. ASSUME NEW d \in Conns, d # c PROVE Outstanding(d)' = Outstanding(d)
        BY <1>13, <3>1
      <3>2. Outstanding(c)' = Outstanding(c) \ {x}
        BY <1>13
      <3> QED  BY <1>12, <3>1, <3>2 DEF AcceptedCalls
    <2>4. down' = [down EXCEPT ![c] = Append(@, [id |-> x.id, error |-> r.error, of |-> x.arg])]
      BY <2>1, <2>2
    <2>5. Peer!PeerAnswer(c, x)
      BY <1>5, <1>15, <2>2, <2>3, <2>4 DEF Peer!PeerAnswer
    <2>6. c \in Peer!Conns
      BY DEF Peer!Conns, Conns
    <2> QED  BY <1>11, <2>3, <2>5, <2>6 DEF Peer!PeerStep, Peer!PeerNext
  <1> QED  BY <1>14, <1>15

\* What is somewhere is a call.
LEMMA CallsAreCalls ==
    ASSUME TypeInv
    PROVE  \A c \in Conns : \A m : Somewhere(c, m) => m \in Call
  <1> SUFFICES ASSUME NEW c \in Conns, NEW m, Somewhere(c, m) PROVE m \in Call
    OBVIOUS
  <1>1. \A s \in Seq(Posted) : \A x \in CallsTo(s) : x \in Call
    <2> SUFFICES ASSUME NEW s \in Seq(Posted), NEW x \in CallsTo(s) PROVE x \in Call
      OBVIOUS
    <2>1. PICK k \in 1..Len(s) : s[k].do = "write" /\ x = CallOf(s[k].resp[1])
      BY InCallsTo
    <2>2. s[k] \in Posted
      BY ElementOfSeq
    <2>3. s[k].resp[1] \in Response
      BY <2>1, <2>2, PostedParts
    <2> QED  BY <2>1, <2>3, CallOfResponse
  <1>2. \A q \in Seq(Response) : \A x \in CallsOf(q) : x \in Call
    <2> SUFFICES ASSUME NEW q \in Seq(Response), NEW x \in CallsOf(q) PROVE x \in Call
      OBVIOUS
    <2>1. DOMAIN q = 1..Len(q)
      BY LenProperties
    <2>2. PICK k \in 1..Len(q) : x = CallOf(q[k])
      BY <2>1 DEF CallsOf
    <2>3. q[k] \in Response
      BY ElementOfSeq
    <2> QED  BY <2>2, <2>3, CallOfResponse
  <1>3. CASE m \in UpCalls(c) \/ m \in TaskCalls(c)
    BY <1>3 DEF UpCalls, TaskCalls, CallsIn, ConnCalls
  <1>4. CASE m \in StrandCalls(c)
    <2>1. wstrand[c] \in Seq(Posted)
      BY DEF TypeInv
    <2> QED  BY <1>1, <1>4, <2>1 DEF StrandCalls
  <1>5. CASE m \in QueueCalls(c)
    <2>1. writer[c].queue \in Seq(Response)
      BY ChainedFields DEF TypeInv
    <2> QED  BY <1>2, <1>5, <2>1 DEF QueueCalls
  <1>6. ASSUME NEW t \in Thread, m \in HeldCalls(t, c) PROVE m \in Call
    <2>1. worker[t].todo \in Seq(Posted)
      BY DEF TypeInv
    <2> QED  BY <1>1, <1>6, <2>1 DEF HeldCalls
  <1> QED  BY <1>3, <1>4, <1>5, <1>6 DEF Somewhere

\* A strand that closes its socket: nothing of a connection that is gone is
\* lost, otherwise the connection drops.
LEMMA PlaceCloseSocket ==
    ASSUME TypeInv, PlaceInv, NEW t \in Thread, NEW c \in Conns,
           StrandCloseSocket(t, c), UNCHANGED clientsVars
    PROVE  PlaceInv' /\ [Peer!PeerStep]_(Peer!peerVars)
  <1>1. wstrand[c] # <<>> /\ Head(wstrand[c]).do = "close_socket"
    BY DEF StrandCloseSocket, NextOn
  <1>2. wstrand \in [Conns -> Seq(Posted)] /\ up \in [Conns -> Seq(Request)]
    BY DEF TypeInv, NetTypeOK
  <1>3. wstrand' = Advanced(c) /\ ServerCloses(c) /\ UNCHANGED <<tasks, worker, writer, sent>>
    BY DEF StrandCloseSocket, clientsVars
  <1>4. \A d \in Conns : CallsTo(wstrand'[d]) = CallsTo(wstrand[d]) /\ PostsOnce(wstrand'[d])
    <2>1. \A d \in Conns : PostsOnce(wstrand[d])
      BY DEF PlaceInv, OnceInv
    <2>2. /\ wstrand'[c] = Tail(wstrand[c]) /\ \A d \in Conns : d # c => wstrand'[d] = wstrand[d]
          /\ CallsTo(wstrand[c]) = CallsTo(Tail(wstrand[c])) /\ PostsOnce(Tail(wstrand[c]))
      BY <1>1, <1>2, <1>3, <2>1, StrandAdvances
    <2> QED  BY <2>1, <2>2
  <1>5. CASE UNCHANGED netVars
    <2>1. UNCHANGED <<netVars, tasks, sent>>
      BY <1>3, <1>5
    <2>2. \A d \in Conns : /\ CallsTo(wstrand'[d]) = CallsTo(wstrand[d])
                           /\ PostsOnce(wstrand'[d]) /\ writer'[d].queue = writer[d].queue
      BY <1>3, <1>4
    <2>3. \A u \in Thread : /\ PostsOnce(worker'[u].todo)
                            /\ \A d \in Conns : HeldCalls(u, d)' = HeldCalls(u, d)
      BY <1>3 DEF PlaceInv, OnceInv, HeldCalls
    <2>4. PlaceInv' /\ UNCHANGED Peer!peerVars
      BY <2>1, <2>2, <2>3, QuietStep
    <2> QED  BY <2>4
  <1>6. CASE ~UNCHANGED netVars
    <2>1. PICK n \in 0..Len(down[c]) :
             /\ ~gone[c] /\ gone' = [gone EXCEPT ![c] = TRUE] /\ up' = [up EXCEPT ![c] = <<>>]
             /\ down' = [down EXCEPT ![c] = Keep(down[c], n)]
      BY <1>3, <1>6 DEF ServerCloses
    <2>2. up'[c] = <<>> /\ \A d \in Conns : d # c => up'[d] = up[d]
      BY <1>2, <2>1
    <2>3. UpCalls(c)' = {} /\ \A d \in Conns : d # c => UpCalls(d)' = UpCalls(d)
      BY <2>2 DEF UpCalls, CallsIn
    <2>4. /\ \A d \in Conns : /\ TaskCalls(d)' = TaskCalls(d) /\ StrandCalls(d)' = StrandCalls(d)
                              /\ QueueCalls(d)' = QueueCalls(d)
          /\ \A u \in Thread : \A d \in Conns : HeldCalls(u, d)' = HeldCalls(u, d)
      BY <1>3, <1>4 DEF TaskCalls, StrandCalls, QueueCalls, HeldCalls
    <2>5. OnceInv'
      <3>1. \A d \in Conns : CallsOnce(up'[d])
        BY <2>2 DEF PlaceInv, OnceInv, CallsOnce
      <3> QED  BY <1>3, <1>4, <3>1 DEF PlaceInv, OnceInv
    <2>6. \A d \in Conns : \A m : Apart(d, m)' /\ (Somewhere(d, m)' => m.id <= Len(sent[d]))
      <3> SUFFICES ASSUME NEW d \in Conns, NEW m
                   PROVE  Apart(d, m)' /\ (Somewhere(d, m)' => m.id <= Len(sent[d]))
        OBVIOUS
      <3>1. Apart(d, m) /\ (Somewhere(d, m) => m.id <= Len(sent[d]))
        BY DEF PlaceInv
      <3> QED  BY <2>3, <2>4, <3>1 DEF Apart, Somewhere
    <2>7. PlaceInv'
      BY <1>3, <2>5, <2>6 DEF PlaceInv
    <2>8. \A d \in Conns : Outstanding(d)' = Outstanding(d)
      <3> SUFFICES ASSUME NEW d \in Conns, NEW m PROVE m \in Outstanding(d)' <=> m \in Outstanding(d)
        OBVIOUS
      <3> QED  BY <2>4, OutstandingIs, OutstandingThen DEF OutstandingParts
    <2>9. AcceptedCalls' = AcceptedCalls
      BY <2>8 DEF AcceptedCalls
    <2>10. 0 \in 0..Len(up[c]) /\ Keep(up[c], 0) = <<>>
      BY <1>2, KeepDropEnds
    <2>11. /\ up' = [up EXCEPT ![c] = Peer!Keep(up[c], 0)]
           /\ down' = [down EXCEPT ![c] = Peer!Keep(down[c], n)]
      BY <2>1, <2>10 DEF Peer!Keep, Keep
    <2>12. Peer!Drops(c)
      BY <2>1, <2>10, <2>11 DEF Peer!Drops
    <2>13. c \in Peer!Conns
      BY DEF Peer!Conns, Conns
    <2> QED  BY <2>7, <2>9, <2>12, <2>13 DEF Peer!PeerStep
  <1> QED  BY <1>5, <1>6

\* ~server() leaves no call anywhere.
LEMMA PlaceStop ==
    ASSUME TypeInv, PlaceInv, StopServer, UNCHANGED clientsVars
    PROVE  PlaceInv' /\ Peer!PeerStep
  <1>1. /\ tasks' = <<>> /\ AllGone /\ UNCHANGED sent
        /\ \A t \in Thread : worker'[t] = Idle
        /\ \A d \in Conns : wstrand'[d] = <<>> /\ writer'[d] = NewWriter /\ up'[d] = <<>>
    BY DEF StopServer, AllGone, clientsVars
  <1>2. \A t \in Thread : worker'[t].todo = <<>>
    BY <1>1, BusyType
  <1>3. \A d \in Conns : writer'[d].queue = <<>>
    BY <1>1, NewWriterChained
  <1>4. \A t \in Thread : \A d \in Conns : HeldCalls(t, d)' = {}
    BY <1>2, PostsFew DEF HeldCalls
  <1>5. \A d \in Conns : /\ UpCalls(d)' = {} /\ TaskCalls(d)' = {} /\ StrandCalls(d)' = {}
                         /\ QueueCalls(d)' = {}
    <2>1. \A d \in Conns : CallsTo(wstrand'[d]) = {}
      BY <1>1, PostsFew
    <2>2. \A d \in Conns : CallsIn(up'[d]) = {} /\ CallsOf(writer'[d].queue) = {}
      BY <1>1, <1>3 DEF CallsIn, CallsOf
    <2>3. \A d \in Conns : ConnCalls(tasks', d) = {}
      BY <1>1 DEF ConnCalls
    <2> QED  BY <2>1, <2>2, <2>3 DEF UpCalls, TaskCalls, StrandCalls, QueueCalls
  <1>6. OnceInv'
    <2>1. TasksOnce(tasks')
      BY <1>1 DEF TasksOnce
    <2>2. \A t \in Thread : PostsOnce(worker'[t].todo)
      BY <1>2, PostsFew
    <2>3. \A d \in Conns : CallsOnce(up'[d]) /\ PostsOnce(wstrand'[d]) /\ OneEach(writer'[d].queue)
      BY <1>1, <1>3, PostsFew DEF CallsOnce, OneEach
    <2> QED  BY <2>1, <2>2, <2>3 DEF OnceInv
  <1>7. PlaceInv'
    BY <1>4, <1>5, <1>6 DEF PlaceInv, Apart, Somewhere
  <1>8. \A d \in Conns : Outstanding(d)' = {}
    BY <1>4, <1>5, OutstandingThen DEF OutstandingParts
  <1>9. AcceptedCalls' = [d \in Conns |-> {}]
    BY <1>8 DEF AcceptedCalls
  <1>10. Peer!Conns = Conns
    BY DEF Peer!Conns, Conns
  <1>11. Peer!PeerEnds
    BY <1>1, <1>9, <1>10 DEF Peer!PeerEnds, Peer!AllGone, AllGone
  <1> QED  BY <1>7, <1>11 DEF Peer!PeerStep

\* A client that sends a message: a call has a number no other has.
LEMMA PlaceAsk ==
    ASSUME TypeInv, PlaceInv, NEW c \in Conns, Ask(c), UNCHANGED srvVars
    PROVE  PlaceInv' /\ Peer!PeerStep
  <1>1. PICK m \in Request :
           /\ \/ m.kind = "call" /\ m.id = Len(sent[c]) + 1
              \/ m.kind = "note"
           /\ up' = [up EXCEPT ![c] = Append(up[c], m)]
           /\ sent' = [sent EXCEPT ![c] = Append(sent[c], m)]
    BY DEF Ask
  <1>2. UNCHANGED <<tasks, worker, wstrand, writer, down, gone>>
    BY DEF Ask, srvVars
  <1>3. up \in [Conns -> Seq(Request)] /\ sent \in [Conns -> Seq(Request)]
    BY DEF TypeInv, NetTypeOK
  <1>4. up[c] \in Seq(Request) /\ sent[c] \in Seq(Request)
    BY <1>3
  <1>5. /\ up'[c] = Append(up[c], m) /\ \A d \in Conns : d # c => up'[d] = up[d]
        /\ sent'[c] = Append(sent[c], m) /\ \A d \in Conns : d # c => sent'[d] = sent[d]
    BY <1>1, <1>3
  <1>6. Len(sent[c]) \in Nat /\ Len(sent'[c]) = Len(sent[c]) + 1
    BY <1>4, <1>5, AppendParts
  <1>7. m \in Call => m.id = Len(sent[c]) + 1 /\ m.id \in Nat
    BY <1>1, <1>6 DEF Call
  <1>8. m \in Call => ~Somewhere(c, m)
    <2>1. Somewhere(c, m) => m.id <= Len(sent[c])
      BY DEF PlaceInv
    <2>2. m \in Call => ~(m.id <= Len(sent[c]))
      BY <1>6, <1>7
    <2> QED  BY <2>1, <2>2
  <1>9. /\ UpCalls(c)' = UpCalls(c) \cup ({m} \cap Call)
        /\ CallsOnce(up'[c])
        /\ \A d \in Conns : d # c => UpCalls(d)' = UpCalls(d)
    <2>1. CallsOnce(up[c])
      BY DEF PlaceInv, OnceInv
    <2>2. m \in Call => m \notin CallsIn(up[c])
      BY <1>8 DEF Somewhere, UpCalls
    <2>3. /\ CallsIn(Append(up[c], m)) = CallsIn(up[c]) \cup ({m} \cap Call)
          /\ CallsOnce(Append(up[c], m))
      BY <1>4, <2>1, <2>2, RequestsAppend
    <2> QED  BY <1>5, <2>3 DEF UpCalls
  <1>10. /\ \A d \in Conns : /\ TaskCalls(d)' = TaskCalls(d) /\ StrandCalls(d)' = StrandCalls(d)
                             /\ QueueCalls(d)' = QueueCalls(d)
         /\ \A u \in Thread : \A d \in Conns : HeldCalls(u, d)' = HeldCalls(u, d)
    BY <1>2 DEF TaskCalls, StrandCalls, QueueCalls, HeldCalls
  <1>11. OnceInv'
    BY <1>2, <1>5, <1>9 DEF PlaceInv, OnceInv
  <1>12. ASSUME NEW d \in Conns, NEW x
         PROVE  Apart(d, x)' /\ (Somewhere(d, x)' => x.id <= Len(sent'[d]))
    <2>1. Apart(d, x) /\ (Somewhere(d, x) => x.id <= Len(sent[d]))
      BY DEF PlaceInv
    <2>2. x \in UpCalls(d)' <=> x \in UpCalls(d) \/ (d = c /\ x = m /\ m \in Call)
      BY <1>9
    <2>3. d = c /\ x = m /\ m \in Call => ~Somewhere(d, x)
      BY <1>8
    <2>4. Apart(d, x)'
      BY <1>10, <2>1, <2>2, <2>3 DEF Apart, Somewhere
    <2>5. Somewhere(d, x)' => Somewhere(d, x) \/ (d = c /\ x = m /\ m \in Call)
      BY <1>10, <2>2 DEF Somewhere
    <2>6. d = c /\ x = m /\ m \in Call => x.id <= Len(sent'[d])
      BY <1>6, <1>7
    <2>7. Somewhere(d, x) => x.id <= Len(sent'[d])
      <3>1. CASE d # c
        BY <1>5, <2>1, <3>1
      <3>2. CASE d = c
        <4>1. Somewhere(d, x) => x \in Call
          BY <3>2, CallsAreCalls
        <4>2. \A y \in Call : y.id \in Nat
          BY DEF Call, Ids
        <4> QED  BY <1>6, <2>1, <3>2, <4>1, <4>2
      <3> QED  BY <3>1, <3>2
    <2> QED  BY <2>4, <2>5, <2>6, <2>7
  <1>13. PlaceInv'
    BY <1>11, <1>12 DEF PlaceInv
  <1>14. \A d \in Conns : Outstanding(d)' = Outstanding(d)
    <2> SUFFICES ASSUME NEW d \in Conns, NEW x PROVE x \in Outstanding(d)' <=> x \in Outstanding(d)
      OBVIOUS
    <2> QED  BY <1>10, OutstandingIs, OutstandingThen DEF OutstandingParts
  <1>15. AcceptedCalls' = AcceptedCalls
    BY <1>14 DEF AcceptedCalls
  <1>16. m \in Peer!Request
    BY DEF Peer!Request, Peer!Call, Peer!Note, Peer!Ids, Request, Call, Note, Ids
  <1>17. Peer!ClientWrites(c)
    BY <1>1, <1>2, <1>15, <1>16 DEF Peer!ClientWrites
  <1>18. c \in Peer!Conns
    BY DEF Peer!Conns, Conns
  <1> QED  BY <1>13, <1>17, <1>18 DEF Peer!PeerStep

\* A client that vanishes.
LEMMA PlaceVanish ==
    ASSUME TypeInv, PlaceInv, NEW c \in Conns, Vanish(c), UNCHANGED srvVars
    PROVE  PlaceInv' /\ Peer!PeerStep
  <1>1. PICK n \in 0..Len(up[c]), k \in 0..Len(down[c]) :
           /\ ~gone[c] /\ gone' = [gone EXCEPT ![c] = TRUE]
           /\ up' = [up EXCEPT ![c] = Keep(up[c], n)]
           /\ down' = [down EXCEPT ![c] = Keep(down[c], k)]
    BY DEF Vanish, Drops
  <1>2. UNCHANGED <<tasks, worker, wstrand, writer, sent>>
    BY DEF Vanish, srvVars, clientsVars
  <1>3. up \in [Conns -> Seq(Request)] /\ up[c] \in Seq(Request)
    BY DEF TypeInv, NetTypeOK
  <1>4. up'[c] = Keep(up[c], n) /\ \A d \in Conns : d # c => up'[d] = up[d]
    BY <1>1, <1>3
  <1>5. CallsIn(Keep(up[c], n)) \subseteq CallsIn(up[c]) /\ CallsOnce(Keep(up[c], n))
    <2>1. CallsOnce(up[c])
      BY DEF PlaceInv, OnceInv
    <2> QED  BY <1>3, <2>1, RequestsSplit
  <1>6. \A d \in Conns : UpCalls(d)' \subseteq UpCalls(d)
    BY <1>4, <1>5 DEF UpCalls
  <1>7. /\ \A d \in Conns : /\ TaskCalls(d)' = TaskCalls(d) /\ StrandCalls(d)' = StrandCalls(d)
                            /\ QueueCalls(d)' = QueueCalls(d)
        /\ \A u \in Thread : \A d \in Conns : HeldCalls(u, d)' = HeldCalls(u, d)
    BY <1>2 DEF TaskCalls, StrandCalls, QueueCalls, HeldCalls
  <1>8. OnceInv'
    BY <1>2, <1>4, <1>5 DEF PlaceInv, OnceInv
  <1>9. ASSUME NEW d \in Conns, NEW m
        PROVE  Apart(d, m)' /\ (Somewhere(d, m)' => m.id <= Len(sent[d]))
    <2>1. Apart(d, m) /\ (Somewhere(d, m) => m.id <= Len(sent[d]))
      BY DEF PlaceInv
    <2>2. m \in UpCalls(d)' => m \in UpCalls(d)
      BY <1>6
    <2> QED  BY <1>7, <2>1, <2>2 DEF Apart, Somewhere
  <1>10. PlaceInv'
    BY <1>2, <1>8, <1>9 DEF PlaceInv
  <1>11. \A d \in Conns : Outstanding(d)' = Outstanding(d)
    <2> SUFFICES ASSUME NEW d \in Conns, NEW m PROVE m \in Outstanding(d)' <=> m \in Outstanding(d)
      OBVIOUS
    <2> QED  BY <1>7, OutstandingIs, OutstandingThen DEF OutstandingParts
  <1>12. AcceptedCalls' = AcceptedCalls
    BY <1>11 DEF AcceptedCalls
  <1>13. Peer!Drops(c)
    BY <1>1 DEF Peer!Drops, Peer!Keep, Keep
  <1>14. c \in Peer!Conns
    BY DEF Peer!Conns, Conns
  <1> QED  BY <1>10, <1>12, <1>13, <1>14 DEF Peer!PeerStep

\* The accept handler holds no call.
LEMMA PlaceAccept ==
    ASSUME TypeInv, PlaceInv, NEW t \in Thread,
           Accept(t) \/ AcceptThrows(t) \/ AcceptPush(t) \/ AcceptCancelled(t),
           UNCHANGED clientsVars
    PROVE  PlaceInv' /\ UNCHANGED Peer!peerVars
  <1>1. UNCHANGED <<netVars, tasks, sent, wstrand, writer>>
    BY DEF Accept, AcceptThrows, AcceptPush, AcceptCancelled, clientsVars
  <1>2. \A d \in Conns : /\ CallsTo(wstrand'[d]) = CallsTo(wstrand[d])
                         /\ PostsOnce(wstrand'[d]) /\ writer'[d].queue = writer[d].queue
    BY <1>1 DEF PlaceInv, OnceInv
  <1>3. worker \in [Thread -> [conn : Conns, todo : Seq(Posted)]]
    BY DEF TypeInv
  <1>4. PICK p \in Seq(Posted) : p = <<Push>> /\ CallsTo(p) = {} /\ PostsOnce(p)
    <2>1. Push \in Posted /\ Push.do # "write"
      BY PostIsPosted DEF Push, PostLabels
    <2> QED  BY <2>1, PostsFew
  <1>5. \A u \in Thread : /\ PostsOnce(worker'[u].todo)
                          /\ \A d \in Conns : HeldCalls(u, d)' = HeldCalls(u, d)
    <2>1. CASE worker' = worker
      BY <2>1 DEF PlaceInv, OnceInv, HeldCalls
    <2>2. ASSUME NEW s \in Seq(Posted), NEW c \in Conns, worker' = [worker EXCEPT ![t] = Busy(c, s)],
                 CallsTo(s) = {}, PostsOnce(s), CallsTo(worker[t].todo) = {}
          PROVE  \A u \in Thread : /\ PostsOnce(worker'[u].todo)
                                   /\ \A d \in Conns : HeldCalls(u, d)' = HeldCalls(u, d)
      <3>1. /\ worker'[t].todo = s
            /\ \A d \in Conns : HeldCalls(t, d)' = IF d = c THEN CallsTo(s) ELSE {}
            /\ \A u \in Thread : u # t =>
                  worker'[u] = worker[u] /\ \A d \in Conns : HeldCalls(u, d)' = HeldCalls(u, d)
        BY <1>3, <2>2, HeldBusy
      <3>2. \A d \in Conns : HeldCalls(t, d) = {}
        BY <2>2 DEF HeldCalls
      <3>3. \A u \in Thread : PostsOnce(worker'[u].todo)
        BY <2>2, <3>1 DEF PlaceInv, OnceInv
      <3>4. \A u \in Thread : \A d \in Conns : HeldCalls(u, d)' = HeldCalls(u, d)
        <4> SUFFICES ASSUME NEW u \in Thread, NEW d \in Conns PROVE HeldCalls(u, d)' = HeldCalls(u, d)
          OBVIOUS
        <4>1. CASE u = t
          BY <2>2, <3>1, <3>2, <4>1
        <4>2. CASE u # t
          BY <3>1, <4>2
        <4> QED  BY <4>1, <4>2
      <3> QED  BY <3>3, <3>4
    <2>3. CASE Accept(t)
      <3>1. backlog # <<>> /\ backlog \in Seq(Conns)
        BY <2>3 DEF Accept, TypeInv
      <3>2. Head(backlog) \in Conns
        BY <3>1, HeadTailParts
      <3>3. worker' = [worker EXCEPT ![t] = Busy(Head(backlog), p)] /\ worker[t].todo = <<>>
        BY <1>4, <2>3 DEF Accept, Free
      <3> QED  BY <1>4, <2>2, <3>2, <3>3, PostsFew
    <2>4. CASE AcceptPush(t)
      <3>1. worker' = [worker EXCEPT ![t] = Busy(1, <<>>)] /\ worker[t].todo = p
        BY <1>4, <2>4 DEF AcceptPush, Busy
      <3>2. 1 \in Conns /\ <<>> \in Seq(Posted)
        BY RpcNetAssumption, EmptySeq DEF Conns
      <3> QED  BY <1>4, <2>2, <3>1, <3>2, PostsFew
    <2>5. CASE AcceptThrows(t) \/ AcceptCancelled(t)
      BY <2>1, <2>5 DEF AcceptThrows, AcceptCancelled
    <2> QED  BY <2>3, <2>4, <2>5
  <1> QED  BY <1>1, <1>2, <1>5, QuietStep

\* Handlers that only close, a failed write and a read that brings nothing.
LEMMA PlaceCloses ==
    ASSUME TypeInv, PlaceInv, NEW t \in Thread, NEW c \in Conns,
           \/ ReadEnds(c) \/ ReadFails(c) \/ ReadWhenClosed(c)
           \/ StrandClose(t, c) \/ StrandCloseSessions(t, c) \/ StrandOnDeadSession(t, c)
           \/ StrandCloseSession(t, c) \/ WriteFails(c),
           UNCHANGED clientsVars
    PROVE  PlaceInv' /\ UNCHANGED Peer!peerVars
  <1>1. UNCHANGED <<netVars, tasks, sent, worker>>
    BY DEF ReadEnds, ReadFails, ReadWhenClosed, StrandClose, StrandCloseSessions,
           StrandOnDeadSession, StrandCloseSession, WriteFails, clientsVars
  <1>2. \A u \in Thread : /\ PostsOnce(worker'[u].todo)
                          /\ \A d \in Conns : HeldCalls(u, d)' = HeldCalls(u, d)
    BY <1>1 DEF PlaceInv, OnceInv, HeldCalls
  <1>3. writer \in [Conns -> Chained] /\ wstrand \in [Conns -> Seq(Posted)]
    BY DEF TypeInv
  <1>4. \A d \in Conns : PostsOnce(wstrand[d])
    BY DEF PlaceInv, OnceInv
  <1>5. ASSUME wstrand[c] # <<>>, Head(wstrand[c]).do # "write"
        PROVE  /\ Advanced(c) \in [Conns -> Seq(Posted)]
               /\ \A d \in Conns : CallsTo(Advanced(c)[d]) = CallsTo(wstrand[d]) /\ PostsOnce(Advanced(c)[d])
    <2>1. /\ Advanced(c) \in [Conns -> Seq(Posted)]
          /\ Advanced(c)[c] = Tail(wstrand[c])
          /\ \A d \in Conns : d # c => Advanced(c)[d] = wstrand[d]
          /\ CallsTo(wstrand[c]) = CallsTo(Tail(wstrand[c])) /\ PostsOnce(Tail(wstrand[c]))
      BY <1>3, <1>4, <1>5, StrandAdvances
    <2> QED  BY <1>4, <2>1
  <1>6. ASSUME NEW so \in [Conns -> Seq(Posted)], NEW C, CloseAll(C, writer, so),
               \A d \in Conns : CallsTo(so[d]) = CallsTo(wstrand[d]) /\ PostsOnce(so[d])
        PROVE  \A d \in Conns : /\ CallsTo(wstrand'[d]) = CallsTo(wstrand[d])
                                /\ PostsOnce(wstrand'[d]) /\ writer'[d].queue = writer[d].queue
    BY <1>3, <1>6, CloseAllMoves
  <1>7. \A d \in Conns : /\ CallsTo(wstrand'[d]) = CallsTo(wstrand[d])
                         /\ PostsOnce(wstrand'[d]) /\ writer'[d].queue = writer[d].queue
    <2>1. CASE ReadEnds(c)
      BY <1>3, <1>4, <1>6, <2>1 DEF ReadEnds
    <2>2. CASE ReadFails(c) \/ ReadWhenClosed(c)
      BY <1>4, <2>2 DEF ReadFails, ReadWhenClosed
    <2>3. CASE StrandClose(t, c)
      BY <1>5, <1>6, <2>3 DEF StrandClose, NextOn
    <2>4. CASE StrandCloseSessions(t, c)
      BY <1>5, <1>6, <2>4 DEF StrandCloseSessions, NextOn
    <2>5. CASE StrandOnDeadSession(t, c) \/ StrandCloseSession(t, c)
      BY <1>5, <2>5 DEF StrandOnDeadSession, StrandCloseSession, NextOn
    <2>6. CASE WriteFails(c)
      <3>1. writer[c] \in Chained /\ writer[c].inFlight > 0
        BY <1>3, <2>6 DEF WriteFails
      <3>2. write_failed(writer[c]).queue = writer[c].queue
        BY <3>1, WriteFailedKeepsChain
      <3>3. writer' = [writer EXCEPT ![c] = write_failed(writer[c])] /\ wstrand' = wstrand
        BY <2>6 DEF WriteFails
      <3> QED  BY <1>3, <1>4, <3>2, <3>3
    <2> QED  BY <2>1, <2>2, <2>3, <2>4, <2>5, <2>6
  <1> QED  BY <1>1, <1>2, <1>7, QuietStep

\* Every step keeps calls apart, and is one that a peer may take.
LEMMA StepImplements ==
    TypeInv /\ PlaceInv /\ [Next]_vars => PlaceInv' /\ [Peer!PeerStep]_(Peer!peerVars)
  <1> SUFFICES ASSUME TypeInv, PlaceInv, [Next]_vars
               PROVE  PlaceInv' /\ [Peer!PeerStep]_(Peer!peerVars)
    OBVIOUS
  <1>0. ASSUME UNCHANGED <<netVars, tasks, sent, worker, wstrand, writer>>
        PROVE  PlaceInv' /\ UNCHANGED Peer!peerVars
    <2>1. /\ \A d \in Conns : /\ CallsTo(wstrand'[d]) = CallsTo(wstrand[d])
                              /\ PostsOnce(wstrand'[d]) /\ writer'[d].queue = writer[d].queue
          /\ \A u \in Thread : /\ PostsOnce(worker'[u].todo)
                               /\ \A d \in Conns : HeldCalls(u, d)' = HeldCalls(u, d)
      BY <1>0 DEF PlaceInv, OnceInv, HeldCalls
    <2> QED  BY <1>0, <2>1, QuietStep
  <1>1. CASE UNCHANGED vars
    BY <1>0, <1>1 DEF vars, srvVars, netVars, clientsVars
  <1>2. CASE AcceptNext /\ UNCHANGED clientsVars
    BY <1>2, PlaceAccept DEF AcceptNext
  <1>3. CASE StopServer /\ UNCHANGED clientsVars
    BY <1>3, PlaceStop
  <1>4. ASSUME NEW t \in Thread, TaskNext(t), UNCHANGED clientsVars
        PROVE  PlaceInv' /\ [Peer!PeerStep]_(Peer!peerVars)
    BY <1>4, PlaceRunTask, PlacePost DEF TaskNext
  <1>5. ASSUME NEW c \in Conns, ReadNext(c) \/ StrandNext(c) \/ WriteNext(c), UNCHANGED clientsVars
        PROVE  PlaceInv' /\ [Peer!PeerStep]_(Peer!peerVars)
    <2>0. PICK u : u \in Thread
      BY ThreadAssumption
    <2>1. CASE Read(c)
      BY <1>5, <2>1, PlaceRead
    <2>2. CASE ReadEnds(c) \/ ReadFails(c) \/ ReadWhenClosed(c) \/ WriteFails(c)
      BY <1>5, <2>0, <2>2, PlaceCloses
    <2>3. CASE WriteCompletes(c)
      BY <1>5, <2>3, PlaceWriteCompletes
    <2>4. CASE StrandNext(c)
      <3>1. PICK t \in Thread :
               \/ StrandWrite(t, c) \/ StrandClose(t, c) \/ StrandCloseSessions(t, c)
               \/ StrandOnDeadSession(t, c) \/ StrandCloseSocket(t, c) \/ StrandCloseSession(t, c)
        BY <2>4 DEF StrandNext
      <3>2. CASE StrandWrite(t, c)
        BY <1>5, <3>2, PlaceStrandWrite
      <3>3. CASE StrandCloseSocket(t, c)
        BY <1>5, <3>3, PlaceCloseSocket
      <3>4. CASE \/ StrandClose(t, c) \/ StrandCloseSessions(t, c)
                 \/ StrandOnDeadSession(t, c) \/ StrandCloseSession(t, c)
        BY <1>5, <3>4, PlaceCloses
      <3> QED  BY <3>1, <3>2, <3>3, <3>4
    <2> QED  BY <1>5, <2>1, <2>2, <2>3, <2>4 DEF ReadNext, WriteNext
  <1>6. ASSUME NEW c \in Conns, Connect(c)
        PROVE  PlaceInv' /\ [Peer!PeerStep]_(Peer!peerVars)
    BY <1>0, <1>6 DEF Connect
  <1>7. ASSUME NEW c \in Conns, ClientStep(c), UNCHANGED srvVars
        PROVE  PlaceInv' /\ [Peer!PeerStep]_(Peer!peerVars)
    BY <1>7, PlaceAsk, PlaceVanish DEF ClientStep
  <1> QED  BY <1>1, <1>2, <1>3, <1>4, <1>5, <1>6, <1>7 DEF Next, ServerNext

\* Initially there are no calls.
LEMMA InitImplements == Init => PlaceInv /\ Peer!NetInit /\ Peer!PeerInit
  <1> SUFFICES ASSUME Init PROVE PlaceInv /\ Peer!NetInit /\ Peer!PeerInit
    OBVIOUS
  <1>1. /\ tasks = <<>> /\ \A t \in Thread : worker[t] = Idle
        /\ \A d \in Conns : wstrand[d] = <<>> /\ writer[d] = NewWriter /\ up[d] = <<>>
    BY DEF Init, NetInit, ServerInit
  <1>2. \A t \in Thread : worker[t].todo = <<>>
    BY <1>1, BusyType
  <1>3. \A d \in Conns : writer[d].queue = <<>>
    BY <1>1, NewWriterChained
  <1>4. \A t \in Thread : \A d \in Conns : HeldCalls(t, d) = {}
    BY <1>2, PostsFew DEF HeldCalls
  <1>5. \A d \in Conns : /\ UpCalls(d) = {} /\ TaskCalls(d) = {} /\ StrandCalls(d) = {}
                         /\ QueueCalls(d) = {}
    <2>1. \A d \in Conns : CallsTo(wstrand[d]) = {}
      BY <1>1, PostsFew
    <2>2. \A d \in Conns : CallsIn(up[d]) = {} /\ CallsOf(writer[d].queue) = {}
      BY <1>1, <1>3 DEF CallsIn, CallsOf
    <2>3. \A d \in Conns : ConnCalls(tasks, d) = {}
      BY <1>1 DEF ConnCalls
    <2> QED  BY <2>1, <2>2, <2>3 DEF UpCalls, TaskCalls, StrandCalls, QueueCalls
  <1>6. OnceInv
    <2>1. TasksOnce(tasks)
      BY <1>1 DEF TasksOnce
    <2>2. \A t \in Thread : PostsOnce(worker[t].todo)
      BY <1>2, PostsFew
    <2>3. \A d \in Conns : CallsOnce(up[d]) /\ PostsOnce(wstrand[d]) /\ OneEach(writer[d].queue)
      BY <1>1, <1>3, PostsFew DEF CallsOnce, OneEach
    <2> QED  BY <2>1, <2>2, <2>3 DEF OnceInv
  <1>7. PlaceInv
    BY <1>4, <1>5, <1>6 DEF PlaceInv, Apart, Somewhere
  <1>8. \A d \in Conns : Outstanding(d) = {}
    BY <1>4, <1>5, OutstandingIs DEF OutstandingParts
  <1>9. Peer!Conns = Conns
    BY DEF Peer!Conns, Conns
  <1>10. Peer!PeerInit
    BY <1>8, <1>9 DEF Peer!PeerInit, AcceptedCalls
  <1>11. Peer!NetInit
    BY <1>9 DEF Init, NetInit, Peer!NetInit
  <1> QED  BY <1>7, <1>10, <1>11

(***************************************************************************)
(* The server is a peer of rpc::client: it answers what it was called for, *)
(* on the connection of the call, with its id and an outcome of its        *)
(* argument, at most once, and never a notification.                       *)
(***************************************************************************)
THEOREM ServerImplementsRpcPeer == Spec => ImplementsRpcPeer
  <1>1. Init => TypeInv /\ PlaceInv /\ Peer!NetInit /\ Peer!PeerInit
    BY TypeInitially, InitImplements
  <1>2. TypeInv /\ PlaceInv /\ [Next]_vars =>
           TypeInv' /\ PlaceInv' /\ [Peer!PeerStep]_(Peer!peerVars)
    BY TypeStep, StepImplements
  <1> QED  BY <1>1, <1>2, PTL DEF Spec, ImplementsRpcPeer, Peer!PeerSpec
=============================================================================
