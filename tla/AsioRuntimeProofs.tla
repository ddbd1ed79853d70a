-------------------------- MODULE AsioRuntimeProofs --------------------------
(***************************************************************************)
(* Proofs about the io_service, the strand and the reactor, for every      *)
(* number of threads and whatever calls their handlers make.               *)
(*                                                                         *)
(* What the invariants say is that things are conserved: the operations,   *)
(* the strand's own operation, the reactor's task and the descriptor's     *)
(* operation move between the queues, the threads' own queues and the      *)
(* stacks, and none of them is lost or doubled on the way.                 *)
(***************************************************************************)
EXTENDS AsioRuntime, StreamsProofs, FiniteSetTheorems, FunctionTheorems

Labels == {"new", "start", "loop", "wait", "running", "flush", "returned",
           "poll", "block", "task_done"}

UserCode(H) == [call : {"handler"}, h : H, todo : Seq(LibraryCall)]

\* What is in the queues, and what is on the stacks.
Op == {Task, StrandOp} \cup UserCode(Handlers) \cup [call : {"wrapped"}, h : Handlers]
      \cup [call : {"perform"}, events : SUBSET Kind]

Frame == Op \cup UserCode(Outside) \cup {[call |-> "dispatched"], [call |-> "stop"]}
         \cup [call : {"enqueue"}, ops : Seq(Op)]
         \cup [call : {"await"}, k : Kind, h : Handlers]

Types ==
    /\ op_queue \in Seq(Op) /\ outstanding_work \in Int
    /\ stopped \in BOOLEAN /\ task_interrupted \in BOOLEAN
    /\ signalled \in BOOLEAN /\ interrupt \in BOOLEAN
    /\ waiting \subseteq Thread /\ notified \subseteq Thread
    /\ owes \in [Actor -> BOOLEAN]
    /\ at \in [Thread -> Labels]
    /\ private \in [Thread -> Seq(Op)] /\ private_work \in [Thread -> Nat]
    /\ frames \in [Actor -> Seq(Frame)]
    /\ strand \in [locked : BOOLEAN, waiting : Seq(Handlers), ready : Seq(Handlers)]
    /\ queued \in [Kind -> Seq(Handlers)] /\ registered \subseteq Kind
    /\ closed \in BOOLEAN /\ avail \in [Kind -> Nat] /\ edge \in BOOLEAN

Entries == {"strand", "dispatched"}

(***************************************************************************)
(* A stack: only its top is a library call that is about to change the     *)
(* queues, and only its bottom an operation; above the place where it      *)
(* entered the strand there is user code.  Threads that are not in run()   *)
(* never enter the strand.                                                 *)
(***************************************************************************)
Below == Entries \cup {"handler", "wrapped"}
Above == {"dispatched", "handler", "enqueue", "await"}
Inside == [call : {"enqueue"}, ops : Seq(Op)] \cup [call : {"await"}, k : Kind, h : Handlers]
          \cup UserCode(Handlers)

StackOK(s) ==
    /\ \A i \in 1..(Len(s) - 1) : s[i].call \in Below
    /\ \A i \in 2..Len(s) : s[i].call \in Above
    /\ \A i, j \in 1..Len(s) : i < j /\ s[i].call \in Entries => s[j] \in Inside

StackInv ==
    /\ \A x \in Actor : StackOK(frames[x])
    /\ \A x \in Outside : \A i \in 1..Len(frames[x]) :
          frames[x][i].call \in {"handler", "enqueue", "await"}

\* A thread in run() has a stack while it runs an operation, and otherwise
\* only to stop the others.
ThreadInv ==
    /\ owner = Nobody \/ (owner \in Thread /\ at[owner] = "loop")
    /\ waiting \cap notified = {}
    /\ \A t \in Thread :
          /\ (at[t] = "wait") <=> (t \in waiting \cup notified)
          /\ at[t] # "running" /\ frames[t] # <<>> =>
                frames[t] = <<[call |-> "stop"]>> /\ at[t] \in {"loop", "flush", "returned"}
          /\ at[t] \in {"new", "start", "loop", "wait", "returned", "poll", "block"} => private[t] = <<>>
          /\ private_work[t] <= Count(Counted, private[t])
          /\ at[t] # "running" => private_work[t] = 0

TypeInv == Types /\ StackInv /\ ThreadInv

(***************************************************************************)
(* The task is in the queue or with the thread that polls.  It takes the   *)
(* descriptor's operation to the queue, in front of itself, so that it is  *)
(* taken again only after that has left.                                   *)
(***************************************************************************)
Polling(t) == IF at[t] \in {"poll", "block", "task_done"} THEN 1 ELSE 0

TaskOrder(q) ==
    /\ Count({"perform"}, q) <= 1
    /\ Count({"perform"}, q) = 1 => Count({"task"}, q) = 1
    /\ \A i, j \in 1..Len(q) : q[i].call = "task" /\ q[j].call = "perform" => j < i

TaskInv ==
    /\ Count({"task"}, op_queue) + Total([t \in Thread |-> Polling(t)]) = 1
    /\ TaskOrder(op_queue)
    /\ \A t \in Thread :
          /\ Count({"task"}, private[t]) = 0
          /\ Count({"perform"}, private[t]) <= Polling(t)
    /\ \A x \in Actor : BeingQueued({"task", "perform"}, x) = 0

(***************************************************************************)
(* The lock of the strand is at one place: with the thread that runs its   *)
(* handlers, or with its operation on the way to such a thread.            *)
(***************************************************************************)
Locks ==
    Count({"strand"}, op_queue)
    + Total([t \in Thread |-> Count({"strand"}, private[t])])
    + Total([x \in Actor |-> Count(Entries, frames[x]) + BeingQueued({"strand"}, x)])

StrandInv ==
    /\ Locks = IF strand.locked THEN 1 ELSE 0
    /\ ~strand.locked => strand.ready = <<>> /\ strand.waiting = <<>>

-----------------------------------------------------------------------------
(***************************************************************************)
(* Counting.                                                               *)
(***************************************************************************)
Places(names, q) == {i \in DOMAIN q : q[i].call \in names}

\* Moving all members of a set of numbers up keeps their number.
LEMMA ShiftedCount ==
    ASSUME NEW A \in SUBSET Nat, NEW B \in SUBSET Nat, NEW n \in Nat, IsFiniteSet(A),
           \A i \in Nat : i \in B <=> i - n \in A
    PROVE  IsFiniteSet(B) /\ Cardinality(B) = Cardinality(A)
  <1> DEFINE f == [i \in A |-> i + n]
  <1>1. f \in [A -> B] /\ \A a, b \in A : f[a] = f[b] => a = b
    OBVIOUS
  <1>2. \A b \in B : \E a \in A : f[a] = b
    <2> SUFFICES ASSUME NEW b \in B PROVE \E a \in A : f[a] = b
      OBVIOUS
    <2>1. b - n \in A /\ f[b - n] = b
      OBVIOUS
    <2> QED  BY <2>1
  <1>3. f \in Bijection(A, B)
    BY <1>1, <1>2, Fun_IsBij
  <1> QED  BY <1>3, FS_Bijection DEF ExistsBijection

\* A count is a number, and it is positive where there is one to count.
LEMMA CountType ==
    ASSUME NEW S, NEW q \in Seq(S), NEW names
    PROVE  /\ Places(names, q) \in SUBSET Nat /\ IsFiniteSet(Places(names, q))
           /\ Count(names, q) = Cardinality(Places(names, q))
           /\ Count(names, q) \in Nat
           /\ Count(names, q) = 0 <=> \A i \in 1..Len(q) : q[i].call \notin names
  <1>1. DOMAIN q = 1..Len(q) /\ Len(q) \in Nat
    OBVIOUS
  <1>2. IsFiniteSet(1..Len(q))
    BY <1>1, FS_Interval
  <1>3. Places(names, q) \in SUBSET (1..Len(q))
    BY <1>1 DEF Places
  <1>4. IsFiniteSet(Places(names, q))
    BY <1>2, <1>3, FS_Subset
  <1>5. Count(names, q) = Cardinality(Places(names, q))
    BY DEF Count, Places
  <1>6. Places(names, q) = {} <=> \A i \in 1..Len(q) : q[i].call \notin names
    BY <1>1 DEF Places
  <1>7. Cardinality(Places(names, q)) \in Nat
    BY <1>4, FS_CardinalityType
  <1>8. Cardinality(Places(names, q)) = 0 <=> Places(names, q) = {}
    BY <1>4, FS_EmptySet
  <1>9. Places(names, q) \in SUBSET Nat
    BY <1>1, <1>3
  <1>10. Count(names, q) \in Nat
    BY <1>5, <1>7
  <1>11. Count(names, q) = 0 <=> \A i \in 1..Len(q) : q[i].call \notin names
    BY <1>5, <1>6, <1>8
  <1> QED  BY <1>4, <1>5, <1>9, <1>10, <1>11, Zenon

LEMMA CountEmpty ==
    ASSUME NEW names
    PROVE  Count(names, <<>>) = 0
  <1>1. {i \in DOMAIN <<>> : <<>>[i].call \in names} = {}
    OBVIOUS
  <1> QED  BY <1>1, FS_EmptySet DEF Count

LEMMA CountOne ==
    ASSUME NEW S, NEW f \in S, NEW names
    PROVE  Count(names, <<f>>) = IF f.call \in names THEN 1 ELSE 0
  <1>1. <<f>> \in Seq(S) /\ DOMAIN <<f>> = {1} /\ <<f>>[1] = f
    OBVIOUS
  <1>2. Places(names, <<f>>) = IF f.call \in names THEN {1} ELSE {}
    BY <1>1 DEF Places
  <1>3. Cardinality({1}) = 1 /\ Cardinality({}) = 0
    BY FS_EmptySet, FS_Singleton
  <1> QED  BY <1>1, <1>2, <1>3, CountType

LEMMA CountConcat ==
    ASSUME NEW S, NEW q \in Seq(S), NEW r \in Seq(S), NEW names
    PROVE  Count(names, q \o r) = Count(names, q) + Count(names, r)
  <1> DEFINE n == Len(q)
             A == Places(names, q)
             B == Places(names, r)
             C == {i \in Nat : i - n \in B}
  <1>1. /\ q \o r \in Seq(S) /\ n \in Nat /\ Len(r) \in Nat
        /\ DOMAIN q = 1..n /\ DOMAIN r = 1..Len(r) /\ DOMAIN (q \o r) = 1..(n + Len(r))
        /\ \A i \in 1..(n + Len(r)) : (q \o r)[i] = IF i <= n THEN q[i] ELSE r[i - n]
    BY ConcatProperties
  <1>2. /\ A \in SUBSET Nat /\ IsFiniteSet(A) /\ Count(names, q) = Cardinality(A)
        /\ B \in SUBSET Nat /\ IsFiniteSet(B) /\ Count(names, r) = Cardinality(B)
    BY CountType
  <1>3. Count(names, q \o r) = Cardinality(Places(names, q \o r))
    BY <1>1, CountType
  <1>4. IsFiniteSet(C) /\ Cardinality(C) = Cardinality(B)
    <2>1. C \in SUBSET Nat /\ \A i \in Nat : i \in C <=> i - n \in B
      OBVIOUS
    <2> HIDE DEF B, C, n
    <2> QED  BY <1>1, <1>2, <2>1, ShiftedCount
  <1>5. A \cap C = {}
    BY <1>1 DEF Places
  <1>6. Places(names, q \o r) = A \cup C
    <2>1. ASSUME NEW i \in Places(names, q \o r) PROVE i \in A \cup C
      <3>1. i \in 1..(n + Len(r)) /\ (q \o r)[i].call \in names
        BY <1>1 DEF Places
      <3>2. CASE i <= n
        BY <1>1, <3>1, <3>2 DEF Places
      <3>3. CASE ~(i <= n)
        <4>1. i - n \in 1..Len(r) /\ (q \o r)[i] = r[i - n]
          BY <1>1, <3>1, <3>3
        <4> QED  BY <1>1, <3>1, <4>1 DEF Places
      <3> QED  BY <3>2, <3>3
    <2>2. ASSUME NEW i \in A PROVE i \in Places(names, q \o r)
      <3>1. i \in 1..n /\ q[i].call \in names
        BY <1>1 DEF Places
      <3>2. i \in 1..(n + Len(r)) /\ (q \o r)[i] = q[i]
        BY <1>1, <3>1
      <3> QED  BY <1>1, <3>1, <3>2 DEF Places
    <2>3. ASSUME NEW i \in C PROVE i \in Places(names, q \o r)
      <3>1. i \in Nat /\ i - n \in 1..Len(r) /\ r[i - n].call \in names
        BY <1>1 DEF Places
      <3>2. i \in 1..(n + Len(r)) /\ (q \o r)[i] = r[i - n]
        BY <1>1, <3>1
      <3> QED  BY <1>1, <3>1, <3>2 DEF Places
    <2> QED  BY <2>1, <2>2, <2>3
  <1>7. /\ Cardinality(A \cup C) = Cardinality(A) + Cardinality(C) - Cardinality(A \cap C)
        /\ Cardinality({}) = 0 /\ Cardinality(A) \in Nat /\ Cardinality(C) \in Nat
    BY <1>2, <1>4, FS_Union, FS_EmptySet, FS_CardinalityType
  <1>8. Count(names, q \o r) = Cardinality(A) + Cardinality(C) - Cardinality({})
    BY <1>3, <1>5, <1>6, <1>7
  <1> HIDE DEF A, B, C
  <1> QED  BY <1>2, <1>4, <1>7, <1>8

\* The head of a sequence, or its last element, counts by itself.
LEMMA CountHead ==
    ASSUME NEW S, NEW q \in Seq(S), q # <<>>, NEW names
    PROVE  Count(names, q) = Count(names, Tail(q)) + (IF Head(q).call \in names THEN 1 ELSE 0)
  <1>1. q = <<Head(q)>> \o Tail(q) /\ Head(q) \in S /\ Tail(q) \in Seq(S) /\ <<Head(q)>> \in Seq(S)
    BY MoveFront, HeadTailParts
  <1>2. Count(names, <<Head(q)>> \o Tail(q)) = Count(names, <<Head(q)>>) + Count(names, Tail(q))
    BY <1>1, CountConcat
  <1>3. Count(names, <<Head(q)>>) = IF Head(q).call \in names THEN 1 ELSE 0
    BY <1>1, CountOne
  <1>4. Count(names, Tail(q)) \in Nat
    BY <1>1, CountType
  <1>5. Count(names, q) = Count(names, <<Head(q)>>) + Count(names, Tail(q))
    BY <1>1, <1>2
  <1> QED  BY <1>3, <1>4, <1>5

Front(s) == SubSeq(s, 1, Len(s) - 1)

LEMMA FrontParts ==
    ASSUME NEW S, NEW s \in Seq(S), s # <<>>
    PROVE  /\ Len(s) \in Nat /\ Len(s) >= 1 /\ DOMAIN s = 1..Len(s)
           /\ s[Len(s)] \in S
           /\ Front(s) \in Seq(S) /\ Len(Front(s)) = Len(s) - 1
           /\ DOMAIN Front(s) = 1..(Len(s) - 1)
           /\ \A i \in 1..(Len(s) - 1) : Front(s)[i] = s[i]
           /\ s = Front(s) \o <<s[Len(s)]>>
  <1>1. Len(s) \in Nat /\ Len(s) >= 1 /\ DOMAIN s = 1..Len(s) /\ s[Len(s)] \in S
    BY EmptySeq
  <1>2. /\ Front(s) \in Seq(S) /\ Len(Front(s)) = Len(s) - 1
        /\ \A i \in 1..(Len(s) - 1) : Front(s)[i] = s[i]
    BY <1>1, SubSeqProperties DEF Front
  <1>3. s = Front(s) \o <<s[Len(s)]>>
    <2> DEFINE f == Front(s)
               e == <<s[Len(s)]>>
               t == f \o e
    <2>1. e \in Seq(S) /\ Len(e) = 1 /\ e[1] = s[Len(s)]
      BY <1>1
    <2>2. f \in Seq(S) /\ Len(f) = Len(s) - 1 /\ \A i \in 1..(Len(s) - 1) : f[i] = s[i]
      BY <1>2
    <2> HIDE DEF f, e
    <2>3. /\ t \in Seq(S) /\ Len(t) = Len(f) + Len(e)
          /\ \A i \in 1..(Len(f) + Len(e)) : t[i] = IF i <= Len(f) THEN f[i] ELSE e[i - Len(f)]
      BY <2>1, <2>2, ConcatProperties
    <2> HIDE DEF t
    <2>4. Len(t) = Len(s) /\ \A i \in 1..Len(s) : t[i] = s[i]
      <3>1. ASSUME NEW i \in 1..Len(s) PROVE t[i] = s[i]
        <4> DEFINE n == Len(s)
        <4>0. n \in Nat /\ n >= 1 /\ i \in 1..n /\ Len(f) = n - 1 /\ Len(e) = 1
          BY <1>1, <2>1, <2>2
        <4> HIDE DEF n
        <4>1. i \in 1..(Len(f) + Len(e))
          BY <4>0
        <4>2. CASE i <= Len(f)
          <5>1. t[i] = f[i] /\ i \in 1..(n - 1)
            BY <2>3, <4>0, <4>1, <4>2
          <5> QED  BY <2>2, <5>1 DEF n
        <4>3. CASE ~(i <= Len(f))
          <5>1. i = n /\ i - Len(f) = 1
            BY <4>0, <4>3
          <5>2. t[i] = e[i - Len(f)]
            BY <2>3, <4>1, <4>3
          <5> QED  BY <2>1, <5>1, <5>2 DEF n
        <4> QED  BY <4>2, <4>3
      <3> QED  BY <1>1, <2>1, <2>2, <2>3, <3>1
    <2>5. t = s
      BY <2>3, <2>4, SeqEqual
    <2> QED  BY <2>5 DEF t, f, e
  <1>4. DOMAIN Front(s) = 1..(Len(s) - 1)
    BY <1>2
  <1> HIDE DEF Front
  <1> QED  BY <1>1, <1>2, <1>3, <1>4

LEMMA CountFront ==
    ASSUME NEW S, NEW s \in Seq(S), s # <<>>, NEW names
    PROVE  Count(names, s) = Count(names, Front(s)) + (IF s[Len(s)].call \in names THEN 1 ELSE 0)
  <1> DEFINE l == s[Len(s)]
  <1>1. l \in S /\ Front(s) \in Seq(S) /\ s = Front(s) \o <<l>>
    BY FrontParts
  <1>2. <<l>> \in Seq(S)
    BY <1>1
  <1> HIDE DEF l
  <1>3. Count(names, Front(s) \o <<l>>) = Count(names, Front(s)) + Count(names, <<l>>)
    BY <1>1, <1>2, CountConcat
  <1>4. Count(names, <<l>>) = IF l.call \in names THEN 1 ELSE 0
    BY <1>1, CountOne
  <1>5. Count(names, s) = Count(names, Front(s)) + Count(names, <<l>>)
    BY <1>1, <1>3
  <1> QED  BY <1>4, <1>5 DEF l

\* The set whose cardinality a total is, a row for each argument.
Row(f, x) == {x} \X (1..f[x])
Area(f) == UNION {Row(f, x) : x \in DOMAIN f}

LEMMA RowCount ==
    ASSUME NEW S, NEW f \in [S -> Nat], NEW x \in S
    PROVE  IsFiniteSet(Row(f, x)) /\ Cardinality(Row(f, x)) = f[x]
  <1>1. IsFiniteSet({x}) /\ Cardinality({x}) = 1
    BY FS_Singleton
  <1>2. f[x] \in Nat /\ 1 \in Int /\ f[x] \in Int
    OBVIOUS
  <1>3. /\ IsFiniteSet(1..f[x])
        /\ Cardinality(1..f[x]) = IF 1 > f[x] THEN 0 ELSE f[x] - 1 + 1
    BY <1>2, FS_Interval
  <1>4. Cardinality(1..f[x]) = f[x]
    BY <1>2, <1>3
  <1>5. IsFiniteSet(Row(f, x)) /\ Cardinality(Row(f, x)) = Cardinality({x}) * Cardinality(1..f[x])
    BY <1>1, <1>3, FS_Product DEF Row
  <1> QED  BY <1>1, <1>2, <1>4, <1>5

LEMMA AreaIs ==
    ASSUME NEW S, IsFiniteSet(S), NEW f \in [S -> Nat]
    PROVE  /\ Area(f) = {p \in S \X Nat : p[2] \in 1..f[p[1]]}
           /\ IsFiniteSet(Area(f))
           /\ Total(f) = Cardinality(Area(f)) /\ Total(f) \in Nat
  <1>1. Total(f) = Cardinality(Area(f))
    BY DEF Total, Area, Row
  <1>2. Area(f) = {p \in S \X Nat : p[2] \in 1..f[p[1]]}
    BY DEF Area, Row
  <1>3. IsFiniteSet(Area(f))
    <2> DEFINE rows == [x \in S |-> Row(f, x)]
               R == {Row(f, x) : x \in S}
    <2>1. rows \in Surjection(S, R)
      BY DEF Surjection
    <2>2. IsFiniteSet(R)
      BY <2>1, FS_Surjection
    <2>3. \A T \in R : IsFiniteSet(T)
      BY RowCount
    <2>4. Area(f) = UNION R
      BY DEF Area
    <2> HIDE DEF R
    <2> QED  BY <2>2, <2>3, <2>4, FS_UNION
  <1> QED  BY <1>1, <1>2, <1>3, FS_CardinalityType

\* A total changes by as much as one of its values.
LEMMA TotalDiffers ==
    ASSUME NEW S, IsFiniteSet(S), NEW f \in [S -> Nat], NEW g \in [S -> Nat],
           NEW x \in S, \A y \in S : y # x => g[y] = f[y]
    PROVE  /\ Total(f) \in Nat /\ Total(g) \in Nat
           /\ f[x] \in Nat /\ g[x] \in Nat
           /\ Total(f) + g[x] = Total(g) + f[x]
           /\ f[x] <= Total(f)
  <1> DEFINE R == {p \in S \X Nat : p[1] # x /\ p[2] \in 1..f[p[1]]}
  <1>1. Area(f) = R \cup Row(f, x) /\ R \cap Row(f, x) = {}
    BY AreaIs DEF Row
  <1>2. Area(g) = R \cup Row(g, x) /\ R \cap Row(g, x) = {}
    <2>1. Area(g) = {p \in S \X Nat : p[2] \in 1..g[p[1]]}
      BY AreaIs
    <2>2. R = {p \in S \X Nat : p[1] # x /\ p[2] \in 1..g[p[1]]}
      OBVIOUS
    <2> QED  BY <2>1, <2>2 DEF Row
  <1>3. /\ IsFiniteSet(Area(f)) /\ Total(f) = Cardinality(Area(f)) /\ Total(f) \in Nat
        /\ Total(g) = Cardinality(Area(g)) /\ Total(g) \in Nat
    BY AreaIs
  <1> HIDE DEF R
  <1>4. IsFiniteSet(R)
    BY <1>1, <1>3, FS_Subset
  <1>5. /\ IsFiniteSet(Row(f, x)) /\ Cardinality(Row(f, x)) = f[x]
        /\ IsFiniteSet(Row(g, x)) /\ Cardinality(Row(g, x)) = g[x]
    BY RowCount
  <1>6. Cardinality(R) \in Nat /\ Cardinality({}) = 0
    BY <1>4, FS_CardinalityType, FS_EmptySet
  <1>7. Cardinality(R \cup Row(f, x)) = Cardinality(R) + f[x] - Cardinality({})
    BY <1>1, <1>4, <1>5, FS_Union
  <1>8. Cardinality(R \cup Row(g, x)) = Cardinality(R) + g[x] - Cardinality({})
    BY <1>2, <1>4, <1>5, FS_Union
  <1>9. f[x] \in Nat /\ g[x] \in Nat
    OBVIOUS
  <1>10. Total(f) = Cardinality(R) + f[x] /\ Total(g) = Cardinality(R) + g[x]
    BY <1>1, <1>2, <1>3, <1>6, <1>7, <1>8, <1>9
  <1> QED  BY <1>3, <1>6, <1>9, <1>10

\* A total of nothing; one that is nothing but at x; of larger values.
LEMMA TotalZero ==
    ASSUME NEW S, IsFiniteSet(S), NEW f \in [S -> Nat], \A y \in S : f[y] = 0
    PROVE  Total(f) = 0
  <1>1. Area(f) = {} /\ Total(f) = Cardinality(Area(f))
    BY AreaIs
  <1> QED  BY <1>1, FS_EmptySet

LEMMA TotalTwo ==
    ASSUME NEW S, IsFiniteSet(S), NEW f \in [S -> Nat], NEW x \in S, NEW y \in S, x # y
    PROVE  f[x] + f[y] <= Total(f)
  <1> DEFINE g == [f EXCEPT ![x] = 0]
  <1>1. g \in [S -> Nat] /\ g[x] = 0 /\ g[y] = f[y] /\ \A z \in S : z # x => g[z] = f[z]
    OBVIOUS
  <1> HIDE DEF g
  <1>2. Total(f) + g[x] = Total(g) + f[x] /\ Total(f) \in Nat /\ Total(g) \in Nat
    BY <1>1, TotalDiffers
  <1>3. g[y] <= Total(g)
    BY <1>1, TotalDiffers
  <1>4. f[x] \in Nat /\ f[y] \in Nat
    OBVIOUS
  <1> QED  BY <1>1, <1>2, <1>3, <1>4

LEMMA TotalLess ==
    ASSUME NEW S, IsFiniteSet(S), NEW f \in [S -> Nat], NEW g \in [S -> Nat],
           \A y \in S : f[y] <= g[y]
    PROVE  Total(f) <= Total(g)
  <1>1. Area(f) \subseteq Area(g)
    <2>1. Area(f) = {p \in S \X Nat : p[2] \in 1..f[p[1]]}
      BY AreaIs
    <2>2. Area(g) = {p \in S \X Nat : p[2] \in 1..g[p[1]]}
      BY AreaIs
    <2>3. ASSUME NEW p \in S \X Nat, p[2] \in 1..f[p[1]] PROVE p[2] \in 1..g[p[1]]
      <3>1. p[1] \in S /\ p[2] \in Nat
        OBVIOUS
      <3>2. f[p[1]] \in Nat /\ g[p[1]] \in Nat /\ f[p[1]] <= g[p[1]]
        BY <3>1
      <3> QED  BY <2>3, <3>1, <3>2
    <2> QED  BY <2>1, <2>2, <2>3
  <1>2. /\ IsFiniteSet(Area(g))
        /\ Total(f) = Cardinality(Area(f)) /\ Total(g) = Cardinality(Area(g))
    BY AreaIs
  <1> QED  BY <1>1, <1>2, FS_Subset

-----------------------------------------------------------------------------
(***************************************************************************)
(* Operations and calls.                                                   *)
(***************************************************************************)
OpNames == {"task", "strand", "handler", "wrapped", "perform"}

LEMMA OpIs ==
    ASSUME NEW o \in Op
    PROVE  /\ o.call \in OpNames
           /\ o.call = "task" <=> o = Task
           /\ o.call = "strand" <=> o = StrandOp
           /\ o.call = "handler" => o \in UserCode(Handlers)
           /\ o.call = "wrapped" => o.h \in Handlers
           /\ o.call = "perform" => o.events \in SUBSET Kind
           /\ o \in Frame
  BY DEF Op, OpNames, Task, StrandOp, UserCode, Frame

LEMMA OpsAre ==
    /\ Task \in Op /\ Task.call = "task"
    /\ StrandOp \in Op /\ StrandOp.call = "strand"
    /\ \A h \in Handlers : /\ Wrapped(h) \in Op /\ Wrapped(h).call = "wrapped" /\ Wrapped(h).h = h
                           /\ Handler(h) \in UserCode(Handlers) /\ Handler(h) \in Op
                           /\ Handler(h).call = "handler" /\ Handler(h).h = h
    /\ \A e \in SUBSET Kind : LET o == [call |-> "perform", events |-> e]
                              IN  o \in Op /\ o.call = "perform"
  <1>1. \A h \in Handlers : Script[h] \in Seq(LibraryCall)
    BY ScriptAssumption DEF Handlers
  <1> QED  BY <1>1 DEF Op, Task, StrandOp, Wrapped, Handler, UserCode

LEMMA FrameIs ==
    ASSUME NEW f \in Frame
    PROVE  /\ f.call \in OpNames \cup {"dispatched", "stop", "enqueue", "await"}
           /\ f.call = "handler" => f \in UserCode(Handlers) \cup UserCode(Outside)
           /\ f.call = "wrapped" => f.h \in Handlers
           /\ f.call = "perform" => f.events \in SUBSET Kind
           /\ f.call = "enqueue" => f.ops \in Seq(Op)
           /\ f.call = "await" => f.k \in Kind /\ f.h \in Handlers
           /\ f.call = "stop" => f = [call |-> "stop"]
  <1>1. CASE f \in Op
    BY <1>1, OpIs DEF OpNames
  <1>2. CASE f \notin Op
    BY <1>2 DEF Frame, UserCode, OpNames
  <1> QED  BY <1>1, <1>2

LEMMA FramesAre ==
    /\ Op \subseteq Frame
    /\ [call |-> "dispatched"] \in Frame /\ [call |-> "stop"] \in Frame
    /\ \A q \in Seq(Op) : LET f == [call |-> "enqueue", ops |-> q]
                          IN  f \in Frame /\ f.call = "enqueue" /\ f.ops = q
    /\ \A k \in Kind, h \in Handlers : LET f == [call |-> "await", k |-> k, h |-> h]
                                       IN  f \in Frame /\ f.call = "await" /\ f.k = k /\ f.h = h
    /\ \A x \in Outside : Handler(x) \in UserCode(Outside) /\ Handler(x) \in Frame
    /\ UserCode(Handlers) \subseteq Frame /\ UserCode(Outside) \subseteq Frame
  <1>1. \A x \in Outside : Handler(x) \in UserCode(Outside)
    BY ScriptAssumption DEF Handler, UserCode
  <1> QED  BY <1>1 DEF Frame, Op

\* User code that makes a call goes on with the next one.
LEMMA CodeIs ==
    ASSUME NEW H, NEW f \in UserCode(H), f.todo # <<>>
    PROVE  LET c == Head(f.todo)
               g == [f EXCEPT !.todo = Tail(@)]
           IN  /\ g \in UserCode(H) /\ g.call = "handler" /\ g.h = f.h
               /\ c \in LibraryCall
               /\ c.do \in {"io_post", "post", "dispatch", "async"} => c.h \in Handlers
               /\ c.do = "async" => c.k \in Kind
               /\ c.do = "thread" => c.t \in Thread
  <1>1. f.todo \in Seq(LibraryCall)
    BY DEF UserCode
  <1>2. Head(f.todo) \in LibraryCall /\ Tail(f.todo) \in Seq(LibraryCall)
    BY <1>1, HeadTailParts
  <1>3. LET g == [f EXCEPT !.todo = Tail(@)]
        IN  g \in UserCode(H) /\ g.call = "handler" /\ g.h = f.h
    BY <1>2 DEF UserCode
  <1>4. \A c \in LibraryCall :
          /\ c.do \in {"io_post", "post", "dispatch", "async"} => c.h \in Handlers
          /\ c.do = "async" => c.k \in Kind
          /\ c.do = "thread" => c.t \in Thread
    BY DEF LibraryCall
  <1> QED  BY <1>2, <1>3, <1>4

-----------------------------------------------------------------------------
(***************************************************************************)
(* Stacks.  A step takes the top off a stack and puts calls on it.         *)
(***************************************************************************)
\* Where x may go on: nothing on its stack is waiting for a lock.
Open(s) == s \in Seq(Frame) /\ StackOK(s) /\ \A i \in 1..Len(s) : s[i].call \in Below

Entered(s) == \E i \in 1..Len(s) : s[i].call \in Entries

\* The operations that the innermost call is about to queue.
Pending(s) == IF s # <<>> /\ s[Len(s)].call = "enqueue" THEN s[Len(s)].ops ELSE <<>>

\* The innermost call returns.
LEMMA PopStack ==
    ASSUME NEW s \in Seq(Frame), s # <<>>, StackOK(s)
    PROVE  /\ s[Len(s)] \in Frame /\ Open(Front(s)) /\ Front(s) \in Seq(Frame)
           /\ Len(s) \in Nat /\ Len(Front(s)) = Len(s) - 1
           /\ \A i \in 1..(Len(s) - 1) : Front(s)[i] = s[i]
           /\ Entered(Front(s)) => s[Len(s)] \in Inside
           /\ s[Len(s)].call \notin Above => Len(s) = 1 /\ Front(s) = <<>>
  <1> DEFINE f == Front(s)
             n == Len(s)
  <1>1. /\ n \in Nat /\ n >= 1 /\ s[n] \in Frame
        /\ f \in Seq(Frame) /\ Len(f) = n - 1
        /\ \A i \in 1..(n - 1) : f[i] = s[i]
    BY FrontParts
  <1> HIDE DEF f
  <1>2. StackOK(f)
    BY <1>1 DEF StackOK
  <1>3. \A i \in 1..Len(f) : f[i].call \in Below
    BY <1>1 DEF StackOK
  <1>4. Entered(f) => s[n] \in Inside
    BY <1>1 DEF Entered, StackOK
  <1>5. s[n].call \notin Above => n = 1 /\ f = <<>>
    BY <1>1, EmptySeq DEF StackOK
  <1> QED  BY <1>1, <1>2, <1>3, <1>4, <1>5 DEF Open, f, n

\* A call is made.
LEMMA AddStack ==
    ASSUME NEW s, Open(s), NEW f \in Frame,
           s # <<>> => f.call \in Above,
           Entered(s) => f \in Inside
    PROVE  LET t == s \o <<f>>
           IN  /\ t \in Seq(Frame) /\ t # <<>> /\ StackOK(t)
               /\ Len(s) \in Nat /\ Len(t) = Len(s) + 1 /\ t[Len(t)] = f
               /\ \A i \in 1..Len(s) : t[i] = s[i]
               /\ f.call \in Below => Open(t)
               /\ Entered(t) <=> Entered(s) \/ f.call \in Entries
               /\ \A names : Count(names, t) = Count(names, s) + (IF f.call \in names THEN 1 ELSE 0)
               /\ Pending(t) = IF f.call = "enqueue" THEN f.ops ELSE <<>>
  <1> DEFINE t == s \o <<f>>
             n == Len(s)
  <1>0. /\ s \in Seq(Frame) /\ StackOK(s) /\ \A i \in 1..Len(s) : s[i].call \in Below
        /\ <<f>> \in Seq(Frame) /\ Len(<<f>>) = 1 /\ <<f>>[1] = f
    BY DEF Open
  <1>1. /\ t \in Seq(Frame) /\ n \in Nat /\ Len(t) = n + 1 /\ t # <<>>
        /\ \A i \in 1..n : t[i] = s[i]
        /\ t[n + 1] = f
    <2>1. /\ t \in Seq(Frame) /\ n \in Nat /\ Len(t) = n + 1
          /\ \A i \in 1..(n + 1) : t[i] = IF i <= n THEN s[i] ELSE <<f>>[i - n]
      BY <1>0, ConcatProperties, LenProperties
    <2> HIDE DEF t, n
    <2>2. t[n + 1] = <<f>>[1]
      <3>1. n + 1 \in 1..(n + 1) /\ ~(n + 1 <= n) /\ (n + 1) - n = 1
        BY <2>1
      <3> QED  BY <2>1, <3>1
    <2>3. t # <<>>
      BY <2>1, EmptySeq
    <2> QED  BY <1>0, <2>1, <2>2, <2>3
  <1>2. \A names : Count(names, t) = Count(names, s) + (IF f.call \in names THEN 1 ELSE 0)
    <2> SUFFICES ASSUME NEW names
                 PROVE  Count(names, t) = Count(names, s) + (IF f.call \in names THEN 1 ELSE 0)
      OBVIOUS
    <2>1. Count(names, t) = Count(names, s) + Count(names, <<f>>)
      BY <1>0, CountConcat
    <2>2. Count(names, <<f>>) = IF f.call \in names THEN 1 ELSE 0
      BY CountOne
    <2> QED  BY <2>1, <2>2
  <1> HIDE DEF t
  <1>3. s = <<>> \/ n >= 1
    BY <1>0, <1>1, EmptySeq
  <1>4. \A i \in 1..(Len(t) - 1) : t[i].call \in Below
    BY <1>0, <1>1
  <1>5. \A i \in 2..Len(t) : t[i].call \in Above
    <2> SUFFICES ASSUME NEW i \in 2..Len(t) PROVE t[i].call \in Above
      OBVIOUS
    <2>1. CASE i = n + 1
      <3>1. n # 0
        BY <1>1, <2>1
      <3>2. s # <<>>
        BY <3>1, EmptySeq
      <3> QED  BY <1>1, <2>1, <3>2
    <2>2. CASE i # n + 1
      BY <1>0, <1>1, <2>2 DEF StackOK
    <2> QED  BY <2>1, <2>2
  <1>6. \A i, j \in 1..Len(t) : i < j /\ t[i].call \in Entries => t[j] \in Inside
    BY <1>0, <1>1 DEF StackOK, Entered
  <1>7. StackOK(t)
    BY <1>4, <1>5, <1>6 DEF StackOK
  <1>8. f.call \in Below => Open(t)
    BY <1>0, <1>1, <1>7 DEF Open
  <1>9. Entered(t) <=> Entered(s) \/ f.call \in Entries
    BY <1>1 DEF Entered
  <1>10. Pending(t) = IF f.call = "enqueue" THEN f.ops ELSE <<>>
    BY <1>1 DEF Pending
  <1> QED  BY <1>1, <1>2, <1>7, <1>8, <1>9, <1>10 DEF t, n

LEMMA TwoMore ==
    ASSUME NEW S, NEW s \in Seq(S), NEW a \in S, NEW b \in S
    PROVE  s \o <<a, b>> = (s \o <<a>>) \o <<b>>
  <1>1. <<a>> \in Seq(S) /\ <<b>> \in Seq(S)
    OBVIOUS
  <1>2. Append(<<a>>, b) = <<a>> \o <<b>>
    BY <1>1, AppendIsConcat
  <1>3. Append(<<a>>, b) = <<a, b>>
    BY AppendToOne
  <1>4. (s \o <<a>>) \o <<b>> = s \o (<<a>> \o <<b>>)
    BY <1>1, ConcatAssociative
  <1> QED  BY <1>2, <1>3, <1>4

LEMMA InsideIs ==
    ASSUME NEW f \in Inside
    PROVE  /\ f \in Frame /\ f.call \in Above /\ f.call \notin Entries
           /\ f.call \in {"handler", "enqueue", "await"}
  BY DEF Inside, Frame, Above, Entries, UserCode, Op

\* What may be put on the stack of user code that makes a library call.
Called(a, new) ==
    \/ new = <<>>
    \/ \E f \in Inside : new = <<f>>
    \/ ~Entered(a) /\ \E h \in Handlers : new = <<[call |-> "dispatched"], Handler(h)>>

LEMMA Grown ==
    ASSUME NEW a, Open(a), a # <<>>, Pending(a) = <<>>, NEW new, Called(a, new)
    PROVE  LET t == a \o new
           IN  /\ t \in Seq(Frame) /\ t # <<>> /\ StackOK(t) /\ t[1] = a[1]
               /\ Count(Entries, t) = Count(Entries, a) + Count(Entries, new)
               /\ Count(Entries, new) = IF Len(new) = 2 THEN 1 ELSE 0
               /\ Pending(t) = Pending(new)
               /\ Len(t) = Len(a) + Len(new)
               /\ Len(new) # 2 => /\ \A i \in 1..Len(a) : t[i] = a[i]
                                  /\ \A i \in 1..Len(t) : i > Len(a) => t[i].call \in {"handler", "enqueue", "await"}
               /\ new \in Seq(Frame)
  <1> DEFINE t == a \o new
  <1>0. a \in Seq(Frame) /\ StackOK(a) /\ Len(a) \in Nat /\ Len(a) >= 1
    BY EmptySeq DEF Open
  <1>1. Count(Entries, <<>>) = 0 /\ Count(Entries, a) \in Nat
    BY <1>0, CountEmpty, CountType
  <1>2. CASE new = <<>>
    <2>1. t = a
      BY <1>0, <1>2, ConcatEmptySeq
    <2>2. Pending(new) = <<>> /\ Len(new) = 0 /\ new \in Seq(Frame)
      BY <1>2 DEF Pending
    <2> HIDE DEF t
    <2> QED  BY <1>0, <1>1, <1>2, <2>1, <2>2
  <1>3. ASSUME NEW f \in Inside, new = <<f>>
        PROVE  /\ t \in Seq(Frame) /\ t # <<>> /\ StackOK(t) /\ t[1] = a[1]
               /\ Count(Entries, t) = Count(Entries, a) + Count(Entries, new)
               /\ Count(Entries, new) = IF Len(new) = 2 THEN 1 ELSE 0
               /\ Pending(t) = Pending(new)
               /\ Len(t) = Len(a) + Len(new)
               /\ Len(new) # 2 => /\ \A i \in 1..Len(a) : t[i] = a[i]
                                  /\ \A i \in 1..Len(t) : i > Len(a) => t[i].call \in {"handler", "enqueue", "await"}
               /\ new \in Seq(Frame)
    <2>1. f \in Frame /\ f.call \in Above /\ f.call \notin Entries /\ f.call \in {"handler", "enqueue", "await"}
      BY InsideIs
    <2>2. /\ t \in Seq(Frame) /\ t # <<>> /\ StackOK(t)
          /\ Len(t) = Len(a) + 1 /\ t[Len(t)] = f
          /\ \A i \in 1..Len(a) : t[i] = a[i]
          /\ Count(Entries, t) = Count(Entries, a) + (IF f.call \in Entries THEN 1 ELSE 0)
          /\ Pending(t) = IF f.call = "enqueue" THEN f.ops ELSE <<>>
      BY <1>3, <2>1, AddStack
    <2>3. new \in Seq(Frame) /\ Len(new) = 1 /\ Len(new) # 2 /\ new[1] = f /\ new # <<>>
      BY <1>3, <2>1
    <2>4. Count(Entries, new) = 0
      BY <1>3, <2>1, CountOne
    <2>5. Pending(new) = IF f.call = "enqueue" THEN f.ops ELSE <<>>
      BY <2>3 DEF Pending
    <2> HIDE DEF t
    <2>6. t[1] = a[1]
      BY <1>0, <2>2
    <2>7. \A i \in 1..Len(t) : i > Len(a) => t[i].call \in {"handler", "enqueue", "await"}
      BY <1>0, <2>1, <2>2
    <2>8. Count(Entries, t) = Count(Entries, a) + Count(Entries, new)
      BY <1>1, <2>1, <2>2, <2>4
    <2> QED  BY <2>2, <2>3, <2>4, <2>5, <2>6, <2>7, <2>8
  <1>4. ASSUME ~Entered(a), NEW h \in Handlers, new = <<[call |-> "dispatched"], Handler(h)>>
        PROVE  /\ t \in Seq(Frame) /\ t # <<>> /\ StackOK(t) /\ t[1] = a[1]
               /\ Count(Entries, t) = Count(Entries, a) + Count(Entries, new)
               /\ Count(Entries, new) = IF Len(new) = 2 THEN 1 ELSE 0
               /\ Pending(t) = Pending(new)
               /\ Len(t) = Len(a) + Len(new)
               /\ Len(new) = 2
               /\ new \in Seq(Frame)
    <2> DEFINE d == [call |-> "dispatched"]
               f == Handler(h)
               b == a \o <<d>>
    <2>1. /\ d \in Frame /\ d.call = "dispatched" /\ d.call \in Above /\ d.call \in Below
          /\ d.call \in Entries /\ d.call # "enqueue"
      BY FramesAre DEF Above, Below, Entries
    <2>2. /\ f \in Frame /\ f \in UserCode(Handlers) /\ f.call = "handler" /\ f.call \in Above
          /\ f.call \notin Entries /\ f \in Inside /\ f.call # "enqueue"
      BY OpsAre, FramesAre DEF Above, Inside, Entries
    <2> HIDE DEF d, f
    <2>3. /\ b \in Seq(Frame) /\ b # <<>> /\ Open(b) /\ Len(b) = Len(a) + 1
          /\ \A i \in 1..Len(a) : b[i] = a[i]
          /\ Count(Entries, b) = Count(Entries, a) + 1
      BY <1>4, <2>1, AddStack
    <2> HIDE DEF b
    <2>4. /\ b \o <<f>> \in Seq(Frame) /\ b \o <<f>> # <<>> /\ StackOK(b \o <<f>>)
          /\ Len(b \o <<f>>) = Len(b) + 1 /\ \A i \in 1..Len(b) : (b \o <<f>>)[i] = b[i]
          /\ Count(Entries, b \o <<f>>) = Count(Entries, b) + 0
          /\ Pending(b \o <<f>>) = <<>>
      BY <2>2, <2>3, AddStack
    <2>5. t = b \o <<f>>
      <3>1. a \in Seq(Frame) /\ d \in Frame /\ f \in Frame
        BY <1>0, <2>1, <2>2
      <3>2. a \o <<d, f>> = (a \o <<d>>) \o <<f>>
        BY <3>1, TwoMore
      <3>3. new = <<d, f>>
        BY <1>4 DEF d, f
      <3> QED  BY <3>2, <3>3, Zenon DEF b
    <2>6. new \in Seq(Frame) /\ Len(new) = 2 /\ new # <<>> /\ new[2] = f /\ new = <<d, f>>
      BY <1>4, <2>1, <2>2 DEF d, f
    <2>7. Pending(new) = <<>>
      BY <2>2, <2>6 DEF Pending
    <2>8. Count(Entries, new) = 1
      <3>0. <<d>> \in Seq(Frame) /\ <<f>> \in Seq(Frame)
        BY <2>1, <2>2
      <3>1. <<d, f>> = Append(<<d>>, f) /\ Append(<<d>>, f) = <<d>> \o <<f>>
        BY <2>1, <2>2, <3>0, AppendToOne, AppendIsConcat
      <3>2. Count(Entries, <<d>>) = 1 /\ Count(Entries, <<f>>) = 0
        BY <2>1, <2>2, CountOne
      <3> QED  BY <2>6, <3>0, <3>1, <3>2, CountConcat
    <2> HIDE DEF t
    <2>9. t[1] = a[1]
      BY <1>0, <2>3, <2>4, <2>5
    <2>10. Count(Entries, t) = Count(Entries, a) + Count(Entries, new) /\ Len(t) = Len(a) + Len(new)
      BY <1>0, <1>1, <2>3, <2>4, <2>5, <2>6, <2>8
    <2> QED  BY <2>4, <2>5, <2>6, <2>7, <2>8, <2>9, <2>10
  <1> HIDE DEF t
  <1>5. \/ new = <<>>
        \/ \E f \in Inside : new = <<f>>
        \/ ~Entered(a) /\ \E h \in Handlers : new = <<[call |-> "dispatched"], Handler(h)>>
    BY DEF Called
  <1> QED  BY <1>2, <1>3, <1>4, <1>5 DEF t

-----------------------------------------------------------------------------
(***************************************************************************)
(* The stack of x in a step of x.                                          *)
(***************************************************************************)
Performs(s) == s # <<>> /\ s[1].call = "perform"

LEMMA BeingQueuedIs ==
    ASSUME NEW x, NEW names
    PROVE  /\ BeingQueued(names, x) = Count(names, Pending(frames[x]))
           /\ BeingQueued(names, x)' = Count(names, Pending(frames'[x]))
  BY CountEmpty DEF BeingQueued, Pending, Top

LEMMA InStrandIs ==
    ASSUME Types, NEW x \in Actor
    PROVE  /\ InStrand(x) <=> Entered(frames[x])
           /\ Count(Entries, frames[x]) \in Nat
           /\ Count(Entries, frames[x]) = 0 <=> ~InStrand(x)
  <1>1. frames[x] \in Seq(Frame)
    BY DEF Types
  <1>2. DOMAIN frames[x] = 1..Len(frames[x])
    BY <1>1
  <1> QED  BY <1>1, <1>2, CountType DEF InStrand, Entered, Entries

\* Only the stack of x is another one.
Stacked(x) ==
    /\ frames' \in [Actor -> Seq(Frame)] /\ StackInv'
    /\ \A y \in Actor : y # x => frames'[y] = frames[y]

LEMMA StackMoves ==
    ASSUME Types, StackInv, NEW x \in Actor, NEW t \in Seq(Frame), StackOK(t),
           x \in Outside => \A i \in 1..Len(t) : t[i].call \in {"handler", "enqueue", "await"},
           frames' = [frames EXCEPT ![x] = t]
    PROVE  Stacked(x) /\ frames'[x] = t
  <1>1. frames \in [Actor -> Seq(Frame)]
    BY DEF Types
  <1>2. /\ frames' \in [Actor -> Seq(Frame)] /\ frames'[x] = t
        /\ \A y \in Actor : y # x => frames'[y] = frames[y]
    BY <1>1
  <1>3. Outside \subseteq Actor
    BY DEF Actor
  <1>4. StackInv'
    BY <1>2, <1>3 DEF StackInv
  <1> QED  BY <1>2, <1>4 DEF Stacked

LEMMA StackStays ==
    ASSUME Types, StackInv, UNCHANGED frames, NEW x
    PROVE  Stacked(x)
  BY DEF Types, StackInv, Stacked

\* The innermost call of x is known.
LEMMA InnermostCall ==
    ASSUME TypeInv, NEW x \in Actor, NEW name, InCall(x, name)
    PROVE  LET s == frames[x]
               b == Front(s)
           IN  /\ s \in Seq(Frame) /\ s # <<>> /\ StackOK(s) /\ Top(x) = s[Len(s)]
               /\ Top(x) \in Frame /\ Top(x).call = name
               /\ Open(b) /\ b \in Seq(Frame)
               /\ Entered(b) => Top(x) \in Inside
               /\ name \notin Above => Len(s) = 1 /\ b = <<>>
               /\ \A names : Count(names, s) = Count(names, b) + (IF name \in names THEN 1 ELSE 0)
               /\ Pending(s) = IF name = "enqueue" THEN Top(x).ops ELSE <<>>
               /\ Pending(b) = <<>>
               /\ ~Performs(b)
               /\ Performs(s) <=> name = "perform"
               /\ x \in Outside => /\ name \in {"handler", "enqueue", "await"}
                                   /\ \A i \in 1..Len(b) : b[i].call \in {"handler", "enqueue", "await"}
               /\ x \in Thread /\ name # "stop" => at[x] = "running"
  <1> DEFINE s == frames[x]
             b == Front(s)
             n == Len(s)
  <1>1. s \in Seq(Frame) /\ s # <<>> /\ StackOK(s) /\ Top(x) = s[n] /\ s[n].call = name
    BY DEF InCall, Top, TypeInv, Types, StackInv
  <1>2. /\ s[n] \in Frame /\ Open(b) /\ b \in Seq(Frame)
        /\ n \in Nat /\ Len(b) = n - 1
        /\ \A i \in 1..(n - 1) : b[i] = s[i]
        /\ Entered(b) => s[n] \in Inside
        /\ s[n].call \notin Above => n = 1 /\ b = <<>>
    BY <1>1, PopStack
  <1>3. \A names : Count(names, s) = Count(names, b) + (IF name \in names THEN 1 ELSE 0)
    BY <1>1, CountFront
  <1>4. x \in Outside => /\ name \in {"handler", "enqueue", "await"}
                         /\ \A i \in 1..Len(b) : b[i].call \in {"handler", "enqueue", "await"}
    <2>1. SUFFICES ASSUME x \in Outside
                   PROVE  /\ name \in {"handler", "enqueue", "await"}
                          /\ \A i \in 1..Len(b) : b[i].call \in {"handler", "enqueue", "await"}
      OBVIOUS
    <2>2. \A i \in 1..n : s[i].call \in {"handler", "enqueue", "await"}
      BY <2>1 DEF TypeInv, StackInv
    <2>3. n >= 1
      BY <1>1, <1>2, EmptySeq
    <2> HIDE DEF s, b
    <2> QED  BY <1>1, <1>2, <2>2, <2>3
  <1>5. Pending(s) = IF name = "enqueue" THEN Top(x).ops ELSE <<>>
    BY <1>1 DEF Pending
  <1>6. n >= 1
    BY <1>1, <1>2, EmptySeq
  <1>7. x \in Thread /\ name # "stop" => at[x] = "running"
    <2>1. SUFFICES ASSUME x \in Thread, name # "stop", at[x] # "running" PROVE FALSE
      OBVIOUS
    <2>2. s = <<[call |-> "stop"]>>
      BY <1>1, <2>1 DEF TypeInv, ThreadInv
    <2>3. Len(s) = 1 /\ s[1] = [call |-> "stop"]
      BY <2>2
    <2> QED  BY <1>1, <2>1, <2>3
  <1> HIDE DEF s, b
  <1>8. \A i \in 1..Len(b) : b[i].call \in Below
    BY <1>2 DEF Open
  <1>9. Pending(b) = <<>>
    <2>1. b # <<>> => b[Len(b)].call \in Below
      BY <1>2, <1>8, EmptySeq
    <2> QED  BY <2>1 DEF Pending, Below, Entries
  <1>10. ~Performs(b)
    <2>1. b # <<>> => b[1].call \in Below
      BY <1>2, <1>8, EmptySeq
    <2> QED  BY <2>1 DEF Performs, Below, Entries
  <1>11. Performs(s) <=> name = "perform"
    <2>1. CASE n = 1
      BY <1>1, <2>1 DEF Performs
    <2>2. CASE n # 1
      <3>1. s[1].call \in Below
        BY <1>1, <1>2, <1>6, <2>2 DEF StackOK
      <3>2. s[n].call \in Above
        BY <1>1, <1>2, <1>6, <2>2 DEF StackOK
      <3> QED  BY <1>1, <3>1, <3>2 DEF Performs, Below, Above, Entries
    <2> QED  BY <2>1, <2>2
  <1> QED  BY <1>1, <1>2, <1>3, <1>4, <1>5, <1>7, <1>9, <1>10, <1>11 DEF s, b, n

\* The call that user code makes, and its frame after it.
LEMMA UserFrame ==
    ASSUME TypeInv, NEW x \in Actor, NEW kind, Calls(x, kind)
    PROVE  LET f == [Top(x) EXCEPT !.todo = Tail(@)]
           IN  /\ InCall(x, "handler")
               /\ f \in Frame /\ f.call = "handler" /\ f.h = Top(x).h
               /\ Top(x) \in Inside => f \in Inside
               /\ Arg(x) \in LibraryCall /\ Arg(x).do = kind
               /\ kind \in {"io_post", "post", "dispatch", "async"} => Arg(x).h \in Handlers
               /\ kind = "async" => Arg(x).k \in Kind
               /\ kind = "thread" => Arg(x).t \in Thread
  <1> DEFINE o == Top(x)
             f == [o EXCEPT !.todo = Tail(@)]
  <1>1. InCall(x, "handler") /\ o.todo # <<>> /\ Arg(x) = Head(o.todo) /\ Arg(x).do = kind
    BY DEF Calls, Arg
  <1>2. o \in Frame /\ o.call = "handler"
    BY <1>1, InnermostCall
  <1>3. o \in UserCode(Handlers) \cup UserCode(Outside)
    BY <1>2, FrameIs
  <1>4. /\ f \in UserCode(Handlers) \cup UserCode(Outside) /\ f.call = "handler" /\ f.h = o.h
        /\ o \in UserCode(Handlers) => f \in UserCode(Handlers)
        /\ Arg(x) \in LibraryCall
        /\ Arg(x).do \in {"io_post", "post", "dispatch", "async"} => Arg(x).h \in Handlers
        /\ Arg(x).do = "async" => Arg(x).k \in Kind
        /\ Arg(x).do = "thread" => Arg(x).t \in Thread
    BY <1>1, <1>3, CodeIs
  <1>5. o \in Inside => o \in UserCode(Handlers)
    BY <1>2 DEF Inside
  <1>6. o \in Inside => f \in Inside
    BY <1>4, <1>5 DEF Inside
  <1>7. f \in Frame
    BY <1>4, FramesAre
  <1> QED  BY <1>1, <1>4, <1>6, <1>7

\* User code makes a call, and is in that call then if it must wait.
LEMMA UserMoves ==
    ASSUME TypeInv, NEW x \in Actor, NEW kind, Calls(x, kind),
           NEW new, Advance(x, new), Called(frames[x], new), Len(new) = 2 => x \in Thread
    PROVE  LET a == Front(frames[x]) \o <<[Top(x) EXCEPT !.todo = Tail(@)]>>
           IN  /\ Stacked(x)
               /\ frames'[x] = a \o new /\ new \in Seq(Frame)
               /\ a \in Seq(Frame) /\ Len(a) = Len(frames[x])
               /\ Entered(a) <=> Entered(frames[x])
               /\ frames[x] # <<>> /\ frames'[x] # <<>>
               /\ ~Performs(frames[x]) /\ ~Performs(frames'[x])
               /\ Pending(frames[x]) = <<>> /\ Pending(frames'[x]) = Pending(new)
               /\ Count(Entries, frames'[x]) = Count(Entries, frames[x]) + Count(Entries, new)
               /\ Count(Entries, new) = IF Len(new) = 2 THEN 1 ELSE 0
               /\ x \in Thread => at[x] = "running"
  <1> DEFINE s == frames[x]
             b == Front(s)
             f == [Top(x) EXCEPT !.todo = Tail(@)]
             a == b \o <<f>>
  <1>1. /\ InCall(x, "handler")
        /\ f \in Frame /\ f.call = "handler" /\ (Top(x) \in Inside => f \in Inside)
    BY UserFrame
  <1>2. /\ s \in Seq(Frame) /\ s # <<>> /\ Top(x) = s[Len(s)]
        /\ Open(b) /\ b \in Seq(Frame) /\ (Entered(b) => Top(x) \in Inside)
        /\ \A names : Count(names, s) = Count(names, b) + (IF "handler" \in names THEN 1 ELSE 0)
        /\ Pending(s) = <<>> /\ ~Performs(b) /\ ~Performs(s)
        /\ x \in Outside => \A i \in 1..Len(b) : b[i].call \in {"handler", "enqueue", "await"}
        /\ x \in Thread => at[x] = "running"
    BY <1>1, InnermostCall
  <1>3. "handler" \in Above /\ "handler" \in Below /\ "handler" \notin Entries
    BY DEF Above, Below, Entries
  <1> HIDE DEF f
  <1>4. /\ a \in Seq(Frame) /\ a # <<>> /\ Open(a)
        /\ Len(b) \in Nat /\ Len(a) = Len(b) + 1 /\ a[Len(a)] = f
        /\ \A i \in 1..Len(b) : a[i] = b[i]
        /\ \A names : Count(names, a) = Count(names, b) + (IF f.call \in names THEN 1 ELSE 0)
        /\ Pending(a) = <<>>
        /\ Entered(a) <=> Entered(b) \/ f.call \in Entries
    <2>1. f.call \in Above /\ f.call \in Below /\ f.call # "enqueue" /\ (Entered(b) => f \in Inside)
      BY <1>1, <1>2, <1>3
    <2> HIDE DEF b, s
    <2> QED  BY <1>1, <1>2, <2>1, AddStack
  <1>5. Len(s) \in Nat /\ Len(b) = Len(s) - 1 /\ \A i \in 1..(Len(s) - 1) : b[i] = s[i]
    BY <1>2, FrontParts
  <1>6. Entered(s) <=> Entered(b)
    <2>1. s[Len(s)].call \notin Entries
      BY <1>1, <1>2, <1>3 DEF InCall
    <2> HIDE DEF s, b
    <2> QED  BY <1>5, <2>1 DEF Entered
  <1>7. Called(a, new)
    <2>1. Called(s, new)
      OBVIOUS
    <2>2. Entered(a) <=> Entered(s)
      BY <1>1, <1>3, <1>4, <1>6
    <2> HIDE DEF a, s
    <2> QED  BY <2>1, <2>2 DEF Called
  <1> HIDE DEF a
  <1>8. LET t == a \o new
        IN  /\ t \in Seq(Frame) /\ t # <<>> /\ StackOK(t) /\ t[1] = a[1]
            /\ Count(Entries, t) = Count(Entries, a) + Count(Entries, new)
            /\ Count(Entries, new) = IF Len(new) = 2 THEN 1 ELSE 0
            /\ Pending(t) = Pending(new)
            /\ Len(t) = Len(a) + Len(new)
            /\ Len(new) # 2 => /\ \A i \in 1..Len(a) : t[i] = a[i]
                               /\ \A i \in 1..Len(t) : i > Len(a) => t[i].call \in {"handler", "enqueue", "await"}
            /\ new \in Seq(Frame)
    BY <1>4, <1>7, Grown
  <1> DEFINE t == a \o new
  <1>9. frames' = [frames EXCEPT ![x] = t]
    <2>1. frames' = [frames EXCEPT ![x] = b \o (<<f>> \o new)]
      BY DEF Advance, Replace, Front, f, b, s
    <2>2. <<f>> \in Seq(Frame)
      BY <1>1
    <2>3. b \o (<<f>> \o new) = (b \o <<f>>) \o new
      <3>1. b \in Seq(Frame) /\ new \in Seq(Frame)
        BY <1>2, <1>8
      <3> HIDE DEF b
      <3> QED  BY <2>2, <3>1, ConcatAssociative
    <2> QED  BY <2>1, <2>3 DEF a
  <1>10. x \in Outside => \A i \in 1..Len(t) : t[i].call \in {"handler", "enqueue", "await"}
    <2>1. SUFFICES ASSUME x \in Outside, NEW i \in 1..Len(t)
                   PROVE  t[i].call \in {"handler", "enqueue", "await"}
      OBVIOUS
    <2>2. x \notin Thread /\ Len(new) # 2
      BY <2>1, ThreadAssumption
    <2>3. \A j \in 1..Len(a) : a[j].call \in {"handler", "enqueue", "await"}
      <3>1. \A j \in 1..Len(b) : b[j].call \in {"handler", "enqueue", "await"}
        BY <1>2, <2>1
      <3> HIDE DEF b
      <3> QED  BY <1>1, <1>4, <3>1
    <2> HIDE DEF t
    <2>4. CASE i <= Len(a)
      BY <1>4, <1>8, <2>2, <2>3, <2>4 DEF t
    <2>5. CASE ~(i <= Len(a))
      BY <1>4, <1>8, <2>2, <2>5 DEF t
    <2> QED  BY <2>4, <2>5
  <1>11. Stacked(x) /\ frames'[x] = t
    <2>1. t \in Seq(Frame) /\ StackOK(t)
      BY <1>8
    <2> HIDE DEF t
    <2> QED  BY <1>9, <1>10, <2>1, StackMoves DEF TypeInv
  <1>12. a[1].call # "perform"
    <2>1. CASE Len(b) = 0
      BY <1>1, <1>4, <2>1
    <2>2. CASE Len(b) # 0
      <3>1. 1 \in 1..Len(b) /\ b # <<>>
        BY <1>4, <2>2
      <3>2. a[1] = b[1] /\ b[1].call # "perform"
        BY <1>2, <1>4, <3>1 DEF Performs
      <3> QED  BY <3>2
    <2> QED  BY <2>1, <2>2
  <1>13. ~Performs(t)
    BY <1>8, <1>12 DEF Performs
  <1>14. Count(Entries, a) = Count(Entries, s)
    BY <1>1, <1>2, <1>4
  <1>15. Len(a) = Len(s) /\ (Entered(a) <=> Entered(s))
    BY <1>1, <1>3, <1>4, <1>5, <1>6
  <1>16. a = b \o <<f>>
    BY DEF a
  <1> QED  BY <1>2, <1>4, <1>8, <1>11, <1>13, <1>14, <1>15, <1>16 DEF f, s, b

\* A library call returns.
LEMMA Popped ==
    ASSUME TypeInv, NEW x \in Actor, NEW name, InCall(x, name), Pop(x)
    PROVE  /\ Stacked(x) /\ frames'[x] = Front(frames[x])
           /\ ~Performs(frames'[x]) /\ Pending(frames'[x]) = <<>>
           /\ \A names : Count(names, frames[x]) =
                             Count(names, frames'[x]) + (IF name \in names THEN 1 ELSE 0)
  <1> DEFINE s == frames[x]
             b == Front(s)
  <1>1. /\ Open(b) /\ b \in Seq(Frame) /\ Pending(b) = <<>> /\ ~Performs(b)
        /\ \A names : Count(names, s) = Count(names, b) + (IF name \in names THEN 1 ELSE 0)
        /\ x \in Outside => \A i \in 1..Len(b) : b[i].call \in {"handler", "enqueue", "await"}
    BY InnermostCall
  <1>2. frames' = [frames EXCEPT ![x] = b]
    BY DEF Pop, Front
  <1> HIDE DEF b
  <1>3. Stacked(x) /\ frames'[x] = b
    BY <1>1, <1>2, StackMoves DEF TypeInv, Open
  <1> QED  BY <1>1, <1>3 DEF b

\* It goes on to the next one.
LEMMA Replaced ==
    ASSUME TypeInv, NEW x \in Actor, NEW name, InCall(x, name), name # "stop",
           NEW f \in Inside, Replace(x, <<f>>)
    PROVE  /\ Stacked(x) /\ frames'[x] = Front(frames[x]) \o <<f>> /\ frames'[x] # <<>>
           /\ ~Performs(frames'[x]) /\ Pending(frames'[x]) = IF f.call = "enqueue" THEN f.ops ELSE <<>>
           /\ Count(Entries, frames[x]) =
                  Count(Entries, frames'[x]) + (IF name \in Entries THEN 1 ELSE 0)
  <1> DEFINE s == frames[x]
             b == Front(s)
             t == b \o <<f>>
  <1>1. /\ Open(b) /\ b \in Seq(Frame) /\ Pending(b) = <<>> /\ ~Performs(b)
        /\ Count(Entries, s) = Count(Entries, b) + (IF name \in Entries THEN 1 ELSE 0)
        /\ x \in Outside => \A i \in 1..Len(b) : b[i].call \in {"handler", "enqueue", "await"}
    <2>1. Open(b) /\ b \in Seq(Frame) /\ Pending(b) = <<>> /\ ~Performs(b)
      BY InnermostCall
    <2>2. Count(Entries, s) = Count(Entries, b) + (IF name \in Entries THEN 1 ELSE 0)
      BY InnermostCall
    <2>3. x \in Outside => \A i \in 1..Len(b) : b[i].call \in {"handler", "enqueue", "await"}
      BY InnermostCall
    <2> QED  BY <2>1, <2>2, <2>3
  <1>2. frames' = [frames EXCEPT ![x] = t]
    BY DEF Replace, Front
  <1>3. f \in Frame /\ f.call \in Above /\ f.call \notin Entries /\ f.call \in {"handler", "enqueue", "await"}
    BY InsideIs
  <1> HIDE DEF b
  <1>4. /\ t \in Seq(Frame) /\ t # <<>> /\ StackOK(t)
        /\ Len(b) \in Nat /\ Len(t) = Len(b) + 1 /\ t[Len(t)] = f
        /\ \A i \in 1..Len(b) : t[i] = b[i]
        /\ Count(Entries, t) = Count(Entries, b) + (IF f.call \in Entries THEN 1 ELSE 0)
        /\ Pending(t) = IF f.call = "enqueue" THEN f.ops ELSE <<>>
    BY <1>1, <1>3, AddStack
  <1>5. Count(Entries, b) \in Nat
    BY <1>1, CountType
  <1> HIDE DEF t
  <1>6. x \in Outside => \A i \in 1..Len(t) : t[i].call \in {"handler", "enqueue", "await"}
    BY <1>1, <1>3, <1>4
  <1>7. Stacked(x) /\ frames'[x] = t
    BY <1>2, <1>4, <1>6, StackMoves DEF TypeInv
  <1>8. ~Performs(t)
    <2>1. CASE Len(b) = 0
      BY <1>3, <1>4, <2>1 DEF Performs
    <2>2. CASE Len(b) # 0
      <3>1. 1 \in 1..Len(b) /\ b # <<>>
        BY <1>4, <2>2
      <3> QED  BY <1>1, <1>4, <3>1 DEF Performs
    <2> QED  BY <2>1, <2>2
  <1> QED  BY <1>1, <1>3, <1>4, <1>5, <1>7, <1>8 DEF t, b

\* An operation goes on, or one begins, on a thread that is in nothing else.
LEMMA Restarted ==
    ASSUME TypeInv, NEW x \in Thread, NEW t \in Seq(Frame), StackOK(t),
           (frames[x] = <<>> /\ Push(x, t)) \/ (Front(frames[x]) = <<>> /\ Replace(x, t))
    PROVE  Stacked(x) /\ frames'[x] = t
  <1>1. x \in Actor /\ x \notin Outside
    BY ThreadAssumption DEF Actor
  <1>2. <<>> \o t = t
    BY ConcatEmptySeq
  <1>3. frames' = [frames EXCEPT ![x] = t]
    <2>1. CASE frames[x] = <<>> /\ Push(x, t)
      BY <1>2, <2>1 DEF Push
    <2>2. CASE Front(frames[x]) = <<>> /\ Replace(x, t)
      BY <1>2, <2>2 DEF Replace, Front
    <2> QED  BY <2>1, <2>2
  <1> QED  BY <1>1, <1>3, StackMoves DEF TypeInv

LEMMA EmptyStack ==
    Open(<<>>) /\ ~Entered(<<>>) /\ Count(Entries, <<>>) = 0 /\ Pending(<<>>) = <<>> /\ ~Performs(<<>>)
  BY CountEmpty DEF Open, StackOK, Entered, Pending, Performs

LEMMA OneFrame ==
    ASSUME NEW f \in Frame
    PROVE  /\ <<f>> \in Seq(Frame) /\ StackOK(<<f>>)
           /\ Count(Entries, <<f>>) = IF f.call \in Entries THEN 1 ELSE 0
           /\ Pending(<<f>>) = IF f.call = "enqueue" THEN f.ops ELSE <<>>
           /\ Performs(<<f>>) <=> f.call = "perform"
           /\ f.call \in Below => Open(<<f>>)
           /\ Entered(<<f>>) <=> f.call \in Entries
  <1>1. <<f>> \in Seq(Frame) /\ Len(<<f>>) = 1 /\ <<f>>[1] = f /\ <<f>> # <<>>
    OBVIOUS
  <1>2. Count(Entries, <<f>>) = IF f.call \in Entries THEN 1 ELSE 0
    BY CountOne
  <1>3. StackOK(<<f>>)
    BY <1>1 DEF StackOK
  <1>4. Pending(<<f>>) = IF f.call = "enqueue" THEN f.ops ELSE <<>>
    BY <1>1 DEF Pending
  <1>5. Performs(<<f>>) <=> f.call = "perform"
    BY <1>1 DEF Performs
  <1>6. f.call \in Below => Open(<<f>>)
    BY <1>1, <1>3 DEF Open
  <1>7. Entered(<<f>>) <=> f.call \in Entries
    BY <1>1 DEF Entered
  <1> QED  BY <1>1, <1>2, <1>3, <1>4, <1>5, <1>6, <1>7

\* A completion handler that may enter the strand.
LEMMA EnteredStack ==
    ASSUME NEW h \in Handlers
    PROVE  LET t == <<[call |-> "dispatched"], Handler(h)>>
           IN  /\ t \in Seq(Frame) /\ StackOK(t) /\ t # <<>> /\ ~Performs(t)
               /\ Count(Entries, t) = 1 /\ Pending(t) = <<>>
  <1> DEFINE d == [call |-> "dispatched"]
             f == Handler(h)
  <1>1. /\ d \in Frame /\ d.call \in Below /\ d.call \in Entries /\ d.call # "perform"
        /\ d.call # "enqueue"
    BY FramesAre DEF Below, Entries
  <1>2. /\ f \in Frame /\ f.call = "handler" /\ f.call \in Above /\ f \in Inside /\ f.call \notin Entries
        /\ f.call # "enqueue"
    BY OpsAre, FramesAre DEF Above, Inside, Entries
  <1> HIDE DEF d, f
  <1>3. <<d>> \in Seq(Frame) /\ Open(<<d>>) /\ Count(Entries, <<d>>) = 1 /\ ~Performs(<<d>>)
    BY <1>1, OneFrame
  <1>4. /\ <<d>> \o <<f>> \in Seq(Frame) /\ StackOK(<<d>> \o <<f>>)
        /\ Count(Entries, <<d>> \o <<f>>) = Count(Entries, <<d>>) + 0
        /\ Pending(<<d>> \o <<f>>) = <<>>
    BY <1>2, <1>3, AddStack
  <1>5. <<f>> \in Seq(Frame)
    BY <1>2
  <1>6. <<d, f>> = Append(<<d>>, f) /\ Append(<<d>>, f) = <<d>> \o <<f>>
    BY <1>1, <1>2, <1>3, AppendToOne, AppendIsConcat
  <1>7. <<d, f>> # <<>> /\ ~Performs(<<d, f>>)
    BY <1>1 DEF Performs
  <1> DEFINE t == <<d, f>>
             u == <<d>> \o <<f>>
  <1>8. u \in Seq(Frame) /\ StackOK(u) /\ Count(Entries, u) = 1 /\ Pending(u) = <<>>
    BY <1>3, <1>4
  <1>9. t = u
    BY <1>6
  <1> HIDE DEF t, u
  <1>10. t \in Seq(Frame) /\ StackOK(t) /\ Count(Entries, t) = 1 /\ Pending(t) = <<>>
    BY <1>8, <1>9
  <1> QED  BY <1>7, <1>10 DEF t, d, f

\* A completion, which queues others first.
LEMMA CompletionStack ==
    ASSUME NEW h \in Handlers, NEW ops \in Seq(Op)
    PROVE  LET t == <<Wrapped(h)>> \o PostDeferred(ops)
           IN  /\ t \in Seq(Frame) /\ StackOK(t) /\ t # <<>> /\ ~Performs(t)
               /\ Count(Entries, t) = 0 /\ Pending(t) = ops
  <1> DEFINE w == Wrapped(h)
             a == <<w>>
             new == PostDeferred(ops)
             e == [call |-> "enqueue", ops |-> ops]
  <1>1. w \in Frame /\ w.call = "wrapped"
    BY OpsAre, FramesAre
  <1>2. "wrapped" \in Below /\ "wrapped" \notin Entries
    BY DEF Below, Entries
  <1> HIDE DEF w
  <1>3. /\ a \in Seq(Frame) /\ Open(a) /\ Count(Entries, a) = 0 /\ ~Performs(a) /\ ~Entered(a)
        /\ Pending(a) = <<>> /\ a # <<>> /\ a[1] = w
    BY <1>1, <1>2, OneFrame
  <1>4. e \in Inside /\ e.call = "enqueue" /\ e.ops = ops /\ e \in Frame
    BY FramesAre DEF Inside
  <1> HIDE DEF a, e
  <1>5. new = IF ops = <<>> THEN <<>> ELSE <<e>>
    BY DEF PostDeferred, e
  <1> HIDE DEF new
  <1>6. Called(a, new)
    BY <1>4, <1>5 DEF Called
  <1>7. LET t == a \o new
        IN  /\ t \in Seq(Frame) /\ t # <<>> /\ StackOK(t) /\ t[1] = a[1]
            /\ Count(Entries, t) = Count(Entries, a) + Count(Entries, new)
            /\ Count(Entries, new) = IF Len(new) = 2 THEN 1 ELSE 0
            /\ Pending(t) = Pending(new)
    BY <1>3, <1>6, Grown
  <1>8. Pending(new) = ops /\ Len(new) # 2
    <2>1. CASE ops = <<>>
      BY <1>5, <2>1, EmptyStack
    <2>2. CASE ops # <<>>
      BY <1>4, <1>5, <2>2, OneFrame
    <2> QED  BY <2>1, <2>2
  <1>9. ~Performs(a \o new)
    BY <1>1, <1>3, <1>7 DEF Performs
  <1> QED  BY <1>3, <1>7, <1>8, <1>9 DEF a, w, new

-----------------------------------------------------------------------------
(***************************************************************************)
(* The sums over all threads, in a step of x.                              *)
(***************************************************************************)
Value(f, x) == IF x \in DOMAIN f THEN f[x] ELSE 0

LEMMA SumMoves ==
    ASSUME NEW S, IsFiniteSet(S), NEW f \in [S -> Nat], NEW g \in [S -> Nat],
           NEW x, \A y \in S : y # x => g[y] = f[y]
    PROVE  /\ Total(f) \in Nat /\ Total(g) \in Nat /\ Value(f, x) \in Nat /\ Value(g, x) \in Nat
           /\ Total(f) + Value(g, x) = Total(g) + Value(f, x)
           /\ Value(f, x) <= Total(f)
  <1>1. CASE x \in S
    <2>1. Value(f, x) = f[x] /\ Value(g, x) = g[x]
      BY <1>1 DEF Value
    <2> QED  BY <1>1, <2>1, TotalDiffers
  <1>2. CASE x \notin S
    <2>1. f = g
      BY <1>2
    <2>2. Value(f, x) = 0 /\ Value(g, x) = 0
      BY <1>2 DEF Value
    <2>3. Total(f) \in Nat
      BY AreaIs
    <2> QED  BY <2>1, <2>2, <2>3
  <1> QED  BY <1>1, <1>2

LEMMA PendingType ==
    ASSUME NEW s \in Seq(Frame)
    PROVE  Pending(s) \in Seq(Op)
  <1>1. CASE s # <<>> /\ s[Len(s)].call = "enqueue"
    <2>1. s[Len(s)] \in Frame
      BY <1>1, FrontParts
    <2> QED  BY <1>1, <2>1, FrameIs DEF Pending
  <1>2. CASE ~(s # <<>> /\ s[Len(s)].call = "enqueue")
    BY <1>2 DEF Pending
  <1> QED  BY <1>1, <1>2

\* What the sums are sums of.
Work(t)  == Count(Counted, private[t]) + Executing(t)
Lock(x)  == Count(Entries, frames[x]) + BeingQueued({"strand"}, x)

Works       == [t \in Thread |-> Work(t)]
Queuings    == [x \in Actor |-> BeingQueued(Counted, x)]
Strands     == [t \in Thread |-> Count({"strand"}, private[t])]
AllLocks    == [x \in Actor |-> Lock(x)]
Pollings    == [t \in Thread |-> Polling(t)]

SumsTyped ==
    /\ private_work \in [Thread -> Nat] /\ Works \in [Thread -> Nat]
    /\ Queuings \in [Actor -> Nat] /\ Strands \in [Thread -> Nat]
    /\ AllLocks \in [Actor -> Nat] /\ Pollings \in [Thread -> Nat]

LEMMA SumTypes == Types => SumsTyped
  <1> SUFFICES ASSUME Types PROVE SumsTyped
    OBVIOUS
  <1>1. \A t \in Thread : private[t] \in Seq(Op)
    BY DEF Types
  <1>2. \A x \in Actor : frames[x] \in Seq(Frame)
    BY DEF Types
  <1>3. \A names : \A t \in Thread : Count(names, private[t]) \in Nat
    BY <1>1, CountType
  <1>4. \A names : \A x \in Actor : BeingQueued(names, x) \in Nat
    <2> TAKE names
    <2> TAKE x \in Actor
    <2>1. Pending(frames[x]) \in Seq(Op)
      BY <1>2, PendingType
    <2> QED  BY <2>1, CountType, BeingQueuedIs
  <1>5. \A x \in Actor : Count(Entries, frames[x]) \in Nat
    BY <1>2, CountType
  <1>6. \A t \in Thread : Executing(t) \in Nat /\ Polling(t) \in Nat
    BY DEF Executing, Polling
  <1> QED  BY <1>3, <1>4, <1>5, <1>6 DEF SumsTyped, Types, Works, Work, Queuings, Strands, AllLocks, Lock, Pollings

\* Nothing that the sums depend on changes but at x.
Elsewhere(x) ==
    /\ \A y \in Actor : y # x => frames'[y] = frames[y]
    /\ \A t \in Thread : t # x =>
          /\ private'[t] = private[t] /\ private_work'[t] = private_work[t]
          /\ at'[t] = at[t] \/ (at[t] = "new" /\ at'[t] = "start")

Own(names, x) == IF x \in Thread THEN Count(names, private[x]) ELSE 0
OwnWork(x)    == IF x \in Thread THEN private_work[x] ELSE 0
OwnRun(x)     == IF x \in Thread THEN Executing(x) ELSE 0
OwnPoll(x)    == IF x \in Thread THEN Polling(x) ELSE 0

OwnsTyped ==
    \A x \in Actor :
       /\ \A names : /\ Own(names, x) \in Nat /\ BeingQueued(names, x) \in Nat
                     /\ Count(names, op_queue) \in Nat
       /\ OwnWork(x) \in Nat /\ OwnRun(x) \in Nat /\ OwnPoll(x) \in Nat
       /\ Count(Entries, frames[x]) \in Nat
       /\ Len(queued["read"]) \in Nat /\ Len(queued["write"]) \in Nat
       /\ Pending(frames[x]) \in Seq(Op)

LEMMA OwnTypes == Types => OwnsTyped
  <1> SUFFICES ASSUME Types, NEW x \in Actor
               PROVE  /\ \A names : /\ Own(names, x) \in Nat /\ BeingQueued(names, x) \in Nat
                                    /\ Count(names, op_queue) \in Nat
                      /\ OwnWork(x) \in Nat /\ OwnRun(x) \in Nat /\ OwnPoll(x) \in Nat
                      /\ Count(Entries, frames[x]) \in Nat
                      /\ Len(queued["read"]) \in Nat /\ Len(queued["write"]) \in Nat
                      /\ Pending(frames[x]) \in Seq(Op)
    BY DEF OwnsTyped
  <1>1. frames[x] \in Seq(Frame) /\ op_queue \in Seq(Op) /\ \A t \in Thread : private[t] \in Seq(Op)
    BY DEF Types
  <1>2. Pending(frames[x]) \in Seq(Op)
    BY <1>1, PendingType
  <1>3. \A names : Own(names, x) \in Nat
    BY <1>1, CountType DEF Own
  <1>4. \A names : BeingQueued(names, x) \in Nat
    BY <1>2, CountType, BeingQueuedIs
  <1>5. (\A names : Count(names, op_queue) \in Nat) /\ Count(Entries, frames[x]) \in Nat
    BY <1>1, CountType
  <1>6. OwnWork(x) \in Nat /\ OwnRun(x) \in Nat /\ OwnPoll(x) \in Nat
    BY DEF OwnWork, OwnRun, OwnPoll, Types, Executing, Polling
  <1>7. queued["read"] \in Seq(Handlers) /\ queued["write"] \in Seq(Handlers)
    BY DEF Types, Kind
  <1>8. Len(queued["read"]) \in Nat /\ Len(queued["write"]) \in Nat
    BY <1>7, LenProperties
  <1> QED  BY <1>2, <1>3, <1>4, <1>5, <1>6, <1>8

LEMMA Balance ==
    ASSUME Types, Types', NEW x \in Actor, Elsewhere(x)
    PROVE  /\ Total(private_work) + OwnWork(x)' = Total(private_work') + OwnWork(x)
           /\ Total(Works) + Own(Counted, x)' + OwnRun(x)' = Total(Works)' + Own(Counted, x) + OwnRun(x)
           /\ Total(Queuings) + BeingQueued(Counted, x)' = Total(Queuings)' + BeingQueued(Counted, x)
           /\ Total(Strands) + Own({"strand"}, x)' = Total(Strands)' + Own({"strand"}, x)
           /\ Total(AllLocks) + Count(Entries, frames'[x]) + BeingQueued({"strand"}, x)' =
                  Total(AllLocks)' + Count(Entries, frames[x]) + BeingQueued({"strand"}, x)
           /\ Total(Pollings) + OwnPoll(x)' = Total(Pollings)' + OwnPoll(x)
           /\ Total(private_work) \in Nat /\ Total(private_work') \in Nat
           /\ Total(Works) \in Nat /\ Total(Works)' \in Nat
           /\ Total(Queuings) \in Nat /\ Total(Queuings)' \in Nat
           /\ Total(Strands) \in Nat /\ Total(Strands)' \in Nat /\ Own({"strand"}, x) <= Total(Strands)
           /\ Total(AllLocks) \in Nat /\ Total(AllLocks)' \in Nat
           /\ Count(Entries, frames[x]) + BeingQueued({"strand"}, x) <= Total(AllLocks)
           /\ Total(Pollings) \in Nat /\ Total(Pollings)' \in Nat /\ OwnPoll(x) <= Total(Pollings)
  <1>1. IsFiniteSet(Thread) /\ IsFiniteSet(Actor) /\ Thread \subseteq Actor
    BY ThreadAssumption, FS_Union DEF Actor
  <1>2. /\ private_work \in [Thread -> Nat] /\ Works \in [Thread -> Nat]
        /\ Queuings \in [Actor -> Nat] /\ Strands \in [Thread -> Nat]
        /\ AllLocks \in [Actor -> Nat] /\ Pollings \in [Thread -> Nat]
    BY SumTypes DEF SumsTyped
  <1>3. /\ private_work' \in [Thread -> Nat] /\ Works' \in [Thread -> Nat]
        /\ Queuings' \in [Actor -> Nat] /\ Strands' \in [Thread -> Nat]
        /\ AllLocks' \in [Actor -> Nat] /\ Pollings' \in [Thread -> Nat]
    <2>1. (Types => SumsTyped)'
      BY SumTypes, PTL
    <2> QED  BY <2>1 DEF SumsTyped
  <1>4. \A y \in Actor : y # x => \A names : BeingQueued(names, y)' = BeingQueued(names, y)
    BY BeingQueuedIs DEF Elsewhere
  <1>5. \A t \in Thread : t # x => Executing(t)' = Executing(t) /\ Polling(t)' = Polling(t)
    BY <1>1 DEF Elsewhere, Executing, Polling
  <1>6. \A t \in Thread : t # x => /\ private_work'[t] = private_work[t] /\ Works'[t] = Works[t]
                                   /\ Strands'[t] = Strands[t] /\ Pollings'[t] = Pollings[t]
    BY <1>5 DEF Elsewhere, Works, Work, Strands, Pollings
  <1>7. \A y \in Actor : y # x => Queuings'[y] = Queuings[y] /\ AllLocks'[y] = AllLocks[y]
    BY <1>4 DEF Elsewhere, Queuings, AllLocks, Lock
  <1>8. /\ Value(private_work, x) = OwnWork(x) /\ Value(private_work', x) = OwnWork(x)'
        /\ Value(Works, x) = Own(Counted, x) + OwnRun(x) /\ Value(Works', x) = Own(Counted, x)' + OwnRun(x)'
        /\ Value(Queuings, x) = BeingQueued(Counted, x) /\ Value(Queuings', x) = BeingQueued(Counted, x)'
        /\ Value(Strands, x) = Own({"strand"}, x) /\ Value(Strands', x) = Own({"strand"}, x)'
        /\ Value(AllLocks, x) = Count(Entries, frames[x]) + BeingQueued({"strand"}, x)
        /\ Value(AllLocks', x) = Count(Entries, frames'[x]) + BeingQueued({"strand"}, x)'
        /\ Value(Pollings, x) = OwnPoll(x) /\ Value(Pollings', x) = OwnPoll(x)'
    BY <1>2, <1>3 DEF Value, OwnWork, Own, OwnRun, OwnPoll, Works, Work, Queuings, Strands, AllLocks, Lock, Pollings
  <1>9. /\ Total(private_work) \in Nat /\ Total(private_work') \in Nat
        /\ Total(private_work) + Value(private_work', x) = Total(private_work') + Value(private_work, x)
    <2>1. private_work \in [Thread -> Nat] /\ private_work' \in [Thread -> Nat]
      BY <1>2, <1>3
    <2>2. \A t \in Thread : t # x => private_work'[t] = private_work[t]
      BY <1>6
    <2> QED  BY <1>1, <2>1, <2>2, SumMoves
  <1>10. /\ Total(Works) \in Nat /\ Total(Works') \in Nat
         /\ Total(Works) + Value(Works', x) = Total(Works') + Value(Works, x)
    <2>1. Works \in [Thread -> Nat] /\ Works' \in [Thread -> Nat]
      BY <1>2, <1>3
    <2>2. \A t \in Thread : t # x => Works'[t] = Works[t]
      BY <1>6
    <2> QED  BY <1>1, <2>1, <2>2, SumMoves
  <1>11. /\ Total(Queuings) \in Nat /\ Total(Queuings') \in Nat
         /\ Total(Queuings) + Value(Queuings', x) = Total(Queuings') + Value(Queuings, x)
    <2>1. Queuings \in [Actor -> Nat] /\ Queuings' \in [Actor -> Nat]
      BY <1>2, <1>3
    <2>2. \A y \in Actor : y # x => Queuings'[y] = Queuings[y]
      BY <1>7
    <2> QED  BY <1>1, <2>1, <2>2, SumMoves
  <1>12. /\ Total(Strands) \in Nat /\ Total(Strands') \in Nat /\ Value(Strands, x) <= Total(Strands)
         /\ Total(Strands) + Value(Strands', x) = Total(Strands') + Value(Strands, x)
    <2>1. Strands \in [Thread -> Nat] /\ Strands' \in [Thread -> Nat]
      BY <1>2, <1>3
    <2>2. \A t \in Thread : t # x => Strands'[t] = Strands[t]
      BY <1>6
    <2> QED  BY <1>1, <2>1, <2>2, SumMoves
  <1>13. /\ Total(AllLocks) \in Nat /\ Total(AllLocks') \in Nat /\ Value(AllLocks, x) <= Total(AllLocks)
         /\ Total(AllLocks) + Value(AllLocks', x) = Total(AllLocks') + Value(AllLocks, x)
    <2>1. AllLocks \in [Actor -> Nat] /\ AllLocks' \in [Actor -> Nat]
      BY <1>2, <1>3
    <2>2. \A y \in Actor : y # x => AllLocks'[y] = AllLocks[y]
      BY <1>7
    <2> QED  BY <1>1, <2>1, <2>2, SumMoves
  <1>14. /\ Total(Pollings) \in Nat /\ Total(Pollings') \in Nat /\ Value(Pollings, x) <= Total(Pollings)
         /\ Total(Pollings) + Value(Pollings', x) = Total(Pollings') + Value(Pollings, x)
    <2>1. Pollings \in [Thread -> Nat] /\ Pollings' \in [Thread -> Nat]
      BY <1>2, <1>3
    <2>2. \A t \in Thread : t # x => Pollings'[t] = Pollings[t]
      BY <1>6
    <2> QED  BY <1>1, <2>1, <2>2, SumMoves
  <1>15. /\ \A names : Own(names, x) \in Nat
         /\ OwnWork(x) \in Nat /\ OwnRun(x) \in Nat /\ Count(Entries, frames[x]) \in Nat
         /\ \A names : BeingQueued(names, x) \in Nat
    BY OwnTypes DEF OwnsTyped
  <1>16. /\ \A names : Own(names, x)' \in Nat
         /\ OwnWork(x)' \in Nat /\ OwnRun(x)' \in Nat /\ Count(Entries, frames[x])' \in Nat
         /\ \A names : BeingQueued(names, x)' \in Nat
    <2>1. (Types => OwnsTyped)'
      BY OwnTypes, PTL
    <2> QED  BY <2>1 DEF OwnsTyped
  <1>17. /\ Total(Works)' = Total(Works') /\ Total(Queuings)' = Total(Queuings')
         /\ Total(Strands)' = Total(Strands') /\ Total(AllLocks)' = Total(AllLocks')
         /\ Total(Pollings)' = Total(Pollings')
    BY DEF Total
  <1> HIDE DEF Total
  <1>21. Total(Works) + Own(Counted, x)' + OwnRun(x)' = Total(Works)' + Own(Counted, x) + OwnRun(x)
    BY <1>8, <1>10, <1>15, <1>16, <1>17
  <1>22. Total(AllLocks) + Count(Entries, frames'[x]) + BeingQueued({"strand"}, x)' =
                  Total(AllLocks)' + Count(Entries, frames[x]) + BeingQueued({"strand"}, x)
    BY <1>8, <1>13, <1>15, <1>16, <1>17
  <1> QED  BY <1>8, <1>9, <1>10, <1>11, <1>12, <1>13, <1>14, <1>17, <1>21, <1>22

-----------------------------------------------------------------------------
(***************************************************************************)
(* A step of a call: the operations "in" come into being.  They wait to be *)
(* queued by the call that x is in then, or are in the thread's own queue  *)
(* (the third case); or what such a call had becomes queued (the second).  *)
(***************************************************************************)
Flow(x, in, enters) ==
    /\ Stacked(x) /\ in \in Seq(Op)
    /\ \/ /\ Pending(frames[x]) = <<>> /\ Pending(frames'[x]) = in
          /\ UNCHANGED <<op_queue, private, private_work>>
       \/ /\ in = <<>> /\ Pending(frames'[x]) = <<>>
          /\ op_queue' = op_queue \o Pending(frames[x])
          /\ UNCHANGED <<private, private_work>>
       \/ /\ x \in Thread /\ at[x] = "running"
          /\ Pending(frames[x]) = <<>> /\ Pending(frames'[x]) = <<>>
          /\ \E o \in Op : /\ in = <<o>> /\ o.call \in Counted
                           /\ private' = [private EXCEPT ![x] = Append(@, o)]
          /\ private_work' = [private_work EXCEPT ![x] = @ + 1]
          /\ UNCHANGED op_queue
    /\ Count(Entries, frames'[x]) = Count(Entries, frames[x]) + enters
    /\ ~Performs(frames'[x])
    /\ x \in Thread => at'[x] = at[x] /\ (at[x] = "running" \/ frames'[x] = <<>>)
    /\ \A t \in Thread : t # x => at'[t] = at[t] \/ (at[t] = "new" /\ at'[t] = "start")
    /\ owner' = owner
    /\ waiting' \cup notified' = waiting \cup notified /\ waiting' \cap notified' = {}

Performing(x) == IF Performs(frames[x]) THEN 1 ELSE 0

LEMMA FlowTypes ==
    ASSUME TypeInv, NEW x \in Actor, NEW in, NEW enters, Flow(x, in, enters)
    PROVE  /\ op_queue' \in Seq(Op) /\ private' \in [Thread -> Seq(Op)]
           /\ private_work' \in [Thread -> Nat] /\ frames' \in [Actor -> Seq(Frame)]
  <1>1. /\ op_queue \in Seq(Op) /\ private \in [Thread -> Seq(Op)]
        /\ private_work \in [Thread -> Nat] /\ frames[x] \in Seq(Frame)
    BY DEF TypeInv, Types
  <1>2. Pending(frames[x]) \in Seq(Op)
    BY <1>1, PendingType
  <1>3. op_queue \o Pending(frames[x]) \in Seq(Op)
    BY <1>1, <1>2, ConcatProperties
  <1>4. ASSUME x \in Thread, NEW o \in Op, private' = [private EXCEPT ![x] = Append(@, o)]
        PROVE  private' \in [Thread -> Seq(Op)]
    <2>1. Append(private[x], o) \in Seq(Op)
      BY <1>1, <1>4, AppendProperties
    <2> QED  BY <1>1, <1>4, <2>1
  <1>5. private' \in [Thread -> Seq(Op)]
    BY <1>1, <1>4 DEF Flow
  <1>6. op_queue' \in Seq(Op)
    BY <1>1, <1>3 DEF Flow
  <1>7. private_work' \in [Thread -> Nat]
    BY <1>1 DEF Flow
  <1>8. frames' \in [Actor -> Seq(Frame)]
    BY DEF Flow, Stacked
  <1> QED  BY <1>5, <1>6, <1>7, <1>8

LEMMA FlowLocal ==
    ASSUME TypeInv, NEW x \in Actor, NEW in, NEW enters, Flow(x, in, enters), Types'
    PROVE  /\ Elsewhere(x)
           /\ \A names :
                 /\ Count(names, op_queue') + Own(names, x)' + BeingQueued(names, x)' =
                       Count(names, op_queue) + Own(names, x) + BeingQueued(names, x) + Count(names, in)
                 /\ Count(names, in) \in Nat
           /\ OwnWork(x)' + Own(Counted, x) = OwnWork(x) + Own(Counted, x)'
           /\ OwnRun(x)' = OwnRun(x) + Performing(x)
           /\ OwnPoll(x)' = OwnPoll(x)
  <1>1. /\ op_queue \in Seq(Op) /\ private \in [Thread -> Seq(Op)]
        /\ private_work \in [Thread -> Nat] /\ frames[x] \in Seq(Frame)
    BY DEF TypeInv, Types
  <1>2. Pending(frames[x]) \in Seq(Op) /\ in \in Seq(Op)
    BY <1>1, PendingType DEF Flow
  <1>3. \A names : /\ BeingQueued(names, x) = Count(names, Pending(frames[x]))
                   /\ BeingQueued(names, x)' = Count(names, Pending(frames'[x]))
    BY BeingQueuedIs
  <1>4. \A names : /\ Count(names, op_queue) \in Nat /\ Own(names, x) \in Nat
                   /\ Count(names, Pending(frames[x])) \in Nat /\ Count(names, in) \in Nat
                   /\ Count(names, <<>>) = 0
    BY <1>1, <1>2, CountType, CountEmpty DEF Own
  <1>5. Elsewhere(x)
    BY <1>1 DEF Flow, Stacked, Elsewhere
  <1>6. OwnPoll(x)' = OwnPoll(x)
    BY DEF Flow, OwnPoll, Polling
  <1>7. OwnRun(x)' = OwnRun(x) + Performing(x)
    <2>1. CASE x \notin Thread
      <3>1. x \in Outside
        BY <2>1 DEF Actor
      <3>2. ~Performs(frames[x])
        <4>1. \A i \in 1..Len(frames[x]) : frames[x][i].call \in {"handler", "enqueue", "await"}
          BY <3>1 DEF TypeInv, StackInv
        <4>2. frames[x] # <<>> => 1 \in 1..Len(frames[x])
          BY <1>1, EmptySeq
        <4> QED  BY <4>1, <4>2 DEF Performs
      <3> QED  BY <2>1, <3>2 DEF OwnRun, Performing
    <2>2. CASE x \in Thread /\ Performs(frames[x])
      <3>1. frames[x] # <<[call |-> "stop"]>> /\ frames[x] # <<>>
        BY <2>2 DEF Performs
      <3>2. at[x] = "running"
        BY <2>2, <3>1 DEF TypeInv, ThreadInv
      <3> QED  BY <2>2, <3>2 DEF Flow, OwnRun, Performing, Executing, Performs
    <2>3. CASE x \in Thread /\ ~Performs(frames[x])
      BY <2>3 DEF Flow, OwnRun, Performing, Executing, Performs
    <2> QED  BY <2>1, <2>2, <2>3
  <1>8. CASE /\ Pending(frames[x]) = <<>> /\ Pending(frames'[x]) = in
             /\ UNCHANGED <<op_queue, private, private_work>>
    <2>1. /\ \A names : Own(names, x)' = Own(names, x)
          /\ OwnWork(x)' = OwnWork(x)
      BY <1>8 DEF Own, OwnWork
    <2>2. OwnWork(x) \in Nat
      BY <1>1 DEF OwnWork
    <2> QED  BY <1>3, <1>4, <1>5, <1>6, <1>7, <1>8, <2>1, <2>2
  <1>9. CASE /\ in = <<>> /\ Pending(frames'[x]) = <<>>
             /\ op_queue' = op_queue \o Pending(frames[x])
             /\ UNCHANGED <<private, private_work>>
    <2>1. /\ \A names : Own(names, x)' = Own(names, x)
          /\ OwnWork(x)' = OwnWork(x)
      BY <1>9 DEF Own, OwnWork
    <2>2. \A names : Count(names, op_queue') = Count(names, op_queue) + Count(names, Pending(frames[x]))
      BY <1>1, <1>2, <1>9, CountConcat
    <2>3. OwnWork(x) \in Nat
      BY <1>1 DEF OwnWork
    <2> QED  BY <1>3, <1>4, <1>5, <1>6, <1>7, <1>9, <2>1, <2>2, <2>3
  <1>10. CASE /\ x \in Thread /\ at[x] = "running"
              /\ Pending(frames[x]) = <<>> /\ Pending(frames'[x]) = <<>>
              /\ \E o \in Op : /\ in = <<o>> /\ o.call \in Counted
                               /\ private' = [private EXCEPT ![x] = Append(@, o)]
              /\ private_work' = [private_work EXCEPT ![x] = @ + 1]
              /\ UNCHANGED op_queue
    <2>1. PICK o \in Op : /\ in = <<o>> /\ o.call \in Counted
                          /\ private' = [private EXCEPT ![x] = Append(@, o)]
      BY <1>10
    <2>2. private[x] \in Seq(Op) /\ private'[x] = private[x] \o in
      BY <1>1, <1>10, <2>1, AppendIsConcat
    <2>3. ASSUME NEW names PROVE Own(names, x)' = Own(names, x) + Count(names, in)
      <3>1. Count(names, private[x] \o in) = Count(names, private[x]) + Count(names, in)
        BY <1>2, <2>2, CountConcat
      <3> QED  BY <1>10, <2>2, <3>1 DEF Own
    <2>4. Count(Counted, in) = 1
      BY <2>1, CountOne
    <2>5. OwnWork(x)' = OwnWork(x) + 1 /\ OwnWork(x) \in Nat
      BY <1>1, <1>10 DEF OwnWork
    <2>6. OwnWork(x)' + Own(Counted, x) = OwnWork(x) + Own(Counted, x)'
      BY <1>4, <2>3, <2>4, <2>5
    <2> QED  BY <1>3, <1>4, <1>5, <1>6, <1>7, <1>10, <2>3, <2>6
  <1> QED  BY <1>8, <1>9, <1>10 DEF Flow

LEMMA FlowThreads ==
    ASSUME TypeInv, NEW x \in Actor, NEW in, NEW enters, Flow(x, in, enters), Types'
    PROVE  TypeInv'
  <1>1. Elsewhere(x) /\ OwnWork(x)' + Own(Counted, x) = OwnWork(x) + Own(Counted, x)'
    BY FlowLocal
  <1>2. /\ Thread \subseteq Actor /\ private \in [Thread -> Seq(Op)]
        /\ private_work \in [Thread -> Nat] /\ private_work' \in [Thread -> Nat]
        /\ private' \in [Thread -> Seq(Op)]
    BY DEF Actor, TypeInv, Types
  <1>3. ASSUME NEW t \in Thread
        PROVE  /\ (at'[t] = "wait") <=> (t \in waiting' \cup notified')
               /\ at'[t] # "running" /\ frames'[t] # <<>> =>
                     frames'[t] = <<[call |-> "stop"]>> /\ at'[t] \in {"loop", "flush", "returned"}
               /\ at'[t] \in {"new", "start", "loop", "wait", "returned", "poll", "block"} => private'[t] = <<>>
               /\ private_work'[t] <= Count(Counted, private'[t])
               /\ at'[t] # "running" => private_work'[t] = 0
    <2>0. /\ (at[t] = "wait") <=> (t \in waiting \cup notified)
          /\ at[t] # "running" /\ frames[t] # <<>> =>
                frames[t] = <<[call |-> "stop"]>> /\ at[t] \in {"loop", "flush", "returned"}
          /\ at[t] \in {"new", "start", "loop", "wait", "returned", "poll", "block"} => private[t] = <<>>
          /\ private_work[t] <= Count(Counted, private[t])
          /\ at[t] # "running" => private_work[t] = 0
      BY DEF TypeInv, ThreadInv
    <2>1. CASE t # x
      BY <1>1, <1>2, <2>0, <2>1 DEF Elsewhere, Flow
    <2>2. CASE t = x
      <3>1. private'[x] = private[x] \/ at[x] = "running"
        BY DEF Flow
      <3>2. private_work'[x] <= Count(Counted, private'[x])
        <4>1. Count(Counted, private[x]) \in Nat /\ Count(Counted, private'[x]) \in Nat
          BY <1>2, <2>2, CountType
        <4>2. private_work[x] \in Nat /\ private_work'[x] \in Nat
          BY <1>2, <2>2
        <4>3. private_work'[x] + Count(Counted, private[x]) = private_work[x] + Count(Counted, private'[x])
          BY <1>1, <2>2 DEF OwnWork, Own
        <4> QED  BY <2>0, <2>2, <4>1, <4>2, <4>3
      <3>3. at'[x] = at[x] /\ (at[x] = "running" \/ frames'[x] = <<>>)
        BY <2>2 DEF Flow
      <3>4. waiting' \cup notified' = waiting \cup notified
        BY DEF Flow
      <3>5. private_work'[x] = private_work[x] \/ at[x] = "running"
        BY DEF Flow
      <3> QED  BY <2>0, <2>2, <3>1, <3>2, <3>3, <3>4, <3>5
    <2> QED  BY <2>1, <2>2
  <1>4. owner' = Nobody \/ (owner' \in Thread /\ at'[owner'] = "loop")
    <2>1. owner = Nobody \/ (owner \in Thread /\ at[owner] = "loop")
      BY DEF TypeInv, ThreadInv
    <2> QED  BY <2>1 DEF Flow
  <1>5. ThreadInv'
    BY <1>3, <1>4 DEF ThreadInv, Flow
  <1>6. StackInv'
    BY DEF Flow, Stacked
  <1> QED  BY <1>5, <1>6 DEF TypeInv

\* What a step of x does to the sums is what it does at x.
LEMMA WorkMoves ==
    ASSUME Types, Types', NEW x \in Actor, Elsewhere(x), WorkAccounted,
           outstanding_work' + OwnWork(x)'
             + (Count(Counted, op_queue) + Len(queued["read"]) + Len(queued["write"])
                + Own(Counted, x) + OwnRun(x) + BeingQueued(Counted, x)) =
           outstanding_work + OwnWork(x)
             + (Count(Counted, op_queue') + Len(queued'["read"]) + Len(queued'["write"])
                + Own(Counted, x)' + OwnRun(x)' + BeingQueued(Counted, x)')
    PROVE  WorkAccounted'
  <1>1. /\ Total(private_work) + OwnWork(x)' = Total(private_work') + OwnWork(x)
        /\ Total(Works) + Own(Counted, x)' + OwnRun(x)' = Total(Works)' + Own(Counted, x) + OwnRun(x)
        /\ Total(Queuings) + BeingQueued(Counted, x)' = Total(Queuings)' + BeingQueued(Counted, x)
        /\ Total(private_work) \in Nat /\ Total(private_work') \in Nat
        /\ Total(Works) \in Nat /\ Total(Works)' \in Nat
        /\ Total(Queuings) \in Nat /\ Total(Queuings)' \in Nat
    BY Balance
  <1>2. /\ Own(Counted, x) \in Nat /\ BeingQueued(Counted, x) \in Nat /\ Count(Counted, op_queue) \in Nat
        /\ OwnWork(x) \in Nat /\ OwnRun(x) \in Nat
        /\ Len(queued["read"]) \in Nat /\ Len(queued["write"]) \in Nat /\ outstanding_work \in Int
    BY OwnTypes DEF OwnsTyped, Types
  <1>3. /\ Own(Counted, x)' \in Nat /\ BeingQueued(Counted, x)' \in Nat /\ Count(Counted, op_queue') \in Nat
        /\ OwnWork(x)' \in Nat /\ OwnRun(x)' \in Nat
        /\ Len(queued'["read"]) \in Nat /\ Len(queued'["write"]) \in Nat /\ outstanding_work' \in Int
    <2>1. (Types => OwnsTyped)'
      BY OwnTypes, PTL
    <2> QED  BY <2>1 DEF OwnsTyped, Types
  <1>4. outstanding_work + Total(private_work) =
            Count(Counted, op_queue) + Len(queued["read"]) + Len(queued["write"])
            + Total(Works) + Total(Queuings)
    BY DEF WorkAccounted, Works, Work, Queuings
  <1>5. outstanding_work' + Total(private_work') =
            Count(Counted, op_queue') + Len(queued'["read"]) + Len(queued'["write"])
            + Total(Works)' + Total(Queuings)'
    <2> DEFINE w0 == outstanding_work  w1 == outstanding_work'
               c0 == Count(Counted, op_queue)  c1 == Count(Counted, op_queue')
               r0 == Len(queued["read"])  r1 == Len(queued'["read"])
               s0 == Len(queued["write"])  s1 == Len(queued'["write"])
               o0 == Own(Counted, x)  o1 == Own(Counted, x)'
               e0 == OwnRun(x)  e1 == OwnRun(x)'
               b0 == BeingQueued(Counted, x)  b1 == BeingQueued(Counted, x)'
               p0 == OwnWork(x)  p1 == OwnWork(x)'
               tp0 == Total(private_work)  tp1 == Total(private_work')
               tw0 == Total(Works)  tw1 == Total(Works)'
               tq0 == Total(Queuings)  tq1 == Total(Queuings)'
    <2>1. /\ tp0 + p1 = tp1 + p0 /\ tw0 + o1 + e1 = tw1 + o0 + e0 /\ tq0 + b1 = tq1 + b0
          /\ tp0 \in Nat /\ tp1 \in Nat /\ tw0 \in Nat /\ tw1 \in Nat /\ tq0 \in Nat /\ tq1 \in Nat
      BY <1>1
    <2>2. /\ o0 \in Nat /\ b0 \in Nat /\ c0 \in Nat /\ p0 \in Nat /\ e0 \in Nat
          /\ r0 \in Nat /\ s0 \in Nat /\ w0 \in Int
      BY <1>2
    <2>3. /\ o1 \in Nat /\ b1 \in Nat /\ c1 \in Nat /\ p1 \in Nat /\ e1 \in Nat
          /\ r1 \in Nat /\ s1 \in Nat /\ w1 \in Int
      BY <1>3
    <2>4. w0 + tp0 = c0 + r0 + s0 + tw0 + tq0
      BY <1>4
    <2>5. w1 + p1 + (c0 + r0 + s0 + o0 + e0 + b0) = w0 + p0 + (c1 + r1 + s1 + o1 + e1 + b1)
      OBVIOUS
    <2> HIDE DEF w0, w1, c0, c1, r0, r1, s0, s1, o0, o1, e0, e1, b0, b1, p0, p1, tp0, tp1, tw0, tw1, tq0, tq1
    <2>6. w1 + tp1 = c1 + r1 + s1 + tw1 + tq1
      BY <2>1, <2>2, <2>3, <2>4, <2>5
    <2> QED  BY <2>6 DEF w1, tp1, c1, r1, s1, tw1, tq1
  <1> QED  BY <1>5 DEF WorkAccounted, Works, Work, Queuings

LEMMA LocksMove ==
    ASSUME Types, Types', NEW x \in Actor, Elsewhere(x)
    PROVE  /\ Locks \in Nat /\ Locks' \in Nat
           /\ Locks' + (Count({"strand"}, op_queue) + Own({"strand"}, x)
                        + Count(Entries, frames[x]) + BeingQueued({"strand"}, x)) =
              Locks + (Count({"strand"}, op_queue') + Own({"strand"}, x)'
                        + Count(Entries, frames'[x]) + BeingQueued({"strand"}, x)')
           /\ Count({"strand"}, op_queue) + Own({"strand"}, x)
                        + Count(Entries, frames[x]) + BeingQueued({"strand"}, x) <= Locks
  <1>1. /\ Total(Strands) + Own({"strand"}, x)' = Total(Strands)' + Own({"strand"}, x)
        /\ Total(AllLocks) + Count(Entries, frames'[x]) + BeingQueued({"strand"}, x)' =
               Total(AllLocks)' + Count(Entries, frames[x]) + BeingQueued({"strand"}, x)
        /\ Total(Strands) \in Nat /\ Total(Strands)' \in Nat /\ Own({"strand"}, x) <= Total(Strands)
        /\ Total(AllLocks) \in Nat /\ Total(AllLocks)' \in Nat
        /\ Count(Entries, frames[x]) + BeingQueued({"strand"}, x) <= Total(AllLocks)
    BY Balance
  <1>2. /\ Own({"strand"}, x) \in Nat /\ BeingQueued({"strand"}, x) \in Nat
        /\ Count({"strand"}, op_queue) \in Nat /\ Count(Entries, frames[x]) \in Nat
    BY OwnTypes DEF OwnsTyped
  <1>3. /\ Own({"strand"}, x)' \in Nat /\ BeingQueued({"strand"}, x)' \in Nat
        /\ Count({"strand"}, op_queue') \in Nat /\ Count(Entries, frames'[x]) \in Nat
    <2>1. (Types => OwnsTyped)'
      BY OwnTypes, PTL
    <2> QED  BY <2>1 DEF OwnsTyped
  <1>4. Locks = Count({"strand"}, op_queue) + Total(Strands) + Total(AllLocks)
    BY DEF Locks, Strands, AllLocks, Lock
  <1>5. Locks' = Count({"strand"}, op_queue') + Total(Strands)' + Total(AllLocks)'
    BY DEF Locks, Strands, AllLocks, Lock
  <1> QED  BY <1>1, <1>2, <1>3, <1>4, <1>5

LEMMA FlowWork ==
    ASSUME TypeInv, NEW x \in Actor, NEW in, NEW enters, Flow(x, in, enters), Types', WorkAccounted,
           outstanding_work' + OwnWork(x)' + Len(queued["read"]) + Len(queued["write"]) =
             outstanding_work + OwnWork(x) + Count(Counted, in)
             + Len(queued'["read"]) + Len(queued'["write"]) + Performing(x)
    PROVE  WorkAccounted'
  <1>1. /\ Elsewhere(x)
        /\ Count(Counted, op_queue') + Own(Counted, x)' + BeingQueued(Counted, x)' =
              Count(Counted, op_queue) + Own(Counted, x) + BeingQueued(Counted, x) + Count(Counted, in)
        /\ Count(Counted, in) \in Nat
        /\ OwnRun(x)' = OwnRun(x) + Performing(x)
    BY FlowLocal
  <1>2. /\ Own(Counted, x) \in Nat /\ BeingQueued(Counted, x) \in Nat /\ Count(Counted, op_queue) \in Nat
        /\ OwnWork(x) \in Nat /\ OwnRun(x) \in Nat
        /\ Len(queued["read"]) \in Nat /\ Len(queued["write"]) \in Nat /\ outstanding_work \in Int
    BY OwnTypes DEF OwnsTyped, Types, TypeInv
  <1>3. /\ Own(Counted, x)' \in Nat /\ BeingQueued(Counted, x)' \in Nat /\ Count(Counted, op_queue') \in Nat
        /\ OwnWork(x)' \in Nat /\ OwnRun(x)' \in Nat
        /\ Len(queued'["read"]) \in Nat /\ Len(queued'["write"]) \in Nat /\ outstanding_work' \in Int
    <2>1. (Types => OwnsTyped)'
      BY OwnTypes, PTL
    <2> QED  BY <2>1 DEF OwnsTyped, Types
  <1>4. Performing(x) \in Nat
    BY DEF Performing
  <1>5. outstanding_work' + OwnWork(x)'
             + (Count(Counted, op_queue) + Len(queued["read"]) + Len(queued["write"])
                + Own(Counted, x) + OwnRun(x) + BeingQueued(Counted, x)) =
           outstanding_work + OwnWork(x)
             + (Count(Counted, op_queue') + Len(queued'["read"]) + Len(queued'["write"])
                + Own(Counted, x)' + OwnRun(x)' + BeingQueued(Counted, x)')
    <2> DEFINE w0 == outstanding_work  w1 == outstanding_work'
               c0 == Count(Counted, op_queue)  c1 == Count(Counted, op_queue')
               r0 == Len(queued["read"])  r1 == Len(queued'["read"])
               s0 == Len(queued["write"])  s1 == Len(queued'["write"])
               o0 == Own(Counted, x)  o1 == Own(Counted, x)'
               e0 == OwnRun(x)  e1 == OwnRun(x)'
               b0 == BeingQueued(Counted, x)  b1 == BeingQueued(Counted, x)'
               p0 == OwnWork(x)  p1 == OwnWork(x)'
               i == Count(Counted, in)  d == Performing(x)
    <2>1. c1 + o1 + b1 = c0 + o0 + b0 + i /\ i \in Nat /\ e1 = e0 + d /\ d \in Nat
      BY <1>1, <1>4
    <2>2. /\ o0 \in Nat /\ b0 \in Nat /\ c0 \in Nat /\ p0 \in Nat /\ e0 \in Nat
          /\ r0 \in Nat /\ s0 \in Nat /\ w0 \in Int
      BY <1>2
    <2>3. /\ o1 \in Nat /\ b1 \in Nat /\ c1 \in Nat /\ p1 \in Nat /\ e1 \in Nat
          /\ r1 \in Nat /\ s1 \in Nat /\ w1 \in Int
      BY <1>3
    <2>4. w1 + p1 + r0 + s0 = w0 + p0 + i + r1 + s1 + d
      OBVIOUS
    <2> HIDE DEF w0, w1, c0, c1, r0, r1, s0, s1, o0, o1, e0, e1, b0, b1, p0, p1, i, d
    <2>5. w1 + p1 + (c0 + r0 + s0 + o0 + e0 + b0) = w0 + p0 + (c1 + r1 + s1 + o1 + e1 + b1)
      BY <2>1, <2>2, <2>3, <2>4
    <2> QED  BY <2>5 DEF w0, w1, c0, c1, r0, r1, s0, s1, o0, o1, e0, e1, b0, b1, p0, p1
  <1> QED  BY <1>1, <1>5, WorkMoves DEF TypeInv

LEMMA FlowLocks ==
    ASSUME TypeInv, NEW x \in Actor, NEW in, NEW enters \in Int, Flow(x, in, enters), Types'
    PROVE  /\ Locks \in Nat /\ Locks' \in Nat /\ Locks' = Locks + Count({"strand"}, in) + enters
           /\ Count(Entries, frames[x]) <= Locks
           /\ Count({"strand"}, in) \in Nat
  <1>1. /\ Elsewhere(x)
        /\ Count({"strand"}, op_queue') + Own({"strand"}, x)' + BeingQueued({"strand"}, x)' =
              Count({"strand"}, op_queue) + Own({"strand"}, x) + BeingQueued({"strand"}, x) + Count({"strand"}, in)
        /\ Count({"strand"}, in) \in Nat
    BY FlowLocal
  <1>2. /\ Own({"strand"}, x) \in Nat /\ BeingQueued({"strand"}, x) \in Nat
        /\ Count({"strand"}, op_queue) \in Nat /\ Count(Entries, frames[x]) \in Nat
    BY OwnTypes DEF OwnsTyped, TypeInv
  <1>3. /\ Own({"strand"}, x)' \in Nat /\ BeingQueued({"strand"}, x)' \in Nat
        /\ Count({"strand"}, op_queue') \in Nat /\ Count(Entries, frames'[x]) \in Nat
    <2>1. (Types => OwnsTyped)'
      BY OwnTypes, PTL
    <2> QED  BY <2>1 DEF OwnsTyped
  <1>4. /\ Locks \in Nat /\ Locks' \in Nat
        /\ Locks' + (Count({"strand"}, op_queue) + Own({"strand"}, x)
                     + Count(Entries, frames[x]) + BeingQueued({"strand"}, x)) =
           Locks + (Count({"strand"}, op_queue') + Own({"strand"}, x)'
                     + Count(Entries, frames'[x]) + BeingQueued({"strand"}, x)')
        /\ Count({"strand"}, op_queue) + Own({"strand"}, x)
                     + Count(Entries, frames[x]) + BeingQueued({"strand"}, x) <= Locks
    BY <1>1, LocksMove DEF TypeInv
  <1>5. Count(Entries, frames'[x]) = Count(Entries, frames[x]) + enters
    BY DEF Flow
  <1> QED  BY <1>1, <1>2, <1>3, <1>4, <1>5

-----------------------------------------------------------------------------
(***************************************************************************)
(* The order of the task and the descriptor's operation in the queue.      *)
(***************************************************************************)
LEMMA CountNone ==
    ASSUME NEW q \in Seq(Op)
    PROVE  /\ Count({"task"}, q) \in Nat /\ Count({"perform"}, q) \in Nat
           /\ Count({"task", "perform"}, q) = 0 <=> Count({"task"}, q) = 0 /\ Count({"perform"}, q) = 0
           /\ Count({"task"}, q) = 0 <=> \A i \in 1..Len(q) : q[i].call # "task"
           /\ Count({"perform"}, q) = 0 <=> \A i \in 1..Len(q) : q[i].call # "perform"
  <1>1. /\ Count({"task", "perform"}, q) = 0 <=> \A i \in 1..Len(q) : q[i].call \notin {"task", "perform"}
        /\ Count({"task"}, q) = 0 <=> \A i \in 1..Len(q) : q[i].call \notin {"task"}
        /\ Count({"perform"}, q) = 0 <=> \A i \in 1..Len(q) : q[i].call \notin {"perform"}
        /\ Count({"task"}, q) \in Nat /\ Count({"perform"}, q) \in Nat
    BY CountType
  <1> QED  BY <1>1

LEMMA OrderKept ==
    ASSUME NEW q \in Seq(Op), NEW r \in Seq(Op), TaskOrder(q), Count({"task", "perform"}, r) = 0
    PROVE  TaskOrder(q \o r) /\ Count({"task"}, q \o r) = Count({"task"}, q)
  <1> DEFINE u == q \o r
  <1>1. /\ Count({"task"}, r) = 0 /\ Count({"perform"}, r) = 0
        /\ \A i \in 1..Len(r) : r[i].call # "task" /\ r[i].call # "perform"
    BY CountNone
  <1>2. /\ Count({"task"}, q) \in Nat /\ Count({"perform"}, q) \in Nat
    BY CountNone
  <1>3. Count({"task"}, u) = Count({"task"}, q) /\ Count({"perform"}, u) = Count({"perform"}, q)
    BY <1>1, <1>2, CountConcat
  <1>4. /\ Len(q) \in Nat /\ Len(r) \in Nat /\ Len(u) = Len(q) + Len(r)
        /\ \A i \in 1..(Len(q) + Len(r)) : u[i] = IF i <= Len(q) THEN q[i] ELSE r[i - Len(q)]
    BY ConcatProperties, LenProperties
  <1> HIDE DEF u
  <1>5. \A i \in 1..Len(u) : u[i].call \in {"task", "perform"} => i \in 1..Len(q) /\ u[i] = q[i]
    <2> SUFFICES ASSUME NEW i \in 1..Len(u), u[i].call \in {"task", "perform"}
                 PROVE  i \in 1..Len(q) /\ u[i] = q[i]
      OBVIOUS
    <2>1. CASE i <= Len(q)
      BY <1>4, <2>1
    <2>2. CASE ~(i <= Len(q))
      <3>1. i - Len(q) \in 1..Len(r) /\ u[i] = r[i - Len(q)]
        BY <1>4, <2>2
      <3> QED  BY <1>1, <3>1
    <2> QED  BY <2>1, <2>2
  <1>6. \A i, j \in 1..Len(u) : u[i].call = "task" /\ u[j].call = "perform" => j < i
    BY <1>5 DEF TaskOrder
  <1>7. TaskOrder(u)
    BY <1>3, <1>6 DEF TaskOrder
  <1> QED  BY <1>3, <1>7 DEF u

LEMMA OrderTail ==
    ASSUME NEW q \in Seq(Op), q # <<>>, TaskOrder(q)
    PROVE  /\ TaskOrder(Tail(q)) /\ Tail(q) \in Seq(Op) /\ Head(q) \in Op
           /\ Count({"task"}, q) = Count({"task"}, Tail(q)) + (IF Head(q) = Task THEN 1 ELSE 0)
           /\ Head(q) = Task => Count({"perform"}, q) = 0
  <1> DEFINE r == Tail(q)
             h == Head(q)
  <1>1. /\ Len(q) \in Nat /\ Len(q) >= 1 /\ h = q[1] /\ h \in Op
        /\ r \in Seq(Op) /\ Len(r) = Len(q) - 1
        /\ \A k \in 1..(Len(q) - 1) : r[k] = q[k + 1]
    BY HeadTailParts
  <1>2. h.call = "task" <=> h = Task
    BY <1>1, OpIs
  <1>3. /\ Count({"task"}, q) = Count({"task"}, r) + (IF h.call \in {"task"} THEN 1 ELSE 0)
        /\ Count({"perform"}, q) = Count({"perform"}, r) + (IF h.call \in {"perform"} THEN 1 ELSE 0)
    BY CountHead
  <1> HIDE DEF r, h
  <1>4. /\ Count({"task"}, r) \in Nat /\ Count({"perform"}, r) \in Nat
        /\ Count({"perform"}, r) = 0 <=> \A i \in 1..Len(r) : r[i].call # "perform"
    BY <1>1, CountNone
  <1>5. h.call = "task" => Count({"perform"}, q) = 0
    <2>1. SUFFICES ASSUME h.call = "task" PROVE \A i \in 1..Len(q) : q[i].call # "perform"
      BY CountNone
    <2> QED  BY <1>1, <2>1 DEF TaskOrder
  <1>6. TaskOrder(r)
    <2>1. CASE h.call \in {"task", "perform"}
      <3>1. Count({"perform"}, r) = 0
        BY <1>3, <1>4, <1>5, <2>1 DEF TaskOrder
      <3> QED  BY <1>4, <3>1 DEF TaskOrder
    <2>2. CASE h.call \notin {"task", "perform"}
      <3>1. Count({"task"}, q) = Count({"task"}, r) /\ Count({"perform"}, q) = Count({"perform"}, r)
        BY <1>3, <1>4, <2>2
      <3>2. \A i, j \in 1..Len(r) : r[i].call = "task" /\ r[j].call = "perform" => j < i
        <4> SUFFICES ASSUME NEW i \in 1..Len(r), NEW j \in 1..Len(r), r[i].call = "task", r[j].call = "perform"
                     PROVE  j < i
          OBVIOUS
        <4>1. i + 1 \in 1..Len(q) /\ j + 1 \in 1..Len(q) /\ q[i + 1] = r[i] /\ q[j + 1] = r[j]
          BY <1>1
        <4>2. j + 1 < i + 1
          BY <4>1 DEF TaskOrder
        <4> QED  BY <1>1, <4>2
      <3> QED  BY <3>1, <3>2 DEF TaskOrder
    <2> QED  BY <2>1, <2>2
  <1> QED  BY <1>1, <1>2, <1>3, <1>5, <1>6 DEF r, h

LEMMA OrderTask ==
    ASSUME NEW q \in Seq(Op), TaskOrder(q), Count({"task"}, q) = 0,
           NEW r \in Seq(Op), Count({"task"}, r) = 0, Count({"perform"}, r) <= 1
    PROVE  LET u == Append(q \o r, Task)
           IN  u \in Seq(Op) /\ TaskOrder(u) /\ Count({"task"}, u) = 1
  <1> DEFINE v == q \o r
             u == Append(v, Task)
  <1>0. Task \in Op /\ Task.call = "task"
    BY OpsAre
  <1>1. Count({"perform"}, q) = 0
    BY CountNone DEF TaskOrder
  <1>2. /\ v \in Seq(Op) /\ Count({"task"}, v) = 0 /\ Count({"perform"}, v) = Count({"perform"}, r)
    <2>1. v \in Seq(Op)
      BY ConcatProperties
    <2>2. /\ Count({"task"}, v) = Count({"task"}, q) + Count({"task"}, r)
          /\ Count({"perform"}, v) = Count({"perform"}, q) + Count({"perform"}, r)
      BY CountConcat
    <2>3. Count({"perform"}, r) \in Nat
      BY CountNone
    <2> QED  BY <1>1, <2>1, <2>2, <2>3
  <1> HIDE DEF v
  <1>3. /\ u \in Seq(Op) /\ Len(v) \in Nat /\ Len(u) = Len(v) + 1 /\ u[Len(v) + 1] = Task
        /\ \A k \in 1..Len(v) : u[k] = v[k]
    BY <1>0, <1>2, AppendParts
  <1>4. u = v \o <<Task>> /\ <<Task>> \in Seq(Op)
    BY <1>0, <1>2, AppendIsConcat
  <1>5. Count({"task"}, <<Task>>) = 1 /\ Count({"perform"}, <<Task>>) = 0
    BY <1>0, CountOne
  <1>7. Count({"perform"}, r) \in Nat
    BY CountNone
  <1>6. Count({"task"}, u) = 1 /\ Count({"perform"}, u) = Count({"perform"}, r)
    <2> DEFINE w == <<Task>>
    <2> HIDE DEF w, u
    <2>1. u = v \o w /\ w \in Seq(Op)
      BY <1>4 DEF w
    <2>2. /\ Count({"task"}, v \o w) = Count({"task"}, v) + Count({"task"}, w)
          /\ Count({"perform"}, v \o w) = Count({"perform"}, v) + Count({"perform"}, w)
      BY <1>2, <2>1, CountConcat
    <2>3. Count({"task"}, w) = 1 /\ Count({"perform"}, w) = 0
      BY <1>5 DEF w
    <2> QED  BY <1>2, <1>7, <2>1, <2>2, <2>3
  <1>8. \A i \in 1..Len(v) : v[i].call # "task"
    BY <1>2, CountNone
  <1> HIDE DEF u
  <1>9. \A i, j \in 1..Len(u) : u[i].call = "task" /\ u[j].call = "perform" => j < i
    BY <1>0, <1>3, <1>8
  <1>10. TaskOrder(u)
    BY <1>6, <1>7, <1>9 DEF TaskOrder
  <1> QED  BY <1>3, <1>6, <1>10 DEF u, v

LEMMA FlowTask ==
    ASSUME TypeInv, NEW x \in Actor, NEW in, NEW enters, Flow(x, in, enters), Types', TaskInv,
           Count({"task", "perform"}, in) = 0
    PROVE  TaskInv'
  <1>1. /\ op_queue \in Seq(Op) /\ private \in [Thread -> Seq(Op)] /\ frames[x] \in Seq(Frame)
        /\ in \in Seq(Op)
    BY DEF TypeInv, Types, Flow
  <1>2. Elsewhere(x) /\ OwnPoll(x)' = OwnPoll(x)
    BY FlowLocal
  <1>3. Pending(frames[x]) \in Seq(Op) /\ Count({"task", "perform"}, Pending(frames[x])) = 0
    BY <1>1, PendingType, BeingQueuedIs DEF TaskInv
  <1>4. TaskOrder(op_queue') /\ Count({"task"}, op_queue') = Count({"task"}, op_queue)
    <2>1. TaskOrder(op_queue)
      BY DEF TaskInv
    <2>2. CASE op_queue' = op_queue
      BY <2>1, <2>2
    <2>3. CASE op_queue' = op_queue \o Pending(frames[x])
      BY <1>1, <1>3, <2>1, <2>3, OrderKept
    <2> QED  BY <2>2, <2>3 DEF Flow
  <1>5. Total(Pollings)' = Total(Pollings)
    <2>1. /\ Total(Pollings) + OwnPoll(x)' = Total(Pollings)' + OwnPoll(x)
          /\ Total(Pollings) \in Nat /\ Total(Pollings)' \in Nat
      BY <1>2, Balance DEF TypeInv
    <2>2. OwnPoll(x) \in Nat
      BY DEF OwnPoll, Polling
    <2> QED  BY <1>2, <2>1, <2>2
  <1>6. Count({"task"}, op_queue') + Total([t \in Thread |-> Polling(t)])' = 1
    <2>1. Count({"task"}, op_queue) + Total(Pollings) = 1
      BY DEF TaskInv, Pollings
    <2>2. Count({"task"}, op_queue') + Total(Pollings)' = 1
      BY <1>4, <1>5, <2>1
    <2> QED  BY <2>2 DEF Pollings
  <1>7. ASSUME NEW t \in Thread
        PROVE  Count({"task"}, private'[t]) = 0 /\ Count({"perform"}, private'[t]) <= Polling(t)'
    <2>1. Count({"task"}, private[t]) = 0 /\ Count({"perform"}, private[t]) <= Polling(t)
      BY DEF TaskInv
    <2>2. Polling(t)' = Polling(t)
      BY <1>2 DEF Elsewhere, Polling, OwnPoll
    <2>3. CASE private'[t] = private[t]
      BY <2>1, <2>2, <2>3
    <2>4. CASE private'[t] # private[t]
      <3>1. PICK o \in Op : /\ in = <<o>> /\ t = x
                            /\ private' = [private EXCEPT ![x] = Append(@, o)]
        BY <1>1, <2>4 DEF Flow
      <3>2. private[t] \in Seq(Op) /\ private'[t] = private[t] \o in
        BY <1>1, <3>1, AppendIsConcat
      <3>3. Count({"task"}, in) = 0 /\ Count({"perform"}, in) = 0
        BY <1>1, CountNone
      <3>4. /\ Count({"task"}, private'[t]) = Count({"task"}, private[t]) + Count({"task"}, in)
            /\ Count({"perform"}, private'[t]) = Count({"perform"}, private[t]) + Count({"perform"}, in)
        BY <1>1, <3>2, CountConcat
      <3>5. Count({"task"}, private[t]) \in Nat /\ Count({"perform"}, private[t]) \in Nat
        BY <3>2, CountNone
      <3> QED  BY <2>1, <2>2, <3>3, <3>4, <3>5
    <2> QED  BY <2>3, <2>4
  <1>8. ASSUME NEW y \in Actor PROVE BeingQueued({"task", "perform"}, y)' = 0
    <2>1. CASE y # x
      BY <1>2, <2>1, BeingQueuedIs DEF Elsewhere, TaskInv
    <2>2. CASE y = x
      <3>1. Pending(frames'[x]) = in \/ Pending(frames'[x]) = <<>>
        BY DEF Flow
      <3> QED  BY <2>2, <3>1, BeingQueuedIs, CountEmpty
    <2> QED  BY <2>1, <2>2
  <1> QED  BY <1>4, <1>6, <1>7, <1>8 DEF TaskInv

-----------------------------------------------------------------------------
(***************************************************************************)
(* The invariant, and the calls that keep it.                              *)
(***************************************************************************)
Inv == TypeInv /\ WorkAccounted /\ TaskInv /\ StrandInv

\* An operation more is counted for each that comes into being, or that begins
\* to wait; the strand's lock has come into being where it is taken.
LEMMA FlowKeeps ==
    ASSUME Inv, NEW x \in Actor, NEW in, NEW enters \in Int, Flow(x, in, enters), Types',
           outstanding_work' + OwnWork(x)' + Len(queued["read"]) + Len(queued["write"]) =
             outstanding_work + OwnWork(x) + Count(Counted, in)
             + Len(queued'["read"]) + Len(queued'["write"]) + Performing(x),
           Count({"task", "perform"}, in) = 0,
           Count({"strand"}, in) + enters + (IF strand.locked THEN 1 ELSE 0) = IF strand'.locked THEN 1 ELSE 0,
           ~strand'.locked => strand'.ready = <<>> /\ strand'.waiting = <<>>
    PROVE  Inv' /\ Elsewhere(x)
  <1>0. TypeInv /\ WorkAccounted /\ TaskInv /\ StrandInv
    BY DEF Inv
  <1>1. TypeInv'
    BY <1>0, FlowThreads
  <1>2. WorkAccounted'
    BY <1>0, FlowWork
  <1>3. TaskInv'
    BY <1>0, FlowTask
  <1>4. /\ Locks' = Locks + Count({"strand"}, in) + enters /\ Locks \in Nat
        /\ Count({"strand"}, in) \in Nat
    BY <1>0, FlowLocks
  <1>5. StrandInv'
    <2>1. Locks = IF strand.locked THEN 1 ELSE 0
      BY <1>0 DEF StrandInv
    <2>2. Locks' = IF strand'.locked THEN 1 ELSE 0
      BY <1>4, <2>1
    <2> QED  BY <2>2 DEF StrandInv
  <1>6. Elsewhere(x)
    BY <1>0, FlowLocal
  <1> QED  BY <1>1, <1>2, <1>3, <1>5, <1>6 DEF Inv

\* Nothing is created, nothing but the top of the stack is another.
LEMMA PlainKeeps ==
    ASSUME Inv, NEW x \in Actor, Flow(x, <<>>, 0), Types', ~Performs(frames[x]),
           UNCHANGED <<outstanding_work, queued>>, strand'.locked = strand.locked,
           ~strand.locked => UNCHANGED strand
    PROVE  Inv' /\ Elsewhere(x)
  <1>1. Count(Counted, <<>>) = 0 /\ Count({"task", "perform"}, <<>>) = 0 /\ Count({"strand"}, <<>>) = 0
    BY CountEmpty
  <1>2. Performing(x) = 0
    BY DEF Performing
  <1>3. OwnWork(x)' + Own(Counted, x) = OwnWork(x) + Own(Counted, x)'
    BY FlowLocal DEF Inv
  <1>4. OwnWork(x)' = OwnWork(x)
    BY DEF Flow, OwnWork
  <1>5. /\ Len(queued["read"]) \in Nat /\ Len(queued["write"]) \in Nat /\ OwnWork(x) \in Nat
        /\ outstanding_work \in Int
    BY OwnTypes DEF OwnsTyped, Inv, TypeInv, Types
  <1>6. ~strand'.locked => strand'.ready = <<>> /\ strand'.waiting = <<>>
    BY DEF Inv, StrandInv
  <1>7. outstanding_work' + OwnWork(x)' + Len(queued["read"]) + Len(queued["write"]) =
             outstanding_work + OwnWork(x) + Count(Counted, <<>>)
             + Len(queued'["read"]) + Len(queued'["write"]) + Performing(x)
    BY <1>1, <1>2, <1>4, <1>5
  <1>8. Count({"strand"}, <<>>) + 0 + (IF strand.locked THEN 1 ELSE 0) = IF strand'.locked THEN 1 ELSE 0
    BY <1>1
  <1> QED  BY <1>1, <1>6, <1>7, <1>8, FlowKeeps

\* A call that queues these operations when it gets mutex_.
LEMMA Queueing ==
    ASSUME NEW q \in Seq(Op), NEW new, NEW a,
           new = PostDeferred(q) \/ new = <<[call |-> "enqueue", ops |-> q]>>
    PROVE  Called(a, new) /\ Pending(new) = q /\ Len(new) # 2
  <1> DEFINE e == [call |-> "enqueue", ops |-> q]
  <1>1. e \in Inside /\ e.call = "enqueue" /\ e.ops = q /\ e \in Frame
    BY FramesAre DEF Inside
  <1> HIDE DEF e
  <1>2. CASE new = <<>>
    <2>1. q = <<>>
      BY <1>2 DEF PostDeferred
    <2> QED  BY <1>2, <2>1 DEF Called, Pending
  <1>3. CASE new = <<e>>
    <2>1. Pending(<<e>>) = q
      BY <1>1, OneFrame
    <2>2. Called(a, new)
      BY <1>1, <1>3 DEF Called
    <2>3. Len(new) = 1
      BY <1>3
    <2> QED  BY <1>3, <2>1, <2>2, <2>3
  <1> QED  BY <1>2, <1>3 DEF PostDeferred, e

LEMMA NoCall ==
    ASSUME NEW a
    PROVE  Called(a, <<>>) /\ Pending(<<>>) = <<>> /\ Len(<<>>) = 0
  BY EmptyStack DEF Called

\* User code makes a call that leaves the thread's own queue alone.
LEMMA UserFlow ==
    ASSUME TypeInv, NEW x \in Actor, NEW kind, Calls(x, kind),
           NEW new, Advance(x, new), Called(frames[x], new), Len(new) = 2 => x \in Thread,
           UNCHANGED <<op_queue, private, private_work, owner>>,
           waiting' \cup notified' = waiting \cup notified, waiting' \cap notified' = {},
           x \in Thread => at'[x] = at[x],
           \A t \in Thread : t # x => at'[t] = at[t] \/ (at[t] = "new" /\ at'[t] = "start")
    PROVE  /\ Flow(x, Pending(new), IF Len(new) = 2 THEN 1 ELSE 0)
           /\ ~Performs(frames[x]) /\ Performing(x) = 0 /\ OwnWork(x)' = OwnWork(x)
           /\ Pending(new) \in Seq(Op)
  <1>1. /\ Stacked(x) /\ new \in Seq(Frame)
        /\ ~Performs(frames[x]) /\ ~Performs(frames'[x])
        /\ Pending(frames[x]) = <<>> /\ Pending(frames'[x]) = Pending(new)
        /\ Count(Entries, frames'[x]) = Count(Entries, frames[x]) + Count(Entries, new)
        /\ Count(Entries, new) = IF Len(new) = 2 THEN 1 ELSE 0
        /\ x \in Thread => at[x] = "running"
    BY UserMoves
  <1>2. Pending(new) \in Seq(Op)
    BY <1>1, PendingType
  <1>3. Performing(x) = 0 /\ OwnWork(x)' = OwnWork(x)
    BY <1>1 DEF Performing, OwnWork
  <1>4. Count(Entries, frames'[x]) = Count(Entries, frames[x]) + (IF Len(new) = 2 THEN 1 ELSE 0)
    BY <1>1
  <1>5. Flow(x, Pending(new), IF Len(new) = 2 THEN 1 ELSE 0)
    BY <1>1, <1>2, <1>4 DEF Flow
  <1> QED  BY <1>1, <1>2, <1>3, <1>5

LEMMA StopKeeps ==
    ASSUME Inv, NEW x \in Actor, StopAllThreads(x), UNCHANGED <<strand, descVars>>
    PROVE  Inv' /\ Elsewhere(x)
  <1>0. TypeInv
    BY DEF Inv
  <1>1. /\ UNCHANGED <<op_queue, outstanding_work, owner, owes, at, private, private_work, queued>>
        /\ waiting' \cup notified' = waiting \cup notified /\ waiting' \cap notified' = {}
        /\ UNCHANGED <<strand, queued, registered, closed, avail, edge>>
    BY DEF StopAllThreads, threadVars, descVars
  <1>2. Flow(x, <<>>, 0) /\ ~Performs(frames[x])
    <2>1. CASE InCall(x, "stop")
      <3>1. Top(x).call = "stop"
        BY <2>1 DEF InCall
      <3>2. Pop(x)
        BY <3>1 DEF StopAllThreads
      <3>3. /\ Stacked(x) /\ frames'[x] = Front(frames[x])
            /\ ~Performs(frames'[x]) /\ Pending(frames'[x]) = <<>>
            /\ Count(Entries, frames[x]) = Count(Entries, frames'[x]) + (IF "stop" \in Entries THEN 1 ELSE 0)
        BY <1>0, <2>1, <3>2, Popped
      <3>4. "stop" \notin Above /\ "stop" \notin Entries
        BY DEF Above, Entries
      <3>5. /\ Front(frames[x]) = <<>> /\ Pending(frames[x]) = <<>>
            /\ ~Performs(frames[x])
        BY <1>0, <2>1, <3>4, InnermostCall
      <3>6. Count(Entries, frames'[x]) \in Nat
        BY <3>3, CountType DEF Stacked
      <3>7. Count(Entries, frames'[x]) = Count(Entries, frames[x]) + 0
        BY <3>3, <3>4, <3>6
      <3>8. <<>> \in Seq(Op)
        OBVIOUS
      <3>9. Flow(x, <<>>, 0)
        BY <1>1, <3>3, <3>5, <3>7, <3>8 DEF Flow
      <3> QED  BY <3>5, <3>9
    <2>2. CASE Calls(x, "stop")
      <3>1. Top(x).call = "handler"
        BY <2>2 DEF Calls, InCall
      <3>2. Advance(x, <<>>)
        BY <3>1 DEF StopAllThreads
      <3>3. Called(frames[x], <<>>) /\ Pending(<<>>) = <<>> /\ Len(<<>>) = 0
        BY NoCall
      <3>4. /\ Flow(x, Pending(<<>>), IF Len(<<>>) = 2 THEN 1 ELSE 0) /\ ~Performs(frames[x])
        BY <1>0, <1>1, <2>2, <3>2, <3>3, UserFlow
      <3> QED  BY <3>3, <3>4
    <2> QED  BY <2>1, <2>2 DEF StopAllThreads
  <1>3. /\ op_queue' \in Seq(Op) /\ private' \in [Thread -> Seq(Op)]
        /\ private_work' \in [Thread -> Nat] /\ frames' \in [Actor -> Seq(Frame)]
    BY <1>0, <1>2, FlowTypes
  <1>4. /\ stopped' \in BOOLEAN /\ task_interrupted' \in BOOLEAN
        /\ signalled' \in BOOLEAN /\ interrupt' \in BOOLEAN
        /\ waiting' \subseteq Thread /\ notified' \subseteq Thread
    BY <1>0 DEF StopAllThreads, Interrupt, TypeInv, Types
  <1>5. Types'
    BY <1>0, <1>1, <1>3, <1>4 DEF TypeInv, Types
  <1> QED  BY <1>1, <1>2, <1>5, PlainKeeps

LEMMA IoPostKeeps ==
    ASSUME Inv, NEW x \in Actor, IoPost(x), UNCHANGED <<strand, descVars>>
    PROVE  Inv' /\ Elsewhere(x)
  <1> DEFINE q == <<Handler(Arg(x).h)>>
             new == <<[call |-> "enqueue", ops |-> q]>>
  <1>0. TypeInv
    BY DEF Inv
  <1>1. /\ UNCHANGED <<op_queue, stopped, task_interrupted, owner, owes, at, private, private_work, queued>>
        /\ UNCHANGED <<signalled, waiting, notified, interrupt>>
        /\ UNCHANGED <<strand, queued, registered, closed, avail, edge>>
        /\ Calls(x, "io_post") /\ Advance(x, new) /\ outstanding_work' = outstanding_work + 1
    BY DEF IoPost, threadVars, eventVars, descVars
  <1>2. Arg(x).h \in Handlers
    BY <1>0, <1>1, UserFrame
  <1>3. q \in Seq(Op) /\ Handler(Arg(x).h) \in Op /\ Handler(Arg(x).h).call = "handler"
    BY <1>2, OpsAre
  <1>4. /\ Count(Counted, q) = 1 /\ Count({"task", "perform"}, q) = 0 /\ Count({"strand"}, q) = 0
    BY <1>3, CountOne DEF Counted
  <1> HIDE DEF q
  <1>5. Called(frames[x], new) /\ Pending(new) = q /\ Len(new) # 2
    BY <1>3, Queueing
  <1> HIDE DEF new
  <1>6. waiting \cap notified = {}
    BY <1>0 DEF TypeInv, ThreadInv
  <1>7. /\ Flow(x, Pending(new), IF Len(new) = 2 THEN 1 ELSE 0)
        /\ Performing(x) = 0 /\ OwnWork(x)' = OwnWork(x)
    BY <1>0, <1>1, <1>5, <1>6, UserFlow
  <1>8. Flow(x, q, 0)
    BY <1>5, <1>7
  <1>9. /\ op_queue' \in Seq(Op) /\ private' \in [Thread -> Seq(Op)]
        /\ private_work' \in [Thread -> Nat] /\ frames' \in [Actor -> Seq(Frame)]
    BY <1>0, <1>8, FlowTypes
  <1>10. Types'
    BY <1>0, <1>1, <1>9 DEF TypeInv, Types
  <1>11. /\ Len(queued["read"]) \in Nat /\ Len(queued["write"]) \in Nat /\ OwnWork(x) \in Nat
         /\ outstanding_work \in Int
    BY <1>0, OwnTypes DEF OwnsTyped, TypeInv, Types
  <1>12. outstanding_work' + OwnWork(x)' + Len(queued["read"]) + Len(queued["write"]) =
             outstanding_work + OwnWork(x) + Count(Counted, q)
             + Len(queued'["read"]) + Len(queued'["write"]) + Performing(x)
    BY <1>1, <1>4, <1>7, <1>11
  <1>13. Count({"strand"}, q) + 0 + (IF strand.locked THEN 1 ELSE 0) = IF strand'.locked THEN 1 ELSE 0
    BY <1>1, <1>4
  <1>14. ~strand'.locked => strand'.ready = <<>> /\ strand'.waiting = <<>>
    BY <1>1 DEF Inv, StrandInv
  <1> QED  BY <1>4, <1>8, <1>10, <1>12, <1>13, <1>14, FlowKeeps

LEMMA EnqueueKeeps ==
    ASSUME Inv, NEW x \in Actor, Enqueue(x), UNCHANGED <<strand, descVars>>
    PROVE  Inv' /\ Elsewhere(x)
  <1>0. TypeInv
    BY DEF Inv
  <1>1. /\ UNCHANGED <<stopped, owner, at, private, private_work, outstanding_work, waiting, notified>>
        /\ UNCHANGED <<strand, queued, registered, closed, avail, edge>>
        /\ InCall(x, "enqueue") /\ Pop(x) /\ op_queue' = op_queue \o Top(x).ops
    BY DEF Enqueue, WakeOne, threadVars, descVars
  <1>2. /\ Stacked(x) /\ frames'[x] = Front(frames[x])
        /\ ~Performs(frames'[x]) /\ Pending(frames'[x]) = <<>>
        /\ Count(Entries, frames[x]) = Count(Entries, frames'[x]) + (IF "enqueue" \in Entries THEN 1 ELSE 0)
    BY <1>0, <1>1, Popped
  <1>3. /\ Pending(frames[x]) = Top(x).ops /\ ~Performs(frames[x])
        /\ x \in Thread => at[x] = "running"
    BY <1>0, <1>1, InnermostCall
  <1>4. Count(Entries, frames'[x]) \in Nat
    BY <1>2, CountType DEF Stacked
  <1>5. Count(Entries, frames'[x]) = Count(Entries, frames[x]) + 0
    BY <1>2, <1>4 DEF Entries
  <1>6. waiting' \cup notified' = waiting \cup notified /\ waiting' \cap notified' = {} /\ <<>> \in Seq(Op)
    BY <1>0, <1>1 DEF TypeInv, ThreadInv
  <1>7. Flow(x, <<>>, 0)
    BY <1>1, <1>2, <1>3, <1>5, <1>6 DEF Flow
  <1>8. /\ op_queue' \in Seq(Op) /\ private' \in [Thread -> Seq(Op)]
        /\ private_work' \in [Thread -> Nat] /\ frames' \in [Actor -> Seq(Frame)]
    BY <1>0, <1>7, FlowTypes
  <1>9. /\ task_interrupted' \in BOOLEAN /\ signalled' \in BOOLEAN /\ interrupt' \in BOOLEAN
        /\ owes' \in [Actor -> BOOLEAN]
    BY <1>0 DEF Enqueue, WakeOne, HaveWaiters, Interrupt, TypeInv, Types
  <1>10. Types'
    BY <1>0, <1>1, <1>8, <1>9 DEF TypeInv, Types
  <1> QED  BY <1>1, <1>3, <1>7, <1>10, PlainKeeps

StrandTypes == [locked : BOOLEAN, waiting : Seq(Handlers), ready : Seq(Handlers)]

\* A call of user code that is not to wake anybody.
LEMMA UserKeeps ==
    ASSUME Inv, NEW x \in Actor, NEW kind, Calls(x, kind),
           NEW new, Advance(x, new), Called(frames[x], new), Len(new) = 2 => x \in Thread,
           UNCHANGED <<op_queue, stopped, task_interrupted, owner, eventVars, interrupt, threadVars>>,
           strand' \in StrandTypes, queued' \in [Kind -> Seq(Handlers)], registered' \subseteq Kind,
           closed' \in BOOLEAN, avail' \in [Kind -> Nat], edge' \in BOOLEAN,
           outstanding_work' \in Int,
           outstanding_work' + Len(queued["read"]) + Len(queued["write"]) =
             outstanding_work + Count(Counted, Pending(new)) + Len(queued'["read"]) + Len(queued'["write"]),
           Count({"task", "perform"}, Pending(new)) = 0,
           Count({"strand"}, Pending(new)) + (IF Len(new) = 2 THEN 1 ELSE 0)
               + (IF strand.locked THEN 1 ELSE 0) = IF strand'.locked THEN 1 ELSE 0,
           ~strand'.locked => strand'.ready = <<>> /\ strand'.waiting = <<>>
    PROVE  Inv' /\ Elsewhere(x)
  <1> DEFINE q == Pending(new)
             n == IF Len(new) = 2 THEN 1 ELSE 0
  <1>0. TypeInv
    BY DEF Inv
  <1>1. UNCHANGED <<op_queue, stopped, task_interrupted, owner, owes, at, private, private_work,
                    signalled, waiting, notified, interrupt>>
    BY DEF threadVars, eventVars
  <1>2. waiting \cap notified = {}
    BY <1>0 DEF TypeInv, ThreadInv
  <1>3. Flow(x, q, n) /\ Performing(x) = 0 /\ OwnWork(x)' = OwnWork(x) /\ q \in Seq(Op)
    BY <1>0, <1>1, <1>2, UserFlow
  <1>4. n \in Int /\ Count({"strand"}, q) \in Nat /\ Count(Counted, q) \in Nat
    BY <1>3, CountType
  <1>5. /\ Count({"task", "perform"}, q) = 0
        /\ Count({"strand"}, q) + n + (IF strand.locked THEN 1 ELSE 0) = IF strand'.locked THEN 1 ELSE 0
        /\ outstanding_work' + Len(queued["read"]) + Len(queued["write"]) =
             outstanding_work + Count(Counted, q) + Len(queued'["read"]) + Len(queued'["write"])
    OBVIOUS
  <1> HIDE DEF q, n
  <1>6. /\ op_queue' \in Seq(Op) /\ private' \in [Thread -> Seq(Op)]
        /\ private_work' \in [Thread -> Nat] /\ frames' \in [Actor -> Seq(Frame)]
    BY <1>0, <1>3, FlowTypes
  <1>7. Types'
    BY <1>0, <1>1, <1>6 DEF TypeInv, Types, StrandTypes
  <1>8. /\ Len(queued["read"]) \in Nat /\ Len(queued["write"]) \in Nat /\ OwnWork(x) \in Nat
        /\ outstanding_work \in Int
    BY <1>0, OwnTypes DEF OwnsTyped, TypeInv, Types
  <1>9. Len(queued'["read"]) \in Nat /\ Len(queued'["write"]) \in Nat
    BY LenProperties DEF Kind
  <1>10. outstanding_work' + OwnWork(x)' + Len(queued["read"]) + Len(queued["write"]) =
             outstanding_work + OwnWork(x) + Count(Counted, q)
             + Len(queued'["read"]) + Len(queued'["write"]) + Performing(x)
    <2> DEFINE w0 == outstanding_work  w1 == outstanding_work'  p == OwnWork(x)  c == Count(Counted, q)
               r0 == Len(queued["read"])  r1 == Len(queued'["read"])
               s0 == Len(queued["write"])  s1 == Len(queued'["write"])
    <2>1. w0 \in Int /\ w1 \in Int /\ p \in Nat /\ c \in Nat /\ w1 + r0 + s0 = w0 + c + r1 + s1
      BY <1>4, <1>5, <1>8
    <2>2. r0 \in Nat /\ r1 \in Nat /\ s0 \in Nat /\ s1 \in Nat
      BY <1>8, <1>9
    <2> HIDE DEF w0, w1, p, c, r0, r1, s0, s1
    <2>3. w1 + p + r0 + s0 = w0 + p + c + r1 + s1 + 0
      BY <2>1, <2>2
    <2> QED  BY <1>3, <2>3 DEF w0, w1, p, c, r0, r1, s0, s1
  <1> QED  BY <1>3, <1>4, <1>5, <1>7, <1>10, FlowKeeps

LEMMA StrandOpIs ==
    /\ StrandOp \in Op /\ <<StrandOp>> \in Seq(Op) /\ Posts = <<[call |-> "enqueue", ops |-> <<StrandOp>>]>>
    /\ Count(Counted, <<StrandOp>>) = 1 /\ Count({"task", "perform"}, <<StrandOp>>) = 0
    /\ Count({"strand"}, <<StrandOp>>) = 1
    /\ \A a : Called(a, Posts) /\ Pending(Posts) = <<StrandOp>> /\ Len(Posts) # 2
  <1>1. StrandOp \in Op /\ StrandOp.call = "strand"
    BY OpsAre
  <1> DEFINE q == <<StrandOp>>
  <1>2. q \in Seq(Op)
    BY <1>1
  <1>3. /\ Count(Counted, q) = 1 /\ Count({"task", "perform"}, q) = 0 /\ Count({"strand"}, q) = 1
    BY <1>1, CountOne DEF Counted
  <1>4. Posts = <<[call |-> "enqueue", ops |-> q]>>
    BY DEF Posts
  <1> HIDE DEF q
  <1>5. \A a : Called(a, Posts) /\ Pending(Posts) = q /\ Len(Posts) # 2
    BY <1>2, <1>4, Queueing
  <1> QED  BY <1>1, <1>2, <1>3, <1>4, <1>5 DEF q

\* A handler joins the queues of the strand.
LEMMA StrandTyped ==
    ASSUME TypeInv, NEW h \in Handlers
    PROVE  /\ strand \in StrandTypes
           /\ strand.locked \in BOOLEAN /\ strand.ready \in Seq(Handlers) /\ strand.waiting \in Seq(Handlers)
           /\ LET s == [strand EXCEPT !.locked = TRUE, !.ready = Append(@, h)]
              IN  s \in StrandTypes /\ s.locked
           /\ LET s == [strand EXCEPT !.waiting = Append(@, h)]
              IN  s \in StrandTypes /\ s.locked = strand.locked
           /\ LET s == [strand EXCEPT !.locked = TRUE]
              IN  s \in StrandTypes /\ s.locked
  <1>1. strand \in StrandTypes
    BY DEF TypeInv, Types, StrandTypes
  <1>2. /\ strand.locked \in BOOLEAN /\ strand.ready \in Seq(Handlers) /\ strand.waiting \in Seq(Handlers)
    BY <1>1 DEF StrandTypes
  <1>3. Append(strand.ready, h) \in Seq(Handlers) /\ Append(strand.waiting, h) \in Seq(Handlers)
    BY <1>2, AppendProperties
  <1> QED  BY <1>1, <1>2, <1>3 DEF StrandTypes

\* The descriptor is not concerned.
LEMMA StrandCallKeeps ==
    ASSUME Inv, NEW x \in Actor, NEW kind, Calls(x, kind),
           NEW new, Advance(x, new), Called(frames[x], new), Len(new) = 2 => x \in Thread,
           UNCHANGED <<op_queue, stopped, task_interrupted, owner, eventVars, interrupt, threadVars>>,
           UNCHANGED descVars, strand' \in StrandTypes, NEW q, Pending(new) = q,
           outstanding_work' = outstanding_work + Count(Counted, q), Count(Counted, q) \in Nat,
           Count({"task", "perform"}, q) = 0,
           Count({"strand"}, q) + (IF Len(new) = 2 THEN 1 ELSE 0)
               + (IF strand.locked THEN 1 ELSE 0) = IF strand'.locked THEN 1 ELSE 0,
           ~strand'.locked => strand'.ready = <<>> /\ strand'.waiting = <<>>
    PROVE  Inv' /\ Elsewhere(x)
  <1>1. TypeInv /\ UNCHANGED <<queued, registered, closed, avail, edge>>
    BY DEF descVars, Inv
  <1>2. /\ Len(queued["read"]) \in Nat /\ Len(queued["write"]) \in Nat
        /\ outstanding_work \in Int
    BY <1>1, OwnTypes DEF OwnsTyped, TypeInv, Types
  <1>3. /\ queued' \in [Kind -> Seq(Handlers)] /\ registered' \subseteq Kind
        /\ closed' \in BOOLEAN /\ avail' \in [Kind -> Nat] /\ edge' \in BOOLEAN
    BY <1>1 DEF TypeInv, Types
  <1>4. /\ outstanding_work' \in Int
        /\ outstanding_work' + Len(queued["read"]) + Len(queued["write"]) =
             outstanding_work + Count(Counted, q) + Len(queued'["read"]) + Len(queued'["write"])
    <2> DEFINE w == outstanding_work  c == Count(Counted, q)
               r == Len(queued["read"])  s == Len(queued["write"])
    <2>1. w \in Int /\ c \in Nat /\ r \in Nat /\ s \in Nat
      BY <1>2
    <2>2. outstanding_work' = w + c /\ Len(queued'["read"]) = r /\ Len(queued'["write"]) = s
      BY <1>1
    <2> HIDE DEF w, c, r, s
    <2>3. w + c \in Int /\ (w + c) + r + s = w + c + r + s
      BY <2>1
    <2> QED  BY <2>2, <2>3 DEF w, c, r, s
  <1> QED  BY <1>3, <1>4, UserKeeps

\* post() or dispatch() gives h to the strand.
LEMMA SubmitKeeps ==
    ASSUME Inv, NEW x \in Actor, NEW kind, Calls(x, kind), NEW h \in Handlers,
           \/ strand.locked /\ Waits(h) /\ Advance(x, <<>>)
           \/ ~strand.locked /\ Takes(h) /\ Advance(x, Posts),
           UNCHANGED <<op_queue, stopped, task_interrupted, owner, eventVars, interrupt, threadVars>>,
           UNCHANGED descVars
    PROVE  Inv' /\ Elsewhere(x)
  <1>0. TypeInv /\ outstanding_work \in Int
    BY DEF Inv, TypeInv, Types
  <1>4. CASE strand.locked /\ Waits(h) /\ Advance(x, <<>>)
    <2>2. strand' \in StrandTypes /\ strand'.locked /\ outstanding_work' = outstanding_work
      BY <1>0, <1>4, StrandTyped DEF Waits
    <2> DEFINE new == <<>>
    <2>3. Called(frames[x], new) /\ Pending(new) = <<>> /\ Len(new) = 0 /\ Len(new) # 2
      BY NoCall
    <2>4. Count(Counted, <<>>) = 0 /\ Count({"task", "perform"}, <<>>) = 0 /\ Count({"strand"}, <<>>) = 0
      BY CountEmpty
    <2>5. Advance(x, new)
      BY <1>4
    <2> DEFINE q == <<>>
    <2>6. Pending(new) = q
      BY <2>3
    <2> HIDE DEF new, q
    <2>7. Count(Counted, q) = 0 /\ Count({"task", "perform"}, q) = 0 /\ Count({"strand"}, q) = 0
      BY <2>4 DEF q
    <2>8. outstanding_work' = outstanding_work + Count(Counted, q) /\ Count(Counted, q) \in Nat
      BY <1>0, <2>2, <2>7
    <2>9. Count({"strand"}, q) + (IF Len(new) = 2 THEN 1 ELSE 0)
               + (IF strand.locked THEN 1 ELSE 0) = IF strand'.locked THEN 1 ELSE 0
      BY <1>4, <2>2, <2>3, <2>7
    <2> QED  BY <2>2, <2>3, <2>5, <2>6, <2>7, <2>8, <2>9, StrandCallKeeps
  <1>5. CASE ~strand.locked /\ Takes(h) /\ Advance(x, Posts)
    <2>2. strand' \in StrandTypes /\ strand'.locked /\ outstanding_work' = outstanding_work + 1
      BY <1>0, <1>5, StrandTyped DEF Takes
    <2> DEFINE q == <<StrandOp>>
    <2>3. /\ Called(frames[x], Posts) /\ Pending(Posts) = q /\ Len(Posts) # 2
          /\ Count(Counted, q) = 1 /\ Count({"task", "perform"}, q) = 0 /\ Count({"strand"}, q) = 1
      BY StrandOpIs
    <2> HIDE DEF q
    <2>8. outstanding_work' = outstanding_work + Count(Counted, q) /\ Count(Counted, q) \in Nat
      BY <2>2, <2>3
    <2>9. Count({"strand"}, q) + (IF Len(Posts) = 2 THEN 1 ELSE 0)
               + (IF strand.locked THEN 1 ELSE 0) = IF strand'.locked THEN 1 ELSE 0
      BY <1>5, <2>2, <2>3
    <2> QED  BY <1>5, <2>2, <2>3, <2>8, <2>9, StrandCallKeeps
  <1> QED  BY <1>4, <1>5

LEMMA PostKeeps ==
    ASSUME Inv, NEW x \in Actor, Post(x), UNCHANGED descVars
    PROVE  Inv' /\ Elsewhere(x)
  <1>1. /\ Calls(x, "post")
        /\ UNCHANGED <<op_queue, stopped, task_interrupted, owner, eventVars, interrupt, threadVars>>
        /\ \/ strand.locked /\ Waits(Arg(x).h) /\ Advance(x, <<>>)
           \/ ~strand.locked /\ Takes(Arg(x).h) /\ Advance(x, Posts)
    BY DEF Post
  <1>2. Arg(x).h \in Handlers
    BY <1>1, UserFrame DEF Inv
  <1> QED  BY <1>1, <1>2, SubmitKeeps

\* The choice that dispatch() makes.
LEMMA DispatchCases ==
    ASSUME NEW x, NEW h, DispatchTo(x, h)
    PROVE  \/ InStrand(x) /\ Dispatched(x, h) = <<Handler(h)>> /\ UNCHANGED <<strand, outstanding_work>>
           \/ /\ ~InStrand(x) /\ ~strand.locked /\ x \in Thread
              /\ Dispatched(x, h) = <<[call |-> "dispatched"], Handler(h)>>
              /\ strand' = [strand EXCEPT !.locked = TRUE] /\ UNCHANGED outstanding_work
           \/ ~InStrand(x) /\ ~strand.locked /\ x \notin Thread /\ Dispatched(x, h) = Posts /\ Takes(h)
           \/ ~InStrand(x) /\ strand.locked /\ Dispatched(x, h) = <<>> /\ Waits(h)
  BY DEF DispatchTo, Dispatched

LEMMA LibraryFlow ==
    ASSUME TypeInv, NEW x \in Actor, NEW name, InCall(x, name), name # "stop", name # "enqueue",
           Stacked(x), ~Performs(frames'[x]), NEW enters,
           UNCHANGED <<op_queue, private, private_work, owner, waiting, notified, at>>,
           Count(Entries, frames'[x]) = Count(Entries, frames[x]) + enters
    PROVE  /\ Flow(x, Pending(frames'[x]), enters)
           /\ Performing(x) = IF name = "perform" THEN 1 ELSE 0
           /\ OwnWork(x)' = OwnWork(x)
           /\ Pending(frames'[x]) \in Seq(Op)
  <1>1. /\ Pending(frames[x]) = <<>> /\ (Performs(frames[x]) <=> name = "perform")
        /\ x \in Thread => at[x] = "running"
    BY InnermostCall
  <1>2. frames'[x] \in Seq(Frame)
    BY DEF Stacked
  <1>3. Pending(frames'[x]) \in Seq(Op)
    BY <1>2, PendingType
  <1>4. waiting \cap notified = {}
    BY DEF TypeInv, ThreadInv
  <1>5. Flow(x, Pending(frames'[x]), enters)
    BY <1>1, <1>3, <1>4 DEF Flow
  <1>6. Performing(x) = IF name = "perform" THEN 1 ELSE 0
    BY <1>1 DEF Performing
  <1> QED  BY <1>3, <1>5, <1>6 DEF OwnWork

\* A step of the strand.
LEMMA StrandFlowKeeps ==
    ASSUME Inv, NEW x \in Actor, NEW q, NEW n \in Int, Flow(x, q, n), Performing(x) = 0,
           UNCHANGED <<op_queue, stopped, task_interrupted, owner, eventVars, interrupt, at>>,
           UNCHANGED descVars, strand' \in StrandTypes, outstanding_work' \in Int,
           outstanding_work' + OwnWork(x)' = outstanding_work + OwnWork(x) + Count(Counted, q),
           Count({"task", "perform"}, q) = 0,
           Count({"strand"}, q) + n + (IF strand.locked THEN 1 ELSE 0) = IF strand'.locked THEN 1 ELSE 0,
           ~strand'.locked => strand'.ready = <<>> /\ strand'.waiting = <<>>
    PROVE  Inv' /\ Elsewhere(x)
  <1>0. TypeInv
    BY DEF Inv
  <1>1. UNCHANGED <<queued, registered, closed, avail, edge, owes, signalled, waiting, notified>>
    BY DEF descVars, eventVars
  <1>2. /\ op_queue' \in Seq(Op) /\ private' \in [Thread -> Seq(Op)]
        /\ private_work' \in [Thread -> Nat] /\ frames' \in [Actor -> Seq(Frame)]
    BY <1>0, FlowTypes
  <1>3. Types'
    BY <1>0, <1>1, <1>2 DEF TypeInv, Types, StrandTypes
  <1>4. /\ Len(queued["read"]) \in Nat /\ Len(queued["write"]) \in Nat /\ OwnWork(x) \in Nat
        /\ outstanding_work \in Int
    BY <1>0, OwnTypes DEF OwnsTyped, TypeInv, Types
  <1>5. OwnWork(x)' \in Nat
    BY <1>2 DEF OwnWork
  <1>6. Count(Counted, q) \in Nat
    BY <1>0, <1>3, FlowLocal
  <1>7. outstanding_work' + OwnWork(x)' + Len(queued["read"]) + Len(queued["write"]) =
             outstanding_work + OwnWork(x) + Count(Counted, q)
             + Len(queued'["read"]) + Len(queued'["write"]) + Performing(x)
    <2> DEFINE w0 == outstanding_work  w1 == outstanding_work'  c == Count(Counted, q)
               p0 == OwnWork(x)  p1 == OwnWork(x)'
               r == Len(queued["read"])  s == Len(queued["write"])
    <2>1. w0 \in Int /\ w1 \in Int /\ p0 \in Nat /\ p1 \in Nat /\ c \in Nat /\ r \in Nat /\ s \in Nat
      BY <1>4, <1>5, <1>6
    <2>2. w1 + p1 = w0 + p0 + c
      OBVIOUS
    <2>3. Len(queued'["read"]) = r /\ Len(queued'["write"]) = s
      BY <1>1
    <2> HIDE DEF w0, w1, p0, p1, c, r, s
    <2>4. w1 + p1 + r + s = w0 + p0 + c + r + s + 0
      BY <2>1, <2>2
    <2> QED  BY <2>3, <2>4 DEF w0, w1, p0, p1, c, r, s
  <1> QED  BY <1>3, <1>7, FlowKeeps

LEMMA DispatchKeeps ==
    ASSUME Inv, NEW x \in Actor, Dispatch(x), UNCHANGED descVars
    PROVE  Inv' /\ Elsewhere(x)
  <1>0. TypeInv /\ Types /\ outstanding_work \in Int
    BY DEF Inv, TypeInv, Types
  <1>1. UNCHANGED <<op_queue, stopped, task_interrupted, owner, eventVars, interrupt, threadVars>>
    BY DEF Dispatch
  <1>2. InStrand(x) <=> Entered(frames[x])
    BY <1>0, InStrandIs
  <1>3. Count(Counted, <<>>) = 0 /\ Count({"task", "perform"}, <<>>) = 0 /\ Count({"strand"}, <<>>) = 0
    BY CountEmpty
  <1>4. ~strand.locked => strand.ready = <<>> /\ strand.waiting = <<>>
    BY DEF Inv, StrandInv
  <1> DEFINE e == <<>>
  <1>5. Count(Counted, e) = 0 /\ Count({"task", "perform"}, e) = 0 /\ Count({"strand"}, e) = 0
    BY <1>3
  <1> HIDE DEF e
  <1>6. CASE Calls(x, "dispatch") /\ DispatchTo(x, Arg(x).h) /\ Advance(x, Dispatched(x, Arg(x).h))
    <2> DEFINE h == Arg(x).h
    <2>1. h \in Handlers
      BY <1>0, <1>6, UserFrame
    <2>2. DispatchTo(x, h) /\ Advance(x, Dispatched(x, h)) /\ Calls(x, "dispatch")
      BY <1>6
    <2> HIDE DEF h
    <2>3. CASE InStrand(x) /\ Dispatched(x, h) = <<Handler(h)>> /\ UNCHANGED <<strand, outstanding_work>>
      <3> DEFINE new == <<Handler(h)>>
      <3>1. Handler(h) \in Inside /\ Handler(h).call = "handler" /\ Handler(h) \in Frame
        BY <2>1, OpsAre, FramesAre DEF Inside
      <3>2. Called(frames[x], new) /\ Pending(new) = e /\ Len(new) # 2
        BY <3>1, OneFrame DEF Called, e
      <3>3. Advance(x, new) /\ strand' = strand /\ strand' \in StrandTypes /\ outstanding_work' = outstanding_work
        BY <1>0, <2>2, <2>3 DEF Types, StrandTypes
      <3> HIDE DEF new
      <3>4. outstanding_work' = outstanding_work + Count(Counted, e) /\ Count(Counted, e) \in Nat
        BY <1>0, <1>5, <3>3
      <3>5. Count({"strand"}, e) + (IF Len(new) = 2 THEN 1 ELSE 0)
                 + (IF strand.locked THEN 1 ELSE 0) = IF strand'.locked THEN 1 ELSE 0
        BY <1>5, <3>2, <3>3
      <3>6. ~strand'.locked => strand'.ready = <<>> /\ strand'.waiting = <<>>
        BY <1>4, <3>3
      <3> QED  BY <1>1, <1>5, <2>2, <3>2, <3>3, <3>4, <3>5, <3>6, StrandCallKeeps
    <2>4. CASE /\ ~InStrand(x) /\ ~strand.locked /\ x \in Thread
               /\ Dispatched(x, h) = <<[call |-> "dispatched"], Handler(h)>>
               /\ strand' = [strand EXCEPT !.locked = TRUE] /\ UNCHANGED outstanding_work
      <3> DEFINE new == <<[call |-> "dispatched"], Handler(h)>>
      <3>1. Pending(new) = e
        BY <2>1, EnteredStack DEF e
      <3>2. Len(new) = 2 /\ Called(frames[x], new)
        BY <1>2, <2>1, <2>4 DEF Called
      <3>3. Advance(x, new) /\ strand' \in StrandTypes /\ strand'.locked /\ outstanding_work' = outstanding_work
        BY <1>0, <2>1, <2>2, <2>4, StrandTyped
      <3> HIDE DEF new
      <3>4. outstanding_work' = outstanding_work + Count(Counted, e) /\ Count(Counted, e) \in Nat
        BY <1>0, <1>5, <3>3
      <3>5. Count({"strand"}, e) + (IF Len(new) = 2 THEN 1 ELSE 0)
                 + (IF strand.locked THEN 1 ELSE 0) = IF strand'.locked THEN 1 ELSE 0
        BY <1>5, <2>4, <3>2, <3>3
      <3> QED  BY <1>1, <1>5, <2>2, <2>4, <3>1, <3>2, <3>3, <3>4, <3>5, StrandCallKeeps
    <2>5. CASE ~InStrand(x) /\ ~strand.locked /\ x \notin Thread /\ Dispatched(x, h) = Posts /\ Takes(h)
      BY <1>1, <2>1, <2>2, <2>5, SubmitKeeps
    <2>6. CASE ~InStrand(x) /\ strand.locked /\ Dispatched(x, h) = <<>> /\ Waits(h)
      BY <1>1, <2>1, <2>2, <2>6, SubmitKeeps
    <2> QED  BY <2>2, <2>3, <2>4, <2>5, <2>6, DispatchCases
  <1>7. CASE InCall(x, "wrapped") /\ DispatchTo(x, Top(x).h) /\ Replace(x, Dispatched(x, Top(x).h))
    <2> DEFINE h == Top(x).h
    <2>0. "wrapped" \notin Above /\ "wrapped" \notin Entries
      BY DEF Above, Entries
    <2>1. /\ Top(x) \in Frame /\ Top(x).call = "wrapped" /\ Front(frames[x]) = <<>>
          /\ Count(Entries, frames[x]) = Count(Entries, Front(frames[x])) + (IF "wrapped" \in Entries THEN 1 ELSE 0)
          /\ x \in Outside => "wrapped" \in {"handler", "enqueue", "await"}
      BY <1>0, <1>7, <2>0, InnermostCall
    <2>2. h \in Handlers /\ x \in Thread
      BY <2>1, FrameIs DEF Actor
    <2>3. Count(Entries, frames[x]) = 0 /\ ~InStrand(x)
      BY <1>0, <2>0, <2>1, CountEmpty, InStrandIs
    <2>4. DispatchTo(x, h) /\ Replace(x, Dispatched(x, h)) /\ InCall(x, "wrapped")
      BY <1>7
    <2> HIDE DEF h
    <2>5. CASE /\ ~strand.locked
               /\ Dispatched(x, h) = <<[call |-> "dispatched"], Handler(h)>>
               /\ strand' = [strand EXCEPT !.locked = TRUE] /\ UNCHANGED outstanding_work
      <3> DEFINE t == <<[call |-> "dispatched"], Handler(h)>>
      <3>1. /\ t \in Seq(Frame) /\ StackOK(t) /\ ~Performs(t)
            /\ Count(Entries, t) = 1 /\ Pending(t) = e
        BY <2>2, EnteredStack DEF e
      <3>2. Replace(x, t)
        BY <2>4, <2>5
      <3> HIDE DEF t
      <3>3. Stacked(x) /\ frames'[x] = t
        BY <1>0, <2>1, <2>2, <3>1, <3>2, Restarted
      <3>4. Count(Entries, frames'[x]) = Count(Entries, frames[x]) + 1 /\ Pending(frames'[x]) = e
        BY <2>3, <3>1, <3>3
      <3>5. /\ Flow(x, Pending(frames'[x]), 1) /\ Performing(x) = 0 /\ OwnWork(x)' = OwnWork(x)
        <4>1. /\ UNCHANGED <<op_queue, private, private_work, owner, waiting, notified, at>>
              /\ ~Performs(frames'[x])
          BY <1>1, <3>1, <3>3 DEF eventVars, threadVars
        <4> QED  BY <1>0, <2>4, <3>3, <3>4, <4>1, LibraryFlow
      <3>6. Flow(x, e, 1) /\ 1 \in Int
        BY <3>4, <3>5
      <3>7. OwnWork(x) \in Nat
        BY <1>0, OwnTypes DEF OwnsTyped
      <3>8. /\ outstanding_work' + OwnWork(x)' = outstanding_work + OwnWork(x) + Count(Counted, e)
            /\ outstanding_work' \in Int
        BY <1>0, <1>5, <2>5, <3>5, <3>7
      <3>9. strand' \in StrandTypes /\ strand'.locked
        BY <1>0, <2>2, <2>5, StrandTyped
      <3>10. Count({"strand"}, e) + 1 + (IF strand.locked THEN 1 ELSE 0) = IF strand'.locked THEN 1 ELSE 0
        BY <1>5, <2>5, <3>9
      <3>11. UNCHANGED <<op_queue, stopped, task_interrupted, owner, eventVars, interrupt, at>>
        BY <1>1 DEF threadVars
      <3> QED  BY <1>5, <3>5, <3>6, <3>8, <3>9, <3>10, <3>11, StrandFlowKeeps
    <2>6. CASE strand.locked /\ Dispatched(x, h) = <<>> /\ Waits(h)
      <3>1. <<>> \in Seq(Frame) /\ StackOK(<<>>) /\ ~Performs(<<>>) /\ Count(Entries, <<>>) = 0 /\ Pending(<<>>) = e
        BY EmptyStack DEF Open, e
      <3>2. Replace(x, <<>>)
        BY <2>4, <2>6
      <3>3. Stacked(x) /\ frames'[x] = <<>>
        BY <1>0, <2>1, <2>2, <3>1, <3>2, Restarted
      <3>4. Count(Entries, frames'[x]) = Count(Entries, frames[x]) + 0 /\ Pending(frames'[x]) = e
        BY <2>3, <3>1, <3>3
      <3>5. /\ Flow(x, Pending(frames'[x]), 0) /\ Performing(x) = 0 /\ OwnWork(x)' = OwnWork(x)
        <4>1. /\ UNCHANGED <<op_queue, private, private_work, owner, waiting, notified, at>>
              /\ ~Performs(frames'[x])
          BY <1>1, <3>1, <3>3 DEF eventVars, threadVars
        <4> QED  BY <1>0, <2>4, <3>3, <3>4, <4>1, LibraryFlow
      <3>6. Flow(x, e, 0) /\ 0 \in Int
        BY <3>4, <3>5
      <3>7. OwnWork(x) \in Nat
        BY <1>0, OwnTypes DEF OwnsTyped
      <3>8. /\ outstanding_work' + OwnWork(x)' = outstanding_work + OwnWork(x) + Count(Counted, e)
            /\ outstanding_work' \in Int
        BY <1>0, <1>5, <2>6, <3>5, <3>7 DEF Waits
      <3>9. strand' \in StrandTypes /\ strand'.locked
        BY <1>0, <2>2, <2>6, StrandTyped DEF Waits
      <3>10. Count({"strand"}, e) + 0 + (IF strand.locked THEN 1 ELSE 0) = IF strand'.locked THEN 1 ELSE 0
        BY <1>5, <2>6, <3>9
      <3>11. UNCHANGED <<op_queue, stopped, task_interrupted, owner, eventVars, interrupt, at>>
        BY <1>1 DEF threadVars
      <3> QED  BY <1>5, <3>5, <3>6, <3>8, <3>9, <3>10, <3>11, StrandFlowKeeps
    <2> QED  BY <2>2, <2>3, <2>4, <2>5, <2>6, DispatchCases
  <1> QED  BY <1>6, <1>7 DEF Dispatch

\* Whoever is in the strand has its lock.
LEMMA EnteredLocked ==
    ASSUME Inv, NEW x \in Actor, InStrand(x)
    PROVE  strand.locked /\ Locks = 1 /\ Count(Entries, frames[x]) = 1
  <1>0. Types
    BY DEF Inv, TypeInv
  <1>1. IsFiniteSet(Actor) /\ AllLocks \in [Actor -> Nat] /\ IsFiniteSet(Thread) /\ Strands \in [Thread -> Nat]
    BY <1>0, ThreadAssumption, FS_Union, SumTypes DEF Actor, SumsTyped
  <1>2. AllLocks[x] <= Total(AllLocks) /\ Total(AllLocks) \in Nat
    BY <1>1, TotalDiffers
  <1>3. Total(Strands) \in Nat
    BY <1>1, AreaIs
  <1>4. /\ Count(Entries, frames[x]) \in Nat /\ Count(Entries, frames[x]) # 0
        /\ BeingQueued({"strand"}, x) \in Nat /\ Count({"strand"}, op_queue) \in Nat
    BY <1>0, InStrandIs, OwnTypes DEF OwnsTyped
  <1>5. AllLocks[x] = Count(Entries, frames[x]) + BeingQueued({"strand"}, x)
    BY DEF AllLocks, Lock
  <1>6. Locks = Count({"strand"}, op_queue) + Total(Strands) + Total(AllLocks)
    BY DEF Locks, Strands, AllLocks, Lock
  <1>7. Locks = IF strand.locked THEN 1 ELSE 0
    BY DEF Inv, StrandInv
  <1>8. Locks >= 1 /\ Count(Entries, frames[x]) <= Locks
    BY <1>2, <1>3, <1>4, <1>5, <1>6
  <1> QED  BY <1>4, <1>7, <1>8

LEMMA InCallEntered ==
    ASSUME TypeInv, NEW x \in Actor, NEW name \in Entries, InCall(x, name)
    PROVE  InStrand(x) /\ x \in Thread
  <1>1. /\ frames[x] \in Seq(Frame) /\ frames[x] # <<>>
        /\ frames[x][Len(frames[x])].call \in Entries
    BY DEF InCall, Top, TypeInv, Types
  <1>2. Len(frames[x]) \in DOMAIN frames[x]
    BY <1>1, EmptySeq
  <1>3. x \notin Outside
    BY InnermostCall DEF Entries
  <1> QED  BY <1>1, <1>2, <1>3 DEF InStrand, Entries, Actor

LEMMA StrandRunsKeeps ==
    ASSUME Inv, NEW x \in Actor, StrandRuns(x), UNCHANGED descVars
    PROVE  Inv' /\ Elsewhere(x) /\ Len(frames[x]) = 1
  <1> DEFINE s == frames[x]
             h == Head(strand.ready)
             f == Handler(h)
             t == s \o <<f>>
  <1>0. TypeInv /\ Types /\ StackInv
    BY DEF Inv, TypeInv
  <1>1. /\ InCall(x, "strand") /\ strand.ready # <<>>
        /\ strand' = [strand EXCEPT !.ready = Tail(@)]
        /\ frames' = [frames EXCEPT ![x] = t]
        /\ UNCHANGED <<op_queue, outstanding_work, stopped, task_interrupted, owner,
                       eventVars, interrupt, threadVars>>
    BY DEF StrandRuns, Push
  <1>2. strand.ready \in Seq(Handlers) /\ strand \in StrandTypes
    BY <1>0 DEF Types, StrandTypes
  <1>3. h \in Handlers /\ Tail(strand.ready) \in Seq(Handlers)
    BY <1>1, <1>2, HeadTailParts
  <1>4. "strand" \notin Above /\ "strand" \in Entries /\ "strand" \in Below
    BY DEF Above, Entries, Below
  <1>5. /\ s \in Seq(Frame) /\ s # <<>> /\ StackOK(s) /\ Len(s) = 1 /\ s[Len(s)].call = "strand"
        /\ ~Performs(s)
    BY <1>0, <1>1, <1>4, InnermostCall
  <1>6. InStrand(x) /\ x \in Thread /\ x \notin Outside
    BY <1>0, <1>1, <1>4, InCallEntered, ThreadAssumption
  <1>7. strand.locked
    BY <1>6, EnteredLocked
  <1>8. f \in Frame /\ f.call = "handler" /\ f \in Inside
    BY <1>3, OpsAre, FramesAre DEF Inside
  <1> HIDE DEF f, h
  <1>9. Open(s)
    BY <1>4, <1>5 DEF Open
  <1>10. "handler" \in Above /\ "handler" \notin Entries
    BY DEF Above, Entries
  <1> HIDE DEF s
  <1>11. /\ t \in Seq(Frame) /\ t # <<>> /\ StackOK(t) /\ t[1] = s[1]
         /\ Count(Entries, t) = Count(Entries, s) + (IF f.call \in Entries THEN 1 ELSE 0)
         /\ Pending(t) = <<>>
    <2>1. /\ t \in Seq(Frame) /\ t # <<>> /\ StackOK(t)
          /\ \A i \in 1..Len(s) : t[i] = s[i]
          /\ Count(Entries, t) = Count(Entries, s) + (IF f.call \in Entries THEN 1 ELSE 0)
          /\ Pending(t) = IF f.call = "enqueue" THEN f.ops ELSE <<>>
      BY <1>8, <1>9, <1>10, AddStack
    <2> HIDE DEF t
    <2> QED  BY <1>5, <1>8, <2>1
  <1> HIDE DEF t
  <1>12. Stacked(x) /\ frames'[x] = t
    BY <1>0, <1>1, <1>6, <1>11, StackMoves
  <1>13. ~Performs(t)
    BY <1>5, <1>11 DEF Performs
  <1>14. Count(Entries, frames'[x]) = Count(Entries, frames[x]) + 0
    BY <1>8, <1>10, <1>11, <1>12 DEF s
  <1>15. Flow(x, Pending(frames'[x]), 0)
    <2>1. /\ UNCHANGED <<op_queue, private, private_work, owner, waiting, notified, at>>
          /\ ~Performs(frames'[x])
      BY <1>1, <1>12, <1>13 DEF eventVars, threadVars
    <2> QED  BY <1>0, <1>1, <1>12, <1>14, <2>1, LibraryFlow
  <1>16. Flow(x, <<>>, 0)
    BY <1>11, <1>12, <1>15
  <1>17. strand' \in StrandTypes /\ strand'.locked = strand.locked
    BY <1>1, <1>2, <1>3 DEF StrandTypes
  <1>18. Types'
    <2>1. /\ op_queue' \in Seq(Op) /\ private' \in [Thread -> Seq(Op)]
          /\ private_work' \in [Thread -> Nat] /\ frames' \in [Actor -> Seq(Frame)]
      BY <1>0, <1>16, FlowTypes
    <2>2. /\ UNCHANGED <<queued, registered, closed, avail, edge, owes, signalled, waiting, notified, at>>
          /\ UNCHANGED <<outstanding_work, stopped, task_interrupted, interrupt>>
      BY <1>1 DEF descVars, eventVars, threadVars
    <2> QED  BY <1>0, <1>17, <2>1, <2>2 DEF Types, StrandTypes
  <1>19. UNCHANGED <<outstanding_work, queued>>
    BY <1>1 DEF descVars
  <1>20. ~Performs(frames[x])
    BY <1>5 DEF s
  <1>21. Inv' /\ Elsewhere(x)
    BY <1>7, <1>16, <1>17, <1>18, <1>19, <1>20, PlainKeeps
  <1> QED  BY <1>5, <1>21 DEF s

\* What the strand is after on_do_complete_exit or on_dispatch_exit.
LEMMA HandedOver ==
    ASSUME TypeInv, HandsOver
    PROVE  LET q == strand.ready \o strand.waiting
           IN  /\ strand' \in StrandTypes /\ q \in Seq(Handlers)
               /\ strand'.locked <=> q # <<>>
               /\ strand'.ready = q /\ strand'.waiting = <<>>
               /\ strand.ready = <<>> => q = strand.waiting
  <1>1. strand.ready \in Seq(Handlers) /\ strand.waiting \in Seq(Handlers)
    BY DEF TypeInv, Types
  <1>2. strand.ready \o strand.waiting \in Seq(Handlers)
    BY <1>1, ConcatProperties
  <1>3. <<>> \o strand.waiting = strand.waiting
    BY <1>1, ConcatEmptySeq
  <1> DEFINE q == strand.ready \o strand.waiting
             b == q # <<>>
  <1>4. strand' = [locked |-> b, waiting |-> <<>>, ready |-> q]
    BY DEF HandsOver
  <1>5. b \in BOOLEAN /\ q \in Seq(Handlers)
    BY <1>2
  <1> HIDE DEF b, q
  <1>6. /\ strand' \in StrandTypes /\ strand'.locked = b
        /\ strand'.ready = q /\ strand'.waiting = <<>>
    BY <1>4, <1>5 DEF StrandTypes
  <1>7. strand'.locked <=> q # <<>>
    BY <1>6 DEF b
  <1> QED  BY <1>2, <1>3, <1>6, <1>7 DEF q

LEMMA StrandExitKeeps ==
    ASSUME Inv, NEW x \in Actor, StrandExit(x), UNCHANGED descVars
    PROVE  Inv' /\ Elsewhere(x)
  <1>0. TypeInv /\ Types /\ outstanding_work \in Int
    BY DEF Inv, TypeInv, Types
  <1>1. /\ InCall(x, "strand") /\ strand.ready = <<>> /\ HandsOver /\ Pop(x)
        /\ UNCHANGED <<op_queue, outstanding_work, stopped, task_interrupted, owner,
                       eventVars, interrupt, at>>
    BY DEF StrandExit
  <1>2. /\ strand' \in StrandTypes /\ (strand'.locked <=> strand.waiting # <<>>)
        /\ strand'.ready = strand.waiting /\ strand'.waiting = <<>>
    BY <1>0, <1>1, HandedOver
  <1>3. "strand" \in Entries
    BY DEF Entries
  <1>4. InStrand(x) /\ x \in Thread /\ strand.locked
    BY <1>0, <1>1, <1>3, InCallEntered, EnteredLocked
  <1>5. /\ Stacked(x) /\ ~Performs(frames'[x]) /\ Pending(frames'[x]) = <<>>
        /\ Count(Entries, frames[x]) = Count(Entries, frames'[x]) + (IF "strand" \in Entries THEN 1 ELSE 0)
    BY <1>0, <1>1, Popped
  <1>6. /\ Pending(frames[x]) = <<>> /\ ~Performs(frames[x]) /\ at[x] = "running"
    BY <1>0, <1>1, <1>4, InnermostCall
  <1>7. Count(Entries, frames'[x]) \in Nat
    BY <1>5, CountType DEF Stacked
  <1>8. Count(Entries, frames'[x]) = Count(Entries, frames[x]) + (-1)
    BY <1>3, <1>5, <1>7
  <1>9. Performing(x) = 0 /\ OwnWork(x) \in Nat /\ -1 \in Int
    BY <1>0, <1>6, OwnTypes DEF Performing, OwnsTyped
  <1>10. /\ UNCHANGED <<waiting, notified, owner, at>> /\ waiting \cap notified = {}
    BY <1>0, <1>1 DEF eventVars, TypeInv, ThreadInv
  <1>11. CASE strand.waiting # <<>>
    <2> DEFINE q == <<StrandOp>>
    <2>1. /\ StrandOp \in Op /\ q \in Seq(Op) /\ StrandOp.call \in Counted
          /\ Count(Counted, q) = 1 /\ Count({"task", "perform"}, q) = 0 /\ Count({"strand"}, q) = 1
      BY StrandOpIs, OpsAre DEF Counted
    <2>2. /\ private' = [private EXCEPT ![x] = Append(@, StrandOp)]
          /\ private_work' = [private_work EXCEPT ![x] = @ + 1]
      BY <1>11 DEF StrandExit
    <2>3. Flow(x, q, -1)
      BY <1>1, <1>4, <1>5, <1>6, <1>8, <1>10, <2>1, <2>2 DEF Flow
    <2> HIDE DEF q
    <2>4. OwnWork(x)' = OwnWork(x) + 1
      BY <1>0, <1>4, <2>2 DEF OwnWork, Types
    <2>5. outstanding_work' \in Int /\ outstanding_work' + OwnWork(x)' = outstanding_work + OwnWork(x) + Count(Counted, q)
      BY <1>0, <1>1, <1>9, <2>1, <2>4
    <2>6. Count({"strand"}, q) + (-1) + (IF strand.locked THEN 1 ELSE 0) = IF strand'.locked THEN 1 ELSE 0
      BY <1>2, <1>4, <1>11, <2>1
    <2>7. ~strand'.locked => strand'.ready = <<>> /\ strand'.waiting = <<>>
      BY <1>2, <1>11
    <2> QED  BY <1>1, <1>2, <1>9, <2>1, <2>3, <2>5, <2>6, <2>7, StrandFlowKeeps
  <1>12. CASE strand.waiting = <<>>
    <2> DEFINE q == <<>>
    <2>1. q \in Seq(Op) /\ Count(Counted, q) = 0 /\ Count({"task", "perform"}, q) = 0 /\ Count({"strand"}, q) = 0
      BY CountEmpty
    <2>2. UNCHANGED <<private, private_work>>
      BY <1>12 DEF StrandExit
    <2>3. Flow(x, q, -1)
      BY <1>1, <1>4, <1>5, <1>6, <1>8, <1>10, <2>1, <2>2 DEF Flow
    <2> HIDE DEF q
    <2>4. OwnWork(x)' = OwnWork(x)
      BY <2>2 DEF OwnWork
    <2>5. outstanding_work' \in Int /\ outstanding_work' + OwnWork(x)' = outstanding_work + OwnWork(x) + Count(Counted, q)
      BY <1>0, <1>1, <1>9, <2>1, <2>4
    <2>6. Count({"strand"}, q) + (-1) + (IF strand.locked THEN 1 ELSE 0) = IF strand'.locked THEN 1 ELSE 0
      BY <1>2, <1>4, <1>12, <2>1
    <2>7. ~strand'.locked => strand'.ready = <<>> /\ strand'.waiting = <<>>
      BY <1>2, <1>12
    <2> QED  BY <1>1, <1>2, <1>9, <2>1, <2>3, <2>5, <2>6, <2>7, StrandFlowKeeps
  <1> QED  BY <1>11, <1>12

LEMMA DispatchExitKeeps ==
    ASSUME Inv, NEW x \in Actor, DispatchExit(x), UNCHANGED descVars
    PROVE  Inv' /\ Elsewhere(x)
  <1> DEFINE r == strand.ready \o strand.waiting
  <1>0. TypeInv /\ Types /\ outstanding_work \in Int
    BY DEF Inv, TypeInv, Types
  <1>1. /\ InCall(x, "dispatched") /\ HandsOver
        /\ UNCHANGED <<op_queue, stopped, task_interrupted, owner, eventVars, interrupt, threadVars>>
    BY DEF DispatchExit
  <1>2. /\ strand' \in StrandTypes /\ (strand'.locked <=> r # <<>>)
        /\ strand'.ready = r /\ strand'.waiting = <<>>
    BY <1>0, <1>1, HandedOver
  <1>3. "dispatched" \in Entries
    BY DEF Entries
  <1>4. InStrand(x) /\ x \in Thread /\ strand.locked
    BY <1>0, <1>1, <1>3, InCallEntered, EnteredLocked
  <1>5. /\ UNCHANGED <<op_queue, private, private_work, owner, waiting, notified, at>>
        /\ UNCHANGED <<op_queue, stopped, task_interrupted, owner, eventVars, interrupt, at>>
    BY <1>1 DEF eventVars, threadVars
  <1>6. OwnWork(x) \in Nat /\ -1 \in Int
    BY <1>0, OwnTypes DEF OwnsTyped
  <1>7. ASSUME Stacked(x), ~Performs(frames'[x]),
               Count(Entries, frames[x]) = Count(Entries, frames'[x]) + (IF "dispatched" \in Entries THEN 1 ELSE 0)
        PROVE  Flow(x, Pending(frames'[x]), -1) /\ Performing(x) = 0 /\ OwnWork(x)' = OwnWork(x)
    <2>1. Count(Entries, frames'[x]) \in Nat
      BY <1>7, CountType DEF Stacked
    <2>2. Count(Entries, frames'[x]) = Count(Entries, frames[x]) + (-1)
      BY <1>3, <1>7, <2>1
    <2> DEFINE n == -1
    <2>3. Count(Entries, frames'[x]) = Count(Entries, frames[x]) + n
      BY <2>2
    <2> HIDE DEF n
    <2>4. /\ UNCHANGED <<op_queue, private, private_work, owner, waiting, notified, at>>
          /\ "dispatched" # "stop" /\ "dispatched" # "enqueue" /\ "dispatched" # "perform"
      BY <1>5
    <2>5. /\ Flow(x, Pending(frames'[x]), n) /\ Performing(x) = (IF "dispatched" = "perform" THEN 1 ELSE 0)
          /\ OwnWork(x)' = OwnWork(x)
      BY <1>0, <1>1, <1>7, <2>3, <2>4, LibraryFlow
    <2> QED  BY <2>4, <2>5 DEF n
  <1>8. CASE r # <<>>
    <2> DEFINE q == <<StrandOp>>
               e == [call |-> "enqueue", ops |-> q]
    <2>1. /\ q \in Seq(Op) /\ Posts = <<e>>
          /\ Count(Counted, q) = 1 /\ Count({"task", "perform"}, q) = 0 /\ Count({"strand"}, q) = 1
      BY StrandOpIs
    <2>2. Replace(x, Posts) /\ outstanding_work' = outstanding_work + 1
      BY <1>8 DEF DispatchExit
    <2> HIDE DEF q
    <2>3. e \in Inside /\ e.call = "enqueue" /\ e.ops = q
      BY <2>1 DEF Inside
    <2> HIDE DEF e
    <2>4. /\ Stacked(x) /\ ~Performs(frames'[x]) /\ Pending(frames'[x]) = q
          /\ Count(Entries, frames[x]) = Count(Entries, frames'[x]) + (IF "dispatched" \in Entries THEN 1 ELSE 0)
      BY <1>0, <1>1, <2>1, <2>2, <2>3, Replaced
    <2>5. Flow(x, q, -1) /\ Performing(x) = 0 /\ OwnWork(x)' = OwnWork(x)
      BY <1>7, <2>4
    <2>6. outstanding_work' \in Int /\ outstanding_work' + OwnWork(x)' = outstanding_work + OwnWork(x) + Count(Counted, q)
      BY <1>0, <1>6, <2>1, <2>2, <2>5
    <2>7. Count({"strand"}, q) + (-1) + (IF strand.locked THEN 1 ELSE 0) = IF strand'.locked THEN 1 ELSE 0
      BY <1>2, <1>4, <1>8, <2>1
    <2>8. ~strand'.locked => strand'.ready = <<>> /\ strand'.waiting = <<>>
      BY <1>2, <1>8
    <2> QED  BY <1>2, <1>5, <1>6, <2>1, <2>5, <2>6, <2>7, <2>8, StrandFlowKeeps
  <1>9. CASE r = <<>>
    <2> DEFINE q == <<>>
    <2>1. q \in Seq(Op) /\ Count(Counted, q) = 0 /\ Count({"task", "perform"}, q) = 0 /\ Count({"strand"}, q) = 0
      BY CountEmpty
    <2>2. Pop(x) /\ outstanding_work' = outstanding_work
      BY <1>9 DEF DispatchExit
    <2>4. /\ Stacked(x) /\ ~Performs(frames'[x]) /\ Pending(frames'[x]) = q
          /\ Count(Entries, frames[x]) = Count(Entries, frames'[x]) + (IF "dispatched" \in Entries THEN 1 ELSE 0)
      BY <1>0, <1>1, <2>2, Popped
    <2> HIDE DEF q
    <2>5. Flow(x, q, -1) /\ Performing(x) = 0 /\ OwnWork(x)' = OwnWork(x)
      BY <1>7, <2>4
    <2>6. outstanding_work' \in Int /\ outstanding_work' + OwnWork(x)' = outstanding_work + OwnWork(x) + Count(Counted, q)
      BY <1>0, <1>6, <2>1, <2>2, <2>5
    <2>7. Count({"strand"}, q) + (-1) + (IF strand.locked THEN 1 ELSE 0) = IF strand'.locked THEN 1 ELSE 0
      BY <1>2, <1>4, <1>9, <2>1
    <2>8. ~strand'.locked => strand'.ready = <<>> /\ strand'.waiting = <<>>
      BY <1>2, <1>9
    <2> QED  BY <1>2, <1>5, <1>6, <2>1, <2>5, <2>6, <2>7, <2>8, StrandFlowKeeps
  <1> QED  BY <1>8, <1>9

LEMMA StartThreadKeeps ==
    ASSUME Inv, NEW x \in Actor, StartThread(x), UNCHANGED descVars
    PROVE  Inv' /\ Elsewhere(x)
  <1> DEFINE u == Arg(x).t
  <1>0. TypeInv /\ Types
    BY DEF Inv, TypeInv
  <1>1. /\ Calls(x, "thread") /\ at[u] = "new" /\ at' = [at EXCEPT ![u] = "start"] /\ Advance(x, <<>>)
        /\ UNCHANGED <<op_queue, outstanding_work, stopped, task_interrupted, owner,
                       eventVars, interrupt, private, private_work, strand>>
    BY DEF StartThread, Goes
  <1>2. u \in Thread /\ InCall(x, "handler")
    BY <1>0, <1>1, UserFrame
  <1>3. x \in Thread => at[x] = "running"
    BY <1>0, <1>2, InnermostCall
  <1> HIDE DEF u
  <1>4. /\ at' \in [Thread -> Labels] /\ (x \in Thread => at'[x] = at[x])
        /\ \A t \in Thread : t # x => at'[t] = at[t] \/ (at[t] = "new" /\ at'[t] = "start")
    BY <1>0, <1>1, <1>2, <1>3 DEF Types, Labels
  <1>5. /\ UNCHANGED <<op_queue, private, private_work, owner, waiting, notified, owes, signalled>>
        /\ waiting \cap notified = {}
    BY <1>0, <1>1 DEF eventVars, TypeInv, ThreadInv
  <1>6. Called(frames[x], <<>>) /\ Pending(<<>>) = <<>> /\ Len(<<>>) = 0
    BY NoCall
  <1>7. Flow(x, Pending(<<>>), IF Len(<<>>) = 2 THEN 1 ELSE 0) /\ ~Performs(frames[x])
    BY <1>0, <1>1, <1>4, <1>5, <1>6, UserFlow
  <1>8. Flow(x, <<>>, 0)
    BY <1>6, <1>7
  <1>9. Types'
    <2>1. /\ op_queue' \in Seq(Op) /\ private' \in [Thread -> Seq(Op)]
          /\ private_work' \in [Thread -> Nat] /\ frames' \in [Actor -> Seq(Frame)]
      BY <1>0, <1>8, FlowTypes
    <2>2. UNCHANGED <<queued, registered, closed, avail, edge>>
      BY DEF descVars
    <2> QED  BY <1>0, <1>1, <1>4, <1>5, <2>1, <2>2 DEF Types
  <1>10. UNCHANGED <<outstanding_work, queued, strand>>
    BY <1>1 DEF descVars
  <1> QED  BY <1>7, <1>8, <1>9, <1>10, PlainKeeps

LEMMA ReturnKeeps ==
    ASSUME Inv, NEW x \in Actor, Return(x), UNCHANGED descVars
    PROVE  Inv' /\ Elsewhere(x)
  <1>0. TypeInv /\ Types
    BY DEF Inv, TypeInv
  <1>1. /\ InCall(x, "handler") /\ Pop(x)
        /\ UNCHANGED <<op_queue, outstanding_work, stopped, task_interrupted, owner,
                       eventVars, interrupt, threadVars, strand>>
    BY DEF Return
  <1>2. /\ Stacked(x) /\ ~Performs(frames'[x]) /\ Pending(frames'[x]) = <<>>
        /\ Count(Entries, frames[x]) = Count(Entries, frames'[x]) + (IF "handler" \in Entries THEN 1 ELSE 0)
    BY <1>0, <1>1, Popped
  <1>3. Count(Entries, frames'[x]) \in Nat /\ "handler" \notin Entries
    BY <1>2, CountType DEF Stacked, Entries
  <1>4. Count(Entries, frames'[x]) = Count(Entries, frames[x]) + 0
    BY <1>2, <1>3
  <1>5. /\ UNCHANGED <<op_queue, private, private_work, owner, waiting, notified, at>>
        /\ UNCHANGED <<owes, signalled, queued, registered, closed, avail, edge>>
    BY <1>1 DEF eventVars, threadVars, descVars
  <1>6. Flow(x, Pending(frames'[x]), 0)
    BY <1>0, <1>1, <1>2, <1>4, <1>5, LibraryFlow
  <1>7. Flow(x, <<>>, 0)
    BY <1>2, <1>6
  <1>8. ~Performs(frames[x])
    BY <1>0, <1>1, InnermostCall
  <1>9. Types'
    <2>1. /\ op_queue' \in Seq(Op) /\ private' \in [Thread -> Seq(Op)]
          /\ private_work' \in [Thread -> Nat] /\ frames' \in [Actor -> Seq(Frame)]
      BY <1>0, <1>7, FlowTypes
    <2> QED  BY <1>0, <1>1, <1>5, <2>1 DEF Types
  <1>10. UNCHANGED <<outstanding_work, queued, strand>>
    BY <1>1, <1>5
  <1> QED  BY <1>7, <1>8, <1>9, <1>10, PlainKeeps


-----------------------------------------------------------------------------
(***************************************************************************)
(* The reactor.                                                            *)
(***************************************************************************)
\* The completions of some operations are as many operations of the service.
LEMMA WrappedAre ==
    ASSUME NEW hs \in Seq(Handlers)
    PROVE  LET q == WrappedOps(hs)
           IN  /\ q \in Seq(Op) /\ Len(q) = Len(hs) /\ Len(q) \in Nat
               /\ Count(Counted, q) = Len(hs)
               /\ Count({"task", "perform"}, q) = 0 /\ Count({"strand"}, q) = 0
               /\ q # <<>> => hs # <<>> /\ Head(q) = Wrapped(Head(hs)) /\ Head(hs) \in Handlers
               /\ q = <<>> => Len(hs) = 0
  <1> DEFINE q == WrappedOps(hs)
  <1>1. Len(hs) \in Nat /\ DOMAIN hs = 1..Len(hs) /\ \A i \in 1..Len(hs) : hs[i] \in Handlers
    OBVIOUS
  <1>2. \A i \in 1..Len(hs) : Wrapped(hs[i]) \in Op /\ Wrapped(hs[i]).call = "wrapped"
    BY <1>1, OpsAre
  <1>3. q = [i \in 1..Len(hs) |-> Wrapped(hs[i])]
    BY <1>1 DEF WrappedOps
  <1> HIDE DEF q
  <1>4. q \in Seq(Op) /\ Len(q) = Len(hs) /\ DOMAIN q = 1..Len(hs)
    BY <1>1, <1>2, <1>3
  <1>5. \A i \in 1..Len(q) : q[i].call = "wrapped"
    BY <1>2, <1>3, <1>4
  <1>6. Count({"task", "perform"}, q) = 0 /\ Count({"strand"}, q) = 0
    BY <1>4, <1>5, CountType
  <1>7. Count(Counted, q) = Len(hs)
    <2>1. Places(Counted, q) = 1..Len(hs)
      BY <1>4, <1>5 DEF Places, Counted
    <2>2. 1 \in Int /\ Len(hs) \in Int
      BY <1>1
    <2>3. Cardinality(1..Len(hs)) = IF 1 > Len(hs) THEN 0 ELSE Len(hs) - 1 + 1
      BY <2>2, FS_Interval
    <2>4. Cardinality(1..Len(hs)) = Len(hs)
      BY <1>1, <2>3
    <2> QED  BY <1>4, <2>1, <2>4, CountType
  <1>8. ASSUME q # <<>> PROVE hs # <<>> /\ Head(q) = Wrapped(Head(hs)) /\ Head(hs) \in Handlers
    <2>1. Head(q) = q[1] /\ Len(q) >= 1
      BY <1>4, <1>8, HeadTailParts
    <2>2. hs # <<>>
      BY <1>4, <2>1
    <2>3. Head(hs) = hs[1] /\ Head(hs) \in Handlers
      BY <2>2, HeadTailParts
    <2> QED  BY <1>1, <1>3, <1>4, <2>1, <2>2, <2>3
  <1>9. q = <<>> => Len(hs) = 0
    BY <1>4
  <1> QED  BY <1>1, <1>4, <1>6, <1>7, <1>8, <1>9 DEF q

\* An operation on the socket that completes at once, or begins to wait.
LEMMA StartOpKeeps ==
    ASSUME Inv, NEW x \in Actor, StartOp(x)
    PROVE  Inv' /\ Elsewhere(x)
  <1> DEFINE k == Arg(x).k
             h == Arg(x).h
             performed == ~closed /\ queued[k] = <<>> /\ avail[k] > 0
  <1>0. TypeInv /\ Types /\ outstanding_work \in Int
    BY DEF Inv, TypeInv, Types
  <1>1. /\ Calls(x, "async")
        /\ avail' = [avail EXCEPT ![k] = IF performed THEN @ - 1 ELSE @]
        /\ UNCHANGED <<op_queue, stopped, task_interrupted, owner, eventVars, interrupt, at, strand,
                       queued, registered, closed, edge>>
    BY DEF StartOp
  <1>2. k \in Kind /\ h \in Handlers
    BY <1>0, <1>1, UserFrame
  <1>3. avail' \in [Kind -> Nat]
    <2>1. avail \in [Kind -> Nat] /\ (performed => avail[k] > 0)
      BY <1>0 DEF Types
    <2> HIDE DEF performed, k
    <2> QED  BY <1>1, <1>2, <2>1
  <1>4. /\ Wrapped(h) \in Op /\ Wrapped(h).call = "wrapped" /\ <<Wrapped(h)>> \in Seq(Op)
    BY <1>2, OpsAre
  <1>5. /\ Count(Counted, <<Wrapped(h)>>) = 1 /\ Count({"task", "perform"}, <<Wrapped(h)>>) = 0
        /\ Count({"strand"}, <<Wrapped(h)>>) = 0 /\ Wrapped(h).call \in Counted
    BY <1>4, CountOne DEF Counted
  <1>6. /\ ~strand'.locked => strand'.ready = <<>> /\ strand'.waiting = <<>>
        /\ strand' \in StrandTypes /\ strand' = strand
        /\ queued' \in [Kind -> Seq(Handlers)] /\ registered' \subseteq Kind
        /\ closed' \in BOOLEAN /\ edge' \in BOOLEAN /\ queued' = queued
    BY <1>0, <1>1 DEF Inv, StrandInv, Types, StrandTypes
  <1>7. Len(queued["read"]) \in Nat /\ Len(queued["write"]) \in Nat /\ OwnWork(x) \in Nat
    BY <1>0, OwnTypes DEF OwnsTyped
  <1>8. CASE (performed \/ closed) /\ InStrand(x)
    <2> DEFINE o == Wrapped(h)
               q == <<o>>
    <2>1. /\ private' = [private EXCEPT ![x] = Append(@, o)]
          /\ private_work' = [private_work EXCEPT ![x] = @ + 1]
          /\ Advance(x, <<>>) /\ outstanding_work' = outstanding_work
      BY <1>8 DEF StartOp, CompletesAtOnce
    <2>2. o \in Op /\ o.call \in Counted /\ q \in Seq(Op)
      BY <1>4, <1>5
    <2>3. Count(Counted, q) = 1 /\ Count({"task", "perform"}, q) = 0 /\ Count({"strand"}, q) = 0
      BY <1>5
    <2> HIDE DEF o
    <2>4. Called(frames[x], <<>>) /\ Pending(<<>>) = <<>> /\ Len(<<>>) = 0
      BY NoCall
    <2>5. /\ Stacked(x) /\ ~Performs(frames[x]) /\ ~Performs(frames'[x])
          /\ Pending(frames[x]) = <<>> /\ Pending(frames'[x]) = Pending(<<>>)
          /\ Count(Entries, frames'[x]) = Count(Entries, frames[x]) + Count(Entries, <<>>)
          /\ x \in Thread => at[x] = "running"
      <3> DEFINE new == <<>>
      <3>1. Calls(x, "async") /\ Advance(x, new) /\ Called(frames[x], new) /\ (Len(new) = 2 => x \in Thread)
        BY <1>1, <2>1, <2>4
      <3> HIDE DEF new
      <3>2. /\ Stacked(x) /\ ~Performs(frames[x]) /\ ~Performs(frames'[x])
            /\ Pending(frames[x]) = <<>> /\ Pending(frames'[x]) = Pending(new)
            /\ Count(Entries, frames'[x]) = Count(Entries, frames[x]) + Count(Entries, new)
            /\ x \in Thread => at[x] = "running"
        BY <1>0, <3>1, UserMoves
      <3> QED  BY <3>2 DEF new
    <2>6. x \in Thread
      <3>1. PICK i \in DOMAIN frames[x] : frames[x][i].call \in {"strand", "dispatched"}
        BY <1>8 DEF InStrand
      <3>2. frames[x] \in Seq(Frame)
        BY <1>0 DEF Types
      <3>3. x \notin Outside
        BY <1>0, <3>1, <3>2 DEF TypeInv, StackInv
      <3> QED  BY <3>3 DEF Actor
    <2>7. UNCHANGED <<waiting, notified, owner, at>> /\ waiting \cap notified = {}
      BY <1>0, <1>1 DEF eventVars, TypeInv, ThreadInv
    <2>8. Count(Entries, frames'[x]) = Count(Entries, frames[x]) + 0
      BY <2>5, EmptyStack
    <2>9. Flow(x, q, 0)
      BY <1>1, <2>1, <2>2, <2>4, <2>5, <2>6, <2>7, <2>8 DEF Flow
    <2> HIDE DEF q
    <2>10. OwnWork(x)' = OwnWork(x) + 1 /\ Performing(x) = 0
      BY <1>0, <2>1, <2>5, <2>6 DEF OwnWork, Types, Performing
    <2>11. Types'
      <3>1. /\ op_queue' \in Seq(Op) /\ private' \in [Thread -> Seq(Op)]
            /\ private_work' \in [Thread -> Nat] /\ frames' \in [Actor -> Seq(Frame)]
        BY <1>0, <2>9, FlowTypes
      <3>2. /\ UNCHANGED <<owes, signalled, waiting, notified, at, outstanding_work>>
            /\ UNCHANGED <<stopped, task_interrupted, interrupt>>
        BY <1>1, <2>1 DEF eventVars
      <3> QED  BY <1>0, <1>3, <1>6, <3>1, <3>2 DEF Types, StrandTypes
    <2>12. outstanding_work' + OwnWork(x)' + Len(queued["read"]) + Len(queued["write"]) =
              outstanding_work + OwnWork(x) + Count(Counted, q)
              + Len(queued'["read"]) + Len(queued'["write"]) + Performing(x)
      BY <1>0, <1>6, <1>7, <2>1, <2>3, <2>10
    <2>13. Count({"strand"}, q) + 0 + (IF strand.locked THEN 1 ELSE 0) = IF strand'.locked THEN 1 ELSE 0
      BY <1>6, <2>3
    <2> QED  BY <1>6, <2>3, <2>9, <2>11, <2>12, <2>13, FlowKeeps
  <1>9. ASSUME UNCHANGED threadVars, NEW new, Advance(x, new), Called(frames[x], new), Len(new) # 2,
               NEW q, Pending(new) = q, Count({"task", "perform"}, q) = 0, Count({"strand"}, q) = 0,
               Count(Counted, q) \in Nat, outstanding_work' = outstanding_work + Count(Counted, q)
        PROVE  Inv' /\ Elsewhere(x)
    <2>1. UNCHANGED <<op_queue, stopped, task_interrupted, owner, eventVars, interrupt, threadVars>>
      BY <1>1, <1>9
    <2>2. /\ outstanding_work' \in Int
          /\ outstanding_work' + Len(queued["read"]) + Len(queued["write"]) =
               outstanding_work + Count(Counted, Pending(new)) + Len(queued'["read"]) + Len(queued'["write"])
      BY <1>0, <1>6, <1>7, <1>9
    <2>3. Count({"strand"}, Pending(new)) + (IF Len(new) = 2 THEN 1 ELSE 0)
               + (IF strand.locked THEN 1 ELSE 0) = IF strand'.locked THEN 1 ELSE 0
      BY <1>6, <1>9
    <2>4. Count({"task", "perform"}, Pending(new)) = 0
      BY <1>9
    <2> QED  BY <1>1, <1>3, <1>6, <1>9, <2>1, <2>2, <2>3, <2>4, UserKeeps
  <1>10. CASE (performed \/ closed) /\ ~InStrand(x)
    <2> DEFINE q == <<Wrapped(h)>>
               new == <<[call |-> "enqueue", ops |-> q]>>
    <2>1. Advance(x, new) /\ outstanding_work' = outstanding_work + 1 /\ UNCHANGED threadVars
      BY <1>1, <1>10 DEF StartOp, CompletesAtOnce, threadVars
    <2>2. /\ q \in Seq(Op) /\ Count(Counted, q) = 1 /\ Count({"task", "perform"}, q) = 0
          /\ Count({"strand"}, q) = 0
      BY <1>4, <1>5
    <2> HIDE DEF q
    <2>3. Called(frames[x], new) /\ Pending(new) = q /\ Len(new) # 2
      BY <2>2, Queueing
    <2> HIDE DEF new
    <2> QED  BY <1>9, <2>1, <2>2, <2>3
  <1>11. CASE ~(performed \/ closed)
    <2> DEFINE q == <<>>
               f == [call |-> "await", k |-> k, h |-> h]
               new == <<f>>
    <2>1. Advance(x, new) /\ outstanding_work' = outstanding_work /\ UNCHANGED threadVars
      BY <1>1, <1>11 DEF StartOp, threadVars
    <2>2. f \in Inside /\ f \in Frame /\ f.call = "await"
      BY <1>2, FramesAre DEF Inside
    <2> HIDE DEF f
    <2>3. Called(frames[x], new) /\ Len(new) # 2 /\ Pending(new) = q
      BY <2>2, OneFrame DEF Called
    <2> HIDE DEF new
    <2>4. /\ Count(Counted, q) = 0 /\ Count({"task", "perform"}, q) = 0 /\ Count({"strand"}, q) = 0
      BY CountEmpty
    <2> HIDE DEF q
    <2>5. outstanding_work' = outstanding_work + Count(Counted, q)
      BY <1>0, <2>1, <2>4
    <2> QED  BY <1>9, <2>1, <2>3, <2>4, <2>5
  <1> QED  BY <1>8, <1>10, <1>11

\* A step of a reactor's call that is not user code.
LEMMA ReactorFlowKeeps ==
    ASSUME Inv, NEW x \in Actor, NEW q, Flow(x, q, 0),
           UNCHANGED <<op_queue, stopped, task_interrupted, owner, eventVars, interrupt, threadVars, strand>>,
           queued' \in [Kind -> Seq(Handlers)], registered' \subseteq Kind, closed' \in BOOLEAN,
           avail' \in [Kind -> Nat], edge' \in BOOLEAN, outstanding_work' \in Int,
           outstanding_work' + Len(queued["read"]) + Len(queued["write"]) =
             outstanding_work + Count(Counted, q) + Len(queued'["read"]) + Len(queued'["write"]) + Performing(x),
           Count({"task", "perform"}, q) = 0, Count({"strand"}, q) = 0, Count(Counted, q) \in Nat
    PROVE  Inv' /\ Elsewhere(x)
  <1>0. TypeInv /\ Types /\ outstanding_work \in Int /\ strand \in StrandTypes /\ strand' = strand
    BY DEF Inv, TypeInv, Types, StrandTypes
  <1>1. /\ op_queue' \in Seq(Op) /\ private' \in [Thread -> Seq(Op)]
        /\ private_work' \in [Thread -> Nat] /\ frames' \in [Actor -> Seq(Frame)]
    BY <1>0, FlowTypes
  <1>2. UNCHANGED <<owes, signalled, waiting, notified, at, stopped, task_interrupted, interrupt>>
    BY DEF eventVars, threadVars
  <1>3. Types'
    BY <1>0, <1>1, <1>2 DEF Types
  <1>4. OwnWork(x)' = OwnWork(x)
    BY DEF OwnWork, threadVars
  <1>5. /\ OwnWork(x) \in Nat /\ Len(queued["read"]) \in Nat /\ Len(queued["write"]) \in Nat
        /\ Performing(x) \in Nat
    BY <1>0, OwnTypes DEF OwnsTyped, Performing
  <1>6. Len(queued'["read"]) \in Nat /\ Len(queued'["write"]) \in Nat
    BY DEF Kind
  <1>7. outstanding_work' + OwnWork(x)' + Len(queued["read"]) + Len(queued["write"]) =
            outstanding_work + OwnWork(x) + Count(Counted, q)
            + Len(queued'["read"]) + Len(queued'["write"]) + Performing(x)
    <2> DEFINE w  == OwnWork(x)
               w1 == OwnWork(x)'
               c  == Count(Counted, q)
               p  == Performing(x)
               r  == Len(queued["read"])
               r1 == Len(queued'["read"])
               v  == Len(queued["write"])
               v1 == Len(queued'["write"])
               o  == outstanding_work
               o1 == outstanding_work'
    <2>1. /\ w \in Nat /\ c \in Nat /\ p \in Nat /\ r \in Nat /\ r1 \in Nat /\ v \in Nat /\ v1 \in Nat
          /\ o \in Int /\ o1 \in Int
          /\ w1 = w /\ o1 + r + v = o + c + r1 + v1 + p
      BY <1>0, <1>4, <1>5, <1>6
    <2> HIDE DEF w, w1, c, p, r, r1, v, v1, o, o1
    <2>2. o1 + w1 + r + v = o + w + c + r1 + v1 + p
      BY <2>1
    <2> QED  BY <2>2 DEF w, w1, c, p, r, r1, v, v1, o, o1
  <1>8. /\ Count({"strand"}, q) + 0 + (IF strand.locked THEN 1 ELSE 0) = IF strand'.locked THEN 1 ELSE 0
        /\ ~strand'.locked => strand'.ready = <<>> /\ strand'.waiting = <<>>
    BY <1>0 DEF Inv, StrandInv
  <1>9. 0 \in Int
    OBVIOUS
  <1> QED  BY <1>3, <1>7, <1>8, <1>9, FlowKeeps

\* The operation waits for the socket, and is counted.
LEMMA AwaitKeeps ==
    ASSUME Inv, NEW x \in Actor, Await(x)
    PROVE  Inv' /\ Elsewhere(x)
  <1> DEFINE k == Top(x).k
             h == Top(x).h
  <1>0. TypeInv /\ Types /\ outstanding_work \in Int
    BY DEF Inv, TypeInv, Types
  <1>1. /\ InCall(x, "await") /\ registered' = registered \cup {k}
        /\ edge' = (edge \/ (k \notin registered /\ \E j \in registered \cup {k} : avail[j] > 0))
        /\ queued' = [queued EXCEPT ![k] = Append(@, h)]
        /\ outstanding_work' = outstanding_work + 1 /\ Pop(x)
        /\ UNCHANGED <<op_queue, stopped, task_interrupted, owner, eventVars,
                       interrupt, threadVars, strand, closed, avail>>
    BY DEF Await
  <1>2. k \in Kind /\ h \in Handlers
    BY <1>0, <1>1, InnermostCall, FrameIs
  <1>3. /\ Stacked(x) /\ ~Performs(frames'[x]) /\ Pending(frames'[x]) = <<>>
        /\ Count(Entries, frames[x]) = Count(Entries, frames'[x]) + (IF "await" \in Entries THEN 1 ELSE 0)
    BY <1>0, <1>1, Popped
  <1>4. Count(Entries, frames'[x]) \in Nat /\ "await" \notin Entries
    BY <1>3, CountType DEF Stacked, Entries
  <1>5. Count(Entries, frames'[x]) = Count(Entries, frames[x]) + 0
    BY <1>3, <1>4
  <1>6. /\ UNCHANGED <<op_queue, private, private_work, owner, waiting, notified, at>>
        /\ UNCHANGED <<op_queue, stopped, task_interrupted, owner, eventVars, interrupt, threadVars, strand>>
    BY <1>1 DEF eventVars, threadVars
  <1>7. /\ Flow(x, Pending(frames'[x]), 0) /\ Performing(x) = (IF "await" = "perform" THEN 1 ELSE 0)
    BY <1>0, <1>1, <1>3, <1>5, <1>6, LibraryFlow
  <1>8. Flow(x, <<>>, 0) /\ Performing(x) = 0
    BY <1>3, <1>7
  <1>9. queued \in [Kind -> Seq(Handlers)] /\ registered \subseteq Kind /\ edge \in BOOLEAN
    BY <1>0 DEF Types
  <1>10. edge' \in BOOLEAN /\ closed' \in BOOLEAN /\ avail' \in [Kind -> Nat] /\ registered' \subseteq Kind
    BY <1>0, <1>1, <1>2 DEF Types
  <1> HIDE DEF k, h
  <1>11. /\ queued' \in [Kind -> Seq(Handlers)] /\ Len(queued'[k]) = Len(queued[k]) + 1
         /\ \A j \in Kind : j # k => queued'[j] = queued[j]
    BY <1>1, <1>2, <1>9
  <1>12. "read" \in Kind /\ "write" \in Kind /\ (k = "read" \/ k = "write") /\ Len(queued[k]) \in Nat
         /\ Len(queued["read"]) \in Nat /\ Len(queued["write"]) \in Nat
    BY <1>2, <1>9 DEF Kind
  <1>13. Len(queued'["read"]) + Len(queued'["write"]) = Len(queued["read"]) + Len(queued["write"]) + 1
         /\ Len(queued'["read"]) \in Nat /\ Len(queued'["write"]) \in Nat
    <2>1. ASSUME NEW j \in Kind, j # k,
                 NEW a \in Nat, NEW b \in Nat, a = Len(queued[k]), b = Len(queued[j])
          PROVE  Len(queued'[k]) = a + 1 /\ Len(queued'[j]) = b
      BY <1>11, <2>1
    <2>2. CASE k = "read"
      <3>1. "write" # k
        BY <2>2
      <3>2. Len(queued'[k]) = Len(queued[k]) + 1 /\ Len(queued'["write"]) = Len(queued["write"])
        BY <1>12, <2>1, <3>1
      <3>3. Len(queued'["read"]) = Len(queued["read"]) + 1
        BY <2>2, <3>2
      <3>4. Len(queued["read"]) \in Nat /\ Len(queued["write"]) \in Nat
        BY <1>12
      <3> DEFINE r  == Len(queued["read"])
                 r1 == Len(queued'["read"])
                 v  == Len(queued["write"])
                 v1 == Len(queued'["write"])
      <3>5. r \in Nat /\ v \in Nat /\ r1 = r + 1 /\ v1 = v + 0
        BY <3>2, <3>3, <3>4
      <3> HIDE DEF r, r1, v, v1
      <3>6. r1 + v1 = r + v + 1 /\ r1 \in Nat /\ v1 \in Nat
        BY <3>5
      <3> QED  BY <3>6 DEF r, r1, v, v1
    <2>3. CASE k = "write"
      <3>1. "read" # k
        BY <2>3
      <3>2. Len(queued'[k]) = Len(queued[k]) + 1 /\ Len(queued'["read"]) = Len(queued["read"])
        BY <1>12, <2>1, <3>1
      <3>3. Len(queued'["write"]) = Len(queued["write"]) + 1
        BY <2>3, <3>2
      <3>4. Len(queued["read"]) \in Nat /\ Len(queued["write"]) \in Nat
        BY <1>12
      <3> DEFINE r  == Len(queued["read"])
                 r1 == Len(queued'["read"])
                 v  == Len(queued["write"])
                 v1 == Len(queued'["write"])
      <3>5. r \in Nat /\ v \in Nat /\ r1 = r + 0 /\ v1 = v + 1
        BY <3>2, <3>3, <3>4
      <3> HIDE DEF r, r1, v, v1
      <3>6. r1 + v1 = r + v + 1 /\ r1 \in Nat /\ v1 \in Nat
        BY <3>5
      <3> QED  BY <3>6 DEF r, r1, v, v1
    <2> QED  BY <1>12, <2>2, <2>3
  <1> DEFINE q == <<>>
  <1>14. /\ Count(Counted, q) = 0 /\ Count({"task", "perform"}, q) = 0 /\ Count({"strand"}, q) = 0 /\ Flow(x, q, 0)
    BY <1>8, CountEmpty
  <1> HIDE DEF q
  <1>15. /\ outstanding_work' \in Int
         /\ outstanding_work' + Len(queued["read"]) + Len(queued["write"]) =
              outstanding_work + Count(Counted, q) + Len(queued'["read"]) + Len(queued'["write"]) + Performing(x)
    <2> DEFINE r  == Len(queued["read"])
               r1 == Len(queued'["read"])
               v  == Len(queued["write"])
               v1 == Len(queued'["write"])
               o  == outstanding_work
               o1 == outstanding_work'
               c  == Count(Counted, q)
               p  == Performing(x)
    <2>1. /\ r \in Nat /\ r1 \in Nat /\ v \in Nat /\ v1 \in Nat /\ o \in Int
          /\ o1 = o + 1 /\ c = 0 /\ p = 0 /\ r1 + v1 = r + v + 1
      BY <1>0, <1>1, <1>8, <1>12, <1>13, <1>14
    <2> HIDE DEF r, r1, v, v1, o, o1, c, p
    <2>2. o1 \in Int /\ o1 + r + v = o + c + r1 + v1 + p
      BY <2>1
    <2> QED  BY <2>2 DEF r, r1, v, v1, o, o1, c, p
  <1>16. Count(Counted, q) \in Nat
    BY <1>14
  <1> QED  BY <1>6, <1>10, <1>11, <1>14, <1>15, <1>16, ReactorFlowKeeps

\* What waits for a socket that is closed is on its way to the queue.
LEMMA CloseKeeps ==
    ASSUME Inv, NEW x \in Actor, Close(x)
    PROVE  Inv' /\ Elsewhere(x)
  <1> DEFINE hs == queued["read"] \o queued["write"]
             q == WrappedOps(hs)
             new == PostDeferred(q)
  <1>0. TypeInv /\ Types /\ outstanding_work \in Int
    BY DEF Inv, TypeInv, Types
  <1>1. /\ Calls(x, "close") /\ Advance(x, new) /\ queued' = [k \in Kind |-> <<>>]
        /\ closed' = TRUE /\ edge' = FALSE
        /\ UNCHANGED <<op_queue, outstanding_work, stopped, task_interrupted, owner,
                       eventVars, interrupt, threadVars, strand, registered, avail>>
    BY DEF Close
  <1>2. /\ queued["read"] \in Seq(Handlers) /\ queued["write"] \in Seq(Handlers)
        /\ "read" \in Kind /\ "write" \in Kind
    BY <1>0 DEF Types, Kind
  <1>3. /\ hs \in Seq(Handlers) /\ Len(hs) = Len(queued["read"]) + Len(queued["write"])
        /\ Len(queued["read"]) \in Nat /\ Len(queued["write"]) \in Nat
    BY <1>2
  <1> HIDE DEF hs
  <1>4. /\ q \in Seq(Op) /\ Count(Counted, q) = Len(hs)
        /\ Count({"task", "perform"}, q) = 0 /\ Count({"strand"}, q) = 0
    BY <1>3, WrappedAre
  <1> HIDE DEF q
  <1>5. Called(frames[x], new) /\ Pending(new) = q /\ Len(new) # 2
    BY <1>4, Queueing
  <1> HIDE DEF new
  <1>6. /\ queued' \in [Kind -> Seq(Handlers)] /\ Len(queued'["read"]) = 0 /\ Len(queued'["write"]) = 0
    BY <1>1, <1>2
  <1>7. /\ registered' \subseteq Kind /\ closed' \in BOOLEAN /\ avail' \in [Kind -> Nat] /\ edge' \in BOOLEAN
        /\ strand' \in StrandTypes /\ strand' = strand
        /\ ~strand'.locked => strand'.ready = <<>> /\ strand'.waiting = <<>>
    BY <1>0, <1>1 DEF Inv, StrandInv, Types, StrandTypes
  <1>8. /\ outstanding_work' \in Int
        /\ outstanding_work' + Len(queued["read"]) + Len(queued["write"]) =
             outstanding_work + Count(Counted, Pending(new)) + Len(queued'["read"]) + Len(queued'["write"])
    <2> DEFINE r  == Len(queued["read"])
               r1 == Len(queued'["read"])
               v  == Len(queued["write"])
               v1 == Len(queued'["write"])
               o  == outstanding_work
               o1 == outstanding_work'
               c  == Count(Counted, Pending(new))
    <2>1. /\ r \in Nat /\ r1 = 0 /\ v \in Nat /\ v1 = 0 /\ o \in Int
          /\ o1 = o /\ c = r + v
      BY <1>0, <1>1, <1>3, <1>4, <1>5, <1>6
    <2> HIDE DEF r, r1, v, v1, o, o1, c
    <2>2. o1 \in Int /\ o1 + r + v = o + c + r1 + v1
      BY <2>1
    <2> QED  BY <2>2 DEF r, r1, v, v1, o, o1, c
  <1>9. /\ Count({"task", "perform"}, Pending(new)) = 0
        /\ Count({"strand"}, Pending(new)) + (IF Len(new) = 2 THEN 1 ELSE 0)
               + (IF strand.locked THEN 1 ELSE 0) = IF strand'.locked THEN 1 ELSE 0
    BY <1>4, <1>5, <1>7
  <1>10. UNCHANGED <<op_queue, stopped, task_interrupted, owner, eventVars, interrupt, threadVars>>
    BY <1>1
  <1> QED  BY <1>1, <1>5, <1>6, <1>7, <1>8, <1>9, <1>10, UserKeeps

\* What perform() completes of one kind.
LEMMA PerformedIs ==
    ASSUME Types, NEW k \in Kind, NEW events
    PROVE  LET n == Performed(k, events)
           IN  /\ n \in Nat /\ n \in 0..Len(queued[k]) /\ avail[k] - n \in Nat
               /\ SubSeq(queued[k], 1, n) \in Seq(Handlers) /\ Len(SubSeq(queued[k], 1, n)) = n
               /\ SubSeq(queued[k], n + 1, Len(queued[k])) \in Seq(Handlers)
               /\ Len(SubSeq(queued[k], n + 1, Len(queued[k]))) + n = Len(queued[k])
               /\ Len(queued[k]) \in Nat
  <1> DEFINE n == Performed(k, events)
             s == queued[k]
  <1>1. s \in Seq(Handlers) /\ Len(s) \in Nat /\ avail[k] \in Nat
    BY DEF Types
  <1>2. n \in 0..Len(s) /\ avail[k] - n \in Nat
    BY <1>1 DEF Performed
  <1> HIDE DEF n, s
  <1>3. /\ Keep(s, n) \in Seq(Handlers) /\ Drop(s, n) \in Seq(Handlers)
        /\ Len(Keep(s, n)) = n /\ Len(Drop(s, n)) = Len(s) - n
    BY <1>1, <1>2, KeepDropType
  <1>4. n \in Nat /\ Len(s) - n + n = Len(s)
    BY <1>1, <1>2
  <1> QED  BY <1>1, <1>2, <1>3, <1>4 DEF n, s, Keep, Drop

\* The descriptor's operation: what it completes goes on as operations that are
\* counted already, the first on the stack that the descriptor's had.
LEMMA PerformIoKeeps ==
    ASSUME Inv, NEW x \in Actor, PerformIo(x)
    PROVE  Inv' /\ Elsewhere(x) /\ Count(Entries, frames[x]) = 0 /\ Count(Entries, frames'[x]) = 0
  <1> DEFINE e  == Top(x).events
             nr == Performed("read", e)
             nw == Performed("write", e)
             hs == SubSeq(queued["write"], 1, nw) \o SubSeq(queued["read"], 1, nr)
             done == WrappedOps(hs)
             t == IF done = <<>> THEN <<>> ELSE <<Head(done)>> \o PostDeferred(Tail(done))
             q == IF done = <<>> THEN <<>> ELSE Tail(done)
  <1>0. TypeInv /\ Types /\ outstanding_work \in Int /\ "read" \in Kind /\ "write" \in Kind
    BY DEF Inv, TypeInv, Types, Kind
  <1>1. /\ InCall(x, "perform")
        /\ queued' = [k \in Kind |-> SubSeq(queued[k], Performed(k, e) + 1, Len(queued[k]))]
        /\ avail' = [k \in Kind |-> avail[k] - Performed(k, e)]
        /\ outstanding_work' = IF done = <<>> THEN outstanding_work + 1 ELSE outstanding_work
        /\ Replace(x, t)
        /\ UNCHANGED <<op_queue, stopped, task_interrupted, owner, eventVars,
                       interrupt, threadVars, strand, registered, closed, edge>>
    BY <1>0 DEF PerformIo
  <1>2. /\ queued' \in [Kind -> Seq(Handlers)] /\ avail' \in [Kind -> Nat]
    <2> HIDE DEF e
    <2>1. \A k \in Kind : /\ SubSeq(queued[k], Performed(k, e) + 1, Len(queued[k])) \in Seq(Handlers)
                          /\ avail[k] - Performed(k, e) \in Nat
      BY <1>0, PerformedIs
    <2> QED  BY <1>1, <2>1
  <1> HIDE DEF e
  <1>3. /\ nr \in Nat /\ Len(SubSeq(queued["read"], 1, nr)) = nr
        /\ SubSeq(queued["read"], 1, nr) \in Seq(Handlers)
        /\ Len(queued'["read"]) + nr = Len(queued["read"]) /\ Len(queued["read"]) \in Nat
    BY <1>0, <1>1, PerformedIs
  <1>4. /\ nw \in Nat /\ Len(SubSeq(queued["write"], 1, nw)) = nw
        /\ SubSeq(queued["write"], 1, nw) \in Seq(Handlers)
        /\ Len(queued'["write"]) + nw = Len(queued["write"]) /\ Len(queued["write"]) \in Nat
    BY <1>0, <1>1, PerformedIs
  <1>5. Len(queued'["read"]) \in Nat /\ Len(queued'["write"]) \in Nat
    BY <1>0, <1>2
  <1> HIDE DEF nr, nw
  <1>6. hs \in Seq(Handlers) /\ Len(hs) = nw + nr
    BY <1>3, <1>4
  <1> HIDE DEF hs
  <1>7. /\ done \in Seq(Op) /\ Count(Counted, done) = nw + nr
        /\ Count({"task", "perform"}, done) = 0 /\ Count({"strand"}, done) = 0
        /\ done # <<>> => Head(done) = Wrapped(Head(hs)) /\ Head(hs) \in Handlers
        /\ done = <<>> => nw + nr = 0
    BY <1>6, WrappedAre
  <1> HIDE DEF done
  <1>8. /\ q \in Seq(Op) /\ Count({"task", "perform"}, q) = 0 /\ Count({"strand"}, q) = 0
        /\ Count(Counted, q) \in Nat
        /\ Count(Counted, q) + (IF done = <<>> THEN 0 ELSE 1) = nw + nr
    <2>1. CASE done = <<>>
      BY <1>3, <1>4, <1>7, <2>1, CountEmpty
    <2>2. CASE done # <<>>
      <3>1. q \in Seq(Op) /\ q = Tail(done) /\ Head(done).call = "wrapped"
        BY <1>7, <2>2, HeadTailParts, OpsAre
      <3> HIDE DEF q
      <3>2. /\ Count(Counted, done) = Count(Counted, q) + (IF Head(done).call \in Counted THEN 1 ELSE 0)
            /\ Count({"task", "perform"}, done) =
                   Count({"task", "perform"}, q) + (IF Head(done).call \in {"task", "perform"} THEN 1 ELSE 0)
            /\ Count({"strand"}, done) = Count({"strand"}, q) + (IF Head(done).call \in {"strand"} THEN 1 ELSE 0)
        BY <1>7, <2>2, <3>1, CountHead
      <3>3. Count(Counted, q) \in Nat /\ Count({"task", "perform"}, q) \in Nat /\ Count({"strand"}, q) \in Nat
        BY <3>1, CountType
      <3>4. "wrapped" \in Counted
        BY DEF Counted
      <3> QED  BY <1>7, <2>2, <3>1, <3>2, <3>3, <3>4
    <2> QED  BY <2>1, <2>2
  <1>9. /\ t \in Seq(Frame) /\ StackOK(t) /\ ~Performs(t) /\ Count(Entries, t) = 0 /\ Pending(t) = q
    <2>1. CASE done = <<>>
      BY <2>1, EmptyStack DEF Open
    <2>2. CASE done # <<>>
      <3> DEFINE h == Head(hs)
                 u == <<Wrapped(h)>> \o PostDeferred(q)
      <3>1. h \in Handlers /\ t = u
        BY <1>7, <2>2
      <3> HIDE DEF h, q, t
      <3>2. /\ u \in Seq(Frame) /\ StackOK(u) /\ ~Performs(u) /\ Count(Entries, u) = 0 /\ Pending(u) = q
        BY <1>8, <3>1, CompletionStack
      <3> QED  BY <3>1, <3>2
    <2> QED  BY <2>1, <2>2
  <1> HIDE DEF q, t
  <1>10. /\ "perform" \notin Above /\ "perform" \notin Entries /\ "perform" # "stop" /\ "perform" # "enqueue"
         /\ "perform" \notin {"handler", "enqueue", "await"}
    BY DEF Above, Entries
  <1>11. /\ Front(frames[x]) = <<>> /\ x \in Thread
         /\ Count(Entries, frames[x]) = Count(Entries, Front(frames[x])) + (IF "perform" \in Entries THEN 1 ELSE 0)
    BY <1>0, <1>1, <1>10, InnermostCall DEF Actor
  <1>12. Count(Entries, frames[x]) = 0
    BY <1>10, <1>11, EmptyStack
  <1>13. Stacked(x) /\ frames'[x] = t
    BY <1>0, <1>1, <1>9, <1>11, Restarted
  <1>14. Count(Entries, frames'[x]) = Count(Entries, frames[x]) + 0
    BY <1>9, <1>12, <1>13
  <1>15. /\ UNCHANGED <<op_queue, private, private_work, owner, waiting, notified, at>>
         /\ UNCHANGED <<op_queue, stopped, task_interrupted, owner, eventVars, interrupt, threadVars, strand>>
         /\ ~Performs(frames'[x]) /\ Pending(frames'[x]) = q
    BY <1>1, <1>9, <1>13 DEF eventVars, threadVars
  <1>16. Flow(x, Pending(frames'[x]), 0) /\ Performing(x) = (IF "perform" = "perform" THEN 1 ELSE 0)
    BY <1>0, <1>1, <1>10, <1>13, <1>14, <1>15, LibraryFlow
  <1>17. Flow(x, q, 0) /\ Performing(x) = 1
    BY <1>15, <1>16
  <1>18. /\ outstanding_work' \in Int
         /\ outstanding_work' + Len(queued["read"]) + Len(queued["write"]) =
              outstanding_work + Count(Counted, q) + Len(queued'["read"]) + Len(queued'["write"]) + Performing(x)
    <2> DEFINE r  == Len(queued["read"])
               r1 == Len(queued'["read"])
               v  == Len(queued["write"])
               v1 == Len(queued'["write"])
               o  == outstanding_work
               o1 == outstanding_work'
               c  == Count(Counted, q)
               p  == Performing(x)
    <2>1. /\ r \in Nat /\ r1 \in Nat /\ v \in Nat /\ v1 \in Nat /\ o \in Int /\ nr \in Nat /\ nw \in Nat
          /\ p = 1 /\ r1 + nr = r /\ v1 + nw = v /\ c \in Nat
      BY <1>0, <1>3, <1>4, <1>5, <1>8, <1>17
    <2>2. \/ o1 = o + 1 /\ c = nw + nr
          \/ o1 = o /\ c + 1 = nw + nr
      <3>1. CASE done = <<>>
        <4>1. o1 = o + 1 /\ c + 0 = nw + nr
          BY <1>1, <1>8, <3>1
        <4> QED  BY <2>1, <4>1
      <3>2. CASE done # <<>>
        <4>1. o1 = o /\ c + 1 = nw + nr
          BY <1>1, <1>8, <3>2
        <4> QED  BY <4>1
      <3> QED  BY <3>1, <3>2
    <2> HIDE DEF r, r1, v, v1, o, o1, c, p
    <2>3. o1 \in Int /\ o1 + r + v = o + c + r1 + v1 + p
      BY <2>1, <2>2
    <2> QED  BY <2>3 DEF r, r1, v, v1, o, o1, c, p
  <1>19. registered' \subseteq Kind /\ closed' \in BOOLEAN /\ edge' \in BOOLEAN
    BY <1>0, <1>1 DEF Types
  <1>20. Inv' /\ Elsewhere(x)
    BY <1>2, <1>8, <1>15, <1>17, <1>18, <1>19, ReactorFlowKeeps
  <1> QED  BY <1>9, <1>12, <1>13, <1>20

-----------------------------------------------------------------------------
(***************************************************************************)
(* run().                                                                  *)
(***************************************************************************)
\* A step that moves nothing.
LEMMA QuietKeeps ==
    ASSUME Inv, TypeInv', UNCHANGED <<op_queue, outstanding_work, private, private_work, frames, strand, queued>>,
           \A t \in Thread : Executing(t)' = Executing(t) /\ Polling(t)' = Polling(t)
    PROVE  Inv'
  <1>1. \A x, names : BeingQueued(names, x)' = BeingQueued(names, x)
    BY BeingQueuedIs
  <1>2. WorkAccounted'
    <2>1. [t \in Thread |-> Count(Counted, private[t]) + Executing(t)]' =
              [t \in Thread |-> Count(Counted, private[t]) + Executing(t)]
      BY DEF Executing
    <2>2. [x \in Actor |-> BeingQueued(Counted, x)]' = [x \in Actor |-> BeingQueued(Counted, x)]
      BY <1>1
    <2> QED  BY <2>1, <2>2 DEF Inv, WorkAccounted
  <1>3. TaskInv'
    <2>1. [t \in Thread |-> Polling(t)]' = [t \in Thread |-> Polling(t)]
      OBVIOUS
    <2> QED  BY <1>1, <2>1 DEF Inv, TaskInv, TaskOrder
  <1>4. StrandInv'
    <2>1. [x \in Actor |-> Count(Entries, frames[x]) + BeingQueued({"strand"}, x)]' =
              [x \in Actor |-> Count(Entries, frames[x]) + BeingQueued({"strand"}, x)]
      BY <1>1
    <2>2. [t \in Thread |-> Count({"strand"}, private[t])]' = [t \in Thread |-> Count({"strand"}, private[t])]
      OBVIOUS
    <2>3. Locks' = Locks
      BY <2>1, <2>2 DEF Locks
    <2> QED  BY <2>3 DEF Inv, StrandInv
  <1> QED  BY <1>2, <1>3, <1>4 DEF Inv

\* A thread that is not asleep takes a step of run().
LEMMA ThreadMoves ==
    ASSUME TypeInv, NEW t \in Thread, Types', Stacked(t), Elsewhere(t), UNCHANGED <<waiting, notified>>,
           at[t] # "wait", at'[t] # "wait",
           owner' = Nobody \/ (owner' = t /\ at'[t] = "loop") \/ (owner' = owner /\ at[t] # "loop"),
           at'[t] # "running" /\ frames'[t] # <<>> =>
                frames'[t] = <<[call |-> "stop"]>> /\ at'[t] \in {"loop", "flush", "returned"},
           at'[t] \in {"new", "start", "loop", "wait", "returned", "poll", "block"} => private'[t] = <<>>,
           private_work'[t] = 0
    PROVE  TypeInv'
  <1>0. ThreadInv
    BY DEF TypeInv
  <1>1. ASSUME NEW u \in Thread
        PROVE  /\ (at'[u] = "wait") <=> (u \in waiting' \cup notified')
               /\ at'[u] # "running" /\ frames'[u] # <<>> =>
                     frames'[u] = <<[call |-> "stop"]>> /\ at'[u] \in {"loop", "flush", "returned"}
               /\ at'[u] \in {"new", "start", "loop", "wait", "returned", "poll", "block"} => private'[u] = <<>>
               /\ private_work'[u] <= Count(Counted, private'[u])
               /\ at'[u] # "running" => private_work'[u] = 0
    <2>0. /\ (at[u] = "wait") <=> (u \in waiting \cup notified)
          /\ at[u] # "running" /\ frames[u] # <<>> =>
                frames[u] = <<[call |-> "stop"]>> /\ at[u] \in {"loop", "flush", "returned"}
          /\ at[u] \in {"new", "start", "loop", "wait", "returned", "poll", "block"} => private[u] = <<>>
          /\ private_work[u] <= Count(Counted, private[u])
          /\ at[u] # "running" => private_work[u] = 0
      BY <1>0 DEF ThreadInv
    <2>1. CASE u # t
      <3>1. /\ frames'[u] = frames[u] /\ private'[u] = private[u] /\ private_work'[u] = private_work[u]
            /\ at'[u] = at[u] \/ (at[u] = "new" /\ at'[u] = "start")
        BY <2>1 DEF Elsewhere, Actor
      <3> QED  BY <2>0, <3>1
    <2>2. CASE u = t
      <3>1. Count(Counted, private'[t]) \in Nat
        <4>1. private'[t] \in Seq(Op)
          BY DEF Types
        <4> QED  BY <4>1, CountType
      <3>2. private_work'[t] <= Count(Counted, private'[t])
        BY <3>1
      <3> QED  BY <2>0, <2>2, <3>2
    <2> QED  BY <2>1, <2>2
  <1>2. owner' = Nobody \/ (owner' \in Thread /\ at'[owner'] = "loop")
    <2>1. CASE owner' = owner /\ at[t] # "loop" /\ owner # Nobody
      <3>1. owner \in Thread /\ at[owner] = "loop" /\ owner # t
        BY <1>0, <2>1 DEF ThreadInv
      <3>2. at'[owner] = at[owner]
        BY <3>1 DEF Elsewhere
      <3> QED  BY <2>1, <3>1, <3>2
    <2> QED  BY <2>1
  <1>3. ThreadInv'
    BY <1>0, <1>1, <1>2 DEF ThreadInv
  <1> QED  BY <1>3 DEF TypeInv, Stacked

\* Between the calls that it makes, a thread keeps what it moves.
LEMMA ThreadKeeps ==
    ASSUME Inv, NEW t \in Thread, TypeInv', Elsewhere(t), UNCHANGED <<strand, queued>>,
           Pending(frames[t]) = <<>>, Pending(frames'[t]) = <<>>,
           outstanding_work' + private_work'[t]
             + (Count(Counted, op_queue) + Count(Counted, private[t]) + Executing(t)) =
           outstanding_work + private_work[t]
             + (Count(Counted, op_queue') + Count(Counted, private'[t]) + Executing(t)'),
           Count({"strand"}, op_queue') + Count({"strand"}, private'[t]) + Count(Entries, frames'[t]) =
           Count({"strand"}, op_queue) + Count({"strand"}, private[t]) + Count(Entries, frames[t]),
           TaskOrder(op_queue'),
           Count({"task"}, op_queue') + Polling(t)' = Count({"task"}, op_queue) + Polling(t),
           Count({"task"}, private'[t]) = 0, Count({"perform"}, private'[t]) <= Polling(t)'
    PROVE  Inv'
  <1>0. Types /\ Types' /\ t \in Actor
    BY DEF Inv, TypeInv, Actor
  <1>1. /\ Own(Counted, t) = Count(Counted, private[t]) /\ Own(Counted, t)' = Count(Counted, private'[t])
        /\ Own({"strand"}, t) = Count({"strand"}, private[t]) /\ Own({"strand"}, t)' = Count({"strand"}, private'[t])
        /\ OwnWork(t) = private_work[t] /\ OwnWork(t)' = private_work'[t]
        /\ OwnRun(t) = Executing(t) /\ OwnRun(t)' = Executing(t)'
        /\ OwnPoll(t) = Polling(t) /\ OwnPoll(t)' = Polling(t)'
    BY DEF Own, OwnWork, OwnRun, OwnPoll
  <1>2. \A names : BeingQueued(names, t) = 0 /\ BeingQueued(names, t)' = 0
    BY BeingQueuedIs, CountEmpty
  <1>3. /\ \A names : Own(names, t) \in Nat /\ Count(names, op_queue) \in Nat
        /\ OwnWork(t) \in Nat /\ OwnRun(t) \in Nat /\ OwnPoll(t) \in Nat
        /\ Count(Entries, frames[t]) \in Nat
        /\ Len(queued["read"]) \in Nat /\ Len(queued["write"]) \in Nat
    BY <1>0, OwnTypes DEF OwnsTyped
  <1>4. /\ \A names : Own(names, t)' \in Nat /\ Count(names, op_queue') \in Nat
        /\ OwnWork(t)' \in Nat /\ OwnRun(t)' \in Nat /\ OwnPoll(t)' \in Nat
        /\ Count(Entries, frames'[t]) \in Nat
    <2>1. (Types => OwnsTyped)'
      BY OwnTypes, PTL
    <2> QED  BY <1>0, <2>1 DEF OwnsTyped
  <1>5. WorkAccounted'
    <2> DEFINE o  == outstanding_work
               o1 == outstanding_work'
               w  == OwnWork(t)
               w1 == OwnWork(t)'
               c  == Count(Counted, op_queue)
               c1 == Count(Counted, op_queue')
               p  == Own(Counted, t)
               p1 == Own(Counted, t)'
               e  == OwnRun(t)
               e1 == OwnRun(t)'
               b  == BeingQueued(Counted, t)
               b1 == BeingQueued(Counted, t)'
               r  == Len(queued["read"])
               r1 == Len(queued'["read"])
               v  == Len(queued["write"])
               v1 == Len(queued'["write"])
    <2>1. /\ o \in Int /\ o1 \in Int /\ w \in Nat /\ w1 \in Nat /\ c \in Nat /\ c1 \in Nat /\ p \in Nat /\ p1 \in Nat
          /\ e \in Nat /\ e1 \in Nat /\ b = 0 /\ b1 = 0 /\ r \in Nat /\ v \in Nat /\ r1 = r /\ v1 = v
          /\ o1 + w1 + (c + p + e) = o + w + (c1 + p1 + e1)
      BY <1>0, <1>1, <1>2, <1>3, <1>4 DEF Types
    <2> HIDE DEF o, o1, w, w1, c, c1, p, p1, e, e1, b, b1, r, r1, v, v1
    <2>2. o1 + w1 + (c + r + v + p + e + b) = o + w + (c1 + r1 + v1 + p1 + e1 + b1)
      BY <2>1
    <2>3. outstanding_work' + OwnWork(t)'
             + (Count(Counted, op_queue) + Len(queued["read"]) + Len(queued["write"])
                + Own(Counted, t) + OwnRun(t) + BeingQueued(Counted, t)) =
           outstanding_work + OwnWork(t)
             + (Count(Counted, op_queue') + Len(queued'["read"]) + Len(queued'["write"])
                + Own(Counted, t)' + OwnRun(t)' + BeingQueued(Counted, t)')
      BY <2>2 DEF o, o1, w, w1, c, c1, p, p1, e, e1, b, b1, r, r1, v, v1
    <2>4. WorkAccounted
      BY DEF Inv
    <2> QED  BY <1>0, <2>3, <2>4, WorkMoves
  <1>6. StrandInv'
    <2> DEFINE l  == Locks
               l1 == Locks'
               c  == Count({"strand"}, op_queue)
               c1 == Count({"strand"}, op_queue')
               p  == Own({"strand"}, t)
               p1 == Own({"strand"}, t)'
               e  == Count(Entries, frames[t])
               e1 == Count(Entries, frames'[t])
               b  == BeingQueued({"strand"}, t)
               b1 == BeingQueued({"strand"}, t)'
    <2>1. /\ c \in Nat /\ c1 \in Nat /\ p \in Nat /\ p1 \in Nat /\ e \in Nat /\ e1 \in Nat /\ b = 0 /\ b1 = 0
          /\ c1 + p1 + e1 = c + p + e
      BY <1>1, <1>2, <1>3, <1>4
    <2>2. l \in Nat /\ l1 \in Nat /\ l1 + (c + p + e + b) = l + (c1 + p1 + e1 + b1)
      BY <1>0, LocksMove
    <2> HIDE DEF l, l1, c, c1, p, p1, e, e1, b, b1
    <2>3. l1 = l
      BY <2>1, <2>2
    <2> QED  BY <2>3 DEF l, l1, Inv, StrandInv
  <1>7. TaskInv'
    <2>0. TaskInv
      BY DEF Inv
    <2>1. Count({"task"}, op_queue') + Total(Pollings)' = 1
      <3> DEFINE c  == Count({"task"}, op_queue)
                 c1 == Count({"task"}, op_queue')
                 s  == Total(Pollings)
                 s1 == Total(Pollings)'
                 p  == OwnPoll(t)
                 p1 == OwnPoll(t)'
      <3>1. c + s = 1
        BY <2>0 DEF TaskInv, Pollings
      <3>2. s + p1 = s1 + p /\ s \in Nat /\ s1 \in Nat
        BY <1>0, Balance
      <3>3. c1 + p1 = c + p /\ c \in Nat /\ c1 \in Nat /\ p \in Nat /\ p1 \in Nat
        BY <1>1, <1>3, <1>4
      <3> HIDE DEF c, c1, s, s1, p, p1
      <3>4. c1 + s1 = 1
        BY <3>1, <3>2, <3>3
      <3> QED  BY <3>4 DEF c1, s1
    <2>2. ASSUME NEW u \in Thread
          PROVE  Count({"task"}, private'[u]) = 0 /\ Count({"perform"}, private'[u]) <= Polling(u)'
      <3>1. CASE u # t
        <4>1. private'[u] = private[u] /\ Polling(u)' = Polling(u)
          BY <3>1 DEF Elsewhere, Polling
        <4> QED  BY <2>0, <4>1 DEF TaskInv
      <3> QED  BY <3>1
    <2>3. ASSUME NEW y \in Actor PROVE BeingQueued({"task", "perform"}, y)' = 0
      <3>1. CASE y # t
        <4>1. BeingQueued({"task", "perform"}, y)' = BeingQueued({"task", "perform"}, y)
          BY <3>1, BeingQueuedIs DEF Elsewhere
        <4> QED  BY <2>0, <4>1 DEF TaskInv
      <3> QED  BY <1>2, <3>1
    <2>4. TaskOrder(op_queue)'
      BY DEF TaskOrder
    <2> QED  BY <2>1, <2>2, <2>3, <2>4 DEF TaskInv, Pollings
  <1> QED  BY <1>5, <1>6, <1>7 DEF Inv

\* Where a thread is in run(), and that it is in no call.
LEMMA BetweenCalls ==
    ASSUME Inv, NEW t \in Thread, at[t] # "running" \/ frames[t] = <<>>
    PROVE  /\ TypeInv /\ Types /\ StackInv /\ TaskInv /\ t \in Actor
           /\ at[t] \in {"start", "poll", "block", "task_done", "wait"} => frames[t] = <<>>
           /\ at[t] \in {"start", "loop", "poll", "block"} => private[t] = <<>>
           /\ at[t] # "running" => private_work[t] = 0
           /\ at[t] # "running" => Executing(t) = 0
           /\ at[t] = "running" => Executing(t) = 1
           /\ frames[t] = <<>> => Pending(frames[t]) = <<>> /\ Count(Entries, frames[t]) = 0
           /\ op_queue \in Seq(Op) /\ private[t] \in Seq(Op) /\ private_work[t] \in Nat
           /\ outstanding_work \in Int
           /\ \A names : Count(names, op_queue) \in Nat /\ Count(names, private[t]) \in Nat
  <1>1. /\ TypeInv /\ Types /\ StackInv /\ TaskInv /\ t \in Actor /\ ThreadInv
    BY DEF Inv, TypeInv, Actor
  <1>2. /\ at[t] \in {"start", "poll", "block", "task_done", "wait"} => frames[t] = <<>>
        /\ at[t] \in {"start", "loop", "poll", "block"} => private[t] = <<>>
        /\ at[t] # "running" => private_work[t] = 0
    BY <1>1 DEF ThreadInv
  <1>3. /\ at[t] # "running" => Executing(t) = 0
        /\ at[t] = "running" => Executing(t) = 1
    BY DEF Executing
  <1>4. frames[t] = <<>> => Pending(frames[t]) = <<>> /\ Count(Entries, frames[t]) = 0
    BY EmptyStack
  <1>5. op_queue \in Seq(Op) /\ private[t] \in Seq(Op) /\ private_work[t] \in Nat /\ outstanding_work \in Int
    BY <1>1 DEF Types
  <1>6. \A names : Count(names, op_queue) \in Nat /\ Count(names, private[t]) \in Nat
    BY <1>5, CountType
  <1> QED  BY <1>1, <1>2, <1>3, <1>4, <1>5, <1>6

LEMMA StopFrame ==
    LET s == <<[call |-> "stop"]>>
    IN  /\ s \in Seq(Frame) /\ StackOK(s) /\ Count(Entries, s) = 0 /\ Pending(s) = <<>> /\ ~Performs(s)
  <1> DEFINE f == [call |-> "stop"]
  <1>1. f \in Frame /\ f.call = "stop" /\ f.call \notin Entries
    BY FramesAre DEF Entries
  <1> HIDE DEF f
  <1>2. /\ <<f>> \in Seq(Frame) /\ StackOK(<<f>>)
        /\ Count(Entries, <<f>>) = (IF f.call \in Entries THEN 1 ELSE 0)
        /\ Pending(<<f>>) = (IF f.call = "enqueue" THEN f.ops ELSE <<>>)
        /\ Performs(<<f>>) <=> f.call = "perform"
    BY <1>1, OneFrame
  <1>3. /\ <<f>> \in Seq(Frame) /\ StackOK(<<f>>) /\ Count(Entries, <<f>>) = 0 /\ Pending(<<f>>) = <<>>
        /\ ~Performs(<<f>>)
    BY <1>1, <1>2
  <1> QED  BY <1>3 DEF f

\* A thread whose queues stay as they are, and which is neither running an
\* operation nor polling.
LEMMA RunBeginsKeeps ==
    ASSUME Inv, NEW t \in Thread, RunBegins(t), UNCHANGED <<strand, descVars>>
    PROVE  Inv' /\ Elsewhere(t)
  <1>1. /\ at[t] = "start"
        /\ UNCHANGED <<op_queue, outstanding_work, stopped, task_interrupted, owner, signalled, waiting,
                       notified, owes, interrupt, private, private_work>>
        /\ UNCHANGED <<strand, queued, registered, closed, avail, edge>>
    BY DEF RunBegins, At, eventVars, descVars
  <1>2. /\ TypeInv /\ Types /\ StackInv /\ TaskInv /\ frames[t] = <<>> /\ private[t] = <<>> /\ private_work[t] = 0
        /\ Pending(frames[t]) = <<>> /\ Count(Entries, frames[t]) = 0 /\ Executing(t) = 0
        /\ outstanding_work \in Int /\ op_queue \in Seq(Op)
        /\ \A names : Count(names, op_queue) \in Nat /\ Count(names, private[t]) \in Nat
    BY <1>1, BetweenCalls
  <1>3. /\ at' \in [Thread -> Labels] /\ at'[t] \in {"returned", "loop"}
        /\ \A u \in Thread : u # t => at'[u] = at[u]
    BY <1>2 DEF RunBegins, Goes, Types, Labels
  <1>4. /\ Stacked(t) /\ Pending(frames'[t]) = <<>> /\ Count(Entries, frames'[t]) = 0
        /\ frames'[t] # <<>> => frames'[t] = <<[call |-> "stop"]>> /\ at'[t] \in {"loop", "flush", "returned"}
    <2>1. CASE outstanding_work = 0
      <3> DEFINE s == <<[call |-> "stop"]>>
      <3>1. Push(t, s)
        BY <2>1 DEF RunBegins
      <3>2. s \in Seq(Frame) /\ StackOK(s) /\ Count(Entries, s) = 0 /\ Pending(s) = <<>>
        BY StopFrame
      <3> HIDE DEF s
      <3>3. Stacked(t) /\ frames'[t] = s
        BY <1>2, <3>1, <3>2, Restarted
      <3> QED  BY <1>3, <3>2, <3>3 DEF s
    <2>2. CASE outstanding_work # 0
      <3>1. frames' = frames
        BY <2>2 DEF RunBegins
      <3> QED  BY <1>2, <3>1, StackStays
    <2> QED  BY <2>1, <2>2
  <1>5. Types'
    BY <1>1, <1>2, <1>3, <1>4 DEF Types, Stacked
  <1>6. Elsewhere(t)
    BY <1>1, <1>3, <1>4 DEF Elsewhere, Stacked
  <1>7. TypeInv'
    BY <1>1, <1>2, <1>3, <1>4, <1>5, <1>6, ThreadMoves
  <1>8. Executing(t)' = 0 /\ Polling(t)' = Polling(t) /\ Polling(t) = 0
    BY <1>1, <1>3 DEF Executing, Polling
  <1>9. /\ TaskOrder(op_queue') /\ Count({"task"}, private'[t]) = 0 /\ Count({"perform"}, private'[t]) = 0
    BY <1>1, <1>2, CountEmpty DEF TaskInv
  <1> QED
    <2>1. UNCHANGED <<strand, queued>> /\ op_queue' = op_queue /\ private' = private /\ private_work' = private_work
          /\ outstanding_work' = outstanding_work
      BY <1>1
    <2>2. Count({"perform"}, private'[t]) <= Polling(t)'
      BY <1>8, <1>9
    <2>3. outstanding_work' + private_work'[t]
             + (Count(Counted, op_queue) + Count(Counted, private[t]) + Executing(t)) =
           outstanding_work + private_work[t]
             + (Count(Counted, op_queue') + Count(Counted, private'[t]) + Executing(t)')
      BY <1>2, <1>8, <2>1
    <2>4. Count({"strand"}, op_queue') + Count({"strand"}, private'[t]) + Count(Entries, frames'[t]) =
           Count({"strand"}, op_queue) + Count({"strand"}, private[t]) + Count(Entries, frames[t])
      BY <1>2, <1>4, <2>1
    <2>5. Count({"task"}, op_queue') + Polling(t)' = Count({"task"}, op_queue) + Polling(t)
      BY <1>8, <2>1
    <2> QED  BY <1>2, <1>4, <1>6, <1>7, <1>9, <2>1, <2>2, <2>3, <2>4, <2>5, ThreadKeeps

\* The reactor's task is with the thread that takes it.
LEMMA TakeTaskKeeps ==
    ASSUME Inv, NEW t \in Thread, TakeTask(t), UNCHANGED <<strand, descVars>>
    PROVE  Inv' /\ Elsewhere(t)
  <1> DEFINE q == op_queue
             r == Tail(op_queue)
  <1>1. /\ at[t] = "loop" /\ frames[t] = <<>> /\ q # <<>> /\ Head(q) = Task
        /\ op_queue' = r /\ owner' = Nobody
        /\ at' = [at EXCEPT ![t] = IF r # <<>> THEN "poll" ELSE "block"]
        /\ task_interrupted' = (r # <<>>) /\ signalled' = (signalled \/ r # <<>>)
        /\ owes' = [owes EXCEPT ![t] = r # <<>> /\ HaveWaiters]
        /\ UNCHANGED <<outstanding_work, stopped, waiting, notified, interrupt, private, private_work, frames>>
        /\ UNCHANGED <<strand, queued, registered, closed, avail, edge>>
    BY DEF TakeTask, At, MayLock, Goes, descVars
  <1>2. /\ TypeInv /\ Types /\ StackInv /\ TaskInv /\ private[t] = <<>> /\ private_work[t] = 0
        /\ Pending(frames[t]) = <<>> /\ Count(Entries, frames[t]) = 0 /\ Executing(t) = 0
        /\ outstanding_work \in Int /\ q \in Seq(Op)
        /\ \A names : Count(names, q) \in Nat /\ Count(names, private[t]) \in Nat
    BY <1>1, BetweenCalls
  <1>3. TaskOrder(q)
    BY <1>2 DEF TaskInv
  <1>4. /\ TaskOrder(r) /\ r \in Seq(Op)
        /\ Count({"task"}, q) = Count({"task"}, r) + (IF Head(q) = Task THEN 1 ELSE 0)
    BY <1>1, <1>2, <1>3, OrderTail
  <1>5. Task.call = "task" /\ "task" \notin Counted
    BY OpsAre DEF Counted
  <1>6. /\ Count(Counted, q) = Count(Counted, r) + (IF Head(q).call \in Counted THEN 1 ELSE 0)
        /\ Count({"strand"}, q) = Count({"strand"}, r) + (IF Head(q).call \in {"strand"} THEN 1 ELSE 0)
    BY <1>1, <1>2, CountHead
  <1>7. Count(Counted, r) \in Nat /\ Count({"strand"}, r) \in Nat /\ Count({"task"}, r) \in Nat
    BY <1>4, CountType
  <1>8. Count(Counted, q) = Count(Counted, r) /\ Count({"strand"}, q) = Count({"strand"}, r)
    BY <1>1, <1>5, <1>6, <1>7
  <1> HIDE DEF q, r
  <1>9. /\ at' \in [Thread -> Labels] /\ at'[t] \in {"poll", "block"}
        /\ \A u \in Thread : u # t => at'[u] = at[u]
    BY <1>1, <1>2 DEF Types, Labels
  <1>10. Types'
    <2>1. task_interrupted' \in BOOLEAN /\ signalled' \in BOOLEAN
      BY <1>1, <1>2 DEF Types
    <2>2. owes' \in [Actor -> BOOLEAN]
      <3> DEFINE b == r # <<>> /\ HaveWaiters
      <3>1. b \in BOOLEAN /\ owes \in [Actor -> BOOLEAN] /\ owes' = [owes EXCEPT ![t] = b]
        BY <1>1, <1>2 DEF Types
      <3> HIDE DEF b
      <3> QED  BY <3>1
    <2> QED  BY <1>1, <1>2, <1>4, <1>9, <2>1, <2>2 DEF Types
  <1>11. Stacked(t)
    BY <1>1, <1>2, StackStays
  <1>12. Elsewhere(t)
    BY <1>1, <1>9 DEF Elsewhere
  <1>13. TypeInv'
    BY <1>1, <1>2, <1>9, <1>10, <1>11, <1>12, ThreadMoves
  <1>14. Executing(t)' = 0 /\ Polling(t)' = 1 /\ Polling(t) = 0
    BY <1>1, <1>9 DEF Executing, Polling
  <1>15. private' = private /\ Count({"task"}, private[t]) = 0 /\ Count({"perform"}, private[t]) = 0
    BY <1>1, <1>2, CountEmpty
  <1>16. /\ op_queue = q /\ op_queue' = r /\ frames' = frames /\ private_work' = private_work
         /\ outstanding_work' = outstanding_work /\ UNCHANGED <<strand, queued>>
    BY <1>1 DEF q
  <1>17. outstanding_work' + private_work'[t]
             + (Count(Counted, op_queue) + Count(Counted, private[t]) + Executing(t)) =
           outstanding_work + private_work[t]
             + (Count(Counted, op_queue') + Count(Counted, private'[t]) + Executing(t)')
    BY <1>2, <1>8, <1>14, <1>15, <1>16
  <1>18. Count({"strand"}, op_queue') + Count({"strand"}, private'[t]) + Count(Entries, frames'[t]) =
           Count({"strand"}, op_queue) + Count({"strand"}, private[t]) + Count(Entries, frames[t])
    BY <1>2, <1>8, <1>15, <1>16
  <1>19. Count({"task"}, op_queue') + Polling(t)' = Count({"task"}, op_queue) + Polling(t)
    BY <1>1, <1>4, <1>7, <1>14, <1>16
  <1>20. TaskOrder(op_queue') /\ Count({"task"}, private'[t]) = 0 /\ Count({"perform"}, private'[t]) <= Polling(t)'
    BY <1>4, <1>14, <1>15, <1>16
  <1>21. Pending(frames'[t]) = <<>>
    BY <1>2, <1>16
  <1> QED  BY <1>2, <1>12, <1>13, <1>16, <1>17, <1>18, <1>19, <1>20, <1>21, ThreadKeeps

\* WakeOne() keeps the types.
LEMMA WakeOneTypes ==
    ASSUME Types, NEW x \in Actor, WakeOne(x)
    PROVE  /\ signalled' \in BOOLEAN /\ owes' \in [Actor -> BOOLEAN]
           /\ task_interrupted' \in BOOLEAN /\ interrupt' \in BOOLEAN
           /\ UNCHANGED <<waiting, notified>>
  <1> DEFINE b == HaveWaiters
  <1>1. b \in BOOLEAN /\ owes \in [Actor -> BOOLEAN] /\ owes' = [owes EXCEPT ![x] = b]
    BY DEF Types, WakeOne, HaveWaiters
  <1>2. owes' \in [Actor -> BOOLEAN]
    <2> HIDE DEF b
    <2> QED  BY <1>1
  <1>3. task_interrupted' \in BOOLEAN /\ interrupt' \in BOOLEAN
    BY DEF Types, WakeOne, Interrupt
  <1> QED  BY <1>2, <1>3 DEF WakeOne

\* An operation that leaves the queue executes.
LEMMA TakeOpKeeps ==
    ASSUME Inv, NEW t \in Thread, TakeOp(t), UNCHANGED <<strand, descVars>>
    PROVE  Inv' /\ Elsewhere(t)
  <1> DEFINE q == op_queue
             r == Tail(op_queue)
             o == Head(op_queue)
  <1>1. /\ at[t] = "loop" /\ frames[t] = <<>> /\ q # <<>> /\ o # Task
        /\ op_queue' = r /\ owner' = Nobody /\ Push(t, <<o>>)
        /\ at' = [at EXCEPT ![t] = "running"]
        /\ WakeOne(t) \/ UNCHANGED <<eventVars, task_interrupted, interrupt>>
        /\ UNCHANGED <<outstanding_work, stopped, private, private_work>>
        /\ UNCHANGED <<strand, queued, registered, closed, avail, edge>>
    BY DEF TakeOp, At, MayLock, Goes, descVars
  <1>2. /\ TypeInv /\ Types /\ StackInv /\ TaskInv /\ private[t] = <<>> /\ private_work[t] = 0 /\ t \in Actor
        /\ Pending(frames[t]) = <<>> /\ Count(Entries, frames[t]) = 0 /\ Executing(t) = 0
        /\ outstanding_work \in Int /\ q \in Seq(Op)
        /\ \A names : Count(names, q) \in Nat /\ Count(names, private[t]) \in Nat
    BY <1>1, BetweenCalls
  <1>3. TaskOrder(q)
    BY <1>2 DEF TaskInv
  <1>4. /\ TaskOrder(r) /\ r \in Seq(Op) /\ o \in Op
        /\ Count({"task"}, q) = Count({"task"}, r) + (IF o = Task THEN 1 ELSE 0)
    BY <1>1, <1>2, <1>3, OrderTail
  <1>5. /\ Count(Counted, q) = Count(Counted, r) + (IF o.call \in Counted THEN 1 ELSE 0)
        /\ Count({"strand"}, q) = Count({"strand"}, r) + (IF o.call \in {"strand"} THEN 1 ELSE 0)
    BY <1>1, <1>2, CountHead
  <1>6. Count(Counted, r) \in Nat /\ Count({"strand"}, r) \in Nat /\ Count({"task"}, r) \in Nat
    BY <1>4, CountType
  <1> HIDE DEF q, r, o
  <1>7. /\ o.call \in OpNames /\ o.call # "task" /\ o \in Frame
    BY <1>1, <1>4, OpIs
  <1>8. /\ o.call \in Counted <=> o.call # "perform"
        /\ o.call \in Entries <=> o.call = "strand"
        /\ o.call # "enqueue"
    BY <1>7 DEF OpNames, Counted, Entries
  <1>9. /\ <<o>> \in Seq(Frame) /\ StackOK(<<o>>)
        /\ Count(Entries, <<o>>) = (IF o.call \in Entries THEN 1 ELSE 0)
        /\ Pending(<<o>>) = (IF o.call = "enqueue" THEN o.ops ELSE <<>>)
        /\ Performs(<<o>>) <=> o.call = "perform"
    BY <1>7, OneFrame
  <1> DEFINE s == <<o>>
  <1>10. Stacked(t) /\ frames'[t] = s
    BY <1>1, <1>2, <1>9, Restarted
  <1>11. /\ Count(Entries, s) = (IF o.call = "strand" THEN 1 ELSE 0) /\ Pending(s) = <<>>
         /\ Performs(s) <=> o.call = "perform"
    BY <1>8, <1>9
  <1> HIDE DEF s
  <1>12. /\ at' \in [Thread -> Labels] /\ at'[t] = "running"
         /\ \A u \in Thread : u # t => at'[u] = at[u]
    BY <1>1, <1>2 DEF Types, Labels
  <1>13. Types' /\ UNCHANGED <<waiting, notified>>
    <2>1. /\ signalled' \in BOOLEAN /\ owes' \in [Actor -> BOOLEAN]
          /\ task_interrupted' \in BOOLEAN /\ interrupt' \in BOOLEAN
          /\ UNCHANGED <<waiting, notified>>
      <3>1. CASE WakeOne(t)
        BY <1>2, <3>1, WakeOneTypes
      <3>2. CASE UNCHANGED <<eventVars, task_interrupted, interrupt>>
        BY <1>2, <3>2 DEF Types, eventVars
      <3> QED  BY <1>1, <3>1, <3>2
    <2> QED  BY <1>1, <1>2, <1>4, <1>10, <1>12, <2>1 DEF Types, Stacked
  <1>14. Elsewhere(t)
    BY <1>1, <1>10, <1>12 DEF Elsewhere, Stacked
  <1>15. /\ private' = private /\ Count({"task"}, private[t]) = 0 /\ Count({"perform"}, private[t]) = 0
         /\ private_work'[t] = 0 /\ private'[t] = <<>>
    BY <1>1, <1>2, CountEmpty
  <1>16. TypeInv'
    BY <1>1, <1>2, <1>10, <1>12, <1>13, <1>14, <1>15, ThreadMoves
  <1>17. /\ Executing(t)' = (IF o.call \in Counted THEN 1 ELSE 0) /\ Polling(t)' = 0 /\ Polling(t) = 0
    BY <1>1, <1>8, <1>10, <1>11, <1>12 DEF Executing, Polling, Performs
  <1>18. /\ op_queue = q /\ op_queue' = r /\ private_work' = private_work
         /\ outstanding_work' = outstanding_work /\ UNCHANGED <<strand, queued>>
    BY <1>1 DEF q
  <1>19. outstanding_work' + private_work'[t]
             + (Count(Counted, op_queue) + Count(Counted, private[t]) + Executing(t)) =
           outstanding_work + private_work[t]
             + (Count(Counted, op_queue') + Count(Counted, private'[t]) + Executing(t)')
    <2> DEFINE b == IF o.call \in Counted THEN 1 ELSE 0
               c == Count(Counted, q)
               d == Count(Counted, r)
               m == Count(Counted, private[t])
               w == outstanding_work
    <2>1. c \in Nat /\ d \in Nat /\ m \in Nat /\ b \in Nat /\ c = d + b /\ w \in Int
      BY <1>2, <1>5, <1>6
    <2>2. /\ Executing(t)' = b /\ Executing(t) = 0 /\ private_work'[t] = 0 /\ private_work[t] = 0
          /\ outstanding_work' = w /\ outstanding_work = w /\ Count(Counted, op_queue) = c
          /\ Count(Counted, op_queue') = d /\ Count(Counted, private'[t]) = m /\ Count(Counted, private[t]) = m
      BY <1>2, <1>15, <1>17, <1>18
    <2> HIDE DEF b, c, d, m, w
    <2>3. w + 0 + (c + m + 0) = w + 0 + (d + m + b)
      BY <2>1
    <2> QED  BY <2>2, <2>3
  <1>20. Count({"strand"}, op_queue') + Count({"strand"}, private'[t]) + Count(Entries, frames'[t]) =
           Count({"strand"}, op_queue) + Count({"strand"}, private[t]) + Count(Entries, frames[t])
    BY <1>2, <1>5, <1>6, <1>10, <1>11, <1>15, <1>18
  <1>21. Count({"task"}, op_queue') + Polling(t)' = Count({"task"}, op_queue) + Polling(t)
    BY <1>1, <1>4, <1>6, <1>17, <1>18
  <1>22. TaskOrder(op_queue') /\ Count({"task"}, private'[t]) = 0 /\ Count({"perform"}, private'[t]) <= Polling(t)'
    BY <1>4, <1>15, <1>17, <1>18
  <1>23. Pending(frames'[t]) = <<>>
    BY <1>10, <1>11
  <1> QED  BY <1>2, <1>14, <1>16, <1>18, <1>19, <1>20, <1>21, <1>22, <1>23, ThreadKeeps

\* The task returns to the queue behind what it found.
LEMMA TaskCleanupKeeps ==
    ASSUME Inv, NEW t \in Thread, TaskCleanup(t), UNCHANGED <<strand, descVars>>
    PROVE  Inv' /\ Elsewhere(t)
  <1> DEFINE q == op_queue
             p == private[t]
             u == Append(q \o p, Task)
  <1>1. /\ at[t] = "task_done" /\ task_interrupted' = TRUE /\ op_queue' = u /\ owner' = t
        /\ private' = [private EXCEPT ![t] = <<>>]
        /\ outstanding_work' = outstanding_work + private_work[t]
        /\ private_work' = [private_work EXCEPT ![t] = 0]
        /\ at' = [at EXCEPT ![t] = "loop"]
        /\ UNCHANGED <<stopped, signalled, waiting, notified, owes, interrupt, frames>>
        /\ UNCHANGED <<strand, queued, registered, closed, avail, edge>>
    BY DEF TaskCleanup, At, Goes, eventVars, descVars
  <1>2. /\ TypeInv /\ Types /\ StackInv /\ TaskInv /\ private_work[t] = 0 /\ frames[t] = <<>> /\ t \in Actor
        /\ Pending(frames[t]) = <<>> /\ Count(Entries, frames[t]) = 0 /\ Executing(t) = 0
        /\ outstanding_work \in Int /\ q \in Seq(Op) /\ p \in Seq(Op)
        /\ \A names : Count(names, q) \in Nat /\ Count(names, p) \in Nat
    BY <1>1, BetweenCalls
  <1>3. Polling(t) = 1
    BY <1>1 DEF Polling
  <1>4. TaskOrder(q) /\ Count({"task"}, p) = 0 /\ Count({"perform"}, p) <= 1
    BY <1>2, <1>3 DEF TaskInv
  <1>5. Count({"task"}, q) = 0
    <2> DEFINE c == Count({"task"}, q)
               s == Total(Pollings)
    <2>1. c + s = 1 /\ c \in Nat
      BY <1>2 DEF TaskInv, Pollings
    <2>2. Pollings \in [Thread -> Nat] /\ IsFiniteSet(Thread)
      BY <1>2, SumTypes, ThreadAssumption DEF SumsTyped
    <2>3. Pollings[t] <= s /\ s \in Nat
      BY <2>2, TotalDiffers
    <2>4. Pollings[t] = 1
      BY <1>3 DEF Pollings
    <2> HIDE DEF c, s
    <2>5. c = 0
      BY <2>1, <2>3, <2>4
    <2> QED  BY <2>5 DEF c
  <1>6. u \in Seq(Op) /\ TaskOrder(u) /\ Count({"task"}, u) = 1
    BY <1>2, <1>4, <1>5, OrderTask
  <1>7. Count(Counted, u) = Count(Counted, q) + Count(Counted, p)
        /\ Count({"strand"}, u) = Count({"strand"}, q) + Count({"strand"}, p)
    <2> DEFINE m == q \o p
    <2>1. /\ m \in Seq(Op) /\ Task \in Op /\ Task.call = "task" /\ <<Task>> \in Seq(Op)
          /\ "task" \notin Counted /\ "task" \notin {"strand"}
      BY <1>2, OpsAre DEF Counted
    <2>2. /\ Count(Counted, m) = Count(Counted, q) + Count(Counted, p)
          /\ Count({"strand"}, m) = Count({"strand"}, q) + Count({"strand"}, p)
      BY <1>2, CountConcat
    <2> HIDE DEF m
    <2>3. Append(m, Task) = m \o <<Task>>
      BY <2>1, AppendIsConcat
    <2>4. /\ Count(Counted, m \o <<Task>>) = Count(Counted, m) + Count(Counted, <<Task>>)
          /\ Count({"strand"}, m \o <<Task>>) = Count({"strand"}, m) + Count({"strand"}, <<Task>>)
      BY <2>1, CountConcat
    <2>5. /\ Count(Counted, <<Task>>) = (IF Task.call \in Counted THEN 1 ELSE 0)
          /\ Count({"strand"}, <<Task>>) = (IF Task.call \in {"strand"} THEN 1 ELSE 0)
      BY <2>1, CountOne
    <2>6. Count(Counted, m) \in Nat /\ Count({"strand"}, m) \in Nat
      BY <2>1, CountType
    <2>7. Count(Counted, m \o <<Task>>) = Count(Counted, m) /\ Count({"strand"}, m \o <<Task>>) = Count({"strand"}, m)
      BY <2>1, <2>4, <2>5, <2>6
    <2> QED  BY <2>2, <2>3, <2>7 DEF m
  <1> HIDE DEF q, u
  <1>8. /\ at' \in [Thread -> Labels] /\ at'[t] = "loop" /\ private'[t] = <<>> /\ private_work'[t] = 0
        /\ private' \in [Thread -> Seq(Op)] /\ private_work' \in [Thread -> Nat]
        /\ \A v \in Thread : v # t => /\ at'[v] = at[v] /\ private'[v] = private[v]
                                      /\ private_work'[v] = private_work[v]
    BY <1>1, <1>2 DEF Types, Labels
  <1>9. outstanding_work' = outstanding_work
    BY <1>1, <1>2
  <1>10. Types'
    BY <1>1, <1>2, <1>6, <1>8, <1>9 DEF Types
  <1>11. Stacked(t) /\ frames' = frames
    BY <1>1, <1>2, StackStays
  <1>12. Elsewhere(t)
    BY <1>8, <1>11 DEF Elsewhere
  <1>13. TypeInv'
    BY <1>1, <1>2, <1>8, <1>10, <1>11, <1>12, ThreadMoves
  <1>14. Executing(t)' = 0 /\ Polling(t)' = 0
    BY <1>8 DEF Executing, Polling
  <1>15. \A names : Count(names, private'[t]) = 0
    BY <1>8, CountEmpty
  <1>16. op_queue = q /\ op_queue' = u /\ private[t] = p /\ UNCHANGED <<strand, queued>>
    BY <1>1 DEF q
  <1>17. outstanding_work' + private_work'[t]
             + (Count(Counted, op_queue) + Count(Counted, private[t]) + Executing(t)) =
           outstanding_work + private_work[t]
             + (Count(Counted, op_queue') + Count(Counted, private'[t]) + Executing(t)')
    <2>1. Count(Counted, q) \in Nat /\ Count(Counted, p) \in Nat
      BY <1>2
    <2> HIDE DEF p
    <2> QED  BY <1>2, <1>7, <1>8, <1>9, <1>14, <1>15, <1>16, <2>1
  <1>18. Count({"strand"}, op_queue') + Count({"strand"}, private'[t]) + Count(Entries, frames'[t]) =
           Count({"strand"}, op_queue) + Count({"strand"}, private[t]) + Count(Entries, frames[t])
    <2>1. Count({"strand"}, q) \in Nat /\ Count({"strand"}, p) \in Nat
      BY <1>2
    <2> HIDE DEF p
    <2> QED  BY <1>2, <1>7, <1>11, <1>15, <1>16, <2>1
  <1>19. Count({"task"}, op_queue') + Polling(t)' = Count({"task"}, op_queue) + Polling(t)
    BY <1>3, <1>5, <1>6, <1>14, <1>16
  <1>20. TaskOrder(op_queue') /\ Count({"task"}, private'[t]) = 0 /\ Count({"perform"}, private'[t]) <= Polling(t)'
    BY <1>6, <1>14, <1>15, <1>16
  <1>21. Pending(frames'[t]) = <<>>
    BY <1>2, <1>11
  <1> QED  BY <1>2, <1>12, <1>13, <1>16, <1>17, <1>18, <1>19, <1>20, <1>21, ThreadKeeps

\* The operation is finished, and what the thread kept back is counted.
LEMMA WorkCleanupKeeps ==
    ASSUME Inv, NEW t \in Thread, WorkCleanup(t), UNCHANGED <<strand, descVars>>
    PROVE  Inv' /\ Elsewhere(t)
  <1>1. /\ at[t] = "running" /\ frames[t] = <<>>
        /\ outstanding_work' = outstanding_work + private_work[t] - 1
        /\ private_work' = [private_work EXCEPT ![t] = 0]
        /\ at' = [at EXCEPT ![t] = IF private[t] = <<>> THEN "loop" ELSE "flush"]
        /\ Push(t, <<[call |-> "stop"]>>) \/ frames' = frames
        /\ UNCHANGED <<op_queue, stopped, task_interrupted, owner, signalled, waiting, notified, owes,
                       interrupt, private>>
        /\ UNCHANGED <<strand, queued, registered, closed, avail, edge>>
    BY DEF WorkCleanup, At, Goes, eventVars, descVars
  <1>2. /\ TypeInv /\ Types /\ StackInv /\ TaskInv /\ t \in Actor
        /\ Pending(frames[t]) = <<>> /\ Count(Entries, frames[t]) = 0 /\ Executing(t) = 1
        /\ outstanding_work \in Int /\ private_work[t] \in Nat
        /\ \A names : Count(names, op_queue) \in Nat /\ Count(names, private[t]) \in Nat
    BY <1>1, BetweenCalls
  <1>3. /\ at' \in [Thread -> Labels] /\ at'[t] \in {"loop", "flush"}
        /\ at'[t] # "flush" => private'[t] = <<>>
        /\ private_work' \in [Thread -> Nat] /\ private_work'[t] = 0 /\ outstanding_work' \in Int
        /\ \A u \in Thread : u # t => at'[u] = at[u] /\ private_work'[u] = private_work[u]
    BY <1>1, <1>2 DEF Types, Labels
  <1>4. /\ Stacked(t) /\ Pending(frames'[t]) = <<>> /\ Count(Entries, frames'[t]) = 0
        /\ frames'[t] # <<>> => frames'[t] = <<[call |-> "stop"]>> /\ at'[t] \in {"loop", "flush", "returned"}
    <2>1. CASE Push(t, <<[call |-> "stop"]>>)
      <3> DEFINE s == <<[call |-> "stop"]>>
      <3>1. Push(t, s)
        BY <2>1
      <3>2. s \in Seq(Frame) /\ StackOK(s) /\ Count(Entries, s) = 0 /\ Pending(s) = <<>>
        BY StopFrame
      <3> HIDE DEF s
      <3>3. Stacked(t) /\ frames'[t] = s
        BY <1>1, <1>2, <3>1, <3>2, Restarted
      <3> QED  BY <1>3, <3>2, <3>3 DEF s
    <2>2. CASE frames' = frames
      BY <1>1, <1>2, <2>2, StackStays
    <2> QED  BY <1>1, <2>1, <2>2
  <1>5. Types'
    BY <1>1, <1>2, <1>3, <1>4 DEF Types, Stacked
  <1>6. Elsewhere(t)
    BY <1>1, <1>3, <1>4 DEF Elsewhere, Stacked
  <1>7. TypeInv'
    BY <1>1, <1>2, <1>3, <1>4, <1>5, <1>6, ThreadMoves
  <1>8. Executing(t)' = 0 /\ Polling(t)' = 0 /\ Polling(t) = 0
    BY <1>1, <1>3 DEF Executing, Polling
  <1>9. /\ TaskOrder(op_queue') /\ Count({"task"}, private'[t]) = 0 /\ Count({"perform"}, private'[t]) <= Polling(t)'
    BY <1>1, <1>2, <1>8 DEF TaskInv
  <1>10. UNCHANGED <<strand, queued>> /\ op_queue' = op_queue /\ private' = private
    BY <1>1
  <1>11. outstanding_work' + private_work'[t]
             + (Count(Counted, op_queue) + Count(Counted, private[t]) + Executing(t)) =
           outstanding_work + private_work[t]
             + (Count(Counted, op_queue') + Count(Counted, private'[t]) + Executing(t)')
    <2>1. Count(Counted, op_queue) \in Nat /\ Count(Counted, private[t]) \in Nat
      BY <1>2
    <2> QED  BY <1>1, <1>2, <1>3, <1>8, <1>10, <2>1
  <1>12. Count({"strand"}, op_queue') + Count({"strand"}, private'[t]) + Count(Entries, frames'[t]) =
           Count({"strand"}, op_queue) + Count({"strand"}, private[t]) + Count(Entries, frames[t])
    BY <1>2, <1>4, <1>10
  <1>13. Count({"task"}, op_queue') + Polling(t)' = Count({"task"}, op_queue) + Polling(t)
    BY <1>8, <1>10
  <1> QED  BY <1>2, <1>4, <1>6, <1>7, <1>9, <1>10, <1>11, <1>12, <1>13, ThreadKeeps

\* The thread's own operations become queued.
LEMMA FlushPrivateKeeps ==
    ASSUME Inv, NEW t \in Thread, FlushPrivate(t), UNCHANGED <<strand, descVars>>
    PROVE  Inv' /\ Elsewhere(t)
  <1> DEFINE q == op_queue
             p == private[t]
             u == q \o p
  <1>1. /\ at[t] = "flush" /\ frames[t] = <<>> /\ op_queue' = u /\ owner' = t
        /\ private' = [private EXCEPT ![t] = <<>>]
        /\ at' = [at EXCEPT ![t] = "loop"]
        /\ UNCHANGED <<outstanding_work, stopped, task_interrupted, signalled, waiting, notified, owes,
                       interrupt, private_work, frames>>
        /\ UNCHANGED <<strand, queued, registered, closed, avail, edge>>
    BY DEF FlushPrivate, At, Goes, eventVars, descVars
  <1>2. /\ TypeInv /\ Types /\ StackInv /\ TaskInv /\ private_work[t] = 0 /\ t \in Actor
        /\ Pending(frames[t]) = <<>> /\ Count(Entries, frames[t]) = 0 /\ Executing(t) = 0
        /\ outstanding_work \in Int /\ q \in Seq(Op) /\ p \in Seq(Op)
        /\ \A names : Count(names, q) \in Nat /\ Count(names, p) \in Nat
    BY <1>1, BetweenCalls
  <1>3. Polling(t) = 0
    BY <1>1 DEF Polling
  <1>4. TaskOrder(q) /\ Count({"task"}, p) = 0 /\ Count({"perform"}, p) <= 0
    BY <1>2, <1>3 DEF TaskInv
  <1>5. Count({"perform"}, p) = 0
    BY <1>2, <1>4
  <1>6. Count({"task", "perform"}, p) = 0
    BY <1>2, <1>4, <1>5, CountNone
  <1>7. u \in Seq(Op) /\ TaskOrder(u) /\ Count({"task"}, u) = Count({"task"}, q)
    BY <1>2, <1>4, <1>6, OrderKept
  <1>8. /\ Count(Counted, u) = Count(Counted, q) + Count(Counted, p)
        /\ Count({"strand"}, u) = Count({"strand"}, q) + Count({"strand"}, p)
    BY <1>2, CountConcat
  <1> HIDE DEF q, u
  <1>9. /\ at' \in [Thread -> Labels] /\ at'[t] = "loop" /\ private'[t] = <<>> /\ private_work'[t] = 0
        /\ private' \in [Thread -> Seq(Op)]
        /\ \A v \in Thread : v # t => at'[v] = at[v] /\ private'[v] = private[v]
    BY <1>1, <1>2 DEF Types, Labels
  <1>10. Types'
    BY <1>1, <1>2, <1>7, <1>9 DEF Types
  <1>11. Stacked(t) /\ frames' = frames
    BY <1>1, <1>2, StackStays
  <1>12. Elsewhere(t)
    BY <1>1, <1>9, <1>11 DEF Elsewhere
  <1>13. TypeInv'
    BY <1>1, <1>2, <1>9, <1>10, <1>11, <1>12, ThreadMoves
  <1>14. Executing(t)' = 0 /\ Polling(t)' = 0
    BY <1>9 DEF Executing, Polling
  <1>15. \A names : Count(names, private'[t]) = 0
    BY <1>9, CountEmpty
  <1>16. /\ op_queue = q /\ op_queue' = u /\ private[t] = p /\ UNCHANGED <<strand, queued>>
         /\ outstanding_work' = outstanding_work
    BY <1>1 DEF q
  <1> HIDE DEF p
  <1>17. outstanding_work' + private_work'[t]
             + (Count(Counted, op_queue) + Count(Counted, private[t]) + Executing(t)) =
           outstanding_work + private_work[t]
             + (Count(Counted, op_queue') + Count(Counted, private'[t]) + Executing(t)')
    <2>1. Count(Counted, q) \in Nat /\ Count(Counted, p) \in Nat
      BY <1>2
    <2> QED  BY <1>2, <1>8, <1>9, <1>14, <1>15, <1>16, <2>1
  <1>18. Count({"strand"}, op_queue') + Count({"strand"}, private'[t]) + Count(Entries, frames'[t]) =
           Count({"strand"}, op_queue) + Count({"strand"}, private[t]) + Count(Entries, frames[t])
    <2>1. Count({"strand"}, q) \in Nat /\ Count({"strand"}, p) \in Nat
      BY <1>2
    <2> QED  BY <1>2, <1>8, <1>11, <1>15, <1>16, <2>1
  <1>19. Count({"task"}, op_queue') + Polling(t)' = Count({"task"}, op_queue) + Polling(t)
    BY <1>3, <1>7, <1>14, <1>16
  <1>20. TaskOrder(op_queue') /\ Count({"task"}, private'[t]) = 0 /\ Count({"perform"}, private'[t]) <= Polling(t)'
    BY <1>7, <1>14, <1>15, <1>16
  <1>21. Pending(frames'[t]) = <<>>
    BY <1>2, <1>11
  <1> QED  BY <1>2, <1>12, <1>13, <1>16, <1>17, <1>18, <1>19, <1>20, <1>21, ThreadKeeps

\* The reactor's task finds the descriptor's operation, or nothing.
LEMMA EpollWaitKeeps ==
    ASSUME Inv, NEW t \in Thread, EpollWait(t)
    PROVE  Inv' /\ Elsewhere(t)
  <1> DEFINE o == [call |-> "perform", events |-> ReadyKinds]
  <1>1. /\ at[t] \in {"poll", "block"} /\ interrupt' = FALSE /\ edge' = FALSE
        /\ private' = [private EXCEPT ![t] = Append(@, o)] \/ private' = private
        /\ at' = [at EXCEPT ![t] = "task_done"]
        /\ UNCHANGED <<op_queue, outstanding_work, stopped, task_interrupted, owner,
                       signalled, waiting, notified, owes, private_work, frames>>
        /\ UNCHANGED <<strand, queued, registered, closed, avail>>
    BY DEF EpollWait, At, Goes, eventVars
  <1>2. /\ TypeInv /\ Types /\ StackInv /\ TaskInv /\ private_work[t] = 0 /\ t \in Actor /\ private[t] = <<>>
        /\ frames[t] = <<>> /\ Pending(frames[t]) = <<>> /\ Count(Entries, frames[t]) = 0 /\ Executing(t) = 0
        /\ outstanding_work \in Int
        /\ \A names : Count(names, op_queue) \in Nat /\ Count(names, private[t]) \in Nat
    BY <1>1, BetweenCalls
  <1>3. o \in Op /\ o.call = "perform"
    <2>1. ReadyKinds \in SUBSET Kind
      BY <1>2 DEF ReadyKinds, Types
    <2> QED  BY <2>1, OpsAre
  <1> HIDE DEF o
  <1>4. /\ private'[t] \in {<<>>, <<o>>} /\ private' \in [Thread -> Seq(Op)]
        /\ \A u \in Thread : u # t => private'[u] = private[u]
    <2>1. private \in [Thread -> Seq(Op)] /\ Append(<<>>, o) = <<o>> /\ <<o>> \in Seq(Op)
      BY <1>2, <1>3 DEF Types
    <2> QED  BY <1>1, <1>2, <2>1
  <1>5. /\ Count(Counted, private'[t]) = 0 /\ Count({"strand"}, private'[t]) = 0 /\ Count({"task"}, private'[t]) = 0
        /\ Count({"perform"}, private'[t]) <= 1
    <2>1. CASE private'[t] = <<>>
      BY <2>1, CountEmpty
    <2>2. CASE private'[t] = <<o>>
      <3>1. \A names : Count(names, <<o>>) = (IF o.call \in names THEN 1 ELSE 0)
        BY <1>3, CountOne
      <3> QED  BY <1>3, <2>2, <3>1 DEF Counted
    <2> QED  BY <1>4, <2>1, <2>2
  <1>6. /\ at' \in [Thread -> Labels] /\ at'[t] = "task_done" /\ \A u \in Thread : u # t => at'[u] = at[u]
    BY <1>1, <1>2 DEF Types, Labels
  <1>7. Types'
    BY <1>1, <1>2, <1>4, <1>6 DEF Types
  <1>8. Stacked(t) /\ frames' = frames
    BY <1>1, <1>2, StackStays
  <1>9. Elsewhere(t)
    BY <1>1, <1>4, <1>6, <1>8 DEF Elsewhere
  <1>10. TypeInv'
    BY <1>1, <1>2, <1>6, <1>7, <1>8, <1>9, ThreadMoves
  <1>11. Executing(t)' = 0 /\ Polling(t)' = 1 /\ Polling(t) = 1
    BY <1>1, <1>6 DEF Executing, Polling
  <1>12. \A names : Count(names, private[t]) = 0
    BY <1>2, CountEmpty
  <1>13. /\ op_queue' = op_queue /\ UNCHANGED <<strand, queued>> /\ private_work' = private_work
         /\ outstanding_work' = outstanding_work
    BY <1>1
  <1>14. outstanding_work' + private_work'[t]
             + (Count(Counted, op_queue) + Count(Counted, private[t]) + Executing(t)) =
           outstanding_work + private_work[t]
             + (Count(Counted, op_queue') + Count(Counted, private'[t]) + Executing(t)')
    BY <1>2, <1>5, <1>11, <1>12, <1>13
  <1>15. Count({"strand"}, op_queue') + Count({"strand"}, private'[t]) + Count(Entries, frames'[t]) =
           Count({"strand"}, op_queue) + Count({"strand"}, private[t]) + Count(Entries, frames[t])
    BY <1>5, <1>8, <1>12, <1>13
  <1>16. Count({"task"}, op_queue') + Polling(t)' = Count({"task"}, op_queue) + Polling(t)
    BY <1>11, <1>13
  <1>17. TaskOrder(op_queue') /\ Count({"task"}, private'[t]) = 0 /\ Count({"perform"}, private'[t]) <= Polling(t)'
    BY <1>2, <1>5, <1>11, <1>13 DEF TaskInv
  <1>18. Pending(frames'[t]) = <<>>
    BY <1>2, <1>8
  <1> QED  BY <1>2, <1>9, <1>10, <1>13, <1>14, <1>15, <1>16, <1>17, <1>18, ThreadKeeps

\* A step that may move the thread t between the places where it has nothing,
\* and the threads between the two sets of those that are asleep.
LEMMA SleepKeeps ==
    ASSUME Inv, Types', UNCHANGED <<op_queue, outstanding_work, private, private_work, frames, strand, queued>>,
           NEW t \in Thread, at' = at \/ (at[t] \in {"loop", "wait"} /\ frames[t] = <<>>),
           at'[t] = at[t] \/ at'[t] \in {"loop", "wait", "returned"},
           \A u \in Thread : u # t => at'[u] = at[u] /\ (u \in waiting' \cup notified' <=> u \in waiting \cup notified),
           at'[t] = "wait" <=> t \in waiting' \cup notified', waiting' \cap notified' = {},
           owner' = owner \/ owner' = Nobody \/ (owner' = t /\ at'[t] = "loop"),
           owner' = owner /\ owner # Nobody => at' = at \/ owner # t
    PROVE  Inv'
  <1>0. TypeInv /\ ThreadInv /\ StackInv
    BY DEF Inv, TypeInv
  <1>1. StackInv'
    BY <1>0 DEF StackInv
  <1>2. ASSUME NEW u \in Thread
        PROVE  /\ (at'[u] = "wait") <=> (u \in waiting' \cup notified')
               /\ at'[u] # "running" /\ frames'[u] # <<>> =>
                     frames'[u] = <<[call |-> "stop"]>> /\ at'[u] \in {"loop", "flush", "returned"}
               /\ at'[u] \in {"new", "start", "loop", "wait", "returned", "poll", "block"} => private'[u] = <<>>
               /\ private_work'[u] <= Count(Counted, private'[u])
               /\ at'[u] # "running" => private_work'[u] = 0
    <2>0. /\ (at[u] = "wait") <=> (u \in waiting \cup notified)
          /\ at[u] # "running" /\ frames[u] # <<>> =>
                frames[u] = <<[call |-> "stop"]>> /\ at[u] \in {"loop", "flush", "returned"}
          /\ at[u] \in {"new", "start", "loop", "wait", "returned", "poll", "block"} => private[u] = <<>>
          /\ private_work[u] <= Count(Counted, private[u])
          /\ at[u] # "running" => private_work[u] = 0
      BY <1>0 DEF ThreadInv
    <2>1. CASE u # t
      BY <2>0, <2>1
    <2>2. CASE u = t /\ at' = at
      BY <2>0, <2>2
    <2>3. CASE u = t /\ at' # at
      BY <2>0, <2>3
    <2> QED  BY <2>1, <2>2, <2>3
  <1>3. owner' = Nobody \/ (owner' \in Thread /\ at'[owner'] = "loop")
    <2>1. CASE owner' = owner /\ owner # Nobody
      <3>1. owner \in Thread /\ at[owner] = "loop"
        BY <1>0, <2>1 DEF ThreadInv
      <3>2. at'[owner] = at[owner]
        BY <2>1, <3>1
      <3> QED  BY <2>1, <3>1, <3>2
    <2> QED  BY <2>1
  <1>4. ThreadInv'
    BY <1>2, <1>3 DEF ThreadInv
  <1>5. TypeInv'
    BY <1>1, <1>4 DEF TypeInv
  <1>6. \A u \in Thread : Executing(u)' = Executing(u) /\ Polling(u)' = Polling(u)
    <2> TAKE u \in Thread
    <2>1. at'[u] = at[u] \/ (at[u] \in {"loop", "wait"} /\ at'[u] \in {"loop", "wait", "returned"})
      OBVIOUS
    <2> QED  BY <2>1 DEF Executing, Polling
  <1> QED  BY <1>5, <1>6, QuietKeeps

LEMMA RunReturnsKeeps ==
    ASSUME Inv, NEW t \in Thread, RunReturns(t), UNCHANGED <<strand, descVars>>
    PROVE  Inv'
  <1>1. /\ at[t] = "loop" /\ frames[t] = <<>> /\ at' = [at EXCEPT ![t] = "returned"] /\ owner' = Nobody
        /\ owner = Nobody \/ owner = t
        /\ UNCHANGED <<op_queue, outstanding_work, stopped, task_interrupted,
                       signalled, waiting, notified, owes, interrupt, private, private_work, frames>>
        /\ UNCHANGED <<strand, queued, registered, closed, avail, edge>>
    BY DEF RunReturns, At, MayLock, Goes, eventVars, descVars
  <1>2. Types /\ ThreadInv
    BY DEF Inv, TypeInv
  <1>3. /\ at' \in [Thread -> Labels] /\ at'[t] = "returned" /\ \A u \in Thread : u # t => at'[u] = at[u]
    BY <1>1, <1>2 DEF Types, Labels
  <1>4. Types'
    BY <1>1, <1>2, <1>3 DEF Types
  <1>5. t \notin waiting \cup notified /\ waiting \cap notified = {}
    BY <1>1, <1>2 DEF ThreadInv
  <1>6. owner' = owner /\ owner # Nobody => owner # t
    BY <1>1
  <1> QED  BY <1>1, <1>3, <1>4, <1>5, <1>6, SleepKeeps

LEMMA IdleKeeps ==
    ASSUME Inv, NEW t \in Thread, Idle(t), UNCHANGED <<strand, descVars>>
    PROVE  Inv'
  <1>1. /\ at[t] = "loop" /\ frames[t] = <<>> /\ at' = [at EXCEPT ![t] = "wait"] /\ owner' = Nobody
        /\ signalled' = FALSE /\ waiting' = waiting \cup {t}
        /\ UNCHANGED <<op_queue, outstanding_work, stopped, task_interrupted,
                       notified, owes, interrupt, private, private_work, frames>>
        /\ UNCHANGED <<strand, queued, registered, closed, avail, edge>>
    BY DEF Idle, At, MayLock, Goes, descVars
  <1>2. Types /\ ThreadInv
    BY DEF Inv, TypeInv
  <1>3. /\ at' \in [Thread -> Labels] /\ at'[t] = "wait" /\ \A u \in Thread : u # t => at'[u] = at[u]
    BY <1>1, <1>2 DEF Types, Labels
  <1>4. Types'
    BY <1>1, <1>2, <1>3 DEF Types
  <1>5. t \notin waiting \cup notified /\ waiting \cap notified = {}
    BY <1>1, <1>2 DEF ThreadInv
  <1>6. waiting' \cap notified' = {} /\ t \in waiting'
        /\ \A u \in Thread : u # t => (u \in waiting' \cup notified' <=> u \in waiting \cup notified)
    BY <1>1, <1>5
  <1>7. owner' = owner /\ owner # Nobody => owner # t
    BY <1>1
  <1> QED  BY <1>1, <1>3, <1>4, <1>6, <1>7, SleepKeeps

LEMMA WakesKeeps ==
    ASSUME Inv, NEW t \in Thread, Wakes(t), UNCHANGED <<strand, descVars>>
    PROVE  Inv'
  <1>1. /\ at[t] = "wait" /\ t \in notified /\ owner = Nobody /\ notified' = notified \ {t}
        /\ \/ at' = [at EXCEPT ![t] = "loop"] /\ owner' = t /\ waiting' = waiting
           \/ waiting' = waiting \cup {t} /\ at' = at /\ owner' = owner
        /\ UNCHANGED <<op_queue, outstanding_work, stopped, task_interrupted,
                       signalled, owes, interrupt, private, private_work, frames>>
        /\ UNCHANGED <<strand, queued, registered, closed, avail, edge>>
    BY DEF Wakes, At, Goes, descVars
  <1>2. /\ Types /\ ThreadInv /\ frames[t] = <<>> /\ waiting \cap notified = {}
    BY <1>1, BetweenCalls DEF Inv, TypeInv, ThreadInv
  <1>3. /\ at' \in [Thread -> Labels] /\ \A u \in Thread : u # t => at'[u] = at[u]
        /\ at'[t] = "loop" \/ at' = at
    BY <1>1, <1>2 DEF Types, Labels
  <1>4. Types'
    BY <1>1, <1>2, <1>3 DEF Types
  <1>5. /\ waiting' \cap notified' = {} /\ (at'[t] = "wait" <=> t \in waiting' \cup notified')
        /\ \A u \in Thread : u # t => (u \in waiting' \cup notified' <=> u \in waiting \cup notified)
    BY <1>1, <1>2, <1>3 DEF Types
  <1>6. (owner' = owner /\ owner # Nobody => owner # t) /\ (owner' = owner \/ (owner' = t /\ at'[t] = "loop"))
    BY <1>1, <1>2 DEF Types
  <1> QED  BY <1>1, <1>2, <1>3, <1>4, <1>5, <1>6, SleepKeeps

LEMMA SignalOneKeeps ==
    ASSUME Inv, NEW x \in Actor, SignalOne(x), UNCHANGED <<strand, descVars>>
    PROVE  Inv'
  <1>1. /\ owes' = [owes EXCEPT ![x] = FALSE]
        /\ waiting' \cup notified' = waiting \cup notified
        /\ UNCHANGED <<op_queue, outstanding_work, stopped, task_interrupted, owner,
                       signalled, interrupt, at, private, private_work, frames>>
        /\ UNCHANGED <<strand, queued, registered, closed, avail, edge>>
    BY DEF SignalOne, threadVars, descVars
  <1>2. Types /\ ThreadInv /\ StackInv
    BY DEF Inv, TypeInv
  <1>3. waiting' \cap notified' = {} /\ waiting' \subseteq Thread /\ notified' \subseteq Thread
    <2>1. waiting \cap notified = {} /\ waiting \subseteq Thread /\ notified \subseteq Thread
      BY <1>2 DEF ThreadInv, Types
    <2> QED  BY <2>1 DEF SignalOne
  <1>4. Types'
    BY <1>1, <1>2, <1>3 DEF Types
  <1>5. ThreadInv'
    BY <1>1, <1>2, <1>3 DEF ThreadInv
  <1>6. StackInv'
    BY <1>1, <1>2 DEF StackInv
  <1>7. TypeInv'
    BY <1>4, <1>5, <1>6 DEF TypeInv
  <1>8. \A u \in Thread : Executing(u)' = Executing(u) /\ Polling(u)' = Polling(u)
    BY <1>1 DEF Executing, Polling
  <1> QED  BY <1>1, <1>7, <1>8, QuietKeeps

LEMMA KernelKeeps ==
    ASSUME Inv, KernelStep
    PROVE  Inv'
  <1>1. PICK k \in Kind : Arrives(k)
    BY DEF KernelStep
  <1>2. /\ UNCHANGED <<op_queue, outstanding_work, stopped, task_interrupted, owner, signalled, waiting,
                       notified, owes, interrupt, at, private, private_work, frames>>
        /\ UNCHANGED <<strand, queued, registered, closed>>
        /\ avail' = [avail EXCEPT ![k] = @ + 1] /\ edge' = (edge \/ k \in registered)
    BY <1>1 DEF Arrives, ioVars, eventVars, threadVars
  <1>3. Types /\ ThreadInv /\ StackInv
    BY DEF Inv, TypeInv
  <1>4. avail' \in [Kind -> Nat] /\ edge' \in BOOLEAN
    BY <1>2, <1>3 DEF Types
  <1>5. Types'
    BY <1>2, <1>3, <1>4 DEF Types
  <1>6. TypeInv'
    BY <1>2, <1>3, <1>5 DEF TypeInv, ThreadInv, StackInv
  <1>7. \A u \in Thread : Executing(u)' = Executing(u) /\ Polling(u)' = Polling(u)
    BY <1>2 DEF Executing, Polling
  <1> QED  BY <1>2, <1>6, <1>7, QuietKeeps

LEMMA StutterKeeps ==
    ASSUME Inv, UNCHANGED vars
    PROVE  Inv'
  <1>1. /\ UNCHANGED <<op_queue, outstanding_work, stopped, task_interrupted, owner, signalled, waiting,
                       notified, owes, interrupt, at, private, private_work, frames>>
        /\ UNCHANGED <<strand, queued, registered, closed, avail, edge>>
    BY DEF vars, ioVars, eventVars, threadVars, descVars
  <1>2. TypeInv'
    BY <1>1 DEF Inv, TypeInv, Types, ThreadInv, StackInv
  <1>3. \A u \in Thread : Executing(u)' = Executing(u) /\ Polling(u)' = Polling(u)
    BY <1>1 DEF Executing, Polling
  <1> QED  BY <1>1, <1>2, <1>3, QuietKeeps


-----------------------------------------------------------------------------
(***************************************************************************)
(* The invariant.                                                          *)
(***************************************************************************)
LEMMA InitInv == Init => Inv
  <1> SUFFICES ASSUME Init PROVE Inv
    OBVIOUS
  <1>0. /\ op_queue = <<Task>> /\ outstanding_work = 0
        /\ stopped = FALSE /\ task_interrupted = TRUE /\ owner = Nobody
        /\ signalled = FALSE /\ waiting = {} /\ notified = {}
        /\ owes = [x \in Actor |-> FALSE] /\ interrupt = TRUE
        /\ at = [t \in Thread |-> "new"]
        /\ private = [t \in Thread |-> <<>>] /\ private_work = [t \in Thread |-> 0]
        /\ frames = [x \in Actor |-> IF x \in Outside THEN <<Handler(x)>> ELSE <<>>]
        /\ strand = [locked |-> FALSE, waiting |-> <<>>, ready |-> <<>>]
        /\ queued = [k \in Kind |-> <<>>] /\ registered = {"read"} /\ closed = FALSE
        /\ avail = [k \in Kind |-> 0] /\ edge = FALSE
    BY DEF Init, IoInit, StrandInit, DescriptorInit
  <1>1. /\ Task \in Op /\ Task.call = "task" /\ <<Task>> \in Seq(Op)
    BY OpsAre
  <1>2. \A x \in Actor : /\ frames[x] \in Seq(Frame) /\ StackOK(frames[x])
                         /\ Count(Entries, frames[x]) = 0 /\ Pending(frames[x]) = <<>>
                         /\ x \in Thread => frames[x] = <<>>
                         /\ x \in Outside => \A i \in 1..Len(frames[x]) : frames[x][i].call = "handler"
    <2> TAKE x \in Actor
    <2>1. CASE x \in Outside
      <3> DEFINE f == Handler(x)
      <3>1. frames[x] = <<f>> /\ x \notin Thread
        BY <1>0, <2>1, ThreadAssumption
      <3>2. f \in Frame /\ f.call = "handler" /\ f.call \notin Entries
        BY <2>1, FramesAre DEF Handler, Entries
      <3> HIDE DEF f
      <3>3. /\ <<f>> \in Seq(Frame) /\ StackOK(<<f>>)
            /\ Count(Entries, <<f>>) = (IF f.call \in Entries THEN 1 ELSE 0)
            /\ Pending(<<f>>) = (IF f.call = "enqueue" THEN f.ops ELSE <<>>)
        BY <3>2, OneFrame
      <3>4. \A i \in 1..Len(<<f>>) : <<f>>[i].call = "handler"
        BY <3>2
      <3> QED  BY <3>1, <3>2, <3>3, <3>4
    <2>2. CASE x \notin Outside
      BY <1>0, <2>2, EmptyStack DEF Open
    <2> QED  BY <2>1, <2>2
  <1>3. Types
    <2>1. frames \in [Actor -> Seq(Frame)]
      <3>1. frames = [x \in Actor |-> frames[x]]
        BY <1>0
      <3> QED  BY <1>2, <3>1
    <2>2. strand \in [locked : BOOLEAN, waiting : Seq(Handlers), ready : Seq(Handlers)]
      BY <1>0
    <2>3. /\ queued \in [Kind -> Seq(Handlers)] /\ registered \subseteq Kind
          /\ closed \in BOOLEAN /\ avail \in [Kind -> Nat] /\ edge \in BOOLEAN
      <3>1. /\ closed \in BOOLEAN /\ edge \in BOOLEAN /\ registered = {"read"}
            /\ queued = [k \in Kind |-> <<>>] /\ avail = [k \in Kind |-> 0]
        BY <1>0
      <3>2. "read" \in Kind
        BY DEF Kind
      <3>3. queued \in [Kind -> Seq(Handlers)]
        BY <3>1
      <3>4. avail \in [Kind -> Nat]
        BY <3>1
      <3> QED  BY <3>1, <3>2, <3>3, <3>4
    <2>4. /\ at \in [Thread -> Labels] /\ private \in [Thread -> Seq(Op)] /\ private_work \in [Thread -> Nat]
          /\ owes \in [Actor -> BOOLEAN]
      BY <1>0 DEF Labels
    <2>5. /\ op_queue \in Seq(Op) /\ outstanding_work \in Int
          /\ waiting \subseteq Thread /\ notified \subseteq Thread
      BY <1>0, <1>1
    <2>6. /\ stopped \in BOOLEAN /\ task_interrupted \in BOOLEAN
          /\ signalled \in BOOLEAN /\ interrupt \in BOOLEAN
      BY <1>0
    <2> QED  BY <2>1, <2>2, <2>3, <2>4, <2>5, <2>6 DEF Types
  <1>4. TypeInv
    <2>1. StackInv
      <3>1. \A x \in Actor : StackOK(frames[x])
        BY <1>2
      <3>2. ASSUME NEW x \in Outside, NEW i \in 1..Len(frames[x])
            PROVE  frames[x][i].call \in {"handler", "enqueue", "await"}
        BY <1>2 DEF Actor
      <3> QED  BY <3>1, <3>2 DEF StackInv
    <2>2. ThreadInv
      <3>1. \A t \in Thread : /\ frames[t] = <<>> /\ at[t] = "new" /\ private[t] = <<>> /\ private_work[t] = 0
        BY <1>0, <1>2 DEF Actor
      <3>2. Count(Counted, <<>>) = 0
        BY CountEmpty
      <3>3. \A t \in Thread : private_work[t] <= Count(Counted, private[t])
        BY <3>1, <3>2
      <3> QED  BY <1>0, <3>1, <3>3 DEF ThreadInv
    <2> QED  BY <1>3, <2>1, <2>2 DEF TypeInv
  <1>5. /\ IsFiniteSet(Thread) /\ IsFiniteSet(Actor)
        /\ private_work \in [Thread -> Nat] /\ Works \in [Thread -> Nat]
        /\ Queuings \in [Actor -> Nat] /\ Strands \in [Thread -> Nat]
        /\ AllLocks \in [Actor -> Nat] /\ Pollings \in [Thread -> Nat]
    BY <1>3, SumTypes, ThreadAssumption, FS_Union DEF SumsTyped, Actor
  <1>6. \A x, names : x \in Actor => BeingQueued(names, x) = 0
    BY <1>2, BeingQueuedIs, CountEmpty
  <1>7. \A t \in Thread : /\ Executing(t) = 0 /\ Polling(t) = 0 /\ private_work[t] = 0
                          /\ \A names : Count(names, private[t]) = 0
    BY <1>0, CountEmpty DEF Executing, Polling
  <1>8. /\ \A t \in Thread : Works[t] = 0 /\ Strands[t] = 0 /\ Pollings[t] = 0
        /\ \A x \in Actor : Queuings[x] = 0 /\ AllLocks[x] = 0
    <2>1. ASSUME NEW t \in Thread PROVE Works[t] = 0 /\ Strands[t] = 0 /\ Pollings[t] = 0
      <3>1. Executing(t) = 0 /\ Polling(t) = 0 /\ Count(Counted, private[t]) = 0 /\ Count({"strand"}, private[t]) = 0
        BY <1>7
      <3> QED  BY <3>1 DEF Works, Work, Strands, Pollings
    <2>2. ASSUME NEW x \in Actor PROVE Queuings[x] = 0 /\ AllLocks[x] = 0
      <3>1. BeingQueued(Counted, x) = 0 /\ BeingQueued({"strand"}, x) = 0 /\ Count(Entries, frames[x]) = 0
        BY <1>2, <1>6
      <3> QED  BY <3>1 DEF Queuings, AllLocks, Lock
    <2> QED  BY <2>1, <2>2
  <1>9. Total(private_work) = 0 /\ Total(Works) = 0 /\ Total(Strands) = 0
    BY <1>5, <1>7, <1>8, TotalZero
  <1>10. Total(Pollings) = 0 /\ Total(Queuings) = 0 /\ Total(AllLocks) = 0
    BY <1>5, <1>8, TotalZero
  <1>11. /\ Count(Counted, op_queue) = 0 /\ Count({"strand"}, op_queue) = 0
         /\ Count({"task"}, op_queue) = 1 /\ Count({"perform"}, op_queue) = 0
    <2>1. \A names : Count(names, <<Task>>) = (IF Task.call \in names THEN 1 ELSE 0)
      BY <1>1, CountOne
    <2> QED  BY <1>0, <1>1, <2>1 DEF Counted
  <1>12. WorkAccounted
    <2>1. Len(queued["read"]) = 0 /\ Len(queued["write"]) = 0
      BY <1>0 DEF Kind
    <2>2. outstanding_work + Total(private_work) =
              Count(Counted, op_queue) + Len(queued["read"]) + Len(queued["write"]) + Total(Works) + Total(Queuings)
      <3>1. outstanding_work = 0
        BY <1>0
      <3> QED  BY <1>9, <1>10, <1>11, <2>1, <3>1
    <2> QED  BY <2>2 DEF WorkAccounted, Works, Work, Queuings
  <1>13. TaskInv
    <2>1. op_queue \in Seq(Op)
      BY <1>0, <1>1
    <2>2. \A i \in 1..Len(op_queue) : op_queue[i].call # "perform"
      BY <1>11, <2>1, CountNone
    <2>3. TaskOrder(op_queue)
      BY <1>11, <2>2 DEF TaskOrder
    <2> QED  BY <1>6, <1>7, <1>10, <1>11, <2>3 DEF TaskInv, Pollings
  <1>14. StrandInv
    BY <1>0, <1>9, <1>10, <1>11 DEF StrandInv, Locks, Strands, AllLocks, Lock
  <1> QED  BY <1>4, <1>12, <1>13, <1>14 DEF Inv

LEMMA NextInv == Inv /\ [Next]_vars => Inv'
  <1> SUFFICES ASSUME Inv, [Next]_vars PROVE Inv'
    OBVIOUS
  <1>1. CASE UNCHANGED vars
    BY <1>1, StutterKeeps
  <1>2. CASE KernelStep
    BY <1>2, KernelKeeps
  <1>3. ASSUME NEW x \in Actor, Step(x) PROVE Inv'
    <2>1. CASE ServiceStep(x) /\ UNCHANGED <<strand, descVars>>
      BY <2>1, SignalOneKeeps, StopKeeps, IoPostKeeps, EnqueueKeeps DEF ServiceStep
    <2>2. CASE x \in Thread /\ RunLoop(x) /\ UNCHANGED <<strand, descVars>>
      BY <2>2, RunBeginsKeeps, RunReturnsKeeps, TakeTaskKeeps, TakeOpKeeps, IdleKeeps, WakesKeeps,
         TaskCleanupKeeps, WorkCleanupKeeps, FlushPrivateKeeps DEF RunLoop
    <2>3. CASE StrandStep(x) /\ UNCHANGED descVars
      BY <2>3, PostKeeps, DispatchKeeps, StrandRunsKeeps, StrandExitKeeps, DispatchExitKeeps DEF StrandStep
    <2>4. CASE UserStep(x) /\ UNCHANGED descVars
      BY <2>4, StartThreadKeeps, ReturnKeeps DEF UserStep
    <2>5. CASE ReactorStep(x)
      BY <2>5, StartOpKeeps, AwaitKeeps, CloseKeeps, PerformIoKeeps DEF ReactorStep
    <2>6. CASE x \in Thread /\ EpollWait(x)
      BY <2>6, EpollWaitKeeps
    <2> QED  BY <1>3, <2>1, <2>2, <2>3, <2>4, <2>5, <2>6 DEF Step
  <1> QED  BY <1>1, <1>2, <1>3 DEF Next

LEMMA InvHolds == Spec => []Inv
  BY InitInv, NextInv, PTL DEF Spec

\* Every thread's place in run() fits the event, the mutex, its stack and its
\* own queue, and the count of work is never negative: what the threads keep
\* back is never more than what they have in their own queues.
THEOREM TypeCorrect == Spec => []TypeOK
  <1>1. Inv => TypeOK
    <2> SUFFICES ASSUME Inv PROVE TypeOK
      OBVIOUS
    <2>0. Types /\ ThreadInv /\ WorkAccounted
      BY DEF Inv, TypeInv
    <2>1. outstanding_work \in Nat
      <3> DEFINE w == Total(private_work)
                 s == Total(Works)
                 b == Total(Queuings)
                 c == Count(Counted, op_queue)
                 r == Len(queued["read"])
                 v == Len(queued["write"])
                 o == outstanding_work
      <3>1. /\ IsFiniteSet(Thread) /\ IsFiniteSet(Actor)
            /\ private_work \in [Thread -> Nat] /\ Works \in [Thread -> Nat] /\ Queuings \in [Actor -> Nat]
        BY <2>0, SumTypes, ThreadAssumption, FS_Union DEF SumsTyped, Actor
      <3>2. \A t \in Thread : private_work[t] <= Works[t]
        <4> TAKE t \in Thread
        <4>1. private_work[t] <= Count(Counted, private[t]) /\ private_work[t] \in Nat /\ private[t] \in Seq(Op)
          BY <2>0 DEF ThreadInv, Types
        <4>2. Count(Counted, private[t]) \in Nat /\ Executing(t) \in Nat
          BY <4>1, CountType DEF Executing
        <4>3. Works[t] = Count(Counted, private[t]) + Executing(t)
          BY DEF Works, Work
        <4> QED  BY <4>1, <4>2, <4>3
      <3>3. w <= s
        BY <3>1, <3>2, TotalLess
      <3>4. w \in Nat /\ s \in Nat /\ b \in Nat
        BY <3>1, AreaIs
      <3>5. c \in Nat /\ r \in Nat /\ v \in Nat /\ o \in Int
        <4>1. op_queue \in Seq(Op) /\ queued["read"] \in Seq(Handlers) /\ queued["write"] \in Seq(Handlers)
          BY <2>0 DEF Types, Kind
        <4> QED  BY <2>0, <4>1, CountType DEF Types
      <3>6. o + w = c + r + v + s + b
        BY <2>0 DEF WorkAccounted, Works, Work, Queuings
      <3> HIDE DEF w, s, b, c, r, v, o
      <3>7. o \in Nat
        BY <3>3, <3>4, <3>5, <3>6
      <3> QED  BY <3>7 DEF o
    <2> QED  BY <2>0, <2>1 DEF TypeOK, Types, ThreadInv
  <1> QED  BY <1>1, InvHolds, PTL

\* outstanding_work_, with what the threads keep back, is the number of the
\* operations that have not completed, wherever they are: in a queue, on a
\* thread's own queue, waiting for the socket, being queued or executing.
THEOREM WorkAccountedHolds == Spec => []WorkAccounted
  <1>1. Inv => WorkAccounted
    BY DEF Inv
  <1> QED  BY <1>1, InvHolds, PTL

\* The task and the descriptor's operation, which the intrusive queues can hold
\* only once, are never in two of them or twice in one.
THEOREM QueuedOnceHolds == Spec => []QueuedOnce
  <1>1. Inv => QueuedOnce
    <2> SUFFICES ASSUME Inv, NEW name \in {"perform", "task"}
                 PROVE  Count({name}, op_queue) + Total([t \in Thread |-> Count({name}, private[t])]) <= 1
      BY DEF QueuedOnce
    <2> DEFINE f == [t \in Thread |-> Count({name}, private[t])]
               c == Count({name}, op_queue)
               p == Total(Pollings)
    <2>1. TaskInv /\ Types /\ IsFiniteSet(Thread) /\ Pollings \in [Thread -> Nat]
      BY SumTypes, ThreadAssumption DEF Inv, TypeInv, SumsTyped
    <2>2. \A t \in Thread : Count({name}, private[t]) \in Nat
      <3> TAKE t \in Thread
      <3>1. private[t] \in Seq(Op)
        BY <2>1 DEF Types
      <3> QED  BY <3>1, CountType
    <2>3. f \in [Thread -> Nat]
      BY <2>2
    <2>4. c \in Nat /\ Count({"task"}, op_queue) \in Nat
      <3>1. op_queue \in Seq(Op)
        BY <2>1 DEF Types
      <3> QED  BY <3>1, CountType
    <2>5. p \in Nat /\ Count({"task"}, op_queue) + p = 1
      BY <2>1, AreaIs DEF TaskInv, Pollings
    <2>6. CASE name = "task"
      <3>1. \A t \in Thread : f[t] = 0
        BY <2>1, <2>6 DEF TaskInv
      <3> HIDE DEF f
      <3>2. Total(f) = 0
        BY <2>1, <2>3, <3>1, TotalZero
      <3>3. c + Total(f) <= 1
        BY <2>4, <2>5, <2>6, <3>2
      <3> QED  BY <3>3 DEF f
    <2>7. CASE name = "perform"
      <3>1. \A t \in Thread : f[t] <= Pollings[t]
        BY <2>1, <2>7 DEF TaskInv, Pollings
      <3>2. c <= 1 /\ (c = 1 => Count({"task"}, op_queue) = 1)
        BY <2>1, <2>7 DEF TaskInv, TaskOrder
      <3> HIDE DEF f
      <3>3. Total(f) <= p /\ Total(f) \in Nat
        BY <2>1, <2>3, <3>1, TotalLess, AreaIs
      <3> DEFINE k == Count({"task"}, op_queue)
      <3>4. c \in Nat /\ k \in Nat /\ k + p = 1 /\ (c = 1 => k = 1) /\ c <= 1
        BY <2>4, <2>5, <3>2
      <3> HIDE DEF c, k, p
      <3>5. c + Total(f) <= 1
        BY <2>5, <3>3, <3>4
      <3> QED  BY <3>5 DEF c, f
    <2> QED  BY <2>6, <2>7
  <1> QED  BY <1>1, InvHolds, PTL


-----------------------------------------------------------------------------
(***************************************************************************)
(* The strand keeps its promise.                                           *)
(***************************************************************************)
EntryOf(s) == CHOOSE i \in DOMAIN s : s[i].call \in {"strand", "dispatched"}

LEMMA AppendToNone ==
    ASSUME NEW h \in Handlers
    PROVE  Append(<<>>, h) = <<h>>
  <1> DEFINE s == <<>>
             t == <<h>>
  <1>1. s \in Seq(Handlers) /\ t \in Seq(Handlers) /\ s = <<>>
    OBVIOUS
  <1>2. Append(s, h) = s \o <<h>>
    <2> HIDE DEF s
    <2> QED  BY <1>1, AppendIsConcat
  <1>3. s \o t = t
    <2> HIDE DEF t
    <2> QED  BY <1>1, ConcatEmptySeq
  <1> QED  BY <1>2, <1>3

\* The handlers that a stack is in, inside the strand.
Handled(s) ==
    IF ~\E i \in DOMAIN s : s[i].call \in {"strand", "dispatched"} THEN <<>>
    ELSE LET last == IF s[Len(s)].call \in {"enqueue", "await"} THEN Len(s) - 1 ELSE Len(s)
         IN  [i \in 1..(last - EntryOf(s)) |-> s[EntryOf(s) + i].h]

LEMMA HandledIs ==
    ASSUME NEW x
    PROVE  StrandHandlers(x) = Handled(frames[x]) /\ StrandHandlers(x)' = Handled(frames'[x])
  BY DEF StrandHandlers, Handled, InStrand, Entry, EntryOf, Top

LEMMA HandledOutside ==
    ASSUME NEW s \in Seq(Frame)
    PROVE  /\ ~Entered(s) => Handled(s) = <<>>
           /\ Entered(s) <=> \E i \in DOMAIN s : s[i].call \in {"strand", "dispatched"}
  BY DEF Handled, Entered, Entries

LEMMA EntryIs ==
    ASSUME NEW s \in Seq(Frame), StackOK(s), NEW e \in 1..Len(s), s[e].call \in Entries
    PROVE  EntryOf(s) = e
  <1> DEFINE c == EntryOf(s)
  <1>1. c \in DOMAIN s /\ s[c].call \in Entries
    BY DEF EntryOf, Entries
  <1>2. c \in 1..Len(s) /\ DOMAIN s = 1..Len(s) /\ Len(s) \in Nat
    BY <1>1
  <1> HIDE DEF c
  <1>3. \A i, j \in 1..Len(s) : i < j /\ s[i].call \in Entries => s[j].call \notin Entries
    BY InsideIs DEF StackOK
  <1>4. ~(c < e) /\ ~(e < c)
    BY <1>1, <1>2, <1>3
  <1>5. c = e
    BY <1>2, <1>4
  <1> QED  BY <1>5 DEF c

\* The top of the stack is user code, or the entry itself.
LEMMA HandledOpen ==
    ASSUME NEW s, Open(s), Entered(s)
    PROVE  /\ Handled(s) \in Seq(Handlers)
           /\ \E e \in 1..Len(s) :
                 /\ s[e].call \in Entries /\ EntryOf(s) = e
                 /\ Handled(s) = [i \in 1..(Len(s) - e) |-> s[e + i].h]
                 /\ Len(Handled(s)) = Len(s) - e
  <1>1. /\ s \in Seq(Frame) /\ StackOK(s) /\ Len(s) \in Nat
        /\ \A i \in 1..Len(s) : s[i].call \in Below
    BY DEF Open
  <1>2. PICK e \in 1..Len(s) : s[e].call \in Entries
    BY DEF Entered
  <1>3. EntryOf(s) = e
    BY <1>1, <1>2, EntryIs
  <1>4. s[Len(s)].call \notin {"enqueue", "await"}
    BY <1>1, <1>2 DEF Below, Entries
  <1>5. Handled(s) = [i \in 1..(Len(s) - e) |-> s[e + i].h]
    BY <1>1, <1>3, <1>4, HandledOutside DEF Handled
  <1>6. ASSUME NEW i \in 1..(Len(s) - e) PROVE s[e + i].h \in Handlers
    <2>1. e + i \in 1..Len(s) /\ e < e + i
      BY <1>1, <1>2
    <2>2. s[e + i] \in Inside /\ s[e + i].call \in Below
      BY <1>1, <1>2, <2>1 DEF StackOK
    <2> QED  BY <2>2 DEF Inside, Below, Entries, UserCode
  <1>7. Len(s) - e \in Nat
    BY <1>1, <1>2
  <1> DEFINE m == Len(s) - e
             g == [i \in 1..m |-> s[e + i].h]
  <1>8. g \in Seq(Handlers) /\ Len(g) = m
    <2>1. m \in Nat /\ \A i \in 1..m : s[e + i].h \in Handlers
      BY <1>6, <1>7
    <2> HIDE DEF m
    <2> QED  BY <2>1
  <1> QED  BY <1>2, <1>3, <1>5, <1>8

\* A call is made by user code inside the strand.
LEMMA HandledMore ==
    ASSUME NEW s, Open(s), Entered(s), NEW f \in Inside
    PROVE  LET t == s \o <<f>>
           IN  /\ Entered(t) /\ t \in Seq(Frame)
               /\ f.call # "handler" => Handled(t) = Handled(s)
               /\ f.call = "handler" => f.h \in Handlers /\ Handled(t) = Append(Handled(s), f.h)
  <1> DEFINE t == s \o <<f>>
             n == Len(s)
  <1>0. s \in Seq(Frame) /\ StackOK(s)
    BY DEF Open
  <1>1. /\ f \in Frame /\ f.call \in Above /\ f.call \notin Entries
        /\ f.call \in {"handler", "enqueue", "await"}
    BY InsideIs
  <1>2. /\ t \in Seq(Frame) /\ t # <<>> /\ StackOK(t)
        /\ n \in Nat /\ Len(t) = n + 1 /\ t[Len(t)] = f
        /\ \A i \in 1..n : t[i] = s[i]
        /\ Entered(t)
    BY <1>1, AddStack
  <1>3. Handled(s) \in Seq(Handlers)
    BY HandledOpen
  <1>4. PICK e \in 1..n : /\ s[e].call \in Entries
                          /\ Handled(s) = [i \in 1..(n - e) |-> s[e + i].h]
                          /\ Len(Handled(s)) = n - e
    BY HandledOpen
  <1> HIDE DEF t, n
  <1>5. e \in 1..Len(t) /\ t[e].call \in Entries
    BY <1>2, <1>4
  <1>6. EntryOf(t) = e
    BY <1>2, <1>5, EntryIs
  <1>7. Handled(t) = LET last == IF t[Len(t)].call \in {"enqueue", "await"} THEN Len(t) - 1 ELSE Len(t)
                     IN  [i \in 1..(last - EntryOf(t)) |-> t[EntryOf(t) + i].h]
    BY <1>2, HandledOutside DEF Handled
  <1>8. ASSUME f.call # "handler" PROVE Handled(t) = Handled(s)
    <2>1. t[Len(t)].call \in {"enqueue", "await"} /\ Len(t) - 1 = n
      BY <1>1, <1>2, <1>8
    <2>2. Handled(t) = [i \in 1..(n - e) |-> t[e + i].h]
      BY <1>6, <1>7, <2>1
    <2>3. \A i \in 1..(n - e) : t[e + i] = s[e + i]
      BY <1>2, <1>4
    <2> QED  BY <1>4, <2>2, <2>3
  <1>9. ASSUME f.call = "handler" PROVE f.h \in Handlers /\ Handled(t) = Append(Handled(s), f.h)
    <2> DEFINE g == Handled(s)
               v == Handled(t)
    <2>1. f.h \in Handlers
      BY <1>9 DEF Inside, UserCode
    <2>2. t[Len(t)].call \notin {"enqueue", "await"}
      BY <1>2, <1>9
    <2>3. v = [i \in 1..(n + 1 - e) |-> t[e + i].h]
      BY <1>2, <1>6, <1>7, <2>2
    <2>4. Len(g) = n - e /\ n + 1 - e = Len(g) + 1 /\ g \in Seq(Handlers)
      BY <1>2, <1>3, <1>4
    <2>5. \A i \in 1..(n - e) : g[i] = s[e + i].h /\ t[e + i] = s[e + i] /\ i \in 1..(n + 1 - e)
      BY <1>2, <1>4
    <2>6. e + (n + 1 - e) = Len(t) /\ n + 1 - e \in 1..(n + 1 - e)
      BY <1>2, <1>4
    <2> DEFINE m == n + 1 - e
    <2>7. v = [i \in 1..m |-> t[e + i].h] /\ m \in 1..m /\ e + m = Len(t)
      BY <2>3, <2>6
    <2>8. v[m] = f.h /\ v = [i \in 1..m |-> v[i]]
      <3> HIDE DEF m, v
      <3> QED  BY <1>2, <2>7
    <2>9. \A i \in 1..Len(g) : v[i] = g[i]
      <3> TAKE i \in 1..Len(g)
      <3>1. i \in 1..(n - e)
        BY <2>4
      <3>2. v[i] = t[e + i].h
        BY <2>3, <2>5, <3>1
      <3> QED  BY <2>5, <3>1, <3>2
    <2>10. m = Len(g) + 1
      BY <2>4
    <2> HIDE DEF g, v, m
    <2>11. v = Append(g, f.h)
      BY <2>1, <2>4, <2>8, <2>9, <2>10, IsAppended
    <2> QED  BY <2>1, <2>11 DEF g, v
  <1> QED  BY <1>2, <1>8, <1>9 DEF t

\* The strand is entered.
LEMMA HandledEntry ==
    ASSUME NEW s, Open(s), ~Entered(s), NEW f \in Frame, f.call \in Entries, s # <<>> => f.call \in Above
    PROVE  LET t == s \o <<f>>
           IN  Open(t) /\ Entered(t) /\ Handled(t) = <<>>
  <1> DEFINE t == s \o <<f>>
             n == Len(s)
  <1>1. /\ t \in Seq(Frame) /\ StackOK(t) /\ n \in Nat /\ Len(t) = n + 1 /\ t[Len(t)] = f
        /\ f.call \in Below => Open(t)
        /\ Entered(t)
    BY AddStack
  <1>2. f.call \in Below
    BY DEF Below
  <1> HIDE DEF t, n
  <1>3. Len(t) \in 1..Len(t) /\ t[Len(t)].call \in Entries
    BY <1>1
  <1>4. EntryOf(t) = Len(t)
    BY <1>1, <1>3, EntryIs
  <1>5. PICK e \in 1..Len(t) : EntryOf(t) = e /\ Handled(t) = [i \in 1..(Len(t) - e) |-> t[e + i].h]
                               /\ Len(Handled(t)) = Len(t) - e
    BY <1>1, <1>2, HandledOpen
  <1>6. Len(Handled(t)) = 0 /\ Handled(t) \in Seq(Handlers)
    BY <1>1, <1>2, <1>4, <1>5, HandledOpen
  <1>7. Handled(t) = <<>>
    BY <1>6
  <1> QED  BY <1>1, <1>2, <1>7 DEF t

\* What the innermost call adds to the handlers.
LEMMA TopHandled ==
    ASSUME TypeInv, NEW x \in Actor, NEW name, InCall(x, name)
    PROVE  LET s == frames[x]
               b == Front(s)
           IN  /\ s \in Seq(Frame) /\ Open(b) /\ b \in Seq(Frame)
               /\ name # "handler" => Handled(s) = Handled(b)
               /\ name = "handler" => (Entered(s) <=> Entered(b))
               /\ name = "handler" /\ Entered(b) =>
                     /\ Top(x).h \in Handlers /\ Handled(s) = Append(Handled(b), Top(x).h)
                     /\ Handled(b) \in Seq(Handlers)
               /\ ~Entered(b) => Handled(b) = <<>> /\ Handled(s) = <<>>
               /\ Entered(b) => Top(x) \in Inside
  <1> DEFINE s == frames[x]
             b == Front(s)
             f == Top(x)
  <1>1. /\ s \in Seq(Frame) /\ s # <<>> /\ StackOK(s) /\ f = s[Len(s)] /\ f \in Frame /\ f.call = name
        /\ Open(b) /\ b \in Seq(Frame) /\ (Entered(b) => f \in Inside)
        /\ name \notin Above => Len(s) = 1 /\ b = <<>>
    BY InnermostCall
  <1>2. s = b \o <<f>>
    BY <1>1, FrontParts
  <1> HIDE DEF s, b, f
  <1>3. b # <<>> => f.call \in Above
    BY <1>1
  <1>4. Entered(s) <=> Entered(b) \/ f.call \in Entries
    BY <1>1, <1>2, <1>3, AddStack
  <1>5. CASE Entered(b)
    <2>1. /\ f.call # "handler" => Handled(s) = Handled(b)
          /\ f.call = "handler" => f.h \in Handlers /\ Handled(s) = Append(Handled(b), f.h)
      BY <1>1, <1>2, <1>5, HandledMore
    <2>2. Handled(b) \in Seq(Handlers)
      BY <1>1, <1>5, HandledOpen
    <2> QED  BY <1>1, <1>4, <1>5, <2>1, <2>2 DEF s, b, f
  <1>6. CASE ~Entered(b)
    <2>1. Handled(b) = <<>>
      BY <1>1, <1>6, HandledOutside
    <2>2. Handled(s) = <<>>
      <3>1. CASE name \in Entries
        BY <1>1, <1>2, <1>3, <1>6, <3>1, HandledEntry
      <3>2. CASE name \notin Entries
        BY <1>1, <1>4, <1>6, <3>2, HandledOutside
      <3> QED  BY <3>1, <3>2
    <2>3. name = "handler" => (Entered(s) <=> Entered(b))
      BY <1>1, <1>4 DEF Entries
    <2> QED  BY <1>1, <1>6, <2>1, <2>2, <2>3 DEF s, b, f
  <1> QED  BY <1>5, <1>6

\* A library call returns, or goes on to queue something.
LEMMA LibraryHandled ==
    ASSUME TypeInv, NEW x \in Actor, NEW name, InCall(x, name), name # "handler",
           Pop(x) \/ (name # "stop" /\ \E f \in Inside : f.call # "handler" /\ Replace(x, <<f>>))
    PROVE  Handled(frames'[x]) = Handled(frames[x])
  <1> DEFINE b == Front(frames[x])
  <1>1. /\ Open(b) /\ b \in Seq(Frame) /\ Handled(frames[x]) = Handled(b) /\ (~Entered(b) => Handled(b) = <<>>)
    BY TopHandled
  <1>2. CASE Pop(x)
    BY <1>1, <1>2, Popped
  <1>3. CASE name # "stop" /\ \E f \in Inside : f.call # "handler" /\ Replace(x, <<f>>)
    <2>1. PICK f \in Inside : f.call # "handler" /\ Replace(x, <<f>>)
      BY <1>3
    <2>2. frames'[x] = b \o <<f>>
      BY <1>3, <2>1, Replaced
    <2> HIDE DEF b
    <2>3. CASE Entered(b)
      BY <1>1, <2>1, <2>2, <2>3, HandledMore
    <2>4. CASE ~Entered(b)
      <3> DEFINE t == b \o <<f>>
      <3>1. f \in Frame /\ f.call \in Above /\ f.call \notin Entries
        BY InsideIs
      <3>2. t \in Seq(Frame) /\ (Entered(t) <=> Entered(b) \/ f.call \in Entries)
        BY <1>1, <2>4, <3>1, AddStack
      <3> HIDE DEF t
      <3>3. Handled(t) = <<>>
        BY <2>4, <3>1, <3>2, HandledOutside
      <3> QED  BY <1>1, <2>2, <2>4, <3>3 DEF t
    <2> QED  BY <2>3, <2>4
  <1> QED  BY <1>2, <1>3

\* User code makes a call.
LEMMA UserHandled ==
    ASSUME TypeInv, NEW x \in Actor, NEW kind, Calls(x, kind),
           NEW new, Advance(x, new), Called(frames[x], new), Len(new) = 2 => x \in Thread
    PROVE  /\ new = <<>> => Handled(frames'[x]) = Handled(frames[x])
           /\ \A f \in Inside : new = <<f>> /\ f.call # "handler" => Handled(frames'[x]) = Handled(frames[x])
           /\ \A f \in Inside : new = <<f>> /\ f.call = "handler" /\ Entered(frames[x]) =>
                 Handled(frames'[x]) = Append(Handled(frames[x]), f.h)
           /\ \A h \in Handlers : new = <<[call |-> "dispatched"], Handler(h)>> /\ ~Entered(frames[x]) =>
                 Handled(frames'[x]) = <<h>> /\ Handled(frames[x]) = <<>>
  <1> DEFINE s == frames[x]
             b == Front(s)
             g == [Top(x) EXCEPT !.todo = Tail(@)]
             a == b \o <<g>>
  <1>1. /\ InCall(x, "handler") /\ g \in Frame /\ g.call = "handler" /\ g.h = Top(x).h
        /\ Top(x) \in Inside => g \in Inside
    BY UserFrame
  <1>2. /\ frames'[x] = a \o new /\ a \in Seq(Frame) /\ (Entered(a) <=> Entered(s))
    BY UserMoves
  <1>3. /\ s \in Seq(Frame) /\ Open(b) /\ (Entered(s) <=> Entered(b))
        /\ Entered(b) => /\ Handled(s) = Append(Handled(b), Top(x).h) /\ Top(x) \in Inside
        /\ ~Entered(b) => Handled(s) = <<>>
    BY <1>1, TopHandled
  <1> HIDE DEF s, b, g
  <1>4. "handler" \in Above /\ "handler" \in Below
    BY DEF Above, Below
  <1>5. Open(a) /\ a # <<>>
    BY <1>1, <1>3, <1>4, AddStack
  <1>6. Handled(a) = Handled(s)
    <2>1. CASE Entered(b)
      BY <1>1, <1>3, <2>1, HandledMore
    <2>2. CASE ~Entered(b)
      BY <1>2, <1>3, <2>2, HandledOutside
    <2> QED  BY <2>1, <2>2
  <1> HIDE DEF a
  <1>7. ASSUME new = <<>> PROVE Handled(a \o new) = Handled(s)
    BY <1>2, <1>6, <1>7
  <1>8. ASSUME NEW f \in Inside, new = <<f>>, f.call # "handler" PROVE Handled(a \o new) = Handled(s)
    <2>1. CASE Entered(a)
      BY <1>5, <1>6, <1>8, <2>1, HandledMore
    <2>2. CASE ~Entered(a)
      <3> DEFINE t == a \o <<f>>
      <3>1. f \in Frame /\ f.call \in Above /\ f.call \notin Entries
        BY InsideIs
      <3>2. t \in Seq(Frame) /\ (Entered(t) <=> Entered(a) \/ f.call \in Entries)
        BY <1>5, <2>2, <3>1, AddStack
      <3>3. Handled(t) = <<>> /\ Handled(a) = <<>>
        <4> HIDE DEF t
        <4> QED  BY <1>2, <2>2, <3>1, <3>2, HandledOutside
      <3> QED  BY <1>6, <1>8, <3>3
    <2> QED  BY <2>1, <2>2
  <1>9. ASSUME NEW f \in Inside, new = <<f>>, f.call = "handler", Entered(s)
        PROVE  Handled(a \o new) = Append(Handled(s), f.h)
    <2>1. Handled(a \o <<f>>) = Append(Handled(a), f.h)
      BY <1>2, <1>5, <1>9, HandledMore
    <2> QED  BY <1>6, <1>9, <2>1
  <1>10. ASSUME NEW h \in Handlers, new = <<[call |-> "dispatched"], Handler(h)>>, ~Entered(s)
         PROVE  Handled(a \o new) = <<h>> /\ Handled(s) = <<>>
    <2> DEFINE d == [call |-> "dispatched"]
               f == Handler(h)
               t == a \o <<d>>
    <2>1. d \in Frame /\ d.call \in Entries /\ d.call \in Above
      BY FramesAre DEF Entries, Above
    <2>2. f \in Frame /\ f \in Inside /\ f.call = "handler" /\ f.h = h
      BY OpsAre, FramesAre DEF Inside
    <2>3. new = <<d, f>>
      BY <1>10
    <2> HIDE DEF d, f
    <2>4. a \o new = t \o <<f>>
      <3>1. a \in Seq(Frame) /\ d \in Frame /\ f \in Frame
        BY <1>2, <2>1, <2>2
      <3>2. a \o <<d, f>> = (a \o <<d>>) \o <<f>>
        BY <3>1, TwoMore
      <3> HIDE DEF t
      <3> QED  BY <2>3, <3>2, Zenon DEF t
    <2>5. Open(t) /\ Entered(t) /\ Handled(t) = <<>>
      BY <1>2, <1>5, <1>10, <2>1, HandledEntry
    <2> HIDE DEF t
    <2>6. Handled(t \o <<f>>) = Append(Handled(t), f.h)
      BY <2>2, <2>5, HandledMore
    <2>7. Append(<<>>, h) = <<h>>
      BY AppendToNone
    <2>8. Handled(a \o new) = <<h>>
      BY <2>2, <2>4, <2>5, <2>6, <2>7
    <2> QED  BY <1>3, <1>10, <2>8
  <1> QED  BY <1>2, <1>7, <1>8, <1>9, <1>10 DEF s

\* An operation has just been taken from the queue.
LEMMA OneHandled ==
    ASSUME NEW f \in Frame
    PROVE  Handled(<<f>>) = <<>> /\ Handled(<<>>) = <<>>
  <1>1. <<f>> \in Seq(Frame) /\ (Entered(<<f>>) <=> f.call \in Entries) /\ <<>> \in Seq(Frame)
    BY OneFrame
  <1>2. Handled(<<>>) = <<>>
    BY <1>1, EmptyStack, HandledOutside
  <1>3. CASE f.call \in Entries
    <2> DEFINE e == <<>>
    <2>1. Open(e) /\ ~Entered(e) /\ e = <<>>
      BY EmptyStack
    <2>2. e \o <<f>> = <<f>>
      BY <1>1, ConcatEmptySeq
    <2> HIDE DEF e
    <2>3. Handled(e \o <<f>>) = <<>>
      BY <1>3, <2>1, HandledEntry
    <2> QED  BY <1>2, <2>2, <2>3
  <1>4. CASE f.call \notin Entries
    BY <1>1, <1>2, <1>4, HandledOutside
  <1> QED  BY <1>3, <1>4


\* The two variables of the abstract strand.
Given == strand.ready \o strand.waiting
Running == [x \in Actor |-> Handled(frames[x])]

LEMMA RunningMoves ==
    ASSUME NEW x \in Actor, \A y \in Actor : y # x => frames'[y] = frames[y]
    PROVE  /\ Running' = [Running EXCEPT ![x] = Handled(frames'[x])]
           /\ Running[x] = Handled(frames[x])
           /\ Handled(frames'[x]) = Handled(frames[x]) => Running' = Running
  BY DEF Running

LEMMA AbstractSteps ==
    /\ Given' = Given /\ Running' = Running => [Serialised!Next]_<<Given, Running>>
    /\ \A h \in Handlers : Given' = Append(Given, h) /\ Running' = Running => Serialised!Next
    /\ \A x \in Actor :
          /\ \A y \in Actor : Running[y] = <<>>
          /\ Given # <<>> /\ Given' = Tail(Given)
          /\ Running' = [Running EXCEPT ![x] = <<Head(Given)>>]
          => Serialised!Next
    /\ \A x \in Actor : \A h \in Handlers :
          /\ Running[x] # <<>> \/ (Given = <<>> /\ \A y \in Actor : Running[y] = <<>>)
          /\ Given' = Given /\ Running' = [Running EXCEPT ![x] = Append(@, h)]
          => Serialised!Next
    /\ \A x \in Actor :
          /\ Running[x] # <<>> /\ Given' = Given
          /\ Running' = [Running EXCEPT ![x] = SubSeq(@, 1, Len(@) - 1)]
          => Serialised!Next
  <1>1. Given = strand.ready \o strand.waiting /\ Given' = strand'.ready \o strand'.waiting
    BY DEF Given
  <1>2. /\ Running = [x \in Actor |-> StrandHandlers(x)]
        /\ Running' = [x \in Actor |-> StrandHandlers(x)']
    BY HandledIs DEF Running
  <1> HIDE DEF Given, Running
  <1> QED  BY <1>1, <1>2 DEF Serialised!Next, Serialised!Submit, Serialised!Start, Serialised!StartAtOnce,
              Serialised!Finish, Serialised!Free

\* As long as nobody has the lock, nobody is in the strand.
LEMMA NobodyIn ==
    ASSUME Inv, ~strand.locked
    PROVE  Given = <<>> /\ \A y \in Actor : Running[y] = <<>> /\ ~InStrand(y)
  <1>0. Types
    BY DEF Inv, TypeInv
  <1>1. ASSUME NEW y \in Actor PROVE ~InStrand(y) /\ Running[y] = <<>>
    <2>1. ~InStrand(y)
      BY EnteredLocked
    <2>2. frames[y] \in Seq(Frame) /\ ~Entered(frames[y])
      BY <1>0, <2>1, InStrandIs DEF Types
    <2> QED  BY <2>1, <2>2, HandledOutside DEF Running
  <1>2. strand.ready = <<>> /\ strand.waiting = <<>>
    BY DEF Inv, StrandInv
  <1> DEFINE e == <<>>
  <1>3. e \in Seq(Handlers) /\ e = <<>>
    OBVIOUS
  <1>4. e \o e = e
    <2> HIDE DEF e
    <2> QED  BY <1>3, ConcatEmptySeq
  <1> QED  BY <1>1, <1>2, <1>4 DEF Given

\* Two are never in the strand.
LEMMA OthersOut ==
    ASSUME Inv, NEW x \in Actor, InStrand(x), NEW y \in Actor, y # x
    PROVE  ~InStrand(y) /\ Running[y] = <<>>
  <1>0. Types
    BY DEF Inv, TypeInv
  <1>1. IsFiniteSet(Actor) /\ AllLocks \in [Actor -> Nat] /\ IsFiniteSet(Thread) /\ Strands \in [Thread -> Nat]
    BY <1>0, ThreadAssumption, FS_Union, SumTypes DEF Actor, SumsTyped
  <1>2. AllLocks[x] + AllLocks[y] <= Total(AllLocks) /\ Total(AllLocks) \in Nat /\ Total(Strands) \in Nat
    BY <1>1, TotalTwo, AreaIs
  <1>3. Locks = Count({"strand"}, op_queue) + Total(Strands) + Total(AllLocks) /\ Count({"strand"}, op_queue) \in Nat
    BY <1>0, OwnTypes DEF Locks, Strands, AllLocks, Lock, OwnsTyped
  <1>4. /\ AllLocks[x] = Count(Entries, frames[x]) + BeingQueued({"strand"}, x)
        /\ AllLocks[y] = Count(Entries, frames[y]) + BeingQueued({"strand"}, y)
        /\ BeingQueued({"strand"}, x) \in Nat /\ BeingQueued({"strand"}, y) \in Nat
        /\ Count(Entries, frames[y]) \in Nat
    BY <1>0, OwnTypes DEF AllLocks, Lock, OwnsTyped
  <1>5. Locks = 1 /\ Count(Entries, frames[x]) = 1
    BY EnteredLocked
  <1>6. Count(Entries, frames[y]) = 0
    <2> DEFINE a == AllLocks[x]  b == AllLocks[y]  c == Total(AllLocks)  d == Total(Strands)
               e == Count({"strand"}, op_queue)
    <2>1. a + b <= c /\ c \in Nat /\ d \in Nat /\ e \in Nat /\ e + d + c = 1
      BY <1>2, <1>3, <1>5
    <2>2. a \in Nat /\ a >= 1 /\ b \in Nat /\ b >= Count(Entries, frames[y])
      BY <1>4, <1>5
    <2> HIDE DEF a, b, c, d, e
    <2> QED  BY <1>4, <2>1, <2>2
  <1>7. frames[y] \in Seq(Frame) /\ ~InStrand(y) /\ ~Entered(frames[y])
    BY <1>0, <1>6, InStrandIs DEF Types
  <1> QED  BY <1>7, HandledOutside DEF Running


-----------------------------------------------------------------------------
\* A library call other than a nested dispatch() starts no handler.
LEMMA CallStarts ==
    ASSUME TypeInv, NEW x \in Actor, NEW kind, Calls(x, kind), NEW new, Advance(x, new),
           new = <<>> \/ \E f \in Inside : f.call # "handler" /\ new = <<f>>
    PROVE  Running' = Running
  <1>1. Called(frames[x], new)
    BY DEF Called
  <1>2. Len(new) # 2
    BY EmptySeq
  <1>3. \A y \in Actor : y # x => frames'[y] = frames[y]
    BY <1>1, <1>2, UserMoves DEF Stacked
  <1>4. Handled(frames'[x]) = Handled(frames[x])
    BY <1>1, <1>2, UserHandled
  <1> QED  BY <1>3, <1>4, RunningMoves

\* Nor does its end start or end one.
LEMMA CallEnds ==
    ASSUME TypeInv, NEW x \in Actor, NEW name, InCall(x, name), name # "handler",
           Pop(x) \/ (name # "stop" /\ \E f \in Inside : f.call # "handler" /\ Replace(x, <<f>>))
    PROVE  Running' = Running
  <1>1. \A y \in Actor : y # x => frames'[y] = frames[y]
    BY Popped, Replaced DEF Stacked
  <1>2. Handled(frames'[x]) = Handled(frames[x])
    BY LibraryHandled
  <1> QED  BY <1>1, <1>2, RunningMoves

Enqueues(q) == [call |-> "enqueue", ops |-> q]

LEMMA EnqueuesInside ==
    ASSUME NEW q \in Seq(Op)
    PROVE  /\ Enqueues(q) \in Inside /\ Enqueues(q).call # "handler"
           /\ PostDeferred(q) = <<>> \/ PostDeferred(q) = <<Enqueues(q)>>
  BY DEF Enqueues, Inside, PostDeferred

\* The service's own steps.
LEMMA ServiceQuiet ==
    ASSUME Inv, NEW x \in Actor, ServiceStep(x)
    PROVE  Running' = Running
  <1>0. TypeInv
    BY DEF Inv
  <1>1. CASE SignalOne(x)
    BY <1>1 DEF SignalOne, Running
  <1>2. CASE StopAllThreads(x)
    <2>1. CASE InCall(x, "stop")
      <3>1. Pop(x)
        BY <1>2, <2>1 DEF StopAllThreads, InCall
      <3> QED  BY <1>0, <2>1, <3>1, CallEnds
    <2>2. CASE Calls(x, "stop")
      <3>1. Advance(x, <<>>)
        BY <1>2, <2>2 DEF StopAllThreads, Calls, InCall
      <3> QED  BY <1>0, <2>2, <3>1, CallStarts
    <2> QED  BY <1>2, <2>1, <2>2 DEF StopAllThreads
  <1>3. CASE IoPost(x)
    <2> DEFINE q == <<Handler(Arg(x).h)>>
               new == <<Enqueues(q)>>
    <2>1. Calls(x, "io_post") /\ Advance(x, new)
      BY <1>3 DEF IoPost, Enqueues
    <2>2. Arg(x).h \in Handlers
      BY <1>0, <2>1, UserFrame
    <2>3. q \in Seq(Op)
      BY <2>2, OpsAre
    <2> HIDE DEF q
    <2>4. Enqueues(q) \in Inside /\ Enqueues(q).call # "handler"
      BY <2>3, EnqueuesInside
    <2> QED  BY <1>0, <2>1, <2>4, CallStarts
  <1>4. CASE Enqueue(x)
    BY <1>0, <1>4, CallEnds DEF Enqueue
  <1> QED  BY <1>1, <1>2, <1>3, <1>4 DEF ServiceStep

\* A thread in run() takes an operation, or is to stop the others: neither is
\* a handler of the strand yet.
LEMMA RunQuiet ==
    ASSUME Inv, NEW t \in Thread, RunLoop(t)
    PROVE  Running' = Running
  <1>0. TypeInv /\ Types /\ t \in Actor
    BY DEF Inv, TypeInv, Actor
  <1>1. ASSUME NEW f \in Frame, frames[t] = <<>>, Push(t, <<f>>) PROVE Running' = Running
    <2>1. /\ <<f>> \in Seq(Frame) /\ StackOK(<<f>>)
      BY OneFrame
    <2>2. Stacked(t) /\ frames'[t] = <<f>>
      BY <1>0, <1>1, <2>1, Restarted
    <2>3. Handled(<<f>>) = <<>> /\ Handled(<<>>) = <<>>
      BY OneHandled
    <2>4. Handled(frames'[t]) = Handled(frames[t])
      BY <1>1, <2>2, <2>3
    <2> QED  BY <1>0, <2>2, <2>4, RunningMoves DEF Stacked
  <1>2. [call |-> "stop"] \in Frame
    BY FramesAre
  <1>3. CASE UNCHANGED frames
    BY <1>3 DEF Running
  <1>4. CASE RunBegins(t)
    <2>1. frames[t] = <<>>
      BY <1>0, <1>4 DEF RunBegins, At, TypeInv, ThreadInv
    <2>2. UNCHANGED frames \/ Push(t, <<[call |-> "stop"]>>)
      BY <1>4 DEF RunBegins
    <2> QED  BY <1>1, <1>2, <1>3, <2>1, <2>2
  <1>5. CASE WorkCleanup(t)
    <2>1. frames[t] = <<>> /\ (UNCHANGED frames \/ Push(t, <<[call |-> "stop"]>>))
      BY <1>5 DEF WorkCleanup
    <2> QED  BY <1>1, <1>2, <1>3, <2>1
  <1>6. CASE TakeOp(t)
    <2>1. frames[t] = <<>> /\ op_queue # <<>> /\ Push(t, <<Head(op_queue)>>)
      BY <1>6 DEF TakeOp, MayLock
    <2>2. Head(op_queue) \in Op
      BY <1>0, <2>1, HeadTailParts DEF Types
    <2>3. Head(op_queue) \in Frame
      BY <2>2 DEF Frame
    <2> QED  BY <1>1, <2>1, <2>3
  <1>7. CASE RunReturns(t) \/ TakeTask(t) \/ Idle(t) \/ Wakes(t) \/ TaskCleanup(t) \/ FlushPrivate(t)
    BY <1>3, <1>7 DEF RunReturns, TakeTask, Idle, Wakes, TaskCleanup, FlushPrivate
  <1> QED  BY <1>4, <1>5, <1>6, <1>7 DEF RunLoop

\* The reactor's steps.
LEMMA ReactorQuiet ==
    ASSUME Inv, NEW x \in Actor, ReactorStep(x)
    PROVE  Running' = Running /\ Given' = Given
  <1>0. TypeInv /\ Types
    BY DEF Inv, TypeInv
  <1>1. strand' = strand
    <2>1. CASE StartOp(x)
      BY <2>1 DEF StartOp
    <2>2. CASE Await(x)
      BY <2>2 DEF Await
    <2>3. CASE Close(x)
      BY <2>3 DEF Close
    <2>4. CASE PerformIo(x)
      BY <2>4 DEF PerformIo
    <2> QED  BY <2>1, <2>2, <2>3, <2>4 DEF ReactorStep
  <1>2. Given' = Given
    BY <1>1 DEF Given
  <1>3. ASSUME StartOp(x) PROVE Running' = Running
    <2> DEFINE h == Arg(x).h
               k == Arg(x).k
               q == <<Wrapped(h)>>
               a == [call |-> "await", k |-> k, h |-> h]
    <2>1. Calls(x, "async")
      BY <1>3 DEF StartOp
    <2>2. h \in Handlers /\ k \in Kind
      BY <1>0, <2>1, UserFrame
    <2>3. q \in Seq(Op)
      BY <2>2, OpsAre
    <2>4. Advance(x, <<>>) \/ Advance(x, <<Enqueues(q)>>) \/ Advance(x, <<a>>)
      <3>1. CompletesAtOnce(x, h) \/ Advance(x, <<a>>)
        BY <1>3 DEF StartOp
      <3> QED  BY <3>1 DEF CompletesAtOnce, Enqueues
    <2>5. a \in Inside /\ a.call # "handler"
      BY <2>2 DEF Inside
    <2> HIDE DEF q, a
    <2>6. Enqueues(q) \in Inside /\ Enqueues(q).call # "handler"
      BY <2>3, EnqueuesInside
    <2> QED  BY <1>0, <2>1, <2>4, <2>5, <2>6, CallStarts
  <1>4. ASSUME Await(x) PROVE Running' = Running
    BY <1>0, <1>4, CallEnds DEF Await
  <1>5. ASSUME Close(x) PROVE Running' = Running
    <2> DEFINE hs == queued["read"] \o queued["write"]
               q == WrappedOps(hs)
               new == PostDeferred(q)
    <2>1. Calls(x, "close") /\ Advance(x, new)
      BY <1>5 DEF Close
    <2>2. hs \in Seq(Handlers)
      BY <1>0, ConcatProperties DEF Types, Kind
    <2> HIDE DEF hs
    <2>3. q \in Seq(Op)
      BY <2>2, WrappedAre
    <2> HIDE DEF q
    <2>4. Enqueues(q) \in Inside /\ Enqueues(q).call # "handler" /\ (new = <<>> \/ new = <<Enqueues(q)>>)
      BY <2>3, EnqueuesInside
    <2> HIDE DEF new
    <2> QED  BY <1>0, <2>1, <2>4, CallStarts
  <1>6. ASSUME PerformIo(x) PROVE Running' = Running
    <2>1. Inv' /\ Elsewhere(x) /\ Count(Entries, frames[x]) = 0 /\ Count(Entries, frames'[x]) = 0
      BY <1>6, PerformIoKeeps
    <2>2. frames[x] \in Seq(Frame) /\ frames'[x] \in Seq(Frame)
      BY <1>0, <2>1 DEF Inv, TypeInv, Types
    <2>3. \A s \in Seq(Frame) : Count(Entries, s) = 0 => Handled(s) = <<>>
      <3> TAKE s \in Seq(Frame)
      <3> HAVE Count(Entries, s) = 0
      <3>1. \A i \in 1..Len(s) : s[i].call \notin Entries
        BY CountType
      <3> QED  BY <3>1, HandledOutside DEF Entered
    <2>4. Handled(frames[x]) = <<>> /\ Handled(frames'[x]) = <<>>
      BY <2>1, <2>2, <2>3
    <2> QED  BY <2>1, <2>4, RunningMoves DEF Elsewhere
  <1> QED  BY <1>2, <1>3, <1>4, <1>5, <1>6 DEF ReactorStep


\* post(), or dispatch() that has to wait.
LEMMA Submits ==
    ASSUME Inv, NEW h \in Handlers, Waits(h) \/ (~strand.locked /\ Takes(h))
    PROVE  Given' = Append(Given, h)
  <1> DEFINE r == strand.ready
             w == strand.waiting
  <1>1. r \in Seq(Handlers) /\ w \in Seq(Handlers) /\ strand \in StrandTypes
    BY StrandTyped DEF Inv
  <1>2. CASE Waits(h)
    <2>1. strand'.ready = r /\ strand'.waiting = Append(w, h)
      BY <1>1, <1>2 DEF Waits, StrandTypes
    <2> HIDE DEF r, w
    <2>2. r \o Append(w, h) = Append(r \o w, h)
      BY <1>1, AppendConcat
    <2> QED  BY <2>1, <2>2 DEF Given, r, w
  <1>3. CASE ~strand.locked /\ Takes(h)
    <2>1. w = <<>> /\ strand'.ready = Append(r, h) /\ strand'.waiting = w
      BY <1>1, <1>3 DEF Takes, StrandTypes, Inv, StrandInv
    <2> DEFINE a == Append(r, h)
    <2>2. a \in Seq(Handlers)
      BY <1>1, AppendProperties
    <2> HIDE DEF r, w, a
    <2>3. a \o w = a /\ r \o w = r
      BY <1>1, <2>1, <2>2, ConcatEmptySeq
    <2> QED  BY <2>1, <2>3 DEF Given, r, w, a
  <1> QED  BY <1>2, <1>3

\* dispatch() on a thread of the io_service while the strand is free.
LEMMA Enters ==
    ASSUME Inv, strand' = [strand EXCEPT !.locked = TRUE]
    PROVE  Given' = Given
  <1>1. strand \in StrandTypes
    BY DEF Inv, TypeInv, Types, StrandTypes
  <1>2. strand'.ready = strand.ready /\ strand'.waiting = strand.waiting
    BY <1>1 DEF StrandTypes
  <1> QED  BY <1>2 DEF Given

LEMMA PostStep ==
    ASSUME Inv, NEW x \in Actor, Post(x)
    PROVE  Serialised!Next
  <1> DEFINE h == Arg(x).h
  <1>0. TypeInv
    BY DEF Inv
  <1>1. /\ Calls(x, "post")
        /\ \/ strand.locked /\ Waits(h) /\ Advance(x, <<>>)
           \/ ~strand.locked /\ Takes(h) /\ Advance(x, Posts)
    BY DEF Post
  <1>2. h \in Handlers
    BY <1>0, <1>1, UserFrame
  <1> HIDE DEF h
  <1>3. Given' = Append(Given, h)
    BY <1>1, <1>2, Submits
  <1>4. Posts = <<Enqueues(<<StrandOp>>)>> /\ Enqueues(<<StrandOp>>) \in Inside /\ Enqueues(<<StrandOp>>).call # "handler"
    BY StrandOpIs, EnqueuesInside DEF Enqueues
  <1>5. Running' = Running
    BY <1>0, <1>1, <1>4, CallStarts
  <1> QED  BY <1>2, <1>3, <1>5, AbstractSteps

LEMMA DispatchStep ==
    ASSUME Inv, NEW x \in Actor, Dispatch(x)
    PROVE  Serialised!Next
  <1>0. TypeInv /\ Types
    BY DEF Inv, TypeInv
  <1>1. InStrand(x) <=> Entered(frames[x])
    BY <1>0, InStrandIs
  <1>2. Posts = <<Enqueues(<<StrandOp>>)>> /\ Enqueues(<<StrandOp>>) \in Inside /\ Enqueues(<<StrandOp>>).call # "handler"
    BY StrandOpIs, EnqueuesInside DEF Enqueues
  <1>3. ASSUME NEW h \in Handlers, ~strand.locked, strand' = [strand EXCEPT !.locked = TRUE],
               \A y \in Actor : y # x => frames'[y] = frames[y],
               Handled(frames'[x]) = <<h>>
        PROVE  Serialised!Next
    <2>1. Given' = Given /\ Given = <<>> /\ \A y \in Actor : Running[y] = <<>>
      BY <1>3, Enters, NobodyIn
    <2>2. Running' = [Running EXCEPT ![x] = <<h>>]
      BY <1>3, RunningMoves
    <2>3. Append(Running[x], h) = <<h>>
      BY <1>3, <2>1, AppendToNone
    <2>4. Running' = [Running EXCEPT ![x] = Append(@, h)]
      BY <2>2, <2>3
    <2> QED  BY <1>3, <2>1, <2>4, AbstractSteps
  <1>6. CASE Calls(x, "dispatch") /\ DispatchTo(x, Arg(x).h) /\ Advance(x, Dispatched(x, Arg(x).h))
    <2> DEFINE h == Arg(x).h
    <2>1. h \in Handlers
      BY <1>0, <1>6, UserFrame
    <2>2. DispatchTo(x, h) /\ Advance(x, Dispatched(x, h)) /\ Calls(x, "dispatch")
      BY <1>6
    <2> HIDE DEF h
    <2>3. CASE InStrand(x) /\ Dispatched(x, h) = <<Handler(h)>> /\ UNCHANGED <<strand, outstanding_work>>
      <3> DEFINE f == Handler(h)
                 new == <<f>>
      <3>1. f \in Inside /\ f.call = "handler" /\ f.h = h
        BY <2>1, OpsAre, FramesAre DEF Inside
      <3>2. Called(frames[x], new) /\ Len(new) # 2 /\ new = <<f>> /\ Advance(x, new)
        BY <2>2, <2>3, <3>1 DEF Called
      <3> HIDE DEF f, new
      <3>3. \A y \in Actor : y # x => frames'[y] = frames[y]
        BY <1>0, <2>2, <3>2, UserMoves DEF Stacked
      <3>4. Handled(frames'[x]) = Append(Handled(frames[x]), h)
        BY <1>0, <1>1, <2>2, <2>3, <3>1, <3>2, UserHandled
      <3>5. Running[x] # <<>>
        <4>1. InCall(x, "handler")
          BY <2>2 DEF Calls
        <4>2. Entered(Front(frames[x]))
          BY <1>0, <1>1, <2>3, <4>1, TopHandled
        <4>3. /\ Handled(frames[x]) = Append(Handled(Front(frames[x])), Top(x).h)
              /\ Handled(Front(frames[x])) \in Seq(Handlers) /\ Top(x).h \in Handlers
          BY <1>0, <4>1, <4>2, TopHandled
        <4>4. Handled(frames[x]) # <<>>
          BY <4>3, AppendProperties
        <4> QED  BY <4>4, RunningMoves, <3>3
      <3>6. Running' = [Running EXCEPT ![x] = Append(@, h)] /\ Given' = Given
        BY <2>3, <3>3, <3>4, RunningMoves DEF Given
      <3> QED  BY <2>1, <3>5, <3>6, AbstractSteps
    <2>4. CASE /\ ~InStrand(x) /\ ~strand.locked /\ x \in Thread
               /\ Dispatched(x, h) = <<[call |-> "dispatched"], Handler(h)>>
               /\ strand' = [strand EXCEPT !.locked = TRUE] /\ UNCHANGED outstanding_work
      <3> DEFINE new == <<[call |-> "dispatched"], Handler(h)>>
      <3>1. Called(frames[x], new) /\ Advance(x, new) /\ new = <<[call |-> "dispatched"], Handler(h)>>
        BY <1>1, <2>1, <2>2, <2>4 DEF Called
      <3> HIDE DEF new
      <3>2. \A y \in Actor : y # x => frames'[y] = frames[y]
        BY <1>0, <2>2, <2>4, <3>1, UserMoves DEF Stacked
      <3>3. Handled(frames'[x]) = <<h>>
        BY <1>0, <1>1, <2>1, <2>2, <2>4, <3>1, UserHandled
      <3> QED  BY <1>3, <2>1, <2>4, <3>2, <3>3
    <2>5. CASE ~InStrand(x) /\ ~strand.locked /\ x \notin Thread /\ Dispatched(x, h) = Posts /\ Takes(h)
      <3>1. Running' = Running
        BY <1>0, <1>2, <2>2, <2>5, CallStarts
      <3> QED  BY <2>1, <2>5, <3>1, Submits, AbstractSteps
    <2>6. CASE ~InStrand(x) /\ strand.locked /\ Dispatched(x, h) = <<>> /\ Waits(h)
      <3>1. Running' = Running
        BY <1>0, <2>2, <2>6, CallStarts
      <3> QED  BY <2>1, <2>6, <3>1, Submits, AbstractSteps
    <2> QED  BY <2>2, <2>3, <2>4, <2>5, <2>6, DispatchCases
  <1>7. CASE InCall(x, "wrapped") /\ DispatchTo(x, Top(x).h) /\ Replace(x, Dispatched(x, Top(x).h))
    <2> DEFINE h == Top(x).h
    <2>0. "wrapped" \notin Above /\ "wrapped" \notin Entries
      BY DEF Above, Entries
    <2>1. /\ Top(x) \in Frame /\ Top(x).call = "wrapped" /\ Front(frames[x]) = <<>>
          /\ Count(Entries, frames[x]) = Count(Entries, Front(frames[x])) + (IF "wrapped" \in Entries THEN 1 ELSE 0)
          /\ x \in Outside => "wrapped" \in {"handler", "enqueue", "await"}
      BY <1>0, <1>7, <2>0, InnermostCall
    <2>2. h \in Handlers /\ x \in Thread
      BY <2>1, FrameIs DEF Actor
    <2>3. ~InStrand(x) /\ ~Entered(frames[x]) /\ Handled(frames[x]) = <<>>
      <3>1. Count(Entries, frames[x]) = 0
        BY <2>0, <2>1, CountEmpty
      <3>2. ~InStrand(x) /\ ~Entered(frames[x]) /\ frames[x] \in Seq(Frame)
        BY <1>0, <3>1, InStrandIs DEF Types
      <3> QED  BY <3>2, HandledOutside
    <2>4. DispatchTo(x, h) /\ Replace(x, Dispatched(x, h)) /\ InCall(x, "wrapped")
      BY <1>7
    <2> HIDE DEF h
    <2>5. CASE /\ ~strand.locked
               /\ Dispatched(x, h) = <<[call |-> "dispatched"], Handler(h)>>
               /\ strand' = [strand EXCEPT !.locked = TRUE]
      <3> DEFINE d == [call |-> "dispatched"]
                 f == Handler(h)
                 t == <<d, f>>
                 o == <<d>>
      <3>1. t \in Seq(Frame) /\ StackOK(t) /\ Replace(x, t)
        BY <2>2, <2>4, <2>5, EnteredStack
      <3>2. d \in Frame /\ d.call \in Entries /\ d.call \in Below
        BY FramesAre DEF Entries, Below
      <3>3. f \in Frame /\ f \in Inside /\ f.call = "handler" /\ f.h = h
        BY <2>2, OpsAre, FramesAre DEF Inside
      <3> HIDE DEF d, f
      <3>4. Open(o) /\ Entered(o) /\ Handled(o) = <<>> /\ o \in Seq(Frame)
        BY <3>2, OneFrame, OneHandled
      <3>5. t = o \o <<f>>
        <4>1. Append(<<d>>, f) = <<d, f>>
          BY <3>2, <3>3, AppendToOne
        <4>2. Append(o, f) = o \o <<f>>
          <5> HIDE DEF o
          <5> QED  BY <3>3, <3>4, AppendIsConcat
        <4> QED  BY <4>1, <4>2, Zenon
      <3> HIDE DEF o, t
      <3>6. Handled(t) = Append(Handled(o), f.h)
        BY <3>3, <3>4, <3>5, HandledMore
      <3>7. Handled(t) = <<h>>
        BY <2>2, <3>3, <3>4, <3>6, AppendToNone
      <3>8. Stacked(x) /\ frames'[x] = t
        BY <1>0, <2>1, <2>2, <3>1, Restarted
      <3> QED  BY <1>3, <2>2, <2>5, <3>7, <3>8 DEF Stacked
    <2>6. CASE strand.locked /\ Dispatched(x, h) = <<>> /\ Waits(h)
      <3> DEFINE t == <<>>
      <3>1. t \in Seq(Frame) /\ StackOK(t) /\ Replace(x, t) /\ t = <<>>
        BY <2>4, <2>6, EmptyStack DEF Open
      <3> HIDE DEF t
      <3>2. Stacked(x) /\ frames'[x] = <<>>
        BY <1>0, <2>1, <2>2, <3>1, Restarted
      <3>3. Handled(<<>>) = <<>>
        BY <2>1, OneHandled
      <3>4. Running' = Running
        BY <2>3, <3>2, <3>3, RunningMoves DEF Stacked
      <3> QED  BY <2>2, <2>6, <3>4, Submits, AbstractSteps
    <2> QED  BY <2>2, <2>3, <2>4, <2>5, <2>6, DispatchCases
  <1> QED  BY <1>6, <1>7 DEF Dispatch


\* do_complete() takes the oldest of the handlers.
LEMMA StrandRunsStep ==
    ASSUME Inv, NEW x \in Actor, StrandRuns(x), UNCHANGED descVars
    PROVE  Serialised!Next
  <1> DEFINE s == frames[x]
             r == strand.ready
             w == strand.waiting
             h == Head(r)
             f == Handler(h)
  <1>0. TypeInv /\ Types
    BY DEF Inv, TypeInv
  <1>1. /\ InCall(x, "strand") /\ r # <<>> /\ frames' = [frames EXCEPT ![x] = s \o <<f>>]
        /\ strand' = [strand EXCEPT !.ready = Tail(@)]
    BY DEF StrandRuns, Push
  <1>2. r \in Seq(Handlers) /\ w \in Seq(Handlers) /\ strand'.ready = Tail(r) /\ strand'.waiting = w
    BY <1>0, <1>1 DEF Types
  <1>3. h \in Handlers
    BY <1>1, <1>2, HeadTailParts
  <1>4. r \o w # <<>> /\ Head(r \o w) = h /\ Tail(r \o w) = Tail(r) \o w
    BY <1>1, <1>2, HeadTailConcat
  <1>5. Given # <<>> /\ Head(Given) = h /\ Given' = Tail(Given)
    BY <1>2, <1>4 DEF Given
  <1>6. "strand" \notin Above /\ "strand" \in Entries /\ "strand" \in Below
    BY DEF Above, Entries, Below
  <1>7. s \in Seq(Frame) /\ StackOK(s) /\ Len(s) = 1 /\ s[Len(s)].call = "strand" /\ Front(s) = <<>>
    BY <1>0, <1>1, <1>6, InnermostCall
  <1>8. Open(s) /\ Entered(s) /\ InStrand(x)
    BY <1>0, <1>1, <1>6, <1>7, InCallEntered DEF Open, Entered
  <1>9. Handled(s) = <<>>
    BY <1>0, <1>1, <1>7, EmptyStack, TopHandled
  <1>10. f \in Inside /\ f.call = "handler" /\ f.h = h
    BY <1>3, OpsAre, FramesAre DEF Inside
  <1>11. frames'[x] = s \o <<f>> /\ \A y \in Actor : y # x => frames'[y] = frames[y]
    BY <1>0, <1>1 DEF Types
  <1> HIDE DEF f, s
  <1>12. Handled(frames'[x]) = <<h>>
    <2>1. Handled(s \o <<f>>) = Append(Handled(s), f.h)
      BY <1>8, <1>10, HandledMore
    <2> QED  BY <1>3, <1>9, <1>10, <1>11, <2>1, AppendToNone
  <1>13. Running' = [Running EXCEPT ![x] = <<h>>] /\ Running[x] = <<>>
    BY <1>9, <1>11, <1>12, RunningMoves DEF s
  <1>14. \A y \in Actor : Running[y] = <<>>
    BY <1>8, <1>13, OthersOut
  <1>15. Running' = [Running EXCEPT ![x] = <<Head(Given)>>]
    BY <1>5, <1>13
  <1> QED  BY <1>5, <1>14, <1>15, AbstractSteps

\* Leaving the strand keeps what is left in its order.
LEMMA ExitQuiet ==
    ASSUME Inv, NEW x \in Actor, StrandExit(x) \/ DispatchExit(x)
    PROVE  Running' = Running /\ Given' = Given
  <1>0. TypeInv
    BY DEF Inv
  <1>1. HandsOver
    BY DEF StrandExit, DispatchExit
  <1>2. Given' = Given
    <2> DEFINE q == strand.ready \o strand.waiting
    <2>1. q \in Seq(Handlers) /\ strand'.ready = q /\ strand'.waiting = <<>>
      BY <1>0, <1>1, HandedOver
    <2> HIDE DEF q
    <2>2. q \o <<>> = q
      BY <2>1, ConcatEmptySeq
    <2> QED  BY <2>1, <2>2 DEF Given, q
  <1>3. Posts = <<Enqueues(<<StrandOp>>)>> /\ Enqueues(<<StrandOp>>) \in Inside /\ Enqueues(<<StrandOp>>).call # "handler"
    BY StrandOpIs, EnqueuesInside DEF Enqueues
  <1>4. ASSUME StrandExit(x) PROVE Running' = Running
    BY <1>0, <1>4, CallEnds DEF StrandExit
  <1>5. ASSUME DispatchExit(x) PROVE Running' = Running
    <2>1. InCall(x, "dispatched") /\ (Pop(x) \/ Replace(x, Posts))
      BY <1>5 DEF DispatchExit
    <2> QED  BY <1>0, <1>3, <2>1, CallEnds
  <1> QED  BY <1>2, <1>4, <1>5

LEMMA FrontAppended ==
    ASSUME NEW S, NEW q \in Seq(S), NEW h \in S
    PROVE  SubSeq(Append(q, h), 1, Len(Append(q, h)) - 1) = q
  <1> DEFINE a == Append(q, h)
             f == Front(a)
  <1>1. a \in Seq(S) /\ a # <<>> /\ Len(a) = Len(q) + 1 /\ \A i \in 1..Len(q) : a[i] = q[i]
    BY AppendProperties
  <1> HIDE DEF a
  <1>2. f \in Seq(S) /\ Len(f) = Len(a) - 1 /\ \A i \in 1..(Len(a) - 1) : f[i] = a[i]
    BY <1>1, FrontParts
  <1> HIDE DEF f
  <1>3. Len(q) \in Nat /\ Len(a) - 1 = Len(q)
    BY <1>1
  <1>4. f = q
    BY <1>1, <1>2, <1>3, SeqEqual
  <1> QED  BY <1>4 DEF f, a, Front

\* User code returns: a handler of the strand ends, or something else does.
LEMMA ReturnStep ==
    ASSUME Inv, NEW x \in Actor, Return(x)
    PROVE  [Serialised!Next]_<<Given, Running>>
  <1> DEFINE b == Front(frames[x])
             q == Handled(b)
             h == Top(x).h
  <1>0. TypeInv
    BY DEF Inv
  <1>1. InCall(x, "handler") /\ Pop(x) /\ strand' = strand
    BY DEF Return
  <1>2. Given' = Given
    BY <1>1 DEF Given
  <1>3. frames'[x] = b /\ \A y \in Actor : y # x => frames'[y] = frames[y]
    BY <1>0, <1>1, Popped DEF Stacked
  <1>4. Running' = [Running EXCEPT ![x] = q] /\ Running[x] = Handled(frames[x])
    BY <1>3, RunningMoves
  <1>5. CASE Entered(b)
    <2>1. Running[x] = Append(q, h) /\ q \in Seq(Handlers) /\ h \in Handlers
      BY <1>0, <1>1, <1>4, <1>5, TopHandled
    <2> HIDE DEF q, h
    <2>2. Append(q, h) # <<>> /\ SubSeq(Append(q, h), 1, Len(Append(q, h)) - 1) = q
      BY <2>1, AppendProperties, FrontAppended
    <2>3. Running' = [Running EXCEPT ![x] = SubSeq(@, 1, Len(@) - 1)]
      BY <1>4, <2>1, <2>2
    <2> QED  BY <1>2, <2>1, <2>2, <2>3, AbstractSteps
  <1>6. CASE ~Entered(b)
    <2>1. Handled(frames[x]) = <<>> /\ q = <<>>
      BY <1>0, <1>1, <1>6, TopHandled
    <2>2. Running' = Running
      BY <1>3, <2>1, RunningMoves
    <2> QED  BY <1>2, <2>2, AbstractSteps
  <1> QED  BY <1>5, <1>6

LEMMA StartThreadQuiet ==
    ASSUME Inv, NEW x \in Actor, StartThread(x)
    PROVE  Running' = Running /\ Given' = Given
  <1>1. Calls(x, "thread") /\ Advance(x, <<>>) /\ strand' = strand
    BY DEF StartThread
  <1> QED  BY <1>1, CallStarts DEF Inv, Given

\* Every step is one of the abstract strand, or does not concern it.
LEMMA StrandSteps ==
    ASSUME Inv, [Next]_vars
    PROVE  [Serialised!Next]_<<Given, Running>>
  <1>0. Given' = Given /\ Running' = Running => [Serialised!Next]_<<Given, Running>>
    BY AbstractSteps
  <1>1. ASSUME strand' = strand, Running' = Running PROVE [Serialised!Next]_<<Given, Running>>
    BY <1>0, <1>1 DEF Given
  <1>2. ASSUME UNCHANGED <<strand, frames>> PROVE [Serialised!Next]_<<Given, Running>>
    BY <1>1, <1>2 DEF Running
  <1>3. CASE UNCHANGED vars
    BY <1>2, <1>3 DEF vars, ioVars
  <1>4. CASE KernelStep
    BY <1>2, <1>4 DEF KernelStep, Arrives, ioVars
  <1>5. ASSUME NEW x \in Actor, Step(x) PROVE [Serialised!Next]_<<Given, Running>>
    <2>1. CASE ServiceStep(x) /\ UNCHANGED <<strand, descVars>>
      BY <1>1, <2>1, ServiceQuiet
    <2>2. CASE x \in Thread /\ RunLoop(x) /\ UNCHANGED <<strand, descVars>>
      BY <1>1, <2>2, RunQuiet
    <2>3. CASE StrandStep(x) /\ UNCHANGED descVars
      BY <1>0, <2>3, PostStep, DispatchStep, StrandRunsStep, ExitQuiet DEF StrandStep
    <2>4. CASE UserStep(x)
      BY <1>0, <2>4, StartThreadQuiet, ReturnStep DEF UserStep
    <2>5. CASE ReactorStep(x)
      BY <1>0, <2>5, ReactorQuiet
    <2>6. CASE x \in Thread /\ EpollWait(x)
      BY <1>2, <2>6 DEF EpollWait
    <2> QED  BY <1>5, <2>1, <2>2, <2>3, <2>4, <2>5, <2>6 DEF Step
  <1> QED  BY <1>3, <1>4, <1>5 DEF Next

\* At first the strand is free.
LEMMA StrandBegins == Init => Serialised!Init
  <1> SUFFICES ASSUME Init PROVE Serialised!Init
    OBVIOUS
  <1>1. Inv
    BY InitInv
  <1>2. ~strand.locked
    BY DEF Init, StrandInit
  <1>3. Given = <<>> /\ \A y \in Actor : Running[y] = <<>>
    BY <1>1, <1>2, NobodyIn
  <1>4. strand.ready \o strand.waiting = <<>>
    BY <1>3 DEF Given
  <1>5. [x \in Actor |-> StrandHandlers(x)] = [x \in Actor |-> <<>>]
    BY <1>3, HandledIs DEF Running
  <1> QED  BY <1>4, <1>5 DEF Serialised!Init

\* strand_service keeps the promise of asio/strand.hpp for every number of
\* threads and whatever the handlers call: no two handlers of the strand run
\* at a time, they start in the order in which they were given to it, and one
\* that is dispatched inside the strand runs at once.
THEOREM StrandIsSerialised == Spec => ImplementsStrand
  <1>1. Inv /\ [Next]_vars => [Serialised!Next]_<<Given, Running>>
    BY StrandSteps
  <1>2. Given = strand.ready \o strand.waiting /\ Running = [x \in Actor |-> StrandHandlers(x)]
    BY HandledIs DEF Given, Running
  <1>3. Inv /\ [Next]_vars => [Serialised!Next]_<<strand.ready \o strand.waiting, [x \in Actor |-> StrandHandlers(x)]>>
    <2>1. Running' = [x \in Actor |-> StrandHandlers(x)]'
      BY HandledIs DEF Running
    <2> QED  BY <1>1, <1>2, <2>1 DEF Given
  <1> QED  BY <1>3, StrandBegins, InvHolds, PTL DEF Spec, ImplementsStrand, Serialised!Spec
=============================================================================
