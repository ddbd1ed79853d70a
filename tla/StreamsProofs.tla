---------------------------- MODULE StreamsProofs ----------------------------
(***************************************************************************)
(* What the proofs about components need to know of sequences: cutting a   *)
(* stream where a read ends, taking its front, appending to it.            *)
(***************************************************************************)
EXTENDS Streams, SequenceTheorems, TLAPS

\* Cutting a sequence yields sequences over the same set.
LEMMA KeepDropType ==
    ASSUME NEW S, NEW s \in Seq(S), NEW n \in 0..Len(s)
    PROVE  /\ Keep(s, n) \in Seq(S) /\ Drop(s, n) \in Seq(S)
           /\ Len(Keep(s, n)) = n /\ Len(Drop(s, n)) = Len(s) - n
           /\ \A k \in 1..n : Keep(s, n)[k] = s[k]
           /\ \A k \in 1..(Len(s) - n) : Drop(s, n)[k] = s[n + k]
  <1>1. Len(s) \in Nat /\ \A i \in 1..Len(s) : s[i] \in S
    BY LenProperties, ElementOfSeq
  <1>2. \A i \in 1..n : s[i] \in S
    BY <1>1
  <1>3. \A i \in (n + 1)..Len(s) : s[i] \in S
    BY <1>1
  <1>4. /\ Keep(s, n) \in Seq(S)
        /\ Len(Keep(s, n)) = n
        /\ \A k \in 1..n : Keep(s, n)[k] = s[k]
    BY <1>1, <1>2, SubSeqProperties DEF Keep
  <1>5. /\ Drop(s, n) \in Seq(S)
        /\ Len(Drop(s, n)) = Len(s) - n
        /\ \A k \in 1..(Len(s) - n) : Drop(s, n)[k] = s[n + k]
    <2>1. n + 1 \in Int /\ Len(s) \in Int
      BY <1>1
    <2>2. /\ SubSeq(s, n + 1, Len(s)) \in Seq(S)
          /\ Len(SubSeq(s, n + 1, Len(s))) =
                IF n + 1 <= Len(s) THEN Len(s) - (n + 1) + 1 ELSE 0
          /\ \A i \in 1..(Len(s) - (n + 1) + 1) :
                SubSeq(s, n + 1, Len(s))[i] = s[(n + 1) + i - 1]
      BY <2>1, <1>3, SubSeqProperties
    <2> QED  BY <2>2, <1>1 DEF Drop
  <1> QED  BY <1>4, <1>5

\* A sequence that was appended to is not empty: what has_outgoing_data() saw
\* stays true while threads only push.
LEMMA AppendNotEmpty ==
    ASSUME NEW S, NEW s \in Seq(S), NEW e \in S
    PROVE  Append(s, e) # <<>>
  BY AppendProperties

\* The front and what is behind it make up the sequence.
LEMMA HeadTailParts ==
    ASSUME NEW S, NEW s \in Seq(S), s # <<>>
    PROVE  /\ Len(s) \in Nat /\ Len(s) >= 1
           /\ Head(s) = s[1] /\ Head(s) \in S
           /\ Tail(s) \in Seq(S) /\ Len(Tail(s)) = Len(s) - 1
           /\ DOMAIN s = 1..Len(s) /\ DOMAIN Tail(s) = 1..(Len(s) - 1)
           /\ \A k \in 1..(Len(s) - 1) : Tail(s)[k] = s[k + 1]
  <1>1. Len(s) \in Nat /\ Len(s) # 0
    BY EmptySeq
  <1>2. /\ Head(s) \in S /\ Tail(s) \in Seq(S) /\ Len(Tail(s)) = Len(s) - 1
        /\ \A k \in 1..Len(Tail(s)) : Tail(s)[k] = s[k + 1]
    BY HeadTailProperties
  <1>3. DOMAIN s = 1..Len(s) /\ DOMAIN Tail(s) = 1..Len(Tail(s))
    BY <1>2, LenProperties
  <1>4. Head(s) = s[1]
    OBVIOUS
  <1> QED  BY <1>1, <1>2, <1>3, <1>4

\* Appending adds one place, at the end.
LEMMA AppendParts ==
    ASSUME NEW S, NEW s \in Seq(S), NEW e \in S
    PROVE  /\ Append(s, e) \in Seq(S) /\ Append(s, e) # <<>>
           /\ Len(s) \in Nat /\ Len(Append(s, e)) = Len(s) + 1
           /\ DOMAIN s = 1..Len(s) /\ DOMAIN Append(s, e) = 1..(Len(s) + 1)
           /\ \A k \in 1..Len(s) : Append(s, e)[k] = s[k]
           /\ Append(s, e)[Len(s) + 1] = e
  <1>1. Append(s, e) \in Seq(S)
    BY AppendProperties
  <1> QED  BY <1>1, AppendProperties, LenProperties

\* A stream that is cut and joined again is the same.
LEMMA KeepThenDrop ==
    ASSUME NEW S, NEW s \in Seq(S), NEW n \in 0..Len(s)
    PROVE  Keep(s, n) \o Drop(s, n) = s
  <1>1. Len(s) \in Nat
    BY LenProperties
  <1>2. /\ Keep(s, n) \in Seq(S) /\ Drop(s, n) \in Seq(S)
        /\ Len(Keep(s, n)) = n /\ Len(Drop(s, n)) = Len(s) - n
        /\ \A k \in 1..n : Keep(s, n)[k] = s[k]
        /\ \A k \in 1..(Len(s) - n) : Drop(s, n)[k] = s[n + k]
    BY KeepDropType
  <1> DEFINE t == Keep(s, n) \o Drop(s, n)
  <1>3. /\ t \in Seq(S) /\ Len(t) = n + (Len(s) - n)
        /\ \A i \in 1..(n + (Len(s) - n)) : t[i] = IF i <= n THEN Keep(s, n)[i] ELSE Drop(s, n)[i - n]
    BY <1>2, ConcatProperties
  <1> HIDE DEF t
  <1>4. Len(t) = Len(s) /\ \A i \in 1..Len(s) : t[i] = s[i]
    BY <1>1, <1>2, <1>3
  <1>5. t = s
    BY SMTT(60), <1>3, <1>4, SeqEqual
  <1> QED  BY <1>5 DEF t

\* vector::erase(): what was behind the erased place moves up by one.
LEMMA EraseParts ==
    ASSUME NEW S, NEW s \in Seq(S), NEW i \in 1..Len(s)
    PROVE  LET t == Keep(s, i - 1) \o Drop(s, i)
           IN  /\ t \in Seq(S) /\ Len(s) \in Nat /\ Len(t) = Len(s) - 1
               /\ DOMAIN s = 1..Len(s) /\ DOMAIN t = 1..(Len(s) - 1)
               /\ \A k \in 1..(Len(s) - 1) :
                     t[k] = IF k < i THEN s[k] ELSE s[k + 1]
  <1> DEFINE t == Keep(s, i - 1) \o Drop(s, i)
  <1>1. Len(s) \in Nat /\ DOMAIN s = 1..Len(s)
    BY LenProperties
  <1>2. i - 1 \in 0..Len(s) /\ i \in 0..Len(s)
    BY <1>1
  <1>3. /\ Keep(s, i - 1) \in Seq(S) /\ Len(Keep(s, i - 1)) = i - 1
        /\ \A k \in 1..(i - 1) : Keep(s, i - 1)[k] = s[k]
    BY <1>2, KeepDropType
  <1>4. /\ Drop(s, i) \in Seq(S) /\ Len(Drop(s, i)) = Len(s) - i
        /\ \A k \in 1..(Len(s) - i) : Drop(s, i)[k] = s[i + k]
    BY <1>2, KeepDropType
  <1>5. /\ t \in Seq(S) /\ Len(t) = (i - 1) + (Len(s) - i)
        /\ \A k \in 1..((i - 1) + (Len(s) - i)) :
              t[k] = IF k <= i - 1 THEN Keep(s, i - 1)[k] ELSE Drop(s, i)[k - (i - 1)]
    <2>1. /\ t \in Seq(S)
          /\ Len(t) = Len(Keep(s, i - 1)) + Len(Drop(s, i))
          /\ \A k \in 1..(Len(Keep(s, i - 1)) + Len(Drop(s, i))) :
                t[k] = IF k <= Len(Keep(s, i - 1)) THEN Keep(s, i - 1)[k]
                       ELSE Drop(s, i)[k - Len(Keep(s, i - 1))]
      BY <1>3, <1>4, ConcatProperties
    <2> HIDE DEF t
    <2> QED  BY <2>1, <1>3, <1>4
  <1> HIDE DEF t
  <1>6. Len(t) = Len(s) - 1 /\ DOMAIN t = 1..(Len(s) - 1)
    BY <1>1, <1>5, LenProperties
  <1>7. ASSUME NEW k \in 1..(Len(s) - 1)
        PROVE  t[k] = IF k < i THEN s[k] ELSE s[k + 1]
    <2>1. CASE k < i
      BY SMTT(60), <2>1, <1>1, <1>3, <1>5
    <2>2. CASE ~(k < i)
      <3>1. k - (i - 1) \in 1..(Len(s) - i) /\ i + (k - (i - 1)) = k + 1
        BY <2>2, <1>1
      <3>2. t[k] = Drop(s, i)[k - (i - 1)]
        BY <2>2, <1>1, <1>5
      <3>3. Drop(s, i)[k - (i - 1)] = s[i + (k - (i - 1))]
        BY <3>1, <1>4
      <3> QED  BY <2>2, <3>1, <3>2, <3>3
    <2> QED  BY <2>1, <2>2
  <1> QED  BY <1>1, <1>5, <1>6, <1>7 DEF t

\* The cuts at the ends of a stream.
LEMMA KeepDropEnds ==
    ASSUME NEW S, NEW s \in Seq(S)
    PROVE  /\ Keep(s, 0) = <<>> /\ Keep(s, Len(s)) = s
           /\ s # <<>> => Drop(s, 1) = Tail(s)
           /\ 0 \in 0..Len(s) /\ Len(s) \in 0..Len(s)
           /\ s # <<>> => 1 \in 1..Len(s)
  <1>1. Len(s) \in Nat /\ (s # <<>> => Len(s) # 0)
    BY EmptySeq, LenProperties
  <1>2. Keep(s, 0) = <<>>
    BY SubSeqEmpty DEF Keep
  <1>3. Keep(s, Len(s)) = s
    BY SubSeqFull DEF Keep
  <1>4. s # <<>> => Drop(s, 1) = Tail(s)
    BY TailIsSubSeq DEF Drop
  <1> QED  BY <1>1, <1>2, <1>3, <1>4

\* The front of two streams joined is the front of the first.
LEMMA HeadTailConcat ==
    ASSUME NEW S, NEW s \in Seq(S), NEW t \in Seq(S), s # <<>>
    PROVE  s \o t # <<>> /\ Head(s \o t) = Head(s) /\ Tail(s \o t) = Tail(s) \o t
  <1> DEFINE n == Len(s)
             m == Len(t)
             u == s \o t
  <1>1. n \in Nat /\ n >= 1 /\ m \in Nat
    BY HeadTailParts, LenProperties
  <1>2. /\ u \in Seq(S) /\ Len(u) = n + m
        /\ \A k \in 1..(n + m) : u[k] = IF k <= n THEN s[k] ELSE t[k - n]
    BY ConcatProperties
  <1>3. /\ Head(s) = s[1] /\ Tail(s) \in Seq(S) /\ Len(Tail(s)) = n - 1
        /\ \A k \in 1..(n - 1) : Tail(s)[k] = s[k + 1]
    BY HeadTailParts
  <1>4. u # <<>>
    BY ConcatEqualIffEmpty
  <1>5. /\ Head(u) = u[1] /\ Tail(u) \in Seq(S) /\ Len(Tail(u)) = Len(u) - 1
        /\ \A k \in 1..(Len(u) - 1) : Tail(u)[k] = u[k + 1]
    BY <1>2, <1>4, HeadTailParts
  <1> DEFINE v == Tail(s) \o t
  <1>6. /\ v \in Seq(S) /\ Len(v) = Len(Tail(s)) + m
        /\ \A k \in 1..(Len(Tail(s)) + m) :
              v[k] = IF k <= Len(Tail(s)) THEN Tail(s)[k] ELSE t[k - Len(Tail(s))]
    BY <1>3, ConcatProperties
  <1> HIDE DEF n, m, u, v
  <1>7. Head(u) = Head(s)
    BY <1>1, <1>2, <1>3, <1>5
  <1>8. Len(Tail(u)) = Len(v)
    BY <1>1, <1>2, <1>3, <1>5, <1>6
  <1>9. ASSUME NEW k \in 1..Len(Tail(u)) PROVE Tail(u)[k] = v[k]
    <2>1. k \in 1..(n + m - 1) /\ k + 1 \in 1..(n + m)
      BY <1>1, <1>2, <1>5
    <2>2. Tail(u)[k] = IF k + 1 <= n THEN s[k + 1] ELSE t[k + 1 - n]
      BY <2>1, <1>1, <1>2, <1>5
    <2>3. v[k] = IF k <= n - 1 THEN Tail(s)[k] ELSE t[k - (n - 1)]
      <3>1. \A j \in 1..((n - 1) + m) :
               v[j] = IF j <= n - 1 THEN Tail(s)[j] ELSE t[j - (n - 1)]
        BY <1>3, <1>6
      <3>2. k \in 1..((n - 1) + m)
        BY <2>1, <1>1
      <3> QED  BY <3>1, <3>2
    <2>4. k - (n - 1) = k + 1 - n
      BY <2>1, <1>1
    <2>5. k <= n - 1 => Tail(s)[k] = s[k + 1]
      BY <2>1, <1>1, <1>3
    <2>6. k + 1 <= n <=> k <= n - 1
      BY <2>1, <1>1
    <2> QED  BY <2>2, <2>3, <2>4, <2>5, <2>6
  <1>10. Tail(u) = v
    BY <1>5, <1>6, <1>8, <1>9, SeqEqual
  <1> QED  BY <1>4, <1>7, <1>10 DEF u, v

\* Appending to the second of two streams joined.
LEMMA AppendConcat ==
    ASSUME NEW S, NEW s \in Seq(S), NEW t \in Seq(S), NEW e \in S
    PROVE  s \o Append(t, e) = Append(s \o t, e)
  <1>1. <<e>> \in Seq(S) /\ s \o t \in Seq(S)
    BY ConcatProperties
  <1>2. Append(t, e) = t \o <<e>> /\ Append(s \o t, e) = (s \o t) \o <<e>>
    BY <1>1, AppendIsConcat
  <1>3. (s \o t) \o <<e>> = s \o (t \o <<e>>)
    BY <1>1, ConcatAssociative
  <1> QED  BY <1>2, <1>3

\* Cutting the second of two streams joined.
LEMMA KeepConcat ==
    ASSUME NEW S, NEW s \in Seq(S), NEW t \in Seq(S), NEW n \in 0..Len(t)
    PROVE  \E k \in 0..Len(s \o t) : s \o Keep(t, n) = Keep(s \o t, k)
  <1> DEFINE a == Len(s)
             b == Len(t)
             u == s \o t
             v == s \o Keep(t, n)
             w == Keep(u, a + n)
  <1>1. a \in Nat /\ b \in Nat
    BY LenProperties
  <1>2. /\ u \in Seq(S) /\ Len(u) = a + b
        /\ \A k \in 1..(a + b) : u[k] = IF k <= a THEN s[k] ELSE t[k - a]
    BY ConcatProperties
  <1>3. /\ Keep(t, n) \in Seq(S) /\ Len(Keep(t, n)) = n
        /\ \A k \in 1..n : Keep(t, n)[k] = t[k]
    BY KeepDropType
  <1>4. a + n \in 0..Len(u)
    <2> HIDE DEF u, a
    <2> QED  BY <1>1, <1>2
  <1>5. /\ w \in Seq(S) /\ Len(w) = a + n
        /\ \A k \in 1..(a + n) : w[k] = u[k]
    BY <1>2, <1>4, KeepDropType
  <1>6. /\ v \in Seq(S) /\ Len(v) = a + Len(Keep(t, n))
        /\ \A k \in 1..(a + Len(Keep(t, n))) :
              v[k] = IF k <= a THEN s[k] ELSE Keep(t, n)[k - a]
    BY <1>3, ConcatProperties
  <1>7. n \in Nat /\ n <= b
    BY <1>1
  <1> HIDE DEF a, b, u, v, w
  <1>8. ASSUME NEW k \in 1..(a + n) PROVE v[k] = w[k]
    <2>1. CASE k <= a
      <3>1. k \in 1..(a + b)
        BY <1>1, <1>7
      <3>2. v[k] = s[k]
        BY <2>1, <1>3, <1>6
      <3>3. w[k] = s[k]
        BY <2>1, <3>1, <1>2, <1>5
      <3> QED  BY <3>2, <3>3
    <2>2. CASE ~(k <= a)
      <3>1. k - a \in 1..n /\ k \in 1..(a + b)
        BY <2>2, <1>1, <1>7
      <3>2. Keep(t, n)[k - a] = t[k - a]
        BY <3>1, <1>3
      <3> QED  BY <2>2, <3>1, <3>2, <1>2, <1>3, <1>5, <1>6
    <2> QED  BY <2>1, <2>2
  <1>9. v = w
    BY <1>3, <1>5, <1>6, <1>8, SeqEqual
  <1> QED  BY <1>4, <1>9 DEF v, w, u

\* Taking the front of a stream to the end of the one before it.
LEMMA MoveFront ==
    ASSUME NEW S, NEW s \in Seq(S), NEW t \in Seq(S), t # <<>>
    PROVE  /\ <<Head(t)>> \o Tail(t) = t
           /\ Append(s, Head(t)) \o Tail(t) = s \o t
  <1>1. Head(t) \in S /\ Tail(t) \in Seq(S) /\ <<Head(t)>> \in Seq(S)
    BY HeadTailParts
  <1> DEFINE h == <<Head(t)>>
             u == h \o Tail(t)
             n == Len(t)
  <1>2. /\ n \in Nat /\ n >= 1 /\ Head(t) = t[1] /\ Len(Tail(t)) = n - 1
        /\ \A k \in 1..(n - 1) : Tail(t)[k] = t[k + 1]
    BY HeadTailParts
  <1>3. Len(h) = 1 /\ h[1] = t[1] /\ h \in Seq(S)
    BY <1>1, <1>2
  <1>4. /\ u \in Seq(S) /\ Len(u) = Len(h) + Len(Tail(t))
        /\ \A k \in 1..(Len(h) + Len(Tail(t))) :
              u[k] = IF k <= Len(h) THEN h[k] ELSE Tail(t)[k - Len(h)]
    BY <1>1, <1>3, ConcatProperties
  <1> HIDE DEF h, u, n
  <1>5. Len(u) = n
    BY <1>2, <1>3, <1>4
  <1>6. ASSUME NEW k \in 1..n PROVE u[k] = t[k]
    <2>1. k \in 1..(Len(h) + Len(Tail(t)))
      BY <1>2, <1>3
    <2>2. CASE k = 1
      BY <2>1, <2>2, <1>3, <1>4
    <2>3. CASE k # 1
      <3>1. k - 1 \in 1..(n - 1) /\ (k - 1) + 1 = k /\ ~(k <= 1)
        BY <2>3, <1>2
      <3>2. u[k] = Tail(t)[k - 1]
        BY <2>1, <3>1, <1>3, <1>4
      <3>3. Tail(t)[k - 1] = t[(k - 1) + 1]
        BY <3>1, <1>2
      <3> QED  BY <3>1, <3>2, <3>3
    <2> QED  BY <2>2, <2>3
  <1>7. u = t
    BY <1>4, <1>5, <1>6, SeqEqual DEF n
  <1>8. Append(s, Head(t)) = s \o h
    BY <1>1, AppendIsConcat DEF h
  <1>9. (s \o h) \o Tail(t) = s \o (h \o Tail(t))
    BY SMTT(60), <1>1, <1>3, ConcatAssociative
  <1> QED  BY <1>7, <1>8, <1>9 DEF u, h


\* Appending to a sequence of one element.
LEMMA AppendToOne ==
    ASSUME NEW S, NEW a \in S, NEW b \in S
    PROVE  Append(<<a>>, b) = <<a, b>>
  <1> DEFINE s == <<a>>
             t == Append(s, b)
             v == <<a, b>>
  <1>1. s \in Seq(S) /\ Len(s) = 1 /\ s[1] = a
    OBVIOUS
  <1>2. v \in Seq(S) /\ Len(v) = 2 /\ v[1] = a /\ v[2] = b
    OBVIOUS
  <1> HIDE DEF s, v
  <1>3. /\ t \in Seq(S) /\ Len(t) = Len(s) + 1
        /\ \A k \in 1..Len(s) : t[k] = s[k]
        /\ t[Len(s) + 1] = b
    <2>1. s \in Seq(S)
      BY <1>1
    <2> QED  BY <2>1, AppendParts
  <1>4. Len(t) = 2 /\ t[1] = a /\ t[2] = b
    BY <1>1, <1>3
  <1> HIDE DEF t
  <1>5. \A k \in 1..Len(t) : t[k] = v[k]
    BY <1>2, <1>4
  <1>6. t = v
    BY <1>2, <1>3, <1>4, <1>5, SeqEqual
  <1> QED  BY <1>6 DEF t, v, s


\* A sequence is another with one element appended if it agrees with it.
LEMMA IsAppended ==
    ASSUME NEW S, NEW s \in Seq(S), NEW e \in S, NEW t,
           t = [k \in 1..(Len(s) + 1) |-> t[k]],
           \A k \in 1..Len(s) : t[k] = s[k], t[Len(s) + 1] = e
    PROVE  t = Append(s, e)
  <1> DEFINE n == Len(s)
             a == Append(s, e)
  <1>1. /\ a \in Seq(S) /\ n \in Nat /\ Len(a) = n + 1
        /\ \A k \in 1..n : a[k] = s[k]
        /\ a[n + 1] = e
    BY AppendParts
  <1> HIDE DEF a
  <1>2. \A k \in 1..(n + 1) : k \in 1..n \/ k = n + 1
    BY <1>1
  <1>3. \A k \in 1..(n + 1) : t[k] = a[k]
    BY <1>1, <1>2
  <1>4. a = [k \in 1..(n + 1) |-> a[k]]
    BY <1>1
  <1>5. t = a
    BY <1>3, <1>4
  <1> QED  BY <1>5 DEF a
=============================================================================
