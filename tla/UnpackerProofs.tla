--------------------------- MODULE UnpackerProofs ---------------------------
(***************************************************************************)
(* Proofs about msgpack's unpacker: every read has room, buffers are       *)
(* counted right, and what a message points to does not change.            *)
(***************************************************************************)
EXTENDS Unpacker, SequenceTheorems, FiniteSetTheorems, WellFoundedInduction, TLAPS

Block == [data : Seq(0..256), count : Nat \ {0}]

\* z lists buffers of S, each once.
Chain(z, S) == z \in Seq(S) /\ \A i, j \in 1..Len(z) : z[i] = z[j] => i = j

\* How often z lists b, the messages of hs with a finalizer for b, and all who
\* will decrease its count: the unpacker whose own it is, the zone, the messages.
Occ(z, b)    == Cardinality({i \in DOMAIN z : z[i] = b})
Users(hs, b) == {h \in hs : b \in Range(h.fins)}
Total(own, z, hs, b) ==
    (IF b \in own THEN 1 ELSE 0) + Occ(z, b) + Cardinality(Users(hs, b))

-----------------------------------------------------------------------------
(***************************************************************************)
(* The inductive invariant                                                 *)
(***************************************************************************)
Alive == pc # "ended"

\* The buffer that ~unpacker() will give up.
Own == IF Alive THEN {buffer} ELSE {}

\* The buffer is as large as the sizes say, large enough for a read once it is
\* empty, and what is in it is not more than what was sent.
SizeInv ==
    /\ pc \in {"read", "next", "reserve", "ended"}
    /\ used \in Nat /\ room \in Nat /\ off \in Nat
    /\ COUNTER_SIZE <= off /\ off <= used
    /\ wire \in Seq(0..255)
    /\ used + room >= MaxRead + COUNTER_SIZE
    /\ used + Len(wire) <= COUNTER_SIZE + Len(Encoded)
    /\ pc = "read" => room >= MaxRead
    /\ Alive => used + room = Len(mem[buffer].data)

\* A value that is waited for has at least a byte, a size one that load<>() takes.
ParseInv ==
    /\ cs \in {CS_HEADER} \cup 4..34 /\ trail \in Nat
    /\ cs # CS_HEADER => trail # 0
    /\ cs \in 4..9 \cup 25..31 => trail \in {1, 2, 4}

Blocks(m) == IsFiniteSet(DOMAIN m) /\ m \in [DOMAIN m -> Block]

Counted(m, own, z, hs) ==
    /\ \A b \in DOMAIN m : m[b].count = Total(own, z, hs, b)
    /\ Chain(z, DOMAIN m)
    /\ IsFiniteSet(hs) /\ \A h \in hs : Chain(h.fins, DOMAIN m)
    /\ own \subseteq DOMAIN m /\ own \cap Range(z) = {}

\* Messages are numbered as they are delivered.
HeldInv == delivered \in Nat /\ \A h \in held : h.number \in 1..delivered

\* Nobody points into a buffer of which nothing was parsed.
CleanStart ==
    Alive /\ off = COUNTER_SIZE => ~referenced /\ \A h \in held : buffer \notin Range(h.fins)

\* The values point into buffers of S, in buf only to what was parsed.
PointsInto(item, S, buf, parsed) ==
    "buf" \in DOMAIN item =>
        /\ item.buf \in S /\ item.from \in Nat /\ item.len \in Nat
        /\ item.buf = buf => item.from + item.len <= parsed

Pointing(its, S, buf, parsed) ==
    /\ its \in Seq(Range(its))
    /\ \A i \in 1..Len(its) : PointsInto(its[i], S, buf, parsed)

\* The buffers that the message being parsed may point into.
OwnBuffers == Range(zone) \cup (IF referenced THEN {buffer} ELSE {})

RefInv ==
    /\ \A h \in held : Pointing(h.items, Range(h.fins), buffer, off)
    /\ Pointing(items, OwnBuffers, buffer, off)

CountInv == Blocks(mem) /\ Counted(mem, Own, zone, held)

Inv ==
    /\ SizeInv /\ ParseInv /\ CountInv /\ HeldInv /\ CleanStart /\ RefInv
    /\ referenced \in BOOLEAN

-----------------------------------------------------------------------------
(***************************************************************************)
(* Sequences and counts                                                    *)
(***************************************************************************)
\* What a sequence lists.
LEMMA ListParts ==
    ASSUME NEW S, NEW z \in Seq(S)
    PROVE  /\ DOMAIN z = 1..Len(z) /\ Len(z) \in Nat
           /\ Range(z) = {z[i] : i \in 1..Len(z)} /\ Range(z) \subseteq S
  <1>1. DOMAIN z = 1..Len(z) /\ Len(z) \in Nat
    BY LenProperties
  <1>2. \A i \in 1..Len(z) : z[i] \in S
    BY ElementOfSeq
  <1> QED  BY <1>1, <1>2 DEF Range

LEMMA ChainOcc ==
    ASSUME NEW S, NEW z, Chain(z, S), NEW b
    PROVE  Occ(z, b) = IF b \in Range(z) THEN 1 ELSE 0
  <1>1. DOMAIN z = 1..Len(z) /\ Range(z) = {z[i] : i \in 1..Len(z)}
    BY ListParts DEF Chain
  <1>2. CASE b \in Range(z)
    <2>1. PICK k \in 1..Len(z) : z[k] = b
      BY <1>1, <1>2
    <2>2. {i \in DOMAIN z : z[i] = b} = {k}
      BY <1>1, <2>1 DEF Chain
    <2>3. Cardinality({k}) = 1
      BY FS_Singleton
    <2> QED  BY <1>2, <2>2, <2>3 DEF Occ
  <1>3. CASE b \notin Range(z)
    <2>1. {i \in DOMAIN z : z[i] = b} = {}
      BY <1>1, <1>3
    <2> QED  BY <1>3, <2>1, FS_EmptySet DEF Occ
  <1> QED  BY <1>2, <1>3

LEMMA ChainEmpty ==
    ASSUME NEW S
    PROVE  Chain(<<>>, S) /\ Range(<<>>) = {}
  <1>1. <<>> \in Seq(S) /\ Len(<<>>) = 0
    OBVIOUS
  <1>2. Range(<<>>) = {<<>>[i] : i \in 1..0}
    BY <1>1, ListParts
  <1> QED  BY <1>1, <1>2 DEF Chain

LEMMA ChainOne ==
    ASSUME NEW S, NEW b \in S
    PROVE  Chain(<<b>>, S) /\ Range(<<b>>) = {b}
  <1>1. <<b>> \in Seq(S) /\ Len(<<b>>) = 1 /\ <<b>>[1] = b
    OBVIOUS
  <1>2. Range(<<b>>) = {<<b>>[i] : i \in 1..1}
    BY <1>1, ListParts
  <1>3. \A i \in 1..1 : i = 1
    OBVIOUS
  <1> QED  BY <1>1, <1>2, <1>3 DEF Chain

\* Appending to any sequence.
LEMMA AppendRange ==
    ASSUME NEW z, z \in Seq(Range(z)), NEW e
    PROVE  /\ Append(z, e) \in Seq(Range(Append(z, e)))
           /\ Range(Append(z, e)) = Range(z) \cup {e}
           /\ Len(z) \in Nat /\ Len(Append(z, e)) = Len(z) + 1
           /\ \A i \in 1..Len(z) : Append(z, e)[i] = z[i]
           /\ Append(z, e)[Len(z) + 1] = e
  <1> DEFINE T == Range(z) \cup {e}
             w == Append(z, e)
  <1>1. z \in Seq(T)
    <2>1. Range(z) \subseteq T
      OBVIOUS
    <2> QED  BY <2>1
  <1>2. e \in T
    OBVIOUS
  <1> HIDE DEF T
  <1>3. /\ w \in Seq(T) /\ Len(w) = Len(z) + 1 /\ Len(z) \in Nat
        /\ \A i \in 1..Len(z) : w[i] = z[i]
        /\ w[Len(z) + 1] = e
    BY <1>1, <1>2, AppendProperties, LenProperties
  <1> HIDE DEF w
  <1>4. Range(w) = {w[i] : i \in 1..Len(w)} /\ Range(z) = {z[i] : i \in 1..Len(z)}
    BY <1>1, <1>3, ListParts
  <1>5. Range(w) = Range(z) \cup {e}
    BY <1>3, <1>4
  <1>6. w \in Seq(Range(w))
    BY <1>3, <1>5 DEF T
  <1> QED  BY <1>3, <1>5, <1>6 DEF w

\* The elements of a sequence over any set are its range.
LEMMA SeqOverRange ==
    ASSUME NEW S, NEW z \in Seq(S)
    PROVE  z \in Seq(Range(z))
  <1>1. DOMAIN z = 1..Len(z) /\ Len(z) \in Nat /\ Range(z) = {z[i] : i \in 1..Len(z)}
    BY ListParts
  <1>2. \A i \in 1..Len(z) : z[i] \in Range(z)
    BY <1>1
  <1> QED  BY <1>1, <1>2

LEMMA ChainAppend ==
    ASSUME NEW S, NEW z, Chain(z, S), NEW b \in S, b \notin Range(z)
    PROVE  Chain(Append(z, b), S) /\ Range(Append(z, b)) = Range(z) \cup {b}
  <1>1. z \in Seq(Range(z))
    BY SeqOverRange DEF Chain
  <1>2. /\ Range(Append(z, b)) = Range(z) \cup {b}
        /\ Len(z) \in Nat /\ Len(Append(z, b)) = Len(z) + 1
        /\ \A i \in 1..Len(z) : Append(z, b)[i] = z[i]
        /\ Append(z, b)[Len(z) + 1] = b
    BY <1>1, AppendRange
  <1>3. Append(z, b) \in Seq(S)
    BY AppendProperties DEF Chain
  <1>4. \A i \in 1..Len(z) : z[i] # b
    BY ListParts DEF Chain
  <1> DEFINE w == Append(z, b)
  <1> HIDE DEF w
  <1>5. ASSUME NEW i \in 1..Len(w), NEW j \in 1..Len(w), w[i] = w[j] PROVE i = j
    <2>1. \A l \in 1..Len(w) : l \in 1..Len(z) \/ l = Len(z) + 1
      BY <1>2 DEF w
    <2>2. CASE i \in 1..Len(z) /\ j \in 1..Len(z)
      BY <1>2, <1>5, <2>2 DEF Chain, w
    <2>3. CASE i = Len(z) + 1 /\ j \in 1..Len(z)
      BY <1>2, <1>4, <1>5, <2>3 DEF w
    <2>4. CASE i \in 1..Len(z) /\ j = Len(z) + 1
      BY <1>2, <1>4, <1>5, <2>4 DEF w
    <2> QED  BY <2>1, <2>2, <2>3, <2>4
  <1> QED  BY <1>2, <1>3, <1>5 DEF Chain, w

\* A chain of allocated buffers stays one if all of them stay.
LEMMA ChainOver ==
    ASSUME NEW S, NEW T, NEW z, Chain(z, S), Range(z) \subseteq T
    PROVE  Chain(z, T)
  <1>1. z \in Seq(Range(z))
    BY SeqOverRange DEF Chain
  <1>2. z \in Seq(T)
    BY <1>1
  <1> QED  BY <1>2 DEF Chain

LEMMA UsersFinite ==
    ASSUME NEW hs, IsFiniteSet(hs), NEW b
    PROVE  /\ IsFiniteSet(Users(hs, b)) /\ Cardinality(Users(hs, b)) \in Nat
           /\ Cardinality(Users(hs, b)) = 0 <=> \A h \in hs : b \notin Range(h.fins)
  <1>1. Users(hs, b) \in SUBSET hs
    BY DEF Users
  <1>2. IsFiniteSet(Users(hs, b))
    BY <1>1, FS_Subset
  <1>3. Cardinality(Users(hs, b)) = 0 <=> Users(hs, b) = {}
    BY <1>2, FS_EmptySet
  <1>4. Cardinality(Users(hs, b)) \in Nat
    BY <1>2, FS_CardinalityType
  <1>5. Users(hs, b) = {} <=> \A h \in hs : b \notin Range(h.fins)
    BY DEF Users
  <1> QED  BY <1>2, <1>3, <1>4, <1>5

LEMMA UsersAdd ==
    ASSUME NEW hs, IsFiniteSet(hs), NEW h, h \notin hs, NEW b
    PROVE  Cardinality(Users(hs \cup {h}, b)) =
               Cardinality(Users(hs, b)) + (IF b \in Range(h.fins) THEN 1 ELSE 0)
  <1>1. IsFiniteSet(Users(hs, b)) /\ Cardinality(Users(hs, b)) \in Nat
    BY UsersFinite
  <1>2. CASE b \in Range(h.fins)
    <2>1. Users(hs \cup {h}, b) = Users(hs, b) \cup {h} /\ h \notin Users(hs, b)
      BY <1>2 DEF Users
    <2>2. Cardinality(Users(hs, b) \cup {h}) = Cardinality(Users(hs, b)) + 1
      BY <1>1, <2>1, FS_AddElement
    <2> QED  BY <1>2, <2>1, <2>2
  <1>3. CASE b \notin Range(h.fins)
    <2>1. Users(hs \cup {h}, b) = Users(hs, b)
      BY <1>3 DEF Users
    <2> QED  BY <1>1, <1>3, <2>1
  <1> QED  BY <1>2, <1>3

LEMMA UsersRemove ==
    ASSUME NEW hs, IsFiniteSet(hs), NEW h \in hs, NEW b
    PROVE  Cardinality(Users(hs \ {h}, b)) =
               Cardinality(Users(hs, b)) - (IF b \in Range(h.fins) THEN 1 ELSE 0)
  <1>1. IsFiniteSet(hs \ {h})
    BY FS_RemoveElement
  <1>2. PICK k : k = hs \ {h}
    OBVIOUS
  <1>3. h \notin k /\ k \cup {h} = hs /\ IsFiniteSet(k)
    BY <1>1, <1>2
  <1>4. Cardinality(Users(k \cup {h}, b)) =
            Cardinality(Users(k, b)) + (IF b \in Range(h.fins) THEN 1 ELSE 0)
    BY <1>3, UsersAdd
  <1>5. Cardinality(Users(k, b)) \in Nat
    BY <1>3, UsersFinite
  <1>6. PICK n \in {0, 1} : n = IF b \in Range(h.fins) THEN 1 ELSE 0
    OBVIOUS
  <1>7. Cardinality(Users(hs, b)) = Cardinality(Users(k, b)) + n
    BY <1>3, <1>4, <1>6
  <1>8. Cardinality(Users(hs, b)) - n = Cardinality(Users(k, b))
    BY <1>5, <1>7
  <1> QED  BY <1>2, <1>6, <1>8

\* The total is made up of x for the unpacker, y for the zone and n for messages.
Adds(own, z, hs, b, x, y, n) ==
    /\ Total(own, z, hs, b) = x + y + n
    /\ x = IF b \in own THEN 1 ELSE 0
    /\ y = IF b \in Range(z) THEN 1 ELSE 0
    /\ n = Cardinality(Users(hs, b))
    /\ n = 0 <=> \A h \in hs : b \notin Range(h.fins)

Splits(own, z, hs, b) ==
    \E x \in {0, 1}, y \in {0, 1}, n \in Nat : Adds(own, z, hs, b, x, y, n)

LEMMA TotalParts ==
    ASSUME NEW S, NEW z, Chain(z, S), NEW hs, IsFiniteSet(hs)
    PROVE  \A own, b : Splits(own, z, hs, b)
  <1> TAKE own, b
  <1>1. PICK x \in {0, 1} : x = IF b \in own THEN 1 ELSE 0
    OBVIOUS
  <1>2. PICK y \in {0, 1} : y = IF b \in Range(z) THEN 1 ELSE 0
    OBVIOUS
  <1>3. PICK n \in Nat : /\ n = Cardinality(Users(hs, b))
                         /\ n = 0 <=> \A h \in hs : b \notin Range(h.fins)
    BY UsersFinite
  <1>4. Occ(z, b) = y
    BY <1>2, ChainOcc
  <1>5. Total(own, z, hs, b) = x + y + n
    BY <1>1, <1>3, <1>4 DEF Total
  <1> QED  BY <1>1, <1>2, <1>3, <1>5 DEF Adds, Splits

(***************************************************************************)
(* decr_count(): what is left is counted again, nobody who is counted      *)
(* loses a buffer, and a buffer that is left has the same contents.        *)
(***************************************************************************)
Remaining(m, bs, own, z, hs) ==
    /\ Blocks(m) /\ \A b \in DOMAIN m : m[b].count - Occ(bs, b) = Total(own, z, hs, b)
    /\ Chain(z, DOMAIN m) /\ IsFiniteSet(hs) /\ \A h \in hs : Chain(h.fins, DOMAIN m)
    /\ own \subseteq DOMAIN m /\ own \cap Range(z) = {}

Reduced(m, n, own, z, hs) ==
    /\ Blocks(n) /\ Counted(n, own, z, hs)
    /\ DOMAIN n \subseteq DOMAIN m /\ \A b \in DOMAIN n : n[b].data = m[b].data

LEMMA DecrCounted ==
    ASSUME NEW m, NEW bs, NEW own, NEW z, NEW hs, Remaining(m, bs, own, z, hs)
    PROVE  Reduced(m, Decr(m, bs), own, z, hs)
  <1> USE DEF Remaining
  <1> DEFINE left(b) == m[b].count - Occ(bs, b)
             D == {x \in DOMAIN m : left(x) > 0}
             d == [b \in D |-> [m[b] EXCEPT !.count = left(b)]]
  <1>1. Decr(m, bs) = d
    BY DEF Decr, Occ
  <1>2. D \subseteq DOMAIN m /\ DOMAIN d = D
    OBVIOUS
  <1>3. ASSUME NEW b \in DOMAIN m
        PROVE  /\ left(b) = Total(own, z, hs, b) /\ left(b) \in Nat
               /\ b \in own \/ b \in Range(z) \/ (\E h \in hs : b \in Range(h.fins)) => b \in D
    <2>0. PICK x \in {0, 1}, y \in {0, 1}, n \in Nat : Adds(own, z, hs, b, x, y, n)
      BY TotalParts DEF Splits
    <2>1. /\ Total(own, z, hs, b) = x + y + n
          /\ x = 1 <=> b \in own
          /\ y = 1 <=> b \in Range(z)
          /\ n = 0 <=> \A h \in hs : b \notin Range(h.fins)
      BY <2>0 DEF Adds
    <2>2. left(b) = x + y + n
      BY <2>1
    <2> HIDE DEF left
    <2>3. b \in D <=> x + y + n > 0
      BY <2>2
    <2>4. left(b) \in Nat /\ (x = 1 \/ y = 1 \/ n # 0 => b \in D)
      BY <2>2, <2>3
    <2> HIDE DEF D
    <2>5. left(b) = Total(own, z, hs, b)
      BY <2>1, <2>2
    <2> QED  BY <2>1, <2>4, <2>5
  <1>4. \A b \in D : left(b) \in Nat \ {0} /\ m[b] \in Block
    BY <1>2, <1>3 DEF Blocks
  <1> HIDE DEF left, D
  <1>5. \A b \in D : d[b] \in Block /\ d[b].count = left(b) /\ d[b].data = m[b].data
    BY <1>4 DEF Block
  <1>6. IsFiniteSet(D)
    BY <1>2, FS_Subset DEF Blocks
  <1>7. d \in [D -> Block]
    BY <1>5
  <1>8. Blocks(d)
    BY <1>2, <1>6, <1>7 DEF Blocks
  <1>9. Range(z) \subseteq D /\ own \subseteq D /\ \A h \in hs : Range(h.fins) \subseteq D
    <2>1. Range(z) \subseteq DOMAIN m
      BY ListParts DEF Chain
    <2>2. \A h \in hs : Range(h.fins) \subseteq DOMAIN m
      BY ListParts DEF Chain
    <2> QED  BY <1>3, <2>1, <2>2
  <1>10. Chain(z, D) /\ \A h \in hs : Chain(h.fins, D)
    BY <1>9, ChainOver
  <1>11. \A b \in D : d[b].count = Total(own, z, hs, b)
    BY <1>2, <1>3, <1>5
  <1> HIDE DEF d
  <1>12. Counted(d, own, z, hs)
    BY <1>2, <1>9, <1>10, <1>11 DEF Counted
  <1> QED  BY <1>1, <1>2, <1>5, <1>8, <1>12 DEF Reduced

-----------------------------------------------------------------------------
(***************************************************************************)
(* Addresses and sizes                                                     *)
(***************************************************************************)
\* malloc() and realloc() return an address that is not in use.
LEMMA FreshIsNew ==
    ASSUME IsFiniteSet(DOMAIN mem)
    PROVE  Fresh \notin DOMAIN mem
  <1> DEFINE n == Cardinality(DOMAIN mem)
  <1>1. n \in Nat
    BY FS_CardinalityType
  <1>2. Cardinality(1..(n + 1)) = n + 1
    <2>1. 1 \in Int /\ n + 1 \in Int /\ ~(1 > n + 1)
      BY <1>1
    <2>2. Cardinality(1..(n + 1)) = (n + 1) - 1 + 1
      BY <2>1, FS_Interval
    <2> QED  BY <1>1, <2>2
  <1>3. ~(1..(n + 1) \in SUBSET DOMAIN mem)
    <2>1. ASSUME 1..(n + 1) \in SUBSET DOMAIN mem PROVE FALSE
      <3>1. Cardinality(1..(n + 1)) <= n
        BY <2>1, FS_Subset
      <3> QED  BY <1>1, <1>2, <3>1
    <2> QED  BY <2>1
  <1>4. \E b \in 1..(n + 1) : b \notin DOMAIN mem
    BY <1>3
  <1> QED  BY <1>4 DEF Fresh

LEMMA LeastNumber ==
    ASSUME NEW T, T \subseteq Nat, T # {}
    PROVE  \E x \in T : \A y \in T : x <= y
  <1>1. PICK R : R = OpToRel(<, Nat)
    OBVIOUS
  <1>2. IsWellFoundedOn(R, Nat)
    BY <1>1, NatLessThanWellFounded
  <1>3. \A x, y \in Nat : y < x => <<y, x>> \in R
    BY <1>1 DEF OpToRel
  <1>4. PICK x \in T : \A y \in T : ~(<<y, x>> \in R)
    BY <1>2, WFMin
  <1>5. \A y \in T : x <= y
    <2> TAKE y \in T
    <2>1. x \in Nat /\ y \in Nat /\ ~(y < x)
      BY <1>3, <1>4
    <2> QED  BY <2>1
  <1> QED  BY <1>5

\* The loops that double a size end with one that is enough.
LEMMA DoubledEnough ==
    ASSUME NEW size \in Nat, NEW need \in Nat,
           need <= size \/ (InitialSize <= size /\ need <= MaxRead + Len(Encoded) + COUNTER_SIZE)
    PROVE  Doubled(size, need) \in Nat /\ Doubled(size, need) >= need
  <1> DEFINE T == {s \in {size * f : f \in Factors} : s >= need}
  <1>1. Factors \subseteq Nat
    BY FactorsAssumption
  <1>2. /\ InitialSize \in Nat /\ MaxRead \in Nat \ {0} /\ COUNTER_SIZE \in Nat
        /\ Len(Encoded) \in Nat
    BY SizesAssumption, BytesAssumption, LenProperties
  <1>3. PICK f \in Factors : MaxRead + Len(Encoded) + COUNTER_SIZE <= InitialSize * f
    BY FactorsAssumption
  <1>4. size * f >= need
    <2>1. f \in Nat /\ f # 0
      BY <1>1, <1>2, <1>3
    <2>2. CASE need <= size
      <3>1. PICK g \in Nat : f = g + 1
        BY <2>1
      <3>2. size * f = size * g + size /\ size * g \in Nat
        BY <3>1
      <3> QED  BY <2>2, <3>2
    <2>3. CASE InitialSize <= size /\ need <= MaxRead + Len(Encoded) + COUNTER_SIZE
      <3>1. PICK d \in Nat : size = InitialSize + d
        BY <1>2, <2>3
      <3>2. /\ size * f = InitialSize * f + d * f
            /\ d * f \in Nat /\ InitialSize * f \in Nat
        BY <1>2, <2>1, <3>1
      <3> QED  BY <1>2, <1>3, <2>3, <3>2
    <2> QED  BY <2>2, <2>3
  <1>5. size * f \in T
    BY <1>4
  <1>6. T \subseteq Nat /\ \A s \in T : s >= need
    BY <1>1
  <1> HIDE DEF T
  <1>7. \E s \in T : \A t \in T : s <= t
    BY <1>5, <1>6, LeastNumber
  <1>8. Min(T) \in T
    BY <1>7 DEF Min
  <1>9. Doubled(size, need) = Min(T)
    BY DEF Doubled, T
  <1> QED  BY <1>6, <1>8, <1>9

LEMMA MaxOfTwo ==
    ASSUME NEW a \in Nat, NEW b \in Nat, b <= a
    PROVE  Max({a, b}) = a
  <1>1. \A x \in {a, b} : (\A y \in {a, b} : x >= y) <=> x = a
    OBVIOUS
  <1> QED  BY <1>1 DEF Max

-----------------------------------------------------------------------------
(***************************************************************************)
(* The tables of the parser                                                *)
(***************************************************************************)
\* The bytes that follow a first byte: at least one, of sizes 1, 2 or 4.
LEMMA TrailValues ==
    ASSUME NEW b \in WithTrail
    PROVE  /\ b % 32 \in 4..31 /\ Trail(b) \in Nat /\ Trail(b) # 0
           /\ b % 32 \in 4..9 \cup 25..31 => Trail(b) \in {1, 2, 4}
  <1>1. /\ Trail(196) = 1 /\ Trail(197) = 2 /\ Trail(198) = 4 /\ Trail(199) = 1
        /\ Trail(200) = 2 /\ Trail(201) = 4 /\ Trail(202) = 4
    BY DEF Trail
  <1>2. /\ Trail(203) = 8 /\ Trail(204) = 1 /\ Trail(205) = 2 /\ Trail(206) = 4
        /\ Trail(207) = 8 /\ Trail(208) = 1 /\ Trail(209) = 2
    BY DEF Trail
  <1>3. /\ Trail(210) = 4 /\ Trail(211) = 8 /\ Trail(212) = 2 /\ Trail(213) = 3
        /\ Trail(214) = 5 /\ Trail(215) = 9 /\ Trail(216) = 17
    BY DEF Trail
  <1>4. /\ Trail(217) = 1 /\ Trail(218) = 2 /\ Trail(219) = 4 /\ Trail(220) = 2
        /\ Trail(221) = 4 /\ Trail(222) = 2 /\ Trail(223) = 4
    BY DEF Trail
  <1>5. b \in 196..223 /\ b % 32 = b - 192
    BY DEF WithTrail
  <1>6. CASE b \in 196..201
    BY <1>1, <1>5, <1>6
  <1>7. CASE b \in 202..216
    BY <1>1, <1>2, <1>3, <1>5, <1>7
  <1>8. CASE b \in 217..223
    BY <1>3, <1>4, <1>5, <1>8
  <1> QED  BY <1>5, <1>6, <1>7, <1>8

\* Sizes are waited for in the states of the first bytes.
LEMMA FormSizes ==
    ASSUME NEW c \in 4..34
    PROVE  Form(c) \in {"strSize", "binSize", "extSize", "array", "map"} =>
               c \in 4..9 \cup 25..31
  <1>1. c \in 10..19 => Form(c) = "number"
    <2> SUFFICES ASSUME c \in 10..19 PROVE Form(c) = "number"
      OBVIOUS
    <2>1. /\ c \notin 4..6 /\ c \notin 7..9 /\ c \notin 20..24 /\ c \notin 25..27
          /\ c \notin 28..29 /\ c \notin 30..31 /\ c # 32 /\ c # 33 /\ c # 34
      OBVIOUS
    <2> QED  BY <2>1, Zenon DEF Form, ACS
  <1>2. c \in 20..24 \/ c = 34 => Form(c) = "ext"
    <2> SUFFICES ASSUME c \in 20..24 \/ c = 34 PROVE Form(c) = "ext"
      OBVIOUS
    <2>1. /\ c \notin 4..6 /\ c \notin 7..9 /\ c \notin 10..19 /\ c \notin 25..27
          /\ c \notin 28..29 /\ c \notin 30..31 /\ c # 32 /\ c # 33
      OBVIOUS
    <2> QED  BY <2>1, Zenon DEF Form, ACS
  <1>3. c = 32 => Form(c) = "str"
    BY DEF Form, ACS
  <1>4. c = 33 => Form(c) = "bin"
    BY DEF Form, ACS
  <1>5. c \in 4..9 \cup 25..31 \/ c \in 10..19 \/ (c \in 20..24 \/ c = 34) \/ c = 32 \/ c = 33
    OBVIOUS
  <1> QED  BY <1>1, <1>2, <1>3, <1>4, <1>5

LEMMA LoadIsNat ==
    ASSUME NEW s \in Seq(0..256), Len(s) \in {1, 2, 4}
    PROVE  Load(s) \in Nat
  <1>a. \A i \in 1..Len(s) : s[i] \in 0..256
    <2>1. PICK S : S = 0..256
      OBVIOUS
    <2>2. s \in Seq(S)
      BY <2>1
    <2>3. \A i \in 1..Len(s) : s[i] \in S
      BY <2>2, ElementOfSeq
    <2> QED  BY <2>1, <2>3
  <1>b. \A x \in 0..256 : x \in Nat
    OBVIOUS
  <1>1. \A i \in 1..Len(s) : s[i] \in Nat
    BY <1>a, <1>b, Zenon
  <1>2. CASE Len(s) = 1
    <2>1. Load(s) = s[1]
      BY <1>2 DEF Load
    <2> QED  BY <1>1, <1>2, <2>1
  <1>3. CASE Len(s) = 2
    <2>1. Load(s) = s[1] * 256 + s[1 + 1]
      BY <1>3 DEF Load
    <2>2. s[1] \in Nat /\ s[2] \in Nat
      BY <1>1, <1>3
    <2> QED  BY <2>1, <2>2
  <1>4. CASE Len(s) = 4
    <2>1. Load(s) = (s[1] * 256 + s[1 + 1]) * 65536 + (s[1 + 2] * 256 + s[(1 + 2) + 1])
      BY <1>4 DEF Load
    <2>2. s[1] \in Nat /\ s[2] \in Nat /\ s[3] \in Nat /\ s[4] \in Nat
      BY <1>1, <1>4
    <2>3. Load(s) = (s[1] * 256 + s[2]) * 65536 + (s[3] * 256 + s[4])
      BY <2>1
    <2>4. PICK a \in Nat, b \in Nat, c \in Nat, d \in Nat :
             a = s[1] /\ b = s[2] /\ c = s[3] /\ d = s[4]
      BY <2>2
    <2>5. Load(s) = (a * 256 + b) * 65536 + (c * 256 + d)
      BY <2>3, <2>4
    <2>6. (a * 256 + b) * 65536 + (c * 256 + d) \in Nat
      OBVIOUS
    <2> QED  BY <2>5, <2>6
  <1> QED  BY <1>2, <1>3, <1>4

LEMMA BytesAreBytes ==
    ASSUME NEW from \in Nat, NEW n \in Nat, mem[buffer].data \in Seq(0..256),
           from + n <= Len(mem[buffer].data)
    PROVE  Bytes(from, n) \in Seq(0..256) /\ Len(Bytes(from, n)) = n
  <1>1. \A i \in 1..n : Byte(from + i - 1) \in 0..256
    <2>1. PICK s \in Seq(0..256) : s = mem[buffer].data
      OBVIOUS
    <2>2. Len(s) \in Nat /\ \A j \in 1..Len(s) : s[j] \in 0..256
      BY <2>1, ElementOfSeq, LenProperties
    <2> TAKE i \in 1..n
    <2>3. from + i - 1 + 1 \in 1..Len(s)
      BY <2>1, <2>2
    <2> QED  BY <2>1, <2>2, <2>3 DEF Byte
  <1>2. Bytes(from, n) \in [1..n -> 0..256]
    BY <1>1 DEF Bytes
  <1> QED  BY <1>2

LEMMA GarbageParts ==
    ASSUME NEW n \in Nat
    PROVE  Garbage(n) \in Seq(0..256) /\ Len(Garbage(n)) = n
  <1>1. Garbage(n) \in [1..n -> 0..256]
    BY DEF Garbage
  <1> QED  BY <1>1

-----------------------------------------------------------------------------
(***************************************************************************)
(* What does not depend on the sizes of buffers                            *)
(***************************************************************************)
\* Values keep pointing into allowed buffers when more are allowed, more of the
\* buffer is parsed, or the unpacker goes on in a buffer they do not point into.
LEMMA PointingKept ==
    ASSUME NEW its, NEW S, NEW T, NEW b, NEW c, NEW p \in Nat, NEW q \in Nat,
           Pointing(its, S, b, p), S \subseteq T, (b = c /\ p <= q) \/ c \notin S
    PROVE  Pointing(its, T, c, q)
  <1>1. ASSUME NEW i \in 1..Len(its) PROVE PointsInto(its[i], T, c, q)
    <2>1. PICK item : item = its[i] /\ PointsInto(item, S, b, p)
      BY DEF Pointing
    <2>2. CASE "buf" \in DOMAIN item
      <3>1. /\ item.buf \in S /\ item.from \in Nat /\ item.len \in Nat
            /\ item.buf = b => item.from + item.len <= p
        BY <2>1, <2>2 DEF PointsInto
      <3>2. item.buf = c => item.from + item.len <= q
        BY <3>1
      <3>3. item.buf \in T
        BY <3>1
      <3> QED  BY <2>1, <3>1, <3>2, <3>3 DEF PointsInto
    <2>3. CASE "buf" \notin DOMAIN item
      BY <2>1, <2>3 DEF PointsInto
    <2> QED  BY <2>2, <2>3
  <1> QED  BY <1>1 DEF Pointing

LEMMA FunctionIsSeq ==
    ASSUME NEW S, NEW n \in Nat, NEW f \in [1..n -> S]
    PROVE  f \in Seq(S) /\ Len(f) = n
  OBVIOUS

\* Only the contents of buffers change.
LEMMA SameCounts ==
    ASSUME NEW m, NEW n, NEW own, NEW z, NEW hs, Counted(m, own, z, hs),
           DOMAIN n = DOMAIN m, \A b \in DOMAIN m : n[b].count = m[b].count
    PROVE  Counted(n, own, z, hs)
  BY DEF Counted

\* What a step leaves of the contents: all of the other buffers, and of the
\* unpacker's own the size and what was parsed.
Kept ==
    \A b \in DOMAIN mem \cap DOMAIN mem' :
        IF b = buffer THEN /\ Len(mem'[b].data) = Len(mem[b].data)
                           /\ \A i \in 1..off : mem'[b].data[i] = mem[b].data[i]
        ELSE mem'[b].data = mem[b].data

LEMMA KeptSame ==
    ASSUME \A b \in DOMAIN mem \cap DOMAIN mem' : mem'[b].data = mem[b].data
    PROVE  Kept
  BY DEF Kept

\* The parts of the state in which a buffer is in use.
LEMMA Parts ==
    ASSUME Inv
    PROVE  /\ IsFiniteSet(DOMAIN mem) /\ mem \in [DOMAIN mem -> Block]
           /\ Chain(zone, DOMAIN mem) /\ Range(zone) \subseteq DOMAIN mem
           /\ IsFiniteSet(held)
           /\ \A h \in held : Chain(h.fins, DOMAIN mem) /\ Range(h.fins) \subseteq DOMAIN mem
           /\ Alive => buffer \in DOMAIN mem /\ buffer \notin Range(zone) /\ Own = {buffer}
           /\ \A b \in DOMAIN mem : mem[b].count = Total(Own, zone, held, b)
  <1>1. \A z : Chain(z, DOMAIN mem) => Range(z) \subseteq DOMAIN mem
    BY ListParts DEF Chain
  <1> QED  BY <1>1 DEF Inv, CountInv, Counted, Blocks, Own

-----------------------------------------------------------------------------
(***************************************************************************)
(* The invariant holds initially                                           *)
(***************************************************************************)
LEMMA InvInit == Init => Inv
  <1> SUFFICES ASSUME Init PROVE Inv
    OBVIOUS
  <1> USE SizesAssumption, BytesAssumption
  <1>1. PICK size : size = IF InitialSize - COUNTER_SIZE >= MaxRead THEN InitialSize
                           ELSE Doubled(2 * InitialSize, MaxRead + COUNTER_SIZE)
    OBVIOUS
  <1>0. Len(Encoded) \in Nat
    BY LenProperties
  <1>2. size \in Nat /\ size >= MaxRead + COUNTER_SIZE
    <2>1. CASE InitialSize - COUNTER_SIZE >= MaxRead
      BY <1>1, <2>1
    <2>2. CASE ~(InitialSize - COUNTER_SIZE >= MaxRead)
      <3>1. /\ 2 * InitialSize \in Nat /\ MaxRead + COUNTER_SIZE \in Nat
            /\ InitialSize <= 2 * InitialSize
            /\ MaxRead + COUNTER_SIZE <= MaxRead + Len(Encoded) + COUNTER_SIZE
        BY <1>0
      <3>2. size = Doubled(2 * InitialSize, MaxRead + COUNTER_SIZE)
        BY <1>1, <2>2
      <3> QED  BY <3>1, <3>2, DoubledEnough
    <2> QED  BY <2>1, <2>2
  <1>3. /\ room = size - COUNTER_SIZE /\ used = COUNTER_SIZE /\ off = COUNTER_SIZE
        /\ buffer = 1 /\ zone = <<>> /\ held = {} /\ items = <<>> /\ delivered = 0
        /\ wire = Encoded /\ pc = "read" /\ referenced = FALSE /\ cs = CS_HEADER /\ trail = 0
    BY <1>1 DEF Init
  <1>4. used + room = size /\ room \in Nat
    BY <1>2, <1>3
  <1>5. mem = [b \in {1} |-> [data |-> Garbage(size), count |-> 1]]
    BY <1>4 DEF Init
  <1>6. Garbage(size) \in Seq(0..256) /\ Len(Garbage(size)) = size
    BY <1>2, GarbageParts
  <1>7. SizeInv
    <2>1. Len(mem[buffer].data) = size
      BY <1>3, <1>5, <1>6
    <2>2. wire \in Seq(0..255)
      BY <1>3
    <2> QED  BY <1>0, <1>2, <1>3, <1>4, <2>1, <2>2 DEF SizeInv
  <1>8. ParseInv
    BY <1>3 DEF ParseInv, CS_HEADER
  <1>9. Blocks(mem)
    <2>1. IsFiniteSet({1}) /\ DOMAIN mem = {1}
      BY <1>5, FS_Singleton
    <2>2. [data |-> Garbage(size), count |-> 1] \in Block
      BY <1>6 DEF Block
    <2> QED  BY <1>5, <2>1, <2>2 DEF Blocks
  <1>10. Counted(mem, Own, zone, held)
    <2>1. Chain(zone, DOMAIN mem) /\ Range(zone) = {} /\ IsFiniteSet(held)
      BY <1>3, ChainEmpty, FS_EmptySet
    <2>2. Own = {1}
      BY <1>3 DEF Own, Alive
    <2>3. PICK x \in {0, 1}, y \in {0, 1}, n \in Nat : Adds(Own, zone, held, 1, x, y, n)
      BY <2>1, TotalParts DEF Splits
    <2>4. x = 1 /\ y = 0 /\ n = 0
      BY <1>3, <2>1, <2>2, <2>3 DEF Adds
    <2>5. Total(Own, zone, held, 1) = 1
      BY <2>3, <2>4 DEF Adds
    <2>6. DOMAIN mem = {1} /\ mem[1].count = 1
      BY <1>5
    <2> QED  BY <1>3, <2>1, <2>2, <2>5, <2>6 DEF Counted
  <1>11. HeldInv /\ CleanStart
    BY <1>3 DEF HeldInv, CleanStart
  <1>12. RefInv
    <2>1. <<>> \in Seq(Range(<<>>)) /\ Len(<<>>) = 0
      OBVIOUS
    <2> QED  BY <1>3, <2>1 DEF RefInv, Pointing
  <1> QED  BY <1>3, <1>7, <1>8, <1>9, <1>10, <1>11, <1>12 DEF Inv, CountInv

-----------------------------------------------------------------------------
(***************************************************************************)
(* Reading                                                                 *)
(***************************************************************************)
LEMMA ReadSomeKeeps ==
    ASSUME Inv, ReadSome
    PROVE  Inv' /\ Kept
  <1> USE SizesAssumption
  <1>1. PICK n \in ReadSizes :
          /\ n <= Len(wire)
          /\ mem' = [mem EXCEPT ![buffer].data =
                       [i \in 1..Max({Len(@), used + n}) |->
                           IF i \in (used + 1)..(used + n) THEN wire[i - used] ELSE @[i]]]
          /\ wire' = SubSeq(wire, n + 1, Len(wire))
          /\ used' = used + n /\ room' = room - n
    BY DEF ReadSome
  <1>2. /\ pc = "read" /\ pc' = "next"
        /\ UNCHANGED <<buffer, off, cs, trail, items, referenced, zone, held, delivered>>
    BY DEF ReadSome, parserVars
  <1>3. n \in Nat /\ n <= MaxRead
    OBVIOUS
  <1>a. /\ n <= Len(wire) /\ wire' = SubSeq(wire, n + 1, Len(wire))
        /\ used' = used + n /\ room' = room - n
    BY <1>1
  <1>4. Alive /\ Alive' /\ Own' = Own
    BY <1>2 DEF Alive, Own
  <1>5. /\ used \in Nat /\ room \in Nat /\ off \in Nat /\ COUNTER_SIZE <= off /\ off <= used
        /\ wire \in Seq(0..255) /\ used + room >= MaxRead + COUNTER_SIZE
        /\ used + Len(wire) <= COUNTER_SIZE + Len(Encoded)
        /\ room >= MaxRead /\ used + room = Len(mem[buffer].data)
    BY <1>2, <1>4 DEF Inv, SizeInv
  <1>6. buffer \in DOMAIN mem /\ mem \in [DOMAIN mem -> Block]
    BY <1>4, Parts
  <1>7. PICK old : old = mem[buffer].data /\ old \in Seq(0..256) /\ Len(old) = used + room
    BY <1>5, <1>6 DEF Block
  <1>8. Max({Len(old), used + n}) = Len(old)
    <2>1. Len(old) \in Nat /\ used + n \in Nat /\ used + n <= Len(old)
      BY <1>3, <1>5, <1>7
    <2> QED  BY <2>1, MaxOfTwo
  <1> DEFINE D == [i \in 1..Len(old) |->
                      IF i \in (used + 1)..(used + n) THEN wire[i - used] ELSE old[i]]
  <1>9. mem' = [mem EXCEPT ![buffer].data = D]
    BY <1>1, <1>7, <1>8
  <1>10. D \in Seq(0..256) /\ Len(D) = Len(old) /\ \A i \in 1..used : D[i] = old[i]
    <2>1. Len(wire) \in Nat /\ \A i \in 1..Len(wire) : wire[i] \in 0..256
      <3>1. PICK S : S = 0..255
        OBVIOUS
      <3>2. wire \in Seq(S)
        BY <1>5, <3>1
      <3>3. Len(wire) \in Nat /\ \A i \in 1..Len(wire) : wire[i] \in S
        BY <3>2, ElementOfSeq, LenProperties
      <3>4. \A x \in S : x \in 0..256
        BY <3>1
      <3> QED  BY <3>3, <3>4
    <2>2. Len(old) \in Nat /\ \A i \in 1..Len(old) : old[i] \in 0..256
      <3>1. PICK S : S = 0..256
        OBVIOUS
      <3>2. old \in Seq(S)
        BY <1>7, <3>1
      <3>3. Len(old) \in Nat /\ \A i \in 1..Len(old) : old[i] \in S
        BY <3>2, ElementOfSeq, LenProperties
      <3> QED  BY <3>1, <3>3
    <2>3. \A i \in 1..Len(old) : i \in (used + 1)..(used + n) => i - used \in 1..Len(wire)
      BY <1>3, <1>5, <1>a, <2>1
    <2>4. \A i \in 1..Len(old) : D[i] \in 0..256
      BY <2>1, <2>2, <2>3
    <2>5. D \in [1..Len(old) -> 0..256]
      BY <2>4
    <2>6. \A i \in 1..used : i \in 1..Len(old) /\ ~(i \in (used + 1)..(used + n))
      BY <1>3, <1>5, <1>7
    <2>7. \A i \in 1..used : D[i] = old[i]
      BY <2>6
    <2> HIDE DEF D
    <2>8. D \in Seq(0..256) /\ Len(D) = Len(old)
      BY <2>2, <2>5, FunctionIsSeq
    <2> QED  BY <2>7, <2>8
  <1> HIDE DEF D
  <1>11. /\ DOMAIN mem' = DOMAIN mem
         /\ mem'[buffer] = [mem[buffer] EXCEPT !.data = D]
         /\ \A b \in DOMAIN mem : b # buffer => mem'[b] = mem[b]
    BY <1>6, <1>9
  <1>12. mem'[buffer] \in Block /\ mem'[buffer].data = D /\ mem'[buffer].count = mem[buffer].count
    <2>1. PICK m \in Block : m = mem[buffer]
      BY <1>6
    <2>2. PICK d, S : d = D /\ S = 0..256 /\ d \in Seq(S)
      BY <1>10
    <2>3. Block = [data : Seq(S), count : Nat \ {0}]
      BY <2>2 DEF Block
    <2>4. /\ [m EXCEPT !.data = d] \in Block
          /\ [m EXCEPT !.data = d].data = d /\ [m EXCEPT !.data = d].count = m.count
      BY <2>1, <2>2, <2>3
    <2> QED  BY <1>11, <2>1, <2>2, <2>4
  <1>13. \A b \in DOMAIN mem : mem'[b] \in Block /\ mem'[b].count = mem[b].count
    BY <1>6, <1>11, <1>12
  <1>14. SizeInv'
    <2>1. wire' \in Seq(0..255) /\ Len(wire') = Len(wire) - n /\ Len(wire) \in Nat
      <3>1. PICK S : S = 0..255
        OBVIOUS
      <3>2. wire \in Seq(S) /\ Len(wire) \in Nat
        BY <1>5, <3>1, LenProperties
      <3>3. n + 1 \in 1..(Len(wire) + 1)
        BY <1>3, <1>a, <3>2
      <3>4. \A i \in (n + 1)..Len(wire) : i \in 1..Len(wire)
        BY <1>3, <3>2
      <3>5. SubSeq(wire, n + 1, Len(wire)) \in Seq(S)
        BY <3>2, <3>3, <3>4, SubSeqProperties
      <3>6. Len(SubSeq(wire, n + 1, Len(wire))) = Len(wire) - n
        BY <1>3, <1>a, <3>2, <3>3, SubSeqProperties
      <3> QED  BY <1>a, <3>1, <3>2, <3>5, <3>6
    <2>2. used' + room' = Len(mem'[buffer'].data)
      <3>1. Len(mem'[buffer'].data) = used + room
        BY <1>2, <1>7, <1>10, <1>12
      <3> QED  BY <1>3, <1>5, <1>a, <3>1
    <2>3. used' \in Nat /\ room' \in Nat /\ off' \in Nat /\ COUNTER_SIZE <= off' /\ off' <= used'
      BY <1>2, <1>3, <1>5, <1>a
    <2>4. used' + room' >= MaxRead + COUNTER_SIZE
      BY <1>3, <1>5, <1>a
    <2>5. used' + Len(wire') <= COUNTER_SIZE + Len(Encoded)
      <3>1. PICK a, l : a \in Nat /\ a = Len(wire) /\ l = Len(wire') /\ l = a - n
        BY <2>1
      <3>2. used \in Nat /\ used' = used + n /\ used + a <= COUNTER_SIZE + Len(Encoded)
        BY <1>5, <1>a, <3>1
      <3>3. used' + l = used + a
        BY <1>3, <3>1, <3>2
      <3> QED  BY <3>1, <3>2, <3>3
    <2> QED  BY <1>2, <2>1, <2>2, <2>3, <2>4, <2>5 DEF SizeInv
  <1>15. CountInv'
    <2>1. Blocks(mem')
      <3>1. mem' \in [DOMAIN mem' -> Block]
        BY <1>9, <1>11, <1>13
      <3> QED  BY <1>11, <3>1, Parts DEF Blocks
    <2>2. Counted(mem', Own, zone, held)
      BY <1>11, <1>13, SameCounts DEF Inv, CountInv
    <2> QED  BY <1>2, <1>4, <2>1, <2>2 DEF CountInv
  <1>16. ParseInv' /\ HeldInv' /\ CleanStart' /\ RefInv' /\ (referenced \in BOOLEAN)'
    BY <1>2, <1>4 DEF Inv, ParseInv, HeldInv, CleanStart, RefInv, OwnBuffers
  <1>17. Kept
    <2>1. \A i \in 1..off : mem'[buffer].data[i] = mem[buffer].data[i]
      BY <1>5, <1>7, <1>10, <1>12
    <2>2. Len(mem'[buffer].data) = Len(mem[buffer].data)
      BY <1>7, <1>10, <1>12
    <2> QED  BY <1>11, <2>1, <2>2 DEF Kept
  <1> QED  BY <1>14, <1>15, <1>16, <1>17 DEF Inv

LEMMA NextFalseKeeps ==
    ASSUME Inv, NextFalse
    PROVE  Inv' /\ Kept
  <1>1. /\ pc = "next" /\ pc' = "reserve"
        /\ UNCHANGED <<wire, mem, buffer, used, room, off, cs, trail, items, referenced, zone, held,
                       delivered>>
    BY DEF NextFalse, sizeVars, parserVars
  <1>2. Alive /\ Alive' /\ Own' = Own
    BY <1>1 DEF Alive, Own
  <1>3. SizeInv' /\ CountInv'
    BY <1>1, <1>2 DEF Inv, SizeInv, CountInv
  <1>4. ParseInv' /\ HeldInv' /\ CleanStart' /\ RefInv' /\ (referenced \in BOOLEAN)'
    BY <1>1, <1>2 DEF Inv, ParseInv, HeldInv, CleanStart, RefInv, OwnBuffers
  <1> QED  BY <1>1, <1>3, <1>4, KeptSame DEF Inv

-----------------------------------------------------------------------------
(***************************************************************************)
(* Giving up buffers                                                       *)
(***************************************************************************)
\* The sizes do not change, and an unpacker that is alive keeps its buffer.
LEMMA SizesStay ==
    ASSUME Inv, UNCHANGED <<wire, buffer, used, room, off>>,
           pc' = pc \/ (pc' = "ended"),
           pc' # "ended" => mem'[buffer].data = mem[buffer].data
    PROVE  SizeInv'
  <1>1. pc' # "ended" => pc' = pc /\ Alive
    BY DEF Alive
  <1> QED  BY <1>1 DEF Inv, SizeInv, Alive

LEMMA ReleaseKeeps ==
    ASSUME Inv, Release
    PROVE  Inv' /\ Kept
  <1>1. PICK h \in held : /\ held' = held \ {h}
                          /\ mem' = Decr(mem, h.fins)
    BY DEF Release
  <1>2. UNCHANGED <<wire, pc, buffer, used, room, off, cs, trail, items, referenced, zone, delivered>>
    BY DEF Release, sizeVars, parserVars
  <1>3. Alive' = Alive /\ Own' = Own
    BY <1>2 DEF Alive, Own
  <1>4. /\ IsFiniteSet(held) /\ Chain(zone, DOMAIN mem)
        /\ \A g \in held : Chain(g.fins, DOMAIN mem)
        /\ Own \subseteq DOMAIN mem /\ Own \cap Range(zone) = {} /\ Blocks(mem)
        /\ \A b \in DOMAIN mem : mem[b].count = Total(Own, zone, held, b)
    BY DEF Inv, CountInv, Counted
  <1>5. PICK hs : hs = held \ {h} /\ IsFiniteSet(hs)
    BY <1>4, FS_RemoveElement
  <1>6. ASSUME NEW b \in DOMAIN mem
        PROVE  mem[b].count - Occ(h.fins, b) = Total(Own, zone, hs, b)
    <2>1. PICK k \in {0, 1} : k = IF b \in Range(h.fins) THEN 1 ELSE 0
      OBVIOUS
    <2>2. Occ(h.fins, b) = k
      BY <1>4, <2>1, ChainOcc
    <2>3. PICK x \in {0, 1}, y \in {0, 1}, n \in Nat : Adds(Own, zone, held, b, x, y, n)
      BY <1>4, TotalParts DEF Splits
    <2>4. PICK v \in {0, 1}, w \in {0, 1}, l \in Nat : Adds(Own, zone, hs, b, v, w, l)
      <3>1. Chain(zone, DOMAIN mem) /\ IsFiniteSet(hs)
        BY <1>4, <1>5
      <3> QED  BY <3>1, TotalParts DEF Splits
    <2>5. v = x /\ w = y
      BY <2>3, <2>4 DEF Adds
    <2>6. l = n - k
      <3>1. n = Cardinality(Users(held, b)) /\ l = Cardinality(Users(hs, b))
        BY <2>3, <2>4 DEF Adds
      <3>2. Cardinality(Users(held \ {h}, b)) =
                Cardinality(Users(held, b)) - (IF b \in Range(h.fins) THEN 1 ELSE 0)
        BY <1>4, UsersRemove
      <3> QED  BY <1>5, <2>1, <3>1, <3>2
    <2>7. mem[b].count = x + y + n /\ Total(Own, zone, hs, b) = v + w + l
      BY <1>4, <2>3, <2>4 DEF Adds
    <2> QED  BY <2>2, <2>5, <2>6, <2>7
  <1>7. \A g \in hs : Chain(g.fins, DOMAIN mem)
    BY <1>4, <1>5
  <1>8. /\ Blocks(mem') /\ Counted(mem', Own, zone, hs)
        /\ DOMAIN mem' \subseteq DOMAIN mem
        /\ \A b \in DOMAIN mem' : mem'[b].data = mem[b].data
    <2>1. Remaining(mem, h.fins, Own, zone, hs)
      BY <1>4, <1>5, <1>6, <1>7 DEF Remaining
    <2>2. Reduced(mem, Decr(mem, h.fins), Own, zone, hs)
      BY <2>1, DecrCounted
    <2> QED  BY <1>1, <2>2 DEF Reduced
  <1>9. CountInv'
    BY <1>1, <1>2, <1>3, <1>5, <1>8 DEF CountInv
  <1>10. SizeInv'
    <2>1. pc' # "ended" => buffer \in DOMAIN mem'
      BY <1>2, <1>3, <1>8 DEF Counted, Own, Alive
    <2> QED  BY <1>2, <1>8, <2>1, SizesStay
  <1>11. ParseInv' /\ HeldInv' /\ CleanStart' /\ RefInv' /\ (referenced \in BOOLEAN)'
    <2>1. \A g \in held' : g \in held
      BY <1>1
    <2> QED  BY <1>2, <1>3, <2>1 DEF Inv, ParseInv, HeldInv, CleanStart, RefInv, OwnBuffers
  <1> QED  BY <1>8, <1>9, <1>10, <1>11, KeptSame DEF Inv

LEMMA EndsKeeps ==
    ASSUME Inv, Ends
    PROVE  Inv' /\ Kept
  <1>1. /\ pc \in {"read", "next"} /\ pc' = "ended" /\ zone' = <<>> /\ items' = <<>>
        /\ mem' = Decr(mem, Append(zone, buffer))
        /\ UNCHANGED <<wire, buffer, used, room, off, cs, trail, referenced, held, delivered>>
    BY DEF Ends, sizeVars
  <1>2. Alive /\ ~Alive' /\ Own = {buffer} /\ Own' = {}
    BY <1>1 DEF Alive, Own
  <1>3. /\ IsFiniteSet(held) /\ Chain(zone, DOMAIN mem)
        /\ \A g \in held : Chain(g.fins, DOMAIN mem)
        /\ buffer \in DOMAIN mem /\ buffer \notin Range(zone) /\ Blocks(mem)
        /\ \A b \in DOMAIN mem : mem[b].count = Total(Own, zone, held, b)
    BY <1>2 DEF Inv, CountInv, Counted
  <1>a. /\ Chain(Append(zone, buffer), DOMAIN mem)
        /\ Range(Append(zone, buffer)) = Range(zone) \cup {buffer}
    BY <1>3, ChainAppend
  <1>4. PICK z : z = Append(zone, buffer) /\ Chain(z, DOMAIN mem) /\ Range(z) = Range(zone) \cup {buffer}
    BY <1>a
  <1>5. Chain(<<>>, DOMAIN mem) /\ Range(<<>>) = {}
    BY ChainEmpty
  <1>6. PICK e, none : e = <<>> /\ none = {}
    OBVIOUS
  <1>7. ASSUME NEW b \in DOMAIN mem
        PROVE  mem[b].count - Occ(z, b) = Total(none, e, held, b)
    <2>1. PICK x \in {0, 1}, y \in {0, 1}, n \in Nat : Adds(Own, zone, held, b, x, y, n)
      BY <1>3, TotalParts DEF Splits
    <2>2. PICK v \in {0, 1}, w \in {0, 1}, l \in Nat : Adds(none, e, held, b, v, w, l)
      BY <1>3, <1>5, <1>6, TotalParts DEF Splits
    <2>3. v = 0 /\ w = 0 /\ l = n
      BY <1>5, <1>6, <2>1, <2>2 DEF Adds
    <2>4. Occ(z, b) = x + y
      <3>1. Occ(z, b) = IF b \in Range(z) THEN 1 ELSE 0
        BY <1>4, ChainOcc
      <3>2. (x = 1 <=> b = buffer) /\ (y = 1 <=> b \in Range(zone))
        BY <1>2, <2>1 DEF Adds
      <3> QED  BY <1>3, <1>4, <3>1, <3>2
    <2>5. mem[b].count = x + y + n /\ Total(none, e, held, b) = v + w + l
      BY <1>3, <2>1, <2>2 DEF Adds
    <2> QED  BY <2>3, <2>4, <2>5
  <1>8. Chain(e, DOMAIN mem) /\ none \subseteq DOMAIN mem /\ none \cap Range(e) = {}
    BY <1>5, <1>6
  <1>9. Reduced(mem, Decr(mem, z), none, e, held)
    <2>1. Remaining(mem, z, none, e, held)
      BY <1>3, <1>7, <1>8 DEF Remaining
    <2> QED  BY <2>1, DecrCounted
  <1>10. mem' = Decr(mem, z)
    BY <1>1, <1>4
  <1>11. CountInv'
    BY <1>1, <1>2, <1>6, <1>9, <1>10 DEF CountInv, Reduced
  <1>12. SizeInv'
    BY <1>1, SizesStay
  <1>13. ParseInv' /\ HeldInv' /\ CleanStart' /\ (referenced \in BOOLEAN)'
    BY <1>1, <1>2 DEF Inv, ParseInv, HeldInv, CleanStart
  <1>14. RefInv'
    <2>1. <<>> \in Seq(Range(<<>>)) /\ Len(<<>>) = 0
      OBVIOUS
    <2> QED  BY <1>1, <2>1 DEF Inv, RefInv, Pointing
  <1> QED  BY <1>9, <1>10, <1>11, <1>12, <1>13, <1>14, KeptSame DEF Inv, Reduced

-----------------------------------------------------------------------------
(***************************************************************************)
(* reserve_buffer()                                                        *)
(***************************************************************************)
\* What holds when more room is needed, in plain facts.
LEMMA Reserving ==
    ASSUME Inv, pc = "reserve"
    PROVE  /\ used \in Nat /\ room \in Nat /\ off \in Nat /\ COUNTER_SIZE <= off /\ off <= used
           /\ wire \in Seq(0..255) /\ Len(wire) \in Nat
           /\ used + room >= MaxRead + COUNTER_SIZE
           /\ used + Len(wire) <= COUNTER_SIZE + Len(Encoded) /\ Len(Encoded) \in Nat
           /\ used + room = Len(mem[buffer].data)
           /\ buffer \in DOMAIN mem /\ buffer \notin Range(zone) /\ Own = {buffer}
           /\ mem[buffer] \in Block /\ mem[buffer].data \in Seq(0..256)
  <1>1. Alive
    BY DEF Alive
  <1>2. buffer \in DOMAIN mem /\ buffer \notin Range(zone) /\ Own = {buffer} /\ mem[buffer] \in Block
    BY <1>1, Parts
  <1>3. mem[buffer].data \in Seq(0..256)
    BY <1>2 DEF Block
  <1>4. Len(Encoded) \in Nat
    BY BytesAssumption, LenProperties
  <1>5. wire \in Seq(0..255)
    BY DEF Inv, SizeInv
  <1>6. Len(wire) \in Nat
    BY <1>5, LenProperties
  <1> QED  BY <1>1, <1>2, <1>3, <1>4, <1>5, <1>6 DEF Inv, SizeInv

LEMMA EnoughKeeps ==
    ASSUME Inv, pc = "reserve", pc' = "read", room >= MaxRead,
           UNCHANGED <<mem, sizeVars, off, zone, referenced>>,
           UNCHANGED <<wire, cs, trail, stack, items, held, delivered>>
    PROVE  Inv' /\ Kept
  <1>1. Alive /\ Alive' /\ Own' = Own /\ UNCHANGED <<buffer, used, room>>
    BY DEF Alive, Own, sizeVars
  <1>2. SizeInv' /\ CountInv'
    BY <1>1 DEF Inv, SizeInv, CountInv
  <1>3. ParseInv' /\ HeldInv' /\ CleanStart' /\ RefInv' /\ (referenced \in BOOLEAN)'
    BY <1>1 DEF Inv, ParseInv, HeldInv, CleanStart, RefInv, OwnBuffers
  <1> QED  BY <1>2, <1>3, KeptSame DEF Inv

LEMMA RewindKeeps ==
    ASSUME Inv, pc = "reserve", pc' = "read", MayRewind, Rewind,
           UNCHANGED <<wire, cs, trail, stack, items, held, delivered>>
    PROVE  Inv' /\ Kept
  <1> USE SizesAssumption
  <1>1. /\ used = off /\ mem[buffer].count = 1 /\ ~referenced
        /\ room' = room + used - COUNTER_SIZE /\ used' = COUNTER_SIZE /\ off' = COUNTER_SIZE
        /\ UNCHANGED <<mem, buffer, zone, referenced>>
    BY DEF MayRewind, Rewind
  <1>2. Alive /\ Alive' /\ Own' = Own
    BY <1>1 DEF Alive, Own
  <1>3. SizeInv'
    <2>1. room' \in Nat /\ room' >= MaxRead /\ used' + room' = used + room
      BY <1>1, Reserving
    <2>2. used' <= used
      BY <1>1, Reserving
    <2>3. /\ used' \in Nat /\ off' \in Nat /\ COUNTER_SIZE <= off' /\ off' <= used'
          /\ used' + room' >= MaxRead + COUNTER_SIZE
          /\ used' + room' = Len(mem'[buffer'].data)
      BY <1>1, <2>1, Reserving
    <2>4. used' + Len(wire') <= COUNTER_SIZE + Len(Encoded)
      <3>1. /\ Len(wire') = Len(wire) /\ Len(wire) \in Nat /\ Len(Encoded) \in Nat /\ used \in Nat
            /\ used + Len(wire) <= COUNTER_SIZE + Len(Encoded)
        BY Reserving
      <3> QED  BY <2>2, <2>3, <3>1
    <2>5. wire' \in Seq(0..255)
      BY Reserving
    <2> QED  BY <2>1, <2>3, <2>4, <2>5 DEF SizeInv
  <1>4. CountInv'
    BY <1>1, <1>2 DEF Inv, CountInv
  <1>5. \A h \in held : buffer \notin Range(h.fins)
    <2>1. PICK x \in {0, 1}, y \in {0, 1}, n \in Nat : Adds(Own, zone, held, buffer, x, y, n)
      BY Parts, TotalParts DEF Splits
    <2>2. mem[buffer].count = x + y + n
      BY <2>1, Reserving, Parts DEF Adds
    <2>3. x = 1
      BY <2>1, Reserving DEF Adds
    <2>4. n = 0
      BY <1>1, <2>2, <2>3
    <2> QED  BY <2>1, <2>4 DEF Adds
  <1>6. ParseInv' /\ HeldInv' /\ CleanStart' /\ (referenced \in BOOLEAN)'
    BY <1>1, <1>5 DEF Inv, ParseInv, HeldInv, CleanStart
  <1>7. RefInv'
    <2>1. off \in Nat /\ off' \in Nat
      BY <1>1, Reserving
    <2>2. ASSUME NEW h \in held PROVE Pointing(h.items, Range(h.fins), buffer, off')
      <3>1. Pointing(h.items, Range(h.fins), buffer, off)
        BY DEF Inv, RefInv
      <3> QED  BY <1>5, <2>1, <3>1, PointingKept
    <2>3. Pointing(items, Range(zone), buffer, off')
      <3>1. Pointing(items, Range(zone), buffer, off)
        BY <1>1 DEF Inv, RefInv, OwnBuffers
      <3> QED  BY <2>1, <3>1, Reserving, PointingKept
    <2> QED  BY <1>1, <2>2, <2>3 DEF RefInv, OwnBuffers
  <1> QED  BY <1>1, <1>3, <1>4, <1>6, <1>7, KeptSame DEF Inv

LEMMA GrowKeeps ==
    ASSUME Inv, pc = "reserve", pc' = "read", off = COUNTER_SIZE, Grow,
           UNCHANGED <<wire, cs, trail, stack, items, held, delivered>>
    PROVE  Inv' /\ Kept
  <1> USE SizesAssumption
  <1> DEFINE size == Doubled(2 * (used + room), MaxRead + used)
             data == SubSeq(mem[buffer].data, 1, used) \o Garbage(size - used)
             f    == Fresh
  <1>1. /\ mem' = [b \in (DOMAIN mem \cup {f}) \ {buffer} |->
                      IF b = f THEN [mem[buffer] EXCEPT !.data = data] ELSE mem[b]]
        /\ buffer' = f /\ room' = size - used
        /\ UNCHANGED <<used, off, zone, referenced>>
    BY DEF Grow
  <1>a. buffer' = f /\ room' = size - used /\ UNCHANGED <<used, off, zone, referenced>>
    BY <1>1
  <1> HIDE DEF size, data, f
  <1>2. Alive /\ Alive' /\ Own' = {f}
    BY <1>a DEF Alive, Own
  <1>3. size \in Nat /\ size >= MaxRead + used
    <2>1. PICK t \in Nat : t = used + room /\ MaxRead <= t /\ used <= t /\ used \in Nat
      BY Reserving
    <2>2. 2 * t \in Nat /\ MaxRead + used \in Nat /\ MaxRead + used <= 2 * t
      BY <2>1
    <2>3. size = Doubled(2 * t, MaxRead + used)
      BY <2>1 DEF size
    <2> QED  BY <2>2, <2>3, DoubledEnough
  <1>4. data \in Seq(0..256) /\ Len(data) = size
    <2>1. PICK S, s : S = 0..256 /\ s = mem[buffer].data
      OBVIOUS
    <2>2. s \in Seq(S) /\ used \in Nat /\ used <= Len(s) /\ Len(s) \in Nat
      BY <2>1, Reserving
    <2>3. \A i \in 1..used : s[i] \in S
      <3>1. \A i \in 1..used : i \in 1..Len(s)
        BY <2>2
      <3> QED  BY <2>2, <3>1, ElementOfSeq
    <2>4. SubSeq(s, 1, used) \in Seq(S) /\ Len(SubSeq(s, 1, used)) = used
      BY <2>2, <2>3, SubSeqProperties
    <2>5. size - used \in Nat
      BY <1>3, <2>2
    <2>6. Garbage(size - used) \in Seq(S) /\ Len(Garbage(size - used)) = size - used
      BY <2>1, <2>5, GarbageParts
    <2>7. PICK p, g : p = SubSeq(s, 1, used) /\ g = Garbage(size - used)
      OBVIOUS
    <2>8. p \in Seq(S) /\ g \in Seq(S) /\ Len(p) + Len(g) = size
      BY <1>3, <2>2, <2>4, <2>6, <2>7
    <2>9. p \o g \in Seq(S) /\ Len(p \o g) = size
      BY <2>8, ConcatProperties
    <2> QED  BY <2>1, <2>7, <2>9 DEF data
  <1>5. f \notin DOMAIN mem /\ f # buffer
    BY FreshIsNew, Reserving, Parts DEF f
  <1>6. /\ DOMAIN mem' = (DOMAIN mem \cup {f}) \ {buffer}
        /\ mem'[f] = [mem[buffer] EXCEPT !.data = data]
        /\ \A b \in DOMAIN mem \ {buffer} : mem'[b] = mem[b]
    BY <1>1, <1>5
  <1>7. mem'[f] \in Block /\ mem'[f].data = data /\ mem'[f].count = mem[buffer].count
    BY <1>4, <1>6, Reserving DEF Block
  <1>8. SizeInv'
    <2>1. /\ room' \in Nat /\ room' >= MaxRead /\ used' + room' = size /\ used' = used /\ off' = off
          /\ used' + room' >= MaxRead + COUNTER_SIZE
      <3>1. used \in Nat /\ used >= COUNTER_SIZE
        BY Reserving
      <3> QED  BY <1>3, <1>a, <3>1
    <2>2. Len(mem'[buffer'].data) = size
      BY <1>4, <1>7, <1>a
    <2>3. /\ used \in Nat /\ off \in Nat /\ COUNTER_SIZE <= off /\ off <= used
          /\ wire' \in Seq(0..255) /\ used + Len(wire') <= COUNTER_SIZE + Len(Encoded)
      BY Reserving
    <2> QED  BY <2>1, <2>2, <2>3 DEF SizeInv
  <1>9. ~referenced /\ \A h \in held : buffer \notin Range(h.fins)
    BY <1>2 DEF Inv, CleanStart
  <1>10. CountInv'
    <2>1. Blocks(mem')
      <3>1. IsFiniteSet(DOMAIN mem \cup {f})
        BY Parts, FS_AddElement
      <3>2. IsFiniteSet(DOMAIN mem')
        BY <1>6, <3>1, FS_RemoveElement
      <3>3. \A b \in DOMAIN mem' : mem'[b] \in Block
        BY <1>6, <1>7, Parts
      <3>4. mem' \in [DOMAIN mem' -> Block]
        BY <1>1, <1>6, <3>3
      <3> QED  BY <3>2, <3>4 DEF Blocks
    <2>2. PICK own, z, hs : own = {f} /\ z = zone /\ hs = held
      OBVIOUS
    <2>3. /\ Chain(z, DOMAIN mem) /\ Range(z) \subseteq DOMAIN mem /\ IsFiniteSet(hs)
          /\ \A h \in hs : Chain(h.fins, DOMAIN mem) /\ Range(h.fins) \subseteq DOMAIN mem
      BY <2>2, Parts
    <2>4. Range(z) \subseteq DOMAIN mem' /\ \A h \in hs : Range(h.fins) \subseteq DOMAIN mem'
      BY <1>5, <1>6, <1>9, <2>2, <2>3, Reserving
    <2>5. Chain(z, DOMAIN mem') /\ \A h \in hs : Chain(h.fins, DOMAIN mem')
      BY <2>3, <2>4, ChainOver
    <2>6. ASSUME NEW b \in DOMAIN mem' PROVE mem'[b].count = Total(own, z, hs, b)
      <3>1. PICK a : a = IF b = f THEN buffer ELSE b
        OBVIOUS
      <3>2. a \in DOMAIN mem /\ mem'[b].count = mem[a].count
        BY <1>5, <1>6, <1>7, <3>1, Reserving
      <3>3. PICK x \in {0, 1}, y \in {0, 1}, n \in Nat : Adds(Own, z, hs, a, x, y, n)
        BY <2>3, TotalParts DEF Splits
      <3>4. PICK v \in {0, 1}, w \in {0, 1}, l \in Nat : Adds(own, z, hs, b, v, w, l)
        BY <2>3, TotalParts DEF Splits
      <3>5. v = x
        BY <1>6, <2>2, <3>1, <3>3, <3>4, Reserving DEF Adds
      <3>6. w = y
        BY <1>5, <2>2, <2>3, <3>1, <3>3, <3>4, Reserving DEF Adds
      <3>7. l = n
        <4>1. CASE b = f
          <5>1. \A h \in hs : b \notin Range(h.fins) /\ a \notin Range(h.fins)
            BY <1>5, <1>9, <2>2, <2>3, <3>1, <4>1
          <5>2. l = 0 /\ n = 0
            BY <3>3, <3>4, <5>1 DEF Adds
          <5> QED  BY <5>2
        <4>2. CASE b # f
          BY <3>1, <3>3, <3>4, <4>2 DEF Adds
        <4> QED  BY <4>1, <4>2
      <3>8. mem[a].count = x + y + n /\ Total(own, z, hs, b) = v + w + l
        BY <2>2, <3>2, <3>3, <3>4, Parts DEF Adds
      <3> QED  BY <3>2, <3>5, <3>6, <3>7, <3>8
    <2>7. own \subseteq DOMAIN mem' /\ own \cap Range(z) = {}
      BY <1>5, <1>6, <2>2, <2>3
    <2>8. Counted(mem', own, z, hs)
      BY <2>3, <2>5, <2>6, <2>7 DEF Counted
    <2> QED  BY <1>2, <1>a, <2>1, <2>2, <2>8 DEF CountInv
  <1>11. ParseInv' /\ HeldInv' /\ (referenced \in BOOLEAN)'
    BY <1>a DEF Inv, ParseInv, HeldInv
  <1>12. \A h \in held : f \notin Range(h.fins)
    BY <1>5, Parts
  <1>13. CleanStart'
    BY <1>9, <1>12, <1>a DEF CleanStart
  <1>14. RefInv'
    <2>1. off \in Nat
      BY Reserving
    <2>2. ASSUME NEW h \in held PROVE Pointing(h.items, Range(h.fins), f, off)
      <3>1. Pointing(h.items, Range(h.fins), buffer, off) /\ f \notin Range(h.fins)
        BY <1>12 DEF Inv, RefInv
      <3> QED  BY <2>1, <3>1, PointingKept
    <2>3. Pointing(items, Range(zone), f, off)
      <3>1. Pointing(items, Range(zone), buffer, off)
        BY <1>9 DEF Inv, RefInv, OwnBuffers
      <3>2. f \notin Range(zone)
        BY <1>5, Parts
      <3> QED  BY <2>1, <3>1, <3>2, PointingKept
    <2> QED  BY <1>9, <1>a, <2>2, <2>3 DEF RefInv, OwnBuffers
  <1>15. Kept
    BY <1>5, <1>6 DEF Kept
  <1> QED  BY <1>8, <1>10, <1>11, <1>13, <1>14, <1>15 DEF Inv

LEMMA ReplacesKeeps ==
    ASSUME Inv, pc = "reserve", pc' = "read", Replaces,
           UNCHANGED <<wire, cs, trail, stack, items, held, delivered>>
    PROVE  Inv' /\ Kept
  <1> USE SizesAssumption
  <1> DEFINE rest == Bytes(off, used - off)
             size == Doubled(InitialSize, MaxRead + Len(rest) + COUNTER_SIZE)
             f    == Fresh
             data == Garbage(COUNTER_SIZE) \o rest \o Garbage(size - COUNTER_SIZE - Len(rest))
             new  == With(f, [data |-> data, count |-> 1])
  <1>1. /\ IF referenced THEN mem' = new /\ zone' = Append(zone, buffer)
                         ELSE mem' = Decr(new, <<buffer>>) /\ UNCHANGED zone
        /\ referenced' = FALSE /\ buffer' = f
        /\ used' = COUNTER_SIZE + Len(rest) /\ off' = COUNTER_SIZE /\ room' = size - used'
    BY DEF Replaces
  <1>2. /\ referenced' = FALSE /\ buffer' = f
        /\ used' = COUNTER_SIZE + Len(rest) /\ off' = COUNTER_SIZE /\ room' = size - used'
    BY <1>1
  <1>3. referenced \in BOOLEAN
    BY DEF Inv
  <1>4. /\ referenced => mem' = new /\ zone' = Append(zone, buffer)
        /\ ~referenced => mem' = Decr(new, <<buffer>>) /\ zone' = zone
    BY <1>1
  <1> HIDE DEF rest, size, data, new, f
  <1>5. Alive /\ Alive' /\ Own' = {f} /\ Own = {buffer}
    BY <1>2 DEF Alive, Own
  <1>6. PICK k \in Nat : k = used - off /\ k + COUNTER_SIZE <= used /\ used \in Nat
    BY Reserving
  <1>7. rest \in Seq(0..256) /\ Len(rest) = k
    <2>1. off \in Nat /\ mem[buffer].data \in Seq(0..256) /\ off + k <= Len(mem[buffer].data)
      BY <1>6, Reserving
    <2> QED  BY <1>6, <2>1, BytesAreBytes DEF rest
  <1>8. size \in Nat /\ size >= MaxRead + k + COUNTER_SIZE
    <2>1. k <= Len(Encoded) /\ Len(Encoded) \in Nat
      <3>1. /\ Len(wire) \in Nat /\ Len(Encoded) \in Nat
            /\ used + Len(wire) <= COUNTER_SIZE + Len(Encoded)
        BY Reserving
      <3> QED  BY <1>6, <3>1
    <2>2. PICK need \in Nat : /\ need = MaxRead + k + COUNTER_SIZE
                              /\ need <= MaxRead + Len(Encoded) + COUNTER_SIZE
      BY <1>6, <2>1
    <2>3. size = Doubled(InitialSize, need) /\ InitialSize \in Nat /\ InitialSize <= InitialSize
      BY <1>7, <2>2 DEF size
    <2> QED  BY <2>2, <2>3, DoubledEnough
  <1>9. data \in Seq(0..256) /\ Len(data) = size
    <2>1. PICK l \in Nat : l = size - COUNTER_SIZE - k
      BY <1>8
    <2>2. PICK S, g, h : S = 0..256 /\ g = Garbage(COUNTER_SIZE) /\ h = Garbage(l)
      OBVIOUS
    <2>3. g \in Seq(S) /\ Len(g) = COUNTER_SIZE /\ h \in Seq(S) /\ Len(h) = l /\ rest \in Seq(S)
      BY <1>7, <2>2, GarbageParts
    <2>4. PICK gr : gr = g \o rest /\ gr \in Seq(S) /\ Len(gr) = COUNTER_SIZE + k
      BY <1>7, <2>3, ConcatProperties
    <2>5. gr \o h \in Seq(S) /\ Len(gr \o h) = COUNTER_SIZE + k + l
      BY <2>3, <2>4, ConcatProperties
    <2>6. data = gr \o h
      BY <1>7, <2>1, <2>2, <2>4 DEF data
    <2>7. COUNTER_SIZE + k + l = size
      BY <1>8, <2>1
    <2> QED  BY <2>2, <2>5, <2>6, <2>7
  <1>10. f \notin DOMAIN mem /\ f # buffer
    BY FreshIsNew, Reserving, Parts DEF f
  <1>11. /\ DOMAIN new = DOMAIN mem \cup {f}
         /\ new[f] = [data |-> data, count |-> 1]
         /\ \A b \in DOMAIN mem : new[b] = mem[b]
         /\ new = [x \in DOMAIN new |-> new[x]]
    BY <1>10 DEF new, With
  <1>12. new[f] \in Block /\ new[f].data = data /\ new[f].count = 1
    BY <1>9, <1>11 DEF Block
  <1>13. Blocks(new)
    <2>1. IsFiniteSet(DOMAIN new)
      BY <1>11, Parts, FS_AddElement
    <2>2. \A b \in DOMAIN new : new[b] \in Block
      BY <1>11, <1>12, Parts
    <2>3. new \in [DOMAIN new -> Block]
      BY <1>11, <2>2
    <2> QED  BY <2>1, <2>3 DEF Blocks
  <1>14. PICK own, z, hs, u : own = {f} /\ z = zone /\ hs = held /\ u = buffer
    OBVIOUS
  <1>15. /\ Chain(z, DOMAIN new) /\ Range(z) \subseteq DOMAIN mem /\ IsFiniteSet(hs)
         /\ \A h \in hs : Chain(h.fins, DOMAIN new) /\ Range(h.fins) \subseteq DOMAIN mem
    <2>1. /\ Chain(z, DOMAIN mem) /\ Range(z) \subseteq DOMAIN mem /\ IsFiniteSet(hs)
          /\ \A h \in hs : Chain(h.fins, DOMAIN mem) /\ Range(h.fins) \subseteq DOMAIN mem
      BY <1>14, Parts
    <2>2. DOMAIN mem \subseteq DOMAIN new
      BY <1>11
    <2>3. Range(z) \subseteq DOMAIN new /\ \A h \in hs : Range(h.fins) \subseteq DOMAIN new
      BY <2>1, <2>2
    <2> QED  BY <2>1, <2>3, ChainOver
  <1>16. u \in DOMAIN mem /\ u \notin Range(z) /\ u # f /\ f \notin Range(z)
    BY <1>10, <1>14, <1>15, Reserving
  <1>17. \A b \in DOMAIN mem : \E x \in {0, 1}, y \in {0, 1}, n \in Nat :
            /\ new[b].count = x + y + n /\ n = Cardinality(Users(hs, b))
            /\ x = (IF b = u THEN 1 ELSE 0) /\ y = (IF b \in Range(z) THEN 1 ELSE 0)
    <2> TAKE b \in DOMAIN mem
    <2>1. PICK x \in {0, 1}, y \in {0, 1}, n \in Nat : Adds(Own, z, hs, b, x, y, n)
      BY <1>15, TotalParts DEF Splits
    <2>2. x = IF b = u THEN 1 ELSE 0
      BY <1>5, <1>14, <2>1 DEF Adds
    <2>3. y = (IF b \in Range(z) THEN 1 ELSE 0) /\ n = Cardinality(Users(hs, b))
      BY <2>1 DEF Adds
    <2>4. new[b].count = x + y + n
      BY <1>11, <1>14, <2>1, Parts DEF Adds
    <2> QED  BY <2>2, <2>3, <2>4
  <1>18. Users(hs, f) = {} /\ Cardinality(Users(hs, f)) = 0
    <2>1. Users(hs, f) = {}
      BY <1>10, <1>15 DEF Users
    <2> QED  BY <2>1, FS_EmptySet
  <1>19. /\ CountInv' /\ OwnBuffers = Range(zone')
         /\ DOMAIN mem' \subseteq DOMAIN new /\ \A b \in DOMAIN mem' : mem'[b].data = new[b].data
    <2>a. CASE referenced
      <3>1. Chain(Append(z, u), DOMAIN new) /\ Range(Append(z, u)) = Range(z) \cup {u}
        BY <1>11, <1>15, <1>16, ChainAppend
      <3>2. PICK a : a = Append(z, u) /\ Chain(a, DOMAIN new) /\ Range(a) = Range(z) \cup {u}
        BY <3>1
      <3>3. ASSUME NEW b \in DOMAIN new PROVE new[b].count = Total(own, a, hs, b)
        <4>1. PICK v \in {0, 1}, w \in {0, 1}, l \in Nat : Adds(own, a, hs, b, v, w, l)
          BY <1>15, <3>2, TotalParts DEF Splits
        <4>2. CASE b = f
          <5>1. v = 1 /\ w = 0 /\ l = 0
            BY <1>14, <1>16, <1>18, <3>2, <4>1, <4>2 DEF Adds
          <5> QED  BY <1>12, <4>1, <4>2, <5>1 DEF Adds
        <4>3. CASE b # f
          <5>1. b \in DOMAIN mem
            BY <1>11, <4>3
          <5>2. PICK x \in {0, 1}, y \in {0, 1}, n \in Nat :
                  /\ new[b].count = x + y + n /\ n = Cardinality(Users(hs, b))
                  /\ x = (IF b = u THEN 1 ELSE 0) /\ y = (IF b \in Range(z) THEN 1 ELSE 0)
            BY <1>17, <5>1
          <5>3. v = 0 /\ w = x + y /\ l = n
            BY <1>14, <1>16, <3>2, <4>1, <4>3, <5>2 DEF Adds
          <5> QED  BY <4>1, <5>2, <5>3 DEF Adds
        <4> QED  BY <4>2, <4>3
      <3>4. own \subseteq DOMAIN new /\ own \cap Range(a) = {}
        BY <1>11, <1>14, <1>16, <3>2
      <3>5. Counted(new, own, a, hs)
        BY <1>15, <3>2, <3>3, <3>4 DEF Counted
      <3>6. mem' = new /\ zone' = a
        BY <1>4, <1>14, <2>a, <3>2
      <3>7. CountInv'
        BY <1>5, <1>13, <1>14, <3>5, <3>6 DEF CountInv
      <3>8. Range(zone') = Range(zone) \cup {buffer}
        BY <1>14, <3>2, <3>6
      <3>9. OwnBuffers = Range(zone')
        BY <2>a, <3>8 DEF OwnBuffers
      <3> QED  BY <3>6, <3>7, <3>9
    <2>b. CASE ~referenced
      <3>1. PICK e : e = <<u>> /\ Chain(e, DOMAIN new) /\ Range(e) = {u}
        BY <1>11, <1>16, ChainOne
      <3>2. ASSUME NEW b \in DOMAIN new PROVE new[b].count - Occ(e, b) = Total(own, z, hs, b)
        <4>1. PICK v \in {0, 1}, w \in {0, 1}, l \in Nat : Adds(own, z, hs, b, v, w, l)
          BY <1>15, TotalParts DEF Splits
        <4>2. Occ(e, b) = IF b = u THEN 1 ELSE 0
          BY <3>1, ChainOcc
        <4>3. CASE b = f
          <5>1. v = 1 /\ w = 0 /\ l = 0
            BY <1>14, <1>16, <1>18, <4>1, <4>3 DEF Adds
          <5>2. Occ(e, b) = 0
            BY <1>16, <4>2, <4>3
          <5> QED  BY <1>12, <4>1, <4>3, <5>1, <5>2 DEF Adds
        <4>4. CASE b # f
          <5>1. b \in DOMAIN mem
            BY <1>11, <4>4
          <5>2. PICK x \in {0, 1}, y \in {0, 1}, n \in Nat :
                  /\ new[b].count = x + y + n /\ n = Cardinality(Users(hs, b))
                  /\ x = (IF b = u THEN 1 ELSE 0) /\ y = (IF b \in Range(z) THEN 1 ELSE 0)
            BY <1>17, <5>1
          <5>3. v = 0 /\ w = y /\ l = n /\ Occ(e, b) = x
            BY <1>14, <4>1, <4>2, <4>4, <5>2 DEF Adds
          <5>4. Total(own, z, hs, b) = v + w + l
            BY <4>1 DEF Adds
          <5> QED  BY <5>2, <5>3, <5>4
        <4> QED  BY <4>3, <4>4
      <3>3. own \subseteq DOMAIN new /\ own \cap Range(z) = {}
        BY <1>11, <1>14, <1>16
      <3>4. Remaining(new, e, own, z, hs)
        BY <1>13, <1>15, <3>2, <3>3 DEF Remaining
      <3>5. Reduced(new, Decr(new, e), own, z, hs)
        BY <3>4, DecrCounted
      <3>6. mem' = Decr(new, e) /\ zone' = z
        BY <1>4, <1>14, <2>b, <3>1
      <3>7. CountInv'
        BY <1>5, <1>14, <3>5, <3>6 DEF CountInv, Reduced
      <3>8. OwnBuffers = Range(zone')
        BY <1>14, <2>b, <3>6 DEF OwnBuffers
      <3> QED  BY <3>5, <3>6, <3>7, <3>8 DEF Reduced
    <2> QED  BY <1>3, <2>a, <2>b
  <1>20. f \in DOMAIN mem' /\ mem'[f].data = data
    <2>1. f \in DOMAIN mem'
      BY <1>5, <1>19 DEF CountInv, Counted
    <2> QED  BY <1>12, <1>19, <2>1
  <1>21. SizeInv'
    <2>1. used' = COUNTER_SIZE + k /\ off' = COUNTER_SIZE /\ room' = size - (COUNTER_SIZE + k)
      BY <1>2, <1>7
    <2>2. /\ used' \in Nat /\ off' \in Nat /\ room' \in Nat /\ COUNTER_SIZE <= off' /\ off' <= used'
          /\ room' >= MaxRead /\ used' + room' = size /\ used' + room' >= MaxRead + COUNTER_SIZE
          /\ used' <= used
      BY <1>6, <1>8, <2>1
    <2>3. used' + Len(wire') <= COUNTER_SIZE + Len(Encoded)
      <3>1. /\ Len(wire') = Len(wire) /\ Len(wire) \in Nat /\ Len(Encoded) \in Nat /\ used \in Nat
            /\ used + Len(wire) <= COUNTER_SIZE + Len(Encoded)
        BY Reserving
      <3> QED  BY <2>2, <3>1
    <2>4. Len(mem'[buffer'].data) = size
      BY <1>2, <1>9, <1>20
    <2>5. wire' \in Seq(0..255)
      BY Reserving
    <2> QED  BY <2>2, <2>3, <2>4, <2>5 DEF SizeInv
  <1>22. ParseInv' /\ HeldInv' /\ (referenced \in BOOLEAN)'
    BY <1>2 DEF Inv, ParseInv, HeldInv
  <1>23. \A h \in held : f \notin Range(h.fins)
    BY <1>10, Parts
  <1>24. CleanStart'
    BY <1>2, <1>23 DEF CleanStart
  <1>25. RefInv'
    <2>1. off \in Nat /\ off' \in Nat
      BY <1>2, Reserving
    <2>2. ASSUME NEW h \in held PROVE Pointing(h.items, Range(h.fins), f, off')
      <3>1. Pointing(h.items, Range(h.fins), buffer, off) /\ f \notin Range(h.fins)
        BY <1>23 DEF Inv, RefInv
      <3> QED  BY <2>1, <3>1, PointingKept
    <2>3. Pointing(items, OwnBuffers, f, off')
      <3>1. Pointing(items, OwnBuffers, buffer, off)
        BY DEF Inv, RefInv
      <3>2. f \notin OwnBuffers
        BY <1>10, Parts, Reserving DEF OwnBuffers
      <3> QED  BY <2>1, <3>1, <3>2, PointingKept
    <2>4. OwnBuffers' = OwnBuffers
      BY <1>2, <1>19 DEF OwnBuffers
    <2> QED  BY <1>2, <2>2, <2>3, <2>4 DEF RefInv
  <1>26. Kept
    BY <1>11, <1>19, KeptSame
  <1> QED  BY <1>19, <1>21, <1>22, <1>24, <1>25, <1>26 DEF Inv

LEMMA ReserveBufferKeeps ==
    ASSUME Inv, ReserveBuffer
    PROVE  Inv' /\ Kept
  <1>1. /\ pc = "reserve" /\ pc' = "read"
        /\ UNCHANGED <<wire, cs, trail, stack, items, held, delivered>>
    BY DEF ReserveBuffer
  <1>2. \/ room >= MaxRead /\ UNCHANGED <<mem, sizeVars, off, zone, referenced>>
        \/ MayRewind /\ Rewind
        \/ off = COUNTER_SIZE /\ Grow
        \/ Replaces
    BY DEF ReserveBuffer
  <1> QED  BY <1>1, <1>2, EnoughKeeps, RewindKeeps, GrowKeeps, ReplacesKeeps

-----------------------------------------------------------------------------
(***************************************************************************)
(* execute(): what a round does to the message                             *)
(***************************************************************************)
\* A value that points nowhere or, and then the message is marked, into what
\* was parsed of the buffer.
Fits(item, r) ==
    \/ r = referenced /\ "buf" \notin DOMAIN item
    \/ /\ r = TRUE /\ item.buf = buffer /\ item.from \in Nat /\ item.len \in Nat
       /\ item.from + item.len <= off'

\* The message gets the value, and may be complete with it.
Collects(item, r) ==
    /\ items' = Append(items, item) /\ referenced' = r
    /\ UNCHANGED <<mem, zone, held, delivered>>
Takes(item, r) == Collects(item, r) \/ Success(Append(items, item), r)

Untouched == UNCHANGED <<items, referenced, mem, zone, held, delivered>>

Round ==
    /\ ParseInv'
    /\ Untouched \/ \E item : \E r \in BOOLEAN : Fits(item, r) /\ Takes(item, r)

LEMMA VisitRound ==
    ASSUME Inv, NEW item, NEW ref \in BOOLEAN, Visit(item, ref),
           Fits(item, referenced \/ ref)
    PROVE  Round
  <1>1. PICK r \in BOOLEAN : r = (referenced \/ ref)
    OBVIOUS
  <1>2. Fits(item, r)
    BY <1>1
  <1>3. /\ cs' = CS_HEADER
        /\ \/ Success(Append(items, item), r)
           \/ Collects(item, r) /\ trail' = trail
    BY <1>1 DEF Visit, Collects
  <1>4. trail' = 0 \/ trail' = trail
    BY <1>3 DEF Success
  <1>5. ParseInv'
    BY <1>3, <1>4 DEF Inv, ParseInv, CS_HEADER
  <1> QED  BY <1>2, <1>3, <1>5 DEF Round, Takes

\* A value that does not point to anything.
LEMMA PlainRound ==
    ASSUME Inv, NEW item, Visit(item, FALSE), "buf" \notin DOMAIN item
    PROVE  Round
  <1>1. Fits(item, referenced \/ FALSE)
    BY DEF Inv, Fits
  <1> QED  BY <1>1, VisitRound

LEMMA RefersRound ==
    ASSUME Inv, NEW t, NEW n \in Nat, Refers(t, n), off' \in Nat, off + n <= off'
    PROVE  Round
  <1> DEFINE item == [t |-> t, buf |-> buffer, from |-> off, len |-> n]
  <1>1. off \in Nat
    BY DEF Inv, SizeInv
  <1>2. Fits(item, referenced \/ TRUE)
    BY <1>1 DEF Fits
  <1>3. Visit(item, TRUE)
    BY DEF Refers
  <1> HIDE DEF item
  <1> QED  BY <1>2, <1>3, VisitRound

LEMMA FollowsRound ==
    ASSUME Inv, NEW state \in 4..34, NEW n \in Nat, n # 0, Follows(state, n),
           state \in 4..9 \cup 25..31 => n \in {1, 2, 4}
    PROVE  Round
  <1>1. cs' = state /\ trail' = n /\ Untouched
    BY DEF Follows, Untouched
  <1>2. ParseInv'
    BY <1>1 DEF ParseInv, CS_HEADER
  <1> QED  BY <1>1, <1>2 DEF Round

\* The contents of a string or of an extension follow.
LEMMA ContentsRound ==
    ASSUME Inv, NEW state \in {32, 33, 34}, NEW n \in Nat, n # 0, Follows(state, n)
    PROVE  Round
  <1>1. state \in 4..34 /\ state \notin 4..9 \cup 25..31
    OBVIOUS
  <1> QED  BY <1>1, FollowsRound

LEMMA AggregateRound ==
    ASSUME Inv, NEW item, NEW type, Aggregate(item, type), "buf" \notin DOMAIN item
    PROVE  Round
  <1>1. CASE Visit(item, FALSE)
    BY <1>1, PlainRound
  <1>2. CASE /\ items' = Append(items, item) /\ cs' = CS_HEADER
             /\ UNCHANGED <<trail, referenced, mem, zone, held, delivered>>
    <2>1. ParseInv'
      BY <1>2 DEF Inv, ParseInv, CS_HEADER
    <2>2. PICK r \in BOOLEAN : r = referenced
      BY DEF Inv
    <2>3. Fits(item, r) /\ Takes(item, r)
      BY <1>2, <2>2 DEF Fits, Takes, Collects
    <2> QED  BY <2>1, <2>3 DEF Round
  <1> QED  BY <1>1, <1>2 DEF Aggregate

LEMMA NoPointers ==
    /\ \A n : "buf" \notin DOMAIN Array(n) /\ "buf" \notin DOMAIN Map(n)
    /\ \A b \in OneByte : "buf" \notin DOMAIN OneByteValue(b)
    /\ \A c, s : "buf" \notin DOMAIN Number(c, s)
  <1>1. \A n : "buf" \notin DOMAIN Array(n) /\ "buf" \notin DOMAIN Map(n)
    BY DEF Array, Map
  <1>2. \A v : "buf" \notin DOMAIN Uint(v) /\ "buf" \notin DOMAIN [t |-> "bits", v |-> v]
    BY DEF Uint
  <1>3. ASSUME NEW b \in OneByte PROVE "buf" \notin DOMAIN OneByteValue(b)
    <2>1. "buf" \notin DOMAIN Nil /\ "buf" \notin DOMAIN Bool(b = 195)
      BY DEF Nil, Bool
    <2>2. b < 128 \/ b = 192 \/ b \in {194, 195} \/ b >= 224
      BY DEF OneByte
    <2>3. \/ OneByteValue(b) = Uint(b) \/ OneByteValue(b) = Nil
          \/ OneByteValue(b) = Bool(b = 195) \/ OneByteValue(b) = [t |-> "bits", v |-> b]
      BY <2>2 DEF OneByteValue
    <2> QED  BY <1>2, <2>1, <2>3
  <1>4. \A c, s : "buf" \notin DOMAIN Number(c, s)
    BY <1>2 DEF Number
  <1> QED  BY <1>1, <1>3, <1>4

\* A round of the loop takes at least a byte, and none that was not read.
Parses ==
    /\ pc = "next" /\ pc' = "next" /\ UNCHANGED <<wire, buffer, used, room>>
    /\ off' \in Nat /\ off < off' /\ off' <= used
    /\ Round

LEMMA HeaderParses ==
    ASSUME Inv, Header
    PROVE  Parses
  <1>1. /\ pc = "next" /\ off < used /\ off' = off + 1
        /\ pc' = "next" /\ UNCHANGED <<wire, buffer, used, room>>
    BY DEF Header, sizeVars
  <1>2. off \in Nat /\ used \in Nat
    BY DEF Inv, SizeInv
  <1>3. off' \in Nat /\ off < off' /\ off' <= used
    BY <1>1, <1>2
  <1>4. PICK b : \/ b \in OneByte /\ Visit(OneByteValue(b), FALSE)
                 \/ b = 160 /\ Refers("str", 0)
                 \/ b \in FixStr \ {160} /\ Follows(ACS.str, b - 160)
                 \/ b \in FixArray /\ Aggregate(Array(b - 144), "array")
                 \/ b \in FixMap /\ Aggregate(Map(b - 128), "key")
                 \/ b \in WithTrail /\ Follows(b % 32, Trail(b))
    BY DEF Header
  <1>5. CASE b \in OneByte /\ Visit(OneByteValue(b), FALSE)
    <2>1. Round
      BY <1>5, PlainRound, NoPointers
    <2> QED  BY <1>1, <1>3, <2>1 DEF Parses
  <1>6. CASE Refers("str", 0)
    <2>1. Round
      BY <1>2, <1>3, <1>6, RefersRound
    <2> QED  BY <1>1, <1>3, <2>1 DEF Parses
  <1>7. CASE b \in FixStr \ {160} /\ Follows(ACS.str, b - 160)
    <2>1. ACS.str = 32 /\ b - 160 \in Nat /\ b - 160 # 0
      BY <1>7 DEF ACS, FixStr
    <2>2. PICK s \in {32, 33, 34}, n \in Nat : n # 0 /\ Follows(s, n)
      BY <1>7, <2>1
    <2>3. Round
      BY <2>2, ContentsRound
    <2> QED  BY <1>1, <1>3, <2>3 DEF Parses
  <1>8. CASE Aggregate(Array(b - 144), "array")
    <2>1. Round
      BY <1>8, AggregateRound, NoPointers
    <2> QED  BY <1>1, <1>3, <2>1 DEF Parses
  <1>9. CASE Aggregate(Map(b - 128), "key")
    <2>1. Round
      BY <1>9, AggregateRound, NoPointers
    <2> QED  BY <1>1, <1>3, <2>1 DEF Parses
  <1>10. CASE b \in WithTrail /\ Follows(b % 32, Trail(b))
    <2>1. PICK s, n : s = b % 32 /\ n = Trail(b)
      OBVIOUS
    <2>2. /\ s \in 4..31 /\ n \in Nat /\ n # 0 /\ (s \in 4..9 \cup 25..31 => n \in {1, 2, 4})
      BY <1>10, <2>1, TrailValues
    <2>3. s \in 4..34 /\ Follows(s, n)
      BY <1>10, <2>1, <2>2
    <2>4. Round
      BY <2>2, <2>3, FollowsRound
    <2> QED  BY <1>1, <1>3, <2>4 DEF Parses
  <1> QED  BY <1>4, <1>5, <1>6, <1>7, <1>8, <1>9, <1>10

LEMMA TrailingParses ==
    ASSUME Inv, Trailing
    PROVE  Parses
  <1>1. /\ pc = "next" /\ cs # CS_HEADER /\ ~Lacks /\ off' = off + trail
        /\ pc' = "next" /\ UNCHANGED <<wire, buffer, used, room>>
    BY DEF Trailing, sizeVars
  <1>2. off \in Nat /\ used \in Nat /\ room \in Nat /\ used + room = Len(mem[buffer].data)
    BY <1>1 DEF Inv, SizeInv, Alive
  <1>3. trail \in Nat /\ trail # 0 /\ off + trail <= used
    BY <1>1, <1>2 DEF Inv, ParseInv, Lacks
  <1>4. off' \in Nat /\ off < off' /\ off' <= used
    BY <1>1, <1>2, <1>3
  <1>5. PICK n, form, s :
          /\ s = Bytes(off, trail) /\ n = Load(s) /\ form = Form(cs)
          /\ \/ form = "number" /\ Visit(Number(cs, s), FALSE)
             \/ form \in {"str", "bin", "ext"} /\ Refers(form, trail)
             \/ form = "strSize" /\ n = 0 /\ Refers("str", 0)
             \/ form = "binSize" /\ n = 0 /\ Refers("bin", 0)
             \/ form = "strSize" /\ n > 0 /\ Follows(ACS.str, n)
             \/ form = "binSize" /\ n > 0 /\ Follows(ACS.bin, n)
             \/ form = "extSize" /\ Follows(ACS.ext, n + 1)
             \/ form = "array" /\ Aggregate(Array(n), "array")
             \/ form = "map" /\ Aggregate(Map(n), "key")
    BY DEF Trailing
  <1>6. form \in {"strSize", "binSize", "extSize"} => n \in Nat
    <2> SUFFICES ASSUME form \in {"strSize", "binSize", "extSize"} PROVE n \in Nat
      OBVIOUS
    <2>1. cs \in 4..34
      BY <1>1 DEF Inv, ParseInv
    <2>2. cs \in 4..9 \cup 25..31
      BY <1>5, <2>1, FormSizes
    <2>3. trail \in {1, 2, 4}
      BY <2>2 DEF Inv, ParseInv
    <2>4. mem[buffer].data \in Seq(0..256)
      <3>1. Alive
        BY <1>1 DEF Alive
      <3>2. buffer \in DOMAIN mem /\ mem \in [DOMAIN mem -> Block]
        BY <3>1, Parts
      <3> QED  BY <3>2 DEF Block
    <2>5. off + trail <= Len(mem[buffer].data)
      BY <1>2, <1>3
    <2>6. s \in Seq(0..256) /\ Len(s) = trail
      BY <1>2, <1>3, <1>5, <2>4, <2>5, BytesAreBytes
    <2> QED  BY <1>5, <2>3, <2>6, LoadIsNat
  <1>7. ACS.str = 32 /\ ACS.bin = 33 /\ ACS.ext = 34
    BY DEF ACS
  <1>8. Round
    <2>1. CASE Visit(Number(cs, s), FALSE)
      BY <2>1, PlainRound, NoPointers
    <2>2. CASE Refers(form, trail)
      <3>1. off + trail <= off'
        BY <1>1, <1>2, <1>3
      <3> QED  BY <1>3, <1>4, <2>2, <3>1, RefersRound
    <2>3. CASE Refers("str", 0)
      BY <1>2, <1>4, <2>3, RefersRound
    <2>4. CASE Refers("bin", 0)
      BY <1>2, <1>4, <2>4, RefersRound
    <2>5. CASE form = "strSize" /\ n > 0 /\ Follows(ACS.str, n)
      <3>1. n \in Nat /\ n # 0
        BY <1>6, <2>5
      <3>2. PICK c \in {32, 33, 34} : Follows(c, n)
        BY <1>7, <2>5
      <3> QED  BY <3>1, <3>2, ContentsRound
    <2>6. CASE form = "binSize" /\ n > 0 /\ Follows(ACS.bin, n)
      <3>1. n \in Nat /\ n # 0
        BY <1>6, <2>6
      <3>2. PICK c \in {32, 33, 34} : Follows(c, n)
        BY <1>7, <2>6
      <3> QED  BY <3>1, <3>2, ContentsRound
    <2>7. CASE form = "extSize" /\ Follows(ACS.ext, n + 1)
      <3>1. n + 1 \in Nat /\ n + 1 # 0
        BY <1>6, <2>7
      <3>2. PICK c \in {32, 33, 34} : Follows(c, n + 1)
        BY <1>7, <2>7
      <3> QED  BY <3>1, <3>2, ContentsRound
    <2>8. CASE Aggregate(Array(n), "array")
      BY <2>8, AggregateRound, NoPointers
    <2>9. CASE Aggregate(Map(n), "key")
      BY <2>9, AggregateRound, NoPointers
    <2> QED  BY <1>5, <2>1, <2>2, <2>3, <2>4, <2>5, <2>6, <2>7, <2>8, <2>9
  <1> QED  BY <1>1, <1>4, <1>8 DEF Parses

(***************************************************************************)
(* execute(): a round keeps the invariant                                  *)
(***************************************************************************)
\* The contents of the buffers stay.
LEMMA RoundFrame ==
    ASSUME Inv, Parses, DOMAIN mem' = DOMAIN mem,
           \A b \in DOMAIN mem : mem'[b].data = mem[b].data
    PROVE  /\ Alive /\ Own' = Own /\ Own = {buffer} /\ buffer' = buffer
           /\ off \in Nat /\ off' \in Nat /\ off <= off'
           /\ SizeInv' /\ ParseInv' /\ CleanStart' /\ Kept
  <1>1. /\ pc = "next" /\ pc' = "next" /\ buffer' = buffer /\ used' = used /\ room' = room
        /\ wire' = wire /\ off' \in Nat /\ off < off' /\ off' <= used
    BY DEF Parses
  <1>2. Alive /\ Alive' /\ Own' = Own /\ Own = {buffer}
    BY <1>1 DEF Alive, Own
  <1>3. /\ used \in Nat /\ room \in Nat /\ off \in Nat /\ COUNTER_SIZE <= off
        /\ wire \in Seq(0..255) /\ used + room >= MaxRead + COUNTER_SIZE
        /\ used + Len(wire) <= COUNTER_SIZE + Len(Encoded)
        /\ used + room = Len(mem[buffer].data)
    BY <1>2 DEF Inv, SizeInv
  <1>4. mem'[buffer'].data = mem[buffer].data
    BY <1>1, <1>2, Parts
  <1>5. COUNTER_SIZE \in Nat
    BY SizesAssumption
  <1>6. off <= off' /\ COUNTER_SIZE <= off' /\ off' # COUNTER_SIZE
    BY <1>1, <1>3, <1>5
  <1>7. SizeInv'
    BY <1>1, <1>3, <1>4, <1>6 DEF SizeInv
  <1>8. CleanStart'
    BY <1>6 DEF CleanStart
  <1>9. Kept
    BY KeptSame
  <1>10. ParseInv'
    BY DEF Parses, Round
  <1> QED  BY <1>1, <1>2, <1>3, <1>6, <1>7, <1>8, <1>9, <1>10

\* Where the message being parsed may point with the mark r.
MarkedBuffers(r) == Range(zone) \cup (IF r THEN {buffer} ELSE {})

LEMMA ItemAdded ==
    ASSUME Inv, off' \in Nat, off <= off', NEW item, NEW r \in BOOLEAN, Fits(item, r)
    PROVE  Pointing(Append(items, item), MarkedBuffers(r), buffer, off')
  <1> DEFINE S == MarkedBuffers(r)
  <1>1. Pointing(items, OwnBuffers, buffer, off) /\ off \in Nat
    BY DEF Inv, RefInv, SizeInv
  <1>2. OwnBuffers \subseteq S
    BY DEF OwnBuffers, MarkedBuffers, Fits
  <1>3. PointsInto(item, S, buffer, off')
    <2>1. CASE "buf" \notin DOMAIN item
      BY <2>1 DEF PointsInto
    <2>2. CASE /\ r = TRUE /\ item.buf = buffer /\ item.from \in Nat /\ item.len \in Nat
               /\ item.from + item.len <= off'
      <3>1. item.buf \in S
        BY <2>2 DEF MarkedBuffers
      <3> QED  BY <2>2, <3>1 DEF PointsInto
    <2> QED  BY <2>1, <2>2 DEF Fits
  <1> HIDE DEF S
  <1>4. Pointing(items, S, buffer, off')
    BY <1>1, <1>2, PointingKept
  <1>5. items \in Seq(Range(items))
    BY <1>1 DEF Pointing
  <1>6. PICK w : w = Append(items, item)
    OBVIOUS
  <1>7. /\ w \in Seq(Range(w)) /\ Len(items) \in Nat /\ Len(w) = Len(items) + 1
        /\ \A i \in 1..Len(items) : w[i] = items[i]
        /\ w[Len(items) + 1] = item
    BY <1>5, <1>6, AppendRange
  <1>8. ASSUME NEW i \in 1..Len(w) PROVE PointsInto(w[i], S, buffer, off')
    <2>1. i \in 1..Len(items) \/ i = Len(items) + 1
      BY <1>7
    <2> QED  BY <1>3, <1>4, <1>7, <2>1 DEF Pointing
  <1>9. Pointing(w, S, buffer, off')
    BY <1>7, <1>8 DEF Pointing
  <1> QED  BY <1>6, <1>9 DEF S

\* The messages in use point where they pointed.
LEMMA HeldPointing ==
    ASSUME Inv, off' \in Nat, off <= off', buffer' = buffer
    PROVE  \A h \in held : Pointing(h.items, Range(h.fins), buffer', off')
  <1> TAKE h \in held
  <1>1. Pointing(h.items, Range(h.fins), buffer, off) /\ off \in Nat
    BY DEF Inv, RefInv, SizeInv
  <1> QED  BY <1>1, PointingKept

LEMMA UntouchedKeeps ==
    ASSUME Inv, Parses, Untouched
    PROVE  Inv' /\ Kept
  <1>1. UNCHANGED <<items, referenced, mem, zone, held, delivered>>
    BY DEF Untouched
  <1>2. /\ Alive /\ Own' = Own /\ Own = {buffer} /\ buffer' = buffer
        /\ off \in Nat /\ off' \in Nat /\ off <= off'
        /\ SizeInv' /\ ParseInv' /\ CleanStart' /\ Kept
    BY <1>1, RoundFrame
  <1>3. CountInv' /\ HeldInv' /\ (referenced \in BOOLEAN)'
    BY <1>1, <1>2 DEF Inv, CountInv, HeldInv
  <1>4. RefInv'
    <2>1. \A h \in held' : Pointing(h.items, Range(h.fins), buffer', off')
      BY <1>1, <1>2, HeldPointing
    <2>2. Pointing(items, OwnBuffers, buffer, off)
      BY DEF Inv, RefInv
    <2>3. Pointing(items, OwnBuffers, buffer', off')
      BY <1>2, <2>2, PointingKept
    <2>4. OwnBuffers' = OwnBuffers /\ items' = items
      BY <1>1, <1>2 DEF OwnBuffers
    <2> QED  BY <2>1, <2>3, <2>4 DEF RefInv
  <1> QED  BY <1>2, <1>3, <1>4 DEF Inv

LEMMA CollectsKeeps ==
    ASSUME Inv, Parses, NEW item, NEW r \in BOOLEAN, Fits(item, r), Collects(item, r)
    PROVE  Inv' /\ Kept
  <1>1. /\ items' = Append(items, item) /\ referenced' = r
        /\ UNCHANGED <<mem, zone, held, delivered>>
    BY DEF Collects
  <1>2. /\ Alive /\ Own' = Own /\ Own = {buffer} /\ buffer' = buffer
        /\ off \in Nat /\ off' \in Nat /\ off <= off'
        /\ SizeInv' /\ ParseInv' /\ CleanStart' /\ Kept
    BY <1>1, RoundFrame
  <1>3. CountInv' /\ HeldInv' /\ (referenced \in BOOLEAN)'
    BY <1>1, <1>2 DEF Inv, CountInv, HeldInv
  <1>4. RefInv'
    <2>1. \A h \in held' : Pointing(h.items, Range(h.fins), buffer', off')
      BY <1>1, <1>2, HeldPointing
    <2>2. Pointing(Append(items, item), MarkedBuffers(r), buffer, off')
      BY <1>2, ItemAdded
    <2>3. OwnBuffers' = MarkedBuffers(r)
      BY <1>1, <1>2 DEF OwnBuffers, MarkedBuffers
    <2>4. Pointing(items', OwnBuffers', buffer', off')
      BY <1>1, <1>2, <2>2, <2>3
    <2> QED  BY <2>1, <2>4 DEF RefInv
  <1> QED  BY <1>2, <1>3, <1>4 DEF Inv

\* flush_zone(): the message takes over the zone, and counts for the buffer it
\* points into.
LEMMA SuccessKeeps ==
    ASSUME Inv, Parses, NEW item, NEW r \in BOOLEAN, Fits(item, r),
           Success(Append(items, item), r)
    PROVE  Inv' /\ Kept
  <1>1. PICK all, fins, h :
          /\ all = Append(items, item) /\ fins = (IF r THEN Append(zone, buffer) ELSE zone)
          /\ h = [number |-> delivered + 1, items |-> all, fins |-> fins]
    OBVIOUS
  <1>2. /\ held' = held \cup {h} /\ delivered' = delivered + 1
        /\ items' = <<>> /\ referenced' = FALSE /\ zone' = <<>>
        /\ mem' = IF r THEN [mem EXCEPT ![buffer].count = @ + 1] ELSE mem
    BY <1>1 DEF Success
  <1>3. Alive
    BY DEF Parses, Alive
  <1>4. /\ IsFiniteSet(DOMAIN mem) /\ mem \in [DOMAIN mem -> Block]
        /\ Chain(zone, DOMAIN mem) /\ Range(zone) \subseteq DOMAIN mem
        /\ IsFiniteSet(held)
        /\ \A g \in held : Chain(g.fins, DOMAIN mem)
        /\ buffer \in DOMAIN mem /\ buffer \notin Range(zone) /\ Own = {buffer}
        /\ \A b \in DOMAIN mem : mem[b].count = Total(Own, zone, held, b)
    BY <1>3, Parts
  <1>5. DOMAIN mem' = DOMAIN mem
    BY <1>2
  <1>6. \A b \in DOMAIN mem :
          /\ mem'[b] \in Block /\ mem'[b].data = mem[b].data
          /\ mem'[b].count = mem[b].count + (IF r /\ b = buffer THEN 1 ELSE 0)
    <2> TAKE b \in DOMAIN mem
    <2>1. mem[b] \in Block /\ mem[b].count \in Nat
      BY <1>4 DEF Block
    <2>2. CASE r /\ b = buffer
      <3>1. PICK m : m = mem[b] /\ m \in Block /\ m.count \in Nat
        BY <2>1
      <3>2. mem'[b] = [m EXCEPT !.count = m.count + 1]
        BY <1>2, <2>2, <3>1
      <3>3. PICK c \in Nat \ {0} : c = m.count + 1
        BY <3>1
      <3>4. /\ [m EXCEPT !.count = c] \in Block /\ [m EXCEPT !.count = c].data = m.data
            /\ [m EXCEPT !.count = c].count = c
        BY <3>1 DEF Block
      <3> QED  BY <2>2, <3>1, <3>2, <3>3, <3>4
    <2>3. CASE ~(r /\ b = buffer)
      <3>1. mem'[b] = mem[b]
        BY <1>2, <2>3
      <3> QED  BY <2>1, <2>3, <3>1
    <2> QED  BY <2>2, <2>3
  <1>7. /\ Own' = Own /\ buffer' = buffer
        /\ off \in Nat /\ off' \in Nat /\ off <= off'
        /\ SizeInv' /\ ParseInv' /\ CleanStart' /\ Kept
    BY <1>5, <1>6, RoundFrame
  <1>8. Blocks(mem')
    <2>1. mem' \in [DOMAIN mem -> Block]
      <3>1. mem' = [b \in DOMAIN mem' |-> mem'[b]]
        BY <1>2, <1>4
      <3> QED  BY <1>5, <1>6, <3>1
    <2> QED  BY <1>4, <1>5, <2>1 DEF Blocks
  <1>9. h \notin held
    <2>1. delivered \in Nat /\ \A g \in held : g.number \in 1..delivered
      BY DEF Inv, HeldInv
    <2>2. h.number = delivered + 1
      BY <1>1
    <2> QED  BY <2>1, <2>2
  <1>10. Chain(fins, DOMAIN mem) /\ Range(fins) = MarkedBuffers(r)
    <2>1. CASE r
      <3>1. Chain(Append(zone, buffer), DOMAIN mem)
            /\ Range(Append(zone, buffer)) = Range(zone) \cup {buffer}
        BY <1>4, ChainAppend
      <3> QED  BY <1>1, <2>1, <3>1 DEF MarkedBuffers
    <2>2. CASE ~r
      BY <1>1, <1>4, <2>2 DEF MarkedBuffers
    <2> QED  BY <2>1, <2>2
  <1>11. h.fins = fins /\ h.items = all
    BY <1>1
  <1>12. IsFiniteSet(held \cup {h})
    BY <1>4, FS_AddElement
  <1>13. CountInv'
    <2>1. PICK z : z = <<>> /\ Chain(z, DOMAIN mem) /\ Range(z) = {}
      BY ChainEmpty
    <2>2. PICK hs : hs = held \cup {h} /\ IsFiniteSet(hs)
      BY <1>12
    <2>3. ASSUME NEW b \in DOMAIN mem PROVE mem'[b].count = Total(Own, z, hs, b)
      <3>a. Splits(Own, zone, held, b)
        BY <1>4, TotalParts
      <3>b. Splits(Own, z, hs, b)
        BY <2>1, <2>2, TotalParts
      <3>1. PICK x \in {0, 1}, y \in {0, 1}, n \in Nat : Adds(Own, zone, held, b, x, y, n)
        BY <3>a DEF Splits
      <3>2. PICK v \in {0, 1}, w \in {0, 1}, l \in Nat : Adds(Own, z, hs, b, v, w, l)
        BY <3>b DEF Splits
      <3>3. v = x /\ w = 0
        BY <2>1, <3>1, <3>2 DEF Adds
      <3>4. PICK k \in {0, 1} : k = IF b \in Range(h.fins) THEN 1 ELSE 0
        OBVIOUS
      <3>5. l = n + k
        <4>1. Cardinality(Users(held \cup {h}, b)) =
                  Cardinality(Users(held, b)) + (IF b \in Range(h.fins) THEN 1 ELSE 0)
          BY <1>4, <1>9, UsersAdd
        <4>2. n = Cardinality(Users(held, b)) /\ l = Cardinality(Users(hs, b))
          BY <3>1, <3>2 DEF Adds
        <4> QED  BY <2>2, <3>4, <4>1, <4>2
      <3>6. PICK c \in {0, 1} : c = IF r /\ b = buffer THEN 1 ELSE 0
        OBVIOUS
      <3>7. k = y + c
        <4>1. y = IF b \in Range(zone) THEN 1 ELSE 0
          BY <3>1 DEF Adds
        <4>2. b \in Range(h.fins) <=> (b \in Range(zone) \/ (r /\ b = buffer))
          BY <1>10, <1>11 DEF MarkedBuffers
        <4>3. ~(b \in Range(zone) /\ b = buffer)
          BY <1>4
        <4> QED  BY <3>4, <3>6, <4>1, <4>2, <4>3
      <3>8. mem[b].count = x + y + n
        BY <1>4, <3>1 DEF Adds
      <3>9. mem'[b].count = mem[b].count + c
        BY <1>6, <3>6
      <3>10. Total(Own, z, hs, b) = v + w + l
        BY <3>2 DEF Adds
      <3> QED  BY <3>3, <3>5, <3>7, <3>8, <3>9, <3>10
    <2>4. \A g \in hs : Chain(g.fins, DOMAIN mem)
      BY <1>4, <1>10, <1>11, <2>2
    <2>5. Counted(mem', Own, z, hs)
      BY <1>4, <1>5, <2>1, <2>2, <2>3, <2>4 DEF Counted
    <2> QED  BY <1>2, <1>7, <1>8, <2>1, <2>2, <2>5 DEF CountInv
  <1>14. HeldInv'
    <2>1. delivered \in Nat /\ \A g \in held : g.number \in 1..delivered
      BY DEF Inv, HeldInv
    <2>2. h.number = delivered + 1
      BY <1>1
    <2>3. delivered' \in Nat /\ \A g \in held' : g.number \in 1..delivered'
      BY <1>2, <2>1, <2>2
    <2> QED  BY <2>3 DEF HeldInv
  <1>15. RefInv'
    <2>1. \A g \in held : Pointing(g.items, Range(g.fins), buffer', off')
      BY <1>7, HeldPointing
    <2>2. Pointing(Append(items, item), MarkedBuffers(r), buffer, off')
      BY <1>7, ItemAdded
    <2>3. Pointing(h.items, Range(h.fins), buffer', off')
      BY <1>1, <1>7, <1>10, <1>11, <2>2
    <2>4. \A g \in held' : Pointing(g.items, Range(g.fins), buffer', off')
      BY <1>2, <2>1, <2>3
    <2>5. Pointing(items', OwnBuffers', buffer', off')
      <3>1. <<>> \in Seq(Range(<<>>)) /\ Len(<<>>) = 0
        OBVIOUS
      <3> QED  BY <1>2, <3>1 DEF Pointing
    <2> QED  BY <2>4, <2>5 DEF RefInv
  <1>16. (referenced \in BOOLEAN)'
    BY <1>2
  <1> QED  BY <1>7, <1>13, <1>14, <1>15, <1>16 DEF Inv

LEMMA ParsesKeeps ==
    ASSUME Inv, Parses
    PROVE  Inv' /\ Kept
  <1>1. CASE Untouched
    BY <1>1, UntouchedKeeps
  <1>2. CASE ~Untouched
    <2>1. PICK item : \E r \in BOOLEAN : Fits(item, r) /\ Takes(item, r)
      BY <1>2 DEF Parses, Round
    <2>2. PICK r \in BOOLEAN : Fits(item, r) /\ Takes(item, r)
      BY <2>1
    <2>3. CASE Collects(item, r)
      BY <2>2, <2>3, CollectsKeeps
    <2>4. CASE Success(Append(items, item), r)
      BY <2>2, <2>4, SuccessKeeps
    <2> QED  BY <2>2, <2>3, <2>4 DEF Takes
  <1> QED  BY <1>1, <1>2

-----------------------------------------------------------------------------
(***************************************************************************)
(* The invariant holds always                                              *)
(***************************************************************************)
LEMMA StutterKeeps ==
    ASSUME Inv, UNCHANGED vars
    PROVE  Inv' /\ Kept
  <1>1. /\ UNCHANGED <<wire, pc, mem, buffer, used, room, off, cs, trail, items>>
        /\ UNCHANGED <<referenced, zone, held, delivered>>
    BY DEF vars, sizeVars, parserVars
  <1>2. SizeInv' /\ ParseInv' /\ HeldInv'
    BY <1>1 DEF Inv, SizeInv, ParseInv, HeldInv, Alive
  <1>3. CountInv' /\ CleanStart'
    BY <1>1 DEF Inv, CountInv, CleanStart, Own, Alive
  <1>4. RefInv' /\ (referenced \in BOOLEAN)'
    BY <1>1 DEF Inv, RefInv, OwnBuffers
  <1>5. Kept
    BY <1>1, KeptSame
  <1> QED  BY <1>2, <1>3, <1>4, <1>5 DEF Inv

LEMMA InvStep ==
    ASSUME Inv, [Next]_vars
    PROVE  Inv' /\ Kept
  <1>1. CASE ReadSome
    BY <1>1, ReadSomeKeeps
  <1>2. CASE Header
    BY <1>2, HeaderParses, ParsesKeeps
  <1>3. CASE Trailing
    BY <1>3, TrailingParses, ParsesKeeps
  <1>4. CASE NextFalse
    BY <1>4, NextFalseKeeps
  <1>5. CASE ReserveBuffer
    BY <1>5, ReserveBufferKeeps
  <1>6. CASE Release
    BY <1>6, ReleaseKeeps
  <1>7. CASE Ends
    BY <1>7, EndsKeeps
  <1>8. CASE UNCHANGED vars
    BY <1>8, StutterKeeps
  <1> QED  BY <1>1, <1>2, <1>3, <1>4, <1>5, <1>6, <1>7, <1>8 DEF Next, Loop

\* The inductive invariant of the unpacker.
THEOREM InvHolds == Spec => []Inv
  <1>1. Inv /\ [Next]_vars => Inv'
    BY InvStep
  <1> QED  BY InvInit, <1>1, PTL DEF Spec

\* Whatever was sent and however it is cut into reads, every read that is
\* pending has max_read_bytes of room in the buffer (do_read(), expand_buffer()).
THEOREM ReadsFit == Spec => []ReadFits
  <1>1. Inv => ReadFits
    BY DEF Inv, SizeInv, ReadFits, Alive
  <1> QED  BY InvHolds, <1>1, PTL

\* A buffer's count is the number of those that will decrease it, and nobody
\* who counts has lost a buffer (init_count(), incr_count(), decr_count()).
THEOREM CountsMatch == Spec => []CountsMatchHolders
  <1>1. ASSUME Inv PROVE CountsMatchHolders
    <2>1. ASSUME NEW b \in DOMAIN mem PROVE mem[b].count = Holders(b)
      <3>1. mem[b].count = Total(Own, zone, held, b)
        BY <1>1, Parts
      <3>2. b \in Own <=> pc # "ended" /\ buffer = b
        BY DEF Own, Alive
      <3> QED  BY <3>1, <3>2 DEF Total, Occ, Users, Holders
    <2>2. pc # "ended" => buffer \in DOMAIN mem
      BY <1>1, Parts DEF Alive
    <2>3. Range(zone) \cup UNION {Range(h.fins) : h \in held} \subseteq DOMAIN mem
      BY <1>1, Parts
    <2> QED  BY <2>1, <2>2, <2>3 DEF CountsMatchHolders
  <1> QED  BY InvHolds, <1>1, PTL

-----------------------------------------------------------------------------
(***************************************************************************)
(* What was parsed stays readable                                          *)
(***************************************************************************)
LEMMA SameBytes ==
    ASSUME NEW s, NEW t, NEW from \in Nat, NEW n \in Nat,
           \A i \in (from + 1)..(from + n) : t[i] = s[i]
    PROVE  SubSeq(t, from + 1, from + n) = SubSeq(s, from + 1, from + n)
  OBVIOUS

\* A value whose buffer is there before and after a step reads as it did.
LEMMA ReadsSame ==
    ASSUME Inv, Kept, NEW item, NEW S, PointsInto(item, S, buffer, off),
           S \subseteq DOMAIN mem, "buf" \in DOMAIN item => item.buf \in DOMAIN mem'
    PROVE  Value(item)' = Value(item)
  <1>1. CASE "buf" \notin DOMAIN item
    BY <1>1 DEF Value
  <1>2. CASE "buf" \in DOMAIN item
    <2>1. PICK b, from, n : b = item.buf /\ from = item.from /\ n = item.len
      OBVIOUS
    <2>2. /\ b \in DOMAIN mem /\ b \in DOMAIN mem' /\ from \in Nat /\ n \in Nat
          /\ b = buffer => from + n <= off
      BY <1>2, <2>1 DEF PointsInto
    <2>3. SubSeq(mem'[b].data, from + 1, from + n) = SubSeq(mem[b].data, from + 1, from + n)
      <3>1. CASE b = buffer
        <4>1. off \in Nat
          BY DEF Inv, SizeInv
        <4>2. \A i \in 1..off : mem'[b].data[i] = mem[b].data[i]
          BY <2>2, <3>1 DEF Kept
        <4>3. \A i \in (from + 1)..(from + n) : i \in 1..off
          BY <2>2, <3>1, <4>1
        <4>4. \A i \in (from + 1)..(from + n) : mem'[b].data[i] = mem[b].data[i]
          BY <4>2, <4>3
        <4> QED  BY <2>2, <4>4, SameBytes
      <3>2. CASE b # buffer
        BY <2>2, <3>2 DEF Kept
      <3> QED  BY <3>1, <3>2
    <2>4. /\ Value(item) = [t |-> item.t, v |-> SubSeq(mem[b].data, from + 1, from + n)]
          /\ Value(item)' = [t |-> item.t, v |-> SubSeq(mem'[b].data, from + 1, from + n)]
      BY <1>2, <2>1, <2>2 DEF Value
    <2> QED  BY <2>3, <2>4
  <1> QED  BY <1>1, <1>2

\* All values of a message or of a part of it.
LEMMA AllReadSame ==
    ASSUME Inv, Kept, NEW its, NEW S, Pointing(its, S, buffer, off), S \subseteq DOMAIN mem,
           NEW more, NEW T, Pointing(more, T, buffer', off'), T \subseteq DOMAIN mem',
           Len(its) <= Len(more), \A i \in 1..Len(its) : more[i] = its[i]
    PROVE  /\ DOMAIN its = 1..Len(its) /\ DOMAIN more = 1..Len(more)
           /\ Len(its) \in Nat /\ Len(more) \in Nat
           /\ \A i \in 1..Len(its) : Value(more[i])' = Value(its[i])
  <1>1. /\ its \in Seq(Range(its)) /\ more \in Seq(Range(more))
        /\ DOMAIN its = 1..Len(its) /\ DOMAIN more = 1..Len(more)
        /\ Len(its) \in Nat /\ Len(more) \in Nat
    BY ListParts DEF Pointing
  <1>2. ASSUME NEW i \in 1..Len(its) PROVE Value(more[i])' = Value(its[i])
    <2>1. i \in 1..Len(more)
      BY <1>1
    <2>2. PICK item : item = its[i] /\ item = more[i]
      OBVIOUS
    <2>3. PointsInto(item, S, buffer, off) /\ PointsInto(item, T, buffer', off')
      BY <2>1, <2>2 DEF Pointing
    <2>4. "buf" \in DOMAIN item => item.buf \in DOMAIN mem'
      BY <2>3 DEF PointsInto
    <2>5. Value(item)' = Value(item)
      BY <2>3, <2>4, ReadsSame
    <2> QED  BY <2>2, <2>5
  <1> QED  BY <1>1, <1>2

LEMMA StaysEnded ==
    ASSUME [Next]_vars, pc = "ended"
    PROVE  pc' = "ended"
  <1>1. Release \/ UNCHANGED vars
    BY DEF Next, Loop, ReadSome, Header, Trailing, NextFalse, ReserveBuffer, Ends
  <1> QED  BY <1>1 DEF Release, vars

\* What a step does to the messages: nothing new, a value for the one being
\* parsed, which may be complete then, or the end.
NewItem(item) == "buf" \in DOMAIN item => item.buf = buffer'

Grows(item)       == items' = Append(items, item) /\ held' = held
Completes(item, h) ==
    h \notin held /\ h.items = Append(items, item) /\ held' = held \cup {h} /\ items' = <<>>

LEMMA ItemsStep ==
    ASSUME Inv, [Next]_vars
    PROVE  \/ pc' = "ended" /\ held' \subseteq held
           \/ items' = items /\ held' \subseteq held
           \/ pc' # "ended" /\ \E item : NewItem(item) /\ Grows(item)
           \/ pc' # "ended" /\ \E item, h : NewItem(item) /\ Completes(item, h)
  <1>1. CASE Parses
    <2>a. pc' # "ended"
      BY <1>1 DEF Parses
    <2>1. CASE Untouched
      BY <2>1 DEF Untouched
    <2>2. CASE ~Untouched
      <3>1. PICK item : \E r \in BOOLEAN : Fits(item, r) /\ Takes(item, r)
        BY <1>1, <2>2 DEF Parses, Round
      <3>2. PICK r \in BOOLEAN : Fits(item, r) /\ Takes(item, r)
        BY <3>1
      <3>a. NewItem(item)
        BY <1>1, <3>2 DEF Parses, Fits, NewItem
      <3>3. CASE Collects(item, r)
        BY <2>a, <3>3, <3>a DEF Collects, Grows
      <3>4. CASE Success(Append(items, item), r)
        <4>1. PICK h : /\ h.number = delivered + 1 /\ h.items = Append(items, item)
                       /\ held' = held \cup {h} /\ items' = <<>>
          BY <3>4 DEF Success
        <4>2. delivered \in Nat /\ \A g \in held : g.number \in 1..delivered
          BY DEF Inv, HeldInv
        <4>3. h \notin held
          BY <4>1, <4>2
        <4> QED  BY <2>a, <3>a, <4>1, <4>3 DEF Completes
      <3> QED  BY <3>2, <3>3, <3>4 DEF Takes
    <2> QED  BY <2>1, <2>2
  <1>2. CASE ReadSome
    BY <1>2 DEF ReadSome, parserVars
  <1>3. CASE NextFalse
    BY <1>3 DEF NextFalse, parserVars
  <1>4. CASE ReserveBuffer
    BY <1>4 DEF ReserveBuffer
  <1>5. CASE Release
    BY <1>5 DEF Release, parserVars
  <1>6. CASE Ends
    BY <1>6 DEF Ends
  <1>7. CASE UNCHANGED vars
    BY <1>7 DEF vars, parserVars
  <1> QED  BY <1>1, <1>2, <1>3, <1>4, <1>5, <1>6, <1>7, HeaderParses, TrailingParses
           DEF Next, Loop

(***************************************************************************)
(* Every string of a message in use, and of the part that was parsed of    *)
(* the next one, lies within a buffer that is allocated (flush_zone(),     *)
(* expand_buffer(), decr_count()).                                         *)
(***************************************************************************)
InBuffer(item) ==
    "buf" \in DOMAIN item =>
        item.buf \in DOMAIN mem /\ item.from + item.len <= Len(mem[item.buf].data)

NothingDangles ==
    /\ \A h \in held : \A i \in DOMAIN h.items : InBuffer(h.items[i])
    /\ pc # "ended" => \A i \in DOMAIN items : InBuffer(items[i])

\* A value that was there before, or that points into the unpacker's own buffer.
LEMMA StaysInBuffer ==
    ASSUME Inv', Kept, NEW item, NEW T, T \subseteq DOMAIN mem',
           PointsInto(item, T, buffer', off'), InBuffer(item) \/ (pc' # "ended" /\ NewItem(item))
    PROVE  InBuffer(item)'
  <1> SUFFICES ASSUME "buf" \in DOMAIN item
               PROVE  /\ item.buf \in DOMAIN mem'
                      /\ item.from + item.len <= Len(mem'[item.buf].data)
    BY DEF InBuffer
  <1>1. /\ item.buf \in DOMAIN mem' /\ item.from \in Nat /\ item.len \in Nat
        /\ item.buf = buffer' => item.from + item.len <= off'
    BY DEF PointsInto
  <1>2. CASE InBuffer(item)
    <2>1. item.buf \in DOMAIN mem /\ item.from + item.len <= Len(mem[item.buf].data)
      BY <1>2 DEF InBuffer
    <2>2. Len(mem'[item.buf].data) = Len(mem[item.buf].data)
      BY <1>1, <2>1 DEF Kept
    <2> QED  BY <1>1, <2>1, <2>2
  <1>3. CASE pc' # "ended" /\ NewItem(item)
    <2>1. /\ off' \in Nat /\ used' \in Nat /\ room' \in Nat /\ off' <= used'
          /\ used' + room' = Len(mem'[buffer'].data)
      BY <1>3 DEF Inv, SizeInv, Alive
    <2>2. PICK l : l = Len(mem'[buffer'].data)
      OBVIOUS
    <2>3. item.from + item.len <= l
      BY <1>1, <1>3, <2>1, <2>2 DEF NewItem
    <2> QED  BY <1>1, <1>3, <2>2, <2>3 DEF NewItem
  <1> QED  BY <1>2, <1>3

LEMMA AllStayInBuffer ==
    ASSUME Inv', Kept, NEW its, NEW T, T \subseteq DOMAIN mem', Pointing(its, T, buffer', off'),
           \A i \in DOMAIN its : InBuffer(its[i]) \/ (pc' # "ended" /\ NewItem(its[i]))
    PROVE  \A i \in DOMAIN its : InBuffer(its[i])'
  <1> TAKE i \in DOMAIN its
  <1>1. DOMAIN its = 1..Len(its)
    BY ListParts DEF Pointing
  <1>2. PICK item : item = its[i]
    OBVIOUS
  <1>3. PointsInto(item, T, buffer', off') /\ (InBuffer(item) \/ (pc' # "ended" /\ NewItem(item)))
    BY <1>1, <1>2 DEF Pointing
  <1>4. InBuffer(item)'
    BY <1>3, StaysInBuffer
  <1> QED  BY <1>2, <1>4

LEMMA AppendCases ==
    ASSUME NEW z, z \in Seq(Range(z)), NEW e, NEW w, w = Append(z, e)
    PROVE  \A i \in DOMAIN w : (i \in DOMAIN z /\ w[i] = z[i]) \/ w[i] = e
  <1>1. /\ w \in Seq(Range(w)) /\ Len(z) \in Nat /\ Len(w) = Len(z) + 1
        /\ \A i \in 1..Len(z) : w[i] = z[i]
        /\ w[Len(z) + 1] = e
    BY AppendRange
  <1>2. DOMAIN w = 1..Len(w) /\ DOMAIN z = 1..Len(z)
    BY <1>1, ListParts
  <1>3. \A i \in 1..Len(w) : i \in 1..Len(z) \/ i = Len(z) + 1
    BY <1>1
  <1> QED  BY <1>1, <1>2, <1>3

\* No string of a message is freed, or reaches beyond the end of its buffer,
\* while somebody may look at it.
THEOREM NoDanglingStrings == Spec => []NothingDangles
  <1>1. Init => NothingDangles
    BY DEF Init, NothingDangles
  <1>2. ASSUME Inv, NothingDangles, [Next]_vars PROVE NothingDangles'
    <2>1. Inv' /\ Kept
      BY <1>2, InvStep
    <2>2. \A h \in held' : /\ Range(h.fins) \subseteq DOMAIN mem'
                           /\ Pointing(h.items, Range(h.fins), buffer', off')
      BY <2>1, ListParts DEF Inv, CountInv, Counted, Chain, RefInv
    <2>3. pc' # "ended" => pc # "ended"
      BY <1>2, StaysEnded
    <2>4. Pointing(items', OwnBuffers', buffer', off')
      BY <2>1 DEF Inv, RefInv
    <2>5. pc' # "ended" => OwnBuffers' \subseteq DOMAIN mem'
      BY <2>1, ListParts DEF Inv, CountInv, Counted, Chain, OwnBuffers, Own, Alive
    <2>6. items \in Seq(Range(items))
      BY <1>2 DEF Inv, RefInv, Pointing
    <2> DEFINE Ok(item) == InBuffer(item) \/ (pc' # "ended" /\ NewItem(item))
    <2>7. /\ \A h \in held' : \A i \in DOMAIN h.items : Ok(h.items[i])
          /\ pc' # "ended" => \A i \in DOMAIN items' : Ok(items'[i])
      <3>1. CASE pc' = "ended" /\ held' \subseteq held
        BY <1>2, <3>1 DEF NothingDangles
      <3>2. CASE items' = items /\ held' \subseteq held
        BY <1>2, <2>3, <3>2 DEF NothingDangles
      <3>3. CASE pc' # "ended" /\ \E item : NewItem(item) /\ Grows(item)
        <4>1. PICK item : NewItem(item) /\ items' = Append(items, item) /\ held' = held
          BY <3>3 DEF Grows
        <4>2. \A i \in DOMAIN items' : (i \in DOMAIN items /\ items'[i] = items[i]) \/ items'[i] = item
          BY <2>6, <4>1, AppendCases
        <4> QED  BY <1>2, <2>3, <3>3, <4>1, <4>2 DEF NothingDangles
      <3>4. CASE pc' # "ended" /\ \E item, h : NewItem(item) /\ Completes(item, h)
        <4>1. PICK item, h : /\ NewItem(item) /\ h.items = Append(items, item)
                             /\ held' = held \cup {h} /\ items' = <<>>
          BY <3>4 DEF Completes
        <4>2. \A i \in DOMAIN h.items :
                (i \in DOMAIN items /\ h.items[i] = items[i]) \/ h.items[i] = item
          BY <2>6, <4>1, AppendCases
        <4>3. \A i \in DOMAIN h.items : Ok(h.items[i])
          BY <1>2, <2>3, <3>4, <4>1, <4>2 DEF NothingDangles
        <4>4. \A g \in held : \A i \in DOMAIN g.items : Ok(g.items[i])
          BY <1>2 DEF NothingDangles
        <4>5. DOMAIN items' = {}
          BY <4>1
        <4> HIDE DEF Ok
        <4> QED  BY <4>1, <4>3, <4>4, <4>5
      <3> QED  BY <1>2, <2>1, <3>1, <3>2, <3>3, <3>4, ItemsStep
    <2>8. \A h \in held' : \A i \in DOMAIN h.items : InBuffer(h.items[i])'
      BY <2>1, <2>2, <2>7, AllStayInBuffer
    <2>9. ASSUME pc' # "ended" PROVE \A i \in DOMAIN items' : InBuffer(items[i])'
      <3>1. PICK its, T : its = items' /\ T = OwnBuffers'
        OBVIOUS
      <3>2. \A i \in DOMAIN its : InBuffer(its[i])'
        BY <2>1, <2>4, <2>5, <2>7, <2>9, <3>1, AllStayInBuffer
      <3> QED  BY <3>1, <3>2 DEF InBuffer
    <2> QED  BY <2>8, <2>9 DEF NothingDangles
  <1> QED  BY InvHolds, <1>1, <1>2, PTL DEF Spec

\* t begins as s does.
Begins(s, t) == \A i \in DOMAIN s : i \in DOMAIN t /\ t[i] = s[i]

(***************************************************************************)
(* What a message in use is to those who look at it does not change, and   *)
(* what was parsed of the next one stays as it is until it is delivered    *)
(* with it or the session ends: no read, realloc(), new buffer or          *)
(* finalizer of another message reaches the bytes that were parsed         *)
(* (buffer_consumed(), expand_buffer(), flush_zone(), decr_count()).       *)
(***************************************************************************)
ParsedStays ==
    /\ \A h \in held \cap held' : Values(h.items)' = Values(h.items)
    /\ \/ pc' = "ended"
       \/ Begins(Values(items), Values(items)')
       \/ \E h \in held' \ held : Begins(Values(items), Values(h.items)')

LEMMA BeginsSame ==
    ASSUME Inv, Kept, NEW its, NEW S, Pointing(its, S, buffer, off), S \subseteq DOMAIN mem,
           NEW more, NEW T, Pointing(more, T, buffer', off'), T \subseteq DOMAIN mem',
           Len(its) <= Len(more), \A i \in 1..Len(its) : more[i] = its[i],
           NEW now, now = [i \in DOMAIN more |-> Value(more[i])']
    PROVE  Begins(Values(its), now)
  <1>1. /\ DOMAIN its = 1..Len(its) /\ DOMAIN more = 1..Len(more)
        /\ Len(its) \in Nat /\ Len(more) \in Nat
        /\ \A i \in 1..Len(its) : Value(more[i])' = Value(its[i])
    BY AllReadSame
  <1>2. DOMAIN its \subseteq DOMAIN more
    BY <1>1
  <1>3. DOMAIN Values(its) = DOMAIN its /\ \A i \in DOMAIN its : Values(its)[i] = Value(its[i])
    BY DEF Values
  <1>4. DOMAIN now = DOMAIN more /\ \A i \in DOMAIN more : now[i] = Value(more[i])'
    OBVIOUS
  <1> QED  BY <1>1, <1>2, <1>3, <1>4 DEF Begins

\* Nothing changes what was parsed: not the next reads into the same buffer, not
\* expand_buffer(), not the end of other messages.
THEOREM MessagesStay == Spec => [][ParsedStays]_vars
  <1>1. ASSUME Inv, [Next]_vars PROVE ParsedStays
    <2>1. Inv' /\ Kept
      BY <1>1, InvStep
    <2>2. \A h \in held' : Range(h.fins) \subseteq DOMAIN mem'
      BY <2>1, ListParts DEF Inv, CountInv, Counted, Chain
    <2>3. ASSUME NEW h \in held \cap held' PROVE Values(h.items)' = Values(h.items)
      <3>1. /\ Pointing(h.items, Range(h.fins), buffer, off) /\ Range(h.fins) \subseteq DOMAIN mem
            /\ Pointing(h.items, Range(h.fins), buffer', off') /\ Range(h.fins) \subseteq DOMAIN mem'
        BY <1>1, <2>1, <2>2, Parts DEF Inv, RefInv
      <3>2. h.items \in Seq(Range(h.items))
        BY <3>1 DEF Pointing
      <3>3. Len(h.items) \in Nat
        BY <3>2, LenProperties
      <3>4. /\ DOMAIN h.items = 1..Len(h.items)
            /\ \A i \in 1..Len(h.items) : Value(h.items[i])' = Value(h.items[i])
        BY <1>1, <2>1, <3>1, <3>3, AllReadSame
      <3> QED  BY <3>4 DEF Values
    <2>4. ASSUME pc' # "ended"
          PROVE  \/ Begins(Values(items), Values(items)')
                 \/ \E h \in held' \ held : Begins(Values(items), Values(h.items)')
      <3>1. Pointing(items, OwnBuffers, buffer, off) /\ items \in Seq(Range(items))
        BY <1>1 DEF Inv, RefInv, Pointing
      <3>2. pc # "ended"
        BY <1>1, <2>4, StaysEnded
      <3>3. OwnBuffers \subseteq DOMAIN mem
        BY <1>1, <3>2, Parts DEF OwnBuffers, Alive
      <3>4. OwnBuffers' \subseteq DOMAIN mem'
        BY <2>1, <2>4, ListParts DEF Inv, CountInv, Counted, Chain, OwnBuffers, Own, Alive
      <3>5. Len(items) \in Nat /\ \A item : /\ Len(items) <= Len(Append(items, item))
                                            /\ \A i \in 1..Len(items) : Append(items, item)[i] = items[i]
        BY <3>1, AppendRange
      <3>6. Pointing(items', OwnBuffers', buffer', off')
        BY <2>1 DEF Inv, RefInv
      <3>7. CASE items' = items \/ \E item : NewItem(item) /\ Grows(item)
        <4>a. PICK more, T : more = items' /\ T = OwnBuffers'
          OBVIOUS
        <4>1. Len(items) <= Len(more) /\ \A i \in 1..Len(items) : more[i] = items[i]
          BY <3>5, <3>7, <4>a DEF Grows
        <4>2. Values(items)' = [i \in DOMAIN more |-> Value(more[i])']
          BY <4>a DEF Values, Value
        <4>3. Pointing(more, T, buffer', off') /\ T \subseteq DOMAIN mem'
          BY <3>4, <3>6, <4>a
        <4> QED  BY <1>1, <2>1, <3>1, <3>3, <4>1, <4>2, <4>3, BeginsSame
      <3>8. CASE \E item, h : NewItem(item) /\ Completes(item, h)
        <4>1. PICK h \in held' \ held : \E item : h.items = Append(items, item)
          BY <3>8 DEF Completes
        <4>2. Len(items) <= Len(h.items) /\ \A i \in 1..Len(items) : h.items[i] = items[i]
          BY <3>5, <4>1
        <4>3. Pointing(h.items, Range(h.fins), buffer', off') /\ Range(h.fins) \subseteq DOMAIN mem'
          BY <2>1, <2>2 DEF Inv, RefInv
        <4>4. Values(h.items)' = [i \in DOMAIN h.items |-> Value(h.items[i])']
          BY DEF Values
        <4> QED  BY <1>1, <2>1, <3>1, <3>3, <4>2, <4>3, <4>4, BeginsSame
      <3> QED  BY <1>1, <2>4, <3>7, <3>8, ItemsStep
    <2> QED  BY <2>3, <2>4 DEF ParsedStays
  <1> QED  BY InvHolds, <1>1, PTL DEF Spec
=============================================================================
