------------------------------- MODULE Msgpack ------------------------------
(***************************************************************************)
(* The wire format of rpclib's messages: packer (rpc/msgpack/v1/pack.hpp)  *)
(* and the tables of the parser (rpc/msgpack/v2/parse.hpp).  A message is  *)
(* the sequence of its values in the order in which they are packed, an    *)
(* array or a map before its elements; a byte is a number.                 *)
(***************************************************************************)
EXTENDS Naturals, Sequences, SequencesExt

Array(n)  == [t |-> "array", n |-> n]
Map(n)    == [t |-> "map", n |-> n]
Uint(v)   == [t |-> "uint", v |-> v]
Str(s)    == [t |-> "str", v |-> s]
Nil       == [t |-> "nil"]
Bool(b)   == [t |-> "bool", v |-> b]

BigEndian(v, width) == [i \in 1..width |-> (v \div 256^(width - i)) % 256]

\* load<>() of 8, 16, 32 and 64 bits.
Load(bytes) ==
    LET two(i)  == bytes[i] * 256 + bytes[i + 1]
        four(i) == two(i) * 65536 + two(i + 2)
    IN  CASE Len(bytes) = 1 -> bytes[1]
          [] Len(bytes) = 2 -> two(1)
          [] Len(bytes) = 4 -> four(1)
          [] Len(bytes) = 8 -> four(1) * 65536 * 65536 + four(5)

\* A size n as the low bits of "fix", or after the marker for its width.
Size(n, fixmax, fix, marker16) ==
    IF n <= fixmax THEN <<fix + n>>
    ELSE IF n < 65536 THEN <<marker16>> \o BigEndian(n, 2) ELSE <<marker16 + 1>> \o BigEndian(n, 4)

StrSize(n) ==
    IF n < 32 THEN <<160 + n>>
    ELSE IF n < 256 THEN <<217, n>>
    ELSE IF n < 65536 THEN <<218>> \o BigEndian(n, 2) ELSE <<219>> \o BigEndian(n, 4)

UintBytes(v) ==
    IF v < 128 THEN <<v>>
    ELSE IF v < 256 THEN <<204, v>>
    ELSE IF v < 65536 THEN <<205>> \o BigEndian(v, 2) ELSE <<206>> \o BigEndian(v, 4)

PackValue(tok) ==
    CASE tok.t = "array" -> Size(tok.n, 15, 144, 220)
      [] tok.t = "map"   -> Size(tok.n, 15, 128, 222)
      [] tok.t = "str"   -> StrSize(Len(tok.v)) \o tok.v
      [] tok.t = "uint"  -> UintBytes(tok.v)
      [] tok.t = "nil"   -> <<192>>
      [] tok.t = "bool"  -> <<IF tok.v THEN 195 ELSE 194>>

Pack(message) == FlattenSeq([i \in DOMAIN message |-> PackValue(message[i])])

-----------------------------------------------------------------------------
(***************************************************************************)
(* context::execute(): what the first byte of a value says                 *)
(***************************************************************************)
OneByte   == 0..127 \cup 224..255 \cup {192, 194, 195}
FixStr    == 160..191
FixArray  == 144..159
FixMap    == 128..143
WithTrail == 196..223

\* The bytes that follow: of a size or of the value itself.
Trail(selector) ==
    <<1, 2, 4,  1, 2, 4,  4, 8,  1, 2, 4, 8,  1, 2, 4, 8,
      2, 3, 5, 9, 17,  1, 2, 4,  2, 4,  2, 4>>[selector - 195]

\* m_cs: 0 while a value begins, the low bits of its first byte (next_cs())
\* while the bytes that follow are waited for, then those of its contents.
CS_HEADER == 0
ACS == [str |-> 32, bin |-> 33, ext |-> 34]

\* What is waited for, by the cases of the switch on m_cs.
Form(cs) ==
    CASE cs \in 4..6          -> "binSize"
      [] cs \in 7..9          -> "extSize"
      [] cs \in 10..19        -> "number"
      [] cs \in 20..24 \/ cs = ACS.ext -> "ext"
      [] cs \in 25..27        -> "strSize"
      [] cs \in 28..29        -> "array"
      [] cs \in 30..31        -> "map"
      [] cs = ACS.str         -> "str"
      [] cs = ACS.bin         -> "bin"

\* Values of one byte; negative ones and the wider signed and floating point
\* numbers are kept as the bits that were loaded.
OneByteValue(b) ==
    CASE b < 128          -> Uint(b)
      [] b = 192          -> Nil
      [] b \in {194, 195} -> Bool(b = 195)
      [] b >= 224         -> [t |-> "bits", v |-> b]

Number(cs, bytes) ==
    IF cs \in 12..15 THEN Uint(Load(bytes)) ELSE [t |-> "bits", v |-> Load(bytes)]
=============================================================================
