------------------------------ MODULE Framing ------------------------------
(***************************************************************************)
(* The message framing of src/promise_demo/net.h, byte by byte:            *)
(* [4-byte id][4-byte length][payload], numbers big-endian.  A sender      *)
(* encodes frames into a byte stream, a receiver appends chunks of         *)
(* whatever size to its buffer and extracts frames from it.                *)
(*                                                                         *)
(* A byte has Base values and a u32 has Width bytes (256 and 4 in the      *)
(* code); arithmetic on a u32 is modulo Base^Width, as in the code.        *)
(***************************************************************************)
EXTENDS Streams

CONSTANTS
    Base,       \* values of a byte
    Width,      \* bytes of a u32
    SomeIds,    \* the ids frames are sent with
    MaxPayload, \* BOUND: length of a payload
    MaxFrames,  \* BOUND: frames sent
    Chunk       \* BOUND: bytes one recv() returns (4096 in the code)

Byte == 0..(Base - 1)
Mod  == Base ^ Width
HeaderSize == 2 * Width

ASSUME FramingAssumption ==
    /\ Base \in Nat \ {0, 1} /\ Width \in Nat \ {0} /\ Chunk \in Nat \ {0}
    /\ SomeIds \subseteq 0..(Mod - 1)
    /\ HeaderSize + MaxPayload < Mod

Payload == UNION {[1..n -> Byte] : n \in 0..MaxPayload}

\* The bytes of v, the most significant first.
put_u32(v) == [k \in 1..Width |-> (v \div Base ^ (Width - k)) % Base]

\* VARIANT of get_u32 with a bug: the least significant byte first.
get_u32_little(in, pos) ==
    LET value[k \in 0..Width] ==
            IF k = 0 THEN 0
            ELSE Base * value[k - 1] + in[pos + Width + 1 - k]
    IN  value[Width]

\* The number in the Width bytes of `in' after position pos.
get_u32(in, pos) ==
    LET value[k \in 0..Width] ==
            IF k = 0 THEN 0 ELSE Base * value[k - 1] + in[pos + k]
    IN  value[Width]

encode_frame(id, payload) ==
    put_u32(id) \o put_u32(Len(payload) % Mod) \o payload

\* 8 + length is computed in 32 bits before it is compared with a size.
FrameSize(in) == (HeaderSize + get_u32(in, Width)) % Mod

\* connection::frame_ready(), and the two tests of try_decode_frame().
frame_ready(in) == Len(in) >= HeaderSize /\ Len(in) >= FrameSize(in)

\* What try_decode_frame() extracts, and the buffer it leaves.
Decoded(in) == [id      |-> get_u32(in, 0),
                payload |-> SubSeq(in, HeaderSize + 1,
                                   HeaderSize + get_u32(in, Width))]
Remaining(in) == Drop(in, FrameSize(in))

VARIABLES
    wire,       \* bytes sent and not yet received
    buffer,     \* the receiver's read_buffer_
    sent,       \* history: the frames sent
    decoded     \* history: the frames extracted

vars == <<wire, buffer, sent, decoded>>

Init == wire = <<>> /\ buffer = <<>> /\ sent = <<>> /\ decoded = <<>>

\* send_all(encode_frame(id, payload))
SendFrame ==
    /\ Len(sent) < MaxFrames
    /\ \E id \in SomeIds, payload \in Payload :
          /\ wire' = wire \o encode_frame(id, payload)
          /\ sent' = Append(sent, [id |-> id, payload |-> payload])
    /\ UNCHANGED <<buffer, decoded>>

\* VARIANT of RecvChunk with a bug: the chunk replaces the buffer.
RecvChunkOverwrites ==
    /\ \E n \in 1..Chunk :
          /\ n <= Len(wire)
          /\ buffer' = Keep(wire, n)
          /\ wire' = Drop(wire, n)
    /\ UNCHANGED <<sent, decoded>>

\* recv_some(): between one byte and a full chunk.
RecvChunk ==
    /\ \E n \in 1..Chunk :
          /\ n <= Len(wire)
          /\ buffer' = buffer \o Keep(wire, n)
          /\ wire' = Drop(wire, n)
    /\ UNCHANGED <<sent, decoded>>

\* try_decode_frame() returning true.
TryDecode ==
    /\ frame_ready(buffer)
    /\ decoded' = Append(decoded, Decoded(buffer))
    /\ buffer' = Remaining(buffer)
    /\ UNCHANGED <<wire, sent>>

Next == SendFrame \/ RecvChunk \/ TryDecode

Spec == Init /\ [][Next]_vars

-----------------------------------------------------------------------------

(***************************************************************************)
(* However the bytes are cut into chunks, the frames extracted are the     *)
(* frames sent, in order, with their ids and payloads (empty ones too);    *)
(* and when everything has arrived and no frame is left to extract, all of *)
(* them were extracted and no byte remains.                                *)
(***************************************************************************)
FramesSurviveChunking ==
    /\ Len(decoded) <= Len(sent) /\ decoded = Keep(sent, Len(decoded))
    /\ wire = <<>> /\ ~frame_ready(buffer) => decoded = sent /\ buffer = <<>>

\* What the buffer holds: its complete frames, and whether bytes follow them.
Parsed ==
    LET rest(n) == Drop(buffer, Len(buffer) - n)
        last[n \in 0..Len(buffer)] ==
            IF frame_ready(rest(n))
            THEN LET more == last[n - FrameSize(rest(n))]
                 IN  [frames |-> <<Decoded(rest(n))>> \o more.frames,
                      frag   |-> more.frag]
            ELSE [frames |-> <<>>, frag |-> n > 0]
    IN  last[Len(buffer)]

Frames == INSTANCE FrameStream WITH
    Item     <- [id : SomeIds, payload : Payload],
    inflight <- Drop(sent, Len(decoded) + Len(Parsed.frames)),
    ready    <- Parsed.frames,
    frag     <- Parsed.frag

\* The byte level implements the frame level the other modules assume.
ImplementsFrameStream == Frames!Spec
=============================================================================
