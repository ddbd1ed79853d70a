------------------------------ MODULE Unpacker ------------------------------
(***************************************************************************)
(* msgpack's unpacker (rpc/msgpack/v2/parse.hpp, unpack.hpp and            *)
(* create_object_visitor.hpp) as the read loops of rpc::client and of      *)
(* server_session use it: bytes are read into its buffer, next() parses    *)
(* them, and the strings of a message point into the buffer.  The buffer   *)
(* has a reference count; a message's zone has a finalizer for every       *)
(* buffer the message points into, and whoever got the message (a worker   *)
(* of the server, the caller of the client) drops the zone at any time.    *)
(*                                                                         *)
(* next() is called again and again by one thread at a time.  One action   *)
(* is one round of the loop in context::execute().                         *)
(***************************************************************************)
EXTENDS Msgpack, FiniteSets, FiniteSetsExt

CONSTANTS
    Messages,       \* the messages the peer sends
    Encoded,        \* and the bytes it sends for them
    COUNTER_SIZE,   \* the count at the beginning of a buffer
    InitialSize,    \* MSGPACK_UNPACKER_INIT_BUFFER_SIZE
    MaxRead,        \* default_buffer_size, max_read_bytes
    ReadSizes,      \* bound: the sizes of what one read may return
    Doublings       \* bound: how often a size is doubled

ASSUME SizesAssumption ==
    /\ COUNTER_SIZE \in Nat /\ InitialSize \in Nat \ {0} /\ MaxRead \in Nat \ {0}
    /\ COUNTER_SIZE <= InitialSize /\ ReadSizes \subseteq 1..MaxRead
ASSUME BytesAssumption == Encoded \in Seq(0..255)

\* What the loops that double a size multiply it with: the last one is enough
\* for all that is sent.
Factors == {2^k : k \in 0..Doublings}
ASSUME FactorsAssumption ==
    /\ Factors \subseteq Nat
    /\ \E f \in Factors : MaxRead + Len(Encoded) + COUNTER_SIZE <= InitialSize * f

VARIABLES
    wire,       \* bytes that were sent and not read
    pc,         \* "read": a read is pending, "next", "reserve", "ended"
    mem,        \* mem[b]: contents and count of the allocated buffer b
    buffer,     \* m_buffer
    used,       \* m_used
    room,       \* m_free
    off,        \* m_off, and m_current while next() runs
    cs,         \* m_cs
    trail,      \* m_trail
    stack,      \* unpack_stack
    items,      \* the values visited so far of the message being parsed
    referenced, \* m_referenced
    zone,       \* m_z: buffers with a finalizer in it
    held,       \* messages in use: their number, values and finalizers
    delivered   \* number of messages that next() has returned

parserVars == <<off, cs, trail, stack, items, referenced>>
sizeVars   == <<buffer, used, room>>
vars == <<wire, pc, mem, sizeVars, parserVars, zone, held, delivered>>

-----------------------------------------------------------------------------
(***************************************************************************)
(* Buffers: malloc, realloc, the counts                                    *)
(***************************************************************************)
Garbage(n) == [i \in 1..n |-> 256]
With(b, m) == [x \in DOMAIN mem \cup {b} |-> IF x = b THEN m ELSE mem[x]]

\* The address malloc() or realloc() returns: addresses are used again.
Fresh == CHOOSE b \in 1..(Cardinality(DOMAIN mem) + 1) : b \notin DOMAIN mem

\* decr_count() for each of a bag of buffers, given as a sequence.
Decr(m, bs) ==
    LET left(b) == m[b].count - Cardinality({i \in DOMAIN bs : bs[i] = b})
    IN  [b \in {x \in DOMAIN m : left(x) > 0} |-> [m[b] EXCEPT !.count = left(b)]]

\* Sizes are doubled until there is enough.
Doubled(size, need) == Min({s \in {size * f : f \in Factors} : s >= need})

Byte(i)        == mem[buffer].data[i + 1]
Bytes(from, n) == [i \in 1..n |-> Byte(from + i - 1)]

\* The constructor, and reserve_buffer(default_buffer_size) in those of
\* rpc::client and server_session: nothing was parsed, so this is a realloc.
Init ==
    /\ wire = Encoded
    /\ pc = "read"
    /\ buffer = 1
    /\ used = COUNTER_SIZE /\ off = COUNTER_SIZE
    /\ room = (IF InitialSize - COUNTER_SIZE >= MaxRead THEN InitialSize
               ELSE Doubled(2 * InitialSize, MaxRead + COUNTER_SIZE)) - COUNTER_SIZE
    /\ mem = [b \in {1} |-> [data |-> Garbage(used + room), count |-> 1]]
    /\ cs = CS_HEADER /\ trail = 0 /\ stack = <<>> /\ items = <<>>
    /\ referenced = FALSE /\ zone = <<>>
    /\ held = {} /\ delivered = 0

-----------------------------------------------------------------------------
(***************************************************************************)
(* The read loop (do_read())                                               *)
(***************************************************************************)
\* async_read_some() into buffer(), up to max_read_bytes whatever
\* buffer_capacity() is, and buffer_consumed().
ReadSome ==
    /\ pc = "read" /\ wire # <<>>
    /\ \E n \in ReadSizes :
         /\ n <= Len(wire)
         /\ mem' = [mem EXCEPT ![buffer].data =
                       [i \in 1..Max({Len(@), used + n}) |->
                           IF i \in (used + 1)..(used + n) THEN wire[i - used] ELSE @[i]]]
         /\ wire' = SubSeq(wire, n + 1, Len(wire))
         /\ used' = used + n /\ room' = room - n
    /\ pc' = "next"
    /\ UNCHANGED <<buffer, parserVars, zone, held, delivered>>

\* VARIANT of MayRewind with a bug: what the message being parsed points to
\* is overwritten.
MayRewindReferenced == used = off /\ mem[buffer].count = 1

\* expand_buffer(): everything in the buffer was parsed and nobody, not even
\* the message being parsed, points into it.
MayRewind == used = off /\ mem[buffer].count = 1 /\ ~referenced

\* The constructor reserved MaxRead, so this is always enough, and the test
\* that follows it in the code never goes on to the realloc.
Rewind ==
    /\ room' = room + used - COUNTER_SIZE
    /\ used' = COUNTER_SIZE /\ off' = COUNTER_SIZE
    /\ UNCHANGED <<mem, buffer, zone, referenced>>

\* Nothing in the buffer was parsed: realloc(), whatever the count is.
Grow ==
    LET size == Doubled(2 * (used + room), MaxRead + used)
        data == SubSeq(mem[buffer].data, 1, used) \o Garbage(size - used)
    IN  /\ mem' = [b \in (DOMAIN mem \cup {Fresh}) \ {buffer} |->
                      IF b = Fresh THEN [mem[buffer] EXCEPT !.data = data] ELSE mem[b]]
        /\ buffer' = Fresh /\ room' = size - used
        /\ UNCHANGED <<used, off, zone, referenced>>

\* VARIANT of Replaces with a bug: the bytes that move are forgotten when the
\* size of the new buffer is chosen.
ReplacesShort ==
    LET rest == Bytes(off, used - off)
        size == Doubled(InitialSize, MaxRead + COUNTER_SIZE)
        new  == With(Fresh, [data |-> Garbage(COUNTER_SIZE) \o rest
                                      \o Garbage(size - COUNTER_SIZE - Len(rest)), count |-> 1])
    IN  /\ IF referenced THEN mem' = new /\ zone' = Append(zone, buffer)
                         ELSE mem' = Decr(new, <<buffer>>) /\ UNCHANGED zone
        /\ referenced' = FALSE
        /\ buffer' = Fresh
        /\ used' = COUNTER_SIZE + Len(rest) /\ off' = COUNTER_SIZE /\ room' = size - used'

\* What was not parsed moves to a new buffer.  The unpacker's count of the old
\* one passes to the zone if the message being parsed points into it.
Replaces ==
    LET rest == Bytes(off, used - off)
        size == Doubled(InitialSize, MaxRead + Len(rest) + COUNTER_SIZE)
        new  == With(Fresh, [data |-> Garbage(COUNTER_SIZE) \o rest
                                      \o Garbage(size - COUNTER_SIZE - Len(rest)), count |-> 1])
    IN  /\ IF referenced THEN mem' = new /\ zone' = Append(zone, buffer)
                         ELSE mem' = Decr(new, <<buffer>>) /\ UNCHANGED zone
        /\ referenced' = FALSE
        /\ buffer' = Fresh
        /\ used' = COUNTER_SIZE + Len(rest) /\ off' = COUNTER_SIZE /\ room' = size - used'

\* next() has returned false: reserve_buffer(max_read_bytes) if there is less,
\* and the next read is started.
ReserveBuffer ==
    /\ pc = "reserve"
    /\ \/ room >= MaxRead /\ UNCHANGED <<mem, sizeVars, off, zone, referenced>>
       \/ /\ room < MaxRead
          /\ \/ MayRewind /\ Rewind
             \/ ~MayRewind /\ off = COUNTER_SIZE /\ Grow
             \/ ~MayRewind /\ off # COUNTER_SIZE /\ Replaces
    /\ pc' = "read"
    /\ UNCHANGED <<wire, cs, trail, stack, items, held, delivered>>

-----------------------------------------------------------------------------
(***************************************************************************)
(* next(): one round of context::execute()                                 *)
(***************************************************************************)
Live(e) == e.rest > 1 \/ e.type = "key"

\* unpack_stack::consume(): containers that got their last element are popped,
\* the one below moves on.
MovesOn(e) ==
    CASE e.type = "array" -> [e EXCEPT !.rest = @ - 1]
      [] e.type = "key"   -> [e EXCEPT !.type = "value"]
      [] e.type = "value" -> [type |-> "key", rest |-> e.rest - 1]

\* VARIANT of Success with a bug: the message refers to the buffer and does not
\* count.
SuccessUncounted(all, ref) ==
    LET fins == IF ref THEN Append(zone, buffer) ELSE zone
    IN  /\ held' = held \cup {[number |-> delivered + 1, items |-> all, fins |-> fins]}
        /\ delivered' = delivered + 1
        /\ trail' = 0 /\ stack' = <<>> /\ items' = <<>>
        /\ referenced' = FALSE /\ zone' = <<>>
        /\ UNCHANGED mem

\* PARSE_SUCCESS: flush_zone(), release_zone(), reset().
Success(all, ref) ==
    LET fins == IF ref THEN Append(zone, buffer) ELSE zone
    IN  /\ held' = held \cup {[number |-> delivered + 1, items |-> all, fins |-> fins]}
        /\ delivered' = delivered + 1
        /\ trail' = 0 /\ stack' = <<>> /\ items' = <<>>
        /\ referenced' = FALSE /\ zone' = <<>>
        /\ mem' = IF ref THEN [mem EXCEPT ![buffer].count = @ + 1] ELSE mem

\* A value is complete; ref: it points into the buffer.
Visit(item, ref) ==
    LET live == {i \in DOMAIN stack : Live(stack[i])}
        all  == Append(items, item)
    IN  /\ cs' = CS_HEADER
        /\ \/ live = {} /\ Success(all, referenced \/ ref)
           \/ /\ live # {}
              /\ stack' = [SubSeq(stack, 1, Max(live)) EXCEPT ![Max(live)] = MovesOn(@)]
              /\ items' = all /\ referenced' = (referenced \/ ref)
              /\ UNCHANGED <<trail, mem, zone, held, delivered>>

\* start_aggregate()
Aggregate(item, type) ==
    \/ item.n = 0 /\ Visit(item, FALSE)
    \/ /\ item.n > 0
       /\ items' = Append(items, item)
       /\ stack' = Append(stack, [type |-> type, rest |-> item.n])
       /\ cs' = CS_HEADER
       /\ UNCHANGED <<trail, referenced, mem, zone, held, delivered>>

\* The value follows in the next n bytes.
Follows(state, n) ==
    /\ cs' = state /\ trail' = n
    /\ UNCHANGED <<stack, items, referenced, mem, zone, held, delivered>>

\* visit_str(), visit_bin(), visit_ext(): the default reference function says
\* yes, so the object points to the bytes, also when there are none.
Refers(t, n) == Visit([t |-> t, buf |-> buffer, from |-> off, len |-> n], TRUE)

\* m_cs is MSGPACK_CS_HEADER.
Header ==
    /\ pc = "next" /\ cs = CS_HEADER /\ off < used
    /\ LET b == Byte(off)
       IN  \/ b \in OneByte /\ Visit(OneByteValue(b), FALSE)
           \/ b = 160 /\ Refers("str", 0)
           \/ b \in FixStr \ {160} /\ Follows(ACS.str, b - 160)
           \/ b \in FixArray /\ Aggregate(Array(b - 144), "array")
           \/ b \in FixMap /\ Aggregate(Map(b - 128), "key")
           \/ b \in WithTrail /\ Follows(b % 32, Trail(b))
    /\ off' = off + 1
    /\ UNCHANGED <<wire, pc, sizeVars>>

\* VARIANT of Lacks with a bug: the byte after the value is waited for.
LacksOneMore == cs # CS_HEADER /\ used - off <= trail

Lacks == cs # CS_HEADER /\ used - off < trail

\* The switch on m_cs, once the bytes that follow are there.
Trailing ==
    /\ pc = "next" /\ cs # CS_HEADER /\ ~Lacks
    /\ LET n    == Load(Bytes(off, trail))
           form == Form(cs)
       IN  \/ form = "number" /\ Visit(Number(cs, Bytes(off, trail)), FALSE)
           \/ form \in {"str", "bin", "ext"} /\ Refers(form, trail)
           \/ form = "strSize" /\ n = 0 /\ Refers("str", 0)
           \/ form = "binSize" /\ n = 0 /\ Refers("bin", 0)
           \/ form = "strSize" /\ n > 0 /\ Follows(ACS.str, n)
           \/ form = "binSize" /\ n > 0 /\ Follows(ACS.bin, n)
           \/ form = "extSize" /\ Follows(ACS.ext, n + 1)
           \/ form = "array" /\ Aggregate(Array(n), "array")
           \/ form = "map" /\ Aggregate(Map(n), "key")
    /\ off' = off + trail
    /\ UNCHANGED <<wire, pc, sizeVars>>

\* PARSE_CONTINUE: next() returns false.
NextFalse ==
    /\ pc = "next"
    /\ (cs = CS_HEADER /\ off = used) \/ Lacks
    /\ pc' = "reserve"
    /\ UNCHANGED <<wire, mem, sizeVars, parserVars, zone, held, delivered>>

-----------------------------------------------------------------------------
(***************************************************************************)
(* The others                                                              *)
(***************************************************************************)
\* The last shared_ptr to a message's zone is gone: its finalizers run.
Release ==
    \E h \in held :
        /\ held' = held \ {h}
        /\ mem' = Decr(mem, h.fins)
        /\ UNCHANGED <<wire, pc, sizeVars, parserVars, zone, delivered>>

\* A read error, or is_closed() where the loop looks at it: ~unpacker().
Ends ==
    /\ pc \in {"read", "next"}
    /\ pc' = "ended"
    /\ mem' = Decr(mem, Append(zone, buffer))
    /\ zone' = <<>> /\ items' = <<>> /\ stack' = <<>>
    /\ UNCHANGED <<wire, sizeVars, off, cs, trail, referenced, held, delivered>>

Loop == ReadSome \/ Header \/ Trailing \/ NextFalse \/ ReserveBuffer

Next == Loop \/ Release \/ Ends

\* The io thread runs, and what was sent arrives.
Spec == Init /\ [][Next]_vars /\ WF_vars(Loop)

-----------------------------------------------------------------------------
(***************************************************************************)
(* Properties                                                              *)
(***************************************************************************)
(***************************************************************************)
(* do_read() passes max_read_bytes to async_read_some() and not            *)
(* buffer_capacity(): whenever a read is pending there is that much room,  *)
(* whatever was parsed, left over or referred to before.  And there is as  *)
(* much room as m_used and m_free say (server_session.cc, client.cc        *)
(* do_read(), expand_buffer()).                                            *)
(***************************************************************************)
ReadFits ==
    /\ pc = "read" => room >= MaxRead
    /\ pc # "ended" => /\ COUNTER_SIZE <= off /\ off <= used
                       /\ used + room = Len(mem[buffer].data)

\* What a value is to those who look at it now.
Value(item) ==
    IF "buf" \notin DOMAIN item THEN item
    ELSE IF item.buf \notin DOMAIN mem THEN [t |-> "freed"]
    ELSE [t |-> item.t, v |-> SubSeq(mem[item.buf].data, item.from + 1, item.from + item.len)]

Values(its) == [i \in DOMAIN its |-> Value(its[i])]

\* A message in use reads as the message that was sent, for as long as it is
\* in use, and so does the part of the next message that was parsed: no buffer
\* is overwritten, moved or freed under it, and no chunk boundary changes what
\* is parsed (expand_buffer(), flush_zone(), execute()).
HeldIntact ==
    /\ \A h \in held : Values(h.items) = Messages[h.number]
    /\ items # <<>> => IsPrefix(Values(items), Messages[delivered + 1])

\* Those that will decrease the count of buffer b.
Holders(b) ==
    (IF pc # "ended" /\ buffer = b THEN 1 ELSE 0)
    + Cardinality({i \in DOMAIN zone : zone[i] = b})
    + Cardinality({h \in held : b \in Range(h.fins)})

\* A buffer's count is the number of those that will decrease it, so that it
\* is freed once and not before the last of them is done, and everything is
\* freed in the end (init_count(), incr_count(), decr_count()).
CountsMatchHolders ==
    /\ \A b \in DOMAIN mem : mem[b].count = Holders(b)
    /\ (pc # "ended" => buffer \in DOMAIN mem)
    /\ Range(zone) \cup UNION {Range(h.fins) : h \in held} \subseteq DOMAIN mem

\* Every message that was sent is delivered unless the session ends first,
\* however it is cut into reads.
AllDelivered == <>(delivered = Len(Messages) \/ pc = "ended")
=============================================================================
