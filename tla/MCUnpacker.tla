----------------------------- MODULE MCUnpacker -----------------------------
(***************************************************************************)
(* Three messages as rpclib packs them: a call with an id of two bytes and *)
(* a name, a notification with a map, and a response with a string that    *)
(* needs a size of its own; and one of a peer that writes every size in    *)
(* full.  The buffer is small, so that it is rewound, grown and replaced   *)
(* at every place of a message.                                            *)
(***************************************************************************)
EXTENDS Unpacker

MCPacked ==
    << <<Array(4), Uint(0), Uint(300), Str(<<97, 98>>), Array(0)>>,
       <<Array(3), Uint(2), Str(<<99>>), Array(1), Map(1), Bool(TRUE), Str(<<>>)>>,
       <<Array(4), Uint(1), Uint(200), Nil, Str([i \in 1..32 |-> 100])>> >>

MCMessages == Append(MCPacked,
    <<Array(5), Str(<<>>), [t |-> "bin", v |-> <<>>], [t |-> "bin", v |-> <<7>>],
      [t |-> "ext", v |-> <<1>>], Map(1), [t |-> "bits", v |-> 224], Uint(5)>>)

MCEncoded ==
    FlattenSeq([i \in 1..3 |-> Pack(MCPacked[i])])
    \o <<220, 0, 5,  217, 0,  196, 0,  196, 1, 7,  199, 0, 1,  222, 0, 1,  224,  204, 5>>

MCReadSizes == {1, 7}
=============================================================================
