---------------------------- MODULE MCWireCodecs ----------------------------
(***************************************************************************)
(* Values at every boundary of the widths: 2^k - 1 and 2^k for the lengths *)
(* of integers, the characters of the shortest and longest codes, limits   *)
(* of messages and of identifiers.                                         *)
(***************************************************************************)
EXTENDS WireCodecs

C(name, p, most) == [name |-> name, p |-> p, most |-> most]

MCCodecs ==
    {C("varint", 0, 2), C("frame", 0, 2), C("capsule", 0, 2), C("capsules in frames", 0, 2),
     C("uni", 0, 1), C("bidi", 0, 1), C("classify", 0, 1), C("datagram", 0, 1), C("reset", 0, 1),
     C("string", 7, 1), C("string", 3, 1)}
    \union {C("integer", p, 1) : p \in 3 .. 8}

Power(k) == <<1>> \o Zeros(k)
\* Multiples of four at the boundaries.
SessionIds == {<<>>, Power(2), <<1, 1, 1, 1, 0, 0>>, Power(6), Power(61), Append(Append(Ones(60), 0), 0)}

Message(n) == [i \in 1 .. n |-> 97]
Euro == <<226, 130, 172>>
Umlaut == <<195, 188>>

MCFrames ==
    {DataFrame(<<>>), DataFrame(<<1, 255>>), HeadersFrame(<<0, 0>>), GoawayFrame(<<>>), GoawayFrame(Power(6)),
     MaxPushIdFrame(Power(14)), UnknownFrame(BitsOf(\h21), <<7>>), UnknownFrame(BitsOf(\h41), <<1>>),
     SettingsFrame(<<>>), SettingsFrame(<< <<BitsOf(\h2b603742), <<1>>>>, <<Ones(33), Ones(62)>> >>)}
MCCapsules ==
    {CloseCapsule(<<>>, <<>>), CloseCapsule(Ones(32), Euro), CloseCapsule(<<1>>, Euro \o Umlaut),
     CloseCapsule(<<1>>, Message(3) \o Umlaut), CloseCapsule(<<1>>, Message(5)),
     DrainCapsule, LimitCapsule(MaxData, Ones(62)), LimitCapsule(StreamsBlockedUni, <<1>>),
     UnknownCapsule(BitsOf(\h17), <<1, 2>>)}

MCValues(c) ==
    CASE c.name = "varint" ->
            {<<>>, <<1>>, Ones(6), Power(6), Ones(14), Power(14), Ones(30), Power(30), Ones(62)}
      [] c.name = "integer" ->
            {<<>>, Ones(2), Ones(3), Ones(c.p), Minus(Ones(c.p), <<1>>), Plus(Ones(c.p), <<1>>), Power(c.p + 7),
             Plus(Ones(c.p), Ones(7)), Plus(Ones(c.p), Power(7)), Power(30), Power(56), Ones(62)}
      [] c.name = "string" ->
            {<<>>, <<0>>, <<97>>, <<48, 49>>, <<97, 98, 99, 100>>, <<255, 255>>, [i \in 1 .. 9 |-> 48],
             <<10>> \o [i \in 1 .. 10 |-> 101]}
      [] c.name = "frame" -> MCFrames
      [] c.name \in {"capsule", "capsules in frames"} -> MCCapsules
      [] c.name \in {"uni", "bidi"} -> SessionIds
      [] c.name = "classify" ->
            {[session |-> id] : id \in SessionIds} \union {[http3 |-> t] : t \in {<<>>, <<1>>, Power(6), Ones(62)}}
      [] c.name = "datagram" -> {[session |-> id, payload |-> x] : id \in SessionIds, x \in {<<>>, <<64, 5>>}}
      [] c.name = "reset" ->
            {<<>>, BitsOf(29), BitsOf(30), BitsOf(31), BitsOf(59), BitsOf(60), Ones(16), Ones(31), Ones(32)}

RawFrame(t, n, w) == VarInt(BitsOf(t)) \o VarInt(BitsOf(n)) \o w
One == VarInt(<<1>>)

MCRawInputs(c) ==
    CASE c.name = "integer" ->
            \* Nine and ten continuation octets, of ones, of zeros and in between.
            {Zeros(8 - c.p) \o Ones(c.p) \o x :
                x \in {Ones(8 * 8) \o <<0>> \o Ones(7), Ones(8 * 8) \o <<0>> \o Pad(Ones(6), 7),
                       Ones(8 * 8) \o <<0>> \o Pad(Ones(5), 7), Ones(8 * 9) \o <<0>> \o Pad(<<1>>, 7),
                       Ones(8 * 9) \o <<0>> \o Ones(7), ToWire(<<128, 0>>),
                       ToWire(<<128, 128, 128, 128, 128, 128, 128, 128, 0>>),
                       ToWire(<<128, 128, 128, 128, 128, 128, 128, 128, 128, 0>>)}}
      [] c.name = "string" ->
            \* Two octets as a Huffman string: padding of every kind, EOS.
            {EncodeInteger(Append(Zeros(7 - c.p), 1), BitsOf(Len(x))) \o ToWire(x) :
                x \in {<<o>> : o \in {0, 7, 8, 15, 24, 31, 127, 255, 191, 254}}
                      \union {<<24, 255>>, <<0, 1>>, <<28, 100>>, <<255, 255, 255, 255>>, <<255, 255, 255, 252>>,
                              <<255, 200>>, <<255, 199>>}}
      [] c.name = "frame" ->
            {RawFrame(t, 1, One) : t \in {2, 3, 5, 6, 8, 9, \h41}}
            \union {RawFrame(t, 2, One \o One) : t \in {4, 7, 13}}
            \union {RawFrame(t, 1, VarInt(<<1>>)) : t \in {4}}
            \union {RawFrame(t, 0, <<>>) : t \in {7, 13, 2}}
            \union {RawFrame(4, 2, VarInt(BitsOf(id)) \o VarInt(BitsOf(2))) : id \in {0, 2, 5, 8}}
            \union {RawFrame(4, 4, One \o One \o One \o One), RawFrame(7, 1, ToWire(<<64>>))}
      [] c.name = "capsule" ->
            {VarInt(t) \o VarInt(BitsOf(Len(x))) \o ToWire(x) :
                t \in {DrainSession, MaxData, BitsOf(\h190B4D3E)}, x \in {<<>>, <<5>>, <<5, 6>>, <<64>>}}
            \union {VarInt(CloseSession) \o VarInt(BitsOf(Len(x))) \o ToWire(x) :
                x \in {<<0, 0, 0>>, <<0, 0, 0, 1, 195>>, <<0, 0, 0, 1, 128>>, <<0, 0, 0, 1>> \o Message(5),
                       <<0, 0, 0, 1>> \o Message(4)}}
      [] c.name = "classify" -> {VarInt(UniType) \o VarInt(id) : id \in {<<1>>, <<1, 0>>, Ones(62)}}
      [] c.name \in {"uni", "bidi"} ->
            {VarInt(t) \o VarInt(id) : t \in {UniType, BidiSignal, <<>>}, id \in {<<1>>, <<1, 0>>, Ones(62)}}
      [] c.name = "datagram" -> {VarInt(q) \o ToWire(<<1>>) : q \in {Ones(60), Power(60), Ones(62)}}
      [] c.name = "reset" ->
            {VarInt(x) : x \in {<<>>, FirstCode, LastCode, Plus(LastCode, <<1>>), Minus(FirstCode, <<1>>),
                                Plus(FirstCode, BitsOf(30)), Plus(FirstCode, BitsOf(31)), Ones(62)}
                               \union {Plus(FirstCode, BitsOf(n)) : n \in 1 .. 29} \union ProtocolErrors}
      [] OTHER -> {}
=============================================================================
