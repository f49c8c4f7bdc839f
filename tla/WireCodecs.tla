----------------------------- MODULE WireCodecs -----------------------------
(***************************************************************************)
(* Every encoder against its decoder, across a stream that cuts octets     *)
(* where it likes.  One behaviour exercises one codec: values are written, *)
(* by this library's encoder, by a peer in any other form the value has, or *)
(* by a peer that writes something else altogether (raw octets); octets    *)
(* arrive in any pieces; the reader appends them to its buffer and decodes *)
(* until octets are missing.                                               *)
(***************************************************************************)
EXTENDS Huffman, H3Frames, WtCodecs, FiniteSets

CONSTANTS
    Codecs,       \* records: name, p (the width of a prefix), most (items written)
    Values(_),    \* the values of a codec that are written
    RawInputs(_)  \* octet strings of a codec that no encoder wrote

VARIABLES
    codec,
    written,   \* the items written: value, how, wire
    inFlight,  \* octets that have not arrived
    buffer,    \* octets that have arrived and are not decoded
    received,  \* values decoded
    refused    \* why the reader gave up, or "no"

vars == <<codec, written, inFlight, buffer, received, refused>>

No == "no"

-----------------------------------------------------------------------------
(* One encoder and one decoder for each codec.                             *)

Encode(c, v) ==
    CASE c.name = "varint" -> VarInt(v)
      [] c.name = "integer" -> EncodeInteger(Zeros(8 - c.p), v)
      [] c.name = "string" -> EncodeString(Zeros(7 - c.p), v, TRUE)
      [] c.name = "frame" -> EncodeFrame(v)
      [] c.name = "capsule" -> EncodeCapsule(v)
      [] c.name = "capsules in frames" -> CapsuleDataFrame(v)
      [] c.name = "uni" -> EncodeStreamHeader(UniType, v)
      [] c.name = "bidi" -> EncodeStreamHeader(BidiSignal, v)
      [] c.name = "classify" ->
            IF "session" \in DOMAIN v THEN EncodeStreamHeader(UniType, v.session) ELSE VarInt(v.http3)
      [] c.name = "datagram" -> EncodeDatagram(v)
      [] c.name = "reset" -> VarInt(ToHttp3Code(v))

\* Every way to write a value: an integer may take more octets than it needs,
\* a string may or may not use the Huffman code.
VarIntForms(v) == {LengthTag(n) \o Pad(v, 8 * n - 2) : n \in {k \in {1, 2, 4, 8} : Len(v) <= 8 * k - 2}}
Concat(A, B) == {x[1] \o x[2] : x \in A \X B}
RECURSIVE EntryForms(_)
EntryForms(entries) ==
    IF entries = <<>> THEN {<<>>}
    ELSE Concat(Concat(VarIntForms(Head(entries)[1]), VarIntForms(Head(entries)[2])),
                EntryForms(Tail(entries)))
\* A type, the length of the payload, the payload.
Framed(t, payloads) ==
    UNION {Concat(Concat(VarIntForms(t), VarIntForms(BitsOf(Octets(x)))), {x}) : x \in payloads}
FrameForms(f) ==
    Framed(FrameNumber(f),
           CASE f.type = "Settings" -> EntryForms(f.entries)
             [] f.type \in {"Goaway", "MaxPushId"} -> VarIntForms(f.id)
             [] OTHER -> {ToWire(f.payload)})
CapsuleForms(c) ==
    Framed(c.type,
           CASE c.type \in FlowControlTypes -> VarIntForms(c.maximum)
             [] c.type = CloseSession -> {Pad(c.code, 32) \o ToWire(c.message)}
             [] c.type = DrainSession -> {<<>>}
             [] OTHER -> {ToWire(c.payload)})
StringForms(p, s) ==
    {EncodeInteger(Append(Zeros(7 - p), 0), BitsOf(Len(s))) \o ToWire(s),
     EncodeInteger(Append(Zeros(7 - p), 1), BitsOf(HuffmanLen(s))) \o HuffmanEncode(s)}
Forms(c, v) ==
    CASE c.name = "varint" -> VarIntForms(v)
      [] c.name = "string" -> StringForms(c.p, v)
      [] c.name = "frame" -> FrameForms(v)
      [] c.name = "capsule" -> CapsuleForms(v)
      [] c.name = "uni" -> Concat(VarIntForms(UniType), VarIntForms(v))
      [] c.name = "bidi" -> Concat(VarIntForms(BidiSignal), VarIntForms(v))
      [] c.name = "classify" ->
            IF "session" \in DOMAIN v THEN Concat(VarIntForms(UniType), VarIntForms(v.session))
            ELSE VarIntForms(v.http3)
      [] c.name = "datagram" -> Concat(VarIntForms(Quotient(v.session, 4)), {ToWire(v.payload)})
HasForms(c) == c.name \in {"varint", "string", "frame", "capsule", "uni", "bidi", "classify", "datagram"}

\* What a value of a codec must satisfy.
WellFormed(c, v) ==
    CASE c.name \in {"uni", "bidi"} -> IsVarInt(v) /\ Remainder(v, 4) = 0
      [] c.name = "classify" ->
            IF "session" \in DOMAIN v THEN Remainder(v.session, 4) = 0 ELSE v.http3 # UniType
      [] c.name = "datagram" -> IsVarInt(v.session) /\ Remainder(v.session, 4) = 0
      [] c.name = "varint" -> IsVarInt(v)
      [] c.name = "frame" /\ v.type = "Settings" ->
            \A i \in DOMAIN v.entries :
               /\ ~InvalidEntry(v.entries[i][1], v.entries[i][2])
               /\ \A j \in 1 .. i - 1 : v.entries[i][1] # v.entries[j][1]
      [] c.name = "frame" /\ v.type = "Unknown" -> CanBeUnknown(v.number)
      [] c.name = "capsule" /\ v.type = CloseSession ->
            Len(v.message) <= MaxCloseMessage /\ IsUtf8(v.message)
      [] OTHER -> TRUE

\* The reset code of a stream, and what Error::from_http3_code makes of it.
DecodeReset(w) ==
    LET v == DecodeVarInt(w) IN IF IsOk(v) THEN Decoded(ErrorOf(v.value), v.used) ELSE v

\* The capsule in one DATA frame: it is one capsule and nothing more.
DecodeFramedCapsule(w) ==
    LET f == DecodeFrame(w)
    IN  IF ~IsOk(f) THEN f
        ELSE LET c == DecodeCapsule(ToWire(f.value.payload))
             IN  IF IsOk(c) THEN Decoded(c.value, f.used) ELSE Malformed

Decode(c, w) ==
    CASE c.name = "varint" -> DecodeVarInt(w)
      [] c.name = "integer" -> DecodeInteger(w, c.p)
      [] c.name = "string" -> DecodeString(w, c.p)
      [] c.name = "frame" -> DecodeFrame(w)
      [] c.name = "capsule" -> DecodeCapsule(w)
      [] c.name = "capsules in frames" -> DecodeFramedCapsule(w)
      [] c.name = "uni" -> DecodeStreamHeader(UniType, w)
      [] c.name = "bidi" -> DecodeStreamHeader(BidiSignal, w)
      [] c.name = "classify" -> ClassifyUni(w)
      [] c.name = "datagram" -> DecodeDatagram(w)
      [] c.name = "reset" -> DecodeReset(w)

\* What is not a stream arrives whole.
Whole(c) == c.name \in {"datagram", "reset"}

\* What one answer of the decoder makes of the buffer w.
RECURSIVE Drain(_, _, _)
Rest(w, values, why) == [buffer |-> w, received |-> values, refused |-> why]
\* Mutant: octets of an item that is not complete are dropped.
TakenForgets(c, w, values, r) ==
    CASE r.kind = "short" -> Rest(<<>>, values, No)
      [] r.kind = "refused" -> Rest(w, values, r.why)
      [] r.kind = "ok" -> Drain(c, AfterOctets(w, r.used), Append(values, r.value))
Taken(c, w, values, r) ==
    CASE r.kind = "short" -> Rest(w, values, No)
      [] r.kind = "refused" -> Rest(w, values, r.why)
      [] r.kind = "ok" -> Drain(c, AfterOctets(w, r.used), Append(values, r.value))

\* The reader: decode until octets are missing.
Drain(c, w, values) == IF w = <<>> THEN Rest(w, values, No) ELSE Taken(c, w, values, Decode(c, w))

-----------------------------------------------------------------------------
Init ==
    /\ codec \in Codecs
    /\ written = <<>>
    /\ inFlight = <<>>
    /\ buffer = <<>>
    /\ received = <<>>
    /\ refused = No

Write(how, v, w) ==
    /\ Len(written) < codec.most
    /\ refused = No
    /\ written' = Append(written, [how |-> how, value |-> v, wire |-> w])
    /\ inFlight' = inFlight \o w
    /\ UNCHANGED <<codec, buffer, received, refused>>

\* The encoder of this library; what it refuses is not written.
WriteOwn == \E v \in Values(codec) : Encode(codec, v) # <<>> /\ Write("own", v, Encode(codec, v))

\* A peer that writes a valid value in another form (first: the bound on
\* the combinations).
WriteOther ==
    /\ HasForms(codec) /\ written = <<>>
    /\ \E v \in Values(codec) : WellFormed(codec, v) /\ \E w \in Forms(codec, v) : Write("other", v, w)

\* A peer that writes anything.
WriteRaw == written = <<>> /\ \E w \in RawInputs(codec) : Write("raw", <<>>, w)

\* Some octets arrive and the reader runs.
Arrive ==
    /\ inFlight # <<>>
    /\ refused = No
    /\ \E n \in (IF Whole(codec) THEN {} ELSE {1}) \union {Octets(inFlight)} :
          /\ inFlight' = AfterOctets(inFlight, n)
          /\ \E r \in {Drain(codec, buffer \o FirstOctets(inFlight, n), received)} :
                /\ buffer' = r.buffer
                /\ received' = r.received
                /\ refused' = r.refused
    /\ UNCHANGED <<codec, written>>

Next == WriteOwn \/ WriteOther \/ WriteRaw \/ Arrive

Spec == Init /\ [][Next]_vars

-----------------------------------------------------------------------------
(* Properties.                                                             *)

RECURSIVE Stream(_)
Stream(items) == IF items = <<>> THEN <<>> ELSE Head(items).wire \o Stream(Tail(items))

\* TypeOK: buffers are whole octets, and the reader never holds more than
\* has been written.
TypeOK ==
    /\ codec \in Codecs
    /\ Len(written) <= codec.most
    /\ Len(inFlight) % 8 = 0 /\ Len(buffer) % 8 = 0
    /\ Len(inFlight) + Len(buffer) <= Len(Stream(written))
    /\ Len(received) <= Len(Stream(written))

\* What the reader is to make of a value: a close message is cut, a reset is
\* an application error.
Expected(c, v) ==
    CASE c.name \in {"capsule", "capsules in frames"} /\ v.type = CloseSession ->
            CloseCapsule(v.code, TruncateMessage(v.message))
      [] c.name = "reset" -> [application |-> v]
      [] OTHER -> v

\* ValuesArrive: what the encoders write, and every other form of a valid value,
\* is never refused, is decoded in order, is never decoded before its last
\* octet or to something else, and is all decoded once all of it is there
\* (encode and decode of every codec).
ValuesArrive ==
    (\A i \in DOMAIN written : written[i].how # "raw") =>
        /\ refused = No
        /\ Len(received) <= Len(written)
        /\ \A i \in DOMAIN received : received[i] = Expected(codec, written[i].value)
        /\ inFlight = <<>> => Len(received) = Len(written) /\ buffer = <<>>

\* CutsInvisible: where the stream was cut makes no difference, to a valid
\* stream or to any other: the reader has decoded, refused and kept what it
\* would have had the octets come in one piece (BufferTooShort is answered
\* for every prefix of an item and only for one).
CutsInvisible ==
    LET all == Stream(written)
        arrived == FirstOctets(all, Octets(all) - Octets(inFlight))
    IN  Drain(codec, arrived, <<>>) = Rest(buffer, received, refused)

\* The mathematical value of a prefix integer, without the 64-bit accumulator:
\* p ones and then seven bits an octet, the least significant first.
RECURSIVE Groups(_)
Groups(w) == IF w = <<>> THEN <<>> ELSE Groups(AfterOctets(w, 1)) \o SubSeq(w, 2, 8)
IntegerMeaning(w, p) ==
    IF SubSeq(w, 9 - p, 8) # Ones(p) THEN Strip(SubSeq(w, 9 - p, 8))
    ELSE Plus(Ones(p), Strip(Groups(AfterOctets(w, 1))))

\* IntegersExact: a prefix integer is decoded to its exact value or refused,
\* and every value up to 2^62 - 1 in at most nine continuation octets is
\* decoded: the accumulator never wraps (decode_integer; RFC 9204 Section
\* 4.1.1 asks for 62 bits).
IntegersExact ==
    codec.name = "integer" /\ Len(written) = 1 =>
        LET w == written[1].wire
            meaning == IntegerMeaning(w, codec.p)
        IN  /\ received # <<>> => received = <<meaning>> /\ IsVarInt(meaning)
            /\ refused # No => ~IsVarInt(meaning) \/ Octets(w) > 10

\* OnlyValidForms: what is accepted is one of the forms of a well-formed
\* value and means that value: no octet of a payload is ignored, padding is
\* padding, identifiers are those of client-initiated bidirectional streams
\* and can be written again (decode_frame, Capsule::decode, huffman::decode,
\* Datagram::decode, StreamHeader::decode_*_checked).
OnlyValidForms ==
    HasForms(codec) /\ Len(written) = 1 /\ received # <<>> =>
        /\ Len(received) = 1
        /\ buffer = <<>>
        /\ WellFormed(codec, received[1])
        /\ written[1].wire \in Forms(codec, received[1])

\* How many of the sequences of 30 bits begin with one of the first codes.
RECURSIVE Share(_)
Share(s) == IF s < 0 THEN 0 ELSE 2 ^ (30 - Len(Code[s])) + Share(s - 1)

\* PrefixCode: the table is a complete prefix code: no code begins another,
\* and every long enough sequence of bits begins with one (HUFFMAN_TABLE).
ASSUME PrefixCode ==
    /\ \A s, t \in 0 .. Eos : s # t /\ Len(Code[s]) <= Len(Code[t])
                                 => Leading(Code[t], Len(Code[s])) # Code[s]
    /\ Share(Eos) = 2 ^ 30

\* CodesKept: the code of a reset survives the translation there and back,
\* whatever it is, and an application code is never written as a reserved
\* point or outside its range (ApplicationErrorCode, Error::from_http3_code).
CodesKept ==
    codec.name = "reset" =>
        /\ \A i \in DOMAIN received :
              CodeOf(received[i]) = DecodeVarInt(written[i].wire).value
        /\ \A i \in DOMAIN written :
              LET c == DecodeVarInt(written[i].wire).value
              IN  written[i].how = "own" =>
                     ~IsReserved(c) /\ ~Less(c, FirstCode) /\ ~Less(LastCode, c)

\* FramesAreNoSignals: no frame this library writes begins as the header of a
\* WebTransport stream does, which the peer would take for one on a stream of
\* its own (encode_frame, StreamHeader::decode_bidirectional_checked).
FramesAreNoSignals ==
    codec.name = "frame" =>
        \A i \in DOMAIN written :
           written[i].how = "own" => DecodeVarInt(written[i].wire).value # BidiSignal

\* AcceptedExactly: no decoder accepts too much or alters what it accepts, and no
\* encoder writes what may not be sent: TypeOK, IntegersExact, OnlyValidForms,
\* CodesKept and FramesAreNoSignals.
AcceptedExactly == TypeOK /\ IntegersExact /\ OnlyValidForms /\ CodesKept /\ FramesAreNoSignals
=============================================================================
