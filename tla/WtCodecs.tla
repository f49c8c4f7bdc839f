------------------------------ MODULE WtCodecs ------------------------------
(***************************************************************************)
(* What WebTransport puts on the wire: capsules                            *)
(* (webtransport/capsule.rs), HTTP datagrams (webtransport/datagram.rs),   *)
(* the headers of its streams (webtransport/stream.rs) and the error codes *)
(* of its resets (webtransport/error.rs).                                  *)
(***************************************************************************)
EXTENDS WireIntegers

CONSTANT MaxCloseMessage    \* MAX_CLOSE_SESSION_MESSAGE_LEN, in octets

-----------------------------------------------------------------------------
(* Capsules.                                                               *)

\* CapsuleType
CloseSession == BitsOf(\h2843)
DrainSession == BitsOf(\h78ae)
MaxData == BitsOf(\h190B4D3D)
MaxStreamsBidi == BitsOf(\h190B4D3F)
MaxStreamsUni == BitsOf(\h190B4D40)
DataBlocked == BitsOf(\h190B4D41)
StreamsBlockedBidi == BitsOf(\h190B4D43)
StreamsBlockedUni == BitsOf(\h190B4D44)

\* is_flow_control: the capsules whose payload is one integer, the maximum.
FlowControlTypes ==
    {MaxData, MaxStreamsBidi, MaxStreamsUni, DataBlocked, StreamsBlockedBidi, StreamsBlockedUni}

CloseCapsule(code, message) == [type |-> CloseSession, code |-> code, message |-> message]
DrainCapsule == [type |-> DrainSession]
LimitCapsule(t, maximum) == [type |-> t, maximum |-> maximum]
UnknownCapsule(t, octets) == [type |-> t, payload |-> octets]

\* UTF-8, as String and from_utf8 know it: how many octets a character has,
\* and where one begins.  (Overlong forms and surrogates are not told apart.)
IsContinuation(o) == o \in 128 .. 191
CharLen(o) ==
    CASE o < 128 -> 1 [] o \in 194 .. 223 -> 2 [] o \in 224 .. 239 -> 3 [] o \in 240 .. 244 -> 4
      [] OTHER -> 0
RECURSIVE IsUtf8(_)
IsUtf8(s) ==
    s # <<>> => /\ CharLen(s[1]) \in 1 .. Len(s)
                /\ \A i \in 2 .. CharLen(s[1]) : IsContinuation(s[i])
                /\ IsUtf8(SubSeq(s, CharLen(s[1]) + 1, Len(s)))
IsCharBoundary(s, n) == n = 0 \/ n = Len(s) \/ ~IsContinuation(s[n + 1])

\* truncate_close_session_message, Error::application
TruncateMessage(s) ==
    IF Len(s) <= MaxCloseMessage THEN s
    ELSE LET ends == {n \in 0 .. MaxCloseMessage : IsCharBoundary(s, n)}
         IN  SubSeq(s, 1, CHOOSE n \in ends : \A m \in ends : m <= n)

CapsulePayload(c) ==
    CASE c.type = CloseSession -> Pad(c.code, 32) \o ToWire(TruncateMessage(c.message))
      [] c.type = DrainSession -> <<>>
      [] c.type \in FlowControlTypes -> VarInt(c.maximum)
      [] OTHER -> ToWire(c.payload)

\* encode, encode_capsule_header
EncodeCapsule(c) == VarInt(c.type) \o VarInt(BitsOf(Octets(CapsulePayload(c)))) \o CapsulePayload(c)

\* encode_as_data_frame
CapsuleDataFrame(c) == VarInt(<<>>) \o VarInt(BitsOf(Octets(EncodeCapsule(c)))) \o EncodeCapsule(c)

Malformed == Refused("Malformed")

\* decode_payload, decode_exact_varint
DecodeCapsulePayload(t, w) ==
    CASE t = CloseSession ->
            IF Octets(w) < 4 \/ Octets(w) - 4 > MaxCloseMessage \/ ~IsUtf8(FromWire(After(w, 32)))
            THEN Malformed
            ELSE Decoded(CloseCapsule(Strip(Leading(w, 32)), FromWire(After(w, 32))), 0)
      [] t = DrainSession -> IF w = <<>> THEN Decoded(DrainCapsule, 0) ELSE Malformed
      [] t \in FlowControlTypes ->
            LET v == DecodeVarInt(w)
            IN  IF IsOk(v) /\ v.used = Octets(w) THEN Decoded(LimitCapsule(t, v.value), 0)
                ELSE Malformed
      [] OTHER -> Decoded(UnknownCapsule(t, FromWire(w)), 0)

\* decode: nothing is malformed before the whole capsule is there.
DecodeCapsule(w) ==
    LET t == DecodeVarInt(w)
    IN  IF ~IsOk(t) THEN TooShort
        ELSE LET n == DecodeVarInt(AfterOctets(w, t.used))
                 rest == AfterOctets(w, t.used + n.used)
             IN  IF ~IsOk(n) \/ Less(BitsOf(Octets(rest)), n.value) THEN TooShort
                 ELSE Behind(t.used + n.used + NatOf(n.value),
                             DecodeCapsulePayload(t.value, FirstOctets(rest, NatOf(n.value))))

-----------------------------------------------------------------------------
(* Datagrams: the quarter of the session's identifier, then the payload,   *)
(* which is all the rest.                                                  *)

EncodeDatagram(d) == VarInt(Quotient(d.session, 4)) \o ToWire(d.payload)

DecodeDatagram(w) ==
    LET q == DecodeVarInt(w)
    IN  IF ~IsOk(q) THEN TooShort
        ELSE IF Len(q.value) > 60 THEN Refused("InvalidQuarterStreamId")
        ELSE Decoded([session |-> Strip(q.value \o <<0, 0>>), payload |-> FromWire(AfterOctets(w, q.used))],
                     Octets(w))

-----------------------------------------------------------------------------
(* Stream headers.                                                         *)

UniType == BitsOf(\h54)
BidiSignal == BitsOf(\h41)

\* encode_unidirectional, encode_bidirectional
EncodeStreamHeader(first, session) == VarInt(first) \o VarInt(session)

\* decode_unidirectional_checked, decode_bidirectional_checked
DecodeStreamHeader(first, w) ==
    LET t == DecodeVarInt(w)
    IN  IF ~IsOk(t) THEN TooShort
        ELSE IF t.value # first THEN Refused("InvalidFormat")
        ELSE LET id == DecodeVarInt(AfterOctets(w, t.used))
             IN  IF ~IsOk(id) THEN TooShort
                 ELSE IF Remainder(id.value, 4) # 0 THEN Refused("InvalidSessionId")
                 ELSE Decoded(id.value, t.used + id.used)

\* classify_uni_stream_checked
ClassifyUni(w) ==
    LET t == DecodeVarInt(w)
        header == DecodeStreamHeader(UniType, w)
    IN  IF ~IsOk(t) THEN TooShort
        ELSE IF t.value # UniType THEN Decoded([http3 |-> t.value], t.used)
        ELSE IF IsOk(header) THEN Decoded([session |-> header.value], header.used)
        ELSE header

-----------------------------------------------------------------------------
(* Error codes: the 32-bit codes of the application among the codes of     *)
(* HTTP/3, without the reserved points 31 * N + 33.                        *)

FirstCode == Words(<<\h52e4, \ha40f, \ha8db>>)
LastCode == Words(<<\h52e5, \hac98, \h3162>>)

\* ErrorCode::from_code
ProtocolErrors ==
    {BitsOf(\h3994bd84), BitsOf(\h170d7b68), BitsOf(\h045d4487), BitsOf(\h0817b3dd), BitsOf(\h212c0d48)}

\* ApplicationErrorCode::to_http3_code
ToHttp3Code(n) == Plus(FirstCode, Plus(n, Quotient(n, 30)))

IsReserved(c) == Remainder(Minus(c, BitsOf(\h21)), 31) = 0

\* ApplicationErrorCode::from_http3_code
FromHttp3Code(c) ==
    IF Less(c, FirstCode) \/ Less(LastCode, c) \/ IsReserved(c) THEN Refused("None")
    ELSE LET shifted == Minus(c, FirstCode)
             n == Minus(shifted, Quotient(shifted, 31))
         IN  IF Len(n) <= 32 THEN Decoded(n, 0) ELSE Refused("None")

\* Error::from_http3_code
ErrorOf(c) ==
    IF c \in ProtocolErrors THEN [protocol |-> c]
    ELSE IF IsOk(FromHttp3Code(c)) THEN [application |-> FromHttp3Code(c).value]
    ELSE [unknown |-> c]
\* Error::to_http3_code
CodeOf(e) ==
    IF "protocol" \in DOMAIN e THEN e.protocol
    ELSE IF "application" \in DOMAIN e THEN ToHttp3Code(e.application) ELSE e.unknown
=============================================================================
