------------------------------ MODULE H3Frames ------------------------------
(***************************************************************************)
(* HTTP/3 frames on the wire: frame/mod.rs, frame/encoder.rs and           *)
(* frame/decoder.rs, with the entries of SETTINGS (settings.rs).  A frame  *)
(* is a record; numbers are bit sequences (WireBits), payloads octets.     *)
(***************************************************************************)
EXTENDS WireIntegers

\* FrameType::from_type
Named == {"Data", "Headers", "CancelPush", "Settings", "PushPromise", "Goaway", "MaxPushId"}
FrameType(name) ==
    CASE name = "Data" -> 0 [] name = "Headers" -> 1 [] name = "CancelPush" -> 3
      [] name = "Settings" -> 4 [] name = "PushPromise" -> 5 [] name = "Goaway" -> 7
      [] name = "MaxPushId" -> 13
TypeIn(t, numbers) == t \in {BitsOf(n) : n \in numbers}
FromType(t) == {name \in Named : BitsOf(FrameType(name)) = t}
IsHttp2Only(t) == TypeIn(t, {2, 6, 8, 9})

DataFrame(octets) == [type |-> "Data", payload |-> octets]
HeadersFrame(octets) == [type |-> "Headers", payload |-> octets]
SettingsFrame(entries) == [type |-> "Settings", entries |-> entries]
GoawayFrame(id) == [type |-> "Goaway", id |-> id]
MaxPushIdFrame(id) == [type |-> "MaxPushId", id |-> id]
UnknownFrame(t, octets) == [type |-> "Unknown", number |-> t, payload |-> octets]

\* UnknownFrame::new
CanBeUnknown(t) == FromType(t) = {} /\ ~IsHttp2Only(t)

-----------------------------------------------------------------------------
(* Encoder.                                                                *)

\* encode_frame_header
FrameHeader(t, n) == VarInt(t) \o VarInt(BitsOf(n))

RECURSIVE EntriesOnWire(_)
EntriesOnWire(entries) ==
    IF entries = <<>> THEN <<>>
    ELSE VarInt(Head(entries)[1]) \o VarInt(Head(entries)[2]) \o EntriesOnWire(Tail(entries))

\* The payloads of encode_data_frame, encode_headers_frame,
\* encode_settings_frame, encode_goaway_frame, encode_max_push_id_frame and
\* encode_unknown_frame.
FramePayload(f) ==
    CASE f.type \in {"Data", "Headers", "Unknown"} -> ToWire(f.payload)
      [] f.type = "Settings" -> EntriesOnWire(f.entries)
      [] f.type \in {"Goaway", "MaxPushId"} -> VarInt(f.id)

\* Frame::frame_type
FrameNumber(f) == IF f.type = "Unknown" THEN f.number ELSE BitsOf(FrameType(f.type))

\* encode_unknown_frame refuses WT_STREAM, which has no length and only begins
\* a stream.
MaySend(f) == f.type = "Unknown" => f.number # BitsOf(\h41)

\* encode_frame; encoded_frame_len is its length.  None is no octet at all.
EncodeFrame(f) ==
    IF MaySend(f) THEN FrameHeader(FrameNumber(f), Octets(FramePayload(f))) \o FramePayload(f)
    ELSE <<>>

-----------------------------------------------------------------------------
(* Decoder.                                                                *)

\* decode_frame_header: an HTTP/2 frame is refused once its length is there.
DecodeFrameHeader(w) ==
    LET t == DecodeVarInt(w)
    IN  IF ~IsOk(t) THEN TooShort
        ELSE LET n == DecodeVarInt(AfterOctets(w, t.used))
             IN  IF ~IsOk(n) THEN TooShort
                 ELSE IF IsHttp2Only(t.value) THEN Refused("Http2Frame")
                 ELSE Decoded([type |-> t.value, len |-> n.value], t.used + n.used)

\* Setting::from_wire: the identifiers of HTTP/2 are refused, and a flag
\* other than 0 and 1.
Http2Settings == {2, 3, 4, 5}
BoolSettings == {BitsOf(\h8), BitsOf(\h33), BitsOf(\h2b603742)}
InvalidEntry(id, value) ==
    \/ TypeIn(id, Http2Settings)
    \/ id \in BoolSettings /\ Len(value) > 1

\* decode_settings_frame; seen is SettingsPayload::seen_ids.
RECURSIVE DecodeEntries(_, _)
DecodeEntries(w, entries) ==
    IF w = <<>> THEN Decoded(SettingsFrame(entries), 0)
    ELSE LET id == DecodeVarInt(w)
         IN  IF ~IsOk(id) THEN Refused("InvalidLength")
             ELSE LET value == DecodeVarInt(AfterOctets(w, id.used))
                      seen == {entries[i][1] : i \in DOMAIN entries}
                  IN  IF ~IsOk(value) THEN Refused("InvalidLength")
                      ELSE IF InvalidEntry(id.value, value.value) \/ id.value \in seen
                      THEN Refused("InvalidSetting")
                      ELSE DecodeEntries(AfterOctets(w, id.used + value.used),
                                         Append(entries, <<id.value, value.value>>))

\* decode_goaway_frame, decode_max_push_id_frame: one integer and no more.
ExactVarInt(w) ==
    LET v == DecodeVarInt(w) IN IF IsOk(v) /\ v.used = Octets(w) THEN v ELSE Refused("InvalidLength")

DecodeFramePayload(t, w) ==
    LET name == FromType(t)
        id == ExactVarInt(w)
    IN  CASE name = {"Data"} -> Decoded(DataFrame(FromWire(w)), 0)
          [] name = {"Headers"} -> Decoded(HeadersFrame(FromWire(w)), 0)
          [] name = {"Settings"} -> DecodeEntries(w, <<>>)
          [] name = {"Goaway"} -> IF IsOk(id) THEN Decoded(GoawayFrame(id.value), 0) ELSE id
          [] name = {"MaxPushId"} -> IF IsOk(id) THEN Decoded(MaxPushIdFrame(id.value), 0) ELSE id
          [] name = {} -> Decoded(UnknownFrame(t, FromWire(w)), 0)
          [] OTHER -> Refused("ServerPushNotSupported")

\* decode_frame
DecodeFrame(w) ==
    LET header == DecodeFrameHeader(w)
    IN  IF ~IsOk(header) THEN header
        ELSE LET rest == AfterOctets(w, header.used)
             IN  IF Less(BitsOf(Octets(rest)), header.value.len) THEN TooShort
                 ELSE LET n == NatOf(header.value.len)
                      IN  Behind(header.used + n,
                                 DecodeFramePayload(header.value.type, FirstOctets(rest, n)))
=============================================================================
