---------------------------- MODULE WireIntegers ----------------------------
(***************************************************************************)
(* The two integer encodings: the variable-length integers of QUIC         *)
(* (varint.rs), and the prefix integers of QPACK (qpack/integer.rs).       *)
(***************************************************************************)
EXTENDS WireBits

\* VarInt::new: a 64-bit value is a VarInt up to 2^62 - 1.
IsVarInt(v) == Len(v) <= 62

\* VarInt::encoded_len
EncodedLen(v) ==
    IF Len(v) <= 6 THEN 1 ELSE IF Len(v) <= 14 THEN 2 ELSE IF Len(v) <= 30 THEN 4 ELSE 8

LengthTag(n) == CASE n = 1 -> <<0, 0>> [] n = 2 -> <<0, 1>> [] n = 4 -> <<1, 0>> [] n = 8 -> <<1, 1>>

\* encode, encode_into_vec
VarInt(v) == LET n == EncodedLen(v) IN LengthTag(n) \o Pad(v, 8 * n - 2)

\* peek_len: 1 << (first octet >> 6)
PeekLen(w) == 2 ^ NatOf(Leading(w, 2))

\* Mutant: the length tag is left in an integer of four octets.
DecodeVarIntUnmasked(w) ==
    IF w = <<>> \/ Octets(w) < PeekLen(w) THEN TooShort
    ELSE LET n == PeekLen(w)
         IN  Decoded(Strip(SubSeq(w, IF n = 4 THEN 1 ELSE 3, 8 * n)), n)
\* decode: the shortest form is not required.
DecodeVarInt(w) ==
    IF w = <<>> \/ Octets(w) < PeekLen(w) THEN TooShort
    ELSE LET n == PeekLen(w) IN Decoded(Strip(SubSeq(w, 3, 8 * n)), n)

-----------------------------------------------------------------------------
(* Prefix integers; prefix is the bits that share the first octet.         *)

RECURSIVE Continuation(_)
Continuation(r) ==
    IF Len(r) <= 7 THEN <<0>> \o Pad(r, 7)
    ELSE <<1>> \o After(r, Len(r) - 7) \o Continuation(Leading(r, Len(r) - 7))

\* encode_integer, encode_integer_to_vec
EncodeInteger(prefix, v) ==
    LET mask == Ones(8 - Len(prefix))
    IN  IF Less(v, mask) THEN prefix \o Pad(v, Len(mask))
        ELSE prefix \o mask \o Continuation(Minus(v, mask))

\* The accumulator is a u64.
Wrap64(b) == Strip(After(b, IF Len(b) > 64 THEN Len(b) - 64 ELSE 0))

\* The guard on the shift comes after the octet has been added.
MaxShift == 56

RECURSIVE Continue(_, _, _, _)
Continue(w, offset, shift, value) ==
    IF Octets(w) <= offset THEN TooShort
    ELSE LET octet == SubSeq(w, 8 * offset + 1, 8 * offset + 8)
             total == Wrap64(Plus(value, Strip(Tail(octet) \o Zeros(shift))))
         IN  IF octet[1] = 0
             THEN IF IsVarInt(total) THEN Decoded(total, offset + 1) ELSE Refused("DecodeFailed")
             ELSE IF shift + 7 > MaxShift THEN Refused("DecodeFailed")
             ELSE Continue(w, offset + 1, shift + 7, total)

\* Mutant: no bound on the shift but the width of the word, and none on the value.
RECURSIVE ContinueUnbounded(_, _, _, _)
ContinueUnbounded(w, offset, shift, value) ==
    IF Octets(w) <= offset THEN TooShort
    ELSE LET octet == SubSeq(w, 8 * offset + 1, 8 * offset + 8)
             total == Wrap64(Plus(value, Strip(Tail(octet) \o Zeros(shift))))
         IN  IF octet[1] = 0 THEN Decoded(total, offset + 1)
             ELSE IF shift + 7 > 63 THEN Refused("DecodeFailed")
             ELSE ContinueUnbounded(w, offset + 1, shift + 7, total)
DecodeIntegerUnbounded(w, p) ==
    IF w = <<>> THEN TooShort
    ELSE LET first == SubSeq(w, 9 - p, 8)
         IN  IF first # Ones(p) THEN Decoded(Strip(first), 1)
             ELSE ContinueUnbounded(w, 1, 0, first)
\* decode_integer
DecodeInteger(w, p) ==
    IF w = <<>> THEN TooShort
    ELSE LET first == SubSeq(w, 9 - p, 8)
         IN  IF first # Ones(p) THEN Decoded(Strip(first), 1)
             ELSE Continue(w, 1, 0, first)
=============================================================================
