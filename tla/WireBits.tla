------------------------------ MODULE WireBits ------------------------------
(***************************************************************************)
(* Numbers and octet strings as the codecs see them, as sequences of bits, *)
(* the most significant bit first.  A number has no leading zero (zero is  *)
(* the empty sequence), so a number of w bits is a sequence no longer than *)
(* w, and 62-bit and 64-bit arithmetic keeps its width.  An octet string   *)
(* is a sequence of bits whose length is a multiple of eight.              *)
(***************************************************************************)
EXTENDS Integers, Sequences

Zeros(n) == [i \in 1 .. n |-> 0]
Ones(n) == [i \in 1 .. n |-> 1]

Leading(b, n) == SubSeq(b, 1, n)
After(b, n) == SubSeq(b, n + 1, Len(b))

\* The number whose digits, leading zeros included, are b.
RECURSIVE Strip(_)
Strip(b) == IF b # <<>> /\ b[1] = 0 THEN Strip(Tail(b)) ELSE b

Pad(b, n) == Zeros(n - Len(b)) \o b

RECURSIVE BitsOf(_)
BitsOf(n) == IF n = 0 THEN <<>> ELSE Append(BitsOf(n \div 2), n % 2)

RECURSIVE NatOf(_)
NatOf(b) == IF b = <<>> THEN 0 ELSE 2 * NatOf(Leading(b, Len(b) - 1)) + b[Len(b)]

\* a < b
RECURSIVE Before(_, _)
Before(a, b) ==
    /\ b # <<>>
    /\ \/ a[1] < b[1]
       \/ a[1] = b[1] /\ Before(Tail(a), Tail(b))
Less(a, b) == Len(a) < Len(b) \/ (Len(a) = Len(b) /\ Before(a, b))

\* Digits of a + b + carry, and of a - b - borrow, of equally long a and b.
RECURSIVE SumDigits(_, _, _)
SumDigits(a, b, carry) ==
    IF a = <<>> THEN <<carry>>
    ELSE LET n == Len(a)
             s == a[n] + b[n] + carry
         IN  Append(SumDigits(Leading(a, n - 1), Leading(b, n - 1), s \div 2), s % 2)
RECURSIVE DifferenceDigits(_, _, _)
DifferenceDigits(a, b, borrow) ==
    IF a = <<>> THEN <<>>
    ELSE LET n == Len(a)
             d == a[n] - b[n] - borrow
         IN  Append(DifferenceDigits(Leading(a, n - 1), Leading(b, n - 1), IF d < 0 THEN 1 ELSE 0),
                    d % 2)

Longest(a, b) == IF Len(a) > Len(b) THEN Len(a) ELSE Len(b)
Plus(a, b) == Strip(SumDigits(Pad(a, Longest(a, b)), Pad(b, Longest(a, b)), 0))
\* a - b, where b <= a
Minus(a, b) == Strip(DifferenceDigits(a, Pad(b, Len(a)), 0))

\* Long division by a small divisor: the quotient's digits and the remainder.
RECURSIVE Division(_, _, _)
Division(b, d, rest) ==
    IF b = <<>> THEN [quotient |-> <<>>, remainder |-> rest]
    ELSE LET r == 2 * rest + b[1]
             more == Division(Tail(b), d, r % d)
         IN  [more EXCEPT !.quotient = <<r \div d>> \o @]
Quotient(b, d) == Strip(Division(b, d, 0).quotient)
Remainder(b, d) == Division(b, d, 0).remainder

\* The number whose base 2^16 digits are s.
RECURSIVE Words(_)
Words(s) == IF s = <<>> THEN <<>> ELSE Strip(Words(Leading(s, Len(s) - 1)) \o Pad(BitsOf(s[Len(s)]), 16))

-----------------------------------------------------------------------------
(* Octet strings.                                                          *)

Octets(w) == Len(w) \div 8
FirstOctets(w, n) == Leading(w, 8 * n)
AfterOctets(w, n) == After(w, 8 * n)

RECURSIVE ToWire(_)
ToWire(s) == IF s = <<>> THEN <<>> ELSE Pad(BitsOf(Head(s)), 8) \o ToWire(Tail(s))

OctetAt(w, i) == NatOf(SubSeq(w, 8 * i - 7, 8 * i))
FromWire(w) == [i \in 1 .. Octets(w) |-> OctetAt(w, i)]

-----------------------------------------------------------------------------
(* What a decoder answers: the value and the octets it used, that octets   *)
(* are missing, or that the input is wrong.                                *)

Decoded(v, n) == [kind |-> "ok", value |-> v, used |-> n]
TooShort == [kind |-> "short"]
Refused(why) == [kind |-> "refused", why |-> why]
IsOk(r) == r.kind = "ok"
\* The answer r to what followed n octets.
Behind(n, r) == IF IsOk(r) THEN Decoded(r.value, n + r.used) ELSE r
=============================================================================
