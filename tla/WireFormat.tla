----------------------------- MODULE WireFormat -----------------------------
(***************************************************************************)
(* What single bytes and field keys mean: the arithmetic the coders share. *)
(* A byte is a number below 2 * Base: its top bit (0x80) is Base, its low  *)
(* seven bits are the rest.  The code has Base = 128; runs take a smaller  *)
(* Base, so that short buffers hold varints of several groups.  The slips  *)
(* are what these definitions could wrongly be: the properties catch them. *)
(***************************************************************************)
EXTENDS Naturals

CONSTANT Base    \* 2^7 in the code: what one byte of a varint can hold

ASSUME BaseAssumption == Base \in Nat /\ Base > 1

Byte == 0 .. 2*Base - 1

\* Slip: a group of zeros ends the varint.
ContinuesIfNonzero(b) == b > Base

\* (*iter >> 7) == 1: further bytes of the varint follow.
Continues(b) == b >= Base

\* Slips: the 0x80 of the last group stays; byte(x) is not cut to eight bits.
GroupByteUncleared(x) == Base + (x % Base)
GroupByteUncut(x) == IF x \div Base = 0 THEN x ELSE Base + x

\* 0x80 | byte(x), with the 0x80 cleared again after the last group.
GroupByte(x) == IF x \div Base = 0 THEN x % Base ELSE Base + (x % Base)

\* Slips: no shift; no & 0x7f; no truncation to T.
AccumulateUnshifted(n, scale, b, word, shiftWord) == {(n + (b % Base)) % word}
AccumulateUnmasked(n, scale, b, word, shiftWord) == {(n + b * scale) % word}
AccumulateUntruncated(n, scale, b, word, shiftWord) == {n + (b % Base) * scale}

\* n |= T(T(b & 0x7f) << 7*i), where scale is 1 << 7*i, T holds 0 .. word-1
\* and shifts of T are done in a type of 0 .. shiftWord-1.  The groups share
\* no bit, so | is +.  A shift by the width of that type or more is undefined:
\* the | can only set bits, so any word from n up may come out.
Accumulate(n, scale, b, word, shiftWord) ==
    IF scale < shiftWord
    THEN {(n + (b % Base) * scale) % word}
    ELSE n .. word - 1

\* What a group is worth that comes after k others, and the number in the
\* groups of the k bytes from lo on.
Weight[k \in Nat] == IF k = 0 THEN 1 ELSE Weight[k - 1] * Base

NumberFrom(bytes, lo) ==
    LET number[k \in Nat] ==
            IF k = 0 THEN 0
            ELSE number[k - 1] + (bytes[lo + k - 1] % Base) * Weight[k - 1]
    IN  number

\* The place of the last byte of the varint at lo: none if it ends after hi.
LastOfVarint(bytes, lo, hi) ==
    {k \in lo .. hi - 1 : ~Continues(bytes[k]) /\ \A j \in lo .. k - 1 : Continues(bytes[j])}

\* field::key, to_wire_key and to_field_number, in a key type of 0 .. word-1.
KeyOf(number, wire, word) == (number * 8 + wire) % word
WireOf(key) == key % 8
NumberOf(key) == key \div 8
=============================================================================
