--------------------------- MODULE SignedNumbers ---------------------------
(***************************************************************************)
(* Signed numbers on the wire: varint_coder of a signed integer (varint.h) *)
(* and of an enum (enum.h) sends its two's complement, and sint_zigzag     *)
(* (zigzag.h) keeps and sends its sign in the lowest bit.  A program gives *)
(* an object a number, encodes it, and decodes it into an object of the    *)
(* same or, in another version of the message type, of another width.      *)
(*                                                                         *)
(* An integer type is named by its half h = 2^(8*N-1): its signed numbers  *)
(* are -h .. h-1, its unsigned ones 0 .. 2*h-1.                            *)
(***************************************************************************)
EXTENDS WireFormat, Integers

CONSTANTS
    Halves,   \* the integer types
    IntWord,  \* 2^32 in the code: narrower types are promoted to int
    Groups,   \* 10 in the code: no number of these types has more groups
    Kinds     \* of "plain" and "zigzag"

ASSUME HalvesAssumption ==
    /\ Halves \subseteq Nat \ {0}
    /\ \A g, h \in Halves : g <= h => \E k \in 1..h : h = k * g
    /\ Kinds \subseteq {"plain", "zigzag"}

ASSUME GroupsAssumption ==
    /\ IntWord \in Nat \ {0}
    /\ Groups \in Nat \ {0} /\ \A h \in Halves : 2*h <= Weight[Groups]

SignedOf(h) == -h .. h-1
UnsignedOf(h) == 0 .. 2*h - 1

\* static_cast between the signed and the unsigned type of one width.
ToUnsigned(n, h) == IF n >= 0 THEN n ELSE n + 2*h
ToSigned(u, h) == IF u < h THEN u ELSE u - 2*h

\* u ^ mask, for a mask whose bits are all clear or all set.
AllSet(h) == 2*h - 1
XorMask(u, mask) == IF mask = 0 THEN u ELSE mask - u

\* Slip: a logical shift in place of the arithmetic one.
FromSintLogical(n, h) == ((2*n) % (2*h)) + (IF n < 0 THEN 1 ELSE 0)

\* (in << 1) ^ (in >> (N*8 - 1)): the arithmetic shift leaves the sign only.
from_sint(n, h) == XorMask((2*n) % (2*h), IF n < 0 THEN AllSet(h) ELSE 0)

\* Slip: the lowest bit is only shifted out.
ToSintUnmasked(u, h) == ToSigned(u \div 2, h)

\* (in >> 1) ^ -(in & 1)
to_sint(u, h) == ToSigned(XorMask(u \div 2, IF u % 2 = 1 THEN AllSet(h) ELSE 0), h)

----------------------------------------------------------------------------
VARIABLES
    kind, half,   \* the type of the object
    cell,         \* its bits: underlying_type v, or the integer
    number,       \* the number the object was last given (history)
    wire          \* what was encoded: half and number of its writer (history), bits

vars == <<kind, half, cell, number, wire>>

Bits(k, n, h) == IF k = "zigzag" THEN from_sint(n, h) ELSE ToUnsigned(n, h)

\* sint_zigzag::get, or the integer itself
Get(k, u, h) == IF k = "zigzag" THEN to_sint(u, h) ELSE ToSigned(u, h)

Init ==
    /\ kind \in Kinds /\ half \in Halves
    /\ cell = 0 /\ number = 0
    /\ wire = [half |-> half, number |-> 0, bits |-> 0]

\* sint_zigzag(sint<N> in)
Construct(n) ==
    /\ cell' = Bits(kind, n, half) /\ number' = n
    /\ UNCHANGED <<kind, half, wire>>

\* "encoded 0 corresponds to 0, 1 to -1, 10 to 1, 11 to -2, 100 to 2, etc."
Zigzag(n) == IF n >= 0 THEN 2*n ELSE -2*n - 1

\* sint_zigzag::from_uint: the number is the one whose zigzag form is u.
from_uint(u) ==
    /\ kind = "zigzag"
    /\ cell' = u
    /\ number' = CHOOSE n \in SignedOf(half) : Zigzag(n) = u
    /\ UNCHANGED <<kind, half, wire>>

\* varint_coder::encode writes the bits as an unsigned number.
Encode ==
    /\ wire' = [half |-> half, number |-> number, bits |-> cell]
    /\ UNCHANGED <<kind, half, cell, number>>

\* Shifts of the type of half h are done in a type of 0 .. Promoted(h)-1.
Promoted(h) == IF 2*h < IntWord THEN IntWord ELSE 2*h

\* What the loop of varint_coder<uint>::decode may return for the number u.
\* Groups that T does not have are cut off, unless a group lies behind the
\* promoted type too: that shift is undefined (WireFormat!Accumulate), and any
\* word from what the low groups give up may come out.
Decoded(u, h) ==
    LET low == u % (2*h)
    IN  IF \E k \in 1 .. Groups - 1 : Weight[k] \in Promoted(h) .. u
        THEN low .. 2*h - 1
        ELSE {low}

\* What a reader with a type of half h gets is the number sent if its type has
\* that number.  A plain negative number is sent with the top bit of its
\* writer's type: it is neither extended to a wider type, nor read by a type
\* whose shifts are narrower than the writer's type.
Kept(h) ==
    /\ wire.number \in SignedOf(h)
    /\ kind = "plain" /\ wire.number < 0 =>
           h <= wire.half /\ 2 * wire.half <= Promoted(h)

\* Slip: bits the reader's type does not have stay.
DecodeUncut(h) ==
    /\ half' = h
    /\ cell' = wire.bits
    /\ number' = IF Kept(h) THEN wire.number ELSE Get(kind, cell', h)
    /\ UNCHANGED <<kind, wire>>

\* varint_coder<T>::decode, for a T of half h
Decode(h) ==
    /\ half' = h
    /\ cell' \in Decoded(wire.bits, h)
    /\ number' = IF Kept(h) THEN wire.number ELSE Get(kind, cell', h)
    /\ UNCHANGED <<kind, wire>>

Next ==
    \/ \E n \in SignedOf(half) : Construct(n)
    \/ \E u \in UnsignedOf(half) : from_uint(u)
    \/ Encode
    \/ \E h \in Halves : Decode(h)

Spec == Init /\ [][Next]_vars

----------------------------------------------------------------------------
(* Properties.                                                             *)

TypeOK ==
    /\ kind \in Kinds /\ half \in Halves
    /\ cell \in UnsignedOf(half) /\ number \in SignedOf(half)
    /\ wire.half \in Halves /\ wire.number \in SignedOf(wire.half)
    /\ wire.bits \in UnsignedOf(wire.half)

\* A zigzag object holds the form the documentation gives its number, also
\* for the least number of its type: numbers near zero, of either sign, have
\* short varints (zigzag.h:27-28, 43-45).
HoldsZigzagForm == kind = "zigzag" => cell = Zigzag(number)

\* An object that was given a number, by a constructor or by decoding what an
\* object of any width encoded, is that number, as far as Kept(h) promises it:
\* not where the decoder's shifts are undefined (varint.h:78, 85, 90-107,
\* zigzag.h:47-74, 145-163).
NumberKept == Get(kind, cell, half) = number
=============================================================================
