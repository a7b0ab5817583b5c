------------------------ MODULE SignedNumbersProofs ------------------------
(***************************************************************************)
(* Proofs about SignedNumbers, for integer types of every width.           *)
(***************************************************************************)
EXTENDS SignedNumbers, TLAPS

USE HalvesAssumption, GroupsAssumption

-----------------------------------------------------------------------------
(* Arithmetic.                                                             *)

\* The remainder of a number of known quotient.
LEMMA Remainder ==
    ASSUME NEW m \in Nat \ {0}, NEW q \in Int, NEW r \in 0 .. m-1
    PROVE  (q * m + r) % m = r
OBVIOUS

\* Shifted left in its width, a number keeps all but its top bit.
LEMMA ShiftLeft ==
    ASSUME NEW h \in Nat \ {0}, NEW n \in SignedOf(h)
    PROVE  (2*n) % (2*h) = IF n >= 0 THEN 2*n ELSE 2*n + 2*h
<1> USE DEF SignedOf
<1>1. CASE n >= 0
  <2>1. 2*n \in 0 .. 2*h - 1 /\ 2*h \in Nat \ {0} /\ 2*n = 0 * (2*h) + 2*n BY <1>1
  <2>2. QED BY <1>1, <2>1, Remainder
<1>2. CASE n < 0
  <2> DEFINE r == 2*n + 2*h
  <2>1. r \in 0 .. 2*h - 1 /\ 2*h \in Nat \ {0} /\ 2*n = (-1) * (2*h) + r BY <1>2
  <2> HIDE DEF r
  <2>2. (2*n) % (2*h) = r BY <2>1, Remainder
  <2>3. QED BY <1>2, <2>2 DEF r
<1> QED BY <1>1, <1>2

\* from_sint gives every number its zigzag form, the least of the type too.
LEMMA FromSint ==
    ASSUME NEW h \in Nat \ {0}, NEW n \in SignedOf(h)
    PROVE  from_sint(n, h) = Zigzag(n) /\ Zigzag(n) \in UnsignedOf(h)
BY ShiftLeft DEF from_sint, XorMask, AllSet, Zigzag, SignedOf, UnsignedOf

\* to_sint inverts it ...
LEMMA ToSint ==
    ASSUME NEW h \in Nat \ {0}, NEW n \in SignedOf(h)
    PROVE  to_sint(Zigzag(n), h) = n
<1>1. CASE n >= 0
  <2>1. (2*n) \div 2 = n /\ (2*n) % 2 = 0 BY <1>1 DEF SignedOf
  <2> QED BY <1>1, <2>1 DEF to_sint, XorMask, ToSigned, Zigzag, SignedOf
<1>2. CASE n < 0
  <2>1. (-2*n - 1) \div 2 = -n - 1 /\ (-2*n - 1) % 2 = 1 BY <1>2 DEF SignedOf
  <2> QED BY <1>2, <2>1 DEF to_sint, XorMask, ToSigned, Zigzag, SignedOf, AllSet
<1> QED BY <1>1, <1>2 DEF SignedOf

\* ... and every word of the unsigned type is the form of the number it gives.
LEMMA ToSintOnto ==
    ASSUME NEW h \in Nat \ {0}, NEW u \in UnsignedOf(h)
    PROVE  to_sint(u, h) \in SignedOf(h) /\ Zigzag(to_sint(u, h)) = u
<1> DEFINE q == u \div 2
           r == u % 2
<1>1. q \in Nat /\ r \in {0, 1} /\ u = 2*q + r BY DEF UnsignedOf
<1>2. q < h BY <1>1 DEF UnsignedOf
<1> HIDE DEF q, r
<1>3. to_sint(u, h) = ToSigned(XorMask(q, IF r = 1 THEN AllSet(h) ELSE 0), h)
  BY DEF to_sint, q, r
<1>4. CASE r = 0
  <2>1. to_sint(u, h) = q BY <1>1, <1>2, <1>3, <1>4 DEF ToSigned, XorMask
  <2> QED BY <1>1, <1>2, <1>4, <2>1 DEF Zigzag, SignedOf
<1>5. CASE r = 1
  <2>1. to_sint(u, h) = -q - 1 BY <1>1, <1>2, <1>3, <1>5 DEF ToSigned, XorMask, AllSet
  <2> QED BY <1>1, <1>2, <1>5, <2>1 DEF Zigzag, SignedOf
<1> QED BY <1>1, <1>4, <1>5

\* The casts between the two types of one width invert each other.
LEMMA Casts ==
    ASSUME NEW h \in Nat \ {0}
    PROVE  /\ \A n \in SignedOf(h) :
                ToUnsigned(n, h) \in UnsignedOf(h) /\ ToSigned(ToUnsigned(n, h), h) = n
           /\ \A u \in UnsignedOf(h) :
                ToSigned(u, h) \in SignedOf(h) /\ ToUnsigned(ToSigned(u, h), h) = u
BY DEF ToUnsigned, ToSigned, SignedOf, UnsignedOf

\* Cut to a narrower type, the two's complement of a number that the type has
\* is that of the same number.
LEMMA CutPlain ==
    ASSUME NEW f \in Halves, NEW h \in Halves, h <= f, NEW n \in SignedOf(h)
    PROVE  ToUnsigned(n, f) % (2*h) = ToUnsigned(n, h)
<1>1. f \in Nat \ {0} /\ h \in Nat \ {0} OBVIOUS
<1>2. PICK k \in 1..f : f = k * h OBVIOUS
<1>3. 2*f = k * (2*h) BY <1>1, <1>2
<1> DEFINE u == ToUnsigned(n, h)
<1>4. u \in 0 .. 2*h - 1 /\ 2*h \in Nat \ {0} /\ u = IF n >= 0 THEN n ELSE n + 2*h
  BY <1>1 DEF ToUnsigned, SignedOf
<1>5. n \in Int BY <1>1 DEF SignedOf
<1> HIDE DEF u
<1> DEFINE m == 2*h
<1>6. m \in Nat \ {0} /\ u \in 0 .. m-1 BY <1>4
<1> HIDE DEF m
<1>7. ASSUME NEW q \in Int, ToUnsigned(n, f) = q * m + u
      PROVE  ToUnsigned(n, f) % m = u
  BY <1>6, <1>7, Remainder
<1>8. ASSUME n >= 0 PROVE ToUnsigned(n, f) % m = u
  <2>1. ToUnsigned(n, f) = 0 * m + u BY <1>4, <1>5, <1>6, <1>8 DEF ToUnsigned
  <2> QED BY <1>7, <2>1
<1>9. ASSUME n < 0 PROVE ToUnsigned(n, f) % m = u
  <2>1. ToUnsigned(n, f) = n + k * m BY <1>3, <1>5, <1>9 DEF ToUnsigned, m
  <2>2. (k - 1) * m = k * m - m BY <1>2, <1>6
  <2>3. n + k * m = (k * m - m) + u
    <3> DEFINE p == k * m
    <3>1. p \in Int BY <1>2, <1>6
    <3> HIDE DEF p
    <3> QED BY <1>4, <1>5, <1>9, <3>1 DEF m
  <2> QED BY <1>2, <1>7, <2>1, <2>2, <2>3
<1>10. ToUnsigned(n, f) % m = u BY <1>5, <1>7, <1>8, <1>9
<1> QED BY <1>10 DEF u, m

-----------------------------------------------------------------------------
(* The invariant: an object and the wire hold the form of their number.    *)

Form(n, h) == IF kind = "zigzag" THEN Zigzag(n) ELSE ToUnsigned(n, h)

IInv ==
    /\ TypeOK
    /\ wire = [half |-> wire.half, number |-> wire.number, bits |-> wire.bits]
    /\ cell = Form(number, half)
    /\ wire.bits = Form(wire.number, wire.half)

\* What encodes a number has its form, and is read back as the number.
LEMMA FormOfNumber ==
    ASSUME kind \in Kinds, NEW h \in Halves, NEW n \in SignedOf(h)
    PROVE  /\ Bits(kind, n, h) = Form(n, h) /\ Form(n, h) \in UnsignedOf(h)
           /\ Get(kind, Form(n, h), h) = n
BY FromSint, ToSint, Casts DEF Bits, Form, Get

\* Every word is the form of the number read from it.
LEMMA NumberOfForm ==
    ASSUME kind \in Kinds, NEW h \in Halves, NEW u \in UnsignedOf(h)
    PROVE  Get(kind, u, h) \in SignedOf(h) /\ Form(Get(kind, u, h), h) = u
BY ToSintOnto, Casts DEF Get, Form

\* Cut to the reader's width, the form of a number the reader has is its form.
LEMMA CutForm ==
    ASSUME kind \in Kinds, NEW f \in Halves, NEW h \in Halves, NEW n \in SignedOf(h),
           kind = "plain" /\ n < 0 => h <= f, n \in SignedOf(f)
    PROVE  Form(n, f) % (2*h) = Form(n, h)
<1>1. CASE kind = "plain" /\ h <= f BY <1>1, CutPlain DEF Form
<1>3. CASE kind = "plain" /\ n >= 0
  <2> DEFINE m == 2*h
  <2>1. m \in Nat \ {0} /\ n \in 0 .. m-1 /\ n = 0 * m + n BY <1>3 DEF SignedOf
  <2>2. Form(n, f) = n /\ Form(n, h) = n BY <1>3 DEF Form, ToUnsigned
  <2> HIDE DEF m
  <2>3. n % m = n BY <2>1, Remainder
  <2> QED BY <2>2, <2>3 DEF m
<1>2. CASE kind = "zigzag"
  <2> DEFINE m == 2*h
             z == Zigzag(n)
  <2>1. m \in Nat \ {0} /\ z \in 0 .. m-1 BY FromSint DEF UnsignedOf
  <2>2. z = 0 * m + z BY <2>1
  <2> HIDE DEF m, z
  <2>3. z % m = z BY <2>1, <2>2, Remainder
  <2> QED BY <1>2, <2>3 DEF Form, m, z
<1>4. n \in Int BY DEF SignedOf
<1> QED BY <1>1, <1>2, <1>3, <1>4

\* A remainder is a word of the type it is cut to.
LEMMA CutType ==
    ASSUME NEW u \in Nat, NEW h \in Nat \ {0}
    PROVE  u % (2*h) \in UnsignedOf(h)
<1> DEFINE m == 2*h
<1>1. m \in Nat \ {0} OBVIOUS
<1> HIDE DEF m
<1>2. u % m \in 0 .. m-1 BY <1>1
<1> QED BY <1>2 DEF m, UnsignedOf

\* The decoder returns a word of its type; and where it shifts every group in
\* a type that has it, the number cut to the reader's width and nothing else.
LEMMA DecodedIs ==
    ASSUME NEW u \in Nat, NEW h \in Halves
    PROVE  /\ Decoded(u, h) \subseteq UnsignedOf(h)
           /\ u < Promoted(h) => Decoded(u, h) = {u % (2*h)}
<1>1. u % (2*h) \in UnsignedOf(h) BY CutType
<1>2. Promoted(h) \in Nat BY DEF Promoted
<1>3. u < Promoted(h) => \A w : w \notin Promoted(h) .. u BY <1>2
<1>4. u < Promoted(h) => Decoded(u, h) = {u % (2*h)} BY <1>3 DEF Decoded
<1> DEFINE m == 2*h
           low == u % m
<1>5. m \in Nat \ {0} /\ low \in 0 .. m-1 BY <1>1 DEF UnsignedOf
<1>6. Decoded(u, h) = low .. m-1 \/ Decoded(u, h) = {low} BY DEF Decoded
<1> HIDE DEF m, low
<1>7. low .. m-1 \subseteq 0 .. m-1 /\ {low} \subseteq 0 .. m-1 BY <1>5
<1>8. UnsignedOf(h) = 0 .. m-1 BY DEF UnsignedOf, m
<1> QED BY <1>4, <1>6, <1>7, <1>8

\* A number that its reader keeps has no group behind the promoted type.
LEMMA KeptIsShort ==
    ASSUME kind \in Kinds, NEW f \in Halves, NEW h \in Halves,
           NEW n \in SignedOf(h), n \in SignedOf(f),
           kind = "plain" /\ n < 0 => 2*f <= Promoted(h)
    PROVE  Form(n, f) \in Nat /\ Form(n, f) < Promoted(h)
<1>1. 2*h <= Promoted(h) /\ Promoted(h) \in Nat BY DEF Promoted
<1>2. Form(n, f) \in 0 .. 2*f - 1 BY FormOfNumber DEF UnsignedOf
<1>3. CASE kind = "plain" /\ n < 0 BY <1>1, <1>2, <1>3
<1>4. CASE kind = "plain" /\ n >= 0
  BY <1>1, <1>4 DEF Form, ToUnsigned, SignedOf
<1>5. CASE kind = "zigzag"
  <2>1. Form(n, f) = Form(n, h) BY <1>5 DEF Form
  <2>2. Form(n, h) \in 0 .. 2*h - 1 BY FormOfNumber DEF UnsignedOf
  <2> QED BY <1>1, <2>1, <2>2
<1> QED BY <1>3, <1>4, <1>5 DEF SignedOf

\* A new object holds the form of zero.
LEMMA Initially == Init => IInv
<1> SUFFICES ASSUME Init PROVE IInv OBVIOUS
<1>1. half \in Nat \ {0} BY DEF Init
<1> QED BY <1>1 DEF Init, IInv, TypeOK, Form, Zigzag, ToUnsigned,
                 SignedOf, UnsignedOf

\* Every call leaves an object, and what was sent, in the form of its number.
LEMMA Preserved == IInv /\ [Next]_vars => IInv'
<1> SUFFICES ASSUME IInv, [Next]_vars PROVE IInv' OBVIOUS
<1> USE DEF IInv, TypeOK
<1>1. ASSUME NEW n \in SignedOf(half), Construct(n) PROVE IInv'
  <2>1. cell' = Form(n, half) /\ cell' \in UnsignedOf(half) BY <1>1, FormOfNumber DEF Construct
  <2> QED BY <1>1, <2>1 DEF Construct, Form
<1>2. ASSUME NEW u \in UnsignedOf(half), from_uint(u) PROVE IInv'
  <2>1. \E n \in SignedOf(half) : Zigzag(n) = u BY <1>2, ToSintOnto DEF from_uint
  <2>2. number' \in SignedOf(half) /\ Zigzag(number') = u BY <1>2, <2>1 DEF from_uint
  <2> QED BY <1>2, <2>2 DEF from_uint, Form
<1>3. ASSUME Encode PROVE IInv'
  BY <1>3 DEF Encode, Form
<1>4. ASSUME NEW h \in Halves, Decode(h) PROVE IInv'
  <2>1. cell' \in UnsignedOf(h) BY <1>4, DecodedIs DEF Decode, UnsignedOf
  <2>2. number' \in SignedOf(h) BY <1>4, <2>1, NumberOfForm DEF Decode, Kept
  <2>3. TypeOK' /\ wire' = wire /\ kind' = kind /\ half' = h BY <1>4, <2>1, <2>2 DEF Decode
  <2>4. cell' = Form(number', h)
    <3>1. CASE Kept(h)
      <4>1. Form(wire.number, wire.half) % (2*h) = Form(wire.number, h)
        BY <3>1, CutForm DEF Kept
      <4>2. Decoded(wire.bits, h) = {wire.bits % (2*h)}
        BY <3>1, KeptIsShort, DecodedIs DEF Kept
      <4> QED BY <1>4, <3>1, <4>1, <4>2 DEF Decode
    <3>2. CASE ~Kept(h) BY <1>4, <2>1, <3>2, NumberOfForm DEF Decode
    <3> QED BY <3>1, <3>2
  <2> QED BY <2>3, <2>4 DEF Form
<1>5. ASSUME UNCHANGED vars PROVE IInv'
  BY <1>5 DEF vars, Form
<1> QED BY <1>1, <1>2, <1>3, <1>4, <1>5 DEF Next

\* Every object and everything encoded holds a form of its number.
THEOREM Inductive == Spec => []IInv
BY Initially, Preserved, PTL DEF Spec

\* Every word and every number is of its type.
THEOREM TypeCorrect == Spec => []TypeOK
<1>1. IInv => TypeOK BY DEF IInv
<1> QED BY <1>1, Inductive, PTL

\* A zigzag object holds the documented form of its number.
THEOREM ZigzagFormIsHeld == Spec => []HoldsZigzagForm
<1>1. IInv => HoldsZigzagForm BY DEF IInv, HoldsZigzagForm, Form
<1> QED BY <1>1, Inductive, PTL

\* An object is the number it was given, or was sent by a writer of any width
\* as long as Kept promises it: where the decoder's shifts are defined and the
\* reader's type has the number, and is no wider for a plain negative one.
THEOREM NumbersAreKept == Spec => []NumberKept
<1>1. IInv => NumberKept
  BY FormOfNumber DEF IInv, TypeOK, NumberKept
<1> QED BY <1>1, Inductive, PTL
=============================================================================
