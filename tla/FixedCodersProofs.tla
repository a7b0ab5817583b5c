------------------------- MODULE FixedCodersProofs -------------------------
(***************************************************************************)
(* Proofs about FixedCoders, for every size of a byte and of an int and    *)
(* every length of memory. The recursion of int.h over the halves of the   *)
(* bytes is compared with what std::bit_cast does: first the bytes it      *)
(* gives, then the words it makes of bytes, each by what a size does with  *)
(* its halves.                                                             *)
(***************************************************************************)
EXTENDS FixedCoders, TLAPS

USE FixedAssumption

-----------------------------------------------------------------------------
(* Quotients and remainders.                                               *)

\* A number is its quotient and its remainder, and no other two.
LEMMA Quotient ==
    ASSUME NEW m \in Nat \ {0}, NEW q \in Nat, NEW r \in 0 .. m-1
    PROVE  /\ q * m + r \in Nat
           /\ (q * m + r) \div m = q
           /\ (q * m + r) % m = r
<1> HIDE FixedAssumption
<1> QED OBVIOUS

\* The quotient and the remainder of a number, and what bounds the quotient.
LEMMA QuotientOf ==
    ASSUME NEW m \in Nat \ {0}, NEW x \in Nat
    PROVE  /\ x \div m \in Nat /\ x % m \in 0 .. m-1 /\ x = (x \div m) * m + (x % m)
           /\ \A k \in Nat : x < k * m => x \div m < k
<1> HIDE FixedAssumption
<1> DEFINE q == x \div m
           r == x % m
<1>1. q \in Nat /\ r \in 0 .. m-1 /\ x = q * m + r OBVIOUS
<1> HIDE DEF q, r
<1>2. ASSUME NEW k \in Nat, x < k * m PROVE q < k
  <2>1. SUFFICES ASSUME q >= k PROVE FALSE BY <1>1
  <2>2. PICK d \in Nat : q = k + d BY <1>1, <2>1
  <2>3. q * m = k * m + d * m BY <2>2
  <2>4. d * m \in Nat /\ k * m \in Nat OBVIOUS
  <2> QED BY <1>1, <1>2, <2>3, <2>4
<1> QED BY <1>1, <1>2 DEF q, r

\* Dividing by a product is dividing by one factor and then by the other.
LEMMA DivDiv ==
    ASSUME NEW a \in Nat \ {0}, NEW b \in Nat \ {0}, NEW x \in Nat
    PROVE  /\ x \div (a * b) = (x \div a) \div b
           /\ (x % (a * b)) \div a = (x \div a) % b
           /\ (x % (a * b)) % a = x % a
<1> HIDE FixedAssumption
<1> DEFINE m == a * b
           y == x \div a
           r == x % a
           q == y \div b
           s == y % b
           z == s * a + r
<1>1. m \in Nat \ {0} OBVIOUS
<1>2. y \in Nat /\ r \in 0 .. a-1 /\ x = y * a + r BY QuotientOf
<1>3. q \in Nat /\ s \in 0 .. b-1 /\ y = q * b + s BY <1>2, QuotientOf
<1> HIDE DEF y, r, q, s
<1>4. x = q * m + z
  <2>1. y * a = q * m + s * a BY <1>3
  <2>2. q * m \in Nat /\ s * a \in Nat BY <1>1, <1>3
  <2> QED BY <1>2, <2>1, <2>2
<1>5. z \in 0 .. m-1
  <2>1. s \in Nat /\ b - 1 - s \in Nat BY <1>3
  <2>2. (b - 1 - s) * a \in Nat /\ s * a \in Nat BY <2>1
  <2>3. (b - 1 - s) * a = m - a - s * a BY <2>1
  <2> QED BY <1>1, <1>2, <2>2, <2>3
<1>6. s \in Nat /\ z \div a = s /\ z % a = r BY <1>2, <1>3, Quotient
<1> HIDE DEF m, z
<1>7. x \div m = q /\ x % m = z BY <1>1, <1>3, <1>4, <1>5, Quotient
<1> QED BY <1>6, <1>7 DEF m, y, q, r, s

-----------------------------------------------------------------------------
(* What bytes are worth.                                                   *)

PowerStep(given, f, k) == IF k = 0 THEN 1 ELSE f[k - 1] * Base

Powers == INSTANCE Recursion WITH Step <- PowerStep

\* The weights of the bytes, one by one.
LEMMA WeightStep == Weight[0] = 1 /\ \A k \in Nat : Weight[k + 1] = Weight[k] * Base
<1> HIDE FixedAssumption
<1> DEFINE id == [k \in Nat |-> k]
<1>0. id \in [Nat -> Nat] /\ \A k \in Nat \ {0} : k - 1 \in Nat /\ id[k - 1] < id[k]
  <2>1. \A k \in Nat \ {0} : k - 1 \in Nat /\ k \in Nat /\ k - 1 < k BY SMT
  <2> QED BY <2>1
<1> HIDE DEF id
<1>1. Powers!Descends(0, Nat, id) BY <1>0 DEF Powers!Descends, PowerStep
<1>2. \E f : Powers!Solves(0, Nat, f) BY <1>0, <1>1, Powers!RecursiveFunction
<1>3. Weight = CHOOSE f : Powers!Solves(0, Nat, f) BY DEF Weight, Powers!Solves, PowerStep
<1>4. Powers!Solves(0, Nat, Weight) BY <1>2, <1>3
<1>5. \A m \in Nat : Weight[m] = IF m = 0 THEN 1 ELSE Weight[m - 1] * Base
  BY <1>4 DEF Powers!Solves, PowerStep
<1>6. \A k \in Nat : k + 1 \in Nat /\ k + 1 # 0 /\ (k + 1) - 1 = k BY SMT
<1> QED BY <1>5, <1>6

\* A weight is a positive number, and those of two runs of bytes multiply.
LEMMA WeightOf ==
    ASSUME NEW j \in Nat
    PROVE  /\ Weight[j] \in Nat \ {0}
           /\ \A k \in Nat : Weight[j + k] = Weight[j] * Weight[k]
<1>0. Base \in Nat \ {0} OBVIOUS
<1> HIDE FixedAssumption
<1>1. \A k \in Nat : Weight[k] \in Nat \ {0}
  <2> DEFINE P == {k \in Nat : Weight[k] \in Nat \ {0}}
  <2>1. 0 \in P BY WeightStep
  <2>2. ASSUME NEW k \in Nat, k \in P PROVE k + 1 \in P
    <3>1. Weight[k] \in Nat \ {0} /\ Weight[k + 1] = Weight[k] * Base BY <2>2, WeightStep
    <3>2. \A x, y \in Nat \ {0} : x * y \in Nat \ {0} OBVIOUS
    <3>3. Weight[k + 1] \in Nat \ {0} BY <1>0, <3>1, <3>2
    <3> QED BY <3>3
  <2> HIDE DEF P
  <2>3. \A k \in Nat : k \in P BY <2>1, <2>2, Powers!Induct
  <2> QED BY <2>3 DEF P
<1> DEFINE Q == {k \in Nat : Weight[j + k] = Weight[j] * Weight[k]}
<1>2. 0 \in Q
  <2>1. j + 0 = j /\ Weight[j] * 1 = Weight[j] BY <1>1
  <2> QED BY <2>1, WeightStep
<1>3. ASSUME NEW k \in Nat, k \in Q PROVE k + 1 \in Q
  <2>1. j + k \in Nat /\ j + (k + 1) = (j + k) + 1 OBVIOUS
  <2>2. Weight[j + (k + 1)] = (Weight[j] * Weight[k]) * Base BY <1>3, <2>1, WeightStep
  <2>3. \A x, y, z \in Nat : (x * y) * z = x * (y * z) OBVIOUS
  <2>4. Weight[j + (k + 1)] = Weight[j] * (Weight[k] * Base)
    BY <1>0, <1>1, <2>2, <2>3
  <2> QED BY <2>4, WeightStep
<1> HIDE DEF Q
<1>4. \A k \in Nat : k \in Q BY <1>2, <1>3, Powers!Induct
<1> QED BY <1>1, <1>4 DEF Q

\* The digits of a word of h bytes more are those of its two parts.
LEMMA Digits ==
    ASSUME NEW h \in Nat, NEW w \in Nat
    PROVE  /\ \A k \in 0 .. h-1 : (Lower(w, h) \div Weight[k]) % Base = (w \div Weight[k]) % Base
           /\ \A k \in Nat : (Upper(w, h) \div Weight[k]) % Base = (w \div Weight[h + k]) % Base
<1>0. Base \in Nat \ {0} OBVIOUS
<1> HIDE FixedAssumption
<1>1. ASSUME NEW k \in 0 .. h-1
      PROVE  (Lower(w, h) \div Weight[k]) % Base = (w \div Weight[k]) % Base
  <2>1. k \in Nat /\ h - 1 - k \in Nat /\ (h - 1 - k) + 1 = h - k /\ k + (h - k) = h /\ h - k \in Nat
    OBVIOUS
  <2>2. PICK x, c \in Nat \ {0} : x = Weight[k] /\ c = Weight[h - 1 - k]
    BY <2>1, WeightOf
  <2>3. Weight[h - k] = c * Base BY <2>1, <2>2, WeightStep
  <2>4. c * Base = Base * c /\ Base * c \in Nat \ {0} BY <1>0
  <2>5. Weight[h] = x * (Base * c)
    <3>1. Weight[k + (h - k)] = Weight[k] * Weight[h - k] BY <2>1, WeightOf
    <3> QED BY <2>1, <2>2, <2>3, <2>4, <3>1
  <2>6. (w % (x * (Base * c))) \div x = (w \div x) % (Base * c) BY <2>4, DivDiv
  <2>7. w \div x \in Nat BY QuotientOf
  <2>8. ((w \div x) % (Base * c)) % Base = (w \div x) % Base BY <1>0, <2>7, DivDiv
  <2> QED BY <2>2, <2>5, <2>6, <2>8 DEF Lower
<1>2. ASSUME NEW k \in Nat
      PROVE  (Upper(w, h) \div Weight[k]) % Base = (w \div Weight[h + k]) % Base
  <2>1. PICK x, y \in Nat \ {0} : x = Weight[h] /\ y = Weight[k] BY WeightOf
  <2>2. Weight[h + k] = x * y BY <2>1, WeightOf
  <2>3. w \div (x * y) = (w \div x) \div y BY DivDiv
  <2> QED BY <2>1, <2>2, <2>3 DEF Upper
<1> QED BY <1>1, <1>2

-----------------------------------------------------------------------------
(* The two conversions.                                                    *)

\* A word in two parts is their sum, and a sum of two parts is in them.
LEMMA Parts ==
    ASSUME NEW h \in Nat
    PROVE  /\ \A w \in Words(h + h) :
                 /\ Lower(w, h) \in Words(h) /\ Upper(w, h) \in Words(h)
                 /\ w = Lower(w, h) + Upper(w, h) * Weight[h]
           /\ \A low, high \in Words(h) :
                 /\ low + high * Weight[h] \in Words(h + h)
                 /\ Lower(low + high * Weight[h], h) = low
                 /\ Upper(low + high * Weight[h], h) = high
<1> HIDE FixedAssumption
<1>1. PICK m \in Nat \ {0} : m = Weight[h] BY WeightOf
<1>2. Weight[h + h] = m * m BY <1>1, WeightOf
<1>3. ASSUME NEW w \in 0 .. m*m - 1
      PROVE  w % m \in 0 .. m-1 /\ w \div m \in 0 .. m-1 /\ w = (w % m) + (w \div m) * m
  <2>1. m * m \in Nat OBVIOUS
  <2>2. w \in Nat /\ w < m * m BY <2>1
  <2>3. w \div m \in Nat /\ w % m \in 0 .. m-1 /\ w = (w \div m) * m + (w % m) /\ w \div m < m
    BY <2>2, QuotientOf
  <2> DEFINE q == w \div m
             r == w % m
  <2> HIDE DEF q, r
  <2>4. q \in Nat /\ r \in 0 .. m-1 /\ w = q * m + r /\ q < m BY <2>3 DEF q, r
  <2>5. q * m \in Nat BY <2>4
  <2>6. r \in 0 .. m-1 /\ q \in 0 .. m-1 /\ w = r + q * m BY <2>4, <2>5
  <2> QED BY <2>6 DEF q, r
<1>4. ASSUME NEW low \in 0 .. m-1, NEW high \in 0 .. m-1
      PROVE  /\ low + high * m \in 0 .. m*m - 1
             /\ (low + high * m) % m = low /\ (low + high * m) \div m = high
  <2>1. low + high * m = high * m + low /\ high * m \in Nat /\ m * m \in Nat OBVIOUS
  <2>2. (m - 1 - high) * m \in Nat /\ (m - 1 - high) * m = m * m - m - high * m
    <3>1. m - 1 - high \in Nat OBVIOUS
    <3> QED BY <3>1
  <2>3. high \in Nat OBVIOUS
  <2> QED BY <2>1, <2>2, <2>3, Quotient
<1> QED BY <1>1, <1>2, <1>3, <1>4 DEF Words, Lower, Upper

\* The representation of a word is bytes.
LEMMA RepresentationType ==
    ASSUME NEW n \in Nat, NEW w \in Nat
    PROVE  Representation(w, n) \in [1..n -> Byte]
<1>0. Base \in Nat \ {0} OBVIOUS
<1> HIDE FixedAssumption
<1>1. ASSUME NEW k \in 1..n PROVE (w \div Weight[k-1]) % Base \in Byte
  <2>1. k - 1 \in Nat OBVIOUS
  <2>2. PICK m \in Nat \ {0} : m = Weight[k-1] BY <2>1, WeightOf
  <2>3. w \div m \in Nat BY QuotientOf
  <2> QED BY <1>0, <2>2, <2>3, QuotientOf DEF Byte
<1> QED BY <1>1 DEF Representation

\* Bytes of twice the length are two halves.
LEMMA TwoHalves ==
    ASSUME NEW h \in Nat
    PROVE  /\ \A f, g \in [1..h -> Byte] :
                 /\ f \o g \in [1 .. h+h -> Byte]
                 /\ \A k \in 1 .. h+h : (f \o g)[k] = IF k <= h THEN f[k] ELSE g[k - h]
                 /\ FirstHalf(f \o g, h) = f /\ LastHalf(f \o g, h) = g
           /\ \A b \in [1 .. h+h -> Byte] :
                 /\ FirstHalf(b, h) \in [1..h -> Byte] /\ LastHalf(b, h) \in [1..h -> Byte]
                 /\ b = FirstHalf(b, h) \o LastHalf(b, h)
<1> HIDE FixedAssumption
<1>0. \A n \in Nat : \A f : f \in [1..n -> Byte] <=> f \in Seq(Byte) /\ Len(f) = n
  OBVIOUS
<1>1. ASSUME NEW f \in [1..h -> Byte], NEW g \in [1..h -> Byte]
      PROVE  /\ f \o g \in [1 .. h+h -> Byte]
             /\ \A k \in 1 .. h+h : (f \o g)[k] = IF k <= h THEN f[k] ELSE g[k - h]
  <2>1. f \in Seq(Byte) /\ g \in Seq(Byte) /\ Len(f) = h /\ Len(g) = h BY <1>0
  <2>2. f \o g \in Seq(Byte) /\ Len(f \o g) = h + h BY <2>1
  <2>3. \A k \in 1 .. h+h : (f \o g)[k] = IF k <= h THEN f[k] ELSE g[k - h] BY <2>1
  <2>4. h + h \in Nat OBVIOUS
  <2> QED BY <1>0, <2>2, <2>3, <2>4
<1>2. ASSUME NEW b \in [1 .. h+h -> Byte]
      PROVE  /\ FirstHalf(b, h) \in [1..h -> Byte] /\ LastHalf(b, h) \in [1..h -> Byte]
             /\ \A k \in 1..h : FirstHalf(b, h)[k] = b[k] /\ LastHalf(b, h)[k] = b[h + k]
  <2>1. h + h \in Nat /\ 2*h = h + h OBVIOUS
  <2>2. b \in Seq(Byte) /\ Len(b) = h + h BY <1>0, <2>1
  <2>3. FirstHalf(b, h) = [k \in 1..h |-> b[k]] BY <2>1, <2>2 DEF FirstHalf
  <2>4. LastHalf(b, h) = [k \in 1..h |-> b[h + k]]
    <3>1. LastHalf(b, h) \in Seq(Byte) /\ Len(LastHalf(b, h)) = h BY <2>1, <2>2 DEF LastHalf
    <3>2. \A k \in 1..h : LastHalf(b, h)[k] = b[h + k] BY <2>1, <2>2 DEF LastHalf
    <3>3. LastHalf(b, h) \in [1..h -> Byte] BY <1>0, <3>1
    <3> QED BY <3>2, <3>3
  <2>5. \A k \in 1..h : k \in 1 .. h+h /\ h + k \in 1 .. h+h OBVIOUS
  <2>6. \A k \in 1..h : b[k] \in Byte /\ b[h + k] \in Byte BY <2>5
  <2> QED BY <2>3, <2>4, <2>6
<1>3. ASSUME NEW f \in [1..h -> Byte], NEW g \in [1..h -> Byte]
      PROVE  FirstHalf(f \o g, h) = f /\ LastHalf(f \o g, h) = g
  <2> DEFINE b == f \o g
  <2>1. b \in [1 .. h+h -> Byte]
        /\ \A k \in 1 .. h+h : b[k] = IF k <= h THEN f[k] ELSE g[k - h] BY <1>1
  <2> HIDE DEF b
  <2>2. \A k \in 1..h : FirstHalf(b, h)[k] = b[k] /\ LastHalf(b, h)[k] = b[h + k] BY <1>2, <2>1
  <2>3. \A k \in 1..h : b[k] = f[k] /\ b[h + k] = g[k]
    <3>1. ASSUME NEW k \in 1..h PROVE b[k] = f[k] /\ b[h + k] = g[k]
      <4>1. /\ k \in 1 .. h+h /\ h + k \in 1 .. h+h /\ (h + k) - h = k
            /\ k <= h /\ ~(h + k <= h)
        OBVIOUS
      <4> QED BY <2>1, <4>1
    <3> QED BY <3>1
  <2>4. FirstHalf(b, h) \in [1..h -> Byte] /\ LastHalf(b, h) \in [1..h -> Byte] BY <1>2, <2>1
  <2>5. FirstHalf(b, h) = f /\ LastHalf(b, h) = g BY <2>2, <2>3, <2>4
  <2> QED BY <2>5 DEF b
<1>4. ASSUME NEW b \in [1 .. h+h -> Byte] PROVE b = FirstHalf(b, h) \o LastHalf(b, h)
  <2> DEFINE f == FirstHalf(b, h)
             g == LastHalf(b, h)
             c == f \o g
  <2>1. f \in [1..h -> Byte] /\ g \in [1..h -> Byte]
        /\ \A k \in 1..h : f[k] = b[k] /\ g[k] = b[h + k] BY <1>2
  <2> HIDE DEF f, g
  <2>2. c \in [1 .. h+h -> Byte]
        /\ \A k \in 1 .. h+h : c[k] = IF k <= h THEN f[k] ELSE g[k - h] BY <1>1, <2>1
  <2> HIDE DEF c
  <2>3. ASSUME NEW k \in 1 .. h+h PROVE c[k] = b[k]
    <3>1. CASE k <= h
      <4>1. k \in 1..h BY <3>1
      <4> QED BY <2>1, <2>2, <3>1, <4>1
    <3>2. CASE ~(k <= h)
      <4>1. k - h \in 1..h /\ h + (k - h) = k BY <3>2
      <4> QED BY <2>1, <2>2, <3>2, <4>1
    <3> QED BY <3>1, <3>2
  <2>4. b = c BY <2>2, <2>3
  <2> QED BY <2>4 DEF c, f, g
<1> QED BY <1>1, <1>2, <1>3, <1>4

\* The representation of a word is that of its lower part, then that of its
\* upper part.
LEMMA RepresentationParts ==
    ASSUME NEW h \in Nat, NEW w \in Words(h + h)
    PROVE  Representation(w, h + h) = Representation(Lower(w, h), h) \o Representation(Upper(w, h), h)
<1> DEFINE front == Representation(Lower(w, h), h)
           back == Representation(Upper(w, h), h)
<1>0. w \in Nat /\ Lower(w, h) \in Nat /\ Upper(w, h) \in Nat BY Parts DEF Words
<1>1. front \in [1..h -> Byte] /\ back \in [1..h -> Byte] BY <1>0, RepresentationType
<1>2. ASSUME NEW k \in 1 .. h + h
      PROVE  (w \div Weight[k-1]) % Base = IF k <= h THEN front[k] ELSE back[k - h]
  <2>1. CASE k <= h
    <3>1. k - 1 \in 0 .. h-1 /\ k \in 1..h BY <2>1
    <3> QED BY <1>0, <2>1, <3>1, Digits DEF Representation
  <2>2. CASE ~(k <= h)
    <3>1. k - h - 1 \in Nat /\ k - h \in 1..h /\ h + (k - h - 1) = k - 1 BY <2>2
    <3> QED BY <1>0, <2>2, <3>1, Digits DEF Representation
  <2> QED BY <2>1, <2>2
<1> HIDE DEF front, back
<1>3. front \o back \in [1 .. h+h -> Byte]
      /\ \A k \in 1 .. h+h : (front \o back)[k] = IF k <= h THEN front[k] ELSE back[k - h]
  BY <1>1, TwoHalves
<1>4. Representation(w, h + h) \in [1 .. h+h -> Byte]
      /\ \A k \in 1 .. h+h : Representation(w, h + h)[k] = (w \div Weight[k-1]) % Base
  BY <1>0, RepresentationType DEF Representation
<1>5. Representation(w, h + h) = front \o back
  <2> DEFINE r == Representation(w, h + h)
             c == front \o back
  <2>1. r \in [1 .. h+h -> Byte] /\ c \in [1 .. h+h -> Byte] /\ \A k \in 1 .. h+h : r[k] = c[k]
    BY <1>2, <1>3, <1>4
  <2> HIDE DEF r, c
  <2>2. r = c BY <2>1
  <2> QED BY <2>2 DEF r, c
<1> QED BY <1>5 DEF front, back

\* What int_to_bytes and bytes_to_int of a size do with those of half the size.
LEMMA BySize ==
    ASSUME NEW h \in {1, 2, 4}
    PROVE  /\ h \in Sizes /\ h + h \in Sizes /\ h + h = 2 * h
           /\ \A w : RecursiveBytes(w, h + h)
                        = RecursiveBytes(Lower(w, h), h) \o RecursiveBytes(Upper(w, h), h)
           /\ \A b : RecursiveWords(b, h + h)
                        = Join(RecursiveWords(FirstHalf(b, h), h), RecursiveWords(LastHalf(b, h), h), h)
<1> HIDE FixedAssumption
<1>0. /\ \A w : RecursiveBytes(w, 1) = Bytes1(w) /\ RecursiveBytes(w, 2) = Bytes2(w)
      /\ \A w : RecursiveBytes(w, 4) = Bytes4(w) /\ RecursiveBytes(w, 8) = Bytes8(w)
      /\ \A b : RecursiveWords(b, 1) = Words1(b) /\ RecursiveWords(b, 2) = Words2(b)
      /\ \A b : RecursiveWords(b, 4) = Words4(b) /\ RecursiveWords(b, 8) = Words8(b)
  BY SMT DEF RecursiveBytes, RecursiveWords
<1>1. CASE h = 1
  <2>1. h + h = 2 /\ h + h = 2 * h BY <1>1
  <2> QED BY <1>0, <1>1, <2>1, Zenon DEF Sizes, Bytes2, Words2
<1>2. CASE h = 2
  <2>1. h + h = 4 /\ h + h = 2 * h BY <1>2
  <2> QED BY <1>0, <1>2, <2>1, Zenon DEF Sizes, Bytes4, Words4
<1>3. CASE h = 4
  <2>1. h + h = 8 /\ h + h = 2 * h BY <1>3
  <2> QED BY <1>0, <1>3, <2>1, Zenon DEF Sizes, Bytes8, Words8
<1> QED BY <1>1, <1>2, <1>3

\* What holds of one byte, and of twice the bytes of which it holds, holds of
\* every size.
LEMMA EverySize ==
    ASSUME NEW P, 1 \in P, \A h \in {1, 2, 4} : h \in P => h + h \in P
    PROVE  \A n \in Sizes : n \in P
<1> HIDE FixedAssumption
<1>1. 2 \in P
  <2>1. 1 + 1 = 2 OBVIOUS
  <2> QED BY <2>1
<1>2. 4 \in P
  <2>1. 2 + 2 = 4 OBVIOUS
  <2> QED BY <1>1, <2>1
<1>3. 8 \in P
  <2>1. 4 + 4 = 8 OBVIOUS
  <2> QED BY <1>2, <2>1
<1> QED BY <1>1, <1>2, <1>3 DEF Sizes

\* One byte represents itself.
LEMMA OneByte ==
    /\ Words(1) = Byte
    /\ \A w \in Words(1) : Representation(w, 1) = <<w>> /\ w % Base = w
<1>0. Base \in Nat \ {0} OBVIOUS
<1> HIDE FixedAssumption
<1>1. Weight[0] = 1 /\ Weight[1] = Base
  <2>1. Weight[0 + 1] = Weight[0] * Base /\ Weight[0] = 1 BY WeightStep
  <2>2. 0 + 1 = 1 /\ 1 * Base = Base BY <1>0
  <2> QED BY <2>1, <2>2
<1>2. Words(1) = Byte BY <1>1 DEF Words, Byte
<1>3. ASSUME NEW w \in Byte PROVE w % Base = w /\ Representation(w, 1) = <<w>>
  <2>1. w \in 0 .. Base - 1 /\ w \in Nat /\ 0 * Base + w = w BY <1>0 DEF Byte
  <2>2. w % Base = w BY <1>0, <2>1, Quotient
  <2>3. w \div 1 = w BY <2>1
  <2>4. Representation(w, 1) = [k \in 1..1 |-> w]
    <3>1. ASSUME NEW k \in 1..1 PROVE (w \div Weight[k-1]) % Base = w
      <4>1. k - 1 = 0 OBVIOUS
      <4> QED BY <1>1, <2>2, <2>3, <4>1
    <3> QED BY <3>1 DEF Representation
  <2>5. [k \in 1..1 |-> w] = <<w>> OBVIOUS
  <2> QED BY <2>2, <2>4, <2>5
<1> QED BY <1>2, <1>3

\* int_to_bytes gives the representation, whichever conversion it is.
LEMMA BytesAre ==
    ASSUME NEW n \in Sizes
    PROVE  \A w \in Words(n) : RecursiveBytes(w, n) = Representation(w, n)
<1> DEFINE P == {m \in Sizes : \A w \in Words(m) : RecursiveBytes(w, m) = Representation(w, m)}
<1>1. 1 \in P BY OneByte DEF Sizes, RecursiveBytes, Bytes1
<1>2. ASSUME NEW h \in {1, 2, 4}, h \in P PROVE h + h \in P
  <2>1. ASSUME NEW w \in Words(h + h) PROVE RecursiveBytes(w, h + h) = Representation(w, h + h)
    <3>1. h \in Nat OBVIOUS
    <3>2. Lower(w, h) \in Words(h) /\ Upper(w, h) \in Words(h) BY <3>1, Parts
    <3>3. Representation(w, h + h) = Representation(Lower(w, h), h) \o Representation(Upper(w, h), h)
      BY <3>1, RepresentationParts
    <3>4. RecursiveBytes(w, h + h) = RecursiveBytes(Lower(w, h), h) \o RecursiveBytes(Upper(w, h), h)
      BY BySize
    <3> QED BY <1>2, <3>2, <3>3, <3>4
  <2> QED BY <2>1, BySize
<1> HIDE DEF P
<1>3. \A m \in Sizes : m \in P BY <1>1, <1>2, EverySize
<1> QED BY <1>3 DEF P

\* Any bytes are the representation of one word.
LEMMA RepresentationOnto ==
    ASSUME NEW n \in Sizes
    PROVE  /\ \A b \in [1..n -> Byte] : \E w \in Words(n) : Representation(w, n) = b
           /\ \A v, w \in Words(n) : Representation(v, n) = Representation(w, n) => v = w
<1> DEFINE P == {m \in Sizes :
                   /\ \A b \in [1..m -> Byte] : \E w \in Words(m) : Representation(w, m) = b
                   /\ \A v, w \in Words(m) : Representation(v, m) = Representation(w, m) => v = w}
<1>1. 1 \in P
  <2>1. ASSUME NEW b \in [1..1 -> Byte] PROVE \E w \in Words(1) : Representation(w, 1) = b
    <3>1. b[1] \in Byte /\ b = <<b[1]>> OBVIOUS
    <3> QED BY <3>1, OneByte
  <2>2. ASSUME NEW v \in Words(1), NEW w \in Words(1), Representation(v, 1) = Representation(w, 1)
        PROVE  v = w
    <3>1. <<v>> = <<w>> BY <2>2, OneByte
    <3> QED BY <3>1
  <2> QED BY <2>1, <2>2 DEF Sizes
<1>2. ASSUME NEW h \in {1, 2, 4}, h \in P PROVE h + h \in P
  <2>0. h \in Nat /\ h + h \in Sizes
    <3>1. h \in Nat OBVIOUS
    <3> QED BY <3>1, BySize
  <2>1. ASSUME NEW b \in [1 .. h+h -> Byte] PROVE \E w \in Words(h+h) : Representation(w, h+h) = b
    <3>1. /\ FirstHalf(b, h) \in [1..h -> Byte] /\ LastHalf(b, h) \in [1..h -> Byte]
          /\ b = FirstHalf(b, h) \o LastHalf(b, h)
      BY <2>0, TwoHalves
    <3>2. PICK low \in Words(h) : Representation(low, h) = FirstHalf(b, h) BY <1>2, <3>1
    <3>3. PICK high \in Words(h) : Representation(high, h) = LastHalf(b, h) BY <1>2, <3>1
    <3> DEFINE w == low + high * Weight[h]
    <3>4. w \in Words(h+h) /\ Lower(w, h) = low /\ Upper(w, h) = high BY <2>0, Parts
    <3> HIDE DEF w
    <3>5. Representation(w, h+h) = b BY <2>0, <3>1, <3>2, <3>3, <3>4, RepresentationParts
    <3> QED BY <3>4, <3>5
  <2>2. ASSUME NEW v \in Words(h+h), NEW w \in Words(h+h),
               Representation(v, h+h) = Representation(w, h+h)
        PROVE  v = w
    <3>1. /\ Lower(v, h) \in Words(h) /\ Upper(v, h) \in Words(h)
          /\ Lower(w, h) \in Words(h) /\ Upper(w, h) \in Words(h)
          /\ v = Lower(v, h) + Upper(v, h) * Weight[h]
          /\ w = Lower(w, h) + Upper(w, h) * Weight[h]
      BY <2>0, Parts
    <3> DEFINE f(x) == Representation(Lower(x, h), h)
               g(x) == Representation(Upper(x, h), h)
    <3>2. /\ Representation(v, h+h) = f(v) \o g(v) /\ Representation(w, h+h) = f(w) \o g(w)
      BY <2>0, RepresentationParts
    <3>7. Lower(v, h) \in Nat /\ Upper(v, h) \in Nat /\ Lower(w, h) \in Nat /\ Upper(w, h) \in Nat
      BY <3>1 DEF Words
    <3>3. /\ f(v) \in [1..h -> Byte] /\ g(v) \in [1..h -> Byte]
          /\ f(w) \in [1..h -> Byte] /\ g(w) \in [1..h -> Byte]
      BY <2>0, <3>7, RepresentationType
    <3>4. f(v) = f(w) /\ g(v) = g(w)
      <4>1. /\ FirstHalf(f(v) \o g(v), h) = f(v) /\ LastHalf(f(v) \o g(v), h) = g(v)
            /\ FirstHalf(f(w) \o g(w), h) = f(w) /\ LastHalf(f(w) \o g(w), h) = g(w)
        BY <2>0, <3>3, TwoHalves
      <4> QED BY <2>2, <3>2, <4>1
    <3>5. Lower(v, h) = Lower(w, h) /\ Upper(v, h) = Upper(w, h) BY <1>2, <3>1, <3>4
    <3> QED BY <3>1, <3>5
  <2> QED BY <2>0, <2>1, <2>2
<1> HIDE DEF P
<1>3. \A m \in Sizes : m \in P BY <1>1, <1>2, EverySize
<1> QED BY <1>3 DEF P

\* Two halves make words of both, and only their sum if the upper one can be
\* shifted that far.
LEMMA JoinedType ==
    ASSUME NEW h \in {1, 2, 4}, NEW low \in Words(h), NEW high \in Words(h)
    PROVE  /\ Joined(low, high, h) \subseteq Words(h + h)
           /\ h < IntBytes => Joined(low, high, h) = {low + high * Weight[h]}
<1>0. IntBytes \in Sizes /\ h \in Nat /\ h + h \in Nat OBVIOUS
<1> HIDE FixedAssumption
<1>1. low + high * Weight[h] \in Words(h + h) BY <1>0, Parts
<1>2. PICK m \in Nat \ {0} : m = Weight[h] BY <1>0, WeightOf
<1>3. low \in Nat /\ high * m \in Nat
  <2>1. low \in 0 .. m-1 /\ high \in 0 .. m-1 BY <1>2 DEF Words
  <2> QED BY <2>1
<1>4. ASSUME h < IntBytes PROVE Joined(low, high, h) = {low + high * Weight[h]}
  <2>1. Wider(h, IntBytes) = IntBytes /\ IntBytes \in Nat BY <1>0, <1>4 DEF Wider, Sizes
  <2>2. PICK d \in Nat : IntBytes = (h + h) + d
    <3>1. IntBytes - (h + h) \in Nat BY <1>0, <1>4 DEF Sizes
    <3>2. IntBytes = (h + h) + (IntBytes - (h + h)) BY <1>0, <2>1
    <3> QED BY <3>1, <3>2
  <2>3. PICK x, y \in Nat \ {0} : x = Weight[h + h] /\ y = Weight[d] BY <1>0, WeightOf
  <2>4. Weight[IntBytes] = x * y BY <1>0, <2>2, <2>3, WeightOf
  <2> DEFINE z == high * m
  <2>5. z \in Nat /\ z < x
    <3>1. low + high * m \in 0 .. x - 1 BY <1>1, <1>2, <2>3 DEF Words
    <3> QED BY <1>3, <3>1
  <2> HIDE DEF z
  <2>6. z < x * y /\ x * y \in Nat \ {0}
    <3>1. y - 1 \in Nat OBVIOUS
    <3>2. x * (y - 1) \in Nat /\ x * y = x + x * (y - 1) BY <3>1
    <3> QED BY <2>5, <3>2
  <2>7. z % (x * y) = z
    <3>1. \A w \in Nat \ {0} : z < w => z % w = z
      <4>1. ASSUME NEW w \in Nat \ {0}, z < w PROVE z % w = z
        <5>1. z \in 0 .. w-1 /\ 0 * w + z = z BY <2>5, <4>1
        <5> QED BY <5>1, Quotient
      <4> QED BY <4>1
    <3> QED BY <2>6, <3>1
  <2>8. Joined(low, high, h) = {low + ((high * Weight[h]) % Weight[IntBytes])}
    BY <1>4, <2>1 DEF Joined
  <2> QED BY <1>2, <2>4, <2>7, <2>8 DEF z
<1>5. ASSUME ~(h < IntBytes) PROVE Joined(low, high, h) \subseteq Words(h + h)
  <2>1. ~(h < Wider(h, IntBytes)) /\ 2 * h = h + h BY <1>0, <1>5 DEF Wider, Sizes
  <2>2. Joined(low, high, h) = low .. Weight[h + h] - 1 BY <2>1 DEF Joined
  <2>3. PICK x \in Nat \ {0} : x = Weight[h + h] BY <1>0, WeightOf
  <2> QED BY <1>3, <2>2, <2>3 DEF Words
<1> QED BY <1>1, <1>4, <1>5

\* bytes_to_int by halves gives words, and that of the representation of a
\* word is the word, if its upper half can be shifted that far.
LEMMA WordsAre ==
    ASSUME NEW n \in Sizes
    PROVE  /\ \A b \in [1..n -> Byte] : RecursiveWords(b, n) \subseteq Words(n)
           /\ \A w \in Words(n) :
                 n \div 2 < IntBytes => RecursiveWords(Representation(w, n), n) = {w}
<1>0. IntBytes \in Sizes OBVIOUS
<1> HIDE FixedAssumption
<1> DEFINE P == {m \in Sizes :
                   /\ \A b \in [1..m -> Byte] : RecursiveWords(b, m) \subseteq Words(m)
                   /\ \A w \in Words(m) :
                         m \div 2 < IntBytes => RecursiveWords(Representation(w, m), m) = {w}}
<1>1. 1 \in P
  <2>1. \A b : RecursiveWords(b, 1) = {b[1]} BY DEF RecursiveWords, Words1
  <2>2. ASSUME NEW b \in [1..1 -> Byte] PROVE RecursiveWords(b, 1) \subseteq Words(1)
    <3>1. b[1] \in Byte OBVIOUS
    <3> QED BY <2>1, <3>1, OneByte
  <2>3. ASSUME NEW w \in Words(1) PROVE RecursiveWords(Representation(w, 1), 1) = {w}
    <3>1. Representation(w, 1) = <<w>> BY OneByte
    <3>2. <<w>>[1] = w OBVIOUS
    <3> QED BY <2>1, <3>1, <3>2
  <2> QED BY <2>2, <2>3 DEF Sizes
<1>2. ASSUME NEW h \in {1, 2, 4}, h \in P PROVE h + h \in P
  <2>0. h \in Nat /\ h + h \in Sizes /\ (h + h) \div 2 = h /\ (h < IntBytes => h \div 2 < IntBytes)
    <3>1. h \in Nat /\ (h + h) \div 2 = h OBVIOUS
    <3>2. h < IntBytes => h \div 2 < IntBytes BY <1>0 DEF Sizes
    <3> QED BY <3>1, <3>2, BySize
  <2>1. ASSUME NEW b \in [1 .. h+h -> Byte] PROVE RecursiveWords(b, h + h) \subseteq Words(h + h)
    <3>1. FirstHalf(b, h) \in [1..h -> Byte] /\ LastHalf(b, h) \in [1..h -> Byte]
      BY <2>0, TwoHalves
    <3>2. /\ RecursiveWords(FirstHalf(b, h), h) \subseteq Words(h)
          /\ RecursiveWords(LastHalf(b, h), h) \subseteq Words(h)
      BY <1>2, <3>1
    <3>3. \A low, high \in Words(h) : Joined(low, high, h) \subseteq Words(h + h) BY JoinedType
    <3>4. ASSUME NEW X \in SUBSET Words(h), NEW Y \in SUBSET Words(h),
                 NEW w \in Join(X, Y, h)
          PROVE  w \in Words(h + h)
      <4>1. PICK low \in X, high \in Y : w \in Joined(low, high, h) BY <3>4 DEF Join
      <4> QED BY <3>3, <4>1
    <3> QED BY <3>2, <3>4, BySize
  <2>2. ASSUME NEW w \in Words(h + h), h < IntBytes
        PROVE  RecursiveWords(Representation(w, h + h), h + h) = {w}
    <3> DEFINE f == Representation(Lower(w, h), h)
               g == Representation(Upper(w, h), h)
    <3>1. /\ Lower(w, h) \in Words(h) /\ Upper(w, h) \in Words(h)
          /\ w = Lower(w, h) + Upper(w, h) * Weight[h]
      BY <2>0, Parts
    <3>2. Lower(w, h) \in Nat /\ Upper(w, h) \in Nat BY <3>1 DEF Words
    <3>3. f \in [1..h -> Byte] /\ g \in [1..h -> Byte] BY <2>0, <3>2, RepresentationType
    <3>4. RecursiveWords(f, h) = {Lower(w, h)} /\ RecursiveWords(g, h) = {Upper(w, h)}
      BY <1>2, <2>0, <2>2, <3>1
    <3>5. Representation(w, h + h) = f \o g BY <2>0, RepresentationParts
    <3> HIDE DEF f, g
    <3>6. FirstHalf(f \o g, h) = f /\ LastHalf(f \o g, h) = g BY <2>0, <3>3, TwoHalves
    <3>7. RecursiveWords(f \o g, h + h) = Join({Lower(w, h)}, {Upper(w, h)}, h)
      BY <3>4, <3>6, BySize
    <3>8. Joined(Lower(w, h), Upper(w, h), h) = {w} BY <2>2, <3>1, JoinedType
    <3>9. \A x, y : Join({x}, {y}, h) = Joined(x, y, h) BY DEF Join
    <3> QED BY <3>5, <3>7, <3>8, <3>9
  <2> QED BY <2>0, <2>1, <2>2
<1> HIDE DEF P
<1>3. \A m \in Sizes : m \in P BY <1>1, <1>2, EverySize
<1> QED BY <1>3 DEF P

\* What a program's conversions make of words and bytes.
LEMMA Conversions ==
    ASSUME NEW build \in Builds
    PROVE  /\ build[2] \in Sizes
           /\ \A w \in Words(build[2]) : int_to_bytes(build, w) = Representation(w, build[2])
           /\ \A b \in [1 .. build[2] -> Byte] : bytes_to_int(build, b) \subseteq Words(build[2])
           /\ (build[1] = "recursive" => build[2] \div 2 < IntBytes) =>
                 \A w \in Words(build[2]) : bytes_to_int(build, Representation(w, build[2])) = {w}
<1>1. build[1] \in {"bit_cast", "recursive"} /\ build[2] \in Sizes OBVIOUS
<1> HIDE FixedAssumption
<1> DEFINE n == build[2]
<1>2. n \in Nat /\ n \in Sizes BY <1>1 DEF Sizes
<1> HIDE DEF n
<1>3. \A b \in [1..n -> Byte] : Len(b) = n BY <1>2
<1>4. CASE build[1] = "bit_cast"
  <2>1. ASSUME NEW b \in [1..n -> Byte]
        PROVE  Represented(b) \in Words(n) /\ Representation(Represented(b), n) = b
    <3>1. \E w \in Words(n) : Representation(w, n) = b BY <1>2, RepresentationOnto
    <3>2. Represented(b) = CHOOSE w \in Words(n) : Representation(w, n) = b
      BY <1>3 DEF Represented
    <3> QED BY <3>1, <3>2
  <2>2. ASSUME NEW w \in Words(n) PROVE Represented(Representation(w, n)) = w
    <3>1. w \in Nat BY DEF Words
    <3>2. Representation(w, n) \in [1..n -> Byte] BY <1>2, <3>1, RepresentationType
    <3>3. Represented(Representation(w, n)) \in Words(n)
          /\ Representation(Represented(Representation(w, n)), n) = Representation(w, n)
      BY <2>1, <3>2
    <3> QED BY <1>2, <3>3, RepresentationOnto
  <2> QED BY <1>2, <1>4, <2>1, <2>2 DEF int_to_bytes, bytes_to_int, n
<1>5. CASE build[1] = "recursive"
  BY <1>2, <1>5, BytesAre, WordsAre DEF int_to_bytes, bytes_to_int, n
<1> QED BY <1>1, <1>4, <1>5

-----------------------------------------------------------------------------
(* Values.                                                                 *)

\* A value is the value of its word.
LEMMA ValueOfWord ==
    ASSUME NEW kind \in Kinds, NEW n \in Sizes, Fits(kind, n)
    PROVE  /\ \A v \in Values(kind, n) : ToWord(kind, n, v) \in Words(n)
                                         /\ ToValue(kind, n, ToWord(kind, n, v)) = v
           /\ \A w \in Words(n) : ToValue(kind, n, w) \in Values(kind, n)
<1>0. kind \in {"unsigned", "signed", "float", "bool"} OBVIOUS
<1>1. n \in Nat /\ \E k \in Nat : n = k + 1
  <2>1. n \in Nat /\ n - 1 \in Nat /\ n = (n - 1) + 1 BY DEF Sizes
  <2> QED BY <2>1
<1>2. PICK k \in Nat : n = k + 1 BY <1>1
<1>3. PICK m \in Nat \ {0} : m = Weight[k] BY WeightOf
<1>4. PICK c \in Nat \ {0} : Base = c + c
  <2>1. Base \div 2 \in Nat \ {0} /\ Base = (Base \div 2) + (Base \div 2) OBVIOUS
  <2> QED BY <2>1
<1> HIDE FixedAssumption
<1> DEFINE half == m * c
<1>5. Weight[n] = half + half /\ half \in Nat \ {0}
  <2>1. Weight[n] = m * (c + c) BY <1>2, <1>3, <1>4, WeightStep
  <2> QED BY <2>1
<1> HIDE DEF half
<1>6. Half(n) = half /\ Words(n) = 0 .. half + half - 1
  <2>1. (half + half) \div 2 = half BY <1>5
  <2> QED BY <1>5, <2>1 DEF Half, Words
<1>7. CASE kind = "unsigned" BY <1>7 DEF Values, ToWord, ToValue
<1>8. CASE kind = "signed"
  <2>1. ASSUME NEW v \in -half .. half - 1
        PROVE  v % (half + half) = IF v >= 0 THEN v ELSE v + (half + half)
    <3> DEFINE w == half + half
    <3>1. w \in Nat \ {0} /\ v \in Int BY <1>5
    <3>2. CASE v >= 0
      <4>1. v \in 0 .. w-1 /\ 0 * w + v = v BY <1>5, <3>2
      <4> HIDE DEF w
      <4>2. v % w = v BY <3>1, <4>1, Quotient
      <4> QED BY <3>2, <4>2 DEF w
    <3>3. CASE ~(v >= 0)
      <4>1. v + w \in 0 .. w-1 /\ (-1) * w + (v + w) = v BY <1>5, <3>3
      <4> HIDE DEF w
      <4>2. v % w = v + w BY <3>1, <4>1
      <4> QED BY <3>3, <4>2 DEF w
    <3> QED BY <3>2, <3>3
  <2>2. /\ Values(kind, n) = -half .. half - 1
        /\ \A v : ToWord(kind, n, v) = v % (half + half)
        /\ \A w : ToValue(kind, n, w) = IF w < half THEN w ELSE w - (half + half)
    BY <1>5, <1>6, <1>8 DEF Values, ToWord, ToValue
  <2>3. ASSUME NEW v \in -half .. half - 1
        PROVE  /\ v % (half + half) \in 0 .. half + half - 1
               /\ (IF v % (half + half) < half THEN v % (half + half)
                   ELSE (v % (half + half)) - (half + half)) = v
    <3> DEFINE r == v % (half + half)
    <3>1. r = IF v >= 0 THEN v ELSE v + (half + half) BY <2>1
    <3> HIDE DEF r
    <3>2. r \in 0 .. half + half - 1 /\ (IF r < half THEN r ELSE r - (half + half)) = v
      BY <1>5, <3>1
    <3> QED BY <3>2 DEF r
  <2>4. ASSUME NEW w \in 0 .. half + half - 1
        PROVE  (IF w < half THEN w ELSE w - (half + half)) \in -half .. half - 1
    BY <1>5
  <2> QED BY <1>6, <2>2, <2>3, <2>4
<1>9. CASE kind = "float" BY <1>9 DEF Values, ToWord, ToValue
<1>10. CASE kind = "bool"
  <2>1. half + half > 1 /\ 0 \in Words(n) /\ 1 \in Words(n) BY <1>5, <1>6
  <2>2. /\ Values(kind, n) = BOOLEAN
        /\ \A v : ToWord(kind, n, v) = IF v THEN 1 ELSE 0
        /\ \A w : ToValue(kind, n, w) = (w # 0)
    BY <1>10 DEF Values, ToWord, ToValue
  <2>3. /\ ToWord(kind, n, TRUE) = 1 /\ ToWord(kind, n, FALSE) = 0
        /\ ToValue(kind, n, 1) = TRUE /\ ToValue(kind, n, 0) = FALSE
        /\ \A w : ToValue(kind, n, w) \in BOOLEAN
    <3>1. 1 # 0 /\ \A w : (w # 0) \in BOOLEAN OBVIOUS
    <3> QED BY <2>2, <3>1, Zenon
  <2> QED BY <2>1, <2>2, <2>3, Zenon
<1> QED BY <1>0, <1>7, <1>8, <1>9, <1>10

-----------------------------------------------------------------------------
(* The invariant: what is watched is a value that lies in its bytes.       *)

IInv ==
    /\ TypeOK
    /\ LittleEndian
    /\ watched # NoCall =>
          /\ watched.n \in Sizes /\ watched.kind \in Kinds /\ Fits(watched.kind, watched.n)
          /\ watched.at \in Nat /\ watched.at + watched.n <= Memory
          /\ watched.value \in Values(watched.kind, watched.n)

\* The array is all zeros, and nothing is watched.
LEMMA Initially == Init => IInv
<1> SUFFICES ASSUME Init PROVE IInv OBVIOUS
<1>1. 0 \in Byte BY DEF Byte
<1> QED BY <1>1 DEF Init, IInv, TypeOK, LittleEndian, NoCall

\* An encode that is watched puts the value in its bytes, and one that leaves
\* another value watched does not touch its bytes.
LEMMA EncodeKeeps ==
    ASSUME IInv, NEW build \in Builds, NEW kind \in Kinds, Fits(kind, build[2]),
           NEW at \in 0..Memory, NEW v \in Values(kind, build[2]), Encode(build, kind, at, v)
    PROVE  IInv'
<1> DEFINE n == build[2]
           word == ToWord(kind, n, v)
           bytes == int_to_bytes(build, word)
<1>1. n \in Sizes /\ n \in Nat /\ Memory \in Nat /\ at \in Nat BY Conversions DEF Sizes
<1>2. word \in Words(n) /\ word \in Nat BY <1>1, ValueOfWord DEF Words
<1>3. bytes = Representation(word, n) BY <1>2, Conversions
<1>4. bytes \in [1..n -> Byte]
  <2> HIDE DEF n, word, bytes
  <2> QED BY <1>1, <1>2, <1>3, RepresentationType
<1>5. /\ at + n <= Memory
      /\ memory' = [i \in 1..Memory |-> IF i \in at+1 .. at+n THEN bytes[i - at] ELSE memory[i]]
      /\ call' = NoCall
  BY <1>1 DEF Encode, check_bytes_span
<1>6. /\ \/ watched' = [op |-> "encode", n |-> n, kind |-> kind, at |-> at, value |-> v]
         \/ watched # NoCall /\ Apart(watched, at, n) /\ watched' = watched
  BY DEF Encode
<1> HIDE FixedAssumption
<1> HIDE DEF n, word, bytes
<1>7. TypeOK'
  <2>1. ASSUME NEW i \in 1..Memory
        PROVE  (IF i \in at+1 .. at+n THEN bytes[i - at] ELSE memory[i]) \in Byte
    <3>1. i \in at+1 .. at+n => i - at \in 1..n BY <1>1
    <3>2. memory[i] \in Byte BY DEF IInv, TypeOK
    <3> QED BY <1>4, <3>1, <3>2
  <2> QED BY <1>5, <2>1 DEF TypeOK, NoCall
<1>8. CASE watched' = [op |-> "encode", n |-> n, kind |-> kind, at |-> at, value |-> v]
  <2>1. ASSUME NEW k \in 1..n PROVE memory'[at + k] = (word \div Weight[k-1]) % Base
    <3>1. at + k \in 1..Memory /\ at + k \in at+1 .. at+n /\ (at + k) - at = k BY <1>1, <1>5
    <3> QED BY <1>3, <1>5, <3>1 DEF Representation
  <2>2. /\ watched'.n = n /\ watched'.kind = kind /\ watched'.at = at /\ watched'.value = v
    BY <1>8
  <2>3. LittleEndian' BY <2>1, <2>2 DEF LittleEndian, word
  <2> QED BY <1>1, <1>5, <1>7, <2>2, <2>3 DEF IInv, n
<1>9. CASE watched # NoCall /\ Apart(watched, at, n) /\ watched' = watched
  <2>1. watched.n \in Nat /\ watched.at \in Nat /\ watched.at + watched.n <= Memory
    BY <1>9 DEF IInv, Sizes
  <2>2. ASSUME NEW k \in 1 .. watched.n PROVE memory'[watched.at + k] = memory[watched.at + k]
    <3>1. watched.at + k \in 1..Memory /\ watched.at + k \notin at+1 .. at+n
      BY <1>1, <1>9, <2>1 DEF Apart
    <3> QED BY <1>5, <3>1
  <2>3. LittleEndian' BY <1>9, <2>2 DEF IInv, LittleEndian
  <2> QED BY <1>7, <1>9, <2>3 DEF IInv
<1> QED BY <1>6, <1>8, <1>9

\* A decode reads bytes of the array, and gives a value of its type.
LEMMA DecodeKeeps ==
    ASSUME IInv, NEW build \in Builds, NEW kind \in Kinds, Fits(kind, build[2]),
           NEW at \in 0..Memory, Decode(build, kind, at)
    PROVE  /\ IInv'
           /\ (build[1] = "recursive" => build[2] \div 2 < IntBytes) => ReadsBack'
<1> DEFINE n == build[2]
           b == SubSeq(memory, at+1, at+n)
<1>1. n \in Sizes /\ n \in Nat /\ Memory \in Nat /\ at \in Nat BY Conversions DEF Sizes
<1>2. PICK w \in bytes_to_int(build, b) :
         call' = [op |-> "decode", n |-> n, kind |-> kind, at |-> at, value |-> ToValue(kind, n, w)]
  BY DEF Decode
<1>3. at + n <= Memory /\ UNCHANGED <<memory, watched>> BY <1>1 DEF Decode, check_bytes_span
<1>4. b \in [1..n -> Byte] /\ \A k \in 1..n : b[k] = memory[at + k]
  <2>1. memory \in [1..Memory -> Byte] BY DEF IInv, TypeOK
  <2>2. memory \in Seq(Byte) /\ Len(memory) = Memory BY <1>1, <2>1
  <2>3. b \in Seq(Byte) /\ Len(b) = n BY <1>1, <1>3, <2>2
  <2>4. \A k \in 1..n : b[k] = memory[at + k] BY <1>1, <1>3, <2>2
  <2> HIDE DEF b, n
  <2> QED BY <1>1, <2>3, <2>4
<1> HIDE DEF b
<1>5. w \in Words(n) BY <1>4, Conversions
<1>6. ToValue(kind, n, w) \in Values(kind, n) BY <1>1, <1>5, ValueOfWord
<1>7. IInv'
  <2>1. TypeOK' BY <1>2, <1>3, <1>6 DEF IInv, TypeOK
  <2> QED BY <1>3, <2>1 DEF IInv, LittleEndian
<1>8. ASSUME build[1] = "recursive" => build[2] \div 2 < IntBytes,
             watched # NoCall, at = watched.at, kind = watched.kind, n = watched.n
      PROVE  ToValue(kind, n, w) = watched.value
  <2> DEFINE word == ToWord(kind, n, watched.value)
  <2>1. /\ word \in Words(n) /\ word \in Nat /\ ToValue(kind, n, word) = watched.value
    <3>1. watched.value \in Values(kind, n) BY <1>8 DEF IInv
    <3> HIDE DEF n
    <3>2. /\ ToWord(kind, n, watched.value) \in Words(n)
          /\ ToValue(kind, n, ToWord(kind, n, watched.value)) = watched.value
      BY <1>1, <3>1, ValueOfWord DEF n
    <3> QED BY <3>2 DEF Words
  <2>2. \A k \in 1..n : b[k] = (word \div Weight[k-1]) % Base
    BY <1>4, <1>8 DEF IInv, LittleEndian
  <2> HIDE DEF word
  <2>3. Representation(word, n) \in [1..n -> Byte] BY <1>1, <2>1, RepresentationType
  <2>4. b = Representation(word, n) BY <1>4, <2>2, <2>3 DEF Representation
  <2>5. bytes_to_int(build, b) = {word} BY <1>8, <2>1, <2>4, Conversions
  <2> QED BY <1>2, <2>1, <2>5
<1>9. ASSUME build[1] = "recursive" => build[2] \div 2 < IntBytes PROVE ReadsBack'
  <2>1. call'.n = n /\ call'.kind = kind /\ call'.at = at /\ call'.value = ToValue(kind, n, w)
        /\ watched' = watched
    BY <1>2, <1>3
  <2> QED BY <1>8, <1>9, <2>1 DEF ReadsBack
<1> QED BY <1>7, <1>9

\* Every call keeps the invariant.
LEMMA Preserved == IInv /\ [Next]_vars => IInv'
<1> SUFFICES ASSUME IInv, [Next]_vars PROVE IInv' OBVIOUS
<1>1. ASSUME NEW build \in Builds, NEW at \in 0..Memory, Fail(build, at) PROVE IInv'
  BY <1>1 DEF Fail, IInv, TypeOK, LittleEndian
<1>2. ASSUME UNCHANGED vars PROVE IInv'
  BY <1>2 DEF vars, IInv, TypeOK, LittleEndian
<1> QED BY <1>1, <1>2, EncodeKeeps, DecodeKeeps DEF Next

\* What is watched lies in its bytes at all times.
THEOREM Inductive == Spec => []IInv
BY Initially, Preserved, PTL DEF Spec

\* The array holds bytes, and what is decoded is a value of its type, whatever
\* bytes it is decoded from.
THEOREM TypeCorrect == Spec => []TypeOK
<1>1. IInv => TypeOK BY DEF IInv
<1> QED BY <1>1, Inductive, PTL

\* Both conversions of int_to_bytes write the lowest byte first.
THEOREM BytesAreLittleEndian == Spec => []LittleEndian
<1>1. IInv => LittleEndian BY DEF IInv
<1> QED BY <1>1, Inductive, PTL

\* Each conversion reads what either wrote, if the recursion is not used for
\* an integer whose upper half, shifted, would not fit in an int.
THEOREM EncodedIsReadBack ==
    ASSUME \A build \in Builds : build[1] = "recursive" => build[2] \div 2 < IntBytes
    PROVE  Spec => []ReadsBack
<1>1. Init => ReadsBack BY DEF Init, ReadsBack, NoCall
<1>2. IInv /\ ReadsBack /\ [Next]_vars => ReadsBack'
  <2> SUFFICES ASSUME IInv, ReadsBack, [Next]_vars PROVE ReadsBack' OBVIOUS
  <2>1. ASSUME NEW build \in Builds, NEW at \in 0..Memory, Fail(build, at) PROVE ReadsBack'
    BY <2>1 DEF Fail, ReadsBack
  <2>2. ASSUME NEW build \in Builds, NEW kind \in Kinds, NEW at \in 0..Memory,
               NEW v \in Values(kind, build[2]), Encode(build, kind, at, v)
        PROVE  ReadsBack'
    BY <2>2 DEF Encode, ReadsBack, NoCall
  <2>3. ASSUME UNCHANGED vars PROVE ReadsBack' BY <2>3 DEF vars, ReadsBack
  <2> QED BY <2>1, <2>2, <2>3, DecodeKeeps DEF Next
<1> QED BY <1>1, <1>2, Inductive, PTL DEF Spec
=============================================================================
