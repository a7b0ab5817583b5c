------------------------- MODULE WireGrammarProofs -------------------------
(***************************************************************************)
(* What the proofs about the coders use of the wire format: the arithmetic *)
(* of bytes, the grammar, and merging.                                     *)
(***************************************************************************)
EXTENDS WireGrammar, Merge, Integers, TLAPS

-----------------------------------------------------------------------------
(* The arithmetic of bytes.                                                *)

USE BaseAssumption

\* One group splits off a number and what is left is smaller or zero.
LEMMA DivMod ==
    ASSUME NEW x \in Nat
    PROVE  /\ x \div Base \in Nat /\ x % Base \in 0 .. Base - 1
           /\ x = Base * (x \div Base) + (x % Base)
           /\ x \div Base <= x
<1>1. /\ x \div Base \in Nat /\ x % Base \in 0 .. Base - 1
      /\ x = Base * (x \div Base) + (x % Base)
  BY SMT
<1>2. x \div Base <= Base * (x \div Base)
  <2> DEFINE q == x \div Base
  <2>1. q \in Nat BY <1>1
  <2>2. \A b \in Nat : b > 1 => q <= b * q BY <2>1, SMT
  <2> QED BY <2>2
<1> QED BY <1>1, <1>2, SMT

\* A number that fits in a word is not cut.
LEMMA ModSmall ==
    ASSUME NEW m \in Nat, NEW w \in Nat, m < w
    PROVE  m % w = m
<1>1. m = w * 0 + m /\ m \in 0 .. w - 1 /\ w > 0 BY SMT
<1> QED BY <1>1, SMT

\* Every byte encode writes is a byte.
LEMMA GroupByteType ==
    ASSUME NEW x \in Nat
    PROVE  GroupByte(x) \in Byte
BY DivMod, SMT DEF GroupByte, Byte

\* The payload of the byte written for a group is the group, and its top bit
\* says whether more is left.
LEMMA GroupByteRead ==
    ASSUME NEW x \in Nat
    PROVE  /\ GroupByte(x) % Base = x % Base
           /\ Continues(GroupByte(x)) <=> x \div Base # 0
<1> DEFINE r == x % Base
<1>1. r \in 0 .. Base - 1 BY DivMod
<1>2. r % Base = r /\ (Base + r) % Base = r
  <2> HIDE DEF r
  <2>1. r = Base * 0 + r /\ Base + r = Base * 1 + r BY <1>1
  <2> QED BY <1>1, <2>1, SMT
<1> QED BY <1>1, <1>2, SMT DEF GroupByte, Continues
-----------------------------------------------------------------------------
(* Induction.                                                             *)

PowerStep(given, f, k) == IF k = 0 THEN 1 ELSE f[k - 1] * Base

Powers == INSTANCE Recursion WITH Step <- PowerStep

\* A definition that looks at the place before is a descending one.
LEMMA Descending ==
    /\ [k \in Nat |-> k] \in [Nat -> Nat]
    /\ \A k \in Nat \ {0} : k - 1 \in Nat /\ [l \in Nat |-> l][k - 1] < [l \in Nat |-> l][k]
<1>1. [k \in Nat |-> k] \in [Nat -> Nat] OBVIOUS
<1>2. ASSUME NEW k \in Nat \ {0} PROVE k - 1 \in Nat /\ [l \in Nat |-> l][k - 1] < [l \in Nat |-> l][k]
  <2>1. k - 1 \in Nat /\ k \in Nat /\ k - 1 < k BY SMT
  <2> QED BY <2>1
<1> QED BY <1>1, <1>2

-----------------------------------------------------------------------------
(* Numbers in groups.                                                      *)

\* The weights of the groups, one by one.
LEMMA WeightStep == Weight[0] = 1 /\ \A k \in Nat : Weight[k + 1] = Weight[k] * Base
<1> DEFINE id == [k \in Nat |-> k]
<1>1. Powers!Descends(0, Nat, id)
  <2>1. \A k \in Nat \ {0} : k - 1 \in Nat /\ id[k - 1] < id[k] BY Descending
  <2> HIDE DEF id
  <2> QED BY <2>1 DEF Powers!Descends, PowerStep
<1>2. \E f : Powers!Solves(0, Nat, f)
  <2>1. id \in [Nat -> Nat] BY Descending
  <2> HIDE DEF id
  <2> QED BY <1>1, <2>1, Powers!RecursiveFunction
<1>3. Weight = CHOOSE f : Powers!Solves(0, Nat, f) BY DEF Weight, Powers!Solves, PowerStep
<1>4. Powers!Solves(0, Nat, Weight) BY <1>2, <1>3
<1>5. \A m \in Nat : Weight[m] = IF m = 0 THEN 1 ELSE Weight[m - 1] * Base
  BY <1>4 DEF Powers!Solves, PowerStep
<1>6. \A k \in Nat : k + 1 \in Nat /\ k + 1 # 0 /\ (k + 1) - 1 = k BY SMT
<1> QED BY <1>5, <1>6

NumberStep(given, f, k) ==
    IF k = 0 THEN 0
    ELSE f[k - 1] + (given.bytes[given.lo + k - 1] % Base) * Weight[k - 1]

Numbers == INSTANCE Recursion WITH Step <- NumberStep

\* The number in the bytes from lo on, byte by byte.
LEMMA NumberFromStep ==
    ASSUME NEW bytes, NEW lo \in Nat
    PROVE  /\ NumberFrom(bytes, lo)[0] = 0
           /\ \A k \in Nat : NumberFrom(bytes, lo)[k + 1]
                                = NumberFrom(bytes, lo)[k] + (bytes[lo + k] % Base) * Weight[k]
<1> DEFINE id == [k \in Nat |-> k]
           g == [bytes |-> bytes, lo |-> lo]
           number == NumberFrom(bytes, lo)
<1>1. Numbers!Descends(g, Nat, id)
  <2>1. \A k \in Nat \ {0} : k - 1 \in Nat /\ id[k - 1] < id[k] BY Descending
  <2> HIDE DEF id, g
  <2> QED BY <2>1 DEF Numbers!Descends, NumberStep
<1>2. \E f : Numbers!Solves(g, Nat, f)
  <2>1. id \in [Nat -> Nat] BY Descending
  <2> HIDE DEF id, g
  <2> QED BY <1>1, <2>1, Numbers!RecursiveFunction
<1>3. number = CHOOSE f : Numbers!Solves(g, Nat, f)
  BY DEF NumberFrom, Numbers!Solves, NumberStep
<1>4. Numbers!Solves(g, Nat, number)
  <2> HIDE DEF g, number
  <2> QED BY <1>2, <1>3
<1>5. \A m \in Nat : number[m] =
         IF m = 0 THEN 0 ELSE number[m - 1] + (bytes[lo + m - 1] % Base) * Weight[m - 1]
  <2> HIDE DEF number
  <2> QED BY <1>4 DEF Numbers!Solves, NumberStep
<1>6. \A k \in Nat : /\ k + 1 \in Nat /\ k + 1 # 0 /\ (k + 1) - 1 = k
                     /\ lo + (k + 1) - 1 = lo + k
  BY SMT
<1> HIDE DEF number
<1>7. number[0] = 0 BY <1>5
<1>8. ASSUME NEW k \in Nat PROVE number[k + 1] = number[k] + (bytes[lo + k] % Base) * Weight[k]
  BY <1>5, <1>6
<1> QED BY <1>7, <1>8 DEF number

\* The weight of a group is a positive number, and the next one's is larger.
LEMMA WeightNat ==
    \A k \in Nat : Weight[k] \in Nat \ {0} /\ Weight[k] < Weight[k + 1]
<1>1. \A x, y : x \in Nat \ {0} /\ y \in Nat /\ y > 1 => x * y \in Nat \ {0} /\ x < x * y
  <2> HIDE BaseAssumption
  <2> QED BY SMT
<1> DEFINE P == {k \in Nat : Weight[k] \in Nat \ {0}}
<1>2. 0 \in P BY WeightStep
<1>3. ASSUME NEW k \in Nat, k \in P PROVE k + 1 \in P
  <2>1. Weight[k] \in Nat \ {0} /\ Weight[k + 1] = Weight[k] * Base BY <1>3, WeightStep
  <2>2. k + 1 \in Nat OBVIOUS
  <2> QED BY <1>1, <2>1, <2>2, Zenon
<1>4. \A k \in Nat : k \in P
  <2> HIDE DEF P
  <2> QED BY <1>2, <1>3, Powers!Induct
<1>5. ASSUME NEW k \in Nat PROVE Weight[k] \in Nat \ {0} /\ Weight[k] < Weight[k + 1]
  <2>1. Weight[k] \in Nat \ {0} BY <1>4
  <2>2. Weight[k + 1] = Weight[k] * Base BY WeightStep
  <2>3. Weight[k] < Weight[k] * Base BY <1>1, <2>1, Zenon
  <2> QED BY <2>1, <2>2, <2>3
<1> QED BY <1>5

\* Cutting a sum to a word, the part that was cut before makes no difference.
LEMMA ModSum ==
    ASSUME NEW x \in Nat, NEW y \in Nat, NEW w \in Nat \ {0}
    PROVE  ((x % w) + y) % w = (x + y) % w
<1> HIDE BaseAssumption
<1>1. PICK q \in Nat, r \in 0 .. w - 1 : x = w * q + r /\ x % w = r
  <2>1. /\ x \div w \in Nat /\ x % w \in 0 .. w - 1
        /\ x = w * (x \div w) + (x % w)
    BY SMT
  <2> QED BY <2>1
<1>2. PICK d \in Nat, e \in 0 .. w - 1 : r + y = w * d + e /\ (r + y) % w = e
  <2> DEFINE z == r + y
  <2>0. z \in Nat BY SMT
  <2> HIDE DEF z
  <2>1. /\ z \div w \in Nat /\ z % w \in 0 .. w - 1
        /\ z = w * (z \div w) + (z % w)
    BY <2>0, SMT
  <2> QED BY <2>1 DEF z
<1>3. x + y = w * (q + d) + e BY <1>1, <1>2, SMT
<1>4. (x + y) % w = e
  <2> DEFINE z == x + y
             k == q + d
  <2>1. z = w * k + e /\ z \in Nat /\ k \in Nat BY <1>3
  <2> HIDE DEF z, k
  <2>2. z % w = e BY <2>1, SMT
  <2> QED BY <2>2 DEF z
<1> QED BY <1>1, <1>2, <1>4

\* The payloads of bytes add up to a number.
LEMMA NumberFromNat ==
    ASSUME NEW bytes, NEW lo \in Nat, NEW m \in Nat,
           \A j \in lo .. lo + m - 1 : bytes[j] \in Byte
    PROVE  NumberFrom(bytes, lo)[m] \in Nat
<1> DEFINE number == NumberFrom(bytes, lo)
           P == {k \in Nat : k <= m => number[k] \in Nat}
<1>1. 0 \in P BY NumberFromStep
<1>2. ASSUME NEW k \in Nat, k \in P PROVE k + 1 \in P
  <2>1. SUFFICES ASSUME k + 1 <= m PROVE number[k + 1] \in Nat BY SMT
  <2>2. k <= m /\ lo + k \in lo .. lo + m - 1 BY <2>1, SMT
  <2>3. bytes[lo + k] \in Byte BY <2>2
  <2> DEFINE x == number[k]
             y == bytes[lo + k] % Base
             z == Weight[k]
  <2>4. y \in Nat BY <2>3, DivMod DEF Byte
  <2>5. z \in Nat /\ x \in Nat BY <1>2, <2>2, WeightNat
  <2>6. number[k + 1] = x + y * z BY NumberFromStep
  <2>7. x + y * z \in Nat
    <3> HIDE BaseAssumption
    <3> HIDE DEF x, y, z
    <3> QED BY <2>4, <2>5, SMT
  <2> HIDE DEF x, y, z
  <2> QED BY <2>6, <2>7
<1>3. \A k \in Nat : k \in P
  <2> HIDE DEF P
  <2> QED BY <1>1, <1>2, Powers!Induct
<1> QED BY <1>3

\* The lowest group of a number is in the first byte, the others are in the
\* bytes after it.
LEMMA NumberFromNext ==
    ASSUME NEW bytes, NEW lo \in Nat, NEW m \in Nat,
           \A j \in lo .. lo + m : bytes[j] \in Byte
    PROVE  NumberFrom(bytes, lo)[m + 1] = (bytes[lo] % Base) + Base * NumberFrom(bytes, lo + 1)[m]
<1> DEFINE all == NumberFrom(bytes, lo)
           rest == NumberFrom(bytes, lo + 1)
           first == bytes[lo] % Base
           P == {k \in Nat : k <= m => all[k + 1] = first + Base * rest[k]}
<1>0. lo + 1 \in Nat /\ lo \in lo .. lo + m /\ Base \in Nat BY BaseAssumption, SMT
<1>1. first \in Nat BY <1>0, BaseAssumption, DivMod DEF Byte
<1>2. /\ all[0] = 0 /\ rest[0] = 0
      /\ \A k \in Nat : all[k + 1] = all[k] + (bytes[lo + k] % Base) * Weight[k]
      /\ \A k \in Nat : rest[k + 1] = rest[k] + (bytes[(lo + 1) + k] % Base) * Weight[k]
  BY <1>0, NumberFromStep
<1>3. 0 \in P
  <2>1. all[0 + 1] = all[0] + (bytes[lo + 0] % Base) * Weight[0] BY <1>2
  <2>2. lo + 0 = lo /\ Weight[0] = 1 BY WeightStep, SMT
  <2> HIDE DEF all, rest
  <2>3. all[0 + 1] = first + Base * rest[0]
    <3>1. all[0 + 1] = 0 + first * 1 BY <1>2, <2>1, <2>2
    <3> HIDE DEF first
    <3> QED BY <1>0, <1>1, <1>2, <3>1, SMT
  <2> QED BY <2>3
<1>4. ASSUME NEW k \in Nat, k \in P PROVE k + 1 \in P
  <2>1. SUFFICES ASSUME k + 1 <= m PROVE all[(k + 1) + 1] = first + Base * rest[k + 1]
    BY SMT
  <2>2. k <= m /\ (lo + 1) + k \in lo .. lo + m /\ lo + (k + 1) = (lo + 1) + k BY <2>1, SMT
  <2>3. k + 1 \in Nat OBVIOUS
  <2> DEFINE d == bytes[(lo + 1) + k] % Base
             w == Weight[k]
             r == rest[k]
  <2>4. d \in Nat BY <2>2, DivMod DEF Byte
  <2>5. w \in Nat BY WeightNat
  <2>6. r \in Nat
    <3>1. \A j \in lo + 1 .. (lo + 1) + k - 1 : j \in lo .. lo + m BY <2>1, SMT
    <3>2. \A j \in lo + 1 .. (lo + 1) + k - 1 : bytes[j] \in Byte BY <3>1
    <3> QED BY <1>0, <3>2, NumberFromNat
  <2>7. all[(k + 1) + 1] = all[k + 1] + d * Weight[k + 1] BY <1>2, <2>2, <2>3
  <2>8. all[k + 1] = first + Base * r BY <1>4, <2>2
  <2>9. Weight[k + 1] = w * Base BY WeightStep
  <2>10. rest[k + 1] = r + d * w BY <1>2
  <2> HIDE DEF all, rest, first, d, w, r
  <2>11. (first + Base * r) + d * (w * Base) = first + Base * (r + d * w)
    BY <1>0, <1>1, <2>4, <2>5, <2>6, SMT
  <2> QED BY <2>7, <2>8, <2>9, <2>10, <2>11
<1>5. \A k \in Nat : k \in P
  <2> HIDE DEF P
  <2> QED BY <1>3, <1>4, Powers!Induct
<1>6. m <= m BY SMT
<1> QED BY <1>5, <1>6

HIDE BaseAssumption

-----------------------------------------------------------------------------
(* Where the parts of a message lie.                                       *)

IsSeq(x) == \E S : x \in Seq(S)

Spans(n) == [0 .. n - 1 -> Byte]

\* The last byte of a varint lies in its window.
LEMMA LastPlace ==
    ASSUME NEW bytes, NEW lo \in Nat, NEW hi \in Nat, NEW k \in LastOfVarint(bytes, lo, hi)
    PROVE  /\ k \in Nat /\ lo <= k /\ k < hi
           /\ ~Continues(bytes[k]) /\ \A j \in lo .. k - 1 : Continues(bytes[j])
BY SMT DEF LastOfVarint

\* There is but one.
LEMMA OneLast ==
    ASSUME NEW bytes, NEW lo \in Nat, NEW hi \in Nat,
           NEW k \in LastOfVarint(bytes, lo, hi), NEW l \in LastOfVarint(bytes, lo, hi)
    PROVE  k = l
<1>1. k \in Nat /\ l \in Nat /\ lo <= k /\ lo <= l BY LastPlace
<1>2. ~(k < l)
  <2>1. SUFFICES ASSUME k < l PROVE FALSE OBVIOUS
  <2>2. k \in lo .. l - 1 BY <1>1, <2>1, SMT
  <2> QED BY <2>2, LastPlace
<1>3. ~(l < k)
  <2>1. SUFFICES ASSUME l < k PROVE FALSE OBVIOUS
  <2>2. l \in lo .. k - 1 BY <1>1, <2>1, SMT
  <2> QED BY <2>2, LastPlace
<1> QED BY <1>1, <1>2, <1>3, SMT

\* A varint takes at least a byte, and says a number.
LEMMA VarintPlace ==
    ASSUME NEW n \in Nat, NEW bytes \in Spans(n), NEW lo \in Nat, NEW hi \in 0..n,
           NEW word \in Nat \ {0}, NEW shift, NEW v \in VarintAt(bytes, lo, hi, word, shift)
    PROVE  v.end \in Nat /\ lo < v.end /\ v.end <= hi /\ v.val \in Nat
<1>0. hi \in Nat /\ hi <= n BY SMT
<1>1. PICK k \in LastOfVarint(bytes, lo, hi) :
        v = Found(k + 1, NumberFrom(bytes, lo)[k - lo + 1] % word)
  BY DEF VarintAt
<1>2. k \in Nat /\ lo <= k /\ k < hi BY <1>0, LastPlace
<1> DEFINE m == k - lo + 1
           x == NumberFrom(bytes, lo)[m]
<1>3. m \in Nat /\ lo + m - 1 = k BY <1>2, SMT
<1>4. x \in Nat
  <2>1. \A j \in lo .. lo + m - 1 : j \in 0 .. n - 1 BY <1>0, <1>2, <1>3, SMT
  <2>2. \A j \in lo .. lo + m - 1 : bytes[j] \in Byte BY <2>1 DEF Spans
  <2> HIDE DEF m
  <2> QED BY <1>3, <2>2, NumberFromNat
<1>5. v.end = k + 1 /\ v.val = x % word BY <1>1 DEF Found
<1> HIDE DEF x, m
<1>6. x % word \in Nat BY <1>4, SMT
<1> QED BY <1>0, <1>2, <1>5, <1>6, SMT

\* What a length announces lies in the window.
LEMMA LengthPlace ==
    ASSUME NEW n \in Nat, NEW bytes \in Spans(n), NEW lo \in Nat, NEW hi \in 0..n,
           NEW l \in LengthAt(bytes, lo, hi)
    PROVE  /\ l.end \in Nat /\ lo < l.end /\ l.end <= hi /\ l.val \in Nat
           /\ l.end + l.val \in 0..hi /\ lo < l.end + l.val
<1>1. l \in VarintAt(bytes, lo, hi, LenWord, LenWord) /\ l.end + l.val <= hi BY DEF LengthAt
<1>2. LenWord \in Nat \ {0} BY SchemaAssumption
<1>3. l.end \in Nat /\ lo < l.end /\ l.end <= hi /\ l.val \in Nat BY <1>1, <1>2, VarintPlace
<1> QED BY <1>1, <1>3, SMT

\* A skipped value takes at least a byte.
LEMMA SkipPlace ==
    ASSUME NEW n \in Nat, NEW bytes \in Spans(n), NEW lo \in Nat, NEW hi \in 0..n,
           NEW wire, NEW e \in SkipEnds(bytes, wire, lo, hi)
    PROVE  e \in Nat /\ lo < e /\ e <= hi
<1>0. hi \in Nat BY SMT
<1>1. CASE wire = 0
  <2>1. PICK k \in LastOfVarint(bytes, lo, hi) : e = k + 1 BY <1>1 DEF SkipEnds
  <2>2. k \in Nat /\ lo <= k /\ k < hi BY <1>0, LastPlace
  <2> QED BY <1>0, <2>1, <2>2, SMT
<1>2. CASE wire = 2
  <2>1. PICK l \in LengthAt(bytes, lo, hi) : e = l.end + l.val BY <1>2 DEF SkipEnds
  <2>2. e \in 0..hi /\ lo < e BY <2>1, LengthPlace
  <2> QED BY <1>0, <2>2, SMT
<1>3. CASE wire \in {1, 5}
  <2>1. wire # 0 /\ wire # 2 BY <1>3
  <2>2. SkipEnds(bytes, wire, lo, hi) = {f \in {lo + FixedSize[wire]} : f <= hi}
    BY <1>3, <2>1 DEF SkipEnds
  <2>3. e = lo + FixedSize[wire] /\ e <= hi BY <2>2
  <2>4. FixedSize[wire] \in Nat \ {0} BY <1>3, SchemaAssumption
  <2> QED BY <2>3, <2>4, SMT
<1>4. CASE wire \notin {0, 1, 2, 5}
  <2>1. SkipEnds(bytes, wire, lo, hi) = {} BY <1>4 DEF SkipEnds
  <2> QED BY <2>1
<1> QED BY <1>1, <1>2, <1>3, <1>4

\* A value takes at least a byte.
LEMMA ValuePlace ==
    ASSUME NEW n \in Nat, NEW bytes \in Spans(n), NEW lo \in Nat, NEW hi \in 0..n,
           NEW contents, NEW c \in Coders, NEW v \in ValueAt(bytes, contents, c, lo, hi)
    PROVE  v.end \in Nat /\ lo < v.end /\ v.end <= hi
<1>0. hi \in Nat /\ c.kind \in Kinds BY SchemaAssumption, SMT
<1>1. CASE c.kind = "varint"
  <2>1. v \in VarintAt(bytes, lo, hi, c.word, c.shift) BY <1>1 DEF ValueAt
  <2>2. c.word \in Nat \ {0} BY <1>1, SchemaAssumption
  <2> QED BY <2>1, <2>2, VarintPlace
<1>2. CASE c.kind = "fixed"
  <2>1. lo + c.size <= hi /\ v.end = lo + c.size /\ c.size \in Nat \ {0}
    <3>1. c.size \in Nat \ {0} BY <1>2, SchemaAssumption
    <3>2. /\ ~(lo + c.size > hi)
          /\ v = Found(lo + c.size, [j \in 1 .. c.size |-> bytes[lo + j - 1]])
      BY <1>2 DEF ValueAt
    <3> QED BY <1>0, <3>1, <3>2, SMT DEF Found
  <2> QED BY <2>1, SMT
<1>3. CASE c.kind \notin {"varint", "fixed"}
  <2>1. PICK l \in LengthAt(bytes, lo, hi) : v.end = l.end + l.val
    BY <1>3 DEF ValueAt, Found
  <2>2. v.end \in 0..hi /\ lo < v.end BY <2>1, LengthPlace
  <2> QED BY <1>0, <2>2, SMT
<1> QED BY <1>1, <1>2, <1>3

-----------------------------------------------------------------------------
(* The grammar has a solution: what a window holds depends on smaller ones. *)

Rank(n) == [w \in Windows(n) |-> IF w.lo < w.hi THEN w.hi - w.lo ELSE 0]

\* The size of a window is a number.
LEMMA RankType == ASSUME NEW n \in Nat PROVE Rank(n) \in [Windows(n) -> Nat]
<1>1. ASSUME NEW x \in Windows(n) PROVE (IF x.lo < x.hi THEN x.hi - x.lo ELSE 0) \in Nat
  <2>1. x.lo \in Nat /\ x.hi \in Nat BY SMT DEF Windows
  <2> QED BY <2>1, SMT
<1> QED BY <1>1 DEF Rank

\* A window that begins later and does not end later is smaller.
LEMMA Nested ==
    ASSUME NEW n \in Nat, NEW c \in LoopCoders, NEW lo \in Nat, NEW hi \in 0..n,
           NEW size \in Nat, 0 < size, hi - lo <= size,
           NEW l \in Nat, NEW h \in 0..n, lo < l, h <= hi
    PROVE  Window(c, l, h) \in Windows(n) /\ Rank(n)[Window(c, l, h)] < size
<1>1. Window(c, l, h) \in Windows(n) BY DEF Window, Windows
<1>2. Rank(n)[Window(c, l, h)] = IF l < h THEN h - l ELSE 0 BY <1>1 DEF Rank, Window
<1>3. (IF l < h THEN h - l ELSE 0) < size BY SMT
<1> QED BY <1>1, <1>2, <1>3

Agree(n, f, g, size) == \A w \in Windows(n) : Rank(n)[w] < size => f[w] = g[w]

\* The values at a place depend on the windows of what is smaller.
LEMMA ValueAgree ==
    ASSUME NEW n \in Nat, NEW bytes \in Spans(n), NEW lo \in Nat, NEW hi \in 0..n,
           NEW size \in Nat, 0 < size, hi - lo <= size,
           NEW f, NEW g, Agree(n, f, g, size), NEW c \in Coders
    PROVE  ValueAt(bytes, f, c, lo, hi) = ValueAt(bytes, g, c, lo, hi)
<1>1. CASE c.kind \in {"varint", "fixed"} BY <1>1 DEF ValueAt
<1>2. CASE c.kind \notin {"varint", "fixed"}
  <2>1. c \in LoopCoders BY <1>2, SchemaAssumption DEF Kinds, LoopCoders
  <2>2. ASSUME NEW l \in LengthAt(bytes, lo, hi)
        PROVE  f[Window(c, l.end, l.end + l.val)] = g[Window(c, l.end, l.end + l.val)]
    <3>1. l.end \in Nat /\ lo < l.end /\ l.end + l.val \in 0..hi BY LengthPlace
    <3>2. l.end + l.val \in 0..n /\ l.end + l.val <= hi BY <3>1, SMT
    <3> DEFINE h == l.end + l.val
               w == Window(c, l.end, h)
    <3>3. w \in Windows(n) /\ Rank(n)[w] < size
      <4>1. h \in 0..n /\ h <= hi BY <3>2
      <4> HIDE DEF h
      <4> QED BY <2>1, <3>1, <4>1, Nested
    <3> QED BY <3>3 DEF Agree
  <2> DEFINE T == {m \in LengthAt(bytes, lo, hi) :
                     c.kind = "array" /\ c.reserves => m.val <= MaxReserve}
             Of(h, l) == {Found(l.end + l.val, Filled(c, EmptyValue(c), items)) :
                            items \in h[Window(c, l.end, l.end + l.val)]}
  <2>3. \A l \in T : Of(f, l) = Of(g, l) BY <2>2
  <2>4. \A h : ValueAt(bytes, h, c, lo, hi) = UNION {Of(h, l) : l \in T}
    <3>1. c.kind # "varint" /\ c.kind # "fixed" BY <1>2
    <3> QED BY <3>1, Zenon DEF ValueAt
  <2> HIDE DEF T, Of
  <2> QED BY <2>3, <2>4
<1> QED BY <1>1, <1>2

\* So do the items.
LEMMA ItemsAgree ==
    ASSUME NEW n \in Nat, NEW bytes \in Spans(n), NEW lo \in Nat, NEW hi \in 0..n,
           NEW size \in Nat, 0 < size, hi - lo <= size,
           NEW f, NEW g, Agree(n, f, g, size),
           NEW c \in LoopCoders, NEW field, NEW callee \in Coders
    PROVE  ItemsAt(bytes, f, c, field, callee, lo, hi) = ItemsAt(bytes, g, c, field, callee, lo, hi)
<1>1. ValueAt(bytes, f, callee, lo, hi) = ValueAt(bytes, g, callee, lo, hi) BY ValueAgree
<1>2. ASSUME NEW v \in ValueAt(bytes, g, callee, lo, hi)
      PROVE  f[Window(c, v.end, hi)] = g[Window(c, v.end, hi)]
  <2>1. v.end \in Nat /\ lo < v.end /\ hi <= hi BY ValuePlace, SMT
  <2>2. Window(c, v.end, hi) \in Windows(n) /\ Rank(n)[Window(c, v.end, hi)] < size
    BY <2>1, Nested
  <2> QED BY <2>2 DEF Agree
<1> DEFINE V == ValueAt(bytes, g, callee, lo, hi)
           Of(h, v) == {<<Item(field, v.val)>> \o rest : rest \in h[Window(c, v.end, hi)]}
<1>3. \A v \in V : Of(f, v) = Of(g, v) BY <1>2
<1>4. /\ ItemsAt(bytes, f, c, field, callee, lo, hi) = UNION {Of(f, v) : v \in V}
      /\ ItemsAt(bytes, g, c, field, callee, lo, hi) = UNION {Of(g, v) : v \in V}
  BY <1>1 DEF ItemsAt
<1> HIDE DEF V, Of
<1> QED BY <1>3, <1>4

\* And so do the fields.
LEMMA FieldsAgree ==
    ASSUME NEW n \in Nat, NEW bytes \in Spans(n), NEW lo \in Nat, NEW hi \in 0..n,
           NEW size \in Nat, 0 < size, hi - lo <= size,
           NEW f, NEW g, Agree(n, f, g, size),
           NEW c \in LoopCoders, c.kind = "message", NEW k
    PROVE  FieldsAt(bytes, f, c, k, lo, hi) = FieldsAt(bytes, g, c, k, lo, hi)
<1>1. ASSUME NEW d \in c.fields
      PROVE  ItemsAt(bytes, f, c, d, d.coder, lo, hi) = ItemsAt(bytes, g, c, d, d.coder, lo, hi)
  <2>1. d.coder \in Coders BY SchemaAssumption DEF LoopCoders
  <2> QED BY <2>1, ItemsAgree
<1>2. ASSUME NEW e \in SkipEnds(bytes, WireOf(k), lo, hi)
      PROVE  f[Window(c, e, hi)] = g[Window(c, e, hi)]
  <2>1. e \in Nat /\ lo < e /\ hi <= hi BY SkipPlace, SMT
  <2>2. Window(c, e, hi) \in Windows(n) /\ Rank(n)[Window(c, e, hi)] < size BY <2>1, Nested
  <2> QED BY <2>2 DEF Agree
<1> DEFINE known == {d \in c.fields : Key(d) = k}
<1>3. \A d \in known : ItemsAt(bytes, f, c, d, d.coder, lo, hi) = ItemsAt(bytes, g, c, d, d.coder, lo, hi)
  BY <1>1
<1> QED BY <1>2, <1>3, Zenon DEF FieldsAt

Grammar == INSTANCE Recursion WITH Step <- ContentsStep

\* What is in a window is what the grammar says.
LEMMA ContentsAt ==
    ASSUME NEW n \in Nat, NEW bytes \in Spans(n), NEW w \in Windows(n)
    PROVE  Contents(bytes, n)[w] = ContentsStep(bytes, Contents(bytes, n), w)
<1> DEFINE S == Windows(n)
           rank == Rank(n)
<1>1. rank \in [S -> Nat] BY RankType
<1>2. ASSUME NEW x \in S, NEW f, NEW g, \A y \in S : rank[y] < rank[x] => f[y] = g[y]
      PROVE  ContentsStep(bytes, f, x) = ContentsStep(bytes, g, x)
  <2>1. x.lo \in Nat /\ x.hi \in 0..n /\ x.coder \in LoopCoders BY DEF Windows
  <2>2. CASE ~(x.lo < x.hi)
    <3>1. x.lo = x.hi \/ (x.lo # x.hi /\ x.lo > x.hi) BY <2>1, <2>2, SMT
    <3> QED BY <2>2, <3>1 DEF ContentsStep
  <2>3. CASE x.lo < x.hi
    <3> DEFINE size == x.hi - x.lo
    <3>1. size \in Nat /\ 0 < size /\ x.hi - x.lo <= size BY <2>1, <2>3, SMT
    <3>2. rank[x] = size BY <2>3 DEF Rank
    <3>3. Agree(n, f, g, size) BY <1>2, <3>2 DEF Agree
    <3>4. x.lo # x.hi /\ ~(x.lo > x.hi) BY <2>1, <2>3, SMT
    <3> HIDE DEF size
    <3>5. CASE x.coder.kind = "array"
      <4>1. x.coder.elem \in Coders BY <2>1, <3>5, SchemaAssumption DEF LoopCoders
      <4>2. ItemsAt(bytes, f, x.coder, NoField, x.coder.elem, x.lo, x.hi)
              = ItemsAt(bytes, g, x.coder, NoField, x.coder.elem, x.lo, x.hi)
        BY <2>1, <3>1, <3>3, <4>1, ItemsAgree
      <4> QED BY <2>3, <3>4, <3>5, <4>2 DEF ContentsStep
    <3>6. CASE x.coder.kind = "message"
      <4>1. ASSUME NEW k \in VarintAt(bytes, x.lo, x.hi, KeyWord, KeyWord)
            PROVE  FieldsAt(bytes, f, x.coder, k.val, k.end, x.hi)
                     = FieldsAt(bytes, g, x.coder, k.val, k.end, x.hi)
        <5>1. KeyWord \in Nat \ {0} BY SchemaAssumption
        <5>2. k.end \in Nat /\ x.lo < k.end BY <2>1, <5>1, VarintPlace
        <5>3. x.hi - k.end <= size BY <2>1, <3>1, <5>2, SMT
        <5> QED BY <2>1, <3>1, <3>3, <3>6, <5>2, <5>3, FieldsAgree
      <4>2. x.coder.kind # "array" BY <3>6
      <4>3. \A h : ContentsStep(bytes, h, x) =
              UNION {FieldsAt(bytes, h, x.coder, k.val, k.end, x.hi) :
                     k \in {l \in VarintAt(bytes, x.lo, x.hi, KeyWord, KeyWord) :
                              NumberOf(l.val) # 0}}
        BY <2>3, <3>4, <3>6, <4>2 DEF ContentsStep
      <4> DEFINE K == {l \in VarintAt(bytes, x.lo, x.hi, KeyWord, KeyWord) : NumberOf(l.val) # 0}
                 At(h, k) == FieldsAt(bytes, h, x.coder, k.val, k.end, x.hi)
      <4>4. \A k \in K : At(f, k) = At(g, k) BY <4>1
      <4>5. \A h : ContentsStep(bytes, h, x) = UNION {At(h, k) : k \in K} BY <4>3
      <4> HIDE DEF K, At
      <4> QED BY <4>4, <4>5
    <3> QED BY <2>1, <3>5, <3>6 DEF LoopCoders
  <2> QED BY <2>2, <2>3
<1> HIDE DEF S, rank
<1>3. Grammar!Descends(bytes, S, rank) BY <1>2 DEF Grammar!Descends
<1>4. \E f : Grammar!Solves(bytes, S, f) BY <1>1, <1>3, Grammar!RecursiveFunction
<1>5. Contents(bytes, n) = CHOOSE f : Grammar!Solves(bytes, S, f)
  BY DEF Contents, Grammar!Solves, S
<1>6. Grammar!Solves(bytes, S, Contents(bytes, n)) BY <1>4, <1>5
<1> QED BY <1>6 DEF Grammar!Solves, S

-----------------------------------------------------------------------------
(* What items make of a value.                                             *)

FillStep(given, f, k) ==
    IF k = 0 THEN given.val ELSE PushItem(given.coder, f[k - 1], given.items[k])

Fills == INSTANCE Recursion WITH Step <- FillStep

FillOf(c, v, items) ==
    CHOOSE f : Fills!Solves([coder |-> c, val |-> v, items |-> items], Nat, f)

\* The items, one by one.
LEMMA FillUp ==
    ASSUME NEW c, NEW v, NEW items
    PROVE  /\ Filled(c, v, items) = FillOf(c, v, items)[Len(items)]
           /\ FillOf(c, v, items)[0] = v
           /\ \A k \in Nat : FillOf(c, v, items)[k + 1]
                                = PushItem(c, FillOf(c, v, items)[k], items[k + 1])
<1> DEFINE id == [k \in Nat |-> k]
           g == [coder |-> c, val |-> v, items |-> items]
           fill == FillOf(c, v, items)
<1>1. Filled(c, v, items) = fill[Len(items)] BY DEF Filled, FillOf, Fills!Solves, FillStep
<1>2. Fills!Descends(g, Nat, id)
  <2>1. \A k \in Nat \ {0} : k - 1 \in Nat /\ id[k - 1] < id[k] BY Descending
  <2> HIDE DEF id, g
  <2> QED BY <2>1 DEF Fills!Descends, FillStep
<1>3. \E f : Fills!Solves(g, Nat, f)
  <2>1. id \in [Nat -> Nat] BY Descending
  <2> HIDE DEF id, g
  <2> QED BY <1>2, <2>1, Fills!RecursiveFunction
<1>4. Fills!Solves(g, Nat, fill)
  <2>1. fill = CHOOSE f : Fills!Solves(g, Nat, f) BY DEF FillOf
  <2> HIDE DEF g, fill
  <2> QED BY <1>3, <2>1
<1>5. \A m \in Nat : fill[m] = IF m = 0 THEN v ELSE PushItem(c, fill[m - 1], items[m])
  <2> HIDE DEF fill
  <2> QED BY <1>4 DEF Fills!Solves, FillStep
<1>6. \A k \in Nat : k + 1 \in Nat /\ k + 1 # 0 /\ (k + 1) - 1 = k BY SMT
<1> HIDE DEF fill
<1>7. fill[0] = v BY <1>5
<1>8. ASSUME NEW k \in Nat PROVE fill[k + 1] = PushItem(c, fill[k], items[k + 1])
  BY <1>5, <1>6
<1> QED BY <1>1, <1>7, <1>8 DEF fill

\* No items make nothing of it.
LEMMA FilledEmpty == ASSUME NEW c, NEW v PROVE Filled(c, v, <<>>) = v
<1>1. Len(<<>>) = 0 BY SMT
<1> QED BY <1>1, FillUp

\* An item before others is a sequence of items.
LEMMA ConsSeq ==
    ASSUME NEW it, NEW rest, IsSeq(rest)
    PROVE  LET s == <<it>> \o rest IN
           /\ IsSeq(s) /\ Len(rest) \in Nat /\ Len(s) = Len(rest) + 1 /\ s[1] = it
           /\ \A k \in 1 .. Len(rest) : s[k + 1] = rest[k]
<1>1. PICK S : rest \in Seq(S) BY DEF IsSeq
<1> DEFINE T == S \cup {it}
           s == <<it>> \o rest
<1>2. rest \in Seq(T) /\ <<it>> \in Seq(T)
  <2>1. rest \in Seq(T) BY <1>1, SMT
  <2>2. it \in T OBVIOUS
  <2> HIDE DEF T
  <2>3. <<it>> \in Seq(T) BY <2>2, SMT
  <2> QED BY <2>1, <2>3
<1> HIDE DEF T
<1>3. s \in Seq(T) BY <1>2, SMT
<1>4. Len(rest) \in Nat /\ Len(s) = Len(rest) + 1 /\ s[1] = it BY <1>2, SMT
<1>5. \A k \in 1 .. Len(rest) : s[k + 1] = rest[k] BY <1>2, SMT
<1>6. IsSeq(s) BY <1>3 DEF IsSeq
<1> QED BY <1>4, <1>5, <1>6

\* The first item is pushed before the others.
LEMMA FilledMore ==
    ASSUME NEW c, NEW v, NEW it, NEW rest, IsSeq(rest)
    PROVE  Filled(c, v, <<it>> \o rest) = Filled(c, PushItem(c, v, it), rest)
<1> DEFINE s == <<it>> \o rest
           u == PushItem(c, v, it)
           n == Len(rest)
           P == {k \in Nat : k <= n => FillOf(c, v, s)[k + 1] = FillOf(c, u, rest)[k]}
<1>0. n \in Nat /\ Len(s) = n + 1 /\ s[1] = it /\ \A k \in 1..n : s[k + 1] = rest[k] BY ConsSeq
<1> HIDE DEF s, n, u
<1>1. 0 \in P
  <2>1. FillOf(c, v, s)[0 + 1] = PushItem(c, FillOf(c, v, s)[0], s[0 + 1]) BY FillUp
  <2>2. FillOf(c, v, s)[0] = v /\ 0 + 1 = 1 /\ FillOf(c, u, rest)[0] = u BY FillUp
  <2> QED BY <1>0, <2>1, <2>2 DEF u
<1>2. ASSUME NEW k \in Nat, k \in P PROVE k + 1 \in P
  <2>1. SUFFICES ASSUME k + 1 <= n PROVE FillOf(c, v, s)[(k + 1) + 1] = FillOf(c, u, rest)[k + 1]
    BY SMT
  <2>2. k <= n /\ k + 1 \in 1..n /\ k + 1 \in Nat BY <1>0, <2>1, SMT
  <2>3. s[(k + 1) + 1] = rest[k + 1] BY <1>0, <2>2
  <2>4. FillOf(c, v, s)[(k + 1) + 1] = PushItem(c, FillOf(c, v, s)[k + 1], s[(k + 1) + 1])
    BY <2>2, FillUp
  <2>5. FillOf(c, u, rest)[k + 1] = PushItem(c, FillOf(c, u, rest)[k], rest[k + 1]) BY FillUp
  <2> QED BY <1>2, <2>2, <2>3, <2>4, <2>5
<1>3. \A k \in Nat : k \in P
  <2> HIDE DEF P
  <2> QED BY <1>1, <1>2, Powers!Induct
<1>4. FillOf(c, v, s)[n + 1] = FillOf(c, u, rest)[n]
  <2>1. n <= n BY <1>0, SMT
  <2> QED BY <1>0, <1>3, <2>1
<1>5. Filled(c, v, s) = FillOf(c, v, s)[n + 1] /\ Filled(c, u, rest) = FillOf(c, u, rest)[n]
  BY <1>0, FillUp DEF n
<1> QED BY <1>4, <1>5 DEF s, u

\* What a window holds is a sequence of items.
LEMMA ContentsSeq ==
    ASSUME NEW n \in Nat, NEW bytes \in Spans(n), NEW w \in Windows(n),
           NEW items \in Contents(bytes, n)[w]
    PROVE  IsSeq(items)
<1> DEFINE C == Contents(bytes, n)
           T == {x \in Windows(n) : \E s \in C[x] : ~IsSeq(s)}
<1>1. SUFFICES ASSUME T # {} PROVE FALSE OBVIOUS
<1>2. PICK x \in T : \A y \in T : Rank(n)[x] <= Rank(n)[y]
  <2>1. T \in SUBSET Windows(n) OBVIOUS
  <2> HIDE DEF T
  <2> QED BY <1>1, <2>1, RankType, Grammar!LowestRank
<1>3. x \in Windows(n) /\ x.lo \in Nat /\ x.hi \in 0..n /\ x.hi \in Nat /\ x.coder \in LoopCoders
  BY SMT DEF Windows
<1>4. PICK s \in C[x] : ~IsSeq(s) OBVIOUS
<1>5. s \in ContentsStep(bytes, C, x) BY <1>3, <1>4, ContentsAt
<1> HIDE DEF C
<1>6. IsSeq(<<>>)
  <2>1. <<>> \in Seq({}) BY SMT
  <2> QED BY <2>1 DEF IsSeq
<1>7. x.lo < x.hi
  <2>1. SUFFICES ASSUME ~(x.lo < x.hi) PROVE FALSE OBVIOUS
  <2>2. x.lo = x.hi \/ (x.lo # x.hi /\ x.lo > x.hi) BY <1>3, <2>1, SMT
  <2> QED BY <1>4, <1>5, <1>6, <2>1, <2>2 DEF ContentsStep
<1> DEFINE size == x.hi - x.lo
<1>8. /\ size \in Nat /\ 0 < size /\ x.hi - x.lo <= size /\ Rank(n)[x] = size
      /\ x.lo # x.hi /\ ~(x.lo > x.hi)
  BY <1>3, <1>7, SMT DEF Rank
<1> HIDE DEF size
<1>9. ASSUME NEW y \in Windows(n), Rank(n)[y] < size, NEW r \in C[y] PROVE IsSeq(r)
  <2>1. Rank(n)[y] \in Nat BY RankType
  <2>2. ~(Rank(n)[x] <= Rank(n)[y]) BY <1>8, <1>9, <2>1, SMT
  <2> QED BY <1>2, <2>2
<1>10. ASSUME NEW lo \in Nat, x.lo <= lo, NEW field, NEW callee \in Coders,
              s \in ItemsAt(bytes, C, x.coder, field, callee, lo, x.hi)
       PROVE  FALSE
  <2>1. PICK v \in ValueAt(bytes, C, callee, lo, x.hi) :
          \E rest \in C[Window(x.coder, v.end, x.hi)] : s = <<Item(field, v.val)>> \o rest
    BY <1>10 DEF ItemsAt
  <2>2. PICK rest \in C[Window(x.coder, v.end, x.hi)] : s = <<Item(field, v.val)>> \o rest
    BY <2>1
  <2>3. v.end \in Nat /\ lo < v.end BY <1>3, ValuePlace
  <2>4. x.lo < v.end /\ x.hi <= x.hi BY <1>3, <1>10, <2>3, SMT
  <2>5. /\ Window(x.coder, v.end, x.hi) \in Windows(n)
        /\ Rank(n)[Window(x.coder, v.end, x.hi)] < size
    BY <1>3, <1>8, <2>3, <2>4, Nested
  <2>6. IsSeq(rest) BY <1>9, <2>5
  <2> QED BY <1>4, <2>2, <2>6, ConsSeq
<1>11. CASE x.coder.kind = "array"
  <2>1. s \in ItemsAt(bytes, C, x.coder, NoField, x.coder.elem, x.lo, x.hi)
    BY <1>5, <1>7, <1>8, <1>11 DEF ContentsStep
  <2>2. x.coder.elem \in Coders BY <1>3, <1>11, SchemaAssumption DEF LoopCoders
  <2>3. x.lo <= x.lo BY <1>3
  <2> QED BY <1>3, <1>10, <2>1, <2>2, <2>3
<1>12. CASE x.coder.kind = "message"
  <2>1. x.coder.kind # "array" BY <1>12
  <2>2. PICK k \in VarintAt(bytes, x.lo, x.hi, KeyWord, KeyWord) :
          s \in FieldsAt(bytes, C, x.coder, k.val, k.end, x.hi)
    BY <1>5, <1>7, <1>8, <1>12, <2>1 DEF ContentsStep
  <2>3. k.end \in Nat /\ x.lo < k.end
    <3>1. KeyWord \in Nat \ {0} BY SchemaAssumption
    <3> QED BY <1>3, <3>1, VarintPlace
  <2>4. x.lo <= k.end BY <1>3, <2>3, SMT
  <2> DEFINE known == {d \in x.coder.fields : Key(d) = k.val}
  <2>5. CASE known # {}
    <3>1. PICK d \in known : s \in ItemsAt(bytes, C, x.coder, d, d.coder, k.end, x.hi)
      BY <2>2, <2>5 DEF FieldsAt
    <3>2. d.coder \in Coders BY <1>3, <1>12, SchemaAssumption DEF LoopCoders
    <3> QED BY <1>10, <2>3, <2>4, <3>1, <3>2
  <2>6. CASE known = {}
    <3>1. PICK e \in SkipEnds(bytes, WireOf(k.val), k.end, x.hi) : s \in C[Window(x.coder, e, x.hi)]
      BY <2>2, <2>6 DEF FieldsAt
    <3>2. e \in Nat /\ k.end < e BY <1>3, <2>3, SkipPlace
    <3>3. x.lo < e /\ x.hi <= x.hi BY <1>3, <2>3, <3>2, SMT
    <3>4. /\ Window(x.coder, e, x.hi) \in Windows(n)
          /\ Rank(n)[Window(x.coder, e, x.hi)] < size
      BY <1>3, <1>8, <3>2, <3>3, Nested
    <3> QED BY <1>4, <1>9, <3>1, <3>4
  <2> QED BY <2>5, <2>6
<1> QED BY <1>3, <1>11, <1>12 DEF LoopCoders

-----------------------------------------------------------------------------
(* What is in a window, from what its first item is and what is after it.  *)

\* What is in the window makes v of u.
Completes(bytes, n, c, u, v, lo, hi) ==
    \E items \in Contents(bytes, n)[Window(c, lo, hi)] : Filled(c, u, items) = v

\* In an empty window there is nothing to add.
LEMMA NothingMore ==
    ASSUME NEW n \in Nat, NEW bytes \in Spans(n), NEW c \in LoopCoders, NEW lo \in 0..n, NEW v
    PROVE  Completes(bytes, n, c, v, v, lo, lo)
<1> DEFINE w == Window(c, lo, lo)
<1>1. w \in Windows(n) /\ w.lo = w.hi BY SMT DEF Window, Windows
<1> HIDE DEF w
<1>2. Contents(bytes, n)[w] = {<<>>}
  <2>1. ContentsStep(bytes, Contents(bytes, n), w) = {<<>>}
    <3> DEFINE C == Contents(bytes, n)
    <3> HIDE DEF C
    <3>1. ~(w.lo > w.hi) /\ ~(w.lo < w.hi)
      <4>1. w.lo \in Nat BY <1>1 DEF Windows
      <4> QED BY <1>1, <4>1, SMT
    <3> QED BY <1>1, <3>1, Zenon DEF ContentsStep
  <2> QED BY <1>1, <2>1, ContentsAt
<1>3. Filled(c, v, <<>>) = v BY FilledEmpty
<1> QED BY <1>2, <1>3 DEF Completes, w

\* What begins with a value for field f at lo makes v of u.
Begins(bytes, n, c, f, callee, u, v, lo, hi) ==
    \E items \in ItemsAt(bytes, Contents(bytes, n), c, f, callee, lo, hi) :
        Filled(c, u, items) = v

\* A value that is found goes before what the rest of the window adds.
LEMMA ItemBefore ==
    ASSUME NEW n \in Nat, NEW bytes \in Spans(n), NEW c \in LoopCoders,
           NEW lo \in Nat, NEW hi \in 0..n, NEW f, NEW callee \in Coders,
           NEW x \in ValueAt(bytes, Contents(bytes, n), callee, lo, hi),
           NEW u, NEW v, Completes(bytes, n, c, PushItem(c, u, Item(f, x.val)), v, x.end, hi)
    PROVE  Begins(bytes, n, c, f, callee, u, v, lo, hi)
<1>1. PICK rest \in Contents(bytes, n)[Window(c, x.end, hi)] :
        Filled(c, PushItem(c, u, Item(f, x.val)), rest) = v
  BY DEF Completes
<1>2. x.end \in Nat BY ValuePlace
<1>3. Window(c, x.end, hi) \in Windows(n) BY <1>2 DEF Window, Windows
<1>4. IsSeq(rest) BY <1>3, ContentsSeq
<1>5. Filled(c, u, <<Item(f, x.val)>> \o rest) = v BY <1>1, <1>4, FilledMore
<1>6. <<Item(f, x.val)>> \o rest \in ItemsAt(bytes, Contents(bytes, n), c, f, callee, lo, hi)
  <2> DEFINE C == Contents(bytes, n)
             V == ValueAt(bytes, C, callee, lo, hi)
             Of(y) == {<<Item(f, y.val)>> \o r : r \in C[Window(c, y.end, hi)]}
  <2>1. ItemsAt(bytes, C, c, f, callee, lo, hi) = UNION {Of(y) : y \in V} BY DEF ItemsAt
  <2>2. x \in V OBVIOUS
  <2>3. <<Item(f, x.val)>> \o rest \in Of(x) OBVIOUS
  <2> HIDE DEF V, Of
  <2>4. <<Item(f, x.val)>> \o rest \in UNION {Of(y) : y \in V} BY <2>2, <2>3
  <2> HIDE DEF C
  <2>5. <<Item(f, x.val)>> \o rest \in ItemsAt(bytes, C, c, f, callee, lo, hi)
    BY <2>1, <2>4
  <2> QED BY <2>5 DEF C
<1> QED BY <1>5, <1>6 DEF Begins

\* An element before others.
LEMMA ElementFirst ==
    ASSUME NEW n \in Nat, NEW bytes \in Spans(n), NEW c \in LoopCoders, c.kind = "array",
           NEW lo \in Nat, NEW hi \in 0..n, NEW end, NEW val,
           Found(end, val) \in ValueAt(bytes, Contents(bytes, n), c.elem, lo, hi),
           NEW u, NEW v, Completes(bytes, n, c, Append(u, val), v, end, hi)
    PROVE  Completes(bytes, n, c, u, v, lo, hi)
<1> DEFINE w == Window(c, lo, hi)
           x == Found(end, val)
<1>1. c.elem \in Coders BY SchemaAssumption DEF LoopCoders
<1>2. x.end = end /\ x.val = val BY DEF Found
<1>3. PushItem(c, u, Item(NoField, val)) = Append(u, val) BY DEF PushItem, Item
<1>4. lo < hi
  <2>1. x.end \in Nat /\ lo < x.end /\ x.end <= hi BY <1>1, ValuePlace
  <2> HIDE DEF x
  <2> QED BY <2>1, SMT
<1>5. w \in Windows(n) /\ w.coder = c /\ w.lo = lo /\ w.hi = hi BY DEF Window, Windows
<1>6. lo # hi /\ ~(lo > hi) BY <1>4, SMT
<1> HIDE DEF w, x
<1>7. Contents(bytes, n)[w]
        = ItemsAt(bytes, Contents(bytes, n), c, NoField, c.elem, lo, hi)
  <2>1. ContentsStep(bytes, Contents(bytes, n), w)
          = ItemsAt(bytes, Contents(bytes, n), c, NoField, c.elem, lo, hi)
    BY <1>4, <1>5, <1>6, Zenon DEF ContentsStep
  <2> QED BY <1>5, <2>1, ContentsAt
<1>8. \E items \in ItemsAt(bytes, Contents(bytes, n), c, NoField, c.elem, lo, hi) :
         Filled(c, u, items) = v
  <2>1. x \in ValueAt(bytes, Contents(bytes, n), c.elem, lo, hi) BY DEF x
  <2>2. Completes(bytes, n, c, PushItem(c, u, Item(NoField, x.val)), v, x.end, hi)
    BY <1>2, <1>3
  <2>3. \A y \in ValueAt(bytes, Contents(bytes, n), c.elem, lo, hi) :
          Completes(bytes, n, c, PushItem(c, u, Item(NoField, y.val)), v, y.end, hi)
            => Begins(bytes, n, c, NoField, c.elem, u, v, lo, hi)
    BY <1>1, ItemBefore
  <2> QED BY <2>1, <2>2, <2>3 DEF Begins
<1> QED BY <1>7, <1>8 DEF Completes, w

\* A field before others.
LEMMA FieldFirst ==
    ASSUME NEW n \in Nat, NEW bytes \in Spans(n), NEW c \in LoopCoders, c.kind = "message",
           NEW f \in c.fields, NumberOf(Key(f)) # 0,
           NEW lo \in Nat, NEW hi \in 0..n, NEW mid, NEW end, NEW val,
           Found(mid, Key(f)) \in VarintAt(bytes, lo, hi, KeyWord, KeyWord),
           Found(end, val) \in ValueAt(bytes, Contents(bytes, n), f.coder, mid, hi),
           NEW u, NEW v, Completes(bytes, n, c, PushField(u, f, val), v, end, hi)
    PROVE  Completes(bytes, n, c, u, v, lo, hi)
<1> DEFINE w == Window(c, lo, hi)
           k == Found(mid, Key(f))
           x == Found(end, val)
           C == Contents(bytes, n)
           known == {g \in c.fields : Key(g) = Key(f)}
<1>1. f.coder \in Coders /\ KeyWord \in Nat \ {0} BY SchemaAssumption DEF LoopCoders
<1>2. x.end = end /\ x.val = val /\ k.end = mid /\ k.val = Key(f) BY DEF Found
<1>3. PushItem(c, u, Item(f, val)) = PushField(u, f, val) BY DEF PushItem, Item
<1>4. mid \in Nat /\ lo < hi
  <2>1. k.end \in Nat /\ lo < k.end /\ k.end <= hi BY <1>1, VarintPlace
  <2> HIDE DEF k
  <2> QED BY <1>2, <2>1, SMT
<1>5. w \in Windows(n) /\ w.coder = c /\ w.lo = lo /\ w.hi = hi BY DEF Window, Windows
<1>6. lo # hi /\ ~(lo > hi) /\ c.kind # "array" BY <1>4, SMT
<1> HIDE DEF w, k, x, C
<1>7. C[w] = UNION {FieldsAt(bytes, C, c, l.val, l.end, hi) :
                     l \in {m \in VarintAt(bytes, lo, hi, KeyWord, KeyWord) : NumberOf(m.val) # 0}}
  <2>1. ContentsStep(bytes, C, w)
          = UNION {FieldsAt(bytes, C, c, l.val, l.end, hi) :
                   l \in {m \in VarintAt(bytes, lo, hi, KeyWord, KeyWord) : NumberOf(m.val) # 0}}
    BY <1>4, <1>5, <1>6, Zenon DEF ContentsStep
  <2> QED BY <1>5, <2>1, ContentsAt DEF C
<1>8. PICK items \in ItemsAt(bytes, C, c, f, f.coder, mid, hi) : Filled(c, u, items) = v
  <2>1. x \in ValueAt(bytes, C, f.coder, mid, hi) BY DEF x, C
  <2>2. Completes(bytes, n, c, PushItem(c, u, Item(f, x.val)), v, x.end, hi)
    BY <1>2, <1>3
  <2>3. \E items \in ItemsAt(bytes, Contents(bytes, n), c, f, f.coder, mid, hi) :
            Filled(c, u, items) = v
    <3>1. \A y \in ValueAt(bytes, Contents(bytes, n), f.coder, mid, hi) :
            Completes(bytes, n, c, PushItem(c, u, Item(f, y.val)), v, y.end, hi)
              => Begins(bytes, n, c, f, f.coder, u, v, mid, hi)
      BY <1>1, <1>4, ItemBefore
    <3> QED BY <2>1, <2>2, <3>1 DEF C, Begins
  <2> QED BY <2>3 DEF C
<1>9. items \in FieldsAt(bytes, C, c, Key(f), mid, hi)
  <2>1. f \in known OBVIOUS
  <2>2. FieldsAt(bytes, C, c, Key(f), mid, hi)
          = UNION {ItemsAt(bytes, C, c, g, g.coder, mid, hi) : g \in known}
    BY <2>1, Zenon DEF FieldsAt
  <2> HIDE DEF known
  <2> QED BY <1>8, <2>1, <2>2
<1>10. k \in {m \in VarintAt(bytes, lo, hi, KeyWord, KeyWord) : NumberOf(m.val) # 0}
  BY <1>2 DEF k
<1>11. items \in C[w]
  <2> DEFINE K == {m \in VarintAt(bytes, lo, hi, KeyWord, KeyWord) : NumberOf(m.val) # 0}
             Of(l) == FieldsAt(bytes, C, c, l.val, l.end, hi)
  <2>1. k \in K /\ items \in Of(k) BY <1>2, <1>9, <1>10
  <2>2. C[w] = UNION {Of(l) : l \in K} BY <1>7
  <2> HIDE DEF K, Of
  <2> QED BY <2>1, <2>2
<1> QED BY <1>8, <1>11 DEF Completes, w, C

\* A field that the message does not have.
LEMMA FieldSkipped ==
    ASSUME NEW n \in Nat, NEW bytes \in Spans(n), NEW c \in LoopCoders, c.kind = "message",
           NEW key, NumberOf(key) # 0, \A f \in c.fields : Key(f) # key,
           NEW lo \in Nat, NEW hi \in 0..n, NEW mid, NEW end,
           Found(mid, key) \in VarintAt(bytes, lo, hi, KeyWord, KeyWord),
           end \in SkipEnds(bytes, WireOf(key), mid, hi),
           NEW u, NEW v, Completes(bytes, n, c, u, v, end, hi)
    PROVE  Completes(bytes, n, c, u, v, lo, hi)
<1> DEFINE w == Window(c, lo, hi)
           k == Found(mid, key)
           C == Contents(bytes, n)
           K == {m \in VarintAt(bytes, lo, hi, KeyWord, KeyWord) : NumberOf(m.val) # 0}
           Of(l) == FieldsAt(bytes, C, c, l.val, l.end, hi)
           E == SkipEnds(bytes, WireOf(key), mid, hi)
<1>1. KeyWord \in Nat \ {0} BY SchemaAssumption
<1>2. k.end = mid /\ k.val = key BY DEF Found
<1>3. mid \in Nat /\ lo < hi
  <2>1. k.end \in Nat /\ lo < k.end /\ k.end <= hi BY <1>1, VarintPlace
  <2> HIDE DEF k
  <2> QED BY <1>2, <2>1, SMT
<1>4. w \in Windows(n) /\ w.coder = c /\ w.lo = lo /\ w.hi = hi BY DEF Window, Windows
<1>5. lo # hi /\ ~(lo > hi) /\ c.kind # "array" BY <1>3, SMT
<1>6. PICK items \in C[Window(c, end, hi)] : Filled(c, u, items) = v BY DEF Completes
<1>7. k \in K BY <1>2
<1>8. end \in E OBVIOUS
<1>9. Of(k) = UNION {C[Window(c, e, hi)] : e \in E}
  <2>1. {f \in c.fields : Key(f) = key} = {} OBVIOUS
  <2> HIDE DEF k, C
  <2> QED BY <1>2, <2>1, Zenon DEF FieldsAt
<1> HIDE DEF w, k, C, E
<1>10. items \in Of(k) BY <1>6, <1>8, <1>9
<1>11. C[w] = UNION {Of(l) : l \in K}
  <2>1. ContentsStep(bytes, C, w) = UNION {Of(l) : l \in K} BY <1>3, <1>4, <1>5, Zenon DEF ContentsStep
  <2> QED BY <1>4, <2>1, ContentsAt DEF C
<1>12. items \in C[w]
  <2> HIDE DEF K, Of
  <2> QED BY <1>7, <1>10, <1>11
<1> QED BY <1>6, <1>12 DEF Completes, w, C

\* A length, and what it announces.
LEMMA LongValue ==
    ASSUME NEW n \in Nat, NEW bytes \in Spans(n), NEW c \in LoopCoders,
           NEW lo \in Nat, NEW hi \in 0..n, NEW mid, NEW len,
           Found(mid, len) \in VarintAt(bytes, lo, hi, LenWord, LenWord), mid + len <= hi,
           c.kind = "array" /\ c.reserves => len <= MaxReserve,
           NEW v, Completes(bytes, n, c, EmptyValue(c), v, mid, mid + len)
    PROVE  Found(mid + len, v) \in ValueAt(bytes, Contents(bytes, n), c, lo, hi)
<1> DEFINE l == Found(mid, len)
           C == Contents(bytes, n)
           L == {m \in LengthAt(bytes, lo, hi) :
                    c.kind = "array" /\ c.reserves => m.val <= MaxReserve}
           Of(m) == {Found(m.end + m.val, Filled(c, EmptyValue(c), items)) :
                        items \in C[Window(c, m.end, m.end + m.val)]}
<1>1. l.end = mid /\ l.val = len BY DEF Found
<1>2. l \in L
  <2> HIDE DEF l
  <2>1. l \in LengthAt(bytes, lo, hi) BY <1>1 DEF LengthAt, l
  <2> QED BY <1>1, <2>1
<1>3. Found(mid + len, v) \in Of(l)
  <2>1. PICK items \in C[Window(c, mid, mid + len)] : Filled(c, EmptyValue(c), items) = v
    BY DEF Completes
  <2> HIDE DEF l, C
  <2> QED BY <1>1, <2>1
<1>4. ValueAt(bytes, C, c, lo, hi) = UNION {Of(m) : m \in L}
  <2>1. c.kind # "varint" /\ c.kind # "fixed" BY DEF LoopCoders
  <2> HIDE DEF C
  <2> QED BY <2>1, Zenon DEF ValueAt
<1> HIDE DEF L, Of, l
<1> QED BY <1>2, <1>3, <1>4

\* Something is in a window only if it does not end before it begins.
LEMMA CompletesPlace ==
    ASSUME NEW n \in Nat, NEW bytes \in Spans(n), NEW c \in LoopCoders,
           NEW lo \in Nat, NEW hi \in 0..n, NEW u, NEW v, Completes(bytes, n, c, u, v, lo, hi)
    PROVE  lo <= hi
<1>1. SUFFICES ASSUME ~(lo <= hi) PROVE FALSE OBVIOUS
<1> DEFINE w == Window(c, lo, hi)
           C == Contents(bytes, n)
<1>2. w \in Windows(n) /\ w.lo = lo /\ w.hi = hi BY DEF Window, Windows
<1>3. C[w] # {} BY DEF Completes
<1>4. lo # hi /\ lo > hi /\ ~(lo < hi) BY <1>1, SMT
<1>5. C[w] = ContentsStep(bytes, C, w) BY <1>2, ContentsAt
<1> HIDE DEF C, w
<1>6. ContentsStep(bytes, C, w) = {} BY <1>2, <1>4, Zenon DEF ContentsStep
<1> QED BY <1>3, <1>5, <1>6
-----------------------------------------------------------------------------
(* Merging: the values of one message are pushed onto those of another.    *)

InsertStep(given, f, k) ==
    IF k = 0 THEN given.map ELSE MapInsert(given.coder, f[k - 1], given.elements[k])

Inserts == INSTANCE Recursion WITH Step <- InsertStep

InsertOf(c, m, elements) ==
    CHOOSE f : Inserts!Solves([coder |-> c, map |-> m, elements |-> elements], Nat, f)

\* The elements of a map, inserted one by one.
LEMMA InsertUp ==
    ASSUME NEW c, NEW m, NEW elements
    PROVE  /\ Inserted(c, m, elements) = InsertOf(c, m, elements)[Len(elements)]
           /\ InsertOf(c, m, elements)[0] = m
           /\ \A k \in Nat : InsertOf(c, m, elements)[k + 1]
                                = MapInsert(c, InsertOf(c, m, elements)[k], elements[k + 1])
<1> DEFINE id == [k \in Nat |-> k]
           g == [coder |-> c, map |-> m, elements |-> elements]
           insert == InsertOf(c, m, elements)
<1>1. Inserted(c, m, elements) = insert[Len(elements)]
  BY DEF Inserted, InsertOf, Inserts!Solves, InsertStep
<1>2. Inserts!Descends(g, Nat, id)
  <2>1. \A k \in Nat \ {0} : k - 1 \in Nat /\ id[k - 1] < id[k] BY Descending
  <2> HIDE DEF id, g
  <2> QED BY <2>1 DEF Inserts!Descends, InsertStep
<1>3. \E f : Inserts!Solves(g, Nat, f)
  <2>1. id \in [Nat -> Nat] BY Descending
  <2> HIDE DEF id, g
  <2> QED BY <1>2, <2>1, Inserts!RecursiveFunction
<1>4. Inserts!Solves(g, Nat, insert)
  <2>1. insert = CHOOSE f : Inserts!Solves(g, Nat, f) BY DEF InsertOf
  <2> HIDE DEF g, insert
  <2> QED BY <1>3, <2>1
<1>5. \A i \in Nat : insert[i] = IF i = 0 THEN m ELSE MapInsert(c, insert[i - 1], elements[i])
  <2> HIDE DEF insert
  <2> QED BY <1>4 DEF Inserts!Solves, InsertStep
<1>6. \A k \in Nat : k + 1 \in Nat /\ k + 1 # 0 /\ (k + 1) - 1 = k BY SMT
<1> HIDE DEF insert
<1>7. insert[0] = m BY <1>5
<1>8. ASSUME NEW k \in Nat PROVE insert[k + 1] = MapInsert(c, insert[k], elements[k + 1])
  BY <1>5, <1>6
<1> QED BY <1>1, <1>7, <1>8 DEF insert

\* An element after others.
LEMMA InsertedMore ==
    ASSUME NEW c, NEW m, NEW s, NEW t, NEW n \in Nat, Len(s) = n, Len(t) = n + 1,
           \A k \in 1..n : t[k] = s[k]
    PROVE  Inserted(c, m, t) = MapInsert(c, Inserted(c, m, s), t[n + 1])
<1> DEFINE P == {k \in Nat : k <= n => InsertOf(c, m, t)[k] = InsertOf(c, m, s)[k]}
<1>0. \A x : /\ Inserted(c, m, x) = InsertOf(c, m, x)[Len(x)]
             /\ InsertOf(c, m, x)[0] = m
             /\ \A k \in Nat : InsertOf(c, m, x)[k + 1] = MapInsert(c, InsertOf(c, m, x)[k], x[k + 1])
  BY InsertUp
<1>1. 0 \in P BY <1>0
<1>2. ASSUME NEW k \in Nat, k \in P PROVE k + 1 \in P
  <2>1. SUFFICES ASSUME k + 1 <= n PROVE InsertOf(c, m, t)[k + 1] = InsertOf(c, m, s)[k + 1]
    BY SMT
  <2>2. k <= n /\ k + 1 \in 1..n BY <2>1, SMT
  <2>3. InsertOf(c, m, t)[k + 1] = MapInsert(c, InsertOf(c, m, t)[k], t[k + 1])
        /\ InsertOf(c, m, s)[k + 1] = MapInsert(c, InsertOf(c, m, s)[k], s[k + 1])
    BY <1>0
  <2> QED BY <1>2, <2>2, <2>3
<1>3. n \in P
  <2> HIDE DEF P
  <2> QED BY <1>1, <1>2, Powers!Induct
<1>4. InsertOf(c, m, t)[n] = InsertOf(c, m, s)[n]
  <2>1. n <= n BY SMT
  <2> QED BY <1>3, <2>1
<1>5. Inserted(c, m, t) = MapInsert(c, InsertOf(c, m, t)[n], t[n + 1]) BY <1>0
<1>6. Inserted(c, m, s) = InsertOf(c, m, s)[n] BY <1>0
<1> QED BY <1>4, <1>5, <1>6

\* No elements leave the map as it is.
LEMMA InsertedNone == ASSUME NEW c, NEW m PROVE Inserted(c, m, <<>>) = m
<1>1. Len(<<>>) = 0 BY SMT
<1> QED BY <1>1, InsertUp

\* What pushing a value makes of what the field holds.
Pushed(f, held, v) ==
    CASE f.attr = "singular" -> <<v>>
      [] f.attr = "repeated" -> Append(held, v)
      [] f.attr = "map"      -> MapInsert(f.coder, held, v)

\* Pushing a value changes the one field.
LEMMA PushFieldIs ==
    ASSUME NEW m, NEW f, NEW v
    PROVE  PushField(m, f, v) = [m EXCEPT ![f.number] = Pushed(f, m[f.number], v)]
BY DEF PushField, Pushed

Joined(us, u, s) == us = u \o s
Added(t, s, e) == t = Append(s, e)

\* An element is added to a sequence that others are before.
LEMMA AppendConcat ==
    ASSUME NEW T, NEW u, NEW s, NEW e, u \in Seq(T) /\ s \in Seq(T) /\ e \in T,
           NEW us, Joined(us, u, s), NEW t, Added(t, s, e)
    PROVE  \E l : Added(l, us, e) /\ Joined(l, u, t)
<1>1. /\ us \in Seq(T) /\ Len(us) = Len(u) + Len(s) /\ Len(u) \in Nat /\ Len(s) \in Nat
      /\ \A i \in 1 .. Len(us) : us[i] = IF i <= Len(u) THEN u[i] ELSE s[i - Len(u)]
  BY SMT DEF Joined
<1>2. /\ t \in Seq(T) /\ Len(t) = Len(s) + 1 /\ t[Len(s) + 1] = e
      /\ \A i \in 1 .. Len(s) : t[i] = s[i]
  BY SMT DEF Added
<1> DEFINE l == Append(us, e)
           r == u \o t
           n == Len(us) + 1
<1>3. l \in Seq(T) /\ Len(l) = n /\ l[n] = e /\ \A i \in 1 .. Len(us) : l[i] = us[i]
  <2>1. us \in Seq(T) BY <1>1
  <2> QED BY <2>1, SMT
<1>4. /\ r \in Seq(T) /\ Len(r) = n
      /\ \A i \in 1..n : r[i] = IF i <= Len(u) THEN u[i] ELSE t[i - Len(u)]
  <2>1. t \in Seq(T) BY <1>2
  <2>2. /\ r \in Seq(T) /\ Len(r) = Len(u) + Len(t)
        /\ \A i \in 1 .. Len(r) : r[i] = IF i <= Len(u) THEN u[i] ELSE t[i - Len(u)]
    BY <2>1, SMT
  <2>3. Len(u) + Len(t) = n BY <1>1, <1>2, SMT
  <2> QED BY <2>2, <2>3
<1> HIDE DEF l, r
<1>5. \A i \in 1..n : l[i] = r[i]
  <2> TAKE i \in 1..n
  <2>1. CASE i = n
    <3>1. ~(i <= Len(u)) /\ i - Len(u) = Len(s) + 1 BY <1>1, <2>1, SMT
    <3> QED BY <1>2, <1>3, <1>4, <2>1, <3>1
  <2>2. CASE i # n
    <3> DEFINE x == Len(u)
               y == Len(s)
    <3>1. i \in 1 .. Len(us) /\ (~(i <= x) => i - x \in 1..y)
      <4>1. Len(us) = x + y /\ x \in Nat /\ y \in Nat BY <1>1
      <4> HIDE DEF x, y
      <4> QED BY <2>2, <4>1, SMT
    <3> QED BY <1>1, <1>2, <1>3, <1>4, <3>1
  <2> QED BY <2>1, <2>2
<1>6. l = [i \in 1..n |-> l[i]] /\ r = [i \in 1..n |-> r[i]]
  <2>1. l = [i \in 1..n |-> l[i]] BY <1>3, SMT
  <2>2. r = [i \in 1..n |-> r[i]] BY <1>4, SMT
  <2> QED BY <2>1, <2>2
<1>7. [i \in 1..n |-> l[i]] = [i \in 1..n |-> r[i]] BY <1>5
<1> QED BY <1>6, <1>7 DEF l, r, Added, Joined

\* A value is merged as it is pushed, if the field that it comes from holds
\* what pushing it made.
LEMMA MergePush ==
    ASSUME NEW f, f.attr \in Attributes, NEW S, NEW s \in Seq(S), NEW e \in S,
           Pushed(f, s, e) = Append(s, e), NEW u, f.attr = "repeated" => IsSeq(u)
    PROVE  Pushed(f, MergeField(f, u, s), e) = MergeField(f, u, Append(s, e))
<1> DEFINE t == Append(s, e)
<1>1. Len(s) \in Nat /\ Len(t) = Len(s) + 1 /\ t[Len(s) + 1] = e /\ t # <<>>
      /\ \A k \in 1 .. Len(s) : t[k] = s[k]
  <2>1. t \in Seq(S) /\ Len(s) \in Nat /\ Len(t) = Len(s) + 1 /\ t[Len(s) + 1] = e
        /\ \A k \in 1 .. Len(s) : t[k] = s[k]
    BY SMT
  <2>2. Len(<<>>) = 0 BY SMT
  <2>3. Len(t) # 0
    <3> HIDE DEF t
    <3> QED BY <2>1, SMT
  <2> QED BY <2>1, <2>2, <2>3
<1>2. CASE f.attr = "singular"
  <2>1. Pushed(f, MergeField(f, u, s), e) = <<e>> /\ Pushed(f, s, e) = <<e>> BY <1>2 DEF Pushed
  <2>2. MergeField(f, u, t) = t BY <1>1, <1>2 DEF MergeField
  <2> QED BY <2>1, <2>2
<1>3. CASE f.attr = "repeated"
  <2>1. MergeField(f, u, s) = u \o s /\ MergeField(f, u, t) = u \o t BY <1>3 DEF MergeField
  <2>2. Pushed(f, u \o s, e) = Append(u \o s, e) BY <1>3 DEF Pushed
  <2>3. PICK R : u \in Seq(R) BY <1>3 DEF IsSeq
  <2>4. Append(u \o s, e) = u \o t
    <3>1. u \in Seq(S \cup R) BY <2>3, SMT
    <3>2. s \in Seq(S \cup R) BY SMT
    <3>3. e \in S \cup R OBVIOUS
    <3>4. PICK Q : u \in Seq(Q) /\ s \in Seq(Q) /\ e \in Q BY <3>1, <3>2, <3>3, Zenon
    <3> DEFINE us == u \o s
    <3>5. Joined(us, u, s) /\ Added(t, s, e) BY DEF Joined, Added
    <3> HIDE DEF us, t
    <3>6. \E l : Added(l, us, e) /\ Joined(l, u, t) BY <3>4, <3>5, AppendConcat
    <3>7. Append(us, e) = u \o t BY <3>6 DEF Joined, Added
    <3> QED BY <3>7 DEF us
  <2> QED BY <2>1, <2>2, <2>4
<1>4. CASE f.attr = "map"
  <2>1. MergeField(f, u, s) = Inserted(f.coder, u, s) /\ MergeField(f, u, t) = Inserted(f.coder, u, t)
    BY <1>4 DEF MergeField
  <2>2. Inserted(f.coder, u, t) = MapInsert(f.coder, Inserted(f.coder, u, s), e)
    <3> HIDE DEF t
    <3> QED BY <1>1, InsertedMore
  <2>3. Pushed(f, Inserted(f.coder, u, s), e) = MapInsert(f.coder, Inserted(f.coder, u, s), e) BY <1>4 DEF Pushed
  <2> QED BY <2>1, <2>2, <2>3
<1> QED BY <1>2, <1>3, <1>4 DEF Attributes

\* A field is merged with one that holds nothing.
LEMMA MergeFieldNone ==
    ASSUME NEW f, f.attr \in Attributes, NEW u, f.attr = "repeated" => IsSeq(u)
    PROVE  MergeField(f, u, <<>>) = u
<1>1. CASE f.attr = "singular" BY <1>1 DEF MergeField
<1>2. CASE f.attr = "repeated"
  <2>1. PICK R : u \in Seq(R) BY <1>2 DEF IsSeq
  <2>2. u \o <<>> = u BY <2>1, SMT
  <2> QED BY <1>2, <2>2 DEF MergeField
<1>3. CASE f.attr = "map" BY <1>3, InsertedNone DEF MergeField
<1> QED BY <1>1, <1>2, <1>3 DEF Attributes

\* A map from the fields of c to what they hold.
IsMessage(c, msg) ==
    /\ msg = [k \in NumbersOf(c) |-> msg[k]]
    /\ \A f \in c.fields : f.attr = "repeated" => IsSeq(msg[f.number])

\* Messages are merged field by field.
LEMMA MergeAt ==
    ASSUME NEW c \in Coders, c.kind = "message", NEW f \in c.fields, NEW u, NEW v
    PROVE  MergeMessages(c, u, v)[f.number] = MergeField(f, u[f.number], v[f.number])
<1>1. f.number \in NumbersOf(c) BY DEF NumbersOf
<1>2. (CHOOSE g \in c.fields : g.number = f.number) = f
  <2>1. \A g \in c.fields : g.number = f.number => g = f BY SchemaAssumption
  <2> QED BY <2>1
<1> QED BY <1>1, <1>2 DEF MergeMessages

\* Merging with the empty message changes nothing.
LEMMA MergeNothing ==
    ASSUME NEW c \in Coders, c.kind = "message", NEW u, IsMessage(c, u)
    PROVE  MergeMessages(c, u, EmptyMessage(c)) = u
<1> DEFINE m == MergeMessages(c, u, EmptyMessage(c))
<1>1. m = [k \in NumbersOf(c) |-> m[k]] BY DEF MergeMessages
<1>2. \A k \in NumbersOf(c) : m[k] = u[k]
  <2> TAKE k \in NumbersOf(c)
  <2>1. PICK f \in c.fields : f.number = k BY DEF NumbersOf
  <2>2. EmptyMessage(c)[k] = <<>> BY DEF EmptyMessage
  <2>3. f.attr \in Attributes BY SchemaAssumption
  <2>4. m[k] = MergeField(f, u[k], <<>>) BY <2>1, <2>2, MergeAt
  <2>5. f.attr = "repeated" => IsSeq(u[k]) BY <2>1 DEF IsMessage
  <2> QED BY <2>3, <2>4, <2>5, MergeFieldNone
<1>3. u = [k \in NumbersOf(c) |-> u[k]] BY DEF IsMessage
<1> HIDE DEF m
<1>4. m = [k \in NumbersOf(c) |-> u[k]] BY <1>1, <1>2
<1> QED BY <1>3, <1>4 DEF m

\* The empty message is one.
LEMMA EmptyIsMessage == ASSUME NEW c PROVE IsMessage(c, EmptyMessage(c))
<1>1. EmptyMessage(c) = [k \in NumbersOf(c) |-> EmptyMessage(c)[k]] BY DEF EmptyMessage
<1>2. ASSUME NEW f \in c.fields PROVE IsSeq(EmptyMessage(c)[f.number])
  <2>1. f.number \in NumbersOf(c) BY DEF NumbersOf
  <2>2. EmptyMessage(c)[f.number] = <<>> BY <2>1 DEF EmptyMessage
  <2>3. <<>> \in Seq({}) BY SMT
  <2> QED BY <2>2, <2>3 DEF IsSeq
<1> QED BY <1>1, <1>2 DEF IsMessage

\* Messages that are merged are one.
LEMMA MergeIsMessage ==
    ASSUME NEW c \in Coders, c.kind = "message", NEW u, NEW v, IsMessage(c, u), IsMessage(c, v)
    PROVE  IsMessage(c, MergeMessages(c, u, v))
<1> DEFINE m == MergeMessages(c, u, v)
<1>1. m = [k \in NumbersOf(c) |-> m[k]] BY DEF MergeMessages
<1>2. ASSUME NEW f \in c.fields, f.attr = "repeated" PROVE IsSeq(m[f.number])
  <2> DEFINE x == u[f.number]
             y == v[f.number]
  <2>1. m[f.number] = x \o y BY <1>2, MergeAt DEF MergeField
  <2>2. IsSeq(x) /\ IsSeq(y) BY <1>2 DEF IsMessage
  <2> HIDE DEF x, y, m
  <2>3. PICK R, S : x \in Seq(R) /\ y \in Seq(S) BY <2>2 DEF IsSeq
  <2> DEFINE T == R \cup S
  <2>4. x \in Seq(T) BY <2>3, SMT
  <2>5. y \in Seq(T) BY <2>3, SMT
  <2> HIDE DEF T
  <2>6. x \o y \in Seq(T) BY <2>4, <2>5, SMT
  <2> QED BY <2>1, <2>6 DEF IsSeq
<1> HIDE DEF m
<1>3. IsMessage(c, m) BY <1>1, <1>2 DEF IsMessage
<1> QED BY <1>3 DEF m
=============================================================================
