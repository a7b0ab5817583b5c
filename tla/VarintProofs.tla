---------------------------- MODULE VarintProofs ----------------------------
(***************************************************************************)
(* Proofs about Varint, for every Base, word width and buffer.  (Of the    *)
(* module on the wire format only the arithmetic of bytes is used.)        *)
(***************************************************************************)
EXTENDS Varint, WireGrammarProofs

USE BaseAssumption, VarintAssumption

-----------------------------------------------------------------------------
(* Arithmetic on groups.                                                   *)

\* Shifting a group out keeps a value of T in T.
LEMMA DivWord ==
    ASSUME NEW x \in 0 .. Word - 1
    PROVE  x \div Base \in 0 .. Word - 1
<1>1. x \in Nat OBVIOUS
<1>2. x \div Base \in Nat /\ x \div Base <= x BY <1>1, DivMod
<1> HIDE VarintAssumption
<1> DEFINE q == x \div Base
<1>3. q \in Nat /\ q <= x BY <1>2
<1>4. Word \in Nat BY VarintAssumption
<1> HIDE DEF q
<1>5. q \in 0 .. Word - 1 BY <1>3, <1>4, SMT
<1> QED BY <1>5 DEF q

\* What a byte contributes keeps n in range.
LEMMA AccumulateType ==
    ASSUME n \in 0 .. Word - 1, scale \in Nat, NEW b \in Byte
    PROVE  Accumulate(n, scale, b, Word, ShiftWord) \subseteq 0 .. Word - 1
<1>1. b % Base \in Nat BY DivMod DEF Byte
<1>2. (b % Base) * scale \in Nat BY <1>1, SMT
<1>3. (n + (b % Base) * scale) % Word \in 0 .. Word - 1
  <2> DEFINE y == n + (b % Base) * scale
  <2>1. y \in Nat BY <1>2
  <2> HIDE DEF y
  <2>2. y % Word \in 0 .. Word - 1 BY <2>1
  <2> QED BY <2>2 DEF y
<1> QED BY <1>3 DEF Accumulate

-----------------------------------------------------------------------------
(* Type correctness.                                                       *)

\* Every variable keeps its type: in particular every position a call on a
\* span reaches lies in the span, and n never leaves the range of T.
THEOREM TypeCorrect == Spec => []TypeOK
<1>1. Init => TypeOK
  BY DEF Init, TypeOK, Modes, Calls, Statuses
<1>2. TypeOK /\ [Next]_vars => TypeOK'
  <2> SUFFICES ASSUME TypeOK, [Next]_vars PROVE TypeOK'
    OBVIOUS
  <2> USE DEF TypeOK, Modes, Calls, Statuses
  <2>1. ASSUME NEW v \in Values, NEW m \in Modes, NEW e \in 0..Capacity,
               CallEncode(v, m, e)
        PROVE  TypeOK'
    BY <2>1, SMT DEF CallEncode, Enter
  <2>2. ASSUME NEW v \in Values, CallEncodeSkip(v) PROVE TypeOK'
    BY <2>2, SMT DEF CallEncodeSkip, Enter
  <2>3. ASSUME NEW m \in Modes, NEW e \in 0..Capacity, CallDecode(m, e)
        PROVE  TypeOK'
    BY <2>3, SMT DEF CallDecode, Enter
  <2>4. ASSUME NEW m \in Modes, NEW e \in 0..Capacity, CallDecodeSkip(m, e)
        PROVE  TypeOK'
    BY <2>4, SMT DEF CallDecodeSkip, Enter
  <2>5. CASE Fail BY <2>5 DEF Fail
  <2>6. CASE Overrun BY <2>6 DEF Overrun
  <2>7. CASE EncodeGroup
    <3>1. n \div Base \in 0 .. Word - 1 BY DivWord
    <3>2. i \in Index /\ i + 1 \in 0..Capacity
      BY <2>7, SMT DEF EncodeGroup, InSpan, Index
    <3>3. GroupByte(n) \in Byte BY GroupByteType
    <3>4. buf' \in [Index -> Byte] BY <2>7, <3>3 DEF EncodeGroup
    <3>5. left' \in [0..Capacity -> 0 .. Word - 1]
      BY <2>7, <3>1 DEF EncodeGroup
    <3>6. n' \in 0 .. Word - 1 /\ len' \in 0..Capacity /\ status' \in Statuses
      BY <2>7, <3>1, <3>2 DEF EncodeGroup
    <3>7. i' \in Nat /\ (call' # "size" => i' <= limit')
      BY <2>7, SMT DEF EncodeGroup, InSpan
    <3> QED BY <2>7, <3>4, <3>5, <3>6, <3>7 DEF EncodeGroup
  <2>8. CASE DecodeGroup
    <3>1. buf[i] \in Byte
      BY <2>8, SMT DEF DecodeGroup, InSpan, Index
    <3>2. n' \in 0 .. Word - 1
      BY <2>8, <3>1, AccumulateType DEF DecodeGroup
    <3>3. scale * Base \in Nat \ {0} BY SMT
    <3>4. i' \in Nat /\ i' <= limit'
      BY <2>8, SMT DEF DecodeGroup, InSpan
    <3> QED BY <2>8, <3>2, <3>3, <3>4 DEF DecodeGroup
  <2>9. CASE SkipGroup BY <2>9, SMT DEF SkipGroup, InSpan
  <2>10. CASE SizeGroup
    <3>1. n \div Base \in 0 .. Word - 1 BY DivWord
    <3> QED BY <2>10, <3>1 DEF SizeGroup
  <2>11. CASE UNCHANGED vars BY <2>11 DEF vars
  <2> QED
    BY <2>1, <2>2, <2>3, <2>4, <2>5, <2>6, <2>7, <2>8, <2>9, <2>10, <2>11
    DEF Next, Start, Step
<1> QED BY <1>1, <1>2, PTL DEF Spec

-----------------------------------------------------------------------------
(* The round trip.                                                         *)

\* Of a value v, x has been put together and l is left, in units of s.
Split(v, s, l, x) == x + s * l = v /\ (l # 0 \/ s = 1)

\* The next group of l has moved to x, by a shift that is a defined one.
Moved(v, s, l, x) ==
    s < ShiftWord /\ ((x + (l % Base) * s) % Word) + (s * Base) * (l \div Base) = v

\* One turn of the decode loop moves a group from the part still to be read
\* to n, and the shift it takes is a defined one.
LEMMA MoveGroup ==
    ASSUME NEW v \in 0 .. Word - 1, NEW s \in Nat \ {0}, NEW l \in Nat,
           NEW x \in Nat, Split(v, s, l, x)
    PROVE  Moved(v, s, l, x)
<1> USE DEF Split, Moved
<1> DEFINE q == l \div Base
           r == l % Base
<1>1. q \in Nat /\ r \in Nat /\ l = Base * q + r
  BY DivMod
<1>2. s < ShiftWord
  <2>1. CASE s = 1 BY <2>1, SMT
  <2>2. CASE l # 0
    <3>1. s <= s * l BY <2>2, SMT
    <3>2. s * l <= v BY SMT
    <3> QED BY <3>1, <3>2, SMT
  <2> QED BY <2>1, <2>2
<1> HIDE DEF q, r
<1>3. s * l = (s * Base) * q + r * s
  BY <1>1, SMT
<1>4. (s * Base) * q \in Nat /\ r * s \in Nat
  BY <1>1, SMT
<1>5. x + r * s \in 0 .. Word - 1
  BY <1>3, <1>4, SMT
<1>6. (x + r * s) % Word = x + r * s
  <2> DEFINE y == x + r * s
  <2>1. y \in 0 .. Word - 1 BY <1>5
  <2> HIDE DEF y
  <2>2. y % Word = y BY <2>1, SMT
  <2> QED BY <2>2 DEF y
<1> QED BY <1>2, <1>3, <1>4, <1>6, SMT DEF q, r

\* left[k] is zero exactly at the end of the encoding (or, for 0, at its start).
LEMMA LeftAt ==
    ASSUME TypeOK, EncodingComplete, len > 0, NEW k \in 0 .. len - 1
    PROVE  /\ left[k] \in 0 .. Word - 1 /\ left[k + 1] = left[k] \div Base
           /\ buf[k] = GroupByte(left[k])
           /\ k # 0 => left[k] # 0
           /\ left[k + 1] = 0 <=> k + 1 = len
<1>1. Groups(len) /\ Unfinished(len - 1) /\ left[len] = 0
  BY DEF EncodingComplete
<1>2. k \in 0..Capacity /\ k \in Nat /\ len \in Nat /\ k < len BY SMT DEF TypeOK
<1>3. left[k] \in 0 .. Word - 1 BY <1>2 DEF TypeOK
<1>4. left[k + 1] = left[k] \div Base /\ buf[k] = GroupByte(left[k])
  BY <1>1 DEF Groups
<1>5. k # 0 => left[k] # 0 BY <1>1, <1>2, SMT DEF Unfinished
<1>6. k + 1 # len => left[k + 1] # 0
  <2>1. k + 1 # len => k + 1 \in 1 .. len - 1 BY <1>2, SMT
  <2> QED BY <2>1, <1>1 DEF Unfinished
<1> QED BY <1>1, <1>3, <1>4, <1>5, <1>6

\* Starting a call touches neither the encoding nor its history, unless it is
\* an encode, which starts them over.
LEMMA StartKeeps ==
    ASSUME TypeOK, RoundTripInv, Start
    PROVE  RoundTripInv'
<1> USE DEF TypeOK, RoundTripInv, Enter, NoOverrun
<1>1. ASSUME NEW v \in Values, NEW m \in Modes, NEW e \in 0..Capacity,
             CallEncode(v, m, e)
      PROVE  RoundTripInv'
  BY <1>1, SMT DEF CallEncode, EncodingComplete, Encoding, Reading, Sizing,
                   Groups, Unfinished
<1>2. ASSUME NEW v \in Values, CallEncodeSkip(v)
      PROVE  RoundTripInv'
  <2>1. EncodingComplete' BY <1>2 DEF CallEncodeSkip, EncodingComplete, Groups, Unfinished
  <2>2. Sizing' BY <1>2, SMT DEF CallEncodeSkip, Sizing, Within
  <2> QED BY <1>2, <2>1, <2>2 DEF CallEncodeSkip, Encoding, Reading
<1>3. ASSUME NEW m \in Modes, NEW e \in 0..Capacity, CallDecode(m, e)
      PROVE  RoundTripInv'
  <2>1. EncodingComplete' BY <1>3 DEF CallDecode, EncodingComplete, Groups, Unfinished
  <2>2. Reading' BY <1>3, SMT DEF CallDecode, Reading, Within
  <2> QED BY <1>3, <2>1, <2>2 DEF CallDecode, Encoding, Sizing
<1>4. ASSUME NEW m \in Modes, NEW e \in 0..Capacity, CallDecodeSkip(m, e)
      PROVE  RoundTripInv'
  <2>1. EncodingComplete' BY <1>4 DEF CallDecodeSkip, EncodingComplete, Groups, Unfinished
  <2>2. Reading' BY <1>4, SMT DEF CallDecodeSkip, Reading, Within
  <2> QED BY <1>4, <2>1, <2>2 DEF CallDecodeSkip, Encoding, Sizing
<1> QED BY <1>1, <1>2, <1>3, <1>4 DEF Start

\* A turn of the encode loop adds one group to those already written.
LEMMA EncodeKeeps ==
    ASSUME TypeOK, RoundTripInv, EncodeGroup
    PROVE  RoundTripInv'
<1> USE DEF RoundTripInv, NoOverrun
<1>1. /\ call = "encode" /\ status = "run" /\ len = 0
      /\ n = left[i] /\ Groups(i) /\ Unfinished(i)
  BY DEF EncodeGroup, Encoding
<1>2. i \in Nat /\ i \in Index /\ i + 1 \in 0..Capacity
  BY SMT DEF EncodeGroup, InSpan, TypeOK, Index
<1>3. /\ left' = [left EXCEPT ![i + 1] = n'] /\ buf' = [buf EXCEPT ![i] = GroupByte(n)]
      /\ n' = n \div Base /\ i' = i + 1 /\ call' = "encode"
  BY <1>1 DEF EncodeGroup
<1>4. \A k \in 0..i : left'[k] = left[k]
  BY <1>2, <1>3, SMT DEF TypeOK
<1>5. left'[i + 1] = n'
  BY <1>2, <1>3 DEF TypeOK
<1>6. ASSUME NEW k \in 0..i
      PROVE  left'[k + 1] = left'[k] \div Base /\ buf'[k] = GroupByte(left'[k])
  <2>1. CASE k = i
    <3>1. buf'[i] = GroupByte(n) BY <1>2, <1>3 DEF TypeOK
    <3>2. left'[i] = n BY <1>1, <1>2, <1>4, SMT
    <3> QED BY <2>1, <1>3, <1>5, <3>1, <3>2
  <2>2. CASE k # i
    <3>1. k \in 0 .. i - 1 /\ k + 1 \in 0..i /\ k \in 0..i
      BY <1>2, <2>2, SMT
    <3>2. buf'[k] = buf[k] BY <1>2, <1>3, <3>1, SMT DEF TypeOK, Index
    <3>3. left[k + 1] = left[k] \div Base /\ buf[k] = GroupByte(left[k])
      BY <1>1, <3>1 DEF Groups
    <3> QED BY <3>1, <3>2, <3>3, <1>4
  <2> QED BY <2>1, <2>2
<1>7. \A k \in 1..i : left'[k] # 0
  BY <1>1, <1>2, <1>4, SMT DEF Unfinished
<1>8. CASE n' = 0
  <2>1. len' = i + 1 /\ status' = "ok" BY <1>8 DEF EncodeGroup
  <2>2. (i + 1) - 1 = i BY <1>2, SMT
  <2>3. Groups(len)' BY <1>6, <2>1, <2>2 DEF Groups, GroupByte
  <2>4. Unfinished(len - 1)' BY <1>7, <2>1, <2>2 DEF Unfinished
  <2> QED BY <1>3, <1>5, <1>8, <2>1, <2>3, <2>4
          DEF EncodingComplete, Encoding, Reading, Sizing
<1>9. CASE n' # 0
  <2>1. len' = 0 /\ status' = "run" BY <1>9 DEF EncodeGroup
  <2>2. n' = left'[i'] BY <1>3, <1>5
  <2>3. Groups(i)'
    <3>1. (i + 1) - 1 = i BY <1>2, SMT
    <3> QED BY <1>3, <1>6, <3>1 DEF Groups, GroupByte
  <2>4. Unfinished(i)'
    <3>1. \A k \in 1 .. i + 1 : k \in 1..i \/ k = i + 1 BY <1>2, SMT
    <3> QED BY <1>3, <1>5, <1>7, <1>9, <3>1 DEF Unfinished
  <2> QED BY <1>3, <2>1, <2>2, <2>3, <2>4, SMT
          DEF EncodingComplete, Encoding, Reading, Sizing
<1> QED BY <1>8, <1>9

\* A turn of the decode loop stays inside the encoding and keeps the sum.
LEMMA DecodeKeeps ==
    ASSUME TypeOK, RoundTripInv, DecodeGroup
    PROVE  RoundTripInv'
<1> USE DEF RoundTripInv, NoOverrun
<1>1. /\ call = "decode" /\ call' = "decode" /\ status = "run"
      /\ i' = i + 1 /\ scale' = scale * Base /\ n' \in Accumulate(n, scale, buf[i], Word, ShiftWord)
      /\ status' = IF Continues(buf[i]) THEN "run" ELSE "ok"
      /\ UNCHANGED <<buf, left, len, limit>>
  BY DEF DecodeGroup
<1>2. EncodingComplete' BY <1>1 DEF EncodingComplete, Groups, Unfinished
<1>3. ASSUME len > 0 PROVE Reading'
  <2>1. i <= len /\ i # len /\ n + scale * left[i] = left[0] /\ (i = 0 => scale = 1)
    BY <1>1, <1>3 DEF Reading, Within
  <2>2. i \in 0 .. len - 1 /\ i + 1 \in Nat /\ i + 1 <= len /\ i + 1 # 0
    BY <2>1, SMT DEF TypeOK
  <2>3. /\ left[i] \in 0 .. Word - 1 /\ left[i + 1] = left[i] \div Base
        /\ buf[i] = GroupByte(left[i]) /\ (i # 0 => left[i] # 0)
        /\ left[i + 1] = 0 <=> i + 1 = len
    BY <2>2, <1>3, LeftAt
  <2>4. left[0] \in 0 .. Word - 1 BY SMT DEF TypeOK
  <2>5. left[i] \in Nat /\ n \in Nat /\ scale \in Nat \ {0} BY <2>3, SMT DEF TypeOK
  <2>6. /\ buf[i] % Base = left[i] % Base
        /\ Continues(buf[i]) <=> left[i + 1] # 0
    BY <2>3, <2>5, GroupByteRead
  <2>7. /\ scale < ShiftWord
        /\ ((n + (left[i] % Base) * scale) % Word) + (scale * Base) * (left[i] \div Base) = left[0]
    <3>1. left[i] # 0 \/ scale = 1 BY <2>1, <2>3
    <3>2. Split(left[0], scale, left[i], n) BY <2>1, <3>1 DEF Split
    <3>3. Moved(left[0], scale, left[i], n) BY <2>4, <2>5, <3>2, MoveGroup
    <3> QED BY <3>3 DEF Moved
  <2>8. n' = (n + (left[i] % Base) * scale) % Word
    BY <1>1, <2>6, <2>7 DEF Accumulate
  <2>9. n' + scale' * left'[i'] = left'[0]
    BY <1>1, <2>3, <2>7, <2>8
  <2>10. Within' BY <1>1, <2>2, <2>3, <2>6 DEF Within
  <2> QED BY <1>1, <2>2, <2>9, <2>10 DEF Reading
<1>4. Reading' BY <1>1, <1>3, SMT DEF Reading, TypeOK
<1> QED BY <1>1, <1>2, <1>4 DEF Encoding, Sizing

\* A turn of the decode_skip loop stays inside the encoding.
LEMMA SkipKeeps ==
    ASSUME TypeOK, RoundTripInv, SkipGroup
    PROVE  RoundTripInv'
<1> USE DEF RoundTripInv, NoOverrun
<1>1. /\ call = "skip" /\ call' = "skip" /\ status = "run" /\ i' = i + 1
      /\ status' = IF Continues(buf[i]) THEN "run" ELSE "ok"
      /\ UNCHANGED <<buf, left, len, limit, scale>>
  BY DEF SkipGroup
<1>2. EncodingComplete' BY <1>1 DEF EncodingComplete, Groups, Unfinished
<1>3. ASSUME len > 0 PROVE Reading'
  <2>1. i \in 0 .. len - 1 /\ i + 1 <= len /\ i + 1 # 0
    BY <1>1, <1>3, SMT DEF Reading, Within, TypeOK
  <2>2. /\ left[i] \in Nat /\ left[i + 1] = left[i] \div Base
        /\ buf[i] = GroupByte(left[i])
        /\ left[i + 1] = 0 <=> i + 1 = len
    BY <2>1, <1>3, LeftAt
  <2>3. Continues(buf[i]) <=> left[i + 1] # 0
    BY <2>2, GroupByteRead
  <2>4. Within' BY <1>1, <2>1, <2>2, <2>3 DEF Within
  <2> QED BY <1>1, <2>1, <2>4 DEF Reading
<1>4. Reading' BY <1>1, <1>3, SMT DEF Reading, TypeOK
<1> QED BY <1>1, <1>2, <1>4 DEF Encoding, Sizing

\* A turn of the encode_skip loop takes off the group encode took off.
LEMMA SizeKeeps ==
    ASSUME TypeOK, RoundTripInv, SizeGroup
    PROVE  RoundTripInv'
<1> USE DEF RoundTripInv, NoOverrun
<1>1. /\ call = "size" /\ call' = "size" /\ status = "run" /\ i' = i + 1
      /\ n' = n \div Base /\ status' = IF n' = 0 THEN "ok" ELSE "run"
      /\ UNCHANGED <<buf, left, len, limit, arg>>
  BY DEF SizeGroup
<1>2. EncodingComplete' BY <1>1 DEF EncodingComplete, Groups, Unfinished
<1>3. ASSUME len > 0, arg = left[0] PROVE Sizing'
  <2>1. i \in 0 .. len - 1 /\ i + 1 <= len /\ n = left[i]
    BY <1>1, <1>3, SMT DEF Sizing, Within, TypeOK
  <2>2. left[i + 1] = left[i] \div Base /\ (left[i + 1] = 0 <=> i + 1 = len)
    BY <2>1, <1>3, LeftAt
  <2>3. Within' BY <1>1, <2>1, <2>2 DEF Within
  <2> QED BY <1>1, <2>1, <2>2, <2>3 DEF Sizing
<1>4. Sizing' BY <1>1, <1>3, SMT DEF Sizing, TypeOK
<1> QED BY <1>1, <1>2, <1>4 DEF Encoding, Reading

\* A call that fails or overruns its span does so at the end of the span.
LEMMA FaultKeeps ==
    ASSUME TypeOK, RoundTripInv, Fail \/ Overrun
    PROVE  RoundTripInv'
<1>1. /\ call # "size" /\ status = "run" /\ status' \in {"fail", "ub"} /\ i = limit
      /\ status' = "ub" => mode # "safe"
      /\ UNCHANGED <<buf, mode, call, limit, i, n, scale, arg, left, len>>
  BY SMT DEF Fail, Overrun, OnSpan, CheckIterator, InSpan, TypeOK, Modes
<1>2. EncodingComplete' BY <1>1 DEF RoundTripInv, EncodingComplete, Groups, Unfinished
<1>3. Reading' BY <1>1 DEF RoundTripInv, Reading, Within
<1> QED BY <1>1, <1>2, <1>3 DEF RoundTripInv, Encoding, Sizing, NoOverrun

\* The strengthening that makes the round trip inductive: what has been taken
\* off the encoded value is exactly what the bytes read so far hold.
THEOREM RoundTripInvariant == Spec => []RoundTripInv
<1>1. Init => RoundTripInv
  BY DEF Init, RoundTripInv, EncodingComplete, Encoding, Reading, Sizing, NoOverrun
<1>2. TypeOK /\ RoundTripInv /\ [Next]_vars => RoundTripInv'
  <2> SUFFICES ASSUME TypeOK, RoundTripInv, [Next]_vars PROVE RoundTripInv'
    OBVIOUS
  <2>1. CASE Start BY <2>1, StartKeeps
  <2>2. CASE Fail \/ Overrun BY <2>2, FaultKeeps
  <2>3. CASE EncodeGroup BY <2>3, EncodeKeeps
  <2>4. CASE DecodeGroup BY <2>4, DecodeKeeps
  <2>5. CASE SkipGroup BY <2>5, SkipKeeps
  <2>6. CASE SizeGroup BY <2>6, SizeKeeps
  <2>7. CASE UNCHANGED vars
    <3>1. EncodingComplete' /\ Encoding'
      BY <2>7 DEF vars, RoundTripInv, EncodingComplete, Encoding, Groups, Unfinished
    <3> QED BY <2>7, <3>1 DEF vars, RoundTripInv, Reading, Sizing, Within, NoOverrun
  <2> QED BY <2>1, <2>2, <2>3, <2>4, <2>5, <2>6, <2>7 DEF Next, Step
<1> QED BY <1>1, <1>2, TypeCorrect, PTL DEF Spec

\* Whatever value is encoded, decode returns it, and encode, decode,
\* decode_skip and encode_skip agree on the number of its bytes.
THEOREM RoundTripCorrect == Spec => []RoundTrip
<1>1. TypeOK /\ RoundTripInv => RoundTrip
  <2> SUFFICES ASSUME TypeOK, RoundTripInv, len > 0, status = "ok"
               PROVE  /\ call = "decode" => n = left[0] /\ i = len
                      /\ call = "skip" => i = len
                      /\ call = "size" /\ arg = left[0] => i = len
    BY DEF RoundTrip, Returned
  <2>1. left[len] = 0 BY DEF RoundTripInv, EncodingComplete
  <2>2. scale * 0 = 0 /\ n + 0 = n BY SMT DEF TypeOK
  <2> QED BY <2>1, <2>2 DEF RoundTripInv, Reading, Sizing, Within
<1> QED BY <1>1, TypeCorrect, RoundTripInvariant, PTL

\* A span that ends inside an encoding is rejected by a safe decode or
\* decode_skip; one that holds all of it never is.
THEOREM TruncationIsDetected == Spec => []TruncationDetected
<1>1. TypeOK /\ RoundTripInv => TruncationDetected
  BY SMT DEF TypeOK, RoundTripInv, Reading, Within, TruncationDetected
<1> QED BY <1>1, TypeCorrect, RoundTripInvariant, PTL

\* A safe call never touches a byte outside its span.
THEOREM SafeModeIsSafe == Spec => []NoOverrun
BY RoundTripInvariant, PTL DEF RoundTripInv

-----------------------------------------------------------------------------
(* Where a varint ends, on any bytes.                                      *)

\* While a decode or decode_skip runs, every byte it has read continues.
Scanning ==
    call \in {"decode", "skip"} /\ status = "run" =>
        \A k \in 0 .. i - 1 : Continues(buf[k])

\* A decode or decode_skip stops right after the first byte with a clear top
\* bit, and gives up only on a span without one.
THEOREM EndsAtTerminator == Spec => []StopsAtTerminator
<1> DEFINE Inv == Scanning /\ StopsAtTerminator
<1>1. Init => Inv
  BY DEF Init, Scanning, StopsAtTerminator
<1>2. TypeOK /\ Inv /\ [Next]_vars => Inv'
  <2> SUFFICES ASSUME TypeOK, Inv, [Next]_vars PROVE Inv'
    OBVIOUS
  <2>1. CASE Start
    BY <2>1, SMT DEF Start, CallEncode, CallEncodeSkip, CallDecode, CallDecodeSkip,
                     Enter, Scanning, StopsAtTerminator
  <2>2. CASE Fail \/ Overrun
    <3>1. /\ status = "run" /\ status' \in {"fail", "ub"} /\ i = limit
          /\ UNCHANGED <<buf, call, limit, i>>
      BY <2>2, SMT DEF Fail, Overrun, OnSpan, CheckIterator, InSpan, TypeOK
    <3>2. i \in Nat BY DEF TypeOK
    <3> QED BY <3>1, <3>2, SMT DEF Scanning, StopsAtTerminator, Continues
  <2>3. CASE DecodeGroup \/ SkipGroup
    <3>1. /\ call \in {"decode", "skip"} /\ status = "run" /\ i' = i + 1
          /\ status' = IF Continues(buf[i]) THEN "run" ELSE "ok"
          /\ UNCHANGED <<buf, call, limit>>
      BY <2>3 DEF DecodeGroup, SkipGroup
    <3>2. i \in Nat BY DEF TypeOK
    <3>3. \A k \in 0 .. i - 1 : Continues(buf[k]) BY <3>1 DEF Scanning
    <3>4. Scanning'
      <4>1. \A k \in 0 .. i' - 1 : k \in 0 .. i - 1 \/ k = i BY <3>1, <3>2, SMT
      <4> QED BY <3>1, <3>3, <4>1 DEF Scanning, Continues
    <3>5. StopsAtTerminator'
      <4>1. i' > 0 /\ i' - 1 = i /\ i' - 2 = i - 1 BY <3>1, <3>2, SMT
      <4> QED BY <3>1, <3>3, <4>1 DEF StopsAtTerminator, Continues
    <3> QED BY <3>4, <3>5
  <2>4. CASE EncodeGroup \/ SizeGroup
    BY <2>4 DEF EncodeGroup, SizeGroup, Scanning, StopsAtTerminator
  <2>5. CASE UNCHANGED vars
    BY <2>5 DEF vars, Scanning, StopsAtTerminator, Continues
  <2> QED BY <2>1, <2>2, <2>3, <2>4, <2>5 DEF Next, Step
<1> QED BY <1>1, <1>2, TypeCorrect, PTL DEF Spec

-----------------------------------------------------------------------------
(* The number decode reads.                                                *)

\* A byte that decode adds to the first k ones makes it the number in k + 1.
LEMMA AddPayload ==
    ASSUME NEW k \in Nat, NEW N, N = NumberFrom(buf, 0)[k], N \in Nat, n = N % Word,
           scale = Weight[k], scale < ShiftWord, NEW b \in Byte, b = buf[k],
           NEW x \in Accumulate(n, scale, b, Word, ShiftWord)
    PROVE  x = NumberFrom(buf, 0)[k + 1] % Word
<1>1. x = ((N % Word) + (b % Base) * scale) % Word BY DEF Accumulate
<1>2. (b % Base) * scale \in Nat
  <2>1. b % Base \in Nat BY DivMod DEF Byte
  <2>2. scale \in Nat BY WeightNat
  <2> QED BY <2>1, <2>2, SMT
<1> DEFINE y == (b % Base) * scale
<1>3. ((N % Word) + y) % Word = (N + y) % Word
  <2>1. Word \in Nat \ {0} BY VarintAssumption, SMT
  <2>2. y \in Nat BY <1>2
  <2> HIDE DEF y
  <2> QED BY <2>1, <2>2, ModSum
<1>4. NumberFrom(buf, 0)[k + 1] = N + y
  <2>1. 0 \in Nat /\ 0 + k = k BY SMT
  <2> QED BY <2>1, NumberFromStep
<1> QED BY <1>1, <1>3, <1>4

\* decode puts together the number in the bytes it has read, cut to T.
THEOREM NumberInvariant == Spec => []NumberInv
<1>0. NumberFrom(buf, 0)[0] = 0 BY NumberFromStep
<1>1. Init => NumberInv BY DEF Init, NumberInv
<1>2. TypeOK /\ NumberInv /\ [Next]_vars => NumberInv'
  <2> SUFFICES ASSUME TypeOK, NumberInv, [Next]_vars PROVE NumberInv'
    OBVIOUS
  <2>1. CASE Start
    <3>1. call' = "decode" => i' = 0 /\ n' = 0 /\ scale' = 1
      BY <2>1 DEF Start, CallEncode, CallEncodeSkip, CallDecode, CallDecodeSkip, Enter
    <3> QED BY <3>1, WeightStep DEF NumberInv
  <2>2. CASE Fail \/ Overrun
    <3>1. UNCHANGED <<call, i, n, scale, buf>> BY <2>2 DEF Fail, Overrun
    <3> QED BY <3>1 DEF NumberInv
  <2>3. CASE DecodeGroup
    <3>1. /\ call = "decode" /\ i < limit /\ i' = i + 1 /\ scale' = scale * Base
          /\ n' \in Accumulate(n, scale, buf[i], Word, ShiftWord) /\ buf' = buf
      BY <2>3 DEF DecodeGroup, InSpan
    <3>2. i \in Nat /\ i \in Index /\ i \in 0..Capacity /\ (i + 1) - 1 = i /\ i + 1 # 0
      BY <3>1, SMT DEF TypeOK, Index
    <3>3. scale = Weight[i] /\ scale' = Weight[i']
      BY <3>1, <3>2, WeightStep DEF NumberInv
    <3>5. ASSUME Weight[i] < ShiftWord PROVE n' = NumberFrom(buf, 0)[i + 1] % Word
      <4>1. n = NumberFrom(buf, 0)[i] % Word
        <5>1. CASE i = 0
          <6>1. 0 % Word = 0 BY ModSmall
          <6> QED BY <1>0, <3>1, <5>1, <6>1 DEF NumberInv
        <5>2. CASE i # 0
          <6>1. i - 1 \in Nat /\ i > 0 /\ (i - 1) + 1 = i BY <3>2, <5>2, SMT
          <6>2. Weight[i - 1] \in Nat /\ Weight[i] \in Nat /\ Weight[i - 1] < Weight[i]
            BY <3>2, <6>1, WeightNat
          <6>3. Weight[i - 1] < ShiftWord BY <3>5, <6>2, SMT
          <6> QED BY <3>1, <6>1, <6>3 DEF NumberInv
        <5> QED BY <5>1, <5>2
      <4>2. NumberFrom(buf, 0)[i] \in Nat
        <5>1. \A j \in 0 .. 0 + i - 1 : buf[j] \in Byte
          <6>1. \A j \in 0 .. 0 + i - 1 : j \in Index BY <3>2, SMT DEF Index
          <6> QED BY <6>1 DEF TypeOK
        <5> QED BY <3>2, <5>1, NumberFromNat
      <4>3. buf[i] \in Byte BY <3>2 DEF TypeOK
      <4> QED BY <3>1, <3>2, <3>3, <3>5, <4>1, <4>2, <4>3, AddPayload
    <3> QED BY <3>1, <3>2, <3>3, <3>5 DEF NumberInv
  <2>4. CASE EncodeGroup \/ SkipGroup \/ SizeGroup
    <3>1. call' # "decode" BY <2>4 DEF EncodeGroup, SkipGroup, SizeGroup
    <3> QED BY <3>1 DEF NumberInv
  <2>5. CASE UNCHANGED vars
    <3>1. UNCHANGED <<call, i, n, scale, buf>> BY <2>5 DEF vars
    <3> QED BY <3>1 DEF NumberInv
  <2> QED BY <2>1, <2>2, <2>3, <2>4, <2>5 DEF Next, Step
<1> QED BY <1>1, <1>2, TypeCorrect, PTL DEF Spec

\* What decode returns is the number of the protocol, cut to T, whenever the
\* varint has no more groups than T: on any bytes, whoever wrote them.
THEOREM DecodesTheNumber == Spec => []DecodesNumber
<1>1. TypeOK /\ NumberInv /\ StopsAtTerminator => DecodesNumber
  <2> SUFFICES ASSUME TypeOK, NumberInv, StopsAtTerminator, call = "decode", status = "ok",
                      Weight[i - 1] < ShiftWord
               PROVE  n = NumberFrom(buf, 0)[i] % Word
    BY DEF DecodesNumber
  <2>1. i > 0 BY DEF StopsAtTerminator
  <2> QED BY <2>1 DEF NumberInv
<1> QED BY <1>1, NumberInvariant, TypeCorrect, EndsAtTerminator, PTL

-----------------------------------------------------------------------------
(* The contract of coder.h.                                                *)

\* Every step of a call is a step the contract allows, or none: the position
\* only moves forward and inside the span, a safe call ends in a result or a
\* failure, and nothing happens between calls.
THEOREM KeepsContract == Spec => Contract!Init /\ [][Contract!Next]_(Contract!vars)
<1> USE DEF Contract!Outcomes
<1>1. Init => Contract!Init
  BY SMT DEF Init, Contract!Init
<1>2. TypeOK /\ RoundTripInv /\ [Next]_vars => [Contract!Next]_(Contract!vars)
  <2> SUFFICES ASSUME TypeOK, RoundTripInv, [Next]_vars
               PROVE  Contract!Next \/ UNCHANGED Contract!vars
    OBVIOUS
  <2> USE DEF Contract!vars, Modes
  <2>1. CASE Start
    <3>1. \E op \in Calls, m \in Modes, e \in 0..Capacity : Enter(op, m, e)
      BY <2>1, SMT DEF Start, CallEncode, CallEncodeSkip, CallDecode, CallDecodeSkip, Calls
    <3>2. Contract!Call
      BY <3>1, SMT DEF Enter, MayCall, Contract!Call
    <3> QED BY <3>2 DEF Contract!Next
  <2>2. CASE Fail \/ Overrun
    <3>1. status = "run" /\ UNCHANGED <<mode, call, limit, i>>
      BY <2>2 DEF Fail, Overrun, OnSpan
    <3>2. status' \in Contract!Outcomes(mode)
      BY <2>2, SMT DEF Fail, Overrun, OnSpan, CheckIterator, InSpan, TypeOK
    <3>3. Contract!Return
      BY <3>1, <3>2 DEF Contract!Return
    <3> QED BY <3>3 DEF Contract!Next
  <2>3. CASE EncodeGroup \/ DecodeGroup \/ SkipGroup
    <3>1. /\ call # "size" /\ call' = call /\ status = "run" /\ i < limit /\ i' = i + 1
          /\ status' \in {"run", "ok"} /\ UNCHANGED <<mode, limit>>
      BY <2>3 DEF EncodeGroup, DecodeGroup, SkipGroup, InSpan
    <3>2. i' \in i + 1 .. limit BY <3>1, SMT DEF TypeOK
    <3>3. Contract!Advance
      BY <3>1, <3>2 DEF Contract!Advance, TypeOK
    <3> QED BY <3>3 DEF Contract!Next
  <2>4. CASE SizeGroup
    <3>1. CASE n' = 0
      BY <2>4, <3>1 DEF SizeGroup, Contract!Next, Contract!Return, TypeOK
    <3>2. CASE n' # 0
      BY <2>4, <3>2 DEF SizeGroup
    <3> QED BY <3>1, <3>2
  <2>5. CASE UNCHANGED vars
    BY <2>5 DEF vars
  <2> QED BY <2>1, <2>2, <2>3, <2>4, <2>5 DEF Next, Step
<1> QED BY <1>1, <1>2, TypeCorrect, RoundTripInvariant, PTL DEF Spec

=============================================================================
