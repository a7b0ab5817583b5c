---------------------------- MODULE FixedCoders ----------------------------
(***************************************************************************)
(* The coders of fixed length (int.h, float.h, bool.h) over one array of   *)
(* bytes.  A program encodes values of any type at any place and decodes   *)
(* values of any type at any place, in safe mode.                          *)
(*                                                                         *)
(* A byte is a number below Base: 2^8 in the code, less in the runs.  An    *)
(* integer of n bytes is read and written by one of two conversions,       *)
(* chosen at compile time: std::bit_cast of the bytes (the host is         *)
(* little-endian), or the recursion over the two halves of the bytes,      *)
(* where an operand narrower than an int of IntBytes bytes is promoted to  *)
(* one.                                                                    *)
(***************************************************************************)
EXTENDS Integers, Sequences

CONSTANTS
    Base, IntBytes,
    Memory,   \* the length of the array
    Builds,   \* <<conversion, bytes of an integer>> that a program uses
    Kinds     \* of "unsigned", "signed", "float", "bool"

Sizes == {1, 2, 4, 8}

ASSUME FixedAssumption ==
    /\ Base \in Nat /\ Base > 1 /\ Base % 2 = 0
    /\ IntBytes \in Sizes /\ Memory \in Nat
    /\ Builds \subseteq {"bit_cast", "recursive"} \X Sizes
    /\ Kinds \subseteq {"unsigned", "signed", "float", "bool"}

Byte == 0 .. Base-1

\* What a byte is worth that comes after k others: also 1 << 8*k.
Weight[k \in Nat] == IF k = 0 THEN 1 ELSE Weight[k - 1] * Base

Words(n) == 0 .. Weight[n] - 1

----------------------------------------------------------------------------
\* The bytes of a word in the memory of the host, and the word they are of.
Representation(w, n) == [k \in 1..n |-> (w \div Weight[k-1]) % Base]
Represented(b) == CHOOSE w \in Words(Len(b)) : Representation(w, Len(b)) = b

\* Slip: the upper half takes the integer as it is.
UpperUnshifted(w, h) == w % Weight[h]

\* What int_to_bytes gives to the halves of h bytes: the integer, cut to the
\* type of h bytes, and the integer shifted right.
Lower(w, h) == w % Weight[h]
Upper(w, h) == w \div Weight[h]

\* int_to_bytes, once for each size.
Bytes1(w) == <<w % Base>>
Bytes2(w) == Bytes1(Lower(w, 1)) \o Bytes1(Upper(w, 1))
Bytes4(w) == Bytes2(Lower(w, 2)) \o Bytes2(Upper(w, 2))
Bytes8(w) == Bytes4(Lower(w, 4)) \o Bytes4(Upper(w, 4))

\* low | high << h bytes, as the set of words of 2*h bytes it may be.  The two
\* share no bit, so | is +.  A shift by the width of the promoted operand or
\* more is undefined: the | can only set bits, so any word from low up.
Wider(m, n) == IF m > n THEN m ELSE n
Joined(low, high, h) ==
    LET width == Wider(h, IntBytes) IN
    IF h < width THEN {low + ((high * Weight[h]) % Weight[width])}
    ELSE low .. Weight[2*h] - 1

Join(lows, highs, h) == UNION {Joined(low, high, h) : low \in lows, high \in highs}

\* Slip: the upper half begins one byte early.
LastHalfEarly(b, h) == SubSeq(b, h, 2*h - 1)

FirstHalf(b, h) == SubSeq(b, 1, h)
LastHalf(b, h) == SubSeq(b, h+1, 2*h)

\* bytes_to_int, once for each size.
Words1(b) == {b[1]}
Words2(b) == Join(Words1(FirstHalf(b, 1)), Words1(LastHalf(b, 1)), 1)
Words4(b) == Join(Words2(FirstHalf(b, 2)), Words2(LastHalf(b, 2)), 2)
Words8(b) == Join(Words4(FirstHalf(b, 4)), Words4(LastHalf(b, 4)), 4)

RecursiveBytes(w, n) ==
    CASE n = 1 -> Bytes1(w) [] n = 2 -> Bytes2(w) [] n = 4 -> Bytes4(w) [] n = 8 -> Bytes8(w)

RecursiveWords(b, n) ==
    CASE n = 1 -> Words1(b) [] n = 2 -> Words2(b) [] n = 4 -> Words4(b) [] n = 8 -> Words8(b)

int_to_bytes(build, w) ==
    IF build[1] = "bit_cast" THEN Representation(w, build[2])
    ELSE RecursiveBytes(w, build[2])

bytes_to_int(build, b) ==
    IF build[1] = "bit_cast" THEN {Represented(b)}
    ELSE RecursiveWords(b, build[2])

----------------------------------------------------------------------------
\* What integer_coder, float_coder and bool_coder make of a value: the
\* unsigned word they write, and the value of a word they read.  A float is
\* the pattern of its bits.
Float == [pattern : Nat]

Half(n) == Weight[n] \div 2
Values(kind, n) ==
    CASE kind = "unsigned" -> Words(n)
      [] kind = "signed" -> -Half(n) .. Half(n)-1
      [] kind = "float" -> [pattern : Words(n)]
      [] kind = "bool" -> BOOLEAN

ToWord(kind, n, v) ==
    CASE kind = "unsigned" -> v
      [] kind = "signed" -> v % Weight[n]
      [] kind = "float" -> v.pattern
      [] kind = "bool" -> IF v THEN 1 ELSE 0

\* Slip: the word of a signed integer is taken for its value.
ToValueUnsigned(kind, n, w) ==
    CASE kind \in {"unsigned", "signed"} -> w
      [] kind = "float" -> [pattern |-> w]
      [] kind = "bool" -> w # 0

ToValue(kind, n, w) ==
    CASE kind = "unsigned" -> w
      [] kind = "signed" -> IF w < Half(n) THEN w ELSE w - Weight[n]
      [] kind = "float" -> [pattern |-> w]
      [] kind = "bool" -> w # 0

\* bool is one byte, and a float more.
Fits(kind, n) ==
    CASE kind \in {"unsigned", "signed"} -> TRUE
      [] kind = "float" -> n > 1
      [] kind = "bool" -> n = 1

----------------------------------------------------------------------------
VARIABLES
    memory,   \* the bytes
    watched,  \* an encoded value no later encode has touched (history), or NoCall
    call      \* what the last call returned, if it decoded

vars == <<memory, watched, call>>

NoCall == [op |-> "none"]

Init ==
    /\ memory = [i \in 1..Memory |-> 0]
    /\ watched = NoCall
    /\ call = NoCall

\* safe_mode::check_bytes_span
check_bytes_span(at, n) == Memory - at >= n

Apart(w, at, n) == w.at + w.n <= at \/ at + n <= w.at

\* integer_coder::encode with the span that starts at `at`
Encode(build, kind, at, v) ==
    LET n == build[2]
        bytes == int_to_bytes(build, ToWord(kind, n, v))
    IN  /\ check_bytes_span(at, n)
        /\ memory' = [i \in 1..Memory |-> IF i \in at+1 .. at+n THEN bytes[i - at] ELSE memory[i]]
        /\ call' = NoCall
        /\ \/ watched' = [op |-> "encode", n |-> n, kind |-> kind, at |-> at, value |-> v]
           \/ watched # NoCall /\ Apart(watched, at, n) /\ UNCHANGED watched

\* integer_coder::decode with the span that starts at `at`
Decode(build, kind, at) ==
    LET n == build[2] IN
    /\ check_bytes_span(at, n)
    /\ \E w \in bytes_to_int(build, SubSeq(memory, at+1, at+n)) :
           call' = [op |-> "decode", n |-> n, kind |-> kind, at |-> at,
                    value |-> ToValue(kind, n, w)]
    /\ UNCHANGED <<memory, watched>>

\* The span is too short: {}, and no byte is written.
Fail(build, at) ==
    /\ ~check_bytes_span(at, build[2])
    /\ call' = [op |-> "fail"]
    /\ UNCHANGED <<memory, watched>>

Next ==
    \E build \in Builds, at \in 0..Memory :
        \/ \E kind \in Kinds : /\ Fits(kind, build[2])
                               /\ \/ \E v \in Values(kind, build[2]) : Encode(build, kind, at, v)
                                  \/ Decode(build, kind, at)
        \/ Fail(build, at)

Spec == Init /\ [][Next]_vars

----------------------------------------------------------------------------
\* The array holds bytes, and what is decoded is a value of the type.
TypeOK ==
    /\ memory \in [1..Memory -> Byte]
    /\ call.op = "decode" => call.value \in Values(call.kind, call.n)

\* An encoded value lies in its bytes lowest first ("little-endian" in the
\* wire format), whichever conversion wrote it.
LittleEndian ==
    watched # NoCall =>
        \A k \in 1..watched.n :
            memory[watched.at + k] =
                (ToWord(watched.kind, watched.n, watched.value) \div Weight[k-1]) % Base

\* "Convert some bytes (with length N) to an unsigned integer uint<N>": an
\* encoded value no later call has touched is decoded again as the same type,
\* by either conversion.
ReadsBack ==
    (/\ watched # NoCall /\ call.op = "decode"
     /\ call.at = watched.at /\ call.kind = watched.kind
     /\ call.n = watched.n) => call.value = watched.value
=============================================================================
