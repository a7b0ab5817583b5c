------------------------------- MODULE Varint -------------------------------
(***************************************************************************)
(* varint_coder<T> (varint.h) and skipper<varint_coder<T>> (skip.h) for an *)
(* unsigned T, one loop iteration per step.  A caller makes one call after *)
(* the other on prefixes of the same buffer: encode, decode, decode_skip   *)
(* and encode_skip, each in either coder_mode.                             *)
(***************************************************************************)
EXTENDS WireFormat

CONSTANTS
    Word,        \* 2^(8*sizeof(T)): T holds 0 .. Word-1
    ShiftWord,   \* 2^w, w the width of T after integral promotion
    Capacity,    \* the size of the buffer
    Values,      \* the values a caller encodes
    Inputs       \* what the buffer may hold before the first call

Index == 0 .. Capacity - 1

ASSUME VarintAssumption ==
    /\ Word \in Nat /\ Word > 1
    /\ ShiftWord \in Nat /\ ShiftWord >= Word
    /\ Capacity \in Nat
    /\ Values \subseteq 0 .. Word - 1
    /\ Inputs \subseteq [Index -> Byte]

Calls    == {"encode", "decode", "skip", "size"}
Modes    == {"safe", "unsafe"}
Statuses == {"idle", "run", "ok", "fail", "ub"}

VARIABLES
    buf,       \* the bytes
    mode,      \* Mode of the current call
    call,      \* the current call, or the last one
    limit,     \* the call works on bytes 0 .. limit-1 of buf
    status,
    i,         \* iter - begin(s); for "size", the count so far
    n,         \* the variable n of the code
    scale,     \* 1 << 7*i while decoding
    arg,       \* the argument of the current call, if it has one
    left,      \* history: left[k] is what the last encode had left before group k
    len        \* history: the length of the encoding buf holds, 0 if none

vars == <<buf, mode, call, limit, status, i, n, scale, arg, left, len>>

Init ==
    /\ buf \in Inputs
    /\ mode = "safe" /\ call = "size" /\ limit = 0 /\ status = "idle"
    /\ i = 0 /\ n = 0 /\ scale = 1 /\ arg = 0
    /\ left = [k \in 0..Capacity |-> 0] /\ len = 0

----------------------------------------------------------------------------
(* Starting a call.                                                        *)

MayCall == status \in {"idle", "ok", "fail"}

Enter(op, m, e) ==
    /\ MayCall
    /\ call' = op /\ mode' = m /\ limit' = e /\ status' = "run"
    /\ i' = 0 /\ scale' = 1

CallEncode(v, m, e) ==
    /\ Enter("encode", m, e)
    /\ n' = v /\ arg' = v
    /\ left' = [k \in 0..Capacity |-> IF k = 0 THEN v ELSE 0] /\ len' = 0
    /\ UNCHANGED buf

CallEncodeSkip(v) ==
    /\ Enter("size", "safe", 0)
    /\ n' = v /\ arg' = v
    /\ UNCHANGED <<buf, left, len>>

CallDecode(m, e) ==
    /\ Enter("decode", m, e)
    /\ n' = 0 /\ arg' = 0
    /\ UNCHANGED <<buf, left, len>>

CallDecodeSkip(m, e) ==
    /\ Enter("skip", m, e)
    /\ n' = 0 /\ arg' = 0
    /\ UNCHANGED <<buf, left, len>>

----------------------------------------------------------------------------
(* The byte access every loop begins with.                                 *)

\* Slip: no check.
CheckNothing == TRUE

\* Mode::check_iterator(iter, end)
CheckIterator == mode = "safe" => i # limit

InSpan == i < limit

OnSpan == call # "size" /\ status = "run"

\* !check_iterator: return {}
Fail ==
    /\ OnSpan /\ ~CheckIterator
    /\ status' = "fail"
    /\ UNCHANGED <<buf, mode, call, limit, i, n, scale, arg, left, len>>

\* *iter with iter == end: nothing is known of the program afterwards
Overrun ==
    /\ OnSpan /\ CheckIterator /\ ~InSpan
    /\ status' = "ub"
    /\ UNCHANGED <<buf, mode, call, limit, i, n, scale, arg, left, len>>

----------------------------------------------------------------------------
(* The loops.                                                              *)

EncodeGroup ==
    /\ call = "encode" /\ status = "run" /\ CheckIterator /\ InSpan
    /\ buf' = [buf EXCEPT ![i] = GroupByte(n)]
    /\ n' = n \div Base
    /\ i' = i + 1
    /\ status' = IF n' = 0 THEN "ok" ELSE "run"
    /\ left' = [left EXCEPT ![i + 1] = n']
    /\ len' = IF n' = 0 THEN i + 1 ELSE 0
    /\ UNCHANGED <<mode, call, limit, scale, arg>>

DecodeGroup ==
    /\ call = "decode" /\ status = "run" /\ CheckIterator /\ InSpan
    /\ n' \in Accumulate(n, scale, buf[i], Word, ShiftWord)
    /\ i' = i + 1 /\ scale' = scale * Base
    /\ status' = IF Continues(buf[i]) THEN "run" ELSE "ok"
    /\ UNCHANGED <<buf, mode, call, limit, arg, left, len>>

\* Slips: one byte is taken for the whole varint; iter is not moved on.
SkipOneByte ==
    /\ call = "skip" /\ status = "run" /\ CheckIterator /\ InSpan
    /\ i' = i + 1 /\ status' = "ok"
    /\ UNCHANGED <<buf, mode, call, limit, n, scale, arg, left, len>>

SkipWithoutMoving ==
    /\ call = "skip" /\ status = "run" /\ CheckIterator /\ InSpan
    /\ status' = IF Continues(buf[i]) THEN "run" ELSE "ok"
    /\ UNCHANGED <<buf, mode, call, limit, i, n, scale, arg, left, len>>

SkipGroup ==
    /\ call = "skip" /\ status = "run" /\ CheckIterator /\ InSpan
    /\ i' = i + 1
    /\ status' = IF Continues(buf[i]) THEN "run" ELSE "ok"
    /\ UNCHANGED <<buf, mode, call, limit, n, scale, arg, left, len>>

SizeGroup ==
    /\ call = "size" /\ status = "run"
    /\ n' = n \div Base
    /\ i' = i + 1
    /\ status' = IF n' = 0 THEN "ok" ELSE "run"
    /\ UNCHANGED <<buf, mode, call, limit, scale, arg, left, len>>

----------------------------------------------------------------------------
Start ==
    \/ \E v \in Values, m \in Modes, e \in 0..Capacity : CallEncode(v, m, e)
    \/ \E v \in Values : CallEncodeSkip(v)
    \/ \E m \in Modes, e \in 0..Capacity : CallDecode(m, e)
    \/ \E m \in Modes, e \in 0..Capacity : CallDecodeSkip(m, e)

Step == Fail \/ Overrun \/ EncodeGroup \/ DecodeGroup \/ SkipGroup \/ SizeGroup

Next == Start \/ Step

\* A call that has been made runs to its end: nothing in it waits.
Spec == Init /\ [][Next]_vars /\ WF_vars(Step)

----------------------------------------------------------------------------
(* Properties.                                                             *)

TypeOK ==
    /\ buf \in [Index -> Byte]
    /\ mode \in Modes /\ call \in Calls /\ status \in Statuses
    /\ limit \in 0..Capacity
    /\ i \in Nat /\ (call # "size" => i <= limit)
    /\ n \in 0 .. Word - 1 /\ scale \in Nat \ {0}
    /\ arg \in 0 .. Word - 1
    /\ left \in [0..Capacity -> 0 .. Word - 1] /\ len \in 0..Capacity

\* buf holds the encoding of left[0] and the call returned normally
Returned(op) == call = op /\ status = "ok" /\ len > 0

\* What encode wrote is what decode reads: decode returns the encoded value,
\* and encode, decode, decode_skip and encode_skip agree on its length
\* (varint.h:47-88, skip.h:115-141).
RoundTrip ==
    /\ Returned("decode") => n = left[0] /\ i = len
    /\ Returned("skip") => i = len
    /\ Returned("size") /\ arg = left[0] => i = len

\* A prefix that cuts an encoding short is rejected, and the whole encoding
\* never is: a safe decode or decode_skip fails exactly when the span ends
\* inside the varint (test_fixture.h:63-75 asserts the first half).
TruncationDetected ==
    call \in {"decode", "skip"} /\ len > 0 =>
        /\ status = "ok" => len <= limit
        /\ status \in {"fail", "ub"} => limit < len

\* A safe call never touches a byte outside its span (coder_mode.h:96).
NoOverrun == mode = "safe" => status # "ub"

\* On any bytes, decode and decode_skip stop right after the first byte whose
\* top bit is clear, and give up only when no byte of the span is one: so the
\* two agree on where a varint ends (skip.h:55-58).
StopsAtTerminator ==
    call \in {"decode", "skip"} =>
        /\ \A k \in 0 .. i - 2 : Continues(buf[k])
        /\ status = "ok" => i > 0 /\ ~Continues(buf[i - 1])
        /\ status \in {"fail", "ub"} =>
               i = limit /\ \A k \in 0 .. limit - 1 : Continues(buf[k])

\* The result of decode is the number the protocol assigns to the bytes it has
\* read, truncated to T, for every varint of no more groups than T has
\* (varint.h:76-85).
DecodesNumber ==
    call = "decode" /\ status = "ok" /\ Weight[i - 1] < ShiftWord
        => n = NumberFrom(buf, 0)[i] % Word

----------------------------------------------------------------------------
(* Why RoundTrip and TruncationDetected hold: the inductive invariant.     *)

\* Bytes 0 .. m-1 of buf are the groups encode took off left[0], in order.
Groups(m) ==
    \A k \in 0 .. m - 1 :
        /\ left[k + 1] = left[k] \div Base
        /\ buf[k] = GroupByte(left[k])

\* Something was left before every group of 1 .. m.
Unfinished(m) == \A k \in 1 .. m : left[k] # 0

EncodingComplete ==
    len > 0 => Groups(len) /\ Unfinished(len - 1) /\ left[len] = 0

Encoding ==
    call = "encode" /\ status = "run" =>
        len = 0 /\ n = left[i] /\ Groups(i) /\ Unfinished(i)

\* A call that goes through the encoding is inside it, or at its end with "ok".
Within ==
    /\ i <= len
    /\ status = "ok" <=> i = len
    /\ status \in {"fail", "ub"} => i = limit

Reading ==
    call \in {"decode", "skip"} /\ len > 0 =>
        /\ Within
        /\ call = "decode" => n + scale * left[i] = left[0]
        /\ i = 0 => scale = 1

Sizing ==
    call = "size" /\ status # "idle" /\ len > 0 /\ arg = left[0] =>
        Within /\ n = left[i]

\* The groups written so far are those of left[0], and a call that reads them
\* back has put together what encode took apart: n and the part of left[0]
\* still to be read always sum to left[0] (varint.h:47-88).
RoundTripInv ==
    EncodingComplete /\ Encoding /\ Reading /\ Sizing /\ NoOverrun

\* Why DecodesNumber holds: decode has put together the groups it has read, as
\* long as it has shifted none of them out of the promoted T.
NumberInv ==
    call = "decode" =>
        /\ scale = Weight[i]
        /\ i = 0 => n = 0
        /\ i > 0 /\ Weight[i - 1] < ShiftWord => n = NumberFrom(buf, 0)[i] % Word

----------------------------------------------------------------------------
\* Every call but encode_skip keeps the contract of coder.h; encode_skip has
\* no span, and is seen as a call on an empty one.
Contract == INSTANCE CoderContract WITH
    Thrown <- {},
    pos   <- IF call = "size" THEN 0 ELSE i,
    limit <- IF call = "size" THEN 0 ELSE limit

ImplementsContract == Contract!Spec
=============================================================================
