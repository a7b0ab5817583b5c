------------------------------ MODULE Decoder ------------------------------
(***************************************************************************)
(* message_coder::decode (message.h) on a span of bytes, with every        *)
(* decoder and skipper it calls: varint_coder, the fixed-length coders,    *)
(* array_coder, embedded_message_coder and the skippers of skip_map.       *)
(*                                                                         *)
(* The C++ call stack is `stack': one frame per message or array loop that *)
(* is running, the innermost last.  `rd' is what the innermost loop is     *)
(* doing between two of its turns: reading one varint byte by byte, or     *)
(* about to take a fixed number of bytes.                                  *)
(***************************************************************************)
EXTENDS Schema

CONSTANTS
    Roots,       \* the coders of the messages to decode
    Capacity,    \* the size of the longest span
    Inputs       \* the spans to decode

ASSUME DecoderAssumption ==
    /\ \A c \in Roots : c \in Coders /\ c.kind = "message"
    /\ Capacity \in Nat
    /\ \A s \in Inputs : \E l \in 0..Capacity : s \in [0 .. l - 1 -> Byte]

VARIABLES
    buf,       \* the bytes
    mode,      \* the Mode of the call, passed to every call it makes
    limit,     \* the call was given bytes 0 .. limit-1
    pos,       \* begin(b) of the innermost loop
    stack,     \* the loops that are running
    vals,      \* vals[d]: the message v or container con that loop d fills
    rd,        \* what the innermost loop is doing
    status     \* "run", or how the call ended

vars == <<buf, mode, limit, pos, stack, vals, rd, status>>

----------------------------------------------------------------------------
(* Frames: coder, origin (begin(origin_b)), len, and in a message loop the *)
(* field whose value is being decoded.                                     *)

Frame(c, o, l) == [coder |-> c, origin |-> o, len |-> l, field |-> NoField]

depth == Len(stack)
top == stack[depth]
root == stack[1].coder

\* The coder the innermost loop has called, or is about to.
Callee == IF top.coder.kind = "array" THEN top.coder.elem ELSE top.field.coder

\* A value for the loop at depth d: push_field, or insert into con.
Deliver(d, v) ==
    [vals EXCEPT ![d] = IF stack[d].coder.kind = "array" THEN Append(@, v)
                        ELSE PushField(@, stack[d].field, v)]

\* The innermost loop is between two turns.
AtHead == [for |-> "head", iter |-> 0, n |-> 0, scale |-> 1, done |-> FALSE]

\* A varint_coder::decode, or for "skip" a decode_skip, that starts at p.
Reading(what, p) == [for |-> what, iter |-> p, n |-> 0, scale |-> 1, done |-> FALSE]

\* check_bytes_span(b, k) and a use of k bytes come next, with b from p on.
Taking(what, p, k) == [for |-> what, iter |-> p, n |-> k, scale |-> 1, done |-> TRUE]

VarintReads == {"key", "length", "value", "skip", "skipLength"}
SpanReads == {"fixed", "skipSpan"}

Init ==
    /\ mode \in {"safe", "unsafe"}
    /\ limit \in 0..Capacity
    /\ buf \in Inputs \cap [0 .. limit - 1 -> Byte]
    /\ pos = 0
    /\ \E c \in Roots : stack = <<Frame(c, 0, limit)>> /\ vals = <<EmptyMessage(c)>>
    /\ rd = AtHead
    /\ status = "run"

----------------------------------------------------------------------------
(* The end of a loop: its value goes to the loop that called it, which     *)
(* goes on from pos; the end of the outermost loop is the end of the call. *)

Finish ==
    IF depth = 1
    THEN status' = "ok" /\ rd' = AtHead /\ UNCHANGED <<stack, vals>>
    ELSE /\ stack' = SubSeq(stack, 1, depth - 1)
         /\ vals' = SubSeq(Deliver(depth - 1, vals[depth]), 1, depth - 1)
         /\ rd' = AtHead
         /\ UNCHANGED status

\* The decode function of coder c is called on the bytes from p on.
Call(c, p) ==
    rd' = CASE c.kind = "varint" -> Reading("value", p)
            [] c.kind = "fixed" -> Taking("fixed", p, c.size)
            [] OTHER -> Reading("length", p)

\* begin_diff(b, origin_b) < len.  For the outermost loop, b.begin() < b.end().
MoreToRead == pos - top.origin < top.len

AtLoopHead == status = "run" /\ rd.for = "head"

NextKey ==
    /\ AtLoopHead /\ MoreToRead /\ top.coder.kind = "message"
    /\ rd' = Reading("key", pos)
    /\ UNCHANGED <<buf, mode, limit, pos, stack, vals, status>>

NextElement ==
    /\ AtLoopHead /\ MoreToRead /\ top.coder.kind = "array"
    /\ Call(top.coder.elem, pos)
    /\ UNCHANGED <<buf, mode, limit, pos, stack, vals, status>>

EndLoop ==
    /\ AtLoopHead /\ ~MoreToRead
    /\ Finish
    /\ UNCHANGED <<buf, mode, limit, pos>>

----------------------------------------------------------------------------
(* Reading a varint.                                                       *)

InVarint == status = "run" /\ rd.for \in VarintReads /\ ~rd.done

\* Mode::check_iterator(iter, end)
CheckIterator == mode = "safe" => rd.iter # limit

\* The type the varint is decoded to: its range, and that of its promotion.
WordOf  == CASE rd.for = "value" -> Callee.word
             [] rd.for = "key" -> KeyWord
             [] OTHER -> LenWord
ShiftOf == CASE rd.for = "value" -> Callee.shift
             [] rd.for = "key" -> KeyWord
             [] OTHER -> LenWord

Accumulated(b) ==
    IF rd.for = "skip" THEN {0}
    ELSE Accumulate(rd.n, rd.scale, b, WordOf, ShiftOf)

ReadGroup ==
    /\ InVarint /\ CheckIterator /\ rd.iter < limit
    /\ \E m \in Accumulated(buf[rd.iter]) :
        rd' = [rd EXCEPT !.iter = @ + 1, !.n = m, !.scale = @ * Base,
                         !.done = ~Continues(buf[rd.iter])]
    /\ UNCHANGED <<buf, mode, limit, pos, stack, vals, status>>

----------------------------------------------------------------------------
(* A key has been read (message_decode_map::decode).                       *)

KeyRead == status = "run" /\ rd.for = "key" /\ rd.done

\* Slip: the wire type is not looked at.
KnownByNumber == {f \in top.coder.fields : f.number = NumberOf(rd.n)}

\* decode_map is found by the whole key: the number with the wrong wire type
\* is an unknown field.
Known == {f \in top.coder.fields : Key(f) = rd.n}

\* Field number 0 ends the loop, with the key unread.
KeyStop ==
    /\ KeyRead /\ NumberOf(rd.n) = 0
    /\ Finish
    /\ UNCHANGED <<buf, mode, limit, pos>>

KeyKnown ==
    /\ KeyRead /\ NumberOf(rd.n) # 0
    /\ \E f \in Known :
        /\ stack' = [stack EXCEPT ![depth].field = f]
        /\ Call(f.coder, rd.iter)
    /\ pos' = rd.iter
    /\ UNCHANGED <<buf, mode, limit, vals, status>>

\* Slip: an unknown field is not skipped, and its key stays unread.
KeyUnknownIgnored ==
    /\ KeyRead /\ NumberOf(rd.n) # 0 /\ Known = {}
    /\ WireOf(rd.n) \in {0, 1, 2, 5}
    /\ rd' = AtHead
    /\ UNCHANGED <<buf, mode, limit, pos, stack, vals, status>>

KeyUnknown ==
    /\ KeyRead /\ NumberOf(rd.n) # 0 /\ Known = {}
    /\ WireOf(rd.n) \in {0, 1, 2, 5}
    /\ rd' = CASE WireOf(rd.n) = 0 -> Reading("skip", rd.iter)
               [] WireOf(rd.n) = 2 -> Reading("skipLength", rd.iter)
               [] OTHER -> Taking("skipSpan", rd.iter, FixedSize[WireOf(rd.n)])
    /\ pos' = rd.iter
    /\ UNCHANGED <<buf, mode, limit, stack, vals, status>>

\* skip_map.at throws for the wire types it does not list.
KeyThrows ==
    /\ KeyRead /\ NumberOf(rd.n) # 0 /\ Known = {}
    /\ WireOf(rd.n) \notin {0, 1, 2, 5}
    /\ status' = "throw"
    /\ UNCHANGED <<buf, mode, limit, pos, stack, vals, rd>>

----------------------------------------------------------------------------
(* The other varints have been read.                                       *)

ValueRead ==
    /\ status = "run" /\ rd.for = "value" /\ rd.done
    /\ vals' = Deliver(depth, rd.n)
    /\ pos' = rd.iter /\ rd' = AtHead
    /\ UNCHANGED <<buf, mode, limit, stack, status>>

LengthRead == status = "run" /\ rd.for = "length" /\ rd.done

Reserves == Callee.kind = "array" /\ Callee.reserves

\* Slips: the loop goes over the span from before the length; the container
\* is given its size before its elements are read.
EnterLoopOnOldSpan ==
    /\ LengthRead /\ ~(Reserves /\ rd.n > MaxReserve)
    /\ stack' = Append(stack, Frame(Callee, rd.iter, rd.n))
    /\ vals' = Append(vals, EmptyValue(Callee))
    /\ rd' = AtHead
    /\ UNCHANGED <<buf, mode, limit, pos, status>>

EnterLoopResized ==
    /\ LengthRead /\ ~(Reserves /\ rd.n > MaxReserve)
    /\ stack' = Append(stack, Frame(Callee, rd.iter, rd.n))
    /\ vals' = Append(vals, IF Callee.kind = "array" THEN [j \in 1 .. rd.n |-> <<>>]
                            ELSE EmptyValue(Callee))
    /\ pos' = rd.iter /\ rd' = AtHead
    /\ UNCHANGED <<buf, mode, limit, status>>

\* T v or R con, and the loop over the bytes from here on.
EnterLoop ==
    /\ LengthRead /\ ~(Reserves /\ rd.n > MaxReserve)
    /\ stack' = Append(stack, Frame(Callee, rd.iter, rd.n))
    /\ vals' = Append(vals, EmptyValue(Callee))
    /\ pos' = rd.iter /\ rd' = AtHead
    /\ UNCHANGED <<buf, mode, limit, status>>

\* con.reserve(len), before any byte of the string has been looked at.
ReserveThrows ==
    /\ LengthRead /\ Reserves /\ rd.n > MaxReserve
    /\ status' = "throw"
    /\ UNCHANGED <<buf, mode, limit, pos, stack, vals, rd>>

SkipVarint ==
    /\ status = "run" /\ rd.for = "skip" /\ rd.done
    /\ pos' = rd.iter /\ rd' = AtHead
    /\ UNCHANGED <<buf, mode, limit, stack, vals, status>>

\* Slip: only the length is skipped.
SkipLengthOnly ==
    /\ status = "run" /\ rd.for = "skipLength" /\ rd.done
    /\ pos' = rd.iter /\ rd' = AtHead
    /\ UNCHANGED <<buf, mode, limit, stack, vals, status>>

SkipLength ==
    /\ status = "run" /\ rd.for = "skipLength" /\ rd.done
    /\ pos' = rd.iter /\ rd' = Taking("skipSpan", rd.iter, rd.n)
    /\ UNCHANGED <<buf, mode, limit, stack, vals, status>>

----------------------------------------------------------------------------
(* Taking a number of bytes at once.                                       *)

InSpan == status = "run" /\ rd.for \in SpanReads

\* Slips: one byte too lenient; one byte too strict.
CheckBytesSpanLenient == mode = "safe" => limit - rd.iter + 1 >= rd.n
CheckBytesSpanStrict  == mode = "safe" => limit - rd.iter > rd.n

\* Mode::check_bytes_span(b, size)
CheckBytesSpan == mode = "safe" => limit - rd.iter >= rd.n

Available == rd.n <= limit - rd.iter

\* The value of a fixed-length coder is named by its bytes.
TakeFixed ==
    /\ InSpan /\ rd.for = "fixed" /\ CheckBytesSpan /\ Available
    /\ vals' = Deliver(depth, [j \in 1 .. rd.n |-> buf[rd.iter + j - 1]])
    /\ pos' = rd.iter + rd.n /\ rd' = AtHead
    /\ UNCHANGED <<buf, mode, limit, stack, status>>

SkipSpan ==
    /\ InSpan /\ rd.for = "skipSpan" /\ CheckBytesSpan /\ Available
    /\ pos' = rd.iter + rd.n /\ rd' = AtHead
    /\ UNCHANGED <<buf, mode, limit, stack, vals, status>>

----------------------------------------------------------------------------
(* Not enough bytes.                                                       *)

\* return {}, all the way up: get_value_from_result is false in every caller.
Fail ==
    /\ \/ InVarint /\ ~CheckIterator
       \/ InSpan /\ ~CheckBytesSpan
    /\ status' = "fail"
    /\ UNCHANGED <<buf, mode, limit, pos, stack, vals, rd>>

\* A byte past the span is used: nothing is known of the program afterwards.
Overrun ==
    /\ \/ InVarint /\ CheckIterator /\ rd.iter >= limit
       \/ InSpan /\ CheckBytesSpan /\ ~Available
    /\ status' = "ub"
    /\ UNCHANGED <<buf, mode, limit, pos, stack, vals, rd>>

Next ==
    \/ NextKey \/ NextElement \/ EndLoop
    \/ ReadGroup
    \/ KeyStop \/ KeyKnown \/ KeyUnknown \/ KeyThrows
    \/ ValueRead \/ EnterLoop \/ ReserveThrows \/ SkipVarint \/ SkipLength
    \/ TakeFixed \/ SkipSpan
    \/ Fail \/ Overrun

\* Nothing in a decode waits: it runs until it returns.
Spec == Init /\ [][Next]_vars /\ WF_vars(Next)

\* The message decoded.
Result == vals[1]

----------------------------------------------------------------------------
(* Properties.                                                             *)

Fields == UNION {c.fields : c \in {d \in Coders : d.kind = "message"}}

Frames == [coder : LoopCoders, origin : Nat, len : Nat, field : Fields \cup {NoField}]
Reads == [for : {"head"} \cup VarintReads \cup SpanReads, iter : Nat, n : Nat,
          scale : Nat \ {0}, done : BOOLEAN]

\* Every loop began at or before pos, with the fields of its own message.
FrameOK(f) ==
    /\ f.origin <= pos
    /\ f.coder.kind = "message" => f.field \in f.coder.fields \cup {NoField}

\* What is being read for the innermost loop is for a coder that reads it so.
CalleeOK ==
    /\ rd.for = "value" => Callee \in Coders /\ Callee.kind = "varint"
    /\ rd.for = "length" => Callee \in LoopCoders
    /\ rd.for = "key" => top.coder.kind = "message"

TypeOK ==
    /\ mode \in {"safe", "unsafe"}
    /\ limit \in 0..Capacity
    /\ buf \in [0 .. limit - 1 -> Byte]
    /\ pos \in 0..limit
    /\ stack \in Seq(Frames) /\ depth > 0
    /\ \A d \in 1..depth : FrameOK(stack[d])
    /\ rd \in Reads /\ (rd.for # "head" => rd.iter \in pos..limit)
    /\ CalleeOK
    /\ status \in {"run", "ok", "fail", "throw", "ub"}

\* A safe decode never uses a byte outside its span, whatever the bytes say
\* (coder_mode.h:96).
NoOverrun == mode = "safe" => status # "ub"

\* Decoding works from the front of the span to its end and returns.
Contract == INSTANCE CoderContract WITH Thrown <- {"throw"}

ImplementsContract == Contract!Spec

\* No container is longer than the bytes it was read from: what a declared
\* length promises is never allocated before its bytes have been seen, but
\* for the reserve() of a std::string (array.h:80-92).
ElementsPaidFor ==
    \A d \in 1..depth :
        stack[d].coder.kind = "array" => Len(vals[d]) <= pos - stack[d].origin

\* "decode_skip ... just skip the length of the decoded object" (skip.h:55-58):
\* an embedded message or an array ends where its skipper would take it,
\* after as many bytes as it declares.
EndsWhereSkipEnds ==
    status = "run" /\ depth > 1 =>
        /\ AtLoopHead /\ ~MoreToRead => pos = top.origin + top.len
        /\ KeyRead /\ NumberOf(rd.n) = 0 => pos = top.origin + top.len
=============================================================================
