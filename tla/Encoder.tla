------------------------------ MODULE Encoder ------------------------------
(***************************************************************************)
(* message_coder<Root>::encode (message.h) with every encoder it calls:    *)
(* varint_coder, the fixed-length coders, array_coder and                  *)
(* embedded_message_coder.  A caller encodes one message after another,    *)
(* each into the rest of the span that the call before it returned.        *)
(*                                                                         *)
(* `todo' is what the running calls have still to do, the innermost first: *)
(* each encode function replaces its entry by those of the calls it makes. *)
(***************************************************************************)
EXTENDS EncodeSkip

CONSTANTS
    Root,        \* the coder of the messages
    Capacity,    \* the size of the longest span
    MaxCalls,    \* bound: how many messages a caller encodes
    ValuesOf(_)  \* the values of each coder that are encoded

\* The size of a span is a size_t, and encode_skip computes what it computes.
ASSUME EncoderAssumption ==
    /\ Root \in Coders /\ Root.kind = "message"
    /\ Capacity \in 0 .. LenWord - 1 /\ MaxCalls \in Nat
    /\ \A c \in Coders : \A v \in ValuesOf(c) :
        /\ c.kind = "varint" => v \in Nat
        /\ c.kind = "fixed" => v \in [1 .. c.size -> Byte]
        /\ c.kind = "array" => v \in Seq(ValuesOf(c.elem))
        /\ c.kind = "message" => \A f \in c.fields : v[f.number] \in Seq(ValuesOf(f.coder))
        /\ c.kind \in {"array", "message"} =>
            ContentSkip(c, v) \in Nat /\ ContentSkip(c, v) = ContentSize(c, v)

VARIABLES
    buf,       \* the bytes
    mode,      \* the Mode of the calls
    limit,     \* the span is bytes 0 .. limit-1
    start,     \* where the current call began
    pos,       \* begin of the span the innermost call works on
    todo,
    failed,    \* the result of the innermost message loop is empty
    status,    \* "idle", "run", or how the last call ended
    sent       \* history: the messages of the calls made so far

vars == <<buf, mode, limit, start, pos, todo, failed, status, sent>>

----------------------------------------------------------------------------
(* Entries of todo.                                                        *)

\* varint_coder::encode, with n left to write
Varint(n) == [do |-> "varint", n |-> n]

\* The encode function of coder c is called on v.
Value(c, v) == IF c.kind = "varint" THEN Varint(v)
               ELSE [do |-> c.kind, coder |-> c, v |-> v]

\* for_each over the fields of msg, from the k-th on
Fields(c, msg, k) == [do |-> "fields", coder |-> c, v |-> msg, k |-> k]

\* A key and a value for each value of field f.
FieldValues(f, vs) ==
    [j \in 1 .. 2 * Len(vs) |-> IF j % 2 = 1 THEN Varint(Key(f))
                                ELSE Value(f.coder, vs[j \div 2])]

Init ==
    /\ buf \in [0 .. Capacity - 1 -> {0}]
    /\ mode \in {"safe", "unsafe"} /\ limit \in 0..Capacity
    /\ start = 0 /\ pos = 0
    /\ todo = <<>> /\ failed = FALSE /\ status = "idle" /\ sent = <<>>

CallEncode(msg) ==
    /\ status \in {"idle", "ok"} /\ Len(sent) < MaxCalls
    /\ todo' = <<Fields(Root, msg, 1)>>
    /\ start' = pos /\ status' = "run" /\ sent' = Append(sent, msg)
    /\ UNCHANGED <<buf, mode, limit, pos, failed>>

----------------------------------------------------------------------------
Doing(what) == status = "run" /\ todo # <<>> /\ Head(todo).do = what

now == Head(todo)

\* Slip: the result so far is not looked at.
EncodeFieldAnyway ==
    /\ Doing("fields") /\ now.k <= Len(now.coder.order)
    /\ LET f == now.coder.order[now.k]
       IN  todo' = FieldValues(f, now.v[f.number])
                       \o <<Fields(now.coder, now.v, now.k + 1)>> \o Tail(todo)
    /\ UNCHANGED <<buf, mode, limit, start, pos, failed, status, sent>>

\* The field's lambda: it returns at once if the result so far is empty.
EncodeField ==
    /\ Doing("fields") /\ now.k <= Len(now.coder.order)
    /\ LET f == now.coder.order[now.k]
           next == Fields(now.coder, now.v, now.k + 1)
       IN  todo' = (IF failed THEN <<>> ELSE FieldValues(f, now.v[f.number]))
                       \o <<next>> \o Tail(todo)
    /\ UNCHANGED <<buf, mode, limit, start, pos, failed, status, sent>>

\* What a failure leaves: every call up to the loop over the fields of the
\* innermost message returns {}, and that loop goes on.
Unwound(s) ==
    LET loops == {j \in DOMAIN s : s[j].do = "fields"}
        first == CHOOSE j \in loops : \A l \in loops : j <= l
    IN  IF loops = {} THEN <<>> ELSE SubSeq(s, first, Len(s))

\* The loop is over: its result is that of the call, empty or not.
EndFields ==
    /\ Doing("fields") /\ now.k > Len(now.coder.order)
    /\ todo' = IF failed THEN Unwound(Tail(todo)) ELSE Tail(todo)
    /\ UNCHANGED <<buf, mode, limit, start, pos, failed, status, sent>>

\* The length of an array or an embedded message, then its content.
EncodeArray ==
    /\ Doing("array")
    /\ todo' = <<Varint(ContentSkip(now.coder, now.v) % LenWord)>>
                   \o [j \in DOMAIN now.v |-> Value(now.coder.elem, now.v[j])]
                   \o Tail(todo)
    /\ UNCHANGED <<buf, mode, limit, start, pos, failed, status, sent>>

\* Slip: the length counts one byte too many.
EncodeMessageLonger ==
    /\ Doing("message")
    /\ todo' = <<Varint((ContentSkip(now.coder, now.v) + 1) % LenWord),
                 [now EXCEPT !.do = "body"]>> \o Tail(todo)
    /\ UNCHANGED <<buf, mode, limit, start, pos, failed, status, sent>>

EncodeMessage ==
    /\ Doing("message")
    /\ todo' = <<Varint(ContentSkip(now.coder, now.v) % LenWord),
                 [now EXCEPT !.do = "body"]>> \o Tail(todo)
    /\ UNCHANGED <<buf, mode, limit, start, pos, failed, status, sent>>

EncodeBody ==
    /\ Doing("body")
    /\ todo' = <<Fields(now.coder, now.v, 1)>> \o Tail(todo)
    /\ UNCHANGED <<buf, mode, limit, start, pos, failed, status, sent>>

Return ==
    /\ status = "run" /\ todo = <<>>
    /\ status' = IF failed THEN "fail" ELSE "ok"
    /\ UNCHANGED <<buf, mode, limit, start, pos, todo, failed, sent>>

----------------------------------------------------------------------------
(* Writing.                                                                *)

\* Mode::check_iterator(iter, end)
CheckIterator == mode = "safe" => pos # limit

\* Slip: one byte too lenient.
CheckBytesSpanLenient == mode = "safe" => limit - pos + 1 >= now.coder.size

\* Mode::check_bytes_span(b, size)
CheckBytesSpan == mode = "safe" => limit - pos >= now.coder.size

WriteGroup ==
    /\ Doing("varint") /\ CheckIterator /\ pos < limit
    /\ buf' = [buf EXCEPT ![pos] = GroupByte(now.n)]
    /\ pos' = pos + 1
    /\ todo' = (IF now.n \div Base = 0 THEN <<>> ELSE <<Varint(now.n \div Base)>>)
                   \o Tail(todo)
    /\ UNCHANGED <<mode, limit, start, failed, status, sent>>

\* Slip: the rest of the span begins one byte too late.
WriteFixedPastEnd ==
    /\ Doing("fixed") /\ CheckBytesSpan /\ now.coder.size <= limit - pos
    /\ buf' = [k \in DOMAIN buf |-> IF k \in pos .. pos + now.coder.size - 1
                                    THEN now.v[k - pos + 1] ELSE buf[k]]
    /\ pos' = pos + now.coder.size + 1
    /\ todo' = Tail(todo)
    /\ UNCHANGED <<mode, limit, start, failed, status, sent>>

\* The value of a fixed-length coder is named by its bytes.
WriteFixed ==
    /\ Doing("fixed") /\ CheckBytesSpan /\ now.coder.size <= limit - pos
    /\ buf' = [k \in DOMAIN buf |-> IF k \in pos .. pos + now.coder.size - 1
                                    THEN now.v[k - pos + 1] ELSE buf[k]]
    /\ pos' = pos + now.coder.size
    /\ todo' = Tail(todo)
    /\ UNCHANGED <<mode, limit, start, failed, status, sent>>

Fail ==
    /\ \/ Doing("varint") /\ ~CheckIterator
       \/ Doing("fixed") /\ ~CheckBytesSpan
    /\ todo' = Unwound(todo) /\ failed' = TRUE
    /\ UNCHANGED <<buf, mode, limit, start, pos, status, sent>>

\* A byte past the span is written: nothing is known of the program afterwards.
Overrun ==
    /\ \/ Doing("varint") /\ CheckIterator /\ pos >= limit
       \/ Doing("fixed") /\ CheckBytesSpan /\ now.coder.size > limit - pos
    /\ status' = "ub"
    /\ UNCHANGED <<buf, mode, limit, start, pos, todo, failed, sent>>

Step ==
    \/ EncodeField \/ EndFields \/ EncodeArray \/ EncodeMessage \/ EncodeBody \/ Return
    \/ WriteGroup \/ WriteFixed \/ Fail \/ Overrun

Next == (\E msg \in ValuesOf(Root) : CallEncode(msg)) \/ Step

\* A call that has been made runs to its end: nothing in it waits.
Spec == Init /\ [][Next]_vars /\ WF_vars(Step)

----------------------------------------------------------------------------
(* Properties.                                                             *)

MessageCoders == {c \in Coders : c.kind = "message"}

EntriesOf(c) == [do : {c.kind}, coder : {c}, v : ValuesOf(c)]

MessageEntries(c) ==
    [do : {"body"}, coder : {c}, v : ValuesOf(c)]
    \cup [do : {"fields"}, coder : {c}, v : ValuesOf(c), k : 1 .. Len(c.order) + 1]

Entries ==
    [do : {"varint"}, n : Nat]
    \cup (UNION {EntriesOf(c) : c \in {d \in Coders : d.kind # "varint"}})
    \cup (UNION {MessageEntries(c) : c \in MessageCoders})

TypeOK ==
    /\ buf \in [0 .. Capacity - 1 -> Byte]
    /\ mode \in {"safe", "unsafe"}
    /\ limit \in 0..Capacity /\ start \in 0..pos /\ pos \in 0..limit
    /\ todo \in Seq(Entries)
    /\ failed \in BOOLEAN
    /\ status \in {"idle", "run", "ok", "fail", "ub"}

\* A safe encode never writes a byte outside its span (coder_mode.h:96).
NoOverrun == mode = "safe" => status # "ub"

\* Once a result is empty nothing more is written: the fields still to come
\* see it and return (message.h:385-408), so the rest of the buffer is as the
\* caller left it.
FailureSticks == [][failed => buf' = buf /\ pos' = pos]_vars

\* The size of the message being encoded, as encode_skip predicts it.
predicted == ContentSkip(Root, sent[Len(sent)])

\* encode_skip predicts the size of every encoding to the byte: encode fits in
\* a span exactly when it is that long, and the lengths written in front of
\* embedded messages and arrays rest on it (message.h:469-477, array.h:48-57).
EncodeSkipExact ==
    /\ status = "ok" => pos = start + predicted
    /\ status \in {"fail", "ub"} => limit < start + predicted

FieldSizes(c, msg) ==
    [k \in DOMAIN c.order |-> FieldSkip(c.order[k], msg[c.order[k].number])]

\* How many bytes an entry has still to write.
EntrySize(e) ==
    CASE e.do = "varint" -> VarintSkip(e.n)
      [] e.do = "body" -> ContentSkip(e.coder, e.v)
      [] e.do = "fields" -> Total(SubSeq(FieldSizes(e.coder, e.v), e.k, Len(e.coder.order)))
      [] OTHER -> ValueSkip(e.coder, e.v)

Owed(s) == Total([j \in DOMAIN s |-> EntrySize(s[j])])

\* At every point of an encode, at any depth, what has been written and what
\* encode_skip counts for the calls still to come add up to the prediction for
\* the message; a failure comes only in a span that is shorter.  A length cut
\* to LenWord breaks the sum, and then no span is long enough.
SizesAddUp ==
    status = "run" =>
        IF failed THEN limit < start + predicted
        ELSE \/ pos + Owed(todo) = start + predicted
             \/ pos + Owed(todo) >= LenWord /\ start + predicted >= LenWord

\* Encoding goes from the front of the span to its end and returns.
Contract == INSTANCE CoderContract WITH
    Thrown <- {},
    pos    <- pos - start,
    limit  <- limit - start

ImplementsContract == Contract!Spec
=============================================================================
