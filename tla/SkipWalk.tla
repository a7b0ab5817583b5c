------------------------------ MODULE SkipWalk ------------------------------
(***************************************************************************)
(* A program that looks for a field in what was encoded, without decoding  *)
(* the others: it reads a key, and skips the value either by the skipper   *)
(* of the field's coder (skip.h, array.h, message.h) or by that of the     *)
(* wire type (skip_map of message.h).  The bytes are those of messages     *)
(* (Encoder), whole or cut.                                                *)
(*                                                                         *)
(* decode_skip is one step here; Varint and Decoder have its byte reads.   *)
(***************************************************************************)
EXTENDS EncoderReference, Integers

CONSTANTS
    Enums,      \* the varint coders of Coders that are enum_coder's
    EnumSize    \* sizeof(std::underlying_type_t) of the enums

ASSUME SkipAssumption ==
    /\ Enums \subseteq {c \in Coders : c.kind = "varint"}
    /\ EnumSize \in Nat \ {0}

VARIABLES
    shown,     \* the program has bytes 0 .. shown-1
    here,      \* begin of its span
    tag,       \* the key read, or NoTag
    walk       \* "idle", "run", or how its walk ended

walked == <<shown, here, tag, walk>>

NoTag == -1

WalkInit ==
    /\ Init /\ limit = Capacity
    /\ shown = 0 /\ here = 0 /\ tag = NoTag /\ walk = "idle"

Write == walk = "idle" /\ Next /\ UNCHANGED walked

CallWalk(e) ==
    /\ walk = "idle" /\ status = "ok"
    /\ shown' = e
    /\ walk' = "run"
    /\ UNCHANGED <<vars, here, tag>>

----------------------------------------------------------------------------
(* Where decode_skip ends, for bytes from p on: no place if they end first.*)

\* The place of the last byte of the varint at p, and its number in a type of
\* 0 .. word-1.
LastByte(p) == LastOfVarint(buf, p, shown)

NumberAt(p, last, word) == NumberFrom(buf, p)[last - p + 1] % word

\* skipper<varint_coder>, also of signed and zigzag numbers
SkipVarint(p) == {k + 1 : k \in LastByte(p)}

\* skipper<integer_coder>, <float_coder> and <bool_coder>: check_bytes_span
SkipBytes(p, n) == IF shown - p >= n THEN {p + n} ELSE {}

\* Slip: the length is not counted in.
SkipLengthFromStart(p) ==
    UNION {SkipBytes(p, NumberAt(p, k, LenWord)) : k \in LastByte(p)}

\* skipper<array_coder> and <embedded_message_coder>
SkipLength(p) ==
    UNION {SkipBytes(k + 1, NumberAt(p, k, LenWord)) : k \in LastByte(p)}

\* skipper<C>::decode_skip: that of an enum_coder is the skipper of the
\* fixed-length coder of its underlying type.
SkipTyped(c, p) ==
    CASE c \in Enums -> SkipBytes(p, EnumSize)
      [] c.kind = "varint" /\ c \notin Enums -> SkipVarint(p)
      [] c.kind = "fixed" -> SkipBytes(p, c.size)
      [] OTHER -> SkipLength(p)

\* skip_map
SkipWire(wire, p) ==
    CASE wire = 0 -> SkipVarint(p)
      [] wire = 2 -> SkipLength(p)
      [] OTHER -> SkipBytes(p, FixedSize[wire])

----------------------------------------------------------------------------
Walking == walk = "run"

\* A call that returned {}, or in unsafe mode used bytes there are none of.
GiveUp ==
    /\ walk' = IF mode = "safe" THEN "fail" ELSE "ub"
    /\ UNCHANGED <<vars, shown, here, tag>>

ReadKey ==
    /\ Walking /\ tag = NoTag /\ here < shown
    /\ IF LastByte(here) = {} THEN GiveUp
       ELSE /\ \E k \in LastByte(here) : here' = k + 1 /\ tag' = NumberAt(here, k, KeyWord)
            /\ UNCHANGED <<vars, shown, walk>>

SkipTo(places) ==
    IF places = {} THEN GiveUp
    ELSE here' \in places /\ tag' = NoTag /\ UNCHANGED <<vars, shown, walk>>

SkipAsField ==
    /\ Walking /\ tag # NoTag
    /\ \E f \in Root.fields : Key(f) = tag /\ SkipTo(SkipTyped(f.coder, here))

SkipAsUnknown ==
    /\ Walking /\ tag # NoTag
    /\ WireOf(tag) \in {0, 1, 2, 5}
    /\ SkipTo(SkipWire(WireOf(tag), here))

EndWalk ==
    /\ Walking /\ tag = NoTag /\ here = shown
    /\ walk' = "ok"
    /\ UNCHANGED <<vars, shown, here, tag>>

WalkNext ==
    \/ Write \/ (\E e \in 0..pos : CallWalk(e))
    \/ ReadKey \/ SkipAsField \/ SkipAsUnknown \/ EndWalk

\* The writer is that of Encoder, and it goes on as there.
WalkSpec == WalkInit /\ [][WalkNext]_<<vars, walked>> /\ WF_vars(Step)

----------------------------------------------------------------------------
(* Properties.                                                             *)

\* The keys and values that make message msg of coder c, from its k-th field
\* on, and those of all messages written.
Pieces(c, msg, k) ==
    LET from[j \in Nat] ==
            IF j > Len(c.order) THEN <<>>
            ELSE FieldValues(c.order[j], msg[c.order[j].number]) \o from[j + 1]
    IN  from[k]

PiecesOfAll(msgs) ==
    LET upTo[n \in Nat] == IF n = 0 THEN <<>> ELSE upTo[n - 1] \o Pieces(Root, msgs[n], 1)
    IN  upTo[Len(msgs)]

\* The places between two fields, which are the sums of the sizes that
\* encode_skip predicts for keys and values.
Boundaries ==
    LET all == PiecesOfAll(sent)
    IN  {Owed(SubSeq(all, 1, 2 * n)) : n \in 0 .. Len(all) \div 2}

\* "Corresponding to decoder, except it just skip the length of the decoded
\* object from the bytes" (skip.h:57-58): between two fields the walk is where
\* a field of a message begins, whichever skipper took it over each value,
\* and it fails exactly if the bytes were cut inside a field.
StaysOnFields ==
    /\ walk = "run" /\ tag = NoTag => here \in Boundaries
    /\ walk = "ok" => shown \in Boundaries
    /\ walk \in {"fail", "ub"} => shown \notin Boundaries
=============================================================================
