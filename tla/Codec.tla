------------------------------- MODULE Codec -------------------------------
(***************************************************************************)
(* A writer and a reader: messages are encoded one after the other into    *)
(* one zeroed buffer (Encoder), and the buffer, or a prefix of what was    *)
(* written, is decoded by a reader (Decoder), perhaps with another version *)
(* of the message type.                                                    *)
(***************************************************************************)
EXTENDS EncoderReference

CONSTANTS
    Readers,       \* the coders of the message that readers have
    Versions,      \* the pairs <<c, d>> where a reader may have d for c
    View(_, _, _)  \* View(c, d, v): what v, that coder c writes, is to d

\* Numbers and fixed-length values are read as what they are, arrays element
\* by element.  Of a message the reader keeps the fields that it knows by their
\* key, which have the attribute that they have for the writer; those of its
\* own that the writer has no field for are empty.
ASSUME VersionsAssumption ==
    /\ Readers \subseteq {d \in Coders : <<Root, d>> \in Versions}
    /\ \A c \in Coders : <<c, c>> \in Versions /\ \A v \in ValuesOf(c) : View(c, c, v) = v
    /\ \A c, d \in Coders : <<c, d>> \in Versions =>
        /\ c.kind = d.kind
        /\ c.kind \in {"varint", "fixed"} => c = d
        /\ \A v \in ValuesOf(c) : View(c, d, v) \in ValuesOf(d)
        /\ c.kind = "array" =>
            /\ <<c.elem, d.elem>> \in Versions /\ c.reserves = d.reserves
            /\ \A v \in ValuesOf(c) :
                View(c, d, v) = [j \in DOMAIN v |-> View(c.elem, d.elem, v[j])]
        /\ c.kind = "message" => \A g \in d.fields :
            /\ \A f \in c.fields : Key(f) = Key(g) =>
                /\ f.number = g.number /\ f.attr = g.attr /\ <<f.coder, g.coder>> \in Versions
                /\ \A v \in ValuesOf(c) : LET vs == v[f.number] IN
                    View(c, d, v)[g.number] = [j \in DOMAIN vs |-> View(f.coder, g.coder, vs[j])]
            /\ (\A f \in c.fields : Key(f) # Key(g)) =>
                \A v \in ValuesOf(c) : View(c, d, v)[g.number] = <<>>

VARIABLES
    cut,           \* the reader is given bytes 0 .. cut-1
    at, stack, vals, rd, outcome

written == vars
read == <<cut, at, stack, vals, rd, outcome>>

AllSpans == UNION {[0 .. l - 1 -> Byte] : l \in 0..Capacity}

Dec == INSTANCE Decoder WITH
    Roots <- Readers, Inputs <- AllSpans,
    buf <- [k \in 0 .. cut - 1 |-> buf[k]],
    limit <- cut, pos <- at, status <- outcome

\* The reader's coder of the message.
reader == Dec!root

CodecInit ==
    /\ Init /\ limit = Capacity
    /\ cut = 0 /\ at = 0
    /\ stack = <<>> /\ vals = <<>> /\ rd = Dec!AtHead
    /\ outcome = "idle"

Encode == outcome = "idle" /\ Next /\ UNCHANGED read

\* message_coder<c>::decode on the first e bytes
CallDecode(c, e) ==
    /\ outcome = "idle" /\ status = "ok"
    /\ cut' = e /\ at' = 0
    /\ stack' = <<Dec!Frame(c, 0, e)>>
    /\ vals' = <<EmptyMessage(c)>>
    /\ rd' = Dec!AtHead
    /\ outcome' = "run"
    /\ UNCHANGED written

Decode ==
    /\ outcome = "run"
    /\ UNCHANGED written /\ UNCHANGED cut
    /\ Dec!Next

\* A prefix of what was written, or the whole buffer, zeros at its end.
CodecNext ==
    \/ Encode
    \/ \E c \in Readers, e \in (0..pos) \cup {Capacity} : CallDecode(c, e)
    \/ Decode

\* The writer is that of Encoder, and it goes on as there.
CodecSpec == CodecInit /\ [][CodecNext]_<<written, read>> /\ WF_vars(Step)

----------------------------------------------------------------------------
(* Properties.                                                             *)

Over == outcome \notin {"idle", "run"}

\* Decode inverts encode: a reader that has the writer's message type, and is
\* given all that was written, gets the message that was written, or what
\* merge makes of several, in both modes (message.h:330-336, 377-430;
\* field.h:307-330).  Zeros after it are left alone (README.md:70-78).
DecodesMerge ==
    Over /\ reader = Root /\ cut >= pos =>
        outcome = "ok" /\ at = pos /\ vals[1] = Merged(Root, sent)

\* A reader with another version of the message type, given all that was
\* written, gets what merge makes of the fields that it knows of, and skips
\* over the others, however the types nest (message.h:346-363; skip.h:55-58).
KeepsKnownFields ==
    Over /\ reader # Root /\ cut >= pos =>
        /\ outcome = "ok" /\ at = pos
        /\ vals[1] = Merged(reader, [j \in DOMAIN sent |-> View(Root, reader, sent[j])])
=============================================================================
