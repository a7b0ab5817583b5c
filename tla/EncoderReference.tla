-------------------------- MODULE EncoderReference --------------------------
(***************************************************************************)
(* The encoder against the grammar.                                        *)
(***************************************************************************)
EXTENDS Encoder, WireGrammar, Merge

\* A field holds what push_field makes of its values, one after the other: a
\* singular field holds one at most, and a map is in the order of its keys.
Holds(f, vs) ==
    \A j \in DOMAIN vs :
        PushField([k \in {f.number} |-> SubSeq(vs, 1, j - 1)], f, vs[j])[f.number]
            = SubSeq(vs, 1, j)

\* wire_type<C>.  A bool is a fixed-length value of wire type 0.
HasWire(c, wire) ==
    CASE c.kind = "varint" -> wire = 0
      [] c.kind = "fixed" ->
            \/ wire \in {1, 5} /\ c.size = FixedSize[wire]
            \/ wire = 0 /\ c.size = 1 /\ \A v \in ValuesOf(c) : ~Continues(v[1])
      [] OTHER -> wire = 2

\* The values are those of the types: a number fits its word, which is not
\* wider than the type that it is shifted in, a string fits in memory, and a
\* message type lists no field twice, has none with number 0, and each has the
\* wire type of its coder.
ASSUME ValuesAssumption ==
    /\ KeyWord % 8 = 0 /\ LenWord > 1
    /\ \A c \in Coders :
        /\ c.kind = "varint" => c.word <= c.shift /\ c.shift > 1
        /\ c.kind = "message" =>
            /\ \A f \in c.fields : NumberOf(Key(f)) # 0 /\ HasWire(f.coder, f.wire)
            /\ \A j, k \in DOMAIN c.order : c.order[j] = c.order[k] => j = k
        /\ \A v \in ValuesOf(c) :
            /\ c.kind = "varint" => v < c.word
            /\ c.kind = "array" /\ c.reserves => ContentSkip(c, v) <= MaxReserve
            /\ c.kind = "message" =>
                /\ v = [k \in NumbersOf(c) |-> v[k]]
                /\ \A f \in c.fields : Holds(f, v[f.number])

\* What a call wrote is well-formed, between the bytes of the calls before it
\* and whatever follows, and it says the message that was encoded: nothing is
\* lost, and every embedded message and array lies in the window its length
\* declares (message.h:377-410, 469-477; array.h:48-57).
WrittenIsWellFormed ==
    status = "ok" =>
        \E items \in Contents(buf, Capacity)[Window(Root, start, pos)] :
            Filled(Root, EmptyMessage(Root), items) = sent[Len(sent)]

\* What all calls wrote, one after the other, is well-formed too, and it says
\* what merge makes of their messages: messages can be written one after the
\* other and read as one (message.h:330-336, 413-430).
WrittenIsMerged ==
    status = "ok" =>
        \E items \in Contents(buf, Capacity)[Window(Root, 0, pos)] :
            Filled(Root, EmptyMessage(Root), items) = Merged(Root, sent)
=============================================================================
