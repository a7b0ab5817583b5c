------------------------------- MODULE Schema -------------------------------
(***************************************************************************)
(* Message types and the values they hold: field and message of field.h    *)
(* and message.h, map_field of map.h.  A type is a constant here, as it is *)
(* fixed at compile time in the code.                                      *)
(***************************************************************************)
EXTENDS WireFormat, Sequences

CONSTANTS
    KeyWord,     \* 2^32: the range of a field key, a uint<4>
    LenWord,     \* 2^64: the range of a length, a uint<8>
    MaxReserve,  \* the longest std::string that reserve() can provide for
    FixedSize,   \* FixedSize[w]: sizeof the integers of wire type w, 1 or 5
    KeyOrder,    \* KeyOrder[c]: the pairs <<a, b>> of keys with a < b, in the
                 \*   key type of a map whose elements have coder c
    Coders       \* the coders of the schema, one record each:
                 \*   kind "varint":  word, shift (the promoted width)
                 \*   kind "fixed":   size
                 \*   kind "array":   elem, reserves (R is std::string)
                 \*   kind "message": fields, and order, which lists them

Kinds == {"varint", "fixed", "array", "message"}
Attributes == {"singular", "repeated", "map"}

Key(f) == KeyOf(f.number, f.wire, KeyWord)

\* The coders whose values are read in a loop.
LoopCoders == {c \in Coders : c.kind \in {"array", "message"}}

NoField == [number |-> 0]

\* No two fields of a message have the same number, or the same key.
ASSUME SchemaAssumption ==
    /\ KeyWord \in Nat \ {0} /\ LenWord \in Nat \ {0}
    /\ MaxReserve \in Nat
    /\ FixedSize \in [{1, 5} -> Nat \ {0}]
    /\ \A c \in Coders :
        /\ c.kind \in Kinds
        /\ c.kind = "varint" => c.word \in Nat \ {0} /\ c.shift \in Nat
        /\ c.kind = "fixed" => c.size \in Nat \ {0}
        /\ c.kind = "array" => c.elem \in Coders
        /\ c.kind = "message" =>
            /\ c.order \in Seq(c.fields)
            /\ \A f \in c.fields :
                /\ f.coder \in Coders /\ f.attr \in Attributes
                /\ f.number \in Nat /\ f.wire \in Nat
                /\ \E k \in DOMAIN c.order : c.order[k] = f
                /\ \A g \in c.fields : f.number = g.number \/ Key(f) = Key(g) => f = g

----------------------------------------------------------------------------
(* Values: a message maps each field number to the values the field holds, *)
(* a singular field to at most one.                                        *)

NumbersOf(c) == {f.number : f \in c.fields}
EmptyMessage(c) == [k \in NumbersOf(c) |-> <<>>]
EmptyValue(c) == IF c.kind = "message" THEN EmptyMessage(c) ELSE <<>>

\* std::less of two elements' keys: those of their key type, but an empty
\* optional comes first.
KeyLess(c, d, e) == e[1] # <<>> /\ (d[1] = <<>> \/ <<d[1][1], e[1][1]>> \in KeyOrder[c])

\* std::inserter on a map inserts nothing if the key is there.
MapInsert(c, m, e) ==
    LET Smaller(x) == KeyLess(c, x, e)
        Greater(x) == KeyLess(c, e, x)
    IN  IF \E j \in DOMAIN m : ~Smaller(m[j]) /\ ~Greater(m[j]) THEN m
        ELSE SelectSeq(m, Smaller) \o <<e>> \o SelectSeq(m, Greater)

\* Slip: a singular field keeps its first value.
PushFieldOnce(msg, f, v) ==
    [msg EXCEPT ![f.number] =
        CASE f.attr = "singular" -> IF @ = <<>> THEN <<v>> ELSE @
          [] f.attr = "repeated" -> Append(@, v)
          [] f.attr = "map"      -> MapInsert(f.coder, @, v)]

\* push_field
PushField(msg, f, v) ==
    [msg EXCEPT ![f.number] =
        CASE f.attr = "singular" -> <<v>>
          [] f.attr = "repeated" -> Append(@, v)
          [] f.attr = "map"      -> MapInsert(f.coder, @, v)]
=============================================================================
