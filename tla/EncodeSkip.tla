----------------------------- MODULE EncodeSkip -----------------------------
(***************************************************************************)
(* encode_skip of the skippers (skip.h, array.h, message.h): the size of a *)
(* value's encoding, computed without writing it.                          *)
(*                                                                         *)
(* The functions call each other to the depth of the types.  ContentSkip   *)
(* is a constant here, and whoever uses it assumes that it solves the      *)
(* equations: ContentSkip(c, v) = ContentSize(c, v).                       *)
(***************************************************************************)
EXTENDS Schema

CONSTANT
    ContentSkip(_, _)  \* encode_skip of an array or message coder, without
                       \* the length that goes before the value

\* The sum of a sequence.
Total(s) ==
    LET upTo[k \in Nat] == IF k = 0 THEN 0 ELSE upTo[k - 1] + s[k]
    IN  upTo[Len(s)]

\* Slip: zero has no byte.
VarintSkipOfDigits(n) ==
    LET size[m \in Nat] == IF m = 0 THEN 0 ELSE size[m \div Base] + 1
    IN  size[n]

VarintSkip(n) ==
    LET size[m \in Nat] == IF m \div Base = 0 THEN 1 ELSE size[m \div Base] + 1
    IN  size[n]

\* All of the bytes of a value of coder c.
ValueSkip(c, v) ==
    CASE c.kind = "varint" -> VarintSkip(v)
      [] c.kind = "fixed" -> c.size
      [] OTHER -> LET n == ContentSkip(c, v) IN n + VarintSkip(n)

\* The key and the value of each value of field f.
FieldSkip(f, vs) ==
    Total([j \in DOMAIN vs |-> VarintSkip(Key(f)) + ValueSkip(f.coder, vs[j])])

\* The elements of an array, the fields of a message: without the length.
ContentSize(c, v) ==
    IF c.kind = "array"
    THEN Total([j \in DOMAIN v |-> ValueSkip(c.elem, v[j])])
    ELSE Total([k \in DOMAIN c.order |-> FieldSkip(c.order[k], v[c.order[k].number])])
=============================================================================
