------------------------------ MODULE MCSchema ------------------------------
(***************************************************************************)
(* The message types of the runs.  Five payload bits per byte, so that the *)
(* keys of fields 1 to 3 take one byte and that of field 4 takes two.      *)
(*   message Inner { repeated uint32 a = 1; }                              *)
(*   message Root  { uint32 x = 1; fixed64 d = 5; Inner m = 2;             *)
(*                   string s = 3; map<int32, uint32> t = 4; }             *)
(* where a fixed64 has two bytes.                                          *)
(***************************************************************************)
EXTENDS Integers

Scalar == [kind |-> "varint", word |-> 64, shift |-> 64]
Octet  == [kind |-> "fixed", size |-> 1]
Double == [kind |-> "fixed", size |-> 2]
String == [kind |-> "array", elem |-> Octet, reserves |-> TRUE]

FieldOf(k, w, c, a) == [number |-> k, wire |-> w, coder |-> c, attr |-> a]

MessageOf(order) ==
    [kind |-> "message", order |-> order, fields |-> {order[k] : k \in DOMAIN order}]

Inner   == MessageOf(<<FieldOf(1, 0, Scalar, "repeated")>>)
Element == MessageOf(<<FieldOf(1, 0, Scalar, "singular"), FieldOf(2, 0, Scalar, "singular")>>)
MCRoot  == MessageOf(<<FieldOf(1, 0, Scalar, "singular"), FieldOf(5, 1, Double, "singular"),
                       FieldOf(2, 2, Inner, "singular"),
                       FieldOf(3, 2, String, "singular"), FieldOf(4, 2, Element, "map")>>)

MCCoders == {Scalar, Octet, Double, String, Inner, Element, MCRoot}

\* The keys of Element are signed: the words from 32 on are the negative ones.
MCKeyOrder ==
    LET Number(u) == IF u < 32 THEN u ELSE u - 64
    IN  [c \in {Element} |-> {p \in (0..63) \X (0..63) : Number(p[1]) < Number(p[2])}]

MCFixedSize == [w \in {1, 5} |-> IF w = 1 THEN 2 ELSE 1]

\* The values encoded, but for those of Root.  A message whose fields are
\* numbered from 1 is a tuple, and so is the value of a fixed-length coder.
PartsOf(c) ==
    CASE c = Scalar  -> {0, 1, 2, 33, 40}
      [] c = Octet   -> {<<0>>, <<33>>}
      [] c = Double  -> {<<7, 33>>}
      [] c = String  -> {<<>>, << <<33>> >>, << <<33>>, <<0>> >>}
      [] c = Inner   -> {<< <<>> >>, << <<33, 0>> >>}
      [] c = Element -> {<< <<1>>, <<>> >>, << <<>>, <<2>> >>, << <<1>>, <<40>> >>}
      [] OTHER       -> {}

\* At most one of S, as a singular field holds it.
Optional(S) == {<<>>} \cup {<<v>> : v \in S}
=============================================================================
