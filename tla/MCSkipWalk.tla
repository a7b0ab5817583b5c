----------------------------- MODULE MCSkipWalk -----------------------------
(***************************************************************************)
(* TLC instances of SkipWalk: a message with a field of every coder but an *)
(* enum, and one with an enum.                                             *)
(***************************************************************************)
EXTENDS MCSchema, MCEncodeSkip, SkipWalk

Bool == [kind |-> "fixed", size |-> 1, of |-> "bool"]
Enum == [kind |-> "varint", word |-> 64, shift |-> 64, of |-> "enum"]

SkipRoot == MessageOf(<<FieldOf(1, 0, Scalar, "repeated"), FieldOf(2, 2, Inner, "singular"),
                        FieldOf(3, 2, String, "singular"), FieldOf(4, 2, Element, "map"),
                        FieldOf(5, 1, Double, "singular"), FieldOf(6, 0, Bool, "singular")>>)
EnumRoot == MessageOf(<<FieldOf(1, 0, Enum, "singular"), FieldOf(2, 2, Inner, "singular")>>)

SkipCoders == {Scalar, Octet, Double, String, Inner, Element, Bool, SkipRoot}
MCEnums == {Enum}
EnumCoders == {Scalar, Inner, Enum, EnumRoot}

SkipMessages ==
    {<<x, <<>>, <<>>, t, <<>>, b>> :
        x \in {<<>>, <<40, 1>>}, b \in Optional({<<1>>}),
        t \in {<<>>, << << <<>>, <<2>> >>, << <<1>>, <<40>> >> >>}}
    \cup {<< <<>>, m, s, <<>>, d, <<>> >> :
        m \in Optional({<< <<33, 0>> >>}), s \in Optional({<<>>, << <<33>>, <<0>> >>}),
        d \in Optional(PartsOf(Double))}

SkipValuesOf(c) ==
    CASE c = SkipRoot -> SkipMessages
      [] c = EnumRoot -> {<<e, m>> : e \in Optional({2}), m \in Optional({<< <<33, 0>> >>})}
      [] c = Bool -> {<<0>>, <<1>>}
      [] c = Enum -> {2}
      [] OTHER -> PartsOf(c)
=============================================================================
