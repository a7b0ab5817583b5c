----------------------------- MODULE MCEncoder -----------------------------
(***************************************************************************)
(* TLC instance of Encoder: spans of every length, too short ones as well. *)
(***************************************************************************)
EXTENDS MCSchema, MCEncodeSkip, EncoderReference

MCMessages ==
    {<<x, m, s, t, d>> :
        x \in Optional({0, 40}), d \in Optional(PartsOf(Double)),
        m \in Optional(PartsOf(Inner)), s \in Optional({<<>>, << <<33>>, <<0>> >>}),
        t \in {<<>>, << << <<1>>, <<>> >> >>, << << <<>>, <<2>> >>, << <<1>>, <<40>> >> >>}}

MCValuesOf(c) == IF c = MCRoot THEN MCMessages ELSE PartsOf(c)
=============================================================================
