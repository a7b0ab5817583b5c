-------------------------- MODULE MCMessageObject --------------------------
(***************************************************************************)
(* TLC instance of MessageObject: a message type with a field of every     *)
(* kind, of which the first and the last have one name.                    *)
(***************************************************************************)
EXTENDS MessageObject

MCField(name, number, attr, owns) ==
    [name |-> name, number |-> number, attr |-> attr, owns |-> owns]
MCFields == <<MCField("a", 1, "singular", TRUE),
              MCField("b", 2, "repeated", TRUE),
              MCField("a", 3, "map", TRUE)>>
MCRunKeys == [name |-> {"a", "c"}, number |-> {3}]
=============================================================================
