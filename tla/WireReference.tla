--------------------------- MODULE WireReference ---------------------------
(***************************************************************************)
(* The decoder against the grammar.                                        *)
(***************************************************************************)
EXTENDS Decoder, WireGrammar

\* Where a message may end: where the span does, or before the key of a field
\* of number 0.
Ends ==
    {e \in 0..limit :
        e = limit \/ \E k \in VarintAt(buf, e, limit, KeyWord, KeyWord) : NumberOf(k.val) = 0}

\* The message that the bytes of the span before e are.
Messages(e) ==
    {Filled(root, EmptyMessage(root), items) :
        items \in Contents(buf, limit)[Window(root, 0, e)]}

\* Every well-formed message is decoded, to the value the grammar gives it
\* and up to its end, in both modes (message.h:413-430, 480-506), and what
\* follows a field number of 0 is not looked at (message.h:347-349).
DecodesWellFormed ==
    status # "run" => \A e \in Ends : \A msg \in Messages(e) :
        status = "ok" /\ pos = e /\ Result = msg
=============================================================================
