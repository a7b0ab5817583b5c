---------------------------- MODULE MCEncodeSkip ----------------------------
(***************************************************************************)
(* ContentSkip for the runs, by recursion on the values.  That it solves   *)
(* the equations of EncodeSkip is among the assumptions that TLC evaluates.*)
(***************************************************************************)
EXTENDS EncodeSkip

RECURSIVE MCContentSkip(_, _)
MCContentSkip(c, val) ==
    LET Size(d, x) == CASE d.kind = "varint" -> VarintSkip(x)
                        [] d.kind = "fixed" -> d.size
                        [] OTHER -> MCContentSkip(d, x) + VarintSkip(MCContentSkip(d, x))
        Sizes(d, key, xs) == Total([j \in DOMAIN xs |-> key + Size(d, xs[j])])
        OfField(f) == Sizes(f.coder, VarintSkip(Key(f)), val[f.number])
    IN  IF c.kind = "array" THEN Sizes(c.elem, 0, val)
        ELSE Total([k \in DOMAIN c.order |-> OfField(c.order[k])])
=============================================================================
