------------------------------- MODULE Merge -------------------------------
(***************************************************************************)
(* message::merge, merge_field and the free function merge (message.h,     *)
(* field.h) in their default merge_mode.                                   *)
(***************************************************************************)
EXTENDS Schema

\* std::inserter: a map after the elements, inserted one after the other.
Inserted(c, m, elements) ==
    LET inserted[k \in Nat] ==
            IF k = 0 THEN m ELSE MapInsert(c, inserted[k - 1], elements[k])
    IN  inserted[Len(elements)]

\* Slip: a singular field that has a value keeps it (assign_if_empty).
MergeFieldIfEmpty(f, vs, other) ==
    CASE f.attr = "singular" -> IF vs = <<>> THEN other ELSE vs
      [] f.attr = "repeated" -> vs \o other
      [] f.attr = "map"      -> Inserted(f.coder, vs, other)

\* merge_field: a singular field is overwritten if the other has a value, the
\* values of any other field are inserted at its end.
MergeField(f, vs, other) ==
    CASE f.attr = "singular" -> IF other = <<>> THEN vs ELSE other
      [] f.attr = "repeated" -> vs \o other
      [] f.attr = "map"      -> Inserted(f.coder, vs, other)

MergeMessages(c, msg, other) ==
    [k \in NumbersOf(c) |->
        LET f == CHOOSE g \in c.fields : g.number = k
        IN  MergeField(f, msg[k], other[k])]

\* merge(msg1, ..., msgN): res begins as msg1.
Merged(c, msgs) ==
    LET merged[n \in Nat] ==
            IF n <= 1 THEN msgs[1] ELSE MergeMessages(c, merged[n - 1], msgs[n])
    IN  merged[Len(msgs)]
=============================================================================
