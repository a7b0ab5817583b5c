---------------------------- MODULE WireGrammar ----------------------------
(***************************************************************************)
(* The wire format as a grammar: what a well-formed message is, and what   *)
(* it says.  Unlike the decoder, it reads every embedded message and array *)
(* inside the window its length declares.  What there is at a place is a   *)
(* set, empty or of one element.                                           *)
(***************************************************************************)
EXTENDS Schema

\* A value and the place after it.
Found(e, v) == [end |-> e, val |-> v]

\* The varint at lo that ends before hi, of no more groups than a shift in a
\* type of 0 .. shift-1 can move in place, as a number of 0 .. word-1.
VarintAt(bytes, lo, hi, word, shift) ==
    {Found(k + 1, NumberFrom(bytes, lo)[k - lo + 1] % word) :
        k \in {j \in LastOfVarint(bytes, lo, hi) : Weight[j - lo] < shift}}

LengthAt(bytes, lo, hi) ==
    {l \in VarintAt(bytes, lo, hi, LenWord, LenWord) : l.end + l.val <= hi}

\* Where the value of an unknown field that begins at lo ends.
SkipEnds(bytes, wire, lo, hi) ==
    CASE wire = 0 -> {k + 1 : k \in LastOfVarint(bytes, lo, hi)}
      [] wire = 2 -> {l.end + l.val : l \in LengthAt(bytes, lo, hi)}
      [] wire \in {1, 5} -> {e \in {lo + FixedSize[wire]} : e <= hi}
      [] OTHER -> {}

\* What an array or message holds is the sequence of the values it is given,
\* each with its field.
Item(f, v) == [field |-> f, val |-> v]

PushItem(c, v, it) ==
    IF c.kind = "array" THEN Append(v, it.val) ELSE PushField(v, it.field, it.val)

\* v after the items.
Filled(c, v, items) ==
    LET filled[k \in Nat] == IF k = 0 THEN v ELSE PushItem(c, filled[k - 1], items[k])
    IN  filled[Len(items)]

\* The window of an array or message, and all windows of n bytes.
Window(c, lo, hi) == [coder |-> c, lo |-> lo, hi |-> hi]
Windows(n) == [coder : LoopCoders, lo : Nat, hi : 0..n]

\* The value of coder c that begins at lo, where contents[w] is what there is
\* in window w.  A string is one that memory can be reserved for.
ValueAt(bytes, contents, c, lo, hi) ==
    CASE c.kind = "varint" -> VarintAt(bytes, lo, hi, c.word, c.shift)
      [] c.kind = "fixed" ->
            IF lo + c.size > hi THEN {}
            ELSE {Found(lo + c.size, [j \in 1 .. c.size |-> bytes[lo + j - 1]])}
      [] OTHER ->
            UNION {{Found(l.end + l.val, Filled(c, EmptyValue(c), items)) :
                        items \in contents[Window(c, l.end, l.end + l.val)]} :
                   l \in {m \in LengthAt(bytes, lo, hi) :
                            c.kind = "array" /\ c.reserves => m.val <= MaxReserve}}

\* What begins with a value for field f of c, or an element of an array, at lo.
ItemsAt(bytes, contents, c, f, callee, lo, hi) ==
    UNION {{<<Item(f, v.val)>> \o rest : rest \in contents[Window(c, v.end, hi)]} :
           v \in ValueAt(bytes, contents, callee, lo, hi)}

\* What begins with key k, which ends at lo.
FieldsAt(bytes, contents, c, k, lo, hi) ==
    LET known == {f \in c.fields : Key(f) = k}
    IN  IF known # {}
        THEN UNION {ItemsAt(bytes, contents, c, f, f.coder, lo, hi) : f \in known}
        ELSE UNION {contents[Window(c, e, hi)] : e \in SkipEnds(bytes, WireOf(k), lo, hi)}

ContentsStep(bytes, contents, w) ==
    CASE w.lo = w.hi -> {<<>>}
      [] w.lo > w.hi -> {}
      [] w.lo < w.hi /\ w.coder.kind = "array" ->
            ItemsAt(bytes, contents, w.coder, NoField, w.coder.elem, w.lo, w.hi)
      [] w.lo < w.hi /\ w.coder.kind = "message" ->
            UNION {FieldsAt(bytes, contents, w.coder, k.val, k.end, w.hi) :
                   k \in {l \in VarintAt(bytes, w.lo, w.hi, KeyWord, KeyWord) :
                            NumberOf(l.val) # 0}}

Contents(bytes, n) ==
    LET contents[w \in Windows(n)] == ContentsStep(bytes, contents, w) IN contents
=============================================================================
