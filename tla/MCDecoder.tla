------------------------------ MODULE MCDecoder ------------------------------
(***************************************************************************)
(* TLC instance of Decoder.                                                *)
(***************************************************************************)
EXTENDS MCSchema, WireReference, DecoderModes

CONSTANTS InputBytes, MaxInput

MCRoots == {MCRoot}

\* Every span of up to MaxInput of the chosen bytes, and some longer ones for
\* what takes more: two elements of the map, with equal or different keys, and
\* with a negative key between them; an embedded message twice; unknown fields
\* of every wire type in between; an embedded message that reads on past the
\* length it declares.  The key of field 4 is 34 1, and an element of the map
\* has keys 8 and 16.
MapElement(k, v) == <<34, 1, 4, 8, k, 16, v>>

LongSpans ==
    {MapElement(j, 1) \o MapElement(k, 2) : j, k \in {0, 1, 2}}
    \cup {MapElement(j, 1) \o <<34, 1, 5, 8, 33, 1, 16, 2>> \o MapElement(k, 3) : j, k \in {0, 1}}
    \cup {MapElement(2, 1) \o s \o MapElement(1, 2) :
            s \in {<<>>, <<24, 33, 1>>, <<25, 0, 0>>, <<29, 0>>, <<10, 1, 0>>, <<18, 2, 8, 1>>}}
    \cup {<<18, 4, 8, 1, 8, 2>> \o s \o <<18, 2, 8, 3>> : s \in {<<>>, <<26, 2, 0, 1>>, <<41, 1, 7, 33>>}}
    \cup {<<18, 4, 8, 1, 10, 1, 8>> \o s : s \in {<<>>, <<8, 2>>, <<0>>}}
    \cup {<<18, l, 8, 1, 8>> \o s : l \in 2..4, s \in {<<1>>, <<16, 1>>, <<33, 1>>}}

MCInputs ==
    (UNION {[0 .. l - 1 -> InputBytes] : l \in 0..MaxInput})
    \cup {[k \in 0 .. Len(s) - 1 |-> s[k + 1]] : s \in LongSpans}

\* "Push a value into a field: overwrite if it is singular, insert to end
\* otherwise" (field.h:283): so an element that a map field is given is in the
\* field afterwards.
PushedIsThere ==
    [][EndLoop /\ depth = 2 /\ stack[1].field.attr = "map" /\ status' = "run" =>
          LET vs == vals'[1][stack[1].field.number] IN
          \E j \in DOMAIN vs : vs[j] = vals[2]]_vars
=============================================================================
