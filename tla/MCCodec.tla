------------------------------ MODULE MCCodec ------------------------------
(***************************************************************************)
(* TLC instance of Codec, and what a reader makes of what was written.     *)
(***************************************************************************)
EXTENDS MCSchema, MCEncodeSkip, Codec, SequencesExt

MCMessages ==
    {<<x, <<>>, p[1], t, p[2]>> :
        x \in Optional({40}),
        p \in {<< <<>>, <<>> >>}
              \cup ({<< << <<33>> >> >>} \X Optional(PartsOf(Double))),
        t \in {<<>>, << << <<1>>, <<>> >> >>}}
    \cup {<< <<0>>, << << <<>> >> >>, <<>>, << << <<>>, <<2>> >>, << <<1>>, <<40>> >> >>, <<>> >>,
          << <<0>>, << << <<33, 0>> >> >>, <<>>, <<>>, <<>> >>}

\* Another version of Root: fields 3 and 4 are gone, 6 is new, 5 has become a
\* number, and message Inner has lost its only field.
Nothing == MessageOf(<<>>)
Evolved == MessageOf(<<FieldOf(6, 0, Scalar, "repeated"), FieldOf(2, 2, Nothing, "singular"),
                       FieldOf(1, 0, Scalar, "singular"), FieldOf(5, 0, Scalar, "singular")>>)

MCReaders == {MCRoot, Evolved}
CodecCoders == MCCoders \cup {Nothing, Evolved}
MCVersions == {<<c, c>> : c \in CodecCoders} \cup {<<MCRoot, Evolved>>, <<Inner, Nothing>>}

RECURSIVE MCView(_, _, _)
MCView(c, d, v) ==
    IF c.kind # "message" THEN v
    ELSE [k \in NumbersOf(d) |->
            LET both == {p \in c.fields \X d.fields : p[2].number = k /\ Key(p[1]) = Key(p[2])}
            IN  IF both = {} THEN <<>>
                ELSE LET p == CHOOSE p \in both : TRUE
                     IN  [j \in DOMAIN v[k] |-> MCView(p[1].coder, p[2].coder, v[k][j])]]

MCValuesOf(c) ==
    CASE c = MCRoot  -> MCMessages
      [] c = Evolved -> {MCView(MCRoot, Evolved, msg) : msg \in MCMessages}
      [] c = Nothing -> {EmptyMessage(Nothing)}
      [] OTHER       -> PartsOf(c)

----------------------------------------------------------------------------
\* The values written for message msg, in the order of its fields.
PiecesOf(msg) ==
    LET Of(f) == [j \in DOMAIN msg[f.number] |-> [field |-> f, v |-> msg[f.number][j]]]
    IN  FlattenSeq([k \in DOMAIN Root.order |-> Of(Root.order[k])])

Pieces == PiecesOf(sent[1]) \o (IF Len(sent) = 1 THEN <<>> ELSE PiecesOf(sent[2]))

RECURSIVE SizeOf(_), Pushed(_)
SizeOf(n) == IF n = 0 THEN 0
             ELSE LET p == Pieces[n] IN
                  SizeOf(n - 1) + VarintSkip(Key(p.field)) + ValueSkip(p.field.coder, p.v)
Pushed(n) == IF n = 0 THEN EmptyMessage(Root)
             ELSE PushField(Pushed(n - 1), Pieces[n].field, Pieces[n].v)

\* A prefix that ends between two fields is the message of the fields before
\* its end, and one that ends inside a field is rejected: a cut never yields a
\* value nobody wrote (message.h:413-430).
PrefixDecodes ==
    Over /\ cut <= pos =>
        LET whole == {n \in 0 .. Len(Pieces) : SizeOf(n) = cut} IN
        IF whole = {} THEN outcome = IF mode = "safe" THEN "fail" ELSE "ub"
        ELSE outcome = "ok" /\ \A n \in whole : vals[1] = View(Root, reader, Pushed(n))
=============================================================================
