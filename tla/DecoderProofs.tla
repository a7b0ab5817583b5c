---------------------------- MODULE DecoderProofs ----------------------------
(***************************************************************************)
(* Proofs about Decoder, for every schema and every span; the last is that *)
(* it decodes what the grammar describes.                                  *)
(***************************************************************************)
EXTENDS DecoderModes, WireReference, WireGrammarProofs

USE BaseAssumption, SchemaAssumption, DecoderAssumption

-----------------------------------------------------------------------------
(* The call stack.                                                         *)

\* The end of a loop leaves the frames of its callers as they are.
LEMMA PopFrame ==
    ASSUME NEW s \in Seq(Frames), Len(s) > 1
    PROVE  LET t == SubSeq(s, 1, Len(s) - 1) IN
           /\ t \in Seq(Frames) /\ Len(t) = Len(s) - 1
           /\ \A d \in 1 .. Len(t) : t[d] = s[d]
BY SMT

\* A new loop is put on top of its callers.
LEMMA PushFrame ==
    ASSUME NEW s \in Seq(Frames), NEW f \in Frames
    PROVE  /\ Append(s, f) \in Seq(Frames) /\ Len(Append(s, f)) = Len(s) + 1
           /\ \A d \in 1 .. Len(s) : Append(s, f)[d] = s[d]
           /\ Append(s, f)[Len(s) + 1] = f
BY SMT

\* A field is set in the frame on top, and nowhere else.
LEMMA SetField ==
    ASSUME NEW s \in Seq(Frames), Len(s) > 0, NEW g \in Fields
    PROVE  LET t == [s EXCEPT ![Len(s)].field = g] IN
           /\ t \in Seq(Frames) /\ Len(t) = Len(s)
           /\ \A d \in 1 .. Len(s) - 1 : t[d] = s[d]
           /\ t[Len(s)] = [s[Len(s)] EXCEPT !.field = g]
           /\ t[Len(s)].coder = s[Len(s)].coder /\ t[Len(s)].field = g
           /\ t[Len(s)].origin = s[Len(s)].origin
<1> DEFINE k == Len(s)
           t == [s EXCEPT ![k].field = g]
<1>1. k \in 1 .. Len(s) /\ s[k] \in Frames BY SMT
<1>2. [s[k] EXCEPT !.field = g] \in Frames BY <1>1 DEF Frames
<1>3. t = [s EXCEPT ![k] = [s[k] EXCEPT !.field = g]] BY <1>1
<1>4. t \in Seq(Frames) /\ Len(t) = Len(s) /\ t[k] = [s[k] EXCEPT !.field = g]
  <2> HIDE BaseAssumption, SchemaAssumption, DecoderAssumption
  <2> QED BY <1>1, <1>2, <1>3, SMT
<1>5. \A d \in 1 .. Len(s) - 1 : t[d] = s[d] BY <1>1, <1>3, SMT
<1>6. t[k].coder = s[k].coder /\ t[k].field = g /\ t[k].origin = s[k].origin
  BY <1>1, <1>4 DEF Frames
<1> QED BY <1>4, <1>5, <1>6

-----------------------------------------------------------------------------
(* Type correctness.                                                       *)

\* What a coder's decode begins with fits the kind of the coder.
LEMMA CallType ==
    ASSUME NEW c \in Coders, NEW p \in Nat, Call(c, p)
    PROVE  /\ rd' \in Reads /\ rd'.iter = p /\ rd'.for \in {"value", "fixed", "length"}
           /\ rd'.for = "value" => c.kind = "varint"
           /\ rd'.for = "length" => c \in LoopCoders
<1>1. c.kind \in Kinds BY DEF Kinds
<1>2. CASE c.kind = "varint"
  BY <1>2 DEF Call, Reading, Reads, VarintReads, SpanReads
<1>3. CASE c.kind = "fixed"
  BY <1>3 DEF Call, Taking, Reads, VarintReads, SpanReads
<1>4. CASE c.kind \in {"array", "message"}
  BY <1>4 DEF Call, Reading, Reads, VarintReads, SpanReads, LoopCoders
<1> QED BY <1>1, <1>2, <1>3, <1>4 DEF Kinds

\* The innermost loop, and what it may call.
LEMMA TopType ==
    ASSUME TypeOK
    PROVE  /\ depth \in Nat \ {0} /\ stack \in Seq(Frames)
           /\ top \in Frames /\ FrameOK(top)
           /\ top.coder \in Coders /\ top.coder.kind \in {"array", "message"}
           /\ top.coder.kind = "array" => top.coder.elem \in Coders
           /\ top.coder.kind = "message" => \A f \in top.coder.fields :
                  f \in Fields /\ f.coder \in Coders
<1>1. depth \in Nat \ {0} /\ stack \in Seq(Frames) /\ depth \in 1..depth
  BY SMT DEF TypeOK, depth
<1>2. top \in Frames /\ FrameOK(top) BY <1>1, SMT DEF top, depth, TypeOK
<1>3. top.coder \in LoopCoders BY <1>2 DEF Frames
<1>4. top.coder \in Coders /\ top.coder.kind \in {"array", "message"} BY <1>3 DEF LoopCoders
<1>5. top.coder.kind = "message" => \A f \in top.coder.fields : f \in Fields /\ f.coder \in Coders
  BY <1>4 DEF Fields
<1> QED BY <1>1, <1>2, <1>4, <1>5

\* Moving pos on keeps every loop's origin behind it.
LEMMA FramesStay ==
    ASSUME TypeOK, NEW p \in Nat, pos <= p, pos' = p, stack' = stack
    PROVE  \A d \in 1..depth' : FrameOK(stack[d])'
<1> SUFFICES ASSUME NEW d \in 1..depth PROVE FrameOK(stack[d])'
  BY DEF depth
<1>1. stack[d] \in Frames /\ FrameOK(stack[d]) BY SMT DEF TypeOK, depth
<1>2. stack[d].origin \in Nat /\ stack[d].origin <= pos /\ pos \in Nat
  BY <1>1, SMT DEF Frames, FrameOK, TypeOK
<1> QED BY <1>1, <1>2, SMT DEF FrameOK

\* Back at the head of the same loop, with pos where the read ended.
LEMMA BackAtHead ==
    ASSUME TypeOK, NEW p \in pos..limit, pos' = p, stack' = stack, rd' = AtHead,
           status' \in {"run", "ok"}, UNCHANGED <<buf, mode, limit>>
    PROVE  TypeOK'
<1>1. p \in Nat /\ pos <= p /\ pos' \in 0..limit BY SMT DEF TypeOK
<1>2. \A d \in 1..depth' : FrameOK(stack[d])' BY <1>1, FramesStay
<1>3. rd' \in Reads /\ rd'.for = "head" BY DEF AtHead, Reads
<1>4. CalleeOK' BY <1>3 DEF CalleeOK
<1>5. stack' \in Seq(Frames) /\ depth' > 0 BY DEF TypeOK, depth
<1> QED BY <1>1, <1>2, <1>3, <1>4, <1>5 DEF TypeOK

\* The end of a loop goes back to the loop that called it.
LEMMA FinishType ==
    ASSUME TypeOK, Finish, status = "run", UNCHANGED <<buf, mode, limit, pos>>
    PROVE  TypeOK'
<1>1. CASE depth = 1
  BY <1>1, BackAtHead, SMT DEF Finish, TypeOK
<1>2. CASE depth # 1
  <2>1. /\ stack' = SubSeq(stack, 1, depth - 1) /\ rd' = AtHead /\ status' = "run"
    BY <1>2 DEF Finish
  <2>2. stack \in Seq(Frames) /\ Len(stack) > 1
    <3>1. depth \in Nat \ {0} /\ stack \in Seq(Frames) BY TopType
    <3>2. depth > 1 BY <1>2, <3>1, SMT
    <3> QED BY <3>1, <3>2 DEF depth
  <2>3. /\ stack' \in Seq(Frames) /\ depth' = depth - 1
        /\ \A d \in 1..depth' : stack'[d] = stack[d]
    BY <2>1, <2>2, PopFrame DEF depth
  <2>4. depth' > 0 BY <1>2, <2>2, <2>3, SMT DEF depth
  <2>5. ASSUME NEW d \in 1..depth' PROVE FrameOK(stack[d])'
    <3>1. d \in 1..depth BY <2>2, <2>3, SMT DEF depth
    <3> QED BY <2>3, <3>1 DEF FrameOK, TypeOK
  <2>6. rd' \in Reads /\ rd'.for = "head" BY <2>1 DEF AtHead, Reads
  <2>7. CalleeOK' BY <2>6 DEF CalleeOK
  <2> QED BY <2>1, <2>3, <2>4, <2>5, <2>6, <2>7 DEF TypeOK
<1> QED BY <1>1, <1>2

\* A read that goes on, or a new one, in the same loop.
LEMMA SameLoop ==
    ASSUME TypeOK, NEW p \in pos..limit, pos' = p, stack' = stack, rd' \in Reads,
           rd'.for # "head", rd'.iter \in p..limit, CalleeOK', status' = "run",
           UNCHANGED <<buf, mode, limit>>
    PROVE  TypeOK'
<1>1. p \in Nat /\ pos <= p /\ pos' \in 0..limit BY SMT DEF TypeOK
<1>2. \A d \in 1..depth' : FrameOK(stack[d])' BY <1>1, FramesStay
<1>3. stack' \in Seq(Frames) /\ depth' > 0 BY DEF TypeOK, depth
<1> QED BY <1>1, <1>2, <1>3 DEF TypeOK

\* A call that has ended, however it did, leaves everything where it was.
LEMMA EndType ==
    ASSUME TypeOK, status' \in {"fail", "throw", "ub"},
           UNCHANGED <<buf, mode, limit, pos, stack, rd>>
    PROVE  TypeOK'
<1>1. \A d \in 1..depth' : FrameOK(stack[d])'
  BY DEF TypeOK, depth, FrameOK
<1>2. CalleeOK' BY DEF TypeOK, CalleeOK, Callee, top, depth
<1> QED BY <1>1, <1>2 DEF TypeOK, depth

\* A byte's contribution to a varint is a number.
LEMMA AccumulatedType ==
    ASSUME TypeOK, InVarint, rd.iter < limit, NEW m \in Accumulated(buf[rd.iter])
    PROVE  m \in Nat
<1>1. rd \in Reads /\ rd.for \in VarintReads BY DEF TypeOK, InVarint
<1>2. rd.n \in Nat /\ rd.scale \in Nat /\ rd.iter \in 0 .. limit - 1
  <2>1. rd.n \in Nat /\ rd.scale \in Nat /\ rd.iter \in Nat BY <1>1 DEF Reads
  <2>2. limit \in Nat BY SMT DEF TypeOK
  <2> QED BY <2>1, <2>2, SMT
<1>3. buf[rd.iter] \in Nat BY <1>2, SMT DEF TypeOK, Byte
<1>4. WordOf \in Nat \ {0}
  <2>1. CASE rd.for = "value"
    <3>1. Callee \in Coders /\ Callee.kind = "varint" BY <2>1 DEF TypeOK, CalleeOK
    <3> QED BY <2>1, <3>1 DEF WordOf
  <2>2. CASE rd.for = "key" BY <2>2 DEF WordOf
  <2>3. CASE rd.for \in {"length", "skip", "skipLength"} BY <2>3 DEF WordOf
  <2> QED BY <1>1, <2>1, <2>2, <2>3 DEF VarintReads
<1>5. buf[rd.iter] % Base \in Nat BY <1>3, SMT
<1>6. (buf[rd.iter] % Base) * rd.scale \in Nat BY <1>2, <1>5, SMT
<1>7. (rd.n + (buf[rd.iter] % Base) * rd.scale) % WordOf \in Nat
  <2> DEFINE y == rd.n + (buf[rd.iter] % Base) * rd.scale
             w == WordOf
  <2>1. y \in Nat /\ w \in Nat \ {0} BY <1>2, <1>4, <1>6
  <2> HIDE DEF y, w
  <2>2. y % w \in Nat BY <2>1, SMT
  <2> QED BY <2>2 DEF y, w
<1>8. rd.n .. WordOf - 1 \subseteq Nat BY <1>2, <1>4, SMT
<1> QED BY <1>7, <1>8 DEF Accumulated, Accumulate

\* Where the read stands, in the span and past the begin of the loop.
LEMMA IterType ==
    ASSUME TypeOK, rd.for # "head"
    PROVE  /\ pos \in Nat /\ limit \in Nat /\ rd.iter \in Nat /\ rd.n \in Nat
           /\ pos <= rd.iter /\ rd.iter <= limit
           /\ rd.iter \in pos..limit /\ rd.iter \in rd.iter..limit
<1>1. rd.iter \in pos..limit /\ rd \in Reads BY DEF TypeOK
<1>2. pos \in Nat /\ limit \in Nat BY SMT DEF TypeOK
<1>3. rd.n \in Nat /\ rd.iter \in Nat BY <1>1 DEF Reads
<1> QED BY <1>1, <1>2, <1>3, SMT

\* A message loop that has bytes left reads a key.
LEMMA NextKeyType == ASSUME TypeOK, NextKey PROVE TypeOK'
<1>1. /\ rd' = Reading("key", pos) /\ top.coder.kind = "message" /\ status' = "run"
      /\ UNCHANGED <<buf, mode, limit, pos, stack>>
  BY DEF NextKey, AtLoopHead
<1>2. pos \in Nat /\ pos \in pos..limit BY SMT DEF TypeOK
<1>3. rd' \in Reads /\ rd'.for = "key" /\ rd'.iter = pos
  BY <1>1, <1>2 DEF Reading, Reads, VarintReads
<1>4. CalleeOK' BY <1>1, <1>3 DEF CalleeOK, top, depth
<1> QED BY <1>1, <1>2, <1>3, <1>4, SameLoop

\* An array loop that has bytes left calls the coder of its elements.
LEMMA NextElementType == ASSUME TypeOK, NextElement PROVE TypeOK'
<1>1. /\ Call(top.coder.elem, pos) /\ top.coder.kind = "array" /\ status' = "run"
      /\ UNCHANGED <<buf, mode, limit, pos, stack>>
  BY DEF NextElement, AtLoopHead
<1>2. pos \in Nat /\ pos \in pos..limit BY SMT DEF TypeOK
<1>3. top.coder.elem \in Coders BY <1>1, TopType
<1>4. /\ rd' \in Reads /\ rd'.iter = pos /\ rd'.for \in {"value", "fixed", "length"}
      /\ rd'.for = "value" => top.coder.elem.kind = "varint"
      /\ rd'.for = "length" => top.coder.elem \in LoopCoders
  BY <1>1, <1>2, <1>3, CallType
<1>5. Callee' = top.coder.elem BY <1>1 DEF Callee, top, depth
<1>6. CalleeOK' BY <1>3, <1>4, <1>5 DEF CalleeOK
<1> QED BY <1>1, <1>2, <1>4, <1>6, SameLoop

\* A byte of a varint is read inside the span.
LEMMA ReadGroupType == ASSUME TypeOK, ReadGroup PROVE TypeOK'
<1>1. /\ InVarint /\ rd.iter < limit /\ status' = "run"
      /\ UNCHANGED <<buf, mode, limit, pos, stack>>
  BY DEF ReadGroup, InVarint
<1>2. PICK m \in Accumulated(buf[rd.iter]) :
        rd' = [rd EXCEPT !.iter = @ + 1, !.n = m, !.scale = @ * Base,
                         !.done = ~Continues(buf[rd.iter])]
  BY DEF ReadGroup
<1>3. m \in Nat BY <1>1, <1>2, AccumulatedType
<1>4. rd \in Reads /\ rd.for \in VarintReads /\ rd.for # "head"
  BY <1>1 DEF TypeOK, InVarint, VarintReads
<1>5. rd.scale * Base \in Nat \ {0} /\ rd.iter + 1 \in Nat
  <2>1. rd.scale \in Nat \ {0} /\ rd.iter \in Nat BY <1>4 DEF Reads
  <2>2. \A x, b \in Nat \ {0} : x * b \in Nat \ {0}
    <3> HIDE BaseAssumption, SchemaAssumption, DecoderAssumption
    <3> QED BY SMT
  <2>3. \A x \in Nat : x + 1 \in Nat BY SMT
  <2>4. Base \in Nat \ {0} BY SMT
  <2> HIDE BaseAssumption, SchemaAssumption, DecoderAssumption
  <2> QED BY <2>1, <2>2, <2>3, <2>4, Zenon
<1>6. rd' \in Reads /\ rd'.for = rd.for /\ rd'.iter = rd.iter + 1
  BY <1>2, <1>3, <1>4, <1>5 DEF Reads, Continues
<1>7. pos \in pos..limit /\ rd'.iter \in pos..limit
  <2>1. pos \in Nat /\ limit \in Nat /\ rd.iter \in Nat /\ pos <= rd.iter
        BY <1>1, <1>4, IterType, SMT
  <2> HIDE BaseAssumption, SchemaAssumption, DecoderAssumption
  <2> QED BY <1>1, <1>6, <2>1, SMT
<1>8. CalleeOK' BY <1>1, <1>6 DEF TypeOK, CalleeOK, Callee, top, depth
<1> QED BY <1>1, <1>4, <1>6, <1>7, <1>8, SameLoop

\* The key of a field calls the coder of that field.
LEMMA KeyKnownType == ASSUME TypeOK, KeyKnown PROVE TypeOK'
<1> USE DEF KeyRead
<1>1. rd.for = "key" /\ status = "run" BY DEF KeyKnown
<1>2. PICK f \in Known : stack' = [stack EXCEPT ![depth].field = f] /\ Call(f.coder, rd.iter)
  BY DEF KeyKnown
<1>3. pos' = rd.iter /\ status' = "run" /\ UNCHANGED <<buf, mode, limit>>
  BY DEF KeyKnown
<1>4. top.coder.kind = "message" BY <1>1 DEF TypeOK, CalleeOK
<1>5. f \in top.coder.fields /\ f \in Fields /\ f.coder \in Coders
  BY <1>2, <1>4, TopType DEF Known
<1>6. /\ stack' \in Seq(Frames) /\ depth' = depth
      /\ \A d \in 1 .. depth - 1 : stack'[d] = stack[d]
      /\ top'.coder = top.coder /\ top'.field = f /\ top'.origin = top.origin
  <2> DEFINE t == [stack EXCEPT ![Len(stack)].field = f]
  <2>1. stack \in Seq(Frames) /\ Len(stack) > 0
    BY TopType, SMT DEF depth
  <2>2. /\ t \in Seq(Frames) /\ Len(t) = Len(stack)
        /\ \A d \in 1 .. Len(stack) - 1 : t[d] = stack[d]
        /\ t[Len(stack)].coder = stack[Len(stack)].coder /\ t[Len(stack)].field = f
        /\ t[Len(stack)].origin = stack[Len(stack)].origin
    <3>1. f \in Fields BY <1>5
    <3> HIDE BaseAssumption, SchemaAssumption, DecoderAssumption
    <3> QED BY <2>1, <3>1, SetField
  <2>3. stack' = t BY <1>2 DEF depth
  <2> QED BY <2>2, <2>3 DEF depth, top
<1>7. /\ rd' \in Reads /\ rd'.iter = rd.iter /\ rd'.for \in {"value", "fixed", "length"}
      /\ rd'.for = "value" => f.coder.kind = "varint"
      /\ rd'.for = "length" => f.coder \in LoopCoders
  BY <1>1, <1>2, <1>5, IterType, CallType
<1>8. Callee' = f.coder BY <1>4, <1>6 DEF Callee
<1>9. CalleeOK' BY <1>5, <1>7, <1>8 DEF CalleeOK
<1>10. ASSUME NEW d \in 1..depth' PROVE FrameOK(stack[d])'
  <2>1. CASE d = depth
    <3>1. stack'[d] = top' BY <1>6, <2>1 DEF top
    <3>2. top.origin <= rd.iter
      <4>1. top.origin \in Nat /\ top.origin <= pos BY TopType DEF Frames, FrameOK
      <4> QED BY <1>1, <4>1, IterType, SMT
    <3> QED BY <1>3, <1>5, <1>6, <3>1, <3>2 DEF FrameOK
  <2>2. CASE d # depth
    <3>1. d \in 1 .. depth - 1 /\ d \in 1..depth BY <1>6, <2>2, TopType, SMT
    <3>2. stack'[d] = stack[d] /\ stack[d] \in Frames /\ FrameOK(stack[d])
      BY <1>6, <3>1, TopType, SMT DEF TypeOK, depth
    <3>3. stack[d].origin <= rd.iter
      <4>1. stack[d].origin \in Nat /\ stack[d].origin <= pos BY <3>2 DEF Frames, FrameOK
      <4> QED BY <1>1, <4>1, IterType, SMT
    <3> QED BY <1>3, <3>2, <3>3 DEF FrameOK
  <2> QED BY <2>1, <2>2
<1>11. pos' \in 0..limit' /\ rd'.iter \in pos'..limit'
  BY <1>1, <1>3, <1>7, IterType, SMT
<1>12. depth' > 0 BY <1>6, TopType, SMT
<1> QED BY <1>3, <1>6, <1>7, <1>9, <1>10, <1>11, <1>12 DEF TypeOK

\* An unknown field is skipped from the end of its key on.
LEMMA KeyUnknownType == ASSUME TypeOK, KeyUnknown PROVE TypeOK'
<1>1. /\ rd.for = "key" /\ status' = "run" /\ pos' = rd.iter
      /\ WireOf(rd.n) \in {0, 1, 2, 5} /\ UNCHANGED <<buf, mode, limit, stack>>
      /\ rd' = CASE WireOf(rd.n) = 0 -> Reading("skip", rd.iter)
                 [] WireOf(rd.n) = 2 -> Reading("skipLength", rd.iter)
                 [] OTHER -> Taking("skipSpan", rd.iter, FixedSize[WireOf(rd.n)])
  BY DEF KeyUnknown, KeyRead
<1> DEFINE w == WireOf(rd.n)
<1>2. rd.iter \in Nat /\ rd.iter \in pos..limit /\ rd.iter \in rd.iter..limit
  BY <1>1, IterType
<1>3. rd' \in Reads /\ rd'.iter = rd.iter /\ rd'.for \in {"skip", "skipLength", "skipSpan"}
  <2>1. CASE w \in {0, 2}
    BY <1>1, <1>2, <2>1 DEF Reading, Reads, VarintReads, SpanReads
  <2>2. CASE w \in {1, 5}
    <3>1. FixedSize[w] \in Nat BY <2>2
    <3> HIDE DEF w
    <3>2. rd' = Taking("skipSpan", rd.iter, FixedSize[w]) BY <1>1, <2>2 DEF w
    <3> QED BY <1>2, <3>1, <3>2 DEF Taking, Reads, VarintReads, SpanReads
  <2> QED BY <1>1, <2>1, <2>2
<1>4. CalleeOK' BY <1>3 DEF CalleeOK
<1>5. rd'.for # "head" /\ rd'.iter \in rd.iter..limit BY <1>2, <1>3
<1> QED BY <1>1, <1>2, <1>3, <1>4, <1>5, SameLoop

\* The length of a skipped field is followed by a skip of as many bytes.
LEMMA SkipLengthType == ASSUME TypeOK, SkipLength PROVE TypeOK'
<1>1. /\ rd.for = "skipLength" /\ status' = "run" /\ pos' = rd.iter
      /\ rd' = Taking("skipSpan", rd.iter, rd.n) /\ UNCHANGED <<buf, mode, limit, stack>>
  BY DEF SkipLength
<1>2. rd.iter \in Nat /\ rd.n \in Nat /\ rd.iter \in pos..limit /\ rd.iter \in rd.iter..limit
  BY <1>1, IterType
<1>3. rd' \in Reads /\ rd'.iter = rd.iter /\ rd'.for = "skipSpan"
  BY <1>1, <1>2 DEF Taking, Reads, SpanReads
<1>4. CalleeOK' BY <1>3 DEF CalleeOK
<1>5. rd'.for # "head" /\ rd'.iter \in rd.iter..limit BY <1>2, <1>3
<1> QED BY <1>1, <1>2, <1>3, <1>4, <1>5, SameLoop

\* A length is followed by a new loop, which begins where the length ends.
LEMMA EnterLoopType == ASSUME TypeOK, EnterLoop PROVE TypeOK'
<1> DEFINE f == Frame(Callee, rd.iter, rd.n)
<1>1. /\ rd.for = "length" /\ status' = "run" /\ pos' = rd.iter /\ rd' = AtHead
      /\ stack' = Append(stack, f) /\ UNCHANGED <<buf, mode, limit>>
  BY DEF EnterLoop, LengthRead
<1>2. Callee \in LoopCoders BY <1>1 DEF TypeOK, CalleeOK
<1>3. rd.iter \in Nat /\ rd.n \in Nat /\ pos <= rd.iter /\ pos \in Nat /\ rd.iter \in 0..limit
  BY <1>1, IterType, SMT
<1>4. f \in Frames /\ f.origin = rd.iter /\ f.field = NoField
  BY <1>2, <1>3 DEF Frame, Frames
<1>5. stack \in Seq(Frames) /\ depth \in Nat BY TopType
<1> HIDE DEF f
<1>6. /\ stack' \in Seq(Frames) /\ depth' = depth + 1 /\ stack'[depth + 1] = f
      /\ \A d \in 1..depth : stack'[d] = stack[d]
  BY <1>1, <1>4, <1>5, PushFrame DEF depth
<1>7. ASSUME NEW d \in 1..depth' PROVE FrameOK(stack[d])'
  <2>1. CASE d = depth + 1
    <3>1. stack'[d] = f BY <1>6, <2>1
    <3>2. f.origin <= pos' BY <1>1, <1>3, <1>4, SMT
    <3> QED BY <1>4, <3>1, <3>2 DEF FrameOK
  <2>2. CASE d # depth + 1
    <3>1. d \in 1..depth BY <1>5, <1>6, <2>2, SMT
    <3>2. stack'[d] = stack[d] /\ stack[d] \in Frames /\ FrameOK(stack[d])
      BY <1>6, <3>1, TopType, SMT DEF TypeOK, depth
    <3>3. stack[d].origin \in Nat /\ stack[d].origin <= pos BY <3>2 DEF Frames, FrameOK
    <3>4. stack[d].origin <= rd.iter BY <1>3, <3>3, SMT
    <3> QED BY <1>1, <3>2, <3>4 DEF FrameOK
  <2> QED BY <2>1, <2>2
<1>8. rd' \in Reads /\ rd'.for = "head" BY <1>1 DEF AtHead, Reads
<1>9. CalleeOK' BY <1>8 DEF CalleeOK
<1>10. depth' > 0 BY <1>5, <1>6, SMT
<1> QED BY <1>1, <1>3, <1>6, <1>7, <1>8, <1>9, <1>10 DEF TypeOK

\* Reads that deliver or drop what they read go back to the head of the loop.
LEMMA TakenType ==
    ASSUME TypeOK, ValueRead \/ SkipVarint \/ TakeFixed \/ SkipSpan
    PROVE  TypeOK'
<1>1. /\ rd.for # "head" /\ status' = "run" /\ rd' = AtHead
      /\ UNCHANGED <<buf, mode, limit, stack>>
      /\ \/ pos' = rd.iter
         \/ pos' = rd.iter + rd.n /\ rd.n <= limit - rd.iter
  BY DEF ValueRead, SkipVarint, TakeFixed, SkipSpan, InSpan, SpanReads, Available
<1>2. pos' \in pos..limit
  <2> HIDE BaseAssumption, SchemaAssumption, DecoderAssumption
  <2> QED BY <1>1, IterType, SMT
<1> QED BY <1>1, <1>2, BackAtHead

\* Every variable has its type at the start,
LEMMA TypeInit == Init => TypeOK
<1> SUFFICES ASSUME Init PROVE TypeOK
  OBVIOUS
<1>1. limit \in 0..Capacity /\ limit \in Nat BY SMT DEF Init
<1>7. PICK c \in Roots : stack = <<Frame(c, 0, limit)>> BY DEF Init
<1>2. c \in LoopCoders BY <1>7 DEF LoopCoders
<1>3. Frame(c, 0, limit) \in Frames BY <1>1, <1>2 DEF Frame, Frames
<1>4. stack \in Seq(Frames) /\ depth = 1 /\ stack[1] = Frame(c, 0, limit)
  BY <1>3, <1>7, SMT DEF depth
<1>5. FrameOK(stack[1]) BY <1>2, <1>4 DEF Frame, FrameOK, Init
<1>6. rd \in Reads /\ rd.for = "head" BY DEF Init, AtHead, Reads
<1> QED BY <1>1, <1>4, <1>5, <1>6, SMT DEF Init, TypeOK, CalleeOK

\* and keeps it.
LEMMA TypeNext == TypeOK /\ [Next]_vars => TypeOK'
<1> SUFFICES ASSUME TypeOK, [Next]_vars PROVE TypeOK'
  OBVIOUS
<1>1. CASE NextKey BY <1>1, NextKeyType
<1>2. CASE NextElement BY <1>2, NextElementType
<1>3. CASE EndLoop BY <1>3, FinishType DEF EndLoop, AtLoopHead
<1>4. CASE ReadGroup BY <1>4, ReadGroupType
<1>5. CASE KeyStop BY <1>5, FinishType DEF KeyStop, KeyRead
<1>6. CASE KeyKnown BY <1>6, KeyKnownType
<1>7. CASE KeyUnknown BY <1>7, KeyUnknownType
<1>8. CASE EnterLoop BY <1>8, EnterLoopType
<1>9. CASE SkipLength BY <1>9, SkipLengthType
<1>10. CASE ValueRead \/ SkipVarint \/ TakeFixed \/ SkipSpan BY <1>10, TakenType
<1>11. CASE KeyThrows \/ ReserveThrows \/ Fail \/ Overrun
  BY <1>11, EndType DEF KeyThrows, ReserveThrows, Fail, Overrun
<1>12. CASE UNCHANGED vars
  BY <1>12 DEF vars, TypeOK, FrameOK, CalleeOK, Callee, top, depth
<1> QED BY <1>1, <1>2, <1>3, <1>4, <1>5, <1>6, <1>7, <1>8, <1>9, <1>10, <1>11, <1>12
        DEF Next

\* Every variable keeps its type.  In particular the read never leaves the
\* span, no loop begins after pos, and what is read for a coder is what that
\* coder reads.
THEOREM TypeCorrect == Spec => []TypeOK
BY TypeInit, TypeNext, PTL DEF Spec

\* A safe decode never uses a byte outside its span.
THEOREM SafeDecodeIsSafe == Spec => []NoOverrun
<1>1. Init => NoOverrun BY DEF Init, NoOverrun
<1>2. TypeOK /\ NoOverrun /\ [Next]_vars => NoOverrun'
  <2> SUFFICES ASSUME TypeOK, NoOverrun, [Next]_vars, mode' = "safe" PROVE status' # "ub"
    BY DEF NoOverrun
  <2>1. CASE Overrun
    <3>1. mode = "safe" BY <2>1 DEF Overrun
    <3>2. CASE InVarint
      <4>1. rd.for # "head" BY <3>2 DEF InVarint, VarintReads
      <4>2. rd.iter = limit => ~CheckIterator BY <3>1 DEF CheckIterator
      <4>3. rd.iter >= limit => rd.iter = limit BY <4>1, IterType, SMT
      <4> QED BY <2>1, <3>2, <4>2, <4>3 DEF Overrun, InSpan, InVarint, VarintReads, SpanReads
    <3>3. CASE InSpan
      <4>1. rd.for # "head" BY <3>3 DEF InSpan, SpanReads
      <4>2. CheckBytesSpan => Available
        BY <3>1, <4>1, IterType, SMT DEF CheckBytesSpan, Available
      <4> QED BY <2>1, <3>3, <4>2 DEF Overrun, InSpan, InVarint, VarintReads, SpanReads
    <3> QED BY <2>1, <3>2, <3>3 DEF Overrun
  <2>2. CASE NextKey \/ NextElement \/ EndLoop \/ ReadGroup \/ KeyStop \/ KeyKnown \/ KeyUnknown
    BY <2>2 DEF NextKey, NextElement, EndLoop, ReadGroup, KeyStop, KeyKnown, KeyUnknown,
                AtLoopHead, InVarint, KeyRead, Finish
  <2>3. CASE KeyThrows \/ ValueRead \/ EnterLoop \/ ReserveThrows \/ SkipVarint \/ SkipLength
                \/ TakeFixed \/ SkipSpan \/ Fail
    BY <2>3 DEF KeyThrows, ValueRead, EnterLoop, ReserveThrows, SkipVarint, SkipLength,
                TakeFixed, SkipSpan, Fail, LengthRead, InSpan
  <2>4. CASE UNCHANGED vars BY <2>4 DEF vars, NoOverrun
  <2> QED BY <2>1, <2>2, <2>3, <2>4 DEF Next
<1> QED BY <1>1, <1>2, TypeCorrect, PTL DEF Spec

-----------------------------------------------------------------------------
(* What containers hold is paid for with bytes.                            *)

\* An element more at the end.
LEMMA AppendSeq ==
    ASSUME NEW x, IsSeq(x), NEW v
    PROVE  /\ IsSeq(Append(x, v)) /\ Len(x) \in Nat /\ Len(Append(x, v)) = Len(x) + 1
           /\ \A k \in 1 .. Len(x) : Append(x, v)[k] = x[k]
           /\ Append(x, v)[Len(x) + 1] = v
<1>1. PICK S : x \in Seq(S) BY DEF IsSeq
<1> DEFINE T == S \cup {v}
<1>2. x \in Seq(T) /\ v \in T BY <1>1, SMT
<1> HIDE DEF T
<1>3. Append(x, v) \in Seq(T) BY <1>2, SMT
<1> QED BY <1>2, <1>3, SMT DEF IsSeq

\* Another element at one place.
Set(x, d, v) == [x EXCEPT ![d] = v]

\* It is a sequence again, changed at that place alone.
LEMMA SetSeq ==
    ASSUME NEW x, IsSeq(x), NEW d \in 1 .. Len(x), NEW v
    PROVE  /\ IsSeq(Set(x, d, v)) /\ Len(Set(x, d, v)) = Len(x) /\ Set(x, d, v)[d] = v
           /\ \A k \in 1 .. Len(x) : k # d => Set(x, d, v)[k] = x[k]
<1>1. PICK S : x \in Seq(S) BY DEF IsSeq
<1> DEFINE T == S \cup {v}
           w == [x EXCEPT ![d] = v]
<1>2. x \in Seq(T) /\ v \in T BY <1>1, SMT
<1> HIDE DEF T
<1>3. w \in Seq(T) /\ Len(w) = Len(x) BY <1>2, SMT
<1>4. w[d] = v /\ \A k \in 1 .. Len(x) : k # d => w[k] = x[k] BY <1>2, SMT
<1>5. w = Set(x, d, v) BY DEF Set
<1> QED
  <2> HIDE BaseAssumption, SchemaAssumption, DecoderAssumption
  <2> QED BY <1>3, <1>4, <1>5 DEF IsSeq

\* The last element gone.
LEMMA CutSeq ==
    ASSUME NEW x, IsSeq(x), NEW n \in 0 .. Len(x)
    PROVE  LET w == SubSeq(x, 1, n) IN
           /\ IsSeq(w) /\ Len(w) = n
           /\ \A k \in 1 .. n : w[k] = x[k]
<1>1. PICK S : x \in Seq(S) BY DEF IsSeq
<1> DEFINE w == SubSeq(x, 1, n)
<1>2. w \in Seq(S) /\ Len(w) = n /\ \A k \in 1 .. n : w[k] = x[k] BY <1>1, SMT
<1> QED BY <1>2 DEF IsSeq

\* A container is paid for by a number of bytes: it has no more elements, and
\* if it waits for one that another loop decodes, it has fewer.
PaidBy(v, bytes, waits) ==
    /\ IsSeq(v)
    /\ Len(v) <= bytes
    /\ waits => Len(v) < bytes

\* With more bytes it stays paid for, and may wait for another element.
LEMMA MoreBytes ==
    ASSUME NEW v, NEW a \in Int, NEW b \in Int, NEW waits, PaidBy(v, a, waits)
    PROVE  /\ a <= b => PaidBy(v, b, waits)
           /\ a < b => PaidBy(v, b, TRUE)
<1> DEFINE n == Len(v)
<1>1. IsSeq(v) /\ n <= a /\ (waits => n < a) BY DEF PaidBy
<1>2. n \in Nat BY <1>1, AppendSeq
<1> HIDE DEF n
<1>3. a <= b => n <= b /\ (n < a => n < b) BY <1>1, <1>2, SMT
<1>4. a < b => n <= b /\ n < b BY <1>1, <1>2, SMT
<1> QED BY <1>1, <1>3, <1>4 DEF PaidBy, n

\* An element more, for a byte or for one it has waited for.
LEMMA MoreElements ==
    ASSUME NEW v, NEW e, NEW a \in Int, NEW b \in Int, NEW waits, PaidBy(v, a, waits)
    PROVE  /\ a < b => PaidBy(Append(v, e), b, FALSE)
           /\ waits => PaidBy(Append(v, e), a, FALSE)
<1> DEFINE n == Len(v)
           m == Len(Append(v, e))
<1>1. IsSeq(v) /\ n <= a /\ (waits => n < a) BY DEF PaidBy
<1>2. n \in Nat /\ m = n + 1 /\ IsSeq(Append(v, e)) BY <1>1, AppendSeq
<1> HIDE DEF n, m
<1>3. (a < b => m <= b) /\ (n < a => m <= a) BY <1>1, <1>2, SMT
<1> QED BY <1>1, <1>2, <1>3 DEF PaidBy, m

\* An array at depth d that waits for a value of the loop above it.
Holds(d) ==
    stack[d].coder.kind = "array" => PaidBy(vals[d], pos - stack[d].origin, d < depth)

\* A varint that has been read, or a value about to be taken, is not empty.
ReadPaid ==
    /\ rd.for \in VarintReads /\ rd.done => pos < rd.iter
    /\ rd.for = "fixed" => rd.n > 0

Paid ==
    /\ IsSeq(vals) /\ Len(vals) = depth
    /\ \A d \in 1..depth : Holds(d)
    /\ ReadPaid

\* The bytes since a loop began are a number.
LEMMA BytesType ==
    ASSUME TypeOK, NEW d \in 1..depth, NEW p \in Nat
    PROVE  p - stack[d].origin \in Int /\ stack[d].origin \in Nat
<1>1. stack[d] \in Frames BY SMT DEF TypeOK, depth
<1>2. stack[d].origin \in Nat BY <1>1 DEF Frames
<1> QED BY <1>2

\* Nothing is delivered: containers keep their elements, loops their origins.
LEMMA SameHolds ==
    ASSUME TypeOK, Paid, vals' = vals, depth' = depth, pos' \in Nat, pos <= pos',
           \A d \in 1..depth : stack'[d].coder = stack[d].coder /\ stack'[d].origin = stack[d].origin
    PROVE  IsSeq(vals') /\ Len(vals') = depth' /\ \A d \in 1..depth' : Holds(d)'
<1> SUFFICES ASSUME NEW d \in 1..depth, stack[d].coder.kind = "array"
             PROVE  PaidBy(vals[d], pos' - stack[d].origin, d < depth)
  BY DEF Paid, Holds
<1> DEFINE g == stack[d].origin
<1>1. pos \in Nat BY SMT DEF TypeOK
<1>2. PaidBy(vals[d], pos - g, d < depth) BY DEF Paid, Holds
<1>3. pos - g \in Int /\ pos' - g \in Int /\ g \in Nat BY <1>1, BytesType
<1> HIDE DEF g
<1>4. pos - g <= pos' - g BY <1>1, <1>3
<1> QED BY <1>2, <1>3, <1>4, MoreBytes DEF g

\* A value is delivered to the innermost loop, for at least one byte.
LEMMA DeliveredHolds ==
    ASSUME TypeOK, Paid, NEW v, vals' = Deliver(depth, v), stack' = stack,
           pos' \in Nat, pos < pos'
    PROVE  IsSeq(vals') /\ Len(vals') = depth' /\ \A d \in 1..depth' : Holds(d)'
<1>1. depth \in Nat \ {0} /\ depth' = depth /\ depth \in 1 .. Len(vals)
  BY TopType, SMT DEF Paid, depth
<1> DEFINE n == depth
           a == stack[n].coder.kind = "array"
           x == IF a THEN Append(vals[n], v) ELSE PushField(vals[n], stack[n].field, v)
           w == [vals EXCEPT ![n] = x]
<1>2. vals' = w BY DEF Deliver
<1>3. n \in 1 .. Len(vals) BY <1>1
<1>4. /\ IsSeq(w) /\ Len(w) = Len(vals) /\ w[n] = x
      /\ \A k \in 1 .. Len(vals) : k # n => w[k] = vals[k]
  <2>1. IsSeq(vals) BY DEF Paid
  <2>2. w = Set(vals, n, x) BY DEF Set
  <2> HIDE DEF n, x, w
  <2> QED BY <1>3, <2>1, <2>2, SetSeq
<1>5. pos \in Nat BY SMT DEF TypeOK
<1>6. ASSUME NEW d \in 1..depth, stack[d].coder.kind = "array"
      PROVE  PaidBy(w[d], pos' - stack[d].origin, d < depth)
  <2> DEFINE g == stack[d].origin
  <2>1. pos - g \in Int /\ pos' - g \in Int /\ g \in Nat BY <1>5, BytesType
  <2>2. PaidBy(vals[d], pos - g, d < depth) BY <1>6 DEF Paid, Holds
  <2> HIDE DEF g, w
  <2>3. pos - g < pos' - g BY <1>5, <2>1
  <2>4. CASE d = n
    <3>1. w[d] = Append(vals[d], v) BY <1>4, <1>6, <2>4
    <3>2. ~(d < depth) BY <1>1, <2>4, SMT
    <3>3. PaidBy(Append(vals[d], v), pos' - g, FALSE) BY <2>1, <2>2, <2>3, MoreElements
    <3> QED BY <3>1, <3>2, <3>3 DEF g, PaidBy
  <2>5. CASE d # n
    <3>1. d \in 1 .. Len(vals) BY DEF Paid
    <3>2. w[d] = vals[d] BY <1>4, <2>5, <3>1
    <3>3. pos - g <= pos' - g BY <2>1, <2>3
    <3> QED BY <2>1, <2>2, <3>2, <3>3, MoreBytes DEF g
  <2> QED BY <2>4, <2>5
<1> HIDE DEF n, x, w
<1> QED BY <1>1, <1>2, <1>4, <1>6 DEF Paid, Holds

\* A loop that ends gives its value to the loop that has waited for it.
LEMMA FinishHolds ==
    ASSUME TypeOK, Paid, Finish, pos' = pos
    PROVE  Paid'
<1>1. depth \in Nat \ {0} /\ pos \in Nat BY TopType, SMT DEF TypeOK
<1>2. ReadPaid' BY DEF ReadPaid, Finish, AtHead, VarintReads
<1>3. CASE depth = 1
  <2>1. UNCHANGED <<stack, vals>> BY <1>3 DEF Finish
  <2>2. depth' = depth BY <2>1 DEF depth
  <2>3. pos' \in Nat /\ pos <= pos' BY <1>1
  <2>4. \A d \in 1..depth : stack'[d].coder = stack[d].coder /\ stack'[d].origin = stack[d].origin
    BY <2>1
  <2> QED BY <1>2, <2>1, <2>2, <2>3, <2>4, SameHolds DEF Paid
<1>4. CASE depth # 1
  <2> DEFINE n == depth - 1
             a == stack[n].coder.kind = "array"
             v == vals[depth]
             x == IF a THEN Append(vals[n], v) ELSE PushField(vals[n], stack[n].field, v)
             y == [vals EXCEPT ![n] = x]
  <2>1. n \in Nat \ {0} /\ n < depth /\ n \in 1 .. Len(vals) /\ n = Len(stack) - 1
    BY <1>1, <1>4, SMT DEF Paid, depth
  <2>2. stack' = SubSeq(stack, 1, n) /\ vals' = SubSeq(y, 1, n)
    BY <1>4 DEF Finish, Deliver
  <2>3. stack \in Seq(Frames) /\ depth > 1 BY <1>1, <1>4, TopType, SMT
  <2>4. depth' = n /\ \A d \in 1..n : stack'[d] = stack[d]
    BY <2>2, <2>3, PopFrame DEF depth
  <2>5. /\ IsSeq(y) /\ Len(y) = Len(vals) /\ y[n] = x
        /\ \A k \in 1 .. Len(vals) : k # n => y[k] = vals[k]
    <3>1. IsSeq(vals) BY DEF Paid
    <3>2. y = Set(vals, n, x) BY DEF Set
    <3>3. n \in 1 .. Len(vals) BY <2>1
    <3> HIDE DEF n, x, y
    <3> QED BY <3>1, <3>2, <3>3, SetSeq
  <2> HIDE DEF n, x, y, v
  <2>6. n \in 0 .. Len(y) BY <2>1, <2>5, SMT
  <2>7. IsSeq(vals') /\ Len(vals') = n /\ \A k \in 1..n : vals'[k] = y[k]
    BY <2>2, <2>5, <2>6, CutSeq
  <2>8. ASSUME NEW d \in 1..n, stack[d].coder.kind = "array"
        PROVE  PaidBy(vals'[d], pos - stack[d].origin, d < n)
    <3> DEFINE g == stack[d].origin
    <3>1. d \in 1..depth /\ d < depth /\ d \in 1 .. Len(vals)
      BY <1>1, <2>1, SMT DEF Paid
    <3>2. pos - g \in Int BY <1>1, <3>1, BytesType
    <3>3. PaidBy(vals[d], pos - g, d < depth) BY <2>8, <3>1 DEF Paid, Holds
    <3> HIDE DEF g
    <3>4. CASE d = n
      <4>1. vals'[d] = Append(vals[d], v) BY <2>5, <2>7, <2>8, <3>4 DEF x
      <4>2. ~(d < n) BY <2>1, <3>4, SMT
      <4>3. PaidBy(Append(vals[d], v), pos - g, FALSE) BY <3>1, <3>2, <3>3, MoreElements
      <4> QED BY <4>1, <4>2, <4>3 DEF g, PaidBy
    <3>5. CASE d # n
      <4>1. vals'[d] = vals[d] BY <2>5, <2>7, <3>1, <3>5
      <4>2. d < n BY <2>1, <3>5, SMT
      <4> QED BY <3>1, <3>3, <4>1, <4>2 DEF g, PaidBy
    <3> QED BY <3>4, <3>5
  <2> QED BY <1>2, <2>4, <2>7, <2>8 DEF Paid, Holds
<1> QED BY <1>3, <1>4

\* A new loop has an empty container, and its caller's has been paid for the
\* element by the bytes of the length.
LEMMA EnterLoopHolds == ASSUME TypeOK, Paid, EnterLoop PROVE Paid'
<1> DEFINE f == Frame(Callee, rd.iter, rd.n)
           e == EmptyValue(Callee)
<1>1. /\ rd.for = "length" /\ rd.done /\ pos' = rd.iter /\ rd' = AtHead
      /\ stack' = Append(stack, f) /\ vals' = Append(vals, e)
  BY DEF EnterLoop, LengthRead
<1>2. Callee \in LoopCoders BY <1>1 DEF TypeOK, CalleeOK
<1>3. /\ rd.iter \in Nat /\ pos \in Nat /\ rd.n \in Nat /\ pos < rd.iter
  BY <1>1, IterType DEF Paid, ReadPaid, VarintReads
<1>4. f \in Frames /\ f.coder = Callee /\ f.origin = rd.iter
  BY <1>2, <1>3 DEF Frame, Frames
<1>5. stack \in Seq(Frames) /\ depth \in Nat \ {0} /\ Len(vals) = depth BY TopType DEF Paid
<1>6. Callee.kind = "array" => PaidBy(e, 0, FALSE)
  <2>1. <<>> \in Seq({}) /\ Len(<<>>) = 0 BY SMT
  <2> QED BY <2>1 DEF EmptyValue, IsSeq, PaidBy
<1> HIDE DEF f, e
<1>7. /\ depth' = depth + 1 /\ stack'[depth + 1] = f
      /\ \A d \in 1..depth : stack'[d] = stack[d]
  BY <1>1, <1>4, <1>5, PushFrame DEF depth
<1>8. /\ IsSeq(vals') /\ Len(vals') = depth + 1 /\ vals'[depth + 1] = e
      /\ \A d \in 1..depth : vals'[d] = vals[d]
  BY <1>1, <1>5, AppendSeq DEF Paid
<1>9. ASSUME NEW d \in 1..depth', stack'[d].coder.kind = "array"
      PROVE  PaidBy(vals'[d], pos' - stack'[d].origin, d < depth')
  <2>1. CASE d = depth + 1
    <3>1. PaidBy(vals'[d], 0, FALSE) BY <1>4, <1>6, <1>7, <1>8, <1>9, <2>1
    <3>2. stack'[d].origin = rd.iter /\ rd.iter - rd.iter = 0 BY <1>3, <1>4, <1>7, <2>1
    <3>3. ~(d < depth') BY <1>5, <1>7, <2>1
    <3>4. pos' - stack'[d].origin = 0 BY <1>1, <3>2
    <3> QED BY <3>1, <3>3, <3>4 DEF PaidBy
  <2>2. CASE d # depth + 1
    <3> DEFINE g == stack[d].origin
    <3>1. d \in 1..depth BY <1>5, <1>7, <2>2, SMT
    <3>2. stack'[d] = stack[d] /\ vals'[d] = vals[d] BY <1>7, <1>8, <3>1
    <3>3. g \in Nat /\ pos - g \in Int /\ rd.iter - g \in Int BY <1>3, <3>1, BytesType
    <3>4. PaidBy(vals[d], pos - g, d < depth) BY <1>9, <3>1, <3>2 DEF Paid, Holds
    <3>5. d < depth' BY <1>5, <1>7, <3>1, SMT
    <3> HIDE DEF g
    <3>6. pos - g < rd.iter - g BY <1>3, <3>3
    <3>7. PaidBy(vals[d], rd.iter - g, TRUE) BY <3>3, <3>4, <3>6, MoreBytes
    <3> QED BY <1>1, <3>2, <3>5, <3>7 DEF g, PaidBy
  <2> QED BY <2>1, <2>2
<1>10. ReadPaid' BY <1>1 DEF ReadPaid, AtHead, VarintReads
<1> QED BY <1>7, <1>8, <1>9, <1>10 DEF Paid, Holds

\* A coder that is called reads at least one byte before it delivers.
LEMMA CallPaid == ASSUME NEW c \in Coders, NEW p, Call(c, p) PROVE ReadPaid'
<1>1. c.kind \in Kinds BY DEF Kinds
<1>2. CASE c.kind = "varint" BY <1>2 DEF Call, Reading, ReadPaid
<1>3. CASE c.kind = "fixed"
  <2>1. c.size > 0 BY <1>3, SMT
  <2> QED BY <1>3, <2>1 DEF Call, Taking, ReadPaid, VarintReads
<1>4. CASE c.kind \in {"array", "message"} BY <1>4 DEF Call, Reading, ReadPaid
<1> QED BY <1>1, <1>2, <1>3, <1>4 DEF Kinds

\* Nothing has to be paid for at the start,
LEMMA PaidInit == Init => Paid
<1> SUFFICES ASSUME Init PROVE Paid OBVIOUS
<1>1. PICK c \in Roots : vals = <<EmptyMessage(c)>> /\ stack = <<Frame(c, 0, limit)>> BY DEF Init
<1>2. IsSeq(vals) /\ Len(vals) = 1
  <2>1. vals \in Seq({EmptyMessage(c)}) /\ Len(vals) = 1 BY <1>1, SMT
  <2> QED BY <2>1 DEF IsSeq
<1>3. depth = 1 /\ stack[1].coder = c BY <1>1 DEF depth, Frame
<1>4. \A d \in 1..depth : ~(stack[d].coder.kind = "array") BY <1>3, SMT
<1>5. ReadPaid BY DEF Init, ReadPaid, AtHead, VarintReads
<1> QED BY <1>2, <1>3, <1>4, <1>5 DEF Paid, Holds

\* and what is added has been read.
LEMMA PaidNext == TypeOK /\ TypeOK' /\ Paid /\ [Next]_vars => Paid'
<1> SUFFICES ASSUME TypeOK, TypeOK', Paid, [Next]_vars PROVE Paid' OBVIOUS
<1>1. pos \in Nat /\ pos' \in Nat BY SMT DEF TypeOK
<1>2. ASSUME vals' = vals, stack' = stack, pos <= pos', ReadPaid' PROVE Paid'
  BY <1>1, <1>2, SameHolds DEF Paid, depth
<1>3. CASE NextKey
  <2>1. ReadPaid' BY <1>3 DEF NextKey, ReadPaid, Reading
  <2> QED BY <1>1, <1>2, <1>3, <2>1 DEF NextKey
<1>4. CASE NextElement
  <2>1. top.coder.elem \in Coders BY <1>4, TopType DEF NextElement
  <2>2. ReadPaid' BY <1>4, <2>1, CallPaid DEF NextElement
  <2> QED BY <1>1, <1>2, <1>4, <2>2 DEF NextElement
<1>5. CASE EndLoop BY <1>5, FinishHolds DEF EndLoop
<1>6. CASE KeyStop BY <1>6, FinishHolds DEF KeyStop
<1>7. CASE ReadGroup
  <2>1. /\ rd.for \in VarintReads /\ rd \in Reads /\ UNCHANGED <<vals, stack, pos>>
        /\ \E m : rd' = [rd EXCEPT !.iter = @ + 1, !.n = m, !.scale = @ * Base,
                                   !.done = ~Continues(buf[rd.iter])]
    BY <1>7 DEF ReadGroup, InVarint, TypeOK
  <2>2. rd'.for = rd.for /\ rd'.iter = rd.iter + 1 BY <2>1 DEF Reads
  <2>3. rd.for # "head" /\ rd.for # "fixed" BY <2>1 DEF VarintReads
  <2>4. pos <= rd.iter /\ rd.iter \in Nat BY <2>3, IterType
  <2>5. ReadPaid' BY <1>1, <2>1, <2>2, <2>3, <2>4, SMT DEF ReadPaid
  <2> QED BY <1>1, <1>2, <2>1, <2>5
<1>8. CASE KeyKnown
  <2>1. PICK f \in Known : stack' = [stack EXCEPT ![depth].field = f] /\ Call(f.coder, rd.iter)
    BY <1>8 DEF KeyKnown
  <2>2. rd.for = "key" /\ pos' = rd.iter /\ vals' = vals BY <1>8 DEF KeyKnown, KeyRead
  <2>3. top.coder.kind = "message" BY <2>2 DEF TypeOK, CalleeOK
  <2>4. f \in Fields /\ f.coder \in Coders BY <2>1, <2>3, TopType DEF Known
  <2>5. ReadPaid' BY <2>1, <2>4, CallPaid
  <2>6. pos <= pos' BY <2>2, IterType
  <2>7. stack \in Seq(Frames) /\ Len(stack) > 0 BY TopType, SMT DEF depth
  <2>8. /\ depth' = depth
        /\ \A d \in 1..depth : stack'[d].coder = stack[d].coder /\ stack'[d].origin = stack[d].origin
    <3> DEFINE t == [stack EXCEPT ![Len(stack)].field = f]
    <3>1. /\ t \in Seq(Frames) /\ Len(t) = Len(stack)
          /\ \A d \in 1 .. Len(stack) - 1 : t[d] = stack[d]
          /\ t[Len(stack)].coder = stack[Len(stack)].coder
          /\ t[Len(stack)].origin = stack[Len(stack)].origin
      <4> HIDE BaseAssumption, SchemaAssumption, DecoderAssumption
      <4> QED BY <2>4, <2>7, SetField
    <3>2. stack' = t BY <2>1 DEF depth
    <3> HIDE DEF t
    <3>3. \A d \in 1..depth : d = Len(stack) \/ d \in 1 .. Len(stack) - 1
      BY <2>7, SMT DEF depth
    <3> QED BY <3>1, <3>2, <3>3 DEF depth
  <2> QED BY <1>1, <2>2, <2>5, <2>6, <2>8, SameHolds DEF Paid
<1>9. CASE KeyUnknown
  <2>1. rd.for = "key" /\ UNCHANGED <<vals, stack>> /\ pos' = rd.iter
    BY <1>9 DEF KeyUnknown, KeyRead
  <2>2. pos <= pos' BY <2>1, IterType
  <2>3. ReadPaid'
    <3> DEFINE w == WireOf(rd.n)
    <3>1. rd' = CASE w = 0 -> Reading("skip", rd.iter)
                  [] w = 2 -> Reading("skipLength", rd.iter)
                  [] OTHER -> Taking("skipSpan", rd.iter, FixedSize[w])
      BY <1>9 DEF KeyUnknown
    <3> HIDE DEF w
    <3>2. rd'.done = FALSE \/ rd'.for = "skipSpan" BY <3>1 DEF Reading, Taking
    <3>3. rd'.for # "fixed" BY <3>1 DEF Reading, Taking
    <3> QED BY <3>2, <3>3 DEF ReadPaid, VarintReads
  <2> QED BY <1>2, <2>1, <2>2, <2>3
<1>10. CASE EnterLoop BY <1>10, EnterLoopHolds
<1>11. CASE SkipLength
  <2>1. rd.for = "skipLength" /\ UNCHANGED <<vals, stack>> /\ pos' = rd.iter
        /\ rd' = Taking("skipSpan", rd.iter, rd.n)
    BY <1>11 DEF SkipLength
  <2>2. pos <= pos' BY <2>1, IterType
  <2>3. ReadPaid' BY <2>1 DEF ReadPaid, Taking, VarintReads
  <2> QED BY <1>2, <2>1, <2>2, <2>3
<1>12. CASE SkipVarint \/ SkipSpan
  <2>1. rd.for # "head" /\ UNCHANGED <<vals, stack>> /\ rd' = AtHead
        /\ (pos' = rd.iter \/ pos' = rd.iter + rd.n)
    BY <1>12 DEF SkipVarint, SkipSpan, InSpan, SpanReads
  <2>2. pos <= pos' BY <2>1, IterType, SMT
  <2>3. ReadPaid' BY <2>1 DEF ReadPaid, AtHead, VarintReads
  <2> QED BY <1>2, <2>1, <2>2, <2>3
<1>13. CASE ValueRead \/ TakeFixed
  <2>1. rd.for # "head" /\ stack' = stack /\ rd' = AtHead /\ depth' = depth
        /\ \E v : vals' = Deliver(depth, v)
    BY <1>13 DEF ValueRead, TakeFixed, InSpan, SpanReads, depth
  <2>2. pos < pos'
    <3>1. CASE ValueRead
      BY <3>1 DEF ValueRead, Paid, ReadPaid, VarintReads
    <3>2. CASE TakeFixed
      <4>1. rd.for = "fixed" /\ pos' = rd.iter + rd.n /\ rd.n > 0
        BY <3>2 DEF TakeFixed, Paid, ReadPaid
      <4> QED BY <2>1, <4>1, IterType, SMT
    <3> QED BY <1>13, <3>1, <3>2
  <2>3. ReadPaid' BY <2>1 DEF ReadPaid, AtHead, VarintReads
  <2> QED BY <1>1, <2>1, <2>2, <2>3, DeliveredHolds DEF Paid
<1>14. CASE KeyThrows \/ ReserveThrows \/ Fail \/ Overrun \/ UNCHANGED vars
  <2>1. UNCHANGED <<vals, stack, pos, rd>>
    BY <1>14 DEF KeyThrows, ReserveThrows, Fail, Overrun, vars
  <2>2. ReadPaid' BY <2>1 DEF Paid, ReadPaid
  <2> QED BY <1>1, <1>2, <2>1, <2>2, SMT
<1> QED BY <1>3, <1>4, <1>5, <1>6, <1>7, <1>8, <1>9, <1>10, <1>11, <1>12, <1>13, <1>14 DEF Next

\* Every container is paid for, and keeps to be, whatever waits for what.
THEOREM ContainersArePaidFor == Spec => []Paid
BY PaidInit, PaidNext, TypeCorrect, PTL DEF Spec

\* No container is longer than the bytes it was read from: an element is never
\* there before at least one byte of it has been read (array.h:80-92).
THEOREM ElementsArePaidFor == Spec => []ElementsPaidFor
<1>1. TypeOK /\ Paid => ElementsPaidFor BY DEF Paid, Holds, PaidBy, ElementsPaidFor
<1> QED BY <1>1, TypeCorrect, ContainersArePaidFor, PTL

-----------------------------------------------------------------------------
(* The contract of coder.h.                                                *)

\* How one step moves the call along.
LEMMA StepForward ==
    ASSUME TypeOK, NoOverrun', Next
    PROVE  /\ status = "run" /\ UNCHANGED <<mode, limit>>
           /\ pos' = pos \/ pos' = rd.iter \/ pos' = rd.iter + rd.n
           /\ pos' # pos => rd.for # "head"
           /\ status' \in {"run", "ok", "throw", IF mode = "safe" THEN "fail" ELSE "ub"}
<1>1. CASE NextKey \/ NextElement \/ EndLoop \/ ReadGroup \/ KeyStop \/ KeyKnown \/ KeyUnknown
  BY <1>1 DEF NextKey, NextElement, EndLoop, ReadGroup, KeyStop, KeyKnown, KeyUnknown,
              AtLoopHead, InVarint, KeyRead, Finish
<1>2. CASE KeyThrows \/ ValueRead \/ EnterLoop \/ ReserveThrows \/ SkipVarint \/ SkipLength
              \/ TakeFixed \/ SkipSpan
  BY <1>2 DEF KeyThrows, ValueRead, EnterLoop, ReserveThrows, SkipVarint, SkipLength,
              TakeFixed, SkipSpan, LengthRead, KeyRead, InSpan, SpanReads
<1>3. CASE Fail
  BY <1>3 DEF Fail, InVarint, InSpan, CheckIterator, CheckBytesSpan
<1>4. CASE Overrun
  BY <1>4 DEF Overrun, InVarint, InSpan, NoOverrun
<1> QED BY <1>1, <1>2, <1>3, <1>4 DEF Next

\* Every step of a decode is a step the contract allows, or none.
THEOREM KeepsContract == Spec => Contract!Init /\ [][Contract!Next]_(Contract!vars)
<1>1. Init => Contract!Init
  BY DEF Init, Contract!Init
<1>2. TypeOK /\ TypeOK' /\ NoOverrun' /\ [Next]_vars => [Contract!Next]_(Contract!vars)
  <2> SUFFICES ASSUME TypeOK, TypeOK', NoOverrun', Next
               PROVE  Contract!Next \/ UNCHANGED Contract!vars
    BY DEF vars, Contract!vars
  <2>1. /\ status = "run" /\ UNCHANGED <<mode, limit>>
        /\ pos' # pos => rd.for # "head" /\ pos' \in {rd.iter, rd.iter + rd.n}
        /\ status' \in {"run", "ok", "throw", IF mode = "safe" THEN "fail" ELSE "ub"}
    BY StepForward
  <2>2. pos \in Nat /\ limit \in Nat /\ pos' \in 0..limit
    BY <2>1, SMT DEF TypeOK
  <2>3. ASSUME pos' # pos PROVE pos' \in pos + 1 .. limit
    <3>1. /\ rd.iter \in Nat /\ rd.n \in Nat /\ pos <= rd.iter
          /\ (pos' = rd.iter \/ pos' = rd.iter + rd.n)
      BY <2>1, <2>3, IterType
    <3>2. pos <= pos' BY <2>2, <3>1, SMT
    <3> QED BY <2>2, <2>3, <3>2, SMT
  <2>4. status' \in {"run"} \cup Contract!Outcomes(mode)
    BY <2>1 DEF Contract!Outcomes
  <2>5. CASE pos' # pos
    BY <2>1, <2>3, <2>4, <2>5 DEF Contract!Next, Contract!Advance
  <2>6. CASE pos' = pos /\ status' # "run"
    BY <2>1, <2>4, <2>6 DEF Contract!Next, Contract!Return
  <2>7. CASE pos' = pos /\ status' = "run"
    BY <2>1, <2>7 DEF Contract!vars
  <2> QED BY <2>5, <2>6, <2>7
<1> QED BY <1>1, <1>2, TypeCorrect, SafeDecodeIsSafe, PTL DEF Spec

-----------------------------------------------------------------------------
(* Safe and unsafe mode.                                                   *)

\* A check that fails in safe mode is one that guards an overrun.
LEMMA ChecksAreExact ==
    ASSUME TypeOK
    PROVE  /\ InVarint /\ ~CheckIterator => rd.iter >= limit
           /\ InSpan /\ ~CheckBytesSpan => ~Available
<1>1. ASSUME InVarint, ~CheckIterator PROVE rd.iter >= limit
  <2>1. rd.for # "head" BY <1>1 DEF InVarint, VarintReads
  <2> QED BY <1>1, <2>1, IterType, SMT DEF CheckIterator
<1>2. ASSUME InSpan, ~CheckBytesSpan PROVE ~Available
  <2>1. rd.for # "head" BY <1>2 DEF InSpan, SpanReads
  <2> QED BY <1>2, <2>1, IterType, SMT DEF CheckBytesSpan, Available
<1> QED BY <1>1, <1>2

\* What does not depend on the mode is the same in both.
LEMMA SameState ==
    /\ depth = Unsafe!depth /\ top = Unsafe!top /\ Callee = Unsafe!Callee
    /\ AtHead = Unsafe!AtHead /\ NoField = Unsafe!NoField
    /\ MoreToRead <=> Unsafe!MoreToRead
    /\ Known = Unsafe!Known
    /\ Reserves <=> Unsafe!Reserves
    /\ Available <=> Unsafe!Available
    /\ WordOf = Unsafe!WordOf /\ ShiftOf = Unsafe!ShiftOf
    /\ status = "run" <=> (IF status = "fail" THEN "ub" ELSE status) = "run"
BY DEF depth, Unsafe!depth, top, Unsafe!top, Callee, Unsafe!Callee,
       AtHead, Unsafe!AtHead, NoField, Unsafe!NoField, MoreToRead, Unsafe!MoreToRead,
       Known, Unsafe!Known, Key, Unsafe!Key, KeyOf, Unsafe!KeyOf,
       Reserves, Unsafe!Reserves, Available, Unsafe!Available,
       WordOf, Unsafe!WordOf, ShiftOf, Unsafe!ShiftOf

\* Where the call stands is the same, and unsafe mode checks nothing.
LEMMA SameTests ==
    /\ AtLoopHead <=> Unsafe!AtLoopHead
    /\ InVarint <=> Unsafe!InVarint
    /\ KeyRead <=> Unsafe!KeyRead
    /\ LengthRead <=> Unsafe!LengthRead
    /\ InSpan <=> Unsafe!InSpan
    /\ Unsafe!CheckIterator /\ Unsafe!CheckBytesSpan
BY DEF AtLoopHead, Unsafe!AtLoopHead, InVarint, Unsafe!InVarint, KeyRead, Unsafe!KeyRead,
       LengthRead, Unsafe!LengthRead, InSpan, Unsafe!InSpan,
       VarintReads, Unsafe!VarintReads, SpanReads, Unsafe!SpanReads,
       Unsafe!CheckIterator, Unsafe!CheckBytesSpan

\* The steps the two modes are built from are the same.
LEMMA SameOperators ==
    /\ \A w, p : Reading(w, p) = Unsafe!Reading(w, p)
    /\ \A w, p, k : Taking(w, p, k) = Unsafe!Taking(w, p, k)
    /\ \A c, o, l : Frame(c, o, l) = Unsafe!Frame(c, o, l)
    /\ \A c : EmptyMessage(c) = Unsafe!EmptyMessage(c)
    /\ \A c : EmptyValue(c) = Unsafe!EmptyValue(c)
    /\ \A d, v : Deliver(d, v) = Unsafe!Deliver(d, v)
    /\ \A b : Accumulated(b) = Unsafe!Accumulated(b)
    /\ \A b : Continues(b) <=> Unsafe!Continues(b)
    /\ \A k : WireOf(k) = Unsafe!WireOf(k) /\ NumberOf(k) = Unsafe!NumberOf(k)
BY SameState
   DEF Reading, Unsafe!Reading, Taking, Unsafe!Taking, Frame, Unsafe!Frame,
       EmptyMessage, Unsafe!EmptyMessage, NumbersOf, Unsafe!NumbersOf,
       EmptyValue, Unsafe!EmptyValue, Deliver, Unsafe!Deliver,
       PushField, Unsafe!PushField, MapInsert, Unsafe!MapInsert, KeyLess, Unsafe!KeyLess,
       Accumulated, Unsafe!Accumulated, Accumulate, Unsafe!Accumulate,
       Continues, Unsafe!Continues, WireOf, Unsafe!WireOf, NumberOf, Unsafe!NumberOf

\* The end of a loop is the same in both.
LEMMA SameFinish == ASSUME status = "run", Finish PROVE Unsafe!Finish
BY SameState, SameOperators, Zenon DEF Finish, Unsafe!Finish

\* Calling a decode function is the same in both.
LEMMA SameCall == ASSUME NEW c, NEW p, Call(c, p) PROVE Unsafe!Call(c, p)
BY SameOperators DEF Call, Unsafe!Call

\* Whatever the bytes, a safe decode takes the steps of the unsafe one, and
\* fails where that one's behaviour is undefined.
THEOREM SafeImplementsUnsafe == Spec => SafeAgreesWithUnsafe
<1>1. Init => Unsafe!Init
  BY SameState, SameOperators DEF Init, Unsafe!Init, Byte, Unsafe!Byte
<1>2. TypeOK /\ [Next]_vars => [Unsafe!Next]_(Unsafe!vars)
  <2> SUFFICES ASSUME TypeOK, Next PROVE Unsafe!Next
    BY DEF vars, Unsafe!vars
  <2> USE SameState, SameTests, SameOperators DEF Unsafe!Next
  <2>1. CASE NextKey
    BY <2>1 DEF NextKey, Unsafe!NextKey
  <2>2. CASE NextElement
    BY <2>2, SameCall DEF NextElement, Unsafe!NextElement
  <2>3. CASE EndLoop
    BY <2>3, SameFinish DEF EndLoop, Unsafe!EndLoop, AtLoopHead
  <2>4. CASE ReadGroup
    BY <2>4 DEF ReadGroup, Unsafe!ReadGroup
  <2>5. CASE KeyStop
    BY <2>5, SameFinish DEF KeyStop, Unsafe!KeyStop, KeyRead
  <2>6. CASE KeyKnown
    BY <2>6, SameCall DEF KeyKnown, Unsafe!KeyKnown
  <2>7. CASE KeyUnknown
    BY <2>7 DEF KeyUnknown, Unsafe!KeyUnknown
  <2>8. CASE KeyThrows
    BY <2>8 DEF KeyThrows, Unsafe!KeyThrows
  <2>9. CASE ValueRead
    BY <2>9 DEF ValueRead, Unsafe!ValueRead
  <2>10. CASE EnterLoop
    BY <2>10 DEF EnterLoop, Unsafe!EnterLoop
  <2>11. CASE ReserveThrows
    BY <2>11 DEF ReserveThrows, Unsafe!ReserveThrows
  <2>12. CASE SkipVarint
    BY <2>12 DEF SkipVarint, Unsafe!SkipVarint
  <2>13. CASE SkipLength
    BY <2>13 DEF SkipLength, Unsafe!SkipLength
  <2>14. CASE TakeFixed
    BY <2>14 DEF TakeFixed, Unsafe!TakeFixed
  <2>15. CASE SkipSpan
    BY <2>15 DEF SkipSpan, Unsafe!SkipSpan
  <2>16. CASE Fail
    <3>1. Unsafe!Overrun
      BY <2>16, ChecksAreExact DEF Fail, Unsafe!Overrun
    <3> QED BY <3>1
  <2>17. CASE Overrun
    BY <2>17 DEF Overrun, Unsafe!Overrun
  <2> QED BY <2>1, <2>2, <2>3, <2>4, <2>5, <2>6, <2>7, <2>8, <2>9, <2>10, <2>11, <2>12,
             <2>13, <2>14, <2>15, <2>16, <2>17 DEF Next
<1> QED BY <1>1, <1>2, TypeCorrect, PTL DEF Spec, SafeAgreesWithUnsafe

HIDE BaseAssumption
HIDE SchemaAssumption
HIDE DecoderAssumption

-----------------------------------------------------------------------------
(* What the decoder has read.                                              *)

\* A varint that is read begins at pos, and so far it is as the grammar has
\* it, if it has no more groups than fit; a span that is taken begins there.
ReadInv ==
    /\ rd.for \in VarintReads =>
        /\ \A j \in pos .. rd.iter - 1 : Continues(buf[j]) \/ (rd.done /\ j = rd.iter - 1)
        /\ rd.done => pos < rd.iter /\ ~Continues(buf[rd.iter - 1])
        /\ rd.scale = Weight[rd.iter - pos]
        /\ rd.for # "skip" /\ (pos < rd.iter => Weight[rd.iter - pos - 1] < ShiftOf)
             => rd.n = NumberFrom(buf, pos)[rd.iter - pos] % WordOf
    /\ rd.for \in SpanReads => rd.iter = pos
    /\ rd.for = "fixed" => Callee \in Coders /\ Callee.kind = "fixed" /\ rd.n = Callee.size
    /\ rd.for = "key" => MoreToRead

\* The types a varint is decoded in.
LEMMA WordType ==
    TypeOK /\ rd.for \in VarintReads => WordOf \in Nat \ {0} /\ ShiftOf \in Nat
<1> SUFFICES ASSUME TypeOK, rd.for \in VarintReads PROVE WordOf \in Nat \ {0} /\ ShiftOf \in Nat
  OBVIOUS
<1>1. CASE rd.for = "value"
  <2>1. Callee \in Coders /\ Callee.kind = "varint" BY <1>1 DEF TypeOK, CalleeOK
  <2>2. Callee.word \in Nat \ {0} /\ Callee.shift \in Nat BY <2>1, SchemaAssumption
  <2> QED BY <1>1, <2>2 DEF WordOf, ShiftOf
<1>2. CASE rd.for = "key" BY <1>2, SchemaAssumption DEF WordOf, ShiftOf
<1>3. CASE rd.for \in {"length", "skip", "skipLength"}
  BY <1>3, SchemaAssumption DEF WordOf, ShiftOf
<1> QED BY <1>1, <1>2, <1>3 DEF VarintReads

\* A varint of which nothing has been read.
LEMMA ReadStarts ==
    ASSUME TypeOK', rd'.for \in VarintReads, rd'.iter = pos', rd'.n = 0, rd'.scale = 1,
           rd'.done = FALSE, rd'.for = "key" => MoreToRead'
    PROVE  ReadInv'
<1>1. pos' \in Nat BY SMT DEF TypeOK
<1>2. rd'.iter - pos' = 0 /\ ~(pos' < rd'.iter) /\ pos' .. rd'.iter - 1 = {}
  <2>1. \A p \in Nat : p - p = 0 /\ ~(p < p) /\ p .. p - 1 = {} BY SMT
  <2> QED BY <1>1, <2>1
<1>3. WordOf' \in Nat \ {0}
  <2>1. (TypeOK /\ rd.for \in VarintReads => WordOf \in Nat \ {0} /\ ShiftOf \in Nat)'
    BY WordType, PTL
  <2> QED BY <2>1
<1>4. 0 % WordOf' = 0
  <2>1. \A w \in Nat \ {0} : 0 % w = 0
    <3>1. ASSUME NEW w \in Nat \ {0} PROVE 0 % w = 0
      <4>1. w \in Nat /\ 0 < w /\ 0 \in Nat BY SMT
      <4> QED BY <4>1, ModSmall
    <3> QED BY <3>1
  <2> QED BY <1>3, <2>1
<1>5. NumberFrom(buf', pos')[0] = 0 BY <1>1, NumberFromStep
<1>6. rd'.for \notin SpanReads BY DEF VarintReads, SpanReads
<1> QED BY <1>2, <1>4, <1>5, <1>6, WeightStep DEF ReadInv, SpanReads

\* A coder is called at pos.
LEMMA CallStarts ==
    ASSUME TypeOK', NEW c \in Coders, Call(c, pos'), Callee' = c
    PROVE  ReadInv'
<1>1. CASE c.kind = "fixed"
  <2>1. rd' = Taking("fixed", pos', c.size) BY <1>1 DEF Call
  <2> QED BY <1>1, <2>1 DEF Taking, ReadInv, VarintReads
<1>2. CASE c.kind # "fixed"
  <2>1. rd' \in {Reading("value", pos'), Reading("length", pos')} BY <1>2 DEF Call
  <2>2. rd'.for \in VarintReads /\ rd'.iter = pos' /\ rd'.n = 0 /\ rd'.scale = 1
        /\ rd'.done = FALSE /\ rd'.for # "key"
    BY <2>1 DEF Reading, VarintReads
  <2> QED BY <2>2, ReadStarts
<1> QED BY <1>1, <1>2

\* A group is added to what has been read.
LEMMA GroupRead ==
    ASSUME TypeOK, ReadInv, ReadGroup
    PROVE  ReadInv'
<1>1. /\ rd.for \in VarintReads /\ ~rd.done /\ rd.iter < limit
      /\ UNCHANGED <<buf, pos, stack>>
  BY DEF ReadGroup, InVarint
<1>2. PICK m \in Accumulated(buf[rd.iter]) :
        rd' = [rd EXCEPT !.iter = @ + 1, !.n = m, !.scale = @ * Base,
                         !.done = ~Continues(buf[rd.iter])]
  BY DEF ReadGroup
<1>3. rd \in Reads BY DEF TypeOK
<1>4. /\ rd'.for = rd.for /\ rd'.iter = rd.iter + 1 /\ rd'.n = m
      /\ rd'.scale = rd.scale * Base /\ rd'.done = ~Continues(buf[rd.iter])
  BY <1>2, <1>3 DEF Reads
<1>5. rd.for # "head" BY <1>1 DEF VarintReads
<1>6. pos \in Nat /\ rd.iter \in Nat /\ pos <= rd.iter /\ limit \in Nat BY <1>5, IterType
<1> DEFINE k == rd.iter - pos
<1>7. /\ k \in Nat /\ rd'.iter - pos = k + 1 /\ (k + 1) - 1 = k /\ pos < rd'.iter
      /\ rd'.iter - 1 = rd.iter /\ pos + k = rd.iter /\ pos + k - 1 = rd.iter - 1
  BY <1>4, <1>6, SMT
<1>8. Callee' = Callee /\ WordOf' = WordOf /\ ShiftOf' = ShiftOf
  BY <1>1, <1>4 DEF Callee, top, depth, WordOf, ShiftOf
<1>9. rd.scale = Weight[k] /\ \A j \in pos .. rd.iter - 1 : Continues(buf[j])
  BY <1>1 DEF ReadInv
<1>10. rd'.scale = Weight[k + 1] BY <1>4, <1>7, <1>9, WeightStep
<1>11. \A j \in pos .. rd'.iter - 1 : Continues(buf[j]) \/ (rd'.done /\ j = rd.iter)
  <2>1. \A j \in pos .. rd'.iter - 1 : j \in pos .. rd.iter - 1 \/ j = rd.iter BY <1>4, <1>6, SMT
  <2> QED BY <1>4, <1>9, <2>1
<1>12. ASSUME rd.for # "skip", Weight[k] < ShiftOf
       PROVE  m = NumberFrom(buf, pos)[k + 1] % WordOf
  <2> DEFINE N == NumberFrom(buf, pos)[k]
             b == buf[rd.iter]
             y == (b % Base) * Weight[k]
  <2>1. WordOf \in Nat \ {0} /\ ShiftOf \in Nat BY <1>1, WordType
  <2>2. rd.n = N % WordOf
    <3>1. pos < rd.iter => Weight[k - 1] < ShiftOf
      <4>1. SUFFICES ASSUME pos < rd.iter PROVE Weight[k - 1] < ShiftOf OBVIOUS
      <4>2. k - 1 \in Nat /\ (k - 1) + 1 = k BY <1>6, <4>1, SMT
      <4>3. Weight[k - 1] \in Nat /\ Weight[k] \in Nat /\ Weight[k - 1] < Weight[k]
        BY <1>7, <4>2, WeightNat
      <4> QED BY <1>12, <2>1, <4>3, SMT
    <3> QED BY <1>1, <1>12, <3>1 DEF ReadInv
  <2>3. N \in Nat /\ b \in Byte
    <3>1. \A j \in pos .. rd.iter : j \in 0 .. limit - 1 BY <1>1, <1>6, SMT
    <3>2. \A j \in pos .. rd.iter : buf[j] \in Byte BY <3>1 DEF TypeOK
    <3>3. \A j \in pos .. pos + k - 1 : j \in pos .. rd.iter BY <1>6, <1>7, SMT
    <3>4. \A j \in pos .. pos + k - 1 : buf[j] \in Byte BY <3>2, <3>3
    <3>5. rd.iter \in pos .. rd.iter BY <1>6, SMT
    <3> HIDE DEF k
    <3> QED BY <1>6, <1>7, <3>2, <3>4, <3>5, NumberFromNat
  <2>4. y \in Nat
    <3>1. b % Base \in Nat BY <2>3, DivMod DEF Byte
    <3>2. Weight[k] \in Nat BY <1>7, WeightNat
    <3> QED BY <3>1, <3>2, SMT
  <2>5. m = (rd.n + y) % WordOf
    <3>1. m \in Accumulate(rd.n, rd.scale, b, WordOf, ShiftOf) BY <1>2, <1>12 DEF Accumulated
    <3> QED BY <1>9, <1>12, <3>1 DEF Accumulate
  <2>6. ((N % WordOf) + y) % WordOf = (N + y) % WordOf
    <3> HIDE DEF N, y
    <3> QED BY <2>1, <2>3, <2>4, ModSum
  <2>7. NumberFrom(buf, pos)[k + 1] = N + y BY <1>6, <1>7, NumberFromStep
  <2> QED BY <2>2, <2>5, <2>6, <2>7
<1>13. MoreToRead' = MoreToRead BY <1>1 DEF MoreToRead, top, depth
<1>14. rd.for \notin SpanReads /\ rd.for # "fixed" BY <1>1 DEF VarintReads, SpanReads
<1>15. rd'.for = "key" => MoreToRead' BY <1>4, <1>13 DEF ReadInv
<1>16. rd'.n = NumberFrom(buf, pos)[rd'.iter - pos] % WordOf'
         \/ rd'.for = "skip" \/ ~(Weight[rd'.iter - pos - 1] < ShiftOf')
  <2>1. rd'.iter - pos = k + 1 /\ rd'.iter - pos - 1 = k BY <1>7
  <2> HIDE DEF k
  <2> QED BY <1>4, <1>8, <1>12, <2>1
<1>17. rd'.scale = Weight[rd'.iter - pos] BY <1>7, <1>10
<1>18. rd'.done => ~Continues(buf[rd'.iter - 1]) BY <1>4, <1>7
<1>19. \A j \in pos .. rd'.iter - 1 : Continues(buf[j]) \/ (rd'.done /\ j = rd'.iter - 1)
      BY <1>7, <1>11
<1> HIDE DEF k
<1>20. UNCHANGED <<buf, pos>> /\ pos < rd'.iter BY <1>1, <1>7
<1> QED
  BY <1>4, <1>14, <1>15, <1>16, <1>17, <1>18, <1>19, <1>20 DEF ReadInv, Continues

\* Nothing has been read at the start,
LEMMA ReadInit == Init => ReadInv BY DEF Init, ReadInv, AtHead, VarintReads, SpanReads

\* and every step reads what is there.
LEMMA ReadNext == TypeOK /\ TypeOK' /\ ReadInv /\ [Next]_vars => ReadInv'
<1> SUFFICES ASSUME TypeOK, TypeOK', ReadInv, [Next]_vars PROVE ReadInv' OBVIOUS
<1>1. ASSUME rd' = AtHead PROVE ReadInv'
  BY <1>1 DEF ReadInv, AtHead, VarintReads, SpanReads
<1>2. CASE NextKey
  <2>1. rd' = Reading("key", pos) /\ MoreToRead /\ UNCHANGED <<pos, stack>>
    BY <1>2 DEF NextKey
  <2>2. MoreToRead' BY <2>1 DEF MoreToRead, top, depth
  <2> QED BY <2>1, <2>2, ReadStarts DEF Reading, VarintReads
<1>3. CASE NextElement
  <2>1. Call(top.coder.elem, pos) /\ UNCHANGED <<pos, stack>> /\ top.coder.kind = "array"
    BY <1>3 DEF NextElement
  <2>2. Callee' = top.coder.elem BY <2>1 DEF Callee, top, depth
  <2>3. top.coder.elem \in Coders BY <2>1, TopType
  <2>4. Call(top.coder.elem, pos') BY <2>1
  <2> QED BY <2>2, <2>3, <2>4, CallStarts
<1>4. CASE ReadGroup BY <1>4, GroupRead
<1>5. CASE EndLoop \/ KeyStop BY <1>1, <1>5 DEF EndLoop, KeyStop, Finish
<1>6. CASE ValueRead \/ EnterLoop \/ SkipVarint \/ TakeFixed \/ SkipSpan
  BY <1>1, <1>6 DEF ValueRead, EnterLoop, SkipVarint, TakeFixed, SkipSpan
<1>7. CASE KeyKnown
  <2>1. PICK f \in Known : stack' = [stack EXCEPT ![depth].field = f] /\ Call(f.coder, rd.iter)
    BY <1>7 DEF KeyKnown
  <2>2. pos' = rd.iter /\ rd.for = "key" BY <1>7 DEF KeyKnown, KeyRead
  <2>3. top.coder.kind = "message" BY <2>2 DEF TypeOK, CalleeOK
  <2>4. f \in Fields /\ f.coder \in Coders BY <2>1, <2>3, TopType DEF Known
  <2>5. top'.coder = top.coder /\ top'.field = f
    <3>1. stack \in Seq(Frames) /\ Len(stack) > 0 BY TopType, SMT DEF depth
    <3> QED BY <2>1, <2>4, <3>1, SetField DEF depth, top
  <2>6. Callee' = f.coder BY <2>3, <2>5 DEF Callee
  <2>7. Call(f.coder, pos') BY <2>1, <2>2
  <2> QED BY <2>4, <2>6, <2>7, CallStarts
<1>8. CASE KeyUnknown
  <2> DEFINE w == WireOf(rd.n)
  <2>1. /\ pos' = rd.iter
        /\ rd' = CASE w = 0 -> Reading("skip", rd.iter)
                   [] w = 2 -> Reading("skipLength", rd.iter)
                   [] OTHER -> Taking("skipSpan", rd.iter, FixedSize[w])
    BY <1>8 DEF KeyUnknown
  <2> HIDE DEF w
  <2>2. CASE w \in {0, 2}
    <3>1. rd' \in {Reading("skip", pos'), Reading("skipLength", pos')} BY <2>1, <2>2
    <3>2. rd'.for \in VarintReads /\ rd'.iter = pos' /\ rd'.n = 0 /\ rd'.scale = 1
          /\ rd'.done = FALSE /\ rd'.for # "key"
      BY <3>1 DEF Reading, VarintReads
    <3> QED BY <3>2, ReadStarts
  <2>3. CASE w \notin {0, 2}
    <3>1. rd' = Taking("skipSpan", pos', FixedSize[w]) BY <2>1, <2>3
    <3> QED BY <3>1 DEF Taking, ReadInv, VarintReads
  <2> QED BY <2>2, <2>3
<1>9. CASE SkipLength
  <2>1. rd' = Taking("skipSpan", pos', rd.n) BY <1>9 DEF SkipLength
  <2> QED BY <2>1 DEF Taking, ReadInv, VarintReads
<1>10. CASE KeyThrows \/ ReserveThrows \/ Fail \/ Overrun \/ UNCHANGED vars
  <2>1. UNCHANGED <<buf, pos, stack, rd>>
    BY <1>10 DEF KeyThrows, ReserveThrows, Fail, Overrun, vars
  <2>2. UNCHANGED <<WordOf, ShiftOf, Callee, MoreToRead>>
    BY <2>1 DEF WordOf, ShiftOf, Callee, MoreToRead, top, depth
  <2> QED BY <2>1, <2>2 DEF ReadInv, Continues
<1> QED BY <1>2, <1>3, <1>4, <1>5, <1>6, <1>7, <1>8, <1>9, <1>10 DEF Next

\* The decoder reads what is there.
THEOREM ReadsWhatIsThere == Spec => []ReadInv
BY ReadInit, ReadNext, TypeCorrect, PTL DEF Spec

-----------------------------------------------------------------------------
(* What the decoder has read, and what the grammar finds there.            *)

\* The span that is decoded, and a window of the innermost loop.
LEMMA SpanType ==
    ASSUME TypeOK
    PROVE  /\ limit \in Nat /\ buf \in Spans(limit) /\ pos \in Nat /\ pos <= limit
           /\ depth \in Nat \ {0} /\ top.coder \in LoopCoders
<1>1. limit \in Nat /\ pos \in Nat /\ pos <= limit BY DecoderAssumption, SMT DEF TypeOK
<1>2. top.coder \in LoopCoders BY TopType DEF LoopCoders
<1> QED BY <1>1, <1>2, TopType DEF TypeOK, Spans

\* A varint that is complete was read to its last byte.
LEMMA WasLast ==
    ASSUME TypeOK, ReadInv, rd.for \in VarintReads, rd.done,
           NEW hi \in 0..limit, NEW k \in LastOfVarint(buf, pos, hi)
    PROVE  k + 1 = rd.iter
<1>1. hi \in Nat /\ pos \in Nat BY SpanType, SMT
<1>2. k \in Nat /\ pos <= k /\ ~Continues(buf[k]) /\ \A j \in pos .. k - 1 : Continues(buf[j])
  BY <1>1, LastPlace
<1>3. /\ pos < rd.iter /\ ~Continues(buf[rd.iter - 1])
      /\ \A j \in pos .. rd.iter - 1 : Continues(buf[j]) \/ j = rd.iter - 1
  BY DEF ReadInv
<1>4. rd.for # "head" BY DEF VarintReads
<1>5. rd.iter \in Nat BY <1>4, IterType
<1>6. ~(k < rd.iter - 1)
  <2>1. SUFFICES ASSUME k < rd.iter - 1 PROVE FALSE OBVIOUS
  <2>2. k \in pos .. rd.iter - 1 /\ k # rd.iter - 1 BY <1>1, <1>2, <1>5, <2>1, SMT
  <2> QED BY <1>2, <1>3, <2>2
<1>7. ~(rd.iter - 1 < k)
  <2>1. SUFFICES ASSUME rd.iter - 1 < k PROVE FALSE OBVIOUS
  <2>2. rd.iter - 1 \in pos .. k - 1 BY <1>1, <1>2, <1>3, <1>5, <2>1, SMT
  <2> QED BY <1>2, <1>3, <2>2
<1> QED BY <1>2, <1>5, <1>6, <1>7, SMT

\* And it is the number that the grammar finds.
LEMMA WasRead ==
    ASSUME TypeOK, ReadInv, rd.for \in VarintReads, rd.done, rd.for # "skip",
           NEW hi \in 0..limit, NEW v \in VarintAt(buf, pos, hi, WordOf, ShiftOf)
    PROVE  v.end = rd.iter /\ v.val = rd.n
<1>1. PICK k \in LastOfVarint(buf, pos, hi) :
        /\ Weight[k - pos] < ShiftOf
        /\ v = Found(k + 1, NumberFrom(buf, pos)[k - pos + 1] % WordOf)
  BY DEF VarintAt
<1>2. k + 1 = rd.iter BY WasLast
<1>3. k \in Nat /\ pos \in Nat
  <2>1. hi \in Nat /\ pos \in Nat BY SpanType, SMT
  <2> QED BY <2>1, LastPlace
<1>4. rd.iter - pos = k - pos + 1 /\ rd.iter - pos - 1 = k - pos BY <1>2, <1>3, SMT
<1>5. rd.n = NumberFrom(buf, pos)[k - pos + 1] % WordOf BY <1>1, <1>4 DEF ReadInv
<1> QED BY <1>1, <1>2, <1>5 DEF Found

\* A varint that ends in the window is not read past the span.
LEMMA GoesOn ==
    ASSUME TypeOK, ReadInv, InVarint, NEW hi \in 0..limit, NEW k \in LastOfVarint(buf, pos, hi)
    PROVE  rd.iter < limit
<1>1. hi \in Nat /\ hi <= limit /\ limit \in Nat /\ pos \in Nat BY SpanType, SMT
<1>2. k \in Nat /\ pos <= k /\ k < hi /\ ~Continues(buf[k]) BY <1>1, LastPlace
<1>3. rd.for \in VarintReads /\ ~rd.done BY DEF InVarint
<1>4. \A j \in pos .. rd.iter - 1 : Continues(buf[j]) BY <1>3 DEF ReadInv
<1>5. rd.for # "head" BY <1>3 DEF VarintReads
<1>6. rd.iter \in Nat BY <1>5, IterType
<1>7. k \notin pos .. rd.iter - 1 BY <1>2, <1>4
<1> QED BY <1>1, <1>2, <1>6, <1>7, SMT

-----------------------------------------------------------------------------
(* The decoder on its way to a well-formed message.                        *)

\* Where loop d ends by the length it was declared with, and where it will:
\* the outermost one at the end of the message, which is res[0].
EndOf(d) == stack[d].origin + stack[d].len
Until(res, d) == IF d = 1 THEN res[0] ELSE EndOf(d)

There(c, lo, hi) == Contents(buf, limit)[Window(c, lo, hi)]

\* The field a value is for.
FieldHere == IF top.coder.kind = "array" THEN NoField ELSE top.field

\* What the grammar finds from pos on for the innermost loop.
ToCome(res) ==
    CASE rd.for \in {"head", "key"} -> There(top.coder, pos, Until(res, depth))
      [] rd.for \in {"value", "length", "fixed"} ->
            ItemsAt(buf, Contents(buf, limit), top.coder, FieldHere, Callee, pos, Until(res, depth))
      [] rd.for = "skip" ->
            UNION {There(top.coder, e, Until(res, depth)) :
                   e \in SkipEnds(buf, 0, pos, Until(res, depth))}
      [] rd.for = "skipLength" ->
            UNION {There(top.coder, e, Until(res, depth)) :
                   e \in SkipEnds(buf, 2, pos, Until(res, depth))}
      [] rd.for = "skipSpan" ->
            UNION {There(top.coder, e, Until(res, depth)) :
                   e \in {f \in {pos + rd.n} : f <= Until(res, depth)}}

\* Loop d waits for res[d+1] of the loop above it, to become res[d].
Waits(res, d) ==
    \E rest \in There(stack[d].coder, Until(res, d + 1), Until(res, d)) :
        Filled(stack[d].coder,
               PushItem(stack[d].coder, vals[d], Item(stack[d].field, res[d + 1])), rest) = res[d]

\* Every loop d is about to make res[d] of its value.
OnTrack(res) ==
    /\ root \in Roots /\ EndOf(1) = limit /\ res[0] \in Ends
    /\ \A d \in 1..depth : Until(res, d) <= limit
    /\ \A d \in 1 .. depth - 1 : Waits(res, d)
    /\ \E items \in ToCome(res) : Filled(top.coder, vals[depth], items) = res[depth]

\* The ends of the loops lie in the span.
LEMMA EndOfType ==
    ASSUME TypeOK, NEW res, res[0] \in Ends, NEW d \in 1..depth
    PROVE  Until(res, d) \in Nat /\ stack[d].coder \in LoopCoders
<1>1. stack[d] \in Frames BY SMT DEF TypeOK, depth
<1>2. stack[d].origin \in Nat /\ stack[d].len \in Nat /\ stack[d].coder \in LoopCoders
  BY <1>1 DEF Frames
<1>3. EndOf(d) \in Nat BY <1>2, SMT DEF EndOf
<1>4. res[0] \in Nat
  <2>1. res[0] \in 0..limit BY DEF Ends
  <2> QED BY <2>1, SpanType, SMT
<1> QED BY <1>2, <1>3, <1>4 DEF Until

\* The loop that runs ends within the buffer.
LEMMA EndHere ==
    ASSUME TypeOK, NEW res, OnTrack(res)
    PROVE  Until(res, depth) \in 0..limit /\ depth \in 1..depth
<1>1. depth \in 1..depth BY SpanType, SMT
<1>2. Until(res, depth) \in Nat /\ Until(res, depth) <= limit BY <1>1, EndOfType DEF OnTrack
<1> QED BY <1>1, <1>2, SpanType, SMT

\* What there is in a window of the span, by the grammar.
LEMMA ThereIs ==
    ASSUME TypeOK, NEW c \in LoopCoders, NEW lo \in Nat, NEW hi \in 0..limit
    PROVE  There(c, lo, hi) = ContentsStep(buf, Contents(buf, limit), Window(c, lo, hi))
<1>1. Window(c, lo, hi) \in Windows(limit) BY DEF Window, Windows
<1> QED BY <1>1, SpanType, ContentsAt DEF There

\* At the end of a window there is nothing, and after it there cannot be.
LEMMA ThereAtEnd ==
    ASSUME TypeOK, NEW c \in LoopCoders, NEW lo \in Nat, NEW hi \in 0..limit, hi <= lo,
           NEW items \in There(c, lo, hi)
    PROVE  lo = hi /\ items = <<>>
<1>1. items \in ContentsStep(buf, Contents(buf, limit), Window(c, lo, hi)) BY ThereIs
<1>2. lo = hi \/ (lo # hi /\ lo > hi) BY SpanType, SMT
<1> QED BY <1>1, <1>2 DEF ContentsStep, Window

\* Before it there is an element,
LEMMA ThereElement ==
    ASSUME TypeOK, NEW c \in LoopCoders, NEW lo \in Nat, NEW hi \in 0..limit, lo < hi,
           c.kind = "array"
    PROVE  There(c, lo, hi) = ItemsAt(buf, Contents(buf, limit), c, NoField, c.elem, lo, hi)
<1>1. lo # hi /\ ~(lo > hi) BY SpanType, SMT
<1> QED BY <1>1, ThereIs DEF ContentsStep, Window

\* or a field.
LEMMA ThereField ==
    ASSUME TypeOK, NEW c \in LoopCoders, NEW lo \in Nat, NEW hi \in 0..limit, lo < hi,
           c.kind = "message", NEW items \in There(c, lo, hi)
    PROVE  \E k \in VarintAt(buf, lo, hi, KeyWord, KeyWord) :
              NumberOf(k.val) # 0 /\ items \in
                      FieldsAt(buf, Contents(buf, limit), c, k.val, k.end, hi)
<1>1. lo # hi /\ ~(lo > hi) /\ c.kind # "array" BY SpanType, SMT
<1>2. items \in ContentsStep(buf, Contents(buf, limit), Window(c, lo, hi)) BY ThereIs
<1>3. items \in UNION {FieldsAt(buf, Contents(buf, limit), c, k.val, k.end, hi) :
                       k \in {l \in VarintAt(buf, lo, hi, KeyWord, KeyWord) : NumberOf(l.val) # 0}}
  BY <1>1, <1>2 DEF ContentsStep, Window
<1> QED BY <1>3

\* What begins with a value, and what it makes of a container.
LEMMA ItemFirst ==
    ASSUME TypeOK, NEW c \in LoopCoders, NEW lo \in Nat, NEW hi \in 0..limit,
           NEW f, NEW callee \in Coders,
           NEW items \in ItemsAt(buf, Contents(buf, limit), c, f, callee, lo, hi)
    PROVE  \E v \in ValueAt(buf, Contents(buf, limit), callee, lo, hi) :
             \E rest \in There(c, v.end, hi) :
               /\ v.end \in Nat /\ lo < v.end /\ v.end <= hi
               /\ \A x : Filled(c, x, items) = Filled(c, PushItem(c, x, Item(f, v.val)), rest)
<1>1. PICK v \in ValueAt(buf, Contents(buf, limit), callee, lo, hi) :
        \E rest \in There(c, v.end, hi) : items = <<Item(f, v.val)>> \o rest
  BY DEF ItemsAt, There
<1>2. PICK rest \in There(c, v.end, hi) : items = <<Item(f, v.val)>> \o rest BY <1>1
<1>3. v.end \in Nat /\ lo < v.end /\ v.end <= hi BY SpanType, ValuePlace
<1>4. IsSeq(rest)
  <2>1. Window(c, v.end, hi) \in Windows(limit) BY <1>3 DEF Window, Windows
  <2> QED BY <1>2, <2>1, SpanType, ContentsSeq DEF There
<1>5. \A x : Filled(c, x, items) = Filled(c, PushItem(c, x, Item(f, v.val)), rest)
  BY <1>2, <1>4, FilledMore
<1> QED BY <1>2, <1>3, <1>5

\* The loops below stay on track when they and what they wait for stay.
LEMMA SameLoops ==
    ASSUME TypeOK, NEW res, OnTrack(res), UNCHANGED <<buf, limit>>, depth' = depth,
           \A d \in 1..depth : /\ stack'[d].coder = stack[d].coder
                               /\ stack'[d].origin = stack[d].origin /\ stack'[d].len = stack[d].len,
           \A d \in 1 .. depth - 1 : stack'[d].field = stack[d].field /\ vals'[d] = vals[d],
           \E items \in ToCome(res)' : Filled(top'.coder, vals'[depth], items) = res[depth]
    PROVE  OnTrack(res)'
<1>1. \A d \in 1..depth : Until(res, d)' = Until(res, d) BY DEF Until, EndOf
<1>2. depth \in Nat \ {0} /\ 1 \in 1..depth BY SpanType, SMT
<1>4. root' \in Roots /\ EndOf(1)' = limit' /\ (res[0] \in Ends)'
  BY <1>2 DEF OnTrack, EndOf, Ends, root
<1>3. ASSUME NEW d \in 1 .. depth - 1 PROVE Waits(res, d)'
  <2>1. d \in 1..depth /\ d + 1 \in 1..depth BY <1>2, SMT
  <2>2. Waits(res, d) BY DEF OnTrack
  <2>3. Until(res, d)' = Until(res, d) /\ Until(res, d + 1)' = Until(res, d + 1) BY <1>1, <2>1
  <2>4. /\ stack'[d].coder = stack[d].coder /\ stack'[d].field = stack[d].field
        /\ vals'[d] = vals[d]
    BY <2>1
  <2> QED BY <2>2, <2>3, <2>4 DEF Waits, There
<1> QED BY <1>1, <1>2, <1>3, <1>4 DEF OnTrack

\* So they do when only the innermost read changes.
LEMMA SameStack ==
    ASSUME TypeOK, NEW res, OnTrack(res), UNCHANGED <<buf, limit, stack, vals>>,
           \E items \in ToCome(res)' : Filled(top.coder, vals[depth], items) = res[depth]
    PROVE  OnTrack(res)'
<1>1. depth' = depth /\ top' = top BY DEF depth, top
<1> QED BY <1>1, SameLoops

\* There are bytes left exactly before the declared end.
LEMMA MoreIs == ASSUME TypeOK PROVE MoreToRead <=> pos < EndOf(depth)
<1>1. top.origin \in Nat /\ top.len \in Nat BY TopType DEF Frames
<1>2. pos \in Nat BY SpanType
<1> QED BY <1>1, <1>2, SMT DEF MoreToRead, EndOf, top

\* A field begins.
LEMMA NextKeyTrack == ASSUME TypeOK, NEW res, OnTrack(res), NextKey PROVE OnTrack(res)'
<1>1. rd.for = "head" /\ rd'.for = "key" /\ UNCHANGED <<buf, limit, pos, stack, vals>>
  BY DEF NextKey, AtLoopHead, Reading
<1>2. ToCome(res)' = ToCome(res) BY <1>1 DEF ToCome, There, top, depth, Until, EndOf
<1> QED BY <1>1, <1>2, SameStack DEF OnTrack

\* An element begins.
LEMMA NextElementTrack == ASSUME TypeOK, NEW res, OnTrack(res), NextElement PROVE OnTrack(res)'
<1>1. /\ rd.for = "head" /\ UNCHANGED <<buf, limit, pos, stack, vals>> /\ MoreToRead
      /\ top.coder.kind = "array" /\ Call(top.coder.elem, pos)
  BY DEF NextElement, AtLoopHead
<1>2. top.coder.elem \in Coders BY <1>1, TopType
<1>3. rd'.for \in {"value", "fixed", "length"} BY <1>1, <1>2, SpanType, CallType
<1>4. pos < Until(res, depth)
  <2>1. depth # 1
    <3>1. root.kind = "message" BY DecoderAssumption DEF OnTrack
    <3> QED BY <1>1, <3>1 DEF root, top
  <2> QED BY <1>1, <2>1, MoreIs DEF Until
<1>5. Until(res, depth) \in 0..limit BY EndHere
<1>6. ToCome(res) =
        ItemsAt(buf, Contents(buf, limit), top.coder, NoField, top.coder.elem, pos, Until(res, depth))
  BY <1>1, <1>4, <1>5, SpanType, ThereElement DEF ToCome
<1>7. Callee' = top.coder.elem /\ FieldHere' = NoField /\ top' = top /\ depth' = depth
  BY <1>1 DEF Callee, FieldHere, top, depth
<1>8. Until(res, depth)' = Until(res, depth) BY <1>1, <1>7 DEF Until, EndOf
<1>9. ToCome(res)' = ToCome(res) BY <1>1, <1>3, <1>6, <1>7, <1>8 DEF ToCome
<1> QED BY <1>1, <1>9, SameStack DEF OnTrack

\* Reading a byte of a varint changes nothing of what it is.
LEMMA ReadGroupTrack == ASSUME TypeOK, NEW res, OnTrack(res), ReadGroup PROVE OnTrack(res)'
<1>1. rd.for \in VarintReads /\ UNCHANGED <<buf, limit, pos, stack, vals>>
  BY DEF ReadGroup, InVarint
<1>2. rd'.for = rd.for
  <2>1. rd \in Reads BY DEF TypeOK
  <2> QED BY <2>1 DEF ReadGroup, Reads
<1>3. Callee' = Callee /\ FieldHere' = FieldHere /\ top' = top /\ depth' = depth
  BY <1>1 DEF Callee, FieldHere, top, depth
<1>4. Until(res, depth)' = Until(res, depth) BY <1>1, <1>3 DEF Until, EndOf
<1>5. ToCome(res)' = ToCome(res) BY <1>1, <1>2, <1>3, <1>4 DEF ToCome, There, VarintReads
<1> QED BY <1>1, <1>5, SameStack DEF OnTrack

\* A key is read where the loop ends only behind the message: it has field
\* number 0, and the message is complete.
LEMMA KeyBehind ==
    ASSUME TypeOK, NEW res, OnTrack(res), rd.for = "key", MoreToRead, ~(pos < Until(res, depth))
    PROVE  /\ depth = 1 /\ pos = res[0] /\ vals[1] = res[1]
           /\ \E v \in VarintAt(buf, pos, limit, KeyWord, KeyWord) : NumberOf(v.val) = 0
<1>1. Until(res, depth) \in 0..limit BY EndHere
<1>2. PICK items \in There(top.coder, pos, Until(res, depth)) :
        Filled(top.coder, vals[depth], items) = res[depth]
  BY DEF OnTrack, ToCome
<1>3. pos = Until(res, depth) /\ items = <<>>
  <2>1. pos \in Nat /\ limit \in Nat BY SpanType
  <2>2. Until(res, depth) <= pos BY <1>1, <2>1, SMT
  <2> QED BY <1>1, <1>2, <2>1, <2>2, SpanType, ThereAtEnd
<1>4. pos < EndOf(depth) BY MoreIs
<1>5. depth = 1 /\ pos = res[0]
  <2>1. EndOf(depth) # Until(res, depth) BY <1>3, <1>4
  <2> QED BY <1>3, <2>1 DEF Until
<1>6. vals[1] = res[1] BY <1>2, <1>3, <1>5, FilledEmpty
<1>7. pos # limit
  <2>1. pos \in Nat /\ limit \in Nat /\ pos < limit BY <1>4, <1>5, SpanType DEF OnTrack
  <2> QED BY <2>1, SMT
<1>8. \E v \in VarintAt(buf, pos, limit, KeyWord, KeyWord) : NumberOf(v.val) = 0
  BY <1>5, <1>7 DEF OnTrack, Ends
<1> QED BY <1>5, <1>6, <1>8

\* The key that has been read is then that key,
LEMMA KeyBehindRead ==
    ASSUME TypeOK, ReadInv, NEW res, OnTrack(res), KeyRead, ~(pos < Until(res, depth))
    PROVE  depth = 1 /\ pos = res[0] /\ vals[1] = res[1] /\ NumberOf(rd.n) = 0
<1>1. rd.for = "key" /\ rd.done /\ MoreToRead BY DEF KeyRead, ReadInv
<1>2. rd.for \in VarintReads /\ rd.for # "skip" /\ WordOf = KeyWord /\ ShiftOf = KeyWord
  BY <1>1 DEF VarintReads, WordOf, ShiftOf
<1>3. PICK v \in VarintAt(buf, pos, limit, KeyWord, KeyWord) : NumberOf(v.val) = 0
  BY <1>1, KeyBehind
<1>4. limit \in 0..limit BY SpanType, SMT
<1>5. v.val = rd.n BY <1>1, <1>2, <1>3, <1>4, WasRead
<1> QED BY <1>1, <1>3, <1>5, KeyBehind

\* and else that of the field which is there.
LEMMA KeyIs ==
    ASSUME TypeOK, ReadInv, NEW res, OnTrack(res), KeyRead,
           pos < Until(res, depth) \/ NumberOf(rd.n) # 0
    PROVE  /\ NumberOf(rd.n) # 0
           /\ \E items \in
                   FieldsAt(buf, Contents(buf, limit), top.coder, rd.n, rd.iter, Until(res, depth)) :
                Filled(top.coder, vals[depth], items) = res[depth]
<1>1. rd.for = "key" /\ rd.done BY DEF KeyRead
<1>2. rd.for \in VarintReads /\ rd.for # "skip" /\ WordOf = KeyWord /\ ShiftOf = KeyWord
  BY <1>1 DEF VarintReads, WordOf, ShiftOf
<1>3. top.coder.kind = "message" BY <1>1 DEF TypeOK, CalleeOK
<1>4. pos < Until(res, depth) BY KeyBehindRead
<1>5. PICK items \in There(top.coder, pos, Until(res, depth)) :
        Filled(top.coder, vals[depth], items) = res[depth]
  BY <1>1 DEF OnTrack, ToCome
<1>6. Until(res, depth) \in 0..limit BY EndHere
<1>7. PICK k \in VarintAt(buf, pos, Until(res, depth), KeyWord, KeyWord) :
        /\ NumberOf(k.val) # 0
        /\ items \in FieldsAt(buf, Contents(buf, limit), top.coder, k.val, k.end, Until(res, depth))
  BY <1>3, <1>4, <1>6, SpanType, ThereField
<1>8. k.end = rd.iter /\ k.val = rd.n BY <1>1, <1>2, <1>6, WasRead
<1> QED BY <1>5, <1>7, <1>8

\* A known field is decoded by its coder.
LEMMA KeyKnownTrack == ASSUME TypeOK, ReadInv, NEW res, OnTrack(res), KeyKnown PROVE OnTrack(res)'
<1>1. KeyRead /\ rd.for = "key" /\ pos' = rd.iter /\ UNCHANGED <<buf, limit, vals>>
  BY DEF KeyKnown, KeyRead
<1>2. PICK f \in Known : stack' = [stack EXCEPT ![depth].field = f] /\ Call(f.coder, rd.iter)
  BY DEF KeyKnown
<1>3. top.coder.kind = "message" BY <1>1 DEF TypeOK, CalleeOK
<1>4. f \in top.coder.fields /\ Key(f) = rd.n /\ f \in Fields /\ f.coder \in Coders
  BY <1>2, <1>3, TopType DEF Known
<1>5. PICK items \in
        FieldsAt(buf, Contents(buf, limit), top.coder, rd.n, rd.iter, Until(res, depth)) :
        Filled(top.coder, vals[depth], items) = res[depth]
  BY <1>1, KeyIs DEF KeyKnown
<1>6. items \in
        ItemsAt(buf, Contents(buf, limit), top.coder, f, f.coder, rd.iter, Until(res, depth))
  <2> DEFINE known == {g \in top.coder.fields : Key(g) = rd.n}
  <2>1. known = {f}
    <3>1. f \in known BY <1>4
    <3>2. \A g \in top.coder.fields : Key(g) = Key(f) => g = f
      BY <1>3, <1>4, TopType, SchemaAssumption
    <3> QED BY <1>4, <3>1, <3>2
  <2> QED BY <1>5, <2>1 DEF FieldsAt
<1>7. stack \in Seq(Frames) /\ Len(stack) > 0 /\ depth \in Nat BY TopType, SMT DEF depth
<1>8. /\ depth' = depth /\ top' = [top EXCEPT !.field = f]
      /\ \A d \in 1 .. depth - 1 : stack'[d] = stack[d]
  <2> DEFINE t == [stack EXCEPT ![Len(stack)].field = f]
  <2>1. /\ Len(t) = Len(stack) /\ \A d \in 1 .. Len(stack) - 1 : t[d] = stack[d]
        /\ t[Len(stack)] = [stack[Len(stack)] EXCEPT !.field = f]
    BY <1>4, <1>7, SetField
  <2>2. stack' = t BY <1>2 DEF depth
  <2> QED BY <2>1, <2>2 DEF depth, top
<1>9. /\ top'.coder = top.coder /\ top'.origin = top.origin /\ top'.len = top.len /\ top'.field = f
  BY <1>8, TopType DEF Frames
<1>10. \A d \in 1..depth : /\ stack'[d].coder = stack[d].coder
                           /\ stack'[d].origin = stack[d].origin /\ stack'[d].len = stack[d].len
  <2>1. stack'[depth] = top' /\ stack[depth] = top BY <1>8 DEF top
  <2>2. \A d \in 1..depth : d = depth \/ d \in 1 .. depth - 1 BY <1>7, SMT
  <2> QED BY <1>8, <1>9, <2>1, <2>2
<1>11. rd'.for \in {"value", "fixed", "length"}
  <2>1. rd.iter \in Nat BY <1>1, IterType
  <2> QED BY <1>2, <1>4, <2>1, CallType
<1>12. Callee' = f.coder /\ FieldHere' = f BY <1>3, <1>9 DEF Callee, FieldHere
<1>13. Until(res, depth)' = Until(res, depth)
  <2>1. depth \in 1..depth BY EndHere
  <2> QED BY <1>8, <1>10, <2>1 DEF Until, EndOf
<1>14. ToCome(res)' =
        ItemsAt(buf, Contents(buf, limit), top.coder, f, f.coder, rd.iter, Until(res, depth))
  BY <1>1, <1>9, <1>11, <1>12, <1>13 DEF ToCome
<1>15. \E it \in ToCome(res)' : Filled(top'.coder, vals'[depth], it) = res[depth]
  BY <1>1, <1>5, <1>6, <1>9, <1>14
<1> QED BY <1>1, <1>8, <1>10, <1>15, SameLoops

\* An unknown field is skipped.
LEMMA UnknownIs ==
    ASSUME TypeOK, ReadInv, NEW res, OnTrack(res), KeyRead, NumberOf(rd.n) # 0, Known = {}
    PROVE  \E e \in SkipEnds(buf, WireOf(rd.n), rd.iter, Until(res, depth)) :
             \E items \in There(top.coder, e, Until(res, depth)) :
               Filled(top.coder, vals[depth], items) = res[depth]
<1>1. PICK items \in
        FieldsAt(buf, Contents(buf, limit), top.coder, rd.n, rd.iter, Until(res, depth)) :
        Filled(top.coder, vals[depth], items) = res[depth]
  BY KeyIs
<1>2. items \in UNION {There(top.coder, e, Until(res, depth)) :
                       e \in SkipEnds(buf, WireOf(rd.n), rd.iter, Until(res, depth))}
  BY <1>1 DEF FieldsAt, Known, There
<1> QED BY <1>1, <1>2

\* The skipper that KeyUnknown starts is the one the grammar asks for.
LEMMA KeyUnknownTrack ==
    ASSUME TypeOK, ReadInv, NEW res, OnTrack(res), KeyUnknown PROVE OnTrack(res)'
<1> DEFINE w == WireOf(rd.n)
<1>1. /\ KeyRead /\ NumberOf(rd.n) # 0 /\ Known = {} /\ pos' = rd.iter
      /\ UNCHANGED <<buf, limit, stack, vals>>
      /\ w \in {0, 1, 2, 5}
      /\ rd' = CASE w = 0 -> Reading("skip", rd.iter)
                 [] w = 2 -> Reading("skipLength", rd.iter)
                 [] OTHER -> Taking("skipSpan", rd.iter, FixedSize[w])
  BY DEF KeyUnknown
<1>2. PICK e \in SkipEnds(buf, w, rd.iter, Until(res, depth)) :
        \E items \in There(top.coder, e, Until(res, depth)) :
               Filled(top.coder, vals[depth], items) = res[depth]
  BY <1>1, UnknownIs
<1>3. PICK items \in There(top.coder, e, Until(res, depth)) :
       Filled(top.coder, vals[depth], items) = res[depth]
  BY <1>2
<1> HIDE DEF w
<1>4. top' = top /\ depth' = depth BY <1>1 DEF top, depth
<1>5. Until(res, depth)' = Until(res, depth) BY <1>1, <1>4 DEF Until, EndOf
<1>6. There(top.coder, e, Until(res, depth))' = There(top.coder, e, Until(res, depth))
  BY <1>1, <1>4, <1>5 DEF There
<1>7. items \in ToCome(res)'
  <2>1. CASE w = 0
    <3>1. rd'.for = "skip" BY <1>1, <2>1 DEF Reading
    <3>2. ToCome(res)' = UNION {There(top.coder, x, Until(res, depth))' :
           x \in SkipEnds(buf, 0, rd.iter, Until(res, depth))}
      BY <1>1, <1>4, <1>5, <3>1 DEF ToCome, There
    <3> QED BY <1>2, <1>3, <1>6, <2>1, <3>2
  <2>2. CASE w = 2
    <3>1. rd'.for = "skipLength" BY <1>1, <2>2 DEF Reading
    <3>2. ToCome(res)' = UNION {There(top.coder, x, Until(res, depth))' :
           x \in SkipEnds(buf, 2, rd.iter, Until(res, depth))}
      BY <1>1, <1>4, <1>5, <3>1 DEF ToCome, There
    <3> QED BY <1>2, <1>3, <1>6, <2>2, <3>2
  <2>3. CASE w \in {1, 5}
    <3>1. rd'.for = "skipSpan" /\ rd'.n = FixedSize[w] BY <1>1, <2>3 DEF Taking
    <3>2. w # 0 /\ w # 2 BY <2>3
    <3>3. e = rd.iter + FixedSize[w] /\ e <= Until(res, depth) BY <1>2, <2>3, <3>2 DEF SkipEnds
    <3>4. ToCome(res)' = UNION {There(top.coder, x, Until(res, depth))' :
                          x \in {y \in {rd.iter + FixedSize[w]} : y <= Until(res, depth)}}
      BY <1>1, <1>4, <1>5, <3>1 DEF ToCome, There
    <3> QED BY <1>3, <1>6, <3>3, <3>4
  <2> QED BY <1>1, <2>1, <2>2, <2>3
<1> QED BY <1>1, <1>3, <1>7, SameStack

\* What is being read for a coder is a value of that coder.
LEMMA ValueIs ==
    ASSUME TypeOK, ReadInv, NEW res, OnTrack(res), rd.for \in {"value", "fixed", "length"}
    PROVE  \E v \in ValueAt(buf, Contents(buf, limit), Callee, pos, Until(res, depth)) :
             \E rest \in There(top.coder, v.end, Until(res, depth)) :
               /\ v.end \in Nat /\ pos < v.end /\ v.end <= Until(res, depth)
               /\ Filled(top.coder, PushItem(top.coder, vals[depth], Item(top.field, v.val)), rest)
                    = res[depth]
<1>1. Callee \in Coders BY DEF TypeOK, CalleeOK, ReadInv, LoopCoders
<1>2. Until(res, depth) \in 0..limit BY EndHere
<1>3. PICK items \in
        ItemsAt(buf, Contents(buf, limit), top.coder, FieldHere, Callee, pos, Until(res, depth)) :
        Filled(top.coder, vals[depth], items) = res[depth]
  BY DEF OnTrack, ToCome
<1>4. PICK v \in ValueAt(buf, Contents(buf, limit), Callee, pos, Until(res, depth)) :
        \E rest \in There(top.coder, v.end, Until(res, depth)) :
          /\ v.end \in Nat /\ pos < v.end /\ v.end <= Until(res, depth)
          /\ \A x : Filled(top.coder, x, items)
                     = Filled(top.coder, PushItem(top.coder, x, Item(FieldHere, v.val)), rest)
  BY <1>1, <1>2, <1>3, SpanType, ItemFirst
<1>5. \A x : PushItem(top.coder, x, Item(FieldHere, v.val)) =
        PushItem(top.coder, x, Item(top.field, v.val))
  BY DEF PushItem, Item, FieldHere
<1> QED BY <1>3, <1>4, <1>5

\* A value is delivered, and what comes after it is still to come.
LEMMA DeliveredTrack ==
    ASSUME TypeOK, Paid, NEW res, OnTrack(res), NEW v, NEW e,
           UNCHANGED <<buf, limit, stack>>, vals' = Deliver(depth, v), pos' = e, rd' = AtHead,
           NEW rest \in There(top.coder, e, Until(res, depth)),
           Filled(top.coder, PushItem(top.coder, vals[depth], Item(top.field, v)), rest) = res[depth]
    PROVE  OnTrack(res)'
<1>1. depth \in Nat \ {0} /\ depth' = depth /\ top' = top BY SpanType DEF depth, top
<1>2. IsSeq(vals) /\ Len(vals) = depth /\ depth \in 1 .. Len(vals) BY <1>1, SMT DEF Paid
<1> DEFINE x == PushItem(top.coder, vals[depth], Item(top.field, v))
<1>3. vals' = Set(vals, depth, x) BY DEF Deliver, Set, PushItem, Item, top
<1> HIDE DEF x
<1>4. vals'[depth] = x /\ \A d \in 1 .. Len(vals) : d # depth => vals'[d] = vals[d]
  BY <1>2, <1>3, SetSeq
<1>5. \A d \in 1 .. depth - 1 : vals'[d] = vals[d]
  <2>1. \A d \in 1 .. depth - 1 : d \in 1 .. Len(vals) /\ d # depth BY <1>1, <1>2, SMT
  <2> QED BY <1>4, <2>1
<1>6. Until(res, depth)' = Until(res, depth) BY <1>1 DEF Until, EndOf
<1>7. ToCome(res)' = There(top.coder, e, Until(res, depth))
  BY <1>1, <1>6 DEF ToCome, There, AtHead
<1>8. \E items \in ToCome(res)' : Filled(top'.coder, vals'[depth], items) = res[depth]
  BY <1>1, <1>4, <1>7 DEF x
<1> QED BY <1>1, <1>5, <1>8, SameLoops

\* A varint is delivered.
LEMMA ValueReadTrack ==
    ASSUME TypeOK, Paid, ReadInv, NEW res, OnTrack(res), ValueRead PROVE OnTrack(res)'
<1>1. /\ rd.for = "value" /\ rd.done /\ vals' = Deliver(depth, rd.n) /\ pos' = rd.iter
      /\ rd' = AtHead /\ UNCHANGED <<buf, limit, stack>>
  BY DEF ValueRead
<1>2. PICK v \in ValueAt(buf, Contents(buf, limit), Callee, pos, Until(res, depth)) :
        \E rest \in There(top.coder, v.end, Until(res, depth)) :
          /\ v.end <= Until(res, depth)
          /\ Filled(top.coder, PushItem(top.coder, vals[depth], Item(top.field, v.val)), rest)
                 = res[depth]
  BY <1>1, ValueIs
<1>3. Callee.kind = "varint" BY <1>1 DEF TypeOK, CalleeOK
<1>4. rd.for \in VarintReads /\ rd.for # "skip" /\ WordOf = Callee.word /\ ShiftOf = Callee.shift
  BY <1>1 DEF VarintReads, WordOf, ShiftOf
<1>5. v \in VarintAt(buf, pos, Until(res, depth), WordOf, ShiftOf) BY <1>2, <1>3, <1>4 DEF ValueAt
<1>6. v.end = rd.iter /\ v.val = rd.n BY <1>1, <1>4, <1>5, EndHere, WasRead
<1> QED BY <1>1, <1>2, <1>6, DeliveredTrack

\* A value of fixed length is delivered.
LEMMA FixedIs ==
    ASSUME TypeOK, ReadInv, NEW res, OnTrack(res), rd.for = "fixed"
    PROVE  /\ rd.iter + rd.n <= Until(res, depth)
           /\ \E rest \in There(top.coder, rd.iter + rd.n, Until(res, depth)) :
                Filled(top.coder, PushItem(top.coder, vals[depth],
                         Item(top.field, [j \in 1 .. rd.n |-> buf[rd.iter + j - 1]])), rest)
                  = res[depth]
<1>1. Callee.kind = "fixed" /\ rd.n = Callee.size /\ rd.iter = pos BY DEF ReadInv, SpanReads
<1>2. PICK v \in ValueAt(buf, Contents(buf, limit), Callee, pos, Until(res, depth)) :
        \E rest \in There(top.coder, v.end, Until(res, depth)) :
          /\ v.end <= Until(res, depth)
          /\ Filled(top.coder, PushItem(top.coder, vals[depth], Item(top.field, v.val)), rest)
                 = res[depth]
  BY ValueIs
<1>3. v = Found(rd.iter + rd.n, [j \in 1 .. rd.n |-> buf[rd.iter + j - 1]])
  <2>1. ValueAt(buf, Contents(buf, limit), Callee, pos, Until(res, depth)) =
          IF pos + Callee.size > Until(res, depth) THEN {}
          ELSE {Found(pos + Callee.size, [j \in 1 .. Callee.size |-> buf[pos + j - 1]])}
    BY <1>1 DEF ValueAt
  <2> QED BY <1>1, <1>2, <2>1
<1> QED BY <1>2, <1>3 DEF Found

\* Its bytes are delivered, and the rest of the message is still to come.
LEMMA TakeFixedTrack ==
    ASSUME TypeOK, Paid, ReadInv, NEW res, OnTrack(res), TakeFixed PROVE OnTrack(res)'
<1> DEFINE v == [j \in 1 .. rd.n |-> buf[rd.iter + j - 1]]
<1>1. /\ rd.for = "fixed" /\ vals' = Deliver(depth, v) /\ pos' = rd.iter + rd.n
      /\ rd' = AtHead /\ UNCHANGED <<buf, limit, stack>>
  BY DEF TakeFixed
<1>2. PICK rest \in There(top.coder, rd.iter + rd.n, Until(res, depth)) :
        Filled(top.coder, PushItem(top.coder, vals[depth], Item(top.field, v)), rest) = res[depth]
  BY <1>1, FixedIs
<1> HIDE DEF v
<1> QED BY <1>1, <1>2, DeliveredTrack

\* What has been skipped is what the grammar skips.
LEMMA SkipTrack ==
    ASSUME TypeOK, ReadInv, NEW res, OnTrack(res), SkipVarint \/ SkipLength \/ SkipSpan
    PROVE  OnTrack(res)'
<1>1. UNCHANGED <<buf, limit, stack, vals>> BY DEF SkipVarint, SkipLength, SkipSpan
<1>2. top' = top /\ depth' = depth BY <1>1 DEF top, depth
<1>3. Until(res, depth)' = Until(res, depth) BY <1>1, <1>2 DEF Until, EndOf
<1>4. Until(res, depth) \in 0..limit BY EndHere
<1>5. \A e : There(top.coder, e, Until(res, depth))' = There(top.coder, e, Until(res, depth))
  BY <1>1, <1>2, <1>3 DEF There
<1>6. PICK items \in ToCome(res) : Filled(top.coder, vals[depth], items) = res[depth] BY DEF OnTrack
<1>7. CASE SkipVarint
  <2>1. rd.for = "skip" /\ rd.done /\ pos' = rd.iter /\ rd'.for = "head"
    BY <1>7 DEF SkipVarint, AtHead
  <2>2. PICK e \in SkipEnds(buf, 0, pos, Until(res, depth)) :
         items \in There(top.coder, e, Until(res, depth))
    BY <1>6, <2>1 DEF ToCome
  <2>3. PICK k \in LastOfVarint(buf, pos, Until(res, depth)) : e = k + 1 BY <2>2 DEF SkipEnds
  <2>4. e = rd.iter
    <3>1. rd.for \in VarintReads BY <2>1 DEF VarintReads
    <3> QED BY <1>4, <2>1, <2>3, <3>1, WasLast
  <2>5. ToCome(res)' = There(top.coder, rd.iter, Until(res, depth))
    BY <1>1, <1>2, <1>3, <2>1 DEF ToCome, There
  <2> QED BY <1>1, <1>6, <2>2, <2>4, <2>5, SameStack
<1>8. CASE SkipLength
  <2>1. rd.for = "skipLength" /\ rd.done /\ pos' = rd.iter /\ rd'.for = "skipSpan" /\ rd'.n = rd.n
    BY <1>8 DEF SkipLength, Taking
  <2>2. PICK e \in SkipEnds(buf, 2, pos, Until(res, depth)) :
         items \in There(top.coder, e, Until(res, depth))
    BY <1>6, <2>1 DEF ToCome
  <2>3. PICK l \in LengthAt(buf, pos, Until(res, depth)) : e = l.end + l.val BY <2>2 DEF SkipEnds
  <2>4. l.end = rd.iter /\ l.val = rd.n /\ e <= Until(res, depth)
    <3>1. rd.for \in VarintReads /\ rd.for # "skip" /\ WordOf = LenWord /\ ShiftOf = LenWord
      BY <2>1 DEF VarintReads, WordOf, ShiftOf
    <3>2. /\ l \in VarintAt(buf, pos, Until(res, depth), WordOf, ShiftOf)
          /\ l.end + l.val <= Until(res, depth)
      BY <2>3, <3>1 DEF LengthAt
    <3> QED BY <1>4, <2>1, <2>3, <3>1, <3>2, WasRead
  <2>5. e \in {f \in {rd.iter + rd.n} : f <= Until(res, depth)} BY <2>3, <2>4
  <2>6. ToCome(res)' = UNION {There(top.coder, x, Until(res, depth)) :
                        x \in {f \in {rd.iter + rd.n} : f <= Until(res, depth)}}
    BY <1>1, <1>2, <1>3, <2>1 DEF ToCome, There
  <2> QED BY <1>1, <1>6, <2>2, <2>5, <2>6, SameStack
<1>9. CASE SkipSpan
  <2>1. rd.for = "skipSpan" /\ pos' = rd.iter + rd.n /\ rd'.for = "head"
    BY <1>9 DEF SkipSpan, AtHead
  <2>2. rd.iter = pos BY <2>1 DEF ReadInv, SpanReads
  <2>3. items \in There(top.coder, pos + rd.n, Until(res, depth)) BY <1>6, <2>1 DEF ToCome
  <2>4. ToCome(res)' = There(top.coder, pos + rd.n, Until(res, depth))
    BY <1>1, <1>2, <1>3, <2>1, <2>2 DEF ToCome, There
  <2> QED BY <1>1, <1>6, <2>3, <2>4, SameStack
<1> QED BY <1>7, <1>8, <1>9

\* The length that has been read is that of what is there.
LEMMA LengthIs ==
    ASSUME TypeOK, ReadInv, NEW res, OnTrack(res), LengthRead
    PROVE  /\ rd.iter + rd.n <= Until(res, depth) /\ ~(Reserves /\ rd.n > MaxReserve)
           /\ \E items \in There(Callee, rd.iter, rd.iter + rd.n),
                 rest \in There(top.coder, rd.iter + rd.n, Until(res, depth)) :
                Filled(top.coder, PushItem(top.coder, vals[depth],
                         Item(top.field, Filled(Callee, EmptyValue(Callee), items))), rest)
                  = res[depth]
<1>1. rd.for = "length" /\ rd.done BY DEF LengthRead
<1>2. PICK v \in ValueAt(buf, Contents(buf, limit), Callee, pos, Until(res, depth)) :
        \E rest \in There(top.coder, v.end, Until(res, depth)) :
          /\ v.end <= Until(res, depth)
          /\ Filled(top.coder, PushItem(top.coder, vals[depth], Item(top.field, v.val)), rest)
                 = res[depth]
  BY <1>1, ValueIs
<1>3. Callee.kind \notin {"varint", "fixed"} BY <1>1 DEF TypeOK, CalleeOK, LoopCoders
<1>4. PICK l \in LengthAt(buf, pos, Until(res, depth)) :
        /\ Callee.kind = "array" /\ Callee.reserves => l.val <= MaxReserve
        /\ v \in {Found(l.end + l.val, Filled(Callee, EmptyValue(Callee), items)) :
                   items \in Contents(buf, limit)[Window(Callee, l.end, l.end + l.val)]}
  BY <1>2, <1>3 DEF ValueAt
<1>5. l.end = rd.iter /\ l.val = rd.n /\ l.end + l.val <= Until(res, depth)
  <2>1. rd.for \in VarintReads /\ rd.for # "skip" /\ WordOf = LenWord /\ ShiftOf = LenWord
    BY <1>1 DEF VarintReads, WordOf, ShiftOf
  <2>2. /\ l \in VarintAt(buf, pos, Until(res, depth), WordOf, ShiftOf)
        /\ l.end + l.val <= Until(res, depth)
    BY <2>1 DEF LengthAt
  <2> QED BY <1>1, <2>1, <2>2, EndHere, WasRead
<1>6. PICK items \in There(Callee, rd.iter, rd.iter + rd.n) :
        v = Found(rd.iter + rd.n, Filled(Callee, EmptyValue(Callee), items))
  BY <1>4, <1>5 DEF There
<1>7. v.end = rd.iter + rd.n /\ v.val = Filled(Callee, EmptyValue(Callee), items)
  BY <1>6 DEF Found
<1>8. ~(Reserves /\ rd.n > MaxReserve)
  <2>1. rd.n \in Nat BY <1>1, IterType
  <2>2. MaxReserve \in Nat BY SchemaAssumption
  <2>3. rd.n <= MaxReserve => ~(rd.n > MaxReserve) BY <2>1, <2>2, SMT
  <2> QED BY <1>4, <1>5, <2>3 DEF Reserves
<1> QED BY <1>2, <1>5, <1>6, <1>7, <1>8

\* A loop begins over the bytes of the length, and its caller waits.
LEMMA EnterLoopTrack ==
    ASSUME TypeOK, Paid, ReadInv, NEW res, OnTrack(res), EnterLoop
    PROVE  \E more : more[0] = res[0] /\ more[1] = res[1] /\ OnTrack(more)'
<1>1. /\ LengthRead /\ rd.for = "length" /\ pos' = rd.iter /\ rd' = AtHead
      /\ stack' = Append(stack, Frame(Callee, rd.iter, rd.n))
      /\ vals' = Append(vals, EmptyValue(Callee)) /\ UNCHANGED <<buf, limit>>
  BY DEF EnterLoop, LengthRead
<1>2. Callee \in LoopCoders BY <1>1 DEF TypeOK, CalleeOK
<1>3. rd.iter \in Nat /\ rd.n \in Nat BY <1>1, IterType
\* The values of this state, which the next one must not change.
<1>4. PICK n : n = depth OBVIOUS
<1>5. PICK lo : lo = rd.iter OBVIOUS
<1>6. PICK hi : hi = rd.iter + rd.n OBVIOUS
<1>7. PICK c : c = Callee OBVIOUS
<1>8. PICK f : f = Frame(Callee, rd.iter, rd.n) OBVIOUS
<1>9. PICK end : end = Until(res, depth) OBVIOUS
<1>10. f \in Frames /\ f.coder = c /\ f.origin + f.len = hi
  BY <1>2, <1>3, <1>6, <1>7, <1>8 DEF Frame, Frames
<1>11. /\ stack \in Seq(Frames) /\ n \in Nat \ {0} /\ Len(vals) = n /\ IsSeq(vals)
       /\ n \in 1..n /\ 1 \in 1..n
  <2>1. stack \in Seq(Frames) /\ depth \in Nat \ {0} /\ Len(vals) = depth /\ IsSeq(vals)
    BY TopType DEF Paid
  <2>2. n \in 1..n /\ 1 \in 1..n BY <2>1, <1>4, SMT
  <2> QED BY <1>4, <2>1, <2>2
<1>12. /\ depth' = n + 1 /\ stack'[n + 1] = f /\ \A d \in 1..n : stack'[d] = stack[d]
  BY <1>1, <1>4, <1>8, <1>10, <1>11, PushFrame DEF depth
<1>13. vals'[n + 1] = EmptyValue(c) /\ \A d \in 1..n : vals'[d] = vals[d]
  BY <1>1, <1>7, <1>11, AppendSeq
<1>14. PICK items \in There(c, lo, hi) :
         \E rest \in There(top.coder, hi, end) :
           Filled(top.coder, PushItem(top.coder, vals[n], Item(top.field, Filled(c, EmptyValue(c), items))),
                  rest) = res[n]
  BY <1>1, <1>4, <1>5, <1>6, <1>7, <1>9, LengthIs
<1>15. PICK v : v = Filled(c, EmptyValue(c), items) OBVIOUS
<1>16. PICK more : more[n + 1] = v /\ more[0] = res[0] /\ \A d \in 1..n : more[d] = res[d]
  <2> DEFINE m == [d \in 0 .. n + 1 |-> IF d = n + 1 THEN v ELSE res[d]]
  <2>1. /\ n + 1 \in 0 .. n + 1 /\ 0 \in 0 .. n + 1 /\ 0 # n + 1
        /\ \A d \in 1..n : d \in 0 .. n + 1 /\ d # n + 1
    BY <1>11, SMT
  <2>2. m[n + 1] = v /\ m[0] = res[0] /\ \A d \in 1..n : m[d] = res[d] BY <2>1
  <2> HIDE DEF m
  <2> QED BY <2>2
<1>17. hi <= end /\ end <= limit /\ limit \in Nat /\ hi \in Nat /\ end \in Nat
  <2>1. hi <= end BY <1>1, <1>6, <1>9, LengthIs
  <2>2. end \in 0..limit BY <1>9, EndHere
  <2>3. limit \in Nat /\ hi \in Nat BY <1>3, <1>6, SpanType, SMT
  <2> QED BY <2>1, <2>2, <2>3, SMT
<1>18. \A d \in 1..n : Until(more, d)' = Until(res, d) BY <1>12, <1>16 DEF Until, EndOf
<1>19. \A d : d = n + 1 => Until(more, d)' = hi
  <2>1. n + 1 # 1 BY <1>11, SMT
  <2> QED BY <1>10, <1>12, <2>1 DEF Until, EndOf
<1>20. ASSUME NEW d \in 1..depth' PROVE Until(more, d)' <= limit'
  <2>1. CASE d = n + 1 BY <1>1, <1>17, <1>19, <2>1, SMT
  <2>2. CASE d # n + 1
    <3>1. d \in 1..n BY <1>11, <1>12, <2>2, SMT
    <3>2. Until(res, d) <= limit BY <1>4, <3>1 DEF OnTrack
    <3> QED BY <1>1, <1>18, <3>1, <3>2
  <2> QED BY <2>1, <2>2
<1>21. root' \in Roots /\ EndOf(1)' = limit' /\ (more[0] \in Ends)'
  BY <1>1, <1>11, <1>12, <1>16 DEF OnTrack, EndOf, Ends, root
<1>22. ASSUME NEW d \in 1 .. depth' - 1 PROVE Waits(more, d)'
  <2>0. d \in 1..n BY <1>11, <1>12, SMT
  <2>1. stack'[d] = stack[d] /\ vals'[d] = vals[d] /\ more[d] = res[d] /\ Until(more, d)' = Until(res, d)
    BY <1>12, <1>13, <1>16, <1>18, <2>0
  <2>2. CASE d = n
    <3>1. Until(more, d + 1)' = hi /\ more[d + 1] = v BY <1>16, <1>19, <2>2
    <3>2. stack[d] = top /\ Until(res, d) = end BY <1>4, <1>9, <2>2 DEF top
    <3>3. PICK rest \in There(top.coder, hi, end) :
            Filled(top.coder, PushItem(top.coder, vals[d], Item(top.field, v)), rest) = res[d]
      BY <1>14, <1>15, <2>2
    <3>4. There(stack[d].coder, Until(more, d + 1), Until(more, d))' = There(top.coder, hi, end)
      BY <1>1, <2>1, <3>1, <3>2 DEF There
    <3> QED BY <2>1, <3>1, <3>2, <3>3, <3>4 DEF Waits
  <2>3. CASE d # n
    <3>1. d \in 1 .. n - 1 /\ d + 1 \in 1..n BY <1>11, <2>0, <2>3, SMT
    <3>2. Waits(res, d) BY <1>4, <3>1 DEF OnTrack
    <3>3. Until(more, d + 1)' = Until(res, d + 1) /\ more[d + 1] = res[d + 1] BY <1>16, <1>18, <3>1
    <3> QED BY <1>1, <2>1, <3>2, <3>3 DEF Waits, There
  <2> QED BY <2>2, <2>3
<1>23. \E it \in ToCome(more)' : Filled(top'.coder, vals'[depth'], it) = more[depth']
  <2>1. top' = f BY <1>12 DEF top
  <2>2. Until(more, depth)' = hi BY <1>12, <1>19
  <2>3. There(top.coder, pos, Until(more, depth))' = There(c, lo, hi)
    BY <1>1, <1>5, <1>10, <2>1, <2>2 DEF There
  <2>4. ToCome(more)' = There(c, lo, hi) BY <1>1, <2>3 DEF ToCome, AtHead
  <2>5. vals'[depth'] = EmptyValue(c) /\ more[depth'] = v BY <1>12, <1>13, <1>16
  <2> QED BY <1>10, <1>14, <1>15, <2>1, <2>4, <2>5
<1>24. OnTrack(more)' BY <1>20, <1>21, <1>22, <1>23 DEF OnTrack
<1>25. more[0] = res[0] /\ more[1] = res[1] BY <1>11, <1>16
<1> QED BY <1>24, <1>25

\* A loop that ends has made its value, and its caller takes it.
LEMMA EndLoopTrack ==
    ASSUME TypeOK, Paid, NEW res, OnTrack(res), EndLoop
    PROVE  /\ depth = 1 => pos = res[0] /\ vals[1] = res[1]
           /\ depth # 1 => OnTrack(res)'
<1>1. rd.for = "head" /\ ~MoreToRead /\ Finish /\ UNCHANGED <<buf, limit, pos>>
  BY DEF EndLoop, AtLoopHead
<1>2. Until(res, depth) \in 0..limit /\ depth \in 1..depth BY EndHere
<1>3. PICK items \in There(top.coder, pos, Until(res, depth)) :
        Filled(top.coder, vals[depth], items) = res[depth]
  BY <1>1 DEF OnTrack, ToCome
<1>4. pos = Until(res, depth) /\ items = <<>>
  <2>1. Until(res, depth) \in Nat /\ pos \in Nat /\ top.coder \in LoopCoders BY <1>2, SpanType, SMT
  <2>2. Until(res, depth) <= pos
    <3>1. ~(pos < EndOf(depth)) BY <1>1, MoreIs
    <3>2. EndOf(depth) = Until(res, depth) \/ EndOf(depth) = limit BY DEF Until, OnTrack
    <3>3. limit \in Nat /\ Until(res, depth) <= limit BY <1>2, SpanType DEF OnTrack
    <3> QED BY <2>1, <3>1, <3>2, <3>3, SMT
  <2> QED BY <1>2, <1>3, <2>1, <2>2, ThereAtEnd
<1>5. vals[depth] = res[depth] BY <1>3, <1>4, FilledEmpty
<1>6. ASSUME depth = 1 PROVE pos = res[0] /\ vals[1] = res[1]
  BY <1>4, <1>5, <1>6 DEF Until
<1>7. ASSUME depth # 1 PROVE OnTrack(res)'
  <2> DEFINE n == depth - 1
             v == vals[depth]
             x == PushItem(stack[n].coder, vals[n], Item(stack[n].field, v))
             y == Set(vals, n, x)
  <2>1. /\ depth \in Nat \ {0} /\ n \in Nat \ {0} /\ n + 1 = depth /\ n \in 1 .. Len(vals)
        /\ n \in 0 .. Len(vals) /\ n \in 1..n /\ IsSeq(vals)
    BY <1>7, SpanType, SMT DEF Paid
  <2>2. stack' = SubSeq(stack, 1, n) /\ vals' = SubSeq(y, 1, n) /\ rd' = AtHead
    BY <1>1, <1>7 DEF Finish, Deliver, Set, PushItem, Item
  <2>3. depth' = n /\ \A d \in 1..n : stack'[d] = stack[d]
    <3>1. stack \in Seq(Frames) /\ Len(stack) > 1 /\ n = Len(stack) - 1
      BY <2>1, TopType, SMT DEF depth
    <3> HIDE DEF n
    <3> QED BY <2>2, <3>1, PopFrame DEF depth
  <2> HIDE DEF n, x
  <2>4. IsSeq(y) /\ Len(y) = Len(vals) /\ y[n] = x /\ \A k \in 1 .. Len(vals) :
         k # n => y[k] = vals[k]
    BY <2>1, SetSeq
  <2> HIDE DEF y
  <2>5. \A d \in 1..n : vals'[d] = y[d] BY <2>1, <2>2, <2>4, CutSeq
  <2>6. \A d \in 1..n : Until(res, d)' = Until(res, d) BY <2>3 DEF Until, EndOf
  <2>7. \A d \in 1..n : d \in 1..depth BY <2>1, SMT
  <2>8. \A d \in 1 .. depth' : Until(res, d)' <= limit' BY <1>1, <2>3, <2>6, <2>7 DEF OnTrack
  <2>9. root' \in Roots /\ EndOf(1)' = limit' /\ (res[0] \in Ends)'
    <3>1. 1 \in 1..n BY <2>1, SMT
    <3> QED BY <1>1, <2>3, <3>1 DEF OnTrack, EndOf, Ends, root
  <2>10. ASSUME NEW d \in 1 .. depth' - 1 PROVE Waits(res, d)'
    <3>1. d \in 1..n /\ d + 1 \in 1..n /\ d # n /\ d \in 1 .. depth - 1 /\ d \in 1 .. Len(vals)
      BY <2>1, <2>3, SMT
    <3>2. Waits(res, d) BY <3>1 DEF OnTrack
    <3>3. /\ stack'[d] = stack[d] /\ vals'[d] = vals[d]
          /\ Until(res, d)' = Until(res, d) /\ Until(res, d + 1)' = Until(res, d + 1)
      BY <2>3, <2>4, <2>5, <2>6, <3>1
    <3> QED BY <1>1, <3>2, <3>3 DEF Waits, There
  <2>11. Waits(res, n)
    <3>1. n \in 1 .. depth - 1 BY <2>1 DEF n
    <3> QED BY <3>1 DEF OnTrack
  <2>12. PICK rest \in There(stack[n].coder, pos, Until(res, n)) :
         Filled(stack[n].coder, x, rest) = res[n]
    BY <1>4, <1>5, <2>1, <2>11 DEF Waits, x
  <2>13. top' = stack[n] /\ vals'[depth'] = x BY <2>1, <2>3, <2>4, <2>5 DEF top
  <2>14. ToCome(res)' = There(stack[n].coder, pos, Until(res, n))
    <3>1. Until(res, depth)' = Until(res, n) BY <2>1, <2>3, <2>6
    <3> QED BY <1>1, <2>2, <2>13, <3>1 DEF ToCome, There, AtHead
  <2>15. \E it \in ToCome(res)' : Filled(top'.coder, vals'[depth'], it) = res[depth']
    BY <2>3, <2>12, <2>13, <2>14
  <2> QED BY <2>8, <2>9, <2>10, <2>15 DEF OnTrack
<1> QED BY <1>6, <1>7

\* A varint that is being read ends before the innermost loop does, or is the
\* key behind the message.
LEMMA SomeVarint ==
    ASSUME TypeOK, ReadInv, NEW res, OnTrack(res), rd.for \in VarintReads
    PROVE  \E hi \in 0..limit : \E k : k \in LastOfVarint(buf, pos, hi)
<1>1. Until(res, depth) \in 0..limit BY EndHere
<1>6. CASE rd.for = "key" /\ ~(pos < Until(res, depth))
  <2>1. \E v : v \in VarintAt(buf, pos, limit, KeyWord, KeyWord) BY <1>6, KeyBehind DEF ReadInv
  <2>2. limit \in 0..limit BY SpanType, SMT
  <2> QED BY <2>1, <2>2 DEF VarintAt
<1>2. CASE rd.for = "key" /\ pos < Until(res, depth)
  <2>1. top.coder.kind = "message" BY <1>2 DEF TypeOK, CalleeOK
  <2>2. pos < Until(res, depth) BY <1>2
  <2>3. PICK items : items \in There(top.coder, pos, Until(res, depth)) BY <1>2 DEF OnTrack, ToCome
  <2>4. \E v : v \in VarintAt(buf, pos, Until(res, depth), KeyWord, KeyWord)
    BY <1>1, <2>1, <2>2, <2>3, SpanType, ThereField
  <2> QED BY <1>1, <2>4 DEF VarintAt
<1>3. CASE rd.for \in {"value", "length"}
  <2>1. \E v : v \in ValueAt(buf, Contents(buf, limit), Callee, pos, Until(res, depth))
        BY <1>3, ValueIs
  <2>2. CASE rd.for = "value"
    <3>1. Callee.kind = "varint" BY <2>2 DEF TypeOK, CalleeOK
    <3>2. \E v : v \in VarintAt(buf, pos, Until(res, depth), Callee.word, Callee.shift)
      BY <2>1, <3>1 DEF ValueAt
    <3> QED BY <1>1, <3>2 DEF VarintAt
  <2>3. CASE rd.for = "length"
    <3>1. Callee.kind \notin {"varint", "fixed"} BY <2>3 DEF TypeOK, CalleeOK, LoopCoders
    <3>2. \E l : l \in LengthAt(buf, pos, Until(res, depth)) BY <2>1, <3>1 DEF ValueAt
    <3> QED BY <1>1, <3>2 DEF LengthAt, VarintAt
  <2> QED BY <1>3, <2>2, <2>3
<1>4. CASE rd.for = "skip"
  <2>1. \E e : e \in SkipEnds(buf, 0, pos, Until(res, depth)) BY <1>4 DEF OnTrack, ToCome
  <2> QED BY <1>1, <2>1 DEF SkipEnds
<1>5. CASE rd.for = "skipLength"
  <2>1. \E e : e \in SkipEnds(buf, 2, pos, Until(res, depth)) BY <1>5 DEF OnTrack, ToCome
  <2>2. \E l : l \in LengthAt(buf, pos, Until(res, depth)) BY <2>1 DEF SkipEnds
  <2> QED BY <1>1, <2>2 DEF LengthAt, VarintAt
<1> QED BY <1>2, <1>3, <1>4, <1>5, <1>6 DEF VarintReads

\* A span that is taken ends before the innermost loop does.
LEMMA SomeSpan ==
    ASSUME TypeOK, ReadInv, NEW res, OnTrack(res), InSpan
    PROVE  Available /\ CheckBytesSpan
<1>1. rd.for \in {"fixed", "skipSpan"} /\ rd.for # "head" BY DEF InSpan, SpanReads
<1>2. rd.iter + rd.n <= Until(res, depth)
  <2>1. CASE rd.for = "fixed" BY <2>1, FixedIs
  <2>2. CASE rd.for = "skipSpan"
    <3>1. pos + rd.n <= Until(res, depth) BY <2>2 DEF OnTrack, ToCome
    <3>2. rd.iter = pos BY <2>2 DEF ReadInv, SpanReads
    <3> QED BY <3>1, <3>2
  <2> QED BY <1>1, <2>1, <2>2
<1>3. rd.iter \in Nat /\ rd.n \in Nat /\ limit \in Nat BY <1>1, IterType
<1>4. Until(res, depth) \in 0..limit BY EndHere
<1>5. rd.n <= limit - rd.iter /\ limit - rd.iter >= rd.n BY <1>2, <1>3, <1>4, SMT
<1> QED BY <1>5 DEF Available, CheckBytesSpan

\* A key of field number 0 is the one behind the message.
LEMMA KeyStopTrack ==
    ASSUME TypeOK, ReadInv, NEW res, OnTrack(res), KeyStop
    PROVE  depth = 1 /\ pos = res[0] /\ vals[1] = res[1]
<1>1. KeyRead /\ NumberOf(rd.n) = 0 BY DEF KeyStop
<1> QED BY <1>1, KeyIs, KeyBehindRead

\* On its way to a well-formed message, the decoder does not fail.
LEMMA NeverFails ==
    ASSUME TypeOK, ReadInv, NEW res, OnTrack(res)
    PROVE  ~(KeyThrows \/ ReserveThrows \/ Fail \/ Overrun)
<1>2. ~KeyThrows
  <2>1. SUFFICES ASSUME KeyThrows PROVE FALSE OBVIOUS
  <2>2. KeyRead /\ NumberOf(rd.n) # 0 /\ Known = {} /\ WireOf(rd.n) \notin {0, 1, 2, 5}
    BY <2>1 DEF KeyThrows
  <2>3. \E e : e \in SkipEnds(buf, WireOf(rd.n), rd.iter, Until(res, depth)) BY <2>2, UnknownIs
  <2>4. SkipEnds(buf, WireOf(rd.n), rd.iter, Until(res, depth)) = {} BY <2>2 DEF SkipEnds
  <2> QED BY <2>3, <2>4
<1>3. ~ReserveThrows BY LengthIs DEF ReserveThrows
<1>4. ~(Fail \/ Overrun)
  <2>1. ASSUME InVarint PROVE CheckIterator /\ ~(rd.iter >= limit)
    <3>1. rd.for \in VarintReads /\ rd.for # "head" BY <2>1 DEF InVarint, VarintReads
    <3>2. rd.iter < limit BY <2>1, <3>1, SomeVarint, GoesOn
    <3>3. rd.iter \in Nat /\ limit \in Nat BY <3>1, IterType
    <3>4. rd.iter # limit /\ ~(rd.iter >= limit) BY <3>2, <3>3, SMT
    <3> QED BY <3>4 DEF CheckIterator
  <2> QED BY <2>1, SomeSpan DEF Fail, Overrun
<1> QED BY <1>2, <1>3, <1>4

-----------------------------------------------------------------------------
(* The theorem.                                                            *)

\* A call keeps the coder it was given.
LEMMA RootStays == ASSUME TypeOK, Next PROVE root' = root
<1>1. stack \in Seq(Frames) /\ depth \in Nat /\ depth > 0 /\ Len(stack) = depth
  BY TopType, SMT DEF depth
<1>2. CASE Finish
  <2>1. CASE depth = 1 BY <1>2, <2>1 DEF Finish, root
  <2>2. CASE depth # 1
    <3>1. stack' = SubSeq(stack, 1, Len(stack) - 1) BY <1>2, <2>2 DEF Finish, depth
    <3>2. Len(stack) > 1 /\ 1 \in 1 .. Len(stack) - 1 BY <1>1, <2>2, SMT
    <3>3. stack'[1] = stack[1]
      <4> DEFINE t == SubSeq(stack, 1, Len(stack) - 1)
      <4>1. Len(t) = Len(stack) - 1 /\ \A d \in 1 .. Len(t) : t[d] = stack[d]
        <5> HIDE BaseAssumption, SchemaAssumption, DecoderAssumption
        <5> QED BY <1>1, <3>2, PopFrame
      <4> HIDE DEF t
      <4> QED BY <3>1, <3>2, <4>1 DEF t
    <3> QED BY <3>3 DEF root
  <2> QED BY <2>1, <2>2
<1>3. CASE KeyKnown
  <2>1. PICK f \in Known : stack' = [stack EXCEPT ![depth].field = f] BY <1>3 DEF KeyKnown
  <2>2. top.coder.kind = "message" BY <1>3 DEF KeyKnown, KeyRead, TypeOK, CalleeOK
  <2>3. f \in Fields BY <2>1, <2>2, TopType DEF Known
  <2> DEFINE t == [stack EXCEPT ![Len(stack)].field = f]
  <2>4. /\ Len(t) = Len(stack) /\ \A d \in 1 .. Len(stack) - 1 : t[d] = stack[d]
        /\ t[Len(stack)].coder = stack[Len(stack)].coder
    <3> HIDE BaseAssumption, SchemaAssumption, DecoderAssumption
    <3> QED BY <1>1, <2>3, SetField
  <2>5. stack' = t BY <2>1 DEF depth
  <2> HIDE DEF t
  <2>6. 1 = Len(stack) \/ 1 \in 1 .. Len(stack) - 1 BY <1>1, SMT
  <2> QED BY <2>4, <2>5, <2>6 DEF root
<1>4. CASE EnterLoop
  <2> DEFINE f == Frame(Callee, rd.iter, rd.n)
  <2>1. rd.for = "length" BY <1>4 DEF EnterLoop, LengthRead
  <2>2. Callee \in LoopCoders BY <2>1 DEF TypeOK, CalleeOK
  <2>3. f \in Frames BY <2>1, <2>2, IterType DEF Frame, Frames
  <2>4. stack' = Append(stack, f) BY <1>4 DEF EnterLoop
  <2> HIDE DEF f
  <2>5. 1 \in 1 .. Len(stack) BY <1>1, SMT
  <2>6. \A d \in 1 .. Len(stack) : Append(stack, f)[d] = stack[d]
    <3> HIDE BaseAssumption, SchemaAssumption, DecoderAssumption
    <3> QED BY <1>1, <2>3, PushFrame
  <2> QED BY <2>4, <2>5, <2>6 DEF root
<1> QED
  BY <1>2, <1>3, <1>4 DEF Next, NextKey, NextElement, EndLoop, ReadGroup, KeyStop, KeyUnknown,
       KeyThrows, ValueRead, ReserveThrows, SkipVarint, SkipLength, TakeFixed, SkipSpan, Fail,
       Overrun, root

\* While the decoder runs, it is on its way to whatever well-formed message
\* there is, up to wherever it ends; once it has returned, it has decoded
\* that message.  Its coder is one of those that it may be given.
WellFormedInv ==
    /\ root \in Roots
    /\ status = "run" => \A e \in Ends : \A msg \in Messages(e) :
                            \E res : res[0] = e /\ res[1] = msg /\ OnTrack(res)
    /\ DecodesWellFormed

\* Each step keeps a run on its way, or ends it where it should.
LEMMA StepTrack ==
    ASSUME TypeOK, Paid, ReadInv, NEW res, OnTrack(res), Next
    PROVE  \/ /\ status' = "run"
              /\ \E more : more[0] = res[0] /\ more[1] = res[1] /\ OnTrack(more)'
           \/ status' = "ok" /\ pos' = res[0] /\ Result' = res[1]
<1>1. ASSUME status' = "run", OnTrack(res)'
      PROVE  status' = "run" /\ \E more : more[0] = res[0] /\ more[1] = res[1] /\ OnTrack(more)'
  BY <1>1
<1>2. CASE NextKey BY <1>1, <1>2, NextKeyTrack DEF NextKey, AtLoopHead
<1>3. CASE NextElement BY <1>1, <1>3, NextElementTrack DEF NextElement, AtLoopHead
<1>4. CASE EndLoop
  <2>1. CASE depth = 1
    <3>1. status' = "ok" /\ UNCHANGED <<pos, vals>> BY <1>4, <2>1 DEF EndLoop, Finish
    <3>2. pos = res[0] /\ vals[1] = res[1] BY <1>4, <2>1, EndLoopTrack
    <3> QED BY <3>1, <3>2 DEF Result
  <2>2. CASE depth # 1
    <3>1. status' = "run" BY <1>4, <2>2 DEF EndLoop, AtLoopHead, Finish
    <3> QED BY <1>1, <1>4, <2>2, <3>1, EndLoopTrack
  <2> QED BY <2>1, <2>2
<1>5. CASE ReadGroup BY <1>1, <1>5, ReadGroupTrack DEF ReadGroup, InVarint
<1>6. CASE KeyKnown BY <1>1, <1>6, KeyKnownTrack DEF KeyKnown, KeyRead
<1>7. CASE KeyUnknown BY <1>1, <1>7, KeyUnknownTrack DEF KeyUnknown, KeyRead
<1>8. CASE ValueRead BY <1>1, <1>8, ValueReadTrack DEF ValueRead
<1>9. CASE EnterLoop
  <2>1. status' = "run" BY <1>9 DEF EnterLoop, LengthRead
  <2> QED BY <1>9, <2>1, EnterLoopTrack
<1>10. CASE SkipVarint \/ SkipLength \/ SkipSpan
  <2>1. status' = "run" BY <1>10 DEF SkipVarint, SkipLength, SkipSpan, InSpan
  <2> QED BY <1>1, <1>10, <2>1, SkipTrack
<1>11. CASE TakeFixed BY <1>1, <1>11, TakeFixedTrack DEF TakeFixed, InSpan
<1>12. CASE KeyThrows \/ ReserveThrows \/ Fail \/ Overrun BY <1>12, NeverFails
<1>13. CASE KeyStop
  <2>1. depth = 1 /\ pos = res[0] /\ vals[1] = res[1] BY <1>13, KeyStopTrack
  <2>2. status' = "ok" /\ UNCHANGED <<pos, vals>> BY <1>13, <2>1 DEF KeyStop, Finish
  <2> QED BY <2>1, <2>2 DEF Result
<1> QED
  BY <1>2, <1>3, <1>4, <1>5, <1>6, <1>7, <1>8, <1>9, <1>10, <1>11, <1>12, <1>13 DEF Next

\* At the start it is about to read the whole message,
LEMMA WellFormedInit == Init => WellFormedInv
<1> SUFFICES ASSUME Init PROVE WellFormedInv OBVIOUS
<1>0. PICK c \in Roots : stack = <<Frame(c, 0, limit)>> /\ vals = <<EmptyMessage(c)>> BY DEF Init
<1>1. /\ pos = 0 /\ stack = <<Frame(c, 0, limit)>> /\ vals = <<EmptyMessage(c)>>
      /\ rd.for = "head" /\ status = "run" /\ limit \in Nat
  BY <1>0, DecoderAssumption, SMT DEF Init, AtHead
<1>2. /\ depth = 1 /\ top = Frame(c, 0, limit) /\ vals[1] = EmptyMessage(c)
      /\ top.coder = c /\ root = c /\ stack[1].origin = 0 /\ stack[1].len = limit
  BY <1>1 DEF depth, top, root, Frame
<1>3. EndOf(1) = limit BY <1>1, <1>2, SMT DEF EndOf
<1>5. ASSUME NEW e \in Ends, NEW msg \in Messages(e)
      PROVE  \E res : res[0] = e /\ res[1] = msg /\ OnTrack(res)
  <2> DEFINE res == [d \in {0, 1} |-> IF d = 0 THEN e ELSE msg]
  <2>1. PICK items \in There(c, 0, e) : Filled(c, EmptyMessage(c), items) = msg
    BY <1>2 DEF Messages, There
  <2>2. res[0] = e /\ res[1] = msg OBVIOUS
  <2> HIDE DEF res
  <2>7. Until(res, 1) = e BY <2>2 DEF Until
  <2>8. ToCome(res) = There(c, 0, e) BY <1>1, <1>2, <2>7 DEF ToCome
  <2>3. \E it \in ToCome(res) : Filled(top.coder, vals[depth], it) = res[depth]
    BY <1>2, <2>1, <2>2, <2>8
  <2>4. \A d \in 1 .. depth - 1 : Waits(res, d)
    <3>1. 1 .. depth - 1 = {} BY <1>2, SMT
    <3> QED BY <3>1
  <2>5. \A d \in 1..depth : Until(res, d) <= limit
    <3>1. \A d \in 1..depth : d = 1 BY <1>2, SMT
    <3>2. e <= limit
      <4>1. e \in 0..limit BY DEF Ends
      <4> QED BY <1>1, <4>1, SMT
    <3> QED BY <2>7, <3>1, <3>2
  <2>6. OnTrack(res) BY <1>2, <1>3, <2>2, <2>3, <2>4, <2>5 DEF OnTrack, top
  <2> QED BY <2>2, <2>6
<1>6. root \in Roots BY <1>2
<1> QED BY <1>1, <1>5, <1>6 DEF WellFormedInv, DecodesWellFormed

\* and every step leads towards its end.
LEMMA WellFormedNext ==
    TypeOK /\ Paid /\ ReadInv /\ WellFormedInv /\ [Next]_vars => WellFormedInv'
<1> SUFFICES ASSUME TypeOK, Paid, ReadInv, WellFormedInv, [Next]_vars PROVE WellFormedInv'
  OBVIOUS
<1>1. CASE Next
  <2>1. UNCHANGED <<buf, limit>> /\ status = "run"
    BY <1>1 DEF Next, NextKey, NextElement, EndLoop, ReadGroup, KeyStop, KeyKnown, KeyUnknown,
                KeyThrows, ValueRead, EnterLoop, ReserveThrows, SkipVarint, SkipLength,
                TakeFixed, SkipSpan, Fail, Overrun, AtLoopHead, InVarint, KeyRead, LengthRead,
                InSpan
  <2>6. root' = root BY <1>1, RootStays
  <2>2. Ends' = Ends /\ \A e : Messages(e)' = Messages(e) BY <2>1, <2>6 DEF Messages, Ends
  <2>3. ASSUME NEW e \in Ends, NEW msg \in Messages(e)
        PROVE  \/ status' = "run" /\ \E res : res[0] = e /\ res[1] = msg /\ OnTrack(res)'
               \/ status' = "ok" /\ pos' = e /\ Result' = msg
    <3>1. PICK res : res[0] = e /\ res[1] = msg /\ OnTrack(res) BY <2>1 DEF WellFormedInv
    <3> QED BY <1>1, <3>1, StepTrack
  <2>4. status' = "run" => \A e \in Ends' : \A msg \in Messages(e)' :
                              \E res : res[0] = e /\ res[1] = msg /\ OnTrack(res)'
    BY <2>2, <2>3
  <2>5. status' # "run" => \A e \in Ends' : \A msg \in Messages(e)' :
                              status' = "ok" /\ pos' = e /\ Result' = msg
    BY <2>2, <2>3
  <2> QED BY <2>4, <2>5, <2>6 DEF WellFormedInv, DecodesWellFormed
<1>2. CASE UNCHANGED vars
  <2>1. UNCHANGED <<buf, mode, limit, pos, stack, vals, rd, status>> BY <1>2 DEF vars
  <2>2. Ends' = Ends /\ Result' = Result /\ root' = root /\ \A e : Messages(e)' = Messages(e)
    BY <2>1 DEF Messages, Ends, Result, root
  <2>3. \A res : OnTrack(res)' <=> OnTrack(res)
    BY <2>1 DEF OnTrack, Until, EndOf, Ends, Waits, There, ToCome, FieldHere, Callee, top, root, depth
  <2> QED BY <2>1, <2>2, <2>3 DEF WellFormedInv, DecodesWellFormed
<1> QED BY <1>1, <1>2

\* What is true of the decoder in every state.
DecoderInv == TypeOK /\ Paid /\ ReadInv /\ WellFormedInv

\* It holds at the start,
LEMMA DecoderStarts == Init => DecoderInv
BY TypeInit, PaidInit, ReadInit, WellFormedInit DEF DecoderInv

\* and every step keeps it.
LEMMA DecoderGoesOn == DecoderInv /\ [Next]_vars => DecoderInv'
BY TypeNext, PaidNext, ReadNext, WellFormedNext DEF DecoderInv

\* Every message that is well-formed by the grammar is decoded in both modes,
\* to its value and up to its end, whatever the schema and however it nests
\* (message.h:413-430, 480-506).
THEOREM WellFormedIsDecoded == Spec => []DecodesWellFormed
<1>1. DecoderInv => DecodesWellFormed BY DEF DecoderInv, WellFormedInv
<1> QED BY <1>1, DecoderStarts, DecoderGoesOn, PTL DEF Spec
=============================================================================
