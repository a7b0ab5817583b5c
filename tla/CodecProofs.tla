----------------------------- MODULE CodecProofs -----------------------------
(***************************************************************************)
(* Proofs about Encoder, for every schema and every set of values, and     *)
(* about Codec and SkipWalk, that read what the encoder wrote. The         *)
(* bounds of memory are proved without the equations of ContentSkip: any   *)
(* number would do as a prediction, a wrong one fails the call. That the   *)
(* predicted size is the written one is proved from them, and last, from   *)
(* both, that the bytes written are well-formed and say the message. Then  *)
(* in SkipWalk a program that skips over it finds where its fields begin;  *)
(* and the decoder, by what DecoderProofs proves of it, finds that         *)
(* message.                                                                *)
(***************************************************************************)
EXTENDS Codec, SkipWalk, WireGrammarProofs

USE BaseAssumption

-----------------------------------------------------------------------------
(* Sums.                                                                   *)

SumStep(s, f, k) == IF k = 0 THEN 0 ELSE f[k - 1] + s[k]

Sums == INSTANCE Recursion WITH Step <- SumStep

UpTo(s) == CHOOSE f : Sums!Solves(s, Nat, f)

\* The sum of the first k numbers, one by one.
LEMMA UpToStep ==
    ASSUME NEW s
    PROVE  /\ Total(s) = UpTo(s)[Len(s)]
           /\ UpTo(s)[0] = 0
           /\ \A k \in Nat : UpTo(s)[k + 1] = UpTo(s)[k] + s[k + 1]
<1> DEFINE id == [k \in Nat |-> k]
<1>1. Total(s) = UpTo(s)[Len(s)] BY DEF Total, UpTo, Sums!Solves, SumStep
<1>2. Sums!Descends(s, Nat, id)
  <2>1. \A k \in Nat \ {0} : k - 1 \in Nat /\ id[k - 1] < id[k] BY Descending
  <2> HIDE DEF id
  <2> QED BY <2>1 DEF Sums!Descends, SumStep
<1>3. \E f : Sums!Solves(s, Nat, f)
  <2>1. id \in [Nat -> Nat] BY Descending
  <2> HIDE DEF id
  <2> QED BY <1>2, <2>1, Sums!RecursiveFunction
<1>4. Sums!Solves(s, Nat, UpTo(s)) BY <1>3 DEF UpTo
<1>5. \A m \in Nat : UpTo(s)[m] = IF m = 0 THEN 0 ELSE UpTo(s)[m - 1] + s[m]
  BY <1>4 DEF Sums!Solves, SumStep
<1>6. \A k \in Nat : k + 1 \in Nat /\ k + 1 # 0 /\ (k + 1) - 1 = k BY SMT
<1> QED BY <1>1, <1>5, <1>6

\* A sum of numbers is a number.
LEMMA TotalNat ==
    ASSUME NEW s \in Seq(Nat)
    PROVE  Total(s) \in Nat /\ \A k \in 0 .. Len(s) : UpTo(s)[k] \in Nat
<1> DEFINE P == {k \in Nat : k <= Len(s) => UpTo(s)[k] \in Nat}
<1>0. Len(s) \in Nat BY SMT
<1>1. 0 \in P
  <2>1. UpTo(s)[0] = 0 BY UpToStep
  <2> QED BY <2>1
<1>2. ASSUME NEW k \in Nat, k \in P PROVE k + 1 \in P
  <2>1. SUFFICES ASSUME k + 1 <= Len(s) PROVE UpTo(s)[k + 1] \in Nat BY SMT
  <2>2. UpTo(s)[k] \in Nat /\ s[k + 1] \in Nat BY <1>0, <1>2, <2>1, SMT
  <2>3. UpTo(s)[k + 1] = UpTo(s)[k] + s[k + 1] BY UpToStep
  <2> QED BY <2>2, <2>3, SMT
<1>3. \A k \in Nat : k \in P
  <2> HIDE DEF P
  <2> QED BY <1>1, <1>2, Powers!Induct
<1>4. \A k \in 0 .. Len(s) : UpTo(s)[k] \in Nat BY <1>0, <1>3, SMT
<1>5. Len(s) \in 0 .. Len(s) BY <1>0, SMT
<1>6. Total(s) = UpTo(s)[Len(s)] BY UpToStep
<1> QED BY <1>4, <1>5, <1>6

\* The sum of no numbers.
LEMMA TotalEmpty == Total(<<>>) = 0
<1>1. Total(<<>>) = UpTo(<<>>)[Len(<<>>)] /\ UpTo(<<>>)[0] = 0 BY UpToStep
<1>2. Len(<<>>) = 0 BY SMT
<1> QED BY <1>1, <1>2

\* Two sequences that agree on k numbers have the same sum of them.
LEMMA UpToAgree ==
    ASSUME NEW s, NEW t, NEW n \in Nat, \A k \in 1..n : s[k] = t[k]
    PROVE  UpTo(s)[n] = UpTo(t)[n]
<1> DEFINE P == {k \in Nat : k <= n => UpTo(s)[k] = UpTo(t)[k]}
<1>1. 0 \in P BY UpToStep
<1>2. ASSUME NEW k \in Nat, k \in P PROVE k + 1 \in P
  <2>1. SUFFICES ASSUME k + 1 <= n PROVE UpTo(s)[k + 1] = UpTo(t)[k + 1] BY SMT
  <2>2. UpTo(s)[k] = UpTo(t)[k] /\ s[k + 1] = t[k + 1] BY <1>2, <2>1, SMT
  <2> QED BY <2>2, UpToStep
<1>3. \A k \in Nat : k \in P
  <2> HIDE DEF P
  <2> QED BY <1>1, <1>2, Powers!Induct
<1>4. n <= n BY SMT
<1> QED BY <1>3, <1>4

\* The sums in a sequence that is put together.
LEMMA UpToConcat ==
    ASSUME NEW s \in Seq(Nat), NEW t \in Seq(Nat)
    PROVE  /\ \A k \in 0 .. Len(s) : UpTo(s \o t)[k] = UpTo(s)[k]
           /\ \A k \in 0 .. Len(t) : UpTo(s \o t)[Len(s) + k] = Total(s) + UpTo(t)[k]
<1> DEFINE u == s \o t
           P == {k \in Nat : k <= Len(t) => UpTo(u)[Len(s) + k] = Total(s) + UpTo(t)[k]}
<1>0. Len(s) \in Nat /\ Len(t) \in Nat /\ Len(u) = Len(s) + Len(t) BY SMT
<1>1. 0 \in P
  <2>1. \A k \in 1 .. Len(s) : u[k] = s[k] BY <1>0, SMT
  <2>2. UpTo(u)[Len(s)] = UpTo(s)[Len(s)]
    <3> HIDE DEF u
    <3> QED BY <1>0, <2>1, UpToAgree
  <2>3. Total(s) \in Nat BY TotalNat
  <2>4. Total(s) = UpTo(s)[Len(s)] /\ UpTo(t)[0] = 0 BY UpToStep
  <2> HIDE DEF u
  <2>5. Len(s) + 0 = Len(s) /\ Total(s) + 0 = Total(s) BY <1>0, <2>3, SMT
  <2> QED BY <2>2, <2>4, <2>5
<1>2. ASSUME NEW k \in Nat, k \in P PROVE k + 1 \in P
  <2>1. SUFFICES ASSUME k + 1 <= Len(t)
                 PROVE  UpTo(u)[Len(s) + (k + 1)] = Total(s) + UpTo(t)[k + 1]
    BY SMT
  <2>2. u[(Len(s) + k) + 1] = t[k + 1] BY <1>0, <2>1, SMT
  <2>3. UpTo(u)[Len(s) + k] = Total(s) + UpTo(t)[k] BY <1>0, <1>2, <2>1, SMT
  <2>4. Len(s) + k \in Nat BY <1>0, SMT
  <2>5. UpTo(u)[(Len(s) + k) + 1] = UpTo(u)[Len(s) + k] + u[(Len(s) + k) + 1]
    BY <2>4, UpToStep
  <2>6. UpTo(t)[k + 1] = UpTo(t)[k] + t[k + 1] BY UpToStep
  <2>7. /\ Total(s) \in Nat
        /\ UpTo(t)[k] \in Nat /\ t[k + 1] \in Nat
    BY <1>0, <2>1, TotalNat, SMT
  <2> DEFINE a == UpTo(t)[k]
             b == t[k + 1]
             c == Total(s)
             n == Len(s)
  <2>8. UpTo(u)[(n + k) + 1] = (c + a) + b BY <2>2, <2>3, <2>5
  <2>9. UpTo(t)[k + 1] = a + b BY <2>6
  <2>10. n \in Nat /\ a \in Nat /\ b \in Nat /\ c \in Nat BY <1>0, <2>7
  <2>11. UpTo(u)[n + (k + 1)] = c + UpTo(t)[k + 1]
    <3> HIDE DEF a, b, c, n, u
    <3>1. (n + k) + 1 = n + (k + 1) /\ (c + a) + b = c + (a + b) BY <2>10, SMT
    <3> QED BY <2>8, <2>9, <3>1
  <2> QED BY <2>11
<1>3. \A k \in Nat : k \in P
  <2> HIDE DEF P
  <2> QED BY <1>1, <1>2, Powers!Induct
<1>4. ASSUME NEW k \in 0 .. Len(t) PROVE UpTo(u)[Len(s) + k] = Total(s) + UpTo(t)[k]
  <2>1. k \in Nat /\ k <= Len(t) BY <1>0, SMT
  <2> QED BY <1>3, <2>1
<1>5. ASSUME NEW k \in 0 .. Len(s) PROVE UpTo(u)[k] = UpTo(s)[k]
  <2>1. k \in Nat /\ \A j \in 1..k : u[j] = s[j] BY <1>0, SMT
  <2> HIDE DEF u
  <2> QED BY <2>1, UpToAgree
<1> QED BY <1>4, <1>5

\* The sum of a sequence that is put together.
LEMMA TotalConcat ==
    ASSUME NEW s \in Seq(Nat), NEW t \in Seq(Nat)
    PROVE  Total(s \o t) = Total(s) + Total(t)
<1>1. Len(t) \in 0 .. Len(t) /\ Len(s \o t) = Len(s) + Len(t) BY SMT
<1>2. UpTo(s \o t)[Len(s) + Len(t)] = Total(s) + UpTo(t)[Len(t)] BY <1>1, UpToConcat
<1> QED BY <1>1, <1>2, UpToStep

\* The sum of one more number.
LEMMA TotalCons ==
    ASSUME NEW n \in Nat, NEW t \in Seq(Nat)
    PROVE  Total(<<n>>) = n /\ Total(<<n>> \o t) = n + Total(t)
<1>1. Total(<<n>>) = UpTo(<<n>>)[Len(<<n>>)] /\ UpTo(<<n>>)[0] = 0 BY UpToStep
<1>2. UpTo(<<n>>)[0 + 1] = UpTo(<<n>>)[0] + <<n>>[0 + 1] BY UpToStep
<1>3. Len(<<n>>) = 1 /\ 0 + 1 = 1 /\ <<n>>[1] = n /\ 0 + n = n /\ <<n>> \in Seq(Nat)
  BY SMT
<1>4. Total(<<n>>) = n BY <1>1, <1>2, <1>3
<1> QED BY <1>3, <1>4, TotalConcat

-----------------------------------------------------------------------------
(* The size of a varint.                                                   *)

\* What is left of a number after its lowest group is smaller.
LEMMA DivLess ==
    ASSUME NEW n \in Nat, n \div Base # 0
    PROVE  n \div Base \in Nat /\ n \div Base < n
<1> DEFINE q == n \div Base
           r == n % Base
<1>1. q \in Nat /\ r \in Nat /\ n = Base * q + r
  <2>1. r \in 0 .. Base - 1 /\ q \in Nat /\ n = Base * q + r BY DivMod
  <2> HIDE DEF q, r
  <2> QED BY <2>1, SMT
<1>2. q # 0 OBVIOUS
<1> HIDE DEF q, r
<1>3. \A b \in Nat : b > 1 => q < b * q + r BY <1>1, <1>2, SMT
<1>4. q \in Nat /\ q < n BY <1>1, <1>3
<1> QED BY <1>4 DEF q

GroupStep(given, f, n) == IF n \div Base = 0 THEN 1 ELSE f[n \div Base] + 1

GroupCount == INSTANCE Recursion WITH Step <- GroupStep

\* One byte for the lowest group, and those of what is left.
LEMMA VarintSkipStep ==
    ASSUME NEW n \in Nat
    PROVE  VarintSkip(n) = IF n \div Base = 0 THEN 1 ELSE VarintSkip(n \div Base) + 1
<1> DEFINE id == [k \in Nat |-> k]
           count == CHOOSE f : GroupCount!Solves(0, Nat, f)
<1>1. \A m : VarintSkip(m) = count[m] BY DEF VarintSkip, GroupCount!Solves, GroupStep
<1>2. GroupCount!Descends(0, Nat, id)
  <2>1. \A m \in Nat : m \div Base # 0 => m \div Base \in Nat /\ id[m \div Base] < id[m]
    BY DivLess
  <2> HIDE DEF id
  <2> QED BY <2>1 DEF GroupCount!Descends, GroupStep
<1>3. \E f : GroupCount!Solves(0, Nat, f)
  <2>1. id \in [Nat -> Nat] BY Descending
  <2> HIDE DEF id
  <2> QED BY <1>2, <2>1, GroupCount!RecursiveFunction
<1>4. GroupCount!Solves(0, Nat, count) BY <1>3
<1>5. count[n] = IF n \div Base = 0 THEN 1 ELSE count[n \div Base] + 1
  <2> HIDE DEF count
  <2> QED BY <1>4 DEF GroupCount!Solves, GroupStep
<1> QED BY <1>1, <1>5

\* Every varint has a byte.
LEMMA VarintSkipNat ==
    ASSUME NEW n \in Nat
    PROVE  VarintSkip(n) \in Nat \ {0}
<1> DEFINE T == {m \in Nat : VarintSkip(m) \notin Nat \ {0}}
<1>1. SUFFICES ASSUME T # {} PROVE FALSE OBVIOUS
<1>2. PICK j \in T : \A l \in T : j <= l BY <1>1, Powers!SmallestNat
<1>3. j \in Nat /\ VarintSkip(j) \notin Nat \ {0} OBVIOUS
<1>4. j \div Base # 0 BY <1>3, VarintSkipStep
<1>5. j \div Base \in Nat /\ j \div Base < j BY <1>3, <1>4, DivLess
<1> DEFINE q == j \div Base
<1>6. VarintSkip(q) \in Nat \ {0}
  <2>1. q \in T => j <= q BY <1>2
  <2>2. q \in Nat /\ ~(j <= q)
    <3> HIDE DEF q
    <3>1. q \in Nat /\ q < j BY <1>5 DEF q
    <3> QED BY <1>3, <3>1, SMT
  <2> QED BY <2>1, <2>2
<1>7. VarintSkip(j) = VarintSkip(q) + 1 BY <1>3, <1>4, VarintSkipStep
<1>8. VarintSkip(j) \in Nat \ {0}
  <2> HIDE DEF q
  <2> QED BY <1>6, <1>7, SMT
<1> QED BY <1>3, <1>8

USE SchemaAssumption, EncoderAssumption

-----------------------------------------------------------------------------
(* Entries of todo.                                                        *)

\* Everything a failure leaves to do was to be done before, and the loop over
\* the fields of some message comes first.
LEMMA UnwoundType ==
    ASSUME NEW s \in Seq(Entries)
    PROVE  /\ Unwound(s) \in Seq(Entries)
           /\ Unwound(s) # <<>> => Head(Unwound(s)).do = "fields"
<1> DEFINE loops == {j \in DOMAIN s : s[j].do = "fields"}
           first == CHOOSE j \in loops : \A l \in loops : j <= l
<1>1. DOMAIN s = 1 .. Len(s) /\ Len(s) \in Nat BY SMT
<1>2. Unwound(s) = IF loops = {} THEN <<>> ELSE SubSeq(s, first, Len(s))
  BY DEF Unwound
<1>3. CASE loops = {}
  BY <1>2, <1>3, SMT
<1>4. CASE loops # {}
  <2>1. loops \in SUBSET Nat BY <1>1, SMT
  <2>2. first \in loops BY <1>4, <2>1, Powers!SmallestNat
  <2>3. first \in 1 .. Len(s) /\ s[first].do = "fields" BY <1>1, <2>2
  <2> HIDE DEF first, loops
  <2>4. SubSeq(s, first, Len(s)) \in Seq(Entries) BY <1>1, <2>3, SMT
  <2>5. Head(SubSeq(s, first, Len(s))) = s[first] BY <1>1, <2>3, SMT
  <2> QED BY <1>2, <1>4, <2>3, <2>4, <2>5
<1> QED BY <1>3, <1>4

\* An entry is for a coder of its own kind, and for a value of that coder.
LEMMA EntryType ==
    ASSUME NEW t \in Entries
    PROVE  /\ t.do = "varint" => t.n \in Nat
           /\ t.do \in {"fixed", "array", "message"} =>
                 t.coder \in Coders /\ t.coder.kind = t.do /\ t.v \in ValuesOf(t.coder)
           /\ t.do \in {"body", "fields"} =>
                 t.coder \in MessageCoders /\ t.v \in ValuesOf(t.coder)
           /\ t.do = "fields" => t.k \in 1 .. Len(t.coder.order) + 1
<1>1. CASE t \in [do : {"varint"}, n : Nat]
  BY <1>1
<1>2. ASSUME NEW c \in Coders, c.kind # "varint", t \in EntriesOf(c)
      PROVE  /\ t.do \in {"fixed", "array", "message"}
             /\ t.coder \in Coders /\ t.coder.kind = t.do /\ t.v \in ValuesOf(t.coder)
  <2>1. c.kind \in Kinds OBVIOUS
  <2>2. t.do = c.kind /\ t.coder = c /\ t.v \in ValuesOf(c)
    BY <1>2 DEF EntriesOf
  <2> QED BY <1>2, <2>1, <2>2 DEF Kinds
<1>3. ASSUME NEW c \in MessageCoders, t \in MessageEntries(c)
      PROVE  /\ t.do \in {"body", "fields"}
             /\ t.coder \in MessageCoders /\ t.v \in ValuesOf(t.coder)
             /\ t.do = "fields" => t.k \in 1 .. Len(t.coder.order) + 1
  <2>1. t.coder = c /\ t.v \in ValuesOf(c) /\ t.do \in {"body", "fields"}
    BY <1>3 DEF MessageEntries
  <2>2. t.do = "fields" => t.k \in 1 .. Len(c.order) + 1
    BY <1>3 DEF MessageEntries
  <2> QED BY <2>1, <2>2
<1>4. \/ t \in [do : {"varint"}, n : Nat]
      \/ \E c \in Coders : c.kind # "varint" /\ t \in EntriesOf(c)
      \/ \E c \in MessageCoders : t \in MessageEntries(c)
  BY DEF Entries
<1> QED BY <1>1, <1>2, <1>3, <1>4

\* A varint with any number left to write is an entry.
LEMMA VarintEntry == ASSUME NEW n \in Nat PROVE Varint(n) \in Entries
BY DEF Varint, Entries

\* Calling the encode function of a coder on a value of it is an entry.
LEMMA ValueEntry ==
    ASSUME NEW c \in Coders, NEW v \in ValuesOf(c)
    PROVE  Value(c, v) \in Entries
<1>1. CASE c.kind = "varint"
  BY <1>1, VarintEntry DEF Value
<1>2. CASE c.kind # "varint"
  <2>1. Value(c, v) \in EntriesOf(c)
    BY <1>2 DEF Value, EntriesOf
  <2> QED BY <1>2, <2>1 DEF Entries
<1> QED BY <1>1, <1>2

\* A loop over the fields of a message, wherever it stands, is an entry.
LEMMA FieldsEntry ==
    ASSUME NEW c \in MessageCoders, NEW v \in ValuesOf(c), NEW k \in 1 .. Len(c.order) + 1
    PROVE  Fields(c, v, k) \in Entries
<1>1. Fields(c, v, k) \in MessageEntries(c)
  BY DEF Fields, MessageEntries
<1> QED BY <1>1 DEF Entries

\* An embedded message whose length has been written is an entry.
LEMMA BodyEntry ==
    ASSUME NEW t \in Entries, t.do = "message"
    PROVE  [t EXCEPT !.do = "body"] \in Entries
<1>1. t.coder \in MessageCoders /\ t.v \in ValuesOf(t.coder)
  BY EntryType DEF MessageCoders
<1>2. t = [do |-> t.do, coder |-> t.coder, v |-> t.v]
  <2>1. PICK c \in Coders : c.kind # "varint" /\ t \in EntriesOf(c)
    <3>1. t \notin [do : {"varint"}, n : Nat] OBVIOUS
    <3>2. \A c \in MessageCoders : t \notin MessageEntries(c) BY DEF MessageEntries
    <3> QED BY <3>1, <3>2 DEF Entries
  <2> QED BY <2>1 DEF EntriesOf
<1>3. [t EXCEPT !.do = "body"] = [do |-> "body", coder |-> t.coder, v |-> t.v]
  <2> DEFINE d == t.do
             c == t.coder
             v == t.v
  <2>1. t = [do |-> d, coder |-> c, v |-> v] BY <1>2
  <2> HIDE BaseAssumption, SchemaAssumption, EncoderAssumption
  <2> HIDE DEF d, c, v
  <2>2. [t EXCEPT !.do = "body"] = [do |-> "body", coder |-> c, v |-> v] BY <2>1, SMT
  <2> QED BY <2>2 DEF c, v
<1>4. [t EXCEPT !.do = "body"] \in MessageEntries(t.coder)
  BY <1>1, <1>3 DEF MessageEntries
<1> QED BY <1>1, <1>4 DEF Entries

\* What a field adds is an entry for every key and every value.
LEMMA FieldValuesType ==
    ASSUME NEW c \in MessageCoders, NEW msg \in ValuesOf(c), NEW f \in c.fields
    PROVE  FieldValues(f, msg[f.number]) \in Seq(Entries)
<1> DEFINE vs == msg[f.number]
<1>1. c \in Coders /\ c.kind = "message" BY DEF MessageCoders
<1>2. vs \in Seq(ValuesOf(f.coder)) /\ f.coder \in Coders /\ f.number \in Nat BY <1>1
<1> HIDE DEF vs
<1>3. Key(f) \in Nat
  <2>1. f.wire \in Nat BY <1>1
  <2>2. \A n, w, m : n \in Nat /\ w \in Nat /\ m \in Nat \ {0} => (n * 8 + w) % m \in Nat
    <3> HIDE BaseAssumption, SchemaAssumption, EncoderAssumption
    <3> QED BY SMT
  <2>3. KeyWord \in Nat \ {0} OBVIOUS
  <2> QED BY <1>2, <2>1, <2>2, <2>3 DEF Key, KeyOf
<1>4. ASSUME NEW j \in 1 .. 2 * Len(vs), j % 2 # 1 PROVE vs[j \div 2] \in ValuesOf(f.coder)
  <2>1. Len(vs) \in Nat BY <1>2, SMT
  <2>2. j \div 2 \in 1 .. Len(vs)
    <3> DEFINE l == Len(vs)
    <3> HIDE BaseAssumption, SchemaAssumption, EncoderAssumption
    <3> HIDE DEF l
    <3> QED BY <1>4, <2>1, SMT DEF l
  <2>3. \A S, s, k : s \in Seq(S) /\ k \in 1 .. Len(s) => s[k] \in S BY SMT
  <2> HIDE BaseAssumption, SchemaAssumption, EncoderAssumption
  <2> QED BY <1>2, <2>2, <2>3, Zenon
<1>5. \A j \in 1 .. 2 * Len(vs) :
        (IF j % 2 = 1 THEN Varint(Key(f)) ELSE Value(f.coder, vs[j \div 2])) \in Entries
  BY <1>2, <1>3, <1>4, VarintEntry, ValueEntry
<1>6. 2 * Len(vs) \in Nat BY <1>2, SMT
<1> QED BY <1>5, <1>6, SMT DEF FieldValues, vs

-----------------------------------------------------------------------------
(* Type correctness, and what a failure leaves.                            *)

\* Once a result is empty the next thing to do is to go on with a loop over
\* fields, which only finds out: no key or value is left to write first.
FailedInv ==
    /\ status \in {"idle", "ok"} => ~failed
    /\ failed => /\ mode = "safe" /\ status # "ub"
                 /\ todo # <<>> => now.do = "fields"

Inv == TypeOK /\ NoOverrun /\ FailedInv

\* The innermost call and the calls that wait for it are entries.
LEMMA HeadType ==
    ASSUME TypeOK, todo # <<>>
    PROVE  now \in Entries /\ Tail(todo) \in Seq(Entries)
<1>1. todo \in Seq(Entries) BY DEF TypeOK
<1> QED BY <1>1, SMT DEF now

\* What replaces the first entry is put before the others.
LEMMA Replace ==
    ASSUME TypeOK, todo # <<>>, NEW s \in Seq(Entries)
    PROVE  s \o Tail(todo) \in Seq(Entries)
<1>1. Tail(todo) \in Seq(Entries) BY HeadType
<1> QED BY <1>1, SMT

\* The steps that write nothing.
LEMMA QuietSteps ==
    ASSUME TypeOK, FailedInv,
           EncodeField \/ EndFields \/ EncodeArray \/ EncodeMessage \/ EncodeBody
    PROVE  /\ todo' \in Seq(Entries)
           /\ failed => (todo' # <<>> => Head(todo').do = "fields")
<1>1. todo # <<>> /\ status = "run"
  BY Zenon DEF EncodeField, EndFields, EncodeArray, EncodeMessage, EncodeBody, Doing
<1>2. now \in Entries /\ Tail(todo) \in Seq(Entries) BY <1>1, HeadType
<1>3. CASE EncodeField
  <2> DEFINE c == now.coder
             f == c.order[now.k]
             next == Fields(c, now.v, now.k + 1)
             new == IF failed THEN <<>> ELSE FieldValues(f, now.v[f.number])
  <2>1. now.do = "fields" /\ now.k <= Len(c.order)
    BY <1>3, Zenon DEF EncodeField, Doing, now
  <2>2. c \in MessageCoders /\ now.v \in ValuesOf(c) /\ now.k \in 1 .. Len(c.order) + 1
    BY <1>2, <2>1, EntryType
  <2>3. c.order \in Seq(c.fields) BY <2>2 DEF MessageCoders
  <2>4. f \in c.fields /\ now.k + 1 \in 1 .. Len(c.order) + 1
    <3>1. \A S, s, k : s \in Seq(S) /\ k \in 1 .. Len(s) + 1 /\ k <= Len(s)
                      => s[k] \in S /\ k + 1 \in 1 .. Len(s) + 1
      <4> HIDE BaseAssumption, SchemaAssumption, EncoderAssumption
      <4> QED BY SMT
    <3> QED BY <2>1, <2>2, <2>3, <3>1, Zenon
  <2>5. next \in Entries BY <2>2, <2>4, FieldsEntry
  <2>6. new \in Seq(Entries)
    <3>1. FieldValues(f, now.v[f.number]) \in Seq(Entries)
      <4> HIDE DEF c, f
      <4> QED BY <2>2, <2>4, FieldValuesType
    <3> QED BY <3>1, SMT
  <2>7. todo' = new \o <<next>> \o Tail(todo) BY <1>3, Zenon DEF EncodeField
  <2>8. next.do = "fields" BY DEF Fields
  <2>9. failed => new = <<>> OBVIOUS
  <2> HIDE DEF new, next
  <2>10. todo' \in Seq(Entries) BY <1>2, <2>5, <2>6, <2>7, SMT
  <2>11. failed => Head(todo') = next
    BY <1>2, <2>5, <2>7, <2>9, SMT
  <2> QED BY <2>8, <2>10, <2>11, Zenon
<1>4. CASE EndFields
  <2>1. todo' = IF failed THEN Unwound(Tail(todo)) ELSE Tail(todo)
    BY <1>4 DEF EndFields
  <2> QED BY <1>2, <2>1, UnwoundType
<1>5. CASE EncodeArray
  <2> DEFINE c == now.coder
             new == <<Varint(ContentSkip(c, now.v) % LenWord)>>
             elems == [j \in DOMAIN now.v |-> Value(c.elem, now.v[j])]
  <2>1. now.do = "array" BY <1>5 DEF EncodeArray, Doing, now
  <2>2. c \in Coders /\ c.kind = "array" /\ now.v \in ValuesOf(c)
    BY <1>2, <2>1, EntryType
  <2>3. /\ now.v \in Seq(ValuesOf(c.elem)) /\ ContentSkip(c, now.v) \in Nat
        /\ c.elem \in Coders /\ LenWord \in Nat \ {0}
    BY <2>2
  <2>4. new \in Seq(Entries)
    <3>1. ContentSkip(c, now.v) % LenWord \in Nat BY <2>3, SMT
    <3>2. Varint(ContentSkip(c, now.v) % LenWord) \in Entries BY <3>1, VarintEntry
    <3> QED BY <3>2, SMT
  <2>5. elems \in Seq(Entries)
    <3>1. DOMAIN now.v = 1 .. Len(now.v) /\ Len(now.v) \in Nat BY <2>3, SMT
    <3>2. \A j \in 1 .. Len(now.v) : now.v[j] \in ValuesOf(c.elem) BY <2>3, SMT
    <3>3. \A j \in 1 .. Len(now.v) : Value(c.elem, now.v[j]) \in Entries
      BY <2>3, <3>2, ValueEntry
    <3> QED BY <3>1, <3>3, SMT
  <2>6. todo' = new \o elems \o Tail(todo) BY <1>5 DEF EncodeArray
  <2> HIDE DEF new, elems
  <2>7. todo' \in Seq(Entries) BY <1>2, <2>4, <2>5, <2>6, SMT
  <2>8. ~failed BY <1>1, <2>1 DEF FailedInv
  <2> QED BY <2>7, <2>8
<1>6. CASE EncodeMessage
  <2> DEFINE first == Varint(ContentSkip(now.coder, now.v) % LenWord)
             second == [now EXCEPT !.do = "body"]
  <2>1. now.do = "message" BY <1>6 DEF EncodeMessage, Doing, now
  <2>2. now.coder \in Coders /\ now.coder.kind = "message" /\ now.v \in ValuesOf(now.coder)
    BY <1>2, <2>1, EntryType
  <2>3. ContentSkip(now.coder, now.v) % LenWord \in Nat
    <3>1. ContentSkip(now.coder, now.v) \in Nat /\ LenWord \in Nat \ {0} BY <2>2
    <3> QED BY <3>1, SMT
  <2>4. first \in Entries /\ second \in Entries
    BY <1>2, <2>1, <2>3, VarintEntry, BodyEntry
  <2>5. todo' = <<first, second>> \o Tail(todo) BY <1>6 DEF EncodeMessage
  <2> HIDE DEF first, second
  <2>6. todo' \in Seq(Entries) BY <1>2, <2>4, <2>5, SMT
  <2>7. ~failed BY <1>1, <2>1 DEF FailedInv
  <2> QED BY <2>6, <2>7
<1>7. CASE EncodeBody
  <2> DEFINE first == Fields(now.coder, now.v, 1)
  <2>1. now.do = "body" BY <1>7 DEF EncodeBody, Doing, now
  <2>2. now.coder \in MessageCoders /\ now.v \in ValuesOf(now.coder)
    BY <1>2, <2>1, EntryType
  <2>3. first \in Entries
    <3>1. now.coder.order \in Seq(now.coder.fields) BY <2>2 DEF MessageCoders
    <3>2. 1 \in 1 .. Len(now.coder.order) + 1 BY <3>1, SMT
    <3> QED BY <2>2, <3>2, FieldsEntry
  <2>4. todo' = <<first>> \o Tail(todo) BY <1>7 DEF EncodeBody
  <2> HIDE DEF first
  <2>5. todo' \in Seq(Entries) BY <1>2, <2>3, <2>4, SMT
  <2>6. ~failed BY <1>1, <2>1 DEF FailedInv
  <2> QED BY <2>5, <2>6
<1> QED BY <1>3, <1>4, <1>5, <1>6, <1>7, Zenon

\* The steps that write.
LEMMA WriteGroupType ==
    ASSUME TypeOK, FailedInv, WriteGroup
    PROVE  /\ buf' \in [0 .. Capacity - 1 -> Byte] /\ pos' \in 0..limit /\ start <= pos'
           /\ todo' \in Seq(Entries) /\ ~failed
<1>1. /\ todo # <<>> /\ now.do = "varint" /\ status = "run" /\ pos < limit
  BY DEF WriteGroup, Doing, now
<1>2. now \in Entries /\ now.n \in Nat BY <1>1, HeadType, EntryType
<1>3. GroupByte(now.n) \in Byte /\ now.n \div Base \in Nat
  BY <1>2, GroupByteType, DivMod
<1>4. buf' \in [0 .. Capacity - 1 -> Byte]
  BY <1>3 DEF WriteGroup, TypeOK
<1>5. pos' \in 0..limit /\ start <= pos'
  <2>1. /\ pos' = pos + 1 /\ pos \in 0..limit /\ limit \in 0..Capacity /\ start \in 0..pos
        /\ Capacity \in Nat
    BY DEF WriteGroup, TypeOK
  <2> HIDE BaseAssumption, SchemaAssumption, EncoderAssumption
  <2> QED BY <1>1, <2>1, SMT
<1>6. todo' \in Seq(Entries)
  <2> DEFINE more == IF now.n \div Base = 0 THEN <<>> ELSE <<Varint(now.n \div Base)>>
  <2>1. Varint(now.n \div Base) \in Entries BY <1>3, VarintEntry
  <2>2. more \in Seq(Entries)
    <3> DEFINE e == Varint(now.n \div Base)
    <3> HIDE DEF e
    <3>1. <<e>> \in Seq(Entries) /\ <<>> \in Seq(Entries) BY <2>1, SMT DEF e
    <3> QED BY <3>1 DEF e
  <2>3. todo' = more \o Tail(todo) BY DEF WriteGroup
  <2> HIDE DEF more
  <2> QED BY <1>1, <2>2, <2>3, Replace
<1>7. ~failed BY <1>1 DEF FailedInv
<1> QED BY <1>4, <1>5, <1>6, <1>7

\* A fixed-length value is written inside the span.
LEMMA WriteFixedType ==
    ASSUME TypeOK, FailedInv, WriteFixed
    PROVE  /\ buf' \in [0 .. Capacity - 1 -> Byte] /\ pos' \in 0..limit /\ start <= pos'
           /\ pos < pos' /\ todo' \in Seq(Entries) /\ ~failed
<1> DEFINE size == now.coder.size
<1>1. /\ todo # <<>> /\ now.do = "fixed" /\ status = "run" /\ size <= limit - pos
      /\ pos' = pos + size /\ todo' = Tail(todo)
  BY DEF WriteFixed, Doing, now
<1>2. now \in Entries /\ Tail(todo) \in Seq(Entries) BY <1>1, HeadType
<1>3. now.coder \in Coders /\ now.coder.kind = "fixed" /\ now.v \in ValuesOf(now.coder)
  BY <1>1, <1>2, EntryType
<1>4. size \in Nat \ {0} /\ now.v \in [1 .. size -> Byte] BY <1>3
<1>5. pos \in 0..limit /\ limit \in 0..Capacity /\ start \in 0..pos BY DEF TypeOK
<1> HIDE DEF size
<1>6. pos' \in 0..limit /\ start <= pos' /\ pos < pos'
  <2> HIDE BaseAssumption, SchemaAssumption, EncoderAssumption
  <2> QED BY <1>1, <1>4, <1>5, SMT
<1>7. buf' \in [0 .. Capacity - 1 -> Byte]
  <2>1. buf \in [0 .. Capacity - 1 -> Byte] BY DEF TypeOK
  <2>2. \A k \in pos .. pos + size - 1 : k - pos + 1 \in 1 .. size
    <3> HIDE BaseAssumption, SchemaAssumption, EncoderAssumption
    <3> QED BY <1>4, <1>5, SMT
  <2>3. \A k \in pos .. pos + size - 1 : now.v[k - pos + 1] \in Byte BY <1>4, <2>2
  <2>4. buf' = [k \in DOMAIN buf |-> IF k \in pos .. pos + size - 1
                                     THEN now.v[k - pos + 1] ELSE buf[k]]
    BY DEF WriteFixed, size
  <2> QED BY <2>1, <2>3, <2>4, Zenon
<1>8. ~failed BY <1>1 DEF FailedInv
<1> QED BY <1>1, <1>2, <1>6, <1>7, <1>8

\* A check that passes in safe mode leaves no byte to overrun.
LEMMA ChecksSuffice ==
    ASSUME TypeOK, mode = "safe"
    PROVE  ~Overrun
<1>1. pos \in 0..limit /\ limit \in 0..Capacity BY DEF TypeOK
<1>2. ~(CheckIterator /\ pos >= limit) BY <1>1, SMT DEF CheckIterator
<1>3. ASSUME Doing("fixed"), CheckBytesSpan PROVE ~(now.coder.size > limit - pos)
  <2>1. todo # <<>> /\ now.do = "fixed" BY <1>3 DEF Doing, now
  <2>2. now.coder.size \in Nat BY <2>1, HeadType, EntryType
  <2>3. limit - pos >= now.coder.size BY <1>3 DEF CheckBytesSpan
  <2> QED BY <1>1, <2>2, <2>3, SMT
<1> QED BY <1>2, <1>3 DEF Overrun

\* The inductive invariant: the types, no overrun in safe mode, and a failed
\* result that is still to be handed up.
THEOREM Inductive == Spec => []Inv
<1>1. Init => Inv
  <2> SUFFICES ASSUME Init PROVE Inv OBVIOUS
  <2>1. 0 \in Byte BY SMT DEF Byte
  <2>2. buf \in [0 .. Capacity - 1 -> Byte] BY <2>1 DEF Init
  <2>3. todo \in Seq(Entries) BY SMT DEF Init
  <2>4. limit \in 0..Capacity /\ start \in 0..pos /\ pos \in 0..limit BY SMT DEF Init
  <2> QED BY <2>2, <2>3, <2>4 DEF Init, Inv, TypeOK, NoOverrun, FailedInv
<1>2. Inv /\ [Next]_vars => Inv'
  <2> SUFFICES ASSUME Inv, [Next]_vars PROVE Inv' OBVIOUS
  <2>0. TypeOK /\ NoOverrun /\ FailedInv BY DEF Inv
  <2>1. ASSUME NEW msg \in ValuesOf(Root), CallEncode(msg) PROVE Inv'
    <3>1. Fields(Root, msg, 1) \in Entries
      <4>1. Root.order \in Seq(Root.fields) /\ Root \in MessageCoders BY DEF MessageCoders
      <4>2. 1 \in 1 .. Len(Root.order) + 1 BY <4>1, SMT
      <4> QED BY <4>1, <4>2, FieldsEntry
    <3>2. todo' = <<Fields(Root, msg, 1)>> BY <2>1 DEF CallEncode
    <3>3. todo' \in Seq(Entries) BY <3>1, <3>2, SMT
    <3>4. start' \in 0..pos BY <2>0, <2>1, SMT DEF CallEncode, TypeOK
    <3> QED BY <2>0, <2>1, <3>3, <3>4 DEF CallEncode, Inv, TypeOK, NoOverrun, FailedInv
  <2>2. CASE EncodeField \/ EndFields \/ EncodeArray \/ EncodeMessage \/ EncodeBody
    <3>1. /\ todo' \in Seq(Entries)
          /\ failed => (todo' # <<>> => Head(todo').do = "fields")
      BY <2>0, <2>2, QuietSteps, Zenon
    <3>2. /\ status = "run"
          /\ UNCHANGED <<buf, mode, limit, start, pos, failed, status>>
      BY <2>2, Zenon DEF EncodeField, EndFields, EncodeArray, EncodeMessage, EncodeBody, Doing
    <3> QED BY <2>0, <3>1, <3>2 DEF Inv, TypeOK, NoOverrun, FailedInv, now
  <2>3. CASE Return
    BY <2>0, <2>3 DEF Return, Inv, TypeOK, NoOverrun, FailedInv
  <2>4. CASE WriteGroup
    <3>1. /\ status = "run" /\ UNCHANGED <<mode, limit, start, failed, status>>
      BY <2>4 DEF WriteGroup, Doing
    <3>2. start' \in 0..pos' BY <2>0, <2>4, <3>1, WriteGroupType, SMT DEF TypeOK
    <3> QED BY <2>0, <2>4, <3>1, <3>2, WriteGroupType DEF Inv, TypeOK, NoOverrun, FailedInv
  <2>5. CASE WriteFixed
    <3>1. /\ status = "run" /\ UNCHANGED <<mode, limit, start, failed, status>>
      BY <2>5 DEF WriteFixed, Doing
    <3>2. start' \in 0..pos' BY <2>0, <2>5, <3>1, WriteFixedType, SMT DEF TypeOK
    <3> QED BY <2>0, <2>5, <3>1, <3>2, WriteFixedType DEF Inv, TypeOK, NoOverrun, FailedInv
  <2>6. CASE Fail
    <3>1. /\ status = "run" /\ failed' = TRUE /\ todo' = Unwound(todo)
          /\ mode = "safe" /\ UNCHANGED <<buf, mode, limit, start, pos, status>>
      BY <2>6 DEF Fail, Doing, CheckIterator, CheckBytesSpan
    <3>2. todo' \in Seq(Entries) /\ (todo' # <<>> => Head(todo').do = "fields")
      BY <2>0, <3>1, UnwoundType DEF TypeOK
    <3> QED BY <2>0, <3>1, <3>2 DEF Inv, TypeOK, NoOverrun, FailedInv, now
  <2>7. CASE Overrun
    <3>1. mode # "safe" BY <2>0, <2>7, ChecksSuffice
    <3>2. ~failed
      <4>1. todo # <<>> /\ now.do # "fields" BY <2>7 DEF Overrun, Doing, now
      <4> QED BY <2>0, <4>1 DEF FailedInv
    <3> QED BY <2>0, <2>7, <3>1, <3>2 DEF Overrun, Inv, TypeOK, NoOverrun, FailedInv
  <2>8. CASE UNCHANGED vars
    BY <2>0, <2>8 DEF vars, Inv, TypeOK, NoOverrun, FailedInv, now
  <2> QED BY <2>1, <2>2, <2>3, <2>4, <2>5, <2>6, <2>7, <2>8 DEF Next, Step
<1> QED BY <1>1, <1>2, PTL DEF Spec

\* Every variable keeps its type: in particular the span an encoder works on
\* is always the end of the one its caller gave.
THEOREM TypeCorrect == Spec => []TypeOK
<1>1. Inv => TypeOK BY DEF Inv
<1> QED BY <1>1, Inductive, PTL

\* A safe encode never writes past its span, whatever the message and however
\* wrong the predicted sizes.
THEOREM SafeEncodeIsSafe == Spec => []NoOverrun
<1>1. Inv => NoOverrun BY DEF Inv
<1> QED BY <1>1, Inductive, PTL

\* Once a result is empty, no later field writes a byte.
THEOREM NothingAfterFailure == Spec => FailureSticks
<1>1. Inv /\ [Next]_vars => [failed => buf' = buf /\ pos' = pos]_vars
  <2> SUFFICES ASSUME Inv, Next, failed PROVE buf' = buf /\ pos' = pos OBVIOUS
  <2>1. TypeOK /\ FailedInv BY DEF Inv
  <2>2. ~WriteGroup /\ ~WriteFixed BY <2>1, WriteGroupType, WriteFixedType
  <2> QED BY <2>2 DEF Next, Step, CallEncode, EncodeField, EndFields, EncodeArray,
                      EncodeMessage, EncodeBody, Return, Fail, Overrun
<1> QED BY <1>1, Inductive, PTL DEF Spec, FailureSticks

\* A position that moves on inside the span does so when counted from its start.
LEMMA OffsetMoves ==
    ASSUME NEW a \in Nat, NEW p \in Nat, NEW q \in Nat, NEW e \in Nat, a <= p, p < q, q <= e
    PROVE  q - a \in (p - a) + 1 .. e - a
<1> HIDE BaseAssumption, SchemaAssumption, EncoderAssumption
<1> QED BY SMT

\* An encode takes the steps the contract of coder.h allows: the safety part
\* of ImplementsContract.
THEOREM KeepsContract == Spec => Contract!Init /\ [][Contract!Next]_(Contract!vars)
<1>1. Init => Contract!Init
  <2> SUFFICES ASSUME Init PROVE Contract!Init OBVIOUS
  <2>1. pos - start = 0 /\ limit - start = limit BY SMT DEF Init
  <2> QED BY <2>1 DEF Init, Contract!Init
<1>2. Inv /\ Inv' /\ [Next]_vars => [Contract!Next]_(Contract!vars)
  <2> SUFFICES ASSUME Inv, Inv', Next PROVE [Contract!Next]_(Contract!vars)
    BY DEF vars, Contract!vars
  <2>0. /\ TypeOK /\ TypeOK' /\ FailedInv /\ FailedInv' /\ NoOverrun'
        /\ start \in Nat /\ pos \in Nat /\ limit \in 0..Capacity
        /\ start <= pos /\ pos <= limit
    <3>1. TypeOK /\ TypeOK' /\ FailedInv /\ FailedInv' /\ NoOverrun' BY DEF Inv
    <3>2. pos \in 0..limit /\ limit \in 0..Capacity /\ start \in 0..pos BY <3>1 DEF TypeOK
    <3> HIDE BaseAssumption, SchemaAssumption, EncoderAssumption
    <3> QED BY <3>1, <3>2, SMT
  <2>1. ASSUME NEW msg \in ValuesOf(Root), CallEncode(msg) PROVE Contract!Next
    <3>1. pos' - start' = 0 /\ limit' - start' \in 0..Capacity
      <4>1. start' = pos /\ pos' = pos /\ limit' = limit BY <2>1 DEF CallEncode
      <4>2. \A p \in Nat, c \in Nat : \A l \in 0..c :
              p <= l => p - p = 0 /\ l - p \in 0..c
        <5> HIDE BaseAssumption, SchemaAssumption, EncoderAssumption
        <5> QED BY SMT
      <4>3. Capacity \in 0 .. LenWord - 1 /\ LenWord \in Nat
        BY EncoderAssumption, SchemaAssumption, Zenon DEF EncoderAssumption, SchemaAssumption
      <4>4. Capacity \in Nat
        <5> HIDE BaseAssumption, SchemaAssumption, EncoderAssumption
        <5> QED BY <4>3, SMT
      <4> HIDE BaseAssumption, SchemaAssumption, EncoderAssumption
      <4> QED BY <2>0, <4>1, <4>2, <4>4, Zenon
    <3> QED BY <2>0, <2>1, <3>1 DEF CallEncode, Contract!Next, Contract!Call, TypeOK
  <2>2. CASE EncodeField \/ EndFields \/ EncodeArray \/ EncodeMessage \/ EncodeBody \/ Fail
    BY <2>2, Zenon DEF EncodeField, EndFields, EncodeArray, EncodeMessage, EncodeBody, Fail,
                Contract!vars
  <2>3. CASE Return
    BY <2>0, <2>3 DEF Return, FailedInv, TypeOK,
                      Contract!Next, Contract!Return, Contract!Outcomes
  <2>4. CASE WriteGroup
    <3>1. pos' = pos + 1 /\ status = "run" /\ UNCHANGED <<mode, limit, start, status>>
      BY <2>4 DEF WriteGroup, Doing
    <3>2. pos' \in Nat /\ pos' <= limit BY <2>0, <2>4, WriteGroupType, SMT
    <3>3. pos' - start' \in (pos - start) + 1 .. limit - start
      <4>1. limit \in Nat /\ start' = start BY <2>0, <3>1, EncoderAssumption
      <4>2. pos < pos' /\ pos' \in Nat /\ pos' <= limit BY <2>0, <3>1, <3>2
      <4>3. start \in Nat /\ pos \in Nat /\ start <= pos BY <2>0
      <4>4. pos' - start \in (pos - start) + 1 .. limit - start
        BY <4>1, <4>2, <4>3, OffsetMoves
      <4> QED BY <4>1, <4>4
    <3>4. limit' - start' = limit - start BY <3>1
    <3> QED BY <3>1, <3>3, <3>4 DEF Contract!Next, Contract!Advance
  <2>5. CASE WriteFixed
    <3>1. status = "run" /\ UNCHANGED <<mode, limit, start, status>>
      BY <2>5 DEF WriteFixed, Doing
    <3>2. pos' \in Nat /\ pos' <= limit /\ pos < pos' BY <2>0, <2>5, WriteFixedType, SMT
    <3>3. pos' - start' \in (pos - start) + 1 .. limit - start
      <4>1. limit \in Nat /\ start' = start BY <2>0, <3>1, EncoderAssumption
      <4>2. pos < pos' /\ pos' \in Nat /\ pos' <= limit BY <2>0, <3>1, <3>2
      <4>3. start \in Nat /\ pos \in Nat /\ start <= pos BY <2>0
      <4>4. pos' - start \in (pos - start) + 1 .. limit - start
        BY <4>1, <4>2, <4>3, OffsetMoves
      <4> QED BY <4>1, <4>4
    <3>4. limit' - start' = limit - start BY <3>1
    <3> QED BY <3>1, <3>3, <3>4 DEF Contract!Next, Contract!Advance
  <2>6. CASE Overrun
    <3>1. mode = "unsafe" BY <2>0, <2>6, ChecksSuffice DEF TypeOK
    <3>2. status = "run" BY <2>6 DEF Overrun, Doing
    <3> QED BY <2>6, <3>1, <3>2
        DEF Overrun, Contract!Next, Contract!Return, Contract!Outcomes
  <2> QED BY <2>1, <2>2, <2>3, <2>4, <2>5, <2>6 DEF Next, Step
<1> QED BY <1>1, <1>2, Inductive, PTL DEF Spec

-----------------------------------------------------------------------------
(* Predicted sizes.                                                        *)

Sizes(s) == [j \in DOMAIN s |-> EntrySize(s[j])]

\* The key of a field of the schema is a number.
LEMMA KeyNat ==
    ASSUME NEW c \in MessageCoders, NEW f \in c.fields
    PROVE  Key(f) \in Nat
<1>1. f.number \in Nat /\ f.wire \in Nat BY DEF MessageCoders
<1>2. \A n, w, m : n \in Nat /\ w \in Nat /\ m \in Nat \ {0} => (n * 8 + w) % m \in Nat
  <2> HIDE BaseAssumption, SchemaAssumption, EncoderAssumption
  <2> QED BY SMT
<1>3. KeyWord \in Nat \ {0} OBVIOUS
<1> QED BY <1>1, <1>2, <1>3 DEF Key, KeyOf

\* The predicted size of a value is a number, and not zero.
LEMMA ValueSkipNat ==
    ASSUME NEW c \in Coders, NEW v \in ValuesOf(c)
    PROVE  ValueSkip(c, v) \in Nat \ {0}
<1>1. c.kind \in Kinds OBVIOUS
<1>2. CASE c.kind = "varint"
  <2>1. v \in Nat BY <1>2
  <2> QED BY <1>2, <2>1, VarintSkipNat DEF ValueSkip
<1>3. CASE c.kind = "fixed"
  BY <1>3 DEF ValueSkip
<1>4. CASE c.kind \in {"array", "message"}
  <2> DEFINE n == ContentSkip(c, v)
  <2>1. n \in Nat BY <1>4
  <2>2. VarintSkip(n) \in Nat \ {0} BY <2>1, VarintSkipNat
  <2>3. ValueSkip(c, v) = n + VarintSkip(n) BY <1>4 DEF ValueSkip
  <2> HIDE DEF n
  <2> QED BY <2>1, <2>2, <2>3, SMT
<1> QED BY <1>1, <1>2, <1>3, <1>4 DEF Kinds

\* The sizes of a list of values are numbers.
LEMMA FieldSkipNat ==
    ASSUME NEW c \in MessageCoders, NEW msg \in ValuesOf(c), NEW f \in c.fields
    PROVE  FieldSkip(f, msg[f.number]) \in Nat
<1> DEFINE vs == msg[f.number]
           s == [j \in DOMAIN vs |-> VarintSkip(Key(f)) + ValueSkip(f.coder, vs[j])]
<1>1. vs \in Seq(ValuesOf(f.coder)) /\ f.coder \in Coders BY DEF MessageCoders
<1>2. VarintSkip(Key(f)) \in Nat BY KeyNat, VarintSkipNat
<1> HIDE DEF vs
<1>3. DOMAIN vs = 1 .. Len(vs) /\ Len(vs) \in Nat BY <1>1, SMT
<1>4. ASSUME NEW j \in 1 .. Len(vs)
      PROVE  VarintSkip(Key(f)) + ValueSkip(f.coder, vs[j]) \in Nat
  <2>1. vs[j] \in ValuesOf(f.coder) BY <1>1, <1>3, SMT
  <2>2. ValueSkip(f.coder, vs[j]) \in Nat BY <1>1, <2>1, ValueSkipNat
  <2> QED BY <1>2, <2>2, SMT
<1>5. s \in Seq(Nat) BY <1>3, <1>4, SMT
<1>6. Total(s) \in Nat
  <2> HIDE DEF s
  <2> QED BY <1>5, TotalNat
<1> QED BY <1>6 DEF FieldSkip, vs

\* So are those of the fields of a message.
LEMMA FieldSizesType ==
    ASSUME NEW c \in MessageCoders, NEW msg \in ValuesOf(c)
    PROVE  FieldSizes(c, msg) \in Seq(Nat) /\ Len(FieldSizes(c, msg)) = Len(c.order)
<1>1. c.order \in Seq(c.fields) BY DEF MessageCoders
<1>2. DOMAIN c.order = 1 .. Len(c.order) /\ Len(c.order) \in Nat BY <1>1, SMT
<1>3. \A k \in 1 .. Len(c.order) : c.order[k] \in c.fields BY <1>1, <1>2, SMT
<1>4. \A k \in 1 .. Len(c.order) : FieldSkip(c.order[k], msg[c.order[k].number]) \in Nat
  BY <1>3, FieldSkipNat
<1> DEFINE n == Len(c.order)
           s == FieldSizes(c, msg)
<1>5. s = [k \in 1..n |-> s[k]] /\ (\A k \in 1..n : s[k] \in Nat) /\ n \in Nat
  BY <1>2, <1>4 DEF FieldSizes
<1> HIDE DEF n, s
<1>6. s \in Seq(Nat) /\ Len(s) = n
  <2> HIDE BaseAssumption, SchemaAssumption, EncoderAssumption
  <2> QED BY <1>5, SMT
<1> QED BY <1>6 DEF n, s

\* What is left to write for an entry is a number, and never nothing for a
\* varint or a fixed-length value.
LEMMA EntrySizeNat ==
    ASSUME NEW e \in Entries
    PROVE  /\ EntrySize(e) \in Nat
           /\ e.do \in {"varint", "fixed"} => EntrySize(e) # 0
<1>1. CASE e.do = "varint"
  BY <1>1, EntryType, VarintSkipNat DEF EntrySize
<1>2. CASE e.do = "body"
  <2>1. e.coder \in Coders /\ e.coder.kind = "message" /\ e.v \in ValuesOf(e.coder)
    BY <1>2, EntryType DEF MessageCoders
  <2>2. ContentSkip(e.coder, e.v) \in Nat BY <2>1
  <2> QED BY <1>2, <2>2 DEF EntrySize
<1>3. CASE e.do = "fields"
  <2> DEFINE s == FieldSizes(e.coder, e.v)
             n == Len(e.coder.order)
             k == e.k
             t == SubSeq(s, k, n)
  <2>1. e.coder \in MessageCoders /\ e.v \in ValuesOf(e.coder) /\ e.k \in 1 .. n + 1
    BY <1>3, EntryType
  <2>2. s \in Seq(Nat) /\ Len(s) = n BY <2>1, FieldSizesType
  <2>3. EntrySize(e) = Total(t) BY <1>3 DEF EntrySize
  <2>4. t \in Seq(Nat)
    <3>1. k \in 1 .. n + 1 /\ n \in Nat BY <2>1, <2>2, SMT
    <3> HIDE DEF s, n, k
    <3> QED
      <4> HIDE BaseAssumption, SchemaAssumption, EncoderAssumption
      <4> QED BY <2>2, <3>1, SMT
  <2> HIDE DEF t
  <2> QED BY <1>3, <2>3, <2>4, TotalNat
<1>4. CASE e.do \notin {"varint", "body", "fields"}
  <2>1. e.do \in {"fixed", "array", "message"}
    <3>1. CASE e \in [do : {"varint"}, n : Nat] BY <1>4, <3>1
    <3>2. ASSUME NEW c \in Coders, c.kind # "varint", e \in EntriesOf(c)
          PROVE  e.do \in {"fixed", "array", "message"}
      BY <3>2 DEF EntriesOf, Kinds
    <3>3. ASSUME NEW c \in MessageCoders, e \in MessageEntries(c) PROVE FALSE
      BY <1>4, <3>3 DEF MessageEntries
    <3> QED BY <3>1, <3>2, <3>3 DEF Entries
  <2>2. e.coder \in Coders /\ e.v \in ValuesOf(e.coder) BY <2>1, EntryType
  <2>3. EntrySize(e) = ValueSkip(e.coder, e.v) BY <1>4 DEF EntrySize
  <2> QED BY <2>2, <2>3, ValueSkipNat
<1> QED BY <1>1, <1>2, <1>3, <1>4

\* The sizes of entries are numbers.
LEMMA SizesType ==
    ASSUME NEW s \in Seq(Entries)
    PROVE  /\ Sizes(s) \in Seq(Nat) /\ Len(Sizes(s)) = Len(s)
           /\ Owed(s) = Total(Sizes(s)) /\ Owed(s) \in Nat
<1>1. DOMAIN s = 1 .. Len(s) /\ Len(s) \in Nat BY SMT
<1>2. \A j \in 1 .. Len(s) : s[j] \in Entries BY SMT
<1>3. \A j \in 1 .. Len(s) : EntrySize(s[j]) \in Nat BY <1>2, EntrySizeNat
<1>4. Sizes(s) \in Seq(Nat) /\ Len(Sizes(s)) = Len(s) BY <1>1, <1>3, SMT DEF Sizes
<1>5. Owed(s) = Total(Sizes(s)) BY DEF Owed, Sizes
<1> QED BY <1>4, <1>5, TotalNat

\* Two sequences put together, element by element.
LEMMA ConcatIs ==
    ASSUME NEW a \in Seq(Nat), NEW b \in Seq(Nat), NEW u \in Seq(Nat),
           Len(u) = Len(a) + Len(b),
           \A j \in 1 .. Len(u) : u[j] = IF j <= Len(a) THEN a[j] ELSE b[j - Len(a)]
    PROVE  u = a \o b
<1> DEFINE c == a \o b
<1>1. c \in Seq(Nat) /\ Len(c) = Len(a) + Len(b) BY SMT
<1>2. \A j \in 1 .. Len(a) + Len(b) : c[j] = IF j <= Len(a) THEN a[j] ELSE b[j - Len(a)]
  BY SMT
<1> HIDE DEF c
<1>3. Len(c) = Len(u) /\ \A j \in 1 .. Len(u) : c[j] = u[j] BY <1>1, <1>2
<1>4. c = [j \in 1 .. Len(u) |-> c[j]] BY <1>1, <1>3, SMT
<1>5. u = [j \in 1 .. Len(u) |-> u[j]] BY SMT
<1>6. [j \in 1 .. Len(u) |-> c[j]] = [j \in 1 .. Len(u) |-> u[j]] BY <1>3
<1>7. c = u BY <1>4, <1>5, <1>6
<1> QED BY <1>7 DEF c

\* The sizes of calls one after the other.
LEMMA SizesConcat ==
    ASSUME NEW s \in Seq(Entries), NEW t \in Seq(Entries)
    PROVE  Sizes(s \o t) = Sizes(s) \o Sizes(t)
<1>0. s \o t \in Seq(Entries) BY SMT
<1> DEFINE u == s \o t
<1>1. /\ DOMAIN u = 1 .. Len(s) + Len(t) /\ Len(s) \in Nat /\ Len(t) \in Nat
      /\ \A j \in 1 .. Len(s) + Len(t) : u[j] = IF j <= Len(s) THEN s[j] ELSE t[j - Len(s)]
  BY SMT
<1>2. /\ DOMAIN s = 1 .. Len(s) /\ DOMAIN t = 1 .. Len(t) BY SMT
<1> DEFINE a == Sizes(s)
           b == Sizes(t)
           v == Sizes(u)
<1>3. /\ a \in Seq(Nat) /\ b \in Seq(Nat) /\ v \in Seq(Nat)
      /\ Len(a) = Len(s) /\ Len(b) = Len(t) /\ Len(v) = Len(u)
  BY <1>0, SizesType
<1>4. Len(u) = Len(s) + Len(t) BY SMT
<1>5. ASSUME NEW j \in 1 .. Len(s) + Len(t)
      PROVE  v[j] = IF j <= Len(s) THEN a[j] ELSE b[j - Len(s)]
  <2>1. v[j] = EntrySize(u[j]) BY <1>1 DEF Sizes
  <2>2. CASE j <= Len(s)
    <3>1. j \in 1 .. Len(s) BY <1>1, <2>2, SMT
    <3> QED BY <1>1, <1>2, <2>1, <2>2, <3>1 DEF Sizes
  <2>3. CASE ~(j <= Len(s))
    <3>1. j - Len(s) \in 1 .. Len(t) BY <1>1, <2>3, SMT
    <3> QED BY <1>1, <1>2, <2>1, <2>3, <3>1 DEF Sizes
  <2> QED BY <2>2, <2>3
<1>6. v = a \o b
  <2>1. Len(v) = Len(a) + Len(b) BY <1>3, <1>4
  <2>2. \A j \in 1 .. Len(v) : v[j] = IF j <= Len(a) THEN a[j] ELSE b[j - Len(a)]
    BY <1>3, <1>4, <1>5
  <2> HIDE DEF a, b, v, u
  <2> QED BY <1>3, <2>1, <2>2, ConcatIs
<1> QED BY <1>6

\* What is owed by calls one after the other.
LEMMA OwedConcat ==
    ASSUME NEW s \in Seq(Entries), NEW t \in Seq(Entries)
    PROVE  Owed(s \o t) = Owed(s) + Owed(t)
<1>1. s \o t \in Seq(Entries) BY SMT
<1>2. Sizes(s \o t) = Sizes(s) \o Sizes(t) BY SizesConcat
<1>3. Sizes(s) \in Seq(Nat) /\ Sizes(t) \in Seq(Nat) BY SizesType
<1>4. Total(Sizes(s \o t)) = Total(Sizes(s)) + Total(Sizes(t)) BY <1>2, <1>3, TotalConcat
<1> QED BY <1>1, <1>4, SizesType

\* What is owed by one call.
LEMMA OwedOne ==
    ASSUME NEW e \in Entries
    PROVE  <<e>> \in Seq(Entries) /\ Owed(<<e>>) = EntrySize(e)
<1>1. <<e>> \in Seq(Entries) /\ Len(<<e>>) = 1 /\ <<e>>[1] = e /\ DOMAIN <<e>> = 1..1 BY SMT
<1>2. Sizes(<<e>>) = [j \in 1..1 |-> EntrySize(<<e>>[j])] BY <1>1 DEF Sizes
<1>3. EntrySize(e) \in Nat BY EntrySizeNat
<1> DEFINE n == EntrySize(e)
<1>4. Sizes(<<e>>) = <<n>>
  <2>1. \A j \in 1..1 : j = 1 BY SMT
  <2>2. Sizes(<<e>>) = [j \in 1..1 |-> n] BY <1>1, <1>2, <2>1
  <2> HIDE DEF n
  <2> QED BY <2>2, SMT
<1>5. Total(<<n>>) = n
  <2>1. n \in Nat /\ <<>> \in Seq(Nat) BY <1>3
  <2> HIDE DEF n
  <2> QED BY <2>1, TotalCons
<1> QED BY <1>1, <1>4, <1>5, SizesType

\* Nothing is owed by no calls.
LEMMA OwedNone == Owed(<<>>) = 0
<1>1. Sizes(<<>>) = <<>> BY SMT DEF Sizes
<1>2. Owed(<<>>) = Total(Sizes(<<>>)) BY DEF Owed, Sizes
<1> QED BY <1>1, <1>2, TotalEmpty

\* The size of a value is that of the call that encodes it.
LEMMA ValueSize ==
    ASSUME NEW c \in Coders, NEW v \in ValuesOf(c)
    PROVE  EntrySize(Value(c, v)) = ValueSkip(c, v)
<1>1. c.kind \in Kinds OBVIOUS
<1>2. CASE c.kind = "varint"
  BY <1>2 DEF Value, EntrySize, ValueSkip, Varint
<1>3. CASE c.kind # "varint"
  <2>1. /\ Value(c, v).do = c.kind /\ Value(c, v).coder = c /\ Value(c, v).v = v
    BY <1>3 DEF Value
  <2>2. c.kind \notin {"varint", "body", "fields"} BY <1>1, <1>3 DEF Kinds
  <2> QED BY <2>1, <2>2 DEF EntrySize
<1> QED BY <1>2, <1>3

\* The elements of an array, one by one, have the size predicted for them all.
LEMMA ElementsSize ==
    ASSUME NEW c \in Coders, NEW v \in ValuesOf(c), c.kind = "array"
    PROVE  LET elems == [j \in DOMAIN v |-> Value(c.elem, v[j])]
           IN  elems \in Seq(Entries) /\ Owed(elems) = ContentSkip(c, v)
<1> DEFINE elems == [j \in DOMAIN v |-> Value(c.elem, v[j])]
<1>1. v \in Seq(ValuesOf(c.elem)) /\ c.elem \in Coders OBVIOUS
<1>2. DOMAIN v = 1 .. Len(v) /\ Len(v) \in Nat BY <1>1, SMT
<1>3. \A j \in 1 .. Len(v) : v[j] \in ValuesOf(c.elem) BY <1>1, <1>2, SMT
<1>4. \A j \in 1 .. Len(v) : Value(c.elem, v[j]) \in Entries BY <1>1, <1>3, ValueEntry
<1>5. elems \in Seq(Entries) BY <1>2, <1>4, SMT
<1>6. \A j \in 1 .. Len(v) : EntrySize(elems[j]) = ValueSkip(c.elem, v[j])
  <2>1. \A j \in 1 .. Len(v) : EntrySize(Value(c.elem, v[j])) = ValueSkip(c.elem, v[j])
    BY <1>1, <1>3, ValueSize
  <2> QED BY <1>2, <2>1
<1>7. [j \in DOMAIN elems |-> EntrySize(elems[j])] = [j \in DOMAIN v |-> ValueSkip(c.elem, v[j])]
  <2>1. DOMAIN elems = 1 .. Len(v) BY <1>2
  <2> HIDE DEF elems
  <2> QED BY <1>2, <1>6, <2>1
<1>8. Owed(elems) = ContentSize(c, v)
  <2>1. ContentSize(c, v) = Total([j \in DOMAIN v |-> ValueSkip(c.elem, v[j])])
    BY DEF ContentSize
  <2> HIDE DEF elems
  <2> QED BY <1>7, <2>1 DEF Owed
<1>9. ContentSkip(c, v) = ContentSize(c, v) OBVIOUS
<1> QED BY <1>5, <1>8, <1>9

\* Two by two: a key, then a value.
LEMMA Pairs ==
    ASSUME NEW k \in Nat, NEW n \in Nat, k + 1 <= n
    PROVE  /\ k \in 0..n /\ k + 1 \in 1..n /\ 2 * k \in Nat /\ 2 * k + 1 \in Nat
           /\ 2 * k + 1 \in 1 .. 2 * n /\ (2 * k + 1) + 1 \in 1 .. 2 * n
           /\ (2 * k + 1) % 2 = 1 /\ ((2 * k + 1) + 1) % 2 # 1
           /\ ((2 * k + 1) + 1) \div 2 = k + 1 /\ (2 * k + 1) + 1 = 2 * (k + 1)
<1> HIDE BaseAssumption, SchemaAssumption, EncoderAssumption
<1>1. k \in 0..n /\ k + 1 \in 1..n BY SMT
<1>2. 2 * k \in Nat /\ 2 * k + 1 \in Nat BY SMT
<1>3. 2 * k + 1 \in 1 .. 2 * n /\ (2 * k + 1) + 1 \in 1 .. 2 * n BY SMT
<1>4. (2 * k + 1) + 1 = 2 * (k + 1) BY SMT
<1>5. (2 * k + 1) % 2 = 1 BY SMT
<1>6. ((2 * k + 1) + 1) % 2 # 1 BY SMT
<1>7. ((2 * k + 1) + 1) \div 2 = k + 1 BY SMT
<1> QED BY <1>1, <1>2, <1>3, <1>4, <1>5, <1>6, <1>7

\* The keys and values of a field have the size predicted for the field.
LEMMA FieldValuesSize ==
    ASSUME NEW c \in MessageCoders, NEW msg \in ValuesOf(c), NEW f \in c.fields
    PROVE  Owed(FieldValues(f, msg[f.number])) = FieldSkip(f, msg[f.number])
<1> DEFINE vs == msg[f.number]
           n == Len(vs)
           key == VarintSkip(Key(f))
           s == [j \in DOMAIN vs |-> key + ValueSkip(f.coder, vs[j])]
           t == Sizes(FieldValues(f, vs))
           P == {k \in Nat : k <= n => UpTo(t)[2 * k] = UpTo(s)[k]}
<1>1. vs \in Seq(ValuesOf(f.coder)) /\ f.coder \in Coders BY DEF MessageCoders
<1>2. n \in Nat /\ DOMAIN vs = 1..n
  <2> HIDE DEF vs
  <2> QED BY <1>1, SMT
<1>3. key \in Nat BY KeyNat, VarintSkipNat
<1>4. \A j \in 1..n : vs[j] \in ValuesOf(f.coder)
  <2> HIDE DEF vs
  <2> QED BY <1>1, <1>2, SMT
<1>5. \A j \in 1..n : ValueSkip(f.coder, vs[j]) \in Nat BY <1>1, <1>4, ValueSkipNat
<1>6. \A j \in 1..n : s[j] = key + ValueSkip(f.coder, vs[j]) BY <1>2
<1>16. s \in Seq(Nat) /\ Len(s) = n
  <2>1. \A j \in 1..n : s[j] \in Nat
    <3> TAKE j \in 1..n
    <3> DEFINE b == ValueSkip(f.coder, vs[j])
    <3>1. b \in Nat /\ s[j] = key + b BY <1>5, <1>6
    <3> HIDE DEF s, key, b
    <3> QED BY <1>3, <3>1, SMT
  <2>2. s = [j \in 1..n |-> s[j]] BY <1>2
  <2> HIDE DEF s, n
  <2> HIDE BaseAssumption, SchemaAssumption, EncoderAssumption
  <2> QED BY <1>2, <2>1, <2>2, SMT
<1>7. \A j \in 1 .. 2 * n :
        t[j] = IF j % 2 = 1 THEN key ELSE ValueSkip(f.coder, vs[j \div 2])
  <2>1. FieldValues(f, vs) = [j \in 1 .. 2 * n |-> IF j % 2 = 1 THEN Varint(Key(f))
                                ELSE Value(f.coder, vs[j \div 2])]
    BY DEF FieldValues
  <2> TAKE j \in 1 .. 2 * n
  <2>2. t[j] = EntrySize(IF j % 2 = 1 THEN Varint(Key(f)) ELSE Value(f.coder, vs[j \div 2]))
    BY <2>1 DEF Sizes
  <2>3. CASE j % 2 = 1
    BY <2>2, <2>3 DEF EntrySize, Varint
  <2>4. CASE j % 2 # 1
    <3>1. j \div 2 \in 1..n
      <4> HIDE DEF n
      <4> QED
        <5> HIDE BaseAssumption, SchemaAssumption, EncoderAssumption
        <5> QED BY <1>2, <2>4, SMT
    <3>2. EntrySize(Value(f.coder, vs[j \div 2])) = ValueSkip(f.coder, vs[j \div 2])
      BY <1>1, <1>4, <3>1, ValueSize
    <3> QED BY <2>2, <2>4, <3>2
  <2> QED BY <2>3, <2>4
<1>8. FieldValues(f, vs) \in Seq(Entries) /\ Len(FieldValues(f, vs)) = 2 * n
  <2>1. FieldValues(f, vs) \in Seq(Entries) BY FieldValuesType
  <2>2. DOMAIN FieldValues(f, vs) = 1 .. 2 * n BY DEF FieldValues
  <2>3. 2 * n \in Nat
    <3> HIDE DEF n
    <3> QED BY <1>2, SMT
  <2> DEFINE m == 2 * n
             q == FieldValues(f, vs)
  <2>4. Len(q) = m
    <3>1. q \in Seq(Entries) /\ DOMAIN q = 1..m /\ m \in Nat BY <2>1, <2>2, <2>3
    <3> HIDE DEF m, q
    <3> QED BY <3>1, SMT
  <2> QED BY <2>1, <2>4
<1>9. 0 \in P
  <2>1. 2 * 0 = 0 /\ UpTo(t)[0] = 0 /\ UpTo(s)[0] = 0 BY UpToStep
  <2> HIDE DEF s, t, n
  <2>2. UpTo(t)[2 * 0] = UpTo(s)[0] BY <2>1
  <2> QED BY <2>2
<1>10. ASSUME NEW k \in Nat, k \in P PROVE k + 1 \in P
  <2>1. SUFFICES ASSUME k + 1 <= n PROVE UpTo(t)[2 * (k + 1)] = UpTo(s)[k + 1]
    BY SMT
  <2>2. /\ k \in 0..n /\ k + 1 \in 1..n /\ 2 * k \in Nat /\ 2 * k + 1 \in Nat
        /\ 2 * k + 1 \in 1 .. 2 * n /\ (2 * k + 1) + 1 \in 1 .. 2 * n
        /\ (2 * k + 1) % 2 = 1 /\ ((2 * k + 1) + 1) % 2 # 1
        /\ ((2 * k + 1) + 1) \div 2 = k + 1 /\ (2 * k + 1) + 1 = 2 * (k + 1)
    <3> HIDE DEF n
    <3> QED BY <1>2, <2>1, Pairs
  <2>3. UpTo(t)[2 * k] = UpTo(s)[k] BY <1>10, <2>1, <2>2, SMT
  <2> DEFINE a == UpTo(s)[k]
             b == ValueSkip(f.coder, vs[k + 1])
  <2>4. t[2 * k + 1] = key BY <1>7, <2>2
  <2>5. t[(2 * k + 1) + 1] = b
    <3> HIDE DEF s, t, key, n, vs
    <3> QED
      <4> HIDE BaseAssumption, SchemaAssumption, EncoderAssumption
      <4> QED BY <1>7, <2>2, Zenon
  <2>6. s[k + 1] = key + b BY <1>6, <2>2
  <2>7. UpTo(t)[2 * k + 1] = a + key
    <3> HIDE DEF s, t, key, n
    <3>0. \A j \in Nat : UpTo(t)[j + 1] = UpTo(t)[j] + t[j + 1] BY UpToStep
    <3>1. UpTo(t)[2 * k + 1] = UpTo(t)[2 * k] + t[2 * k + 1] BY <2>2, <3>0, Zenon
    <3> HIDE BaseAssumption, SchemaAssumption, EncoderAssumption
    <3> QED BY <2>3, <2>4, <3>1
  <2>8. UpTo(t)[(2 * k + 1) + 1] = (a + key) + b
    <3> HIDE DEF s, t, key, a, b, n
    <3>0. \A j \in Nat : UpTo(t)[j + 1] = UpTo(t)[j] + t[j + 1] BY UpToStep
    <3>1. UpTo(t)[(2 * k + 1) + 1] = UpTo(t)[2 * k + 1] + t[(2 * k + 1) + 1]
      BY <2>2, <3>0, Zenon
    <3> HIDE BaseAssumption, SchemaAssumption, EncoderAssumption
    <3> QED BY <2>5, <2>7, <3>1
  <2>9. UpTo(s)[k + 1] = a + (key + b)
    <3>1. UpTo(s)[k + 1] = UpTo(s)[k] + s[k + 1]
      <4> HIDE BaseAssumption, SchemaAssumption, EncoderAssumption
      <4> QED BY UpToStep
    <3> HIDE DEF s, t, key, b
    <3> HIDE BaseAssumption, SchemaAssumption, EncoderAssumption
    <3> QED BY <2>6, <3>1
  <2>10. a \in Nat /\ b \in Nat
    <3>1. s \in Seq(Nat) /\ Len(s) = n BY <1>16
    <3>2. \A j \in 0 .. Len(s) : UpTo(s)[j] \in Nat
      <4> HIDE DEF s
      <4> QED BY <3>1, TotalNat
    <3> QED BY <1>5, <2>2, <3>1, <3>2
  <2>11. (a + key) + b = a + (key + b)
    <3> HIDE DEF a, b, key
    <3> QED BY <1>3, <2>10, SMT
  <2> HIDE DEF s, t, a, b, key
  <2> QED BY <2>2, <2>8, <2>9, <2>11
<1>11. \A k \in Nat : k \in P
  <2> HIDE DEF P
  <2> QED BY <1>9, <1>10, Powers!Induct
<1>12. UpTo(t)[2 * n] = UpTo(s)[n]
  <2>1. n <= n
    <3> HIDE DEF n
    <3> QED BY <1>2, SMT
  <2> HIDE DEF n, s, t
  <2> QED BY <1>2, <1>11, <2>1
<1>13. Total(t) = Total(s)
  <2>1. Len(t) = 2 * n BY <1>8, SizesType
  <2>2. Total(t) = UpTo(t)[Len(t)] /\ Total(s) = UpTo(s)[Len(s)] BY UpToStep
  <2> HIDE DEF s, t, n
  <2> QED BY <1>12, <1>16, <2>1, <2>2
<1>14. FieldSkip(f, vs) = Total(s) BY DEF FieldSkip
<1>15. Owed(FieldValues(f, vs)) = Total(t) BY <1>8, SizesType
<1> QED BY <1>13, <1>14, <1>15

\* The loop over all fields of a message writes its content.
LEMMA MessageSize ==
    ASSUME NEW c \in MessageCoders, NEW v \in ValuesOf(c)
    PROVE  Fields(c, v, 1) \in Entries /\ EntrySize(Fields(c, v, 1)) = ContentSkip(c, v)
<1> DEFINE s == FieldSizes(c, v)
           n == Len(c.order)
<1>1. c \in Coders /\ c.kind = "message" BY DEF MessageCoders
<1>2. s \in Seq(Nat) /\ Len(s) = n BY FieldSizesType
<1>3. n \in Nat /\ 1 \in 1 .. n + 1
  <2> HIDE DEF s, n
  <2> QED BY <1>2, SMT
<1>4. SubSeq(s, 1, n) = s
  <2> HIDE DEF s, n
  <2> HIDE BaseAssumption, SchemaAssumption, EncoderAssumption
  <2>1. SubSeq(s, 1, n) \in Seq(Nat) /\ Len(SubSeq(s, 1, n)) = n BY <1>2, <1>3, SMT
  <2>2. \A j \in 1..n : SubSeq(s, 1, n)[j] = s[j] BY <1>2, <1>3, SMT
  <2> DEFINE u == SubSeq(s, 1, n)
  <2> HIDE DEF u
  <2>3. u = [j \in 1..n |-> u[j]] BY <2>1, SMT DEF u
  <2>4. s = [j \in 1..n |-> s[j]] BY <1>2, SMT
  <2>5. [j \in 1..n |-> u[j]] = [j \in 1..n |-> s[j]] BY <2>2 DEF u
  <2>6. u = s BY <2>3, <2>4, <2>5
  <2> QED BY <2>6 DEF u
<1>5. EntrySize(Fields(c, v, 1)) = Total(SubSeq(s, 1, n)) BY DEF EntrySize, Fields
<1>6. ContentSkip(c, v) = Total(s)
  <2>1. ContentSkip(c, v) = ContentSize(c, v) BY <1>1
  <2> QED BY <1>1, <2>1 DEF ContentSize, FieldSizes
<1>7. Fields(c, v, 1) \in Entries BY <1>3, FieldsEntry
<1> QED BY <1>4, <1>5, <1>6, <1>7

\* What follows the length is the content of the same message.
LEMMA BodyFields ==
    ASSUME NEW t \in Entries, t.do = "message"
    PROVE  LET b == [t EXCEPT !.do = "body"]
           IN  b.do = "body" /\ b.coder = t.coder /\ b.v = t.v
<1>1. PICK c \in Coders : c.kind # "varint" /\ t \in EntriesOf(c)
  <2>1. t \notin [do : {"varint"}, n : Nat] OBVIOUS
  <2>2. \A c \in MessageCoders : t \notin MessageEntries(c) BY DEF MessageEntries
  <2> QED BY <2>1, <2>2 DEF Entries
<1> QED BY <1>1 DEF EntriesOf

\* The end of a sequence, from its first number on.
LEMMA EndOf ==
    ASSUME NEW s \in Seq(Nat), NEW k \in 1 .. Len(s)
    PROVE  /\ SubSeq(s, k + 1, Len(s)) \in Seq(Nat)
           /\ Total(SubSeq(s, k, Len(s))) = s[k] + Total(SubSeq(s, k + 1, Len(s)))
<1> DEFINE t == SubSeq(s, k + 1, Len(s))
           u == SubSeq(s, k, Len(s))
           a == <<s[k]>>
<1> HIDE BaseAssumption, SchemaAssumption, EncoderAssumption
<1>1. s[k] \in Nat /\ Len(s) \in Nat /\ k + 1 \in 1 .. Len(s) + 1 BY SMT
<1>2. t \in Seq(Nat) /\ Len(t) = Len(s) - k BY <1>1, SMT
<1>3. u \in Seq(Nat) /\ Len(u) = Len(s) - k + 1 BY <1>1, SMT
<1>4. a \in Seq(Nat) /\ Len(a) = 1 /\ a[1] = s[k] BY <1>1, SMT
<1>5. ASSUME NEW j \in 1 .. Len(u) PROVE u[j] = IF j <= Len(a) THEN a[j] ELSE t[j - Len(a)]
  <2>1. u[j] = s[k + j - 1] BY <1>1, <1>3, SMT
  <2>2. CASE j = 1 BY <1>1, <1>4, <2>1, <2>2, SMT
  <2>3. CASE j # 1
    <3>1. t[j - 1] = s[k + j - 1] BY <1>1, <1>3, <2>3, SMT
    <3>2. ~(j <= Len(a)) /\ j - Len(a) = j - 1 BY <1>4, <2>3, SMT
    <3> QED BY <2>1, <3>1, <3>2
  <2> QED BY <2>2, <2>3
<1>6. Len(u) = Len(a) + Len(t) BY <1>1, <1>2, <1>3, <1>4, SMT
<1>7. u = a \o t
  <2> HIDE DEF u, a, t
  <2> QED BY <1>2, <1>3, <1>4, <1>5, <1>6, ConcatIs
<1>8. Total(u) = s[k] + Total(t)
  <2> HIDE DEF u, t
  <2> QED BY <1>1, <1>2, <1>7, TotalCons
<1> QED BY <1>2, <1>8

\* The innermost call goes before those that wait for it.
LEMMA HeadFirst ==
    ASSUME TypeOK, todo # <<>>
    PROVE  todo = <<now>> \o Tail(todo)
<1> HIDE BaseAssumption, SchemaAssumption, EncoderAssumption
<1>1. todo \in Seq(Entries) BY DEF TypeOK
<1>2. \A s \in Seq(Entries) : s # <<>> => s = <<Head(s)>> \o Tail(s)
  <2> TAKE s \in Seq(Entries)
  <2> HAVE s # <<>>
  <2> DEFINE u == <<Head(s)>> \o Tail(s)
  <2>1. Head(s) \in Entries /\ Tail(s) \in Seq(Entries) BY SMT
  <2>2. u \in Seq(Entries) /\ Len(u) = Len(s) BY <2>1, SMT
  <2>3. \A j \in 1 .. Len(s) : u[j] = s[j] BY <2>1, SMT
  <2>4. u = [j \in 1 .. Len(s) |-> u[j]]
    <3> HIDE DEF u
    <3> QED BY <2>2, SMT
  <2>5. s = [j \in 1 .. Len(s) |-> s[j]] BY SMT
  <2>6. [j \in 1 .. Len(s) |-> u[j]] = [j \in 1 .. Len(s) |-> s[j]] BY <2>3
  <2> HIDE DEF u
  <2>7. s = u BY <2>4, <2>5, <2>6
  <2> QED BY <2>7 DEF u
<1> QED BY <1>1, <1>2 DEF now

\* What is owed is owed by the innermost call and by those that wait for it.
LEMMA OwedHead ==
    ASSUME TypeOK, todo # <<>>
    PROVE  /\ Owed(todo) = EntrySize(now) + Owed(Tail(todo))
           /\ EntrySize(now) \in Nat /\ Owed(Tail(todo)) \in Nat
<1>1. now \in Entries /\ Tail(todo) \in Seq(Entries) BY HeadType
<1>2. todo = <<now>> \o Tail(todo) BY HeadFirst
<1>3. <<now>> \in Seq(Entries) /\ Owed(<<now>>) = EntrySize(now) BY <1>1, OwedOne
<1>4. Owed(<<now>> \o Tail(todo)) = Owed(<<now>>) + Owed(Tail(todo))
  BY <1>1, <1>3, OwedConcat
<1> QED BY <1>1, <1>2, <1>3, <1>4, EntrySizeNat, SizesType

\* A pair is its two parts put together.
LEMMA PairIs ==
    ASSUME NEW e, NEW f
    PROVE  <<e, f>> = <<e>> \o <<f>>
<1> DEFINE S == {e, f}
           p == <<e, f>>
           q == <<e>> \o <<f>>
<1> HIDE BaseAssumption, SchemaAssumption, EncoderAssumption
<1>1. p \in Seq(S) /\ Len(p) = 2 BY SMT
<1>2. <<e>> \in Seq(S) /\ <<f>> \in Seq(S) BY SMT
<1>3. q \in Seq(S) /\ Len(q) = 2 BY <1>2, SMT
<1>4. p[1] = e /\ p[2] = f /\ q[1] = e /\ q[2] = f BY <1>2, SMT
<1>5. \A j \in 1..2 : j = 1 \/ j = 2 BY SMT
<1> HIDE DEF p, q
<1>6. p = [j \in 1..2 |-> p[j]] /\ q = [j \in 1..2 |-> q[j]] BY <1>1, <1>3, SMT
<1>7. [j \in 1..2 |-> p[j]] = [j \in 1..2 |-> q[j]] BY <1>4, <1>5
<1>8. p = q BY <1>6, <1>7
<1> QED BY <1>8 DEF p, q

\* An entry is of the form of the call that makes it.
LEMMA EntryIs ==
    ASSUME NEW e \in Entries
    PROVE  /\ e.do = "varint" => e = Varint(e.n)
           /\ e.do \in {"fixed", "array", "message"} => e = Value(e.coder, e.v)
           /\ e.do = "fields" => e = Fields(e.coder, e.v, e.k)
<1> HIDE BaseAssumption, SchemaAssumption, EncoderAssumption
<1>1. CASE e \in [do : {"varint"}, n : Nat] BY <1>1 DEF Varint
<1>2. ASSUME NEW c \in Coders, c.kind # "varint", e \in EntriesOf(c)
      PROVE  e.do \in {"fixed", "array", "message"} /\ e = Value(e.coder, e.v)
  <2>1. c.kind \in Kinds BY SchemaAssumption
  <2>2. e = [do |-> c.kind, coder |-> c, v |-> e.v] BY <1>2 DEF EntriesOf
  <2>3. e.do = c.kind /\ e.coder = c BY <2>2
  <2>4. e = Value(e.coder, e.v) BY <1>2, <2>2, <2>3 DEF Value
  <2> QED BY <1>2, <2>1, <2>3, <2>4 DEF Kinds
<1>3. ASSUME NEW c \in MessageCoders, e \in MessageEntries(c)
      PROVE  /\ e.do \in {"body", "fields"}
             /\ e.do = "fields" => e = Fields(e.coder, e.v, e.k)
  BY <1>3 DEF MessageEntries, Fields
<1>4. \/ e \in [do : {"varint"}, n : Nat]
      \/ \E c \in Coders : c.kind # "varint" /\ e \in EntriesOf(c)
      \/ \E c \in MessageCoders : e \in MessageEntries(c)
  BY DEF Entries
<1> QED BY <1>1, <1>2, <1>3, <1>4

\* What a loop over fields owes is what the next field owes, and the rest.
LEMMA FieldsSize ==
    ASSUME NEW c \in MessageCoders, NEW msg \in ValuesOf(c), NEW k \in 1 .. Len(c.order),
           NEW f, f = c.order[k]
    PROVE  /\ f \in c.fields /\ Fields(c, msg, k + 1) \in Entries
           /\ FieldValues(f, msg[f.number]) \in Seq(Entries)
           /\ EntrySize(Fields(c, msg, k))
                = Owed(FieldValues(f, msg[f.number])) + EntrySize(Fields(c, msg, k + 1))
<1> HIDE BaseAssumption, SchemaAssumption, EncoderAssumption
<1> DEFINE n == Len(c.order)
           s == FieldSizes(c, msg)
           t == FieldValues(f, msg[f.number])
<1>1. c.order \in Seq(c.fields) BY SchemaAssumption DEF MessageCoders
<1>2. k \in 1..n /\ k + 1 \in 1 .. n + 1 /\ f \in c.fields /\ DOMAIN c.order = 1..n
  <2> DEFINE q == c.order
             S == c.fields
  <2>1. q \in Seq(S) /\ k \in 1 .. Len(q) BY <1>1
  <2> HIDE DEF q, S
  <2>2. q[k] \in S /\ k + 1 \in 1 .. Len(q) + 1 /\ k \in 1 .. Len(q) /\ DOMAIN q = 1 .. Len(q)
    BY <2>1, SMT
  <2> QED BY <2>2 DEF q, S
<1>3. s \in Seq(Nat) /\ Len(s) = n BY FieldSizesType
<1>4. Total(SubSeq(s, k, n)) = s[k] + Total(SubSeq(s, k + 1, n))
  <2>1. s \in Seq(Nat) /\ Len(s) = n /\ k \in 1 .. Len(s) BY <1>2, <1>3
  <2> HIDE DEF s, n
  <2>2. Total(SubSeq(s, k, Len(s))) = s[k] + Total(SubSeq(s, k + 1, Len(s))) BY <2>1, EndOf
  <2> QED BY <2>1, <2>2
<1>5. t \in Seq(Entries) /\ Owed(t) = FieldSkip(f, msg[f.number])
  BY <1>2, FieldValuesType, FieldValuesSize
<1>6. s[k] = FieldSkip(f, msg[f.number]) BY <1>2 DEF FieldSizes
<1>7. Fields(c, msg, k + 1) \in Entries BY <1>2, FieldsEntry
<1>8. /\ EntrySize(Fields(c, msg, k)) = Total(SubSeq(s, k, n))
      /\ EntrySize(Fields(c, msg, k + 1)) = Total(SubSeq(s, k + 1, n))
  BY DEF EntrySize, Fields
<1> QED BY <1>2, <1>4, <1>5, <1>6, <1>7, <1>8

\* An encode that has not failed goes on with calls that owe what the call they
\* replace owed, but for a length that is cut.
LEMMA QuietSizes ==
    ASSUME TypeOK, ~failed,
           EncodeField \/ EndFields \/ EncodeArray \/ EncodeMessage \/ EncodeBody
    PROVE  \/ Owed(todo') = Owed(todo)
           \/ Owed(todo') >= LenWord /\ Owed(todo) >= LenWord
<1>1. todo # <<>>
  BY Zenon DEF EncodeField, EndFields, EncodeArray, EncodeMessage, EncodeBody, Doing
<1>2. now \in Entries /\ Tail(todo) \in Seq(Entries) BY <1>1, HeadType
<1> DEFINE rest == Owed(Tail(todo))
<1>3. Owed(todo) = EntrySize(now) + rest /\ EntrySize(now) \in Nat /\ rest \in Nat
  BY <1>1, OwedHead
<1>4. LenWord \in Nat \ {0} OBVIOUS
<1>5. CASE EncodeField
  <2> DEFINE c == now.coder
             f == c.order[now.k]
             next == Fields(c, now.v, now.k + 1)
             new == FieldValues(f, now.v[f.number])
  <2>1. now.do = "fields" /\ now.k <= Len(c.order) BY <1>5, Zenon DEF EncodeField, Doing, now
  <2>2. c \in MessageCoders /\ now.v \in ValuesOf(c) /\ now.k \in 1 .. Len(c.order) + 1
    BY <1>2, <2>1, EntryType
  <2>3. now = Fields(c, now.v, now.k) BY <1>2, <2>1, EntryIs
  <2>4. now.k \in 1 .. Len(c.order)
    <3> DEFINE k == now.k
               n == Len(c.order)
    <3>1. k \in 1 .. n + 1 /\ k <= n BY <2>1, <2>2
    <3>2. c.order \in Seq(c.fields) BY <2>2 DEF MessageCoders
    <3>3. n \in Nat
      <4>1. \A S, q : q \in Seq(S) => Len(q) \in Nat BY SMT
      <4> QED BY <3>2, <4>1
    <3> HIDE DEF k, n
    <3> QED BY <3>1, <3>3, SMT DEF k, n
  <2>5. /\ next \in Entries /\ new \in Seq(Entries)
        /\ EntrySize(now) = Owed(new) + EntrySize(next)
    <3>1. \A d \in MessageCoders : \A v \in ValuesOf(d) : \A k \in 1 .. Len(d.order) :
            LET g == d.order[k] IN
            /\ Fields(d, v, k + 1) \in Entries /\ FieldValues(g, v[g.number]) \in Seq(Entries)
            /\ EntrySize(Fields(d, v, k))
                 = Owed(FieldValues(g, v[g.number])) + EntrySize(Fields(d, v, k + 1))
      <4> HIDE BaseAssumption, SchemaAssumption, EncoderAssumption
      <4> TAKE d \in MessageCoders
      <4> TAKE v \in ValuesOf(d)
      <4> TAKE k \in 1 .. Len(d.order)
      <4> DEFINE g == d.order[k]
      <4>1. g = d.order[k] OBVIOUS
      <4> HIDE DEF g
      <4>2. /\ Fields(d, v, k + 1) \in Entries /\ FieldValues(g, v[g.number]) \in Seq(Entries)
            /\ EntrySize(Fields(d, v, k))
                 = Owed(FieldValues(g, v[g.number])) + EntrySize(Fields(d, v, k + 1))
        BY <4>1, FieldsSize
      <4> QED BY <4>2 DEF g
    <3>2. /\ next \in Entries /\ new \in Seq(Entries)
          /\ EntrySize(Fields(c, now.v, now.k)) = Owed(new) + EntrySize(next)
      <4> DEFINE d == c
                 v == now.v
                 k == now.k
                 g == d.order[k]
      <4>1. d \in MessageCoders /\ v \in ValuesOf(d) /\ k \in 1 .. Len(d.order) BY <2>2, <2>4
      <4> HIDE BaseAssumption, SchemaAssumption, EncoderAssumption
      <4> HIDE DEF d, v, k
      <4>2. /\ Fields(d, v, k + 1) \in Entries /\ FieldValues(g, v[g.number]) \in Seq(Entries)
            /\ EntrySize(Fields(d, v, k))
                 = Owed(FieldValues(g, v[g.number])) + EntrySize(Fields(d, v, k + 1))
        BY <3>1, <4>1
      <4> QED BY <4>2 DEF d, v, k
    <3> QED BY <2>3, <3>2
  <2>6. <<next>> \in Seq(Entries) /\ Owed(<<next>>) = EntrySize(next) BY <2>5, OwedOne, Zenon
  <2>7. todo' = new \o <<next>> \o Tail(todo) BY <1>5, Zenon DEF EncodeField
  <2> HIDE DEF new, next, f
  <2>8. new \o <<next>> \in Seq(Entries) BY <2>5, <2>6, SMT
  <2>9. Owed(new \o <<next>>) = Owed(new) + Owed(<<next>>) BY <2>5, <2>6, OwedConcat
  <2>10. Owed(todo') = Owed(new \o <<next>>) + rest BY <1>2, <2>7, <2>8, OwedConcat
  <2> QED BY <1>3, <2>5, <2>6, <2>9, <2>10
<1>6. CASE EndFields
  <2> DEFINE n == Len(now.coder.order)
             s == FieldSizes(now.coder, now.v)
  <2>1. now.do = "fields" /\ now.k > n BY <1>6 DEF EndFields, Doing, now
  <2>2. now.coder \in MessageCoders /\ now.v \in ValuesOf(now.coder) /\ now.k \in 1 .. n + 1
    BY <1>2, <2>1, EntryType
  <2>3. s \in Seq(Nat) /\ Len(s) = n BY <2>2, FieldSizesType
  <2>4. EntrySize(now) = Total(SubSeq(s, now.k, n)) BY <2>1 DEF EntrySize
  <2>5. SubSeq(s, now.k, n) = <<>>
    <3> DEFINE k == now.k
    <3>1. n \in Nat /\ k \in 1 .. n + 1 /\ k > n BY <2>1, <2>2, <2>3, SMT
    <3> HIDE DEF s, n, k
    <3>2. SubSeq(s, k, n) = <<>> BY <2>3, <3>1, SMT
    <3> QED BY <3>2 DEF k
  <2>6. EntrySize(now) = 0 BY <2>4, <2>5, TotalEmpty
  <2>7. todo' = Tail(todo) BY <1>6 DEF EndFields
  <2>8. 0 + rest = rest
    <3> HIDE DEF rest
    <3> QED BY <1>3, SMT
  <2> QED BY <1>3, <2>6, <2>7, <2>8
<1>7. ASSUME NEW s \in Seq(Entries), NEW m \in Nat, todo' = s \o Tail(todo),
             EntrySize(now) = m + VarintSkip(m),
             Owed(s) = VarintSkip(m % LenWord) + m
      PROVE  \/ Owed(todo') = Owed(todo)
             \/ Owed(todo') >= LenWord /\ Owed(todo) >= LenWord
  <2>1. Owed(todo') = Owed(s) + rest BY <1>2, <1>7, OwedConcat
  <2>2. m % LenWord \in Nat BY <1>4, SMT
  <2>3. VarintSkip(m) \in Nat /\ VarintSkip(m % LenWord) \in Nat BY <2>2, VarintSkipNat
  <2> HIDE DEF rest
  <2>4. CASE m < LenWord
    <3>1. m % LenWord = m BY <1>4, <2>4, ModSmall
    <3>2. Owed(s) = EntrySize(now) BY <1>7, <2>3, <3>1, SMT
    <3> QED BY <1>3, <2>1, <3>2
  <2>5. CASE ~(m < LenWord)
    <3> DEFINE a == VarintSkip(m)
               b == VarintSkip(m % LenWord)
    <3>1. /\ Owed(todo') = (b + m) + rest /\ Owed(todo) = (m + a) + rest
          /\ a \in Nat /\ b \in Nat
      BY <1>3, <1>7, <2>1, <2>3
    <3> HIDE DEF a, b
    <3>2. (b + m) + rest >= LenWord /\ (m + a) + rest >= LenWord
      <4>1. LenWord \in Nat /\ m \in Nat /\ rest \in Nat BY <1>3, <1>4
      <4> HIDE BaseAssumption, SchemaAssumption, EncoderAssumption
      <4> QED BY <2>5, <3>1, <4>1, SMT
    <3> QED BY <3>1, <3>2
  <2> QED BY <2>4, <2>5
<1>8. CASE EncodeArray
  <2> DEFINE c == now.coder
             m == ContentSkip(c, now.v)
             first == Varint(m % LenWord)
             elems == [j \in DOMAIN now.v |-> Value(c.elem, now.v[j])]
  <2>1. now.do = "array" BY <1>8 DEF EncodeArray, Doing, now
  <2>2. c \in Coders /\ c.kind = "array" /\ now.v \in ValuesOf(c)
    BY <1>2, <2>1, EntryType
  <2>3. m \in Nat BY <2>2
  <2>4. EntrySize(now) = m + VarintSkip(m)
    <3>1. EntrySize(now) = ValueSkip(c, now.v) BY <2>1 DEF EntrySize
    <3> QED BY <2>2, <3>1 DEF ValueSkip
  <2>5. elems \in Seq(Entries) /\ Owed(elems) = m
    <3> DEFINE v == now.v
    <3>1. v \in ValuesOf(c) BY <2>2
    <3> HIDE DEF c
    <3>2. LET es == [j \in DOMAIN v |-> Value(c.elem, v[j])]
          IN  es \in Seq(Entries) /\ Owed(es) = ContentSkip(c, v)
      <4> HIDE DEF v
      <4> QED BY <2>2, <3>1, ElementsSize
    <3> QED BY <3>2
  <2>6. first \in Entries /\ EntrySize(first) = VarintSkip(m % LenWord)
    <3>1. m % LenWord \in Nat
      <4> HIDE DEF m
      <4> QED BY <1>4, <2>3, SMT
    <3> QED BY <3>1, VarintEntry DEF EntrySize, Varint
  <2>7. <<first>> \in Seq(Entries) /\ Owed(<<first>>) = VarintSkip(m % LenWord)
    BY <2>6, OwedOne
  <2>8. todo' = <<first>> \o elems \o Tail(todo) BY <1>8 DEF EncodeArray
  <2> HIDE DEF first, elems, m
  <2>9. <<first>> \o elems \in Seq(Entries) BY <2>5, <2>7, SMT
  <2>10. Owed(<<first>> \o elems) = VarintSkip(m % LenWord) + m
    BY <2>5, <2>7, OwedConcat
  <2> QED BY <1>7, <2>3, <2>4, <2>8, <2>9, <2>10
<1>9. CASE EncodeMessage
  <2> DEFINE c == now.coder
             m == ContentSkip(c, now.v)
             first == Varint(m % LenWord)
             second == [now EXCEPT !.do = "body"]
  <2>1. now.do = "message" BY <1>9 DEF EncodeMessage, Doing, now
  <2>2. c \in Coders /\ c.kind = "message" /\ now.v \in ValuesOf(c)
    BY <1>2, <2>1, EntryType
  <2>3. m \in Nat BY <2>2
  <2>4. EntrySize(now) = m + VarintSkip(m)
    <3>1. EntrySize(now) = ValueSkip(c, now.v) BY <2>1 DEF EntrySize
    <3> QED BY <2>2, <3>1 DEF ValueSkip
  <2>5. first \in Entries /\ EntrySize(first) = VarintSkip(m % LenWord)
    <3>1. m % LenWord \in Nat
      <4> HIDE DEF m
      <4> QED BY <1>4, <2>3, SMT
    <3> QED BY <3>1, VarintEntry DEF EntrySize, Varint
  <2>6. second \in Entries /\ EntrySize(second) = m
    <3>1. second \in Entries BY <1>2, <2>1, BodyEntry
    <3>2. second.do = "body" /\ second.coder = c /\ second.v = now.v
      BY <1>2, <2>1, BodyFields
    <3> QED BY <3>1, <3>2 DEF EntrySize
  <2>7. todo' = <<first, second>> \o Tail(todo) BY <1>9 DEF EncodeMessage
  <2>8. /\ <<first>> \in Seq(Entries) /\ Owed(<<first>>) = VarintSkip(m % LenWord)
        /\ <<second>> \in Seq(Entries) /\ Owed(<<second>>) = m
    BY <2>5, <2>6, OwedOne
  <2> HIDE DEF first, second, m
  <2>9. <<first, second>> = <<first>> \o <<second>> /\ <<first, second>> \in Seq(Entries)
    <3>1. <<first, second>> = <<first>> \o <<second>> BY PairIs
    <3>2. <<first, second>> \in Seq(Entries) BY <2>5, <2>6, SMT
    <3> QED BY <3>1, <3>2
  <2>10. Owed(<<first, second>>) = VarintSkip(m % LenWord) + m
    BY <2>8, <2>9, OwedConcat
  <2> QED BY <1>7, <2>3, <2>4, <2>7, <2>9, <2>10
<1>10. CASE EncodeBody
  <2> DEFINE first == Fields(now.coder, now.v, 1)
  <2>1. now.do = "body" BY <1>10 DEF EncodeBody, Doing, now
  <2>2. now.coder \in MessageCoders /\ now.v \in ValuesOf(now.coder)
    BY <1>2, <2>1, EntryType
  <2>3. EntrySize(now) = ContentSkip(now.coder, now.v) BY <2>1 DEF EntrySize
  <2>4. first \in Entries /\ EntrySize(first) = ContentSkip(now.coder, now.v)
    BY <2>2, MessageSize
  <2>5. todo' = <<first>> \o Tail(todo) BY <1>10 DEF EncodeBody
  <2> HIDE DEF first
  <2>6. <<first>> \in Seq(Entries) /\ Owed(<<first>>) = EntrySize(first) BY <2>4, OwedOne
  <2>7. Owed(todo') = Owed(<<first>>) + rest BY <1>2, <2>5, <2>6, OwedConcat
  <2> QED BY <1>3, <2>3, <2>4, <2>6, <2>7
<1> QED BY <1>5, <1>6, <1>8, <1>9, <1>10, Zenon

\* What is written is no longer owed.
LEMMA WriteSizes ==
    ASSUME TypeOK, FailedInv, WriteGroup \/ WriteFixed
    PROVE  pos' + Owed(todo') = pos + Owed(todo)
<1>1. todo # <<>> BY DEF WriteGroup, WriteFixed, Doing
<1>2. now \in Entries /\ Tail(todo) \in Seq(Entries) BY <1>1, HeadType
<1> DEFINE rest == Owed(Tail(todo))
<1>3. Owed(todo) = EntrySize(now) + rest /\ EntrySize(now) \in Nat /\ rest \in Nat
  BY <1>1, OwedHead
<1>4. pos \in Nat BY SMT DEF TypeOK
<1>5. CASE WriteGroup
  <2> DEFINE n == now.n \div Base
  <2>1. now.do = "varint" /\ pos' = pos + 1
    BY <1>5 DEF WriteGroup, Doing, now
  <2>2. now.n \in Nat /\ n \in Nat BY <1>2, <2>1, EntryType, DivMod
  <2>3. EntrySize(now) = IF n = 0 THEN 1 ELSE VarintSkip(n) + 1
    BY <2>1, <2>2, VarintSkipStep DEF EntrySize
  <2>4. todo' = (IF n = 0 THEN <<>> ELSE <<Varint(n)>>) \o Tail(todo)
    BY <1>5 DEF WriteGroup
  <2> HIDE DEF n
  <2>5. CASE n = 0
    <3>1. todo' = Tail(todo)
      <4>1. \A s \in Seq(Entries) : <<>> \o s = s
        <5> HIDE BaseAssumption, SchemaAssumption, EncoderAssumption
        <5> QED BY SMT
      <4> QED BY <1>2, <2>4, <2>5, <4>1
    <3>2. EntrySize(now) = 1 /\ Owed(todo') = rest BY <2>3, <2>5, <3>1
    <3> HIDE DEF rest
    <3>3. Owed(todo) = 1 + rest BY <1>3, <3>2
    <3>4. (pos + 1) + rest = pos + (1 + rest) BY <1>3, <1>4, SMT
    <3> QED BY <2>1, <3>2, <3>3, <3>4
  <2>6. CASE n # 0
    <3> DEFINE a == VarintSkip(n)
    <3>1. Varint(n) \in Entries /\ EntrySize(Varint(n)) = a
      BY <2>2, VarintEntry DEF EntrySize, Varint
    <3>2. <<Varint(n)>> \in Seq(Entries) /\ Owed(<<Varint(n)>>) = a BY <3>1, OwedOne
    <3>3. Owed(todo') = a + rest
      BY <1>2, <2>4, <2>6, <3>2, OwedConcat
    <3>4. Owed(todo) = (a + 1) + rest /\ a \in Nat BY <1>3, <2>2, <2>3, <2>6, VarintSkipNat
    <3> HIDE DEF a, rest
    <3>5. (pos + 1) + (a + rest) = pos + ((a + 1) + rest)
      <4> HIDE BaseAssumption, SchemaAssumption, EncoderAssumption
      <4> QED BY <1>3, <1>4, <3>4, SMT
    <3> QED BY <2>1, <3>3, <3>4, <3>5
  <2> QED BY <2>5, <2>6
<1>6. CASE WriteFixed
  <2> DEFINE n == now.coder.size
  <2>1. now.do = "fixed" /\ pos' = pos + n /\ todo' = Tail(todo)
    BY <1>6 DEF WriteFixed, Doing, now
  <2>2. now.coder \in Coders /\ now.coder.kind = "fixed" BY <1>2, <2>1, EntryType
  <2>3. EntrySize(now) = n BY <2>1, <2>2 DEF EntrySize, ValueSkip
  <2> HIDE DEF n, rest
  <2>4. Owed(todo') = rest BY <2>1 DEF rest
  <2>5. (pos + n) + rest = pos + (n + rest) BY <1>3, <1>4, <2>3, SMT
  <2> QED BY <1>3, <2>1, <2>3, <2>4, <2>5
<1> QED BY <1>5, <1>6

\* A check fails only if what is owed does not fit in what is left of the span.
LEMMA TooShort ==
    ASSUME TypeOK, FailedInv, SizesAddUp, predicted \in Nat, Fail \/ Overrun
    PROVE  limit < start + predicted
<1>1. todo # <<>> /\ status = "run" /\ now.do \in {"varint", "fixed"}
  BY DEF Fail, Overrun, Doing, now
<1>2. now \in Entries BY <1>1, HeadType
<1>3. ~failed BY <1>1 DEF FailedInv
<1> DEFINE rest == Owed(Tail(todo))
           n == EntrySize(now)
           size == predicted
<1>4. Owed(todo) = n + rest /\ n \in Nat \ {0} /\ rest \in Nat
  BY <1>1, <1>2, OwedHead, EntrySizeNat
<1>5. /\ pos \in 0..limit /\ limit \in 0..Capacity /\ start \in 0..pos
      /\ LenWord \in Nat /\ Capacity \in 0 .. LenWord - 1
  BY DEF TypeOK
<1>6. n > limit - pos
  <2>1. CASE now.do = "varint"
    <3>1. pos = limit \/ pos >= limit
      BY <1>1, <2>1 DEF Fail, Overrun, Doing, CheckIterator, now
    <3> HIDE DEF n
    <3> HIDE BaseAssumption, SchemaAssumption, EncoderAssumption
    <3> QED BY <1>4, <1>5, <3>1, SMT
  <2>2. CASE now.do = "fixed"
    <3>1. now.coder \in Coders /\ now.coder.kind = "fixed" BY <1>2, <2>2, EntryType
    <3>2. n = now.coder.size BY <2>2, <3>1 DEF EntrySize, ValueSkip
    <3>3. ~(limit - pos >= now.coder.size) \/ now.coder.size > limit - pos
      BY <1>1, <2>2 DEF Fail, Overrun, Doing, CheckBytesSpan, now
    <3> HIDE DEF n
    <3> HIDE BaseAssumption, SchemaAssumption, EncoderAssumption
    <3> QED BY <1>4, <1>5, <3>2, <3>3, SMT
  <2> QED BY <1>1, <2>1, <2>2
<1>7. \/ pos + (n + rest) = start + size
      \/ pos + (n + rest) >= LenWord /\ start + size >= LenWord
  BY <1>1, <1>3, <1>4 DEF SizesAddUp
<1>8. size \in Nat OBVIOUS
<1> HIDE DEF n, rest, size
<1>9. limit < start + size
  <2> HIDE BaseAssumption, SchemaAssumption, EncoderAssumption
  <2> QED BY <1>4, <1>5, <1>6, <1>7, <1>8, SMT
<1> QED BY <1>9 DEF size

\* The messages sent are values of Root, and a call has one.
SentOK == sent \in Seq(ValuesOf(Root)) /\ (status # "idle" => sent # <<>>)

SizeInv == SentOK /\ SizesAddUp /\ EncodeSkipExact

\* The last of a sequence and one more element is that element.
LEMMA OneMore ==
    ASSUME NEW S, NEW s \in Seq(S), NEW e \in S
    PROVE  Append(s, e) \in Seq(S) /\ Append(s, e) # <<>> /\ Append(s, e)[Len(Append(s, e))] = e
<1> HIDE BaseAssumption, SchemaAssumption, EncoderAssumption
<1> QED BY SMT

\* A message has a predicted size.
LEMMA PredictedNat ==
    ASSUME SentOK, sent # <<>>
    PROVE  predicted \in Nat
<1>1. sent[Len(sent)] \in ValuesOf(Root)
  <2>1. \A S, s : s \in Seq(S) /\ s # <<>> => s[Len(s)] \in S
    <3> HIDE BaseAssumption, SchemaAssumption, EncoderAssumption
    <3> QED BY SMT
  <2> QED BY <2>1 DEF SentOK
<1>2. Root \in Coders /\ Root.kind = "message" OBVIOUS
<1> QED BY <1>1, <1>2 DEF predicted

\* The inductive invariant: at every point what has been written and what is
\* owed add up to the predicted size.
THEOREM SizesInductive == Spec => []SizeInv
<1>1. Init => SizeInv
  <2> SUFFICES ASSUME Init PROVE SizeInv OBVIOUS
  <2>1. sent \in Seq(ValuesOf(Root)) BY SMT DEF Init
  <2> QED BY <2>1 DEF Init, SizeInv, SentOK, SizesAddUp, EncodeSkipExact
<1>2. Inv /\ SizeInv /\ [Next]_vars => SizeInv'
  <2> SUFFICES ASSUME Inv, SizeInv, [Next]_vars PROVE SizeInv' OBVIOUS
  <2>0. /\ TypeOK /\ FailedInv /\ SentOK /\ SizesAddUp /\ EncodeSkipExact
        /\ pos \in Nat /\ start \in Nat /\ limit \in Nat /\ LenWord \in Nat
        /\ pos <= limit /\ limit < LenWord
    <3>1. TypeOK /\ FailedInv /\ SentOK /\ SizesAddUp /\ EncodeSkipExact
      BY DEF Inv, SizeInv
    <3>2. pos \in 0..limit /\ limit \in 0..Capacity /\ start \in 0..pos BY <3>1 DEF TypeOK
    <3>3. Capacity \in 0 .. LenWord - 1 /\ LenWord \in Nat OBVIOUS
    <3> QED BY <3>1, <3>2, <3>3, SMT
  <2> DEFINE owed == Owed(todo)
             size == predicted
  <2>1. ASSUME NEW msg \in ValuesOf(Root), CallEncode(msg) PROVE SizeInv'
    <3>1. /\ sent' = Append(sent, msg) /\ start' = pos /\ pos' = pos /\ status' = "run"
          /\ todo' = <<Fields(Root, msg, 1)>> /\ failed' = failed
      BY <2>1, Zenon DEF CallEncode
    <3>2. SentOK' /\ predicted' = ContentSkip(Root, msg)
      <4>1. sent \in Seq(ValuesOf(Root)) BY <2>0 DEF SentOK
      <4>2. msg \in ValuesOf(Root) OBVIOUS
      <4>3. /\ Append(sent, msg) \in Seq(ValuesOf(Root)) /\ Append(sent, msg) # <<>>
            /\ Append(sent, msg)[Len(Append(sent, msg))] = msg
        <5> DEFINE S == ValuesOf(Root)
        <5>1. sent \in Seq(S) /\ msg \in S BY <4>1, <4>2
        <5> HIDE DEF S
        <5>2. /\ Append(sent, msg) \in Seq(S) /\ Append(sent, msg) # <<>>
              /\ Append(sent, msg)[Len(Append(sent, msg))] = msg
          BY <5>1, OneMore
        <5> QED BY <5>2 DEF S
      <4>4. SentOK' BY <3>1, <4>3, Zenon DEF SentOK
      <4>5. predicted' = ContentSkip(Root, msg)
        <5>1. sent'[Len(sent')] = msg BY <3>1, <4>3
        <5> QED BY <5>1 DEF predicted
      <4> QED BY <4>4, <4>5
    <3>3. Owed(todo') = ContentSkip(Root, msg)
      <4>1. Root \in MessageCoders BY DEF MessageCoders
      <4> QED BY <3>1, <4>1, MessageSize, OwedOne
    <3>4. ~failed BY <2>0, <2>1 DEF CallEncode, FailedInv
    <3>5. SizesAddUp' BY <3>1, <3>2, <3>3, <3>4 DEF SizesAddUp
    <3> QED BY <3>1, <3>2, <3>5 DEF SizeInv, EncodeSkipExact
  <2>2. CASE EncodeField \/ EndFields \/ EncodeArray \/ EncodeMessage \/ EncodeBody
    <3>1. status = "run" /\ UNCHANGED <<buf, mode, limit, start, pos, failed, status, sent>>
      BY <2>2, Zenon DEF EncodeField, EndFields, EncodeArray, EncodeMessage, EncodeBody, Doing
    <3>2. predicted' = predicted /\ SentOK' BY <2>0, <3>1 DEF predicted, SentOK
    <3>3. EncodeSkipExact' BY <3>1 DEF EncodeSkipExact
    <3>4. SizesAddUp'
      <4>1. CASE failed BY <2>0, <3>1, <3>2, <4>1 DEF SizesAddUp
      <4>2. CASE ~failed
        <5>1. \/ Owed(todo') = Owed(todo)
              \/ Owed(todo') >= LenWord /\ Owed(todo) >= LenWord
          BY <2>0, <2>2, <4>2, QuietSizes
        <5>2. \/ pos + Owed(todo) = start + predicted
              \/ pos + Owed(todo) >= LenWord /\ start + predicted >= LenWord
          BY <2>0, <3>1, <4>2 DEF SizesAddUp
        <5>3. /\ Owed(todo) \in Nat /\ predicted \in Nat
          BY <2>0, <3>1, PredictedNat, SizesType DEF TypeOK, SentOK
        <5>4. Owed(todo') \in Nat
          BY <2>0, <2>2, QuietSteps, SizesType
        <5> DEFINE next == Owed(todo')
        <5>5. \/ pos + next = start + size
              \/ pos + next >= LenWord /\ start + size >= LenWord
          <6>1. /\ \/ next = owed
                   \/ next >= LenWord /\ owed >= LenWord
                /\ \/ pos + owed = start + size
                   \/ pos + owed >= LenWord /\ start + size >= LenWord
                /\ next \in Nat /\ owed \in Nat /\ size \in Nat
            BY <5>1, <5>2, <5>3, <5>4
          <6> HIDE DEF next, owed, size
          <6> HIDE BaseAssumption, SchemaAssumption, EncoderAssumption
          <6> QED BY <2>0, <6>1, SMT
        <5> QED BY <3>1, <3>2, <4>2, <5>5 DEF SizesAddUp
      <4> QED BY <4>1, <4>2
    <3> QED BY <3>2, <3>3, <3>4, Zenon DEF SizeInv
  <2>3. CASE Return
    <3>1. /\ status = "run" /\ todo = <<>> /\ status' = IF failed THEN "fail" ELSE "ok"
          /\ UNCHANGED <<buf, mode, limit, start, pos, todo, failed, sent>>
      BY <2>3 DEF Return
    <3>2. predicted' = predicted /\ SentOK' BY <2>0, <3>1 DEF predicted, SentOK
    <3>3. SizesAddUp' BY <3>1 DEF SizesAddUp
    <3>4. EncodeSkipExact'
      <4>1. CASE failed BY <2>0, <3>1, <3>2, <4>1 DEF SizesAddUp, EncodeSkipExact
      <4>2. CASE ~failed
        <5>1. owed = 0 BY <3>1, OwedNone
        <5>2. size \in Nat BY <2>0, <3>1, PredictedNat DEF SentOK
        <5>3. \/ pos + owed = start + size
              \/ pos + owed >= LenWord /\ start + size >= LenWord
          BY <2>0, <3>1, <4>2 DEF SizesAddUp
        <5>4. pos = start + size
          <6> HIDE DEF owed, size
          <6> QED BY <2>0, <5>1, <5>2, <5>3, SMT
        <5> QED BY <3>1, <3>2, <4>2, <5>4 DEF EncodeSkipExact
      <4> QED BY <4>1, <4>2
    <3> QED BY <3>2, <3>3, <3>4 DEF SizeInv
  <2>4. CASE WriteGroup \/ WriteFixed
    <3>1. /\ status = "run" /\ todo # <<>>
          /\ UNCHANGED <<mode, limit, start, failed, status, sent>>
      BY <2>4 DEF WriteGroup, WriteFixed, Doing
    <3>2. predicted' = predicted /\ SentOK' BY <2>0, <3>1 DEF predicted, SentOK
    <3>3. EncodeSkipExact' BY <3>1 DEF EncodeSkipExact
    <3>4. pos' + Owed(todo') = pos + Owed(todo) BY <2>0, <2>4, WriteSizes
    <3>5. ~failed BY <2>0, <2>4, WriteGroupType, WriteFixedType
    <3>6. SizesAddUp'
      <4>1. \/ pos + Owed(todo) = start + predicted
            \/ pos + Owed(todo) >= LenWord /\ start + predicted >= LenWord
        BY <2>0, <3>1, <3>5 DEF SizesAddUp
      <4> QED BY <3>1, <3>2, <3>4, <3>5, <4>1 DEF SizesAddUp
    <3> QED BY <3>2, <3>3, <3>6 DEF SizeInv
  <2>5. CASE Fail \/ Overrun
    <3>1. status = "run" /\ sent' = sent /\ UNCHANGED <<limit, start, pos>>
      BY <2>5 DEF Fail, Overrun, Doing
    <3>2. predicted' = predicted /\ predicted \in Nat
      BY <2>0, <3>1, PredictedNat DEF predicted, SentOK
    <3>3. limit < start + predicted BY <2>0, <2>5, <3>1, <3>2, TooShort
    <3>4. \/ status' = "run" /\ failed'
          \/ status' = "ub"
      BY <2>5, <3>1 DEF Fail, Overrun
    <3>5. SizesAddUp' /\ EncodeSkipExact' BY <3>1, <3>2, <3>3, <3>4
      DEF SizesAddUp, EncodeSkipExact
    <3>6. SentOK' BY <2>0, <3>1, <3>4 DEF SentOK
    <3> QED BY <3>5, <3>6 DEF SizeInv
  <2>6. CASE UNCHANGED vars
    BY <2>0, <2>6 DEF vars, SizeInv, SentOK, SizesAddUp, EncodeSkipExact, predicted
  <2> QED BY <2>1, <2>2, <2>3, <2>4, <2>5, <2>6 DEF Next, Step
<1> QED BY <1>1, <1>2, Inductive, PTL DEF Spec

\* encode_skip predicts the size of every encoding to the byte, for every schema
\* and every value, and encode fits in a span exactly when it is that long.
THEOREM PredictedSizesAreExact == Spec => []EncodeSkipExact
<1>1. SizeInv => EncodeSkipExact BY DEF SizeInv
<1> QED BY <1>1, SizesInductive, PTL

\* At every point of an encode what has been written and what is still to come
\* add up to the prediction.
THEOREM SizesAlwaysAddUp == Spec => []SizesAddUp
<1>1. SizeInv => SizesAddUp BY DEF SizeInv
<1> QED BY <1>1, SizesInductive, PTL

-----------------------------------------------------------------------------
(***************************************************************************)
(* What is written is well-formed and says the message. The grammar finds  *)
(* in a window a first item and then what the rest of the window has, so   *)
(* the lemmas are about bytes still to be written: if those of the rest    *)
(* say what they are to say, so do they with the piece before them.        *)
(***************************************************************************)

HIDE BaseAssumption
HIDE SchemaAssumption
HIDE EncoderAssumption

\* A set that has n, and with every number up to n the one before, has zero.
LEMMA Backward ==
    ASSUME NEW n \in Nat, NEW P, n \in P,
           \A k \in Nat : k + 1 <= n /\ k + 1 \in P => k \in P
    PROVE  0 \in P
<1> DEFINE Q == {k \in Nat : k <= n => n - k \in P}
<1>1. 0 \in Q
  <2>1. n - 0 = n BY SMT
  <2> QED BY <2>1
<1>2. ASSUME NEW k \in Nat, k \in Q PROVE k + 1 \in Q
  <2>1. SUFFICES ASSUME k + 1 <= n PROVE n - (k + 1) \in P BY SMT
  <2>2. n - (k + 1) \in Nat /\ (n - (k + 1)) + 1 = n - k /\ n - k <= n /\ k <= n BY <2>1, SMT
  <2>3. n - k \in P BY <1>2, <2>2
  <2> QED BY <2>2, <2>3
<1>3. n \in Q
  <2> HIDE DEF Q
  <2> QED BY <1>1, <1>2, Powers!Induct
<1>4. n <= n /\ n - n = 0 BY SMT
<1> QED BY <1>3, <1>4

\* A sequence, element by element.
LEMMA Prefixes ==
    ASSUME NEW S, NEW s \in Seq(S)
    PROVE  /\ SubSeq(s, 1, 0) = <<>> /\ SubSeq(s, 1, Len(s)) = s /\ Len(s) \in Nat
           /\ \A j \in Nat : j + 1 <= Len(s) =>
                s[j + 1] \in S /\ Append(SubSeq(s, 1, j), s[j + 1]) = SubSeq(s, 1, j + 1)
<1>0. Len(s) \in Nat BY SMT
<1>1. SubSeq(s, 1, 0) = <<>> BY SMT
<1>2. SubSeq(s, 1, Len(s)) = s
  <2> DEFINE u == SubSeq(s, 1, Len(s))
  <2>1. u \in Seq(S) /\ Len(u) = Len(s) BY <1>0, SMT
  <2>2. \A j \in 1 .. Len(s) : u[j] = s[j] BY <1>0, SMT
  <2>3. s = [j \in 1 .. Len(s) |-> s[j]] BY <1>0, SMT
  <2> HIDE DEF u
  <2>4. u = [j \in 1 .. Len(s) |-> u[j]] BY <2>1, SMT
  <2>5. [j \in 1 .. Len(s) |-> u[j]] = [j \in 1 .. Len(s) |-> s[j]] BY <2>2
  <2> QED BY <2>3, <2>4, <2>5 DEF u
<1>3. ASSUME NEW j \in Nat, j + 1 <= Len(s)
      PROVE  s[j + 1] \in S /\ Append(SubSeq(s, 1, j), s[j + 1]) = SubSeq(s, 1, j + 1)
  <2> DEFINE p == SubSeq(s, 1, j)
             e == s[j + 1]
             u == Append(p, e)
             w == SubSeq(s, 1, j + 1)
  <2>1. e \in S BY <1>0, <1>3, SMT
  <2>2. p \in Seq(S) /\ Len(p) = j /\ \A i \in 1..j : p[i] = s[i] BY <1>0, <1>3, SMT
  <2>3. w \in Seq(S) /\ Len(w) = j + 1 /\ \A i \in 1 .. j + 1 : w[i] = s[i] BY <1>0, <1>3, SMT
  <2> HIDE DEF p, e, w
  <2>4. u \in Seq(S) /\ Len(u) = j + 1 /\ u[j + 1] = e /\ \A i \in 1..j : u[i] = p[i]
    BY <2>1, <2>2, SMT
  <2> HIDE DEF u
  <2>5. \A i \in 1 .. j + 1 : i \in 1..j \/ i = j + 1 BY SMT
  <2>6. \A i \in 1 .. j + 1 : u[i] = w[i] BY <2>2, <2>3, <2>4, <2>5 DEF e
  <2>7. u = [i \in 1 .. j + 1 |-> u[i]] BY <2>4, SMT
  <2>8. w = [i \in 1 .. j + 1 |-> w[i]] BY <2>3, SMT
  <2>9. [i \in 1 .. j + 1 |-> u[i]] = [i \in 1 .. j + 1 |-> w[i]] BY <2>6
  <2>10. u = w BY <2>7, <2>8, <2>9
  <2> QED BY <2>1, <2>10 DEF u, w, p, e
<1> QED BY <1>0, <1>1, <1>2, <1>3

-----------------------------------------------------------------------------
(* The bytes of a number.                                                  *)

\* The bytes of a number are as many as it has groups: the last one of several
\* is not zero.
LEMMA SkipWeight ==
    ASSUME NEW n \in Nat, n # 0
    PROVE  Weight[VarintSkip(n) - 1] <= n
<1> DEFINE Bad == {m \in Nat \ {0} : ~(Weight[VarintSkip(m) - 1] <= m)}
<1>1. SUFFICES ASSUME Bad # {} PROVE FALSE OBVIOUS
<1>2. PICK j \in Bad : \A l \in Bad : j <= l
  <2>1. Bad \in SUBSET Nat OBVIOUS
  <2> HIDE DEF Bad
  <2> QED BY <1>1, <2>1, Powers!SmallestNat
<1>0. j \in Nat /\ j # 0 OBVIOUS
<1> HIDE DEF Bad
<1>3. /\ j \div Base \in Nat /\ j % Base \in 0 .. Base - 1
      /\ j = Base * (j \div Base) + (j % Base)
  BY <1>0, DivMod, Zenon
<1> DEFINE q == j \div Base
           r == j % Base
<1>6. q \in Nat /\ r \in Nat /\ j = Base * q + r
  <2>1. r \in 0 .. Base - 1 BY <1>3
  <2>2. r \in Nat
    <3> HIDE DEF r
    <3> QED BY <2>1, BaseAssumption, SMT
  <2> QED BY <1>3, <2>2, Zenon
<1> HIDE DEF r
<1>4. CASE q = 0
  <2>1. VarintSkip(j) = 1 BY <1>0, <1>4, VarintSkipStep
  <2>2. Weight[VarintSkip(j) - 1] = 1 BY <2>1, WeightStep
  <2>3. 1 <= j BY <1>0, SMT
  <2> QED BY <2>2, <2>3 DEF Bad
<1>5. CASE q # 0
  <2>1. VarintSkip(j) = VarintSkip(q) + 1 BY <1>0, <1>5, VarintSkipStep
  <2>2. q < j BY <1>0, <1>5, DivLess
  <2>3. Weight[VarintSkip(q) - 1] <= q
    <3>1. ~(j <= q)
      <4> HIDE DEF q
      <4> QED BY <1>0, <1>6, <2>2, SMT
    <3> QED BY <1>2, <1>5, <1>6, <3>1 DEF Bad
  <2> DEFINE k == VarintSkip(q) - 1
  <2>4. k \in Nat /\ VarintSkip(j) - 1 = k + 1
    <3>1. VarintSkip(q) \in Nat \ {0} BY <1>6, VarintSkipNat
    <3> HIDE DEF q
    <3> QED BY <2>1, <3>1, SMT
  <2>5. Weight[k + 1] = Weight[k] * Base /\ Weight[k] \in Nat BY <2>4, WeightStep, WeightNat
  <2> DEFINE w == Weight[k]
  <2>6. w <= q /\ w \in Nat /\ Base \in Nat BY <2>3, <2>5, BaseAssumption
  <2>7. w * Base <= j
    <3>1. \A x, y, z, b \in Nat : x <= y => x * b <= b * y + z
      <4> HIDE BaseAssumption
      <4> QED BY SMT
    <3> HIDE DEF w, q
    <3> QED BY <1>6, <2>6, <3>1
  <2>8. Weight[VarintSkip(j) - 1] = w * Base BY <2>4, <2>5
  <2> HIDE DEF w
  <2> QED BY <2>7, <2>8 DEF Bad
<1> QED BY <1>4, <1>5

\* The k bytes from lo on are the groups of n, the last without the 0x80.
Groups(b, lo, k, n) ==
    /\ k \in Nat \ {0}
    /\ \A j \in lo .. lo + k - 2 : Continues(b[j])
    /\ ~Continues(b[lo + k - 1])
    /\ NumberFrom(b, lo)[k] = n

\* The byte that is written for a group goes before the bytes of the others.
LEMMA GroupsFirst ==
    ASSUME NEW n \in Nat, NEW lo \in Nat, NEW b, b[lo] = GroupByte(n),
           \A j \in lo .. lo + VarintSkip(n) - 1 : b[j] \in Byte,
           n \div Base # 0 => Groups(b, lo + 1, VarintSkip(n \div Base), n \div Base)
    PROVE  Groups(b, lo, VarintSkip(n), n)
<1> DEFINE q == n \div Base
           r == n % Base
<1>1. q \in Nat /\ r \in 0 .. Base - 1 /\ n = Base * q + r BY DivMod
<1>2. b[lo] % Base = r /\ (Continues(b[lo]) <=> q # 0) BY GroupByteRead
<1>3. lo + 1 \in Nat BY SMT
<1>4. CASE q = 0
  <2>1. VarintSkip(n) = 1 BY <1>4, VarintSkipStep
  <2>2. /\ 1 \in Nat \ {0} /\ lo .. lo + 1 - 2 = {} /\ lo + 1 - 1 = lo BY SMT
  <2>3. ~Continues(b[lo]) BY <1>2, <1>4
  <2>4. n = r
    <3> HIDE DEF q, r
    <3> QED BY <1>1, <1>4, BaseAssumption, SMT
  <2>5. NumberFrom(b, lo)[0 + 1] = NumberFrom(b, lo)[0] + (b[lo + 0] % Base) * Weight[0]
        /\ NumberFrom(b, lo)[0] = 0 /\ Weight[0] = 1
    BY NumberFromStep, WeightStep
  <2>6. NumberFrom(b, lo)[1] = n
    <3>1. lo + 0 = lo /\ 0 + 1 = 1 /\ 0 + r * 1 = r
      <4> HIDE DEF r
      <4> QED BY <1>1, SMT
    <3> QED BY <1>2, <2>4, <2>5, <3>1
  <2> QED BY <2>1, <2>2, <2>3, <2>6 DEF Groups
<1>5. CASE q # 0
  <2> DEFINE k == VarintSkip(q)
  <2>1. VarintSkip(n) = k + 1 BY <1>5, VarintSkipStep
  <2>2. Groups(b, lo + 1, k, q) BY <1>5
  <2>3. k \in Nat \ {0} BY <2>2 DEF Groups
  <2> HIDE DEF k
  <2>4. \A j \in lo .. lo + (k + 1) - 2 : Continues(b[j])
    <3> TAKE j \in lo .. lo + (k + 1) - 2
    <3>1. CASE j = lo BY <1>2, <1>5, <3>1
    <3>2. CASE j # lo
      <4>1. j \in lo + 1 .. (lo + 1) + k - 2 BY <2>3, <3>2, SMT
      <4> QED BY <2>2, <4>1 DEF Groups
    <3> QED BY <3>1, <3>2
  <2>5. ~Continues(b[lo + (k + 1) - 1])
    <3>1. lo + (k + 1) - 1 = (lo + 1) + k - 1 BY <2>3, SMT
    <3> QED BY <2>2, <3>1 DEF Groups
  <2>6. NumberFrom(b, lo)[k + 1] = n
    <3>1. \A j \in lo .. lo + k : j \in lo .. lo + (k + 1) - 1 BY <2>3, SMT
    <3>2. \A j \in lo .. lo + k : b[j] \in Byte BY <2>1, <3>1
    <3>3. NumberFrom(b, lo)[k + 1] = (b[lo] % Base) + Base * NumberFrom(b, lo + 1)[k]
      BY <2>3, <3>2, NumberFromNext
    <3>4. NumberFrom(b, lo + 1)[k] = q BY <2>2 DEF Groups
    <3>5. r + Base * q = Base * q + r
      <4> HIDE DEF q, r
      <4> QED BY <1>1, BaseAssumption, SMT
    <3> QED BY <1>1, <1>2, <3>3, <3>4, <3>5
  <2>7. k + 1 \in Nat \ {0} BY <2>3, SMT
  <2> QED BY <2>1, <2>4, <2>5, <2>6, <2>7 DEF Groups
<1> QED BY <1>4, <1>5

\* They are read as the number, in any window they lie in.
LEMMA GroupsFound ==
    ASSUME NEW n \in Nat, NEW lo \in Nat, NEW b, NEW hi \in Nat,
           Groups(b, lo, VarintSkip(n), n), lo + VarintSkip(n) <= hi,
           NEW word \in Nat, NEW shift \in Nat, n < word, word <= shift, shift > 1
    PROVE  Found(lo + VarintSkip(n), n) \in VarintAt(b, lo, hi, word, shift)
<1> DEFINE k == VarintSkip(n)
           l == lo + k - 1
<1>1. k \in Nat \ {0} BY DEF Groups
<1>2. l \in Nat /\ l \in lo .. hi - 1 /\ l - 1 = lo + k - 2
      /\ l + 1 = lo + k /\ l - lo + 1 = k /\ l - lo = k - 1
  <2>1. lo + k <= hi OBVIOUS
  <2> HIDE DEF k
  <2> HIDE BaseAssumption, SchemaAssumption, EncoderAssumption
  <2>2. l \in Nat /\ l \in lo .. hi - 1 BY <1>1, <2>1, SMT
  <2>3. l - 1 = lo + k - 2 /\ l + 1 = lo + k /\ l - lo + 1 = k /\ l - lo = k - 1
    BY <1>1, SMT
  <2> QED BY <2>2, <2>3
<1>3. l \in LastOfVarint(b, lo, hi) BY <1>2 DEF LastOfVarint, Groups
<1>4. Weight[l - lo] < shift
  <2>1. CASE n = 0
    <3>1. n \div Base = 0
      <4>1. n \div Base \in Nat /\ n \div Base <= n BY DivMod
      <4> QED BY <2>1, <4>1, SMT
    <3>2. k = 1 BY <3>1, VarintSkipStep
    <3>3. Weight[k - 1] = 1 BY <3>2, WeightStep
    <3> QED BY <1>2, <3>3, SMT
  <2>2. CASE n # 0
    <3> DEFINE w == Weight[k - 1]
    <3>1. w <= n BY <2>2, SkipWeight
    <3>2. w \in Nat
      <4>1. k - 1 \in Nat
        <5> HIDE DEF k
        <5> QED BY <1>1, SMT
      <4> QED BY <4>1, WeightNat
    <3>3. w < shift
      <4> HIDE DEF w
      <4> QED BY <3>1, <3>2, SMT
    <3> QED BY <1>2, <3>3
  <2> QED BY <2>1, <2>2
<1>5. NumberFrom(b, lo)[l - lo + 1] % word = n
  <2>1. NumberFrom(b, lo)[l - lo + 1] = n BY <1>2 DEF Groups
  <2>2. n % word = n BY ModSmall
  <2> QED BY <2>1, <2>2
<1>6. l \in {j \in LastOfVarint(b, lo, hi) : Weight[j - lo] < shift} BY <1>3, <1>4
<1> HIDE DEF k, l
<1>7. Found(l + 1, NumberFrom(b, lo)[l - lo + 1] % word) \in VarintAt(b, lo, hi, word, shift)
  BY <1>6 DEF VarintAt
<1> QED BY <1>2, <1>5, <1>7 DEF k

-----------------------------------------------------------------------------
(* What an entry says once it is written.                                  *)

\* The coders that a reader may have for c.
VersionsOf(c) == {d \in Coders : <<c, d>> \in Versions}

\* The numbers of the fields before the k-th, and a message with only those
\* fields of v.
Before(c, k) == {c.order[j].number : j \in 1 .. k - 1}

Partial(c, v, numbers) == [m \in NumbersOf(c) |-> IF m \in numbers THEN v[m] ELSE <<>>]

\* The bytes lo .. hi-1 make u a v: in front of whatever completes v, they
\* complete u.
Adds(room, b, c, u, v, lo, hi) ==
    \A end \in hi..room : \A w :
        Completes(b, room, c, v, w, hi, end) => Completes(b, room, c, u, w, lo, end)

\* In a buffer of `room' bytes, those from lo on, as many as the entry is to
\* write, are what it is to say to any reader, if it is that of a varint or a
\* value.
SaysValue(room, b, e, lo) ==
    LET hi == lo + EntrySize(e)
    IN  IF e.do = "varint" THEN Groups(b, lo, VarintSkip(e.n), e.n)
        ELSE \A d \in VersionsOf(e.coder) : \A end \in hi .. room :
                Found(hi, View(e.coder, d, e.v)) \in ValueAt(b, Contents(b, room), d, lo, end)

\* And so one entry after the other, from p on.
LaysOut(room, b, s, p) ==
    \A j \in DOMAIN s : SaysValue(room, b, s[j], p + UpTo(Sizes(s))[j - 1])

\* What any entry is to say.  A field is said to any message of its type, as
\* the reader may have one by then; and each key and value lies where those
\* before it end.
Says(room, b, e, lo) ==
    LET hi == lo + EntrySize(e)
    IN  CASE e.do = "body" ->
                \A d \in VersionsOf(e.coder) :
                    Completes(b, room, d, EmptyMessage(d), View(e.coder, d, e.v), lo, hi)
          [] e.do = "fields" ->
                /\ \A d \in VersionsOf(e.coder) : \A u : IsMessage(d, u) =>
                     Adds(room, b, d,
                          MergeMessages(d, u, Partial(d, View(e.coder, d, e.v), Before(e.coder, e.k))),
                          MergeMessages(d, u, View(e.coder, d, e.v)), lo, hi)
                /\ LaysOut(room, b, Pieces(e.coder, e.v, e.k), lo)
          [] OTHER -> SaysValue(room, b, e, lo)

\* And so one entry after the other, from p on.
Spells(room, b, s, p) == \A j \in DOMAIN s : Says(room, b, s[j], p + UpTo(Sizes(s))[j - 1])

\* The buffers of a reader are no longer than those of the writer.
LEMMA RoomNat ==
    ASSUME NEW room \in 0 .. Capacity
    PROVE  /\ room \in Nat /\ Capacity \in Nat /\ LenWord \in Nat
           /\ room <= Capacity /\ room < LenWord
<1>1. Capacity \in 0 .. LenWord - 1 /\ LenWord \in Nat BY EncoderAssumption, SchemaAssumption
<1> QED BY <1>1, SMT

\* One piece after the other makes of u what both make of it.
LEMMA AddsNext ==
    ASSUME NEW room, NEW b, NEW c, NEW u, NEW v, NEW w,
           NEW lo \in Nat, NEW mid \in Nat, NEW hi \in Nat, mid <= hi,
           Adds(room, b, c, u, v, lo, mid), Adds(room, b, c, v, w, mid, hi), room \in Nat
    PROVE  Adds(room, b, c, u, w, lo, hi)
<1> SUFFICES ASSUME NEW end \in hi..room, NEW x, Completes(b, room, c, w, x, hi, end)
             PROVE  Completes(b, room, c, u, x, lo, end)
  BY DEF Adds
<1>1. end \in mid..room BY SMT
<1>2. Completes(b, room, c, v, x, mid, end) BY DEF Adds
<1> QED BY <1>1, <1>2 DEF Adds

\* What the bytes make of u is what they complete.
LEMMA AddsCompletes ==
    ASSUME NEW room \in Nat, NEW b \in Spans(room), NEW c \in LoopCoders, NEW u, NEW v,
           NEW lo \in Nat, NEW hi \in 0..room, Adds(room, b, c, u, v, lo, hi)
    PROVE  Completes(b, room, c, u, v, lo, hi)
<1>1. Completes(b, room, c, v, v, hi, hi) BY NothingMore
<1>2. hi \in hi..room BY SMT
<1> QED BY <1>1, <1>2 DEF Adds

\* Entries that are put together say what each part says.
LEMMA SpellsConcat ==
    ASSUME NEW room, NEW b, NEW s \in Seq(Entries), NEW t \in Seq(Entries), NEW p \in Nat
    PROVE  Spells(room, b, s \o t, p) <=> Spells(room, b, s, p) /\ Spells(room, b, t, p + Owed(s))
<1> DEFINE u == s \o t
           U == UpTo(Sizes(u))
           V == UpTo(Sizes(s))
           W == UpTo(Sizes(t))
           n == Len(s)
           m == Len(t)
           owed == Owed(s)
<1>1. /\ u \in Seq(Entries) /\ n \in Nat /\ m \in Nat
      /\ DOMAIN u = 1 .. n + m /\ DOMAIN s = 1..n /\ DOMAIN t = 1..m
      /\ \A j \in 1..n : u[j] = s[j]
      /\ \A j \in 1..m : u[n + j] = t[j]
  BY SMT
<1>2. Sizes(u) = Sizes(s) \o Sizes(t) BY SizesConcat
<1>3. /\ Sizes(s) \in Seq(Nat) /\ Len(Sizes(s)) = n /\ owed = Total(Sizes(s)) /\ owed \in Nat
      /\ Sizes(t) \in Seq(Nat) /\ Len(Sizes(t)) = m
  BY SizesType
<1>4. /\ \A k \in 0..n : U[k] = V[k]
      /\ \A k \in 0..m : U[n + k] = owed + W[k]
  <2> DEFINE x == Sizes(s)
             y == Sizes(t)
  <2>1. x \in Seq(Nat) /\ y \in Seq(Nat) /\ Len(x) = n /\ Len(y) = m /\ owed = Total(x)
    BY <1>3
  <2>2. Sizes(u) = x \o y BY <1>2
  <2> HIDE DEF x, y, n, m, u, owed
  <2>3. /\ \A k \in 0 .. Len(x) : UpTo(x \o y)[k] = UpTo(x)[k]
        /\ \A k \in 0 .. Len(y) : UpTo(x \o y)[Len(x) + k] = Total(x) + UpTo(y)[k]
    BY <2>1, UpToConcat
  <2>4. /\ \A k \in 0..n : UpTo(Sizes(u))[k] = UpTo(x)[k]
        /\ \A k \in 0..m : UpTo(Sizes(u))[n + k] = owed + UpTo(y)[k]
    BY <2>1, <2>2, <2>3
  <2> QED BY <2>4 DEF x, y
<1>5. \A k \in 0..m : W[k] \in Nat BY <1>3, TotalNat
<1> HIDE DEF u, U, V, W, n, m, owed
<1>6. \A j \in 1..n : p + U[j - 1] = p + V[j - 1]
  <2> TAKE j \in 1..n
  <2>1. j - 1 \in 0..n BY <1>1, SMT
  <2> QED BY <1>4, <2>1
<1>7. \A j \in 1..m : p + U[(n + j) - 1] = (p + owed) + W[j - 1]
  <2> TAKE j \in 1..m
  <2>1. j - 1 \in 0..m /\ (n + j) - 1 = n + (j - 1) BY <1>1, SMT
  <2> DEFINE x == W[j - 1]
  <2>2. U[(n + j) - 1] = owed + x /\ x \in Nat BY <1>4, <1>5, <2>1
  <2> HIDE DEF x
  <2>3. p + (owed + x) = (p + owed) + x BY <1>3, <2>2, SMT
  <2> QED BY <2>2, <2>3 DEF x
<1>8. \A j \in 1 .. n + m : j \in 1..n \/ \E i \in 1..m : j = n + i
  <2> TAKE j \in 1 .. n + m
  <2>1. CASE j <= n BY <1>1, <2>1, SMT
  <2>2. CASE ~(j <= n)
    <3>1. j - n \in 1..m /\ j = n + (j - n) BY <1>1, <2>2, SMT
    <3> QED BY <3>1
  <2> QED BY <2>1, <2>2
<1>9. (\A j \in 1..n : j \in 1 .. n + m) /\ (\A j \in 1..m : n + j \in 1 .. n + m)
  BY <1>1, SMT
<1>10. Spells(room, b, u, p) <=> \A j \in 1 .. n + m : Says(room, b, u[j], p + U[j - 1])
  BY <1>1 DEF Spells, U
<1>11. Spells(room, b, s, p) <=> \A j \in 1..n : Says(room, b, s[j], p + V[j - 1])
  BY <1>1 DEF Spells, V
<1>12. Spells(room, b, t, p + owed) <=> \A j \in 1..m : Says(room, b, t[j], (p + owed) + W[j - 1])
  BY <1>1 DEF Spells, W
<1>13. \A j \in 1..n : Says(room, b, u[j], p + U[j - 1]) <=> Says(room, b, s[j], p + V[j - 1])
  BY <1>1, <1>6
<1>14. \A j \in 1..m : Says(room, b, u[n + j], p + U[(n + j) - 1])
                          <=> Says(room, b, t[j], (p + owed) + W[j - 1])
  BY <1>1, <1>7
<1>15. Spells(room, b, u, p) <=> Spells(room, b, s, p) /\ Spells(room, b, t, p + owed)
  BY <1>8, <1>9, <1>10, <1>11, <1>12, <1>13, <1>14
<1> QED BY <1>15 DEF u, owed

\* One entry says what it is to say.
LEMMA SpellsOne ==
    ASSUME NEW room, NEW b, NEW e \in Entries, NEW p \in Nat
    PROVE  Spells(room, b, <<e>>, p) <=> Says(room, b, e, p)
<1> DEFINE s == <<e>>
<1>1. DOMAIN s = {1} /\ s[1] = e BY SMT
<1>2. UpTo(Sizes(s))[0] = 0 BY UpToStep
<1>3. 1 - 1 = 0 /\ p + 0 = p BY SMT
<1>4. Spells(room, b, s, p) <=> Says(room, b, s[1], p + UpTo(Sizes(s))[1 - 1])
  <2> HIDE DEF s
  <2> QED BY <1>1 DEF Spells
<1>5. p + UpTo(Sizes(s))[1 - 1] = p
  <2> HIDE DEF s
  <2> QED BY <1>2, <1>3
<1> HIDE DEF s
<1>6. Spells(room, b, s, p) <=> Says(room, b, e, p) BY <1>1, <1>4, <1>5
<1> QED BY <1>6 DEF s

\* No entry has nothing to say.
LEMMA SpellsNone == ASSUME NEW room, NEW b, NEW p PROVE Spells(room, b, <<>>, p)
<1>1. DOMAIN <<>> = {} BY SMT
<1> QED BY <1>1 DEF Spells

-----------------------------------------------------------------------------
(* The keys and values of a message, in the order they are written.        *)

PieceStep(given, f, k) ==
    IF k > Len(given.coder.order) THEN <<>>
    ELSE FieldValues(given.coder.order[k], given.msg[given.coder.order[k].number]) \o f[k + 1]

PieceLists == INSTANCE Recursion WITH Step <- PieceStep

PiecesFrom(c, msg) == CHOOSE f : PieceLists!Solves([coder |-> c, msg |-> msg], Nat, f)

\* The pieces of the k-th field, and then those of the fields after it.
LEMMA PiecesStep ==
    ASSUME NEW c, NEW msg, Len(c.order) \in Nat
    PROVE  \A k \in Nat : Pieces(c, msg, k) =
             IF k > Len(c.order) THEN <<>>
             ELSE FieldValues(c.order[k], msg[c.order[k].number]) \o Pieces(c, msg, k + 1)
<1> DEFINE n == Len(c.order)
           left == [k \in Nat |-> IF k > n THEN 0 ELSE (n + 1) - k]
           g == [coder |-> c, msg |-> msg]
           from == PiecesFrom(c, msg)
<1>1. \A k : Pieces(c, msg, k) = from[k]
  BY DEF Pieces, PiecesFrom, PieceLists!Solves, PieceStep
<1>2. left \in [Nat -> Nat] /\ \A k \in Nat : ~(k > n) => k + 1 \in Nat /\ left[k + 1] < left[k]
  <2>1. n \in Nat OBVIOUS
  <2> HIDE DEF n
  <2> QED BY <2>1, SMT
<1>3. PieceLists!Descends(g, Nat, left)
  <2>1. g.coder = c /\ Len(g.coder.order) = n OBVIOUS
  <2> HIDE DEF left, g, n
  <2> QED BY <1>2, <2>1 DEF PieceLists!Descends, PieceStep
<1>4. \E f : PieceLists!Solves(g, Nat, f)
  <2> HIDE DEF left, g
  <2> QED BY <1>2, <1>3, PieceLists!RecursiveFunction
<1>5. PieceLists!Solves(g, Nat, from)
  <2>1. from = CHOOSE f : PieceLists!Solves(g, Nat, f) BY DEF PiecesFrom
  <2> HIDE DEF g, from
  <2> QED BY <1>4, <2>1
<1>6. \A k \in Nat : from[k] =
        IF k > Len(c.order) THEN <<>>
        ELSE FieldValues(c.order[k], msg[c.order[k].number]) \o from[k + 1]
  <2> HIDE DEF from
  <2> QED BY <1>5 DEF PieceLists!Solves, PieceStep
<1> HIDE DEF from
<1> QED BY <1>1, <1>6

\* Calls that write a key and a value of a field, time and again.
Paired(c, s) ==
    /\ s \in Seq(Entries)
    /\ \E n \in Nat :
        /\ Len(s) = 2 * n
        /\ \A j \in 0 .. n - 1 : \E f \in c.fields : \E v \in ValuesOf(f.coder) :
            s[2 * j + 1] = Varint(Key(f)) /\ s[2 * j + 2] = Value(f.coder, v)

\* The calls for a field are such.
LEMMA FieldIsPaired ==
    ASSUME NEW c \in MessageCoders, NEW msg \in ValuesOf(c), NEW f \in c.fields
    PROVE  Paired(c, FieldValues(f, msg[f.number]))
<1> DEFINE vs == msg[f.number]
           n == Len(vs)
           S == ValuesOf(f.coder)
           t == FieldValues(f, vs)
<1>1. vs \in Seq(S) BY EncoderAssumption DEF MessageCoders
<1>2. n \in Nat /\ \A j \in 1..n : vs[j] \in S
  <2> HIDE DEF vs, S
  <2> QED BY <1>1, SMT
<1>3. t \in Seq(Entries) BY FieldValuesType
<1>4. t = [j \in 1 .. 2 * n |-> IF j % 2 = 1 THEN Varint(Key(f)) ELSE Value(f.coder, vs[j \div 2])]
  BY DEF FieldValues
<1>5. Len(t) = 2 * n
  <2> DEFINE l == 2 * n
  <2>1. DOMAIN t = 1..l BY <1>4
  <2>2. l \in Nat
    <3> HIDE DEF n
    <3> QED BY <1>2, SMT
  <2> HIDE DEF l, t
  <2>3. Len(t) = l BY <1>3, <2>1, <2>2, SMT
  <2> QED BY <2>3 DEF l
<1>6. ASSUME NEW j \in 0 .. n - 1
      PROVE  t[2 * j + 1] = Varint(Key(f)) /\ t[2 * j + 2] = Value(f.coder, vs[j + 1])
  <2>1. /\ 2 * j + 1 \in 1 .. 2 * n /\ 2 * j + 2 \in 1 .. 2 * n
        /\ (2 * j + 1) % 2 = 1 /\ (2 * j + 2) % 2 # 1 /\ (2 * j + 2) \div 2 = j + 1
    <3>1. j \in Nat /\ j + 1 <= n
      <4> HIDE DEF n
      <4> QED BY <1>2, SMT
    <3>2. 2 * j + 2 = (2 * j + 1) + 1 BY <3>1, SMT
    <3> HIDE DEF n
    <3> QED BY <1>2, <3>1, <3>2, Pairs
  <2> HIDE DEF n, vs, t
  <2>2. t[2 * j + 1] = Varint(Key(f)) BY <1>4, <2>1, Zenon
  <2>3. t[2 * j + 2] = Value(f.coder, vs[(2 * j + 2) \div 2]) BY <1>4, <2>1, Zenon
  <2> QED BY <2>1, <2>2, <2>3
<1>7. \A j \in 0 .. n - 1 : vs[j + 1] \in S
  <2> HIDE DEF n, S, vs
  <2> QED BY <1>2, SMT
<1> HIDE DEF t, n
<1> QED BY <1>2, <1>3, <1>5, <1>6, <1>7 DEF Paired, t

\* Such calls after such calls are such, and so are none.
LEMMA PairedConcat ==
    ASSUME NEW c, NEW s, NEW t, Paired(c, s), Paired(c, t)
    PROVE  Paired(c, s \o t)
<1> DEFINE u == s \o t
           Pair(a, b) == \E f \in c.fields : \E v \in ValuesOf(f.coder) :
                            a = Varint(Key(f)) /\ b = Value(f.coder, v)
<1>1. PICK n \in Nat : /\ Len(s) = 2 * n
                       /\ \A j \in 0 .. n - 1 : Pair(s[2 * j + 1], s[2 * j + 2])
  BY DEF Paired
<1>2. PICK m \in Nat : /\ Len(t) = 2 * m
                       /\ \A j \in 0 .. m - 1 : Pair(t[2 * j + 1], t[2 * j + 2])
  BY DEF Paired
<1>3. s \in Seq(Entries) /\ t \in Seq(Entries) BY DEF Paired
<1>4. /\ u \in Seq(Entries) /\ Len(u) = 2 * (n + m)
      /\ \A j \in 1 .. 2 * n : u[j] = s[j]
      /\ \A j \in 1 .. 2 * m : u[2 * n + j] = t[j]
  BY <1>1, <1>2, <1>3, SMT
<1> HIDE DEF u, Pair
<1>5. ASSUME NEW j \in 0 .. (n + m) - 1 PROVE Pair(u[2 * j + 1], u[2 * j + 2])
  <2>1. CASE j < n
    <3>1. j \in 0 .. n - 1 /\ 2 * j + 1 \in 1 .. 2 * n /\ 2 * j + 2 \in 1 .. 2 * n BY <2>1, SMT
    <3> QED BY <1>1, <1>4, <3>1
  <2>2. CASE ~(j < n)
    <3> DEFINE i == j - n
    <3>1. /\ i \in 0 .. m - 1 /\ 2 * i + 1 \in 1 .. 2 * m /\ 2 * i + 2 \in 1 .. 2 * m
          /\ 2 * n + (2 * i + 1) = 2 * j + 1 /\ 2 * n + (2 * i + 2) = 2 * j + 2
      BY <2>2, SMT
    <3> HIDE DEF i
    <3>2. u[2 * j + 1] = t[2 * i + 1] /\ u[2 * j + 2] = t[2 * i + 2]
      <4>1. u[2 * n + (2 * i + 1)] = t[2 * i + 1] /\ u[2 * n + (2 * i + 2)] = t[2 * i + 2]
        BY <1>4, <3>1
      <4> QED BY <3>1, <4>1
    <3> QED BY <1>2, <3>1, <3>2
  <2> QED BY <2>1, <2>2
<1>6. n + m \in Nat BY SMT
<1> QED BY <1>4, <1>5, <1>6 DEF Paired, u, Pair

\* No calls at all.
LEMMA NoneIsPaired == ASSUME NEW c PROVE Paired(c, <<>>)
<1>1. <<>> \in Seq(Entries) /\ Len(<<>>) = 2 * 0 /\ 0 .. 0 - 1 = {} /\ 0 \in Nat BY SMT
<1> QED BY <1>1 DEF Paired

\* The pieces of a message from a field on are such, and they owe what the loop
\* over those fields owes.
LEMMA PiecesType ==
    ASSUME NEW c \in MessageCoders, NEW msg \in ValuesOf(c), NEW k \in 1 .. Len(c.order) + 1
    PROVE  /\ Paired(c, Pieces(c, msg, k))
           /\ Owed(Pieces(c, msg, k)) = EntrySize(Fields(c, msg, k))
<1> DEFINE n == Len(c.order)
           Right(j) == /\ Paired(c, Pieces(c, msg, j))
                       /\ Owed(Pieces(c, msg, j)) = EntrySize(Fields(c, msg, j))
           P == {i \in Nat : i <= n => Right((n + 1) - i)}
<1>1. c.order \in Seq(c.fields) /\ n \in Nat /\ \A j \in 1..n : c.order[j] \in c.fields
  <2>1. c.order \in Seq(c.fields) BY SchemaAssumption DEF MessageCoders
  <2>2. \A S, s : s \in Seq(S) => Len(s) \in Nat /\ \A j \in 1 .. Len(s) : s[j] \in S BY SMT
  <2> QED BY <2>1, <2>2
<1>2. Right(n + 1)
  <2>1. n + 1 > n /\ n + 1 \in Nat
    <3> HIDE DEF n
    <3> QED BY <1>1, SMT
  <2>2. Pieces(c, msg, n + 1) = <<>> BY <1>1, <2>1, PiecesStep
  <2>3. EntrySize(Fields(c, msg, n + 1)) = 0
    <3> DEFINE s == FieldSizes(c, msg)
    <3>1. s \in Seq(Nat) /\ Len(s) = n BY FieldSizesType
    <3>2. EntrySize(Fields(c, msg, n + 1)) = Total(SubSeq(s, n + 1, n)) BY DEF EntrySize, Fields
    <3>3. SubSeq(s, n + 1, n) = <<>>
      <4> HIDE DEF s, n
      <4> QED BY <1>1, <3>1, SMT
    <3> QED BY <3>2, <3>3, TotalEmpty
  <2> QED BY <2>2, <2>3, NoneIsPaired, OwedNone
<1>3. ASSUME NEW j \in 1..n, Right(j + 1) PROVE Right(j)
  <2> DEFINE f == c.order[j]
             t == FieldValues(f, msg[f.number])
             s == Pieces(c, msg, j + 1)
  <2>1. f \in c.fields /\ ~(j > n) /\ j \in Nat
    <3> HIDE DEF n
    <3> QED BY <1>1, SMT
  <2>2. Pieces(c, msg, j) = t \o s BY <1>1, <2>1, PiecesStep
  <2>3. Paired(c, t) BY <2>1, FieldIsPaired
  <2>4. /\ t \in Seq(Entries)
        /\ EntrySize(Fields(c, msg, j)) = Owed(t) + EntrySize(Fields(c, msg, j + 1))
    BY FieldsSize
  <2>5. Paired(c, s) /\ s \in Seq(Entries) /\ Owed(s) = EntrySize(Fields(c, msg, j + 1))
    BY <1>3 DEF Paired
  <2> HIDE DEF s, t
  <2>6. Paired(c, t \o s) /\ Owed(t \o s) = Owed(t) + Owed(s)
    BY <2>3, <2>4, <2>5, PairedConcat, OwedConcat
  <2> QED BY <2>2, <2>4, <2>5, <2>6
<1> HIDE DEF Right
<1>4. 0 \in P
  <2> HIDE DEF n
  <2>1. (n + 1) - 0 = n + 1 BY <1>1, SMT
  <2> QED BY <1>2, <2>1
<1>5. ASSUME NEW i \in Nat, i \in P PROVE i + 1 \in P
  <2> HIDE DEF n
  <2>1. SUFFICES ASSUME i + 1 <= n PROVE Right((n + 1) - (i + 1)) BY SMT
  <2> DEFINE j == (n + 1) - (i + 1)
  <2>2. j \in 1..n /\ j + 1 = (n + 1) - i /\ i <= n BY <1>1, <2>1, SMT
  <2> HIDE DEF j
  <2>3. Right(j + 1) BY <1>5, <2>2
  <2>4. Right(j) BY <1>3, <2>2, <2>3 DEF n
  <2> QED BY <2>4 DEF j
<1>6. \A i \in Nat : i \in P
  <2> HIDE DEF P
  <2> QED BY <1>4, <1>5, Powers!Induct
<1>7. Right(k)
  <2> DEFINE i == (n + 1) - k
  <2>1. i \in Nat /\ i <= n /\ (n + 1) - i = k
    <3> HIDE DEF n
    <3>1. k \in 1 .. n + 1 BY DEF n
    <3> QED BY <1>1, <3>1, SMT
  <2>2. i \in P BY <1>6, <2>1
  <2> HIDE DEF i, n
  <2> QED BY <2>1, <2>2
<1> QED BY <1>7 DEF Right

\* Keys and values say what varints and values say.
LEMMA PairedSays ==
    ASSUME NEW c \in MessageCoders, NEW s, Paired(c, s), NEW j \in DOMAIN s
    PROVE  \A room, b, lo : Says(room, b, s[j], lo) <=> SaysValue(room, b, s[j], lo)
<1>1. PICK n \in Nat :
        /\ Len(s) = 2 * n
        /\ \A i \in 0 .. n - 1 : \E f \in c.fields : \E v \in ValuesOf(f.coder) :
            s[2 * i + 1] = Varint(Key(f)) /\ s[2 * i + 2] = Value(f.coder, v)
  BY DEF Paired
<1>2. j \in 1 .. 2 * n
  <2>1. s \in Seq(Entries) BY DEF Paired
  <2> QED BY <1>1, <2>1, SMT
<1>3. \E i \in 0 .. n - 1 : j = 2 * i + 1 \/ j = 2 * i + 2
  <2>1. CASE j % 2 = 1
    <3>1. (j - 1) \div 2 \in 0 .. n - 1 /\ j = 2 * ((j - 1) \div 2) + 1 BY <1>2, <2>1, SMT
    <3> QED BY <3>1
  <2>2. CASE j % 2 # 1
    <3>1. (j - 2) \div 2 \in 0 .. n - 1 /\ j = 2 * ((j - 2) \div 2) + 2 BY <1>2, <2>2, SMT
    <3> QED BY <3>1
  <2> QED BY <2>1, <2>2
<1>4. PICK f \in c.fields :
        \E v \in ValuesOf(f.coder) : s[j] = Varint(Key(f)) \/ s[j] = Value(f.coder, v)
  BY <1>1, <1>3
<1>5. f.coder.kind \in Kinds
  BY SchemaAssumption DEF MessageCoders
<1>6. s[j].do # "body" /\ s[j].do # "fields"
  BY <1>4, <1>5 DEF Varint, Value, Kinds
<1> QED BY <1>6 DEF Says

\* So they are laid out if they say what they are to say.
LEMMA PairedSpells ==
    ASSUME NEW c \in MessageCoders, NEW s, Paired(c, s), NEW room, NEW b, NEW p
    PROVE  Spells(room, b, s, p) <=> LaysOut(room, b, s, p)
BY PairedSays DEF Spells, LaysOut

\* Those that are put together are laid out one after the other.
LEMMA LaysConcat ==
    ASSUME NEW c \in MessageCoders, NEW s, Paired(c, s), NEW t, Paired(c, t),
           NEW room, NEW b, NEW p \in Nat
    PROVE  LaysOut(room, b, s \o t, p)
             <=> LaysOut(room, b, s, p) /\ LaysOut(room, b, t, p + Owed(s))
<1>1. s \in Seq(Entries) /\ t \in Seq(Entries) BY DEF Paired
<1> DEFINE u == s \o t
<1>2. Paired(c, u) BY PairedConcat
<1>3. Spells(room, b, u, p) <=> Spells(room, b, s, p) /\ Spells(room, b, t, p + Owed(s))
  BY <1>1, SpellsConcat
<1> HIDE DEF u
<1>4. LaysOut(room, b, u, p) <=> LaysOut(room, b, s, p) /\ LaysOut(room, b, t, p + Owed(s))
  BY <1>2, <1>3, PairedSpells
<1> QED BY <1>4 DEF u

\* None are.
LEMMA LaysNone == ASSUME NEW room, NEW b, NEW p PROVE LaysOut(room, b, <<>>, p)
<1>1. DOMAIN <<>> = {} BY SMT
<1> QED BY <1>1 DEF LaysOut

\* The pieces of the k-th field, before those of the fields after it.
LEMMA PiecesLaid ==
    ASSUME NEW c \in MessageCoders, NEW msg \in ValuesOf(c), NEW k \in 1 .. Len(c.order),
           NEW f, f = c.order[k], NEW room, NEW b, NEW p \in Nat,
           NEW t, t = FieldValues(f, msg[f.number]), Spells(room, b, t, p),
           LaysOut(room, b, Pieces(c, msg, k + 1), p + Owed(t))
    PROVE  LaysOut(room, b, Pieces(c, msg, k), p)
<1> DEFINE n == Len(c.order)
           s == Pieces(c, msg, k + 1)
<1>1. c.order \in Seq(c.fields) /\ n \in Nat /\ f \in c.fields
  <2>1. c.order \in Seq(c.fields) BY SchemaAssumption DEF MessageCoders
  <2>2. \A S, q : q \in Seq(S) => Len(q) \in Nat /\ \A j \in 1 .. Len(q) : q[j] \in S BY SMT
  <2> QED BY <2>1, <2>2
<1>2. k \in Nat /\ ~(k > n) /\ k + 1 \in 1 .. n + 1
  <2> HIDE DEF n
  <2>1. k \in 1..n BY DEF n
  <2> QED BY <1>1, <2>1, SMT
<1>3. Pieces(c, msg, k) = t \o s BY <1>1, <1>2, PiecesStep
<1>4. Paired(c, t) /\ Paired(c, s) BY <1>1, <1>2, FieldIsPaired, PiecesType
<1>5. LaysOut(room, b, t, p) BY <1>4, PairedSpells
<1> HIDE DEF s
<1>6. LaysOut(room, b, t \o s, p) BY <1>4, <1>5, LaysConcat DEF s
<1> QED BY <1>3, <1>6

-----------------------------------------------------------------------------
(* Versions of a type.                                                     *)

\* What a version has in common with the coder it stands for.
LEMMA VersionIs ==
    ASSUME NEW c \in Coders, NEW d \in VersionsOf(c)
    PROVE  /\ d \in Coders /\ c.kind = d.kind /\ c.kind \in Kinds
           /\ c.kind \in {"varint", "fixed"} => c = d
           /\ c.kind = "array" => d.elem \in VersionsOf(c.elem) /\ c.reserves = d.reserves
           /\ \A v \in ValuesOf(c) : View(c, d, v) \in ValuesOf(d)
BY SchemaAssumption, VersionsAssumption DEF VersionsOf

\* Every coder is a version of itself, that sees what was written.
LEMMA OwnVersion ==
    ASSUME NEW c \in Coders
    PROVE  c \in VersionsOf(c) /\ \A v \in ValuesOf(c) : View(c, c, v) = v
BY VersionsAssumption DEF VersionsOf

\* What a version makes of each of its fields.
LEMMA VersionFields ==
    ASSUME NEW c \in MessageCoders, NEW d \in VersionsOf(c)
    PROVE  /\ d \in MessageCoders
           /\ \A g \in d.fields :
                /\ \A f \in c.fields : Key(f) = Key(g) =>
                    /\ f.number = g.number /\ f.attr = g.attr /\ <<f.coder, g.coder>> \in Versions
                    /\ \A v \in ValuesOf(c) : LET vs == v[f.number] IN
                        View(c, d, v)[g.number]
                            = [j \in DOMAIN vs |-> View(f.coder, g.coder, vs[j])]
                /\ (\A f \in c.fields : Key(f) # Key(g)) =>
                    \A v \in ValuesOf(c) : View(c, d, v)[g.number] = <<>>
<1>1. c \in Coders /\ d \in Coders /\ c.kind = "message" /\ d.kind = "message"
  BY VersionIs DEF MessageCoders
<1>2. <<c, d>> \in Versions BY DEF VersionsOf
<1>3. c.kind = "message" => \A g \in d.fields :
        /\ \A f \in c.fields : Key(f) = Key(g) =>
            /\ f.number = g.number /\ f.attr = g.attr /\ <<f.coder, g.coder>> \in Versions
            /\ \A v \in ValuesOf(c) : LET vs == v[f.number] IN
                View(c, d, v)[g.number] = [j \in DOMAIN vs |-> View(f.coder, g.coder, vs[j])]
        /\ (\A f \in c.fields : Key(f) # Key(g)) =>
            \A v \in ValuesOf(c) : View(c, d, v)[g.number] = <<>>
  BY ONLY <1>1, <1>2, VersionsAssumption, Zenon
<1> QED BY <1>1, <1>3 DEF MessageCoders

\* A field that both know is the same to both.
LEMMA SameField ==
    ASSUME NEW c \in MessageCoders, NEW d \in VersionsOf(c), NEW f \in c.fields, NEW g \in d.fields,
           Key(f) = Key(g), NEW msg \in ValuesOf(c), NEW vs, vs = msg[f.number]
    PROVE  /\ f.number = g.number /\ f.attr = g.attr /\ g.coder \in VersionsOf(f.coder)
           /\ View(c, d, msg)[g.number] = [j \in DOMAIN vs |-> View(f.coder, g.coder, vs[j])]
<1>1. /\ f.number = g.number /\ f.attr = g.attr /\ <<f.coder, g.coder>> \in Versions
      /\ View(c, d, msg)[g.number] = [j \in DOMAIN vs |-> View(f.coder, g.coder, vs[j])]
  BY VersionFields
<1>2. g.coder \in Coders BY VersionFields, SchemaAssumption DEF MessageCoders
<1> QED BY <1>1, <1>2 DEF VersionsOf

\* Of a field that the reader does not know it sees nothing, nor of its own
\* fields that the writer does not know.
LEMMA OtherField ==
    ASSUME NEW c \in MessageCoders, NEW d \in VersionsOf(c), NEW g \in d.fields,
           NEW msg \in ValuesOf(c),
           \/ \A f \in c.fields : f.number # g.number
           \/ \E f \in c.fields : f.number = g.number /\ Key(f) # Key(g)
    PROVE  View(c, d, msg)[g.number] = <<>>
<1>1. ASSUME NEW f \in c.fields, Key(f) = Key(g) PROVE FALSE
  <2>1. f.number = g.number BY <1>1, VersionFields
  <2>2. \A h \in c.fields : h.number = f.number => h = f BY SchemaAssumption DEF MessageCoders
  <2> QED BY <1>1, <2>1, <2>2
<1> QED BY <1>1, VersionFields

\* The k-th field is none of those before it.
LEMMA OrderIs ==
    ASSUME NEW c \in MessageCoders, NEW k \in 1 .. Len(c.order), NEW f, f = c.order[k]
    PROVE  /\ f \in c.fields /\ f.coder \in Coders /\ f.number \notin Before(c, k)
           /\ Before(c, k + 1) = Before(c, k) \cup {f.number}
<1>1. c \in Coders /\ c.kind = "message" BY DEF MessageCoders
<1>2. c.order \in Seq(c.fields) BY <1>1, SchemaAssumption
<1>3. /\ f \in c.fields /\ Len(c.order) \in Nat /\ k \in Nat /\ k <= Len(c.order)
      /\ DOMAIN c.order = 1 .. Len(c.order)
      /\ \A j \in 1 .. Len(c.order) : c.order[j] \in c.fields
  <2> DEFINE q == c.order
             S == c.fields
  <2>1. q \in Seq(S) BY <1>2
  <2>2. f = q[k] /\ k \in 1 .. Len(q) OBVIOUS
  <2> HIDE DEF q, S
  <2>3. /\ f \in S /\ Len(q) \in Nat /\ k \in Nat /\ k <= Len(q)
        /\ DOMAIN q = 1 .. Len(q) /\ \A j \in 1 .. Len(q) : q[j] \in S
    BY <2>1, <2>2, SMT
  <2> QED BY <2>3 DEF q, S
<1>4. ASSUME NEW j \in 1 .. k - 1, c.order[j].number = f.number PROVE FALSE
  <2>1. j \in 1 .. Len(c.order) /\ j # k BY <1>3, SMT
  <2>2. c.order[j] \in c.fields BY <1>3, <2>1
  <2>3. c.order[j] = f BY <1>1, <1>3, <1>4, <2>2, SchemaAssumption
  <2>4. c.order[j] = c.order[k] BY <2>3
  <2> QED BY <1>1, <1>3, <2>1, <2>4, ValuesAssumption
<1>5. \A j : j \in 1 .. (k + 1) - 1 <=> j \in 1 .. k - 1 \/ j = k BY <1>3, SMT
<1>6. Before(c, k + 1) = Before(c, k) \cup {f.number}
  <2>1. \A x : x \in Before(c, k + 1) <=> \E j \in 1 .. (k + 1) - 1 : x = c.order[j].number
    BY DEF Before
  <2>2. \A x : x \in Before(c, k) <=> \E j \in 1 .. k - 1 : x = c.order[j].number BY DEF Before
  <2>3. \A x : x \in Before(c, k + 1) <=> x \in Before(c, k) \/ x = f.number
    BY <1>5, <2>1, <2>2
  <2> QED BY <2>3
<1>7. f.number \notin Before(c, k) BY <1>4 DEF Before
<1>8. f.coder \in Coders BY <1>1, <1>3, SchemaAssumption
<1> QED BY <1>3, <1>6, <1>7, <1>8

\* A key tells the wire type of its field.
LEMMA KeyWire ==
    ASSUME NEW c \in MessageCoders, NEW f \in c.fields
    PROVE  /\ Key(f) \in Nat /\ Key(f) < KeyWord /\ KeyWord \in Nat
           /\ WireOf(Key(f)) = f.wire /\ f.wire \in {0, 1, 2, 5}
<1>1. /\ KeyWord \in Nat \ {0} /\ KeyWord % 8 = 0
      /\ f.number \in Nat /\ f.wire \in {0, 1, 2, 5}
  <2>1. f.coder.kind \in Kinds /\ HasWire(f.coder, f.wire) /\ f.number \in Nat
    BY SchemaAssumption, ValuesAssumption DEF MessageCoders
  <2>2. f.wire \in {0, 1, 2, 5} BY <2>1 DEF HasWire, Kinds
  <2> QED BY <2>1, <2>2, SchemaAssumption, ValuesAssumption
<1> DEFINE w == f.wire
           a == f.number * 8 + w
           m == KeyWord
           h == m \div 8
           q == a \div m
           r == a % m
<1>2. h \in Nat \ {0} /\ m = 8 * h
  <2>1. m \in Nat \ {0} /\ m % 8 = 0 BY <1>1
  <2> HIDE DEF m
  <2> QED BY <2>1, SMT
<1>3. a \in Nat /\ w \in 0..7 /\ a % 8 = w
  <2> DEFINE n == f.number
  <2>1. n \in Nat /\ w \in {0, 1, 2, 5} /\ a = n * 8 + w BY <1>1
  <2> HIDE DEF n, w, a
  <2> QED BY <2>1, SMT
<1>4. q \in Nat /\ r \in 0 .. m - 1 /\ a = m * q + r
  <2>1. m \in Nat \ {0} BY <1>1
  <2> HIDE DEF a, m
  <2> QED BY <1>3, <2>1, SMT
<1>5. r % 8 = w
  <2> DEFINE x == h * q
  <2>1. x \in Nat /\ a = 8 * x + r
    <3> HIDE DEF a, q, r, h, m
    <3> QED BY <1>2, <1>4, SMT
  <2>2. r \in Nat
    <3> HIDE DEF r, m
    <3> QED BY <1>1, <1>4, SMT
  <2> HIDE DEF x, a, r, w
  <2> QED BY <1>3, <2>1, <2>2, SMT
<1>6. Key(f) = r BY DEF Key, KeyOf
<1>7. r \in Nat /\ r < m
  <2>1. m \in Nat BY <1>1
  <2> HIDE DEF r, m
  <2> QED BY <1>4, <2>1, SMT
<1> QED BY <1>1, <1>5, <1>6, <1>7 DEF WireOf

-----------------------------------------------------------------------------
(* The bytes of a value, a field and an array.                             *)

\* The last byte of a varint is the first without the 0x80.
LEMMA LastAt ==
    ASSUME NEW b, NEW lo \in Nat, NEW hi \in Nat, NEW k \in Nat, lo <= k,
           ~Continues(b[k]), \A j \in lo .. k - 1 : Continues(b[j])
    PROVE  LastOfVarint(b, lo, hi) = IF k + 1 <= hi THEN {k} ELSE {}
<1>1. ASSUME NEW x \in LastOfVarint(b, lo, hi) PROVE x = k /\ k + 1 <= hi
  <2>1. /\ x \in Nat /\ lo <= x /\ x < hi
        /\ ~Continues(b[x]) /\ \A j \in lo .. x - 1 : Continues(b[j])
    BY <1>1, LastPlace
  <2>2. ~(x < k)
    <3>1. x < k => x \in lo .. k - 1 BY <2>1, SMT
    <3> QED BY <2>1, <3>1
  <2>3. ~(k < x)
    <3>1. k < x => k \in lo .. x - 1 BY <2>1, SMT
    <3> QED BY <2>1, <3>1
  <2> QED BY <2>1, <2>2, <2>3, SMT
<1>2. ASSUME k + 1 <= hi PROVE k \in LastOfVarint(b, lo, hi)
  <2>1. k \in lo .. hi - 1 BY <1>2, SMT
  <2> QED BY <2>1 DEF LastOfVarint
<1> QED BY <1>1, <1>2

\* The number of a varint is found in any window it lies in.
LEMMA NumberFound ==
    ASSUME NEW room, NEW n \in Nat, NEW b, NEW lo \in Nat, NEW hi \in Nat, NEW word \in Nat,
           Says(room, b, Varint(n), lo), lo + VarintSkip(n) <= hi, n < word, word > 1
    PROVE  Found(lo + VarintSkip(n), n) \in VarintAt(b, lo, hi, word, word)
<1>1. Groups(b, lo, VarintSkip(n), n) BY DEF Says, SaysValue, Varint
<1>2. word <= word BY SMT
<1> QED BY <1>1, <1>2, GroupsFound

\* The value of a call is found in any window its bytes lie in, by any reader.
LEMMA ValueFound ==
    ASSUME NEW c \in Coders, NEW v \in ValuesOf(c), NEW d \in VersionsOf(c),
           NEW room \in 0 .. Capacity, NEW b \in Spans(room), NEW lo \in Nat,
           NEW hi \in 0 .. room, Says(room, b, Value(c, v), lo), lo + ValueSkip(c, v) <= hi
    PROVE  Found(lo + ValueSkip(c, v), View(c, d, v)) \in ValueAt(b, Contents(b, room), d, lo, hi)
<1>0. hi \in Nat /\ hi <= room /\ c.kind \in Kinds
  <2>1. c.kind \in Kinds BY SchemaAssumption
  <2>2. room \in Nat BY RoomNat
  <2> QED BY <2>1, <2>2, SMT
<1>1. CASE c.kind = "varint"
  <2>1. v \in Nat BY <1>1, EncoderAssumption
  <2>2. v < c.word /\ c.word <= c.shift /\ c.shift > 1 BY <1>1, ValuesAssumption
  <2>3. c.word \in Nat /\ c.shift \in Nat BY <1>1, SchemaAssumption
  <2>4. ValueSkip(c, v) = VarintSkip(v) BY <1>1 DEF ValueSkip
  <2>5. Groups(b, lo, VarintSkip(v), v) BY <1>1 DEF Says, SaysValue, Value, Varint
  <2>6. Found(lo + VarintSkip(v), v) \in VarintAt(b, lo, hi, c.word, c.shift)
    BY <1>0, <2>1, <2>2, <2>3, <2>4, <2>5, GroupsFound
  <2>7. d = c /\ View(c, d, v) = v
    <3>1. d = c BY <1>1, VersionIs
    <3> QED BY <3>1, OwnVersion
  <2> QED BY <1>1, <2>4, <2>6, <2>7 DEF ValueAt
<1>2. CASE c.kind # "varint"
  <2> DEFINE e == Value(c, v)
             size == ValueSkip(c, v)
             w == View(c, d, v)
  <2>1. e.do = c.kind /\ e.coder = c /\ e.v = v BY <1>2 DEF Value
  <2>2. e.do # "varint" /\ e.do # "body" /\ e.do # "fields" BY <1>0, <1>2, <2>1 DEF Kinds
  <2>3. EntrySize(e) = size BY ValueSize
  <2>4. size \in Nat BY ValueSkipNat
  <2>5. View(e.coder, d, e.v) = w BY <2>1
  <2> HIDE DEF e, size, w
  <2>6. \A end \in lo + size .. room :
          Found(lo + size, w) \in ValueAt(b, Contents(b, room), d, lo, end)
    <3>1. Says(room, b, e, lo) BY DEF e
    <3>2. SaysValue(room, b, e, lo) BY <2>2, <3>1 DEF Says
    <3> QED BY <2>1, <2>2, <2>3, <2>5, <3>2 DEF SaysValue
  <2>7. hi \in lo + size .. room
    <3>1. lo + size <= hi BY DEF size
    <3> QED BY <1>0, <2>4, <3>1, SMT
  <2> QED BY <2>6, <2>7 DEF size, w
<1> QED BY <1>1, <1>2

\* A reader that does not know the field passes over its value.
LEMMA ValuePassed ==
    ASSUME NEW c \in Coders, NEW v \in ValuesOf(c), NEW wire, HasWire(c, wire),
           NEW room \in 0 .. Capacity, NEW b \in Spans(room), NEW lo \in Nat,
           NEW hi \in 0 .. room, Says(room, b, Value(c, v), lo), lo + ValueSkip(c, v) <= hi
    PROVE  lo + ValueSkip(c, v) \in SkipEnds(b, wire, lo, hi)
<1> DEFINE size == ValueSkip(c, v)
           end == lo + size
<1> SUFFICES end \in SkipEnds(b, wire, lo, hi) OBVIOUS
<1>0. hi \in Nat /\ end <= hi /\ c.kind \in Kinds
  <2>1. c.kind \in Kinds BY SchemaAssumption
  <2>2. room \in Nat BY RoomNat
  <2>3. end <= hi OBVIOUS
  <2> HIDE DEF end
  <2> QED BY <2>1, <2>2, <2>3, SMT
<1>1. ASSUME NEW k \in Nat, lo <= k, k + 1 = end, wire = 0,
             ~Continues(b[k]), \A j \in lo .. k - 1 : Continues(b[j])
      PROVE  end \in SkipEnds(b, wire, lo, hi)
  <2> HIDE DEF end
  <2>1. k \in LastOfVarint(b, lo, hi) BY <1>0, <1>1, LastAt
  <2> QED BY <1>1, <2>1 DEF SkipEnds
<1>2. Found(end, v) \in ValueAt(b, Contents(b, room), c, lo, hi) BY OwnVersion, ValueFound
<1>3. CASE c.kind = "varint"
  <2>1. v \in Nat /\ wire = 0 BY <1>3, EncoderAssumption DEF HasWire
  <2>2. size = VarintSkip(v) BY <1>3 DEF ValueSkip
  <2>3. Groups(b, lo, size, v) BY <1>3, <2>2 DEF Says, SaysValue, Value, Varint
  <2> HIDE DEF size
  <2> DEFINE k == lo + size - 1
  <2>4. /\ size \in Nat \ {0} /\ ~Continues(b[k])
        /\ \A j \in lo .. lo + size - 2 : Continues(b[j])
    BY <2>3 DEF Groups
  <2>5. k \in Nat /\ lo <= k /\ k + 1 = end /\ k - 1 = lo + size - 2 BY <2>4, SMT
  <2> HIDE DEF k, end
  <2>6. \A j \in lo .. k - 1 : Continues(b[j]) BY <2>4, <2>5
  <2>7. ~Continues(b[k]) BY <2>4 DEF k
  <2> QED BY <1>1, <2>1, <2>5, <2>6, <2>7
<1>4. CASE c.kind = "fixed"
  <2>1. size = c.size /\ c.size \in Nat \ {0} BY <1>4, SchemaAssumption DEF ValueSkip
  <2>2. CASE wire \in {1, 5}
    <3>1. size = FixedSize[wire] BY <1>4, <2>1, <2>2 DEF HasWire
    <3>2. wire # 0 /\ wire # 2 BY <2>2, SMT
    <3>3. end \in {e \in {lo + FixedSize[wire]} : e <= hi} BY <1>0, <3>1
    <3> HIDE DEF end
    <3> QED BY <2>2, <3>2, <3>3 DEF SkipEnds
  <2>3. CASE wire \notin {1, 5}
    <3>1. wire = 0 /\ c.size = 1 /\ ~Continues(v[1]) BY <1>4, <2>3 DEF HasWire
    <3>2. v = [j \in 1 .. 1 |-> b[lo + j - 1]] BY <1>2, <1>4, <3>1 DEF ValueAt, Found
    <3>3. 1 \in 1 .. 1 /\ lo + 1 - 1 = lo /\ lo .. lo - 1 = {} /\ lo <= lo BY SMT
    <3>4. ~Continues(b[lo]) BY <3>1, <3>2, <3>3
    <3>5. lo + 1 = end BY <2>1, <3>1
    <3> HIDE DEF end
    <3> QED BY <1>1, <3>1, <3>3, <3>4, <3>5
  <2> QED BY <2>2, <2>3
<1>5. CASE c.kind \notin {"varint", "fixed"}
  <2>1. wire = 2 BY <1>5 DEF HasWire
  <2> HIDE DEF end
  <2>2. PICK l \in LengthAt(b, lo, hi) : end = l.end + l.val
    BY <1>2, <1>5 DEF ValueAt, Found
  <2> QED BY <2>1, <2>2, SMT DEF SkipEnds
<1> QED BY <1>3, <1>4, <1>5

\* What a reader with coder d makes of u when value v of field f comes: it
\* pushes what it sees of v, or nothing if it does not know the field.
Takes(d, f, v, u, next) ==
    \/ \E g \in d.fields :
        /\ Key(g) = Key(f) /\ g.coder \in VersionsOf(f.coder)
        /\ next = PushField(u, g, View(f.coder, g.coder, v))
    \/ (\A g \in d.fields : Key(g) # Key(f)) /\ next = u

\* A key and a value before the other fields.
LEMMA PairFirst ==
    ASSUME NEW c \in MessageCoders, NEW f \in c.fields, NEW v \in ValuesOf(f.coder),
           NEW d \in MessageCoders,
           NEW room \in 0 .. Capacity, NEW b \in Spans(room), NEW lo \in Nat, NEW hi \in 0 .. room,
           Says(room, b, Varint(Key(f)), lo),
           Says(room, b, Value(f.coder, v), lo + VarintSkip(Key(f))),
           NEW u, NEW next, Takes(d, f, v, u, next), NEW msg,
           Completes(b, room, d, next, msg,
                     (lo + VarintSkip(Key(f))) + ValueSkip(f.coder, v), hi)
    PROVE  Completes(b, room, d, u, msg, lo, hi)
<1> DEFINE mid == lo + VarintSkip(Key(f))
           end == mid + ValueSkip(f.coder, v)
<1>0. /\ Says(room, b, Varint(Key(f)), lo) /\ Says(room, b, Value(f.coder, v), mid)
      /\ Completes(b, room, d, next, msg, end, hi)
  OBVIOUS
<1>1. c \in Coders /\ c.kind = "message" BY DEF MessageCoders
<1>2. /\ d \in LoopCoders /\ d.kind = "message" /\ f.coder \in Coders /\ room \in Nat
  BY <1>1, SchemaAssumption, RoomNat DEF LoopCoders, MessageCoders
<1>3. NumberOf(Key(f)) # 0 /\ HasWire(f.coder, f.wire) BY <1>1, ValuesAssumption
<1>4. /\ Key(f) \in Nat /\ Key(f) < KeyWord /\ KeyWord \in Nat /\ WireOf(Key(f)) = f.wire
      /\ KeyWord > 1
  <2>1. Key(f) \in Nat /\ Key(f) < KeyWord /\ KeyWord \in Nat /\ WireOf(Key(f)) = f.wire
    BY KeyWire
  <2>2. KeyWord \in Nat \ {0} /\ KeyWord % 8 = 0 BY SchemaAssumption, ValuesAssumption
  <2>3. KeyWord > 1 BY <2>2, SMT
  <2> QED BY <2>1, <2>3
<1> DEFINE a == VarintSkip(Key(f))
           s == ValueSkip(f.coder, v)
<1>5. a \in Nat /\ s \in Nat BY <1>2, <1>4, VarintSkipNat, ValueSkipNat
<1>6. mid = lo + a /\ end = mid + s OBVIOUS
<1> HIDE DEF a, s
<1>12. mid = lo + VarintSkip(Key(f)) /\ end = mid + ValueSkip(f.coder, v) OBVIOUS
<1> HIDE DEF mid, end
<1>7. mid \in Nat /\ end \in Nat BY <1>5, <1>6, SMT
<1>8. end <= hi BY <1>0, <1>2, <1>7, CompletesPlace
<1>9. hi \in Nat /\ mid <= hi BY <1>2, <1>5, <1>6, <1>7, <1>8, SMT
<1>10. Found(mid, Key(f)) \in VarintAt(b, lo, hi, KeyWord, KeyWord)
  BY <1>0, <1>4, <1>9, <1>12, NumberFound
<1>11. ASSUME NEW g \in d.fields, Key(g) = Key(f), g.coder \in VersionsOf(f.coder),
              next = PushField(u, g, View(f.coder, g.coder, v))
       PROVE  Completes(b, room, d, u, msg, lo, hi)
  <2> DEFINE w == View(f.coder, g.coder, v)
  <2>1. Found(end, w) \in ValueAt(b, Contents(b, room), g.coder, mid, hi)
    BY <1>0, <1>2, <1>7, <1>8, <1>11, <1>12, ValueFound
  <2>2. /\ Found(mid, Key(g)) \in VarintAt(b, lo, hi, KeyWord, KeyWord) /\ NumberOf(Key(g)) # 0
        /\ Completes(b, room, d, PushField(u, g, w), msg, end, hi)
    BY <1>0, <1>3, <1>10, <1>11
  <2> HIDE DEF w
  <2> QED BY <1>2, <2>1, <2>2, FieldFirst
<1>13. ASSUME \A g \in d.fields : Key(g) # Key(f), next = u
       PROVE  Completes(b, room, d, u, msg, lo, hi)
  <2>1. end \in SkipEnds(b, WireOf(Key(f)), mid, hi)
    BY <1>0, <1>2, <1>3, <1>4, <1>7, <1>8, <1>12, ValuePassed
  <2>2. Completes(b, room, d, u, msg, end, hi) BY <1>0, <1>13
  <2> QED BY <1>2, <1>3, <1>10, <1>13, <2>1, <2>2, FieldSkipped
<1> QED BY <1>11, <1>13 DEF Takes

\* The message after the first j values of field f, which come after those
\* that gave m.
After(m, msg, f, j) == [m EXCEPT ![f.number] = SubSeq(msg[f.number], 1, j)]

\* Value after value, a field is filled.
LEMMA FieldFills ==
    ASSUME NEW c \in MessageCoders, NEW msg \in ValuesOf(c), NEW f \in c.fields,
           NEW done, f.number \notin done, NEW m, m = Partial(c, msg, done)
    PROVE  /\ msg[f.number] \in Seq(ValuesOf(f.coder)) /\ f.coder \in Coders
           /\ After(m, msg, f, 0) = m
           /\ After(m, msg, f, Len(msg[f.number])) = Partial(c, msg, done \cup {f.number})
           /\ \A j \in Nat : j + 1 <= Len(msg[f.number]) =>
                PushField(After(m, msg, f, j), f, msg[f.number][j + 1]) = After(m, msg, f, j + 1)
<1> DEFINE vs == msg[f.number]
           N == f.number
<1>1. c \in Coders /\ c.kind = "message" BY DEF MessageCoders
<1>4. vs \in Seq(ValuesOf(f.coder)) /\ f.coder \in Coders
  BY <1>1, EncoderAssumption, SchemaAssumption
<1>5. Holds(f, vs) BY <1>1, ValuesAssumption
<1>6. N \in NumbersOf(c) BY DEF NumbersOf
<1>7. DOMAIN m = NumbersOf(c) /\ m = [x \in NumbersOf(c) |-> m[x]] BY DEF Partial
<1>9. m[N] = <<>> BY <1>6 DEF Partial
<1> DEFINE S == ValuesOf(f.coder)
<1>10. /\ SubSeq(vs, 1, 0) = <<>> /\ SubSeq(vs, 1, Len(vs)) = vs
       /\ \A j \in Nat : j + 1 <= Len(vs) =>
            vs[j + 1] \in S /\ Append(SubSeq(vs, 1, j), vs[j + 1]) = SubSeq(vs, 1, j + 1)
  <2>1. vs \in Seq(S) BY <1>4
  <2> HIDE DEF vs, S
  <2> QED BY <2>1, Prefixes
<1>11. After(m, msg, f, 0) = m
  <2>1. After(m, msg, f, 0) = [m EXCEPT ![N] = m[N]] BY <1>9, <1>10 DEF After
  <2> HIDE DEF N
  <2> QED BY <1>7, <2>1
<1>12. After(m, msg, f, Len(vs)) = Partial(c, msg, done \cup {N})
  <2> DEFINE new == Partial(c, msg, done \cup {N})
  <2>1. After(m, msg, f, Len(vs)) = [m EXCEPT ![N] = vs] BY <1>10 DEF After
  <2>2. \A x \in NumbersOf(c) : new[x] = IF x = N THEN vs ELSE m[x] BY DEF Partial
  <2>3. new = [x \in NumbersOf(c) |-> new[x]] BY DEF Partial
  <2> HIDE DEF N, vs, new
  <2>4. [m EXCEPT ![N] = vs] = [x \in NumbersOf(c) |-> IF x = N THEN vs ELSE m[x]] BY <1>7
  <2>5. new = [x \in NumbersOf(c) |-> IF x = N THEN vs ELSE m[x]] BY <2>2, <2>3
  <2> QED BY <2>1, <2>4, <2>5 DEF vs, new, N
<1>13. ASSUME NEW j \in Nat, j + 1 <= Len(vs)
       PROVE  PushField(After(m, msg, f, j), f, vs[j + 1]) = After(m, msg, f, j + 1)
  <2> DEFINE held == SubSeq(vs, 1, j)
             one == [x \in {N} |-> held]
  <2>1. j + 1 \in DOMAIN vs /\ (j + 1) - 1 = j
    <3> HIDE DEF vs
    <3> QED BY <1>4, <1>13, SMT
  <2>2. PushField(one, f, vs[j + 1])[N] = SubSeq(vs, 1, j + 1)
    BY <1>5, <2>1 DEF Holds
  <2>3. PushField(one, f, vs[j + 1]) = [one EXCEPT ![N] = Pushed(f, one[N], vs[j + 1])]
    BY PushFieldIs
  <2>4. one[N] = held /\ DOMAIN one = {N} OBVIOUS
  <2> DEFINE new == Pushed(f, held, vs[j + 1])
             old == After(m, msg, f, j)
  <2>5. new = SubSeq(vs, 1, j + 1)
    <3>1. [one EXCEPT ![N] = new][N] = new BY <2>4
    <3> QED BY <2>2, <2>3, <2>4, <3>1
  <2>6. old = [m EXCEPT ![N] = held] BY DEF After
  <2>7. old[N] = held BY <1>6, <1>7, <2>6
  <2>8. PushField(old, f, vs[j + 1]) = [old EXCEPT ![N] = Pushed(f, old[N], vs[j + 1])]
    BY PushFieldIs
  <2>9. PushField(old, f, vs[j + 1]) = [old EXCEPT ![N] = SubSeq(vs, 1, j + 1)]
    BY <2>5, <2>7, <2>8
  <2>10. [old EXCEPT ![N] = SubSeq(vs, 1, j + 1)] = [m EXCEPT ![N] = SubSeq(vs, 1, j + 1)]
    <3> DEFINE x == SubSeq(vs, 1, j + 1)
    <3> HIDE DEF held, N, old, x
    <3>1. [old EXCEPT ![N] = x] = [m EXCEPT ![N] = x] BY <1>7, <2>6
    <3> QED BY <3>1 DEF x
  <2> QED BY <2>9, <2>10 DEF After
<1> QED BY <1>4, <1>11, <1>12, <1>13

\* Value after value, a field is merged.
LEMMA FieldMerges ==
    ASSUME NEW c \in MessageCoders, NEW msg \in ValuesOf(c), NEW f \in c.fields,
           NEW done, f.number \notin done, NEW m, m = Partial(c, msg, done), NEW u, IsMessage(c, u),
           NEW j \in Nat, j + 1 <= Len(msg[f.number])
    PROVE  PushField(MergeMessages(c, u, After(m, msg, f, j)), f, msg[f.number][j + 1])
                = MergeMessages(c, u, After(m, msg, f, j + 1))
<1> DEFINE vs == msg[f.number]
           N == f.number
           S == ValuesOf(f.coder)
           e == vs[j + 1]
           old == After(m, msg, f, j)
           new == After(m, msg, f, j + 1)
           M == MergeMessages(c, u, old)
           L == MergeMessages(c, u, new)
<1>1. c \in Coders /\ c.kind = "message" BY DEF MessageCoders
<1>2. vs \in Seq(S) /\ PushField(old, f, e) = new
  <2>1. vs \in Seq(S) BY FieldFills
  <2>2. /\ msg[f.number] \in Seq(ValuesOf(f.coder)) /\ f.coder \in Coders
        /\ After(m, msg, f, 0) = m
        /\ After(m, msg, f, Len(msg[f.number])) = Partial(c, msg, done \cup {f.number})
        /\ \A i \in Nat : i + 1 <= Len(msg[f.number]) =>
             PushField(After(m, msg, f, i), f, msg[f.number][i + 1]) = After(m, msg, f, i + 1)
    <3> HIDE DEF vs, N, S, e, old, new, M, L
    <3> QED BY ONLY c \in MessageCoders, msg \in ValuesOf(c), f \in c.fields,
                 f.number \notin done, m = Partial(c, msg, done), FieldFills
  <2>3. PushField(old, f, e) = new BY <2>2
  <2> QED BY <2>1, <2>3
<1>3. f.attr \in Attributes /\ N \in NumbersOf(c) BY <1>1, <1>2, SchemaAssumption DEF NumbersOf
<1>4. DOMAIN m = NumbersOf(c) BY DEF Partial
<1>5. old[N] = SubSeq(vs, 1, j) /\ new[N] = SubSeq(vs, 1, j + 1)
      /\ \A x \in NumbersOf(c) : x # N => old[x] = new[x]
  BY <1>3, <1>4 DEF After
<1>6. e \in S /\ Append(SubSeq(vs, 1, j), e) = SubSeq(vs, 1, j + 1)
      /\ SubSeq(vs, 1, j) \in Seq(S)
  <2>1. j + 1 <= Len(vs) OBVIOUS
  <2> HIDE DEF vs, S
  <2>2. vs[j + 1] \in S /\ Append(SubSeq(vs, 1, j), vs[j + 1]) = SubSeq(vs, 1, j + 1)
    BY <1>2, <2>1, Prefixes
  <2>3. SubSeq(vs, 1, j) \in Seq(S) BY <1>2, <2>1, SMT
  <2> QED BY <2>2, <2>3
<1>7. Pushed(f, SubSeq(vs, 1, j), e) = Append(SubSeq(vs, 1, j), e)
  <2>1. PushField(old, f, e) = [old EXCEPT ![N] = Pushed(f, old[N], e)] BY PushFieldIs
  <2>2. N \in DOMAIN old BY <1>3, <1>4 DEF After
  <2>3. new[N] = Pushed(f, old[N], e) BY <1>2, <2>1, <2>2
  <2> QED BY <1>5, <1>6, <2>3
<1>8. f.attr = "repeated" => IsSeq(u[N]) BY <1>2 DEF IsMessage
<1>9. M[N] = MergeField(f, u[N], SubSeq(vs, 1, j)) /\ L[N] = MergeField(f, u[N], SubSeq(vs, 1, j + 1))
  <2>1. \A x : MergeMessages(c, u, x)[N] = MergeField(f, u[N], x[N]) BY <1>1, <1>2, MergeAt
  <2>2. M[N] = MergeField(f, u[N], old[N]) /\ L[N] = MergeField(f, u[N], new[N]) BY <2>1
  <2> QED BY <1>5, <2>2
<1>10. Pushed(f, M[N], e) = L[N]
  <2> DEFINE p == SubSeq(vs, 1, j)
             h == u[N]
  <2>1. /\ p \in Seq(S) /\ e \in S /\ Pushed(f, p, e) = Append(p, e)
        /\ f.attr = "repeated" => IsSeq(h)
    BY <1>6, <1>7, <1>8
  <2>2. M[N] = MergeField(f, h, p) /\ L[N] = MergeField(f, h, Append(p, e)) BY <1>6, <1>9
  <2> HIDE DEF p, h, e, S, M, L
  <2> QED BY ONLY <1>3, <2>1, <2>2, MergePush
<1>11. M = [x \in NumbersOf(c) |-> M[x]] /\ L = [x \in NumbersOf(c) |-> L[x]]
  BY DEF MergeMessages
<1>12. \A x \in NumbersOf(c) : x # N => M[x] = L[x] BY <1>5 DEF MergeMessages
<1>13. PushField(M, f, e) = [M EXCEPT ![N] = L[N]] BY <1>10, PushFieldIs
<1>14. [M EXCEPT ![N] = L[N]] = L
  <2> HIDE DEF M, L, N
  <2>1. [M EXCEPT ![N] = L[N]] = [x \in NumbersOf(c) |-> IF x = N THEN L[N] ELSE M[x]] BY <1>11
  <2>2. \A x \in NumbersOf(c) : (IF x = N THEN L[N] ELSE M[x]) = L[x] BY <1>12
  <2>3. [x \in NumbersOf(c) |-> IF x = N THEN L[N] ELSE M[x]] = [x \in NumbersOf(c) |-> L[x]]
    BY <2>2
  <2> QED BY <1>11, <2>1, <2>3
<1> QED BY <1>13, <1>14

\* The values of the k-th field, one after the other, make of what a reader has
\* of the fields before it what it has of them and this one.
Mixes(c, msg, k, d, u) ==
    LET f == c.order[k]
        vs == msg[f.number]
        seen == View(c, d, msg)
    IN  \E mixed : /\ mixed[0] = MergeMessages(d, u, Partial(d, seen, Before(c, k)))
                   /\ mixed[Len(vs)] = MergeMessages(d, u, Partial(d, seen, Before(c, k + 1)))
                   /\ \A j \in Nat : j + 1 <= Len(vs) =>
                        Takes(d, f, vs[j + 1], mixed[j], mixed[j + 1])

\* Whatever fields the reader knows.
LEMMA FieldTaken ==
    ASSUME NEW c \in MessageCoders, NEW msg \in ValuesOf(c), NEW k \in 1 .. Len(c.order),
           NEW d \in VersionsOf(c), NEW u, IsMessage(d, u)
    PROVE  Mixes(c, msg, k, d, u)
<1> SUFFICES ASSUME NEW f, f = c.order[k], NEW vs, vs = msg[f.number], NEW w, w = View(c, d, msg)
             PROVE  \E mixed :
                      /\ mixed[0] = MergeMessages(d, u, Partial(d, w, Before(c, k)))
                      /\ mixed[Len(vs)] = MergeMessages(d, u, Partial(d, w, Before(c, k + 1)))
                      /\ \A j \in Nat : j + 1 <= Len(vs) =>
                           Takes(d, f, vs[j + 1], mixed[j], mixed[j + 1])
  BY DEF Mixes
<1> DEFINE done == Before(c, k)
           m == Partial(d, w, done)
<1>1. /\ d \in MessageCoders /\ w \in ValuesOf(d) /\ c \in Coders
  BY VersionFields, VersionIs DEF MessageCoders
<1>2. /\ f \in c.fields /\ f.number \notin done
      /\ Before(c, k + 1) = done \cup {f.number}
  BY OrderIs
<1>3. /\ vs \in Seq(ValuesOf(f.coder)) /\ Len(vs) \in Nat /\ DOMAIN vs = 1 .. Len(vs)
  <2> DEFINE S == ValuesOf(f.coder)
  <2>1. vs \in Seq(S) BY <1>2, EncoderAssumption DEF MessageCoders
  <2> HIDE DEF S
  <2>2. Len(vs) \in Nat /\ DOMAIN vs = 1 .. Len(vs) BY <2>1, SMT
  <2> QED BY <2>1, <2>2 DEF S
<1> HIDE DEF done
<1>4. ASSUME NEW g \in d.fields, Key(g) = Key(f)
      PROVE  \E mixed :
               /\ mixed[0] = MergeMessages(d, u, m)
               /\ mixed[Len(vs)] = MergeMessages(d, u, Partial(d, w, Before(c, k + 1)))
               /\ \A j \in Nat : j + 1 <= Len(vs) =>
                    Takes(d, f, vs[j + 1], mixed[j], mixed[j + 1])
  <2> DEFINE ws == w[g.number]
             mixed == [j \in Nat |-> MergeMessages(d, u, After(m, w, g, j))]
  <2>1. /\ f.number = g.number /\ g.coder \in VersionsOf(f.coder)
        /\ ws = [j \in DOMAIN vs |-> View(f.coder, g.coder, vs[j])]
    BY <1>2, <1>4, SameField
  <2>2. /\ ws \in Seq(ValuesOf(g.coder)) /\ After(m, w, g, 0) = m
        /\ After(m, w, g, Len(ws)) = Partial(d, w, done \cup {g.number})
    <3>1. g.number \notin done BY <1>2, <2>1
    <3>2. ASSUME NEW D, g.number \notin D, NEW q, q = Partial(d, w, D)
          PROVE  /\ w[g.number] \in Seq(ValuesOf(g.coder)) /\ After(q, w, g, 0) = q
                 /\ After(q, w, g, Len(w[g.number])) = Partial(d, w, D \cup {g.number})
      <4>1. d \in MessageCoders /\ w \in ValuesOf(d) BY <1>1
      <4>2. g \in d.fields OBVIOUS
      <4> HIDE DEF m, ws, mixed
      <4> QED BY ONLY <3>2, <4>1, <4>2, FieldFills
    <3> QED BY <3>1, <3>2
  <2>3. Len(ws) = Len(vs)
    <3> DEFINE S == ValuesOf(g.coder)
    <3>1. ws \in Seq(S) /\ DOMAIN ws = 1 .. Len(vs) BY <1>3, <2>1, <2>2
    <3> HIDE DEF S, ws
    <3> QED BY <1>3, <3>1, SMT
  <2>4. ASSUME NEW j \in Nat, j + 1 <= Len(vs)
        PROVE  Takes(d, f, vs[j + 1], mixed[j], mixed[j + 1])
    <3>1. j + 1 \in 1 .. Len(vs) /\ j + 1 \in Nat BY <1>3, <2>4, SMT
    <3>2. ws[j + 1] = View(f.coder, g.coder, vs[j + 1]) BY <1>3, <2>1, <3>1
    <3>3. PushField(MergeMessages(d, u, After(m, w, g, j)), g, ws[j + 1])
            = MergeMessages(d, u, After(m, w, g, j + 1))
      <4>1. j + 1 <= Len(w[g.number]) BY <2>3, <2>4
      <4>2. g.number \notin done BY <1>2, <2>1
      <4> HIDE DEF mixed
      <4> QED BY <1>1, <4>1, <4>2, FieldMerges
    <3>4. mixed[j + 1] = PushField(mixed[j], g, View(f.coder, g.coder, vs[j + 1]))
      BY <3>1, <3>2, <3>3
    <3> HIDE DEF mixed
    <3> QED BY <1>4, <2>1, <3>4 DEF Takes
  <2>5. mixed[0] = MergeMessages(d, u, m) BY <2>2
  <2>6. mixed[Len(vs)] = MergeMessages(d, u, Partial(d, w, Before(c, k + 1)))
    BY <1>2, <1>3, <2>1, <2>2, <2>3
  <2> HIDE DEF mixed
  <2> QED BY <2>4, <2>5, <2>6
<1>5. ASSUME \A g \in d.fields : Key(g) # Key(f)
      PROVE  \E mixed :
               /\ mixed[0] = MergeMessages(d, u, m)
               /\ mixed[Len(vs)] = MergeMessages(d, u, Partial(d, w, Before(c, k + 1)))
               /\ \A j \in Nat : j + 1 <= Len(vs) =>
                    Takes(d, f, vs[j + 1], mixed[j], mixed[j + 1])
  <2> DEFINE mixed == [j \in Nat |-> MergeMessages(d, u, m)]
  <2>1. Partial(d, w, Before(c, k + 1)) = m
    <3>1. \A x \in NumbersOf(d) : x = f.number => w[x] = <<>>
      <4> SUFFICES ASSUME NEW g \in d.fields, g.number = f.number PROVE w[g.number] = <<>>
        BY DEF NumbersOf
      <4> QED BY <1>2, <1>5, OtherField
    <3>2. \A x \in NumbersOf(d) :
            (IF x \in Before(c, k + 1) THEN w[x] ELSE <<>>) = IF x \in done THEN w[x] ELSE <<>>
      BY <1>2, <3>1
    <3> QED BY <3>2 DEF Partial
  <2>2. \A j \in Nat : mixed[j] = MergeMessages(d, u, m) /\ j + 1 \in Nat BY SMT
  <2>3. ASSUME NEW j \in Nat PROVE Takes(d, f, vs[j + 1], mixed[j], mixed[j + 1])
    <3>1. mixed[j + 1] = mixed[j] BY <2>2
    <3> HIDE DEF mixed
    <3> QED BY <1>5, <3>1 DEF Takes
  <2>4. /\ mixed[0] = MergeMessages(d, u, m)
        /\ mixed[Len(vs)] = MergeMessages(d, u, Partial(d, w, Before(c, k + 1)))
    BY <1>3, <2>1, <2>2
  <2> HIDE DEF mixed
  <2> QED BY <2>3, <2>4
<1> QED BY <1>4, <1>5 DEF done

\* Three places, one after the other.
LEMMA ThreePlaces ==
    ASSUME NEW p \in Nat, NEW x \in Nat, NEW a \in Nat, NEW d \in Nat,
           NEW y, y = x + a, NEW z, z = y + d
    PROVE  p + x \in Nat /\ p + y = (p + x) + a /\ p + z = (p + y) + d
BY SMT

\* The bytes of a field's keys and values, before those of the fields after it.
LEMMA FieldSaid ==
    ASSUME NEW c \in MessageCoders, NEW msg \in ValuesOf(c), NEW k \in 1 .. Len(c.order),
           NEW f, f = c.order[k], NEW room \in 0 .. Capacity, NEW b \in Spans(room), NEW p \in Nat,
           p + EntrySize(Fields(c, msg, k)) <= room,
           NEW t, t = FieldValues(f, msg[f.number]), Spells(room, b, t, p),
           Says(room, b, Fields(c, msg, k + 1), p + Owed(t))
    PROVE  Says(room, b, Fields(c, msg, k), p)
<1>0. LaysOut(room, b, Pieces(c, msg, k), p)
  <2>1. LaysOut(room, b, Pieces(c, msg, k + 1), p + Owed(t)) BY DEF Says, Fields
  <2> QED BY <2>1, PiecesLaid
<1> SUFFICES ASSUME NEW d \in VersionsOf(c), NEW u, IsMessage(d, u)
             PROVE  Adds(room, b, d, MergeMessages(d, u, Partial(d, View(c, d, msg), Before(c, k))),
                         MergeMessages(d, u, View(c, d, msg)), p, p + EntrySize(Fields(c, msg, k)))
  BY <1>0 DEF Says, Fields
<1> DEFINE seen == View(c, d, msg)
           all == MergeMessages(d, u, seen)
<1> SUFFICES ASSUME NEW end \in p + EntrySize(Fields(c, msg, k)) .. room, NEW w,
                    Completes(b, room, d, all, w, p + EntrySize(Fields(c, msg, k)), end)
             PROVE  Completes(b, room, d, MergeMessages(d, u, Partial(d, seen, Before(c, k))),
                              w, p, end)
  BY DEF Adds
<1> DEFINE vs == msg[f.number]
           n == Len(vs)
           U == UpTo(Sizes(t))
           whole == EntrySize(Fields(c, msg, k))
           rest == EntrySize(Fields(c, msg, k + 1))
           owed == Owed(t)
           key == VarintSkip(Key(f))
           hi == p + whole
           before == MergeMessages(d, u, Partial(d, seen, Before(c, k)))
           after == MergeMessages(d, u, Partial(d, seen, Before(c, k + 1)))
<1>17. PICK mixed : /\ mixed[0] = before /\ mixed[n] = after
                   /\ \A j \in Nat : j + 1 <= n =>
                        Takes(d, f, vs[j + 1], mixed[j], mixed[j + 1])
  <2>1. Mixes(c, msg, k, d, u) BY FieldTaken
  <2> QED BY <2>1 DEF Mixes
<1> DEFINE P == {j \in Nat : j <= n => Completes(b, room, d, mixed[j], w, p + U[2 * j], end)}
<1>1. /\ c \in Coders /\ d \in MessageCoders /\ f \in c.fields
      /\ vs \in Seq(ValuesOf(f.coder)) /\ f.coder \in Coders
  BY OrderIs, VersionFields, EncoderAssumption DEF MessageCoders
<1>2. /\ n \in Nat
      /\ \A j \in Nat : j + 1 <= n => vs[j + 1] \in ValuesOf(f.coder)
  <2> DEFINE S == ValuesOf(f.coder)
  <2>1. vs \in Seq(S) BY <1>1
  <2> HIDE DEF vs, S
  <2>2. n \in Nat /\ \A j \in Nat : j + 1 <= n => vs[j + 1] \in S BY <2>1, Prefixes
  <2> QED BY <2>2 DEF S
<1> HIDE DEF before, after, all
<1>3. /\ t \in Seq(Entries) /\ whole = owed + rest /\ Fields(c, msg, k + 1) \in Entries
  BY FieldsSize
<1>4. owed \in Nat /\ rest \in Nat /\ room \in Nat
  BY <1>3, SizesType, EntrySizeNat, RoomNat
<1>5. /\ hi = (p + owed) + rest /\ hi \in 0 .. room /\ end \in 0 .. room /\ end \in hi..room
      /\ Completes(b, room, d, all, w, hi, end)
  <2>0. /\ hi = p + whole /\ end \in hi..room
        /\ Completes(b, room, d, all, w, hi, end)
    OBVIOUS
  <2>1. p + whole <= room OBVIOUS
  <2> HIDE DEF whole, owed, rest
  <2>2. hi = (p + owed) + rest /\ hi \in 0 .. room BY <1>3, <1>4, <2>1, SMT
  <2> HIDE DEF hi
  <2>3. end \in 0 .. room BY <1>4, <2>0, <2>2, SMT
  <2> QED BY <2>0, <2>2, <2>3
<1>6. /\ DOMAIN t = 1 .. 2 * n
      /\ \A j \in 1 .. 2 * n : t[j] = IF j % 2 = 1 THEN Varint(Key(f))
                                      ELSE Value(f.coder, vs[j \div 2])
  BY DEF FieldValues
<1>7. 2 * n \in Nat /\ Len(t) = 2 * n
  <2>1. 2 * n \in Nat
    <3> HIDE DEF n
    <3> QED BY <1>2, SMT
  <2> DEFINE l == 2 * n
  <2>2. DOMAIN t = 1..l /\ l \in Nat BY <1>6, <2>1
  <2> HIDE DEF l
  <2>3. Len(t) = l BY <1>3, <2>2, SMT
  <2> QED BY <2>1, <2>3 DEF l
<1>8. /\ U[0] = 0 /\ Total(Sizes(t)) = U[Len(Sizes(t))]
      /\ \A j \in Nat : U[j + 1] = U[j] + Sizes(t)[j + 1]
  BY UpToStep
<1>9. /\ Sizes(t) \in Seq(Nat) /\ Len(Sizes(t)) = 2 * n /\ owed = Total(Sizes(t))
      /\ \A j \in 0 .. 2 * n : U[j] \in Nat
  <2>1. Sizes(t) \in Seq(Nat) /\ Len(Sizes(t)) = 2 * n /\ owed = Total(Sizes(t))
    BY <1>3, <1>7, SizesType
  <2>2. \A j \in 0 .. Len(Sizes(t)) : U[j] \in Nat BY <2>1, TotalNat
  <2> QED BY <2>1, <2>2
<1>10. \A j \in 1 .. 2 * n : Sizes(t)[j] = EntrySize(t[j]) BY <1>6 DEF Sizes
<1>11. \A j \in 1 .. 2 * n : Says(room, b, t[j], p + U[j - 1]) BY <1>6 DEF Spells
<1>12. key \in Nat BY <1>1, KeyNat, VarintSkipNat
<1> HIDE DEF U, vs, n
<1>13. n \in P
  <2>1. U[2 * n] = owed BY <1>8, <1>9, Zenon
  <2>2. Adds(room, b, d, after, all, p + owed, (p + owed) + rest)
    BY DEF Says, Fields, after, all
  <2> HIDE DEF hi, owed, n, rest
  <2>3. Completes(b, room, d, mixed[n], w, p + owed, end) BY <1>5, <1>17, <2>2 DEF Adds
  <2> QED BY <1>2, <2>1, <2>3, Zenon
<1>14. ASSUME NEW j \in Nat, j + 1 <= n, j + 1 \in P PROVE j \in P
  <2>1. /\ 2 * j \in Nat /\ 2 * j + 1 \in Nat
        /\ 2 * j + 1 \in 1 .. 2 * n /\ (2 * j + 1) + 1 \in 1 .. 2 * n
        /\ (2 * j + 1) % 2 = 1 /\ ((2 * j + 1) + 1) % 2 # 1
        /\ ((2 * j + 1) + 1) \div 2 = j + 1 /\ (2 * j + 1) + 1 = 2 * (j + 1)
    <3> HIDE DEF n
    <3> QED BY <1>2, <1>14, Pairs
  <2> DEFINE v == vs[j + 1]
             size == ValueSkip(f.coder, v)
             x == U[2 * j]
             y == U[2 * j + 1]
             z == U[2 * (j + 1)]
  <2>2. v \in ValuesOf(f.coder) BY <1>2, <1>14
  <2>3. size \in Nat BY <1>1, <2>2, ValueSkipNat
  <2>4. t[2 * j + 1] = Varint(Key(f)) /\ t[(2 * j + 1) + 1] = Value(f.coder, v)
    <3> HIDE DEF n, vs
    <3>1. t[2 * j + 1] = Varint(Key(f)) BY <1>6, <2>1
    <3>2. t[(2 * j + 1) + 1] = Value(f.coder, vs[((2 * j + 1) + 1) \div 2]) BY <1>6, <2>1, Zenon
    <3> QED BY <2>1, <3>1, <3>2
  <2>5. EntrySize(Varint(Key(f))) = key BY DEF EntrySize, Varint
  <2>6. EntrySize(Value(f.coder, v)) = size BY <1>1, <2>2, ValueSize
  <2>7. y = x + key
    <3>1. U[2 * j + 1] = U[2 * j] + Sizes(t)[2 * j + 1] BY <1>8, <2>1
    <3>2. Sizes(t)[2 * j + 1] = key BY <1>10, <2>1, <2>4, <2>5
    <3> QED BY <3>1, <3>2
  <2>8. z = y + size
    <3>1. U[(2 * j + 1) + 1] = U[2 * j + 1] + Sizes(t)[(2 * j + 1) + 1] BY <1>8, <2>1
    <3>2. Sizes(t)[(2 * j + 1) + 1] = size BY <1>10, <2>1, <2>4, <2>6
    <3> QED BY <2>1, <3>1, <3>2
  <2>9. x \in Nat
    <3>1. 2 * j \in 0 .. 2 * n
      <4> HIDE DEF n
      <4> QED BY <1>7, <2>1, SMT
    <3> QED BY <1>9, <3>1
  <2>10. Says(room, b, Varint(Key(f)), p + x)
    <3>1. Says(room, b, t[2 * j + 1], p + U[(2 * j + 1) - 1]) BY <1>11, <2>1
    <3>2. (2 * j + 1) - 1 = 2 * j BY <2>1, SMT
    <3> QED BY <2>4, <3>1, <3>2
  <2>11. Says(room, b, Value(f.coder, v), p + y)
    <3>1. Says(room, b, t[(2 * j + 1) + 1], p + U[((2 * j + 1) + 1) - 1]) BY <1>11, <2>1
    <3>2. ((2 * j + 1) + 1) - 1 = 2 * j + 1 BY <2>1, SMT
    <3> QED BY <2>4, <3>1, <3>2
  <2>12. /\ Completes(b, room, d, mixed[j + 1], w, p + z, end)
         /\ Takes(d, f, v, mixed[j], mixed[j + 1])
    BY <1>14, <1>17
  <2> HIDE DEF x, y, z, v, size, key, hi, n
  <2>13. /\ p + x \in Nat /\ p + y = (p + x) + key /\ p + z = (p + y) + size
    BY ONLY p \in Nat, <1>12, <2>3, <2>7, <2>8, <2>9, ThreePlaces
  <2>14. Completes(b, room, d, mixed[j], w, p + x, end)
    <3> DEFINE lo == p + x
               old == mixed[j]
               new == mixed[j + 1]
    <3>1. /\ lo \in Nat /\ Says(room, b, Varint(Key(f)), lo)
          /\ Says(room, b, Value(f.coder, v), lo + VarintSkip(Key(f)))
          /\ Takes(d, f, v, old, new)
          /\ Completes(b, room, d, new, w,
                       (lo + VarintSkip(Key(f))) + ValueSkip(f.coder, v), end)
      BY <2>10, <2>11, <2>12, <2>13 DEF key, size
    <3>2. f \in c.fields /\ v \in ValuesOf(f.coder) /\ end \in 0 .. room /\ d \in MessageCoders
      BY <1>1, <1>5, <2>2
    <3> HIDE DEF lo, old, new
    <3>3. Completes(b, room, d, old, w, lo, end) BY <3>1, <3>2, PairFirst
    <3> QED BY <3>3 DEF lo, old
  <2> QED BY <2>14 DEF x
<1>15. 0 \in P
  <2> HIDE DEF P, n
  <2> QED BY <1>2, <1>13, <1>14, Backward, Zenon
<1>16. Completes(b, room, d, mixed[0], w, p, end)
  <2>1. 0 <= n
    <3> HIDE DEF n
    <3> QED BY <1>2, SMT
  <2>2. Completes(b, room, d, mixed[0], w, p + U[2 * 0], end) BY <1>15, <2>1
  <2>3. 2 * 0 = 0 /\ p + 0 = p BY SMT
  <2> QED BY <1>8, <2>2, <2>3
<1> QED BY <1>16, <1>17 DEF before

\* An element before the others.
LEMMA ElementBefore ==
    ASSUME NEW c \in Coders, c.kind = "array", NEW e \in ValuesOf(c.elem), NEW d \in VersionsOf(c),
           NEW room \in 0 .. Capacity, NEW b \in Spans(room), NEW lo \in Nat, NEW hi \in 0 .. room,
           Says(room, b, Value(c.elem, e), lo), NEW u, NEW v,
           Completes(b, room, d, Append(u, View(c.elem, d.elem, e)), v,
                     lo + ValueSkip(c.elem, e), hi)
    PROVE  Completes(b, room, d, u, v, lo, hi)
<1> DEFINE end == lo + ValueSkip(c.elem, e)
           size == ValueSkip(c.elem, e)
           seen == View(c.elem, d.elem, e)
<1>1. /\ d \in LoopCoders /\ d.kind = "array" /\ d.elem \in VersionsOf(c.elem)
      /\ c.elem \in Coders /\ room \in Nat
  BY VersionIs, SchemaAssumption, RoomNat DEF LoopCoders
<1>2. Completes(b, room, d, Append(u, seen), v, end, hi) OBVIOUS
<1>3. end = lo + size /\ size \in Nat BY <1>1, ValueSkipNat
<1> HIDE DEF size
<1>4. end \in Nat BY <1>3, SMT
<1>5. lo + ValueSkip(c.elem, e) = end OBVIOUS
<1> HIDE DEF end
<1>6. end <= hi BY <1>1, <1>2, <1>4, CompletesPlace
<1>7. Found(end, seen) \in ValueAt(b, Contents(b, room), d.elem, lo, hi)
  BY <1>1, <1>5, <1>6, ValueFound
<1> QED BY <1>1, <1>2, <1>7, ElementFirst

\* The bytes of the elements of an array, one after the other.
LEMMA ElementsSaid ==
    ASSUME NEW c \in Coders, c.kind = "array", NEW v \in ValuesOf(c),
           NEW room \in 0 .. Capacity, NEW b \in Spans(room),
           NEW p \in Nat, p + ContentSkip(c, v) <= room,
           NEW t, t = [j \in DOMAIN v |-> Value(c.elem, v[j])], Spells(room, b, t, p),
           NEW d \in VersionsOf(c)
    PROVE  Completes(b, room, d, <<>>, View(c, d, v), p, p + ContentSkip(c, v))
<1> DEFINE n == Len(v)
           U == UpTo(Sizes(t))
           size == ContentSkip(c, v)
           hi == p + size
           S == ValuesOf(c.elem)
           T == ValuesOf(d.elem)
           w == View(c, d, v)
           P == {j \in Nat : j <= n =>
                    Completes(b, room, d, SubSeq(w, 1, j), w, p + U[j], hi)}
<1>1. /\ v \in Seq(S) /\ c.elem \in Coders /\ w \in Seq(T) /\ d \in LoopCoders
      /\ w = [j \in DOMAIN v |-> View(c.elem, d.elem, v[j])]
  <2>1. d \in Coders /\ d.kind = "array" /\ w \in ValuesOf(d) BY VersionIs
  <2>2. w = [j \in DOMAIN v |-> View(c.elem, d.elem, v[j])]
    BY VersionsAssumption, Zenon DEF VersionsOf
  <2> QED BY <2>1, <2>2, EncoderAssumption, SchemaAssumption DEF LoopCoders
<1>2. /\ n \in Nat /\ DOMAIN v = 1..n
      /\ \A j \in Nat : j + 1 <= n => v[j + 1] \in S
  <2> HIDE DEF S
  <2> QED BY <1>1, Prefixes, SMT
<1>13. /\ SubSeq(w, 1, 0) = <<>> /\ SubSeq(w, 1, n) = w
      /\ \A j \in Nat : j + 1 <= n =>
           Append(SubSeq(w, 1, j), View(c.elem, d.elem, v[j + 1])) = SubSeq(w, 1, j + 1)
  <2>1. DOMAIN w = 1..n BY <1>1, <1>2
  <2>2. ASSUME NEW j \in Nat, j + 1 <= n PROVE w[j + 1] = View(c.elem, d.elem, v[j + 1])
    <3>1. j + 1 \in DOMAIN v
      <4> HIDE DEF n
      <4> QED BY <1>2, <2>2, SMT
    <3> QED BY <1>1, <3>1
  <2>3. n \in Nat /\ w \in Seq(T) BY <1>1, <1>2
  <2> HIDE DEF w, T, n
  <2>4. Len(w) = n BY <2>1, <2>3, SMT
  <2> QED BY <2>2, <2>3, <2>4, Prefixes
<1>3. t \in Seq(Entries) /\ Owed(t) = size BY ElementsSize
<1>4. DOMAIN t = 1..n /\ \A j \in 1..n : t[j] = Value(c.elem, v[j]) BY <1>2
<1>5. /\ Sizes(t) \in Seq(Nat) /\ Len(Sizes(t)) = n /\ size = Total(Sizes(t)) /\ size \in Nat
      /\ \A j \in 0..n : U[j] \in Nat
      /\ \A j \in 1..n : Sizes(t)[j] = EntrySize(t[j])
  <2>1. Len(t) = n
    <3> HIDE DEF n
    <3> QED BY <1>2, <1>3, <1>4, SMT
  <2>2. Sizes(t) \in Seq(Nat) /\ Len(Sizes(t)) = n /\ size = Total(Sizes(t)) /\ size \in Nat
    BY <1>3, <2>1, SizesType
  <2>3. \A j \in 0 .. Len(Sizes(t)) : U[j] \in Nat BY <2>2, TotalNat
  <2>4. \A j \in 1..n : Sizes(t)[j] = EntrySize(t[j]) BY <1>4 DEF Sizes
  <2> QED BY <2>2, <2>3, <2>4
<1>6. /\ U[0] = 0 /\ Total(Sizes(t)) = U[Len(Sizes(t))]
      /\ \A j \in Nat : U[j + 1] = U[j] + Sizes(t)[j + 1]
  BY UpToStep
<1>7. \A j \in 1..n : Says(room, b, t[j], p + U[j - 1]) BY <1>4 DEF Spells
<1>8. hi \in 0 .. room /\ room \in Nat
  <2>1. room \in Nat BY RoomNat
  <2>2. p + size <= room OBVIOUS
  <2> HIDE DEF size
  <2> QED BY <1>5, <2>1, <2>2, SMT
<1> HIDE DEF S
<1>9. n \in P
  <2>1. U[n] = size BY <1>5, <1>6
  <2>2. hi \in Nat
    <3> HIDE DEF hi
    <3> QED BY <1>8, SMT
  <2> HIDE DEF U, n, size
  <2>3. Completes(b, room, d, w, w, hi, hi)
    <3> HIDE DEF hi
    <3> QED BY <1>1, <1>8, NothingMore
  <2> QED BY <1>2, <1>13, <2>1, <2>3
<1>10. ASSUME NEW j \in Nat, j + 1 <= n, j + 1 \in P PROVE j \in P
  <2> DEFINE e == v[j + 1]
             x == U[j]
             y == U[j + 1]
             a == ValueSkip(c.elem, e)
             u == SubSeq(w, 1, j)
             s == View(c.elem, d.elem, e)
  <2>1. e \in S /\ Append(u, s) = SubSeq(w, 1, j + 1) BY <1>2, <1>10, <1>13
  <2>2. j + 1 \in 1..n /\ j \in 0..n /\ (j + 1) - 1 = j
    <3> HIDE DEF n
    <3> QED BY <1>2, <1>10, SMT
  <2>3. y = x + a
    <3>1. U[j + 1] = U[j] + Sizes(t)[j + 1] BY <1>6
    <3>2. Sizes(t)[j + 1] = EntrySize(Value(c.elem, e)) BY <1>4, <1>5, <2>2
    <3>3. EntrySize(Value(c.elem, e)) = a BY <1>1, <2>1, ValueSize DEF S
    <3> QED BY <3>1, <3>2, <3>3
  <2>4. Says(room, b, Value(c.elem, e), p + x)
    <3>1. Says(room, b, t[j + 1], p + U[(j + 1) - 1]) BY <1>7, <2>2
    <3> QED BY <1>4, <2>2, <3>1
  <2>5. Completes(b, room, d, Append(u, s), w, p + y, hi) BY <1>10, <2>1
  <2>6. x \in Nat /\ a \in Nat BY <1>1, <1>5, <2>1, <2>2, ValueSkipNat DEF S
  <2>7. e \in ValuesOf(c.elem) BY <2>1 DEF S
  <2>11. s = View(c.elem, d.elem, e) OBVIOUS
  <2> HIDE DEF e, x, y, u, hi, n, s, w
  <2>8. p + x \in Nat /\ p + y = (p + x) + ValueSkip(c.elem, e)
    <3>1. a = ValueSkip(c.elem, e) OBVIOUS
    <3> HIDE DEF a
    <3> QED BY <2>3, <2>6, <3>1, SMT
  <2>9. Completes(b, room, d, u, w, p + x, hi)
    <3> DEFINE lo == p + x
    <3>1. /\ lo \in Nat /\ Says(room, b, Value(c.elem, e), lo)
          /\ Completes(b, room, d, Append(u, View(c.elem, d.elem, e)), w,
                       lo + ValueSkip(c.elem, e), hi)
      BY <2>4, <2>5, <2>8, <2>11
    <3> HIDE DEF lo
    <3>2. Completes(b, room, d, u, w, lo, hi) BY <1>8, <2>7, <3>1, ElementBefore
    <3> QED BY <3>2 DEF lo
  <2> QED BY <2>9 DEF x, u, w
<1>11. 0 \in P
  <2> HIDE DEF P, n
  <2> QED BY <1>2, <1>9, <1>10, Backward
<1>12. Completes(b, room, d, <<>>, w, p, hi)
  <2>1. 0 <= n
    <3> HIDE DEF n
    <3> QED BY <1>2, SMT
  <2>2. Completes(b, room, d, <<>>, w, p + U[0], hi) BY <1>13, <1>11, <2>1
  <2>3. p + 0 = p BY SMT
  <2> QED BY <1>6, <2>2, <2>3
<1> QED BY <1>12

\* The length of an array or a message before its content.
LEMMA LengthFirst ==
    ASSUME NEW c \in LoopCoders, NEW v \in ValuesOf(c), NEW d \in VersionsOf(c), NEW w, w = View(c, d, v),
           NEW room \in 0 .. Capacity, NEW b \in Spans(room),
           NEW p \in Nat, p + ValueSkip(c, v) <= room,
           NEW m, m = ContentSkip(c, v), Says(room, b, Varint(m), p),
           Completes(b, room, d, EmptyValue(d), w, p + VarintSkip(m), (p + VarintSkip(m)) + m)
    PROVE  \A end \in p + ValueSkip(c, v) .. room :
              Found(p + ValueSkip(c, v), w) \in ValueAt(b, Contents(b, room), d, p, end)
<1> DEFINE a == VarintSkip(m)
           size == ValueSkip(c, v)
<1>1. c \in Coders /\ c.kind \in {"array", "message"} BY DEF LoopCoders
<1>12. d \in LoopCoders /\ d.kind = c.kind /\ (c.kind = "array" => d.reserves = c.reserves)
  BY <1>1, VersionIs DEF LoopCoders
<1>2. m \in Nat BY <1>1, EncoderAssumption
<1>3. size = m + a BY <1>1 DEF ValueSkip
<1>4. a \in Nat BY <1>2, VarintSkipNat
<1>5. room \in Nat /\ LenWord \in Nat /\ room < LenWord /\ LenWord > 1
  BY RoomNat, ValuesAssumption
<1>6. d.kind = "array" /\ d.reserves => m <= MaxReserve BY <1>1, <1>12, ValuesAssumption
<1>7. p + size <= room /\ Completes(b, room, d, EmptyValue(d), w, p + a, (p + a) + m)
  OBVIOUS
<1> SUFFICES ASSUME NEW end \in p + size .. room
             PROVE  Found(p + size, w) \in ValueAt(b, Contents(b, room), d, p, end)
  OBVIOUS
<1> HIDE DEF size
<1>8. p + a = p + VarintSkip(m) OBVIOUS
<1> HIDE DEF a
<1>9. /\ p + size = (p + a) + m /\ end \in Nat /\ end \in 0 .. room /\ m < LenWord
      /\ p + a <= end /\ (p + a) + m <= end
  BY <1>2, <1>3, <1>4, <1>5, <1>7, SMT
<1>10. Found(p + a, m) \in VarintAt(b, p, end, LenWord, LenWord)
  BY <1>2, <1>5, <1>8, <1>9, NumberFound
<1>11. Found((p + a) + m, w) \in ValueAt(b, Contents(b, room), d, p, end)
  <2> DEFINE mid == p + a
  <2>1. /\ Found(mid, m) \in VarintAt(b, p, end, LenWord, LenWord) /\ mid + m <= end
        /\ Completes(b, room, d, EmptyValue(d), w, mid, mid + m)
    BY <1>7, <1>9, <1>10
  <2> HIDE DEF mid
  <2>2. Found(mid + m, w) \in ValueAt(b, Contents(b, room), d, p, end)
    BY <1>12, <1>5, <1>6, <1>9, <2>1, LongValue
  <2> QED BY <2>2 DEF mid
<1> QED BY <1>9, <1>11

-----------------------------------------------------------------------------
(* Every step says what the call it replaces is to say.                    *)

\* Calls that say what the call they replace is to say.
LEMMA SpellsTodo ==
    ASSUME TypeOK, todo # <<>>, NEW room, NEW b, NEW s \in Seq(Entries), Owed(s) = EntrySize(now),
           Spells(room, b, s \o Tail(todo), pos), Spells(room, b, s, pos) => Says(room, b, now, pos)
    PROVE  Spells(room, b, todo, pos)
<1>1. now \in Entries /\ Tail(todo) \in Seq(Entries) BY HeadType
<1>2. pos \in Nat BY SMT DEF TypeOK
<1>3. Spells(room, b, s, pos) /\ Spells(room, b, Tail(todo), pos + Owed(s))
      BY <1>1, <1>2, SpellsConcat
<1>4. <<now>> \in Seq(Entries) /\ Owed(<<now>>) = EntrySize(now) BY <1>1, OwedOne
<1>5. Spells(room, b, <<now>>, pos) BY <1>1, <1>2, <1>3, SpellsOne
<1>6. Spells(room, b, Tail(todo), pos + Owed(<<now>>)) BY <1>3, <1>4
<1>7. Spells(room, b, <<now>> \o Tail(todo), pos) BY <1>1, <1>2, <1>4, <1>5, <1>6, SpellsConcat
<1> QED BY <1>7, HeadFirst

\* Before its first field a reader has nothing of a message, and after its last
\* all that it will see.
LEMMA PartialIsWhole ==
    ASSUME NEW c \in MessageCoders, NEW msg \in ValuesOf(c), NEW d \in VersionsOf(c),
           NEW w, w = View(c, d, msg)
    PROVE  /\ Partial(d, w, Before(c, Len(c.order) + 1)) = w
           /\ Partial(d, w, Before(c, 1)) = EmptyMessage(d)
<1>1. /\ c \in Coders /\ c.kind = "message" /\ d \in Coders /\ d.kind = "message"
      /\ w \in ValuesOf(d)
  BY VersionIs DEF MessageCoders
<1>2. Len(c.order) \in Nat /\ DOMAIN c.order = 1 .. Len(c.order)
  <2>1. c.order \in Seq(c.fields) BY <1>1, SchemaAssumption
  <2>2. \A S, q : q \in Seq(S) => Len(q) \in Nat /\ DOMAIN q = 1 .. Len(q) BY SMT
  <2> QED BY <2>1, <2>2
<1>3. (Len(c.order) + 1) - 1 = Len(c.order) /\ 1 .. 1 - 1 = {} BY <1>2, SMT
<1>4. ASSUME NEW f \in c.fields PROVE f.number \in Before(c, Len(c.order) + 1)
  <2>1. \E j \in DOMAIN c.order : c.order[j] = f BY <1>1, SchemaAssumption
  <2> QED BY <1>2, <1>3, <2>1 DEF Before
<1>5. w = [x \in NumbersOf(d) |-> w[x]] BY <1>1, ValuesAssumption
<1>6. \A x \in NumbersOf(d) : x \notin Before(c, Len(c.order) + 1) => w[x] = <<>>
  <2> SUFFICES ASSUME NEW g \in d.fields, g.number \notin Before(c, Len(c.order) + 1)
               PROVE  w[g.number] = <<>>
    BY DEF NumbersOf
  <2>1. \A f \in c.fields : f.number # g.number BY <1>4
  <2> QED BY <2>1, OtherField
<1>7. Partial(d, w, Before(c, Len(c.order) + 1)) = [x \in NumbersOf(d) |-> w[x]]
  BY <1>6 DEF Partial
<1>8. Before(c, 1) = {} BY <1>3 DEF Before
<1>9. Partial(d, w, Before(c, 1)) = EmptyMessage(d) BY <1>8 DEF Partial, EmptyMessage
<1> QED BY <1>5, <1>7, <1>9

\* A loop that is over has nothing more to say.
LEMMA EndSaid ==
    ASSUME NEW c \in MessageCoders, NEW msg \in ValuesOf(c), NEW room, NEW b,
           NEW k, k = Len(c.order) + 1, EntrySize(Fields(c, msg, k)) = 0, NEW p \in Nat
    PROVE  Says(room, b, Fields(c, msg, k), p)
<1>1. \A d \in VersionsOf(c) : Partial(d, View(c, d, msg), Before(c, k)) = View(c, d, msg)
  BY PartialIsWhole
<1>2. p + 0 = p BY SMT
<1>3. Pieces(c, msg, k) = <<>>
  <2>1. c.order \in Seq(c.fields) BY SchemaAssumption DEF MessageCoders
  <2>2. \A S, q : q \in Seq(S) =>
          Len(q) \in Nat /\ Len(q) + 1 \in Nat /\ Len(q) + 1 > Len(q)
    BY SMT
  <2>3. Len(c.order) \in Nat /\ k \in Nat /\ k > Len(c.order) BY <2>1, <2>2
  <2> QED BY <2>3, PiecesStep
<1>4. LaysOut(room, b, Pieces(c, msg, k), p) BY <1>3, LaysNone
<1> QED BY <1>1, <1>2, <1>4 DEF Says, Fields, Adds

\* A value is a message, and merging it into an empty one gives the value.
LEMMA MergeEmpty ==
    ASSUME NEW c \in MessageCoders, NEW v \in ValuesOf(c)
    PROVE  IsMessage(c, v) /\ MergeMessages(c, EmptyMessage(c), v) = v
<1> DEFINE E == EmptyMessage(c)
           L == MergeMessages(c, E, v)
<1>1. c \in Coders /\ c.kind = "message" BY DEF MessageCoders
<1>2. v = [x \in NumbersOf(c) |-> v[x]] BY <1>1, ValuesAssumption
<1>3. \A f \in c.fields : v[f.number] \in Seq(ValuesOf(f.coder)) /\ Holds(f, v[f.number])
  BY <1>1, EncoderAssumption, ValuesAssumption
<1>4. IsMessage(c, v) BY <1>2, <1>3 DEF IsMessage, IsSeq
<1>5. ASSUME NEW f \in c.fields PROVE L[f.number] = v[f.number]
  <2> DEFINE vs == v[f.number]
             S == ValuesOf(f.coder)
             n == Len(vs)
             P == {j \in Nat : j <= n => MergeField(f, <<>>, SubSeq(vs, 1, j)) = SubSeq(vs, 1, j)}
  <2>1. vs \in Seq(S) /\ Holds(f, vs) BY <1>3
  <2>2. f.attr \in Attributes /\ IsSeq(<<>>)
    <3>1. <<>> \in Seq({}) BY SMT
    <3> QED BY <1>1, <3>1, SchemaAssumption DEF IsSeq
  <2>3. /\ SubSeq(vs, 1, 0) = <<>> /\ SubSeq(vs, 1, n) = vs /\ n \in Nat
        /\ \A j \in Nat : j + 1 <= n =>
             vs[j + 1] \in S /\ Append(SubSeq(vs, 1, j), vs[j + 1]) = SubSeq(vs, 1, j + 1)
    <3> HIDE DEF vs, S
    <3> QED BY <2>1, Prefixes
  <2>4. 0 \in P BY <2>2, <2>3, MergeFieldNone
  <2>5. ASSUME NEW j \in Nat, j \in P PROVE j + 1 \in P
    <3> DEFINE p == SubSeq(vs, 1, j)
               q == SubSeq(vs, 1, j + 1)
               e == vs[j + 1]
    <3>1. SUFFICES ASSUME j + 1 <= n PROVE MergeField(f, <<>>, q) = q BY SMT
    <3>2. j <= n /\ j + 1 \in DOMAIN vs /\ (j + 1) - 1 = j
      <4> HIDE DEF vs, S
      <4> QED BY <2>1, <3>1, SMT
    <3>3. e \in S /\ Append(p, e) = q BY <2>3, <3>1
    <3>4. p \in Seq(S)
      <4> HIDE DEF vs, S
      <4> QED BY <2>1, <3>1, SMT
    <3>5. Pushed(f, p, e) = q
      <4> DEFINE one == [x \in {f.number} |-> p]
      <4>1. PushField(one, f, e)[f.number] = q BY <2>1, <3>2 DEF Holds
      <4>2. PushField(one, f, e) = [one EXCEPT ![f.number] = Pushed(f, one[f.number], e)]
        BY PushFieldIs
      <4>3. one[f.number] = p /\ DOMAIN one = {f.number} OBVIOUS
      <4> HIDE DEF one, p, q, e
      <4> QED BY <4>1, <4>2, <4>3
    <3>6. MergeField(f, <<>>, p) = p BY <2>5, <3>2
    <3> HIDE DEF p, q, e, S
    <3>7. Pushed(f, MergeField(f, <<>>, p), e) = MergeField(f, <<>>, Append(p, e))
      BY <2>2, <3>3, <3>4, <3>5, MergePush
    <3> QED BY <3>3, <3>5, <3>6, <3>7
  <2>6. n \in P
    <3> HIDE DEF P, n
    <3> QED BY <2>3, <2>4, <2>5, Powers!Induct
  <2>7. MergeField(f, <<>>, vs) = vs
    <3>1. n <= n BY <2>3, SMT
    <3> QED BY <2>3, <2>6, <3>1
  <2>8. E[f.number] = <<>> BY DEF EmptyMessage, NumbersOf
  <2> QED BY <1>1, <2>7, <2>8, MergeAt
<1>6. L = [x \in NumbersOf(c) |-> L[x]] BY DEF MergeMessages
<1>7. \A x \in NumbersOf(c) : L[x] = v[x]
  <2> HIDE DEF L
  <2> QED BY <1>5 DEF NumbersOf
<1> HIDE DEF L
<1>8. L = [x \in NumbersOf(c) |-> v[x]] BY <1>6, <1>7
<1> QED BY <1>2, <1>4, <1>8 DEF L

\* The fields of a message, from the first one on, say it to an empty message.
LEMMA BodySaid ==
    ASSUME NEW c \in MessageCoders, NEW v \in ValuesOf(c), NEW room \in 0 .. Capacity,
           NEW b \in Spans(room), NEW p \in Nat, NEW e \in Entries,
           e.do = "body", e.coder = c, e.v = v, p + EntrySize(e) <= room,
           Says(room, b, Fields(c, v, 1), p)
    PROVE  Says(room, b, e, p)
<1> SUFFICES ASSUME NEW d \in VersionsOf(c)
             PROVE  Completes(b, room, d, EmptyMessage(d), View(c, d, v), p, p + EntrySize(e))
  BY DEF Says, SaysValue
<1> DEFINE E == EmptyMessage(d)
           w == View(c, d, v)
           size == EntrySize(e)
           hi == p + size
<1>1. /\ c \in Coders /\ c.kind = "message"
      /\ d \in MessageCoders /\ d \in Coders /\ d.kind = "message" /\ d \in LoopCoders
      /\ w \in ValuesOf(d)
  BY VersionIs, VersionFields DEF MessageCoders, LoopCoders
<1>2. EntrySize(Fields(c, v, 1)) = size
  <2>1. size = ContentSkip(c, v) BY DEF EntrySize
  <2> QED BY <2>1, MessageSize
<1>3. IsMessage(d, E) /\ MergeMessages(d, E, E) = E BY <1>1, EmptyIsMessage, MergeNothing
<1>4. Partial(d, w, Before(c, 1)) = E /\ MergeMessages(d, E, w) = w
  <2>1. ASSUME NEW x, x = w PROVE Partial(d, x, Before(c, 1)) = EmptyMessage(d)
    BY <2>1, PartialIsWhole
  <2>2. MergeMessages(d, E, w) = w
    <3> HIDE DEF w
    <3> QED BY <1>1, MergeEmpty
  <2> QED BY <2>1, <2>2
<1>5. Adds(room, b, d, E, w, p, hi)
  <2>1. Adds(room, b, d, MergeMessages(d, E, Partial(d, w, Before(c, 1))),
             MergeMessages(d, E, w), p, hi)
    <3> DEFINE first == Fields(c, v, 1)
    <3>1. /\ first.do = "fields" /\ first.coder = c /\ first.v = v /\ first.k = 1
          /\ Says(room, b, first, p) /\ EntrySize(first) = size
      BY <1>2 DEF Fields
    <3> HIDE DEF first, E, size
    <3> QED BY <1>3, <3>1 DEF Says
  <2> QED BY <1>3, <1>4, <2>1
<1>6. hi \in 0 .. room /\ room \in Nat
  <2>1. size \in Nat BY EntrySizeNat
  <2>2. p + size <= room /\ room \in Nat BY RoomNat
  <2> HIDE DEF size
  <2> QED BY <2>1, <2>2, SMT
<1>7. Completes(b, room, d, E, w, p, hi)
  <2> HIDE DEF hi, E, w
  <2> QED BY <1>1, <1>5, <1>6, AddsCompletes
<1> QED BY <1>7

\* An array says its value once its length and its elements are written.
LEMMA ArraySaid ==
    ASSUME NEW c \in Coders, c.kind = "array", NEW v \in ValuesOf(c),
           NEW room \in 0 .. Capacity, NEW b \in Spans(room),
           NEW p \in Nat, p + ValueSkip(c, v) <= room,
           NEW t, t = [j \in DOMAIN v |-> Value(c.elem, v[j])],
           Spells(room, b, <<Varint(ContentSkip(c, v))>> \o t, p)
    PROVE  Says(room, b, Value(c, v), p)
<1> DEFINE m == ContentSkip(c, v)
           a == VarintSkip(m)
           size == ValueSkip(c, v)
           one == <<Varint(m)>>
<1>1. c \in LoopCoders BY DEF LoopCoders
<1>2. m \in Nat BY EncoderAssumption
<1>3. a \in Nat /\ size = m + a BY <1>2, VarintSkipNat DEF ValueSkip
<1>4. t \in Seq(Entries) BY ElementsSize
<1>5. Varint(m) \in Entries /\ EntrySize(Varint(m)) = a BY <1>2, VarintEntry DEF EntrySize, Varint
<1>6. one \in Seq(Entries) /\ Owed(one) = a BY <1>5, OwedOne
<1>7. Spells(room, b, one, p) /\ Spells(room, b, t, p + a)
  <2>1. Spells(room, b, one \o t, p) OBVIOUS
  <2> HIDE DEF one, a
  <2> QED BY <1>4, <1>6, <2>1, SpellsConcat
<1>8. Says(room, b, Varint(m), p) BY <1>5, <1>7, SpellsOne
<1>9. p + a \in Nat /\ (p + a) + m <= room
  <2>1. p + size <= room /\ room \in Nat BY RoomNat
  <2> HIDE DEF m, a, size
  <2> QED BY <1>2, <1>3, <2>1, SMT
<1>10. \A d \in VersionsOf(c) : Completes(b, room, d, <<>>, View(c, d, v), p + a, (p + a) + m)
  <2> HIDE DEF a
  <2> QED BY <1>7, <1>9, ElementsSaid
<1>11. \A d \in VersionsOf(c) : EmptyValue(d) = <<>> BY VersionIs DEF EmptyValue
<1>12. \A d \in VersionsOf(c) : \A end \in p + size .. room :
         Found(p + size, View(c, d, v)) \in ValueAt(b, Contents(b, room), d, p, end)
  <2> TAKE d \in VersionsOf(c)
  <2>1. Completes(b, room, d, EmptyValue(d), View(c, d, v), p + a, (p + a) + m)
    BY <1>10, <1>11
  <2> QED BY <1>1, <1>8, <2>1, LengthFirst
<1>13. EntrySize(Value(c, v)) = size BY ValueSize
<1> HIDE DEF size
<1>14. Value(c, v).do = "array" /\ Value(c, v).coder = c /\ Value(c, v).v = v BY DEF Value
<1> QED BY <1>12, <1>13, <1>14 DEF Says, SaysValue

\* A message says its value once its length and its content are written.
LEMMA MessageSaid ==
    ASSUME NEW c \in MessageCoders, NEW v \in ValuesOf(c),
           NEW room \in 0 .. Capacity, NEW b \in Spans(room),
           NEW p \in Nat, p + ValueSkip(c, v) <= room,
           NEW e \in Entries, e.do = "body", e.coder = c, e.v = v,
           Spells(room, b, <<Varint(ContentSkip(c, v)), e>>, p)
    PROVE  Says(room, b, Value(c, v), p)
<1> DEFINE m == ContentSkip(c, v)
           a == VarintSkip(m)
           size == ValueSkip(c, v)
           one == <<Varint(m)>>
           two == <<e>>
<1>1. c \in Coders /\ c.kind = "message" /\ c \in LoopCoders BY DEF MessageCoders, LoopCoders
<1>2. m \in Nat BY <1>1, EncoderAssumption
<1>3. a \in Nat /\ size = m + a BY <1>1, <1>2, VarintSkipNat DEF ValueSkip
<1>4. two \in Seq(Entries) /\ EntrySize(e) = m BY OwedOne DEF EntrySize
<1>5. Varint(m) \in Entries /\ EntrySize(Varint(m)) = a BY <1>2, VarintEntry DEF EntrySize, Varint
<1>6. one \in Seq(Entries) /\ Owed(one) = a BY <1>5, OwedOne
<1>7. Spells(room, b, one, p) /\ Spells(room, b, two, p + a)
  <2>1. <<Varint(m), e>> = one \o two BY PairIs
  <2>2. Spells(room, b, one \o two, p) BY <2>1
  <2> HIDE DEF one, two, a
  <2> QED BY <1>4, <1>6, <2>2, SpellsConcat
<1>8. Says(room, b, Varint(m), p) BY <1>5, <1>7, SpellsOne
<1>9. p + a \in Nat
  <2> HIDE DEF a
  <2> QED BY <1>3, SMT
<1>10. Says(room, b, e, p + a) BY <1>7, <1>9, SpellsOne
<1>11. \A d \in VersionsOf(c) :
         Completes(b, room, d, EmptyValue(d), View(c, d, v), p + a, (p + a) + m)
  BY <1>1, <1>4, <1>10, VersionIs DEF Says, EmptyValue
<1>12. \A d \in VersionsOf(c) : \A end \in p + size .. room :
         Found(p + size, View(c, d, v)) \in ValueAt(b, Contents(b, room), d, p, end)
  <2> TAKE d \in VersionsOf(c)
  <2>1. Completes(b, room, d, EmptyValue(d), View(c, d, v), p + a, (p + a) + m) BY <1>11
  <2> QED BY <1>1, <1>8, <2>1, LengthFirst
<1>13. EntrySize(Value(c, v)) = size BY <1>1, ValueSize
<1> HIDE DEF size
<1>14. Value(c, v).do = "message" /\ Value(c, v).coder = c /\ Value(c, v).v = v
  BY <1>1 DEF Value
<1> QED BY <1>12, <1>13, <1>14 DEF Says, SaysValue

\* The calls that replace a call say what it is to say.
LEMMA QuietSays ==
    ASSUME TypeOK, FailedInv, ~failed,
           EncodeField \/ EndFields \/ EncodeArray \/ EncodeMessage \/ EncodeBody,
           NEW room \in 0 .. Capacity, NEW b \in Spans(room), pos + Owed(todo') <= room,
           Spells(room, b, todo', pos)
    PROVE  pos + Owed(todo) <= room /\ Spells(room, b, todo, pos)
<1>0. pos \in Nat /\ room \in Nat /\ LenWord \in Nat /\ room < LenWord
  <2>1. pos \in 0..limit /\ limit \in 0 .. Capacity BY Zenon DEF TypeOK
  <2> QED BY <2>1, RoomNat, SMT
<1>1. todo # <<>>
  BY Zenon DEF EncodeField, EndFields, EncodeArray, EncodeMessage, EncodeBody, Doing
<1>2. now \in Entries /\ Tail(todo) \in Seq(Entries) BY <1>1, HeadType
<1> DEFINE rest == Owed(Tail(todo))
           size == EntrySize(now)
           owed == Owed(todo')
<1>3. Owed(todo) = size + rest /\ size \in Nat /\ rest \in Nat BY <1>1, OwedHead
<1>4. Owed(todo) = owed
  <2>1. \/ owed = Owed(todo)
        \/ owed >= LenWord /\ Owed(todo) >= LenWord
    BY QuietSizes
  <2>2. pos + owed <= room /\ owed \in Nat
    <3>1. todo' \in Seq(Entries) BY QuietSteps
    <3> QED BY <3>1, SizesType
  <2> HIDE DEF owed
  <2> QED BY <1>0, <2>1, <2>2, SMT
<1>5. pos + owed <= room OBVIOUS
<1> HIDE DEF owed
<1>6. pos + Owed(todo) <= room BY <1>4, <1>5
<1>7. pos + size <= room
  <2> HIDE DEF size, rest
  <2> QED BY <1>0, <1>3, <1>6, SMT
<1>8. ASSUME NEW s \in Seq(Entries), todo' = s \o Tail(todo),
             Spells(room, b, s, pos) => Says(room, b, now, pos)
      PROVE  Spells(room, b, todo, pos)
  <2> DEFINE new == Owed(s)
  <2>1. Owed(todo') = new + rest /\ new \in Nat BY <1>2, <1>8, OwedConcat, SizesType
  <2>2. new + rest = size + rest BY <1>3, <1>4, <2>1 DEF owed
  <2>3. new = size
    <3> HIDE DEF new, size, rest
    <3> QED BY <1>3, <2>1, <2>2, SMT
  <2>4. Spells(room, b, s \o Tail(todo), pos) BY <1>8
  <2> QED BY <1>1, <1>8, <2>3, <2>4, SpellsTodo
<1>9. CASE EncodeField
  <2> DEFINE c == now.coder
             n == Len(c.order)
             k == now.k
             f == c.order[k]
             next == Fields(c, now.v, k + 1)
             new == FieldValues(f, now.v[f.number])
             s == new \o <<next>>
  <2>1. now.do = "fields" /\ k <= n BY <1>9, Zenon DEF EncodeField, Doing, now
  <2>2. c \in MessageCoders /\ now.v \in ValuesOf(c) /\ k \in 1 .. n + 1
    BY <1>2, <2>1, EntryType
  <2>3. now = Fields(c, now.v, k) BY <1>2, <2>1, EntryIs, Zenon
  <2>4. todo' = s \o Tail(todo) BY <1>9, Zenon DEF EncodeField
  <2>5. k \in 1..n
    <3>1. n \in Nat
      <4>1. c.order \in Seq(c.fields) BY <2>2, SchemaAssumption DEF MessageCoders
      <4>2. \A S, q : q \in Seq(S) => Len(q) \in Nat BY SMT
      <4> QED BY <4>1, <4>2
    <3> HIDE DEF n, k
    <3> QED BY <2>1, <2>2, <3>1, SMT
  <2> HIDE DEF c, k, f
  <2>6. f = c.order[k] BY DEF f
  <2>7. new \in Seq(Entries) /\ next \in Entries BY <2>2, <2>5, <2>6, FieldsSize
  <2>8. <<next>> \in Seq(Entries) BY <2>7, OwedOne
  <2> HIDE DEF next, new
  <2>9. s \in Seq(Entries) BY <2>7, <2>8, SMT
  <2>10. ASSUME Spells(room, b, s, pos) PROVE Says(room, b, now, pos)
    <3>1. Spells(room, b, new, pos) /\ Spells(room, b, <<next>>, pos + Owed(new))
      BY <1>0, <2>7, <2>8, <2>10, SpellsConcat
    <3>2. Owed(new) \in Nat BY <2>7, SizesType
    <3>3. pos + Owed(new) \in Nat BY <1>0, <3>2, SMT
    <3>4. Says(room, b, next, pos + Owed(new)) BY <2>7, <3>1, <3>3, SpellsOne
    <3>5. pos + EntrySize(Fields(c, now.v, k)) <= room BY <1>7, <2>3
    <3>6. Says(room, b, Fields(c, now.v, k), pos)
      <4> DEFINE msg == now.v
      <4>1. msg \in ValuesOf(c) /\ pos + EntrySize(Fields(c, msg, k)) <= room
            /\ new = FieldValues(f, msg[f.number]) /\ next = Fields(c, msg, k + 1)
        BY <2>2, <3>5 DEF new, next
      <4> HIDE DEF msg, n
      <4>2. Says(room, b, Fields(c, msg, k), pos)
        BY <1>0, <2>2, <2>5, <2>6, <3>1, <3>4, <4>1, FieldSaid DEF n
      <4> QED BY <4>2 DEF msg
    <3> QED BY <2>3, <3>6
  <2> HIDE DEF s
  <2> QED BY <1>6, <1>8, <2>4, <2>9, <2>10, Zenon
<1>10. CASE EndFields
  <2> DEFINE c == now.coder
             n == Len(c.order)
             k == now.k
  <2>1. now.do = "fields" /\ k > n BY <1>10 DEF EndFields, Doing, now
  <2>2. c \in MessageCoders /\ now.v \in ValuesOf(c) /\ k \in 1 .. n + 1
    BY <1>2, <2>1, EntryType
  <2>3. now = Fields(c, now.v, k) BY <1>2, <2>1, EntryIs
  <2>4. todo' = Tail(todo) BY <1>10 DEF EndFields
  <2>5. k = n + 1
    <3>1. n \in Nat
      <4>1. c.order \in Seq(c.fields) BY <2>2, SchemaAssumption DEF MessageCoders
      <4>2. \A S, q : q \in Seq(S) => Len(q) \in Nat BY SMT
      <4> QED BY <4>1, <4>2
    <3> HIDE DEF n, k
    <3> QED BY <2>1, <2>2, <3>1, SMT
  <2>6. size = 0
    <3>1. size + rest = rest BY <1>3, <1>4, <2>4 DEF owed
    <3> HIDE DEF size, rest
    <3> QED BY <1>3, <3>1, SMT
  <2>7. EntrySize(Fields(c, now.v, k)) = 0 BY <2>3, <2>6
  <2>9. Says(room, b, Fields(c, now.v, k), pos) BY <1>0, <2>2, <2>5, <2>7, EndSaid
  <2>10. Says(room, b, now, pos) BY <2>3, <2>9
  <2>11. <<>> \in Seq(Entries) /\ todo' = <<>> \o Tail(todo)
    <3>1. <<>> \in Seq(Entries) /\ \A s \in Seq(Entries) : s = <<>> \o s BY SMT
    <3> QED BY <1>2, <2>4, <3>1
  <2> QED BY <1>6, <1>8, <2>10, <2>11
<1>11. ASSUME now.do \in {"array", "message"}
       PROVE  LET m == ContentSkip(now.coder, now.v)
              IN  m \in Nat /\ m % LenWord = m /\ pos + ValueSkip(now.coder, now.v) <= room
  <2> DEFINE c == now.coder
             m == ContentSkip(c, now.v)
             a == VarintSkip(m)
  <2>1. c \in Coders /\ c.kind = now.do /\ now.v \in ValuesOf(c) BY <1>2, <1>11, EntryType
  <2>2. m \in Nat BY <1>11, <2>1, EncoderAssumption
  <2>3. size = ValueSkip(c, now.v) BY <1>11 DEF EntrySize
  <2>4. ValueSkip(c, now.v) = m + a BY <1>11, <2>1 DEF ValueSkip
  <2>5. a \in Nat BY <2>2, VarintSkipNat
  <2>6. size = m + a BY <2>3, <2>4
  <2>7. m < LenWord
    <3> HIDE DEF m, a, size
    <3> QED BY <1>0, <1>3, <1>7, <2>2, <2>5, <2>6, SMT
  <2>8. m % LenWord = m
    <3> HIDE DEF m
    <3> QED BY <1>0, <2>2, <2>7, ModSmall
  <2> QED BY <1>7, <2>2, <2>3, <2>8
<1>12. CASE EncodeArray
  <2> DEFINE c == now.coder
             v == now.v
             m == ContentSkip(c, v)
             one == <<Varint(m)>>
             t == [j \in DOMAIN v |-> Value(c.elem, v[j])]
             s == one \o t
  <2>1. now.do = "array" BY <1>12 DEF EncodeArray, Doing, now
  <2>2. c \in Coders /\ c.kind = "array" /\ v \in ValuesOf(c) BY <1>2, <2>1, EntryType
  <2>3. now = Value(c, v) BY <1>2, <2>1, EntryIs
  <2>4. m \in Nat /\ m % LenWord = m /\ pos + ValueSkip(c, v) <= room BY <1>11, <2>1
  <2>5. todo' = s \o Tail(todo)
    <3>1. todo' = <<Varint(m % LenWord)>> \o t \o Tail(todo) BY <1>12 DEF EncodeArray
    <3> QED BY <2>4, <3>1
  <2>6. one \in Seq(Entries) /\ t \in Seq(Entries) BY <2>2, <2>4, VarintEntry, OwedOne, ElementsSize
  <2>7. s \in Seq(Entries)
    <3> HIDE DEF one, t
    <3> QED BY <2>6, SMT
  <2>8. ASSUME Spells(room, b, s, pos) PROVE Says(room, b, now, pos)
    <3>1. Says(room, b, Value(c, v), pos)
      <4>1. Spells(room, b, <<Varint(ContentSkip(c, v))>> \o t, pos) BY <2>8
      <4>2. t = [j \in DOMAIN v |-> Value(c.elem, v[j])] OBVIOUS
      <4> HIDE DEF t, c, v
      <4> QED BY <1>0, <2>2, <2>4, <4>1, <4>2, ArraySaid
    <3> QED BY <2>3, <3>1
  <2> HIDE DEF s
  <2> QED BY <1>6, <1>8, <2>5, <2>7, <2>8
<1>13. CASE EncodeMessage
  <2> DEFINE c == now.coder
             v == now.v
             m == ContentSkip(c, v)
             e == [now EXCEPT !.do = "body"]
             s == <<Varint(m), e>>
  <2>1. now.do = "message" BY <1>13 DEF EncodeMessage, Doing, now
  <2>2. c \in MessageCoders /\ v \in ValuesOf(c)
    BY <1>2, <2>1, EntryType DEF MessageCoders
  <2>3. now = Value(c, v) BY <1>2, <2>1, EntryIs
  <2>4. m \in Nat /\ m % LenWord = m /\ pos + ValueSkip(c, v) <= room BY <1>11, <2>1
  <2>5. todo' = s \o Tail(todo)
    <3>1. todo' = <<Varint(m % LenWord), e>> \o Tail(todo) BY <1>13 DEF EncodeMessage
    <3> QED BY <2>4, <3>1
  <2>6. e \in Entries /\ e.do = "body" /\ e.coder = c /\ e.v = v
    BY <1>2, <2>1, BodyEntry, BodyFields
  <2>7. s \in Seq(Entries)
    <3>1. Varint(m) \in Entries BY <2>4, VarintEntry
    <3> HIDE DEF e, m
    <3> QED BY <2>6, <3>1, SMT
  <2>8. ASSUME Spells(room, b, s, pos) PROVE Says(room, b, now, pos)
    <3>1. Says(room, b, Value(c, v), pos)
      <4>1. Spells(room, b, <<Varint(ContentSkip(c, v)), e>>, pos) BY <2>8
      <4> HIDE DEF e, c, v
      <4> QED BY <1>0, <2>2, <2>4, <2>6, <4>1, MessageSaid
    <3> QED BY <2>3, <3>1
  <2> HIDE DEF s
  <2> QED BY <1>6, <1>8, <2>5, <2>7, <2>8
<1>14. CASE EncodeBody
  <2> DEFINE c == now.coder
             v == now.v
             first == Fields(c, v, 1)
             s == <<first>>
  <2>1. now.do = "body" BY <1>14 DEF EncodeBody, Doing, now
  <2>2. c \in MessageCoders /\ v \in ValuesOf(c) BY <1>2, <2>1, EntryType
  <2>3. todo' = s \o Tail(todo) BY <1>14 DEF EncodeBody
  <2>4. first \in Entries /\ EntrySize(first) = size
    <3>1. size = ContentSkip(c, v) BY <2>1 DEF EntrySize
    <3> QED BY <2>2, <3>1, MessageSize
  <2>5. s \in Seq(Entries) BY <2>4, OwedOne
  <2>6. ASSUME Spells(room, b, s, pos) PROVE Says(room, b, now, pos)
    <3>1. Says(room, b, first, pos) BY <1>0, <2>4, <2>6, SpellsOne
    <3>2. now.coder = c /\ now.v = v /\ first = Fields(c, v, 1) OBVIOUS
    <3> HIDE DEF first, c, v, size
    <3>3. Says(room, b, Fields(c, v, 1), pos) BY <3>1, <3>2
    <3>4. pos + EntrySize(now) <= room BY <1>7 DEF size
    <3> QED BY <1>0, <1>2, <2>1, <2>2, <3>2, <3>3, <3>4, BodySaid
  <2> HIDE DEF s
  <2> QED BY <1>6, <1>8, <2>3, <2>5, <2>6
<1> QED BY <1>9, <1>10, <1>12, <1>13, <1>14

\* A byte or a value that is written says what the call was to say.
LEMMA WriteSays ==
    ASSUME TypeOK, FailedInv, WriteGroup \/ WriteFixed,
           NEW room \in 0 .. Capacity, NEW b \in Spans(room), pos' + Owed(todo') <= room,
           \A k \in 0 .. pos' - 1 : b[k] = buf'[k], Spells(room, b, todo', pos')
    PROVE  /\ pos + Owed(todo) <= room /\ Spells(room, b, todo, pos)
           /\ \A k \in 0 .. pos - 1 : b[k] = buf[k]
<1>0. /\ pos \in Nat /\ room \in Nat /\ Capacity \in Nat /\ pos <= Capacity /\ room <= Capacity
      /\ buf \in [0 .. Capacity - 1 -> Byte]
  <2>1. pos \in 0..limit /\ limit \in 0 .. Capacity /\ buf \in [0 .. Capacity - 1 -> Byte]
    BY DEF TypeOK
  <2> QED BY <2>1, RoomNat, SMT
<1>1. todo # <<>> BY DEF WriteGroup, WriteFixed, Doing
<1>2. now \in Entries /\ Tail(todo) \in Seq(Entries) BY <1>1, HeadType
<1> DEFINE rest == Owed(Tail(todo))
           size == EntrySize(now)
<1>3. Owed(todo) = size + rest /\ size \in Nat /\ rest \in Nat BY <1>1, OwedHead
<1>4. pos + Owed(todo) <= room
  <2>1. pos' + Owed(todo') = pos + Owed(todo) BY WriteSizes
  <2> QED BY <2>1
<1>5. pos + size <= room
  <2> HIDE DEF size, rest
  <2> QED BY <1>0, <1>3, <1>4, SMT
<1>6. <<now>> \in Seq(Entries) /\ Owed(<<now>>) = size BY <1>2, OwedOne
<1>7. ASSUME Says(room, b, now, pos), Spells(room, b, Tail(todo), pos + size)
      PROVE  Spells(room, b, todo, pos)
  <2>1. Spells(room, b, <<now>>, pos) BY <1>0, <1>2, <1>7, SpellsOne
  <2>2. Spells(room, b, Tail(todo), pos + Owed(<<now>>)) BY <1>6, <1>7
  <2>3. Spells(room, b, <<now>> \o Tail(todo), pos) BY <1>0, <1>2, <1>6, <2>1, <2>2, SpellsConcat
  <2> QED BY <1>1, <2>3, HeadFirst
<1>8. CASE WriteGroup
  <2> DEFINE n == now.n
             q == n \div Base
             s == IF q = 0 THEN <<>> ELSE <<Varint(q)>>
  <2>1. /\ now.do = "varint" /\ pos < limit /\ limit \in 0 .. Capacity /\ pos' = pos + 1
        /\ buf' = [buf EXCEPT ![pos] = GroupByte(n)] /\ todo' = s \o Tail(todo)
    BY <1>8 DEF WriteGroup, Doing, now, TypeOK
  <2>2. n \in Nat /\ q \in Nat BY <1>2, <2>1, EntryType, DivMod
  <2>3. now = Varint(n) BY <1>2, <2>1, EntryIs
  <2>4. size = VarintSkip(n) BY <2>1 DEF EntrySize
  <2>5. VarintSkip(n) = IF q = 0 THEN 1 ELSE VarintSkip(q) + 1 BY <2>2, VarintSkipStep
  <2>6. Varint(q) \in Entries /\ EntrySize(Varint(q)) = VarintSkip(q)
    BY <2>2, VarintEntry DEF EntrySize, Varint
  <2>7. /\ s \in Seq(Entries) /\ Owed(s) = IF q = 0 THEN 0 ELSE VarintSkip(q)
    <3>1. <<>> \in Seq(Entries) BY SMT
    <3>2. <<Varint(q)>> \in Seq(Entries) /\ Owed(<<Varint(q)>>) = VarintSkip(q)
      BY <2>6, OwedOne
    <3> QED BY <3>1, <3>2, OwedNone
  <2>8. pos + 1 \in Nat /\ pos \in 0 .. Capacity - 1 /\ pos \in 0 .. pos' - 1
    BY <1>0, <2>1, SMT
  <2> HIDE DEF s
  <2>9. Spells(room, b, s, pos + 1) /\ Spells(room, b, Tail(todo), (pos + 1) + Owed(s))
    <3>1. Spells(room, b, s \o Tail(todo), pos + 1) BY <2>1
    <3> QED BY <1>2, <2>7, <2>8, <3>1, SpellsConcat
  <2>10. (pos + 1) + Owed(s) = pos + size
    <3> DEFINE g == VarintSkip(q)
    <3>1. g \in Nat BY <2>2, VarintSkipNat
    <3>2. Owed(s) = (IF q = 0 THEN 0 ELSE g) /\ size = (IF q = 0 THEN 1 ELSE g + 1)
      BY <2>4, <2>5, <2>7
    <3> HIDE DEF g, size, q
    <3> QED BY <1>0, <3>1, <3>2, SMT
  <2>11. b[pos] = GroupByte(n)
    <3>1. b[pos] = buf'[pos] BY <2>8
    <3> QED BY <1>0, <2>1, <2>8, <3>1
  <2>12. \A j \in pos .. pos + VarintSkip(n) - 1 : b[j] \in Byte
    <3>1. \A j \in pos .. pos + size - 1 : j \in 0 .. room - 1
      <4> HIDE DEF size
      <4> QED BY <1>0, <1>3, <1>5, SMT
    <3> QED BY <2>4, <3>1 DEF Spans
  <2>13. q # 0 => Groups(b, pos + 1, VarintSkip(q), q)
    <3> HAVE q # 0
    <3>1. s = <<Varint(q)>> BY DEF s
    <3>2. Says(room, b, Varint(q), pos + 1) BY <2>6, <2>8, <2>9, <3>1, SpellsOne
    <3> HIDE DEF q
    <3> QED BY <3>2 DEF Says, SaysValue, Varint
  <2>14. Groups(b, pos, VarintSkip(n), n)
    <3> HIDE DEF n
    <3>1. n \div Base # 0 => Groups(b, pos + 1, VarintSkip(n \div Base), n \div Base) BY <2>13
    <3> QED BY <1>0, <2>2, <2>11, <2>12, <3>1, GroupsFirst
  <2>15. Says(room, b, now, pos) BY <2>1, <2>14 DEF Says, SaysValue
  <2>16. \A k \in 0 .. pos - 1 : b[k] = buf[k]
    <3> TAKE k \in 0 .. pos - 1
    <3>1. k \in 0 .. pos' - 1 /\ k # pos /\ k \in 0 .. Capacity - 1 BY <1>0, <2>1, SMT
    <3>2. b[k] = buf'[k] BY <3>1
    <3> QED BY <1>0, <2>1, <3>1, <3>2
  <2> QED BY <1>4, <1>7, <2>9, <2>10, <2>15, <2>16
<1>9. CASE WriteFixed
  <2> DEFINE c == now.coder
             v == now.v
             m == c.size
  <2>1. /\ now.do = "fixed" /\ pos' = pos + m /\ todo' = Tail(todo)
        /\ buf' = [k \in DOMAIN buf |-> IF k \in pos .. pos + m - 1 THEN v[k - pos + 1] ELSE buf[k]]
    BY <1>9 DEF WriteFixed, Doing, now
  <2>2. c \in Coders /\ c.kind = "fixed" /\ v \in ValuesOf(c) BY <1>2, <2>1, EntryType
  <2>3. v \in [1..m -> Byte] /\ m \in Nat BY <2>2, EncoderAssumption, SchemaAssumption
  <2>4. size = m BY <2>1, <2>2 DEF EntrySize, ValueSkip
  <2>5. \A j \in 1..m : b[pos + j - 1] = v[j]
    <3> TAKE j \in 1..m
    <3> DEFINE k == pos + j - 1
    <3>1. k \in 0 .. pos' - 1 /\ k \in 0 .. Capacity - 1 /\ k \in pos .. pos + m - 1
          /\ k - pos + 1 = j
      <4>1. pos + m <= room BY <1>5, <2>4
      <4>2. j \in 1..m OBVIOUS
      <4> HIDE DEF m
      <4> QED BY <1>0, <2>1, <2>3, <4>1, <4>2, SMT
    <3>2. k \in DOMAIN buf BY <1>0, <3>1
    <3> HIDE DEF k
    <3>3. b[k] = buf'[k] BY <3>1
    <3>4. buf'[k] = v[j] BY <2>1, <3>1, <3>2
    <3> QED BY <3>3, <3>4 DEF k
  <2>6. [j \in 1..m |-> b[pos + j - 1]] = v BY <2>3, <2>5
  <2>7. \A end \in pos + m .. room :
          Found(pos + m, v) \in ValueAt(b, Contents(b, room), c, pos, end)
    <3> TAKE end \in pos + m .. room
    <3>1. ~(pos + m > end)
      <4> HIDE DEF m
      <4> QED BY <1>0, <2>3, SMT
    <3>2. c.kind # "varint" BY <2>2
    <3>3. ValueAt(b, Contents(b, room), c, pos, end)
            = {Found(pos + m, [j \in 1..m |-> b[pos + j - 1]])}
      BY <2>2, <3>1, <3>2 DEF ValueAt
    <3> QED BY <2>6, <3>3
  <2>8. Says(room, b, now, pos)
    <3>1. \A d \in VersionsOf(c) : d = c /\ View(c, d, v) = v
      <4>1. \A d \in VersionsOf(c) : d = c BY <2>2, VersionIs
      <4> QED BY <2>2, <4>1, OwnVersion
    <3> HIDE DEF m
    <3> QED BY <2>1, <2>4, <2>7, <3>1 DEF Says, SaysValue
  <2>9. Spells(room, b, Tail(todo), pos + size) BY <2>1, <2>4
  <2>10. \A k \in 0 .. pos - 1 : b[k] = buf[k]
    <3> TAKE k \in 0 .. pos - 1
    <3>1. k \in 0 .. pos' - 1 /\ k \notin pos .. pos + m - 1 /\ k \in 0 .. Capacity - 1
      <4> HIDE DEF m
      <4> QED BY <1>0, <2>1, <2>3, SMT
    <3>2. b[k] = buf'[k] /\ k \in DOMAIN buf BY <1>0, <3>1
    <3> QED BY <2>1, <3>1, <3>2
  <2> QED BY <1>4, <1>7, <2>8, <2>9, <2>10
<1> QED BY <1>8, <1>9

\* Writing changes no byte before the call began, and none after those it adds.
LEMMA WriteKeeps ==
    ASSUME TypeOK, WriteGroup \/ WriteFixed
    PROVE  /\ \A k \in 0 .. start - 1 : buf'[k] = buf[k]
           /\ \A k \in pos' .. Capacity - 1 : buf'[k] = buf[k] /\ k \in pos .. Capacity - 1
<1>1. /\ pos \in Nat /\ start \in Nat /\ start <= pos /\ Capacity \in Nat /\ pos <= Capacity
      /\ buf \in [0 .. Capacity - 1 -> Byte]
  <2>1. pos \in 0..limit /\ limit \in 0 .. Capacity /\ start \in 0..pos
        /\ buf \in [0 .. Capacity - 1 -> Byte]
    BY DEF TypeOK
  <2>2. Capacity \in 0 .. LenWord - 1 /\ LenWord \in Nat BY EncoderAssumption, SchemaAssumption
  <2> QED BY <2>1, <2>2, SMT
<1>2. CASE WriteGroup
  <2>1. buf' = [buf EXCEPT ![pos] = GroupByte(now.n)] /\ pos' = pos + 1 BY <1>2 DEF WriteGroup
  <2>2. /\ \A k \in 0 .. start - 1 : k # pos /\ k \in 0 .. Capacity - 1
        /\ \A k \in pos + 1 .. Capacity - 1 :
              k # pos /\ k \in pos .. Capacity - 1 /\ k \in 0 .. Capacity - 1
    BY <1>1, SMT
  <2>3. \A k \in 0 .. Capacity - 1 : k # pos => buf'[k] = buf[k]
    <3> DEFINE new == GroupByte(now.n)
    <3>1. buf' = [buf EXCEPT ![pos] = new] BY <2>1
    <3> HIDE DEF new
    <3> QED BY <1>1, <3>1
  <2> QED BY <2>1, <2>2, <2>3
<1>3. CASE WriteFixed
  <2> DEFINE m == now.coder.size
  <2>1. /\ buf' =
               [k \in DOMAIN buf |-> IF k \in pos .. pos + m - 1 THEN now.v[k - pos + 1] ELSE buf[k]]
        /\ pos' = pos + m /\ m \in Nat
    <3>1. todo # <<>> /\ now.do = "fixed" BY <1>3 DEF WriteFixed, Doing, now
    <3>2. now \in Entries BY <3>1, HeadType
    <3>3. now.coder \in Coders /\ now.coder.kind = "fixed" BY <3>1, <3>2, EntryType
    <3>4. m \in Nat BY <3>3, SchemaAssumption
    <3> QED BY <1>3, <3>4 DEF WriteFixed
  <2>2. \A k \in 0 .. Capacity - 1 : k \notin pos .. pos + m - 1 => buf'[k] = buf[k] BY <1>1, <2>1
  <2> HIDE DEF m
  <2>3. /\ \A k \in 0 .. start - 1 : k \in 0 .. Capacity - 1 /\ k \notin pos .. pos + m - 1
        /\ \A k \in pos + m .. Capacity - 1 :
              k \in 0 .. Capacity - 1 /\ k \notin pos .. pos + m - 1 /\ k \in pos .. Capacity - 1
    BY <1>1, <2>1, SMT
  <2> QED BY <2>1, <2>2, <2>3
<1> QED BY <1>2, <1>3

-----------------------------------------------------------------------------
(* One message after another.                                              *)

MergedStep(given, f, n) ==
    IF n <= 1 THEN given.msgs[1] ELSE MergeMessages(given.coder, f[n - 1], given.msgs[n])

Mergers == INSTANCE Recursion WITH Step <- MergedStep

MergedOf(c, msgs) == CHOOSE f : Mergers!Solves([coder |-> c, msgs |-> msgs], Nat, f)

\* The messages of a sequence are merged one by one.
LEMMA MergedUp ==
    ASSUME NEW c, NEW msgs
    PROVE  /\ Merged(c, msgs) = MergedOf(c, msgs)[Len(msgs)]
           /\ \A n \in Nat : MergedOf(c, msgs)[n] =
                IF n <= 1 THEN msgs[1]
                ELSE MergeMessages(c, MergedOf(c, msgs)[n - 1], msgs[n])
<1> DEFINE id == [k \in Nat |-> k]
           g == [coder |-> c, msgs |-> msgs]
           merged == MergedOf(c, msgs)
<1>1. Merged(c, msgs) = merged[Len(msgs)]
  BY DEF Merged, MergedOf, Mergers!Solves, MergedStep
<1>2. Mergers!Descends(g, Nat, id)
  <2>1. \A k \in Nat \ {0} : k - 1 \in Nat /\ id[k - 1] < id[k] BY Descending
  <2>2. \A k \in Nat : ~(k <= 1) => k \in Nat \ {0} BY SMT
  <2> HIDE DEF id, g
  <2> QED BY <2>1, <2>2 DEF Mergers!Descends, MergedStep
<1>3. \E f : Mergers!Solves(g, Nat, f)
  <2>1. id \in [Nat -> Nat] BY Descending
  <2> HIDE DEF id, g
  <2> QED BY <1>2, <2>1, Mergers!RecursiveFunction
<1>4. Mergers!Solves(g, Nat, merged)
  <2>1. merged = CHOOSE f : Mergers!Solves(g, Nat, f) BY DEF MergedOf
  <2> HIDE DEF g, merged
  <2> QED BY <1>3, <2>1
<1>5. \A n \in Nat : merged[n] =
        IF n <= 1 THEN msgs[1] ELSE MergeMessages(c, merged[n - 1], msgs[n])
  <2> HIDE DEF merged
  <2> QED BY <1>4 DEF Mergers!Solves, MergedStep
<1> HIDE DEF merged
<1> QED BY <1>1, <1>5 DEF merged

\* What messages hold that are merged, none an empty message.
Held(c, msgs) == IF msgs = <<>> THEN EmptyMessage(c) ELSE Merged(c, msgs)

\* One more message is merged into what the others hold.
LEMMA HeldMore ==
    ASSUME NEW c \in MessageCoders, NEW s \in Seq(ValuesOf(c)), NEW msg \in ValuesOf(c),
           IsMessage(c, Held(c, s))
    PROVE  /\ Held(c, Append(s, msg)) = MergeMessages(c, Held(c, s), msg)
           /\ IsMessage(c, Held(c, Append(s, msg)))
<1> DEFINE t == Append(s, msg)
           S == ValuesOf(c)
           n == Len(s)
<1>1. c \in Coders /\ c.kind = "message" BY DEF MessageCoders
<1>2. /\ n \in Nat /\ Len(t) = n + 1 /\ t # <<>> /\ t[n + 1] = msg
      /\ \A j \in 1..n : t[j] = s[j]
      /\ s = <<>> <=> n = 0
  <2>1. s \in Seq(S) /\ msg \in S OBVIOUS
  <2> HIDE DEF S
  <2>2. n \in Nat /\ Len(t) = n + 1 /\ t[n + 1] = msg /\ \A j \in 1..n : t[j] = s[j]
    BY <2>1, SMT
  <2>3. s = <<>> <=> n = 0 BY <2>1, SMT
  <2>4. t # <<>> BY <2>1, OneMore
  <2> QED BY <2>2, <2>3, <2>4
<1>3. n + 1 \in Nat /\ (n + 1) - 1 = n BY <1>2, SMT
<1> HIDE DEF t, n
<1>4. Held(c, t) = MergedOf(c, t)[n + 1] BY <1>2, MergedUp DEF Held
<1>5. CASE n = 0
  <2>1. Held(c, s) = EmptyMessage(c) BY <1>2, <1>5 DEF Held
  <2>2. n + 1 <= 1 /\ n + 1 = 1 BY <1>5, SMT
  <2>3. MergedOf(c, t)[n + 1] = t[1] BY <1>3, <2>2, MergedUp
  <2>4. Held(c, t) = msg BY <1>2, <1>4, <2>2, <2>3
  <2>5. Held(c, t) = MergeMessages(c, Held(c, s), msg) /\ IsMessage(c, Held(c, t))
    BY <1>1, <2>1, <2>4, MergeEmpty
  <2> QED BY <2>5 DEF t
<1>6. CASE n # 0
  <2>1. ~(n + 1 <= 1) BY <1>2, <1>6, SMT
  <2>2. MergedOf(c, t)[n + 1] = MergeMessages(c, MergedOf(c, t)[n], t[n + 1])
    BY <1>3, <2>1, MergedUp
  <2> DEFINE P == {k \in Nat : k <= n => MergedOf(c, t)[k] = MergedOf(c, s)[k]}
  <2>3. MergedOf(c, t)[n] = MergedOf(c, s)[n]
    <3>1. 0 \in P
      <4>1. 0 <= 1 /\ 0 \in Nat /\ 1 \in 1..n BY <1>2, <1>6, SMT
      <4>2. MergedOf(c, t)[0] = t[1] /\ MergedOf(c, s)[0] = s[1] BY <4>1, MergedUp
      <4> QED BY <1>2, <4>1, <4>2
    <3>2. ASSUME NEW k \in Nat, k \in P PROVE k + 1 \in P
      <4>1. SUFFICES ASSUME k + 1 <= n
                     PROVE  MergedOf(c, t)[k + 1] = MergedOf(c, s)[k + 1]
        BY SMT
      <4>2. k + 1 \in Nat /\ (k + 1) - 1 = k /\ k <= n /\ k + 1 \in 1..n /\ 1 \in 1..n
        BY <1>2, <4>1, SMT
      <4>3. \A x : MergedOf(c, x)[k + 1] =
              IF k + 1 <= 1 THEN x[1] ELSE MergeMessages(c, MergedOf(c, x)[k], x[k + 1])
        <5> TAKE x
        <5>1. MergedOf(c, x)[k + 1] =
                IF k + 1 <= 1 THEN x[1]
                ELSE MergeMessages(c, MergedOf(c, x)[(k + 1) - 1], x[k + 1])
          BY <4>2, MergedUp
        <5> QED BY <4>2, <5>1
      <4>4. MergedOf(c, t)[k] = MergedOf(c, s)[k] BY <3>2, <4>2
      <4> QED BY <1>2, <4>2, <4>3, <4>4
    <3>3. n \in P
      <4> HIDE DEF P
      <4> QED BY <1>2, <3>1, <3>2, Powers!Induct
    <3>4. n <= n BY <1>2, SMT
    <3> QED BY <3>3, <3>4
  <2>4. Held(c, s) = MergedOf(c, s)[n]
    <3>1. Len(s) = n BY DEF n
    <3> QED BY <1>2, <1>6, <3>1, MergedUp DEF Held
  <2>5. Held(c, t) = MergeMessages(c, Held(c, s), msg) BY <1>2, <1>4, <2>2, <2>3, <2>4
  <2>6. IsMessage(c, msg) BY <1>1, MergeEmpty
  <2>7. IsMessage(c, Held(c, t))
    <3> DEFINE u == Held(c, s)
    <3>1. IsMessage(c, u) /\ Held(c, t) = MergeMessages(c, u, msg) BY <2>5
    <3> HIDE DEF u
    <3> QED BY <1>1, <2>6, <3>1, MergeIsMessage
  <2> QED BY <2>5, <2>7 DEF t
<1> QED BY <1>5, <1>6

\* What a reader sees of each of some messages, and what it has of all of them.
Seen(d, msgs) == [j \in DOMAIN msgs |-> View(Root, d, msgs[j])]

Got(d, msgs) == Held(d, Seen(d, msgs))

\* Of one more message it sees one more.
LEMMA SeenMore ==
    ASSUME NEW d \in VersionsOf(Root)
    PROVE  /\ Seen(d, <<>>) = <<>>
           /\ \A msgs \in Seq(ValuesOf(Root)) : \A msg \in ValuesOf(Root) :
                /\ Seen(d, msgs) \in Seq(ValuesOf(d)) /\ View(Root, d, msg) \in ValuesOf(d)
                /\ Seen(d, Append(msgs, msg)) = Append(Seen(d, msgs), View(Root, d, msg))
<1>1. DOMAIN <<>> = {} /\ \A f : DOMAIN f = {} /\ f = [j \in {} |-> f[j]] => f = <<>>
  BY SMT
<1>2. Seen(d, <<>>) = <<>> BY <1>1, SMT DEF Seen
<1>3. ASSUME NEW msgs \in Seq(ValuesOf(Root)), NEW msg \in ValuesOf(Root)
      PROVE  /\ Seen(d, msgs) \in Seq(ValuesOf(d)) /\ View(Root, d, msg) \in ValuesOf(d)
             /\ Seen(d, Append(msgs, msg)) = Append(Seen(d, msgs), View(Root, d, msg))
  <2> DEFINE S == ValuesOf(Root)
             T == ValuesOf(d)
             t == Append(msgs, msg)
             n == Len(msgs)
             w == Seen(d, msgs)
             x == Seen(d, t)
  <2>1. msgs \in Seq(S) /\ msg \in S /\ Root \in Coders BY EncoderAssumption
  <2>2. \A v \in S : View(Root, d, v) \in T BY <2>1, VersionIs
  <2>3. /\ n \in Nat /\ Len(t) = n + 1 /\ DOMAIN t = 1 .. n + 1 /\ t[n + 1] = msg
        /\ DOMAIN msgs = 1..n /\ \A j \in 1..n : t[j] = msgs[j] /\ msgs[j] \in S
    <3> HIDE DEF S
    <3> QED BY <2>1, SMT
  <2> HIDE DEF t, n, S, T
  <2>4. DOMAIN w = 1..n /\ \A j \in 1..n : w[j] = View(Root, d, msgs[j]) /\ w[j] \in T
    BY <2>2, <2>3 DEF Seen
  <2>5. w \in Seq(T) /\ Len(w) = n
    <3>1. w = [j \in 1..n |-> w[j]] BY <2>3 DEF Seen
    <3> HIDE DEF w
    <3> QED BY <2>3, <2>4, <3>1, SMT
  <2>7. /\ DOMAIN x = 1 .. n + 1 /\ x[n + 1] = View(Root, d, msg)
        /\ \A j \in 1..n : x[j] = w[j]
        /\ x = [j \in 1 .. n + 1 |-> x[j]]
    <3>1. n + 1 \in 1 .. n + 1 /\ \A j \in 1..n : j \in 1 .. n + 1 BY <2>3, SMT
    <3> QED BY <2>3, <2>4, <3>1 DEF Seen
  <2> DEFINE e == View(Root, d, msg)
  <2>8. e \in T BY <2>1, <2>2
  <2>9. x[n + 1] = e BY <2>7
  <2> HIDE DEF x, w, e
  <2>10. x = Append(w, e)
    <3> DEFINE a == Append(w, e)
    <3>1. /\ a \in Seq(T) /\ Len(a) = n + 1 /\ a[n + 1] = e
          /\ \A j \in 1..n : a[j] = w[j]
      BY <2>3, <2>5, <2>8, SMT
    <3> HIDE DEF a
    <3>2. a = [j \in 1 .. n + 1 |-> a[j]] BY <2>3, <3>1, SMT
    <3>3. \A j \in 1 .. n + 1 : j \in 1..n \/ j = n + 1 BY <2>3, SMT
    <3>4. \A j \in 1 .. n + 1 : x[j] = a[j] BY <2>7, <2>9, <3>1, <3>3
    <3>5. x = a BY <2>7, <3>2, <3>4
    <3> QED BY <3>5 DEF a
  <2> QED BY <2>5, <2>8, <2>10 DEF x, w, e, t, T
<1> QED BY <1>2, <1>3

\* And what it has is what it had merged with what it sees of the last.
LEMMA GotMore ==
    ASSUME NEW d \in VersionsOf(Root), NEW msgs \in Seq(ValuesOf(Root)),
           NEW msg \in ValuesOf(Root), IsMessage(d, Got(d, msgs))
    PROVE  /\ Got(d, Append(msgs, msg)) = MergeMessages(d, Got(d, msgs), View(Root, d, msg))
           /\ IsMessage(d, Got(d, Append(msgs, msg)))
<1>1. d \in MessageCoders
  <2>1. Root \in MessageCoders BY EncoderAssumption DEF MessageCoders
  <2> QED BY <2>1, VersionFields
<1>2. /\ Seen(d, msgs) \in Seq(ValuesOf(d)) /\ View(Root, d, msg) \in ValuesOf(d)
      /\ Seen(d, Append(msgs, msg)) = Append(Seen(d, msgs), View(Root, d, msg))
  BY SeenMore
<1>3. IsMessage(d, Held(d, Seen(d, msgs))) BY DEF Got
<1> QED BY <1>1, <1>2, <1>3, HeldMore DEF Got

\* The writer's own type sees all.
LEMMA SeenOwn == \A msgs \in Seq(ValuesOf(Root)) : Seen(Root, msgs) = msgs
<1> TAKE msgs \in Seq(ValuesOf(Root))
<1> DEFINE S == ValuesOf(Root)
<1>1. \A v \in S : View(Root, Root, v) = v BY EncoderAssumption, OwnVersion
<1>2. msgs = [j \in DOMAIN msgs |-> msgs[j]] /\ \A j \in DOMAIN msgs : msgs[j] \in S
  <2>1. msgs \in Seq(S) OBVIOUS
  <2> HIDE DEF S
  <2> QED BY <2>1, SMT
<1> QED BY <1>1, <1>2 DEF Seen

AllStep(given, f, n) == IF n = 0 THEN <<>> ELSE f[n - 1] \o Pieces(Root, given[n], 1)

AllPieces == INSTANCE Recursion WITH Step <- AllStep

AllUpTo(msgs) == CHOOSE f : AllPieces!Solves(msgs, Nat, f)

\* The pieces of the messages, one after the other.
LEMMA AllUp ==
    ASSUME NEW msgs
    PROVE  /\ PiecesOfAll(msgs) = AllUpTo(msgs)[Len(msgs)]
           /\ \A n \in Nat : AllUpTo(msgs)[n] =
                IF n = 0 THEN <<>> ELSE AllUpTo(msgs)[n - 1] \o Pieces(Root, msgs[n], 1)
<1> DEFINE id == [k \in Nat |-> k]
           upTo == AllUpTo(msgs)
<1>1. PiecesOfAll(msgs) = upTo[Len(msgs)]
  BY DEF PiecesOfAll, AllUpTo, AllPieces!Solves, AllStep
<1>2. AllPieces!Descends(msgs, Nat, id)
  <2>1. \A k \in Nat \ {0} : k - 1 \in Nat /\ id[k - 1] < id[k] BY Descending
  <2> HIDE DEF id
  <2> QED BY <2>1 DEF AllPieces!Descends, AllStep
<1>3. \E f : AllPieces!Solves(msgs, Nat, f)
  <2>1. id \in [Nat -> Nat] BY Descending
  <2> HIDE DEF id
  <2> QED BY <1>2, <2>1, AllPieces!RecursiveFunction
<1>4. AllPieces!Solves(msgs, Nat, upTo)
  <2>1. upTo = CHOOSE f : AllPieces!Solves(msgs, Nat, f) BY DEF AllUpTo
  <2> HIDE DEF upTo
  <2> QED BY <1>3, <2>1
<1>5. \A n \in Nat : upTo[n] = IF n = 0 THEN <<>> ELSE upTo[n - 1] \o Pieces(Root, msgs[n], 1)
  <2> HIDE DEF upTo
  <2> QED BY <1>4 DEF AllPieces!Solves, AllStep
<1> HIDE DEF upTo
<1> QED BY <1>1, <1>5 DEF upTo

\* No message has no pieces, and one more adds its own.
LEMMA AllMore ==
    /\ PiecesOfAll(<<>>) = <<>>
    /\ \A s \in Seq(ValuesOf(Root)) : \A msg \in ValuesOf(Root) :
        PiecesOfAll(Append(s, msg)) = PiecesOfAll(s) \o Pieces(Root, msg, 1)
<1>1. PiecesOfAll(<<>>) = <<>>
  <2>1. Len(<<>>) = 0 /\ 0 \in Nat BY SMT
  <2> QED BY <2>1, AllUp
<1>2. ASSUME NEW s \in Seq(ValuesOf(Root)), NEW msg \in ValuesOf(Root)
      PROVE  PiecesOfAll(Append(s, msg)) = PiecesOfAll(s) \o Pieces(Root, msg, 1)
  <2> DEFINE t == Append(s, msg)
             S == ValuesOf(Root)
             n == Len(s)
             P == {k \in Nat : k <= n => AllUpTo(t)[k] = AllUpTo(s)[k]}
  <2>1. /\ n \in Nat /\ Len(t) = n + 1 /\ t[n + 1] = msg
        /\ \A j \in 1..n : t[j] = s[j]
    <3>1. s \in Seq(S) /\ msg \in S OBVIOUS
    <3> HIDE DEF S
    <3> QED BY <3>1, SMT
  <2>2. n + 1 \in Nat /\ (n + 1) - 1 = n /\ n + 1 # 0 BY <2>1, SMT
  <2> HIDE DEF t, n
  <2>3. AllUpTo(t)[n + 1] = AllUpTo(t)[n] \o Pieces(Root, msg, 1) BY <2>1, <2>2, AllUp
  <2>4. 0 \in P
    <3>1. 0 \in Nat BY SMT
    <3>2. AllUpTo(t)[0] = <<>> /\ AllUpTo(s)[0] = <<>> BY <3>1, AllUp
    <3> QED BY <3>1, <3>2
  <2>5. ASSUME NEW k \in Nat, k \in P PROVE k + 1 \in P
    <3>1. SUFFICES ASSUME k + 1 <= n PROVE AllUpTo(t)[k + 1] = AllUpTo(s)[k + 1] BY SMT
    <3>2. k + 1 \in Nat /\ (k + 1) - 1 = k /\ k <= n /\ k + 1 \in 1..n /\ k + 1 # 0
      BY <2>1, <3>1, SMT
    <3>3. \A x : AllUpTo(x)[k + 1] = AllUpTo(x)[k] \o Pieces(Root, x[k + 1], 1)
      <4> TAKE x
      <4>1. AllUpTo(x)[k + 1] = AllUpTo(x)[(k + 1) - 1] \o Pieces(Root, x[k + 1], 1)
        BY <3>2, AllUp
      <4> QED BY <3>2, <4>1
    <3>4. AllUpTo(t)[k] = AllUpTo(s)[k] BY <2>5, <3>2
    <3> QED BY <2>1, <3>2, <3>3, <3>4
  <2>6. n \in P
    <3> HIDE DEF P
    <3> QED BY <2>1, <2>4, <2>5, Powers!Induct
  <2>7. AllUpTo(t)[n] = AllUpTo(s)[n]
    <3>1. n <= n BY <2>1, SMT
    <3> QED BY <2>6, <3>1
  <2>8. PiecesOfAll(t) = AllUpTo(t)[n + 1] /\ PiecesOfAll(s) = AllUpTo(s)[n]
    BY <2>1, AllUp DEF n
  <2> QED BY <2>3, <2>7, <2>8 DEF t
<1> QED BY <1>1, <1>2

-----------------------------------------------------------------------------
(* The inductive invariant.                                                *)

\* The first p bytes, whatever the buffer has after them.
Same(room, b, p) == p <= room /\ \A k \in 0 .. p - 1 : b[k] = buf[k]

\* Whatever the bytes still to be written turn out to be, if they say what the
\* waiting calls are to say, then the whole says the message.
SaysSoFar ==
    status = "run" /\ ~failed =>
        \A room \in 0..Capacity : \A b \in Spans(room) :
            /\ Same(room, b, pos)
            /\ pos + Owed(todo) <= room
            /\ Spells(room, b, todo, pos)
            => Says(room, b, Fields(Root, sent[Len(sent)], 1), start)

\* The first p bytes are the keys and values of the messages, and to any reader
\* they say what it sees of the messages, merged.
SaysMessages(msgs, p) ==
    /\ \A d \in VersionsOf(Root) : IsMessage(d, Got(d, msgs))
    /\ Paired(Root, PiecesOfAll(msgs)) /\ p = Owed(PiecesOfAll(msgs))
    /\ \A room \in 0..Capacity : \A b \in Spans(room) :
        Same(room, b, p) =>
            /\ \A d \in VersionsOf(Root) : Adds(room, b, d, EmptyMessage(d), Got(d, msgs), 0, p)
            /\ LaysOut(room, b, PiecesOfAll(msgs), 0)

\* The calls that are over have written what says their messages.
EarlierSaid ==
    /\ status \in {"idle", "ok"} => SaysMessages(sent, pos)
    /\ status = "run" =>
        \E msgs \in Seq(ValuesOf(Root)) :
            sent = Append(msgs, sent[Len(sent)]) /\ SaysMessages(msgs, start)

\* What has not been written is as the caller gave it.
Untouched == \A k \in pos .. Capacity - 1 : buf[k] = 0

WrittenInv == SaysSoFar /\ EarlierSaid /\ Untouched /\ WrittenIsWellFormed

\* The bytes that are the same up to a place are so up to any before it.
LEMMA SameBefore ==
    ASSUME NEW room, NEW b, NEW p \in Nat, NEW q \in Nat, p <= q, room \in Nat, Same(room, b, q)
    PROVE  Same(room, b, p)
<1>1. p <= room /\ \A k \in 0 .. p - 1 : k \in 0 .. q - 1 BY SMT DEF Same
<1> QED BY <1>1 DEF Same

\* The inductive invariant of WrittenSaysTheMessage.
THEOREM WrittenInductive == Spec => []WrittenInv
<1>1. Init => WrittenInv
  <2> SUFFICES ASSUME Init PROVE EarlierSaid /\ Untouched
    BY DEF Init, WrittenInv, SaysSoFar, WrittenIsWellFormed
  <2>1. status = "idle" /\ pos = 0 /\ sent = <<>> /\ buf \in [0 .. Capacity - 1 -> {0}]
    BY DEF Init
  <2>2. \A d \in VersionsOf(Root) : IsMessage(d, Got(d, <<>>)) /\ Got(d, <<>>) = EmptyMessage(d)
    <3> TAKE d \in VersionsOf(Root)
    <3>1. Got(d, <<>>) = EmptyMessage(d) BY SeenMore DEF Got, Held
    <3> QED BY <3>1, EmptyIsMessage
  <2>3. PiecesOfAll(<<>>) = <<>> /\ Paired(Root, <<>>) /\ Owed(<<>>) = 0
    BY AllMore, NoneIsPaired, OwedNone
  <2>4. \A room, b : LaysOut(room, b, <<>>, 0) BY LaysNone
  <2> QED BY <2>1, <2>2, <2>3, <2>4 DEF EarlierSaid, SaysMessages, Adds, Untouched
<1>2. Inv /\ SizeInv /\ SizeInv' /\ WrittenInv /\ [Next]_vars => WrittenInv'
  <2> SUFFICES ASSUME Inv, SizeInv, SizeInv', WrittenInv, [Next]_vars PROVE WrittenInv' OBVIOUS
  <2>0. /\ TypeOK /\ FailedInv /\ SentOK /\ EncodeSkipExact' /\ SaysSoFar /\ EarlierSaid
        /\ Untouched /\ WrittenIsWellFormed
        /\ pos \in Nat /\ start \in Nat /\ limit \in Nat /\ Capacity \in Nat
        /\ pos <= limit /\ start <= pos /\ limit <= Capacity
        /\ buf \in Spans(Capacity)
    <3>1. /\ TypeOK /\ FailedInv /\ SentOK /\ EncodeSkipExact' /\ SaysSoFar /\ EarlierSaid
          /\ Untouched /\ WrittenIsWellFormed
      BY DEF Inv, SizeInv, WrittenInv
    <3>2. /\ pos \in 0..limit /\ limit \in 0..Capacity /\ start \in 0..pos
          /\ buf \in Spans(Capacity)
      BY <3>1 DEF TypeOK, Spans
    <3>3. Capacity \in 0 .. LenWord - 1 /\ LenWord \in Nat
      BY EncoderAssumption, SchemaAssumption
    <3> QED BY <3>1, <3>2, <3>3, SMT
  <2>1. ASSUME NEW msg \in ValuesOf(Root), CallEncode(msg) PROVE WrittenInv'
    <3>1. /\ sent' = Append(sent, msg) /\ start' = pos /\ pos' = pos /\ status' = "run"
          /\ todo' = <<Fields(Root, msg, 1)>> /\ buf' = buf /\ status \in {"idle", "ok"}
      BY <2>1, Zenon DEF CallEncode
    <3>2. sent'[Len(sent')] = msg
      <4>1. sent \in Seq(ValuesOf(Root)) /\ msg \in ValuesOf(Root) BY <2>0 DEF SentOK
      <4>2. Append(sent, msg)[Len(Append(sent, msg))] = msg
        <5> DEFINE S == ValuesOf(Root)
        <5>1. sent \in Seq(S) /\ msg \in S BY <4>1
        <5> HIDE DEF S
        <5> QED BY <5>1, OneMore
      <4> QED BY <3>1, <4>2
    <3>3. Fields(Root, msg, 1) \in Entries
      BY EncoderAssumption, MessageSize DEF MessageCoders
    <3>4. \A room, b : Spells(room, b, todo', pos') => Says(room, b, Fields(Root, msg, 1), pos)
      BY <2>0, <3>1, <3>3, SpellsOne
    <3>5. EarlierSaid'
      <4>1. SaysMessages(sent, pos) BY <2>0, <3>1 DEF EarlierSaid
      <4>2. SaysMessages(sent, start)' = SaysMessages(sent', pos)
        BY <3>1 DEF SaysMessages, Same
      <4>3. \A msgs : SaysMessages(msgs, pos)
                        <=> (/\ \A d \in VersionsOf(Root) : IsMessage(d, Got(d, msgs))
                             /\ Paired(Root, PiecesOfAll(msgs)) /\ start' = Owed(PiecesOfAll(msgs))
                             /\ \A room \in 0..Capacity : \A b \in Spans(room) :
                                  (Same(room, b, start))' =>
                                    /\ \A d \in VersionsOf(Root) :
                                         Adds(room, b, d, EmptyMessage(d), Got(d, msgs), 0, start')
                                    /\ LaysOut(room, b, PiecesOfAll(msgs), 0))
        BY <3>1 DEF SaysMessages, Same
      <4>4. sent \in Seq(ValuesOf(Root)) BY <2>0 DEF SentOK
      <4>5. PICK msgs : msgs = sent OBVIOUS
      <4>6. (SaysMessages(msgs, start))' BY <4>1, <4>3, <4>5 DEF SaysMessages
      <4> QED BY <3>1, <3>2, <4>4, <4>5, <4>6 DEF EarlierSaid
    <3>6. Untouched' BY <2>0, <3>1 DEF Untouched
    <3> QED BY <3>1, <3>2, <3>4, <3>5, <3>6
      DEF WrittenInv, SaysSoFar, WrittenIsWellFormed
  <2>2. CASE EncodeField \/ EndFields \/ EncodeArray \/ EncodeMessage \/ EncodeBody
    <3>1. status = "run" /\ UNCHANGED <<buf, mode, limit, start, pos, failed, status, sent>>
      BY <2>2, Zenon DEF EncodeField, EndFields, EncodeArray, EncodeMessage, EncodeBody, Doing
    <3>2. SaysSoFar'
      <4> SUFFICES ASSUME ~failed, NEW room \in 0..Capacity, NEW b \in Spans(room),
                          Same(room, b, pos), pos + Owed(todo') <= room,
                          Spells(room, b, todo', pos)
                   PROVE  Says(room, b, Fields(Root, sent[Len(sent)], 1), start)
        BY <3>1 DEF SaysSoFar, Same
      <4>1. pos + Owed(todo) <= room /\ Spells(room, b, todo, pos) BY <2>0, <2>2, QuietSays
      <4> QED BY <2>0, <3>1, <4>1 DEF SaysSoFar
    <3>3. EarlierSaid' /\ Untouched'
      BY <2>0, <3>1 DEF EarlierSaid, Untouched, SaysMessages, Same
    <3> QED BY <3>1, <3>2, <3>3, Zenon DEF WrittenInv, WrittenIsWellFormed
  <2>3. CASE WriteGroup \/ WriteFixed
    <3>1. status = "run" /\ UNCHANGED <<mode, limit, start, failed, status, sent>>
      BY <2>3 DEF WriteGroup, WriteFixed, Doing
    <3>2. SaysSoFar'
      <4> SUFFICES ASSUME ~failed, NEW room \in 0..Capacity, NEW b \in Spans(room),
                          \A k \in 0 .. pos' - 1 : b[k] = buf'[k],
                          pos' + Owed(todo') <= room, Spells(room, b, todo', pos')
                   PROVE  Says(room, b, Fields(Root, sent[Len(sent)], 1), start)
        BY <3>1 DEF SaysSoFar, Same
      <4>1. /\ pos + Owed(todo) <= room /\ Spells(room, b, todo, pos)
            /\ \A k \in 0 .. pos - 1 : b[k] = buf[k]
        BY <2>0, <2>3, WriteSays
      <4>2. Same(room, b, pos)
        <5>1. Owed(todo) \in Nat BY <2>0, SizesType DEF TypeOK
        <5>2. pos <= room BY <2>0, <4>1, <5>1, RoomNat, SMT
        <5> QED BY <4>1, <5>2 DEF Same
      <4> QED BY <2>0, <3>1, <4>1, <4>2 DEF SaysSoFar
    <3>3. /\ \A k \in 0 .. start - 1 : buf'[k] = buf[k]
          /\ \A k \in pos' .. Capacity - 1 : buf'[k] = buf[k] /\ k \in pos .. Capacity - 1
      BY <2>0, <2>3, WriteKeeps
    <3>4. EarlierSaid' BY <2>0, <3>1, <3>3 DEF EarlierSaid, SaysMessages, Same
    <3>5. Untouched' BY <2>0, <3>3 DEF Untouched
    <3> QED BY <3>1, <3>2, <3>4, <3>5 DEF WrittenInv, WrittenIsWellFormed
  <2>4. CASE Return
    <3>1. /\ status = "run" /\ todo = <<>> /\ status' = IF failed THEN "fail" ELSE "ok"
          /\ UNCHANGED <<buf, mode, limit, start, pos, todo, failed, sent>>
      BY <2>4 DEF Return
    <3>2. ASSUME ~failed PROVE WrittenIsWellFormed' /\ EarlierSaid'
      <4> DEFINE msg == sent[Len(sent)]
                 E == EmptyMessage(Root)
      <4>1. Root \in MessageCoders /\ msg \in ValuesOf(Root) /\ Root \in Coders
            /\ Root.kind = "message" /\ Root \in LoopCoders
        <5>1. \A S, s : s \in Seq(S) /\ s # <<>> => s[Len(s)] \in S BY SMT
        <5>2. sent # <<>> /\ sent \in Seq(ValuesOf(Root)) BY <2>0, <3>1 DEF SentOK
        <5> QED BY <5>1, <5>2, EncoderAssumption DEF MessageCoders, LoopCoders
      <4>2. pos = start + predicted
        <5>1. predicted' = predicted BY <3>1 DEF predicted
        <5> QED BY <2>0, <3>1, <3>2, <5>1 DEF EncodeSkipExact
      <4>3. EntrySize(Fields(Root, msg, 1)) = predicted BY <4>1, MessageSize DEF predicted
      <4> HIDE DEF msg
      <4>8. ASSUME NEW room \in 0..Capacity, NEW b \in Spans(room), Same(room, b, pos)
            PROVE  Says(room, b, Fields(Root, msg, 1), start)
        <5>1. Spells(room, b, todo, pos) BY <3>1, SpellsNone
        <5>2. pos + Owed(todo) <= room
          <6>1. Owed(todo) = 0 BY <3>1, OwedNone
          <6>2. pos <= room BY <4>8 DEF Same
          <6> QED BY <2>0, <6>1, <6>2, SMT
        <5> QED BY <2>0, <3>1, <3>2, <4>8, <5>1, <5>2 DEF SaysSoFar, msg
      <4>4. ASSUME NEW room \in 0..Capacity, NEW b \in Spans(room), Same(room, b, pos)
            PROVE  /\ \A d \in VersionsOf(Root) : \A u : IsMessage(d, u) =>
                        Adds(room, b, d, u, MergeMessages(d, u, View(Root, d, msg)), start, pos)
                   /\ LaysOut(room, b, Pieces(Root, msg, 1), start)
        <5> DEFINE e == Fields(Root, msg, 1)
        <5>1. Says(room, b, e, start) BY <4>4, <4>8
        <5>2. e.do = "fields" /\ e.coder = Root /\ e.v = msg /\ e.k = 1 BY DEF Fields
        <5>3. EntrySize(e) = predicted BY <4>3
        <5> HIDE DEF e
        <5>4. /\ \A d \in VersionsOf(Root) : \A u : IsMessage(d, u) =>
                   Adds(room, b, d,
                        MergeMessages(d, u, Partial(d, View(Root, d, msg), Before(Root, 1))),
                        MergeMessages(d, u, View(Root, d, msg)), start, pos)
              /\ LaysOut(room, b, Pieces(Root, msg, 1), start)
          BY <4>2, <4>4, <5>1, <5>2, <5>3 DEF Says
        <5>5. ASSUME NEW d \in VersionsOf(Root), NEW u, IsMessage(d, u)
              PROVE  MergeMessages(d, u, Partial(d, View(Root, d, msg), Before(Root, 1))) = u
          <6>1. Partial(d, View(Root, d, msg), Before(Root, 1)) = EmptyMessage(d)
            <7>1. ASSUME NEW x, x = View(Root, d, msg)
                  PROVE  Partial(d, x, Before(Root, 1)) = EmptyMessage(d)
              BY <4>1, <7>1, PartialIsWhole
            <7> QED BY <7>1
          <6>2. d \in Coders /\ d.kind = "message" BY <4>1, VersionIs
          <6> QED BY <5>5, <6>1, <6>2, MergeNothing
        <5> QED BY <5>4, <5>5
      <4>5. Same(Capacity, buf, pos) BY <2>0, SMT DEF Same
      <4>6. WrittenIsWellFormed'
        <5>1. /\ IsMessage(Root, E) /\ MergeMessages(Root, E, msg) = msg
              /\ Root \in VersionsOf(Root) /\ View(Root, Root, msg) = msg
          BY <4>1, EmptyIsMessage, MergeEmpty, OwnVersion
        <5>2. Capacity \in 0..Capacity BY <2>0, SMT
        <5> HIDE DEF E
        <5>3. Adds(Capacity, buf, Root, E, msg, start, pos) BY <2>0, <4>4, <4>5, <5>1, <5>2
        <5>4. pos \in 0..Capacity BY <2>0, SMT
        <5>5. Completes(buf, Capacity, Root, E, msg, start, pos)
          BY <2>0, <4>1, <5>3, <5>4, AddsCompletes
        <5> QED BY <3>1, <5>5 DEF Completes, WrittenIsWellFormed, msg, E
      <4>7. EarlierSaid'
        <5>1. PICK msgs \in Seq(ValuesOf(Root)) :
                sent = Append(msgs, sent[Len(sent)]) /\ SaysMessages(msgs, start)
          BY <2>0, <3>1 DEF EarlierSaid
        <5>2. sent = Append(msgs, msg) BY <5>1 DEF msg
        <5>3. \A d \in VersionsOf(Root) :
                /\ Got(d, sent) = MergeMessages(d, Got(d, msgs), View(Root, d, msg))
                /\ IsMessage(d, Got(d, sent)) /\ IsMessage(d, Got(d, msgs))
          BY <4>1, <5>1, <5>2, GotMore DEF SaysMessages
        <5>4. ASSUME NEW room \in 0..Capacity, NEW b \in Spans(room), Same(room, b, pos),
                     NEW d \in VersionsOf(Root)
              PROVE  Adds(room, b, d, EmptyMessage(d), Got(d, sent), 0, pos)
          <6>1. room \in Nat BY RoomNat
          <6>2. Same(room, b, start) BY <2>0, <5>4, <6>1, SameBefore
          <6> DEFINE none == EmptyMessage(d)
                     x == Got(d, msgs)
                     y == Got(d, sent)
          <6>3. Adds(room, b, d, none, x, 0, start) BY <5>1, <6>2 DEF SaysMessages
          <6>4. Adds(room, b, d, x, y, start, pos) BY <4>4, <5>3, <5>4
          <6> HIDE DEF x, y, none
          <6>5. Adds(room, b, d, none, y, 0, pos)
            BY <2>0, <6>1, <6>3, <6>4, AddsNext
          <6> QED BY <6>5 DEF y, none
        <5> DEFINE old == PiecesOfAll(msgs)
                   new == Pieces(Root, msg, 1)
        <5>5. PiecesOfAll(sent) = old \o new BY <4>1, <5>1, <5>2, AllMore
        <5>6. /\ Paired(Root, old) /\ old \in Seq(Entries) /\ start = Owed(old)
              /\ Paired(Root, new) /\ new \in Seq(Entries) /\ Owed(new) = predicted
          <6>1. 1 \in 1 .. Len(Root.order) + 1
            <7>1. Root.order \in Seq(Root.fields) BY <4>1, SchemaAssumption
            <7>2. \A S, q : q \in Seq(S) => 1 \in 1 .. Len(q) + 1 BY SMT
            <7> QED BY <7>1, <7>2
          <6> QED BY <4>1, <4>3, <5>1, <6>1, PiecesType DEF SaysMessages, Paired
        <5>7. Paired(Root, PiecesOfAll(sent)) /\ pos = Owed(PiecesOfAll(sent))
          BY <4>2, <5>5, <5>6, PairedConcat, OwedConcat
        <5>8. ASSUME NEW room \in 0..Capacity, NEW b \in Spans(room), Same(room, b, pos)
              PROVE  LaysOut(room, b, PiecesOfAll(sent), 0)
          <6>1. room \in Nat BY RoomNat
          <6>2. Same(room, b, start) BY <2>0, <5>8, <6>1, SameBefore
          <6>3. LaysOut(room, b, old, 0) BY <5>1, <6>2 DEF SaysMessages
          <6>5. LaysOut(room, b, new, start) BY <4>4, <5>8
          <6>6. 0 + start = start /\ 0 \in Nat BY <2>0, SMT
          <6> HIDE DEF old, new
          <6>7. LaysOut(room, b, old \o new, 0)
            BY <4>1, <5>6, <6>3, <6>5, <6>6, LaysConcat
          <6> QED BY <5>5, <6>7
        <5>9. SaysMessages(sent, pos) BY <5>3, <5>4, <5>7, <5>8 DEF SaysMessages
        <5> QED BY <3>1, <3>2, <5>9 DEF EarlierSaid, SaysMessages, Same
      <4> QED BY <4>6, <4>7
    <3>3. Untouched' BY <2>0, <3>1 DEF Untouched
    <3>4. ASSUME failed PROVE WrittenIsWellFormed' /\ EarlierSaid'
      BY <3>1, <3>4 DEF WrittenIsWellFormed, EarlierSaid
    <3>5. SaysSoFar' BY <3>1 DEF SaysSoFar
    <3> QED BY <3>2, <3>3, <3>4, <3>5 DEF WrittenInv
  <2>5. CASE Fail \/ Overrun
    <3>1. \/ status = "run" /\ status' = "run" /\ failed'
          \/ status' = "ub"
      BY <2>5 DEF Fail, Overrun, Doing
    <3>2. UNCHANGED <<buf, start, pos, sent>> BY <2>5 DEF Fail, Overrun
    <3> QED BY <2>0, <3>1, <3>2
      DEF WrittenInv, SaysSoFar, EarlierSaid, SaysMessages, Same, Untouched, WrittenIsWellFormed
  <2>6. CASE UNCHANGED vars
    BY <2>0, <2>6 DEF vars, WrittenInv, SaysSoFar, EarlierSaid, SaysMessages, Same, Untouched,
                      WrittenIsWellFormed
  <2> QED BY <2>1, <2>2, <2>3, <2>4, <2>5, <2>6 DEF Next, Step
<1> QED BY <1>1, <1>2, Inductive, SizesInductive, PTL DEF Spec

\* What the encoder writes is well-formed and says the message, for every
\* schema and every value.
THEOREM WrittenSaysTheMessage == Spec => []WrittenIsWellFormed
<1>1. WrittenInv => WrittenIsWellFormed BY DEF WrittenInv
<1> QED BY <1>1, WrittenInductive, PTL

\* What all calls wrote is well-formed and says their messages, merged: for
\* every schema, and however many messages there are.
THEOREM WrittenSaysTheMessages == Spec => []WrittenIsMerged
<1>1. Inv /\ SizeInv /\ WrittenInv => WrittenIsMerged
  <2> SUFFICES ASSUME Inv, SizeInv, WrittenInv, status = "ok"
               PROVE  Completes(buf, Capacity, Root, EmptyMessage(Root), Merged(Root, sent), 0, pos)
    BY DEF WrittenIsMerged, Completes
  <2>1. /\ pos \in 0..Capacity /\ Capacity \in Nat /\ buf \in Spans(Capacity)
        /\ Capacity \in 0..Capacity /\ Same(Capacity, buf, pos)
    <3>1. pos \in 0..limit /\ limit \in 0..Capacity /\ buf \in Spans(Capacity)
      BY DEF Inv, TypeOK, Spans
    <3>2. Capacity \in Nat
      <4>1. Capacity \in 0 .. LenWord - 1 /\ LenWord \in Nat BY EncoderAssumption, SchemaAssumption
      <4> QED BY <4>1, SMT
    <3> QED BY <3>1, <3>2, SMT DEF Same
  <2>2. Root \in LoopCoders /\ Root \in VersionsOf(Root)
    BY EncoderAssumption, OwnVersion DEF LoopCoders
  <2>3. Got(Root, sent) = Merged(Root, sent) BY SeenOwn DEF SizeInv, SentOK, Got, Held
  <2>4. Adds(Capacity, buf, Root, EmptyMessage(Root), Got(Root, sent), 0, pos)
    BY <2>1, <2>2 DEF WrittenInv, EarlierSaid, SaysMessages
  <2> DEFINE E == EmptyMessage(Root)
             M == Merged(Root, sent)
  <2>5. Adds(Capacity, buf, Root, E, M, 0, pos) BY <2>3, <2>4
  <2> HIDE DEF E, M
  <2>6. 0 \in Nat BY SMT
  <2>7. Completes(buf, Capacity, Root, E, M, 0, pos) BY <2>1, <2>2, <2>5, <2>6, AddsCompletes
  <2> QED BY <2>7 DEF E, M
<1> QED BY <1>1, Inductive, SizesInductive, WrittenInductive, PTL

-----------------------------------------------------------------------------
(***************************************************************************)
(* A walk that skips over what was written stays between the fields.       *)
(***************************************************************************)

\* Place p, if the program has the bytes before it.
Reached(p) == IF p <= shown THEN {p} ELSE {}

\* Where the k-th of all keys and values ends.
Place(k) == UpTo(Sizes(PiecesOfAll(sent)))[k]

\* No field of the message is an enum: what it embeds may have some.
NoEnumField == \A f \in Root.fields : f.coder \notin Enums

\* A varint that was written is skipped as a whole.
LEMMA GroupsSkipped ==
    ASSUME NEW n \in Nat, NEW lo \in Nat, NEW k, Groups(buf, lo, k, n), shown \in Nat
    PROVE  /\ lo + k \in Nat /\ lo < lo + k
           /\ LastByte(lo) = IF lo + k <= shown THEN {(lo + k) - 1} ELSE {}
           /\ SkipVarint(lo) = Reached(lo + k)
           /\ \A word \in Nat : n < word => NumberAt(lo, (lo + k) - 1, word) = n
<1> DEFINE l == lo + k - 1
<1>1. /\ k \in Nat \ {0} /\ ~Continues(buf[l])
      /\ \A j \in lo .. lo + k - 2 : Continues(buf[j]) /\ NumberFrom(buf, lo)[k] = n
  BY DEF Groups
<1>2. /\ l \in Nat /\ lo <= l /\ l + 1 = lo + k /\ l - lo + 1 = k /\ l - 1 = lo + k - 2
      /\ lo + k \in Nat /\ lo < lo + k /\ l = (lo + k) - 1
  BY <1>1, SMT
<1>3. LastByte(lo) = IF l + 1 <= shown THEN {l} ELSE {}
  <2>1. \A j \in lo .. l - 1 : Continues(buf[j]) BY <1>1, <1>2
  <2> HIDE DEF l
  <2> QED BY <1>1, <1>2, <2>1, LastAt DEF LastByte
<1>4. NumberFrom(buf, lo)[k] = n
  BY DEF Groups
<1>5. \A word \in Nat : n < word => NumberAt(lo, l, word) = n
  BY <1>2, <1>4, ModSmall DEF NumberAt
<1> HIDE DEF l
<1>6. SkipVarint(lo) = Reached(lo + k) BY <1>2, <1>3 DEF SkipVarint, Reached
<1> QED BY <1>2, <1>3, <1>5, <1>6 DEF l

\* A length that is there takes the skipper over what it counts.
LEMMA LengthSkipped ==
    ASSUME shown \in Nat, NEW lo \in Nat, NEW hi \in 0 .. Capacity, buf \in Spans(Capacity),
           NEW l \in LengthAt(buf, lo, hi)
    PROVE  SkipLength(lo) = Reached(l.end + l.val)
<1>0. hi \in Nat
  <2>1. Capacity \in 0 .. LenWord - 1 /\ LenWord \in Nat BY EncoderAssumption, SchemaAssumption
  <2> QED BY <2>1, SMT
<1>1. l \in VarintAt(buf, lo, hi, LenWord, LenWord) BY DEF LengthAt
<1>2. PICK k \in LastOfVarint(buf, lo, hi) :
        l = Found(k + 1, NumberFrom(buf, lo)[k - lo + 1] % LenWord)
  BY <1>1 DEF VarintAt
<1>3. l.end = k + 1 /\ l.val = NumberAt(lo, k, LenWord) BY <1>2 DEF Found, NumberAt
<1>4. /\ k \in Nat /\ lo <= k
      /\ ~Continues(buf[k]) /\ \A j \in lo .. k - 1 : Continues(buf[j])
  BY <1>0, LastPlace
<1>5. LastByte(lo) = IF k + 1 <= shown THEN {k} ELSE {} BY <1>4, LastAt DEF LastByte
<1>6. l.val \in Nat
  <2>1. Capacity \in Nat
    <3>1. Capacity \in 0 .. LenWord - 1 /\ LenWord \in Nat BY EncoderAssumption, SchemaAssumption
    <3> QED BY <3>1, SMT
  <2> QED BY <2>1, LengthPlace
<1> DEFINE m == l.val
<1>7. m \in Nat /\ l.end = k + 1 /\ m = NumberAt(lo, k, LenWord) BY <1>3, <1>6
<1> HIDE DEF m
<1>8. SkipLength(lo) = IF k + 1 <= shown THEN SkipBytes(k + 1, m) ELSE {}
  BY <1>5, <1>7 DEF SkipLength
<1>9. IF k + 1 <= shown THEN SkipBytes(k + 1, m) = Reached((k + 1) + m) ELSE Reached((k + 1) + m) = {}
  BY <1>4, <1>7, SMT DEF SkipBytes, Reached
<1>10. SkipLength(lo) = Reached((k + 1) + m) BY <1>8, <1>9
<1> QED BY <1>7, <1>10 DEF m

\* Both skippers of a field take the walk over a value that was written.
LEMMA ValueSkipped ==
    ASSUME NoEnumField, shown \in Nat, buf \in Spans(Capacity),
           NEW f \in Root.fields, NEW v \in ValuesOf(f.coder), NEW lo \in Nat,
           lo + ValueSkip(f.coder, v) <= Capacity,
           SaysValue(Capacity, buf, Value(f.coder, v), lo)
    PROVE  /\ SkipTyped(f.coder, lo) = Reached(lo + ValueSkip(f.coder, v))
           /\ SkipWire(f.wire, lo) = Reached(lo + ValueSkip(f.coder, v))
<1> DEFINE c == f.coder
           size == ValueSkip(c, v)
           e == Value(c, v)
           hi == lo + size
<1>1. /\ c \in Coders /\ c.kind \in Kinds /\ HasWire(c, f.wire) /\ v \in ValuesOf(c)
      /\ c \notin Enums
  <2>1. Root \in Coders /\ Root.kind = "message" BY EncoderAssumption
  <2> QED BY <2>1, SchemaAssumption, ValuesAssumption DEF NoEnumField
<1>2. size \in Nat \ {0} BY <1>1, ValueSkipNat
<1>3. EntrySize(e) = size BY <1>1, ValueSize
<1>4. hi \in 0 .. Capacity /\ hi \in Nat
  <2>1. Capacity \in 0 .. LenWord - 1 /\ LenWord \in Nat BY EncoderAssumption, SchemaAssumption
  <2>2. lo + size <= Capacity OBVIOUS
  <2> HIDE DEF size
  <2> QED BY <1>2, <2>1, <2>2, SMT
<1>5. CASE c.kind = "varint"
  <2>1. v \in Nat BY <1>1, <1>5, EncoderAssumption
  <2>2. e = Varint(v) /\ size = VarintSkip(v) BY <1>5 DEF Value, ValueSkip
  <2>3. Groups(buf, lo, VarintSkip(v), v) BY <2>2 DEF SaysValue, Varint
  <2>4. SkipVarint(lo) = Reached(lo + VarintSkip(v)) BY <2>1, <2>3, GroupsSkipped
  <2>5. f.wire = 0 BY <1>1, <1>5 DEF HasWire
  <2>6. SkipTyped(c, lo) = SkipVarint(lo) BY <1>1, <1>5 DEF SkipTyped
  <2>7. SkipWire(f.wire, lo) = SkipVarint(lo) BY <2>5 DEF SkipWire
  <2> QED BY <2>2, <2>4, <2>6, <2>7
<1>6. CASE c.kind # "varint"
  <2>1. e.do = c.kind /\ e.coder = c /\ e.v = v BY <1>6 DEF Value
  <2>2. SaysValue(Capacity, buf, e, lo) OBVIOUS
  <2>3. hi \in hi .. Capacity BY <1>4, SMT
  <2> HIDE DEF e, size
  <2>4. Found(hi, v) \in ValueAt(buf, Contents(buf, Capacity), c, lo, hi)
    <3>1. c \in VersionsOf(c) /\ View(c, c, v) = v BY <1>1, OwnVersion
    <3>2. e.do # "varint" BY <1>6, <2>1
    <3> QED BY <1>3, <2>1, <2>2, <2>3, <3>1, <3>2 DEF SaysValue
  <2> HIDE DEF hi
  <2>5. CASE c.kind = "fixed"
    <3>1. size = c.size /\ c.size \in Nat \ {0} BY <1>1, <2>5, SchemaAssumption DEF ValueSkip, size
    <3>2. SkipBytes(lo, c.size) = Reached(hi)
      <4>1. hi = lo + c.size BY <3>1 DEF hi
      <4> QED BY <3>1, <4>1, SMT DEF SkipBytes, Reached
    <3>3. SkipTyped(c, lo) = SkipBytes(lo, c.size) BY <1>1, <2>5 DEF SkipTyped
    <3>4. SkipWire(f.wire, lo) = Reached(hi)
      <4>1. CASE f.wire \in {1, 5}
        <5>1. c.size = FixedSize[f.wire] BY <1>1, <2>5, <4>1 DEF HasWire
        <5>2. f.wire # 0 /\ f.wire # 2 BY <4>1, SMT
        <5>3. SkipWire(f.wire, lo) = SkipBytes(lo, FixedSize[f.wire]) BY <5>2 DEF SkipWire
        <5> QED BY <3>2, <5>1, <5>3
      <4>2. CASE f.wire \notin {1, 5}
        <5>1. f.wire = 0 /\ c.size = 1 /\ ~Continues(v[1]) BY <1>1, <2>5, <4>2 DEF HasWire
        <5>2. hi = lo + 1 BY <3>1, <5>1 DEF hi
        <5>3. v = [j \in 1 .. 1 |-> buf[lo + j - 1]]
          BY <2>4, <2>5, <5>1 DEF ValueAt, Found
        <5>4. 1 \in 1 .. 1 /\ lo + 1 - 1 = lo /\ lo .. lo - 1 = {} /\ lo <= lo BY SMT
        <5>5. ~Continues(buf[lo]) BY <5>1, <5>3, <5>4
        <5>6. LastByte(lo) = IF lo + 1 <= shown THEN {lo} ELSE {}
          BY <5>4, <5>5, LastAt DEF LastByte
        <5>7. SkipVarint(lo) = Reached(hi) BY <5>2, <5>6 DEF SkipVarint, Reached
        <5> QED BY <5>1, <5>7 DEF SkipWire
      <4> QED BY <4>1, <4>2
    <3> QED BY <3>2, <3>3, <3>4 DEF hi, size
  <2>6. CASE c.kind # "fixed"
    <3>1. f.wire = 2 BY <1>1, <1>6, <2>6 DEF HasWire
    <3>2. SkipTyped(c, lo) = SkipLength(lo) BY <1>1, <1>6, <2>6 DEF SkipTyped
    <3>3. SkipWire(f.wire, lo) = SkipLength(lo) BY <3>1 DEF SkipWire
    <3>4. \E l \in LengthAt(buf, lo, hi) : hi = l.end + l.val
      BY <1>6, <2>4, <2>6 DEF ValueAt, Found
    <3>5. SkipLength(lo) = Reached(hi) BY <1>4, <3>4, LengthSkipped
    <3> QED BY <3>2, <3>3, <3>5 DEF hi, size
  <2> QED BY <2>5, <2>6
<1> QED BY <1>5, <1>6

\* Every key and every value takes a byte at least.
LEMMA Increasing ==
    ASSUME NEW s \in Seq(Entries), \A j \in 1 .. Len(s) : EntrySize(s[j]) # 0
    PROVE  \A i, j \in 0 .. Len(s) :
             /\ UpTo(Sizes(s))[i] \in Nat
             /\ i < j => UpTo(Sizes(s))[i] < UpTo(Sizes(s))[j]
<1> DEFINE n == Len(s)
           U == UpTo(Sizes(s))
           P == {d \in Nat : \A i \in 0..n : i + (d + 1) <= n => U[i] < U[i + (d + 1)]}
<1>1. n \in Nat /\ DOMAIN s = 1..n /\ \A j \in 1..n : s[j] \in Entries BY SMT
<1>2. Sizes(s) \in Seq(Nat) /\ Len(Sizes(s)) = n BY SizesType
<1>3. \A i \in 0..n : U[i] \in Nat BY <1>2, TotalNat
<1>4. \A j \in 1..n : EntrySize(s[j]) \in Nat \ {0} BY <1>1, EntrySizeNat
<1>5. \A j \in 1..n : Sizes(s)[j] = EntrySize(s[j]) BY <1>1 DEF Sizes
<1>6. ASSUME NEW i \in 0..n, i + 1 <= n PROVE U[i] < U[i + 1]
  <2>1. i \in Nat /\ i + 1 \in 1..n
    <3> HIDE DEF n
    <3> QED BY <1>1, <1>6, SMT
  <2>2. U[i + 1] = U[i] + EntrySize(s[i + 1]) BY <1>5, <2>1, UpToStep
  <2> DEFINE x == U[i]
             y == EntrySize(s[i + 1])
  <2>3. x \in Nat /\ y \in Nat \ {0} /\ U[i + 1] = x + y BY <1>3, <1>4, <2>1, <2>2
  <2> HIDE DEF x, y
  <2>4. x < x + y BY <2>3, SMT
  <2> QED BY <2>3, <2>4 DEF x
<1> HIDE DEF n, U
<1>7. 0 \in P
  <2>1. 0 \in Nat /\ 0 + 1 = 1 BY SMT
  <2> QED BY <1>6, <2>1
<1>8. ASSUME NEW d \in Nat, d \in P PROVE d + 1 \in P
  <2>1. SUFFICES ASSUME NEW i \in 0..n, i + ((d + 1) + 1) <= n
                 PROVE  U[i] < U[i + ((d + 1) + 1)]
    BY SMT
  <2> DEFINE j == i + (d + 1)
  <2>2. j \in 0..n /\ j <= n /\ j + 1 <= n /\ j + 1 \in 0..n /\ i + ((d + 1) + 1) = j + 1
    BY <1>1, <2>1, SMT
  <2>3. U[i] < U[j] BY <1>8, <2>2
  <2> HIDE DEF j
  <2>4. U[j] < U[j + 1] BY <1>6, <2>2
  <2> DEFINE x == U[i]
             y == U[j]
             z == U[j + 1]
  <2>5. x \in Nat /\ y \in Nat /\ z \in Nat /\ x < y /\ y < z BY <1>3, <2>2, <2>3, <2>4
  <2> HIDE DEF x, y, z
  <2>6. x < z BY <2>5, SMT
  <2> QED BY <2>2, <2>6 DEF x, z
<1>9. \A d \in Nat : d \in P
  <2> HIDE DEF P
  <2> QED BY <1>7, <1>8, Powers!Induct
<1>10. ASSUME NEW i \in 0..n, NEW j \in 0..n, i < j PROVE U[i] < U[j]
  <2> DEFINE d == j - (i + 1)
  <2>1. d \in Nat /\ i + (d + 1) = j /\ j <= n BY <1>1, <1>10, SMT
  <2> HIDE DEF d
  <2>2. d \in P BY <1>9, <2>1
  <2> QED BY <2>1, <2>2
<1> QED BY <1>3, <1>10 DEF n, U

\* A key and a value take a byte at least each.
LEMMA PairedSizes ==
    ASSUME NEW c \in MessageCoders, NEW s, Paired(c, s), NEW j \in 1 .. Len(s)
    PROVE  EntrySize(s[j]) # 0
<1>1. PICK n \in Nat :
        /\ Len(s) = 2 * n
        /\ \A i \in 0 .. n - 1 : \E f \in c.fields : \E v \in ValuesOf(f.coder) :
            s[2 * i + 1] = Varint(Key(f)) /\ s[2 * i + 2] = Value(f.coder, v)
  BY DEF Paired
<1>2. \E i \in 0 .. n - 1 : j = 2 * i + 1 \/ j = 2 * i + 2
  <2>0. j \in 1 .. 2 * n BY <1>1
  <2>1. CASE j % 2 = 1
    <3>1. (j - 1) \div 2 \in 0 .. n - 1 /\ j = 2 * ((j - 1) \div 2) + 1 BY <2>0, <2>1, SMT
    <3> QED BY <3>1
  <2>2. CASE j % 2 # 1
    <3>1. (j - 2) \div 2 \in 0 .. n - 1 /\ j = 2 * ((j - 2) \div 2) + 2 BY <2>0, <2>2, SMT
    <3> QED BY <3>1
  <2> QED BY <2>1, <2>2
<1>3. PICK f \in c.fields :
        \E v \in ValuesOf(f.coder) : s[j] = Varint(Key(f)) \/ s[j] = Value(f.coder, v)
  BY <1>1, <1>2
<1>4. f.coder \in Coders BY SchemaAssumption DEF MessageCoders
<1>5. EntrySize(Varint(Key(f))) # 0
  <2>1. VarintSkip(Key(f)) \in Nat \ {0} BY KeyNat, VarintSkipNat
  <2> QED BY <2>1 DEF EntrySize, Varint
<1>6. \A v \in ValuesOf(f.coder) : EntrySize(Value(f.coder, v)) # 0
  BY <1>4, ValueSize, ValueSkipNat
<1> QED BY <1>3, <1>5, <1>6

pairs == Len(PiecesOfAll(sent)) \div 2

\* What the walk meets between Place(k) and Place(k + 2), for an even k: a key
\* and a value of a field f.
Met(k, f) ==
    /\ PiecesOfAll(sent)[k + 1] = Varint(Key(f))
    /\ LastByte(Place(k)) = IF Place(k + 1) <= shown THEN {Place(k + 1) - 1} ELSE {}
    /\ Place(k + 1) <= shown => NumberAt(Place(k), Place(k + 1) - 1, KeyWord) = Key(f)
    /\ SkipTyped(f.coder, Place(k + 1)) = Reached(Place(k + 2))
    /\ SkipWire(f.wire, Place(k + 1)) = Reached(Place(k + 2))

\* What was written is a key and a value after the other, up to the end.
LEMMA WayIs ==
    ASSUME NoEnumField, TypeOK, SaysMessages(sent, pos), shown \in Nat
    PROVE  /\ pairs \in Nat /\ Place(0) = 0 /\ Place(2 * pairs) = pos
           /\ \A i, j \in 0 .. 2 * pairs :
                Place(i) \in Nat /\ (i < j => Place(i) < Place(j))
           /\ \A n \in 0 .. pairs - 1 : \E f \in Root.fields : Met(2 * n, f)
           /\ Boundaries = {Place(2 * n) : n \in 0 .. pairs}
<1> DEFINE s == PiecesOfAll(sent)
           U == UpTo(Sizes(s))
<1>1. Paired(Root, s) /\ pos = Owed(s) BY DEF SaysMessages
<1>2. PICK m \in Nat :
        /\ Len(s) = 2 * m
        /\ \A i \in 0 .. m - 1 : \E f \in Root.fields : \E v \in ValuesOf(f.coder) :
            s[2 * i + 1] = Varint(Key(f)) /\ s[2 * i + 2] = Value(f.coder, v)
  BY <1>1 DEF Paired
<1>3. pairs = m
  <2>1. pairs = (2 * m) \div 2 BY <1>2 DEF pairs
  <2> QED BY <2>1, SMT
<1>4. Root \in MessageCoders BY EncoderAssumption DEF MessageCoders
<1>5. s \in Seq(Entries) BY <1>1 DEF Paired
<1>6. Sizes(s) \in Seq(Nat) /\ Len(Sizes(s)) = 2 * m /\ Owed(s) = Total(Sizes(s))
  BY <1>2, <1>5, SizesType
<1>7. \A k : Place(k) = U[k] BY DEF Place
<1>8. Place(0) = 0 /\ Place(2 * m) = pos BY <1>1, <1>6, <1>7, UpToStep
<1> HIDE DEF s
<1>9. \A i, j \in 0 .. 2 * m : Place(i) \in Nat /\ (i < j => Place(i) < Place(j))
  <2>1. \A j \in 1 .. Len(s) : EntrySize(s[j]) # 0 BY <1>1, <1>4, PairedSizes
  <2>2. \A i, j \in 0 .. Len(s) : U[i] \in Nat /\ (i < j => U[i] < U[j])
    BY <1>5, <2>1, Increasing
  <2> QED BY <1>2, <1>7, <2>2
<1>10. buf \in Spans(Capacity) /\ Capacity \in Nat /\ Capacity \in 0..Capacity
       /\ pos \in Nat /\ pos <= Capacity
  <2>1. buf \in Spans(Capacity) /\ pos \in 0..limit /\ limit \in 0..Capacity BY DEF TypeOK, Spans
  <2>2. Capacity \in 0 .. LenWord - 1 /\ LenWord \in Nat BY EncoderAssumption, SchemaAssumption
  <2> QED BY <2>1, <2>2, SMT
<1>11. LaysOut(Capacity, buf, s, 0)
  <2>1. Same(Capacity, buf, pos) BY <1>10 DEF Same
  <2> QED BY <1>10, <2>1 DEF SaysMessages, s
<1>12. \A j \in 1 .. 2 * m : SaysValue(Capacity, buf, s[j], Place(j - 1))
  <2> TAKE j \in 1 .. 2 * m
  <2>1. DOMAIN s = 1 .. 2 * m BY <1>2, <1>5, SMT
  <2>2. SaysValue(Capacity, buf, s[j], 0 + U[j - 1]) BY <1>11, <2>1 DEF LaysOut
  <2>3. j - 1 \in 0 .. 2 * m BY SMT
  <2>4. 0 + Place(j - 1) = Place(j - 1)
    <3> DEFINE x == Place(j - 1)
    <3>1. x \in Nat BY <1>9, <2>3
    <3> HIDE DEF x
    <3>2. 0 + x = x BY <3>1, SMT
    <3> QED BY <3>2 DEF x
  <2>5. 0 + U[j - 1] = Place(j - 1)
    <3>1. U[j - 1] = Place(j - 1) BY <1>7
    <3> QED BY <2>4, <3>1
  <2> QED BY <2>2, <2>5
<1>13. \A k \in 0 .. 2 * m - 1 : Place(k + 1) = Place(k) + EntrySize(s[k + 1])
  <2> TAKE k \in 0 .. 2 * m - 1
  <2>1. k \in Nat /\ k + 1 \in 1 .. 2 * m BY SMT
  <2>2. DOMAIN s = 1 .. 2 * m BY <1>2, <1>5, SMT
  <2>3. Sizes(s)[k + 1] = EntrySize(s[k + 1]) BY <2>1, <2>2 DEF Sizes
  <2> QED BY <1>7, <2>1, <2>3, UpToStep
<1>14. ASSUME NEW n \in 0 .. m - 1 PROVE \E f \in Root.fields : Met(2 * n, f)
  <2>1. PICK f \in Root.fields : \E v \in ValuesOf(f.coder) :
          s[2 * n + 1] = Varint(Key(f)) /\ s[2 * n + 2] = Value(f.coder, v)
    BY <1>2
  <2>2. PICK v \in ValuesOf(f.coder) :
          s[2 * n + 1] = Varint(Key(f)) /\ s[2 * n + 2] = Value(f.coder, v)
    BY <2>1
  <2> DEFINE k == 2 * n
             x == Place(k)
             y == Place(k + 1)
             z == Place(k + 2)
  <2>3. /\ k \in 0 .. 2 * m - 1 /\ k + 1 \in 0 .. 2 * m - 1 /\ k + 2 \in 0 .. 2 * m
        /\ k \in 0 .. 2 * m /\ k + 1 \in 0 .. 2 * m
        /\ k + 1 \in 1 .. 2 * m /\ k + 2 \in 1 .. 2 * m /\ 2 * m \in 0 .. 2 * m
        /\ (k + 1) - 1 = k /\ (k + 2) - 1 = k + 1 /\ (k + 1) + 1 = k + 2
    BY SMT
  <2> HIDE DEF k
  <2>4. s[k + 1] = Varint(Key(f)) /\ s[k + 2] = Value(f.coder, v) BY <2>2 DEF k
  <2>5. f.coder \in Coders BY EncoderAssumption, SchemaAssumption
  <2>6. Key(f) \in Nat /\ Key(f) < KeyWord /\ KeyWord \in Nat
    <3>1. Root \in MessageCoders BY EncoderAssumption DEF MessageCoders
    <3> QED BY <3>1, KeyWire
  <2>7. x \in Nat /\ y \in Nat /\ z \in Nat /\ z <= Capacity
    <3>1. x \in Nat /\ y \in Nat /\ z \in Nat BY <1>9, <2>3
    <3>2. k + 2 < 2 * m \/ k + 2 = 2 * m
      <4> HIDE DEF z
      <4> QED BY <2>3, SMT
    <3>3. z < pos \/ z = pos BY <1>8, <1>9, <2>3, <3>2
    <3> HIDE DEF x, y, z
    <3> QED BY <1>10, <3>1, <3>3, SMT
  <2>8. y = x + VarintSkip(Key(f))
    <3>1. y = x + EntrySize(s[k + 1]) BY <1>13, <2>3
    <3> QED BY <2>4, <3>1 DEF EntrySize, Varint
  <2>9. z = y + ValueSkip(f.coder, v)
    <3>1. z = y + EntrySize(s[k + 2])
      <4>1. Place((k + 1) + 1) = Place(k + 1) + EntrySize(s[(k + 1) + 1]) BY <1>13, <2>3
      <4> QED BY <2>3, <4>1
    <3> QED BY <2>4, <2>5, <3>1, ValueSize
  <2>10. SaysValue(Capacity, buf, Varint(Key(f)), x)
         /\ SaysValue(Capacity, buf, Value(f.coder, v), y)
    <3>1. SaysValue(Capacity, buf, s[k + 1], Place((k + 1) - 1))
          /\ SaysValue(Capacity, buf, s[k + 2], Place((k + 2) - 1))
      BY <1>12, <2>3
    <3> QED BY <2>3, <2>4, <3>1
  <2>11. Groups(buf, x, VarintSkip(Key(f)), Key(f)) BY <2>10 DEF SaysValue, Varint
  <2> HIDE DEF x, y, z
  <2>12. /\ LastByte(x) = IF y <= shown THEN {y - 1} ELSE {}
         /\ NumberAt(x, y - 1, KeyWord) = Key(f)
    BY <2>6, <2>7, <2>8, <2>11, GroupsSkipped
  <2>13. SkipTyped(f.coder, y) = Reached(z) /\ SkipWire(f.wire, y) = Reached(z)
    BY <1>10, <2>7, <2>9, <2>10, ValueSkipped
  <2>14. Met(k, f) BY <2>4, <2>12, <2>13 DEF Met, s, x, y, z
  <2> QED BY <2>14 DEF k
<1>15. Boundaries = {Place(2 * n) : n \in 0 .. m}
  <2>1. ASSUME NEW n \in 0 .. m PROVE Owed(SubSeq(s, 1, 2 * n)) = Place(2 * n)
    <3> DEFINE k == 2 * n
               t == SubSeq(s, 1, k)
    <3>1. k \in Nat /\ k <= 2 * m BY SMT
    <3> HIDE DEF k
    <3>2. /\ t \in Seq(Entries) /\ Len(t) = k /\ DOMAIN t = 1..k /\ DOMAIN s = 1 .. 2 * m
          /\ \A j \in 1..k : t[j] = s[j] /\ j \in 1 .. 2 * m
      BY <1>2, <1>5, <3>1, SMT
    <3> HIDE DEF t
    <3>3. \A j \in 1..k : Sizes(t)[j] = Sizes(s)[j] BY <3>2 DEF Sizes
    <3>4. UpTo(Sizes(t))[k] = U[k] BY <3>1, <3>3, UpToAgree
    <3>5. Owed(t) = UpTo(Sizes(t))[k]
      <4>1. Owed(t) = Total(Sizes(t)) /\ Len(Sizes(t)) = k BY <3>2, SizesType
      <4> QED BY <4>1, UpToStep
    <3>6. Owed(t) = Place(k) BY <1>7, <3>4, <3>5
    <3> QED BY <3>6 DEF t, k
  <2>2. Boundaries = {Owed(SubSeq(s, 1, 2 * n)) : n \in 0 .. m} BY <1>3 DEF Boundaries, pairs, s
  <2> QED BY <2>1, <2>2
<1> QED BY <1>3, <1>8, <1>9, <1>14, <1>15

\* The walk is between two fields or between a key and its value, or it ended
\* where the bytes do, between two fields or in the middle of one.
WalkInv ==
    /\ walk \in {"idle", "run", "ok", "fail", "ub"}
    /\ walk = "idle" => here = 0 /\ tag = NoTag
    /\ walk # "idle" => status = "ok" /\ shown \in 0..pos
    /\ walk \in {"run", "ok"} /\ tag = NoTag =>
        here <= shown /\ \E n \in 0 .. pairs : here = Place(2 * n)
    /\ walk = "run" /\ tag # NoTag =>
        /\ here <= shown
        /\ \E n \in 0 .. pairs - 1 :
            here = Place(2 * n + 1) /\ PiecesOfAll(sent)[2 * n + 1] = Varint(tag)
    /\ walk = "ok" => tag = NoTag /\ here = shown
    /\ walk \in {"fail", "ub"} =>
        \E n \in 0 .. pairs - 1 : Place(2 * n) < shown /\ shown < Place(2 * n + 2)

\* What the walk needs to know of the writer when it goes on.
LEMMA WayOfWalk ==
    ASSUME NoEnumField, TypeOK, EarlierSaid, WalkInv, walk # "idle"
    PROVE  /\ pairs \in Nat /\ Place(0) = 0 /\ Place(2 * pairs) = pos
           /\ \A i, j \in 0 .. 2 * pairs :
                Place(i) \in Nat /\ (i < j => Place(i) < Place(j))
           /\ \A n \in 0 .. pairs - 1 : \E f \in Root.fields : Met(2 * n, f)
           /\ Boundaries = {Place(2 * n) : n \in 0 .. pairs}
           /\ shown \in Nat /\ shown <= pos /\ pos \in Nat
<1>1. status = "ok" /\ shown \in 0..pos BY DEF WalkInv
<1>2. pos \in Nat /\ shown \in Nat /\ shown <= pos
  <2>1. pos \in 0..limit /\ limit \in 0..Capacity BY DEF TypeOK
  <2>2. Capacity \in 0 .. LenWord - 1 /\ LenWord \in Nat BY EncoderAssumption, SchemaAssumption
  <2> QED BY <1>1, <2>1, <2>2, SMT
<1>3. SaysMessages(sent, pos) BY <1>1 DEF EarlierSaid
<1> QED BY <1>2, <1>3, WayIs

\* The n-th key and value are before the last, and so is where they end.
LEMMA PairPlaces ==
    ASSUME NEW m \in Nat, NEW n \in 0 .. m - 1
    PROVE  /\ n \in 0 .. m /\ n + 1 \in 0 .. m /\ 2 * (n + 1) = 2 * n + 2
           /\ 2 * n \in 0 .. 2 * m /\ 2 * n + 1 \in 0 .. 2 * m /\ 2 * n + 2 \in 0 .. 2 * m
           /\ 2 * n < 2 * n + 1 /\ 2 * n + 1 < 2 * n + 2
BY SMT

\* The walk knows the key of one field only.
LEMMA MetOne ==
    ASSUME NEW k, NEW f \in Root.fields, NEW g \in Root.fields, Met(k, f),
           NEW t, PiecesOfAll(sent)[k + 1] = Varint(t)
    PROVE  t = Key(f) /\ t # NoTag /\ (Key(g) = t => g = f)
<1>1. t = Key(f)
  <2>1. Varint(t) = Varint(Key(f)) BY DEF Met
  <2>2. Varint(t).n = t /\ Varint(Key(f)).n = Key(f) BY DEF Varint
  <2> QED BY <2>1, <2>2
<1>2. t # NoTag
  <2>1. Key(f) \in Nat
    <3>1. Root \in MessageCoders BY EncoderAssumption DEF MessageCoders
    <3> QED BY <3>1, KeyWire
  <2>2. -1 \notin Nat BY SMT
  <2> QED BY <1>1, <2>1, <2>2 DEF NoTag
<1>3. Root \in Coders /\ Root.kind = "message" BY EncoderAssumption
<1> QED BY <1>1, <1>2, <1>3, SchemaAssumption

\* The walk stays so as it goes on over a value, or gives up.
LEMMA SkipKeeps ==
    ASSUME NoEnumField, TypeOK, EarlierSaid, WalkInv, SkipAsField \/ SkipAsUnknown
    PROVE  WalkInv'
<1>1. walk = "run" /\ tag # NoTag BY DEF SkipAsField, SkipAsUnknown, Walking
<1>2. /\ pairs \in Nat
      /\ \A i, j \in 0 .. 2 * pairs : Place(i) \in Nat /\ (i < j => Place(i) < Place(j))
      /\ \A n \in 0 .. pairs - 1 : \E f \in Root.fields : Met(2 * n, f)
      /\ shown \in Nat
  BY <1>1, WayOfWalk
<1>3. here <= shown BY <1>1 DEF WalkInv
<1>4. PICK n \in 0 .. pairs - 1 :
        here = Place(2 * n + 1) /\ PiecesOfAll(sent)[2 * n + 1] = Varint(tag)
  BY <1>1 DEF WalkInv
<1>5. PICK f \in Root.fields : Met(2 * n, f) BY <1>2
<1>6. tag = Key(f) /\ \A g \in Root.fields : Key(g) = tag => g = f BY <1>4, <1>5, MetOne
<1> DEFINE end == Place(2 * n + 2)
<1>7. /\ n + 1 \in 0 .. pairs /\ end = Place(2 * (n + 1)) /\ end \in Nat
      /\ Place(2 * n) < here /\ here < end /\ Place(2 * n) \in Nat /\ here \in Nat
  BY <1>2, <1>4, PairPlaces
<1>8. SkipTo(Reached(end))
  <2>1. CASE SkipAsField BY <1>4, <1>5, <1>6, <2>1 DEF SkipAsField, Met
  <2>2. CASE SkipAsUnknown
    <3>1. WireOf(tag) = f.wire
      <4>1. Root \in MessageCoders BY EncoderAssumption DEF MessageCoders
      <4> QED BY <1>6, <4>1, KeyWire
    <3> QED BY <1>4, <1>5, <2>2, <3>1 DEF SkipAsUnknown, Met
  <2> QED BY <2>1, <2>2
<1>9. UNCHANGED <<vars, shown>> BY <1>8 DEF SkipTo, GiveUp
<1>10. status' = status /\ pos' = pos /\ sent' = sent /\ pairs' = pairs
       /\ \A k : Place(k)' = Place(k)
  BY <1>9 DEF vars, pairs, Place
<1>11. status = "ok" /\ shown \in 0..pos BY <1>1 DEF WalkInv
<1> HIDE DEF end
<1>12. CASE end <= shown
  <2>1. here' = end /\ tag' = NoTag /\ walk' = "run"
    BY <1>1, <1>8, <1>12 DEF SkipTo, Reached
  <2>2. here' = Place(2 * (n + 1))' BY <1>7, <1>10, <2>1
  <2> QED BY <1>7, <1>9, <1>10, <1>11, <1>12, <2>1, <2>2 DEF WalkInv
<1>13. CASE ~(end <= shown)
  <2>1. walk' \in {"fail", "ub"}
    BY <1>8, <1>13 DEF SkipTo, Reached, GiveUp
  <2>2. Place(2 * n) < shown /\ shown < end
    <3> DEFINE x == Place(2 * n)
    <3>1. x \in Nat /\ x < here BY <1>7
    <3> HIDE DEF x
    <3>2. x < shown /\ shown < end BY <1>2, <1>3, <1>7, <1>13, <3>1, SMT
    <3> QED BY <3>2 DEF x
  <2>3. \E j \in 0 .. pairs' - 1 : Place(2 * j)' < shown' /\ shown' < Place(2 * j + 2)'
    BY <1>9, <1>10, <2>2 DEF end
  <2> QED BY <1>9, <1>10, <1>11, <2>1, <2>3 DEF WalkInv
<1> QED BY <1>12, <1>13

\* It stays so as it reads a key, or gives up.
LEMMA KeyKeeps ==
    ASSUME NoEnumField, TypeOK, EarlierSaid, WalkInv, ReadKey
    PROVE  WalkInv'
<1>1. walk = "run" /\ tag = NoTag /\ here < shown BY DEF ReadKey, Walking
<1>2. /\ pairs \in Nat /\ Place(2 * pairs) = pos
      /\ \A i, j \in 0 .. 2 * pairs : Place(i) \in Nat /\ (i < j => Place(i) < Place(j))
      /\ \A n \in 0 .. pairs - 1 : \E f \in Root.fields : Met(2 * n, f)
      /\ shown \in Nat /\ shown <= pos /\ pos \in Nat
  BY <1>1, WayOfWalk
<1>3. PICK n \in 0 .. pairs : here = Place(2 * n) BY <1>1 DEF WalkInv
<1>4. n \in 0 .. pairs - 1
  <2>1. n # pairs
    <3>1. here \in Nat
      <4>1. 2 * n \in 0 .. 2 * pairs BY <1>2, SMT
      <4> QED BY <1>2, <1>3, <4>1
    <3>2. here # pos BY <1>1, <1>2, <3>1, SMT
    <3> QED BY <1>2, <1>3, <3>2
  <2> QED BY <1>2, <2>1, SMT
<1>5. PICK f \in Root.fields : Met(2 * n, f) BY <1>2, <1>4
<1> DEFINE mid == Place(2 * n + 1)
           end == Place(2 * n + 2)
<1>6. /\ mid \in Nat /\ end \in Nat /\ here \in Nat /\ here < mid /\ mid < end
  BY <1>2, <1>3, <1>4, PairPlaces
<1>7. UNCHANGED <<vars, shown>> BY DEF ReadKey, GiveUp
<1>8. status' = status /\ pos' = pos /\ sent' = sent /\ pairs' = pairs
      /\ \A k : Place(k)' = Place(k)
  BY <1>7 DEF vars, pairs, Place
<1>9. status = "ok" /\ shown \in 0..pos BY <1>1 DEF WalkInv
<1>10. CASE mid <= shown
  <2>1. LastByte(here) = {mid - 1} /\ NumberAt(here, mid - 1, KeyWord) = Key(f)
    BY <1>3, <1>5, <1>10 DEF Met
  <2>2. /\ PiecesOfAll(sent)[2 * n + 1] = Varint(Key(f)) BY <1>5 DEF Met
  <2>3. Key(f) # NoTag BY <1>5, <2>2, MetOne
  <2> HIDE DEF mid
  <2>4. here' = (mid - 1) + 1 /\ tag' = Key(f) /\ walk' = "run"
    BY <1>1, <2>1 DEF ReadKey
  <2>5. (mid - 1) + 1 = mid BY <1>6, SMT
  <2>6. here' = Place(2 * n + 1)' /\ here' <= shown' /\ tag' # NoTag
        /\ (PiecesOfAll(sent)[2 * n + 1] = Varint(tag))'
    BY <1>7, <1>8, <1>10, <2>2, <2>3, <2>4, <2>5 DEF mid
  <2>7. n \in 0 .. pairs' - 1 BY <1>4, <1>8
  <2> QED BY <1>7, <1>8, <1>9, <2>4, <2>6, <2>7 DEF WalkInv
<1>11. CASE ~(mid <= shown)
  <2>1. LastByte(here) = {} BY <1>3, <1>5, <1>11 DEF Met
  <2>2. walk' \in {"fail", "ub"} BY <2>1 DEF ReadKey, GiveUp
  <2> HIDE DEF mid, end
  <2>3. shown < end BY <1>2, <1>6, <1>11, SMT
  <2>4. \E j \in 0 .. pairs' - 1 : Place(2 * j)' < shown' /\ shown' < Place(2 * j + 2)'
    BY <1>1, <1>3, <1>4, <1>7, <1>8, <2>3 DEF end
  <2> QED BY <1>7, <1>8, <1>9, <2>2, <2>4 DEF WalkInv
<1> QED BY <1>10, <1>11

\* The writer goes on while there is no walk, and a walk leaves it alone.
LEMMA WalkStep == [WalkNext]_<<vars, walked>> => [Next]_vars
BY DEF WalkNext, Write, CallWalk, ReadKey, SkipAsField, SkipAsUnknown, EndWalk, SkipTo, GiveUp

\* So all that is proved of Encoder is true of the writer.
LEMMA WalkedIsEncoded == WalkSpec => Spec
<1>1. WalkInit => Init BY DEF WalkInit
<1> QED BY <1>1, WalkStep, PTL DEF WalkSpec, Spec

\* The inductive invariant of WalkStaysOnFields.
LEMMA WalkInductive ==
    ASSUME NoEnumField
    PROVE  WalkSpec => []WalkInv
<1>1. WalkInit => WalkInv BY DEF WalkInit, WalkInv
<1>2. TypeOK /\ EarlierSaid /\ WalkInv /\ [WalkNext]_<<vars, walked>> => WalkInv'
  <2> SUFFICES ASSUME TypeOK, EarlierSaid, WalkInv, [WalkNext]_<<vars, walked>>
               PROVE  WalkInv'
    OBVIOUS
  <2>1. CASE Write
    BY <2>1 DEF Write, walked, WalkInv
  <2>2. ASSUME NEW e \in 0..pos, CallWalk(e) PROVE WalkInv'
    <3>1. /\ walk = "idle" /\ status = "ok" /\ walk' = "run" /\ shown' = e
          /\ UNCHANGED <<vars, here, tag>> /\ here = 0 /\ tag = NoTag
      BY <2>2 DEF CallWalk, WalkInv
    <3>2. e \in Nat /\ 0 <= e
      <4>1. pos \in Nat
        <5>1. pos \in 0..limit /\ limit \in 0..Capacity BY DEF TypeOK
        <5>2. Capacity \in 0 .. LenWord - 1 /\ LenWord \in Nat
          BY EncoderAssumption, SchemaAssumption
        <5> QED BY <5>1, <5>2, SMT
      <4> QED BY <4>1, SMT
    <3>3. pairs \in Nat /\ Place(0) = 0
      <4>1. SaysMessages(sent, pos) BY <3>1 DEF EarlierSaid
      <4>2. Paired(Root, PiecesOfAll(sent)) BY <4>1 DEF SaysMessages
      <4>3. pairs \in Nat
        <5>1. PICK m \in Nat : Len(PiecesOfAll(sent)) = 2 * m BY <4>2 DEF Paired
        <5>2. pairs = (2 * m) \div 2 BY <5>1 DEF pairs
        <5> QED BY <5>2, SMT
      <4>4. Place(0) = 0 BY UpToStep DEF Place
      <4> QED BY <4>3, <4>4
    <3>4. pairs' = pairs /\ Place(2 * 0)' = Place(0) /\ 0 \in 0 .. pairs
      <4>1. sent' = sent BY <3>1 DEF vars
      <4>2. 2 * 0 = 0 /\ 0 \in 0 .. pairs BY <3>3, SMT
      <4> QED BY <4>1, <4>2 DEF pairs, Place
    <3>5. \E n \in 0 .. pairs' : here' = Place(2 * n)' BY <3>1, <3>3, <3>4
    <3>6. status' = "ok" /\ shown' \in 0 .. pos' BY <3>1 DEF vars
    <3> QED BY <3>1, <3>2, <3>5, <3>6 DEF WalkInv
  <2>3. CASE ReadKey BY <2>3, KeyKeeps
  <2>4. CASE SkipAsField \/ SkipAsUnknown BY <2>4, SkipKeeps
  <2>5. CASE EndWalk
    <3>1. /\ walk = "run" /\ tag = NoTag /\ here = shown /\ walk' = "ok"
          /\ UNCHANGED <<vars, shown, here, tag>>
      BY <2>5 DEF EndWalk, Walking
    <3>2. UNCHANGED <<sent, status, pos>> BY <3>1 DEF vars
    <3> QED BY <3>1, <3>2 DEF WalkInv, pairs, Place
  <2>6. CASE UNCHANGED <<vars, walked>>
    BY <2>6 DEF vars, walked, WalkInv, pairs, Place
  <2> QED BY <2>1, <2>2, <2>3, <2>4, <2>5, <2>6 DEF WalkNext
<1>3. WrittenInv => EarlierSaid BY DEF WrittenInv
<1> QED BY <1>1, <1>2, <1>3, WalkedIsEncoded, TypeCorrect, WrittenInductive, PTL DEF WalkSpec

\* Over what was written, for every schema whose message has no enum field, a
\* walk is between two fields whenever it comes to a key, whichever skipper took
\* it over each value, and it fails exactly if the bytes were cut inside a field.
THEOREM WalkStaysOnFields ==
    ASSUME NoEnumField
    PROVE  WalkSpec => []StaysOnFields
<1>1. TypeOK /\ EarlierSaid /\ WalkInv => StaysOnFields
  <2> SUFFICES ASSUME TypeOK, EarlierSaid, WalkInv, walk # "idle" PROVE StaysOnFields
    BY DEF StaysOnFields
  <2>1. /\ pairs \in Nat
        /\ \A i, j \in 0 .. 2 * pairs : Place(i) \in Nat /\ (i < j => Place(i) < Place(j))
        /\ Boundaries = {Place(2 * n) : n \in 0 .. pairs}
        /\ shown \in Nat
    BY WayOfWalk
  <2>2. walk \in {"run", "ok"} /\ tag = NoTag => here \in Boundaries
    BY <2>1 DEF WalkInv
  <2>3. walk = "ok" => tag = NoTag /\ here = shown BY DEF WalkInv
  <2>4. ASSUME walk \in {"fail", "ub"} PROVE shown \notin Boundaries
    <3>1. PICK n \in 0 .. pairs - 1 : Place(2 * n) < shown /\ shown < Place(2 * n + 2)
      BY <2>4 DEF WalkInv
    <3>2. SUFFICES ASSUME NEW m \in 0 .. pairs, shown = Place(2 * m) PROVE FALSE
      BY <2>1
    <3>3. /\ 2 * m \in 0 .. 2 * pairs /\ 2 * n \in 0 .. 2 * pairs /\ 2 * n + 2 \in 0 .. 2 * pairs
          /\ 2 * m < 2 * n \/ 2 * m = 2 * n \/ 2 * m = 2 * n + 2 \/ 2 * n + 2 < 2 * m
      BY <2>1, SMT
    <3> DEFINE x == Place(2 * n)
               y == Place(2 * m)
               z == Place(2 * n + 2)
    <3>4. /\ x \in Nat /\ y \in Nat /\ z \in Nat /\ x < y /\ y < z
          /\ y < x \/ y = x \/ y = z \/ z < y
      BY <2>1, <3>1, <3>2, <3>3
    <3> HIDE DEF x, y, z
    <3> QED BY <3>4, SMT
  <2> QED BY <2>2, <2>3, <2>4 DEF StaysOnFields
<1>2. WrittenInv => EarlierSaid BY DEF WrittenInv
<1> QED BY <1>1, <1>2, WalkInductive, WalkedIsEncoded, TypeCorrect, WrittenInductive, PTL

-----------------------------------------------------------------------------
(***************************************************************************)
(* A reader gets what was written, of the fields that it knows, for every  *)
(* schema, every value and every number of messages.                       *)
(***************************************************************************)

\* A reader has a version of the message type.
LEMMA ReaderIs ==
    ASSUME NEW c \in Readers
    PROVE  c \in VersionsOf(Root) /\ c \in MessageCoders /\ c \in Coders /\ c.kind = "message"
<1>1. c \in VersionsOf(Root) BY VersionsAssumption DEF VersionsOf
<1>2. c \in Coders /\ c.kind = "message" BY <1>1, VersionIs, EncoderAssumption
<1> QED BY <1>1, <1>2 DEF MessageCoders

\* A zero is a key of field number 0.
LEMMA ZeroKey ==
    ASSUME NEW b, NEW lo \in Nat, NEW hi \in Nat, lo < hi, b[lo] = 0
    PROVE  \E k \in VarintAt(b, lo, hi, KeyWord, KeyWord) : NumberOf(k.val) = 0
<1>1. lo \in LastOfVarint(b, lo, hi)
  <2>1. lo \in lo .. hi - 1 /\ lo .. lo - 1 = {} BY SMT
  <2>2. ~Continues(b[lo]) BY BaseAssumption, SMT DEF Continues
  <2> QED BY <2>1, <2>2 DEF LastOfVarint
<1>2. lo - lo = 0 /\ lo - lo + 1 = 0 + 1 /\ lo + 0 = lo BY SMT
<1>3. Weight[lo - lo] < KeyWord
  <2>1. KeyWord \in Nat \ {0} /\ KeyWord % 8 = 0 BY SchemaAssumption, ValuesAssumption
  <2>2. 1 < KeyWord BY <2>1, SMT
  <2> QED BY <1>2, <2>2, WeightStep
<1>4. NumberFrom(b, lo)[lo - lo + 1] = 0
  <2>1. 0 % Base = 0
    <3>1. Base \in Nat /\ 0 < Base /\ 0 \in Nat BY BaseAssumption, SMT
    <3> QED BY <3>1, ModSmall
  <2>2. NumberFrom(b, lo)[0 + 1] = 0 + 0 * 1 BY <1>2, <2>1, NumberFromStep, WeightStep
  <2> QED BY <1>2, <2>2, SMT
<1>5. 0 % KeyWord = 0
  <2>1. KeyWord \in Nat /\ 0 < KeyWord /\ 0 \in Nat BY SchemaAssumption, SMT
  <2> QED BY <2>1, ModSmall
<1>6. Found(lo + 1, 0) \in VarintAt(b, lo, hi, KeyWord, KeyWord)
  BY <1>1, <1>3, <1>4, <1>5 DEF VarintAt
<1>7. NumberOf(Found(lo + 1, 0).val) = 0 BY SMT DEF Found, NumberOf
<1> QED BY <1>6, <1>7

-----------------------------------------------------------------------------
(* The writer goes on as Encoder says, whatever the reader does.           *)

\* The writer's part of a step.
LEMMA WriterStep == [CodecNext]_<<written, read>> => [Next]_vars
BY DEF CodecNext, Encode, CallDecode, Decode, written

\* So all that is proved of Encoder is true of the writer.
LEMMA WriterIsEncoder == CodecSpec => Spec
<1>1. CodecInit => Init BY DEF CodecInit
<1> QED BY <1>1, WriterStep, PTL DEF CodecSpec, Spec

\* What the decoder is given is a span of the buffer.
LEMMA CutType ==
    ASSUME TypeOK, cut \in (0..pos) \cup {Capacity}
    PROVE  /\ cut \in 0..Capacity /\ cut \in Nat /\ Capacity \in Nat /\ pos \in Nat
           /\ [k \in 0 .. cut - 1 |-> buf[k]] \in Spans(cut)
<1>1. pos \in 0..limit /\ limit \in 0..Capacity /\ buf \in [0 .. Capacity - 1 -> Byte]
  BY DEF TypeOK
<1>2. Capacity \in Nat
  <2>1. Capacity \in 0 .. LenWord - 1 /\ LenWord \in Nat BY EncoderAssumption, SchemaAssumption
  <2> QED BY <2>1, SMT
<1>3. cut \in 0..Capacity /\ cut \in Nat /\ pos \in Nat BY <1>1, <1>2, SMT
<1>4. \A k \in 0 .. cut - 1 : k \in 0 .. Capacity - 1 BY <1>2, <1>3, SMT
<1> QED BY <1>1, <1>2, <1>3, <1>4 DEF Spans

-----------------------------------------------------------------------------
(* The reader is a decoder.                                                *)

\* The reader's decoder, and what is proved of it.
DecP == INSTANCE DecoderProofs WITH
    Roots <- Readers, Inputs <- AllSpans,
    buf <- [k \in 0 .. cut - 1 |-> buf[k]],
    limit <- cut, pos <- at, status <- outcome

\* It is one of the decoders that DecoderProofs is about.
LEMMA DecoderFits == DecP!BaseAssumption /\ DecP!SchemaAssumption /\ DecP!DecoderAssumption
<1>1. DecP!BaseAssumption BY BaseAssumption DEF DecP!BaseAssumption
<1>2. DecP!SchemaAssumption
  BY SchemaAssumption
  DEF DecP!SchemaAssumption, DecP!Kinds, Kinds, DecP!Attributes, Attributes, DecP!Key, Key,
      DecP!KeyOf, KeyOf
<1>3. Capacity \in Nat
  <2>1. Capacity \in 0 .. LenWord - 1 /\ LenWord \in Nat BY EncoderAssumption, SchemaAssumption
  <2> QED BY <2>1, SMT
<1>4. \A s \in AllSpans : \E l \in 0..Capacity : s \in [0 .. l - 1 -> DecP!Byte]
  BY DEF AllSpans, DecP!Byte, Byte
<1>5. \A c \in Readers : c \in Coders /\ c.kind = "message" BY ReaderIs
<1>6. DecP!DecoderAssumption BY <1>3, <1>4, <1>5 DEF DecP!DecoderAssumption
<1> QED BY <1>1, <1>2, <1>6

\* It takes the steps of Codec's decoder.
LEMMA SameNext == Dec!Next => DecP!Next
<1>1. Dec!NextKey => DecP!NextKey
  BY
    DEF Dec!NextKey, DecP!NextKey, Dec!Reading, DecP!Reading, Dec!top, DecP!top, Dec!depth,
        DecP!depth, Dec!MoreToRead, DecP!MoreToRead, Dec!AtLoopHead, DecP!AtLoopHead
<1>2. Dec!NextElement => DecP!NextElement
  BY Zenon
    DEF Dec!NextElement, DecP!NextElement, Dec!top, DecP!top, Dec!depth, DecP!depth, Dec!Call,
        DecP!Call, Dec!Reading, DecP!Reading, Dec!Taking, DecP!Taking, Dec!MoreToRead,
        DecP!MoreToRead, Dec!AtLoopHead, DecP!AtLoopHead
<1>3. Dec!EndLoop => DecP!EndLoop
  BY Zenon
    DEF Dec!EndLoop, DecP!EndLoop, Dec!Finish, DecP!Finish, Dec!AtHead, DecP!AtHead, Dec!depth,
        DecP!depth, Dec!Deliver, DecP!Deliver, Dec!PushField, DecP!PushField, Dec!MapInsert,
        DecP!MapInsert, Dec!KeyLess, DecP!KeyLess, Dec!MoreToRead, DecP!MoreToRead, Dec!top,
        DecP!top, Dec!AtLoopHead, DecP!AtLoopHead
<1>4. Dec!ReadGroup => DecP!ReadGroup
  BY Zenon
    DEF Dec!ReadGroup, DecP!ReadGroup, Dec!Continues, DecP!Continues, Dec!Accumulated,
        DecP!Accumulated, Dec!ShiftOf, DecP!ShiftOf, Dec!Callee, DecP!Callee, Dec!top, DecP!top,
        Dec!depth, DecP!depth, Dec!WordOf, DecP!WordOf, Dec!Accumulate, DecP!Accumulate,
        Dec!Weight, DecP!Weight, Dec!CheckIterator, DecP!CheckIterator, Dec!InVarint,
        DecP!InVarint, Dec!VarintReads, DecP!VarintReads
<1>5. Dec!KeyStop => DecP!KeyStop
  BY Zenon
    DEF Dec!KeyStop, DecP!KeyStop, Dec!Finish, DecP!Finish, Dec!AtHead, DecP!AtHead, Dec!depth,
        DecP!depth, Dec!Deliver, DecP!Deliver, Dec!PushField, DecP!PushField, Dec!MapInsert,
        DecP!MapInsert, Dec!KeyLess, DecP!KeyLess, Dec!NumberOf, DecP!NumberOf, Dec!KeyRead,
        DecP!KeyRead
<1>6. Dec!KeyKnown => DecP!KeyKnown
  BY Zenon
    DEF Dec!KeyKnown, DecP!KeyKnown, Dec!Call, DecP!Call, Dec!Reading, DecP!Reading, Dec!Taking,
        DecP!Taking, Dec!depth, DecP!depth, Dec!Known, DecP!Known, Dec!Key, DecP!Key, Dec!KeyOf,
        DecP!KeyOf, Dec!top, DecP!top, Dec!NumberOf, DecP!NumberOf, Dec!KeyRead, DecP!KeyRead
<1>7. Dec!KeyUnknown => DecP!KeyUnknown
  BY
    DEF Dec!KeyUnknown, DecP!KeyUnknown, Dec!WireOf, DecP!WireOf, Dec!Taking, DecP!Taking,
        Dec!Reading, DecP!Reading, Dec!Known, DecP!Known, Dec!Key, DecP!Key, Dec!KeyOf,
        DecP!KeyOf, Dec!top, DecP!top, Dec!depth, DecP!depth, Dec!NumberOf, DecP!NumberOf,
        Dec!KeyRead, DecP!KeyRead
<1>8. Dec!KeyThrows => DecP!KeyThrows
  BY
    DEF Dec!KeyThrows, DecP!KeyThrows, Dec!WireOf, DecP!WireOf, Dec!Known, DecP!Known, Dec!Key,
        DecP!Key, Dec!KeyOf, DecP!KeyOf, Dec!top, DecP!top, Dec!depth, DecP!depth, Dec!NumberOf,
        DecP!NumberOf, Dec!KeyRead, DecP!KeyRead
<1>9. Dec!ValueRead => DecP!ValueRead
  BY Zenon
    DEF Dec!ValueRead, DecP!ValueRead, Dec!AtHead, DecP!AtHead, Dec!depth, DecP!depth,
        Dec!Deliver, DecP!Deliver, Dec!PushField, DecP!PushField, Dec!MapInsert, DecP!MapInsert,
        Dec!KeyLess, DecP!KeyLess
<1>10. Dec!EnterLoop => DecP!EnterLoop
  BY
    DEF Dec!EnterLoop, DecP!EnterLoop, Dec!AtHead, DecP!AtHead, Dec!Callee, DecP!Callee,
        Dec!top, DecP!top, Dec!depth, DecP!depth, Dec!EmptyValue, DecP!EmptyValue,
        Dec!EmptyMessage, DecP!EmptyMessage, Dec!NumbersOf, DecP!NumbersOf, Dec!Frame,
        DecP!Frame, Dec!NoField, DecP!NoField, Dec!Reserves, DecP!Reserves, Dec!LengthRead,
        DecP!LengthRead
<1>11. Dec!ReserveThrows => DecP!ReserveThrows
  BY
    DEF Dec!ReserveThrows, DecP!ReserveThrows, Dec!Reserves, DecP!Reserves, Dec!Callee,
        DecP!Callee, Dec!top, DecP!top, Dec!depth, DecP!depth, Dec!LengthRead, DecP!LengthRead
<1>12. Dec!SkipVarint => DecP!SkipVarint
  BY
    DEF Dec!SkipVarint, DecP!SkipVarint, Dec!AtHead, DecP!AtHead
<1>13. Dec!SkipLength => DecP!SkipLength
  BY Zenon
    DEF Dec!SkipLength, DecP!SkipLength, Dec!Taking, DecP!Taking
<1>14. Dec!TakeFixed => DecP!TakeFixed
  BY Zenon
    DEF Dec!TakeFixed, DecP!TakeFixed, Dec!AtHead, DecP!AtHead, Dec!depth, DecP!depth,
        Dec!Deliver, DecP!Deliver, Dec!PushField, DecP!PushField, Dec!MapInsert, DecP!MapInsert,
        Dec!KeyLess, DecP!KeyLess, Dec!Available, DecP!Available, Dec!CheckBytesSpan,
        DecP!CheckBytesSpan, Dec!InSpan, DecP!InSpan, Dec!SpanReads, DecP!SpanReads
<1>15. Dec!SkipSpan => DecP!SkipSpan
  BY
    DEF Dec!SkipSpan, DecP!SkipSpan, Dec!AtHead, DecP!AtHead, Dec!Available, DecP!Available,
        Dec!CheckBytesSpan, DecP!CheckBytesSpan, Dec!InSpan, DecP!InSpan, Dec!SpanReads,
        DecP!SpanReads
<1>16. Dec!Fail => DecP!Fail
  BY
    DEF Dec!Fail, DecP!Fail, Dec!CheckBytesSpan, DecP!CheckBytesSpan, Dec!InSpan, DecP!InSpan,
        Dec!SpanReads, DecP!SpanReads, Dec!CheckIterator, DecP!CheckIterator, Dec!InVarint,
        DecP!InVarint, Dec!VarintReads, DecP!VarintReads
<1>17. Dec!Overrun => DecP!Overrun
  BY
    DEF Dec!Overrun, DecP!Overrun, Dec!Available, DecP!Available, Dec!CheckBytesSpan,
        DecP!CheckBytesSpan, Dec!InSpan, DecP!InSpan, Dec!SpanReads, DecP!SpanReads,
        Dec!CheckIterator, DecP!CheckIterator, Dec!InVarint, DecP!InVarint, Dec!VarintReads,
        DecP!VarintReads
<1> QED
  BY <1>1, <1>2, <1>3, <1>4, <1>5, <1>6, <1>7, <1>8, <1>9, <1>10, <1>11, <1>12, <1>13, <1>14, <1>15, <1>16, <1>17
        DEF Dec!Next, DecP!Next

\* Its grammar is the writer's.
LEMMA SameContents == \A b, n : DecP!Contents(b, n) = Contents(b, n)
BY
    DEF DecP!Contents, Contents, DecP!ContentsStep, ContentsStep, DecP!NumberOf, NumberOf,
        DecP!VarintAt, VarintAt, DecP!Weight, Weight, DecP!LastOfVarint, LastOfVarint,
        DecP!Continues, Continues, DecP!NumberFrom, NumberFrom, DecP!Found, Found,
        DecP!FieldsAt, FieldsAt, DecP!WireOf, WireOf, DecP!SkipEnds, SkipEnds, DecP!LengthAt,
        LengthAt, DecP!Window, Window, DecP!ItemsAt, ItemsAt, DecP!ValueAt, ValueAt,
        DecP!EmptyValue, EmptyValue, DecP!EmptyMessage, EmptyMessage, DecP!NumbersOf, NumbersOf,
        DecP!Filled, Filled, DecP!PushItem, PushItem, DecP!PushField, PushField, DecP!MapInsert,
        MapInsert, DecP!KeyLess, KeyLess, DecP!Item, Item, DecP!Key, Key, DecP!KeyOf, KeyOf,
        DecP!NoField, NoField, DecP!Windows, Windows, DecP!LoopCoders, LoopCoders

\* So are what items make of a message, and where a message is looked for.
LEMMA SameFilled ==
    /\ \A c, v, items : DecP!Filled(c, v, items) = Filled(c, v, items)
    /\ \A c, lo, hi : DecP!Window(c, lo, hi) = Window(c, lo, hi)
    /\ \A c : DecP!EmptyMessage(c) = EmptyMessage(c)
BY
    DEF DecP!Filled, Filled, DecP!PushItem, PushItem, DecP!PushField, PushField, DecP!MapInsert,
        MapInsert, DecP!KeyLess, KeyLess, DecP!Window, Window, DecP!EmptyMessage, EmptyMessage,
        DecP!NumbersOf, NumbersOf

\* And its numbers.
LEMMA SameVarints ==
    /\ \A b, lo, hi, w, t : DecP!VarintAt(b, lo, hi, w, t) = VarintAt(b, lo, hi, w, t)
    /\ \A k : DecP!NumberOf(k) = NumberOf(k)
BY
    DEF DecP!VarintAt, VarintAt, DecP!Weight, Weight, DecP!LastOfVarint, LastOfVarint,
        DecP!Continues, Continues, DecP!NumberFrom, NumberFrom, DecP!Found, Found,
        DecP!NumberOf, NumberOf

-----------------------------------------------------------------------------
(* The reader goes on as Decoder says, on the bytes of the writer.         *)

\* A reader has been called when the writer was done, on a prefix of what was
\* written or on the whole buffer, and what DecoderProofs says of a decoder is
\* true of it.
ReaderInv ==
    outcome # "idle" =>
        /\ status = "ok" /\ cut \in (0..pos) \cup {Capacity}
        /\ DecP!DecoderInv

\* A call begins as a run of the decoder does.
LEMMA CallStarts ==
    ASSUME TypeOK', NEW c \in Readers, NEW e \in (0..pos) \cup {Capacity}, CallDecode(c, e)
    PROVE  DecP!Init'
<1>1. /\ cut' = e /\ at' = 0 /\ stack' = <<Dec!Frame(c, 0, e)>>
      /\ vals' = <<EmptyMessage(c)>> /\ rd' = Dec!AtHead /\ outcome' = "run"
      /\ UNCHANGED <<buf, mode, pos>>
  BY DEF CallDecode, written, vars
<1>2. (TypeOK /\ cut \in (0..pos) \cup {Capacity} =>
         /\ cut \in 0..Capacity /\ cut \in Nat /\ Capacity \in Nat /\ pos \in Nat
         /\ [k \in 0 .. cut - 1 |-> buf[k]] \in Spans(cut))'
  BY CutType, PTL
<1>3. /\ cut' \in 0..Capacity /\ [k \in 0 .. cut - 1 |-> buf[k]]' \in Spans(cut')
  BY <1>1, <1>2
<1>4. [k \in 0 .. cut - 1 |-> buf[k]]' \in AllSpans \cap [0 .. cut' - 1 -> DecP!Byte]
  BY <1>3, Zenon DEF AllSpans, Spans, DecP!Byte, Byte
<1>5. mode' \in {"safe", "unsafe"} BY DEF TypeOK
<1>6. /\ stack' = <<DecP!Frame(c, 0, cut')>> /\ vals' = <<DecP!EmptyMessage(c)>>
      /\ rd' = DecP!AtHead
  BY <1>1, SameFilled
  DEF Dec!Frame, DecP!Frame, Dec!NoField, DecP!NoField, Dec!AtHead, DecP!AtHead
<1> QED BY <1>1, <1>3, <1>4, <1>5, <1>6 DEF DecP!Init

\* Every step keeps the invariant.
LEMMA ReaderNext ==
    TypeOK' /\ ReaderInv /\ [CodecNext]_<<written, read>> => ReaderInv'
<1> SUFFICES ASSUME TypeOK', ReaderInv, [CodecNext]_<<written, read>> PROVE ReaderInv'
  OBVIOUS
<1>1. CASE Encode
  <2>1. outcome = "idle" /\ outcome' = outcome BY <1>1 DEF Encode, read
  <2> QED BY <2>1 DEF ReaderInv
<1>2. ASSUME NEW c \in Readers, NEW e \in (0..pos) \cup {Capacity}, CallDecode(c, e)
      PROVE  ReaderInv'
  <2>1. status' = "ok" /\ cut' \in (0..pos') \cup {Capacity}
    BY <1>2 DEF CallDecode, written, vars
  <2>2. DecP!Init' BY <1>2, CallStarts
  <2>3. (DecP!Init => DecP!DecoderInv)' BY DecoderFits, DecP!DecoderStarts, PTL
  <2> QED BY <2>1, <2>2, <2>3 DEF ReaderInv
<1>3. CASE Decode
  <2>1. outcome = "run" /\ UNCHANGED <<status, cut, pos>>
    BY <1>3 DEF Decode, written, vars
  <2>2. status = "ok" /\ cut \in (0..pos) \cup {Capacity} /\ DecP!DecoderInv
    BY <2>1 DEF ReaderInv
  <2>3. DecP!Next
    <3>1. Dec!Next BY <1>3 DEF Decode
    <3> QED BY <3>1, SameNext
  <2>4. DecP!DecoderInv' BY <2>2, <2>3, DecoderFits, DecP!DecoderGoesOn
  <2> QED BY <2>1, <2>2, <2>4 DEF ReaderInv
<1>4. CASE UNCHANGED <<written, read>>
  <2>1. UNCHANGED <<status, pos, outcome, cut>> BY <1>4 DEF written, read, vars
  <2>2. DecP!vars' = DecP!vars BY <1>4 DEF written, read, vars, DecP!vars
  <2>3. DecP!DecoderInv => DecP!DecoderInv' BY <2>2, DecoderFits, DecP!DecoderGoesOn
  <2> QED BY <2>1, <2>3 DEF ReaderInv
<1> QED BY <1>1, <1>2, <1>3, <1>4 DEF CodecNext

\* The reader keeps to Decoder.
THEOREM ReaderInductive == CodecSpec => []ReaderInv
<1>1. CodecInit => ReaderInv BY DEF CodecInit, ReaderInv
<1> QED BY <1>1, ReaderNext, WriterIsEncoder, TypeCorrect, PTL DEF CodecSpec

-----------------------------------------------------------------------------
(* The message is there for the reader.                                    *)

\* What a reader is given that gets all of it is the message that merge makes
\* of what it sees of those that were written, up to pos.
LEMMA MessageIsThere ==
    ASSUME TypeOK, SizeInv, WrittenInv, ReaderInv, outcome # "idle", cut >= pos
    PROVE  /\ pos \in DecP!Ends /\ Merged(reader, Seen(reader, sent)) \in DecP!Messages(pos)
           /\ reader = Root => Seen(reader, sent) = sent
<1> DEFINE b == [k \in 0 .. cut - 1 |-> buf[k]]
           c == reader
           E == EmptyMessage(c)
           M == Merged(c, Seen(c, sent))
<1>1. status = "ok" /\ cut \in (0..pos) \cup {Capacity} BY DEF ReaderInv
<1>2. /\ cut \in 0..Capacity /\ cut \in Nat /\ Capacity \in Nat /\ pos \in Nat
      /\ b \in Spans(cut)
  BY <1>1, CutType
<1>3. pos <= cut /\ pos \in 0..cut BY <1>2, SMT
<1>4. \A k \in 0 .. cut - 1 : b[k] = buf[k] OBVIOUS
<1> HIDE DEF b
<1>5. Same(cut, b, pos)
  <2>1. \A k \in 0 .. pos - 1 : k \in 0 .. cut - 1 BY <1>2, <1>3, SMT
  <2> QED BY <1>3, <1>4, <2>1 DEF Same
<1>6. c = DecP!root /\ c \in Readers
  <2>1. c = DecP!root BY DEF reader, Dec!root, DecP!root
  <2>2. DecP!root \in Readers BY DEF ReaderInv, DecP!DecoderInv, DecP!WellFormedInv
  <2> QED BY <2>1, <2>2
<1> HIDE DEF c
<1>7. c \in VersionsOf(Root) /\ c \in LoopCoders BY <1>6, ReaderIs DEF LoopCoders
<1>8. Got(c, sent) = M
  <2>1. sent # <<>> /\ sent \in Seq(ValuesOf(Root)) BY <1>1 DEF SizeInv, SentOK
  <2>2. DOMAIN sent # {}
    <3> DEFINE S == ValuesOf(Root)
    <3>1. sent \in Seq(S) BY <2>1
    <3> HIDE DEF S
    <3> QED BY <2>1, <3>1, SMT
  <2>3. DOMAIN Seen(c, sent) = DOMAIN sent BY DEF Seen
  <2>4. DOMAIN <<>> = {} BY SMT
  <2>5. Seen(c, sent) # <<>> BY <2>2, <2>3, <2>4
  <2> QED BY <2>5 DEF Got, Held
<1>9. Adds(cut, b, c, E, Got(c, sent), 0, pos)
  BY <1>1, <1>2, <1>5, <1>7 DEF WrittenInv, EarlierSaid, SaysMessages
<1>10. Adds(cut, b, c, E, M, 0, pos) BY <1>8, <1>9
<1> HIDE DEF E, M
<1>11. Completes(b, cut, c, E, M, 0, pos)
  <2>1. 0 \in Nat BY SMT
  <2> QED BY <1>2, <1>3, <1>7, <1>10, <2>1, AddsCompletes
<1>12. PICK items \in Contents(b, cut)[Window(c, 0, pos)] : Filled(c, E, items) = M
  BY <1>11 DEF Completes
<1>13. M \in DecP!Messages(pos)
  BY <1>6, <1>12, SameContents, SameFilled, Zenon DEF b, E, DecP!Messages
<1>14. pos = cut \/ \E k \in VarintAt(b, pos, cut, KeyWord, KeyWord) : NumberOf(k.val) = 0
  <2>1. SUFFICES ASSUME pos # cut
                 PROVE  \E k \in VarintAt(b, pos, cut, KeyWord, KeyWord) : NumberOf(k.val) = 0
    OBVIOUS
  <2>2. pos < cut /\ cut = Capacity /\ pos \in 0 .. cut - 1 /\ pos \in pos .. Capacity - 1
    BY <1>1, <1>2, <1>3, <2>1, SMT
  <2>3. b[pos] = 0 BY <1>4, <2>2 DEF WrittenInv, Untouched
  <2> QED BY <1>2, <2>2, <2>3, ZeroKey
<1>15. pos \in DecP!Ends BY <1>3, <1>14, SameVarints DEF b, DecP!Ends
<1>16. c = Root => Seen(c, sent) = sent
  <2>1. sent \in Seq(ValuesOf(Root)) BY <1>1 DEF SizeInv, SentOK
  <2> QED BY <2>1, SeenOwn
<1> QED BY <1>13, <1>15, <1>16 DEF M, c

\* A reader that is done has what it was given.
LEMMA ReaderGetsAll ==
    TypeOK /\ SizeInv /\ WrittenInv /\ ReaderInv /\ Over /\ cut >= pos =>
        /\ outcome = "ok" /\ at = pos /\ vals[1] = Merged(reader, Seen(reader, sent))
        /\ reader = Root => Seen(reader, sent) = sent
<1> SUFFICES ASSUME TypeOK, SizeInv, WrittenInv, ReaderInv, Over, cut >= pos
             PROVE  /\ outcome = "ok" /\ at = pos
                    /\ vals[1] = Merged(reader, Seen(reader, sent))
                    /\ reader = Root => Seen(reader, sent) = sent
  OBVIOUS
<1>1. outcome # "idle" /\ outcome # "run" BY DEF Over
<1>2. DecP!DecodesWellFormed BY <1>1 DEF ReaderInv, DecP!DecoderInv, DecP!WellFormedInv
<1>3. /\ pos \in DecP!Ends /\ Merged(reader, Seen(reader, sent)) \in DecP!Messages(pos)
      /\ reader = Root => Seen(reader, sent) = sent
  BY <1>1, MessageIsThere
<1> QED BY <1>1, <1>2, <1>3 DEF DecP!DecodesWellFormed, DecP!Result

\* Decode inverts encode, and what was written one after the other is read as
\* merge puts it together: for every schema and all values, however deep they
\* nest, and for any number of messages.
THEOREM DecodesWhatWasWritten == CodecSpec => []DecodesMerge
<1>1. TypeOK /\ SizeInv /\ WrittenInv /\ ReaderInv => DecodesMerge
  BY ReaderGetsAll DEF DecodesMerge
<1> QED
    BY <1>1, WriterIsEncoder, TypeCorrect, SizesInductive, WrittenInductive, ReaderInductive,
       PTL

\* And a reader with another version of the type gets all it knows of, and
\* passes over the rest: for every schema, every version of it and all values,
\* however deep the versions differ, and for any number of messages.
THEOREM VersionsUnderstandEachOther == CodecSpec => []KeepsKnownFields
<1>1. TypeOK /\ SizeInv /\ WrittenInv /\ ReaderInv => KeepsKnownFields
  BY ReaderGetsAll DEF KeepsKnownFields, Seen
<1> QED
    BY <1>1, WriterIsEncoder, TypeCorrect, SizesInductive, WrittenInductive, ReaderInductive,
       PTL
=============================================================================
