------------------------ MODULE MessageObjectProofs ------------------------
(***************************************************************************)
(* Proofs about MessageObject, for every message type and any number of    *)
(* objects, pushes and calls.                                              *)
(***************************************************************************)
EXTENDS MessageObject, SequenceTheorems, WellFoundedInduction, TLAPS

----------------------------------------------------------------------------
(* What pushes make of a field.                                            *)

Stored == Values \cup {Hollow}
Entries(i) == IF IsMap(i) THEN Keys \X Values ELSE Values
KeysIn(s) == {s[x][1] : x \in DOMAIN s}

\* A field is of one of the three kinds.
LEMMA Kinds ==
    ASSUME NEW i \in Index
    PROVE  /\ Singular(i) \/ Repeated(i) \/ IsMap(i)
           /\ Singular(i) => ~Repeated(i) /\ ~IsMap(i)
           /\ Repeated(i) => ~IsMap(i)
BY ObjectAssumption DEF Attributes, Singular, Repeated, IsMap, Index

\* A set of numbers that is not empty has a least member.
LEMMA LeastIs ==
    ASSUME NEW S \in SUBSET Nat, S # {}
    PROVE  Least(S) \in S /\ \A y \in S : Least(S) <= y
<1>1. \E x \in S : \A y \in S : ~(<<y, x>> \in OpToRel(<, Nat))
  BY NatLessThanWellFounded, WFMin, Zenon
<1>2. PICK x \in S : \A y \in S : ~(<<y, x>> \in OpToRel(<, Nat)) BY <1>1
<1>3. ASSUME NEW y \in S PROVE x <= y
  <2>1. ~(<<y, x>> \in {ss \in Nat \X Nat : ss[1] < ss[2]}) BY <1>2 DEF OpToRel
  <2>2. x \in Nat /\ y \in Nat OBVIOUS
  <2> QED BY <2>1, <2>2, SMT
<1> QED BY <1>3 DEF Least

\* The first entry of a key is where CHOOSE finds it.
LEMMA FirstIs ==
    ASSUME NEW i \in Index, IsMap(i), NEW s \in Seq(Entries(i)), NEW k \in KeysIn(s)
    PROVE  /\ First(s, k) \in 1..Len(s) /\ s[First(s, k)][1] = k
           /\ \A y \in 1..First(s, k)-1 : s[y][1] # k
<1> DEFINE T == {x \in 1..Len(s) : s[x][1] = k}
<1>1. T # {} /\ T \in SUBSET Nat BY DEF KeysIn
<1>2. PICK x \in T : \A y \in T : x <= y BY <1>1, LeastIs
<1>3. x \in DOMAIN s /\ s[x][1] = k /\ \A y \in 1..x-1 : s[y][1] # k BY <1>2
<1>4. DOMAIN s = 1..Len(s) OBVIOUS
<1> QED BY <1>3, <1>4 DEF First

\* There is no other first entry.
LEMMA FirstUnique ==
    ASSUME NEW i \in Index, IsMap(i), NEW s \in Seq(Entries(i)), NEW k,
           NEW x \in 1..Len(s), s[x][1] = k, \A y \in 1..x-1 : s[y][1] # k
    PROVE  First(s, k) = x /\ k \in KeysIn(s)
<1>1. k \in KeysIn(s) BY DEF KeysIn
<1> QED BY <1>1, FirstIs

\* The first entries in one log after the other.
LEMMA FirstOfConcat ==
    ASSUME NEW i \in Index, IsMap(i), NEW s \in Seq(Entries(i)), NEW t \in Seq(Entries(i)), NEW k
    PROVE  /\ KeysIn(s \o t) = KeysIn(s) \cup KeysIn(t)
           /\ k \in KeysIn(s) => First(s \o t, k) = First(s, k)
           /\ k \in KeysIn(t) \ KeysIn(s) => First(s \o t, k) = Len(s) + First(t, k)
<1> DEFINE u == s \o t
<1>1. /\ u \in Seq(Entries(i)) /\ Len(u) = Len(s) + Len(t)
      /\ \A x \in 1..Len(s) : u[x] = s[x]
      /\ \A x \in 1..Len(t) : u[Len(s) + x] = t[x]
      /\ \A x \in Len(s)+1..Len(u) : u[x] = t[x - Len(s)]
  BY ConcatProperties
<1> HIDE DEF u
<1>2. KeysIn(u) = KeysIn(s) \cup KeysIn(t)
  <2>1. DOMAIN s = 1..Len(s) /\ DOMAIN t = 1..Len(t) /\ DOMAIN u = 1..Len(u) BY <1>1
  <2>2. Len(s) \in Nat /\ Len(t) \in Nat OBVIOUS
  <2>3. ASSUME NEW x \in DOMAIN s PROVE s[x][1] \in KeysIn(u)
    <3>1. x \in DOMAIN u /\ u[x] = s[x] BY <2>1, <2>2, <1>1
    <3> QED BY <3>1 DEF KeysIn
  <2>4. ASSUME NEW x \in DOMAIN t PROVE t[x][1] \in KeysIn(u)
    <3>1. Len(s) + x \in DOMAIN u /\ u[Len(s) + x] = t[x] BY <2>1, <2>2, <1>1
    <3> QED BY <3>1 DEF KeysIn
  <2>5. ASSUME NEW x \in DOMAIN u PROVE u[x][1] \in KeysIn(s) \cup KeysIn(t)
    <3>1. CASE x <= Len(s)
      <4>1. x \in DOMAIN s /\ u[x] = s[x] BY <3>1, <2>1, <2>2, <1>1
      <4> QED BY <4>1 DEF KeysIn
    <3>2. CASE x > Len(s)
      <4>1. x - Len(s) \in DOMAIN t /\ u[x] = t[x - Len(s)] BY <3>2, <2>1, <2>2, <1>1
      <4> QED BY <4>1 DEF KeysIn
    <3> QED BY <3>1, <3>2, <2>1, <2>2
  <2> QED BY <2>3, <2>4, <2>5 DEF KeysIn
<1>3. ASSUME k \in KeysIn(s) PROVE First(u, k) = First(s, k)
  <2>1. /\ First(s, k) \in 1..Len(s) /\ s[First(s, k)][1] = k
        /\ \A y \in 1..First(s, k)-1 : s[y][1] # k
    BY <1>3, FirstIs
  <2> DEFINE x == First(s, k)
  <2> HIDE DEF x
  <2>2. x \in 1..Len(s) /\ s[x][1] = k /\ \A y \in 1..x-1 : s[y][1] # k BY <2>1 DEF x
  <2>3. x \in 1..Len(u) /\ u[x][1] = k BY <2>2, <1>1
  <2>4. ASSUME NEW y \in 1..x-1 PROVE u[y][1] # k
    <3>1. y \in 1..Len(s) BY <2>2
    <3> QED BY <3>1, <2>2, <1>1
  <2>5. First(u, k) = x BY <2>3, <2>4, <1>1, FirstUnique
  <2> QED BY <2>5 DEF x
<1>4. ASSUME k \in KeysIn(t) \ KeysIn(s) PROVE First(u, k) = Len(s) + First(t, k)
  <2> DEFINE x == Len(s) + First(t, k)
  <2>1. /\ First(t, k) \in 1..Len(t) /\ t[First(t, k)][1] = k
        /\ \A y \in 1..First(t, k)-1 : t[y][1] # k
    BY <1>4, FirstIs
  <2>2. x \in 1..Len(u) /\ u[x][1] = k BY <2>1, <1>1
  <2>3. ASSUME NEW y \in 1..x-1 PROVE u[y][1] # k
    <3>1. CASE y <= Len(s)
      <4>1. u[y] = s[y] /\ y \in DOMAIN s BY <3>1, <1>1
      <4> QED BY <4>1, <1>4 DEF KeysIn
    <3>2. CASE y > Len(s)
      <4>1. y - Len(s) \in 1..First(t, k)-1 /\ y \in Len(s)+1..Len(u) BY <3>2, <2>1, <1>1
      <4> QED BY <4>1, <2>1, <1>1
    <3> QED BY <3>1, <3>2
  <2> QED BY <2>2, <2>3, <1>1, FirstUnique
<1> QED BY <1>2, <1>3, <1>4 DEF u

\* What a map holds of one log after the other.
LEMMA MapOfConcat ==
    ASSUME NEW i \in Index, IsMap(i), NEW s \in Seq(Entries(i)), NEW t \in Seq(Entries(i))
    PROVE  /\ DOMAIN Pushed(i, s) = KeysIn(s)
           /\ DOMAIN Pushed(i, s \o t) = KeysIn(s) \cup KeysIn(t)
           /\ \A k \in KeysIn(s) : Pushed(i, s \o t)[k] = Pushed(i, s)[k]
           /\ \A k \in KeysIn(t) \ KeysIn(s) : Pushed(i, s \o t)[k] = Pushed(i, t)[k]
<1> DEFINE u == s \o t
<1>1. /\ u \in Seq(Entries(i)) /\ Len(u) = Len(s) + Len(t)
      /\ \A x \in 1..Len(s) : u[x] = s[x]
      /\ \A x \in 1..Len(t) : u[Len(s) + x] = t[x]
  BY ConcatProperties
<1>2. \A w : Pushed(i, w) = [k \in KeysIn(w) |-> w[First(w, k)][2]]
  BY Kinds DEF Pushed, KeysIn
<1>3. KeysIn(u) = KeysIn(s) \cup KeysIn(t) BY FirstOfConcat
<1>4. ASSUME NEW k \in KeysIn(s) PROVE u[First(u, k)] = s[First(s, k)]
  BY <1>1, FirstOfConcat, FirstIs
<1>5. ASSUME NEW k \in KeysIn(t) \ KeysIn(s) PROVE u[First(u, k)] = t[First(t, k)]
  BY <1>1, FirstOfConcat, FirstIs
<1> HIDE DEF u
<1>6. \A k \in KeysIn(s) : Pushed(i, u)[k] = Pushed(i, s)[k] BY <1>2, <1>3, <1>4
<1>7. \A k \in KeysIn(t) \ KeysIn(s) : Pushed(i, u)[k] = Pushed(i, t)[k] BY <1>2, <1>3, <1>5
<1>8. DOMAIN Pushed(i, s) = KeysIn(s) /\ DOMAIN Pushed(i, u) = KeysIn(u) BY <1>2
<1> QED BY <1>3, <1>6, <1>7, <1>8 DEF u

\* Nothing pushed makes an empty field.
LEMMA PushedNothing ==
    ASSUME NEW i \in Index
    PROVE  Pushed(i, <<>>) = <<>> /\ <<>> \in Contents(i) /\ <<>> \in Seq(Entries(i))
<1>1. CASE Singular(i)
  <2>1. <<>> \in [1..0 -> Stored] OBVIOUS
  <2> QED BY <1>1, <2>1, Kinds DEF Pushed, Contents, Stored
<1>2. CASE Repeated(i) BY <1>2, Kinds DEF Pushed, Contents
<1>3. CASE IsMap(i)
  <2>1. <<>> \in [{} -> Stored] /\ DOMAIN <<>> = {} OBVIOUS
  <2>2. {<<>>[x][1] : x \in DOMAIN <<>>} = {} BY <2>1
  <2>3. [k \in {} |-> <<>>[First(<<>>, k)][2]] = <<>> OBVIOUS
  <2>4. <<>> \in Contents(i) BY <1>3, <2>1, Kinds DEF Contents, Stored
  <2> QED BY <1>3, <2>2, <2>3, <2>4, Kinds DEF Pushed
<1> QED BY <1>1, <1>2, <1>3, Kinds

\* A singular field holds the last value.
LEMMA SingularOfConcat ==
    ASSUME NEW i \in Index, Singular(i), NEW s \in Seq(Entries(i)), NEW t \in Seq(Entries(i))
    PROVE  /\ t = <<>> => s \o t = s
           /\ t # <<>> => Pushed(i, s \o t) = Pushed(i, t)
           /\ DOMAIN Pushed(i, s) = {} => s = <<>>
<1>1. t # <<>> => Len(t) \in Nat \ {0} /\ (s \o t)[Len(s \o t)] = t[Len(t)] /\ s \o t # <<>>
  OBVIOUS
<1>2. \A w : Pushed(i, w) = IF w = <<>> THEN <<>> ELSE <<w[Len(w)]>> BY Kinds DEF Pushed
<1>3. \A v : DOMAIN <<v>> = {1} OBVIOUS
<1>4. t = <<>> => s \o t = s OBVIOUS
<1>5. t # <<>> => Pushed(i, s \o t) = Pushed(i, t) BY <1>1, <1>2
<1>6. s # <<>> => DOMAIN Pushed(i, s) # {} BY <1>2, <1>3
<1> QED BY <1>4, <1>5, <1>6

\* One more value pushed.
LEMMA PushedOne ==
    ASSUME NEW i \in Index, NEW s \in Seq(Entries(i)), NEW e \in Entries(i)
    PROVE  Pushed(i, Append(s, e)) = push_field(i, Pushed(i, s), e)
<1>1. CASE Singular(i)
  <2>1. Append(s, e) # <<>> /\ Append(s, e)[Len(Append(s, e))] = e OBVIOUS
  <2> QED BY <1>1, <2>1, Kinds DEF Pushed, push_field
<1>2. CASE Repeated(i) BY <1>2, Kinds DEF Pushed, push_field
<1>3. CASE IsMap(i)
  <2> DEFINE t == <<e>>
             c == Pushed(i, s)
             d == Pushed(i, s \o t)
             k == e[1]
  <2>1. t \in Seq(Entries(i)) /\ Append(s, e) = s \o t /\ Len(t) = 1 /\ t[1] = e OBVIOUS
  <2>2. KeysIn(t) = {k} BY <2>1 DEF KeysIn
  <2>3. First(t, k) = 1
    <3>1. 1 \in 1..Len(t) /\ t[1][1] = k /\ \A y \in 1..1-1 : t[y][1] # k BY <2>1
    <3> HIDE DEF t, k
    <3> QED BY <3>1, <2>1, <1>3, FirstUnique
  <2>4. \A w : Pushed(i, w) = [l \in KeysIn(w) |-> w[First(w, l)][2]]
    BY <1>3, Kinds DEF Pushed, KeysIn
  <2>5. Pushed(i, t)[k] = e[2] BY <2>1, <2>2, <2>3, <2>4
  <2>6. /\ DOMAIN c = KeysIn(s) /\ DOMAIN d = KeysIn(s) \cup {k}
        /\ \A l \in KeysIn(s) : d[l] = c[l]
        /\ k \notin KeysIn(s) => d[k] = e[2]
    <3> HIDE DEF t, k
    <3>1. /\ DOMAIN Pushed(i, s) = KeysIn(s)
          /\ DOMAIN Pushed(i, s \o t) = KeysIn(s) \cup KeysIn(t)
          /\ \A l \in KeysIn(s) : Pushed(i, s \o t)[l] = Pushed(i, s)[l]
          /\ \A l \in KeysIn(t) \ KeysIn(s) : Pushed(i, s \o t)[l] = Pushed(i, t)[l]
      BY <2>1, <1>3, MapOfConcat
    <3> QED BY <3>1, <2>2, <2>5
  <2>7. c = [l \in DOMAIN c |-> c[l]] /\ d = [l \in DOMAIN d |-> d[l]] BY <2>4
  <2> HIDE DEF c, d
  <2>8. CASE k \in KeysIn(s)
    <3>1. d = c BY <2>6, <2>7, <2>8
    <3>2. push_field(i, c, e) = c BY <1>3, <2>6, <2>8, Kinds DEF push_field, Taken
    <3> QED BY <3>1, <3>2, <2>1 DEF c, d
  <2>9. CASE k \notin KeysIn(s)
    <3>1. push_field(i, c, e) = Put(c, k, e[2])
      BY <1>3, <2>6, <2>9, Kinds DEF push_field, Taken
    <3>2. d = Put(c, k, e[2]) BY <2>6, <2>7, <2>9 DEF Put
    <3> QED BY <3>1, <3>2, <2>1 DEF c, d
  <2> QED BY <2>8, <2>9
<1> QED BY <1>1, <1>2, <1>3, Kinds

----------------------------------------------------------------------------
(* What a field may hold.                                                  *)

\* What an iterator of the field may refer to.
Elements(i) == IF IsMap(i) THEN Keys \X Stored ELSE Stored

\* push_field leaves a field its type.
LEMMA PushType ==
    ASSUME NEW i \in Index, NEW c \in Contents(i), NEW e \in Elements(i)
    PROVE  push_field(i, c, e) \in Contents(i)
<1>1. CASE Singular(i)
  <2>1. e \in Stored BY <1>1, Kinds DEF Elements
  <2>2. <<e>> \in [1..1 -> Stored] BY <2>1
  <2> QED BY <1>1, <2>2, Kinds DEF push_field, Contents, Stored
<1>2. CASE Repeated(i)
  <2>1. c \in Seq(Stored) /\ e \in Stored BY <1>2, Kinds DEF Contents, Elements, Stored
  <2>2. Append(c, e) \in Seq(Stored) BY <2>1
  <2> QED BY <1>2, <2>2, Kinds DEF push_field, Contents, Stored
<1>3. CASE IsMap(i)
  <2>1. PICK K \in SUBSET Keys : c \in [K -> Stored] BY <1>3, Kinds DEF Contents, Stored
  <2>2. e[1] \in Keys /\ e[2] \in Stored BY <1>3 DEF Elements
  <2>3. Put(c, e[1], e[2]) \in [K \cup {e[1]} -> Stored] BY <2>1, <2>2 DEF Put
  <2>4. K \cup {e[1]} \in SUBSET Keys BY <2>1, <2>2
  <2>5. \A d, L : L \in SUBSET Keys /\ d \in [L -> Stored] => d \in Contents(i)
    BY <1>3, Kinds DEF Contents, Stored
  <2>6. Put(c, e[1], e[2]) \in Contents(i) BY <2>3, <2>4, <2>5
  <2>7. push_field(i, c, e) \in {c, Put(c, e[1], e[2])} BY <1>3, Kinds DEF push_field
  <2> QED BY <2>6, <2>7
<1> QED BY <1>1, <1>2, <1>3, Kinds

\* What a move leaves is of the field's type.
LEMMA RestType ==
    ASSUME NEW i \in Index, NEW c \in Contents(i)
    PROVE  RestOf(i, c) \in Contents(i)
<1>1. CASE Singular(i)
  <2>1. PICK n \in 0..1 : c \in [1..n -> Stored] BY <1>1, Kinds DEF Contents, Stored
  <2>2. RestOf(i, c) \in [1..n -> Stored] BY <1>1, <2>1 DEF RestOf, Rest, Stored, Hollow
  <2> QED BY <1>1, <2>1, <2>2, Kinds DEF Contents, Stored
<1>2. CASE ~Singular(i) BY <1>2, PushedNothing DEF RestOf
<1> QED BY <1>1, <1>2

\* An element of a field, and what a move from it leaves of the field.
LEMMA ElementType ==
    ASSUME NEW i \in Index, ~Singular(i), NEW c \in Contents(i), NEW x \in DOMAIN c
    PROVE  /\ Element(i, c, x) \in Elements(i)
           /\ Put(c, x, Rest(i, c[x])) \in Contents(i)
           /\ DOMAIN Put(c, x, Rest(i, c[x])) = DOMAIN c
           /\ \A y \in DOMAIN c \ {x} : Put(c, x, Rest(i, c[x]))[y] = c[y]
<1> DEFINE d == Put(c, x, Rest(i, c[x]))
<1>1. DOMAIN d = DOMAIN c /\ \A y \in DOMAIN c \ {x} : d[y] = c[y] BY DEF Put
<1>2. CASE Repeated(i)
  <2>1. c \in Seq(Stored) BY <1>2, Kinds DEF Contents, Stored
  <2>2. d \in [1..Len(c) -> Stored] BY <2>1 DEF Put, Rest, Stored, Hollow
  <2>3. d \in Seq(Stored) BY <2>1, <2>2
  <2> QED BY <1>1, <1>2, <2>1, <2>3, Kinds DEF Contents, Stored, Element, Elements
<1>3. CASE IsMap(i)
  <2>1. PICK K \in SUBSET Keys : c \in [K -> Stored] BY <1>3, Kinds DEF Contents, Stored
  <2>2. d \in [K -> Stored] BY <2>1 DEF Put, Rest, Stored, Hollow
  <2>3. d \in Contents(i) BY <1>3, <2>1, <2>2, Kinds DEF Contents, Stored
  <2> QED BY <1>1, <1>3, <2>1, <2>3, Kinds DEF Element, Elements
<1> QED BY <1>1, <1>2, <1>3, Kinds

----------------------------------------------------------------------------
(* The inductive invariant.                                                *)

AnyContents == UNION {Contents(i) : i \in Index}
AnyLog == UNION {Seq(Entries(i)) : i \in Index}
Typed(f) == /\ f \in [Slots -> [Index -> AnyContents]]
            /\ \A o \in Slots, i \in Index : f[o][i] \in Contents(i)
Logged(f) == /\ f \in [Slots -> [Index -> AnyLog]]
             /\ \A o \in Slots, i \in Index : f[o][i] \in Seq(Entries(i))

Calls ==
    [op : {"merge", "undefined"}, into : Slots, from : Slots, mode : Modes, move : BOOLEAN,
     field : Nat \ {0}, open : BOOLEAN, todo : SUBSET Nat, live : BOOLEAN,
     free : BOOLEAN, result : Objects, args : Seq(Objects \X BOOLEAN)]

StateTyped ==
    /\ Typed(obj) /\ Logged(log) /\ pushes \in 0..MaxPushes
    /\ call = Idle \/ call \in Calls

\* Who takes part in a call.
InCall ==
    /\ call = Idle => obj[Result] = Nothing
    /\ call # Idle =>
        /\ call.into = call.from => ~call.move
        /\ call.free => call.into = Result /\ (call.field \in Index => call.from \in Objects)
        /\ ~call.free => /\ call.into \in Objects /\ call.from \in Objects
                         /\ call.args = <<>> /\ obj[Result] = Nothing
        /\ call.open => call.field \in Index /\ ~Singular(call.field)
        /\ call.open /\ ~call.live => call.into = call.from
        /\ call.op = "undefined" => call.open /\ ~call.live

Replayed(o, i) == obj[o][i] = Pushed(i, log[o][i])

\* Half way through merge_field, what is still to be read is as it was pushed,
\* and the other field is what the values pushed to both have made of it.
Reads(c, s, i, todo) == \A x \in todo : x \in DOMAIN Pushed(i, s) /\ c[x] = Pushed(i, s)[x]
Covers(c, l, s, i, todo) ==
    /\ Repeated(i) => \E d \in 0..Len(s) : todo = d+1..Len(s) /\ DOMAIN c = 1..Len(l)+d
    /\ IsMap(i) => /\ todo \subseteq KeysIn(s)
                   /\ DOMAIN c = KeysIn(l) \cup (KeysIn(s) \ todo)
Writes(c, l, s, i, todo) ==
    /\ Covers(c, l, s, i, todo)
    /\ \A x \in DOMAIN c : x \in DOMAIN Pushed(i, l \o s) /\ c[x] = Pushed(i, l \o s)[x]

HalfWay ==
    call # Idle /\ call.open =>
        LET i == call.field  into == call.into  from == call.from IN
        /\ call.todo \subseteq DOMAIN obj[from][i]
        /\ <<from, i>> \notin moved => Reads(obj[from][i], log[from][i], i, call.todo)
        /\ <<from, i>> \notin moved /\ ~call.move /\ into # from => Replayed(from, i)
        /\ <<into, i>> \notin moved /\ <<from, i>> \notin moved =>
              Writes(obj[into][i], log[into][i], log[from][i], i, call.todo)

IInv == StateTyped /\ InCall /\ HalfWay /\ IsReplay

----------------------------------------------------------------------------
(* Calls that return at once.                                              *)

\* No object holds anything at first.
LEMMA Initially == Init => IInv
<1> SUFFICES ASSUME Init PROVE IInv OBVIOUS
<1>1. \A i \in Index : <<>> \in Contents(i) /\ <<>> \in Seq(Entries(i)) /\ Pushed(i, <<>>) = <<>>
  BY PushedNothing
<1>2. \A o \in Slots, i \in Index : obj[o][i] = <<>> /\ log[o][i] = <<>> BY DEF Init, Nothing
<1>3. Typed(obj) /\ Logged(log) BY <1>1, <1>2 DEF Init, Nothing, Typed, Logged, AnyContents, AnyLog
<1>4. StateTyped BY <1>3, ObjectAssumption DEF Init, StateTyped
<1>5. InCall BY DEF Init, InCall, Slots
<1>6. HalfWay BY DEF Init, HalfWay
<1>7. IsReplay BY <1>1, <1>2 DEF IsReplay
<1> QED BY <1>4, <1>5, <1>6, <1>7 DEF IInv

\* A value is pushed to a field.
LEMMA PushStep ==
    ASSUME IInv, call = Idle, NEW o \in Objects, NEW i \in Index, PushTo(o, i)
    PROVE  IInv'
<1>1. o \in Slots /\ o # Result /\ Result \in Slots BY ObjectAssumption DEF Slots
<1>2. pushes' \in Values /\ pushes' \in 0..MaxPushes
  BY ObjectAssumption DEF PushTo, IInv, StateTyped, Values
<1>3. PICK k \in Keys :
        LET e == IF IsMap(i) THEN <<k, pushes'>> ELSE pushes' IN
        /\ obj' = [obj EXCEPT ![o][i] = push_field(i, @, e)]
        /\ log' = [log EXCEPT ![o][i] = Append(@, e)]
  BY DEF PushTo
<1> DEFINE e == IF IsMap(i) THEN <<k, pushes'>> ELSE pushes'
           c == push_field(i, obj[o][i], e)
           s == Append(log[o][i], e)
<1>4. e \in Entries(i) /\ e \in Elements(i) BY <1>2 DEF Entries, Elements, Stored
<1>5. obj' = [obj EXCEPT ![o][i] = c] /\ log' = [log EXCEPT ![o][i] = s] BY <1>3
<1> HIDE DEF e
<1>6. Typed(obj) /\ Logged(log) /\ obj[o][i] \in Contents(i) /\ log[o][i] \in Seq(Entries(i))
  BY <1>1 DEF IInv, StateTyped, Typed, Logged
<1>7. c \in Contents(i) /\ s \in Seq(Entries(i)) BY <1>4, <1>6, PushType
<1>8. Replayed(o, i) => c = Pushed(i, s) BY <1>4, <1>6, PushedOne DEF Replayed
<1> HIDE DEF c, s
<1>9. /\ Typed(obj') /\ obj'[o][i] = c
      /\ \A p \in Slots, j \in Index : p # o \/ j # i => obj'[p][j] = obj[p][j]
  <2>1. c \in AnyContents BY <1>7 DEF AnyContents
  <2>2. /\ obj' \in [Slots -> [Index -> AnyContents]] /\ obj'[o][i] = c
        /\ \A p \in Slots, j \in Index : p # o \/ j # i => obj'[p][j] = obj[p][j]
    BY <2>1, <1>1, <1>5, <1>6 DEF Typed
  <2> QED BY <2>2, <1>6, <1>7 DEF Typed
<1>10. /\ Logged(log') /\ log'[o][i] = s
       /\ \A p \in Slots, j \in Index : p # o \/ j # i => log'[p][j] = log[p][j]
  <2>1. s \in AnyLog BY <1>7 DEF AnyLog
  <2>2. /\ log' \in [Slots -> [Index -> AnyLog]] /\ log'[o][i] = s
        /\ \A p \in Slots, j \in Index : p # o \/ j # i => log'[p][j] = log[p][j]
    BY <2>1, <1>1, <1>5, <1>6 DEF Logged
  <2> QED BY <2>2, <1>6, <1>7 DEF Logged
<1>11. call' = Idle /\ moved' = moved BY DEF PushTo
<1>12. obj'[Result] = obj[Result] BY <1>1, <1>5, <1>6 DEF Typed
<1>13. StateTyped' BY <1>2, <1>9, <1>10, <1>11 DEF StateTyped
<1>14. InCall' BY <1>11, <1>12 DEF IInv, InCall, Nothing
<1>15. HalfWay' BY <1>11 DEF HalfWay
<1>16. ASSUME NEW p \in Slots, NEW j \in Index, <<p, j>> \notin moved
       PROVE  obj'[p][j] = Pushed(j, log'[p][j])
  <2>1. Replayed(p, j) BY <1>16 DEF IInv, IsReplay, Busy, Replayed
  <2>2. CASE p = o /\ j = i BY <2>1, <2>2, <1>8, <1>9, <1>10
  <2>3. CASE p # o \/ j # i BY <2>1, <2>3, <1>9, <1>10 DEF Replayed
  <2> QED BY <2>2, <2>3
<1>17. IsReplay' BY <1>11, <1>16 DEF IsReplay
<1> QED BY <1>13, <1>14, <1>15, <1>17 DEF IInv

\* A field is cleared.
LEMMA ClearStep ==
    ASSUME IInv, NEW o \in Objects, NEW i \in Index, Clear(o, i)
    PROVE  IInv'
<1>1. o \in Slots /\ o # Result /\ Result \in Slots BY ObjectAssumption DEF Slots
<1>2. Typed(obj) /\ Logged(log) /\ call = Idle /\ call' = Idle
  BY DEF IInv, StateTyped, Clear
<1>3. obj' = [obj EXCEPT ![o][i] = <<>>] /\ log' = [log EXCEPT ![o][i] = <<>>] BY DEF Clear
<1>4. <<>> \in Contents(i) /\ <<>> \in Seq(Entries(i)) /\ Pushed(i, <<>>) = <<>> BY PushedNothing
<1>5. <<>> \in AnyContents /\ <<>> \in AnyLog BY <1>4 DEF AnyContents, AnyLog
<1>6. /\ obj' \in [Slots -> [Index -> AnyContents]] /\ obj'[o][i] = <<>>
      /\ \A p \in Slots, j \in Index : p # o \/ j # i => obj'[p][j] = obj[p][j]
      /\ obj'[Result] = obj[Result]
  BY <1>1, <1>2, <1>3, <1>5 DEF Typed
<1>7. /\ log' \in [Slots -> [Index -> AnyLog]] /\ log'[o][i] = <<>>
      /\ \A p \in Slots, j \in Index : p # o \/ j # i => log'[p][j] = log[p][j]
  BY <1>1, <1>2, <1>3, <1>5 DEF Logged
<1>8. Typed(obj') /\ Logged(log') BY <1>2, <1>4, <1>6, <1>7 DEF Typed, Logged
<1>9. StateTyped' BY <1>2, <1>8 DEF Clear, IInv, StateTyped
<1>10. InCall' BY <1>2, <1>6 DEF IInv, InCall, Nothing
<1>11. HalfWay' BY <1>2 DEF HalfWay
<1>12. ASSUME NEW p \in Slots, NEW j \in Index, <<p, j>> \notin moved'
       PROVE  obj'[p][j] = Pushed(j, log'[p][j])
  <2>1. CASE p = o /\ j = i BY <2>1, <1>4, <1>6, <1>7
  <2>2. CASE p # o \/ j # i
    <3>1. <<p, j>> \notin moved BY <2>2, <1>12 DEF Clear
    <3>2. Replayed(p, j) BY <3>1, <1>2 DEF IInv, IsReplay, Busy, Replayed
    <3> QED BY <2>2, <3>2, <1>6, <1>7 DEF Replayed
  <2> QED BY <2>1, <2>2
<1>13. IsReplay' BY <1>12 DEF IsReplay
<1> QED BY <1>9, <1>10, <1>11, <1>13 DEF IInv

\* A message is copied or moved: what it was given is what a replay makes of
\* it, and so is what a move leaves, but for hollow values.
LEMMA Transferred ==
    ASSUME StateTyped, NEW o \in Slots, NEW p \in Objects, o # p, NEW move \in BOOLEAN,
           Transfer(o, p, move),
           \A q \in Slots, i \in Index : <<q, i>> \notin moved => Replayed(q, i)
    PROVE  /\ Typed(obj') /\ Logged(log') /\ pushes' \in 0..MaxPushes
           /\ \A q \in Slots : q # o /\ q # p => obj'[q] = obj[q]
           /\ \A q \in Slots, i \in Index :
                 <<q, i>> \notin moved' => obj'[q][i] = Pushed(i, log'[q][i])
<1>1. p \in Slots BY DEF Slots
<1>2. Typed(obj) /\ Logged(log) BY DEF StateTyped
<1> DEFINE c == IF move THEN [i \in Index |-> RestOf(i, obj[p][i])] ELSE obj[p]
           s == IF move THEN [i \in Index |-> IF Singular(i) THEN log[p][i] ELSE <<>>] ELSE log[p]
<1>3. /\ obj' = [obj EXCEPT ![o] = obj[p], ![p] = c]
      /\ log' = [log EXCEPT ![o] = log[p], ![p] = s]
  BY <1>1, <1>2 DEF Transfer, Typed, Logged
<1>4. \A i \in Index : c[i] \in Contents(i) /\ s[i] \in Seq(Entries(i))
  <2> SUFFICES ASSUME NEW i \in Index PROVE c[i] \in Contents(i) /\ s[i] \in Seq(Entries(i)) OBVIOUS
  <2>1. obj[p][i] \in Contents(i) /\ log[p][i] \in Seq(Entries(i)) BY <1>1, <1>2 DEF Typed, Logged
  <2> QED BY <2>1, RestType, PushedNothing
<1>5. c \in [Index -> AnyContents] /\ s \in [Index -> AnyLog]
  <2>1. obj[p] \in [Index -> AnyContents] /\ log[p] \in [Index -> AnyLog]
    BY <1>1, <1>2 DEF Typed, Logged
  <2> QED BY <2>1, <1>4 DEF AnyContents, AnyLog
<1>6. \A i \in Index : /\ c[i] = (IF move THEN RestOf(i, obj[p][i]) ELSE obj[p][i])
                       /\ s[i] = (IF move /\ ~Singular(i) THEN <<>> ELSE log[p][i])
  OBVIOUS
<1> HIDE DEF c, s
<1>7. /\ obj' \in [Slots -> [Index -> AnyContents]]
      /\ obj'[o] = obj[p] /\ obj'[p] = c
      /\ \A q \in Slots : q # o /\ q # p => obj'[q] = obj[q]
  BY <1>1, <1>2, <1>3, <1>5 DEF Typed
<1>8. /\ log' \in [Slots -> [Index -> AnyLog]]
      /\ log'[o] = log[p] /\ log'[p] = s
      /\ \A q \in Slots : q # o /\ q # p => log'[q] = log[q]
  BY <1>1, <1>2, <1>3, <1>5 DEF Logged
<1>9. Typed(obj') /\ Logged(log') BY <1>1, <1>2, <1>4, <1>7, <1>8 DEF Typed, Logged
<1>10. ASSUME NEW q \in Slots, NEW i \in Index, <<q, i>> \notin moved'
       PROVE  obj'[q][i] = Pushed(i, log'[q][i])
  <2> DEFINE kept == moved \ ({o} \X Index)
             new == {<<o, j>> : j \in {j \in Index : <<p, j>> \in moved}}
             left == {<<p, j>> : j \in {j \in Index : Singular(j) /\ ~empty_field(obj[p][j])}}
  <2>1. moved' = kept \cup new \cup (IF move THEN left ELSE {}) BY DEF Transfer
  <2>2. CASE q = o
    <3>1. <<p, i>> \notin moved BY <2>1, <2>2, <1>10
    <3> QED BY <3>1, <2>2, <1>1, <1>7, <1>8 DEF Replayed
  <2>3. CASE q = p
    <3>1. <<p, i>> \notin moved BY <2>1, <2>3, <1>10
    <3>2. obj[p][i] = Pushed(i, log[p][i]) BY <3>1, <1>1 DEF Replayed
    <3>3. CASE ~move BY <3>2, <3>3, <2>3, <1>6, <1>7, <1>8
    <3>4. CASE move /\ ~Singular(i)
      <4>1. c[i] = <<>> /\ s[i] = <<>> BY <3>4, <1>6 DEF RestOf
      <4> QED BY <4>1, <2>3, <1>7, <1>8, PushedNothing
    <3>5. CASE move /\ Singular(i)
      <4>1. empty_field(obj[p][i]) BY <3>5, <2>1, <2>3, <1>10
      <4>2. DOMAIN obj[p][i] = {} BY <4>1 DEF empty_field
      <4>3. log[p][i] = <<>>
        BY <4>2, <3>2, <3>5, <1>1, <1>2, SingularOfConcat DEF Logged
      <4>4. RestOf(i, obj[p][i]) = <<>> BY <4>2, <3>5 DEF RestOf
      <4> QED BY <4>3, <4>4, <3>5, <2>3, <1>6, <1>7, <1>8, PushedNothing
    <3> QED BY <3>3, <3>4, <3>5
  <2>4. CASE q # o /\ q # p
    <3>1. <<q, i>> \notin moved BY <2>1, <2>4, <1>10
    <3> QED BY <3>1, <2>4, <1>7, <1>8 DEF Replayed
  <2> QED BY <2>2, <2>3, <2>4
<1>11. pushes' \in 0..MaxPushes BY DEF Transfer, StateTyped
<1> QED BY <1>7, <1>9, <1>10, <1>11

\* A message is assigned to another.
LEMMA AssignStep ==
    ASSUME IInv, NEW o \in Objects, NEW p \in Objects, CopyAssign(o, p) \/ MoveAssign(o, p)
    PROVE  IInv'
<1>1. PICK move \in BOOLEAN : Transfer(o, p, move) BY DEF CopyAssign, MoveAssign
<1>2. o # p /\ call = Idle /\ call' = Idle BY DEF CopyAssign, MoveAssign
<1>3. o \in Slots /\ Result \in Slots /\ o # Result /\ p # Result BY ObjectAssumption DEF Slots
<1>4. \A q \in Slots, i \in Index : <<q, i>> \notin moved => Replayed(q, i)
  BY <1>2 DEF IInv, IsReplay, Busy, Replayed
<1>5. /\ Typed(obj') /\ Logged(log') /\ pushes' \in 0..MaxPushes
      /\ \A q \in Slots : q # o /\ q # p => obj'[q] = obj[q]
      /\ \A q \in Slots, i \in Index :
            <<q, i>> \notin moved' => obj'[q][i] = Pushed(i, log'[q][i])
  BY <1>1, <1>2, <1>3, <1>4, Transferred DEF IInv
<1>6. StateTyped' BY <1>2, <1>5 DEF StateTyped
<1>7. InCall' BY <1>2, <1>3, <1>5 DEF IInv, InCall, Nothing
<1>8. HalfWay' BY <1>2 DEF HalfWay
<1>9. IsReplay' BY <1>5 DEF IsReplay
<1> QED BY <1>6, <1>7, <1>8, <1>9 DEF IInv

----------------------------------------------------------------------------
(* Calls that merge, and their returns.                                    *)

\* The record of a merge is typed.
LEMMA MergingType ==
    ASSUME NEW into \in Slots, NEW from \in Slots, NEW mode \in Modes, NEW move \in BOOLEAN,
           NEW free \in BOOLEAN, NEW result \in Objects, NEW args \in Seq(Objects \X BOOLEAN)
    PROVE  Merging(into, from, mode, move, free, result, args) \in Calls
BY DEF Merging, Calls

\* While no field is half way, every field that is not moved from is a replay.
LEMMA NotBusy ==
    ASSUME IInv, call = Idle \/ ~call.open
    PROVE  \A o \in Slots, i \in Index : <<o, i>> \notin moved => Replayed(o, i)
BY DEF IInv, IsReplay, Busy, Replayed

\* The member merge() is called.
LEMMA CallMergeStep ==
    ASSUME IInv, NEW o \in Objects, NEW p \in Objects, NEW mode \in Modes, NEW move \in BOOLEAN,
           CallMerge(o, p, mode, move)
    PROVE  IInv'
<1>1. /\ call = Idle /\ ~(move /\ o = p)
      /\ call' = Merging(o, p, mode, move, FALSE, o, <<>>)
      /\ UNCHANGED <<obj, log, moved, pushes>>
  BY DEF CallMerge
<1>2. o \in Slots /\ p \in Slots BY DEF Slots
<1>3. <<>> \in Seq(Objects \X BOOLEAN) OBVIOUS
<1>4. call' \in Calls BY <1>1, <1>2, <1>3, MergingType
<1>5. /\ call'.into = o /\ call'.from = p /\ call'.move = move /\ call'.free = FALSE
      /\ call'.args = <<>> /\ call'.open = FALSE /\ call'.op = "merge"
  BY <1>1 DEF Merging
<1>6. StateTyped' BY <1>1, <1>4 DEF IInv, StateTyped, Typed, Logged
<1>7. InCall' BY <1>1, <1>5 DEF IInv, InCall, Nothing, Idle
<1>8. HalfWay' BY <1>5 DEF HalfWay
<1>9. IsReplay' BY <1>1, <1>5, NotBusy DEF IsReplay, Replayed
<1> QED BY <1>6, <1>7, <1>8, <1>9 DEF IInv

\* The function merge() is called: res takes or copies the first argument.
LEMMA CallFreeMergeStep ==
    ASSUME IInv, NEW o \in Objects, NEW args \in Arguments, NEW mode \in Modes,
           CallFreeMerge(o, args, mode)
    PROVE  IInv'
<1>1. PICK n \in 1..MaxArgs : args \in [1..n -> Objects \X BOOLEAN] BY DEF Arguments
<1>2. /\ args \in Seq(Objects \X BOOLEAN) /\ args # <<>> /\ args[1] \in Objects \X BOOLEAN
      /\ Tail(args) \in Seq(Objects \X BOOLEAN)
  <2>1. n \in Nat /\ 1 \in 1..n BY ObjectAssumption
  <2>2. args \in Seq(Objects \X BOOLEAN) /\ Len(args) = n BY <2>1, <1>1
  <2> QED BY <2>1, <2>2, <1>1
<1> DEFINE p == args[1][1]
           move == args[1][2]
           first == Merging(Result, Result, mode, FALSE, TRUE, o, Tail(args))
<1>3. p \in Objects /\ move \in BOOLEAN BY <1>2
<1>4. /\ call = Idle /\ Transfer(Result, p, move)
      /\ call' = [first EXCEPT !.field = Len(Fields) + 1]
  BY DEF CallFreeMerge
<1> HIDE DEF p, move
<1>5. Result \in Slots /\ Result # p BY <1>3, ObjectAssumption DEF Slots
<1>6. first \in Calls BY <1>2, <1>5, MergingType
<1>7. /\ call' \in Calls /\ call'.into = Result /\ call'.move = FALSE /\ call'.free = TRUE
      /\ call'.field = Len(Fields) + 1 /\ call'.open = FALSE /\ call'.op = "merge"
  <2>1. Len(Fields) + 1 \in Nat \ {0} BY ObjectAssumption
  <2>2. /\ first.into = Result /\ first.move = FALSE /\ first.free = TRUE
        /\ first.open = FALSE /\ first.op = "merge"
    BY DEF Merging
  <2> HIDE DEF first
  <2> QED BY <2>1, <2>2, <1>4, <1>6 DEF Calls
<1>8. call'.field \notin Index BY <1>7, ObjectAssumption DEF Index
<1>9. \A q \in Slots, i \in Index : <<q, i>> \notin moved => Replayed(q, i) BY <1>4, NotBusy
<1>10. /\ Typed(obj') /\ Logged(log') /\ pushes' \in 0..MaxPushes
       /\ \A q \in Slots, i \in Index :
             <<q, i>> \notin moved' => obj'[q][i] = Pushed(i, log'[q][i])
  BY <1>3, <1>4, <1>5, <1>9, Transferred DEF IInv
<1>11. StateTyped' BY <1>7, <1>10 DEF StateTyped
<1>12. InCall' BY <1>7, <1>8 DEF InCall, Idle
<1>13. HalfWay' BY <1>7 DEF HalfWay
<1>14. IsReplay' BY <1>10 DEF IsReplay
<1> QED BY <1>11, <1>12, <1>13, <1>14 DEF IInv

\* The function merge() takes the next argument.
LEMMA NextArgumentStep ==
    ASSUME IInv, NextArgument
    PROVE  IInv'
<1>1. /\ call.op = "merge" /\ call.field \notin Index /\ call.args # <<>>
      /\ UNCHANGED <<obj, log, moved, pushes>>
  BY DEF NextArgument, AfterFields
<1>2. call # Idle /\ call \in Calls BY <1>1 DEF IInv, StateTyped, Idle
<1>3. call.free /\ call.into = Result /\ ~call.open BY <1>1, <1>2 DEF IInv, InCall, Calls
<1> DEFINE p == Head(call.args)[1]
           move == Head(call.args)[2]
<1>4. /\ p \in Objects /\ move \in BOOLEAN /\ Tail(call.args) \in Seq(Objects \X BOOLEAN)
      /\ call.into \in Slots /\ call.mode \in Modes /\ call.result \in Objects
  <2>1. call.args \in Seq(Objects \X BOOLEAN) BY <1>2 DEF Calls
  <2>2. Head(call.args) \in Objects \X BOOLEAN BY <2>1, <1>1
  <2> QED BY <2>1, <2>2, <1>1, <1>2 DEF Calls
<1>5. call' = Merging(call.into, p, call.mode, move, TRUE, call.result, Tail(call.args))
  BY DEF NextArgument
<1> HIDE DEF p, move
<1>6. p \in Slots /\ p # Result BY <1>4, ObjectAssumption DEF Slots
<1>7. call' \in Calls BY <1>4, <1>5, <1>6, MergingType
<1>8. /\ call'.into = Result /\ call'.from = p /\ call'.free = TRUE /\ call'.open = FALSE
      /\ call'.op = "merge"
  BY <1>3, <1>5 DEF Merging
<1>9. StateTyped' BY <1>1, <1>7 DEF IInv, StateTyped, Typed, Logged
<1>10. InCall' BY <1>4, <1>6, <1>8 DEF InCall, Idle
<1>11. HalfWay' BY <1>8 DEF HalfWay
<1>12. IsReplay' BY <1>1, <1>3, <1>8, NotBusy DEF IsReplay, Replayed
<1> QED BY <1>9, <1>10, <1>11, <1>12 DEF IInv

\* A merge returns: the function's result is assigned, and res is gone.
LEMMA ReturnStep ==
    ASSUME IInv, Return
    PROVE  IInv'
<1>1. call.op = "merge" /\ call.field \notin Index /\ call' = Idle /\ pushes' = pushes
  BY DEF Return, AfterFields
<1>2. call # Idle /\ call \in Calls BY <1>1 DEF IInv, StateTyped, Idle
<1>3. ~call.open BY <1>1, <1>2 DEF IInv, InCall, Calls
<1>4. HalfWay' BY <1>1 DEF HalfWay
<1>5. CASE ~call.free
  <2>1. UNCHANGED <<obj, log, moved>> BY <1>5 DEF Return
  <2>2. StateTyped' BY <1>1, <2>1 DEF IInv, StateTyped, Typed, Logged
  <2>3. InCall' BY <1>1, <1>2, <1>5, <2>1 DEF IInv, InCall, Nothing
  <2>4. IsReplay' BY <1>3, <2>1, NotBusy DEF IsReplay, Replayed
  <2> QED BY <1>4, <2>2, <2>3, <2>4 DEF IInv
<1>6. CASE call.free
  <2> DEFINE r == call.result
  <2>1. call.into = Result /\ r \in Objects BY <1>2, <1>6 DEF IInv, InCall, Calls
  <2>2. Result \in Slots /\ r \in Slots /\ r # Result BY <2>1, ObjectAssumption DEF Slots
  <2>3. /\ obj' = [obj EXCEPT ![r] = obj[Result], ![Result] = Nothing]
        /\ log' = [log EXCEPT ![r] = log[Result], ![Result] = Nothing]
        /\ moved' = {m \in moved : m[1] \notin {r, Result}}
                       \cup {<<r, i>> : i \in {j \in Index : <<Result, j>> \in moved}}
    BY <1>6, <2>1 DEF Return
  <2>4. \A i \in Index : /\ Nothing[i] = <<>> /\ <<>> \in Contents(i)
                         /\ <<>> \in Seq(Entries(i)) /\ Pushed(i, <<>>) = <<>>
    BY PushedNothing DEF Nothing
  <2>5. Nothing \in [Index -> AnyContents] /\ Nothing \in [Index -> AnyLog]
    BY <2>4 DEF Nothing, AnyContents, AnyLog
  <2>6. Typed(obj) /\ Logged(log) BY DEF IInv, StateTyped
  <2> HIDE DEF r
  <2>7. /\ obj' \in [Slots -> [Index -> AnyContents]]
        /\ obj'[r] = obj[Result] /\ obj'[Result] = Nothing
        /\ \A q \in Slots : q # r /\ q # Result => obj'[q] = obj[q]
    BY <2>2, <2>3, <2>5, <2>6 DEF Typed
  <2>8. /\ log' \in [Slots -> [Index -> AnyLog]]
        /\ log'[r] = log[Result] /\ log'[Result] = Nothing
        /\ \A q \in Slots : q # r /\ q # Result => log'[q] = log[q]
    BY <2>2, <2>3, <2>5, <2>6 DEF Logged
  <2>9. Typed(obj') /\ Logged(log') BY <2>2, <2>4, <2>6, <2>7, <2>8 DEF Typed, Logged
  <2>10. StateTyped' BY <1>1, <2>9 DEF IInv, StateTyped
  <2>11. InCall' BY <1>1, <2>7 DEF InCall, Nothing
  <2>12. ASSUME NEW q \in Slots, NEW i \in Index, <<q, i>> \notin moved'
         PROVE  obj'[q][i] = Pushed(i, log'[q][i])
    <3>1. CASE q = r
      <4>1. <<Result, i>> \notin moved BY <2>3, <2>12, <3>1
      <4> QED BY <4>1, <3>1, <1>3, <2>2, <2>7, <2>8, NotBusy DEF Replayed
    <3>2. CASE q = Result BY <3>2, <2>4, <2>7, <2>8
    <3>3. CASE q # r /\ q # Result
      <4>1. <<q, i>> \notin moved BY <2>3, <2>12, <3>3
      <4> QED BY <4>1, <3>3, <1>3, <2>7, <2>8, NotBusy DEF Replayed
    <3> QED BY <3>1, <3>2, <3>3
  <2>13. IsReplay' BY <2>12 DEF IsReplay
  <2> QED BY <1>4, <2>10, <2>11, <2>13 DEF IInv
<1> QED BY <1>5, <1>6

----------------------------------------------------------------------------
(* merge_field.                                                            *)

\* The objects a merge is about, while it is in a field.
LEMMA InTheField ==
    ASSUME IInv, InField
    PROVE  /\ call \in Calls /\ call # Idle /\ call.field \in Index
           /\ call.into \in Slots /\ call.from \in Objects /\ call.from \in Slots
           /\ call.move \in BOOLEAN /\ (call.into = call.from => ~call.move)
           /\ (~call.free => call.into # Result)
           /\ (call.open => ~Singular(call.field))
           /\ ~Singular(call.field) => Repeated(call.field) \/ IsMap(call.field)
<1>1. call # Idle /\ call \in Calls /\ call.field \in Index
  BY DEF IInv, StateTyped, InField, Idle
<1>2. call.into \in Slots /\ call.move \in BOOLEAN /\ call.free \in BOOLEAN BY <1>1 DEF Calls
<1>3. call.from \in Objects BY <1>1, <1>2 DEF IInv, InCall
<1>4. (call.into = call.from => ~call.move) /\ (call.open => ~Singular(call.field))
  BY <1>1 DEF IInv, InCall
<1>5. ~call.free => call.into # Result BY <1>1, ObjectAssumption DEF IInv, InCall
<1> QED BY <1>1, <1>2, <1>3, <1>4, <1>5, Kinds DEF Slots

\* What merge_field of a singular field makes of the two.
LEMMA SingularMerged ==
    ASSUME IInv, InField, Singular(call.field), MergeSingular
    PROVE  LET i == call.field  into == call.into  from == call.from
               keeps == call.mode = "assign_if_empty" /\ ~empty_field(obj[into][i])
           IN  /\ Typed(obj') /\ Logged(log')
               /\ \A o \in Slots, j \in Index : (o # into /\ o # from) \/ j # i =>
                     obj'[o][j] = obj[o][j] /\ log'[o][j] = log[o][j]
               /\ log'[into][i] = (IF keeps THEN log[into][i] ELSE log[into][i] \o log[from][i])
               /\ into # from => log'[from][i] = log[from][i]
               /\ into # from => obj'[from][i] =
                    (IF call.move /\ Overwrites(i) THEN RestOf(i, obj[from][i]) ELSE obj[from][i])
               /\ obj'[into][i] = (IF Overwrites(i) THEN obj[from][i] ELSE obj[into][i])
<1> DEFINE i == call.field
           into == call.into
           from == call.from
           keeps == call.mode = "assign_if_empty" /\ ~empty_field(obj[into][i])
           l == IF keeps THEN log[into][i] ELSE log[into][i] \o log[from][i]
           g == IF call.move /\ Overwrites(i) THEN RestOf(i, obj[from][i]) ELSE obj[from][i]
           c == IF Overwrites(i) THEN obj[from][i] ELSE obj[into][i]
<1>1. i \in Index /\ into \in Slots /\ from \in Slots /\ (into = from => ~call.move) BY InTheField
<1>2. Typed(obj) /\ Logged(log) BY DEF IInv, StateTyped
<1>3. /\ obj[from][i] \in Contents(i) /\ obj[into][i] \in Contents(i)
      /\ log[from][i] \in Seq(Entries(i)) /\ log[into][i] \in Seq(Entries(i))
  BY <1>1, <1>2 DEF Typed, Logged
<1>4. c \in Contents(i) /\ g \in Contents(i) /\ l \in Seq(Entries(i))
  <2>1. RestOf(i, obj[from][i]) \in Contents(i) BY <1>1, <1>3, RestType
  <2>2. log[into][i] \o log[from][i] \in Seq(Entries(i)) BY <1>3
  <2> HIDE DEF i, into, from, keeps
  <2> QED BY <2>1, <2>2, <1>3
<1>5. c \in AnyContents /\ g \in AnyContents /\ l \in AnyLog
  BY <1>1, <1>4 DEF AnyContents, AnyLog
<1>6. log' = [log EXCEPT ![into][i] = l] BY DEF MergeSingular, Done
<1>7. obj' = IF Overwrites(i) THEN [obj EXCEPT ![from][i] = Forwarded(i), ![into][i] = obj[from][i]]
             ELSE obj
  BY DEF MergeSingular
<1>8. Overwrites(i) => g = Forwarded(i) /\ c = obj[from][i] BY DEF Forwarded
<1>9. ~Overwrites(i) => g = obj[from][i] /\ c = obj[into][i] OBVIOUS
<1>10. into = from => g = obj[from][i] BY <1>1
<1> HIDE DEF i, into, from, c, g, l
<1>11. /\ log' \in [Slots -> [Index -> AnyLog]] /\ log'[into][i] = l
       /\ \A o \in Slots, j \in Index : o # into \/ j # i => log'[o][j] = log[o][j]
  BY <1>1, <1>2, <1>5, <1>6 DEF Logged
<1>12. /\ obj' \in [Slots -> [Index -> AnyContents]] /\ obj'[into][i] = c
       /\ into # from => obj'[from][i] = g
       /\ \A o \in Slots, j \in Index : (o # into /\ o # from) \/ j # i => obj'[o][j] = obj[o][j]
  <2>1. CASE Overwrites(i)
    <3>1. obj' = [obj EXCEPT ![from][i] = g, ![into][i] = c] BY <2>1, <1>7, <1>8
    <3> QED BY <3>1, <1>1, <1>2, <1>5 DEF Typed
  <2>2. CASE ~Overwrites(i) BY <2>2, <1>1, <1>2, <1>7, <1>9 DEF Typed
  <2> QED BY <2>1, <2>2
<1>13. Typed(obj')
  <2> SUFFICES ASSUME NEW o \in Slots, NEW j \in Index PROVE obj'[o][j] \in Contents(j)
    BY <1>12 DEF Typed
  <2>1. obj[o][j] \in Contents(j) BY <1>2 DEF Typed
  <2> QED BY <2>1, <1>4, <1>12
<1>14. Logged(log') BY <1>2, <1>4, <1>11 DEF Logged
<1>15. into # from => log'[from][i] = log[from][i] BY <1>1, <1>11
<1>16. \A o \in Slots, j \in Index : (o # into /\ o # from) \/ j # i =>
          obj'[o][j] = obj[o][j] /\ log'[o][j] = log[o][j]
  BY <1>11, <1>12
<1> QED BY <1>11, <1>12, <1>13, <1>14, <1>15, <1>16 DEF i, into, from, c, g, l

\* A singular field is merged.
LEMMA MergeSingularStep ==
    ASSUME IInv, MergeSingular
    PROVE  IInv'
<1> DEFINE i == call.field
           into == call.into
           from == call.from
           keeps == call.mode = "assign_if_empty" /\ ~empty_field(obj[into][i])
<1>1. InField /\ Singular(i) /\ call' = [call EXCEPT !.field = @ + 1] /\ pushes' = pushes
  BY DEF MergeSingular, Done
<1>2. /\ call \in Calls /\ call # Idle /\ i \in Index /\ into \in Slots /\ from \in Objects
      /\ from \in Slots /\ call.move \in BOOLEAN /\ ~call.open
      /\ (~call.free => into # Result)
  BY <1>1, InTheField DEF Calls
<1>3. /\ Typed(obj') /\ Logged(log')
      /\ \A o \in Slots, j \in Index : (o # into /\ o # from) \/ j # i =>
            obj'[o][j] = obj[o][j] /\ log'[o][j] = log[o][j]
      /\ log'[into][i] = (IF keeps THEN log[into][i] ELSE log[into][i] \o log[from][i])
      /\ into # from => log'[from][i] = log[from][i]
      /\ into # from => obj'[from][i] =
            (IF call.move /\ Overwrites(i) THEN RestOf(i, obj[from][i]) ELSE obj[from][i])
      /\ obj'[into][i] = (IF Overwrites(i) THEN obj[from][i] ELSE obj[into][i])
  BY <1>1, SingularMerged
<1>4. moved' = moved \cup (IF <<from, i>> \in moved /\ ~keeps THEN {<<into, i>>} ELSE {})
                    \cup (IF call.move /\ Overwrites(i) THEN {<<from, i>>} ELSE {})
  BY <1>1 DEF MergeSingular, Done
<1>5. Overwrites(i) <=> ~empty_field(obj[from][i]) /\ ~keeps
  BY <1>2 DEF Overwrites, Calls, Modes
<1>6. /\ call' \in Calls /\ call'.into = into /\ call'.from = from /\ call'.move = call.move
      /\ call'.free = call.free /\ call'.open = FALSE /\ call'.op = call.op
      /\ call'.args = call.args /\ call'.field = i + 1 /\ call' # Idle
  <2>1. i + 1 \in Nat \ {0} BY <1>2 DEF Calls
  <2>2. call' \in Calls BY <2>1, <1>1, <1>2 DEF Calls
  <2>3. call'.op \in {"merge", "undefined"} BY <2>2 DEF Calls
  <2> QED BY <2>1, <2>2, <2>3, <1>1, <1>2 DEF Calls, Idle
<1> HIDE DEF i, into, from
<1>7. StateTyped' BY <1>1, <1>3, <1>6 DEF IInv, StateTyped
<1>8. InCall'
  <2>1. /\ call.into = into /\ call.from = from BY DEF into, from
  <2>2. ~call.free => obj'[Result] = Nothing
    <3>1. CASE ~call.free
      <4>1. obj[Result] = Nothing /\ into # Result /\ from # Result /\ Result \in Slots
        BY <3>1, <1>2, ObjectAssumption DEF IInv, InCall, Slots
      <4>2. \A j \in Index : obj'[Result][j] = obj[Result][j] BY <4>1, <1>3
      <4>3. obj'[Result] \in [Index -> AnyContents] BY <4>1, <1>3 DEF Typed
      <4> QED BY <4>1, <4>2, <4>3 DEF Nothing
    <3> QED BY <3>1
  <2> QED BY <2>1, <2>2, <1>2, <1>6, ObjectAssumption DEF IInv, InCall, Nothing
<1>9. HalfWay' BY <1>6 DEF HalfWay
<1>10. ASSUME NEW o \in Slots, NEW j \in Index, <<o, j>> \notin moved'
       PROVE  obj'[o][j] = Pushed(j, log'[o][j])
  <2>1. <<o, j>> \notin moved /\ Replayed(o, j) BY <1>2, <1>4, <1>10, NotBusy
  <2>2. CASE (o # into /\ o # from) \/ j # i BY <2>1, <2>2, <1>3 DEF Replayed
  <2>3. CASE o = into /\ j = i
    <3>1. CASE keeps BY <3>1, <2>1, <2>3, <1>3, <1>5 DEF Replayed
    <3>2. CASE ~keeps
      <4>1. Replayed(from, i) BY <3>2, <2>3, <1>2, <1>4, <1>10, NotBusy
      <4>2. log[into][i] \in Seq(Entries(i)) /\ log[from][i] \in Seq(Entries(i))
        BY <1>2 DEF IInv, StateTyped, Logged
      <4>3. CASE log[from][i] = <<>>
        <5>1. obj[from][i] = <<>> BY <4>1, <4>3, <1>2, PushedNothing DEF Replayed
        <5>2. ~Overwrites(i) BY <5>1, <1>5 DEF empty_field
        <5>3. log[into][i] \o log[from][i] = log[into][i]
          BY <4>2, <4>3, <1>1, <1>2, SingularOfConcat DEF i
        <5> QED BY <5>2, <5>3, <3>2, <2>1, <2>3, <1>3 DEF Replayed
      <4>4. CASE log[from][i] # <<>>
        <5>1. /\ Pushed(i, log[into][i] \o log[from][i]) = Pushed(i, log[from][i])
              /\ DOMAIN Pushed(i, log[from][i]) # {}
          BY <4>2, <4>4, <1>1, <1>2, SingularOfConcat DEF i
        <5>2. Overwrites(i) BY <5>1, <4>1, <3>2, <1>5 DEF empty_field, Replayed
        <5> QED BY <5>1, <5>2, <4>1, <3>2, <2>3, <1>3 DEF Replayed
      <4> QED BY <4>3, <4>4
    <3> QED BY <3>1, <3>2
  <2>4. CASE o = from /\ o # into /\ j = i
    <3>1. ~(call.move /\ Overwrites(i)) BY <2>4, <1>4, <1>10
    <3> QED BY <3>1, <2>1, <2>4, <1>3 DEF Replayed
  <2> QED BY <2>2, <2>3, <2>4
<1>11. IsReplay' BY <1>10 DEF IsReplay
<1> QED BY <1>7, <1>8, <1>9, <1>11 DEF IInv

\* Before the first element is taken.
LEMMA AtFirst ==
    ASSUME NEW i \in Index, ~Singular(i), NEW l \in Seq(Entries(i)), NEW s \in Seq(Entries(i))
    PROVE  /\ Reads(Pushed(i, s), s, i, DOMAIN Pushed(i, s))
           /\ Writes(Pushed(i, l), l, s, i, DOMAIN Pushed(i, s))
<1>1. Reads(Pushed(i, s), s, i, DOMAIN Pushed(i, s)) BY DEF Reads
<1>2. CASE Repeated(i)
  <2>1. Pushed(i, l) = l /\ Pushed(i, s) = s /\ Pushed(i, l \o s) = l \o s BY <1>2, Kinds DEF Pushed
  <2>2. /\ Len(s) \in Nat /\ Len(l) \in Nat /\ DOMAIN s = 1..Len(s) /\ DOMAIN l = 1..Len(l)
        /\ DOMAIN (l \o s) = 1..Len(l)+Len(s) /\ \A x \in 1..Len(l) : (l \o s)[x] = l[x]
    OBVIOUS
  <2>3. 0 \in 0..Len(s) /\ DOMAIN s = 0+1..Len(s) /\ DOMAIN l = 1..Len(l)+0 BY <2>2
  <2>4. Covers(l, l, s, i, DOMAIN s) BY <2>3, <1>2, Kinds DEF Covers
  <2>5. \A x \in DOMAIN l : x \in DOMAIN (l \o s) /\ l[x] = (l \o s)[x] BY <2>2
  <2> QED BY <1>1, <2>1, <2>4, <2>5 DEF Writes
<1>3. CASE IsMap(i)
  <2>1. /\ DOMAIN Pushed(i, l) = KeysIn(l)
        /\ DOMAIN Pushed(i, l \o s) = KeysIn(l) \cup KeysIn(s)
        /\ \A k \in KeysIn(l) : Pushed(i, l \o s)[k] = Pushed(i, l)[k]
        /\ DOMAIN Pushed(i, s) = KeysIn(s)
    BY <1>3, MapOfConcat
  <2>2. Covers(Pushed(i, l), l, s, i, DOMAIN Pushed(i, s)) BY <2>1, <1>3, Kinds DEF Covers
  <2> QED BY <1>1, <2>1, <2>2 DEF Writes
<1> QED BY <1>2, <1>3, Kinds

\* When all the elements were taken.
LEMMA AtLast ==
    ASSUME NEW i \in Index, ~Singular(i), NEW l \in Seq(Entries(i)), NEW s \in Seq(Entries(i)),
           NEW c \in Contents(i), Writes(c, l, s, i, {})
    PROVE  c = Pushed(i, l \o s)
<1>1. CASE Repeated(i)
  <2>1. Pushed(i, l \o s) = l \o s /\ c \in Seq(Stored) BY <1>1, Kinds DEF Pushed, Contents, Stored
  <2>2. PICK d \in 0..Len(s) : {} = d+1..Len(s) /\ DOMAIN c = 1..Len(l)+d
    BY <1>1 DEF Writes, Covers
  <2>3. Len(s) \in Nat /\ Len(l) \in Nat OBVIOUS
  <2>4. d = Len(s) BY <2>2, <2>3
  <2>5. l \o s \in Seq(Stored) /\ Len(l \o s) = Len(l) + Len(s)
    <3>1. l \in Seq(Values) /\ s \in Seq(Values) BY <1>1, Kinds DEF Entries
    <3> QED BY <3>1 DEF Stored
  <2>6. Len(c) = Len(l \o s) BY <2>1, <2>2, <2>3, <2>4, <2>5
  <2>7. \A x \in 1..Len(c) : c[x] = (l \o s)[x] BY <2>1 DEF Writes
  <2> QED BY <2>1, <2>5, <2>6, <2>7, SeqEqual
<1>2. CASE IsMap(i)
  <2>1. DOMAIN Pushed(i, l \o s) = KeysIn(l) \cup KeysIn(s) BY <1>2, MapOfConcat
  <2>2. DOMAIN c = KeysIn(l) \cup KeysIn(s) BY <1>2 DEF Writes, Covers
  <2>3. c = [k \in DOMAIN c |-> c[k]] BY <1>2, Kinds DEF Contents
  <2>4. Pushed(i, l \o s) = [k \in DOMAIN Pushed(i, l \o s) |-> Pushed(i, l \o s)[k]]
    BY <1>2, Kinds DEF Pushed
  <2> QED BY <2>1, <2>2, <2>3, <2>4 DEF Writes
<1> QED BY <1>1, <1>2, Kinds

\* One more element taken.
LEMMA OneMore ==
    ASSUME NEW i \in Index, ~Singular(i), NEW l \in Seq(Entries(i)), NEW s \in Seq(Entries(i)),
           NEW c \in Contents(i), NEW g \in Contents(i),
           NEW todo \in SUBSET Nat, NEW x \in todo, \A y \in todo : x <= y,
           Writes(c, l, s, i, todo), Reads(g, s, i, todo)
    PROVE  Writes(push_field(i, c, Element(i, g, x)), l, s, i, todo \ {x})
<1>1. CASE Repeated(i)
  <2>1. Pushed(i, l \o s) = l \o s /\ Pushed(i, s) = s /\ c \in Seq(Stored)
    BY <1>1, Kinds DEF Pushed, Contents, Stored
  <2>2. PICK d \in 0..Len(s) : todo = d+1..Len(s) /\ DOMAIN c = 1..Len(l)+d
    BY <1>1 DEF Writes, Covers
  <2>3. Len(s) \in Nat /\ Len(l) \in Nat /\ Len(l \o s) = Len(l) + Len(s) OBVIOUS
  <2>4. x = d+1 /\ d+1 \in 0..Len(s) /\ Len(c) = Len(l) + d BY <2>1, <2>2, <2>3
  <2>5. todo \ {x} = (d+1)+1..Len(s) BY <2>2, <2>3, <2>4
  <2>6. g[x] = s[x] BY <2>1 DEF Reads
  <2> DEFINE e == Append(c, g[x])
  <2>7. push_field(i, c, Element(i, g, x)) = e BY <1>1, Kinds DEF push_field, Element
  <2>8. /\ DOMAIN e = 1..Len(l)+(d+1) /\ e[Len(l)+(d+1)] = g[x]
        /\ \A y \in DOMAIN c : e[y] = c[y]
    BY <2>1, <2>3, <2>4
  <2>9. (l \o s)[Len(l)+(d+1)] = s[d+1] /\ DOMAIN (l \o s) = 1..Len(l)+Len(s)
    BY <2>3, <2>4
  <2> HIDE DEF e
  <2>10. Covers(e, l, s, i, todo \ {x}) BY <2>4, <2>5, <2>8, <1>1, Kinds DEF Covers
  <2>11. ASSUME NEW y \in DOMAIN e PROVE y \in DOMAIN (l \o s) /\ e[y] = (l \o s)[y]
    <3>1. CASE y = Len(l)+(d+1) BY <3>1, <2>3, <2>4, <2>6, <2>8, <2>9
    <3>2. CASE y \in DOMAIN c BY <3>2, <2>1, <2>8 DEF Writes
    <3>3. y \in 1..(Len(l) + d) + 1 /\ Len(l) + d \in Nat BY <2>2, <2>3, <2>8
    <3>4. y = Len(l)+(d+1) \/ y \in DOMAIN c BY <3>3, <2>2, <2>3
    <3> QED BY <3>1, <3>2, <3>4
  <2> QED BY <2>1, <2>7, <2>10, <2>11 DEF Writes
<1>2. CASE IsMap(i)
  <2> DEFINE p == Pushed(i, l \o s)
             e == push_field(i, c, Element(i, g, x))
  <2>1. /\ DOMAIN p = KeysIn(l) \cup KeysIn(s)
        /\ \A k \in KeysIn(l) : p[k] = Pushed(i, l)[k]
        /\ \A k \in KeysIn(s) \ KeysIn(l) : p[k] = Pushed(i, s)[k]
    BY <1>2, MapOfConcat
  <2>2. /\ todo \subseteq KeysIn(s) /\ DOMAIN c = KeysIn(l) \cup (KeysIn(s) \ todo)
        /\ \A y \in DOMAIN c : y \in DOMAIN p /\ c[y] = p[y]
    BY <1>2 DEF Writes, Covers
  <2>3. g[x] = Pushed(i, s)[x] BY DEF Reads
  <2>4. e = IF x \in DOMAIN c THEN c ELSE Put(c, x, g[x])
    BY <1>2, Kinds DEF push_field, Element, Taken
  <2> HIDE DEF p, e
  <2>5. CASE x \in DOMAIN c
    <3>1. x \in KeysIn(l) BY <2>2, <2>5
    <3>2. DOMAIN c = KeysIn(l) \cup (KeysIn(s) \ (todo \ {x})) BY <2>2, <3>1
    <3> QED BY <3>2, <2>2, <2>4, <2>5, <1>2, Kinds DEF Writes, Covers, p, e
  <2>6. CASE x \notin DOMAIN c
    <3>1. x \in KeysIn(s) \ KeysIn(l) BY <2>2, <2>6
    <3>2. /\ DOMAIN e = DOMAIN c \cup {x} /\ e[x] = g[x]
          /\ \A y \in DOMAIN c : e[y] = c[y]
      BY <2>4, <2>6 DEF Put
    <3>3. DOMAIN e = KeysIn(l) \cup (KeysIn(s) \ (todo \ {x})) BY <2>2, <3>1, <3>2
    <3>4. \A y \in DOMAIN e : y \in DOMAIN p /\ e[y] = p[y] BY <2>1, <2>2, <2>3, <3>1, <3>2
    <3> QED BY <3>3, <3>4, <2>2, <1>2, Kinds DEF Writes, Covers, p, e
  <2> QED BY <2>5, <2>6
<1> QED BY <1>1, <1>2, Kinds

\* merge_field takes its iterators.
LEMMA OpenFieldStep ==
    ASSUME IInv, OpenField
    PROVE  IInv'
<1> DEFINE i == call.field
           into == call.into
           from == call.from
           todo == DOMAIN obj[from][i]
<1>1. /\ InField /\ ~call.open /\ ~Singular(i) /\ UNCHANGED <<obj, log, moved, pushes>>
      /\ call' = [call EXCEPT !.open = TRUE, !.live = TRUE, !.todo = todo]
  BY DEF OpenField
<1>2. /\ call \in Calls /\ call # Idle /\ i \in Index /\ into \in Slots /\ from \in Slots
  BY <1>1, InTheField
<1>3. todo \in SUBSET Nat
  <2>1. obj[from][i] \in Contents(i) BY <1>2 DEF IInv, StateTyped, Typed
  <2>2. CASE Repeated(i)
    <3>1. obj[from][i] \in Seq(Stored) BY <2>1, <2>2, <1>2, Kinds DEF Contents, Stored
    <3> QED BY <3>1
  <2>3. CASE IsMap(i)
    <3>1. PICK K \in SUBSET Keys : obj[from][i] \in [K -> Stored]
      BY <2>1, <2>3, <1>2, Kinds DEF Contents, Stored
    <3> QED BY <3>1, ObjectAssumption
  <2> QED BY <2>2, <2>3, <1>1, <1>2, Kinds
<1> HIDE DEF todo
<1>4. /\ call' \in Calls /\ call'.into = into /\ call'.from = from /\ call'.move = call.move
      /\ call'.free = call.free /\ call'.open = TRUE /\ call'.op = "merge" /\ call'.live = TRUE
      /\ call'.args = call.args /\ call'.field = i /\ call'.todo = todo /\ call' # Idle
  <2>1. call' \in Calls BY <1>1, <1>2, <1>3 DEF Calls
  <2>2. call.op = "merge" BY <1>1 DEF InField
  <2>3. call'.op = "merge" BY <2>2, <1>1, <1>2 DEF Calls
  <2> QED BY <2>1, <2>3, <1>1, <1>2 DEF Calls, Idle
<1>5. StateTyped' BY <1>1, <1>4 DEF IInv, StateTyped, Typed, Logged
<1>6. InCall' BY <1>1, <1>2, <1>4 DEF IInv, InCall, Nothing
<1>7. HalfWay'
  <2>1. log[from][i] \in Seq(Entries(i)) /\ log[into][i] \in Seq(Entries(i))
    BY <1>2 DEF IInv, StateTyped, Logged
  <2>2. <<from, i>> \notin moved => obj[from][i] = Pushed(i, log[from][i])
    BY <1>1, <1>2, NotBusy DEF Replayed
  <2>3. <<into, i>> \notin moved => obj[into][i] = Pushed(i, log[into][i])
    BY <1>1, <1>2, NotBusy DEF Replayed
  <2>4. <<from, i>> \notin moved => Reads(obj[from][i], log[from][i], i, todo)
    BY <2>1, <2>2, <1>1, <1>2, AtFirst DEF todo
  <2>5. <<into, i>> \notin moved /\ <<from, i>> \notin moved =>
          Writes(obj[into][i], log[into][i], log[from][i], i, todo)
    BY <2>1, <2>2, <2>3, <1>1, <1>2, AtFirst DEF todo
  <2>6. todo \subseteq DOMAIN obj[from][i] BY DEF todo
  <2> HIDE DEF i, into, from
  <2> QED BY <2>2, <2>4, <2>5, <2>6, <1>1, <1>4 DEF HalfWay, Replayed
<1>8. IsReplay' BY <1>1, NotBusy DEF IsReplay, Replayed
<1> QED BY <1>5, <1>6, <1>7, <1>8 DEF IInv

\* What one element taken makes of the two fields.
LEMMA Copied ==
    ASSUME IInv, CopyElement
    PROVE  LET i == call.field  into == call.into  from == call.from
               c == obj[into][i]  g == obj[from][i]
               x == Least(call.todo)
               d == push_field(i, c, Element(i, g, x))
               h == IF call.move /\ Taken(i, c, Element(i, g, x)) THEN Put(g, x, Rest(i, g[x])) ELSE g
           IN  /\ x \in call.todo /\ \A y \in call.todo : x <= y
               /\ Typed(obj') /\ obj'[into][i] = d
               /\ into # from => obj'[from][i] = h
               /\ DOMAIN h = DOMAIN g /\ \A y \in DOMAIN g \ {x} : h[y] = g[y]
               /\ \A o \in Slots, j \in Index :
                     (o # into /\ o # from) \/ j # i => obj'[o][j] = obj[o][j]
<1> DEFINE i == call.field
           into == call.into
           from == call.from
           c == obj[into][i]
           g == obj[from][i]
           x == Least(call.todo)
           e == Element(i, g, x)
           d == push_field(i, c, e)
           h == IF call.move /\ Taken(i, c, e) THEN Put(g, x, Rest(i, g[x])) ELSE g
<1>1. InField /\ call.open /\ call.live /\ call.todo # {} BY DEF CopyElement
<1>2. /\ call \in Calls /\ call # Idle /\ i \in Index /\ into \in Slots /\ from \in Slots
      /\ ~Singular(i) /\ (into = from => ~call.move)
  BY <1>1, InTheField
<1>3. x \in call.todo /\ \A y \in call.todo : x <= y BY <1>1, <1>2, LeastIs DEF Calls
<1>4. x \in DOMAIN g BY <1>1, <1>2, <1>3 DEF IInv, HalfWay
<1>5. Typed(obj) /\ c \in Contents(i) /\ g \in Contents(i) BY <1>2 DEF IInv, StateTyped, Typed
<1>6. e \in Elements(i) BY <1>2, <1>4, <1>5, ElementType
<1>7. d \in Contents(i) BY <1>2, <1>5, <1>6, PushType
<1>8. h \in Contents(i) /\ DOMAIN h = DOMAIN g /\ \A y \in DOMAIN g \ {x} : h[y] = g[y]
  BY <1>2, <1>4, <1>5, ElementType
<1>9. d \in AnyContents /\ h \in AnyContents BY <1>2, <1>7, <1>8 DEF AnyContents
<1>10. obj' = [obj EXCEPT
           ![into][i] = push_field(i, @, e),
           ![from][i] = IF Gives(i, e) THEN Put(@, x, Rest(i, @[x])) ELSE @]
  BY DEF CopyElement
<1>11. Gives(i, e) <=> call.move /\ Taken(i, c, e) BY DEF Gives
<1>12. /\ obj' \in [Slots -> [Index -> AnyContents]] /\ obj'[into][i] = d
       /\ into # from => obj'[from][i] = h
       /\ \A o \in Slots, j \in Index :
             (o # into /\ o # from) \/ j # i => obj'[o][j] = obj[o][j]
  <2>1. CASE into = from
    <3>1. obj' = [obj EXCEPT ![into][i] = d, ![from][i] = @] BY <2>1, <1>2, <1>10, <1>11
    <3> HIDE DEF d, i, into, from
    <3> QED BY <3>1, <2>1, <1>2, <1>5, <1>9 DEF Typed
  <2>2. CASE into # from
    <3>1. obj' = [obj EXCEPT ![into][i] = d, ![from][i] = h]
      BY <2>2, <1>2, <1>5, <1>10, <1>11 DEF Typed
    <3> HIDE DEF d, h, i, into, from
    <3> QED BY <3>1, <2>2, <1>2, <1>5, <1>9 DEF Typed
  <2> QED BY <2>1, <2>2
<1> HIDE DEF d, h, x, c, g, e, i, into, from
<1>13. Typed(obj')
  <2> SUFFICES ASSUME NEW o \in Slots, NEW j \in Index PROVE obj'[o][j] \in Contents(j)
    BY <1>12 DEF Typed
  <2>1. obj[o][j] \in Contents(j) BY <1>5 DEF Typed
  <2> QED BY <2>1, <1>7, <1>8, <1>12
<1> QED BY <1>3, <1>8, <1>12, <1>13 DEF d, h, x, c, g, e, i, into, from

\* What a sequence held it still holds when it is appended to.
LEMMA Appended ==
    ASSUME NEW S, NEW s \in Seq(S), NEW x \in DOMAIN s
    PROVE  /\ DOMAIN s \subseteq DOMAIN Append(s, s[x])
           /\ \A y \in DOMAIN s : Append(s, s[x])[y] = s[y]
OBVIOUS

\* One element is taken.
LEMMA CopyElementStep ==
    ASSUME IInv, CopyElement
    PROVE  IInv'
<1> DEFINE i == call.field
           into == call.into
           from == call.from
           c == obj[into][i]
           g == obj[from][i]
           l == log[into][i]
           s == log[from][i]
           x == Least(call.todo)
           d == push_field(i, c, Element(i, g, x))
           h == IF call.move /\ Taken(i, c, Element(i, g, x)) THEN Put(g, x, Rest(i, g[x])) ELSE g
           todo == call.todo
           left == todo \ {x}
<1>1. InField /\ call.open /\ UNCHANGED <<log, moved, pushes>> BY DEF CopyElement
<1>2. /\ call \in Calls /\ call # Idle /\ i \in Index /\ into \in Slots /\ from \in Slots
      /\ from \in Objects /\ ~Singular(i) /\ (into = from => ~call.move)
      /\ (~call.free => into # Result) /\ todo \in SUBSET Nat
  BY <1>1, InTheField DEF Calls
<1>3. /\ x \in todo /\ \A y \in todo : x <= y
      /\ Typed(obj') /\ obj'[into][i] = d
      /\ into # from => obj'[from][i] = h
      /\ DOMAIN h = DOMAIN g /\ \A y \in DOMAIN g \ {x} : h[y] = g[y]
      /\ \A o \in Slots, j \in Index : (o # into /\ o # from) \/ j # i => obj'[o][j] = obj[o][j]
  BY Copied
<1>4. PICK live \in (IF Repeated(i) /\ into = from THEN BOOLEAN ELSE {TRUE}) :
        call' = [call EXCEPT !.todo = @ \ {x}, !.live = live]
  BY DEF CopyElement
<1>5. /\ call' \in Calls /\ call'.into = into /\ call'.from = from /\ call'.move = call.move
      /\ call'.free = call.free /\ call'.open = TRUE /\ call'.op = "merge" /\ call'.live = live
      /\ call'.args = call.args /\ call'.field = i /\ call'.todo = left /\ call' # Idle
  <2>1. live \in BOOLEAN /\ left \in SUBSET Nat BY <1>2
  <2>2. call' \in Calls BY <2>1, <1>2, <1>4 DEF Calls
  <2>3. call.op = "merge" BY <1>1 DEF InField
  <2>4. call'.op = "merge" BY <2>3, <1>2, <1>4 DEF Calls
  <2> QED BY <2>2, <2>4, <1>1, <1>2, <1>4 DEF Calls, Idle
<1>6. ~live => into = from OBVIOUS
<1>7. StateTyped' BY <1>1, <1>3, <1>5 DEF IInv, StateTyped, Logged
<1>8. ~call.free => obj'[Result] = Nothing
  <2>1. CASE ~call.free
    <3>1. obj[Result] = Nothing /\ into # Result /\ from # Result /\ Result \in Slots
      BY <2>1, <1>2, ObjectAssumption DEF IInv, InCall, Slots
    <3>2. \A j \in Index : obj'[Result][j] = obj[Result][j] BY <3>1, <1>3
    <3>3. obj'[Result] \in [Index -> AnyContents] BY <3>1, <1>3 DEF Typed
    <3> QED BY <3>1, <3>2, <3>3 DEF Nothing
  <2> QED BY <2>1
<1>9. InCall' BY <1>1, <1>2, <1>5, <1>6, <1>8 DEF IInv, InCall, Nothing
<1>10. /\ todo \subseteq DOMAIN g
       /\ <<from, i>> \notin moved => Reads(g, s, i, todo)
       /\ <<from, i>> \notin moved /\ ~call.move /\ into # from => g = Pushed(i, s)
       /\ <<into, i>> \notin moved /\ <<from, i>> \notin moved => Writes(c, l, s, i, todo)
  BY <1>1, <1>2 DEF IInv, HalfWay, Replayed
<1>11. c \in Contents(i) /\ g \in Contents(i) /\ l \in Seq(Entries(i)) /\ s \in Seq(Entries(i))
  BY <1>2 DEF IInv, StateTyped, Typed, Logged
<1>12. /\ left \subseteq DOMAIN obj'[from][i]
       /\ \A y \in left : obj'[from][i][y] = g[y]
  <2>1. CASE into # from BY <2>1, <1>3, <1>10
  <2>2. CASE into = from
    <3>1. c = g /\ obj'[from][i] = d BY <2>2, <1>3
    <3>2. CASE Repeated(i)
      <4>1. d = Append(g, g[x]) /\ g \in Seq(Stored)
        BY <3>1, <3>2, <1>2, <1>11, Kinds DEF push_field, Element, Contents, Stored
      <4>2. x \in DOMAIN g BY <1>3, <1>10
      <4> HIDE DEF g, x, d
      <4>3. DOMAIN g \subseteq DOMAIN d /\ \A y \in DOMAIN g : d[y] = g[y] BY <4>1, <4>2, Appended
      <4> QED BY <4>3, <3>1, <1>10
    <3>3. CASE IsMap(i)
      <4>1. x \in DOMAIN g BY <1>3, <1>10
      <4>2. d = g BY <4>1, <3>1, <3>3, <1>2, Kinds DEF push_field, Element, Taken
      <4> QED BY <4>2, <3>1, <1>10
    <3> QED BY <3>2, <3>3, <1>2, Kinds
  <2> QED BY <2>1, <2>2
<1>13. <<from, i>> \notin moved => Reads(obj'[from][i], s, i, left) BY <1>10, <1>12 DEF Reads
<1>14. <<from, i>> \notin moved /\ ~call.move /\ into # from => obj'[from][i] = Pushed(i, s)
  BY <1>3, <1>10
<1>15. <<into, i>> \notin moved /\ <<from, i>> \notin moved => Writes(d, l, s, i, left)
  BY <1>2, <1>3, <1>10, <1>11, OneMore
<1> HIDE DEF i, into, from, c, g, x, d, h, left
<1>16. HalfWay' BY <1>1, <1>3, <1>5, <1>12, <1>13, <1>14, <1>15 DEF HalfWay, Replayed
<1>17. ASSUME NEW o \in Slots, NEW j \in Index,
              <<o, j>> \notin moved \cup {<<into, i>>, <<from, i>>}
       PROVE  obj'[o][j] = Pushed(j, log'[o][j])
  <2>1. Busy = {<<into, i>>, <<from, i>>} BY <1>1, <1>2 DEF Busy, into, from, i
  <2>2. obj[o][j] = Pushed(j, log[o][j]) BY <2>1, <1>17 DEF IInv, IsReplay
  <2> QED BY <2>2, <1>1, <1>3, <1>17
<1>18. IsReplay' BY <1>1, <1>5, <1>17 DEF IsReplay, Busy
<1> QED BY <1>7, <1>9, <1>16, <1>18 DEF IInv

\* An element is read through a dead iterator.
LEMMA DangleStep ==
    ASSUME IInv, Dangle
    PROVE  IInv'
<1>1. /\ InField /\ call.open /\ ~call.live /\ UNCHANGED <<obj, log, moved, pushes>>
      /\ call' = [call EXCEPT !.op = "undefined"]
  BY DEF Dangle
<1>2. call \in Calls /\ call # Idle BY <1>1, InTheField
<1>3. /\ call' \in Calls /\ call'.into = call.into /\ call'.from = call.from
      /\ call'.move = call.move /\ call'.free = call.free /\ call'.open = TRUE
      /\ call'.live = call.live /\ call'.args = call.args /\ call'.field = call.field
      /\ call'.todo = call.todo /\ call' # Idle
  BY <1>1, <1>2 DEF Calls, Idle
<1>4. StateTyped' BY <1>1, <1>3 DEF IInv, StateTyped, Typed, Logged
<1>5. InCall' BY <1>1, <1>2, <1>3 DEF IInv, InCall, Nothing
<1>6. HalfWay' BY <1>1, <1>2, <1>3 DEF IInv, HalfWay, Replayed
<1>7. IsReplay' BY <1>1, <1>2, <1>3 DEF IInv, IsReplay, Busy
<1> QED BY <1>4, <1>5, <1>6, <1>7 DEF IInv

\* merge_field returns.
LEMMA CloseFieldStep ==
    ASSUME IInv, CloseField
    PROVE  IInv'
<1> DEFINE i == call.field
           into == call.into
           from == call.from
<1>1. /\ InField /\ call.open /\ call.todo = {} /\ Done(i) /\ UNCHANGED <<obj, pushes>>
      /\ call' = [call EXCEPT !.open = FALSE, !.field = @ + 1]
  BY DEF CloseField, Done
<1>2. /\ call \in Calls /\ call # Idle /\ i \in Index /\ into \in Slots /\ from \in Slots
      /\ ~Singular(i)
  BY <1>1, InTheField
<1>3. /\ log' = [log EXCEPT ![into][i] = @ \o log[from][i]]
      /\ moved' = moved \cup (IF <<from, i>> \in moved THEN {<<into, i>>} ELSE {})
                       \cup (IF call.move THEN {<<from, i>>} ELSE {})
  BY <1>1, <1>2 DEF Done
<1>4. /\ call' \in Calls /\ call'.into = into /\ call'.from = from /\ call'.move = call.move
      /\ call'.free = call.free /\ call'.open = FALSE /\ call'.op = "merge"
      /\ call'.args = call.args /\ call'.field = i + 1 /\ call' # Idle
  <2>1. i + 1 \in Nat \ {0} BY <1>2 DEF Calls
  <2>2. call' \in Calls BY <2>1, <1>1, <1>2 DEF Calls
  <2>3. call.op = "merge" BY <1>1 DEF InField
  <2>4. call'.op = "merge" BY <2>3, <1>1, <1>2 DEF Calls
  <2> QED BY <2>1, <2>2, <2>4, <1>1, <1>2 DEF Calls, Idle
<1> DEFINE l == log[into][i]
           s == log[from][i]
<1>5. l \in Seq(Entries(i)) /\ s \in Seq(Entries(i)) /\ obj[into][i] \in Contents(i) /\ Logged(log)
  BY <1>2 DEF IInv, StateTyped, Typed, Logged
<1>6. l \o s \in Seq(Entries(i)) BY <1>5
<1>7. l \o s \in AnyLog BY <1>2, <1>6 DEF AnyLog
<1>8. /\ log' \in [Slots -> [Index -> AnyLog]] /\ log'[into][i] = l \o s
      /\ \A o \in Slots, j \in Index : o # into \/ j # i => log'[o][j] = log[o][j]
  <2> DEFINE m == l \o s
  <2>1. log' = [log EXCEPT ![into][i] = m] BY <1>2, <1>3, <1>5 DEF Logged
  <2>2. m \in AnyLog BY <1>7
  <2> HIDE DEF m, i, into
  <2>3. /\ log' \in [Slots -> [Index -> AnyLog]] /\ log'[into][i] = m
        /\ \A o \in Slots, j \in Index : o # into \/ j # i => log'[o][j] = log[o][j]
    BY <2>1, <2>2, <1>2, <1>5 DEF Logged
  <2> QED BY <2>3 DEF m
<1>9. Logged(log') BY <1>5, <1>6, <1>8 DEF Logged
<1>10. StateTyped' BY <1>1, <1>4, <1>9 DEF IInv, StateTyped, Typed
<1>11. InCall' BY <1>1, <1>2, <1>4, ObjectAssumption DEF IInv, InCall, Nothing
<1>12. HalfWay' BY <1>4 DEF HalfWay
<1>13. /\ <<from, i>> \notin moved /\ ~call.move /\ into # from => obj[from][i] = Pushed(i, s)
       /\ <<into, i>> \notin moved /\ <<from, i>> \notin moved =>
             Writes(obj[into][i], l, s, i, {})
  BY <1>1, <1>2 DEF IInv, HalfWay, Replayed
<1>14. ASSUME NEW o \in Slots, NEW j \in Index, <<o, j>> \notin moved'
       PROVE  obj'[o][j] = Pushed(j, log'[o][j])
  <2>1. obj' = obj /\ <<o, j>> \notin moved BY <1>1, <1>3, <1>14
  <2>2. CASE o = into /\ j = i
    <3>1. <<from, i>> \notin moved BY <2>2, <1>3, <1>14
    <3>2. obj[into][i] = Pushed(i, l \o s) BY <3>1, <2>1, <2>2, <1>2, <1>5, <1>13, AtLast
    <3> QED BY <3>2, <2>1, <2>2, <1>8
  <2>3. CASE o = from /\ o # into /\ j = i
    <3>1. ~call.move BY <2>3, <1>3, <1>14
    <3> QED BY <3>1, <2>1, <2>3, <1>2, <1>8, <1>13
  <2>4. CASE (o # into /\ o # from) \/ j # i
    <3>1. Busy = {<<into, i>>, <<from, i>>} BY <1>1, <1>2 DEF Busy
    <3>2. obj[o][j] = Pushed(j, log[o][j]) BY <3>1, <2>1, <2>4 DEF IInv, IsReplay
    <3> QED BY <3>2, <2>1, <2>4, <1>8
  <2> QED BY <2>2, <2>3, <2>4
<1>15. IsReplay' BY <1>14 DEF IsReplay
<1> QED BY <1>10, <1>11, <1>12, <1>15 DEF IInv

----------------------------------------------------------------------------
(* The theorems.                                                           *)

\* The selectors find a field if there is one.
LEMMA Selected ==
    ASSUME NEW prop, NEW key, With(prop, key) # {}
    PROVE  Selector(prop, key) \in With(prop, key) /\ Selector(prop, key) \in Index
<1>1. With(prop, key) \subseteq Index /\ Index \subseteq Nat BY ObjectAssumption DEF With, Index
<1> QED BY <1>1, LeastIs DEF Selector

\* Every step of a program keeps the invariant.
LEMMA Preserved == IInv /\ [Next]_vars => IInv'
<1> SUFFICES ASSUME IInv, [Next]_vars PROVE IInv' OBVIOUS
<1>1. CASE UNCHANGED vars
  BY <1>1 DEF vars, IInv, StateTyped, Typed, Logged, InCall, HalfWay, Replayed, Reads, Writes,
              Covers, IsReplay, Busy, Nothing
<1>2. ASSUME NEW o \in Objects, NEW prop, NEW key, Push(o, prop, key) PROVE IInv'
  BY <1>2, Selected, PushStep DEF Push
<1>3. ASSUME NEW o \in Objects, NEW prop, NEW key, dynamic_visit_by(o, prop, key) PROVE IInv'
  <2>1. CASE With(prop, key) # {}
    <3> DEFINE first == Least(With(prop, key))
               name == Fields[first][prop]
    <3>1. call = Idle /\ PushTo(o, Selector(prop, name)) BY <2>1, <1>3 DEF dynamic_visit_by
    <3>2. first \in Index BY <2>1, Selected DEF Selector
    <3>3. With(prop, name) # {} BY <3>2 DEF With
    <3> QED BY <3>1, <3>3, Selected, PushStep
  <2>2. CASE With(prop, key) = {} BY <2>2, <1>3, <1>1 DEF dynamic_visit_by
  <2> QED BY <2>1, <2>2
<1>4. ASSUME MergeStep PROVE IInv'
  BY <1>4, MergeSingularStep, OpenFieldStep, CopyElementStep, DangleStep, CloseFieldStep,
     NextArgumentStep, ReturnStep DEF MergeStep
<1>5. CASE Undefined BY <1>5, <1>1 DEF Undefined
<1> QED BY <1>1, <1>2, <1>3, <1>4, <1>5, ClearStep, AssignStep, CallMergeStep, CallFreeMergeStep
        DEF Next

\* The inductive invariant: the types, who takes part in a call, what a field
\* holds half way through its merge, and the replay of all the others.
THEOREM Inductive == Spec => []IInv
<1> QED BY Initially, Preserved, PTL DEF Spec

\* Every field holds what its type can hold, and res lives in a call only.
THEOREM TypeCorrect == Spec => []TypeOK
<1>1. IInv => TypeOK BY DEF IInv, StateTyped, Typed, InCall, TypeOK, Calls, Idle
<1> QED BY <1>1, Inductive, PTL

\* Whatever the calls, an object holds what pushing the values one by one
\* would have made of an empty one (message.h:226-232, field.h:283-329).
THEOREM ReplayCorrect == Spec => []IsReplay
<1>1. IInv => IsReplay BY DEF IInv
<1> QED BY <1>1, Inductive, PTL

\* A program reads through a dead iterator only if it merges an object with
\* itself by the member (field.h:321-327), never by the function merge().
THEOREM OnlySelfMerge == Spec => []OnlySelfMergeDangles
<1>1. IInv => OnlySelfMergeDangles
  <2> SUFFICES ASSUME IInv, call.op = "undefined" PROVE ~call.free /\ call.into = call.from
    BY DEF OnlySelfMergeDangles
  <2>1. call # Idle /\ call \in Calls BY DEF IInv, StateTyped, Idle
  <2>2. call.open /\ ~call.live /\ call.into = call.from /\ call.field \in Index
    BY <2>1 DEF IInv, InCall
  <2>3. call.free => call.into = Result /\ call.from \in Objects BY <2>1, <2>2 DEF IInv, InCall
  <2> QED BY <2>1, <2>2, <2>3, ObjectAssumption
<1> QED BY <1>1, Inductive, PTL

\* A merge that is not moving leaves the message merged as it was, at every
\* step (message.h:53-79, 229-232).
THEOREM SourceIsKept == Spec => CopyKeepsSource
<1> DEFINE Kept == call.op = "merge" /\ call'.op = "merge" /\ ~call.move /\ call.into # call.from
                   => obj'[call.from] = obj[call.from]
<1>1. IInv /\ [Next]_vars => [Kept]_vars
  <2> SUFFICES ASSUME IInv, Next, call.op = "merge", call'.op = "merge", ~call.move,
                      call.into # call.from
               PROVE  obj'[call.from] = obj[call.from]
    BY DEF vars
  <2>1. call # Idle /\ call \in Calls BY DEF IInv, StateTyped, Idle
  <2>2. Typed(obj) /\ call.into \in Slots /\ call.from \in Slots
    BY <2>1 DEF IInv, StateTyped, Calls
  <2>3. CASE MergeSingular
    <3>1. call.field \in Index BY <2>3 DEF MergeSingular, InField
    <3>2. Forwarded(call.field) = obj[call.from][call.field] BY DEF Forwarded
    <3> QED BY <2>2, <2>3, <3>1, <3>2 DEF MergeSingular, Typed
  <2>4. CASE CopyElement
    <3>1. \A i, e : ~Gives(i, e) BY DEF Gives
    <3> QED BY <2>2, <2>4, <3>1 DEF CopyElement, Typed
  <2>5. CASE OpenField \/ Dangle \/ CloseField \/ NextArgument
    BY <2>5 DEF OpenField, Dangle, CloseField, NextArgument
  <2>6. CASE Return BY <2>6 DEF Return, Idle
  <2>7. ASSUME NEW o \in Objects, NEW prop, NEW key,
               Push(o, prop, key) \/ dynamic_visit_by(o, prop, key)
        PROVE  FALSE
    BY <2>7, <2>1 DEF Push, dynamic_visit_by
  <2>8. ASSUME NEW o \in Objects,
               \/ \E i \in Index : Clear(o, i)
               \/ \E p \in Objects : CopyAssign(o, p) \/ MoveAssign(o, p)
               \/ \E p \in Objects, mode \in Modes, move \in BOOLEAN : CallMerge(o, p, mode, move)
               \/ \E args \in Arguments, mode \in Modes : CallFreeMerge(o, args, mode)
        PROVE  FALSE
    BY <2>8, <2>1 DEF Clear, CopyAssign, MoveAssign, CallMerge, CallFreeMerge
  <2>9. CASE Undefined BY <2>9 DEF Undefined
  <2> QED BY <2>3, <2>4, <2>5, <2>6, <2>7, <2>8, <2>9 DEF Next, MergeStep
<1> QED BY <1>1, Inductive, PTL DEF Spec, CopyKeepsSource

\* A field keeps what it held when an element is pushed, and holds the element.
LEMMA PushKeeps ==
    ASSUME NEW i \in Index, ~Singular(i), NEW c \in Contents(i), NEW g \in Contents(i),
           NEW x \in DOMAIN g
    PROVE  LET e == Element(i, g, x)  d == push_field(i, c, e) IN
           /\ \A y \in DOMAIN c : y \in DOMAIN d /\ d[y] = c[y]
           /\ Taken(i, c, e) => \E y \in DOMAIN d : d[y] = g[x]
<1> DEFINE e == Element(i, g, x)
           d == push_field(i, c, e)
<1>1. CASE Repeated(i)
  <2>1. c \in Seq(Stored) /\ g \in Seq(Stored) BY <1>1, Kinds DEF Contents, Stored
  <2>2. d = Append(c, g[x]) BY <1>1, Kinds DEF push_field, Element
  <2>3. g[x] \in Stored BY <2>1
  <2> DEFINE v == g[x]
             n == Len(c) + 1
  <2> HIDE DEF v, d
  <2>4. v \in Stored /\ d = Append(c, v) BY <2>2, <2>3 DEF v
  <2>5. /\ \A y \in DOMAIN c : y \in DOMAIN d /\ d[y] = c[y]
        /\ n \in DOMAIN d /\ d[n] = v
    BY <2>1, <2>4
  <2> QED BY <2>5 DEF v, d
<1>2. CASE IsMap(i)
  <2>1. d = IF x \notin DOMAIN c THEN Put(c, x, g[x]) ELSE c
    BY <1>2, Kinds DEF push_field, Element, Taken
  <2>2. Taken(i, c, e) => x \notin DOMAIN c BY <1>2 DEF Taken, Element
  <2> HIDE DEF d, e
  <2> QED BY <2>1, <2>2 DEF Put, d, e
<1> QED BY <1>1, <1>2, Kinds

\* The values that objects hold in one field.
ValuesIn(f, i) == {f[s[1]][i][s[2]] : s \in UNION {{o} \X DOMAIN f[o][i] : o \in Slots}}

\* Some object holds v in field i.
HeldAt(f, i, v) == \E o \in Slots : \E y \in DOMAIN f[o][i] : v = f[o][i][y]

\* Each value is held by one of the objects at one place.
LEMMA ValuesOfAll ==
    ASSUME NEW f, NEW i, NEW v
    PROVE  v \in ValuesIn(f, i) <=> HeldAt(f, i, v)
<1> DEFINE S == UNION {{o} \X DOMAIN f[o][i] : o \in Slots}
           P == {f[s[1]][i][s[2]] : s \in S}
<1>1. ASSUME v \in P PROVE \E o \in Slots : \E y \in DOMAIN f[o][i] : v = f[o][i][y]
  <2>1. PICK s \in S : v = f[s[1]][i][s[2]] BY <1>1
  <2>2. PICK o \in Slots : s \in {o} \X DOMAIN f[o][i] BY <2>1
  <2>3. s[1] = o /\ s[2] \in DOMAIN f[o][i] BY <2>2
  <2> QED BY <2>1, <2>3
<1>2. ASSUME NEW o \in Slots, NEW y \in DOMAIN f[o][i], v = f[o][i][y] PROVE v \in P
  <2>1. <<o, y>> \in {o} \X DOMAIN f[o][i] OBVIOUS
  <2>2. <<o, y>> \in S BY <2>1
  <2> HIDE DEF S
  <2>3. f[<<o, y>>[1]][i][<<o, y>>[2]] = v BY <1>2
  <2> QED BY <2>2, <2>3
<1> QED BY <1>1, <1>2 DEF ValuesIn, HeldAt

\* No merge loses an element of a repeated or map field (field.h:321-327).
THEOREM NothingIsLost == Spec => LosesNothing
<1> DEFINE Kept == call.op = "merge" /\ call'.op = "merge" =>
                     \A i \in Index : ~Singular(i) => HeldValues(i) \subseteq HeldValues(i)' \cup {Hollow}
<1>1. \A i, v : v \in HeldValues(i) <=>
                   \E o \in Slots : \E y \in DOMAIN obj[o][i] : v = obj[o][i][y]
  <2>1. \A i : HeldValues(i) = ValuesIn(obj, i) BY Zenon DEF HeldValues, ValuesIn
  <2>2. \A i, v : v \in HeldValues(i) <=> HeldAt(obj, i, v)
    <3> TAKE i, v
    <3>1. v \in ValuesIn(obj, i) <=> HeldAt(obj, i, v) BY ValuesOfAll
    <3> QED BY <3>1, <2>1
  <2> QED BY <2>2 DEF HeldAt
<1>2. \A i, v : v \in HeldValues(i)' <=>
                   \E o \in Slots : \E y \in DOMAIN obj'[o][i] : v = obj'[o][i][y]
  <2>1. \A i : HeldValues(i)' = ValuesIn(obj', i) BY Zenon DEF HeldValues, ValuesIn
  <2>2. \A i, v : v \in HeldValues(i)' <=> HeldAt(obj', i, v)
    <3> TAKE i, v
    <3>1. v \in ValuesIn(obj', i) <=> HeldAt(obj', i, v) BY ValuesOfAll
    <3> QED BY <3>1, <2>1
  <2> QED BY <2>2 DEF HeldAt
<1>3. IInv /\ [Next]_vars => [Kept]_vars
  <2> SUFFICES ASSUME IInv, Next, call.op = "merge", call'.op = "merge",
                      NEW i \in Index, ~Singular(i), NEW v \in HeldValues(i)
               PROVE  v \in HeldValues(i)' \cup {Hollow}
    BY DEF vars
  <2>1. call # Idle /\ call \in Calls BY DEF IInv, StateTyped, Idle
  <2>2. PICK o \in Slots : \E y \in DOMAIN obj[o][i] : v = obj[o][i][y] BY <1>1
  <2>3. PICK y \in DOMAIN obj[o][i] : v = obj[o][i][y] BY <2>2
  <2>4. ASSUME obj'[o][i] = obj[o][i] PROVE v \in HeldValues(i)' BY <2>3, <2>4, <1>2
  <2>5. CASE MergeSingular
    <3>1. InField /\ Singular(call.field) BY <2>5 DEF MergeSingular
    <3>2. obj'[o][i] = obj[o][i] BY <2>5, <3>1, SingularMerged
    <3> QED BY <3>2, <2>4
  <2>6. CASE CopyElement
    <3> DEFINE f == call.field
               into == call.into
               from == call.from
               c == obj[into][f]
               g == obj[from][f]
               x == Least(call.todo)
               e == Element(f, g, x)
               d == push_field(f, c, e)
               h == IF call.move /\ Taken(f, c, e) THEN Put(g, x, Rest(f, g[x])) ELSE g
    <3>1. /\ x \in call.todo /\ obj'[into][f] = d
          /\ into # from => obj'[from][f] = h
          /\ DOMAIN h = DOMAIN g /\ \A z \in DOMAIN g \ {x} : h[z] = g[z]
          /\ \A p \in Slots, j \in Index :
                (p # into /\ p # from) \/ j # f => obj'[p][j] = obj[p][j]
      BY <2>6, Copied
    <3>2. /\ f \in Index /\ into \in Slots /\ from \in Slots /\ ~Singular(f)
          /\ call.todo \subseteq DOMAIN g
      BY <2>1, <2>6, InTheField DEF CopyElement, IInv, HalfWay
    <3>3. c \in Contents(f) /\ g \in Contents(f) BY <3>2 DEF IInv, StateTyped, Typed
    <3>4. /\ \A z \in DOMAIN c : z \in DOMAIN d /\ d[z] = c[z]
          /\ Taken(f, c, e) => \E z \in DOMAIN d : d[z] = g[x]
      BY <3>1, <3>2, <3>3, PushKeeps
    <3>5. ~(call.move /\ Taken(f, c, e)) => h = g OBVIOUS
    <3> HIDE DEF f, into, from, c, g, x, e, d, h
    <3>6. CASE (o # into /\ o # from) \/ i # f BY <3>6, <3>1, <2>4
    <3>7. CASE o = into /\ i = f
      <4>1. y \in DOMAIN obj'[o][i] /\ obj'[o][i][y] = v
        BY <3>7, <3>1, <3>4, <2>3 DEF c
      <4> QED BY <4>1, <1>2
    <3>8. CASE o = from /\ o # into /\ i = f
      <4>1. y \in DOMAIN g /\ v = g[y] /\ obj'[o][i] = h BY <3>8, <3>1, <2>3 DEF g
      <4>2. CASE y # x \/ h = g
        <5>1. y \in DOMAIN obj'[o][i] /\ obj'[o][i][y] = v BY <4>1, <4>2, <3>1
        <5> QED BY <5>1, <1>2
      <4>3. CASE y = x /\ Taken(f, c, e)
        <5>1. \E z \in DOMAIN obj'[into][i] : v = obj'[into][i][z] BY <4>1, <4>3, <3>1, <3>4, <3>8
        <5> QED BY <5>1, <3>2, <1>2
      <4> QED BY <4>2, <4>3, <3>5
    <3> QED BY <3>6, <3>7, <3>8
  <2>7. CASE OpenField \/ Dangle \/ CloseField \/ NextArgument
    BY <2>7, <2>4 DEF OpenField, Dangle, CloseField, NextArgument
  <2>8. CASE Return BY <2>8 DEF Return, Idle
  <2>9. ASSUME NEW p \in Objects, NEW prop, NEW key,
               Push(p, prop, key) \/ dynamic_visit_by(p, prop, key)
        PROVE  FALSE
    BY <2>9, <2>1 DEF Push, dynamic_visit_by
  <2>10. ASSUME NEW p \in Objects,
               \/ \E j \in Index : Clear(p, j)
               \/ \E q \in Objects : CopyAssign(p, q) \/ MoveAssign(p, q)
               \/ \E q \in Objects, mode \in Modes, move \in BOOLEAN : CallMerge(p, q, mode, move)
               \/ \E args \in Arguments, mode \in Modes : CallFreeMerge(p, args, mode)
         PROVE  FALSE
    BY <2>10, <2>1 DEF Clear, CopyAssign, MoveAssign, CallMerge, CallFreeMerge
  <2>11. CASE Undefined BY <2>11, <2>4 DEF Undefined, vars
  <2> QED BY <2>5, <2>6, <2>7, <2>8, <2>9, <2>10, <2>11 DEF Next, MergeStep
<1> QED BY <1>3, Inductive, PTL DEF Spec, LosesNothing
=============================================================================
