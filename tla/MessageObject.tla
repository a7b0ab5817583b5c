--------------------------- MODULE MessageObject ---------------------------
(***************************************************************************)
(* Message objects in a program (message.h, field.h, reflection.h): their  *)
(* fields are pushed to, by number or name known at compile time or at run *)
(* time, and cleared; objects are copied, moved and merged, by the member  *)
(* merge() or by the function merge(), which returns a new message.  A     *)
(* merge runs field by field and element by element, since an object may   *)
(* be merged with itself and the function's arguments may be one object.   *)
(*                                                                         *)
(* A field holds its values as a function: a singular field has the domain *)
(* 1..0 or 1..1, a repeated one 1..n, and a map field its keys.            *)
(***************************************************************************)
EXTENDS Integers, Sequences

CONSTANTS
    Objects,    \* the objects of the program
    Result,     \* res, the message the function merge() builds
    Fields,     \* the fields of the message type, in order: name, number,
                \* attr, and whether their values own memory (owns)
    Keys,       \* the keys of map elements
    RunKeys,    \* RunKeys[prop]: the names and numbers asked for at run time
    MaxArgs,    \* bound: arguments of the function merge()
    MaxPushes,  \* bound: values pushed; each value is pushed once
    MaxCalls    \* bound: other calls

Attributes == {"singular", "repeated", "map"}

ASSUME ObjectAssumption ==
    /\ Result \notin Objects
    /\ Keys \subseteq Nat
    /\ MaxArgs \in Nat /\ MaxPushes \in Nat /\ MaxCalls \in Nat
    /\ Len(Fields) \in Nat /\ DOMAIN Fields = 1..Len(Fields)
    /\ \A i \in DOMAIN Fields : Fields[i].attr \in Attributes /\ Fields[i].owns \in BOOLEAN

Slots == Objects \cup {Result}
Index == DOMAIN Fields
Values == 1..MaxPushes

\* What a moved-from string, vector or message is left as.
Hollow == 0

Singular(i) == Fields[i].attr = "singular"
Repeated(i) == Fields[i].attr = "repeated"
IsMap(i) == Fields[i].attr = "map"

VARIABLES
    obj,      \* obj[o][i]: what field i of object o holds
    call,     \* the merge that runs
    log,      \* log[o][i]: all that was pushed to the field, in order (history)
    moved,    \* the fields <<o, i>> whose values were moved away (history)
    pushes,   \* the number of values pushed (history)
    calls     \* the number of other calls (bound)

vars == <<obj, call, log, moved, pushes, calls>>

----------------------------------------------------------------------------
(* Fields.                                                                 *)

\* field_number_selector and field_name_selector: the first field that has
\* the number or the name.
With(prop, key) == {i \in Index : Fields[i][prop] = key}
Least(S) == CHOOSE x \in S : \A y \in S : x <= y
Selector(prop, key) == Least(With(prop, key))

\* What an iterator at x refers to.
Element(i, c, x) == IF IsMap(i) THEN <<x, c[x]>> ELSE c[x]

\* Does a map take the element, or has it one of that key?
Taken(i, c, e) == IsMap(i) => e[1] \notin DOMAIN c

Put(c, k, v) == [x \in DOMAIN c \cup {k} |-> IF x = k THEN v ELSE c[x]]

\* Slip: a singular field is appended to, like the others.
PushFieldAppend(i, c, e) ==
    CASE Singular(i) -> Append(c, e)
      [] Repeated(i) -> Append(c, e)
      [] IsMap(i) -> IF Taken(i, c, e) THEN Put(c, e[1], e[2]) ELSE c

\* push_field; also what std::inserter does to a container.
push_field(i, c, e) ==
    CASE Singular(i) -> <<e>>
      [] Repeated(i) -> Append(c, e)
      [] IsMap(i) -> IF Taken(i, c, e) THEN Put(c, e[1], e[2]) ELSE c

empty_field(c) == DOMAIN c = {}

\* What values pushed one by one make of a field: the last one, all of them,
\* or the first one of every key.
First(s, k) == CHOOSE x \in DOMAIN s : s[x][1] = k /\ \A y \in 1..x-1 : s[y][1] # k
Pushed(i, s) ==
    CASE Singular(i) -> IF s = <<>> THEN <<>> ELSE <<s[Len(s)]>>
      [] Repeated(i) -> s
      [] IsMap(i) -> [k \in {s[x][1] : x \in DOMAIN s} |-> s[First(s, k)][2]]

----------------------------------------------------------------------------
(* Calls that return at once.                                              *)

Nothing == [i \in Index |-> <<>>]
Idle == [op |-> "idle"]

Init ==
    /\ obj = [o \in Slots |-> Nothing]
    /\ call = Idle
    /\ log = [o \in Slots |-> Nothing]
    /\ moved = {}
    /\ pushes = 0 /\ calls = 0

\* A program that pushes a value of its own to a field.
PushTo(o, i) ==
    /\ pushes < MaxPushes
    /\ pushes' = pushes + 1
    /\ \E k \in Keys :
        LET e == IF IsMap(i) THEN <<k, pushes'>> ELSE pushes' IN
        /\ obj' = [obj EXCEPT ![o][i] = push_field(i, @, e)]
        /\ log' = [log EXCEPT ![o][i] = Append(@, e)]
    /\ UNCHANGED <<call, moved, calls>>

\* push_field on message::get, or on what operator[] returns: there is such a
\* field, or the program does not compile.
Push(o, prop, key) ==
    /\ call = Idle
    /\ With(prop, key) # {}
    /\ PushTo(o, Selector(prop, key))

\* dynamic_visit_by_name and dynamic_visit_by_number with a callback that
\* pushes to the field: reflect_map takes the first field of a key, and calls
\* get with its number or name.
dynamic_visit_by(o, prop, key) ==
    /\ call = Idle
    /\ \/ /\ With(prop, key) # {}
          /\ LET first == Least(With(prop, key))
             IN  PushTo(o, Selector(prop, Fields[first][prop]))
       \/ With(prop, key) = {} /\ UNCHANGED vars

Clear(o, i) ==
    /\ call = Idle
    /\ obj' = [obj EXCEPT ![o][i] = <<>>]
    /\ log' = [log EXCEPT ![o][i] = <<>>]
    /\ moved' = moved \ {<<o, i>>}
    /\ UNCHANGED <<call, pushes>>

\* What a move leaves of an element, and of a field: an optional keeps its
\* moved-from value, a container is empty.
Rest(i, v) == IF Fields[i].owns THEN Hollow ELSE v
RestOf(i, c) == IF Singular(i) THEN [x \in DOMAIN c |-> Rest(i, c[x])] ELSE <<>>

\* The copy or move of p's fields to o, by constructor or assignment.
Transfer(o, p, move) ==
    /\ obj' = [obj EXCEPT ![o] = obj[p],
                          ![p] = IF move THEN [i \in Index |-> RestOf(i, @[i])] ELSE @]
    /\ log' = [log EXCEPT ![o] = log[p],
                          ![p] = IF move THEN [i \in Index |-> IF Singular(i) THEN @[i] ELSE <<>>]
                                 ELSE @]
    /\ LET kept == moved \ ({o} \X Index)
           new == {<<o, i>> : i \in {j \in Index : <<p, j>> \in moved}}
           left == {<<p, i>> : i \in {j \in Index : Singular(j) /\ ~empty_field(obj[p][j])}}
       IN  moved' = kept \cup new \cup (IF move THEN left ELSE {})
    /\ UNCHANGED pushes

\* message::operator=, from another object if it is a move
CopyAssign(o, p) == call = Idle /\ o # p /\ Transfer(o, p, FALSE) /\ UNCHANGED call
MoveAssign(o, p) == call = Idle /\ o # p /\ Transfer(o, p, TRUE) /\ UNCHANGED call

----------------------------------------------------------------------------
(* Merging.                                                                *)

Modes == {"override", "assign_if_empty"}

\* The merge of `from` into `into`, for the call of a member or of a function.
Merging(into, from, mode, move, free, result, args) ==
    [op |-> "merge", into |-> into, from |-> from, mode |-> mode, move |-> move,
     field |-> 1, open |-> FALSE, todo |-> {}, live |-> TRUE,
     free |-> free, result |-> result, args |-> args]

\* o.merge(p), with p a std::move if move; o.merge(std::move(o)) is not written.
CallMerge(o, p, mode, move) ==
    /\ call = Idle
    /\ ~(move /\ o = p)
    /\ call' = Merging(o, p, mode, move, FALSE, o, <<>>)
    /\ UNCHANGED <<obj, log, moved, pushes>>

\* Slip: res is a reference to the first argument.
CallFreeMergeInPlace(o, args, mode) ==
    /\ call = Idle
    /\ call' = [Merging(args[1][1], args[1][1], mode, FALSE, TRUE, o, Tail(args))
                    EXCEPT !.field = Len(Fields) + 1]
    /\ UNCHANGED <<obj, log, moved, pushes>>

\* o = merge(args...): res is a copy of the first argument, or takes it.
CallFreeMerge(o, args, mode) ==
    /\ call = Idle
    /\ Transfer(Result, args[1][1], args[1][2])
    /\ call' = [Merging(Result, Result, mode, FALSE, TRUE, o, Tail(args))
                    EXCEPT !.field = Len(Fields) + 1]

InField == call.op = "merge" /\ call.field \in Index

\* Slip: an empty field overwrites.
OverwritesAlways(i) == call.mode = "override" \/ empty_field(obj[call.into][i])

\* merge_field: is a singular field assigned?
Overwrites(i) ==
    /\ ~empty_field(obj[call.from][i])
    /\ call.mode = "override" \/ empty_field(obj[call.into][i])

\* Slip: the other field is moved from, whatever the argument was.
ForwardedMoved(i) == RestOf(i, obj[call.from][i])

\* What std::forward leaves of the other field.
Forwarded(i) == IF call.move THEN RestOf(i, obj[call.from][i]) ELSE obj[call.from][i]

\* The merge is done with the field: what was pushed to it, and whether it
\* holds what is left of moved values.
Done(i) ==
    LET into == call.into  from == call.from
        keeps == Singular(i) /\ call.mode = "assign_if_empty" /\ ~empty_field(obj[into][i])
        taints == <<from, i>> \in moved /\ ~keeps
        gives == call.move /\ (Singular(i) => Overwrites(i))
    IN  /\ log' = [log EXCEPT ![into][i] = IF keeps THEN @ ELSE @ \o log[from][i]]
        /\ moved' = moved \cup (IF taints THEN {<<into, i>>} ELSE {})
                          \cup (IF gives THEN {<<from, i>>} ELSE {})
        /\ UNCHANGED pushes

\* merge_field of a singular field
MergeSingular ==
    /\ InField
    /\ LET i == call.field IN
       /\ Singular(i)
       /\ obj' = IF Overwrites(i)
                 THEN [obj EXCEPT ![call.from][i] = Forwarded(i), ![call.into][i] = obj[call.from][i]]
                 ELSE obj
       /\ Done(i)
    /\ call' = [call EXCEPT !.field = @ + 1]

\* merge_field of any other field takes an inserter at the end of the one
\* field, and the iterators of the other.
OpenField ==
    /\ InField /\ ~call.open
    /\ ~Singular(call.field)
    /\ call' = [call EXCEPT !.open = TRUE, !.live = TRUE,
                            !.todo = DOMAIN obj[call.from][call.field]]
    /\ UNCHANGED <<obj, log, moved, pushes>>

\* Slip: a map element is moved from though the map has its key.
GivesAlways(i, e) == call.move

\* Is the element moved from?
Gives(i, e) == call.move /\ Taken(i, obj[call.into][i], e)

\* std::copy and std::move insert one element.  A vector that grows may move
\* its elements, and the iterators into it are dead.
CopyElement ==
    /\ InField /\ call.open /\ call.live /\ call.todo # {}
    /\ LET i == call.field
           x == Least(call.todo)
           e == Element(i, obj[call.from][i], x)
           grows == Repeated(i) /\ call.into = call.from
       IN  /\ obj' = [obj EXCEPT
                  ![call.into][i] = push_field(i, @, e),
                  ![call.from][i] = IF Gives(i, e) THEN Put(@, x, Rest(i, @[x])) ELSE @]
           /\ \E live \in (IF grows THEN BOOLEAN ELSE {TRUE}) :
                  call' = [call EXCEPT !.todo = @ \ {x}, !.live = live]
    /\ UNCHANGED <<log, moved, pushes>>

\* The next element is read through a dead iterator: undefined.
Dangle ==
    /\ InField /\ call.open /\ ~call.live /\ call.todo # {}
    /\ call' = [call EXCEPT !.op = "undefined"]
    /\ UNCHANGED <<obj, log, moved, pushes>>

\* Nothing is said of a program after that.
Undefined == call.op = "undefined" /\ UNCHANGED vars

\* Slip: the field is not left when it had no elements.
CloseFieldFull ==
    /\ InField /\ call.open /\ call.todo = {}
    /\ Done(call.field)
    /\ call' = [call EXCEPT !.open = FALSE,
                            !.field = IF empty_field(obj[call.from][@]) THEN @ ELSE @ + 1]
    /\ UNCHANGED obj

CloseField ==
    /\ InField /\ call.open /\ call.todo = {}
    /\ Done(call.field)
    /\ call' = [call EXCEPT !.open = FALSE, !.field = @ + 1]
    /\ UNCHANGED obj

AfterFields == call.op = "merge" /\ call.field \notin Index

\* merge(): the next argument is merged into res.
NextArgument ==
    /\ AfterFields /\ call.args # <<>>
    /\ LET arg == Head(call.args) IN
       call' = Merging(call.into, arg[1], call.mode, arg[2], TRUE, call.result, Tail(call.args))
    /\ UNCHANGED <<obj, log, moved, pushes>>

\* The member returns; the function returns res, which is assigned.
Return ==
    /\ AfterFields /\ call.args = <<>>
    /\ IF call.free
       THEN /\ obj' = [obj EXCEPT ![call.result] = obj[call.into], ![Result] = Nothing]
            /\ log' = [log EXCEPT ![call.result] = log[call.into], ![Result] = Nothing]
            /\ moved' = {m \in moved : m[1] \notin {call.result, Result}}
                           \cup {<<call.result, i>> : i \in {j \in Index : <<call.into, j>> \in moved}}
       ELSE UNCHANGED <<obj, log, moved>>
    /\ call' = Idle
    /\ UNCHANGED pushes

MergeStep ==
    /\ \/ MergeSingular \/ OpenField \/ CopyElement \/ Dangle \/ CloseField
       \/ NextArgument \/ Return
    /\ UNCHANGED calls

----------------------------------------------------------------------------
Props == {"name", "number"}
KeysOf(prop) == {Fields[i][prop] : i \in Index}

Arguments == UNION {[1..n -> Objects \X BOOLEAN] : n \in 1..MaxArgs}

Next ==
    \/ \E o \in Objects, prop \in Props :
           \/ \E key \in KeysOf(prop) : Push(o, prop, key)
           \/ \E key \in RunKeys[prop] : dynamic_visit_by(o, prop, key)
    \/ /\ calls < MaxCalls /\ calls' = calls + 1
       /\ \E o \in Objects :
           \/ \E i \in Index : Clear(o, i)
           \/ \E p \in Objects : CopyAssign(o, p) \/ MoveAssign(o, p)
           \/ \E p \in Objects, mode \in Modes, move \in BOOLEAN : CallMerge(o, p, mode, move)
           \/ \E args \in Arguments, mode \in Modes : CallFreeMerge(o, args, mode)
    \/ MergeStep
    \/ Undefined

\* A merge that has begun runs on: it is sequential code.
Spec == Init /\ [][Next]_vars /\ WF_vars(MergeStep)

----------------------------------------------------------------------------
(* Properties.                                                             *)

Contents(i) ==
    CASE Singular(i) -> UNION {[1..n -> Values \cup {Hollow}] : n \in 0..1}
      [] Repeated(i) -> Seq(Values \cup {Hollow})
      [] IsMap(i) -> UNION {[K -> Values \cup {Hollow}] : K \in SUBSET Keys}

\* Every field holds what its type can hold, and res only lives in a call.
TypeOK ==
    /\ \A o \in Slots, i \in Index : obj[o][i] \in Contents(i)
    /\ call.op \in {"idle", "merge", "undefined"}
    /\ call = Idle => obj[Result] = Nothing

\* The fields an unfinished merge_field works on.
Busy == IF call # Idle /\ call.open THEN {<<call.into, call.field>>, <<call.from, call.field>>}
        ELSE {}

\* "Merge another message into this message, for all fields: overwrite if it is
\* singular and non-empty, merge to end otherwise": whatever calls made it, an
\* object holds what pushing, one by one, the values that were pushed to it and
\* to those merged into it would have made of an empty one; a moving merge
\* gives what a copying one gives.
IsReplay ==
    \A o \in Slots, i \in Index :
        <<o, i>> \notin moved \cup Busy => obj[o][i] = Pushed(i, log[o][i])

\* Only o.merge(o) can read through a dead iterator: the function merge() does
\* not, whichever of its arguments are one object.
OnlySelfMergeDangles ==
    call.op = "undefined" => ~call.free /\ call.into = call.from

\* A merge leaves an argument that is not a std::move as it was.
CopyKeepsSource ==
    [][call.op = "merge" /\ call'.op = "merge" /\ ~call.move /\ call.into # call.from
         => obj'[call.from] = obj[call.from]]_vars

\* A merge loses no element of a repeated or map field: one that is moved is
\* in the other object, and one the other did not take is still there.
HeldValues(i) == {obj[s[1]][i][s[2]] : s \in UNION {{o} \X DOMAIN obj[o][i] : o \in Slots}}
LosesNothing ==
    [][call.op = "merge" /\ call'.op = "merge" =>
         \A i \in Index : ~Singular(i) => HeldValues(i) \subseteq HeldValues(i)' \cup {Hollow}]_vars

\* Every merge comes to an end, or reads through a dead iterator.
Returns == call.op = "merge" ~> call.op # "merge"
=============================================================================
