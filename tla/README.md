# protopuf in TLA+

*protopuf* is a header-only C++20 library (`src/include/protopuf/`) that
describes Protocol Buffers messages as C++ types and encodes and decodes them.
This directory specifies it: TLA+ modules that model its coders, TLC
configurations that model-check them on small instances, and proofs that TLAPS
checks for all instances. `PROJECT.json` is the index: the components, the runs,
the findings, the hazards, the theorems, and for every definition the source
lines it stands for.

The library is sequential. It has no threads, no persistence, no messages in
flight and nothing that waits. What makes it hard is elsewhere: loops over
bytes whose bounds come from the bytes themselves, nested to any depth; two
modes of the same code, one of which checks nothing; lengths that are predicted
before the content is written; failures that must unwind through a loop that
cannot be left; inputs that end anywhere, lie about their lengths, or come from
a writer with another version of the message type; and objects that share
memory: a message merged with itself reads a container while it grows.

## Parts of the system

| Part | State it keeps | Operations | Correct when |
|---|---|---|---|
| coder contract (`coder.h`) | the span given to a call | `encode`, `decode` | the result is the rest of the span; a safe call may fail, an unsafe one cannot say so |
| coder modes (`coder_mode.h`, `byte.h`) | none | `check_iterator`, `check_bytes_span`, `get_value_from_result` | safe mode leaves no byte access outside the span, and is otherwise unsafe mode |
| varint coder (`varint.h`, `skip.h`) | `iter`, `n`, `i` of a running loop | `encode`, `decode`, `decode_skip`, `encode_skip` | they invert each other and agree on lengths; truncation is found |
| message, embedded message, array decoding (`message.h`, `array.h`) | the call stack: a span, an origin, a length and a half-built value per loop | `decode`, the `decode_map` and `skip_map` it consults | every well-formed message is decoded to what it says; any other input ends in a failure or a value, inside the span |
| message, embedded message, array encoding | the call stack, the span left, `result` | `encode` | it fits or fails; nothing is written after a failure |
| size prediction (`encode_skip`) | none | `encode_skip` of every skipper | it is the size `encode` uses, to the byte |
| skippers as called by a program (`skip.h`) | none | `decode_skip` | a walk over a message stays at the starts of its fields |
| fields (`field.h`, `map.h`) | `optional`, `vector` or `map` | `push_field`, `merge_field` | push order is merge order |
| message object (`message.h`) | one container per field; in `merge`, iterators into two of them | `get`, `[]`, copy, move, `merge`, `==`, `for_each`, `fold` | a merge is the replay of what was pushed, and loses nothing |
| fixed-length, float, bool coders (`int.h`, `float.h`, `bool.h`) | none | `encode`, `decode` | little-endian, and they invert each other |
| zigzag and enum coders (`zigzag.h`, `enum.h`) | the bits of a number | `sint_zigzag`, `from_uint`, `get`, `encode`, `decode` | a number survives the wire between types of any two widths |
| reflection (`reflection.h`) | a static map from name or number to visitor | `dynamic_visit_by` | the field with that name or number is visited, or none |
| `constant.h`, `fixed_string.h` | none (compile time) | literals | not modelled: nothing runs |

How they call each other: a message coder finds a field's coder by its key and
calls it on the rest of the span; array and embedded message coders call the
varint coder for their length and then loop over element or field coders on the
same span, so coders recurse along the nesting of the message type. Every call
gets the `Mode` of its caller. Encoders of nested values first call the skipper
of each value to predict a length. Decoded values are handed to `push_field`.
All results are "the rest of the span", so a position in one buffer is all that
calls share.

## Modules

    CoderContract            what coder.h promises of one call
    WireFormat               bytes and keys: arithmetic shared by all coders
      Varint                 varint_coder and its skipper
        MCVarint             instance: Varint.cfg, VarintLong.cfg
        VarintProofs         proofs
      Recursion              recursive functions exist: what every proof about one needs
      Schema                 message types and values, push_field
        WireGrammar          the wire format as a grammar
          WireGrammarProofs  lemmas on bytes, the grammar and merge, for all proofs
        Decoder              message_coder::decode with everything it calls
          DecoderModes       safe mode against unsafe mode
          WireReference      the decoder against the grammar
            MCDecoder        instance: Decoder.cfg, DecoderLength.cfg, DecoderMap.cfg
          DecoderProofs      proofs, of what is decoded too
        EncodeSkip           predicted sizes
          MCEncodeSkip       instance, for the runs of Encoder, Codec and SkipWalk
          Encoder            message_coder::encode with everything it calls
            EncoderReference the encoder against the grammar and merge
              MCEncoder      instance: Encoder.cfg
              Codec          a writer (Encoder) and readers (Decoder) of one buffer
                MCCodec      instance: Codec.cfg
              SkipWalk       skippers called by a program, over what a writer wrote
                MCSkipWalk   instance: SkipWalk.cfg, SkipEnum.cfg
              CodecProofs    proofs of Encoder, Codec and SkipWalk
        Merge                merge and merge_field of whole messages
    MessageObject            message objects: get, copy, move, merge, reflection
      MCMessageObject        instance: MessageObject.cfg
      MessageObjectProofs    proofs
    SignedNumbers            signed varints, enums, zigzag; runs as it is: SignedNumbers.cfg
      SignedNumbersProofs    proofs
    FixedCoders              fixed-length integers, floats and bools
      MCFixedCoders          instance: FixedCoders.cfg
      FixedCodersProofs      proofs
    MCSchema                 the message types of the runs

**WireFormat.** A byte is a number below `2 * Base`, whose top bit is `Base`; the
code has `Base = 128`. Runs use 4 or 32, so that keys, lengths and values of
several groups fit in short buffers. `Weight`, `NumberFrom` and `LastOfVarint` say
what the bytes of a whole varint mean. `Accumulate` is `n |= T(b & 0x7f) << 7*i`:
where the shift amount reaches the width of the promoted type, which is
undefined, it is any value the `|` can leave.

**Varint.** One action per loop turn: `EncodeGroup`, `DecodeGroup`, `SkipGroup`,
`SizeGroup`; `Fail` is `return {}` and `Overrun` the dereference of `end`. A
caller makes any calls in any order on prefixes of one buffer. `left` and `len`
are history: what the last encode still had to write before each group.

**Schema.** A coder is a record. Its `kind` is `varint` (`uint32`, `int64`,
`sint32`, enums, ...), `fixed` (fixed-length integers, floats, bools), `array`
(`array_coder`, strings) or `message` (embedded messages, map elements). Signed,
zigzag and enum coders convert to and from the unsigned varint of their width:
this module keeps the unsigned number, and `SignedNumbers` has the conversions.
A fixed-length value is named by its bytes, and `FixedCoders` has those. A message value
maps a field number to the sequence of values held. A map holds its elements in the order
of their keys, which `std::less` gives for the key type: the constant `KeyOrder` has that
order for each map of the schema, and nothing is assumed of it, so what is proved holds
for keys of every type. In the runs the keys are signed numbers.

**Decoder.** `stack` is the C++ call stack: a frame per running message or
array loop, with its `origin_b` and `len`. `rd` is what the innermost loop is
doing: reading a varint (key, length, value, or one to skip) byte by byte, or
about to take a number of bytes at once. One action per decision of the code:
the loop heads (`NextKey`, `NextElement`, `EndLoop`), the outcomes of a key
(`KeyStop` for number 0, `KeyKnown`, `KeyUnknown`, `KeyThrows`), the ends of
reads, `Fail`, `Overrun`, and the two ways to throw (`skip_map.at`, and
`reserve` for a `std::string`, the only container with a `reserve()` that takes
no argument, which is what the `requires` of `array.h:80` asks for). Loops run
on the whole rest of the span, as in the code: nothing clips it to a length.

**Encoder.** `todo` is what the running calls still have to do, innermost
first. `EncodeField` is the lambda of `for_each`; `Unwound` is what a failure
leaves: every call up to the nearest loop over fields returns `{}`, and that
loop goes on with `failed` set. A caller encodes up to `MaxCalls` messages, each
into the span the call before returned.

**EncodeSkip** has the sizes. The skippers call each other to the depth of the
message type, and that recursion is not over numbers: `ContentSkip`, the size of
an array or a message, is a constant operator, of which the modules that use it
assume that it solves the equations of the code (`ContentSize`, in which it occurs
again). Sums and varint sizes are recursive functions. A run gives `ContentSkip` the
definition by recursion (`MCEncodeSkip`), and TLC evaluates the assumption.

**WireGrammar** is the wire format as a grammar. It reads a window, the bytes
from `lo` to `hi`, for one coder, and says what items are there: a set that is empty
where the bytes are malformed. `Contents` is a recursive function on windows, each of
whose rules looks at shorter ones only. Strings are limited by `MaxReserve`, as the
code's `reserve` is; skipped varints may have any length. **WireReference** says with
it what a decoder is to read, **EncoderReference** what an encoder is to write and
which values are values of the C++ types: numbers that fit their word, fields that
hold what `push_field` can make of their values (`Holds`: one value in a singular
field, keys in order in a map), strings that memory can hold, and no field twice in a
message type nor one of number 0.

**Merge** is `merge(...)` of whole messages in its default mode: `Merged` of a
sequence of messages, field by field.

**Codec** is a writer and a reader. The writer is the `Encoder` that it extends: it
encodes up to `MaxCalls` messages, one after the other, into a zeroed buffer. The
reader is `Dec`, an `INSTANCE` of `Decoder`: with the writer's message type or another
version of it (`Readers`, for which `Decoder` has a set of `Roots`), it decodes any
prefix of what was written or the whole zero-padded buffer, as the example of the
repository's README does. What a version is, is said by three constants: `Versions`, the
pairs of coders of which a reader may have the second where the writer has the first;
`View(c, d, v)`, what the value `v` of `c` is to `d`; and `VersionsAssumption`, which
they satisfy: every coder is a version of itself, by which it sees all; of a message
one sees the fields that both types have a key for, and those have the same attribute
and versions of one coder; arrays are seen element by element. `View` is a constant
because the recursion over nested types is not over numbers; the run gives it the
definition by recursion (`MCView`), and TLC evaluates the assumption.

**SkipWalk** takes what the `Encoder` that it extends wrote (`Write`), one message after
the other, whole or cut, and lets a program walk over it with the library's skippers: it
reads a key, and skips the value by the field's own skipper (`SkipAsField`) or by the one
`skip_map` has for its wire type (`SkipAsUnknown`). A call of `decode_skip` is one step.

**MessageObject** has the objects of a program. `Push` is `get` or `operator[]` with
a number or name known at compile time and `push_field` on the result;
`dynamic_visit_by` is the same with one known at run time, which no field or
several fields may have. `CopyAssign` and `MoveAssign` stand for the constructors,
too. The member `merge` and the function `merge(...)` run field by field; a
repeated or map field is opened (`OpenField`: `std::inserter` at the end of one,
`begin()` and `end()` of the other), copied or moved one element per step
(`CopyElement`), and left. When an object is merged with itself the vector that
is read is the one that grows, and after any insertion the iterators may be dead;
reading on is `Dangle`. `log` is history: all values pushed to a field, where a
merge appends the log of the one field to that of the other, and `moved` names
the fields that hold what is left of moved values.

**SignedNumbers** has one object, whose type changes from call to call, and one
encoded number. An integer type is named by its half `h = 2^(8N-1)`. `cell` is the
object's bits; `Construct`, `from_uint`, `Encode` and `Decode` are the code's; and
`number` is what the object should be, by the documented meaning. `Decoded` is what the
loop of `varint_coder::decode` returns for a number that any type wrote: groups behind
the reader's type are cut off, but one behind the type that its shifts are done in
(`Promoted`, at least an `int`) makes the result undefined, and then it is any word the
low groups can become. So `Kept` does not promise everything: a plain negative number is
sent with the top bit of its writer's type, and is kept neither by a wider reader, nor
by one whose shifts are done in a narrower type than the writer's, such as an `int32`
that reads what an `int64` wrote.

**FixedCoders** has an array of bytes in which values are encoded and decoded at
any place, overlapping or not, by both conversions of `int.h`: `std::bit_cast` of
the bytes on a little-endian host, and the recursion over halves, with the
integral promotion of its operands and the set of outcomes of a shift by their
width. A byte is a number below `Base`, and `Weight[k]` is `1 << 8*k`. The templates
for 1, 2, 4 and 8 bytes are an operator each (`Bytes1` ... `Words8`), since no other
size exists; a conversion that shifts too far gives a set of words, any from the
lower half up.

**Slips.** Definitions whose comment begins with "Slip" are what a neighbouring
definition could wrongly be: a dropped check, a missing mask, a wrong bound.
They are used nowhere. `PROJECT.json` pairs each with the property that no
longer holds when it takes the definition's place, which is how we know that
the property says something about the code.

## Runs

| Run | Instance | What it shows |
|---|---|---|
| `varint` | `Base` 4, an 8-valued `T` shifted in 6 bits, 4 bytes, 4 values | see below |
| `varint_long` | the same with no wider type to shift in | **finding**: long varints |
| `decoder` | see *Bounds*; 234 000 states | see below |
| `decoder_length` | the same, fewer bytes | **finding**: declared lengths |
| `decoder_map` | the same, the long spans | **finding**: equal map keys |
| `encoder` | 216 messages, spans of 0 to 32 bytes; 250 000 states | see below |
| `codec` | one or two messages, every cut, a reader of the same type and one of another version; 324 000 states | see below |
| `message_object` | two objects and `merge`'s result, a singular, a repeated and a map field, of which two have one name; 618 000 states | see below |
| `skip_walk` | a message with one or two messages with a field of every coder but an enum, every cut; 112 570 states | see below |
| `skip_enum` | a message with an enum | **finding**: skipping an enum |
| `signed` | types with halves 2, 8 and 16, all their numbers, shifts of 4 bits where the type has no more; 5 400 states | see below |
| `fixed` | `Base` 4, integers of 1 and 2 bytes, ints of 2; 14 700 states | see below |

`varint` checks
- `RoundTrip`: what encode wrote is what decode reads, and the four operations
  agree on its length; `RoundTripInv` is the invariant behind it;
- `TruncationDetected`: a span fails exactly when it ends inside the encoding;
- `StopsAtTerminator`: on any bytes, `decode` and `decode_skip` end at the same place;
- `DecodesNumber`: foreign varints decode to their number, truncated to `T`;
- `NoOverrun`, `ImplementsContract` (as below).

`decoder` checks
- `NoOverrun`: a safe decode never uses a byte outside its span;
- `DecodesWellFormed`: whatever the grammar of `WireGrammar` calls well-formed
  is decoded to the value the grammar gives it, if it ends with the span or before
  a key of number 0. The grammar is written independently of the decoder: it parses
  by recursion, and every nested value inside the window of its length;
- `ElementsPaidFor`: no container is longer than the bytes it was read from;
- `SafeAgreesWithUnsafe`: a safe decode is a behaviour of the unsafe decoder
  in which "failed" is "undefined";
- `ImplementsContract`: a refinement of `CoderContract`, with its liveness: the
  call works from front to back, and returns. `Decoder` maps its state to the
  contract's by name, `Varint` and `Encoder` by an explicit mapping.

`encoder` checks `NoOverrun`, `ImplementsContract`, and
- `EncodeSkipExact`: a call succeeds exactly when the size predicted by
  `encode_skip` fits in the span, and then uses exactly that size;
- `SizesAddUp`: at every step, at any depth, the bytes written and the sizes of all
  that is still to be written add up to the prediction; after a failure, the span is
  shorter than that. A length that is cut to the width of its type breaks the sum,
  but then no span is long enough either;
- `FailureSticks`: after a failure nothing is written, by any field at any depth;
- `WrittenIsWellFormed`: the bytes a successful call wrote are in the grammar, and what
  the grammar reads in them is the message that was encoded.

`codec` checks
- `WrittenIsMerged`: what several calls wrote, one after the other, is one well-formed
  message, and it says what `merge` makes of theirs;
- `DecodesMerge`: a reader with the writer's message type, given all of that, decodes
  what `merge` makes of the messages, and stops behind them, whether or not zeros
  follow. For one message this is the round trip;
- `KeepsKnownFields`: a reader with another version of the message type gets the
  fields it knows of it, at every depth, and skips exactly over the others;
- `PrefixDecodes`: a cut between two fields gives exactly the fields before it,
  and a cut inside one is always detected.

`message_object` checks
- `IsReplay`: whatever pushes, clears, copies, moves and merges made an object, it
  holds what pushing one by one all the values that went into it would have made
  of an empty one. A moving merge gives what a copying one gives, and `merge(...)`
  what members would give in a row, also when an argument is given twice;
- `OnlySelfMergeDangles`: only `o.merge(o)` reads through dead iterators;
- `CopyKeepsSource`: a merge leaves an argument that is not moved as it was;
- `LosesNothing`: no step of a merge makes an element vanish: it is in the one
  object or still in the other;
- `Returns`: every merge ends, or reads through a dead iterator.

`skip_walk` checks `StaysOnFields`: between two fields the walk is where a field of
the written message begins, whichever skipper took it over each value, and it
fails exactly at a cut inside a field.

`signed` checks `NumberKept` (an object is the number it was given or was sent,
between types of any two widths, as far as `Kept` goes: not where a shift of the decoder is undefined) and `HoldsZigzagForm` (a zigzag
object holds the documented form of its number; the least number, whose left shift
loses its top bit, is among them).

`fixed` checks `LittleEndian` (an encoded value lies in its bytes lowest first,
whichever conversion wrote it) and `ReadsBack` (either conversion decodes it again
while no other encode has touched its bytes).

### Bounds, and why they are enough

- *Varint*: 4 bytes hold every encoding of `T` (1 or 2 groups), spans that cut
  it, and foreign varints of up to 4 groups. `InputBytes` has a byte with the
  top bit clear and two with it set. Calls are not counted: any sequence is
  reached.
- *Decoder*: the message type has a singular varint, a 2-byte fixed field, an
  embedded message with a repeated field, a string and a map, and one key of two
  bytes. Spans are every sequence of up to 4 of 9 bytes (all keys, short
  lengths, number 0, an unknown field number, a byte with the top bit set), plus
  the longer ones of `LongSpans` for what needs more: two map elements, one of them with
  a negative key, two embedded messages, unknown fields of every wire type between them, embedded
  messages that end before, at and behind their declared length. Varints longer
  than their type occur. `MaxReserve = 20` is the limit of `reserve`.
- *Encoder*: every combination of empty and non-empty fields, with values of one
  and two groups and nested values of different sizes, in spans of 0 to 32 bytes;
  the largest message fits and every smaller span fails somewhere else. One call
  each (`MaxCalls = 1`): the proofs are for any number, and `codec` has two.
- *Codec*: 48 bytes hold any two messages of the run with zeros behind them;
  `MaxCalls = 2` because merging is pairwise. The 14 messages have every field present
  and absent, and two maps with an equal key. In the other version of the type two
  fields are gone, one is new, one has become a number, an embedded message has lost
  its only field, and the order is another. What other values, more messages, other
  nestings and other versions do is proved, for a reader that is given everything.
- *MessageObject*: `MaxPushes = 2` values with distinct names, `MaxCalls = 2` calls
  besides pushes, `MaxArgs = 2`. Two values suffice for a field that has an element
  while another is inserted, and two calls for a merge of something merged, moved or
  cleared. What longer sequences do is proved.
- *SkipWalk*: 48 bytes hold any two messages of the run; repeated, string, map, embedded
  and fixed-length fields are each present and absent.
- *SignedNumbers*: every number of each type, every pair of widths. Halves of 2, 8
  and 16 stand for 2^7 to 2^63, and an `int` (`IntWord`) has the width of the middle
  one: the first is promoted, and what the last writes of a negative number has a group
  that the other two cannot shift in place. The proof is for all widths.
- *FixedCoders*: `Base` is 4, so all values of 2-byte types can be listed, and
  an `int` of 2 bytes, so both operands of the recursion are promoted.

### Fairness and deadlock

The only fairness is `WF` of the steps of a call that is running (`MergeStep` in
`MessageObject`): the code is sequential and never waits, so a call that can take a
step takes it. Nothing is assumed of callers. `CHECK_DEADLOCK FALSE` is set in
the runs of `Varint`, `Decoder`, `Encoder`, `Codec` and `SkipWalk`, because those models
come to a legitimate end: after a return, an exception, an undefined access, or
`MaxCalls` calls. The others are checked for deadlock: a program can always make
another call.

### Findings

1. **Long varints** (`varint.h:78`, `VarintLong.cfg`). The shift `7*i` has no
   bound. A varint with more groups than its type shifts by the width of the
   promoted type or more, which is undefined. Other implementations write every
   negative `int32` in ten bytes; the ten bytes of -128 decode to -8 as an `int32`
   with g++ on x86-64.
2. **Declared lengths** (`message.h:493`, `array.h:86`, `DecoderLength.cfg`). The
   loop of an embedded message or array compares the bytes used with the declared
   length only between two fields, on a span that is not clipped. Its last field
   may be read beyond the length, from the bytes of the enclosing message, and a
   key of number 0 ends it early; its skipper always takes exactly the length. In
   either mode this stays inside the span (`NoOverrun`) and cannot happen with
   well-formed input (`DecodesWellFormed`).
3. **Equal map keys** (`field.h:289`, `DecoderMap.cfg`). `push_field` inserts
   through `std::inserter`; a `std::map` keeps its first value for a key, while
   the comment on `push_field` says "insert to end" and the protocol lets the last
   one win.
4. **Skipping an enum** (`skip.h:206`, `SkipEnum.cfg`). `decode_skip` of an `enum_coder`
   takes `sizeof(underlying_type)` bytes, while the enum was written as a varint of
   as many bytes as its number needs, and `encode_skip` (`skip.h:201`) counts those.
   Decoding a message does not run into it (an unknown field is skipped by its wire
   type), but a program that calls `skipper<enum_coder<T>>` itself does.

Further behaviour the model follows and a reader may not expect: wire types 3, 4,
6 and 7 of an unknown field throw `std::out_of_range` even in safe mode
(`message.h:358`), and a huge string length throws from `reserve` (`array.h:81`); both
are outcomes of `Decoder`, and no property excludes them but that a well-formed message
does not throw (`DecodesWellFormed`). A
packed encoding of an unpacked repeated field is skipped as an unknown field,
because the decode map is keyed by number and wire type. A plain negative `int32` or
enum is written in five bytes, as its 32-bit two's complement (`varint.h:97`), so
an `int64` reader gets 2^32 more than was sent (`varint.h:100`); other implementations
write ten bytes. An `int64` is written in ten bytes by this library, too, so an `int32`,
`int16` or `int8` reader of a negative one meets finding 1. A bool is read as one byte under wire type 0 (`bool.h:37`), so one
that another writer padded is not read whole. The recursive `bytes_to_int` of eight
bytes shifts a 32-bit operand by 32 (`int.h:139`, undefined; only without
`std::bit_cast`). A merge that moves leaves a moved-from value in a singular field,
not an empty one, and in a map field the elements whose keys were taken.

## Proofs

TLAPS checks these for every value of the constants: every `Base > 1`, width,
schema, buffer and nesting, under the named assumptions of the modules
(`BaseAssumption`, `VarintAssumption`, `SchemaAssumption`, `DecoderAssumption`,
`EncoderAssumption`, `ValuesAssumption`, `VersionsAssumption`, `SkipAssumption`, `HalvesAssumption`,
`GroupsAssumption`, `FixedAssumption`, `ObjectAssumption`), which TLC evaluates in the
runs.

**Varint** (`VarintProofs`). `TypeCorrect` is inductive by itself. The round trip
is not: that decode returns what was encoded says nothing about the middle of a
loop. `RoundTripInv` adds it. `left[k]` is the part of the value still unwritten
before group `k`, and

    n + scale * left[i] = left[0]

holds before every turn of a decode that goes through an encoding: what has been
put together and what is still to be read always sum to the value. From
`left[k+1] = left[k] \div Base` and `DivMod` it follows that a turn keeps the sum,
that `scale` is below the width (so on its own encodings decode never reaches
the undefined shift) and that `n + ...` is below `Word`, so that `%` loses nothing
(`MoveGroup`). `RoundTripCorrect` and `TruncationIsDetected` are its consequences.
`EndsAtTerminator` (arbitrary bytes), `SafeModeIsSafe` and `KeepsContract` follow
from `TypeCorrect`. `DecodesTheNumber` (`DecodesNumber`) is about bytes of any origin:
`NumberInv` says that the groups read so far make the number of `NumberFrom`, and its
step is that a remainder may be taken before or after a group is added (`ModSum`).

**Recursive functions** (`Recursion`). In TLA+ a recursive function is a `CHOOSE` of a
function that satisfies its equation, and says nothing if there is none. For each such
definition (`Total`, `VarintSkip`, `Weight`, `NumberFrom`, `Filled`,
`Contents`, `Inserted`, `Merged`) a proof takes an
instance of the module `Recursion`, whose `Step` is the right-hand side of the equation, and shows
that `Step` looks at places of lower rank only; `RecursiveFunction` gives the function, and from
there on only the equation is used. An induction is then an argument about the least
counterexample (`LowestRank`, `SmallestNat`), because the theorems on induction of the library
cannot be instantiated by these provers.

**Decoder** (`DecoderProofs`). `TypeOK` is inductive because it has two parts
that look like more than types: `FrameOK`, every loop began at or before `pos`,
and `CalleeOK`, what is being read fits the coder it is read for. With them each
action keeps `pos` and the read position in the span. `SafeDecodeIsSafe` needs
nothing else: in safe mode the check of each access implies its bound.
`KeepsContract` adds that no step moves `pos` back. `SafeImplementsUnsafe` takes
each safe step to an unsafe one: the checks are exactly the bounds
(`ChecksAreExact`), and nothing else looks at the mode. `ElementsArePaidFor`
(`ElementsPaidFor`) needs more than `TypeOK`: an element is counted only when its
decode ends, so while an embedded message or a string is being read its container
looks one element too short. `Paid` says that an array that waits for such an element
has strictly fewer elements than bytes (the length of the element has paid for it), and
that a varint that is read, or a value about to be taken, has at least one byte.

**Encoder** (`CodecProofs`). The invariant `Inv` is `TypeOK`, `NoOverrun` and
`FailedInv`: after a failure the next thing to do is always a loop over fields,
or to return. `UnwoundType` shows that unwinding leaves such a `todo`, and
`NothingAfterFailure` (`FailureSticks`) follows. For these only that `ContentSkip` is a
number is used: safety does not rest on the predicted sizes.

`PredictedSizesAreExact` (`EncodeSkipExact`) speaks of the end of a call and is not
inductive. `SizeInv` is: it adds `SizesAddUp`, so each action must take off `todo` the
size of what it writes, or replace an entry by entries of the same size. The first is
`VarintSkip(n) = 1 + VarintSkip(n \div Base)`, the second the equations of the skippers and
that sums split (`TotalConcat`, `TotalCons`). A length is written modulo 2^64, which
is why `EncoderAssumption` has `Capacity < LenWord`: a span is counted by a `size_t`. A
prediction of `LenWord` or more is allowed, and shown to fail in any span.

**What is written is well-formed** (`CodecProofs`). `WrittenSaysTheMessage`
(`WrittenIsWellFormed`) is its counterpart: for every schema, nesting, value and number
of calls, the grammar finds in the bytes that were written the message that was to be
written. It speaks of complete messages, and while the encoder runs most of the bytes
are missing. The invariant `SaysSoFar` quantifies over them: for *every* span `b` that
begins with the bytes written so far, if the bytes of `b` that follow, cut into pieces
of the predicted sizes, each say what the waiting call is to say (`Spells`), then the
whole of `b` says the message. What it is to "say" something depends on the call
(`Says`): a varint, its groups; a value, that the grammar finds it in any window that
has its bytes; a loop over fields that is at the k-th, that its window completes the
message whose fields before the k-th are filled. It says it to every reader that may
be there: `VersionsOf` the writer's coder have their own `View` of the value, and the
grammar is that of the reader's coder. At the start there is one call, to
say the message, and at the end there is none left. Each step between replaces a call:
- `QuietSays`: a step that writes nothing replaces a call by calls which, if they are
  said, say it: a key and a value are an item of a reader that knows the field, and
  passed over by another (`PairFirst`; `FieldSaid`, by induction over the
  values of the field; `FieldFills` is why pushing them in turn fills it), a length
  and a content are a value (`ArraySaid`, `MessageSaid`);
- `WriteSays`: a step that writes leaves fewer spans to speak of, and what it wrote is
  what its call was to say (`GroupsFirst`, byte by byte; `GroupsFound` takes the groups
  to the number the grammar reads).

It uses `SizeInv`, for a length is only the length of its content if the predicted
sizes are those that are written; a length of `LenWord` or more, which is cut, never
comes to be written in full.

**Several messages are their merge** (`CodecProofs`). `WrittenSaysTheMessages`
(`WrittenIsMerged`) is about all calls together. The invariant `WrittenInv` adds what the
calls before this one wrote: in every span that has those bytes, the grammar finds items
that make their merge (`EarlierSaid`), and nothing touches those bytes any more
(`Untouched`). That the items of the next message, after those, make the merge with that
message is a lemma about `push_field` and `merge_field` (`WireGrammarProofs`, *Merging*):
pushing the values of a message into any other is merging the two, by field, because
for one field `MergeField` of the values but the last, and one push, is `MergeField` of
all. `Holds` is what makes that so: a map whose elements are in the order of their keys is
what inserting them makes.

**Well-formed messages are decoded** (`DecoderProofs`). `WellFormedIsDecoded`
(`DecodesWellFormed`) is the central result on reading: the grammar reads every
nested value inside the window of its length, the decoder reads them all on the
rest of the span with a stack of loops, and on well-formed bytes they agree. It holds
for every schema, nesting, input and width. First, `ContentsAt` (`WireGrammarProofs`): the rules of the
grammar have a solution, because every rule looks at windows that begin later or end
earlier (`FieldsAgree` and the lemmas before it). Then two invariants:
- `ReadInv` (`ReadsWhatIsThere`) is about the varint being read: the groups so far
  continue, and their number is that of `NumberFrom`. So a read that is done has found
  what the grammar finds there (`WasRead`, `WasLast`), and a read that runs off the span,
  or fails, was at a place where the grammar finds nothing;
- `OnTrack(res)`, where `res[d]` is the value loop `d` of the stack is going to return.
  The innermost loop still finds in its window items that make `res[depth]` of what it
  has (`ToCome`, by what is being read); every other loop `Waits` for the result of the
  loop above it, and with that and the items behind it will have made its own;
  all windows end within the span. `res` is existentially quantified: a loop that
  is entered adds one (`EnterLoopTrack`), a loop that ends takes one off (`EndLoopTrack`),
  every other action keeps them. `res[1]` is the message.

The end of the message, `res[0]`, is anywhere the span ends or a key of number 0 begins
(`Ends`): `KeyStopTrack` is the action that stops there, and the windows of all loops end
at it.

There is one lemma per action: those that deliver, skip or enter show that the
grammar had the same thing next, those that fail, throw or stop early (`Fail`, `Overrun`,
`KeyThrows`, `ReserveThrows`, `KeyStop` anywhere else) that it had nothing (`NeverFails`). `TypeOK` and `Paid`
(`ContainersArePaidFor`) give that values are sequences, one per loop.

**Decoding inverts encoding** (`CodecProofs`). `DecodesWhatWasWritten` (`DecodesMerge`) is
where the two meet: for every message type, nesting, values, byte and word width, and for
any number of messages. The steps of `Codec`'s writer are steps of `Encoder`
(`WriterIsEncoder`), so its theorems hold here as they stand. `DecoderProofs` is
taken as an instance on the reader's variables, and `ReaderInductive` keeps the decoder's
invariant, of a call that runs or has run: what is new is its beginning (`CallStarts`),
and that a step of `Codec` leaves the bytes alone. Then (`MessageIsThere`) what was written
is in the grammar with whatever room follows it, so also in the bytes the reader was
given: if it was given more, what follows is zero, and the key there is of number 0
(`ZeroKey`), one of the `Ends`. `DecodesWellFormed` does the rest.
`ValuesAssumption` says of message types that no field has number 0: the code does not
reject one (`field.h:105`), and it would be taken for the end.

**Versions of a message type understand each other** (`CodecProofs`).
`VersionsUnderstandEachOther` (`KeepsKnownFields`) is the same for a reader that has
another version of the type, at any depth; the round trip is the case in which it has
the writer's. The invariant of the writer speaks of all readers at once, so what is new is
in the steps that make items. A field is written as its values, each behind its key; to
a reader each is pushed or passed over (`Takes`), and either way the message that it has
by then goes from what it sees of the fields before this one to what it sees with it
(`Mixes`, `FieldTaken`), whatever the order of its own fields. An
unknown value is passed over because its wire type, which `ValuesAssumption` has as
`wire_type` of `field.h` gives it (`HasWire`), says how long it is. Of several messages
(`Seen`) a reader has what merge makes of what it sees of each (`Got`, `GotMore`).

**Skipping over what was written** (`CodecProofs`). `WalkStaysOnFields` (`StaysOnFields`)
is about a program that decodes nothing: for every message type, nesting and values, any
number of messages, and whichever skipper takes it over each value. What the encoder
writes also has a layout: cut into pieces of the predicted sizes, the keys and values
of the messages (`PiecesOfAll`) each say what they are (`LaysOut`, which `WrittenInv`
keeps beside the merge). The steps of a walk leave those bytes alone, and `WalkInv` says
that the walk is where a pair of pieces begins (`Met`), or behind its key, and where it
ended. A step of it (`WalkStep`) finds a key (`KeyWire`: its lower three bits
are the wire type of its field) and then a value, which every skipper leaves at the same
place, the end of the piece, if the program has its bytes (`ValueSkipped`). Since
the places of the pieces increase (`Increasing`), a cut is between two pairs just if no
skipper and no key meets it. The hypothesis `NoEnumField` excludes what `SkipEnum.cfg`
shows: the message has no enum as a field (one that it embeds may, because its skipper
does not look inside). That a key says how its value is skipped is `HasWire` again.

**Signed numbers** (`SignedNumbersProofs`). The invariant `IInv` is that `cell`, and
the bits that were sent, are the `Form` of their number in its width. That
`from_sint` and `to_sint` are inverse on every number and every word is `FromSint`,
`ToSint` and `ToSintOnto`; that a form cut to another width is the form in that width
is `CutForm`, from the remainder of a number with a known quotient (`Remainder`). What
the decoder returns is that cut only where its shifts are defined (`DecodedIs`), and a
number that `Kept` promises has no group for which they are not (`KeptIsShort`): its form
is below the range of the type that they are done in. `NumbersAreKept` and
`ZigzagFormIsHeld` follow. `HalvesAssumption` is that the larger of two widths is a
multiple of the smaller, `GroupsAssumption` that `Groups` bounds the length of a varint.

**Fixed-length coders** (`FixedCodersProofs`). The invariant `IInv` is `TypeOK`,
`LittleEndian`, and that what is watched is a value of its type that lies in the array.
That the recursion writes what `std::bit_cast` does (`BytesAre`) and
reads it back (`WordsAre`) is shown once for the step from a size to its double, and
`EverySize` takes it from 1 byte to 8: the digits of a word are those of its lower part
and then those of its upper part (`RepresentationParts`), and two halves share no
digit, so that `|` is their sum (`Parts`). `RepresentationOnto` says that any bytes are
the representation of just one word, so the `CHOOSE` of `Represented` is that word.
`EncodedIsReadBack` (`ReadsBack`) has a hypothesis: the recursion is used only for
integers whose upper half may be shifted by its width in an `int` (`int.h:139`). With an
`int` of 4 bytes that is every size but 8; for 8 the model has all outcomes of the
shift, and the property does not hold. A build that has `std::bit_cast` never uses the
recursion.

**Message objects** (`MessageObjectProofs`). `IsReplay` says nothing of a field that is
being merged, so it is not inductive. `IInv` adds `StateTyped`; `InCall`, who takes
part in a call (a move is never from the object itself, iterators die only if the two
are one object); and `HalfWay`: the elements still to be read are as they were
pushed, and what the other field holds is so far a part of what pushing both logs
makes. A map needs this most, since it keeps the first of equal keys: `OneMore` shows
that inserting the next key keeps `HalfWay`, and `AtLast` that with none left it is
`Pushed` of the two logs together. `ReplayCorrect`, `OnlySelfMerge`, `SourceIsKept` and
`NothingIsLost` state the run's four properties, for any number of objects, fields,
calls and pushes.

**Only model-checked.** The liveness part of `ImplementsContract` (liveness and
`ENABLED` are out of the prover's reach), so `KeepsContract` states its initial
condition and steps; and `Returns`, for the same reason. `PrefixDecodes` is about a
reader that is given a part of what was written, and the theorems on reading speak of
well-formed bytes only. The
invariants `SaysSoFar` and `EarlierSaid` are proved but not checked on a run: they
quantify over all spans.

## Not modelled, and the plan

Not modelled:
- `constant.h` and `fixed_string.h` (compile time), build files, benchmark, tests;
- `fold` and comparison of messages, which only read, and `for_each` other than in
  the encoder and its skipper;
- containers other than `optional`, `vector`, `string` and `std::map`: multimaps keep
  equal keys, and an unordered map that is merged with itself may rehash;
- exceptions other than the two named (allocation failure);
- `o.merge(std::move(o))` and an assignment of an object to itself by move, whose
  outcome is that of the standard library's containers;
- the conversion of a narrower `sint_zigzag` to a wider one: its constructor and its
  assignment read a private member of another type and do not compile;
- `INT_CONVERSION_UB_IMPL` of `int.h`, which on a little-endian host does what
  `std::bit_cast` does;
- two fields of one number, and numbers of 2^29 or more (their top bits are lost in
  the key, `field.h:108`): the field numbers are template arguments, and no input
  changes them.

Done in this order: contract, wire format, varint with proofs; schema, decoder,
its two modes, the grammar, proofs; encoder, sizes, proofs; merge and the
composition of writer and readers; skippers, signed numbers and fixed-length coders;
message objects and reflection; proofs of the last three and of `ElementsPaidFor`;
proofs of the predicted sizes, of the number of a varint, of `DecodesWellFormed` and of
`WrittenIsWellFormed`; then of `WrittenIsMerged` and `DecodesMerge`; proofs of the
fixed-length coders, of `StaysOnFields`, and of `KeepsKnownFields`.

Left to prove: `PrefixDecodes` (the layout of `WalkStaysOnFields`, with what the decoder
does at a cut).
