# TLA+ models of fmtspec

fmtspec describes binary formats declaratively and encodes, decodes and inspects values with them. It is
single-threaded and persists nothing; what makes it hard is that one recursion through a format tree shares a
mutable `Context`, exceptions are caught half way up, streams transfer less than they are asked for, and
values refer to siblings, to other positions and to themselves. Paths below are relative to
`src/src/fmtspec/` unless they begin with `README.md` or `docs/`.

## 1. The system

| Component | State | Operations | Interacts with |
|---|---|---|---|
| Stream helpers (`stream/_impl.py`) | position of the stream | `read_exactly`, `write_all`, `peek`, `seek_to` | raw streams that may transfer less; called by every type |
| Traversal (`_stream.py`) | the Python call stack | `_decode_stream`, `_encode_stream` | calls `Type.decode/encode`, which call back |
| Context (`_protocol.py`) | `parents`, `path`, `fmt`, `store`, `inspect_node`, `inspect_children` | `push`, `pop`, `push_path`, `pop_path`, `inspect_scope`, `inspect_leaf` | written by the traversal and by types, read by `Ref` and by the errors |
| Entry points (`_core.py`) | wrappers for streams that cannot seek | `decode`, `decode_stream`, `encode`, `encode_stream`, conversion hooks | builds the Context, turns exceptions into `DecodeError`/`EncodeError` |
| Sizes (`_utils.py`) | none | `sizeof`, `derive_fmt`, `_group_bitfields` | `size` attributes of types; used by Array and the greedy check |
| Scalars (`types/_int, _float, _bytes, _str, _literal, _takeuntil`) | none | `decode`, `encode` | stream helpers |
| Framing and dispatch (`types/_sized, _switch, _optional, _lazy, _pointer, _ref`) | inner `BytesIO` streams, saved positions | `decode`, `encode`, `resolve` | the traversal, through `decode_stream` |
| Arrays (`types/_array.py`) | element counter | counted, greedy and numeric fast paths | the traversal, `sizeof`, `Ref` |
| Bit fields (`types/_bitfield.py`) | layout computed at construction | `decode`, `encode` | grouped by the traversal |
| Inspection (`_inspect.py`, `_normalize_inspect_tree`) | tree of `InspectNode` | `decode_inspect`, `encode_inspect`, `format_tree` | built during a traversal, normalised after it |
| ASN.1, MessagePack (`lib/`) | read-ahead buffer (MessagePack) | tag-length-value coding | stream helpers |

What is hard in it: exceptions swallowed by greedy arrays and by `Optional` while the decodes in between do
not clean up; state read long after it was set (`Context.fmt`, siblings of `Ref`); short reads and writes;
streams that cannot seek; recursion through `Lazy` and `Pointer`; loops that end only when something fails;
boundaries of sizes (zero, greedy, dynamic). `PROJECT.json` lists each hazard at its line.

What makes the parts correct:

- stream helpers: all bytes or `EOFError`, in order, none twice; the position afterwards; termination;
- traversal and Context: what a decode pushes it pops, `Ref` sees the mapping being decoded, nothing of an
  outer decode is ever popped by an inner one;
- errors: path, format, root and local partial result are those of the decode that raised;
- framing: a frame of a fixed size moves its stream by that size whatever is inside;
- inspection: the children of a node are its fields, in order, tiling its bytes;
- encoding: what is written is read back as the object given, frames are written whole or not at all, a size
  promised is the size written;
- ASN.1, MessagePack: encoding and decoding invert each other on both sides of every boundary between two
  representations, fast and slow paths agree, a failed fast path leaves no trace;
- every call ends.

## 2. Modules

| Module | What it models |
|---|---|
| `StreamCall` | the promise of one helper call: atomic, everything or `EOFError` |
| `StreamIO` | the helpers over a raw stream, one action per raw call; implements `StreamCall` |
| `Formats` | a format graph as data, its sizes (`sizeof` and `size`), paths |
| `CallStack` | frames, paths and scopes, which `Decode` and `Encode` share |
| `Decode` | one call of `decode`, `decode_stream` or `decode_inspect` through any format graph |
| `Values` | the objects an encoder takes |
| `Reader` | what a decoder makes of bytes, as a function: the reference for `Encode` |
| `Encode` | one call of `encode`, `encode_stream` or `encode_inspect` through any format graph |
| `EncodeReads` | `Encode` with the properties that compare it with `Reader` and `InspectTree` |
| `InspectNodes` | the nodes of inspection trees |
| `InspectTree` | `_normalize_inspect_tree` over these nodes |
| `Bitfields` | the layout of bit fields in integers, from a mapping or direct, and their encoding and decoding |
| `Octets` | bytes as numbers and texts |
| `MsgPackHeads` | the head MessagePack writes for an integer or a length, and what it says, for words of any size |
| `MsgPackWords` | one number: its head, and what is decoded from it |
| `MsgPack` | one call of `MsgPack.decode`: the fast path over msgspec and the slow path |
| `MsgPackCodec` | one call of `MsgPack.encode`, and `MsgPack` on what it wrote |
| `MsgPackReads` | `MsgPackCodec` with msgspec and the properties that compare values and trees by recursive functions |
| `Asn1` | `ASN1.encode` of a node and `ASN1.decode` of what it wrote, or of other bytes |
| `Asn1Reads` | `Asn1` with the properties that compare nodes and trees by recursive functions |
| `StreamIO_proofs`, `Decode_proofs`, `Encode_proofs`, `Bitfields_proofs`, `MsgPackWords_proofs`, `MsgPackCodec_proofs`, `Asn1_proofs` | theorems |
| `CallStack_proofs` | the lemmas on sequences, ranks and least numbers that the proofs about the traversals share |
| `MCStreamIO`, `MCDecode`, `MCEncode`, `MCBitfields`, `MCMsgPackWords`, `MCMsgPack`, `MCAsn1` | instances for TLC |

`Decode` and `Encode` extend `CallStack`, which extends `Formats`; `EncodeReads` joins `Encode` to its references,
`Reader` and `InspectTree`, which are recursive and out of the provers' reach, so that `Encode` itself is not;
`Asn1Reads` does the same for `Asn1`, whose constant `Normalize` stands for `_normalize_inspect_tree`, and
`MsgPackReads` for `MsgPackCodec`, where the constants `Holds`, `Unpacks`, `Takes` and `Packs` stand for msgspec;
`MsgPackCodec` extends `MsgPack` and takes its heads from
an instance of `MsgPackHeads`; `StreamIO` implements `StreamCall` by a refinement mapping.

Definitions introduced by "Wrong version" comments, or by one that begins with "wrong", are not part of a
specification: each is a plausible bug that makes one property fail, kept to show that the property can.

### StreamIO

`kind` is the stream (`BytesIO`, a raw file with `readinto`, or one with only `read`). `CallRead`,
`CallSeekTo` and `CallWrite` begin a helper call; `ReadAtOnce` is the `BytesIO` path of `read_exactly`;
`ReadChunk`/`WriteChunk` are one raw call that transfers between one byte and all that is left, so every way
a stream may cut a transfer up is explored; `ReadNothing`/`WriteNothing` are a raw call that returns 0, `b""`
or `None`; `ReadDone`/`WriteDone` are the return. A call of `seek_to` has one `read_exactly` as its body. A
`BytesIO` write takes the same action as a raw one with all of the payload at once.

### Decode

A frame is one `_decode_stream` together with the `decode` method it calls; the variable `frames` is the call
stack and `ctl` says whether the top frame runs, has a value to return (`leave`), was returned to (`resume`)
or is reached by an exception (`raise`). `parents`, `path`, `curFmt` and `kidsOf` are the fields of `Context`;
`dicts` holds every mapping created, so that `parents` can name them; `streams` holds the outer stream and the
`BytesIO` of every open `Sized` and `Switch`; `nodes` is the inspection tree. One action is one stretch of a
method between two calls: `MapEnter` (push), `MapField` (greedy check, `push_path`, call), `MapStore` (assign,
`pop_path`), `MapExit` (pop); `TupleItem`, `ArrayItem`, `ItemStore`, `ItemsExit` for lists and element loops;
`ArrayCount` and `ArrayGreedy` choose between the numeric fast path, the counted and the greedy loop;
`GreedyCatch` and `OptionalCatch` are the two `except` clauses; `SizedOpen`/`SizedClose`, `SwitchOpen`,
`WrapOpen`/`WrapClose`, `PointerOffset`/`PointerJump`/`PointerBack` are the wrappers. `Unwind` is an
exception that leaves a frame: it restores nothing, except the position that `seek_to` saved, because the code
has no other `finally`. `Finish` and `Report` are the entry points' handling of the result, of excess bytes
and of an error, with the stitching of the partial mappings.

Values are abstracted to what a `Ref` can tell apart: an integer, a mapping, or the length of bytes and lists.
Reads inside `Decode` take what is there, as `StreamIO` shows they may. `parents0`, `path0`, `pos0` and
`origin` are history variables. A stack that would exceed `MaxDepth` frames raises a `RecursionError` at the
call; the code raises it at some call near there.

### Bitfields

A behaviour takes one format through grouping, construction, encoding and decoding. An integer is the set of
its one-bits, so shifting, masking and `|` are set operations, and a value of any width is as cheap as its
ones. `entry` says whether the format is a mapping, whose runs of `Bitfield` entries `_group_bitfields` turns
into `Bitfields` of their own (`StartGroup`, `SkipOther`, `GroupsDone`), or a `Bitfields` with a declared size.
`SizeExplicit`, `SizeGroup`, `SizeContinue`, `SizeGroupEnd` and `SizeDone` are the constructor's first walk,
one action per loop body, with its locals `running`, `maxBits`, `forced` (`forced_bits`) and `groupBits`; it is
skipped for a declared size. `PlaceField` and `PlaceDone` are the second walk, which assigns `offsets` and
checks `nbits`. `home` names for each field the integer it is in. `EncodeField`, `EncodeOther`, `EncodeDone`
and `Decode` encode values, of which some are missing, negative or too wide, and decode the integers. Every
`ValueError` is an action that ends in `refused`, with its reason; what `Bitfield` itself refuses is the
assumption `BitfieldAssumption`. How the bytes of an integer are written is left to `Int`.

### Encode

The same call stack as in `Decode`, with the caller's object instead of a value to build. `MapEnter` is
`prefill` for every field, then `push`; `MapField` finds the value of a field (from the object, its constant,
or the whole object for an inline one), does `push_path` and calls; `MapExit` pops. `ArrayEnter` is the checks
before the first item, in their order, and the fast path, which writes the flattened numbers at once;
`ArrayItem`, `TupleItem` and `ItemBack` are the loops. `SizedOpen` calls into a `BytesIO` (a new member of
`streams`), `SizedClose` writes length, value and padding, or refuses; the padding is the whole `fill`, of any
number of bytes, once for each missing byte (`Repeated`), as the code has it. `UnionOpen` and `UnionBranch` choose
and write the tag of a `TaggedUnion`; `PointerOpen`, `PointerJump` and `PointerBack` write the offset, the
value where it points, and come back. No method on this side catches an exception, so `Report` makes the
`EncodeError` where it was raised. `Write` overwrites, as a stream does after a seek; the history variables
`own` and `torn` of a stream record that a byte was written twice.

`Reader!Read` says what a decoder makes of bytes. It is written from the `decode` methods too, but as a
function of the format and without their control: `Decode` has that.

### MessagePack

`MsgPackHeads` is `_encode_int`, the length branches of the encoder and the table of tags of the decoder, over
words of `Unit`, `W8 = 16 * Unit`, `W16`, `W32` and `W64` values. The code's sizes are `Unit = 16` and the
powers of two; the theorems hold for all sizes that nest. A `tag` is the name of a tag byte and `fix` a byte
that holds everything.

In `MsgPack`, a member of `calls` is one `MsgPack.decode`: `CopyFrame` reads the bytes of one value off the
stream (`_copy_stream_frame`, with its own view of lengths, `CopyShape`), `MsgspecFrame` hands them to msgspec
and its result through `_postprocess`, `Miss` is the `except` clause that seeks back, and `SlowPlain`, `SlowFixStr`,
`SlowSized`, `SlowContainer`, `DecodeItem`, `MakeContainer` and `ReturnValue` are the slow path, whose items are
calls of their own. `Miss` seeks on a `file`; on a `pipe`, `ReadStreamWrapper`, the seek does nothing. What msgspec
accepts is external: bytes that are one value of the grammar (`Parse`) for which it has objects (`Holds`), and
`Unpacks` is what it makes of that value, passed through `_postprocess`. `Grammar` is a function of the place
where values start and of how many there are; `starts` names the places where the values read start, also those
of one that is not well-formed.

In `MsgPackCodec`, `EncodeFast` is msgspec, `EncodeScalar`, `EncodeContainer`, `EncodeItem` and `EncodeReturn`
the recursion of `_encode_value`, with its inspection scopes, and `DecodeAgain` hands what was written to
`MsgPack`. Its instance of `MsgPackHeads` has the code's sizes up to 16 bits; `W32` and `W64` are constants.
TLC's integers have 32 bits, so the instances give them smaller values than the code's, which nothing encoded
comes near; the theorems hold for all of them above 65536. A float is its two representations,
given as data: how bits represent it is not modelled.

### Asn1

A member of `encoding` is one `ASN1.encode`, of `decoding` one `ASN1.decode`. `EncodeItem` encodes the items of
a constructed node one by one into the node's own `BytesIO` (`inner`), with an inspection tree of its own,
`EncodeNode` writes tag, length and value and attaches that tree. `DecodeHead` reads tag and length,
`DecodePrimitive` reads and converts a value, `DecodeItem`, `DecodeItemsEnd` and `DecodeGreedyItem` are the loops
for a definite and an indefinite length, the latter with its `peek` for the end mark. `ReturnNode` closes the
scope. `EncodeError` and `DecodeError` are the conditions under which a value is refused, by type. `NodeAt`,
`ItemsAt` and `Grammar` say what stands at a position of a string of bytes; `Grammar` is a function, the one that is
its own unfolding, so that theorems can speak of it. `Bits` bounds the bits of a number (30 in the instances, for
TLC's integers have 32; up to 1016 in the theorem, the most the 127 octets of a length can say), and `Normalize` is
`_normalize_inspect_tree`.

## 3. Runs

| Run | Shows | Instance |
|---|---|---|
| `mcstream` | the helpers are exact, in order, end, and implement `StreamCall` | 3 byte values, files of up to 4 bytes, reads of up to 3, offsets past the end |
| `decode_tidy` | where exceptions are swallowed only above one frame, context, siblings and errors are exact | `TidyFormats`: 57 formats, all inputs of up to 3 bytes over {0,1,2} and 10 longer ones |
| `decode_all` | for all formats: ancestors are kept, sizes are consumed, trees tile, decodes end | `AllFormats`, 67 formats, as roots all except the one that does not end |
| `bitfields` | fields are disjoint and within their integer, inferred sizes hold them and are minimal, decoding inverts encoding | all formats of up to 3 of 18 entries, sizes inferred, 1, 2 and 3 (unsupported), 8 values |
| `encode` | context and path follow the call stack; what is written is read back; a refused frame writes nothing; sizes are as promised; trees point at the bytes; encodes end | the catalogue of `MCEncode`, with and without tree, on streams that seek and that do not |
| `msgpack` | either encoder and either decoder give the value back; well-formed frames are decoded to what they say whatever path fails first; trees of both directions tile and agree; calls end | values at every limit up to 65536, nested ones, all short byte strings over 8 bytes, 26 longer ones, 4 container settings |
| `msgpack_words` | the shortest head is chosen and says what was encoded | a byte of 16 values, words of 32, 64 and 128, all numbers from below the least to above the greatest |
| `asn1` | nodes are decoded as what was encoded, exactly the well-formed strings are decoded, trees tile and agree, no call gets stuck | nodes at every limit of tags, lengths and integers, nested ones, all strings of up to 4 of 8 bytes and prefixed ones |
| `siblings_leak` | a swallowed exception leaves a mapping on `parents`, where `Ref` finds it | greedy array and optional of a mapping, each in a frame |
| `encode_shape` | an array of numbers writes another number of bytes than its size for a list nested too deep | `MCEncode`, lists of lists for an array of two numbers |
| `msgpack_frame` | the copier takes twice the bytes of an integer | as `msgpack`, decoding only |
| `asn1_tag` | tags from 32 on that do not end in five ones are not read back | tags 30, 31, 32 and 128 |

The last four end in a counterexample: each checks what a document or comment says, and `findings` in
`PROJECT.json` quotes it.

Bounds. The catalogue of `MCDecode` has for every pair of operations that interact the smallest format in
which they meet (a `Ref` of one and two levels, a frame in a frame, a greedy loop in a frame followed by a
sibling, a jump in a mapping, recursion through `Lazy` and through `Pointer`, inline, padding, alignment,
refused formats); the inputs contain for each a complete value, a truncated one and one with bytes left over.
`MaxDepth` = 9 lets a recursive format nest four levels and run into the limit. `MaxItems` = 5 caps the
counter of the greedy loop whose elements consume nothing, so that its endless behaviour is a cycle; every
other loop stays below it because no input has more bytes than that. `Height` = 6 exceeds the nesting of every
catalogue entry. A decode has no concurrency: the states are many because of formats and inputs.

The catalogue of `MCEncode` is made the same way, with objects that fit, that miss a key, have a wrong type,
a wrong length, a number out of range or a shape that is not the format's. A byte has `Radix` = 4 values, so
that lengths and numbers leave their range in objects of four items. `MaxDepth` = 12.
Fills have no byte, one or two: in `MCDecode` wherever padding is checked; in the run `encode` one byte that is
not always zero, and none or two only with `align`, where no size is promised. A fill that is not one byte and
may be needed breaks what `sizeof` and the decoder expect (section 5): no format of `MCEncode` has one with a
constant length, so `SizeofIsWritten` says nothing of it, and neither does `RoundTrip` (`Reader!ReadableNode`).

The fields of `MCBitfields` have widths of 1, 4, 8 and 56 bits and offsets of 1, 2, 7, 12 and 63, so that ends
fall on both sides of 8, 16 and 64 bits and offsets before, at and after the end of the field below; three
fields give an automatic group after an offset, an offset after an `align`, two groups, and a run broken by
another format. Widths beyond the value set differ only in how many equal bits are masked.

The alphabet of `MCMsgPack` has one byte of each role: an integer that is also a size and a letter, a byte that
is no letter, maps of one and two, an array of two, a fixstr, an unknown tag, an integer tag; four bytes are
enough for each container around each other, complete and cut off, and the fast path fails at each level of
them. `MCMsgPackWords` varies the size of a byte itself, because 64-bit limits are out of TLC's reach; the
theorems cover the real ones. The alphabet of `MCAsn1` is chosen alike, with the indefinite length, a tag that
goes on and the end mark.

Fairness. `StreamIO!FairSpec` assumes weak fairness of the steps of a call already issued: straight-line
code, and raw calls that return. It assumes none of the caller. `Decode!FairSpec` and `Encode!FairSpec` assume
weak fairness of `Next`: one thread runs the call. `MsgPackCodec!CodecFairSpec` is the same with enabledness
written out. `CHECK_DEADLOCK FALSE`: a call that has ended, and a caller that calls no more, take no further
step. In `MsgPackCodec` and `Asn1` what has ended stutters by an action of its own, so that a call that is
stuck is a deadlock and TLC reports it; with `Asn1`, where every step consumes, returns or ends, this is how
termination is checked.

## 4. Proofs

For all values of the constants that satisfy the named assumptions.

- `StreamIO_proofs`: `TypeCorrect`, `ReadsExact`, `WritesInOrder`, `CursorAccounted` from one inductive
  invariant, the conjunction of the four and of what ties the progress counter to the cursor; `Refinement`
  maps every step to a step of `StreamCall` or a stutter, with the cursor of a pending call still at its
  start.
- `Decode_proofs!AncestorsAreKept`, for every format. `AncestorsKept` is not inductive: a `pop` of an inner
  mapping is harmless only because the frame pushed before it and every frame below was entered with a context
  that the inner one extends. `Inv` says so: the types of the sequences (`Shape`), the property with a path
  strictly longer than that of every waiting container (`Kept`), frames entered one inside the other
  (`Nested`), and a mapping that has just been entered has the parents it was entered with (`Fresh`).
- `Decode_proofs!ContextIsNeutral`, under the hypothesis `Tidy` (what swallows exceptions wraps a format of
  one frame). `TidyInv` adds that each frame was entered with exactly what the frame below had (`Linked`),
  that the running frame has what its control state says (`Handed`), and that a greedy loop is one that `Tidy`
  speaks of (`Marked`). An exception that will be swallowed then comes from a leaf and has passed no
  container, so the handler finds the context it left. `siblings_leak` shows that the hypothesis is needed.
- `Decode_proofs!RefsSeeSiblings` and `ErrorPathsAreExact`, under `Tidy` too and from two more parts of
  `TidyInv`: the mappings and the keys a frame was entered with are those of the frames below it, in their
  order (`Ranked`), and an exception under way has left the path as it was where it was raised (`Traced`). "In
  their order" is said with the `Rank` of a frame among the frames that count, a cardinality, because what
  `SelectSeq` returns is out of the provers' reach.
- `Decode_proofs!ErrorContextsAreStitched`, under `Tidy`: the partial result of a `DecodeError` is one tree.
  The code links the mappings by position, the i-th field name of the path in the i-th mapping; the property
  speaks of the frames of the traceback. Between them stands `Filed`: mappings are created in the order of
  their frames, so the i-th parent is the mapping of the frame of rank i, and the traceback, once taken, charts
  the parents and the path that `Report` will read (`Charted`).
- `Decode_proofs!TypesAreKept` and `SizesAreConsumed`, for every format and every exception swallowed.
  `Typed` strengthens `TypeOK`: a decoded length and an index are natural numbers, a frame counts no further
  than there are fields or items, lives in a stream and a scope that exist, and a frame that waits has called
  the format it stands at, on its own stream or on a `BytesIO` above it (`Calls`). `Placed` adds where streams
  stand: the frame that runs, or the one called last by a frame that waits, is where the parts already decoded
  end (`Stands`), a return has moved by `SizeOf`, and `seek_to` has saved the position before a jump. No
  exception of an inner decode disturbs that, because what catches one has no fixed size. The size of a
  mapping is a sum along its fields; that `SizeOf` is that sum (`Totals`) is a definition by recursion on a
  finite function, and what a sum needs is shown by a least counterexample (`Least`). On a stream that cannot
  seek a pointer does not come back, which is why the property excludes `"unseekable"`.
- `Decode_proofs!InspectionsTile`, for every format and every exception swallowed. `Trees` strengthens
  `InspectionTiles` in two parts. `Grown` is about the nodes: the property for every node but the root's parent,
  open ones included, as far as they have grown (`Ordered`), and for a closed one that nothing is missing
  (`Complete`). `InScopes` is about the frames: each has an open node of its own, no two the same one, hung below
  the node of its caller (`Scopes`), so that an exception can leave nodes open but never attach one elsewhere;
  a container that waits has as many kids as it has counted, and has called at the end of the last one
  (`Waiting`); the one that runs stands where its last kid ends (`Working`). It rests on `Typed`, and on streams
  that never lie before the place where their frame was entered, except between the two seeks of a Pointer
  (`NotBefore`).
- `Encode_proofs!ContextIsTheStack`, for every format and every object: `parents` and `path` are those of the call
  stack while an encode runs, because no method on that side catches. `FrameOrNothing`: a `Sized` that
  refuses leaves its outer stream as it was. `Inv` says what each frame was entered with, that the streams of
  inner frames lie above those of outer ones, and that an outer stream is untouched while its frame is open.
- `Encode_proofs!TypesAreKept`, for every object Python can build (`GivenSound`: bytes are bytes, mappings are
  finite, and so it is with what lists and mappings hold, to any depth; `MCEncode` has TLC evaluate it on the
  catalogue). Objects are not typed but belong to a set closed under taking parts (`Sound`), so that
  self-describing data needs no induction: what is taken out of an object, what `Prefill` puts into a mapping
  and what a `Ref` resolves to is in such a set again. `Typed` adds to `TypeOK` what frames know of their
  objects: an array of constant length that has begun its items has as many, a pointer that waits has an offset
  and a value, and an offset that has been written was a natural number (`Fit`, `Calls`, `ReturnTyped`).
- `Encode_proofs!SizesAreWritten`: what `sizeof` promises is what the encoder writes, nested to any depth, through
  both paths of `Array`, the padding of `Sized`, jumps and back, under two hypotheses. `Placing` says where each stream stands: a
  frame that runs is where the parts already encoded end (`Stands`), one that waits has called there (`Placed`),
  and a `Pointer` remembers where its offset ends. A stream that cannot seek never becomes one that can
  (`Seeking`). Both hypotheses are needed. `OneByteFills`: a `Sized` of constant length has a fill of one byte, for
  it writes the whole fill for each missing byte (section 5). `FlatGiven`: an array of numbers takes lists
  apart without counting them, and `encode_shape` shows a list of lists that is written too short.
  `SizesAreAlwaysWritten` discharges the latter twice: where no list of the caller's holds a list (`GivenShallow`), and, for all objects, where
  an inspection tree is built, because the fast path of `Array` is then not taken.
- `Bitfields_proofs`, for formats of any length. `Layout` says what the two walks have established so far: the
  fields of the Bitfields under construction are Bitfields (`Walking`), how many are placed (`Counted`), and
  that each belongs to an integer already built or ends at `nbits` at the latest (`Owned`); with it
  `TypesHold` and `FieldsNeverOverlap`. `InferredSizeFits` needs to compare two walks of which the second has
  not begun: `Sized` says that a function of the ends the placing walk will compute exists (`Ends`), is
  bounded by what has been counted, and, once placing, is what `nbits` follows. For `InferredSizeSmallest` the
  bound must be an equality: without `align` it is one as long as no offset turns back (`Tight`, `InOrder`),
  and where one does, placing refuses the format before the size is used. `DecodeInvertsEncode` follows from
  `Encoded`: a bit of an integer is one exactly when it is a bit of some field's value at its offset, and the
  disjoint fields of `Layout` make that field unique.
- `MsgPackWords_proofs`, for every set of numbers and all sizes of words that nest (`HeadsAssumption`), so for
  the 64-bit words of the format too. `HeadForRight`, proved for each kind of head by cases on the limits,
  says that the head chosen means the number and that no smaller head can (`FirstFit`: a tag of smaller size
  covers no number of that kind this large; `MeaningFits`: what a head of a size can say at all).
  `ComplementInverse` is the two's complement. `WordsInv` says that `head` is the one `HeadFor` chose and
  `meaning` what that head says.
- `MsgPackCodec_proofs!TypesAreKept`, for values and byte strings of every length and depth. The values a caller
  gives are in a set closed under members (`GivenSound`: of the kinds there are, texts are bytes, numbers and
  lengths fit a word; `MCMsgPack` has TLC evaluate that on its catalogue as `CatalogueAssumption`). `Typed` adds
  what the calls know: all but the last wait for an item they have still to have, each started no earlier than
  its caller (`DecodeCalls`), a call of encode is for a value somewhere in the one given (`EncodeCalls`), and
  encoding and decoding are never under way together (`Turns`). That what is written are bytes is a lemma about
  each kind of head. Of msgspec it is assumed only that what it packs are bytes (`CodecAssumption`).
- `MsgPackCodec_proofs!OnlyShortStringsSlip` and `SlowPathStandsOnValues`: the fallback never loses its place,
  for whatever bytes, however often and at whatever depth a fast path failed, and whatever msgspec makes of a
  value. The grammar exists for every string, which is shown from the right (`ReadingExists`, by a least number
  of places from which it does not). A fast path looks at a copy of the bytes: what is read of a frame is read
  of the wire it stands in (`InsideParses`), and of the wire that goes on with zeros. The second is needed because
  of the fixstr that the code reads without measuring: a call that has taken one too short stands where the
  grammar has no value. `ReadsWell` therefore tells three courses apart. `Whole`: of every wire that goes on with
  zeros, the running call finishes what the grammar reads where it began (`Says`), and each call that waits takes
  up what the grammar reads for its item (`Linked`). `Short`: the end of the wire has cut a fixstr by `l` bytes,
  and the same is so of the wire that has them. `Doomed`: a value is asked for behind that, and there is none. Of
  streams that seek: on a pipe the failed fast path does not come back, as the properties say.
- `Asn1_proofs!TypesAreKept`, for nodes of every depth and all bytes. The nodes a caller gives are in a set closed
  under items whose members have classes, bytes and arcs that are such (`NodesSound`; `MCAsn1` has TLC evaluate
  that on its catalogue as `CatalogueAssumption`). `Typed` adds what the calls know: all but the last wait for
  an item of a constructed node (`DecodeCalls`), none began behind the position reached, a primitive
  value ends no earlier than where it starts (`BodyAhead`), and encoding and decoding are never under way together
  (`Turns`).
- `Asn1_proofs!WellFormedIsDecoded`: whatever the bytes, to any depth, `ASN1.decode` succeeds exactly where the
  grammar says that a node stands, with that node, and leaves the stream right behind it; an item that reaches
  past the end its container declares is refused. The grammar is recursive in the position and goes on
  further right, so that it exists for every string (`Reads`), which is shown from the right by the least place from
  which it does (`Least`), without an induction over data. `ReadsWell` relates it to the calls under way: from the
  position reached on, the running call finishes what the grammar reads where that call began (`Says`,
  `Finish`), a call that waits takes up what the grammar reads for its item (`Resume`, `Chain`), and where an
  item does not parse, no call below it does. Under `Faithful`, as in the property: on a pipe `peek` loses two
  octets, so only strings without the octet of an indefinite length are spoken of there. `Asn1Assumption` is
  that bytes are bytes and `Bits` is between 1 and 1016.

`HeightAssumption` (`Formats`) says that `Height` levels are enough for every size of the formats at hand: one
more changes none. TLC evaluates it on every run.

Model-checked only: liveness (out of the prover's reach); `RoundTrip` and `InspectShowsBytes` of
`EncodeReads`, `RoundTrip` and `InspectTiles` of `Asn1Reads`, and `RoundTrip`, `FrameDecoded` and `TreesTile` of
`MsgPackReads`. These compare the code with recursive functions of formats, nested values and trees (`Read`,
`Decoded`, `Made`, `Back`, `NormalizeInspectTree`), which are `RECURSIVE` operators, and what they compute for every input would take an
induction over data; both are out of the prover's reach.

## 5. Known disagreements not filed as findings

Met while modelling; the models do what the code does.

- Streams: `peek` does not come back when the stream ends first (`stream/_impl.py:110`). A `Pointer` on a write
  stream that cannot seek is written in place; one that points at bytes already written overwrites them.
- Context: `Context.fmt` is not restored, so that `DecodeError.fmt` may name the format decoded last
  (`_stream.py:102`). For a missing key the error's path names the mapping and its format the field.
- `Optional` returns `None` for an `EOFError` anywhere inside (`types/_optional.py:35`). A greedy array of
  `Optional` elements never ends (`types/_array.py:438`).
- `Array`: a `Ref` dimension that does not resolve reads the rest of the stream (`types/_array.py:92`); on the
  fast path of the encoder it raises `IndexError` instead of `KeyError`.
- `sizeof` of a mapping is not the bytes its grouped bit fields take (`_utils.py:37`); `align` enlarges an
  integer but does not move the field (`types/_bitfield.py:158`).
- `Sized` with a fill that is not one byte writes it once for each missing byte (`types/_sized.py:96`, and with
  `align` `:86` and `:113`), where its decoder expects whole fills in the missing bytes (`:67`): `Sized(4,
  Bytes(2), fill=b"ab")`, whose size is 4, encodes `b"xy"` as the 6 bytes `b"xyabab"`, and its decoder leaves two
  behind; an empty fill writes too few. The docstring says "pad to that size with `fill`" (`:24`). A short read of the fast path of
  `Array` that is no whole number of elements ends in a `ValueError`, not an `EOFError` (`types/_array.py:393`).
- `TakeUntil.encode` does not look for its terminator in the value; `scale` drops the remainder;
  `TaggedUnion.prefill` ignores the `parent` of its `Ref`.
- MessagePack: a fixstr is read without measuring what came (`lib/msgpack/_impl.py:391`); the constructor's
  check of `array_type` names it twice and not `map_type`; the slow path keeps repeated keys in maps that are
  tuples; msgspec encodes sets and other types that the slow path refuses, and refuses before anything is
  written, where the slow path leaves what it had written.
- ASN.1: the length octet `0xFF` is taken for 127 octets to come; -128 and -32768 are written with one octet
  more than they need; a second arc from 48 on under arc 2 is written as a raw octet; `int` under
  OCTET STRING writes that many zeros; each item of an indefinite length on a stream that cannot seek loses two
  octets to `peek`.

## 6. Not modelled, and what is left

Not modelled: `_convert`/`_to_builtins` and `derive_fmt` (reflection over Python types; they delegate to
msgspec), `Float` and `Str` as types of their own (pure conversion; for the traversal a scalar), `Converter`
beyond `scale` (functions of the caller), arrays of several dimensions except where an array of arrays shows
the same, `Ref.cast` and callables, `format_tree` (text), `EncodeError.inspect_node`, runs of `Bitfield` inside the
traversals (`Bitfields` has them alone), short writes of `array.tofile` (CPython ignores them; nothing is left
to check), the benchmark scripts.

Left to prove: `FrameDecoded`, of which `ReadsWell` already says where every call stands: what is missing is what it
has built, and for that the containers made of a nested value (`Made`) would have to be a function whose existence
can be shown as that of the grammar is.
