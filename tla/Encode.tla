------------------------------- MODULE Encode -------------------------------
(***************************************************************************)
(* One call of encode, encode_stream or encode_inspect: the recursion of   *)
(* _encode_stream through a format, the Type.encode methods that recurse   *)
(* back into it, and the Context they share.  The Python call stack is the *)
(* variable frames.  No method catches an exception on this side, so one   *)
(* ends the call where it is raised.  A Type's encode and the              *)
(* _encode_stream that calls it share a frame.                             *)
(***************************************************************************)
EXTENDS Values, CallStack, SequencesExt

CONSTANTS Given,       \* the formats a caller encodes with and the objects it
                       \* encodes: a sequence of [fmt, obj]
          Seekables,   \* whether the stream can seek: a set of Booleans
          Inspects,    \* whether an inspection tree is built: a set of Booleans
          MaxDepth,    \* the recursion limit, in frames
          Nesting,     \* bound: the lists nested in the object of an array
          Normalize(_) \* what _normalize_inspect_tree makes of a tree

ASSUME EncodeAssumption ==
    /\ \A c \in DOMAIN Given : Given[c].fmt \in Fmt
    /\ Radix \in Nat \ {0, 1} /\ Byte = 0..(Radix - 1)
    /\ Seekables \subseteq BOOLEAN /\ Inspects \subseteq BOOLEAN
    /\ MaxDepth \in Nat \ {0}
    /\ Nesting \in Nat

VARIABLES call,        \* the format and the object of the caller
          inspect,     \* Context.inspect
          frames,      \* the Python call stack, the running frame last
          ctl,         \* what the running frame does next
          exc,         \* the exception, once one is raised
          streams,     \* the stream written and the BytesIO of open Sized values
          parents,     \* Context.parents: the objects, outermost first
          path,        \* Context.path
          curFmt,      \* Context.fmt
          root,        \* the inspection tree returned, as a sequence of one
          err          \* what the EncodeError reports

config == <<call, inspect>>
context == <<parents, path, curFmt>>
vars == <<config, frames, ctl, exc, streams, context, root, err>>

(* "run": execute; "leave": it has written its value; "resume": a callee   *)
(* has returned to it; "raise": it has raised exc.                         *)
Controls == {"run", "leave", "resume", "raise", "finish", "done"}

(* What an operation yields: a value, or an exception.                     *)
Ok(v) == [ok |-> TRUE, val |-> v, exc |-> ""]
Refused(e) == [ok |-> FALSE, val |-> NoneV, exc |-> e]
Refusals == {"Number", "Type", "Value", "Key", "Index", "Assertion"}

-----------------------------------------------------------------------------
(* Streams.  A write past the end leaves zeros between.  WriteStreamWrapper*)
(* has no seek of its own: what it inherits does nothing.  own and torn    *)
(* record the bytes written and whether one was written twice (history).   *)
Stream(seekable) == [data |-> <<>>, pos |-> 0, seekable |-> seekable, own |-> {}, torn |-> FALSE]
Seek(s, p) == IF s.seekable THEN [s EXCEPT !.pos = p] ELSE s

Write(s, b) ==
    LET end == s.pos + Len(b)
        new == (s.pos + 1)..end
        last == IF b = <<>> \/ end < Len(s.data) THEN Len(s.data) ELSE end
    IN  [s EXCEPT !.data = [i \in 1..last |-> IF i \in new THEN b[i - s.pos]
                                              ELSE IF i <= Len(s.data) THEN s.data[i] ELSE 0],
                  !.pos = end,
                  !.own = @ \cup new,
                  !.torn = @ \/ new \cap s.own # {}]

(* Big-endian, in digits of a byte.  What is out of range or no number is  *)
(* refused, by struct or by array.                                         *)
DigitsWide(width, n) == [i \in 1..width |-> n \div Radix ^ (width - i)] \* wrong: not masked
Digits(width, n) == [i \in 1..width |-> (n \div Radix ^ (width - i)) % Radix]
Packed(width, v) == IF v.t = "int" /\ v.n \in 0..(Radix ^ width - 1) THEN Ok(Digits(width, v.n))
                    ELSE Refused("Number")

(* The encode methods that write their own bytes and call nothing back.    *)
LeafWrite(N, v) ==
    IF N.kind = "int" THEN Packed(N.num, v)
    ELSE IF N.kind = "bytes"
    THEN IF N.mode = "const" /\ IsIterable(v) /\ Len(Items(v)) # N.num THEN Refused("Value")
         ELSE IF v.t = "bytes" THEN Ok(v.at) ELSE Refused("Type")
    ELSE IF N.kind = "takeuntil"
    THEN IF v.t = "bytes" THEN Ok(Append(v.at, N.num)) ELSE Refused("Type")
    ELSE IF N.kind = "literal"
    THEN IF v.t = "none" \/ (v.t = "bytes" /\ v.at = <<N.num>>) THEN Ok(<<N.num>>) ELSE Refused("Value")
    ELSE IF v.t = "none" THEN Ok(<<>>) ELSE Refused("Assertion")

-----------------------------------------------------------------------------
(* Context: Ref.resolve looks a key up in one of the parents.              *)
Resolve(ref) ==
    LET level == IF ref.parent = 0 THEN 1 ELSE Len(parents) - ref.parent + 1 IN
    IF level < 1 THEN Refused("Key")
    ELSE LET target == parents[level]
         IN  IF target.t # "map" THEN Refused("Type")
             ELSE IF ref.key \in DOMAIN target.at THEN Ok(target.at[ref.key])
             ELSE Refused("Key")

(* Frames.  at is where the frame stands, idx counts the fields or items   *)
(* begun, item is the key being encoded, saved the position seek_to        *)
(* restores, kids the children of its inspection node and raw the bytes a  *)
(* leaf wrote.  pos0 is the position at entry.                             *)
NewFrame(f, obj, s, pos) ==
    [fmt |-> f, obj |-> obj, strm |-> s, pos0 |-> pos, at |-> "enter", idx |-> 0,
     item |-> NoKey, saved |-> 0, kids |-> <<>>, raw |-> <<>>]

Top == frames[Len(frames)]
TopNode == Node[Top.fmt]
TopStream == streams[Top.strm]
WithTop(F) == [frames EXCEPT ![Len(frames)] = F]
Running(k) == ctl = "run" /\ TopNode.kind = k
Resuming(k) == ctl = "resume" /\ TopNode.kind = k

(* The running frame, now F, encodes obj as f into stream s.  Too deep a   *)
(* recursion raises in its stead.                                          *)
Call(F, f, obj, s, newStreams, newPath) ==
    /\ streams' = newStreams
    /\ path' = newPath
    /\ IF Len(frames) = MaxDepth
       THEN /\ frames' = WithTop(F)
            /\ ctl' = "raise"
            /\ exc' = "Recursion"
            /\ UNCHANGED curFmt
       ELSE /\ frames' = Append(WithTop(F), NewFrame(f, obj, s, newStreams[s].pos))
            /\ ctl' = "run"
            /\ curFmt' = f
            /\ UNCHANGED exc
    /\ UNCHANGED <<config, parents, root, err>>

Return(F) == frames' = WithTop(F) /\ ctl' = "leave" /\ UNCHANGED exc
Raise(e) == ctl' = "raise" /\ exc' = e /\ UNCHANGED frames

(* The running frame ends by writing bytes to its stream, or by raising.   *)
Emit(r) == IF r.ok THEN /\ streams' = [streams EXCEPT ![Top.strm] = Write(@, r.val)]
                        /\ Return([Top EXCEPT !.raw = r.val])
           ELSE Raise(r.exc) /\ UNCHANGED streams

EncodeLeaf == /\ ctl = "run"
              /\ TopNode.kind \in LeafKinds
              /\ Emit(LeafWrite(TopNode, Top.obj))
              /\ UNCHANGED <<config, context, root, err>>

-----------------------------------------------------------------------------
(* Mappings.  Before the first field, every TaggedUnion among the fields   *)
(* that takes its tag from a sibling writes that sibling, unless the       *)
(* caller gave it, with the tag of its own value.                          *)
Prefill(obj, key, tag) ==
    IF Has(obj, key) /\ ~Has(obj, tag) /\ Has(obj.at[key], tag) /\ obj.at[key].at[tag] # NoneV
    THEN MapV([k \in DOMAIN obj.at \cup {tag} |-> IF k = tag THEN obj.at[key].at[tag] ELSE obj.at[k]])
    ELSE obj

Prefilled(N, obj) ==
    LET upto[i \in 0..Len(N.subs)] ==
            IF i = 0 THEN obj
            ELSE IF Node[N.subs[i]].kind = "union" /\ Node[N.subs[i]].mode = "ref"
                 THEN Prefill(upto[i - 1], N.keys[i], Node[N.subs[i]].ref.key)
                 ELSE upto[i - 1]
    IN  upto[Len(N.subs)]

MapEnter ==
    /\ Running("map")
    /\ Top.at = "enter"
    /\ LET obj == Prefilled(TopNode, Top.obj) IN
          /\ parents' = Append(parents, obj)
          /\ frames' = WithTop([Top EXCEPT !.at = "loop", !.obj = obj])
    /\ UNCHANGED <<config, ctl, exc, streams, path, curFmt, root, err>>

(* The value of a field: an inline field takes its own keys out of the     *)
(* mapping, a constant may be missing.                                     *)
FieldValue(N, i, obj) ==
    LET S == Node[N.subs[i]]
        wanted == IF IsInline(S) THEN {Node[S.subs[1]].keys[j] : j \in DOMAIN Node[S.subs[1]].keys}
                  ELSE IF IsConstant(S) THEN {} ELSE {N.keys[i]}
    IN  IF obj.t # "map" THEN Refused("Type")
        ELSE IF ~(wanted \subseteq DOMAIN obj.at) THEN Refused("Key")
        ELSE IF IsInline(S) THEN Ok(MapV([k \in wanted |-> obj.at[k]]))
        ELSE IF N.keys[i] \in DOMAIN obj.at THEN Ok(obj.at[N.keys[i]]) ELSE Ok(NoneV)

(* A missing field is noticed before its name is on the path.              *)
MapField ==
    /\ Running("map")
    /\ Top.at = "loop"
    /\ \E i \in DOMAIN TopNode.subs :
          /\ i = Top.idx + 1
          /\ LET v == FieldValue(TopNode, i, Top.obj)
                 key == Name(TopNode.keys[i])
             IN  IF v.ok
                 THEN Call([Top EXCEPT !.idx = i, !.item = key], TopNode.subs[i], v.val, Top.strm,
                           streams, Append(path, key))
                 ELSE /\ curFmt' = TopNode.subs[i]
                      /\ Raise(v.exc)
                      /\ UNCHANGED <<config, streams, parents, path, root, err>>

(* Wrong version: the mapping stays among the parents.                     *)
MapExitKeeps ==
    /\ Running("map")
    /\ Top.at = "loop"
    /\ Top.idx = Len(TopNode.subs)
    /\ Return([Top EXCEPT !.at = "exit"])
    /\ UNCHANGED <<config, streams, context, root, err>>

MapExit ==
    /\ Running("map")
    /\ Top.at = "loop"
    /\ Top.idx = Len(TopNode.subs)
    /\ parents' = Under(parents)
    /\ Return([Top EXCEPT !.at = "exit"])
    /\ UNCHANGED <<config, streams, path, curFmt, root, err>>

-----------------------------------------------------------------------------
(* Iterables and the element loops of Array.                               *)
CallItem(f) ==
    Call([Top EXCEPT !.idx = @ + 1, !.item = Index(Top.idx)], f, Items(Top.obj)[Top.idx + 1],
         Top.strm, streams, Append(path, Index(Top.idx)))

TupleItem ==
    /\ Running("tuple")
    /\ IsIterable(Top.obj)
    /\ Top.idx < Len(Items(Top.obj))
    /\ \E i \in DOMAIN TopNode.subs : i = Top.idx + 1 /\ CallItem(TopNode.subs[i])

(* Wrong version: the end of the items is not noticed.                     *)
TupleExitFormats ==
    /\ Running("tuple")
    /\ IsIterable(Top.obj) => Top.idx = Len(TopNode.subs)
    /\ IF IsIterable(Top.obj) THEN Return(Top) ELSE Raise("Type")
    /\ UNCHANGED <<config, streams, context, root, err>>

(* zip compares the lengths when the shorter one is exhausted.             *)
TupleExit ==
    /\ Running("tuple")
    /\ IF ~IsIterable(Top.obj) THEN Raise("Type")
       ELSE /\ Top.idx = Len(Items(Top.obj)) \/ Top.idx = Len(TopNode.subs)
            /\ IF Len(Items(Top.obj)) = Len(TopNode.subs) THEN Return(Top) ELSE Raise("Value")
    /\ UNCHANGED <<config, streams, context, root, err>>

(* Array of numbers, its elements without nodes of their own and its       *)
(* length not written: packed into one array.array and written at once.    *)
IsFast(N) == Node[N.subs[1]].kind = "int" /\ N.mode # "prefix" /\ ~inspect

(* Lists are taken apart wherever they stand.                              *)
Unnest(items) == FlattenSeq([i \in DOMAIN items |-> IF items[i].t = "list" THEN items[i].at ELSE <<items[i]>>])

Flatten(items) ==
    LET Flat[depth \in 0..Nesting] == IF depth = 0 THEN items ELSE Unnest(Flat[depth - 1])
    IN  Flat[Nesting]

FastBytes(N, v) ==
    LET flat == Flatten(Items(v))
        words == [i \in DOMAIN flat |-> Packed(Node[N.subs[1]].num, flat[i])]
        bad == {i \in DOMAIN words : ~words[i].ok}
    IN  IF bad = {} THEN Ok(FlattenSeq([i \in DOMAIN words |-> words[i].val])) ELSE Refused("Number")

(* The length an Array without prefix requires, None for any.  The fast    *)
(* path finds no dimension where the Ref does not resolve.                 *)
Expected(N) ==
    LET sibling == Resolve(N.ref) IN
    IF N.mode = "const" THEN Ok(IntV(N.num))
    ELSE IF N.mode = "greedy" THEN Ok(NoneV)
    ELSE IF ~sibling.ok THEN Refused(IF IsFast(N) THEN "Index" ELSE sibling.exc)
    ELSE IF sibling.val = NoneV /\ IsFast(N) THEN Refused("Type")
    ELSE sibling

(* The prologue: what it writes before the elements, or why it raises.     *)
Prologue(N, v) ==
    IF N.mode = "prefix"
    THEN IF IsIterable(v) THEN Packed(1, IntV(Len(Items(v)))) ELSE Refused("Type")
    ELSE IF ~Expected(N).ok THEN Expected(N)
    ELSE IF ~IsIterable(v) THEN Refused(IF IsFast(N) /\ N.mode # "greedy" THEN "Value" ELSE "Type")
    ELSE IF Expected(N).val \notin {NoneV, IntV(Len(Items(v)))} THEN Refused("Value")
    ELSE IF IsFast(N) THEN FastBytes(N, v) ELSE Ok(<<>>)

ArrayEnter ==
    /\ Running("array")
    /\ Top.at = "enter"
    /\ LET r == Prologue(TopNode, Top.obj) IN
       IF IsFast(TopNode) \/ ~r.ok THEN Emit(r)
       ELSE /\ streams' = [streams EXCEPT ![Top.strm] = Write(@, r.val)]
            /\ frames' = WithTop([Top EXCEPT !.at = "items"])
            /\ UNCHANGED <<ctl, exc>>
    /\ UNCHANGED <<config, context, root, err>>

ArrayItem == /\ Running("array")
             /\ Top.at = "items"
             /\ Top.idx < Len(Items(Top.obj))
             /\ CallItem(TopNode.subs[1])

ArrayExit == /\ Running("array")
             /\ Top.at = "items"
             /\ Top.idx = Len(Items(Top.obj))
             /\ Return(Top)
             /\ UNCHANGED <<config, streams, context, root, err>>

(* A field or an item has been written.                                    *)
ItemBack ==
    /\ Resuming("map") \/ Resuming("tuple") \/ Resuming("array")
    /\ path' = Under(path)
    /\ ctl' = "run"
    /\ UNCHANGED <<config, frames, exc, streams, parents, curFmt, root, err>>

-----------------------------------------------------------------------------
(* Formats that hand their stream and their value to another format.       *)
CallInner(F, f, obj, s, newStreams) == Call([F EXCEPT !.at = "inner"], f, obj, s, newStreams, path)

(* Optional writes nothing for None; Lazy encodes its format where it      *)
(* stands; scale divides, and forgets the remainder.                       *)
WrapOpen ==
    /\ Running("optional") \/ Running("lazy") \/ Running("scale")
    /\ IF TopNode.kind = "optional" /\ Top.obj = NoneV
       THEN Return(Top) /\ UNCHANGED <<config, streams, context, root, err>>
       ELSE IF TopNode.kind = "scale" /\ Top.obj.t # "int"
       THEN Raise("Type") /\ UNCHANGED <<config, streams, context, root, err>>
       ELSE CallInner(Top, TopNode.subs[1],
                      IF TopNode.kind = "scale" THEN IntV(Top.obj.n \div TopNode.num) ELSE Top.obj,
                      Top.strm, streams)

(* Switch chooses by the value of a sibling, whether written yet or not.   *)
SwitchOpen ==
    /\ Running("switch")
    /\ LET sibling == Resolve(TopNode.ref)
           cases == Case(TopNode, sibling.val)
           failure == IF ~sibling.ok THEN sibling.exc
                      ELSE IF sibling.val.t \in {"map", "list"} THEN "Type"
                      ELSE IF cases = {} THEN "Key" ELSE ""
       IN  IF failure # "" THEN Raise(failure) /\ UNCHANGED <<config, streams, context, root, err>>
           ELSE CallInner(Top, TopNode.subs[First(cases)], Top.obj, Top.strm, streams)

(* TaggedUnion: the tag is a sibling's, which the value may repeat, or the *)
(* value's, which is then written first.                                   *)
ValueTag(N, v) == IF Has(v, N.ref.key) THEN v.at[N.ref.key] ELSE NoneV

TagForEncode(N, v) ==
    LET sibling == Resolve(N.ref) IN
    IF v.t # "map" THEN Refused("Value")
    ELSE IF N.mode # "ref" THEN Ok(ValueTag(N, v))
    ELSE IF ~sibling.ok THEN sibling
    ELSE IF Has(v, N.ref.key) /\ v.at[N.ref.key] # sibling.val THEN Refused("Value")
    ELSE sibling

UnionOpen ==
    /\ Running("union")
    /\ LET tag == TagForEncode(TopNode, Top.obj)
           branches == Branch(TopNode, tag.val)
       IN  IF ~tag.ok \/ branches = {}
           THEN /\ Raise(IF tag.ok THEN "Value" ELSE tag.exc)
                /\ UNCHANGED <<config, streams, context, root, err>>
           ELSE IF TopNode.mode = "ref"
           THEN \E i \in branches : CallInner(Top, TopNode.subs[i], Top.obj, Top.strm, streams)
           ELSE Call([Top EXCEPT !.at = "tag"], Last(TopNode.subs), tag.val, Top.strm, streams, path)

UnionBranch ==
    /\ Resuming("union")
    /\ Top.at = "tag"
    /\ \E i \in Branch(TopNode, ValueTag(TopNode, Top.obj)) :
          CallInner(Top, TopNode.subs[i], Top.obj, Top.strm, streams)

WrapClose ==
    /\ \E k \in {"optional", "lazy", "scale", "switch", "union"} : Resuming(k)
    /\ Top.at = "inner"
    /\ Return(Top)
    /\ UNCHANGED <<config, streams, context, root, err>>

(* Pointer: the offset here, the value there, and back.  The caller gives  *)
(* both.                                                                   *)
PointerOpen ==
    /\ Running("pointer")
    /\ IF Has(Top.obj, "offset") /\ Has(Top.obj, "value")
       THEN Call([Top EXCEPT !.at = "offset"], TopNode.subs[1], Top.obj.at["offset"], Top.strm, streams, path)
       ELSE /\ Raise(IF Top.obj.t = "map" THEN "Key" ELSE "Type")
            /\ UNCHANGED <<config, streams, context, root, err>>

PointerJump ==
    /\ Resuming("pointer")
    /\ Top.at = "offset"
    /\ IF TopNode.flag /\ Top.obj.at["offset"].n = 0
       THEN Return(Top) /\ UNCHANGED <<config, streams, context, root, err>>
       ELSE CallInner([Top EXCEPT !.saved = TopStream.pos], TopNode.subs[2], Top.obj.at["value"], Top.strm,
                      [streams EXCEPT ![Top.strm] = Seek(@, TopNode.num + Top.obj.at["offset"].n)])

PointerBack ==
    /\ Resuming("pointer")
    /\ Top.at = "inner"
    /\ streams' = [streams EXCEPT ![Top.strm] = Seek(@, Top.saved)]
    /\ Return(Top)
    /\ UNCHANGED <<config, context, root, err>>

-----------------------------------------------------------------------------
(* Sized: the value is encoded into a BytesIO of its own; only when its    *)
(* length is known and right are length, value and padding written: the    *)
(* whole fill for every byte that is missing.                              *)
SizedOpen == /\ Running("sized")
             /\ CallInner(Top, TopNode.subs[1], Top.obj, Len(streams) + 1, Append(streams, Stream(TRUE)))

(* Wrong version: a frame of constant size is not filled up.               *)
PadLenAligned(N, len) == IF N.align = 0 THEN 0 ELSE (N.align - (len % N.align)) % N.align

PadLen(N, len) == IF N.mode = "const" THEN N.num - len
                  ELSE IF N.align = 0 THEN 0
                  ELSE (N.align - (len % N.align)) % N.align

Repeated(fill, n) == [i \in 1..(n * Len(fill)) |-> fill[((i - 1) % Len(fill)) + 1]]

(* Wrong version: the length a sibling gives is not compared.              *)
LengthHeadUnchecked(N, len) ==
    IF N.mode = "ref" THEN Ok(<<>>)
    ELSE IF N.mode = "const" THEN IF len > N.num THEN Refused("Value") ELSE Ok(<<>>)
    ELSE Packed(1, IntV(len))

(* The bytes of the length, if it is the right one.                        *)
LengthHead(N, len) ==
    LET sibling == Resolve(N.ref) IN
    IF N.mode = "ref"
    THEN IF sibling.ok /\ sibling.val # IntV(len) THEN Refused("Value")
         ELSE IF sibling.ok THEN Ok(<<>>) ELSE sibling
    ELSE IF N.mode = "const" THEN IF len > N.num THEN Refused("Value") ELSE Ok(<<>>)
    ELSE Packed(1, IntV(len))

(* Wrong version: the position is taken after the length is written.       *)
LeafBehind(off, raw) == [off |-> off + Len(raw), size |-> Len(raw), kids |-> <<>>, raw |-> raw]

Leaf(off, raw) == [off |-> off, size |-> Len(raw), kids |-> <<>>, raw |-> raw]

(* Wrong version: the value is written before its length is compared.      *)
SizedCloseWrites ==
    /\ Resuming("sized")
    /\ LET buf == streams[Len(streams)]
           head == LengthHead(TopNode, Len(buf.data))
       IN  /\ streams' = Append(Under(Under(streams)), Write(TopStream, buf.data))
           /\ IF head.ok THEN Return(Top) ELSE Raise(head.exc)
    /\ UNCHANGED <<config, context, root, err>>

SizedClose ==
    /\ Resuming("sized")
    /\ LET buf == streams[Len(streams)]
           head == LengthHead(TopNode, Len(buf.data))
           frame == head.val \o buf.data \o Repeated(TopNode.fill, PadLen(TopNode, Len(buf.data)))
           written == Write(TopStream, frame)
       IN  IF head.ok
           THEN /\ streams' = Append(Under(Under(streams)), [written EXCEPT !.torn = @ \/ buf.torn])
                /\ Return([Top EXCEPT !.kids = IF inspect /\ TopNode.mode = "prefix"
                                               THEN <<Leaf(TopStream.pos, head.val)>> \o @ ELSE @])
           ELSE Raise(head.exc) /\ UNCHANGED streams
    /\ UNCHANGED <<config, context, root, err>>

-----------------------------------------------------------------------------
(* The inspection node of a frame.                                         *)
NodeOf(F) == [off |-> F.pos0, size |-> streams[F.strm].pos - F.pos0, kids |-> F.kids, raw |-> F.raw]

(* An encode returns: its inspection scope closes and becomes a child of   *)
(* the scope around it, or, normalised, the tree that is returned.         *)
Leave ==
    /\ ctl = "leave"
    /\ Len(frames) > 1
    /\ frames' = LET below == Under(frames) IN
                 IF inspect THEN [below EXCEPT ![Len(below)].kids = Append(@, NodeOf(Top))] ELSE below
    /\ ctl' = "resume"
    /\ UNCHANGED <<config, exc, streams, context, root, err>>

Finish ==
    /\ ctl = "leave"
    /\ Len(frames) = 1
    /\ root' = IF inspect THEN <<Normalize(NodeOf(Top))>> ELSE <<>>
    /\ ctl' = "done"
    /\ UNCHANGED <<config, frames, exc, streams, context, err>>

(* The exception passes through the frames and becomes an EncodeError: no  *)
(* frame restores the context, and seek_to restores the position.          *)
Jumped == {i \in DOMAIN frames : frames[i].strm = 1 /\ Node[frames[i].fmt].kind = "pointer" /\ frames[i].at = "inner"}

Offset == IF Jumped = {} \/ ~streams[1].seekable THEN streams[1].pos
          ELSE frames[First(Jumped)].saved

Report ==
    /\ ctl = "raise"
    /\ ctl' = "done"
    /\ err' = [cause |-> exc, path |-> path, fmt |-> curFmt, offset |-> Offset]
    /\ UNCHANGED <<config, frames, exc, streams, context, root>>

Init ==
    /\ inspect \in Inspects
    /\ parents = <<MapV(<<>>)>>
    /\ path = <<>>
    /\ \E c \in DOMAIN Given : call = Given[c]
    /\ curFmt = call.fmt
    /\ frames = <<NewFrame(call.fmt, call.obj, 1, 0)>>
    /\ \E seekable \in Seekables : streams = <<Stream(seekable)>>
    /\ ctl = "run"
    /\ exc = ""
    /\ root = <<>>
    /\ err = [cause |-> "", path |-> <<>>, fmt |-> curFmt, offset |-> 0]

Next == \/ EncodeLeaf
        \/ MapEnter \/ MapField \/ MapExit
        \/ TupleItem \/ TupleExit
        \/ ArrayEnter \/ ArrayItem \/ ArrayExit
        \/ ItemBack
        \/ WrapOpen \/ SwitchOpen \/ UnionOpen \/ UnionBranch \/ WrapClose
        \/ PointerOpen \/ PointerJump \/ PointerBack
        \/ SizedOpen \/ SizedClose
        \/ Leave \/ Finish \/ Report

Spec == Init /\ [][Next]_vars

(* One thread runs the encode and nothing else can stop it.                *)
FairSpec == Spec /\ WF_vars(Next)

-----------------------------------------------------------------------------
Bytes == Seq(Byte)

TypeOK ==
    /\ inspect \in Inspects
    /\ ctl \in Controls
    /\ exc \in Refusals \cup {"", "Recursion"}
    /\ \A i \in DOMAIN streams : streams[i].data \in Bytes /\ streams[i].pos \in Nat
    /\ parents # <<>>
    /\ path \in Seq(Keys)
    /\ curFmt \in Fmt /\ err.fmt \in Fmt
    /\ frames # <<>>
    /\ \A i \in DOMAIN frames :
          /\ frames[i].fmt \in Fmt
          /\ frames[i].strm \in DOMAIN streams
          /\ frames[i].at \in {"enter", "loop", "items", "offset", "tag", "inner", "exit"}
          /\ frames[i].idx \in Nat /\ frames[i].saved \in Nat

(* The mappings entered and not left, and the keys under which the waiting *)
(* frames called the next, are what the Context says at every moment: each *)
(* push and push_path has been undone once and by the frame that made it.  *)
(* So a Ref resolves in the mapping it is written in, and the path of an   *)
(* EncodeError leads to the format that raised.                            *)
ContextFollowsStack ==
    /\ Lists(parents, ScopesOf("obj", MapV(<<>>), frames, Len(frames)))
    /\ ctl \in {"run", "leave"} => Lists(path, KeysUpto(frames, Len(frames) - 1))
    /\ ctl = "resume" => Lists(path, KeysUpto(frames, Len(frames)))
    /\ ctl = "done" /\ exc # "" =>
          Lists(err.path, KeysUpto(frames, IF exc = "Recursion" THEN Len(frames) ELSE Len(frames) - 1))

(* A Sized that is refused, because its value cannot be encoded or has the *)
(* wrong length, has written nothing: no length and no part of the value.  *)
FramedOrNothing ==
    ctl = "raise" => \A i \in DOMAIN frames :
        Node[frames[i].fmt].kind = "sized" => streams[frames[i].strm].pos = frames[i].pos0

(* What sizeof promises is what is written: a format of fixed size leaves  *)
(* its stream exactly that many bytes further, whatever the object.  (Not  *)
(* so where a Sized of constant length has a fill that is not one byte.)   *)
SizeofIsWritten ==
    ctl = "leave" /\ SizeOf[Top.fmt] >= 0 /\ TopStream.seekable =>
        TopStream.pos = Top.pos0 + SizeOf[Top.fmt]

(* Every encode ends, in bytes or in an error: a format that leads back to *)
(* itself without taking the object apart runs into the recursion limit.   *)
EncodeEnds == <>(ctl = "done")
=============================================================================
