------------------------------- MODULE Decode -------------------------------
(***************************************************************************)
(* One call of decode, decode_stream or decode_inspect: the recursion of   *)
(* _decode_stream through a format, the Type.decode methods that recurse   *)
(* back into it, and the Context they share.  The Python call stack is the *)
(* variable frames; an exception is a value that pops it, so what a method *)
(* does not clean up when an exception passes is left as the code leaves   *)
(* it.  A Type's decode and the _decode_stream that calls it share a frame.*)
(***************************************************************************)
EXTENDS CallStack

CONSTANTS Roots,       \* the formats a caller decodes with
          Inputs,      \* the byte strings it decodes
          Entries,     \* "decode", "decode_stream", or "unseekable": decode_stream
                       \* of a stream that cannot seek (ReadStreamWrapper)
          Inspects,    \* whether an inspection tree is built: a set of Booleans
          MaxDepth,    \* the recursion limit, in frames
          MaxItems     \* bound: the items counted by an unbounded greedy loop

ASSUME DecodeAssumption ==
    /\ Roots \subseteq Fmt
    /\ \A f \in Fmt : Node[f].kind \notin AdaptKinds
    /\ Inputs \subseteq Seq(Byte)
    /\ Entries \subseteq {"decode", "decode_stream", "unseekable"}
    /\ Inspects \subseteq BOOLEAN
    /\ MaxDepth \in Nat \ {0}
    /\ MaxItems \in Nat

VARIABLES entry,       \* how the caller entered
          inspect,     \* Context.inspect
          frames,      \* the Python call stack, the running frame last
          ctl,         \* what the running frame does next (see Controls)
          val,         \* the value being returned, while ctl is "leave" or "resume"
          exc,         \* the exception being raised, while ctl is "raise"
          streams,     \* the stream decoded and the BytesIO of open Sized and Switch
          dicts,       \* every mapping created: dicts[1] is the context's sentinel
          parents,     \* Context.parents: indices of dicts
          path,        \* Context.path
          curFmt,      \* Context.fmt
          nodes,       \* InspectNodes; nodes[1] stands for the context's own deque
          kidsOf,      \* the node whose children Context.inspect_children is
          outcome,     \* "none", "ok", "excess" or "error"
          err,         \* what the DecodeError reports
          origin       \* where exc was raised: its traceback (history)

config == <<entry, inspect>>
flow == <<frames, ctl, val, exc, origin>>
tree == <<nodes, kidsOf>>
result == <<outcome, err>>
vars == <<config, flow, streams, dicts, parents, path, curFmt, tree, result>>

(* "run": execute; "leave": its value is ready; "resume": a callee has     *)
(* returned to it; "raise": an exception has reached it.                   *)
Controls == {"run", "leave", "resume", "raise", "finish", "report", "done"}

(* Decoded values, as far as a Ref can tell them apart: n is the integer,  *)
(* the mapping, or the length of bytes and lists.                          *)
IntV(i) == [t |-> "int", n |-> i]
DictV(d) == [t |-> "dict", n |-> d]
RawV(len) == [t |-> "raw", n |-> len]
ListV(len) == [t |-> "list", n |-> len]
NoneV == [t |-> "none", n |-> 0]

-----------------------------------------------------------------------------
(* Streams.  Reads take what is there: see StreamIO for how.               *)
Stream(data, seekable) == [data |-> data, pos |-> 0, seekable |-> seekable]
Left(s) == IF s.pos < Len(s.data) THEN Len(s.data) - s.pos ELSE 0
Taken(s, k) == SubSeq(s.data, s.pos + 1, s.pos + k)
Advance(s, k) == [s EXCEPT !.pos = @ + k]
Seek(s, p) == IF s.seekable THEN [s EXCEPT !.pos = p] ELSE s

(* Big-endian, for the widths modelled.                                    *)
Unsigned(data) == IF Len(data) = 1 THEN data[1] ELSE 256 * data[1] + data[2]

(* The outcome of reading: how many bytes are consumed, and a value or an  *)
(* exception.                                                              *)
Got(k, v) == [ok |-> TRUE, used |-> k, val |-> v, exc |-> ""]
Failed(k, e) == [ok |-> FALSE, used |-> k, val |-> NoneV, exc |-> e]

ReadExactly(s, k, v) == IF k <= Left(s) THEN Got(k, v) ELSE Failed(Left(s), "EOF")

(* TakeUntil looks for a one-byte terminator, one byte at a time.          *)
ReadUntil(s, term, max) ==
    LET hits == {i \in 1..Left(s) : s.data[s.pos + i] = term /\ (max > 0 => i - 1 <= max)}
    IN  IF hits # {} THEN LET i == CHOOSE i \in hits : \A j \in hits : i <= j
                          IN  Got(i, RawV(i - 1))
        ELSE IF max > 0 /\ Left(s) >= max + 2 THEN Failed(max + 2, "Value")
        ELSE Failed(Left(s), "EOF")

(* The decode methods that read their own bytes and call nothing back.     *)
LeafRead(N, s) ==
    IF N.kind = "int" THEN ReadExactly(s, N.num, IntV(Unsigned(Taken(s, N.num))))
    ELSE IF N.kind = "bytes" THEN IF N.mode = "greedy" THEN Got(Left(s), RawV(Left(s)))
                                  ELSE ReadExactly(s, N.num, RawV(N.num))
    ELSE IF N.kind = "literal" THEN IF Left(s) > 0 /\ Taken(s, 1) # <<N.num>> THEN Failed(1, "Value")
                                    ELSE ReadExactly(s, 1, RawV(1))
    ELSE IF N.kind = "takeuntil" THEN ReadUntil(s, N.num, N.align)
    ELSE Got(0, NoneV)

-----------------------------------------------------------------------------
(* Context: Ref.resolve looks a key up in one of the parents.              *)
Resolve(ref) ==
    IF ref.parent > Len(parents) THEN Failed(0, "Key")
    ELSE LET d == dicts[parents[IF ref.parent = 0 THEN 1 ELSE Len(parents) - ref.parent + 1]]
         IN  IF ref.key \in DOMAIN d THEN Got(0, d[ref.key]) ELSE Failed(0, "Key")

-----------------------------------------------------------------------------
(* Frames.  at is where the frame stands, idx and todo count the fields or *)
(* items, item is the key being decoded, dict the mapping being filled,    *)
(* saved the position seek_to restores, outer the inspect_children to      *)
(* restore.  parents0, path0 and pos0 record the context and the position  *)
(* at entry (history).                                                     *)
NewFrame(f, key, s, pos, node, outer, scope, newPath) ==
    [fmt |-> f, key |-> key, strm |-> s, pos0 |-> pos, at |-> "enter", idx |-> 0, todo |-> 0,
     item |-> NoKey, dict |-> 0, saved |-> 0, node |-> node, outer |-> outer,
     parents0 |-> scope, path0 |-> newPath]

Top == frames[Len(frames)]
TopNode == Node[Top.fmt]
TopStream == streams[Top.strm]
WithTop(F) == [frames EXCEPT ![Len(frames)] = F]

Running(k) == ctl = "run" /\ TopNode.kind = k
Resuming(k) == ctl = "resume" /\ TopNode.kind = k

(* The parents there should be below the lowest n frames of a call stack;  *)
(* the mappings being filled; and what an exception records of both.       *)
ScopesUpto(stack, n) == ScopesOf("dict", 1, stack, n)
OpenMaps(stack) == [i \in {j \in DOMAIN stack : IsOpenMap(stack[j])} |-> stack[i]]

Traceback(stack, n) == [keys |-> KeysUpto(stack, n), maps |-> OpenMaps(stack)]

NewNode(key, f, off) ==
    [key |-> key, fmt |-> f, off |-> off, size |-> 0, kids |-> <<>>, closed |-> FALSE]

(* The running frame, now F, decodes f from stream s, with the streams and *)
(* the path as it has made them: _decode_stream sets Context.fmt and opens *)
(* an inspection scope.  Too deep a recursion raises in its stead.         *)
Call(F, f, key, s, newStreams, newPath, newNodes) ==
    /\ streams' = newStreams
    /\ path' = newPath
    /\ IF Len(frames) = MaxDepth
       THEN /\ frames' = WithTop(F)
            /\ ctl' = "raise"
            /\ exc' = "Recursion"
            /\ origin' = Traceback(WithTop(F), Len(frames))
            /\ nodes' = newNodes
            /\ UNCHANGED <<curFmt, kidsOf>>
       ELSE /\ frames' = Append(WithTop(F), NewFrame(f, key, s, newStreams[s].pos, Len(newNodes) + 1,
                                                    kidsOf, parents, newPath))
            /\ ctl' = "run"
            /\ curFmt' = f
            /\ nodes' = IF inspect THEN Append(newNodes, NewNode(key, f, newStreams[s].pos)) ELSE newNodes
            /\ kidsOf' = IF inspect THEN Len(newNodes) + 1 ELSE kidsOf
            /\ UNCHANGED <<exc, origin>>
    /\ UNCHANGED <<config, val, dicts, parents, result>>

Return(F, v) == /\ frames' = WithTop(F)
                /\ ctl' = "leave"
                /\ val' = v
                /\ UNCHANGED <<exc, origin>>

Raise(e) == /\ ctl' = "raise"
            /\ exc' = e
            /\ origin' = Traceback(frames, Len(frames) - 1)
            /\ UNCHANGED <<frames, val>>

(* The running frame ends by what it read from its stream.                 *)
Deliver(r) == /\ streams' = [streams EXCEPT ![Top.strm] = Advance(@, r.used)]
              /\ IF r.ok THEN Return(Top, r.val) ELSE Raise(r.exc)

DecodeLeaf == /\ ctl = "run"
              /\ TopNode.kind \in LeafKinds
              /\ Deliver(LeafRead(TopNode, TopStream))
              /\ UNCHANGED <<config, dicts, parents, path, curFmt, tree, result>>

-----------------------------------------------------------------------------
(* Mappings.  The mapping being filled becomes a parent before its first   *)
(* field and ceases to be one after its last.                              *)
MapEnter ==
    /\ Running("map")
    /\ Top.at = "enter"
    /\ dicts' = Append(dicts, <<>>)
    /\ parents' = Append(parents, Len(dicts) + 1)
    /\ frames' = WithTop([Top EXCEPT !.at = "loop", !.dict = Len(dicts) + 1])
    /\ UNCHANGED <<config, ctl, val, exc, origin, streams, path, curFmt, tree, result>>

GreedyFields(N, upto) == {i \in 1..upto : IsGreedy(N.subs[i])}

(* The next field: a second greedy one is refused, whatever came before.   *)
MapField ==
    /\ Running("map")
    /\ Top.at = "loop"
    /\ Top.idx < Len(TopNode.subs)
    /\ \E i \in DOMAIN TopNode.subs :
          /\ i = Top.idx + 1
          /\ IF \E j, k \in GreedyFields(TopNode, i) : j # k
             THEN /\ Raise("Value")
                  /\ UNCHANGED <<config, streams, dicts, parents, path, curFmt, tree, result>>
             ELSE LET key == Name(TopNode.keys[i]) IN
                  Call([Top EXCEPT !.idx = i, !.item = key], TopNode.subs[i], key, Top.strm,
                       streams, Append(path, key), nodes)

(* A field's value is stored under its key, or, for an inline field, its   *)
(* items are copied into the mapping.                                      *)
Stored(d, key, v) == [k \in DOMAIN d \cup {key} |-> IF k = key THEN v ELSE d[k]]
Merged(d, e) == [k \in DOMAIN d \cup DOMAIN e |-> IF k \in DOMAIN e THEN e[k] ELSE d[k]]

(* Wrong version: pop_path is forgotten.                                   *)
StoreKeepsPath ==
    /\ Resuming("map")
    /\ dicts' = [dicts EXCEPT ![Top.dict] =
                    IF Node[TopNode.subs[Top.idx]].kind = "sized" /\ Node[TopNode.subs[Top.idx]].flag
                    THEN Merged(@, dicts[val.n]) ELSE Stored(@, Top.item.name, val)]
    /\ ctl' = "run"
    /\ UNCHANGED <<config, frames, val, exc, origin, streams, parents, path, curFmt, tree, result>>

MapStore ==
    /\ Resuming("map")
    /\ dicts' = [dicts EXCEPT ![Top.dict] =
                    IF Node[TopNode.subs[Top.idx]].kind = "sized" /\ Node[TopNode.subs[Top.idx]].flag
                    THEN Merged(@, dicts[val.n]) ELSE Stored(@, Top.item.name, val)]
    /\ path' = Under(path)
    /\ ctl' = "run"
    /\ UNCHANGED <<config, frames, val, exc, origin, streams, parents, curFmt, tree, result>>

(* Wrong versions: pop is forgotten, or called twice.                      *)
ExitLeaving(scope) ==
    /\ Running("map")
    /\ Top.at = "loop"
    /\ Top.idx = Len(TopNode.subs)
    /\ parents' = scope
    /\ Return([Top EXCEPT !.at = "exit"], DictV(Top.dict))
    /\ UNCHANGED <<config, streams, dicts, path, curFmt, tree, result>>

ExitWithoutPop == ExitLeaving(parents)
ExitPopsTwice == ExitLeaving(SubSeq(parents, 1, Len(parents) - 2))

MapExit ==
    /\ Running("map")
    /\ Top.at = "loop"
    /\ Top.idx = Len(TopNode.subs)
    /\ parents' = Under(parents)
    /\ Return([Top EXCEPT !.at = "exit"], DictV(Top.dict))
    /\ UNCHANGED <<config, streams, dicts, path, curFmt, tree, result>>

-----------------------------------------------------------------------------
(* Iterables, and the element loops of Array, which differ in where they   *)
(* stop.                                                                   *)
CallItem(i, f) ==
    Call([Top EXCEPT !.item = Index(i)], f, Index(i), Top.strm, streams, Append(path, Index(i)), nodes)

TupleItem ==
    /\ Running("tuple")
    /\ \E i \in DOMAIN TopNode.subs : i = Top.idx + 1 /\ CallItem(Top.idx, TopNode.subs[i])

(* A counted loop runs todo times; a greedy one until something fails.     *)
ArrayItem ==
    /\ Running("array")
    /\ Top.at = "greedy" \/ (Top.at = "items" /\ Top.idx < Top.todo)
    /\ CallItem(Top.idx, TopNode.subs[1])

NextIndex(i) == IF Top.at = "greedy" /\ i = MaxItems THEN i ELSE i + 1

ItemStore ==
    /\ Resuming("tuple") \/ Resuming("array")
    /\ path' = Under(path)
    /\ frames' = WithTop([Top EXCEPT !.idx = NextIndex(@)])
    /\ ctl' = "run"
    /\ UNCHANGED <<config, val, exc, origin, streams, dicts, parents, curFmt, tree, result>>

ItemsExit ==
    /\ \/ Running("tuple") /\ Top.idx = Len(TopNode.subs)
       \/ Running("array") /\ Top.at = "items" /\ Top.idx >= Top.todo
    /\ Return(Top, ListV(Top.idx))
    /\ UNCHANGED <<config, streams, dicts, parents, path, curFmt, tree, result>>

(* The greedy loop ends on any exception, and pops one path segment.       *)
Catches(F) == \/ Node[F.fmt].kind = "array" /\ F.at = "greedy"
              \/ Node[F.fmt].kind = "optional" /\ F.at = "inner" /\ exc = "EOF"

(* Wrong versions: the path is popped twice; the loop goes on.             *)
CatchPopsTwice ==
    /\ ctl = "raise"
    /\ Catches(Top)
    /\ TopNode.kind = "array"
    /\ path' = SubSeq(path, 1, Len(path) - 2)
    /\ Return(Top, ListV(Top.idx))
    /\ UNCHANGED <<config, streams, dicts, parents, curFmt, tree, result>>

CatchContinues ==
    /\ ctl = "raise"
    /\ Catches(Top)
    /\ TopNode.kind = "array"
    /\ path' = Under(path)
    /\ ctl' = "run"
    /\ UNCHANGED <<config, frames, val, exc, origin, streams, dicts, parents, curFmt, tree, result>>

GreedyCatch ==
    /\ ctl = "raise"
    /\ Catches(Top)
    /\ TopNode.kind = "array"
    /\ path' = Under(path)
    /\ Return(Top, ListV(Top.idx))
    /\ UNCHANGED <<config, streams, dicts, parents, curFmt, tree, result>>

(* How many elements an Array without prefix reads in one fromfile: the    *)
(* elements are numbers, and no nodes are wanted for them.                 *)
IsFast(N) == Node[N.subs[1]].kind = "int" /\ N.mode # "prefix" /\ ~inspect

Remaining(s) == Len(s.data) - s.pos

(* The number of elements, where the stream's length has a say.            *)
CountToEnd(s, size) == IF ~s.seekable THEN Failed(0, "Type")
                       ELSE IF size = 0 THEN Failed(0, "ZeroDivision")
                       ELSE Got(0, IntV(Remaining(s) \div size))

Count(N, s) ==
    LET size == SizeOf[N.subs[1]]
        sibling == Resolve(N.ref)
    IN  IF N.mode = "const" THEN Got(0, IntV(N.num))
        ELSE IF N.mode = "prefix" THEN ReadExactly(s, 1, IntV(Unsigned(Taken(s, 1))))
        ELSE IF N.mode = "greedy" THEN CountToEnd(s, size)
        ELSE IF ~sibling.ok THEN IF IsFast(N) THEN CountToEnd(s, size) ELSE sibling
        ELSE IF sibling.val.t = "int" THEN sibling ELSE Failed(0, "Type")

(* fromfile refuses a negative count.  It appends what it could read, which*)
(* must be whole elements, before it reports a short read.                 *)
FromFile(s, count, size) ==
    LET r == ReadExactly(s, count * size, ListV(count)) IN
    IF count < 0 THEN Failed(0, "Value")
    ELSE IF ~r.ok /\ Left(s) % size # 0 THEN Failed(Left(s), "Value")
    ELSE r

(* A greedy loop over elements without a fixed size never counts.          *)
LoopsGreedily == /\ TopNode.mode = "greedy"
                 /\ ~IsFast(TopNode)
                 /\ TopStream.seekable
                 /\ SizeOf[TopNode.subs[1]] < 0

ArrayGreedy == /\ Running("array")
               /\ Top.at = "enter"
               /\ LoopsGreedily
               /\ frames' = WithTop([Top EXCEPT !.at = "greedy"])
               /\ UNCHANGED <<config, ctl, val, exc, origin, streams, dicts, parents, path, curFmt, tree, result>>

ArrayCount ==
    /\ Running("array")
    /\ Top.at = "enter"
    /\ ~LoopsGreedily
    /\ LET c == Count(TopNode, TopStream) IN
       IF IsFast(TopNode) \/ ~c.ok
       THEN Deliver(IF c.ok THEN FromFile(TopStream, c.val.n, SizeOf[TopNode.subs[1]]) ELSE c)
       ELSE /\ frames' = WithTop([Top EXCEPT !.at = "items", !.todo = c.val.n])
            /\ streams' = [streams EXCEPT ![Top.strm] = Advance(@, c.used)]
            /\ UNCHANGED <<ctl, val, exc, origin>>
    /\ UNCHANGED <<config, dicts, parents, path, curFmt, tree, result>>

-----------------------------------------------------------------------------
(* Formats that hand their stream, or a part of it, to a wrapped format.   *)
CallInner(F, f, key, s, newStreams, newNodes) ==
    Call([F EXCEPT !.at = "inner"], f, key, s, newStreams, path, newNodes)

(* Optional and Lazy decode their format where they stand.                 *)
WrapOpen ==
    /\ Running("optional") \/ Running("lazy")
    /\ CallInner(Top, TopNode.subs[1], NoKey, Top.strm, streams, nodes)

OptionalCatch ==
    /\ ctl = "raise"
    /\ Catches(Top)
    /\ TopNode.kind = "optional"
    /\ Return(Top, NoneV)
    /\ UNCHANGED <<config, streams, dicts, parents, path, curFmt, tree, result>>

(* Switch takes the rest of its stream before it looks at its key.  A      *)
(* mapping or a list is no dictionary key.                                 *)
Case(N, v) == {i \in DOMAIN N.subs : \/ v.t = "int" /\ i \in DOMAIN N.on /\ N.on[i] = v.n
                                     \/ i > Len(N.on)}

SwitchOpen ==
    /\ Running("switch")
    /\ LET sibling == Resolve(TopNode.ref)
           cases == Case(TopNode, sibling.val)
           rest == Left(TopStream)
           drained == [streams EXCEPT ![Top.strm] = Advance(@, rest)]
           failure == IF ~sibling.ok THEN "Key"
                      ELSE IF sibling.val.t \in {"dict", "list"} THEN "Type"
                      ELSE IF cases = {} THEN "Key" ELSE ""
       IN  IF failure # ""
           THEN /\ streams' = drained
                /\ Raise(failure)
                /\ UNCHANGED <<config, dicts, parents, path, curFmt, tree, result>>
           ELSE \E i \in cases :
                  /\ \A j \in cases : i <= j
                  /\ CallInner(Top, TopNode.subs[i], NoKey, Len(streams) + 1,
                               Append(drained, Stream(Taken(TopStream, rest), TRUE)), nodes)

(* Pointer decodes its offset, jumps there if its stream can, decodes the  *)
(* pointed value, and jumps back.                                          *)
PointerOffset ==
    /\ Running("pointer")
    /\ Call([Top EXCEPT !.at = "offset"], TopNode.subs[1], Name("offset"), Top.strm, streams, path, nodes)

PointerJump ==
    /\ Resuming("pointer")
    /\ Top.at = "offset"
    /\ IF TopNode.flag /\ val.n = 0
       THEN /\ Return(Top, NoneV)
            /\ UNCHANGED <<config, streams, dicts, parents, path, curFmt, tree, result>>
       ELSE CallInner([Top EXCEPT !.saved = TopStream.pos], TopNode.subs[2], Name("value"), Top.strm,
                      [streams EXCEPT ![Top.strm] = Seek(@, TopNode.num + val.n)], nodes)

Inside(F) == Node[F.fmt].kind = "pointer" /\ F.at = "inner"

(* Wrong version: the position is not restored.                            *)
PointerStays ==
    /\ Resuming("pointer")
    /\ Top.at = "inner"
    /\ Return(Top, val)
    /\ UNCHANGED <<config, streams, dicts, parents, path, curFmt, tree, result>>

PointerBack ==
    /\ Resuming("pointer")
    /\ Top.at = "inner"
    /\ streams' = [streams EXCEPT ![Top.strm] = Seek(@, Top.saved)]
    /\ Return(Top, val)
    /\ UNCHANGED <<config, dicts, parents, path, curFmt, tree, result>>

WrapClose ==
    /\ Resuming("optional") \/ Resuming("lazy") \/ Resuming("switch")
    /\ Return(Top, val)
    /\ UNCHANGED <<config, streams, dicts, parents, path, curFmt, tree, result>>

(* Sized: its length, the bytes of the value and the padding after it are  *)
(* read before the value is decoded from them.  A Ref to None makes a      *)
(* BytesIO read everything, which then has the wrong size.                 *)
SizedLength(N, s) ==
    LET sibling == Resolve(N.ref)
    IN  IF N.mode = "const" THEN Got(0, IntV(N.num))
        ELSE IF N.mode = "prefix" THEN ReadExactly(s, 1, IntV(Unsigned(Taken(s, 1))))
        ELSE IF ~sibling.ok \/ sibling.val.t = "int" THEN sibling
        ELSE IF sibling.val.t = "none" /\ s.seekable THEN Failed(Left(s), "EOF")
        ELSE Failed(0, "Type")

PadLen(N, len) == IF N.mode = "const" \/ N.align = 0 THEN 0
                  ELSE (N.align - (len % N.align)) % N.align

(* The length, then the framed bytes: the whole prologue of Sized.decode.  *)
Frame(N, s) ==
    LET length == SizedLength(N, s)
        len == length.val.n
        total == length.used + len + PadLen(N, len)
    IN  IF ~length.ok THEN length
        ELSE IF total > Left(s) THEN Failed(Left(s), "EOF")
        ELSE IF ~IsPadding(N.fill, SubSeq(s.data, s.pos + length.used + len + 1, s.pos + total))
             THEN Failed(total, "Value")
        ELSE Got(total, IntV(len))

(* inspect_leaf records the prefix once it is read, as a closed node.      *)
WithSizeLeaf(N, s, length) ==
    IF inspect /\ N.mode = "prefix" /\ length.ok
    THEN Append([nodes EXCEPT ![kidsOf].kids = Append(@, Len(nodes) + 1)],
                [NewNode(Name("--size--"), Top.fmt, s.pos) EXCEPT !.size = length.used, !.closed = TRUE])
    ELSE nodes

SizedOpen ==
    /\ Running("sized")
    /\ LET N == TopNode
           s == TopStream
           length == SizedLength(N, s)
           r == Frame(N, s)
           recorded == WithSizeLeaf(N, s, length)
       IN  IF r.ok
           THEN CallInner(Top, N.subs[1], NoKey, Len(streams) + 1,
                          Append([streams EXCEPT ![Top.strm] = Advance(@, r.used)],
                                 Stream(Taken(Advance(s, length.used), r.val.n), TRUE)), recorded)
           ELSE /\ Deliver(r)
                /\ nodes' = recorded
                /\ UNCHANGED <<config, dicts, parents, path, curFmt, kidsOf, result>>

(* A constant size is checked afterwards: what the value left must be fill.*)
SizedClose ==
    /\ Resuming("sized")
    /\ LET inner == streams[Len(streams)] IN
       IF TopNode.mode = "const" /\ ~IsPadding(TopNode.fill, Taken(inner, Left(inner)))
       THEN Raise("Value") ELSE Return(Top, val)
    /\ UNCHANGED <<config, streams, dicts, parents, path, curFmt, tree, result>>

-----------------------------------------------------------------------------
(* Wrong version: inspect_children stays with the scope that closed.       *)
LeaveKeepsScope ==
    /\ ctl = "leave"
    /\ frames' = Under(frames)
    /\ streams' = SubSeq(streams, 1, Top.strm)
    /\ ctl' = IF Len(frames) = 1 THEN "finish" ELSE "resume"
    /\ nodes' = IF inspect
                THEN [nodes EXCEPT ![Top.node].size = TopStream.pos - nodes[Top.node].off,
                                   ![Top.node].closed = TRUE,
                                   ![Top.outer].kids = Append(@, Top.node)]
                ELSE nodes
    /\ UNCHANGED <<config, val, exc, origin, dicts, parents, path, curFmt, kidsOf, result>>

(* A decode returns: its inspection scope closes and becomes a child of    *)
(* the scope around it.                                                    *)
Leave ==
    /\ ctl = "leave"
    /\ frames' = Under(frames)
    /\ streams' = SubSeq(streams, 1, Top.strm)
    /\ ctl' = IF Len(frames) = 1 THEN "finish" ELSE "resume"
    /\ nodes' = IF inspect
                THEN [nodes EXCEPT ![Top.node].size = TopStream.pos - nodes[Top.node].off,
                                   ![Top.node].closed = TRUE,
                                   ![Top.outer].kids = Append(@, Top.node)]
                ELSE nodes
    /\ kidsOf' = IF inspect THEN Top.outer ELSE kidsOf
    /\ UNCHANGED <<config, val, exc, origin, dicts, parents, path, curFmt, result>>

(* Wrong version: pop_path in a finally clause, before the error reads it. *)
UnwindPops ==
    /\ ctl = "raise"
    /\ ~Catches(Top)
    /\ frames' = Under(frames)
    /\ streams' = SubSeq(streams, 1, Top.strm)
    /\ path' = IF IsContainer(Top) THEN Under(path) ELSE path
    /\ ctl' = IF Len(frames) = 1 THEN "report" ELSE "raise"
    /\ UNCHANGED <<config, val, exc, origin, dicts, parents, curFmt, tree, result>>

(* An exception passes through a frame.  Only seek_to cleans up: neither   *)
(* the parents, nor the path, nor the inspection scope are restored.       *)
Unwind ==
    /\ ctl = "raise"
    /\ ~Catches(Top)
    /\ frames' = Under(frames)
    /\ streams' = LET s == IF Inside(Top) THEN Seek(TopStream, Top.saved) ELSE TopStream
                  IN  SubSeq([streams EXCEPT ![Top.strm] = s], 1, Top.strm)
    /\ ctl' = IF Len(frames) = 1 THEN "report" ELSE "raise"
    /\ UNCHANGED <<config, val, exc, origin, dicts, parents, path, curFmt, tree, result>>

(* decode and decode_inspect refuse bytes left over; decode_stream leaves  *)
(* them to its caller.                                                     *)
Finish ==
    /\ ctl = "finish"
    /\ ctl' = "done"
    /\ outcome' = IF entry = "decode" /\ Remaining(streams[1]) # 0 THEN "excess" ELSE "ok"
    /\ UNCHANGED <<config, frames, val, exc, origin, streams, dicts, parents, path, curFmt, tree, err>>

(* The partial results are linked into one tree: the i-th field name of    *)
(* the path becomes, in the i-th mapping, the next mapping.                *)
Names == {p \in DOMAIN path : IsName(path[p])}

StitchedBy(offset) ==
    LET Links(d) == {i \in 2..(Len(parents) - 1) : parents[i] = d /\ i - offset <= Cardinality(Names)}
    IN  [d \in DOMAIN dicts |->
           IF Links(d) = {} THEN dicts[d]
           ELSE LET i == CHOOSE i \in Links(d) : TRUE
                    p == CHOOSE p \in Names : Rank(Names, p) = i - offset
                IN  Stored(dicts[d], path[p].name, DictV(parents[i + 1]))]

(* Wrong version: the name of the next level.                              *)
StitchedNext == StitchedBy(0)
Stitched == StitchedBy(1)

(* An exception that reached the caller becomes a DecodeError.             *)
Report ==
    /\ ctl = "report"
    /\ ctl' = "done"
    /\ outcome' = "error"
    /\ err' = [cause |-> exc, path |-> path, fmt |-> curFmt,
               context |-> parents[IF Len(parents) > 1 THEN 2 ELSE 1],
               local |-> parents[Len(parents)]]
    /\ dicts' = Stitched
    /\ UNCHANGED <<config, frames, val, exc, origin, streams, parents, path, curFmt, tree>>

NoError == [cause |-> "", path |-> <<>>, fmt |-> CHOOSE f \in Fmt : TRUE, context |-> 1, local |-> 1]

Init ==
    /\ entry \in Entries
    /\ inspect \in Inspects
    /\ \E root \in Roots :
          /\ frames = <<NewFrame(root, NoKey, 1, 0, 2, 1, <<1>>, <<>>)>>
          /\ curFmt = root
    /\ \E data \in Inputs : streams = <<Stream(data, entry # "unseekable")>>
    /\ ctl = "run"
    /\ val = NoneV
    /\ exc = ""
    /\ origin = Traceback(<<>>, 0)
    /\ dicts = <<<<>>>>
    /\ parents = <<1>>
    /\ path = <<>>
    /\ nodes = [i \in 1..(IF inspect THEN 2 ELSE 1) |-> NewNode(NoKey, curFmt, 0)]
    /\ kidsOf = IF inspect THEN 2 ELSE 1
    /\ outcome = "none"
    /\ err = NoError

Next == \/ DecodeLeaf
        \/ MapEnter \/ MapField \/ MapStore \/ MapExit
        \/ TupleItem \/ ArrayItem \/ ItemStore \/ ItemsExit \/ GreedyCatch
        \/ ArrayGreedy \/ ArrayCount
        \/ WrapOpen \/ OptionalCatch \/ SwitchOpen \/ WrapClose
        \/ PointerOffset \/ PointerJump \/ PointerBack
        \/ SizedOpen \/ SizedClose
        \/ Leave \/ Unwind \/ Finish \/ Report

Spec == Init /\ [][Next]_vars

(* One thread runs the decode and nothing else can stop it.                *)
FairSpec == Spec /\ WF_vars(Next)

-----------------------------------------------------------------------------
Values == [t : {"int", "dict", "raw", "list", "none"}, n : Int]

TypeOK ==
    /\ entry \in Entries /\ inspect \in Inspects
    /\ ctl \in Controls
    /\ val \in Values
    /\ exc \in {"", "EOF", "Key", "Value", "Type", "ZeroDivision", "Recursion"}
    /\ \A i \in DOMAIN streams : streams[i].data \in Seq(Byte) /\ streams[i].pos \in Nat
    /\ \A i \in DOMAIN dicts : \A k \in DOMAIN dicts[i] : k \in FieldNames /\ dicts[i][k] \in Values
    /\ parents \in Seq(DOMAIN dicts) /\ parents # <<>>
    /\ path \in Seq(Keys)
    /\ curFmt \in Fmt
    /\ kidsOf \in DOMAIN nodes
    /\ outcome \in {"none", "ok", "excess", "error"}
    /\ (ctl \in {"finish", "report", "done"}) = (frames = <<>>)
    /\ \A i \in DOMAIN frames :
          /\ frames[i].fmt \in Fmt
          /\ frames[i].strm \in DOMAIN streams
          /\ frames[i].at \in {"enter", "loop", "items", "greedy", "offset", "inner", "exit"}
          /\ frames[i].outer \in DOMAIN nodes
          /\ inspect => frames[i].node \in DOMAIN nodes
          /\ IsOpenMap(frames[i]) => frames[i].dict \in DOMAIN dicts

(* Nothing above an exception handler pushes on the context: what Optional *)
(* and the greedy loop wrap is decoded by one frame.                       *)
Swallows(f) == \/ Node[f].kind = "optional"
               \/ IsGreedyArray(f) /\ SizeOf[Node[f].subs[1]] < 0

Tidy == \A f \in Fmt : Swallows(f) => Node[Node[f].subs[1]].kind \in LeafKinds

(* Whatever exceptions were swallowed on the way, for every format: what   *)
(* a running decode was given stays below what it and its callees push,    *)
(* and the mapping it fills is the parent it pushed.  No pop of a callee   *)
(* takes a mapping or a path segment of the decodes around it, so a pop    *)
(* never finds an empty deque and an outer Ref its own mapping gone.       *)
Anchor(F) == IF IsOpenMap(F) THEN Append(F.parents0, F.dict) ELSE F.parents0

AncestorsKept == \A i \in DOMAIN frames : /\ Extends(parents, Anchor(frames[i]))
                                         /\ Extends(path, frames[i].path0)

(* A decode that completes hands the parents and the path back as it found *)
(* them: what push and push_path put there, pop and pop_path removed, also *)
(* when an exception was swallowed on the way.                             *)
ContextNeutral == ctl = "leave" => parents = Top.parents0 /\ path = Top.path0

(* The parents are the mappings being decoded, outermost first, so that    *)
(* Ref(key) resolves in the current parent mapping (docs/types-api.md).    *)
RefSeesSiblings == ctl \in {"run", "resume"} => Lists(parents, ScopesUpto(frames, Len(frames)))

(* The path of a DecodeError names the fields and indices down to the      *)
(* format that raised, whatever was decoded, swallowed or retried before.  *)
ErrorPathExact == outcome = "error" => Lists(err.path, origin.keys)

(* The context of a DecodeError is the partial result: its root is the     *)
(* outermost open mapping, each open mapping is reached from the one       *)
(* around it under the field being decoded, and the innermost one is the   *)
(* local context.                                                          *)
ErrorContextStitched ==
    outcome = "error" =>
        LET open == origin.maps IN
        /\ DOMAIN open = {} => err.context = 1 /\ err.local = 1
        /\ \A i \in DOMAIN open :
              /\ (\A j \in DOMAIN open : i <= j) => err.context = open[i].dict
              /\ (\A j \in DOMAIN open : j <= i) => err.local = open[i].dict
              /\ \A k \in DOMAIN open : i < k /\ (\A j \in DOMAIN open : j <= i \/ k <= j) =>
                    LET held == dicts[open[i].dict]
                        key == open[i].item.name
                    IN  key \in DOMAIN held /\ held[key] = DictV(open[k].dict)

(* What sizeof promises is what a decode consumes: a format of fixed size  *)
(* leaves its stream exactly that many bytes further, through containers,  *)
(* arrays, constant Sized frames and pointers that jump and come back.     *)
SizeofIsConsumed ==
    ctl = "leave" /\ entry # "unseekable" /\ SizeOf[Top.fmt] >= 0 =>
        TopStream.pos = Top.pos0 + SizeOf[Top.fmt]

(* The children of a closed inspection node are closed, and those of a     *)
(* mapping, an iterable or an array are its fields, in order, tiling the   *)
(* bytes of the node: none is lost, duplicated or attached to another node *)
(* when scopes nest or an exception leaves them half open.  An unbounded   *)
(* loop counts no further than MaxItems.                                   *)
Tiles(M) ==
    /\ \A i \in DOMAIN M.kids : i < Len(M.kids) =>
          nodes[M.kids[i + 1]].off = nodes[M.kids[i]].off + nodes[M.kids[i]].size
    /\ M.kids # <<>> => LET last == nodes[M.kids[Len(M.kids)]]
                       IN  last.off + last.size <= M.off + M.size

FieldKeys(N) == IF N.kind = "map" THEN [i \in DOMAIN N.keys |-> Name(N.keys[i])]
                ELSE [i \in DOMAIN N.subs |-> Index(i - 1)]

InspectionTiles ==
    \A m \in DOMAIN nodes :
        LET M == nodes[m]
            N == Node[M.fmt]
        IN  M.closed =>
              /\ \A i \in DOMAIN M.kids : nodes[M.kids[i]].closed
              /\ N.kind \in {"map", "tuple"} => [i \in DOMAIN M.kids |-> nodes[M.kids[i]].key] = FieldKeys(N)
              /\ N.kind = "array" => \A i \in DOMAIN M.kids :
                                        \/ nodes[M.kids[i]].key = Index(i - 1)
                                        \/ N.mode = "greedy" /\ i - 1 > MaxItems
              /\ N.kind \in {"map", "tuple", "array"} => Tiles(M)

(* Every decode ends, by a result or by an error: recursion and pointer    *)
(* cycles run into the recursion limit, and loops run out of bytes.  A     *)
(* greedy array whose element may consume nothing without raising, as an   *)
(* Optional at the end of its stream, is the exception.                    *)
DecodeEnds == <>(ctl = "done")
=============================================================================
