------------------------------- MODULE MsgPack -------------------------------
(***************************************************************************)
(* One call of MsgPack.decode.  Without inspection every value, nested     *)
(* ones too, is first tried on a fast path: its bytes are copied off the   *)
(* stream and handed to msgspec, and if that fails the stream is put back  *)
(* and the value decoded again by the slow path, whose nested values try   *)
(* the fast path in turn.  The Python call stack is the variable calls; no *)
(* handler stands between a slow path and the caller, so an exception ends *)
(* the decode.                                                             *)
(***************************************************************************)
EXTENDS InspectNodes, Octets, FiniteSets

CONSTANTS Wires,     \* the byte strings a stream holds
          Settings,  \* MsgPack instances: [array, map], the container types
          Streams,   \* "file": seeks, reads in full; "pipe": a ReadStreamWrapper,
                     \* cannot seek and may read less than it is asked for
          Inspects,  \* whether an inspection tree is built: a set of Booleans
          Holds(_),  \* whether msgspec has objects for a value it has read
          Unpacks(_, _), \* and what the fast path of an instance makes of them
          Normalize(_)   \* what _normalize_inspect_tree makes of a tree

ASSUME MsgPackAssumption ==
    /\ Wires \subseteq Seq(0..255)
    /\ Settings \subseteq [array : {"list", "tuple"}, map : {"dict", "tuple"}]
    /\ Streams \subseteq {"file", "pipe"}
    /\ Inspects \subseteq BOOLEAN

VARIABLES wire, stream, setting, inspect,
          pos,       \* the position in the stream
          calls,     \* the calls of decode under way, the running one last
          outcome,   \* "none", "ok" or the exception raised
          val,       \* the value decoded
          tree,      \* its inspection tree
          missed     \* whether a fast path has failed (history)

given == <<wire, stream, setting, inspect>>
result == <<outcome, val, tree>>
vars == <<given, pos, calls, result, missed>>

-----------------------------------------------------------------------------
(* Decoded values: an integer, the bytes of a text, or the members of a    *)
(* container, those of a dict alternately keys and values.                 *)
Value(t, n, text, xs, hash) == [t |-> t, n |-> n, text |-> text, xs |-> xs, hash |-> hash]
ScalarV(t, n, text) == Value(t, n, text, <<>>, TRUE)
NilV == ScalarV("nil", 0, <<>>)
SeqV(t, xs) == Value(t, 0, <<>>, xs, t = "tuple" /\ \A i \in DOMAIN xs : xs[i].hash)

KeysOf(xs) == {xs[i] : i \in {j \in DOMAIN xs : j % 2 = 1}}

(* dict: a repeated key keeps its place and takes the last value.          *)
PutItem(d, k, v) ==
    IF \E i \in DOMAIN d : i % 2 = 1 /\ d[i] = k
    THEN [d EXCEPT ![1 + CHOOSE i \in DOMAIN d : i % 2 = 1 /\ d[i] = k] = v]
    ELSE d \o <<k, v>>
DictOf(xs) ==
    FoldLeft(LAMBDA d, i : PutItem(d, xs[2 * i - 1], xs[2 * i]), <<>>, [i \in 1..Len(xs) \div 2 |-> i])
DictV(xs) == Value("dict", 0, <<>>, DictOf(xs), FALSE)
PairsV(xs) == SeqV("tuple", [i \in 1..Len(xs) \div 2 |-> SeqV("tuple", <<xs[2 * i - 1], xs[2 * i]>>)])

(* array_type and map_type applied to what the generators yield.           *)
CanHold(S, t, xs) == t = "map" /\ S.map = "dict" => \A k \in KeysOf(xs) : k.hash
Container(S, t, xs) ==
    IF t = "array" THEN SeqV(S.array, xs)
    ELSE IF S.map = "dict" THEN DictV(xs) ELSE PairsV(xs)

(* __post_init__: the instance that decodes the keys of maps.              *)
Keysafe(S) == IF S.array = "tuple" THEN S ELSE [array |-> "tuple", map |-> "tuple"]

-----------------------------------------------------------------------------
(* _copy_stream_frame: what follows a tag, as the copier has it: a size    *)
(* field, a number of bytes and a number of frames, either fixed or so     *)
(* many for each unit of the size.  The integers of one to four bytes are  *)
(* given a size field as well as their bytes, as the code does.            *)
Shape(width, bytes, frames, perBytes, perFrames) ==
    [known |-> TRUE, width |-> width, bytes |-> bytes, frames |-> frames,
     perBytes |-> perBytes, perFrames |-> perFrames]

CopyShape(tag) ==
    IF tag <= 127 \/ tag >= 224 \/ tag \in {192, 194, 195} THEN Shape(0, 0, 0, 0, 0)
    ELSE IF tag \in 128..143 THEN Shape(0, 0, 2 * (tag % 16), 0, 0)
    ELSE IF tag \in 144..159 THEN Shape(0, 0, tag % 16, 0, 0)
    ELSE IF tag \in 160..191 THEN Shape(0, tag % 32, 0, 0, 0)
    ELSE IF tag \in {196, 217} THEN Shape(1, 0, 0, 1, 0)
    ELSE IF tag \in {197, 218} THEN Shape(2, 0, 0, 1, 0)
    ELSE IF tag \in {198, 219} THEN Shape(4, 0, 0, 1, 0)
    ELSE IF tag \in {204, 208} THEN Shape(1, 1, 0, 0, 0)
    ELSE IF tag \in {205, 209} THEN Shape(2, 2, 0, 0, 0)
    ELSE IF tag \in {206, 210} THEN Shape(4, 4, 0, 0, 0)
    ELSE IF tag \in {207, 211, 203} THEN Shape(0, 8, 0, 0, 0)
    ELSE IF tag = 202 THEN Shape(0, 4, 0, 0, 0)
    ELSE IF tag = 220 THEN Shape(2, 0, 0, 0, 1)
    ELSE IF tag = 221 THEN Shape(4, 0, 0, 0, 1)
    ELSE IF tag = 222 THEN Shape(2, 0, 0, 0, 2)
    ELSE IF tag = 223 THEN Shape(4, 0, 0, 0, 2)
    ELSE [Shape(0, 0, 0, 0, 0) EXCEPT !.known = FALSE]

-----------------------------------------------------------------------------
(* MessagePack itself, as msgspec reads it: a tag gives the type, the      *)
(* width of a size field or none, and without one the size.                *)
Widths == <<1, 2, 4, 8>>
Header(t, width, size) == [t |-> t, width |-> width, size |-> size]

TagHeader(tag) ==
    IF tag \in 0..127 \cup 224..255 THEN Header("fixint", 0, 0)
    ELSE IF tag \in 128..143 THEN Header("map", 0, tag - 128)
    ELSE IF tag \in 144..159 THEN Header("array", 0, tag - 144)
    ELSE IF tag \in 160..191 THEN Header("str", 0, tag - 160)
    ELSE IF tag = 192 THEN Header("nil", 0, 0)
    ELSE IF tag \in {194, 195} THEN Header("bool", 0, 0)
    ELSE IF tag \in 196..198 THEN Header("bin", Widths[tag - 195], 0)
    ELSE IF tag \in 202..203 THEN Header("float", 0, 4 * (tag - 201))
    ELSE IF tag \in 204..207 THEN Header("uint", 0, Widths[tag - 203])
    ELSE IF tag \in 208..211 THEN Header("sint", 0, Widths[tag - 207])
    ELSE IF tag \in 217..219 THEN Header("str", Widths[tag - 216], 0)
    ELSE IF tag \in 220..221 THEN Header("array", 2 * (tag - 219), 0)
    ELSE IF tag \in 222..223 THEN Header("map", 2 * (tag - 221), 0)
    ELSE Header("unknown", 0, 0)

PlainV(tag, t, data) ==
    CASE t = "fixint" -> ScalarV("int", IF tag < 128 THEN tag ELSE tag - 256, <<>>)
      [] t = "uint" -> ScalarV("int", Unsigned(data), <<>>)
      [] t = "sint" -> ScalarV("int", Signed(data), <<>>)
      [] t = "nil" -> NilV
      [] t = "bool" -> ScalarV("bool", tag - 194, <<>>)
      [] t \in {"str", "bin", "float"} -> ScalarV(t, 0, data)

(* What stands at position p of w: a head and where it ends, how many      *)
(* bytes belong to it, and how many values.                                *)
NoHead == [ok |-> FALSE, t |-> "unknown", body |-> 0, bytes |-> 0, values |-> 0]

HeadWith(w, p, h) ==
    LET body == p + 1 + h.width
        size == IF h.width = 0 THEN h.size ELSE Unsigned(SubSeq(w, p + 2, body))
    IN  IF h.t = "unknown" \/ body > Len(w) THEN NoHead
        ELSE [ok |-> TRUE, t |-> h.t, body |-> body,
              bytes |-> IF h.t \in {"array", "map"} THEN 0 ELSE size,
              values |-> IF h.t = "array" THEN size ELSE IF h.t = "map" THEN 2 * size ELSE 0]

HeadAt(w, p) == IF p >= Len(w) THEN NoHead ELSE HeadWith(w, p, TagHeader(w[p + 1]))

(* n values read one after the other from position p of w: arrays and maps *)
(* as such, for the reader to make containers of.  values is what is read  *)
(* further on, starts where the values read start, also if one that is not *)
(* well-formed comes to an end of it.                                      *)
Parsed(xs, end, starts) == [ok |-> TRUE, xs |-> xs, end |-> end, starts |-> starts]
NotParsed(starts) == [ok |-> FALSE, xs |-> <<>>, end |-> 0, starts |-> starts]

FirstWith(w, p, h, values) ==
    LET end == h.body + h.bytes
        data == SubSeq(w, h.body + 1, end)
        inner == values[h.body][h.values]
        starts == {p} \cup inner.starts
    IN  IF ~h.ok THEN NotParsed({p})
        ELSE IF h.t \in {"array", "map"}
        THEN IF inner.ok THEN Parsed(<<Value(h.t, 0, <<>>, inner.xs, FALSE)>>, inner.end, starts)
             ELSE NotParsed(starts)
        ELSE IF end > Len(w) \/ (h.t = "str" /\ ~IsText(data)) THEN NotParsed({p})
             ELSE Parsed(<<PlainV(w[p + 1], h.t, data)>>, end, {p})

FirstAt(w, p, values) == FirstWith(w, p, HeadAt(w, p), values)

ValuesAt(w, p, n, values) ==
    LET first == FirstAt(w, p, values)
        rest == values[first.end][n - 1]
        starts == first.starts \cup rest.starts
    IN  IF n = 0 THEN Parsed(<<>>, p, {})
        ELSE IF ~first.ok THEN first
        ELSE IF rest.ok THEN Parsed(first.xs \o rest.xs, rest.end, starts)
        ELSE NotParsed(starts)

Grammar(w) ==
    LET values[p \in 0 .. Len(w)] == [n \in Nat |-> ValuesAt(w, p, n, values)] IN values
Parse(w, p, n) == Grammar(w)[p][n]

(* msgspec.msgpack.Decoder takes exactly one value.                        *)
MsgspecAccepts(frame) ==
    LET p == Parse(frame, 0, 1) IN p.ok /\ p.end = Len(frame) /\ Holds(p.xs[1])

-----------------------------------------------------------------------------
(* Calls.  at: "copy" and "slow" are the two paths, "items" the generators *)
(* of the slow path, "return" the end.  need counts the frames still to be *)
(* copied, todo the values still to be decoded, pair holds the node of a   *)
(* key until its value has one.                                            *)
NewCall(S, start) ==
    [self |-> S, at |-> IF inspect THEN "slow" ELSE "copy", start |-> start, need |-> 1,
     t |-> "", todo |-> 0, items |-> <<>>, kids |-> <<>>, pair |-> <<>>, val |-> NilV]

Top == calls[Len(calls)]
WithTop(C) == [calls EXCEPT ![Len(calls)] = C]
At(where) == outcome = "none" /\ calls # <<>> /\ Top.at = where
Left == Len(wire) - pos
Tag == wire[pos + 1]

(* How much a single read of k bytes at p may return: of a file what there is.*)
Reads(p, k) ==
    LET most == IF p + k < Len(wire) THEN k ELSE Len(wire) - p
    IN  IF stream = "file" \/ most = 0 THEN {most} ELSE 1..most

Raise(exc) == outcome' = exc /\ UNCHANGED <<calls, val, tree>>
Return(C, x) == calls' = WithTop([C EXCEPT !.at = "return", !.val = x]) /\ UNCHANGED result

(* Wrong versions of Miss: the stream is not put back; it is put back      *)
(* behind the tag; the fast path is tried again.                           *)
MissStays(stop) ==
    pos' = stop /\ calls' = WithTop([Top EXCEPT !.at = "slow"]) /\ missed' = TRUE /\ UNCHANGED result
MissBehindTag(stop) == MissStays(IF stream = "file" /\ stop > Top.start THEN Top.start + 1 ELSE stop)
MissRetries(stop) ==
    pos' = Top.start /\ calls' = WithTop([Top EXCEPT !.need = 1]) /\ missed' = TRUE /\ UNCHANGED result

(* The except clause of _decode_with_msgspec, the copier having got as far *)
(* as stop: a stream that cannot seek stays there.                         *)
Miss(stop) ==
    /\ pos' = IF stream = "file" THEN Top.start ELSE stop
    /\ calls' = WithTop([Top EXCEPT !.at = "slow"])
    /\ missed' = TRUE
    /\ UNCHANGED result

CopyFrame ==
    /\ At("copy")
    /\ Top.need > 0
    /\ IF Left = 0 THEN Miss(pos)
       ELSE LET s == CopyShape(Tag)
                size == IF s.perBytes + s.perFrames = 0 THEN 0
                        ELSE Unsigned(SubSeq(wire, pos + 2, pos + 1 + s.width))
                end == pos + 1 + s.width + s.bytes + s.perBytes * size
            IN  IF ~s.known THEN Miss(pos + 1)
                ELSE IF pos + 1 + s.width > Len(wire) \/ end > Len(wire) THEN Miss(Len(wire))
                ELSE /\ pos' = end
                     /\ calls' = WithTop([Top EXCEPT !.need = @ - 1 + s.frames + s.perFrames * size])
                     /\ UNCHANGED <<result, missed>>
    /\ UNCHANGED given

MsgspecFrame ==
    /\ At("copy")
    /\ Top.need = 0
    /\ LET frame == SubSeq(wire, Top.start + 1, pos)
       IN  IF MsgspecAccepts(frame)
           THEN Return(Top, Unpacks(Top.self, Parse(frame, 0, 1).xs[1])) /\ UNCHANGED <<pos, missed>>
           ELSE Miss(pos)
    /\ UNCHANGED given

-----------------------------------------------------------------------------
(* The slow path: what decode and _decode_tagged do with a tag.            *)
Slow(tags) == At("slow") /\ Left > 0 /\ Tag \in tags

SlowEnd ==
    /\ At("slow")
    /\ Left = 0
    /\ Raise("EOFError")
    /\ UNCHANGED <<given, pos, missed>>

Containers == 128..159 \cup 220..223
FixStr == 160..191
SizedText == 196..198 \cup 217..219
Plain == 0..127 \cup 224..255 \cup {192, 194, 195} \cup 202..211

SlowUnknown ==
    /\ Slow(0..255 \ (Containers \cup FixStr \cup SizedText \cup Plain))
    /\ pos' = pos + 1
    /\ Raise("ValueError")
    /\ UNCHANGED <<given, missed>>

(* Integers, floats and the constants: read_exactly of a known width.      *)
SlowPlain ==
    /\ Slow(Plain)
    /\ LET h == TagHeader(Tag)
       IN  IF 1 + h.size > Left THEN pos' = Len(wire) /\ Raise("EOFError")
           ELSE /\ pos' = pos + 1 + h.size
                /\ Return(Top, PlainV(Tag, h.t, SubSeq(wire, pos + 2, pos + 1 + h.size)))
    /\ UNCHANGED <<given, missed>>

(* A fixstr is read by a single read whose result is not measured.         *)
SlowFixStr ==
    /\ Slow(FixStr)
    /\ \E k \in Reads(pos + 1, Tag % 32) :
          LET data == SubSeq(wire, pos + 2, pos + 1 + k)
          IN  /\ pos' = pos + 1 + k
              /\ IF IsText(data) THEN Return(Top, ScalarV("str", 0, data)) ELSE Raise("UnicodeDecodeError")
    /\ UNCHANGED <<given, missed>>

(* Wrong version: the text, too, is read by a single read.                 *)
SlowSizedUnmeasured ==
    /\ Slow(SizedText)
    /\ LET width == IF Tag <= 198 THEN Widths[Tag - 195] ELSE Widths[Tag - 216]
           body == pos + 1 + width
           size == Unsigned(SubSeq(wire, pos + 2, body))
       IN  IF 1 + width > Left THEN pos' = Len(wire) /\ Raise("EOFError")
           ELSE \E k \in Reads(body, size) :
                   pos' = body + k /\ Return(Top, ScalarV("bin", 0, SubSeq(wire, body + 1, body + k)))
    /\ UNCHANGED <<given, missed>>

(* A Sized: the size, then the text from a BytesIO of its own.             *)
SlowSized ==
    /\ Slow(SizedText)
    /\ LET width == IF Tag <= 198 THEN Widths[Tag - 195] ELSE Widths[Tag - 216]
           size == Unsigned(SubSeq(wire, pos + 2, pos + 1 + width))
           end == pos + 1 + width + size
           data == SubSeq(wire, pos + 2 + width, end)
           nodes == <<InspectNode(pos + 1, width, <<>>), InspectNode(0, size, <<>>)>>
       IN  IF 1 + width > Left \/ end > Len(wire) THEN pos' = Len(wire) /\ Raise("EOFError")
           ELSE /\ pos' = end
                /\ IF Tag > 198 /\ ~IsText(data) THEN Raise("UnicodeDecodeError")
                   ELSE Return([Top EXCEPT !.kids = IF inspect THEN nodes ELSE @],
                               ScalarV(IF Tag <= 198 THEN "bin" ELSE "str", 0, data))
    /\ UNCHANGED <<given, missed>>

(* An array or a map: its length, then the generator of its items.         *)
SlowContainer ==
    /\ Slow(Containers)
    /\ LET width == IF Tag \in {220, 222} THEN 2 ELSE IF Tag \in {221, 223} THEN 4 ELSE 0
           length == IF width = 0 THEN Tag % 16 ELSE Unsigned(SubSeq(wire, pos + 2, pos + 1 + width))
           isMap == Tag <= 143 \/ Tag >= 222
       IN  IF 1 + width > Left THEN pos' = Len(wire) /\ Raise("EOFError")
           ELSE /\ pos' = pos + 1 + width
                /\ calls' = WithTop([Top EXCEPT
                        !.at = "items",
                        !.t = IF isMap THEN "map" ELSE "array",
                        !.todo = IF isMap THEN 2 * length ELSE length,
                        !.kids = IF inspect /\ width > 0 THEN <<InspectNode(pos + 1, width, <<>>)>> ELSE @])
                /\ UNCHANGED result
    /\ UNCHANGED <<given, missed>>

AtKey(C) == C.t = "map" /\ Len(C.items) % 2 = 0

(* Wrong version: one value more than the length says.                     *)
DecodeItemTooMany ==
    /\ At("items")
    /\ calls' = Append(calls, NewCall(Top.self, pos))
    /\ UNCHANGED <<given, pos, result, missed>>

(* _decode_array, _decode_map and _keysafe_decode: the next value.         *)
DecodeItem ==
    /\ At("items")
    /\ Top.todo > 0
    /\ calls' = Append(calls, NewCall(IF AtKey(Top) THEN Keysafe(Top.self) ELSE Top.self, pos))
    /\ UNCHANGED <<given, pos, result, missed>>

(* array_type or map_type has drained its generator.                       *)
MakeContainer ==
    /\ At("items")
    /\ Top.todo = 0
    /\ IF CanHold(Top.self, Top.t, Top.items)
       THEN Return(Top, Container(Top.self, Top.t, Top.items))
       ELSE Raise("TypeError")
    /\ UNCHANGED <<given, pos, missed>>

(* Wrong version: the scope of a pair closes without the node of its key.  *)
WithNodeKeyless(C, N) ==
    IF AtKey(C) THEN C ELSE [C EXCEPT !.kids = Append(@, N)]

(* The scopes of a value close: of an array item its own, of the value of  *)
(* a key that of the pair as well.                                         *)
WithNode(C, N) ==
    IF C.t = "array" THEN [C EXCEPT !.kids = Append(@, N)]
    ELSE IF AtKey(C) THEN [C EXCEPT !.pair = <<N>>]
    ELSE LET off == C.pair[1].off
         IN  [C EXCEPT !.kids = Append(@, InspectNode(off, pos - off, Append(C.pair, N))), !.pair = <<>>]

ReturnValue ==
    /\ At("return")
    /\ LET node == InspectNode(Top.start, pos - Top.start, Top.kids)
           rest == Front(calls)
           caller == Last(rest)
           noted == IF inspect THEN WithNode(caller, node) ELSE caller
       IN  IF Len(calls) = 1
           THEN /\ outcome' = "ok"
                /\ val' = Top.val
                /\ tree' = IF inspect THEN Normalize(node) ELSE tree
                /\ calls' = <<>>
           ELSE /\ calls' = [rest EXCEPT ![Len(rest)] =
                                [noted EXCEPT !.items = Append(@, Top.val), !.todo = @ - 1]]
                /\ UNCHANGED result
    /\ UNCHANGED <<given, pos, missed>>

Idle ==
    /\ stream \in Streams
    /\ setting \in Settings
    /\ inspect \in Inspects
    /\ inspect => stream = "file"   \* decode_inspect is given bytes
    /\ pos = 0
    /\ outcome = "none"
    /\ val = NilV
    /\ tree = InspectNode(0, 0, <<>>)
    /\ missed = FALSE

Init == Idle /\ wire \in Wires /\ calls = <<NewCall(setting, 0)>>

Ended == outcome # "none"
Terminated == Ended /\ UNCHANGED vars

Next ==
    \/ CopyFrame
    \/ MsgspecFrame
    \/ SlowEnd
    \/ SlowUnknown
    \/ SlowPlain
    \/ SlowFixStr
    \/ SlowSized
    \/ SlowContainer
    \/ DecodeItem
    \/ MakeContainer
    \/ ReturnValue
    \/ Terminated

Spec == Init /\ [][Next]_vars

-----------------------------------------------------------------------------
TypeOK ==
    /\ wire \in Seq(0..255) /\ stream \in Streams /\ setting \in Settings /\ inspect \in Inspects
    /\ pos \in 0..Len(wire)
    /\ \A i \in DOMAIN calls :
          /\ calls[i].at \in {"copy", "slow", "items", "return"}
          /\ calls[i].start \in 0..pos
          /\ calls[i].need \in Nat /\ calls[i].todo \in Nat
          /\ i < Len(calls) => calls[i].at = "items" /\ calls[i].todo > 0
    /\ outcome \in {"none", "ok", "EOFError", "ValueError", "UnicodeDecodeError", "TypeError"}

(* The value the wire starts with, if it is well-formed.                   *)
First == Parse(wire, 0, 1)

(* What is not well-formed raises, with one exception: a fixstr that the   *)
(* end of the stream cuts short is returned as far as it goes.             *)
OnlyShortStrings ==
    outcome = "ok" /\ stream = "file" /\ ~First.ok =>
        /\ pos = Len(wire)
        /\ \E p \in First.starts :
              LET lacks == p + 1 + (wire[p + 1] % 32) - Len(wire)
                  whole == Parse(wire \o [i \in 1..lacks |-> 0], 0, 1)
              IN  /\ p < Len(wire) /\ wire[p + 1] \in FixStr /\ lacks > 0
                  /\ whole.ok /\ whole.end = Len(wire) + lacks

(* Also in a wire that will turn out malformed, the slow path only ever    *)
(* takes a byte for a tag that is one: a failed copy has left no trace.    *)
SlowOnValue ==
    stream = "file" /\ At("slow") => pos = Top.start /\ (Left > 0 => pos \in First.starts)

(* _impl.py:113 says of the copy that it leaves "the source stream at the  *)
(* frame boundary".                                                        *)
CopyStopsAtFrame ==
    At("copy") /\ Top.need = 0 /\ Parse(wire, Top.start, 1).ok => pos = Parse(wire, Top.start, 1).end
=============================================================================
