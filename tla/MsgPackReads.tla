---------------------------- MODULE MsgPackReads ----------------------------
(***************************************************************************)
(* MsgPackCodec with msgspec, which works on values in one piece, and the  *)
(* properties that compare values and trees by recursive functions.        *)
(***************************************************************************)
EXTENDS MsgPackCodec, InspectTree

(* msgspec.msgpack.Decoder: an array in a key is a tuple, and a map in a   *)
(* key, being a dict, is refused.                                          *)
RECURSIVE MsgspecMade(_, _), MapFree(_)
MapFree(x) == x.t # "map" /\ \A i \in DOMAIN x.xs : MapFree(x.xs[i])
MsgspecMade(x, inKey) ==
    IF x.t \notin {"array", "map"} THEN x
    ELSE LET xs == [i \in DOMAIN x.xs |-> MsgspecMade(x.xs[i], inKey \/ (x.t = "map" /\ i % 2 = 1))]
         IN  IF x.t = "map" THEN DictV(xs) ELSE SeqV(IF inKey THEN "tuple" ELSE "list", xs)

RECURSIVE MsgspecHolds(_)
MsgspecHolds(x) ==
    /\ \A i \in DOMAIN x.xs : MsgspecHolds(x.xs[i])
    /\ x.t = "map" => \A k \in KeysOf(x.xs) : MapFree(k)

(* _postprocess_msgspec, which _decode_with_msgspec skips for the defaults.*)
RECURSIVE Postprocess(_, _)
Postprocess(S, x) ==
    LET xs == [i \in DOMAIN x.xs |-> Postprocess(S, x.xs[i])]
    IN  CASE x.t = "list" -> SeqV(S.array, xs)
          [] x.t = "dict" -> Container(S, "map", xs)
          [] OTHER -> x
MsgspecUnpacked(S, x) == Postprocess(S, MsgspecMade(x, FALSE))

(* msgspec.msgpack.Encoder, whose heads are the shortest too: a set is an  *)
(* array to it, and what it refuses is refused before anything is written. *)
RECURSIVE MsgspecTakes(_), MsgspecOctets(_)
MsgspecTakes(x) == x.t # "object" /\ \A i \in DOMAIN x.xs : MsgspecTakes(x.xs[i])
MsgspecOctets(x) ==
    IF x.t \in Scalars THEN ScalarOctets(x, 8)
    ELSE HeadOf(x) \o FlattenSeq([i \in DOMAIN x.xs |-> MsgspecOctets(x.xs[i])])

-----------------------------------------------------------------------------
(* A parsed value with its arrays and maps made containers: of the keys of *)
(* a map by Key(S).  A map whose keys cannot be hashed has no dict.        *)
RECURSIVE Made(_, _)
Made(S, x) ==
    IF x.t \notin {"array", "map"} THEN x
    ELSE Container(S, x.t,
            [i \in DOMAIN x.xs |-> Made(IF x.t = "map" /\ i % 2 = 1 THEN Keysafe(S) ELSE S, x.xs[i])])

RECURSIVE Makeable(_, _)
Makeable(S, x) ==
    x.t \in {"array", "map"} =>
        LET In(i) == IF x.t = "map" /\ i % 2 = 1 THEN Keysafe(S) ELSE S
        IN  /\ \A i \in DOMAIN x.xs : Makeable(In(i), x.xs[i])
            /\ CanHold(S, x.t, [i \in DOMAIN x.xs |-> Made(In(i), x.xs[i])])

RECURSIVE RepeatsKey(_)
RepeatsKey(x) ==
    \/ x.t = "map" /\ 2 * Cardinality(KeysOf(x.xs)) < Len(x.xs)
    \/ \E i \in DOMAIN x.xs : RepeatsKey(x.xs[i])

(* Whichever paths took part, however often the fast one failed and the    *)
(* stream was put back, and with inspection or without, a well-formed      *)
(* value is decoded to the containers the setting asks for and the stream  *)
(* is left right behind it; only a dict whose keys cannot be hashed is     *)
(* refused.  (Keys that repeat are kept by the slow path alone.)  On a     *)
(* stream that cannot seek this is so while the fast path does not fail.   *)
FrameDecoded ==
    (/\ outcome # "none"
     /\ stream = "file" \/ ~missed
     /\ First.ok
     /\ ~RepeatsKey(First.xs[1]))
    => IF Makeable(setting, First.xs[1])
       THEN outcome = "ok" /\ val = Made(setting, First.xs[1]) /\ pos = First.end
       ELSE outcome = "TypeError"

(* What the decoder makes of a value: the containers of the setting, in    *)
(* keys those of its keysafe; of a float, the bytes it was given.          *)
RECURSIVE Back(_, _)
Back(S, x) ==
    LET In(i) == IF x.t = "dict" /\ i % 2 = 1 THEN Keysafe(S) ELSE S
        xs == [i \in DOMAIN x.xs |-> Back(In(i), x.xs[i])]
    IN  IF x.t = "float" THEN ScalarV("float", 0, FloatOctets(x.n, precision))
        ELSE IF x.t \in Scalars THEN x
        ELSE Container(S, HeadKind(x), xs)

(* Whichever path encodes a value and whichever paths decode it again, it  *)
(* is the value given, in the containers asked for, and every byte written *)
(* has been read.  The bytes do not depend on whether a tree is built.     *)
RoundTrip ==
    Ended /\ encOutcome = "ok" /\ (stream = "file" \/ ~missed) =>
        /\ outcome = "ok" /\ val = Back(setting, value) /\ pos = Len(out)
        /\ precision = 8 => out = MsgspecOctets(value)

(* The nodes of a value lie one behind the other up to its end, those of   *)
(* texts encoded to or decoded from a BytesIO of their own too, and the    *)
(* tree of an encoding is the tree of the decoding of what it wrote.       *)
TreesTile ==
    /\ outcome = "ok" /\ inspect => Tiled(tree) /\ tree.size = pos
    /\ outcome = "ok" /\ inspect /\ encOutcome = "ok" /\ traced => encTree = tree
=============================================================================
