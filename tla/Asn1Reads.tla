----------------------------- MODULE Asn1Reads ------------------------------
(***************************************************************************)
(* Asn1 with the properties that compare what is decoded, and the trees,   *)
(* with recursive functions of nodes.                                      *)
(***************************************************************************)
EXTENDS Asn1, InspectTree

(* What a node is decoded as, the defaults its author left open filled in. *)
RECURSIVE Decoded(_)
Decoded(N) ==
    LET V == N.value
        decoded ==
            IF IsConstructed(N) THEN ListV([i \in DOMAIN V.items |-> Decoded(V.items[i])])
            ELSE IF N.class # Universal THEN BytesV(AsBytes(V))
            ELSE CASE N.tag = Boolean -> BoolV(IF IsTrue(V) THEN 1 ELSE 0)
                   [] N.tag \in {Integer, Null, ObjectIdentifier, Utf8String} \cup AsciiStringTags -> V
                   [] N.tag = BitString -> IF V.t = "bits" THEN V ELSE BitsV(0, AsBytes(V))
                   [] OTHER -> BytesV(AsBytes(V))
    IN  Node(N.class, N.tag, IF IsConstructed(N) THEN "yes" ELSE "no", decoded)

RECURSIVE EveryTag(_, _)
EveryTag(N, tags) == N.tag \in tags /\ \A i \in DOMAIN N.value.items : EveryTag(N.value.items[i], tags)

(* What was encoded and decoded again is what it was, and all that was     *)
(* written has been read: lengths, tags, integers and arcs on both sides   *)
(* of the boundaries between their forms say what they should, however     *)
(* deep the nodes nest, and a stream need not be able to seek.             *)
RoundTrips(tags) ==
    Ended /\ out # <<>> /\ EveryTag(node, tags) => outcome = "ok" /\ val = Decoded(node) /\ pos = Len(out)

(* The tags whose low bits say that they have more octets, or need none.   *)
RoundTrip == RoundTrips({tag \in 0 .. 255 : tag < 31 \/ tag % 32 = 31})

(* docs/lib-api.md:17 has asn1 encode and decode the tag-length-value      *)
(* structure of BER, whose tags from 32 on are written like 31.            *)
EveryTagRoundTrips == RoundTrips(0 .. 255)

(* The nodes of both inspection trees lie one behind the other, items that *)
(* were encoded into a BytesIO of their own too, and the tree of what was  *)
(* encoded is that of what was decoded, but for the value of an empty list.*)
RECURSIVE Filled(_)
Filled(N) ==
    LET kids == SelectSeq(N.kids, LAMBDA kid : kid.size > 0)
    IN  [N EXCEPT !.kids = [i \in DOMAIN kids |-> Filled(kids[i])]]

InspectTiles ==
    outcome = "ok" /\ inspect =>
        /\ Tiled(tree) /\ tree.size = pos
        /\ out # <<>> /\ EveryTag(node, 0 .. 31) => Tiled(encTree) /\ Filled(encTree) = Filled(tree)
=============================================================================
