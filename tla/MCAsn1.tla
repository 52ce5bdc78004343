------------------------------- MODULE MCAsn1 -------------------------------
(***************************************************************************)
(* Instances of Asn1: nodes on both sides of every boundary between two    *)
(* forms of a tag, a length or an integer, and every short byte string.    *)
(***************************************************************************)
EXTENDS Asn1Reads, TLC

Prim(tag, V) == Node(Universal, tag, "default", V)
List(items) == Node(Universal, 16, "default", ListV(items))
OctetString(n) == Prim(4, BytesV([i \in 1..n |-> 65]))
Tagged(tag, items) == Node(2, tag, "yes", ListV(items))

Ints == {Prim(2, IntV(n)) : n \in {0, 1, -1, 127, 128, 255, 256, -128, -129, 32767, 32768, -32768, -32769}}
Texts == {Prim(tag, V) : tag \in {12, 19}, V \in {TextV(<<>>), TextV(<<65>>), TextV(<<195, 169>>), NoneV}}
Oids == {Prim(6, OidV(arcs)) : arcs \in {<<0, 0>>, <<1, 39>>, <<1, 40>>, <<2, 100>>, <<2, 175>>, <<2, 176>>,
                                         <<3, 1>>, <<1>>, <<1, 2, 127>>, <<1, 2, 128, 5>>, <<1, 2, 16384, 0>>}}
Others == {Prim(1, BoolV(0)), Prim(1, BoolV(1)), Prim(1, BytesV(<<>>)), Prim(5, NoneV), Prim(5, IntV(0)),
           Prim(3, BitsV(3, <<8>>)), Prim(3, BitsV(8, <<8>>)), Prim(3, BytesV(<<1, 2>>)), Prim(2, NoneV),
           Prim(0, BytesV(<<>>)), Prim(4, IntV(2)), Prim(4, BoolV(1)), Prim(4, NoneV),
           Prim(4, IntV(-1)), Prim(3, IntV(-1)), Prim(6, TextV(<<65>>)),
           Node(Universal, 16, "no", BytesV(<<48, 0>>)), Node(2, 1, "no", BytesV(<<7>>)),
           Node(2, 1, "default", ListV(<<>>))}
Sized == {OctetString(n) : n \in {0, 1, 125, 126, 127, 128, 253, 255, 256}}
Tags == {Node(class, tag, "no", BytesV(<<1>>)) : class \in 1..3, tag \in {0, 30, 31, 63, 127, 255}}
Leaves == Ints \cup Texts \cup Oids \cup Others \cup Sized \cup Tags

(* Lists of lists: lengths cross their boundaries inside and outside.      *)
Pairs == {List(<<>>)} \cup {List(<<N>>) : N \in Leaves}
         \cup {List(<<N, M>>) : N \in {OctetString(0), OctetString(122), Prim(0, BytesV(<<>>))},
                              M \in {OctetString(1), List(<<>>), List(<<OctetString(3)>>), Tagged(31, <<OctetString(1)>>)}}
Nested == Pairs \cup {Tagged(tag, <<N, List(<<N, Prim(5, NoneV)>>), M>>) :
                        tag \in {0, 31, 159}, N \in {List(<<>>), List(<<OctetString(2), Prim(1, BoolV(1))>>)},
                        M \in {OctetString(117), List(<<OctetString(121), Prim(2, NoneV)>>)}}
AllNodes == Leaves \cup Nested
WideTags == {Node(2, tag, "no", BytesV(<<1, 2>>)) : tag \in {30, 31, 32, 128}}

(* 48: a list, 128: no length or a group that goes on, 2 and 4: an integer *)
(* and a string, 0: a mark, 63: a list with a long tag.                    *)
Alphabet == {0, 1, 2, 4, 48, 63, 128, 129}
Strings(n) == UNION {[1..k -> Alphabet] : k \in 0..n}
AllWires ==
    Strings(4) \cup {<<48, n, 48>> \o s : n \in {3, 128}, s \in Strings(3)}
    \cup {<<48, 128>> \o s \o <<0, 0>> : s \in Strings(3)}
    \cup {<<48, 128, 2, 3, 5, 0, 0, 0, 0>>, <<12, 2, 195, 169>>, <<12, 1, 195>>, <<6, 2, 129, 52>>}

(* What the proofs ask of the nodes a caller gives holds of these: classes *)
(* are the four there are, bytes are bytes, arcs are numbers, and so it is *)
(* with the nodes in them.                                                 *)
RECURSIVE WellMade(_)
WellMade(N) ==
    /\ N.class \in 0..3 /\ N.tag \in Int /\ N.value.n \in Int
    /\ N.value.t \in {"bytes", "text", "bits"} => N.value.data \in Seq(0..255)
    /\ N.value.t = "oid" => N.value.data \in Seq(Nat)
    /\ \A i \in DOMAIN N.value.items : WellMade(N.value.items[i])

ASSUME CatalogueAssumption == \A N \in AllNodes \cup WideTags : WellMade(N)

NoWires == {}
NoNodes == {}
=============================================================================
