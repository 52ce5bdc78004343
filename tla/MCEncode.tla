------------------------------ MODULE MCEncode ------------------------------
(***************************************************************************)
(* Model-checking instances of Encode: a catalogue of formats, each the    *)
(* smallest in which some pair of operations meets, and the objects, right *)
(* and wrong, that are encoded with them.  A byte has four values, so that *)
(* lengths and numbers leave their range.                                  *)
(***************************************************************************)
EXTENDS EncodeReads, TLC

Base == [kind |-> "null", mode |-> "const", num |-> 0, keys |-> <<>>, subs |-> <<>>, on |-> <<>>,
         ref |-> [key |-> "", parent |-> 1], align |-> 0, flag |-> FALSE,
         fill |-> <<0>>]

Ref(k) == [ref |-> [key |-> k, parent |-> 1], mode |-> "ref"]
Uint(width) == [kind |-> "int", num |-> width] @@ Base
Map(names, fs) == [kind |-> "map", keys |-> names, subs |-> fs] @@ Base
Wrap(k, f) == [kind |-> k, subs |-> <<f>>] @@ Base
Const(len, N) == [num |-> len] @@ N
Prefix(N) == [mode |-> "prefix"] @@ N
Fill(bytes, N) == [fill |-> bytes] @@ N
GreedyMode(N) == [mode |-> "greedy"] @@ N

Formats4 ==
    [u8 |-> Uint(1),
     u16 |-> Uint(2),
     raw |-> GreedyMode([kind |-> "bytes"] @@ Base),
     two |-> [kind |-> "bytes", num |-> 2] @@ Base,
     lit |-> [kind |-> "literal", num |-> 1] @@ Base,
     null |-> Base,
     cstr |-> [kind |-> "takeuntil"] @@ Base,
     \* containers, lengths and counts taken from siblings
     pair |-> Map(<<"a", "b">>, <<"u8", "u16">>),
     blob |-> Prefix(Wrap("sized", "raw")),
     inner |-> Map(<<"a", "b">>, <<"u8", "blob">>),
     framed |-> Prefix(Wrap("sized", "inner")),
     twice |-> [align |-> 2] @@ Prefix(Wrap("sized", "blob")),
     row |-> [kind |-> "tuple", subs |-> <<"lit", "framed", "null">>] @@ Base,
     cells |-> Ref("n") @@ Wrap("array", "pair"),
     tail |-> Ref("n") @@ Wrap("sized", "raw"),
     rec |-> Map(<<"n", "cells", "tail">>, <<"u8", "cells", "tail">>),
     nums |-> Ref("n") @@ Wrap("array", "u8"),
     box |-> Map(<<"n", "nums", "m">>, <<"u8", "nums", "lit">>),
     couple |-> Const(2, Wrap("array", "u8")),
     couples |-> Prefix(Wrap("array", "couple")),
     words |-> GreedyMode(Wrap("array", "u16")),
     texts |-> GreedyMode(Wrap("array", "cstr")),
     pack |-> Map(<<"c", "t">>, <<"couples", "texts">>),
     outer |-> [ref |-> [key |-> "n", parent |-> 2], mode |-> "ref"] @@ Wrap("sized", "raw"),
     deep |-> Map(<<"m", "d", "t">>, <<"u8", "outer", "two">>),
     nest |-> Map(<<"n", "in", "t">>, <<"u8", "deep", "tail">>),
     stray |-> Ref("absent") @@ Wrap("array", "u8"),
     lost |-> Map(<<"n", "s">>, <<"u8", "stray">>),
     \* padding, alignment and inline fields
     field |-> Const(3, Wrap("sized", "pair")),
     slot |-> Fill(<<2>>, Const(2, Wrap("sized", "u8"))),
     fields |-> Map(<<"s", "f">>, <<"slot", "field">>),
     even |-> Fill(<<3>>, [align |-> 2] @@ Prefix(Wrap("sized", "raw"))),
     evens |-> Map(<<"a", "b">>, <<"even", "lit">>),
     braid |-> Fill(<<1, 2>>, [align |-> 3] @@ Prefix(Wrap("sized", "raw"))),
     bare |-> Fill(<<>>, [align |-> 2] @@ Prefix(Wrap("sized", "raw"))),
     edges |-> Map(<<"a", "b">>, <<"braid", "bare">>),
     head |-> Map(<<"n">>, <<"u8">>),
     inl |-> [flag |-> TRUE] @@ Const(2, Wrap("sized", "head")),
     flat |-> Map(<<"h", "t">>, <<"inl", "tail">>),
     \* dispatch
     pick |-> Ref("n") @@ [kind |-> "switch", subs |-> <<"pair", "u8", "raw">>, on |-> <<1, 2>>] @@ Base,
     msg |-> Map(<<"n", "body">>, <<"u8", "pick">>),
     only |-> Ref("n") @@ [kind |-> "switch", subs |-> <<"u16">>, on |-> <<1>>] @@ Base,
     cmd |-> Map(<<"n", "body">>, <<"u8", "only">>),
     armA |-> Map(<<"a">>, <<"u8">>),
     armB |-> Map(<<"b">>, <<"blob">>),
     any |-> Ref("n") @@ [kind |-> "union", subs |-> <<"armA", "armB">>, on |-> <<1, 2>>] @@ Base,
     event |-> Map(<<"n", "body", "end">>, <<"u8", "any", "lit">>),
     late |-> Map(<<"body", "n">>, <<"any", "u8">>),
     wire |-> Map(<<"h", "body">>, <<"inl", "any">>),
     own |-> [ref |-> [key |-> "n", parent |-> 1], mode |-> "prefix", kind |-> "union",
              subs |-> <<"armA", "armB", "u8">>, on |-> <<1, 2>>] @@ Base,
     log |-> Prefix(Wrap("array", "own")),
     \* the rest of the stream, adapters, jumps and recursion
     maybe |-> Wrap("optional", "u16"),
     memo |-> Map(<<"n", "o">>, <<"blob", "maybe">>),
     gauge |-> Const(2, Wrap("scale", "u8")),
     meter |-> Map(<<"g", "h">>, <<"gauge", "u8">>),
     ptr |-> [kind |-> "pointer", subs |-> <<"u8", "couple">>, num |-> 1, flag |-> TRUE] @@ Base,
     file |-> Map(<<"p", "q">>, <<"ptr", "u8">>),
     wrapped |-> Prefix(Wrap("sized", "file")),
     chest |-> Map(<<"m", "w">>, <<"u8", "wrapped">>),
     again |-> Wrap("lazy", "tree"),
     kids |-> Ref("n") @@ Wrap("array", "again"),
     tree |-> Map(<<"n", "kids">>, <<"u8", "kids">>),
     ever |-> Wrap("lazy", "ever")]

FormatNames == DOMAIN Formats4

-----------------------------------------------------------------------------
(* Objects are listed, not put in sets: they are of many shapes.           *)
Ints(s) == [i \in DOMAIN s |-> IntV(s[i])]
Few == Ints(<<0, 1, 2, 3, 4>>)
Some == Ints(<<0, 2, 9, 16>>)
Blobs == <<BytesV(<<>>), BytesV(<<1>>), BytesV(<<2, 1>>), BytesV(<<1, 2, 3>>), BytesV(<<1, 1, 1, 1>>)>>

(* Every mapping with one of the choices under each key.                   *)
Maps(ks, choices) ==
    FoldLeft(LAMBDA got, i :
                FlattenSeq([g \in DOMAIN got |->
                               [c \in DOMAIN choices[i] |-> Joined(got[g], OneField(ks[i], choices[i][c]))]]),
             <<MapV(<<>>)>>, [i \in DOMAIN ks |-> i])

ListsOf(items) == <<ListV(<<>>)>> \o [i \in DOMAIN items |-> ListV(<<items[i]>>)]
                    \o FlattenSeq([i \in DOMAIN items |-> [j \in DOMAIN items |-> ListV(<<items[i], items[j]>>)]])

Each(f, objs) == [i \in DOMAIN objs |-> [fmt |-> f, obj |-> objs[i]]]

Wrong == <<NoneV, IntV(1), BytesV(<<1>>), MapV(<<>>)>>
Pairs == Maps(<<"a", "b">>, <<Ints(<<1, 4>>), Ints(<<2, 16>>)>>)
OnePair == <<Pairs[1]>>
Inners == Maps(<<"a", "b">>, <<Ints(<<2>>), Blobs>>)
ArmsA == Maps(<<"a">>, <<Ints(<<0, 3>>)>>)
ArmsB == Maps(<<"b">>, <<SubSeq(Blobs, 1, 2)>>)
Tag(objs, tags) == FlattenSeq([i \in DOMAIN objs |-> [t \in DOMAIN tags |-> Joined(objs[i], OneField("n", tags[t]))]])
Arms == ArmsA \o ArmsB
Tagged == Tag(Arms, Ints(<<1, 2, 3>>))
Bodies == Arms \o Tagged
Leaf0 == Maps(<<"n", "kids">>, <<Ints(<<0, 1>>), <<ListV(<<>>)>>>>)
Trees == Leaf0 \o Maps(<<"n", "kids">>, <<Ints(<<1, 2>>), ListsOf(Leaf0)>>)
Places == Maps(<<"offset", "value">>, <<Few, <<ListV(<<IntV(1), IntV(2)>>), ListV(<<IntV(1)>>)>>>>)

Catalogue ==
    Each("rec", Maps(<<"n", "cells", "tail">>, <<Few, ListsOf(OnePair), SubSeq(Blobs, 1, 3)>>))
    \o Each("rec", Maps(<<"n", "tail">>, <<Few, Blobs>>))
    \o Each("rec", Maps(<<"n", "cells", "tail">>, <<Ints(<<1>>), ListsOf(Pairs), Blobs>>))
    \o Each("box", Maps(<<"n", "nums">>, <<Few, ListsOf(Few) \o Wrong>>))
    \o Each("box", Maps(<<"n", "nums", "m">>, <<Ints(<<1>>), <<ListV(<<IntV(3)>>)>>, <<BytesV(<<1>>), BytesV(<<2>>), NoneV>>>>))
    \o Each("row", [i \in DOMAIN Inners |-> ListV(<<NoneV, Inners[i], NoneV>>)]
                      \o [i \in DOMAIN Inners |-> ListV(<<BytesV(<<1>>), Inners[i]>>)]
                      \o [i \in DOMAIN Wrong |-> ListV(<<NoneV, Inners[1], Wrong[i]>>)] \o Wrong)
    \o Each("framed", Inners \o Wrong)
    \o Each("twice", Blobs \o Wrong)
    \o Each("pack", Maps(<<"c", "t">>, <<ListsOf(ListsOf(Ints(<<1, 4>>))), ListsOf(SubSeq(Blobs, 1, 2))>>))
    \o Each("words", ListsOf(Some) \o Wrong)
    \o Each("nest", Maps(<<"n", "in", "t">>,
                         <<Few, Maps(<<"m", "d", "t">>, <<Ints(<<1>>), SubSeq(Blobs, 1, 3), <<Blobs[2], Blobs[3], NoneV>>>>), SubSeq(Blobs, 1, 3)>>))
    \o Each("lost", Maps(<<"n", "s">>, <<Ints(<<1>>), ListsOf(Ints(<<1>>))>>))
    \o Each("fields", Maps(<<"s", "f">>, <<Few, Pairs>>))
    \o Each("evens", Maps(<<"a">>, <<Blobs>>) \o Maps(<<"a", "b">>, <<Blobs, <<BytesV(<<1>>), IntV(1)>>>>))
    \o Each("edges", Maps(<<"a", "b">>, <<Blobs, Blobs>>))
    \o Each("flat", Maps(<<"n", "t">>, <<Few, Blobs>>) \o Maps(<<"t">>, <<Blobs>>))
    \o Each("msg", Maps(<<"n", "body">>, <<Few \o Wrong, Pairs \o Few \o Blobs>>))
    \o Each("cmd", Maps(<<"n", "body">>, <<Few, Some>>))
    \o Each("event", Maps(<<"n", "body">>, <<Few, Bodies>>) \o Maps(<<"body">>, <<Bodies \o Wrong>>))
    \o Each("late", Maps(<<"n", "body">>, <<Few, Bodies>>) \o Maps(<<"body">>, <<Bodies>>))
    \o Each("wire", Maps(<<"body">>, <<Bodies>>) \o Maps(<<"n", "body">>, <<Few, Bodies>>))
    \o Each("log", ListsOf(SubSeq(Tagged, 1, 8)) \o ListsOf(Arms))
    \o Each("memo", Maps(<<"n", "o">>, <<Blobs, Some \o <<NoneV>>>>))
    \o Each("meter", Maps(<<"g", "h">>, <<Ints(<<0, 1, 3, 6, 7, 8>>) \o Wrong, Ints(<<1>>)>>))
    \o Each("file", Maps(<<"p", "q">>, <<Places \o Wrong \o Maps(<<"offset">>, <<Few>>), Ints(<<3, 4>>)>>))
    \o Each("chest", Maps(<<"m", "w">>, <<Ints(<<1>>), Maps(<<"p", "q">>, <<Places, Ints(<<2, 4>>)>>)>>))
    \o Each("tree", Trees \o Maps(<<"n", "kids">>, <<Ints(<<1>>), ListsOf(Trees)>>))
    \o Each("ever", <<NoneV>>)

(* Lists that are nested deeper than the dimensions of the array.          *)
Ragged == Each("couple", ListsOf(ListsOf(Ints(<<1>>)) \o Ints(<<1>>)))

(* What the proofs ask of the objects a caller gives holds of these: bytes *)
(* are bytes, and so it is with their parts.                               *)
RECURSIVE WellMade(_)
WellMade(v) == /\ v.t = "bytes" => v.at \in Seq(Byte)
               /\ v.t \in {"list", "map"} => \A k \in DOMAIN v.at : WellMade(v.at[k])

ASSUME CatalogueAssumption ==
    LET all == Catalogue \o Ragged IN \A c \in DOMAIN all : WellMade(all[c].obj)
=============================================================================
