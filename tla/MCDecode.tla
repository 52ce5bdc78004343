------------------------------ MODULE MCDecode ------------------------------
(***************************************************************************)
(* Model-checking instances of Decode: a catalogue of formats, each the    *)
(* smallest in which some pair of operations meets, and the byte strings   *)
(* they are decoded from.                                                  *)
(***************************************************************************)
EXTENDS Decode, TLC

Base == [kind |-> "null", mode |-> "const", num |-> 0, keys |-> <<>>, subs |-> <<>>, on |-> <<>>,
         ref |-> [key |-> "", parent |-> 1], align |-> 0, flag |-> FALSE,
         fill |-> <<0>>]

Ref(k) == [ref |-> [key |-> k, parent |-> 1], mode |-> "ref"]
Uint(width) == [kind |-> "int", num |-> width] @@ Base
Map(names, fs) == [kind |-> "map", keys |-> names, subs |-> fs] @@ Base
Wrap(k, f) == [kind |-> k, subs |-> <<f>>] @@ Base
Const(len, N) == [num |-> len] @@ N
Prefix(N) == [mode |-> "prefix"] @@ N
Fill(bytes, N) == [fill |-> bytes] @@ N
GreedyMode(N) == [mode |-> "greedy"] @@ N

(* Formats whose exception handlers wrap one frame.                        *)
TidyFormats ==
    [u8 |-> Uint(1),
     u16 |-> Uint(2),
     raw |-> GreedyMode([kind |-> "bytes"] @@ Base),
     two |-> [kind |-> "bytes", num |-> 2] @@ Base,
     lit |-> [kind |-> "literal", num |-> 1] @@ Base,
     null |-> Base,
     cstr |-> [kind |-> "takeuntil"] @@ Base,
     short |-> [kind |-> "takeuntil", align |-> 1] @@ Base,
     \* containers, and lengths taken from siblings
     pair |-> Map(<<"a", "b">>, <<"u8", "u16">>),
     blob |-> Prefix(Wrap("sized", "raw")),
     inner |-> Map(<<"a", "b">>, <<"u8", "blob">>),
     cells |-> Ref("n") @@ Wrap("array", "inner"),
     tail |-> Ref("n") @@ Wrap("sized", "raw"),
     rec |-> Map(<<"n", "cells", "tail">>, <<"u8", "cells", "tail">>),
     nums |-> Ref("n") @@ Wrap("array", "u8"),
     row |-> [kind |-> "tuple", subs |-> <<"lit", "inner", "null">>] @@ Base,
     box |-> Map(<<"n", "nums", "row">>, <<"u8", "nums", "row">>),
     grid |-> Const(2, Wrap("array", "pair")),
     pairs |-> GreedyMode(Wrap("array", "pair")),
     counted |-> Prefix(Wrap("array", "pair")),
     words |-> GreedyMode(Wrap("array", "u16")),
     outer |-> [ref |-> [key |-> "n", parent |-> 2], mode |-> "ref"] @@ Wrap("sized", "raw"),
     deep |-> Map(<<"m", "d", "t">>, <<"u8", "outer", "tail">>),
     nest |-> Map(<<"n", "in", "t">>, <<"u8", "deep", "tail">>),
     \* exceptions swallowed above a leaf
     names |-> GreedyMode(Wrap("array", "cstr")),
     named |-> Ref("n") @@ Wrap("sized", "names"),
     maybe |-> Wrap("optional", "u16"),
     book |-> Map(<<"n", "names", "last">>, <<"u8", "named", "maybe">>),
     brief |-> Prefix(Wrap("sized", "maybe")),
     after |-> Map(<<"n", "o", "t">>, <<"u8", "brief", "tail">>),
     list |-> GreedyMode(Wrap("array", "short")),
     \* dispatch, jumps and recursion
     pick |-> Ref("n") @@ [kind |-> "switch", subs |-> <<"inner", "u8", "raw">>, on |-> <<1, 2>>] @@ Base,
     msg |-> Map(<<"n", "body">>, <<"u8", "pick">>),
     only |-> Ref("n") @@ [kind |-> "switch", subs |-> <<"tree">>, on |-> <<1>>] @@ Base,
     cmd |-> Map(<<"n", "body">>, <<"u8", "only">>),
     ptr |-> [kind |-> "pointer", subs |-> <<"u8", "inner">>, num |-> 1, flag |-> TRUE] @@ Base,
     file |-> Map(<<"p", "q">>, <<"ptr", "u8">>),
     again |-> Wrap("lazy", "tree"),
     kids |-> Ref("n") @@ Wrap("array", "again"),
     tree |-> Map(<<"n", "kids">>, <<"u8", "kids">>),
     back |-> Wrap("lazy", "loop"),
     loop |-> [kind |-> "pointer", subs |-> <<"u8", "back">>] @@ Base,
     \* padding, alignment and inline fields
     field |-> Const(3, Wrap("sized", "u8")),
     fields |-> Const(2, Wrap("array", "field")),
     even |-> [align |-> 2] @@ Prefix(Wrap("sized", "raw")),
     evens |-> Map(<<"a", "b">>, <<"even", "lit">>),
     head |-> Map(<<"n">>, <<"u8">>),
     inl |-> [flag |-> TRUE] @@ Const(2, Wrap("sized", "head")),
     flat |-> Map(<<"h", "t">>, <<"inl", "tail">>),
     wave |-> Fill(<<1, 2>>, Const(3, Wrap("sized", "u8"))),
     bare |-> Fill(<<>>, Const(2, Wrap("sized", "u8"))),
     edge |-> Fill(<<0, 1>>, [align |-> 3] @@ Prefix(Wrap("sized", "raw"))),
     \* greedy arrays behind a jump, past the end too, and of nothing
     far |-> [kind |-> "pointer", subs |-> <<"u8", "words">>] @@ Base,
     remote |-> [kind |-> "pointer", subs |-> <<"u8", "pairs">>] @@ Base,
     nulls |-> GreedyMode(Wrap("array", "null")),
     \* formats that are refused
     greedy2 |-> Map(<<"a", "b">>, <<"raw", "raw">>),
     lost |-> Ref("absent") @@ Wrap("array", "pair")]

(* Formats in which a container is left by a swallowed exception, and one  *)
(* whose dimension names no sibling.                                       *)
LeakyFormats ==
    [items |-> GreedyMode(Wrap("array", "inner")),
     boxed |-> Prefix(Wrap("sized", "items")),
     log |-> Map(<<"n", "items", "tail">>, <<"u8", "boxed", "tail">>),
     some |-> Wrap("optional", "inner"),
     boxed2 |-> Prefix(Wrap("sized", "some")),
     opts |-> Map(<<"n", "o", "tail">>, <<"u8", "boxed2", "tail">>),
     wide |-> Prefix(Wrap("sized", "u16")),
     part |-> Wrap("optional", "wide"),
     stray |-> Ref("absent") @@ Wrap("array", "u8"),
     \* its element may be None at the end of the stream, for ever
     bits |-> GreedyMode(Wrap("array", "maybe"))]

AllFormats == TidyFormats @@ LeakyFormats

TidyNames == DOMAIN TidyFormats
AllNames == DOMAIN AllFormats
Ending == AllNames \ {"bits"}

(* Every byte string of at most three bytes and some longer ones.          *)
Short == UNION {[1..k -> {0, 1, 2}] : k \in 0..3}
Long == {<<1, 1, 1, 2>>, <<2, 1, 1, 1>>, <<1, 2, 1, 0>>, <<2, 1, 0, 2, 0>>, <<1, 1, 0, 1, 2>>,
         <<0, 0, 2, 0, 0, 1>>, <<1, 2, 0, 1>>, <<2, 0, 0, 1, 1, 2>>, <<1, 3, 1, 1, 0, 1>>, <<2, 2, 1, 1, 1, 2>>}
AllInputs == Short \cup Long
=============================================================================
