------------------------------ MODULE MCMsgPack ------------------------------
(***************************************************************************)
(* Model-checking instances of MsgPackReads: every short wire over a small *)
(* alphabet of tags and bytes, some longer ones for what does not fit, and *)
(* values on both sides of each limit between two heads.                   *)
(***************************************************************************)
EXTENDS MsgPackReads

(* 1 is an integer, a size and a letter, 200 no letter; then {_}, {_, _},  *)
(* [_, _], a fixstr of two, an unknown tag and the tag of an 8-bit integer.*)
Alphabet == {1, 129, 130, 146, 162, 193, 204, 200}
ShortWires == UNION {[1..k -> Alphabet] : k \in 0..4} \cup [1..5 -> {1, 129, 146, 162, 204}]
LongWires == {
    <<129, 129, 1, 2, 3>>,                       \* a map in a key
    <<129, 146, 1, 2, 3>>,                       \* an array in a key
    <<129, 146, 1, 129, 2, 3, 4, 5>>,            \* a map in an array in a key
    <<130, 1, 5, 129, 1, 2, 6>>,                 \* a key that only the slow path takes, last
    <<146, 129, 129, 1, 2, 3, 145, 204, 200, 7>>,
    <<147, 204, 200, 205, 1, 2, 255, 9>>,        \* integers that the copier misjudges
    <<146, 146, 208, 200, 1, 206, 0, 0, 1, 2>>,
    <<145, 204, 220, 0, 2, 1, 1>>,
    <<220, 0, 2, 192, 195>>, <<221, 0, 0, 0, 1, 161, 65>>,
    <<222, 0, 1, 161, 65, 144>>, <<223, 0, 0, 0, 1, 1, 128>>,
    <<196, 2, 200, 1>>, <<197, 0, 1, 7>>, <<217, 2, 65, 66>>, <<218, 0, 1, 200>>, <<217, 3, 65>>,
    <<146, 217, 1, 65, 196, 1, 200>>, <<129, 217, 1, 65, 196, 1, 200>>,
    <<202, 1, 2, 3, 4>>, <<211, 0, 0, 0, 0, 0, 0, 1, 0>>, <<207, 0, 0, 0, 0, 0, 0, 2, 1>>,
    <<209, 255, 0>>, <<210, 0, 1, 0, 2>>,
    <<130, 1, 2, 1, 3>>,                         \* a key that repeats
    <<146, 129, 1, 162, 65>>, <<146, 1, 162>>}
AllWires == ShortWires \cup LongWires

AllSettings == [array : {"list", "tuple"}, map : {"dict", "tuple"}]
Defaults == {[array |-> "list", map |-> "dict"]}
NoWires == {}

IntV(n) == ScalarV("int", n, <<>>)
StrV(n) == ScalarV("str", 0, [i \in 1..n |-> 65])
BinV(n) == ScalarV("bin", 0, [i \in 1..n |-> 200])
ListV(xs) == SeqV("list", xs)
Times(n, x) == [i \in 1..n |-> x]
Numbered(n, x) == [i \in 1 .. 2 * n |-> IF i % 2 = 1 THEN IntV(i) ELSE x]

(* 1.0, 0.1 and 1e300.                                                     *)
AllFloats == <<[single |-> <<63, 128, 0, 0>>, double |-> <<63, 240, 0, 0, 0, 0, 0, 0>>],
               [single |-> <<61, 204, 204, 205>>, double |-> <<63, 185, 153, 153, 153, 153, 153, 154>>],
               [single |-> <<>>, double |-> <<126, 55, 228, 60, 136, 0, 117, 156>>]>>
FloatV(n) == ScalarV("float", n, <<>>)

Refusable == {Value("object", 0, <<>>, <<>>, FALSE), Value("set", 0, <<>>, <<IntV(1)>>, FALSE)}
Scalar == {IntV(n) : n \in {0, 127, 128, 255, 256, 65535, 65536, -1, -32, -33, -128, -129, -32768, -32769}}
          \cup {StrV(n) : n \in {0, 31, 32, 255, 256}} \cup {BinV(n) : n \in {0, 255, 256}}
          \cup {NilV, ScalarV("bool", 0, <<>>), ScalarV("bool", 1, <<>>)} \cup {FloatV(n) : n \in 1..3}
Flat == {ListV(<<>>), DictV(<<>>), ListV(Times(15, NilV)), ListV(Times(16, NilV)), SeqV("tuple", Times(16, StrV(32))),
         DictV(Numbered(15, NilV)), DictV(Numbered(16, BinV(1)))}
TupleKey == SeqV("tuple", <<IntV(1), SeqV("tuple", <<StrV(32)>>)>>)
Nested == {ListV(<<x, y>>) : x \in Refusable \cup {FloatV(1), FloatV(3), DictV(<<StrV(1), StrV(32)>>)},
                             y \in {BinV(2), ListV(<<>>), ListV(<<BinV(0), DictV(<<BinV(1), StrV(33)>>), IntV(200)>>)}}
          \cup {DictV(<<TupleKey, ListV(<<BinV(1), TupleKey>>), NilV, DictV(<<IntV(1), NilV>>)>>)}
AllGiven == Refusable \cup Scalar \cup Flat \cup Nested
NoneGiven == {}

(* What the proofs ask of the values a caller gives holds of these: they   *)
(* are of the kinds there are, texts are bytes, numbers and lengths fit a  *)
(* word, and so it is with the members of a container.                     *)
RECURSIVE WellMade(_)
WellMade(x) ==
    /\ x.t \in Scalars \cup Arrays \cup {"dict", "set", "object"}
    /\ x.t = "bool" => x.n \in {0, 1}
    /\ x.t = "float" => x.n \in DOMAIN AllFloats
    /\ x.t = "int" => x.n \in -(W64 \div 2) .. W64 - 1
    /\ x.text \in Seq(0..255) /\ Len(x.text) < W32
    /\ Len(x.xs) < W32
    /\ \A i \in DOMAIN x.xs : WellMade(x.xs[i])

ASSUME CatalogueAssumption == \A x \in AllGiven : WellMade(x)
=============================================================================
