---------------------------- MODULE MsgPackHeads ----------------------------
(***************************************************************************)
(* The heads of MessagePack values: how the slow path of MsgPack.encode    *)
(* chooses among the representations of an integer or a length, and what   *)
(* MsgPack.decode makes of each.  A head is a byte that holds everything,  *)
(* or a tag followed by a word of one, two, four or eight bytes.           *)
(***************************************************************************)
EXTENDS Integers

CONSTANTS Unit,           \* the values of half a byte: 16 in the code, so that 8 * Unit
                          \* is 0x80, 9 * Unit is 0x90 and 14 * Unit is 0xE0
          W16, W32, W64   \* the values of a word of two, four and eight bytes

W8 == 16 * Unit

ASSUME HeadsAssumption ==
    /\ Unit \in Nat \ {0}
    /\ W16 \in Nat /\ W32 \in Nat /\ W64 \in Nat
    /\ W8 < W16 /\ W16 < W32 /\ W32 < W64
    \* half of a word is the first negative integer it can hold
    /\ W16 % 2 = 0 /\ W32 % 2 = 0 /\ W64 % 2 = 0

Half(w) == w \div 2

Uints == {"uint8", "uint16", "uint32", "uint64"}
Sints == {"int8", "int16", "int32", "int64"}
Strs == {"str8", "str16", "str32"}
Bins == {"bin8", "bin16", "bin32"}
Arrays == {"array16", "array32"}
Maps == {"map16", "map32"}
Tags == {"fix"} \cup Uints \cup Sints \cup Strs \cup Bins \cup Arrays \cup Maps

Kinds == {"int", "str", "bin", "array", "map"}

(* The values of the word behind a tag, and the bytes of the whole head.   *)
Words(tag) ==
    IF tag \in {"fix", "uint8", "int8", "str8", "bin8"} THEN W8
    ELSE IF tag \in {"uint16", "int16", "str16", "bin16", "array16", "map16"} THEN W16
    ELSE IF tag \in {"uint32", "int32", "str32", "bin32", "array32", "map32"} THEN W32
    ELSE W64

HeadSize(tag) ==
    IF tag = "fix" THEN 1
    ELSE IF Words(tag) = W8 THEN 2
    ELSE IF Words(tag) = W16 THEN 3
    ELSE IF Words(tag) = W32 THEN 5
    ELSE 9

TagWord(tag, word) == [tag |-> tag, word |-> word]
NoHead == TagWord("none", 0)

(* Two's complement, as types.i8 and its like write and read it.           *)
Complement(m, w) == IF m < 0 THEN m + w ELSE m
FromComplementOff(word, w) == IF word <= Half(w) THEN word ELSE word - w \* wrong: half is negative
FromComplement(word, w) == IF word < Half(w) THEN word ELSE word - w

(* Wrong version: no str8, as in the first version of the format.          *)
StrHeadOld(m) ==
    IF m < 2 * Unit THEN TagWord("fix", 10 * Unit + m)
    ELSE IF m < W16 THEN TagWord("str16", m)
    ELSE IF m < W32 THEN TagWord("str32", m)
    ELSE NoHead

(* _encode_int, its branches sorted by sign.                               *)
NatHead(m) ==
    IF m < 8 * Unit THEN TagWord("fix", m)
    ELSE IF m < W8 THEN TagWord("uint8", m)
    ELSE IF m < W16 THEN TagWord("uint16", m)
    ELSE IF m < W32 THEN TagWord("uint32", m)
    ELSE IF m < W64 THEN TagWord("uint64", m)
    ELSE NoHead

NegativeHead(m) ==
    IF -(2 * Unit) <= m THEN TagWord("fix", Complement(m, W8))
    ELSE IF -Half(W8) <= m THEN TagWord("int8", Complement(m, W8))
    ELSE IF -Half(W16) <= m THEN TagWord("int16", Complement(m, W16))
    ELSE IF -Half(W32) <= m THEN TagWord("int32", Complement(m, W32))
    ELSE IF -Half(W64) <= m THEN TagWord("int64", Complement(m, W64))
    ELSE NoHead

IntHead(m) == IF m < 0 THEN NegativeHead(m) ELSE NatHead(m)

(* _encode_str and _encode_bin: the length of the text, in bytes.  A       *)
(* length its last word cannot hold is refused by that word's Int.         *)
StrHead(m) ==
    IF m < 2 * Unit THEN TagWord("fix", 10 * Unit + m)
    ELSE IF m < W8 THEN TagWord("str8", m)
    ELSE IF m < W16 THEN TagWord("str16", m)
    ELSE IF m < W32 THEN TagWord("str32", m)
    ELSE NoHead

BinHead(m) ==
    IF m < W8 THEN TagWord("bin8", m)
    ELSE IF m < W16 THEN TagWord("bin16", m)
    ELSE IF m < W32 THEN TagWord("bin32", m)
    ELSE NoHead

(* _encode_array and _encode_map: the number of items.                     *)
ArrayHead(m) ==
    IF m < Unit THEN TagWord("fix", 9 * Unit + m)
    ELSE IF m < W16 THEN TagWord("array16", m)
    ELSE IF m < W32 THEN TagWord("array32", m)
    ELSE NoHead

MapHead(m) ==
    IF m < Unit THEN TagWord("fix", 8 * Unit + m)
    ELSE IF m < W16 THEN TagWord("map16", m)
    ELSE IF m < W32 THEN TagWord("map32", m)
    ELSE NoHead

HeadFor(kind, m) ==
    IF kind = "int" THEN IntHead(m)
    ELSE IF kind = "str" THEN StrHead(m)
    ELSE IF kind = "bin" THEN BinHead(m)
    ELSE IF kind = "array" THEN ArrayHead(m)
    ELSE MapHead(m)

-----------------------------------------------------------------------------
(* decode: what a byte that holds everything, or a tag and its word, says. *)
Meaning(kind, m) == [kind |-> kind, n |-> m]

FixMeaning(byte) ==
    IF byte < 8 * Unit THEN Meaning("int", byte)
    ELSE IF byte < 9 * Unit THEN Meaning("map", byte - 8 * Unit)
    ELSE IF byte < 10 * Unit THEN Meaning("array", byte - 9 * Unit)
    ELSE IF byte < 12 * Unit THEN Meaning("str", byte - 10 * Unit)
    ELSE Meaning("int", byte - W8)

(* _decode_tagged.                                                         *)
KindOf(tag) ==
    IF tag \in Uints \cup Sints THEN "int"
    ELSE IF tag \in Strs THEN "str"
    ELSE IF tag \in Bins THEN "bin"
    ELSE IF tag \in Arrays THEN "array"
    ELSE "map"

HeadMeaning(h) ==
    IF h.tag = "fix" THEN FixMeaning(h.word)
    ELSE IF h.tag \in Sints THEN Meaning("int", FromComplement(h.word, Words(h.tag)))
    ELSE Meaning(KindOf(h.tag), h.word)

(* The heads there are: a word fits its tag, and the bytes from 0xC0 to    *)
(* 0xDF are tags or unused.                                                *)
FixBytes == 0 .. 12 * Unit - 1 \cup 14 * Unit .. W8 - 1
WordsOf(tag) == IF tag = "fix" THEN FixBytes ELSE 0 .. Words(tag) - 1
Heads == UNION {[tag : {tag}, word : WordsOf(tag)] : tag \in Tags}
=============================================================================
