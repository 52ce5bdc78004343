------------------------ MODULE MsgPackWords_proofs ------------------------
(***************************************************************************)
(* For words of every width: each head means what was encoded, and none    *)
(* that is shorter means the same.                                         *)
(***************************************************************************)
EXTENDS MsgPackWords, TLAPS

LEMMA WordSizes ==
    /\ Unit \in Nat /\ Unit >= 1 /\ W8 = 16 * Unit
    /\ W8 \in Nat /\ W16 \in Nat /\ W32 \in Nat /\ W64 \in Nat
    /\ W8 < W16 /\ W16 < W32 /\ W32 < W64
BY HeadsAssumption DEF W8

LEMMA Halves ==
    /\ Half(W8) \in Nat /\ W8 = 2 * Half(W8)
    /\ Half(W16) \in Nat /\ W16 = 2 * Half(W16)
    /\ Half(W32) \in Nat /\ W32 = 2 * Half(W32)
    /\ Half(W64) \in Nat /\ W64 = 2 * Half(W64)
BY HeadsAssumption DEF W8, Half

-----------------------------------------------------------------------------
(* Two's complement read back is the integer written, and the other way    *)
(* about.                                                                  *)
LEMMA ComplementInverse ==
    ASSUME NEW w \in Nat, Half(w) \in Nat, w = 2 * Half(w),
           NEW m \in Int, -Half(w) <= m, m < Half(w)
    PROVE  /\ Complement(m, w) \in 0 .. w - 1
           /\ FromComplement(Complement(m, w), w) = m
BY DEF Complement, FromComplement

LEMMA ComplementRange ==
    ASSUME NEW w \in Nat, Half(w) \in Nat, w = 2 * Half(w), NEW x \in 0 .. w - 1
    PROVE  /\ FromComplement(x, w) \in Int
           /\ -Half(w) <= FromComplement(x, w) /\ FromComplement(x, w) < Half(w)
BY DEF FromComplement

(* Words and head sizes, tag by tag.                                       *)
LEMMA TagSizes ==
    ASSUME NEW tag \in Tags
    PROVE  \/ tag = "fix" /\ HeadSize(tag) = 1
           \/ tag \in {"uint8", "int8", "str8", "bin8"} /\ Words(tag) = W8 /\ HeadSize(tag) = 2
           \/ tag \in {"uint16", "int16", "str16", "bin16", "array16", "map16"}
              /\ Words(tag) = W16 /\ HeadSize(tag) = 3
           \/ tag \in {"uint32", "int32", "str32", "bin32", "array32", "map32"}
              /\ Words(tag) = W32 /\ HeadSize(tag) = 5
           \/ tag \in {"uint64", "int64"} /\ Words(tag) = W64 /\ HeadSize(tag) = 9
BY WordSizes DEF Tags, Uints, Sints, Strs, Bins, Arrays, Maps, HeadSize, Words

-----------------------------------------------------------------------------
(* The numbers that fit a head of so many bytes.                           *)
Sizes == {1, 2, 3, 5, 9}

Low(kind, s) ==
    IF kind # "int" THEN 0
    ELSE IF s = 1 THEN -(2 * Unit)
    ELSE IF s = 2 THEN -Half(W8)
    ELSE IF s = 3 THEN -Half(W16)
    ELSE IF s = 5 THEN -Half(W32)
    ELSE -Half(W64)

FixHigh(kind) ==
    IF kind = "int" THEN 8 * Unit
    ELSE IF kind = "str" THEN 2 * Unit
    ELSE IF kind = "bin" THEN 0
    ELSE Unit

High(kind, s) ==
    IF s = 1 THEN FixHigh(kind)
    ELSE IF s = 2 THEN IF kind \in {"array", "map"} THEN Unit ELSE W8
    ELSE IF s = 3 THEN W16
    ELSE IF s = 5 THEN W32
    ELSE W64

Fits(kind, s, m) == Low(kind, s) <= m /\ m < High(kind, s)

(* The number of m fits a head of s bytes and none that is shorter.        *)
FitsFirst(kind, s, m) ==
    /\ s \in Sizes /\ Fits(kind, s, m)
    /\ \A r \in Sizes : r < s => ~Fits(kind, r, m)

LEMMA TagWordFields ==
    ASSUME NEW tag, NEW word
    PROVE  TagWord(tag, word).tag = tag /\ TagWord(tag, word).word = word
BY DEF TagWord

LEMMA MeaningFields ==
    ASSUME NEW k1, NEW m1, NEW k2, NEW m2, Meaning(k1, m1) = Meaning(k2, m2)
    PROVE  k1 = k2 /\ m1 = m2
<1>1. Meaning(k1, m1).kind = k1 /\ Meaning(k1, m1).n = m1
  BY DEF Meaning
<1>2. Meaning(k2, m2).kind = k2 /\ Meaning(k2, m2).n = m2
  BY DEF Meaning
<1>3. QED
  BY <1>1, <1>2

(* What a byte that holds everything says.                                 *)
LEMMA FixBytesMean ==
    ASSUME NEW b \in FixBytes
    PROVE  \/ (b < 8 * Unit /\ FixMeaning(b) = Meaning("int", b))
           \/ (8 * Unit <= b /\ b < 9 * Unit /\ FixMeaning(b) = Meaning("map", b - 8 * Unit))
           \/ (9 * Unit <= b /\ b < 10 * Unit /\ FixMeaning(b) = Meaning("array", b - 9 * Unit))
           \/ (10 * Unit <= b /\ b < 12 * Unit /\ FixMeaning(b) = Meaning("str", b - 10 * Unit))
           \/ (14 * Unit <= b /\ b < 16 * Unit /\ FixMeaning(b) = Meaning("int", b - W8))
<1>1. b \in Nat /\ (b < 12 * Unit \/ (14 * Unit <= b /\ b < 16 * Unit))
  BY WordSizes DEF FixBytes
<1>2. QED
  BY <1>1, WordSizes DEF FixMeaning

(* What a tag and its word say.                                            *)
LEMMA WordsMean ==
    ASSUME NEW tag \in Tags, tag # "fix", NEW x \in 0 .. Words(tag) - 1
    PROVE  \/ tag \in Sints
              /\ HeadMeaning(TagWord(tag, x)) = Meaning("int", FromComplement(x, Words(tag)))
           \/ tag \in Uints /\ HeadMeaning(TagWord(tag, x)) = Meaning("int", x)
           \/ tag \in Strs /\ HeadMeaning(TagWord(tag, x)) = Meaning("str", x)
           \/ tag \in Bins /\ HeadMeaning(TagWord(tag, x)) = Meaning("bin", x)
           \/ tag \in Arrays /\ HeadMeaning(TagWord(tag, x)) = Meaning("array", x)
           \/ tag \in Maps /\ HeadMeaning(TagWord(tag, x)) = Meaning("map", x)
<1>1. TagWord(tag, x).tag = tag /\ TagWord(tag, x).word = x
  BY TagWordFields
<1>2. HeadMeaning(TagWord(tag, x)) =
        IF tag \in Sints THEN Meaning("int", FromComplement(x, Words(tag))) ELSE Meaning(KindOf(tag), x)
  BY <1>1 DEF HeadMeaning
<1>3. CASE tag \in Sints
  BY <1>2, <1>3
<1>4. CASE tag \notin Sints
  <2>1. \/ tag \in Uints /\ KindOf(tag) = "int"
        \/ tag \in Strs /\ KindOf(tag) = "str"
        \/ tag \in Bins /\ KindOf(tag) = "bin"
        \/ tag \in Arrays /\ KindOf(tag) = "array"
        \/ tag \in Maps /\ KindOf(tag) = "map"
    BY <1>4 DEF Tags, Uints, Sints, Strs, Bins, Arrays, Maps, KindOf
  <2>2. QED
    BY <1>2, <1>4, <2>1
<1>5. QED
  BY <1>3, <1>4

(* A number fits every head that means it.                                 *)
LEMMA MeaningFits ==
    ASSUME NEW tag \in Tags, NEW x \in WordsOf(tag), NEW kind, NEW m,
           HeadMeaning(TagWord(tag, x)) = Meaning(kind, m)
    PROVE  HeadSize(tag) \in Sizes /\ Fits(kind, HeadSize(tag), m)
<1>1. CASE tag = "fix"
  <2>1. HeadSize(tag) = 1
    BY <1>1 DEF HeadSize
  <2>2. x \in FixBytes
    BY <1>1 DEF WordsOf
  <2>3. HeadMeaning(TagWord(tag, x)) = FixMeaning(x)
    BY <1>1, TagWordFields DEF HeadMeaning
  <2>4. x \in Nat
    BY <2>2, WordSizes DEF FixBytes
  <2>5. \/ kind = "int" /\ m = x /\ x < 8 * Unit
        \/ kind = "map" /\ m = x - 8 * Unit /\ 8 * Unit <= x /\ x < 9 * Unit
        \/ kind = "array" /\ m = x - 9 * Unit /\ 9 * Unit <= x /\ x < 10 * Unit
        \/ kind = "str" /\ m = x - 10 * Unit /\ 10 * Unit <= x /\ x < 12 * Unit
        \/ kind = "int" /\ m = x - W8 /\ 14 * Unit <= x /\ x < 16 * Unit
    <3>1. \A k, l : FixMeaning(x) = Meaning(k, l) => kind = k /\ m = l
      BY <2>3, MeaningFields
    <3>2. QED
      BY <2>2, <3>1, FixBytesMean
  <2>6. Low(kind, 1) = IF kind # "int" THEN 0 ELSE -(2 * Unit)
    BY DEF Low
  <2>7. High(kind, 1) = FixHigh(kind)
    BY DEF High
  <2>8. Low(kind, 1) <= m /\ m < High(kind, 1)
    <3>1. CASE kind = "int"
      BY <2>4, <2>5, <2>6, <2>7, <3>1, WordSizes DEF FixHigh
    <3>2. CASE kind = "map"
      BY <2>4, <2>5, <2>6, <2>7, <3>2, WordSizes DEF FixHigh
    <3>3. CASE kind = "array"
      BY <2>4, <2>5, <2>6, <2>7, <3>3, WordSizes DEF FixHigh
    <3>4. CASE kind = "str"
      BY <2>4, <2>5, <2>6, <2>7, <3>4, WordSizes DEF FixHigh
    <3>5. QED
      BY <2>5, <3>1, <3>2, <3>3, <3>4
  <2>9. QED
    BY <2>1, <2>8 DEF Fits, Sizes
<1>2. CASE tag # "fix"
  <2>1. x \in 0 .. Words(tag) - 1
    BY <1>2 DEF WordsOf
  <2>2. \/ tag \in Sints /\ kind = "int" /\ m = FromComplement(x, Words(tag))
        \/ tag \in Uints /\ kind = "int" /\ m = x
        \/ tag \in Strs /\ kind = "str" /\ m = x
        \/ tag \in Bins /\ kind = "bin" /\ m = x
        \/ tag \in Arrays /\ kind = "array" /\ m = x
        \/ tag \in Maps /\ kind = "map" /\ m = x
    BY <1>2, <2>1, WordsMean, MeaningFields
  <2>3. /\ Words(tag) = W8 => HeadSize(tag) = 2
        /\ Words(tag) = W16 => HeadSize(tag) = 3
        /\ Words(tag) = W32 => HeadSize(tag) = 5
        /\ Words(tag) = W64 => HeadSize(tag) = 9
    BY <1>2, WordSizes DEF HeadSize
  <2>4. Words(tag) \in {W8, W16, W32, W64}
    BY DEF Words
  <2>5. HeadSize(tag) \in Sizes
    BY <2>3, <2>4 DEF Sizes
  <2>6. kind = "int" => Low(kind, HeadSize(tag)) = -Half(Words(tag))
    BY <2>3, <2>4, WordSizes DEF Low
  <2>7. kind # "int" => Low(kind, HeadSize(tag)) = 0
    BY DEF Low
  <2>8. kind \notin {"array", "map"} => High(kind, HeadSize(tag)) = Words(tag)
    BY <2>3, <2>4, WordSizes DEF High
  <2>9. tag \in Arrays \cup Maps => Words(tag) \in {W16, W32}
    BY DEF Words, Arrays, Maps
  <2>10. kind \in {"array", "map"} => tag \in Arrays \cup Maps
    BY <2>2
  <2>11. High(kind, HeadSize(tag)) = Words(tag)
    BY <2>3, <2>8, <2>9, <2>10, WordSizes DEF High
  <2>12. Words(tag) \in Nat /\ Half(Words(tag)) \in Nat /\ Words(tag) = 2 * Half(Words(tag))
    BY <2>4, WordSizes, Halves
  <2>13. CASE tag \in Sints
    <3>1. kind = "int" /\ m = FromComplement(x, Words(tag))
      BY <2>2, <2>13 DEF Sints, Uints, Strs, Bins, Arrays, Maps
    <3>2. m \in Int /\ -Half(Words(tag)) <= m /\ m < Half(Words(tag))
      BY <2>1, <2>12, <3>1, ComplementRange
    <3>3. QED
      BY <2>5, <2>6, <2>11, <2>12, <3>1, <3>2 DEF Fits
  <2>14. CASE tag \notin Sints
    <3>1. m = x
      BY <2>2, <2>14
    <3>2. m \in Nat /\ m < Words(tag)
      BY <2>1, <2>12, <3>1
    <3>3. QED
      BY <2>5, <2>6, <2>7, <2>11, <2>12, <3>2 DEF Fits
  <2>15. QED
    BY <2>13, <2>14
<1>3. QED
  BY <1>1, <1>2

-----------------------------------------------------------------------------
(* What the branches of the encoder share: a head that fits is right.      *)
Right(h, kind, m) ==
    /\ h \in Heads
    /\ HeadMeaning(h) = Meaning(kind, m)
    /\ FitsFirst(kind, HeadSize(h.tag), m)

LEMMA WordsAreHeads ==
    /\ \A tag \in Tags : \A x \in WordsOf(tag) : TagWord(tag, x) \in Heads
    /\ \A h \in Heads : h = TagWord(h.tag, h.word) /\ h.tag \in Tags /\ h.word \in WordsOf(h.tag)
BY DEF Heads, TagWord

LEMMA FixRight ==
    ASSUME NEW kind, NEW m \in Int, NEW x \in FixBytes,
           FixMeaning(x) = Meaning(kind, m), Fits(kind, 1, m)
    PROVE  Right(TagWord("fix", x), kind, m)
<1>1. "fix" \in Tags /\ x \in WordsOf("fix") /\ HeadSize("fix") = 1
  BY DEF Tags, WordsOf, HeadSize
<1>2. HeadMeaning(TagWord("fix", x)) = Meaning(kind, m)
  BY TagWordFields DEF HeadMeaning
<1>3. FitsFirst(kind, 1, m)
  BY DEF FitsFirst, Sizes
<1>4. QED
  BY <1>1, <1>2, <1>3, WordsAreHeads, TagWordFields DEF Right

(* Where each kind goes from one size to the next.                         *)
LEMMA Bounds ==
    /\ \A kind \in Kinds : /\ High(kind, 3) = W16 /\ High(kind, 5) = W32 /\ High(kind, 9) = W64
                           /\ kind # "int" => \A s \in Sizes : Low(kind, s) = 0
    /\ High("int", 1) = 8 * Unit /\ High("str", 1) = 2 * Unit /\ High("bin", 1) = 0
    /\ High("array", 1) = Unit /\ High("map", 1) = Unit
    /\ High("int", 2) = W8 /\ High("str", 2) = W8 /\ High("bin", 2) = W8
    /\ High("array", 2) = Unit /\ High("map", 2) = Unit
    /\ Low("int", 1) = -(2 * Unit) /\ Low("int", 2) = -Half(W8) /\ Low("int", 3) = -Half(W16)
    /\ Low("int", 5) = -Half(W32) /\ Low("int", 9) = -Half(W64)
BY DEF High, Low, FixHigh

(* The smaller sizes: it is enough that the bound just below is passed.    *)
Smaller(s) == IF s = 2 THEN 1 ELSE IF s = 3 THEN 2 ELSE IF s = 5 THEN 3 ELSE 5

LEMMA FirstFit ==
    ASSUME NEW kind \in Kinds, NEW m \in Int, NEW s \in Sizes, s # 1,
           Fits(kind, s, m),
           \/ High(kind, Smaller(s)) <= m
           \/ kind = "int" /\ m < Low(kind, Smaller(s))
    PROVE  FitsFirst(kind, s, m)
<1>1. \A r \in Sizes : Low(kind, r) \in Int /\ High(kind, r) \in Int
  BY WordSizes, Halves DEF Low, High, FixHigh
<1>2. /\ High(kind, 1) <= High(kind, 2) /\ High(kind, 2) <= High(kind, 3)
      /\ High(kind, 3) <= High(kind, 5)
  BY WordSizes DEF High, FixHigh
<1>3. kind = "int" => /\ Low(kind, 5) <= Low(kind, 3) /\ Low(kind, 3) <= Low(kind, 2)
                      /\ Low(kind, 2) <= Low(kind, 1)
  <2>1. /\ -Half(W32) <= -Half(W16) /\ -Half(W16) <= -Half(W8) /\ -Half(W8) <= -(2 * Unit)
    BY WordSizes, Halves
  <2>2. QED
    BY <2>1, Bounds
<1>4. ASSUME NEW r \in Sizes, r < s
      PROVE  ~Fits(kind, r, m)
  <2>1. CASE High(kind, Smaller(s)) <= m
    <3>1. High(kind, r) <= m
      BY <1>1, <1>2, <1>4, <2>1 DEF Sizes, Smaller
    <3>2. QED
      BY <1>1, <3>1 DEF Fits
  <2>2. CASE kind = "int" /\ m < Low(kind, Smaller(s))
    <3>1. m < Low(kind, r)
      BY <1>1, <1>3, <1>4, <2>2 DEF Sizes, Smaller
    <3>2. QED
      BY <1>1, <3>1 DEF Fits
  <2>3. QED
    BY <2>1, <2>2
<1>5. QED
  BY <1>4 DEF FitsFirst

(* A tag and its word, the bound of the next smaller head being passed.    *)
LEMMA WordRight ==
    ASSUME NEW kind \in Kinds, NEW m \in Int, NEW tag \in Tags, tag # "fix",
           NEW x \in 0 .. Words(tag) - 1,
           HeadMeaning(TagWord(tag, x)) = Meaning(kind, m),
           \/ High(kind, Smaller(HeadSize(tag))) <= m
           \/ kind = "int" /\ m < Low(kind, Smaller(HeadSize(tag)))
    PROVE  Right(TagWord(tag, x), kind, m)
<1>1. x \in WordsOf(tag)
  BY DEF WordsOf
<1>2. HeadSize(tag) \in Sizes /\ Fits(kind, HeadSize(tag), m)
  BY <1>1, MeaningFits
<1>3. HeadSize(tag) # 1
  BY TagSizes
<1>4. FitsFirst(kind, HeadSize(tag), m)
  BY <1>2, <1>3, FirstFit
<1>5. QED
  BY <1>1, <1>4, WordsAreHeads, TagWordFields DEF Right

(* A word that is the number itself.                                       *)
LEMMA PlainRight ==
    ASSUME NEW kind \in Kinds, NEW m \in Nat, NEW tag \in Tags, tag # "fix", tag \notin Sints,
           KindOf(tag) = kind, m < Words(tag), High(kind, Smaller(HeadSize(tag))) <= m
    PROVE  Right(TagWord(tag, m), kind, m)
<1>1. HeadMeaning(TagWord(tag, m)) = Meaning(kind, m)
  BY TagWordFields DEF HeadMeaning
<1>2. Words(tag) \in Nat
  BY WordSizes DEF Words
<1>3. m \in 0 .. Words(tag) - 1
  BY <1>2
<1>4. QED
  BY <1>1, <1>3, WordRight

(* A word that is its two's complement.                                    *)
LEMMA ComplementRight ==
    ASSUME NEW m \in Int, NEW tag \in Sints, m < 0, -Half(Words(tag)) <= m,
           m < Low("int", Smaller(HeadSize(tag)))
    PROVE  Right(TagWord(tag, Complement(m, Words(tag))), "int", m)
<1>1. tag \in Tags /\ tag # "fix"
  BY DEF Tags, Sints
<1>2. Words(tag) \in Nat /\ Half(Words(tag)) \in Nat /\ Words(tag) = 2 * Half(Words(tag))
  BY WordSizes, Halves DEF Words
<1>3. /\ Complement(m, Words(tag)) \in 0 .. Words(tag) - 1
      /\ FromComplement(Complement(m, Words(tag)), Words(tag)) = m
  <2>1. m < Half(Words(tag))
    BY <1>2
  <2>2. QED
    BY <1>2, <2>1, ComplementInverse
<1>4. HeadMeaning(TagWord(tag, Complement(m, Words(tag)))) = Meaning("int", m)
  BY <1>1, <1>3, TagWordFields DEF HeadMeaning
<1>5. QED
  BY <1>1, <1>3, <1>4, WordRight DEF Kinds

(* What the tags are, one by one.                                          *)
LEMMA TagTable ==
    /\ \A tag \in Uints : tag \in Tags \ {"fix"} /\ tag \notin Sints /\ KindOf(tag) = "int"
    /\ \A tag \in Strs : tag \in Tags \ {"fix"} /\ tag \notin Sints /\ KindOf(tag) = "str"
    /\ \A tag \in Bins : tag \in Tags \ {"fix"} /\ tag \notin Sints /\ KindOf(tag) = "bin"
    /\ \A tag \in Arrays : tag \in Tags \ {"fix"} /\ tag \notin Sints /\ KindOf(tag) = "array"
    /\ \A tag \in Maps : tag \in Tags \ {"fix"} /\ tag \notin Sints /\ KindOf(tag) = "map"
BY DEF Tags, Uints, Sints, Strs, Bins, Arrays, Maps, KindOf

LEMMA SizeTable ==
    /\ \A tag \in {"uint8", "int8", "str8", "bin8"} :
          Words(tag) = W8 /\ HeadSize(tag) = 2 /\ Smaller(HeadSize(tag)) = 1
    /\ \A tag \in {"uint16", "int16", "str16", "bin16", "array16", "map16"} :
          Words(tag) = W16 /\ HeadSize(tag) = 3 /\ Smaller(HeadSize(tag)) = 2
    /\ \A tag \in {"uint32", "int32", "str32", "bin32", "array32", "map32"} :
          Words(tag) = W32 /\ HeadSize(tag) = 5 /\ Smaller(HeadSize(tag)) = 3
    /\ \A tag \in {"uint64", "int64"} :
          Words(tag) = W64 /\ HeadSize(tag) = 9 /\ Smaller(HeadSize(tag)) = 5
BY WordSizes DEF Words, HeadSize, Smaller

-----------------------------------------------------------------------------
(* _encode_int of what is not negative.                                    *)
LEMMA NatHeadRight ==
    ASSUME NEW m \in Nat, NatHead(m) # NoHead
    PROVE  Right(NatHead(m), "int", m)
<1>1. CASE m < 8 * Unit
  <2>1. m \in FixBytes
    BY <1>1, WordSizes DEF FixBytes
  <2>2. FixMeaning(m) = Meaning("int", m)
    BY <1>1 DEF FixMeaning
  <2>3. Fits("int", 1, m)
    BY <1>1, Bounds, WordSizes DEF Fits
  <2>4. QED
    BY <1>1, <2>1, <2>2, <2>3, FixRight DEF NatHead
<1>2. CASE 8 * Unit <= m /\ m < W8
  <2>1. NatHead(m) = TagWord("uint8", m)
    BY <1>2, WordSizes DEF NatHead
  <2>2. QED
    BY <1>2, <2>1, PlainRight, TagTable, SizeTable, Bounds DEF Uints, Kinds
<1>3. CASE W8 <= m /\ m < W16
  <2>1. NatHead(m) = TagWord("uint16", m)
    BY <1>3, WordSizes DEF NatHead
  <2>2. QED
    BY <1>3, <2>1, PlainRight, TagTable, SizeTable, Bounds DEF Uints, Kinds
<1>4. CASE W16 <= m /\ m < W32
  <2>1. NatHead(m) = TagWord("uint32", m)
    BY <1>4, WordSizes DEF NatHead
  <2>2. QED
    BY <1>4, <2>1, PlainRight, TagTable, SizeTable, Bounds DEF Uints, Kinds
<1>5. CASE W32 <= m /\ m < W64
  <2>1. NatHead(m) = TagWord("uint64", m)
    BY <1>5, WordSizes DEF NatHead
  <2>2. QED
    BY <1>5, <2>1, PlainRight, TagTable, SizeTable, Bounds DEF Uints, Kinds
<1>6. ~(W64 <= m)
  BY WordSizes DEF NatHead
<1>7. QED
  BY <1>1, <1>2, <1>3, <1>4, <1>5, <1>6, WordSizes

(* _encode_int of what is negative.                                        *)
LEMMA NegativeHeadRight ==
    ASSUME NEW m \in Int, m < 0, NegativeHead(m) # NoHead
    PROVE  Right(NegativeHead(m), "int", m)
<1>1. CASE -(2 * Unit) <= m
  <2>1. NegativeHead(m) = TagWord("fix", m + W8)
    BY <1>1 DEF NegativeHead, Complement
  <2>2. m + W8 \in FixBytes
    BY <1>1, WordSizes DEF FixBytes
  <2>3. FixMeaning(m + W8) = Meaning("int", (m + W8) - W8)
    BY <1>1, WordSizes DEF FixMeaning
  <2>4. (m + W8) - W8 = m
    BY WordSizes
  <2>5. Fits("int", 1, m)
    BY <1>1, Bounds, WordSizes DEF Fits
  <2>6. QED
    BY <2>1, <2>2, <2>3, <2>4, <2>5, FixRight
<1>2. CASE -Half(W8) <= m /\ m < -(2 * Unit)
  <2>1. NegativeHead(m) = TagWord("int8", Complement(m, W8))
    BY <1>2, WordSizes, Halves DEF NegativeHead
  <2>2. QED
    BY <1>2, <2>1, ComplementRight, SizeTable, Bounds DEF Sints
<1>3. CASE -Half(W16) <= m /\ m < -Half(W8)
  <2>1. NegativeHead(m) = TagWord("int16", Complement(m, W16))
    BY <1>3, WordSizes, Halves DEF NegativeHead
  <2>2. QED
    BY <1>3, <2>1, ComplementRight, SizeTable, Bounds DEF Sints
<1>4. CASE -Half(W32) <= m /\ m < -Half(W16)
  <2>1. NegativeHead(m) = TagWord("int32", Complement(m, W32))
    BY <1>4, WordSizes, Halves DEF NegativeHead
  <2>2. QED
    BY <1>4, <2>1, ComplementRight, SizeTable, Bounds DEF Sints
<1>5. CASE -Half(W64) <= m /\ m < -Half(W32)
  <2>1. NegativeHead(m) = TagWord("int64", Complement(m, W64))
    BY <1>5, WordSizes, Halves DEF NegativeHead
  <2>2. QED
    BY <1>5, <2>1, ComplementRight, SizeTable, Bounds DEF Sints
<1>6. ~(m < -Half(W64))
  BY WordSizes, Halves DEF NegativeHead
<1>7. QED
  BY <1>1, <1>2, <1>3, <1>4, <1>5, <1>6, WordSizes, Halves

(* _encode_str, _encode_bin, _encode_array and _encode_map.                *)
LEMMA StrHeadRight ==
    ASSUME NEW m \in Nat, StrHead(m) # NoHead
    PROVE  Right(StrHead(m), "str", m)
<1>1. CASE m < 2 * Unit
  <2>1. StrHead(m) = TagWord("fix", 10 * Unit + m)
    BY <1>1 DEF StrHead
  <2>2. 10 * Unit + m \in FixBytes
    BY <1>1, WordSizes DEF FixBytes
  <2>3. FixMeaning(10 * Unit + m) = Meaning("str", (10 * Unit + m) - 10 * Unit)
    BY <1>1, WordSizes DEF FixMeaning
  <2>4. (10 * Unit + m) - 10 * Unit = m
    BY WordSizes
  <2>5. Fits("str", 1, m)
    BY <1>1, Bounds, WordSizes DEF Fits, Sizes, Kinds
  <2>6. QED
    BY <2>1, <2>2, <2>3, <2>4, <2>5, FixRight
<1>2. CASE 2 * Unit <= m /\ m < W8
  <2>1. StrHead(m) = TagWord("str8", m)
    BY <1>2, WordSizes DEF StrHead
  <2>2. QED
    BY <1>2, <2>1, PlainRight, TagTable, SizeTable, Bounds, WordSizes DEF Strs, Kinds
<1>3. CASE W8 <= m /\ m < W16
  <2>1. StrHead(m) = TagWord("str16", m)
    BY <1>3, WordSizes DEF StrHead
  <2>2. QED
    BY <1>3, <2>1, PlainRight, TagTable, SizeTable, Bounds, WordSizes DEF Strs, Kinds
<1>4. CASE W16 <= m /\ m < W32
  <2>1. StrHead(m) = TagWord("str32", m)
    BY <1>4, WordSizes DEF StrHead
  <2>2. QED
    BY <1>4, <2>1, PlainRight, TagTable, SizeTable, Bounds, WordSizes DEF Strs, Kinds
<1>5. ~(W32 <= m)
  BY WordSizes DEF StrHead
<1>6. QED
  BY <1>1, <1>2, <1>3, <1>4, <1>5, WordSizes

LEMMA BinHeadRight ==
    ASSUME NEW m \in Nat, BinHead(m) # NoHead
    PROVE  Right(BinHead(m), "bin", m)
<1>1. CASE m < W8
  <2>1. BinHead(m) = TagWord("bin8", m)
    BY <1>1, WordSizes DEF BinHead
  <2>2. QED
    BY <1>1, <2>1, PlainRight, TagTable, SizeTable, Bounds, WordSizes DEF Bins, Kinds
<1>2. CASE W8 <= m /\ m < W16
  <2>1. BinHead(m) = TagWord("bin16", m)
    BY <1>2, WordSizes DEF BinHead
  <2>2. QED
    BY <1>2, <2>1, PlainRight, TagTable, SizeTable, Bounds, WordSizes DEF Bins, Kinds
<1>3. CASE W16 <= m /\ m < W32
  <2>1. BinHead(m) = TagWord("bin32", m)
    BY <1>3, WordSizes DEF BinHead
  <2>2. QED
    BY <1>3, <2>1, PlainRight, TagTable, SizeTable, Bounds, WordSizes DEF Bins, Kinds
<1>4. ~(W32 <= m)
  BY WordSizes DEF BinHead
<1>5. QED
  BY <1>1, <1>2, <1>3, <1>4, WordSizes

LEMMA ArrayHeadRight ==
    ASSUME NEW m \in Nat, ArrayHead(m) # NoHead
    PROVE  Right(ArrayHead(m), "array", m)
<1>1. CASE m < Unit
  <2>1. ArrayHead(m) = TagWord("fix", 9 * Unit + m)
    BY <1>1 DEF ArrayHead
  <2>2. 9 * Unit + m \in FixBytes
    BY <1>1, WordSizes DEF FixBytes
  <2>3. FixMeaning(9 * Unit + m) = Meaning("array", (9 * Unit + m) - 9 * Unit)
    BY <1>1, WordSizes DEF FixMeaning
  <2>4. (9 * Unit + m) - 9 * Unit = m
    BY WordSizes
  <2>5. Fits("array", 1, m)
    BY <1>1, Bounds, WordSizes DEF Fits, Sizes, Kinds
  <2>6. QED
    BY <2>1, <2>2, <2>3, <2>4, <2>5, FixRight
<1>2. CASE Unit <= m /\ m < W16
  <2>1. ArrayHead(m) = TagWord("array16", m)
    BY <1>2, WordSizes DEF ArrayHead
  <2>2. QED
    BY <1>2, <2>1, PlainRight, TagTable, SizeTable, Bounds, WordSizes DEF Arrays, Kinds
<1>3. CASE W16 <= m /\ m < W32
  <2>1. ArrayHead(m) = TagWord("array32", m)
    BY <1>3, WordSizes DEF ArrayHead
  <2>2. QED
    BY <1>3, <2>1, PlainRight, TagTable, SizeTable, Bounds, WordSizes DEF Arrays, Kinds
<1>4. ~(W32 <= m)
  BY WordSizes DEF ArrayHead
<1>5. QED
  BY <1>1, <1>2, <1>3, <1>4, WordSizes

LEMMA MapHeadRight ==
    ASSUME NEW m \in Nat, MapHead(m) # NoHead
    PROVE  Right(MapHead(m), "map", m)
<1>1. CASE m < Unit
  <2>1. MapHead(m) = TagWord("fix", 8 * Unit + m)
    BY <1>1 DEF MapHead
  <2>2. 8 * Unit + m \in FixBytes
    BY <1>1, WordSizes DEF FixBytes
  <2>3. FixMeaning(8 * Unit + m) = Meaning("map", (8 * Unit + m) - 8 * Unit)
    BY <1>1, WordSizes DEF FixMeaning
  <2>4. (8 * Unit + m) - 8 * Unit = m
    BY WordSizes
  <2>5. Fits("map", 1, m)
    BY <1>1, Bounds, WordSizes DEF Fits, Sizes, Kinds
  <2>6. QED
    BY <2>1, <2>2, <2>3, <2>4, <2>5, FixRight
<1>2. CASE Unit <= m /\ m < W16
  <2>1. MapHead(m) = TagWord("map16", m)
    BY <1>2, WordSizes DEF MapHead
  <2>2. QED
    BY <1>2, <2>1, PlainRight, TagTable, SizeTable, Bounds, WordSizes DEF Maps, Kinds
<1>3. CASE W16 <= m /\ m < W32
  <2>1. MapHead(m) = TagWord("map32", m)
    BY <1>3, WordSizes DEF MapHead
  <2>2. QED
    BY <1>3, <2>1, PlainRight, TagTable, SizeTable, Bounds, WordSizes DEF Maps, Kinds
<1>4. ~(W32 <= m)
  BY WordSizes DEF MapHead
<1>5. QED
  BY <1>1, <1>2, <1>3, <1>4, WordSizes

LEMMA HeadForRight ==
    ASSUME NEW kind \in Kinds, NEW m \in Int, kind # "int" => m >= 0, HeadFor(kind, m) # NoHead
    PROVE  Right(HeadFor(kind, m), kind, m)
<1>1. CASE kind = "int"
  <2>1. HeadFor(kind, m) = IF m < 0 THEN NegativeHead(m) ELSE NatHead(m)
    BY <1>1 DEF HeadFor, IntHead
  <2>2. CASE m < 0
    BY <1>1, <2>1, <2>2, NegativeHeadRight
  <2>3. CASE ~(m < 0)
    <3>1. m \in Nat
      BY <2>3
    <3>2. QED
      BY <1>1, <2>1, <2>3, <3>1, NatHeadRight
  <2>4. QED
    BY <2>2, <2>3
<1>2. CASE kind # "int"
  <2>1. m \in Nat
    BY <1>2
  <2>2. \/ kind = "str" /\ HeadFor(kind, m) = StrHead(m)
        \/ kind = "bin" /\ HeadFor(kind, m) = BinHead(m)
        \/ kind = "array" /\ HeadFor(kind, m) = ArrayHead(m)
        \/ kind = "map" /\ HeadFor(kind, m) = MapHead(m)
    BY <1>2 DEF Kinds, HeadFor
  <2>3. QED
    BY <2>1, <2>2, StrHeadRight, BinHeadRight, ArrayHeadRight, MapHeadRight
<1>3. QED
  BY <1>1, <1>2

(* A head that is right is as short as any that means the same.            *)
LEMMA RightIsShortest ==
    ASSUME NEW h, NEW kind, NEW m, Right(h, kind, m),
           NEW g \in Heads, HeadMeaning(g) = Meaning(kind, m)
    PROVE  HeadSize(h.tag) <= HeadSize(g.tag)
<1>1. HeadSize(g.tag) \in Sizes /\ Fits(kind, HeadSize(g.tag), m)
  BY WordsAreHeads, MeaningFits
<1>2. HeadSize(h.tag) \in Sizes /\ ~(HeadSize(g.tag) < HeadSize(h.tag))
  BY <1>1 DEF Right, FitsFirst
<1>3. QED
  BY <1>1, <1>2 DEF Sizes

-----------------------------------------------------------------------------
(* The inductive invariant: a head is the one chosen for what is encoded,  *)
(* and a meaning the meaning of that head.                                 *)
WordsInv ==
    /\ what \in Kinds /\ number \in Numbers /\ (what # "int" => number >= 0)
    /\ head = NoHead \/ head = HeadFor(what, number)
    /\ meaning = Nothing \/ (head # NoHead /\ meaning = HeadMeaning(head))

LEMMA InvHeadRight ==
    ASSUME WordsInv
    PROVE  head = NoHead \/ Right(head, what, number)
<1>1. number \in Int
  BY NumbersAssumption DEF WordsInv
<1>2. QED
  BY <1>1, HeadForRight DEF WordsInv

LEMMA InvKept == Spec => []WordsInv
<1>1. Init => WordsInv
  BY DEF Init, WordsInv
<1>2. ASSUME WordsInv, [Next]_vars
      PROVE  WordsInv'
  <2>1. CASE Encode
    <3>1. meaning = Nothing
      BY <1>2, <2>1 DEF Encode, WordsInv
    <3>2. /\ head' = HeadFor(what, number) /\ meaning' = Nothing
          /\ what' = what /\ number' = number
      BY <2>1, <3>1 DEF Encode
    <3>3. QED
      BY <1>2, <3>2 DEF WordsInv
  <2>2. CASE Decode
    BY <1>2, <2>2 DEF Decode, WordsInv
  <2>3. CASE UNCHANGED vars
    BY <1>2, <2>3 DEF vars, WordsInv
  <2>4. QED
    BY <1>2, <2>1, <2>2, <2>3 DEF Next
<1>3. QED
  BY <1>1, <1>2, PTL DEF Spec

(* Every integer and length has a head that is one, and every head a       *)
(* meaning that is one.                                                    *)
THEOREM TypeCorrect == Spec => []TypeOK
<1>1. ASSUME WordsInv
      PROVE  TypeOK
  <2>1. head \in Heads \cup {NoHead}
    BY <1>1, InvHeadRight DEF Right
  <2>2. number \in Int
    BY <1>1, NumbersAssumption DEF WordsInv
  <2>3. CASE meaning = Nothing
    BY <1>1, <2>1, <2>3 DEF TypeOK, WordsInv
  <2>4. CASE meaning # Nothing
    <3>1. head # NoHead /\ meaning = HeadMeaning(head)
      BY <1>1, <2>4 DEF WordsInv
    <3>2. meaning = Meaning(what, number)
      BY <1>1, <3>1, InvHeadRight DEF Right
    <3>3. meaning \in [kind : Kinds, n : Int]
      BY <1>1, <2>2, <3>2 DEF Meaning, WordsInv
    <3>4. QED
      BY <1>1, <2>1, <3>3 DEF TypeOK, WordsInv
  <2>5. QED
    BY <2>3, <2>4
<1>2. QED
  BY <1>1, InvKept, PTL

(* MsgPack.decode gives back what the slow path of MsgPack.encode was      *)
(* given, whatever the widths of the words.                                *)
THEOREM DecodingInvertsEncoding == Spec => []DecodeInvertsEncode
<1>1. ASSUME WordsInv
      PROVE  DecodeInvertsEncode
  BY <1>1, InvHeadRight DEF WordsInv, Right, DecodeInvertsEncode
<1>2. QED
  BY <1>1, InvKept, PTL

(* The slow path of MsgPack.encode wastes no byte on a head.               *)
THEOREM HeadsAreShortest == Spec => []ShortestHead
<1>1. ASSUME WordsInv
      PROVE  ShortestHead
  <2>1. SUFFICES ASSUME head # NoHead, NEW h \in Heads, HeadMeaning(h) = Meaning(what, number)
                 PROVE  HeadSize(head.tag) <= HeadSize(h.tag)
    BY DEF ShortestHead
  <2>2. Right(head, what, number)
    BY <1>1, <2>1, InvHeadRight
  <2>3. QED
    BY <2>1, <2>2, RightIsShortest
<1>2. QED
  BY <1>1, InvKept, PTL
=============================================================================
