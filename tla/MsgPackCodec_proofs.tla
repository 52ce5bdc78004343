------------------------- MODULE MsgPackCodec_proofs --------------------------
(***************************************************************************)
(* Proofs about MsgPackCodec and MsgPack, for values of every depth, byte  *)
(* strings of every length and streams of both kinds.                      *)
(***************************************************************************)
EXTENDS MsgPackCodec, SequenceTheorems, FiniteSetTheorems, WellFoundedInduction, TLAPS

Byte == 0..255

-----------------------------------------------------------------------------
(* Sequences of whatever elements.                                         *)
IsSeq(s) == Len(s) \in Nat /\ s = [i \in 1..Len(s) |-> s[i]]

LEMMA IsSeqIntro ==
    ASSUME NEW n \in Nat, NEW s, s = [i \in 1..n |-> s[i]]
    PROVE  IsSeq(s) /\ Len(s) = n
<1> DEFINE S == {s[i] : i \in 1..n}
<1>1. s \in [1..n -> S]
  OBVIOUS
<1>2. s \in Seq(S)
  BY <1>1, SeqDef
<1>3. Len(s) \in Nat /\ DOMAIN s = 1..Len(s)
  BY <1>2, LenProperties
<1>4. Len(s) = n
  BY <1>1, <1>3
<1> QED
  BY <1>4 DEF IsSeq

LEMMA IsSeqElim == ASSUME NEW s, IsSeq(s), NEW T PROVE \E S : s \in Seq(S) /\ T \subseteq S
<1> DEFINE S == {s[i] : i \in 1..Len(s)} \cup T
<1>1. s \in [1..Len(s) -> S]
  BY DEF IsSeq
<1>2. s \in Seq(S)
  BY <1>1, SeqDef DEF IsSeq
<1> QED
  BY <1>2

LEMMA SeqIsSeq == ASSUME NEW S, NEW s \in Seq(S) PROVE IsSeq(s)
  BY LenProperties DEF IsSeq

(* The stack: a call is added, or taken away.                              *)
LEMMA Pushed ==
    ASSUME NEW s, IsSeq(s), NEW x
    PROVE  /\ IsSeq(Append(s, x))
           /\ Len(Append(s, x)) = Len(s) + 1
           /\ Append(s, x)[Len(s) + 1] = x
           /\ \A i \in 1..Len(s) : Append(s, x)[i] = s[i]
<1>1. PICK S : s \in Seq(S) /\ {x} \subseteq S
  BY IsSeqElim
<1>2. Append(s, x) \in Seq(S)
  BY <1>1
<1>3. IsSeq(Append(s, x))
  BY <1>2, SeqIsSeq
<1> QED
  BY <1>1, <1>3

LEMMA Popped ==
    ASSUME NEW s, IsSeq(s), Len(s) > 0
    PROVE  /\ IsSeq(Front(s))
           /\ Len(Front(s)) = Len(s) - 1
           /\ \A i \in 1..(Len(s) - 1) : Front(s)[i] = s[i]
<1>1. PICK S : s \in Seq(S)
  BY IsSeqElim
<1>2. PICK n \in Nat : n = Len(s) - 1
  BY DEF IsSeq
<1>3. \A i \in 1..n : s[i] \in S
  BY <1>1, <1>2, ElementOfSeq
<1>4. /\ SubSeq(s, 1, n) \in Seq(S)
      /\ Len(SubSeq(s, 1, n)) = IF 1 <= n THEN n - 1 + 1 ELSE 0
      /\ \A i \in 1..(n - 1 + 1) : SubSeq(s, 1, n)[i] = s[1 + i - 1]
  BY <1>3, SubSeqProperties
<1>5. IsSeq(SubSeq(s, 1, n))
  BY <1>4, SeqIsSeq
<1>6. Len(SubSeq(s, 1, n)) = n
  BY <1>4, SMT
<1>7. \A i \in 1..n : SubSeq(s, 1, n)[i] = s[i]
  BY <1>4
<1> QED
  BY <1>2, <1>5, <1>6, <1>7 DEF Front

(* No call is under way, or there is one that runs.                        *)
LEMMA EmptyOrTop == ASSUME NEW s, IsSeq(s) PROVE (s = <<>>) <=> (Len(s) = 0)
<1>1. PICK S : s \in Seq(S)
  BY IsSeqElim
<1> QED
  BY <1>1, EmptySeq

(* Any set of natural numbers that is not empty has a least element.       *)
LEMMA Least == ASSUME NEW S, S \subseteq Nat, S # {} PROVE \E m \in S : \A k \in S : m <= k
<1> DEFINE R == {ss \in Nat \X Nat : ss[1] < ss[2]}
<1>1. IsWellFoundedOn(R, Nat)
  BY NatLessThanWellFounded DEF OpToRel
<1>2. PICK m \in S : \A k \in S : ~(<<k, m>> \in R)
  <2> HIDE DEF R
  <2> QED
    BY <1>1, WFMin
<1>3. ASSUME NEW k \in S PROVE m <= k
  <2>1. ~(<<k, m>> \in R)
    BY <1>2
  <2>2. ~(k < m)
    BY <2>1
  <2> QED
    BY <2>2
<1> QED
  BY <1>3

-----------------------------------------------------------------------------
(* Numbers.  A number is no less than nothing, whatever bytes it is read   *)
(* from: if one of its prefixes were, there would be a first that is.      *)
Horner(u, s, n) == u = [k \in 0..n |-> IF k = 0 THEN 0 ELSE 256 * u[k - 1] + s[k]]

LEMMA HornerExists == ASSUME NEW s, NEW n \in Nat PROVE \E u : Horner(u, s, n)
<1> DEFINE Bad == {k \in Nat : ~ \E u : Horner(u, s, k)}
<1> SUFFICES ASSUME Bad # {} PROVE FALSE
  OBVIOUS
<1>1. PICK m \in Bad : \A k \in Bad : m <= k
  BY Least
<1>2. m \in Nat /\ ~ \E u : Horner(u, s, m)
  OBVIOUS
<1>3. CASE m = 0
  <2> DEFINE u == [k \in 0..0 |-> 0]
  <2>1. u = [k \in 0..0 |-> IF k = 0 THEN 0 ELSE 256 * u[k - 1] + s[k]]
    OBVIOUS
  <2> QED
    BY <1>2, <1>3, <2>1 DEF Horner
<1>4. CASE m # 0
  <2>1. m - 1 \in Nat /\ m - 1 \notin Bad
    BY <1>1, <1>2, <1>4
  <2>2. PICK u : Horner(u, s, m - 1)
    BY <2>1
  <2>3. u = [k \in 0..(m - 1) |-> IF k = 0 THEN 0 ELSE 256 * u[k - 1] + s[k]]
    BY <2>2 DEF Horner
  <2> DEFINE v == [k \in 0..m |-> IF k < m THEN u[k] ELSE 256 * u[k - 1] + s[k]]
  <2>4. ASSUME NEW k \in 0..m PROVE v[k] = IF k = 0 THEN 0 ELSE 256 * v[k - 1] + s[k]
    <3>1. CASE k < m
      BY <1>2, <1>4, <2>3, <3>1
    <3>2. CASE k = m
      BY <1>2, <1>4, <2>3, <3>2
    <3> QED
      BY <1>2, <3>1, <3>2
  <2>5. v = [k \in 0..m |-> IF k = 0 THEN 0 ELSE 256 * v[k - 1] + s[k]]
    BY <2>4
  <2> QED
    BY <1>2, <2>5 DEF Horner
<1> QED
  BY <1>3, <1>4

LEMMA UnsignedIsNat == ASSUME NEW data \in Seq(Byte) PROVE Unsigned(data) \in Nat
<1> DEFINE first[k \in 0..Len(data)] == IF k = 0 THEN 0 ELSE 256 * first[k - 1] + data[k]
           Bad == {k \in 0..Len(data) : first[k] \notin Nat}
<1>1. Len(data) \in Nat /\ \A k \in 1..Len(data) : data[k] \in Nat
  <2>1. \A k \in 1..Len(data) : data[k] \in Byte
    BY ElementOfSeq
  <2>2. Len(data) \in Nat
    BY LenProperties
  <2>3. ASSUME NEW k \in 1..Len(data) PROVE data[k] \in Nat
    <3>1. Byte \subseteq Nat
      BY DEF Byte
    <3> QED
      BY <2>1, <3>1, Zenon
  <2> QED
    BY <2>2, <2>3
<1>2. \E u : u = [k \in 0..Len(data) |-> IF k = 0 THEN 0 ELSE 256 * u[k - 1] + data[k]]
  BY <1>1, HornerExists DEF Horner
<1>3. first = [k \in 0..Len(data) |-> IF k = 0 THEN 0 ELSE 256 * first[k - 1] + data[k]]
  BY <1>2
<1>4. Unsigned(data) = first[Len(data)]
  BY DEF Unsigned
<1> HIDE DEF first
<1> SUFFICES ASSUME Bad # {} PROVE FALSE
  BY <1>1, <1>4
<1>5. PICK m \in Bad : \A k \in Bad : m <= k
  <2>1. Bad \subseteq Nat
    BY <1>1
  <2> HIDE DEF Bad
  <2> QED
    BY <2>1, Least
<1>6. m # 0
  BY <1>1, <1>3
<1>7. m - 1 \in 0..Len(data) /\ m - 1 \notin Bad
  BY <1>1, <1>5, <1>6
<1>8. first[m - 1] \in Nat /\ data[m] \in Nat
  BY <1>1, <1>5, <1>6, <1>7
<1>9. first[m] = 256 * first[m - 1] + data[m]
  BY <1>3, <1>5, <1>6
<1> QED
  BY <1>8, <1>9

-----------------------------------------------------------------------------
(* What is written.  Every octet of a number in base 256 or 128 is one.    *)
LEMMA FunctionsAreSeqs ==
    ASSUME NEW S, NEW k \in Nat, NEW f \in [1..k -> S]
    PROVE  f \in Seq(S) /\ Len(f) = k
<1>1. f \in Seq(S)
  BY SeqDef
<1>2. DOMAIN f = 1..Len(f) /\ Len(f) \in Nat
  BY <1>1, LenProperties
<1> QED
  BY <1>1, <1>2

LEMMA BigEndianOctets ==
    ASSUME NEW n \in Int, NEW k \in Nat
    PROVE  BigEndian(n, k) \in Seq(Byte) /\ Len(BigEndian(n, k)) = k
<1>1. ASSUME NEW i \in 1..k PROVE (n \div 256 ^ (k - i)) % 256 \in Byte
  BY DEF Byte
<1>2. BigEndian(n, k) \in [1..k -> Byte]
  BY <1>1 DEF BigEndian
<1> QED
  BY <1>2, FunctionsAreSeqs

-----------------------------------------------------------------------------
(* Heads.  A tag says how wide the size behind it is, or the size.         *)
LEMMA SomeWidths ==
    /\ Widths[1] = 1 /\ Widths[2] = 2 /\ Widths[3] = 4 /\ Widths[4] = 8
    /\ \A i \in 1..3 : Widths[i] \in {1, 2, 4}
    /\ \A i \in 1..4 : Widths[i] \in {1, 2, 4, 8}
<1>1. /\ Widths[1] = 1 /\ Widths[2] = 2 /\ Widths[3] = 4 /\ Widths[4] = 8
  BY DEF Widths
<1> QED
  BY <1>1

LEMMA TagSays ==
    ASSUME NEW tag \in Byte
    PROVE  /\ tag \in 0..127 \cup 224..255 => TagHeader(tag) = Header("fixint", 0, 0)
           /\ tag \in 128..143 => TagHeader(tag) = Header("map", 0, tag - 128)
           /\ tag \in 144..159 => TagHeader(tag) = Header("array", 0, tag - 144)
           /\ tag \in 160..191 => TagHeader(tag) = Header("str", 0, tag - 160)
           /\ tag = 192 => TagHeader(tag) = Header("nil", 0, 0)
           /\ tag \in {194, 195} => TagHeader(tag) = Header("bool", 0, 0)
           /\ tag \in 196..198 => TagHeader(tag) = Header("bin", Widths[tag - 195], 0)
           /\ tag \in 202..203 => TagHeader(tag) = Header("float", 0, 4 * (tag - 201))
           /\ tag \in 204..207 => TagHeader(tag) = Header("uint", 0, Widths[tag - 203])
           /\ tag \in 208..211 => TagHeader(tag) = Header("sint", 0, Widths[tag - 207])
           /\ tag \in 217..219 => TagHeader(tag) = Header("str", Widths[tag - 216], 0)
           /\ tag \in 220..221 => TagHeader(tag) = Header("array", 2 * (tag - 219), 0)
           /\ tag \in 222..223 => TagHeader(tag) = Header("map", 2 * (tag - 221), 0)
           /\ tag \in {193, 199, 200, 201, 212, 213, 214, 215, 216} => TagHeader(tag) = Header("unknown", 0, 0)
<1> USE DEF Byte
<1>1. ASSUME tag \in 0..127 \cup 224..255 PROVE TagHeader(tag) = Header("fixint", 0, 0)
  BY <1>1 DEF TagHeader
<1>2. ASSUME tag \in 128..143 PROVE TagHeader(tag) = Header("map", 0, tag - 128)
  BY <1>2 DEF TagHeader
<1>3. ASSUME tag \in 144..159 PROVE TagHeader(tag) = Header("array", 0, tag - 144)
  BY <1>3 DEF TagHeader
<1>4. ASSUME tag \in 160..191 PROVE TagHeader(tag) = Header("str", 0, tag - 160)
  BY <1>4 DEF TagHeader
<1>5. ASSUME tag = 192 PROVE TagHeader(tag) = Header("nil", 0, 0)
  BY <1>5 DEF TagHeader
<1>6. ASSUME tag \in {194, 195} PROVE TagHeader(tag) = Header("bool", 0, 0)
  BY <1>6 DEF TagHeader
<1>7. ASSUME tag \in 196..198 PROVE TagHeader(tag) = Header("bin", Widths[tag - 195], 0)
  BY <1>7 DEF TagHeader
<1>8. ASSUME tag \in 202..203 PROVE TagHeader(tag) = Header("float", 0, 4 * (tag - 201))
  BY <1>8 DEF TagHeader
<1>9. ASSUME tag \in 204..207 PROVE TagHeader(tag) = Header("uint", 0, Widths[tag - 203])
  BY <1>9 DEF TagHeader
<1>10. ASSUME tag \in 208..211 PROVE TagHeader(tag) = Header("sint", 0, Widths[tag - 207])
  BY <1>10 DEF TagHeader
<1>11. ASSUME tag \in 217..219 PROVE TagHeader(tag) = Header("str", Widths[tag - 216], 0)
  BY <1>11 DEF TagHeader
<1>12. ASSUME tag \in 220..221 PROVE TagHeader(tag) = Header("array", 2 * (tag - 219), 0)
  BY <1>12 DEF TagHeader
<1>13. ASSUME tag \in 222..223 PROVE TagHeader(tag) = Header("map", 2 * (tag - 221), 0)
  BY <1>13 DEF TagHeader
<1>14. ASSUME tag \in {193, 199, 200, 201, 212, 213, 214, 215, 216} PROVE TagHeader(tag) = Header("unknown", 0, 0)
  BY <1>14 DEF TagHeader
<1> QED
  BY <1>1, <1>2, <1>3, <1>4, <1>5, <1>6, <1>7, <1>8, <1>9, <1>10, <1>11, <1>12, <1>13, <1>14

LEMMA HeaderParts ==
    ASSUME NEW t, NEW width, NEW size
    PROVE  Header(t, width, size).t = t /\ Header(t, width, size).width = width /\ Header(t, width, size).size = size
  BY DEF Header

LEMMA TagHeaders ==
    ASSUME NEW tag \in Byte
    PROVE  /\ TagHeader(tag).width \in {0, 1, 2, 4}
           /\ TagHeader(tag).size \in Nat
<1> DEFINE h == TagHeader(tag)
<1> HIDE DEF h
<1>1. CASE tag \in 0..127 \cup 224..255
  <2>1. h.width = 0 /\ h.size = 0
    BY <1>1, TagSays, HeaderParts DEF h
  <2> QED
    BY <1>1, <2>1 DEF h
<1>2. CASE tag \in 128..143
  <2>1. h.width = 0 /\ h.size = tag - 128
    BY <1>2, TagSays, HeaderParts DEF h
  <2> QED
    BY <1>2, <2>1 DEF h
<1>3. CASE tag \in 144..159
  <2>1. h.width = 0 /\ h.size = tag - 144
    BY <1>3, TagSays, HeaderParts DEF h
  <2> QED
    BY <1>3, <2>1 DEF h
<1>4. CASE tag \in 160..191
  <2>1. h.width = 0 /\ h.size = tag - 160
    BY <1>4, TagSays, HeaderParts DEF h
  <2> QED
    BY <1>4, <2>1 DEF h
<1>5. CASE tag = 192
  <2>1. h.width = 0 /\ h.size = 0
    BY <1>5, TagSays, HeaderParts DEF h
  <2> QED
    BY <1>5, <2>1 DEF h
<1>6. CASE tag \in {194, 195}
  <2>1. h.width = 0 /\ h.size = 0
    BY <1>6, TagSays, HeaderParts DEF h
  <2> QED
    BY <1>6, <2>1 DEF h
<1>7. CASE tag \in 196..198
  <2>1. h.width = Widths[tag - 195] /\ h.size = 0
    BY <1>7, TagSays, HeaderParts DEF h
  <2>2. tag - 195 \in 1..3
    BY <1>7
  <2> QED
    BY <2>1, <2>2, SomeWidths DEF h
<1>8. CASE tag \in 202..203
  <2>1. h.width = 0 /\ h.size = 4 * (tag - 201)
    BY <1>8, TagSays, HeaderParts DEF h
  <2> QED
    BY <1>8, <2>1 DEF h
<1>9. CASE tag \in 204..207
  <2>1. h.width = 0 /\ h.size = Widths[tag - 203]
    BY <1>9, TagSays, HeaderParts DEF h
  <2>2. tag - 203 \in 1..4
    BY <1>9
  <2> QED
    BY <2>1, <2>2, SomeWidths DEF h
<1>10. CASE tag \in 208..211
  <2>1. h.width = 0 /\ h.size = Widths[tag - 207]
    BY <1>10, TagSays, HeaderParts DEF h
  <2>2. tag - 207 \in 1..4
    BY <1>10
  <2> QED
    BY <2>1, <2>2, SomeWidths DEF h
<1>11. CASE tag \in 217..219
  <2>1. h.width = Widths[tag - 216] /\ h.size = 0
    BY <1>11, TagSays, HeaderParts DEF h
  <2>2. tag - 216 \in 1..3
    BY <1>11
  <2> QED
    BY <2>1, <2>2, SomeWidths DEF h
<1>12. CASE tag \in 220..221
  <2>1. h.width = 2 * (tag - 219) /\ h.size = 0
    BY <1>12, TagSays, HeaderParts DEF h
  <2> QED
    BY <1>12, <2>1 DEF h
<1>13. CASE tag \in 222..223
  <2>1. h.width = 2 * (tag - 221) /\ h.size = 0
    BY <1>13, TagSays, HeaderParts DEF h
  <2> QED
    BY <1>13, <2>1 DEF h
<1>14. CASE tag \in {193, 199, 200, 201, 212, 213, 214, 215, 216}
  <2>1. h.width = 0 /\ h.size = 0
    BY <1>14, TagSays, HeaderParts DEF h
  <2> QED
    BY <1>14, <2>1 DEF h
<1> QED
  BY <1>1, <1>2, <1>3, <1>4, <1>5, <1>6, <1>7, <1>8, <1>9, <1>10, <1>11, <1>12, <1>13, <1>14 DEF Byte

LEMMA PartOfBytes ==
    ASSUME NEW w \in Seq(Byte), NEW a \in Int, NEW b \in Int, a >= 1, b <= Len(w)
    PROVE  SubSeq(w, a, b) \in Seq(Byte)
<1>1. \A i \in a..b : w[i] \in Byte
  <2>1. Len(w) \in Nat
    OBVIOUS
  <2>2. ASSUME NEW i \in a..b PROVE i \in 1..Len(w)
    BY <2>1
  <2> QED
    BY <2>2, ElementOfSeq
<1> QED
  BY <1>1, SubSeqProperties

LEMMA SizeIsNat ==
    ASSUME NEW w \in Seq(Byte), NEW p \in Nat, NEW width \in Nat, p + 1 + width <= Len(w)
    PROVE  Unsigned(SubSeq(w, p + 2, p + 1 + width)) \in Nat
<1>1. SubSeq(w, p + 2, p + 1 + width) \in Seq(Byte)
  BY PartOfBytes
<1> QED
  BY <1>1, UnsignedIsNat

(* The size a head gives, and where it ends.                               *)
SizeAt(w, p) ==
    LET h == TagHeader(w[p + 1])
    IN  IF h.width = 0 THEN h.size ELSE Unsigned(SubSeq(w, p + 2, p + 1 + h.width))

LEMMA HeadParts ==
    ASSUME NEW w, NEW p, HeadAt(w, p).ok
    PROVE  LET h == TagHeader(w[p + 1]) IN
           /\ ~(p >= Len(w)) /\ h.t # "unknown" /\ ~(p + 1 + h.width > Len(w))
           /\ HeadAt(w, p).t = h.t
           /\ HeadAt(w, p).body = p + 1 + h.width
           /\ HeadAt(w, p).bytes = IF h.t \in {"array", "map"} THEN 0 ELSE SizeAt(w, p)
           /\ HeadAt(w, p).values = IF h.t = "array" THEN SizeAt(w, p) ELSE IF h.t = "map" THEN 2 * SizeAt(w, p) ELSE 0
  BY DEF HeadAt, HeadWith, SizeAt, NoHead

LEMMA HeadRange ==
    ASSUME NEW w \in Seq(Byte), NEW p \in Nat, NEW n \in Nat, n = Len(w)
    PROVE  LET h == HeadAt(w, p) IN
           /\ h.ok \in BOOLEAN
           /\ h.ok => p < n /\ h.body \in p + 1 .. n /\ h.bytes \in Nat /\ h.values \in Nat
<1>1. HeadAt(w, p).ok \in BOOLEAN
  BY DEF HeadAt, HeadWith, NoHead
<1>2. ASSUME HeadAt(w, p).ok
      PROVE  /\ p < n /\ HeadAt(w, p).body \in p + 1 .. n
             /\ HeadAt(w, p).bytes \in Nat /\ HeadAt(w, p).values \in Nat
  <2> DEFINE h == TagHeader(w[p + 1])
  <2>1. p < n
    BY <1>2, HeadParts
  <2>2. w[p + 1] \in Byte
    BY <2>1, ElementOfSeq
  <2>3. h.width \in {0, 1, 2, 4} /\ h.size \in Nat
    BY <2>2, TagHeaders
  <2> HIDE DEF h
  <2>4. /\ ~(p + 1 + h.width > n)
        /\ HeadAt(w, p).body = p + 1 + h.width
        /\ HeadAt(w, p).bytes = IF h.t \in {"array", "map"} THEN 0 ELSE SizeAt(w, p)
        /\ HeadAt(w, p).values = IF h.t = "array" THEN SizeAt(w, p) ELSE IF h.t = "map" THEN 2 * SizeAt(w, p) ELSE 0
    BY <1>2, HeadParts DEF h
  <2>5. SizeAt(w, p) \in Nat
    <3>1. SizeAt(w, p) = IF h.width = 0 THEN h.size ELSE Unsigned(SubSeq(w, p + 2, p + 1 + h.width))
      BY DEF SizeAt, h
    <3>2. h.width \in Nat /\ p + 1 + h.width <= n
      BY <2>3, <2>4
    <3> QED
      BY <2>3, <3>1, <3>2, SizeIsNat
  <2>6. p + 1 + h.width \in p + 1 .. n
    BY <2>3, <2>4
  <2> QED
    BY <2>1, <2>4, <2>5, <2>6
<1> QED
  BY <1>1, <1>2

-----------------------------------------------------------------------------
(* The grammar.  The values behind a place are defined by those that start *)
(* further on, so they are defined: there is one more place for which they *)
(* are, up to the first.                                                   *)
Ranged(x, p, n) == x.ok \in BOOLEAN /\ (x.ok => x.end \in p .. n)

LEMMA FirstRange ==
    ASSUME NEW w \in Seq(Byte), NEW p \in Nat, NEW n \in Nat, n = Len(w), p <= n, NEW values,
           \A q \in p + 1 .. n : \A k \in Nat : Ranged(values[q][k], q, n)
    PROVE  Ranged(FirstAt(w, p, values), p + 1, n)
<1> DEFINE h == HeadAt(w, p)
           end == h.body + h.bytes
           inner == values[h.body][h.values]
           first == FirstAt(w, p, values)
<1>1. \A starts : Ranged(NotParsed(starts), p + 1, n)
  BY DEF Ranged, NotParsed
<1>2. ASSUME NEW xs, NEW starts, NEW e \in p + 1 .. n PROVE Ranged(Parsed(xs, e, starts), p + 1, n)
  BY DEF Ranged, Parsed
<1>3. CASE ~h.ok
  BY <1>1, <1>3 DEF FirstAt, FirstWith
<1>4. CASE h.ok
  <2>1. h.body \in p + 1 .. n /\ h.bytes \in Nat /\ h.values \in Nat
    BY <1>4, HeadRange
  <2>2. CASE h.t \in {"array", "map"}
    <3>1. first = NotParsed({p} \cup inner.starts)
          \/ (inner.ok /\ \E xs : first = Parsed(xs, inner.end, {p} \cup inner.starts))
      BY <1>4, <2>2 DEF FirstAt, FirstWith
    <3>2. Ranged(inner, h.body, n)
      BY <2>1
    <3>3. inner.ok => inner.end \in p + 1 .. n
      BY <2>1, <3>2 DEF Ranged
    <3> HIDE DEF inner, first, h
    <3> QED
      BY <1>1, <1>2, <3>1, <3>3 DEF first
  <2>3. CASE h.t \notin {"array", "map"}
    <3>1. first = NotParsed({p}) \/ (~(end > n) /\ \E xs : first = Parsed(xs, end, {p}))
      BY <1>4, <2>3 DEF FirstAt, FirstWith
    <3>2. ~(end > n) => end \in p + 1 .. n
      BY <2>1
    <3> HIDE DEF end, first, h
    <3> QED
      BY <1>1, <1>2, <3>1, <3>2 DEF first
  <2> QED
    BY <2>2, <2>3
<1>5. h.ok \in BOOLEAN
  BY HeadRange
<1> QED
  BY <1>3, <1>4, <1>5

LEMMA FirstLocal ==
    ASSUME NEW w \in Seq(Byte), NEW p \in Nat, NEW n \in Nat, n = Len(w), p <= n, NEW values, NEW others,
           \A q \in p + 1 .. n : \A k \in Nat : values[q][k] = others[q][k]
    PROVE  FirstAt(w, p, values) = FirstAt(w, p, others)
<1> DEFINE h == HeadAt(w, p)
<1>1. CASE ~h.ok
  BY <1>1 DEF FirstAt, FirstWith
<1>2. CASE h.ok
  <2>1. h.body \in p + 1 .. n /\ h.values \in Nat
    BY <1>2, HeadRange
  <2>2. values[h.body][h.values] = others[h.body][h.values]
    BY <2>1
  <2> QED
    BY <2>2 DEF FirstAt, FirstWith
<1> QED
  BY <1>1, <1>2

LEMMA ValuesRange ==
    ASSUME NEW w \in Seq(Byte), NEW p \in Nat, NEW n \in Nat, n = Len(w), p <= n, NEW values, NEW k \in Nat,
           \A q \in p + 1 .. n : \A j \in Nat : Ranged(values[q][j], q, n)
    PROVE  Ranged(ValuesAt(w, p, k, values), p, n)
<1> DEFINE x == ValuesAt(w, p, k, values)
           first == FirstAt(w, p, values)
           rest == values[first.end][k - 1]
<1>1. \A starts : Ranged(NotParsed(starts), p, n)
  BY DEF Ranged, NotParsed
<1>2. ASSUME NEW xs, NEW starts, NEW e \in p .. n PROVE Ranged(Parsed(xs, e, starts), p, n)
  BY DEF Ranged, Parsed
<1>3. CASE k = 0
  <2>1. x = Parsed(<<>>, p, {})
    BY <1>3 DEF ValuesAt
  <2>2. p \in p .. n
    OBVIOUS
  <2> HIDE DEF x
  <2> QED
    BY <1>2, <2>1, <2>2 DEF x
<1>4. CASE k # 0 /\ ~first.ok
  <2>1. x = first
    BY <1>4 DEF ValuesAt
  <2>2. Ranged(first, p + 1, n)
    BY FirstRange
  <2> HIDE DEF x, first
  <2> QED
    BY <1>4, <2>1, <2>2 DEF Ranged, x
<1>5. CASE k # 0 /\ first.ok
  <2>1. Ranged(first, p + 1, n)
    BY FirstRange
  <2>2. first.end \in p + 1 .. n /\ k - 1 \in Nat
    BY <1>5, <2>1 DEF Ranged
  <2>3. Ranged(rest, first.end, n)
    BY <2>2
  <2>4. rest.ok \in BOOLEAN /\ (rest.ok => rest.end \in p .. n)
    BY <2>2, <2>3 DEF Ranged
  <2>5. /\ rest.ok => x = Parsed(first.xs \o rest.xs, rest.end, first.starts \cup rest.starts)
        /\ ~rest.ok => x = NotParsed(first.starts \cup rest.starts)
    BY <1>5 DEF ValuesAt
  <2> HIDE DEF x, first, rest
  <2> QED
    BY <1>1, <1>2, <2>4, <2>5 DEF x
<1> QED
  BY <1>3, <1>4, <1>5

LEMMA ValuesLocal ==
    ASSUME NEW w \in Seq(Byte), NEW p \in Nat, NEW n \in Nat, n = Len(w), p <= n, NEW values, NEW others, NEW k \in Nat,
           \A q \in p + 1 .. n : \A j \in Nat : Ranged(values[q][j], q, n) /\ values[q][j] = others[q][j]
    PROVE  ValuesAt(w, p, k, values) = ValuesAt(w, p, k, others)
<1> DEFINE first == FirstAt(w, p, values)
<1>1. first = FirstAt(w, p, others)
  BY FirstLocal
<1>2. Ranged(first, p + 1, n)
  BY FirstRange
<1>3. CASE k = 0
  BY <1>3 DEF ValuesAt
<1>4. CASE ~first.ok
  BY <1>1, <1>3, <1>4 DEF ValuesAt
<1>5. CASE k # 0 /\ first.ok
  <2>1. first.end \in p + 1 .. n /\ k - 1 \in Nat
    BY <1>2, <1>5 DEF Ranged
  <2>2. values[first.end][k - 1] = others[first.end][k - 1]
    BY <2>1
  <2> QED
    BY <1>1, <2>2 DEF ValuesAt
<1> QED
  BY <1>3, <1>4, <1>5

(* values reads the grammar from lo on.                                    *)
Fixpoint(values, w, lo) == \A p \in lo .. Len(w) : \A j \in Nat : values[p][j] = ValuesAt(w, p, j, values)

LEMMA ReadRange ==
    ASSUME NEW w \in Seq(Byte), NEW n \in Nat, n = Len(w), NEW lo \in Nat, NEW values, Fixpoint(values, w, lo)
    PROVE  \A p \in lo .. n : \A j \in Nat : Ranged(values[p][j], p, n)
<1> DEFINE Fits(p) == \A j \in Nat : Ranged(values[p][j], p, n)
           Bad == {k \in 0 .. n : n - k >= lo /\ ~Fits(n - k)}
<1>1. CASE Bad = {}
  <2> SUFFICES ASSUME NEW p \in lo .. n PROVE Fits(p)
    OBVIOUS
  <2>1. n - p \in 0 .. n /\ n - (n - p) = p
    OBVIOUS
  <2> HIDE DEF Fits
  <2>2. n - p \notin Bad
    BY <1>1
  <2> QED
    BY <2>1, <2>2
<1>2. CASE Bad # {}
  <2>1. PICK m \in Bad : \A k \in Bad : m <= k
    <3>1. Bad \subseteq Nat
      OBVIOUS
    <3> HIDE DEF Bad
    <3> QED
      BY <1>2, <3>1, Least
  <2>2. PICK p \in Nat : p = n - m /\ p <= n /\ p >= lo
    OBVIOUS
  <2>3. ~Fits(p)
    <3> HIDE DEF Fits
    <3> QED
      BY <2>2
  <2>4. ASSUME NEW q \in p + 1 .. n PROVE Fits(q)
    <3>1. n - q \in 0 .. n /\ n - q < m /\ n - (n - q) = q /\ q >= lo
      BY <2>2
    <3> HIDE DEF Fits
    <3>2. n - q \notin Bad
      BY <2>1, <3>1
    <3> QED
      BY <3>1, <3>2
  <2>5. ASSUME NEW j \in Nat PROVE Ranged(values[p][j], p, n)
    <3>1. values[p][j] = ValuesAt(w, p, j, values)
      BY <2>2 DEF Fixpoint
    <3> QED
      BY <2>2, <2>4, <3>1, ValuesRange
  <2> QED
    BY <2>3, <2>5
<1> QED
  BY <1>1, <1>2

(* values is the grammar of the last k places.                              *)
Reading(values, w, k) ==
    values = [p \in Len(w) - k + 1 .. Len(w) |-> [j \in Nat |-> ValuesAt(w, p, j, values)]]

LEMMA ReadingReads ==
    ASSUME NEW w \in Seq(Byte), NEW k \in 0 .. Len(w) + 1, NEW values, Reading(values, w, k)
    PROVE  Fixpoint(values, w, Len(w) - k + 1)
<1> SUFFICES ASSUME NEW p \in Len(w) - k + 1 .. Len(w), NEW j \in Nat
             PROVE  values[p][j] = ValuesAt(w, p, j, values)
  BY DEF Fixpoint
<1> DEFINE F(q) == [e \in Nat |-> ValuesAt(w, q, e, values)]
<1>1. values = [q \in Len(w) - k + 1 .. Len(w) |-> F(q)]
  BY DEF Reading
<1>2. values[p] = F(p)
  <2> HIDE DEF F
  <2> QED
    BY <1>1
<1> QED
  BY <1>2

LEMMA ReadingGrows ==
    ASSUME NEW w \in Seq(Byte), NEW n \in Nat, n = Len(w), NEW k \in 0 .. n, NEW values, Reading(values, w, k)
    PROVE  \E others : Reading(others, w, k + 1)
<1> DEFINE p0 == n - k
           F(q) == [e \in Nat |-> ValuesAt(w, q, e, values)]
           others == [q \in p0 .. n |-> IF q = p0 THEN F(p0) ELSE values[q]]
           G(q) == [e \in Nat |-> ValuesAt(w, q, e, others)]
<1>1. p0 \in Nat /\ p0 <= n /\ n - k + 1 = p0 + 1 /\ n - (k + 1) + 1 = p0
  OBVIOUS
<1>2. Fixpoint(values, w, p0 + 1)
  BY <1>1, ReadingReads
<1>3. \A q \in p0 + 1 .. n : \A e \in Nat : Ranged(values[q][e], q, n)
  BY <1>1, <1>2, ReadRange
<1>4. \A q \in p0 + 1 .. n : others[q] = values[q]
  BY <1>1
<1>5. ASSUME NEW q \in p0 .. n, NEW e \in Nat
      PROVE  ValuesAt(w, q, e, values) = ValuesAt(w, q, e, others)
  <2>1. \A r \in q + 1 .. n : r \in p0 + 1 .. n
    BY <1>1
  <2>2. \A r \in q + 1 .. n : \A f \in Nat : Ranged(values[r][f], r, n) /\ values[r][f] = others[r][f]
    BY <1>3, <1>4, <2>1
  <2>3. q \in Nat /\ q <= n
    BY <1>1
  <2> HIDE DEF others, p0
  <2> QED
    BY <2>2, <2>3, ValuesLocal
<1>6. ASSUME NEW q \in p0 .. n PROVE others[q] = G(q)
  <2>1. F(q) = G(q)
    BY <1>5
  <2>2. CASE q = p0
    BY <2>1, <2>2
  <2>3. CASE q # p0
    <3>1. q \in p0 + 1 .. n
      BY <1>1, <2>3
    <3>2. values = [r \in p0 + 1 .. n |-> F(r)]
      BY <1>1 DEF Reading
    <3>3. values[q] = F(q)
      <4> HIDE DEF F
      <4> QED
        BY <3>1, <3>2
    <3>4. others[q] = values[q]
      BY <1>4, <3>1
    <3> QED
      BY <2>1, <3>3, <3>4
  <2> QED
    BY <2>2, <2>3
<1>7. others = [q \in p0 .. n |-> G(q)]
  <2>1. others = [q \in p0 .. n |-> others[q]]
    OBVIOUS
  <2> HIDE DEF others, G
  <2> QED
    BY <1>6, <2>1
<1>8. Reading(others, w, k + 1)
  BY <1>1, <1>7 DEF Reading
<1> QED
  BY <1>8

LEMMA ReadingExists == ASSUME NEW w \in Seq(Byte) PROVE \E values : Reading(values, w, Len(w) + 1)
<1> PICK n \in Nat : n = Len(w)
  OBVIOUS
<1> DEFINE Bad == {k \in 0 .. n + 1 : ~ \E values : Reading(values, w, k)}
<1> SUFFICES ASSUME Bad # {} PROVE FALSE
  OBVIOUS
<1>1. PICK m \in Bad : \A k \in Bad : m <= k
  <2>1. Bad \subseteq Nat
    OBVIOUS
  <2> HIDE DEF Bad
  <2> QED
    BY <2>1, Least
<1>2. CASE m = 0
  <2> DEFINE values == [p \in n + 1 .. n |-> 0]
  <2>1. values = [p \in n - 0 + 1 .. n |-> [j \in Nat |-> ValuesAt(w, p, j, values)]]
    <3>1. n - 0 + 1 .. n = {} /\ n + 1 .. n = {}
      OBVIOUS
    <3> QED
      BY <3>1
  <2> HIDE DEF values
  <2>2. Reading(values, w, 0)
    BY <2>1 DEF Reading
  <2> QED
    BY <1>2, <2>2
<1>3. CASE m # 0
  <2>1. m - 1 \in 0 .. n /\ m - 1 \notin Bad /\ m - 1 + 1 = m
    BY <1>1, <1>3
  <2>2. PICK values : Reading(values, w, m - 1)
    BY <2>1
  <2>3. \E others : Reading(others, w, m)
    BY <2>1, <2>2, ReadingGrows
  <2> QED
    BY <2>3
<1> QED
  BY <1>2, <1>3

(* The grammar reads every place.                                          *)
LEMMA GrammarFixpoint == ASSUME NEW w \in Seq(Byte) PROVE Fixpoint(Grammar(w), w, 0)
<1> DEFINE values[p \in 0 .. Len(w)] == [j \in Nat |-> ValuesAt(w, p, j, values)]
<1>1. Len(w) \in Nat /\ Len(w) - (Len(w) + 1) + 1 = 0
  OBVIOUS
<1>2. \E R : R = [p \in 0 .. Len(w) |-> [j \in Nat |-> ValuesAt(w, p, j, R)]]
  BY <1>1, ReadingExists DEF Reading
<1>3. values = [p \in 0 .. Len(w) |-> [j \in Nat |-> ValuesAt(w, p, j, values)]]
  BY <1>2
<1>4. Grammar(w) = values
  BY DEF Grammar
<1> HIDE DEF values
<1>5. Reading(values, w, Len(w) + 1)
  BY <1>1, <1>3 DEF Reading
<1>6. Fixpoint(values, w, Len(w) - (Len(w) + 1) + 1)
  BY <1>1, <1>5, ReadingReads
<1> QED
  BY <1>1, <1>4, <1>6


-----------------------------------------------------------------------------
(* What Parse reads, put without the grammar.                              *)
LEMMA ParseReads ==
    ASSUME NEW w \in Seq(Byte), NEW p \in 0 .. Len(w), NEW n \in Nat
    PROVE  Parse(w, p, n) = ValuesAt(w, p, n, Grammar(w))
<1>1. p \in 0 .. Len(w)
  OBVIOUS
<1> QED
  BY <1>1, GrammarFixpoint DEF Fixpoint, Parse

LEMMA GrammarRange ==
    ASSUME NEW w \in Seq(Byte), NEW p \in 0 .. Len(w), NEW n \in Nat
    PROVE  Ranged(Grammar(w)[p][n], p, Len(w))
<1>1. Fixpoint(Grammar(w), w, 0) /\ Len(w) \in Nat
  BY GrammarFixpoint
<1> QED
  BY <1>1, ReadRange

LEMMA FirstReads ==
    ASSUME NEW w \in Seq(Byte), NEW p \in 0 .. Len(w)
    PROVE  Ranged(FirstAt(w, p, Grammar(w)), p + 1, Len(w))
<1>1. Len(w) \in Nat /\ p \in Nat /\ p <= Len(w)
  OBVIOUS
<1>2. \A q \in p + 1 .. Len(w) : \A k \in Nat : Ranged(Grammar(w)[q][k], q, Len(w))
  BY <1>1, GrammarRange
<1> QED
  BY <1>1, <1>2, FirstRange

(* x reads what y reads at its end, and perhaps something before it.       *)
Leads(x, y) == x.ok = y.ok /\ (x.ok => x.end = y.end) /\ y.starts \subseteq x.starts

LEMMA LeadsOn == ASSUME NEW x, NEW y, NEW z, Leads(x, y), Leads(y, z) PROVE Leads(x, z)
  BY DEF Leads

LEMMA ParsedParts ==
    ASSUME NEW xs, NEW end, NEW starts
    PROVE  LET x == Parsed(xs, end, starts) IN x.ok /\ x.xs = xs /\ x.end = end /\ x.starts = starts
  BY DEF Parsed

LEMMA NotParsedParts == ASSUME NEW starts PROVE ~NotParsed(starts).ok /\ NotParsed(starts).starts = starts
  BY DEF NotParsed

(* No values are read where one stands.                                    *)
LEMMA ParseNone ==
    ASSUME NEW w \in Seq(Byte), NEW p \in 0 .. Len(w)
    PROVE  Parse(w, p, 0) = Parsed(<<>>, p, {})
  BY ParseReads DEF ValuesAt

LEMMA ParseOne ==
    ASSUME NEW w \in Seq(Byte), NEW p \in 0 .. Len(w)
    PROVE  LET x == Parse(w, p, 1)
               first == FirstAt(w, p, Grammar(w))
           IN  x.ok = first.ok /\ (x.ok => x.end = first.end /\ x.end \in p + 1 .. Len(w)) /\ x.starts = first.starts
<1> DEFINE x == Parse(w, p, 1)
           first == FirstAt(w, p, Grammar(w))
           rest == Grammar(w)[first.end][1 - 1]
<1>1. x = ValuesAt(w, p, 1, Grammar(w))
  BY ParseReads
<1>2. Ranged(first, p + 1, Len(w))
  BY FirstReads
<1>3. CASE ~first.ok
  <2>1. x = first
    BY <1>1, <1>3 DEF ValuesAt
  <2> QED
    BY <1>3, <2>1
<1>4. CASE first.ok
  <2>1. first.end \in p + 1 .. Len(w)
    BY <1>2, <1>4 DEF Ranged
  <2>2. first.end \in 0 .. Len(w)
    BY <2>1
  <2>3. rest = Parsed(<<>>, first.end, {})
    <3>1. Parse(w, first.end, 1 - 1) = rest
      BY DEF Parse
    <3>2. 1 - 1 = 0
      OBVIOUS
    <3> HIDE DEF rest
    <3> QED
      BY <2>2, <3>1, <3>2, ParseNone
  <2>4. rest.ok /\ rest.end = first.end /\ rest.starts = {}
    BY <2>3 DEF Parsed
  <2>5. x = Parsed(first.xs \o rest.xs, rest.end, first.starts \cup rest.starts)
    <3>1. 1 # 0
      OBVIOUS
    <3> QED
      BY <1>1, <1>4, <2>4, <3>1 DEF ValuesAt
  <2> HIDE DEF x, first, rest
  <2>6. x.ok /\ x.end = first.end /\ x.starts = first.starts
    BY <2>4, <2>5 DEF Parsed
  <2> QED
    BY <1>4, <2>1, <2>6 DEF x, first
<1>5. first.ok \in BOOLEAN
  BY <1>2 DEF Ranged
<1> QED
  BY <1>3, <1>4, <1>5

(* Several values are the first, and then the others.                      *)
LEMMA ParseSplits ==
    ASSUME NEW w \in Seq(Byte), NEW p \in 0 .. Len(w), NEW n \in Nat, n # 0
    PROVE  /\ Parse(w, p, 1).starts \subseteq Parse(w, p, n).starts
           /\ Parse(w, p, n).ok => Parse(w, p, 1).ok
           /\ Parse(w, p, 1).ok => Leads(Parse(w, p, n), Parse(w, Parse(w, p, 1).end, n - 1))
<1> DEFINE x == Parse(w, p, n)
           one == Parse(w, p, 1)
           first == FirstAt(w, p, Grammar(w))
           rest == Grammar(w)[first.end][n - 1]
<1>1. x = ValuesAt(w, p, n, Grammar(w))
  BY ParseReads
<1>2. one.ok = first.ok /\ (one.ok => one.end = first.end /\ one.end \in p + 1 .. Len(w)) /\ one.starts = first.starts
  BY ParseOne
<1>3. CASE ~first.ok
  <2>1. x = first
    BY <1>1, <1>3 DEF ValuesAt
  <2> QED
    BY <1>2, <1>3, <2>1
<1>4. CASE first.ok
  <2>1. one.end = first.end /\ first.end \in p + 1 .. Len(w)
    BY <1>2, <1>4
  <2>2. Parse(w, one.end, n - 1) = rest
    BY <2>1 DEF Parse
  <2>3. n - 1 \in Nat /\ first.end \in 0 .. Len(w)
    BY <2>1
  <2>4. rest.ok \in BOOLEAN
    BY <2>3, GrammarRange DEF Ranged
  <2>5. /\ rest.ok => x = Parsed(first.xs \o rest.xs, rest.end, first.starts \cup rest.starts)
        /\ ~rest.ok => x = NotParsed(first.starts \cup rest.starts)
    BY <1>1, <1>4 DEF ValuesAt
  <2> HIDE DEF x, first, rest, one
  <2>6. CASE rest.ok
    <3>1. x.ok /\ x.end = rest.end /\ x.starts = first.starts \cup rest.starts
      BY <2>5, <2>6, ParsedParts
    <3>2. x.ok = TRUE /\ rest.ok = TRUE
      BY <2>4, <2>5, <2>6 DEF Parsed
    <3>3. one.ok
      BY <1>2, <1>4
    <3>4. Leads(x, rest) /\ one.starts \subseteq x.starts
      BY <1>2, <3>1, <3>2 DEF Leads
    <3> QED
      BY <2>2, <3>3, <3>4 DEF x, one
  <2>7. CASE ~rest.ok
    <3>1. ~x.ok /\ x.starts = first.starts \cup rest.starts
      BY <2>5, <2>7, NotParsedParts
    <3>2. x.ok = rest.ok
      <4>1. x.ok = FALSE
        BY <2>5, <2>7 DEF NotParsed
      <4>2. rest.ok = FALSE
        BY <2>4, <2>7
      <4> QED
        BY <4>1, <4>2
    <3> QED
      BY <1>2, <2>2, <3>1, <3>2 DEF Leads, x, one
  <2> QED
    BY <2>4, <2>6, <2>7
<1>5. first.ok \in BOOLEAN
  BY FirstReads DEF Ranged
<1> QED
  BY <1>3, <1>4, <1>5

(* A value is a head, and what belongs to it.                              *)
LEMMA ParseStarts ==
    ASSUME NEW w \in Seq(Byte), NEW p \in 0 .. Len(w)
    PROVE  p \in Parse(w, p, 1).starts
<1>1. p \in FirstAt(w, p, Grammar(w)).starts
  BY DEF FirstAt, FirstWith, Parsed, NotParsed
<1> QED
  BY <1>1, ParseOne

LEMMA ParseHead ==
    ASSUME NEW w \in Seq(Byte), NEW p \in 0 .. Len(w), Parse(w, p, 1).ok
    PROVE  HeadAt(w, p).ok
<1>1. FirstAt(w, p, Grammar(w)).ok
  BY ParseOne
<1> QED
  BY <1>1 DEF FirstAt, FirstWith, NotParsed

LEMMA ParseContainer ==
    ASSUME NEW w \in Seq(Byte), NEW p \in 0 .. Len(w), HeadAt(w, p).ok, HeadAt(w, p).t \in {"array", "map"}
    PROVE  Leads(Parse(w, p, 1), Parse(w, HeadAt(w, p).body, HeadAt(w, p).values))
<1> DEFINE h == HeadAt(w, p)
           x == Parse(w, p, 1)
           first == FirstAt(w, p, Grammar(w))
           inner == Parse(w, h.body, h.values)
<1>1. inner = Grammar(w)[h.body][h.values]
  BY DEF Parse
<1>2. h.body \in p + 1 .. Len(w) /\ h.values \in Nat
  BY HeadRange
<1>3. inner.ok \in BOOLEAN
  <2>1. h.body \in 0 .. Len(w)
    BY <1>2
  <2> QED
    BY <1>1, <1>2, <2>1, GrammarRange DEF Ranged
<1>4. first = IF inner.ok THEN Parsed(<<Value(h.t, 0, <<>>, inner.xs, FALSE)>>, inner.end, {p} \cup inner.starts)
              ELSE NotParsed({p} \cup inner.starts)
  BY <1>1 DEF FirstAt, FirstWith
<1>5. x.ok = first.ok /\ (x.ok => x.end = first.end) /\ x.starts = first.starts
  BY ParseOne
<1> HIDE DEF x, first, inner, h
<1>6. CASE inner.ok
  <2>1. first.ok /\ first.end = inner.end /\ first.starts = {p} \cup inner.starts
    BY <1>4, <1>6, ParsedParts
  <2>2. first.ok = TRUE /\ inner.ok = TRUE
    BY <1>3, <1>4, <1>6 DEF Parsed
  <2>3. Leads(x, inner)
    BY <1>5, <2>1, <2>2 DEF Leads
  <2> QED
    BY <2>3 DEF x, inner, h
<1>7. CASE ~inner.ok
  <2>1. first.starts = {p} \cup inner.starts
    BY <1>4, <1>7, NotParsedParts
  <2>2. first.ok = FALSE /\ inner.ok = FALSE
    BY <1>3, <1>4, <1>7 DEF NotParsed
  <2>3. Leads(x, inner)
    BY <1>5, <2>1, <2>2 DEF Leads
  <2> QED
    BY <2>3 DEF x, inner, h
<1> QED
  BY <1>3, <1>6, <1>7

LEMMA ParseScalar ==
    ASSUME NEW w \in Seq(Byte), NEW p \in 0 .. Len(w), HeadAt(w, p).ok, HeadAt(w, p).t \notin {"array", "map"}
    PROVE  LET h == HeadAt(w, p)
               end == h.body + h.bytes
           IN  /\ Parse(w, p, 1).ok <=>
                    ~(end > Len(w)) /\ (h.t = "str" => IsText(SubSeq(w, h.body + 1, end)))
               /\ Parse(w, p, 1).ok => Parse(w, p, 1).end = end
<1> DEFINE h == HeadAt(w, p)
           end == h.body + h.bytes
           x == Parse(w, p, 1)
           first == FirstAt(w, p, Grammar(w))
           fits == ~(end > Len(w)) /\ (h.t = "str" => IsText(SubSeq(w, h.body + 1, end)))
<1>1. x.ok = first.ok /\ (x.ok => x.end = first.end)
  BY ParseOne
<1>2. CASE fits
  <2>1. \E xs : first = Parsed(xs, end, {p})
    BY <1>2 DEF FirstAt, FirstWith
  <2>2. first.ok /\ first.end = end
    BY <2>1 DEF Parsed
  <2> QED
    BY <1>1, <1>2, <2>2
<1>3. CASE ~fits
  <2>1. first = NotParsed({p})
    BY <1>3 DEF FirstAt, FirstWith
  <2>2. ~first.ok
    BY <2>1 DEF NotParsed
  <2> QED
    BY <1>1, <1>3, <2>2
<1> QED
  BY <1>2, <1>3

-----------------------------------------------------------------------------
(* What u holds stands in w as well, s places further on.                  *)
Inside(u, w, s) == s + Len(u) <= Len(w) /\ \A i \in 1..Len(u) : u[i] = w[s + i]

LEMMA SamePart ==
    ASSUME NEW u \in Seq(Byte), NEW w \in Seq(Byte), NEW s \in Nat, Inside(u, w, s),
           NEW a \in Nat, NEW b \in Nat, a >= 1, b <= Len(u)
    PROVE  SubSeq(u, a, b) = SubSeq(w, s + a, s + b)
<1> PICK n \in Nat, m \in Nat : n = Len(u) /\ m = Len(w) /\ s + n <= m
  BY DEF Inside
<1>1. \A i \in a..b : u[i] \in Byte
  BY ElementOfSeq
<1>2. \A i \in s + a .. s + b : w[i] \in Byte
  <2>1. \A i \in s + a .. s + b : i \in 1..m
    OBVIOUS
  <2> QED
    BY <2>1, ElementOfSeq
<1> DEFINE x == SubSeq(u, a, b)
           y == SubSeq(w, s + a, s + b)
<1>3. /\ x \in Seq(Byte) /\ Len(x) = IF a <= b THEN b - a + 1 ELSE 0
      /\ \A i \in 1 .. b - a + 1 : x[i] = u[a + i - 1]
  BY <1>1, SubSeqProperties
<1>4. /\ y \in Seq(Byte) /\ Len(y) = IF s + a <= s + b THEN s + b - (s + a) + 1 ELSE 0
      /\ \A i \in 1 .. s + b - (s + a) + 1 : y[i] = w[s + a + i - 1]
  <2>1. s + a \in Int /\ s + b \in Int
    OBVIOUS
  <2> QED
    BY <1>2, <2>1, SubSeqProperties
<1>5. Len(x) = Len(y) /\ \A i \in 1 .. Len(x) : i \in 1 .. b - a + 1
  <2> HIDE DEF x, y
  <2> QED
    BY <1>3, <1>4
<1>6. ASSUME NEW i \in 1 .. Len(x) PROVE x[i] = y[i]
  <2>1. i \in 1 .. b - a + 1 /\ i \in 1 .. s + b - (s + a) + 1
    BY <1>5
  <2>2. x[i] = u[a + i - 1] /\ y[i] = w[s + a + i - 1]
    BY <1>3, <1>4, <2>1
  <2>3. a + i - 1 \in 1..n /\ s + (a + i - 1) = s + a + i - 1
    BY <2>1
  <2> QED
    BY <2>2, <2>3 DEF Inside
<1> HIDE DEF x, y
<1>7. x = y
  BY <1>3, <1>4, <1>5, <1>6, SeqEqual
<1> QED
  BY <1>7 DEF x, y

SamePlaces(u, w, s, a, b) == SubSeq(u, a, b) = SubSeq(w, s + a, s + b)

LEMMA SameThere ==
    ASSUME NEW u \in Seq(Byte), NEW w \in Seq(Byte), NEW s \in Nat, Inside(u, w, s)
    PROVE  \A a, b \in Nat : a >= 1 /\ b <= Len(u) => SamePlaces(u, w, s, a, b)
<1> SUFFICES ASSUME NEW a \in Nat, NEW b \in Nat, a >= 1, b <= Len(u)
             PROVE  SubSeq(u, a, b) = SubSeq(w, s + a, s + b)
  BY DEF SamePlaces
<1> QED
  BY SamePart

LEMMA HeadInside ==
    ASSUME NEW u \in Seq(Byte), NEW w \in Seq(Byte), NEW s \in Nat, Inside(u, w, s),
           NEW p \in 0 .. Len(u), HeadAt(u, p).ok
    PROVE  LET h == HeadAt(u, p)
               g == HeadAt(w, s + p)
           IN  g.ok /\ g.t = h.t /\ g.body = s + h.body /\ g.bytes = h.bytes /\ g.values = h.values
<1>0. PICK n \in Nat, m \in Nat : n = Len(u) /\ m = Len(w) /\ s + n <= m
  BY DEF Inside
<1> DEFINE h == TagHeader(u[p + 1])
<1>1. p < n /\ h.t # "unknown" /\ ~(p + 1 + h.width > n)
  BY <1>0, HeadParts
<1>2. u[p + 1] = w[s + p + 1] /\ u[p + 1] \in Byte
  <2>1. p + 1 \in 1..n /\ s + (p + 1) = s + p + 1
    BY <1>0, <1>1
  <2> QED
    BY <1>0, <2>1, ElementOfSeq DEF Inside
<1>3. h.width \in {0, 1, 2, 4} /\ h.size \in Nat
  BY <1>2, TagHeaders
<1>4. h = TagHeader(w[s + p + 1])
  BY <1>2
<1> HIDE DEF h
<1>5. ~(s + p >= m) /\ ~(s + p + 1 + h.width > m)
  BY <1>0, <1>1, <1>3
<1>6. SubSeq(u, p + 2, p + 1 + h.width) = SubSeq(w, s + p + 2, s + p + 1 + h.width)
  <2>1. PICK k \in Nat : k = h.width /\ p + 1 + k <= Len(u)
    BY <1>0, <1>1, <1>3
  <2>2. PICK a \in Nat, b \in Nat : a = p + 2 /\ b = p + 1 + k
    OBVIOUS
  <2>3. a >= 1 /\ b <= Len(u)
    BY <2>1, <2>2
  <2>4. SamePlaces(u, w, s, a, b)
    BY <2>3, SameThere
  <2>5. s + a = s + p + 2 /\ s + b = s + p + 1 + k
    BY <2>2
  <2> QED
    BY <2>1, <2>2, <2>4, <2>5 DEF SamePlaces
<1>7. SizeAt(u, p) = SizeAt(w, s + p)
  BY <1>4, <1>6 DEF SizeAt, h
<1>8. HeadAt(w, s + p).ok
  BY <1>0, <1>1, <1>4, <1>5 DEF HeadAt, HeadWith
<1>9. /\ HeadAt(u, p).t = h.t /\ HeadAt(u, p).body = p + 1 + h.width
      /\ HeadAt(u, p).bytes = IF h.t \in {"array", "map"} THEN 0 ELSE SizeAt(u, p)
      /\ HeadAt(u, p).values = IF h.t = "array" THEN SizeAt(u, p) ELSE IF h.t = "map" THEN 2 * SizeAt(u, p) ELSE 0
  BY HeadParts DEF h
<1>10. /\ HeadAt(w, s + p).t = h.t /\ HeadAt(w, s + p).body = s + p + 1 + h.width
       /\ HeadAt(w, s + p).bytes = IF h.t \in {"array", "map"} THEN 0 ELSE SizeAt(w, s + p)
       /\ HeadAt(w, s + p).values = IF h.t = "array" THEN SizeAt(w, s + p) ELSE IF h.t = "map" THEN 2 * SizeAt(w, s + p) ELSE 0
  BY <1>4, <1>8, HeadParts
<1>11. s + (p + 1 + h.width) = s + p + 1 + h.width
  BY <1>3
<1> QED
  BY <1>7, <1>8, <1>9, <1>10, <1>11

(* So what is read of u is read of w, and ends s places further on.  Of    *)
(* the values that are not, there would be one with none behind it.        *)
Carried(u, w, s, p, n) == Parse(u, p, n).ok => Parse(w, s + p, n).ok /\ Parse(w, s + p, n).end = s + Parse(u, p, n).end

LEMMA OneCarried ==
    ASSUME NEW u \in Seq(Byte), NEW w \in Seq(Byte), NEW s \in Nat, Inside(u, w, s), NEW p \in 0 .. Len(u),
           \A q \in p + 1 .. Len(u) : \A k \in Nat : Carried(u, w, s, q, k)
    PROVE  Carried(u, w, s, p, 1)
<1> DEFINE x == Parse(u, p, 1)
           y == Parse(w, s + p, 1)
           h == HeadAt(u, p)
           g == HeadAt(w, s + p)
<1>1. SUFFICES ASSUME x.ok PROVE y.ok /\ y.end = s + x.end
  BY DEF Carried
<1>2. s + p \in 0 .. Len(w) /\ s + Len(u) <= Len(w)
  BY DEF Inside
<1>3. h.ok /\ x.end \in p + 1 .. Len(u)
  BY <1>1, ParseHead, ParseOne
<1>4. g.ok /\ g.t = h.t /\ g.body = s + h.body /\ g.bytes = h.bytes /\ g.values = h.values
  BY <1>3, HeadInside
<1>5. PICK b \in Nat, k \in Nat, c \in Nat : b = h.body /\ k = h.values /\ c = h.bytes /\ b \in p + 1 .. Len(u)
  BY <1>3, HeadRange
<1>6. CASE h.t \in {"array", "map"}
  <2>1. Leads(x, Parse(u, b, k))
    BY <1>3, <1>5, <1>6, ParseContainer
  <2>2. Leads(y, Parse(w, s + b, k))
    BY <1>2, <1>4, <1>5, <1>6, ParseContainer
  <2>3. Carried(u, w, s, b, k)
    BY <1>5
  <2> HIDE DEF x, y
  <2>4. Parse(u, b, k).ok /\ Parse(u, b, k).end = x.end
    BY <1>1, <2>1 DEF Leads
  <2>5. Parse(w, s + b, k).ok /\ Parse(w, s + b, k).end = s + x.end
    BY <2>3, <2>4 DEF Carried
  <2> QED
    BY <2>2, <2>5 DEF Leads
<1>7. CASE h.t \notin {"array", "map"}
  <2> DEFINE end == b + c
  <2>1. x.end = end /\ ~(end > Len(u)) /\ (h.t = "str" => IsText(SubSeq(u, b + 1, end)))
    BY <1>1, <1>3, <1>5, <1>7, ParseScalar
  <2>2. SubSeq(u, b + 1, end) = SubSeq(w, g.body + 1, g.body + g.bytes)
    <3>1. PICK a \in Nat, e \in Nat : a = b + 1 /\ e = end
      BY <1>5
    <3>2. a >= 1 /\ e <= Len(u)
      BY <2>1, <3>1
    <3>3. SamePlaces(u, w, s, a, e)
      BY <3>2, SameThere
    <3>4. s + a = g.body + 1 /\ s + e = g.body + g.bytes
      <4>1. g.body = s + b /\ g.bytes = c
        BY <1>4, <1>5
      <4> HIDE DEF g
      <4> QED
        BY <3>1, <4>1
    <3>5. SubSeq(u, b + 1, end) = SubSeq(u, a, e)
      BY <3>1
    <3>6. SubSeq(w, s + a, s + e) = SubSeq(w, g.body + 1, g.body + g.bytes)
      BY <3>4, Zenon
    <3> QED
      BY <3>3, <3>5, <3>6, Zenon DEF SamePlaces
  <2>3. g.body + g.bytes = s + end
    BY <1>4, <1>5
  <2>4. ~(g.body + g.bytes > Len(w))
    BY <1>2, <1>5, <2>1, <2>3
  <2>5. g.t \notin {"array", "map"} /\ (g.t = "str" => IsText(SubSeq(w, g.body + 1, g.body + g.bytes)))
    BY <1>4, <1>7, <2>1, <2>2
  <2>6. y.ok /\ y.end = g.body + g.bytes
    BY <1>2, <1>4, <2>4, <2>5, ParseScalar
  <2> QED
    BY <2>1, <2>3, <2>6
<1> QED
  BY <1>6, <1>7

LEMMA AllCarried ==
    ASSUME NEW u \in Seq(Byte), NEW w \in Seq(Byte), NEW s \in Nat, Inside(u, w, s), NEW p \in 0 .. Len(u),
           \A q \in p + 1 .. Len(u) : \A k \in Nat : Carried(u, w, s, q, k)
    PROVE  \A n \in Nat : Carried(u, w, s, p, n)
<1> SUFFICES ASSUME NEW n \in Nat, Parse(u, p, n).ok
             PROVE  Parse(w, s + p, n).ok /\ Parse(w, s + p, n).end = s + Parse(u, p, n).end
  BY DEF Carried
<1>1. s + p \in 0 .. Len(w)
  BY DEF Inside
<1>2. CASE n = 0
  <2>1. Parse(u, p, 0).end = p /\ Parse(w, s + p, 0).ok /\ Parse(w, s + p, 0).end = s + p
    BY <1>1, ParseNone, ParsedParts
  <2> QED
    BY <1>2, <2>1
<1>3. CASE n # 0
  <2> DEFINE x == Parse(u, p, 1)
             y == Parse(w, s + p, 1)
  <2>1. x.ok
    BY <1>3, ParseSplits
  <2>2. PICK e \in Nat, m \in Nat : e = x.end /\ e \in p + 1 .. Len(u) /\ m = n - 1
    BY <1>3, <2>1, ParseOne
  <2>3. y.ok /\ y.end = s + e
    BY <2>1, <2>2, OneCarried DEF Carried
  <2>4. Leads(Parse(u, p, n), Parse(u, e, m))
    BY <1>3, <2>1, <2>2, ParseSplits
  <2>5. Leads(Parse(w, s + p, n), Parse(w, s + e, m))
    BY <1>1, <1>3, <2>2, <2>3, ParseSplits
  <2> HIDE DEF x, y
  <2>6. Carried(u, w, s, e, m)
    BY <2>2
  <2>7. Parse(u, e, m).ok /\ Parse(u, e, m).end = Parse(u, p, n).end
    BY <2>4 DEF Leads
  <2>8. Parse(w, s + e, m).ok /\ Parse(w, s + e, m).end = s + Parse(u, p, n).end
    BY <2>6, <2>7 DEF Carried
  <2> QED
    BY <2>5, <2>8 DEF Leads
<1> QED
  BY <1>2, <1>3

LEMMA InsideParses ==
    ASSUME NEW u \in Seq(Byte), NEW w \in Seq(Byte), NEW s \in Nat, Inside(u, w, s)
    PROVE  \A p \in 0 .. Len(u) : \A n \in Nat : Carried(u, w, s, p, n)
<1> PICK N \in Nat : N = Len(u)
  OBVIOUS
<1> DEFINE Fits(p) == \A n \in Nat : Carried(u, w, s, p, n)
           Bad == {k \in 0 .. N : ~Fits(N - k)}
<1>1. CASE Bad = {}
  <2> SUFFICES ASSUME NEW p \in 0 .. N PROVE Fits(p)
    OBVIOUS
  <2>1. N - p \in 0 .. N /\ N - (N - p) = p
    OBVIOUS
  <2> HIDE DEF Fits
  <2>2. N - p \notin Bad
    BY <1>1
  <2> QED
    BY <2>1, <2>2
<1>2. CASE Bad # {}
  <2>1. PICK m \in Bad : \A k \in Bad : m <= k
    <3>1. Bad \subseteq Nat
      OBVIOUS
    <3> HIDE DEF Bad
    <3> QED
      BY <1>2, <3>1, Least
  <2>2. PICK p \in 0 .. N : p = N - m
    OBVIOUS
  <2>3. ~Fits(p)
    <3> HIDE DEF Fits
    <3> QED
      BY <2>2
  <2>4. ASSUME NEW q \in p + 1 .. N PROVE Fits(q)
    <3>1. N - q \in 0 .. N /\ N - q < m /\ N - (N - q) = q
      BY <2>2
    <3> HIDE DEF Fits
    <3>2. N - q \notin Bad
      BY <2>1, <3>1
    <3> QED
      BY <3>1, <3>2
  <2>5. Fits(p)
    BY <2>4, AllCarried
  <2> QED
    BY <2>3, <2>5
<1> QED
  BY <1>1, <1>2

-----------------------------------------------------------------------------
(* A wire with l zeros behind it, as OnlyShortStrings fills it up.         *)
Longer(w, l) == w \o [i \in 1..l |-> 0]

LEMMA LongerParts ==
    ASSUME NEW w \in Seq(Byte), NEW l \in Nat
    PROVE  /\ Longer(w, l) \in Seq(Byte)
           /\ Len(Longer(w, l)) = Len(w) + l
           /\ \A i \in 1 .. Len(w) : Longer(w, l)[i] = w[i]
           /\ \A i \in Len(w) + 1 .. Len(w) + l : Longer(w, l)[i] = 0
<1> DEFINE z == [i \in 1..l |-> 0]
<1>1. z \in Seq(Byte) /\ Len(z) = l
  <2>1. z \in [1..l -> Byte]
    BY DEF Byte
  <2> HIDE DEF z
  <2>2. z \in Seq(Byte)
    BY <2>1, SeqDef
  <2> QED
    BY <2>1, <2>2, LenProperties
<1>2. \A i \in 1..l : z[i] = 0
  OBVIOUS
<1>3. Longer(w, l) = w \o z
  BY DEF Longer
<1> HIDE DEF z
<1>4. /\ w \o z \in Seq(Byte) /\ Len(w \o z) = Len(w) + Len(z)
      /\ \A i \in 1 .. Len(w) + Len(z) : (w \o z)[i] = IF i <= Len(w) THEN w[i] ELSE z[i - Len(w)]
  BY <1>1, ConcatProperties
<1>5. ASSUME NEW i \in 1 .. Len(w) PROVE Longer(w, l)[i] = w[i]
  BY <1>1, <1>3, <1>4
<1>6. ASSUME NEW i \in Len(w) + 1 .. Len(w) + l PROVE Longer(w, l)[i] = 0
  <2>1. i - Len(w) \in 1..l /\ i \in 1 .. Len(w) + Len(z) /\ ~(i <= Len(w))
    BY <1>1
  <2> QED
    BY <1>2, <1>3, <1>4, <2>1
<1> QED
  BY <1>1, <1>3, <1>4, <1>5, <1>6

LEMMA LongerByNone == ASSUME NEW w \in Seq(Byte) PROVE Longer(w, 0) = w
<1>1. Longer(w, 0) \in Seq(Byte) /\ Len(Longer(w, 0)) = Len(w)
  BY LongerParts
<1>2. \A i \in 1 .. Len(w) : Longer(w, 0)[i] = w[i]
  BY LongerParts
<1> QED
  BY <1>1, <1>2, SeqEqual

LEMMA WireInside == ASSUME NEW w \in Seq(Byte), NEW l \in Nat PROVE Inside(w, Longer(w, l), 0)
<1>1. 0 + Len(w) <= Len(Longer(w, l))
  BY LongerParts
<1>2. ASSUME NEW i \in 1 .. Len(w) PROVE w[i] = Longer(w, l)[0 + i]
  <2>1. 0 + i = i
    OBVIOUS
  <2> QED
    BY <2>1, LongerParts
<1> QED
  BY <1>1, <1>2 DEF Inside

LEMMA FrameInside ==
    ASSUME NEW w \in Seq(Byte), NEW l \in Nat, NEW a \in Nat, NEW b \in Nat, a <= b, b <= Len(w)
    PROVE  LET frame == SubSeq(w, a + 1, b) IN
           frame \in Seq(Byte) /\ Len(frame) = b - a /\ Inside(frame, Longer(w, l), a)
<1> DEFINE frame == SubSeq(w, a + 1, b)
<1>1. \A i \in a + 1 .. b : w[i] \in Byte
  <2>1. \A i \in a + 1 .. b : i \in 1..Len(w)
    OBVIOUS
  <2> QED
    BY <2>1, ElementOfSeq
<1>2. /\ frame \in Seq(Byte) /\ Len(frame) = IF a + 1 <= b THEN b - (a + 1) + 1 ELSE 0
      /\ \A i \in 1 .. b - (a + 1) + 1 : frame[i] = w[a + 1 + i - 1]
  BY <1>1, SubSeqProperties
<1> HIDE DEF frame
<1>3. Len(frame) = b - a
  BY <1>2
<1>4. ASSUME NEW i \in 1 .. Len(frame) PROVE frame[i] = Longer(w, l)[a + i]
  <2>1. i \in 1 .. b - (a + 1) + 1 /\ a + 1 + i - 1 = a + i /\ a + i \in 1 .. Len(w)
    BY <1>3
  <2> QED
    BY <1>2, <2>1, LongerParts
<1>5. a + Len(frame) <= Len(Longer(w, l))
  BY <1>3, LongerParts
<1> QED
  BY <1>2, <1>3, <1>4, <1>5 DEF Inside, frame

(* A text that the end of the wire cuts short is a text with zeros, too.   *)
LEMMA LongerIsText ==
    ASSUME NEW w \in Seq(Byte), NEW l \in Nat, NEW a \in Nat, a >= 1, a <= Len(w) + 1,
           IsText(SubSeq(w, a, Len(w)))
    PROVE  IsText(SubSeq(Longer(w, l), a, Len(w) + l))
<1> PICK n \in Nat : n = Len(w)
  OBVIOUS
<1> DEFINE v == Longer(w, l)
           x == SubSeq(w, a, n)
           y == SubSeq(v, a, n + l)
<1>0. v \in Seq(Byte) /\ Len(v) = n + l
  BY LongerParts
<1>1. \A i \in a .. n : w[i] \in Byte
  BY ElementOfSeq
<1>2. \A i \in a .. n + l : v[i] \in Byte
  <2>1. \A i \in a .. n + l : i \in 1..n + l
    OBVIOUS
  <2> HIDE DEF v
  <2> QED
    BY <1>0, <2>1, ElementOfSeq
<1>3. /\ x \in Seq(Byte) /\ Len(x) = IF a <= n THEN n - a + 1 ELSE 0
      /\ \A i \in 1 .. n - a + 1 : x[i] = w[a + i - 1]
  BY <1>1, SubSeqProperties
<1>4. /\ y \in Seq(Byte) /\ Len(y) = IF a <= n + l THEN n + l - a + 1 ELSE 0
      /\ \A i \in 1 .. n + l - a + 1 : y[i] = v[a + i - 1]
  <2>1. n + l \in Int
    OBVIOUS
  <2> QED
    BY <1>2, <2>1, SubSeqProperties
<1> HIDE DEF x, y
<1>5. PICK m \in Nat : m = n - a + 1 /\ Len(x) = m /\ Len(y) = m + l
  <2>1. n - a + 1 \in Nat
    OBVIOUS
  <2>2. Len(x) = n - a + 1
    BY <1>3
  <2>3. Len(y) = n - a + 1 + l
    BY <1>4
  <2> QED
    BY <2>1, <2>2, <2>3
<1>6. ASSUME NEW i \in 1 .. m PROVE y[i] = x[i]
  <2>1. i \in 1 .. n - a + 1 /\ i \in 1 .. n + l - a + 1 /\ a + i - 1 \in 1 .. n
    BY <1>5
  <2>2. v[a + i - 1] = w[a + i - 1]
    BY <2>1, LongerParts
  <2> HIDE DEF v
  <2> QED
    BY <1>3, <1>4, <2>1, <2>2
<1>7. ASSUME NEW i \in m + 1 .. m + l PROVE y[i] = 0
  <2>1. i \in 1 .. n + l - a + 1
    BY <1>5
  <2>2. a + i - 1 \in n + 1 .. n + l
    BY <1>5
  <2>3. v[a + i - 1] = 0
    BY <2>2, LongerParts
  <2> HIDE DEF v
  <2> QED
    BY <1>4, <2>1, <2>3
<1>8. DOMAIN x = 1..m /\ DOMAIN y = 1..(m + l)
  BY <1>3, <1>4, <1>5, LenProperties
<1>9. IsText(x)
  BY DEF x
<1>10. ASSUME NEW i \in 1..(m + l)
       PROVE  y[i] < 128 \/ Follows(y, i) \/ (y[i] \in 194..223 /\ i < Len(y) /\ Follows(y, i + 1))
  <2>1. CASE i \in m + 1 .. m + l
    BY <1>7, <2>1
  <2>2. CASE i \in 1..m
    <3>1. x[i] < 128 \/ Follows(x, i) \/ (x[i] \in 194..223 /\ i < Len(x) /\ Follows(x, i + 1))
      BY <1>8, <1>9, <2>2 DEF IsText
    <3>2. x[i] = y[i]
      BY <1>6, <2>2
    <3>3. CASE Follows(x, i)
      <4>1. i - 1 \in 1..m
        BY <2>2, <3>3 DEF Follows
      <4>2. x[i - 1] = y[i - 1]
        BY <1>6, <4>1
      <4> QED
        BY <3>2, <3>3, <4>2 DEF Follows
    <3>4. CASE x[i] \in 194..223 /\ i < Len(x) /\ Follows(x, i + 1)
      <4>1. i + 1 \in 1..m /\ i + 1 - 1 = i /\ i < Len(y)
        BY <1>5, <2>2, <3>4
      <4>2. x[i + 1] = y[i + 1]
        BY <1>6, <4>1
      <4> QED
        BY <3>2, <3>4, <4>1, <4>2 DEF Follows
    <3> QED
      BY <3>1, <3>2, <3>3, <3>4
  <2> QED
    BY <1>5, <2>1, <2>2
<1>11. IsText(y)
  BY <1>8, <1>10 DEF IsText
<1> QED
  BY <1>11 DEF y, v

-----------------------------------------------------------------------------
(* The inductive invariant behind CodecTypeOK.  The calls of decode wait   *)
(* for an item unless they are the last, each started no earlier than its  *)
(* caller, and a call of encode is for a value somewhere in the one given. *)
CallFields == {"self", "at", "start", "need", "t", "todo", "items", "kids", "pair", "val"}
IsCall(C) ==
    /\ DOMAIN C = CallFields
    /\ C.at \in {"copy", "slow", "items", "return"}
    /\ C.start \in Nat /\ C.need \in Nat /\ C.todo \in Nat

DecodeCalls ==
    /\ IsSeq(calls)
    /\ \A i \in 1..Len(calls) : IsCall(calls[i]) /\ calls[i].start <= pos
    /\ \A i \in 1..Len(calls) - 1 : calls[i].at = "items" /\ calls[i].todo > 0
    /\ \A i, j \in 1..Len(calls) : i <= j => calls[i].start <= calls[j].start

(* What a caller may give: values of the kinds there are, with numbers and *)
(* lengths that fit a word, and so it is with the members of a container.  *)
ValueKinds == {"nil", "bool", "int", "float", "str", "bin", "list", "tuple", "dict", "set", "object"}
IsMade(x) ==
    /\ x.t \in ValueKinds
    /\ x.t = "bool" => x.n \in {0, 1}
    /\ x.t = "float" => x.n \in DOMAIN Floats
    /\ x.t = "int" => x.n \in -(W64 \div 2) .. W64 - 1
    /\ x.text \in Seq(Byte) /\ Len(x.text) < W32
    /\ IsSeq(x.xs) /\ Len(x.xs) < W32
Closed(S) == \A x \in S : IsMade(x) /\ \A i \in 1..Len(x.xs) : x.xs[i] \in S
Sound(x) == \E S : x \in S /\ Closed(S)
GivenSound == \A x \in Given : Sound(x)

LEMMA SoundParts ==
    ASSUME NEW x, Sound(x)
    PROVE  IsMade(x) /\ \A i \in 1..Len(x.xs) : Sound(x.xs[i])
<1>1. PICK S : x \in S /\ Closed(S)
  BY DEF Sound
<1> QED
  BY <1>1 DEF Closed, Sound

EncodeFields == {"obj", "at", "start", "i", "sizes", "items"}
IsEncode(C, k) ==
    /\ DOMAIN C = EncodeFields
    /\ Sound(C.obj)
    /\ C.at \in {"value", "items", "return"}
    /\ C.start \in 0 .. k
    /\ C.i \in 0 .. Len(C.obj.xs)

EncodeCalls ==
    /\ IsSeq(encoding)
    /\ \A i \in 1..Len(encoding) : IsEncode(encoding[i], Len(out))
    /\ \A i \in 1..Len(encoding) - 1 : encoding[i].at = "items" /\ encoding[i].i < Len(encoding[i].obj.xs)

Chosen ==
    /\ stream \in Streams /\ setting \in Settings /\ inspect \in Inspects
    /\ precision \in {4, 8} /\ traced \in BOOLEAN
    /\ value \in Given \/ encoding = <<>>
Bytes == out \in Seq(Byte) /\ wire \in Seq(Byte) /\ pos \in 0 .. Len(wire)
Outcomes == {"none", "ok", "EOFError", "ValueError", "UnicodeDecodeError", "TypeError"}
Turns ==
    /\ outcome \in Outcomes
    /\ encOutcome \in {"skipped", "none", "ok", "TypeError", "OverflowError"}
    /\ encOutcome = "none" => encoding # <<>> /\ calls = <<>> /\ outcome = "none"
    /\ outcome = "none" /\ calls = <<>> => pos = 0

DecodeTyped == wire \in Seq(Byte) /\ pos \in 0 .. Len(wire) /\ DecodeCalls
Typed == Chosen /\ Bytes /\ DecodeCalls /\ EncodeCalls /\ Turns

LEMMA TypedGivesTypeOK == ASSUME Typed PROVE CodecTypeOK
<1>1. Len(calls) \in Nat /\ DOMAIN calls = 1..Len(calls)
  BY DEF Typed, DecodeCalls, IsSeq
<1>2. ASSUME NEW i \in DOMAIN calls
      PROVE  /\ calls[i].at \in {"copy", "slow", "items", "return"}
             /\ calls[i].start \in 0..pos
             /\ calls[i].need \in Nat /\ calls[i].todo \in Nat
             /\ i < Len(calls) => calls[i].at = "items" /\ calls[i].todo > 0
  <2>1. IsCall(calls[i]) /\ calls[i].start <= pos
    BY <1>1 DEF Typed, DecodeCalls
  <2>2. i < Len(calls) => i \in 1..Len(calls) - 1
    BY <1>1
  <2>3. calls[i].start \in 0..pos
    BY <2>1 DEF IsCall, Typed, Bytes
  <2> QED
    BY <2>1, <2>2, <2>3 DEF IsCall, Typed, DecodeCalls
<1>3. TypeOK
  BY <1>2 DEF TypeOK, Typed, Chosen, Bytes, Turns, Outcomes, Byte
<1>4. Len(encoding) \in Nat /\ DOMAIN encoding = 1..Len(encoding)
  BY DEF Typed, EncodeCalls, IsSeq
<1>5. ASSUME NEW i \in DOMAIN encoding
      PROVE  /\ encoding[i].at \in {"value", "items", "return"}
             /\ encoding[i].start \in 0..Len(out)
             /\ i < Len(encoding) => encoding[i].at = "items" /\ encoding[i].i < Len(encoding[i].obj.xs)
  <2>1. IsEncode(encoding[i], Len(out))
    BY <1>4 DEF Typed, EncodeCalls
  <2>2. i < Len(encoding) => i \in 1..Len(encoding) - 1
    BY <1>4
  <2> QED
    BY <2>1, <2>2 DEF IsEncode, Typed, EncodeCalls
<1> QED
  BY <1>3, <1>5 DEF CodecTypeOK, Typed, Chosen, Bytes, Turns, Byte

LEMMA TopIsCall ==
    ASSUME DecodeCalls, calls # <<>>
    PROVE  Len(calls) \in Nat /\ Len(calls) > 0 /\ IsCall(Top) /\ Top.start <= pos
<1>1. IsSeq(calls) /\ Len(calls) \in Nat
  BY DEF DecodeCalls, IsSeq
<1>2. Len(calls) > 0
  BY <1>1, EmptyOrTop
<1>3. Len(calls) \in 1..Len(calls)
  BY <1>1, <1>2
<1> QED
  BY <1>1, <1>2, <1>3 DEF DecodeCalls, Top

(* The running call goes on, the stream behind where it started.           *)
LEMMA WithTopParts ==
    ASSUME DecodeCalls, calls # <<>>, NEW C
    PROVE  /\ IsSeq(WithTop(C)) /\ Len(WithTop(C)) = Len(calls)
           /\ \A i \in 1..Len(calls) - 1 : WithTop(C)[i] = calls[i]
           /\ WithTop(C)[Len(calls)] = C
           /\ WithTop(C) # <<>>
<1>1. Len(calls) \in Nat /\ Len(calls) > 0 /\ calls = [i \in 1..Len(calls) |-> calls[i]]
  BY TopIsCall DEF DecodeCalls, IsSeq
<1>2. WithTop(C) = [i \in 1..Len(calls) |-> IF i = Len(calls) THEN C ELSE calls[i]]
  BY <1>1 DEF WithTop
<1>3. WithTop(C) = [i \in 1..Len(calls) |-> WithTop(C)[i]]
  BY <1>2
<1>4. IsSeq(WithTop(C)) /\ Len(WithTop(C)) = Len(calls)
  BY <1>1, <1>3, IsSeqIntro
<1>5. WithTop(C) # <<>>
  BY <1>1, <1>4, EmptyOrTop
<1> QED
  BY <1>1, <1>2, <1>4, <1>5

LEMMA TopKept ==
    ASSUME DecodeTyped, calls # <<>>, NEW C, IsCall(C), C.start = Top.start, calls' = WithTop(C),
           wire' = wire, pos' \in Top.start .. Len(wire)
    PROVE  DecodeTyped' /\ calls' # <<>> /\ Top' = C
<1>1. PICK n \in Nat : n = Len(calls) /\ n > 0
  BY TopIsCall DEF DecodeTyped
<1>2. /\ IsSeq(calls') /\ Len(calls') = n
      /\ \A i \in 1..n - 1 : calls'[i] = calls[i]
      /\ calls'[n] = C /\ calls' # <<>>
  BY <1>1, WithTopParts DEF DecodeTyped
<1>3. IsCall(Top) /\ Top = calls[n]
  BY <1>1, TopIsCall DEF DecodeTyped, Top
<1>4. Top.start \in Nat /\ pos' >= Top.start /\ pos' \in 0 .. Len(wire')
  BY <1>3 DEF IsCall, DecodeTyped
<1>5. ASSUME NEW i \in 1..n PROVE IsCall(calls'[i]) /\ calls'[i].start = calls[i].start /\ calls'[i].start <= pos'
  <2>1. calls[i].start <= Top.start /\ IsCall(calls[i])
    BY <1>1, <1>3 DEF DecodeTyped, DecodeCalls
  <2>2. CASE i = n
    BY <1>2, <1>3, <1>4, <2>2
  <2>3. CASE i # n
    <3>1. calls'[i] = calls[i]
      BY <1>2, <2>3
    <3> QED
      BY <1>4, <2>1, <3>1 DEF IsCall
  <2> QED
    BY <2>2, <2>3
<1>6. \A i \in 1..Len(calls') - 1 : calls'[i].at = "items" /\ calls'[i].todo > 0
  BY <1>1, <1>2 DEF DecodeTyped, DecodeCalls
<1>7. \A i, j \in 1..Len(calls') : i <= j => calls'[i].start <= calls'[j].start
  BY <1>1, <1>2, <1>5 DEF DecodeTyped, DecodeCalls
<1>8. DecodeCalls'
  BY <1>2, <1>5, <1>6, <1>7 DEF DecodeCalls
<1> QED
  BY <1>2, <1>4, <1>8 DEF DecodeTyped, Top

-----------------------------------------------------------------------------
(* The fast path.                                                          *)
LEMMA ShapeParts ==
    ASSUME NEW a, NEW b, NEW c, NEW d, NEW e
    PROVE  LET s == Shape(a, b, c, d, e) IN
           s.known /\ s.width = a /\ s.bytes = b /\ s.frames = c /\ s.perBytes = d /\ s.perFrames = e
  BY DEF Shape

IsShape(s) ==
    /\ s.width \in {0, 1, 2, 4} /\ s.bytes \in Nat /\ s.frames \in Nat
    /\ s.perBytes \in {0, 1} /\ s.perFrames \in {0, 1, 2}

LEMMA CopyShapes == ASSUME NEW tag \in Byte PROVE IsShape(CopyShape(tag))
<1>1. ASSUME NEW a \in {0, 1, 2, 4}, NEW b \in Nat, NEW c \in Nat, NEW d \in {0, 1}, NEW e \in {0, 1, 2}
      PROVE  IsShape(Shape(a, b, c, d, e))
  BY ShapeParts DEF IsShape
<1>2. IsShape([Shape(0, 0, 0, 0, 0) EXCEPT !.known = FALSE])
  BY DEF IsShape, Shape
<1>3. tag % 16 \in Nat /\ 2 * (tag % 16) \in Nat /\ tag % 32 \in Nat
  BY DEF Byte
<1>4. /\ IsShape(Shape(0, 0, 0, 0, 0)) /\ IsShape(Shape(0, 0, 2 * (tag % 16), 0, 0)) /\ IsShape(Shape(0, 0, tag % 16, 0, 0))
      /\ IsShape(Shape(0, tag % 32, 0, 0, 0)) /\ IsShape(Shape(1, 0, 0, 1, 0)) /\ IsShape(Shape(2, 0, 0, 1, 0))
      /\ IsShape(Shape(4, 0, 0, 1, 0)) /\ IsShape(Shape(1, 1, 0, 0, 0)) /\ IsShape(Shape(2, 2, 0, 0, 0))
      /\ IsShape(Shape(4, 4, 0, 0, 0)) /\ IsShape(Shape(0, 8, 0, 0, 0)) /\ IsShape(Shape(0, 4, 0, 0, 0))
      /\ IsShape(Shape(2, 0, 0, 0, 1)) /\ IsShape(Shape(4, 0, 0, 0, 1)) /\ IsShape(Shape(2, 0, 0, 0, 2))
      /\ IsShape(Shape(4, 0, 0, 0, 2))
  BY <1>1, <1>3
<1> QED
  BY <1>2, <1>4 DEF CopyShape

LEMMA TagIsByte ==
    ASSUME DecodeTyped, Left # 0
    PROVE  pos \in Nat /\ Len(wire) \in Nat /\ pos + 1 <= Len(wire) /\ Tag \in Byte
<1>1. pos \in Nat /\ Len(wire) \in Nat /\ pos + 1 <= Len(wire)
  BY DEF DecodeTyped, Left
<1>2. pos + 1 \in 1..Len(wire)
  BY <1>1
<1> QED
  BY <1>1, <1>2, ElementOfSeq DEF DecodeTyped, Tag

(* A decode that has not ended is in some call.                            *)
Going == outcome \in Outcomes /\ (outcome # "none" \/ calls # <<>>)

LEMMA RaiseKeeps ==
    ASSUME DecodeTyped, NEW exc \in Outcomes \ {"none"}, Raise(exc), wire' = wire, pos' \in pos .. Len(wire)
    PROVE  DecodeTyped' /\ Going'
<1>1. calls' = calls /\ outcome' = exc
  BY DEF Raise
<1>2. pos \in Nat /\ pos' >= pos /\ pos' \in 0 .. Len(wire')
  BY DEF DecodeTyped
<1>3. ASSUME NEW i \in 1..Len(calls) PROVE IsCall(calls[i]) /\ calls[i].start <= pos'
  <2>1. IsCall(calls[i]) /\ calls[i].start <= pos
    BY DEF DecodeTyped, DecodeCalls
  <2> QED
    BY <1>2, <2>1 DEF IsCall
<1>4. DecodeCalls'
  BY <1>1, <1>3 DEF DecodeTyped, DecodeCalls
<1> QED
  BY <1>1, <1>2, <1>4 DEF DecodeTyped, Going

LEMMA ReturnKeeps ==
    ASSUME DecodeTyped, outcome = "none", calls # <<>>, NEW C, IsCall(C), C.start = Top.start, NEW x, Return(C, x),
           wire' = wire, pos' \in Top.start .. Len(wire)
    PROVE  DecodeTyped' /\ Going' /\ Top' = [C EXCEPT !.at = "return", !.val = x]
<1> DEFINE D == [C EXCEPT !.at = "return", !.val = x]
<1>1. calls' = WithTop(D) /\ outcome' = "none"
  BY DEF Return, result
<1>2. IsCall(D) /\ D.start = Top.start
  BY DEF IsCall, CallFields
<1> HIDE DEF D
<1>3. DecodeTyped' /\ calls' # <<>> /\ Top' = D
  BY <1>1, <1>2, TopKept
<1> QED
  BY <1>1, <1>3 DEF Going, Outcomes, D

LEMMA MissKeeps ==
    ASSUME DecodeTyped, outcome = "none", calls # <<>>, NEW stop \in Top.start .. Len(wire), Miss(stop), wire' = wire
    PROVE  DecodeTyped' /\ Going' /\ Top' = [Top EXCEPT !.at = "slow"]
<1> DEFINE C == [Top EXCEPT !.at = "slow"]
<1>1. calls' = WithTop(C) /\ outcome' = "none"
  BY DEF Miss, result
<1>2. IsCall(Top) /\ Top.start <= pos
  BY TopIsCall DEF DecodeTyped
<1>3. IsCall(C) /\ C.start = Top.start
  BY <1>2 DEF IsCall, CallFields
<1>4. pos' \in Top.start .. Len(wire)
  <2>1. pos' = Top.start \/ pos' = stop
    BY DEF Miss
  <2>2. Top.start \in Nat /\ Top.start <= Len(wire)
    BY <1>2 DEF IsCall, DecodeTyped
  <2> QED
    BY <2>1, <2>2
<1> HIDE DEF C
<1>5. DecodeTyped' /\ calls' # <<>> /\ Top' = C
  BY <1>1, <1>3, <1>4, TopKept
<1> QED
  BY <1>1, <1>5 DEF Going, Outcomes, C

(* What a copy comes to: a miss, or the copier behind one more head.       *)
LEMMA CopySteps ==
    ASSUME DecodeTyped, CopyFrame
    PROVE  \/ \E stop \in pos .. Len(wire) : Miss(stop)
           \/ \E end \in pos + 1 .. Len(wire), need \in Nat :
                pos' = end /\ calls' = WithTop([Top EXCEPT !.need = need]) /\ UNCHANGED <<result, missed>>
<1>1. At("copy") /\ Top.need > 0 /\ calls # <<>>
  BY DEF CopyFrame, At
<1>2. IsCall(Top)
  BY <1>1, TopIsCall DEF DecodeTyped
<1>3. CASE Left = 0
  <2>1. Miss(pos)
    BY <1>3 DEF CopyFrame
  <2>2. pos \in pos .. Len(wire)
    BY DEF DecodeTyped
  <2> QED
    BY <2>1, <2>2
<1>4. CASE Left # 0
  <2>1. pos \in Nat /\ Len(wire) \in Nat /\ pos + 1 <= Len(wire) /\ Tag \in Byte
    BY <1>4, TagIsByte
  <2> DEFINE s == CopyShape(Tag)
             size == IF s.perBytes + s.perFrames = 0 THEN 0 ELSE Unsigned(SubSeq(wire, pos + 2, pos + 1 + s.width))
             end == pos + 1 + s.width + s.bytes + s.perBytes * size
             need == Top.need - 1 + s.frames + s.perFrames * size
  <2>2. IsShape(s)
    BY <2>1, CopyShapes
  <2>3. \/ ~s.known /\ Miss(pos + 1)
        \/ Miss(Len(wire))
        \/ /\ ~(pos + 1 + s.width > Len(wire)) /\ ~(end > Len(wire))
           /\ pos' = end /\ calls' = WithTop([Top EXCEPT !.need = need]) /\ UNCHANGED <<result, missed>>
    BY <1>4 DEF CopyFrame
  <2> HIDE DEF s
  <2>4. CASE ~s.known /\ Miss(pos + 1)
    BY <2>1, <2>4
  <2>5. CASE Miss(Len(wire))
    BY <2>1, <2>5
  <2>6. CASE /\ ~(pos + 1 + s.width > Len(wire)) /\ ~(end > Len(wire))
             /\ pos' = end /\ calls' = WithTop([Top EXCEPT !.need = need]) /\ UNCHANGED <<result, missed>>
    <3>1. PICK k \in Nat : k = s.width /\ pos + 1 + k <= Len(wire)
      BY <2>1, <2>2, <2>6 DEF IsShape
    <3>2. size \in Nat
      <4>1. Unsigned(SubSeq(wire, pos + 2, pos + 1 + k)) \in Nat
        BY <2>1, <3>1, SizeIsNat DEF DecodeTyped
      <4> QED
        BY <3>1, <4>1
    <3> HIDE DEF size
    <3>3. s.perBytes * size \in Nat /\ s.perFrames * size \in Nat
      BY <2>2, <3>2 DEF IsShape
    <3>4. end \in pos + 1 .. Len(wire)
      <4>1. s.bytes \in Nat
        BY <2>2 DEF IsShape
      <4> QED
        BY <2>1, <2>6, <3>1, <3>3, <4>1
    <3>5. need \in Nat
      <4>1. s.frames \in Nat /\ Top.need \in Nat /\ Top.need > 0
        BY <1>1, <1>2, <2>2 DEF IsShape, IsCall
      <4> QED
        BY <3>3, <4>1
    <3> HIDE DEF end, need
    <3> QED
      BY <2>6, <3>4, <3>5
  <2> QED
    BY <2>3, <2>4, <2>5, <2>6
<1> QED
  BY <1>3, <1>4

LEMMA CopyTyped == ASSUME DecodeTyped, CopyFrame PROVE DecodeTyped' /\ Going'
<1>1. outcome = "none" /\ calls # <<>> /\ wire' = wire
  BY DEF CopyFrame, At, given
<1>2. IsCall(Top) /\ Top.start <= pos /\ Top.start \in Nat
  BY <1>1, TopIsCall DEF DecodeTyped, IsCall
<1>3. CASE \E stop \in pos .. Len(wire) : Miss(stop)
  <2>1. PICK stop \in pos .. Len(wire) : Miss(stop)
    BY <1>3
  <2>2. stop \in Top.start .. Len(wire)
    BY <1>2 DEF DecodeTyped
  <2> QED
    BY <1>1, <2>1, <2>2, MissKeeps
<1>4. CASE \E end \in pos + 1 .. Len(wire), need \in Nat :
              pos' = end /\ calls' = WithTop([Top EXCEPT !.need = need]) /\ UNCHANGED <<result, missed>>
  <2>1. PICK end \in pos + 1 .. Len(wire), need \in Nat :
                pos' = end /\ calls' = WithTop([Top EXCEPT !.need = need]) /\ UNCHANGED <<result, missed>>
    BY <1>4
  <2> DEFINE C == [Top EXCEPT !.need = need]
  <2>2. IsCall(C) /\ C.start = Top.start
    BY <1>2 DEF IsCall, CallFields
  <2>3. pos' \in Top.start .. Len(wire)
    BY <1>2, <2>1 DEF DecodeTyped
  <2>4. calls' = WithTop(C) /\ outcome' = "none"
    BY <1>1, <2>1 DEF result
  <2> HIDE DEF C
  <2>5. DecodeTyped' /\ calls' # <<>>
    BY <1>1, <2>2, <2>3, <2>4, TopKept
  <2> QED
    BY <2>4, <2>5 DEF Going, Outcomes
<1> QED
  BY <1>3, <1>4, CopySteps

-----------------------------------------------------------------------------
(* The slow path reads the value that stands where it starts.              *)
LEMMA HeadThere ==
    ASSUME NEW w, NEW p, ~(p >= Len(w)), TagHeader(w[p + 1]).t # "unknown",
           ~(p + 1 + TagHeader(w[p + 1]).width > Len(w))
    PROVE  LET h == TagHeader(w[p + 1]) IN
           /\ HeadAt(w, p).ok
           /\ HeadAt(w, p).t = h.t
           /\ HeadAt(w, p).body = p + 1 + h.width
           /\ HeadAt(w, p).bytes = IF h.t \in {"array", "map"} THEN 0 ELSE SizeAt(w, p)
           /\ HeadAt(w, p).values = IF h.t = "array" THEN SizeAt(w, p) ELSE IF h.t = "map" THEN 2 * SizeAt(w, p) ELSE 0
<1>1. HeadAt(w, p).ok
  BY DEF HeadAt, HeadWith
<1> QED
  BY <1>1, HeadParts

LEMMA PlainHeader ==
    ASSUME NEW tag \in Plain
    PROVE  LET h == TagHeader(tag) IN
           tag \in Byte /\ h.width = 0 /\ h.t \in {"fixint", "nil", "bool", "float", "uint", "sint"}
<1> USE DEF Plain, Byte
<1>0. tag \in Byte
  OBVIOUS
<1>1. CASE tag \in 0..127 \cup 224..255
  BY <1>0, <1>1, TagSays, HeaderParts
<1>2. CASE tag = 192
  BY <1>0, <1>2, TagSays, HeaderParts
<1>3. CASE tag \in {194, 195}
  BY <1>0, <1>3, TagSays, HeaderParts
<1>4. CASE tag \in 202..203
  BY <1>0, <1>4, TagSays, HeaderParts
<1>5. CASE tag \in 204..207
  BY <1>0, <1>5, TagSays, HeaderParts
<1>6. CASE tag \in 208..211
  BY <1>0, <1>6, TagSays, HeaderParts
<1> QED
  BY <1>1, <1>2, <1>3, <1>4, <1>5, <1>6

SizedWidth(tag) == IF tag <= 198 THEN Widths[tag - 195] ELSE Widths[tag - 216]

LEMMA SizedHeader ==
    ASSUME NEW tag \in SizedText
    PROVE  LET h == TagHeader(tag) IN
           /\ tag \in Byte /\ h.width = SizedWidth(tag) /\ h.width \in {1, 2, 4}
           /\ h.t = IF tag <= 198 THEN "bin" ELSE "str"
<1> USE DEF SizedText
<1>0. tag \in Byte
  BY DEF Byte
<1>1. CASE tag \in 196..198
  <2>1. TagHeader(tag).t = "bin" /\ TagHeader(tag).width = Widths[tag - 195]
    BY <1>0, <1>1, TagSays, HeaderParts
  <2>2. tag <= 198 /\ tag - 195 \in 1..3
    BY <1>1
  <2> QED
    BY <1>0, <2>1, <2>2, SomeWidths DEF SizedWidth
<1>2. CASE tag \in 217..219
  <2>1. TagHeader(tag).t = "str" /\ TagHeader(tag).width = Widths[tag - 216]
    BY <1>0, <1>2, TagSays, HeaderParts
  <2>2. ~(tag <= 198) /\ tag - 216 \in 1..3
    BY <1>2
  <2> QED
    BY <1>0, <2>1, <2>2, SomeWidths DEF SizedWidth
<1> QED
  BY <1>1, <1>2

LEMMA FixStrHeader ==
    ASSUME NEW tag \in FixStr
    PROVE  LET h == TagHeader(tag) IN tag \in Byte /\ h.t = "str" /\ h.width = 0 /\ h.size = tag % 32 /\ tag % 32 \in Nat
<1>1. tag \in Byte /\ tag \in 160..191 /\ tag % 32 = tag - 160
  BY DEF FixStr, Byte
<1> QED
  BY <1>1, TagSays, HeaderParts

LengthWidth(tag) == IF tag \in {220, 222} THEN 2 ELSE IF tag \in {221, 223} THEN 4 ELSE 0

LEMMA ContainerHeader ==
    ASSUME NEW tag \in Containers
    PROVE  LET h == TagHeader(tag) IN
           /\ tag \in Byte /\ h.width = LengthWidth(tag) /\ h.width \in {0, 2, 4}
           /\ h.t = IF tag <= 143 \/ tag >= 222 THEN "map" ELSE "array"
           /\ h.width = 0 => h.size = tag % 16 /\ tag % 16 \in Nat
<1> USE DEF Containers
<1>0. tag \in Byte
  BY DEF Byte
<1>1. CASE tag \in 128..143
  <2>1. TagHeader(tag).t = "map" /\ TagHeader(tag).width = 0 /\ TagHeader(tag).size = tag - 128
    BY <1>0, <1>1, TagSays, HeaderParts
  <2>2. tag % 16 = tag - 128 /\ LengthWidth(tag) = 0
    BY <1>1 DEF LengthWidth
  <2> QED
    BY <1>0, <1>1, <2>1, <2>2
<1>2. CASE tag \in 144..159
  <2>1. TagHeader(tag).t = "array" /\ TagHeader(tag).width = 0 /\ TagHeader(tag).size = tag - 144
    BY <1>0, <1>2, TagSays, HeaderParts
  <2>2. tag % 16 = tag - 144 /\ LengthWidth(tag) = 0
    BY <1>2 DEF LengthWidth
  <2> QED
    BY <1>0, <1>2, <2>1, <2>2
<1>3. CASE tag \in 220..221
  <2>1. TagHeader(tag).t = "array" /\ TagHeader(tag).width = 2 * (tag - 219)
    BY <1>0, <1>3, TagSays, HeaderParts
  <2>2. LengthWidth(tag) = 2 * (tag - 219) /\ 2 * (tag - 219) \in {2, 4}
    BY <1>3 DEF LengthWidth
  <2> QED
    BY <1>0, <1>3, <2>1, <2>2
<1>4. CASE tag \in 222..223
  <2>1. TagHeader(tag).t = "map" /\ TagHeader(tag).width = 2 * (tag - 221)
    BY <1>0, <1>4, TagSays, HeaderParts
  <2>2. LengthWidth(tag) = 2 * (tag - 221) /\ 2 * (tag - 221) \in {2, 4}
    BY <1>4 DEF LengthWidth
  <2> QED
    BY <1>0, <1>4, <2>1, <2>2
<1> QED
  BY <1>1, <1>2, <1>3, <1>4

(* The head that stands at pos, where there is one.                        *)
LEMMA TagStands ==
    ASSUME DecodeTyped, Left > 0, TagHeader(Tag).t # "unknown", NEW width \in Nat,
           width = TagHeader(Tag).width, ~(1 + width > Left)
    PROVE  LET h == TagHeader(Tag)
               g == HeadAt(wire, pos)
           IN  /\ g.ok /\ g.t = h.t /\ g.body = pos + 1 + width
               /\ g.bytes = IF h.t \in {"array", "map"} THEN 0 ELSE SizeAt(wire, pos)
               /\ g.values = IF h.t = "array" THEN SizeAt(wire, pos) ELSE IF h.t = "map" THEN 2 * SizeAt(wire, pos) ELSE 0
               /\ SizeAt(wire, pos) = IF width = 0 THEN h.size ELSE Unsigned(SubSeq(wire, pos + 2, pos + 1 + width))
<1>1. pos \in Nat /\ Len(wire) \in Nat /\ ~(pos >= Len(wire)) /\ ~(pos + 1 + width > Len(wire))
  BY DEF DecodeTyped, Left
<1> QED
  BY <1>1, HeadThere DEF Tag, SizeAt

(* A value that is read to its end.                                        *)
ReadTo(p, end) == Parse(wire, p, 1).ok /\ Parse(wire, p, 1).end = end

LEMMA ScalarRead ==
    ASSUME DecodeTyped, NEW end \in Nat, HeadAt(wire, pos).ok, HeadAt(wire, pos).t \notin {"array", "map"},
           end = HeadAt(wire, pos).body + HeadAt(wire, pos).bytes, end <= Len(wire),
           HeadAt(wire, pos).t = "str" => IsText(SubSeq(wire, HeadAt(wire, pos).body + 1, end))
    PROVE  ReadTo(pos, end)
<1>1. ~(end > Len(wire)) /\ pos \in 0 .. Len(wire)
  BY DEF DecodeTyped
<1> QED
  BY <1>1, ParseScalar DEF ReadTo, DecodeTyped

LEMMA PlainSteps ==
    ASSUME DecodeTyped, SlowPlain
    PROVE  \/ Raise("EOFError") /\ pos' \in pos .. Len(wire)
           \/ /\ \E x : Return(Top, x)
              /\ pos' \in pos .. Len(wire) /\ ReadTo(pos, pos')
<1> DEFINE h == TagHeader(Tag)
<1>1. Left > 0 /\ Tag \in Plain
  BY DEF SlowPlain, Slow
<1>2. Tag \in Byte /\ h.width = 0 /\ h.t \in {"fixint", "nil", "bool", "float", "uint", "sint"}
  BY <1>1, PlainHeader
<1>3. h.size \in Nat
  BY <1>2, TagHeaders
<1>4. pos \in Nat /\ Len(wire) \in Nat /\ pos <= Len(wire) /\ Left = Len(wire) - pos
  BY DEF DecodeTyped, Left
<1>5. \/ pos' = Len(wire) /\ Raise("EOFError")
      \/ ~(1 + h.size > Left) /\ pos' = pos + 1 + h.size /\ \E x : Return(Top, x)
  BY DEF SlowPlain
<1> HIDE DEF h
<1>6. CASE pos' = Len(wire) /\ Raise("EOFError")
  BY <1>4, <1>6
<1>7. CASE ~(1 + h.size > Left) /\ pos' = pos + 1 + h.size /\ \E x : Return(Top, x)
  <2>1. pos' \in Nat /\ pos' \in pos .. Len(wire) /\ pos' <= Len(wire) /\ pos + 1 + 0 = pos + 1
    BY <1>3, <1>4, <1>7
  <2>2. ~(1 + 0 > Left) /\ h.t # "unknown" /\ h.t \notin {"array", "map"} /\ h.t # "str"
    BY <1>1, <1>2, <1>4
  <2>3. HeadAt(wire, pos).ok /\ HeadAt(wire, pos).t = h.t /\ HeadAt(wire, pos).body = pos + 1 /\ HeadAt(wire, pos).bytes = h.size
    BY <1>1, <1>2, <2>1, <2>2, TagStands DEF h
  <2>4. ReadTo(pos, pos')
    BY <1>7, <2>1, <2>2, <2>3, ScalarRead
  <2> QED
    BY <1>7, <2>1, <2>4
<1> QED
  BY <1>5, <1>6, <1>7

(* A fixstr, read to its end or as far as a single read goes.              *)
LEMMA FixStrSteps ==
    ASSUME DecodeTyped, SlowFixStr
    PROVE  /\ Left > 0 /\ Tag \in FixStr
           /\ pos' \in pos .. Len(wire)
           /\ \/ Raise("UnicodeDecodeError")
              \/ (\E x : Return(Top, x)) /\ IsText(SubSeq(wire, pos + 2, pos'))
           /\ stream = "file" => pos' = pos + 1 + (Tag % 32) \/ (pos' = Len(wire) /\ pos' < pos + 1 + (Tag % 32))
<1>1. Left > 0 /\ Tag \in FixStr
  BY DEF SlowFixStr, Slow
<1>2. PICK m \in Nat : m = Tag % 32
  BY <1>1, FixStrHeader
<1>3. pos \in Nat /\ Len(wire) \in Nat /\ pos + 1 <= Len(wire)
  BY <1>1 DEF DecodeTyped, Left
<1>4. PICK k \in Reads(pos + 1, m) :
          /\ pos' = pos + 1 + k
          /\ \/ Raise("UnicodeDecodeError")
             \/ (\E x : Return(Top, x)) /\ IsText(SubSeq(wire, pos + 2, pos + 1 + k))
  BY <1>2 DEF SlowFixStr
<1>5. PICK most \in Nat : most = IF pos + 1 + m < Len(wire) THEN m ELSE Len(wire) - (pos + 1)
  <2>1. (IF pos + 1 + m < Len(wire) THEN m ELSE Len(wire) - (pos + 1)) \in Nat
    BY <1>3
  <2> QED
    BY <2>1
<1>6. k \in 0..most /\ (stream = "file" => k = most)
  BY <1>4, <1>5 DEF Reads
<1>7. pos' \in pos .. Len(wire)
  BY <1>2, <1>3, <1>4, <1>5, <1>6
<1>8. stream = "file" => pos' = pos + 1 + m \/ (pos' = Len(wire) /\ pos' < pos + 1 + m)
  BY <1>2, <1>3, <1>4, <1>5, <1>6
<1> QED
  BY <1>1, <1>2, <1>4, <1>7, <1>8

LEMMA SizedSteps ==
    ASSUME DecodeTyped, SlowSized
    PROVE  \/ (\E exc \in {"EOFError", "UnicodeDecodeError"} : Raise(exc)) /\ pos' \in pos .. Len(wire)
           \/ /\ \E kids, x : Return([Top EXCEPT !.kids = kids], x)
              /\ pos' \in pos .. Len(wire) /\ ReadTo(pos, pos')
<1> DEFINE h == TagHeader(Tag)
<1>1. Left > 0 /\ Tag \in SizedText
  BY DEF SlowSized, Slow
<1>2. Tag \in Byte /\ h.width = SizedWidth(Tag) /\ h.width \in {1, 2, 4} /\ h.t = IF Tag <= 198 THEN "bin" ELSE "str"
  BY <1>1, SizedHeader
<1>3. PICK width \in Nat : width = SizedWidth(Tag) /\ width = h.width /\ width # 0
  BY <1>2
<1> DEFINE size == Unsigned(SubSeq(wire, pos + 2, pos + 1 + width))
           end == pos + 1 + width + size
           text == SubSeq(wire, pos + 2 + width, end)
<1>4. pos \in Nat /\ Len(wire) \in Nat /\ pos <= Len(wire) /\ Left = Len(wire) - pos
  BY DEF DecodeTyped, Left
<1>5. \/ pos' = Len(wire) /\ Raise("EOFError")
      \/ /\ ~(1 + width > Left) /\ ~(end > Len(wire)) /\ pos' = end
         /\ \/ Raise("UnicodeDecodeError")
            \/ ~(Tag > 198 /\ ~IsText(text)) /\ \E kids, x : Return([Top EXCEPT !.kids = kids], x)
  <2>1. width = IF Tag <= 198 THEN Widths[Tag - 195] ELSE Widths[Tag - 216]
    BY <1>3 DEF SizedWidth
  <2> DEFINE kids == IF inspect THEN <<InspectNode(pos + 1, width, <<>>), InspectNode(0, size, <<>>)>> ELSE Top.kids
             x == ScalarV(IF Tag <= 198 THEN "bin" ELSE "str", 0, text)
  <2>2. IF 1 + width > Left \/ end > Len(wire) THEN pos' = Len(wire) /\ Raise("EOFError")
        ELSE /\ pos' = end
             /\ IF Tag > 198 /\ ~IsText(text) THEN Raise("UnicodeDecodeError") ELSE Return([Top EXCEPT !.kids = kids], x)
    BY <2>1 DEF SlowSized
  <2> HIDE DEF kids, x, text, end
  <2> QED
    BY <2>2
<1>6. CASE pos' = Len(wire) /\ Raise("EOFError")
  BY <1>4, <1>6 DEF Outcomes
<1>7. CASE /\ ~(1 + width > Left) /\ ~(end > Len(wire)) /\ pos' = end
           /\ \/ Raise("UnicodeDecodeError")
              \/ ~(Tag > 198 /\ ~IsText(text)) /\ \E kids, x : Return([Top EXCEPT !.kids = kids], x)
  <2>1. size \in Nat
    <3>1. pos + 1 + width <= Len(wire)
      BY <1>4, <1>7
    <3> QED
      BY <1>4, <3>1, SizeIsNat DEF DecodeTyped
  <2> HIDE DEF h, size
  <2>2. pos' \in Nat /\ pos' \in pos .. Len(wire) /\ pos' <= Len(wire)
    BY <1>4, <1>7, <2>1
  <2>3. CASE Raise("UnicodeDecodeError")
    BY <2>2, <2>3 DEF Outcomes
  <2>4. CASE ~(Tag > 198 /\ ~IsText(text)) /\ \E kids, x : Return([Top EXCEPT !.kids = kids], x)
    <3>1. h.t # "unknown" /\ h.t \notin {"array", "map"} /\ (h.t = "str" => Tag > 198)
      BY <1>2 DEF Byte
    <3>2. /\ HeadAt(wire, pos).ok /\ HeadAt(wire, pos).t = h.t /\ HeadAt(wire, pos).body = pos + 1 + width
          /\ HeadAt(wire, pos).bytes = SizeAt(wire, pos)
          /\ SizeAt(wire, pos) = size
      BY <1>1, <1>3, <1>7, <3>1, TagStands DEF h, size
    <3>3. pos' = HeadAt(wire, pos).body + HeadAt(wire, pos).bytes
      BY <1>7, <3>2
    <3>4. HeadAt(wire, pos).t = "str" => IsText(SubSeq(wire, HeadAt(wire, pos).body + 1, pos'))
      <4>1. HeadAt(wire, pos).body + 1 = pos + 2 + width
        BY <1>3, <1>4, <3>2
      <4>2. SubSeq(wire, HeadAt(wire, pos).body + 1, pos') = text
        BY <1>7, <4>1
      <4> QED
        BY <2>4, <3>1, <3>2, <4>2
    <3>5. ReadTo(pos, pos')
      BY <2>2, <3>1, <3>2, <3>3, <3>4, ScalarRead
    <3> QED
      BY <2>2, <2>4, <3>5
  <2> QED
    BY <1>7, <2>3, <2>4
<1> QED
  BY <1>5, <1>6, <1>7

(* A container: behind its head, for as many values as it says.            *)
Opened(t, todo, kids) == [Top EXCEPT !.at = "items", !.t = t, !.todo = todo, !.kids = kids]

LEMMA ContainerSteps ==
    ASSUME DecodeTyped, SlowContainer
    PROVE  \/ Raise("EOFError") /\ pos' \in pos .. Len(wire)
           \/ /\ \E t, kids : calls' = WithTop(Opened(t, HeadAt(wire, pos).values, kids)) /\ UNCHANGED result
              /\ pos' \in pos .. Len(wire)
              /\ HeadAt(wire, pos).ok /\ HeadAt(wire, pos).t \in {"array", "map"}
              /\ pos' = HeadAt(wire, pos).body /\ HeadAt(wire, pos).values \in Nat
<1> DEFINE h == TagHeader(Tag)
<1>1. Left > 0 /\ Tag \in Containers
  BY DEF SlowContainer, Slow
<1>2. /\ Tag \in Byte /\ h.width = LengthWidth(Tag) /\ h.width \in {0, 2, 4}
      /\ h.t = IF Tag <= 143 \/ Tag >= 222 THEN "map" ELSE "array"
      /\ h.width = 0 => h.size = Tag % 16 /\ Tag % 16 \in Nat
  BY <1>1, ContainerHeader
<1>3. PICK width \in Nat : width = LengthWidth(Tag) /\ width = h.width
  BY <1>2
<1> DEFINE length == IF width = 0 THEN Tag % 16 ELSE Unsigned(SubSeq(wire, pos + 2, pos + 1 + width))
           isMap == Tag <= 143 \/ Tag >= 222
           todo == IF isMap THEN 2 * length ELSE length
<1>4. pos \in Nat /\ Len(wire) \in Nat /\ pos <= Len(wire) /\ Left = Len(wire) - pos
  BY DEF DecodeTyped, Left
<1>5. \/ pos' = Len(wire) /\ Raise("EOFError")
      \/ /\ ~(1 + width > Left) /\ pos' = pos + 1 + width
         /\ \E t, kids : calls' = WithTop(Opened(t, todo, kids)) /\ UNCHANGED result
  <2>1. width = IF Tag \in {220, 222} THEN 2 ELSE IF Tag \in {221, 223} THEN 4 ELSE 0
    BY <1>3 DEF LengthWidth
  <2> DEFINE t == IF isMap THEN "map" ELSE "array"
             kids == IF inspect /\ width > 0 THEN <<InspectNode(pos + 1, width, <<>>)>> ELSE Top.kids
  <2>2. IF 1 + width > Left THEN pos' = Len(wire) /\ Raise("EOFError")
        ELSE pos' = pos + 1 + width /\ calls' = WithTop(Opened(t, todo, kids)) /\ UNCHANGED result
    BY <2>1 DEF SlowContainer, Opened
  <2> HIDE DEF t, kids, todo
  <2> QED
    BY <2>2
<1>6. CASE pos' = Len(wire) /\ Raise("EOFError")
  BY <1>4, <1>6
<1>7. CASE /\ ~(1 + width > Left) /\ pos' = pos + 1 + width
           /\ \E t, kids : calls' = WithTop(Opened(t, todo, kids)) /\ UNCHANGED result
  <2>1. h.t # "unknown" /\ h.t \in {"array", "map"}
    BY <1>2
  <2>2. /\ HeadAt(wire, pos).ok /\ HeadAt(wire, pos).t = h.t /\ HeadAt(wire, pos).body = pos + 1 + width
        /\ HeadAt(wire, pos).values = IF h.t = "array" THEN SizeAt(wire, pos)
                                      ELSE IF h.t = "map" THEN 2 * SizeAt(wire, pos) ELSE 0
        /\ SizeAt(wire, pos) = IF width = 0 THEN h.size ELSE Unsigned(SubSeq(wire, pos + 2, pos + 1 + width))
    BY <1>1, <1>3, <1>7, <2>1, TagStands DEF h
  <2>3. SizeAt(wire, pos) = length
    BY <1>2, <1>3, <2>2
  <2>4. HeadAt(wire, pos).values = todo
    BY <1>2, <2>2, <2>3
  <2>5. HeadAt(wire, pos).values \in Nat
    BY <1>4, <2>2, HeadRange DEF DecodeTyped
  <2>6. pos' \in pos .. Len(wire)
    BY <1>3, <1>4, <1>7
  <2> HIDE DEF todo, h
  <2> QED
    BY <1>7, <2>1, <2>2, <2>4, <2>5, <2>6
<1> QED
  BY <1>5, <1>6, <1>7

-----------------------------------------------------------------------------
(* What every step of decode keeps of the stream and its calls.            *)
LEMMA AtTop ==
    ASSUME DecodeTyped, NEW where, At(where)
    PROVE  /\ outcome = "none" /\ calls # <<>> /\ IsCall(Top) /\ Top.at = where
           /\ Top.start \in Nat /\ Top.start <= pos /\ pos \in Top.start .. Len(wire)
<1>1. outcome = "none" /\ calls # <<>> /\ Top.at = where
  BY DEF At
<1>2. IsCall(Top) /\ Top.start <= pos
  BY <1>1, TopIsCall DEF DecodeTyped
<1> QED
  BY <1>1, <1>2 DEF IsCall, DecodeTyped

LEMMA FrameSteps ==
    ASSUME DecodeTyped, MsgspecFrame
    PROVE  \/ /\ MsgspecAccepts(SubSeq(wire, Top.start + 1, pos))
              /\ \E x : Return(Top, x)
              /\ pos' = pos
           \/ Miss(pos)
  BY DEF MsgspecFrame

LEMMA FrameTyped == ASSUME DecodeTyped, MsgspecFrame PROVE DecodeTyped' /\ Going'
<1>1. At("copy") /\ wire' = wire
  BY DEF MsgspecFrame, given
<1>2. /\ outcome = "none" /\ calls # <<>> /\ IsCall(Top) /\ pos \in Top.start .. Len(wire)
  BY <1>1, AtTop
<1> QED
  BY <1>1, <1>2, FrameSteps, ReturnKeeps, MissKeeps

LEMMA EndTyped == ASSUME DecodeTyped, SlowEnd PROVE DecodeTyped' /\ Going'
<1>1. Raise("EOFError") /\ wire' = wire /\ pos' \in pos .. Len(wire)
  BY DEF SlowEnd, given, DecodeTyped
<1> QED
  BY <1>1, RaiseKeeps DEF Outcomes

LEMMA UnknownTyped == ASSUME DecodeTyped, SlowUnknown PROVE DecodeTyped' /\ Going'
<1>1. Raise("ValueError") /\ wire' = wire /\ pos' = pos + 1 /\ Left > 0
  BY DEF SlowUnknown, given, Slow
<1>2. pos' \in pos .. Len(wire)
  BY <1>1 DEF Left, DecodeTyped
<1> QED
  BY <1>1, <1>2, RaiseKeeps DEF Outcomes

LEMMA PlainTyped == ASSUME DecodeTyped, SlowPlain PROVE DecodeTyped' /\ Going'
<1>1. At("slow") /\ wire' = wire
  BY DEF SlowPlain, Slow, given
<1>2. /\ outcome = "none" /\ calls # <<>> /\ IsCall(Top) /\ pos \in Top.start .. Len(wire) /\ Top.start \in Nat
  BY <1>1, AtTop
<1>3. pos' \in pos .. Len(wire) => pos' \in Top.start .. Len(wire)
  BY <1>2
<1>4. "EOFError" \in Outcomes \ {"none"}
  BY DEF Outcomes
<1>5. CASE Raise("EOFError") /\ pos' \in pos .. Len(wire)
  BY <1>1, <1>4, <1>5, RaiseKeeps
<1>6. CASE (\E x : Return(Top, x)) /\ pos' \in pos .. Len(wire)
  BY <1>1, <1>2, <1>3, <1>6, ReturnKeeps
<1> QED
  BY <1>5, <1>6, PlainSteps

LEMMA FixStrTyped == ASSUME DecodeTyped, SlowFixStr PROVE DecodeTyped' /\ Going'
<1>1. At("slow") /\ wire' = wire
  BY DEF SlowFixStr, Slow, given
<1>2. /\ outcome = "none" /\ calls # <<>> /\ IsCall(Top) /\ pos \in Top.start .. Len(wire) /\ Top.start \in Nat
  BY <1>1, AtTop
<1>3. pos' \in pos .. Len(wire) /\ pos' \in Top.start .. Len(wire)
  BY <1>2, FixStrSteps
<1>4. "UnicodeDecodeError" \in Outcomes \ {"none"}
  BY DEF Outcomes
<1>5. CASE Raise("UnicodeDecodeError")
  BY <1>1, <1>3, <1>4, <1>5, RaiseKeeps
<1>6. CASE \E x : Return(Top, x)
  BY <1>1, <1>2, <1>3, <1>6, ReturnKeeps
<1> QED
  BY <1>5, <1>6, FixStrSteps

LEMMA WithKids ==
    ASSUME NEW C, IsCall(C), NEW kids
    PROVE  LET D == [C EXCEPT !.kids = kids] IN IsCall(D) /\ D.start = C.start
  BY DEF IsCall, CallFields

LEMMA SizedTyped == ASSUME DecodeTyped, SlowSized PROVE DecodeTyped' /\ Going'
<1>1. At("slow") /\ wire' = wire
  BY DEF SlowSized, Slow, given
<1>2. /\ outcome = "none" /\ calls # <<>> /\ IsCall(Top) /\ pos \in Top.start .. Len(wire) /\ Top.start \in Nat
  BY <1>1, AtTop
<1>3. pos' \in pos .. Len(wire) => pos' \in Top.start .. Len(wire)
  BY <1>2
<1>4. CASE (\E exc \in {"EOFError", "UnicodeDecodeError"} : Raise(exc)) /\ pos' \in pos .. Len(wire)
  BY <1>1, <1>4, RaiseKeeps DEF Outcomes
<1>5. CASE (\E kids, x : Return([Top EXCEPT !.kids = kids], x)) /\ pos' \in pos .. Len(wire)
  <2>1. PICK kids, x : Return([Top EXCEPT !.kids = kids], x)
    BY <1>5
  <2> DEFINE C == [Top EXCEPT !.kids = kids]
  <2>2. IsCall(C) /\ C.start = Top.start /\ Return(C, x)
    BY <1>2, <2>1, WithKids
  <2> HIDE DEF C
  <2> QED
    BY <1>1, <1>2, <1>3, <1>5, <2>2, ReturnKeeps
<1> QED
  BY <1>4, <1>5, SizedSteps

LEMMA OpenedParts ==
    ASSUME IsCall(Top), NEW t, NEW todo \in Nat, NEW kids
    PROVE  LET C == Opened(t, todo, kids) IN IsCall(C) /\ C.start = Top.start /\ C.at = "items" /\ C.todo = todo
  BY DEF IsCall, CallFields, Opened

LEMMA ContainerTyped == ASSUME DecodeTyped, SlowContainer PROVE DecodeTyped' /\ Going'
<1>1. At("slow") /\ wire' = wire
  BY DEF SlowContainer, Slow, given
<1>2. /\ outcome = "none" /\ calls # <<>> /\ IsCall(Top) /\ pos \in Top.start .. Len(wire) /\ Top.start \in Nat
  BY <1>1, AtTop
<1>3. pos' \in pos .. Len(wire) => pos' \in Top.start .. Len(wire)
  BY <1>2
<1>4. "EOFError" \in Outcomes \ {"none"}
  BY DEF Outcomes
<1>5. CASE Raise("EOFError") /\ pos' \in pos .. Len(wire)
  BY <1>1, <1>4, <1>5, RaiseKeeps
<1>6. CASE /\ \E t, kids : calls' = WithTop(Opened(t, HeadAt(wire, pos).values, kids)) /\ UNCHANGED result
           /\ pos' \in pos .. Len(wire) /\ HeadAt(wire, pos).values \in Nat
  <2>1. PICK t, kids : calls' = WithTop(Opened(t, HeadAt(wire, pos).values, kids)) /\ UNCHANGED result
    BY <1>6
  <2> DEFINE C == Opened(t, HeadAt(wire, pos).values, kids)
  <2>2. IsCall(C) /\ C.start = Top.start
    BY <1>2, <1>6, OpenedParts
  <2>3. calls' = WithTop(C) /\ outcome' = "none"
    BY <1>2, <2>1 DEF result
  <2> HIDE DEF C
  <2>4. DecodeTyped' /\ calls' # <<>>
    BY <1>1, <1>2, <1>3, <1>6, <2>2, <2>3, TopKept
  <2> QED
    BY <2>3, <2>4 DEF Going, Outcomes
<1> QED
  BY <1>5, <1>6, ContainerSteps

LEMMA NewCallParts ==
    ASSUME NEW S, NEW start \in Nat
    PROVE  LET C == NewCall(S, start) IN
           /\ IsCall(C) /\ C.start = start /\ C.at \in {"copy", "slow"} /\ C.need = 1
  BY DEF NewCall, IsCall, CallFields

LEMMA ItemSteps ==
    ASSUME DecodeTyped, DecodeItem
    PROVE  \E S : calls' = Append(calls, NewCall(S, pos)) /\ UNCHANGED <<given, pos, result, missed>>
<1> DEFINE S == IF AtKey(Top) THEN Keysafe(Top.self) ELSE Top.self
<1>1. calls' = Append(calls, NewCall(S, pos)) /\ UNCHANGED <<given, pos, result, missed>>
  BY DEF DecodeItem
<1> QED
  BY <1>1

LEMMA ItemTyped == ASSUME DecodeTyped, DecodeItem PROVE DecodeTyped' /\ Going'
<1>1. At("items") /\ Top.todo > 0
  BY DEF DecodeItem
<1>2. /\ outcome = "none" /\ calls # <<>> /\ IsCall(Top) /\ Top.at = "items" /\ Top.start <= pos
  BY <1>1, AtTop
<1>3. PICK S : calls' = Append(calls, NewCall(S, pos)) /\ UNCHANGED <<given, pos, result, missed>>
  BY ItemSteps
<1>4. PICK n \in Nat : n = Len(calls) /\ n > 0
  BY <1>2, TopIsCall DEF DecodeTyped
<1>5. PICK C : C = NewCall(S, pos) /\ IsCall(C) /\ C.start = pos
  BY NewCallParts DEF DecodeTyped
<1>6. /\ IsSeq(calls') /\ Len(calls') = n + 1 /\ calls'[n + 1] = C
      /\ \A i \in 1..n : calls'[i] = calls[i]
  BY <1>3, <1>4, <1>5, Pushed DEF DecodeTyped, DecodeCalls
<1>7. pos' = pos /\ wire' = wire /\ outcome' = "none" /\ pos \in Nat
  BY <1>2, <1>3 DEF given, result, DecodeTyped
<1>8. \A i \in 1..n : IsCall(calls[i]) /\ calls[i].start <= pos
  BY <1>4 DEF DecodeTyped, DecodeCalls
<1>9. \A i \in 1..n : calls[i].at = "items" /\ calls[i].todo > 0
  <2>1. calls[n].at = "items" /\ calls[n].todo > 0
    BY <1>1, <1>2, <1>4 DEF Top
  <2> QED
    BY <1>4, <2>1 DEF DecodeTyped, DecodeCalls
<1>10. ASSUME NEW i \in 1..n + 1 PROVE IsCall(calls'[i]) /\ calls'[i].start <= pos'
  BY <1>5, <1>6, <1>7, <1>8
<1>11. ASSUME NEW i \in 1..n + 1, NEW j \in 1..n + 1, i <= j PROVE calls'[i].start <= calls'[j].start
  <2>1. CASE j = n + 1
    BY <1>5, <1>6, <1>7, <1>10, <2>1
  <2>2. CASE j # n + 1
    <3>1. i \in 1..n /\ j \in 1..n
      BY <1>4, <1>11, <2>2
    <3>2. calls[i].start <= calls[j].start
      BY <1>4, <1>11, <3>1 DEF DecodeTyped, DecodeCalls
    <3> QED
      BY <1>6, <3>1, <3>2
  <2> QED
    BY <2>1, <2>2
<1>12. DecodeCalls'
  <2>1. \A i \in 1..Len(calls') - 1 : calls'[i].at = "items" /\ calls'[i].todo > 0
    BY <1>4, <1>6, <1>9
  <2> QED
    BY <1>6, <1>10, <1>11, <2>1 DEF DecodeCalls
<1>13. calls' # <<>>
  BY <1>6, EmptyOrTop
<1> QED
  BY <1>7, <1>12, <1>13 DEF DecodeTyped, Going, Outcomes

LEMMA MakeTyped == ASSUME DecodeTyped, MakeContainer PROVE DecodeTyped' /\ Going'
<1>1. At("items") /\ wire' = wire /\ pos' = pos
  BY DEF MakeContainer, given
<1>2. /\ outcome = "none" /\ calls # <<>> /\ IsCall(Top) /\ pos \in Top.start .. Len(wire) /\ Top.start \in Nat
  BY <1>1, AtTop
<1>3. (\E x : Return(Top, x)) \/ Raise("TypeError")
  BY DEF MakeContainer
<1>4. "TypeError" \in Outcomes \ {"none"} /\ pos \in pos .. Len(wire)
  BY <1>2 DEF Outcomes
<1>5. CASE Raise("TypeError")
  BY <1>1, <1>4, <1>5, RaiseKeeps
<1>6. CASE \E x : Return(Top, x)
  BY <1>1, <1>2, <1>6, ReturnKeeps
<1> QED
  BY <1>3, <1>5, <1>6

(* The value goes to the caller, or out.                                   *)
Received(C, m) ==
    /\ IsSeq(calls') /\ Len(calls') = m
    /\ \A i \in 1..m - 1 : calls'[i] = calls[i]
    /\ calls'[m] = C

LEMMA NotedParts ==
    ASSUME NEW C, IsCall(C), NEW N, NEW x, C.todo > 0
    PROVE  LET noted == IF inspect THEN WithNode(C, N) ELSE C
               D == [noted EXCEPT !.items = Append(@, x), !.todo = @ - 1]
           IN  IsCall(D) /\ D.at = C.at /\ D.start = C.start /\ D.todo = C.todo - 1
<1> DEFINE noted == IF inspect THEN WithNode(C, N) ELSE C
           D == [noted EXCEPT !.items = Append(@, x), !.todo = @ - 1]
<1>1. IsCall(noted) /\ noted.at = C.at /\ noted.start = C.start /\ noted.todo = C.todo
  <2> DEFINE Like(E) == IsCall(E) /\ E.at = C.at /\ E.start = C.start /\ E.todo = C.todo
  <2>1. \A kids : Like([C EXCEPT !.kids = kids])
    BY DEF IsCall, CallFields
  <2>2. \A pair : Like([C EXCEPT !.pair = pair])
    BY DEF IsCall, CallFields
  <2>3. \A kids, pair : Like([C EXCEPT !.kids = kids, !.pair = pair])
    BY DEF IsCall, CallFields
  <2>4. Like(C)
    OBVIOUS
  <2> HIDE DEF Like
  <2>5. Like(WithNode(C, N))
    <3>1. CASE C.t = "array"
      BY <2>1, <3>1 DEF WithNode
    <3>2. CASE C.t # "array" /\ AtKey(C)
      BY <2>2, <3>2 DEF WithNode
    <3>3. CASE C.t # "array" /\ ~AtKey(C)
      BY <2>3, <3>3 DEF WithNode
    <3> QED
      BY <3>1, <3>2, <3>3
  <2>6. Like(noted)
    BY <2>4, <2>5
  <2> QED
    BY <2>6 DEF Like
<1> HIDE DEF noted
<1>2. IsCall(D) /\ D.at = noted.at /\ D.start = noted.start /\ D.todo = noted.todo - 1
  BY <1>1 DEF IsCall, CallFields
<1> QED
  BY <1>1, <1>2 DEF noted

LEMMA ReturnSteps ==
    ASSUME DecodeTyped, ReturnValue
    PROVE  \/ Len(calls) = 1 /\ outcome' = "ok" /\ calls' = <<>>
           \/ \E n, C :
                /\ n \in Nat /\ Len(calls) = n + 1 /\ n > 0 /\ Received(C, n) /\ UNCHANGED result
                /\ IsCall(C) /\ C.at = "items" /\ C.start = calls[n].start /\ C.todo = calls[n].todo - 1
<1>1. At("return")
  BY DEF ReturnValue
<1>2. calls # <<>> /\ IsSeq(calls)
  BY <1>1, AtTop DEF DecodeTyped, DecodeCalls
<1>3. CASE Len(calls) = 1
  BY <1>3 DEF ReturnValue
<1>4. CASE Len(calls) # 1
  <2>1. PICK n \in Nat : Len(calls) = n + 1 /\ n > 0
    <3>1. Len(calls) \in Nat /\ Len(calls) > 0 /\ Len(calls) # 1
      BY <1>2, <1>4, TopIsCall DEF DecodeTyped
    <3>2. Len(calls) - 1 \in Nat /\ Len(calls) - 1 > 0 /\ Len(calls) = Len(calls) - 1 + 1
      BY <3>1
    <3> QED
      BY <3>2
  <2> DEFINE rest == Front(calls)
             caller == Last(rest)
             node == InspectNode(Top.start, pos - Top.start, Top.kids)
             noted == IF inspect THEN WithNode(caller, node) ELSE caller
             C == [noted EXCEPT !.items = Append(@, Top.val), !.todo = @ - 1]
  <2>2. IsSeq(rest) /\ Len(rest) = n /\ \A i \in 1..n : rest[i] = calls[i]
    BY <1>2, <2>1, Popped
  <2>3. caller = calls[n] /\ n \in 1..Len(calls) /\ n \in 1..Len(calls) - 1
    BY <2>1, <2>2 DEF Last
  <2>4. IsCall(caller) /\ caller.at = "items" /\ caller.todo > 0
    BY <2>3 DEF DecodeTyped, DecodeCalls
  <2>5. calls' = [rest EXCEPT ![Len(rest)] = C] /\ UNCHANGED result
    BY <1>4 DEF ReturnValue
  <2>6. IsCall(C) /\ C.at = caller.at /\ C.start = caller.start /\ C.todo = caller.todo - 1
    BY <2>4, NotedParts
  <2> HIDE DEF C, rest
  <2>7. rest = [i \in 1..n |-> rest[i]]
    BY <2>2 DEF IsSeq
  <2>8. calls' = [i \in 1..n |-> IF i = n THEN C ELSE rest[i]]
    BY <2>2, <2>5, <2>7
  <2>9. calls' = [i \in 1..n |-> calls'[i]]
    BY <2>8
  <2>10. IsSeq(calls') /\ Len(calls') = n
    BY <2>9, IsSeqIntro
  <2>11. Received(C, n)
    BY <2>1, <2>2, <2>8, <2>10 DEF Received
  <2> QED
    BY <2>1, <2>3, <2>4, <2>5, <2>6, <2>11
<1> QED
  BY <1>3, <1>4

LEMMA ReturnTyped == ASSUME DecodeTyped, ReturnValue PROVE DecodeTyped' /\ Going'
<1>1. At("return") /\ wire' = wire /\ pos' = pos
  BY DEF ReturnValue, given
<1>2. outcome = "none"
  BY <1>1, AtTop
<1>3. CASE Len(calls) = 1 /\ outcome' = "ok" /\ calls' = <<>>
  <2>1. IsSeq(<<>>) /\ Len(<<>>) = 0
    <3>1. <<>> \in Seq(Nat) /\ Len(<<>>) = 0
      BY EmptySeq
    <3> QED
      BY <3>1, SeqIsSeq
  <2>2. DecodeCalls'
    BY <1>3, <2>1 DEF DecodeCalls
  <2> QED
    BY <1>1, <1>3, <2>2 DEF DecodeTyped, Going, Outcomes
<1>4. CASE \E n, C :
              /\ n \in Nat /\ Len(calls) = n + 1 /\ n > 0 /\ Received(C, n) /\ UNCHANGED result
              /\ IsCall(C) /\ C.at = "items" /\ C.start = calls[n].start /\ C.todo = calls[n].todo - 1
  <2>1. PICK n, C :
              /\ n \in Nat /\ Len(calls) = n + 1 /\ n > 0 /\ Received(C, n) /\ UNCHANGED result
              /\ IsCall(C) /\ C.at = "items" /\ C.start = calls[n].start /\ C.todo = calls[n].todo - 1
    BY <1>4
  <2>2. /\ IsSeq(calls') /\ Len(calls') = n /\ calls'[n] = C
        /\ \A i \in 1..n - 1 : calls'[i] = calls[i]
    BY <2>1 DEF Received
  <2>3. ASSUME NEW i \in 1..n PROVE IsCall(calls'[i]) /\ calls'[i].start = calls[i].start /\ calls[i].start <= pos
    <3>1. IsCall(calls[i]) /\ calls[i].start <= pos
      BY <2>1 DEF DecodeTyped, DecodeCalls
    <3> QED
      BY <2>1, <2>2, <3>1
  <2>4. ASSUME NEW i \in 1..n - 1 PROVE calls'[i].at = "items" /\ calls'[i].todo > 0
    <3>1. calls[i].at = "items" /\ calls[i].todo > 0
      BY <2>1 DEF DecodeTyped, DecodeCalls
    <3> QED
      BY <2>2, <3>1
  <2>5. ASSUME NEW i \in 1..n, NEW j \in 1..n, i <= j PROVE calls'[i].start <= calls'[j].start
    <3>1. calls[i].start <= calls[j].start
      BY <2>1, <2>5 DEF DecodeTyped, DecodeCalls
    <3> QED
      BY <2>3, <3>1
  <2>6. DecodeCalls'
    BY <1>1, <2>2, <2>3, <2>4, <2>5 DEF DecodeCalls
  <2>7. calls' # <<>> /\ outcome' = "none"
    BY <1>2, <2>1, <2>2, EmptyOrTop DEF result
  <2> QED
    BY <1>1, <2>6, <2>7 DEF DecodeTyped, Going, Outcomes
<1> QED
  BY <1>3, <1>4, ReturnSteps

LEMMA DecodeStepTyped ==
    ASSUME Typed, Next, UNCHANGED encoder
    PROVE  Typed'
<1>1. DecodeTyped
  BY DEF Typed, Bytes, DecodeTyped
<1>2. ASSUME DecodeTyped' /\ Going', UNCHANGED given, encOutcome # "none" PROVE Typed'
  <2>1. Chosen' /\ EncodeCalls'
    BY <1>2 DEF Typed, Chosen, EncodeCalls, encoder, encGiven, given
  <2>2. Bytes'
    BY <1>2 DEF Typed, Bytes, DecodeTyped, encoder
  <2>3. Turns'
    BY <1>2 DEF Typed, Turns, Going, encoder
  <2> QED
    BY <1>2, <2>1, <2>2, <2>3 DEF Typed, DecodeTyped
<1>3. ASSUME NEW where, At(where) PROVE encOutcome # "none"
  BY <1>3 DEF At, Typed, Turns
<1>4. CASE CopyFrame
  <2>1. At("copy") /\ UNCHANGED given
    BY <1>4 DEF CopyFrame
  <2> QED
    BY <1>1, <1>2, <1>3, <1>4, <2>1, CopyTyped
<1>5. CASE MsgspecFrame
  <2>1. At("copy") /\ UNCHANGED given
    BY <1>5 DEF MsgspecFrame
  <2> QED
    BY <1>1, <1>2, <1>3, <1>5, <2>1, FrameTyped
<1>6. CASE SlowEnd
  <2>1. At("slow") /\ UNCHANGED given
    BY <1>6 DEF SlowEnd
  <2> QED
    BY <1>1, <1>2, <1>3, <1>6, <2>1, EndTyped
<1>7. CASE SlowUnknown
  <2>1. At("slow") /\ UNCHANGED given
    BY <1>7 DEF SlowUnknown, Slow
  <2> QED
    BY <1>1, <1>2, <1>3, <1>7, <2>1, UnknownTyped
<1>8. CASE SlowPlain
  <2>1. At("slow") /\ UNCHANGED given
    BY <1>8 DEF SlowPlain, Slow
  <2> QED
    BY <1>1, <1>2, <1>3, <1>8, <2>1, PlainTyped
<1>9. CASE SlowFixStr
  <2>1. At("slow") /\ UNCHANGED given
    BY <1>9 DEF SlowFixStr, Slow
  <2> QED
    BY <1>1, <1>2, <1>3, <1>9, <2>1, FixStrTyped
<1>10. CASE SlowSized
  <2>1. At("slow") /\ UNCHANGED given
    BY <1>10 DEF SlowSized, Slow
  <2> QED
    BY <1>1, <1>2, <1>3, <1>10, <2>1, SizedTyped
<1>11. CASE SlowContainer
  <2>1. At("slow") /\ UNCHANGED given
    BY <1>11 DEF SlowContainer, Slow
  <2> QED
    BY <1>1, <1>2, <1>3, <1>11, <2>1, ContainerTyped
<1>12. CASE DecodeItem
  <2>1. At("items") /\ UNCHANGED given
    BY <1>12 DEF DecodeItem
  <2> QED
    BY <1>1, <1>2, <1>3, <1>12, <2>1, ItemTyped
<1>13. CASE MakeContainer
  <2>1. At("items") /\ UNCHANGED given
    BY <1>13 DEF MakeContainer
  <2> QED
    BY <1>1, <1>2, <1>3, <1>13, <2>1, MakeTyped
<1>14. CASE ReturnValue
  <2>1. At("return") /\ UNCHANGED given
    BY <1>14 DEF ReturnValue
  <2> QED
    BY <1>1, <1>2, <1>3, <1>14, <2>1, ReturnTyped
<1>15. CASE Terminated
  BY <1>15 DEF Terminated, vars, given, result, encoder, encGiven, Typed, Chosen, Bytes, DecodeCalls, EncodeCalls,
               Turns
<1> QED
  BY <1>4, <1>5, <1>6, <1>7, <1>8, <1>9, <1>10, <1>11, <1>12, <1>13, <1>14, <1>15 DEF Next

-----------------------------------------------------------------------------
(* What encode writes are bytes.                                           *)
Lasting == {"uint8", "uint16", "uint32", "uint64", "int8", "int16", "int32", "int64", "str8", "str16", "str32",
            "bin8", "bin16", "bin32", "array16", "array32", "map16", "map32"}
IsHead(h) == (h.tag = "fix" /\ h.word \in Byte) \/ h.tag \in Lasting

LEMMA HeadCases ==
    /\ \A m \in Byte : IsHead(Word!TagWord("fix", m))
    /\ \A tag \in Lasting : \A m : IsHead(Word!TagWord(tag, m))
<1>1. \A m \in Byte : IsHead(Word!TagWord("fix", m))
  BY DEF IsHead, Word!TagWord
<1>2. \A tag \in Lasting : \A m : IsHead(Word!TagWord(tag, m))
  BY DEF IsHead, Word!TagWord
<1> QED
  BY <1>1, <1>2

LEMMA IntHeads == ASSUME NEW m \in -(W64 \div 2) .. W64 - 1 PROVE IsHead(Word!IntHead(m))
<1>3. m \in Int /\ -(W64 \div 2) <= m /\ m <= W64 - 1
  <2>1. W64 \in Nat
    BY CodecAssumption
  <2> QED
    BY <2>1
<1>4. m \in Nat /\ m < 8 * 16 => m \in Byte
  BY DEF Byte
<1> USE HeadCases, CodecAssumption, <1>3 DEF Word!W8
<1>1. CASE m < 0
  <2>1. Word!IntHead(m) = Word!NegativeHead(m)
    BY <1>1 DEF Word!IntHead
  <2>2. -(W64 \div 2) <= m
    OBVIOUS
  <2>3. -32 <= m => Word!Complement(m, 16 * 16) \in Byte
    BY <1>1 DEF Word!Complement, Byte
  <2>4. CASE -(2 * 16) <= m
    <3>1. Word!NegativeHead(m) = Word!TagWord("fix", Word!Complement(m, 16 * 16))
      BY <2>4 DEF Word!NegativeHead
    <3> QED
      BY <2>1, <2>3, <2>4, <3>1
  <2>5. CASE ~(-(2 * 16) <= m)
    <3>1. \E tag, k : tag \in {"int8", "int16", "int32", "int64"} /\ Word!NegativeHead(m) = Word!TagWord(tag, k)
      BY <2>2, <2>5 DEF Word!NegativeHead, Word!Half
    <3> QED
      BY <2>1, <3>1 DEF Lasting
  <2> QED
    BY <2>4, <2>5
<1>2. CASE ~(m < 0)
  <2>1. Word!IntHead(m) = Word!NatHead(m)
    BY <1>2 DEF Word!IntHead
  <2>2. m \in Nat /\ m < W64
    <3>1. W64 \in Nat
      BY CodecAssumption
    <3> QED
      BY <1>2, <1>3, <3>1
  <2>3. CASE m < 8 * 16
    <3>1. m \in Byte
      BY <1>4, <2>2, <2>3
    <3>2. Word!NatHead(m) = Word!TagWord("fix", m)
      BY <2>3 DEF Word!NatHead
    <3>3. IsHead(Word!TagWord("fix", m))
      BY <3>1, HeadCases
    <3> QED
      BY <2>1, <3>2, <3>3
  <2>4. CASE ~(m < 8 * 16)
    <3>1. \E tag \in {"uint8", "uint16", "uint32", "uint64"} : Word!NatHead(m) = Word!TagWord(tag, m)
      BY <2>2, <2>4 DEF Word!NatHead
    <3> QED
      BY <2>1, <3>1 DEF Lasting
  <2> QED
    BY <2>3, <2>4
<1> QED
  BY <1>1, <1>2

LEMMA LengthHeads ==
    ASSUME NEW m \in Nat, m < W32
    PROVE  /\ IsHead(Word!StrHead(m)) /\ IsHead(Word!BinHead(m))
           /\ IsHead(Word!ArrayHead(m)) /\ IsHead(Word!MapHead(m))
<1> USE HeadCases DEF Word!W8
<1>1. \A k \in Nat : k < 32 => 10 * 16 + k \in Byte
  BY DEF Byte
<1>2. \A k \in Nat : k < 16 => 9 * 16 + k \in Byte /\ 8 * 16 + k \in Byte
  BY DEF Byte
<1>3. IsHead(Word!StrHead(m))
  <2>1. CASE m < 2 * 16
    <3>1. Word!StrHead(m) = Word!TagWord("fix", 10 * 16 + m) /\ 10 * 16 + m \in Byte
      BY <1>1, <2>1 DEF Word!StrHead
    <3> QED
      BY <3>1
  <2>2. CASE ~(m < 2 * 16)
    <3>1. \E tag \in {"str8", "str16", "str32"} : Word!StrHead(m) = Word!TagWord(tag, m)
      BY <2>2 DEF Word!StrHead
    <3> QED
      BY <3>1 DEF Lasting
  <2> QED
    BY <2>1, <2>2
<1>4. IsHead(Word!BinHead(m))
  <2>1. \E tag \in {"bin8", "bin16", "bin32"} : Word!BinHead(m) = Word!TagWord(tag, m)
    BY DEF Word!BinHead
  <2> QED
    BY <2>1 DEF Lasting
<1>5. IsHead(Word!ArrayHead(m))
  <2>1. CASE m < 16
    <3>1. Word!ArrayHead(m) = Word!TagWord("fix", 9 * 16 + m) /\ 9 * 16 + m \in Byte
      BY <1>2, <2>1 DEF Word!ArrayHead
    <3> QED
      BY <3>1
  <2>2. CASE ~(m < 16)
    <3>1. \E tag \in {"array16", "array32"} : Word!ArrayHead(m) = Word!TagWord(tag, m)
      BY <2>2 DEF Word!ArrayHead
    <3> QED
      BY <3>1 DEF Lasting
  <2> QED
    BY <2>1, <2>2
<1>6. IsHead(Word!MapHead(m))
  <2>1. CASE m < 16
    <3>1. Word!MapHead(m) = Word!TagWord("fix", 8 * 16 + m) /\ 8 * 16 + m \in Byte
      BY <1>2, <2>1 DEF Word!MapHead
    <3> QED
      BY <3>1
  <2>2. CASE ~(m < 16)
    <3>1. \E tag \in {"map16", "map32"} : Word!MapHead(m) = Word!TagWord(tag, m)
      BY <2>2 DEF Word!MapHead
    <3> QED
      BY <3>1 DEF Lasting
  <2> QED
    BY <2>1, <2>2
<1> QED
  BY <1>3, <1>4, <1>5, <1>6

LEMMA TagOctets == ASSUME NEW tag \in Lasting PROVE TagOctet[tag] \in Byte
  BY DEF Lasting, TagOctet, Byte

LEMMA HeadSizes == ASSUME NEW tag PROVE Word!HeadSize(tag) - 1 \in Nat
<1>1. Word!HeadSize(tag) \in {1, 2, 3, 5, 9}
  BY DEF Word!HeadSize
<1> QED
  BY <1>1

Headed == {"int", "str", "bin", "list", "tuple", "dict"}
NumberOf(x) ==
    IF x.t = "int" THEN x.n
    ELSE IF x.t \in {"str", "bin"} THEN Len(x.text)
    ELSE IF x.t = "dict" THEN Len(x.xs) \div 2
    ELSE Len(x.xs)

LEMMA HeadOctets ==
    ASSUME NEW x, IsMade(x), x.t \in Headed
    PROVE  HeadOf(x) \in Seq(Byte)
<1> DEFINE m == NumberOf(x)
           h == Word!HeadFor(HeadKind(x), m)
<1>1. x.t # "int" => m \in Nat /\ m < W32
  <2>1. Len(x.text) \in Nat /\ Len(x.text) < W32 /\ Len(x.xs) \in Nat /\ Len(x.xs) < W32
    BY DEF IsMade, IsSeq
  <2>2. Len(x.xs) \div 2 \in Nat /\ Len(x.xs) \div 2 < W32
    <3>1. PICK k \in Nat : k = Len(x.xs)
      BY <2>1
    <3>2. k \div 2 \in Nat /\ k \div 2 <= k /\ W32 \in Nat
      BY CodecAssumption
    <3>3. k < W32
      BY <2>1, <3>1
    <3>4. k \div 2 < W32
      BY <3>2, <3>3
    <3> QED
      BY <3>1, <3>2, <3>4
  <2> QED
    BY <2>1, <2>2 DEF NumberOf
<1>2. m \in Int
  <2>1. x.t = "int" => m \in Int
    BY CodecAssumption DEF NumberOf, IsMade
  <2> QED
    BY <1>1, <2>1
<1>3. IsHead(h)
  <2> HIDE DEF m
  <2>1. CASE x.t = "int"
    <3>1. m \in -(W64 \div 2) .. W64 - 1 /\ HeadKind(x) = "int"
      BY <2>1 DEF IsMade, m, NumberOf, HeadKind, Arrays
    <3> QED
      BY <3>1, IntHeads DEF Word!HeadFor
  <2>2. CASE x.t # "int"
    <3>1. HeadKind(x) \in {"str", "bin", "array", "map"}
      BY <2>2 DEF Headed, HeadKind, Arrays
    <3>2. h \in {Word!StrHead(m), Word!BinHead(m), Word!ArrayHead(m), Word!MapHead(m)}
      BY <3>1 DEF Word!HeadFor
    <3> QED
      BY <1>1, <2>2, <3>2, LengthHeads
  <2> QED
    BY <2>1, <2>2
<1>4. HeadOf(x) = IF h.tag = "fix" THEN <<h.word>> ELSE <<TagOctet[h.tag]>> \o BigEndian(m, Word!HeadSize(h.tag) - 1)
  BY DEF HeadOf, NumberOf
<1> HIDE DEF h, m
<1>5. CASE h.tag = "fix"
  <2>1. h.word \in Byte
    BY <1>3, <1>5 DEF IsHead, Lasting
  <2> QED
    BY <1>4, <1>5, <2>1
<1>6. CASE h.tag # "fix"
  <2>1. TagOctet[h.tag] \in Byte
    BY <1>3, <1>6, TagOctets DEF IsHead
  <2>2. PICK k \in Nat : k = Word!HeadSize(h.tag) - 1
    BY HeadSizes
  <2>3. BigEndian(m, k) \in Seq(Byte)
    BY <1>2, BigEndianOctets
  <2>4. <<TagOctet[h.tag]>> \in Seq(Byte)
    BY <2>1
  <2> QED
    BY <1>4, <1>6, <2>2, <2>3, <2>4
<1> QED
  BY <1>5, <1>6

LEMMA ScalarsAreOctets ==
    ASSUME NEW x, IsMade(x), x.t \in Scalars, NEW width \in {4, 8}
    PROVE  ScalarOctets(x, width) \in Seq(Byte)
<1>1. CASE x.t = "nil"
  <2>1. ScalarOctets(x, width) = <<192>> /\ 192 \in Byte
    BY <1>1 DEF ScalarOctets, Byte
  <2> QED
    BY <2>1
<1>2. CASE x.t = "bool"
  <2>1. x.n = 0 \/ x.n = 1
    BY <1>2 DEF IsMade
  <2>2. 194 + x.n \in Byte
    BY <2>1 DEF Byte
  <2>3. ScalarOctets(x, width) = <<194 + x.n>>
    BY <1>2 DEF ScalarOctets
  <2> QED
    BY <2>2, <2>3
<1>3. CASE x.t = "float"
  <2>1. FloatOctets(x.n, width) \in Seq(Byte)
    BY <1>3, CodecAssumption DEF IsMade, FloatOctets, Byte
  <2>2. ScalarOctets(x, width) = <<IF width = 8 THEN 203 ELSE 202>> \o FloatOctets(x.n, width)
    BY <1>3 DEF ScalarOctets
  <2>3. <<IF width = 8 THEN 203 ELSE 202>> \in Seq(Byte)
    BY DEF Byte
  <2> QED
    BY <2>1, <2>2, <2>3
<1>4. CASE x.t \in {"int", "str", "bin"}
  <2>1. HeadOf(x) \in Seq(Byte) /\ x.text \in Seq(Byte)
    BY <1>4, HeadOctets DEF Headed, IsMade
  <2>2. ScalarOctets(x, width) = HeadOf(x) \o x.text
    BY <1>4 DEF ScalarOctets
  <2> QED
    BY <2>1, <2>2
<1> QED
  BY <1>1, <1>2, <1>3, <1>4 DEF Scalars

-----------------------------------------------------------------------------
(* What every step of encode keeps.                                        *)
LEMMA EncoderIs ==
    ASSUME EncodeCalls, encoding # <<>>
    PROVE  Len(encoding) \in Nat /\ Len(encoding) > 0 /\ Encoder = encoding[Len(encoding)] /\ IsEncode(Encoder, Len(out))
<1>1. Len(encoding) \in Nat /\ Len(encoding) > 0
  BY EmptyOrTop DEF EncodeCalls, IsSeq
<1>2. Encoder = encoding[Len(encoding)]
  BY DEF Encoder, Last
<1> QED
  BY <1>1, <1>2 DEF EncodeCalls

LEMMA EncodeLater ==
    ASSUME NEW C, NEW k \in Nat, NEW l \in Nat, k <= l, IsEncode(C, k)
    PROVE  IsEncode(C, l)
  BY DEF IsEncode

(* The calls under way have seen no more of the bytes.                     *)
LEMMA CallsStay ==
    ASSUME EncodeCalls, encoding' = encoding, out \in Seq(Byte), out' \in Seq(Byte), Len(out) <= Len(out')
    PROVE  EncodeCalls'
<1>1. \A i \in 1..Len(encoding) : IsEncode(encoding[i], Len(out'))
  BY EncodeLater DEF EncodeCalls
<1> QED
  BY <1>1 DEF EncodeCalls

LEMMA NoCallsStay == ASSUME encoding' = <<>> PROVE EncodeCalls'
<1>1. IsSeq(<<>>) /\ Len(<<>>) = 0
  BY DEF IsSeq
<1> QED
  BY <1>1 DEF EncodeCalls

LEMMA EncoderGoesOn ==
    ASSUME EncodeCalls, encoding # <<>>, NEW C, encoding' = WithEncoder(C), IsEncode(C, Len(out')),
           out \in Seq(Byte), out' \in Seq(Byte), Len(out) <= Len(out')
    PROVE  EncodeCalls' /\ encoding' # <<>>
<1> DEFINE n == Len(encoding)
<1>1. n \in Nat /\ n > 0 /\ IsSeq(encoding)
  BY EncoderIs DEF EncodeCalls
<1>2. encoding' = [i \in 1..n |-> IF i = n THEN C ELSE encoding[i]]
  <2>1. encoding = [i \in 1..n |-> encoding[i]]
    BY <1>1 DEF IsSeq
  <2> HIDE DEF n
  <2>2. [encoding EXCEPT ![n] = C] = [i \in 1..n |-> IF i = n THEN C ELSE encoding[i]]
    BY <2>1
  <2> QED
    BY <2>2 DEF WithEncoder, n
<1> HIDE DEF n
<1>3. encoding'[n] = C /\ \A i \in 1..n - 1 : encoding'[i] = encoding[i]
  BY <1>1, <1>2
<1>4. encoding' = [i \in 1..n |-> encoding'[i]]
  BY <1>1, <1>2, <1>3
<1>5. IsSeq(encoding') /\ Len(encoding') = n
  BY <1>1, <1>4, IsSeqIntro
<1>6. \A i \in 1..n : IsEncode(encoding'[i], Len(out'))
  <2>1. \A i \in 1..n : IsEncode(encoding[i], Len(out'))
    BY EncodeLater DEF EncodeCalls, n
  <2> QED
    BY <1>1, <1>3, <2>1
<1>7. \A i \in 1..n - 1 : encoding'[i].at = "items" /\ encoding'[i].i < Len(encoding'[i].obj.xs)
  BY <1>1, <1>3 DEF EncodeCalls, n
<1> QED
  BY <1>1, <1>5, <1>6, <1>7, EmptyOrTop DEF EncodeCalls

LEMMA NewEncodeParts ==
    ASSUME NEW x, Sound(x), Len(out) \in Nat
    PROVE  IsEncode(NewEncode(x), Len(out))
<1>1. IsMade(x)
  BY SoundParts
<1>2. Len(x.xs) \in Nat
  BY <1>1 DEF IsMade, IsSeq
<1> QED
  BY <1>2 DEF NewEncode, IsEncode, EncodeFields

(* The steps of encode leave the decoder where it is, about to begin.      *)
LEMMA EncodeKept ==
    ASSUME Typed, encOutcome = "none", UNCHANGED <<encGiven, vars>>, out' \in Seq(Byte), EncodeCalls',
           encOutcome' \in {"none", "ok", "TypeError", "OverflowError"}, encOutcome' = "none" => encoding' # <<>>
    PROVE  Typed'
<1>1. Chosen'
  BY DEF Typed, Turns, Chosen, encGiven, vars, given
<1>2. Bytes' /\ DecodeCalls'
  BY DEF Typed, Bytes, DecodeCalls, vars, given
<1>3. Turns'
  BY DEF Typed, Turns, vars, result
<1> QED
  BY <1>1, <1>2, <1>3 DEF Typed

LEMMA Written ==
    ASSUME out \in Seq(Byte), NEW s \in Seq(Byte), out' = out \o s
    PROVE  out' \in Seq(Byte) /\ Len(out) <= Len(out')
  OBVIOUS

LEMMA AtEncoder ==
    ASSUME Typed, encOutcome = "none"
    PROVE  /\ EncodeCalls /\ encoding # <<>> /\ value \in Given /\ out \in Seq(Byte) /\ precision \in {4, 8}
           /\ IsEncode(Encoder, Len(out)) /\ IsMade(Encoder.obj)
<1>1. EncodeCalls /\ encoding # <<>> /\ value \in Given /\ out \in Seq(Byte) /\ precision \in {4, 8}
  BY DEF Typed, Turns, Chosen, Bytes
<1>2. IsEncode(Encoder, Len(out))
  BY <1>1, EncoderIs
<1> QED
  BY <1>1, <1>2, SoundParts DEF IsEncode

LEMMA EncodeFastTyped == ASSUME Typed, EncodeFast PROVE Typed'
<1>1. encOutcome = "none"
  BY DEF EncodeFast
<1>2. CASE Takes(value)
  <2>1. out' = out \o Packs(value) /\ encoding' = <<>> /\ encOutcome' = "ok" /\ UNCHANGED <<encGiven, vars>>
    BY <1>2 DEF EncodeFast
  <2>2. Packs(value) \in Seq(Byte)
    BY <1>1, <1>2, AtEncoder, CodecAssumption DEF Byte
  <2>3. out' \in Seq(Byte)
    BY <1>1, <2>1, <2>2, AtEncoder, Written
  <2> QED
    BY <1>1, <2>1, <2>3, NoCallsStay, EncodeKept
<1>3. CASE ~Takes(value)
  <2>1. out' = out /\ encoding' = encoding /\ encOutcome' = "TypeError" /\ UNCHANGED <<encGiven, vars>>
    BY <1>3 DEF EncodeFast, Refuse
  <2>2. out \in Seq(Byte) /\ Len(out) <= Len(out)
    BY <1>1, AtEncoder
  <2>3. EncodeCalls'
    BY <1>1, <2>1, <2>2, AtEncoder, CallsStay
  <2> QED
    BY <1>1, <2>1, <2>2, <2>3, EncodeKept
<1> QED
  BY <1>2, <1>3

LEMMA EncodeRefusedTyped == ASSUME Typed, EncodeRefused PROVE Typed'
<1>1. encOutcome = "none"
  BY DEF EncodeRefused, Encoding
<1>2. out' = out /\ encoding' = encoding /\ encOutcome' = "TypeError" /\ UNCHANGED <<encGiven, vars>>
  BY DEF EncodeRefused, Refuse
<1>3. out \in Seq(Byte) /\ Len(out) <= Len(out)
  BY <1>1, AtEncoder
<1>4. EncodeCalls'
  BY <1>1, <1>2, <1>3, AtEncoder, CallsStay
<1> QED
  BY <1>1, <1>2, <1>3, <1>4, EncodeKept

LEMMA EncodeTooLargeTyped == ASSUME Typed, EncodeTooLarge PROVE Typed'
<1>1. encOutcome = "none"
  BY DEF EncodeTooLarge, Encoding
<1>2. out' = Append(out, 202) /\ encoding' = encoding /\ encOutcome' = "OverflowError" /\ UNCHANGED <<encGiven, vars>>
  BY DEF EncodeTooLarge, Refuse
<1>3. out' \in Seq(Byte) /\ Len(out) <= Len(out')
  <2>1. 202 \in Byte /\ out \in Seq(Byte)
    BY <1>1, AtEncoder DEF Byte
  <2> QED
    BY <1>2, <2>1
<1>4. EncodeCalls'
  BY <1>1, <1>2, <1>3, AtEncoder, CallsStay
<1> QED
  BY <1>1, <1>2, <1>3, <1>4, EncodeKept

LEMMA EncoderMoves ==
    ASSUME NEW C, NEW k, IsEncode(C, k), NEW where \in {"value", "items", "return"}, NEW sizes
    PROVE  IsEncode([C EXCEPT !.at = where, !.sizes = sizes], k)
<1>1. DOMAIN C = EncodeFields
  BY DEF IsEncode
<1> DEFINE D == [C EXCEPT !.at = where, !.sizes = sizes]
<1>2. DOMAIN D = EncodeFields /\ D.at = where /\ D.obj = C.obj /\ D.start = C.start /\ D.i = C.i
  BY <1>1 DEF EncodeFields
<1> HIDE DEF D
<1>3. IsEncode(D, k)
  BY <1>2 DEF IsEncode
<1> QED
  BY <1>3 DEF D

LEMMA EncodeScalarTyped == ASSUME Typed, EncodeScalar PROVE Typed'
<1>1. encOutcome = "none" /\ Encoder.obj.t \in Scalars
  BY DEF EncodeScalar, Encoding
<1>2. ScalarOctets(Encoder.obj, precision) \in Seq(Byte)
  BY <1>1, AtEncoder, ScalarsAreOctets
<1>3. out' = out \o ScalarOctets(Encoder.obj, precision) /\ encOutcome' = "none" /\ UNCHANGED <<encGiven, vars>>
  BY <1>1 DEF EncodeScalar
<1>4. PICK sizes : encoding' = WithEncoder([Encoder EXCEPT !.at = "return", !.sizes = sizes])
  BY DEF EncodeScalar
<1>5. out \in Seq(Byte) /\ out' \in Seq(Byte) /\ Len(out) <= Len(out')
  BY <1>1, <1>2, <1>3, AtEncoder, Written
<1>6. IsEncode(Encoder, Len(out'))
  BY <1>1, <1>5, AtEncoder, EncodeLater
<1>7. EncodeCalls' /\ encoding' # <<>>
  BY <1>1, <1>4, <1>5, <1>6, AtEncoder, EncoderMoves, EncoderGoesOn
<1> QED
  BY <1>1, <1>3, <1>5, <1>7, EncodeKept

LEMMA EncodeContainerTyped == ASSUME Typed, EncodeContainer PROVE Typed'
<1>1. encOutcome = "none" /\ Encoder.obj.t \in Headed
  BY DEF EncodeContainer, Encoding, Headed, Arrays
<1>2. HeadOf(Encoder.obj) \in Seq(Byte)
  BY <1>1, AtEncoder, HeadOctets
<1>3. out' = out \o HeadOf(Encoder.obj) /\ encOutcome' = "none" /\ UNCHANGED <<encGiven, vars>>
  BY <1>1 DEF EncodeContainer
<1>4. PICK sizes : encoding' = WithEncoder([Encoder EXCEPT !.at = "items", !.sizes = sizes])
  BY DEF EncodeContainer
<1>5. out \in Seq(Byte) /\ out' \in Seq(Byte) /\ Len(out) <= Len(out')
  BY <1>1, <1>2, <1>3, AtEncoder, Written
<1>6. IsEncode(Encoder, Len(out'))
  BY <1>1, <1>5, AtEncoder, EncodeLater
<1>7. EncodeCalls' /\ encoding' # <<>>
  BY <1>1, <1>4, <1>5, <1>6, AtEncoder, EncoderMoves, EncoderGoesOn
<1> QED
  BY <1>1, <1>3, <1>5, <1>7, EncodeKept

LEMMA EncodeItemTyped == ASSUME Typed, EncodeItem PROVE Typed'
<1> DEFINE n == Len(encoding)
           x == Encoder.obj.xs[Encoder.i + 1]
<1>1. encOutcome = "none" /\ Encoder.at = "items" /\ Encoder.i < Len(Encoder.obj.xs)
  BY DEF EncodeItem, Encoding
<1>2. encoding' = Append(encoding, NewEncode(x)) /\ out' = out /\ encOutcome' = "none" /\ UNCHANGED <<encGiven, vars>>
  BY <1>1 DEF EncodeItem
<1>3. EncodeCalls /\ encoding # <<>> /\ IsSeq(encoding) /\ out \in Seq(Byte) /\ Len(out) \in Nat /\ IsEncode(Encoder, Len(out))
  BY <1>1, AtEncoder DEF EncodeCalls
<1>4. n \in Nat /\ n > 0 /\ encoding[n] = Encoder
  BY <1>3, EncoderIs
<1>5. Sound(x)
  <2>1. Sound(Encoder.obj) /\ Encoder.i \in Nat /\ IsMade(Encoder.obj)
    BY <1>1, <1>3, AtEncoder DEF IsEncode, IsMade, IsSeq
  <2>2. Encoder.i + 1 \in 1..Len(Encoder.obj.xs)
    BY <1>1, <2>1 DEF IsMade, IsSeq
  <2> QED
    BY <2>1, <2>2, SoundParts
<1>6. IsEncode(NewEncode(x), Len(out))
  BY <1>3, <1>5, NewEncodeParts
<1> HIDE DEF x, n
<1>7. /\ IsSeq(encoding') /\ Len(encoding') = n + 1 /\ encoding'[n + 1] = NewEncode(x)
      /\ \A i \in 1..n : encoding'[i] = encoding[i]
  BY <1>2, <1>3, Pushed DEF n
<1>8. \A i \in 1..n + 1 : IsEncode(encoding'[i], Len(out'))
  <2>1. \A i \in 1..n : IsEncode(encoding'[i], Len(out'))
    BY <1>2, <1>3, <1>7 DEF EncodeCalls, n
  <2>2. IsEncode(encoding'[n + 1], Len(out'))
    BY <1>2, <1>6, <1>7
  <2> QED
    BY <1>4, <2>1, <2>2
<1>9. \A i \in 1..n : encoding'[i].at = "items" /\ encoding'[i].i < Len(encoding'[i].obj.xs)
  <2>1. \A i \in 1..n - 1 : encoding[i].at = "items" /\ encoding[i].i < Len(encoding[i].obj.xs)
    BY <1>3 DEF EncodeCalls, n
  <2>2. encoding[n].at = "items" /\ encoding[n].i < Len(encoding[n].obj.xs)
    BY <1>1, <1>4
  <2> QED
    BY <1>4, <1>7, <2>1, <2>2
<1>10. EncodeCalls'
  <2>1. Len(encoding') - 1 = n
    BY <1>4, <1>7
  <2>2. \A i \in 1..Len(encoding') : IsEncode(encoding'[i], Len(out'))
    BY <1>7, <1>8
  <2>3. \A i \in 1..Len(encoding') - 1 : encoding'[i].at = "items" /\ encoding'[i].i < Len(encoding'[i].obj.xs)
    BY <1>9, <2>1
  <2> QED
    BY <1>7, <2>2, <2>3 DEF EncodeCalls
<1>11. encoding' # <<>>
  BY <1>4, <1>7, EmptyOrTop
<1> QED
  BY <1>1, <1>2, <1>3, <1>10, <1>11, EncodeKept

LEMMA ItemNoted ==
    ASSUME NEW C, NEW k, IsEncode(C, k), C.i < Len(C.obj.xs), NEW items
    PROVE  IsEncode([C EXCEPT !.i = @ + 1, !.items = items], k)
<1>1. DOMAIN C = EncodeFields
  BY DEF IsEncode
<1> DEFINE D == [C EXCEPT !.i = @ + 1, !.items = items]
<1>2. DOMAIN D = EncodeFields /\ D.at = C.at /\ D.obj = C.obj /\ D.start = C.start /\ D.i = C.i + 1
  BY <1>1 DEF EncodeFields
<1> HIDE DEF D
<1>3. C.i + 1 \in 0 .. Len(C.obj.xs)
  <2>1. Len(C.obj.xs) \in Nat
    BY SoundParts DEF IsEncode, IsMade, IsSeq
  <2>2. C.i \in 0 .. Len(C.obj.xs)
    BY DEF IsEncode
  <2> QED
    BY <2>1, <2>2
<1>4. IsEncode(D, k)
  BY <1>2, <1>3 DEF IsEncode
<1> QED
  BY <1>4 DEF D

LEMMA EncodeReturnTyped == ASSUME Typed, EncodeReturn PROVE Typed'
<1> DEFINE n == Len(encoding)
           rest == Front(encoding)
<1>1. encOutcome = "none" /\ out' = out /\ UNCHANGED <<encGiven, vars>>
  BY DEF EncodeReturn
<1>2. EncodeCalls /\ IsSeq(encoding) /\ out \in Seq(Byte) /\ n \in Nat /\ n > 0
  BY <1>1, AtEncoder, EncoderIs DEF EncodeCalls
<1>3. IsSeq(rest) /\ Len(rest) = n - 1 /\ \A i \in 1..n - 1 : rest[i] = encoding[i]
  BY <1>2, Popped
<1>4. CASE rest = <<>>
  <2>1. encoding' = <<>> /\ encOutcome' = "ok"
    BY <1>4 DEF EncodeReturn
  <2> QED
    BY <1>1, <1>2, <2>1, NoCallsStay, EncodeKept
<1>5. CASE rest # <<>>
  <2> DEFINE m == n - 1
             caller == Last(rest)
  <2>1. m \in Nat /\ m > 0 /\ caller = encoding[m]
    <3>1. Len(rest) # 0
      BY <1>3, <1>5, EmptyOrTop
    <3>2. m \in Nat /\ m > 0
      BY <1>2, <1>3, <3>1
    <3> QED
      BY <1>3, <3>2 DEF Last
  <2>2. encOutcome' = "none" /\ \E items : encoding' = [rest EXCEPT ![Len(rest)] = [caller EXCEPT !.i = @ + 1, !.items = items]]
    BY <1>1, <1>5 DEF EncodeReturn
  <2>3. PICK items : encoding' = [rest EXCEPT ![Len(rest)] = [caller EXCEPT !.i = @ + 1, !.items = items]]
    BY <2>2
  <2> DEFINE C == [caller EXCEPT !.i = @ + 1, !.items = items]
  <2>4. IsEncode(caller, Len(out)) /\ caller.i < Len(caller.obj.xs)
    <3>1. m \in 1..n - 1 /\ m \in 1..n
      BY <1>2, <2>1
    <3> QED
      BY <1>2, <2>1, <3>1 DEF EncodeCalls
  <2>5. IsEncode(C, Len(out))
    BY <2>4, ItemNoted
  <2>6. encoding' = [rest EXCEPT ![m] = C]
    BY <1>3, <2>3
  <2>7. rest = [i \in 1..m |-> rest[i]]
    BY <1>3 DEF IsSeq
  <2> HIDE DEF m, n, C, rest, caller
  <2>8. encoding' = [i \in 1..m |-> IF i = m THEN C ELSE rest[i]]
    BY <2>6, <2>7
  <2>9. encoding'[m] = C /\ \A i \in 1..m - 1 : encoding'[i] = rest[i]
    BY <2>1, <2>8
  <2>10. encoding' = [i \in 1..m |-> encoding'[i]]
    BY <2>1, <2>8, <2>9
  <2>11. IsSeq(encoding') /\ Len(encoding') = m
    BY <2>1, <2>10, IsSeqIntro
  <2>12. n - 1 = m
    BY DEF m
  <2>13. ASSUME NEW i \in 1..m - 1 PROVE encoding'[i] = encoding[i] /\ i \in 1..n /\ i \in 1..n - 1
    <3>1. i \in 1..n - 1 /\ i \in 1..n
      BY <1>2, <2>1, <2>12
    <3> QED
      BY <1>3, <2>9, <3>1
  <2>14. \A i \in 1..m : IsEncode(encoding'[i], Len(out'))
    <3>1. \A i \in 1..m - 1 : IsEncode(encoding'[i], Len(out'))
      BY <1>1, <1>2, <2>13 DEF EncodeCalls, n
    <3>2. IsEncode(encoding'[m], Len(out'))
      BY <1>1, <2>5, <2>9
    <3> QED
      BY <2>1, <3>1, <3>2
  <2>15. \A i \in 1..m - 1 : encoding'[i].at = "items" /\ encoding'[i].i < Len(encoding'[i].obj.xs)
    BY <1>2, <2>13 DEF EncodeCalls, n
  <2>16. EncodeCalls' /\ encoding' # <<>>
    BY <2>1, <2>11, <2>14, <2>15, EmptyOrTop DEF EncodeCalls
  <2> QED
    BY <1>1, <1>2, <2>2, <2>16, EncodeKept
<1> QED
  BY <1>4, <1>5

LEMMA OneCall ==
    ASSUME NEW s, NEW C, s = <<C>>
    PROVE  IsSeq(s) /\ Len(s) = 1 /\ s[1] = C /\ s # <<>>
<1>1. s = [i \in 1..1 |-> C]
  OBVIOUS
<1>2. s[1] = C /\ s = [i \in 1..1 |-> s[i]]
  BY <1>1
<1>3. IsSeq(s) /\ Len(s) = 1
  BY <1>2, IsSeqIntro
<1> QED
  BY <1>2, <1>3, EmptyOrTop

LEMMA Starts ==
    ASSUME NEW S, calls' = <<NewCall(S, 0)>>, wire' \in Seq(Byte), pos' = 0
    PROVE  DecodeCalls' /\ calls' # <<>> /\ Bytes' = (out' \in Seq(Byte))
<1>1. IsSeq(calls') /\ Len(calls') = 1 /\ calls'[1] = NewCall(S, 0) /\ calls' # <<>>
  BY OneCall
<1>2. IsCall(NewCall(S, 0)) /\ NewCall(S, 0).start = 0
  BY NewCallParts
<1>3. DecodeCalls'
  BY <1>1, <1>2 DEF DecodeCalls
<1>4. pos' \in 0..Len(wire')
  OBVIOUS
<1> QED
  BY <1>1, <1>3, <1>4 DEF Bytes

LEMMA AgainTyped == ASSUME Typed, DecodeAgain PROVE Typed'
<1>1. /\ encOutcome = "ok" /\ calls = <<>> /\ outcome = "none" /\ wire' = out /\ calls' = <<NewCall(setting, 0)>>
      /\ UNCHANGED <<stream, setting, inspect, pos, result, encoder>>
  BY DEF DecodeAgain, Ended
<1>2. pos' = 0 /\ wire' \in Seq(Byte) /\ out' \in Seq(Byte)
  BY <1>1 DEF Typed, Turns, Bytes, encoder
<1>3. DecodeCalls' /\ calls' # <<>> /\ Bytes'
  BY <1>1, <1>2, Starts
<1>4. Chosen' /\ EncodeCalls'
  BY <1>1 DEF Typed, Chosen, EncodeCalls, encoder, encGiven
<1>5. Turns'
  BY <1>1, <1>3 DEF Typed, Turns, encoder, result
<1> QED
  BY <1>3, <1>4, <1>5 DEF Typed

LEMMA InitTyped == ASSUME GivenSound, CodecInit PROVE Typed
<1>1. /\ stream \in Streams /\ setting \in Settings /\ inspect \in Inspects /\ pos = 0 /\ outcome = "none"
      /\ out = <<>>
  BY DEF CodecInit, Init, Idle
<1>2. out \in Seq(Byte) /\ Len(out) = 0
  BY <1>1
<1>3. IsSeq(<<>>) /\ Len(<<>>) = 0
  BY DEF IsSeq
<1>4. CASE /\ Init
           /\ value = NilV /\ precision = 8 /\ traced = FALSE
           /\ encoding = <<>>
           /\ encOutcome = "skipped"
  <2>1. wire \in Seq(Byte) /\ calls = <<NewCall(setting, 0)>>
    BY <1>4, MsgPackAssumption DEF Init, Byte
  <2>2. IsSeq(calls) /\ Len(calls) = 1 /\ calls[1] = NewCall(setting, 0) /\ calls # <<>>
    BY <2>1, OneCall
  <2>3. IsCall(NewCall(setting, 0)) /\ NewCall(setting, 0).start = 0
    BY NewCallParts
  <2>4. DecodeCalls
    <3>1. pos = 0
      BY <1>1
    <3>2. \A i \in 1..1 : IsCall(calls[i]) /\ calls[i].start = 0
      BY <2>2, <2>3
    <3> QED
      BY <2>2, <3>1, <3>2 DEF DecodeCalls
  <2>5. Chosen /\ EncodeCalls
    <3>1. Chosen
      BY <1>1, <1>4 DEF Chosen
    <3>2. \A i \in 1..0 : FALSE
      OBVIOUS
    <3>3. EncodeCalls
      BY <1>3, <1>4, <3>2 DEF EncodeCalls
    <3> QED
      BY <3>1, <3>3
  <2>6. Bytes
    <3>1. pos = 0 /\ 0 \in 0 .. Len(wire)
      BY <1>1, <2>1
    <3> QED
      BY <1>2, <2>1, <3>1 DEF Bytes
  <2>7. Turns
    BY <1>1, <1>4, <2>2 DEF Turns, Outcomes
  <2> QED
    BY <2>4, <2>5, <2>6, <2>7 DEF Typed
<1>5. CASE /\ Idle
           /\ wire = <<>> /\ calls = <<>>
           /\ value \in Given /\ precision \in Precisions /\ traced \in Inspects
           /\ encoding = <<NewEncode(value)>>
           /\ encOutcome = "none"
  <2>1. IsSeq(encoding) /\ Len(encoding) = 1 /\ encoding[1] = NewEncode(value) /\ encoding # <<>>
    BY <1>5, OneCall
  <2>2. IsEncode(NewEncode(value), Len(out))
    BY <1>2, <1>5, NewEncodeParts DEF GivenSound
  <2>3. EncodeCalls
    BY <2>1, <2>2 DEF EncodeCalls
  <2>4. DecodeCalls
    BY <1>3, <1>5 DEF DecodeCalls
  <2>5. Chosen
    BY <1>1, <1>5, CodecAssumption, MsgPackAssumption DEF Chosen
  <2>6. Bytes
    BY <1>1, <1>2, <1>5 DEF Bytes
  <2>7. Turns
    BY <1>1, <1>5, <2>1 DEF Turns, Outcomes
  <2> QED
    BY <2>3, <2>4, <2>5, <2>6, <2>7 DEF Typed
<1> QED
  BY <1>4, <1>5 DEF CodecInit

LEMMA StutterTyped == ASSUME Typed, UNCHANGED allVars PROVE Typed'
  BY DEF allVars, vars, given, result, encoder, encGiven, Typed, Chosen, Bytes, DecodeCalls, EncodeCalls, Turns

LEMMA StepTyped == ASSUME Typed, CodecNext PROVE Typed'
<1>1. CASE Refused /\ UNCHANGED <<vars, encoder>>
  BY <1>1, StutterTyped DEF allVars
<1> QED
  BY <1>1, EncodeFastTyped, EncodeRefusedTyped, EncodeTooLargeTyped, EncodeScalarTyped, EncodeContainerTyped,
     EncodeItemTyped, EncodeReturnTyped, AgainTyped, DecodeStepTyped DEF CodecNext

LEMMA AlwaysTyped == ASSUME GivenSound PROVE CodecSpec => []Typed
<1>1. CodecInit => Typed
  BY InitTyped
<1>2. Typed /\ [CodecNext]_allVars => Typed'
  BY StutterTyped, StepTyped
<1> QED
  BY <1>1, <1>2, PTL DEF CodecSpec

(* CodecTypeOK: whatever values are given, of whatever depth, and whatever *)
(* bytes a stream holds, encode writes bytes, decode stays within them,    *)
(* only the last call of either runs, and every other waits for an item it *)
(* has still to have.  Of the values given it is asked only that they are  *)
(* of the kinds there are and that their numbers and lengths fit a word.   *)
THEOREM TypesAreKept == ASSUME GivenSound PROVE CodecSpec => []CodecTypeOK
<1>1. Typed => CodecTypeOK
  BY TypedGivesTypeOK
<1> QED
  BY <1>1, AlwaysTyped, PTL

-----------------------------------------------------------------------------
(* The inductive invariant behind SlowOnValue and OnlyShortStrings.  Every *)
(* call reads a value that starts where the calls before it have still     *)
(* values to read: in the wire w, the value its caller reads leads on to   *)
(* those that are left from there.  The last call says where it stands: in *)
(* front of its items, or behind its value.                                *)
Linked(w, s, n) ==
    /\ s[1].start = 0
    /\ \A i \in 1..n : Parse(w, s[i].start, 1).starts \subseteq Parse(w, 0, 1).starts
    /\ \A i \in 1..n - 1 : Leads(Parse(w, s[i].start, 1), Parse(w, s[i + 1].start, s[i].todo))
Says(w, C, q) ==
    /\ C.at = "items" => Leads(Parse(w, C.start, 1), Parse(w, q, C.todo))
    /\ C.at = "return" => Parse(w, C.start, 1).ok = TRUE /\ Parse(w, C.start, 1).end = q
OnCourse(w, s, C, q) == Linked(w, s, Len(s)) /\ Says(w, C, q)

(* So it is of the wire, and of every wire that goes on with zeros.        *)
Whole ==
    /\ Top.at = "slow" => pos = Top.start
    /\ \A l \in Nat : OnCourse(Longer(wire, l), calls, Top, pos)

(* Or the end of the wire has cut a fixstr short by l bytes: then it is so *)
(* of the wire that has them.                                              *)
Cut(p, l) ==
    /\ p \in First.starts /\ p \in Nat /\ p < Len(wire) /\ wire[p + 1] \in FixStr
    /\ p + 1 + (wire[p + 1] % 32) = Len(wire) + l
Short ==
    /\ pos = Len(wire) /\ Top.at \in {"items", "return"}
    /\ \E l \in Nat \ {0} : (\E p : Cut(p, l)) /\ OnCourse(Longer(wire, l), calls, Top, Len(wire) + l)

(* Or a value is asked for behind that: there is none.                     *)
Doomed ==
    /\ pos = Len(wire) /\ Top.start = pos
    /\ Top.at = "slow" \/ (Top.at = "copy" /\ Top.need > 0)

Courses == Whole \/ Short \/ Doomed
ReadsWell == stream = "file" => (calls # <<>> /\ outcome = "none" => Courses) /\ OnlyShortStrings

LEMMA CourseAt ==
    ASSUME ReadsWell, stream = "file", NEW where, At(where)
    PROVE  /\ where = "copy" => Whole \/ (Doomed /\ Top.need > 0)
           /\ where = "slow" => Whole \/ Doomed
           /\ where \in {"items", "return"} => Whole \/ Short
<1>1. Courses /\ Top.at = where
  BY DEF ReadsWell, At
<1> QED
  BY <1>1 DEF Courses, Short, Doomed

LEMMA CourseGoesOn ==
    ASSUME stream' = stream, outcome' # "ok", stream = "file" /\ calls' # <<>> /\ outcome' = "none" => Courses'
    PROVE  ReadsWell'
  BY DEF ReadsWell, OnlyShortStrings

LEMMA WideWire ==
    ASSUME DecodeTyped, NEW l \in Nat
    PROVE  /\ Longer(wire, l) \in Seq(Byte) /\ Len(Longer(wire, l)) = Len(wire) + l
           /\ pos \in 0 .. Len(Longer(wire, l)) /\ Len(wire) + l \in 0 .. Len(Longer(wire, l))
           /\ calls # <<>> => Top.start \in 0 .. Len(Longer(wire, l))
<1>1. Longer(wire, l) \in Seq(Byte) /\ Len(Longer(wire, l)) = Len(wire) + l
  BY LongerParts DEF DecodeTyped
<1>2. pos \in 0 .. Len(Longer(wire, l)) /\ Len(wire) + l \in 0 .. Len(Longer(wire, l))
  BY <1>1 DEF DecodeTyped
<1>3. calls # <<>> => Top.start \in Nat /\ Top.start <= pos
  BY TopIsCall DEF DecodeTyped, IsCall
<1> QED
  BY <1>1, <1>2, <1>3

(* The running call goes on.                                               *)
LEMMA TopCourse ==
    ASSUME DecodeCalls, calls # <<>>, NEW C, C.start = Top.start, calls' = WithTop(C), NEW w,
           Linked(w, calls, Len(calls)), NEW q, Says(w, C, q)
    PROVE  Top' = C /\ OnCourse(w, calls', Top', q)
<1> PICK n \in Nat : n = Len(calls) /\ n > 0
  BY TopIsCall
<1>1. /\ Len(calls') = n /\ calls'[n] = C
      /\ \A i \in 1..n - 1 : calls'[i] = calls[i]
  BY WithTopParts
<1>2. calls[n].start = C.start
  BY DEF Top
<1>3. \A i \in 1..n : calls'[i].start = calls[i].start
  BY <1>1, <1>2
<1>4. \A i \in 1..n - 1 : calls'[i].todo = calls[i].todo
  BY <1>1
<1>5. Linked(w, calls', n)
  <2>1. calls'[1].start = 0
    BY <1>3 DEF Linked
  <2>2. \A i \in 1..n : Parse(w, calls'[i].start, 1).starts \subseteq Parse(w, 0, 1).starts
    BY <1>3 DEF Linked
  <2>3. ASSUME NEW i \in 1..n - 1
        PROVE  Leads(Parse(w, calls'[i].start, 1), Parse(w, calls'[i + 1].start, calls'[i].todo))
    <3>1. i \in 1..n /\ i + 1 \in 1..n
      OBVIOUS
    <3>2. Leads(Parse(w, calls[i].start, 1), Parse(w, calls[i + 1].start, calls[i].todo))
      BY DEF Linked
    <3> QED
      BY <1>3, <1>4, <3>1, <3>2
  <2> QED
    BY <2>1, <2>2, <2>3 DEF Linked
<1>6. Top' = C
  BY <1>1 DEF Top
<1> QED
  BY <1>1, <1>5, <1>6 DEF OnCourse

LEMMA StillWhole ==
    ASSUME DecodeTyped, calls # <<>>, Whole, NEW C, C.start = Top.start, calls' = WithTop(C), wire' = wire,
           C.at = "slow" => pos' = C.start, \A l \in Nat : Says(Longer(wire, l), C, pos')
    PROVE  Whole'
<1>1. DecodeCalls
  BY DEF DecodeTyped
<1>2. ASSUME NEW l \in Nat PROVE Top' = C /\ OnCourse(Longer(wire, l), calls', Top', pos')
  <2>1. Linked(Longer(wire, l), calls, Len(calls)) /\ Says(Longer(wire, l), C, pos')
    BY DEF Whole, OnCourse
  <2> QED
    BY <1>1, <2>1, TopCourse
<1>3. Top' = C
  <2>1. 0 \in Nat
    OBVIOUS
  <2> QED
    BY <1>2, <2>1
<1> QED
  BY <1>2, <1>3 DEF Whole

(* The value is read, and the call returns it.                             *)
LEMMA WholeReturns ==
    ASSUME DecodeTyped, outcome = "none", calls # <<>>, Whole, NEW C, IsCall(C), C.start = Top.start, NEW x, Return(C, x),
           wire' = wire, \A l \in Nat : Parse(Longer(wire, l), Top.start, 1).ok = TRUE
                                        /\ Parse(Longer(wire, l), Top.start, 1).end = pos'
    PROVE  Whole' /\ outcome' = "none"
<1> DEFINE D == [C EXCEPT !.at = "return", !.val = x]
<1>1. D.at = "return" /\ D.start = Top.start
  BY DEF IsCall, CallFields
<1>2. calls' = WithTop(D) /\ outcome' = "none"
  BY DEF Return, result
<1> HIDE DEF D
<1>3. \A l \in Nat : Says(Longer(wire, l), D, pos')
  BY <1>1 DEF Says
<1> QED
  BY <1>1, <1>2, <1>3, StillWhole

LEMMA ReadStands ==
    ASSUME DecodeTyped, NEW end, ReadTo(pos, end), NEW l \in Nat
    PROVE  Parse(Longer(wire, l), pos, 1).ok = TRUE /\ Parse(Longer(wire, l), pos, 1).end = end
<1> DEFINE w == Longer(wire, l)
<1>1. w \in Seq(Byte) /\ wire \in Seq(Byte) /\ pos \in 0..Len(wire) /\ Inside(wire, w, 0) /\ pos \in 0..Len(w)
  BY WideWire, WireInside DEF DecodeTyped
<1> HIDE DEF w
<1>2. Carried(wire, w, 0, pos, 1)
  BY <1>1, InsideParses
<1>3. Parse(wire, pos, 1).ok /\ Parse(wire, pos, 1).end = end
  BY DEF ReadTo
<1>4. end \in pos + 1 .. Len(wire)
  BY <1>1, <1>3, ParseOne
<1>5. Parse(w, 0 + pos, 1).ok /\ Parse(w, 0 + pos, 1).end = 0 + end
  BY <1>2, <1>3 DEF Carried
<1>6. 0 + pos = pos /\ 0 + end = end
  BY <1>1, <1>4
<1>7. Parse(w, pos, 1).ok \in BOOLEAN
  BY <1>1, ParseOne, FirstReads DEF Ranged
<1> QED
  BY <1>5, <1>6, <1>7 DEF w

-----------------------------------------------------------------------------
(* What is copied is read by msgspec, or read again.                       *)
LEMMA MissReads ==
    ASSUME DecodeTyped, ReadsWell, stream = "file", At("copy"), NEW stop, Miss(stop), wire' = wire, stream' = stream
    PROVE  ReadsWell'
<1> DEFINE C == [Top EXCEPT !.at = "slow"]
<1>1. outcome = "none" /\ calls # <<>> /\ IsCall(Top) /\ (Whole \/ Doomed)
  BY AtTop, CourseAt
<1>2. pos' = Top.start /\ calls' = WithTop(C) /\ outcome' = "none"
  BY <1>1 DEF Miss, result
<1>3. C.at = "slow" /\ C.start = Top.start
  BY <1>1 DEF IsCall, CallFields
<1> HIDE DEF C
<1>4. CASE Whole
  <2>1. \A l \in Nat : Says(Longer(wire, l), C, pos')
    BY <1>3 DEF Says
  <2>2. Whole'
    BY <1>1, <1>2, <1>3, <1>4, <2>1, StillWhole
  <2> QED
    BY <1>2, <2>2, CourseGoesOn DEF Courses
<1>5. CASE Doomed
  <2>1. Top' = C
    <3>1. Len(calls') = Len(calls) /\ calls'[Len(calls)] = C
      BY <1>1, <1>2, WithTopParts DEF DecodeTyped
    <3> QED
      BY <3>1 DEF Top
  <2>2. Doomed'
    BY <1>2, <1>3, <1>5, <2>1 DEF Doomed
  <2> QED
    BY <1>2, <2>2, CourseGoesOn DEF Courses
<1> QED
  BY <1>1, <1>4, <1>5

LEMMA CopyReads == ASSUME DecodeTyped, ReadsWell, stream = "file", CopyFrame PROVE ReadsWell'
<1>1. At("copy") /\ wire' = wire /\ stream' = stream
  BY DEF CopyFrame, given
<1>2. outcome = "none" /\ calls # <<>> /\ IsCall(Top) /\ (Whole \/ Doomed) /\ Top.at = "copy"
  BY <1>1, AtTop, CourseAt
<1>3. ASSUME NEW end \in pos + 1 .. Len(wire), NEW need \in Nat,
             pos' = end /\ calls' = WithTop([Top EXCEPT !.need = need]) /\ UNCHANGED <<result, missed>>
      PROVE  ReadsWell'
  <2> DEFINE C == [Top EXCEPT !.need = need]
  <2>1. C.at = "copy" /\ C.start = Top.start
    BY <1>2 DEF IsCall, CallFields
  <2>2. calls' = WithTop(C) /\ outcome' = "none"
    BY <1>2, <1>3 DEF result
  <2> HIDE DEF C
  <2>3. pos # Len(wire)
    BY <1>3 DEF DecodeTyped
  <2>4. Whole
    BY <1>2, <2>3 DEF Doomed
  <2>5. \A l \in Nat : Says(Longer(wire, l), C, pos')
    BY <2>1 DEF Says
  <2>6. Whole'
    BY <1>1, <1>2, <2>1, <2>2, <2>4, <2>5, StillWhole
  <2> QED
    BY <1>1, <2>2, <2>6, CourseGoesOn DEF Courses
<1> QED
  BY <1>1, <1>3, CopySteps, MissReads

LEMMA FrameReads == ASSUME DecodeTyped, ReadsWell, stream = "file", MsgspecFrame PROVE ReadsWell'
<1>1. At("copy") /\ wire' = wire /\ stream' = stream /\ Top.need = 0
  BY DEF MsgspecFrame, given
<1>2. /\ outcome = "none" /\ calls # <<>> /\ IsCall(Top) /\ Top.at = "copy" /\ Top.start \in Nat /\ Top.start <= pos
      /\ pos \in Nat /\ pos <= Len(wire) /\ wire \in Seq(Byte)
  BY <1>1, AtTop DEF DecodeTyped
<1>3. CASE /\ MsgspecAccepts(SubSeq(wire, Top.start + 1, pos))
           /\ \E x : Return(Top, x)
           /\ pos' = pos
  <2>1. Whole
    BY <1>1, CourseAt
  <2>2. ASSUME NEW l \in Nat
        PROVE  Parse(Longer(wire, l), Top.start, 1).ok = TRUE /\ Parse(Longer(wire, l), Top.start, 1).end = pos
    <3> DEFINE w == Longer(wire, l)
               frame == SubSeq(wire, Top.start + 1, pos)
    <3>1. frame \in Seq(Byte) /\ Len(frame) = pos - Top.start /\ Inside(frame, w, Top.start)
      BY <1>2, FrameInside
    <3>2. w \in Seq(Byte) /\ Top.start \in 0..Len(w)
      BY <1>2, WideWire
    <3>3. Parse(frame, 0, 1).ok /\ Parse(frame, 0, 1).end = Len(frame)
      BY <1>3 DEF MsgspecAccepts
    <3> HIDE DEF w, frame
    <3>4. 0 \in 0 .. Len(frame)
      BY <3>1
    <3>5. Carried(frame, w, Top.start, 0, 1)
      BY <1>2, <3>1, <3>2, <3>4, InsideParses
    <3>6. Parse(w, Top.start + 0, 1).ok /\ Parse(w, Top.start + 0, 1).end = Top.start + Len(frame)
      BY <3>3, <3>5 DEF Carried
    <3>7. Top.start + 0 = Top.start /\ Top.start + Len(frame) = pos
      BY <1>2, <3>1
    <3>8. Parse(w, Top.start, 1).ok \in BOOLEAN
      BY <3>2, ParseOne, FirstReads DEF Ranged
    <3> QED
      BY <3>6, <3>7, <3>8 DEF w
  <2>3. Whole' /\ outcome' = "none"
    BY <1>1, <1>2, <1>3, <2>1, <2>2, WholeReturns
  <2> QED
    BY <1>1, <2>3, CourseGoesOn DEF Courses
<1>4. CASE Miss(pos)
  BY <1>1, <1>4, MissReads
<1> QED
  BY <1>3, <1>4, FrameSteps

-----------------------------------------------------------------------------
(* The slow path, at a tag: the value starts there.                        *)
LEMMA SlowStarts ==
    ASSUME DecodeTyped, ReadsWell, stream = "file", At("slow"), Left > 0
    PROVE  /\ Whole /\ pos = Top.start /\ outcome = "none" /\ calls # <<>> /\ IsCall(Top)
           /\ pos \in First.starts
<1>1. outcome = "none" /\ calls # <<>> /\ IsCall(Top) /\ Top.at = "slow" /\ (Whole \/ Doomed)
  BY AtTop, CourseAt
<1>2. pos # Len(wire)
  BY DEF Left, DecodeTyped
<1>3. Whole
  BY <1>1, <1>2 DEF Doomed
<1>4. pos = Top.start
  BY <1>1, <1>3 DEF Whole
<1>5. Longer(wire, 0) = wire
  BY LongerByNone DEF DecodeTyped
<1>6. Linked(wire, calls, Len(calls))
  <2>1. 0 \in Nat
    OBVIOUS
  <2> QED
    BY <1>3, <1>5, <2>1 DEF Whole, OnCourse
<1>7. Parse(wire, Top.start, 1).starts \subseteq First.starts
  <2>1. Len(calls) \in 1..Len(calls)
    BY <1>1, TopIsCall DEF DecodeTyped
  <2> QED
    BY <1>6, <2>1 DEF Linked, First, Top
<1>8. pos \in Parse(wire, pos, 1).starts
  BY ParseStarts DEF DecodeTyped
<1> QED
  BY <1>1, <1>3, <1>4, <1>7, <1>8

LEMMA RaisesReads ==
    ASSUME NEW exc, exc \notin {"none", "ok"}, Raise(exc), stream' = stream
    PROVE  ReadsWell'
<1>1. outcome' = exc
  BY DEF Raise
<1> QED
  BY <1>1, CourseGoesOn

LEMMA ValueReads ==
    ASSUME DecodeTyped, ReadsWell, stream = "file", At("slow"), Left > 0, wire' = wire, stream' = stream,
           NEW C, IsCall(C), C.start = Top.start, NEW x, Return(C, x), ReadTo(pos, pos')
    PROVE  ReadsWell'
<1>1. Whole /\ pos = Top.start /\ outcome = "none" /\ calls # <<>>
  BY SlowStarts
<1>2. \A l \in Nat : Parse(Longer(wire, l), Top.start, 1).ok = TRUE /\ Parse(Longer(wire, l), Top.start, 1).end = pos'
  BY <1>1, ReadStands
<1>3. Whole' /\ outcome' = "none"
  BY <1>1, <1>2, WholeReturns
<1> QED
  BY <1>3, CourseGoesOn DEF Courses

LEMMA EndReads == ASSUME DecodeTyped, ReadsWell, stream = "file", SlowEnd PROVE ReadsWell'
<1>1. Raise("EOFError") /\ stream' = stream
  BY DEF SlowEnd, given
<1> QED
  BY <1>1, RaisesReads

LEMMA UnknownReads == ASSUME DecodeTyped, ReadsWell, stream = "file", SlowUnknown PROVE ReadsWell'
<1>1. Raise("ValueError") /\ stream' = stream
  BY DEF SlowUnknown, given
<1> QED
  BY <1>1, RaisesReads

LEMMA PlainReads == ASSUME DecodeTyped, ReadsWell, stream = "file", SlowPlain PROVE ReadsWell'
<1>1. At("slow") /\ Left > 0 /\ wire' = wire /\ stream' = stream
  BY DEF SlowPlain, Slow, given
<1>2. IsCall(Top)
  BY <1>1, AtTop
<1>3. CASE Raise("EOFError")
  BY <1>1, <1>3, RaisesReads
<1>4. CASE (\E x : Return(Top, x)) /\ ReadTo(pos, pos')
  BY <1>1, <1>2, <1>4, ValueReads
<1> QED
  BY <1>3, <1>4, PlainSteps

LEMMA SizedReads == ASSUME DecodeTyped, ReadsWell, stream = "file", SlowSized PROVE ReadsWell'
<1>1. At("slow") /\ Left > 0 /\ wire' = wire /\ stream' = stream
  BY DEF SlowSized, Slow, given
<1>2. IsCall(Top)
  BY <1>1, AtTop
<1>3. CASE \E exc \in {"EOFError", "UnicodeDecodeError"} : Raise(exc)
  BY <1>1, <1>3, RaisesReads
<1>4. CASE (\E kids, x : Return([Top EXCEPT !.kids = kids], x)) /\ ReadTo(pos, pos')
  <2>1. PICK kids, x : Return([Top EXCEPT !.kids = kids], x)
    BY <1>4
  <2> DEFINE C == [Top EXCEPT !.kids = kids]
  <2>2. IsCall(C) /\ C.start = Top.start /\ Return(C, x)
    BY <1>2, <2>1, WithKids
  <2> HIDE DEF C
  <2> QED
    BY <1>1, <1>4, <2>2, ValueReads
<1> QED
  BY <1>3, <1>4, SizedSteps

LEMMA FixStrReads == ASSUME DecodeTyped, ReadsWell, stream = "file", SlowFixStr PROVE ReadsWell'
<1>1. At("slow") /\ Left > 0 /\ wire' = wire /\ stream' = stream /\ Tag \in FixStr
  BY DEF SlowFixStr, Slow, given
<1>2. IsCall(Top)
  BY <1>1, AtTop
<1>3. CASE Raise("UnicodeDecodeError")
  BY <1>1, <1>3, RaisesReads
<1>4. CASE ~Raise("UnicodeDecodeError")
  <2>1. PICK x : Return(Top, x)
    BY <1>4, FixStrSteps
  <2>2. IsText(SubSeq(wire, pos + 2, pos'))
    BY <1>4, FixStrSteps
  <2>3. PICK m \in Nat : m = Tag % 32
    BY <1>1, FixStrHeader
  <2>4. pos' = pos + 1 + m \/ (pos' = Len(wire) /\ pos' < pos + 1 + m)
    BY <2>3, FixStrSteps
  <2>5. /\ wire \in Seq(Byte) /\ pos \in Nat /\ Len(wire) \in Nat /\ pos + 1 <= Len(wire) /\ pos \in 0..Len(wire)
        /\ pos' \in Nat /\ pos' <= Len(wire)
    <3>1. pos' \in pos .. Len(wire)
      BY FixStrSteps
    <3> QED
      BY <1>1, <3>1 DEF DecodeTyped, Left
  <2>6. /\ HeadAt(wire, pos).ok /\ HeadAt(wire, pos).t = "str" /\ HeadAt(wire, pos).body = pos + 1
        /\ HeadAt(wire, pos).bytes = m
    <3>1. TagHeader(Tag).t = "str" /\ TagHeader(Tag).width = 0 /\ TagHeader(Tag).size = m
      BY <1>1, <2>3, FixStrHeader
    <3>2. ~(1 + 0 > Left) /\ pos + 1 + 0 = pos + 1
      BY <1>1, <2>5 DEF Left
    <3>3. HeadAt(wire, pos).ok /\ HeadAt(wire, pos).t = "str" /\ HeadAt(wire, pos).body = pos + 1 + 0
          /\ HeadAt(wire, pos).bytes = SizeAt(wire, pos) /\ SizeAt(wire, pos) = m
      BY <1>1, <3>1, <3>2, TagStands
    <3> QED
      BY <3>2, <3>3
  <2>7. pos + 1 + 1 = pos + 2
    BY <2>5
  <2>8. CASE pos' = pos + 1 + m
    <3>1. ReadTo(pos, pos')
      BY <2>2, <2>5, <2>6, <2>7, <2>8, ScalarRead
    <3> QED
      BY <1>1, <1>2, <2>1, <3>1, ValueReads
  <2>9. CASE pos' = Len(wire) /\ pos' < pos + 1 + m
    <3>1. PICK l \in Nat \ {0} : pos + 1 + m = Len(wire) + l
      <4>1. pos + 1 + m - Len(wire) \in Nat \ {0} /\ pos + 1 + m = Len(wire) + (pos + 1 + m - Len(wire))
        BY <2>3, <2>5, <2>9
      <4> QED
        BY <4>1
    <3> DEFINE w == Longer(wire, l)
    <3>2. Whole /\ pos = Top.start /\ pos \in First.starts /\ outcome = "none" /\ calls # <<>>
      BY <1>1, SlowStarts
    <3>3. w \in Seq(Byte) /\ Len(w) = Len(wire) + l /\ pos \in 0..Len(w) /\ Inside(wire, w, 0)
      BY <2>5, WideWire, WireInside
    <3>4. IsText(SubSeq(w, pos + 2, Len(wire) + l))
      <4>1. pos + 2 \in Nat /\ pos + 2 >= 1 /\ pos + 2 <= Len(wire) + 1
        BY <2>5
      <4> QED
        BY <2>2, <2>5, <2>9, <4>1, LongerIsText
    <3> HIDE DEF w
    <3>5. HeadAt(w, pos).ok /\ HeadAt(w, pos).t = "str" /\ HeadAt(w, pos).body = pos + 1 /\ HeadAt(w, pos).bytes = m
      <4>1. 0 + pos = pos /\ 0 + (pos + 1) = pos + 1
        BY <2>5
      <4> QED
        BY <2>5, <2>6, <3>3, <4>1, HeadInside
    <3>6. Parse(w, pos, 1).ok = TRUE /\ Parse(w, pos, 1).end = Len(wire) + l
      <4>1. ~(pos + 1 + m > Len(w)) /\ pos + 1 + m = Len(wire) + l
        BY <2>5, <3>1, <3>3
      <4>2. Parse(w, pos, 1).ok /\ Parse(w, pos, 1).end = Len(wire) + l
        BY <2>7, <3>3, <3>4, <3>5, <4>1, ParseScalar
      <4>3. Parse(w, pos, 1).ok \in BOOLEAN
        BY <3>3, ParseOne, FirstReads DEF Ranged
      <4> QED
        BY <4>2, <4>3
    <3> DEFINE D == [Top EXCEPT !.at = "return", !.val = x]
    <3>7. D.at = "return" /\ D.start = Top.start
      BY <1>2 DEF IsCall, CallFields
    <3>8. calls' = WithTop(D) /\ outcome' = "none"
      BY <2>1, <3>2 DEF Return, result
    <3> HIDE DEF D
    <3>9. Says(w, D, Len(wire) + l)
      BY <3>2, <3>6, <3>7 DEF Says
    <3>10. Linked(w, calls, Len(calls))
      BY <3>2 DEF Whole, OnCourse, w
    <3>11. Top' = D /\ OnCourse(w, calls', Top', Len(wire) + l)
      BY <3>2, <3>7, <3>8, <3>9, <3>10, TopCourse DEF DecodeTyped
    <3>12. \E p : Cut(p, l)'
      <4>3. PICK p : p = pos
        OBVIOUS
      <4>1. First' = First /\ Len(wire') = Len(wire)
        BY <1>1 DEF First
      <4>2. wire[pos + 1] \in FixStr /\ pos < Len(wire) /\ pos + 1 + (wire[pos + 1] % 32) = Len(wire) + l
        BY <1>1, <2>3, <2>5, <3>1 DEF Tag
      <4>4. Cut(p, l)'
        BY <1>1, <2>5, <3>2, <4>1, <4>2, <4>3 DEF Cut
      <4> QED
        BY <4>4
    <3>13. Short'
      BY <1>1, <2>9, <3>7, <3>11, <3>12 DEF Short, w
    <3> QED
      BY <1>1, <3>8, <3>13, CourseGoesOn DEF Courses
  <2> QED
    BY <2>4, <2>8, <2>9
<1> QED
  BY <1>3, <1>4

LEMMA ContainerReads == ASSUME DecodeTyped, ReadsWell, stream = "file", SlowContainer PROVE ReadsWell'
<1>1. At("slow") /\ Left > 0 /\ wire' = wire /\ stream' = stream
  BY DEF SlowContainer, Slow, given
<1>2. IsCall(Top) /\ Whole /\ pos = Top.start /\ outcome = "none" /\ calls # <<>>
  BY <1>1, SlowStarts
<1>3. CASE Raise("EOFError")
  BY <1>1, <1>3, RaisesReads
<1>4. CASE ~Raise("EOFError")
  <2> DEFINE h == HeadAt(wire, pos)
  <2>1. PICK t, kids : calls' = WithTop(Opened(t, h.values, kids)) /\ UNCHANGED result
    BY <1>4, ContainerSteps
  <2>2. h.ok /\ h.t \in {"array", "map"} /\ pos' = h.body /\ h.values \in Nat /\ pos' \in Nat
    <3>1. pos' \in pos .. Len(wire)
      BY <1>4, ContainerSteps
    <3>2. pos' \in Nat
      BY <3>1 DEF DecodeTyped
    <3> QED
      BY <1>4, <3>2, ContainerSteps
  <2> DEFINE C == Opened(t, h.values, kids)
  <2>3. C.at = "items" /\ C.start = Top.start /\ C.todo = h.values
    BY <1>2, <2>2, OpenedParts
  <2>4. calls' = WithTop(C) /\ outcome' = "none"
    BY <1>2, <2>1 DEF result
  <2> HIDE DEF C, h
  <2>5. ASSUME NEW l \in Nat PROVE Says(Longer(wire, l), C, pos')
    <3> DEFINE w == Longer(wire, l)
    <3>1. w \in Seq(Byte) /\ wire \in Seq(Byte) /\ pos \in 0..Len(wire) /\ Inside(wire, w, 0) /\ pos \in 0..Len(w)
      BY WideWire, WireInside DEF DecodeTyped
    <3> HIDE DEF w
    <3>2. 0 + pos = pos /\ 0 + pos' = pos'
      BY <2>2, <3>1
    <3>3. HeadAt(w, pos).ok /\ HeadAt(w, pos).t \in {"array", "map"} /\ HeadAt(w, pos).body = pos' /\ HeadAt(w, pos).values = h.values
      BY <2>2, <3>1, <3>2, HeadInside DEF h
    <3>4. Leads(Parse(w, pos, 1), Parse(w, pos', h.values))
      BY <3>1, <3>3, ParseContainer
    <3> QED
      BY <1>2, <2>3, <3>4 DEF Says, w
  <2>6. Whole'
    BY <1>1, <1>2, <2>3, <2>4, <2>5, StillWhole
  <2> QED
    BY <1>1, <2>4, <2>6, CourseGoesOn DEF Courses
<1> QED
  BY <1>3, <1>4

-----------------------------------------------------------------------------
(* The generators, and the value returned.  An item is asked for where the *)
(* call that waits for it stands.                                          *)
LEMMA LinkGrows ==
    ASSUME NEW w \in Seq(Byte), NEW s, NEW t, NEW n \in Nat, n > 0, NEW p \in 0..Len(w),
           \A i \in 1..n : t[i] = s[i], t[n + 1].start = p, s[n].at = "items", s[n].todo \in Nat, s[n].todo # 0,
           Linked(w, s, n), Says(w, s[n], p)
    PROVE  Linked(w, t, n + 1)
<1>1. Leads(Parse(w, s[n].start, 1), Parse(w, p, s[n].todo))
  BY DEF Says
<1>2. Parse(w, p, 1).starts \subseteq Parse(w, 0, 1).starts
  <2>1. Parse(w, p, 1).starts \subseteq Parse(w, p, s[n].todo).starts
    BY ParseSplits
  <2>2. Parse(w, p, s[n].todo).starts \subseteq Parse(w, s[n].start, 1).starts
    BY <1>1 DEF Leads
  <2>3. Parse(w, s[n].start, 1).starts \subseteq Parse(w, 0, 1).starts
    BY DEF Linked
  <2> QED
    BY <2>1, <2>2, <2>3
<1>3. t[1].start = 0
  BY DEF Linked
<1>4. ASSUME NEW i \in 1..n + 1 PROVE Parse(w, t[i].start, 1).starts \subseteq Parse(w, 0, 1).starts
  <2>1. CASE i = n + 1
    BY <1>2, <2>1
  <2>2. CASE i # n + 1
    <3>1. i \in 1..n
      BY <2>2
    <3> QED
      BY <3>1 DEF Linked
  <2> QED
    BY <2>1, <2>2
<1>5. ASSUME NEW i \in 1..n PROVE Leads(Parse(w, t[i].start, 1), Parse(w, t[i + 1].start, t[i].todo))
  <2>1. CASE i = n
    BY <1>1, <2>1
  <2>2. CASE i # n
    <3>1. i \in 1..n - 1 /\ i + 1 \in 1..n
      BY <2>2
    <3>2. Leads(Parse(w, s[i].start, 1), Parse(w, s[i + 1].start, s[i].todo))
      BY <3>1 DEF Linked
    <3> QED
      BY <3>1, <3>2
  <2> QED
    BY <2>1, <2>2
<1>6. n + 1 - 1 = n
  OBVIOUS
<1> QED
  BY <1>3, <1>4, <1>5, <1>6 DEF Linked

LEMMA ItemReads == ASSUME DecodeTyped, ReadsWell, stream = "file", DecodeItem PROVE ReadsWell'
<1>1. At("items") /\ Top.todo > 0
  BY DEF DecodeItem
<1>2. outcome = "none" /\ calls # <<>> /\ IsCall(Top) /\ Top.at = "items" /\ (Whole \/ Short)
  BY <1>1, AtTop, CourseAt
<1>3. PICK S : calls' = Append(calls, NewCall(S, pos)) /\ UNCHANGED <<given, pos, result, missed>>
  BY ItemSteps
<1>4. wire' = wire /\ stream' = stream /\ pos' = pos /\ outcome' = "none" /\ pos \in Nat
  BY <1>2, <1>3 DEF given, result, DecodeTyped
<1>5. PICK C : C = NewCall(S, pos) /\ IsCall(C) /\ C.start = pos /\ C.at \in {"copy", "slow"} /\ C.need = 1
  BY <1>4, NewCallParts
<1>6. PICK n \in Nat : n = Len(calls) /\ n > 0
  BY <1>2, TopIsCall DEF DecodeTyped
<1>7. /\ Len(calls') = n + 1 /\ calls'[n + 1] = C
      /\ \A i \in 1..n : calls'[i] = calls[i]
  BY <1>3, <1>5, <1>6, Pushed DEF DecodeTyped, DecodeCalls
<1>8. Top' = C /\ Top = calls[n]
  BY <1>6, <1>7 DEF Top
<1>9. CASE Whole
  <2>1. ASSUME NEW l \in Nat PROVE OnCourse(Longer(wire, l), calls', Top', pos')
    <3> DEFINE w == Longer(wire, l)
    <3>1. w \in Seq(Byte) /\ pos \in 0..Len(w)
      BY WideWire
    <3>2. Linked(w, calls, n) /\ Says(w, calls[n], pos)
      BY <1>6, <1>8, <1>9 DEF Whole, OnCourse
    <3> HIDE DEF w
    <3>3. calls[n].at = "items" /\ calls[n].todo \in Nat /\ calls[n].todo # 0
      BY <1>1, <1>2, <1>8 DEF IsCall
    <3>4. calls'[n + 1].start = pos
      BY <1>5, <1>7
    <3>5. Linked(w, calls', n + 1)
      BY <1>6, <1>7, <3>1, <3>2, <3>3, <3>4, LinkGrows
    <3>6. Says(w, C, pos)
      BY <1>5 DEF Says
    <3> QED
      BY <1>4, <1>7, <1>8, <3>5, <3>6 DEF OnCourse, w
  <2>2. Whole'
    BY <1>4, <1>5, <1>8, <2>1 DEF Whole
  <2> QED
    BY <1>4, <2>2, CourseGoesOn DEF Courses
<1>10. CASE Short
  <2>1. Doomed'
    BY <1>4, <1>5, <1>8, <1>10 DEF Short, Doomed
  <2> QED
    BY <1>4, <2>1, CourseGoesOn DEF Courses
<1> QED
  BY <1>2, <1>9, <1>10

(* No item is left: the value ends where the call stands.                  *)
LEMMA ItemsEnd ==
    ASSUME NEW w \in Seq(Byte), NEW q \in 0..Len(w), NEW C, C.at = "items", C.todo = 0, Says(w, C, q)
    PROVE  Parse(w, C.start, 1).ok = TRUE /\ Parse(w, C.start, 1).end = q
<1>1. Leads(Parse(w, C.start, 1), Parse(w, q, 0))
  BY DEF Says
<1>2. Parse(w, q, 0).ok = TRUE /\ Parse(w, q, 0).end = q
  BY ParseNone DEF Parsed
<1> QED
  BY <1>1, <1>2 DEF Leads

LEMMA MakeReads == ASSUME DecodeTyped, ReadsWell, stream = "file", MakeContainer PROVE ReadsWell'
<1>1. At("items") /\ Top.todo = 0 /\ wire' = wire /\ stream' = stream /\ pos' = pos
  BY DEF MakeContainer, given
<1>2. outcome = "none" /\ calls # <<>> /\ IsCall(Top) /\ Top.at = "items" /\ (Whole \/ Short)
  BY <1>1, AtTop, CourseAt
<1>3. (\E x : Return(Top, x)) \/ Raise("TypeError")
  BY DEF MakeContainer
<1>4. CASE Raise("TypeError")
  BY <1>1, <1>4, RaisesReads
<1>5. ASSUME NEW x, Return(Top, x), Whole PROVE ReadsWell'
  <2>1. ASSUME NEW l \in Nat
        PROVE  Parse(Longer(wire, l), Top.start, 1).ok = TRUE /\ Parse(Longer(wire, l), Top.start, 1).end = pos
    <3> DEFINE w == Longer(wire, l)
    <3>1. w \in Seq(Byte) /\ pos \in 0..Len(w)
      BY WideWire
    <3>2. Says(w, Top, pos)
      BY <1>5 DEF Whole, OnCourse
    <3> HIDE DEF w
    <3>3. Parse(w, Top.start, 1).ok = TRUE /\ Parse(w, Top.start, 1).end = pos
      BY <1>1, <1>2, <3>1, <3>2, ItemsEnd
    <3> QED
      BY <3>3 DEF w
  <2>2. Whole' /\ outcome' = "none"
    BY <1>1, <1>2, <1>5, <2>1, WholeReturns
  <2> QED
    BY <1>1, <2>2, CourseGoesOn DEF Courses
<1>6. ASSUME NEW x, Return(Top, x), Short PROVE ReadsWell'
  <2>1. PICK l \in Nat \ {0} : (\E p : Cut(p, l)) /\ OnCourse(Longer(wire, l), calls, Top, Len(wire) + l)
    BY <1>6 DEF Short
  <2> DEFINE w == Longer(wire, l)
             D == [Top EXCEPT !.at = "return", !.val = x]
  <2>2. w \in Seq(Byte) /\ Len(wire) + l \in 0..Len(w)
    BY WideWire
  <2>3. Linked(w, calls, Len(calls)) /\ Says(w, Top, Len(wire) + l)
    BY <2>1 DEF OnCourse
  <2>4. D.at = "return" /\ D.start = Top.start
    BY <1>2 DEF IsCall, CallFields
  <2>5. calls' = WithTop(D) /\ outcome' = "none"
    BY <1>2, <1>6 DEF Return, result
  <2> HIDE DEF D, w
  <2>6. Parse(w, Top.start, 1).ok = TRUE /\ Parse(w, Top.start, 1).end = Len(wire) + l
    BY <1>1, <1>2, <2>2, <2>3, ItemsEnd
  <2>7. Says(w, D, Len(wire) + l)
    BY <2>4, <2>6 DEF Says
  <2>8. Top' = D /\ OnCourse(w, calls', Top', Len(wire) + l)
    BY <1>2, <2>3, <2>4, <2>5, <2>7, TopCourse DEF DecodeTyped
  <2>9. \E p : Cut(p, l)'
    <3>1. PICK p : Cut(p, l)
      BY <2>1
    <3>2. Cut(p, l)'
      BY <1>1, <3>1 DEF Cut, First
    <3> QED
      BY <3>2
  <2>10. pos' = Len(wire')
    BY <1>1, <1>6 DEF Short
  <2>11. Short'
    BY <1>1, <2>4, <2>8, <2>9, <2>10 DEF Short, w
  <2> QED
    BY <1>1, <2>5, <2>11, CourseGoesOn DEF Courses
<1> QED
  BY <1>2, <1>3, <1>4, <1>5, <1>6

(* The value has been read: its caller stands behind it, with one item     *)
(* less to have.                                                           *)
LEMMA CallerStands ==
    ASSUME DecodeTyped, NEW w \in Seq(Byte), Len(wire) <= Len(w), NEW q, NEW n \in Nat, n > 0, Len(calls) = n + 1,
           Linked(w, calls, n + 1), Top.at = "return", Says(w, Top, q), NEW C, Received(C, n),
           C.at = "items", C.start = calls[n].start, C.todo = calls[n].todo - 1
    PROVE  Top' = C /\ OnCourse(w, calls', Top', q)
<1>1. calls[n].todo \in Nat /\ calls[n].todo # 0
  <2>1. n \in 1..n + 1 /\ n \in 1..n + 1 - 1
    OBVIOUS
  <2>2. IsCall(calls[n]) /\ calls[n].todo > 0
    BY <2>1 DEF DecodeTyped, DecodeCalls
  <2> QED
    BY <2>2 DEF IsCall
<1>2. PICK p : p = calls[n + 1].start /\ p \in 0..Len(w)
  <2>1. n + 1 \in 1..n + 1
    OBVIOUS
  <2>2. calls[n + 1].start \in Nat /\ calls[n + 1].start <= pos
    BY <2>1 DEF DecodeTyped, DecodeCalls, IsCall
  <2>3. pos \in Nat /\ pos <= Len(wire) /\ Len(wire) \in Nat /\ Len(w) \in Nat
    BY DEF DecodeTyped
  <2>4. calls[n + 1].start \in 0..Len(w)
    BY <2>2, <2>3
  <2> QED
    BY <2>4
<1>3. Parse(w, p, 1).ok = TRUE /\ Parse(w, p, 1).end = q
  BY <1>2 DEF Says, Top
<1>4. Leads(Parse(w, calls[n].start, 1), Parse(w, p, calls[n].todo))
  <2>1. n \in 1..n + 1 - 1
    OBVIOUS
  <2> QED
    BY <1>2, <2>1 DEF Linked
<1>5. Leads(Parse(w, p, calls[n].todo), Parse(w, q, calls[n].todo - 1))
  BY <1>1, <1>2, <1>3, ParseSplits
<1>6. Says(w, C, q)
  <2>1. Leads(Parse(w, calls[n].start, 1), Parse(w, q, calls[n].todo - 1))
    BY <1>4, <1>5, LeadsOn
  <2> QED
    BY <2>1 DEF Says
<1>7. /\ Len(calls') = n /\ calls'[n] = C
      /\ \A i \in 1..n - 1 : calls'[i] = calls[i]
  BY DEF Received
<1>8. \A i \in 1..n : calls'[i].start = calls[i].start
  BY <1>7
<1>9. Linked(w, calls', n)
  <2>1. \A i \in 1..n : i \in 1..n + 1
    OBVIOUS
  <2>2. calls'[1].start = 0
    BY <1>8 DEF Linked
  <2>3. \A i \in 1..n : Parse(w, calls'[i].start, 1).starts \subseteq Parse(w, 0, 1).starts
    BY <1>8, <2>1 DEF Linked
  <2>4. ASSUME NEW i \in 1..n - 1
        PROVE  Leads(Parse(w, calls'[i].start, 1), Parse(w, calls'[i + 1].start, calls'[i].todo))
    <3>1. i \in 1..n /\ i + 1 \in 1..n /\ i \in 1..n + 1 - 1
      OBVIOUS
    <3>2. Leads(Parse(w, calls[i].start, 1), Parse(w, calls[i + 1].start, calls[i].todo))
      BY <3>1 DEF Linked
    <3>3. calls'[i].todo = calls[i].todo
      BY <1>7
    <3> QED
      BY <1>8, <3>1, <3>2, <3>3
  <2> QED
    BY <2>2, <2>3, <2>4 DEF Linked
<1>10. Top' = C
  BY <1>7 DEF Top
<1> QED
  BY <1>6, <1>7, <1>9, <1>10 DEF OnCourse

LEMMA ReturnReads == ASSUME DecodeTyped, ReadsWell, stream = "file", ReturnValue PROVE ReadsWell'
<1>1. At("return") /\ wire' = wire /\ stream' = stream /\ pos' = pos
  BY DEF ReturnValue, given
<1>2. outcome = "none" /\ calls # <<>> /\ IsCall(Top) /\ Top.at = "return" /\ (Whole \/ Short)
  BY <1>1, AtTop, CourseAt
<1>3. CASE Len(calls) = 1 /\ outcome' = "ok" /\ calls' = <<>>
  <2>1. Top.start = 0 \/ ~Linked(wire, calls, 1)
    BY <1>3 DEF Linked, Top
  <2>2. CASE Whole
    <3>1. 0 \in Nat /\ Longer(wire, 0) = wire
      BY LongerByNone DEF DecodeTyped
    <3>2. OnCourse(wire, calls, Top, pos)
      BY <2>2, <3>1 DEF Whole
    <3>3. Top.start = 0 /\ First.ok = TRUE
      BY <1>2, <1>3, <2>1, <3>2 DEF OnCourse, Says, First
    <3>4. OnlyShortStrings'
      BY <1>1, <3>3 DEF OnlyShortStrings, First
    <3> QED
      BY <1>3, <3>4 DEF ReadsWell
  <2>3. CASE Short
    <3>1. PICK l \in Nat \ {0} : (\E p : Cut(p, l)) /\ OnCourse(Longer(wire, l), calls, Top, Len(wire) + l)
      BY <2>3 DEF Short
    <3>2. PICK p : Cut(p, l)
      BY <3>1
    <3> DEFINE w == Longer(wire, l)
    <3>3. Linked(w, calls, 1) /\ Says(w, Top, Len(wire) + l)
      BY <1>3, <3>1 DEF OnCourse
    <3> HIDE DEF w
    <3>4. Top.start = 0
      BY <1>3, <3>3 DEF Linked, Top
    <3>5. Parse(w, 0, 1).ok = TRUE /\ Parse(w, 0, 1).end = Len(wire) + l
      BY <1>2, <3>3, <3>4 DEF Says
    <3>6. p + 1 + (wire[p + 1] % 32) - Len(wire) = l
      <4>1. p \in Nat /\ wire[p + 1] \in FixStr /\ p + 1 + (wire[p + 1] % 32) = Len(wire) + l
        BY <3>2 DEF Cut
      <4>2. wire[p + 1] % 32 \in Nat /\ Len(wire) \in Nat
        BY <4>1, FixStrHeader DEF DecodeTyped
      <4> QED
        BY <4>1, <4>2
    <3>7. p \in First.starts /\ p < Len(wire) /\ wire[p + 1] \in FixStr /\ l > 0
      BY <3>2 DEF Cut
    <3>8. pos = Len(wire)
      BY <2>3 DEF Short
    <3>9. OnlyShortStrings'
      BY <1>1, <3>5, <3>6, <3>7, <3>8 DEF OnlyShortStrings, First, Longer, w
    <3> QED
      BY <1>3, <3>9 DEF ReadsWell
  <2> QED
    BY <1>2, <2>2, <2>3
<1>4. CASE \E n, C :
              /\ n \in Nat /\ Len(calls) = n + 1 /\ n > 0 /\ Received(C, n) /\ UNCHANGED result
              /\ IsCall(C) /\ C.at = "items" /\ C.start = calls[n].start /\ C.todo = calls[n].todo - 1
  <2>1. PICK n, C :
              /\ n \in Nat /\ Len(calls) = n + 1 /\ n > 0 /\ Received(C, n) /\ UNCHANGED result
              /\ IsCall(C) /\ C.at = "items" /\ C.start = calls[n].start /\ C.todo = calls[n].todo - 1
    BY <1>4
  <2>2. outcome' = "none"
    BY <1>2, <2>1 DEF result
  <2>3. ASSUME NEW l \in Nat, NEW q, OnCourse(Longer(wire, l), calls, Top, q)
        PROVE  Top' = C /\ OnCourse(Longer(wire, l), calls', Top', q)
    <3> DEFINE w == Longer(wire, l)
    <3>1. w \in Seq(Byte) /\ Len(wire) <= Len(w)
      <4>1. w \in Seq(Byte) /\ Len(w) = Len(wire) + l
        BY WideWire
      <4>2. Len(wire) \in Nat
        BY DEF DecodeTyped
      <4> HIDE DEF w
      <4> QED
        BY <4>1, <4>2
    <3>2. Linked(w, calls, n + 1) /\ Says(w, Top, q)
      BY <2>1, <2>3 DEF OnCourse
    <3> HIDE DEF w
    <3>3. Top' = C /\ OnCourse(w, calls', Top', q)
      BY <1>2, <2>1, <3>1, <3>2, CallerStands
    <3> QED
      BY <3>3 DEF w
  <2>4. CASE Whole
    <3>1. \A l \in Nat : Top' = C /\ OnCourse(Longer(wire, l), calls', Top', pos)
      BY <2>3, <2>4 DEF Whole
    <3>2. Top' = C
      <4>1. 0 \in Nat
        OBVIOUS
      <4> QED
        BY <3>1, <4>1
    <3>3. Whole'
      BY <1>1, <2>1, <3>1, <3>2 DEF Whole
    <3> QED
      BY <1>1, <2>2, <3>3, CourseGoesOn DEF Courses
  <2>5. CASE Short
    <3>1. PICK l \in Nat \ {0} : (\E p : Cut(p, l)) /\ OnCourse(Longer(wire, l), calls, Top, Len(wire) + l)
      BY <2>5 DEF Short
    <3>2. Top' = C /\ OnCourse(Longer(wire, l), calls', Top', Len(wire) + l)
      BY <2>3, <3>1
    <3>3. \E p : Cut(p, l)'
      <4>1. PICK p : Cut(p, l)
        BY <3>1
      <4>2. Cut(p, l)'
        BY <1>1, <4>1 DEF Cut, First
      <4> QED
        BY <4>2
    <3>4. pos' = Len(wire')
      BY <1>1, <2>5 DEF Short
    <3>5. Short'
      BY <1>1, <2>1, <3>2, <3>3, <3>4 DEF Short
    <3> QED
      BY <1>1, <2>2, <3>5, CourseGoesOn DEF Courses
  <2> QED
    BY <1>2, <2>4, <2>5
<1> QED
  BY <1>3, <1>4, ReturnSteps

-----------------------------------------------------------------------------
(* A decode begins with the first value, at the start of the wire.         *)
LEMMA FirstLinked ==
    ASSUME NEW s, Len(s) = 1, s[1].start = 0, s[1].at \in {"copy", "slow"}, NEW w, NEW q
    PROVE  OnCourse(w, s, s[1], q)
<1>1. \A i \in 1..1 : s[i].start = 0
  OBVIOUS
<1>2. ~(\E i \in 1..1 - 1 : TRUE)
  OBVIOUS
<1>3. Linked(w, s, 1)
  BY <1>1, <1>2 DEF Linked
<1> QED
  BY <1>3 DEF OnCourse, Says

LEMMA AgainReads == ASSUME Typed, DecodeAgain PROVE ReadsWell'
<1>1. /\ encOutcome = "ok" /\ calls = <<>> /\ outcome = "none" /\ wire' = out /\ calls' = <<NewCall(setting, 0)>>
      /\ UNCHANGED <<stream, setting, inspect, pos, result, encoder>>
  BY DEF DecodeAgain, Ended
<1>2. pos' = 0 /\ outcome' = "none"
  BY <1>1 DEF Typed, Turns, result
<1>3. Len(calls') = 1 /\ calls'[1] = NewCall(setting, 0)
  BY <1>1, OneCall
<1>4. NewCall(setting, 0).start = 0 /\ NewCall(setting, 0).at \in {"copy", "slow"}
  BY NewCallParts
<1>5. Top' = calls'[1]
  BY <1>3 DEF Top
<1>6. \A l \in Nat : OnCourse(Longer(wire', l), calls', Top', pos')
  BY <1>3, <1>4, <1>5, FirstLinked
<1>7. Whole'
  BY <1>2, <1>3, <1>4, <1>5, <1>6 DEF Whole
<1> QED
  BY <1>1, <1>2, <1>7, CourseGoesOn DEF Courses

LEMMA InitReads == ASSUME CodecInit PROVE ReadsWell
<1>1. outcome = "none" /\ pos = 0 /\ (calls = <<>> \/ calls = <<NewCall(setting, 0)>>)
  BY DEF CodecInit, Init, Idle
<1>2. OnlyShortStrings
  BY <1>1 DEF OnlyShortStrings
<1>3. CASE calls = <<>>
  BY <1>2, <1>3 DEF ReadsWell
<1>4. CASE calls = <<NewCall(setting, 0)>>
  <2>1. Len(calls) = 1 /\ calls[1] = NewCall(setting, 0)
    BY <1>4, OneCall
  <2>2. NewCall(setting, 0).start = 0 /\ NewCall(setting, 0).at \in {"copy", "slow"}
    BY NewCallParts
  <2>3. Top = calls[1]
    BY <2>1 DEF Top
  <2>4. \A l \in Nat : OnCourse(Longer(wire, l), calls, Top, pos)
    BY <2>1, <2>2, <2>3, FirstLinked
  <2>5. Whole
    BY <1>1, <2>1, <2>2, <2>3, <2>4 DEF Whole
  <2> QED
    BY <1>2, <2>5 DEF ReadsWell, Courses
<1> QED
  BY <1>1, <1>3, <1>4

LEMMA SameReads == ASSUME ReadsWell, UNCHANGED vars PROVE ReadsWell'
  BY DEF vars, given, result, ReadsWell, Courses, Whole, Short, Doomed, Cut, OnlyShortStrings, First, Top

LEMMA PipeReads == ASSUME ReadsWell, stream # "file", stream' = stream PROVE ReadsWell'
  BY DEF ReadsWell

LEMMA DecodeStepReads == ASSUME DecodeTyped, ReadsWell, Next PROVE ReadsWell'
<1>1. stream' = stream
  BY DEF Next, CopyFrame, MsgspecFrame, SlowEnd, SlowUnknown, SlowPlain, SlowFixStr, SlowSized, SlowContainer,
         DecodeItem, MakeContainer, ReturnValue, Terminated, vars, given
<1>2. CASE stream # "file"
  BY <1>1, <1>2, PipeReads
<1>3. CASE stream = "file"
  <2>1. CASE Terminated
    BY <2>1, SameReads DEF Terminated
  <2> QED
    BY <1>3, <2>1, CopyReads, FrameReads, EndReads, UnknownReads, PlainReads, FixStrReads, SizedReads, ContainerReads,
       ItemReads, MakeReads, ReturnReads DEF Next
<1> QED
  BY <1>2, <1>3

LEMMA StepReads == ASSUME Typed, ReadsWell, CodecNext PROVE ReadsWell'
<1>1. CASE Next /\ UNCHANGED encoder
  BY <1>1, DecodeStepReads DEF Typed, Bytes, DecodeTyped
<1>2. CASE DecodeAgain
  BY <1>2, AgainReads
<1>3. CASE UNCHANGED vars
  BY <1>3, SameReads
<1> QED
  BY <1>1, <1>2, <1>3 DEF CodecNext, EncodeFast, EncodeRefused, EncodeTooLarge, EncodeScalar, EncodeContainer,
     EncodeItem, EncodeReturn, Refuse

LEMMA AlwaysReads == ASSUME GivenSound PROVE CodecSpec => [](Typed /\ ReadsWell)
<1>1. CodecInit => Typed /\ ReadsWell
  BY InitTyped, InitReads
<1>2. Typed /\ ReadsWell /\ [CodecNext]_allVars => Typed' /\ ReadsWell'
  <2>1. CASE CodecNext
    BY <2>1, StepTyped, StepReads
  <2>2. CASE UNCHANGED allVars
    BY <2>2, StutterTyped, SameReads DEF allVars
  <2> QED
    BY <2>1, <2>2
<1> QED
  BY <1>1, <1>2, PTL DEF CodecSpec

(* OnlyShortStrings: on a stream that seeks, what is not well-formed is    *)
(* never decoded to a value, however deep it is nested and whatever fast   *)
(* paths took part and failed, with the one exception the code has: a      *)
(* fixstr is read by a single read that nobody measures, so where the      *)
(* stream ends within the last one, and within nothing else, decode        *)
(* returns what there is of it.                                            *)
THEOREM OnlyShortStringsSlip == ASSUME GivenSound PROVE CodecSpec => []OnlyShortStrings
<1>1. ReadsWell => OnlyShortStrings
  BY DEF ReadsWell, OnlyShortStrings
<1> QED
  BY <1>1, AlwaysReads, PTL

(* SlowOnValue: on a stream that seeks, whatever msgspec refused before,   *)
(* the slow path takes a byte for a tag only where a value of the wire     *)
(* starts, also in a wire that turns out malformed later on: after a copy  *)
(* that failed, however far it had got, the stream is back where the value *)
(* starts.                                                                 *)
THEOREM SlowPathStandsOnValues == ASSUME GivenSound PROVE CodecSpec => []SlowOnValue
<1>1. Typed /\ ReadsWell => SlowOnValue
  <2> SUFFICES ASSUME Typed, ReadsWell, stream = "file", At("slow")
               PROVE  pos = Top.start /\ (Left > 0 => pos \in First.starts)
    BY DEF SlowOnValue
  <2>1. DecodeTyped
    BY DEF Typed, Bytes, DecodeTyped
  <2>2. Left > 0 => pos = Top.start /\ pos \in First.starts
    BY <2>1, SlowStarts
  <2>3. pos = Top.start
    <3>1. Top.at = "slow" /\ (Whole \/ Doomed)
      BY <2>1, AtTop, CourseAt
    <3> QED
      BY <3>1 DEF Whole, Doomed
  <2> QED
    BY <2>2, <2>3
<1> QED
  BY <1>1, AlwaysReads, PTL
=============================================================================
