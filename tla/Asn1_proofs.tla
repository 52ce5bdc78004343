----------------------------- MODULE Asn1_proofs -----------------------------
(***************************************************************************)
(* Proofs about Asn1, for nodes of every depth, byte strings of every      *)
(* length and streams of both kinds.                                       *)
(***************************************************************************)
EXTENDS Asn1, SequenceTheorems, FiniteSetTheorems, WellFoundedInduction, TLAPS

Byte == 0..255

-----------------------------------------------------------------------------
(* Sequences of whatever elements.                                         *)
IsSeq(s) == Len(s) \in Nat /\ s = [i \in 1..Len(s) |-> s[i]]

LEMMA IsSeqIntro ==
    ASSUME NEW n \in Nat, NEW s, s = [i \in 1..n |-> s[i]]
    PROVE  IsSeq(s) /\ Len(s) = n
<1> DEFINE S == {s[i] : i \in 1..n}
<1>1. s \in [1..n -> S]
  OBVIOUS
<1>2. s \in Seq(S)
  BY <1>1, SeqDef
<1>3. Len(s) \in Nat /\ DOMAIN s = 1..Len(s)
  BY <1>2, LenProperties
<1>4. Len(s) = n
  BY <1>1, <1>3
<1> QED
  BY <1>4 DEF IsSeq

LEMMA IsSeqElim == ASSUME NEW s, IsSeq(s), NEW T PROVE \E S : s \in Seq(S) /\ T \subseteq S
<1> DEFINE S == {s[i] : i \in 1..Len(s)} \cup T
<1>1. s \in [1..Len(s) -> S]
  BY DEF IsSeq
<1>2. s \in Seq(S)
  BY <1>1, SeqDef DEF IsSeq
<1> QED
  BY <1>2

LEMMA SeqIsSeq == ASSUME NEW S, NEW s \in Seq(S) PROVE IsSeq(s)
  BY LenProperties DEF IsSeq

(* The stack: a call is added, or taken away.                              *)
LEMMA Pushed ==
    ASSUME NEW s, IsSeq(s), NEW x
    PROVE  /\ IsSeq(Append(s, x))
           /\ Len(Append(s, x)) = Len(s) + 1
           /\ Append(s, x)[Len(s) + 1] = x
           /\ \A i \in 1..Len(s) : Append(s, x)[i] = s[i]
<1>1. PICK S : s \in Seq(S) /\ {x} \subseteq S
  BY IsSeqElim
<1>2. Append(s, x) \in Seq(S)
  BY <1>1
<1>3. IsSeq(Append(s, x))
  BY <1>2, SeqIsSeq
<1> QED
  BY <1>1, <1>3

LEMMA Popped ==
    ASSUME NEW s, IsSeq(s), Len(s) > 0
    PROVE  /\ IsSeq(Front(s))
           /\ Len(Front(s)) = Len(s) - 1
           /\ \A i \in 1..(Len(s) - 1) : Front(s)[i] = s[i]
<1>1. PICK S : s \in Seq(S)
  BY IsSeqElim
<1>2. PICK n \in Nat : n = Len(s) - 1
  BY DEF IsSeq
<1>3. \A i \in 1..n : s[i] \in S
  BY <1>1, <1>2, ElementOfSeq
<1>4. /\ SubSeq(s, 1, n) \in Seq(S)
      /\ Len(SubSeq(s, 1, n)) = IF 1 <= n THEN n - 1 + 1 ELSE 0
      /\ \A i \in 1..(n - 1 + 1) : SubSeq(s, 1, n)[i] = s[1 + i - 1]
  BY <1>3, SubSeqProperties
<1>5. IsSeq(SubSeq(s, 1, n))
  BY <1>4, SeqIsSeq
<1>6. Len(SubSeq(s, 1, n)) = n
  BY <1>4, SMT
<1>7. \A i \in 1..n : SubSeq(s, 1, n)[i] = s[i]
  BY <1>4
<1> QED
  BY <1>2, <1>5, <1>6, <1>7 DEF Front

(* No call is under way, or there is one that runs.                        *)
LEMMA EmptyOrTop == ASSUME NEW s, IsSeq(s) PROVE (s = <<>>) <=> (Len(s) = 0)
<1>1. PICK S : s \in Seq(S)
  BY IsSeqElim
<1> QED
  BY <1>1, EmptySeq

(* Any set of natural numbers that is not empty has a least element.       *)
LEMMA Least == ASSUME NEW S, S \subseteq Nat, S # {} PROVE \E m \in S : \A k \in S : m <= k
<1> DEFINE R == {ss \in Nat \X Nat : ss[1] < ss[2]}
<1>1. IsWellFoundedOn(R, Nat)
  BY NatLessThanWellFounded DEF OpToRel
<1>2. PICK m \in S : \A k \in S : ~(<<k, m>> \in R)
  <2> HIDE DEF R
  <2> QED
    BY <1>1, WFMin
<1>3. ASSUME NEW k \in S PROVE m <= k
  <2>1. ~(<<k, m>> \in R)
    BY <1>2
  <2>2. ~(k < m)
    BY <2>1
  <2> QED
    BY <2>2
<1> QED
  BY <1>3

-----------------------------------------------------------------------------
(* Numbers.  A number is no less than nothing, whatever bytes it is read   *)
(* from: if one of its prefixes were, there would be a first that is.      *)
Horner(u, s, n) == u = [k \in 0..n |-> IF k = 0 THEN 0 ELSE 256 * u[k - 1] + s[k]]

LEMMA HornerExists == ASSUME NEW s, NEW n \in Nat PROVE \E u : Horner(u, s, n)
<1> DEFINE Bad == {k \in Nat : ~ \E u : Horner(u, s, k)}
<1> SUFFICES ASSUME Bad # {} PROVE FALSE
  OBVIOUS
<1>1. PICK m \in Bad : \A k \in Bad : m <= k
  BY Least
<1>2. m \in Nat /\ ~ \E u : Horner(u, s, m)
  OBVIOUS
<1>3. CASE m = 0
  <2> DEFINE u == [k \in 0..0 |-> 0]
  <2>1. u = [k \in 0..0 |-> IF k = 0 THEN 0 ELSE 256 * u[k - 1] + s[k]]
    OBVIOUS
  <2> QED
    BY <1>2, <1>3, <2>1 DEF Horner
<1>4. CASE m # 0
  <2>1. m - 1 \in Nat /\ m - 1 \notin Bad
    BY <1>1, <1>2, <1>4
  <2>2. PICK u : Horner(u, s, m - 1)
    BY <2>1
  <2>3. u = [k \in 0..(m - 1) |-> IF k = 0 THEN 0 ELSE 256 * u[k - 1] + s[k]]
    BY <2>2 DEF Horner
  <2> DEFINE v == [k \in 0..m |-> IF k < m THEN u[k] ELSE 256 * u[k - 1] + s[k]]
  <2>4. ASSUME NEW k \in 0..m PROVE v[k] = IF k = 0 THEN 0 ELSE 256 * v[k - 1] + s[k]
    <3>1. CASE k < m
      BY <1>2, <1>4, <2>3, <3>1
    <3>2. CASE k = m
      BY <1>2, <1>4, <2>3, <3>2
    <3> QED
      BY <1>2, <3>1, <3>2
  <2>5. v = [k \in 0..m |-> IF k = 0 THEN 0 ELSE 256 * v[k - 1] + s[k]]
    BY <2>4
  <2> QED
    BY <1>2, <2>5 DEF Horner
<1> QED
  BY <1>3, <1>4

LEMMA UnsignedIsNat == ASSUME NEW data \in Seq(Byte) PROVE Unsigned(data) \in Nat
<1> DEFINE first[k \in 0..Len(data)] == IF k = 0 THEN 0 ELSE 256 * first[k - 1] + data[k]
           Bad == {k \in 0..Len(data) : first[k] \notin Nat}
<1>1. Len(data) \in Nat /\ \A k \in 1..Len(data) : data[k] \in Nat
  <2>1. \A k \in 1..Len(data) : data[k] \in Byte
    BY ElementOfSeq
  <2>2. Len(data) \in Nat
    BY LenProperties
  <2>3. ASSUME NEW k \in 1..Len(data) PROVE data[k] \in Nat
    <3>1. Byte \subseteq Nat
      BY DEF Byte
    <3> QED
      BY <2>1, <3>1, Zenon
  <2> QED
    BY <2>2, <2>3
<1>2. \E u : u = [k \in 0..Len(data) |-> IF k = 0 THEN 0 ELSE 256 * u[k - 1] + data[k]]
  BY <1>1, HornerExists DEF Horner
<1>3. first = [k \in 0..Len(data) |-> IF k = 0 THEN 0 ELSE 256 * first[k - 1] + data[k]]
  BY <1>2
<1>4. Unsigned(data) = first[Len(data)]
  BY DEF Unsigned
<1> HIDE DEF first
<1> SUFFICES ASSUME Bad # {} PROVE FALSE
  BY <1>1, <1>4
<1>5. PICK m \in Bad : \A k \in Bad : m <= k
  <2>1. Bad \subseteq Nat
    BY <1>1
  <2> HIDE DEF Bad
  <2> QED
    BY <2>1, Least
<1>6. m # 0
  BY <1>1, <1>3
<1>7. m - 1 \in 0..Len(data) /\ m - 1 \notin Bad
  BY <1>1, <1>5, <1>6
<1>8. first[m - 1] \in Nat /\ data[m] \in Nat
  BY <1>1, <1>5, <1>6, <1>7
<1>9. first[m] = 256 * first[m - 1] + data[m]
  BY <1>3, <1>5, <1>6
<1> QED
  BY <1>8, <1>9

-----------------------------------------------------------------------------
(* What is written.  Every octet of a number in base 256 or 128 is one.    *)
LEMMA FunctionsAreSeqs ==
    ASSUME NEW S, NEW k \in Nat, NEW f \in [1..k -> S]
    PROVE  f \in Seq(S) /\ Len(f) = k
<1>1. f \in Seq(S)
  BY SeqDef
<1>2. DOMAIN f = 1..Len(f) /\ Len(f) \in Nat
  BY <1>1, LenProperties
<1> QED
  BY <1>1, <1>2

LEMMA BigEndianOctets ==
    ASSUME NEW n \in Int, NEW k \in Nat
    PROVE  BigEndian(n, k) \in Seq(Byte) /\ Len(BigEndian(n, k)) = k
<1>1. ASSUME NEW i \in 1..k PROVE (n \div 256 ^ (k - i)) % 256 \in Byte
  BY DEF Byte
<1>2. BigEndian(n, k) \in [1..k -> Byte]
  BY <1>1 DEF BigEndian
<1> QED
  BY <1>2, FunctionsAreSeqs

LEMMA BitLengthRange == ASSUME NEW n PROVE BitLength(n) \in 0..Bits
<1> DEFINE S == {k \in 0 .. Bits - 1 : Magnitude(n) >= 2 ^ k}
<1>1. Bits \in Nat /\ Bits >= 1
  BY Asn1Assumption
<1>2. IsFiniteSet(0 .. Bits - 1) /\ Cardinality(0 .. Bits - 1) = Bits
  BY <1>1, FS_Interval
<1>3. S \subseteq 0 .. Bits - 1
  OBVIOUS
<1>4. IsFiniteSet(S) /\ Cardinality(S) <= Bits
  BY <1>2, <1>3, FS_Subset
<1>5. Cardinality(S) \in Nat
  BY <1>4, FS_CardinalityType
<1> QED
  BY <1>1, <1>4, <1>5 DEF BitLength

LEMMA LengthOctetsAreOctets ==
    ASSUME NEW n \in Nat
    PROVE  LengthOctets(n) \in Seq(Byte) /\ Len(LengthOctets(n)) >= 1
<1>1. CASE n < 128
  BY <1>1 DEF LengthOctets, Byte
<1>2. CASE n >= 128
  <2> DEFINE k == (BitLength(n) + 7) \div 8
  <2>1. BitLength(n) \in 0..1016
    <3>1. BitLength(n) \in 0..Bits
      BY BitLengthRange
    <3>2. Bits \in 1..1016
      BY Asn1Assumption
    <3> QED
      BY <3>1, <3>2
  <2>2. k \in 0..127
    BY <2>1
  <2>3. LengthOctets(n) = <<128 + k>> \o BigEndian(n, k)
    BY <1>2 DEF LengthOctets
  <2> HIDE DEF k
  <2>4. BigEndian(n, k) \in Seq(Byte)
    BY <2>2, BigEndianOctets
  <2>5. <<128 + k>> \in Seq(Byte) /\ Len(<<128 + k>>) = 1
    BY <2>2 DEF Byte
  <2> QED
    BY <2>3, <2>4, <2>5
<1> QED
  BY <1>1, <1>2

LEMMA Base128Octets ==
    ASSUME NEW n \in Nat
    PROVE  Base128(n) \in Seq(Byte)
<1> DEFINE k == IF n = 0 THEN 1 ELSE (BitLength(n) + 6) \div 7
<1>1. BitLength(n) \in 0..Bits /\ Bits \in Nat
  BY BitLengthRange, Asn1Assumption
<1>2. k \in Nat
  BY <1>1
<1>3. Base128(n) = [i \in 1..k |-> ((n \div 128 ^ (k - i)) % 128) + IF i < k THEN 128 ELSE 0]
  BY DEF Base128
<1> HIDE DEF k
<1>4. ASSUME NEW i \in 1..k PROVE ((n \div 128 ^ (k - i)) % 128) + (IF i < k THEN 128 ELSE 0) \in Byte
  <2>1. (n \div 128 ^ (k - i)) % 128 \in 0..127
    BY <1>2
  <2> QED
    BY <2>1 DEF Byte
<1>5. Base128(n) \in [1..k -> Byte]
  BY <1>3, <1>4
<1> QED
  BY <1>2, <1>5, FunctionsAreSeqs

LEMMA TagOctetsAreOctets ==
    ASSUME NEW class \in 0..3, NEW tag \in Int, NEW constructed \in BOOLEAN
    PROVE  TagOctets(class, tag, constructed) \in Seq(Byte) /\ Len(TagOctets(class, tag, constructed)) >= 1
<1> DEFINE first == 64 * class + (IF constructed THEN 32 ELSE 0) + (tag % 32)
           more == IF tag >= 31 THEN Base128(tag) ELSE <<>>
<1>1. first \in Byte
  BY DEF Byte
<1>2. more \in Seq(Byte)
  BY Base128Octets
<1>3. TagOctets(class, tag, constructed) = <<first>> \o more
  BY DEF TagOctets
<1> HIDE DEF first, more
<1>4. <<first>> \in Seq(Byte) /\ Len(<<first>>) = 1
  BY <1>1
<1> QED
  BY <1>2, <1>3, <1>4

(* Sequences of octets one behind the other are one.                       *)
Joining(u, s, n) == u = [i \in 1..n |-> IF i = 1 THEN s[i] ELSE u[i - 1] \o s[i]]

LEMMA JoiningExists == ASSUME NEW s, NEW n \in Nat PROVE \E u : Joining(u, s, n)
<1> DEFINE Bad == {k \in Nat : ~ \E u : Joining(u, s, k)}
<1> SUFFICES ASSUME Bad # {} PROVE FALSE
  OBVIOUS
<1>1. PICK m \in Bad : \A k \in Bad : m <= k
  BY Least
<1>2. m \in Nat /\ ~ \E u : Joining(u, s, m)
  OBVIOUS
<1>3. CASE m = 0
  <2> DEFINE u == [i \in 1..0 |-> 0]
  <2>1. u = [i \in 1..0 |-> IF i = 1 THEN s[i] ELSE u[i - 1] \o s[i]]
    OBVIOUS
  <2> QED
    BY <1>2, <1>3, <2>1 DEF Joining
<1>4. CASE m # 0
  <2>1. m - 1 \in Nat /\ m - 1 \notin Bad
    BY <1>1, <1>2, <1>4
  <2>2. PICK u : Joining(u, s, m - 1)
    BY <2>1
  <2>3. u = [i \in 1..(m - 1) |-> IF i = 1 THEN s[i] ELSE u[i - 1] \o s[i]]
    BY <2>2 DEF Joining
  <2> DEFINE v == [i \in 1..m |-> IF i < m THEN u[i] ELSE IF i = 1 THEN s[i] ELSE u[i - 1] \o s[i]]
  <2>4. ASSUME NEW i \in 1..m PROVE v[i] = IF i = 1 THEN s[i] ELSE v[i - 1] \o s[i]
    <3>1. CASE i < m
      <4>1. v[i] = u[i]
        BY <1>2, <3>1
      <4>2. i \in 1..(m - 1)
        BY <1>2, <3>1
      <4>3. u[i] = IF i = 1 THEN s[i] ELSE u[i - 1] \o s[i]
        BY <2>3, <4>2, Zenon
      <4>4. i # 1 => v[i - 1] = u[i - 1]
        BY <1>2, <3>1
      <4> HIDE DEF v
      <4> QED
        BY <4>1, <4>3, <4>4
    <3>2. CASE i = m
      <4>1. v[i] = IF i = 1 THEN s[i] ELSE u[i - 1] \o s[i]
        BY <1>2, <3>2
      <4>2. i # 1 => v[i - 1] = u[i - 1]
        BY <1>2, <3>2
      <4> HIDE DEF v
      <4> QED
        BY <4>1, <4>2
    <3> QED
      BY <1>2, <3>1, <3>2
  <2>5. v = [i \in 1..m |-> IF i = 1 THEN s[i] ELSE v[i - 1] \o s[i]]
    BY <2>4
  <2> QED
    BY <1>2, <2>5 DEF Joining
<1> QED
  BY <1>3, <1>4

LEMMA FlattenedOctets ==
    ASSUME NEW s, NEW n \in Nat, Len(s) = n, n = 0 => s = <<>>, \A i \in 1..n : s[i] \in Seq(Byte)
    PROVE  FlattenSeq(s) \in Seq(Byte)
<1> DEFINE flatten[i \in 1..Len(s)] == IF i = 1 THEN s[i] ELSE flatten[i - 1] \o s[i]
           Bad == {i \in 1..n : flatten[i] \notin Seq(Byte)}
<1>1. CASE n = 0
  BY <1>1 DEF FlattenSeq
<1>2. CASE n > 0
  <2>1. \E u : u = [i \in 1..Len(s) |-> IF i = 1 THEN s[i] ELSE u[i - 1] \o s[i]]
    BY JoiningExists DEF Joining
  <2>2. flatten = [i \in 1..n |-> IF i = 1 THEN s[i] ELSE flatten[i - 1] \o s[i]]
    BY <2>1
  <2>3. FlattenSeq(s) = flatten[n]
    BY <1>2 DEF FlattenSeq
  <2> HIDE DEF flatten
  <2> SUFFICES ASSUME Bad # {} PROVE FALSE
    BY <1>2, <2>3
  <2>4. PICK m \in Bad : \A k \in Bad : m <= k
    <3>1. Bad \subseteq Nat
      OBVIOUS
    <3> HIDE DEF Bad
    <3> QED
      BY <3>1, Least
  <2>5. m # 1
    BY <1>2, <2>2
  <2>6. m - 1 \in 1..n /\ m - 1 \notin Bad
    BY <2>4, <2>5
  <2>7. flatten[m - 1] \in Seq(Byte) /\ s[m] \in Seq(Byte)
    BY <2>4, <2>6
  <2>8. flatten[m] = flatten[m - 1] \o s[m]
    BY <2>2, <2>4, <2>5
  <2>9. flatten[m] \in Seq(Byte)
    BY <2>7, <2>8
  <2>10. flatten[m] \notin Seq(Byte)
    OBVIOUS
  <2> QED
    BY <2>9, <2>10
<1> QED
  BY <1>1, <1>2

LEMMA OidOctetsAreOctets ==
    ASSUME NEW arcs \in Seq(Nat), OidEncodable(arcs)
    PROVE  OidOctets(arcs) \in Seq(Byte)
<1> DEFINE n == Len(arcs) - 2
           rest == [i \in 1 .. n |-> Base128(arcs[i + 2])]
<1>1. Len(arcs) \in Nat /\ Len(arcs) >= 2
  BY DEF OidEncodable
<1>2. arcs[1] \in Nat /\ arcs[2] \in Nat /\ 40 * arcs[1] + arcs[2] < 256
  <2>1. 1 \in 1..Len(arcs) /\ 2 \in 1..Len(arcs)
    BY <1>1
  <2>2. arcs[1] \in Nat /\ arcs[2] \in Nat
    BY <2>1, ElementOfSeq
  <2> QED
    BY <2>2 DEF OidEncodable
<1>3. ASSUME NEW i \in 1..n PROVE rest[i] \in Seq(Byte)
  <2>1. i + 2 \in 1..Len(arcs)
    BY <1>1
  <2>2. arcs[i + 2] \in Nat
    BY <2>1, ElementOfSeq
  <2> QED
    BY <2>2, Base128Octets
<1>4. n \in Nat
  BY <1>1
<1>5. rest \in Seq(Seq(Byte)) /\ Len(rest) = n
  <2>1. rest \in [1..n -> Seq(Byte)]
    BY <1>3
  <2> HIDE DEF rest, n
  <2> QED
    BY <1>4, <2>1, FunctionsAreSeqs
<1>6. n = 0 => rest = <<>>
  <2>1. ASSUME n = 0 PROVE Len(rest) = 0
    BY <1>5, <2>1
  <2> HIDE DEF rest, n
  <2> QED
    BY <1>5, <2>1, EmptySeq
<1>7. OidOctets(arcs) = <<40 * arcs[1] + arcs[2]>> \o FlattenSeq(rest)
  BY DEF OidOctets
<1> HIDE DEF rest, n
<1>8. FlattenSeq(rest) \in Seq(Byte)
  BY <1>3, <1>4, <1>5, <1>6, FlattenedOctets
<1>9. <<40 * arcs[1] + arcs[2]>> \in Seq(Byte)
  <2>1. PICK a \in Nat, b \in Nat : a = arcs[1] /\ b = arcs[2]
    BY <1>2
  <2>2. 40 * a + b < 256
    BY <1>2, <2>1
  <2>3. 40 * a + b \in Byte
    BY <2>2 DEF Byte
  <2> QED
    BY <2>1, <2>3
<1> QED
  BY <1>7, <1>8, <1>9

(* A node as its author may have made it: a class of the four, texts and   *)
(* strings of bytes, arcs that are numbers.                                *)
IsMade(N) ==
    /\ N.class \in 0..3 /\ N.tag \in Int
    /\ N.value.n \in Int
    /\ N.value.t \in {"bytes", "text", "bits"} => N.value.data \in Seq(Byte)
    /\ N.value.t = "oid" => N.value.data \in Seq(Nat)

(* ... and all the nodes in it.                                            *)
Whole(S) == \A N \in S : IsMade(N) /\ IsSeq(N.value.items) /\ \A i \in 1..Len(N.value.items) : N.value.items[i] \in S
Sound(N) == \E S : N \in S /\ Whole(S)
NodesSound == \A N \in Nodes : Sound(N)

LEMMA SoundParts ==
    ASSUME NEW N, Sound(N)
    PROVE  /\ IsMade(N) /\ IsSeq(N.value.items)
           /\ \A i \in 1..Len(N.value.items) : Sound(N.value.items[i])
<1>1. PICK S : N \in S /\ Whole(S)
  BY DEF Sound
<1> QED
  BY <1>1 DEF Whole, Sound

LEMMA AsBytesOctets ==
    ASSUME NEW V, V.n \in Int, V.t = "bytes" => V.data \in Seq(Byte), IsBytes(V)
    PROVE  AsBytes(V) \in Seq(Byte)
<1>1. CASE V.t \in {"int", "bool"}
  <2>1. V.n \in Nat
    BY <1>1 DEF IsBytes, ListV, Value
  <2>2. [i \in 1..V.n |-> 0] \in [1..V.n -> Byte]
    BY DEF Byte
  <2>3. [i \in 1..V.n |-> 0] \in Seq(Byte)
    BY <2>1, <2>2, FunctionsAreSeqs
  <2> QED
    BY <1>1, <2>3 DEF AsBytes
<1>2. CASE V.t = "bytes"
  BY <1>2 DEF AsBytes
<1>3. CASE V = ListV(<<>>)
  BY <1>3 DEF AsBytes, ListV, Value
<1> QED
  BY <1>1, <1>2, <1>3 DEF IsBytes

LEMMA PrimitiveOctetsAreOctets ==
    ASSUME NEW N, IsMade(N), ~IsConstructed(N), EncodeError(N) = "none"
    PROVE  PrimitiveOctets(N) \in Seq(Byte)
<1> DEFINE V == N.value
<1>1. CASE N.class # Universal
  <2>1. IsBytes(V)
    BY <1>1 DEF EncodeError
  <2>2. AsBytes(V) \in Seq(Byte)
    BY <2>1, AsBytesOctets DEF IsMade
  <2> QED
    BY <1>1, <2>2 DEF PrimitiveOctets
<1>2. CASE N.class = Universal
  <2> USE <1>2 DEF Boolean, Integer, BitString, Null, ObjectIdentifier, Utf8String, AsciiStringTags
  <2>1. CASE N.tag = Boolean
    <3>1. PrimitiveOctets(N) = IF IsTrue(V) THEN <<255>> ELSE <<0>>
      BY <2>1 DEF PrimitiveOctets
    <3>2. 0 \in Byte /\ 255 \in Byte
      BY DEF Byte
    <3> QED
      BY <3>1, <3>2
  <2>2. CASE N.tag = Integer
    <3> DEFINE k == IF V.n = 0 THEN 1 ELSE (BitLength(V.n) + 8) \div 8
    <3>1. BitLength(V.n) \in 0..Bits /\ Bits \in Nat
      BY BitLengthRange, Asn1Assumption
    <3>2. k \in Nat /\ V.n \in Int
      BY <3>1 DEF IsMade
    <3>3. PrimitiveOctets(N) = BigEndian(V.n, k)
      BY <2>2 DEF PrimitiveOctets, IntOctets
    <3> HIDE DEF k
    <3> QED
      BY <3>2, <3>3, BigEndianOctets
  <2>3. CASE N.tag = Null
    <3>1. PrimitiveOctets(N) = <<>>
      BY <2>3 DEF PrimitiveOctets
    <3> QED
      BY <3>1
  <2>4. CASE N.tag \in AsciiStringTags \cup {Utf8String}
    <3>1. V.t = "text"
      BY <2>4 DEF EncodeError
    <3>2. PrimitiveOctets(N) = V.data
      BY <2>4 DEF PrimitiveOctets
    <3> QED
      BY <3>1, <3>2 DEF IsMade
  <2>5. CASE N.tag = ObjectIdentifier
    <3>1. V.t = "oid" /\ OidEncodable(V.data)
      BY <2>5 DEF EncodeError
    <3>2. PrimitiveOctets(N) = OidOctets(V.data)
      BY <2>5 DEF PrimitiveOctets
    <3>3. V.data \in Seq(Nat)
      BY <3>1 DEF IsMade
    <3> QED
      BY <3>1, <3>2, <3>3, OidOctetsAreOctets
  <2>6. CASE N.tag = BitString /\ V.t = "bits"
    <3>1. V.n \in 0..7
      BY <2>6 DEF EncodeError
    <3>2. PrimitiveOctets(N) = <<V.n>> \o V.data
      BY <2>6 DEF PrimitiveOctets
    <3>3. V.data \in Seq(Byte)
      BY <2>6 DEF IsMade
    <3>4. <<V.n>> \in Seq(Byte)
      BY <3>1 DEF Byte
    <3> QED
      BY <3>2, <3>3, <3>4
  <2>7. CASE N.tag = BitString /\ V.t # "bits"
    <3>1. IsBytes(V)
      BY <2>7 DEF EncodeError
    <3>2. PrimitiveOctets(N) = <<0>> \o AsBytes(V)
      BY <2>7 DEF PrimitiveOctets
    <3>3. AsBytes(V) \in Seq(Byte)
      BY <3>1, AsBytesOctets DEF IsMade
    <3>4. <<0>> \in Seq(Byte)
      BY DEF Byte
    <3> QED
      BY <3>2, <3>3, <3>4
  <2>8. CASE N.tag \notin {Boolean, Integer, BitString, Null, ObjectIdentifier, Utf8String} \cup AsciiStringTags
    <3>1. IsBytes(V)
      BY <2>8 DEF EncodeError
    <3>2. PrimitiveOctets(N) = AsBytes(V)
      BY <2>8 DEF PrimitiveOctets
    <3>3. AsBytes(V) \in Seq(Byte)
      BY <3>1, AsBytesOctets DEF IsMade
    <3> QED
      BY <3>2, <3>3
  <2> QED
    BY <2>1, <2>2, <2>3, <2>4, <2>5, <2>6, <2>7, <2>8
<1> QED
  BY <1>1, <1>2

-----------------------------------------------------------------------------
(* What is read.  A tag ends behind its first octet and a length behind    *)
(* its own, both inside what there is to read.                             *)
Ranged(x, p, n) ==
    /\ x.ok \in BOOLEAN /\ x.end \in 0..n
    /\ x.ok => p < n /\ x.end \in p + 1 .. n

LEMMA TagRange ==
    ASSUME NEW w \in Seq(Byte), NEW p \in Nat, NEW n \in Nat, n = Len(w), p <= n
    PROVE  Ranged(TagAt(w, p), p, n)
<1>1. ASSUME NEW m, NEW e \in p + 1 .. n, p < n PROVE Ranged(Number(m, e), p, n)
  BY <1>1 DEF Ranged, Number
<1>2. Ranged(NoNumber, p, n)
  BY DEF Ranged, NoNumber
<1>3. CASE p >= n
  BY <1>2, <1>3 DEF TagAt
<1>4. CASE p < n /\ w[p + 1] % 32 < 31
  <2>1. TagAt(w, p) = Number(w[p + 1] % 32, p + 1)
    BY <1>4 DEF TagAt
  <2>2. p + 1 \in p + 1 .. n
    BY <1>4
  <2> QED
    BY <1>1, <1>4, <2>1, <2>2
<1>5. CASE p < n /\ ~(w[p + 1] % 32 < 31)
  <2>1. TagAt(w, p) = FromBase128(w, p + 1)
    BY <1>5 DEF TagAt
  <2>2. CASE Ends128(w, p + 1) = {}
    <3>1. FromBase128(w, p + 1) = NoNumber
      BY <2>2 DEF FromBase128
    <3> QED
      BY <1>2, <2>1, <3>1
  <2>3. CASE Ends128(w, p + 1) # {}
    <3> DEFINE e == CHOOSE i \in Ends128(w, p + 1) : TRUE
    <3>1. e \in Ends128(w, p + 1)
      BY <2>3
    <3>2. e \in p + 1 + 1 .. n
      BY <3>1 DEF Ends128
    <3>3. \E m : FromBase128(w, p + 1) = Number(m, e)
      BY <2>3 DEF FromBase128
    <3> HIDE DEF e
    <3>4. e \in p + 1 .. n
      BY <3>2
    <3> QED
      BY <1>1, <1>5, <2>1, <3>3, <3>4
  <2> QED
    BY <2>2, <2>3
<1> QED
  BY <1>3, <1>4, <1>5

LEMMA PartIsBytes ==
    ASSUME NEW w \in Seq(Byte), NEW p \in Nat, NEW e \in Nat, e <= Len(w)
    PROVE  SubSeq(w, p + 1, e) \in Seq(Byte)
<1>1. \A i \in p + 1 .. e : w[i] \in Byte
  <2>1. \A i \in p + 1 .. e : i \in 1..Len(w)
    OBVIOUS
  <2> QED
    BY <2>1, ElementOfSeq
<1> QED
  BY <1>1, SubSeqProperties

LEMMA LengthRange ==
    ASSUME NEW w \in Seq(Byte), NEW p \in Nat, NEW n \in Nat, n = Len(w), p <= n
    PROVE  /\ Ranged(LengthAt(w, p), p, n)
           /\ LengthAt(w, p).n \in {-1} \cup Nat
           /\ LengthAt(w, p).n = -1 => MayPeek(w)
<1> DEFINE Fits(x) == Ranged(x, p, n) /\ x.n \in {-1} \cup Nat /\ (x.n = -1 => MayPeek(w))
<1>1. ASSUME NEW m \in Nat, NEW e \in p + 1 .. n, p < n PROVE Fits(Number(m, e))
  BY <1>1 DEF Ranged, Number
<1>2. Fits(NoNumber)
  BY DEF Ranged, NoNumber
<1>3. CASE p >= n
  <2>1. LengthAt(w, p) = NoNumber
    BY <1>3 DEF LengthAt
  <2> QED
    BY <1>2, <2>1
<1>4. CASE p < n
  <2>1. p + 1 \in 1..Len(w) /\ p + 1 \in DOMAIN w
    BY <1>4
  <2>2. PICK octet \in 0..255 : octet = w[p + 1]
    BY <2>1, ElementOfSeq DEF Byte
  <2>3. CASE octet = 128
    <3>1. MayPeek(w)
      BY <2>1, <2>2, <2>3 DEF MayPeek
    <3>2. LengthAt(w, p) = Number(-1, p + 1)
      BY <1>4, <2>2, <2>3 DEF LengthAt
    <3> QED
      BY <1>4, <3>1, <3>2 DEF Ranged, Number
  <2>4. CASE octet < 128
    <3>1. LengthAt(w, p) = Number(octet, p + 1)
      BY <1>4, <2>2, <2>4 DEF LengthAt
    <3> QED
      BY <1>4, <3>1 DEF Ranged, Number
  <2>5. CASE octet > 128
    <3> DEFINE e == p + 1 + (octet % 128)
    <3>1. e \in Nat /\ e >= p + 1
      OBVIOUS
    <3>2. LengthAt(w, p) = IF e > n THEN NoNumber ELSE Number(Unsigned(SubSeq(w, p + 2, e)), e)
      <4>1. ~(p >= Len(w)) /\ ~(w[p + 1] = 128) /\ ~(w[p + 1] < 128)
        BY <1>4, <2>2, <2>5
      <4>2. e = p + 1 + (w[p + 1] % 128)
        BY <2>2
      <4> HIDE DEF e
      <4> QED
        BY <4>1, <4>2 DEF LengthAt
    <3> HIDE DEF e
    <3>3. CASE e > n
      BY <1>2, <3>2, <3>3
    <3>4. CASE e <= n
      <4>1. SubSeq(w, p + 1 + 1, e) \in Seq(Byte)
        BY <3>1, <3>4, PartIsBytes
      <4>2. Unsigned(SubSeq(w, p + 2, e)) \in Nat
        <5>1. p + 1 + 1 = p + 2
          OBVIOUS
        <5> QED
          BY <4>1, <5>1, UnsignedIsNat
      <4>3. e \in p + 1 .. n
        BY <3>1, <3>4
      <4>4. LengthAt(w, p) = Number(Unsigned(SubSeq(w, p + 2, e)), e)
        BY <3>1, <3>2, <3>4
      <4> QED
        BY <1>1, <1>4, <4>2, <4>3, <4>4
    <3> QED
      BY <3>1, <3>3, <3>4
  <2> QED
    BY <2>3, <2>4, <2>5
<1> QED
  BY <1>3, <1>4

-----------------------------------------------------------------------------
(* The grammar.  The items behind a place are defined by those that start  *)
(* further on, so they are defined: there is one more place for which they *)
(* are, up to the first.  A node, to begin with, is its head and its body. *)
HeadAt(w, p) ==
    LET length == LengthAt(w, TagAt(w, p).end)
    IN  [ok |-> TagAt(w, p).ok /\ length.ok, class |-> w[p + 1] \div 64, tag |-> TagAt(w, p).n,
         length |-> length.n, at |-> length.end, end |-> length.end + length.n]
IsList(w, p) == (w[p + 1] \div 32) % 2 = 1
EndMark(h) == IF h.length = -1 THEN -1 ELSE h.end
PrimitiveAt(w, class, tag, length, p, end) ==
    IF length = -1 \/ end > Len(w) \/ DecodeError(class, tag, SubSeq(w, p + 1, end)) # "none" THEN NotParsed
    ELSE Parsed(PrimitiveValue(class, tag, SubSeq(w, p + 1, end)), end)
BodyOf(w, list, h, items) ==
    IF list THEN items[h.at][EndMark(h)] ELSE PrimitiveAt(w, h.class, h.tag, h.length, h.at, h.end)
NodeOf(class, tag, list, body) ==
    IF ~body.ok THEN NotParsed
    ELSE Parsed(Node(class, tag, IF list THEN "yes" ELSE "no", body.value), body.end)

LEMMA NodeParts ==
    ASSUME NEW w, NEW p, NEW items
    PROVE  NodeAt(w, p, items) =
               IF ~HeadAt(w, p).ok THEN NotParsed
               ELSE NodeOf(HeadAt(w, p).class, HeadAt(w, p).tag, IsList(w, p),
                           BodyOf(w, IsList(w, p), HeadAt(w, p), items))
<1>1. CASE IsList(w, p)
  BY <1>1 DEF NodeAt, HeadAt, IsList, EndMark, BodyOf, NodeOf
<1>2. CASE ~IsList(w, p)
  BY <1>2 DEF NodeAt, HeadAt, IsList, PrimitiveAt, BodyOf, NodeOf
<1> QED
  BY <1>1, <1>2

LEMMA HeadRange ==
    ASSUME NEW w \in Seq(Byte), NEW p \in Nat, NEW n \in Nat, n = Len(w), p <= n
    PROVE  LET h == HeadAt(w, p) IN
           /\ h.ok \in BOOLEAN
           /\ h.ok => p + 1 < n /\ h.at \in p + 2 .. n
           /\ h.length \in {-1} \cup Nat /\ h.end \in Int
           /\ h.length # -1 => h.end >= h.at
           /\ h.length = -1 => MayPeek(w)
<1> DEFINE t == TagAt(w, p)
           l == LengthAt(w, t.end)
<1>1. Ranged(t, p, n)
  BY TagRange
<1>2. PICK q \in Nat : q = t.end /\ q <= n
  BY <1>1 DEF Ranged
<1>3. /\ Ranged(l, q, n)
      /\ l.n \in {-1} \cup Nat
      /\ l.n = -1 => MayPeek(w)
  BY <1>2, LengthRange
<1>4. /\ HeadAt(w, p).ok = (t.ok /\ l.ok) /\ HeadAt(w, p).length = l.n
      /\ HeadAt(w, p).at = l.end /\ HeadAt(w, p).end = l.end + l.n
  BY DEF HeadAt
<1>5. t.ok \in BOOLEAN /\ l.ok \in BOOLEAN /\ l.end \in 0..n
  BY <1>1, <1>3 DEF Ranged
<1>6. t.ok => q \in p + 1 .. n
  BY <1>1, <1>2 DEF Ranged
<1>7. l.ok => q < n /\ l.end \in q + 1 .. n
  BY <1>3 DEF Ranged
<1> HIDE DEF t, l
<1>8. PICK m \in {-1} \cup Nat, e \in 0..n : m = l.n /\ e = l.end
  BY <1>3, <1>5
<1>9. t.ok /\ l.ok => p + 1 < n /\ e \in p + 2 .. n
  BY <1>6, <1>7, <1>8
<1>10. e + m \in Int /\ (m # -1 => e + m >= e)
  OBVIOUS
<1> QED
  BY <1>3, <1>4, <1>5, <1>8, <1>9, <1>10

(* A list of items, read from p on.                                        *)
Listed(x, p, n) ==
    /\ x.ok \in BOOLEAN
    /\ x.ok => x.end \in p .. n /\ IsSeq(x.value.items) /\ x.value = ListV(x.value.items)

LEMMA NodeRange ==
    ASSUME NEW w \in Seq(Byte), NEW p \in Nat, NEW n \in Nat, n = Len(w), p <= n, NEW items,
           \A q \in p + 1 .. n : \A e \in Int : Listed(items[q][e], q, n)
    PROVE  Ranged(NodeAt(w, p, items), p, n)
<1> DEFINE h == HeadAt(w, p)
           body == BodyOf(w, IsList(w, p), h, items)
<1>1. Ranged(NotParsed, p, n)
  BY DEF Ranged, NotParsed
<1>2. CASE ~h.ok
  BY <1>1, <1>2, NodeParts
<1>3. CASE h.ok
  <2>1. /\ p + 1 < n /\ h.at \in p + 2 .. n
        /\ h.length \in {-1} \cup Nat /\ h.end \in Int
        /\ h.length # -1 => h.end >= h.at
    BY <1>3, HeadRange
  <2>2. NodeAt(w, p, items) = NodeOf(h.class, h.tag, IsList(w, p), body)
    BY <1>3, NodeParts
  <2>3. body.ok \in BOOLEAN /\ (body.ok => body.end \in p + 1 .. n)
    <3>1. CASE IsList(w, p)
      <4>1. body = items[h.at][EndMark(h)]
        BY <3>1 DEF BodyOf
      <4>2. h.at \in p + 1 .. n /\ EndMark(h) \in Int
        BY <2>1 DEF EndMark
      <4>3. Listed(body, h.at, n)
        BY <4>1, <4>2
      <4> QED
        BY <4>2, <4>3 DEF Listed
    <3>2. CASE ~IsList(w, p)
      <4>1. body = PrimitiveAt(w, h.class, h.tag, h.length, h.at, h.end)
        BY <3>2 DEF BodyOf
      <4>2. body = NotParsed \/ (h.length # -1 /\ ~(h.end > n) /\ body.ok = TRUE /\ body.end = h.end)
        BY <4>1 DEF PrimitiveAt, Parsed
      <4>3. CASE body = NotParsed
        BY <4>3 DEF NotParsed
      <4>4. CASE h.length # -1 /\ ~(h.end > n) /\ body.ok = TRUE /\ body.end = h.end
        <5>1. PICK a \in p + 2 .. n, e \in Int : a = h.at /\ e = h.end
          BY <2>1
        <5>2. e >= a /\ e <= n
          BY <2>1, <4>4, <5>1
        <5>3. e \in p + 1 .. n
          BY <5>2
        <5> QED
          BY <4>4, <5>1, <5>3
      <4> QED
        BY <4>2, <4>3, <4>4
    <3> QED
      BY <3>1, <3>2
  <2> HIDE DEF h, body
  <2>4. CASE ~body.ok
    BY <1>1, <2>2, <2>4 DEF NodeOf
  <2>5. CASE body.ok
    <3>1. NodeAt(w, p, items).ok = TRUE /\ NodeAt(w, p, items).end = body.end
      BY <2>2, <2>5 DEF NodeOf, Parsed
    <3>2. PICK e \in p + 1 .. n : e = body.end
      BY <2>3, <2>5
    <3>3. p < n /\ e \in 0 .. n
      BY <2>1, <3>2
    <3> QED
      BY <3>1, <3>2, <3>3 DEF Ranged
  <2> QED
    BY <2>3, <2>4, <2>5
<1> QED
  BY <1>2, <1>3

LEMMA NodeLocal ==
    ASSUME NEW w \in Seq(Byte), NEW p \in Nat, NEW n \in Nat, n = Len(w), p <= n, NEW items, NEW others,
           \A q \in p + 1 .. n : \A e \in Int : items[q][e] = others[q][e]
    PROVE  NodeAt(w, p, items) = NodeAt(w, p, others)
<1> DEFINE h == HeadAt(w, p)
<1>1. CASE ~h.ok
  BY <1>1, NodeParts
<1>2. CASE h.ok
  <2>1. p + 1 < n /\ h.at \in p + 2 .. n /\ h.length \in {-1} \cup Nat /\ h.end \in Int
    BY <1>2, HeadRange
  <2>2. h.at \in p + 1 .. n /\ EndMark(h) \in Int
    BY <2>1 DEF EndMark
  <2>3. BodyOf(w, IsList(w, p), h, items) = BodyOf(w, IsList(w, p), h, others)
    BY <2>2 DEF BodyOf
  <2> QED
    BY <1>2, <2>3, NodeParts
<1> QED
  BY <1>1, <1>2

LEMMA ItemsAfter ==
    ASSUME NEW x, NEW s, IsSeq(s)
    PROVE  IsSeq(<<x>> \o s)
<1>1. PICK S : s \in Seq(S) /\ {x} \subseteq S
  BY IsSeqElim
<1>2. <<x>> \o s \in Seq(S)
  BY <1>1
<1> QED
  BY <1>2, SeqIsSeq

LEMMA ItemsRange ==
    ASSUME NEW w \in Seq(Byte), NEW p \in Nat, NEW n \in Nat, n = Len(w), p <= n, NEW items, NEW end \in Int,
           \A q \in p + 1 .. n : \A e \in Int : Listed(items[q][e], q, n)
    PROVE  Listed(ItemsAt(w, p, end, items), p, n)
<1> DEFINE x == ItemsAt(w, p, end, items)
           first == NodeAt(w, p, items)
           rest == items[first.end][end]
<1>1. IsSeq(<<>>)
  BY DEF IsSeq
<1>2. \A e \in p .. n : Listed(Parsed(ListV(<<>>), e), p, n)
  BY <1>1 DEF Listed, Parsed, ListV, Value
<1>3. Listed(NotParsed, p, n)
  BY DEF Listed, NotParsed
<1>4. CASE p = end
  BY <1>2, <1>4 DEF ItemsAt
<1>5. CASE p # end /\ end = -1 /\ MarkAt(w, p)
  <2>1. x = Parsed(ListV(<<>>), p + 2)
    BY <1>5 DEF ItemsAt
  <2>2. p + 2 \in p .. n
    BY <1>5 DEF MarkAt
  <2> QED
    BY <1>2, <2>1, <2>2
<1>6. CASE p # end /\ ~(end = -1 /\ MarkAt(w, p))
  <2>1. x = IF ~first.ok \/ (end >= 0 /\ first.end > end) \/ ~rest.ok THEN NotParsed
            ELSE Parsed(ListV(<<first.value>> \o rest.value.items), rest.end)
    BY <1>6 DEF ItemsAt
  <2>2. Ranged(first, p, n)
    BY NodeRange
  <2> HIDE DEF x, first, rest
  <2>3. CASE ~first.ok \/ ~rest.ok \/ (end >= 0 /\ first.end > end)
    BY <1>3, <2>1, <2>3 DEF x
  <2>4. CASE first.ok /\ rest.ok /\ ~(end >= 0 /\ first.end > end)
    <3>1. x = Parsed(ListV(<<first.value>> \o rest.value.items), rest.end)
      BY <2>1, <2>4
    <3>2. PICK q \in p + 1 .. n : q = first.end
      BY <2>2, <2>4 DEF Ranged
    <3>3. Listed(rest, q, n)
      BY <3>2 DEF rest
    <3>4. rest.end \in q .. n /\ IsSeq(rest.value.items)
      BY <2>4, <3>3 DEF Listed
    <3>5. rest.end \in p .. n
      BY <3>2, <3>4
    <3>6. IsSeq(<<first.value>> \o rest.value.items)
      BY <3>4, ItemsAfter
    <3>7. Listed(x, p, n)
      BY <3>1, <3>5, <3>6 DEF Listed, Parsed, ListV, Value
    <3> QED
      BY <3>7 DEF x
  <2> QED
    BY <2>3, <2>4
<1> QED
  BY <1>4, <1>5, <1>6

LEMMA ItemsLocal ==
    ASSUME NEW w \in Seq(Byte), NEW p \in Nat, NEW n \in Nat, n = Len(w), p <= n, NEW items, NEW others, NEW end \in Int,
           \A q \in p + 1 .. n : \A e \in Int : Listed(items[q][e], q, n) /\ items[q][e] = others[q][e]
    PROVE  ItemsAt(w, p, end, items) = ItemsAt(w, p, end, others)
<1> DEFINE first == NodeAt(w, p, items)
<1>1. first = NodeAt(w, p, others)
  BY NodeLocal
<1>2. Ranged(first, p, n)
  BY NodeRange
<1>3. CASE ~first.ok
  BY <1>1, <1>3 DEF ItemsAt
<1>4. CASE first.ok
  <2>1. first.end \in p + 1 .. n
    BY <1>2, <1>4 DEF Ranged
  <2>2. items[first.end][end] = others[first.end][end]
    BY <2>1
  <2> QED
    BY <1>1, <2>2 DEF ItemsAt
<1> QED
  BY <1>3, <1>4

(* items reads the grammar from lo on.                                     *)
Reads(items, w, lo) == \A p \in lo .. Len(w) : \A end \in Int : items[p][end] = ItemsAt(w, p, end, items)

LEMMA ReadRange ==
    ASSUME NEW w \in Seq(Byte), NEW n \in Nat, n = Len(w), NEW lo \in Nat, NEW items, Reads(items, w, lo)
    PROVE  \A p \in lo .. n : \A end \in Int : Listed(items[p][end], p, n)
<1> DEFINE Fits(p) == \A end \in Int : Listed(items[p][end], p, n)
           Bad == {k \in 0 .. n : n - k >= lo /\ ~Fits(n - k)}
<1>1. CASE Bad = {}
  <2> SUFFICES ASSUME NEW p \in lo .. n PROVE Fits(p)
    OBVIOUS
  <2>1. n - p \in 0 .. n /\ n - (n - p) = p
    OBVIOUS
  <2> HIDE DEF Fits
  <2>2. n - p \notin Bad
    BY <1>1
  <2> QED
    BY <2>1, <2>2
<1>2. CASE Bad # {}
  <2>1. PICK m \in Bad : \A k \in Bad : m <= k
    <3>1. Bad \subseteq Nat
      OBVIOUS
    <3> HIDE DEF Bad
    <3> QED
      BY <1>2, <3>1, Least
  <2>2. PICK p \in Nat : p = n - m /\ p <= n /\ p >= lo
    OBVIOUS
  <2>3. ~Fits(p)
    <3> HIDE DEF Fits
    <3> QED
      BY <2>2
  <2>4. ASSUME NEW q \in p + 1 .. n PROVE Fits(q)
    <3>1. n - q \in 0 .. n /\ n - q < m /\ n - (n - q) = q /\ q >= lo
      BY <2>2
    <3> HIDE DEF Fits
    <3>2. n - q \notin Bad
      BY <2>1, <3>1
    <3> QED
      BY <3>1, <3>2
  <2>5. ASSUME NEW end \in Int PROVE Listed(items[p][end], p, n)
    <3>1. items[p][end] = ItemsAt(w, p, end, items)
      BY <2>2 DEF Reads
    <3> QED
      BY <2>2, <2>4, <3>1, ItemsRange
  <2> QED
    BY <2>3, <2>5
<1> QED
  BY <1>1, <1>2

(* items is the grammar of the last k places.                              *)
Reading(items, w, k) ==
    items = [p \in Len(w) - k + 1 .. Len(w) |-> [end \in Int |-> ItemsAt(w, p, end, items)]]

LEMMA ReadingReads ==
    ASSUME NEW w \in Seq(Byte), NEW k \in 0 .. Len(w) + 1, NEW items, Reading(items, w, k)
    PROVE  Reads(items, w, Len(w) - k + 1)
<1> SUFFICES ASSUME NEW p \in Len(w) - k + 1 .. Len(w), NEW end \in Int
             PROVE  items[p][end] = ItemsAt(w, p, end, items)
  BY DEF Reads
<1> DEFINE F(q) == [e \in Int |-> ItemsAt(w, q, e, items)]
<1>1. items = [q \in Len(w) - k + 1 .. Len(w) |-> F(q)]
  BY DEF Reading
<1>2. items[p] = F(p)
  <2> HIDE DEF F
  <2> QED
    BY <1>1
<1> QED
  BY <1>2

LEMMA ReadingGrows ==
    ASSUME NEW w \in Seq(Byte), NEW n \in Nat, n = Len(w), NEW k \in 0 .. n, NEW items, Reading(items, w, k)
    PROVE  \E others : Reading(others, w, k + 1)
<1> DEFINE p0 == n - k
           F(q) == [e \in Int |-> ItemsAt(w, q, e, items)]
           others == [q \in p0 .. n |-> IF q = p0 THEN F(p0) ELSE items[q]]
           G(q) == [e \in Int |-> ItemsAt(w, q, e, others)]
<1>1. p0 \in Nat /\ p0 <= n /\ n - k + 1 = p0 + 1 /\ n - (k + 1) + 1 = p0
  OBVIOUS
<1>2. Reads(items, w, p0 + 1)
  BY <1>1, ReadingReads
<1>3. \A q \in p0 + 1 .. n : \A e \in Int : Listed(items[q][e], q, n)
  BY <1>1, <1>2, ReadRange
<1>4. \A q \in p0 + 1 .. n : others[q] = items[q]
  BY <1>1
<1>5. ASSUME NEW q \in p0 .. n, NEW e \in Int
      PROVE  ItemsAt(w, q, e, items) = ItemsAt(w, q, e, others)
  <2>1. \A r \in q + 1 .. n : r \in p0 + 1 .. n
    BY <1>1
  <2>2. \A r \in q + 1 .. n : \A f \in Int : Listed(items[r][f], r, n) /\ items[r][f] = others[r][f]
    BY <1>3, <1>4, <2>1
  <2>3. q \in Nat /\ q <= n
    BY <1>1
  <2> HIDE DEF others, p0
  <2> QED
    BY <2>2, <2>3, ItemsLocal
<1>6. ASSUME NEW q \in p0 .. n PROVE others[q] = G(q)
  <2>1. F(q) = G(q)
    BY <1>5
  <2>2. CASE q = p0
    BY <2>1, <2>2
  <2>3. CASE q # p0
    <3>1. q \in p0 + 1 .. n
      BY <1>1, <2>3
    <3>2. items = [r \in p0 + 1 .. n |-> F(r)]
      BY <1>1 DEF Reading
    <3>3. items[q] = F(q)
      <4> HIDE DEF F
      <4> QED
        BY <3>1, <3>2
    <3>4. others[q] = items[q]
      BY <1>4, <3>1
    <3> QED
      BY <2>1, <3>3, <3>4
  <2> QED
    BY <2>2, <2>3
<1>7. others = [q \in p0 .. n |-> G(q)]
  <2>1. others = [q \in p0 .. n |-> others[q]]
    OBVIOUS
  <2> HIDE DEF others, G
  <2> QED
    BY <1>6, <2>1
<1>8. Reading(others, w, k + 1)
  BY <1>1, <1>7 DEF Reading
<1> QED
  BY <1>8

LEMMA ReadingExists == ASSUME NEW w \in Seq(Byte) PROVE \E items : Reading(items, w, Len(w) + 1)
<1> PICK n \in Nat : n = Len(w)
  OBVIOUS
<1> DEFINE Bad == {k \in 0 .. n + 1 : ~ \E items : Reading(items, w, k)}
<1> SUFFICES ASSUME Bad # {} PROVE FALSE
  OBVIOUS
<1>1. PICK m \in Bad : \A k \in Bad : m <= k
  <2>1. Bad \subseteq Nat
    OBVIOUS
  <2> HIDE DEF Bad
  <2> QED
    BY <2>1, Least
<1>2. CASE m = 0
  <2> DEFINE items == [p \in n + 1 .. n |-> 0]
  <2>1. items = [p \in n - 0 + 1 .. n |-> [end \in Int |-> ItemsAt(w, p, end, items)]]
    <3>1. n - 0 + 1 .. n = {} /\ n + 1 .. n = {}
      OBVIOUS
    <3> QED
      BY <3>1
  <2> HIDE DEF items
  <2>2. Reading(items, w, 0)
    BY <2>1 DEF Reading
  <2> QED
    BY <1>2, <2>2
<1>3. CASE m # 0
  <2>1. m - 1 \in 0 .. n /\ m - 1 \notin Bad /\ m - 1 + 1 = m
    BY <1>1, <1>3
  <2>2. PICK items : Reading(items, w, m - 1)
    BY <2>1
  <2>3. \E others : Reading(others, w, m)
    BY <2>1, <2>2, ReadingGrows
  <2> QED
    BY <2>3
<1> QED
  BY <1>2, <1>3

(* The grammar reads every place.                                          *)
LEMMA GrammarReads == ASSUME NEW w \in Seq(Byte) PROVE Reads(Grammar(w), w, 0)
<1> DEFINE items[p \in 0 .. Len(w)] == [end \in Int |-> ItemsAt(w, p, end, items)]
<1>1. Len(w) \in Nat /\ Len(w) - (Len(w) + 1) + 1 = 0
  OBVIOUS
<1>2. \E R : R = [p \in 0 .. Len(w) |-> [end \in Int |-> ItemsAt(w, p, end, R)]]
  BY <1>1, ReadingExists DEF Reading
<1>3. items = [p \in 0 .. Len(w) |-> [end \in Int |-> ItemsAt(w, p, end, items)]]
  BY <1>2
<1>4. Grammar(w) = items
  BY DEF Grammar
<1> HIDE DEF items
<1>5. Reading(items, w, Len(w) + 1)
  BY <1>1, <1>3 DEF Reading
<1>6. Reads(items, w, Len(w) - (Len(w) + 1) + 1)
  BY <1>1, <1>5, ReadingReads
<1> QED
  BY <1>1, <1>4, <1>6

-----------------------------------------------------------------------------
(* The inductive invariant behind TypeOK.  A call of encode is for a node  *)
(* somewhere in the one given, a call of decode waits for an item unless   *)
(* it is the last, and a primitive node ends no earlier than its body      *)
(* starts.                                                                 *)
EncodeFields == {"node", "buf", "inner", "i"}
DecodeFields == {"at", "start", "class", "tag", "constructed", "length", "end", "items", "kids", "value"}

IsEncode(C) ==
    /\ DOMAIN C = EncodeFields
    /\ Sound(C.node) /\ C.buf \in Seq(Byte) /\ C.i \in Nat /\ C.i >= 1

IsDecode(C, w) ==
    /\ DOMAIN C = DecodeFields
    /\ C.at \in {"head", "value", "return"} /\ C.start \in Nat
    /\ C.constructed \in BOOLEAN /\ IsSeq(C.items)
    /\ C.length \in {-1} \cup Nat /\ C.end \in Int
    /\ C.length # -1 => C.end >= 0
    /\ C.length = -1 => MayPeek(w)

Errors == {"EOFError", "ValueError", "TypeError", "UnicodeDecodeError", "UnicodeEncodeError"}

Given == node \in Nodes \cup {NoNode} /\ stream \in Streams /\ inspect \in Inspects
Bytes == out \in Seq(Byte) /\ wire \in Seq(Byte) /\ pos \in 0 .. Len(wire)

EncodeCalls ==
    /\ IsSeq(encoding)
    /\ \A i \in 1..Len(encoding) : IsEncode(encoding[i])
    /\ encoding # <<>> => out = <<>> /\ wire = <<>>

DecodeCalls ==
    /\ IsSeq(decoding)
    /\ \A i \in 1..Len(decoding) : IsDecode(decoding[i], wire) /\ decoding[i].start <= pos
    /\ \A i \in 1..(Len(decoding) - 1) : decoding[i].at = "value" /\ decoding[i].constructed

BodyAhead ==
    Decoding("value") /\ ~Decoder.constructed /\ Decoder.length # -1 => Decoder.end >= pos

Turns ==
    /\ outcome \in {"none", "encoded", "ok"} \cup Errors
    /\ outcome = "none" => (encoding = <<>>) # (decoding = <<>>)
    /\ outcome = "encoded" => encoding = <<>> /\ decoding = <<>> /\ wire = <<>>
    /\ decoding # <<>> => encoding = <<>>

Typed == Given /\ Bytes /\ EncodeCalls /\ DecodeCalls /\ BodyAhead /\ Turns

LEMMA TypedGivesTypeOK == ASSUME Typed PROVE TypeOK
<1>1. ASSUME NEW c \in Range(encoding) PROVE c.buf \in Seq(0..255) /\ c.i >= 1
  <2>1. PICK i \in DOMAIN encoding : c = encoding[i]
    BY DEF Range
  <2>2. i \in 1..Len(encoding)
    BY DEF Typed, EncodeCalls, IsSeq
  <2>3. IsEncode(encoding[i])
    BY <2>2 DEF Typed, EncodeCalls
  <2> QED
    BY <2>1, <2>3 DEF IsEncode, Byte
<1>2. ASSUME NEW c \in Range(decoding) PROVE c.at \in {"head", "value", "return"} /\ c.start \in 0 .. pos
  <2>1. PICK i \in DOMAIN decoding : c = decoding[i]
    BY DEF Range
  <2>2. i \in 1..Len(decoding)
    BY DEF Typed, DecodeCalls, IsSeq
  <2>3. IsDecode(c, wire) /\ c.start <= pos
    BY <2>1, <2>2 DEF Typed, DecodeCalls
  <2>4. pos \in Int
    BY DEF Typed, Bytes
  <2> QED
    BY <2>3, <2>4 DEF IsDecode
<1> QED
  BY <1>1, <1>2 DEF Typed, Given, Bytes, Turns, TypeOK, Byte, Errors

LEMMA EncodeErrors ==
    ASSUME NEW N
    PROVE  EncodeError(N) \in {"none", "TypeError", "ValueError", "UnicodeEncodeError"}
<1>1. CASE IsConstructed(N)
  BY <1>1 DEF EncodeError
<1>2. CASE ~IsConstructed(N) /\ N.class # Universal
  BY <1>2 DEF EncodeError
<1>3. CASE ~IsConstructed(N) /\ N.class = Universal
  BY <1>3 DEF EncodeError
<1> QED
  BY <1>1, <1>2, <1>3

LEMMA DecodeErrors ==
    ASSUME NEW class, NEW tag, NEW data
    PROVE  DecodeError(class, tag, data) \in {"none", "ValueError", "EOFError", "UnicodeDecodeError"}
  BY DEF DecodeError

LEMMA NothingRead == ASSUME NEW w, w = <<>>, NEW items PROVE NodeAt(w, 0, items) = NotParsed
  BY DEF NodeAt, TagAt, NoNumber

LEMMA InitTyped == ASSUME NodesSound, Init PROVE Typed
<1>1. Given /\ out = <<>> /\ pos = 0 /\ outcome = "none"
  BY DEF Init, Given
<1>2. out \in Seq(Byte)
  BY <1>1
<1>3. CASE node \in Nodes /\ wire = <<>> /\ encoding = <<NewEncode(node)>> /\ decoding = <<>>
  <2>1. IsSeq(encoding) /\ Len(encoding) = 1 /\ encoding[1] = NewEncode(node) /\ encoding # <<>>
    BY <1>3 DEF IsSeq
  <2>2. IsEncode(NewEncode(node))
    BY <1>3 DEF NodesSound, NewEncode, IsEncode, EncodeFields
  <2>3. IsSeq(decoding) /\ Len(decoding) = 0
    BY <1>3 DEF IsSeq
  <2>4. wire \in Seq(Byte) /\ Len(wire) = 0
    BY <1>3
  <2> QED
    BY <1>1, <1>2, <1>3, <2>1, <2>2, <2>3, <2>4
    DEF Typed, Bytes, EncodeCalls, DecodeCalls, BodyAhead, Decoding, Turns
<1>4. CASE node = NoNode /\ wire \in Wires /\ encoding = <<>> /\ decoding = <<NewDecode(0)>>
  <2>1. IsSeq(decoding) /\ Len(decoding) = 1 /\ decoding[1] = NewDecode(0) /\ decoding # <<>>
    BY <1>4 DEF IsSeq
  <2>2. IsDecode(NewDecode(0), wire) /\ NewDecode(0).start = 0 /\ NewDecode(0).at = "head"
    <3>1. IsSeq(<<>>)
      BY DEF IsSeq
    <3> QED
      BY <3>1 DEF NewDecode, IsDecode, DecodeFields
  <2>3. IsSeq(encoding) /\ Len(encoding) = 0
    BY <1>4 DEF IsSeq
  <2>4. wire \in Seq(Byte)
    BY <1>4, Asn1Assumption DEF Byte
  <2>5. ~Decoding("value")
    BY <2>1, <2>2 DEF Decoding, Last
  <2> QED
    BY <1>1, <1>2, <1>4, <2>1, <2>2, <2>3, <2>4, <2>5
    DEF Typed, Bytes, EncodeCalls, DecodeCalls, BodyAhead, Turns
<1> QED
  BY <1>3, <1>4 DEF Init

-----------------------------------------------------------------------------
(* The steps of encode.                                                    *)
LEMMA EncoderTop ==
    ASSUME Typed, Encoding
    PROVE  /\ Len(encoding) \in Nat /\ Len(encoding) >= 1 /\ IsSeq(encoding)
           /\ Encoder = encoding[Len(encoding)] /\ IsEncode(Encoder)
           /\ outcome = "none" /\ decoding = <<>> /\ out = <<>> /\ wire = <<>>
<1>1. encoding # <<>> /\ outcome = "none" /\ IsSeq(encoding)
  BY DEF Encoding, Typed, EncodeCalls
<1>2. Len(encoding) \in Nat /\ Len(encoding) # 0
  BY <1>1, EmptyOrTop DEF IsSeq
<1>3. Len(encoding) \in 1..Len(encoding)
  BY <1>2
<1>4. IsEncode(encoding[Len(encoding)])
  BY <1>3 DEF Typed, EncodeCalls
<1> QED
  BY <1>1, <1>2, <1>4 DEF Typed, EncodeCalls, Turns, Encoder, Last

LEMMA EncodeRefusedTyped == ASSUME Typed, EncodeRefused PROVE Typed'
<1>1. /\ outcome' \in Errors /\ outcome' = EncodeError(Encoder.node)
      /\ UNCHANGED <<node, stream, inspect, encoding, out, encTree, wire, pos, decoding, val, tree>>
  BY EncodeErrors DEF EncodeRefused, Raise, given, encoder, decoder, Errors
<1>2. Given' /\ Bytes' /\ EncodeCalls' /\ DecodeCalls'
  BY <1>1 DEF Typed, Given, Bytes, EncodeCalls, DecodeCalls
<1>3. BodyAhead'
  BY <1>1 DEF BodyAhead, Decoding, Errors
<1>4. Turns'
  BY <1>1 DEF Typed, Turns, Errors
<1> QED
  BY <1>2, <1>3, <1>4 DEF Typed

LEMMA EncodeItemTyped == ASSUME Typed, EncodeItem PROVE Typed'
<1>1. /\ Encoding /\ Encoder.i <= Len(Encoder.node.value.items)
      /\ encoding' = Append(encoding, NewEncode(Encoder.node.value.items[Encoder.i]))
      /\ UNCHANGED <<node, stream, inspect, out, encTree, wire, pos, decoding, val, tree, outcome>>
  BY DEF EncodeItem, given, decoder
<1> DEFINE C == NewEncode(Encoder.node.value.items[Encoder.i])
<1>2. /\ IsSeq(encoding) /\ Len(encoding) \in Nat /\ IsEncode(Encoder)
      /\ outcome = "none" /\ decoding = <<>> /\ out = <<>> /\ wire = <<>>
  BY <1>1, EncoderTop
<1>3. IsEncode(C)
  <2>1. /\ IsSeq(Encoder.node.value.items)
        /\ \A i \in 1..Len(Encoder.node.value.items) : Sound(Encoder.node.value.items[i])
    BY <1>2, SoundParts DEF IsEncode
  <2>2. Encoder.i \in 1..Len(Encoder.node.value.items)
    BY <1>1, <1>2, <2>1 DEF IsEncode, IsSeq
  <2> QED
    BY <2>1, <2>2 DEF IsEncode, NewEncode, EncodeFields
<1> HIDE DEF C
<1>4. /\ IsSeq(encoding') /\ Len(encoding') = Len(encoding) + 1
      /\ encoding'[Len(encoding) + 1] = C
      /\ \A i \in 1..Len(encoding) : encoding'[i] = encoding[i]
  BY <1>1, <1>2, Pushed DEF C
<1>5. ASSUME NEW i \in 1..Len(encoding') PROVE IsEncode(encoding'[i])
  <2>1. i = Len(encoding) + 1 \/ i \in 1..Len(encoding)
    BY <1>2, <1>4
  <2> QED
    BY <1>3, <1>4, <2>1 DEF Typed, EncodeCalls
<1>6. encoding' # <<>>
  BY <1>2, <1>4, EmptyOrTop
<1>7. EncodeCalls'
  BY <1>1, <1>2, <1>4, <1>5 DEF EncodeCalls
<1>8. Given' /\ Bytes' /\ DecodeCalls' /\ BodyAhead'
  BY <1>1 DEF Typed, Given, Bytes, DecodeCalls, BodyAhead, Decoding, Decoder
<1>9. Turns'
  BY <1>1, <1>2, <1>6 DEF Typed, Turns
<1> QED
  BY <1>7, <1>8, <1>9 DEF Typed

LEMMA EncodeNodeTyped == ASSUME Typed, EncodeNode PROVE Typed'
<1> DEFINE N == Encoder.node
           body == IF IsConstructed(N) THEN Encoder.buf ELSE PrimitiveOctets(N)
           tag == TagOctets(N.class, N.tag, IsConstructed(N))
           length == LengthOctets(Len(body))
           written == Enclosing \o tag \o length \o body
           rest == Front(encoding)
           n == Len(encoding)
<1>1. /\ Encoding /\ EncodeError(N) = "none"
      /\ UNCHANGED <<node, stream, inspect, wire, pos, decoding, val, tree>>
  BY DEF EncodeNode, given, decoder
<1>2. /\ n \in Nat /\ n >= 1 /\ IsSeq(encoding)
      /\ Encoder = encoding[n] /\ IsEncode(Encoder)
      /\ outcome = "none" /\ decoding = <<>> /\ out = <<>> /\ wire = <<>>
  BY <1>1, EncoderTop
<1>3. body \in Seq(Byte)
  <2>1. CASE IsConstructed(N)
    BY <1>2, <2>1 DEF IsEncode
  <2>2. CASE ~IsConstructed(N)
    <3>1. IsMade(N)
      BY <1>2, SoundParts DEF IsEncode
    <3> QED
      BY <1>1, <2>2, <3>1, PrimitiveOctetsAreOctets
  <2> QED
    BY <2>1, <2>2
<1>4. tag \in Seq(Byte) /\ length \in Seq(Byte)
  <2>1. N.class \in 0..3 /\ N.tag \in Int
    BY <1>2, SoundParts DEF IsEncode, IsMade
  <2>2. IsConstructed(N) \in BOOLEAN
    BY DEF IsConstructed
  <2>3. tag \in Seq(Byte)
    BY <2>1, <2>2, TagOctetsAreOctets
  <2>4. Len(body) \in Nat
    BY <1>3
  <2>5. length \in Seq(Byte)
    BY <2>4, LengthOctetsAreOctets
  <2> QED
    BY <2>3, <2>5
<1>5. Enclosing \in Seq(Byte)
  <2>1. CASE n = 1
    BY <1>2, <2>1 DEF Enclosing
  <2>2. CASE n # 1
    <3>1. n - 1 \in 1..n
      BY <1>2, <2>2
    <3>2. IsEncode(encoding[n - 1])
      BY <3>1 DEF Typed, EncodeCalls
    <3> QED
      BY <2>2, <3>2 DEF Enclosing, IsEncode
  <2> QED
    BY <2>1, <2>2
<1>6. written \in Seq(Byte)
  <2> HIDE DEF body, tag, length
  <2> QED
    BY <1>3, <1>4, <1>5
<1>7. IsSeq(rest) /\ Len(rest) = n - 1 /\ \A i \in 1..(n - 1) : rest[i] = encoding[i]
  BY <1>2, Popped
<1>8. (rest = <<>>) <=> (n = 1)
  BY <1>2, <1>7, EmptyOrTop
<1>9. Given' /\ DecodeCalls'
  BY <1>1 DEF Typed, Given, DecodeCalls
<1>10. CASE n = 1
  <2>1. out' = written /\ encoding' = <<>> /\ outcome' = "encoded"
    BY <1>8, <1>10 DEF EncodeNode
  <2> HIDE DEF written
  <2>2. IsSeq(encoding') /\ Len(encoding') = 0
    BY <2>1 DEF IsSeq
  <2>3. EncodeCalls'
    BY <2>1, <2>2 DEF EncodeCalls
  <2>4. Bytes' /\ BodyAhead' /\ Turns'
    BY <1>1, <1>2, <1>6, <2>1 DEF Typed, Bytes, BodyAhead, Decoding, Turns
  <2> QED
    BY <1>9, <2>3, <2>4 DEF Typed
<1>11. CASE n # 1
  <2> DEFINE caller == Last(rest)
  <2>1. \E x : encoding' = [rest EXCEPT ![Len(rest)] = [caller EXCEPT !.buf = written, !.i = @ + 1, !.inner = x]]
    BY <1>8, <1>11 DEF EncodeNode
  <2>2. UNCHANGED <<out, encTree, outcome>>
    BY <1>8, <1>11 DEF EncodeNode
  <2>3. PICK x : encoding' = [rest EXCEPT ![Len(rest)] = [caller EXCEPT !.buf = written, !.i = @ + 1, !.inner = x]]
    BY <2>1
  <2> DEFINE C == [caller EXCEPT !.buf = written, !.i = @ + 1, !.inner = x]
  <2>4. IsEncode(caller)
    <3>1. n - 1 \in 1..n /\ n - 1 \in 1..(n - 1)
      BY <1>2, <1>11
    <3>2. caller = encoding[n - 1]
      BY <1>7, <3>1 DEF Last
    <3> QED
      BY <3>1, <3>2 DEF Typed, EncodeCalls
  <2> HIDE DEF written, caller
  <2>5. IsEncode(C)
    BY <1>6, <2>4 DEF IsEncode, EncodeFields
  <2> HIDE DEF C
  <2>6. /\ IsSeq(encoding') /\ Len(encoding') = n - 1
        /\ \A i \in 1..(n - 1) : encoding'[i] = IF i = n - 1 THEN C ELSE rest[i]
    <3>1. encoding' = [rest EXCEPT ![Len(rest)] = C]
      BY <2>3 DEF C
    <3>2. PICK m \in Nat : m = n - 1
      BY <1>2
    <3> HIDE DEF rest, n
    <3>3. Len(rest) = m /\ DOMAIN rest = 1..m
      BY <1>7, <3>2 DEF IsSeq
    <3>4. encoding' = [i \in 1..m |-> encoding'[i]]
      BY <3>1, <3>3
    <3>5. \A i \in 1..m : encoding'[i] = IF i = m THEN C ELSE rest[i]
      BY <3>1, <3>3
    <3>6. IsSeq(encoding') /\ Len(encoding') = m
      BY <3>4, IsSeqIntro
    <3> QED
      BY <3>2, <3>5, <3>6
  <2>7. ASSUME NEW i \in 1..Len(encoding') PROVE IsEncode(encoding'[i])
    <3>1. i \in 1..(n - 1) /\ i \in 1..n
      BY <1>2, <2>6
    <3> QED
      BY <1>7, <2>5, <2>6, <3>1 DEF Typed, EncodeCalls
  <2>8. encoding' # <<>>
    BY <1>2, <1>11, <2>6, EmptyOrTop
  <2>9. EncodeCalls'
    BY <1>1, <1>2, <2>2, <2>6, <2>7 DEF EncodeCalls
  <2>10. Bytes' /\ BodyAhead' /\ Turns'
    BY <1>1, <1>2, <2>2, <2>8 DEF Typed, Bytes, BodyAhead, Decoding, Turns
  <2> QED
    BY <1>9, <2>9, <2>10 DEF Typed
<1> QED
  BY <1>10, <1>11

-----------------------------------------------------------------------------
(* The steps of decode.  The stack of calls: the running one is changed,   *)
(* calls another or returns.                                               *)
LEMMA DecodeTop ==
    ASSUME Typed, NEW where, Decoding(where)
    PROVE  /\ Len(decoding) \in Nat /\ Len(decoding) >= 1 /\ IsSeq(decoding)
           /\ Decoder = decoding[Len(decoding)] /\ Decoder.at = where
           /\ IsDecode(Decoder, wire) /\ Decoder.start <= pos
           /\ outcome = "none" /\ encoding = <<>>
           /\ wire \in Seq(Byte) /\ pos \in Nat /\ Len(wire) \in Nat /\ pos <= Len(wire)
<1>1. decoding # <<>> /\ outcome = "none" /\ Decoder.at = where /\ IsSeq(decoding)
  BY DEF Decoding, Decoder, Typed, DecodeCalls
<1>2. Len(decoding) \in Nat /\ Len(decoding) # 0
  BY <1>1, EmptyOrTop DEF IsSeq
<1>3. Len(decoding) \in 1..Len(decoding)
  BY <1>2
<1>4. IsDecode(decoding[Len(decoding)], wire) /\ decoding[Len(decoding)].start <= pos
  BY <1>3 DEF Typed, DecodeCalls
<1>5. wire \in Seq(Byte) /\ pos \in 0 .. Len(wire)
  BY DEF Typed, Bytes
<1>6. Len(wire) \in Nat
  BY <1>5, LenProperties
<1> QED
  BY <1>1, <1>2, <1>4, <1>5, <1>6 DEF Typed, Turns, Decoder, Last

LEMMA Replaced ==
    ASSUME Typed, decoding # <<>>, NEW C, decoding' = WithDecoder(C)
    PROVE  /\ Len(decoding) \in Nat /\ Len(decoding) >= 1
           /\ IsSeq(decoding') /\ decoding' # <<>> /\ Len(decoding') = Len(decoding) /\ Last(decoding') = C
           /\ \A i \in 1..(Len(decoding) - 1) : decoding'[i] = decoding[i]
<1>1. IsSeq(decoding)
  BY DEF Typed, DecodeCalls
<1>2. PICK m \in Nat : m = Len(decoding)
  BY <1>1 DEF IsSeq
<1>3. m >= 1 /\ DOMAIN decoding = 1..m
  BY <1>1, <1>2, EmptyOrTop DEF IsSeq
<1>4. decoding' = [decoding EXCEPT ![m] = C]
  BY <1>2 DEF WithDecoder
<1>5. decoding' = [i \in 1..m |-> decoding'[i]]
  BY <1>3, <1>4
<1>6. \A i \in 1..m : decoding'[i] = IF i = m THEN C ELSE decoding[i]
  BY <1>3, <1>4
<1>7. IsSeq(decoding') /\ Len(decoding') = m
  BY <1>5, IsSeqIntro
<1>8. decoding' # <<>>
  BY <1>3, <1>7, EmptyOrTop
<1>9. Last(decoding') = C
  BY <1>3, <1>6, <1>7 DEF Last
<1>10. ASSUME NEW i \in 1..(m - 1) PROVE decoding'[i] = decoding[i]
  BY <1>6
<1> QED
  BY <1>2, <1>3, <1>7, <1>8, <1>9, <1>10

LEMMA DecoderChanged ==
    ASSUME Typed, decoding # <<>>, wire' = wire, pos' \in 0 .. Len(wire), pos <= pos',
           NEW C, IsDecode(C, wire), C.start <= pos', decoding' = WithDecoder(C)
    PROVE  DecodeCalls'
<1>1. /\ IsSeq(decoding') /\ decoding' # <<>> /\ Len(decoding') = Len(decoding) /\ Last(decoding') = C
      /\ \A i \in 1..(Len(decoding) - 1) : decoding'[i] = decoding[i]
  BY Replaced
<1>2. PICK m \in Nat : m = Len(decoding) /\ m >= 1
  BY Replaced
<1>3. pos \in Int /\ pos' \in Int
  BY DEF Typed, Bytes
<1>4. ASSUME NEW i \in 1..m PROVE IsDecode(decoding'[i], wire) /\ decoding'[i].start <= pos'
  <2>1. CASE i = m
    BY <1>1, <1>2, <2>1 DEF Last
  <2>2. CASE i \in 1..(m - 1)
    <3>1. IsDecode(decoding[i], wire) /\ decoding[i].start <= pos
      BY <1>2, <2>2 DEF Typed, DecodeCalls
    <3>2. decoding[i].start <= pos'
      BY <1>3, <3>1 DEF IsDecode
    <3> QED
      BY <1>1, <1>2, <2>2, <3>1, <3>2
  <2>3. i = m \/ i \in 1..(m - 1)
    OBVIOUS
  <2> QED
    BY <2>1, <2>2, <2>3, Zenon
<1>5. ASSUME NEW i \in 1..(m - 1)
      PROVE  decoding'[i] = decoding[i] /\ decoding[i].at = "value" /\ decoding[i].constructed
  BY <1>1, <1>2 DEF Typed, DecodeCalls
<1> QED
  BY <1>1, <1>2, <1>4, <1>5 DEF DecodeCalls

LEMMA Called ==
    ASSUME Typed, decoding # <<>>, NEW C, decoding' = Append(decoding, C)
    PROVE  /\ Len(decoding) \in Nat /\ Len(decoding) >= 1
           /\ IsSeq(decoding') /\ decoding' # <<>> /\ Len(decoding') = Len(decoding) + 1 /\ Last(decoding') = C
           /\ \A i \in 1..Len(decoding) : decoding'[i] = decoding[i]
<1>1. IsSeq(decoding)
  BY DEF Typed, DecodeCalls
<1>2. PICK m \in Nat : m = Len(decoding) /\ m >= 1
  BY <1>1, EmptyOrTop DEF IsSeq
<1>3. /\ IsSeq(decoding') /\ Len(decoding') = m + 1 /\ decoding'[m + 1] = C
      /\ \A i \in 1..m : decoding'[i] = decoding[i]
  BY <1>1, <1>2, Pushed
<1>4. decoding' # <<>>
  BY <1>3, EmptyOrTop
<1>5. Last(decoding') = C
  BY <1>3 DEF Last
<1> QED
  BY <1>2, <1>3, <1>4, <1>5

LEMMA DecoderPushed ==
    ASSUME Typed, decoding # <<>>, wire' = wire, pos' \in 0 .. Len(wire), pos <= pos',
           Decoder.at = "value", Decoder.constructed, decoding' = Append(decoding, NewDecode(pos'))
    PROVE  DecodeCalls'
<1> DEFINE C == NewDecode(pos')
<1>1. IsDecode(C, wire) /\ C.start <= pos'
  <2>1. IsSeq(<<>>)
    BY DEF IsSeq
  <2>2. pos' \in Nat
    BY DEF Typed, Bytes
  <2> QED
    BY <2>1, <2>2 DEF NewDecode, IsDecode, DecodeFields
<1> HIDE DEF C
<1>2. PICK m \in Nat : m = Len(decoding) /\ m >= 1
  BY Called DEF C
<1>3. /\ IsSeq(decoding') /\ Len(decoding') = m + 1 /\ Last(decoding') = C
      /\ \A i \in 1..m : decoding'[i] = decoding[i]
  BY <1>2, Called DEF C
<1>4. pos \in Int /\ pos' \in Int
  BY DEF Typed, Bytes
<1>5. ASSUME NEW i \in 1..(m + 1) PROVE IsDecode(decoding'[i], wire) /\ decoding'[i].start <= pos'
  <2>1. CASE i \in 1..m
    <3>1. IsDecode(decoding[i], wire) /\ decoding[i].start <= pos
      BY <1>2, <2>1 DEF Typed, DecodeCalls
    <3>2. decoding[i].start <= pos'
      BY <1>4, <3>1 DEF IsDecode
    <3> QED
      BY <1>3, <2>1, <3>1, <3>2
  <2>2. CASE i = m + 1
    BY <1>1, <1>3, <2>2 DEF Last
  <2>3. i \in 1..m \/ i = m + 1
    OBVIOUS
  <2> QED
    BY <2>1, <2>2, <2>3, Zenon
<1>6. ASSUME NEW i \in 1..m PROVE decoding'[i].at = "value" /\ decoding'[i].constructed
  <2>1. CASE i \in 1..(m - 1)
    BY <1>2, <1>3, <2>1 DEF Typed, DecodeCalls
  <2>2. CASE i = m
    BY <1>2, <1>3, <2>2 DEF Decoder, Last
  <2>3. i \in 1..(m - 1) \/ i = m
    OBVIOUS
  <2> QED
    BY <2>1, <2>2, <2>3, Zenon
<1> QED
  BY <1>3, <1>5, <1>6 DEF DecodeCalls

(* Inspection adds nodes to a call and changes nothing else in it.         *)
SameCall(C, D) ==
    /\ DOMAIN C = DecodeFields
    /\ C.at = D.at /\ C.start = D.start /\ C.class = D.class /\ C.tag = D.tag
    /\ C.constructed = D.constructed /\ C.length = D.length /\ C.end = D.end
    /\ C.items = D.items /\ C.value = D.value

LEMMA LeafAdded ==
    ASSUME NEW C, DOMAIN C = DecodeFields, NEW start, NEW end
    PROVE  SameCall(WithLeaf(C, start, end), C)
<1>1. CASE inspect
  <2>1. \E k : WithLeaf(C, start, end) = [C EXCEPT !.kids = k]
    BY <1>1 DEF WithLeaf
  <2>2. PICK k : WithLeaf(C, start, end) = [C EXCEPT !.kids = k]
    BY <2>1
  <2> QED
    BY <2>2 DEF SameCall, DecodeFields
<1>2. CASE ~inspect
  BY <1>2 DEF WithLeaf, SameCall
<1> QED
  BY <1>1, <1>2

LEMMA SameIsDecode == ASSUME NEW w, NEW D, IsDecode(D, w), NEW C, SameCall(C, D) PROVE IsDecode(C, w)
  BY DEF IsDecode, SameCall

(* What the step reads is what the grammar says stands there.              *)
LEMMA HeadStep ==
    ASSUME Typed, DecodeHead
    PROVE  LET h == HeadAt(wire, pos) IN
           /\ Decoding("head") /\ UNCHANGED <<node, stream, inspect, encoding, out, encTree, wire, val, tree>>
           /\ ~h.ok => outcome' = "EOFError" /\ pos' = Len(wire) /\ decoding' = decoding
           /\ h.ok => /\ outcome' = outcome /\ pos' = h.at
                      /\ \E C, D : /\ decoding' = WithDecoder(C) /\ SameCall(C, D)
                                   /\ D = [Decoder EXCEPT !.at = "value", !.class = h.class, !.tag = h.tag,
                                                          !.constructed = IsList(wire, pos),
                                                          !.length = h.length, !.end = h.end]
<1> DEFINE h == HeadAt(wire, pos)
           tag == TagAt(wire, pos)
           length == LengthAt(wire, tag.end)
           octet == wire[pos + 1]
           named == [Decoder EXCEPT
                        !.at = "value", !.class = octet \div 64, !.tag = tag.n,
                        !.constructed = (octet \div 32) % 2 = 1,
                        !.length = length.n, !.end = length.end + length.n]
           first == WithLeaf(named, pos, tag.end)
           C == WithLeaf(first, tag.end, length.end)
<1>1. Decoding("head") /\ UNCHANGED <<node, stream, inspect, encoding, out, encTree, wire, val, tree>>
  BY DEF DecodeHead, given, encoder
<1>2. IsDecode(Decoder, wire) /\ Decoder.at = "head"
  BY <1>1, DecodeTop
<1>3. h.ok <=> (tag.ok /\ length.ok)
  BY DEF HeadAt
<1>4. ASSUME ~h.ok PROVE outcome' = "EOFError" /\ pos' = Len(wire) /\ decoding' = decoding
  BY <1>3, <1>4 DEF DecodeHead, RaiseAt
<1>5. ASSUME h.ok PROVE outcome' = outcome /\ pos' = h.at /\ decoding' = WithDecoder(C)
  <2>1. h.at = length.end
    BY DEF HeadAt
  <2>2. pos' = length.end /\ decoding' = WithDecoder(C) /\ outcome' = outcome
    BY <1>3, <1>5 DEF DecodeHead
  <2> QED
    BY <2>1, <2>2
<1>6. named = [Decoder EXCEPT !.at = "value", !.class = h.class, !.tag = h.tag,
                              !.constructed = IsList(wire, pos), !.length = h.length, !.end = h.end]
  BY DEF HeadAt, IsList
<1>7. DOMAIN named = DecodeFields
  BY <1>2 DEF IsDecode, DecodeFields
<1> HIDE DEF named
<1>8. SameCall(first, named)
  BY <1>7, LeafAdded
<1>9. DOMAIN first = DecodeFields
  BY <1>8 DEF SameCall
<1> HIDE DEF first
<1>10. SameCall(C, first)
  BY <1>9, LeafAdded
<1>11. SameCall(C, named)
  BY <1>8, <1>10 DEF SameCall
<1> HIDE DEF C
<1> QED
  BY <1>1, <1>4, <1>5, <1>6, <1>11

LEMMA DecodeHeadTyped == ASSUME Typed, DecodeHead PROVE Typed'
<1> DEFINE h == HeadAt(wire, pos)
<1>1. Decoding("head") /\ UNCHANGED <<node, stream, inspect, encoding, out, encTree, wire, val, tree>>
  BY HeadStep
<1>2. /\ Len(decoding) >= 1 /\ IsDecode(Decoder, wire) /\ Decoder.start <= pos /\ decoding # <<>>
      /\ outcome = "none" /\ encoding = <<>>
      /\ wire \in Seq(Byte) /\ pos \in Nat /\ Len(wire) \in Nat /\ pos <= Len(wire)
  BY <1>1, DecodeTop DEF Decoding
<1>3. PICK n \in Nat : n = Len(wire)
  BY <1>2
<1>4. /\ h.ok => pos + 1 < n /\ h.at \in pos + 2 .. n
      /\ h.length \in {-1} \cup Nat /\ h.end \in Int
      /\ h.length # -1 => h.end >= h.at
      /\ h.length = -1 => MayPeek(wire)
      /\ h.ok \in BOOLEAN
  BY <1>2, <1>3, HeadRange
<1>5. Given' /\ EncodeCalls'
  BY <1>1 DEF Typed, Given, EncodeCalls
<1>6. CASE ~h.ok
  <2>1. outcome' = "EOFError" /\ pos' = Len(wire) /\ decoding' = decoding
    BY <1>6, HeadStep
  <2>2. Bytes'
    BY <1>1, <1>2, <2>1 DEF Typed, Bytes
  <2>3. DecodeCalls'
    <3>1. ASSUME NEW i \in 1..Len(decoding) PROVE decoding[i].start <= Len(wire)
      BY <1>2 DEF Typed, DecodeCalls, IsDecode
    <3> QED
      BY <1>1, <2>1, <3>1 DEF Typed, DecodeCalls
  <2>4. BodyAhead' /\ Turns'
    BY <1>1, <1>2, <2>1 DEF Typed, BodyAhead, Decoding, Turns, Errors
  <2> QED
    BY <1>5, <2>2, <2>3, <2>4 DEF Typed
<1>7. CASE h.ok
  <2>1. /\ outcome' = outcome /\ pos' = h.at
        /\ \E C, D : /\ decoding' = WithDecoder(C) /\ SameCall(C, D)
                     /\ D = [Decoder EXCEPT !.at = "value", !.class = h.class, !.tag = h.tag,
                                            !.constructed = IsList(wire, pos),
                                            !.length = h.length, !.end = h.end]
    BY <1>7, HeadStep
  <2>2. PICK C, D : /\ decoding' = WithDecoder(C) /\ SameCall(C, D)
                    /\ D = [Decoder EXCEPT !.at = "value", !.class = h.class, !.tag = h.tag,
                                           !.constructed = IsList(wire, pos),
                                           !.length = h.length, !.end = h.end]
    BY <2>1
  <2>3. PICK m \in {-1} \cup Nat, e \in Int, a \in pos + 2 .. n : m = h.length /\ e = h.end /\ a = h.at
    BY <1>4, <1>7
  <2>4. (m # -1 => e >= a /\ e >= 0) /\ (m = -1 => MayPeek(wire))
    BY <1>2, <1>4, <2>3
  <2> HIDE DEF h
  <2>5. IsDecode(D, wire) /\ D.start = Decoder.start /\ D.end = e /\ D.length = m /\ D.at = "value"
    <3>1. /\ DOMAIN D = DecodeFields /\ D.at = "value" /\ D.start = Decoder.start
          /\ D.items = Decoder.items /\ D.length = m /\ D.end = e
      BY <1>2, <2>2, <2>3 DEF IsDecode, DecodeFields
    <3>2. D.constructed = IsList(wire, pos)
      BY <1>2, <2>2 DEF IsDecode, DecodeFields
    <3>3. D.constructed \in BOOLEAN
      BY <3>2 DEF IsList
    <3> QED
      BY <1>2, <2>4, <3>1, <3>3 DEF IsDecode
  <2>6. IsDecode(C, wire) /\ C.start <= a /\ C.end = e /\ C.length = m /\ C.at = "value"
    <3>1. IsDecode(C, wire)
      BY <2>2, <2>5, SameIsDecode
    <3>2. Decoder.start <= a
      BY <1>2, <2>3 DEF IsDecode
    <3> QED
      BY <2>2, <2>5, <3>1, <3>2 DEF SameCall
  <2>7. pos' = a /\ a \in 0 .. Len(wire) /\ pos <= a /\ wire' = wire
    BY <1>1, <1>2, <1>3, <2>1, <2>3
  <2>8. DecodeCalls' /\ decoding' # <<>> /\ Last(decoding') = C
    BY <1>2, <2>2, <2>6, <2>7, DecoderChanged, Replaced
  <2>9. Bytes'
    BY <1>1, <1>2, <2>7 DEF Typed, Bytes
  <2>10. BodyAhead'
    BY <2>4, <2>6, <2>7, <2>8 DEF BodyAhead, Decoder
  <2>11. Turns'
    BY <1>1, <1>2, <2>1, <2>8 DEF Typed, Turns
  <2> QED
    BY <1>5, <2>8, <2>9, <2>10, <2>11 DEF Typed
<1> QED
  BY <1>4, <1>6, <1>7

(* A step either raises, or the calls under way are new.                   *)
LEMMA RaisedTyped ==
    ASSUME Typed, decoding # <<>>, outcome' \in Errors, decoding' = decoding,
           pos' \in 0 .. Len(wire), pos <= pos',
           UNCHANGED <<node, stream, inspect, encoding, out, encTree, wire, val, tree>>
    PROVE  Typed'
<1>1. Given' /\ EncodeCalls' /\ Bytes'
  BY DEF Typed, Given, EncodeCalls, Bytes
<1>2. DecodeCalls'
  <2>1. pos \in Int /\ pos' \in Int
    BY DEF Typed, Bytes
  <2>2. ASSUME NEW i \in 1..Len(decoding) PROVE decoding[i].start <= pos'
    BY <2>1 DEF Typed, DecodeCalls, IsDecode
  <2> QED
    BY <2>2 DEF Typed, DecodeCalls
<1>3. BodyAhead' /\ Turns'
  BY DEF Typed, BodyAhead, Decoding, Turns, Errors
<1> QED
  BY <1>1, <1>2, <1>3 DEF Typed

LEMMA WentOnTyped ==
    ASSUME Typed, decoding # <<>>, outcome = "none", outcome' = outcome, decoding' # <<>>, DecodeCalls',
           Last(decoding').at = "value" => Last(decoding').constructed,
           pos' \in 0 .. Len(wire),
           UNCHANGED <<node, stream, inspect, encoding, out, encTree, wire, val, tree>>
    PROVE  Typed'
<1>1. Given' /\ EncodeCalls' /\ Bytes'
  BY DEF Typed, Given, EncodeCalls, Bytes
<1>2. BodyAhead' /\ Turns'
  BY DEF Typed, BodyAhead, Decoding, Decoder, Turns
<1> QED
  BY <1>1, <1>2 DEF Typed

LEMMA PrimitiveStep ==
    ASSUME Typed, DecodePrimitive
    PROVE  LET x == PrimitiveAt(wire, Decoder.class, Decoder.tag, Decoder.length, pos, Decoder.end) IN
           /\ Decoding("value") /\ ~Decoder.constructed
           /\ UNCHANGED <<node, stream, inspect, encoding, out, encTree, wire, val, tree>>
           /\ x.ok \in BOOLEAN
           /\ ~x.ok => outcome' \in Errors /\ decoding' = decoding /\ pos' \in 0 .. Len(wire) /\ pos <= pos'
           /\ x.ok => /\ outcome' = outcome /\ pos' = x.end /\ x.end \in 0 .. Len(wire) /\ pos <= x.end
                      /\ \E C, D : /\ decoding' = WithDecoder(C) /\ SameCall(C, D)
                                   /\ D = [Decoder EXCEPT !.at = "return", !.value = x.value]
<1> DEFINE x == PrimitiveAt(wire, Decoder.class, Decoder.tag, Decoder.length, pos, Decoder.end)
           data == SubSeq(wire, pos + 1, Decoder.end)
           error == DecodeError(Decoder.class, Decoder.tag, data)
           value == PrimitiveValue(Decoder.class, Decoder.tag, data)
           done == [Decoder EXCEPT !.at = "return", !.value = value]
           C == WithLeaf(done, pos, Decoder.end)
<1>1. /\ Decoding("value") /\ ~Decoder.constructed
      /\ UNCHANGED <<node, stream, inspect, encoding, out, encTree, wire, val, tree>>
  BY DEF DecodePrimitive, given, encoder
<1>2. /\ IsDecode(Decoder, wire) /\ wire \in Seq(Byte)
      /\ pos \in Nat /\ Len(wire) \in Nat /\ pos <= Len(wire)
  BY <1>1, DecodeTop
<1>3. PICK e \in Int, n \in Nat, m \in Int : e = Decoder.end /\ n = Len(wire) /\ m = Decoder.length
  BY <1>2 DEF IsDecode
<1>4. m # -1 => e >= pos
  BY <1>1, <1>3 DEF Typed, BodyAhead
<1>5. error \in {"none", "ValueError", "EOFError", "UnicodeDecodeError"}
  BY DecodeErrors
<1>6. CASE m = -1
  <2>1. x = NotParsed
    BY <1>3, <1>6 DEF PrimitiveAt
  <2>2. outcome' = "ValueError" /\ decoding' = decoding /\ pos' = pos
    BY <1>3, <1>6 DEF DecodePrimitive, RaiseAt
  <2> QED
    BY <1>1, <1>2, <2>1, <2>2 DEF NotParsed, Errors
<1>7. CASE m # -1 /\ e > n
  <2>1. x = NotParsed
    BY <1>3, <1>7 DEF PrimitiveAt
  <2>2. outcome' = "EOFError" /\ decoding' = decoding /\ pos' = Len(wire)
    BY <1>3, <1>7 DEF DecodePrimitive, RaiseAt
  <2> QED
    BY <1>1, <1>2, <2>1, <2>2 DEF NotParsed, Errors
<1>8. CASE m # -1 /\ ~(e > n) /\ error # "none"
  <2>1. x = NotParsed
    BY <1>8 DEF PrimitiveAt
  <2>2. outcome' = error /\ decoding' = decoding /\ pos' = e
    <3> HIDE DEF error
    <3>1. Decoder.length # -1 /\ ~(Decoder.end > Len(wire)) /\ error # "none"
      BY <1>3, <1>8
    <3>2. RaiseAt(Decoder.end, error)
      BY <3>1 DEF DecodePrimitive, error
    <3> QED
      BY <1>3, <3>2 DEF RaiseAt
  <2> HIDE DEF error, x
  <2>3. outcome' \in Errors
    BY <1>5, <1>8, <2>2 DEF Errors
  <2>4. pos' \in 0 .. Len(wire) /\ pos <= pos'
    BY <1>2, <1>3, <1>4, <1>8, <2>2
  <2> QED
    BY <1>1, <2>1, <2>2, <2>3, <2>4 DEF NotParsed, x
<1>9. CASE m # -1 /\ ~(e > n) /\ error = "none"
  <2>1. x = Parsed(value, Decoder.end)
    BY <1>3, <1>9 DEF PrimitiveAt
  <2>2. outcome' = outcome /\ decoding' = WithDecoder(C) /\ pos' = Decoder.end
    <3> HIDE DEF error, C
    <3>1. Decoder.length # -1 /\ ~(Decoder.end > Len(wire)) /\ ~(error # "none")
      BY <1>3, <1>9
    <3> QED
      BY <3>1 DEF DecodePrimitive, error, C
  <2> HIDE DEF error, x, value
  <2>3. DOMAIN done = DecodeFields
    BY <1>2 DEF IsDecode, DecodeFields
  <2>4. done = [Decoder EXCEPT !.at = "return", !.value = x.value]
    BY <2>1 DEF Parsed
  <2> HIDE DEF done
  <2>5. SameCall(C, done)
    BY <2>3, LeafAdded
  <2> HIDE DEF C
  <2>6. x.ok = TRUE /\ x.end = e
    BY <1>3, <2>1 DEF Parsed
  <2>7. pos' = x.end /\ x.end \in 0 .. Len(wire) /\ pos <= x.end
    BY <1>2, <1>3, <1>4, <1>9, <2>2, <2>6
  <2> QED
    BY <1>1, <2>2, <2>4, <2>5, <2>6, <2>7 DEF x
<1> HIDE DEF x, error
<1> QED
  BY <1>6, <1>7, <1>8, <1>9 DEF x

LEMMA DecodePrimitiveTyped == ASSUME Typed, DecodePrimitive PROVE Typed'
<1> DEFINE x == PrimitiveAt(wire, Decoder.class, Decoder.tag, Decoder.length, pos, Decoder.end)
<1>1. /\ Decoding("value") /\ x.ok \in BOOLEAN
      /\ UNCHANGED <<node, stream, inspect, encoding, out, encTree, wire, val, tree>>
  BY PrimitiveStep
<1>2. decoding # <<>> /\ IsDecode(Decoder, wire) /\ Decoder.start <= pos /\ outcome = "none" /\ pos \in Nat
  BY <1>1, DecodeTop DEF Decoding
<1>3. CASE ~x.ok
  <2>1. outcome' \in Errors /\ decoding' = decoding /\ pos' \in 0 .. Len(wire) /\ pos <= pos'
    BY <1>3, PrimitiveStep
  <2> QED
    BY <1>1, <1>2, <2>1, RaisedTyped
<1>4. CASE x.ok
  <2>1. /\ outcome' = outcome /\ pos' = x.end /\ x.end \in 0 .. Len(wire) /\ pos <= x.end
        /\ \E C, D : /\ decoding' = WithDecoder(C) /\ SameCall(C, D)
                     /\ D = [Decoder EXCEPT !.at = "return", !.value = x.value]
    BY <1>4, PrimitiveStep
  <2>2. PICK C, D : /\ decoding' = WithDecoder(C) /\ SameCall(C, D)
                    /\ D = [Decoder EXCEPT !.at = "return", !.value = x.value]
    BY <2>1
  <2> HIDE DEF x
  <2>3. IsDecode(D, wire) /\ D.start = Decoder.start /\ D.at = "return"
    BY <1>2, <2>2 DEF IsDecode, DecodeFields
  <2>4. IsDecode(C, wire) /\ C.start = Decoder.start /\ C.at = "return"
    BY <2>2, <2>3, SameIsDecode DEF SameCall
  <2>5. C.start <= pos' /\ pos' \in 0 .. Len(wire) /\ pos <= pos' /\ wire' = wire
    <3>1. PICK e \in 0 .. Len(wire), s \in Nat : e = x.end /\ s = Decoder.start
      BY <1>2, <2>1 DEF IsDecode
    <3>2. s <= pos /\ pos <= e /\ e \in Int
      BY <1>2, <2>1, <3>1
    <3>3. s <= e
      BY <1>2, <3>2
    <3> QED
      BY <1>1, <2>1, <2>4, <3>1, <3>2, <3>3
  <2>6. DecodeCalls' /\ decoding' # <<>> /\ Last(decoding') = C
    BY <1>2, <2>2, <2>4, <2>5, DecoderChanged, Replaced
  <2> QED
    BY <1>1, <1>2, <2>1, <2>4, <2>5, <2>6, WentOnTyped
<1> QED
  BY <1>1, <1>3, <1>4

LEMMA DecodeItemTyped == ASSUME Typed, DecodeItem PROVE Typed'
<1>1. /\ Decoding("value") /\ Decoder.constructed
      /\ decoding' = Append(decoding, NewDecode(pos))
      /\ UNCHANGED <<node, stream, inspect, encoding, out, encTree, wire, pos, val, tree, outcome>>
  BY DEF DecodeItem, InItemsOf, given, encoder
<1>2. decoding # <<>> /\ Decoder.at = "value" /\ outcome = "none"
  BY <1>1 DEF Decoding, Decoder
<1>3. pos' \in 0 .. Len(wire) /\ pos <= pos' /\ decoding' = Append(decoding, NewDecode(pos'))
  BY <1>1 DEF Typed, Bytes
<1>4. DecodeCalls' /\ decoding' # <<>> /\ Last(decoding') = NewDecode(pos')
  BY <1>1, <1>2, <1>3, DecoderPushed, Called
<1>5. Last(decoding').at = "head"
  BY <1>4 DEF NewDecode
<1> QED
  BY <1>1, <1>2, <1>3, <1>4, <1>5, WentOnTyped

(* The items are read, those of a declared length at its end.              *)
LEMMA ListIsDecode ==
    ASSUME NEW w, NEW C, IsDecode(C, w)
    PROVE  IsDecode(ListOf(C), w) /\ ListOf(C).start = C.start /\ ListOf(C).at = "return"
  BY DEF IsDecode, DecodeFields, ListOf

LEMMA DecodeItemsEndTyped == ASSUME Typed, DecodeItemsEnd PROVE Typed'
<1>1. /\ Decoding("value")
      /\ UNCHANGED <<node, stream, inspect, encoding, out, encTree, wire, val, tree>>
  BY DEF DecodeItemsEnd, InItemsOf, given, encoder
<1>2. decoding # <<>> /\ IsDecode(Decoder, wire) /\ Decoder.start <= pos /\ outcome = "none"
  BY <1>1, DecodeTop DEF Decoding
<1>3. pos \in 0 .. Len(wire) /\ pos <= pos
  BY DEF Typed, Bytes
<1>4. CASE pos # Decoder.end
  <2>1. outcome' = "ValueError" /\ decoding' = decoding /\ pos' = pos
    BY <1>4 DEF DecodeItemsEnd, RaiseAt
  <2> QED
    BY <1>1, <1>2, <1>3, <2>1, RaisedTyped DEF Errors
<1>5. CASE pos = Decoder.end
  <2>1. outcome' = outcome /\ decoding' = WithDecoder(ListOf(Decoder)) /\ pos' = pos
    BY <1>5 DEF DecodeItemsEnd
  <2>2. IsDecode(ListOf(Decoder), wire) /\ ListOf(Decoder).start <= pos' /\ ListOf(Decoder).at = "return"
    BY <1>2, <2>1, ListIsDecode
  <2>3. DecodeCalls' /\ decoding' # <<>> /\ Last(decoding') = ListOf(Decoder)
    BY <1>1, <1>2, <1>3, <2>1, <2>2, DecoderChanged, Replaced
  <2> QED
    BY <1>1, <1>2, <1>3, <2>1, <2>2, <2>3, WentOnTyped
<1> QED
  BY <1>4, <1>5

LEMMA DecodeGreedyItemTyped == ASSUME Typed, DecodeGreedyItem PROVE Typed'
<1>1. /\ Decoding("value") /\ Decoder.constructed
      /\ UNCHANGED <<node, stream, inspect, encoding, out, encTree, wire, val, tree>>
  BY DEF DecodeGreedyItem, InItemsOf, given, encoder
<1>2. /\ decoding # <<>> /\ IsDecode(Decoder, wire) /\ Decoder.start <= pos /\ outcome = "none"
      /\ Decoder.at = "value"
      /\ pos \in Nat /\ Len(wire) \in Nat /\ pos <= Len(wire)
  BY <1>1, DecodeTop DEF Decoding
<1>3. PICK n \in Nat, q \in Nat : n = Len(wire) /\ q = AfterPeek /\ (q = pos \/ q = pos + 2)
  BY <1>2 DEF AfterPeek
<1>4. CASE pos + 2 > n
  <2>1. outcome' = "EOFError" /\ decoding' = decoding /\ pos' = Len(wire)
    BY <1>3, <1>4 DEF DecodeGreedyItem, RaiseAt
  <2>2. pos' \in 0 .. Len(wire) /\ pos <= pos'
    BY <1>2, <2>1
  <2> QED
    BY <1>1, <1>2, <2>1, <2>2, RaisedTyped DEF Errors
<1>5. CASE pos + 2 <= n /\ SubSeq(wire, pos + 1, pos + 2) # <<0, 0>>
  <2>1. ~(pos + 2 > Len(wire))
    BY <1>2, <1>3, <1>5
  <2>2. pos' = q /\ decoding' = Append(decoding, NewDecode(q)) /\ outcome' = outcome
    BY <1>3, <1>5, <2>1 DEF DecodeGreedyItem
  <2>3. pos' \in 0 .. Len(wire) /\ pos <= pos' /\ decoding' = Append(decoding, NewDecode(pos'))
    BY <1>2, <1>3, <1>5, <2>2
  <2>4. DecodeCalls' /\ decoding' # <<>> /\ Last(decoding') = NewDecode(pos')
    BY <1>1, <1>2, <2>3, DecoderPushed, Called
  <2>5. Last(decoding').at = "head"
    BY <2>4 DEF NewDecode
  <2> QED
    BY <1>1, <1>2, <2>2, <2>3, <2>4, <2>5, WentOnTyped
<1>6. CASE pos + 2 <= n /\ SubSeq(wire, pos + 1, pos + 2) = <<0, 0>> /\ q + 2 > n
  <2>1. ~(pos + 2 > Len(wire)) /\ AfterPeek + 2 > Len(wire)
    BY <1>2, <1>3, <1>6
  <2>2. outcome' = "EOFError" /\ decoding' = decoding /\ pos' = Len(wire)
    BY <1>6, <2>1 DEF DecodeGreedyItem, RaiseAt
  <2>3. pos' \in 0 .. Len(wire) /\ pos <= pos'
    BY <1>2, <2>2
  <2> QED
    BY <1>1, <1>2, <2>2, <2>3, RaisedTyped DEF Errors
<1>7. CASE pos + 2 <= n /\ SubSeq(wire, pos + 1, pos + 2) = <<0, 0>> /\ q + 2 <= n
  <2> DEFINE C == WithLeaf(ListOf(Decoder), AfterPeek, AfterPeek + 2)
  <2>1. ~(pos + 2 > Len(wire)) /\ ~(AfterPeek + 2 > Len(wire))
    BY <1>2, <1>3, <1>7
  <2>2. outcome' = outcome /\ decoding' = WithDecoder(C) /\ pos' = AfterPeek + 2
    BY <1>7, <2>1 DEF DecodeGreedyItem
  <2>3. IsDecode(ListOf(Decoder), wire) /\ ListOf(Decoder).start = Decoder.start /\ ListOf(Decoder).at = "return"
    BY <1>2, ListIsDecode
  <2>4. DOMAIN ListOf(Decoder) = DecodeFields
    BY <2>3 DEF IsDecode
  <2>5. SameCall(C, ListOf(Decoder))
    BY <2>4, LeafAdded
  <2> HIDE DEF C
  <2>6. IsDecode(C, wire) /\ C.start = Decoder.start /\ C.at = "return"
    BY <2>3, <2>5, SameIsDecode DEF SameCall
  <2>7. PICK s \in Nat : s = Decoder.start /\ s <= pos
    BY <1>2 DEF IsDecode
  <2>8. pos' \in 0 .. Len(wire) /\ pos <= pos' /\ s <= pos'
    BY <1>2, <1>3, <1>7, <2>2, <2>7
  <2>9. DecodeCalls' /\ decoding' # <<>> /\ Last(decoding') = C
    BY <1>1, <1>2, <2>2, <2>6, <2>7, <2>8, DecoderChanged, Replaced
  <2> QED
    BY <1>1, <1>2, <2>2, <2>6, <2>8, <2>9, WentOnTyped
<1>8. pos + 2 > n \/ pos + 2 <= n
  BY <1>2
<1>9. q + 2 > n \/ q + 2 <= n
  OBVIOUS
<1> QED
  BY <1>4, <1>5, <1>6, <1>7, <1>8, <1>9

(* A node is read: the call that waits for it takes it over, if any does.  *)
NodeRead == Node(Decoder.class, Decoder.tag, IF Decoder.constructed THEN "yes" ELSE "no", Decoder.value)

LEMMA ReturnStep ==
    ASSUME Typed, ReturnNode
    PROVE  LET n == Len(decoding) IN
           /\ Decoding("return") /\ UNCHANGED <<node, stream, inspect, encoding, out, encTree, wire, pos>>
           /\ n = 1 => val' = NodeRead /\ decoding' = <<>> /\ outcome' = "ok"
           /\ n # 1 => /\ outcome' = outcome /\ val' = val
                       /\ IsSeq(decoding') /\ Len(decoding') = n - 1
                       /\ \A i \in 1..(n - 2) : decoding'[i] = decoding[i]
                       /\ \E D : /\ D = [decoding[n - 1] EXCEPT !.items = Append(@, NodeRead)]
                                 /\ SameCall(decoding'[n - 1], D)
<1> DEFINE n == Len(decoding)
           rest == Front(decoding)
           caller == Last(rest)
           scope == InspectNode(Decoder.start, pos - Decoder.start, Decoder.kids)
<1>1. Decoding("return") /\ UNCHANGED <<node, stream, inspect, encoding, out, encTree, wire, pos>>
  BY DEF ReturnNode, given, encoder
<1>2. n \in Nat /\ n >= 1 /\ IsSeq(decoding)
  BY <1>1, DecodeTop
<1>3. IsSeq(rest) /\ Len(rest) = n - 1 /\ \A i \in 1..(n - 1) : rest[i] = decoding[i]
  BY <1>2, Popped
<1>4. (rest = <<>>) <=> (n = 1)
  BY <1>2, <1>3, EmptyOrTop
<1>5. ASSUME n = 1 PROVE val' = NodeRead /\ decoding' = <<>> /\ outcome' = "ok"
  BY <1>4, <1>5 DEF ReturnNode, NodeRead
<1>6. ASSUME n # 1
      PROVE  /\ outcome' = outcome /\ val' = val
             /\ IsSeq(decoding') /\ Len(decoding') = n - 1
             /\ \A i \in 1..(n - 2) : decoding'[i] = decoding[i]
             /\ \E D : /\ D = [decoding[n - 1] EXCEPT !.items = Append(@, NodeRead)]
                       /\ SameCall(decoding'[n - 1], D)
  <2>1. outcome' = outcome /\ val' = val
    BY <1>4, <1>6 DEF ReturnNode
  <2>2. \E k : decoding' = [rest EXCEPT ![Len(rest)] = [caller EXCEPT !.items = Append(@, NodeRead), !.kids = k]]
    BY <1>4, <1>6 DEF ReturnNode, NodeRead
  <2>3. PICK k : decoding' = [rest EXCEPT ![Len(rest)] = [caller EXCEPT !.items = Append(@, NodeRead), !.kids = k]]
    BY <2>2
  <2> DEFINE C == [caller EXCEPT !.items = Append(@, NodeRead), !.kids = k]
             D == [decoding[n - 1] EXCEPT !.items = Append(@, NodeRead)]
  <2>4. PICK m \in Nat : m = n - 1 /\ m >= 1
    <3>1. PICK j \in Nat : j = n /\ j >= 1 /\ j # 1
      BY <1>2, <1>6
    <3>2. j - 1 \in Nat /\ j - 1 = n - 1 /\ j - 1 >= 1
      BY <3>1
    <3> QED
      BY <3>2
  <2>5. m \in 1..m /\ m \in 1..n
    BY <1>2, <2>4
  <2>6. caller = decoding[m] /\ IsDecode(caller, wire)
    <3>1. caller = decoding[m]
      BY <1>3, <2>4, <2>5 DEF Last
    <3> QED
      BY <2>5, <3>1 DEF Typed, DecodeCalls
  <2>7. SameCall(C, D)
    <3>1. D = [caller EXCEPT !.items = Append(@, NodeRead)]
      BY <2>4, <2>6
    <3> HIDE DEF caller, D
    <3> QED
      BY <2>6, <3>1 DEF IsDecode, SameCall, DecodeFields
  <2>8. decoding' = [rest EXCEPT ![Len(rest)] = C]
    BY <2>3
  <2> HIDE DEF rest, n, C, D
  <2>9. Len(rest) = m /\ DOMAIN rest = 1..m
    BY <1>3, <2>4 DEF IsSeq
  <2>10. decoding' = [i \in 1..m |-> decoding'[i]]
    BY <2>8, <2>9
  <2>11. \A i \in 1..m : decoding'[i] = IF i = m THEN C ELSE rest[i]
    BY <2>8, <2>9
  <2>12. IsSeq(decoding') /\ Len(decoding') = m
    BY <2>10, IsSeqIntro
  <2>13. ASSUME NEW i \in 1..(m - 1) PROVE decoding'[i] = decoding[i]
    BY <1>3, <2>4, <2>11
  <2>14. decoding'[m] = C
    BY <2>5, <2>11
  <2>15. n - 2 = m - 1
    BY <1>2, <2>4
  <2> QED
    BY <2>1, <2>4, <2>7, <2>12, <2>13, <2>14, <2>15 DEF D
<1> HIDE DEF n
<1> QED
  BY <1>1, <1>5, <1>6 DEF n

LEMMA ReturnNodeTyped == ASSUME Typed, ReturnNode PROVE Typed'
<1>1. Decoding("return") /\ UNCHANGED <<node, stream, inspect, encoding, out, encTree, wire, pos>>
  BY ReturnStep
<1>2. PICK n \in Nat : n = Len(decoding) /\ n >= 1
  BY <1>1, DecodeTop
<1>3. outcome = "none" /\ encoding = <<>> /\ IsSeq(decoding)
  BY <1>1, DecodeTop
<1>4. Given' /\ EncodeCalls' /\ Bytes'
  BY <1>1 DEF Typed, Given, EncodeCalls, Bytes
<1>5. CASE n = 1
  <2>1. decoding' = <<>> /\ outcome' = "ok"
    BY <1>2, <1>5, ReturnStep
  <2>2. IsSeq(decoding') /\ Len(decoding') = 0
    BY <2>1 DEF IsSeq
  <2>3. DecodeCalls' /\ BodyAhead' /\ Turns'
    BY <1>1, <2>1, <2>2 DEF Typed, DecodeCalls, BodyAhead, Decoding, Turns
  <2> QED
    BY <1>4, <2>3 DEF Typed
<1>6. CASE n # 1
  <2>1. /\ outcome' = outcome /\ IsSeq(decoding') /\ Len(decoding') = n - 1
        /\ \A i \in 1..(n - 2) : decoding'[i] = decoding[i]
        /\ \E D : D = [decoding[n - 1] EXCEPT !.items = Append(@, NodeRead)] /\ SameCall(decoding'[n - 1], D)
    BY <1>2, <1>6, ReturnStep
  <2>2. PICK D : D = [decoding[n - 1] EXCEPT !.items = Append(@, NodeRead)] /\ SameCall(decoding'[n - 1], D)
    BY <2>1
  <2>3. PICK m \in Nat : m = n - 1 /\ m >= 1 /\ m \in 1..n /\ m \in 1..(n - 1) /\ n - 2 = m - 1
    BY <1>2, <1>6
  <2> DEFINE B == decoding[m]
             C == decoding'[m]
  <2>4. IsDecode(B, wire) /\ B.start <= pos /\ B.at = "value" /\ B.constructed
    BY <1>2, <2>3 DEF Typed, DecodeCalls
  <2>5. D = [B EXCEPT !.items = Append(@, NodeRead)] /\ SameCall(C, D)
    BY <2>2, <2>3
  <2> HIDE DEF B, C
  <2>6. /\ IsDecode(D, wire) /\ D.start = B.start /\ D.at = "value"
    <3>1. IsSeq(Append(B.items, NodeRead))
      BY <2>4, Pushed DEF IsDecode
    <3>2. D = [B EXCEPT !.items = Append(B.items, NodeRead)]
      BY <2>5
    <3> QED
      BY <2>4, <3>1, <3>2 DEF IsDecode, DecodeFields
  <2>7. D.constructed = B.constructed
    BY <2>4, <2>5 DEF IsDecode, DecodeFields
  <2>8. IsDecode(C, wire) /\ C.start = B.start /\ C.at = "value" /\ C.constructed = B.constructed
    BY <2>5, <2>6, <2>7, SameIsDecode DEF SameCall
  <2>9. C.constructed
    BY <2>4, <2>8, Zenon
  <2>10. ASSUME NEW i \in 1..m PROVE IsDecode(decoding'[i], wire) /\ decoding'[i].start <= pos
    <3>1. CASE i = m
      BY <2>4, <2>8, <3>1 DEF C
    <3>2. CASE i # m
      <4>1. i \in 1..(n - 2) /\ i \in 1..n
        BY <2>3, <3>2
      <4> QED
        BY <1>2, <2>1, <4>1 DEF Typed, DecodeCalls
    <3> QED
      BY <3>1, <3>2
  <2>11. ASSUME NEW i \in 1..(m - 1) PROVE decoding'[i].at = "value" /\ decoding'[i].constructed
    <3>1. i \in 1..(n - 2) /\ i \in 1..(n - 1)
      BY <2>3
    <3>2. decoding'[i] = decoding[i]
      BY <2>1, <3>1
    <3>3. decoding[i].at = "value" /\ decoding[i].constructed
      BY <1>2, <3>1 DEF Typed, DecodeCalls
    <3> QED
      BY <3>2, <3>3, Zenon
  <2>12. DecodeCalls'
    BY <1>1, <2>1, <2>3, <2>10, <2>11 DEF DecodeCalls
  <2>13. decoding' # <<>>
    BY <2>1, <2>3, EmptyOrTop
  <2>14. Last(decoding') = C
    BY <2>1, <2>3 DEF Last, C
  <2>15. Decoder'.constructed
    BY <2>9, <2>14, Zenon DEF Decoder
  <2>16. BodyAhead'
    BY <2>15, Zenon DEF BodyAhead
  <2>17. Turns'
    BY <1>1, <1>3, <2>1, <2>13 DEF Typed, Turns
  <2> QED
    BY <1>4, <2>12, <2>16, <2>17 DEF Typed
<1> QED
  BY <1>5, <1>6

LEMMA DecodeAgainTyped == ASSUME Typed, DecodeAgain PROVE Typed'
<1>1. /\ outcome = "encoded" /\ outcome' = "none" /\ wire' = out /\ decoding' = <<NewDecode(0)>>
      /\ UNCHANGED <<node, stream, inspect, encoding, out, encTree, pos, val, tree>>
  BY DEF DecodeAgain, given, encoder
<1>2. encoding = <<>> /\ pos = 0 /\ out \in Seq(Byte) /\ IsSeq(encoding)
  BY <1>1 DEF Typed, Turns, Bytes, EncodeCalls
<1>3. Given' /\ Bytes' /\ EncodeCalls'
  <2>1. Len(out) \in Nat /\ Len(encoding) = 0
    BY <1>2, LenProperties
  <2> QED
    BY <1>1, <1>2, <2>1 DEF Typed, Given, Bytes, EncodeCalls
<1>4. IsSeq(decoding') /\ Len(decoding') = 1 /\ decoding'[1] = NewDecode(0) /\ decoding' # <<>>
  BY <1>1 DEF IsSeq
<1>5. IsDecode(NewDecode(0), wire') /\ NewDecode(0).start = 0 /\ NewDecode(0).at = "head"
  <2>1. IsSeq(<<>>)
    BY DEF IsSeq
  <2> QED
    BY <2>1 DEF NewDecode, IsDecode, DecodeFields
<1>6. DecodeCalls'
  BY <1>1, <1>2, <1>4, <1>5 DEF DecodeCalls
<1>7. ~Decoding("value")'
  BY <1>4, <1>5 DEF Decoding, Last
<1>8. BodyAhead' /\ Turns'
  BY <1>1, <1>2, <1>4, <1>7 DEF BodyAhead, Turns
<1> QED
  BY <1>3, <1>6, <1>8 DEF Typed

LEMMA NextTyped == ASSUME Typed, [Next]_vars PROVE Typed'
<1>1. CASE EncodeRefused
  BY <1>1, EncodeRefusedTyped
<1>2. CASE EncodeItem
  BY <1>2, EncodeItemTyped
<1>3. CASE EncodeNode
  BY <1>3, EncodeNodeTyped
<1>4. CASE DecodeAgain
  BY <1>4, DecodeAgainTyped
<1>5. CASE DecodeHead
  BY <1>5, DecodeHeadTyped
<1>6. CASE DecodePrimitive
  BY <1>6, DecodePrimitiveTyped
<1>7. CASE DecodeItem
  BY <1>7, DecodeItemTyped
<1>8. CASE DecodeItemsEnd
  BY <1>8, DecodeItemsEndTyped
<1>9. CASE DecodeGreedyItem
  BY <1>9, DecodeGreedyItemTyped
<1>10. CASE ReturnNode
  BY <1>10, ReturnNodeTyped
<1>11. CASE UNCHANGED vars
  BY <1>11 DEF vars, given, encoder, decoder, Typed, Given, Bytes, EncodeCalls, DecodeCalls, BodyAhead,
               Decoding, Decoder, Turns
<1> QED
  BY <1>1, <1>2, <1>3, <1>4, <1>5, <1>6, <1>7, <1>8, <1>9, <1>10, <1>11 DEF Next, Terminated

(* What is written and what is read are bytes, the position stays inside   *)
(* what there is to read, every call under way is in a state the code      *)
(* knows, and the exceptions are those it names.                           *)
THEOREM TypesAreKept == ASSUME NodesSound PROVE Spec => []TypeOK
<1>1. Init => Typed
  BY InitTyped
<1>2. Typed /\ [Next]_vars => Typed'
  BY NextTyped
<1>3. Typed => TypeOK
  BY TypedGivesTypeOK
<1> QED
  BY <1>1, <1>2, <1>3, PTL DEF Spec

-----------------------------------------------------------------------------
(* The inductive invariant behind DecodesWellFormed.  At the position the  *)
(* running call has reached, the grammar reads on what the call started to *)
(* read where it began; a call that waits for an item finishes what the    *)
(* grammar reads there; and when an item is not well-formed, nothing is.   *)
Faithful == stream = "file" \/ ~MayPeek(wire)
At(w, p) == NodeAt(w, p, Grammar(w))

Rest(w, C, q) == Grammar(w)[q][EndMark(C)]
Finish(w, C, q) ==
    IF (C.length # -1 /\ q > C.end) \/ ~Rest(w, C, q).ok THEN NotParsed
    ELSE Parsed(Node(C.class, C.tag, "yes", ListV(C.items \o Rest(w, C, q).value.items)), Rest(w, C, q).end)
Resume(w, C, x) == IF x.ok THEN Finish(w, [C EXCEPT !.items = Append(@, x.value)], x.end) ELSE NotParsed

Says(w, C, p) ==
    /\ C.at = "head" => C.start = p /\ C.items = <<>>
    /\ C.at = "value" /\ ~C.constructed =>
         At(w, C.start) = NodeOf(C.class, C.tag, FALSE, PrimitiveAt(w, C.class, C.tag, C.length, p, C.end))
    /\ C.at = "value" /\ C.constructed => At(w, C.start) = Finish(w, C, p)
    /\ C.at = "return" =>
         At(w, C.start) = Parsed(Node(C.class, C.tag, IF C.constructed THEN "yes" ELSE "no", C.value), p)

Chain(w, calls, n) ==
    /\ calls[1].start = 0
    /\ \A i \in 1..n : ~At(w, calls[i].start).ok => ~At(w, 0).ok
    /\ \A i \in 1..(n - 1) : At(w, calls[i].start) = Resume(w, calls[i], At(w, calls[i + 1].start))
KeepsUp(w, calls, p) == Chain(w, calls, Len(calls)) /\ Says(w, calls[Len(calls)], p)

Right ==
    /\ outcome = "ok" <=> At(wire, 0).ok
    /\ outcome = "ok" => val = At(wire, 0).value /\ pos = At(wire, 0).end

ReadsWell ==
    Faithful => /\ decoding # <<>> /\ outcome = "none" => KeepsUp(wire, decoding, pos)
                /\ Ended => Right

Behind(x, t) == <<x>> \o t

LEMMA ItemsBetween ==
    ASSUME NEW s, IsSeq(s), NEW x, NEW t, IsSeq(t)
    PROVE  s \o Behind(x, t) = Append(s, x) \o t
<1> DEFINE S == {s[i] : i \in 1..Len(s)} \cup {x} \cup {t[i] : i \in 1..Len(t)}
<1>1. s \in [1..Len(s) -> S] /\ t \in [1..Len(t) -> S]
  BY DEF IsSeq
<1>2. Len(s) \in Nat /\ Len(t) \in Nat /\ x \in S
  BY DEF IsSeq
<1> HIDE DEF S
<1>3. s \in Seq(S) /\ t \in Seq(S) /\ <<x>> \in Seq(S)
  BY <1>1, <1>2, SeqDef
<1>4. Append(s, x) = s \o <<x>>
  BY <1>2, <1>3, AppendIsConcat
<1>5. (s \o <<x>>) \o t = s \o (<<x>> \o t)
  BY <1>3, ConcatAssociative
<1> QED
  BY <1>4, <1>5 DEF Behind

LEMMA ItemsAlone == ASSUME NEW s, IsSeq(s) PROVE <<>> \o s = s /\ s \o <<>> = s
<1>1. PICK S : s \in Seq(S)
  BY IsSeqElim
<1> QED
  BY <1>1, ConcatEmptySeq

(* Another item is read where the list does not end.                       *)
LEMMA ItemRead ==
    ASSUME NEW w \in Seq(Byte), NEW C, IsDecode(C, w), NEW q \in Nat, q <= Len(w),
           q # EndMark(C), C.length # -1 => q <= C.end, C.length = -1 => ~MarkAt(w, q)
    PROVE  Finish(w, C, q) = Resume(w, C, At(w, q))
<1> DEFINE G == Grammar(w)
           first == NodeAt(w, q, G)
           D == [C EXCEPT !.items = Append(@, first.value)]
<1>1. PICK n \in Nat : n = Len(w)
  BY LenProperties
<1>2. PICK E \in Int : E = EndMark(C) /\ (C.length = -1 => E = -1) /\ (C.length # -1 => E = C.end /\ E >= 0)
  BY DEF EndMark, IsDecode
<1> DEFINE rest == G[first.end][E]
<1>3. Reads(G, w, 0)
  BY GrammarReads
<1>4. \A p \in 0 .. n : \A e \in Int : Listed(G[p][e], p, n)
  BY <1>1, <1>3, ReadRange
<1>5. Ranged(first, q, n)
  BY <1>1, <1>4, NodeRange
<1>6. Rest(w, C, q) = ItemsAt(w, q, E, G)
  BY <1>1, <1>2, <1>3 DEF Reads, Rest
<1>7. ItemsAt(w, q, E, G) =
        IF ~first.ok \/ (E >= 0 /\ first.end > E) \/ ~rest.ok THEN NotParsed
        ELSE Parsed(ListV(Behind(first.value, rest.value.items)), rest.end)
  BY <1>2 DEF ItemsAt, Behind
<1>8. At(w, q) = first
  BY DEF At
<1> HIDE DEF G, first
<1>9. CASE ~first.ok
  BY <1>6, <1>7, <1>8, <1>9 DEF Finish, Resume, NotParsed
<1>10. CASE first.ok
  <2>1. PICK f \in 0 .. n : f = first.end
    BY <1>5 DEF Ranged
  <2>2. Listed(rest, f, n)
    BY <1>2, <1>4, <2>1
  <2>3. Resume(w, C, At(w, q)) = Finish(w, D, f)
    BY <1>8, <1>10, <2>1 DEF Resume
  <2>4. /\ D.length = C.length /\ D.end = C.end /\ D.class = C.class /\ D.tag = C.tag
        /\ D.items = Append(C.items, first.value)
    BY DEF IsDecode, DecodeFields
  <2>5. Rest(w, D, f) = rest
    BY <1>2, <2>1, <2>4 DEF Rest, EndMark, G
  <2> HIDE DEF D, rest
  <2>6. CASE E >= 0 /\ f > E
    <3>1. Finish(w, C, q) = NotParsed
      BY <1>6, <1>7, <2>1, <2>6 DEF Finish, NotParsed
    <3>2. Finish(w, D, f) = NotParsed
      BY <1>2, <2>4, <2>6 DEF Finish
    <3> QED
      BY <2>3, <3>1, <3>2
  <2>7. CASE ~rest.ok
    <3>1. Finish(w, C, q) = NotParsed
      BY <1>6, <1>7, <2>7 DEF Finish, NotParsed
    <3>2. Finish(w, D, f) = NotParsed
      BY <2>5, <2>7 DEF Finish
    <3> QED
      BY <2>3, <3>1, <3>2
  <2>8. CASE ~(E >= 0 /\ f > E) /\ rest.ok
    <3>1. Rest(w, C, q) = Parsed(ListV(Behind(first.value, rest.value.items)), rest.end)
      BY <1>6, <1>7, <1>10, <2>1, <2>8
    <3>2. /\ Rest(w, C, q).ok = TRUE /\ Rest(w, C, q).end = rest.end
          /\ Rest(w, C, q).value.items = Behind(first.value, rest.value.items)
      BY <3>1 DEF Parsed, ListV, Value
    <3>3. ~(C.length # -1 /\ q > C.end)
      <4>1. CASE C.length # -1
        BY <1>2, <4>1
      <4> QED
        BY <4>1
    <3>4. Finish(w, C, q) = Parsed(Node(C.class, C.tag, "yes", ListV(C.items \o Behind(first.value, rest.value.items))),
                                rest.end)
      BY <3>2, <3>3 DEF Finish
    <3>5. ~(C.length # -1 /\ f > C.end)
      BY <1>2, <2>8
    <3>6. Finish(w, D, f) = Parsed(Node(C.class, C.tag, "yes", ListV(Append(C.items, first.value) \o rest.value.items)),
                                rest.end)
      BY <2>4, <2>5, <2>8, <3>5 DEF Finish
    <3>7. C.items \o Behind(first.value, rest.value.items) = Append(C.items, first.value) \o rest.value.items
      <4>1. IsSeq(C.items) /\ IsSeq(rest.value.items)
        BY <2>2, <2>8 DEF Listed, IsDecode
      <4> QED
        BY <4>1, ItemsBetween
    <3> QED
      BY <2>3, <3>4, <3>6, <3>7
  <2> QED
    BY <2>6, <2>7, <2>8
<1>11. first.ok \in BOOLEAN
  BY <1>5 DEF Ranged
<1> QED
  BY <1>9, <1>10, <1>11

(* A list ends where its declared end or its mark is, and starts empty.    *)
LEMMA ListEnds ==
    ASSUME NEW w \in Seq(Byte), NEW C, IsDecode(C, w), NEW q \in Nat, q <= Len(w), C.length # -1, q = C.end
    PROVE  Finish(w, C, q) = Parsed(Node(C.class, C.tag, "yes", ListV(C.items)), q)
<1>1. Reads(Grammar(w), w, 0) /\ Len(w) \in Nat
  BY GrammarReads
<1>2. EndMark(C) = q /\ q \in 0 .. Len(w) /\ q \in Int
  BY <1>1 DEF EndMark
<1>3. Rest(w, C, q) = Parsed(ListV(<<>>), q)
  BY <1>1, <1>2 DEF Rest, Reads, ItemsAt
<1>4. Rest(w, C, q).ok = TRUE /\ Rest(w, C, q).end = q /\ Rest(w, C, q).value.items = <<>>
  BY <1>3 DEF Parsed, ListV, Value
<1>5. C.items \o <<>> = C.items
  BY ItemsAlone DEF IsDecode
<1> QED
  BY <1>4, <1>5 DEF Finish

LEMMA MarkEnds ==
    ASSUME NEW w \in Seq(Byte), NEW C, IsDecode(C, w), NEW q \in Nat, q <= Len(w), C.length = -1, MarkAt(w, q)
    PROVE  Finish(w, C, q) = Parsed(Node(C.class, C.tag, "yes", ListV(C.items)), q + 2)
<1>1. Reads(Grammar(w), w, 0) /\ Len(w) \in Nat
  BY GrammarReads
<1>2. EndMark(C) = -1 /\ q \in 0 .. Len(w) /\ -1 \in Int /\ q # -1
  BY <1>1 DEF EndMark
<1>3. Rest(w, C, q) = ItemsAt(w, q, -1, Grammar(w))
  BY <1>1, <1>2 DEF Rest, Reads
<1>4. Rest(w, C, q) = Parsed(ListV(<<>>), q + 2)
  BY <1>2, <1>3 DEF ItemsAt
<1>5. Rest(w, C, q).ok = TRUE /\ Rest(w, C, q).end = q + 2 /\ Rest(w, C, q).value.items = <<>>
  BY <1>4 DEF Parsed, ListV, Value
<1>6. C.items \o <<>> = C.items
  BY ItemsAlone DEF IsDecode
<1> QED
  BY <1>5, <1>6 DEF Finish

LEMMA ListStarts ==
    ASSUME NEW w \in Seq(Byte), NEW p \in Nat, p <= Len(w), HeadAt(w, p).ok, IsList(w, p), NEW C,
           C.class = HeadAt(w, p).class, C.tag = HeadAt(w, p).tag, C.length = HeadAt(w, p).length,
           C.end = HeadAt(w, p).end, C.items = <<>>
    PROVE  At(w, p) = Finish(w, C, HeadAt(w, p).at)
<1> DEFINE h == HeadAt(w, p)
           G == Grammar(w)
           rest == G[h.at][EndMark(h)]
<1>1. PICK n \in Nat : n = Len(w)
  BY LenProperties
<1>2. /\ h.at \in p + 2 .. n /\ h.length \in {-1} \cup Nat /\ h.end \in Int
      /\ h.length # -1 => h.end >= h.at
  BY <1>1, HeadRange
<1>3. EndMark(h) \in Int /\ EndMark(C) = EndMark(h)
  BY <1>2 DEF EndMark
<1>4. PICK q \in 0 .. n : q = h.at
  BY <1>2
<1>5. Listed(rest, q, n)
  BY <1>1, <1>3, <1>4, GrammarReads, ReadRange
<1>6. At(w, p) = NodeOf(h.class, h.tag, TRUE, rest)
  BY NodeParts, Zenon DEF At, BodyOf
<1>7. Rest(w, C, q) = rest
  BY <1>3, <1>4 DEF Rest
<1>8. ~(C.length # -1 /\ q > C.end)
  <2>1. CASE C.length # -1
    BY <1>2, <1>4, <2>1
  <2> QED
    BY <2>1
<1> HIDE DEF h, rest
<1>9. CASE ~rest.ok
  BY <1>4, <1>6, <1>7, <1>9 DEF NodeOf, Finish, h
<1>10. CASE rest.ok
  <2>1. rest.value = ListV(rest.value.items) /\ <<>> \o rest.value.items = rest.value.items
    BY <1>5, <1>10, ItemsAlone DEF Listed
  <2>2. At(w, p) = Parsed(Node(C.class, C.tag, "yes", rest.value), rest.end)
    BY <1>6, <1>10 DEF NodeOf, h
  <2>3. Finish(w, C, q) = Parsed(Node(C.class, C.tag, "yes", ListV(<<>> \o rest.value.items)), rest.end)
    BY <1>7, <1>8, <1>10 DEF Finish
  <2> QED
    BY <1>4, <2>1, <2>2, <2>3 DEF h
<1> QED
  BY <1>9, <1>10

(* How the calls under way, and with them the reading, go on.              *)
LEMMA ChainChanged ==
    ASSUME NEW w, NEW calls, NEW n \in Nat, n >= 1, Chain(w, calls, n),
           NEW others, \A i \in 1..(n - 1) : others[i] = calls[i], others[n].start = calls[n].start
    PROVE  Chain(w, others, n)
<1>1. ASSUME NEW i \in 1..n PROVE others[i].start = calls[i].start
  <2>1. i = n \/ i \in 1..(n - 1)
    OBVIOUS
  <2> QED
    BY <2>1
<1>2. others[1].start = 0
  BY <1>1 DEF Chain
<1>3. ASSUME NEW i \in 1..n PROVE ~At(w, others[i].start).ok => ~At(w, 0).ok
  BY <1>1 DEF Chain
<1>4. ASSUME NEW i \in 1..(n - 1)
      PROVE  At(w, others[i].start) = Resume(w, others[i], At(w, others[i + 1].start))
  <2>1. i + 1 \in 1..n
    OBVIOUS
  <2>2. At(w, calls[i].start) = Resume(w, calls[i], At(w, calls[i + 1].start))
    BY DEF Chain
  <2>3. others[i] = calls[i] /\ others[i + 1].start = calls[i + 1].start
    BY <1>1, <2>1
  <2> QED
    BY <2>2, <2>3
<1> QED
  BY <1>2, <1>3, <1>4 DEF Chain

LEMMA ChainPushed ==
    ASSUME NEW w, NEW calls, NEW n \in Nat, n >= 1, Chain(w, calls, n),
           NEW q, At(w, calls[n].start) = Resume(w, calls[n], At(w, q)),
           NEW others, \A i \in 1..n : others[i] = calls[i], others[n + 1].start = q
    PROVE  Chain(w, others, n + 1)
<1>1. others[1].start = 0
  BY DEF Chain
<1>2. ASSUME NEW i \in 1..(n + 1) PROVE ~At(w, others[i].start).ok => ~At(w, 0).ok
  <2>1. CASE i \in 1..n
    BY <2>1 DEF Chain
  <2>2. CASE i = n + 1
    <3>1. ~At(w, q).ok => ~At(w, calls[n].start).ok
      BY DEF Resume, NotParsed
    <3>2. ~At(w, calls[n].start).ok => ~At(w, 0).ok
      BY DEF Chain
    <3> QED
      BY <2>2, <3>1, <3>2
  <2>3. i \in 1..n \/ i = n + 1
    OBVIOUS
  <2> QED
    BY <2>1, <2>2, <2>3
<1>3. ASSUME NEW i \in 1..n
      PROVE  At(w, others[i].start) = Resume(w, others[i], At(w, others[i + 1].start))
  <2>1. CASE i \in 1..(n - 1)
    <3>1. i + 1 \in 1..n
      BY <2>1
    <3> QED
      BY <2>1, <3>1 DEF Chain
  <2>2. CASE i = n
    BY <2>2
  <2>3. i \in 1..(n - 1) \/ i = n
    OBVIOUS
  <2> QED
    BY <2>1, <2>2, <2>3
<1> QED
  BY <1>1, <1>2, <1>3 DEF Chain

LEMMA ChainPopped ==
    ASSUME NEW w, NEW calls, NEW n \in Nat, NEW m \in Nat, m <= n, Chain(w, calls, n) PROVE Chain(w, calls, m)
  BY DEF Chain

LEMMA AtIsBoolean == ASSUME NEW w \in Seq(Byte), NEW p \in Nat, p <= Len(w) PROVE At(w, p).ok \in BOOLEAN
<1>1. PICK n \in Nat : n = Len(w)
  BY LenProperties
<1>2. \A q \in 0 .. n : \A e \in Int : Listed(Grammar(w)[q][e], q, n)
  BY <1>1, GrammarReads, ReadRange
<1>3. Ranged(At(w, p), p, n)
  BY <1>1, <1>2, NodeRange DEF At
<1> QED
  BY <1>3 DEF Ranged

(* A call is in the state it says it is in.                                *)
LEMMA SaysSame ==
    ASSUME NEW w, NEW C, NEW D, SameCall(C, D), NEW p, Says(w, D, p)
    PROVE  Says(w, C, p)
<1>1. Finish(w, C, p) = Finish(w, D, p)
  BY DEF Finish, Rest, EndMark, SameCall
<1>2. CASE C.constructed
  BY <1>1, <1>2 DEF Says, SameCall
<1>3. CASE ~C.constructed
  BY <1>1, <1>3 DEF Says, SameCall
<1> QED
  BY <1>2, <1>3

(* Where the running call stands, when the calls are as the grammar reads. *)
LEMMA FollowsTop ==
    ASSUME Typed, NEW where, Decoding(where), KeepsUp(wire, decoding, pos)
    PROVE  /\ Says(wire, Decoder, pos)
           /\ Chain(wire, decoding, Len(decoding))
           /\ ~At(wire, Decoder.start).ok => ~At(wire, 0).ok
           /\ At(wire, Decoder.start).ok \in BOOLEAN /\ At(wire, 0).ok \in BOOLEAN
<1>1. /\ Len(decoding) \in Nat /\ Len(decoding) >= 1 /\ Decoder = decoding[Len(decoding)]
      /\ IsDecode(Decoder, wire) /\ Decoder.start <= pos
      /\ wire \in Seq(Byte) /\ pos \in Nat /\ Len(wire) \in Nat /\ pos <= Len(wire)
  BY DecodeTop
<1>2. Len(decoding) \in 1..Len(decoding)
  BY <1>1
<1>3. PICK s \in Nat : s = Decoder.start
  BY <1>1 DEF IsDecode
<1>4. s <= Len(wire) /\ 0 <= Len(wire)
  BY <1>1, <1>3
<1>5. At(wire, s).ok \in BOOLEAN /\ At(wire, 0).ok \in BOOLEAN
  BY <1>1, <1>3, <1>4, AtIsBoolean
<1> QED
  BY <1>1, <1>2, <1>3, <1>5 DEF KeepsUp, Chain

(* What is raised is raised at what is not well-formed.                    *)
LEMMA RaisedReads ==
    ASSUME Typed, NEW where, Decoding(where), ReadsWell, ~Faithful \/ ~At(wire, Decoder.start).ok,
           outcome' \in Errors, decoding' = decoding, stream' = stream, wire' = wire
    PROVE  ReadsWell'
<1>1. CASE ~Faithful
  BY <1>1 DEF ReadsWell, Faithful
<1>2. CASE Faithful /\ ~At(wire, Decoder.start).ok
  <2>1. KeepsUp(wire, decoding, pos)
    BY <1>2 DEF ReadsWell, Decoding
  <2>2. ~At(wire, 0).ok
    BY <1>2, <2>1, FollowsTop
  <2>3. outcome' # "ok" /\ outcome' # "none"
    BY DEF Errors
  <2> QED
    BY <2>2, <2>3 DEF ReadsWell, Right
<1> QED
  BY <1>1, <1>2

(* The calls go on: the running one is changed, or calls another.          *)
LEMMA ChangedReads ==
    ASSUME Typed, NEW where, Decoding(where), ReadsWell,
           outcome' = outcome, stream' = stream, wire' = wire,
           NEW C, decoding' = WithDecoder(C), C.start = Decoder.start,
           Faithful /\ Says(wire, Decoder, pos) => Says(wire, C, pos')
    PROVE  ReadsWell'
<1>1. decoding # <<>> /\ outcome = "none" /\ Decoder = decoding[Len(decoding)]
  BY DecodeTop DEF Decoding
<1>2. ~Ended'
  BY <1>1 DEF Ended
<1>3. CASE ~Faithful
  BY <1>3 DEF ReadsWell, Faithful
<1>4. CASE Faithful
  <2>1. PICK n \in Nat : n = Len(decoding) /\ n >= 1
    BY <1>1, Replaced
  <2>2. /\ Len(decoding') = n /\ Last(decoding') = C
        /\ \A i \in 1..(n - 1) : decoding'[i] = decoding[i]
    BY <1>1, <2>1, Replaced
  <2>3. KeepsUp(wire, decoding, pos)
    BY <1>1, <1>4 DEF ReadsWell
  <2>4. Chain(wire, decoding, n) /\ Says(wire, Decoder, pos)
    BY <2>1, <2>3, FollowsTop
  <2>5. decoding'[n] = C /\ decoding'[n].start = decoding[n].start
    BY <1>1, <2>1, <2>2 DEF Last
  <2>6. Chain(wire, decoding', n)
    BY <2>1, <2>2, <2>4, <2>5, ChainChanged
  <2>7. Says(wire, C, pos')
    BY <1>4, <2>4
  <2> QED
    BY <1>2, <2>2, <2>5, <2>6, <2>7 DEF ReadsWell, KeepsUp
<1> QED
  BY <1>3, <1>4

LEMMA CalledReads ==
    ASSUME Typed, NEW where, Decoding(where), ReadsWell,
           outcome' = outcome, stream' = stream, wire' = wire, decoding' = Append(decoding, NewDecode(pos')),
           Faithful /\ Says(wire, Decoder, pos) => At(wire, Decoder.start) = Resume(wire, Decoder, At(wire, pos'))
    PROVE  ReadsWell'
<1>1. decoding # <<>> /\ outcome = "none" /\ Decoder = decoding[Len(decoding)]
  BY DecodeTop DEF Decoding
<1>2. ~Ended'
  BY <1>1 DEF Ended
<1>3. CASE ~Faithful
  BY <1>3 DEF ReadsWell, Faithful
<1>4. CASE Faithful
  <2> DEFINE C == NewDecode(pos')
  <2>1. C.start = pos' /\ C.at = "head" /\ C.items = <<>>
    BY DEF NewDecode
  <2> HIDE DEF C
  <2>2. PICK n \in Nat : n = Len(decoding) /\ n >= 1
    BY <1>1, Called DEF C
  <2>3. /\ Len(decoding') = n + 1 /\ Last(decoding') = C
        /\ \A i \in 1..n : decoding'[i] = decoding[i]
    BY <1>1, <2>2, Called DEF C
  <2>4. KeepsUp(wire, decoding, pos)
    BY <1>1, <1>4 DEF ReadsWell
  <2>5. Chain(wire, decoding, n) /\ Says(wire, Decoder, pos)
    BY <2>2, <2>4, FollowsTop
  <2>6. At(wire, decoding[n].start) = Resume(wire, decoding[n], At(wire, pos'))
    BY <1>1, <1>4, <2>2, <2>5
  <2>7. decoding'[n + 1] = C
    BY <2>3 DEF Last
  <2>8. Chain(wire, decoding', n + 1)
    BY <2>1, <2>2, <2>3, <2>5, <2>6, <2>7, ChainPushed
  <2>9. Says(wire, C, pos')
    BY <2>1 DEF Says
  <2> QED
    BY <1>2, <2>3, <2>7, <2>8, <2>9 DEF ReadsWell, KeepsUp
<1> QED
  BY <1>3, <1>4

LEMMA DecodeHeadReads == ASSUME Typed, ReadsWell, DecodeHead PROVE ReadsWell'
<1> DEFINE h == HeadAt(wire, pos)
<1>1. Decoding("head") /\ UNCHANGED <<node, stream, inspect, encoding, out, encTree, wire, val, tree>>
  BY HeadStep
<1>2. /\ decoding # <<>> /\ outcome = "none" /\ IsDecode(Decoder, wire) /\ Decoder.at = "head"
      /\ wire \in Seq(Byte) /\ pos \in Nat /\ Len(wire) \in Nat /\ pos <= Len(wire)
  BY <1>1, DecodeTop DEF Decoding
<1>3. Faithful => Says(wire, Decoder, pos)
  BY <1>1, <1>2, FollowsTop DEF ReadsWell
<1>4. Faithful => Decoder.start = pos /\ Decoder.items = <<>>
  BY <1>2, <1>3 DEF Says
<1>5. At(wire, pos) = IF ~h.ok THEN NotParsed
                      ELSE NodeOf(h.class, h.tag, IsList(wire, pos),
                                  BodyOf(wire, IsList(wire, pos), h, Grammar(wire)))
  BY NodeParts DEF At
<1>6. CASE ~h.ok
  <2>1. outcome' = "EOFError" /\ decoding' = decoding
    BY <1>6, HeadStep
  <2>2. At(wire, pos) = NotParsed
    BY <1>5, <1>6
  <2>3. ~Faithful \/ ~At(wire, Decoder.start).ok
    BY <1>4, <2>2 DEF NotParsed
  <2>4. outcome' \in Errors
    BY <2>1 DEF Errors
  <2> QED
    BY <1>1, <2>1, <2>3, <2>4, RaisedReads
<1>7. CASE h.ok
  <2>1. /\ outcome' = outcome /\ pos' = h.at
        /\ \E C, D : /\ decoding' = WithDecoder(C) /\ SameCall(C, D)
                     /\ D = [Decoder EXCEPT !.at = "value", !.class = h.class, !.tag = h.tag,
                                            !.constructed = IsList(wire, pos),
                                            !.length = h.length, !.end = h.end]
    BY <1>7, HeadStep
  <2>2. PICK C, D : /\ decoding' = WithDecoder(C) /\ SameCall(C, D)
                    /\ D = [Decoder EXCEPT !.at = "value", !.class = h.class, !.tag = h.tag,
                                           !.constructed = IsList(wire, pos),
                                           !.length = h.length, !.end = h.end]
    BY <2>1
  <2>3. /\ D.at = "value" /\ D.class = h.class /\ D.tag = h.tag /\ D.length = h.length /\ D.end = h.end
        /\ D.start = Decoder.start /\ D.items = Decoder.items
    BY <1>2, <2>2 DEF IsDecode, DecodeFields
  <2>4. D.constructed = IsList(wire, pos)
    BY <1>2, <2>2 DEF IsDecode, DecodeFields
  <2>5. C.start = Decoder.start
    BY <2>2, <2>3 DEF SameCall
  <2>6. ASSUME Faithful PROVE Says(wire, D, h.at)
    <3>1. D.start = pos /\ D.items = <<>>
      BY <1>4, <2>3, <2>6
    <3>2. CASE IsList(wire, pos)
      <4>1. At(wire, pos) = Finish(wire, D, h.at)
        BY <1>2, <1>7, <2>3, <3>1, <3>2, ListStarts
      <4>2. D.constructed
        BY <2>4, <3>2, Zenon
      <4> HIDE DEF h
      <4> QED
        BY <2>3, <3>1, <4>1, <4>2 DEF Says
    <3>3. CASE ~IsList(wire, pos)
      <4>1. ~D.constructed
        BY <2>4, <3>3, Zenon
      <4>2. At(wire, pos) = NodeOf(h.class, h.tag, FALSE, PrimitiveAt(wire, h.class, h.tag, h.length, h.at, h.end))
        BY <1>5, <1>7, <3>3 DEF BodyOf, NodeOf
      <4> HIDE DEF h
      <4> QED
        BY <2>3, <3>1, <4>1, <4>2 DEF Says
    <3> QED
      BY <3>2, <3>3
  <2>7. Faithful => Says(wire, C, pos')
    BY <2>1, <2>2, <2>6, SaysSame
  <2> QED
    BY <1>1, <2>1, <2>2, <2>5, <2>7, ChangedReads
<1>8. h.ok \in BOOLEAN
  BY <1>2, HeadRange
<1> QED
  BY <1>6, <1>7, <1>8

LEMMA DecodePrimitiveReads == ASSUME Typed, ReadsWell, DecodePrimitive PROVE ReadsWell'
<1> DEFINE x == PrimitiveAt(wire, Decoder.class, Decoder.tag, Decoder.length, pos, Decoder.end)
<1>1. /\ Decoding("value") /\ ~Decoder.constructed /\ x.ok \in BOOLEAN
      /\ UNCHANGED <<node, stream, inspect, encoding, out, encTree, wire, val, tree>>
  BY PrimitiveStep
<1>2. decoding # <<>> /\ outcome = "none" /\ IsDecode(Decoder, wire) /\ Decoder.at = "value"
  BY <1>1, DecodeTop DEF Decoding
<1>3. Faithful => Says(wire, Decoder, pos)
  BY <1>1, <1>2, FollowsTop DEF ReadsWell
<1>4. Faithful => At(wire, Decoder.start) = NodeOf(Decoder.class, Decoder.tag, FALSE, x)
  BY <1>1, <1>2, <1>3 DEF Says
<1>5. CASE ~x.ok
  <2>1. outcome' \in Errors /\ decoding' = decoding
    BY <1>5, PrimitiveStep
  <2> HIDE DEF x
  <2>2. Faithful => At(wire, Decoder.start) = NotParsed
    BY <1>4, <1>5 DEF NodeOf
  <2>3. ~Faithful \/ ~At(wire, Decoder.start).ok
    BY <2>2 DEF NotParsed
  <2> QED
    BY <1>1, <2>1, <2>3, RaisedReads
<1>6. CASE x.ok
  <2>1. /\ outcome' = outcome /\ pos' = x.end
        /\ \E C, D : /\ decoding' = WithDecoder(C) /\ SameCall(C, D)
                     /\ D = [Decoder EXCEPT !.at = "return", !.value = x.value]
    BY <1>6, PrimitiveStep
  <2>2. PICK C, D : /\ decoding' = WithDecoder(C) /\ SameCall(C, D)
                    /\ D = [Decoder EXCEPT !.at = "return", !.value = x.value]
    BY <2>1
  <2> HIDE DEF x
  <2>3. /\ D.at = "return" /\ D.class = Decoder.class /\ D.tag = Decoder.tag /\ D.start = Decoder.start
        /\ D.value = x.value
    BY <1>2, <2>2 DEF IsDecode, DecodeFields
  <2>4. ~D.constructed
    <3>1. D.constructed = Decoder.constructed
      BY <1>2, <2>2 DEF IsDecode, DecodeFields
    <3> QED
      BY <1>1, <3>1, Zenon
  <2>5. C.start = Decoder.start
    BY <2>2, <2>3 DEF SameCall
  <2>6. ASSUME Faithful PROVE Says(wire, D, x.end)
    <3>1. At(wire, D.start) = Parsed(Node(D.class, D.tag, "no", D.value), x.end)
      BY <1>4, <1>6, <2>3, <2>6 DEF NodeOf
    <3> QED
      BY <2>3, <2>4, <3>1 DEF Says
  <2>7. Faithful => Says(wire, C, pos')
    BY <2>1, <2>2, <2>6, SaysSame
  <2> QED
    BY <1>1, <2>1, <2>2, <2>5, <2>7, ChangedReads
<1> QED
  BY <1>1, <1>5, <1>6

(* A list reads on as the grammar does: another item, or its end.          *)
LEMMA InListReads ==
    ASSUME Typed, ReadsWell, Decoding("value"), Decoder.constructed
    PROVE  /\ decoding # <<>> /\ outcome = "none" /\ IsDecode(Decoder, wire) /\ Decoder.at = "value"
           /\ wire \in Seq(Byte) /\ pos \in Nat /\ Len(wire) \in Nat /\ pos <= Len(wire)
           /\ Faithful => At(wire, Decoder.start) = Finish(wire, Decoder, pos)
<1>1. /\ decoding # <<>> /\ outcome = "none" /\ IsDecode(Decoder, wire) /\ Decoder.at = "value"
      /\ wire \in Seq(Byte) /\ pos \in Nat /\ Len(wire) \in Nat /\ pos <= Len(wire)
  BY DecodeTop DEF Decoding
<1>2. Faithful => Says(wire, Decoder, pos)
  BY <1>1, FollowsTop DEF ReadsWell
<1> QED
  BY <1>1, <1>2 DEF Says

LEMMA DecodeItemReads == ASSUME Typed, ReadsWell, DecodeItem PROVE ReadsWell'
<1>1. /\ Decoding("value") /\ Decoder.constructed /\ Decoder.length # -1 /\ pos < Decoder.end
      /\ decoding' = Append(decoding, NewDecode(pos))
      /\ UNCHANGED <<node, stream, inspect, encoding, out, encTree, wire, pos, val, tree, outcome>>
  BY DEF DecodeItem, InItemsOf, given, encoder
<1>2. /\ IsDecode(Decoder, wire) /\ wire \in Seq(Byte) /\ pos \in Nat /\ Len(wire) \in Nat /\ pos <= Len(wire)
      /\ Faithful => At(wire, Decoder.start) = Finish(wire, Decoder, pos)
  BY <1>1, InListReads
<1>3. PICK e \in Int : e = Decoder.end
  BY <1>2 DEF IsDecode
<1>4. pos # EndMark(Decoder) /\ pos <= Decoder.end
  BY <1>1, <1>2, <1>3 DEF EndMark
<1>5. Finish(wire, Decoder, pos) = Resume(wire, Decoder, At(wire, pos))
  BY <1>1, <1>2, <1>4, ItemRead
<1> QED
  BY <1>1, <1>2, <1>5, CalledReads

(* The call returns the list of the items read, which end at q.            *)
LEMMA ListReturned ==
    ASSUME NEW w, NEW C, IsDecode(C, w), C.constructed, NEW q,
           At(w, C.start) = Parsed(Node(C.class, C.tag, "yes", ListV(C.items)), q)
    PROVE  Says(w, ListOf(C), q)
<1> DEFINE D == ListOf(C)
<1>1. D.at = "return" /\ D.start = C.start /\ D.class = C.class /\ D.tag = C.tag /\ D.value = ListV(C.items)
  BY DEF ListOf, IsDecode, DecodeFields
<1>2. D.constructed
  <2>1. D.constructed = C.constructed
    BY DEF ListOf, IsDecode, DecodeFields
  <2> QED
    BY <2>1, Zenon
<1> HIDE DEF D
<1>3. Says(w, D, q)
  BY <1>1, <1>2 DEF Says
<1> QED
  BY <1>3 DEF D

LEMMA DecodeItemsEndReads == ASSUME Typed, ReadsWell, DecodeItemsEnd PROVE ReadsWell'
<1>1. /\ Decoding("value") /\ Decoder.constructed /\ Decoder.length # -1 /\ pos >= Decoder.end
      /\ UNCHANGED <<node, stream, inspect, encoding, out, encTree, wire, val, tree>>
  BY DEF DecodeItemsEnd, InItemsOf, given, encoder
<1>2. /\ IsDecode(Decoder, wire) /\ wire \in Seq(Byte) /\ pos \in Nat /\ Len(wire) \in Nat /\ pos <= Len(wire)
      /\ Faithful => At(wire, Decoder.start) = Finish(wire, Decoder, pos)
  BY <1>1, InListReads
<1>3. CASE pos # Decoder.end
  <2>1. outcome' = "ValueError" /\ decoding' = decoding
    BY <1>3 DEF DecodeItemsEnd, RaiseAt
  <2>2. PICK e \in Int : e = Decoder.end
    BY <1>2 DEF IsDecode
  <2>3. pos > Decoder.end
    BY <1>1, <1>2, <1>3, <2>2
  <2>4. Finish(wire, Decoder, pos) = NotParsed
    BY <1>1, <2>3 DEF Finish
  <2>5. ~Faithful \/ ~At(wire, Decoder.start).ok
    BY <1>2, <2>4 DEF NotParsed
  <2> QED
    BY <1>1, <2>1, <2>5, RaisedReads DEF Errors
<1>4. CASE pos = Decoder.end
  <2> DEFINE C == ListOf(Decoder)
  <2>1. outcome' = outcome /\ decoding' = WithDecoder(C) /\ pos' = pos
    BY <1>4 DEF DecodeItemsEnd
  <2>2. Finish(wire, Decoder, pos) = Parsed(Node(Decoder.class, Decoder.tag, "yes", ListV(Decoder.items)), pos)
    BY <1>1, <1>2, <1>4, ListEnds
  <2>3. Faithful => Says(wire, C, pos')
    BY <1>1, <1>2, <2>1, <2>2, ListReturned
  <2>4. C.start = Decoder.start
    BY <1>2, ListIsDecode
  <2> HIDE DEF C
  <2> QED
    BY <1>1, <2>1, <2>3, <2>4, ChangedReads
<1> QED
  BY <1>3, <1>4

LEMMA NothingFits ==
    ASSUME NEW w \in Seq(Byte), NEW p \in Nat, p <= Len(w), p + 2 > Len(w)
    PROVE  At(w, p) = NotParsed
<1>1. PICK n \in Nat : n = Len(w)
  BY LenProperties
<1>2. ~HeadAt(w, p).ok
  BY <1>1, HeadRange
<1> QED
  BY <1>2, NodeParts DEF At

LEMMA DecodeGreedyItemReads == ASSUME Typed, ReadsWell, DecodeGreedyItem PROVE ReadsWell'
<1>1. /\ Decoding("value") /\ Decoder.constructed /\ Decoder.length = -1
      /\ UNCHANGED <<node, stream, inspect, encoding, out, encTree, wire, val, tree>>
  BY DEF DecodeGreedyItem, InItemsOf, given, encoder
<1>2. /\ IsDecode(Decoder, wire) /\ wire \in Seq(Byte) /\ pos \in Nat /\ Len(wire) \in Nat /\ pos <= Len(wire)
      /\ Faithful => At(wire, Decoder.start) = Finish(wire, Decoder, pos)
  BY <1>1, InListReads
<1>3. PICK n \in Nat : n = Len(wire)
  BY <1>2
<1>4. Faithful => AfterPeek = pos
  BY <1>1, <1>2 DEF Faithful, IsDecode, AfterPeek
<1>5. ~MarkAt(wire, pos) => Finish(wire, Decoder, pos) = Resume(wire, Decoder, At(wire, pos))
  <2>1. pos # EndMark(Decoder)
    BY <1>1, <1>2 DEF EndMark
  <2> QED
    BY <1>1, <1>2, <2>1, ItemRead
<1>6. CASE pos + 2 > n
  <2>1. outcome' = "EOFError" /\ decoding' = decoding
    BY <1>3, <1>6 DEF DecodeGreedyItem, RaiseAt
  <2>2. At(wire, pos) = NotParsed
    BY <1>2, <1>3, <1>6, NothingFits
  <2>3. ~MarkAt(wire, pos)
    BY <1>2, <1>3, <1>6 DEF MarkAt
  <2>4. Finish(wire, Decoder, pos) = NotParsed
    BY <1>5, <2>2, <2>3 DEF Resume, NotParsed
  <2>5. ~Faithful \/ ~At(wire, Decoder.start).ok
    BY <1>2, <2>4 DEF NotParsed
  <2> QED
    BY <1>1, <2>1, <2>5, RaisedReads DEF Errors
<1>7. CASE pos + 2 <= n /\ SubSeq(wire, pos + 1, pos + 2) # <<0, 0>>
  <2>1. ~(pos + 2 > Len(wire))
    BY <1>2, <1>3, <1>7
  <2>2. pos' = AfterPeek /\ decoding' = Append(decoding, NewDecode(pos')) /\ outcome' = outcome
    BY <1>7, <2>1 DEF DecodeGreedyItem
  <2>3. Finish(wire, Decoder, pos) = Resume(wire, Decoder, At(wire, pos))
    BY <1>5, <1>7 DEF MarkAt
  <2>4. Faithful => At(wire, Decoder.start) = Resume(wire, Decoder, At(wire, pos'))
    BY <1>2, <1>4, <2>2, <2>3
  <2> QED
    BY <1>1, <2>2, <2>4, CalledReads
<1>8. CASE pos + 2 <= n /\ SubSeq(wire, pos + 1, pos + 2) = <<0, 0>> /\ AfterPeek + 2 > Len(wire)
  <2>1. ~(pos + 2 > Len(wire))
    BY <1>2, <1>3, <1>8
  <2>2. outcome' = "EOFError" /\ decoding' = decoding
    BY <1>8, <2>1 DEF DecodeGreedyItem, RaiseAt
  <2>3. ~Faithful
    BY <1>4, <1>8, <2>1
  <2> QED
    BY <1>1, <2>2, <2>3, RaisedReads DEF Errors
<1>9. CASE pos + 2 <= n /\ SubSeq(wire, pos + 1, pos + 2) = <<0, 0>> /\ ~(AfterPeek + 2 > Len(wire))
  <2> DEFINE D == ListOf(Decoder)
             C == WithLeaf(D, AfterPeek, AfterPeek + 2)
  <2>1. ~(pos + 2 > Len(wire))
    BY <1>2, <1>3, <1>9
  <2>2. outcome' = outcome /\ decoding' = WithDecoder(C) /\ pos' = AfterPeek + 2
    BY <1>9, <2>1 DEF DecodeGreedyItem
  <2>3. MarkAt(wire, pos)
    BY <1>3, <1>9 DEF MarkAt
  <2>4. Finish(wire, Decoder, pos) = Parsed(Node(Decoder.class, Decoder.tag, "yes", ListV(Decoder.items)), pos + 2)
    BY <1>1, <1>2, <2>3, MarkEnds
  <2>5. Faithful => Says(wire, D, pos')
    BY <1>1, <1>2, <1>4, <2>2, <2>4, ListReturned
  <2>6. DOMAIN D = DecodeFields /\ D.start = Decoder.start
    BY <1>2, ListIsDecode DEF IsDecode
  <2> HIDE DEF D
  <2>7. SameCall(C, D)
    BY <2>6, LeafAdded
  <2> HIDE DEF C
  <2>8. C.start = Decoder.start /\ (Faithful => Says(wire, C, pos'))
    BY <2>5, <2>6, <2>7, SaysSame DEF SameCall
  <2> QED
    BY <1>1, <2>2, <2>8, ChangedReads
<1>10. pos + 2 > n \/ pos + 2 <= n
  BY <1>2
<1> QED
  BY <1>6, <1>7, <1>8, <1>9, <1>10

LEMMA ReturnNodeReads == ASSUME Typed, ReadsWell, ReturnNode PROVE ReadsWell'
<1>1. Decoding("return") /\ UNCHANGED <<node, stream, inspect, encoding, out, encTree, wire, pos>>
  BY ReturnStep
<1>2. /\ decoding # <<>> /\ outcome = "none" /\ Decoder.at = "return" /\ Decoder = decoding[Len(decoding)]
      /\ Len(decoding) \in Nat /\ Len(decoding) >= 1
  BY <1>1, DecodeTop DEF Decoding
<1>3. PICK n \in Nat : n = Len(decoding) /\ n >= 1
  BY <1>2
<1>4. CASE ~Faithful
  BY <1>1, <1>4 DEF ReadsWell, Faithful
<1>5. CASE Faithful
  <2>1. KeepsUp(wire, decoding, pos)
    BY <1>2, <1>5 DEF ReadsWell
  <2>2. Chain(wire, decoding, n) /\ Says(wire, Decoder, pos)
    BY <1>1, <1>3, <2>1, FollowsTop
  <2>3. At(wire, Decoder.start) = Parsed(NodeRead, pos)
    BY <1>2, <2>2 DEF Says, NodeRead
  <2>4. CASE n = 1
    <3>1. val' = NodeRead /\ decoding' = <<>> /\ outcome' = "ok"
      BY <1>3, <2>4, ReturnStep
    <3>2. Decoder.start = 0
      BY <1>2, <1>3, <2>2, <2>4 DEF Chain
    <3>3. At(wire, 0).ok = TRUE /\ At(wire, 0).value = NodeRead /\ At(wire, 0).end = pos
      BY <2>3, <3>2 DEF Parsed
    <3>4. Right'
      BY <1>1, <3>1, <3>3 DEF Right
    <3> QED
      BY <3>1, <3>4 DEF ReadsWell
  <2>5. CASE n # 1
    <3>1. /\ outcome' = outcome /\ Len(decoding') = n - 1
          /\ \A i \in 1..(n - 2) : decoding'[i] = decoding[i]
          /\ \E D : D = [decoding[n - 1] EXCEPT !.items = Append(@, NodeRead)] /\ SameCall(decoding'[n - 1], D)
      BY <1>3, <2>5, ReturnStep
    <3>2. PICK D : D = [decoding[n - 1] EXCEPT !.items = Append(@, NodeRead)] /\ SameCall(decoding'[n - 1], D)
      BY <3>1
    <3>3. PICK m \in Nat : m = n - 1 /\ m >= 1 /\ m \in 1..n /\ m \in 1..(n - 1) /\ n - 2 = m - 1 /\ m + 1 = n
      BY <1>3, <2>5
    <3> DEFINE B == decoding[m]
               C == decoding'[m]
    <3>4. IsDecode(B, wire) /\ B.at = "value" /\ B.constructed
      BY <1>3, <3>3 DEF Typed, DecodeCalls
    <3>5. At(wire, B.start) = Resume(wire, B, At(wire, Decoder.start))
      BY <1>2, <1>3, <2>2, <3>3 DEF Chain
    <3>6. D = [B EXCEPT !.items = Append(@, NodeRead)] /\ SameCall(C, D)
      BY <3>2, <3>3
    <3> HIDE DEF B, C
    <3>7. At(wire, B.start) = Finish(wire, D, pos)
      <4>1. /\ At(wire, Decoder.start).ok = TRUE /\ At(wire, Decoder.start).end = pos
            /\ At(wire, Decoder.start).value = NodeRead
        BY <2>3 DEF Parsed
      <4> QED
        BY <3>5, <3>6, <4>1 DEF Resume
    <3>8. D.start = B.start /\ D.at = "value"
      BY <3>4, <3>6 DEF IsDecode, DecodeFields
    <3>9. D.constructed
      <4>1. D.constructed = B.constructed
        BY <3>4, <3>6 DEF IsDecode, DecodeFields
      <4> QED
        BY <3>4, <4>1, Zenon
    <3>10. Says(wire, D, pos)
      BY <3>7, <3>8, <3>9 DEF Says
    <3>11. Says(wire, C, pos) /\ C.start = B.start
      BY <3>6, <3>8, <3>10, SaysSame DEF SameCall
    <3>12. Chain(wire, decoding, m)
      BY <2>2, <3>3, ChainPopped
    <3>13. \A i \in 1..(m - 1) : decoding'[i] = decoding[i]
      BY <3>1, <3>3
    <3>14. Chain(wire, decoding', m)
      BY <3>3, <3>11, <3>12, <3>13, ChainChanged DEF B, C
    <3>15. KeepsUp(wire, decoding', pos)
      BY <3>1, <3>3, <3>11, <3>14 DEF KeepsUp, C
    <3>16. ~Ended'
      BY <1>2, <3>1 DEF Ended
    <3> QED
      BY <1>1, <3>15, <3>16 DEF ReadsWell
  <2> QED
    BY <2>4, <2>5
<1> QED
  BY <1>4, <1>5

(* A decode that begins.                                                   *)
LEMMA BeginReads ==
    ASSUME NEW w \in Seq(Byte), NEW calls, calls = <<NewDecode(0)>>
    PROVE  KeepsUp(w, calls, 0)
<1>1. Len(calls) = 1 /\ calls[1] = NewDecode(0)
  OBVIOUS
<1>2. calls[1].start = 0 /\ calls[1].at = "head" /\ calls[1].items = <<>>
  BY <1>1 DEF NewDecode
<1>3. Chain(w, calls, 1)
  <2>1. ASSUME NEW i \in 1..1 PROVE ~At(w, calls[i].start).ok => ~At(w, 0).ok
    <3>1. i = 1
      OBVIOUS
    <3> QED
      BY <1>2, <3>1
  <2>2. 1..(1 - 1) = {}
    OBVIOUS
  <2> QED
    BY <1>2, <2>1, <2>2 DEF Chain
<1>4. Says(w, calls[1], 0)
  BY <1>2 DEF Says
<1> QED
  BY <1>1, <1>3, <1>4 DEF KeepsUp

LEMMA DecodeAgainReads == ASSUME Typed, DecodeAgain PROVE ReadsWell'
<1>1. outcome = "encoded" /\ outcome' = "none" /\ wire' = out /\ decoding' = <<NewDecode(0)>> /\ pos' = pos
  BY DEF DecodeAgain
<1>2. pos = 0 /\ out \in Seq(Byte)
  BY <1>1 DEF Typed, Turns, Bytes
<1>3. wire' \in Seq(Byte) /\ pos' = 0
  BY <1>1, <1>2
<1>4. KeepsUp(wire', decoding', pos')
  BY <1>1, <1>3, BeginReads
<1> QED
  BY <1>1, <1>4 DEF ReadsWell, Ended

LEMMA InitReads == ASSUME NodesSound, Init PROVE ReadsWell
<1>1. pos = 0 /\ outcome = "none" /\ (decoding = <<>> \/ decoding = <<NewDecode(0)>>)
  BY DEF Init
<1>2. wire \in Seq(Byte)
  BY InitTyped DEF Typed, Bytes
<1>3. decoding # <<>> => KeepsUp(wire, decoding, pos)
  BY <1>1, <1>2, BeginReads
<1> QED
  BY <1>1, <1>3 DEF ReadsWell, Ended

(* While a node is encoded nothing is there to read.                       *)
LEMMA EncodeReads ==
    ASSUME Typed, Encoding, wire' = wire, decoding' = decoding,
           outcome' \in {"none", "encoded"} \cup Errors
    PROVE  ReadsWell'
<1>1. decoding' = <<>> /\ wire' = <<>>
  BY EncoderTop
<1>2. At(wire', 0) = NotParsed
  BY <1>1, NothingRead DEF At
<1>3. Right'
  BY <1>2 DEF Right, NotParsed, Errors
<1> QED
  BY <1>1, <1>3 DEF ReadsWell

LEMMA NextReads == ASSUME Typed, ReadsWell, [Next]_vars PROVE ReadsWell'
<1>1. CASE EncodeRefused
  <2>1. Encoding /\ wire' = wire /\ decoding' = decoding /\ outcome' \in Errors
    BY <1>1, EncodeErrors DEF EncodeRefused, Raise, decoder, Errors
  <2> QED
    BY <2>1, EncodeReads
<1>2. CASE EncodeItem
  <2>1. Encoding /\ wire' = wire /\ decoding' = decoding /\ outcome' = "none"
    BY <1>2 DEF EncodeItem, Encoding, decoder
  <2> QED
    BY <2>1, EncodeReads
<1>3. CASE EncodeNode
  <2>1. Encoding /\ wire' = wire /\ decoding' = decoding
    BY <1>3 DEF EncodeNode, decoder
  <2>2. outcome' \in {"none", "encoded"}
    BY <1>3, <2>1 DEF EncodeNode, Encoding
  <2> QED
    BY <2>1, <2>2, EncodeReads
<1>4. CASE DecodeAgain
  BY <1>4, DecodeAgainReads
<1>5. CASE DecodeHead
  BY <1>5, DecodeHeadReads
<1>6. CASE DecodePrimitive
  BY <1>6, DecodePrimitiveReads
<1>7. CASE DecodeItem
  BY <1>7, DecodeItemReads
<1>8. CASE DecodeItemsEnd
  BY <1>8, DecodeItemsEndReads
<1>9. CASE DecodeGreedyItem
  BY <1>9, DecodeGreedyItemReads
<1>10. CASE ReturnNode
  BY <1>10, ReturnNodeReads
<1>11. CASE UNCHANGED vars
  BY <1>11 DEF vars, given, encoder, decoder, ReadsWell, Faithful, Ended, Right
<1> QED
  BY <1>1, <1>2, <1>3, <1>4, <1>5, <1>6, <1>7, <1>8, <1>9, <1>10, <1>11 DEF Next, Terminated

(* Whatever the bytes, a decode that ends has read exactly what the        *)
(* grammar says stands there: it succeeds where a node is well-formed      *)
(* however deep, with that node and right behind it, and raises elsewhere. *)
THEOREM WellFormedIsDecoded == ASSUME NodesSound PROVE Spec => []DecodesWellFormed
<1>1. Init => Typed /\ ReadsWell
  BY InitTyped, InitReads
<1>2. Typed /\ ReadsWell /\ [Next]_vars => (Typed /\ ReadsWell)'
  BY NextTyped, NextReads
<1>3. Typed /\ ReadsWell => DecodesWellFormed
  BY DEF ReadsWell, Faithful, Right, DecodesWellFormed, First, At
<1> QED
  BY <1>1, <1>2, <1>3, PTL DEF Spec
=============================================================================
