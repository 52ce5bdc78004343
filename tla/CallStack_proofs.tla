-------------------------- MODULE CallStack_proofs --------------------------
(***************************************************************************)
(* Lemmas that the proofs about Decode and Encode share: sequences of      *)
(* elements of no particular set, ranks in a set of indices, what a call   *)
(* stack says when a frame is pushed, popped or changed, and sizes.        *)
(***************************************************************************)
EXTENDS CallStack, SequenceTheorems, FiniteSetTheorems, WellFoundedInduction, TLAPS

-----------------------------------------------------------------------------
(* Sequences of whatever elements.                                         *)
IsSeq(s) == Len(s) \in Nat /\ s = [i \in 1..Len(s) |-> s[i]]

(* A function on 1..n is a sequence of length n.                           *)
LEMMA IsSeqIntro ==
    ASSUME NEW n \in Nat, NEW s, s = [i \in 1..n |-> s[i]]
    PROVE  IsSeq(s) /\ Len(s) = n
<1> DEFINE S == {s[i] : i \in 1..n}
<1>1. s \in [1..n -> S]
  OBVIOUS
<1>2. s \in Seq(S)
  BY <1>1, SeqDef
<1>3. Len(s) \in Nat /\ DOMAIN s = 1..Len(s)
  BY <1>2, LenProperties
<1>4. Len(s) = n
  BY <1>1, <1>3
<1> QED
  BY <1>4 DEF IsSeq

(* ... and is one over a set of its own.                                   *)
LEMMA IsSeqElim ==
    ASSUME NEW s, IsSeq(s), NEW T
    PROVE  \E S : s \in Seq(S) /\ T \subseteq S
<1> DEFINE S == {s[i] : i \in 1..Len(s)} \cup T
<1>1. s \in [1..Len(s) -> S]
  BY DEF IsSeq
<1>2. s \in Seq(S)
  BY <1>1, SeqDef DEF IsSeq
<1> QED
  BY <1>2

(* A typed sequence is a sequence.                                         *)
LEMMA SeqIsSeq == ASSUME NEW S, NEW s \in Seq(S) PROVE IsSeq(s)
  BY LenProperties DEF IsSeq

(* The shortest sequences.                                                 *)
LEMMA ShortSeqs ==
    /\ IsSeq(<<>>)
    /\ \A x : IsSeq(<<x>>) /\ Len(<<x>>) = 1 /\ <<x>>[1] = x
  BY DEF IsSeq

LEMMA AppendSeq ==
    ASSUME NEW s, IsSeq(s), NEW x
    PROVE  /\ IsSeq(Append(s, x))
           /\ Len(Append(s, x)) = Len(s) + 1
           /\ Append(s, x)[Len(s) + 1] = x
           /\ \A i \in 1..Len(s) : Append(s, x)[i] = s[i]
<1>1. PICK S : s \in Seq(S) /\ {x} \subseteq S
  BY IsSeqElim
<1>2. Append(s, x) \in Seq(S)
  BY <1>1
<1>3. IsSeq(Append(s, x))
  BY <1>2, SeqIsSeq
<1> QED
  BY <1>1, <1>3

LEMMA UnderSeq ==
    ASSUME NEW s, IsSeq(s), Len(s) > 0
    PROVE  /\ IsSeq(Under(s))
           /\ Len(Under(s)) = Len(s) - 1
           /\ \A i \in 1..(Len(s) - 1) : Under(s)[i] = s[i]
<1>1. PICK S : s \in Seq(S)
  BY IsSeqElim
<1>2. PICK n \in Nat : n = Len(s) - 1
  BY DEF IsSeq
<1>3. \A i \in 1..n : s[i] \in S
  BY <1>1, <1>2, ElementOfSeq
<1>4. /\ SubSeq(s, 1, n) \in Seq(S)
      /\ Len(SubSeq(s, 1, n)) = IF 1 <= n THEN n - 1 + 1 ELSE 0
      /\ \A i \in 1..(n - 1 + 1) : SubSeq(s, 1, n)[i] = s[1 + i - 1]
  BY <1>3, SubSeqProperties
<1>5. IsSeq(SubSeq(s, 1, n))
  BY <1>4, SeqIsSeq
<1>6. Len(SubSeq(s, 1, n)) = n
  BY <1>4, SMT
<1>7. \A i \in 1..n : SubSeq(s, 1, n)[i] = s[i]
  BY <1>4
<1> QED
  BY <1>2, <1>5, <1>6, <1>7 DEF Under

LEMMA ExceptIsSeq ==
    ASSUME NEW s, IsSeq(s), NEW i, NEW x, NEW t, t = [s EXCEPT ![i] = x]
    PROVE  /\ IsSeq(t)
           /\ Len(t) = Len(s)
           /\ \A j \in 1..Len(s) : t[j] = IF j = i THEN x ELSE s[j]
<1>1. DOMAIN s = 1..Len(s) /\ Len(s) \in Nat
  BY DEF IsSeq
<1>2. t = [j \in 1..Len(s) |-> t[j]]
  BY <1>1
<1>3. \A j \in 1..Len(s) : t[j] = IF j = i THEN x ELSE s[j]
  BY <1>1
<1> QED
  BY <1>1, <1>2, <1>3, IsSeqIntro

LEMMA UnderAppend == ASSUME NEW s, IsSeq(s), NEW x PROVE Under(Append(s, x)) = s
<1> DEFINE t == Under(Append(s, x))
<1>1. Len(s) \in Nat
  BY DEF IsSeq
<1>2. /\ IsSeq(Append(s, x)) /\ Len(Append(s, x)) = Len(s) + 1
      /\ \A i \in 1..Len(s) : Append(s, x)[i] = s[i]
  BY AppendSeq
<1>3. IsSeq(t) /\ Len(t) = Len(s) /\ \A i \in 1..Len(s) : t[i] = s[i]
  <2>1. Len(Append(s, x)) > 0 /\ Len(Append(s, x)) - 1 = Len(s)
    BY <1>1, <1>2
  <2> QED
    BY <1>2, <2>1, UnderSeq
<1> HIDE DEF t
<1> QED
  BY <1>3 DEF IsSeq, t

(* Elements of a sequence that grows or shrinks at its end.                *)
LEMMA AppendKeeps ==
    ASSUME NEW s, IsSeq(s), NEW S, \A i \in 1..Len(s) : s[i] \in S, NEW x \in S
    PROVE  \A i \in 1..Len(Append(s, x)) : Append(s, x)[i] \in S
  BY AppendSeq DEF IsSeq

LEMMA UnderKeeps ==
    ASSUME NEW s, IsSeq(s), Len(s) > 0, NEW S, \A i \in 1..Len(s) : s[i] \in S
    PROVE  \A i \in 1..Len(Under(s)) : Under(s)[i] \in S
<1>1. PICK n \in Nat : n = Len(s)
  BY DEF IsSeq
<1>2. Len(Under(s)) = n - 1 /\ \A i \in 1..(n - 1) : Under(s)[i] = s[i]
  BY <1>1, UnderSeq
<1> QED
  BY <1>1, <1>2

LEMMA ExtendsTrans ==
    ASSUME NEW s, NEW p, NEW q, IsSeq(s), IsSeq(p), IsSeq(q), Extends(s, p), Extends(p, q)
    PROVE  Extends(s, q)
  BY DEF Extends, IsSeq

LEMMA ExtendsAppend ==
    ASSUME NEW s, NEW p, NEW x, IsSeq(s), IsSeq(p), Extends(s, p)
    PROVE  Extends(Append(s, x), p) /\ Len(Append(s, x)) > Len(p)
  BY AppendSeq DEF Extends, IsSeq

LEMMA ExtendsUnder ==
    ASSUME NEW s, NEW p, IsSeq(s), IsSeq(p), Extends(s, p), Len(s) > Len(p)
    PROVE  IsSeq(Under(s)) /\ Extends(Under(s), p)
<1>1. Len(s) > 0 /\ Len(p) \in Nat /\ Len(s) \in Nat
  BY DEF IsSeq
<1> QED
  BY <1>1, UnderSeq DEF Extends

-----------------------------------------------------------------------------
(* Sequences that list the items of a function.                            *)
LEMMA FiniteUpto == ASSUME NEW n \in Nat, NEW S, S \subseteq 0..n PROVE IsFiniteSet(S)
<1>1. 0 \in Int /\ n \in Int
  OBVIOUS
<1>2. IsFiniteSet(0..n)
  BY <1>1, FS_Interval
<1>3. S \in SUBSET (0..n)
  OBVIOUS
<1> QED
  BY <1>2, <1>3, FS_Subset, Zenon

LEMMA RankInside ==
    ASSUME NEW n \in Nat, NEW S, S \subseteq 0..n, NEW i \in S
    PROVE  Rank(S, i) \in 1..Cardinality(S) /\ Cardinality(S) \in Nat
<1> DEFINE T == {j \in S : j <= i}
<1>1. IsFiniteSet(S)
  BY FiniteUpto
<1>2. IsFiniteSet(T) /\ Cardinality(T) <= Cardinality(S)
  BY <1>1, FS_Subset
<1>3. T # {}
  BY DEF T
<1>4. Cardinality(T) \in Nat /\ Cardinality(T) # 0 /\ Cardinality(S) \in Nat
  BY <1>1, <1>2, <1>3, FS_EmptySet, FS_CardinalityType
<1> QED
  BY <1>2, <1>4 DEF Rank

LEMMA RankOfNext ==
    ASSUME NEW n \in Nat, NEW S, S \subseteq 0..n, NEW T, T = S \cup {n + 1}
    PROVE  /\ Cardinality(S) \in Nat
           /\ Cardinality(T) = Cardinality(S) + 1
           /\ Rank(T, n + 1) = Cardinality(S) + 1
           /\ \A i \in S : Rank(T, i) = Rank(S, i)
<1>1. IsFiniteSet(S)
  BY FiniteUpto
<1>2. n + 1 \notin S
  OBVIOUS
<1>3. Cardinality(T) = Cardinality(S) + 1
  BY <1>1, <1>2, FS_AddElement
<1>4. {j \in T : j <= n + 1} = T
  <2>1. \A j \in T : j <= n + 1
    OBVIOUS
  <2> QED
    BY <2>1, Zenon
<1>5. ASSUME NEW i \in S PROVE {j \in T : j <= i} = {j \in S : j <= i}
  OBVIOUS
<1> QED
  BY <1>1, <1>3, <1>4, <1>5, FS_CardinalityType DEF Rank

LEMMA ListsAppend ==
    ASSUME NEW n \in Nat, NEW s, IsSeq(s), NEW x, NEW old, NEW more,
           DOMAIN old \subseteq 0..n, Lists(s, old),
           DOMAIN more = DOMAIN old \cup {n + 1}, more[n + 1] = x,
           \A i \in DOMAIN old : more[i] = old[i]
    PROVE  Lists(Append(s, x), more)
<1> DEFINE S == DOMAIN old
           T == DOMAIN more
<1>1. Len(s) = Cardinality(S) /\ \A i \in S : s[Rank(S, i)] = old[i]
  BY DEF Lists
<1>2. /\ Cardinality(S) \in Nat /\ Cardinality(T) = Cardinality(S) + 1
      /\ Rank(T, n + 1) = Cardinality(S) + 1
      /\ \A i \in S : Rank(T, i) = Rank(S, i)
  BY RankOfNext
<1>3. \A i \in S : Rank(S, i) \in 1..Len(s)
  BY <1>1, RankInside
<1>4. /\ Len(Append(s, x)) = Len(s) + 1 /\ Append(s, x)[Len(s) + 1] = x
      /\ \A k \in 1..Len(s) : Append(s, x)[k] = s[k]
  BY AppendSeq
<1>5. ASSUME NEW i \in T PROVE Append(s, x)[Rank(T, i)] = more[i]
  <2>1. CASE i \in S
    <3>1. Append(s, x)[Rank(S, i)] = s[Rank(S, i)]
      BY <1>3, <1>4, <2>1
    <3> QED
      BY <1>1, <1>2, <2>1, <3>1
  <2>2. CASE i = n + 1
    BY <1>1, <1>2, <1>4, <2>2
  <2> QED
    BY <2>1, <2>2
<1> QED
  BY <1>1, <1>2, <1>4, <1>5 DEF Lists

(* The last item goes.                                                     *)
LEMMA ListsUnder ==
    ASSUME NEW n \in Nat, NEW s, IsSeq(s), NEW old, NEW more,
           DOMAIN old \subseteq 0..n, Lists(s, more),
           DOMAIN more = DOMAIN old \cup {n + 1},
           \A i \in DOMAIN old : more[i] = old[i]
    PROVE  Len(s) > 0 /\ Lists(Under(s), old)
<1> DEFINE S == DOMAIN old
           T == DOMAIN more
<1>1. Len(s) = Cardinality(T) /\ \A i \in T : s[Rank(T, i)] = more[i]
  BY DEF Lists
<1>2. /\ Cardinality(S) \in Nat /\ Cardinality(T) = Cardinality(S) + 1
      /\ \A i \in S : Rank(T, i) = Rank(S, i)
  BY RankOfNext
<1>3. Len(s) > 0 /\ Len(s) - 1 = Cardinality(S)
  BY <1>1, <1>2
<1>4. Len(Under(s)) = Cardinality(S) /\ \A k \in 1..Cardinality(S) : Under(s)[k] = s[k]
  BY <1>3, UnderSeq
<1>5. ASSUME NEW i \in S PROVE Under(s)[Rank(S, i)] = old[i]
  <2>1. Rank(S, i) \in 1..Cardinality(S)
    BY RankInside
  <2> QED
    BY <1>1, <1>2, <1>4, <2>1
<1> QED
  BY <1>3, <1>4, <1>5 DEF Lists

(* A greater index has a greater rank.                                     *)
LEMMA RankIncreases ==
    ASSUME NEW n \in Nat, NEW S, S \subseteq 0..n, NEW i \in S, NEW j \in S, i < j
    PROVE  Rank(S, i) < Rank(S, j)
<1> DEFINE A == {k \in S : k <= i}
           B == {k \in S : k <= j}
<1>0. \A k \in S : k \in Nat
  OBVIOUS
<1>1. A \subseteq S /\ B \subseteq S /\ A \subseteq B /\ j \in B /\ j \notin A
  <2>1. \A k \in S : k <= i => k <= j
    BY <1>0
  <2>2. j <= j /\ ~(j <= i)
    BY <1>0
  <2> QED
    BY <2>1, <2>2, Zenon
<1>2. IsFiniteSet(S)
  BY FiniteUpto
<1>3. IsFiniteSet(A) /\ IsFiniteSet(B)
  BY <1>1, <1>2, FS_Subset
<1>4. Cardinality(A) <= Cardinality(B) /\ (Cardinality(B) = Cardinality(A) => B = A)
  BY <1>1, <1>3, FS_Subset
<1>5. Cardinality(A) # Cardinality(B)
  BY <1>1, <1>4
<1>6. Cardinality(A) \in Nat /\ Cardinality(B) \in Nat
  BY <1>3, FS_CardinalityType
<1> QED
  BY <1>4, <1>5, <1>6 DEF Rank

(* Indices of the same rank are the same.                                  *)
LEMMA RankTells ==
    ASSUME NEW n \in Nat, NEW S, S \subseteq 0..n, NEW i \in S, NEW j \in S, Rank(S, i) = Rank(S, j)
    PROVE  i = j
<1>0. Rank(S, i) \in 1..Cardinality(S) /\ Cardinality(S) \in Nat
  BY RankInside
<1>1. Rank(S, i) \in Nat
  BY <1>0
<1>2. i < j => Rank(S, i) < Rank(S, j)
  BY RankIncreases
<1>3. j < i => Rank(S, j) < Rank(S, i)
  BY RankIncreases
<1> QED
  BY <1>1, <1>2, <1>3

(* A set of indices, renumbered.                                           *)
Renumbered(S, A) == {Rank(S, i) : i \in A}

LEMMA RenumberedSize ==
    ASSUME NEW n \in Nat, NEW S, S \subseteq 0..n, NEW A, A \subseteq S
    PROVE  /\ IsFiniteSet(Renumbered(S, A))
           /\ Cardinality(Renumbered(S, A)) = Cardinality(A)
           /\ Renumbered(S, A) \subseteq 1..Cardinality(S)
<1> DEFINE B == Renumbered(S, A)
           f == [i \in A |-> Rank(S, i)]
<1>1. IsFiniteSet(A)
  BY FiniteUpto
<1>2. f \in [A -> B] /\ \A b \in B : \E a \in A : f[a] = b
  BY DEF Renumbered
<1>3. \A a \in A, b \in A : f[a] = f[b] => a = b
  BY RankTells
<1>4. f \in Bijection(A, B)
  BY <1>2, <1>3 DEF Bijection, Injection, Surjection, IsInjective
<1>5. ExistsBijection(A, B)
  BY <1>4 DEF ExistsBijection
<1>6. IsFiniteSet(B) /\ Cardinality(B) = Cardinality(A)
  BY <1>1, <1>5, FS_Bijection
<1>7. B \subseteq 1..Cardinality(S)
  BY RankInside DEF Renumbered
<1> QED
  BY <1>6, <1>7

(* The ranks are those from one up.                                        *)
LEMMA RankReaches ==
    ASSUME NEW n \in Nat, NEW S, S \subseteq 0..n, NEW r \in 1..Cardinality(S)
    PROVE  \E i \in S : Rank(S, i) = r
<1> DEFINE B == Renumbered(S, S)
           m == Cardinality(S)
<1>1. IsFiniteSet(S)
  BY FiniteUpto
<1>2. m \in Nat
  BY <1>1, FS_CardinalityType
<1>3. B \in SUBSET (1..m) /\ Cardinality(B) = m
  BY RenumberedSize
<1>4. IsFiniteSet(1..m) /\ Cardinality(1..m) = m
  <2>1. IsFiniteSet(1..m) /\ Cardinality(1..m) = IF 1 > m THEN 0 ELSE m - 1 + 1
    BY <1>2, FS_Interval
  <2> QED
    BY <1>2, <2>1
<1> HIDE DEF m
<1>5. 1..m = B
  BY <1>3, <1>4, FS_Subset
<1>6. r \in B
  BY <1>5 DEF m
<1> QED
  BY <1>6 DEF Renumbered

(* Renumbering keeps the order.                                            *)
LEMMA RankOfRank ==
    ASSUME NEW n \in Nat, NEW S, S \subseteq 0..n, NEW A, A \subseteq S, NEW a \in A
    PROVE  Rank(Renumbered(S, A), Rank(S, a)) = Rank(A, a)
<1> DEFINE C == {i \in A : i <= a}
           D == {r \in Renumbered(S, A) : r <= Rank(S, a)}
<1>0. \A i \in S : Rank(S, i) \in 1..Cardinality(S) /\ Cardinality(S) \in Nat
  BY RankInside
<1>1. \A i \in S : Rank(S, i) \in Nat
  BY <1>0
<1>2. \A i \in A : Rank(S, i) <= Rank(S, a) <=> i <= a
  <2> SUFFICES ASSUME NEW i \in A PROVE Rank(S, i) <= Rank(S, a) <=> i <= a
    OBVIOUS
  <2>1. a < i => Rank(S, a) < Rank(S, i)
    BY RankIncreases
  <2>2. i < a => Rank(S, i) < Rank(S, a)
    BY RankIncreases
  <2>3. Rank(S, i) \in Nat /\ Rank(S, a) \in Nat /\ i \in Nat /\ a \in Nat
    BY <1>1
  <2> QED
    BY <2>1, <2>2, <2>3
<1>3. D = Renumbered(S, C)
  BY <1>2, Zenon DEF Renumbered
<1>4. C \subseteq S
  OBVIOUS
<1>5. ASSUME NEW E, E = C PROVE Cardinality(Renumbered(S, E)) = Cardinality(E)
  BY <1>4, <1>5, RenumberedSize
<1> QED
  BY <1>3, <1>5 DEF Rank

(* What a call stack says of its lowest frames depends on those alone.     *)
LEMMA KeysLocal ==
    ASSUME NEW stack, NEW other, NEW n,
           \A i \in 1..n : IsContainer(other[i]) = IsContainer(stack[i]) /\ other[i].item = stack[i].item
    PROVE  KeysUpto(other, n) = KeysUpto(stack, n)
<1>1. {i \in 1..n : IsContainer(other[i])} = {i \in 1..n : IsContainer(stack[i])}
  OBVIOUS
<1> QED
  BY <1>1 DEF KeysUpto

LEMMA ScopesLocal ==
    ASSUME NEW field, NEW base, NEW stack, NEW other, NEW n,
           \A i \in 1..n : IsOpenMap(other[i]) = IsOpenMap(stack[i]) /\ other[i][field] = stack[i][field]
    PROVE  ScopesOf(field, base, other, n) = ScopesOf(field, base, stack, n)
<1>1. {i \in 1..n : IsOpenMap(other[i])} = {i \in 1..n : IsOpenMap(stack[i])}
  OBVIOUS
<1>2. 0 \notin 1..n
  OBVIOUS
<1> QED
  BY <1>1 DEF ScopesOf

(* Below the first frame there is nothing but the base.                    *)
LEMMA EmptyStack ==
    ASSUME NEW field, NEW base, NEW stack
    PROVE  Lists(<<base>>, ScopesOf(field, base, stack, 0)) /\ Lists(<<>>, KeysUpto(stack, 0))
<1>1. {j \in 1..0 : IsOpenMap(stack[j])} = {} /\ {j \in 1..0 : IsContainer(stack[j])} = {}
  OBVIOUS
<1>2. /\ DOMAIN ScopesOf(field, base, stack, 0) = {0} /\ ScopesOf(field, base, stack, 0)[0] = base
      /\ DOMAIN KeysUpto(stack, 0) = {}
  BY <1>1 DEF ScopesOf, KeysUpto
<1>3. {j \in {0} : j <= 0} = {0}
  OBVIOUS
<1>4. Cardinality({0}) = 1 /\ Cardinality({}) = 0
  BY FS_Singleton, FS_EmptySet
<1>5. Rank({0}, 0) = 1
  BY <1>3, <1>4 DEF Rank
<1>6. Lists(<<base>>, ScopesOf(field, base, stack, 0))
  BY <1>2, <1>4, <1>5 DEF Lists
<1>7. Lists(<<>>, KeysUpto(stack, 0))
  BY <1>2, <1>4 DEF Lists
<1> QED
  BY <1>6, <1>7

(* One more frame: an open mapping adds its own, a container its key.      *)
LEMMA ScopesGrow ==
    ASSUME NEW field, NEW base, NEW stack, NEW n \in Nat, NEW s, IsSeq(s),
           Lists(s, ScopesOf(field, base, stack, n))
    PROVE  Lists(IF IsOpenMap(stack[n + 1]) THEN Append(s, stack[n + 1][field]) ELSE s,
                 ScopesOf(field, base, stack, n + 1))
<1> DEFINE old == ScopesOf(field, base, stack, n)
           more == ScopesOf(field, base, stack, n + 1)
<1>1. DOMAIN old = {0} \cup {i \in 1..n : IsOpenMap(stack[i])}
      /\ DOMAIN more = {0} \cup {i \in 1..(n + 1) : IsOpenMap(stack[i])}
  BY DEF ScopesOf
<1>2. \A i \in DOMAIN old : i \in DOMAIN more /\ more[i] = old[i]
  BY <1>1 DEF ScopesOf
<1>3. CASE IsOpenMap(stack[n + 1])
  <2>1. DOMAIN more = DOMAIN old \cup {n + 1} /\ DOMAIN old \subseteq 0..n
    <3>1. 1..(n + 1) = (1..n) \cup {n + 1} /\ 1..n \subseteq 0..n
      OBVIOUS
    <3>2. {i \in 1..(n + 1) : IsOpenMap(stack[i])} = {i \in 1..n : IsOpenMap(stack[i])} \cup {n + 1}
      BY <1>3, <3>1
    <3>3. 0 \in 0..n
      OBVIOUS
    <3> QED
      BY <1>1, <3>1, <3>2, <3>3, Zenon
  <2>2. more[n + 1] = stack[n + 1][field]
    BY <1>1, <2>1 DEF ScopesOf
  <2>3. Lists(Append(s, stack[n + 1][field]), more)
    <3> HIDE DEF old, more
    <3>1. Lists(s, old)
      BY DEF old
    <3> QED
      BY <1>2, <2>1, <2>2, <3>1, ListsAppend
  <2> QED
    BY <1>3, <2>3
<1>4. CASE ~IsOpenMap(stack[n + 1])
  <2>1. {i \in 1..(n + 1) : IsOpenMap(stack[i])} = {i \in 1..n : IsOpenMap(stack[i])}
    BY <1>4
  <2>2. more = old
    BY <2>1 DEF ScopesOf
  <2> QED
    BY <1>4, <2>2
<1> QED
  BY <1>3, <1>4

LEMMA KeysGrow ==
    ASSUME NEW stack, NEW n \in Nat, NEW s, IsSeq(s), Lists(s, KeysUpto(stack, n))
    PROVE  Lists(IF IsContainer(stack[n + 1]) THEN Append(s, stack[n + 1].item) ELSE s,
                 KeysUpto(stack, n + 1))
<1> DEFINE old == KeysUpto(stack, n)
           more == KeysUpto(stack, n + 1)
<1>1. DOMAIN old = {i \in 1..n : IsContainer(stack[i])}
      /\ DOMAIN more = {i \in 1..(n + 1) : IsContainer(stack[i])}
  BY DEF KeysUpto
<1>2. \A i \in DOMAIN old : i \in DOMAIN more /\ more[i] = old[i]
  BY <1>1 DEF KeysUpto
<1>3. CASE IsContainer(stack[n + 1])
  <2>1. DOMAIN more = DOMAIN old \cup {n + 1} /\ DOMAIN old \subseteq 0..n
    BY <1>1, <1>3
  <2>2. more[n + 1] = stack[n + 1].item
    BY <1>1, <2>1 DEF KeysUpto
  <2> HIDE DEF old, more
  <2> QED
    BY <1>2, <1>3, <2>1, <2>2, ListsAppend DEF old, more
<1>4. CASE ~IsContainer(stack[n + 1])
  <2>1. {i \in 1..(n + 1) : IsContainer(stack[i])} = {i \in 1..n : IsContainer(stack[i])}
    BY <1>4
  <2>2. more = old
    BY <2>1 DEF KeysUpto
  <2> QED
    BY <1>4, <2>2
<1> QED
  BY <1>3, <1>4

(* One frame less, which has been an open mapping, or a container.         *)
LEMMA ScopesShrink ==
    ASSUME NEW field, NEW base, NEW stack, NEW n \in Nat, NEW s, IsSeq(s),
           Lists(s, ScopesOf(field, base, stack, n + 1))
    PROVE  IF IsOpenMap(stack[n + 1]) THEN Len(s) > 0 /\ Lists(Under(s), ScopesOf(field, base, stack, n))
                                      ELSE Lists(s, ScopesOf(field, base, stack, n))
<1> DEFINE old == ScopesOf(field, base, stack, n)
           more == ScopesOf(field, base, stack, n + 1)
<1>1. DOMAIN old = {0} \cup {i \in 1..n : IsOpenMap(stack[i])}
      /\ DOMAIN more = {0} \cup {i \in 1..(n + 1) : IsOpenMap(stack[i])}
  BY DEF ScopesOf
<1>2. \A i \in DOMAIN old : more[i] = old[i]
  BY <1>1 DEF ScopesOf
<1>3. CASE IsOpenMap(stack[n + 1])
  <2>1. 1..(n + 1) = (1..n) \cup {n + 1} /\ 1..n \subseteq 0..n /\ 0 \in 0..n
    OBVIOUS
  <2>2. {i \in 1..(n + 1) : IsOpenMap(stack[i])} = {i \in 1..n : IsOpenMap(stack[i])} \cup {n + 1}
    BY <1>3, <2>1
  <2>3. DOMAIN more = DOMAIN old \cup {n + 1} /\ DOMAIN old \subseteq 0..n
    BY <1>1, <2>1, <2>2, Zenon
  <2> HIDE DEF old, more
  <2> QED
    BY <1>2, <1>3, <2>3, ListsUnder DEF old, more
<1>4. CASE ~IsOpenMap(stack[n + 1])
  <2>1. {i \in 1..(n + 1) : IsOpenMap(stack[i])} = {i \in 1..n : IsOpenMap(stack[i])}
    BY <1>4
  <2>2. more = old
    BY <2>1 DEF ScopesOf
  <2> QED
    BY <1>4, <2>2
<1> QED
  BY <1>3, <1>4

LEMMA KeysShrink ==
    ASSUME NEW stack, NEW n \in Nat, NEW s, IsSeq(s), Lists(s, KeysUpto(stack, n + 1))
    PROVE  IF IsContainer(stack[n + 1]) THEN Len(s) > 0 /\ Lists(Under(s), KeysUpto(stack, n))
                                        ELSE Lists(s, KeysUpto(stack, n))
<1> DEFINE old == KeysUpto(stack, n)
           more == KeysUpto(stack, n + 1)
<1>1. DOMAIN old = {i \in 1..n : IsContainer(stack[i])}
      /\ DOMAIN more = {i \in 1..(n + 1) : IsContainer(stack[i])}
  BY DEF KeysUpto
<1>2. \A i \in DOMAIN old : more[i] = old[i]
  BY <1>1 DEF KeysUpto
<1>3. CASE IsContainer(stack[n + 1])
  <2>1. DOMAIN more = DOMAIN old \cup {n + 1} /\ DOMAIN old \subseteq 0..n
    BY <1>1, <1>3
  <2> HIDE DEF old, more
  <2> QED
    BY <1>2, <1>3, <2>1, ListsUnder DEF old, more
<1>4. CASE ~IsContainer(stack[n + 1])
  <2>1. {i \in 1..(n + 1) : IsContainer(stack[i])} = {i \in 1..n : IsContainer(stack[i])}
    BY <1>4
  <2>2. more = old
    BY <2>1 DEF KeysUpto
  <2> QED
    BY <1>4, <2>2
<1> QED
  BY <1>3, <1>4

-----------------------------------------------------------------------------
(* Sizes.  Totals and SizeUpto are defined by recursion over numbers, so   *)
(* what they compute follows from looking at the least number for which    *)
(* they would not.                                                         *)
Summing(t, s, n) == t = [i \in 0..n |-> IF i = 0 THEN 0 ELSE t[i - 1] + s[i]]

(* A set of natural numbers that is not empty has a least element.         *)
LEMMA Least == ASSUME NEW S, S \subseteq Nat, S # {} PROVE \E m \in S : \A k \in S : m <= k
<1> DEFINE R == {ss \in Nat \X Nat : ss[1] < ss[2]}
<1>1. IsWellFoundedOn(R, Nat)
  BY NatLessThanWellFounded DEF OpToRel
<1>2. PICK m \in S : \A k \in S : ~(<<k, m>> \in R)
  <2> HIDE DEF R
  <2> QED
    BY <1>1, WFMin
<1>3. ASSUME NEW k \in S PROVE m <= k
  <2>1. ~(<<k, m>> \in R)
    BY <1>2
  <2>2. ~(k < m)
    BY <2>1
  <2> QED
    BY <2>2
<1> QED
  BY <1>3

LEMMA TotalsExist == ASSUME NEW s, NEW n \in Nat PROVE \E t : Summing(t, s, n)
<1> DEFINE Bad == {k \in Nat : ~ \E t : Summing(t, s, k)}
<1> SUFFICES ASSUME Bad # {} PROVE FALSE
  OBVIOUS
<1>1. PICK m \in Bad : \A k \in Bad : m <= k
  BY Least
<1>2. m \in Nat /\ ~ \E t : Summing(t, s, m)
  OBVIOUS
<1>3. CASE m = 0
  <2> DEFINE t == [i \in 0..0 |-> 0]
  <2>1. t = [i \in 0..0 |-> IF i = 0 THEN 0 ELSE t[i - 1] + s[i]]
    OBVIOUS
  <2> QED
    BY <1>2, <1>3, <2>1 DEF Summing
<1>4. CASE m # 0
  <2>1. m - 1 \in Nat /\ m - 1 \notin Bad
    BY <1>1, <1>2, <1>4
  <2>2. PICK t : Summing(t, s, m - 1)
    BY <2>1
  <2>3. t = [i \in 0..(m - 1) |-> IF i = 0 THEN 0 ELSE t[i - 1] + s[i]]
    BY <2>2 DEF Summing
  <2> DEFINE u == [i \in 0..m |-> IF i < m THEN t[i] ELSE t[i - 1] + s[i]]
  <2>4. ASSUME NEW i \in 0..m PROVE u[i] = IF i = 0 THEN 0 ELSE u[i - 1] + s[i]
    <3>1. CASE i < m
      BY <1>2, <1>4, <2>3, <3>1
    <3>2. CASE i = m
      BY <1>2, <1>4, <2>3, <3>2
    <3> QED
      BY <1>2, <3>1, <3>2
  <2>5. u = [i \in 0..m |-> IF i = 0 THEN 0 ELSE u[i - 1] + s[i]]
    BY <2>4
  <2> QED
    BY <1>2, <2>5 DEF Summing
<1> QED
  BY <1>3, <1>4

(* Totals adds one element after the other.                                *)
LEMMA TotalsSteps ==
    ASSUME NEW s, NEW n \in Nat, Len(s) = n
    PROVE  /\ Totals(s)[0] = 0
           /\ \A i \in 1..n : Totals(s)[i] = Totals(s)[i - 1] + s[i]
<1> DEFINE upto[i \in 0..Len(s)] == IF i = 0 THEN 0 ELSE upto[i - 1] + s[i]
<1>1. \E t : t = [i \in 0..Len(s) |-> IF i = 0 THEN 0 ELSE t[i - 1] + s[i]]
  BY TotalsExist DEF Summing
<1>2. upto = [i \in 0..Len(s) |-> IF i = 0 THEN 0 ELSE upto[i - 1] + s[i]]
  BY <1>1
<1>3. Totals(s) = upto
  BY DEF Totals
<1> HIDE DEF upto
<1> QED
  BY <1>2, <1>3

(* The total of integers is an integer, and of no item less than nothing.  *)
LEMMA TotalsAreInts ==
    ASSUME NEW s, NEW n \in Nat, Len(s) = n, \A i \in 1..n : s[i] \in Int
    PROVE  \A i \in 0..n : Totals(s)[i] \in Int
<1> DEFINE Bad == {k \in 0..n : Totals(s)[k] \notin Int}
<1> SUFFICES ASSUME Bad # {} PROVE FALSE
  OBVIOUS
<1>1. Bad \subseteq Nat
  OBVIOUS
<1>2. PICK m \in Bad : \A k \in Bad : m <= k
  BY <1>1, Least
<1>3. m # 0
  BY TotalsSteps
<1>4. m - 1 \in 0..n /\ m - 1 \notin Bad
  BY <1>2, <1>3
<1>5. m \in 1..n
  BY <1>3
<1>6. Totals(s)[m] = Totals(s)[m - 1] + s[m]
  BY <1>5, TotalsSteps
<1> QED
  BY <1>4, <1>5, <1>6

LEMMA SumOfInts ==
    ASSUME NEW s, NEW n \in Nat, Len(s) = n, DOMAIN s = 1..n, \A i \in 1..n : s[i] \in Int
    PROVE  /\ Sum(s) \in Int
           /\ Sum(s) >= 0 => Sum(s) = Totals(s)[n] /\ \A i \in 1..n : s[i] >= 0
<1> DEFINE odd == {i \in DOMAIN s : s[i] < 0}
<1>1. CASE odd = {}
  <2>1. Sum(s) = Totals(s)[n]
    BY <1>1 DEF Sum, Total
  <2>2. Totals(s)[n] \in Int
    BY TotalsAreInts
  <2> QED
    BY <1>1, <2>1, <2>2
<1>2. CASE odd # {}
  <2>1. odd \subseteq Nat
    OBVIOUS
  <2>2. \E i \in odd : \A j \in odd : i <= j
    BY <1>2, <2>1, Least
  <2> DEFINE least == CHOOSE i \in odd : \A j \in odd : i <= j
  <2>3. least \in odd
    BY <2>2
  <2>4. Sum(s) = s[least]
    BY <1>2 DEF Sum
  <2> QED
    BY <2>3, <2>4
<1> QED
  BY <1>1, <1>2

(* The formats a node is made of are formats.                              *)
LEMMA SubsAreFormats ==
    ASSUME NEW f \in Fmt
    PROVE  /\ \A i \in DOMAIN Node[f].subs : Node[f].subs[i] \in Fmt
           /\ Node[f].kind \in WrapKinds => Node[f].subs[1] \in Fmt
           /\ Node[f].kind = "pointer" => Node[f].subs[1] \in Fmt /\ Node[f].subs[2] \in Fmt
<1>1. /\ Node[f].subs \in Seq(Fmt)
      /\ Node[f].kind \in WrapKinds => Len(Node[f].subs) = 1
      /\ Node[f].kind = "pointer" => Len(Node[f].subs) = 2
  BY FormatAssumption
<1>2. DOMAIN Node[f].subs = 1..Len(Node[f].subs) /\ \A i \in 1..Len(Node[f].subs) : Node[f].subs[i] \in Fmt
  BY <1>1, LenProperties, ElementOfSeq
<1> QED
  BY <1>1, <1>2

(* A type's size is a number if the sizes below it are.                    *)
LEMMA SizesOfTypes ==
    ASSUME NEW f \in Fmt, NEW below \in [Fmt -> Int]
    PROVE  TypeSize(Node[f], below) \in Int
<1> DEFINE N == Node[f]
<1>1. N.num \in Nat /\ N.subs \in Seq(Fmt) /\ N.kind \in Kinds
  BY FormatAssumption
<1>2. /\ N.kind \in WrapKinds \cup {"pointer", "scale"} => N.subs[1] \in Fmt
  <2>1. /\ N.kind \in WrapKinds => Len(N.subs) = 1
        /\ N.kind = "pointer" => Len(N.subs) = 2
        /\ N.kind = "scale" => Len(N.subs) = 1
    BY FormatAssumption
  <2> QED
    BY <1>1, <2>1, ElementOfSeq
<1>3. Sum([i \in DOMAIN N.subs |-> below[N.subs[i]]]) \in Int
  <2> DEFINE s == [i \in DOMAIN N.subs |-> below[N.subs[i]]]
  <2>1. PICK n \in Nat : n = Len(N.subs) /\ DOMAIN N.subs = 1..n
    BY <1>1, LenProperties
  <2>2. s = [i \in 1..n |-> s[i]]
    BY <2>1
  <2>3. Len(s) = n
    <3> HIDE DEF s
    <3> QED
      BY <2>2, IsSeqIntro
  <2>4. \A i \in 1..n : s[i] \in Int
    BY <1>1, <2>1
  <2>5. DOMAIN s = 1..n
    BY <2>1
  <2> HIDE DEF s
  <2>6. Sum(s) \in Int
    BY <2>3, <2>4, <2>5, SumOfInts
  <2> QED
    BY <2>6 DEF s
<1>4. Greedy \in Int /\ Dynamic \in Int
  BY DEF Greedy, Dynamic
<1> HIDE DEF N
<1>5. N.num * below[N.subs[1]] \in Int \/ ~(N.kind = "array")
  BY <1>1, <1>2 DEF WrapKinds
<1>6. N.kind \in {"pointer", "scale"} => below[N.subs[1]] \in Int
  BY <1>2 DEF WrapKinds
<1>7. TypeSize(N, below) \in Int
  BY <1>1, <1>3, <1>4, <1>5, <1>6 DEF TypeSize
<1> QED
  BY <1>7 DEF N

Measuring(t, h) ==
    t = [k \in 0..h |-> IF k = 0 THEN [f \in Fmt |-> Dynamic]
                                 ELSE [f \in Fmt |-> TypeSize(Node[f], t[k - 1])]]

LEMMA MeasuresExist == ASSUME NEW h \in Nat PROVE \E t : Measuring(t, h)
<1> DEFINE first == [f \in Fmt |-> Dynamic]
           Next(below) == [f \in Fmt |-> TypeSize(Node[f], below)]
           Bad == {k \in Nat : ~ \E t : Measuring(t, k)}
<1>1. \A t, k : Measuring(t, k) <=> t = [i \in 0..k |-> IF i = 0 THEN first ELSE Next(t[i - 1])]
  BY DEF Measuring
<1> HIDE DEF first, Next
<1> SUFFICES ASSUME Bad # {} PROVE FALSE
  OBVIOUS
<1>2. PICK m \in Bad : \A k \in Bad : m <= k
  BY Least
<1>3. m \in Nat /\ ~ \E t : Measuring(t, m)
  OBVIOUS
<1>4. CASE m = 0
  <2> DEFINE t == [i \in 0..0 |-> first]
  <2>1. t = [i \in 0..0 |-> IF i = 0 THEN first ELSE Next(t[i - 1])]
    OBVIOUS
  <2> QED
    BY <1>1, <1>3, <1>4, <2>1
<1>5. CASE m # 0
  <2>1. m - 1 \in Nat /\ m - 1 \notin Bad
    BY <1>2, <1>3, <1>5
  <2>2. PICK t : Measuring(t, m - 1)
    BY <2>1
  <2>3. t = [i \in 0..(m - 1) |-> IF i = 0 THEN first ELSE Next(t[i - 1])]
    BY <1>1, <2>2
  <2> DEFINE u == [i \in 0..m |-> IF i < m THEN t[i] ELSE Next(t[i - 1])]
  <2>4. ASSUME NEW i \in 0..m PROVE u[i] = IF i = 0 THEN first ELSE Next(u[i - 1])
    <3>1. CASE i < m
      BY <1>3, <1>5, <2>3, <3>1
    <3>2. CASE i = m
      BY <1>3, <1>5, <2>3, <3>2
    <3> QED
      BY <1>3, <3>1, <3>2
  <2>5. u = [i \in 0..m |-> IF i = 0 THEN first ELSE Next(u[i - 1])]
    BY <2>4
  <2> QED
    BY <1>1, <1>3, <2>5
<1> QED
  BY <1>4, <1>5

(* Every format has a size, Dynamic and Greedy included.                   *)
LEMMA SizesAreInts == SizeOf \in [Fmt -> Int]
<1>1. Height \in Nat
  BY FormatAssumption
<1>2. Measuring(SizeUpto, Height)
  <2>1. \E t : t = [h \in 0..Height |->
                       IF h = 0 THEN [f \in Fmt |-> Dynamic]
                       ELSE LET below == t[h - 1] IN [f \in Fmt |-> TypeSize(Node[f], below)]]
    BY <1>1, MeasuresExist DEF Measuring
  <2>2. SizeUpto = [h \in 0..Height |->
                       IF h = 0 THEN [f \in Fmt |-> Dynamic]
                       ELSE LET below == SizeUpto[h - 1] IN [f \in Fmt |-> TypeSize(Node[f], below)]]
    BY <2>1 DEF SizeUpto
  <2> QED
    BY <2>2 DEF Measuring
<1> DEFINE Bad == {k \in 0..Height : SizeUpto[k] \notin [Fmt -> Int]}
<1> SUFFICES ASSUME Bad # {} PROVE FALSE
  BY <1>1 DEF SizeOf
<1>3. PICK m \in Bad : \A k \in Bad : m <= k
  <2>1. Bad \subseteq Nat
    BY <1>1
  <2> HIDE DEF Bad
  <2> QED
    BY <2>1, Least
<1>4. CASE m = 0
  <2>1. SizeUpto[0] = [f \in Fmt |-> Dynamic]
    <3>1. 0 \in 0..Height
      BY <1>1
    <3> QED
      BY <1>2, <3>1, Zenon DEF Measuring
  <2>2. SizeUpto[0] \in [Fmt -> Int]
    BY <2>1 DEF Dynamic
  <2> QED
    BY <1>4, <2>2
<1>5. CASE m # 0
  <2>1. m - 1 \in 0..Height /\ m - 1 \notin Bad
    BY <1>1, <1>3, <1>5
  <2>2. SizeUpto[m - 1] \in [Fmt -> Int]
    BY <2>1
  <2>3. SizeUpto[m] = [f \in Fmt |-> TypeSize(Node[f], SizeUpto[m - 1])]
    BY <1>2, <1>5 DEF Measuring
  <2>4. \A f \in Fmt : TypeSize(Node[f], SizeUpto[m - 1]) \in Int
    BY <2>2, SizesOfTypes
  <2>5. SizeUpto[m] \in [Fmt -> Int]
    BY <2>3, <2>4
  <2> QED
    BY <2>5
<1> QED
  BY <1>4, <1>5

Sizes(f) == [i \in DOMAIN Node[f].subs |-> SizeOf[Node[f].subs[i]]]
Fixed(f) == SizeOf[f] >= 0

(* How many bytes the first i fields or items take, if all have a size.    *)
Part(f, i) == IF Node[f].kind = "array" THEN i * SizeOf[Node[f].subs[1]] ELSE Totals(Sizes(f))[i]

LEMMA SizesByKind ==
    ASSUME NEW f \in Fmt
    PROVE  /\ SizeOf[f] \in Int
           /\ Node[f].kind = "int" => SizeOf[f] = Node[f].num
           /\ Node[f].kind = "bytes" => SizeOf[f] = (IF Node[f].mode = "greedy" THEN Greedy ELSE Node[f].num)
           /\ Node[f].kind = "literal" => SizeOf[f] = 1
           /\ Node[f].kind = "null" => SizeOf[f] = 0
           /\ Node[f].kind = "sized" => SizeOf[f] = (IF Node[f].mode = "const" THEN Node[f].num ELSE Dynamic)
           /\ Node[f].kind = "array" => SizeOf[f] = (IF Node[f].mode = "greedy" THEN Greedy
                 ELSE IF Node[f].mode = "const" /\ SizeOf[Node[f].subs[1]] >= 0
                      THEN Node[f].num * SizeOf[Node[f].subs[1]] ELSE Dynamic)
           /\ Node[f].kind \in {"pointer", "scale"} => SizeOf[f] = SizeOf[Node[f].subs[1]]
           /\ Node[f].kind \in {"map", "tuple"} => SizeOf[f] = Sum(Sizes(f))
           /\ Node[f].kind \in {"takeuntil", "optional", "lazy", "switch", "union"} => SizeOf[f] = Dynamic
<1>1. SizeOf[f] = TypeSize(Node[f], SizeOf)
  BY HeightAssumption
<1>2. SizeOf[f] \in Int
  BY SizesAreInts
<1> QED
  BY <1>1, <1>2 DEF TypeSize, Sizes

(* What has no size of its own.                                            *)
LEMMA Sizeless ==
    ASSUME NEW f \in Fmt
    PROVE  /\ Node[f].kind \in {"takeuntil", "optional", "lazy", "switch", "union"} => ~Fixed(f)
           /\ Node[f].kind = "bytes" /\ Node[f].mode = "greedy" => ~Fixed(f)
           /\ Node[f].kind \in {"array", "sized"} /\ Node[f].mode # "const" => ~Fixed(f)
  BY SizesByKind DEF Fixed, Greedy, Dynamic

LEMMA PartsOfFields ==
    ASSUME NEW f \in Fmt, Node[f].kind \in {"map", "tuple"}
    PROVE  /\ Part(f, 0) = 0
           /\ \A i \in 0..Len(Node[f].subs) : Part(f, i) \in Int
           /\ \A i \in 1..Len(Node[f].subs) : Part(f, i) = Part(f, i - 1) + SizeOf[Node[f].subs[i]]
           /\ Fixed(f) => /\ SizeOf[f] = Part(f, Len(Node[f].subs))
                          /\ \A i \in 1..Len(Node[f].subs) : Fixed(Node[f].subs[i])
<1>1. PICK n \in Nat : n = Len(Node[f].subs) /\ DOMAIN Node[f].subs = 1..n
                       /\ \A i \in 1..n : Node[f].subs[i] \in Fmt
  BY FormatAssumption, LenProperties, ElementOfSeq
<1>2. PICK s : s = Sizes(f)
  OBVIOUS
<1>3. /\ s = [i \in 1..n |-> s[i]]
      /\ \A i \in 1..n : s[i] = SizeOf[Node[f].subs[i]]
  BY <1>1, <1>2 DEF Sizes
<1>4. Len(s) = n /\ DOMAIN s = 1..n
  BY <1>3, IsSeqIntro
<1>5. \A i \in 1..n : s[i] \in Int
  BY <1>1, <1>3, SizesAreInts
<1>6. /\ Totals(s)[0] = 0
      /\ \A i \in 1..n : Totals(s)[i] = Totals(s)[i - 1] + s[i]
  BY <1>4, TotalsSteps
<1>7. \A i \in 0..n : Totals(s)[i] \in Int
  BY <1>4, <1>5, TotalsAreInts
<1>8. Sum(s) >= 0 => Sum(s) = Totals(s)[n] /\ \A i \in 1..n : s[i] >= 0
  BY <1>4, <1>5, SumOfInts
<1>9. SizeOf[f] = Sum(s)
  BY <1>2, SizesByKind
<1>10. \A i \in 0..n : Part(f, i) = Totals(s)[i]
  BY <1>2 DEF Part
<1>11. Part(f, 0) = 0 /\ \A i \in 0..n : Part(f, i) \in Int
  BY <1>6, <1>7, <1>10
<1>12. \A i \in 1..n : Part(f, i) = Part(f, i - 1) + SizeOf[Node[f].subs[i]]
  <2> TAKE i \in 1..n
  <2>1. i \in 0..n /\ i - 1 \in 0..n
    OBVIOUS
  <2> QED
    BY <1>3, <1>6, <1>10, <2>1
<1>13. Fixed(f) => SizeOf[f] = Part(f, n) /\ \A i \in 1..n : Fixed(Node[f].subs[i])
  BY <1>3, <1>8, <1>9, <1>10 DEF Fixed
<1> QED
  BY <1>1, <1>11, <1>12, <1>13

LEMMA NextMultiple == ASSUME NEW a \in Int, NEW i \in Int PROVE (i + 1) * a = i * a + a
  OBVIOUS

LEMMA PartsOfItems ==
    ASSUME NEW f \in Fmt, Node[f].kind = "array"
    PROVE  /\ Part(f, 0) = 0
           /\ \A i \in Nat : Part(f, i) \in Int /\ Part(f, i + 1) = Part(f, i) + SizeOf[Node[f].subs[1]]
           /\ Fixed(f) => /\ SizeOf[f] = Part(f, Node[f].num)
                          /\ Node[f].mode = "const"
                          /\ Fixed(Node[f].subs[1])
<1>1. Node[f].subs[1] \in Fmt /\ Node[f].num \in Nat
  BY FormatAssumption, SubsAreFormats DEF WrapKinds
<1>2. PICK a \in Int : a = SizeOf[Node[f].subs[1]]
  BY <1>1, SizesAreInts
<1>3. \A i : Part(f, i) = i * a
  BY <1>2 DEF Part
<1>4. \A i \in Nat : (i + 1) * a = i * a + a
  BY NextMultiple
<1>5. 0 * a = 0 /\ \A i \in Nat : i * a \in Int
  OBVIOUS
<1>6. Fixed(f) => SizeOf[f] = Node[f].num * a /\ Node[f].mode = "const" /\ a >= 0
  BY <1>2, SizesByKind DEF Fixed, Greedy, Dynamic
<1> QED
  BY <1>2, <1>3, <1>4, <1>5, <1>6 DEF Fixed

-----------------------------------------------------------------------------
(* The segments of a path.                                                 *)
LEMMA KeysAreTyped ==
    /\ \A f \in Fmt : Node[f].kind = "map" =>
          \A i \in DOMAIN Node[f].subs : /\ i \in DOMAIN Node[f].keys
                                        /\ Node[f].keys[i] \in FieldNames
                                        /\ Name(Node[f].keys[i]) \in Keys
    /\ \A i \in Nat : Index(i) \in Keys
    /\ \A k \in Keys : IsName(k) => k.name \in FieldNames
<1>1. ASSUME NEW f \in Fmt, Node[f].kind = "map", NEW i \in DOMAIN Node[f].subs
      PROVE  i \in DOMAIN Node[f].keys
  <2>1. Node[f].subs \in Seq(Fmt) /\ Node[f].keys \in Seq(STRING) /\ Len(Node[f].keys) = Len(Node[f].subs)
    BY <1>1, FormatAssumption
  <2> QED
    BY <2>1, LenProperties
<1>2. \A f \in Fmt : \A i \in DOMAIN Node[f].keys : Node[f].keys[i] \in FieldNames
  BY DEF FieldNames
<1>3. \A k \in FieldNames : Name(k) \in Keys
  BY DEF Keys
<1>4. \A i \in Nat : Index(i) \in Keys
  <2>1. \A a : \A i \in Nat : [name |-> a, index |-> i] \in [name : {a}, index : Nat]
    OBVIOUS
  <2> QED
    BY <2>1, Zenon DEF Keys, Index
<1>5. ASSUME NEW k \in Keys, IsName(k) PROVE k.name \in FieldNames
  <2>1. \A a : \A x \in [name : {a}, index : Nat] : x.index # -1
    OBVIOUS
  <2>2. k \notin [name : {""}, index : Nat]
    BY <1>5, <2>1, Zenon DEF IsName
  <2>3. k \in {Name(x) : x \in FieldNames}
    BY <2>2, Zenon DEF Keys
  <2> QED
    BY <2>3 DEF Name
<1> QED
  BY <1>1, <1>2, <1>3, <1>4, <1>5
=============================================================================
