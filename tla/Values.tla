------------------------------- MODULE Values -------------------------------
(***************************************************************************)
(* The objects that are encoded, and what the formats ask of them.         *)
(***************************************************************************)
EXTENDS Formats, FiniteSets

CONSTANT Radix         \* the number of values of a byte

(* Objects, after _to_builtins: numbers, bytes, lists, mappings and None.  *)
Value(t, n, at) == [t |-> t, n |-> n, at |-> at]
IntV(i) == Value("int", i, <<>>)
BytesV(b) == Value("bytes", 0, b)
ListV(items) == Value("list", 0, items)
MapV(fields) == Value("map", 0, fields)
NoneV == Value("none", 0, <<>>)

Has(v, k) == v.t = "map" /\ k \in DOMAIN v.at
Joined(v, w) == MapV([k \in DOMAIN v.at \cup DOMAIN w.at |-> IF k \in DOMAIN w.at THEN w.at[k] ELSE v.at[k]])
OneField(k, v) == MapV([key \in {k} |-> v])

(* Bytes iterate as numbers, a mapping as its keys.                        *)
IsIterable(v) == v.t \in {"list", "bytes", "map"}
Items(v) == IF v.t = "list" THEN v.at
            ELSE IF v.t = "bytes" THEN [i \in DOMAIN v.at |-> IntV(v.at[i])]
            ELSE [i \in 1..Cardinality(DOMAIN v.at) |-> Value("key", 0, <<>>)]

IsInline(N) == N.kind = "sized" /\ N.flag
IsConstant(N) == N.kind \in {"literal", "null"}

(* The cases of a Switch that apply to a key, the default last, and the    *)
(* branch of a TaggedUnion that has a tag.                                 *)
Case(N, v) == {i \in DOMAIN N.subs : \/ v.t = "int" /\ i \in DOMAIN N.on /\ N.on[i] = v.n
                                     \/ i > Len(N.on)}
First(S) == CHOOSE i \in S : \A j \in S : i <= j
Branch(N, tag) == {i \in DOMAIN N.on : tag = IntV(N.on[i])}
=============================================================================
