------------------------------- MODULE Reader -------------------------------
(***************************************************************************)
(* What the decode methods make of the bytes: the value they find, not how *)
(* they come by it (see Decode).  It says of an encoding whether the       *)
(* caller's object can be had back.                                        *)
(***************************************************************************)
EXTENDS Values, SequencesExt

-----------------------------------------------------------------------------
(* A value behind position p of data, and the position after it.  scope    *)
(* holds the mappings around it.                                           *)
Found(p, v) == [ok |-> TRUE, pos |-> p, val |-> v]
NotFound == [ok |-> FALSE, pos |-> 0, val |-> NoneV]

TakeBytes(data, p, n) == IF p + n <= Len(data) THEN Found(p + n, BytesV(SubSeq(data, p + 1, p + n))) ELSE NotFound
Number(digits) == FoldLeft(LAMBDA n, d : n * Radix + d, 0, digits)
TakeInt(data, p, width) == LET r == TakeBytes(data, p, width)
                           IN  IF r.ok THEN Found(r.pos, IntV(Number(r.val.at))) ELSE NotFound

Sibling(ref, scope, p) ==
    IF ref.parent <= Len(scope) /\ Has(scope[Len(scope) - ref.parent + 1], ref.key)
    THEN Found(p, scope[Len(scope) - ref.parent + 1].at[ref.key]) ELSE NotFound

Length(N, data, p, scope) == CASE N.mode = "const" -> Found(p, IntV(N.num))
                               [] N.mode = "prefix" -> TakeInt(data, p, 1)
                               [] N.mode = "ref" -> Sibling(N.ref, scope, p)

TakeLeaf(N, data, p) ==
    LET stops == {i \in (p + 1)..Len(data) : data[i] = N.num} IN
    CASE N.kind = "int" -> TakeInt(data, p, N.num)
      [] N.kind = "bytes" -> TakeBytes(data, p, IF N.mode = "const" THEN N.num ELSE Len(data) - p)
      [] N.kind = "literal" -> TakeBytes(data, p, 1)
      [] N.kind = "null" -> Found(p, NoneV)
      [] N.kind = "takeuntil" -> IF stops = {} THEN NotFound
                                 ELSE Found(First(stops), BytesV(SubSeq(data, p + 1, First(stops) - 1)))

RECURSIVE Read(_, _, _, _), ReadFields(_, _, _, _, _), ReadItems(_, _, _, _, _), ReadAll(_, _, _, _, _)
Read(f, data, p, scope) ==
    LET N == Node[f]
        sub == N.subs[1]
        length == Length(N, data, p, scope)
    IN
    CASE N.kind \in LeafKinds -> TakeLeaf(N, data, p)
      [] N.kind = "map" -> ReadFields(N, 1, data, p, Append(scope, MapV(<<>>)))
      [] N.kind = "tuple" -> ReadItems(N.subs, data, p, scope, <<>>)
      [] N.kind = "array" /\ N.mode = "greedy" -> ReadAll(sub, data, p, scope, <<>>)
      [] N.kind = "array" /\ N.mode # "greedy" ->
            IF length.ok THEN ReadItems([i \in 1..length.val.n |-> sub], data, length.pos, scope, <<>>)
            ELSE NotFound
      [] N.kind = "lazy" -> Read(sub, data, p, scope)
      [] N.kind = "optional" -> IF p = Len(data) THEN Found(p, NoneV) ELSE Read(sub, data, p, scope)
      [] N.kind = "switch" ->
            LET key == Sibling(N.ref, scope, p)
            IN  IF key.ok /\ Case(N, key.val) # {}
                THEN Read(N.subs[First(Case(N, key.val))], data, p, scope) ELSE NotFound
      [] N.kind = "scale" -> LET r == Read(sub, data, p, scope)
                             IN  IF r.ok THEN Found(r.pos, IntV(r.val.n * N.num)) ELSE NotFound
      [] N.kind = "union" ->
            LET tag == IF N.mode = "ref" THEN Sibling(N.ref, scope, p) ELSE Read(Last(N.subs), data, p, scope)
                r == Read(N.subs[First(Branch(N, tag.val))], data, tag.pos, scope)
            IN  IF tag.ok /\ Branch(N, tag.val) # {} /\ r.ok
                THEN Found(r.pos, Joined(r.val, OneField(N.ref.key, tag.val))) ELSE NotFound
      [] N.kind = "pointer" ->
            LET off == Read(sub, data, p, scope)
                r == Read(N.subs[2], data, N.num + off.val.n, scope)
            IN  IF off.ok /\ N.flag /\ off.val.n = 0 THEN Found(off.pos, NoneV)
                ELSE IF off.ok /\ r.ok THEN Found(off.pos, r.val) ELSE NotFound
      [] N.kind = "sized" ->
            LET len == length.val.n
                body == TakeBytes(data, length.pos, len)
                r == Read(sub, body.val.at, 0, scope)
                spare == IF N.mode = "const" THEN SubSeq(body.val.at, r.pos + 1, len) ELSE <<>>
                pad == IF N.mode = "const" \/ N.align = 0 THEN 0
                       ELSE CHOOSE n \in 0..(N.align - 1) : (len + n) % N.align = 0
                fill == TakeBytes(data, body.pos, pad)
            IN  IF length.ok /\ body.ok /\ r.ok /\ fill.ok /\ IsPadding(N.fill, spare \o fill.val.at)
                THEN Found(fill.pos, r.val) ELSE NotFound

ReadFields(N, i, data, p, scope) ==
    IF i > Len(N.subs) THEN Found(p, Last(scope))
    ELSE LET r == Read(N.subs[i], data, p, scope)
             field == IF IsInline(Node[N.subs[i]]) THEN r.val ELSE OneField(N.keys[i], r.val)
         IN  IF r.ok THEN ReadFields(N, i + 1, data, r.pos, Append(Front(scope), Joined(Last(scope), field)))
             ELSE NotFound

ReadItems(fs, data, p, scope, got) ==
    IF fs = <<>> THEN Found(p, ListV(got))
    ELSE LET r == Read(Head(fs), data, p, scope)
         IN  IF r.ok THEN ReadItems(Tail(fs), data, r.pos, scope, Append(got, r.val)) ELSE NotFound

ReadAll(f, data, p, scope, got) ==
    IF p = Len(data) THEN Found(p, ListV(got))
    ELSE LET r == Read(f, data, p, scope)
         IN  IF r.ok /\ r.pos > p THEN ReadAll(f, data, r.pos, scope, Append(got, r.val)) ELSE NotFound

-----------------------------------------------------------------------------
(* What of an object its format keeps: the fields it names, with constants *)
(* and the tag of a union filled in; the multiple of a scale; what a       *)
(* pointer points to.                                                      *)
UnionsOf(N) == SelectSeq([i \in DOMAIN N.subs |-> i],
                         LAMBDA i : Node[N.subs[i]].kind = "union" /\ Node[N.subs[i]].mode = "ref")

(* The tag of a union is in its value and in the mapping, wherever it was  *)
(* given.                                                                  *)
Filled(N, v) ==
    FoldLeft(LAMBDA w, i :
                LET t == Node[N.subs[i]].ref.key
                    body == w.at[N.keys[i]]
                    tag == OneField(t, IF Has(w, t) THEN w.at[t] ELSE body.at[t])
                IN  Joined(Joined(w, tag), OneField(N.keys[i], Joined(body, tag))),
             v, UnionsOf(N))

RECURSIVE Kept(_, _)
Kept(f, v) ==
    LET N == Node[f] IN
    CASE N.kind = "literal" -> BytesV(<<N.num>>)
      [] N.kind = "map" ->
            LET w == Filled(N, v)
                Field(i) == IF IsInline(Node[N.subs[i]]) THEN Kept(N.subs[i], w)
                            ELSE OneField(N.keys[i], Kept(N.subs[i], IF Has(w, N.keys[i]) THEN w.at[N.keys[i]] ELSE NoneV))
            IN  FoldLeft(LAMBDA got, i : Joined(got, Field(i)), MapV(<<>>), [i \in DOMAIN N.subs |-> i])
      [] N.kind = "tuple" -> ListV([i \in DOMAIN Items(v) |-> Kept(N.subs[i], Items(v)[i])])
      [] N.kind = "array" -> ListV([i \in DOMAIN Items(v) |-> Kept(N.subs[1], Items(v)[i])])
      [] N.kind \in {"sized", "lazy"} -> Kept(N.subs[1], v)
      [] N.kind = "optional" -> IF v = NoneV THEN v ELSE Kept(N.subs[1], v)
      [] N.kind = "scale" -> IntV((v.n \div N.num) * N.num)
      [] N.kind = "pointer" -> IF N.flag /\ v.at["offset"].n = 0 THEN NoneV ELSE Kept(N.subs[2], v.at["value"])
      [] N.kind = "union" ->
            Joined(Kept(N.subs[First(Branch(N, v.at[N.ref.key]))], v), OneField(N.ref.key, v.at[N.ref.key]))
      [] OTHER -> v

-----------------------------------------------------------------------------
(* Formats that can be read back.  A format is open when only the end of   *)
(* its stream ends it.  In a readable format everything open comes last in *)
(* its frame, what a field refers to comes before it, and what a Sized may *)
(* have to pad with is one byte: of any other fill the encoder writes more *)
(* than the decoder asks for, or less.                                     *)
OpenUpto[h \in 0..Height] ==
    IF h = 0 THEN {f \in Fmt : Node[f].kind \in {"optional", "switch"} \/ IsGreedy(f)}
    ELSE LET open == OpenUpto[h - 1]
         IN  open \cup {f \in Fmt : /\ Node[f].kind \in {"map", "tuple", "array", "lazy", "scale", "union"}
                                    /\ \E i \in DOMAIN Node[f].subs : Node[f].subs[i] \in open}
Open == OpenUpto[Height]

ReadableNode(N) ==
    CASE N.kind \in {"map", "tuple"} ->
            \A i \in DOMAIN N.subs :
                LET S == Node[N.subs[i]] IN
                /\ N.subs[i] \in Open => i = Len(N.subs)
                /\ N.kind = "map" /\ S.mode = "ref" /\ S.ref.parent = 1 =>
                      \E j \in 1..(i - 1) : N.keys[j] = S.ref.key \/ IsInline(Node[N.subs[j]])
      [] N.kind = "array" -> N.subs[1] \notin Open /\ SizeOf[N.subs[1]] # 0
      [] N.kind = "sized" -> /\ N.mode = "const" => N.subs[1] \notin Open
                             /\ Len(N.fill) = 1 \/ (N.mode # "const" /\ N.align <= 1)
      [] N.kind = "optional" -> SizeOf[N.subs[1]] > 0
      [] N.kind = "pointer" -> N.subs[2] \notin Open
      [] OTHER -> TRUE

(* The formats a format is made of.                                        *)
PartsUpto[h \in 0..Height] ==
    IF h = 0 THEN [f \in Fmt |-> {f}]
    ELSE LET parts == PartsUpto[h - 1]
         IN  [f \in Fmt |-> {f} \cup UNION {parts[Node[f].subs[i]] : i \in DOMAIN Node[f].subs}]

Readable(f) == \A g \in PartsUpto[Height][f] : ReadableNode(Node[g])
=============================================================================
