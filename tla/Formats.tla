------------------------------ MODULE Formats -------------------------------
(***************************************************************************)
(* A format: the tree of mappings, iterables and Type objects that drives  *)
(* every traversal.  Fmt names the format objects and Node gives each its  *)
(* fields; Lazy formats make the graph cyclic.                             *)
(*                                                                         *)
(*   kind   the class of the object                                        *)
(*   mode   Sized and Array: the length is "const", a "ref", a "prefix"    *)
(*          format or, for Array, "greedy" (no dims); Bytes: "const" or    *)
(*          "greedy" (size None)                                           *)
(*   num    Int, Bytes: the size; Literal: the byte; Sized, Array: the     *)
(*          constant length; Pointer: the base; TakeUntil: the terminator  *)
(*   keys   mapping: the field names, in order                             *)
(*   subs   mapping, iterable: the formats of the fields; wrappers: the    *)
(*          wrapped format; Pointer: <<offset, fmt>>; Switch: the cases,   *)
(*          then the default if there is one                               *)
(*   on     Switch: the key values of the cases                            *)
(*   ref    the Ref of Sized, Array and Switch: a key and a parent level   *)
(*   align  Sized: the alignment, 0 for None; TakeUntil: max_size          *)
(*   flag   Sized: inline; Pointer: allow_null                             *)
(*   fill   Sized: the bytes it is padded with, of any number              *)
(*                                                                         *)
(* A TaggedUnion has its tags in on and the formats of its branches in     *)
(* subs, followed, in mode "prefix", by the format of a tag of its own;    *)
(* ref names the field of its tag.  "scale" is the Converter that scale    *)
(* builds, by the factor num.                                              *)
(***************************************************************************)
EXTENDS Integers, Sequences

CONSTANTS Fmt,         \* the format objects
          Node,        \* their fields
          Byte,        \* the byte values
          Height       \* bound: containers nested in each other without a Lazy

LeafKinds == {"int", "bytes", "literal", "null", "takeuntil"}
WrapKinds == {"sized", "array", "optional", "lazy"}
AdaptKinds == {"union", "scale"}
Kinds == LeafKinds \cup WrapKinds \cup AdaptKinds \cup {"map", "tuple", "switch", "pointer"}
Modes == {"const", "ref", "prefix", "greedy"}

(* A mapping has one format per key; a wrapper wraps one format; a pointer *)
(* has an integer offset and an inline Sized a mapping.  Integers of one   *)
(* and two bytes stand for all widths.                                     *)
ASSUME FormatAssumption ==
    /\ Byte \subseteq Nat
    /\ Height \in Nat
    /\ DOMAIN Node = Fmt
    /\ \A f \in Fmt :
          LET N == Node[f] IN
          /\ N.kind \in Kinds /\ N.mode \in Modes /\ N.num \in Nat /\ N.align \in Nat
          /\ N.subs \in Seq(Fmt) /\ N.keys \in Seq(STRING) /\ N.on \in Seq(Nat)
          /\ N.flag \in BOOLEAN /\ N.fill \in Seq(Byte) /\ N.ref.parent \in Nat
          /\ N.kind = "int" => N.num \in {1, 2}
          /\ N.kind \in {"literal", "takeuntil"} => N.num \in Byte
          /\ N.kind = "bytes" => N.mode \in {"const", "greedy"}
          /\ N.kind = "map" => Len(N.keys) = Len(N.subs)
          /\ N.kind \in WrapKinds => Len(N.subs) = 1
          /\ N.kind = "pointer" => Len(N.subs) = 2 /\ Node[N.subs[1]].kind = "int"
          /\ N.kind = "sized" /\ N.flag => Node[N.subs[1]].kind = "map"
          /\ N.kind = "switch" => Len(N.subs) \in {Len(N.on), Len(N.on) + 1}
          /\ N.kind = "union" => Len(N.subs) = Len(N.on) + (IF N.mode = "prefix" THEN 1 ELSE 0)
          /\ N.kind = "scale" => Len(N.subs) = 1 /\ N.num > 0

IsGreedyArray(f) == Node[f].kind = "array" /\ Node[f].mode = "greedy"

-----------------------------------------------------------------------------
(* The size attribute and sizeof: a number of bytes, Dynamic for Ellipsis  *)
(* or Greedy for None.                                                     *)
Dynamic == -1
Greedy == -2

Totals(s) == LET upto[i \in 0..Len(s)] == IF i = 0 THEN 0 ELSE upto[i - 1] + s[i] IN upto
Total(s) == Totals(s)[Len(s)]

(* A container has the size of its items together, unless one of them has  *)
(* none: then that of the first such item.                                 *)
Sum(s) == LET odd == {i \in DOMAIN s : s[i] < 0}
          IN  IF odd = {} THEN Total(s)
              ELSE s[CHOOSE i \in odd : \A j \in odd : i <= j]

TypeSize(N, below) ==
    IF N.kind = "int" THEN N.num
    ELSE IF N.kind = "bytes" THEN IF N.mode = "greedy" THEN Greedy ELSE N.num
    ELSE IF N.kind = "literal" THEN 1
    ELSE IF N.kind = "null" THEN 0
    ELSE IF N.kind = "sized" THEN IF N.mode = "const" THEN N.num ELSE Dynamic
    ELSE IF N.kind = "array" THEN IF N.mode = "greedy" THEN Greedy
                                  ELSE IF N.mode = "const" /\ below[N.subs[1]] >= 0
                                       THEN N.num * below[N.subs[1]] ELSE Dynamic
    ELSE IF N.kind \in {"pointer", "scale"} THEN below[N.subs[1]]
    ELSE IF N.kind \in {"map", "tuple"} THEN Sum([i \in DOMAIN N.subs |-> below[N.subs[i]]])
    ELSE Dynamic

SizeUpto[h \in 0..Height] ==
    IF h = 0 THEN [f \in Fmt |-> Dynamic]
    ELSE LET below == SizeUpto[h - 1] IN [f \in Fmt |-> TypeSize(Node[f], below)]

SizeOf == SizeUpto[Height]

(* Height is enough: another level of containers changes no size.          *)
ASSUME HeightAssumption == \A f \in Fmt : SizeOf[f] = TypeSize(Node[f], SizeOf)

(* The field would consume the rest of its stream: a size attribute that   *)
(* is None.  Mappings and iterables have no such attribute.                *)
IsGreedy(f) == Node[f].kind \notin {"map", "tuple"} /\ SizeOf[f] = Greedy

-----------------------------------------------------------------------------
(* What a decoder takes for the padding of a Sized: the fill, a whole      *)
(* number of times.  A Sized without fill has none.                        *)
IsPadding(fill, data) ==
    IF fill = <<>> THEN data = <<>>
    ELSE /\ Len(data) % Len(fill) = 0
         /\ \A i \in 1..Len(data) : data[i] = fill[((i - 1) % Len(fill)) + 1]

-----------------------------------------------------------------------------
(* A path is made of field names and of indices.                           *)
Name(k) == [name |-> k, index |-> -1]
Index(i) == [name |-> "", index |-> i]
IsName(k) == k.index = -1
NoKey == [name |-> "", index |-> -2]

FieldNames == UNION {{Node[f].keys[i] : i \in DOMAIN Node[f].keys} : f \in Fmt}
Keys == {Name(k) : k \in FieldNames} \cup [name : {""}, index : Nat]
=============================================================================
