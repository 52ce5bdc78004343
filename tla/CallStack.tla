------------------------------ MODULE CallStack ------------------------------
(***************************************************************************)
(* What a Python call stack says of the fields being encoded or decoded.   *)
(* A stack is a sequence of frames, the running one last; a frame has the  *)
(* format it works on, fmt, where it stands, at, and the key under which a *)
(* container has called the next frame, item.                              *)
(***************************************************************************)
EXTENDS Formats, FiniteSets

Under(S) == SubSeq(S, 1, Len(S) - 1)
Extends(s, p) == Len(p) <= Len(s) /\ \A i \in 1..Len(p) : s[i] = p[i]

IsContainer(F) == Node[F.fmt].kind \in {"map", "tuple", "array"}
IsOpenMap(F) == Node[F.fmt].kind = "map" /\ F.at = "loop"

(* Of the lowest n frames of a stack: the keys under which containers      *)
(* called, and what the mappings that have been entered and not left have  *)
(* in a field of their frames, above what the context began with.          *)
KeysUpto(stack, n) == [i \in {j \in 1..n : IsContainer(stack[j])} |-> stack[i].item]
ScopesOf(field, base, stack, n) == [i \in {0} \cup {j \in 1..n : IsOpenMap(stack[j])} |->
                                       IF i = 0 THEN base ELSE stack[i][field]]

(* The sequence s holds what items holds, by ascending index.              *)
Rank(S, i) == Cardinality({j \in S : j <= i})
Lists(s, items) == /\ Len(s) = Cardinality(DOMAIN items)
                   /\ \A i \in DOMAIN items : s[Rank(DOMAIN items, i)] = items[i]
=============================================================================
