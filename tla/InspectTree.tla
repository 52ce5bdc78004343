----------------------------- MODULE InspectTree -----------------------------
(***************************************************************************)
(* The offsets of an inspection tree.  A value encoded to or decoded from  *)
(* a BytesIO of its own has the offsets of that BytesIO;                   *)
(* _normalize_inspect_tree moves it behind the sibling it follows once the *)
(* whole tree is built.                                                    *)
(***************************************************************************)
EXTENDS InspectNodes, Sequences, SequencesExt

(* _shift_children: every node below moves by the same distance.           *)
RECURSIVE ShiftChildren(_, _)
ShiftChildren(kids, shift) ==
    [i \in DOMAIN kids |->
        [kids[i] EXCEPT !.off = @ + shift, !.kids = ShiftChildren(@, shift)]]

(* Wrong version: a node stays at the offset it has in its own buffer.     *)
Unmoved(N, place) == N

(* A node that starts before its place is moved there, with all below it.  *)
MovedTo(N, place) ==
    IF N.off < place
    THEN [N EXCEPT !.off = place, !.kids = ShiftChildren(@, place - N.off)]
    ELSE N

(* _normalize_inspect_tree: place is next_offset, where the first of the   *)
(* children belongs at the earliest.                                       *)
RECURSIVE NormalizeInspectTree(_, _)
NormalizeInspectTree(kids, place) ==
    IF kids = <<>> THEN <<>>
    ELSE LET child == MovedTo(Head(kids), place)
         IN  <<[child EXCEPT !.kids = NormalizeInspectTree(@, child.off)]>>
                 \o NormalizeInspectTree(Tail(kids), EndOf(child))

(* The tree an entry point returns: only what lies below the root moves.   *)
Normalized(root) == [root EXCEPT !.kids = NormalizeInspectTree(@, root.off)]

(* The children of a node lie one behind the other up to its end, and so   *)
(* do theirs; what a node writes itself comes before them.                 *)
RECURSIVE Tiled(_)
Tiled(N) ==
    N.kids # <<>> =>
        /\ N.kids[1].off >= N.off
        /\ \A i \in 2..Len(N.kids) : N.kids[i].off = EndOf(N.kids[i - 1])
        /\ EndOf(Last(N.kids)) = EndOf(N)
        /\ \A i \in DOMAIN N.kids : Tiled(N.kids[i])
=============================================================================
