---------------------------- MODULE MsgPackWords ----------------------------
(***************************************************************************)
(* One integer or length: the head MsgPack.encode writes for it, and what  *)
(* MsgPack.decode makes of that head.                                      *)
(***************************************************************************)
EXTENDS MsgPackHeads

CONSTANT Numbers          \* the integers and lengths encoded

ASSUME NumbersAssumption == Numbers \subseteq Int

VARIABLES what, number,  \* what is encoded: an integer, or a text or container of a length
          head,          \* its head, once encoded
          meaning        \* what decode makes of it, once decoded

vars == <<what, number, head, meaning>>

-----------------------------------------------------------------------------
Nothing == Meaning("none", 0)

Encode ==
    /\ head = NoHead
    /\ head' = HeadFor(what, number)
    /\ UNCHANGED <<what, number, meaning>>

Decode ==
    /\ head # NoHead
    /\ meaning = Nothing
    /\ meaning' = HeadMeaning(head)
    /\ UNCHANGED <<what, number, head>>

Init ==
    /\ what \in Kinds
    /\ number \in Numbers
    /\ what # "int" => number >= 0
    /\ head = NoHead
    /\ meaning = Nothing

Next == Encode \/ Decode

Spec == Init /\ [][Next]_vars

-----------------------------------------------------------------------------
TypeOK ==
    /\ what \in Kinds
    /\ number \in Numbers
    /\ head \in Heads \cup {NoHead}
    /\ meaning \in {Nothing} \cup [kind : Kinds, n : Int]

(* decode gives back what encode was given, at every boundary between two  *)
(* representations: no two heads overlap, no word is too narrow.           *)
DecodeInvertsEncode == meaning # Nothing => meaning = Meaning(what, number)

(* The head chosen is as short as any that means the same, as the heads of *)
(* the msgspec encoder of the fast path are.                               *)
ShortestHead ==
    head # NoHead =>
        \A h \in Heads : HeadMeaning(h) = Meaning(what, number) => HeadSize(head.tag) <= HeadSize(h.tag)
=============================================================================
