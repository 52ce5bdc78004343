---------------------------- MODULE Decode_proofs ----------------------------
(***************************************************************************)
(* Proofs about Decode: the context, siblings and errors, types, sizes and *)
(* inspection trees, for every graph of formats, every input and every     *)
(* recursion limit.                                                        *)
(***************************************************************************)
EXTENDS Decode, CallStack_proofs

-----------------------------------------------------------------------------
(* What a call stack says of its lowest frames depends on those alone.     *)
LEMMA UptoLocal ==
    ASSUME NEW stack, NEW other, NEW n, \A i \in 1..n : other[i] = stack[i]
    PROVE  ScopesUpto(other, n) = ScopesUpto(stack, n) /\ KeysUpto(other, n) = KeysUpto(stack, n)
  BY KeysLocal, ScopesLocal DEF ScopesUpto

(* A frame more: an open mapping adds the mapping it fills.                *)
LEMMA DictsGrow ==
    ASSUME NEW stack, NEW n \in Nat, NEW s, IsSeq(s), Lists(s, ScopesUpto(stack, n))
    PROVE  Lists(IF IsOpenMap(stack[n + 1]) THEN Append(s, stack[n + 1].dict) ELSE s,
                 ScopesUpto(stack, n + 1))
<1>1. Lists(IF IsOpenMap(stack[n + 1]) THEN Append(s, stack[n + 1]["dict"]) ELSE s,
            ScopesOf("dict", 1, stack, n + 1))
  BY ScopesGrow DEF ScopesUpto
<1> QED
  BY <1>1 DEF ScopesUpto

-----------------------------------------------------------------------------
(* The inductive invariant behind AncestorsKept: it holds of the contexts  *)
(* the frames were entered with as well, and a container that waits for a  *)
(* field or an item has one more path segment than it was entered with.    *)
FrameFields == {"fmt", "key", "strm", "pos0", "at", "idx", "todo", "item", "dict", "saved",
                "node", "outer", "parents0", "path0"}

IsFrame(F) == DOMAIN F = FrameFields /\ IsSeq(F.parents0) /\ IsSeq(F.path0)

Busy == {"run", "leave", "resume", "raise"}

Shape ==
    /\ IsSeq(frames)
    /\ IsSeq(parents)
    /\ IsSeq(path)
    /\ IsSeq(dicts)
    /\ \A i \in 1..Len(frames) : IsFrame(frames[i])
    /\ ctl \in Controls
    /\ ctl \in Busy => Len(frames) > 0

Waits(i) == i < Len(frames) \/ ctl = "resume" \/ (ctl = "raise" /\ frames[i].at = "greedy")

IsMap(F) == Node[F.fmt].kind = "map"

Kept ==
    \A i \in 1..Len(frames) :
        /\ Extends(parents, Anchor(frames[i]))
        /\ Extends(path, frames[i].path0)
        /\ IsContainer(frames[i]) /\ Waits(i) => Len(path) > Len(frames[i].path0)
        /\ IsMap(frames[i]) /\ (i < Len(frames) \/ ctl = "resume") => frames[i].at = "loop"

(* The context a frame was entered with extends that of the frame F.       *)
Entered(F, G) ==
    /\ Extends(G.parents0, Anchor(F))
    /\ Extends(G.path0, F.path0)
    /\ IsContainer(F) => Len(G.path0) > Len(F.path0)

Nested == \A j \in 1..Len(frames) : \A i \in 1..(j - 1) : Entered(frames[i], frames[j])

Fresh == ctl = "run" /\ IsMap(Top) /\ Top.at = "enter" => parents = Top.parents0

Inv == Shape /\ Kept /\ Nested /\ Fresh

(* The anchor of a frame is a sequence and extends what it was given.      *)
LEMMA AnchorSeq ==
    ASSUME NEW F, IsFrame(F)
    PROVE  IsSeq(Anchor(F)) /\ Extends(Anchor(F), F.parents0)
<1>1. Extends(F.parents0, F.parents0)
  BY DEF Extends
<1>2. CASE IsOpenMap(F)
  BY <1>1, <1>2, AppendSeq, ExtendsAppend DEF Anchor, IsFrame
<1>3. CASE ~IsOpenMap(F)
  BY <1>1, <1>3 DEF Anchor, IsFrame
<1> QED
  BY <1>2, <1>3

(* What replaces the running frame.                                        *)
LEMMA WithTopSeq ==
    ASSUME IsSeq(frames), Len(frames) > 0, NEW F
    PROVE  /\ IsSeq(WithTop(F))
           /\ Len(WithTop(F)) = Len(frames)
           /\ WithTop(F)[Len(frames)] = F
           /\ \A i \in 1..(Len(frames) - 1) : WithTop(F)[i] = frames[i]
<1>1. Len(frames) \in Nat
  BY DEF IsSeq
<1>2. /\ IsSeq(WithTop(F)) /\ Len(WithTop(F)) = Len(frames)
      /\ \A i \in 1..Len(frames) : WithTop(F)[i] = IF i = Len(frames) THEN F ELSE frames[i]
  <2>1. PICK t : t = WithTop(F)
    OBVIOUS
  <2>2. t = [frames EXCEPT ![Len(frames)] = F]
    BY <2>1 DEF WithTop
  <2>3. DOMAIN frames = 1..Len(frames)
    BY DEF IsSeq
  <2>4. \A i \in 1..Len(frames) : t[i] = IF i = Len(frames) THEN F ELSE frames[i]
    BY <2>2, <2>3
  <2>5. t = [i \in 1..Len(frames) |-> t[i]]
    BY <2>2, <2>3
  <2>6. IsSeq(t) /\ Len(t) = Len(frames)
    BY <1>1, <2>5, IsSeqIntro
  <2> QED
    BY <2>1, <2>4, <2>6
<1> QED
  BY <1>1, <1>2

(* A frame changes, and with it the context, without a call or a return.   *)
LEMMA StayInv ==
    ASSUME Inv, Len(frames) > 0,
           NEW F, IsFrame(F), F.fmt = Top.fmt, F.parents0 = Top.parents0, F.path0 = Top.path0,
           frames' = WithTop(F),
           IsSeq(parents'), IsSeq(path'), IsSeq(dicts'),
           ctl' \in {"run", "leave", "raise"},
           Extends(parents', Anchor(F)),
           Extends(path', Top.path0),
           IsContainer(F) /\ ctl' = "raise" /\ F.at = "greedy" => Len(path') > Len(Top.path0),
           ctl' = "run" /\ IsMap(F) => F.at # "enter"
    PROVE  Inv'
<1> DEFINE n == Len(frames)
<1>1. /\ IsSeq(frames') /\ Len(frames') = n /\ frames'[n] = F
      /\ \A i \in 1..(n - 1) : frames'[i] = frames[i]
      /\ n \in Nat
  BY WithTopSeq DEF Inv, Shape, IsSeq
<1>2. Shape'
  BY <1>1 DEF Inv, Shape, Controls
<1>3. IsSeq(Top.parents0) /\ IsSeq(Top.path0) /\ IsFrame(Top)
  BY <1>1 DEF Inv, Shape, Top, IsFrame
<1>4. Extends(parents', Top.parents0)
  BY <1>3, AnchorSeq, ExtendsTrans
<1>5. ASSUME NEW i \in 1..(n - 1)
      PROVE  /\ Extends(parents', Anchor(frames[i]))
             /\ Extends(path', frames[i].path0)
             /\ IsContainer(frames[i]) => Len(path') > Len(frames[i].path0)
             /\ IsMap(frames[i]) => frames[i].at = "loop"
  <2>1. IsFrame(frames[i]) /\ IsSeq(frames[i].path0) /\ IsSeq(Anchor(frames[i]))
    BY <1>1, AnchorSeq DEF Inv, Shape, IsFrame
  <2>2. Entered(frames[i], Top)
    BY <1>1 DEF Inv, Nested, Top
  <2>3. Extends(parents', Anchor(frames[i]))
    BY <1>3, <1>4, <2>1, <2>2, ExtendsTrans DEF Entered
  <2>4. Extends(path', frames[i].path0)
    BY <1>3, <2>1, <2>2, ExtendsTrans DEF Entered
  <2>5. IsContainer(frames[i]) => Len(path') > Len(frames[i].path0)
    BY <1>3, <2>1, <2>2 DEF Entered, Extends, IsSeq
  <2>6. IsMap(frames[i]) => frames[i].at = "loop"
    BY <1>1 DEF Inv, Kept
  <2> QED
    BY <2>3, <2>4, <2>5, <2>6
<1>6. Kept'
  BY <1>1, <1>5 DEF Kept, Waits
<1>7. Nested'
  <2> SUFFICES ASSUME NEW j \in 1..n, NEW i \in 1..(j - 1) PROVE Entered(frames'[i], frames'[j])
    BY <1>1 DEF Nested
  <2>1. i \in 1..(n - 1) /\ frames'[i] = frames[i]
    BY <1>1
  <2>2. CASE j = n
    BY <1>1, <2>1, <2>2 DEF Inv, Nested, Entered, Top
  <2>3. CASE j # n
    BY <1>1, <2>1, <2>3 DEF Inv, Nested
  <2> QED
    BY <2>2, <2>3
<1>8. Fresh'
  BY <1>1 DEF Fresh, Top, IsMap
<1> QED
  BY <1>2, <1>6, <1>7, <1>8 DEF Inv

(* A frame is left, by a return or by an exception.                        *)
LEMMA PopInv ==
    ASSUME Inv, Len(frames) > 0,
           frames' = Under(frames),
           \/ ctl' = (IF Len(frames) = 1 THEN "finish" ELSE "resume")
           \/ ctl' = (IF Len(frames) = 1 THEN "report" ELSE "raise"),
           UNCHANGED <<parents, path, dicts>>
    PROVE  Inv'
<1> DEFINE n == Len(frames)
<1>1. /\ IsSeq(frames') /\ Len(frames') = n - 1
      /\ \A i \in 1..(n - 1) : frames'[i] = frames[i]
      /\ n \in Nat
  BY UnderSeq DEF Inv, Shape, IsSeq
<1>2. Shape'
  BY <1>1 DEF Inv, Shape, Controls, Busy
<1>3. Kept'
  <2> SUFFICES ASSUME NEW i \in 1..(n - 1)
               PROVE  /\ Extends(parents, Anchor(frames[i]))
                      /\ Extends(path, frames[i].path0)
                      /\ IsContainer(frames[i]) => Len(path) > Len(frames[i].path0)
                      /\ IsMap(frames[i]) => frames[i].at = "loop"
    BY <1>1 DEF Kept
  <2> QED
    BY <1>1 DEF Inv, Kept, Waits
<1>4. Nested'
  BY <1>1 DEF Inv, Nested
<1>5. Fresh'
  BY DEF Fresh
<1> QED
  BY <1>2, <1>3, <1>4, <1>5 DEF Inv

(* A frame calls another, which is entered with the context as it is.      *)
LEMMA PushInv ==
    ASSUME Inv, ctl \in {"run", "resume"}, Len(frames) > 0,
           NEW F, IsFrame(F), F.fmt = Top.fmt, F.parents0 = Top.parents0, F.path0 = Top.path0,
           Anchor(F) = Anchor(Top), IsMap(F) => F.at = "loop",
           NEW G, IsFrame(G), G.parents0 = parents, G.path0 = path', G.at = "enter",
           frames' = Append(WithTop(F), G),
           IsSeq(path'), Extends(path', Top.path0),
           IsContainer(F) => Len(path') > Len(Top.path0),
           ctl' = "run",
           UNCHANGED <<parents, dicts>>
    PROVE  Inv'
<1> DEFINE n == Len(frames)
<1>1. /\ IsSeq(WithTop(F)) /\ Len(WithTop(F)) = n /\ WithTop(F)[n] = F
      /\ \A i \in 1..(n - 1) : WithTop(F)[i] = frames[i]
      /\ n \in Nat
  BY WithTopSeq DEF Inv, Shape, IsSeq
<1>2. /\ IsSeq(frames') /\ Len(frames') = n + 1 /\ frames'[n] = F /\ frames'[n + 1] = G
      /\ \A i \in 1..(n - 1) : frames'[i] = frames[i]
  <2>1. /\ IsSeq(frames') /\ Len(frames') = n + 1 /\ frames'[n + 1] = G
        /\ \A i \in 1..n : frames'[i] = WithTop(F)[i]
    BY <1>1, AppendSeq
  <2> QED
    BY <1>1, <2>1
<1>3. Shape'
  BY <1>1, <1>2 DEF Inv, Shape, Controls
<1>4. IsFrame(Top) /\ IsSeq(Top.path0)
  BY <1>1 DEF Inv, Shape, Top, IsFrame
<1>5. ASSUME NEW i \in 1..n
      PROVE  /\ Entered(frames'[i], G)
             /\ IsMap(frames'[i]) => frames'[i].at = "loop"
  <2>1. CASE i = n
    <3>1. Extends(parents, Anchor(F))
      BY <1>1 DEF Inv, Kept, Top
    <3> QED
      BY <1>2, <2>1, <3>1 DEF Entered
  <2>2. CASE i # n
    <3>1. i \in 1..(n - 1) /\ frames'[i] = frames[i]
      BY <1>1, <1>2, <2>2
    <3>2. /\ Extends(parents, Anchor(frames[i])) /\ IsMap(frames[i]) => frames[i].at = "loop"
      BY <1>1, <3>1 DEF Inv, Kept
    <3>3. IsSeq(frames[i].path0)
      BY <1>1, <3>1 DEF Inv, Shape, IsFrame
    <3>4. Entered(frames[i], Top)
      BY <1>1, <3>1 DEF Inv, Nested, Top
    <3>5. Extends(path', frames[i].path0)
      BY <1>4, <3>3, <3>4, ExtendsTrans DEF Entered
    <3>6. IsContainer(frames[i]) => Len(path') > Len(frames[i].path0)
      BY <1>4, <3>3, <3>4 DEF Entered, Extends, IsSeq
    <3> QED
      BY <3>1, <3>2, <3>5, <3>6 DEF Entered, Inv, Kept
  <2> QED
    BY <2>1, <2>2
<1>6. /\ Anchor(G) = parents /\ Extends(parents, parents) /\ Extends(path', path')
  BY DEF Anchor, IsOpenMap, Extends
<1>7. Kept'
  <2> SUFFICES ASSUME NEW i \in 1..(n + 1)
               PROVE  /\ Extends(parents, Anchor(frames'[i]))
                      /\ Extends(path', frames'[i].path0)
                      /\ i < n + 1 => /\ IsContainer(frames'[i]) => Len(path') > Len(frames'[i].path0)
                                      /\ IsMap(frames'[i]) => frames'[i].at = "loop"
    BY <1>2 DEF Kept, Waits
  <2>1. CASE i \in 1..n
    BY <1>5, <2>1 DEF Entered
  <2>2. CASE i = n + 1
    BY <1>1, <1>2, <1>6, <2>2
  <2> QED
    BY <1>1, <2>1, <2>2
<1>8. Nested'
  <2> SUFFICES ASSUME NEW j \in 1..(n + 1), NEW i \in 1..(j - 1) PROVE Entered(frames'[i], frames'[j])
    BY <1>2 DEF Nested
  <2>1. CASE j = n + 1
    BY <1>1, <1>2, <1>5, <2>1
  <2>2. CASE j = n
    <3>1. i \in 1..(n - 1) /\ frames'[i] = frames[i] /\ Entered(frames[i], Top)
      BY <1>1, <1>2, <2>2 DEF Inv, Nested, Top
    <3> QED
      BY <1>2, <2>2, <3>1 DEF Entered
  <2>3. CASE j \in 1..(n - 1)
    BY <1>1, <1>2, <2>3 DEF Inv, Nested
  <2> QED
    BY <1>1, <2>1, <2>2, <2>3
<1>9. Fresh'
  BY <1>1, <1>2 DEF Fresh, Top
<1> QED
  BY <1>3, <1>7, <1>8, <1>9 DEF Inv

-----------------------------------------------------------------------------
(* What the invariant says of the running frame.                           *)
LEMMA TopFacts ==
    ASSUME Inv, Len(frames) > 0
    PROVE  /\ IsFrame(Top) /\ IsSeq(Top.parents0) /\ IsSeq(Top.path0)
           /\ IsSeq(parents) /\ IsSeq(path) /\ IsSeq(dicts)
           /\ Extends(parents, Anchor(Top))
           /\ Extends(path, Top.path0)
           /\ IsContainer(Top) /\ ctl = "resume" => Len(path) > Len(Top.path0)
           /\ IsContainer(Top) /\ ctl = "raise" /\ Top.at = "greedy" => Len(path) > Len(Top.path0)
           /\ IsMap(Top) /\ ctl = "resume" => Top.at = "loop"
           /\ WithTop(Top) = frames
<1>1. Len(frames) \in Nat /\ frames = [i \in 1..Len(frames) |-> frames[i]]
  BY DEF Inv, Shape, IsSeq
<1>2. WithTop(Top) = frames
  BY <1>1 DEF WithTop, Top
<1> QED
  BY <1>1, <1>2 DEF Inv, Shape, Kept, Waits, Top, IsFrame

(* A frame with other counters and another place to stand.                 *)
IsUpdate(F) == /\ IsFrame(F)
               /\ F.fmt = Top.fmt
               /\ F.parents0 = Top.parents0
               /\ F.path0 = Top.path0
               /\ Anchor(F) = Anchor(Top)

LEMMA TopIsUpdate == ASSUME Inv, Len(frames) > 0 PROVE IsUpdate(Top)
  BY TopFacts DEF IsUpdate

LEMMA ReturnInv ==
    ASSUME Inv, Len(frames) > 0, NEW F, IsUpdate(F), NEW v, Return(F, v), UNCHANGED <<dicts, parents>>,
           IsSeq(path'), Extends(path', Top.path0)
    PROVE  Inv'
  BY TopFacts, StayInv DEF IsUpdate, Return

LEMMA RaiseInv ==
    ASSUME Inv, Len(frames) > 0, NEW e, Raise(e), UNCHANGED <<dicts, parents, path>>,
           IsContainer(Top) => Top.at # "greedy"
    PROVE  Inv'
  BY TopFacts, TopIsUpdate, StayInv DEF IsUpdate, Raise

LEMMA DeliverInv ==
    ASSUME Inv, Len(frames) > 0, NEW r, Deliver(r), UNCHANGED <<dicts, parents, path>>,
           IsContainer(Top) => Top.at # "greedy"
    PROVE  Inv'
  BY TopFacts, TopIsUpdate, ReturnInv, RaiseInv DEF Deliver

LEMMA NewFrameIsFrame ==
    ASSUME NEW f, NEW key, NEW s, NEW pos, NEW node, NEW outer, NEW scope, NEW newPath,
           IsSeq(scope), IsSeq(newPath)
    PROVE  LET G == NewFrame(f, key, s, pos, node, outer, scope, newPath)
           IN  IsFrame(G) /\ G.parents0 = scope /\ G.path0 = newPath /\ G.at = "enter"
  BY DEF NewFrame, IsFrame, FrameFields

LEMMA CallInv ==
    ASSUME Inv, Len(frames) > 0, ctl \in {"run", "resume"},
           NEW F, IsUpdate(F), IsMap(F) => F.at = "loop",
           NEW f, NEW key, NEW s, NEW newStreams, NEW newPath, NEW newNodes,
           IsSeq(newPath), Extends(newPath, Top.path0),
           IsContainer(F) => Len(newPath) > Len(Top.path0),
           Call(F, f, key, s, newStreams, newPath, newNodes)
    PROVE  Inv'
<1>1. UNCHANGED <<parents, dicts>> /\ path' = newPath
  BY DEF Call
<1>2. CASE Len(frames) = MaxDepth
  <2>1. frames' = WithTop(F) /\ ctl' = "raise"
    BY <1>2 DEF Call
  <2> QED
    BY <1>1, <2>1, TopFacts, StayInv DEF IsUpdate
<1>3. CASE Len(frames) # MaxDepth
  <2> DEFINE G == NewFrame(f, key, s, newStreams[s].pos, Len(newNodes) + 1, kidsOf, parents, newPath)
  <2>1. frames' = Append(WithTop(F), G) /\ ctl' = "run"
    BY <1>3 DEF Call
  <2>2. IsFrame(G) /\ G.parents0 = parents /\ G.path0 = path' /\ G.at = "enter"
    BY <1>1, TopFacts, NewFrameIsFrame
  <2> HIDE DEF G
  <2> QED
    BY <1>1, <2>1, <2>2, PushInv DEF IsUpdate
<1> QED
  BY <1>2, <1>3

(* A wrapper hands on the path as it is.                                   *)
LEMMA CallInnerInv ==
    ASSUME Inv, Len(frames) > 0, ctl \in {"run", "resume"}, ~IsContainer(Top),
           NEW F, IsUpdate(F), NEW f, NEW key, NEW s, NEW newStreams, NEW newNodes,
           Call(F, f, key, s, newStreams, path, newNodes)
    PROVE  Inv'
<1>1. ~IsContainer(F) /\ ~IsMap(F)
  BY DEF IsUpdate, IsContainer, IsMap
<1> QED
  BY <1>1, TopFacts, CallInv

(* The call has ended.                                                     *)
LEMMA IdleInv ==
    ASSUME Inv, UNCHANGED <<frames, parents, path>>, IsSeq(dicts'), ctl' = "done"
    PROVE  Inv'
  BY DEF Inv, Shape, Kept, Waits, Nested, Fresh, Controls, Busy

-----------------------------------------------------------------------------
LEMMA InitInv == ASSUME Init PROVE Inv
<1> DEFINE G(root) == NewFrame(root, NoKey, 1, 0, 2, 1, <<1>>, <<>>)
<1>1. PICK root \in Roots : frames = <<G(root)>>
  BY DEF Init
<1>2. parents = <<1>> /\ path = <<>> /\ dicts = <<<<>>>> /\ ctl = "run"
  BY DEF Init
<1>3. IsSeq(parents) /\ IsSeq(path) /\ IsSeq(dicts)
  BY <1>2 DEF IsSeq
<1>4. IsFrame(G(root)) /\ G(root).parents0 = parents /\ G(root).path0 = path /\ G(root).at = "enter"
  BY <1>2, <1>3, NewFrameIsFrame
<1> HIDE DEF G
<1>5. IsSeq(frames) /\ Len(frames) = 1 /\ frames[1] = G(root)
  BY <1>1 DEF IsSeq
<1>6. Shape
  BY <1>2, <1>3, <1>4, <1>5 DEF Shape, Controls
<1>7. Anchor(G(root)) = parents /\ Extends(parents, parents) /\ Extends(path, path)
  BY <1>4 DEF Anchor, IsOpenMap, Extends
<1>8. Kept
  BY <1>2, <1>4, <1>5, <1>7 DEF Kept, Waits
<1>9. Nested
  BY <1>5 DEF Nested
<1>10. Fresh
  BY <1>4, <1>5 DEF Fresh, Top
<1> QED
  BY <1>6, <1>8, <1>9, <1>10 DEF Inv

(* Every step keeps the invariant.                                         *)
LEMMA StepInv == ASSUME Inv, Next PROVE Inv'
<1> DEFINE n == Len(frames)
<1>1. ctl \in Busy => n > 0
  BY DEF Inv, Shape
<1>2. ASSUME DecodeLeaf PROVE Inv'
  <2>1. n > 0 /\ ~IsContainer(Top)
    BY <1>1, <1>2 DEF DecodeLeaf, Busy, IsContainer, LeafKinds, TopNode
  <2> QED
    BY <1>2, <2>1, DeliverInv DEF DecodeLeaf
<1>3. ASSUME MapEnter PROVE Inv'
  <2> DEFINE F == [Top EXCEPT !.at = "loop", !.dict = Len(dicts) + 1]
  <2>1. /\ n > 0 /\ ctl = "run" /\ ctl' = "run" /\ IsMap(Top) /\ Top.at = "enter"
        /\ parents' = Append(parents, Len(dicts) + 1)
        /\ dicts' = Append(dicts, <<>>) /\ path' = path /\ frames' = WithTop(F)
    BY <1>1, <1>3 DEF MapEnter, Running, Busy, TopNode, IsMap
  <2>2. /\ DOMAIN F = FrameFields /\ F.fmt = Top.fmt /\ F.at = "loop" /\ F.dict = Len(dicts) + 1
        /\ F.parents0 = Top.parents0 /\ F.path0 = Top.path0
    BY <2>1, TopFacts DEF IsFrame, FrameFields
  <2>3. IsFrame(F)
    BY <2>1, <2>2, TopFacts DEF IsFrame
  <2>4. parents = Top.parents0
    BY <2>1 DEF Inv, Fresh
  <2>5. Anchor(F) = parents'
    BY <2>1, <2>2, <2>4 DEF Anchor, IsOpenMap, IsMap
  <2>6. IsSeq(parents') /\ IsSeq(dicts')
    BY <2>1, TopFacts, AppendSeq
  <2>7. Extends(parents', Anchor(F))
    BY <2>5, <2>6 DEF Extends
  <2> HIDE DEF F
  <2> QED
    BY <2>1, <2>2, <2>3, <2>6, <2>7, TopFacts, StayInv
<1>4. ASSUME MapField PROVE Inv'
  <2>1. n > 0 /\ ctl = "run" /\ IsMap(Top) /\ Top.at = "loop"
    BY <1>1, <1>4 DEF MapField, Running, Busy, TopNode, IsMap
  <2>2. CASE Raise("Value") /\ UNCHANGED <<dicts, parents, path>>
    BY <2>1, <2>2, RaiseInv
  <2>3. ASSUME NEW i, NEW key,
               Call([Top EXCEPT !.idx = i, !.item = key], TopNode.subs[i], key, Top.strm,
                    streams, Append(path, key), nodes)
        PROVE  Inv'
    <3> DEFINE F == [Top EXCEPT !.idx = i, !.item = key]
    <3>1. /\ DOMAIN F = FrameFields /\ F.fmt = Top.fmt /\ F.at = "loop" /\ F.dict = Top.dict
          /\ F.parents0 = Top.parents0 /\ F.path0 = Top.path0
      BY <2>1, TopFacts DEF IsFrame, FrameFields
    <3>2. IsUpdate(F)
      BY <2>1, <3>1, TopFacts DEF IsUpdate, IsFrame, Anchor, IsOpenMap
    <3>3. IsSeq(Append(path, key)) /\ Extends(Append(path, key), Top.path0)
          /\ Len(Append(path, key)) > Len(Top.path0)
      BY <2>1, TopFacts, AppendSeq, ExtendsAppend
    <3> HIDE DEF F
    <3>4. Call(F, TopNode.subs[i], key, Top.strm, streams, Append(path, key), nodes)
      BY <2>3 DEF F
    <3> QED
      BY <2>1, <3>1, <3>2, <3>3, <3>4, CallInv
  <2> QED
    BY <1>4, <2>2, <2>3 DEF MapField
<1>5. ASSUME MapStore PROVE Inv'
  <2>1. /\ n > 0 /\ ctl = "resume" /\ ctl' = "run" /\ IsMap(Top) /\ Top.at = "loop"
        /\ IsContainer(Top) /\ parents' = parents /\ path' = Under(path) /\ frames' = frames
    BY <1>1, <1>5, TopFacts DEF MapStore, Resuming, Busy, TopNode, IsMap, IsContainer
  <2>2. IsSeq(path') /\ Extends(path', Top.path0)
    BY <2>1, TopFacts, ExtendsUnder
  <2>3. IsSeq(dicts')
    <3>1. PICK x : dicts' = [dicts EXCEPT ![Top.dict] = x]
      BY <1>5 DEF MapStore
    <3> QED
      BY <2>1, <3>1, TopFacts, ExceptIsSeq
  <2> QED
    BY <2>1, <2>2, <2>3, TopFacts, TopIsUpdate, StayInv DEF IsUpdate
<1>6. ASSUME MapExit PROVE Inv'
  <2> DEFINE F == [Top EXCEPT !.at = "exit"]
  <2>1. /\ n > 0 /\ ctl = "run" /\ ctl' = "leave" /\ IsMap(Top) /\ Top.at = "loop"
        /\ parents' = Under(parents) /\ UNCHANGED <<path, dicts>> /\ frames' = WithTop(F)
    BY <1>1, <1>6 DEF MapExit, Running, Busy, TopNode, IsMap, Return
  <2>2. /\ DOMAIN F = FrameFields /\ F.fmt = Top.fmt /\ F.at = "exit"
        /\ F.parents0 = Top.parents0 /\ F.path0 = Top.path0
    BY <2>1, TopFacts DEF IsFrame, FrameFields
  <2>3. IsFrame(F) /\ Anchor(F) = Top.parents0
    BY <2>1, <2>2, TopFacts DEF IsFrame, Anchor, IsOpenMap
  <2>4. Anchor(Top) = Append(Top.parents0, Top.dict)
    BY <2>1 DEF Anchor, IsOpenMap, IsMap
  <2>5. Len(parents) > Len(Top.parents0) /\ Extends(parents, Top.parents0)
    <3>1. IsSeq(Anchor(Top)) /\ Extends(Anchor(Top), Top.parents0)
          /\ Len(Anchor(Top)) = Len(Top.parents0) + 1
      <4>1. IsFrame(Top) /\ IsSeq(Top.parents0)
        BY <2>1, TopFacts
      <4>2. Len(Append(Top.parents0, Top.dict)) = Len(Top.parents0) + 1
        BY <4>1, AppendSeq
      <4> QED
        BY <2>4, <4>1, <4>2, AnchorSeq
    <3>2. Extends(parents, Anchor(Top))
      BY <2>1, TopFacts
    <3>3. Extends(parents, Top.parents0)
      BY <2>1, <3>1, <3>2, TopFacts, ExtendsTrans
    <3> QED
      BY <2>1, <3>1, <3>2, <3>3, TopFacts DEF Extends, IsSeq
  <2>6. IsSeq(parents') /\ Extends(parents', Anchor(F))
    BY <2>1, <2>3, <2>5, TopFacts, ExtendsUnder
  <2> HIDE DEF F
  <2> QED
    BY <2>1, <2>2, <2>3, <2>6, TopFacts, StayInv
<1>7. ASSUME TupleItem \/ ArrayItem PROVE Inv'
  <2>1. n > 0 /\ ctl = "run" /\ ~IsMap(Top)
    BY <1>1, <1>7 DEF TupleItem, ArrayItem, Running, Busy, IsMap, TopNode
  <2>2. ASSUME NEW i, NEW f, CallItem(i, f) PROVE Inv'
    <3> DEFINE F == [Top EXCEPT !.item = Index(i)]
    <3>1. /\ DOMAIN F = FrameFields /\ F.fmt = Top.fmt
          /\ F.parents0 = Top.parents0 /\ F.path0 = Top.path0
      BY <2>1, TopFacts DEF IsFrame, FrameFields
    <3>2. IsUpdate(F) /\ ~IsMap(F)
      BY <2>1, <3>1, TopFacts DEF IsUpdate, IsFrame, Anchor, IsOpenMap, IsMap
    <3>3. IsSeq(Append(path, Index(i))) /\ Extends(Append(path, Index(i)), Top.path0)
          /\ Len(Append(path, Index(i))) > Len(Top.path0)
      BY <2>1, TopFacts, AppendSeq, ExtendsAppend
    <3> HIDE DEF F
    <3>4. Call(F, f, Index(i), Top.strm, streams, Append(path, Index(i)), nodes)
      BY <2>2 DEF CallItem, F
    <3> QED
      BY <2>1, <3>2, <3>3, <3>4, CallInv
  <2> QED
    BY <1>7, <2>2 DEF TupleItem, ArrayItem
<1>8. ASSUME ItemStore PROVE Inv'
  <2> DEFINE F == [Top EXCEPT !.idx = NextIndex(@)]
  <2>1. /\ n > 0 /\ ctl = "resume" /\ ctl' = "run" /\ ~IsMap(Top) /\ IsContainer(Top)
        /\ UNCHANGED <<parents, dicts>> /\ path' = Under(path) /\ frames' = WithTop(F)
    BY <1>1, <1>8 DEF ItemStore, Resuming, Busy, IsMap, IsContainer, TopNode
  <2>2. /\ DOMAIN F = FrameFields /\ F.fmt = Top.fmt
        /\ F.parents0 = Top.parents0 /\ F.path0 = Top.path0
    BY <2>1, TopFacts DEF IsFrame, FrameFields
  <2>3. IsUpdate(F) /\ ~IsMap(F)
    BY <2>1, <2>2, TopFacts DEF IsUpdate, IsFrame, Anchor, IsOpenMap, IsMap
  <2>4. IsSeq(path') /\ Extends(path', Top.path0)
    BY <2>1, TopFacts, ExtendsUnder
  <2> HIDE DEF F
  <2> QED
    BY <2>1, <2>3, <2>4, TopFacts, StayInv DEF IsUpdate
<1>9. ASSUME ItemsExit PROVE Inv'
  <2>1. n > 0 /\ ctl = "run" /\ UNCHANGED <<parents, path, dicts>>
    BY <1>1, <1>9 DEF ItemsExit, Running, Busy
  <2> QED
    BY <1>9, <2>1, TopFacts, TopIsUpdate, ReturnInv DEF ItemsExit
<1>10. ASSUME GreedyCatch PROVE Inv'
  <2>1. /\ n > 0 /\ ctl = "raise" /\ IsContainer(Top) /\ Top.at = "greedy"
        /\ path' = Under(path) /\ UNCHANGED <<parents, dicts>>
    BY <1>1, <1>10 DEF GreedyCatch, Catches, Busy, IsContainer, TopNode
  <2>2. IsSeq(path') /\ Extends(path', Top.path0)
    BY <2>1, TopFacts, ExtendsUnder
  <2> QED
    BY <1>10, <2>1, <2>2, TopFacts, TopIsUpdate, ReturnInv DEF GreedyCatch
<1>11. ASSUME ArrayGreedy PROVE Inv'
  <2> DEFINE F == [Top EXCEPT !.at = "greedy"]
  <2>1. /\ n > 0 /\ ctl' = "run" /\ ~IsMap(Top)
        /\ UNCHANGED <<parents, path, dicts>> /\ frames' = WithTop(F)
    BY <1>1, <1>11 DEF ArrayGreedy, Running, Busy, IsMap, TopNode
  <2>2. /\ DOMAIN F = FrameFields /\ F.fmt = Top.fmt
        /\ F.parents0 = Top.parents0 /\ F.path0 = Top.path0
    BY <2>1, TopFacts DEF IsFrame, FrameFields
  <2>3. IsUpdate(F) /\ ~IsMap(F)
    BY <2>1, <2>2, TopFacts DEF IsUpdate, IsFrame, Anchor, IsOpenMap, IsMap
  <2> HIDE DEF F
  <2> QED
    BY <2>1, <2>3, TopFacts, StayInv DEF IsUpdate
<1>12. ASSUME ArrayCount PROVE Inv'
  <2>1. n > 0 /\ ctl = "run" /\ ~IsMap(Top) /\ Top.at = "enter" /\ UNCHANGED <<parents, path, dicts>>
    BY <1>1, <1>12 DEF ArrayCount, Running, Busy, IsMap, TopNode
  <2>2. ASSUME NEW r, Deliver(r) PROVE Inv'
    BY <2>1, <2>2, DeliverInv
  <2>3. ASSUME NEW k, frames' = WithTop([Top EXCEPT !.at = "items", !.todo = k]), ctl' = ctl PROVE Inv'
    <3> DEFINE F == [Top EXCEPT !.at = "items", !.todo = k]
    <3>1. /\ DOMAIN F = FrameFields /\ F.fmt = Top.fmt
          /\ F.parents0 = Top.parents0 /\ F.path0 = Top.path0
      BY <2>1, TopFacts DEF IsFrame, FrameFields
    <3>2. IsUpdate(F) /\ ~IsMap(F)
      BY <2>1, <3>1, TopFacts DEF IsUpdate, IsFrame, Anchor, IsOpenMap, IsMap
    <3>3. frames' = WithTop(F)
      BY <2>3
    <3> HIDE DEF F
    <3> QED
      BY <2>1, <2>3, <3>2, <3>3, TopFacts, StayInv DEF IsUpdate
  <2> QED
    BY <1>12, <2>2, <2>3 DEF ArrayCount
<1>13. ASSUME ~IsContainer(Top), ctl \in {"run", "resume"}, NEW F, F \in {Top, [Top EXCEPT !.saved = F.saved]},
              NEW a, NEW f, NEW key, NEW s, NEW newStreams, NEW newNodes,
              Call([F EXCEPT !.at = a], f, key, s, newStreams, path, newNodes)
       PROVE  Inv'
  <2> DEFINE G == [F EXCEPT !.at = a]
  <2>1. n > 0 /\ IsFrame(Top)
    BY <1>1, <1>13, TopFacts DEF Busy
  <2>2. DOMAIN F = FrameFields /\ F.fmt = Top.fmt /\ F.parents0 = Top.parents0 /\ F.path0 = Top.path0
    BY <1>13, <2>1 DEF IsFrame, FrameFields
  <2>3. DOMAIN G = FrameFields /\ G.fmt = Top.fmt /\ G.parents0 = Top.parents0 /\ G.path0 = Top.path0
    BY <2>2 DEF FrameFields
  <2>4. IsUpdate(G)
    BY <1>13, <2>1, <2>3, TopFacts DEF IsUpdate, IsFrame, Anchor, IsOpenMap, IsContainer
  <2> HIDE DEF G
  <2>5. Call(G, f, key, s, newStreams, path, newNodes)
    BY <1>13 DEF G
  <2> QED
    BY <1>13, <2>1, <2>4, <2>5, CallInnerInv
<1>14. ASSUME ~IsContainer(Top), ctl \in {"run", "resume"}, NEW F, F \in {Top, [Top EXCEPT !.saved = F.saved]},
              NEW f, NEW key, NEW s, NEW newStreams, NEW newNodes,
              CallInner(F, f, key, s, newStreams, newNodes)
       PROVE  Inv'
  BY <1>13, <1>14 DEF CallInner
<1>15. ASSUME ctl \in Busy, UNCHANGED <<dicts, parents, path>>, NEW v, Return(Top, v) PROVE Inv'
  BY <1>1, <1>15, TopFacts, TopIsUpdate, ReturnInv
<1>16. ASSUME WrapOpen PROVE Inv'
  <2>1. ~IsContainer(Top) /\ ctl \in {"run", "resume"}
    BY <1>16 DEF WrapOpen, Running, IsContainer, TopNode
  <2> QED
    BY <1>14, <1>16, <2>1 DEF WrapOpen
<1>17. ASSUME OptionalCatch \/ WrapClose \/ PointerBack PROVE Inv'
  BY <1>15, <1>17 DEF OptionalCatch, WrapClose, PointerBack, Resuming, Busy
<1>18. ASSUME SwitchOpen PROVE Inv'
  <2>1. ~IsContainer(Top) /\ ctl \in {"run", "resume"} /\ n > 0
    BY <1>1, <1>18 DEF SwitchOpen, Running, IsContainer, TopNode, Busy
  <2>2. ASSUME NEW e, Raise(e), UNCHANGED <<dicts, parents, path>> PROVE Inv'
    BY <2>1, <2>2, RaiseInv
  <2> QED
    BY <1>14, <1>18, <2>1, <2>2 DEF SwitchOpen
<1>19. ASSUME PointerOffset PROVE Inv'
  <2>1. ~IsContainer(Top) /\ ctl \in {"run", "resume"}
    BY <1>19 DEF PointerOffset, Running, IsContainer, TopNode
  <2> QED
    BY <1>13, <1>19, <2>1 DEF PointerOffset
<1>20. ASSUME PointerJump PROVE Inv'
  <2>1. ~IsContainer(Top) /\ ctl \in {"run", "resume"} /\ IsFrame(Top)
    BY <1>1, <1>20, TopFacts DEF PointerJump, Resuming, IsContainer, TopNode, Busy
  <2> DEFINE F == [Top EXCEPT !.saved = TopStream.pos]
  <2>2. F \in {Top, [Top EXCEPT !.saved = F.saved]}
    BY <2>1 DEF IsFrame, FrameFields
  <2>3. CASE TopNode.flag /\ val.n = 0
    BY <1>15, <1>20, <2>1, <2>3 DEF PointerJump, Busy
  <2>4. CASE ~(TopNode.flag /\ val.n = 0)
    <3>1. CallInner(F, TopNode.subs[2], Name("value"), Top.strm,
                    [streams EXCEPT ![Top.strm] = Seek(@, TopNode.num + val.n)], nodes)
      BY <1>20, <2>4 DEF PointerJump
    <3> HIDE DEF F
    <3> QED
      BY <1>14, <2>1, <2>2, <3>1
  <2> QED
    BY <2>3, <2>4
<1>21. ASSUME SizedOpen PROVE Inv'
  <2>1. ~IsContainer(Top) /\ ctl \in {"run", "resume"} /\ n > 0
    BY <1>1, <1>21 DEF SizedOpen, Running, IsContainer, TopNode, Busy
  <2>2. ASSUME NEW r, Deliver(r), UNCHANGED <<dicts, parents, path>> PROVE Inv'
    BY <2>1, <2>2, DeliverInv
  <2> QED
    BY <1>14, <1>21, <2>1, <2>2 DEF SizedOpen
<1>22. ASSUME SizedClose PROVE Inv'
  <2>1. ~IsContainer(Top) /\ ctl \in Busy /\ n > 0 /\ UNCHANGED <<dicts, parents, path>>
    BY <1>1, <1>22 DEF SizedClose, Resuming, IsContainer, TopNode, Busy
  <2> QED
    BY <1>15, <1>22, <2>1, RaiseInv DEF SizedClose
<1>23. ASSUME Leave PROVE Inv'
  BY <1>1, <1>23, PopInv DEF Leave, Busy
<1>24. ASSUME Unwind PROVE Inv'
  BY <1>1, <1>24, PopInv DEF Unwind, Busy
<1>25. ASSUME Finish PROVE Inv'
  <2>1. IsSeq(dicts')
    BY <1>25 DEF Finish, Inv, Shape
  <2> QED
    BY <1>25, <2>1, IdleInv DEF Finish
<1>26. ASSUME Report PROVE Inv'
  <2>1. DOMAIN dicts = 1..Len(dicts) /\ Len(dicts) \in Nat
    BY DEF Inv, Shape, IsSeq
  <2>2. DOMAIN Stitched = 1..Len(dicts) /\ Stitched = [i \in 1..Len(dicts) |-> Stitched[i]]
    BY <2>1 DEF Stitched, StitchedBy
  <2>3. IsSeq(Stitched)
    BY <2>1, <2>2, IsSeqIntro
  <2> QED
    BY <1>26, <2>3, IdleInv DEF Report
<1> QED
  BY <1>2, <1>3, <1>4, <1>5, <1>6, <1>7, <1>8, <1>9, <1>10, <1>11, <1>12, <1>16, <1>17, <1>18,
     <1>19, <1>20, <1>21, <1>22, <1>23, <1>24, <1>25, <1>26 DEF Next

LEMMA StutterInv == ASSUME Inv, UNCHANGED vars PROVE Inv'
  BY DEF Inv, Shape, Kept, Waits, Nested, Fresh, Top, vars, flow

LEMMA Invariance == Spec => []Inv
<1>1. Init => Inv
  BY InitInv
<1>2. Inv /\ [Next]_vars => Inv'
  BY StepInv, StutterInv
<1> QED
  BY <1>1, <1>2, PTL DEF Spec

(* Whatever exceptions a format swallows and whatever it leaves behind, no *)
(* decode loses a parent or a path segment of the decodes around it.       *)
THEOREM AncestorsAreKept == Spec => []AncestorsKept
<1>1. Inv => AncestorsKept
  BY DEF Inv, Kept, Shape, IsSeq, AncestorsKept
<1> QED
  BY <1>1, Invariance, PTL

-----------------------------------------------------------------------------
(* Formats that swallow exceptions only above a leaf.  Then the context is *)
(* known exactly: every frame was entered with the parents and the path    *)
(* that the frame below it left, and an exception that will be swallowed   *)
(* has passed no container.                                                *)
PathIn(F) == IF IsContainer(F) THEN Append(F.path0, F.item) ELSE F.path0

Swallowing(F) == \/ Node[F.fmt].kind = "optional" /\ F.at = "inner"
                 \/ Node[F.fmt].kind = "array" /\ F.at = "greedy"

IsLeaf(F) == Node[F.fmt].kind \in LeafKinds

Link(F, G) == /\ G.parents0 = Anchor(F)
              /\ G.path0 = PathIn(F)
              /\ ~IsLeaf(F)
              /\ Swallowing(F) => G.fmt = Node[F.fmt].subs[1]

Handed(F, c, ps, pa) ==
    /\ c = "run" => ps = Anchor(F) /\ pa = F.path0
    /\ c = "resume" => ps = Anchor(F) /\ pa = PathIn(F) /\ ~IsLeaf(F)
    /\ c = "leave" => ps = F.parents0 /\ pa = F.path0
    /\ c = "raise" /\ IsLeaf(F) => ps = F.parents0 /\ pa = F.path0
    /\ c = "raise" /\ Swallowing(F) => ps = F.parents0 /\ pa = PathIn(F)

Marked(F) == F.fmt \in Fmt /\ (Node[F.fmt].kind = "array" /\ F.at = "greedy" => Swallows(F.fmt))

Linked == \A i \in 1..(Len(frames) - 1) : Link(frames[i], frames[i + 1])

(* So a frame was entered with the mappings and the keys of the frames     *)
(* below it, and an exception under way has left the path as it was where  *)
(* it was raised.                                                          *)
Scoped(F, stack, n) == Lists(F.parents0, ScopesUpto(stack, n)) /\ Lists(F.path0, KeysUpto(stack, n))

Ranked == \A i \in 1..Len(frames) : Scoped(frames[i], frames, i - 1)

Traced == ctl \in {"raise", "report"} => Lists(path, origin.keys)

TidyInv == /\ Inv
           /\ Linked
           /\ Ranked
           /\ Traced
           /\ \A i \in 1..Len(frames) : Marked(frames[i])
           /\ ctl \in Busy => Handed(Top, ctl, parents, path)

LEMMA TidyTop ==
    ASSUME TidyInv, ctl \in Busy
    PROVE  /\ Len(frames) > 0 /\ Handed(Top, ctl, parents, path) /\ Marked(Top)
           /\ IsFrame(Top) /\ IsSeq(Top.parents0) /\ IsSeq(Top.path0)
           /\ WithTop(Top) = frames
           /\ Scoped(Top, frames, Len(frames) - 1)
<1>1. Len(frames) > 0 /\ Len(frames) \in Nat
  BY DEF TidyInv, Inv, Shape, IsSeq
<1>2. Marked(Top) /\ Scoped(Top, frames, Len(frames) - 1)
  BY <1>1 DEF TidyInv, Ranked, Top
<1> QED
  BY <1>1, <1>2, TopFacts DEF TidyInv

(* The lowest frames of a stack that grows or shrinks above them.          *)
LEMMA ScopedLocal ==
    ASSUME NEW F, NEW G, G.parents0 = F.parents0, G.path0 = F.path0, NEW n, NEW stack, NEW other,
           \A i \in 1..n : other[i] = stack[i], Scoped(F, stack, n)
    PROVE  Scoped(G, other, n)
  BY UptoLocal DEF Scoped

(* What a frame of a stack leaves for the next.                            *)
LEMMA ScopedNext ==
    ASSUME NEW stack, NEW n \in Nat, NEW F, F = stack[n + 1], Scoped(F, stack, n),
           IsSeq(F.parents0), IsSeq(F.path0)
    PROVE  Lists(Anchor(F), ScopesUpto(stack, n + 1)) /\ Lists(PathIn(F), KeysUpto(stack, n + 1))
<1>1. Lists(Anchor(F), ScopesUpto(stack, n + 1))
  BY DictsGrow DEF Scoped, Anchor
<1>2. Lists(PathIn(F), KeysUpto(stack, n + 1))
  BY KeysGrow DEF Scoped, PathIn
<1> QED
  BY <1>1, <1>2

LEMMA StayTidy ==
    ASSUME TidyInv, ctl \in Busy, Inv', NEW F, Marked(F),
           F.fmt = Top.fmt, F.parents0 = Top.parents0, F.path0 = Top.path0,
           frames' = WithTop(F), ctl' \in Busy, Handed(F, ctl', parents', path'),
           ctl' = "raise" => Lists(path', origin'.keys)
    PROVE  TidyInv'
<1> DEFINE n == Len(frames)
<1>1. n > 0 /\ n \in Nat /\ Len(frames') = n /\ frames'[n] = F
      /\ \A i \in 1..(n - 1) : frames'[i] = frames[i]
  BY TidyTop, WithTopSeq DEF TidyInv, Inv, Shape, IsSeq
<1>2. Linked'
  <2> SUFFICES ASSUME NEW i \in 1..(n - 1) PROVE Link(frames'[i], frames'[i + 1])
    BY <1>1 DEF Linked
  <2>1. Link(frames[i], frames[i + 1])
    BY DEF TidyInv, Linked
  <2>2. CASE i + 1 = n
    BY <1>1, <2>1, <2>2 DEF Link, Top
  <2>3. CASE i + 1 # n
    BY <1>1, <2>1, <2>3
  <2> QED
    BY <2>2, <2>3
<1>3. \A i \in 1..n : Marked(frames'[i])
  BY <1>1 DEF TidyInv
<1>4. Handed(Top', ctl', parents', path')
  BY <1>1 DEF Top
<1>5. Ranked'
  <2> SUFFICES ASSUME NEW i \in 1..n PROVE Scoped(frames'[i], frames', i - 1)
    BY <1>1 DEF Ranked
  <2>1. Scoped(frames[i], frames, i - 1) /\ \A j \in 1..(i - 1) : frames'[j] = frames[j]
    BY <1>1 DEF TidyInv, Ranked
  <2>2. frames'[i].parents0 = frames[i].parents0 /\ frames'[i].path0 = frames[i].path0
    BY <1>1 DEF Top
  <2> QED
    BY <2>1, <2>2, ScopedLocal
<1>6. Traced'
  BY DEF Traced, Busy
<1> QED
  BY <1>1, <1>2, <1>3, <1>4, <1>5, <1>6 DEF TidyInv

LEMMA PushTidy ==
    ASSUME TidyInv, ctl \in Busy, Inv', NEW F, NEW G, Marked(F), Marked(G),
           F.fmt = Top.fmt, F.parents0 = Top.parents0, F.path0 = Top.path0,
           frames' = Append(WithTop(F), G), ctl' = "run",
           Link(F, G), Handed(G, ctl', parents', path')
    PROVE  TidyInv'
<1> DEFINE n == Len(frames)
<1>1. /\ n > 0 /\ n \in Nat /\ IsSeq(WithTop(F)) /\ Len(WithTop(F)) = n /\ WithTop(F)[n] = F
      /\ \A i \in 1..(n - 1) : WithTop(F)[i] = frames[i]
  BY TidyTop, WithTopSeq DEF TidyInv, Inv, Shape, IsSeq
<1>2. /\ Len(frames') = n + 1 /\ frames'[n + 1] = G /\ frames'[n] = F
      /\ \A i \in 1..(n - 1) : frames'[i] = frames[i]
  <2>1. /\ Len(frames') = n + 1 /\ frames'[n + 1] = G
        /\ \A i \in 1..n : frames'[i] = WithTop(F)[i]
    BY <1>1, AppendSeq
  <2> QED
    BY <1>1, <2>1
<1>3. Linked'
  <2> SUFFICES ASSUME NEW i \in 1..n PROVE Link(frames'[i], frames'[i + 1])
    BY <1>1, <1>2 DEF Linked
  <2>1. CASE i = n
    BY <1>1, <1>2, <2>1
  <2>2. CASE i = n - 1
    <3>1. Link(frames[i], frames[i + 1]) /\ i \in 1..(n - 1) /\ i + 1 = n
      BY <1>1, <2>2 DEF TidyInv, Linked
    <3> QED
      BY <1>1, <1>2, <3>1 DEF Link, Top
  <2>3. CASE i < n - 1
    <3>1. Link(frames[i], frames[i + 1]) /\ i \in 1..(n - 1) /\ i + 1 \in 1..(n - 1)
      BY <1>1, <2>3 DEF TidyInv, Linked
    <3> QED
      BY <1>2, <3>1
  <2> QED
    BY <1>1, <2>1, <2>2, <2>3
<1>4. \A i \in 1..(n + 1) : Marked(frames'[i])
  BY <1>1, <1>2 DEF TidyInv
<1>5. Handed(Top', ctl', parents', path')
  BY <1>1, <1>2 DEF Top
<1>6. Ranked'
  <2> SUFFICES ASSUME NEW i \in 1..(n + 1) PROVE Scoped(frames'[i], frames', i - 1)
    BY <1>1, <1>2 DEF Ranked
  <2>1. ASSUME NEW j \in 1..n PROVE Scoped(frames'[j], frames', j - 1)
    <3>1. Scoped(frames[j], frames, j - 1) /\ \A k \in 1..(j - 1) : frames'[k] = frames[k]
      BY <1>1, <1>2 DEF TidyInv, Ranked
    <3>2. frames'[j].parents0 = frames[j].parents0 /\ frames'[j].path0 = frames[j].path0
      BY <1>1, <1>2 DEF Top
    <3> QED
      BY <3>1, <3>2, ScopedLocal
  <2>2. Scoped(G, frames', n)
    <3>1. PICK k \in Nat : n = k + 1
      BY <1>1
    <3>2. F = frames'[k + 1] /\ Scoped(F, frames', k)
      BY <1>1, <1>2, <2>1, <3>1
    <3>3. IsSeq(F.parents0) /\ IsSeq(F.path0)
      BY TidyTop
    <3>4. Lists(Anchor(F), ScopesUpto(frames', n)) /\ Lists(PathIn(F), KeysUpto(frames', n))
      BY <3>1, <3>2, <3>3, ScopedNext
    <3> QED
      BY <3>4 DEF Link, Scoped
  <2> QED
    BY <1>1, <1>2, <2>1, <2>2
<1>7. Traced'
  BY DEF Traced
<1> QED
  BY <1>1, <1>2, <1>3, <1>4, <1>5, <1>6, <1>7 DEF TidyInv, Busy

LEMMA PopTidy ==
    ASSUME TidyInv, ctl \in Busy, Inv', frames' = Under(frames),
           ctl' \in Busy /\ Len(frames) > 1 => Handed(frames[Len(frames) - 1], ctl', parents', path'),
           ctl' \in Busy => Len(frames) > 1,
           ctl' \in {"raise", "report"} => ctl = "raise" /\ UNCHANGED <<path, origin>>
    PROVE  TidyInv'
<1> DEFINE n == Len(frames)
<1>1. /\ n > 0 /\ n \in Nat /\ Len(frames') = n - 1
      /\ \A i \in 1..(n - 1) : frames'[i] = frames[i]
  BY TidyTop, UnderSeq DEF TidyInv, Inv, Shape, IsSeq
<1>2. Linked'
  BY <1>1 DEF TidyInv, Linked
<1>3. \A i \in 1..(n - 1) : Marked(frames'[i])
  BY <1>1 DEF TidyInv
<1>4. ctl' \in Busy => Handed(Top', ctl', parents', path')
  BY <1>1 DEF Top
<1>5. Ranked'
  <2> SUFFICES ASSUME NEW i \in 1..(n - 1) PROVE Scoped(frames'[i], frames', i - 1)
    BY <1>1 DEF Ranked
  <2>1. Scoped(frames[i], frames, i - 1) /\ frames'[i] = frames[i]
        /\ \A j \in 1..(i - 1) : frames'[j] = frames[j]
    BY <1>1 DEF TidyInv, Ranked
  <2> QED
    BY <2>1, ScopedLocal
<1>6. Traced'
  BY DEF TidyInv, Traced
<1> QED
  BY <1>1, <1>2, <1>3, <1>4, <1>5, <1>6 DEF TidyInv

SameTop(F) == F.fmt = Top.fmt /\ F.parents0 = Top.parents0 /\ F.path0 = Top.path0

LEMMA ReturnTidy ==
    ASSUME TidyInv, ctl \in Busy, Inv', NEW F, SameTop(F), Marked(F), NEW v, Return(F, v),
           parents' = Top.parents0, path' = Top.path0
    PROVE  TidyInv'
<1>1. ctl' = "leave" /\ frames' = WithTop(F)
  BY DEF Return
<1>2. Handed(F, ctl', parents', path') /\ ctl' \in Busy
  BY <1>1 DEF Handed, SameTop, Busy
<1> QED
  BY <1>1, <1>2, StayTidy DEF SameTop

LEMMA RaiseTidy ==
    ASSUME TidyInv, ctl \in Busy, Inv', NEW e, Raise(e), UNCHANGED <<parents, path>>,
           ~Swallowing(Top), IsLeaf(Top) => ctl = "run", path = Top.path0
    PROVE  TidyInv'
<1>1. ctl' = "raise" /\ frames' = WithTop(Top)
  BY TidyTop DEF Raise
<1>4. Lists(path', origin'.keys)
  BY TidyTop DEF Raise, Traceback, Scoped
<1>2. IsLeaf(Top) => parents = Top.parents0 /\ path = Top.path0
  BY TidyTop DEF Handed, Anchor, IsOpenMap, IsLeaf, LeafKinds
<1>3. Handed(Top, ctl', parents', path') /\ ctl' \in Busy
  BY <1>1, <1>2 DEF Handed, Busy
<1> QED
  BY <1>1, <1>3, <1>4, TidyTop, StayTidy

LEMMA DeliverTidy ==
    ASSUME TidyInv, ctl = "run", Inv', NEW r, Deliver(r), UNCHANGED <<parents, path>>,
           ~Swallowing(Top), ~IsMap(Top)
    PROVE  TidyInv'
<1>1. parents = Top.parents0 /\ path = Top.path0
  BY TidyTop DEF Handed, Anchor, IsOpenMap, IsMap, Busy
<1>2. CASE Return(Top, r.val)
  BY <1>1, <1>2, TidyTop, ReturnTidy DEF SameTop, Busy
<1>3. CASE Raise(r.exc)
  BY <1>1, <1>3, RaiseTidy DEF Busy
<1> QED
  BY <1>2, <1>3 DEF Deliver

LEMMA CallTidy ==
    ASSUME TidyInv, ctl \in Busy, Inv', NEW F, SameTop(F), Marked(F), ~IsLeaf(F),
           NEW f \in Fmt, NEW key, NEW s, NEW newStreams, NEW newPath, NEW newNodes,
           newPath = PathIn(F), parents = Anchor(F), IsSeq(parents), IsSeq(newPath),
           Swallowing(F) => f = Node[F.fmt].subs[1],
           Call(F, f, key, s, newStreams, newPath, newNodes)
    PROVE  TidyInv'
<1>1. parents' = parents /\ path' = newPath
  BY DEF Call
<1>2. CASE Len(frames) = MaxDepth
  <2>1. frames' = WithTop(F) /\ ctl' = "raise"
    BY <1>2 DEF Call
  <2>2. Swallowing(F) => Anchor(F) = F.parents0
    BY DEF Swallowing, Anchor, IsOpenMap
  <2>3. Handed(F, ctl', parents', path') /\ ctl' \in Busy
    BY <1>1, <2>1, <2>2 DEF Handed, Busy
  <2>4. Lists(path', origin'.keys)
    <3>9. Len(frames) \in Nat /\ Len(frames) > 0
      BY DEF TidyInv, Inv, Shape, IsSeq
    <3>1. PICK k \in Nat : Len(frames) = k + 1
      <4>1. Len(frames) - 1 \in Nat /\ Len(frames) = (Len(frames) - 1) + 1
        BY <3>9
      <4> QED
        BY <4>1
    <3>2. /\ IsSeq(frames) /\ Len(frames) > 0 /\ WithTop(F)[k + 1] = F
          /\ \A i \in 1..k : WithTop(F)[i] = frames[i]
      BY <3>1, WithTopSeq DEF TidyInv, Inv, Shape
    <3>3. Scoped(Top, frames, k) /\ IsSeq(Top.parents0) /\ IsSeq(Top.path0)
      BY <3>1, TidyTop
    <3>4. Scoped(F, WithTop(F), k)
      BY <3>2, <3>3, ScopedLocal DEF SameTop
    <3>5. Lists(PathIn(F), KeysUpto(WithTop(F), k + 1))
      BY <3>2, <3>3, <3>4, ScopedNext DEF SameTop
    <3>6. origin' = Traceback(WithTop(F), Len(frames))
      BY <1>2 DEF Call
    <3>7. origin'.keys = KeysUpto(WithTop(F), Len(frames))
      BY <3>6 DEF Traceback
    <3>8. path' = PathIn(F)
      BY <1>1
    <3> QED
      BY <3>1, <3>5, <3>7, <3>8
  <2> QED
    BY <2>1, <2>3, <2>4, StayTidy DEF SameTop
<1>3. CASE Len(frames) # MaxDepth
  <2> DEFINE G == NewFrame(f, key, s, newStreams[s].pos, Len(newNodes) + 1, kidsOf, parents, newPath)
  <2>1. frames' = Append(WithTop(F), G) /\ ctl' = "run"
    BY <1>3 DEF Call
  <2>2. IsFrame(G) /\ G.parents0 = parents /\ G.path0 = newPath /\ G.at = "enter"
    BY NewFrameIsFrame
  <2>3. G.fmt = f
    BY DEF NewFrame
  <2> HIDE DEF G
  <2>4. Link(F, G) /\ Marked(G)
    BY <2>2, <2>3 DEF Link, Marked
  <2>5. Handed(G, ctl', parents', path') /\ ctl' \in Busy
    BY <1>1, <2>1, <2>2 DEF Handed, Anchor, IsOpenMap, Busy
  <2> QED
    BY <2>1, <2>4, <2>5, PushTidy DEF SameTop
<1> QED
  BY <1>2, <1>3

(* A call stack that is not empty and not of one frame has two.            *)
LEMMA OneOrMore == ASSUME NEW n \in Nat, n > 0 PROVE n # 1 <=> n > 1
<1> QED
  OBVIOUS

LEMMA StepTidy == ASSUME Tidy, TidyInv, Next PROVE TidyInv'
<1>1. Inv /\ Inv'
  BY StepInv DEF TidyInv
<1>2. ctl \in Busy => /\ Handed(Top, ctl, parents, path) /\ Marked(Top) /\ Top.fmt \in Fmt
                      /\ IsFrame(Top) /\ DOMAIN Top = FrameFields
                      /\ IsSeq(Top.parents0) /\ IsSeq(Top.path0) /\ IsSeq(parents) /\ IsSeq(path)
  BY <1>1, TidyTop, TopFacts DEF Marked, IsFrame
<1>3. ASSUME DecodeLeaf PROVE TidyInv'
  <2>1. ctl = "run" /\ UNCHANGED <<parents, path>> /\ ~Swallowing(Top) /\ ~IsMap(Top)
    BY <1>3 DEF DecodeLeaf, Swallowing, IsMap, TopNode, LeafKinds
  <2> QED
    BY <1>1, <1>3, <2>1, DeliverTidy DEF DecodeLeaf
<1>4. ASSUME MapEnter PROVE TidyInv'
  <2> DEFINE F == [Top EXCEPT !.at = "loop", !.dict = Len(dicts) + 1]
  <2>1. /\ ctl = "run" /\ ctl' = "run" /\ ctl \in Busy /\ IsMap(Top) /\ Top.at = "enter"
        /\ parents' = Append(parents, Len(dicts) + 1) /\ path' = path /\ frames' = WithTop(F)
    BY <1>4 DEF MapEnter, Running, Busy, IsMap, TopNode
  <2>2. /\ SameTop(F) /\ F.at = "loop" /\ F.dict = Len(dicts) + 1
    BY <1>2, <2>1 DEF FrameFields, SameTop
  <2> HIDE DEF F
  <2>3. parents = Top.parents0 /\ path = Top.path0
    BY <1>2, <2>1 DEF Handed, Anchor, IsOpenMap
  <2>4. Anchor(F) = parents'
    BY <2>1, <2>2, <2>3 DEF Anchor, IsOpenMap, IsMap, SameTop
  <2>5. Handed(F, ctl', parents', path')
    BY <2>1, <2>2, <2>3, <2>4 DEF Handed, SameTop
  <2>6. Marked(F)
    BY <1>2, <2>1, <2>2 DEF Marked, SameTop
  <2> QED
    BY <1>1, <2>1, <2>2, <2>5, <2>6, StayTidy DEF SameTop
<1>5. ASSUME MapField PROVE TidyInv'
  <2>1. ctl = "run" /\ ctl \in Busy /\ IsMap(Top) /\ Top.at = "loop" /\ ~Swallowing(Top) /\ ~IsLeaf(Top)
    BY <1>5 DEF MapField, Running, Busy, IsMap, TopNode, Swallowing, IsLeaf, LeafKinds
  <2>2. parents = Anchor(Top) /\ path = Top.path0
    BY <1>2, <2>1 DEF Handed
  <2>3. CASE Raise("Value") /\ UNCHANGED <<parents, path>>
    BY <1>1, <2>1, <2>2, <2>3, RaiseTidy
  <2>4. ASSUME NEW i \in DOMAIN TopNode.subs, NEW key,
               Call([Top EXCEPT !.idx = i, !.item = key], TopNode.subs[i], key, Top.strm,
                    streams, Append(path, key), nodes)
        PROVE  TidyInv'
    <3> DEFINE F == [Top EXCEPT !.idx = i, !.item = key]
    <3>1. SameTop(F) /\ F.at = "loop" /\ F.item = key /\ F.dict = Top.dict
      BY <1>2, <2>1 DEF FrameFields, SameTop
    <3>2. Call(F, TopNode.subs[i], key, Top.strm, streams, Append(path, key), nodes)
      BY <2>4
    <3> HIDE DEF F
    <3>3. Append(path, key) = PathIn(F)
      BY <2>1, <2>2, <3>1 DEF PathIn, IsContainer, IsMap, SameTop
    <3>4. parents = Anchor(F)
      BY <2>1, <2>2, <3>1 DEF Anchor, IsOpenMap, SameTop
    <3>5. Marked(F) /\ ~IsLeaf(F) /\ ~Swallowing(F)
      BY <1>2, <2>1, <3>1 DEF Marked, IsLeaf, Swallowing, IsMap, SameTop
    <3>6. TopNode.subs[i] \in Fmt
      BY <1>2, <2>1, SubsAreFormats DEF TopNode
    <3>7. IsSeq(Append(path, key)) /\ IsSeq(parents)
      BY <1>2, <2>1, AppendSeq
    <3> QED
      BY <1>1, <2>1, <3>1, <3>2, <3>3, <3>4, <3>5, <3>6, <3>7, CallTidy
  <2> QED
    BY <1>5, <2>3, <2>4 DEF MapField
<1>6. ASSUME MapStore PROVE TidyInv'
  <2>1. /\ ctl = "resume" /\ ctl' = "run" /\ ctl \in Busy /\ IsMap(Top) /\ IsContainer(Top)
        /\ parents' = parents /\ path' = Under(path) /\ frames' = frames
    BY <1>6 DEF MapStore, Resuming, Busy, IsMap, IsContainer, TopNode
  <2>2. parents = Anchor(Top) /\ path = Append(Top.path0, Top.item)
    BY <1>2, <2>1 DEF Handed, PathIn
  <2>3. path' = Top.path0
    BY <1>2, <2>1, <2>2, UnderAppend
  <2>4. Handed(Top, ctl', parents', path')
    BY <2>1, <2>2, <2>3 DEF Handed
  <2>5. frames' = WithTop(Top) /\ ctl' \in Busy
    BY <2>1, TidyTop DEF Busy
  <2> QED
    BY <1>1, <1>2, <2>1, <2>4, <2>5, StayTidy
<1>7. ASSUME MapExit PROVE TidyInv'
  <2> DEFINE F == [Top EXCEPT !.at = "exit"]
  <2>1. /\ ctl = "run" /\ ctl \in Busy /\ IsMap(Top) /\ Top.at = "loop" /\ Return(F, DictV(Top.dict))
        /\ parents' = Under(parents) /\ path' = path
    BY <1>7 DEF MapExit, Running, Busy, IsMap, TopNode
  <2>2. SameTop(F) /\ F.at = "exit"
    BY <1>2, <2>1 DEF FrameFields, SameTop
  <2>3. parents = Append(Top.parents0, Top.dict) /\ path = Top.path0
    BY <1>2, <2>1 DEF Handed, Anchor, IsOpenMap, IsMap
  <2>4. parents' = Top.parents0 /\ path' = Top.path0
    BY <1>2, <2>1, <2>3, UnderAppend
  <2>5. Marked(F)
    BY <1>2, <2>1, <2>2 DEF Marked, SameTop
  <2> HIDE DEF F
  <2> QED
    BY <1>1, <2>1, <2>2, <2>4, <2>5, ReturnTidy
<1>8. ASSUME TupleItem \/ ArrayItem PROVE TidyInv'
  <2>1. ctl = "run" /\ ctl \in Busy /\ IsContainer(Top) /\ ~IsMap(Top) /\ ~IsLeaf(Top)
    BY <1>8 DEF TupleItem, ArrayItem, Running, Busy, IsMap, IsContainer, IsLeaf, LeafKinds, TopNode
  <2>2. parents = Top.parents0 /\ path = Top.path0
    BY <1>2, <2>1 DEF Handed, Anchor, IsOpenMap, IsMap
  <2>3. ASSUME NEW i, NEW f \in Fmt, Swallowing(Top) => f = TopNode.subs[1], CallItem(i, f) PROVE TidyInv'
    <3> DEFINE F == [Top EXCEPT !.item = Index(i)]
    <3>1. SameTop(F) /\ F.at = Top.at /\ F.item = Index(i)
      BY <1>2, <2>1 DEF FrameFields, SameTop
    <3>2. Call(F, f, Index(i), Top.strm, streams, Append(path, Index(i)), nodes)
      BY <2>3 DEF CallItem
    <3> HIDE DEF F
    <3>3. Append(path, Index(i)) = PathIn(F)
      BY <2>1, <2>2, <3>1 DEF PathIn, IsContainer, SameTop
    <3>4. parents = Anchor(F)
      BY <2>1, <2>2, <3>1 DEF Anchor, IsOpenMap, IsMap, SameTop
    <3>5. Marked(F) /\ ~IsLeaf(F) /\ (Swallowing(F) => f = Node[F.fmt].subs[1])
      BY <1>2, <2>1, <2>3, <3>1 DEF Marked, IsLeaf, Swallowing, SameTop, TopNode
    <3>6. IsSeq(Append(path, Index(i))) /\ IsSeq(parents)
      BY <1>2, <2>1, AppendSeq
    <3> QED
      BY <1>1, <2>1, <3>1, <3>2, <3>3, <3>4, <3>5, <3>6, CallTidy
  <2>4. CASE TupleItem
    <3>1. ~Swallowing(Top) /\ \A i \in DOMAIN TopNode.subs : TopNode.subs[i] \in Fmt
      BY <1>2, <2>1, <2>4, SubsAreFormats DEF TupleItem, Running, Swallowing, TopNode
    <3> QED
      BY <2>3, <2>4, <3>1 DEF TupleItem
  <2>5. CASE ArrayItem
    <3>1. TopNode.subs[1] \in Fmt
      BY <1>2, <2>1, <2>5, SubsAreFormats DEF ArrayItem, Running, TopNode, WrapKinds
    <3> QED
      BY <2>3, <2>5, <3>1 DEF ArrayItem
  <2> QED
    BY <1>8, <2>4, <2>5
<1>9. ASSUME ItemStore PROVE TidyInv'
  <2> DEFINE F == [Top EXCEPT !.idx = NextIndex(@)]
  <2>1. /\ ctl = "resume" /\ ctl' = "run" /\ ctl \in Busy /\ ctl' \in Busy /\ ~IsMap(Top) /\ IsContainer(Top)
        /\ parents' = parents /\ path' = Under(path) /\ frames' = WithTop(F)
    BY <1>9 DEF ItemStore, Resuming, Busy, IsMap, IsContainer, TopNode
  <2>2. SameTop(F) /\ F.at = Top.at
    BY <1>2, <2>1 DEF FrameFields, SameTop
  <2> HIDE DEF F
  <2>3. parents = Top.parents0 /\ path = Append(Top.path0, Top.item)
    BY <1>2, <2>1 DEF Handed, PathIn, Anchor, IsOpenMap, IsMap
  <2>4. path' = Top.path0
    BY <1>2, <2>1, <2>3, UnderAppend
  <2>5. Handed(F, ctl', parents', path')
    BY <2>1, <2>2, <2>3, <2>4 DEF Handed, Anchor, IsOpenMap, IsMap, SameTop
  <2>6. Marked(F)
    BY <1>2, <2>1, <2>2 DEF Marked, SameTop
  <2> QED
    BY <1>1, <2>1, <2>2, <2>5, <2>6, StayTidy DEF SameTop
<1>10. ASSUME ItemsExit PROVE TidyInv'
  <2>1. ctl = "run" /\ ctl \in Busy /\ ~IsMap(Top) /\ UNCHANGED <<parents, path>>
    BY <1>10 DEF ItemsExit, Running, Busy, IsMap, TopNode
  <2>2. parents = Top.parents0 /\ path = Top.path0
    BY <1>2, <2>1 DEF Handed, Anchor, IsOpenMap, IsMap
  <2> QED
    BY <1>1, <1>2, <1>10, <2>1, <2>2, ReturnTidy DEF ItemsExit, SameTop
<1>11. ASSUME GreedyCatch PROVE TidyInv'
  <2>1. /\ ctl = "raise" /\ ctl \in Busy /\ Swallowing(Top) /\ IsContainer(Top)
        /\ path' = Under(path) /\ parents' = parents
    BY <1>11 DEF GreedyCatch, Catches, Busy, IsContainer, Swallowing, TopNode
  <2>2. parents = Top.parents0 /\ path = Append(Top.path0, Top.item)
    BY <1>2, <2>1 DEF Handed, PathIn
  <2>3. path' = Top.path0
    BY <1>2, <2>1, <2>2, UnderAppend
  <2> QED
    BY <1>1, <1>2, <1>11, <2>1, <2>2, <2>3, ReturnTidy DEF GreedyCatch, SameTop
<1>12. ASSUME ArrayGreedy PROVE TidyInv'
  <2> DEFINE F == [Top EXCEPT !.at = "greedy"]
  <2>1. /\ ctl = "run" /\ ctl' = "run" /\ ctl \in Busy /\ ~IsMap(Top) /\ ~IsLeaf(Top)
        /\ Swallows(Top.fmt) /\ UNCHANGED <<parents, path>> /\ frames' = WithTop(F)
    BY <1>12 DEF ArrayGreedy, Running, Busy, IsMap, IsLeaf, LeafKinds, TopNode, LoopsGreedily, Swallows,
                 IsGreedyArray
  <2>2. SameTop(F) /\ F.at = "greedy"
    BY <1>2, <2>1 DEF FrameFields, SameTop
  <2> HIDE DEF F
  <2>3. Handed(F, ctl', parents', path')
    BY <1>2, <2>1, <2>2 DEF Handed, Anchor, IsOpenMap, IsMap, SameTop
  <2>4. Marked(F)
    BY <1>2, <2>1, <2>2 DEF Marked, SameTop
  <2> QED
    BY <1>1, <2>1, <2>2, <2>3, <2>4, StayTidy DEF SameTop
<1>13. ASSUME ArrayCount PROVE TidyInv'
  <2>1. /\ ctl = "run" /\ ctl \in Busy /\ ~IsMap(Top) /\ ~Swallowing(Top) /\ Top.at = "enter"
        /\ UNCHANGED <<parents, path>>
    BY <1>13 DEF ArrayCount, Running, Busy, IsMap, Swallowing, TopNode
  <2>2. ASSUME NEW r, Deliver(r) PROVE TidyInv'
    BY <1>1, <2>1, <2>2, DeliverTidy
  <2>3. ASSUME NEW k, frames' = WithTop([Top EXCEPT !.at = "items", !.todo = k]), ctl' = ctl PROVE TidyInv'
    <3> DEFINE F == [Top EXCEPT !.at = "items", !.todo = k]
    <3>1. SameTop(F) /\ F.at = "items" /\ frames' = WithTop(F)
      BY <1>2, <2>1, <2>3 DEF FrameFields, SameTop
    <3> HIDE DEF F
    <3>2. Handed(F, ctl', parents', path')
      BY <1>2, <2>1, <2>3, <3>1 DEF Handed, Anchor, IsOpenMap, IsMap, SameTop
    <3>3. Marked(F)
      BY <1>2, <2>1, <3>1 DEF Marked, SameTop
    <3> QED
      BY <1>1, <2>1, <2>3, <3>1, <3>2, <3>3, StayTidy DEF SameTop
  <2> QED
    BY <1>13, <2>2, <2>3 DEF ArrayCount
<1>14. ASSUME ~IsContainer(Top), ~IsLeaf(Top), ctl \in {"run", "resume"},
              NEW F, F \in {Top, [Top EXCEPT !.saved = F.saved]},
              NEW a, a # "greedy", NEW f \in Fmt, Node[Top.fmt].kind = "optional" => f = TopNode.subs[1],
              NEW key, NEW s, NEW newStreams, NEW newNodes,
              Call([F EXCEPT !.at = a], f, key, s, newStreams, path, newNodes)
       PROVE  TidyInv'
  <2> DEFINE G == [F EXCEPT !.at = a]
  <2>1. ctl \in Busy
    BY <1>14 DEF Busy
  <2>2. F.fmt = Top.fmt /\ F.parents0 = Top.parents0 /\ F.path0 = Top.path0 /\ DOMAIN F = FrameFields
    BY <1>2, <1>14, <2>1 DEF FrameFields
  <2>3. SameTop(G) /\ G.at = a
    BY <2>2 DEF FrameFields, SameTop
  <2>4. Call(G, f, key, s, newStreams, path, newNodes)
    BY <1>14
  <2> HIDE DEF G
  <2>5. parents = Anchor(G) /\ path = PathIn(G)
    BY <1>2, <1>14, <2>1, <2>3 DEF Handed, Anchor, IsOpenMap, PathIn, IsContainer, SameTop
  <2>6. Marked(G) /\ ~IsLeaf(G) /\ (Swallowing(G) => f = Node[G.fmt].subs[1])
    BY <1>2, <1>14, <2>1, <2>3 DEF Marked, IsLeaf, Swallowing, SameTop, TopNode, IsContainer
  <2>7. IsSeq(parents) /\ IsSeq(path)
    BY <1>2, <2>1
  <2> QED
    BY <1>1, <2>1, <2>3, <2>4, <2>5, <2>6, <2>7, CallTidy
<1>15. ASSUME ~IsContainer(Top), ~IsLeaf(Top), ctl \in {"run", "resume"},
              NEW F, F \in {Top, [Top EXCEPT !.saved = F.saved]},
              NEW f \in Fmt, Node[Top.fmt].kind = "optional" => f = TopNode.subs[1],
              NEW key, NEW s, NEW newStreams, NEW newNodes,
              CallInner(F, f, key, s, newStreams, newNodes)
       PROVE  TidyInv'
  BY <1>14, <1>15 DEF CallInner
<1>16. ASSUME WrapOpen PROVE TidyInv'
  <2>1. ~IsContainer(Top) /\ ~IsLeaf(Top) /\ ctl \in {"run", "resume"} /\ TopNode.subs[1] \in Fmt
    BY <1>2, <1>16, SubsAreFormats
       DEF WrapOpen, Running, IsContainer, IsLeaf, LeafKinds, WrapKinds, TopNode, Busy
  <2> QED
    BY <1>15, <1>16, <2>1 DEF WrapOpen
<1>17. ASSUME OptionalCatch PROVE TidyInv'
  <2>1. /\ ctl \in Busy /\ ctl = "raise" /\ Swallowing(Top) /\ ~IsContainer(Top) /\ Return(Top, NoneV)
        /\ UNCHANGED <<parents, path>>
    BY <1>17 DEF OptionalCatch, Catches, Swallowing, IsContainer, TopNode, Busy
  <2>2. parents = Top.parents0 /\ path = Top.path0
    BY <1>2, <2>1 DEF Handed, PathIn
  <2> QED
    BY <1>1, <1>2, <2>1, <2>2, ReturnTidy DEF SameTop
<1>18. ASSUME ctl = "resume", ~IsContainer(Top), Return(Top, val), UNCHANGED <<parents, path>> PROVE TidyInv'
  <2>1. ctl \in Busy
    BY <1>18 DEF Busy
  <2>2. parents = Top.parents0 /\ path = Top.path0
    BY <1>2, <1>18, <2>1 DEF Handed, PathIn, Anchor, IsOpenMap, IsContainer
  <2> QED
    BY <1>1, <1>2, <1>18, <2>1, <2>2, ReturnTidy DEF SameTop
<1>19. ASSUME WrapClose \/ PointerBack PROVE TidyInv'
  BY <1>18, <1>19 DEF WrapClose, PointerBack, Resuming, IsContainer, TopNode
<1>20. ASSUME SwitchOpen PROVE TidyInv'
  <2>1. /\ ctl = "run" /\ ctl \in Busy /\ ~IsContainer(Top) /\ ~IsLeaf(Top) /\ ~Swallowing(Top)
        /\ Node[Top.fmt].kind = "switch"
    BY <1>20 DEF SwitchOpen, Running, IsContainer, IsLeaf, LeafKinds, Swallowing, TopNode, Busy
  <2>2. ASSUME NEW e, Raise(e), UNCHANGED <<parents, path>> PROVE TidyInv'
    <3>1. path = Top.path0
      BY <1>2, <2>1 DEF Handed
    <3> QED
      BY <1>1, <2>1, <2>2, <3>1, RaiseTidy
  <2>3. \A i \in DOMAIN TopNode.subs : TopNode.subs[i] \in Fmt
    BY <1>2, <2>1, SubsAreFormats DEF TopNode
  <2>4. ASSUME NEW i \in DOMAIN TopNode.subs, NEW s, NEW newStreams,
               CallInner(Top, TopNode.subs[i], NoKey, s, newStreams, nodes)
        PROVE  TidyInv'
    BY <1>15, <2>1, <2>3, <2>4
  <2> QED
    BY <1>20, <2>2, <2>4 DEF SwitchOpen, Case
<1>21. ASSUME PointerOffset PROVE TidyInv'
  <2>1. /\ ctl \in {"run", "resume"} /\ ~IsContainer(Top) /\ ~IsLeaf(Top)
        /\ Node[Top.fmt].kind = "pointer" /\ ctl \in Busy
    BY <1>21 DEF PointerOffset, Running, IsContainer, IsLeaf, LeafKinds, TopNode, Busy
  <2>2. TopNode.subs[1] \in Fmt
    BY <1>2, <2>1, SubsAreFormats DEF TopNode
  <2> QED
    BY <1>14, <1>21, <2>1, <2>2 DEF PointerOffset
<1>22. ASSUME PointerJump PROVE TidyInv'
  <2>1. /\ ctl = "resume" /\ ~IsContainer(Top) /\ ~IsLeaf(Top)
        /\ Node[Top.fmt].kind = "pointer" /\ ctl \in Busy
    BY <1>22 DEF PointerJump, Resuming, IsContainer, IsLeaf, LeafKinds, TopNode, Busy
  <2>2. TopNode.subs[2] \in Fmt
    BY <1>2, <2>1, SubsAreFormats DEF TopNode
  <2>3. CASE TopNode.flag /\ val.n = 0
    <3>1. Return(Top, NoneV) /\ UNCHANGED <<parents, path>>
      BY <1>22, <2>3 DEF PointerJump
    <3>2. parents = Top.parents0 /\ path = Top.path0
      BY <1>2, <2>1 DEF Handed, PathIn, Anchor, IsOpenMap, IsContainer
    <3> QED
      BY <1>1, <1>2, <2>1, <3>1, <3>2, ReturnTidy DEF SameTop
  <2>4. CASE ~(TopNode.flag /\ val.n = 0)
    <3> DEFINE F == [Top EXCEPT !.saved = TopStream.pos]
    <3>1. CallInner(F, TopNode.subs[2], Name("value"), Top.strm,
                    [streams EXCEPT ![Top.strm] = Seek(@, TopNode.num + val.n)], nodes)
      BY <1>22, <2>4 DEF PointerJump
    <3>2. F \in {Top, [Top EXCEPT !.saved = F.saved]}
      BY <1>2, <2>1 DEF FrameFields
    <3> HIDE DEF F
    <3> QED
      BY <1>15, <2>1, <2>2, <3>1, <3>2
  <2> QED
    BY <2>3, <2>4
<1>23. ASSUME SizedOpen PROVE TidyInv'
  <2>1. /\ ctl = "run" /\ ctl \in Busy /\ ~IsContainer(Top) /\ ~IsMap(Top) /\ ~IsLeaf(Top)
        /\ ~Swallowing(Top) /\ Node[Top.fmt].kind = "sized"
    BY <1>23 DEF SizedOpen, Running, IsContainer, IsMap, IsLeaf, LeafKinds, Swallowing, TopNode, Busy
  <2>2. TopNode.subs[1] \in Fmt
    BY <1>2, <2>1, SubsAreFormats DEF TopNode, WrapKinds
  <2>3. ASSUME NEW r, Deliver(r), UNCHANGED <<parents, path>> PROVE TidyInv'
    BY <1>1, <2>1, <2>3, DeliverTidy
  <2> QED
    BY <1>15, <1>23, <2>1, <2>2, <2>3 DEF SizedOpen
<1>24. ASSUME SizedClose PROVE TidyInv'
  <2>1. /\ ctl = "resume" /\ ctl \in Busy /\ ~IsContainer(Top) /\ ~IsLeaf(Top) /\ ~Swallowing(Top)
        /\ UNCHANGED <<parents, path>>
    BY <1>24 DEF SizedClose, Resuming, IsContainer, IsLeaf, LeafKinds, Swallowing, TopNode, Busy
  <2>2. CASE Raise("Value")
    <3>1. path = Top.path0
      BY <1>2, <2>1 DEF Handed, PathIn
    <3> QED
      BY <1>1, <2>1, <2>2, <3>1, RaiseTidy
  <2>3. CASE Return(Top, val)
    BY <1>18, <2>1, <2>3
  <2> QED
    BY <1>24, <2>2, <2>3 DEF SizedClose
<1>25. ASSUME NEW k \in Nat, k = Len(frames), k > 1
       PROVE  Link(frames[k - 1], Top) /\ Marked(frames[k - 1])
  BY <1>25 DEF TidyInv, Linked, Top
<1>26. Len(frames) \in Nat
  BY <1>1 DEF Inv, Shape, IsSeq
<1>27. ASSUME Leave PROVE TidyInv'
  <2>1. /\ ctl = "leave" /\ ctl \in Busy /\ frames' = Under(frames) /\ UNCHANGED <<parents, path>>
        /\ ctl' = IF Len(frames) = 1 THEN "finish" ELSE "resume"
    BY <1>27 DEF Leave, Busy
  <2>2. Len(frames) > 0
    BY <2>1, TidyTop
  <2>3. Len(frames) > 1 => Handed(frames[Len(frames) - 1], ctl', parents', path')
    <3>1. parents = Top.parents0 /\ path = Top.path0
      BY <1>2, <2>1 DEF Handed
    <3> QED
      BY <1>25, <1>26, <2>1, <2>2, <3>1 DEF Link, Handed
  <2>4. ctl' \in Busy => Len(frames) > 1
    BY <1>26, <2>1, <2>2 DEF Busy
  <2>5. ctl' \notin {"raise", "report"}
    BY <2>1
  <2> QED
    BY <1>1, <2>1, <2>3, <2>4, <2>5, PopTidy
<1>28. ASSUME Unwind PROVE TidyInv'
  <2>1. /\ ctl = "raise" /\ ctl \in Busy /\ frames' = Under(frames) /\ UNCHANGED <<parents, path, origin>>
    BY <1>28 DEF Unwind, Busy
  <2>2. Len(frames) \in Nat /\ Len(frames) > 0
    BY <2>1, TidyTop DEF TidyInv, Inv, Shape, IsSeq
  <2>5. /\ Len(frames) = 1 => ctl' = "report"
        /\ Len(frames) # 1 => ctl' = "raise"
    BY <1>28 DEF Unwind
  <2>6. Len(frames) # 1 => Len(frames) > 1
    BY <2>2, OneOrMore
  <2>7. ~("report" \in Busy)
    BY DEF Busy
  <2>3. ASSUME Len(frames) > 1 PROVE Handed(frames[Len(frames) - 1], ctl', parents', path')
    <3> DEFINE P == frames[Len(frames) - 1]
    <3>1. Link(P, Top) /\ Marked(P)
      BY <1>25, <1>26, <2>3
    <3>2. ctl' = "raise" /\ parents' = parents /\ path' = path
      <4>1. Len(frames) # 1
        BY <2>2, <2>3, OneOrMore
      <4> QED
        BY <2>1, <2>5, <4>1
    <3> HIDE DEF P
    <3>3. ASSUME Swallowing(P) PROVE parents = P.parents0 /\ path = PathIn(P)
      <4>1. Swallows(P.fmt) /\ P.fmt \in Fmt
        BY <3>1, <3>3 DEF Marked, Swallowing, Swallows
      <4>2. IsLeaf(Top)
        BY <3>1, <3>3, <4>1 DEF Tidy, Link, IsLeaf
      <4>3. parents = Top.parents0 /\ path = Top.path0
        BY <1>2, <2>1, <4>2 DEF Handed
      <4>4. Anchor(P) = P.parents0
        BY <3>3 DEF Swallowing, Anchor, IsOpenMap
      <4> QED
        BY <3>1, <4>3, <4>4 DEF Link
    <3>4. Handed(P, ctl', parents', path')
      BY <3>1, <3>2, <3>3 DEF Handed, Link
    <3> QED
      BY <3>4 DEF P
  <2>4. ctl' \in Busy => Len(frames) > 1
    BY <2>5, <2>6, <2>7
  <2> QED
    BY <1>1, <2>1, <2>3, <2>4, PopTidy
<1>29. ASSUME Finish \/ Report PROVE TidyInv'
  <2>1. ctl' = "done" /\ UNCHANGED <<frames, parents, path>>
    BY <1>29 DEF Finish, Report
  <2> QED
    BY <1>1, <2>1 DEF TidyInv, Linked, Ranked, Traced, Busy
<1> QED
  BY <1>3, <1>4, <1>5, <1>6, <1>7, <1>8, <1>9, <1>10, <1>11, <1>12, <1>13, <1>16, <1>17, <1>19,
     <1>20, <1>21, <1>22, <1>23, <1>24, <1>27, <1>28, <1>29 DEF Next

LEMMA StutterTidy == ASSUME TidyInv, UNCHANGED vars PROVE TidyInv'
<1>1. Inv'
  BY StutterInv DEF TidyInv
<1>2. UNCHANGED <<frames, ctl, parents, path, origin>>
  BY DEF vars, flow
<1> QED
  BY <1>1, <1>2 DEF TidyInv, Linked, Ranked, Traced, Top

LEMMA InitTidy == ASSUME Init PROVE TidyInv
<1> DEFINE G(root) == NewFrame(root, NoKey, 1, 0, 2, 1, <<1>>, <<>>)
<1>1. PICK root \in Roots : frames = <<G(root)>>
  BY DEF Init
<1>2. parents = <<1>> /\ path = <<>> /\ ctl = "run"
  BY DEF Init
<1>3. IsSeq(parents) /\ IsSeq(path)
  BY <1>2 DEF IsSeq
<1>4. G(root).parents0 = parents /\ G(root).path0 = path /\ G(root).at = "enter" /\ G(root).fmt = root
  <2>1. G(root).fmt = root
    BY DEF NewFrame
  <2> QED
    BY <1>2, <1>3, <2>1, NewFrameIsFrame
<1>5. root \in Fmt
  BY DecodeAssumption
<1> HIDE DEF G
<1>6. Len(frames) = 1 /\ frames[1] = G(root)
  BY <1>1
<1>7. Marked(G(root)) /\ Handed(G(root), ctl, parents, path)
  BY <1>2, <1>4, <1>5 DEF Marked, Handed, Anchor, IsOpenMap
<1>8. Linked
  BY <1>6 DEF Linked
<1>9. Ranked
  <2>1. Lists(<<1>>, ScopesUpto(frames, 0)) /\ Lists(<<>>, KeysUpto(frames, 0))
    BY EmptyStack DEF ScopesUpto
  <2> QED
    BY <1>2, <1>4, <1>6, <2>1 DEF Ranked, Scoped
<1>10. Traced
  BY <1>2 DEF Traced
<1> QED
  BY <1>6, <1>7, <1>8, <1>9, <1>10, InitInv DEF TidyInv, Top

(* Where nothing above an exception handler pushes on the context, every   *)
(* decode that completes hands the context back as it found it, for all    *)
(* formats, recursive ones included, all inputs and all depths.            *)
THEOREM ContextIsNeutral == ASSUME Tidy PROVE Spec => []ContextNeutral
<1>1. Init => TidyInv
  BY InitTidy
<1>2. TidyInv /\ [Next]_vars => TidyInv'
  BY StepTidy, StutterTidy
<1>3. TidyInv => ContextNeutral
  BY DEF TidyInv, ContextNeutral, Handed, Busy
<1> QED
  BY <1>1, <1>2, <1>3, PTL DEF Spec

(* While a decode runs, the parents are the mappings that are open.        *)
LEMMA ParentsAreScopes ==
    ASSUME TidyInv, ctl \in {"run", "resume"}
    PROVE  Lists(parents, ScopesUpto(frames, Len(frames)))
<1>1. /\ Len(frames) > 0 /\ Len(frames) \in Nat /\ Scoped(Top, frames, Len(frames) - 1)
      /\ IsSeq(Top.parents0) /\ IsSeq(Top.path0) /\ parents = Anchor(Top)
  BY TidyTop DEF Handed, Busy, TidyInv, Inv, Shape, IsSeq
<1>2. PICK k \in Nat : Len(frames) = k + 1 /\ Len(frames) - 1 = k
  <2>1. Len(frames) - 1 \in Nat /\ Len(frames) = (Len(frames) - 1) + 1
    BY <1>1
  <2> QED
    BY <2>1
<1>3. Lists(Anchor(Top), ScopesUpto(frames, k + 1))
  BY <1>1, <1>2, ScopedNext DEF Top
<1> QED
  BY <1>1, <1>2, <1>3

(* ... and a Ref is resolved in the mapping it is written in, below those  *)
(* around that mapping: the parents are the mappings being decoded.        *)
THEOREM RefsSeeSiblings == ASSUME Tidy PROVE Spec => []RefSeesSiblings
<1>1. Init => TidyInv
  BY InitTidy
<1>2. TidyInv /\ [Next]_vars => TidyInv'
  BY StepTidy, StutterTidy
<1>3. TidyInv => RefSeesSiblings
  BY ParentsAreScopes DEF RefSeesSiblings
<1> QED
  BY <1>1, <1>2, <1>3, PTL DEF Spec

(* The outcome is set once, when the call ends.                            *)
LEMMA OutcomeSetLast == ASSUME Next PROVE (ctl # "done" /\ UNCHANGED outcome) \/ Finish \/ Report
<1>1. CASE DecodeLeaf
  BY <1>1 DEF DecodeLeaf, result
<1>2. CASE MapEnter
  BY <1>2 DEF MapEnter, Running, result
<1>3. CASE MapField
  BY <1>3 DEF MapField, Running, Call, result
<1>4. CASE MapStore \/ MapExit
  BY <1>4 DEF MapStore, MapExit, Running, Resuming, result
<1>5. CASE TupleItem \/ ArrayItem
  BY <1>5 DEF TupleItem, ArrayItem, CallItem, Running, Call, result
<1>6. CASE ItemStore \/ ItemsExit \/ GreedyCatch
  BY <1>6 DEF ItemStore, ItemsExit, GreedyCatch, Running, Resuming, result
<1>7. CASE ArrayGreedy \/ ArrayCount
  BY <1>7 DEF ArrayGreedy, ArrayCount, Running, result
<1>8. CASE WrapOpen \/ PointerOffset
  BY <1>8 DEF WrapOpen, PointerOffset, CallInner, Running, Call, result
<1>9. CASE OptionalCatch \/ WrapClose \/ PointerBack \/ SizedClose
  BY <1>9 DEF OptionalCatch, WrapClose, PointerBack, SizedClose, Resuming, result
<1>10. CASE SwitchOpen
  BY <1>10 DEF SwitchOpen, CallInner, Running, Call, result
<1>11. CASE PointerJump
  BY <1>11 DEF PointerJump, CallInner, Resuming, Call, result
<1>12. CASE SizedOpen
  BY <1>12 DEF SizedOpen, CallInner, Running, Call, result
<1>13. CASE Leave \/ Unwind
  BY <1>13 DEF Leave, Unwind, result
<1> QED
  BY <1>1, <1>2, <1>3, <1>4, <1>5, <1>6, <1>7, <1>8, <1>9, <1>10, <1>11, <1>12, <1>13 DEF Next

(* ... and the path of a DecodeError leads to where its exception was      *)
(* raised, through whatever was decoded and swallowed on the way.          *)
THEOREM ErrorPathsAreExact == ASSUME Tidy PROVE Spec => []ErrorPathExact
<1> DEFINE Told == outcome = "error" => ctl = "done" /\ Lists(err.path, origin.keys)
<1>1. ASSUME Init PROVE TidyInv /\ Told
  <2>1. TidyInv
    BY <1>1, InitTidy
  <2>2. Told
    BY <1>1 DEF Init
  <2> QED
    BY <2>1, <2>2
<1>2. ASSUME TidyInv, Told, Next PROVE TidyInv' /\ Told'
  <2>1. TidyInv'
    BY <1>2, StepTidy
  <2>2. ASSUME ctl # "done", UNCHANGED outcome PROVE Told'
    BY <1>2, <2>2
  <2>3. ASSUME Finish PROVE Told'
    <3>1. outcome' # "error"
      BY <2>3 DEF Finish
    <3> QED
      BY <3>1
  <2>4. ASSUME Report PROVE Told'
    <3>1. /\ ctl = "report" /\ ctl' = "done"
          /\ err' = [cause |-> exc, path |-> path, fmt |-> curFmt,
                     context |-> parents[IF Len(parents) > 1 THEN 2 ELSE 1],
                     local |-> parents[Len(parents)]]
          /\ origin' = origin
      BY <2>4 DEF Report
    <3>2. Lists(path, origin.keys)
      BY <1>2, <3>1 DEF TidyInv, Traced
    <3>3. err'.path = path
      BY <3>1
    <3> QED
      BY <3>1, <3>2, <3>3
  <2>5. Told'
    BY <1>2, <2>2, <2>3, <2>4, OutcomeSetLast
  <2> QED
    BY <2>1, <2>5
<1>3. ASSUME TidyInv, Told, UNCHANGED vars PROVE TidyInv' /\ Told'
  <2>1. TidyInv'
    BY <1>3, StutterTidy
  <2>2. Told'
    BY <1>3 DEF vars, flow, result
  <2> QED
    BY <2>1, <2>2
<1>4. Told => ErrorPathExact
  BY DEF ErrorPathExact
<1> HIDE DEF Told
<1> QED
  BY <1>1, <1>2, <1>3, <1>4, PTL DEF Spec


-----------------------------------------------------------------------------
(* What the parents list when an exception is raised: the sentinel, then   *)
(* the mappings that were open.                                            *)
Bases(maps) == {0} \cup DOMAIN maps
WithBase(maps) == [i \in Bases(maps) |-> IF i = 0 THEN 1 ELSE maps[i].dict]

(* Of a traceback: each open mapping was created after those around it; a  *)
(* mapping around another one was decoding the field it is named under;    *)
(* and nothing else is called by a name.                                   *)
Charted(keys, maps, n, top) ==
    /\ DOMAIN keys \subseteq 1..n /\ DOMAIN maps \subseteq 1..n
    /\ \A a \in DOMAIN maps : maps[a].dict \in 2..top
    /\ \A a, b \in DOMAIN maps :
          a < b => /\ maps[a].dict < maps[b].dict
                   /\ a \in DOMAIN keys /\ keys[a] = maps[a].item /\ IsName(keys[a])
    /\ \A c \in DOMAIN keys : IsName(keys[c]) => c \in DOMAIN maps

(* Where an open mapping is among the parents.                             *)
LEMMA ParentOf ==
    ASSUME NEW n \in Nat, NEW keys, NEW maps, NEW top \in Nat, Charted(keys, maps, n, top),
           Lists(parents, WithBase(maps))
    PROVE  /\ Bases(maps) \subseteq 0..n /\ Len(parents) = Cardinality(Bases(maps)) /\ Len(parents) \in Nat
           /\ Rank(Bases(maps), 0) = 1 /\ parents[1] = 1
           /\ \A a \in DOMAIN maps : /\ Rank(Bases(maps), a) \in 2..Len(parents)
                                     /\ parents[Rank(Bases(maps), a)] = maps[a].dict
<1>1. Bases(maps) \subseteq 0..n /\ 0 \in Bases(maps)
  BY DEF Charted, Bases
<1>2. DOMAIN WithBase(maps) = Bases(maps)
  BY DEF WithBase
<1>3. Len(parents) = Cardinality(Bases(maps)) /\ \A i \in Bases(maps) : parents[Rank(Bases(maps), i)] = WithBase(maps)[i]
  BY <1>2 DEF Lists
<1>4. \A i \in Bases(maps) : Rank(Bases(maps), i) \in 1..Cardinality(Bases(maps)) /\ Cardinality(Bases(maps)) \in Nat
  BY <1>1, RankInside
<1>5. Rank(Bases(maps), 0) = 1
  <2>1. {j \in Bases(maps) : j <= 0} = {0}
    BY <1>1 DEF Bases
  <2> QED
    BY <2>1, FS_Singleton DEF Rank
<1>6. WithBase(maps)[0] = 1 /\ \A a \in DOMAIN maps : a # 0 /\ WithBase(maps)[a] = maps[a].dict
  BY DEF WithBase, Charted, Bases
<1>7. parents[1] = 1
  BY <1>1, <1>3, <1>5, <1>6
<1>8. ASSUME NEW a \in DOMAIN maps
      PROVE  Rank(Bases(maps), a) \in 2..Len(parents) /\ parents[Rank(Bases(maps), a)] = maps[a].dict
  <2>1. a \in Bases(maps) /\ 0 < a
    BY DEF Charted, Bases
  <2>2. Rank(Bases(maps), 0) < Rank(Bases(maps), a)
    BY <1>1, <2>1, RankIncreases
  <2>3. Rank(Bases(maps), a) \in 1..Len(parents) /\ Len(parents) \in Nat
    BY <1>3, <1>4, <2>1
  <2>4. Rank(Bases(maps), a) \in 2..Len(parents)
    BY <1>5, <2>2, <2>3
  <2>5. parents[Rank(Bases(maps), a)] = maps[a].dict
    BY <1>3, <1>6, <2>1
  <2> QED
    BY <2>4, <2>5
<1> QED
  BY <1>1, <1>3, <1>4, <1>5, <1>7, <1>8

(* A mapping is a parent once.                                             *)
LEMMA ParentOnce ==
    ASSUME NEW n \in Nat, NEW keys, NEW maps, NEW top \in Nat, Charted(keys, maps, n, top),
           Lists(parents, WithBase(maps)),
           NEW a \in DOMAIN maps, NEW l \in 1..Len(parents)
    PROVE  parents[l] = maps[a].dict => l = Rank(Bases(maps), a)
<1>1. /\ Bases(maps) \subseteq 0..n /\ Len(parents) = Cardinality(Bases(maps)) /\ Len(parents) \in Nat
      /\ Rank(Bases(maps), 0) = 1 /\ parents[1] = 1
      /\ \A c \in DOMAIN maps : /\ Rank(Bases(maps), c) \in 2..Len(parents)
                                /\ parents[Rank(Bases(maps), c)] = maps[c].dict
  BY ParentOf
<1> SUFFICES ASSUME parents[l] = maps[a].dict PROVE l = Rank(Bases(maps), a)
  OBVIOUS
<1>2. PICK c \in Bases(maps) : Rank(Bases(maps), c) = l
  <2>1. l \in 1..Cardinality(Bases(maps))
    BY <1>1
  <2> QED
    BY <1>1, <2>1, RankReaches
<1>3. c # 0
  BY <1>1, <1>2 DEF Charted
<1>4. c \in DOMAIN maps /\ maps[c].dict = maps[a].dict
  BY <1>1, <1>2, <1>3 DEF Bases
<1>5. maps[a].dict \in Nat /\ a \in Nat /\ c \in Nat
  BY <1>4 DEF Charted
<1>6. c < a => maps[c].dict < maps[a].dict
  BY <1>4 DEF Charted
<1>7. a < c => maps[a].dict < maps[c].dict
  BY <1>4 DEF Charted
<1>8. c = a
  BY <1>4, <1>5, <1>6, <1>7
<1> QED
  BY <1>2, <1>8

(* The names of the path are the fields that the mappings were decoding.   *)
LEMMA NamesOfPath ==
    ASSUME NEW n \in Nat, NEW keys, NEW maps, NEW top \in Nat, Charted(keys, maps, n, top),
           IsSeq(path), Lists(path, keys),
           NEW A, A = {c \in DOMAIN keys : IsName(keys[c])}
    PROVE  Names = Renumbered(DOMAIN keys, A)
<1> DEFINE K == DOMAIN keys
<1>1. K \subseteq 0..n /\ A \subseteq K
  BY DEF Charted
<1>2. Len(path) = Cardinality(K) /\ \A c \in K : path[Rank(K, c)] = keys[c]
  BY DEF Lists
<1>3. DOMAIN path = 1..Cardinality(K)
  BY <1>2 DEF IsSeq
<1>4. ASSUME NEW p \in Names PROVE p \in Renumbered(K, A)
  <2>1. p \in 1..Cardinality(K) /\ IsName(path[p])
    BY <1>3 DEF Names
  <2>2. PICK c \in K : Rank(K, c) = p
    BY <1>1, <2>1, RankReaches
  <2> QED
    BY <1>2, <2>1, <2>2 DEF Renumbered
<1>5. ASSUME NEW p \in Renumbered(K, A) PROVE p \in Names
  <2>1. PICK c \in A : p = Rank(K, c)
    BY DEF Renumbered
  <2>2. p \in 1..Cardinality(K)
    BY <1>1, <2>1, RankInside
  <2> QED
    BY <1>2, <1>3, <2>1, <2>2 DEF Names
<1> QED
  BY <1>4, <1>5

(* Of two neighbours, the next parent and the field between them.          *)
Neighbours(maps, a, b) == /\ a \in DOMAIN maps /\ b \in DOMAIN maps /\ a < b
                          /\ \A j \in DOMAIN maps : j <= a \/ b <= j

LEMMA NextRank ==
    ASSUME NEW n \in Nat, NEW keys, NEW maps, NEW top \in Nat, Charted(keys, maps, n, top),
           NEW a, NEW b, Neighbours(maps, a, b)
    PROVE  Rank(Bases(maps), b) = Rank(Bases(maps), a) + 1
<1> DEFINE C == {j \in Bases(maps) : j <= a}
<1>1. a \in Nat /\ b \in Nat /\ b \in Bases(maps) /\ \A j \in Bases(maps) : j \in Nat
  BY DEF Charted, Bases, Neighbours
<1>2. Bases(maps) \subseteq 0..n
  BY DEF Charted, Bases
<1>3. C \subseteq 0..n
  BY <1>2
<1>4. IsFiniteSet(C)
  BY <1>3, FiniteUpto
<1>5. \A j \in Bases(maps) : j <= b <=> j <= a \/ j = b
  <2> SUFFICES ASSUME NEW j \in Bases(maps) PROVE j <= b <=> j <= a \/ j = b
    OBVIOUS
  <2>1. j = 0 \/ j <= a \/ b <= j
    BY DEF Bases, Neighbours
  <2> QED
    BY <1>1, <2>1 DEF Neighbours
<1>6. {j \in Bases(maps) : j <= b} = C \cup {b}
  BY <1>1, <1>5, Zenon
<1>7. b \notin C
  BY <1>1 DEF Neighbours
<1> HIDE DEF C
<1>8. Cardinality(C \cup {b}) = Cardinality(C) + 1
  BY <1>4, <1>7, FS_AddElement
<1> QED
  BY <1>6, <1>8 DEF Rank, C

LEMMA RankOfName ==
    ASSUME NEW n \in Nat, NEW keys, NEW maps, NEW top \in Nat, Charted(keys, maps, n, top),
           NEW a, NEW b, Neighbours(maps, a, b),
           NEW A, A = {c \in DOMAIN keys : IsName(keys[c])}
    PROVE  a \in A /\ Rank(Bases(maps), a) = Rank(A, a) + 1 /\ Rank(A, a) \in Nat
<1> DEFINE C == {j \in A : j <= a}
<1>1. a \in A
  BY DEF Charted, Neighbours
<1>2. A \subseteq 0..n
  BY DEF Charted
<1>3. C \subseteq 0..n
  BY <1>2
<1>4. IsFiniteSet(C)
  BY <1>3, FiniteUpto
<1>5. ASSUME NEW j PROVE j \in Bases(maps) /\ j <= a <=> j \in C \/ j = 0
  <2>1. j \in C => j \in DOMAIN maps
    BY DEF Charted
  <2>2. j \in DOMAIN maps /\ j <= a => j \in C
    <3> SUFFICES ASSUME j \in DOMAIN maps, j <= a PROVE j \in C
      OBVIOUS
    <3>1. j \in Nat /\ a \in Nat /\ b \in Nat /\ a < b
      BY DEF Charted, Neighbours
    <3>2. j < b
      BY <3>1
    <3>3. j \in DOMAIN keys /\ IsName(keys[j])
      BY <3>2 DEF Charted, Neighbours
    <3> QED
      BY <3>3
  <2>3. 0 <= a
    BY DEF Charted, Neighbours
  <2> QED
    BY <2>1, <2>2, <2>3 DEF Bases
<1>6. {j \in Bases(maps) : j <= a} = C \cup {0}
  BY <1>5
<1>7. 0 \notin C
  BY DEF Charted
<1> HIDE DEF C
<1>8. Cardinality(C \cup {0}) = Cardinality(C) + 1 /\ Cardinality(C) \in Nat
  BY <1>4, <1>7, FS_AddElement, FS_CardinalityType
<1> QED
  BY <1>1, <1>6, <1>8 DEF Rank, C

(* What stitching stores in an open mapping: under the field it was        *)
(* decoding, the next one.                                                 *)
LEMMA StitchedLink ==
    ASSUME NEW n \in Nat, NEW keys, NEW maps, Len(dicts) \in Nat, IsSeq(dicts),
           Charted(keys, maps, n, Len(dicts)),
           IsSeq(path), Lists(path, keys), Lists(parents, WithBase(maps)),
           NEW a, NEW b, Neighbours(maps, a, b)
    PROVE  LET held == Stitched[maps[a].dict]
               key == maps[a].item.name
           IN  key \in DOMAIN held /\ held[key] = DictV(maps[b].dict)
<1> DEFINE K == DOMAIN keys
           A == {c \in K : IsName(keys[c])}
           d == maps[a].dict
           l == Rank(Bases(maps), a)
           q == Rank(K, a)
           Links == {i \in 2..(Len(parents) - 1) : parents[i] = d /\ i - 1 <= Cardinality(Names)}
<1>1. a \in DOMAIN maps /\ b \in DOMAIN maps
  BY DEF Neighbours
<1>2. /\ l \in 2..Len(parents) /\ parents[l] = d /\ Len(parents) \in Nat
      /\ Rank(Bases(maps), b) \in 2..Len(parents) /\ parents[Rank(Bases(maps), b)] = maps[b].dict
  BY <1>1, ParentOf
<1>3. Rank(Bases(maps), b) = l + 1
  BY NextRank
<1>4. a \in A /\ l = Rank(A, a) + 1 /\ Rank(A, a) \in Nat
  BY RankOfName
<1>5. K \subseteq 0..n /\ A \subseteq K
  BY DEF Charted
<1>6. Names = Renumbered(K, A)
  BY NamesOfPath
<1>7. q \in Names /\ Rank(Names, q) = l - 1 /\ Names \subseteq 1..Cardinality(K) /\ Cardinality(K) \in Nat
  <2>1. Rank(Renumbered(K, A), q) = Rank(A, a)
    BY <1>4, <1>5, RankOfRank
  <2>2. q \in Renumbered(K, A)
    BY <1>4 DEF Renumbered
  <2>3. Renumbered(K, A) \subseteq 1..Cardinality(K)
    BY <1>5, RenumberedSize
  <2>4. Cardinality(K) \in Nat
    BY <1>5, FiniteUpto, FS_CardinalityType
  <2> QED
    BY <1>2, <1>4, <1>6, <2>1, <2>2, <2>3, <2>4
<1>8. Names \subseteq 0..Cardinality(K)
  BY <1>7
<1>9. l - 1 <= Cardinality(Names)
  <2>1. Rank(Names, q) \in 1..Cardinality(Names) /\ Cardinality(Names) \in Nat
    BY <1>7, <1>8, RankInside
  <2> QED
    BY <1>7, <2>1
<1>10. path[q] = maps[a].item
  <2>1. path[q] = keys[a]
    BY <1>4, <1>5 DEF Lists
  <2>2. keys[a] = maps[a].item
    BY DEF Charted, Neighbours
  <2> QED
    BY <2>1, <2>2
<1>11. d \in DOMAIN dicts
  <2>1. d \in 2..Len(dicts)
    BY <1>1 DEF Charted
  <2> QED
    BY <2>1 DEF IsSeq
<1>12. \A i \in 1..Len(parents) : parents[i] = d => i = l
  BY <1>1, ParentOnce
<1>13. \A p \in Names : Rank(Names, p) = l - 1 => p = q
  BY <1>7, <1>8, RankTells
<1> HIDE DEF K, A, d, l, q
<1>14. Links = {l}
  BY <1>2, <1>3, <1>9, <1>12
<1>15. Stitched[d] = LET i == CHOOSE i \in Links : TRUE
                         p == CHOOSE p \in Names : Rank(Names, p) = i - 1
                     IN  Stored(dicts[d], path[p].name, DictV(parents[i + 1]))
  BY <1>11, <1>14, Zenon DEF Stitched, StitchedBy
<1>16. (CHOOSE i \in Links : TRUE) = l
  BY <1>14
<1>17. (CHOOSE p \in Names : Rank(Names, p) = l - 1) = q
  BY <1>7, <1>13
<1>18. Stitched[d] = Stored(dicts[d], path[q].name, DictV(parents[l + 1]))
  BY <1>15, <1>16, <1>17
<1>19. Stitched[d] = Stored(dicts[d], maps[a].item.name, DictV(maps[b].dict))
  BY <1>2, <1>3, <1>10, <1>18
<1> QED
  BY <1>19 DEF Stored, d

(* Where the context and the local context of the error are.               *)
LEMMA EndsOfParents ==
    ASSUME NEW n \in Nat, NEW keys, NEW maps, NEW top \in Nat, Charted(keys, maps, n, top),
           Lists(parents, WithBase(maps))
    PROVE  /\ DOMAIN maps = {} => Len(parents) = 1 /\ parents[1] = 1
           /\ \A a \in DOMAIN maps :
                 /\ (\A j \in DOMAIN maps : a <= j) => Len(parents) > 1 /\ parents[2] = maps[a].dict
                 /\ (\A j \in DOMAIN maps : j <= a) => parents[Len(parents)] = maps[a].dict
<1>1. /\ Bases(maps) \subseteq 0..n /\ Len(parents) = Cardinality(Bases(maps)) /\ Len(parents) \in Nat
      /\ Rank(Bases(maps), 0) = 1 /\ parents[1] = 1
      /\ \A a \in DOMAIN maps : /\ Rank(Bases(maps), a) \in 2..Len(parents)
                                /\ parents[Rank(Bases(maps), a)] = maps[a].dict
  BY ParentOf
<1>2. ASSUME DOMAIN maps = {} PROVE Len(parents) = 1
  <2>1. Bases(maps) = {0}
    BY <1>2 DEF Bases
  <2> QED
    BY <1>1, <2>1, FS_Singleton
<1>3. ASSUME NEW a \in DOMAIN maps, \A j \in DOMAIN maps : a <= j
      PROVE  Len(parents) > 1 /\ parents[2] = maps[a].dict
  <2>1. a \in Nat /\ 0 < a
    BY DEF Charted
  <2>2. {j \in Bases(maps) : j <= a} = {0} \cup {a}
    <3>1. ASSUME NEW j PROVE j \in Bases(maps) /\ j <= a <=> j = 0 \/ j = a
      <4>1. j \in DOMAIN maps => j \in Nat /\ a <= j
        BY <1>3 DEF Charted
      <4> QED
        BY <2>1, <4>1 DEF Bases
    <3> QED
      BY <3>1
  <2>3. Cardinality({0} \cup {a}) = 2
    <3>1. IsFiniteSet({0}) /\ Cardinality({0}) = 1
      BY FS_Singleton
    <3>2. a \notin {0}
      BY <2>1
    <3> QED
      BY <3>1, <3>2, FS_AddElement
  <2>4. Rank(Bases(maps), a) = 2
    BY <2>2, <2>3 DEF Rank
  <2> QED
    BY <1>1, <2>4
<1>4. ASSUME NEW a \in DOMAIN maps, \A j \in DOMAIN maps : j <= a
      PROVE  parents[Len(parents)] = maps[a].dict
  <2>1. a \in Nat /\ \A j \in Bases(maps) : j <= a
    BY <1>4 DEF Charted, Bases
  <2>2. {j \in Bases(maps) : j <= a} = Bases(maps)
    BY <2>1, Zenon
  <2>3. Rank(Bases(maps), a) = Len(parents)
    BY <1>1, <2>2 DEF Rank
  <2> QED
    BY <1>1, <2>3
<1> QED
  BY <1>1, <1>2, <1>3, <1>4

-----------------------------------------------------------------------------
(* Of a call stack: the mappings being filled were created in the order of *)
(* their frames, after the sentinel; and of the lowest m frames, which     *)
(* wait for a callee, the mappings have called by name and the other       *)
(* containers by index.                                                    *)
Calling(F) == IsContainer(F) => /\ IsMap(F) <=> IsName(F.item)
                                /\ IsMap(F) => F.at = "loop"

Filed(stack, m, top) ==
    /\ \A i \in 1..Len(stack) : stack[i].idx \in Nat /\ (IsOpenMap(stack[i]) => stack[i].dict \in 2..top)
    /\ \A i, j \in 1..Len(stack) : i < j /\ IsOpenMap(stack[i]) /\ IsOpenMap(stack[j]) =>
                                      stack[i].dict < stack[j].dict
    /\ \A i \in 1..m : Calling(stack[i])

LEMMA FiledTop ==
    ASSUME IsSeq(frames), Len(frames) > 0, NEW top \in Nat, NEW more \in Nat, top <= more,
           Filed(frames, Len(frames) - 1, top),
           NEW F, F.idx \in Nat,
           IsOpenMap(F) => \/ IsOpenMap(Top) /\ F.dict = Top.dict
                           \/ F.dict \in (top + 1)..more /\ 1 <= top
    PROVE  /\ Filed(WithTop(F), Len(frames) - 1, more)
           /\ Calling(F) => Filed(WithTop(F), Len(frames), more)
<1> DEFINE n == Len(frames)
           W == WithTop(F)
<1>1. n \in Nat /\ IsSeq(W) /\ Len(W) = n /\ W[n] = F /\ \A i \in 1..(n - 1) : W[i] = frames[i]
  BY WithTopSeq DEF IsSeq
<1>2. \A i \in 1..n : i = n \/ i \in 1..(n - 1)
  BY <1>1
<1> HIDE DEF W
<1>3. ASSUME NEW i \in 1..n PROVE W[i].idx \in Nat /\ (IsOpenMap(W[i]) => W[i].dict \in 2..more)
  <2>1. frames[i].idx \in Nat /\ (IsOpenMap(frames[i]) => frames[i].dict \in 2..top)
    BY DEF Filed
  <2>2. CASE i \in 1..(n - 1)
    BY <1>1, <2>1, <2>2
  <2>3. CASE i = n
    BY <1>1, <2>1, <2>3 DEF Top
  <2> QED
    BY <1>2, <2>2, <2>3
<1>4. ASSUME NEW i \in 1..n, NEW j \in 1..n, i < j, IsOpenMap(W[i]), IsOpenMap(W[j])
      PROVE  W[i].dict < W[j].dict
  <2>1. i \in 1..(n - 1) /\ W[i] = frames[i]
    BY <1>1, <1>4
  <2>2. frames[i].dict \in 2..top
    BY <1>4, <2>1 DEF Filed
  <2>3. CASE j \in 1..(n - 1)
    BY <1>1, <1>4, <2>1, <2>3 DEF Filed
  <2>4. CASE j = n
    <3>1. W[j] = F
      BY <1>1, <2>4
    <3>2. CASE IsOpenMap(Top) /\ F.dict = Top.dict
      <4>1. IsOpenMap(frames[n]) /\ frames[n].dict = F.dict /\ i < n
        BY <1>4, <2>4, <3>2 DEF Top
      <4> QED
        BY <1>4, <2>1, <3>1, <4>1 DEF Filed
    <3>3. CASE F.dict \in (top + 1)..more
      BY <2>1, <2>2, <3>1, <3>3
    <3> QED
      BY <1>4, <3>1, <3>2, <3>3
  <2> QED
    BY <1>2, <2>3, <2>4
<1>5. \A i \in 1..(n - 1) : Calling(W[i])
  BY <1>1 DEF Filed
<1>6. Calling(F) => \A i \in 1..n : Calling(W[i])
  BY <1>1, <1>2, <1>5
<1> QED
  BY <1>1, <1>3, <1>4, <1>5, <1>6 DEF Filed, W

LEMMA FiledPush ==
    ASSUME NEW stack, IsSeq(stack), NEW top, Filed(stack, Len(stack), top),
           NEW G, G.idx \in Nat, ~IsOpenMap(G)
    PROVE  Filed(Append(stack, G), Len(stack), top)
<1> DEFINE n == Len(stack)
           W == Append(stack, G)
<1>1. n \in Nat /\ Len(W) = n + 1 /\ W[n + 1] = G /\ \A i \in 1..n : W[i] = stack[i]
  BY AppendSeq DEF IsSeq
<1>2. \A i \in 1..(n + 1) : i = n + 1 \/ i \in 1..n
  BY <1>1
<1> HIDE DEF W
<1>3. ASSUME NEW i \in 1..(n + 1) PROVE W[i].idx \in Nat /\ (IsOpenMap(W[i]) => W[i].dict \in 2..top)
  BY <1>1, <1>2 DEF Filed
<1>4. ASSUME NEW i \in 1..(n + 1), NEW j \in 1..(n + 1), i < j, IsOpenMap(W[i]), IsOpenMap(W[j])
      PROVE  W[i].dict < W[j].dict
  <2>1. i \in 1..n /\ j \in 1..n
    BY <1>1, <1>2, <1>4
  <2> QED
    BY <1>1, <1>4, <2>1 DEF Filed
<1>5. \A i \in 1..n : Calling(W[i])
  BY <1>1 DEF Filed
<1> QED
  BY <1>1, <1>3, <1>4, <1>5 DEF Filed, W

LEMMA FiledUnder ==
    ASSUME NEW stack, IsSeq(stack), Len(stack) > 0, NEW top, Filed(stack, Len(stack) - 1, top)
    PROVE  /\ Len(Under(stack)) = Len(stack) - 1
           /\ Filed(Under(stack), Len(stack) - 1, top)
<1> DEFINE n == Len(stack)
           W == Under(stack)
<1>1. n \in Nat /\ Len(W) = n - 1 /\ \A i \in 1..(n - 1) : W[i] = stack[i]
  BY UnderSeq DEF IsSeq
<1> HIDE DEF W
<1> QED
  BY <1>1 DEF Filed, W

LEMMA FiledLess ==
    ASSUME NEW stack, NEW n \in Nat, NEW top, Filed(stack, n, top)
    PROVE  Filed(stack, n - 1, top)
  BY DEF Filed

(* What is recorded of such a stack when an exception is raised.           *)
LEMMA FiledIsCharted ==
    ASSUME NEW stack, IsSeq(stack), NEW m \in Nat, Len(stack) \in {m, m + 1}, NEW top,
           Filed(stack, m, top)
    PROVE  Charted(KeysUpto(stack, m), OpenMaps(stack), Len(stack), top)
<1> DEFINE n == Len(stack)
           keys == KeysUpto(stack, m)
           maps == OpenMaps(stack)
<1>1. n \in Nat /\ DOMAIN stack = 1..n /\ (n = m \/ n = m + 1)
  BY DEF IsSeq
<1>2. /\ DOMAIN keys = {j \in 1..m : IsContainer(stack[j])}
      /\ \A j \in DOMAIN keys : keys[j] = stack[j].item
  BY DEF KeysUpto
<1>3. /\ DOMAIN maps = {j \in 1..n : IsOpenMap(stack[j])}
      /\ \A j \in DOMAIN maps : maps[j] = stack[j]
  BY <1>1 DEF OpenMaps
<1> HIDE DEF keys, maps, n
<1>8. 1..m \subseteq 1..n /\ \A i \in 1..n, j \in 1..n : i < j => i \in 1..m
  BY <1>1
<1>4. DOMAIN keys \subseteq 1..n /\ DOMAIN maps \subseteq 1..n
  BY <1>2, <1>3, <1>8
<1>5. \A a \in DOMAIN maps : maps[a].dict \in 2..top
  BY <1>3 DEF Filed, n
<1>6. ASSUME NEW a \in DOMAIN maps, NEW b \in DOMAIN maps, a < b
      PROVE  /\ maps[a].dict < maps[b].dict
             /\ a \in DOMAIN keys /\ keys[a] = maps[a].item /\ IsName(keys[a])
  <2>1. maps[a] = stack[a] /\ maps[b] = stack[b] /\ IsOpenMap(stack[a]) /\ IsOpenMap(stack[b])
    BY <1>3
  <2>2. a \in 1..n /\ b \in 1..n
    BY <1>3
  <2>3. stack[a].dict < stack[b].dict
    BY <1>6, <2>1, <2>2 DEF Filed, n
  <2>4. a \in 1..m
    BY <1>6, <1>8, <2>2
  <2>5. IsContainer(stack[a]) /\ IsMap(stack[a])
    BY <2>1 DEF IsOpenMap, IsContainer, IsMap
  <2>6. Calling(stack[a])
    BY <2>4 DEF Filed
  <2>7. a \in DOMAIN keys /\ keys[a] = stack[a].item
    BY <1>2, <2>4, <2>5
  <2> QED
    BY <2>1, <2>3, <2>5, <2>6, <2>7 DEF Calling
<1>7. ASSUME NEW c \in DOMAIN keys, IsName(keys[c]) PROVE c \in DOMAIN maps
  <2>1. c \in 1..m /\ IsContainer(stack[c]) /\ IsName(stack[c].item)
    BY <1>2, <1>7
  <2>2. Calling(stack[c])
    BY <2>1 DEF Filed
  <2>3. IsOpenMap(stack[c])
    BY <2>1, <2>2 DEF Calling, IsOpenMap, IsMap
  <2> QED
    BY <1>3, <1>8, <2>1, <2>3
<1> QED
  BY <1>4, <1>5, <1>6, <1>7, Zenon DEF Charted, keys, maps, n

LEMMA OpenMapsAreScopes ==
    ASSUME NEW stack, IsSeq(stack) PROVE WithBase(OpenMaps(stack)) = ScopesUpto(stack, Len(stack))
<1>1. DOMAIN stack = 1..Len(stack)
  BY DEF IsSeq
<1>2. /\ DOMAIN OpenMaps(stack) = {j \in 1..Len(stack) : IsOpenMap(stack[j])}
      /\ \A j \in DOMAIN OpenMaps(stack) : OpenMaps(stack)[j] = stack[j]
  BY <1>1 DEF OpenMaps
<1>3. Bases(OpenMaps(stack)) = {0} \cup {j \in 1..Len(stack) : IsOpenMap(stack[j])}
  BY <1>2 DEF Bases
<1> QED
  BY <1>2, <1>3 DEF WithBase, ScopesUpto, ScopesOf, Bases

-----------------------------------------------------------------------------
(* The inductive invariant: the stack is filed, and what an exception has  *)
(* recorded is a chart of the context as it is.                            *)
Filing == /\ Len(dicts) > 0
          /\ Filed(frames, IF ctl = "resume" THEN Len(frames) ELSE Len(frames) - 1, Len(dicts))

Recorded == ctl \in {"raise", "report"} =>
                /\ Lists(parents, WithBase(origin.maps))
                /\ \E n \in Nat : Charted(origin.keys, origin.maps, n, Len(dicts))

ErrInv == TidyInv /\ Filing /\ Recorded

LEMMA SameLen == ASSUME NEW s, NEW t, IsSeq(s), IsSeq(t), DOMAIN s = DOMAIN t PROVE Len(s) = Len(t)
<1>1. PICK m \in Nat : m = Len(s)
  BY DEF IsSeq
<1>2. PICK k \in Nat : k = Len(t)
  BY DEF IsSeq
<1>3. 1..m = 1..k
  BY <1>1, <1>2 DEF IsSeq
<1>4. m = k
  BY <1>3
<1> QED
  BY <1>1, <1>2, <1>4

LEMMA ErrTop ==
    ASSUME ErrInv, ctl \in Busy
    PROVE  /\ IsSeq(frames) /\ Len(frames) > 0 /\ Len(frames) \in Nat
           /\ IsSeq(dicts) /\ Len(dicts) > 0 /\ Len(dicts) \in Nat
           /\ Filed(frames, Len(frames) - 1, Len(dicts))
           /\ ctl = "resume" => Calling(Top)
           /\ Top.idx \in Nat /\ DOMAIN Top = FrameFields
           /\ WithTop(Top) = frames
<1>1. IsSeq(frames) /\ Len(frames) > 0 /\ Len(frames) \in Nat /\ IsSeq(dicts) /\ Len(dicts) \in Nat
  BY DEF ErrInv, TidyInv, Inv, Shape, IsSeq
<1>2. Filed(frames, Len(frames) - 1, Len(dicts)) /\ Len(dicts) > 0
  BY <1>1, FiledLess DEF ErrInv, Filing
<1>3. ctl = "resume" => Filed(frames, Len(frames), Len(dicts))
  BY DEF ErrInv, Filing
<1>4. Len(frames) \in 1..Len(frames)
  BY <1>1
<1>5. Top.idx \in Nat
  BY <1>2, <1>4 DEF Filed, Top
<1>6. ctl = "resume" => Calling(Top)
  BY <1>3, <1>4 DEF Filed, Top
<1>7. DOMAIN Top = FrameFields /\ WithTop(Top) = frames
  BY TidyTop DEF ErrInv, IsFrame
<1> QED
  BY <1>1, <1>2, <1>5, <1>6, <1>7

LEMMA StayFiled ==
    ASSUME ErrInv, ctl \in Busy, ctl' \in {"run", "leave", "raise"},
           NEW F, F.idx \in Nat, frames' = WithTop(F),
           Len(dicts') \in {Len(dicts), Len(dicts) + 1},
           IsOpenMap(F) => \/ IsOpenMap(Top) /\ F.dict = Top.dict
                           \/ F.dict = Len(dicts) + 1 /\ Len(dicts') = Len(dicts) + 1
    PROVE  Filing'
<1>1. /\ IsSeq(frames) /\ Len(frames) > 0 /\ Len(dicts) > 0 /\ Len(dicts) \in Nat
      /\ Filed(frames, Len(frames) - 1, Len(dicts))
  BY ErrTop
<1>2. PICK top \in Nat : top = Len(dicts)
  BY <1>1
<1>3. PICK more \in Nat : more = Len(dicts')
  BY <1>1
<1>4. top <= more /\ 1 <= top /\ (more = top + 1 => top + 1 \in (top + 1)..more)
  BY <1>1, <1>2, <1>3
<1>5. IsOpenMap(F) => \/ IsOpenMap(Top) /\ F.dict = Top.dict
                      \/ F.dict \in (top + 1)..more /\ 1 <= top
  BY <1>2, <1>3, <1>4
<1>6. Filed(WithTop(F), Len(frames) - 1, more)
  BY <1>1, <1>2, <1>4, <1>5, FiledTop
<1>7. Len(frames') = Len(frames)
  BY <1>1, WithTopSeq
<1> QED
  BY <1>1, <1>2, <1>3, <1>4, <1>6, <1>7 DEF Filing

LEMMA ReturnFiled ==
    ASSUME ErrInv, ctl \in Busy, NEW F, F.idx \in Nat, ~IsOpenMap(F) \/ F = Top,
           NEW v, Return(F, v), dicts' = dicts
    PROVE  Filing' /\ Recorded'
<1>1. ctl' = "leave" /\ frames' = WithTop(F)
  BY DEF Return
<1> QED
  BY <1>1, StayFiled DEF Recorded

LEMMA RaiseFiled ==
    ASSUME ErrInv, ctl \in {"run", "resume"}, NEW e, Raise(e), UNCHANGED <<parents, dicts>>
    PROVE  Filing' /\ Recorded'
<1>1. ctl \in Busy /\ ctl' = "raise"
  BY DEF Busy, Raise
<1>2. /\ IsSeq(frames) /\ Len(frames) > 0 /\ Len(frames) \in Nat /\ Top.idx \in Nat
      /\ WithTop(Top) = frames /\ Filed(frames, Len(frames) - 1, Len(dicts))
  BY <1>1, ErrTop
<1>3. frames' = WithTop(Top)
  BY <1>2 DEF Raise
<1>4. Filing'
  BY <1>1, <1>2, <1>3, StayFiled
<1>5. origin'.keys = KeysUpto(frames, Len(frames) - 1) /\ origin'.maps = OpenMaps(frames)
  BY DEF Raise, Traceback
<1>6. PICK m \in Nat : Len(frames) = m + 1 /\ Len(frames) - 1 = m
  <2>1. Len(frames) - 1 \in Nat /\ Len(frames) = (Len(frames) - 1) + 1
    BY <1>2
  <2> QED
    BY <2>1
<1>7. Charted(KeysUpto(frames, m), OpenMaps(frames), Len(frames), Len(dicts))
  BY <1>2, <1>6, FiledIsCharted
<1>8. Lists(parents, WithBase(OpenMaps(frames)))
  BY <1>2, ParentsAreScopes, OpenMapsAreScopes DEF ErrInv
<1>9. Lists(parents', WithBase(origin'.maps))
  BY <1>5, <1>8
<1>10. Charted(origin'.keys, origin'.maps, Len(frames), Len(dicts'))
  BY <1>5, <1>6, <1>7
<1> QED
  BY <1>2, <1>4, <1>9, <1>10 DEF Recorded

LEMMA DeliverFiled ==
    ASSUME ErrInv, ctl = "run", NEW r, Deliver(r), UNCHANGED <<parents, dicts>>
    PROVE  Filing' /\ Recorded'
<1>1. ctl \in Busy
  BY DEF Busy
<1>2. CASE Return(Top, r.val)
  BY <1>1, <1>2, ErrTop, ReturnFiled
<1>3. CASE Raise(r.exc)
  BY <1>3, RaiseFiled
<1> QED
  BY <1>2, <1>3 DEF Deliver

LEMMA CallFiled ==
    ASSUME ErrInv, ctl \in {"run", "resume"}, NEW F, F.idx \in Nat, F.dict = Top.dict,
           IsOpenMap(F) <=> IsOpenMap(Top), Calling(F),
           NEW f, NEW key, NEW s, NEW newStreams, NEW newPath, NEW newNodes,
           Call(F, f, key, s, newStreams, newPath, newNodes)
    PROVE  Filing' /\ Recorded'
<1>1. ctl \in Busy /\ UNCHANGED <<parents, dicts>>
  BY DEF Busy, Call
<1>2. /\ IsSeq(frames) /\ Len(frames) > 0 /\ Len(frames) \in Nat /\ Len(dicts) \in Nat /\ Len(dicts) > 0
      /\ Filed(frames, Len(frames) - 1, Len(dicts))
  BY <1>1, ErrTop
<1>3. PICK n \in Nat : n = Len(frames)
  BY <1>2
<1>4. PICK W : W = WithTop(F)
  OBVIOUS
<1>5. IsSeq(W) /\ Len(W) = n /\ W[n] = F /\ \A i \in 1..(n - 1) : W[i] = frames[i]
  BY <1>2, <1>3, <1>4, WithTopSeq
<1>6. Filed(W, n, Len(dicts))
  <2>1. PICK top \in Nat : top = Len(dicts)
    BY <1>2
  <2>2. top <= top
    OBVIOUS
  <2> QED
    BY <1>2, <1>3, <1>4, <2>1, <2>2, FiledTop
<1>7. CASE Len(frames) = MaxDepth
  <2>1. frames' = W /\ ctl' = "raise" /\ origin' = Traceback(W, n)
    BY <1>3, <1>4, <1>7 DEF Call
  <2>2. Filing'
    <3>1. Filed(W, n - 1, Len(dicts))
      BY <1>6, FiledLess
    <3> QED
      BY <1>1, <1>2, <1>5, <2>1, <3>1 DEF Filing
  <2>3. origin'.keys = KeysUpto(W, n) /\ origin'.maps = OpenMaps(W)
    BY <2>1 DEF Traceback
  <2>4. Charted(KeysUpto(W, n), OpenMaps(W), n, Len(dicts))
    BY <1>5, <1>6, FiledIsCharted
  <2>5. ScopesUpto(W, n) = ScopesUpto(frames, n)
    <3>1. \A i \in 1..n : IsOpenMap(W[i]) = IsOpenMap(frames[i]) /\ W[i]["dict"] = frames[i]["dict"]
      <4>1. \A i \in 1..n : i = n \/ i \in 1..(n - 1)
        OBVIOUS
      <4>2. IsOpenMap(W[n]) = IsOpenMap(frames[n])
        BY <1>3, <1>5 DEF Top, IsOpenMap
      <4>3. W[n]["dict"] = frames[n]["dict"]
        BY <1>3, <1>5 DEF Top
      <4> QED
        BY <1>5, <4>1, <4>2, <4>3
    <3> QED
      BY <3>1, ScopesLocal DEF ScopesUpto
  <2>6. Lists(parents, WithBase(OpenMaps(W)))
    BY <1>3, <1>5, <2>5, ParentsAreScopes, OpenMapsAreScopes DEF ErrInv
  <2>7. Lists(parents', WithBase(origin'.maps)) /\ Charted(origin'.keys, origin'.maps, n, Len(dicts'))
    BY <1>1, <2>3, <2>4, <2>6
  <2> QED
    BY <2>2, <2>7 DEF Recorded
<1>8. CASE Len(frames) # MaxDepth
  <2> DEFINE G == NewFrame(f, key, s, newStreams[s].pos, Len(newNodes) + 1, kidsOf, parents, newPath)
  <2>1. frames' = Append(W, G) /\ ctl' = "run"
    BY <1>4, <1>8 DEF Call
  <2>2. G.idx \in Nat /\ ~IsOpenMap(G)
    BY DEF NewFrame, IsOpenMap
  <2> HIDE DEF G
  <2>3. Filed(Append(W, G), n, Len(dicts))
    BY <1>5, <1>6, <2>2, FiledPush
  <2>4. Len(frames') = n + 1
    BY <1>5, <2>1, AppendSeq
  <2>5. Len(frames') - 1 = n
    BY <2>4
  <2> QED
    BY <1>1, <1>2, <2>1, <2>3, <2>5 DEF Filing, Recorded
<1> QED
  BY <1>7, <1>8

(* A frame that is called by neither name nor index, or that waits as it   *)
(* should: what the steps of wrappers and of loops leave.                  *)
LEMMA WrapperFiled ==
    ASSUME ErrInv, ctl \in {"run", "resume"}, ~IsContainer(Top),
           NEW F, F.fmt = Top.fmt, F.idx = Top.idx, F.dict = Top.dict,
           NEW f, NEW key, NEW s, NEW newStreams, NEW newPath, NEW newNodes,
           Call(F, f, key, s, newStreams, newPath, newNodes)
    PROVE  Filing' /\ Recorded'
<1>1. Top.idx \in Nat
  BY ErrTop DEF Busy
<1>2. Calling(F) /\ ~IsOpenMap(F) /\ ~IsOpenMap(Top)
  BY DEF Calling, IsContainer, IsOpenMap
<1> QED
  BY <1>1, <1>2, CallFiled

LEMMA InnerFiled ==
    ASSUME ErrInv, ctl \in {"run", "resume"}, ~IsContainer(Top),
           NEW p, NEW F, F \in {Top, [Top EXCEPT !.saved = p]},
           NEW f, NEW key, NEW s, NEW newStreams, NEW newNodes,
           CallInner(F, f, key, s, newStreams, newNodes)
    PROVE  Filing' /\ Recorded'
<1>1. DOMAIN Top = FrameFields
  BY ErrTop DEF Busy
<1>2. PICK G : G = [F EXCEPT !.at = "inner"]
  OBVIOUS
<1>3. G.fmt = Top.fmt /\ G.idx = Top.idx /\ G.dict = Top.dict
  BY <1>1, <1>2 DEF FrameFields
<1>4. Call(G, f, key, s, newStreams, path, newNodes)
  BY <1>2 DEF CallInner
<1> QED
  BY <1>3, <1>4, WrapperFiled

LEMMA StepErr == ASSUME Tidy, ErrInv, Next PROVE ErrInv'
<1> SUFFICES Filing' /\ Recorded'
  BY StepTidy DEF ErrInv
<1>0. IsSeq(dicts) /\ IsSeq(dicts') /\ TidyInv'
  BY StepTidy DEF ErrInv, TidyInv, Inv, Shape
<1>2. ctl \in Busy => /\ DOMAIN Top = FrameFields /\ Top.idx \in Nat /\ WithTop(Top) = frames
                      /\ Len(dicts) \in Nat /\ Len(dicts) > 0
                      /\ ctl = "resume" => Calling(Top)
  BY ErrTop
<1>3. ASSUME DecodeLeaf PROVE Filing' /\ Recorded'
  BY <1>3, DeliverFiled DEF DecodeLeaf
<1>4. ASSUME MapEnter PROVE Filing' /\ Recorded'
  <2>1. PICK F : F = [Top EXCEPT !.at = "loop", !.dict = Len(dicts) + 1]
    OBVIOUS
  <2>2. /\ ctl = "run" /\ ctl' = "run" /\ ctl \in Busy
        /\ dicts' = Append(dicts, <<>>) /\ frames' = WithTop(F)
    BY <1>4, <2>1 DEF MapEnter, Running, Busy
  <2>3. F.idx = Top.idx /\ F.dict = Len(dicts) + 1
    BY <1>2, <2>1, <2>2 DEF FrameFields
  <2>4. Len(dicts') = Len(dicts) + 1
    BY <1>0, <2>2, AppendSeq
  <2> QED
    BY <1>2, <2>2, <2>3, <2>4, StayFiled DEF Recorded
<1>5. ASSUME MapField PROVE Filing' /\ Recorded'
  <2>1. ctl = "run" /\ ctl \in Busy /\ IsMap(Top) /\ Top.at = "loop"
    BY <1>5 DEF MapField, Running, Busy, IsMap, TopNode
  <2>2. CASE Raise("Value") /\ UNCHANGED <<dicts, parents>>
    BY <2>1, <2>2, RaiseFiled
  <2>3. ASSUME NEW i, i = Top.idx + 1, NEW f, NEW k,
               Call([Top EXCEPT !.idx = i, !.item = Name(k)], f, Name(k), Top.strm,
                    streams, Append(path, Name(k)), nodes)
        PROVE  Filing' /\ Recorded'
    <3>1. PICK F : F = [Top EXCEPT !.idx = i, !.item = Name(k)]
      OBVIOUS
    <3>2. F.idx = i /\ F.item = Name(k) /\ F.fmt = Top.fmt /\ F.at = Top.at /\ F.dict = Top.dict
      BY <1>2, <2>1, <3>1 DEF FrameFields
    <3>3. i \in Nat
      BY <1>2, <2>1, <2>3
    <3>4. (IsOpenMap(F) <=> IsOpenMap(Top)) /\ Calling(F)
      BY <2>1, <3>2 DEF IsOpenMap, Calling, IsMap, IsName, Name
    <3> QED
      BY <2>1, <2>3, <3>1, <3>2, <3>3, <3>4, CallFiled
  <2> QED
    BY <1>5, <2>2, <2>3 DEF MapField
<1>6. ASSUME MapStore PROVE Filing' /\ Recorded'
  <2>1. ctl = "resume" /\ ctl' = "run" /\ ctl \in Busy /\ frames' = frames
    BY <1>6 DEF MapStore, Resuming, Busy
  <2>2. DOMAIN dicts' = DOMAIN dicts
    BY <1>6 DEF MapStore
  <2>3. Len(dicts') = Len(dicts)
    BY <1>0, <2>2, SameLen
  <2> QED
    BY <1>2, <2>1, <2>3, StayFiled DEF Recorded
<1>7. ASSUME MapExit PROVE Filing' /\ Recorded'
  <2>1. PICK F : F = [Top EXCEPT !.at = "exit"]
    OBVIOUS
  <2>2. ctl = "run" /\ ctl \in Busy /\ dicts' = dicts /\ Return(F, DictV(Top.dict))
    BY <1>7, <2>1 DEF MapExit, Running, Busy
  <2>3. F.idx = Top.idx /\ ~IsOpenMap(F)
    BY <1>2, <2>1, <2>2 DEF FrameFields, IsOpenMap
  <2> QED
    BY <1>2, <2>2, <2>3, ReturnFiled
<1>8. ASSUME TupleItem \/ ArrayItem PROVE Filing' /\ Recorded'
  <2>1. ctl = "run" /\ ctl \in Busy /\ ~IsMap(Top)
    BY <1>8 DEF TupleItem, ArrayItem, Running, Busy, IsMap, TopNode
  <2>2. ASSUME NEW f, CallItem(Top.idx, f) PROVE Filing' /\ Recorded'
    <3>1. PICK F : F = [Top EXCEPT !.item = Index(Top.idx)]
      OBVIOUS
    <3>2. F.item = Index(Top.idx) /\ F.idx = Top.idx /\ F.fmt = Top.fmt /\ F.at = Top.at /\ F.dict = Top.dict
      BY <1>2, <2>1, <3>1 DEF FrameFields
    <3>3. ~IsName(Index(Top.idx))
      BY <1>2, <2>1 DEF IsName, Index
    <3>4. Calling(F) /\ ~IsOpenMap(F) /\ ~IsOpenMap(Top)
      BY <2>1, <3>2, <3>3 DEF IsOpenMap, Calling, IsMap
    <3>5. Call(F, f, Index(Top.idx), Top.strm, streams, Append(path, Index(Top.idx)), nodes)
      BY <2>2, <3>1 DEF CallItem
    <3> QED
      BY <1>2, <2>1, <3>2, <3>4, <3>5, CallFiled
  <2> QED
    BY <1>8, <2>2 DEF TupleItem, ArrayItem
<1>9. ASSUME ItemStore PROVE Filing' /\ Recorded'
  <2>1. PICK F : F = [Top EXCEPT !.idx = NextIndex(@)]
    OBVIOUS
  <2>2. /\ ctl = "resume" /\ ctl' = "run" /\ ctl \in Busy /\ ~IsMap(Top)
        /\ dicts' = dicts /\ frames' = WithTop(F)
    BY <1>9, <2>1 DEF ItemStore, Resuming, Busy, IsMap, TopNode
  <2>3. F.fmt = Top.fmt /\ F.idx = NextIndex(Top.idx)
    BY <1>2, <2>1, <2>2 DEF FrameFields
  <2>4. NextIndex(Top.idx) \in Nat
    BY <1>2, <2>2 DEF NextIndex
  <2>5. ~IsOpenMap(F)
    BY <2>2, <2>3 DEF IsOpenMap, IsMap
  <2> QED
    BY <1>2, <2>2, <2>3, <2>4, <2>5, StayFiled DEF Recorded
<1>10. ASSUME ctl \in Busy, dicts' = dicts, NEW v, Return(Top, v) PROVE Filing' /\ Recorded'
  BY <1>2, <1>10, ReturnFiled
<1>11. ASSUME ItemsExit \/ GreedyCatch \/ OptionalCatch \/ WrapClose \/ PointerBack
       PROVE  Filing' /\ Recorded'
  <2>1. CASE ItemsExit \/ GreedyCatch \/ OptionalCatch
    BY <1>10, <2>1 DEF ItemsExit, GreedyCatch, OptionalCatch, Running, Busy
  <2>2. CASE WrapClose \/ PointerBack
    BY <1>10, <2>2 DEF WrapClose, PointerBack, Resuming, Busy
  <2> QED
    BY <1>11, <2>1, <2>2
<1>12. ASSUME ctl = "run", ctl' = ctl, ~IsMap(Top), dicts' = dicts,
              NEW F, F.fmt = Top.fmt, F.idx = Top.idx, frames' = WithTop(F)
       PROVE  Filing' /\ Recorded'
  <2>1. ~IsOpenMap(F) /\ ctl \in Busy
    BY <1>12 DEF IsOpenMap, IsMap, Busy
  <2> QED
    BY <1>2, <1>12, <2>1, StayFiled DEF Recorded
<1>13. ASSUME ArrayGreedy PROVE Filing' /\ Recorded'
  <2>1. PICK F : F = [Top EXCEPT !.at = "greedy"]
    OBVIOUS
  <2>2. ctl = "run" /\ ctl' = ctl /\ ~IsMap(Top) /\ dicts' = dicts /\ frames' = WithTop(F) /\ ctl \in Busy
    BY <1>13, <2>1 DEF ArrayGreedy, Running, IsMap, TopNode, Busy
  <2>3. F.fmt = Top.fmt /\ F.idx = Top.idx
    BY <1>2, <2>1, <2>2 DEF FrameFields
  <2> QED
    BY <1>12, <2>2, <2>3
<1>14. ASSUME ArrayCount PROVE Filing' /\ Recorded'
  <2>1. ctl = "run" /\ ctl \in Busy /\ ~IsMap(Top) /\ UNCHANGED <<dicts, parents>>
    BY <1>14 DEF ArrayCount, Running, IsMap, TopNode, Busy
  <2>2. ASSUME NEW r, Deliver(r) PROVE Filing' /\ Recorded'
    BY <2>1, <2>2, DeliverFiled
  <2>3. ASSUME NEW k, frames' = WithTop([Top EXCEPT !.at = "items", !.todo = k]), ctl' = ctl
        PROVE  Filing' /\ Recorded'
    <3>1. PICK F : F = [Top EXCEPT !.at = "items", !.todo = k]
      OBVIOUS
    <3>2. F.fmt = Top.fmt /\ F.idx = Top.idx
      BY <1>2, <2>1, <3>1 DEF FrameFields
    <3> QED
      BY <1>12, <2>1, <2>3, <3>1, <3>2
  <2> QED
    BY <1>14, <2>2, <2>3 DEF ArrayCount
<1>15. ASSUME WrapOpen PROVE Filing' /\ Recorded'
  <2>1. ctl \in {"run", "resume"} /\ ~IsContainer(Top)
    BY <1>15 DEF WrapOpen, Running, IsContainer, TopNode
  <2> QED
    BY <1>15, <2>1, InnerFiled DEF WrapOpen
<1>16. ASSUME SwitchOpen PROVE Filing' /\ Recorded'
  <2>1. ctl \in {"run", "resume"} /\ ~IsContainer(Top)
    BY <1>16 DEF SwitchOpen, Running, IsContainer, TopNode
  <2>2. ASSUME NEW e, Raise(e), UNCHANGED <<parents, dicts>> PROVE Filing' /\ Recorded'
    BY <2>1, <2>2, RaiseFiled
  <2>3. ASSUME NEW f, NEW s, NEW newStreams, CallInner(Top, f, NoKey, s, newStreams, nodes)
        PROVE  Filing' /\ Recorded'
    BY <2>1, <2>3, InnerFiled
  <2> QED
    BY <1>16, <2>2, <2>3 DEF SwitchOpen
<1>17. ASSUME PointerOffset PROVE Filing' /\ Recorded'
  <2>1. PICK F : F = [Top EXCEPT !.at = "offset"]
    OBVIOUS
  <2>2. /\ ctl \in {"run", "resume"} /\ ~IsContainer(Top) /\ ctl \in Busy
        /\ Call(F, TopNode.subs[1], Name("offset"), Top.strm, streams, path, nodes)
    BY <1>17, <2>1 DEF PointerOffset, Running, IsContainer, TopNode, Busy
  <2>3. F.fmt = Top.fmt /\ F.idx = Top.idx /\ F.dict = Top.dict
    BY <1>2, <2>1, <2>2 DEF FrameFields
  <2> QED
    BY <2>2, <2>3, WrapperFiled
<1>18. ASSUME PointerJump PROVE Filing' /\ Recorded'
  <2>1. ctl \in {"run", "resume"} /\ ~IsContainer(Top) /\ ctl \in Busy
    BY <1>18 DEF PointerJump, Resuming, IsContainer, TopNode, Busy
  <2>2. CASE Return(Top, NoneV) /\ dicts' = dicts
    BY <1>10, <2>1, <2>2
  <2>3. ASSUME NEW p, NEW f, NEW newStreams,
               CallInner([Top EXCEPT !.saved = p], f, Name("value"), Top.strm, newStreams, nodes)
        PROVE  Filing' /\ Recorded'
    BY <2>1, <2>3, InnerFiled
  <2> QED
    BY <1>18, <2>2, <2>3 DEF PointerJump
<1>19. ASSUME SizedOpen PROVE Filing' /\ Recorded'
  <2>1. ctl = "run" /\ ~IsContainer(Top)
    BY <1>19 DEF SizedOpen, Running, IsContainer, TopNode
  <2>2. ASSUME NEW r, Deliver(r), UNCHANGED <<parents, dicts>> PROVE Filing' /\ Recorded'
    BY <2>1, <2>2, DeliverFiled
  <2>3. ASSUME NEW f, NEW s, NEW newStreams, NEW newNodes, CallInner(Top, f, NoKey, s, newStreams, newNodes)
        PROVE  Filing' /\ Recorded'
    BY <2>1, <2>3, InnerFiled
  <2> QED
    BY <1>19, <2>2, <2>3 DEF SizedOpen
<1>20. ASSUME SizedClose PROVE Filing' /\ Recorded'
  <2>1. ctl \in {"run", "resume"} /\ ctl \in Busy /\ UNCHANGED <<parents, dicts>>
    BY <1>20 DEF SizedClose, Resuming, Busy
  <2> QED
    BY <1>10, <1>20, <2>1, RaiseFiled DEF SizedClose
<1>21. ASSUME ctl \in Busy, frames' = Under(frames), dicts' = dicts
       PROVE  Filing'
  <2>1. /\ IsSeq(frames) /\ Len(frames) > 0 /\ Len(frames) \in Nat /\ Len(dicts) > 0
        /\ Filed(frames, Len(frames) - 1, Len(dicts))
    BY <1>21, ErrTop
  <2>2. PICK k \in Nat : k = Len(frames) - 1
    BY <2>1
  <2>3. Len(frames') = k /\ Filed(frames', k, Len(dicts))
    BY <1>21, <2>1, <2>2, FiledUnder
  <2>4. Filed(frames', k - 1, Len(dicts))
    BY <2>3, FiledLess
  <2> QED
    BY <1>21, <2>1, <2>3, <2>4 DEF Filing
<1>22. ASSUME Leave PROVE Filing' /\ Recorded'
  <2>1. ctl \in Busy /\ frames' = Under(frames) /\ dicts' = dicts /\ ctl' \notin {"raise", "report"}
    BY <1>22 DEF Leave, Busy
  <2> QED
    BY <1>21, <2>1 DEF Recorded
<1>23. ASSUME Unwind PROVE Filing' /\ Recorded'
  <2>1. /\ ctl \in Busy /\ ctl = "raise" /\ frames' = Under(frames)
        /\ dicts' = dicts /\ parents' = parents /\ origin' = origin
    BY <1>23 DEF Unwind, Busy
  <2>2. Recorded'
    BY <2>1 DEF ErrInv, Recorded
  <2> QED
    BY <1>21, <2>1, <2>2
<1>24. ASSUME Finish \/ Report PROVE Filing' /\ Recorded'
  <2>1. ctl # "resume" /\ ctl' = "done" /\ frames' = frames
    BY <1>24 DEF Finish, Report
  <2>2. DOMAIN dicts' = DOMAIN dicts
    BY <1>24 DEF Finish, Report, Stitched, StitchedBy
  <2>3. Len(dicts') = Len(dicts)
    BY <1>0, <2>2, SameLen
  <2> QED
    BY <2>1, <2>3 DEF ErrInv, Filing, Recorded
<1> QED
  BY <1>3, <1>4, <1>5, <1>6, <1>7, <1>8, <1>9, <1>11, <1>13, <1>14, <1>15, <1>16, <1>17, <1>18, <1>19,
     <1>20, <1>22, <1>23, <1>24 DEF Next

LEMMA InitErr == ASSUME Init PROVE ErrInv
<1>1. PICK root \in Roots : frames = <<NewFrame(root, NoKey, 1, 0, 2, 1, <<1>>, <<>>)>>
  BY DEF Init
<1>2. dicts = <<<<>>>> /\ ctl = "run"
  BY DEF Init
<1>3. PICK G : G = NewFrame(root, NoKey, 1, 0, 2, 1, <<1>>, <<>>)
  OBVIOUS
<1>4. G.idx = 0 /\ ~IsOpenMap(G)
  BY <1>3 DEF NewFrame, IsOpenMap
<1>5. Len(frames) = 1 /\ frames[1] = G
  BY <1>1, <1>3
<1>6. Len(dicts) > 0
  BY <1>2
<1>7. Filed(frames, Len(frames) - 1, Len(dicts))
  <2>1. \A i \in 1..1 : i = 1
    OBVIOUS
  <2>2. \A i, j \in 1..1 : ~(i < j)
    OBVIOUS
  <2>3. 1..(1 - 1) = {}
    OBVIOUS
  <2> QED
    BY <1>4, <1>5, <2>1, <2>2, <2>3 DEF Filed
<1> QED
  BY <1>2, <1>6, <1>7, InitTidy DEF ErrInv, Filing, Recorded

(* The partial result that a DecodeError carries is whole: its root is the *)
(* outermost mapping that was open where the exception was raised, the     *)
(* local context is the innermost one, and each of them holds the next     *)
(* under the field it was decoding, however often fields had been stored,  *)
(* retried or swallowed before.                                            *)
THEOREM ErrorContextsAreStitched == ASSUME Tidy PROVE Spec => []ErrorContextStitched
<1> DEFINE Told == outcome = "error" => ctl = "done" /\ ErrorContextStitched
<1>1. ASSUME Init PROVE ErrInv /\ Told
  <2>1. ErrInv
    BY <1>1, InitErr
  <2>2. Told
    BY <1>1 DEF Init
  <2> QED
    BY <2>1, <2>2
<1>2. ASSUME ErrInv, Told, Next PROVE ErrInv' /\ Told'
  <2>1. ErrInv'
    BY <1>2, StepErr
  <2>2. ASSUME ctl # "done", UNCHANGED outcome PROVE Told'
    BY <1>2, <2>2
  <2>3. ASSUME Finish PROVE Told'
    <3>1. outcome' # "error"
      BY <2>3 DEF Finish
    <3> QED
      BY <3>1
  <2>4. ASSUME Report PROVE Told'
    <3>1. /\ ctl = "report" /\ ctl' = "done" /\ dicts' = Stitched
          /\ err' = [cause |-> exc, path |-> path, fmt |-> curFmt,
                     context |-> parents[IF Len(parents) > 1 THEN 2 ELSE 1],
                     local |-> parents[Len(parents)]]
          /\ origin' = origin
      BY <2>4 DEF Report
    <3>2. PICK n \in Nat : Charted(origin.keys, origin.maps, n, Len(dicts))
      BY <1>2, <3>1 DEF ErrInv, Recorded
    <3>3. /\ Lists(parents, WithBase(origin.maps)) /\ Lists(path, origin.keys)
          /\ IsSeq(path) /\ IsSeq(dicts) /\ Len(dicts) \in Nat
      BY <1>2, <3>1 DEF ErrInv, Recorded, TidyInv, Traced, Inv, Shape, IsSeq
    <3>4. /\ err'.context = parents[IF Len(parents) > 1 THEN 2 ELSE 1]
          /\ err'.local = parents[Len(parents)]
      BY <3>1
    <3> DEFINE open == origin.maps
    <3> HIDE DEF open
    <3>5. Charted(origin.keys, open, n, Len(dicts)) /\ Lists(parents, WithBase(open))
      BY <3>2, <3>3 DEF open
    <3>6. /\ DOMAIN open = {} => Len(parents) = 1 /\ parents[1] = 1
          /\ \A a \in DOMAIN open :
                /\ (\A j \in DOMAIN open : a <= j) => Len(parents) > 1 /\ parents[2] = open[a].dict
                /\ (\A j \in DOMAIN open : j <= a) => parents[Len(parents)] = open[a].dict
      BY <3>3, <3>5, EndsOfParents
    <3>7. ASSUME NEW i \in DOMAIN open, NEW k \in DOMAIN open, i < k,
                 \A j \in DOMAIN open : j <= i \/ k <= j
          PROVE  LET held == Stitched[open[i].dict]
                     key == open[i].item.name
                 IN  key \in DOMAIN held /\ held[key] = DictV(open[k].dict)
      <4>1. Neighbours(open, i, k)
        BY <3>7 DEF Neighbours
      <4> QED
        BY <3>3, <3>5, <4>1, StitchedLink
    <3>8. DOMAIN open = {} => err'.context = 1 /\ err'.local = 1
      <4>1. ASSUME Len(parents) = 1 PROVE ~(Len(parents) > 1)
        BY <4>1
      <4> QED
        BY <3>4, <3>6, <4>1, Zenon
    <3>9. ASSUME NEW i \in DOMAIN open
          PROVE  /\ (\A j \in DOMAIN open : i <= j) => err'.context = open[i].dict
                 /\ (\A j \in DOMAIN open : j <= i) => err'.local = open[i].dict
      BY <3>4, <3>6
    <3>10. ErrorContextStitched'
      BY <3>1, <3>7, <3>8, <3>9 DEF ErrorContextStitched, open
    <3> QED
      BY <3>1, <3>10
  <2>5. Told'
    BY <1>2, <2>2, <2>3, <2>4, OutcomeSetLast
  <2> QED
    BY <2>1, <2>5
<1>3. ASSUME ErrInv, Told, UNCHANGED vars PROVE ErrInv' /\ Told'
  <2>1. UNCHANGED <<frames, ctl, parents, path, origin, dicts, outcome, err>>
    BY <1>3 DEF vars, flow, result
  <2>2. TidyInv'
    BY <1>3, StutterTidy DEF ErrInv
  <2>3. Filing' /\ Recorded'
    BY <1>3, <2>1 DEF ErrInv, Filing, Recorded
  <2>4. Told'
    BY <1>3, <2>1 DEF ErrorContextStitched
  <2> QED
    BY <2>2, <2>3, <2>4 DEF ErrInv
<1>4. Told => ErrorContextStitched
  BY DEF ErrorContextStitched
<1> HIDE DEF Told
<1> QED
  BY <1>1, <1>2, <1>3, <1>4, PTL DEF Spec

-----------------------------------------------------------------------------
(* The inductive invariant behind TypeOK.  A decoded integer, a length and *)
(* the index of a mapping are natural numbers.                             *)
NatValues == [t : {"int", "dict", "raw", "list", "none"}, n : Nat]
Causes == {"", "EOF", "Key", "Value", "Type", "ZeroDivision", "Recursion"}
Places == {"enter", "loop", "items", "greedy", "offset", "inner", "exit"}
Counted == {"map", "tuple", "array"}

ScalarsTyped ==
    /\ entry \in Entries /\ inspect \in Inspects
    /\ val \in NatValues
    /\ exc \in Causes
    /\ curFmt \in Fmt
    /\ outcome \in {"none", "ok", "excess", "error"}
    /\ (ctl \in {"finish", "report", "done"}) = (Len(frames) = 0)

IsStream(s) == /\ DOMAIN s = {"data", "pos", "seekable"}
               /\ s.data \in Seq(Byte) /\ s.pos \in Nat /\ s.seekable \in BOOLEAN

StreamsTyped == IsSeq(streams) /\ \A i \in 1..Len(streams) : IsStream(streams[i])

IsDict(d) == \A k \in DOMAIN d : k \in FieldNames /\ d[k] \in NatValues

ContextTyped ==
    /\ \A i \in 1..Len(dicts) : IsDict(dicts[i])
    /\ Len(parents) > 0 /\ \A i \in 1..Len(parents) : parents[i] \in 1..Len(dicts)
    /\ \A i \in 1..Len(path) : path[i] \in Keys

TreeTyped == IsSeq(nodes) /\ kidsOf \in 1..Len(nodes)

(* A frame counts no further than there are fields or items.               *)
Fit(F) ==
    /\ F.fmt \in Fmt
    /\ F.at \in Places
    /\ F.idx \in Nat /\ F.todo \in Int /\ F.pos0 \in Nat /\ F.saved \in Nat
    /\ Len(F.parents0) > 0
    /\ Node[F.fmt].kind \in {"map", "tuple"} => F.idx <= Len(Node[F.fmt].subs)
    /\ Node[F.fmt].kind = "map" /\ F.idx > 0 => F.item = Name(Node[F.fmt].keys[F.idx])
    /\ Node[F.fmt].kind = "tuple" => F.at = "enter"
    /\ Node[F.fmt].kind = "array" => F.at \in {"enter", "items", "greedy"}
    /\ Node[F.fmt].kind = "array" /\ F.at = "greedy" => Node[F.fmt].mode = "greedy"
    /\ Node[F.fmt].kind = "array" /\ F.at = "items" /\ Node[F.fmt].mode = "const" =>
          F.todo = Node[F.fmt].num /\ F.idx <= F.todo
    /\ Node[F.fmt].kind \in {"map", "array"} /\ F.at = "enter" => F.idx = 0

Within(F, ss, ns, ds) ==
    /\ F.strm \in 1..ss
    /\ F.outer \in 1..ns
    /\ inspect => F.node \in 1..ns
    /\ IsOpenMap(F) => F.dict \in 1..ds

(* What a frame that waits has called: the format it stands at, on its own *)
(* stream or on one of its making.                                         *)
Stepping(F) ==
    /\ Node[F.fmt].kind \notin LeafKinds
    /\ Node[F.fmt].kind = "map" => F.at = "loop" /\ F.idx \in DOMAIN Node[F.fmt].subs
    /\ Node[F.fmt].kind = "tuple" => F.idx + 1 \in DOMAIN Node[F.fmt].subs
    /\ Node[F.fmt].kind = "array" => \/ F.at = "items" /\ F.idx < F.todo
                                     \/ F.at = "greedy"
    /\ Node[F.fmt].kind = "pointer" => F.at \in {"offset", "inner"}

Called(F) ==
    IF Node[F.fmt].kind = "map" THEN Node[F.fmt].subs[F.idx]
    ELSE IF Node[F.fmt].kind = "tuple" THEN Node[F.fmt].subs[F.idx + 1]
    ELSE IF Node[F.fmt].kind = "pointer" /\ F.at = "inner" THEN Node[F.fmt].subs[2]
    ELSE Node[F.fmt].subs[1]

Framing == {"sized", "switch"}

Calls(F, G) ==
    /\ Stepping(F)
    /\ G.fmt = Called(F) \/ Node[F.fmt].kind = "switch"
    /\ IF Node[F.fmt].kind \in Framing THEN F.strm < G.strm ELSE F.strm = G.strm

FramesFit(stack, n, ss, ns, ds) ==
    /\ \A i \in 1..n : Fit(stack[i]) /\ Within(stack[i], ss, ns, ds)
    /\ \A j \in 1..n : \A i \in 1..j : stack[i].strm <= stack[j].strm
    /\ \A i \in 1..(n - 1) : Calls(stack[i], stack[i + 1])

StackTyped == FramesFit(frames, Len(frames), Len(streams), Len(nodes), Len(dicts))

(* What decodes a mapping, to be merged into another, returns one.         *)
MakesDict(f) == Node[f].kind = "map" \/ (Node[f].kind = "sized" /\ Node[f].flag)
HoldsDict(v) == v.t = "dict" /\ v.n \in 1..Len(dicts)

ReturnTyped ==
    /\ ctl = "leave" /\ MakesDict(Top.fmt) => HoldsDict(val)
    /\ ctl = "resume" => Stepping(Top)
    /\ ctl = "resume" /\ Node[Top.fmt].kind # "switch" /\ MakesDict(Called(Top)) => HoldsDict(val)

Typed == ScalarsTyped /\ StreamsTyped /\ ContextTyped /\ TreeTyped /\ StackTyped /\ ReturnTyped

-----------------------------------------------------------------------------
(* What is read from a stream.                                             *)
LEMMA LeftIsThere ==
    ASSUME NEW s, IsStream(s)
    PROVE  /\ Left(s) \in Nat
           /\ \A k \in 1..Left(s) : s.data[s.pos + k] \in Byte
           /\ s.pos + Left(s) <= Len(s.data) \/ Left(s) = 0
<1>1. s.data \in Seq(Byte) /\ s.pos \in Nat /\ Len(s.data) \in Nat
  BY LenProperties DEF IsStream
<1>2. Left(s) \in Nat /\ (s.pos + Left(s) <= Len(s.data) \/ Left(s) = 0)
  BY <1>1 DEF Left
<1>3. ASSUME NEW k \in 1..Left(s) PROVE s.data[s.pos + k] \in Byte
  <2>1. s.pos + k \in 1..Len(s.data)
    BY <1>1, <1>2
  <2> QED
    BY <1>1, <2>1, ElementOfSeq
<1> QED
  BY <1>2, <1>3

LEMMA TakenIsBytes ==
    ASSUME NEW s, IsStream(s), NEW j \in Nat, NEW k \in Nat, j + k <= Left(s)
    PROVE  LET piece == SubSeq(s.data, s.pos + j + 1, s.pos + j + k)
           IN  piece \in Seq(Byte) /\ Len(piece) = k
<1> DEFINE piece == SubSeq(s.data, s.pos + j + 1, s.pos + j + k)
<1>1. PICK p \in Nat : p = s.pos
  BY DEF IsStream
<1>2. ASSUME NEW i \in (p + j + 1)..(p + j + k) PROVE s.data[i] \in Byte
  <2>1. PICK h \in 1..Left(s) : i = p + h
    <3>1. i - p \in 1..Left(s) /\ i = p + (i - p)
      BY LeftIsThere
    <3> QED
      BY <3>1
  <2> QED
    BY <1>1, <2>1, LeftIsThere
<1>3. /\ SubSeq(s.data, p + j + 1, p + j + k) \in Seq(Byte)
      /\ Len(SubSeq(s.data, p + j + 1, p + j + k)) = IF p + j + 1 <= p + j + k
                                                     THEN (p + j + k) - (p + j + 1) + 1 ELSE 0
  <2>1. p + j + 1 \in Int /\ p + j + k \in Int
    OBVIOUS
  <2> QED
    BY <1>2, <2>1, SubSeqProperties
<1>4. (IF p + j + 1 <= p + j + k THEN (p + j + k) - (p + j + 1) + 1 ELSE 0) = k
  OBVIOUS
<1> QED
  BY <1>1, <1>3, <1>4

IsResult(r) == /\ r.ok \in BOOLEAN /\ r.used \in Nat
               /\ r.ok => r.val \in NatValues
               /\ ~r.ok => r.exc \in Causes \ {""}

LEMMA GotIsResult == ASSUME NEW k \in Nat, NEW v \in NatValues PROVE IsResult(Got(k, v))
  BY DEF IsResult, Got

LEMMA FailedIsResult == ASSUME NEW k \in Nat, NEW e \in Causes \ {""} PROVE IsResult(Failed(k, e))
  BY DEF IsResult, Failed

LEMMA FieldsOfResults ==
    /\ \A k, v : Got(k, v).ok = TRUE /\ Got(k, v).used = k /\ Got(k, v).val = v
    /\ \A k, e : Failed(k, e).ok = FALSE /\ Failed(k, e).used = k /\ Failed(k, e).exc = e
    /\ \A i : IntV(i).t = "int" /\ IntV(i).n = i
    /\ \A i : DictV(i).t = "dict" /\ DictV(i).n = i
  BY DEF Got, Failed, IntV, DictV

LEMMA ResultIsNat == ASSUME NEW r, IsResult(r), r.ok PROVE r.val.n \in Nat
  BY DEF IsResult, NatValues

LEMMA ValuesAreTyped ==
    /\ \A i \in Nat : /\ IntV(i) \in NatValues /\ DictV(i) \in NatValues
                       /\ RawV(i) \in NatValues /\ ListV(i) \in NatValues
    /\ NoneV \in NatValues
  BY DEF NatValues, IntV, DictV, RawV, ListV, NoneV

LEMMA ReadsExactly ==
    ASSUME NEW s, IsStream(s), NEW k \in Nat, NEW v, k <= Left(s) => v \in NatValues
    PROVE  LET r == ReadExactly(s, k, v)
           IN  IsResult(r) /\ (r.ok => r.used = k /\ r.val = v)
<1>1. Left(s) \in Nat
  BY LeftIsThere
<1>2. CASE k <= Left(s)
  BY <1>2, GotIsResult DEF ReadExactly, Got
<1>3. CASE ~(k <= Left(s))
  BY <1>1, <1>3, FailedIsResult DEF ReadExactly, Failed, Causes
<1> QED
  BY <1>2, <1>3

LEMMA UnsignedIsNat ==
    ASSUME NEW s, IsStream(s), NEW k \in {1, 2}, k <= Left(s)
    PROVE  Unsigned(Taken(s, k)) \in Nat
<1>1. PICK t : t = Taken(s, k)
  OBVIOUS
<1>2. t \in Seq(Byte) /\ Len(t) = k
  <2>1. LET piece == SubSeq(s.data, s.pos + 0 + 1, s.pos + 0 + k) IN piece \in Seq(Byte) /\ Len(piece) = k
    BY TakenIsBytes
  <2>2. s.pos + 0 + 1 = s.pos + 1 /\ s.pos + 0 + k = s.pos + k
    BY DEF IsStream
  <2> QED
    BY <1>1, <2>1, <2>2 DEF Taken
<1>3. \A i \in 1..k : t[i] \in Nat
  BY <1>2, ElementOfSeq, FormatAssumption
<1>4. Unsigned(t) \in Nat
  BY <1>2, <1>3 DEF Unsigned
<1> QED
  BY <1>1, <1>4

LEMMA ReadsUntil ==
    ASSUME NEW s, IsStream(s), NEW term, NEW max \in Nat
    PROVE  IsResult(ReadUntil(s, term, max))
<1> DEFINE hits == {i \in 1..Left(s) : s.data[s.pos + i] = term /\ (max > 0 => i - 1 <= max)}
           least == CHOOSE i \in hits : \A j \in hits : i <= j
<1>1. Left(s) \in Nat
  BY LeftIsThere
<1>2. CASE hits # {}
  <2>1. hits \subseteq Nat
    BY <1>1
  <2>2. \E i \in hits : \A j \in hits : i <= j
    <3> HIDE DEF hits
    <3> QED
      BY <1>2, <2>1, Least
  <2>3. least \in hits
    BY <2>2
  <2>4. least \in Nat /\ least - 1 \in Nat
    BY <1>1, <2>3
  <2>5. IsResult(Got(least, RawV(least - 1)))
    BY <2>4, ValuesAreTyped, GotIsResult
  <2> QED
    BY <1>2, <2>5 DEF ReadUntil
<1>3. CASE hits = {}
  <2>1. max + 2 \in Nat /\ {"Value", "EOF"} \subseteq Causes \ {""}
    BY DEF Causes
  <2>2. IsResult(Failed(max + 2, "Value")) /\ IsResult(Failed(Left(s), "EOF"))
    BY <1>1, <2>1, FailedIsResult
  <2> QED
    BY <1>3, <2>2 DEF ReadUntil
<1> QED
  BY <1>2, <1>3

(* The methods that call nothing back, and what they consume.              *)
LEMMA LeavesRead ==
    ASSUME NEW f \in Fmt, Node[f].kind \in LeafKinds, NEW s, IsStream(s)
    PROVE  LET r == LeafRead(Node[f], s)
           IN  IsResult(r) /\ (r.ok /\ Fixed(f) => r.used = SizeOf[f])
<1> DEFINE N == Node[f]
<1>1. /\ N.num \in Nat /\ N.align \in Nat
      /\ N.kind = "int" => N.num \in {1, 2}
  BY FormatAssumption
<1>2. Left(s) \in Nat
  BY LeftIsThere
<1>3. CASE N.kind = "int"
  <2>1. N.num <= Left(s) => IntV(Unsigned(Taken(s, N.num))) \in NatValues
    BY <1>1, <1>3, UnsignedIsNat, ValuesAreTyped
  <2>2. SizeOf[f] = N.num
    BY <1>3, SizesByKind
  <2>3. LeafRead(N, s) = ReadExactly(s, N.num, IntV(Unsigned(Taken(s, N.num))))
    BY <1>3 DEF LeafRead
  <2> QED
    BY <1>1, <2>1, <2>2, <2>3, ReadsExactly
<1>4. CASE N.kind = "bytes"
  <2>1. CASE N.mode = "greedy"
    <3>1. LeafRead(N, s) = Got(Left(s), RawV(Left(s)))
      BY <1>4, <2>1 DEF LeafRead
    <3>2. ~Fixed(f)
      BY <1>4, <2>1, SizesByKind DEF Fixed, Greedy
    <3> QED
      BY <1>2, <3>1, <3>2, GotIsResult, ValuesAreTyped
  <2>2. CASE N.mode # "greedy"
    <3>1. LeafRead(N, s) = ReadExactly(s, N.num, RawV(N.num))
      BY <1>4, <2>2 DEF LeafRead
    <3>2. SizeOf[f] = N.num
      BY <1>4, <2>2, SizesByKind
    <3> QED
      BY <1>1, <3>1, <3>2, ReadsExactly, ValuesAreTyped
  <2> QED
    BY <2>1, <2>2
<1>5. CASE N.kind = "literal"
  <2>1. SizeOf[f] = 1
    BY <1>5, SizesByKind
  <2>2. LeafRead(N, s) \in {Failed(1, "Value"), ReadExactly(s, 1, RawV(1))}
    BY <1>5 DEF LeafRead
  <2>3. IsResult(Failed(1, "Value")) /\ ~Failed(1, "Value").ok
    BY FailedIsResult DEF Failed, Causes
  <2>4. LET r == ReadExactly(s, 1, RawV(1)) IN IsResult(r) /\ (r.ok => r.used = 1)
    BY ReadsExactly, ValuesAreTyped
  <2> QED
    BY <2>1, <2>2, <2>3, <2>4
<1>6. CASE N.kind = "takeuntil"
  <2>1. ~Fixed(f)
    BY <1>6, SizesByKind DEF Fixed, Dynamic
  <2>2. LeafRead(N, s) = ReadUntil(s, N.num, N.align)
    BY <1>6 DEF LeafRead
  <2> QED
    BY <1>1, <2>1, <2>2, ReadsUntil
<1>7. CASE N.kind = "null"
  <2>1. LeafRead(N, s) = Got(0, NoneV) /\ SizeOf[f] = 0
    BY <1>7, SizesByKind DEF LeafRead
  <2>2. IsResult(Got(0, NoneV)) /\ Got(0, NoneV).used = 0
    BY GotIsResult, ValuesAreTyped DEF Got
  <2> QED
    BY <2>1, <2>2
<1> QED
  BY <1>3, <1>4, <1>5, <1>6, <1>7 DEF LeafKinds

(* A Ref finds a value or raises KeyError.                                 *)
LEMMA ResolvesTyped ==
    ASSUME ContextTyped, IsSeq(parents), NEW ref, ref.parent \in Nat
    PROVE  LET r == Resolve(ref) IN IsResult(r) /\ r.used = 0
<1> DEFINE d == dicts[parents[IF ref.parent = 0 THEN 1 ELSE Len(parents) - ref.parent + 1]]
<1>1. IsResult(Failed(0, "Key")) /\ Failed(0, "Key").used = 0
  BY FailedIsResult DEF Failed, Causes
<1>2. CASE ~(ref.parent > Len(parents)) /\ ref.key \in DOMAIN d
  <2>1. PICK i : i = (IF ref.parent = 0 THEN 1 ELSE Len(parents) - ref.parent + 1)
    OBVIOUS
  <2>2. i \in 1..Len(parents)
    BY <1>2, <2>1 DEF ContextTyped, IsSeq
  <2>3. IsDict(dicts[parents[i]])
    BY <2>2 DEF ContextTyped
  <2>4. d[ref.key] \in NatValues
    BY <1>2, <2>1, <2>3 DEF IsDict
  <2>5. IsResult(Got(0, d[ref.key])) /\ Got(0, d[ref.key]).used = 0
    BY <2>4, GotIsResult DEF Got
  <2> QED
    BY <1>2, <2>5 DEF Resolve
<1>3. CASE ~(~(ref.parent > Len(parents)) /\ ref.key \in DOMAIN d)
  <2>1. Resolve(ref) = Failed(0, "Key")
    BY <1>3 DEF Resolve
  <2> QED
    BY <1>1, <2>1
<1> QED
  BY <1>2, <1>3

(* The length of a Sized, then its frame.                                  *)
LEMMA LengthsTyped ==
    ASSUME ContextTyped, IsSeq(parents), NEW f \in Fmt, NEW s, IsStream(s)
    PROVE  LET r == SizedLength(Node[f], s)
           IN  IsResult(r) /\ (Node[f].mode = "const" => r = Got(0, IntV(Node[f].num)))
<1> DEFINE N == Node[f]
           sibling == Resolve(N.ref)
<1>1. N.num \in Nat /\ N.ref.parent \in Nat
  BY FormatAssumption
<1>2. Left(s) \in Nat
  BY LeftIsThere
<1>3. CASE N.mode = "const"
  BY <1>1, <1>3, GotIsResult, ValuesAreTyped DEF SizedLength
<1>4. CASE N.mode = "prefix"
  <2>1. 1 <= Left(s) => IntV(Unsigned(Taken(s, 1))) \in NatValues
    BY UnsignedIsNat, ValuesAreTyped
  <2>2. SizedLength(N, s) = ReadExactly(s, 1, IntV(Unsigned(Taken(s, 1))))
    BY <1>4 DEF SizedLength
  <2> QED
    BY <1>4, <2>1, <2>2, ReadsExactly
<1>5. CASE N.mode \notin {"const", "prefix"}
  <2>1. IsResult(sibling)
    BY <1>1, ResolvesTyped
  <2>2. IsResult(Failed(Left(s), "EOF")) /\ IsResult(Failed(0, "Type"))
    <3>1. {"Type", "EOF"} \subseteq Causes \ {""}
      BY DEF Causes
    <3> QED
      BY <1>2, <3>1, FailedIsResult
  <2>3. SizedLength(N, s) \in {sibling, Failed(Left(s), "EOF"), Failed(0, "Type")}
    BY <1>5 DEF SizedLength
  <2> QED
    BY <1>5, <2>1, <2>2, <2>3
<1> QED
  BY <1>3, <1>4, <1>5

LEMMA PaddingIsNat == ASSUME NEW f \in Fmt, NEW len \in Nat PROVE PadLen(Node[f], len) \in Nat
<1>1. PICK a \in Nat : a = Node[f].align
  BY FormatAssumption
<1>2. CASE a = 0
  BY <1>1, <1>2 DEF PadLen
<1>3. CASE a # 0
  <2>1. a \in Nat /\ a > 0
    BY <1>3
  <2>2. len % a \in Int
    BY <2>1
  <2>3. (a - (len % a)) % a \in Nat
    BY <2>1, <2>2
  <2> QED
    BY <1>1, <2>3 DEF PadLen
<1> QED
  BY <1>2, <1>3

LEMMA FramesTyped ==
    ASSUME ContextTyped, IsSeq(parents), NEW f \in Fmt, NEW s, IsStream(s)
    PROVE  LET length == SizedLength(Node[f], s)
               r == Frame(Node[f], s)
           IN  /\ IsResult(r) /\ IsResult(length)
               /\ r.ok => /\ length.ok
                          /\ r.val.n \in Nat
                          /\ Taken(Advance(s, length.used), r.val.n) \in Seq(Byte)
                          /\ Node[f].mode = "const" => r.used = Node[f].num
<1> DEFINE N == Node[f]
<1>1. PICK length : length = SizedLength(N, s)
  OBVIOUS
<1>2. IsResult(length) /\ (N.mode = "const" => length = Got(0, IntV(N.num)))
  BY <1>1, LengthsTyped
<1>3. CASE ~length.ok
  BY <1>1, <1>2, <1>3 DEF Frame
<1>4. CASE length.ok
  <2>1. PICK len \in Nat : len = length.val.n
    BY <1>2, <1>4, ResultIsNat
  <2>2. PICK pad \in Nat : pad = PadLen(N, len)
    BY PaddingIsNat
  <2>3. PICK used \in Nat : used = length.used
    BY <1>2 DEF IsResult
  <2>4. PICK total \in Nat : total = used + len + pad
    OBVIOUS
  <2>5. Frame(N, s) \in {Failed(Left(s), "EOF"), Failed(total, "Value")}
        \/ (total <= Left(s) /\ Frame(N, s) = Got(total, IntV(len)))
    <3>1. Left(s) \in Nat
      BY LeftIsThere
    <3>2. \/ total > Left(s) /\ Frame(N, s) = Failed(Left(s), "EOF")
          \/ ~(total > Left(s)) /\ Frame(N, s) \in {Failed(total, "Value"), Got(total, IntV(len))}
      BY <1>1, <1>4, <2>1, <2>2, <2>3, <2>4 DEF Frame
    <3> QED
      BY <3>1, <3>2
  <2>6. CASE Frame(N, s) \in {Failed(Left(s), "EOF"), Failed(total, "Value")}
    <3>1. {"Value", "EOF"} \subseteq Causes \ {""}
      BY DEF Causes
    <3>2. IsResult(Failed(Left(s), "EOF")) /\ IsResult(Failed(total, "Value"))
      BY <3>1, FailedIsResult, LeftIsThere
    <3>3. ~Frame(N, s).ok
      BY <2>6 DEF Failed
    <3> QED
      BY <1>1, <1>2, <2>6, <3>2, <3>3
  <2>7. CASE total <= Left(s) /\ Frame(N, s) = Got(total, IntV(len))
    <3>1. IsResult(Frame(N, s)) /\ Frame(N, s).val.n = len /\ Frame(N, s).used = total
      <4>1. IsResult(Got(total, IntV(len)))
        BY GotIsResult, ValuesAreTyped
      <4> QED
        BY <2>7, <4>1, FieldsOfResults
    <3>2. Taken(Advance(s, used), len) \in Seq(Byte)
      <4>1. used + len <= Left(s)
        BY <2>4, <2>7, LeftIsThere
      <4>2. SubSeq(s.data, s.pos + used + 1, s.pos + used + len) \in Seq(Byte)
        BY <4>1, TakenIsBytes
      <4>3. Advance(s, used).data = s.data /\ Advance(s, used).pos = s.pos + used
        BY DEF Advance, IsStream
      <4> QED
        BY <4>2, <4>3 DEF Taken
    <3>3. N.mode = "const" => total = N.num
      <4>1. N.mode = "const" => used = 0 /\ len = N.num
        BY <1>2, <2>1, <2>3, FieldsOfResults
      <4>2. N.mode = "const" => pad = 0
        BY <2>2 DEF PadLen
      <4> QED
        BY <2>4, <4>1, <4>2
    <3> QED
      BY <1>1, <1>2, <1>4, <2>3, <3>1, <3>2, <3>3
  <2> QED
    BY <2>5, <2>6, <2>7
<1> QED
  BY <1>3, <1>4

(* The elements of an array: counted, or a failure to count.  A greedy     *)
(* array that does not loop has elements of a size.                        *)
LEMMA CountsTyped ==
    ASSUME ContextTyped, IsSeq(parents), NEW f \in Fmt, Node[f].kind = "array", NEW s, IsStream(s),
           IsFast(Node[f]) \/ Node[f].mode # "greedy" \/ ~s.seekable \/ SizeOf[Node[f].subs[1]] >= 0
    PROVE  LET c == Count(Node[f], s)
           IN  /\ c.ok \in BOOLEAN /\ c.used \in Nat
               /\ c.ok => c.val.n \in Int
               /\ ~c.ok => IsResult(c)
               /\ Node[f].mode = "const" => c = Got(0, IntV(Node[f].num))
<1> DEFINE N == Node[f]
           size == SizeOf[N.subs[1]]
           Fine(c) == /\ c.ok \in BOOLEAN /\ c.used \in Nat
                      /\ c.ok => c.val.n \in Int
                      /\ ~c.ok => IsResult(c)
<1>1. N.num \in Nat /\ N.ref.parent \in Nat /\ N.subs[1] \in Fmt
  BY FormatAssumption, SubsAreFormats DEF WrapKinds
<1>2. size \in Int /\ (IsFast(N) => size > 0)
  <2>1. IsFast(N) => size \in {1, 2}
    BY <1>1, SizesByKind, FormatAssumption DEF IsFast
  <2> QED
    BY <1>1, <2>1, SizesAreInts
<1>3. ASSUME NEW r, IsResult(r) PROVE Fine(r)
  <2>1. r.ok => r.val.n \in Int
    BY <1>3, ResultIsNat
  <2> QED
    BY <1>3, <2>1 DEF IsResult
<1>4. IsResult(Failed(0, "Type")) /\ IsResult(Failed(0, "ZeroDivision"))
  <2>1. {"Type", "ZeroDivision"} \subseteq Causes \ {""}
    BY DEF Causes
  <2> QED
    BY <2>1, FailedIsResult
<1>5. ASSUME NEW i \in Int PROVE Fine(Got(0, IntV(i)))
  <2>1. Got(0, IntV(i)).ok /\ Got(0, IntV(i)).ok \in BOOLEAN
    BY DEF Got
  <2>2. Got(0, IntV(i)).used = 0 /\ Got(0, IntV(i)).val.n = i
    BY FieldsOfResults
  <2> QED
    BY <2>1, <2>2
<1>6. ASSUME s.seekable => size >= 0 PROVE Fine(CountToEnd(s, size))
  <2>1. CASE ~s.seekable \/ size = 0
    <3>1. CountToEnd(s, size) \in {Failed(0, "Type"), Failed(0, "ZeroDivision")}
      BY <2>1 DEF CountToEnd
    <3> QED
      BY <1>3, <1>4, <3>1
  <2>2. CASE s.seekable /\ size # 0
    <3>1. PICK k \in Int : k = Remaining(s)
      BY LenProperties DEF Remaining, IsStream
    <3>2. size \in Nat /\ size > 0
      BY <1>2, <1>6, <2>2
    <3>3. k \div size \in Int
      BY <3>2
    <3>4. CountToEnd(s, size) = Got(0, IntV(k \div size))
      BY <2>2, <3>1 DEF CountToEnd
    <3> QED
      BY <1>5, <3>3, <3>4
  <2> QED
    BY <2>1, <2>2
<1>7. CASE N.mode = "const"
  <2>1. Count(N, s) = Got(0, IntV(N.num))
    BY <1>7 DEF Count
  <2> QED
    BY <1>1, <1>7, <1>5, <2>1
<1>8. CASE N.mode = "prefix"
  <2>1. 1 <= Left(s) => IntV(Unsigned(Taken(s, 1))) \in NatValues
    BY UnsignedIsNat, ValuesAreTyped
  <2>2. Count(N, s) = ReadExactly(s, 1, IntV(Unsigned(Taken(s, 1))))
    BY <1>8 DEF Count
  <2>3. IsResult(Count(N, s))
    BY <2>1, <2>2, ReadsExactly
  <2> QED
    BY <1>3, <1>8, <2>3
<1>9. CASE N.mode = "greedy"
  <2>1. s.seekable => size >= 0
    BY <1>2, <1>9
  <2>2. Count(N, s) = CountToEnd(s, size)
    BY <1>9 DEF Count
  <2> QED
    BY <1>6, <1>9, <2>1, <2>2
<1>10. CASE N.mode \notin {"const", "prefix", "greedy"}
  <2> DEFINE sibling == Resolve(N.ref)
  <2>1. IsResult(sibling)
    BY <1>1, ResolvesTyped
  <2>2. \/ Count(N, s) \in {sibling, Failed(0, "Type")}
        \/ IsFast(N) /\ Count(N, s) = CountToEnd(s, size)
    BY <1>10 DEF Count
  <2>3. IsFast(N) => Fine(CountToEnd(s, size))
    BY <1>2, <1>6
  <2>4. Fine(Count(N, s))
    BY <1>3, <1>4, <2>1, <2>2, <2>3
  <2> QED
    BY <1>10, <2>4
<1> QED
  BY <1>7, <1>8, <1>9, <1>10

LEMMA ProductIsNat == ASSUME NEW a \in Nat, NEW b \in Nat PROVE a * b \in Nat
  OBVIOUS

LEMMA NumbersRead ==
    ASSUME NEW s, IsStream(s), NEW count \in Int, NEW size \in Nat
    PROVE  LET r == FromFile(s, count, size) IN IsResult(r) /\ (r.ok => r.used = count * size)
<1>1. CASE count < 0
  <2>1. IsResult(Failed(0, "Value")) /\ ~Failed(0, "Value").ok
    BY FailedIsResult DEF Failed, Causes
  <2> QED
    BY <1>1, <2>1 DEF FromFile
<1>2. CASE ~(count < 0)
  <2>1. count \in Nat /\ count * size \in Nat
    BY <1>2, ProductIsNat
  <2>2. LET r == ReadExactly(s, count * size, ListV(count))
        IN  IsResult(r) /\ (r.ok => r.used = count * size)
    BY <2>1, ReadsExactly, ValuesAreTyped
  <2>3. IsResult(Failed(Left(s), "Value")) /\ ~Failed(Left(s), "Value").ok
    BY LeftIsThere, FailedIsResult DEF Failed, Causes
  <2> QED
    BY <1>2, <2>2, <2>3 DEF FromFile
<1> QED
  BY <1>1, <1>2

-----------------------------------------------------------------------------
(* The call stack keeps its shape when a frame changes, ends or calls.     *)
Sizable == Len(streams) \in Nat /\ Len(nodes) \in Nat /\ Len(dicts) \in Nat

LEMMA LengthsAreNat == ASSUME Inv, Typed PROVE Sizable /\ Len(frames) \in Nat
  BY DEF Inv, Shape, Typed, StreamsTyped, TreeTyped, IsSeq, Sizable

LEMMA WithinMore ==
    ASSUME NEW F, NEW ss \in Nat, NEW ns \in Nat, NEW ds \in Nat, Within(F, ss, ns, ds),
           NEW tt \in Nat, NEW ms \in Nat, NEW es \in Nat, F.strm <= tt, ns <= ms, ds <= es
    PROVE  Within(F, tt, ms, es)
  BY DEF Within

LEMMA StayStack ==
    ASSUME Inv, Typed, Len(frames) > 0,
           NEW F, Fit(F), F.fmt = Top.fmt, F.strm = Top.strm,
           NEW ss \in Nat, NEW ns \in Nat, NEW ds \in Nat,
           ss = Len(streams'), ns = Len(nodes'), ds = Len(dicts'),
           Len(streams) <= ss, Len(nodes) <= ns, Len(dicts) <= ds,
           Within(F, ss, ns, ds),
           frames' = WithTop(F), UNCHANGED inspect
    PROVE  StackTyped'
<1>1. PICK n \in Nat : n = Len(frames) /\ n > 0
  BY LengthsAreNat
<1>2. /\ Len(frames') = n /\ frames'[n] = F
      /\ \A i \in 1..(n - 1) : frames'[i] = frames[i]
  BY <1>1, WithTopSeq DEF Inv, Shape
<1>3. \A i \in 1..n : frames'[i].strm = frames[i].strm /\ frames'[i].fmt = frames[i].fmt
  BY <1>1, <1>2 DEF Top
<1>4. ASSUME NEW i \in 1..n PROVE Fit(frames'[i]) /\ Within(frames'[i], ss, ns, ds)
  <2>1. CASE i = n
    BY <1>2, <2>1
  <2>2. CASE i \in 1..(n - 1)
    <3>1. Fit(frames[i]) /\ Within(frames[i], Len(streams), Len(nodes), Len(dicts))
      BY <1>1, <2>2 DEF Typed, StackTyped, FramesFit
    <3>2. frames[i].strm <= ss
      BY <3>1, LengthsAreNat DEF Within, Sizable
    <3>3. Within(frames[i], ss, ns, ds)
      BY <3>1, <3>2, WithinMore, LengthsAreNat DEF Sizable
    <3> QED
      BY <1>2, <2>2, <3>1, <3>3
  <2> QED
    BY <1>1, <2>1, <2>2
<1>5. \A j \in 1..n : \A i \in 1..j : frames'[i].strm <= frames'[j].strm
  <2> TAKE j \in 1..n
  <2> TAKE i \in 1..j
  <2>1. i \in 1..n /\ frames[i].strm <= frames[j].strm
    BY <1>1 DEF Typed, StackTyped, FramesFit
  <2> QED
    BY <1>3, <2>1
<1>6. ASSUME NEW i \in 1..(n - 1) PROVE Calls(frames'[i], frames'[i + 1])
  <2>1. Calls(frames[i], frames[i + 1])
    BY <1>1 DEF Typed, StackTyped, FramesFit
  <2>2. /\ i + 1 \in 1..n /\ frames'[i] = frames[i]
        /\ frames'[i + 1].strm = frames[i + 1].strm /\ frames'[i + 1].fmt = frames[i + 1].fmt
    BY <1>2, <1>3
  <2> QED
    BY <2>1, <2>2 DEF Calls
<1> QED
  BY <1>2, <1>4, <1>5, <1>6 DEF StackTyped, FramesFit, Within

LEMMA PopStack ==
    ASSUME Inv, Typed, Len(frames) > 0,
           NEW ns \in Nat, NEW ds \in Nat,
           Len(streams') = Top.strm, ns = Len(nodes'), ds = Len(dicts'),
           Len(nodes) <= ns, Len(dicts) <= ds,
           frames' = Under(frames), UNCHANGED inspect
    PROVE  StackTyped'
<1>1. PICK n \in Nat : n = Len(frames) /\ n > 0
  BY LengthsAreNat
<1>2. Len(frames') = n - 1 /\ \A i \in 1..(n - 1) : frames'[i] = frames[i]
  BY <1>1, UnderSeq DEF Inv, Shape
<1>3. PICK ss \in Nat : ss = Len(streams') /\ ss = frames[n].strm
  BY <1>1 DEF Typed, StackTyped, FramesFit, Within, Top
<1>4. ASSUME NEW i \in 1..(n - 1) PROVE Fit(frames'[i]) /\ Within(frames'[i], ss, ns, ds)
  <2>1. Fit(frames[i]) /\ Within(frames[i], Len(streams), Len(nodes), Len(dicts))
    BY <1>1 DEF Typed, StackTyped, FramesFit
  <2>2. frames[i].strm <= ss
    BY <1>1, <1>3 DEF Typed, StackTyped, FramesFit
  <2>3. Within(frames[i], ss, ns, ds)
    BY <2>1, <2>2, WithinMore, LengthsAreNat DEF Sizable
  <2> QED
    BY <1>2, <2>1, <2>3
<1>5. \A j \in 1..(n - 1) : \A i \in 1..j : frames'[i].strm <= frames'[j].strm
  <2> TAKE j \in 1..(n - 1)
  <2> TAKE i \in 1..j
  <2>1. i \in 1..(n - 1) /\ frames[i].strm <= frames[j].strm
    BY <1>1 DEF Typed, StackTyped, FramesFit
  <2> QED
    BY <1>2, <2>1
<1>6. ASSUME NEW i \in 1..(n - 2) PROVE Calls(frames'[i], frames'[i + 1])
  <2>1. Calls(frames[i], frames[i + 1])
    BY <1>1 DEF Typed, StackTyped, FramesFit
  <2>2. i \in 1..(n - 1) /\ i + 1 \in 1..(n - 1)
    BY <1>1
  <2> QED
    BY <1>2, <2>1, <2>2
<1>7. Len(frames') - 1 = n - 2
  BY <1>1, <1>2
<1> QED
  BY <1>2, <1>3, <1>4, <1>5, <1>6, <1>7 DEF StackTyped, FramesFit, Within

LEMMA FramesMore ==
    ASSUME NEW st, NEW new, NEW n \in Nat, n > 0,
           NEW so \in Nat, NEW no \in Nat, NEW do \in Nat, FramesFit(st, n, so, no, do),
           NEW ss \in Nat, NEW ns \in Nat, NEW ds \in Nat, so <= ss, no <= ns, do <= ds,
           NEW F, Fit(F), F.fmt = st[n].fmt, F.strm = st[n].strm, Within(F, ss, ns, ds),
           NEW G, Fit(G), Calls(F, G), Within(G, ss, ns, ds),
           new[n] = F, new[n + 1] = G, \A i \in 1..(n - 1) : new[i] = st[i]
    PROVE  FramesFit(new, n + 1, ss, ns, ds)
<1>1. \A i \in 1..n : new[i].strm = st[i].strm /\ new[i].fmt = st[i].fmt
  OBVIOUS
<1>2. ASSUME NEW i \in 1..(n + 1) PROVE Fit(new[i]) /\ Within(new[i], ss, ns, ds)
  <2>1. CASE i = n \/ i = n + 1
    BY <2>1
  <2>2. CASE i \in 1..(n - 1)
    <3>1. Fit(st[i]) /\ Within(st[i], so, no, do)
      BY <2>2 DEF FramesFit
    <3>2. st[i].strm <= ss
      BY <3>1 DEF Within
    <3>3. Within(st[i], ss, ns, ds)
      BY <3>1, <3>2, WithinMore
    <3> QED
      BY <2>2, <3>1, <3>3
  <2> QED
    BY <2>1, <2>2
<1>3. \A i \in 1..n : st[i].strm <= st[n].strm /\ st[i].strm \in Int
  BY DEF FramesFit, Within
<1>4. F.strm <= G.strm /\ G.strm \in Int
  BY <1>3 DEF Calls, Within
<1>5. \A j \in 1..(n + 1) : \A i \in 1..j : new[i].strm <= new[j].strm
  <2> TAKE j \in 1..(n + 1)
  <2> TAKE i \in 1..j
  <2>1. CASE j \in 1..n
    <3>1. i \in 1..n /\ st[i].strm <= st[j].strm
      BY <2>1 DEF FramesFit
    <3> QED
      BY <1>1, <2>1, <3>1
  <2>2. CASE j = n + 1 /\ i = n + 1
    BY <1>4, <2>2
  <2>3. CASE j = n + 1 /\ i \in 1..n
    BY <1>1, <1>3, <1>4, <2>3
  <2> QED
    BY <2>1, <2>2, <2>3
<1>6. ASSUME NEW i \in 1..n PROVE Calls(new[i], new[i + 1])
  <2>1. CASE i = n
    BY <2>1
  <2>2. CASE i \in 1..(n - 1)
    <3>1. Calls(st[i], st[i + 1])
      BY <2>2 DEF FramesFit
    <3>2. /\ i + 1 \in 1..n /\ new[i] = st[i]
          /\ new[i + 1].strm = st[i + 1].strm /\ new[i + 1].fmt = st[i + 1].fmt
      BY <1>1, <2>2
    <3> QED
      BY <3>1, <3>2 DEF Calls
  <2> QED
    BY <2>1, <2>2
<1>7. n + 1 - 1 = n
  OBVIOUS
<1> QED
  BY <1>2, <1>5, <1>6, <1>7 DEF FramesFit

LEMMA PushStack ==
    ASSUME Inv, Typed, Len(frames) > 0,
           NEW F, Fit(F), F.fmt = Top.fmt, F.strm = Top.strm,
           NEW G, Fit(G), Calls(F, G),
           NEW ss \in Nat, NEW ns \in Nat, NEW ds \in Nat,
           ss = Len(streams'), ns = Len(nodes'), ds = Len(dicts'),
           Len(streams) <= ss, Len(nodes) <= ns, Len(dicts) <= ds,
           Within(F, ss, ns, ds), Within(G, ss, ns, ds),
           frames' = Append(WithTop(F), G), UNCHANGED inspect
    PROVE  StackTyped'
<1>1. PICK n \in Nat : n = Len(frames) /\ n > 0
  BY LengthsAreNat
<1>2. /\ IsSeq(WithTop(F)) /\ Len(WithTop(F)) = n /\ WithTop(F)[n] = F
      /\ \A i \in 1..(n - 1) : WithTop(F)[i] = frames[i]
  BY <1>1, WithTopSeq DEF Inv, Shape
<1>3. /\ Len(frames') = n + 1 /\ frames'[n + 1] = G
      /\ \A i \in 1..n : frames'[i] = WithTop(F)[i]
  BY <1>2, AppendSeq
<1>4. PICK st : st = frames
  OBVIOUS
<1>5. PICK new : new = frames'
  OBVIOUS
<1>6. new[n] = F /\ new[n + 1] = G /\ \A i \in 1..(n - 1) : new[i] = st[i]
  BY <1>1, <1>2, <1>3, <1>4, <1>5
<1>7. /\ FramesFit(st, n, Len(streams), Len(nodes), Len(dicts))
      /\ F.fmt = st[n].fmt /\ F.strm = st[n].strm
  BY <1>1, <1>4 DEF Typed, StackTyped, Top
<1>8. FramesFit(new, n + 1, ss, ns, ds)
  BY <1>1, <1>6, <1>7, FramesMore, LengthsAreNat DEF Sizable
<1>9. FramesFit(frames', Len(frames'), Len(streams'), Len(nodes'), Len(dicts'))
  BY <1>3, <1>5, <1>8
<1> QED
  BY <1>9 DEF StackTyped, FramesFit, Within

(* What the invariant says of the running frame.                           *)
LEMMA TopTyped ==
    ASSUME Inv, Typed, Len(frames) > 0
    PROVE  /\ Fit(Top) /\ Within(Top, Len(streams), Len(nodes), Len(dicts))
           /\ IsStream(TopStream)
           /\ Top.fmt \in Fmt
           /\ Top.strm \in 1..Len(streams)
<1>1. PICK n \in Nat : n = Len(frames) /\ n > 0
  BY LengthsAreNat
<1>2. Fit(Top) /\ Within(Top, Len(streams), Len(nodes), Len(dicts))
  BY <1>1 DEF Typed, StackTyped, FramesFit, Top
<1>3. Top.strm \in 1..Len(streams) /\ Top.fmt \in Fmt
  BY <1>2 DEF Fit, Within
<1>4. IsStream(TopStream)
  BY <1>3 DEF Typed, StreamsTyped, TopStream
<1> QED
  BY <1>2, <1>3, <1>4

(* Bytes read, or another position.                                        *)
PutStream(j, x) == [streams EXCEPT ![j] = x]

LEMMA StreamChanges ==
    ASSUME StreamsTyped, NEW j \in 1..Len(streams), NEW x, IsStream(x)
    PROVE  /\ IsSeq(PutStream(j, x)) /\ Len(PutStream(j, x)) = Len(streams)
           /\ \A i \in 1..Len(streams) : IsStream(PutStream(j, x)[i])
           /\ \A i \in 1..Len(streams) : PutStream(j, x)[i] = IF i = j THEN x ELSE streams[i]
<1>1. PICK n \in Nat : n = Len(streams) /\ streams = [i \in 1..n |-> streams[i]]
  BY DEF StreamsTyped, IsSeq
<1>2. PICK t : t = PutStream(j, x)
  OBVIOUS
<1>3. \A i \in 1..n : t[i] = IF i = j THEN x ELSE streams[i]
  BY <1>1, <1>2 DEF PutStream
<1>4. t = [i \in 1..n |-> t[i]]
  BY <1>1, <1>2 DEF PutStream
<1>5. IsSeq(t) /\ Len(t) = n
  BY <1>4, IsSeqIntro
<1>6. \A i \in 1..n : IsStream(streams[i])
  BY <1>1 DEF StreamsTyped
<1> QED
  BY <1>1, <1>2, <1>3, <1>5, <1>6

LEMMA AdvanceTyped == ASSUME NEW s, IsStream(s), NEW k \in Nat PROVE IsStream(Advance(s, k))
  BY DEF IsStream, Advance

LEMMA SeekTyped == ASSUME NEW s, IsStream(s), NEW p \in Nat PROVE IsStream(Seek(s, p))
  BY DEF IsStream, Seek

(* What a step may do to the rest of the state without a call or a return. *)
Aside == /\ UNCHANGED config
         /\ StreamsTyped' /\ Len(streams') = Len(streams)
         /\ ContextTyped' /\ Len(dicts') >= Len(dicts) /\ Len(dicts') \in Nat
         /\ TreeTyped' /\ Len(nodes') >= Len(nodes)
         /\ UNCHANGED <<curFmt, outcome>>

LEMMA StayTyped ==
    ASSUME Inv, Typed, Len(frames) > 0, Aside,
           NEW F, Fit(F), F.fmt = Top.fmt, F.strm = Top.strm,
           Within(F, Len(streams'), Len(nodes'), Len(dicts')),
           frames' = WithTop(F), ctl' \in Busy, val' \in NatValues, exc' \in Causes,
           ReturnTyped'
    PROVE  Typed'
<1>1. Sizable /\ Len(nodes') \in Nat /\ Len(dicts') \in Nat /\ UNCHANGED inspect
  BY LengthsAreNat DEF Aside, TreeTyped, IsSeq, config
<1>2. StackTyped'
  BY <1>1, StayStack DEF Aside, Sizable
<1>3. Len(frames') # 0
  BY WithTopSeq DEF Inv, Shape, IsSeq
<1>4. ScalarsTyped'
  BY <1>3 DEF Typed, ScalarsTyped, Aside, config, Busy
<1> QED
  BY <1>2, <1>4 DEF Typed, Aside

(* A frame that differs from the running one in its counters.              *)
Recounts(F) == /\ Fit(F)
               /\ F.fmt = Top.fmt /\ F.strm = Top.strm /\ F.outer = Top.outer /\ F.node = Top.node
               /\ IsOpenMap(F) => IsOpenMap(Top) /\ F.dict = Top.dict

LEMMA RecountsWithin ==
    ASSUME Inv, Typed, Len(frames) > 0, NEW F, Recounts(F),
           NEW ss \in Nat, NEW ns \in Nat, NEW ds \in Nat,
           Len(streams) <= ss, Len(nodes) <= ns, Len(dicts) <= ds
    PROVE  Within(F, ss, ns, ds)
<1>1. Within(F, Len(streams), Len(nodes), Len(dicts))
  BY TopTyped DEF Recounts, Within
<1>2. F.strm <= ss
  BY <1>1, LengthsAreNat DEF Within, Sizable
<1> QED
  BY <1>1, <1>2, WithinMore, LengthsAreNat DEF Sizable

LEMMA TopRecounts == ASSUME Inv, Typed, Len(frames) > 0 PROVE Recounts(Top) /\ WithTop(Top) = frames
  BY TopTyped, TopFacts DEF Recounts

LEMMA ReturnTypes ==
    ASSUME Inv, Typed, Len(frames) > 0, Aside, NEW F, Recounts(F), NEW v \in NatValues, Return(F, v),
           MakesDict(F.fmt) => v.t = "dict" /\ v.n \in 1..Len(dicts')
    PROVE  Typed'
<1>1. Within(F, Len(streams'), Len(nodes'), Len(dicts'))
  BY RecountsWithin, LengthsAreNat DEF Aside, TreeTyped, IsSeq, Sizable
<1>2. Top' = F
  BY WithTopSeq DEF Return, Top, Inv, Shape
<1>3. ReturnTyped'
  BY <1>2 DEF ReturnTyped, HoldsDict, Return
<1>4. exc' \in Causes /\ ctl' \in Busy
  BY DEF Return, Busy, Typed, ScalarsTyped
<1> QED
  BY <1>1, <1>3, <1>4, StayTyped DEF Return, Recounts

LEMMA RaiseTypes ==
    ASSUME Inv, Typed, Len(frames) > 0, Aside, NEW e \in Causes, Raise(e)
    PROVE  Typed'
<1>1. Within(Top, Len(streams'), Len(nodes'), Len(dicts'))
  BY TopRecounts, RecountsWithin, LengthsAreNat DEF Aside, TreeTyped, IsSeq, Sizable
<1>2. ReturnTyped'
  BY DEF ReturnTyped, Raise
<1>3. exc' \in Causes /\ ctl' \in Busy /\ val' \in NatValues
  BY DEF Raise, Busy, Typed, ScalarsTyped
<1>4. frames' = WithTop(Top)
  BY TopRecounts DEF Raise
<1> QED
  BY <1>1, <1>2, <1>3, <1>4, StayTyped, TopTyped

LEMMA DeliverTypes ==
    ASSUME Inv, Typed, Len(frames) > 0, NEW r, IsResult(r), r.ok => ~MakesDict(Top.fmt), Deliver(r),
           UNCHANGED <<config, dicts, parents, path, curFmt, outcome>>,
           TreeTyped', Len(nodes') >= Len(nodes)
    PROVE  Typed'
<1>1. streams' = PutStream(Top.strm, Advance(TopStream, r.used))
  BY DEF Deliver, TopStream, PutStream
<1>2. IsStream(Advance(TopStream, r.used))
  BY TopTyped, AdvanceTyped DEF IsResult
<1>3. IsSeq(streams') /\ Len(streams') = Len(streams) /\ \A i \in 1..Len(streams) : IsStream(streams'[i])
  BY <1>1, <1>2, TopTyped, StreamChanges DEF Typed
<1>4. Aside
  <2>1. ContextTyped'
    BY DEF Typed, ContextTyped
  <2>2. Len(dicts') >= Len(dicts) /\ Len(dicts') \in Nat
    BY LengthsAreNat DEF Sizable
  <2> QED
    BY <1>3, <2>1, <2>2 DEF Aside, StreamsTyped
<1>5. CASE r.ok
  BY <1>4, <1>5, TopRecounts, ReturnTypes DEF Deliver, IsResult
<1>6. CASE ~r.ok
  BY <1>4, <1>6, RaiseTypes DEF Deliver, IsResult
<1> QED
  BY <1>5, <1>6

LEMMA CallTypes ==
    ASSUME Inv, Typed, Len(frames) > 0, NEW F, Recounts(F), Stepping(F),
           NEW f \in Fmt, f = Called(F) \/ Node[F.fmt].kind = "switch",
           NEW key,
           NEW ss, IsSeq(ss), Len(ss) >= Len(streams), \A i \in 1..Len(ss) : IsStream(ss[i]),
           NEW s \in 1..Len(ss), IF Node[F.fmt].kind \in Framing THEN Top.strm < s ELSE s = Top.strm,
           NEW pa, \A i \in 1..Len(pa) : pa[i] \in Keys,
           NEW ns, IsSeq(ns), Len(ns) >= Len(nodes),
           Call(F, f, key, s, ss, pa, ns)
    PROVE  Typed'
<1>1. Sizable /\ Len(ss) \in Nat /\ Len(ns) \in Nat
  BY LengthsAreNat DEF IsSeq
<1>2. /\ StreamsTyped' /\ Len(streams') = Len(ss)
      /\ ContextTyped' /\ Len(dicts') = Len(dicts)
      /\ UNCHANGED <<entry, inspect, val, dicts, parents, outcome>>
  BY DEF Call, StreamsTyped, ContextTyped, Typed, config, result
<1>3. CASE Len(frames) = MaxDepth
  <2>1. /\ frames' = WithTop(F) /\ ctl' = "raise" /\ exc' = "Recursion"
        /\ nodes' = ns /\ UNCHANGED <<curFmt, kidsOf>>
    BY <1>3 DEF Call
  <2>2. TreeTyped'
    BY <1>1, <2>1 DEF TreeTyped, Typed, Sizable
  <2>3. Within(F, Len(streams'), Len(nodes'), Len(dicts'))
    BY <1>1, <1>2, <2>1, RecountsWithin DEF Sizable
  <2>4. StackTyped'
    BY <1>1, <1>2, <2>1, <2>3, StayStack DEF Recounts, Sizable
  <2>5. Len(frames') # 0
    BY <2>1, WithTopSeq DEF Inv, Shape, IsSeq
  <2>6. ScalarsTyped'
    <3>1. "Recursion" \in Causes
      BY DEF Causes
    <3> QED
      BY <1>2, <2>1, <2>5, <3>1 DEF Typed, ScalarsTyped
  <2>7. ReturnTyped'
    BY <2>1 DEF ReturnTyped
  <2> QED
    BY <1>2, <2>2, <2>4, <2>6, <2>7 DEF Typed
<1>4. CASE Len(frames) # MaxDepth
  <2> DEFINE G == NewFrame(f, key, s, ss[s].pos, Len(ns) + 1, kidsOf, parents, pa)
             opened == IF inspect THEN Append(ns, NewNode(key, f, ss[s].pos)) ELSE ns
  <2>1. /\ frames' = Append(WithTop(F), G) /\ ctl' = "run" /\ curFmt' = f
        /\ nodes' = opened
        /\ kidsOf' = (IF inspect THEN Len(ns) + 1 ELSE kidsOf)
        /\ UNCHANGED exc
    BY <1>4 DEF Call
  <2>2. IsSeq(opened) /\ Len(opened) = (IF inspect THEN Len(ns) + 1 ELSE Len(ns))
    BY AppendSeq
  <2>3. kidsOf \in 1..Len(nodes)
    BY DEF Typed, TreeTyped
  <2>4. TreeTyped'
    BY <1>1, <2>1, <2>2, <2>3 DEF TreeTyped, Sizable
  <2>5. G.fmt = f /\ G.strm = s /\ G.at = "enter" /\ G.outer = kidsOf /\ G.node = Len(ns) + 1
    BY DEF NewFrame
  <2>6. Fit(G)
    <3>1. /\ G.idx = 0 /\ G.todo = 0 /\ G.pos0 = ss[s].pos /\ G.saved = 0
          /\ G.parents0 = parents
      BY DEF NewFrame
    <3>3. ss[s].pos \in Nat
      BY DEF IsStream
    <3>4. Len(parents) > 0
      BY DEF Typed, ContextTyped
    <3>5. 0 <= Len(Node[f].subs)
      BY FormatAssumption, LenProperties
    <3> HIDE DEF G
    <3> QED
      BY <2>5, <3>1, <3>3, <3>4, <3>5 DEF Fit, Places
  <2>7. Calls(F, G)
    <3> HIDE DEF G
    <3> QED
      BY <2>5 DEF Calls, Recounts
  <2>8. Len(nodes') \in Nat /\ Len(ns) <= Len(nodes')
    BY <1>1, <2>1, <2>2
  <2>9. Within(F, Len(streams'), Len(nodes'), Len(dicts'))
    BY <1>1, <1>2, <2>8, RecountsWithin DEF Sizable
  <2>10. Within(G, Len(streams'), Len(nodes'), Len(dicts'))
    <3>1. ~IsOpenMap(G)
      BY <2>5 DEF IsOpenMap
    <3>2. Len(ns) + 1 \in 1..(Len(ns) + 1)
      BY <1>1
    <3> HIDE DEF G
    <3> QED
      BY <1>1, <1>2, <2>1, <2>2, <2>3, <2>5, <2>8, <3>1, <3>2 DEF Within, Sizable
  <2>11. StackTyped'
    <3> HIDE DEF G
    <3> QED
      BY <1>1, <1>2, <2>1, <2>6, <2>7, <2>8, <2>9, <2>10, PushStack DEF Recounts, Sizable
  <2>12. Len(frames') # 0
    <3>1. IsSeq(WithTop(F)) /\ Len(WithTop(F)) = Len(frames) /\ Len(frames) \in Nat
      BY WithTopSeq, LengthsAreNat DEF Inv, Shape
    <3>2. Len(frames') = Len(frames) + 1
      BY <2>1, <3>1, AppendSeq
    <3> QED
      BY <3>1, <3>2
  <2>13. ScalarsTyped'
    BY <1>2, <2>1, <2>12 DEF Typed, ScalarsTyped
  <2>14. ReturnTyped'
    BY <2>1 DEF ReturnTyped
  <2> QED
    BY <1>2, <2>4, <2>11, <2>13, <2>14 DEF Typed
<1> QED
  BY <1>3, <1>4

(* A frame ends: its streams go, and the one below is reached.             *)
LEMMA PopTypes ==
    ASSUME Inv, Typed, Len(frames) > 0,
           NEW x, IsStream(x), streams' = SubSeq(PutStream(Top.strm, x), 1, Top.strm),
           frames' = Under(frames),
           \/ ctl' = (IF Len(frames) = 1 THEN "finish" ELSE "resume") /\ ctl = "leave"
           \/ ctl' = (IF Len(frames) = 1 THEN "report" ELSE "raise"),
           IsSeq(nodes'), Len(nodes') = Len(nodes), kidsOf' \in 1..Len(nodes),
           UNCHANGED <<config, val, exc, dicts, parents, path, curFmt, outcome>>
    PROVE  Typed'
<1>1. PICK n \in Nat : n = Len(frames) /\ n > 0
  BY LengthsAreNat
<1>2. Len(frames') = n - 1 /\ \A i \in 1..(n - 1) : frames'[i] = frames[i]
  BY <1>1, UnderSeq DEF Inv, Shape
<1>3. StreamsTyped' /\ Len(streams') = Top.strm
  <2>1. PICK k \in Nat : k = Top.strm /\ k \in 1..Len(streams)
    BY TopTyped
  <2>2. PICK t : t = PutStream(k, x)
    OBVIOUS
  <2>3. IsSeq(t) /\ Len(t) = Len(streams) /\ \A i \in 1..Len(streams) : IsStream(t[i])
    BY <2>1, <2>2, StreamChanges DEF Typed
  <2> DEFINE S == {t[i] : i \in 1..k}
  <2>4. \A i \in 1..k : t[i] \in S
    OBVIOUS
  <2>5. \A y \in S : IsStream(y)
    BY <2>1, <2>3, LengthsAreNat DEF Sizable
  <2> HIDE DEF S
  <2>6. /\ SubSeq(t, 1, k) \in Seq(S)
        /\ Len(SubSeq(t, 1, k)) = IF 1 <= k THEN k - 1 + 1 ELSE 0
        /\ \A i \in 1..(k - 1 + 1) : SubSeq(t, 1, k)[i] = t[1 + i - 1]
    BY <2>1, <2>4, SubSeqProperties
  <2>7. IsSeq(SubSeq(t, 1, k))
    BY <2>6, SeqIsSeq
  <2>8. Len(SubSeq(t, 1, k)) = k
    BY <2>1, <2>6
  <2>9. \A i \in 1..k : SubSeq(t, 1, k)[i] = t[i]
    BY <2>6
  <2>10. \A i \in 1..k : IsStream(SubSeq(t, 1, k)[i])
    BY <2>4, <2>5, <2>9
  <2>11. streams' = SubSeq(t, 1, k)
    BY <2>1, <2>2
  <2> QED
    BY <2>1, <2>7, <2>8, <2>10, <2>11 DEF StreamsTyped
<1>4. ContextTyped' /\ TreeTyped' /\ UNCHANGED <<entry, inspect>>
  BY DEF Typed, ContextTyped, TreeTyped, config
<1>5. StackTyped'
  <2>1. PICK ns \in Nat : ns = Len(nodes') /\ Len(nodes) <= ns
    BY LengthsAreNat DEF Sizable
  <2>2. PICK ds \in Nat : ds = Len(dicts') /\ Len(dicts) <= ds
    BY LengthsAreNat DEF Sizable
  <2> QED
    BY <1>3, <1>4, <2>1, <2>2, PopStack
<1>6. ScalarsTyped'
  <2>1. (ctl' \in {"finish", "report", "done"}) = (Len(frames') = 0)
    <3>1. n = 1 <=> Len(frames') = 0
      BY <1>1, <1>2
    <3> QED
      BY <1>1, <3>1
  <2> QED
    BY <1>4, <2>1 DEF Typed, ScalarsTyped
<1>7. ReturnTyped'
  <2>1. CASE ctl' # "resume"
    BY <2>1 DEF ReturnTyped
  <2>2. CASE ctl' = "resume"
    <3>1. n - 1 \in 1..n /\ n - 1 > 0 /\ ctl = "leave"
      BY <1>1, <2>2
    <3>2. Top' = frames[n - 1]
      BY <1>2, <3>1 DEF Top
    <3>3. Calls(frames[n - 1], Top)
      <4>1. n - 1 \in 1..(n - 1) /\ n - 1 + 1 = n
        BY <1>1, <3>1
      <4> QED
        BY <1>1, <4>1 DEF Typed, StackTyped, FramesFit, Top
    <3>4. MakesDict(Top.fmt) => HoldsDict(val)
      BY <3>1 DEF Typed, ReturnTyped
    <3>5. Stepping(frames[n - 1]) /\ (Node[frames[n - 1].fmt].kind # "switch" => Top.fmt = Called(frames[n - 1]))
      BY <3>3 DEF Calls
    <3> QED
      BY <2>2, <3>2, <3>4, <3>5 DEF ReturnTyped, HoldsDict
  <2> QED
    BY <2>1, <2>2
<1> QED
  BY <1>3, <1>4, <1>5, <1>6, <1>7 DEF Typed

-----------------------------------------------------------------------------
(* Nothing beside the frame changes but the path and the parents.          *)
LEMMA AsideIdle ==
    ASSUME Inv, Typed, UNCHANGED <<config, streams, dicts, curFmt, tree, outcome>>,
           Len(parents') > 0, \A i \in 1..Len(parents') : parents'[i] \in 1..Len(dicts),
           \A i \in 1..Len(path') : path'[i] \in Keys
    PROVE  Aside
<1>1. Len(dicts) \in Nat /\ Len(nodes) \in Nat
  BY LengthsAreNat DEF Sizable
<1>2. ContextTyped' /\ TreeTyped'
  BY DEF Typed, ContextTyped, TreeTyped, tree
<1>3. Len(dicts') >= Len(dicts) /\ Len(dicts') \in Nat /\ Len(nodes') >= Len(nodes)
  BY <1>1 DEF tree
<1> QED
  BY <1>2, <1>3 DEF Aside, Typed, StreamsTyped

LEMMA AsideStill ==
    ASSUME Inv, Typed, UNCHANGED <<config, streams, dicts, parents, path, curFmt, tree, outcome>>
    PROVE  Aside
  BY AsideIdle DEF Typed, ContextTyped

(* A stream moves.                                                         *)
LEMMA AsideMoves ==
    ASSUME Inv, Typed, NEW j \in 1..Len(streams), NEW x, IsStream(x), streams' = PutStream(j, x),
           UNCHANGED <<config, dicts, parents, path, curFmt, tree, outcome>>
    PROVE  Aside
<1>1. IsSeq(streams') /\ Len(streams') = Len(streams) /\ \A i \in 1..Len(streams) : IsStream(streams'[i])
  BY StreamChanges DEF Typed
<1>2. Len(dicts) \in Nat /\ Len(nodes) \in Nat
  BY LengthsAreNat DEF Sizable
<1>3. ContextTyped' /\ TreeTyped'
  BY DEF Typed, ContextTyped, TreeTyped, tree
<1>4. Len(dicts') >= Len(dicts) /\ Len(dicts') \in Nat /\ Len(nodes') >= Len(nodes)
  BY <1>2 DEF tree
<1> QED
  BY <1>1, <1>3, <1>4 DEF Aside, StreamsTyped

LEMMA BusyTop == ASSUME Inv, Typed, ctl \in Busy PROVE Len(frames) > 0
  BY DEF Inv, Shape

(* Mappings: entered, filled and left.                                     *)
LEMMA MapEnterTypes == ASSUME Inv, Typed, MapEnter PROVE Typed'
<1>1. PICK F : F = [Top EXCEPT !.at = "loop", !.dict = Len(dicts) + 1]
  OBVIOUS
<1>2. /\ ctl = "run" /\ ctl' = "run" /\ Node[Top.fmt].kind = "map" /\ Top.at = "enter"
      /\ dicts' = Append(dicts, <<>>) /\ parents' = Append(parents, Len(dicts) + 1)
      /\ frames' = WithTop(F)
      /\ UNCHANGED <<config, val, exc, streams, path, curFmt, tree, result>>
  BY <1>1 DEF MapEnter, Running, TopNode
<1>3. Len(frames) > 0
  BY <1>2, BusyTop DEF Busy
<1>4. /\ F.fmt = Top.fmt /\ F.strm = Top.strm /\ F.outer = Top.outer /\ F.node = Top.node
      /\ F.at = "loop" /\ F.dict = Len(dicts) + 1 /\ F.idx = Top.idx /\ F.todo = Top.todo
      /\ F.pos0 = Top.pos0 /\ F.saved = Top.saved /\ F.item = Top.item /\ F.parents0 = Top.parents0
  BY <1>1, <1>3, TopFacts DEF IsFrame, FrameFields
<1>5. Fit(Top) /\ Within(Top, Len(streams), Len(nodes), Len(dicts))
  BY <1>3, TopTyped
<1>6. Fit(F)
  BY <1>2, <1>4, <1>5 DEF Fit, Places
<1>7. PICK d \in Nat : d = Len(dicts)
  BY LengthsAreNat DEF Sizable
<1>8. Len(dicts') = d + 1 /\ dicts'[d + 1] = <<>> /\ \A i \in 1..d : dicts'[i] = dicts[i]
  BY <1>2, <1>3, <1>7, TopFacts, AppendSeq
<1>9. Aside
  <2>1. \A i \in 1..(d + 1) : IsDict(dicts'[i])
    <3>1. IsDict(<<>>)
      BY DEF IsDict
    <3>2. \A i \in 1..d : IsDict(dicts[i])
      BY <1>7 DEF Typed, ContextTyped
    <3> QED
      BY <1>7, <1>8, <3>1, <3>2
  <2>2. Len(parents') > 0 /\ \A i \in 1..Len(parents') : parents'[i] \in 1..(d + 1)
    <3>1. \A i \in 1..Len(parents) : parents[i] \in 1..(d + 1)
      BY <1>7 DEF Typed, ContextTyped
    <3>2. d + 1 \in 1..(d + 1) /\ IsSeq(parents)
      BY <1>3, TopFacts
    <3>3. \A i \in 1..Len(Append(parents, d + 1)) : Append(parents, d + 1)[i] \in 1..(d + 1)
      BY <3>1, <3>2, AppendKeeps
    <3>4. Len(Append(parents, d + 1)) = Len(parents) + 1 /\ Len(parents) \in Nat
      BY <3>2, AppendSeq DEF IsSeq
    <3> QED
      BY <1>2, <1>7, <3>3, <3>4
  <2>3. ContextTyped'
    BY <1>2, <1>8, <2>1, <2>2 DEF Typed, ContextTyped
  <2>4. TreeTyped' /\ StreamsTyped'
    BY <1>2 DEF Typed, TreeTyped, StreamsTyped, tree
  <2>5. Len(nodes') >= Len(nodes) /\ Len(dicts') >= Len(dicts) /\ Len(dicts') \in Nat
    BY <1>2, <1>7, <1>8, LengthsAreNat DEF Sizable, tree
  <2> QED
    BY <1>2, <2>3, <2>4, <2>5 DEF Aside, result
<1>10. Within(F, Len(streams'), Len(nodes'), Len(dicts'))
  BY <1>2, <1>4, <1>5, <1>7, <1>8 DEF Within, tree
<1>11. ReturnTyped'
  BY <1>2 DEF ReturnTyped
<1> QED
  BY <1>2, <1>3, <1>4, <1>6, <1>9, <1>10, <1>11, StayTyped DEF Busy, Typed, ScalarsTyped

LEMMA MapFieldTypes == ASSUME Inv, Typed, MapField PROVE Typed'
<1>1. ctl = "run" /\ Node[Top.fmt].kind = "map" /\ Top.at = "loop"
  BY DEF MapField, Running, TopNode
<1>2. Len(frames) > 0
  BY <1>1, BusyTop DEF Busy
<1>3. CASE Raise("Value") /\ UNCHANGED <<config, streams, dicts, parents, path, curFmt, tree, result>>
  <2>1. Aside
    BY <1>3, AsideStill DEF result
  <2>2. "Value" \in Causes
    BY DEF Causes
  <2> QED
    BY <1>2, <1>3, <2>1, <2>2, RaiseTypes
<1>4. ASSUME NEW i \in DOMAIN TopNode.subs, NEW key, key = Name(TopNode.keys[i]),
             Call([Top EXCEPT !.idx = i, !.item = key], TopNode.subs[i], key, Top.strm,
                  streams, Append(path, key), nodes)
      PROVE  Typed'
  <2>1. PICK F : F = [Top EXCEPT !.idx = i, !.item = key]
    OBVIOUS
  <2>2. /\ F.fmt = Top.fmt /\ F.strm = Top.strm /\ F.outer = Top.outer /\ F.node = Top.node
        /\ F.at = "loop" /\ F.dict = Top.dict /\ F.idx = i /\ F.todo = Top.todo
        /\ F.pos0 = Top.pos0 /\ F.saved = Top.saved /\ F.item = key /\ F.parents0 = Top.parents0
    BY <1>1, <1>2, <2>1, TopFacts DEF IsFrame, FrameFields
  <2>3. Top.fmt \in Fmt /\ Fit(Top) /\ Within(Top, Len(streams), Len(nodes), Len(dicts))
    BY <1>2, TopTyped
  <2>4. PICK m \in Nat : m = Len(Node[Top.fmt].subs) /\ DOMAIN Node[Top.fmt].subs = 1..m
    BY <2>3, FormatAssumption, LenProperties
  <2>5. i \in 1..m /\ key = Name(Node[F.fmt].keys[i])
    BY <1>4, <2>2, <2>4 DEF TopNode
  <2>6. Fit(F)
    BY <1>1, <2>2, <2>3, <2>4, <2>5 DEF Fit, Places
  <2>7. Recounts(F)
    BY <1>1, <2>2, <2>6 DEF Recounts, IsOpenMap
  <2>8. Stepping(F) /\ Called(F) = TopNode.subs[i] /\ Node[F.fmt].kind \notin Framing
    BY <1>1, <2>2, <2>4, <2>5 DEF Stepping, Called, Framing, LeafKinds, TopNode
  <2>9. TopNode.subs[i] \in Fmt
    BY <1>4, <2>3, SubsAreFormats DEF TopNode
  <2>10. key \in Keys
    BY <1>1, <1>4, <2>3, KeysAreTyped DEF TopNode
  <2>11. \A k \in 1..Len(Append(path, key)) : Append(path, key)[k] \in Keys
    <3>1. IsSeq(path) /\ \A k \in 1..Len(path) : path[k] \in Keys
      BY <1>2, TopFacts DEF Typed, ContextTyped
    <3> QED
      BY <2>10, <3>1, AppendKeeps
  <2>12. /\ IsSeq(streams) /\ IsSeq(nodes) /\ \A k \in 1..Len(streams) : IsStream(streams[k])
         /\ Len(streams) >= Len(streams) /\ Len(nodes) >= Len(nodes)
    BY LengthsAreNat DEF Typed, StreamsTyped, TreeTyped, Sizable
  <2>13. Top.strm \in 1..Len(streams)
    BY <1>2, TopTyped
  <2>14. Call(F, TopNode.subs[i], key, Top.strm, streams, Append(path, key), nodes)
    BY <1>4, <2>1
  <2> QED
    BY <1>2, <2>7, <2>8, <2>9, <2>11, <2>12, <2>13, <2>14, CallTypes
<1> QED
  BY <1>3, <1>4 DEF MapField

LEMMA StoredTyped ==
    ASSUME NEW d, IsDict(d)
    PROVE  /\ \A k \in FieldNames : \A v \in NatValues : IsDict(Stored(d, k, v))
           /\ \A e : IsDict(e) => IsDict(Merged(d, e))
<1>1. ASSUME NEW k \in FieldNames, NEW v \in NatValues PROVE IsDict(Stored(d, k, v))
  BY DEF IsDict, Stored
<1>2. ASSUME NEW e, IsDict(e) PROVE IsDict(Merged(d, e))
  BY <1>2 DEF IsDict, Merged
<1> QED
  BY <1>1, <1>2

LEMMA MapStoreTypes == ASSUME Inv, Typed, MapStore PROVE Typed'
<1> DEFINE f == TopNode.subs[Top.idx]
           inline == Node[f].kind = "sized" /\ Node[f].flag
           new == IF inline THEN Merged(dicts[Top.dict], dicts[val.n])
                  ELSE Stored(dicts[Top.dict], Top.item.name, val)
<1>1. /\ ctl = "resume" /\ ctl' = "run" /\ Node[Top.fmt].kind = "map"
      /\ path' = Under(path) /\ frames' = frames
      /\ UNCHANGED <<config, val, exc, streams, parents, curFmt, tree, result>>
  BY DEF MapStore, Resuming, TopNode
<1>2. Len(frames) > 0
  BY <1>1, BusyTop DEF Busy
<1>3. Top.fmt \in Fmt /\ Fit(Top) /\ Within(Top, Len(streams), Len(nodes), Len(dicts))
  BY <1>2, TopTyped
<1>4. Stepping(Top) /\ Top.at = "loop" /\ Top.idx \in DOMAIN Node[Top.fmt].subs
  BY <1>1 DEF Typed, ReturnTyped, Stepping
<1>5. Top.dict \in 1..Len(dicts)
  BY <1>1, <1>3, <1>4 DEF Within, IsOpenMap
<1>6. Top.item = Name(Node[Top.fmt].keys[Top.idx])
  <2>1. Top.idx > 0
    <3>1. Node[Top.fmt].subs \in Seq(Fmt)
      BY <1>3, FormatAssumption
    <3>2. DOMAIN Node[Top.fmt].subs = 1..Len(Node[Top.fmt].subs) /\ Len(Node[Top.fmt].subs) \in Nat
      BY <3>1, LenProperties
    <3> QED
      BY <1>4, <3>2
  <2> QED
    BY <1>1, <1>3, <2>1 DEF Fit
<1>7. Top.item.name \in FieldNames
  BY <1>1, <1>3, <1>4, <1>6, KeysAreTyped DEF Name
<1>8. inline => IsDict(dicts[val.n])
  <2>1. inline => MakesDict(Called(Top))
    BY <1>1 DEF MakesDict, Called, TopNode
  <2>2. inline => val.n \in 1..Len(dicts)
    BY <1>1, <2>1 DEF Typed, ReturnTyped, HoldsDict
  <2> QED
    BY <2>2 DEF Typed, ContextTyped
<1>9. IsDict(new)
  <2>1. IsDict(dicts[Top.dict]) /\ val \in NatValues
    BY <1>5 DEF Typed, ContextTyped, ScalarsTyped
  <2> QED
    BY <1>7, <1>8, <2>1, StoredTyped
<1> HIDE DEF f
<1>10. PICK x : dicts' = [dicts EXCEPT ![Top.dict] = x] /\ IsDict(x)
  <2>1. dicts' = [dicts EXCEPT ![Top.dict] = new]
    BY DEF MapStore, f
  <2> HIDE DEF new
  <2> QED
    BY <1>9, <2>1
<1>11. /\ IsSeq(dicts') /\ Len(dicts') = Len(dicts) /\ Len(dicts) \in Nat
       /\ \A i \in 1..Len(dicts) : IsDict(dicts'[i])
  <2>1. PICK d \in Nat : d = Len(dicts) /\ dicts = [i \in 1..d |-> dicts[i]]
    BY <1>2, TopFacts DEF IsSeq
  <2>2. IsSeq(dicts') /\ Len(dicts') = Len(dicts)
    <3>1. IsSeq(dicts)
      BY <1>2, TopFacts
    <3>2. ASSUME NEW s, IsSeq(s), NEW i, NEW t, t = [s EXCEPT ![i] = x] PROVE IsSeq(t) /\ Len(t) = Len(s)
      BY <3>2, ExceptIsSeq
    <3> QED
      BY <1>10, <3>1, <3>2
  <2>3. \A i \in 1..d : dicts'[i] = IF i = Top.dict THEN x ELSE dicts[i]
    <3>1. DOMAIN dicts = 1..d
      BY <2>1
    <3> QED
      BY <1>10, <3>1
  <2>4. \A i \in 1..d : IsDict(dicts[i])
    BY <2>1 DEF Typed, ContextTyped
  <2> QED
    BY <1>10, <2>1, <2>2, <2>3, <2>4
<1>12. \A i \in 1..Len(path') : path'[i] \in Keys
  <2>1. IsSeq(path) /\ Len(path) > 0 /\ \A i \in 1..Len(path) : path[i] \in Keys
    <3>1. IsContainer(Top)
      BY <1>1 DEF IsContainer
    <3>2. Len(path) > Len(Top.path0) /\ Len(Top.path0) \in Nat /\ Len(path) \in Nat
      BY <1>1, <1>2, <3>1, TopFacts DEF IsSeq
    <3> QED
      BY <1>2, <3>2, TopFacts DEF Typed, ContextTyped
  <2> QED
    BY <1>1, <2>1, UnderKeeps
<1>13. Aside
  <2>1. ContextTyped'
    BY <1>1, <1>11, <1>12 DEF Typed, ContextTyped
  <2>2. TreeTyped' /\ StreamsTyped' /\ Len(nodes') >= Len(nodes)
    BY <1>1, LengthsAreNat DEF Typed, TreeTyped, StreamsTyped, tree, Sizable
  <2> QED
    BY <1>1, <1>11, <2>1, <2>2 DEF Aside, result
<1>14. frames' = WithTop(Top) /\ ReturnTyped'
  BY <1>1, <1>2, TopRecounts DEF ReturnTyped
<1>15. Within(Top, Len(streams'), Len(nodes'), Len(dicts'))
  BY <1>1, <1>3, <1>11 DEF Within, tree
<1> QED
  BY <1>1, <1>2, <1>3, <1>13, <1>14, <1>15, StayTyped DEF Busy, Typed, ScalarsTyped

LEMMA MapExitTypes == ASSUME Inv, Typed, MapExit PROVE Typed'
<1>1. PICK F : F = [Top EXCEPT !.at = "exit"]
  OBVIOUS
<1>2. /\ ctl = "run" /\ Node[Top.fmt].kind = "map" /\ Top.at = "loop"
      /\ parents' = Under(parents) /\ Return(F, DictV(Top.dict))
      /\ UNCHANGED <<config, streams, dicts, path, curFmt, tree, result>>
  BY <1>1 DEF MapExit, Running, TopNode
<1>3. Len(frames) > 0
  BY <1>2, BusyTop DEF Busy
<1>4. /\ F.fmt = Top.fmt /\ F.strm = Top.strm /\ F.outer = Top.outer /\ F.node = Top.node
      /\ F.at = "exit" /\ F.idx = Top.idx /\ F.todo = Top.todo
      /\ F.pos0 = Top.pos0 /\ F.saved = Top.saved /\ F.item = Top.item /\ F.parents0 = Top.parents0
  BY <1>1, <1>3, TopFacts DEF IsFrame, FrameFields
<1>5. Fit(Top) /\ Within(Top, Len(streams), Len(nodes), Len(dicts))
  BY <1>3, TopTyped
<1>6. Recounts(F)
  BY <1>2, <1>4, <1>5 DEF Recounts, Fit, Places, IsOpenMap
<1>7. Top.dict \in 1..Len(dicts) /\ Len(dicts) \in Nat
  BY <1>2, <1>5, LengthsAreNat DEF Within, IsOpenMap, Sizable
<1>8. PICK p \in Nat : p = Len(parents) /\ p > 1
  <2>1. Anchor(Top) = Append(Top.parents0, Top.dict)
    BY <1>2 DEF Anchor, IsOpenMap
  <2>2. IsSeq(Top.parents0) /\ Len(Top.parents0) > 0 /\ Len(Top.parents0) \in Nat
    BY <1>3, <1>5, TopFacts DEF Fit, IsSeq
  <2>3. Len(Anchor(Top)) = Len(Top.parents0) + 1
    BY <2>1, <2>2, AppendSeq
  <2>4. Len(Anchor(Top)) <= Len(parents) /\ Len(parents) \in Nat
    BY <1>3, TopFacts DEF Extends, IsSeq
  <2> QED
    BY <2>2, <2>3, <2>4
<1>9. Len(parents') = p - 1 /\ \A i \in 1..(p - 1) : parents'[i] = parents[i]
  BY <1>2, <1>3, <1>8, TopFacts, UnderSeq
<1>10. Aside
  <2>1. \A i \in 1..p : parents[i] \in 1..Len(dicts)
    BY <1>8 DEF Typed, ContextTyped
  <2>2. Len(parents') > 0 /\ \A i \in 1..Len(parents') : parents'[i] \in 1..Len(dicts)
    BY <1>8, <1>9, <2>1
  <2>3. \A i \in 1..Len(path') : path'[i] \in Keys
    BY <1>2 DEF Typed, ContextTyped
  <2> QED
    BY <1>2, <2>2, <2>3, AsideIdle DEF result
<1>11. /\ DictV(Top.dict) \in NatValues
       /\ DictV(Top.dict).t = "dict" /\ DictV(Top.dict).n \in 1..Len(dicts')
  BY <1>2, <1>7, ValuesAreTyped, FieldsOfResults
<1> QED
  BY <1>2, <1>3, <1>6, <1>10, <1>11, ReturnTypes

(* Items: called one after the other, in a counted loop or a greedy one.   *)
LEMMA CallItemTypes ==
    ASSUME Inv, Typed, ctl = "run", Node[Top.fmt].kind \in {"tuple", "array"}, Stepping(Top),
           CallItem(Top.idx, Called(Top))
    PROVE  Typed'
<1> DEFINE key == Index(Top.idx)
<1>1. Len(frames) > 0
  BY BusyTop DEF Busy
<1>2. PICK F : F = [Top EXCEPT !.item = key]
  OBVIOUS
<1>3. /\ F.fmt = Top.fmt /\ F.strm = Top.strm /\ F.outer = Top.outer /\ F.node = Top.node
      /\ F.at = Top.at /\ F.dict = Top.dict /\ F.idx = Top.idx /\ F.todo = Top.todo
      /\ F.pos0 = Top.pos0 /\ F.saved = Top.saved /\ F.parents0 = Top.parents0
  BY <1>1, <1>2, TopFacts DEF IsFrame, FrameFields
<1>4. Top.fmt \in Fmt /\ Fit(Top) /\ Top.strm \in 1..Len(streams)
  BY <1>1, TopTyped
<1>5. Fit(F)
  BY <1>3, <1>4 DEF Fit
<1>6. Recounts(F)
  BY <1>3, <1>5 DEF Recounts, IsOpenMap
<1>7. Stepping(F) /\ Called(F) = Called(Top) /\ Node[F.fmt].kind \notin Framing
  BY <1>3 DEF Stepping, Called, Framing
<1>8. Called(Top) \in Fmt
  BY <1>4, SubsAreFormats DEF Called, Stepping, WrapKinds
<1>9. key \in Keys
  BY <1>4, KeysAreTyped DEF Fit
<1> HIDE DEF key
<1>10. \A k \in 1..Len(Append(path, key)) : Append(path, key)[k] \in Keys
  <2>1. IsSeq(path) /\ \A k \in 1..Len(path) : path[k] \in Keys
    BY <1>1, TopFacts DEF Typed, ContextTyped
  <2> QED
    BY <1>9, <2>1, AppendKeeps
<1>11. /\ IsSeq(streams) /\ IsSeq(nodes) /\ \A k \in 1..Len(streams) : IsStream(streams[k])
       /\ Len(streams) >= Len(streams) /\ Len(nodes) >= Len(nodes)
  BY LengthsAreNat DEF Typed, StreamsTyped, TreeTyped, Sizable
<1>12. Call(F, Called(Top), key, Top.strm, streams, Append(path, key), nodes)
  BY <1>2 DEF CallItem, key
<1> QED
  BY <1>1, <1>4, <1>6, <1>7, <1>8, <1>10, <1>11, <1>12, CallTypes

LEMMA TupleItemTypes == ASSUME Inv, Typed, TupleItem PROVE Typed'
<1>1. PICK i \in DOMAIN TopNode.subs : i = Top.idx + 1 /\ CallItem(Top.idx, TopNode.subs[i])
  BY DEF TupleItem
<1>2. ctl = "run" /\ Node[Top.fmt].kind = "tuple"
  BY DEF TupleItem, Running, TopNode
<1>3. Stepping(Top)
  BY <1>1, <1>2 DEF Stepping, LeafKinds, TopNode
<1>4. CallItem(Top.idx, Called(Top))
  BY <1>1, <1>2 DEF Called, TopNode
<1> QED
  BY <1>2, <1>3, <1>4, CallItemTypes

LEMMA ArrayItemTypes == ASSUME Inv, Typed, ArrayItem PROVE Typed'
<1>1. /\ ctl = "run" /\ Node[Top.fmt].kind = "array" /\ CallItem(Top.idx, TopNode.subs[1])
      /\ Top.at = "greedy" \/ (Top.at = "items" /\ Top.idx < Top.todo)
  BY DEF ArrayItem, Running, TopNode
<1>2. Stepping(Top)
  BY <1>1 DEF Stepping, LeafKinds
<1>3. CallItem(Top.idx, Called(Top))
  BY <1>1 DEF Called, TopNode
<1> QED
  BY <1>1, <1>2, <1>3, CallItemTypes

(* A path of one segment less.                                             *)
LEMMA PathPopped ==
    ASSUME Inv, Typed, Len(frames) > 0, Len(path) > Len(Top.path0)
    PROVE  \A i \in 1..Len(Under(path)) : Under(path)[i] \in Keys
<1>1. IsSeq(path) /\ Len(path) > 0 /\ \A i \in 1..Len(path) : path[i] \in Keys
  <2>1. Len(Top.path0) \in Nat /\ Len(path) \in Nat /\ IsSeq(path)
    BY TopFacts DEF IsSeq
  <2> QED
    BY <2>1 DEF Typed, ContextTyped
<1> QED
  BY <1>1, UnderKeeps

LEMMA ItemStoreTypes == ASSUME Inv, Typed, ItemStore PROVE Typed'
<1>1. PICK F : F = [Top EXCEPT !.idx = NextIndex(@)]
  OBVIOUS
<1>2. /\ ctl = "resume" /\ ctl' = "run" /\ Node[Top.fmt].kind \in {"tuple", "array"}
      /\ path' = Under(path) /\ frames' = WithTop(F)
      /\ UNCHANGED <<config, val, exc, streams, dicts, parents, curFmt, tree, result>>
  BY <1>1 DEF ItemStore, Resuming, TopNode
<1>3. Len(frames) > 0
  BY <1>2, BusyTop DEF Busy
<1>4. /\ F.fmt = Top.fmt /\ F.strm = Top.strm /\ F.outer = Top.outer /\ F.node = Top.node
      /\ F.at = Top.at /\ F.dict = Top.dict /\ F.idx = NextIndex(Top.idx) /\ F.todo = Top.todo
      /\ F.pos0 = Top.pos0 /\ F.saved = Top.saved /\ F.item = Top.item /\ F.parents0 = Top.parents0
  BY <1>1, <1>3, TopFacts DEF IsFrame, FrameFields
<1>5. Fit(Top) /\ Within(Top, Len(streams), Len(nodes), Len(dicts)) /\ Top.fmt \in Fmt
  BY <1>3, TopTyped
<1>6. Stepping(Top)
  BY <1>2 DEF Typed, ReturnTyped
<1>7. F.idx = Top.idx + 1 \/ (F.idx = Top.idx /\ Top.at = "greedy")
  BY <1>4 DEF NextIndex
<1>8. Fit(F)
  <2>1. Top.idx \in Nat /\ Top.todo \in Int /\ F.idx \in Nat
    BY <1>5, <1>7 DEF Fit
  <2>2. CASE Node[Top.fmt].kind = "tuple"
    <3>1. PICK m \in Nat : m = Len(Node[Top.fmt].subs) /\ DOMAIN Node[Top.fmt].subs = 1..m
      BY <1>5, FormatAssumption, LenProperties
    <3>2. Top.idx + 1 \in 1..m
      BY <1>6, <2>2, <3>1 DEF Stepping
    <3> QED
      BY <1>4, <1>5, <1>7, <2>1, <2>2, <3>1, <3>2 DEF Fit
  <2>3. CASE Node[Top.fmt].kind = "array"
    <3>1. Top.at = "items" => Top.idx < Top.todo /\ F.idx = Top.idx + 1
      BY <1>6, <1>7, <2>3 DEF Stepping
    <3>2. Top.at # "enter"
      BY <1>6, <2>3 DEF Stepping
    <3> QED
      BY <1>4, <1>5, <2>1, <2>3, <3>1, <3>2 DEF Fit
  <2> QED
    BY <1>2, <2>2, <2>3
<1>9. Len(path) > Len(Top.path0)
  BY <1>2, <1>3, TopFacts DEF IsContainer
<1>10. Aside
  <2>1. \A i \in 1..Len(path') : path'[i] \in Keys
    BY <1>2, <1>3, <1>9, PathPopped
  <2> QED
    BY <1>2, <2>1, AsideIdle DEF Typed, ContextTyped, result
<1>11. Within(F, Len(streams'), Len(nodes'), Len(dicts'))
  BY <1>2, <1>4, <1>5 DEF Within, tree, IsOpenMap
<1>12. ReturnTyped'
  BY <1>2 DEF ReturnTyped
<1> QED
  BY <1>2, <1>3, <1>4, <1>8, <1>10, <1>11, <1>12, StayTyped DEF Busy, Typed, ScalarsTyped

LEMMA ItemsExitTypes == ASSUME Inv, Typed, ItemsExit PROVE Typed'
<1>1. /\ ctl = "run" /\ Node[Top.fmt].kind \in {"tuple", "array"} /\ Return(Top, ListV(Top.idx))
      /\ UNCHANGED <<config, streams, dicts, parents, path, curFmt, tree, result>>
  BY DEF ItemsExit, Running, TopNode
<1>2. Len(frames) > 0
  BY <1>1, BusyTop DEF Busy
<1>3. ListV(Top.idx) \in NatValues
  BY <1>2, TopTyped, ValuesAreTyped DEF Fit
<1>4. ~MakesDict(Top.fmt)
  BY <1>1 DEF MakesDict
<1>5. Aside
  BY <1>1, AsideStill DEF result
<1> QED
  BY <1>1, <1>2, <1>3, <1>4, <1>5, TopRecounts, ReturnTypes

LEMMA GreedyCatchTypes == ASSUME Inv, Typed, GreedyCatch PROVE Typed'
<1>1. /\ ctl = "raise" /\ Node[Top.fmt].kind = "array" /\ Top.at = "greedy"
      /\ path' = Under(path) /\ Return(Top, ListV(Top.idx))
      /\ UNCHANGED <<config, streams, dicts, parents, curFmt, tree, result>>
  BY DEF GreedyCatch, Catches, TopNode
<1>2. Len(frames) > 0
  BY <1>1, BusyTop DEF Busy
<1>3. ListV(Top.idx) \in NatValues
  BY <1>2, TopTyped, ValuesAreTyped DEF Fit
<1>4. ~MakesDict(Top.fmt)
  BY <1>1 DEF MakesDict
<1>5. Len(path) > Len(Top.path0)
  BY <1>1, <1>2, TopFacts DEF IsContainer
<1>6. \A i \in 1..Len(path') : path'[i] \in Keys
  BY <1>1, <1>2, <1>5, PathPopped
<1>7. Aside
  BY <1>1, <1>6, AsideIdle DEF Typed, ContextTyped, result
<1> QED
  BY <1>1, <1>2, <1>3, <1>4, <1>7, TopRecounts, ReturnTypes

LEMMA ArrayGreedyTypes == ASSUME Inv, Typed, ArrayGreedy PROVE Typed'
<1>1. PICK F : F = [Top EXCEPT !.at = "greedy"]
  OBVIOUS
<1>2. /\ ctl = "run" /\ Node[Top.fmt].kind = "array" /\ Top.at = "enter"
      /\ Node[Top.fmt].mode = "greedy" /\ frames' = WithTop(F)
      /\ UNCHANGED <<config, ctl, val, exc, streams, dicts, parents, path, curFmt, tree, result>>
  BY <1>1 DEF ArrayGreedy, LoopsGreedily, Running, TopNode
<1>3. Len(frames) > 0
  BY <1>2, BusyTop DEF Busy
<1>4. /\ F.fmt = Top.fmt /\ F.strm = Top.strm /\ F.outer = Top.outer /\ F.node = Top.node
      /\ F.at = "greedy" /\ F.dict = Top.dict /\ F.idx = Top.idx /\ F.todo = Top.todo
      /\ F.pos0 = Top.pos0 /\ F.saved = Top.saved /\ F.item = Top.item /\ F.parents0 = Top.parents0
  BY <1>1, <1>3, TopFacts DEF IsFrame, FrameFields
<1>5. Fit(Top) /\ Within(Top, Len(streams), Len(nodes), Len(dicts))
  BY <1>3, TopTyped
<1>6. Fit(F)
  BY <1>2, <1>4, <1>5 DEF Fit, Places
<1>7. Aside
  BY <1>2, AsideStill DEF result
<1>8. Within(F, Len(streams'), Len(nodes'), Len(dicts'))
  BY <1>2, <1>4, <1>5 DEF Within, tree, IsOpenMap
<1>9. ReturnTyped'
  BY <1>2 DEF ReturnTyped
<1> QED
  BY <1>2, <1>3, <1>4, <1>6, <1>7, <1>8, <1>9, StayTyped DEF Busy, Typed, ScalarsTyped

(* What counting finds in an array about to be decoded.                    *)
LEMMA TopCounts ==
    ASSUME Inv, Typed, Running("array"), ~LoopsGreedily
    PROVE  LET c == Count(TopNode, TopStream)
           IN  /\ c.ok \in BOOLEAN /\ c.used \in Nat
               /\ c.ok => c.val.n \in Int
               /\ ~c.ok => IsResult(c)
               /\ TopNode.mode = "const" => c = Got(0, IntV(TopNode.num))
<1>1. ctl = "run" /\ Node[Top.fmt].kind = "array"
  BY DEF Running, TopNode
<1>2. Len(frames) > 0
  BY <1>1, BusyTop DEF Busy
<1>3. IsStream(TopStream) /\ Top.fmt \in Fmt /\ IsSeq(parents) /\ ContextTyped
  BY <1>2, TopTyped, TopFacts DEF Typed
<1>4. SizeOf[TopNode.subs[1]] \in Int
  BY <1>1, <1>3, SubsAreFormats, SizesAreInts DEF WrapKinds, TopNode
<1>5. \/ IsFast(TopNode) \/ TopNode.mode # "greedy" \/ ~TopStream.seekable
      \/ SizeOf[TopNode.subs[1]] >= 0
  BY <1>4 DEF LoopsGreedily
<1> QED
  BY <1>1, <1>3, <1>5, CountsTyped DEF TopNode

LEMMA ArrayCountTypes == ASSUME Inv, Typed, ArrayCount PROVE Typed'
<1>1. PICK c : c = Count(TopNode, TopStream)
  OBVIOUS
<1>2. /\ ctl = "run" /\ Node[Top.fmt].kind = "array" /\ Top.at = "enter"
      /\ UNCHANGED <<config, dicts, parents, path, curFmt, tree, result>>
  BY DEF ArrayCount, Running, TopNode
<1>3. Len(frames) > 0
  BY <1>2, BusyTop DEF Busy
<1>4. /\ c.ok \in BOOLEAN /\ c.used \in Nat
      /\ c.ok => c.val.n \in Int
      /\ ~c.ok => IsResult(c)
      /\ TopNode.mode = "const" => c = Got(0, IntV(TopNode.num))
  BY <1>1, TopCounts DEF ArrayCount
<1>5. Fit(Top) /\ Within(Top, Len(streams), Len(nodes), Len(dicts))
      /\ IsStream(TopStream) /\ Top.fmt \in Fmt /\ Top.strm \in 1..Len(streams)
  BY <1>3, TopTyped
<1>6. CASE IsFast(TopNode) \/ ~c.ok
  <2>1. PICK r : r = (IF c.ok THEN FromFile(TopStream, c.val.n, SizeOf[TopNode.subs[1]]) ELSE c)
    OBVIOUS
  <2>2. Deliver(r)
    BY <1>1, <1>6, <2>1 DEF ArrayCount
  <2>3. IsResult(r)
    <3>1. CASE c.ok
      <4>1. TopNode.subs[1] \in Fmt
        BY <1>2, <1>5, SubsAreFormats DEF WrapKinds, TopNode
      <4>2. SizeOf[TopNode.subs[1]] \in Nat
        BY <1>6, <3>1, <4>1, SizesByKind, FormatAssumption DEF IsFast
      <4> QED
        BY <1>4, <1>5, <2>1, <3>1, <4>2, NumbersRead
    <3>2. CASE ~c.ok
      BY <1>4, <2>1, <3>2
    <3> QED
      BY <1>4, <3>1, <3>2
  <2>4. ~MakesDict(Top.fmt)
    BY <1>2 DEF MakesDict
  <2>5. TreeTyped' /\ Len(nodes') >= Len(nodes)
    BY <1>2, LengthsAreNat DEF Typed, TreeTyped, tree, Sizable
  <2> QED
    BY <1>2, <1>3, <2>2, <2>3, <2>4, <2>5, DeliverTypes DEF result
<1>7. CASE ~(IsFast(TopNode) \/ ~c.ok)
  <2>1. PICK F : F = [Top EXCEPT !.at = "items", !.todo = c.val.n]
    OBVIOUS
  <2>2. /\ frames' = WithTop(F)
        /\ streams' = PutStream(Top.strm, Advance(TopStream, c.used))
        /\ UNCHANGED <<ctl, val, exc>>
    BY <1>1, <1>7, <2>1 DEF ArrayCount, PutStream, TopStream
  <2>3. /\ F.fmt = Top.fmt /\ F.strm = Top.strm /\ F.outer = Top.outer /\ F.node = Top.node
        /\ F.at = "items" /\ F.dict = Top.dict /\ F.idx = Top.idx /\ F.todo = c.val.n
        /\ F.pos0 = Top.pos0 /\ F.saved = Top.saved /\ F.item = Top.item /\ F.parents0 = Top.parents0
    BY <1>3, <2>1, TopFacts DEF IsFrame, FrameFields
  <2>4. Fit(F)
    <3>1. F.todo \in Int /\ F.idx = 0
      BY <1>2, <1>4, <1>5, <1>7, <2>3 DEF Fit
    <3>2. Node[F.fmt].mode = "const" => F.todo = Node[F.fmt].num /\ F.idx <= F.todo
      <4>1. Node[Top.fmt].num \in Nat
        BY <1>5, FormatAssumption
      <4> QED
        BY <1>4, <2>3, <3>1, <4>1, FieldsOfResults DEF TopNode
    <3> QED
      BY <1>2, <1>5, <2>3, <3>1, <3>2 DEF Fit, Places
  <2>5. Aside
    <3>1. IsStream(Advance(TopStream, c.used))
      BY <1>4, <1>5, AdvanceTyped
    <3> QED
      BY <1>2, <1>5, <2>2, <3>1, AsideMoves DEF result
  <2>6. Len(streams') = Len(streams) /\ ReturnTyped'
    BY <1>2, <2>2, <2>5 DEF Aside, ReturnTyped
  <2>7. Within(F, Len(streams'), Len(nodes'), Len(dicts'))
    BY <1>2, <1>5, <2>3, <2>6 DEF Within, tree, IsOpenMap
  <2> QED
    BY <1>2, <1>3, <2>2, <2>3, <2>4, <2>5, <2>6, <2>7, StayTyped DEF Busy, Typed, ScalarsTyped
<1> QED
  BY <1>6, <1>7

-----------------------------------------------------------------------------
(* Wrappers: a frame that is no container calls, at another place.         *)
LEMMA CallInnerTypes ==
    ASSUME Inv, Typed, Len(frames) > 0, ~IsContainer(Top),
           NEW G, Recounts(G), G.at \in Places, Node[Top.fmt].kind \notin LeafKinds,
           NEW a \in {"offset", "inner"}, NEW f \in Fmt,
           f = (IF Node[Top.fmt].kind = "pointer" /\ a = "inner" THEN Node[Top.fmt].subs[2]
                ELSE Node[Top.fmt].subs[1]) \/ Node[Top.fmt].kind = "switch",
           DOMAIN G = FrameFields,
           NEW key, NEW ss, IsSeq(ss), Len(ss) >= Len(streams), \A i \in 1..Len(ss) : IsStream(ss[i]),
           NEW s \in 1..Len(ss),
           IF Node[Top.fmt].kind \in Framing THEN Top.strm < s ELSE s = Top.strm,
           NEW ns, IsSeq(ns), Len(ns) >= Len(nodes),
           Call([G EXCEPT !.at = a], f, key, s, ss, path, ns)
    PROVE  Typed'
<1>1. PICK F : F = [G EXCEPT !.at = a]
  OBVIOUS
<1>2. /\ F.fmt = G.fmt /\ F.strm = G.strm /\ F.outer = G.outer /\ F.node = G.node
      /\ F.at = a /\ F.dict = G.dict /\ F.idx = G.idx /\ F.todo = G.todo
      /\ F.pos0 = G.pos0 /\ F.saved = G.saved /\ F.item = G.item /\ F.parents0 = G.parents0
  BY <1>1 DEF FrameFields
<1>3. G.fmt = Top.fmt /\ Fit(G) /\ Node[Top.fmt].kind \notin {"map", "tuple", "array"}
  BY DEF Recounts, IsContainer
<1>4. Fit(F)
  BY <1>2, <1>3 DEF Fit, Places
<1>5. Recounts(F)
  BY <1>2, <1>3, <1>4 DEF Recounts, IsOpenMap
<1>6. Stepping(F) /\ (f = Called(F) \/ Node[F.fmt].kind = "switch")
  BY <1>2, <1>3 DEF Stepping, Called
<1>7. \A i \in 1..Len(path) : path[i] \in Keys
  BY DEF Typed, ContextTyped
<1>8. Call(F, f, key, s, ss, path, ns)
  BY <1>1
<1>9. IF Node[F.fmt].kind \in Framing THEN Top.strm < s ELSE s = Top.strm
  BY <1>2, <1>3
<1> QED
  BY <1>5, <1>6, <1>7, <1>8, <1>9, CallTypes

LEMMA StreamsAreThere ==
    ASSUME Inv, Typed
    PROVE  /\ IsSeq(streams) /\ IsSeq(nodes) /\ \A k \in 1..Len(streams) : IsStream(streams[k])
           /\ Len(streams) >= Len(streams) /\ Len(nodes) >= Len(nodes)
  BY LengthsAreNat DEF Typed, StreamsTyped, TreeTyped, Sizable

LEMMA WrapOpenTypes == ASSUME Inv, Typed, WrapOpen PROVE Typed'
<1>1. /\ ctl = "run" /\ Node[Top.fmt].kind \in {"optional", "lazy"}
      /\ Call([Top EXCEPT !.at = "inner"], TopNode.subs[1], NoKey, Top.strm, streams, path, nodes)
  BY DEF WrapOpen, CallInner, Running, TopNode
<1>2. Len(frames) > 0
  BY <1>1, BusyTop DEF Busy
<1>3. Top.fmt \in Fmt /\ Fit(Top) /\ Top.strm \in 1..Len(streams) /\ Recounts(Top) /\ IsFrame(Top)
  BY <1>2, TopTyped, TopRecounts, TopFacts
<1>4. TopNode.subs[1] = Node[Top.fmt].subs[1] /\ TopNode.subs[1] \in Fmt
  BY <1>1, <1>3, SubsAreFormats DEF TopNode, WrapKinds
<1>5. /\ ~IsContainer(Top) /\ Node[Top.fmt].kind \notin LeafKinds /\ Node[Top.fmt].kind \notin Framing
      /\ Node[Top.fmt].kind # "pointer"
  BY <1>1 DEF IsContainer, LeafKinds, Framing
<1>6. Top.at \in Places /\ DOMAIN Top = FrameFields
  BY <1>3 DEF Fit, IsFrame
<1> QED
  BY <1>1, <1>2, <1>3, <1>4, <1>5, <1>6, StreamsAreThere, CallInnerTypes

LEMMA WrapCloseTypes == ASSUME Inv, Typed, WrapClose \/ OptionalCatch PROVE Typed'
<1>1. PICK v \in {val, NoneV} :
           /\ ctl \in Busy /\ Node[Top.fmt].kind \in {"optional", "lazy", "switch"} /\ Return(Top, v)
           /\ UNCHANGED <<config, streams, dicts, parents, path, curFmt, tree, result>>
  BY DEF WrapClose, OptionalCatch, Resuming, TopNode, Busy
<1>2. Len(frames) > 0
  BY <1>1, BusyTop
<1>3. v \in NatValues
  BY ValuesAreTyped DEF Typed, ScalarsTyped
<1>4. ~MakesDict(Top.fmt)
  BY <1>1 DEF MakesDict
<1>5. Aside
  BY <1>1, AsideStill DEF result
<1> QED
  BY <1>1, <1>2, <1>3, <1>4, <1>5, TopRecounts, ReturnTypes

(* A stream of its own for the format that is framed.                      *)
LEMMA FramedStreams ==
    ASSUME Inv, Typed, Len(frames) > 0, NEW x, IsStream(x), NEW data \in Seq(Byte)
    PROVE  LET ss == Append(PutStream(Top.strm, x), Stream(data, TRUE))
           IN  /\ IsSeq(ss) /\ Len(ss) = Len(streams) + 1
               /\ Len(streams) + 1 \in 1..Len(ss) /\ Top.strm < Len(streams) + 1
               /\ \A i \in 1..Len(ss) : IsStream(ss[i])
<1>1. PICK n \in Nat : n = Len(streams)
  BY LengthsAreNat DEF Sizable
<1>2. PICK t : t = PutStream(Top.strm, x)
  OBVIOUS
<1>3. Top.strm \in 1..n
  BY <1>1, TopTyped
<1>4. IsSeq(t) /\ Len(t) = n /\ \A i \in 1..n : IsStream(t[i])
  BY <1>1, <1>2, <1>3, StreamChanges DEF Typed
<1>5. PICK y : y = Stream(data, TRUE)
  OBVIOUS
<1>6. IsStream(y)
  BY <1>5 DEF Stream, IsStream
<1>7. /\ IsSeq(Append(t, y)) /\ Len(Append(t, y)) = n + 1
      /\ Append(t, y)[n + 1] = y /\ \A i \in 1..n : Append(t, y)[i] = t[i]
  BY <1>4, AppendSeq
<1>8. \A i \in 1..(n + 1) : IsStream(Append(t, y)[i])
  BY <1>4, <1>6, <1>7
<1>9. Len(Append(t, y)) = Len(streams) + 1 /\ Len(streams) + 1 \in 1..Len(Append(t, y))
      /\ Top.strm < Len(streams) + 1
  BY <1>1, <1>3, <1>7
<1> QED
  BY <1>1, <1>2, <1>5, <1>7, <1>8, <1>9

LEMMA RestIsBytes == ASSUME NEW s, IsStream(s) PROVE Taken(s, Left(s)) \in Seq(Byte)
<1>1. Left(s) \in Nat /\ s.pos \in Nat
  BY LeftIsThere DEF IsStream
<1>2. SubSeq(s.data, s.pos + 0 + 1, s.pos + 0 + Left(s)) \in Seq(Byte)
  BY <1>1, TakenIsBytes
<1>3. s.pos + 0 + 1 = s.pos + 1 /\ s.pos + 0 + Left(s) = s.pos + Left(s)
  BY <1>1
<1> QED
  BY <1>2, <1>3 DEF Taken

LEMMA SwitchOpenTypes == ASSUME Inv, Typed, SwitchOpen PROVE Typed'
<1> DEFINE sibling == Resolve(TopNode.ref)
           cases == Case(TopNode, sibling.val)
           rest == Left(TopStream)
           drained == [streams EXCEPT ![Top.strm] = Advance(@, rest)]
           failure == IF ~sibling.ok THEN "Key"
                      ELSE IF sibling.val.t \in {"dict", "list"} THEN "Type"
                      ELSE IF cases = {} THEN "Key" ELSE ""
<1>1. ctl = "run" /\ Node[Top.fmt].kind = "switch"
  BY DEF SwitchOpen, Running, TopNode
<1>2. Len(frames) > 0
  BY <1>1, BusyTop DEF Busy
<1>3. Top.fmt \in Fmt /\ Fit(Top) /\ Top.strm \in 1..Len(streams) /\ Recounts(Top) /\ IsFrame(Top)
      /\ IsStream(TopStream)
  BY <1>2, TopTyped, TopRecounts, TopFacts
<1>4. IsStream(Advance(TopStream, rest))
  BY <1>3, LeftIsThere, AdvanceTyped
<1>5. drained = PutStream(Top.strm, Advance(TopStream, rest))
  BY DEF PutStream, TopStream
<1>6. failure \in Causes
  BY DEF Causes
<1>7. CASE streams' = drained /\ Raise(failure) /\ UNCHANGED <<config, dicts, parents, path, curFmt, tree, result>>
  <2>1. Aside
    BY <1>3, <1>4, <1>5, <1>7, AsideMoves DEF result
  <2> HIDE DEF failure
  <2> QED
    BY <1>2, <1>6, <1>7, <2>1, RaiseTypes
<1>8. ASSUME NEW i \in cases,
             CallInner(Top, TopNode.subs[i], NoKey, Len(streams) + 1,
                       Append(drained, Stream(Taken(TopStream, rest), TRUE)), nodes)
      PROVE  Typed'
  <2>1. i \in DOMAIN Node[Top.fmt].subs
    BY <1>8 DEF Case, TopNode
  <2>2. TopNode.subs[i] \in Fmt
    BY <1>3, <2>1, SubsAreFormats DEF TopNode
  <2>3. PICK ss : ss = Append(drained, Stream(Taken(TopStream, rest), TRUE))
    OBVIOUS
  <2>4. /\ IsSeq(ss) /\ Len(ss) = Len(streams) + 1
        /\ Len(streams) + 1 \in 1..Len(ss) /\ Top.strm < Len(streams) + 1
        /\ \A k \in 1..Len(ss) : IsStream(ss[k])
    <3>1. Taken(TopStream, rest) \in Seq(Byte)
      BY <1>3, RestIsBytes
    <3> HIDE DEF drained
    <3> QED
      BY <1>2, <1>4, <1>5, <2>3, <3>1, FramedStreams
  <2>5. Len(ss) >= Len(streams) /\ IsSeq(nodes) /\ Len(nodes) >= Len(nodes)
    BY <2>4, LengthsAreNat, StreamsAreThere DEF Sizable
  <2>6. Call([Top EXCEPT !.at = "inner"], TopNode.subs[i], NoKey, Len(streams) + 1, ss, path, nodes)
    BY <1>8, <2>3 DEF CallInner
  <2>7. ~IsContainer(Top) /\ Node[Top.fmt].kind \notin LeafKinds /\ Node[Top.fmt].kind \in Framing
    BY <1>1 DEF IsContainer, LeafKinds, Framing
  <2>8. Top.at \in Places /\ DOMAIN Top = FrameFields
    BY <1>3 DEF Fit, IsFrame
  <2> QED
    BY <1>1, <1>2, <1>3, <2>2, <2>4, <2>5, <2>6, <2>7, <2>8, CallInnerTypes
<1> QED
  BY <1>7, <1>8 DEF SwitchOpen

LEMMA PointerOffsetTypes == ASSUME Inv, Typed, PointerOffset PROVE Typed'
<1>1. /\ ctl = "run" /\ Node[Top.fmt].kind = "pointer"
      /\ Call([Top EXCEPT !.at = "offset"], TopNode.subs[1], Name("offset"), Top.strm, streams, path, nodes)
  BY DEF PointerOffset, Running, TopNode
<1>2. Len(frames) > 0
  BY <1>1, BusyTop DEF Busy
<1>3. Top.fmt \in Fmt /\ Fit(Top) /\ Top.strm \in 1..Len(streams) /\ Recounts(Top) /\ IsFrame(Top)
  BY <1>2, TopTyped, TopRecounts, TopFacts
<1>4. TopNode.subs[1] = Node[Top.fmt].subs[1] /\ TopNode.subs[1] \in Fmt
  BY <1>1, <1>3, SubsAreFormats DEF TopNode
<1>5. ~IsContainer(Top) /\ Node[Top.fmt].kind \notin LeafKinds /\ Node[Top.fmt].kind \notin Framing
  BY <1>1 DEF IsContainer, LeafKinds, Framing
<1>6. Top.at \in Places /\ DOMAIN Top = FrameFields
  BY <1>3 DEF Fit, IsFrame
<1> QED
  BY <1>1, <1>2, <1>3, <1>4, <1>5, <1>6, StreamsAreThere, CallInnerTypes

LEMMA PointerJumpTypes == ASSUME Inv, Typed, PointerJump PROVE Typed'
<1>1. ctl = "resume" /\ Node[Top.fmt].kind = "pointer" /\ Top.at = "offset"
  BY DEF PointerJump, Resuming, TopNode
<1>2. Len(frames) > 0
  BY <1>1, BusyTop DEF Busy
<1>3. Top.fmt \in Fmt /\ Fit(Top) /\ Top.strm \in 1..Len(streams) /\ Recounts(Top) /\ IsFrame(Top)
      /\ IsStream(TopStream)
  BY <1>2, TopTyped, TopRecounts, TopFacts
<1>4. CASE Return(Top, NoneV) /\ UNCHANGED <<config, streams, dicts, parents, path, curFmt, tree, result>>
  <2>1. Aside
    BY <1>4, AsideStill DEF result
  <2>2. ~MakesDict(Top.fmt)
    BY <1>1 DEF MakesDict
  <2> QED
    BY <1>2, <1>4, <2>1, <2>2, TopRecounts, ReturnTypes, ValuesAreTyped
<1>5. CASE CallInner([Top EXCEPT !.saved = TopStream.pos], TopNode.subs[2], Name("value"), Top.strm,
                     [streams EXCEPT ![Top.strm] = Seek(@, TopNode.num + val.n)], nodes)
  <2>1. PICK G : G = [Top EXCEPT !.saved = TopStream.pos]
    OBVIOUS
  <2>2. /\ G.fmt = Top.fmt /\ G.strm = Top.strm /\ G.outer = Top.outer /\ G.node = Top.node
        /\ G.at = Top.at /\ G.dict = Top.dict /\ G.idx = Top.idx /\ G.todo = Top.todo
        /\ G.pos0 = Top.pos0 /\ G.saved = TopStream.pos /\ G.item = Top.item /\ G.parents0 = Top.parents0
        /\ DOMAIN G = FrameFields
    BY <1>3, <2>1 DEF IsFrame, FrameFields
  <2>3. TopStream.pos \in Nat
    BY <1>3 DEF IsStream
  <2>4. Recounts(G)
    BY <1>1, <1>3, <2>2, <2>3 DEF Recounts, Fit, IsOpenMap
  <2>5. PICK p \in Nat : p = TopNode.num + val.n
    <3>1. TopNode.num \in Nat /\ val.n \in Nat
      BY <1>3, FormatAssumption DEF TopNode, Typed, ScalarsTyped, NatValues
    <3> QED
      BY <3>1
  <2>6. PICK ss : ss = PutStream(Top.strm, Seek(TopStream, p))
    OBVIOUS
  <2>7. IsSeq(ss) /\ Len(ss) = Len(streams) /\ \A k \in 1..Len(streams) : IsStream(ss[k])
    BY <1>3, <2>5, <2>6, SeekTyped, StreamChanges DEF Typed
  <2>8. Call([G EXCEPT !.at = "inner"], TopNode.subs[2], Name("value"), Top.strm, ss, path, nodes)
    BY <1>5, <2>1, <2>5, <2>6 DEF CallInner, PutStream, TopStream
  <2>9. TopNode.subs[2] = Node[Top.fmt].subs[2] /\ TopNode.subs[2] \in Fmt
    BY <1>1, <1>3, SubsAreFormats DEF TopNode
  <2>10. ~IsContainer(Top) /\ Node[Top.fmt].kind \notin LeafKinds /\ Node[Top.fmt].kind \notin Framing
    BY <1>1 DEF IsContainer, LeafKinds, Framing
  <2>11. G.at \in Places /\ DOMAIN G = FrameFields
    BY <1>3, <2>2 DEF Fit
  <2>12. Len(ss) >= Len(streams) /\ IsSeq(nodes) /\ Len(nodes) >= Len(nodes) /\ Top.strm \in 1..Len(ss)
    BY <1>3, <2>7, LengthsAreNat, StreamsAreThere DEF Sizable
  <2> QED
    BY <1>1, <1>2, <2>4, <2>7, <2>8, <2>9, <2>10, <2>11, <2>12, CallInnerTypes
<1> QED
  BY <1>4, <1>5 DEF PointerJump

LEMMA PointerBackTypes == ASSUME Inv, Typed, PointerBack PROVE Typed'
<1>1. /\ ctl = "resume" /\ Node[Top.fmt].kind = "pointer" /\ Return(Top, val)
      /\ streams' = PutStream(Top.strm, Seek(TopStream, Top.saved))
      /\ UNCHANGED <<config, dicts, parents, path, curFmt, tree, result>>
  BY DEF PointerBack, Resuming, TopNode, PutStream, TopStream
<1>2. Len(frames) > 0
  BY <1>1, BusyTop DEF Busy
<1>3. Fit(Top) /\ Top.strm \in 1..Len(streams) /\ IsStream(TopStream)
  BY <1>2, TopTyped
<1>4. Aside
  <2>1. IsStream(Seek(TopStream, Top.saved))
    BY <1>3, SeekTyped DEF Fit
  <2> QED
    BY <1>1, <1>3, <2>1, AsideMoves DEF result
<1>5. ~MakesDict(Top.fmt) /\ val \in NatValues
  BY <1>1 DEF MakesDict, Typed, ScalarsTyped
<1> QED
  BY <1>1, <1>2, <1>4, <1>5, TopRecounts, ReturnTypes

(* The nodes stay in place when one of them changes.                       *)
LEMMA NodesStay ==
    ASSUME Typed, NEW t, DOMAIN t = DOMAIN nodes, t = [i \in DOMAIN t |-> t[i]]
    PROVE  IsSeq(t) /\ Len(t) = Len(nodes)
<1>1. DOMAIN nodes = 1..Len(nodes) /\ Len(nodes) \in Nat
  BY DEF Typed, TreeTyped, IsSeq
<1> QED
  BY <1>1, IsSeqIntro

LEMMA SizeLeafKeeps ==
    ASSUME Inv, Typed, NEW N, NEW s, NEW length
    PROVE  LET ns == WithSizeLeaf(N, s, length) IN IsSeq(ns) /\ Len(ns) >= Len(nodes)
<1>1. IsSeq(nodes) /\ Len(nodes) \in Nat
  BY DEF Typed, TreeTyped, IsSeq
<1>2. PICK t : t = [nodes EXCEPT ![kidsOf].kids = Append(@, Len(nodes) + 1)]
  OBVIOUS
<1>3. DOMAIN t = DOMAIN nodes /\ t = [i \in DOMAIN t |-> t[i]]
  BY <1>2
<1>4. IsSeq(t) /\ Len(t) = Len(nodes)
  BY <1>3, NodesStay
<1>5. \A x : IsSeq(Append(t, x)) /\ Len(Append(t, x)) = Len(t) + 1
  BY <1>4, AppendSeq
<1>6. \/ WithSizeLeaf(N, s, length) = nodes
      \/ \E x : WithSizeLeaf(N, s, length) = Append(t, x)
  BY <1>2 DEF WithSizeLeaf
<1>7. \A x : Len(Append(t, x)) >= Len(nodes)
  BY <1>1, <1>4, <1>5
<1>8. Len(nodes) >= Len(nodes)
  BY <1>1
<1> QED
  BY <1>1, <1>5, <1>6, <1>7, <1>8

LEMMA SizedOpenTypes == ASSUME Inv, Typed, SizedOpen PROVE Typed'
<1>1. ctl = "run" /\ Node[Top.fmt].kind = "sized"
  BY DEF SizedOpen, Running, TopNode
<1>2. Len(frames) > 0
  BY <1>1, BusyTop DEF Busy
<1>3. Top.fmt \in Fmt /\ Fit(Top) /\ Top.strm \in 1..Len(streams) /\ Recounts(Top) /\ IsFrame(Top)
      /\ IsStream(TopStream) /\ IsSeq(parents) /\ ContextTyped
  BY <1>2, TopTyped, TopRecounts, TopFacts DEF Typed
<1>4. PICK length : length = SizedLength(TopNode, TopStream)
  OBVIOUS
<1>5. PICK r : r = Frame(TopNode, TopStream)
  OBVIOUS
<1>6. PICK ns : ns = WithSizeLeaf(TopNode, TopStream, length)
  OBVIOUS
<1>7. /\ IsResult(r)
      /\ r.ok => Taken(Advance(TopStream, length.used), r.val.n) \in Seq(Byte)
  BY <1>3, <1>4, <1>5, FramesTyped DEF TopNode
<1>8. IsSeq(ns) /\ Len(ns) >= Len(nodes)
  BY <1>6, SizeLeafKeeps
<1>9. CASE r.ok
  <2>1. PICK ss : ss = Append(PutStream(Top.strm, Advance(TopStream, r.used)),
                              Stream(Taken(Advance(TopStream, length.used), r.val.n), TRUE))
    OBVIOUS
  <2>2. CallInner(Top, TopNode.subs[1], NoKey, Len(streams) + 1, ss, ns)
    BY <1>4, <1>5, <1>6, <1>9, <2>1 DEF SizedOpen, PutStream, TopStream
  <2>3. IsStream(Advance(TopStream, r.used))
    BY <1>3, <1>7, AdvanceTyped DEF IsResult
  <2>4. /\ IsSeq(ss) /\ Len(ss) = Len(streams) + 1
        /\ Len(streams) + 1 \in 1..Len(ss) /\ Top.strm < Len(streams) + 1
        /\ \A k \in 1..Len(ss) : IsStream(ss[k])
    BY <1>2, <1>7, <1>9, <2>1, <2>3, FramedStreams
  <2>5. Len(ss) >= Len(streams)
    BY <2>4, LengthsAreNat DEF Sizable
  <2>6. Call([Top EXCEPT !.at = "inner"], TopNode.subs[1], NoKey, Len(streams) + 1, ss, path, ns)
    BY <2>2 DEF CallInner
  <2>7. TopNode.subs[1] = Node[Top.fmt].subs[1] /\ TopNode.subs[1] \in Fmt
    BY <1>1, <1>3, SubsAreFormats DEF TopNode, WrapKinds
  <2>8. /\ ~IsContainer(Top) /\ Node[Top.fmt].kind \notin LeafKinds /\ Node[Top.fmt].kind \in Framing
        /\ Node[Top.fmt].kind # "pointer"
    BY <1>1 DEF IsContainer, LeafKinds, Framing
  <2>9. Top.at \in Places /\ DOMAIN Top = FrameFields
    BY <1>3 DEF Fit, IsFrame
  <2> QED
    BY <1>1, <1>2, <1>3, <1>8, <2>4, <2>5, <2>6, <2>7, <2>8, <2>9, CallInnerTypes
<1>10. CASE ~r.ok
  <2>1. Deliver(r) /\ nodes' = ns /\ UNCHANGED <<config, dicts, parents, path, curFmt, kidsOf, result>>
    BY <1>4, <1>5, <1>6, <1>10 DEF SizedOpen
  <2>2. TreeTyped'
    <3>1. kidsOf \in 1..Len(nodes) /\ Len(nodes) \in Nat /\ Len(ns) \in Nat
      BY <1>8 DEF Typed, TreeTyped, IsSeq
    <3> QED
      BY <1>8, <2>1, <3>1 DEF TreeTyped
  <2> QED
    BY <1>2, <1>7, <1>8, <1>10, <2>1, <2>2, DeliverTypes DEF result
<1> QED
  BY <1>9, <1>10

LEMMA SizedCloseTypes == ASSUME Inv, Typed, SizedClose PROVE Typed'
<1>1. /\ ctl = "resume" /\ Node[Top.fmt].kind = "sized" /\ (Raise("Value") \/ Return(Top, val))
      /\ UNCHANGED <<config, streams, dicts, parents, path, curFmt, tree, result>>
  BY DEF SizedClose, Resuming, TopNode
<1>2. Len(frames) > 0
  BY <1>1, BusyTop DEF Busy
<1>3. Aside
  BY <1>1, AsideStill DEF result
<1>4. CASE Raise("Value")
  <2>1. "Value" \in Causes
    BY DEF Causes
  <2> QED
    BY <1>2, <1>3, <1>4, <2>1, RaiseTypes
<1>5. CASE Return(Top, val)
  <2>1. MakesDict(Top.fmt) => HoldsDict(val)
    <3>1. Top.fmt \in Fmt
      BY <1>2, TopTyped
    <3>2. MakesDict(Top.fmt) => MakesDict(Called(Top))
      BY <1>1, <3>1, FormatAssumption DEF MakesDict, Called
    <3> QED
      BY <1>1, <3>2 DEF Typed, ReturnTyped
  <2>2. val \in NatValues /\ dicts' = dicts
    BY <1>1 DEF Typed, ScalarsTyped
  <2> QED
    BY <1>2, <1>3, <1>5, <2>1, <2>2, TopRecounts, ReturnTypes DEF HoldsDict
<1> QED
  BY <1>1, <1>4, <1>5

-----------------------------------------------------------------------------
(* Returns, exceptions, and the end of the call.                           *)
LEMMA LeaveTypes == ASSUME Inv, Typed, Leave PROVE Typed'
<1>1. /\ ctl = "leave" /\ frames' = Under(frames) /\ streams' = SubSeq(streams, 1, Top.strm)
      /\ ctl' = (IF Len(frames) = 1 THEN "finish" ELSE "resume")
      /\ kidsOf' = (IF inspect THEN Top.outer ELSE kidsOf)
      /\ UNCHANGED <<config, val, exc, dicts, parents, path, curFmt, result>>
  BY DEF Leave
<1>2. Len(frames) > 0
  BY <1>1, BusyTop DEF Busy
<1>3. Within(Top, Len(streams), Len(nodes), Len(dicts)) /\ IsStream(TopStream) /\ Top.strm \in 1..Len(streams)
  BY <1>2, TopTyped
<1>4. streams' = SubSeq(PutStream(Top.strm, TopStream), 1, Top.strm)
  <2>1. PutStream(Top.strm, TopStream) = streams
    <3>1. DOMAIN streams = 1..Len(streams) /\ streams = [i \in DOMAIN streams |-> streams[i]]
      BY DEF Typed, StreamsTyped, IsSeq
    <3> QED
      BY <3>1 DEF PutStream, TopStream
  <2> QED
    BY <1>1, <2>1
<1>5. IsSeq(nodes') /\ Len(nodes') = Len(nodes)
  <2>1. DOMAIN nodes' = DOMAIN nodes /\ nodes' = [i \in DOMAIN nodes' |-> nodes'[i]]
    <3>1. nodes = [i \in DOMAIN nodes |-> nodes[i]]
      BY DEF Typed, TreeTyped, IsSeq
    <3>2. CASE inspect
      BY <3>2 DEF Leave
    <3>3. CASE ~inspect
      BY <3>1, <3>3 DEF Leave
    <3> QED
      BY <3>2, <3>3 DEF Typed, ScalarsTyped
  <2> QED
    BY <2>1, NodesStay
<1>6. kidsOf' \in 1..Len(nodes)
  BY <1>1, <1>3 DEF Within, Typed, TreeTyped
<1> QED
  BY <1>1, <1>2, <1>3, <1>4, <1>5, <1>6, PopTypes DEF result

LEMMA UnwindTypes == ASSUME Inv, Typed, Unwind PROVE Typed'
<1>1. PICK x : x = (IF Inside(Top) THEN Seek(TopStream, Top.saved) ELSE TopStream)
  OBVIOUS
<1>2. /\ ctl = "raise" /\ frames' = Under(frames)
      /\ streams' = SubSeq(PutStream(Top.strm, x), 1, Top.strm)
      /\ ctl' = (IF Len(frames) = 1 THEN "report" ELSE "raise")
      /\ UNCHANGED <<config, val, exc, dicts, parents, path, curFmt, tree, result>>
  BY <1>1 DEF Unwind, PutStream
<1>3. Len(frames) > 0
  BY <1>2, BusyTop DEF Busy
<1>4. IsStream(x)
  <2>1. IsStream(TopStream) /\ Top.saved \in Nat
    BY <1>3, TopTyped DEF Fit
  <2> QED
    BY <1>1, <2>1, SeekTyped
<1>5. IsSeq(nodes') /\ Len(nodes') = Len(nodes) /\ kidsOf' \in 1..Len(nodes)
  BY <1>2 DEF Typed, TreeTyped, tree
<1> QED
  BY <1>2, <1>3, <1>4, <1>5, PopTypes DEF result

(* The name that links a partial result into the one around it.            *)
LEMMA StitchedTyped ==
    ASSUME Inv, Typed
    PROVE  /\ IsSeq(Stitched) /\ Len(Stitched) = Len(dicts)
           /\ \A d \in 1..Len(dicts) : IsDict(Stitched[d])
<1> DEFINE Links(d) == {i \in 2..(Len(parents) - 1) : parents[i] = d /\ i - 1 <= Cardinality(Names)}
           link(d) == CHOOSE i \in Links(d) : TRUE
           place(i) == CHOOSE p \in Names : Rank(Names, p) = i - 1
           new(d) == IF Links(d) = {} THEN dicts[d]
                     ELSE Stored(dicts[d], path[place(link(d))].name, DictV(parents[link(d) + 1]))
<1>1. IsSeq(parents) /\ IsSeq(path) /\ IsSeq(dicts) /\ ContextTyped
  BY DEF Inv, Shape, Typed
<1>2. PICK n \in Nat : n = Len(dicts) /\ DOMAIN dicts = 1..n
  BY <1>1 DEF IsSeq
<1>3. Stitched = [d \in DOMAIN dicts |-> new(d)]
  BY DEF Stitched, StitchedBy
<1>4. ASSUME NEW d \in 1..n PROVE IsDict(new(d))
  <2>1. IsDict(dicts[d])
    BY <1>1, <1>2 DEF ContextTyped
  <2>2. CASE Links(d) = {}
    BY <2>1, <2>2
  <2>3. CASE Links(d) # {}
    <3>1. PICK i : i = link(d) /\ i \in Links(d)
      BY <2>3
    <3>2. PICK l \in Nat : l = Len(path)
      BY <1>1 DEF IsSeq
    <3>3. Names \subseteq 0..l
      BY <1>1, <3>2 DEF Names, IsSeq
    <3>4. PICK c \in Nat : c = Cardinality(Names)
      BY <3>2, <3>3, FiniteUpto, FS_CardinalityType
    <3>5. i \in 2..(Len(parents) - 1) /\ Len(parents) \in Nat /\ i - 1 <= c
      BY <1>1, <3>1, <3>4 DEF IsSeq
    <3>6. i - 1 \in 1..c
      BY <3>4, <3>5
    <3>7. \E p \in Names : Rank(Names, p) = i - 1
      BY <3>2, <3>3, <3>4, <3>6, RankReaches
    <3>8. PICK p \in Names : p = place(i)
      BY <3>7
    <3>9. path[p] \in Keys /\ IsName(path[p])
      <4>1. DOMAIN path = 1..Len(path)
        BY <1>1 DEF IsSeq
      <4> QED
        BY <1>1, <4>1 DEF Names, ContextTyped
    <3>10. path[p].name \in FieldNames
      BY <3>9, KeysAreTyped
    <3>11. parents[i + 1] \in Nat
      <4>1. i + 1 \in 1..Len(parents)
        BY <3>5
      <4> QED
        BY <1>1, <4>1 DEF ContextTyped
    <3>12. IsDict(Stored(dicts[d], path[p].name, DictV(parents[i + 1])))
      BY <2>1, <3>10, <3>11, StoredTyped, ValuesAreTyped
    <3> QED
      BY <2>3, <3>1, <3>8, <3>12
  <2> QED
    BY <2>2, <2>3
<1> HIDE DEF new
<1>5. PICK t : t = Stitched
  OBVIOUS
<1>6. t = [d \in 1..n |-> t[d]] /\ \A d \in 1..n : t[d] = new(d)
  BY <1>2, <1>3, <1>5
<1>7. IsSeq(t) /\ Len(t) = n
  BY <1>6, IsSeqIntro
<1> QED
  BY <1>2, <1>4, <1>5, <1>6, <1>7

LEMMA EndTypes == ASSUME Inv, Typed, Finish \/ Report PROVE Typed'
<1>1. /\ ctl \in {"finish", "report"} /\ ctl' = "done" /\ outcome' \in {"ok", "excess", "error"}
      /\ dicts' = dicts \/ dicts' = Stitched
      /\ UNCHANGED <<config, frames, val, exc, streams, parents, path, curFmt, tree>>
  BY DEF Finish, Report
<1>2. Len(frames) = 0
  BY <1>1 DEF Typed, ScalarsTyped
<1>3. ScalarsTyped'
  BY <1>1, <1>2 DEF Typed, ScalarsTyped, config
<1>4. StreamsTyped' /\ TreeTyped'
  BY <1>1 DEF Typed, StreamsTyped, TreeTyped, tree
<1>5. Len(dicts') = Len(dicts) /\ \A d \in 1..Len(dicts) : IsDict(dicts'[d])
  BY <1>1, StitchedTyped DEF Typed, ContextTyped
<1>6. ContextTyped'
  BY <1>1, <1>5 DEF Typed, ContextTyped
<1>7. StackTyped'
  BY <1>1, <1>2 DEF StackTyped, FramesFit
<1>8. ReturnTyped'
  BY <1>1 DEF ReturnTyped
<1> QED
  BY <1>3, <1>4, <1>6, <1>7, <1>8 DEF Typed

LEMMA LeafTypes == ASSUME Inv, Typed, DecodeLeaf PROVE Typed'
<1>1. /\ ctl = "run" /\ TopNode.kind \in LeafKinds /\ Deliver(LeafRead(TopNode, TopStream))
      /\ UNCHANGED <<config, dicts, parents, path, curFmt, tree, result>>
  BY DEF DecodeLeaf
<1>2. Len(frames) > 0
  BY <1>1, BusyTop DEF Busy
<1>3. Top.fmt \in Fmt /\ IsStream(TopStream)
  BY <1>2, TopTyped
<1>4. IsResult(LeafRead(TopNode, TopStream))
  BY <1>1, <1>3, LeavesRead DEF TopNode
<1>5. ~MakesDict(Top.fmt)
  BY <1>1 DEF MakesDict, TopNode, LeafKinds
<1>6. TreeTyped' /\ Len(nodes') >= Len(nodes)
  BY <1>1, LengthsAreNat DEF Typed, TreeTyped, tree, Sizable
<1> QED
  BY <1>1, <1>2, <1>4, <1>5, <1>6, DeliverTypes DEF result

(* Every step keeps the types.                                             *)
LEMMA StepTyped == ASSUME Inv, Typed, Next PROVE Typed'
  BY LeafTypes, MapEnterTypes, MapFieldTypes, MapStoreTypes, MapExitTypes, TupleItemTypes, ArrayItemTypes,
     ItemStoreTypes, ItemsExitTypes, GreedyCatchTypes, ArrayGreedyTypes, ArrayCountTypes, WrapOpenTypes,
     WrapCloseTypes, SwitchOpenTypes, PointerOffsetTypes, PointerJumpTypes, PointerBackTypes,
     SizedOpenTypes, SizedCloseTypes, LeaveTypes, UnwindTypes, EndTypes, Zenon DEF Next

LEMMA InitTyped == ASSUME Init PROVE Typed
<1> DEFINE G(root) == NewFrame(root, NoKey, 1, 0, 2, 1, <<1>>, <<>>)
<1>1. PICK root \in Fmt : frames = <<G(root)>> /\ curFmt = root
  BY DecodeAssumption DEF Init
<1>2. PICK s : streams = <<s>> /\ IsStream(s)
  <2>1. PICK data \in Inputs : streams = <<Stream(data, entry # "unseekable")>>
    BY DEF Init
  <2>2. data \in Seq(Byte)
    BY DecodeAssumption
  <2>3. PICK y \in BOOLEAN : y = (entry # "unseekable")
    OBVIOUS
  <2>4. IsStream(Stream(data, y))
    BY <2>2 DEF Stream, IsStream
  <2> QED
    BY <2>1, <2>3, <2>4
<1>3. IsSeq(streams) /\ Len(streams) = 1 /\ streams[1] = s
  BY <1>2 DEF IsSeq
<1>4. /\ entry \in Entries /\ inspect \in Inspects /\ ctl = "run" /\ val = NoneV
      /\ dicts = <<<<>>>> /\ parents = <<1>> /\ path = <<>> /\ outcome = "none"
      /\ kidsOf = (IF inspect THEN 2 ELSE 1)
  BY DEF Init
<1>5. /\ Len(dicts) = 1 /\ dicts[1] = <<>> /\ Len(parents) = 1 /\ parents[1] = 1 /\ Len(path) = 0
  BY <1>4
<1>6. PICK n \in {1, 2} : n = (IF inspect THEN 2 ELSE 1)
  OBVIOUS
<1>7. IsSeq(nodes) /\ Len(nodes) = n
  <2>1. nodes = [i \in 1..n |-> nodes[i]]
    BY <1>6 DEF Init
  <2> QED
    BY <2>1, IsSeqIntro
<1>8. Len(frames) = 1 /\ frames[1] = G(root) /\ Top = G(root)
  BY <1>1 DEF Top
<1>9. /\ G(root).fmt = root /\ G(root).strm = 1 /\ G(root).at = "enter" /\ G(root).idx = 0
      /\ G(root).todo = 0 /\ G(root).pos0 = 0 /\ G(root).saved = 0 /\ G(root).outer = 1
      /\ G(root).node = 2 /\ G(root).parents0 = <<1>>
  BY DEF NewFrame
<1> HIDE DEF G
<1>10. ScalarsTyped
  <2>1. exc \in Causes
    <3>1. exc = ""
      BY DEF Init
    <3> QED
      BY <3>1, Zenon DEF Causes
  <2>2. Len(frames) # 0
    BY <1>8
  <2> QED
    BY <1>1, <1>4, <2>1, <2>2, ValuesAreTyped DEF ScalarsTyped
<1>11. StreamsTyped
  BY <1>2, <1>3 DEF StreamsTyped
<1>12. ContextTyped
  <2>1. IsDict(<<>>)
    BY DEF IsDict
  <2> QED
    BY <1>5, <2>1 DEF ContextTyped
<1>13. TreeTyped
  BY <1>4, <1>6, <1>7 DEF TreeTyped
<1>14. Fit(G(root))
  <2>1. 0 <= Len(Node[root].subs)
    BY FormatAssumption, LenProperties
  <2>2. Len(<<1>>) > 0
    OBVIOUS
  <2> QED
    BY <1>1, <1>9, <2>1, <2>2 DEF Fit, Places
<1>15. Within(G(root), 1, n, 1)
  BY <1>6, <1>9 DEF Within, IsOpenMap
<1>16. StackTyped
  BY <1>3, <1>5, <1>7, <1>8, <1>9, <1>14, <1>15 DEF StackTyped, FramesFit
<1>17. ReturnTyped
  BY <1>4 DEF ReturnTyped
<1> QED
  BY <1>10, <1>11, <1>12, <1>13, <1>16, <1>17 DEF Typed

LEMMA StutterTyped == ASSUME Typed, UNCHANGED vars PROVE Typed'
<1>1. UNCHANGED <<entry, inspect, frames, ctl, val, exc, streams, dicts, parents, path, curFmt, nodes,
                  kidsOf, outcome>>
  BY DEF vars, config, flow, tree, result
<1>2. ScalarsTyped' /\ StreamsTyped' /\ ContextTyped' /\ TreeTyped'
  BY <1>1 DEF Typed, ScalarsTyped, StreamsTyped, ContextTyped, TreeTyped
<1>3. StackTyped'
  BY <1>1 DEF Typed, StackTyped, FramesFit, Within
<1>4. ReturnTyped'
  BY <1>1 DEF Typed, ReturnTyped, HoldsDict, Top
<1> QED
  BY <1>2, <1>3, <1>4 DEF Typed

LEMMA Typing == Spec => [](Inv /\ Typed)
<1>1. ASSUME Init PROVE Inv /\ Typed
  BY <1>1, InitInv, InitTyped
<1>2. ASSUME Inv, Typed, [Next]_vars PROVE Inv' /\ Typed'
  BY <1>2, StepInv, StutterInv, StepTyped, StutterTyped
<1> QED
  BY <1>1, <1>2, PTL DEF Spec

(* The type invariant.                                                     *)
LEMMA TypesSuffice == ASSUME Inv, Typed PROVE TypeOK
<1>1. /\ IsSeq(frames) /\ IsSeq(streams) /\ IsSeq(dicts) /\ IsSeq(nodes) /\ IsSeq(parents) /\ IsSeq(path)
  BY DEF Inv, Shape, Typed, StreamsTyped, TreeTyped
<1>2. /\ DOMAIN frames = 1..Len(frames) /\ DOMAIN streams = 1..Len(streams)
      /\ DOMAIN dicts = 1..Len(dicts) /\ DOMAIN nodes = 1..Len(nodes)
  BY <1>1 DEF IsSeq
<1>3. val \in Values
  BY DEF Typed, ScalarsTyped, NatValues, Values
<1>4. \A i \in DOMAIN streams : streams[i].data \in Seq(Byte) /\ streams[i].pos \in Nat
  BY <1>2 DEF Typed, StreamsTyped, IsStream
<1>5. \A i \in DOMAIN dicts : \A k \in DOMAIN dicts[i] : k \in FieldNames /\ dicts[i][k] \in Values
  <2>1. NatValues \subseteq Values
    BY DEF NatValues, Values
  <2> QED
    BY <1>2, <2>1 DEF Typed, ContextTyped, IsDict
<1>6. ASSUME NEW s, IsSeq(s), NEW S, \A i \in 1..Len(s) : s[i] \in S PROVE s \in Seq(S)
  <2>1. s \in [1..Len(s) -> S] /\ Len(s) \in Nat
    BY <1>6 DEF IsSeq
  <2> QED
    BY <2>1, SeqDef
<1>7. parents \in Seq(DOMAIN dicts) /\ parents # <<>>
  <2>1. Len(parents) > 0 /\ \A i \in 1..Len(parents) : parents[i] \in DOMAIN dicts
    BY <1>2 DEF Typed, ContextTyped
  <2> QED
    BY <1>1, <1>6, <2>1
<1>8. path \in Seq(Keys)
  <2>1. \A i \in 1..Len(path) : path[i] \in Keys
    BY DEF Typed, ContextTyped
  <2> QED
    BY <1>1, <1>6, <2>1
<1>9. (ctl \in {"finish", "report", "done"}) = (frames = <<>>)
  <2>1. (Len(frames) = 0) <=> (frames = <<>>)
    <3>1. ASSUME Len(frames) = 0 PROVE frames = <<>>
      <4>1. \A i \in 1..Len(frames) : frames[i] \in {}
        BY <3>1
      <4>2. frames \in Seq({})
        BY <1>1, <1>6, <4>1
      <4> QED
        BY <3>1, <4>2
    <3> QED
      BY <3>1
  <2> QED
    BY <2>1 DEF Typed, ScalarsTyped
<1>10. ASSUME NEW i \in DOMAIN frames
       PROVE  /\ frames[i].fmt \in Fmt
              /\ frames[i].strm \in DOMAIN streams
              /\ frames[i].at \in Places
              /\ frames[i].outer \in DOMAIN nodes
              /\ inspect => frames[i].node \in DOMAIN nodes
              /\ IsOpenMap(frames[i]) => frames[i].dict \in DOMAIN dicts
  <2>1. Fit(frames[i]) /\ Within(frames[i], Len(streams), Len(nodes), Len(dicts))
    BY <1>2 DEF Typed, StackTyped, FramesFit
  <2> QED
    BY <1>2, <2>1 DEF Fit, Within
<1>11. /\ entry \in Entries /\ inspect \in Inspects /\ ctl \in Controls /\ exc \in Causes
       /\ curFmt \in Fmt /\ kidsOf \in DOMAIN nodes /\ outcome \in {"none", "ok", "excess", "error"}
  BY <1>2 DEF Inv, Shape, Typed, ScalarsTyped, TreeTyped
<1> QED
  BY <1>3, <1>4, <1>5, <1>7, <1>8, <1>9, <1>10, <1>11 DEF TypeOK, Places, Causes

(* Whatever the formats, the input and the exceptions swallowed on the     *)
(* way, the state of a decode stays within its types: a frame never refers *)
(* to a stream, a mapping or a node that is not there, the context is      *)
(* never without a parent, and a path holds names of fields and indices.   *)
THEOREM TypesAreKept == Spec => []TypeOK
<1>1. ASSUME Inv, Typed PROVE TypeOK
  BY <1>1, TypesSuffice
<1> QED
  BY <1>1, Typing, PTL

-----------------------------------------------------------------------------
(* The inductive invariant behind SizeofIsConsumed.  A frame whose format  *)
(* has a size stands where the fields or items before the one it works on  *)
(* end; one that waits has called there, a Pointer remembers where its     *)
(* offset ends, and a Sized has taken all of its bytes.                    *)
Placed(F, G, ss) ==
    Fixed(F.fmt) =>
      /\ Node[F.fmt].kind = "map" => G.pos0 = F.pos0 + Part(F.fmt, F.idx - 1)
      /\ Node[F.fmt].kind \in {"tuple", "array"} => G.pos0 = F.pos0 + Part(F.fmt, F.idx)
      /\ Node[F.fmt].kind = "pointer" => IF F.at = "offset" THEN G.pos0 = F.pos0
                                         ELSE F.saved = F.pos0 + SizeOf[F.fmt]
      /\ Node[F.fmt].kind = "sized" => ss[F.strm].pos = F.pos0 + SizeOf[F.fmt]

Stands(c, F, pos) ==
    Fixed(F.fmt) =>
      /\ c = "run" => pos = F.pos0 + (IF Node[F.fmt].kind \in Counted THEN Part(F.fmt, F.idx) ELSE 0)
      /\ c = "leave" => pos = F.pos0 + SizeOf[F.fmt]
      /\ c = "resume" =>
            /\ Node[F.fmt].kind = "map" => pos = F.pos0 + Part(F.fmt, F.idx)
            /\ Node[F.fmt].kind \in {"tuple", "array"} => pos = F.pos0 + Part(F.fmt, F.idx + 1)
            /\ Node[F.fmt].kind = "pointer" => IF F.at = "offset" THEN pos = F.pos0 + SizeOf[F.fmt]
                                               ELSE F.saved = F.pos0 + SizeOf[F.fmt]
            /\ Node[F.fmt].kind = "sized" => pos = F.pos0 + SizeOf[F.fmt]

Placing ==
    /\ \A i \in 1..Len(streams) : streams[i].seekable
    /\ \A i \in 1..(Len(frames) - 1) : Placed(frames[i], frames[i + 1], streams)
    /\ Len(frames) > 0 => Stands(ctl, Top, TopStream.pos)

Positions == entry # "unseekable" => Placing

(* The streams below the running frame's are as they were.                 *)
Behind(ss) == /\ \A k \in 1..(Top.strm - 1) : ss[k] = streams[k]
              /\ \A k \in 1..Len(ss) : ss[k].seekable

SameFrame(F) == F.fmt = Top.fmt /\ F.strm = Top.strm /\ F.pos0 = Top.pos0

LEMMA PlacedBelow ==
    ASSUME Inv, Typed, Placing, NEW ss, Behind(ss), NEW i \in 1..(Len(frames) - 1)
    PROVE  Placed(frames[i], frames[i + 1], ss)
<1>1. PICK n \in Nat : n = Len(frames) /\ i \in 1..(n - 1)
  BY LengthsAreNat
<1>2. Placed(frames[i], frames[i + 1], streams)
  BY DEF Placing
<1>3. Calls(frames[i], frames[i + 1]) /\ frames[i + 1].strm <= frames[n].strm
  <2>1. n \in 1..n /\ i + 1 \in 1..n
    BY <1>1
  <2> QED
    BY <1>1, <2>1 DEF Typed, StackTyped, FramesFit
<1>4. frames[i].strm \in 1..Len(streams) /\ frames[i + 1].strm \in 1..Len(streams)
      /\ frames[n].strm \in 1..Len(streams)
  <2>1. i \in 1..n /\ i + 1 \in 1..n /\ n \in 1..n
    BY <1>1
  <2> QED
    BY <1>1, <2>1 DEF Typed, StackTyped, FramesFit, Within
<1>5. Node[frames[i].fmt].kind = "sized" => ss[frames[i].strm] = streams[frames[i].strm]
  <2>1. ASSUME Node[frames[i].fmt].kind = "sized" PROVE frames[i].strm \in 1..(Top.strm - 1)
    <3>1. frames[i].strm < frames[i + 1].strm
      BY <1>3, <2>1 DEF Calls, Framing
    <3>2. Top.strm = frames[n].strm
      BY <1>1 DEF Top
    <3> QED
      BY <1>3, <1>4, <3>1, <3>2, LengthsAreNat DEF Sizable
  <2> QED
    BY <2>1 DEF Behind
<1> QED
  BY <1>2, <1>5 DEF Placed

(* The running frame goes on, ends or raises.                              *)
LEMMA StayPlaces ==
    ASSUME Inv, Typed, Placing, Len(frames) > 0, NEW F, SameFrame(F), frames' = WithTop(F),
           Behind(streams'), Stands(ctl', F, streams'[F.strm].pos)
    PROVE  Placing'
<1>1. PICK n \in Nat : n = Len(frames) /\ n > 0
  BY LengthsAreNat
<1>2. /\ Len(frames') = n /\ frames'[n] = F
      /\ \A i \in 1..(n - 1) : frames'[i] = frames[i]
  BY <1>1, WithTopSeq DEF Inv, Shape
<1>3. ASSUME NEW i \in 1..(n - 1) PROVE Placed(frames'[i], frames'[i + 1], streams')
  <2>1. Placed(frames[i], frames[i + 1], streams')
    BY <1>1, PlacedBelow
  <2>2. frames'[i + 1].pos0 = frames[i + 1].pos0
    BY <1>1, <1>2 DEF SameFrame, Top
  <2> QED
    BY <1>2, <2>1, <2>2 DEF Placed
<1>4. Stands(ctl', Top', TopStream'.pos)
  BY <1>2 DEF Top, TopStream
<1> QED
  BY <1>2, <1>3, <1>4 DEF Placing, Behind

LEMMA ReturnPlaces ==
    ASSUME Inv, Typed, Placing, Len(frames) > 0, NEW F, SameFrame(F), NEW v, Return(F, v), Behind(streams'),
           Fixed(Top.fmt) => streams'[Top.strm].pos = Top.pos0 + SizeOf[Top.fmt]
    PROVE  Placing'
<1>1. Stands(ctl', F, streams'[F.strm].pos)
  BY DEF Stands, SameFrame, Return
<1> QED
  BY <1>1, StayPlaces DEF Return

LEMMA RaisePlaces ==
    ASSUME Inv, Typed, Placing, Len(frames) > 0, NEW e, Raise(e), Behind(streams')
    PROVE  Placing'
<1>1. frames' = WithTop(Top) /\ SameFrame(Top) /\ ctl' = "raise"
  BY TopRecounts DEF Raise, SameFrame
<1>2. Stands(ctl', Top, streams'[Top.strm].pos)
  BY <1>1 DEF Stands
<1> QED
  BY <1>1, <1>2, StayPlaces

LEMMA StreamFields ==
    ASSUME NEW s, IsStream(s)
    PROVE  /\ \A k : Advance(s, k).pos = s.pos + k /\ Advance(s, k).seekable = s.seekable
           /\ \A p : Seek(s, p).seekable = s.seekable /\ (s.seekable => Seek(s, p).pos = p)
           /\ \A data : Stream(data, TRUE).seekable /\ Stream(data, TRUE).pos = 0
  BY DEF IsStream, Advance, Seek, Stream

(* What is behind the running frame when its own stream changes.           *)
LEMMA PutBehind ==
    ASSUME Inv, Typed, Placing, Len(frames) > 0, NEW x, IsStream(x), x.seekable
    PROVE  Behind(PutStream(Top.strm, x)) /\ PutStream(Top.strm, x)[Top.strm] = x
<1>1. Top.strm \in 1..Len(streams) /\ Len(streams) \in Nat
  BY TopTyped, LengthsAreNat DEF Sizable
<1>2. PICK t : t = PutStream(Top.strm, x)
  OBVIOUS
<1>3. Len(t) = Len(streams) /\ \A i \in 1..Len(streams) : t[i] = IF i = Top.strm THEN x ELSE streams[i]
  BY <1>1, <1>2, StreamChanges DEF Typed
<1>4. \A k \in 1..(Top.strm - 1) : k \in 1..Len(streams) /\ k # Top.strm
  BY <1>1
<1> QED
  BY <1>1, <1>2, <1>3, <1>4 DEF Behind, Placing

LEMMA StreamsBehind ==
    ASSUME Inv, Typed, Placing, Len(frames) > 0
    PROVE  Behind(streams) /\ TopStream.seekable /\ IsStream(TopStream)
  BY TopTyped DEF Behind, Placing, TopStream

(* The running frame ends by what it has read.                             *)
LEMMA DeliverPlaces ==
    ASSUME Inv, Typed, Placing, Len(frames) > 0, NEW r, IsResult(r), Deliver(r),
           r.ok /\ Fixed(Top.fmt) => TopStream.pos + r.used = Top.pos0 + SizeOf[Top.fmt]
    PROVE  Placing'
<1>1. PICK x : x = Advance(TopStream, r.used)
  OBVIOUS
<1>2. IsStream(x) /\ x.seekable /\ x.pos = TopStream.pos + r.used
  BY <1>1, StreamsBehind, StreamFields, AdvanceTyped DEF IsResult
<1>3. streams' = PutStream(Top.strm, x)
  BY <1>1 DEF Deliver, TopStream, PutStream
<1>4. Behind(PutStream(Top.strm, x)) /\ PutStream(Top.strm, x)[Top.strm] = x
  BY <1>2, PutBehind
<1>5. Behind(streams') /\ streams'[Top.strm] = x
  BY <1>3, <1>4
<1>6. CASE r.ok
  <2>1. Return(Top, r.val) /\ SameFrame(Top)
    BY <1>6 DEF Deliver, SameFrame
  <2>2. Fixed(Top.fmt) => streams'[Top.strm].pos = Top.pos0 + SizeOf[Top.fmt]
    BY <1>2, <1>5, <1>6
  <2> QED
    BY <1>5, <2>1, <2>2, ReturnPlaces
<1>7. CASE ~r.ok
  BY <1>5, <1>7, RaisePlaces DEF Deliver
<1> QED
  BY <1>6, <1>7 DEF IsResult

LEMMA CallPlaces ==
    ASSUME Inv, Typed, Placing, Len(frames) > 0, NEW F, SameFrame(F),
           NEW f \in Fmt, NEW key, NEW ss, Behind(ss), NEW s \in 1..Len(ss), ss[s].pos \in Nat,
           NEW pa, NEW ns,
           \A G : G.pos0 = ss[s].pos => Placed(F, G, ss),
           Call(F, f, key, s, ss, pa, ns)
    PROVE  Placing'
<1>1. streams' = ss
  BY DEF Call
<1>2. CASE Len(frames) = MaxDepth
  <2>1. frames' = WithTop(F) /\ ctl' = "raise"
    BY <1>2 DEF Call
  <2>2. Stands(ctl', F, streams'[F.strm].pos)
    BY <2>1 DEF Stands
  <2> QED
    BY <1>1, <2>1, <2>2, StayPlaces
<1>3. CASE Len(frames) # MaxDepth
  <2>1. PICK G : G = NewFrame(f, key, s, ss[s].pos, Len(ns) + 1, kidsOf, parents, pa)
    OBVIOUS
  <2>2. G.fmt = f /\ G.strm = s /\ G.pos0 = ss[s].pos /\ G.idx = 0
    BY <2>1 DEF NewFrame
  <2>3. frames' = Append(WithTop(F), G) /\ ctl' = "run"
    BY <1>3, <2>1 DEF Call
  <2>4. PICK n \in Nat : n = Len(frames) /\ n > 0
    BY LengthsAreNat
  <2>5. /\ IsSeq(WithTop(F)) /\ Len(WithTop(F)) = n /\ WithTop(F)[n] = F
        /\ \A i \in 1..(n - 1) : WithTop(F)[i] = frames[i]
    BY <2>4, WithTopSeq DEF Inv, Shape
  <2>6. /\ Len(frames') = n + 1 /\ frames'[n + 1] = G
        /\ \A i \in 1..n : frames'[i] = WithTop(F)[i]
    BY <2>3, <2>5, AppendSeq
  <2>7. frames'[n] = F /\ \A i \in 1..(n - 1) : frames'[i] = frames[i]
    BY <2>4, <2>5, <2>6
  <2>8. ASSUME NEW i \in 1..n PROVE Placed(frames'[i], frames'[i + 1], ss)
    <3>1. CASE i = n
      BY <2>2, <2>6, <2>7, <3>1
    <3>2. CASE i \in 1..(n - 1)
      <4>1. Placed(frames[i], frames[i + 1], ss)
        BY <2>4, <3>2, PlacedBelow
      <4>2. frames'[i + 1].pos0 = frames[i + 1].pos0
        <5>1. CASE i = n - 1
          BY <2>4, <2>7, <5>1 DEF SameFrame, Top
        <5>2. CASE i # n - 1
          BY <2>4, <2>7, <3>2, <5>2
        <5> QED
          BY <5>1, <5>2
      <4> QED
        BY <2>7, <3>2, <4>1, <4>2 DEF Placed
    <3> QED
      BY <3>1, <3>2
  <2>9. Stands("run", G, ss[s].pos)
    <3>1. Node[f].kind \in Counted => Part(f, 0) = 0
      BY PartsOfFields, PartsOfItems DEF Counted
    <3> QED
      BY <2>2, <3>1 DEF Stands
  <2>10. Stands(ctl', Top', TopStream'.pos)
    BY <1>1, <2>2, <2>3, <2>6, <2>9 DEF Top, TopStream
  <2>11. Len(frames') - 1 = n
    BY <2>6
  <2> QED
    BY <1>1, <2>8, <2>10, <2>11 DEF Placing, Behind
<1> QED
  BY <1>2, <1>3

(* The stream stays where it is.                                           *)
LEMMA StillPlaces ==
    ASSUME Inv, Typed, Placing, Len(frames) > 0, NEW F, SameFrame(F), frames' = WithTop(F),
           UNCHANGED streams, Stands(ctl', F, TopStream.pos)
    PROVE  Placing'
<1>1. Behind(streams') /\ streams'[F.strm] = TopStream
  BY StreamsBehind DEF SameFrame, TopStream
<1> QED
  BY <1>1, StayPlaces

LEMMA EndPlaces ==
    ASSUME Inv, Typed, Placing, Len(frames) > 0, NEW v, Return(Top, v), UNCHANGED streams,
           Fixed(Top.fmt) => TopStream.pos = Top.pos0 + SizeOf[Top.fmt]
    PROVE  Placing'
  BY StreamsBehind, ReturnPlaces DEF SameFrame, TopStream

(* Where the running frame and its stream stand.                           *)
LEMMA TopStands ==
    ASSUME Inv, Typed, Placing, Len(frames) > 0
    PROVE  /\ Stands(ctl, Top, TopStream.pos)
           /\ Fit(Top) /\ Top.fmt \in Fmt /\ Top.pos0 \in Nat /\ TopStream.pos \in Nat
           /\ SizeOf[Top.fmt] \in Int
<1>1. Fit(Top) /\ IsStream(TopStream) /\ Top.fmt \in Fmt
  BY TopTyped
<1> QED
  BY <1>1, SizesByKind DEF Placing, Fit, IsStream

(* The formats without a size.                                             *)
LEMMA LeafPlaces == ASSUME Inv, Typed, Placing, DecodeLeaf PROVE Placing'
<1>1. PICK r : r = LeafRead(Node[Top.fmt], TopStream)
  OBVIOUS
<1>2. ctl = "run" /\ Node[Top.fmt].kind \in LeafKinds /\ Deliver(r)
  BY <1>1 DEF DecodeLeaf, TopNode
<1>3. Len(frames) > 0
  BY <1>2, BusyTop DEF Busy
<1>4. IsResult(r) /\ (r.ok /\ Fixed(Top.fmt) => r.used = SizeOf[Top.fmt])
  BY <1>1, <1>2, <1>3, TopTyped, LeavesRead
<1>5. Fixed(Top.fmt) => TopStream.pos = Top.pos0
  BY <1>2, <1>3, TopStands DEF Stands, Counted, LeafKinds
<1>6. r.ok /\ Fixed(Top.fmt) => TopStream.pos + r.used = Top.pos0 + SizeOf[Top.fmt]
  BY <1>4, <1>5
<1> QED
  BY <1>2, <1>3, <1>4, <1>6, DeliverPlaces

LEMMA MapEnterPlaces == ASSUME Inv, Typed, Placing, MapEnter PROVE Placing'
<1>1. PICK F : F = [Top EXCEPT !.at = "loop", !.dict = Len(dicts) + 1]
  OBVIOUS
<1>2. ctl = "run" /\ ctl' = "run" /\ frames' = WithTop(F) /\ UNCHANGED streams
  BY <1>1 DEF MapEnter, Running
<1>3. Len(frames) > 0
  BY <1>2, BusyTop DEF Busy
<1>4. F.fmt = Top.fmt /\ F.strm = Top.strm /\ F.idx = Top.idx /\ F.pos0 = Top.pos0
  BY <1>1, <1>3, TopFacts DEF IsFrame, FrameFields
<1>5. Stands(ctl', F, TopStream.pos)
  BY <1>2, <1>3, <1>4, TopStands DEF Stands
<1> QED
  BY <1>2, <1>3, <1>4, <1>5, StillPlaces DEF SameFrame

LEMMA MapFieldPlaces == ASSUME Inv, Typed, Placing, MapField PROVE Placing'
<1>1. ctl = "run" /\ Node[Top.fmt].kind = "map"
  BY DEF MapField, Running, TopNode
<1>2. Len(frames) > 0
  BY <1>1, BusyTop DEF Busy
<1>3. CASE Raise("Value") /\ UNCHANGED streams
  BY <1>2, <1>3, RaisePlaces, StreamsBehind
<1>4. ASSUME NEW i \in DOMAIN TopNode.subs, i = Top.idx + 1, NEW key,
             Call([Top EXCEPT !.idx = i, !.item = key], TopNode.subs[i], key, Top.strm,
                  streams, Append(path, key), nodes)
      PROVE  Placing'
  <2>1. PICK F : F = [Top EXCEPT !.idx = i, !.item = key]
    OBVIOUS
  <2>2. F.fmt = Top.fmt /\ F.strm = Top.strm /\ F.idx = i /\ F.pos0 = Top.pos0
    BY <1>2, <2>1, TopFacts DEF IsFrame, FrameFields
  <2>3. Top.fmt \in Fmt /\ Top.strm \in 1..Len(streams) /\ Top.idx \in Nat
    BY <1>2, TopTyped DEF Fit
  <2>4. TopNode.subs[i] \in Fmt
    BY <2>3, SubsAreFormats DEF TopNode
  <2>5. Fixed(Top.fmt) => TopStream.pos = Top.pos0 + Part(Top.fmt, Top.idx)
    BY <1>1, <1>2, TopStands DEF Stands, Counted
  <2>6. ASSUME NEW G, G.pos0 = streams[Top.strm].pos PROVE Placed(F, G, streams)
    <3>1. i - 1 = Top.idx /\ Node[F.fmt].kind = "map"
      BY <1>1, <1>4, <2>2, <2>3
    <3> QED
      BY <2>2, <2>5, <2>6, <3>1 DEF Placed, TopStream
  <2>7. streams[Top.strm].pos \in Nat
    BY <1>2, TopStands DEF TopStream
  <2>8. Call(F, TopNode.subs[i], key, Top.strm, streams, Append(path, key), nodes)
    BY <1>4, <2>1
  <2> QED
    BY <1>2, <2>2, <2>3, <2>4, <2>6, <2>7, <2>8, CallPlaces, StreamsBehind DEF SameFrame
<1> QED
  BY <1>3, <1>4 DEF MapField

LEMMA MapStorePlaces == ASSUME Inv, Typed, Placing, MapStore PROVE Placing'
<1>1. /\ ctl = "resume" /\ ctl' = "run" /\ Node[Top.fmt].kind = "map"
      /\ frames' = frames /\ UNCHANGED streams
  BY DEF MapStore, Resuming, TopNode
<1>2. Len(frames) > 0
  BY <1>1, BusyTop DEF Busy
<1>3. frames' = WithTop(Top)
  BY <1>1, <1>2, TopRecounts
<1>4. Stands(ctl', Top, TopStream.pos)
  BY <1>1, <1>2, TopStands DEF Stands, Counted
<1> QED
  BY <1>1, <1>2, <1>3, <1>4, StillPlaces DEF SameFrame

LEMMA MapExitPlaces == ASSUME Inv, Typed, Placing, MapExit PROVE Placing'
<1>1. PICK F : F = [Top EXCEPT !.at = "exit"]
  OBVIOUS
<1>2. /\ ctl = "run" /\ Node[Top.fmt].kind = "map" /\ Top.idx = Len(Node[Top.fmt].subs)
      /\ Return(F, DictV(Top.dict)) /\ UNCHANGED streams
  BY <1>1 DEF MapExit, Running, TopNode
<1>3. Len(frames) > 0
  BY <1>2, BusyTop DEF Busy
<1>4. F.fmt = Top.fmt /\ F.strm = Top.strm /\ F.pos0 = Top.pos0
  BY <1>1, <1>3, TopFacts DEF IsFrame, FrameFields
<1>5. Top.fmt \in Fmt /\ (Fixed(Top.fmt) => TopStream.pos = Top.pos0 + Part(Top.fmt, Top.idx))
  BY <1>2, <1>3, TopStands DEF Stands, Counted
<1>6. Fixed(Top.fmt) => TopStream.pos = Top.pos0 + SizeOf[Top.fmt]
  BY <1>2, <1>5, PartsOfFields
<1> QED
  BY <1>2, <1>3, <1>4, <1>6, ReturnPlaces, StreamsBehind DEF SameFrame, TopStream

(* An item is decoded where the items before it end.                       *)
LEMMA CallItemPlaces ==
    ASSUME Inv, Typed, Placing, ctl = "run", Stepping(Top), Node[Top.fmt].kind \in {"tuple", "array"},
           CallItem(Top.idx, Called(Top))
    PROVE  Placing'
<1> DEFINE key == Index(Top.idx)
<1>1. Len(frames) > 0
  BY BusyTop DEF Busy
<1>2. PICK F : F = [Top EXCEPT !.item = key]
  OBVIOUS
<1>3. F.fmt = Top.fmt /\ F.strm = Top.strm /\ F.at = Top.at /\ F.idx = Top.idx /\ F.pos0 = Top.pos0
  BY <1>1, <1>2, TopFacts DEF IsFrame, FrameFields
<1>4. Top.fmt \in Fmt /\ Top.strm \in 1..Len(streams)
  BY <1>1, TopTyped
<1>5. Called(Top) \in Fmt
  BY <1>4, SubsAreFormats DEF Called, Stepping, WrapKinds
<1>6. Fixed(Top.fmt) => TopStream.pos = Top.pos0 + Part(Top.fmt, Top.idx)
  BY <1>1, TopStands DEF Stands, Counted
<1>7. ASSUME NEW G, G.pos0 = streams[Top.strm].pos PROVE Placed(F, G, streams)
  BY <1>3, <1>6, <1>7 DEF Placed, TopStream
<1>8. streams[Top.strm].pos \in Nat
  BY <1>1, TopStands DEF TopStream
<1> HIDE DEF key
<1>9. Call(F, Called(Top), key, Top.strm, streams, Append(path, key), nodes)
  BY <1>2 DEF CallItem, key
<1> QED
  BY <1>1, <1>3, <1>4, <1>5, <1>7, <1>8, <1>9, CallPlaces, StreamsBehind DEF SameFrame

LEMMA ItemPlaces == ASSUME Inv, Typed, Placing, TupleItem \/ ArrayItem PROVE Placing'
<1>1. CASE TupleItem
  <2>1. PICK i \in DOMAIN TopNode.subs : i = Top.idx + 1 /\ CallItem(Top.idx, TopNode.subs[i])
    BY <1>1 DEF TupleItem
  <2>2. ctl = "run" /\ Node[Top.fmt].kind = "tuple"
    BY <1>1 DEF TupleItem, Running, TopNode
  <2>3. Stepping(Top)
    BY <2>1, <2>2 DEF Stepping, LeafKinds, TopNode
  <2>4. CallItem(Top.idx, Called(Top))
    BY <2>1, <2>2 DEF Called, TopNode
  <2> QED
    BY <2>2, <2>3, <2>4, CallItemPlaces
<1>2. CASE ArrayItem
  <2>1. /\ ctl = "run" /\ Node[Top.fmt].kind = "array" /\ CallItem(Top.idx, TopNode.subs[1])
        /\ Top.at = "greedy" \/ (Top.at = "items" /\ Top.idx < Top.todo)
    BY <1>2 DEF ArrayItem, Running, TopNode
  <2>2. Stepping(Top)
    BY <2>1 DEF Stepping, LeafKinds
  <2>3. CallItem(Top.idx, Called(Top))
    BY <2>1 DEF Called, TopNode
  <2> QED
    BY <2>1, <2>2, <2>3, CallItemPlaces
<1> QED
  BY <1>1, <1>2

LEMMA ItemStorePlaces == ASSUME Inv, Typed, Placing, ItemStore PROVE Placing'
<1>1. PICK F : F = [Top EXCEPT !.idx = NextIndex(@)]
  OBVIOUS
<1>2. /\ ctl = "resume" /\ ctl' = "run" /\ Node[Top.fmt].kind \in {"tuple", "array"}
      /\ frames' = WithTop(F) /\ UNCHANGED streams
  BY <1>1 DEF ItemStore, Resuming, TopNode
<1>3. Len(frames) > 0
  BY <1>2, BusyTop DEF Busy
<1>4. F.fmt = Top.fmt /\ F.strm = Top.strm /\ F.idx = NextIndex(Top.idx) /\ F.pos0 = Top.pos0
  BY <1>1, <1>3, TopFacts DEF IsFrame, FrameFields
<1>5. Fixed(Top.fmt) => Top.at # "greedy"
  <2>1. Fit(Top) /\ Top.fmt \in Fmt
    BY <1>3, TopTyped
  <2> QED
    BY <1>2, <2>1, Sizeless DEF Fit
<1>6. Fixed(Top.fmt) => F.idx = Top.idx + 1
  BY <1>4, <1>5 DEF NextIndex
<1>7. Fixed(Top.fmt) => TopStream.pos = Top.pos0 + Part(Top.fmt, Top.idx + 1)
  BY <1>2, <1>3, TopStands DEF Stands
<1>8. Stands(ctl', F, TopStream.pos)
  BY <1>2, <1>4, <1>6, <1>7 DEF Stands, Counted
<1> QED
  BY <1>2, <1>3, <1>4, <1>8, StillPlaces DEF SameFrame

LEMMA ItemsExitPlaces == ASSUME Inv, Typed, Placing, ItemsExit PROVE Placing'
<1>1. /\ ctl = "run" /\ Return(Top, ListV(Top.idx)) /\ UNCHANGED streams
      /\ \/ Node[Top.fmt].kind = "tuple" /\ Top.idx = Len(Node[Top.fmt].subs)
         \/ Node[Top.fmt].kind = "array" /\ Top.at = "items" /\ Top.idx >= Top.todo
  BY DEF ItemsExit, Running, TopNode
<1>2. Len(frames) > 0
  BY <1>1, BusyTop DEF Busy
<1>3. Fit(Top) /\ Top.fmt \in Fmt /\ (Fixed(Top.fmt) => TopStream.pos = Top.pos0 + Part(Top.fmt, Top.idx))
  BY <1>1, <1>2, TopStands DEF Stands, Counted
<1>4. CASE Node[Top.fmt].kind = "tuple"
  BY <1>1, <1>2, <1>3, <1>4, PartsOfFields, EndPlaces
<1>5. CASE Node[Top.fmt].kind = "array"
  <2>1. Fixed(Top.fmt) => Node[Top.fmt].mode = "const" /\ SizeOf[Top.fmt] = Part(Top.fmt, Node[Top.fmt].num)
    BY <1>3, <1>5, PartsOfItems
  <2>2. Fixed(Top.fmt) => Top.idx = Node[Top.fmt].num
    <3>1. Top.idx \in Nat /\ Top.todo \in Int
      BY <1>3 DEF Fit
    <3>2. Fixed(Top.fmt) => Top.todo = Node[Top.fmt].num /\ Top.idx <= Top.todo
      BY <1>1, <1>3, <1>5, <2>1 DEF Fit
    <3> QED
      BY <1>1, <1>5, <3>1, <3>2
  <2>3. Fixed(Top.fmt) => TopStream.pos = Top.pos0 + SizeOf[Top.fmt]
    BY <1>3, <2>1, <2>2
  <2> QED
    BY <1>1, <1>2, <2>3, EndPlaces
<1> QED
  BY <1>1, <1>4, <1>5

LEMMA SizelessEnds ==
    ASSUME Inv, Typed, Placing, GreedyCatch \/ WrapClose \/ OptionalCatch
    PROVE  Placing'
<1>1. PICK v : /\ ctl \in Busy /\ Return(Top, v) /\ UNCHANGED streams
               /\ \/ Node[Top.fmt].kind \in {"optional", "lazy", "switch"}
                  \/ Node[Top.fmt].kind = "array" /\ Top.at = "greedy"
  BY DEF GreedyCatch, WrapClose, OptionalCatch, Resuming, TopNode, Busy, Catches
<1>2. Len(frames) > 0
  BY <1>1, BusyTop
<1>3. ~Fixed(Top.fmt)
  <2>1. Fit(Top) /\ Top.fmt \in Fmt
    BY <1>2, TopTyped
  <2> QED
    BY <1>1, <2>1, Sizeless DEF Fit
<1> QED
  BY <1>1, <1>2, <1>3, EndPlaces

LEMMA ArrayGreedyPlaces == ASSUME Inv, Typed, Placing, ArrayGreedy PROVE Placing'
<1>1. PICK F : F = [Top EXCEPT !.at = "greedy"]
  OBVIOUS
<1>2. /\ ctl = "run" /\ Node[Top.fmt].kind = "array" /\ Node[Top.fmt].mode = "greedy"
      /\ frames' = WithTop(F) /\ UNCHANGED streams
  BY <1>1 DEF ArrayGreedy, Running, TopNode, LoopsGreedily
<1>3. Len(frames) > 0
  BY <1>2, BusyTop DEF Busy
<1>4. F.fmt = Top.fmt /\ F.strm = Top.strm /\ F.pos0 = Top.pos0
  BY <1>1, <1>3, TopFacts DEF IsFrame, FrameFields
<1>5. Stands(ctl', F, TopStream.pos)
  BY <1>2, <1>3, <1>4, Sizeless, TopTyped DEF Stands
<1> QED
  BY <1>2, <1>3, <1>4, <1>5, StillPlaces DEF SameFrame

LEMMA ArrayCountPlaces == ASSUME Inv, Typed, Placing, ArrayCount PROVE Placing'
<1>1. PICK c : c = Count(TopNode, TopStream)
  OBVIOUS
<1>2. ctl = "run" /\ Node[Top.fmt].kind = "array" /\ Top.at = "enter"
  BY DEF ArrayCount, Running, TopNode
<1>3. Len(frames) > 0
  BY <1>2, BusyTop DEF Busy
<1>4. /\ c.ok \in BOOLEAN /\ c.used \in Nat
      /\ c.ok => c.val.n \in Int
      /\ ~c.ok => IsResult(c)
      /\ TopNode.mode = "const" => c = Got(0, IntV(TopNode.num))
  BY <1>1, TopCounts DEF ArrayCount
<1>5. IsStream(TopStream) /\ Fit(Top) /\ Top.fmt \in Fmt /\ Top.strm \in 1..Len(streams)
  BY <1>3, TopTyped
<1>6. Fixed(Top.fmt) => /\ c.ok = TRUE /\ c.used = 0 /\ c.val.n = Node[Top.fmt].num
                        /\ SizeOf[Top.fmt] = Part(Top.fmt, Node[Top.fmt].num)
  <2>1. ASSUME Fixed(Top.fmt)
        PROVE  Node[Top.fmt].mode = "const" /\ SizeOf[Top.fmt] = Part(Top.fmt, Node[Top.fmt].num)
    BY <1>2, <1>5, <2>1, PartsOfItems
  <2>2. Fixed(Top.fmt) => c = Got(0, IntV(Node[Top.fmt].num))
    BY <1>4, <2>1 DEF TopNode
  <2>3. LET r == Got(0, IntV(Node[Top.fmt].num))
        IN  r.ok = TRUE /\ r.used = 0 /\ r.val.n = Node[Top.fmt].num
    BY FieldsOfResults
  <2> QED
    BY <2>1, <2>2, <2>3
<1>7. Top.idx = 0 /\ Part(Top.fmt, 0) = 0
  BY <1>2, <1>5, PartsOfItems DEF Fit
<1>8. Fixed(Top.fmt) => TopStream.pos = Top.pos0
  BY <1>2, <1>3, <1>7, TopStands DEF Stands, Counted
<1>9. CASE IsFast(TopNode) \/ ~c.ok
  <2>1. PICK r : r = (IF c.ok THEN FromFile(TopStream, c.val.n, SizeOf[TopNode.subs[1]]) ELSE c)
    OBVIOUS
  <2>2. Deliver(r)
    BY <1>1, <1>9, <2>1 DEF ArrayCount
  <2>3. CASE c.ok
    <3>1. TopNode.subs[1] \in Fmt
      BY <1>2, <1>5, SubsAreFormats DEF WrapKinds, TopNode
    <3>2. SizeOf[TopNode.subs[1]] \in Nat
      BY <1>9, <2>3, <3>1, SizesByKind, FormatAssumption DEF IsFast
    <3>3. IsResult(r) /\ (r.ok => r.used = c.val.n * SizeOf[TopNode.subs[1]])
      BY <1>4, <1>5, <2>1, <2>3, <3>2, NumbersRead
    <3>4. Fixed(Top.fmt) => SizeOf[Top.fmt] = c.val.n * SizeOf[TopNode.subs[1]]
      BY <1>2, <1>6 DEF Part, TopNode
    <3>5. r.ok /\ Fixed(Top.fmt) => TopStream.pos + r.used = Top.pos0 + SizeOf[Top.fmt]
      BY <1>8, <3>3, <3>4
    <3> QED
      BY <1>3, <2>2, <3>3, <3>5, DeliverPlaces
  <2>4. CASE ~c.ok
    BY <1>3, <1>4, <2>1, <2>2, <2>4, DeliverPlaces
  <2> QED
    BY <1>4, <2>3, <2>4
<1>10. CASE ~(IsFast(TopNode) \/ ~c.ok)
  <2>1. PICK F : F = [Top EXCEPT !.at = "items", !.todo = c.val.n]
    OBVIOUS
  <2>2. PICK x : x = Advance(TopStream, c.used)
    OBVIOUS
  <2>3. frames' = WithTop(F) /\ streams' = PutStream(Top.strm, x) /\ ctl' = "run"
    BY <1>1, <1>2, <1>10, <2>1, <2>2 DEF ArrayCount, PutStream, TopStream
  <2>4. F.fmt = Top.fmt /\ F.strm = Top.strm /\ F.idx = Top.idx /\ F.pos0 = Top.pos0
    BY <1>3, <2>1, TopFacts DEF IsFrame, FrameFields
  <2>5. IsStream(x) /\ x.seekable /\ x.pos = TopStream.pos + c.used
    BY <1>3, <1>4, <2>2, StreamsBehind, StreamFields, AdvanceTyped
  <2>6. Behind(PutStream(Top.strm, x)) /\ PutStream(Top.strm, x)[Top.strm] = x
    BY <1>3, <2>5, PutBehind
  <2>7. Behind(streams') /\ streams'[F.strm] = x
    BY <2>3, <2>4, <2>6
  <2>8. Fixed(Top.fmt) => x.pos = TopStream.pos
    BY <1>3, <1>6, <2>5, TopStands
  <2>9. Stands(ctl', F, x.pos)
    <3>1. Stands("run", Top, TopStream.pos)
      BY <1>2, <1>3, TopStands
    <3> QED
      BY <2>3, <2>4, <2>8, <3>1 DEF Stands
  <2> QED
    BY <1>3, <2>3, <2>4, <2>7, <2>9, StayPlaces DEF SameFrame
<1> QED
  BY <1>9, <1>10

(* A frame that is no container calls, at another place.                   *)
LEMMA CallInnerPlaces ==
    ASSUME Inv, Typed, Placing, Len(frames) > 0, NEW G, DOMAIN G = FrameFields, SameFrame(G),
           Node[Top.fmt].kind \notin Counted,
           NEW a, NEW f \in Fmt, NEW key, NEW ss, Behind(ss),
           NEW s \in 1..Len(ss), ss[s].pos \in Nat, NEW ns,
           Fixed(Top.fmt) /\ Node[Top.fmt].kind = "pointer" =>
              IF a = "offset" THEN ss[s].pos = Top.pos0 ELSE G.saved = Top.pos0 + SizeOf[Top.fmt],
           Fixed(Top.fmt) /\ Node[Top.fmt].kind = "sized" => ss[Top.strm].pos = Top.pos0 + SizeOf[Top.fmt],
           Call([G EXCEPT !.at = a], f, key, s, ss, path, ns)
    PROVE  Placing'
<1>1. PICK F : F = [G EXCEPT !.at = a]
  OBVIOUS
<1>2. F.fmt = G.fmt /\ F.strm = G.strm /\ F.at = a /\ F.pos0 = G.pos0 /\ F.saved = G.saved
  BY <1>1 DEF FrameFields
<1>3. SameFrame(F) /\ F.saved = G.saved
  BY <1>2 DEF SameFrame
<1>4. ASSUME NEW H, H.pos0 = ss[s].pos PROVE Placed(F, H, ss)
  BY <1>2, <1>3, <1>4 DEF Placed, SameFrame, Counted
<1>5. Call(F, f, key, s, ss, path, ns)
  BY <1>1
<1> QED
  BY <1>3, <1>4, <1>5, CallPlaces

LEMMA WrapOpenPlaces == ASSUME Inv, Typed, Placing, WrapOpen PROVE Placing'
<1>1. /\ ctl = "run" /\ Node[Top.fmt].kind \in {"optional", "lazy"}
      /\ Call([Top EXCEPT !.at = "inner"], TopNode.subs[1], NoKey, Top.strm, streams, path, nodes)
  BY DEF WrapOpen, CallInner, Running, TopNode
<1>2. Len(frames) > 0
  BY <1>1, BusyTop DEF Busy
<1>3. Top.fmt \in Fmt /\ Top.strm \in 1..Len(streams) /\ DOMAIN Top = FrameFields /\ SameFrame(Top)
  BY <1>2, TopTyped, TopFacts DEF IsFrame, SameFrame
<1>4. TopNode.subs[1] \in Fmt
  BY <1>1, <1>3, SubsAreFormats DEF TopNode, WrapKinds
<1>5. streams[Top.strm].pos \in Nat
  BY <1>2, TopStands DEF TopStream
<1>6. ~Fixed(Top.fmt) /\ Node[Top.fmt].kind \notin Counted
  BY <1>1, <1>3, Sizeless DEF Counted
<1> QED
  BY <1>1, <1>2, <1>3, <1>4, <1>5, <1>6, StreamsBehind, CallInnerPlaces

(* A stream of its own for the format that is framed.                      *)
LEMMA FramedBehind ==
    ASSUME Inv, Typed, Placing, Len(frames) > 0, NEW x, IsStream(x), x.seekable, NEW data
    PROVE  LET ss == Append(PutStream(Top.strm, x), Stream(data, TRUE))
           IN  /\ Behind(ss) /\ ss[Top.strm] = x
               /\ Len(streams) + 1 \in 1..Len(ss) /\ ss[Len(streams) + 1].pos \in Nat
<1>1. PICK n \in Nat : n = Len(streams)
  BY LengthsAreNat DEF Sizable
<1>2. PICK t : t = PutStream(Top.strm, x)
  OBVIOUS
<1>3. PICK k \in 1..n : k = Top.strm
  BY <1>1, TopTyped
<1>4. IsSeq(t) /\ Len(t) = n /\ \A i \in 1..n : t[i] = IF i = k THEN x ELSE streams[i]
  <2>1. StreamsTyped
    BY DEF Typed
  <2>2. k \in 1..Len(streams)
    BY <1>1, <1>3
  <2>3. /\ IsSeq(PutStream(k, x)) /\ Len(PutStream(k, x)) = Len(streams)
        /\ \A i \in 1..Len(streams) : PutStream(k, x)[i] = IF i = k THEN x ELSE streams[i]
    BY <2>1, <2>2, StreamChanges
  <2>4. t = PutStream(k, x)
    BY <1>2, <1>3
  <2> QED
    BY <1>1, <2>3, <2>4
<1>5. PICK y : y = Stream(data, TRUE)
  OBVIOUS
<1>6. y.seekable /\ y.pos = 0
  BY <1>5 DEF Stream
<1>7. PICK u : u = Append(t, y)
  OBVIOUS
<1>8. Len(u) = n + 1 /\ u[n + 1] = y /\ \A i \in 1..n : u[i] = t[i]
  BY <1>4, <1>7, AppendSeq
<1>9. \A i \in 1..n : streams[i].seekable
  BY <1>1 DEF Placing
<1>10. Behind(u)
  <2>1. ASSUME NEW i \in 1..(k - 1) PROVE u[i] = streams[i]
    <3>1. i \in 1..n /\ i # k
      BY <1>3
    <3> QED
      BY <1>4, <1>8, <3>1
  <2>2. ASSUME NEW i \in 1..(n + 1) PROVE u[i].seekable
    <3>1. CASE i = n + 1
      BY <1>6, <1>8, <3>1
    <3>2. CASE i \in 1..n
      BY <1>4, <1>8, <1>9, <3>2
    <3> QED
      BY <3>1, <3>2
  <2> QED
    BY <1>3, <1>8, <2>1, <2>2 DEF Behind
<1>11. u[k] = x /\ n + 1 \in 1..Len(u) /\ u[n + 1].pos \in Nat
  BY <1>4, <1>6, <1>8
<1> QED
  BY <1>1, <1>2, <1>3, <1>5, <1>7, <1>10, <1>11

LEMMA SwitchOpenPlaces == ASSUME Inv, Typed, Placing, SwitchOpen PROVE Placing'
<1> DEFINE sibling == Resolve(TopNode.ref)
           cases == Case(TopNode, sibling.val)
           rest == Left(TopStream)
           drained == [streams EXCEPT ![Top.strm] = Advance(@, rest)]
           failure == IF ~sibling.ok THEN "Key"
                      ELSE IF sibling.val.t \in {"dict", "list"} THEN "Type"
                      ELSE IF cases = {} THEN "Key" ELSE ""
<1>1. ctl = "run" /\ Node[Top.fmt].kind = "switch"
  BY DEF SwitchOpen, Running, TopNode
<1>2. Len(frames) > 0
  BY <1>1, BusyTop DEF Busy
<1>3. Top.fmt \in Fmt /\ DOMAIN Top = FrameFields /\ SameFrame(Top) /\ IsStream(TopStream)
  BY <1>2, TopTyped, TopFacts DEF IsFrame, SameFrame
<1>4. PICK x : x = Advance(TopStream, rest)
  OBVIOUS
<1>5. IsStream(x) /\ x.seekable
  BY <1>2, <1>3, <1>4, LeftIsThere, AdvanceTyped, StreamFields, StreamsBehind
<1>6. drained = PutStream(Top.strm, x)
  BY <1>4 DEF PutStream, TopStream
<1>7. CASE streams' = drained /\ Raise(failure)
  <2> HIDE DEF failure
  <2>1. Behind(drained)
    BY <1>2, <1>5, <1>6, PutBehind
  <2> HIDE DEF drained
  <2> QED
    BY <1>2, <1>7, <2>1, RaisePlaces
<1>8. ASSUME NEW i \in cases,
             CallInner(Top, TopNode.subs[i], NoKey, Len(streams) + 1,
                       Append(drained, Stream(Taken(TopStream, rest), TRUE)), nodes)
      PROVE  Placing'
  <2>1. i \in DOMAIN Node[Top.fmt].subs
    BY <1>8 DEF Case, TopNode
  <2>2. TopNode.subs[i] \in Fmt
    BY <1>3, <2>1, SubsAreFormats DEF TopNode
  <2>3. PICK ss : ss = Append(drained, Stream(Taken(TopStream, rest), TRUE))
    OBVIOUS
  <2>4. Behind(ss) /\ Len(streams) + 1 \in 1..Len(ss) /\ ss[Len(streams) + 1].pos \in Nat
    <3> HIDE DEF drained
    <3> QED
      BY <1>2, <1>5, <1>6, <2>3, FramedBehind
  <2>5. Call([Top EXCEPT !.at = "inner"], TopNode.subs[i], NoKey, Len(streams) + 1, ss, path, nodes)
    BY <1>8, <2>3 DEF CallInner
  <2>6. ~Fixed(Top.fmt) /\ Node[Top.fmt].kind \notin Counted
    BY <1>1, <1>3, Sizeless DEF Counted
  <2> QED
    BY <1>2, <1>3, <2>2, <2>4, <2>5, <2>6, CallInnerPlaces
<1> QED
  BY <1>7, <1>8 DEF SwitchOpen

(* A pointer goes where its offset says, and comes back.                   *)
LEMMA PointerOffsetPlaces == ASSUME Inv, Typed, Placing, PointerOffset PROVE Placing'
<1>1. /\ ctl = "run" /\ Node[Top.fmt].kind = "pointer"
      /\ Call([Top EXCEPT !.at = "offset"], TopNode.subs[1], Name("offset"), Top.strm, streams, path, nodes)
  BY DEF PointerOffset, Running, TopNode
<1>2. Len(frames) > 0
  BY <1>1, BusyTop DEF Busy
<1>3. Top.fmt \in Fmt /\ Top.strm \in 1..Len(streams) /\ DOMAIN Top = FrameFields /\ SameFrame(Top)
  BY <1>2, TopTyped, TopFacts DEF IsFrame, SameFrame
<1>4. TopNode.subs[1] \in Fmt
  BY <1>1, <1>3, SubsAreFormats DEF TopNode
<1>5. streams[Top.strm].pos \in Nat
  BY <1>2, TopStands DEF TopStream
<1>6. Node[Top.fmt].kind \notin Counted /\ Node[Top.fmt].kind # "sized"
  BY <1>1 DEF Counted
<1>7. Fixed(Top.fmt) => streams[Top.strm].pos = Top.pos0
  <2>1. Stands("run", Top, TopStream.pos) /\ Top.pos0 \in Nat
    BY <1>1, <1>2, TopStands
  <2> QED
    BY <1>6, <2>1 DEF Stands, TopStream
<1> QED
  BY <1>1, <1>2, <1>3, <1>4, <1>5, <1>6, <1>7, StreamsBehind, CallInnerPlaces

LEMMA PointerJumpPlaces == ASSUME Inv, Typed, Placing, PointerJump PROVE Placing'
<1>1. ctl = "resume" /\ Node[Top.fmt].kind = "pointer" /\ Top.at = "offset"
  BY DEF PointerJump, Resuming, TopNode
<1>2. Len(frames) > 0
  BY <1>1, BusyTop DEF Busy
<1>3. Top.fmt \in Fmt /\ Top.strm \in 1..Len(streams) /\ IsFrame(Top) /\ IsStream(TopStream)
  BY <1>2, TopTyped, TopFacts
<1>4. Fixed(Top.fmt) => TopStream.pos = Top.pos0 + SizeOf[Top.fmt]
  BY <1>1, <1>2, TopStands DEF Stands
<1>5. CASE Return(Top, NoneV) /\ UNCHANGED streams
  BY <1>2, <1>4, <1>5, EndPlaces
<1>6. CASE CallInner([Top EXCEPT !.saved = TopStream.pos], TopNode.subs[2], Name("value"), Top.strm,
                     [streams EXCEPT ![Top.strm] = Seek(@, TopNode.num + val.n)], nodes)
  <2>1. PICK G : G = [Top EXCEPT !.saved = TopStream.pos]
    OBVIOUS
  <2>2. SameFrame(G) /\ G.saved = TopStream.pos /\ DOMAIN G = FrameFields
    BY <1>3, <2>1 DEF IsFrame, FrameFields, SameFrame
  <2>3. PICK p \in Nat : p = TopNode.num + val.n
    <3>1. TopNode.num \in Nat /\ val.n \in Nat
      BY <1>3, FormatAssumption DEF TopNode, Typed, ScalarsTyped, NatValues
    <3> QED
      BY <3>1
  <2>4. PICK x : x = Seek(TopStream, p)
    OBVIOUS
  <2>5. IsStream(x) /\ x.seekable
    BY <1>2, <1>3, <2>3, <2>4, SeekTyped, StreamFields, StreamsBehind
  <2>6. PICK ss : ss = PutStream(Top.strm, x)
    OBVIOUS
  <2>7. Behind(ss) /\ ss[Top.strm] = x
    BY <1>2, <2>5, <2>6, PutBehind
  <2>8. Call([G EXCEPT !.at = "inner"], TopNode.subs[2], Name("value"), Top.strm, ss, path, nodes)
    BY <1>6, <2>1, <2>3, <2>4, <2>6 DEF CallInner, PutStream, TopStream
  <2>9. TopNode.subs[2] \in Fmt
    BY <1>1, <1>3, SubsAreFormats DEF TopNode
  <2>10. Node[Top.fmt].kind \notin Counted /\ Node[Top.fmt].kind # "sized"
    BY <1>1 DEF Counted
  <2>11. Top.strm \in 1..Len(ss)
    BY <1>3, <2>5, <2>6, StreamChanges DEF Typed
  <2>12. ss[Top.strm].pos \in Nat
    BY <2>5, <2>7 DEF IsStream
  <2>13. Fixed(Top.fmt) => G.saved = Top.pos0 + SizeOf[Top.fmt]
    BY <1>4, <2>2
  <2> QED
    BY <1>2, <2>2, <2>7, <2>8, <2>9, <2>10, <2>11, <2>12, <2>13, CallInnerPlaces
<1> QED
  BY <1>5, <1>6 DEF PointerJump

LEMMA PointerBackPlaces == ASSUME Inv, Typed, Placing, PointerBack PROVE Placing'
<1>1. PICK x : x = Seek(TopStream, Top.saved)
  OBVIOUS
<1>2. /\ ctl = "resume" /\ Node[Top.fmt].kind = "pointer" /\ Top.at = "inner"
      /\ Return(Top, val) /\ streams' = PutStream(Top.strm, x)
  BY <1>1 DEF PointerBack, Resuming, TopNode, PutStream, TopStream
<1>3. Len(frames) > 0
  BY <1>2, BusyTop DEF Busy
<1>4. IsStream(x) /\ x.seekable /\ x.pos = Top.saved
  <2>1. IsStream(TopStream) /\ Top.saved \in Nat
    BY <1>3, TopTyped DEF Fit
  <2> QED
    BY <1>1, <1>3, <2>1, SeekTyped, StreamFields, StreamsBehind
<1>5. Behind(PutStream(Top.strm, x)) /\ PutStream(Top.strm, x)[Top.strm] = x
  BY <1>3, <1>4, PutBehind
<1>6. Fixed(Top.fmt) => Top.saved = Top.pos0 + SizeOf[Top.fmt]
  BY <1>2, <1>3, TopStands DEF Stands
<1>7. Behind(streams') /\ (Fixed(Top.fmt) => streams'[Top.strm].pos = Top.pos0 + SizeOf[Top.fmt])
  BY <1>2, <1>4, <1>5, <1>6
<1> QED
  BY <1>2, <1>3, <1>7, ReturnPlaces DEF SameFrame

(* A Sized takes all of its bytes before its value is decoded from them.   *)
LEMMA SizedOpenPlaces == ASSUME Inv, Typed, Placing, SizedOpen PROVE Placing'
<1>1. ctl = "run" /\ Node[Top.fmt].kind = "sized"
  BY DEF SizedOpen, Running, TopNode
<1>2. Len(frames) > 0
  BY <1>1, BusyTop DEF Busy
<1>3. Top.fmt \in Fmt /\ DOMAIN Top = FrameFields /\ SameFrame(Top) /\ IsStream(TopStream)
      /\ IsSeq(parents) /\ ContextTyped
  BY <1>2, TopTyped, TopFacts DEF IsFrame, SameFrame, Typed
<1>4. PICK length : length = SizedLength(TopNode, TopStream)
  OBVIOUS
<1>5. PICK r : r = Frame(TopNode, TopStream)
  OBVIOUS
<1>6. PICK ns : ns = WithSizeLeaf(TopNode, TopStream, length)
  OBVIOUS
<1>7. IsResult(r) /\ (r.ok /\ Node[Top.fmt].mode = "const" => r.used = Node[Top.fmt].num)
  BY <1>3, <1>5, FramesTyped DEF TopNode
<1>8. Fixed(Top.fmt) => Node[Top.fmt].mode = "const" /\ SizeOf[Top.fmt] = Node[Top.fmt].num
  BY <1>1, <1>3, SizesByKind DEF Fixed, Dynamic
<1>9. Fixed(Top.fmt) => TopStream.pos = Top.pos0
  <2>1. Stands("run", Top, TopStream.pos) /\ Top.pos0 \in Nat /\ Node[Top.fmt].kind \notin Counted
    BY <1>1, <1>2, TopStands DEF Counted
  <2> QED
    BY <2>1 DEF Stands
<1>10. r.ok /\ Fixed(Top.fmt) => TopStream.pos + r.used = Top.pos0 + SizeOf[Top.fmt]
  BY <1>7, <1>8, <1>9
<1>11. CASE r.ok
  <2>1. PICK x : x = Advance(TopStream, r.used)
    OBVIOUS
  <2>2. IsStream(x) /\ x.seekable /\ x.pos = TopStream.pos + r.used
    BY <1>2, <1>7, <2>1, StreamsBehind, StreamFields, AdvanceTyped DEF IsResult
  <2>3. PICK ss : ss = Append(PutStream(Top.strm, x),
                              Stream(Taken(Advance(TopStream, length.used), r.val.n), TRUE))
    OBVIOUS
  <2>4. Call([Top EXCEPT !.at = "inner"], TopNode.subs[1], NoKey, Len(streams) + 1, ss, path, ns)
    BY <1>4, <1>5, <1>6, <1>11, <2>1, <2>3 DEF SizedOpen, CallInner, PutStream, TopStream
  <2>5. /\ Behind(ss) /\ ss[Top.strm] = x
        /\ Len(streams) + 1 \in 1..Len(ss) /\ ss[Len(streams) + 1].pos \in Nat
    BY <1>2, <2>2, <2>3, FramedBehind
  <2>6. TopNode.subs[1] \in Fmt
    BY <1>1, <1>3, SubsAreFormats DEF TopNode, WrapKinds
  <2>7. Node[Top.fmt].kind \notin Counted /\ Node[Top.fmt].kind # "pointer"
    BY <1>1 DEF Counted
  <2>8. Fixed(Top.fmt) => ss[Top.strm].pos = Top.pos0 + SizeOf[Top.fmt]
    BY <1>10, <1>11, <2>2, <2>5
  <2> QED
    BY <1>2, <1>3, <2>4, <2>5, <2>6, <2>7, <2>8, CallInnerPlaces
<1>12. CASE ~r.ok
  <2>1. Deliver(r)
    BY <1>4, <1>5, <1>6, <1>12 DEF SizedOpen
  <2> QED
    BY <1>2, <1>7, <1>10, <2>1, DeliverPlaces
<1> QED
  BY <1>11, <1>12

LEMMA SizedClosePlaces == ASSUME Inv, Typed, Placing, SizedClose PROVE Placing'
<1>1. /\ ctl = "resume" /\ Node[Top.fmt].kind = "sized" /\ (Raise("Value") \/ Return(Top, val))
      /\ UNCHANGED streams
  BY DEF SizedClose, Resuming, TopNode
<1>2. Len(frames) > 0
  BY <1>1, BusyTop DEF Busy
<1>3. Fixed(Top.fmt) => TopStream.pos = Top.pos0 + SizeOf[Top.fmt]
  BY <1>1, <1>2, TopStands DEF Stands
<1>4. CASE Raise("Value")
  BY <1>1, <1>2, <1>4, RaisePlaces, StreamsBehind
<1>5. CASE Return(Top, val)
  BY <1>1, <1>2, <1>3, <1>5, EndPlaces
<1> QED
  BY <1>1, <1>4, <1>5

(* What a callee has consumed brings its caller to the next place.         *)
LEMMA ReturnStands ==
    ASSUME NEW F, NEW G, Fit(F), Calls(F, G), NEW ss, Placed(F, G, ss),
           NEW p, Fixed(G.fmt) => p = G.pos0 + SizeOf[G.fmt],
           NEW q, q = IF Node[F.fmt].kind \in Framing THEN ss[F.strm].pos ELSE p
    PROVE  Stands("resume", F, q)
<1> DEFINE f == F.fmt
<1>1. f \in Fmt /\ F.pos0 \in Nat /\ F.idx \in Nat /\ Stepping(F)
  BY DEF Fit, Calls
<1> SUFFICES ASSUME Fixed(f)
             PROVE  /\ Node[f].kind = "map" => q = F.pos0 + Part(f, F.idx)
                    /\ Node[f].kind \in {"tuple", "array"} => q = F.pos0 + Part(f, F.idx + 1)
                    /\ Node[f].kind = "pointer" => IF F.at = "offset" THEN q = F.pos0 + SizeOf[f]
                                                   ELSE F.saved = F.pos0 + SizeOf[f]
                    /\ Node[f].kind = "sized" => q = F.pos0 + SizeOf[f]
  BY DEF Stands
<1>2. CASE Node[f].kind = "map"
  <2>1. F.idx \in DOMAIN Node[f].subs /\ G.fmt = Node[f].subs[F.idx] /\ q = p
    BY <1>1, <1>2 DEF Calls, Stepping, Called, Framing
  <2>2. F.idx \in 1..Len(Node[f].subs) /\ F.idx - 1 \in 0..Len(Node[f].subs)
    <3>1. PICK m \in Nat : m = Len(Node[f].subs) /\ DOMAIN Node[f].subs = 1..m
      BY <1>1, FormatAssumption, LenProperties
    <3> QED
      BY <2>1, <3>1
  <2>3. /\ Part(f, F.idx) = Part(f, F.idx - 1) + SizeOf[Node[f].subs[F.idx]]
        /\ Fixed(Node[f].subs[F.idx]) /\ Part(f, F.idx - 1) \in Int
    BY <1>1, <1>2, <2>2, PartsOfFields
  <2>4. G.pos0 = F.pos0 + Part(f, F.idx - 1)
    BY <1>2 DEF Placed
  <2>5. SizeOf[Node[f].subs[F.idx]] \in Int
    BY <1>1, <2>1, SubsAreFormats, SizesAreInts
  <2> QED
    BY <1>1, <1>2, <2>1, <2>3, <2>4, <2>5
<1>3. CASE Node[f].kind = "tuple"
  <2>1. F.idx + 1 \in DOMAIN Node[f].subs /\ G.fmt = Node[f].subs[F.idx + 1] /\ q = p
    BY <1>1, <1>3 DEF Calls, Stepping, Called, Framing
  <2>2. PICK i \in Nat : i = F.idx + 1 /\ i - 1 = F.idx
    BY <1>1
  <2>3. i \in 1..Len(Node[f].subs) /\ i - 1 \in 0..Len(Node[f].subs)
    <3>1. PICK m \in Nat : m = Len(Node[f].subs) /\ DOMAIN Node[f].subs = 1..m
      BY <1>1, FormatAssumption, LenProperties
    <3> QED
      BY <2>1, <2>2, <3>1
  <2>4. /\ Part(f, i) = Part(f, i - 1) + SizeOf[Node[f].subs[i]]
        /\ Fixed(Node[f].subs[i]) /\ Part(f, i - 1) \in Int
    BY <1>1, <1>3, <2>3, PartsOfFields
  <2>5. G.pos0 = F.pos0 + Part(f, i - 1)
    BY <1>3, <2>2 DEF Placed
  <2>6. SizeOf[Node[f].subs[i]] \in Int
    BY <1>1, <2>1, <2>2, SubsAreFormats, SizesAreInts
  <2> QED
    BY <1>1, <1>3, <2>1, <2>2, <2>4, <2>5, <2>6
<1>4. CASE Node[f].kind = "array"
  <2>1. G.fmt = Node[f].subs[1] /\ q = p
    BY <1>1, <1>4 DEF Calls, Called, Framing
  <2>2. /\ Part(f, F.idx) \in Int /\ Part(f, F.idx + 1) = Part(f, F.idx) + SizeOf[Node[f].subs[1]]
        /\ Fixed(Node[f].subs[1])
    BY <1>1, <1>4, PartsOfItems
  <2>3. G.pos0 = F.pos0 + Part(f, F.idx)
    BY <1>4 DEF Placed
  <2>4. SizeOf[Node[f].subs[1]] \in Int
    BY <1>1, <1>4, SubsAreFormats, SizesAreInts DEF WrapKinds
  <2> QED
    BY <1>1, <1>4, <2>1, <2>2, <2>3, <2>4
<1>5. CASE Node[f].kind = "pointer"
  <2>1. SizeOf[f] = SizeOf[Node[f].subs[1]] /\ q = p
    BY <1>1, <1>5, SizesByKind DEF Framing
  <2>2. CASE F.at = "offset"
    <3>1. G.fmt = Node[f].subs[1] /\ G.pos0 = F.pos0
      BY <1>5, <2>2 DEF Calls, Called, Placed
    <3> QED
      BY <1>5, <2>1, <2>2, <3>1 DEF Fixed
  <2>3. CASE F.at # "offset"
    BY <1>5, <2>3 DEF Placed
  <2> QED
    BY <2>2, <2>3
<1>6. CASE Node[f].kind = "sized"
  BY <1>6 DEF Placed, Framing
<1> QED
  BY <1>2, <1>3, <1>4, <1>5, <1>6

(* A frame ends: its streams go, and the one below is reached.             *)
LEMMA PopPlaces ==
    ASSUME Inv, Typed, Placing, Len(frames) > 0,
           NEW x, IsStream(x), x.seekable, streams' = SubSeq(PutStream(Top.strm, x), 1, Top.strm),
           frames' = Under(frames),
           ctl' \in {"finish", "resume"} => ctl = "leave" /\ x = TopStream,
           ctl' \in {"finish", "report", "resume", "raise"}
    PROVE  Placing'
<1>1. PICK n \in Nat : n = Len(frames) /\ n > 0
  BY LengthsAreNat
<1>2. Len(frames') = n - 1 /\ \A i \in 1..(n - 1) : frames'[i] = frames[i]
  BY <1>1, UnderSeq DEF Inv, Shape
<1>3. PICK k \in Nat : k = Top.strm /\ k \in 1..Len(streams)
  BY TopTyped
<1>4. PICK t : t = PutStream(k, x)
  OBVIOUS
<1>5. IsSeq(t) /\ Len(t) = Len(streams) /\ \A i \in 1..Len(streams) : t[i] = IF i = k THEN x ELSE streams[i]
  <2>1. StreamsTyped
    BY DEF Typed
  <2>2. /\ IsSeq(PutStream(k, x)) /\ Len(PutStream(k, x)) = Len(streams)
        /\ \A i \in 1..Len(streams) : PutStream(k, x)[i] = IF i = k THEN x ELSE streams[i]
    BY <1>3, <2>1, StreamChanges
  <2> QED
    BY <1>4, <2>2
<1>6. Len(streams') = k /\ \A i \in 1..k : streams'[i] = t[i]
  <2> DEFINE S == {t[i] : i \in 1..k}
  <2>1. \A i \in 1..k : t[i] \in S
    OBVIOUS
  <2> HIDE DEF S
  <2>2. /\ Len(SubSeq(t, 1, k)) = IF 1 <= k THEN k - 1 + 1 ELSE 0
        /\ \A i \in 1..(k - 1 + 1) : SubSeq(t, 1, k)[i] = t[1 + i - 1]
    BY <1>3, <2>1, SubSeqProperties
  <2>3. Len(SubSeq(t, 1, k)) = k /\ \A i \in 1..k : SubSeq(t, 1, k)[i] = t[i]
    BY <1>3, <2>2
  <2> QED
    BY <1>3, <1>4, <2>3
<1>7. \A i \in 1..k : streams'[i] = IF i = k THEN x ELSE streams[i]
  BY <1>3, <1>5, <1>6, LengthsAreNat DEF Sizable
<1>8. Behind(streams')
  <2>1. \A i \in 1..(k - 1) : i \in 1..k /\ i # k
    BY <1>3
  <2>2. \A i \in 1..k : streams[i].seekable
    BY <1>3, LengthsAreNat DEF Placing, Sizable
  <2> QED
    BY <1>3, <1>6, <1>7, <2>1, <2>2 DEF Behind
<1>9. \A i \in 1..(n - 1) : Placed(frames[i], frames[i + 1], streams')
  BY <1>1, <1>8, PlacedBelow
<1>10. ASSUME NEW i \in 1..(n - 2) PROVE Placed(frames'[i], frames'[i + 1], streams')
  <2>1. i \in 1..(n - 1) /\ i + 1 \in 1..(n - 1)
    BY <1>1
  <2> QED
    BY <1>2, <1>9, <2>1
<1>11. ASSUME n - 1 > 0 PROVE Stands(ctl', Top', TopStream'.pos)
  <2>1. CASE ctl' # "resume"
    BY <2>1 DEF Stands
  <2>2. CASE ctl' = "resume"
    <3>1. PICK F : F = frames[n - 1]
      OBVIOUS
    <3>2. n - 1 \in 1..(n - 1) /\ n - 1 \in 1..n /\ n - 1 + 1 = n /\ Top = frames[n]
      BY <1>1, <1>11 DEF Top
    <3>3. Top' = F /\ TopStream' = streams'[F.strm]
      BY <1>2, <3>1, <3>2 DEF Top, TopStream
    <3>4. Fit(F) /\ Calls(F, Top) /\ F.strm \in 1..Len(streams)
      BY <1>1, <3>1, <3>2 DEF Typed, StackTyped, FramesFit, Within
    <3>5. Placed(F, Top, streams')
      BY <1>9, <3>1, <3>2
    <3>6. Fixed(Top.fmt) => x.pos = Top.pos0 + SizeOf[Top.fmt]
      BY <2>2, TopStands DEF Stands
    <3>7. Node[F.fmt].kind \notin Framing => streams'[F.strm] = x
      BY <1>3, <1>7, <3>4 DEF Calls
    <3>8. Stands("resume", F, streams'[F.strm].pos)
      BY <3>4, <3>5, <3>6, <3>7, ReturnStands
    <3> QED
      BY <2>2, <3>3, <3>8
  <2> QED
    BY <2>1, <2>2
<1>12. Len(frames') - 1 = n - 2
  BY <1>1, <1>2
<1> QED
  BY <1>2, <1>8, <1>10, <1>11, <1>12 DEF Placing, Behind

LEMMA LeavePlaces == ASSUME Inv, Typed, Placing, Leave \/ Unwind PROVE Placing'
<1>1. PICK x \in {TopStream, Seek(TopStream, Top.saved)} :
         /\ ctl \in {"leave", "raise"} /\ frames' = Under(frames)
         /\ streams' = SubSeq(PutStream(Top.strm, x), 1, Top.strm)
         /\ ctl' \in {"finish", "resume"} => ctl = "leave" /\ x = TopStream
         /\ ctl' \in {"finish", "report", "resume", "raise"}
  <2>1. CASE Leave
    <3>1. PutStream(Top.strm, TopStream) = streams
      <4>1. DOMAIN streams = 1..Len(streams) /\ streams = [i \in DOMAIN streams |-> streams[i]]
        BY DEF Typed, StreamsTyped, IsSeq
      <4> QED
        BY <4>1 DEF PutStream, TopStream
    <3> QED
      BY <2>1, <3>1 DEF Leave
  <2>2. CASE Unwind
    BY <2>2 DEF Unwind, PutStream
  <2> QED
    BY <2>1, <2>2
<1>2. Len(frames) > 0
  BY <1>1, BusyTop DEF Busy
<1>3. IsStream(x) /\ x.seekable
  <2>1. IsStream(TopStream) /\ Top.saved \in Nat
    BY <1>2, TopTyped DEF Fit
  <2>2. TopStream.seekable
    BY <1>2, StreamsBehind
  <2>3. PICK y : y = Seek(TopStream, Top.saved)
    OBVIOUS
  <2>4. IsStream(y) /\ y.seekable = TopStream.seekable
    BY <2>1, <2>3, SeekTyped, StreamFields
  <2>5. x = TopStream \/ x = y
    BY <2>3
  <2> QED
    BY <2>1, <2>2, <2>4, <2>5
<1> QED
  BY <1>1, <1>2, <1>3, PopPlaces

LEMMA EndOfPlaces == ASSUME Inv, Typed, Placing, Finish \/ Report PROVE Placing'
<1>1. ctl \in {"finish", "report"} /\ UNCHANGED <<frames, streams>>
  BY DEF Finish, Report
<1>2. Len(frames) = 0
  BY <1>1 DEF Typed, ScalarsTyped
<1> QED
  BY <1>1, <1>2 DEF Placing

LEMMA StepPlaces == ASSUME Inv, Typed, Placing, Next PROVE Placing'
  BY LeafPlaces, MapEnterPlaces, MapFieldPlaces, MapStorePlaces, MapExitPlaces, ItemPlaces,
     ItemStorePlaces, ItemsExitPlaces, SizelessEnds, ArrayGreedyPlaces, ArrayCountPlaces, WrapOpenPlaces,
     SwitchOpenPlaces, PointerOffsetPlaces, PointerJumpPlaces, PointerBackPlaces,
     SizedOpenPlaces, SizedClosePlaces, LeavePlaces, EndOfPlaces, Zenon DEF Next

LEMMA InitPlaces == ASSUME Init PROVE Positions
<1>1. PICK root \in Fmt : frames = <<NewFrame(root, NoKey, 1, 0, 2, 1, <<1>>, <<>>)>>
  BY DecodeAssumption DEF Init
<1>2. PICK data : streams = <<Stream(data, entry # "unseekable")>>
  BY DEF Init
<1>3. ASSUME entry # "unseekable" PROVE Placing
  <2>1. PICK F : F = NewFrame(root, NoKey, 1, 0, 2, 1, <<1>>, <<>>)
    OBVIOUS
  <2>2. F.fmt = root /\ F.strm = 1 /\ F.pos0 = 0 /\ F.idx = 0
    BY <2>1 DEF NewFrame
  <2>3. PICK s : s = Stream(data, TRUE)
    OBVIOUS
  <2>4. s.seekable /\ s.pos = 0
    BY <2>3 DEF Stream
  <2>5. frames = <<F>> /\ streams = <<s>>
    <3>1. (entry # "unseekable") = TRUE
      BY <1>3
    <3> QED
      BY <1>1, <1>2, <2>1, <2>3, <3>1
  <2>6. Len(frames) = 1 /\ frames[1] = F /\ Len(streams) = 1 /\ streams[1] = s
    BY <2>5, ShortSeqs
  <2>7. Top = F /\ TopStream = s
    BY <2>2, <2>6 DEF Top, TopStream
  <2>8. ctl = "run"
    BY DEF Init
  <2>9. Stands("run", F, 0)
    <3>1. Node[root].kind \in Counted => Part(root, 0) = 0
      BY PartsOfFields, PartsOfItems DEF Counted
    <3> QED
      BY <2>2, <3>1 DEF Stands
  <2> QED
    BY <2>4, <2>6, <2>7, <2>8, <2>9 DEF Placing
<1> QED
  BY <1>3 DEF Positions

LEMMA EntryStays == ASSUME Next PROVE UNCHANGED config
  BY DEF Next, DecodeLeaf, MapEnter, MapField, MapStore, MapExit, TupleItem, ArrayItem, CallItem,
     ItemStore, ItemsExit, GreedyCatch, ArrayGreedy, ArrayCount, WrapOpen, OptionalCatch, SwitchOpen,
     WrapClose, PointerOffset, PointerJump, PointerBack, SizedOpen, SizedClose, Leave, Unwind, Finish,
     Report, Call, CallInner

(* Every frame stands where the sizes of what came before it say.          *)
LEMMA Positioning == Spec => [](Inv /\ Typed /\ Positions)
<1>1. ASSUME Init PROVE Inv /\ Typed /\ Positions
  BY <1>1, InitInv, InitTyped, InitPlaces
<1>2. ASSUME Inv, Typed, Positions, [Next]_vars PROVE Inv' /\ Typed' /\ Positions'
  <2>1. CASE Next
    <3>1. Inv' /\ Typed'
      BY <2>1, <1>2, StepInv, StepTyped
    <3>2. UNCHANGED config
      BY <2>1, EntryStays
    <3>3. entry # "unseekable" => Placing'
      BY <1>2, <2>1, StepPlaces DEF Positions
    <3> QED
      BY <3>1, <3>2, <3>3 DEF Positions, config
  <2>2. CASE UNCHANGED vars
    <3>1. Inv' /\ Typed'
      BY <1>2, <2>2, StutterInv, StutterTyped
    <3>2. UNCHANGED <<entry, ctl, frames, streams>>
      BY <2>2 DEF vars, config, flow
    <3>3. Positions'
      BY <1>2, <3>2 DEF Positions, Placing, Top, TopStream
    <3> QED
      BY <3>1, <3>3
  <2> QED
    BY <1>2, <2>1, <2>2
<1> QED
  BY <1>1, <1>2, PTL DEF Spec

(* What sizeof promises is what a decode consumes, for every format that   *)
(* has a size, whatever it nests and however its pointers jump.            *)
THEOREM SizesAreConsumed == Spec => []SizeofIsConsumed
<1>1. ASSUME Inv, Typed, Positions PROVE SizeofIsConsumed
  <2>1. ctl = "leave" => Len(frames) > 0
    BY <1>1, BusyTop DEF Busy
  <2> QED
    BY <1>1, <2>1 DEF Positions, Placing, Stands, Fixed, SizeofIsConsumed
<1> QED
  BY <1>1, Positioning, PTL

-----------------------------------------------------------------------------
(* The inductive invariant behind InspectionTiles.  What a node of the     *)
(* tree holds: kids that are closed, each under the key of its place, and  *)
(* each beginning where the one before it ends; all of them, once it is    *)
(* closed itself.  nodes[1] is no node of the tree.                        *)
NodeFields == {"key", "fmt", "off", "size", "kids", "closed"}

IsNode(M, n) ==
    /\ DOMAIN M = NodeFields
    /\ M.fmt \in Fmt /\ M.off \in Nat /\ M.size \in Int /\ M.closed \in BOOLEAN
    /\ IsSeq(M.kids) /\ \A i \in 1..Len(M.kids) : M.kids[i] \in 1..n

End(M) == M.off + M.size

KeyFits(N, i, key) ==
    /\ N.kind = "map" => key = Name(N.keys[i])
    /\ N.kind = "tuple" => key = Index(i - 1)
    /\ N.kind = "array" => key = Index(i - 1) \/ (N.mode = "greedy" /\ i - 1 > MaxItems)

Ordered(ns, M) ==
    /\ \A i \in 1..Len(M.kids) : ns[M.kids[i]].closed
    /\ Node[M.fmt].kind \in Counted =>
          /\ \A i \in 1..Len(M.kids) : KeyFits(Node[M.fmt], i, ns[M.kids[i]].key)
          /\ \A i \in 1..(Len(M.kids) - 1) : ns[M.kids[i + 1]].off = End(ns[M.kids[i]])

Complete(ns, M) ==
    M.closed /\ Node[M.fmt].kind \in Counted =>
        /\ Len(M.kids) > 0 => End(ns[M.kids[Len(M.kids)]]) <= End(M)
        /\ Node[M.fmt].kind \in {"map", "tuple"} => Len(M.kids) = Len(Node[M.fmt].subs)

Grown(ns) ==
    /\ IsSeq(ns) /\ Len(ns) > 0
    /\ \A m \in 1..Len(ns) : IsNode(ns[m], Len(ns))
    /\ ~ns[1].closed
    /\ \A m \in 2..Len(ns) : Ordered(ns, ns[m]) /\ Complete(ns, ns[m])

(* Every frame has an open node of its own, below that of its caller.      *)
Opened(ns, F) ==
    /\ F.node \in 2..Len(ns)
    /\ ~ns[F.node].closed /\ ns[F.node].fmt = F.fmt /\ ns[F.node].off = F.pos0

Scopes(ns, stack, n) ==
    /\ \A i \in 1..n : Opened(ns, stack[i])
    /\ \A j \in 1..n : \A i \in 1..(j - 1) : stack[i].node # stack[j].node
    /\ n > 0 => stack[1].outer = 1
    /\ \A i \in 1..(n - 1) : stack[i + 1].outer = stack[i].node

(* No stream lies before the place where the frame that uses it was        *)
(* entered, or will when a Pointer has come back.                          *)
NotBefore(F, s, p) == IF Inside(F) /\ s.seekable THEN F.saved >= F.pos0 ELSE p >= F.pos0

(* The kids of a frame's node so far.                                      *)
Kids(ns, F) == ns[F.node].kids
KidCount(ns, F) == Len(ns[F.node].kids)
LastEnd(ns, F) == End(ns[Kids(ns, F)[KidCount(ns, F)]])

Counts(F, k) == F.idx = IF F.at = "greedy" /\ k > MaxItems THEN MaxItems ELSE k
AwaitedKey(F) == IF Node[F.fmt].kind = "map" THEN Name(Node[F.fmt].keys[F.idx]) ELSE Index(F.idx)

(* A container that waits has decoded all kids but the one it has called,  *)
(* which begins where they end.                                            *)
Waiting(ns, F, G, ss) ==
    /\ NotBefore(F, ss[F.strm], IF Node[F.fmt].kind \in Framing THEN ss[F.strm].pos ELSE G.pos0)
    /\ Node[F.fmt].kind \in Counted =>
          /\ IF Node[F.fmt].kind = "map" THEN KidCount(ns, F) = F.idx - 1 ELSE Counts(F, KidCount(ns, F))
          /\ ns[G.node].key = AwaitedKey(F)
          /\ KidCount(ns, F) > 0 => LastEnd(ns, F) = G.pos0

Working(ns, c, F, s) ==
    /\ NotBefore(F, s, s.pos)
    /\ c = "run" => ~Inside(F)
    /\ c = "leave" => s.pos >= F.pos0
    /\ Node[F.fmt].kind \in Counted =>
          /\ c = "run" => Counts(F, KidCount(ns, F))
          /\ c = "resume" => IF Node[F.fmt].kind = "map" THEN KidCount(ns, F) = F.idx
                             ELSE KidCount(ns, F) > 0 /\ Counts(F, KidCount(ns, F) - 1)
          /\ c = "leave" /\ Node[F.fmt].kind \in {"map", "tuple"} => KidCount(ns, F) = Len(Node[F.fmt].subs)
          /\ KidCount(ns, F) > 0 => /\ c \in {"run", "resume"} => LastEnd(ns, F) = s.pos
                                    /\ LastEnd(ns, F) <= s.pos

InScopes ==
    /\ Scopes(nodes, frames, Len(frames))
    /\ Len(frames) > 0 /\ ctl \in {"run", "resume"} => kidsOf = Top.node
    /\ \A i \in 1..(Len(frames) - 1) : Waiting(nodes, frames[i], frames[i + 1], streams)
    /\ Len(frames) > 0 => Working(nodes, ctl, Top, TopStream)

Trees == Grown(nodes) /\ (inspect => InScopes)

-----------------------------------------------------------------------------
(* What changes of a tree leave of it.  Nodes that are alike differ in     *)
(* their kids.                                                             *)
Alike(M, L) == L.key = M.key /\ L.fmt = M.fmt /\ L.off = M.off /\ L.size = M.size /\ L.closed = M.closed

Keeps(ns, ms) ==
    /\ Len(ns) <= Len(ms)
    /\ \A m \in 1..Len(ns) : /\ Alike(ns[m], ms[m])
                             /\ Node[ns[m].fmt].kind \in Counted => ms[m].kids = ns[m].kids

LEMMA KeepsItself == ASSUME NEW ns, IsSeq(ns) PROVE Keeps(ns, ns)
  BY DEF Keeps, Alike, IsSeq

IsNew(M, key, f, off, n) ==
    /\ IsNode(M, n) /\ M.key = key /\ M.fmt = f /\ M.off = off
    /\ M.closed = FALSE /\ Len(M.kids) = 0

LEMMA NewNodes ==
    ASSUME NEW key, NEW f \in Fmt, NEW off \in Nat, NEW n
    PROVE  IsNew(NewNode(key, f, off), key, f, off, n)
<1>1. PICK M : M = NewNode(key, f, off)
  OBVIOUS
<1>2. /\ DOMAIN M = NodeFields /\ M.key = key /\ M.fmt = f /\ M.off = off /\ M.size = 0
      /\ M.closed = FALSE /\ M.kids = <<>>
  BY <1>1 DEF NewNode, NodeFields
<1>3. IsSeq(M.kids) /\ Len(M.kids) = 0
  BY <1>2, ShortSeqs
<1>4. IsNode(M, n)
  <2>1. \A i \in 1..Len(M.kids) : M.kids[i] \in 1..n
    BY <1>3
  <2>2. M.size \in Int
    BY <1>2
  <2>3. M.closed \in BOOLEAN
    BY <1>2, Zenon
  <2> QED
    BY <1>2, <1>3, <2>1, <2>2, <2>3 DEF IsNode
<1> QED
  BY <1>1, <1>2, <1>3, <1>4 DEF IsNew

(* A node is in order as long as its kids stay what they are.              *)
LEMMA OrderedStays ==
    ASSUME NEW ns, NEW ms, NEW M, NEW L, NEW k \in Nat, k = Len(M.kids), L.fmt = M.fmt, L.kids = M.kids,
           \A i \in 1..k : Alike(ns[M.kids[i]], ms[M.kids[i]]),
           Ordered(ns, M)
    PROVE  Ordered(ms, L)
<1>1. \A i \in 1..(k - 1) : i \in 1..k /\ i + 1 \in 1..k
  OBVIOUS
<1>2. \A i \in 1..k : ms[M.kids[i]].closed
  BY DEF Ordered, Alike
<1>3. ASSUME Node[M.fmt].kind \in Counted, NEW i \in 1..k
      PROVE  KeyFits(Node[M.fmt], i, ms[M.kids[i]].key)
  BY <1>3 DEF Ordered, Alike
<1>4. ASSUME Node[M.fmt].kind \in Counted, NEW i \in 1..(k - 1)
      PROVE  ms[M.kids[i + 1]].off = End(ms[M.kids[i]])
  <2>1. ns[M.kids[i + 1]].off = End(ns[M.kids[i]])
    BY <1>4 DEF Ordered
  <2>2. Alike(ns[M.kids[i]], ms[M.kids[i]]) /\ Alike(ns[M.kids[i + 1]], ms[M.kids[i + 1]])
    BY <1>1
  <2> QED
    BY <2>1, <2>2 DEF Alike, End
<1> QED
  BY <1>2, <1>3, <1>4 DEF Ordered

LEMMA CompleteStays ==
    ASSUME NEW ns, NEW ms, NEW M, NEW L, NEW k \in Nat, k = Len(M.kids), Alike(M, L), L.kids = M.kids,
           \A i \in 1..k : Alike(ns[M.kids[i]], ms[M.kids[i]]),
           Complete(ns, M)
    PROVE  Complete(ms, L)
<1>1. k > 0 => k \in 1..k
  OBVIOUS
<1> QED
  BY <1>1 DEF Complete, Alike, End

LEMMA KidsAreThere ==
    ASSUME NEW ns, Grown(ns), NEW m \in 1..Len(ns)
    PROVE  /\ Len(ns) \in Nat /\ IsNode(ns[m], Len(ns))
           /\ Len(ns[m].kids) \in Nat
           /\ \A i \in 1..Len(ns[m].kids) : ns[m].kids[i] \in 1..Len(ns)
  BY DEF Grown, IsNode, IsSeq

(* A node is added that has no kids.                                       *)
LEMMA GrownMore ==
    ASSUME NEW ns, Grown(ns), NEW M, IsNode(M, Len(ns) + 1), Len(M.kids) = 0,
           M.closed => Node[M.fmt].kind \notin Counted
    PROVE  /\ Grown(Append(ns, M)) /\ Keeps(ns, Append(ns, M))
           /\ Len(Append(ns, M)) = Len(ns) + 1 /\ Append(ns, M)[Len(ns) + 1] = M
<1>1. PICK n \in Nat : n = Len(ns) /\ n > 0
  BY DEF Grown, IsSeq
<1>2. PICK ms : ms = Append(ns, M)
  OBVIOUS
<1>3. IsSeq(ms) /\ Len(ms) = n + 1 /\ ms[n + 1] = M /\ \A m \in 1..n : ms[m] = ns[m]
  BY <1>1, <1>2, AppendSeq DEF Grown
<1>4. ASSUME NEW m \in 1..(n + 1) PROVE IsNode(ms[m], n + 1)
  <2>1. CASE m = n + 1
    BY <1>1, <1>3, <2>1
  <2>2. CASE m \in 1..n
    <3>1. IsNode(ns[m], n)
      BY <1>1, <2>2 DEF Grown
    <3>2. \A j \in 1..n : j \in 1..(n + 1)
      OBVIOUS
    <3> QED
      BY <1>3, <2>2, <3>1, <3>2 DEF IsNode
  <2> QED
    BY <2>1, <2>2
<1>5. ASSUME NEW m \in 2..(n + 1) PROVE Ordered(ms, ms[m]) /\ Complete(ms, ms[m])
  <2>1. CASE m = n + 1
    BY <1>3, <2>1 DEF Ordered, Complete
  <2>2. CASE m \in 2..n
    <3>1. m \in 1..n
      BY <2>2
    <3>2. PICK k \in Nat : k = Len(ns[m].kids) /\ \A i \in 1..k : ns[m].kids[i] \in 1..n
      BY <1>1, <3>1, KidsAreThere
    <3>3. \A i \in 1..k : Alike(ns[ns[m].kids[i]], ms[ns[m].kids[i]])
      BY <1>3, <3>2 DEF Alike
    <3>4. Ordered(ns, ns[m]) /\ Complete(ns, ns[m])
      BY <1>1, <2>2 DEF Grown
    <3>5. ms[m] = ns[m] /\ Alike(ns[m], ns[m])
      BY <1>3, <3>1 DEF Alike
    <3>6. Ordered(ms, ns[m]) /\ Complete(ms, ns[m])
      BY <3>2, <3>3, <3>4, <3>5, OrderedStays, CompleteStays
    <3> QED
      BY <3>5, <3>6
  <2> QED
    BY <1>1, <2>1, <2>2
<1>6. ~ms[1].closed
  BY <1>1, <1>3 DEF Grown
<1>7. Grown(ms)
  BY <1>1, <1>3, <1>4, <1>5, <1>6 DEF Grown
<1>8. Keeps(ns, ms)
  BY <1>1, <1>3 DEF Keeps, Alike
<1> QED
  BY <1>1, <1>2, <1>3, <1>7, <1>8

(* A closed node is added to the kids of a node that is no container.      *)
LEMMA GrownByLeaf ==
    ASSUME Grown(nodes), NEW k \in 2..Len(nodes), Node[nodes[k].fmt].kind \notin Counted,
           NEW M, IsNode(M, Len(nodes) + 1), Len(M.kids) = 0, M.closed, Node[M.fmt].kind \notin Counted
    PROVE  LET ns == Append([nodes EXCEPT ![k].kids = Append(@, Len(nodes) + 1)], M)
           IN  Grown(ns) /\ Keeps(nodes, ns)
<1>1. PICK n \in Nat : n = Len(nodes) /\ n > 0 /\ k \in 2..n
  BY DEF Grown, IsSeq
<1>2. PICK t : t = [nodes EXCEPT ![k].kids = Append(@, n + 1)]
  OBVIOUS
<1>3. nodes = [m \in 1..n |-> nodes[m]]
  BY <1>1 DEF Grown, IsSeq
<1>4. k \in 1..n /\ k # 1
  BY <1>1
<1>5. /\ t = [m \in 1..n |-> t[m]]
      /\ \A m \in 1..n : m # k => t[m] = nodes[m]
      /\ t[k] = [nodes[k] EXCEPT !.kids = Append(@, n + 1)]
  BY <1>2, <1>3, <1>4
<1>6. IsNode(nodes[k], n)
  BY <1>1, <1>4 DEF Grown
<1>7. /\ DOMAIN t[k] = NodeFields /\ t[k].kids = Append(nodes[k].kids, n + 1) /\ Alike(nodes[k], t[k])
  BY <1>5, <1>6 DEF IsNode, NodeFields, Alike
<1>8. IsSeq(t) /\ Len(t) = n
  BY <1>5, IsSeqIntro
<1>9. PICK ms : ms = Append(t, M)
  OBVIOUS
<1>10. IsSeq(ms) /\ Len(ms) = n + 1 /\ ms[n + 1] = M /\ \A m \in 1..n : ms[m] = t[m]
  BY <1>8, <1>9, AppendSeq
<1>11. \A m \in 1..n : Alike(nodes[m], ms[m])
  BY <1>5, <1>7, <1>10 DEF Alike
<1>12. PICK c \in Nat : c = Len(nodes[k].kids) /\ IsSeq(nodes[k].kids)
                        /\ \A i \in 1..c : nodes[k].kids[i] \in 1..n
  BY <1>6 DEF IsNode, IsSeq
<1>13. /\ IsSeq(ms[k].kids) /\ Len(ms[k].kids) = c + 1 /\ ms[k].kids[c + 1] = n + 1
       /\ \A i \in 1..c : ms[k].kids[i] = nodes[k].kids[i]
  <2>1. PICK old : old = nodes[k].kids
    OBVIOUS
  <2>2. IsSeq(old) /\ Len(old) = c
    BY <1>12, <2>1
  <2>3. /\ IsSeq(Append(old, n + 1)) /\ Len(Append(old, n + 1)) = c + 1 /\ Append(old, n + 1)[c + 1] = n + 1
        /\ \A i \in 1..c : Append(old, n + 1)[i] = old[i]
    BY <2>2, AppendSeq
  <2>4. ms[k].kids = Append(old, n + 1)
    BY <1>4, <1>7, <1>10, <2>1
  <2> QED
    BY <2>1, <2>3, <2>4
<1>14. ASSUME NEW m \in 1..(n + 1) PROVE IsNode(ms[m], n + 1)
  <2>1. CASE m = n + 1
    BY <1>1, <1>10, <2>1
  <2>2. CASE m = k
    <3>1. ASSUME NEW i \in 1..(c + 1) PROVE ms[k].kids[i] \in 1..(n + 1)
      <4>1. CASE i = c + 1
        <5>1. n + 1 \in 1..(n + 1)
          BY <1>1
        <5> QED
          BY <1>13, <4>1, <5>1
      <4>2. CASE i \in 1..c
        <5>1. nodes[k].kids[i] \in 1..(n + 1)
          BY <1>1, <1>12, <4>2
        <5> QED
          BY <1>13, <4>2, <5>1
      <4> QED
        BY <1>12, <4>1, <4>2
    <3>2. DOMAIN ms[k] = NodeFields
      BY <1>4, <1>7, <1>10
    <3>3. ms[k].fmt = nodes[k].fmt /\ ms[k].off = nodes[k].off /\ ms[k].size = nodes[k].size
          /\ ms[k].closed = nodes[k].closed
      BY <1>4, <1>11 DEF Alike
    <3> QED
      BY <1>6, <1>13, <2>2, <3>1, <3>2, <3>3 DEF IsNode
  <2>3. CASE m \in 1..n /\ m # k
    <3>1. IsNode(nodes[m], n) /\ ms[m] = nodes[m]
      BY <1>1, <1>5, <1>10, <2>3 DEF Grown
    <3>2. \A j \in 1..n : j \in 1..(n + 1)
      OBVIOUS
    <3> QED
      BY <3>1, <3>2 DEF IsNode
  <2> QED
    BY <2>1, <2>2, <2>3
<1>15. ASSUME NEW m \in 2..(n + 1) PROVE Ordered(ms, ms[m]) /\ Complete(ms, ms[m])
  <2>1. CASE m = n + 1
    BY <1>10, <2>1 DEF Ordered, Complete
  <2>2. CASE m = k
    <3>1. Node[ms[k].fmt].kind \notin Counted
      BY <1>4, <1>11 DEF Alike
    <3>2. Ordered(nodes, nodes[k])
      BY <1>1 DEF Grown
    <3>3. ASSUME NEW i \in 1..(c + 1) PROVE ms[ms[k].kids[i]].closed
      <4>1. CASE i = c + 1
        BY <1>10, <1>13, <4>1
      <4>2. CASE i \in 1..c
        <5>1. nodes[nodes[k].kids[i]].closed
          BY <1>12, <3>2, <4>2 DEF Ordered
        <5> QED
          BY <1>11, <1>12, <1>13, <4>2, <5>1 DEF Alike
      <4> QED
        BY <4>1, <4>2
    <3> QED
      BY <1>13, <2>2, <3>1, <3>3 DEF Ordered, Complete
  <2>3. CASE m \in 2..n /\ m # k
    <3>1. m \in 1..n /\ ms[m] = nodes[m] /\ Alike(nodes[m], nodes[m])
      BY <1>5, <1>10, <2>3 DEF Alike
    <3>2. PICK d \in Nat : d = Len(nodes[m].kids) /\ \A i \in 1..d : nodes[m].kids[i] \in 1..n
      BY <1>1, <3>1, KidsAreThere
    <3>3. \A i \in 1..d : Alike(nodes[nodes[m].kids[i]], ms[nodes[m].kids[i]])
      BY <1>11, <3>2
    <3>4. Ordered(nodes, nodes[m]) /\ Complete(nodes, nodes[m])
      BY <1>1, <2>3 DEF Grown
    <3>5. Ordered(ms, nodes[m]) /\ Complete(ms, nodes[m])
      BY <3>1, <3>2, <3>3, <3>4, OrderedStays, CompleteStays
    <3> QED
      BY <3>1, <3>5
  <2> QED
    BY <1>1, <2>1, <2>2, <2>3
<1>16. ms[1] = nodes[1]
  BY <1>1, <1>4, <1>5, <1>10
<1>17. Grown(ms)
  BY <1>1, <1>10, <1>14, <1>15, <1>16 DEF Grown
<1>18. Keeps(nodes, ms)
  <2>1. \A m \in 1..n : Node[nodes[m].fmt].kind \in Counted => ms[m].kids = nodes[m].kids
    BY <1>5, <1>10
  <2> QED
    BY <1>1, <1>10, <1>11, <2>1 DEF Keeps
<1> QED
  BY <1>1, <1>2, <1>9, <1>17, <1>18

(* A node closes and becomes a kid of another, which is open.              *)
Closing(a, b, z) ==
    [nodes EXCEPT ![a].size = z, ![a].closed = TRUE, ![b].kids = Append(@, a)]

IsClosing(ms, a, b, z) ==
    /\ IsSeq(ms) /\ Len(ms) = Len(nodes)
    /\ \A m \in 1..Len(nodes) : m \notin {a, b} => ms[m] = nodes[m]
    /\ DOMAIN ms[a] = NodeFields /\ DOMAIN ms[b] = NodeFields
    /\ ms[a].key = nodes[a].key /\ ms[a].fmt = nodes[a].fmt /\ ms[a].off = nodes[a].off
    /\ ms[a].size = z /\ ms[a].closed = TRUE /\ ms[a].kids = nodes[a].kids
    /\ Alike(nodes[b], ms[b])
    /\ ms[b].kids = Append(nodes[b].kids, a)

LEMMA ClosingChanges ==
    ASSUME Grown(nodes), NEW a \in 2..Len(nodes), NEW b \in 1..Len(nodes), a # b, NEW z
    PROVE  IsClosing(Closing(a, b, z), a, b, z)
<1>1. PICK n \in Nat : n = Len(nodes) /\ nodes = [m \in 1..n |-> nodes[m]]
  BY DEF Grown, IsSeq
<1>2. PICK ms : ms = Closing(a, b, z)
  OBVIOUS
<1>3. a \in 1..n /\ b \in 1..n
  BY <1>1
<1>4. /\ ms = [m \in 1..n |-> ms[m]]
      /\ \A m \in 1..n : m \notin {a, b} => ms[m] = nodes[m]
      /\ ms[a] = [[nodes[a] EXCEPT !.size = z] EXCEPT !.closed = TRUE]
      /\ ms[b] = [nodes[b] EXCEPT !.kids = Append(@, a)]
  BY <1>1, <1>2, <1>3 DEF Closing
<1>5. DOMAIN nodes[a] = NodeFields /\ DOMAIN nodes[b] = NodeFields
  BY <1>1, <1>3 DEF Grown, IsNode
<1>6. IsSeq(ms) /\ Len(ms) = n
  BY <1>4, IsSeqIntro
<1>7. PICK A : A = nodes[a]
  OBVIOUS
<1>8. PICK B : B = nodes[b]
  OBVIOUS
<1>9. /\ DOMAIN ms[a] = NodeFields
      /\ ms[a].key = A.key /\ ms[a].fmt = A.fmt /\ ms[a].off = A.off
      /\ ms[a].size = z /\ ms[a].closed = TRUE /\ ms[a].kids = A.kids
  BY <1>4, <1>5, <1>7 DEF NodeFields
<1>10. DOMAIN ms[b] = NodeFields /\ Alike(B, ms[b]) /\ ms[b].kids = Append(B.kids, a)
  BY <1>4, <1>5, <1>8 DEF NodeFields, Alike
<1> QED
  BY <1>1, <1>2, <1>4, <1>6, <1>7, <1>8, <1>9, <1>10 DEF IsClosing

LEMMA GrownByClosing ==
    ASSUME Grown(nodes), NEW a \in 2..Len(nodes), NEW b \in 1..Len(nodes), a # b, NEW z \in Int,
           ~nodes[a].closed, ~nodes[b].closed,
           Node[nodes[a].fmt].kind \in Counted =>
              /\ Len(nodes[a].kids) > 0 => End(nodes[nodes[a].kids[Len(nodes[a].kids)]]) <= nodes[a].off + z
              /\ Node[nodes[a].fmt].kind \in {"map", "tuple"} =>
                    Len(nodes[a].kids) = Len(Node[nodes[a].fmt].subs),
           b # 1 /\ Node[nodes[b].fmt].kind \in Counted =>
              /\ KeyFits(Node[nodes[b].fmt], Len(nodes[b].kids) + 1, nodes[a].key)
              /\ Len(nodes[b].kids) > 0 => nodes[a].off = End(nodes[nodes[b].kids[Len(nodes[b].kids)]])
    PROVE  Grown(Closing(a, b, z))
<1>1. PICK n \in Nat : n = Len(nodes) /\ n > 0 /\ a \in 2..n /\ b \in 1..n
  BY DEF Grown, IsSeq
<1>2. PICK ms : ms = Closing(a, b, z)
  OBVIOUS
<1>3. /\ IsSeq(ms) /\ Len(ms) = n
      /\ \A m \in 1..n : m \notin {a, b} => ms[m] = nodes[m]
      /\ DOMAIN ms[a] = NodeFields /\ DOMAIN ms[b] = NodeFields
      /\ ms[a].key = nodes[a].key /\ ms[a].fmt = nodes[a].fmt /\ ms[a].off = nodes[a].off
      /\ ms[a].size = z /\ ms[a].closed = TRUE /\ ms[a].kids = nodes[a].kids
      /\ Alike(nodes[b], ms[b])
      /\ ms[b].kids = Append(nodes[b].kids, a)
  <2>1. IsClosing(Closing(a, b, z), a, b, z)
    BY ClosingChanges
  <2> QED
    BY <1>1, <1>2, <2>1 DEF IsClosing
<1>4. \A m \in 1..n : nodes[m].closed => m \notin {a, b} /\ Alike(nodes[m], ms[m])
  BY <1>1, <1>3 DEF Alike
<1>5. PICK c \in Nat : c = Len(nodes[b].kids) /\ IsSeq(nodes[b].kids)
                       /\ \A i \in 1..c : nodes[b].kids[i] \in 1..n
  BY <1>1 DEF Grown, IsNode, IsSeq
<1>6. /\ IsSeq(ms[b].kids) /\ Len(ms[b].kids) = c + 1 /\ ms[b].kids[c + 1] = a
      /\ \A i \in 1..c : ms[b].kids[i] = nodes[b].kids[i]
  <2>1. PICK old : old = nodes[b].kids
    OBVIOUS
  <2>2. IsSeq(old) /\ Len(old) = c
    BY <1>5, <2>1
  <2>3. /\ IsSeq(Append(old, a)) /\ Len(Append(old, a)) = c + 1 /\ Append(old, a)[c + 1] = a
        /\ \A i \in 1..c : Append(old, a)[i] = old[i]
    BY <2>2, AppendSeq
  <2> QED
    BY <1>3, <2>1, <2>3
<1>7. ASSUME NEW m \in 1..n PROVE IsNode(ms[m], n)
  <2>1. IsNode(nodes[m], n)
    BY <1>1 DEF Grown
  <2>2. CASE m = a
    BY <1>3, <2>1, <2>2 DEF IsNode
  <2>3. CASE m = b
    <3>1. \A i \in 1..(c + 1) : ms[b].kids[i] \in 1..n
      <4> TAKE i \in 1..(c + 1)
      <4>1. CASE i = c + 1
        BY <1>1, <1>6, <4>1
      <4>2. CASE i \in 1..c
        BY <1>5, <1>6, <4>2
      <4> QED
        BY <1>5, <4>1, <4>2
    <3> QED
      BY <1>3, <1>6, <2>1, <2>3, <3>1 DEF IsNode, Alike
  <2>4. CASE m \notin {a, b}
    BY <1>3, <2>1, <2>4
  <2> QED
    BY <2>2, <2>3, <2>4
<1>8. ASSUME NEW m \in 2..n, m # b PROVE Ordered(ms, ms[m]) /\ Complete(ms, ms[m])
  <2>1. m \in 1..n /\ Ordered(nodes, nodes[m]) /\ Complete(nodes, nodes[m])
    BY <1>1 DEF Grown
  <2>2. PICK k \in Nat : k = Len(nodes[m].kids) /\ \A i \in 1..k : nodes[m].kids[i] \in 1..n
    BY <1>1, <2>1, KidsAreThere
  <2>3. \A i \in 1..k : Alike(nodes[nodes[m].kids[i]], ms[nodes[m].kids[i]])
    BY <1>4, <2>1, <2>2 DEF Ordered
  <2>4. ms[m].fmt = nodes[m].fmt /\ ms[m].kids = nodes[m].kids
    BY <1>3, <1>8, <2>1
  <2>5. Ordered(ms, ms[m])
    BY <2>1, <2>2, <2>3, <2>4, OrderedStays
  <2>6. CASE m # a
    <3>1. ms[m] = nodes[m] /\ Alike(nodes[m], nodes[m])
      BY <1>3, <1>8, <2>1, <2>6 DEF Alike
    <3>2. Complete(ms, nodes[m])
      BY <2>1, <2>2, <2>3, <3>1, CompleteStays
    <3> QED
      BY <2>5, <3>1, <3>2
  <2>7. CASE m = a
    <3>1. k > 0 => LET j == nodes[a].kids[k] IN End(ms[j]) = End(nodes[j])
      <4>1. k > 0 => k \in 1..k
        BY <2>2
      <4> QED
        BY <2>3, <2>7, <4>1 DEF Alike, End
    <3>2. End(ms[a]) = nodes[a].off + z
      BY <1>3 DEF End
    <3>3. Complete(ms, ms[a])
      BY <1>3, <2>2, <2>7, <3>1, <3>2 DEF Complete
    <3> QED
      BY <2>5, <2>7, <3>3
  <2> QED
    BY <2>6, <2>7
<1>9. ASSUME b # 1 PROVE Ordered(ms, ms[b]) /\ Complete(ms, ms[b])
  <2>1. b \in 2..n /\ Ordered(nodes, nodes[b])
    BY <1>1, <1>9 DEF Grown
  <2>2. Complete(ms, ms[b])
    BY <1>3 DEF Complete, Alike
  <2>3. PICK f : f = nodes[b].fmt /\ ms[b].fmt = f
    BY <1>3 DEF Alike
  <2>4. \A i \in 1..c : /\ ms[b].kids[i] = nodes[b].kids[i] /\ nodes[nodes[b].kids[i]].closed
                        /\ Alike(nodes[nodes[b].kids[i]], ms[nodes[b].kids[i]])
    BY <1>4, <1>5, <1>6, <2>1 DEF Ordered
  <2>5. ASSUME NEW i \in 1..(c + 1) PROVE ms[ms[b].kids[i]].closed
    <3>1. CASE i = c + 1
      BY <1>3, <1>6, <3>1
    <3>2. CASE i \in 1..c
      BY <2>4, <3>2 DEF Alike
    <3> QED
      BY <1>5, <3>1, <3>2
  <2>6. ASSUME Node[f].kind \in Counted, NEW i \in 1..(c + 1) PROVE KeyFits(Node[f], i, ms[ms[b].kids[i]].key)
    <3>1. CASE i = c + 1
      BY <1>3, <1>5, <1>6, <1>9, <2>3, <2>6, <3>1
    <3>2. CASE i \in 1..c
      <4>1. KeyFits(Node[f], i, nodes[nodes[b].kids[i]].key)
        BY <1>5, <2>1, <2>3, <2>6, <3>2 DEF Ordered
      <4> QED
        BY <2>4, <3>2, <4>1 DEF Alike
    <3> QED
      BY <1>5, <3>1, <3>2
  <2>7. ASSUME Node[f].kind \in Counted, NEW i \in 1..c
        PROVE  ms[ms[b].kids[i + 1]].off = End(ms[ms[b].kids[i]])
    <3>1. End(ms[ms[b].kids[i]]) = End(nodes[nodes[b].kids[i]])
      BY <2>4 DEF Alike, End
    <3>2. CASE i = c
      <4>1. c > 0
        BY <2>7, <3>2
      <4>2. nodes[a].off = End(nodes[nodes[b].kids[c]])
        BY <1>5, <1>9, <2>3, <2>7, <4>1
      <4> QED
        BY <1>3, <1>6, <3>1, <3>2, <4>2
    <3>3. CASE i \in 1..(c - 1)
      <4>1. nodes[nodes[b].kids[i + 1]].off = End(nodes[nodes[b].kids[i]])
        BY <1>5, <2>1, <2>3, <2>7, <3>3 DEF Ordered
      <4>2. i + 1 \in 1..c
        BY <3>3
      <4>3. ms[ms[b].kids[i + 1]].off = nodes[nodes[b].kids[i + 1]].off
        BY <2>4, <4>2 DEF Alike
      <4> QED
        BY <3>1, <4>1, <4>3
    <3> QED
      BY <1>5, <3>2, <3>3
  <2>8. c + 1 - 1 = c
    BY <1>5
  <2> QED
    BY <1>6, <2>2, <2>3, <2>5, <2>6, <2>7, <2>8 DEF Ordered
<1>10. ~ms[1].closed
  <2>1. 1 \in 1..n /\ 1 # a /\ ~nodes[1].closed
    BY <1>1 DEF Grown
  <2> QED
    BY <1>3, <2>1 DEF Alike
<1>11. \A m \in 2..n : Ordered(ms, ms[m]) /\ Complete(ms, ms[m])
  BY <1>8, <1>9
<1> QED
  BY <1>1, <1>2, <1>3, <1>7, <1>10, <1>11 DEF Grown

-----------------------------------------------------------------------------
(* The scopes of the frames that wait stay as they are when a step adds to *)
(* the tree and touches no stream but the running frame's.                 *)
Beyond(ss) == /\ \A k \in 1..(Top.strm - 1) : ss[k] = streams[k]
              /\ ss[Top.strm].seekable = TopStream.seekable

SameScope(F) == /\ F.fmt = Top.fmt /\ F.strm = Top.strm /\ F.pos0 = Top.pos0
                /\ F.node = Top.node /\ F.outer = Top.outer

(* The kids of a node, and what matters of them, are those they were.      *)
SameKids(ns, ms, F) ==
    /\ Kids(ms, F) = Kids(ns, F)
    /\ \A i \in 1..KidCount(ns, F) : Alike(ns[Kids(ns, F)[i]], ms[Kids(ns, F)[i]])

LEMMA SameKidsCount ==
    ASSUME NEW ns, NEW ms, NEW F, SameKids(ns, ms, F), KidCount(ns, F) \in Nat
    PROVE  /\ KidCount(ms, F) = KidCount(ns, F)
           /\ KidCount(ns, F) > 0 => LastEnd(ms, F) = LastEnd(ns, F)
<1>1. KidCount(ms, F) = KidCount(ns, F)
  BY DEF SameKids, Kids, KidCount
<1>2. KidCount(ns, F) > 0 => KidCount(ns, F) \in 1..KidCount(ns, F)
  OBVIOUS
<1> QED
  BY <1>1, <1>2 DEF SameKids, LastEnd, Alike, End

LEMMA KeptKids ==
    ASSUME NEW ns, Grown(ns), NEW ms, Keeps(ns, ms), NEW F, F.node \in 1..Len(ns), ns[F.node].fmt = F.fmt,
           Node[F.fmt].kind \in Counted
    PROVE  SameKids(ns, ms, F) /\ KidCount(ns, F) \in Nat
<1>1. PICK k \in Nat : k = Len(ns[F.node].kids) /\ \A i \in 1..k : ns[F.node].kids[i] \in 1..Len(ns)
  BY KidsAreThere
<1>2. ms[F.node].kids = ns[F.node].kids
  BY DEF Keeps
<1>3. \A i \in 1..k : Alike(ns[ns[F.node].kids[i]], ms[ns[F.node].kids[i]])
  BY <1>1 DEF Keeps
<1> QED
  BY <1>1, <1>2, <1>3 DEF SameKids, Kids, KidCount

LEMMA WaitingSame ==
    ASSUME NEW ns, NEW ms, NEW F, NEW G, NEW ss, NEW tt, Waiting(ns, F, G, ss),
           Node[F.fmt].kind \in Counted => SameKids(ns, ms, F) /\ KidCount(ns, F) \in Nat,
           Alike(ns[G.node], ms[G.node]),
           tt[F.strm].seekable = ss[F.strm].seekable,
           Node[F.fmt].kind \in Framing => tt[F.strm] = ss[F.strm]
    PROVE  Waiting(ms, F, G, tt)
<1>1. NotBefore(F, tt[F.strm], IF Node[F.fmt].kind \in Framing THEN tt[F.strm].pos ELSE G.pos0)
  BY DEF Waiting, NotBefore
<1>2. ASSUME Node[F.fmt].kind \in Counted
      PROVE  /\ IF Node[F.fmt].kind = "map" THEN KidCount(ms, F) = F.idx - 1 ELSE Counts(F, KidCount(ms, F))
             /\ ms[G.node].key = AwaitedKey(F)
             /\ KidCount(ms, F) > 0 => LastEnd(ms, F) = G.pos0
  <2>1. KidCount(ms, F) = KidCount(ns, F) /\ (KidCount(ns, F) > 0 => LastEnd(ms, F) = LastEnd(ns, F))
    BY <1>2, SameKidsCount
  <2>2. ms[G.node].key = ns[G.node].key
    BY DEF Alike
  <2> QED
    BY <1>2, <2>1, <2>2 DEF Waiting
<1> QED
  BY <1>1, <1>2 DEF Waiting

(* The streams that a waiting frame has.                                   *)
LEMMA StreamsBelow ==
    ASSUME Inv, Typed, NEW i \in 1..(Len(frames) - 1), NEW ss, Beyond(ss)
    PROVE  /\ ss[frames[i].strm].seekable = streams[frames[i].strm].seekable
           /\ Node[frames[i].fmt].kind \in Framing => ss[frames[i].strm] = streams[frames[i].strm]
<1>1. PICK n \in Nat : n = Len(frames) /\ i \in 1..(n - 1)
  BY LengthsAreNat
<1>2. i \in 1..n /\ i + 1 \in 1..n /\ n \in 1..n
  BY <1>1
<1>3. Calls(frames[i], frames[i + 1]) /\ frames[i + 1].strm <= frames[n].strm
  BY <1>1, <1>2 DEF Typed, StackTyped, FramesFit
<1>4. /\ frames[i].strm \in 1..Len(streams) /\ frames[i + 1].strm \in 1..Len(streams)
      /\ frames[n].strm \in 1..Len(streams)
  BY <1>1, <1>2 DEF Typed, StackTyped, FramesFit, Within
<1>5. Top.strm = frames[n].strm
  BY <1>1 DEF Top
<1>6. PICK a \in Nat, b \in Nat, c \in Nat : a = frames[i].strm /\ b = frames[i + 1].strm /\ c = Top.strm
  BY <1>4, <1>5, LengthsAreNat DEF Sizable
<1>7. a > 0 /\ b <= c /\ a <= b /\ (Node[frames[i].fmt].kind \in Framing => a < b)
  BY <1>3, <1>4, <1>5, <1>6, LengthsAreNat DEF Calls, Sizable
<1>8. CASE a < c
  <2>1. a \in 1..(c - 1)
    BY <1>7, <1>8
  <2> QED
    BY <1>6, <2>1 DEF Beyond
<1>9. CASE a = c
  BY <1>6, <1>7, <1>9 DEF Beyond, TopStream
<1> QED
  BY <1>7, <1>8, <1>9

(* What is opened stays so.                                                *)
LEMMA ScopesKept ==
    ASSUME NEW ns, Grown(ns), NEW ms, Keeps(ns, ms), Len(ms) \in Nat, NEW stack, NEW n \in Nat,
           Scopes(ns, stack, n)
    PROVE  Scopes(ms, stack, n)
<1>1. Len(ns) \in Nat /\ Len(ns) <= Len(ms)
  BY DEF Keeps, Grown, IsSeq
<1>2. ASSUME NEW i \in 1..n PROVE Opened(ms, stack[i])
  <2>1. Opened(ns, stack[i])
    BY DEF Scopes
  <2>2. stack[i].node \in 1..Len(ns) /\ stack[i].node \in 2..Len(ms)
    BY <1>1, <2>1 DEF Opened
  <2>3. Alike(ns[stack[i].node], ms[stack[i].node])
    BY <2>2 DEF Keeps
  <2> QED
    BY <2>1, <2>2, <2>3 DEF Opened, Alike
<1> QED
  BY <1>2 DEF Scopes

LEMMA WaitsBelow ==
    ASSUME Inv, Typed, Grown(nodes), InScopes, NEW ms, Keeps(nodes, ms), NEW ss, Beyond(ss),
           NEW i \in 1..(Len(frames) - 1)
    PROVE  Waiting(ms, frames[i], frames[i + 1], ss)
<1>1. PICK n \in Nat : n = Len(frames) /\ i \in 1..(n - 1)
  BY LengthsAreNat
<1>2. i \in 1..n /\ i + 1 \in 1..n
  BY <1>1
<1>3. Waiting(nodes, frames[i], frames[i + 1], streams) /\ Opened(nodes, frames[i]) /\ Opened(nodes, frames[i + 1])
  BY <1>1, <1>2 DEF InScopes, Scopes
<1>4. Len(nodes) \in Nat
  BY DEF Grown, IsSeq
<1>5. frames[i].node \in 1..Len(nodes) /\ frames[i + 1].node \in 1..Len(nodes)
      /\ nodes[frames[i].node].fmt = frames[i].fmt
  BY <1>3, <1>4 DEF Opened
<1>6. Node[frames[i].fmt].kind \in Counted =>
         SameKids(nodes, ms, frames[i]) /\ KidCount(nodes, frames[i]) \in Nat
  BY <1>5, KeptKids
<1>7. Alike(nodes[frames[i + 1].node], ms[frames[i + 1].node])
  BY <1>5 DEF Keeps
<1>8. /\ ss[frames[i].strm].seekable = streams[frames[i].strm].seekable
      /\ Node[frames[i].fmt].kind \in Framing => ss[frames[i].strm] = streams[frames[i].strm]
  BY StreamsBelow
<1> QED
  BY <1>3, <1>6, <1>7, <1>8, WaitingSame

(* The running frame goes on, ends or raises.                              *)
LEMMA StayTrees ==
    ASSUME Inv, Typed, Grown(nodes), InScopes, Len(frames) > 0,
           NEW F, SameScope(F), frames' = WithTop(F),
           NEW ms, nodes' = ms, Keeps(nodes, ms), Len(ms) \in Nat,
           UNCHANGED kidsOf, ctl' \in {"run", "resume"} => ctl \in {"run", "resume"},
           NEW ss, streams' = ss, Beyond(ss),
           Working(ms, ctl', F, ss[F.strm])
    PROVE  InScopes'
<1>1. PICK n \in Nat : n = Len(frames) /\ n > 0
  BY LengthsAreNat
<1>2. /\ Len(frames') = n /\ frames'[n] = F
      /\ \A i \in 1..(n - 1) : frames'[i] = frames[i]
  BY <1>1, WithTopSeq DEF Inv, Shape
<1>3. /\ frames[n].node = F.node /\ frames[n].outer = F.outer /\ frames[n].fmt = F.fmt
      /\ frames[n].pos0 = F.pos0 /\ Top = frames[n]
  BY <1>1 DEF SameScope, Top
<1>4. Scopes(ms, frames, n)
  BY <1>1, ScopesKept DEF InScopes
<1>5. Scopes(ms, frames', n)
  <2>1. \A i \in 1..n : /\ frames'[i].node = frames[i].node /\ frames'[i].outer = frames[i].outer
                        /\ frames'[i].fmt = frames[i].fmt /\ frames'[i].pos0 = frames[i].pos0
    <3> TAKE i \in 1..n
    <3>1. CASE i = n
      BY <1>2, <1>3, <3>1
    <3>2. CASE i \in 1..(n - 1)
      BY <1>2, <3>2
    <3> QED
      BY <3>1, <3>2
  <2>2. \A i \in 1..n : Opened(ms, frames'[i])
    BY <1>4, <2>1 DEF Scopes, Opened
  <2>3. \A j \in 1..n : \A i \in 1..(j - 1) : i \in 1..n
    OBVIOUS
  <2>4. \A i \in 1..(n - 1) : i \in 1..n /\ i + 1 \in 1..n
    OBVIOUS
  <2>5. \A i \in 1..(n - 1) : frames'[i + 1].outer = frames'[i].node
    BY <1>4, <2>1, <2>4 DEF Scopes
  <2>6. \A j \in 1..n : \A i \in 1..(j - 1) : frames'[i].node # frames'[j].node
    BY <1>4, <2>1, <2>3 DEF Scopes
  <2>7. frames'[1].outer = 1
    BY <1>1, <1>4, <2>1 DEF Scopes
  <2> QED
    BY <2>2, <2>5, <2>6, <2>7 DEF Scopes
<1>6. ASSUME NEW i \in 1..(n - 1) PROVE Waiting(ms, frames'[i], frames'[i + 1], ss)
  <2>1. Waiting(ms, frames[i], frames[i + 1], ss)
    BY <1>1, WaitsBelow
  <2>2. frames'[i] = frames[i]
    BY <1>2
  <2>3. frames'[i + 1].pos0 = frames[i + 1].pos0 /\ frames'[i + 1].node = frames[i + 1].node
    <3>1. CASE i = n - 1
      BY <1>1, <1>2, <1>3, <3>1
    <3>2. CASE i # n - 1
      <4>1. i + 1 \in 1..(n - 1)
        BY <3>2
      <4> QED
        BY <1>2, <4>1
    <3> QED
      BY <3>1, <3>2
  <2> QED
    BY <2>1, <2>2, <2>3 DEF Waiting
<1>7. Top' = F /\ TopStream' = ss[F.strm]
  BY <1>2 DEF Top, TopStream
<1>8. ctl' \in {"run", "resume"} => kidsOf' = Top'.node
  BY <1>1, <1>3, <1>7 DEF InScopes
<1> QED
  BY <1>2, <1>5, <1>6, <1>7, <1>8 DEF InScopes

(* Where the running frame, its stream and the kids of its node stand.     *)
LEMMA TopGrown ==
    ASSUME Inv, Typed, Grown(nodes), InScopes, Len(frames) > 0
    PROVE  /\ Working(nodes, ctl, Top, TopStream)
           /\ Opened(nodes, Top)
           /\ Top.node \in 2..Len(nodes) /\ Len(nodes) \in Nat /\ IsSeq(nodes)
           /\ KidCount(nodes, Top) \in Nat
           /\ KidCount(nodes, Top) > 0 => LastEnd(nodes, Top) \in Int
           /\ Top.idx \in Nat /\ Top.pos0 \in Nat /\ Top.saved \in Nat
           /\ TopStream.pos \in Nat
           /\ Top.fmt \in Fmt
<1>1. PICK n \in Nat : n = Len(frames) /\ n > 0 /\ n \in 1..n /\ Top = frames[n]
  BY LengthsAreNat DEF Top
<1>2. Working(nodes, ctl, Top, TopStream) /\ Opened(nodes, Top)
  BY <1>1 DEF InScopes, Scopes
<1>3. Fit(Top) /\ IsStream(TopStream)
  BY TopTyped
<1>4. Len(nodes) \in Nat /\ IsSeq(nodes)
  BY DEF Grown, IsSeq
<1>5. Top.node \in 2..Len(nodes) /\ Top.node \in 1..Len(nodes)
  BY <1>2, <1>4 DEF Opened
<1>6. PICK k \in Nat : k = Len(nodes[Top.node].kids) /\ \A i \in 1..k : nodes[Top.node].kids[i] \in 1..Len(nodes)
  BY <1>5, KidsAreThere
<1>7. ASSUME k > 0 PROVE End(nodes[nodes[Top.node].kids[k]]) \in Int
  <2>1. PICK m \in 1..Len(nodes) : m = nodes[Top.node].kids[k]
    BY <1>6, <1>7
  <2>2. nodes[m].off \in Nat /\ nodes[m].size \in Int
    BY <2>1 DEF Grown, IsNode
  <2> QED
    BY <2>1, <2>2 DEF End
<1> QED
  BY <1>2, <1>3, <1>4, <1>5, <1>6, <1>7 DEF KidCount, Kids, LastEnd, Fit, IsStream

(* The tree stays as it is.                                                *)
LEMMA SameTree ==
    ASSUME Inv, Typed, Grown(nodes), InScopes, Len(frames) > 0,
           NEW F, SameScope(F), frames' = WithTop(F), UNCHANGED tree,
           ctl' \in {"run", "resume"} => ctl \in {"run", "resume"},
           NEW ss, streams' = ss, Beyond(ss),
           Working(nodes, ctl', F, ss[F.strm])
    PROVE  Grown(nodes)' /\ InScopes'
<1>1. Keeps(nodes, nodes) /\ Len(nodes) \in Nat
  BY KeepsItself DEF Grown, IsSeq
<1>2. nodes' = nodes /\ kidsOf' = kidsOf
  BY DEF tree
<1>3. InScopes'
  BY <1>1, <1>2, StayTrees
<1> QED
  BY <1>2, <1>3

(* The running frame raises or returns: its stream is not before the place *)
(* where it began, nor where its last kid ended.                           *)
NoEarlier(p) ==
    /\ p >= Top.pos0
    /\ Node[Top.fmt].kind \in Counted /\ KidCount(nodes, Top) > 0 => LastEnd(nodes, Top) <= p

LEMMA NowhereEarlier ==
    ASSUME Inv, Typed, Grown(nodes), InScopes, Len(frames) > 0, ~Inside(Top), NEW k \in Nat
    PROVE  NoEarlier(TopStream.pos + k)
<1>1. PICK p \in Nat : p = TopStream.pos
  BY TopGrown
<1>2. p >= Top.pos0
  BY <1>1, TopGrown DEF Working, NotBefore
<1>3. Node[Top.fmt].kind \in Counted /\ KidCount(nodes, Top) > 0 => LastEnd(nodes, Top) <= p
  BY <1>1, TopGrown DEF Working
<1>4. Top.pos0 \in Nat /\ (KidCount(nodes, Top) > 0 => LastEnd(nodes, Top) \in Int)
  BY TopGrown
<1> QED
  BY <1>1, <1>2, <1>3, <1>4 DEF NoEarlier

LEMMA RaiseTrees ==
    ASSUME Inv, Typed, Grown(nodes), InScopes, Len(frames) > 0, NEW e, Raise(e), UNCHANGED tree,
           ~Inside(Top), NEW ss, streams' = ss, Beyond(ss), NoEarlier(ss[Top.strm].pos)
    PROVE  Grown(nodes)' /\ InScopes'
<1>1. ctl' = "raise" /\ frames' = WithTop(Top)
  BY TopRecounts DEF Raise
<1>2. NotBefore(Top, ss[Top.strm], ss[Top.strm].pos)
  BY DEF NotBefore, NoEarlier
<1>3. Working(nodes, "raise", Top, ss[Top.strm])
  BY <1>2 DEF Working, NoEarlier
<1> QED
  BY <1>1, <1>3, SameTree DEF SameScope

LEMMA ReturnTrees ==
    ASSUME Inv, Typed, Grown(nodes), InScopes, Len(frames) > 0, NEW F, SameScope(F), NEW v, Return(F, v),
           UNCHANGED tree, NEW ss, streams' = ss, Beyond(ss), NoEarlier(ss[Top.strm].pos),
           Inside(F) => F.saved >= F.pos0,
           Node[Top.fmt].kind \in {"map", "tuple"} => KidCount(nodes, Top) = Len(Node[Top.fmt].subs)
    PROVE  Grown(nodes)' /\ InScopes'
<1>1. ctl' = "leave" /\ frames' = WithTop(F)
  BY DEF Return
<1>2. F.strm = Top.strm /\ F.fmt = Top.fmt /\ F.pos0 = Top.pos0
  BY DEF SameScope
<1>3. KidCount(nodes, F) = KidCount(nodes, Top) /\ LastEnd(nodes, F) = LastEnd(nodes, Top)
  BY DEF SameScope, KidCount, LastEnd, Kids
<1>4. NotBefore(F, ss[Top.strm], ss[Top.strm].pos) /\ ss[Top.strm].pos >= F.pos0
  BY <1>2 DEF NotBefore, NoEarlier
<1>5. Working(nodes, "leave", F, ss[F.strm])
  BY <1>2, <1>3, <1>4 DEF Working, NoEarlier
<1> QED
  BY <1>1, <1>5, SameTree

LEMMA TopPut ==
    ASSUME Inv, Typed, Len(frames) > 0, NEW x, IsStream(x), x.seekable = TopStream.seekable
    PROVE  Beyond(PutStream(Top.strm, x)) /\ PutStream(Top.strm, x)[Top.strm] = x
           /\ Len(PutStream(Top.strm, x)) = Len(streams)
<1>1. Top.strm \in 1..Len(streams) /\ Len(streams) \in Nat
  BY TopTyped, LengthsAreNat DEF Sizable
<1>2. PICK t : t = PutStream(Top.strm, x)
  OBVIOUS
<1>3. StreamsTyped
  BY DEF Typed
<1>4. Len(t) = Len(streams) /\ \A i \in 1..Len(streams) : t[i] = IF i = Top.strm THEN x ELSE streams[i]
  BY <1>1, <1>2, <1>3, StreamChanges
<1>5. \A k \in 1..(Top.strm - 1) : k \in 1..Len(streams) /\ k # Top.strm
  BY <1>1
<1> QED
  BY <1>1, <1>2, <1>4, <1>5 DEF Beyond

LEMMA TopStill == Beyond(streams) /\ streams[Top.strm] = TopStream
  BY DEF Beyond, TopStream

Moved(s, x, k) == x.seekable = s.seekable /\ x.pos = s.pos + k

LEMMA AdvanceMoves == ASSUME NEW s, IsStream(s), NEW k PROVE Moved(s, Advance(s, k), k)
<1>1. Advance(s, k).seekable = s.seekable
  BY StreamFields, Zenon
<1>2. Advance(s, k).pos = s.pos + k
  BY DEF IsStream, Advance
<1> QED
  BY <1>1, <1>2, Zenon DEF Moved

LEMMA DeliverTrees ==
    ASSUME Inv, Typed, Grown(nodes), InScopes, Len(frames) > 0, NEW r, IsResult(r), Deliver(r), UNCHANGED tree,
           ~Inside(Top), Node[Top.fmt].kind \notin {"map", "tuple"}
    PROVE  Grown(nodes)' /\ InScopes'
<1>1. PICK x : x = Advance(TopStream, r.used)
  OBVIOUS
<1>2. r.used \in Nat /\ IsStream(TopStream)
  BY TopTyped DEF IsResult
<1>3. IsStream(x) /\ x.seekable = TopStream.seekable /\ x.pos = TopStream.pos + r.used
  <2>1. IsStream(Advance(TopStream, r.used))
    BY <1>2, AdvanceTyped
  <2>2. Moved(TopStream, Advance(TopStream, r.used), r.used)
    BY <1>2, AdvanceMoves
  <2> QED
    BY <1>1, <2>1, <2>2 DEF Moved
<1>4. streams' = PutStream(Top.strm, x)
  BY <1>1 DEF Deliver, TopStream, PutStream
<1>5. PICK ss : ss = PutStream(Top.strm, x)
  OBVIOUS
<1>6. Beyond(ss) /\ ss[Top.strm] = x
  BY <1>3, <1>5, TopPut
<1>7. NoEarlier(ss[Top.strm].pos)
  BY <1>2, <1>3, <1>6, NowhereEarlier
<1>8. CASE r.ok
  BY <1>4, <1>5, <1>6, <1>7, <1>8, ReturnTrees DEF Deliver, SameScope
<1>9. CASE ~r.ok
  BY <1>4, <1>5, <1>6, <1>7, <1>9, RaiseTrees DEF Deliver
<1> QED
  BY <1>8, <1>9 DEF IsResult

LEMMA KeepsOn ==
    ASSUME NEW ns, IsSeq(ns), NEW ms, IsSeq(ms), NEW ls, Keeps(ns, ms), Keeps(ms, ls), Len(ls) \in Nat
    PROVE  Keeps(ns, ls)
<1>1. Len(ns) \in Nat /\ Len(ms) \in Nat
  BY DEF IsSeq
<1>2. Len(ns) <= Len(ls) /\ \A m \in 1..Len(ns) : m \in 1..Len(ms)
  BY <1>1 DEF Keeps
<1>3. ASSUME NEW m \in 1..Len(ns)
      PROVE  Alike(ns[m], ls[m]) /\ (Node[ns[m].fmt].kind \in Counted => ls[m].kids = ns[m].kids)
  <2>1. Alike(ns[m], ms[m]) /\ (Node[ns[m].fmt].kind \in Counted => ms[m].kids = ns[m].kids)
    BY DEF Keeps
  <2>2. Alike(ms[m], ls[m]) /\ (Node[ms[m].fmt].kind \in Counted => ls[m].kids = ms[m].kids)
    BY <1>2 DEF Keeps
  <2> QED
    BY <2>1, <2>2 DEF Alike
<1> QED
  BY <1>2, <1>3 DEF Keeps

(* A frame is added, with a node of its own.                               *)
LEMMA PushScopes ==
    ASSUME NEW ns, Grown(ns), NEW ms, Keeps(ns, ms), Len(ms) \in Nat,
           NEW old, NEW n \in Nat, n > 0, Scopes(ns, old, n),
           NEW new, \A i \in 1..n : /\ new[i].node = old[i].node /\ new[i].outer = old[i].outer
                                    /\ new[i].fmt = old[i].fmt /\ new[i].pos0 = old[i].pos0,
           Opened(ms, new[n + 1]), new[n + 1].node > Len(ns), new[n + 1].outer = old[n].node
    PROVE  Scopes(ms, new, n + 1)
<1>1. Scopes(ms, old, n)
  BY ScopesKept
<1>2. Len(ns) \in Nat
  BY DEF Grown, IsSeq
<1>3. ASSUME NEW i \in 1..(n + 1) PROVE Opened(ms, new[i])
  <2>1. CASE i = n + 1
    BY <2>1
  <2>2. CASE i \in 1..n
    <3>1. Opened(ms, old[i])
      BY <1>1, <2>2 DEF Scopes
    <3> QED
      BY <2>2, <3>1 DEF Opened
  <2> QED
    BY <2>1, <2>2
<1>4. ASSUME NEW j \in 1..(n + 1), NEW i \in 1..(j - 1) PROVE new[i].node # new[j].node
  <2>1. i \in 1..n
    OBVIOUS
  <2>2. CASE j = n + 1
    <3>1. old[i].node \in 2..Len(ns)
      BY <2>1 DEF Scopes, Opened
    <3>2. new[i].node <= Len(ns) /\ new[i].node \in Nat
      BY <1>2, <2>1, <3>1
    <3> QED
      BY <1>2, <2>2, <3>2
  <2>3. CASE j \in 1..n
    <3>1. old[i].node # old[j].node
      BY <2>3 DEF Scopes
    <3> QED
      BY <2>1, <2>3, <3>1
  <2> QED
    BY <2>2, <2>3
<1>5. new[1].outer = 1
  BY DEF Scopes
<1>6. ASSUME NEW i \in 1..n PROVE new[i + 1].outer = new[i].node
  <2>1. CASE i = n
    BY <2>1
  <2>2. CASE i \in 1..(n - 1)
    <3>1. i + 1 \in 1..n
      BY <2>2
    <3>2. old[i + 1].outer = old[i].node
      BY <2>2 DEF Scopes
    <3> QED
      BY <3>1, <3>2
  <2> QED
    BY <2>1, <2>2
<1> QED
  BY <1>3, <1>4, <1>5, <1>6 DEF Scopes

(* The running frame calls.                                                *)
Ready(F, key, ss, s) ==
    /\ NotBefore(F, ss[F.strm], IF Node[F.fmt].kind \in Framing THEN ss[F.strm].pos ELSE ss[s].pos)
    /\ Node[F.fmt].kind \in Counted =>
          /\ IF Node[F.fmt].kind = "map" THEN KidCount(nodes, F) = F.idx - 1 ELSE Counts(F, KidCount(nodes, F))
          /\ key = AwaitedKey(F)
          /\ KidCount(nodes, F) > 0 => LastEnd(nodes, F) = ss[s].pos

LEMMA CallTrees ==
    ASSUME Inv, Typed, Grown(nodes), InScopes, Len(frames) > 0, inspect, ctl \in {"run", "resume"},
           NEW F, SameScope(F),
           NEW f \in Fmt, NEW key, NEW ss, Beyond(ss), NEW s \in 1..Len(ss), ss[s].pos \in Nat,
           Node[F.fmt].kind \in Framing \/ s = Top.strm,
           NEW pa, NEW ns, Grown(ns), Keeps(nodes, ns),
           Ready(F, key, ss, s),
           Call(F, f, key, s, ss, pa, ns)
    PROVE  Grown(nodes)' /\ InScopes'
<1>1. streams' = ss /\ F.strm = Top.strm /\ F.fmt = Top.fmt
  BY DEF Call, SameScope
<1>2. PICK n \in Nat : n = Len(frames) /\ n > 0 /\ Top = frames[n]
  BY LengthsAreNat DEF Top
<1>3. PICK m \in Nat : m = Len(ns) /\ Len(nodes) <= m
  BY DEF Grown, IsSeq, Keeps
<1>4. ASSUME Node[F.fmt].kind \in Counted PROVE SameKids(nodes, ns, F) /\ KidCount(nodes, F) \in Nat
  <2>1. F.node \in 2..Len(nodes) /\ Len(nodes) \in Nat /\ nodes[F.node].fmt = F.fmt
    BY TopGrown DEF SameScope, Opened
  <2>2. F.node \in 1..Len(nodes)
    BY <2>1
  <2> QED
    BY <1>4, <2>1, <2>2, KeptKids
<1>5. CASE Len(frames) = MaxDepth
  <2>1. frames' = WithTop(F) /\ ctl' = "raise" /\ nodes' = ns /\ UNCHANGED kidsOf
    BY <1>5 DEF Call
  <2>2. NotBefore(F, ss[F.strm], ss[F.strm].pos)
    BY <1>1 DEF Ready
  <2>3. ASSUME Node[F.fmt].kind \in Counted, KidCount(ns, F) > 0 PROVE LastEnd(ns, F) <= ss[F.strm].pos
    <3>1. KidCount(ns, F) = KidCount(nodes, F) /\ LastEnd(ns, F) = LastEnd(nodes, F)
      BY <1>4, <2>3, SameKidsCount
    <3>2. s = F.strm
      BY <1>1, <2>3 DEF Counted, Framing
    <3> QED
      BY <2>3, <3>1, <3>2 DEF Ready
  <2>4. Working(ns, "raise", F, ss[F.strm])
    BY <2>2, <2>3 DEF Working
  <2> QED
    BY <1>1, <1>3, <2>1, <2>4, StayTrees
<1>6. CASE Len(frames) # MaxDepth
  <2>1. PICK G : G = NewFrame(f, key, s, ss[s].pos, m + 1, kidsOf, parents, pa)
    OBVIOUS
  <2>2. G.fmt = f /\ G.strm = s /\ G.pos0 = ss[s].pos /\ G.idx = 0 /\ G.at = "enter"
        /\ G.node = m + 1 /\ G.outer = Top.node
    BY <2>1 DEF NewFrame, InScopes
  <2>3. PICK M : M = NewNode(key, f, ss[s].pos)
    OBVIOUS
  <2>4. IsNode(M, m + 1) /\ M.key = key /\ M.fmt = f /\ M.off = ss[s].pos /\ ~M.closed /\ Len(M.kids) = 0
    <3>1. PICK off \in Nat : off = ss[s].pos
      OBVIOUS
    <3>2. IsNew(NewNode(key, f, off), key, f, off, m + 1)
      BY NewNodes, Zenon
    <3>3. M = NewNode(key, f, off)
      BY <2>3, <3>1
    <3> QED
      BY <3>1, <3>2, <3>3 DEF IsNew
  <2>5. PICK ms : ms = Append(ns, M)
    OBVIOUS
  <2>6. frames' = Append(WithTop(F), G) /\ ctl' = "run" /\ nodes' = ms /\ kidsOf' = m + 1
    BY <1>3, <1>6, <2>1, <2>3, <2>5 DEF Call
  <2>7. Grown(ms) /\ Keeps(ns, ms) /\ Len(ms) = m + 1 /\ ms[m + 1] = M
    BY <1>3, <2>4, <2>5, GrownMore
  <2>8. Keeps(nodes, ms)
    <3>1. IsSeq(nodes) /\ IsSeq(ns) /\ Len(ms) \in Nat
      BY <2>7 DEF Grown, IsSeq
    <3> QED
      BY <2>7, <3>1, KeepsOn
  <2>9. /\ IsSeq(WithTop(F)) /\ Len(WithTop(F)) = n /\ WithTop(F)[n] = F
        /\ \A i \in 1..(n - 1) : WithTop(F)[i] = frames[i]
    BY <1>2, WithTopSeq DEF Inv, Shape
  <2>10. /\ Len(frames') = n + 1 /\ frames'[n + 1] = G
         /\ \A i \in 1..n : frames'[i] = WithTop(F)[i]
    BY <2>6, <2>9, AppendSeq
  <2>11. frames'[n] = F /\ \A i \in 1..(n - 1) : frames'[i] = frames[i]
    BY <1>2, <2>9, <2>10
  <2>12. Scopes(ms, frames', n + 1)
    <3>1. \A i \in 1..n : /\ frames'[i].node = frames[i].node /\ frames'[i].outer = frames[i].outer
                          /\ frames'[i].fmt = frames[i].fmt /\ frames'[i].pos0 = frames[i].pos0
      <4> TAKE i \in 1..n
      <4>1. CASE i = n
        BY <1>2, <2>11, <4>1 DEF SameScope
      <4>2. CASE i \in 1..(n - 1)
        BY <2>11, <4>2
      <4> QED
        BY <4>1, <4>2
    <3>2. Opened(ms, frames'[n + 1])
      <4>1. Len(ms) > 1
        BY <1>3, <2>7 DEF Grown
      <4> QED
        BY <1>3, <2>2, <2>4, <2>7, <2>10, <4>1 DEF Opened
    <3>3. Len(nodes) < m + 1 /\ frames'[n + 1].node = m + 1 /\ frames'[n + 1].outer = frames[n].node
      BY <1>2, <1>3, <2>2, <2>10, TopGrown
    <3>4. PICK new : new = frames'
      OBVIOUS
    <3>5. Scopes(nodes, frames, n) /\ Len(ms) \in Nat
      BY <1>2, <2>7 DEF InScopes
    <3>6. new[n + 1].node > Len(nodes)
      BY <3>3, <3>4, TopGrown
    <3> QED
      BY <1>2, <2>8, <3>1, <3>2, <3>3, <3>4, <3>5, <3>6, PushScopes
  <2>13. Waiting(ms, F, G, ss)
    <3>1. NotBefore(F, ss[F.strm], IF Node[F.fmt].kind \in Framing THEN ss[F.strm].pos ELSE G.pos0)
      BY <2>2 DEF Ready
    <3>2. ASSUME Node[F.fmt].kind \in Counted
          PROVE  /\ IF Node[F.fmt].kind = "map" THEN KidCount(ms, F) = F.idx - 1 ELSE Counts(F, KidCount(ms, F))
                 /\ ms[G.node].key = AwaitedKey(F)
                 /\ KidCount(ms, F) > 0 => LastEnd(ms, F) = G.pos0
      <4>1. SameKids(nodes, ms, F) /\ KidCount(nodes, F) \in Nat
        <5>1. F.node \in 2..Len(nodes) /\ Len(nodes) \in Nat /\ nodes[F.node].fmt = F.fmt
          BY TopGrown DEF SameScope, Opened
        <5>2. F.node \in 1..Len(nodes)
          BY <5>1
        <5> QED
          BY <2>8, <3>2, <5>1, <5>2, KeptKids
      <4>2. KidCount(ms, F) = KidCount(nodes, F)
            /\ (KidCount(nodes, F) > 0 => LastEnd(ms, F) = LastEnd(nodes, F))
        BY <4>1, SameKidsCount
      <4>3. ms[G.node].key = key
        BY <2>2, <2>4, <2>7
      <4> QED
        BY <2>2, <3>2, <4>2, <4>3 DEF Ready
    <3> QED
      BY <3>1, <3>2 DEF Waiting
  <2>14. ASSUME NEW i \in 1..n PROVE Waiting(ms, frames'[i], frames'[i + 1], ss)
    <3>1. CASE i = n
      BY <2>10, <2>11, <2>13, <3>1
    <3>2. CASE i \in 1..(n - 1)
      <4>1. Waiting(ms, frames[i], frames[i + 1], ss)
        BY <1>2, <2>8, <3>2, WaitsBelow
      <4>2. frames'[i] = frames[i] /\ frames'[i + 1].pos0 = frames[i + 1].pos0
            /\ frames'[i + 1].node = frames[i + 1].node
        <5>1. CASE i = n - 1
          BY <1>2, <2>11, <3>2, <5>1 DEF SameScope
        <5>2. CASE i # n - 1
          <6>1. i + 1 \in 1..(n - 1)
            BY <3>2, <5>2
          <6> QED
            BY <2>11, <3>2, <6>1
        <5> QED
          BY <5>1, <5>2
      <4> QED
        BY <4>1, <4>2 DEF Waiting
    <3> QED
      BY <3>1, <3>2
  <2>15. Top' = G /\ TopStream' = ss[s]
    BY <1>1, <2>2, <2>10 DEF Top, TopStream
  <2>16. Working(ms, "run", G, ss[s])
    <3>1. KidCount(ms, G) = 0
      BY <2>2, <2>4, <2>7 DEF KidCount
    <3>2. ~Inside(G) /\ NotBefore(G, ss[s], ss[s].pos)
      BY <2>2 DEF NotBefore, Inside
    <3>3. Counts(G, 0)
      BY <2>2 DEF Counts
    <3> QED
      BY <3>1, <3>2, <3>3 DEF Working
  <2>17. kidsOf' = Top'.node /\ Len(frames') - 1 = n
    BY <2>2, <2>6, <2>10, <2>15
  <2> QED
    BY <1>1, <2>6, <2>7, <2>10, <2>12, <2>14, <2>15, <2>16, <2>17 DEF InScopes
<1> QED
  BY <1>5, <1>6

-----------------------------------------------------------------------------
(* A frame ends.  Its streams go, and its caller stands where its stream   *)
(* was left, or brought back.                                              *)
Popped(x) == SubSeq(PutStream(Top.strm, x), 1, Top.strm)

LEMMA PoppedBeyond ==
    ASSUME Inv, Typed, Len(frames) > 0, NEW x, IsStream(x), x.seekable = TopStream.seekable
    PROVE  Beyond(Popped(x)) /\ Popped(x)[Top.strm] = x
<1>1. PICK k \in Nat : k = Top.strm /\ k \in 1..Len(streams)
  BY TopTyped
<1>2. PICK t : t = PutStream(k, x)
  OBVIOUS
<1>3. Beyond(t) /\ t[k] = x
  BY <1>1, <1>2, TopPut
<1>4. Len(SubSeq(t, 1, k)) = k /\ \A i \in 1..k : SubSeq(t, 1, k)[i] = t[i]
  <2> DEFINE S == {t[i] : i \in 1..k}
  <2>1. \A i \in 1..k : t[i] \in S
    OBVIOUS
  <2> HIDE DEF S
  <2>2. /\ Len(SubSeq(t, 1, k)) = IF 1 <= k THEN k - 1 + 1 ELSE 0
        /\ \A i \in 1..(k - 1 + 1) : SubSeq(t, 1, k)[i] = t[1 + i - 1]
    BY <1>1, <2>1, SubSeqProperties
  <2> QED
    BY <1>1, <2>2
<1>5. PICK u : u = SubSeq(t, 1, k)
  OBVIOUS
<1>6. \A i \in 1..k : u[i] = t[i]
  BY <1>4, <1>5
<1>7. u[k] = x /\ \A i \in 1..(k - 1) : u[i] = streams[i]
  BY <1>1, <1>3, <1>6 DEF Beyond
<1>8. u[k].seekable = TopStream.seekable
  BY <1>7
<1> QED
  BY <1>1, <1>2, <1>5, <1>7, <1>8 DEF Beyond, Popped

LEMMA CallerNotBefore ==
    ASSUME Inv, Typed, Grown(nodes), InScopes, NEW n \in Nat, n = Len(frames), n > 1,
           NEW ss, Beyond(ss), ss[Top.strm].pos \in Nat, ss[Top.strm].pos >= Top.pos0
    PROVE  LET F == frames[n - 1] IN NotBefore(F, ss[F.strm], ss[F.strm].pos)
<1>1. PICK F : F = frames[n - 1]
  OBVIOUS
<1>2. n - 1 \in 1..(n - 1) /\ n - 1 \in 1..n /\ n - 1 + 1 = n /\ Top = frames[n]
  BY DEF Top
<1>3. Waiting(nodes, F, Top, streams) /\ Calls(F, Top) /\ Fit(F)
  BY <1>1, <1>2 DEF InScopes, Typed, StackTyped, FramesFit
<1>4. ss[F.strm].seekable = streams[F.strm].seekable
      /\ (Node[F.fmt].kind \in Framing => ss[F.strm] = streams[F.strm])
  BY <1>1, <1>2, StreamsBelow
<1>5. CASE Node[F.fmt].kind \in Framing
  <2>1. NotBefore(F, streams[F.strm], streams[F.strm].pos)
    BY <1>3, <1>5 DEF Waiting
  <2> QED
    BY <1>1, <1>4, <1>5, <2>1
<1>6. CASE Node[F.fmt].kind \notin Framing
  <2>1. F.strm = Top.strm
    BY <1>3, <1>6 DEF Calls
  <2>2. PICK p \in Nat : p = ss[F.strm].pos
    BY <2>1
  <2>3. F.pos0 \in Nat /\ Top.pos0 \in Nat
    BY <1>2, <1>3, TopGrown DEF Fit
  <2>4. NotBefore(F, streams[F.strm], Top.pos0)
    BY <1>3, <1>6 DEF Waiting
  <2>5. Top.pos0 >= F.pos0 => p >= F.pos0
    BY <2>1, <2>2, <2>3
  <2>6. NotBefore(F, ss[F.strm], p)
    BY <1>4, <2>4, <2>5 DEF NotBefore
  <2> QED
    BY <1>1, <2>2, <2>6
<1> QED
  BY <1>1, <1>5, <1>6

(* An exception passes.                                                    *)
LEMMA UnwindTrees ==
    ASSUME Inv, Typed, Grown(nodes), InScopes, inspect, Unwind
    PROVE  Grown(nodes)' /\ InScopes'
<1>1. PICK n \in Nat : n = Len(frames) /\ n > 0
  BY LengthsAreNat, BusyTop DEF Unwind, Busy
<1>2. Top = frames[n]
  BY <1>1 DEF Top
<1>3. PICK x : x = IF Inside(Top) THEN Seek(TopStream, Top.saved) ELSE TopStream
  OBVIOUS
<1>4. /\ frames' = Under(frames) /\ streams' = Popped(x) /\ nodes' = nodes /\ ctl = "raise"
      /\ ctl' \in {"raise", "report"}
  BY <1>3 DEF Unwind, Popped, PutStream, tree
<1>5. IsStream(TopStream) /\ Top.saved \in Nat /\ TopStream.pos \in Nat /\ Top.pos0 \in Nat
  BY <1>1, TopTyped, TopGrown
<1>6. IsStream(x) /\ x.seekable = TopStream.seekable
  <2>1. IsStream(Seek(TopStream, Top.saved))
    BY <1>5, SeekTyped
  <2>2. Seek(TopStream, Top.saved).seekable = TopStream.seekable
    BY <1>5, StreamFields, Zenon
  <2>3. CASE Inside(Top)
    BY <1>3, <2>1, <2>2, <2>3, Zenon
  <2>4. CASE ~Inside(Top)
    BY <1>3, <1>5, <2>4, Zenon
  <2> QED
    BY <2>3, <2>4, Zenon
<1>7. x.pos >= Top.pos0 /\ x.pos \in Nat
  <2>1. NotBefore(Top, TopStream, TopStream.pos)
    BY <1>1, TopGrown DEF Working
  <2>2. CASE Inside(Top) /\ TopStream.seekable
    <3>1. Top.saved >= Top.pos0
      BY <2>1, <2>2 DEF NotBefore
    <3>2. Seek(TopStream, Top.saved).pos = Top.saved
      BY <1>5, <2>2, StreamFields
    <3> QED
      BY <1>3, <1>5, <2>2, <3>1, <3>2
  <2>3. CASE ~(Inside(Top) /\ TopStream.seekable)
    <3>1. TopStream.pos >= Top.pos0
      BY <2>1, <2>3 DEF NotBefore
    <3>2. x = TopStream
      BY <1>3, <2>3 DEF Seek
    <3> QED
      BY <1>5, <3>1, <3>2
  <2> QED
    BY <2>2, <2>3
<1>8. PICK ss : ss = Popped(x) /\ Beyond(ss) /\ ss[Top.strm] = x
  BY <1>1, <1>6, PoppedBeyond
<1>9. Len(frames') = n - 1 /\ \A i \in 1..(n - 1) : frames'[i] = frames[i]
  BY <1>1, <1>4, UnderSeq DEF Inv, Shape
<1>10. Scopes(nodes, frames', n - 1)
  <2>1. Scopes(nodes, frames, n)
    BY <1>1 DEF InScopes
  <2>2. \A i \in 1..(n - 2) : i \in 1..(n - 1) /\ i + 1 \in 1..(n - 1)
    BY <1>1
  <2>3. \A j \in 1..(n - 1) : j \in 1..n /\ \A i \in 1..(j - 1) : i \in 1..(n - 1)
    BY <1>1
  <2>4. n - 1 > 0 => 1 \in 1..(n - 1)
    BY <1>1
  <2>5. \A i \in 1..(n - 1) : Opened(nodes, frames'[i])
    BY <1>9, <2>1, <2>3 DEF Scopes
  <2>6. \A j \in 1..(n - 1) : \A i \in 1..(j - 1) : frames'[i].node # frames'[j].node
    BY <1>9, <2>1, <2>3 DEF Scopes
  <2>7. n - 1 > 0 => frames'[1].outer = 1
    BY <1>1, <1>9, <2>1, <2>4 DEF Scopes
  <2>8. \A i \in 1..(n - 2) : frames'[i + 1].outer = frames'[i].node
    BY <1>9, <2>1, <2>2 DEF Scopes
  <2> QED
    BY <1>1, <2>5, <2>6, <2>7, <2>8 DEF Scopes
<1>11. ASSUME NEW i \in 1..(n - 2) PROVE Waiting(nodes, frames'[i], frames'[i + 1], ss)
  <2>1. i \in 1..(n - 1) /\ i + 1 \in 1..(n - 1)
    BY <1>1
  <2>2. Keeps(nodes, nodes)
    BY KeepsItself DEF Grown
  <2>3. Waiting(nodes, frames[i], frames[i + 1], ss)
    BY <1>1, <1>8, <2>1, <2>2, WaitsBelow
  <2> QED
    BY <1>9, <2>1, <2>3
<1>12. ASSUME n - 1 > 0 PROVE Working(nodes, ctl', Top', TopStream')
  <2>1. PICK F : F = frames[n - 1]
    OBVIOUS
  <2>2. n - 1 \in 1..(n - 1) /\ n - 1 \in 1..n /\ n - 1 + 1 = n
    BY <1>1, <1>12
  <2>3. Top' = F /\ TopStream' = ss[F.strm]
    BY <1>4, <1>8, <1>9, <2>1, <2>2 DEF Top, TopStream
  <2>4. NotBefore(F, ss[F.strm], ss[F.strm].pos)
    BY <1>1, <1>7, <1>8, <1>12, <2>1, CallerNotBefore
  <2>5. ASSUME Node[F.fmt].kind \in Counted, KidCount(nodes, F) > 0 PROVE LastEnd(nodes, F) <= ss[F.strm].pos
    <3>1. Waiting(nodes, F, Top, streams) /\ Calls(F, Top)
      BY <1>1, <1>2, <2>1, <2>2 DEF InScopes, Typed, StackTyped, FramesFit
    <3>2. LastEnd(nodes, F) = Top.pos0
      BY <2>5, <3>1 DEF Waiting
    <3>3. F.strm = Top.strm
      BY <2>5, <3>1 DEF Calls, Counted, Framing
    <3> QED
      BY <1>5, <1>7, <1>8, <3>2, <3>3
  <2>6. ctl' = "raise"
    BY <1>1, <1>12 DEF Unwind
  <2> QED
    BY <2>3, <2>4, <2>5, <2>6 DEF Working
<1>13. InScopes'
  <2>1. Len(frames') - 1 = n - 2 /\ Len(frames') = n - 1
    BY <1>1, <1>9
  <2>2. ~(ctl' \in {"run", "resume"})
    BY <1>4
  <2>3. nodes' = nodes /\ streams' = ss
    BY <1>4, <1>8
  <2>4. \A i \in 1..(Len(frames') - 1) : Waiting(nodes', frames'[i], frames'[i + 1], streams')
    BY <1>11, <2>1, <2>3
  <2>5. Len(frames') > 0 => Working(nodes', ctl', Top', TopStream')
    BY <1>12, <2>1, <2>3
  <2>6. Scopes(nodes', frames', Len(frames'))
    BY <1>10, <2>1, <2>3
  <2> QED
    BY <2>2, <2>4, <2>5, <2>6 DEF InScopes
<1> QED
  BY <1>4, <1>13

(* What a node that closes leaves of the others that are open or closed.   *)
LEMMA ClosedElsewhere ==
    ASSUME Grown(nodes), NEW a \in 2..Len(nodes), NEW b \in 1..Len(nodes), a # b, NEW ms,
           NEW z, IsClosing(ms, a, b, z), ~nodes[a].closed, ~nodes[b].closed,
           NEW F, Opened(nodes, F), F.node # a
    PROVE  /\ Alike(nodes[F.node], ms[F.node]) /\ Opened(ms, F)
           /\ KidCount(nodes, F) \in Nat
           /\ F.node # b => SameKids(nodes, ms, F)
<1>1. PICK n \in Nat : n = Len(nodes)
  BY DEF Grown, IsSeq
<1>2. PICK m \in 2..n : m = F.node /\ m # a /\ m \in 1..n
  BY <1>1 DEF Opened
<1>3. Len(ms) = n /\ Alike(nodes[m], ms[m]) /\ (m # b => ms[m] = nodes[m])
  BY <1>1, <1>2 DEF IsClosing, Alike
<1>4. Opened(ms, F)
  BY <1>1, <1>2, <1>3 DEF Opened, Alike
<1>5. PICK k \in Nat : k = Len(nodes[m].kids) /\ \A i \in 1..k : nodes[m].kids[i] \in 1..n
  BY <1>1, <1>2, KidsAreThere
<1>6. ASSUME m # b PROVE SameKids(nodes, ms, F)
  <2>1. \A i \in 1..k : nodes[nodes[m].kids[i]].closed
    BY <1>1, <1>5 DEF Grown, Ordered
  <2>2. \A i \in 1..k : Alike(nodes[nodes[m].kids[i]], ms[nodes[m].kids[i]])
    BY <1>1, <1>5, <2>1 DEF IsClosing, Alike
  <2> QED
    BY <1>2, <1>3, <1>5, <1>6, <2>2 DEF SameKids, Kids, KidCount
<1> QED
  BY <1>2, <1>3, <1>4, <1>5, <1>6 DEF KidCount, Kids

(* A frame returns to its caller.                                          *)
LeftAt(n, ms, z) ==
    /\ n \in Nat /\ n = Len(frames) /\ n > 0 /\ Top = frames[n]
    /\ z = TopStream.pos - nodes[Top.node].off
    /\ nodes[Top.node].off + z = TopStream.pos /\ z \in Int
    /\ ms = Closing(Top.node, Top.outer, z) /\ nodes' = ms
    /\ IsClosing(ms, Top.node, Top.outer, z)
    /\ Top.node \in 2..Len(nodes) /\ Top.outer \in 1..Len(nodes) /\ Top.node # Top.outer
    /\ ~nodes[Top.node].closed /\ ~nodes[Top.outer].closed
    /\ n = 1 => Top.outer = 1
    /\ n > 1 => Top.outer = frames[n - 1].node /\ Opened(nodes, frames[n - 1])

LEMMA LeftThere ==
    ASSUME Inv, Typed, Grown(nodes), InScopes, inspect, Leave
    PROVE  \E n, ms, z : LeftAt(n, ms, z)
<1>1. PICK n \in Nat : n = Len(frames) /\ n > 0
  BY LengthsAreNat, BusyTop DEF Leave, Busy
<1>2. Top = frames[n] /\ n \in 1..n
  BY <1>1 DEF Top
<1>3. /\ Opened(nodes, Top) /\ Top.node \in 2..Len(nodes) /\ Len(nodes) \in Nat
      /\ TopStream.pos \in Nat /\ Top.pos0 \in Nat
  BY <1>1, TopGrown
<1>4. PICK z : z = TopStream.pos - nodes[Top.node].off
  OBVIOUS
<1>5. PICK ms : ms = Closing(Top.node, Top.outer, z)
  OBVIOUS
<1>6. nodes' = ms
  BY <1>4, <1>5 DEF Leave, Closing
<1>7. z \in Int /\ nodes[Top.node].off + z = TopStream.pos
  BY <1>3, <1>4 DEF Opened
<1>8. ~nodes[1].closed /\ Len(nodes) > 0
  BY DEF Grown
<1>9. Scopes(nodes, frames, n)
  BY <1>1 DEF InScopes
<1>10. CASE n = 1
  <2>1. Top.outer = 1
    BY <1>2, <1>9, <1>10 DEF Scopes
  <2>2. 1 \in 1..Len(nodes) /\ Top.node # 1
    BY <1>3, <1>8
  <2>3. IsClosing(ms, Top.node, Top.outer, z)
    BY <1>3, <1>5, <2>1, <2>2, ClosingChanges
  <2> QED
    BY <1>1, <1>2, <1>3, <1>4, <1>5, <1>6, <1>7, <1>8, <1>10, <2>1, <2>2, <2>3 DEF LeftAt, Opened
<1>11. CASE n > 1
  <2>1. n - 1 \in 1..(n - 1) /\ n - 1 \in 1..n /\ n - 1 + 1 = n
    BY <1>11
  <2>2. Top.outer = frames[n - 1].node /\ Opened(nodes, frames[n - 1]) /\ frames[n - 1].node # Top.node
    BY <1>2, <1>9, <2>1 DEF Scopes
  <2>3. Top.outer \in 1..Len(nodes) /\ ~nodes[Top.outer].closed /\ Top.node # Top.outer
    BY <1>3, <2>2 DEF Opened
  <2>4. IsClosing(ms, Top.node, Top.outer, z)
    BY <1>3, <1>5, <2>3, ClosingChanges
  <2> QED
    <3>1. ~(n = 1) /\ ~nodes[Top.node].closed
      BY <1>3, <1>11 DEF Opened
    <3>2. LeftAt(n, ms, z)
      BY <1>1, <1>2, <1>3, <1>4, <1>5, <1>6, <1>7, <2>2, <2>3, <2>4, <3>1 DEF LeftAt
    <3> QED
      BY <3>2
<1> QED
  BY <1>1, <1>10, <1>11

LEMMA LeaveGrows ==
    ASSUME Inv, Typed, Grown(nodes), InScopes, ctl = "leave", NEW n, NEW ms, NEW z, LeftAt(n, ms, z)
    PROVE  Grown(ms)
<1>1. PICK a \in 2..Len(nodes) : a = Top.node
  BY DEF LeftAt
<1>2. PICK b \in 1..Len(nodes) : b = Top.outer
  BY DEF LeftAt
<1>3. Working(nodes, ctl, Top, TopStream) /\ Opened(nodes, Top)
  BY TopGrown DEF LeftAt
<1>4. PICK f : f = Top.fmt /\ nodes[a].fmt = f
  BY <1>1, <1>3 DEF Opened
<1>5. ASSUME Node[f].kind \in Counted
      PROVE  /\ Len(nodes[a].kids) > 0 => End(nodes[nodes[a].kids[Len(nodes[a].kids)]]) <= nodes[a].off + z
             /\ Node[f].kind \in {"map", "tuple"} => Len(nodes[a].kids) = Len(Node[f].subs)
  <2>1. nodes[a].off + z = TopStream.pos
    BY <1>1 DEF LeftAt
  <2> QED
    BY <1>1, <1>3, <1>4, <1>5, <2>1 DEF Working, KidCount, LastEnd, Kids
<1>6. ASSUME b # 1, Node[nodes[b].fmt].kind \in Counted
      PROVE  /\ KeyFits(Node[nodes[b].fmt], Len(nodes[b].kids) + 1, nodes[a].key)
             /\ Len(nodes[b].kids) > 0 => nodes[a].off = End(nodes[nodes[b].kids[Len(nodes[b].kids)]])
  <2>1. PICK F : F = frames[n - 1]
    OBVIOUS
  <2>2. n \in Nat /\ n > 1 /\ n = Len(frames) /\ Top = frames[n]
    BY <1>2, <1>6 DEF LeftAt
  <2>3. n - 1 \in 1..(n - 1) /\ n - 1 \in 1..n /\ n - 1 + 1 = n
    BY <2>2
  <2>4. Waiting(nodes, F, Top, streams) /\ Fit(F)
    BY <2>1, <2>2, <2>3 DEF InScopes, Typed, StackTyped, FramesFit
  <2>5. b = F.node /\ nodes[b].fmt = F.fmt
    BY <1>2, <2>1, <2>2 DEF LeftAt, Opened
  <2>6. PICK k \in Nat : k = Len(nodes[b].kids)
    BY <1>2, KidsAreThere
  <2>7. /\ IF Node[F.fmt].kind = "map" THEN k = F.idx - 1 ELSE Counts(F, k)
        /\ nodes[a].key = AwaitedKey(F)
        /\ k > 0 => LastEnd(nodes, F) = Top.pos0
    BY <1>1, <1>6, <2>4, <2>5, <2>6 DEF Waiting, KidCount, Kids
  <2>8. nodes[a].off = Top.pos0
    BY <1>1, <1>3 DEF Opened
  <2>9. KeyFits(Node[F.fmt], k + 1, nodes[a].key)
    <3>1. PICK i \in Nat : i = F.idx
      BY <2>4 DEF Fit
    <3>2. CASE Node[F.fmt].kind = "map"
      <4>1. k + 1 = i
        BY <2>7, <3>1, <3>2
      <4> QED
        BY <2>7, <3>1, <3>2, <4>1 DEF KeyFits, AwaitedKey
    <3>3. CASE Node[F.fmt].kind = "tuple"
      <4>1. F.at = "enter"
        BY <2>4, <3>3 DEF Fit
      <4>2. k + 1 - 1 = i
        BY <2>7, <3>1, <3>3, <4>1 DEF Counts
      <4> QED
        BY <2>7, <3>1, <3>3, <4>2 DEF KeyFits, AwaitedKey
    <3>4. CASE Node[F.fmt].kind = "array"
      <4>1. F.at = "greedy" => Node[F.fmt].mode = "greedy"
        BY <2>4, <3>4 DEF Fit
      <4>2. k + 1 - 1 = k
        BY <2>6
      <4>3. CASE F.at = "greedy" /\ k > MaxItems
        BY <3>4, <4>1, <4>2, <4>3 DEF KeyFits
      <4>4. CASE ~(F.at = "greedy" /\ k > MaxItems)
        <5>1. k = i
          BY <2>7, <3>1, <3>4, <4>4 DEF Counts
        <5> QED
          BY <2>7, <3>1, <3>4, <4>2, <5>1 DEF KeyFits, AwaitedKey
      <4> QED
        BY <4>3, <4>4
    <3> QED
      BY <1>6, <2>5, <3>2, <3>3, <3>4 DEF Counted
  <2>10. k > 0 => nodes[a].off = End(nodes[nodes[b].kids[k]])
    BY <2>5, <2>6, <2>7, <2>8 DEF LastEnd, KidCount, Kids
  <2> QED
    BY <2>5, <2>6, <2>9, <2>10
<1>7. ~nodes[a].closed /\ ~nodes[b].closed /\ a # b /\ z \in Int /\ ms = Closing(a, b, z)
  BY <1>1, <1>2 DEF LeftAt
<1> QED
  BY <1>4, <1>5, <1>6, <1>7, GrownByClosing

LEMMA LeaveTrees ==
    ASSUME Inv, Typed, Grown(nodes), InScopes, inspect, Leave
    PROVE  Grown(nodes)' /\ InScopes'
<1>1. PICK n, ms, z : LeftAt(n, ms, z)
  BY LeftThere
<1>2. n \in Nat /\ n = Len(frames) /\ n > 0 /\ Top = frames[n] /\ nodes' = ms
  BY <1>1 DEF LeftAt
<1>3. Grown(ms)
  BY <1>1, LeaveGrows DEF Leave
<1>4. /\ Working(nodes, ctl, Top, TopStream) /\ Opened(nodes, Top)
      /\ TopStream.pos \in Nat /\ Top.pos0 \in Nat /\ IsStream(TopStream)
  BY <1>2, TopGrown, TopTyped
<1>5. TopStream.pos >= Top.pos0
  BY <1>4 DEF Working, Leave
<1>6. PICK ss : ss = Popped(TopStream) /\ Beyond(ss) /\ ss[Top.strm] = TopStream
  BY <1>2, <1>4, PoppedBeyond
<1>7. /\ frames' = Under(frames) /\ streams' = ss
      /\ n = 1 => ctl' = "finish"
      /\ n > 1 => ctl' = "resume" /\ kidsOf' = Top.outer
  <2>1. streams' = SubSeq(streams, 1, Top.strm)
    BY DEF Leave
  <2>2. PutStream(Top.strm, TopStream) = streams
    <3>1. IsSeq(streams)
      BY DEF Typed, StreamsTyped
    <3>2. streams = [i \in 1..Len(streams) |-> streams[i]]
      BY <3>1 DEF IsSeq
    <3> QED
      BY <3>2 DEF PutStream, TopStream
  <2> QED
    BY <1>2, <1>6, <2>1, <2>2 DEF Leave, Popped
<1>8. Len(frames') = n - 1 /\ \A i \in 1..(n - 1) : frames'[i] = frames[i]
  BY <1>2, <1>7, UnderSeq DEF Inv, Shape
<1>9. Scopes(nodes, frames, n)
  BY <1>2 DEF InScopes
<1>10. ASSUME NEW i \in 1..(n - 1)
       PROVE  /\ Alike(nodes[frames[i].node], ms[frames[i].node]) /\ Opened(ms, frames[i])
              /\ KidCount(nodes, frames[i]) \in Nat
              /\ i # n - 1 => SameKids(nodes, ms, frames[i])
  <2>1. i \in 1..n /\ i \in 1..(n - 1) /\ n \in 1..n
    BY <1>2
  <2>2. Opened(nodes, frames[i]) /\ frames[i].node # Top.node
    BY <1>2, <1>9, <2>1 DEF Scopes
  <2>3. ASSUME i # n - 1 PROVE frames[i].node # Top.outer
    <3>1. n > 1 /\ i \in 1..(n - 1 - 1) /\ n - 1 \in 1..n
      BY <1>2, <2>3
    <3>2. frames[i].node # frames[n - 1].node
      BY <1>9, <3>1 DEF Scopes
    <3> QED
      BY <1>1, <3>1, <3>2 DEF LeftAt
  <2>4. PICK F : F = frames[i]
    OBVIOUS
  <2>5. /\ Alike(nodes[F.node], ms[F.node]) /\ Opened(ms, F)
        /\ KidCount(nodes, F) \in Nat
        /\ F.node # Top.outer => SameKids(nodes, ms, F)
    BY <1>1, <2>2, <2>4, ClosedElsewhere DEF LeftAt
  <2> QED
    BY <2>3, <2>4, <2>5
<1>11. Scopes(ms, frames', n - 1)
  <2>2. \A i \in 1..(n - 2) : i \in 1..(n - 1) /\ i + 1 \in 1..(n - 1)
    BY <1>2
  <2>3. \A j \in 1..(n - 1) : j \in 1..n /\ \A i \in 1..(j - 1) : i \in 1..(n - 1)
    BY <1>2
  <2>4. n - 1 > 0 => 1 \in 1..(n - 1)
    BY <1>2
  <2>5. \A i \in 1..(n - 1) : Opened(ms, frames'[i])
    BY <1>8, <1>10
  <2>6. \A j \in 1..(n - 1) : \A i \in 1..(j - 1) : frames'[i].node # frames'[j].node
    BY <1>8, <1>9, <2>3 DEF Scopes
  <2>7. n - 1 > 0 => frames'[1].outer = 1
    BY <1>2, <1>8, <1>9, <2>4 DEF Scopes
  <2>8. \A i \in 1..(n - 2) : frames'[i + 1].outer = frames'[i].node
    BY <1>8, <1>9, <2>2 DEF Scopes
  <2>9. n - 1 - 1 = n - 2
    BY <1>2
  <2> QED
    BY <2>5, <2>6, <2>7, <2>8, <2>9 DEF Scopes
<1>12. ASSUME NEW i \in 1..(n - 2) PROVE Waiting(ms, frames'[i], frames'[i + 1], ss)
  <2>1. i \in 1..(n - 1) /\ i + 1 \in 1..(n - 1) /\ i # n - 1
    BY <1>2
  <2>2. Waiting(nodes, frames[i], frames[i + 1], streams)
    BY <1>2, <2>1 DEF InScopes
  <2>3. /\ ss[frames[i].strm].seekable = streams[frames[i].strm].seekable
        /\ Node[frames[i].fmt].kind \in Framing => ss[frames[i].strm] = streams[frames[i].strm]
    BY <1>2, <1>6, <2>1, StreamsBelow
  <2>4. SameKids(nodes, ms, frames[i]) /\ KidCount(nodes, frames[i]) \in Nat
        /\ Alike(nodes[frames[i + 1].node], ms[frames[i + 1].node])
    BY <1>10, <2>1
  <2>5. Waiting(ms, frames[i], frames[i + 1], ss)
    BY <2>2, <2>3, <2>4, WaitingSame
  <2> QED
    BY <1>8, <2>1, <2>5
<1>13. ASSUME n > 1
       PROVE  /\ Working(ms, "resume", frames[n - 1], ss[frames[n - 1].strm])
              /\ Top' = frames[n - 1] /\ TopStream' = ss[frames[n - 1].strm]
              /\ kidsOf' = frames[n - 1].node
  <2>1. PICK F : F = frames[n - 1]
    OBVIOUS
  <2>2. n - 1 \in 1..(n - 1) /\ n - 1 \in 1..n /\ n - 1 + 1 = n
    BY <1>2, <1>13
  <2>3. Top' = F /\ TopStream' = ss[F.strm]
    BY <1>7, <1>8, <2>1, <2>2 DEF Top, TopStream
  <2>4. NotBefore(F, ss[F.strm], ss[F.strm].pos)
    BY <1>2, <1>4, <1>5, <1>6, <1>13, <2>1, CallerNotBefore
  <2>5. kidsOf' = F.node /\ Top.outer = F.node /\ Opened(nodes, F)
    BY <1>1, <1>7, <1>13, <2>1 DEF LeftAt
  <2>6. PICK k \in Nat : k = KidCount(nodes, F)
    BY <1>10, <2>1, <2>2
  <2>7. KidCount(ms, F) = k + 1 /\ LastEnd(ms, F) = TopStream.pos
    <3>1. PICK old : old = nodes[F.node].kids
      OBVIOUS
    <3>2. F.node \in 1..Len(nodes)
      BY <1>1, <2>5 DEF LeftAt
    <3>3. IsSeq(old) /\ Len(old) = k
      BY <2>6, <3>1, <3>2 DEF Grown, IsNode, KidCount
    <3>4. ms[F.node].kids = Append(old, Top.node)
      BY <1>1, <2>5, <3>1 DEF LeftAt, IsClosing
    <3>5. Len(Append(old, Top.node)) = k + 1 /\ Append(old, Top.node)[k + 1] = Top.node
      BY <3>3, AppendSeq
    <3>6. ms[Top.node].off = nodes[Top.node].off /\ ms[Top.node].size = z
      BY <1>1 DEF LeftAt, IsClosing
    <3>7. End(ms[Top.node]) = TopStream.pos
      BY <1>1, <3>6 DEF LeftAt, End
    <3> QED
      BY <3>4, <3>5, <3>7 DEF KidCount, Kids, LastEnd
  <2>8. ASSUME Node[F.fmt].kind \in Counted
        PROVE  /\ IF Node[F.fmt].kind = "map" THEN k + 1 = F.idx ELSE Counts(F, k)
               /\ ss[F.strm].pos = TopStream.pos
    <3>1. Waiting(nodes, F, Top, streams) /\ Calls(F, Top) /\ Fit(F)
      BY <1>2, <2>1, <2>2 DEF InScopes, Typed, StackTyped, FramesFit
    <3>2. F.strm = Top.strm
      BY <2>8, <3>1 DEF Calls, Counted, Framing
    <3>3. PICK i \in Nat : i = F.idx
      BY <3>1 DEF Fit
    <3>4. IF Node[F.fmt].kind = "map" THEN k = i - 1 ELSE Counts(F, k)
      BY <2>6, <2>8, <3>1, <3>3 DEF Waiting
    <3> QED
      BY <1>6, <3>2, <3>3, <3>4
  <2>9. k + 1 > 0 /\ k + 1 - 1 = k
    BY <2>6
  <2>10. Working(ms, "resume", F, ss[F.strm])
    BY <1>4, <2>4, <2>7, <2>8, <2>9 DEF Working
  <2> QED
    BY <2>1, <2>3, <2>5, <2>10
<1>14. InScopes'
  <2>1. Len(frames') - 1 = n - 2 /\ Len(frames') = n - 1
    BY <1>2, <1>8
  <2>2. \A i \in 1..(Len(frames') - 1) : Waiting(nodes', frames'[i], frames'[i + 1], streams')
    BY <1>2, <1>7, <1>12, <2>1
  <2>3. Len(frames') > 0 => Working(nodes', ctl', Top', TopStream') /\ kidsOf' = Top'.node
    BY <1>2, <1>7, <1>13, <2>1
  <2>4. Scopes(nodes', frames', Len(frames'))
    BY <1>2, <1>11, <2>1
  <2> QED
    BY <2>2, <2>3, <2>4 DEF InScopes
<1> QED
  BY <1>2, <1>3, <1>14

-----------------------------------------------------------------------------
(* The actions of a decode that is inspected.  The running frame goes on.  *)
LEMMA GoesOn ==
    ASSUME Inv, Typed, Grown(nodes), InScopes, Len(frames) > 0, Node[Top.fmt].kind \in Counted,
           ctl \in {"run", "resume"}, ctl' = "run",
           NEW F, SameScope(F), frames' = WithTop(F), UNCHANGED <<streams, tree>>,
           Counts(F, KidCount(nodes, Top))
    PROVE  Grown(nodes)' /\ InScopes'
<1>1. Working(nodes, ctl, Top, TopStream) /\ TopStream.pos \in Nat
  BY TopGrown
<1>2. ~Inside(Top) /\ ~Inside(F) /\ F.strm = Top.strm /\ F.fmt = Top.fmt /\ F.pos0 = Top.pos0
  BY DEF Inside, Counted, SameScope
<1>3. KidCount(nodes, F) = KidCount(nodes, Top) /\ LastEnd(nodes, F) = LastEnd(nodes, Top)
  BY DEF SameScope, KidCount, LastEnd, Kids
<1>4. PICK p \in Nat : p = TopStream.pos
  BY <1>1
<1>5. p >= Top.pos0
  BY <1>1, <1>2, <1>4 DEF Working, NotBefore
<1>6. KidCount(nodes, Top) > 0 => LastEnd(nodes, Top) = p
  BY <1>1, <1>4 DEF Working
<1>7. NotBefore(F, TopStream, p)
  BY <1>2, <1>5 DEF NotBefore
<1>8. Working(nodes, "run", F, TopStream)
  BY <1>2, <1>3, <1>4, <1>6, <1>7 DEF Working
<1>9. Beyond(streams) /\ streams[Top.strm] = TopStream
  BY TopStill
<1> QED
  BY <1>2, <1>8, <1>9, SameTree

(* The running frame ends where its stream stands.                         *)
LEMMA EndsHere ==
    ASSUME Inv, Typed, Grown(nodes), InScopes, Len(frames) > 0, ~Inside(Top),
           NEW F, SameScope(F), F.at = "inner" => Top.at = "inner",
           NEW v, Return(F, v), UNCHANGED <<streams, tree>>,
           Node[Top.fmt].kind \in {"map", "tuple"} => KidCount(nodes, Top) = Len(Node[Top.fmt].subs)
    PROVE  Grown(nodes)' /\ InScopes'
<1>1. PICK p \in Nat : p = TopStream.pos
  BY TopGrown
<1>2. NoEarlier(p)
  <2>1. NoEarlier(TopStream.pos + 0)
    BY NowhereEarlier
  <2>2. TopStream.pos + 0 = p
    BY <1>1
  <2> QED
    BY <2>1, <2>2
<1>3. Beyond(streams) /\ streams[Top.strm] = TopStream
  BY TopStill
<1>4. ~Inside(F)
  BY DEF Inside, SameScope
<1> QED
  BY <1>1, <1>2, <1>3, <1>4, ReturnTrees

LEMMA FailsHere ==
    ASSUME Inv, Typed, Grown(nodes), InScopes, Len(frames) > 0, ~Inside(Top), NEW e, Raise(e), UNCHANGED <<streams, tree>>
    PROVE  Grown(nodes)' /\ InScopes'
<1>1. PICK p \in Nat : p = TopStream.pos
  BY TopGrown
<1>2. NoEarlier(p)
  <2>1. NoEarlier(TopStream.pos + 0)
    BY NowhereEarlier
  <2>2. TopStream.pos + 0 = p
    BY <1>1
  <2> QED
    BY <2>1, <2>2
<1>3. Beyond(streams) /\ streams[Top.strm] = TopStream
  BY TopStill
<1> QED
  BY <1>1, <1>2, <1>3, RaiseTrees

(* A container counts its kids.                                            *)
LEMMA CountsKids ==
    ASSUME Inv, Typed, Grown(nodes), InScopes, Len(frames) > 0, Node[Top.fmt].kind \in Counted, ctl = "run"
    PROVE  /\ KidCount(nodes, Top) \in Nat
           /\ Top.at # "greedy" => KidCount(nodes, Top) = Top.idx
           /\ Counts(Top, KidCount(nodes, Top))
           /\ KidCount(nodes, Top) > 0 => LastEnd(nodes, Top) = TopStream.pos
           /\ NotBefore(Top, TopStream, TopStream.pos)
  BY TopGrown DEF Working, Counts

LEMMA DecodeLeafTrees == ASSUME Inv, Typed, Grown(nodes), InScopes, inspect, DecodeLeaf PROVE Grown(nodes)' /\ InScopes'
<1>1. ctl = "run" /\ Node[Top.fmt].kind \in LeafKinds /\ Deliver(LeafRead(Node[Top.fmt], TopStream)) /\ UNCHANGED tree
  BY DEF DecodeLeaf, TopNode
<1>2. Len(frames) > 0
  BY <1>1, BusyTop DEF Busy
<1>3. IsStream(TopStream) /\ Top.fmt \in Fmt
  BY <1>2, TopTyped
<1>4. IsResult(LeafRead(Node[Top.fmt], TopStream))
  BY <1>1, <1>3, LeavesRead
<1>5. ~Inside(Top) /\ Node[Top.fmt].kind \notin {"map", "tuple"}
  BY <1>1 DEF Inside, LeafKinds
<1> QED
  BY <1>1, <1>2, <1>4, <1>5, DeliverTrees

LEMMA MapEnterTrees == ASSUME Inv, Typed, Grown(nodes), InScopes, inspect, MapEnter PROVE Grown(nodes)' /\ InScopes'
<1>1. PICK F : F = [Top EXCEPT !.at = "loop", !.dict = Len(dicts) + 1]
  OBVIOUS
<1>2. /\ ctl = "run" /\ Node[Top.fmt].kind = "map" /\ Top.at = "enter"
      /\ frames' = WithTop(F) /\ ctl' = "run" /\ UNCHANGED <<streams, tree>>
  BY <1>1 DEF MapEnter, Running, TopNode
<1>3. Len(frames) > 0
  BY <1>2, BusyTop DEF Busy
<1>4. SameScope(F) /\ F.idx = Top.idx /\ F.at = "loop"
  BY <1>1, <1>3, TopFacts DEF IsFrame, FrameFields, SameScope
<1>5. Node[Top.fmt].kind \in Counted
  BY <1>2 DEF Counted
<1>6. Counts(F, KidCount(nodes, Top))
  BY <1>2, <1>3, <1>4, <1>5, CountsKids DEF Counts
<1> QED
  BY <1>2, <1>3, <1>4, <1>5, <1>6, GoesOn

(* A container calls for its next kid.                                     *)
LEMMA CallKid ==
    ASSUME Inv, Typed, Grown(nodes), InScopes, inspect, ctl = "run", Len(frames) > 0,
           Node[Top.fmt].kind \in Counted,
           NEW F, SameScope(F),
           IF Node[Top.fmt].kind = "map" THEN KidCount(nodes, Top) = F.idx - 1
           ELSE Counts(F, KidCount(nodes, Top)),
           NEW f \in Fmt, NEW key, key = AwaitedKey(F), NEW pa, Call(F, f, key, Top.strm, streams, pa, nodes)
    PROVE  Grown(nodes)' /\ InScopes'
<1>1. Top.strm \in 1..Len(streams) /\ streams[Top.strm] = TopStream /\ TopStream.pos \in Nat
  BY TopGrown, TopTyped, TopStill
<1>2. F.fmt = Top.fmt /\ F.strm = Top.strm /\ F.pos0 = Top.pos0
  BY DEF SameScope
<1>3. KidCount(nodes, F) = KidCount(nodes, Top) /\ LastEnd(nodes, F) = LastEnd(nodes, Top)
  BY DEF SameScope, KidCount, LastEnd, Kids
<1>4. NotBefore(Top, TopStream, TopStream.pos) /\ (KidCount(nodes, Top) > 0 => LastEnd(nodes, Top) = TopStream.pos)
  BY CountsKids
<1>5. ~Inside(F) /\ ~Inside(Top) /\ Node[F.fmt].kind \notin Framing
  BY <1>2 DEF Inside, Counted, Framing
<1>6. NotBefore(F, TopStream, TopStream.pos)
  BY <1>2, <1>4, <1>5 DEF NotBefore
<1>7. Ready(F, key, streams, Top.strm)
  BY <1>1, <1>2, <1>3, <1>4, <1>5, <1>6 DEF Ready
<1>8. Keeps(nodes, nodes) /\ Beyond(streams)
  BY KeepsItself, TopStill DEF Grown
<1> QED
  BY <1>1, <1>7, <1>8, CallTrees

LEMMA MapFieldTrees == ASSUME Inv, Typed, Grown(nodes), InScopes, inspect, MapField PROVE Grown(nodes)' /\ InScopes'
<1>1. PICK i \in DOMAIN TopNode.subs :
         /\ ctl = "run" /\ Node[Top.fmt].kind = "map" /\ Top.at = "loop" /\ i = Top.idx + 1
         /\ IF \E j, k \in GreedyFields(TopNode, i) : j # k
            THEN Raise("Value") /\ UNCHANGED <<streams, tree>>
            ELSE LET key == Name(TopNode.keys[i]) IN
                 Call([Top EXCEPT !.idx = i, !.item = key], TopNode.subs[i], key, Top.strm,
                      streams, Append(path, key), nodes)
  BY DEF MapField, Running, TopNode
<1>2. Len(frames) > 0
  BY <1>1, BusyTop DEF Busy
<1>3. Node[Top.fmt].kind \in Counted /\ ~Inside(Top)
  BY <1>1 DEF Counted, Inside
<1>4. CASE \E j, k \in GreedyFields(TopNode, i) : j # k
  BY <1>1, <1>2, <1>3, <1>4, FailsHere
<1>5. CASE ~(\E j, k \in GreedyFields(TopNode, i) : j # k)
  <2>1. PICK key : key = Name(TopNode.keys[i])
    OBVIOUS
  <2>2. PICK F : F = [Top EXCEPT !.idx = i, !.item = key]
    OBVIOUS
  <2>3. PICK pa : pa = Append(path, key)
    OBVIOUS
  <2>4. Call(F, TopNode.subs[i], key, Top.strm, streams, pa, nodes)
    BY <1>1, <1>5, <2>1, <2>2, <2>3
  <2>5. SameScope(F) /\ F.idx = i
    BY <1>2, <2>2, TopFacts DEF IsFrame, FrameFields, SameScope
  <2>6. TopNode.subs[i] \in Fmt
    BY <1>1, <1>2, SubsAreFormats, TopGrown DEF TopNode
  <2>7. KidCount(nodes, Top) = F.idx - 1
    BY <1>1, <1>2, <1>3, <2>5, CountsKids, TopGrown
  <2>8. key = AwaitedKey(F)
    BY <1>1, <2>1, <2>5 DEF AwaitedKey, SameScope, TopNode
  <2> QED
    BY <1>1, <1>2, <1>3, <2>4, <2>5, <2>6, <2>7, <2>8, CallKid
<1> QED
  BY <1>4, <1>5

LEMMA MapStoreTrees == ASSUME Inv, Typed, Grown(nodes), InScopes, inspect, MapStore PROVE Grown(nodes)' /\ InScopes'
<1>1. /\ ctl = "resume" /\ Node[Top.fmt].kind = "map" /\ ctl' = "run" /\ UNCHANGED <<frames, streams, tree>>
  BY DEF MapStore, Resuming, TopNode
<1>2. Len(frames) > 0
  BY <1>1, BusyTop DEF Busy
<1>3. Node[Top.fmt].kind \in Counted /\ Top.at = "loop"
  BY <1>1 DEF Counted, Typed, ReturnTyped, Stepping
<1>4. Counts(Top, KidCount(nodes, Top))
  BY <1>1, <1>2, <1>3, TopGrown DEF Working, Counts
<1>5. frames' = WithTop(Top) /\ SameScope(Top)
  BY <1>1, <1>2, TopRecounts DEF SameScope
<1> QED
  BY <1>1, <1>2, <1>3, <1>4, <1>5, GoesOn

LEMMA MapExitTrees == ASSUME Inv, Typed, Grown(nodes), InScopes, inspect, MapExit PROVE Grown(nodes)' /\ InScopes'
<1>1. PICK F, v :
         /\ F = [Top EXCEPT !.at = "exit"] /\ Return(F, v)
         /\ ctl = "run" /\ Node[Top.fmt].kind = "map" /\ Top.at = "loop" /\ Top.idx = Len(Node[Top.fmt].subs)
         /\ UNCHANGED <<streams, tree>>
  BY DEF MapExit, Running, TopNode
<1>2. Len(frames) > 0
  BY <1>1, BusyTop DEF Busy
<1>3. Node[Top.fmt].kind \in Counted /\ ~Inside(Top)
  BY <1>1 DEF Counted, Inside
<1>4. SameScope(F) /\ F.at = "exit"
  BY <1>1, <1>2, TopFacts DEF IsFrame, FrameFields, SameScope
<1>5. KidCount(nodes, Top) = Len(Node[Top.fmt].subs)
  BY <1>1, <1>2, <1>3, CountsKids
<1> QED
  BY <1>1, <1>2, <1>3, <1>4, <1>5, EndsHere

LEMMA ItemTrees == ASSUME Inv, Typed, Grown(nodes), InScopes, inspect, TupleItem \/ ArrayItem PROVE Grown(nodes)' /\ InScopes'
<1>1. PICK f : /\ ctl = "run" /\ Node[Top.fmt].kind \in {"tuple", "array"} /\ CallItem(Top.idx, f)
               /\ (Node[Top.fmt].kind = "tuple" => \E i \in DOMAIN TopNode.subs : i = Top.idx + 1 /\ f = TopNode.subs[i])
               /\ (Node[Top.fmt].kind = "array" => f = TopNode.subs[1])
  BY DEF TupleItem, ArrayItem, Running, TopNode
<1>2. Len(frames) > 0
  BY <1>1, BusyTop DEF Busy
<1>3. PICK key : key = Index(Top.idx)
  OBVIOUS
<1>4. PICK F : F = [Top EXCEPT !.item = key]
  OBVIOUS
<1>5. PICK pa : pa = Append(path, key)
  OBVIOUS
<1>6. Call(F, f, key, Top.strm, streams, pa, nodes)
  BY <1>1, <1>3, <1>4, <1>5 DEF CallItem
<1>7. SameScope(F) /\ F.idx = Top.idx /\ F.at = Top.at
  BY <1>2, <1>4, TopFacts DEF IsFrame, FrameFields, SameScope
<1>8. Node[Top.fmt].kind \in Counted
  BY <1>1 DEF Counted
<1>9. f \in Fmt
  BY <1>1, <1>2, SubsAreFormats, TopGrown DEF TopNode, WrapKinds
<1>10. Counts(F, KidCount(nodes, Top))
  BY <1>1, <1>2, <1>7, <1>8, CountsKids DEF Counts
<1>11. key = AwaitedKey(F)
  BY <1>1, <1>3, <1>7 DEF AwaitedKey, SameScope
<1>12. Node[Top.fmt].kind # "map"
  BY <1>1
<1> QED
  BY <1>1, <1>2, <1>6, <1>7, <1>8, <1>9, <1>10, <1>11, <1>12, CallKid

LEMMA ItemStoreTrees == ASSUME Inv, Typed, Grown(nodes), InScopes, inspect, ItemStore PROVE Grown(nodes)' /\ InScopes'
<1>1. PICK F : F = [Top EXCEPT !.idx = NextIndex(Top.idx)]
  OBVIOUS
<1>2. /\ ctl = "resume" /\ Node[Top.fmt].kind \in {"tuple", "array"} /\ ctl' = "run"
      /\ frames' = WithTop(F) /\ UNCHANGED <<streams, tree>>
  BY <1>1 DEF ItemStore, Resuming, TopNode
<1>3. Len(frames) > 0
  BY <1>2, BusyTop DEF Busy
<1>4. SameScope(F) /\ F.idx = NextIndex(Top.idx) /\ F.at = Top.at
  BY <1>1, <1>3, TopFacts DEF IsFrame, FrameFields, SameScope
<1>5. Node[Top.fmt].kind \in Counted
  BY <1>2 DEF Counted
<1>6. PICK k \in Nat, i \in Nat : k = KidCount(nodes, Top) /\ i = Top.idx
  BY <1>3, TopGrown
<1>7. k > 0 /\ Counts(Top, k - 1)
  BY <1>2, <1>3, <1>5, <1>6, TopGrown DEF Working
<1>8. MaxItems \in Nat
  BY DecodeAssumption
<1>9. i = IF Top.at = "greedy" /\ k - 1 > MaxItems THEN MaxItems ELSE k - 1
  BY <1>6, <1>7 DEF Counts
<1>10. F.idx = IF Top.at = "greedy" /\ i = MaxItems THEN i ELSE i + 1
  BY <1>4, <1>6 DEF NextIndex
<1>11. F.idx = IF Top.at = "greedy" /\ k > MaxItems THEN MaxItems ELSE k
  <2>1. CASE Top.at = "greedy"
    BY <1>6, <1>7, <1>8, <1>9, <1>10, <2>1
  <2>2. CASE Top.at # "greedy"
    BY <1>6, <1>7, <1>9, <1>10, <2>2
  <2> QED
    BY <2>1, <2>2
<1>12. Counts(F, KidCount(nodes, Top))
  BY <1>4, <1>6, <1>11 DEF Counts
<1> QED
  BY <1>2, <1>3, <1>4, <1>5, <1>12, GoesOn

LEMMA ItemsExitTrees == ASSUME Inv, Typed, Grown(nodes), InScopes, inspect, ItemsExit PROVE Grown(nodes)' /\ InScopes'
<1>1. PICK v :
         /\ Return(Top, v) /\ ctl = "run" /\ UNCHANGED <<streams, tree>>
         /\ \/ Node[Top.fmt].kind = "tuple" /\ Top.idx = Len(Node[Top.fmt].subs)
            \/ Node[Top.fmt].kind = "array"
  BY DEF ItemsExit, Running, TopNode
<1>2. Len(frames) > 0
  BY <1>1, BusyTop DEF Busy
<1>3. Node[Top.fmt].kind \in Counted /\ ~Inside(Top)
  BY <1>1 DEF Counted, Inside
<1>4. ASSUME Node[Top.fmt].kind \in {"map", "tuple"} PROVE KidCount(nodes, Top) = Len(Node[Top.fmt].subs)
  <2>1. Node[Top.fmt].kind = "tuple" /\ Top.idx = Len(Node[Top.fmt].subs)
    BY <1>1, <1>4
  <2>2. Fit(Top)
    BY <1>2, TopTyped
  <2>3. Top.at # "greedy"
    BY <2>1, <2>2 DEF Fit
  <2> QED
    BY <1>1, <1>2, <1>3, <2>1, <2>3, CountsKids
<1>5. SameScope(Top)
  BY DEF SameScope
<1> QED
  BY <1>1, <1>2, <1>3, <1>4, <1>5, EndsHere

LEMMA SwallowTrees ==
    ASSUME Inv, Typed, Grown(nodes), InScopes, inspect, GreedyCatch \/ OptionalCatch \/ WrapClose
    PROVE  Grown(nodes)' /\ InScopes'
<1>1. PICK v : /\ ctl \in Busy /\ Return(Top, v) /\ UNCHANGED <<streams, tree>>
               /\ Node[Top.fmt].kind \in {"array", "optional", "lazy", "switch"}
  BY DEF GreedyCatch, WrapClose, OptionalCatch, Resuming, TopNode, Busy
<1>2. Len(frames) > 0
  BY <1>1, BusyTop
<1>3. ~Inside(Top) /\ Node[Top.fmt].kind \notin {"map", "tuple"} /\ SameScope(Top)
  BY <1>1 DEF Inside, SameScope
<1> QED
  BY <1>1, <1>2, <1>3, EndsHere

LEMMA NoKids ==
    ASSUME Inv, Typed, Grown(nodes), InScopes, Len(frames) > 0, ctl = "run",
           Node[Top.fmt].kind = "array", Top.at = "enter"
    PROVE  KidCount(nodes, Top) = 0
<1>1. Fit(Top)
  BY TopTyped
<1>2. Top.idx = 0
  BY <1>1 DEF Fit
<1>3. Node[Top.fmt].kind \in Counted
  BY DEF Counted
<1> QED
  BY <1>2, <1>3, CountsKids

LEMMA ArrayGreedyTrees == ASSUME Inv, Typed, Grown(nodes), InScopes, inspect, ArrayGreedy PROVE Grown(nodes)' /\ InScopes'
<1>1. PICK F : F = [Top EXCEPT !.at = "greedy"]
  OBVIOUS
<1>2. /\ ctl = "run" /\ Node[Top.fmt].kind = "array" /\ Top.at = "enter"
      /\ frames' = WithTop(F) /\ ctl' = "run" /\ UNCHANGED <<streams, tree>>
  BY <1>1 DEF ArrayGreedy, Running, TopNode
<1>3. Len(frames) > 0
  BY <1>2, BusyTop DEF Busy
<1>4. SameScope(F) /\ F.idx = Top.idx
  BY <1>1, <1>3, TopFacts DEF IsFrame, FrameFields, SameScope
<1>5. Fit(Top)
  BY <1>3, TopTyped
<1>6. KidCount(nodes, Top) = 0 /\ Top.idx = 0 /\ MaxItems \in Nat /\ Node[Top.fmt].kind \in Counted
  BY <1>2, <1>3, <1>5, NoKids, DecodeAssumption DEF Counted, Fit
<1>7. Counts(F, KidCount(nodes, Top))
  BY <1>4, <1>6 DEF Counts
<1> QED
  BY <1>2, <1>3, <1>4, <1>6, <1>7, GoesOn

LEMMA ArrayCountTrees == ASSUME Inv, Typed, Grown(nodes), InScopes, inspect, ArrayCount PROVE Grown(nodes)' /\ InScopes'
<1>1. PICK c : c = Count(TopNode, TopStream)
  OBVIOUS
<1>2. ctl = "run" /\ Node[Top.fmt].kind = "array" /\ Top.at = "enter" /\ UNCHANGED tree
  BY DEF ArrayCount, Running, TopNode
<1>3. Len(frames) > 0
  BY <1>2, BusyTop DEF Busy
<1>4. /\ c.ok \in BOOLEAN /\ c.used \in Nat
      /\ c.ok => c.val.n \in Int
      /\ ~c.ok => IsResult(c)
  BY <1>1, TopCounts DEF ArrayCount
<1>5. ~Inside(Top) /\ Node[Top.fmt].kind \notin {"map", "tuple"}
  BY <1>2 DEF Inside
<1>6. ~IsFast(TopNode)
  BY DEF IsFast
<1>7. CASE ~c.ok
  <2>1. Deliver(c)
    BY <1>1, <1>7 DEF ArrayCount
  <2> QED
    BY <1>2, <1>3, <1>4, <1>5, <1>7, <2>1, DeliverTrees
<1>8. CASE c.ok
  <2>1. PICK F : F = [Top EXCEPT !.at = "items", !.todo = c.val.n]
    OBVIOUS
  <2>2. PICK x : x = Advance(TopStream, c.used)
    OBVIOUS
  <2>3. PICK ss : ss = PutStream(Top.strm, x)
    OBVIOUS
  <2>4. frames' = WithTop(F) /\ streams' = ss /\ ctl' = "run"
    BY <1>1, <1>2, <1>6, <1>8, <2>1, <2>2, <2>3 DEF ArrayCount, PutStream, TopStream
  <2>5. SameScope(F) /\ F.idx = Top.idx /\ F.at = "items"
    BY <1>3, <2>1, TopFacts DEF IsFrame, FrameFields, SameScope
  <2>6. IsStream(TopStream)
    BY <1>3, TopTyped
  <2>7. Moved(TopStream, Advance(TopStream, c.used), c.used) /\ IsStream(Advance(TopStream, c.used))
    BY <1>4, <2>6, AdvanceMoves, AdvanceTyped
  <2>8. IsStream(x) /\ x.seekable = TopStream.seekable /\ x.pos = TopStream.pos + c.used
    BY <2>2, <2>7 DEF Moved
  <2>9. Beyond(ss) /\ ss[Top.strm] = x
    BY <1>3, <2>3, <2>8, TopPut
  <2>10. NoEarlier(x.pos)
    BY <1>3, <1>4, <1>5, <2>8, NowhereEarlier
  <2>11. Fit(Top) /\ F.strm = Top.strm /\ F.fmt = Top.fmt /\ F.pos0 = Top.pos0
    BY <1>3, <2>5, TopTyped DEF SameScope
  <2>12. KidCount(nodes, F) = 0 /\ F.idx = 0
    <3>1. KidCount(nodes, Top) = 0 /\ Top.idx = 0
      BY <1>2, <1>3, <2>11, NoKids DEF Fit
    <3> QED
      BY <2>5, <3>1 DEF SameScope, KidCount
  <2>13. ~Inside(F) /\ NotBefore(F, x, x.pos)
    BY <1>2, <2>10, <2>11 DEF NotBefore, NoEarlier, Inside
  <2>14. Working(nodes, "run", F, x)
    BY <2>5, <2>12, <2>13 DEF Working, Counts
  <2> QED
    BY <1>2, <1>3, <2>4, <2>5, <2>9, <2>11, <2>14, SameTree
<1> QED
  BY <1>4, <1>7, <1>8

(* What is no container calls.                                             *)
LEMMA WrapCalls ==
    ASSUME Inv, Typed, Grown(nodes), InScopes, inspect, Len(frames) > 0, ctl \in {"run", "resume"},
           Node[Top.fmt].kind \notin Counted,
           NEW F, SameScope(F), NEW f \in Fmt, NEW key, NEW ss, Beyond(ss), NEW s \in 1..Len(ss), ss[s].pos \in Nat,
           Node[Top.fmt].kind \in Framing \/ s = Top.strm,
           NEW pa, NEW ns, Grown(ns), Keeps(nodes, ns),
           Inside(F) /\ ss[Top.strm].seekable => F.saved >= F.pos0,
           ~(Inside(F) /\ ss[Top.strm].seekable) => ss[Top.strm].pos >= F.pos0,
           Call(F, f, key, s, ss, pa, ns)
    PROVE  Grown(nodes)' /\ InScopes'
<1>1. F.fmt = Top.fmt /\ F.strm = Top.strm
  BY DEF SameScope
<1>2. NotBefore(F, ss[F.strm], IF Node[F.fmt].kind \in Framing THEN ss[F.strm].pos ELSE ss[s].pos)
  <2>1. CASE Node[F.fmt].kind \in Framing
    BY <1>1, <2>1 DEF NotBefore
  <2>2. CASE Node[F.fmt].kind \notin Framing
    <3>1. s = Top.strm
      BY <1>1, <2>2
    <3> QED
      BY <1>1, <2>2, <3>1 DEF NotBefore
  <2> QED
    BY <2>1, <2>2
<1>3. Ready(F, key, ss, s)
  BY <1>1, <1>2 DEF Ready
<1>4. Node[F.fmt].kind \in Framing \/ s = Top.strm
  BY <1>1
<1> QED
  BY <1>3, <1>4, CallTrees

LEMMA WrapOpenTrees ==
    ASSUME Inv, Typed, Grown(nodes), InScopes, inspect, WrapOpen \/ PointerOffset
    PROVE  Grown(nodes)' /\ InScopes'
<1>1. PICK at, key : /\ ctl = "run" /\ Node[Top.fmt].kind \in {"optional", "lazy", "pointer"}
                     /\ Node[Top.fmt].kind = "pointer" => at = "offset"
                     /\ Call([Top EXCEPT !.at = at], TopNode.subs[1], key, Top.strm, streams, path, nodes)
  <2>1. CASE WrapOpen
    BY <2>1 DEF WrapOpen, CallInner, Running, TopNode
  <2>2. CASE PointerOffset
    BY <2>2 DEF PointerOffset, Running, TopNode
  <2> QED
    BY <2>1, <2>2
<1>2. Len(frames) > 0
  BY <1>1, BusyTop DEF Busy
<1>3. PICK F : F = [Top EXCEPT !.at = at]
  OBVIOUS
<1>4. SameScope(F) /\ F.at = at /\ ~Inside(F)
  BY <1>1, <1>2, <1>3, TopFacts DEF IsFrame, FrameFields, SameScope, Inside
<1>5. TopNode.subs[1] \in Fmt
  BY <1>1, <1>2, SubsAreFormats, TopGrown DEF TopNode, WrapKinds
<1>6. Top.strm \in 1..Len(streams) /\ Beyond(streams) /\ streams[Top.strm] = TopStream /\ TopStream.pos \in Nat
  BY <1>2, TopTyped, TopStill, TopGrown
<1>7. F.pos0 = Top.pos0 /\ Node[Top.fmt].kind \notin Counted
  BY <1>1, <1>4 DEF SameScope, Counted
<1>8. TopStream.pos >= Top.pos0
  BY <1>1, <1>2, TopGrown DEF Working, NotBefore
<1> QED
  BY <1>1, <1>2, <1>3, <1>4, <1>5, <1>6, <1>7, <1>8, WrapCalls, KeepsItself DEF Grown

LEMMA PointerJumpTrees == ASSUME Inv, Typed, Grown(nodes), InScopes, inspect, PointerJump PROVE Grown(nodes)' /\ InScopes'
<1>1. ctl = "resume" /\ Node[Top.fmt].kind = "pointer" /\ Top.at = "offset"
  BY DEF PointerJump, Resuming, TopNode
<1>2. Len(frames) > 0
  BY <1>1, BusyTop DEF Busy
<1>3. ~Inside(Top) /\ Node[Top.fmt].kind \notin Counted
  BY <1>1 DEF Inside, Counted
<1>4. CASE TopNode.flag /\ val.n = 0
  <2>1. Return(Top, NoneV) /\ UNCHANGED <<streams, tree>> /\ Node[Top.fmt].kind \notin {"map", "tuple"}
    BY <1>1, <1>4 DEF PointerJump
  <2> QED
    BY <1>2, <1>3, <2>1, EndsHere DEF SameScope
<1>5. CASE ~(TopNode.flag /\ val.n = 0)
  <2>1. PICK x : x = Seek(TopStream, TopNode.num + val.n)
    OBVIOUS
  <2>2. PICK ss : ss = PutStream(Top.strm, x)
    OBVIOUS
  <2>3. PICK F : F = [[Top EXCEPT !.saved = TopStream.pos] EXCEPT !.at = "inner"]
    OBVIOUS
  <2>4. Call(F, TopNode.subs[2], Name("value"), Top.strm, ss, path, nodes)
    BY <1>5, <2>1, <2>2, <2>3 DEF PointerJump, CallInner, PutStream, TopStream
  <2>5. SameScope(F) /\ F.saved = TopStream.pos /\ Inside(F)
    BY <1>1, <1>2, <2>3, TopFacts DEF IsFrame, FrameFields, SameScope, Inside
  <2>6. /\ IsStream(TopStream) /\ Top.fmt \in Fmt /\ Top.strm \in 1..Len(streams)
        /\ TopStream.pos \in Nat /\ Top.pos0 \in Nat
    BY <1>2, TopTyped, TopGrown
  <2>7. TopNode.num + val.n \in Nat
    <3>1. val.n \in Nat
      BY DEF Typed, ScalarsTyped, NatValues
    <3>2. TopNode.num \in Nat
      BY <1>1, <2>6, FormatAssumption DEF TopNode
    <3> QED
      BY <3>1, <3>2
  <2>8. IsStream(x) /\ x.seekable = TopStream.seekable
    <3>1. IsStream(Seek(TopStream, TopNode.num + val.n))
      BY <2>6, <2>7, SeekTyped
    <3>2. Seek(TopStream, TopNode.num + val.n).seekable = TopStream.seekable
      BY <2>6, StreamFields, Zenon
    <3> QED
      BY <2>1, <3>1, <3>2, Zenon
  <2>9. Beyond(ss) /\ ss[Top.strm] = x /\ Len(ss) = Len(streams)
    BY <1>2, <2>2, <2>8, TopPut
  <2>10. TopStream.pos >= Top.pos0
    BY <1>2, <1>3, TopGrown DEF Working, NotBefore
  <2>11. F.saved >= F.pos0
    BY <2>5, <2>10 DEF SameScope
  <2>12. ~ss[Top.strm].seekable => ss[Top.strm].pos >= F.pos0
    <3>1. ~x.seekable => x = TopStream
      BY <2>1, <2>8 DEF Seek
    <3> QED
      BY <2>5, <2>9, <2>10, <3>1 DEF SameScope
  <2>13. Top.strm \in 1..Len(ss) /\ ss[Top.strm].pos \in Nat
    BY <2>6, <2>8, <2>9 DEF IsStream
  <2>14. TopNode.subs[2] \in Fmt
    BY <1>1, <2>6, SubsAreFormats DEF TopNode
  <2>15. Keeps(nodes, nodes)
    BY KeepsItself DEF Grown
  <2> QED
    BY <1>1, <1>2, <1>3, <2>4, <2>5, <2>9, <2>11, <2>12, <2>13, <2>14, <2>15, WrapCalls
<1> QED
  BY <1>4, <1>5

LEMMA PointerBackTrees == ASSUME Inv, Typed, Grown(nodes), InScopes, inspect, PointerBack PROVE Grown(nodes)' /\ InScopes'
<1>1. ctl = "resume" /\ Node[Top.fmt].kind = "pointer" /\ Top.at = "inner" /\ Return(Top, val) /\ UNCHANGED tree
  BY DEF PointerBack, Resuming, TopNode
<1>2. Len(frames) > 0
  BY <1>1, BusyTop DEF Busy
<1>3. Inside(Top) /\ Node[Top.fmt].kind \notin Counted /\ Node[Top.fmt].kind \notin {"map", "tuple"}
  BY <1>1 DEF Inside, Counted
<1>4. PICK x : x = Seek(TopStream, Top.saved)
  OBVIOUS
<1>5. PICK ss : ss = PutStream(Top.strm, x)
  OBVIOUS
<1>6. streams' = ss
  BY <1>4, <1>5 DEF PointerBack, PutStream, TopStream
<1>7. IsStream(TopStream) /\ Top.saved \in Nat /\ TopStream.pos \in Nat /\ Top.pos0 \in Nat
      /\ NotBefore(Top, TopStream, TopStream.pos)
  BY <1>2, TopTyped, TopGrown DEF Working
<1>8. IsStream(x) /\ x.seekable = TopStream.seekable
  <2>1. IsStream(Seek(TopStream, Top.saved))
    BY <1>7, SeekTyped
  <2>2. Seek(TopStream, Top.saved).seekable = TopStream.seekable
    BY <1>7, StreamFields, Zenon
  <2> QED
    BY <1>4, <2>1, <2>2, Zenon
<1>9. Beyond(ss) /\ ss[Top.strm] = x
  BY <1>2, <1>5, <1>8, TopPut
<1>10. x.pos >= Top.pos0
  <2>1. CASE TopStream.seekable
    <3>1. Seek(TopStream, Top.saved).pos = Top.saved
      BY <1>7, <2>1, StreamFields
    <3> QED
      BY <1>3, <1>4, <1>7, <2>1, <3>1 DEF NotBefore
  <2>2. CASE ~TopStream.seekable
    BY <1>4, <1>7, <2>2 DEF Seek, NotBefore
  <2> QED
    BY <2>1, <2>2
<1>11. NoEarlier(ss[Top.strm].pos)
  BY <1>3, <1>9, <1>10 DEF NoEarlier
<1>12. NotBefore(Top, x, x.pos)
  <2>1. x.seekable => Top.saved >= Top.pos0
    BY <1>3, <1>7, <1>8 DEF NotBefore
  <2> QED
    BY <1>10, <2>1 DEF NotBefore
<1>13. Working(nodes, "leave", Top, x)
  BY <1>3, <1>10, <1>12 DEF Working
<1>14. frames' = WithTop(Top) /\ SameScope(Top) /\ ctl' = "leave"
  BY <1>1 DEF Return, SameScope
<1> QED
  BY <1>1, <1>2, <1>6, <1>9, <1>13, <1>14, SameTree

(* A stream of its own for the format that is framed.                      *)
LEMMA FramedBeyond ==
    ASSUME Inv, Typed, Len(frames) > 0, NEW x, IsStream(x), x.seekable = TopStream.seekable, NEW data
    PROVE  LET ss == Append(PutStream(Top.strm, x), Stream(data, TRUE))
           IN  /\ Beyond(ss) /\ ss[Top.strm] = x
               /\ Len(streams) + 1 \in 1..Len(ss) /\ ss[Len(streams) + 1].pos \in Nat
<1>1. PICK n \in Nat : n = Len(streams)
  BY LengthsAreNat DEF Sizable
<1>2. PICK k \in 1..n : k = Top.strm
  BY <1>1, TopTyped
<1>3. PICK t : t = PutStream(Top.strm, x)
  OBVIOUS
<1>4. IsSeq(t) /\ Len(t) = n /\ Beyond(t) /\ t[k] = x
  <2>1. StreamsTyped /\ Top.strm \in 1..Len(streams)
    BY <1>1, <1>2 DEF Typed
  <2>2. IsSeq(PutStream(Top.strm, x)) /\ Len(PutStream(Top.strm, x)) = Len(streams)
    BY <2>1, StreamChanges
  <2>3. Beyond(PutStream(Top.strm, x)) /\ PutStream(Top.strm, x)[Top.strm] = x
    BY TopPut
  <2> QED
    BY <1>1, <1>2, <1>3, <2>2, <2>3
<1>5. PICK y : y = Stream(data, TRUE)
  OBVIOUS
<1>6. y.pos = 0
  BY <1>5 DEF Stream
<1>7. PICK u : u = Append(t, y)
  OBVIOUS
<1>8. Len(u) = n + 1 /\ u[n + 1] = y /\ \A i \in 1..n : u[i] = t[i]
  BY <1>4, <1>7, AppendSeq
<1>9. Beyond(u)
  <2>1. \A i \in 1..(k - 1) : i \in 1..n
    BY <1>1
  <2>2. \A i \in 1..(k - 1) : u[i] = streams[i]
    BY <1>2, <1>4, <1>8, <2>1 DEF Beyond
  <2>3. u[k].seekable = TopStream.seekable
    BY <1>2, <1>4, <1>8 DEF Beyond
  <2> QED
    BY <1>2, <2>2, <2>3 DEF Beyond
<1>10. u[k] = x /\ n + 1 \in 1..Len(u) /\ u[n + 1].pos \in Nat
  BY <1>4, <1>6, <1>8
<1> QED
  BY <1>1, <1>2, <1>3, <1>5, <1>7, <1>9, <1>10

(* A stream that is read further.                                          *)
LEMMA MovesOn ==
    ASSUME Inv, Typed, Grown(nodes), InScopes, Len(frames) > 0, ~Inside(Top), NEW k \in Nat
    PROVE  LET x == Advance(TopStream, k)
           IN  /\ IsStream(x) /\ x.seekable = TopStream.seekable /\ x.pos = TopStream.pos + k
               /\ NoEarlier(x.pos) /\ x.pos >= Top.pos0 /\ x.pos \in Nat
<1>1. IsStream(TopStream) /\ TopStream.pos \in Nat
  BY TopTyped, TopGrown
<1>2. PICK x : x = Advance(TopStream, k)
  OBVIOUS
<1>3. Moved(TopStream, Advance(TopStream, k), k) /\ IsStream(Advance(TopStream, k))
  BY <1>1, AdvanceMoves, AdvanceTyped
<1>4. IsStream(x) /\ x.seekable = TopStream.seekable /\ x.pos = TopStream.pos + k
  BY <1>2, <1>3 DEF Moved
<1>5. NoEarlier(x.pos)
  BY <1>4, NowhereEarlier
<1>6. x.pos >= Top.pos0 /\ x.pos \in Nat
  BY <1>1, <1>4, <1>5 DEF NoEarlier
<1> QED
  BY <1>2, <1>4, <1>5, <1>6

LEMMA SwitchOpenTrees == ASSUME Inv, Typed, Grown(nodes), InScopes, inspect, SwitchOpen PROVE Grown(nodes)' /\ InScopes'
<1> DEFINE sibling == Resolve(TopNode.ref)
           cases == Case(TopNode, sibling.val)
           rest == Left(TopStream)
           failure == IF ~sibling.ok THEN "Key"
                      ELSE IF sibling.val.t \in {"dict", "list"} THEN "Type"
                      ELSE IF cases = {} THEN "Key" ELSE ""
<1>1. ctl = "run" /\ Node[Top.fmt].kind = "switch"
  BY DEF SwitchOpen, Running, TopNode
<1>2. Len(frames) > 0
  BY <1>1, BusyTop DEF Busy
<1>3. Top.fmt \in Fmt /\ IsStream(TopStream)
  BY <1>2, TopTyped
<1>4. ~Inside(Top) /\ Node[Top.fmt].kind \notin Counted /\ Node[Top.fmt].kind \in Framing
  BY <1>1 DEF Inside, Counted, Framing
<1>5. Left(TopStream) \in Nat
  BY <1>3, LeftIsThere
<1>6. PICK x : x = Advance(TopStream, rest)
  OBVIOUS
<1>7. /\ IsStream(x) /\ x.seekable = TopStream.seekable
      /\ NoEarlier(x.pos) /\ x.pos >= Top.pos0 /\ x.pos \in Nat
  BY <1>2, <1>4, <1>5, <1>6, MovesOn
<1>8. PICK fails : fails = (failure # "")
  OBVIOUS
<1>9. IF fails THEN streams' = PutStream(Top.strm, x) /\ Raise(failure) /\ UNCHANGED tree
      ELSE \E i \in cases :
             CallInner(Top, TopNode.subs[i], NoKey, Len(streams) + 1,
                       Append(PutStream(Top.strm, x), Stream(Taken(TopStream, rest), TRUE)), nodes)
  BY <1>6, <1>8, Zenon DEF SwitchOpen, PutStream, TopStream
<1>10. CASE fails
  <2>1. PICK ss : ss = PutStream(Top.strm, x) /\ Beyond(ss) /\ ss[Top.strm] = x
    BY <1>2, <1>7, TopPut
  <2>2. streams' = ss /\ Raise(failure) /\ UNCHANGED tree
    BY <1>9, <1>10, <2>1
  <2> HIDE DEF failure
  <2> QED
    BY <1>2, <1>4, <1>7, <2>1, <2>2, RaiseTrees
<1>11. CASE ~fails
  <2>1. PICK ss : ss = Append(PutStream(Top.strm, x), Stream(Taken(TopStream, rest), TRUE))
    OBVIOUS
  <2>2. /\ Beyond(ss) /\ ss[Top.strm] = x
        /\ Len(streams) + 1 \in 1..Len(ss) /\ ss[Len(streams) + 1].pos \in Nat
    BY <1>2, <1>7, <2>1, FramedBeyond
  <2>3. PICK i \in cases : CallInner(Top, TopNode.subs[i], NoKey, Len(streams) + 1, ss, nodes)
    BY <1>9, <1>11, <2>1
  <2>4. i \in DOMAIN TopNode.subs
    BY DEF Case
  <2>5. TopNode.subs[i] \in Fmt
    BY <1>3, <2>4, SubsAreFormats DEF TopNode
  <2> HIDE DEF cases, sibling, rest, failure
  <2>6. PICK F : F = [Top EXCEPT !.at = "inner"]
    OBVIOUS
  <2>7. Call(F, TopNode.subs[i], NoKey, Len(streams) + 1, ss, path, nodes)
    BY <2>3, <2>6 DEF CallInner
  <2>8. SameScope(F) /\ ~Inside(F) /\ F.pos0 = Top.pos0
    BY <1>1, <1>2, <2>6, TopFacts DEF IsFrame, FrameFields, SameScope, Inside
  <2>9. Keeps(nodes, nodes)
    BY KeepsItself DEF Grown
  <2> QED
    BY <1>1, <1>2, <1>4, <1>7, <2>2, <2>5, <2>7, <2>8, <2>9, WrapCalls
<1> QED
  BY <1>10, <1>11

(* The node of the length prefix.                                          *)
LEMMA SizeLeafGrows ==
    ASSUME Inv, Typed, Grown(nodes), InScopes, inspect, Len(frames) > 0, ctl = "run",
           Node[Top.fmt].kind = "sized", NEW s, s.pos \in Nat, NEW length, length.used \in Nat, NEW N
    PROVE  /\ Grown(WithSizeLeaf(N, s, length)) /\ Keeps(nodes, WithSizeLeaf(N, s, length))
           /\ Len(WithSizeLeaf(N, s, length)) \in Nat
<1>1. PICK k \in 2..Len(nodes) : k = kidsOf /\ nodes[k].fmt = Top.fmt
  BY TopGrown DEF InScopes, Opened
<1>2. PICK L : L = NewNode(Name("--size--"), Top.fmt, s.pos)
  OBVIOUS
<1>3. PICK M : M = [L EXCEPT !.size = length.used, !.closed = TRUE]
  OBVIOUS
<1>4. PICK off \in Nat, u \in Nat : off = s.pos /\ u = length.used
  OBVIOUS
<1>5. /\ DOMAIN L = NodeFields /\ L.fmt = Top.fmt /\ L.off = off /\ L.kids = <<>>
  BY <1>2, <1>4 DEF NewNode, NodeFields
<1>6. /\ DOMAIN M = NodeFields /\ M.fmt = Top.fmt /\ M.off = off /\ M.kids = <<>>
      /\ M.size = u /\ M.closed = TRUE
  BY <1>3, <1>4, <1>5 DEF NodeFields
<1>7. IsSeq(M.kids) /\ Len(M.kids) = 0
  BY <1>6, ShortSeqs
<1>8. Top.fmt \in Fmt /\ Node[Top.fmt].kind \notin Counted /\ Len(nodes) \in Nat
  BY TopGrown DEF Counted
<1>9. IsNode(M, Len(nodes) + 1)
  <2>1. \A i \in 1..Len(M.kids) : M.kids[i] \in 1..(Len(nodes) + 1)
    BY <1>7
  <2>2. M.closed \in BOOLEAN
    BY <1>6, Zenon
  <2>3. M.fmt \in Fmt /\ M.off \in Nat /\ M.size \in Int
    BY <1>4, <1>6, <1>8
  <2> QED
    BY <1>6, <1>7, <2>1, <2>2, <2>3 DEF IsNode
<1>10. CASE N.mode = "prefix" /\ length.ok
  <2>1. PICK ns : ns = Append([nodes EXCEPT ![k].kids = Append(@, Len(nodes) + 1)], M)
    OBVIOUS
  <2>2. WithSizeLeaf(N, s, length) = ns
    BY <1>1, <1>2, <1>3, <1>10, <2>1 DEF WithSizeLeaf
  <2>3. Node[nodes[k].fmt].kind \notin Counted /\ M.closed /\ Node[M.fmt].kind \notin Counted
    BY <1>1, <1>6, <1>8
  <2>4. Grown(ns) /\ Keeps(nodes, ns)
    BY <1>7, <1>9, <2>1, <2>3, GrownByLeaf
  <2> QED
    BY <2>2, <2>4 DEF Grown, IsSeq
<1>11. CASE ~(N.mode = "prefix" /\ length.ok)
  <2>1. WithSizeLeaf(N, s, length) = nodes
    BY <1>11 DEF WithSizeLeaf
  <2> QED
    BY <1>8, <2>1, KeepsItself DEF Grown
<1> QED
  BY <1>10, <1>11

LEMMA SizedOpenTrees == ASSUME Inv, Typed, Grown(nodes), InScopes, inspect, SizedOpen PROVE Grown(nodes)' /\ InScopes'
<1>1. ctl = "run" /\ Node[Top.fmt].kind = "sized"
  BY DEF SizedOpen, Running, TopNode
<1>2. Len(frames) > 0
  BY <1>1, BusyTop DEF Busy
<1>3. /\ Top.fmt \in Fmt /\ IsStream(TopStream) /\ TopStream.pos \in Nat
      /\ IsSeq(parents) /\ ContextTyped
  BY <1>2, TopTyped, TopFacts, TopGrown DEF Typed
<1>4. PICK length : length = SizedLength(TopNode, TopStream)
  OBVIOUS
<1>5. PICK r : r = Frame(TopNode, TopStream)
  OBVIOUS
<1>6. PICK ns : ns = WithSizeLeaf(TopNode, TopStream, length)
  OBVIOUS
<1>7. IsResult(r) /\ IsResult(length)
  BY <1>3, <1>4, <1>5, FramesTyped DEF TopNode
<1>8. Grown(ns) /\ Keeps(nodes, ns) /\ Len(ns) \in Nat
  <2>1. length.used \in Nat
    BY <1>7 DEF IsResult
  <2> QED
    BY <1>1, <1>2, <1>3, <1>6, <2>1, SizeLeafGrows
<1>9. ~Inside(Top) /\ Node[Top.fmt].kind \notin Counted /\ Node[Top.fmt].kind \in Framing
  BY <1>1 DEF Inside, Counted, Framing
<1>10. PICK x : x = Advance(TopStream, r.used)
  OBVIOUS
<1>11. /\ IsStream(x) /\ x.seekable = TopStream.seekable
       /\ NoEarlier(x.pos) /\ x.pos >= Top.pos0 /\ x.pos \in Nat
  <2>1. r.used \in Nat
    BY <1>7 DEF IsResult
  <2> QED
    BY <1>2, <1>9, <1>10, <2>1, MovesOn
<1>12. CASE r.ok
  <2>1. PICK ss : ss = Append(PutStream(Top.strm, x),
                              Stream(Taken(Advance(TopStream, length.used), r.val.n), TRUE))
    OBVIOUS
  <2>2. PICK F : F = [Top EXCEPT !.at = "inner"]
    OBVIOUS
  <2>3. Call(F, TopNode.subs[1], NoKey, Len(streams) + 1, ss, path, ns)
    BY <1>4, <1>5, <1>6, <1>10, <1>12, <2>1, <2>2 DEF SizedOpen, CallInner, PutStream, TopStream
  <2>4. /\ Beyond(ss) /\ ss[Top.strm] = x
        /\ Len(streams) + 1 \in 1..Len(ss) /\ ss[Len(streams) + 1].pos \in Nat
    BY <1>2, <1>11, <2>1, FramedBeyond
  <2>5. TopNode.subs[1] \in Fmt
    BY <1>1, <1>3, SubsAreFormats DEF TopNode, WrapKinds
  <2>6. SameScope(F) /\ ~Inside(F) /\ F.pos0 = Top.pos0
    BY <1>1, <1>2, <2>2, TopFacts DEF IsFrame, FrameFields, SameScope, Inside
  <2> QED
    BY <1>1, <1>2, <1>8, <1>9, <1>11, <2>3, <2>4, <2>5, <2>6, WrapCalls
<1>13. CASE ~r.ok
  <2>1. Raise(r.exc) /\ nodes' = ns /\ UNCHANGED kidsOf
    BY <1>4, <1>5, <1>6, <1>13 DEF SizedOpen, Deliver
  <2>2. PICK ss : ss = PutStream(Top.strm, x)
    OBVIOUS
  <2>3. streams' = ss
    BY <1>4, <1>5, <1>10, <1>13, <2>2 DEF SizedOpen, Deliver, PutStream, TopStream
  <2>4. Beyond(ss) /\ ss[Top.strm] = x
    BY <1>2, <1>11, <2>2, TopPut
  <2>5. NotBefore(Top, x, x.pos)
    BY <1>9, <1>11 DEF NotBefore
  <2>6. Working(ns, "raise", Top, x)
    BY <1>9, <2>5 DEF Working
  <2>7. frames' = WithTop(Top) /\ SameScope(Top) /\ ctl' = "raise"
    BY <1>2, <2>1, TopRecounts DEF Raise, SameScope
  <2>8. InScopes'
    BY <1>2, <1>8, <2>1, <2>3, <2>4, <2>6, <2>7, StayTrees
  <2> QED
    BY <1>8, <2>1, <2>8
<1> QED
  BY <1>7, <1>12, <1>13 DEF IsResult

LEMMA SizedCloseTrees == ASSUME Inv, Typed, Grown(nodes), InScopes, inspect, SizedClose PROVE Grown(nodes)' /\ InScopes'
<1>1. /\ ctl = "resume" /\ Node[Top.fmt].kind = "sized" /\ (Raise("Value") \/ Return(Top, val))
      /\ UNCHANGED <<streams, tree>>
  BY DEF SizedClose, Resuming, TopNode
<1>2. Len(frames) > 0
  BY <1>1, BusyTop DEF Busy
<1>3. ~Inside(Top) /\ Node[Top.fmt].kind \notin {"map", "tuple"} /\ SameScope(Top)
  BY <1>1 DEF Inside, SameScope
<1>4. CASE Raise("Value")
  BY <1>1, <1>2, <1>3, <1>4, FailsHere
<1>5. CASE Return(Top, val)
  BY <1>1, <1>2, <1>3, <1>5, EndsHere
<1> QED
  BY <1>1, <1>4, <1>5

LEMMA EndOfTrees ==
    ASSUME Inv, Typed, Grown(nodes), InScopes, inspect, Finish \/ Report PROVE Grown(nodes)' /\ InScopes'
<1>1. ctl \in {"finish", "report"} /\ UNCHANGED <<frames, tree>>
  BY DEF Finish, Report
<1>2. Len(frames) = 0
  BY <1>1 DEF Typed, ScalarsTyped
<1>3. nodes' = nodes /\ frames' = frames /\ \A i \in 1..(0 - 1) : FALSE
  BY <1>1 DEF tree
<1>4. Scopes(nodes, frames, 0)
  BY <1>2 DEF InScopes
<1> QED
  BY <1>2, <1>3, <1>4 DEF InScopes

(* Without an inspection there is no tree.                                 *)
LEMMA QuietTrees == ASSUME ~inspect, Next PROVE UNCHANGED nodes
<1>1. ASSUME NEW N, NEW s, NEW length PROVE WithSizeLeaf(N, s, length) = nodes
  BY DEF WithSizeLeaf
<1>2. ASSUME NEW F, NEW f, NEW key, NEW s, NEW ss, NEW pa, Call(F, f, key, s, ss, pa, nodes) PROVE UNCHANGED nodes
  BY <1>2 DEF Call
<1>3. CASE MapField
  BY <1>2, <1>3 DEF MapField, tree
<1>4. CASE TupleItem \/ ArrayItem
  BY <1>2, <1>4 DEF TupleItem, ArrayItem, CallItem
<1>5. CASE WrapOpen \/ PointerOffset
  BY <1>2, <1>5 DEF WrapOpen, PointerOffset, CallInner
<1>6. CASE SwitchOpen
  BY <1>2, <1>6 DEF SwitchOpen, CallInner, tree
<1>7. CASE PointerJump
  BY <1>2, <1>7 DEF PointerJump, CallInner, tree
<1>8. CASE SizedOpen
  <2>1. SizedLength(TopNode, TopStream) = SizedLength(TopNode, TopStream)
    OBVIOUS
  <2> QED
    BY <1>1, <1>2, <1>8 DEF SizedOpen, CallInner
<1>9. CASE DecodeLeaf \/ MapEnter \/ MapStore \/ MapExit \/ ItemStore \/ ItemsExit \/ GreedyCatch
           \/ ArrayGreedy \/ ArrayCount \/ OptionalCatch \/ WrapClose \/ PointerBack \/ SizedClose
           \/ Leave \/ Unwind \/ Finish \/ Report
  BY <1>9 DEF DecodeLeaf, MapEnter, MapStore, MapExit, ItemStore, ItemsExit, GreedyCatch, ArrayGreedy,
     ArrayCount, OptionalCatch, WrapClose, PointerBack, SizedClose, Leave, Unwind, Finish, Report, tree
<1> QED
  BY <1>3, <1>4, <1>5, <1>6, <1>7, <1>8, <1>9 DEF Next

LEMMA StepTrees == ASSUME Inv, Typed, Trees, Next PROVE Trees'
<1>1. inspect' = inspect
  BY EntryStays DEF config
<1>2. CASE ~inspect
  <2>1. nodes' = nodes
    BY <1>2, QuietTrees
  <2> QED
    BY <1>1, <1>2, <2>1 DEF Trees
<1>3. CASE inspect
  <2>1. Grown(nodes) /\ InScopes
    BY <1>3 DEF Trees
  <2>2. Grown(nodes)' /\ InScopes'
    BY <1>3, <2>1, DecodeLeafTrees, MapEnterTrees, MapFieldTrees, MapStoreTrees, MapExitTrees, ItemTrees,
       ItemStoreTrees, ItemsExitTrees, SwallowTrees, ArrayGreedyTrees, ArrayCountTrees, WrapOpenTrees,
       SwitchOpenTrees, PointerJumpTrees, PointerBackTrees, SizedOpenTrees, SizedCloseTrees,
       LeaveTrees, UnwindTrees, EndOfTrees, Zenon DEF Next
  <2> QED
    BY <2>2 DEF Trees
<1> QED
  BY <1>2, <1>3

LEMMA InitTrees == ASSUME Init PROVE Trees
<1>1. PICK root \in Fmt : /\ frames = <<NewFrame(root, NoKey, 1, 0, 2, 1, <<1>>, <<>>)>> /\ curFmt = root
  BY DecodeAssumption DEF Init
<1>2. PICK n \in {1, 2} : n = IF inspect THEN 2 ELSE 1
  OBVIOUS
<1>3. PICK M : M = NewNode(NoKey, root, 0)
  OBVIOUS
<1>4. nodes = [i \in 1..n |-> M] /\ kidsOf = n /\ ctl = "run"
  BY <1>1, <1>2, <1>3 DEF Init
<1>5. IsNew(NewNode(NoKey, root, 0), NoKey, root, 0, n)
  BY NewNodes
<1>6. IsNode(M, n) /\ M.fmt = root /\ M.off = 0 /\ ~M.closed /\ Len(M.kids) = 0
  BY <1>3, <1>5 DEF IsNew
<1>7. IsSeq(nodes) /\ Len(nodes) = n /\ \A m \in 1..n : nodes[m] = M
  <2>1. n \in Nat /\ nodes = [i \in 1..n |-> nodes[i]]
    BY <1>4
  <2> QED
    BY <1>4, <2>1, IsSeqIntro
<1>8. Grown(nodes)
  BY <1>6, <1>7 DEF Grown, Ordered, Complete
<1>9. ASSUME inspect PROVE InScopes
  <2>1. PICK F : F = NewFrame(root, NoKey, 1, 0, 2, 1, <<1>>, <<>>)
    OBVIOUS
  <2>2. F.fmt = root /\ F.strm = 1 /\ F.pos0 = 0 /\ F.idx = 0 /\ F.node = 2 /\ F.outer = 1 /\ F.at = "enter"
    BY <2>1 DEF NewFrame
  <2>3. PICK data : streams = <<Stream(data, entry # "unseekable")>>
    BY DEF Init
  <2>4. PICK s : s = streams[1]
    OBVIOUS
  <2>5. s.pos = 0
    BY <2>3, <2>4, ShortSeqs DEF Stream
  <2>6. Len(frames) = 1 /\ frames[1] = F
    BY <1>1, <2>1, ShortSeqs
  <2>7. Top = F /\ TopStream = s
    BY <2>2, <2>4, <2>6 DEF Top, TopStream
  <2>8. n = 2
    BY <1>2, <1>9
  <2>9. Opened(nodes, F) /\ KidCount(nodes, F) = 0
    BY <1>6, <1>7, <2>2, <2>8 DEF Opened, KidCount
  <2>10. Scopes(nodes, frames, 1)
    BY <2>2, <2>6, <2>9 DEF Scopes
  <2>11. ~Inside(F) /\ NotBefore(F, s, s.pos) /\ Counts(F, 0)
    BY <2>2, <2>5 DEF Inside, NotBefore, Counts
  <2>12. Working(nodes, "run", F, s)
    BY <2>9, <2>11 DEF Working
  <2> QED
    BY <1>4, <2>2, <2>6, <2>7, <2>8, <2>10, <2>12 DEF InScopes
<1> QED
  BY <1>8, <1>9 DEF Trees

(* Every node of the tree is in order, whatever is still being decoded.    *)
LEMMA Treeing == Spec => [](Inv /\ Typed /\ Trees)
<1>1. ASSUME Init PROVE Inv /\ Typed /\ Trees
  BY <1>1, InitInv, InitTyped, InitTrees
<1>2. ASSUME Inv, Typed, Trees, [Next]_vars PROVE Trees'
  <2>1. CASE Next
    BY <1>2, <2>1, StepTrees
  <2>2. CASE UNCHANGED vars
    BY <1>2, <2>2 DEF vars, config, flow, tree, result, Trees, InScopes, Top, TopStream
  <2> QED
    BY <1>2, <2>1, <2>2
<1> QED
  BY <1>1, <1>2, Typing, PTL DEF Spec

(* A closed node is in order because its kids are, and they are all there. *)
LEMMA GrownTiles == ASSUME Grown(nodes) PROVE InspectionTiles
<1> SUFFICES ASSUME NEW m \in DOMAIN nodes, nodes[m].closed
             PROVE  /\ \A i \in DOMAIN nodes[m].kids : nodes[nodes[m].kids[i]].closed
                    /\ Node[nodes[m].fmt].kind \in {"map", "tuple"} =>
                         [i \in DOMAIN nodes[m].kids |-> nodes[nodes[m].kids[i]].key] = FieldKeys(Node[nodes[m].fmt])
                    /\ Node[nodes[m].fmt].kind = "array" =>
                         \A i \in DOMAIN nodes[m].kids :
                            \/ nodes[nodes[m].kids[i]].key = Index(i - 1)
                            \/ Node[nodes[m].fmt].mode = "greedy" /\ i - 1 > MaxItems
                    /\ Node[nodes[m].fmt].kind \in {"map", "tuple", "array"} => Tiles(nodes[m])
  BY DEF InspectionTiles
<1>1. PICK M : M = nodes[m]
  OBVIOUS
<1>2. PICK N : N = Node[M.fmt]
  OBVIOUS
<1>3. m \in 2..Len(nodes)
  BY DEF Grown, IsSeq
<1>4. IsNode(M, Len(nodes)) /\ Ordered(nodes, M) /\ Complete(nodes, M) /\ M.closed
  BY <1>1, <1>3 DEF Grown
<1>5. PICK n : n = Len(M.kids)
  OBVIOUS
<1>6. IsSeq(M.kids) /\ n \in Nat /\ DOMAIN M.kids = 1..n
  BY <1>4, <1>5 DEF IsNode, IsSeq
<1>7. \A i \in DOMAIN M.kids : nodes[M.kids[i]].closed
  BY <1>4, <1>5, <1>6 DEF Ordered
<1>8. N.kind \in Counted => \A i \in DOMAIN M.kids : KeyFits(N, i, nodes[M.kids[i]].key)
  BY <1>2, <1>4, <1>5, <1>6 DEF Ordered
<1>9. N.kind = "array" =>
        \A i \in DOMAIN M.kids :
           \/ nodes[M.kids[i]].key = Index(i - 1)
           \/ N.mode = "greedy" /\ i - 1 > MaxItems
  BY <1>8 DEF KeyFits, Counted
<1>10. ASSUME N.kind \in {"map", "tuple"}
       PROVE  [i \in DOMAIN M.kids |-> nodes[M.kids[i]].key] = FieldKeys(N)
  <2>1. n = Len(N.subs)
    BY <1>2, <1>4, <1>5, <1>10 DEF Complete, Counted
  <2>2. M.fmt \in Fmt
    BY <1>4 DEF IsNode
  <2>3. N.subs \in Seq(Fmt) /\ N.keys \in Seq(STRING) /\ (N.kind = "map" => Len(N.keys) = Len(N.subs))
    BY <1>2, <2>2, FormatAssumption
  <2>4. DOMAIN N.subs = 1..n /\ (N.kind = "map" => DOMAIN N.keys = 1..n)
    BY <2>1, <2>3, LenProperties
  <2>5. CASE N.kind = "map"
    <3>1. \A i \in 1..n : nodes[M.kids[i]].key = Name(N.keys[i])
      BY <1>6, <1>8, <2>5 DEF KeyFits, Counted
    <3> QED
      BY <1>6, <2>4, <2>5, <3>1 DEF FieldKeys
  <2>6. CASE N.kind = "tuple"
    <3>1. \A i \in 1..n : nodes[M.kids[i]].key = Index(i - 1)
      BY <1>6, <1>8, <2>6 DEF KeyFits, Counted
    <3> QED
      BY <1>6, <2>4, <2>6, <3>1 DEF FieldKeys
  <2> QED
    BY <1>10, <2>5, <2>6
<1>11. ASSUME N.kind \in Counted PROVE Tiles(M)
  <2>1. \A i \in 1..(n - 1) : nodes[M.kids[i + 1]].off = nodes[M.kids[i]].off + nodes[M.kids[i]].size
    BY <1>2, <1>4, <1>5, <1>11 DEF Ordered, End
  <2>2. \A i \in DOMAIN M.kids : i < n => i \in 1..(n - 1)
    BY <1>6
  <2>3. M.kids # <<>> => n > 0
    <3>1. n = 0 => M.kids = <<>>
      BY <1>5, <1>6 DEF IsSeq
    <3> QED
      BY <1>6, <3>1
  <2>4. n > 0 => nodes[M.kids[n]].off + nodes[M.kids[n]].size <= M.off + M.size
    BY <1>2, <1>4, <1>5, <1>11 DEF Complete, End
  <2> QED
    BY <1>5, <2>1, <2>2, <2>3, <2>4 DEF Tiles
<1> QED
  BY <1>1, <1>2, <1>7, <1>9, <1>10, <1>11 DEF Counted

(* InspectionTiles, for every graph of formats, every input and every      *)
(* recursion limit: in the tree of a decode (with_inspect_node of          *)
(* _inspect.py), also of one that has raised, every closed node has only   *)
(* closed kids; those of a mapping or a tuple are its fields, in order, and*)
(* those of an array its elements, each counted at its place; and the kids *)
(* lie one after the other within the bytes of the node.                   *)
THEOREM InspectionsTile == Spec => []InspectionTiles
<1>1. Trees => InspectionTiles
  BY GrownTiles DEF Trees
<1> QED
  BY <1>1, Treeing, PTL
=============================================================================
