---------------------------- MODULE Encode_proofs ----------------------------
(***************************************************************************)
(* Proofs about Encode, for every graph of formats, every object and every *)
(* recursion limit.                                                        *)
(***************************************************************************)
EXTENDS Encode, CallStack_proofs

-----------------------------------------------------------------------------
(* The inductive invariant.  The context is what the stack says of it,     *)
(* also while an exception passes through: the path then leads to the      *)
(* frame that raised, or, where the recursion limit was met, to the one    *)
(* that could not be entered.                                              *)
FrameFields == {"fmt", "obj", "strm", "pos0", "at", "idx", "item", "saved", "kids", "raw"}

IsFrame(F) == DOMAIN F = FrameFields

Shape ==
    /\ IsSeq(frames) /\ Len(frames) > 0
    /\ \A i \in 1..Len(frames) : IsFrame(frames[i])
    /\ IsSeq(parents) /\ IsSeq(path) /\ IsSeq(streams)
    /\ ctl \in Controls

Scoped == Lists(parents, ScopesOf("obj", MapV(<<>>), frames, Len(frames)))

Callers == IF ctl = "resume" \/ exc = "Recursion" THEN Len(frames) ELSE Len(frames) - 1

Traced ==
    /\ ctl # "done" => Lists(path, KeysUpto(frames, Callers))
    /\ ctl = "done" /\ exc # "" => Lists(err.path, KeysUpto(frames, Callers))

Quiet == ctl \in {"run", "leave", "resume"} => exc = ""

Shut == ctl = "leave" => ~IsOpenMap(Top)

(* Every open Sized has a stream of its own, in which all that is above it *)
(* on the stack is written, and its own place is untouched meanwhile.      *)
Sizing(F) == Node[F.fmt].kind = "sized"
Step(F) == IF Sizing(F) THEN 1 ELSE 0

Levels ==
    /\ \A i \in 1..Len(frames) : frames[i].strm \in 1..Len(streams)
    /\ \A i \in 1..(Len(frames) - 1) : frames[i + 1].strm = frames[i].strm + Step(frames[i])

Climbs ==
    \A j \in 1..Len(frames) : \A i \in 1..(j - 1) :
        frames[i].strm + Step(frames[i]) <= frames[j].strm

Buffered ==
    /\ ctl \in {"run", "leave"} => Len(streams) = Top.strm
    /\ ctl = "resume" => Len(streams) = Top.strm + Step(Top)

Unwritten ==
    \A i \in 1..Len(frames) :
        Sizing(frames[i]) /\ (i < Len(frames) \/ ctl \in {"run", "resume", "raise"}) =>
            streams[frames[i].strm].pos = frames[i].pos0

Inv == Shape /\ Scoped /\ Traced /\ Quiet /\ Shut /\ Levels /\ Climbs /\ Buffered /\ Unwritten

-----------------------------------------------------------------------------
(* What an operation refuses is never the recursion limit.                 *)
Decided(r) == ~r.ok => r.exc \in Refusals

LEMMA OkDecided == ASSUME NEW v PROVE Decided(Ok(v))
  BY DEF Decided, Ok

LEMMA RefusedDecided == ASSUME NEW e \in Refusals PROVE Decided(Refused(e))
  BY DEF Decided, Refused

LEMMA PackedDecided == ASSUME NEW w, NEW v PROVE Decided(Packed(w, v))
  BY DEF Decided, Packed, Ok, Refused, Refusals

LEMMA LeafDecided == ASSUME NEW N, NEW v PROVE Decided(LeafWrite(N, v))
  BY PackedDecided DEF Decided, LeafWrite, Ok, Refused, Refusals

LEMMA ResolveDecided == ASSUME NEW ref PROVE Decided(Resolve(ref))
  BY DEF Decided, Resolve, Ok, Refused, Refusals

LEMMA FieldDecided == ASSUME NEW N, NEW i, NEW obj PROVE Decided(FieldValue(N, i, obj))
<1> DEFINE S == Node[N.subs[i]]
           wanted == IF IsInline(S) THEN {Node[S.subs[1]].keys[j] : j \in DOMAIN Node[S.subs[1]].keys}
                     ELSE IF IsConstant(S) THEN {} ELSE {N.keys[i]}
<1>1. FieldValue(N, i, obj) =
         IF obj.t # "map" THEN Refused("Type")
         ELSE IF ~(wanted \subseteq DOMAIN obj.at) THEN Refused("Key")
         ELSE IF IsInline(S) THEN Ok(MapV([k \in wanted |-> obj.at[k]]))
         ELSE IF N.keys[i] \in DOMAIN obj.at THEN Ok(obj.at[N.keys[i]]) ELSE Ok(NoneV)
  BY DEF FieldValue
<1> HIDE DEF S, wanted
<1>2. "Type" \in Refusals /\ "Key" \in Refusals
  BY DEF Refusals
<1>3. Decided(Refused("Type")) /\ Decided(Refused("Key"))
  BY <1>2, RefusedDecided
<1>4. CASE obj.t # "map" \/ ~(wanted \subseteq DOMAIN obj.at)
  BY <1>1, <1>3, <1>4
<1>5. CASE obj.t = "map" /\ wanted \subseteq DOMAIN obj.at
  <2>1. PICK v : FieldValue(N, i, obj) = Ok(v)
    BY <1>1, <1>5
  <2> QED
    BY <2>1, OkDecided
<1> QED
  BY <1>4, <1>5

LEMMA PrologueDecided == ASSUME NEW N, NEW v PROVE Decided(Prologue(N, v))
<1>1. Decided(Expected(N))
  BY ResolveDecided DEF Expected, Decided, Ok, Refused, Refusals
<1>2. Decided(FastBytes(N, v))
  <2> DEFINE words == [i \in DOMAIN Flatten(Items(v)) |-> Packed(Node[N.subs[1]].num, Flatten(Items(v))[i])]
             bad == {i \in DOMAIN words : ~words[i].ok}
  <2>1. FastBytes(N, v) = IF bad = {} THEN Ok(FlattenSeq([i \in DOMAIN words |-> words[i].val]))
                          ELSE Refused("Number")
    BY DEF FastBytes
  <2> HIDE DEF words, bad
  <2>2. "Number" \in Refusals
    BY DEF Refusals
  <2> QED
    BY <2>1, <2>2, OkDecided, RefusedDecided
<1>3. Decided(Packed(1, IntV(Len(Items(v)))))
  BY PackedDecided
<1>4. Decided(Refused("Type")) /\ Decided(Refused("Value")) /\ Decided(Ok(<<>>))
  BY DEF Decided, Ok, Refused, Refusals
<1> QED
  BY <1>1, <1>2, <1>3, <1>4 DEF Prologue

LEMMA TagDecided == ASSUME NEW N, NEW v PROVE Decided(TagForEncode(N, v))
  BY ResolveDecided DEF TagForEncode, Decided, Ok, Refused, Refusals

LEMMA HeadDecided == ASSUME NEW N, NEW len PROVE Decided(LengthHead(N, len))
  BY ResolveDecided, PackedDecided DEF LengthHead, Decided, Ok, Refused, Refusals

-----------------------------------------------------------------------------
(* What the invariant says of the running frame.                           *)
LEMMA TopFacts ==
    ASSUME Inv
    PROVE  /\ Len(frames) \in Nat /\ Len(frames) > 0
           /\ IsFrame(Top) /\ WithTop(Top) = frames
           /\ IsSeq(parents) /\ IsSeq(path) /\ IsSeq(streams)
           /\ Top.strm \in 1..Len(streams) /\ Len(streams) \in Nat
           /\ Step(Top) \in {0, 1}
<1>1. Len(frames) \in Nat /\ frames = [i \in 1..Len(frames) |-> frames[i]] /\ Len(frames) > 0
  BY DEF Inv, Shape, IsSeq
<1>2. WithTop(Top) = frames
  BY <1>1 DEF WithTop, Top
<1>3. Len(frames) \in 1..Len(frames)
  BY <1>1
<1> QED
  BY <1>1, <1>2, <1>3 DEF Inv, Shape, Levels, Top, Step, IsSeq

(* At a call, and wherever a frame raises, the path lists the keys of the  *)
(* frames below.                                                           *)
Calm == ctl = "run" \/ (ctl = "resume" /\ ~IsContainer(Top))

LEMMA PathBelow ==
    ASSUME Inv, Calm
    PROVE  Lists(path, KeysUpto(frames, Len(frames) - 1)) /\ exc = ""
<1>1. exc = ""
  BY DEF Inv, Quiet, Calm
<1>2. CASE ctl = "run"
  BY <1>1, <1>2 DEF Inv, Traced, Callers
<1>3. CASE ctl = "resume" /\ ~IsContainer(Top)
  <2>1. PICK m \in Nat : Len(frames) = m + 1 /\ Len(frames) - 1 = m
    <3>1. Len(frames) - 1 \in Nat /\ Len(frames) = (Len(frames) - 1) + 1
      BY TopFacts
    <3> QED
      BY <3>1
  <2>2. Lists(path, KeysUpto(frames, m + 1)) /\ IsSeq(path) /\ ~IsContainer(frames[m + 1])
    BY <1>3, <2>1, TopFacts DEF Inv, Traced, Callers, Top
  <2>3. Lists(path, KeysUpto(frames, m))
    BY <2>2, KeysShrink
  <2> QED
    BY <1>1, <2>1, <2>3
<1> QED
  BY <1>2, <1>3 DEF Calm

(* The frame F in the place of the running one.                            *)
Replaces(F) == /\ IsFrame(F)
               /\ F.fmt = Top.fmt /\ F.strm = Top.strm /\ F.pos0 = Top.pos0

LEMMA ReplacedFacts ==
    ASSUME Inv, NEW F, Replaces(F), frames' = WithTop(F)
    PROVE  /\ IsSeq(frames') /\ Len(frames') = Len(frames) /\ frames'[Len(frames)] = F
           /\ \A i \in 1..(Len(frames) - 1) : frames'[i] = frames[i]
           /\ \A i \in 1..Len(frames) : /\ IsFrame(frames'[i])
                                        /\ frames'[i].strm = frames[i].strm
                                        /\ frames'[i].pos0 = frames[i].pos0
                                        /\ Sizing(frames'[i]) = Sizing(frames[i])
                                        /\ Step(frames'[i]) = Step(frames[i])
                                        /\ IsContainer(frames'[i]) = IsContainer(frames[i])
<1> DEFINE n == Len(frames)
<1>1. n \in Nat /\ n > 0
  BY TopFacts
<1>2. /\ IsSeq(frames') /\ Len(frames') = n /\ frames'[n] = F
      /\ \A i \in 1..(n - 1) : frames'[i] = frames[i]
  <2>1. frames' = [frames EXCEPT ![n] = F] /\ DOMAIN frames = 1..n
    BY DEF WithTop, Inv, Shape, IsSeq
  <2>2. /\ frames' = [i \in 1..n |-> frames'[i]]
        /\ \A i \in 1..n : frames'[i] = IF i = n THEN F ELSE frames[i]
    BY <2>1
  <2>3. IsSeq(frames') /\ Len(frames') = n
    BY <1>1, <2>2, IsSeqIntro
  <2>4. frames'[n] = F
    BY <1>1, <2>2
  <2>5. \A i \in 1..(n - 1) : frames'[i] = frames[i]
    BY <1>1, <2>2
  <2> QED
    BY <2>3, <2>4, <2>5
<1>3. ASSUME NEW i \in 1..n
      PROVE  /\ IsFrame(frames'[i])
             /\ frames'[i].fmt = frames[i].fmt
             /\ frames'[i].strm = frames[i].strm
             /\ frames'[i].pos0 = frames[i].pos0
  <2>1. CASE i = n
    BY <1>2, <2>1 DEF Replaces, Top
  <2>2. CASE i \in 1..(n - 1)
    BY <1>2, <2>2 DEF Inv, Shape
  <2> QED
    BY <1>1, <2>1, <2>2
<1> QED
  BY <1>2, <1>3 DEF Sizing, Step, IsContainer

(* Only the stream of the running frame is written, and that of a Sized    *)
(* only when it is done.                                                   *)
Writes == /\ IsSeq(streams')
          /\ Len(streams') = IF ctl' = "raise" THEN Len(streams) ELSE Top.strm
          /\ \A k \in 1..(Top.strm - 1) : streams'[k] = streams[k]
          /\ Sizing(Top) /\ ctl' # "leave" => streams'[Top.strm] = streams[Top.strm]

(* A frame goes on, returns or raises, without a call.                     *)
LEMMA StayInv ==
    ASSUME Inv, ctl \in {"run", "resume"},
           NEW F, Replaces(F), frames' = WithTop(F),
           IsSeq(parents'), Scoped', IsSeq(path'), Lists(path', KeysUpto(frames, Len(frames) - 1)),
           ctl' \in {"run", "leave", "raise"},
           IF ctl' = "raise" THEN exc' \in Refusals ELSE UNCHANGED exc,
           ctl' = "leave" => ~IsOpenMap(F),
           Writes
    PROVE  Inv'
<1> DEFINE n == Len(frames)
<1>1. /\ n \in Nat /\ n > 0 /\ Top.strm \in 1..Len(streams) /\ Len(streams) \in Nat
      /\ Step(Top) \in {0, 1} /\ Top = frames[n] /\ n \in 1..n
  <2>1. n \in Nat /\ n > 0
    BY TopFacts
  <2>2. n \in 1..n
    BY <2>1
  <2> QED
    BY <2>1, <2>2, TopFacts DEF Top
<1>2. /\ IsSeq(frames') /\ Len(frames') = n /\ frames'[n] = F /\ Top' = F
      /\ \A i \in 1..(n - 1) : frames'[i] = frames[i]
      /\ \A i \in 1..n : /\ IsFrame(frames'[i])
                         /\ frames'[i].strm = frames[i].strm
                         /\ frames'[i].pos0 = frames[i].pos0
                         /\ Sizing(frames'[i]) = Sizing(frames[i])
                         /\ Step(frames'[i]) = Step(frames[i])
  BY ReplacedFacts DEF Top
<1>3. Shape'
  BY <1>1, <1>2 DEF Writes, Shape, Controls
<1>4. exc' # "Recursion"
  <2>1. exc = ""
    BY DEF Inv, Quiet
  <2> QED
    BY <2>1 DEF Refusals
<1>5. Traced'
  <2>1. KeysUpto(frames', n - 1) = KeysUpto(frames, n - 1)
    <3>1. PICK m : m = n - 1
      OBVIOUS
    <3>2. \A i \in 1..m : frames'[i] = frames[i]
      BY <1>2, <3>1
    <3>3. KeysUpto(frames', m) = KeysUpto(frames, m)
      BY <3>2, KeysLocal
    <3> QED
      BY <3>1, <3>3
  <2>2. Callers' = n - 1 /\ ctl' # "done"
    BY <1>2, <1>4 DEF Callers
  <2> QED
    BY <2>1, <2>2 DEF Traced
<1>6. Quiet' /\ Shut'
  BY <1>2 DEF Inv, Quiet, Shut
<1>7. \A i \in 1..(n - 1) : frames[i].strm + Step(frames[i]) <= Top.strm
  BY <1>1 DEF Inv, Climbs
<1>8. \A i \in 1..n : frames[i].strm \in 1..Len(streams) /\ Step(frames[i]) \in {0, 1}
  BY DEF Inv, Levels, Step
<1>9. \A i \in 1..n : frames[i].strm \in 1..Top.strm
  <2> SUFFICES ASSUME NEW i \in 1..n PROVE frames[i].strm \in 1..Top.strm
    OBVIOUS
  <2>1. CASE i = n
    BY <1>1, <1>8, <2>1
  <2>2. CASE i \in 1..(n - 1)
    BY <1>1, <1>7, <1>8, <2>2
  <2> QED
    BY <1>1, <2>1, <2>2
<1>10. Levels'
  <2>1. \A i \in 1..n : frames'[i].strm \in 1..Len(streams')
    BY <1>1, <1>2, <1>8, <1>9 DEF Writes
  <2>2. \A i \in 1..(n - 1) : frames'[i + 1].strm = frames'[i].strm + Step(frames'[i])
    <3> SUFFICES ASSUME NEW i \in 1..(n - 1)
                 PROVE  frames'[i + 1].strm = frames'[i].strm + Step(frames'[i])
      OBVIOUS
    <3>1. i \in 1..n /\ i + 1 \in 1..n
      BY <1>1
    <3> QED
      BY <1>2, <3>1 DEF Inv, Levels
  <2> QED
    BY <1>2, <2>1, <2>2 DEF Levels
<1>11. Climbs'
  <2> SUFFICES ASSUME NEW j \in 1..n, NEW i \in 1..(j - 1)
               PROVE  frames'[i].strm + Step(frames'[i]) <= frames'[j].strm
    BY <1>2 DEF Climbs
  <2>1. i \in 1..n
    BY <1>1
  <2> QED
    BY <1>2, <2>1 DEF Inv, Climbs
<1>12. Buffered'
  <2>1. Top'.strm = Top.strm
    BY <1>1, <1>2
  <2> QED
    BY <2>1 DEF Buffered, Writes
<1>13. Unwritten'
  <2> SUFFICES ASSUME NEW i \in 1..n, Sizing(frames[i]), i < n \/ ctl' \in {"run", "resume", "raise"}
               PROVE  streams'[frames[i].strm].pos = frames[i].pos0
    BY <1>2 DEF Unwritten
  <2>1. streams[frames[i].strm].pos = frames[i].pos0
    BY DEF Inv, Unwritten
  <2>2. CASE i = n
    BY <1>1, <2>1, <2>2 DEF Writes
  <2>3. CASE i # n
    <3>1. i \in 1..(n - 1) /\ Step(frames[i]) = 1
      BY <1>1, <2>3 DEF Step
    <3>2. frames[i].strm \in 1..(Top.strm - 1)
      BY <1>1, <1>7, <1>8, <3>1
    <3> QED
      BY <2>1, <3>2 DEF Writes
  <2> QED
    BY <2>2, <2>3
<1> QED
  BY <1>3, <1>5, <1>6, <1>10, <1>11, <1>12, <1>13 DEF Inv

(* Mappings are entered and left in two places; elsewhere the frame counts *)
(* for the same mapping, or none.                                          *)
SameScope(F) == F.obj = Top.obj /\ IsOpenMap(F) = IsOpenMap(Top)

LEMMA ScopesKept ==
    ASSUME Inv, NEW F, SameScope(F), NEW stack,
           stack[Len(frames)] = F, \A i \in 1..(Len(frames) - 1) : stack[i] = frames[i]
    PROVE  Lists(parents, ScopesOf("obj", MapV(<<>>), stack, Len(frames)))
<1>1. \A i \in 1..Len(frames) : /\ IsOpenMap(stack[i]) = IsOpenMap(frames[i])
                                /\ stack[i]["obj"] = frames[i]["obj"]
  <2> SUFFICES ASSUME NEW i \in 1..Len(frames)
               PROVE  IsOpenMap(stack[i]) = IsOpenMap(frames[i]) /\ stack[i]["obj"] = frames[i]["obj"]
    OBVIOUS
  <2>1. Len(frames) \in Nat
    BY TopFacts
  <2>2. CASE i = Len(frames)
    BY <2>2 DEF SameScope, Top
  <2>3. CASE i \in 1..(Len(frames) - 1)
    BY <2>3
  <2> QED
    BY <2>1, <2>2, <2>3
<1>2. ScopesOf("obj", MapV(<<>>), stack, Len(frames)) = ScopesOf("obj", MapV(<<>>), frames, Len(frames))
  BY <1>1, ScopesLocal
<1> QED
  BY <1>2 DEF Inv, Scoped

(* A frame calls another, or meets the recursion limit.                    *)
LEMMA CallInv ==
    ASSUME Inv, Calm,
           NEW F, Replaces(F), SameScope(F),
           NEW f, NEW obj, NEW s, NEW newStreams, NEW newPath,
           Call(F, f, obj, s, newStreams, newPath),
           newPath = IF IsContainer(F) THEN Append(path, F.item) ELSE path,
           IsSeq(newStreams), Len(newStreams) = s, s = Top.strm + Step(Top),
           \A k \in 1..(Top.strm - 1) : newStreams[k] = streams[k],
           Sizing(Top) => newStreams[Top.strm] = streams[Top.strm]
    PROVE  Inv'
<1> DEFINE n == Len(frames)
           G == NewFrame(f, obj, s, newStreams[s].pos)
<1>1. /\ n \in Nat /\ n > 0 /\ Top.strm \in 1..Len(streams) /\ Len(streams) \in Nat
      /\ Step(Top) \in {0, 1} /\ Top = frames[n] /\ n \in 1..n /\ IsSeq(frames)
  <2>1. n \in Nat /\ n > 0
    BY TopFacts
  <2>2. n \in 1..n
    BY <2>1
  <2> QED
    BY <2>1, <2>2, TopFacts DEF Top, Inv, Shape
<1>2. PICK middle : middle = WithTop(F)
  OBVIOUS
<1>3. /\ IsSeq(middle) /\ Len(middle) = n /\ middle[n] = F
      /\ \A i \in 1..(n - 1) : middle[i] = frames[i]
  <2>1. middle = [frames EXCEPT ![n] = F] /\ DOMAIN frames = 1..n
    BY <1>1, <1>2 DEF WithTop, IsSeq
  <2>2. /\ middle = [i \in 1..n |-> middle[i]]
        /\ \A i \in 1..n : middle[i] = IF i = n THEN F ELSE frames[i]
    BY <2>1
  <2>3. IsSeq(middle) /\ Len(middle) = n
    BY <1>1, <2>2, IsSeqIntro
  <2>4. middle[n] = F
    BY <1>1, <2>2
  <2>5. \A i \in 1..(n - 1) : middle[i] = frames[i]
    BY <1>1, <2>2
  <2> QED
    BY <2>3, <2>4, <2>5
<1>4. /\ streams' = newStreams /\ path' = newPath /\ UNCHANGED parents
      /\ \/ /\ frames' = middle /\ ctl' = "raise" /\ exc' = "Recursion"
         \/ /\ frames' = Append(middle, G) /\ ctl' = "run" /\ exc' = exc
  BY <1>2 DEF Call
<1>5. IsFrame(G) /\ ~IsOpenMap(G) /\ G.strm = s /\ G.pos0 = newStreams[s].pos
  BY DEF NewFrame, IsFrame, FrameFields, IsOpenMap
<1> HIDE DEF G
<1>6. PICK N \in {n, n + 1} :
         /\ IsSeq(frames') /\ Len(frames') = N
         /\ frames'[n] = F /\ \A i \in 1..(n - 1) : frames'[i] = frames[i]
         /\ N = n + 1 => frames'[n + 1] = G /\ ctl' = "run" /\ exc' = exc /\ Top' = G
         /\ N = n => ctl' = "raise" /\ exc' = "Recursion" /\ Top' = F
  <2>1. CASE frames' = middle /\ ctl' = "raise" /\ exc' = "Recursion"
    BY <1>1, <1>3, <2>1 DEF Top
  <2>2. CASE frames' = Append(middle, G) /\ ctl' = "run" /\ exc' = exc
    <3>1. /\ IsSeq(frames') /\ Len(frames') = n + 1 /\ frames'[n + 1] = G
          /\ \A i \in 1..n : frames'[i] = middle[i]
      BY <1>3, <2>2, AppendSeq
    <3>2. frames'[n] = F /\ \A i \in 1..(n - 1) : frames'[i] = frames[i]
      BY <1>1, <1>3, <3>1
    <3> QED
      BY <1>1, <2>2, <3>1, <3>2 DEF Top
  <2> QED
    BY <1>4, <2>1, <2>2
<1>7. \A i \in 1..n : /\ IsFrame(frames'[i])
                      /\ frames'[i].strm = frames[i].strm
                      /\ frames'[i].pos0 = frames[i].pos0
                      /\ Sizing(frames'[i]) = Sizing(frames[i])
                      /\ Step(frames'[i]) = Step(frames[i])
  <2> SUFFICES ASSUME NEW i \in 1..n
               PROVE  /\ IsFrame(frames'[i])
                      /\ frames'[i].strm = frames[i].strm
                      /\ frames'[i].pos0 = frames[i].pos0
                      /\ frames'[i].fmt = frames[i].fmt
    BY DEF Sizing, Step
  <2>1. CASE i = n
    BY <1>1, <1>6, <2>1 DEF Replaces
  <2>2. CASE i \in 1..(n - 1)
    BY <1>6, <2>2 DEF Inv, Shape
  <2> QED
    BY <1>1, <2>1, <2>2
<1>8. IsSeq(path') /\ Lists(path', KeysUpto(frames', n))
  <2>1. PICK m \in Nat : n = m + 1 /\ n - 1 = m
    <3>1. n - 1 \in Nat /\ n = (n - 1) + 1
      BY <1>1
    <3> QED
      BY <3>1
  <2>2. IsSeq(path) /\ Lists(path, KeysUpto(frames, m))
    BY <2>1, PathBelow, TopFacts
  <2>3. KeysUpto(frames', m) = KeysUpto(frames, m)
    <3>1. \A i \in 1..m : frames'[i] = frames[i]
      BY <1>6, <2>1
    <3> QED
      BY <3>1, KeysLocal
  <2>4. frames'[m + 1] = F
    BY <1>6, <2>1
  <2>5. path' = IF IsContainer(F) THEN Append(path, F.item) ELSE path
    BY <1>4
  <2>6. Lists(path, KeysUpto(frames', m))
    BY <2>2, <2>3
  <2>7. Lists(IF IsContainer(frames'[m + 1]) THEN Append(path, frames'[m + 1].item) ELSE path,
              KeysUpto(frames', m + 1))
    BY <2>2, <2>6, KeysGrow
  <2>8. Lists(path', KeysUpto(frames', m + 1))
    BY <2>4, <2>5, <2>7
  <2> QED
    BY <2>1, <2>2, <2>5, <2>8, AppendSeq
<1>9. Scoped'
  <2>1. Lists(parents, ScopesOf("obj", MapV(<<>>), frames', n))
    BY <1>6, ScopesKept
  <2>2. CASE Len(frames') = n
    BY <1>4, <2>1, <2>2 DEF Scoped
  <2>3. CASE Len(frames') = n + 1
    <3>1. IsSeq(parents) /\ ~IsOpenMap(frames'[n + 1])
      BY <1>1, <1>5, <1>6, <2>3, TopFacts
    <3>2. Lists(parents, ScopesOf("obj", MapV(<<>>), frames', n + 1))
      BY <1>1, <2>1, <3>1, ScopesGrow
    <3> QED
      BY <1>4, <2>3, <3>2 DEF Scoped
  <2> QED
    BY <1>6, <2>2, <2>3
<1>10. Traced' /\ Quiet' /\ Shut'
  <2>1. exc = ""
    BY PathBelow
  <2>2. Callers' = n /\ ctl' \in {"run", "raise"}
    <3>1. CASE N = n
      BY <1>6, <3>1 DEF Callers
    <3>2. CASE N = n + 1
      <4>1. Len(frames') - 1 = n /\ ctl' = "run" /\ exc' = ""
        <5>1. (n + 1) - 1 = n
          BY <1>1
        <5>2. Len(frames') = n + 1 /\ ctl' = "run" /\ exc' = exc
          BY <1>6, <3>2
        <5> QED
          BY <2>1, <5>1, <5>2
      <4>2. ctl' # "resume" /\ exc' # "Recursion"
        BY <4>1
      <4> QED
        BY <4>1, <4>2 DEF Callers
    <3> QED
      BY <3>1, <3>2
  <2> QED
    BY <1>1, <1>6, <1>8, <2>1, <2>2 DEF Traced, Quiet, Shut
<1>11. Shape'
  <2>1. \A i \in 1..N : IsFrame(frames'[i])
    BY <1>1, <1>5, <1>6, <1>7
  <2> QED
    BY <1>1, <1>4, <1>6, <1>8, <2>1, TopFacts DEF Shape, Controls
<1>12. \A i \in 1..(n - 1) : frames[i].strm + Step(frames[i]) <= Top.strm
  BY <1>1 DEF Inv, Climbs
<1>13. \A i \in 1..n : frames[i].strm \in 1..Len(streams) /\ Step(frames[i]) \in {0, 1}
  BY DEF Inv, Levels, Step
<1>14. \A i \in 1..n : /\ frames[i].strm + Step(frames[i]) <= s
                       /\ frames[i].strm \in 1..s
  <2> SUFFICES ASSUME NEW i \in 1..n PROVE frames[i].strm + Step(frames[i]) <= s
    BY <1>1, <1>13
  <2>1. CASE i = n
    BY <1>1, <2>1
  <2>2. CASE i \in 1..(n - 1)
    BY <1>1, <1>12, <1>13, <2>2
  <2> QED
    BY <1>1, <2>1, <2>2
<1>15. Levels'
  <2>1. \A i \in 1..n : frames'[i].strm \in 1..Len(streams')
    BY <1>4, <1>7, <1>14
  <2>2. s \in 1..Len(streams')
    BY <1>1, <1>4
  <2>3. \A i \in 1..(n - 1) : frames'[i + 1].strm = frames'[i].strm + Step(frames'[i])
    <3> SUFFICES ASSUME NEW i \in 1..(n - 1)
                 PROVE  frames'[i + 1].strm = frames'[i].strm + Step(frames'[i])
      OBVIOUS
    <3>1. i \in 1..n /\ i + 1 \in 1..n
      BY <1>1
    <3> QED
      BY <1>7, <3>1 DEF Inv, Levels
  <2>4. G.strm = frames'[n].strm + Step(frames'[n])
    BY <1>1, <1>5, <1>7
  <2> QED
    BY <1>1, <1>5, <1>6, <2>1, <2>2, <2>3, <2>4 DEF Levels
<1>16. Climbs'
  <2> SUFFICES ASSUME NEW j \in 1..N, NEW i \in 1..(j - 1)
               PROVE  frames'[i].strm + Step(frames'[i]) <= frames'[j].strm
    BY <1>6 DEF Climbs
  <2>1. CASE j \in 1..n
    <3>1. i \in 1..n
      BY <1>1, <2>1
    <3> QED
      BY <1>7, <2>1, <3>1 DEF Inv, Climbs
  <2>2. CASE j = n + 1
    BY <1>1, <1>5, <1>6, <1>7, <1>14, <2>2
  <2> QED
    BY <1>1, <1>6, <2>1, <2>2
<1>17. Buffered'
  BY <1>1, <1>4, <1>5, <1>6 DEF Buffered
<1>18. Unwritten'
  <2>1. ASSUME NEW i \in 1..n, Sizing(frames[i]) PROVE streams'[frames[i].strm].pos = frames[i].pos0
    <3>1. streams[frames[i].strm].pos = frames[i].pos0
      <4>1. i < n \/ ctl \in {"run", "resume", "raise"}
        BY DEF Calm
      <4> QED
        BY <2>1, <4>1 DEF Inv, Unwritten
    <3>2. CASE i = n
      BY <1>1, <1>4, <2>1, <3>1, <3>2
    <3>3. CASE i # n
      <4>1. i \in 1..(n - 1) /\ Step(frames[i]) = 1
        BY <1>1, <2>1, <3>3 DEF Step
      <4>2. frames[i].strm \in 1..(Top.strm - 1)
        BY <1>1, <1>12, <1>13, <4>1
      <4> QED
        BY <1>4, <3>1, <4>2
    <3> QED
      BY <3>2, <3>3
  <2>2. ASSUME N = n + 1 PROVE streams'[G.strm].pos = G.pos0
    BY <1>4, <1>5
  <2> SUFFICES ASSUME NEW i \in 1..N, Sizing(frames'[i])
               PROVE  streams'[frames'[i].strm].pos = frames'[i].pos0
    BY <1>6 DEF Unwritten
  <2>3. CASE i \in 1..n
    BY <1>7, <2>1, <2>3
  <2>4. CASE i = n + 1
    BY <1>1, <1>6, <2>2, <2>4
  <2> QED
    BY <1>1, <1>6, <2>3, <2>4
<1> QED
  BY <1>9, <1>10, <1>11, <1>15, <1>16, <1>17, <1>18 DEF Inv

(* A frame is left for the one that called it.                             *)
LEMMA LeaveInv == ASSUME Inv, Leave PROVE Inv'
<1> DEFINE n == Len(frames)
<1>1. /\ n \in Nat /\ n > 1 /\ IsSeq(frames) /\ IsSeq(streams) /\ Len(streams) \in Nat
      /\ ctl = "leave" /\ ctl' = "resume" /\ UNCHANGED <<exc, streams, parents, path>>
  BY TopFacts DEF Leave, context, Inv, Shape
<1>2. PICK m \in Nat : n = m + 1 /\ n - 1 = m
  <2>1. n - 1 \in Nat /\ n = (n - 1) + 1
    BY <1>1
  <2> QED
    BY <2>1
<1>3. PICK below : below = Under(frames)
  OBVIOUS
<1>4. /\ IsSeq(below) /\ Len(below) = m /\ m > 0
      /\ \A i \in 1..m : below[i] = frames[i]
  BY <1>1, <1>2, <1>3, UnderSeq
<1>5. \/ frames' = below
      \/ frames' = [below EXCEPT ![m].kids = Append(@, NodeOf(Top))]
  BY <1>3, <1>4 DEF Leave
<1>6. /\ IsSeq(frames') /\ Len(frames') = m
      /\ \A i \in 1..m : /\ IsFrame(frames'[i])
                         /\ frames'[i].fmt = frames[i].fmt
                         /\ frames'[i].at = frames[i].at
                         /\ frames'[i].obj = frames[i].obj
                         /\ frames'[i].item = frames[i].item
                         /\ frames'[i].strm = frames[i].strm
                         /\ frames'[i].pos0 = frames[i].pos0
  <2>1. \A i \in 1..m : IsFrame(below[i])
    BY <1>2, <1>4 DEF Inv, Shape
  <2>2. CASE frames' = below
    BY <1>4, <2>1, <2>2
  <2>3. CASE frames' = [below EXCEPT ![m].kids = Append(@, NodeOf(Top))]
    <3>1. PICK kids : frames' = [below EXCEPT ![m] = [below[m] EXCEPT !.kids = kids]]
      BY <2>3
    <3>2. PICK F : F = [below[m] EXCEPT !.kids = kids]
      OBVIOUS
    <3>3. DOMAIN below = 1..m /\ m \in 1..m
      BY <1>4 DEF IsSeq
    <3>4. /\ IsFrame(F) /\ F.fmt = below[m].fmt /\ F.at = below[m].at /\ F.obj = below[m].obj
          /\ F.item = below[m].item /\ F.strm = below[m].strm /\ F.pos0 = below[m].pos0
      BY <2>1, <3>2, <3>3 DEF IsFrame, FrameFields
    <3>5. /\ frames' = [i \in 1..m |-> frames'[i]]
          /\ \A i \in 1..m : frames'[i] = IF i = m THEN F ELSE below[i]
      BY <3>1, <3>2, <3>3
    <3>6. IsSeq(frames') /\ Len(frames') = m
      BY <3>5, IsSeqIntro
    <3>7. ASSUME NEW i \in 1..m
          PROVE  /\ IsFrame(frames'[i])
                 /\ frames'[i].fmt = frames[i].fmt
                 /\ frames'[i].at = frames[i].at
                 /\ frames'[i].obj = frames[i].obj
                 /\ frames'[i].item = frames[i].item
                 /\ frames'[i].strm = frames[i].strm
                 /\ frames'[i].pos0 = frames[i].pos0
      <4>1. CASE i = m
        BY <1>4, <3>4, <3>5, <4>1
      <4>2. CASE i # m
        BY <1>4, <2>1, <3>5, <4>2
      <4> QED
        BY <4>1, <4>2
    <3> QED
      BY <3>6, <3>7
  <2> QED
    BY <1>5, <2>2, <2>3
<1>7. \A i \in 1..m : /\ i \in 1..n /\ i < n
                      /\ Sizing(frames'[i]) = Sizing(frames[i])
                      /\ Step(frames'[i]) = Step(frames[i])
  BY <1>2, <1>6 DEF Sizing, Step
<1>8. Shape'
  BY <1>1, <1>4, <1>6 DEF Inv, Shape, Controls
<1>9. Scoped'
  <2>1. ~IsOpenMap(frames[m + 1])
    BY <1>1, <1>2 DEF Inv, Shut, Top
  <2>2. Lists(parents, ScopesOf("obj", MapV(<<>>), frames, m + 1)) /\ IsSeq(parents)
    BY <1>2 DEF Inv, Scoped, Shape
  <2>3. Lists(parents, ScopesOf("obj", MapV(<<>>), frames, m))
    BY <2>1, <2>2, ScopesShrink
  <2>4. \A i \in 1..m : IsOpenMap(frames'[i]) = IsOpenMap(frames[i]) /\ frames'[i]["obj"] = frames[i]["obj"]
    BY <1>6 DEF IsOpenMap
  <2>5. ScopesOf("obj", MapV(<<>>), frames', m) = ScopesOf("obj", MapV(<<>>), frames, m)
    BY <2>4, ScopesLocal
  <2> QED
    BY <1>1, <1>6, <2>3, <2>5 DEF Scoped
<1>10. Traced' /\ Quiet' /\ Shut'
  <2>1. exc = "" /\ Lists(path, KeysUpto(frames, m))
    <3>1. exc = ""
      BY <1>1 DEF Inv, Quiet
    <3> QED
      BY <1>1, <1>2, <3>1 DEF Inv, Traced, Callers
  <2>2. \A i \in 1..m : IsContainer(frames'[i]) = IsContainer(frames[i]) /\ frames'[i].item = frames[i].item
    BY <1>6 DEF IsContainer
  <2>3. KeysUpto(frames', m) = KeysUpto(frames, m)
    BY <2>2, KeysLocal
  <2>4. Callers' = m
    BY <1>1, <1>6 DEF Callers
  <2> QED
    BY <1>1, <2>1, <2>3, <2>4 DEF Traced, Quiet, Shut
<1>11. Levels'
  <2>1. \A i \in 1..(m - 1) : i \in 1..m /\ i + 1 \in 1..m /\ i \in 1..(n - 1)
    BY <1>2
  <2>2. \A i \in 1..(m - 1) : frames'[i + 1].strm = frames'[i].strm + Step(frames'[i])
    BY <1>6, <1>7, <2>1 DEF Inv, Levels
  <2>3. \A i \in 1..m : frames'[i].strm \in 1..Len(streams')
    BY <1>1, <1>6, <1>7 DEF Inv, Levels
  <2> QED
    BY <1>6, <2>2, <2>3 DEF Levels
<1>12. Climbs'
  <2> SUFFICES ASSUME NEW j \in 1..m, NEW i \in 1..(j - 1)
               PROVE  frames'[i].strm + Step(frames'[i]) <= frames'[j].strm
    BY <1>6 DEF Climbs
  <2>1. i \in 1..m
    BY <1>2
  <2> QED
    BY <1>6, <1>7, <2>1 DEF Inv, Climbs
<1>13. Buffered'
  <2>1. m \in 1..m /\ m \in 1..(n - 1) /\ Top' = frames'[m]
    BY <1>2, <1>4, <1>6 DEF Top
  <2>2. frames[m + 1].strm = frames[m].strm + Step(frames[m])
    BY <2>1 DEF Inv, Levels
  <2>3. Len(streams) = frames[m + 1].strm
    BY <1>1, <1>2 DEF Inv, Buffered, Top
  <2> QED
    BY <1>1, <1>6, <1>7, <2>1, <2>2, <2>3 DEF Buffered
<1>14. Unwritten'
  BY <1>1, <1>6, <1>7 DEF Inv, Unwritten
<1> QED
  BY <1>8, <1>9, <1>10, <1>11, <1>12, <1>13, <1>14 DEF Inv

(* The call has ended.                                                     *)
LEMMA DoneInv ==
    ASSUME Inv, UNCHANGED <<frames, exc, streams, parents, path>>, ctl' = "done",
           \/ ctl = "leave"
           \/ ctl = "raise" /\ err'.path = path
    PROVE  Inv'
<1>1. Shape' /\ Scoped' /\ Levels' /\ Climbs'
  BY DEF Inv, Shape, Scoped, Levels, Climbs, Controls
<1>2. Quiet' /\ Shut' /\ Buffered'
  BY DEF Quiet, Shut, Buffered
<1>3. Traced'
  <2>1. ctl = "leave" => exc = ""
    BY DEF Inv, Quiet
  <2>2. ctl = "raise" => Lists(path, KeysUpto(frames, Callers)) /\ Callers' = Callers
    BY DEF Inv, Traced, Callers
  <2> QED
    BY <2>1, <2>2 DEF Traced
<1>4. Unwritten'
  BY DEF Inv, Unwritten
<1> QED
  BY <1>1, <1>2, <1>3, <1>4 DEF Inv

LEMMA InitInv == ASSUME Init PROVE Inv
<1> DEFINE G == NewFrame(call.fmt, call.obj, 1, 0)
<1>1. PICK seekable : streams = <<Stream(seekable)>>
  BY DEF Init
<1>2. /\ frames = <<G>> /\ parents = <<MapV(<<>>)>> /\ path = <<>> /\ ctl = "run" /\ exc = ""
  BY DEF Init
<1>3. IsFrame(G) /\ ~IsOpenMap(G) /\ G.strm = 1 /\ G.pos0 = 0
  BY DEF NewFrame, IsFrame, FrameFields, IsOpenMap
<1> HIDE DEF G
<1>4. IsSeq(frames) /\ Len(frames) = 1 /\ frames[1] = G
  BY <1>2, ShortSeqs
<1>5. IsSeq(streams) /\ Len(streams) = 1 /\ streams[1].pos = 0
  <2>1. IsSeq(streams) /\ Len(streams) = 1 /\ streams[1] = Stream(seekable)
    BY <1>1, ShortSeqs
  <2> QED
    BY <2>1 DEF Stream
<1>6. IsSeq(parents) /\ IsSeq(path) /\ Top = G
  BY <1>2, <1>4, ShortSeqs DEF Top
<1>7. \A i \in 1..Len(frames) : i = 1 /\ frames[i] = G
  BY <1>4
<1>8. Shape
  <2>1. Len(frames) > 0 /\ ctl \in Controls
    <3>1. ctl \in Controls
      BY <1>2 DEF Controls
    <3> QED
      BY <1>4, <3>1
  <2>2. \A i \in 1..Len(frames) : IsFrame(frames[i])
    BY <1>3, <1>7
  <2> QED
    BY <1>4, <1>5, <1>6, <2>1, <2>2 DEF Shape
<1>9. Lists(parents, ScopesOf("obj", MapV(<<>>), frames, 0)) /\ Lists(path, KeysUpto(frames, 0))
  BY <1>2, EmptyStack
<1>10. Scoped
  <2>1. ~IsOpenMap(frames[0 + 1]) /\ 0 \in Nat /\ 0 + 1 = 1
    BY <1>3, <1>4
  <2>2. Lists(parents, ScopesOf("obj", MapV(<<>>), frames, 0 + 1))
    BY <1>6, <1>9, <2>1, ScopesGrow
  <2> QED
    BY <1>4, <2>1, <2>2 DEF Scoped
<1>11. Traced
  <2>1. Len(frames) - 1 = 0 /\ ctl = "run" /\ exc = ""
    <3>1. Len(frames) - 1 = 0
      BY <1>4
    <3> QED
      BY <1>2, <3>1
  <2>2. ctl # "resume" /\ exc # "Recursion"
    BY <2>1
  <2>3. Callers = 0
    BY <2>1, <2>2 DEF Callers
  <2> QED
    BY <1>2, <1>9, <2>3 DEF Traced
<1>12. Quiet /\ Shut /\ Buffered
  BY <1>2, <1>3, <1>5, <1>6 DEF Quiet, Shut, Buffered
<1>13. Levels /\ Climbs /\ Unwritten
  <2>1. Levels
    BY <1>3, <1>4, <1>5, <1>7 DEF Levels
  <2>2. Climbs
    BY <1>4 DEF Climbs
  <2>3. Unwritten
    BY <1>3, <1>4, <1>5, <1>7 DEF Unwritten
  <2> QED
    BY <2>1, <2>2, <2>3
<1> QED
  BY <1>8, <1>10, <1>11, <1>12, <1>13 DEF Inv

-----------------------------------------------------------------------------
(* What the actions do, in these terms.  A frame with other counters and,  *)
(* unless it is a mapping, another place to stand.                         *)
Updates(F) == /\ DOMAIN F = FrameFields
              /\ F.fmt = Top.fmt /\ F.strm = Top.strm /\ F.pos0 = Top.pos0 /\ F.obj = Top.obj
              /\ TopNode.kind = "map" => F.at = Top.at

LEMMA UpdatesReplace == ASSUME Inv, NEW F, Updates(F) PROVE Replaces(F) /\ SameScope(F)
  BY DEF Updates, Replaces, SameScope, IsFrame, IsOpenMap, TopNode

LEMMA TopUpdates == ASSUME Inv PROVE Updates(Top)
  BY TopFacts DEF Updates, IsFrame

LEMMA FieldsUpdate ==
    ASSUME Inv, NEW v, NEW w
    PROVE  /\ Updates([Top EXCEPT !.raw = v])
           /\ Updates([Top EXCEPT !.kids = v])
           /\ Updates([Top EXCEPT !.idx = v, !.item = w])
           /\ TopNode.kind # "map" => /\ Updates([Top EXCEPT !.at = v])
                                      /\ Updates([[Top EXCEPT !.saved = w] EXCEPT !.at = v])
<1>1. DOMAIN Top = FrameFields
  BY TopFacts DEF IsFrame
<1> QED
  BY <1>1 DEF Updates, FrameFields

(* A frame whose stream is the last one.                                   *)
AtEnd == Calm /\ Len(streams) = Top.strm

LEMMA EndOfRun == ASSUME Inv, ctl = "run" PROVE AtEnd
  BY DEF AtEnd, Calm, Inv, Buffered

LEMMA EndOfResume == ASSUME Inv, ctl = "resume", ~IsContainer(Top), ~Sizing(Top) PROVE AtEnd
<1>1. Len(streams) = Top.strm + Step(Top) /\ Step(Top) = 0 /\ Top.strm \in 1..Len(streams)
  BY TopFacts DEF Inv, Buffered, Step
<1>2. Len(streams) \in Nat
  BY TopFacts
<1> QED
  BY <1>1, <1>2 DEF AtEnd, Calm

LEMMA ScopedStays ==
    ASSUME Inv, NEW F, Replaces(F), SameScope(F), frames' = WithTop(F), UNCHANGED parents
    PROVE  Scoped'
<1>1. /\ Len(frames') = Len(frames) /\ frames'[Len(frames)] = F
      /\ \A i \in 1..(Len(frames) - 1) : frames'[i] = frames[i]
  BY ReplacedFacts
<1>2. Lists(parents, ScopesOf("obj", MapV(<<>>), frames', Len(frames)))
  BY <1>1, ScopesKept
<1> QED
  BY <1>1, <1>2 DEF Scoped

(* Of the streams, its own is another.                                     *)
LEMMA OneStream ==
    ASSUME Inv, NEW new, new = streams \/ \E w : new = [streams EXCEPT ![Top.strm] = w]
    PROVE  /\ IsSeq(new) /\ Len(new) = Len(streams)
           /\ \A k \in 1..(Top.strm - 1) : new[k] = streams[k]
<1>1. CASE new = streams
  BY <1>1, TopFacts
<1>2. CASE \E w : new = [streams EXCEPT ![Top.strm] = w]
  <2>1. PICK w : new = [streams EXCEPT ![Top.strm] = w]
    BY <1>2
  <2>2. DOMAIN streams = 1..Len(streams) /\ Len(streams) \in Nat /\ Top.strm \in 1..Len(streams)
    BY TopFacts DEF IsSeq
  <2>3. new = [k \in 1..Len(streams) |-> new[k]]
    BY <2>1, <2>2
  <2>4. IsSeq(new) /\ Len(new) = Len(streams)
    BY <2>2, <2>3, IsSeqIntro
  <2>5. \A k \in 1..(Top.strm - 1) : new[k] = streams[k]
    BY <2>1, <2>2
  <2> QED
    BY <2>4, <2>5
<1> QED
  BY <1>1, <1>2

(* It writes something, or nothing, and returns or goes on.                *)
LEMMA PutInv ==
    ASSUME Inv, AtEnd, NEW F, Updates(F), frames' = WithTop(F),
           \/ ctl' = "leave" /\ TopNode.kind # "map"
           \/ ctl' = "run" /\ ~Sizing(Top),
           UNCHANGED <<exc, parents, path>>,
           \/ UNCHANGED streams
           \/ \E w : streams' = [streams EXCEPT ![Top.strm] = w]
    PROVE  Inv'
<1>1. Replaces(F) /\ SameScope(F) /\ ctl \in {"run", "resume"}
  BY UpdatesReplace DEF AtEnd, Calm
<1>2. Scoped' /\ IsSeq(parents') /\ IsSeq(path') /\ Lists(path', KeysUpto(frames, Len(frames) - 1))
  BY <1>1, ScopedStays, PathBelow, TopFacts DEF AtEnd
<1>3. ctl' = "leave" => ~IsOpenMap(F)
  BY DEF Updates, IsOpenMap, TopNode
<1>4. IsSeq(streams') /\ Len(streams') = Len(streams)
      /\ \A k \in 1..(Top.strm - 1) : streams'[k] = streams[k]
  BY OneStream
<1>5. Writes
  BY <1>4 DEF Writes, AtEnd
<1> QED
  BY <1>1, <1>2, <1>3, <1>5, StayInv

LEMMA RaiseInv ==
    ASSUME Inv, Calm, NEW e \in Refusals, Raise(e), UNCHANGED <<streams, parents, path>>
    PROVE  Inv'
<1>1. /\ Replaces(Top) /\ SameScope(Top) /\ ctl \in {"run", "resume"} /\ frames' = WithTop(Top)
      /\ ctl' = "raise" /\ exc' \in Refusals
  BY TopUpdates, UpdatesReplace, TopFacts DEF Calm, Raise
<1>2. Scoped' /\ IsSeq(parents') /\ IsSeq(path') /\ Lists(path', KeysUpto(frames, Len(frames) - 1))
  BY <1>1, ScopedStays, PathBelow, TopFacts
<1>3. Writes
  BY <1>1, TopFacts DEF Writes
<1> QED
  BY <1>1, <1>2, <1>3, StayInv

(* A wrapper that calls passes its path and its stream on.                 *)
LEMMA WrapInv ==
    ASSUME Inv, Calm, ~IsContainer(Top), ~Sizing(Top), NEW F, Updates(F), NEW f, NEW obj, NEW newStreams,
           Call(F, f, obj, Top.strm, newStreams, path),
           \/ newStreams = streams
           \/ \E w : newStreams = [streams EXCEPT ![Top.strm] = w]
    PROVE  Inv'
<1>1. Replaces(F) /\ SameScope(F) /\ ~IsContainer(F)
  BY UpdatesReplace DEF Updates, IsContainer
<1>2. Len(streams) = Top.strm /\ Step(Top) = 0 /\ Top.strm = Top.strm + Step(Top)
  <2>1. AtEnd
    BY EndOfRun, EndOfResume DEF Calm
  <2>2. Top.strm + 0 = Top.strm
    BY TopFacts
  <2> QED
    BY <2>1, <2>2 DEF AtEnd, Step
<1>3. IsSeq(newStreams) /\ Len(newStreams) = Top.strm
      /\ \A k \in 1..(Top.strm - 1) : newStreams[k] = streams[k]
  BY <1>2, OneStream
<1> QED
  BY <1>1, <1>2, <1>3, CallInv

(* A container puts the key of a field or an item on the path.             *)
LEMMA ItemInv ==
    ASSUME Inv, ctl = "run", IsContainer(Top), NEW i, NEW key, NEW f, NEW obj,
           Call([Top EXCEPT !.idx = i, !.item = key], f, obj, Top.strm, streams, Append(path, key))
    PROVE  Inv'
<1> DEFINE F == [Top EXCEPT !.idx = i, !.item = key]
<1>1. Updates(F) /\ F.item = key /\ IsContainer(F)
  BY FieldsUpdate, TopFacts DEF IsFrame, FrameFields, IsContainer
<1>2. Replaces(F) /\ SameScope(F)
  BY <1>1, UpdatesReplace
<1>3. ~Sizing(Top) /\ Step(Top) = 0
  BY DEF IsContainer, Sizing, Step
<1>4. Len(streams) = Top.strm /\ IsSeq(streams) /\ Top.strm = Top.strm + Step(Top) /\ Calm
  <2>1. Top.strm + 0 = Top.strm
    BY TopFacts
  <2> QED
    BY <1>3, <2>1, EndOfRun, TopFacts DEF AtEnd
<1>5. Call(F, f, obj, Top.strm, streams, Append(path, key))
  OBVIOUS
<1>6. Append(path, key) = IF IsContainer(F) THEN Append(path, F.item) ELSE path
  BY <1>1
<1> HIDE DEF F
<1> QED
  BY <1>2, <1>3, <1>4, <1>5, <1>6, CallInv

-----------------------------------------------------------------------------
(* Every step keeps the invariant.                                         *)
LEMMA StepInv == ASSUME Inv, Next PROVE Inv'
<1>1. ctl = "run" => Calm /\ AtEnd
  BY EndOfRun DEF Calm
<1>2. ASSUME AtEnd, TopNode.kind # "map", NEW r, Decided(r), Emit(r), UNCHANGED <<parents, path>>
      PROVE  Inv'
  <2>1. CASE r.ok
    <3>1. PICK F : F = [Top EXCEPT !.raw = r.val]
      OBVIOUS
    <3>2. Updates(F) /\ frames' = WithTop(F) /\ ctl' = "leave" /\ UNCHANGED exc
      BY <1>2, <2>1, <3>1, FieldsUpdate DEF Emit, Return
    <3>3. \E w : streams' = [streams EXCEPT ![Top.strm] = w]
      BY <1>2, <2>1 DEF Emit
    <3> QED
      BY <1>2, <3>2, <3>3, PutInv
  <2>2. CASE ~r.ok
    BY <1>2, <2>2, RaiseInv DEF Emit, Decided, AtEnd
  <2> QED
    BY <2>1, <2>2
<1>3. ASSUME EncodeLeaf PROVE Inv'
  <2>1. /\ AtEnd /\ TopNode.kind # "map" /\ UNCHANGED <<parents, path>>
        /\ Emit(LeafWrite(TopNode, Top.obj))
    BY <1>1, <1>3 DEF EncodeLeaf, context, LeafKinds
  <2> QED
    BY <1>2, <2>1, LeafDecided
<1>4. ASSUME MapEnter PROVE Inv'
  <2> DEFINE obj == Prefilled(TopNode, Top.obj)
  <2>1. PICK F : F = [Top EXCEPT !.at = "loop", !.obj = obj]
    OBVIOUS
  <2>2. /\ ctl = "run" /\ ctl' = "run" /\ TopNode.kind = "map" /\ Top.at = "enter"
        /\ parents' = Append(parents, obj) /\ frames' = WithTop(F) /\ UNCHANGED <<exc, streams, path>>
    BY <1>4, <2>1 DEF MapEnter, Running
  <2> HIDE DEF obj
  <2>3. /\ DOMAIN F = FrameFields /\ F.fmt = Top.fmt /\ F.strm = Top.strm /\ F.pos0 = Top.pos0
        /\ F.at = "loop" /\ F.obj = obj
    BY <2>1, TopFacts DEF IsFrame, FrameFields
  <2>4. Replaces(F) /\ IsOpenMap(F) /\ ~IsOpenMap(Top)
    BY <2>2, <2>3 DEF Replaces, IsFrame, IsOpenMap, TopNode
  <2>5. IsSeq(parents') /\ Scoped'
    <3>1. PICK m \in Nat : Len(frames) = m + 1 /\ Len(frames) - 1 = m
      <4>1. Len(frames) - 1 \in Nat /\ Len(frames) = (Len(frames) - 1) + 1
        BY TopFacts
      <4> QED
        BY <4>1
    <3>2. /\ Len(frames') = m + 1 /\ frames'[m + 1] = F
          /\ \A i \in 1..m : frames'[i] = frames[i]
      BY <2>2, <2>4, <3>1, ReplacedFacts
    <3>3. IsSeq(parents) /\ Lists(parents, ScopesOf("obj", MapV(<<>>), frames, m + 1))
      BY <3>1, TopFacts DEF Inv, Scoped
    <3>4. ~IsOpenMap(frames[m + 1])
      BY <2>4, <3>1 DEF Top
    <3>5. Lists(parents, ScopesOf("obj", MapV(<<>>), frames, m))
      BY <3>3, <3>4, ScopesShrink
    <3>6. ScopesOf("obj", MapV(<<>>), frames', m) = ScopesOf("obj", MapV(<<>>), frames, m)
      <4>1. \A i \in 1..m : IsOpenMap(frames'[i]) = IsOpenMap(frames[i]) /\ frames'[i]["obj"] = frames[i]["obj"]
        BY <3>2
      <4> QED
        BY <4>1, ScopesLocal
    <3>7. Lists(parents, ScopesOf("obj", MapV(<<>>), frames', m))
      BY <3>5, <3>6
    <3>8. Lists(IF IsOpenMap(frames'[m + 1]) THEN Append(parents, frames'[m + 1]["obj"]) ELSE parents,
                ScopesOf("obj", MapV(<<>>), frames', m + 1))
      BY <3>3, <3>7, ScopesGrow
    <3>9. Lists(parents', ScopesOf("obj", MapV(<<>>), frames', m + 1))
      BY <2>2, <2>3, <2>4, <3>2, <3>8
    <3> QED
      BY <2>2, <3>2, <3>3, <3>9, AppendSeq DEF Scoped
  <2>6. IsSeq(path') /\ Lists(path', KeysUpto(frames, Len(frames) - 1))
    BY <1>1, <2>2, PathBelow, TopFacts
  <2>7. Writes
    <3>1. ~Sizing(Top)
      BY <2>2 DEF Sizing, TopNode
    <3> QED
      BY <1>1, <2>2, <3>1, TopFacts DEF Writes, AtEnd
  <2> QED
    BY <2>2, <2>4, <2>5, <2>6, <2>7, StayInv
<1>5. ASSUME MapField PROVE Inv'
  <2>1. ctl = "run" /\ Calm /\ IsContainer(Top)
    BY <1>1, <1>5 DEF MapField, Running, IsContainer, TopNode
  <2>2. PICK i : LET v == FieldValue(TopNode, i, Top.obj)
                     key == Name(TopNode.keys[i])
                 IN  IF v.ok
                     THEN Call([Top EXCEPT !.idx = i, !.item = key], TopNode.subs[i], v.val, Top.strm,
                               streams, Append(path, key))
                     ELSE Raise(v.exc) /\ UNCHANGED <<streams, parents, path>>
    BY <1>5 DEF MapField
  <2>3. Decided(FieldValue(TopNode, i, Top.obj))
    BY FieldDecided
  <2>4. CASE FieldValue(TopNode, i, Top.obj).ok
    BY <2>1, <2>2, <2>4, ItemInv
  <2>5. CASE ~FieldValue(TopNode, i, Top.obj).ok
    BY <2>1, <2>2, <2>3, <2>5, RaiseInv DEF Decided
  <2> QED
    BY <2>4, <2>5
<1>6. ASSUME MapExit PROVE Inv'
  <2>1. PICK F : F = [Top EXCEPT !.at = "exit"]
    OBVIOUS
  <2>2. /\ ctl = "run" /\ ctl' = "leave" /\ TopNode.kind = "map" /\ Top.at = "loop"
        /\ parents' = Under(parents) /\ frames' = WithTop(F) /\ UNCHANGED <<exc, streams, path>>
    BY <1>6, <2>1 DEF MapExit, Running, Return
  <2>3. /\ DOMAIN F = FrameFields /\ F.fmt = Top.fmt /\ F.strm = Top.strm /\ F.pos0 = Top.pos0
        /\ F.at = "exit"
    BY <2>1, TopFacts DEF IsFrame, FrameFields
  <2>4. Replaces(F) /\ ~IsOpenMap(F) /\ IsOpenMap(Top)
    BY <2>2, <2>3 DEF Replaces, IsFrame, IsOpenMap, TopNode
  <2>5. IsSeq(parents') /\ Scoped'
    <3>1. PICK m \in Nat : Len(frames) = m + 1 /\ Len(frames) - 1 = m
      <4>1. Len(frames) - 1 \in Nat /\ Len(frames) = (Len(frames) - 1) + 1
        BY TopFacts
      <4> QED
        BY <4>1
    <3>2. /\ Len(frames') = m + 1 /\ frames'[m + 1] = F
          /\ \A i \in 1..m : frames'[i] = frames[i]
      BY <2>2, <2>4, <3>1, ReplacedFacts
    <3>3. IsSeq(parents) /\ Lists(parents, ScopesOf("obj", MapV(<<>>), frames, m + 1))
      BY <3>1, TopFacts DEF Inv, Scoped
    <3>4. IsOpenMap(frames[m + 1])
      BY <2>4, <3>1 DEF Top
    <3>5. Len(parents) > 0 /\ Lists(Under(parents), ScopesOf("obj", MapV(<<>>), frames, m))
      BY <3>3, <3>4, ScopesShrink
    <3>6. ScopesOf("obj", MapV(<<>>), frames', m) = ScopesOf("obj", MapV(<<>>), frames, m)
      <4>1. \A i \in 1..m : IsOpenMap(frames'[i]) = IsOpenMap(frames[i]) /\ frames'[i]["obj"] = frames[i]["obj"]
        BY <3>2
      <4> QED
        BY <4>1, ScopesLocal
    <3>7. IsSeq(parents') /\ Lists(parents', ScopesOf("obj", MapV(<<>>), frames', m))
      BY <2>2, <3>3, <3>5, <3>6, UnderSeq
    <3>8. ~IsOpenMap(frames'[m + 1])
      BY <2>4, <3>2
    <3>9. Lists(parents', ScopesOf("obj", MapV(<<>>), frames', m + 1))
      BY <3>7, <3>8, ScopesGrow
    <3> QED
      BY <3>2, <3>7, <3>9 DEF Scoped
  <2>6. IsSeq(path') /\ Lists(path', KeysUpto(frames, Len(frames) - 1))
    BY <1>1, <2>2, PathBelow, TopFacts
  <2>7. Writes
    BY <1>1, <2>2, TopFacts DEF Writes, AtEnd
  <2> QED
    BY <2>2, <2>4, <2>5, <2>6, <2>7, StayInv
<1>7. ASSUME TupleItem \/ ArrayItem PROVE Inv'
  <2>1. ctl = "run" /\ IsContainer(Top)
    BY <1>7 DEF TupleItem, ArrayItem, Running, IsContainer, TopNode
  <2>2. PICK f : CallItem(f)
    BY <1>7 DEF TupleItem, ArrayItem
  <2>3. Call([Top EXCEPT !.idx = Top.idx + 1, !.item = Index(Top.idx)], f, Items(Top.obj)[Top.idx + 1],
             Top.strm, streams, Append(path, Index(Top.idx)))
    BY <2>2, TopFacts DEF CallItem, IsFrame, FrameFields
  <2> QED
    BY <2>1, <2>3, ItemInv
<1>8. ASSUME AtEnd, TopNode.kind # "map", Return(Top), UNCHANGED <<streams, parents, path>> PROVE Inv'
  BY <1>8, TopUpdates, PutInv DEF Return
<1>9. ASSUME TupleExit PROVE Inv'
  <2>1. AtEnd /\ Calm /\ TopNode.kind # "map" /\ UNCHANGED <<streams, parents, path>>
    BY <1>1, <1>9 DEF TupleExit, Running, context
  <2>2. Return(Top) \/ Raise("Type") \/ Raise("Value")
    BY <1>9 DEF TupleExit
  <2>3. "Type" \in Refusals /\ "Value" \in Refusals
    BY DEF Refusals
  <2> QED
    BY <1>8, <2>1, <2>2, <2>3, RaiseInv
<1>10. ASSUME ArrayEnter PROVE Inv'
  <2> DEFINE r == Prologue(TopNode, Top.obj)
  <2>1. AtEnd /\ TopNode.kind = "array" /\ ctl = "run" /\ UNCHANGED <<parents, path>>
    BY <1>1, <1>10 DEF ArrayEnter, Running, context
  <2>2. Decided(r)
    BY PrologueDecided
  <2>3. \/ Emit(r)
        \/ /\ \E w : streams' = [streams EXCEPT ![Top.strm] = w]
           /\ frames' = WithTop([Top EXCEPT !.at = "items"])
           /\ UNCHANGED <<ctl, exc>>
    BY <1>10 DEF ArrayEnter
  <2> HIDE DEF r
  <2>4. CASE Emit(r)
    BY <1>2, <2>1, <2>2, <2>4
  <2>5. CASE /\ \E w : streams' = [streams EXCEPT ![Top.strm] = w]
             /\ frames' = WithTop([Top EXCEPT !.at = "items"])
             /\ UNCHANGED <<ctl, exc>>
    <3>1. PICK F : F = [Top EXCEPT !.at = "items"]
      OBVIOUS
    <3>2. Updates(F) /\ frames' = WithTop(F)
      BY <2>1, <2>5, <3>1, FieldsUpdate
    <3>3. ~Sizing(Top)
      BY <2>1 DEF Sizing, TopNode
    <3> QED
      BY <2>1, <2>5, <3>2, <3>3, PutInv
  <2> QED
    BY <2>3, <2>4, <2>5
<1>11. ASSUME ArrayExit PROVE Inv'
  BY <1>1, <1>8, <1>11 DEF ArrayExit, Running, context
<1>12. ASSUME ItemBack PROVE Inv'
  <2>1. /\ ctl = "resume" /\ ctl' = "run" /\ IsContainer(Top) /\ path' = Under(path)
        /\ UNCHANGED <<frames, exc, streams, parents>>
    BY <1>12 DEF ItemBack, Resuming, IsContainer, TopNode
  <2>2. /\ Replaces(Top) /\ frames' = WithTop(Top) /\ SameScope(Top)
    BY <2>1, TopUpdates, UpdatesReplace, TopFacts
  <2>3. Scoped' /\ IsSeq(parents')
    BY <2>1, <2>2, ScopedStays, TopFacts
  <2>4. IsSeq(path') /\ Lists(path', KeysUpto(frames, Len(frames) - 1))
    <3>1. PICK m \in Nat : Len(frames) = m + 1 /\ Len(frames) - 1 = m
      <4>1. Len(frames) - 1 \in Nat /\ Len(frames) = (Len(frames) - 1) + 1
        BY TopFacts
      <4> QED
        BY <4>1
    <3>2. IsSeq(path) /\ Lists(path, KeysUpto(frames, m + 1)) /\ IsContainer(frames[m + 1])
      BY <2>1, <3>1, TopFacts DEF Inv, Traced, Callers, Top
    <3>3. Len(path) > 0 /\ Lists(Under(path), KeysUpto(frames, m))
      BY <3>2, KeysShrink
    <3> QED
      BY <2>1, <3>1, <3>2, <3>3, UnderSeq
  <2>5. Writes
    <3>1. ~Sizing(Top) /\ Len(streams) = Top.strm + 0
      BY <2>1 DEF Sizing, IsContainer, Inv, Buffered, Step
    <3>2. Len(streams) = Top.strm
      BY <3>1, TopFacts
    <3> QED
      BY <2>1, <3>1, <3>2, TopFacts DEF Writes
  <2> QED
    BY <2>1, <2>2, <2>3, <2>4, <2>5, StayInv
<1>13. ASSUME Calm, ~IsContainer(Top), ~Sizing(Top), NEW a, NEW f, NEW obj,
              Call([Top EXCEPT !.at = a], f, obj, Top.strm, streams, path)
       PROVE  Inv'
  <2>1. PICK F : F = [Top EXCEPT !.at = a]
    OBVIOUS
  <2>2. TopNode.kind # "map"
    BY <1>13 DEF IsContainer, TopNode
  <2>3. Updates(F) /\ Call(F, f, obj, Top.strm, streams, path)
    BY <1>13, <2>1, <2>2, FieldsUpdate
  <2> QED
    BY <1>13, <2>3, WrapInv
<1>14. ASSUME Calm, ~IsContainer(Top), ~Sizing(Top), NEW f, NEW obj,
              CallInner(Top, f, obj, Top.strm, streams)
       PROVE  Inv'
  BY <1>13, <1>14 DEF CallInner
<1>15. \A e \in {"Type", "Key", "Value"} : e \in Refusals
  BY DEF Refusals
<1>16. ASSUME WrapOpen PROVE Inv'
  <2>1. AtEnd /\ Calm /\ TopNode.kind # "map" /\ ~IsContainer(Top) /\ ~Sizing(Top)
    BY <1>1, <1>16 DEF WrapOpen, Running, IsContainer, Sizing, TopNode
  <2>2. CASE Return(Top) /\ UNCHANGED <<config, streams, context, root, err>>
    BY <1>8, <2>1, <2>2 DEF context
  <2>3. CASE Raise("Type") /\ UNCHANGED <<config, streams, context, root, err>>
    BY <1>15, <2>1, <2>3, RaiseInv DEF context
  <2>4. ASSUME NEW obj, CallInner(Top, TopNode.subs[1], obj, Top.strm, streams) PROVE Inv'
    BY <1>14, <2>1, <2>4
  <2> QED
    BY <1>16, <2>2, <2>3, <2>4 DEF WrapOpen
<1>17. ASSUME SwitchOpen PROVE Inv'
  <2>1. Calm /\ ~IsContainer(Top) /\ ~Sizing(Top)
    BY <1>1, <1>17 DEF SwitchOpen, Running, IsContainer, Sizing, TopNode
  <2> DEFINE sibling == Resolve(TopNode.ref)
             cases == Case(TopNode, sibling.val)
             failure == IF ~sibling.ok THEN sibling.exc
                        ELSE IF sibling.val.t \in {"map", "list"} THEN "Type"
                        ELSE IF cases = {} THEN "Key" ELSE ""
  <2>2. Decided(sibling)
    BY ResolveDecided
  <2>3. failure \in Refusals \cup {""}
    <3> HIDE DEF sibling, cases
    <3> QED
      BY <1>15, <2>2 DEF Decided
  <2>4. \/ failure # "" /\ Raise(failure) /\ UNCHANGED <<config, streams, context, root, err>>
        \/ CallInner(Top, TopNode.subs[First(cases)], Top.obj, Top.strm, streams)
    BY <1>17 DEF SwitchOpen
  <2> HIDE DEF sibling, cases, failure
  <2>5. CASE failure # "" /\ Raise(failure) /\ UNCHANGED <<config, streams, context, root, err>>
    BY <2>1, <2>3, <2>5, RaiseInv DEF context
  <2> QED
    BY <1>14, <2>1, <2>4, <2>5
<1>18. ASSUME UnionOpen PROVE Inv'
  <2>1. Calm /\ ~IsContainer(Top) /\ ~Sizing(Top)
    BY <1>1, <1>18 DEF UnionOpen, Running, IsContainer, Sizing, TopNode
  <2> DEFINE tag == TagForEncode(TopNode, Top.obj)
             failure == IF tag.ok THEN "Value" ELSE tag.exc
  <2>2. failure \in Refusals
    <3>1. Decided(tag)
      BY TagDecided
    <3> HIDE DEF tag
    <3> QED
      BY <1>15, <3>1 DEF Decided
  <2>3. \/ Raise(failure) /\ UNCHANGED <<config, streams, context, root, err>>
        \/ \E i : CallInner(Top, TopNode.subs[i], Top.obj, Top.strm, streams)
        \/ Call([Top EXCEPT !.at = "tag"], Last(TopNode.subs), tag.val, Top.strm, streams, path)
    BY <1>18 DEF UnionOpen
  <2> HIDE DEF tag, failure
  <2>4. CASE Raise(failure) /\ UNCHANGED <<config, streams, context, root, err>>
    BY <2>1, <2>2, <2>4, RaiseInv DEF context
  <2>5. CASE \E i : CallInner(Top, TopNode.subs[i], Top.obj, Top.strm, streams)
    BY <1>14, <2>1, <2>5
  <2>6. CASE Call([Top EXCEPT !.at = "tag"], Last(TopNode.subs), tag.val, Top.strm, streams, path)
    BY <1>13, <2>1, <2>6
  <2> QED
    BY <2>3, <2>4, <2>5, <2>6
<1>19. ASSUME UnionBranch PROVE Inv'
  <2>1. Calm /\ ~IsContainer(Top) /\ ~Sizing(Top)
    BY <1>19 DEF UnionBranch, Resuming, IsContainer, Sizing, TopNode, Calm
  <2>2. PICK i : CallInner(Top, TopNode.subs[i], Top.obj, Top.strm, streams)
    BY <1>19 DEF UnionBranch
  <2> QED
    BY <1>14, <2>1, <2>2
<1>20. ASSUME WrapClose PROVE Inv'
  <2>1. ctl = "resume" /\ TopNode.kind # "map" /\ ~IsContainer(Top) /\ ~Sizing(Top)
    BY <1>20 DEF WrapClose, Resuming, IsContainer, Sizing, TopNode
  <2> QED
    BY <1>8, <1>20, <2>1, EndOfResume DEF WrapClose, context
<1>21. ASSUME PointerOpen PROVE Inv'
  <2>1. Calm /\ ~IsContainer(Top) /\ ~Sizing(Top)
    BY <1>1, <1>21 DEF PointerOpen, Running, IsContainer, Sizing, TopNode
  <2>2. CASE Call([Top EXCEPT !.at = "offset"], TopNode.subs[1], Top.obj.at["offset"], Top.strm, streams, path)
    BY <1>13, <2>1, <2>2
  <2>3. CASE (Raise("Key") \/ Raise("Type")) /\ UNCHANGED <<config, streams, context, root, err>>
    BY <1>15, <2>1, <2>3, RaiseInv DEF context
  <2> QED
    BY <1>21, <2>2, <2>3 DEF PointerOpen
<1>22. ASSUME PointerJump PROVE Inv'
  <2>1. AtEnd /\ Calm /\ TopNode.kind # "map" /\ ~IsContainer(Top) /\ ~Sizing(Top)
    <3>1. ctl = "resume" /\ TopNode.kind # "map" /\ ~IsContainer(Top) /\ ~Sizing(Top)
      BY <1>22 DEF PointerJump, Resuming, IsContainer, Sizing, TopNode
    <3> QED
      BY <3>1, EndOfResume DEF AtEnd
  <2>2. CASE Return(Top) /\ UNCHANGED <<config, streams, context, root, err>>
    BY <1>8, <2>1, <2>2 DEF context
  <2>3. CASE CallInner([Top EXCEPT !.saved = TopStream.pos], TopNode.subs[2], Top.obj.at["value"], Top.strm,
                       [streams EXCEPT ![Top.strm] = Seek(@, TopNode.num + Top.obj.at["offset"].n)])
    <3>1. PICK F : F = [[Top EXCEPT !.saved = TopStream.pos] EXCEPT !.at = "inner"]
      OBVIOUS
    <3>2. Updates(F)
      BY <2>1, <3>1, FieldsUpdate
    <3>3. PICK s : s = [streams EXCEPT ![Top.strm] = Seek(@, TopNode.num + Top.obj.at["offset"].n)]
      OBVIOUS
    <3>4. \E w : s = [streams EXCEPT ![Top.strm] = w]
      BY <3>3
    <3>5. Call(F, TopNode.subs[2], Top.obj.at["value"], Top.strm, s, path)
      BY <2>3, <3>1, <3>3 DEF CallInner
    <3> QED
      BY <2>1, <3>2, <3>4, <3>5, WrapInv
  <2> QED
    BY <1>22, <2>2, <2>3 DEF PointerJump
<1>23. ASSUME PointerBack PROVE Inv'
  <2>1. ctl = "resume" /\ TopNode.kind # "map" /\ ~IsContainer(Top) /\ ~Sizing(Top)
    BY <1>23 DEF PointerBack, Resuming, IsContainer, Sizing, TopNode
  <2>2. AtEnd
    BY <2>1, EndOfResume
  <2>3. /\ frames' = WithTop(Top) /\ ctl' = "leave" /\ UNCHANGED <<exc, parents, path>>
        /\ \E w : streams' = [streams EXCEPT ![Top.strm] = w]
    BY <1>23 DEF PointerBack, Return, context
  <2> QED
    BY <2>1, <2>2, <2>3, TopUpdates, PutInv
<1>24. ASSUME SizedOpen PROVE Inv'
  <2>1. ctl = "run" /\ Calm /\ AtEnd /\ TopNode.kind # "map" /\ ~IsContainer(Top) /\ Sizing(Top)
    BY <1>1, <1>24 DEF SizedOpen, Running, IsContainer, Sizing, TopNode
  <2>2. PICK F : F = [Top EXCEPT !.at = "inner"]
    OBVIOUS
  <2>3. PICK s, new : s = Len(streams) + 1 /\ new = Append(streams, Stream(TRUE))
    OBVIOUS
  <2>4. Call(F, TopNode.subs[1], Top.obj, s, new, path)
    BY <1>24, <2>2, <2>3 DEF SizedOpen, CallInner
  <2>5. Replaces(F) /\ SameScope(F) /\ ~IsContainer(F)
    <3>1. Updates(F)
      BY <2>1, <2>2, FieldsUpdate
    <3> QED
      BY <2>1, <3>1, UpdatesReplace DEF Updates, IsContainer
  <2>6. /\ IsSeq(new) /\ Len(new) = s /\ s = Top.strm + Step(Top)
        /\ \A k \in 1..(Top.strm - 1) : new[k] = streams[k]
        /\ new[Top.strm] = streams[Top.strm]
    <3>1. PICK l \in Nat : l = Len(streams) /\ l = Top.strm /\ l > 0
      BY <2>1, TopFacts DEF AtEnd
    <3>2. IsSeq(new) /\ Len(new) = l + 1 /\ \A k \in 1..l : new[k] = streams[k]
      <4>1. IsSeq(streams) /\ new = Append(streams, Stream(TRUE))
        BY <2>3, TopFacts
      <4>2. /\ IsSeq(new) /\ Len(new) = Len(streams) + 1
            /\ \A k \in 1..Len(streams) : new[k] = streams[k]
        BY <4>1, AppendSeq
      <4> QED
        BY <3>1, <4>2
    <3>3. Step(Top) = 1
      BY <2>1 DEF Step
    <3>4. new[l] = streams[l] /\ \A k \in 1..(l - 1) : new[k] = streams[k]
      BY <3>1, <3>2
    <3> QED
      BY <2>3, <3>1, <3>2, <3>3, <3>4
  <2> QED
    BY <2>1, <2>4, <2>5, <2>6, CallInv
<1>25. ASSUME SizedClose PROVE Inv'
  <2>1. ctl = "resume" /\ Calm /\ TopNode.kind # "map" /\ ~IsContainer(Top) /\ Sizing(Top)
    BY <1>25 DEF SizedClose, Resuming, IsContainer, Sizing, TopNode, Calm
  <2> DEFINE head == LengthHead(TopNode, Len(streams[Len(streams)].data))
  <2>2. Decided(head)
    BY HeadDecided
  <2>3. \/ Raise(head.exc) /\ ~head.ok /\ UNCHANGED streams
        \/ \E w, kids : /\ streams' = Append(Under(Under(streams)), w)
                        /\ Return([Top EXCEPT !.kids = kids])
    BY <1>25 DEF SizedClose
  <2>4. UNCHANGED <<parents, path>>
    BY <1>25 DEF SizedClose, context
  <2> HIDE DEF head
  <2>5. CASE Raise(head.exc) /\ ~head.ok /\ UNCHANGED streams
    BY <2>1, <2>2, <2>4, <2>5, RaiseInv DEF Decided
  <2>6. CASE \E w, kids : /\ streams' = Append(Under(Under(streams)), w)
                          /\ Return([Top EXCEPT !.kids = kids])
    <3>1. PICK w, kids : streams' = Append(Under(Under(streams)), w) /\ Return([Top EXCEPT !.kids = kids])
      BY <2>6
    <3>2. PICK F : F = [Top EXCEPT !.kids = kids]
      OBVIOUS
    <3>3. Updates(F) /\ frames' = WithTop(F) /\ ctl' = "leave" /\ UNCHANGED exc
      BY <3>1, <3>2, FieldsUpdate DEF Return
    <3>4. Replaces(F) /\ SameScope(F) /\ ~IsOpenMap(F)
      BY <2>1, <3>3, UpdatesReplace DEF Updates, IsOpenMap, TopNode
    <3>5. Scoped' /\ IsSeq(parents') /\ IsSeq(path') /\ Lists(path', KeysUpto(frames, Len(frames) - 1))
      BY <2>1, <2>4, <3>3, <3>4, ScopedStays, PathBelow, TopFacts
    <3>6. Writes
      <4>1. PICK l \in Nat : l = Top.strm /\ l > 0 /\ Len(streams) = l + 1
        BY <2>1, TopFacts DEF Inv, Buffered, Step
      <4>2. PICK t : t = Under(streams)
        OBVIOUS
      <4>3. IsSeq(t) /\ Len(t) = l /\ \A k \in 1..l : t[k] = streams[k]
        <5>1. Len(streams) > 0 /\ Len(streams) - 1 = l /\ IsSeq(streams)
          BY <4>1, TopFacts
        <5> QED
          BY <4>2, <5>1, UnderSeq
      <4>4. PICK s : s = Under(t)
        OBVIOUS
      <4>5. IsSeq(s) /\ Len(s) = l - 1 /\ \A k \in 1..(l - 1) : s[k] = streams[k]
        <5>1. IsSeq(s) /\ Len(s) = l - 1 /\ \A k \in 1..(l - 1) : s[k] = t[k]
          BY <4>1, <4>3, <4>4, UnderSeq
        <5> QED
          BY <4>3, <5>1
      <4>6. /\ IsSeq(streams') /\ Len(streams') = l
            /\ \A k \in 1..(l - 1) : streams'[k] = s[k]
        <5>1. streams' = Append(s, w)
          BY <3>1, <4>2, <4>4
        <5>2. IsSeq(streams') /\ Len(streams') = Len(s) + 1 /\ \A k \in 1..Len(s) : streams'[k] = s[k]
          BY <4>5, <5>1, AppendSeq
        <5>3. Len(s) + 1 = l
          BY <4>5
        <5> QED
          BY <4>5, <5>2, <5>3
      <4> QED
        BY <3>3, <4>1, <4>5, <4>6 DEF Writes
    <3> QED
      BY <2>1, <3>3, <3>4, <3>5, <3>6, StayInv
  <2> QED
    BY <2>3, <2>5, <2>6
<1>26. ASSUME Leave PROVE Inv'
  BY <1>26, LeaveInv
<1>27. ASSUME Finish \/ Report PROVE Inv'
  <2>1. CASE Finish
    BY <2>1, DoneInv DEF Finish, context
  <2>2. CASE Report
    BY <2>2, DoneInv DEF Report, context
  <2> QED
    BY <1>27, <2>1, <2>2
<1> QED
  BY <1>3, <1>4, <1>5, <1>6, <1>7, <1>9, <1>10, <1>11, <1>12, <1>16, <1>17, <1>18, <1>19, <1>20,
     <1>21, <1>22, <1>23, <1>24, <1>25, <1>26, <1>27 DEF Next

LEMMA StutterInv == ASSUME Inv, UNCHANGED vars PROVE Inv'
<1>1. UNCHANGED <<frames, ctl, exc, streams, parents, path, err>>
  BY DEF vars, context
<1>2. Shape' /\ Scoped' /\ Quiet' /\ Shut'
  BY <1>1 DEF Inv, Shape, Scoped, Quiet, Shut, Top
<1>3. Traced'
  BY <1>1 DEF Inv, Traced, Callers
<1>4. Levels' /\ Climbs' /\ Buffered' /\ Unwritten'
  BY <1>1 DEF Inv, Levels, Climbs, Buffered, Unwritten, Top
<1> QED
  BY <1>2, <1>3, <1>4 DEF Inv

LEMMA Invariance == Spec => []Inv
<1>1. Init => Inv
  BY InitInv
<1>2. Inv /\ [Next]_vars => Inv'
  BY StepInv, StutterInv
<1> QED
  BY <1>1, <1>2, PTL DEF Spec

-----------------------------------------------------------------------------
(* Whatever is encoded and wherever it fails, each parent and each path    *)
(* segment has been pushed and popped by one frame, so Refs resolve in     *)
(* their own mapping and the path of an EncodeError leads to what raised.  *)
THEOREM ContextIsTheStack == Spec => []ContextFollowsStack
<1>1. Inv => ContextFollowsStack
  <2> SUFFICES ASSUME Inv PROVE ContextFollowsStack
    OBVIOUS
  <2>1. ctl \in {"run", "leave"} => Callers = Len(frames) - 1
    <3>1. ctl \in {"run", "leave"} => exc # "Recursion" /\ ctl # "resume"
      BY DEF Inv, Quiet
    <3> QED
      BY <3>1 DEF Callers
  <2>2. ctl = "resume" => Callers = Len(frames)
    BY DEF Callers
  <2>3. ctl = "done" => Callers = IF exc = "Recursion" THEN Len(frames) ELSE Len(frames) - 1
    BY DEF Callers
  <2> QED
    BY <2>1, <2>2, <2>3 DEF ContextFollowsStack, Inv, Scoped, Traced
<1> QED
  BY <1>1, Invariance, PTL

(* A Sized that fails, in its value, in its length or in anything around   *)
(* it, has left nothing at its place in the stream.                        *)
THEOREM FrameOrNothing == Spec => []FramedOrNothing
<1>1. Inv => FramedOrNothing
  BY DEF Inv, Unwritten, Sizing, Shape, IsSeq, FramedOrNothing
<1> QED
  BY <1>1, Invariance, PTL

-----------------------------------------------------------------------------
(* Sequences over more elements.                                           *)
LEMMA SeqGrows == ASSUME NEW S, NEW T, S \subseteq T, NEW s \in Seq(S) PROVE s \in Seq(T)
<1>1. s \in [1..Len(s) -> S] /\ Len(s) \in Nat
  BY LenProperties, ElementOfSeq
<1>2. s \in [1..Len(s) -> T]
  BY <1>1
<1> QED
  BY <1>1, <1>2, SeqDef

-----------------------------------------------------------------------------
(* Objects that Python can build: a set that holds with each object its    *)
(* parts, in which bytes are bytes, and lists and mappings are finite.     *)
Whole(S) ==
    \A v \in S : /\ v.t = "bytes" => v.at \in Seq(Byte)
                 /\ v.t = "list" => v.at \in Seq(S)
                 /\ v.t = "map" => IsFiniteSet(DOMAIN v.at) /\ \A k \in DOMAIN v.at : v.at[k] \in S

(* No list stands in a list.                                               *)
Shallow(S) == \A v \in S : v.t = "list" => \A i \in 1..Len(v.at) : v.at[i].t # "list"

(* What a caller encodes.  Where it is shallow, so is all that is reached. *)
GivenSound == \A c \in DOMAIN Given : \E S : Given[c].obj \in S /\ Whole(S)
GivenShallow == \A c \in DOMAIN Given : \E S : Given[c].obj \in S /\ Whole(S) /\ Shallow(S)

Closed(S) == Whole(S) /\ (GivenShallow => Shallow(S))
Sound(v) == \E S : v \in S /\ Closed(S)

LEMMA SoundGiven == ASSUME GivenSound, NEW c \in DOMAIN Given PROVE Sound(Given[c].obj)
  BY DEF GivenSound, GivenShallow, Sound, Closed

LEMMA SoundParts ==
    ASSUME NEW v, Sound(v)
    PROVE  /\ v.t = "bytes" => v.at \in Seq(Byte)
           /\ v.t = "map" => IsFiniteSet(DOMAIN v.at) /\ \A k \in DOMAIN v.at : Sound(v.at[k])
<1>1. PICK S : v \in S /\ Closed(S)
  BY DEF Sound
<1>2. v.t = "bytes" => v.at \in Seq(Byte)
  BY <1>1 DEF Closed, Whole
<1>3. v.t = "map" => IsFiniteSet(DOMAIN v.at) /\ \A k \in DOMAIN v.at : v.at[k] \in S
  BY <1>1, Zenon DEF Closed, Whole
<1>4. \A w \in S : Sound(w)
  BY <1>1 DEF Sound
<1> QED
  BY <1>2, <1>3, <1>4

LEMMA SoundScalar == ASSUME NEW v, v.t \notin {"bytes", "list", "map"} PROVE Sound(v)
<1>1. Closed({v})
  BY DEF Closed, Whole, Shallow
<1> QED
  BY <1>1 DEF Sound

LEMMA SoundMade == (\A i : Sound(IntV(i)) /\ IntV(i).t = "int" /\ IntV(i).n = i) /\ Sound(NoneV)
<1>1. \A i : IntV(i).t = "int" /\ IntV(i).n = i
  BY DEF IntV, Value
<1>2. NoneV.t = "none"
  BY DEF NoneV, Value
<1>3. \A i : Sound(IntV(i))
  <2> TAKE i
  <2>1. PICK v : v = IntV(i)
    OBVIOUS
  <2>2. v.t \notin {"bytes", "list", "map"}
    BY <1>1, <2>1
  <2> QED
    BY <2>1, <2>2, SoundScalar
<1>4. Sound(NoneV)
  <2>1. PICK v : v = NoneV
    OBVIOUS
  <2>2. v.t \notin {"bytes", "list", "map"}
    BY <1>2, <2>1
  <2> QED
    BY <2>1, <2>2, SoundScalar
<1> QED
  BY <1>1, <1>3, <1>4

(* A mapping of objects is one.                                            *)
LEMMA SoundMap ==
    ASSUME NEW g, IsFiniteSet(DOMAIN g), \A k \in DOMAIN g : Sound(g[k])
    PROVE  Sound(MapV(g))
<1> DEFINE P == [k \in DOMAIN g |-> CHOOSE S : g[k] \in S /\ Closed(S)]
           T == UNION {P[k] : k \in DOMAIN g}
<1>1. PICK v : v = MapV(g)
  OBVIOUS
<1>2. v.t = "map" /\ v.at = g
  BY <1>1 DEF MapV, Value
<1>3. \A k \in DOMAIN g : g[k] \in P[k] /\ Closed(P[k])
  BY DEF Sound
<1> HIDE DEF P
<1>4. Whole(T)
  <2> SUFFICES ASSUME NEW w \in T
               PROVE  /\ w.t = "bytes" => w.at \in Seq(Byte)
                      /\ w.t = "list" => w.at \in Seq(T)
                      /\ w.t = "map" => IsFiniteSet(DOMAIN w.at) /\ \A k \in DOMAIN w.at : w.at[k] \in T
    BY Zenon DEF Whole
  <2>1. PICK k \in DOMAIN g : w \in P[k]
    OBVIOUS
  <2>2. Whole(P[k]) /\ P[k] \subseteq T
    BY <1>3 DEF Closed
  <2> HIDE DEF T
  <2>3. w.t = "bytes" => w.at \in Seq(Byte)
    BY <2>1, <2>2 DEF Whole
  <2>4. w.t = "list" => w.at \in Seq(T)
    <3>1. w.t = "list" => w.at \in Seq(P[k])
      BY <2>1, <2>2 DEF Whole
    <3> QED
      BY <2>2, <3>1, SeqGrows
  <2>5. w.t = "map" => IsFiniteSet(DOMAIN w.at) /\ \A j \in DOMAIN w.at : w.at[j] \in P[k]
    BY <2>1, <2>2, Zenon DEF Whole
  <2> QED
    BY <2>2, <2>3, <2>4, <2>5
<1>5. (\A k \in DOMAIN g : g[k] \in T) /\ (GivenShallow => Shallow(T))
  BY <1>3 DEF Closed, Shallow
<1> HIDE DEF T
<1>6. Closed(T \cup {v})
  <2> DEFINE U == T \cup {v}
  <2>1. ASSUME NEW w \in T
        PROVE  /\ w.t = "bytes" => w.at \in Seq(Byte)
               /\ w.t = "list" => w.at \in Seq(T)
               /\ w.t = "map" => IsFiniteSet(DOMAIN w.at) /\ \A k \in DOMAIN w.at : w.at[k] \in T
    BY <1>4, <2>1, Zenon DEF Whole
  <2>2. ASSUME NEW w \in T, w.t = "list" PROVE w.at \in Seq(U)
    <3>1. w.at \in Seq(T) /\ T \subseteq U
      BY <2>1, <2>2
    <3> QED
      BY <3>1, SeqGrows
  <2>3. \A k \in DOMAIN v.at : v.at[k] \in U
    BY <1>2, <1>5
  <2>4. IsFiniteSet(DOMAIN v.at)
    BY <1>2
  <2>5. ASSUME NEW w \in U
        PROVE  /\ w.t = "bytes" => w.at \in Seq(Byte)
               /\ w.t = "list" => w.at \in Seq(U)
               /\ w.t = "map" => IsFiniteSet(DOMAIN w.at) /\ \A k \in DOMAIN w.at : w.at[k] \in U
    <3>1. CASE w \in T
      BY <2>1, <2>2, <3>1
    <3>2. CASE w = v
      BY <1>2, <2>3, <2>4, <3>2
    <3> QED
      BY <3>1, <3>2
  <2> HIDE DEF U
  <2>6. Whole(U)
    BY <2>5 DEF Whole
  <2>7. GivenShallow => Shallow(U)
    BY <1>2, <1>5 DEF Shallow, U
  <2> QED
    BY <2>6, <2>7 DEF U, Closed
<1>7. v \in T \cup {v}
  OBVIOUS
<1> QED
  BY <1>1, <1>6, <1>7 DEF Sound

-----------------------------------------------------------------------------
(* Recursion over numbers: one sequence after the other.                   *)
Flattening(t, s, n) == t = [i \in 1..n |-> IF i = 1 THEN s[i] ELSE t[i - 1] \o s[i]]

LEMMA FlatteningsExist == ASSUME NEW s, NEW n \in Nat PROVE \E t : Flattening(t, s, n)
<1> DEFINE Bad == {k \in Nat : ~ \E t : Flattening(t, s, k)}
<1> SUFFICES ASSUME Bad # {} PROVE FALSE
  OBVIOUS
<1>1. PICK m \in Bad : \A k \in Bad : m <= k
  BY Least
<1>2. m \in Nat /\ ~ \E t : Flattening(t, s, m)
  OBVIOUS
<1>3. CASE m = 0
  <2> DEFINE t == [i \in 1..0 |-> s[i]]
  <2>1. t = [i \in 1..0 |-> IF i = 1 THEN s[i] ELSE t[i - 1] \o s[i]]
    OBVIOUS
  <2> QED
    BY <1>2, <1>3, <2>1 DEF Flattening
<1>4. CASE m # 0
  <2>1. m - 1 \in Nat /\ m - 1 \notin Bad
    BY <1>1, <1>2, <1>4
  <2>2. PICK t : Flattening(t, s, m - 1)
    BY <2>1
  <2>3. t = [i \in 1..(m - 1) |-> IF i = 1 THEN s[i] ELSE t[i - 1] \o s[i]]
    BY <2>2 DEF Flattening
  <2> DEFINE u == [i \in 1..m |-> IF i < m THEN t[i] ELSE IF i = 1 THEN s[i] ELSE t[i - 1] \o s[i]]
  <2>4. ASSUME NEW i \in 1..m PROVE u[i] = IF i = 1 THEN s[i] ELSE u[i - 1] \o s[i]
    <3>1. CASE i < m
      <4>1. i \in 1..(m - 1) /\ (i # 1 => i - 1 \in 1..m /\ i - 1 < m)
        BY <1>2, <1>4, <3>1
      <4>2. u[i] = t[i] /\ (i # 1 => u[i - 1] = t[i - 1])
        BY <3>1, <4>1
      <4>3. t[i] = IF i = 1 THEN s[i] ELSE t[i - 1] \o s[i]
        BY <2>3, <4>1
      <4> QED
        BY <4>2, <4>3
    <3>2. CASE i = m
      <4>1. i # 1 => i - 1 \in 1..m /\ i - 1 < m
        BY <1>2, <1>4, <3>2
      <4>2. i # 1 => u[i - 1] = t[i - 1]
        BY <4>1
      <4> QED
        BY <3>2, <4>2
    <3> QED
      BY <1>2, <3>1, <3>2
  <2>5. u = [i \in 1..m |-> IF i = 1 THEN s[i] ELSE u[i - 1] \o s[i]]
    BY <2>4
  <2> QED
    BY <1>2, <2>5 DEF Flattening
<1> QED
  BY <1>3, <1>4

LEMMA FlattenSteps ==
    ASSUME NEW s, NEW n \in Nat, n > 0, Len(s) = n
    PROVE  \E t : FlattenSeq(s) = t[n] /\ \A i \in 1..n : t[i] = IF i = 1 THEN s[i] ELSE t[i - 1] \o s[i]
<1> DEFINE flatten[i \in 1..Len(s)] == IF i = 1 THEN s[i] ELSE flatten[i - 1] \o s[i]
<1>1. \E t : t = [i \in 1..Len(s) |-> IF i = 1 THEN s[i] ELSE t[i - 1] \o s[i]]
  BY FlatteningsExist DEF Flattening
<1>2. flatten = [i \in 1..Len(s) |-> IF i = 1 THEN s[i] ELSE flatten[i - 1] \o s[i]]
  BY <1>1
<1>3. FlattenSeq(s) = flatten[Len(s)]
  BY DEF FlattenSeq
<1> HIDE DEF flatten
<1>4. \A i \in 1..n : flatten[i] = IF i = 1 THEN s[i] ELSE flatten[i - 1] \o s[i]
  BY <1>2
<1> QED
  BY <1>3, <1>4

(* Sequences, put together, are a sequence; of w elements each, of as many *)
(* times w.                                                                *)
LEMMA FlattenTyped ==
    ASSUME NEW S, NEW n \in Nat, NEW s, s = [i \in 1..n |-> s[i]], \A i \in 1..n : s[i] \in Seq(S)
    PROVE  /\ FlattenSeq(s) \in Seq(S)
           /\ \A w \in Nat : (\A i \in 1..n : Len(s[i]) = w) => Len(FlattenSeq(s)) = n * w
<1>1. Len(s) = n
  BY IsSeqIntro
<1>2. CASE n = 0
  <2>1. s = <<>>
    BY <1>2
  <2>2. FlattenSeq(s) = s
    BY <1>1, <1>2 DEF FlattenSeq
  <2>3. <<>> \in Seq(S) /\ Len(<<>>) = 0
    OBVIOUS
  <2>4. \A w \in Nat : n * w = 0
    BY <1>2
  <2>5. FlattenSeq(s) = <<>>
    BY <2>1, <2>2
  <2> QED
    BY <2>3, <2>4, <2>5
<1>3. CASE n > 0
  <2>1. PICK t : FlattenSeq(s) = t[n] /\ \A i \in 1..n : t[i] = IF i = 1 THEN s[i] ELSE t[i - 1] \o s[i]
    BY <1>1, <1>3, FlattenSteps
  <2> DEFINE Good(i) == t[i] \in Seq(S) /\ \A w \in Nat : (\A j \in 1..n : Len(s[j]) = w) => Len(t[i]) = i * w
             Bad == {i \in 1..n : ~Good(i)}
  <2>2. ASSUME NEW i \in 1..n, i = 1 \/ Good(i - 1) PROVE Good(i)
    <3>1. CASE i = 1
      <4>1. t[i] = s[i] /\ \A w \in Nat : 1 * w = w
        BY <2>1, <3>1
      <4> QED
        BY <3>1, <4>1
    <3>2. CASE i # 1
      <4>1. PICK p : p = t[i - 1]
        OBVIOUS
      <4>2. t[i] = p \o s[i] /\ p \in Seq(S) /\ s[i] \in Seq(S)
        BY <2>1, <2>2, <3>2, <4>1
      <4>3. p \o s[i] \in Seq(S) /\ Len(p \o s[i]) = Len(p) + Len(s[i])
        BY <4>2, ConcatProperties
      <4>4. ASSUME NEW w \in Nat, \A j \in 1..n : Len(s[j]) = w PROVE Len(t[i]) = i * w
        <5>1. Len(p) = (i - 1) * w /\ Len(s[i]) = w
          BY <2>2, <3>2, <4>1, <4>4
        <5>2. ((i - 1) + 1) * w = (i - 1) * w + w
          BY NextMultiple
        <5>3. (i - 1) + 1 = i
          OBVIOUS
        <5> QED
          BY <4>2, <4>3, <5>1, <5>2, <5>3
      <4> QED
        BY <4>2, <4>3, <4>4
    <3> QED
      BY <3>1, <3>2
  <2>3. Bad = {}
    <3> SUFFICES ASSUME Bad # {} PROVE FALSE
      OBVIOUS
    <3>1. PICK m \in Bad : \A k \in Bad : m <= k
      <4>1. Bad \subseteq Nat
        OBVIOUS
      <4> HIDE DEF Bad
      <4> QED
        BY <4>1, Least
    <3>2. m \in 1..n /\ ~Good(m)
      OBVIOUS
    <3>3. m = 1 \/ Good(m - 1)
      <4>1. m # 1 => m - 1 \in 1..n /\ ~(m <= m - 1)
        BY <3>2
      <4> HIDE DEF Good
      <4> QED
        BY <3>1, <4>1
    <3> HIDE DEF Good
    <3> QED
      BY <2>2, <3>2, <3>3
  <2>4. Good(n)
    BY <1>3, <2>3
  <2> QED
    BY <2>1, <2>4
<1> QED
  BY <1>2, <1>3

(* Single elements, put together.                                          *)
LEMMA FlattenSingles ==
    ASSUME NEW s, IsSeq(s), NEW p, p = [i \in 1..Len(s) |-> p[i]], \A i \in 1..Len(s) : p[i] = <<s[i]>>
    PROVE  FlattenSeq(p) = s
<1>1. PICK n \in Nat : n = Len(s) /\ s = [i \in 1..n |-> s[i]]
  BY DEF IsSeq
<1>2. Len(p) = n /\ \A i \in 1..n : p[i] = <<s[i]>>
  BY <1>1, IsSeqIntro
<1>3. CASE n = 0
  <2>1. s = <<>> /\ p = <<>>
    BY <1>1, <1>3
  <2>2. FlattenSeq(p) = p
    BY <1>2, <1>3 DEF FlattenSeq
  <2> QED
    BY <2>1, <2>2
<1>4. CASE n > 0
  <2>1. PICK t : FlattenSeq(p) = t[n] /\ \A i \in 1..n : t[i] = IF i = 1 THEN p[i] ELSE t[i - 1] \o p[i]
    BY <1>2, <1>4, FlattenSteps
  <2> DEFINE Good(i) == t[i] = [j \in 1..i |-> s[j]]
             Bad == {i \in 1..n : ~Good(i)}
  <2>2. ASSUME NEW i \in 1..n, i = 1 \/ Good(i - 1) PROVE Good(i)
    <3>1. CASE i = 1
      <4>1. t[i] = <<s[1]>>
        BY <1>2, <2>1, <3>1
      <4>2. \A x : <<x>> = [j \in 1..1 |-> x]
        OBVIOUS
      <4>3. [j \in 1..1 |-> s[j]] = [j \in 1..1 |-> s[1]]
        OBVIOUS
      <4> QED
        BY <3>1, <4>1, <4>2, <4>3
    <3>2. CASE i # 1
      <4>1. PICK k \in Nat : k = i - 1 /\ i = k + 1
        OBVIOUS
      <4>2. PICK q : q = [j \in 1..k |-> s[j]]
        OBVIOUS
      <4>3. t[i] = q \o <<s[i]>>
        BY <1>2, <2>1, <2>2, <3>2, <4>1, <4>2
      <4>4. Len(q) = k /\ \A j \in 1..k : q[j] = s[j]
        BY <4>2, IsSeqIntro
      <4>5. PICK S : s \in Seq(S)
        BY IsSeqElim
      <4>6. \A j \in 1..n : s[j] \in S
        BY <1>1, <4>5, ElementOfSeq
      <4>7. q \in Seq(S)
        <5>1. \A j \in 1..k : s[j] \in S
          BY <4>1, <4>6
        <5>2. q \in [1..k -> S]
          BY <4>2, <5>1
        <5> QED
          BY <5>2, SeqDef
      <4>8. <<s[i]>> \in Seq(S) /\ Len(<<s[i]>>) = 1 /\ <<s[i]>>[1] = s[i]
        BY <4>6
      <4>9. PICK u : u = t[i]
        OBVIOUS
      <4>10. /\ u \in Seq(S) /\ Len(u) = k + 1
             /\ \A j \in 1..(k + 1) : u[j] = IF j <= k THEN q[j] ELSE <<s[i]>>[j - k]
        BY <4>3, <4>4, <4>7, <4>8, <4>9, ConcatProperties
      <4>11. \A j \in 1..i : u[j] = s[j]
        <5> TAKE j \in 1..i
        <5>1. CASE j <= k
          BY <4>1, <4>4, <4>10, <5>1
        <5>2. CASE j = k + 1
          <6>1. PICK r : r = <<s[i]>>
            OBVIOUS
          <6>2. \A h \in 1..(k + 1) : u[h] = IF h <= k THEN q[h] ELSE r[h - k]
            BY <4>10, <6>1
          <6>3. u[k + 1] = r[1]
            <7>1. k + 1 \in 1..(k + 1) /\ ~(k + 1 <= k) /\ (k + 1) - k = 1
              OBVIOUS
            <7>2. u[k + 1] = r[(k + 1) - k]
              BY <6>2, <7>1, Zenon
            <7> QED
              BY <7>1, <7>2, Zenon
          <6>4. u[j] = <<s[i]>>[1]
            BY <5>2, <6>1, <6>3
          <6> QED
            BY <4>1, <4>8, <5>2, <6>4
        <5> QED
          BY <4>1, <5>1, <5>2
      <4>12. u = [j \in 1..i |-> u[j]]
        BY <4>1, <4>10, LenProperties
      <4> QED
        BY <4>9, <4>11, <4>12
    <3> QED
      BY <3>1, <3>2
  <2>3. Bad = {}
    <3> SUFFICES ASSUME Bad # {} PROVE FALSE
      OBVIOUS
    <3>1. PICK m \in Bad : \A k \in Bad : m <= k
      <4>1. Bad \subseteq Nat
        OBVIOUS
      <4> HIDE DEF Bad
      <4> QED
        BY <4>1, Least
    <3>2. m \in 1..n /\ ~Good(m)
      OBVIOUS
    <3>3. m = 1 \/ Good(m - 1)
      <4>1. m # 1 => m - 1 \in 1..n /\ ~(m <= m - 1)
        BY <3>2
      <4> HIDE DEF Good
      <4> QED
        BY <3>1, <4>1
    <3> HIDE DEF Good
    <3> QED
      BY <2>2, <3>2, <3>3
  <2>4. Good(n)
    <3>1. n \in 1..n /\ n \notin Bad
      <4> HIDE DEF Bad
      <4> QED
        BY <1>4, <2>3
    <3> HIDE DEF Good
    <3> QED
      BY <3>1
  <2> QED
    BY <1>1, <2>1, <2>4
<1> QED
  BY <1>3, <1>4

-----------------------------------------------------------------------------
(* Bytes.                                                                  *)
LEMMA ByteFacts == /\ Radix \in Nat /\ Radix > 1 /\ Byte = 0..(Radix - 1)
                   /\ 0 \in Byte /\ <<>> \in Seq(Byte) /\ Len(<<>>) = 0
  BY EncodeAssumption

LEMMA SeqOfFunction ==
    ASSUME NEW S, NEW n \in Nat, NEW s, s = [i \in 1..n |-> s[i]], \A i \in 1..n : s[i] \in S
    PROVE  s \in Seq(S) /\ Len(s) = n
<1>1. s \in [1..n -> S]
  OBVIOUS
<1> QED
  BY <1>1, IsSeqIntro, SeqDef

LEMMA DigitsTyped ==
    ASSUME NEW width \in Nat, NEW n \in Nat
    PROVE  Digits(width, n) \in Seq(Byte) /\ Len(Digits(width, n)) = width
<1>1. PICK d : d = Digits(width, n)
  OBVIOUS
<1>2. d = [i \in 1..width |-> d[i]] /\ \A i \in 1..width : d[i] = (n \div Radix ^ (width - i)) % Radix
  BY <1>1 DEF Digits
<1>3. ASSUME NEW i \in 1..width PROVE d[i] \in Byte
  <2>1. PICK k \in Nat : k = width - i
    OBVIOUS
  <2>2. (n \div Radix ^ k) % Radix \in 0..(Radix - 1)
    BY ByteFacts
  <2>3. d[i] = (n \div Radix ^ k) % Radix
    BY <1>2, <2>1
  <2> QED
    BY <2>2, <2>3, ByteFacts
<1> QED
  BY <1>1, <1>2, <1>3, SeqOfFunction

LEMMA ResultFields ==
    /\ \A v : Ok(v).ok = TRUE /\ Ok(v).val = v
    /\ \A e : Refused(e).ok = FALSE /\ Refused(e).exc = e
    /\ \A v : Ok(v).ok
    /\ \A e : ~Refused(e).ok
<1>1. \A v : Ok(v).ok /\ Ok(v).val = v
  BY DEF Ok
<1>2. \A e : ~Refused(e).ok /\ Refused(e).exc = e
  BY DEF Refused
<1>3. (\A v : Ok(v).ok = TRUE) /\ \A e : Refused(e).ok = FALSE
  BY DEF Ok, Refused
<1> QED
  BY <1>1, <1>2, <1>3

LEMMA PackedTyped ==
    ASSUME NEW width \in Nat, NEW v, Packed(width, v).ok
    PROVE  /\ Packed(width, v).val \in Seq(Byte) /\ Len(Packed(width, v).val) = width
           /\ v.t = "int" /\ v.n \in Nat
<1>1. v.t = "int" /\ v.n \in 0..(Radix ^ width - 1)
  BY ResultFields DEF Packed
<1>2. v.n \in Nat
  BY <1>1
<1>3. Packed(width, v) = Ok(Digits(width, v.n))
  BY <1>1 DEF Packed
<1> QED
  BY <1>1, <1>2, <1>3, ResultFields, DigitsTyped

(* What is iterated: objects, as many as there are.                        *)
LEMMA ItemsClosed ==
    ASSUME NEW v, Sound(v), IsIterable(v)
    PROVE  \E S : Closed(S) /\ Items(v) \in Seq(S)
<1>1. CASE v.t = "list"
  <2>1. PICK S : v \in S /\ Closed(S)
    BY DEF Sound
  <2>2. v.at \in Seq(S)
    BY <1>1, <2>1 DEF Closed, Whole
  <2>3. Items(v) = v.at
    BY <1>1 DEF Items
  <2> QED
    BY <2>1, <2>2, <2>3
<1>2. CASE v.t = "bytes"
  <2> DEFINE S == {IntV(b) : b \in Byte}
  <2>1. v.at \in Seq(Byte)
    BY <1>2, SoundParts
  <2>2. PICK n \in Nat : n = Len(v.at) /\ DOMAIN v.at = 1..n /\ \A i \in 1..n : v.at[i] \in Byte
    BY <2>1, LenProperties, ElementOfSeq
  <2>3. PICK s : s = Items(v)
    OBVIOUS
  <2>4. s = [i \in 1..n |-> s[i]] /\ \A i \in 1..n : s[i] = IntV(v.at[i])
    BY <1>2, <2>2, <2>3 DEF Items
  <2>5. \A i \in 1..n : s[i] \in S
    BY <2>2, <2>4
  <2>6. \A w \in S : w.t = "int"
    BY SoundMade
  <2> HIDE DEF S
  <2>7. Closed(S)
    BY <2>6 DEF Closed, Whole, Shallow
  <2> QED
    BY <2>3, <2>4, <2>5, <2>7, SeqOfFunction
<1>3. CASE v.t = "map"
  <2>1. PICK key : key = Value("key", 0, <<>>)
    OBVIOUS
  <2>2. PICK n \in Nat : n = Cardinality(DOMAIN v.at)
    BY <1>3, SoundParts, FS_CardinalityType
  <2>3. PICK s : s = Items(v)
    OBVIOUS
  <2>4. s = [i \in 1..n |-> s[i]] /\ \A i \in 1..n : s[i] = key
    BY <1>3, <2>1, <2>2, <2>3 DEF Items
  <2>5. Closed({key})
    <3>1. key.t = "key"
      BY <2>1 DEF Value
    <3> QED
      BY <3>1 DEF Closed, Whole, Shallow
  <2>6. \A i \in 1..n : s[i] \in {key}
    BY <2>4
  <2> QED
    BY <2>3, <2>4, <2>5, <2>6, SeqOfFunction
<1> QED
  BY <1>1, <1>2, <1>3 DEF IsIterable

LEMMA ItemsShallow ==
    ASSUME GivenShallow, NEW v, Sound(v), IsIterable(v)
    PROVE  \A i \in 1..Len(Items(v)) : Items(v)[i].t # "list"
<1>1. CASE v.t = "list"
  BY <1>1 DEF Sound, Closed, Shallow, Items
<1>2. CASE v.t = "bytes"
  <2>1. PICK n \in Nat : n = Len(v.at) /\ DOMAIN v.at = 1..n
    BY <1>2, SoundParts, LenProperties
  <2>2. PICK s : s = Items(v)
    OBVIOUS
  <2>3. s = [i \in 1..n |-> s[i]] /\ \A i \in 1..n : s[i] = IntV(v.at[i])
    BY <1>2, <2>1, <2>2 DEF Items
  <2>4. Len(s) = n
    BY <2>3, IsSeqIntro
  <2> QED
    BY <2>2, <2>3, <2>4, SoundMade
<1>3. CASE v.t = "map"
  <2>1. PICK key : key = Value("key", 0, <<>>)
    OBVIOUS
  <2>2. PICK n \in Nat : n = Cardinality(DOMAIN v.at)
    BY <1>3, SoundParts, FS_CardinalityType
  <2>3. PICK s : s = Items(v)
    OBVIOUS
  <2>4. s = [i \in 1..n |-> s[i]] /\ \A i \in 1..n : s[i] = key
    BY <1>3, <2>1, <2>2, <2>3 DEF Items
  <2>5. Len(s) = n /\ key.t = "key"
    BY <2>1, <2>4, IsSeqIntro DEF Value
  <2> QED
    BY <2>3, <2>4, <2>5
<1> QED
  BY <1>1, <1>2, <1>3 DEF IsIterable

LEMMA ItemsSound ==
    ASSUME NEW v, Sound(v), IsIterable(v)
    PROVE  /\ IsSeq(Items(v))
           /\ \A i \in 1..Len(Items(v)) : Sound(Items(v)[i])
           /\ v.t = "bytes" => Len(Items(v)) = Len(v.at)
<1>1. PICK S : Closed(S) /\ Items(v) \in Seq(S)
  BY ItemsClosed
<1>2. IsSeq(Items(v))
  BY <1>1, SeqIsSeq
<1>3. \A i \in 1..Len(Items(v)) : Sound(Items(v)[i])
  BY <1>1, ElementOfSeq DEF Sound
<1>4. ASSUME v.t = "bytes" PROVE Len(Items(v)) = Len(v.at)
  <2>1. PICK n \in Nat : n = Len(v.at) /\ DOMAIN v.at = 1..n
    BY <1>4, SoundParts, LenProperties
  <2>2. PICK s : s = Items(v)
    OBVIOUS
  <2>3. s = [i \in 1..n |-> s[i]]
    BY <1>4, <2>1, <2>2 DEF Items
  <2> QED
    BY <2>1, <2>2, <2>3, IsSeqIntro
<1> QED
  BY <1>2, <1>3, <1>4

(* Lists taken apart.                                                      *)
Unnesting(t, items, n) == t = [i \in 0..n |-> IF i = 0 THEN items ELSE Unnest(t[i - 1])]

LEMMA UnnestingsExist == ASSUME NEW items, NEW n \in Nat PROVE \E t : Unnesting(t, items, n)
<1> DEFINE Bad == {k \in Nat : ~ \E t : Unnesting(t, items, k)}
<1> SUFFICES ASSUME Bad # {} PROVE FALSE
  OBVIOUS
<1>1. PICK m \in Bad : \A k \in Bad : m <= k
  BY Least
<1>2. m \in Nat /\ ~ \E t : Unnesting(t, items, m)
  OBVIOUS
<1>3. CASE m = 0
  <2> DEFINE t == [i \in 0..0 |-> items]
  <2>1. t = [i \in 0..0 |-> IF i = 0 THEN items ELSE Unnest(t[i - 1])]
    OBVIOUS
  <2> QED
    BY <1>2, <1>3, <2>1 DEF Unnesting
<1>4. CASE m # 0
  <2>1. m - 1 \in Nat /\ m - 1 \notin Bad
    BY <1>1, <1>2, <1>4
  <2>2. PICK t : Unnesting(t, items, m - 1)
    BY <2>1
  <2>3. t = [i \in 0..(m - 1) |-> IF i = 0 THEN items ELSE Unnest(t[i - 1])]
    BY <2>2 DEF Unnesting
  <2> DEFINE u == [i \in 0..m |-> IF i < m THEN t[i] ELSE Unnest(t[i - 1])]
  <2>4. ASSUME NEW i \in 0..m PROVE u[i] = IF i = 0 THEN items ELSE Unnest(u[i - 1])
    <3>1. CASE i < m
      BY <1>2, <1>4, <2>3, <3>1
    <3>2. CASE i = m
      BY <1>2, <1>4, <2>3, <3>2
    <3> QED
      BY <1>2, <3>1, <3>2
  <2>5. u = [i \in 0..m |-> IF i = 0 THEN items ELSE Unnest(u[i - 1])]
    BY <2>4
  <2> QED
    BY <1>2, <2>5 DEF Unnesting
<1> QED
  BY <1>3, <1>4

LEMMA FlattenIsUnnested ==
    ASSUME NEW items
    PROVE  \E t : /\ Flatten(items) = t[Nesting] /\ t[0] = items
                  /\ \A i \in 1..Nesting : t[i] = Unnest(t[i - 1])
<1> DEFINE Flat[depth \in 0..Nesting] == IF depth = 0 THEN items ELSE Unnest(Flat[depth - 1])
<1>1. Nesting \in Nat
  BY EncodeAssumption
<1>2. \E t : t = [depth \in 0..Nesting |-> IF depth = 0 THEN items ELSE Unnest(t[depth - 1])]
  BY <1>1, UnnestingsExist DEF Unnesting
<1>3. Flat = [depth \in 0..Nesting |-> IF depth = 0 THEN items ELSE Unnest(Flat[depth - 1])]
  BY <1>2
<1>4. Flatten(items) = Flat[Nesting]
  BY DEF Flatten
<1> HIDE DEF Flat
<1>5. Flat[0] = items /\ \A i \in 1..Nesting : Flat[i] = Unnest(Flat[i - 1])
  BY <1>1, <1>3
<1> QED
  BY <1>4, <1>5

LEMMA UnnestTyped ==
    ASSUME NEW S, Closed(S), NEW items \in Seq(S)
    PROVE  /\ Unnest(items) \in Seq(S)
           /\ (\A i \in 1..Len(items) : items[i].t # "list") => Unnest(items) = items
<1>1. PICK n \in Nat : n = Len(items) /\ DOMAIN items = 1..n /\ \A i \in 1..n : items[i] \in S
  BY LenProperties, ElementOfSeq
<1>2. PICK p : p = [i \in DOMAIN items |-> IF items[i].t = "list" THEN items[i].at ELSE <<items[i]>>]
  OBVIOUS
<1>3. Unnest(items) = FlattenSeq(p)
  BY <1>2 DEF Unnest
<1>4. p = [i \in 1..n |-> p[i]]
      /\ \A i \in 1..n : p[i] = IF items[i].t = "list" THEN items[i].at ELSE <<items[i]>>
  BY <1>1, <1>2
<1>5. \A i \in 1..n : p[i] \in Seq(S)
  <2> TAKE i \in 1..n
  <2>1. <<items[i]>> \in Seq(S)
    BY <1>1
  <2>2. items[i].t = "list" => items[i].at \in Seq(S)
    BY <1>1 DEF Closed, Whole
  <2> QED
    BY <1>4, <2>1, <2>2
<1>6. FlattenSeq(p) \in Seq(S)
  BY <1>4, <1>5, FlattenTyped
<1>7. ASSUME \A i \in 1..n : items[i].t # "list" PROVE FlattenSeq(p) = items
  <2>1. \A i \in 1..n : p[i] = <<items[i]>>
    BY <1>4, <1>7
  <2>2. IsSeq(items)
    BY SeqIsSeq
  <2> QED
    BY <1>1, <1>4, <2>1, <2>2, FlattenSingles
<1> QED
  BY <1>1, <1>3, <1>6, <1>7

LEMMA FlattenedTyped ==
    ASSUME NEW S, Closed(S), NEW items \in Seq(S)
    PROVE  /\ Flatten(items) \in Seq(S)
           /\ (\A i \in 1..Len(items) : items[i].t # "list") => Flatten(items) = items
<1>1. PICK t : /\ Flatten(items) = t[Nesting] /\ t[0] = items
               /\ \A i \in 1..Nesting : t[i] = Unnest(t[i - 1])
  BY FlattenIsUnnested
<1>2. Nesting \in Nat
  BY EncodeAssumption
<1> DEFINE Good(i) == t[i] \in Seq(S) /\ ((\A j \in 1..Len(items) : items[j].t # "list") => t[i] = items)
           Bad == {i \in 0..Nesting : ~Good(i)}
<1>3. Good(0)
  BY <1>1
<1>4. ASSUME NEW i \in 1..Nesting, Good(i - 1) PROVE Good(i)
  <2>1. PICK s : s = t[i - 1]
    OBVIOUS
  <2>2. t[i] = Unnest(s) /\ s \in Seq(S)
    BY <1>1, <1>4, <2>1
  <2>3. Unnest(s) \in Seq(S) /\ ((\A j \in 1..Len(s) : s[j].t # "list") => Unnest(s) = s)
    BY <2>2, UnnestTyped
  <2> QED
    BY <1>4, <2>1, <2>2, <2>3
<1>5. Bad = {}
  <2> SUFFICES ASSUME Bad # {} PROVE FALSE
    OBVIOUS
  <2>1. PICK m \in Bad : \A k \in Bad : m <= k
    <3>1. Bad \subseteq Nat
      OBVIOUS
    <3> HIDE DEF Bad
    <3> QED
      BY <3>1, Least
  <2>2. m \in 0..Nesting /\ ~Good(m)
    OBVIOUS
  <2>3. m = 0 \/ Good(m - 1)
    <3>1. m # 0 => m - 1 \in 0..Nesting /\ ~(m <= m - 1)
      BY <1>2, <2>2
    <3> HIDE DEF Good
    <3> QED
      BY <2>1, <3>1
  <2> HIDE DEF Good
  <2> QED
    BY <1>2, <1>3, <1>4, <2>2, <2>3
<1>6. Good(Nesting)
  <2>1. Nesting \in 0..Nesting /\ Nesting \notin Bad
    <3> HIDE DEF Bad
    <3> QED
      BY <1>2, <1>5
  <2> HIDE DEF Good
  <2> QED
    BY <2>1
<1> QED
  BY <1>1, <1>6

(* The numbers of an array, packed at once.                                *)
LEMMA FastBytesTyped ==
    ASSUME NEW f \in Fmt, Node[f].kind = "array", Node[Node[f].subs[1]].kind = "int",
           NEW v, Sound(v), IsIterable(v), FastBytes(Node[f], v).ok
    PROVE  /\ FastBytes(Node[f], v).val \in Seq(Byte)
           /\ (\A i \in 1..Len(Items(v)) : Items(v)[i].t # "list") =>
                 Len(FastBytes(Node[f], v).val) = Len(Items(v)) * Node[Node[f].subs[1]].num
<1>1. PICK w \in Nat : w = Node[Node[f].subs[1]].num
  BY FormatAssumption, SubsAreFormats DEF WrapKinds
<1>2. PICK S : Closed(S) /\ Items(v) \in Seq(S)
  BY ItemsClosed
<1>3. PICK flat : flat = Flatten(Items(v))
  OBVIOUS
<1>4. /\ flat \in Seq(S)
      /\ (\A i \in 1..Len(Items(v)) : Items(v)[i].t # "list") => flat = Items(v)
  BY <1>2, <1>3, FlattenedTyped
<1>5. PICK n \in Nat : n = Len(flat) /\ DOMAIN flat = 1..n
  BY <1>4, LenProperties
<1>6. PICK words : words = [i \in DOMAIN flat |-> Packed(w, flat[i])]
  OBVIOUS
<1>7. PICK vals : vals = [i \in DOMAIN words |-> words[i].val]
  OBVIOUS
<1>8. PICK bad : bad = {i \in DOMAIN words : ~words[i].ok}
  OBVIOUS
<1>9. FastBytes(Node[f], v) = IF bad = {} THEN Ok(FlattenSeq(vals)) ELSE Refused("Number")
  BY <1>1, <1>3, <1>6, <1>7, <1>8 DEF FastBytes
<1>10. bad = {} /\ FastBytes(Node[f], v).val = FlattenSeq(vals)
  BY <1>9, ResultFields
<1>11. \A i \in 1..n : words[i] = Packed(w, flat[i]) /\ words[i].ok /\ vals[i] = words[i].val
  BY <1>5, <1>6, <1>7, <1>8, <1>10
<1>12. \A i \in 1..n : vals[i] \in Seq(Byte) /\ Len(vals[i]) = w
  BY <1>11, PackedTyped
<1>13. vals = [i \in 1..n |-> vals[i]]
  BY <1>5, <1>6, <1>7
<1>14. FlattenSeq(vals) \in Seq(Byte) /\ Len(FlattenSeq(vals)) = n * w
  BY <1>12, <1>13, FlattenTyped
<1> QED
  BY <1>1, <1>4, <1>5, <1>10, <1>14

(* What the leaves write.                                                  *)
LEMMA LeafTyped ==
    ASSUME NEW f \in Fmt, Node[f].kind \in LeafKinds, NEW v, Sound(v), LeafWrite(Node[f], v).ok
    PROVE  /\ LeafWrite(Node[f], v).val \in Seq(Byte)
           /\ Fixed(f) => Len(LeafWrite(Node[f], v).val) = SizeOf[f]
           /\ Node[f].kind = "int" => v.n \in Nat
<1> DEFINE N == Node[f]
<1>1. /\ N.num \in Nat
      /\ N.kind \in {"literal", "takeuntil"} => N.num \in Byte
  BY FormatAssumption
<1>2. CASE N.kind = "int"
  <2>1. LeafWrite(N, v) = Packed(N.num, v)
    BY <1>2 DEF LeafWrite
  <2>2. SizeOf[f] = N.num
    BY <1>2, SizesByKind
  <2> QED
    BY <1>1, <2>1, <2>2, PackedTyped
<1>3. CASE N.kind = "bytes"
  <2>1. /\ v.t = "bytes" /\ LeafWrite(N, v) = Ok(v.at)
        /\ ~(N.mode = "const" /\ IsIterable(v) /\ Len(Items(v)) # N.num)
    BY <1>3, ResultFields DEF LeafWrite
  <2>2. v.at \in Seq(Byte) /\ LeafWrite(N, v).val = v.at
    BY <2>1, SoundParts, ResultFields
  <2>3. IsIterable(v) /\ Len(Items(v)) = Len(v.at)
    BY <2>1, ItemsSound DEF IsIterable
  <2>4. Fixed(f) => SizeOf[f] = N.num /\ N.mode = "const"
    BY <1>3, SizesByKind, Sizeless, FormatAssumption
  <2> QED
    BY <1>3, <2>1, <2>2, <2>3, <2>4
<1>4. CASE N.kind = "takeuntil"
  <2>1. v.t = "bytes" /\ LeafWrite(N, v) = Ok(Append(v.at, N.num))
    BY <1>4, ResultFields DEF LeafWrite
  <2>2. v.at \in Seq(Byte) /\ LeafWrite(N, v).val = Append(v.at, N.num)
    BY <2>1, SoundParts, ResultFields
  <2>3. Append(v.at, N.num) \in Seq(Byte)
    BY <1>1, <1>4, <2>2, AppendProperties
  <2>4. ~Fixed(f)
    BY <1>4, Sizeless
  <2> QED
    BY <1>4, <2>2, <2>3, <2>4
<1>5. CASE N.kind = "literal"
  <2>1. LeafWrite(N, v) = Ok(<<N.num>>)
    BY <1>5, ResultFields DEF LeafWrite
  <2>2. LeafWrite(N, v).val = <<N.num>>
    BY <2>1, ResultFields
  <2>3. <<N.num>> \in Seq(Byte) /\ Len(<<N.num>>) = 1
    BY <1>1, <1>5
  <2>4. SizeOf[f] = 1
    BY <1>5, SizesByKind
  <2> QED
    BY <1>5, <2>2, <2>3, <2>4
<1>6. CASE N.kind = "null"
  <2>1. LeafWrite(N, v) = Ok(<<>>)
    BY <1>6, ResultFields DEF LeafWrite
  <2>2. LeafWrite(N, v).val = <<>>
    BY <2>1, ResultFields
  <2>3. SizeOf[f] = 0
    BY <1>6, SizesByKind
  <2> QED
    BY <1>6, <2>2, <2>3, ByteFacts
<1> QED
  BY <1>2, <1>3, <1>4, <1>5, <1>6 DEF LeafKinds

(* A Ref finds a sound object or none.                                     *)
ParentsSound == Len(parents) > 0 /\ \A i \in 1..Len(parents) : Sound(parents[i])

LEMMA ResolveTyped ==
    ASSUME ParentsSound, IsSeq(parents), NEW ref, ref.parent \in Nat, Resolve(ref).ok
    PROVE  Sound(Resolve(ref).val)
<1>1. PICK level : level = IF ref.parent = 0 THEN 1 ELSE Len(parents) - ref.parent + 1
  OBVIOUS
<1>2. Resolve(ref) = IF level < 1 THEN Refused("Key")
                     ELSE LET target == parents[level]
                          IN  IF target.t # "map" THEN Refused("Type")
                              ELSE IF ref.key \in DOMAIN target.at THEN Ok(target.at[ref.key])
                              ELSE Refused("Key")
  BY <1>1 DEF Resolve
<1>3. PICK target : target = parents[level]
  OBVIOUS
<1>4. /\ ~(level < 1) /\ target.t = "map" /\ ref.key \in DOMAIN target.at
      /\ Resolve(ref) = Ok(target.at[ref.key])
  BY <1>2, <1>3, ResultFields
<1>5. level \in 1..Len(parents)
  <2>1. Len(parents) \in Nat /\ Len(parents) > 0
    BY DEF ParentsSound, IsSeq
  <2> QED
    BY <1>1, <1>4, <2>1
<1>6. Sound(target)
  BY <1>3, <1>5 DEF ParentsSound
<1>7. Sound(target.at[ref.key])
  BY <1>4, <1>6, SoundParts
<1> QED
  BY <1>4, <1>7, ResultFields

LEMMA FieldTyped ==
    ASSUME NEW f \in Fmt, NEW i, NEW obj, Sound(obj), FieldValue(Node[f], i, obj).ok
    PROVE  Sound(FieldValue(Node[f], i, obj).val)
<1> DEFINE N == Node[f]
           S == Node[N.subs[i]]
<1>1. PICK wanted : wanted = IF IsInline(S) THEN {Node[S.subs[1]].keys[j] : j \in DOMAIN Node[S.subs[1]].keys}
                             ELSE IF IsConstant(S) THEN {} ELSE {N.keys[i]}
  OBVIOUS
<1>2. FieldValue(N, i, obj) =
         IF obj.t # "map" THEN Refused("Type")
         ELSE IF ~(wanted \subseteq DOMAIN obj.at) THEN Refused("Key")
         ELSE IF IsInline(S) THEN Ok(MapV([k \in wanted |-> obj.at[k]]))
         ELSE IF N.keys[i] \in DOMAIN obj.at THEN Ok(obj.at[N.keys[i]]) ELSE Ok(NoneV)
  BY <1>1 DEF FieldValue
<1> HIDE DEF S
<1>3. obj.t = "map" /\ wanted \subseteq DOMAIN obj.at
  BY <1>2, ResultFields
<1>4. IsFiniteSet(DOMAIN obj.at) /\ \A k \in DOMAIN obj.at : Sound(obj.at[k])
  BY <1>3, SoundParts
<1>5. CASE IsInline(S)
  <2>1. PICK g : g = [k \in wanted |-> obj.at[k]]
    OBVIOUS
  <2>2. DOMAIN g = wanted /\ \A k \in wanted : g[k] = obj.at[k]
    BY <2>1
  <2>3. IsFiniteSet(DOMAIN g) /\ \A k \in DOMAIN g : Sound(g[k])
    BY <1>3, <1>4, <2>2, FS_Subset
  <2>4. Sound(MapV(g))
    BY <2>3, SoundMap
  <2>5. FieldValue(N, i, obj) = Ok(MapV(g))
    BY <1>2, <1>3, <1>5, <2>1
  <2> QED
    BY <2>4, <2>5, ResultFields
<1>6. CASE ~IsInline(S)
  <2>1. \/ N.keys[i] \in DOMAIN obj.at /\ FieldValue(N, i, obj) = Ok(obj.at[N.keys[i]])
        \/ FieldValue(N, i, obj) = Ok(NoneV)
    BY <1>2, <1>3, <1>6
  <2>2. Sound(NoneV)
    BY SoundMade
  <2>3. PICK w : FieldValue(N, i, obj) = Ok(w) /\ Sound(w)
    BY <1>4, <2>1, <2>2
  <2> QED
    BY <2>3, ResultFields
<1> QED
  BY <1>5, <1>6

LEMMA TagTyped ==
    ASSUME ParentsSound, IsSeq(parents), NEW f \in Fmt, NEW v, Sound(v), TagForEncode(Node[f], v).ok
    PROVE  Sound(TagForEncode(Node[f], v).val)
<1>1. PICK sibling : sibling = Resolve(Node[f].ref)
  OBVIOUS
<1>2. sibling.ok => Sound(sibling.val)
  BY <1>1, FormatAssumption, ResolveTyped
<1>3. Sound(ValueTag(Node[f], v))
  BY SoundParts, SoundMade DEF ValueTag, Has
<1>4. \/ TagForEncode(Node[f], v) = Ok(ValueTag(Node[f], v))
      \/ sibling.ok /\ TagForEncode(Node[f], v) = sibling
  BY <1>1, ResultFields DEF TagForEncode
<1> QED
  BY <1>2, <1>3, <1>4, ResultFields

(* A mapping with the tags of its unions filled in.                        *)
LEMMA PrefillSound ==
    ASSUME NEW obj, Sound(obj), NEW key, NEW tag
    PROVE  Sound(Prefill(obj, key, tag))
<1> DEFINE filled == Has(obj, key) /\ ~Has(obj, tag) /\ Has(obj.at[key], tag) /\ obj.at[key].at[tag] # NoneV
<1>1. CASE filled
  <2>1. PICK g : g = [k \in DOMAIN obj.at \cup {tag} |-> IF k = tag THEN obj.at[key].at[tag] ELSE obj.at[k]]
    OBVIOUS
  <2>2. Prefill(obj, key, tag) = MapV(g)
    BY <1>1, <2>1 DEF Prefill
  <2>3. /\ obj.t = "map" /\ key \in DOMAIN obj.at
        /\ obj.at[key].t = "map" /\ tag \in DOMAIN obj.at[key].at
    BY <1>1 DEF Has
  <2>4. IsFiniteSet(DOMAIN obj.at) /\ \A k \in DOMAIN obj.at : Sound(obj.at[k])
    BY <2>3, SoundParts
  <2>5. Sound(obj.at[key].at[tag])
    <3>1. PICK inner : inner = obj.at[key]
      OBVIOUS
    <3>2. Sound(inner) /\ inner.t = "map" /\ tag \in DOMAIN inner.at
      BY <2>3, <2>4, <3>1
    <3>3. Sound(inner.at[tag])
      BY <3>2, SoundParts
    <3> QED
      BY <3>1, <3>3
  <2>6. DOMAIN g = DOMAIN obj.at \cup {tag} /\ \A k \in DOMAIN g : Sound(g[k])
    BY <2>1, <2>4, <2>5
  <2>7. IsFiniteSet(DOMAIN g)
    BY <2>4, <2>6, FS_AddElement
  <2> QED
    BY <2>2, <2>6, <2>7, SoundMap
<1>2. CASE ~filled
  <2>1. Prefill(obj, key, tag) = obj
    BY <1>2 DEF Prefill
  <2> QED
    BY <2>1
<1> QED
  BY <1>1, <1>2

Refilled(N, i, o) == IF Node[N.subs[i]].kind = "union" /\ Node[N.subs[i]].mode = "ref"
                     THEN Prefill(o, N.keys[i], Node[N.subs[i]].ref.key) ELSE o

Filling(t, N, obj, n) == t = [i \in 0..n |-> IF i = 0 THEN obj ELSE Refilled(N, i, t[i - 1])]

LEMMA FillingsExist == ASSUME NEW N, NEW obj, NEW n \in Nat PROVE \E t : Filling(t, N, obj, n)
<1> DEFINE Bad == {k \in Nat : ~ \E t : Filling(t, N, obj, k)}
<1> SUFFICES ASSUME Bad # {} PROVE FALSE
  OBVIOUS
<1>1. PICK m \in Bad : \A k \in Bad : m <= k
  BY Least
<1>2. m \in Nat /\ ~ \E t : Filling(t, N, obj, m)
  OBVIOUS
<1>3. CASE m = 0
  <2> DEFINE t == [i \in 0..0 |-> obj]
  <2>1. t = [i \in 0..0 |-> IF i = 0 THEN obj ELSE Refilled(N, i, t[i - 1])]
    OBVIOUS
  <2> QED
    BY <1>2, <1>3, <2>1 DEF Filling
<1>4. CASE m # 0
  <2>1. m - 1 \in Nat /\ m - 1 \notin Bad
    BY <1>1, <1>2, <1>4
  <2>2. PICK t : Filling(t, N, obj, m - 1)
    BY <2>1
  <2>3. t = [i \in 0..(m - 1) |-> IF i = 0 THEN obj ELSE Refilled(N, i, t[i - 1])]
    BY <2>2 DEF Filling
  <2> DEFINE u == [i \in 0..m |-> IF i < m THEN t[i] ELSE Refilled(N, i, t[i - 1])]
  <2>4. ASSUME NEW i \in 0..m PROVE u[i] = IF i = 0 THEN obj ELSE Refilled(N, i, u[i - 1])
    <3>1. CASE i < m
      BY <1>2, <1>4, <2>3, <3>1
    <3>2. CASE i = m
      BY <1>2, <1>4, <2>3, <3>2
    <3> QED
      BY <1>2, <3>1, <3>2
  <2>5. u = [i \in 0..m |-> IF i = 0 THEN obj ELSE Refilled(N, i, u[i - 1])]
    BY <2>4
  <2> QED
    BY <1>2, <2>5 DEF Filling
<1> QED
  BY <1>3, <1>4

LEMMA PrefilledSound ==
    ASSUME NEW f \in Fmt, NEW obj, Sound(obj)
    PROVE  Sound(Prefilled(Node[f], obj))
<1> DEFINE N == Node[f]
           upto[i \in 0..Len(N.subs)] ==
              IF i = 0 THEN obj
              ELSE IF Node[N.subs[i]].kind = "union" /\ Node[N.subs[i]].mode = "ref"
                   THEN Prefill(upto[i - 1], N.keys[i], Node[N.subs[i]].ref.key)
                   ELSE upto[i - 1]
<1>1. PICK n \in Nat : n = Len(N.subs)
  BY FormatAssumption, LenProperties
<1>2. \E t : t = [i \in 0..Len(N.subs) |->
                     IF i = 0 THEN obj
                     ELSE IF Node[N.subs[i]].kind = "union" /\ Node[N.subs[i]].mode = "ref"
                          THEN Prefill(t[i - 1], N.keys[i], Node[N.subs[i]].ref.key)
                          ELSE t[i - 1]]
  <2>0. PICK t : Filling(t, N, obj, n)
    BY FillingsExist
  <2> HIDE DEF N
  <2>1. t = [i \in 0..n |-> IF i = 0 THEN obj ELSE Refilled(N, i, t[i - 1])]
    BY <2>0 DEF Filling
  <2>2. t = [i \in 0..Len(N.subs) |->
                IF i = 0 THEN obj
                ELSE IF Node[N.subs[i]].kind = "union" /\ Node[N.subs[i]].mode = "ref"
                     THEN Prefill(t[i - 1], N.keys[i], Node[N.subs[i]].ref.key)
                     ELSE t[i - 1]]
    BY <1>1, <2>1, Zenon DEF Refilled
  <2> QED
    BY <2>2
<1>3. upto = [i \in 0..Len(N.subs) |->
                 IF i = 0 THEN obj
                 ELSE IF Node[N.subs[i]].kind = "union" /\ Node[N.subs[i]].mode = "ref"
                      THEN Prefill(upto[i - 1], N.keys[i], Node[N.subs[i]].ref.key)
                      ELSE upto[i - 1]]
  BY <1>2
<1>4. Prefilled(N, obj) = upto[n]
  BY <1>1 DEF Prefilled
<1> HIDE DEF upto
<1>5. upto[0] = obj /\ \A i \in 1..n : upto[i] = Refilled(N, i, upto[i - 1])
  BY <1>1, <1>3 DEF Refilled
<1> DEFINE Bad == {i \in 0..n : ~Sound(upto[i])}
<1>6. Bad = {}
  <2> SUFFICES ASSUME Bad # {} PROVE FALSE
    OBVIOUS
  <2>1. PICK m \in Bad : \A k \in Bad : m <= k
    <3>1. Bad \subseteq Nat
      OBVIOUS
    <3> HIDE DEF Bad
    <3> QED
      BY <3>1, Least
  <2>2. m \in 0..n /\ ~Sound(upto[m]) /\ m # 0
    BY <1>5
  <2>3. Sound(upto[m - 1])
    <3>1. m - 1 \in 0..n /\ ~(m <= m - 1)
      BY <2>2
    <3> QED
      BY <2>1, <3>1
  <2>4. Sound(Refilled(N, m, upto[m - 1]))
    BY <2>3, PrefillSound DEF Refilled
  <2> QED
    BY <1>5, <2>2, <2>4
<1> QED
  <2>1. n \in 0..n /\ n \notin Bad
    <3> HIDE DEF Bad
    <3> QED
      BY <1>6
  <2> QED
    BY <1>4, <2>1

-----------------------------------------------------------------------------
(* Streams.                                                                *)
StreamFields == {"data", "pos", "seekable", "own", "torn"}

IsStream(s) == /\ DOMAIN s = StreamFields
               /\ s.data \in Seq(Byte) /\ s.pos \in Nat

LEMMA NewStream == ASSUME NEW b PROVE IsStream(Stream(b)) /\ Stream(b).pos = 0
  BY ByteFacts DEF IsStream, StreamFields, Stream

LEMMA SeekTyped ==
    ASSUME NEW s, IsStream(s), NEW p \in Nat
    PROVE  /\ IsStream(Seek(s, p)) /\ Seek(s, p).seekable = s.seekable
           /\ s.seekable => Seek(s, p).pos = p
  BY DEF IsStream, StreamFields, Seek

LEMMA WriteTyped ==
    ASSUME NEW s, IsStream(s), NEW b \in Seq(Byte)
    PROVE  /\ IsStream(Write(s, b)) /\ Write(s, b).seekable = s.seekable
           /\ Write(s, b).pos = s.pos + Len(b)
<1>1. PICK len \in Nat : len = Len(s.data) /\ \A i \in 1..len : s.data[i] \in Byte
  BY LenProperties, ElementOfSeq DEF IsStream
<1>2. PICK l \in Nat : l = Len(b) /\ \A i \in 1..l : b[i] \in Byte
  BY LenProperties, ElementOfSeq
<1>3. PICK p \in Nat : p = s.pos
  BY DEF IsStream
<1>4. PICK last \in Nat : last = IF b = <<>> \/ p + l < len THEN len ELSE p + l
  BY <1>1, <1>2, <1>3
<1>5. PICK d : d = [i \in 1..last |-> IF i \in (p + 1)..(p + l) THEN b[i - p]
                                      ELSE IF i <= len THEN s.data[i] ELSE 0]
  OBVIOUS
<1>6. d \in Seq(Byte)
  <2>1. ASSUME NEW i \in 1..last PROVE d[i] \in Byte
    <3>1. CASE i \in (p + 1)..(p + l)
      <4>1. i - p \in 1..l
        BY <3>1
      <4> QED
        BY <1>2, <1>5, <3>1, <4>1
    <3>2. CASE i \notin (p + 1)..(p + l) /\ i <= len
      BY <1>1, <1>5, <3>2
    <3>3. CASE i \notin (p + 1)..(p + l) /\ ~(i <= len)
      BY <1>5, <3>3, ByteFacts
    <3> QED
      BY <3>1, <3>2, <3>3
  <2>2. d = [i \in 1..last |-> d[i]]
    BY <1>5
  <2> QED
    BY <2>1, <2>2, SeqOfFunction
<1>7. PICK own, torn : Write(s, b) = [s EXCEPT !.data = d, !.pos = p + l, !.own = own, !.torn = torn]
  BY <1>1, <1>2, <1>3, <1>4, <1>5 DEF Write
<1>8. p + l \in Nat /\ DOMAIN s = StreamFields
  BY DEF IsStream
<1> QED
  BY <1>2, <1>3, <1>6, <1>7, <1>8 DEF IsStream, StreamFields

(* What an array writes before its items, or with them.                    *)
LEMMA PrologueTyped ==
    ASSUME ParentsSound, IsSeq(parents), NEW f \in Fmt, Node[f].kind = "array",
           NEW v, Sound(v), Prologue(Node[f], v).ok
    PROVE  /\ Prologue(Node[f], v).val \in Seq(Byte)
           /\ IsIterable(v)
           /\ Node[f].mode = "const" => Len(Items(v)) = Node[f].num
           /\ Node[f].mode # "prefix" /\ ~IsFast(Node[f]) => Prologue(Node[f], v).val = <<>>
           /\ IsFast(Node[f]) => Prologue(Node[f], v) = FastBytes(Node[f], v)
<1> DEFINE N == Node[f]
<1>1. CASE N.mode = "prefix"
  <2>1. IsIterable(v) /\ Prologue(N, v) = Packed(1, IntV(Len(Items(v))))
    BY <1>1, ResultFields DEF Prologue
  <2>2. Prologue(N, v).val \in Seq(Byte)
    BY <2>1, PackedTyped
  <2>3. ~IsFast(N)
    BY <1>1 DEF IsFast
  <2> QED
    BY <1>1, <2>1, <2>2, <2>3
<1>2. CASE N.mode # "prefix"
  <2>1. PICK e : e = Expected(N)
    OBVIOUS
  <2>2. /\ e.ok /\ IsIterable(v) /\ e.val \in {NoneV, IntV(Len(Items(v)))}
        /\ Prologue(N, v) = IF IsFast(N) THEN FastBytes(N, v) ELSE Ok(<<>>)
    <3>1. Prologue(N, v) =
             IF ~e.ok THEN e
             ELSE IF ~IsIterable(v) THEN Refused(IF IsFast(N) /\ N.mode # "greedy" THEN "Value" ELSE "Type")
             ELSE IF e.val \notin {NoneV, IntV(Len(Items(v)))} THEN Refused("Value")
             ELSE IF IsFast(N) THEN FastBytes(N, v) ELSE Ok(<<>>)
      BY <1>2, <2>1 DEF Prologue
    <3>2. e.ok
      BY <3>1
    <3>3. IsIterable(v)
      BY <3>1, <3>2, ResultFields
    <3>4. e.val \in {NoneV, IntV(Len(Items(v)))}
      BY <3>1, <3>2, <3>3, ResultFields
    <3> QED
      BY <3>1, <3>2, <3>3, <3>4
  <2>3. ASSUME N.mode = "const" PROVE Len(Items(v)) = N.num
    <3>1. e = Ok(IntV(N.num))
      BY <2>1, <2>3 DEF Expected
    <3>2. e.val = IntV(N.num)
      BY <3>1, ResultFields
    <3>3. IntV(N.num) # NoneV
      BY DEF IntV, NoneV, Value
    <3>4. IntV(N.num) = IntV(Len(Items(v)))
      BY <2>2, <3>2, <3>3
    <3>5. IntV(N.num).n = N.num /\ IntV(Len(Items(v))).n = Len(Items(v))
      BY SoundMade
    <3> QED
      BY <3>4, <3>5
  <2>4. CASE IsFast(N)
    <3>1. Prologue(N, v) = FastBytes(N, v) /\ Node[N.subs[1]].kind = "int"
      BY <2>2, <2>4 DEF IsFast
    <3>2. Prologue(N, v).val \in Seq(Byte)
      BY <2>2, <3>1, FastBytesTyped
    <3> QED
      BY <2>2, <2>3, <2>4, <3>1, <3>2
  <2>5. CASE ~IsFast(N)
    <3>1. Prologue(N, v).val = <<>>
      BY <2>2, <2>5, ResultFields
    <3> QED
      BY <2>2, <2>3, <2>5, <3>1, ByteFacts
  <2> QED
    BY <2>4, <2>5
<1> QED
  BY <1>1, <1>2

(* What a Sized writes: its length, its value and the padding.             *)
LEMMA HeadTyped ==
    ASSUME NEW f \in Fmt, NEW len \in Nat, LengthHead(Node[f], len).ok
    PROVE  /\ Node[f].mode = "prefix" => LengthHead(Node[f], len).val \in Seq(Byte)
           /\ Node[f].mode = "const" => LengthHead(Node[f], len).val = <<>> /\ len <= Node[f].num
           /\ LengthHead(Node[f], len).val \in Seq(Byte)
<1> DEFINE N == Node[f]
<1>1. PICK sibling : sibling = Resolve(N.ref)
  OBVIOUS
<1>2. LengthHead(N, len) =
         IF N.mode = "ref"
         THEN IF sibling.ok /\ sibling.val # IntV(len) THEN Refused("Value")
              ELSE IF sibling.ok THEN Ok(<<>>) ELSE sibling
         ELSE IF N.mode = "const" THEN IF len > N.num THEN Refused("Value") ELSE Ok(<<>>)
         ELSE Packed(1, IntV(len))
  BY <1>1 DEF LengthHead
<1>3. CASE N.mode = "ref"
  <2>1. LengthHead(N, len) = Ok(<<>>)
    BY <1>2, <1>3, ResultFields
  <2> QED
    BY <1>3, <2>1, ResultFields, ByteFacts
<1>4. CASE N.mode = "const"
  <2>1. LengthHead(N, len) = Ok(<<>>) /\ ~(len > N.num) /\ N.num \in Nat
    BY <1>2, <1>4, ResultFields, FormatAssumption
  <2>2. LengthHead(N, len).val = <<>> /\ len <= N.num
    BY <2>1, ResultFields
  <2> QED
    BY <1>4, <2>2, ByteFacts
<1>5. CASE N.mode \notin {"ref", "const"}
  <2>1. LengthHead(N, len) = Packed(1, IntV(len))
    BY <1>2, <1>5
  <2>2. LengthHead(N, len).val \in Seq(Byte)
    BY <2>1, PackedTyped
  <2> QED
    BY <1>5, <2>2
<1> QED
  BY <1>3, <1>4, <1>5

LEMMA RepeatedTyped ==
    ASSUME NEW fill \in Seq(Byte), NEW n \in Nat
    PROVE  Repeated(fill, n) \in Seq(Byte) /\ Len(Repeated(fill, n)) = n * Len(fill)
<1>1. PICK m \in Nat : m = Len(fill) /\ \A i \in 1..m : fill[i] \in Byte
  BY LenProperties, ElementOfSeq
<1>2. PICK p \in Nat : p = n * m
  OBVIOUS
<1>3. PICK z : z = Repeated(fill, n)
  OBVIOUS
<1>4. z = [i \in 1..p |-> fill[((i - 1) % m) + 1]]
  BY <1>1, <1>2, <1>3 DEF Repeated
<1>5. ASSUME NEW i \in 1..p PROVE z[i] \in Byte
  <2>1. m > 0
    <3>1. m = 0 => p = 0
      BY <1>2
    <3> QED
      BY <3>1
  <2>2. ((i - 1) % m) + 1 \in 1..m
    BY <2>1
  <2> QED
    BY <1>1, <1>4, <2>2
<1>6. z = [i \in 1..p |-> z[i]]
  BY <1>4
<1>7. z \in Seq(Byte) /\ Len(z) = p
  BY <1>5, <1>6, SeqOfFunction
<1> QED
  BY <1>1, <1>2, <1>3, <1>7

LEMMA PaddingTyped ==
    ASSUME NEW f \in Fmt, NEW len \in Nat, Node[f].mode = "const" => len <= Node[f].num
    PROVE  LET z == Repeated(Node[f].fill, PadLen(Node[f], len))
           IN  /\ PadLen(Node[f], len) \in Nat
               /\ z \in Seq(Byte)
               /\ Len(z) = PadLen(Node[f], len) * Len(Node[f].fill)
<1>1. PICK n \in Nat : n = PadLen(Node[f], len)
  <2>1. PICK a \in Nat : a = Node[f].align
    BY FormatAssumption
  <2>2. PICK num \in Nat : num = Node[f].num
    BY FormatAssumption
  <2>3. CASE Node[f].mode = "const"
    BY <2>2, <2>3 DEF PadLen
  <2>4. CASE Node[f].mode # "const" /\ a = 0
    BY <2>1, <2>4 DEF PadLen
  <2>5. CASE Node[f].mode # "const" /\ a # 0
    <3>1. a \in Nat /\ a > 0
      BY <2>5
    <3>2. len % a \in Int
      BY <3>1
    <3>3. (a - (len % a)) % a \in Nat
      BY <3>1, <3>2
    <3> QED
      BY <2>1, <2>5, <3>3 DEF PadLen
  <2> QED
    BY <2>3, <2>4, <2>5
<1>2. Node[f].fill \in Seq(Byte)
  BY FormatAssumption
<1> QED
  BY <1>1, <1>2, RepeatedTyped

LEMMA FramesTyped ==
    ASSUME NEW f \in Fmt, NEW data \in Seq(Byte), LengthHead(Node[f], Len(data)).ok
    PROVE  LET frame == LengthHead(Node[f], Len(data)).val \o data
                            \o Repeated(Node[f].fill, PadLen(Node[f], Len(data)))
           IN  /\ frame \in Seq(Byte)
               /\ Node[f].mode = "const" /\ Len(Node[f].fill) = 1 => Len(frame) = Node[f].num
<1>1. PICK len \in Nat : len = Len(data)
  BY LenProperties
<1>2. PICK h \in Seq(Byte) : h = LengthHead(Node[f], Len(data)).val
  BY <1>1, HeadTyped
<1>3. Node[f].mode = "const" => h = <<>> /\ len <= Node[f].num
  BY <1>1, <1>2, HeadTyped
<1>4. PICK z \in Seq(Byte) : /\ z = Repeated(Node[f].fill, PadLen(Node[f], Len(data)))
                             /\ Len(z) = PadLen(Node[f], len) * Len(Node[f].fill)
                             /\ PadLen(Node[f], len) \in Nat
  BY <1>1, <1>3, PaddingTyped
<1>5. /\ h \o data \in Seq(Byte) /\ Len(h \o data) = Len(h) + Len(data)
      /\ (h \o data) \o z \in Seq(Byte) /\ Len((h \o data) \o z) = Len(h \o data) + Len(z)
  <2>1. h \o data \in Seq(Byte) /\ Len(h \o data) = Len(h) + Len(data)
    BY ConcatProperties
  <2>2. PICK g \in Seq(Byte) : g = h \o data
    BY <2>1
  <2>3. g \o z \in Seq(Byte) /\ Len(g \o z) = Len(g) + Len(z)
    BY ConcatProperties
  <2> QED
    BY <2>1, <2>2, <2>3
<1>6. Node[f].mode = "const" /\ Len(Node[f].fill) = 1 => Len((h \o data) \o z) = Node[f].num
  <2> SUFFICES ASSUME Node[f].mode = "const", Len(Node[f].fill) = 1
               PROVE  Len((h \o data) \o z) = Node[f].num
    OBVIOUS
  <2>0. Len(z) = PadLen(Node[f], len)
    BY <1>4
  <2>1. Len(h) = 0 /\ Len(z) = Node[f].num - len /\ Node[f].num \in Nat
    BY <1>3, <2>0, ByteFacts, FormatAssumption DEF PadLen
  <2> QED
    BY <1>1, <1>5, <2>1
<1> QED
  BY <1>2, <1>4, <1>5, <1>6

-----------------------------------------------------------------------------
(* What every variable holds, for as long as objects are what Python can   *)
(* build.                                                                  *)
Causes == Refusals \cup {"", "Recursion"}
Places == {"enter", "loop", "items", "offset", "tag", "inner", "exit"}

ScalarsTyped == /\ inspect \in Inspects /\ exc \in Causes
                /\ curFmt \in Fmt /\ err.fmt \in Fmt

StreamsTyped == \A i \in 1..Len(streams) : IsStream(streams[i])

ContextTyped == ParentsSound /\ \A i \in 1..Len(path) : path[i] \in Keys

(* The items of an array have been counted before the first is encoded,    *)
(* and an object without offset or value is no pointer's.                  *)
Fit(F) ==
    /\ F.fmt \in Fmt /\ F.at \in Places /\ Sound(F.obj)
    /\ F.idx \in Nat /\ F.saved \in Nat /\ F.pos0 \in Nat
    /\ Node[F.fmt].kind \in {"map", "array"} /\ F.at = "enter" => F.idx = 0
    /\ Node[F.fmt].kind = "array" /\ F.at = "items" =>
          /\ IsIterable(F.obj)
          /\ Node[F.fmt].mode = "const" => Len(Items(F.obj)) = Node[F.fmt].num
    /\ Node[F.fmt].kind = "pointer" /\ F.at \in {"offset", "inner"} =>
          Has(F.obj, "offset") /\ Has(F.obj, "value")

(* Where a frame stands that has called another, and what it has called:   *)
(* as far as the size, or the object, of the called format matters to it.  *)
Stepping(F) ==
    /\ Node[F.fmt].kind \in {"map", "tuple"} => F.idx \in DOMAIN Node[F.fmt].subs
    /\ Node[F.fmt].kind = "array" => F.idx > 0
    /\ Node[F.fmt].kind = "pointer" => F.at \in {"offset", "inner"}

Called(F, f, obj) ==
    /\ Node[F.fmt].kind \in {"map", "tuple"} => f = Node[F.fmt].subs[F.idx]
    /\ Node[F.fmt].kind \in {"array", "scale"} => f = Node[F.fmt].subs[1]
    /\ Node[F.fmt].kind = "pointer" /\ F.at = "offset" =>
          f = Node[F.fmt].subs[1] /\ obj = F.obj.at["offset"]

Calls(F, G) == Stepping(F) /\ Called(F, G.fmt, G.obj)

FramesFit(stack, n) == /\ \A i \in 1..n : Fit(stack[i])
                       /\ \A i \in 1..(n - 1) : Calls(stack[i], stack[i + 1])

StackTyped == FramesFit(frames, Len(frames))

(* An integer that was encoded was one.                                    *)
ReturnTyped ==
    /\ ctl = "leave" /\ Node[Top.fmt].kind = "int" => Top.obj.n \in Nat
    /\ ctl = "resume" => Stepping(Top)
    /\ ctl = "resume" /\ Node[Top.fmt].kind = "pointer" /\ Top.at = "offset" =>
          Top.obj.at["offset"].n \in Nat

Typed == ScalarsTyped /\ StreamsTyped /\ ContextTyped /\ StackTyped /\ ReturnTyped

LEMMA CausesHold == Refusals \subseteq Causes /\ "Recursion" \in Causes
  BY Zenon DEF Causes

LEMMA TopTyped ==
    ASSUME Inv, Typed
    PROVE  /\ Fit(Top) /\ Top.fmt \in Fmt /\ Sound(Top.obj) /\ Top.idx \in Nat
           /\ TopNode = Node[Top.fmt]
           /\ Top.strm \in 1..Len(streams) /\ IsStream(TopStream) /\ TopStream = streams[Top.strm]
           /\ ParentsSound /\ IsSeq(parents)
<1>1. PICK n \in Nat : n = Len(frames) /\ n > 0
  BY TopFacts
<1>2. Fit(Top)
  BY <1>1 DEF Typed, StackTyped, FramesFit, Top
<1>3. Top.strm \in 1..Len(streams) /\ IsSeq(parents)
  BY TopFacts
<1> QED
  BY <1>2, <1>3 DEF Typed, StreamsTyped, ContextTyped, TopStream, TopNode, Fit

(* Frames below the running one do not see it change.                      *)
Similar(F) == F.obj = Top.obj \/ TopNode.kind # "int"

LEMMA CallsSimilar ==
    ASSUME NEW F, NEW G, Calls(F, G), Fit(F), NEW H, H.fmt = G.fmt,
           H.obj = G.obj \/ Node[G.fmt].kind # "int"
    PROVE  Calls(F, H)
<1>1. Node[F.fmt].kind = "pointer" => Node[Node[F.fmt].subs[1]].kind = "int"
  BY FormatAssumption DEF Fit
<1> QED
  BY <1>1 DEF Calls, Called

LEMMA StayFits ==
    ASSUME NEW st, NEW new, NEW n \in Nat, n > 0, FramesFit(st, n),
           NEW F, Fit(F), F.fmt = st[n].fmt, F.obj = st[n].obj \/ Node[st[n].fmt].kind # "int",
           new[n] = F, \A i \in 1..(n - 1) : new[i] = st[i]
    PROVE  FramesFit(new, n)
<1>1. \A i \in 1..n : Fit(new[i])
  <2> TAKE i \in 1..n
  <2>1. CASE i = n
    BY <2>1
  <2>2. CASE i \in 1..(n - 1)
    BY <2>2 DEF FramesFit
  <2> QED
    BY <2>1, <2>2
<1>2. ASSUME NEW i \in 1..(n - 1) PROVE Calls(new[i], new[i + 1])
  <2>1. Calls(st[i], st[i + 1]) /\ Fit(st[i]) /\ i + 1 \in 1..n
    BY DEF FramesFit
  <2>2. CASE i + 1 = n
    <3>1. Calls(st[i], F)
      BY <2>1, <2>2, CallsSimilar
    <3> QED
      BY <2>2, <3>1
  <2>3. CASE i + 1 # n
    <3>1. i + 1 \in 1..(n - 1)
      BY <2>1, <2>3
    <3> QED
      BY <2>1, <3>1
  <2> QED
    BY <2>2, <2>3
<1> QED
  BY <1>1, <1>2 DEF FramesFit

(* What is unchanged, or typed anew, when the running frame goes on.       *)
Aside == /\ UNCHANGED config
         /\ StreamsTyped' /\ ContextTyped'
         /\ curFmt' \in Fmt /\ UNCHANGED err

LEMMA StayTypes ==
    ASSUME Inv, Typed, Aside, NEW F, Replaces(F), Fit(F), Similar(F), frames' = WithTop(F),
           exc' \in Causes, ctl' # "resume",
           ctl' = "leave" /\ TopNode.kind = "int" => F.obj.n \in Nat
    PROVE  Typed'
<1>1. PICK n \in Nat : n = Len(frames) /\ n > 0
  BY TopFacts
<1>2. /\ Len(frames') = n /\ frames'[n] = F /\ Top' = F
      /\ \A i \in 1..(n - 1) : frames'[i] = frames[i]
  BY <1>1, ReplacedFacts DEF Top
<1>3. StackTyped'
  <2>1. PICK st, new : st = frames /\ new = frames'
    OBVIOUS
  <2>2. /\ FramesFit(st, n)
        /\ F.fmt = st[n].fmt /\ (F.obj = st[n].obj \/ Node[st[n].fmt].kind # "int")
        /\ new[n] = F /\ \A i \in 1..(n - 1) : new[i] = st[i]
    BY <1>1, <1>2, <2>1 DEF Typed, StackTyped, Replaces, Similar, Top, TopNode
  <2>3. FramesFit(new, n)
    BY <1>1, <2>2, StayFits
  <2>4. FramesFit(frames', Len(frames'))
    BY <1>2, <2>1, <2>3
  <2> QED
    BY <2>4 DEF StackTyped, FramesFit
<1>4. ReturnTyped'
  BY <1>2 DEF ReturnTyped, Replaces, TopNode
<1>5. ScalarsTyped'
  BY DEF ScalarsTyped, Aside, config, Typed
<1> QED
  BY <1>3, <1>4, <1>5 DEF Typed, Aside

LEMMA CallFits ==
    ASSUME NEW st, NEW new, NEW n \in Nat, n > 0, FramesFit(st, n),
           NEW F, Fit(F), F.fmt = st[n].fmt, F.obj = st[n].obj \/ Node[st[n].fmt].kind # "int",
           NEW G, Fit(G), Calls(F, G),
           new[n] = F, new[n + 1] = G, \A i \in 1..(n - 1) : new[i] = st[i]
    PROVE  FramesFit(new, n + 1)
<1>1. FramesFit(new, n)
  BY StayFits
<1>2. \A i \in 1..(n + 1) : Fit(new[i])
  <2> TAKE i \in 1..(n + 1)
  <2>1. CASE i = n + 1
    BY <2>1
  <2>2. CASE i \in 1..n
    BY <1>1, <2>2 DEF FramesFit
  <2> QED
    BY <2>1, <2>2
<1>3. ASSUME NEW i \in 1..n PROVE Calls(new[i], new[i + 1])
  <2>1. CASE i = n
    BY <2>1
  <2>2. CASE i \in 1..(n - 1)
    BY <1>1, <2>2 DEF FramesFit
  <2> QED
    BY <2>1, <2>2
<1>4. (n + 1) - 1 = n
  OBVIOUS
<1> QED
  BY <1>2, <1>3, <1>4 DEF FramesFit

LEMMA NewFrameFits ==
    ASSUME NEW f \in Fmt, NEW obj, Sound(obj), NEW s, NEW pos \in Nat
    PROVE  /\ Fit(NewFrame(f, obj, s, pos))
           /\ NewFrame(f, obj, s, pos).fmt = f /\ NewFrame(f, obj, s, pos).obj = obj
<1>1. PICK G : G = NewFrame(f, obj, s, pos)
  OBVIOUS
<1>2. G.fmt = f /\ G.obj = obj /\ G.pos0 = pos /\ G.at = "enter" /\ G.idx = 0 /\ G.saved = 0
  BY <1>1 DEF NewFrame
<1>3. Fit(G)
  BY <1>2 DEF Fit, Places
<1> QED
  BY <1>1, <1>2, <1>3

LEMMA WithTopFacts ==
    ASSUME Inv, NEW F
    PROVE  /\ IsSeq(WithTop(F)) /\ Len(WithTop(F)) = Len(frames) /\ WithTop(F)[Len(frames)] = F
           /\ \A i \in 1..(Len(frames) - 1) : WithTop(F)[i] = frames[i]
<1>1. PICK n \in Nat : n = Len(frames) /\ n > 0
  BY TopFacts
<1>2. PICK t : t = WithTop(F)
  OBVIOUS
<1>3. t = [frames EXCEPT ![n] = F] /\ DOMAIN frames = 1..n
  BY <1>1, <1>2 DEF WithTop, Inv, Shape, IsSeq
<1>4. /\ t = [i \in 1..n |-> t[i]]
      /\ \A i \in 1..n : t[i] = IF i = n THEN F ELSE frames[i]
  BY <1>3
<1>5. IsSeq(t) /\ Len(t) = n
  BY <1>1, <1>4, IsSeqIntro
<1>6. t[n] = F /\ \A i \in 1..(n - 1) : t[i] = frames[i]
  BY <1>1, <1>4
<1> QED
  BY <1>1, <1>2, <1>5, <1>6

LEMMA CallTypes ==
    ASSUME Inv, Typed, NEW F, Replaces(F), F.obj = Top.obj, Fit(F), Stepping(F),
           NEW f \in Fmt, NEW obj, Sound(obj), Called(F, f, obj),
           NEW ss, \A i \in 1..Len(ss) : IsStream(ss[i]), NEW s \in 1..Len(ss),
           NEW pa, \A i \in 1..Len(pa) : pa[i] \in Keys,
           Call(F, f, obj, s, ss, pa)
    PROVE  Typed'
<1>1. StreamsTyped' /\ ContextTyped' /\ UNCHANGED <<config, err>>
  BY DEF Call, StreamsTyped, ContextTyped, Typed, ParentsSound
<1>2. CASE Len(frames) = MaxDepth
  <2>1. frames' = WithTop(F) /\ ctl' = "raise" /\ exc' = "Recursion" /\ UNCHANGED curFmt
    BY <1>2 DEF Call
  <2>2. exc' \in Causes
    BY <2>1, CausesHold
  <2> QED
    BY <1>1, <2>1, <2>2, StayTypes DEF Aside, Similar, Typed, ScalarsTyped
<1>3. CASE Len(frames) # MaxDepth
  <2>1. PICK G : G = NewFrame(f, obj, s, ss[s].pos)
    OBVIOUS
  <2>2. /\ frames' = Append(WithTop(F), G) /\ ctl' = "run" /\ curFmt' = f /\ UNCHANGED exc
    BY <1>3, <2>1 DEF Call
  <2>3. ss[s].pos \in Nat
    BY DEF IsStream
  <2>4. Fit(G) /\ G.fmt = f /\ G.obj = obj
    BY <2>1, <2>3, NewFrameFits
  <2>5. Calls(F, G)
    BY <2>4 DEF Calls
  <2>6. PICK n \in Nat : n = Len(frames) /\ n > 0
    BY TopFacts
  <2>7. PICK st, new : st = frames /\ new = frames'
    OBVIOUS
  <2>8. /\ IsSeq(new) /\ Len(new) = n + 1 /\ new[n + 1] = G /\ new[n] = F
        /\ \A i \in 1..(n - 1) : new[i] = st[i]
    <3>1. PICK middle : middle = WithTop(F)
      OBVIOUS
    <3>2. /\ IsSeq(middle) /\ Len(middle) = n /\ middle[n] = F
          /\ \A i \in 1..(n - 1) : middle[i] = st[i]
      BY <2>6, <2>7, <3>1, WithTopFacts
    <3>3. new = Append(middle, G)
      BY <2>2, <2>7, <3>1
    <3>4. /\ IsSeq(new) /\ Len(new) = n + 1 /\ new[n + 1] = G
          /\ \A i \in 1..n : new[i] = middle[i]
      BY <3>2, <3>3, AppendSeq
    <3>5. new[n] = F
      BY <2>6, <3>2, <3>4
    <3>6. \A i \in 1..(n - 1) : new[i] = st[i]
      BY <2>6, <3>2, <3>4
    <3> QED
      BY <3>4, <3>5, <3>6
  <2>9. FramesFit(st, n) /\ F.fmt = st[n].fmt /\ F.obj = st[n].obj
    BY <2>6, <2>7 DEF Typed, StackTyped, Replaces, Top
  <2>10. FramesFit(new, n + 1)
    BY <2>4, <2>5, <2>6, <2>8, <2>9, CallFits
  <2>11. StackTyped'
    <3>1. FramesFit(frames', Len(frames'))
      BY <2>7, <2>8, <2>10
    <3> QED
      BY <3>1 DEF StackTyped, FramesFit
  <2>12. ReturnTyped'
    BY <2>2 DEF ReturnTyped
  <2>13. ScalarsTyped'
    BY <1>1, <2>2 DEF ScalarsTyped, Typed, config
  <2> QED
    BY <1>1, <2>11, <2>12, <2>13 DEF Typed
<1> QED
  BY <1>2, <1>3

LEMMA RaiseTypes ==
    ASSUME Inv, Typed, Aside, NEW e \in Refusals, Raise(e)
    PROVE  Typed'
<1>1. Replaces(Top) /\ frames' = WithTop(Top)
  BY TopUpdates, UpdatesReplace, TopFacts DEF Raise
<1>2. exc' \in Causes /\ ctl' = "raise"
  BY CausesHold DEF Raise
<1> QED
  BY <1>1, <1>2, TopTyped, StayTypes DEF Similar

LEMMA ReturnTypes ==
    ASSUME Inv, Typed, Aside, NEW F, Replaces(F), Fit(F), F.obj = Top.obj, Return(F),
           TopNode.kind = "int" => Top.obj.n \in Nat
    PROVE  Typed'
  BY StayTypes DEF Return, Similar, Typed, ScalarsTyped

(* Frames that differ in what no one is told of.                           *)
LEMMA UpdatesFit ==
    ASSUME Inv, Typed, NEW v, NEW w
    PROVE  /\ Fit([Top EXCEPT !.raw = v]) /\ Fit([Top EXCEPT !.kids = v])
           /\ v \in Nat /\ v > 0 /\ (TopNode.kind \in {"map", "array"} => Top.at # "enter") =>
                 Fit([Top EXCEPT !.idx = v, !.item = w])
<1>1. Fit(Top) /\ DOMAIN Top = FrameFields
  BY TopTyped, TopFacts DEF IsFrame
<1>2. Fit([Top EXCEPT !.raw = v]) /\ Fit([Top EXCEPT !.kids = v])
  BY <1>1 DEF Fit, FrameFields
<1>3. ASSUME v \in Nat, v > 0, TopNode.kind \in {"map", "array"} => Top.at # "enter"
      PROVE  Fit([Top EXCEPT !.idx = v, !.item = w])
  BY <1>1, <1>3 DEF Fit, FrameFields, TopNode
<1> QED
  BY <1>2, <1>3

(* The streams when the running frame has moved its own.                   *)
LEMMA StreamChanges ==
    ASSUME Inv, Typed, NEW x, IsStream(x), NEW new, new = [streams EXCEPT ![Top.strm] = x]
    PROVE  /\ IsSeq(new) /\ Len(new) = Len(streams)
           /\ \A i \in 1..Len(streams) : new[i] = IF i = Top.strm THEN x ELSE streams[i]
           /\ \A i \in 1..Len(new) : IsStream(new[i])
<1>1. PICK n \in Nat : n = Len(streams) /\ streams = [i \in 1..n |-> streams[i]] /\ Top.strm \in 1..n
  BY TopFacts DEF IsSeq
<1>2. new = [i \in 1..n |-> new[i]] /\ \A i \in 1..n : new[i] = IF i = Top.strm THEN x ELSE streams[i]
  BY <1>1
<1>3. IsSeq(new) /\ Len(new) = n
  BY <1>2, IsSeqIntro
<1>4. \A i \in 1..n : IsStream(streams[i])
  BY <1>1 DEF Typed, StreamsTyped
<1> QED
  BY <1>1, <1>2, <1>3, <1>4

LEMMA EmitTypes ==
    ASSUME Inv, Typed, UNCHANGED <<config, context, err>>, NEW r, Decided(r), Emit(r),
           r.ok => r.val \in Seq(Byte),
           r.ok /\ TopNode.kind = "int" => Top.obj.n \in Nat
    PROVE  Typed'
<1>1. ContextTyped' /\ curFmt' \in Fmt
  BY DEF context, Typed, ContextTyped, ParentsSound, ScalarsTyped
<1>2. CASE r.ok
  <2>1. PICK x : x = Write(TopStream, r.val)
    OBVIOUS
  <2>2. IsStream(x)
    BY <1>2, <2>1, TopTyped, WriteTyped
  <2>3. streams' = [streams EXCEPT ![Top.strm] = x] /\ Return([Top EXCEPT !.raw = r.val])
    BY <1>2, <2>1 DEF Emit, TopStream
  <2>4. StreamsTyped'
    BY <2>2, <2>3, StreamChanges DEF StreamsTyped
  <2>5. PICK F : F = [Top EXCEPT !.raw = r.val]
    OBVIOUS
  <2>6. Replaces(F) /\ Fit(F) /\ F.obj = Top.obj
    BY <2>5, FieldsUpdate, UpdatesReplace, UpdatesFit DEF SameScope
  <2> QED
    BY <1>1, <1>2, <2>3, <2>4, <2>5, <2>6, ReturnTypes DEF Aside
<1>3. CASE ~r.ok
  <2>1. Raise(r.exc) /\ UNCHANGED streams /\ r.exc \in Refusals
    BY <1>3 DEF Emit, Decided
  <2>2. StreamsTyped'
    BY <2>1 DEF Typed, StreamsTyped
  <2> QED
    BY <1>1, <2>1, <2>2, RaiseTypes DEF Aside
<1> QED
  BY <1>2, <1>3

LEMMA AsideIdle == ASSUME Typed, UNCHANGED <<config, streams, context, err>> PROVE Aside
  BY DEF Aside, Typed, StreamsTyped, ContextTyped, ParentsSound, ScalarsTyped, context

(* The context always has the mapping it began with.                       *)
LEMMA SomeScope ==
    ASSUME NEW p, NEW stack, NEW n \in Nat, NEW base, Lists(p, ScopesOf("obj", base, stack, n))
    PROVE  Len(p) > 0
<1> DEFINE D == {0} \cup {j \in 1..n : IsOpenMap(stack[j])}
<1>1. DOMAIN ScopesOf("obj", base, stack, n) = D
  BY DEF ScopesOf
<1>2. 0 \in D /\ D \subseteq 0..n
  OBVIOUS
<1> HIDE DEF D
<1>3. Rank(D, 0) \in 1..Cardinality(D) /\ Cardinality(D) \in Nat
  BY <1>2, RankInside
<1>4. Len(p) = Cardinality(D)
  BY <1>1 DEF Lists
<1> QED
  BY <1>3, <1>4

LEMMA SomeParent == ASSUME Inv' PROVE Len(parents') > 0
<1>1. Len(frames') \in Nat /\ Lists(parents', ScopesOf("obj", MapV(<<>>), frames', Len(frames')))
  BY DEF Inv, Scoped, Shape, IsSeq
<1>2. PICK p, st, n : p = parents' /\ st = frames' /\ n = Len(frames')
  OBVIOUS
<1>3. n \in Nat /\ Lists(p, ScopesOf("obj", MapV(<<>>), st, n))
  BY <1>1, <1>2
<1>4. Len(p) > 0
  BY <1>3, SomeScope
<1> QED
  BY <1>2, <1>4

LEMMA LeafTypes == ASSUME Inv, Typed, EncodeLeaf PROVE Typed'
<1>1. PICK r : r = LeafWrite(TopNode, Top.obj)
  OBVIOUS
<1>2. TopNode.kind \in LeafKinds /\ Emit(r) /\ UNCHANGED <<config, context, err>>
  BY <1>1 DEF EncodeLeaf
<1>3. Decided(r)
  BY <1>1, LeafDecided
<1>4. r.ok => r.val \in Seq(Byte) /\ (TopNode.kind = "int" => Top.obj.n \in Nat)
  BY <1>1, <1>2, TopTyped, LeafTyped
<1> QED
  BY <1>2, <1>3, <1>4, EmitTypes

LEMMA MapEnterTypes == ASSUME Inv, Typed, MapEnter PROVE Typed'
<1>1. PICK obj : obj = Prefilled(TopNode, Top.obj)
  OBVIOUS
<1>2. PICK F : F = [Top EXCEPT !.at = "loop", !.obj = obj]
  OBVIOUS
<1>3. /\ TopNode.kind = "map" /\ Top.at = "enter" /\ ctl = "run"
      /\ parents' = Append(parents, obj) /\ frames' = WithTop(F)
      /\ UNCHANGED <<config, ctl, exc, streams, path, curFmt, err>>
  BY <1>1, <1>2 DEF MapEnter, Running
<1>4. Sound(obj)
  BY <1>1, TopTyped, PrefilledSound
<1>5. Fit(Top) /\ DOMAIN Top = FrameFields
  BY TopTyped, TopFacts DEF IsFrame
<1>6. Replaces(F) /\ F.obj = obj /\ F.at = "loop" /\ F.idx = Top.idx /\ F.saved = Top.saved
  BY <1>2, <1>5 DEF Replaces, IsFrame, FrameFields
<1>7. Fit(F)
  BY <1>3, <1>4, <1>5, <1>6 DEF Fit, Replaces, Places, TopNode
<1>8. Similar(F)
  BY <1>3 DEF Similar
<1>9. ContextTyped'
  <2>1. PICK n \in Nat : n = Len(parents) /\ \A i \in 1..n : Sound(parents[i])
    BY TopTyped DEF IsSeq, ParentsSound
  <2>2. PICK p : p = parents'
    OBVIOUS
  <2>3. Len(p) = n + 1 /\ p[n + 1] = obj /\ \A i \in 1..n : p[i] = parents[i]
    BY <1>3, <2>1, <2>2, TopTyped, AppendSeq
  <2>4. \A i \in 1..Len(p) : Sound(p[i])
    BY <1>4, <2>1, <2>3
  <2>5. Len(p) > 0
    BY <2>1, <2>3
  <2> QED
    BY <1>3, <2>2, <2>4, <2>5 DEF ContextTyped, ParentsSound, Typed
<1>10. Aside
  BY <1>3, <1>9 DEF Aside, Typed, StreamsTyped, ScalarsTyped
<1>11. exc' \in Causes /\ ctl' # "resume" /\ ctl' # "leave"
  <2>1. exc' \in Causes
    BY <1>3 DEF Typed, ScalarsTyped
  <2> QED
    BY <1>3, <2>1
<1> QED
  BY <1>3, <1>6, <1>7, <1>8, <1>10, <1>11, StayTypes

(* The key under which a field or an item is encoded joins the path.       *)
LEMMA PathLonger ==
    ASSUME Inv, Typed, NEW key \in Keys
    PROVE  \A i \in 1..Len(Append(path, key)) : Append(path, key)[i] \in Keys
<1>1. IsSeq(path) /\ \A i \in 1..Len(path) : path[i] \in Keys
  BY TopFacts DEF Typed, ContextTyped
<1> QED
  BY <1>1, AppendKeeps

LEMMA ItemTypes ==
    ASSUME Inv, Typed, IsContainer(Top), TopNode.kind \in {"map", "array"} => Top.at # "enter",
           NEW i \in Nat, i > 0, TopNode.kind \in {"map", "tuple"} => i \in DOMAIN TopNode.subs,
           NEW key \in Keys, NEW obj, Sound(obj),
           Call([Top EXCEPT !.idx = i, !.item = key],
                TopNode.subs[IF TopNode.kind = "array" THEN 1 ELSE i], obj, Top.strm, streams, Append(path, key))
    PROVE  Typed'
<1>1. PICK F : F = [Top EXCEPT !.idx = i, !.item = key]
  OBVIOUS
<1>2. PICK f : f = TopNode.subs[IF TopNode.kind = "array" THEN 1 ELSE i]
  OBVIOUS
<1>3. Replaces(F) /\ F.obj = Top.obj /\ F.fmt = Top.fmt
  BY <1>1, FieldsUpdate, UpdatesReplace DEF SameScope, Replaces
<1>4. Fit(F)
  BY <1>1, UpdatesFit
<1>5. F.idx = i /\ F.at = Top.at
  BY <1>1, TopFacts DEF IsFrame, FrameFields
<1>6. TopNode.kind \in {"map", "tuple", "array"} /\ TopNode = Node[Top.fmt] /\ Top.fmt \in Fmt
  BY TopTyped DEF IsContainer
<1>7. f \in Fmt
  <2>1. TopNode.kind = "array" => TopNode.subs[1] \in Fmt
    BY <1>6, SubsAreFormats DEF WrapKinds
  <2>2. TopNode.kind # "array" => TopNode.subs[i] \in Fmt
    BY <1>6, SubsAreFormats
  <2> QED
    BY <1>2, <2>1, <2>2
<1>8. Stepping(F) /\ Called(F, f, obj)
  BY <1>2, <1>3, <1>5, <1>6 DEF Stepping, Called
<1>9. PICK pa : pa = Append(path, key) /\ \A j \in 1..Len(pa) : pa[j] \in Keys
  BY PathLonger
<1>10. Call(F, f, obj, Top.strm, streams, pa)
  BY <1>1, <1>2, <1>9
<1>11. Top.strm \in 1..Len(streams) /\ \A j \in 1..Len(streams) : IsStream(streams[j])
  BY TopTyped DEF Typed, StreamsTyped
<1> QED
  BY <1>3, <1>4, <1>7, <1>8, <1>9, <1>10, <1>11, CallTypes

LEMMA MapFieldTypes == ASSUME Inv, Typed, MapField PROVE Typed'
<1>1. TopNode.kind = "map" /\ Top.at = "loop" /\ IsContainer(Top)
  BY DEF MapField, Running, IsContainer, TopNode
<1>2. PICK i \in DOMAIN TopNode.subs :
         LET v == FieldValue(TopNode, i, Top.obj)
             key == Name(TopNode.keys[i])
         IN  IF v.ok
             THEN Call([Top EXCEPT !.idx = i, !.item = key], TopNode.subs[i], v.val, Top.strm,
                       streams, Append(path, key))
             ELSE /\ curFmt' = TopNode.subs[i]
                  /\ Raise(v.exc)
                  /\ UNCHANGED <<config, streams, parents, path, root, err>>
  BY DEF MapField
<1>21. PICK v, key :
         /\ v = FieldValue(TopNode, i, Top.obj) /\ key = Name(TopNode.keys[i])
         /\ IF v.ok
            THEN Call([Top EXCEPT !.idx = i, !.item = key], TopNode.subs[i], v.val, Top.strm,
                      streams, Append(path, key))
            ELSE /\ curFmt' = TopNode.subs[i]
                 /\ Raise(v.exc)
                 /\ UNCHANGED <<config, streams, parents, path, root, err>>
  BY <1>2
<1>3. Top.fmt \in Fmt /\ TopNode = Node[Top.fmt] /\ Sound(Top.obj)
  BY TopTyped
<1>4. i \in Nat /\ i > 0 /\ TopNode.subs[i] \in Fmt
  <2>1. TopNode.subs \in Seq(Fmt)
    BY <1>3, FormatAssumption
  <2>2. i \in 1..Len(TopNode.subs) /\ Len(TopNode.subs) \in Nat
    BY <2>1, LenProperties
  <2> QED
    BY <1>3, <2>2, SubsAreFormats
<1>5. CASE v.ok
  <2>1. Sound(v.val)
    BY <1>21, <1>3, <1>5, FieldTyped
  <2>2. key \in Keys
    BY <1>1, <1>21, <1>3, KeysAreTyped
  <2>3. Call([Top EXCEPT !.idx = i, !.item = key], TopNode.subs[IF TopNode.kind = "array" THEN 1 ELSE i],
             v.val, Top.strm, streams, Append(path, key))
    BY <1>1, <1>21, <1>5
  <2> QED
    BY <1>1, <1>4, <2>1, <2>2, <2>3, ItemTypes
<1>6. CASE ~v.ok
  <2>1. v.exc \in Refusals
    BY <1>21, <1>6, FieldDecided DEF Decided
  <2>2. /\ Raise(v.exc) /\ curFmt' \in Fmt
        /\ UNCHANGED <<config, streams, parents, path, err>>
    BY <1>21, <1>4, <1>6
  <2>3. Aside
    BY <2>2 DEF Aside, Typed, StreamsTyped, ContextTyped, ParentsSound
  <2> QED
    BY <2>1, <2>2, <2>3, RaiseTypes
<1> QED
  BY <1>5, <1>6

LEMMA MapExitTypes == ASSUME Inv, Inv', Typed, MapExit PROVE Typed'
<1>1. PICK F : F = [Top EXCEPT !.at = "exit"]
  OBVIOUS
<1>2. /\ TopNode.kind = "map" /\ parents' = Under(parents) /\ Return(F)
      /\ UNCHANGED <<config, streams, path, curFmt, err>>
  BY <1>1 DEF MapExit, Running
<1>3. Fit(Top) /\ DOMAIN Top = FrameFields
  BY TopTyped, TopFacts DEF IsFrame
<1>4. Replaces(F) /\ F.obj = Top.obj /\ F.at = "exit" /\ F.idx = Top.idx /\ F.saved = Top.saved
  BY <1>1, <1>3 DEF Replaces, IsFrame, FrameFields
<1>5. Fit(F)
  BY <1>2, <1>3, <1>4 DEF Fit, Replaces, Places, TopNode
<1>6. ContextTyped'
  <2>1. PICK n \in Nat : n = Len(parents) /\ n > 0 /\ \A i \in 1..n : Sound(parents[i])
    BY TopTyped DEF IsSeq, ParentsSound
  <2>2. PICK p : p = parents'
    OBVIOUS
  <2>3. Len(p) = n - 1 /\ \A i \in 1..(n - 1) : p[i] = parents[i]
    BY <1>2, <2>1, <2>2, TopTyped, UnderSeq
  <2>4. \A i \in 1..Len(p) : Sound(p[i])
    BY <2>1, <2>3
  <2> QED
    BY <1>2, <2>2, <2>4, SomeParent DEF ContextTyped, ParentsSound, Typed
<1>7. Aside
  BY <1>2, <1>6 DEF Aside, Typed, StreamsTyped, ScalarsTyped
<1> QED
  BY <1>2, <1>4, <1>5, <1>7, ReturnTypes

LEMMA CallItemTypes ==
    ASSUME Inv, Typed, IsContainer(Top), TopNode.kind # "map", TopNode.kind = "array" => Top.at = "items",
           IsIterable(Top.obj), Top.idx < Len(Items(Top.obj)),
           NEW f, CallItem(f),
           IF TopNode.kind = "array" THEN f = TopNode.subs[1]
           ELSE Top.idx + 1 \in DOMAIN TopNode.subs /\ f = TopNode.subs[Top.idx + 1]
    PROVE  Typed'
<1>1. PICK i \in Nat : i = Top.idx + 1 /\ i > 0 /\ i - 1 \in Nat /\ i - 1 = Top.idx
  BY TopTyped
<1>2. PICK key : key = Index(Top.idx) /\ key \in Keys
  BY TopTyped, KeysAreTyped
<1>3. Sound(Items(Top.obj)[i])
  <2>1. IsSeq(Items(Top.obj)) /\ \A j \in 1..Len(Items(Top.obj)) : Sound(Items(Top.obj)[j])
    BY TopTyped, ItemsSound
  <2>2. i \in 1..Len(Items(Top.obj))
    BY <1>1, <2>1 DEF IsSeq
  <2> QED
    BY <2>1, <2>2
<1>4. Call([Top EXCEPT !.idx = i, !.item = key], f, Items(Top.obj)[i], Top.strm, streams, Append(path, key))
  BY <1>1, <1>2, TopFacts DEF CallItem, IsFrame, FrameFields
<1>5. f = TopNode.subs[IF TopNode.kind = "array" THEN 1 ELSE i]
  BY <1>1
<1>6. TopNode.kind \in {"map", "tuple"} => i \in DOMAIN TopNode.subs
  BY <1>1
<1>7. PICK obj : obj = Items(Top.obj)[i]
  OBVIOUS
<1> QED
  BY <1>1, <1>2, <1>3, <1>4, <1>5, <1>6, <1>7, ItemTypes

LEMMA ItemsTypes == ASSUME Inv, Typed, TupleItem \/ ArrayItem PROVE Typed'
<1>1. CASE TupleItem
  <2>1. /\ IsContainer(Top) /\ TopNode.kind = "tuple" /\ IsIterable(Top.obj)
        /\ Top.idx < Len(Items(Top.obj))
        /\ Top.idx + 1 \in DOMAIN TopNode.subs /\ CallItem(TopNode.subs[Top.idx + 1])
    BY <1>1 DEF TupleItem, Running, IsContainer, TopNode
  <2> QED
    BY <2>1, CallItemTypes
<1>2. CASE ArrayItem
  <2>1. /\ IsContainer(Top) /\ TopNode.kind = "array" /\ Top.at = "items"
        /\ Top.idx < Len(Items(Top.obj)) /\ CallItem(TopNode.subs[1])
    BY <1>2 DEF ArrayItem, Running, IsContainer, TopNode
  <2>2. IsIterable(Top.obj)
    BY <2>1, TopTyped DEF Fit
  <2> QED
    BY <2>1, <2>2, CallItemTypes
<1> QED
  BY <1>1, <1>2

LEMMA ItemBackTypes == ASSUME Inv, Typed, ItemBack PROVE Typed'
<1>1. /\ ctl = "resume" /\ ctl' = "run" /\ IsContainer(Top) /\ path' = Under(path)
      /\ UNCHANGED <<config, frames, exc, streams, parents, curFmt, err>>
  BY DEF ItemBack, Resuming, IsContainer, TopNode
<1>2. IsSeq(path) /\ Len(path) > 0
  <2>1. PICK m \in Nat : Len(frames) = m + 1
    <3>1. Len(frames) - 1 \in Nat /\ Len(frames) = (Len(frames) - 1) + 1
      BY TopFacts
    <3> QED
      BY <3>1
  <2>2. IsSeq(path) /\ Lists(path, KeysUpto(frames, m + 1)) /\ IsContainer(frames[m + 1])
    BY <1>1, <2>1, TopFacts DEF Inv, Traced, Callers, Top
  <2> QED
    BY <2>2, KeysShrink
<1>3. ContextTyped'
  <2>1. \A i \in 1..Len(Under(path)) : Under(path)[i] \in Keys
    BY <1>2, UnderKeeps DEF Typed, ContextTyped
  <2> QED
    BY <1>1, <2>1 DEF Typed, ContextTyped, ParentsSound
<1>4. Aside
  BY <1>1, <1>3 DEF Aside, Typed, StreamsTyped, ScalarsTyped
<1>5. Replaces(Top) /\ frames' = WithTop(Top) /\ Similar(Top)
  BY <1>1, TopUpdates, UpdatesReplace, TopFacts DEF Similar
<1>6. exc' \in Causes
  BY <1>1 DEF Typed, ScalarsTyped
<1>7. ctl' # "leave" /\ ctl' # "resume"
  BY <1>1
<1> QED
  BY <1>4, <1>5, <1>6, <1>7, TopTyped, StayTypes

LEMMA TupleExitTypes == ASSUME Inv, Typed, TupleExit PROVE Typed'
<1>1. Aside
  BY AsideIdle DEF TupleExit
<1>2. Replaces(Top) /\ TopNode.kind # "int"
  BY TopUpdates, UpdatesReplace DEF TupleExit, Running
<1>3. Return(Top) \/ Raise("Type") \/ Raise("Value")
  BY DEF TupleExit
<1>4. "Type" \in Refusals /\ "Value" \in Refusals
  BY DEF Refusals
<1>5. Fit(Top)
  BY TopTyped
<1> QED
  BY <1>1, <1>2, <1>3, <1>4, <1>5, RaiseTypes, ReturnTypes

LEMMA ArrayEnterTypes == ASSUME Inv, Typed, ArrayEnter PROVE Typed'
<1>1. PICK r : r = Prologue(TopNode, Top.obj)
  OBVIOUS
<1>2. /\ TopNode.kind = "array" /\ Top.at = "enter" /\ ctl = "run"
      /\ UNCHANGED <<config, context, err>>
  BY DEF ArrayEnter, Running
<1>3. Decided(r)
  BY <1>1, PrologueDecided
<1>4. Top.fmt \in Fmt /\ TopNode = Node[Top.fmt] /\ Sound(Top.obj) /\ Fit(Top)
      /\ ParentsSound /\ IsSeq(parents)
  BY TopTyped
<1>5. r.ok => /\ r.val \in Seq(Byte) /\ IsIterable(Top.obj)
              /\ TopNode.mode = "const" => Len(Items(Top.obj)) = TopNode.num
  BY <1>1, <1>2, <1>4, PrologueTyped
<1>6. CASE IsFast(TopNode) \/ ~r.ok
  <2>1. Emit(r)
    BY <1>1, <1>6 DEF ArrayEnter
  <2> QED
    BY <1>2, <1>3, <1>5, <2>1, EmitTypes
<1>7. CASE ~(IsFast(TopNode) \/ ~r.ok)
  <2>1. PICK x : x = Write(TopStream, r.val)
    OBVIOUS
  <2>2. PICK F : F = [Top EXCEPT !.at = "items"]
    OBVIOUS
  <2>3. /\ streams' = [streams EXCEPT ![Top.strm] = x] /\ frames' = WithTop(F)
        /\ UNCHANGED <<ctl, exc>>
    BY <1>1, <1>7, <2>1, <2>2 DEF ArrayEnter, TopStream
  <2>4. IsStream(x)
    BY <1>5, <1>7, <2>1, TopTyped, WriteTyped
  <2>5. StreamsTyped'
    BY <2>3, <2>4, StreamChanges DEF StreamsTyped
  <2>6. ContextTyped' /\ curFmt' \in Fmt
    BY <1>2 DEF context, Typed, ContextTyped, ParentsSound, ScalarsTyped
  <2>7. DOMAIN Top = FrameFields
    BY TopFacts DEF IsFrame
  <2>8. Replaces(F) /\ F.obj = Top.obj /\ F.at = "items" /\ F.idx = Top.idx /\ F.saved = Top.saved
    BY <2>2, <2>7 DEF Replaces, IsFrame, FrameFields
  <2>9. Fit(F)
    BY <1>2, <1>4, <1>5, <1>7, <2>8 DEF Fit, Replaces, Places
  <2>10. exc' \in Causes /\ ctl' # "resume" /\ ctl' # "leave"
    <3>1. exc' \in Causes
      BY <2>3 DEF Typed, ScalarsTyped
    <3> QED
      BY <1>2, <2>3, <3>1
  <2> QED
    BY <1>2, <2>3, <2>5, <2>6, <2>8, <2>9, <2>10, StayTypes DEF Aside, Similar
<1> QED
  BY <1>6, <1>7

LEMMA ArrayExitTypes == ASSUME Inv, Typed, ArrayExit PROVE Typed'
<1>1. Aside /\ Return(Top) /\ TopNode.kind # "int"
  BY AsideIdle DEF ArrayExit, Running
<1>2. Replaces(Top) /\ Fit(Top)
  BY TopUpdates, UpdatesReplace, TopTyped
<1> QED
  BY <1>1, <1>2, ReturnTypes

(* A format hands its value to another one, or does not.                   *)
LEMMA AdapterCalls ==
    ASSUME Inv, Typed, TopNode.kind \notin {"map", "tuple", "array", "pointer"},
           NEW v \in {"inner", "tag"}, NEW f \in Fmt, TopNode.kind = "scale" => f = TopNode.subs[1],
           NEW obj, Sound(obj), NEW ss, \A i \in 1..Len(ss) : IsStream(ss[i]), NEW s \in 1..Len(ss),
           Call([Top EXCEPT !.at = v], f, obj, s, ss, path)
    PROVE  Typed'
<1>1. PICK F : F = [Top EXCEPT !.at = v]
  OBVIOUS
<1>2. Fit(Top) /\ DOMAIN Top = FrameFields /\ TopNode = Node[Top.fmt]
  BY TopTyped, TopFacts DEF IsFrame
<1>3. Replaces(F) /\ F.obj = Top.obj /\ F.at = v /\ F.idx = Top.idx /\ F.saved = Top.saved
  BY <1>1, <1>2 DEF Replaces, IsFrame, FrameFields
<1>4. Fit(F)
  BY <1>2, <1>3 DEF Fit, Replaces, Places
<1>5. Stepping(F) /\ Called(F, f, obj)
  BY <1>2, <1>3 DEF Stepping, Called, Replaces
<1>6. \A i \in 1..Len(path) : path[i] \in Keys
  BY DEF Typed, ContextTyped
<1>7. Call(F, f, obj, s, ss, path)
  BY <1>1
<1> QED
  BY <1>3, <1>4, <1>5, <1>6, <1>7, CallTypes

LEMMA RefusalTypes ==
    ASSUME Inv, Typed, NEW e \in Refusals, Raise(e), UNCHANGED <<config, streams, context, err>>
    PROVE  Typed'
  BY AsideIdle, RaiseTypes

LEMMA DoneTypes ==
    ASSUME Inv, Typed, TopNode.kind # "int", Return(Top), UNCHANGED <<config, streams, context, err>>
    PROVE  Typed'
  BY AsideIdle, ReturnTypes, TopUpdates, UpdatesReplace, TopTyped

LEMMA OwnStream ==
    ASSUME Inv, Typed
    PROVE  (\A i \in 1..Len(streams) : IsStream(streams[i])) /\ Top.strm \in 1..Len(streams)
  BY TopTyped DEF Typed, StreamsTyped

LEMMA SubsFacts ==
    ASSUME NEW f \in Fmt
    PROVE  /\ Len(Node[f].subs) \in Nat /\ DOMAIN Node[f].subs = 1..Len(Node[f].subs)
           /\ Len(Node[f].on) \in Nat /\ DOMAIN Node[f].on = 1..Len(Node[f].on)
           /\ \A i \in DOMAIN Node[f].subs : Node[f].subs[i] \in Fmt
<1>1. Node[f].subs \in Seq(Fmt) /\ Node[f].on \in Seq(Nat)
  BY FormatAssumption
<1> QED
  BY <1>1, LenProperties, SubsAreFormats

LEMMA InnerIsFormat ==
    ASSUME NEW f \in Fmt, Node[f].kind \in {"optional", "lazy", "scale", "sized"}
    PROVE  Node[f].subs[1] \in Fmt
<1>1. CASE Node[f].kind = "scale"
  <2>1. Len(Node[f].subs) = 1
    BY <1>1, FormatAssumption
  <2>2. DOMAIN Node[f].subs = 1..1
    BY <2>1, SubsFacts
  <2>3. 1 \in DOMAIN Node[f].subs
    BY <2>2
  <2> QED
    BY <2>3, SubsAreFormats
<1>2. CASE Node[f].kind # "scale"
  BY <1>2, SubsAreFormats DEF WrapKinds
<1> QED
  BY <1>1, <1>2

LEMMA WrapOpenTypes == ASSUME Inv, Typed, WrapOpen PROVE Typed'
<1>1. TopNode.kind \in {"optional", "lazy", "scale"}
  BY DEF WrapOpen, Running
<1>2. Top.fmt \in Fmt /\ TopNode = Node[Top.fmt] /\ Sound(Top.obj)
  BY TopTyped
<1>3. CASE TopNode.kind = "optional" /\ Top.obj = NoneV
  BY <1>1, <1>3, DoneTypes DEF WrapOpen
<1>4. CASE TopNode.kind = "scale" /\ Top.obj.t # "int"
  <2>1. "Type" \in Refusals
    BY DEF Refusals
  <2> QED
    BY <1>4, <2>1, RefusalTypes DEF WrapOpen
<1>5. CASE ~(TopNode.kind = "optional" /\ Top.obj = NoneV) /\ ~(TopNode.kind = "scale" /\ Top.obj.t # "int")
  <2>1. PICK obj : obj = IF TopNode.kind = "scale" THEN IntV(Top.obj.n \div TopNode.num) ELSE Top.obj
    OBVIOUS
  <2>2. Sound(obj)
    BY <1>2, <2>1, SoundMade
  <2>3. TopNode.subs[1] \in Fmt
    BY <1>1, <1>2, InnerIsFormat
  <2>4. Call([Top EXCEPT !.at = "inner"], TopNode.subs[1], obj, Top.strm, streams, path)
    BY <1>5, <2>1 DEF WrapOpen, CallInner
  <2> QED
    BY <1>1, <2>2, <2>3, <2>4, OwnStream, AdapterCalls
<1> QED
  BY <1>3, <1>4, <1>5

LEMMA SwitchChoice ==
    ASSUME Inv, Typed, SwitchOpen
    PROVE  \/ \E e \in Refusals : Raise(e) /\ UNCHANGED <<config, streams, context, root, err>>
           \/ \E f \in Fmt : Call([Top EXCEPT !.at = "inner"], f, Top.obj, Top.strm, streams, path)
<1>1. PICK sibling : sibling = Resolve(TopNode.ref)
  OBVIOUS
<1>2. PICK cases : cases = Case(TopNode, sibling.val)
  OBVIOUS
<1>3. PICK failure : failure = IF ~sibling.ok THEN sibling.exc
                               ELSE IF sibling.val.t \in {"map", "list"} THEN "Type"
                               ELSE IF cases = {} THEN "Key" ELSE ""
  OBVIOUS
<1>4. /\ TopNode.kind = "switch"
      /\ IF failure # "" THEN Raise(failure) /\ UNCHANGED <<config, streams, context, root, err>>
         ELSE CallInner(Top, TopNode.subs[First(cases)], Top.obj, Top.strm, streams)
  BY <1>1, <1>2, <1>3 DEF SwitchOpen, Running
<1>5. Decided(sibling)
  BY <1>1, ResolveDecided
<1>6. "Type" \in Refusals /\ "Key" \in Refusals /\ "" \notin Refusals
  BY Zenon DEF Refusals
<1>7. failure \in Refusals \/ (failure = "" /\ cases # {})
  BY <1>3, <1>5, <1>6, Zenon DEF Decided
<1>8. CASE failure \in Refusals
  <2>1. failure # ""
    BY <1>6, <1>8, Zenon
  <2>2. Raise(failure) /\ UNCHANGED <<config, streams, context, root, err>>
    BY <1>4, <2>1
  <2> QED
    BY <1>8, <2>2
<1>9. CASE failure = "" /\ cases # {}
  <2>1. CallInner(Top, TopNode.subs[First(cases)], Top.obj, Top.strm, streams)
    BY <1>4, <1>9
  <2>2. Top.fmt \in Fmt /\ TopNode = Node[Top.fmt] /\ Sound(Top.obj)
    BY TopTyped
  <2>3. cases \subseteq DOMAIN TopNode.subs /\ cases \subseteq Nat
    <3>1. cases \subseteq DOMAIN TopNode.subs
      BY <1>2 DEF Case
    <3>2. DOMAIN TopNode.subs \subseteq Nat
      BY <2>2, SubsFacts
    <3> QED
      BY <3>1, <3>2
  <2>4. PICK i : i = First(cases)
    OBVIOUS
  <2>5. i \in cases
    <3>1. \E m \in cases : \A k \in cases : m <= k
      BY <1>9, <2>3, Least
    <3> QED
      BY <2>4, <3>1 DEF First
  <2>6. PICK f \in Fmt : f = TopNode.subs[i]
    BY <2>2, <2>3, <2>5, SubsFacts
  <2>7. Call([Top EXCEPT !.at = "inner"], f, Top.obj, Top.strm, streams, path)
    BY <2>1, <2>4, <2>6 DEF CallInner
  <2> QED
    BY <2>7
<1> QED
  BY <1>7, <1>8, <1>9

LEMMA SwitchOpenTypes == ASSUME Inv, Typed, SwitchOpen PROVE Typed'
<1>1. CASE \E e \in Refusals : Raise(e) /\ UNCHANGED <<config, streams, context, root, err>>
  BY <1>1, RefusalTypes
<1>2. CASE \E f \in Fmt : Call([Top EXCEPT !.at = "inner"], f, Top.obj, Top.strm, streams, path)
  <2>1. PICK f \in Fmt : Call([Top EXCEPT !.at = "inner"], f, Top.obj, Top.strm, streams, path)
    BY <1>2
  <2>2. TopNode.kind = "switch" /\ Sound(Top.obj)
    BY TopTyped DEF SwitchOpen, Running
  <2> QED
    BY <2>1, <2>2, OwnStream, AdapterCalls
<1> QED
  BY <1>1, <1>2, SwitchChoice

LEMMA BranchesAreSubs ==
    ASSUME NEW f \in Fmt, Node[f].kind = "union"
    PROVE  /\ DOMAIN Node[f].on \subseteq DOMAIN Node[f].subs
           /\ DOMAIN Node[f].on # {} => Len(Node[f].subs) \in DOMAIN Node[f].subs
<1>1. PICK m, n : m = Len(Node[f].on) /\ n = Len(Node[f].subs)
  OBVIOUS
<1>2. n = m + (IF Node[f].mode = "prefix" THEN 1 ELSE 0)
  BY <1>1, FormatAssumption
<1>3. m \in Nat /\ DOMAIN Node[f].on = 1..m /\ DOMAIN Node[f].subs = 1..n
  BY <1>1, SubsFacts
<1>4. n \in Nat /\ m <= n
  BY <1>2, <1>3
<1>5. 1..m \subseteq 1..n /\ (1..m # {} => n \in 1..n)
  BY <1>3, <1>4
<1>6. Len(Node[f].subs) = n
  BY <1>1
<1> QED
  BY <1>3, <1>5, <1>6

LEMMA BranchChoice ==
    ASSUME Inv, Typed, TopNode.kind = "union", NEW tag, NEW i \in Branch(TopNode, tag),
           CallInner(Top, TopNode.subs[i], Top.obj, Top.strm, streams)
    PROVE  \E f \in Fmt : Call([Top EXCEPT !.at = "inner"], f, Top.obj, Top.strm, streams, path)
<1>1. Top.fmt \in Fmt /\ TopNode = Node[Top.fmt] /\ Sound(Top.obj)
  BY TopTyped
<1>2. i \in DOMAIN TopNode.on
  BY DEF Branch
<1>4. i \in DOMAIN TopNode.subs
  BY <1>1, <1>2, BranchesAreSubs
<1>5. PICK f \in Fmt : f = TopNode.subs[i]
  BY <1>1, <1>4, SubsFacts
<1>6. Call([Top EXCEPT !.at = "inner"], f, Top.obj, Top.strm, streams, path)
  BY <1>5 DEF CallInner
<1> QED
  BY <1>6

LEMMA UnionChoice ==
    ASSUME Inv, Typed, UnionOpen
    PROVE  \/ \E e \in Refusals : Raise(e) /\ UNCHANGED <<config, streams, context, root, err>>
           \/ \E f \in Fmt : Call([Top EXCEPT !.at = "inner"], f, Top.obj, Top.strm, streams, path)
           \/ \E f \in Fmt : \E obj : Sound(obj) /\ Call([Top EXCEPT !.at = "tag"], f, obj, Top.strm, streams, path)
<1>1. PICK tag : tag = TagForEncode(TopNode, Top.obj)
  OBVIOUS
<1>2. PICK branches : branches = Branch(TopNode, tag.val)
  OBVIOUS
<1>3. /\ TopNode.kind = "union"
      /\ IF ~tag.ok \/ branches = {}
         THEN /\ Raise(IF tag.ok THEN "Value" ELSE tag.exc)
              /\ UNCHANGED <<config, streams, context, root, err>>
         ELSE IF TopNode.mode = "ref"
         THEN \E i \in branches : CallInner(Top, TopNode.subs[i], Top.obj, Top.strm, streams)
         ELSE Call([Top EXCEPT !.at = "tag"], Last(TopNode.subs), tag.val, Top.strm, streams, path)
  BY <1>1, <1>2 DEF UnionOpen, Running
<1>4. Top.fmt \in Fmt /\ TopNode = Node[Top.fmt] /\ Sound(Top.obj) /\ ParentsSound /\ IsSeq(parents)
  BY TopTyped
<1>5. CASE ~tag.ok \/ branches = {}
  <2>1. PICK e : e = IF tag.ok THEN "Value" ELSE tag.exc
    OBVIOUS
  <2>2. e \in Refusals
    BY <1>1, <2>1, TagDecided DEF Decided, Refusals
  <2>3. Raise(e) /\ UNCHANGED <<config, streams, context, root, err>>
    BY <1>3, <1>5, <2>1
  <2> QED
    BY <2>2, <2>3
<1>6. CASE tag.ok /\ branches # {} /\ TopNode.mode = "ref"
  <2>1. PICK i \in branches : CallInner(Top, TopNode.subs[i], Top.obj, Top.strm, streams)
    BY <1>3, <1>6
  <2> QED
    BY <1>2, <1>3, <2>1, BranchChoice
<1>7. CASE tag.ok /\ branches # {} /\ TopNode.mode # "ref"
  <2>1. PICK f : f = Last(TopNode.subs)
    OBVIOUS
  <2>2. f \in Fmt
    <3>1. DOMAIN TopNode.on # {}
      BY <1>2, <1>7 DEF Branch
    <3>2. Len(TopNode.subs) \in DOMAIN TopNode.subs
      BY <1>3, <1>4, <3>1, BranchesAreSubs
    <3>3. f = TopNode.subs[Len(TopNode.subs)]
      BY <2>1 DEF Last
    <3> QED
      BY <1>4, <3>2, <3>3, SubsFacts
  <2>3. PICK w : w = tag.val
    OBVIOUS
  <2>4. Sound(w)
    BY <1>1, <1>4, <1>7, <2>3, TagTyped
  <2>5. Call([Top EXCEPT !.at = "tag"], f, w, Top.strm, streams, path)
    BY <1>3, <1>7, <2>1, <2>3
  <2> QED
    BY <2>2, <2>4, <2>5
<1> QED
  BY <1>5, <1>6, <1>7

(* In a union, the value and its tag are handed on.                        *)
LEMMA UnionCalls ==
    ASSUME Inv, Typed, TopNode.kind = "union", NEW v \in {"inner", "tag"}, NEW f \in Fmt,
           NEW obj, Sound(obj), Call([Top EXCEPT !.at = v], f, obj, Top.strm, streams, path)
    PROVE  Typed'
  BY OwnStream, AdapterCalls

LEMMA UnionOpenTypes == ASSUME Inv, Typed, UnionOpen PROVE Typed'
<1>1. TopNode.kind = "union" /\ Sound(Top.obj)
  BY TopTyped DEF UnionOpen, Running
<1>2. CASE \E e \in Refusals : Raise(e) /\ UNCHANGED <<config, streams, context, root, err>>
  BY <1>2, RefusalTypes
<1>3. CASE \E f \in Fmt : Call([Top EXCEPT !.at = "inner"], f, Top.obj, Top.strm, streams, path)
  BY <1>1, <1>3, UnionCalls
<1>4. CASE \E f \in Fmt : \E obj : Sound(obj) /\ Call([Top EXCEPT !.at = "tag"], f, obj, Top.strm, streams, path)
  BY <1>1, <1>4, UnionCalls
<1> QED
  BY <1>2, <1>3, <1>4, UnionChoice

LEMMA UnionBranchChoice ==
    ASSUME Inv, Typed, UnionBranch
    PROVE  \E f \in Fmt : Call([Top EXCEPT !.at = "inner"], f, Top.obj, Top.strm, streams, path)
<1>1. TopNode.kind = "union"
  BY DEF UnionBranch, Resuming
<1>2. PICK i \in Branch(TopNode, ValueTag(TopNode, Top.obj)) :
         CallInner(Top, TopNode.subs[i], Top.obj, Top.strm, streams)
  BY DEF UnionBranch
<1> QED
  BY <1>1, <1>2, BranchChoice

LEMMA UnionBranchTypes == ASSUME Inv, Typed, UnionBranch PROVE Typed'
<1>1. TopNode.kind = "union" /\ Sound(Top.obj)
  BY TopTyped DEF UnionBranch, Resuming
<1> QED
  BY <1>1, UnionBranchChoice, UnionCalls

LEMMA WrapCloseTypes == ASSUME Inv, Typed, WrapClose PROVE Typed'
<1>1. TopNode.kind # "int" /\ Return(Top) /\ UNCHANGED <<config, streams, context, err>>
  BY DEF WrapClose, Resuming
<1> QED
  BY <1>1, DoneTypes

(* Pointer: where the offset has been written, it was a number.            *)
LEMMA PointerCalls ==
    ASSUME Inv, Typed, TopNode.kind = "pointer", Has(Top.obj, "offset"), Has(Top.obj, "value"),
           NEW v \in {"inner", "offset"}, NEW F, Replaces(F), F.obj = Top.obj, F.at = v, F.idx = Top.idx,
           F.saved \in Nat,
           NEW f \in Fmt, NEW obj, Sound(obj),
           v = "offset" => f = TopNode.subs[1] /\ obj = Top.obj.at["offset"],
           NEW ss, \A i \in 1..Len(ss) : IsStream(ss[i]), Len(ss) = Len(streams),
           Call(F, f, obj, Top.strm, ss, path)
    PROVE  Typed'
<1>1. Fit(Top) /\ TopNode = Node[Top.fmt] /\ Top.strm \in 1..Len(streams)
  BY TopTyped
<1>2. Fit(F)
  BY <1>1 DEF Fit, Replaces, Places
<1>3. Stepping(F) /\ Called(F, f, obj)
  BY <1>1 DEF Stepping, Called, Replaces
<1>4. \A i \in 1..Len(path) : path[i] \in Keys
  BY DEF Typed, ContextTyped
<1>5. Top.strm \in 1..Len(ss)
  BY <1>1
<1> QED
  BY <1>2, <1>3, <1>4, <1>5, CallTypes

LEMMA PointerOpenTypes == ASSUME Inv, Typed, PointerOpen PROVE Typed'
<1>1. TopNode.kind = "pointer"
  BY DEF PointerOpen, Running
<1>2. Top.fmt \in Fmt /\ TopNode = Node[Top.fmt] /\ Sound(Top.obj) /\ Fit(Top)
  BY TopTyped
<1>3. CASE Has(Top.obj, "offset") /\ Has(Top.obj, "value")
  <2>1. PICK F : F = [Top EXCEPT !.at = "offset"]
    OBVIOUS
  <2>2. PICK obj : obj = Top.obj.at["offset"]
    OBVIOUS
  <2>3. Call(F, TopNode.subs[1], obj, Top.strm, streams, path)
    BY <1>3, <2>1, <2>2 DEF PointerOpen
  <2>4. Sound(obj)
    BY <1>2, <1>3, <2>2, SoundParts DEF Has
  <2>5. DOMAIN Top = FrameFields
    BY TopFacts DEF IsFrame
  <2>6. Replaces(F) /\ F.obj = Top.obj /\ F.at = "offset" /\ F.idx = Top.idx /\ F.saved = Top.saved
    BY <2>1, <2>5 DEF Replaces, IsFrame, FrameFields
  <2>7. F.saved \in Nat
    BY <1>2, <2>6 DEF Fit
  <2>8. TopNode.subs[1] \in Fmt
    BY <1>1, <1>2, SubsAreFormats
  <2> QED
    BY <1>1, <1>3, <2>2, <2>3, <2>4, <2>6, <2>7, <2>8, OwnStream, PointerCalls
<1>4. CASE ~(Has(Top.obj, "offset") /\ Has(Top.obj, "value"))
  <2>1. PICK e : e = IF Top.obj.t = "map" THEN "Key" ELSE "Type"
    OBVIOUS
  <2>2. e \in Refusals
    BY <2>1 DEF Refusals
  <2>3. Raise(e) /\ UNCHANGED <<config, streams, context, err>>
    BY <1>4, <2>1 DEF PointerOpen
  <2> QED
    BY <2>2, <2>3, RefusalTypes
<1> QED
  BY <1>3, <1>4

LEMMA PointerJumpTypes == ASSUME Inv, Typed, PointerJump PROVE Typed'
<1>1. TopNode.kind = "pointer" /\ ctl = "resume" /\ Top.at = "offset"
  BY DEF PointerJump, Resuming
<1>2. /\ Top.fmt \in Fmt /\ TopNode = Node[Top.fmt] /\ Sound(Top.obj) /\ Fit(Top)
      /\ IsStream(TopStream) /\ TopStream = streams[Top.strm]
  BY TopTyped
<1>3. PICK off \in Nat : off = Top.obj.at["offset"].n
  BY <1>1, <1>2 DEF Typed, ReturnTyped
<1>4. Has(Top.obj, "offset") /\ Has(Top.obj, "value")
  BY <1>1, <1>2 DEF Fit
<1>5. CASE TopNode.flag /\ off = 0
  <2>1. Return(Top) /\ UNCHANGED <<config, streams, context, err>>
    BY <1>3, <1>5 DEF PointerJump
  <2> QED
    BY <1>1, <2>1, DoneTypes
<1>6. CASE ~(TopNode.flag /\ off = 0)
  <2>1. PICK F : F = [[Top EXCEPT !.saved = TopStream.pos] EXCEPT !.at = "inner"]
    OBVIOUS
  <2>2. PICK x : x = Seek(TopStream, TopNode.num + off)
    OBVIOUS
  <2>3. PICK ss : ss = [streams EXCEPT ![Top.strm] = x]
    OBVIOUS
  <2>4. PICK obj : obj = Top.obj.at["value"]
    OBVIOUS
  <2>5. Call(F, TopNode.subs[2], obj, Top.strm, ss, path)
    BY <1>3, <1>6, <2>1, <2>2, <2>3, <2>4 DEF PointerJump, CallInner, TopStream
  <2>6. Sound(obj)
    BY <1>2, <1>4, <2>4, SoundParts DEF Has
  <2>7. DOMAIN Top = FrameFields
    BY TopFacts DEF IsFrame
  <2>8. Replaces(F) /\ F.obj = Top.obj /\ F.at = "inner" /\ F.idx = Top.idx /\ F.saved = TopStream.pos
    BY <2>1, <2>7 DEF Replaces, IsFrame, FrameFields
  <2>9. F.saved \in Nat
    BY <1>2, <2>8 DEF IsStream
  <2>10. TopNode.num + off \in Nat
    <3>1. PICK num \in Nat : num = TopNode.num
      BY <1>2, FormatAssumption
    <3> QED
      BY <3>1
  <2>11. IsStream(x)
    BY <1>2, <2>2, <2>10, SeekTyped
  <2>12. Len(ss) = Len(streams) /\ \A i \in 1..Len(ss) : IsStream(ss[i])
    BY <2>3, <2>11, StreamChanges
  <2>13. TopNode.subs[2] \in Fmt
    BY <1>1, <1>2, SubsAreFormats
  <2> QED
    BY <1>1, <1>4, <2>5, <2>6, <2>8, <2>9, <2>12, <2>13, PointerCalls
<1> QED
  BY <1>5, <1>6

LEMMA PointerBackTypes == ASSUME Inv, Typed, PointerBack PROVE Typed'
<1>1. PICK x : x = Seek(TopStream, Top.saved)
  OBVIOUS
<1>2. /\ TopNode.kind = "pointer" /\ Return(Top) /\ UNCHANGED <<config, context, err>>
      /\ streams' = [streams EXCEPT ![Top.strm] = x]
  BY <1>1 DEF PointerBack, Resuming, TopStream
<1>3. Fit(Top) /\ IsStream(TopStream)
  BY TopTyped
<1>4. IsStream(x)
  BY <1>1, <1>3, SeekTyped DEF Fit
<1>5. StreamsTyped'
  BY <1>2, <1>4, StreamChanges DEF StreamsTyped
<1>6. ContextTyped' /\ curFmt' \in Fmt
  BY <1>2 DEF context, Typed, ContextTyped, ParentsSound, ScalarsTyped
<1>7. Aside
  BY <1>2, <1>5, <1>6 DEF Aside
<1> QED
  BY <1>2, <1>3, <1>7, ReturnTypes, TopUpdates, UpdatesReplace

(* A Sized has its value encoded in a stream of its own.                   *)
LEMMA SizedOpenTypes == ASSUME Inv, Typed, SizedOpen PROVE Typed'
<1>1. TopNode.kind = "sized"
  BY DEF SizedOpen, Running
<1>2. Top.fmt \in Fmt /\ TopNode = Node[Top.fmt] /\ Sound(Top.obj)
  BY TopTyped
<1>3. PICK n \in Nat : n = Len(streams) /\ IsSeq(streams) /\ \A i \in 1..n : IsStream(streams[i])
  BY TopFacts DEF Typed, StreamsTyped
<1>4. PICK ss : ss = Append(streams, Stream(TRUE))
  OBVIOUS
<1>5. Len(ss) = n + 1 /\ ss[n + 1] = Stream(TRUE) /\ \A i \in 1..n : ss[i] = streams[i]
  BY <1>3, <1>4, AppendSeq
<1>6. \A i \in 1..(n + 1) : IsStream(ss[i])
  <2>1. IsStream(Stream(TRUE))
    BY NewStream
  <2>2. \A i \in 1..n : IsStream(ss[i])
    BY <1>3, <1>5
  <2>3. \A i \in 1..(n + 1) : i \in 1..n \/ i = n + 1
    OBVIOUS
  <2> QED
    BY <1>5, <2>1, <2>2, <2>3
<1>7. TopNode.subs[1] \in Fmt
  BY <1>1, <1>2, SubsAreFormats DEF WrapKinds
<1>8. Call([Top EXCEPT !.at = "inner"], TopNode.subs[1], Top.obj, n + 1, ss, path)
  BY <1>3, <1>4 DEF SizedOpen, CallInner
<1>9. n + 1 \in 1..Len(ss) /\ \A i \in 1..Len(ss) : IsStream(ss[i])
  BY <1>5, <1>6
<1> QED
  BY <1>1, <1>2, <1>7, <1>8, <1>9, AdapterCalls

LEMMA SizedCloseTypes == ASSUME Inv, Typed, SizedClose PROVE Typed'
<1>1. /\ TopNode.kind = "sized" /\ ctl = "resume" /\ UNCHANGED <<config, context, err>>
  BY DEF SizedClose, Resuming
<1>2. /\ Top.fmt \in Fmt /\ TopNode = Node[Top.fmt] /\ Fit(Top)
      /\ IsStream(TopStream) /\ TopStream = streams[Top.strm]
  BY TopTyped
<1>3. PICK n \in Nat : n = Len(streams) /\ IsSeq(streams) /\ \A i \in 1..n : IsStream(streams[i])
  BY TopFacts DEF Typed, StreamsTyped
<1>4. n = Top.strm + 1 /\ Top.strm \in 1..n
  BY <1>1, <1>3, TopFacts DEF Inv, Buffered, Step, Sizing, TopNode
<1>5. PICK buf : buf = streams[Len(streams)]
  OBVIOUS
<1>6. IsStream(buf)
  <2>1. n \in 1..n
    BY <1>4
  <2> QED
    BY <1>3, <1>5, <2>1
<1>7. PICK head : head = LengthHead(TopNode, Len(buf.data))
  OBVIOUS
<1>8. Decided(head)
  BY <1>7, HeadDecided
<1>9. CASE ~head.ok
  <2>1. Raise(head.exc) /\ UNCHANGED streams
    BY <1>5, <1>7, <1>9 DEF SizedClose
  <2>2. head.exc \in Refusals
    BY <1>8, <1>9 DEF Decided
  <2> QED
    BY <1>1, <2>1, <2>2, RefusalTypes
<1>10. CASE head.ok
  <2>1. PICK frame : frame = head.val \o buf.data
                                 \o Repeated(TopNode.fill, PadLen(TopNode, Len(buf.data)))
    OBVIOUS
  <2>2. frame \in Seq(Byte)
    <3>1. PICK data \in Seq(Byte) : data = buf.data
      BY <1>6 DEF IsStream
    <3> QED
      BY <1>2, <1>7, <1>10, <2>1, <3>1, FramesTyped
  <2>3. PICK written : written = Write(TopStream, frame)
    OBVIOUS
  <2>4. IsStream(written)
    BY <1>2, <2>2, <2>3, WriteTyped
  <2>5. PICK x : x = [written EXCEPT !.torn = @ \/ buf.torn]
    OBVIOUS
  <2>6. IsStream(x)
    BY <2>4, <2>5 DEF IsStream, StreamFields
  <2>7. PICK kids : kids = IF inspect /\ TopNode.mode = "prefix"
                           THEN <<Leaf(TopStream.pos, head.val)>> \o Top.kids ELSE Top.kids
    OBVIOUS
  <2>8. PICK F : F = [Top EXCEPT !.kids = kids]
    OBVIOUS
  <2>9. streams' = Append(Under(Under(streams)), x) /\ Return(F)
    BY <1>5, <1>7, <1>10, <2>1, <2>3, <2>5, <2>7, <2>8 DEF SizedClose
  <2>10. StreamsTyped'
    <3>1. IsSeq(Under(streams)) /\ Len(Under(streams)) = n - 1
          /\ \A i \in 1..(n - 1) : Under(streams)[i] = streams[i]
      <4>1. n > 0
        BY <1>3, <1>4
      <4> QED
        BY <1>3, <4>1, UnderSeq
    <3>2. PICK u : u = Under(streams)
      OBVIOUS
    <3>3. PICK m \in Nat : n = m + 2
      <4>1. n - 2 \in Nat /\ n = (n - 2) + 2
        BY <1>3, <1>4
      <4> QED
        BY <4>1
    <3>4. IsSeq(u) /\ Len(u) = m + 1 /\ Len(u) > 0 /\ \A i \in 1..(m + 1) : u[i] = streams[i]
      BY <3>1, <3>2, <3>3
    <3>5. PICK w : w = Under(u)
      OBVIOUS
    <3>6. IsSeq(w) /\ Len(w) = m /\ \A i \in 1..m : w[i] = u[i]
      BY <3>4, <3>5, UnderSeq
    <3>7. PICK new : new = Append(w, x)
      OBVIOUS
    <3>8. Len(new) = m + 1 /\ new[m + 1] = x /\ \A i \in 1..m : new[i] = w[i]
      BY <3>6, <3>7, AppendSeq
    <3>9. \A i \in 1..m : new[i] = streams[i]
      BY <3>4, <3>6, <3>8
    <3>10. \A i \in 1..(m + 1) : IsStream(new[i])
      BY <1>3, <2>6, <3>3, <3>8, <3>9
    <3>11. streams' = new
      BY <2>9, <3>2, <3>5, <3>7
    <3> QED
      BY <3>8, <3>10, <3>11 DEF StreamsTyped
  <2>11. ContextTyped' /\ curFmt' \in Fmt
    BY <1>1 DEF context, Typed, ContextTyped, ParentsSound, ScalarsTyped
  <2>12. Aside
    BY <1>1, <2>10, <2>11 DEF Aside
  <2>13. Replaces(F) /\ Fit(F) /\ F.obj = Top.obj
    BY <2>8, FieldsUpdate, UpdatesReplace, UpdatesFit DEF SameScope
  <2> QED
    BY <1>1, <2>9, <2>12, <2>13, ReturnTypes
<1> QED
  BY <1>9, <1>10

(* A frame returns to the one that called it.                              *)
LEMMA LeaveTypes == ASSUME Inv, Typed, Leave PROVE Typed'
<1>1. /\ ctl = "leave" /\ Len(frames) > 1 /\ ctl' = "resume"
      /\ frames' = IF inspect THEN [Under(frames) EXCEPT ![Len(Under(frames))].kids = Append(@, NodeOf(Top))]
                   ELSE Under(frames)
      /\ UNCHANGED <<config, exc, streams, context, err>>
  BY DEF Leave
<1>2. PICK m \in Nat : m > 0 /\ Len(frames) = m + 1
  <2>1. Len(frames) - 1 \in Nat /\ Len(frames) - 1 > 0 /\ Len(frames) = (Len(frames) - 1) + 1
    BY <1>1, TopFacts
  <2> QED
    BY <2>1
<1>3. IsSeq(frames) /\ Top = frames[m + 1]
  BY <1>2 DEF Inv, Shape, Top
<1>4. PICK below : below = Under(frames)
  OBVIOUS
<1>5. IsSeq(below) /\ Len(below) = m /\ \A i \in 1..m : below[i] = frames[i]
  BY <1>2, <1>3, <1>4, UnderSeq
<1>6. PICK F : F = IF inspect THEN [below[m] EXCEPT !.kids = Append(@, NodeOf(Top))] ELSE below[m]
  OBVIOUS
<1>7. PICK new : new = frames'
  OBVIOUS
<1>8. Len(new) = m /\ new[m] = F /\ \A i \in 1..(m - 1) : new[i] = frames[i]
  <2>1. CASE inspect
    <3>1. new = [below EXCEPT ![m] = F]
      BY <1>1, <1>4, <1>5, <1>6, <1>7, <2>1
    <3>2. Len(new) = m /\ \A i \in 1..m : new[i] = IF i = m THEN F ELSE below[i]
      BY <1>5, <3>1, ExceptIsSeq
    <3> QED
      BY <1>2, <1>5, <3>2
  <2>2. CASE ~inspect
    <3>1. new = below
      BY <1>1, <1>4, <1>7, <2>2
    <3> QED
      BY <1>2, <1>5, <1>6, <2>2, <3>1
  <2> QED
    BY <2>1, <2>2
<1>9. /\ \A i \in 1..(m + 1) : Fit(frames[i])
      /\ \A i \in 1..m : Calls(frames[i], frames[i + 1])
  BY <1>2 DEF Typed, StackTyped, FramesFit
<1>10. /\ F.fmt = frames[m].fmt /\ F.obj = frames[m].obj /\ F.at = frames[m].at /\ F.idx = frames[m].idx
       /\ F.saved = frames[m].saved /\ F.pos0 = frames[m].pos0
  <2>1. DOMAIN frames[m] = FrameFields /\ below[m] = frames[m]
    BY <1>2, <1>5 DEF Inv, Shape, IsFrame
  <2> QED
    BY <1>6, <2>1 DEF FrameFields
<1>11. Fit(F)
  <2>1. Fit(frames[m])
    BY <1>2, <1>9
  <2> QED
    BY <1>10, <2>1 DEF Fit
<1>12. StackTyped'
  <2>1. PICK st : st = frames
    OBVIOUS
  <2>2. FramesFit(st, m)
    BY <1>9, <2>1 DEF FramesFit
  <2>3. FramesFit(new, m)
    BY <1>2, <1>8, <1>10, <1>11, <2>1, <2>2, StayFits
  <2>4. FramesFit(frames', Len(frames'))
    BY <1>7, <1>8, <2>3
  <2> QED
    BY <2>4 DEF StackTyped, FramesFit
<1>13. Top' = F
  BY <1>7, <1>8 DEF Top
<1>14. Calls(frames[m], Top)
  BY <1>2, <1>3, <1>9
<1>15. Stepping(F)
  BY <1>10, <1>14 DEF Calls, Stepping
<1>16. Node[F.fmt].kind = "pointer" /\ F.at = "offset" => F.obj.at["offset"].n \in Nat
  <2> SUFFICES ASSUME Node[F.fmt].kind = "pointer", F.at = "offset" PROVE F.obj.at["offset"].n \in Nat
    OBVIOUS
  <2>1. Top.fmt = Node[F.fmt].subs[1] /\ Top.obj = F.obj.at["offset"]
    BY <1>10, <1>14 DEF Calls, Called
  <2>2. Node[Node[F.fmt].subs[1]].kind = "int"
    BY <1>11, FormatAssumption DEF Fit
  <2> QED
    BY <1>1, <2>1, <2>2 DEF Typed, ReturnTyped
<1>17. ReturnTyped'
  BY <1>1, <1>13, <1>15, <1>16 DEF ReturnTyped, Stepping
<1>18. StreamsTyped' /\ ContextTyped' /\ ScalarsTyped'
  BY <1>1 DEF Typed, StreamsTyped, ContextTyped, ParentsSound, ScalarsTyped, context, config
<1> QED
  BY <1>12, <1>17, <1>18 DEF Typed

LEMMA EndTypes == ASSUME Inv, Typed, Finish \/ Report PROVE Typed'
<1>1. /\ ctl' = "done" /\ UNCHANGED <<config, frames, exc, streams, context>>
      /\ err'.fmt \in Fmt
  BY DEF Finish, Report, Typed, ScalarsTyped
<1>2. StreamsTyped' /\ ContextTyped' /\ ScalarsTyped'
  BY <1>1 DEF Typed, StreamsTyped, ContextTyped, ParentsSound, ScalarsTyped, context, config
<1>3. StackTyped'
  BY <1>1 DEF Typed, StackTyped, FramesFit
<1>4. ReturnTyped'
  BY <1>1 DEF ReturnTyped
<1> QED
  BY <1>2, <1>3, <1>4 DEF Typed

-----------------------------------------------------------------------------
LEMMA StepTyped == ASSUME Inv, Inv', Typed, Next PROVE Typed'
<1>1. CASE EncodeLeaf
  BY <1>1, LeafTypes
<1>2. CASE MapEnter \/ MapField \/ MapExit
  BY <1>2, MapEnterTypes, MapFieldTypes, MapExitTypes
<1>3. CASE TupleItem \/ ArrayItem
  BY <1>3, ItemsTypes
<1>4. CASE TupleExit \/ ArrayEnter \/ ArrayExit
  BY <1>4, TupleExitTypes, ArrayEnterTypes, ArrayExitTypes
<1>5. CASE ItemBack
  BY <1>5, ItemBackTypes
<1>6. CASE WrapOpen \/ SwitchOpen \/ WrapClose
  BY <1>6, WrapOpenTypes, SwitchOpenTypes, WrapCloseTypes
<1>7. CASE UnionOpen \/ UnionBranch
  BY <1>7, UnionOpenTypes, UnionBranchTypes
<1>8. CASE PointerOpen \/ PointerJump \/ PointerBack
  BY <1>8, PointerOpenTypes, PointerJumpTypes, PointerBackTypes
<1>9. CASE SizedOpen \/ SizedClose
  BY <1>9, SizedOpenTypes, SizedCloseTypes
<1>10. CASE Leave \/ Finish \/ Report
  BY <1>10, LeaveTypes, EndTypes
<1> QED
  BY <1>1, <1>2, <1>3, <1>4, <1>5, <1>6, <1>7, <1>8, <1>9, <1>10 DEF Next

LEMMA StutterTyped == ASSUME Typed, UNCHANGED vars PROVE Typed'
<1>1. UNCHANGED <<call, inspect, frames, ctl, exc, streams, parents, path, curFmt, err>>
  BY DEF vars, config, context
<1>2. StreamsTyped' /\ ContextTyped' /\ ScalarsTyped'
  BY <1>1 DEF Typed, StreamsTyped, ContextTyped, ParentsSound, ScalarsTyped
<1>3. StackTyped' /\ ReturnTyped'
  <2>1. Top' = Top
    BY <1>1 DEF Top
  <2>2. ReturnTyped'
    BY <1>1, <2>1 DEF Typed, ReturnTyped
  <2>3. StackTyped'
    BY <1>1 DEF Typed, StackTyped, FramesFit
  <2> QED
    BY <2>2, <2>3
<1> QED
  BY <1>2, <1>3 DEF Typed

LEMMA InitTyped == ASSUME GivenSound, Init PROVE Typed
<1>1. PICK c \in DOMAIN Given : call = Given[c]
  BY DEF Init
<1>2. PICK seekable : streams = <<Stream(seekable)>>
  BY DEF Init
<1>3. PICK G : G = NewFrame(call.fmt, call.obj, 1, 0)
  OBVIOUS
<1>4. /\ inspect \in Inspects /\ parents = <<MapV(<<>>)>> /\ path = <<>> /\ curFmt = call.fmt
      /\ frames = <<G>> /\ ctl = "run" /\ exc = "" /\ err.fmt = curFmt
  BY <1>3 DEF Init
<1>5. call.fmt \in Fmt /\ Sound(call.obj)
  BY <1>1, EncodeAssumption, SoundGiven
<1>6. Fit(G)
  BY <1>3, <1>5, NewFrameFits
<1>7. StackTyped
  <2>1. Len(frames) = 1 /\ frames[1] = G
    BY <1>4
  <2> QED
    BY <1>6, <2>1 DEF StackTyped, FramesFit
<1>8. StreamsTyped
  <2>1. Len(streams) = 1 /\ streams[1] = Stream(seekable)
    BY <1>2
  <2> QED
    BY <2>1, NewStream DEF StreamsTyped
<1>9. ContextTyped
  <2>1. Sound(MapV(<<>>))
    <3>1. PICK g : g = <<>>
      OBVIOUS
    <3>2. DOMAIN g = {}
      BY <3>1
    <3>3. IsFiniteSet(DOMAIN g)
      BY <3>2, FS_EmptySet
    <3>4. Sound(MapV(g))
      BY <3>2, <3>3, SoundMap
    <3> QED
      BY <3>1, <3>4
  <2>2. Len(parents) = 1 /\ parents[1] = MapV(<<>>) /\ Len(path) = 0
    BY <1>4
  <2> QED
    BY <2>1, <2>2 DEF ContextTyped, ParentsSound
<1>10. ScalarsTyped
  <2>1. exc \in Causes
    BY <1>4, Zenon DEF Causes
  <2> QED
    BY <1>4, <1>5, <2>1 DEF ScalarsTyped
<1>11. ReturnTyped
  BY <1>4 DEF ReturnTyped
<1> QED
  BY <1>7, <1>8, <1>9, <1>10, <1>11 DEF Typed

LEMMA Typing == ASSUME GivenSound PROVE Spec => [](Inv /\ Typed)
<1>1. Init => Inv /\ Typed
  BY InitInv, InitTyped
<1>2. Inv /\ Typed /\ [Next]_vars => (Inv /\ Typed)'
  BY StepInv, StutterInv, StepTyped, StutterTyped
<1> QED
  BY <1>1, <1>2, PTL DEF Spec

LEMMA TypesSuffice == ASSUME Inv, Typed PROVE TypeOK
<1>1. ctl \in Controls /\ inspect \in Inspects /\ curFmt \in Fmt /\ err.fmt \in Fmt
  BY DEF Inv, Shape, Typed, ScalarsTyped
<1>2. exc \in Refusals \cup {"", "Recursion"}
  BY DEF Typed, ScalarsTyped, Causes
<1>3. DOMAIN streams = 1..Len(streams) /\ DOMAIN frames = 1..Len(frames)
  BY DEF Inv, Shape, IsSeq
<1>4. \A i \in DOMAIN streams : streams[i].data \in Bytes /\ streams[i].pos \in Nat
  BY <1>3 DEF Typed, StreamsTyped, IsStream, Bytes
<1>5. parents # <<>> /\ frames # <<>>
  BY TopFacts DEF Typed, ContextTyped, ParentsSound
<1>6. path \in Seq(Keys)
  <2>1. PICK n \in Nat : n = Len(path) /\ path = [i \in 1..n |-> path[i]]
    BY TopFacts DEF IsSeq
  <2>2. \A i \in 1..n : path[i] \in Keys
    BY <2>1 DEF Typed, ContextTyped
  <2> QED
    BY <2>1, <2>2, SeqOfFunction
<1>7. ASSUME NEW i \in DOMAIN frames
      PROVE  /\ frames[i].fmt \in Fmt
             /\ frames[i].strm \in DOMAIN streams
             /\ frames[i].at \in {"enter", "loop", "items", "offset", "tag", "inner", "exit"}
             /\ frames[i].idx \in Nat /\ frames[i].saved \in Nat
  <2>1. Fit(frames[i]) /\ frames[i].strm \in DOMAIN streams
    BY <1>3 DEF Typed, StackTyped, FramesFit, Inv, Levels
  <2> QED
    BY <2>1 DEF Fit, Places
<1> QED
  BY <1>1, <1>2, <1>4, <1>5, <1>6, <1>7 DEF TypeOK

(* Every variable holds what it should, for every object Python can build. *)
THEOREM TypesAreKept == ASSUME GivenSound PROVE Spec => []TypeOK
<1>1. ASSUME Inv, Typed PROVE TypeOK
  BY <1>1, TypesSuffice
<1> QED
  BY <1>1, Typing, PTL

-----------------------------------------------------------------------------
(* The inductive invariant behind SizeofIsWritten.  A frame whose format   *)
(* has a size stands where the fields or items before the one it works on  *)
(* end, one that waits has called there, and a Pointer remembers where its *)
(* offset ends; in a stream that can seek.                                 *)
Counted == {"map", "tuple", "array"}

Placed(F, G, seekable) ==
    Fixed(F.fmt) /\ seekable =>
      /\ Node[F.fmt].kind \in Counted => G.pos0 = F.pos0 + Part(F.fmt, F.idx - 1)
      /\ Node[F.fmt].kind = "scale" => G.pos0 = F.pos0
      /\ Node[F.fmt].kind = "pointer" => IF F.at = "offset" THEN G.pos0 = F.pos0
                                         ELSE F.saved = F.pos0 + SizeOf[F.fmt]

Stands(c, F, pos) ==
    Fixed(F.fmt) =>
      /\ c = "run" => pos = F.pos0 + (IF Node[F.fmt].kind \in Counted THEN Part(F.fmt, F.idx) ELSE 0)
      /\ c = "leave" => pos = F.pos0 + SizeOf[F.fmt]
      /\ c = "resume" =>
            /\ Node[F.fmt].kind \in Counted => pos = F.pos0 + Part(F.fmt, F.idx)
            /\ Node[F.fmt].kind = "scale" => pos = F.pos0 + SizeOf[F.fmt]
            /\ Node[F.fmt].kind = "pointer" => IF F.at = "offset" THEN pos = F.pos0 + SizeOf[F.fmt]
                                               ELSE F.saved = F.pos0 + SizeOf[F.fmt]

Placing ==
    /\ \A i \in 1..(Len(frames) - 1) :
          Placed(frames[i], frames[i + 1], streams[frames[i].strm].seekable)
    /\ TopStream.seekable => Stands(ctl, Top, TopStream.pos)

(* No stream of an open frame becomes able to seek.                        *)
Seeking(ss) == \A k \in 1..Top.strm : ss[k].seekable => streams[k].seekable

LEMMA FramesBelow ==
    ASSUME Inv, NEW i \in 1..Len(frames)
    PROVE  frames[i].strm \in 1..Top.strm
<1>1. PICK n \in Nat : n = Len(frames) /\ n > 0 /\ i \in 1..n
  BY TopFacts
<1>2. Top = frames[n] /\ Top.strm \in Nat /\ frames[i].strm \in Nat /\ frames[i].strm > 0
      /\ Step(frames[i]) \in Nat
  BY <1>1, TopFacts DEF Top, Inv, Levels, Step
<1>3. CASE i = n
  BY <1>2, <1>3
<1>4. CASE i \in 1..(n - 1)
  <2>1. n \in 1..n
    BY <1>1
  <2>2. frames[i].strm + Step(frames[i]) <= frames[n].strm
    BY <1>1, <1>4, <2>1 DEF Inv, Climbs
  <2> QED
    BY <1>2, <2>2
<1> QED
  BY <1>1, <1>3, <1>4

LEMMA PlacedBelow ==
    ASSUME Inv, Placing, NEW ss, Seeking(ss), NEW i \in 1..(Len(frames) - 1)
    PROVE  Placed(frames[i], frames[i + 1], ss[frames[i].strm].seekable)
<1>1. Placed(frames[i], frames[i + 1], streams[frames[i].strm].seekable)
  BY DEF Placing
<1>2. i \in 1..Len(frames)
  BY TopFacts
<1>3. ss[frames[i].strm].seekable => streams[frames[i].strm].seekable
  BY <1>2, FramesBelow DEF Seeking
<1> QED
  BY <1>1, <1>3 DEF Placed

LEMMA TopStands ==
    ASSUME Inv, Typed, Placing
    PROVE  /\ TopStream.seekable => Stands(ctl, Top, TopStream.pos)
           /\ Fit(Top) /\ Top.fmt \in Fmt /\ Top.pos0 \in Nat /\ TopStream.pos \in Nat
           /\ SizeOf[Top.fmt] \in Int /\ TopNode = Node[Top.fmt]
           /\ Seeking(streams)
<1>1. Fit(Top) /\ IsStream(TopStream) /\ Top.fmt \in Fmt
  BY TopTyped
<1> QED
  BY <1>1, SizesByKind DEF Placing, Fit, IsStream, Seeking, TopNode

(* The running frame goes on, ends or raises.                              *)
LEMMA StayPlaces ==
    ASSUME Inv, Placing, NEW F, Replaces(F), frames' = WithTop(F), Seeking(streams'),
           streams'[Top.strm].seekable => Stands(ctl', F, streams'[Top.strm].pos)
    PROVE  Placing'
<1>1. PICK n \in Nat : n = Len(frames) /\ n > 0
  BY TopFacts
<1>2. /\ Len(frames') = n /\ frames'[n] = F
      /\ \A i \in 1..(n - 1) : frames'[i] = frames[i]
  BY <1>1, ReplacedFacts
<1>3. ASSUME NEW i \in 1..(n - 1)
      PROVE  Placed(frames'[i], frames'[i + 1], streams'[frames'[i].strm].seekable)
  <2>1. Placed(frames[i], frames[i + 1], streams'[frames[i].strm].seekable)
    BY <1>1, PlacedBelow
  <2>2. frames'[i + 1].pos0 = frames[i + 1].pos0
    BY <1>1, <1>2 DEF Replaces, Top
  <2>3. frames'[i] = frames[i]
    BY <1>2
  <2> QED
    BY <2>1, <2>2, <2>3 DEF Placed
<1>4. Top' = F /\ TopStream' = streams'[Top.strm]
  BY <1>2 DEF Top, TopStream, Replaces
<1> QED
  BY <1>2, <1>3, <1>4 DEF Placing

LEMMA ReturnPlaces ==
    ASSUME Inv, Placing, NEW F, Replaces(F), Return(F), Seeking(streams'),
           streams'[Top.strm].seekable /\ Fixed(Top.fmt) => streams'[Top.strm].pos = Top.pos0 + SizeOf[Top.fmt]
    PROVE  Placing'
<1>1. streams'[Top.strm].seekable => Stands(ctl', F, streams'[Top.strm].pos)
  BY DEF Stands, Replaces, Return
<1> QED
  BY <1>1, StayPlaces DEF Return

LEMMA RaisePlaces ==
    ASSUME Inv, Placing, NEW e, Raise(e), Seeking(streams')
    PROVE  Placing'
<1>1. frames' = WithTop(Top) /\ Replaces(Top) /\ ctl' = "raise"
  BY TopFacts, TopUpdates, UpdatesReplace DEF Raise
<1>2. streams'[Top.strm].seekable => Stands(ctl', Top, streams'[Top.strm].pos)
  BY <1>1 DEF Stands
<1> QED
  BY <1>1, <1>2, StayPlaces

(* The stream stays where it is.                                           *)
LEMMA StillPlaces ==
    ASSUME Inv, Placing, NEW F, Replaces(F), frames' = WithTop(F), UNCHANGED streams,
           TopStream.seekable => Stands(ctl', F, TopStream.pos)
    PROVE  Placing'
<1>1. Seeking(streams')
  BY DEF Seeking
<1> QED
  BY <1>1, StayPlaces DEF TopStream

LEMMA IdleRaise == ASSUME Inv, Placing, NEW e, Raise(e), UNCHANGED streams PROVE Placing'
<1>1. Seeking(streams')
  BY DEF Seeking
<1> QED
  BY <1>1, RaisePlaces

LEMMA IdleReturn ==
    ASSUME Inv, Placing, NEW F, Replaces(F), Return(F), UNCHANGED streams,
           TopStream.seekable /\ Fixed(Top.fmt) => TopStream.pos = Top.pos0 + SizeOf[Top.fmt]
    PROVE  Placing'
<1>1. Seeking(streams')
  BY DEF Seeking
<1> QED
  BY <1>1, ReturnPlaces DEF TopStream

(* The running frame moves its stream.                                     *)
LEMMA MoveSeeks ==
    ASSUME Inv, Typed, NEW x, IsStream(x), x.seekable => TopStream.seekable,
           NEW new, new = [streams EXCEPT ![Top.strm] = x]
    PROVE  Seeking(new) /\ new[Top.strm] = x
<1>1. PICK s : s = Top.strm
  OBVIOUS
<1>2. s \in 1..Len(streams) /\ Len(streams) \in Nat
  BY <1>1, TopFacts
<1>3. \A i \in 1..Len(streams) : new[i] = IF i = s THEN x ELSE streams[i]
  BY <1>1, StreamChanges
<1>4. \A k \in 1..s : k \in 1..Len(streams)
  BY <1>2
<1> QED
  BY <1>1, <1>2, <1>3, <1>4 DEF Seeking, TopStream

LEMMA EmitPlaces ==
    ASSUME Inv, Typed, Placing, NEW r, Emit(r), r.ok => r.val \in Seq(Byte),
           r.ok /\ TopStream.seekable /\ Fixed(Top.fmt) =>
              TopStream.pos + Len(r.val) = Top.pos0 + SizeOf[Top.fmt]
    PROVE  Placing'
<1>1. CASE r.ok
  <2>1. PICK x : x = Write(TopStream, r.val)
    OBVIOUS
  <2>2. IsStream(x) /\ x.seekable = TopStream.seekable /\ x.pos = TopStream.pos + Len(r.val)
    BY <1>1, <2>1, TopTyped, WriteTyped
  <2>3. PICK F : F = [Top EXCEPT !.raw = r.val]
    OBVIOUS
  <2>4. streams' = [streams EXCEPT ![Top.strm] = x] /\ Return(F)
    BY <1>1, <2>1, <2>3 DEF Emit, TopStream
  <2>5. Replaces(F)
    BY <2>3, FieldsUpdate, UpdatesReplace
  <2>6. x.seekable => TopStream.seekable
    BY <2>2
  <2>7. Seeking(streams') /\ streams'[Top.strm] = x
    BY <2>2, <2>4, <2>6, MoveSeeks
  <2> QED
    BY <1>1, <2>2, <2>4, <2>5, <2>6, <2>7, ReturnPlaces
<1>2. CASE ~r.ok
  BY <1>2, IdleRaise DEF Emit
<1> QED
  BY <1>1, <1>2

LEMMA CallPlaces ==
    ASSUME Inv, Typed, Placing, NEW F, Replaces(F),
           NEW f \in Fmt, NEW obj, NEW ss, Seeking(ss), NEW s, NEW pa,
           \A G : G.pos0 = ss[s].pos => Placed(F, G, ss[Top.strm].seekable),
           Call(F, f, obj, s, ss, pa), ss[s].pos \in Nat
    PROVE  Placing'
<1>1. streams' = ss
  BY DEF Call
<1>2. CASE Len(frames) = MaxDepth
  <2>1. frames' = WithTop(F) /\ ctl' = "raise"
    BY <1>2 DEF Call
  <2>2. ss[Top.strm].seekable => Stands(ctl', F, ss[Top.strm].pos)
    BY <2>1 DEF Stands
  <2> QED
    BY <1>1, <2>1, <2>2, StayPlaces
<1>3. CASE Len(frames) # MaxDepth
  <2>1. PICK G : G = NewFrame(f, obj, s, ss[s].pos)
    OBVIOUS
  <2>2. G.fmt = f /\ G.strm = s /\ G.pos0 = ss[s].pos /\ G.idx = 0
    BY <2>1 DEF NewFrame
  <2>3. frames' = Append(WithTop(F), G) /\ ctl' = "run"
    BY <1>3, <2>1 DEF Call
  <2>4. PICK n \in Nat : n = Len(frames) /\ n > 0
    BY TopFacts
  <2>5. PICK middle : middle = WithTop(F)
    OBVIOUS
  <2>6. /\ IsSeq(middle) /\ Len(middle) = n /\ middle[n] = F
        /\ \A i \in 1..(n - 1) : middle[i] = frames[i]
    BY <2>4, <2>5, WithTopFacts
  <2>7. /\ Len(frames') = n + 1 /\ frames'[n + 1] = G
        /\ \A i \in 1..n : frames'[i] = middle[i]
    BY <2>3, <2>5, <2>6, AppendSeq
  <2>8. frames'[n] = F /\ \A i \in 1..(n - 1) : frames'[i] = frames[i]
    BY <2>4, <2>6, <2>7
  <2>9. ASSUME NEW i \in 1..n
        PROVE  Placed(frames'[i], frames'[i + 1], ss[frames'[i].strm].seekable)
    <3>1. CASE i = n
      <4>1. Placed(F, G, ss[Top.strm].seekable)
        BY <2>2
      <4>2. F.strm = Top.strm
        BY DEF Replaces
      <4> QED
        BY <2>7, <2>8, <3>1, <4>1, <4>2
    <3>2. CASE i \in 1..(n - 1)
      <4>1. Placed(frames[i], frames[i + 1], ss[frames[i].strm].seekable)
        BY <2>4, <3>2, PlacedBelow
      <4>2. frames'[i + 1].pos0 = frames[i + 1].pos0
        <5>1. CASE i = n - 1
          BY <2>4, <2>8, <5>1 DEF Replaces, Top
        <5>2. CASE i # n - 1
          BY <2>4, <2>8, <3>2, <5>2
        <5> QED
          BY <5>1, <5>2
      <4>3. frames'[i] = frames[i]
        BY <2>8, <3>2
      <4> QED
        BY <4>1, <4>2, <4>3 DEF Placed
    <3> QED
      BY <3>1, <3>2
  <2>10. Stands("run", G, ss[s].pos)
    <3>1. Node[f].kind \in Counted => Part(f, 0) = 0
      BY PartsOfFields, PartsOfItems DEF Counted
    <3> QED
      BY <2>2, <3>1 DEF Stands
  <2>11. Top' = G /\ TopStream' = ss[s]
    BY <1>1, <2>2, <2>7 DEF Top, TopStream
  <2>12. Len(frames') - 1 = n
    BY <2>7
  <2> QED
    BY <1>1, <2>3, <2>9, <2>10, <2>11, <2>12 DEF Placing
<1> QED
  BY <1>2, <1>3

LEMMA LeafPlaces == ASSUME Inv, Typed, Placing, EncodeLeaf PROVE Placing'
<1>1. PICK r : r = LeafWrite(TopNode, Top.obj)
  OBVIOUS
<1>2. ctl = "run" /\ TopNode.kind \in LeafKinds /\ Emit(r)
  BY <1>1 DEF EncodeLeaf
<1>3. r.ok => r.val \in Seq(Byte) /\ (Fixed(Top.fmt) => Len(r.val) = SizeOf[Top.fmt])
  BY <1>1, <1>2, TopTyped, LeafTyped
<1>4. TopStream.seekable /\ Fixed(Top.fmt) => TopStream.pos = Top.pos0
  BY <1>2, TopStands DEF Stands, Counted, LeafKinds
<1>5. r.ok /\ TopStream.seekable /\ Fixed(Top.fmt) => TopStream.pos + Len(r.val) = Top.pos0 + SizeOf[Top.fmt]
  BY <1>3, <1>4
<1> QED
  BY <1>2, <1>3, <1>5, EmitPlaces

LEMMA MapEnterPlaces == ASSUME Inv, Typed, Placing, MapEnter PROVE Placing'
<1>1. PICK F : F = [Top EXCEPT !.at = "loop", !.obj = Prefilled(TopNode, Top.obj)]
  OBVIOUS
<1>2. ctl = "run" /\ ctl' = "run" /\ TopNode.kind = "map" /\ frames' = WithTop(F) /\ UNCHANGED streams
  BY <1>1 DEF MapEnter, Running
<1>3. DOMAIN Top = FrameFields
  BY TopFacts DEF IsFrame
<1>4. Replaces(F) /\ F.idx = Top.idx
  BY <1>1, <1>3 DEF Replaces, IsFrame, FrameFields
<1>5. TopStream.seekable => Stands(ctl', F, TopStream.pos)
  BY <1>2, <1>4, TopStands DEF Stands, Replaces
<1> QED
  BY <1>2, <1>4, <1>5, StillPlaces

(* A field or an item is encoded where the ones before it end.             *)
LEMMA ItemPlaces ==
    ASSUME Inv, Typed, Placing, ctl = "run", TopNode.kind \in Counted,
           NEW i \in Nat, i = Top.idx + 1, NEW key, NEW f \in Fmt, NEW obj, NEW pa,
           Call([Top EXCEPT !.idx = i, !.item = key], f, obj, Top.strm, streams, pa)
    PROVE  Placing'
<1>1. PICK F : F = [Top EXCEPT !.idx = i, !.item = key]
  OBVIOUS
<1>2. Replaces(F) /\ F.idx = i
  BY <1>1, FieldsUpdate, UpdatesReplace, TopFacts DEF IsFrame, FrameFields
<1>3. i - 1 = Top.idx
  BY TopTyped
<1>4. TopStream.seekable /\ Fixed(Top.fmt) => TopStream.pos = Top.pos0 + Part(Top.fmt, Top.idx)
  BY TopStands DEF Stands
<1>5. ASSUME NEW G, G.pos0 = streams[Top.strm].pos PROVE Placed(F, G, streams[Top.strm].seekable)
  <2>1. F.idx - 1 = Top.idx /\ F.fmt = Top.fmt /\ F.pos0 = Top.pos0 /\ Node[F.fmt].kind \in Counted
    BY <1>2, <1>3, TopStands DEF Replaces
  <2>2. Node[F.fmt].kind \notin {"scale", "pointer"}
    BY <2>1 DEF Counted
  <2> QED
    BY <1>4, <1>5, <2>1, <2>2 DEF Placed, TopStream
<1>6. Seeking(streams) /\ streams[Top.strm].pos \in Nat
  BY TopStands DEF TopStream
<1>7. Call(F, f, obj, Top.strm, streams, pa)
  BY <1>1
<1> QED
  BY <1>2, <1>5, <1>6, <1>7, CallPlaces

LEMMA MapFieldPlaces == ASSUME Inv, Typed, Placing, MapField PROVE Placing'
<1>1. ctl = "run" /\ TopNode.kind = "map"
  BY DEF MapField, Running
<1>2. PICK i \in DOMAIN TopNode.subs :
         /\ i = Top.idx + 1
         /\ LET v == FieldValue(TopNode, i, Top.obj)
                key == Name(TopNode.keys[i])
            IN  IF v.ok
                THEN Call([Top EXCEPT !.idx = i, !.item = key], TopNode.subs[i], v.val, Top.strm,
                          streams, Append(path, key))
                ELSE Raise(v.exc) /\ UNCHANGED streams
  BY DEF MapField
<1>3. PICK v : v = FieldValue(TopNode, i, Top.obj)
  OBVIOUS
<1>4. CASE v.ok
  <2>1. PICK key, f : key = Name(TopNode.keys[i]) /\ f = TopNode.subs[i]
    OBVIOUS
  <2>2. Call([Top EXCEPT !.idx = i, !.item = key], f, v.val, Top.strm, streams, Append(path, key))
    BY <1>2, <1>3, <1>4, <2>1
  <2>3. f \in Fmt
    BY <2>1, TopTyped, SubsFacts
  <2>4. i \in Nat
    BY <1>2, TopTyped
  <2> QED
    BY <1>1, <1>2, <2>2, <2>3, <2>4, ItemPlaces DEF Counted
<1>5. CASE ~v.ok
  <2>1. Raise(v.exc) /\ UNCHANGED streams
    BY <1>2, <1>3, <1>5
  <2> QED
    BY <2>1, IdleRaise
<1> QED
  BY <1>4, <1>5

LEMMA MapExitPlaces == ASSUME Inv, Typed, Placing, MapExit PROVE Placing'
<1>1. PICK F : F = [Top EXCEPT !.at = "exit"]
  OBVIOUS
<1>2. /\ ctl = "run" /\ TopNode.kind = "map" /\ Top.idx = Len(TopNode.subs)
      /\ Return(F) /\ UNCHANGED streams
  BY <1>1 DEF MapExit, Running
<1>3. DOMAIN Top = FrameFields
  BY TopFacts DEF IsFrame
<1>4. Replaces(F)
  BY <1>1, <1>3 DEF Replaces, IsFrame, FrameFields
<1>5. TopStream.seekable /\ Fixed(Top.fmt) => TopStream.pos = Top.pos0 + Part(Top.fmt, Top.idx)
  BY <1>2, TopStands DEF Stands, Counted
<1>6. Fixed(Top.fmt) => SizeOf[Top.fmt] = Part(Top.fmt, Top.idx)
  BY <1>2, TopStands, PartsOfFields
<1>7. TopStream.seekable /\ Fixed(Top.fmt) => TopStream.pos = Top.pos0 + SizeOf[Top.fmt]
  BY <1>5, <1>6
<1> QED
  BY <1>2, <1>4, <1>7, IdleReturn

LEMMA CallItemPlaces ==
    ASSUME Inv, Typed, Placing, ctl = "run", TopNode.kind \in Counted, NEW f \in Fmt, CallItem(f)
    PROVE  Placing'
<1>1. PICK i \in Nat : i = Top.idx + 1
  BY TopTyped
<1>2. PICK key : key = Index(Top.idx)
  OBVIOUS
<1>3. Call([Top EXCEPT !.idx = i, !.item = key], f, Items(Top.obj)[i], Top.strm, streams, Append(path, key))
  BY <1>1, <1>2, TopFacts DEF CallItem, IsFrame, FrameFields
<1> QED
  BY <1>1, <1>3, ItemPlaces

LEMMA ItemsPlaces == ASSUME Inv, Typed, Placing, TupleItem \/ ArrayItem PROVE Placing'
<1>1. Top.fmt \in Fmt /\ TopNode = Node[Top.fmt]
  BY TopTyped
<1>2. CASE TupleItem
  <2>1. PICK i \in DOMAIN TopNode.subs : CallItem(TopNode.subs[i])
    BY <1>2 DEF TupleItem
  <2>2. PICK f \in Fmt : f = TopNode.subs[i]
    BY <1>1, <2>1, SubsFacts
  <2>3. ctl = "run" /\ TopNode.kind \in Counted /\ CallItem(f)
    BY <1>2, <2>1, <2>2 DEF TupleItem, Running, Counted
  <2> QED
    BY <2>3, CallItemPlaces
<1>3. CASE ArrayItem
  <2>1. ctl = "run" /\ TopNode.kind = "array" /\ CallItem(TopNode.subs[1])
    BY <1>3 DEF ArrayItem, Running
  <2>2. PICK f \in Fmt : f = TopNode.subs[1]
    BY <1>1, <2>1, SubsAreFormats DEF WrapKinds
  <2> QED
    BY <2>1, <2>2, CallItemPlaces DEF Counted
<1> QED
  BY <1>2, <1>3

LEMMA ItemBackPlaces == ASSUME Inv, Typed, Placing, ItemBack PROVE Placing'
<1>1. ctl = "resume" /\ ctl' = "run" /\ TopNode.kind \in Counted /\ UNCHANGED <<frames, streams>>
  BY DEF ItemBack, Resuming, Counted
<1>2. Replaces(Top) /\ frames' = WithTop(Top)
  BY <1>1, TopUpdates, UpdatesReplace, TopFacts
<1>3. TopStream.seekable => Stands(ctl', Top, TopStream.pos)
  BY <1>1, TopStands DEF Stands
<1> QED
  BY <1>1, <1>2, <1>3, StillPlaces

LEMMA TupleExitPlaces == ASSUME Inv, Typed, Placing, TupleExit PROVE Placing'
<1>1. ctl = "run" /\ TopNode.kind = "tuple" /\ UNCHANGED streams
  BY DEF TupleExit, Running
<1>2. CASE Return(Top) /\ IsIterable(Top.obj)
  <2>1. Top.idx = Len(TopNode.subs)
    <3>1. ctl' = "leave"
      BY <1>2 DEF Return
    <3>2. Len(Items(Top.obj)) = Len(TopNode.subs)
      BY <1>2, <3>1 DEF TupleExit, Raise
    <3>3. Top.idx = Len(Items(Top.obj)) \/ Top.idx = Len(TopNode.subs)
      BY <1>2 DEF TupleExit
    <3> QED
      BY <3>2, <3>3
  <2>2. TopStream.seekable /\ Fixed(Top.fmt) => TopStream.pos = Top.pos0 + Part(Top.fmt, Top.idx)
    BY <1>1, TopStands DEF Stands, Counted
  <2>3. Fixed(Top.fmt) => SizeOf[Top.fmt] = Part(Top.fmt, Top.idx)
    BY <1>1, <2>1, TopStands, PartsOfFields
  <2>4. TopStream.seekable /\ Fixed(Top.fmt) => TopStream.pos = Top.pos0 + SizeOf[Top.fmt]
    BY <2>2, <2>3
  <2> QED
    BY <1>1, <1>2, <2>4, IdleReturn, TopUpdates, UpdatesReplace
<1>3. CASE \E e : Raise(e)
  BY <1>1, <1>3, IdleRaise
<1> QED
  BY <1>2, <1>3 DEF TupleExit

LEMMA ArrayExitPlaces == ASSUME Inv, Typed, Placing, ArrayExit PROVE Placing'
<1>1. /\ ctl = "run" /\ TopNode.kind = "array" /\ Top.at = "items" /\ Top.idx = Len(Items(Top.obj))
      /\ Return(Top) /\ UNCHANGED streams
  BY DEF ArrayExit, Running
<1>2. Top.fmt \in Fmt /\ TopNode = Node[Top.fmt] /\ Fit(Top)
  BY TopTyped
<1>3. Fixed(Top.fmt) => SizeOf[Top.fmt] = Part(Top.fmt, TopNode.num) /\ TopNode.mode = "const"
  BY <1>1, <1>2, PartsOfItems
<1>4. TopNode.mode = "const" => Top.idx = TopNode.num
  BY <1>1, <1>2 DEF Fit
<1>5. TopStream.seekable /\ Fixed(Top.fmt) => TopStream.pos = Top.pos0 + Part(Top.fmt, Top.idx)
  BY <1>1, TopStands DEF Stands, Counted
<1>6. TopStream.seekable /\ Fixed(Top.fmt) => TopStream.pos = Top.pos0 + SizeOf[Top.fmt]
  BY <1>3, <1>4, <1>5
<1> QED
  BY <1>1, <1>6, IdleReturn, TopUpdates, UpdatesReplace

(* An array of numbers that is written at once is as long as its items,    *)
(* unless one of them is a list, which is taken apart.                     *)
FlatGiven ==
    Running("array") /\ Top.at = "enter" /\ IsFast(TopNode) /\ TopNode.mode = "const" /\ IsIterable(Top.obj) =>
        \A i \in 1..Len(Items(Top.obj)) : Items(Top.obj)[i].t # "list"

LEMMA ArrayEnterPlaces == ASSUME Inv, Typed, Placing, FlatGiven, ArrayEnter PROVE Placing'
<1>1. PICK r : r = Prologue(TopNode, Top.obj)
  OBVIOUS
<1>2. ctl = "run" /\ TopNode.kind = "array" /\ Top.at = "enter"
  BY DEF ArrayEnter, Running
<1>3. /\ Top.fmt \in Fmt /\ TopNode = Node[Top.fmt] /\ Sound(Top.obj) /\ Fit(Top)
      /\ ParentsSound /\ IsSeq(parents)
  BY TopTyped
<1>4. r.ok => /\ r.val \in Seq(Byte) /\ IsIterable(Top.obj)
              /\ TopNode.mode = "const" => Len(Items(Top.obj)) = TopNode.num
              /\ TopNode.mode # "prefix" /\ ~IsFast(TopNode) => r.val = <<>>
              /\ IsFast(TopNode) => r = FastBytes(TopNode, Top.obj)
  BY <1>1, <1>2, <1>3, PrologueTyped
<1>5. Top.idx = 0 /\ Part(Top.fmt, 0) = 0
  BY <1>2, <1>3, PartsOfItems DEF Fit
<1>6. TopStream.seekable /\ Fixed(Top.fmt) => TopStream.pos = Top.pos0
  BY <1>2, <1>5, TopStands DEF Stands, Counted
<1>7. CASE IsFast(TopNode) \/ ~r.ok
  <2>1. Emit(r)
    BY <1>1, <1>7 DEF ArrayEnter
  <2>2. ASSUME r.ok, Fixed(Top.fmt) PROVE Len(r.val) = SizeOf[Top.fmt]
    <3>1. IsFast(TopNode) /\ Node[TopNode.subs[1]].kind = "int"
      BY <1>7, <2>2 DEF IsFast
    <3>2. TopNode.mode = "const" /\ SizeOf[Top.fmt] = Part(Top.fmt, TopNode.num)
      BY <1>2, <1>3, <2>2, PartsOfItems
    <3>3. PICK w : w = Node[TopNode.subs[1]].num
      OBVIOUS
    <3>4. SizeOf[TopNode.subs[1]] = w
      BY <1>2, <1>3, <3>1, <3>3, SubsAreFormats, SizesByKind DEF WrapKinds
    <3>5. SizeOf[Top.fmt] = TopNode.num * w
      BY <1>2, <1>3, <3>2, <3>4 DEF Part
    <3>6. \A i \in 1..Len(Items(Top.obj)) : Items(Top.obj)[i].t # "list"
      BY <1>2, <1>4, <2>2, <3>1, <3>2 DEF FlatGiven, Running
    <3>7. Len(r.val) = Len(Items(Top.obj)) * w
      BY <1>2, <1>3, <1>4, <2>2, <3>1, <3>3, <3>6, FastBytesTyped
    <3> QED
      BY <1>4, <2>2, <3>2, <3>5, <3>7
  <2>3. r.ok /\ TopStream.seekable /\ Fixed(Top.fmt) => TopStream.pos + Len(r.val) = Top.pos0 + SizeOf[Top.fmt]
    BY <1>6, <2>2
  <2> QED
    BY <1>4, <2>1, <2>3, EmitPlaces
<1>8. CASE ~IsFast(TopNode) /\ r.ok
  <2>1. PICK x : x = Write(TopStream, r.val)
    OBVIOUS
  <2>2. PICK F : F = [Top EXCEPT !.at = "items"]
    OBVIOUS
  <2>3. streams' = [streams EXCEPT ![Top.strm] = x] /\ frames' = WithTop(F) /\ UNCHANGED ctl
    BY <1>1, <1>8, <2>1, <2>2 DEF ArrayEnter, TopStream
  <2>4. IsStream(x) /\ x.seekable = TopStream.seekable /\ x.pos = TopStream.pos + Len(r.val)
    BY <1>4, <1>8, <2>1, TopTyped, WriteTyped
  <2>5. x.seekable => TopStream.seekable
    BY <2>4
  <2>6. Seeking(streams') /\ streams'[Top.strm] = x
    BY <2>3, <2>4, <2>5, MoveSeeks
  <2>7. DOMAIN Top = FrameFields
    BY TopFacts DEF IsFrame
  <2>8. Replaces(F) /\ F.idx = Top.idx
    BY <2>2, <2>7 DEF Replaces, IsFrame, FrameFields
  <2>9. Fixed(Top.fmt) => Len(r.val) = 0
    <3>1. Fixed(Top.fmt) => TopNode.mode = "const"
      BY <1>2, <1>3, PartsOfItems
    <3> QED
      BY <1>4, <1>8, <3>1
  <2>10. x.seekable /\ Fixed(Top.fmt) => x.pos = Top.pos0
    BY <1>6, <2>4, <2>5, <2>9, TopStands
  <2>11. x.seekable => Stands(ctl', F, x.pos)
    <3>1. F.fmt = Top.fmt /\ F.pos0 = Top.pos0 /\ F.idx = 0
      BY <1>5, <2>8 DEF Replaces
    <3>2. ctl' = "run" /\ Top.pos0 + 0 = Top.pos0
      BY <1>2, <2>3, TopStands
    <3> QED
      BY <1>5, <2>10, <3>1, <3>2 DEF Stands
  <2> QED
    BY <2>3, <2>6, <2>8, <2>11, StayPlaces
<1> QED
  BY <1>7, <1>8

(* The formats without a size, and what scales another.                    *)
LEMMA AdapterPlaces ==
    ASSUME Inv, Typed, Placing, ctl = "run" \/ ~Fixed(Top.fmt),
           TopNode.kind \in {"optional", "lazy", "scale", "switch", "union", "sized"},
           NEW v, NEW f \in Fmt, NEW obj, NEW ss, Seeking(ss), NEW s, ss[s].pos \in Nat,
           TopNode.kind # "sized" => ss = streams /\ s = Top.strm,
           Call([Top EXCEPT !.at = v], f, obj, s, ss, path)
    PROVE  Placing'
<1>1. PICK F : F = [Top EXCEPT !.at = v]
  OBVIOUS
<1>2. DOMAIN Top = FrameFields
  BY TopFacts DEF IsFrame
<1>3. Replaces(F)
  BY <1>1, <1>2 DEF Replaces, IsFrame, FrameFields
<1>4. ASSUME NEW G, G.pos0 = ss[s].pos PROVE Placed(F, G, ss[Top.strm].seekable)
  <2>1. F.fmt = Top.fmt /\ F.pos0 = Top.pos0 /\ TopNode = Node[F.fmt]
    BY <1>3, TopStands DEF Replaces
  <2>2. Node[F.fmt].kind \notin Counted /\ Node[F.fmt].kind # "pointer"
    BY <2>1 DEF Counted
  <2>3. ASSUME Fixed(F.fmt), ss[Top.strm].seekable, Node[F.fmt].kind = "scale" PROVE G.pos0 = F.pos0
    <3>1. ss = streams /\ s = Top.strm /\ TopStream.seekable /\ G.pos0 = TopStream.pos /\ ctl = "run"
      BY <1>4, <2>1, <2>3 DEF TopStream
    <3> QED
      BY <2>1, <2>2, <2>3, <3>1, TopStands DEF Stands
  <2> QED
    BY <2>2, <2>3 DEF Placed
<1>5. Call(F, f, obj, s, ss, path)
  BY <1>1
<1> QED
  BY <1>3, <1>4, <1>5, CallPlaces

LEMMA InnerPlaces ==
    ASSUME Inv, Typed, Placing, ctl = "run" \/ ~Fixed(Top.fmt),
           TopNode.kind \in {"optional", "lazy", "scale", "switch", "union"},
           NEW v, NEW f \in Fmt, NEW obj, Call([Top EXCEPT !.at = v], f, obj, Top.strm, streams, path)
    PROVE  Placing'
<1>1. Seeking(streams) /\ streams[Top.strm].pos \in Nat
  BY TopStands DEF TopStream
<1> QED
  BY <1>1, AdapterPlaces

LEMMA WrapOpenPlaces == ASSUME Inv, Typed, Placing, WrapOpen PROVE Placing'
<1>1. ctl = "run" /\ TopNode.kind \in {"optional", "lazy", "scale"}
  BY DEF WrapOpen, Running
<1>2. Top.fmt \in Fmt /\ TopNode = Node[Top.fmt]
  BY TopTyped
<1>3. CASE TopNode.kind = "optional" /\ Top.obj = NoneV
  <2>1. Return(Top) /\ UNCHANGED streams
    BY <1>1, <1>3 DEF WrapOpen
  <2>2. ~Fixed(Top.fmt)
    BY <1>2, <1>3, Sizeless
  <2> QED
    BY <2>1, <2>2, IdleReturn, TopUpdates, UpdatesReplace
<1>4. CASE TopNode.kind = "scale" /\ Top.obj.t # "int"
  <2>1. Raise("Type") /\ UNCHANGED streams
    BY <1>4 DEF WrapOpen
  <2> QED
    BY <2>1, IdleRaise
<1>5. CASE ~(TopNode.kind = "optional" /\ Top.obj = NoneV) /\ ~(TopNode.kind = "scale" /\ Top.obj.t # "int")
  <2>1. PICK obj : obj = IF TopNode.kind = "scale" THEN IntV(Top.obj.n \div TopNode.num) ELSE Top.obj
    OBVIOUS
  <2>2. PICK f : f = TopNode.subs[1]
    OBVIOUS
  <2>3. f \in Fmt
    BY <1>1, <1>2, <1>5, <2>2, InnerIsFormat
  <2>4. Call([Top EXCEPT !.at = "inner"], f, obj, Top.strm, streams, path)
    BY <1>5, <2>1, <2>2 DEF WrapOpen, CallInner
  <2> QED
    BY <1>1, <2>3, <2>4, InnerPlaces
<1> QED
  BY <1>3, <1>4, <1>5

LEMMA SwitchOpenPlaces == ASSUME Inv, Typed, Placing, SwitchOpen PROVE Placing'
<1>1. ctl = "run" /\ TopNode.kind = "switch"
  BY DEF SwitchOpen, Running
<1>2. CASE \E e \in Refusals : Raise(e) /\ UNCHANGED <<config, streams, context, root, err>>
  BY <1>2, IdleRaise
<1>3. CASE \E f \in Fmt : Call([Top EXCEPT !.at = "inner"], f, Top.obj, Top.strm, streams, path)
  BY <1>1, <1>3, InnerPlaces
<1> QED
  BY <1>2, <1>3, SwitchChoice

LEMMA UnionOpenPlaces == ASSUME Inv, Typed, Placing, UnionOpen PROVE Placing'
<1>1. ctl = "run" /\ TopNode.kind = "union"
  BY DEF UnionOpen, Running
<1>2. CASE \E e \in Refusals : Raise(e) /\ UNCHANGED <<config, streams, context, root, err>>
  BY <1>2, IdleRaise
<1>3. CASE \E f \in Fmt : Call([Top EXCEPT !.at = "inner"], f, Top.obj, Top.strm, streams, path)
  BY <1>1, <1>3, InnerPlaces
<1>4. CASE \E f \in Fmt : \E obj : Sound(obj) /\ Call([Top EXCEPT !.at = "tag"], f, obj, Top.strm, streams, path)
  BY <1>1, <1>4, InnerPlaces
<1> QED
  BY <1>2, <1>3, <1>4, UnionChoice

LEMMA UnionBranchPlaces == ASSUME Inv, Typed, Placing, UnionBranch PROVE Placing'
<1>1. TopNode.kind = "union"
  BY DEF UnionBranch, Resuming
<1>2. ~Fixed(Top.fmt)
  BY <1>1, TopTyped, Sizeless
<1> QED
  BY <1>1, <1>2, UnionBranchChoice, InnerPlaces

LEMMA WrapClosePlaces == ASSUME Inv, Typed, Placing, WrapClose PROVE Placing'
<1>1. /\ ctl = "resume" /\ Return(Top) /\ UNCHANGED streams
      /\ TopNode.kind \in {"optional", "lazy", "scale", "switch", "union"}
  BY DEF WrapClose, Resuming
<1>2. Fixed(Top.fmt) => TopNode.kind = "scale"
  BY <1>1, TopTyped, Sizeless
<1>3. TopStream.seekable /\ Fixed(Top.fmt) => TopStream.pos = Top.pos0 + SizeOf[Top.fmt]
  BY <1>1, <1>2, TopStands DEF Stands
<1> QED
  BY <1>1, <1>3, IdleReturn, TopUpdates, UpdatesReplace

(* Pointer: where the offset ends, the format ends.                        *)
LEMMA PointerOpenPlaces == ASSUME Inv, Typed, Placing, PointerOpen PROVE Placing'
<1>1. ctl = "run" /\ TopNode.kind = "pointer"
  BY DEF PointerOpen, Running
<1>2. CASE Has(Top.obj, "offset") /\ Has(Top.obj, "value")
  <2>1. PICK F : F = [Top EXCEPT !.at = "offset"]
    OBVIOUS
  <2>2. PICK obj : obj = Top.obj.at["offset"]
    OBVIOUS
  <2>3. Call(F, TopNode.subs[1], obj, Top.strm, streams, path)
    BY <1>2, <2>1, <2>2 DEF PointerOpen
  <2>4. DOMAIN Top = FrameFields
    BY TopFacts DEF IsFrame
  <2>5. Replaces(F) /\ F.at = "offset"
    BY <2>1, <2>4 DEF Replaces, IsFrame, FrameFields
  <2>6. PICK f \in Fmt : f = TopNode.subs[1]
    BY <1>1, TopTyped, SubsAreFormats
  <2>7. ASSUME NEW G, G.pos0 = streams[Top.strm].pos PROVE Placed(F, G, streams[Top.strm].seekable)
    <3>1. F.fmt = Top.fmt /\ F.pos0 = Top.pos0 /\ Node[F.fmt].kind = "pointer"
      BY <1>1, <2>5, TopStands DEF Replaces
    <3>2. Fixed(Top.fmt) /\ TopStream.seekable => TopStream.pos = Top.pos0 + 0
      BY <1>1, TopStands DEF Stands, Counted
    <3>3. Fixed(Top.fmt) /\ TopStream.seekable => G.pos0 = F.pos0
      BY <2>7, <3>1, <3>2, TopStands DEF TopStream
    <3> QED
      BY <2>5, <3>1, <3>3 DEF Placed, Counted, TopStream
  <2>8. Seeking(streams) /\ streams[Top.strm].pos \in Nat
    BY TopStands DEF TopStream
  <2>9. Call(F, f, obj, Top.strm, streams, path)
    BY <2>3, <2>6
  <2> QED
    BY <2>5, <2>7, <2>8, <2>9, CallPlaces
<1>3. CASE ~(Has(Top.obj, "offset") /\ Has(Top.obj, "value"))
  <2>1. Raise(IF Top.obj.t = "map" THEN "Key" ELSE "Type") /\ UNCHANGED streams
    BY <1>3 DEF PointerOpen
  <2> QED
    BY <2>1, IdleRaise
<1> QED
  BY <1>2, <1>3

LEMMA PointerJumpPlaces == ASSUME Inv, Typed, Placing, PointerJump PROVE Placing'
<1>1. TopNode.kind = "pointer" /\ ctl = "resume" /\ Top.at = "offset"
  BY DEF PointerJump, Resuming
<1>2. /\ Top.fmt \in Fmt /\ TopNode = Node[Top.fmt]
      /\ IsStream(TopStream) /\ TopStream = streams[Top.strm]
  BY TopTyped
<1>3. PICK off \in Nat : off = Top.obj.at["offset"].n
  BY <1>1, <1>2 DEF Typed, ReturnTyped
<1>4. TopStream.seekable /\ Fixed(Top.fmt) => TopStream.pos = Top.pos0 + SizeOf[Top.fmt]
  BY <1>1, TopStands DEF Stands
<1>5. CASE TopNode.flag /\ off = 0
  <2>1. Return(Top) /\ UNCHANGED streams
    BY <1>3, <1>5 DEF PointerJump
  <2> QED
    BY <1>4, <2>1, IdleReturn, TopUpdates, UpdatesReplace
<1>6. CASE ~(TopNode.flag /\ off = 0)
  <2>1. PICK F : F = [[Top EXCEPT !.saved = TopStream.pos] EXCEPT !.at = "inner"]
    OBVIOUS
  <2>2. PICK x : x = Seek(TopStream, TopNode.num + off)
    OBVIOUS
  <2>3. PICK ss : ss = [streams EXCEPT ![Top.strm] = x]
    OBVIOUS
  <2>4. PICK obj : obj = Top.obj.at["value"]
    OBVIOUS
  <2>5. PICK f \in Fmt : f = TopNode.subs[2]
    BY <1>1, <1>2, SubsAreFormats
  <2>6. Call(F, f, obj, Top.strm, ss, path)
    BY <1>3, <1>6, <2>1, <2>2, <2>3, <2>4, <2>5 DEF PointerJump, CallInner, TopStream
  <2>7. DOMAIN Top = FrameFields
    BY TopFacts DEF IsFrame
  <2>8. Replaces(F) /\ F.at = "inner" /\ F.saved = TopStream.pos
    BY <2>1, <2>7 DEF Replaces, IsFrame, FrameFields
  <2>9. TopNode.num + off \in Nat
    <3>1. PICK num \in Nat : num = TopNode.num
      BY <1>2, FormatAssumption
    <3> QED
      BY <3>1
  <2>10. IsStream(x) /\ x.seekable = TopStream.seekable
    BY <1>2, <2>2, <2>9, SeekTyped
  <2>11. x.seekable => TopStream.seekable
    BY <2>10
  <2>12. Seeking(ss) /\ ss[Top.strm] = x
    BY <2>3, <2>10, <2>11, MoveSeeks
  <2>13. ASSUME NEW G, G.pos0 = ss[Top.strm].pos PROVE Placed(F, G, ss[Top.strm].seekable)
    <3>1. F.fmt = Top.fmt /\ F.pos0 = Top.pos0 /\ Node[F.fmt].kind = "pointer"
      BY <1>1, <1>2, <2>8 DEF Replaces
    <3>2. Fixed(F.fmt) /\ x.seekable => F.saved = F.pos0 + SizeOf[F.fmt]
      BY <1>4, <2>8, <2>11, <3>1
    <3> QED
      BY <2>8, <2>12, <3>1, <3>2 DEF Placed, Counted
  <2>14. ss[Top.strm].pos \in Nat
    BY <2>10, <2>12 DEF IsStream
  <2> QED
    BY <2>6, <2>8, <2>12, <2>13, <2>14, CallPlaces
<1> QED
  BY <1>5, <1>6

LEMMA PointerBackPlaces == ASSUME Inv, Typed, Placing, PointerBack PROVE Placing'
<1>1. PICK x : x = Seek(TopStream, Top.saved)
  OBVIOUS
<1>2. /\ TopNode.kind = "pointer" /\ ctl = "resume" /\ Top.at = "inner" /\ Return(Top)
      /\ streams' = [streams EXCEPT ![Top.strm] = x]
  BY <1>1 DEF PointerBack, Resuming, TopStream
<1>3. Fit(Top) /\ IsStream(TopStream)
  BY TopTyped
<1>4. IsStream(x) /\ (x.seekable => TopStream.seekable)
  BY <1>1, <1>3, SeekTyped DEF Fit
<1>5. x.seekable => x.pos = Top.saved
  <2>1. x.seekable = TopStream.seekable
    BY <1>1, <1>3, SeekTyped DEF Fit
  <2>2. Top.saved \in Nat
    BY <1>3 DEF Fit
  <2> QED
    BY <1>1, <1>3, <1>4, <2>2, SeekTyped
<1>6. Seeking(streams') /\ streams'[Top.strm] = x
  BY <1>2, <1>4, <1>5, MoveSeeks
<1>7. TopStream.seekable /\ Fixed(Top.fmt) => Top.saved = Top.pos0 + SizeOf[Top.fmt]
  BY <1>2, TopStands DEF Stands
<1>8. streams'[Top.strm].seekable /\ Fixed(Top.fmt) => streams'[Top.strm].pos = Top.pos0 + SizeOf[Top.fmt]
  BY <1>4, <1>5, <1>6, <1>7
<1> QED
  BY <1>2, <1>6, <1>8, ReturnPlaces, TopUpdates, UpdatesReplace

(* A Sized has its value encoded in a stream of its own.                   *)
LEMMA SizedOpenPlaces == ASSUME Inv, Typed, Placing, SizedOpen PROVE Placing'
<1>1. ctl = "run" /\ TopNode.kind = "sized"
  BY DEF SizedOpen, Running
<1>2. PICK n \in Nat : n = Len(streams) /\ IsSeq(streams) /\ Top.strm \in 1..n
  BY TopFacts
<1>3. PICK ss : ss = Append(streams, Stream(TRUE))
  OBVIOUS
<1>4. Len(ss) = n + 1 /\ ss[n + 1] = Stream(TRUE) /\ \A i \in 1..n : ss[i] = streams[i]
  BY <1>2, <1>3, AppendSeq
<1>5. \A i \in 1..Top.strm : i \in 1..n
  BY <1>2
<1>6. Seeking(ss)
  BY <1>4, <1>5 DEF Seeking
<1>7. PICK f \in Fmt : f = TopNode.subs[1]
  BY <1>1, TopTyped, InnerIsFormat
<1>8. PICK s : s = n + 1
  OBVIOUS
<1>9. ss[s].pos \in Nat
  <2>1. ss[s].pos = 0
    BY <1>4, <1>8 DEF Stream
  <2> QED
    BY <2>1
<1>10. Call([Top EXCEPT !.at = "inner"], f, Top.obj, s, ss, path)
  BY <1>2, <1>3, <1>7, <1>8 DEF SizedOpen, CallInner
<1>11. TopNode.kind # "sized" => ss = streams /\ s = Top.strm
  BY <1>1
<1>12. TopNode.kind \in {"optional", "lazy", "scale", "switch", "union", "sized"}
  BY <1>1
<1> QED
  BY <1>1, <1>6, <1>9, <1>10, <1>11, <1>12, AdapterPlaces

(* It is written where the format began.                                   *)
(* A Sized of constant length fills up with one byte for each that is      *)
(* missing.                                                                *)
OneByteFills == \A f \in Fmt : Node[f].kind = "sized" /\ Node[f].mode = "const" => Len(Node[f].fill) = 1

LEMMA SizedClosePlaces == ASSUME Inv, Typed, Placing, OneByteFills, SizedClose PROVE Placing'
<1>1. TopNode.kind = "sized" /\ ctl = "resume"
  BY DEF SizedClose, Resuming
<1>2. /\ Top.fmt \in Fmt /\ TopNode = Node[Top.fmt] /\ Fit(Top)
      /\ IsStream(TopStream) /\ TopStream = streams[Top.strm]
  BY TopTyped
<1>3. PICK n \in Nat : n = Len(streams) /\ IsSeq(streams) /\ \A i \in 1..n : IsStream(streams[i])
  BY TopFacts DEF Typed, StreamsTyped
<1>4. n = Top.strm + 1 /\ Top.strm \in 1..n
  BY <1>1, <1>3, TopFacts DEF Inv, Buffered, Step, Sizing, TopNode
<1>5. PICK buf : buf = streams[Len(streams)]
  OBVIOUS
<1>6. IsStream(buf)
  <2>1. n \in 1..n
    BY <1>4
  <2> QED
    BY <1>3, <1>5, <2>1
<1>7. PICK head : head = LengthHead(TopNode, Len(buf.data))
  OBVIOUS
<1>8. TopStream.pos = Top.pos0
  <2>1. PICK m \in Nat : m = Len(frames) /\ m \in 1..m /\ Top = frames[m]
    BY TopFacts DEF Top
  <2>2. Sizing(frames[m])
    BY <1>1, <1>2, <2>1 DEF Sizing
  <2> QED
    BY <1>1, <1>2, <2>1, <2>2 DEF Inv, Unwritten
<1>9. CASE ~head.ok
  <2>1. Raise(head.exc) /\ UNCHANGED streams
    BY <1>5, <1>7, <1>9 DEF SizedClose
  <2> QED
    BY <2>1, IdleRaise
<1>10. CASE head.ok
  <2>1. PICK frame : frame = head.val \o buf.data
                                 \o Repeated(TopNode.fill, PadLen(TopNode, Len(buf.data)))
    OBVIOUS
  <2>2. frame \in Seq(Byte) /\ (TopNode.mode = "const" => Len(frame) = TopNode.num)
    <3>1. PICK data \in Seq(Byte) : data = buf.data
      BY <1>6 DEF IsStream
    <3>2. TopNode.mode = "const" => Len(TopNode.fill) = 1
      BY <1>1, <1>2 DEF OneByteFills
    <3> QED
      BY <1>2, <1>7, <1>10, <2>1, <3>1, <3>2, FramesTyped
  <2>3. PICK written : written = Write(TopStream, frame)
    OBVIOUS
  <2>4. IsStream(written) /\ written.seekable = TopStream.seekable /\ written.pos = TopStream.pos + Len(frame)
    BY <1>2, <2>2, <2>3, WriteTyped
  <2>5. PICK x : x = [written EXCEPT !.torn = @ \/ buf.torn]
    OBVIOUS
  <2>6. x.pos = written.pos /\ (x.seekable => written.seekable)
    BY <2>4, <2>5 DEF IsStream, StreamFields
  <2>7. x.seekable => TopStream.seekable
    BY <2>4, <2>6
  <2>8. PICK kids : kids = IF inspect /\ TopNode.mode = "prefix"
                           THEN <<Leaf(TopStream.pos, head.val)>> \o Top.kids ELSE Top.kids
    OBVIOUS
  <2>9. PICK F : F = [Top EXCEPT !.kids = kids]
    OBVIOUS
  <2>10. streams' = Append(Under(Under(streams)), x) /\ Return(F)
    BY <1>5, <1>7, <1>10, <2>1, <2>3, <2>5, <2>8, <2>9 DEF SizedClose
  <2>11. streams'[Top.strm] = x /\ Seeking(streams')
    <3>1. IsSeq(Under(streams)) /\ Len(Under(streams)) = n - 1
          /\ \A i \in 1..(n - 1) : Under(streams)[i] = streams[i]
      <4>1. n > 0
        BY <1>3, <1>4
      <4> QED
        BY <1>3, <4>1, UnderSeq
    <3>2. PICK u : u = Under(streams)
      OBVIOUS
    <3>3. PICK m \in Nat : n = m + 2 /\ Top.strm = m + 1
      <4>1. n - 2 \in Nat /\ n = (n - 2) + 2 /\ Top.strm = (n - 2) + 1
        BY <1>3, <1>4
      <4> QED
        BY <4>1
    <3>4. IsSeq(u) /\ Len(u) = m + 1 /\ Len(u) > 0 /\ \A i \in 1..(m + 1) : u[i] = streams[i]
      BY <3>1, <3>2, <3>3
    <3>5. PICK w : w = Under(u)
      OBVIOUS
    <3>6. IsSeq(w) /\ Len(w) = m /\ \A i \in 1..m : w[i] = u[i]
      BY <3>4, <3>5, UnderSeq
    <3>7. PICK new : new = Append(w, x)
      OBVIOUS
    <3>8. Len(new) = m + 1 /\ new[m + 1] = x /\ \A i \in 1..m : new[i] = w[i]
      BY <3>6, <3>7, AppendSeq
    <3>9. \A i \in 1..m : new[i] = streams[i]
      BY <3>4, <3>6, <3>8
    <3>10. streams' = new
      BY <2>10, <3>2, <3>5, <3>7
    <3>11. ASSUME NEW k \in 1..Top.strm, new[k].seekable PROVE streams[k].seekable
      <4>1. CASE k = m + 1
        BY <1>2, <2>7, <3>3, <3>8, <3>11, <4>1
      <4>2. CASE k # m + 1
        <5>1. k \in 1..m
          BY <3>3, <4>2
        <5> QED
          BY <3>9, <3>11, <5>1
      <4> QED
        BY <4>1, <4>2
    <3> QED
      BY <3>3, <3>8, <3>10, <3>11 DEF Seeking
  <2>12. ASSUME Fixed(Top.fmt) PROVE x.pos = Top.pos0 + SizeOf[Top.fmt]
    <3>1. TopNode.mode = "const"
      BY <1>1, <1>2, <2>12, Sizeless
    <3>2. SizeOf[Top.fmt] = TopNode.num
      BY <1>1, <1>2, <3>1, SizesByKind
    <3> QED
      BY <1>8, <2>2, <2>4, <2>6, <3>1, <3>2
  <2>13. Replaces(F)
    BY <2>9, FieldsUpdate, UpdatesReplace
  <2> QED
    BY <2>10, <2>11, <2>12, <2>13, ReturnPlaces
<1> QED
  BY <1>9, <1>10

(* What a frame waited for was written behind the parts before it.         *)
LEMMA ReturnStands ==
    ASSUME NEW F, NEW G, Fit(F), Calls(F, G), Placed(F, G, TRUE),
           NEW p, Fixed(G.fmt) => p = G.pos0 + SizeOf[G.fmt]
    PROVE  Stands("resume", F, p)
<1>1. PICK f \in Fmt : f = F.fmt
  BY DEF Fit
<1>2. F.pos0 \in Nat /\ F.idx \in Nat /\ Stepping(F)
  BY DEF Fit, Calls
<1>3. SUFFICES ASSUME Fixed(f)
             PROVE  /\ Node[f].kind \in Counted => p = F.pos0 + Part(f, F.idx)
                    /\ Node[f].kind = "scale" => p = F.pos0 + SizeOf[f]
                    /\ Node[f].kind = "pointer" => IF F.at = "offset" THEN p = F.pos0 + SizeOf[f]
                                                   ELSE F.saved = F.pos0 + SizeOf[f]
  BY <1>1 DEF Stands
<1>4. /\ Node[f].kind \in Counted => G.pos0 = F.pos0 + Part(f, F.idx - 1)
      /\ Node[f].kind = "scale" => G.pos0 = F.pos0
      /\ Node[f].kind = "pointer" => IF F.at = "offset" THEN G.pos0 = F.pos0 ELSE F.saved = F.pos0 + SizeOf[f]
  BY <1>1, <1>3 DEF Placed
<1>5. CASE Node[f].kind \in {"map", "tuple"}
  <2>1. F.idx \in DOMAIN Node[f].subs /\ G.fmt = Node[f].subs[F.idx]
    BY <1>1, <1>2, <1>5 DEF Calls, Stepping, Called
  <2>2. F.idx \in 1..Len(Node[f].subs) /\ F.idx - 1 \in 0..Len(Node[f].subs)
    <3>1. PICK m \in Nat : m = Len(Node[f].subs) /\ DOMAIN Node[f].subs = 1..m
      BY SubsFacts
    <3> QED
      BY <2>1, <3>1
  <2>3. /\ Part(f, F.idx) = Part(f, F.idx - 1) + SizeOf[Node[f].subs[F.idx]]
        /\ Fixed(Node[f].subs[F.idx]) /\ Part(f, F.idx - 1) \in Int
    BY <1>3, <1>5, <2>2, PartsOfFields
  <2>4. SizeOf[Node[f].subs[F.idx]] \in Int
    BY <2>1, SubsAreFormats, SizesAreInts
  <2>5. p = F.pos0 + Part(f, F.idx)
    BY <1>2, <1>4, <1>5, <2>1, <2>3, <2>4 DEF Counted
  <2> QED
    BY <1>5, <2>5
<1>6. CASE Node[f].kind = "array"
  <2>1. G.fmt = Node[f].subs[1] /\ F.idx > 0
    BY <1>1, <1>6 DEF Calls, Called, Stepping
  <2>2. PICK i \in Nat : i = F.idx - 1 /\ F.idx = i + 1
    <3>1. F.idx - 1 \in Nat /\ F.idx = (F.idx - 1) + 1
      BY <1>2, <2>1
    <3> QED
      BY <3>1
  <2>3. /\ Part(f, i) \in Int /\ Part(f, i + 1) = Part(f, i) + SizeOf[Node[f].subs[1]]
        /\ Fixed(Node[f].subs[1])
    BY <1>3, <1>6, PartsOfItems
  <2>4. SizeOf[Node[f].subs[1]] \in Int
    BY <1>6, SubsAreFormats, SizesAreInts DEF WrapKinds
  <2>5. G.pos0 = F.pos0 + Part(f, i)
    BY <1>4, <1>6, <2>2 DEF Counted
  <2>6. p = F.pos0 + Part(f, F.idx)
    <3>1. p = G.pos0 + SizeOf[Node[f].subs[1]]
      BY <2>1, <2>3
    <3>2. PICK a, b : a = Part(f, i) /\ b = SizeOf[Node[f].subs[1]]
      OBVIOUS
    <3>3. p = (F.pos0 + a) + b /\ a \in Int /\ b \in Int
      BY <2>3, <2>4, <2>5, <3>1, <3>2
    <3>4. p = F.pos0 + (a + b)
      BY <1>2, <3>3
    <3>5. Part(f, F.idx) = a + b
      BY <2>2, <2>3, <3>2
    <3> QED
      BY <3>4, <3>5
  <2> QED
    BY <1>6, <2>6
<1>7. CASE Node[f].kind \in {"pointer", "scale"}
  <2>1. SizeOf[f] = SizeOf[Node[f].subs[1]]
    BY <1>7, SizesByKind
  <2>2. G.fmt = Node[f].subs[1] \/ (Node[f].kind = "pointer" /\ F.at # "offset")
    BY <1>1, <1>7 DEF Calls, Called
  <2>3. G.fmt = Node[f].subs[1] => (Fixed(G.fmt) /\ p = G.pos0 + SizeOf[f])
    BY <1>3, <2>1 DEF Fixed
  <2>4. Node[f].kind \notin Counted
    BY <1>7 DEF Counted
  <2> QED
    BY <1>4, <1>7, <2>2, <2>3, <2>4
<1>8. CASE Node[f].kind \notin {"map", "tuple", "array", "pointer", "scale"}
  BY <1>8 DEF Counted
<1> QED
  BY <1>5, <1>6, <1>7, <1>8

LEMMA LeavePlaces == ASSUME Inv, Typed, Placing, Leave PROVE Placing'
<1>1. /\ ctl = "leave" /\ Len(frames) > 1 /\ ctl' = "resume" /\ UNCHANGED streams
      /\ frames' = IF inspect THEN [Under(frames) EXCEPT ![Len(Under(frames))].kids = Append(@, NodeOf(Top))]
                   ELSE Under(frames)
  BY DEF Leave
<1>2. PICK m \in Nat : m > 0 /\ Len(frames) = m + 1
  <2>1. Len(frames) - 1 \in Nat /\ Len(frames) - 1 > 0 /\ Len(frames) = (Len(frames) - 1) + 1
    BY <1>1, TopFacts
  <2> QED
    BY <2>1
<1>3. IsSeq(frames) /\ Top = frames[m + 1] /\ Len(frames) - 1 = m
  BY <1>2 DEF Inv, Shape, Top
<1>4. PICK below : below = Under(frames)
  OBVIOUS
<1>5. IsSeq(below) /\ Len(below) = m /\ \A i \in 1..m : below[i] = frames[i]
  BY <1>2, <1>3, <1>4, UnderSeq
<1>6. PICK F : F = IF inspect THEN [below[m] EXCEPT !.kids = Append(@, NodeOf(Top))] ELSE below[m]
  OBVIOUS
<1>7. PICK new : new = frames'
  OBVIOUS
<1>8. Len(new) = m /\ new[m] = F /\ \A i \in 1..(m - 1) : new[i] = frames[i]
  <2>1. CASE inspect
    <3>1. new = [below EXCEPT ![m] = F]
      BY <1>1, <1>4, <1>5, <1>6, <1>7, <2>1
    <3>2. Len(new) = m /\ \A i \in 1..m : new[i] = IF i = m THEN F ELSE below[i]
      BY <1>5, <3>1, ExceptIsSeq
    <3> QED
      BY <1>2, <1>5, <3>2
  <2>2. CASE ~inspect
    <3>1. new = below
      BY <1>1, <1>4, <1>7, <2>2
    <3> QED
      BY <1>2, <1>5, <1>6, <2>2, <3>1
  <2> QED
    BY <2>1, <2>2
<1>9. /\ F.fmt = frames[m].fmt /\ F.at = frames[m].at /\ F.idx = frames[m].idx
      /\ F.saved = frames[m].saved /\ F.pos0 = frames[m].pos0 /\ F.strm = frames[m].strm
  <2>1. DOMAIN frames[m] = FrameFields /\ below[m] = frames[m]
    BY <1>2, <1>5 DEF Inv, Shape, IsFrame
  <2> QED
    BY <1>6, <2>1 DEF FrameFields
<1>10. Fit(frames[m]) /\ Calls(frames[m], Top)
  <2>1. m \in 1..Len(frames) /\ m \in 1..(Len(frames) - 1)
    BY <1>2
  <2> QED
    BY <1>3, <2>1 DEF Typed, StackTyped, FramesFit
<1>11. Placed(frames[m], Top, streams[frames[m].strm].seekable)
  BY <1>2, <1>3 DEF Placing
<1>12. Top.strm = frames[m].strm + Step(frames[m])
  BY <1>2, <1>3 DEF Inv, Levels
<1>13. ASSUME streams[frames[m].strm].seekable PROVE Stands("resume", frames[m], streams[frames[m].strm].pos)
  <2>1. CASE Sizing(frames[m])
    BY <2>1 DEF Sizing, Stands, Counted
  <2>2. CASE ~Sizing(frames[m])
    <3>1. Top.strm = frames[m].strm
      <4>1. frames[m].strm \in Nat
        BY <1>2 DEF Inv, Levels
      <4> QED
        BY <1>12, <2>2, <4>1 DEF Step
    <3>2. PICK p : p = TopStream.pos
      OBVIOUS
    <3>3. Fixed(Top.fmt) => p = Top.pos0 + SizeOf[Top.fmt]
      BY <1>1, <1>13, <3>1, <3>2, TopStands DEF Stands, TopStream
    <3>4. Placed(frames[m], Top, TRUE)
      BY <1>11, <1>13 DEF Placed
    <3>5. PICK E, G : E = frames[m] /\ G = Top
      OBVIOUS
    <3>6. Stands("resume", E, p)
      BY <1>10, <3>3, <3>4, <3>5, ReturnStands
    <3> QED
      BY <3>1, <3>2, <3>5, <3>6 DEF TopStream
  <2> QED
    BY <2>1, <2>2
<1>14. Top' = F /\ TopStream' = streams[frames[m].strm]
  BY <1>1, <1>7, <1>8, <1>9 DEF Top, TopStream
<1>15. TopStream'.seekable => Stands(ctl', Top', TopStream'.pos)
  <2>1. TopStream'.seekable => Stands("resume", frames[m], TopStream'.pos)
    BY <1>13, <1>14
  <2> QED
    BY <1>1, <1>9, <1>14, <2>1 DEF Stands
<1>16. ASSUME NEW i \in 1..(m - 1)
       PROVE  Placed(new[i], new[i + 1], streams[new[i].strm].seekable)
  <2>1. i \in 1..(Len(frames) - 1) /\ i \in 1..m /\ i + 1 \in 1..m
    BY <1>2
  <2>2. Placed(frames[i], frames[i + 1], streams[frames[i].strm].seekable)
    BY <2>1 DEF Placing
  <2>3. new[i + 1].pos0 = frames[i + 1].pos0
    <3>1. CASE i + 1 = m
      BY <1>8, <1>9, <3>1
    <3>2. CASE i + 1 # m
      <4>1. i + 1 \in 1..(m - 1)
        BY <2>1, <3>2
      <4> QED
        BY <1>8, <4>1
    <3> QED
      BY <3>1, <3>2
  <2>4. new[i] = frames[i]
    BY <1>8
  <2> QED
    BY <2>2, <2>3, <2>4 DEF Placed
<1> QED
  BY <1>1, <1>7, <1>8, <1>15, <1>16 DEF Placing

LEMMA EndPlaces == ASSUME Inv, Placing, Finish \/ Report PROVE Placing'
<1>1. ctl' = "done" /\ UNCHANGED <<frames, streams>>
  BY DEF Finish, Report
<1>2. Top' = Top /\ TopStream' = TopStream
  BY <1>1 DEF Top, TopStream
<1>3. Stands(ctl', Top', TopStream'.pos)
  BY <1>1 DEF Stands
<1> QED
  BY <1>1, <1>2, <1>3 DEF Placing

-----------------------------------------------------------------------------
LEMMA StepPlaces == ASSUME Inv, Typed, Placing, OneByteFills, FlatGiven, Next PROVE Placing'
<1>1. CASE EncodeLeaf
  BY <1>1, LeafPlaces
<1>2. CASE MapEnter \/ MapField \/ MapExit
  BY <1>2, MapEnterPlaces, MapFieldPlaces, MapExitPlaces
<1>3. CASE TupleItem \/ ArrayItem
  BY <1>3, ItemsPlaces
<1>4. CASE TupleExit \/ ArrayEnter \/ ArrayExit
  BY <1>4, TupleExitPlaces, ArrayEnterPlaces, ArrayExitPlaces
<1>5. CASE ItemBack
  BY <1>5, ItemBackPlaces
<1>6. CASE WrapOpen \/ SwitchOpen \/ WrapClose
  BY <1>6, WrapOpenPlaces, SwitchOpenPlaces, WrapClosePlaces
<1>7. CASE UnionOpen \/ UnionBranch
  BY <1>7, UnionOpenPlaces, UnionBranchPlaces
<1>8. CASE PointerOpen \/ PointerJump \/ PointerBack
  BY <1>8, PointerOpenPlaces, PointerJumpPlaces, PointerBackPlaces
<1>9. CASE SizedOpen \/ SizedClose
  BY <1>9, SizedOpenPlaces, SizedClosePlaces
<1>10. CASE Leave \/ Finish \/ Report
  BY <1>10, LeavePlaces, EndPlaces
<1> QED
  BY <1>1, <1>2, <1>3, <1>4, <1>5, <1>6, <1>7, <1>8, <1>9, <1>10 DEF Next

LEMMA StutterPlaces == ASSUME Placing, UNCHANGED vars PROVE Placing'
<1>1. UNCHANGED <<frames, streams, ctl>>
  BY DEF vars
<1>2. Top' = Top /\ TopStream' = TopStream
  BY <1>1 DEF Top, TopStream
<1> QED
  BY <1>1, <1>2 DEF Placing

LEMMA InitPlaces == ASSUME GivenSound, Init PROVE Placing
<1>1. PICK c \in DOMAIN Given : call = Given[c]
  BY DEF Init
<1>2. PICK G : G = NewFrame(call.fmt, call.obj, 1, 0)
  OBVIOUS
<1>3. PICK seekable : streams = <<Stream(seekable)>>
  BY DEF Init
<1>4. frames = <<G>> /\ ctl = "run"
  BY <1>2 DEF Init
<1>5. G.fmt \in Fmt /\ G.pos0 = 0 /\ G.idx = 0 /\ G.strm = 1
  BY <1>1, <1>2, EncodeAssumption DEF NewFrame
<1>6. Top = G /\ Len(frames) = 1 /\ TopStream.pos = 0
  <2>1. Len(frames) = 1 /\ frames[1] = G
    BY <1>4
  <2>2. Top = G
    BY <2>1 DEF Top
  <2>3. streams[1] = Stream(seekable)
    BY <1>3
  <2>4. TopStream.pos = 0
    BY <1>5, <2>2, <2>3 DEF TopStream, Stream
  <2> QED
    BY <2>1, <2>2, <2>4
<1>7. Node[G.fmt].kind \in Counted => Part(G.fmt, 0) = 0
  BY <1>5, PartsOfFields, PartsOfItems DEF Counted
<1>8. Stands("run", G, 0)
  BY <1>5, <1>7 DEF Stands
<1> QED
  BY <1>4, <1>6, <1>8 DEF Placing

LEMMA Positioning == ASSUME GivenSound, OneByteFills PROVE Spec /\ []FlatGiven => [](Inv /\ Typed /\ Placing)
<1>1. Init => Placing
  BY InitPlaces
<1>2. Inv /\ Typed /\ Placing /\ FlatGiven /\ [Next]_vars => Placing'
  BY StepPlaces, StutterPlaces
<1> QED
  BY <1>1, <1>2, Typing, PTL DEF Spec

(* What sizeof promises is written, where a Sized of constant length fills *)
(* up with one byte at a time (it writes its whole fill for each that is   *)
(* missing, so one with two bytes writes more) and no array of numbers is  *)
(* given lists for items: those are taken apart, and their numbers are not *)
(* counted (the run encode_shape shows one).                               *)
THEOREM SizesAreWritten == ASSUME GivenSound, OneByteFills PROVE Spec /\ []FlatGiven => []SizeofIsWritten
<1>1. ASSUME Inv, Typed, Placing PROVE SizeofIsWritten
  <2> SUFFICES ASSUME ctl = "leave", SizeOf[Top.fmt] >= 0, TopStream.seekable
               PROVE  TopStream.pos = Top.pos0 + SizeOf[Top.fmt]
    BY DEF SizeofIsWritten
  <2>1. Fixed(Top.fmt)
    BY <1>1, TopStands, SizesByKind DEF Fixed
  <2> QED
    BY <1>1, <2>1, TopStands DEF Stands
<1> QED
  BY <1>1, Positioning, PTL

(* With such fills so always, where no list given holds a list, and for    *)
(* all objects, where an inspection tree is built: no array is written at  *)
(* once then.                                                              *)
THEOREM SizesAreAlwaysWritten ==
    ASSUME GivenSound, OneByteFills, GivenShallow \/ FALSE \notin Inspects
    PROVE  Spec => []SizeofIsWritten
<1>1. ASSUME Inv, Typed PROVE FlatGiven
  <2>1. Sound(Top.obj) /\ inspect \in Inspects
    BY <1>1, TopTyped DEF Typed, ScalarsTyped
  <2>2. CASE GivenShallow
    BY <2>1, <2>2, ItemsShallow DEF FlatGiven
  <2>3. CASE FALSE \notin Inspects
    <3>1. inspect
      BY <2>1, <2>3, EncodeAssumption
    <3> QED
      BY <3>1 DEF FlatGiven, IsFast
  <2> QED
    BY <2>2, <2>3
<1>2. Spec => []FlatGiven
  BY <1>1, Typing, PTL
<1> QED
  BY <1>2, SizesAreWritten, PTL
=============================================================================
