-------------------------- MODULE Bitfields_proofs --------------------------
(***************************************************************************)
(* For every format, declared size and value: the fields of an integer are *)
(* disjoint and end within its bytes, an inferred size holds them and is   *)
(* the smallest where nothing asks for more, and decoding gives back what  *)
(* was encoded.                                                            *)
(***************************************************************************)
EXTENDS Bitfields, TLAPS

(* Where the walks stand, and what they know of the fields.                *)
Walking ==
    /\ at \in {"size", "run", "place"} =>
          /\ first \in 1..Len(fmt) /\ last \in first..Len(fmt) /\ i \in first..(last + 1)
          /\ \A j \in first..last : IsBitfield(fmt[j])
    /\ at \in {"size", "run"} => declared = 0
    /\ at = "place" => size \in Widths
    /\ entry = "direct" => \A j \in 1..Len(fmt) : IsBitfield(fmt[j])

(* How many fields have been placed.                                       *)
Counted ==
    /\ at \in {"group", "size", "run"} => Len(home) = first - 1
    /\ at = "place" => Len(home) = i - 1
    /\ at \in {"encode", "decode", "done"} => Len(home) = Len(fmt)

(* The integers fields are in: one already built, or the one being placed, *)
(* whose fields end at nbits at the latest.                                *)
Owned ==
    \A j \in 1..Len(home) :
        /\ home[j] = 0 <=> ~IsBitfield(fmt[j])
        /\ at \notin {"place", "refused"} => home[j] <= Len(sizes)
        /\ at = "place" /\ home[j] = Len(sizes) + 1 => offsets[j] + fmt[j].bits <= nbits

Layout == TypeOK /\ Walking /\ Counted /\ Owned /\ FieldsDisjoint

-----------------------------------------------------------------------------
(* What the types say of the entries.                                      *)
LEMMA FieldTypes ==
    ASSUME fmt \in Seq(Field)
    PROVE  /\ Len(fmt) \in Nat /\ DOMAIN fmt = 1..Len(fmt)
           /\ \A j \in 1..Len(fmt) :
                 fmt[j].bits \in Nat /\ fmt[j].offset \in Nat /\ fmt[j].align \in Widths \cup {0}
<1>1. /\ Len(fmt) \in Nat /\ DOMAIN fmt = 1..Len(fmt)
      /\ \A j \in 1..Len(fmt) : fmt[j] \in Field
  OBVIOUS
<1>2. QED
  BY <1>1, BitfieldAssumption

LEMMA LayoutTypes ==
    ASSUME LayoutTypeOK
    PROVE  /\ Len(home) \in Nat /\ DOMAIN home = 1..Len(home)
           /\ Len(offsets) = Len(home) /\ DOMAIN offsets = 1..Len(home)
           /\ \A j \in 1..Len(home) : home[j] \in Nat /\ offsets[j] \in Nat
           /\ Len(sizes) \in Nat /\ DOMAIN sizes = 1..Len(sizes)
           /\ \A g \in 1..Len(sizes) : sizes[g] \in Widths
BY DEF LayoutTypeOK

(* A container holds the bits it is chosen for.                            *)
LEMMA ContainerSize ==
    ASSUME NEW bits \in Nat
    PROVE  Container(bits) \in Nat /\ (Container(bits) \in Widths => bits <= 8 * Container(bits))
BY DEF Container, Widths

(* What the caller gave never changes.                                     *)
LEMMA InputKept == [Next]_vars => fmt' = fmt /\ declared' = declared /\ entry' = entry
BY DEF Next, vars, input, StartGroup, SkipOther, GroupsDone, SizeExplicit, SizeGroup, SizeContinue,
       SizeGroupEnd, SizeDone, PlaceField, PlaceDone, EncodeField, EncodeOther, EncodeDone, Decode

LEMMA InitLayout == Init => Layout
<1> SUFFICES ASSUME Init PROVE Layout
  OBVIOUS
<1>1. fmt \in Fmts
  BY DEF Init
<1>2. fmt \in Seq(Field)
  BY <1>1, BitfieldAssumption
<1>3. entry \in {"direct", "mapping"}
  BY DEF Init
<1>4. declared \in Nat
  <2>1. declared = 0 \/ declared \in Declared
    BY DEF Init
  <2>2. \A d \in Declared : d \in Nat
    BY BitfieldAssumption
  <2>3. QED
    BY <2>1, <2>2
<1>5. Len(fmt) \in Nat /\ DOMAIN fmt = 1..Len(fmt)
  BY <1>2
<1>6. home = <<>> /\ offsets = <<>> /\ sizes = <<>>
  BY DEF Init
<1>7. /\ first = 1 /\ last = 0 /\ i = 1
      /\ running = 0 /\ maxBits = 0 /\ forced = 0 /\ groupBits = 0 /\ size = 0 /\ nbits = 0
  BY DEF Init
<1>8. at = "group" /\ refusal = ""
  BY DEF Init
<1>9. entry = "direct" => \A j \in DOMAIN fmt : IsBitfield(fmt[j])
  BY DEF Init
<1>10. LayoutTypeOK
  <2>1. home \in Seq(Nat) /\ offsets \in Seq(Nat) /\ sizes \in Seq(Widths)
        /\ Len(home) = 0 /\ Len(offsets) = 0 /\ DOMAIN home = {}
    BY <1>6
  <2>2. QED
    BY <1>2, <1>5, <2>1 DEF LayoutTypeOK
<1>11. WalkTypeOK /\ ControlTypeOK
  <2>1. at \in Phases /\ refusal \in Reasons
    BY <1>8 DEF Phases, Reasons
  <2>2. /\ first \in 1..(Len(fmt) + 1) /\ last \in 0..Len(fmt) /\ i \in 1..(Len(fmt) + 1)
        /\ running \in Nat /\ maxBits \in Nat /\ groupBits \in Nat /\ forced \in Widths \cup {0}
        /\ size \in Nat /\ nbits \in Nat
    BY <1>5, <1>7
  <2>3. QED
    BY <1>3, <1>4, <2>1, <2>2 DEF WalkTypeOK, ControlTypeOK
<1>12. Walking /\ Counted
  <2>1. Len(home) = 0
    BY <1>6
  <2>2. Walking
    BY <1>5, <1>8, <1>9 DEF Walking
  <2>3. Counted
    <3>1. Len(home) = first - 1
      BY <1>7, <2>1
    <3>2. QED
      BY <1>8, <3>1 DEF Counted
  <2>4. QED
    BY <2>2, <2>3
<1>13. Owned /\ FieldsDisjoint
  <2>1. DOMAIN home = {} /\ 1..Len(home) = {}
    BY <1>6
  <2>2. QED
    BY <2>1 DEF Owned, FieldsDisjoint
<1>14. QED
  BY <1>10, <1>11, <1>12, <1>13 DEF Layout, TypeOK

LEMMA StepControl == ControlTypeOK /\ [Next]_vars => ControlTypeOK'
<1> SUFFICES ASSUME ControlTypeOK, [Next]_vars PROVE ControlTypeOK'
  OBVIOUS
<1>1. at' \in Phases \cup {at}
  BY DEF Next, vars, Refuse, Place, Phases, StartGroup, SkipOther, GroupsDone, SizeExplicit, SizeGroup,
         SizeContinue, SizeGroupEnd, SizeDone, PlaceField, PlaceDone,
         EncodeField, EncodeOther, EncodeDone, Decode
<1>2. refusal' \in Reasons \cup {refusal}
  BY DEF Next, vars, Refuse, Place, Reasons, StartGroup, SkipOther, GroupsDone, SizeExplicit, SizeGroup,
         SizeContinue, SizeGroupEnd, SizeDone, PlaceField, PlaceDone,
         EncodeField, EncodeOther, EncodeDone, Decode
<1>3. QED
  BY <1>1, <1>2, InputKept DEF ControlTypeOK

LEMMA StepWalk ==
    ASSUME fmt \in Seq(Field), WalkTypeOK, [Next]_vars
    PROVE  WalkTypeOK'
<1>1. fmt' = fmt /\ declared' = declared
  BY InputKept
<1>2. /\ Len(fmt) \in Nat /\ DOMAIN fmt = 1..Len(fmt)
      /\ \A j \in 1..Len(fmt) :
            fmt[j].bits \in Nat /\ fmt[j].offset \in Nat /\ fmt[j].align \in Widths \cup {0}
  BY FieldTypes
<1>3. /\ declared \in Nat
      /\ first \in 1..(Len(fmt) + 1) /\ last \in 0..Len(fmt) /\ i \in 1..(Len(fmt) + 1)
      /\ running \in Nat /\ maxBits \in Nat /\ groupBits \in Nat /\ forced \in Widths \cup {0}
      /\ size \in Nat /\ nbits \in Nat
  BY DEF WalkTypeOK
<1>4. CASE StartGroup
  BY <1>4, <1>1, <1>2, <1>3 DEF StartGroup, WalkTypeOK, walk
<1>5. CASE SkipOther
  BY <1>5, <1>1, <1>2, <1>3 DEF SkipOther, WalkTypeOK, walk
<1>6. CASE GroupsDone
  BY <1>6, <1>1, <1>2, <1>3 DEF GroupsDone, WalkTypeOK, walk
<1>7. CASE SizeExplicit
  BY <1>7, <1>1, <1>2, <1>3 DEF SizeExplicit, WalkTypeOK, walk, Larger
<1>8. CASE SizeGroup
  BY <1>8, <1>1, <1>2, <1>3 DEF SizeGroup, WalkTypeOK, walk, Continues
<1>9. CASE SizeContinue
  BY <1>9, <1>1, <1>2, <1>3 DEF SizeContinue, WalkTypeOK, walk, Continues
<1>10. CASE SizeGroupEnd
  BY <1>10, <1>1, <1>2, <1>3 DEF SizeGroupEnd, WalkTypeOK, walk, Widths
<1>11. CASE SizeDone
  <2>1. Larger(maxBits, running) \in Nat
    BY <1>3 DEF Larger
  <2>2. Container(Larger(maxBits, running)) \in Nat
    BY <2>1, ContainerSize
  <2>3. size' = Container(Larger(maxBits, running)) /\ i' = first
        /\ UNCHANGED <<first, last, running, maxBits, forced, groupBits, nbits>>
    BY <1>11 DEF SizeDone, walk
  <2>4. QED
    BY <1>1, <1>2, <1>3, <2>2, <2>3 DEF WalkTypeOK
<1>12. CASE PlaceField
  <2>1. i \in 1..Len(fmt) /\ UNCHANGED <<first, last, running, maxBits, forced, groupBits, size>>
    BY <1>12, <1>2, <1>3 DEF PlaceField, walk
  <2>2. \/ UNCHANGED <<i, nbits>>
        \/ i' = i + 1 /\ nbits' = nbits + fmt[i].bits
        \/ i' = i + 1 /\ nbits' = fmt[i].offset + fmt[i].bits
    BY <1>12 DEF PlaceField, Place
  <2>3. QED
    BY <1>1, <1>2, <1>3, <2>1, <2>2 DEF WalkTypeOK
<1>13. CASE PlaceDone
  BY <1>13, <1>1, <1>2, <1>3 DEF PlaceDone, WalkTypeOK, walk
<1>14. CASE EncodeField
  BY <1>14, <1>1, <1>2, <1>3 DEF EncodeField, WalkTypeOK, walk
<1>15. CASE EncodeOther
  BY <1>15, <1>1, <1>2, <1>3 DEF EncodeOther, WalkTypeOK, walk
<1>16. CASE EncodeDone
  BY <1>16, <1>1, <1>2, <1>3 DEF EncodeDone, WalkTypeOK, walk
<1>17. CASE Decode
  BY <1>17, <1>1, <1>2, <1>3 DEF Decode, WalkTypeOK, walk
<1>18. CASE UNCHANGED vars
  BY <1>18, <1>1, <1>2, <1>3 DEF vars, WalkTypeOK, walk
<1>19. QED
  BY <1>4, <1>5, <1>6, <1>7, <1>8, <1>9, <1>10, <1>11,
     <1>12, <1>13, <1>14, <1>15, <1>16, <1>17, <1>18
  DEF Next

LEMMA StepWalking ==
    ASSUME fmt \in Seq(Field), WalkTypeOK, Walking, [Next]_vars, ControlTypeOK
    PROVE  Walking'
<1>1. fmt' = fmt /\ declared' = declared /\ entry' = entry
  BY InputKept
<1>2. /\ Len(fmt) \in Nat /\ DOMAIN fmt = 1..Len(fmt)
      /\ \A j \in 1..Len(fmt) :
            fmt[j].bits \in Nat /\ fmt[j].offset \in Nat /\ fmt[j].align \in Widths \cup {0}
  BY FieldTypes
<1>3. /\ declared \in Nat
      /\ first \in 1..(Len(fmt) + 1) /\ last \in 0..Len(fmt) /\ i \in 1..(Len(fmt) + 1)
      /\ running \in Nat /\ maxBits \in Nat /\ groupBits \in Nat /\ forced \in Widths \cup {0}
      /\ size \in Nat /\ nbits \in Nat
  BY DEF WalkTypeOK
<1>4. Walking /\ entry \in {"direct", "mapping"}
  BY DEF ControlTypeOK
<1>5. CASE StartGroup
  <2>1. last' \in first..Len(fmt) /\ \A j \in (first + 1)..last' : IsBitfield(fmt[j])
    BY <1>5, <1>2, <1>3, <1>4 DEF StartGroup, IsGroup, Joins, Walking
  <2>2. at' = "place" => declared \in Widths
    BY <1>5 DEF StartGroup, Supported, Refuse
  <2>3. QED
    BY <1>5, <1>1, <1>2, <1>3, <1>4, <2>1, <2>2 DEF StartGroup, Walking, Refuse, IsBitfield
<1>6. CASE SkipOther
  BY <1>6, <1>1, <1>2, <1>3, <1>4 DEF SkipOther, Walking, IsBitfield
<1>7. CASE GroupsDone
  BY <1>7, <1>1, <1>2, <1>3, <1>4 DEF GroupsDone, Walking, IsBitfield
<1>8. CASE SizeExplicit
  BY <1>8, <1>1, <1>2, <1>3, <1>4 DEF SizeExplicit, Walking, IsBitfield
<1>9. CASE SizeGroup
  BY <1>9, <1>1, <1>2, <1>3, <1>4 DEF SizeGroup, Walking, IsBitfield, Refuse
<1>10. CASE SizeContinue
  BY <1>10, <1>1, <1>2, <1>3, <1>4 DEF SizeContinue, Walking, IsBitfield, Continues
<1>11. CASE SizeGroupEnd
  BY <1>11, <1>1, <1>2, <1>3, <1>4 DEF SizeGroupEnd, Walking, IsBitfield, Refuse
<1>12. CASE SizeDone
  <2>1. at' = "place" => size' \in Widths
    BY <1>12 DEF SizeDone, Supported, Refuse
  <2>2. QED
    BY <1>12, <1>1, <1>2, <1>3, <1>4, <2>1 DEF SizeDone, Walking, Refuse, walk
<1>13. CASE PlaceField
  BY <1>13, <1>1, <1>2, <1>3, <1>4 DEF PlaceField, Walking, IsBitfield, Place, Refuse
<1>14. CASE PlaceDone
  BY <1>14, <1>1, <1>2, <1>3, <1>4 DEF PlaceDone, Walking, IsBitfield, Refuse
<1>15. CASE EncodeField
  BY <1>15, <1>1, <1>2, <1>3, <1>4 DEF EncodeField, Walking, IsBitfield, Refuse
<1>16. CASE EncodeOther
  BY <1>16, <1>1, <1>2, <1>3, <1>4 DEF EncodeOther, Walking, IsBitfield
<1>17. CASE EncodeDone
  BY <1>17, <1>1, <1>2, <1>3, <1>4 DEF EncodeDone, Walking, IsBitfield, Refuse
<1>18. CASE Decode
  BY <1>18, <1>1, <1>2, <1>3, <1>4 DEF Decode, Walking, IsBitfield
<1>19. CASE UNCHANGED vars
  BY <1>19, <1>1, <1>2, <1>3, <1>4 DEF vars, Walking, IsBitfield
<1>20. QED
  BY <1>5, <1>6, <1>7, <1>8, <1>9, <1>10, <1>11, <1>12,
     <1>13, <1>14, <1>15, <1>16, <1>17, <1>18, <1>19
  DEF Next

LEMMA StepCounted ==
    ASSUME fmt \in Seq(Field), LayoutTypeOK, WalkTypeOK, Walking, Counted, [Next]_vars
    PROVE  Counted'
<1>1. fmt' = fmt /\ declared' = declared
  BY InputKept
<1>2. /\ Len(fmt) \in Nat /\ DOMAIN fmt = 1..Len(fmt)
      /\ \A j \in 1..Len(fmt) :
            fmt[j].bits \in Nat /\ fmt[j].offset \in Nat /\ fmt[j].align \in Widths \cup {0}
  BY FieldTypes
<1>3. /\ declared \in Nat
      /\ first \in 1..(Len(fmt) + 1) /\ last \in 0..Len(fmt) /\ i \in 1..(Len(fmt) + 1)
      /\ running \in Nat /\ maxBits \in Nat /\ groupBits \in Nat /\ forced \in Widths \cup {0}
      /\ size \in Nat /\ nbits \in Nat
  BY DEF WalkTypeOK
<1>4. Counted /\ Walking
  OBVIOUS
<1>5. home \in Seq(Nat) /\ Len(home) \in Nat
  BY DEF LayoutTypeOK
<1>6. CASE StartGroup
  BY <1>6, <1>1, <1>2, <1>3, <1>4, <1>5 DEF StartGroup, Counted, layout, Refuse
<1>7. CASE SkipOther
  <2>1. Len(home') = Len(home) + 1
    BY <1>7, <1>5 DEF SkipOther
  <2>2. QED
    BY <1>7, <1>2, <1>3, <1>4, <2>1 DEF SkipOther, Counted
<1>8. CASE GroupsDone
  <2>1. at' = "encode" /\ home' = home /\ Len(home) = Len(fmt)
    BY <1>8, <1>2, <1>3, <1>4 DEF GroupsDone, layout, Counted
  <2>2. QED
    BY <1>1, <2>1 DEF Counted
<1>9. CASE SizeExplicit
  BY <1>9, <1>1, <1>2, <1>3, <1>4, <1>5 DEF SizeExplicit, Counted, layout
<1>10. CASE SizeGroup
  BY <1>10, <1>1, <1>2, <1>3, <1>4, <1>5 DEF SizeGroup, Counted, layout, Refuse
<1>11. CASE SizeContinue
  BY <1>11, <1>1, <1>2, <1>3, <1>4, <1>5 DEF SizeContinue, Counted, layout
<1>12. CASE SizeGroupEnd
  BY <1>12, <1>1, <1>2, <1>3, <1>4, <1>5 DEF SizeGroupEnd, Counted, layout, Refuse
<1>13. CASE SizeDone
  BY <1>13, <1>1, <1>2, <1>3, <1>4, <1>5 DEF SizeDone, Counted, layout, Refuse
<1>14. CASE PlaceField
  <2>1. \/ Len(home') = Len(home) + 1 /\ i' = i + 1 /\ at' = at
        \/ at' = "refused"
    BY <1>14, <1>5 DEF PlaceField, Place, Refuse
  <2>2. at = "place"
    BY <1>14 DEF PlaceField
  <2>3. QED
    BY <1>3, <1>4, <1>5, <2>1, <2>2 DEF Counted
<1>15. CASE PlaceDone
  <2>1. \/ at' = "refused"
        \/ at' = "group" /\ first' = last + 1
    BY <1>15 DEF PlaceDone, Refuse
  <2>2. at = "place" /\ home' = home /\ i > last
    BY <1>15 DEF PlaceDone
  <2>3. QED
    BY <1>3, <1>4, <1>5, <2>1, <2>2 DEF Counted, Walking
<1>16. CASE EncodeField
  BY <1>16, <1>1, <1>2, <1>3, <1>4, <1>5 DEF EncodeField, Counted, layout, Refuse
<1>17. CASE EncodeOther
  BY <1>17, <1>1, <1>2, <1>3, <1>4, <1>5 DEF EncodeOther, Counted, layout
<1>18. CASE EncodeDone
  BY <1>18, <1>1, <1>2, <1>3, <1>4, <1>5 DEF EncodeDone, Counted, layout, Refuse
<1>19. CASE Decode
  BY <1>19, <1>1, <1>2, <1>3, <1>4, <1>5 DEF Decode, Counted, layout
<1>20. CASE UNCHANGED vars
  BY <1>20, <1>1, <1>2, <1>3, <1>4, <1>5 DEF vars, Counted, layout
<1>21. QED
  BY <1>6, <1>7, <1>8, <1>9, <1>10, <1>11, <1>12, <1>13,
     <1>14, <1>15, <1>16, <1>17, <1>18, <1>19, <1>20
  DEF Next

(* All but three actions leave what is placed as it is.                    *)
LEMMA LayoutKept ==
    ASSUME Next, ~SkipOther, ~PlaceField, ~PlaceDone
    PROVE  /\ home' = home /\ offsets' = offsets /\ sizes' = sizes
           /\ at \notin {"place", "refused"}
BY DEF Next, layout, StartGroup, GroupsDone, SizeExplicit, SizeGroup, SizeContinue, SizeGroupEnd, SizeDone,
       EncodeField, EncodeOther, EncodeDone, Decode

(* A field is placed at or above the end of those of its integer.          *)
LEMMA PlaceLayout ==
    ASSUME Layout, at = "place", i \in first..last, NEW offset \in Nat, nbits <= offset, Place(offset),
           fmt' = fmt, sizes' = sizes
    PROVE  LayoutTypeOK' /\ Owned' /\ FieldsDisjoint'
<1>1. /\ Len(fmt) \in Nat /\ DOMAIN fmt = 1..Len(fmt)
      /\ \A j \in 1..Len(fmt) : fmt[j].bits \in Nat /\ fmt[j].offset \in Nat
  BY FieldTypes DEF Layout, TypeOK, LayoutTypeOK
<1>2. /\ Len(home) \in Nat /\ DOMAIN home = 1..Len(home)
      /\ Len(offsets) = Len(home) /\ DOMAIN offsets = 1..Len(home)
      /\ \A j \in 1..Len(home) : home[j] \in Nat /\ offsets[j] \in Nat
      /\ Len(sizes) \in Nat /\ DOMAIN sizes = 1..Len(sizes)
      /\ \A g \in 1..Len(sizes) : sizes[g] \in Widths
  BY LayoutTypes DEF Layout, TypeOK
<1>3. Walking /\ Counted /\ Owned /\ FieldsDisjoint
  BY DEF Layout
<1>4. nbits \in Nat
  BY DEF Layout, TypeOK, WalkTypeOK
<1>5. i \in 1..Len(fmt) /\ Len(home) = i - 1 /\ IsBitfield(fmt[i])
  BY <1>1, <1>3 DEF Walking, Counted
<1>6. home' = Append(home, Len(sizes) + 1) /\ offsets' = Append(offsets, offset)
  BY DEF Place
<1>7. nbits' = offset + fmt[i].bits /\ at' = at
  BY DEF Place
<1>8. home \in Seq(Nat) /\ offsets \in Seq(Nat) /\ fmt \in Seq(Field) /\ sizes \in Seq(Widths)
  BY DEF Layout, TypeOK, LayoutTypeOK
<1>9. /\ home' \in Seq(Nat) /\ offsets' \in Seq(Nat)
      /\ Len(home') = i /\ Len(offsets') = i /\ DOMAIN home' = 1..i
      /\ home'[i] = Len(sizes) + 1 /\ offsets'[i] = offset
      /\ \A j \in 1..(i - 1) : home'[j] = home[j] /\ offsets'[j] = offsets[j]
  BY <1>2, <1>5, <1>6, <1>8
<1>10. LayoutTypeOK'
  <2>1. \A j \in 1..(i - 1) : home[j] <= Len(sizes) + 1
    BY <1>2, <1>5 DEF Layout, TypeOK, LayoutTypeOK
  <2>2. \A j \in DOMAIN home' : home'[j] <= Len(sizes') + 1
    BY <1>2, <1>5, <1>9, <2>1
  <2>3. QED
    BY <1>1, <1>5, <1>8, <1>9, <2>2 DEF LayoutTypeOK
<1>11. Owned'
  <2>1. ASSUME NEW j \in 1..i
        PROVE  /\ home'[j] = 0 <=> ~IsBitfield(fmt[j])
               /\ home'[j] = Len(sizes) + 1 => offsets'[j] + fmt[j].bits <= nbits'
    <3>1. CASE j = i
      BY <1>1, <1>2, <1>5, <1>7, <1>9, <3>1
    <3>2. CASE j \in 1..(i - 1)
      <4>1. /\ home[j] = 0 <=> ~IsBitfield(fmt[j])
            /\ home[j] = Len(sizes) + 1 => offsets[j] + fmt[j].bits <= nbits
        BY <1>3, <1>5, <3>2 DEF Owned
      <4>2. nbits <= nbits' /\ nbits' \in Nat /\ fmt[j].bits \in Nat /\ offsets[j] \in Nat
        BY <1>1, <1>2, <1>4, <1>5, <1>7, <3>2
      <4>3. home'[j] = home[j] /\ offsets'[j] = offsets[j]
        BY <1>9, <3>2
      <4>4. QED
        BY <1>4, <4>1, <4>2, <4>3
    <3>3. QED
      BY <1>5, <2>1, <3>1, <3>2
  <2>2. QED
    BY <1>7, <1>9, <2>1 DEF Owned
<1>12. FieldsDisjoint'
  <2>1. ASSUME NEW j \in 1..i, NEW k \in 1..i, j < k, home'[j] = home'[k], IsBitfield(fmt[j])
        PROVE  offsets'[j] + fmt[j].bits <= offsets'[k]
    <3>1. CASE k < i
      <4>1. j \in 1..(i - 1) /\ k \in 1..(i - 1)
        BY <1>5, <2>1, <3>1
      <4>2. QED
        BY <1>2, <1>3, <1>5, <1>9, <2>1, <4>1 DEF FieldsDisjoint
    <3>2. CASE k = i
      <4>1. j \in 1..(i - 1) /\ home[j] = Len(sizes) + 1
        BY <1>5, <1>9, <2>1, <3>2
      <4>2. offsets[j] + fmt[j].bits <= nbits
        BY <1>3, <1>5, <4>1 DEF Owned
      <4>3. offsets'[j] = offsets[j] /\ offsets'[k] = offset
        BY <1>9, <3>2, <4>1
      <4>4. fmt[j].bits \in Nat /\ offsets[j] \in Nat
        BY <1>1, <1>2, <1>5, <4>1
      <4>5. QED
        BY <1>4, <4>2, <4>3, <4>4
    <3>3. QED
      BY <1>5, <2>1, <3>1, <3>2
  <2>2. ASSUME NEW j \in 1..i, home'[j] \in DOMAIN sizes
        PROVE  offsets'[j] + fmt[j].bits <= 8 * sizes[home'[j]]
    <3>1. j \in 1..(i - 1)
      BY <1>2, <1>5, <1>9, <2>2
    <3>2. QED
      BY <1>2, <1>3, <1>5, <1>9, <2>2, <3>1 DEF FieldsDisjoint
  <2>3. QED
    BY <1>9, <2>1, <2>2 DEF FieldsDisjoint
<1>13. QED
  BY <1>10, <1>11, <1>12

(* The three actions that place, and the rest.                             *)
LEMMA StepLayout == Layout /\ [Next]_vars => Layout'
<1> SUFFICES ASSUME Layout, [Next]_vars PROVE Layout'
  OBVIOUS
<1>1. fmt' = fmt /\ declared' = declared /\ entry' = entry
  BY InputKept
<1>2. LayoutTypeOK /\ ControlTypeOK /\ WalkTypeOK /\ Walking /\ Counted /\ Owned /\ FieldsDisjoint
  BY DEF Layout, TypeOK
<1>3. fmt \in Seq(Field) /\ home \in Seq(Nat) /\ offsets \in Seq(Nat) /\ sizes \in Seq(Widths)
  BY <1>2 DEF LayoutTypeOK
<1>4. ControlTypeOK' /\ WalkTypeOK' /\ Walking' /\ Counted'
  BY <1>2, <1>3, StepControl, StepWalk, StepWalking, StepCounted
<1>5. SUFFICES LayoutTypeOK' /\ Owned' /\ FieldsDisjoint'
  BY <1>4 DEF Layout, TypeOK
<1>6. /\ Len(home) \in Nat /\ DOMAIN home = 1..Len(home)
      /\ Len(offsets) = Len(home) /\ DOMAIN offsets = 1..Len(home)
      /\ \A j \in 1..Len(home) : home[j] \in Nat /\ offsets[j] \in Nat
      /\ Len(sizes) \in Nat /\ DOMAIN sizes = 1..Len(sizes)
      /\ \A g \in 1..Len(sizes) : sizes[g] \in Widths
  BY <1>2, LayoutTypes
<1>7. CASE UNCHANGED <<at, nbits, home, offsets, sizes>>
  <2>1. at' = at /\ nbits' = nbits /\ home' = home /\ offsets' = offsets /\ sizes' = sizes
    BY <1>7
  <2>2. QED
    BY <1>1, <1>2, <2>1 DEF LayoutTypeOK, Owned, FieldsDisjoint
<1>8. CASE home' = home /\ offsets' = offsets /\ sizes' = sizes
           /\ (at \notin {"place", "refused"} \/ at' = "refused")
  <2>1. LayoutTypeOK' /\ FieldsDisjoint'
    BY <1>1, <1>2, <1>8 DEF LayoutTypeOK, FieldsDisjoint
  <2>2. \A j \in 1..Len(home) : home[j] = 0 <=> ~IsBitfield(fmt[j])
    BY <1>2 DEF Owned
  <2>3. CASE at' = "refused"
    <3>1. \A j \in 1..Len(home') : home'[j] = 0 <=> ~IsBitfield(fmt'[j])
      BY <1>1, <1>8, <2>2
    <3>2. at' # "place" /\ ~(at' \notin {"place", "refused"})
      BY <2>3
    <3>3. QED
      BY <2>1, <3>1, <3>2 DEF Owned
  <2>4. CASE at \notin {"place", "refused"}
    <3>1. \A j \in 1..Len(home) : home[j] <= Len(sizes) /\ home[j] # Len(sizes) + 1
      BY <1>2, <1>6, <2>4 DEF Owned
    <3>2. home' = home /\ fmt' = fmt /\ sizes' = sizes
      BY <1>1, <1>8
    <3>3. QED
      BY <2>1, <2>2, <3>1, <3>2 DEF Owned
  <2>5. QED
    BY <1>8, <2>1, <2>3, <2>4
<1>9. CASE SkipOther
  <2>1. /\ first \in 1..Len(fmt) /\ Len(home) = first - 1 /\ ~IsBitfield(fmt[first])
        /\ at = "group" /\ at' = "group" /\ sizes' = sizes
    BY <1>2, <1>9, FieldTypes, <1>3 DEF SkipOther, Counted
  <2>2. home' = Append(home, 0) /\ offsets' = Append(offsets, 0)
    BY <1>9 DEF SkipOther
  <2>3. /\ home' \in Seq(Nat) /\ offsets' \in Seq(Nat)
        /\ Len(home') = first /\ Len(offsets') = first /\ DOMAIN home' = 1..first
        /\ home'[first] = 0 /\ offsets'[first] = 0
        /\ \A j \in 1..(first - 1) : home'[j] = home[j] /\ offsets'[j] = offsets[j]
    BY <1>3, <1>6, <2>1, <2>2
  <2>4. \A j \in 1..(first - 1) : home[j] <= Len(sizes) /\ (home[j] = 0 <=> ~IsBitfield(fmt[j]))
    BY <1>2, <2>1 DEF Owned
  <2>5. \A j \in 1..first : home'[j] <= Len(sizes) /\ (home'[j] = 0 <=> ~IsBitfield(fmt[j]))
    BY <1>6, <2>1, <2>3, <2>4
  <2>6. LayoutTypeOK'
    <3>1. \A j \in DOMAIN home' : home'[j] <= Len(sizes') + 1
      BY <1>6, <2>1, <2>3, <2>5
    <3>2. QED
      BY <1>1, <1>3, <2>1, <2>3, <3>1, FieldTypes DEF LayoutTypeOK
  <2>7. Owned'
    BY <1>1, <2>1, <2>3, <2>5 DEF Owned
  <2>8. FieldsDisjoint'
    <3>1. ASSUME NEW j \in 1..first, NEW k \in 1..first, j < k, home'[j] = home'[k], IsBitfield(fmt[j])
          PROVE  offsets'[j] + fmt[j].bits <= offsets'[k]
      <4>1. j \in 1..(first - 1) /\ k \in 1..(first - 1)
        BY <2>1, <2>3, <2>5, <3>1
      <4>2. QED
        BY <1>2, <1>6, <2>1, <2>3, <3>1, <4>1 DEF FieldsDisjoint
    <3>2. ASSUME NEW j \in 1..first, home'[j] \in DOMAIN sizes
          PROVE  offsets'[j] + fmt[j].bits <= 8 * sizes[home'[j]]
      <4>1. j \in 1..(first - 1)
        BY <1>6, <2>1, <2>3, <3>2
      <4>2. QED
        BY <1>2, <1>6, <2>1, <2>3, <3>2, <4>1 DEF FieldsDisjoint
    <3>3. QED
      BY <1>1, <2>1, <2>3, <3>1, <3>2 DEF FieldsDisjoint
  <2>9. QED
    BY <2>6, <2>7, <2>8
<1>10. CASE PlaceField
  <2>1. at = "place" /\ i \in first..last /\ sizes' = sizes /\ nbits \in Nat /\ fmt[i].offset \in Nat
    BY <1>2, <1>3, <1>10, FieldTypes DEF PlaceField, Walking, WalkTypeOK
  <2>2. CASE Place(nbits)
    BY <1>1, <2>1, <2>2, PlaceLayout
  <2>3. CASE Place(fmt[i].offset) /\ nbits <= fmt[i].offset
    BY <1>1, <2>1, <2>3, PlaceLayout
  <2>4. CASE at' = "refused" /\ UNCHANGED <<home, offsets>>
    BY <1>8, <2>1, <2>4
  <2>5. QED
    BY <1>10, <2>1, <2>2, <2>3, <2>4 DEF PlaceField, Refuse
<1>11. CASE PlaceDone
  <2>1. /\ at = "place" /\ i = last + 1 /\ Len(home) = last /\ size \in Widths
        /\ home' = home /\ offsets' = offsets /\ nbits \in Nat
    BY <1>2, <1>11 DEF PlaceDone, Walking, Counted, WalkTypeOK
  <2>2. CASE at' = "refused" /\ sizes' = sizes
    BY <1>8, <2>1, <2>2
  <2>3. CASE at' = "group" /\ sizes' = Append(sizes, size) /\ nbits <= 8 * size
    <3>1. /\ sizes' \in Seq(Widths) /\ Len(sizes') = Len(sizes) + 1 /\ DOMAIN sizes' = 1..(Len(sizes) + 1)
          /\ sizes'[Len(sizes) + 1] = size
          /\ \A g \in 1..Len(sizes) : sizes'[g] = sizes[g]
      BY <1>3, <1>6, <2>1, <2>3
    <3>2. \A j \in 1..Len(home) : home[j] <= Len(sizes) + 1
      BY <1>2, <1>6 DEF LayoutTypeOK
    <3>3. LayoutTypeOK'
      BY <1>1, <1>2, <1>3, <1>6, <2>1, <3>1, <3>2 DEF LayoutTypeOK
    <3>4. Owned'
      BY <1>1, <1>2, <1>6, <2>1, <2>3, <3>1, <3>2 DEF Owned
    <3>5. ASSUME NEW j \in 1..Len(home), home[j] \in DOMAIN sizes'
          PROVE  offsets[j] + fmt[j].bits <= 8 * sizes'[home[j]]
      <4>1. CASE home[j] = Len(sizes) + 1
        <5>1. offsets[j] + fmt[j].bits <= nbits
          BY <1>2, <2>1, <4>1 DEF Owned
        <5>2. sizes'[home[j]] = size
          BY <3>1, <4>1
        <5>3. j \in 1..Len(fmt)
          BY <1>2, <1>3, <1>6, <2>1, FieldTypes DEF LayoutTypeOK
        <5>4. fmt[j].bits \in Nat /\ offsets[j] \in Nat /\ size \in Nat
          BY <1>3, <1>6, <2>1, <5>3, FieldTypes DEF Widths
        <5>5. QED
          BY <2>1, <2>3, <5>1, <5>2, <5>4
      <4>2. CASE home[j] \in 1..Len(sizes)
        BY <1>2, <1>6, <3>1, <4>2 DEF FieldsDisjoint
      <4>3. QED
        BY <1>6, <3>1, <3>5, <4>1, <4>2
    <3>6. FieldsDisjoint'
      BY <1>1, <1>2, <1>6, <2>1, <3>5 DEF FieldsDisjoint
    <3>7. QED
      BY <3>3, <3>4, <3>6
  <2>4. QED
    BY <1>11, <2>1, <2>2, <2>3 DEF PlaceDone, Refuse, Widths
<1>12. CASE Next /\ ~SkipOther /\ ~PlaceField /\ ~PlaceDone
  BY <1>8, <1>12, LayoutKept
<1>13. QED
  <2>1. CASE UNCHANGED vars
    BY <1>7, <2>1 DEF vars, layout
  <2>2. QED
    BY <1>9, <1>10, <1>11, <1>12, <2>1

(* The locals of Bitfields.__post_init__, its offsets and what is encoded  *)
(* have their types: the indices stay in the format, sizes are supported.  *)
THEOREM TypesHold == Spec => []TypeOK
<1>1. Init => Layout
  BY InitLayout
<1>2. Layout /\ [Next]_vars => Layout'
  BY StepLayout
<1>3. Layout => TypeOK
  BY DEF Layout
<1>4. QED
  BY <1>1, <1>2, <1>3, PTL DEF Spec

(* However a format mixes explicit offsets, align and automatic placing,   *)
(* no two fields of one integer share a bit, and none ends beyond it.      *)
THEOREM FieldsNeverOverlap == Spec => []FieldsDisjoint
<1>1. Init => Layout
  BY InitLayout
<1>2. Layout /\ [Next]_vars => Layout'
  BY StepLayout
<1>3. Layout => FieldsDisjoint
  BY DEF Layout
<1>4. QED
  BY <1>1, <1>2, <1>3, PTL DEF Spec

-----------------------------------------------------------------------------
(* The placing walk as a function: e[k] is where the bits placed before    *)
(* field k end, for the fields of a Bitfields up to m.                     *)
EndOf(start, f) == (IF f.offset = 0 THEN start ELSE f.offset) + f.bits

Ends(e, m) ==
    /\ \A k \in first..m : e[k] \in Nat
    /\ e[first] = 0
    /\ \A k \in first..(m - 1) : e[k + 1] = EndOf(e[k], fmt[k])

(* The sizing walk counts at least what the placing walk will use.         *)
Sized ==
    /\ at = "size" => \E e : Ends(e, i) /\ e[i] <= running
    /\ at = "run" => \E e : Ends(e, i) /\ e[i] <= running + groupBits
    /\ at \in {"size", "run"} => nbits = 0
    /\ at = "place" /\ declared = 0 =>
          \E e : Ends(e, last + 1) /\ e[last + 1] <= 8 * size /\ nbits = e[i]
    /\ refusal = "exceeds" => declared # 0

(* One more field: the ends up to it, then its own.                        *)
LEMMA OneMoreEnd ==
    ASSUME fmt \in Seq(Field), first \in 1..Len(fmt), i \in first..Len(fmt), NEW e, Ends(e, i)
    PROVE  \E d : Ends(d, i + 1) /\ d[i + 1] = EndOf(e[i], fmt[i]) /\ \A k \in first..i : d[k] = e[k]
<1> DEFINE d == [k \in first..(i + 1) |-> IF k = i + 1 THEN EndOf(e[i], fmt[i]) ELSE e[k]]
<1>1. /\ Len(fmt) \in Nat /\ i \in 1..Len(fmt)
      /\ fmt[i].bits \in Nat /\ fmt[i].offset \in Nat
  BY FieldTypes
<1>2. EndOf(e[i], fmt[i]) \in Nat
  BY <1>1 DEF Ends, EndOf
<1>3. d[i + 1] = EndOf(e[i], fmt[i]) /\ \A k \in first..i : d[k] = e[k]
  BY <1>1
<1>4. \A k \in first..(i + 1) : d[k] \in Nat
  BY <1>1, <1>2, <1>3 DEF Ends
<1>5. d[first] = 0
  BY <1>1, <1>3 DEF Ends
<1>6. \A k \in first..i : d[k + 1] = EndOf(d[k], fmt[k])
  <2>1. TAKE k \in first..i
  <2>2. CASE k = i
    BY <1>1, <1>3, <2>2
  <2>3. CASE k \in first..(i - 1)
    <3>1. k + 1 \in first..i /\ d[k + 1] = e[k + 1] /\ d[k] = e[k]
      BY <1>1, <1>3, <2>3
    <3>2. QED
      BY <2>3, <3>1 DEF Ends
  <2>4. QED
    BY <1>1, <2>1, <2>2, <2>3
<1>7. Ends(d, i + 1)
  BY <1>1, <1>4, <1>5, <1>6 DEF Ends
<1>8. QED
  BY <1>3, <1>7

LEMMA StepSized ==
    ASSUME Layout, Sized, [Next]_vars
    PROVE  Sized'
<1>1. fmt' = fmt /\ declared' = declared
  BY InputKept
<1>2. /\ Len(fmt) \in Nat /\ DOMAIN fmt = 1..Len(fmt) /\ fmt \in Seq(Field)
      /\ \A j \in 1..Len(fmt) :
            fmt[j].bits \in Nat /\ fmt[j].offset \in Nat /\ fmt[j].align \in Widths \cup {0}
  BY FieldTypes DEF Layout, TypeOK, LayoutTypeOK
<1>3. /\ first \in 1..(Len(fmt) + 1) /\ last \in 0..Len(fmt) /\ i \in 1..(Len(fmt) + 1)
      /\ running \in Nat /\ maxBits \in Nat /\ groupBits \in Nat /\ forced \in Widths \cup {0}
      /\ size \in Nat /\ nbits \in Nat
  BY DEF Layout, TypeOK, WalkTypeOK
<1>4. Walking
  BY DEF Layout
<1>5. refusal = "exceeds" => declared # 0
  BY DEF Sized
<1>6. CASE StartGroup
  <2>1. at' \in {"size", "place", "refused"} /\ refusal' \in {refusal, "unsupported"}
        /\ (at' = "place" => declared # 0)
    BY <1>6 DEF StartGroup, Refuse
  <2>2. i' = first /\ running' = 0 /\ nbits' = 0 /\ first' = first /\ first \in Nat
    BY <1>3, <1>6 DEF StartGroup
  <2>3. Ends([k \in {first} |-> 0], first)
    BY <2>2 DEF Ends
  <2>4. \E e : Ends(e, i)' /\ e[i'] <= running'
    BY <1>1, <2>2, <2>3 DEF Ends
  <2>5. QED
    BY <1>1, <1>5, <2>1, <2>2, <2>4 DEF Sized
<1>7. CASE SizeExplicit
  <2>1. at = "size" /\ at' = "size" /\ refusal' = refusal
        /\ i' = i + 1 /\ running' = fmt[i].offset + fmt[i].bits
        /\ first' = first /\ fmt[i].offset # 0 /\ nbits' = nbits
    BY <1>7 DEF SizeExplicit
  <2>2. i \in first..Len(fmt) /\ first \in 1..Len(fmt)
    BY <1>2, <1>3, <1>4, <1>7, <2>1 DEF SizeExplicit, Walking
  <2>3. PICK e : Ends(e, i) /\ e[i] <= running
    BY <2>1 DEF Sized
  <2>4. PICK d : Ends(d, i + 1) /\ d[i + 1] = EndOf(e[i], fmt[i])
    BY <1>2, <2>2, <2>3, OneMoreEnd
  <2>5. d[i + 1] <= running'
    BY <1>2, <2>1, <2>2, <2>4 DEF EndOf
  <2>6. \E x : Ends(x, i)' /\ x[i'] <= running'
    BY <1>1, <2>1, <2>4, <2>5 DEF Ends
  <2>7. QED
    BY <1>1, <1>5, <2>1, <2>6 DEF Sized
<1>8. CASE SizeGroup
  <2>1. at = "size" /\ first' = first /\ fmt[i].offset = 0
        /\ groupBits' = fmt[i].bits /\ running' = running /\ nbits' = nbits
        /\ \/ at' = "refused" /\ refusal' = "align"
           \/ at' = "run" /\ i' = i + 1 /\ refusal' = refusal
    BY <1>8 DEF SizeGroup, Refuse
  <2>2. i \in first..Len(fmt) /\ first \in 1..Len(fmt)
    BY <1>2, <1>3, <1>4, <1>8, <2>1 DEF SizeGroup, Walking
  <2>3. PICK e : Ends(e, i) /\ e[i] <= running
    BY <2>1 DEF Sized
  <2>4. PICK d : Ends(d, i + 1) /\ d[i + 1] = EndOf(e[i], fmt[i])
    BY <1>2, <2>2, <2>3, OneMoreEnd
  <2>5. d[i + 1] <= running' + groupBits'
    <3>1. e[i] \in Nat /\ fmt[i].bits \in Nat
      BY <1>2, <2>2, <2>3 DEF Ends
    <3>2. QED
      BY <1>3, <2>1, <2>3, <2>4, <3>1 DEF EndOf
  <2>6. at' = "run" => \E x : Ends(x, i)' /\ x[i'] <= running' + groupBits'
    BY <1>1, <2>1, <2>4, <2>5 DEF Ends
  <2>7. QED
    BY <1>1, <1>5, <2>1, <2>6 DEF Sized
<1>9. CASE SizeContinue
  <2>1. at = "run" /\ at' = "run" /\ refusal' = refusal /\ i' = i + 1
        /\ first' = first /\ running' = running /\ groupBits' = groupBits + fmt[i].bits
        /\ fmt[i].offset = 0 /\ i \in first..last /\ nbits' = nbits
    BY <1>9 DEF SizeContinue, Continues
  <2>2. i \in first..Len(fmt) /\ first \in 1..Len(fmt)
    BY <1>2, <1>3, <1>4, <2>1 DEF Walking
  <2>3. PICK e : Ends(e, i) /\ e[i] <= running + groupBits
    BY <2>1 DEF Sized
  <2>4. PICK d : Ends(d, i + 1) /\ d[i + 1] = EndOf(e[i], fmt[i])
    BY <1>2, <2>2, <2>3, OneMoreEnd
  <2>5. d[i + 1] <= running' + groupBits'
    <3>1. e[i] \in Nat /\ fmt[i].bits \in Nat
      BY <1>2, <2>2, <2>3 DEF Ends
    <3>2. QED
      BY <1>3, <2>1, <2>3, <2>4, <3>1 DEF EndOf
  <2>6. \E x : Ends(x, i)' /\ x[i'] <= running' + groupBits'
    BY <1>1, <2>1, <2>4, <2>5 DEF Ends
  <2>7. QED
    BY <1>1, <1>5, <2>1, <2>6 DEF Sized
<1>10. CASE SizeGroupEnd
  <2>1. at = "run" /\ first' = first /\ i' = i /\ nbits' = nbits
        /\ \/ at' = "refused" /\ refusal' = "forced"
           \/ /\ at' = "size" /\ refusal' = refusal
              /\ \/ running' = running + 8 * forced /\ ~(groupBits > 8 * forced)
                 \/ running' = running + groupBits
    BY <1>10 DEF SizeGroupEnd, Refuse
  <2>2. PICK e : Ends(e, i) /\ e[i] <= running + groupBits
    BY <2>1 DEF Sized
  <2>3. i \in first..(last + 1) /\ first \in Nat /\ last \in Nat
    BY <1>3, <1>4, <2>1 DEF Walking
  <2>4. e[i] \in Nat /\ forced \in Nat
    BY <1>3, <2>2, <2>3 DEF Ends, Widths
  <2>5. at' = "size" => e[i] <= running'
    BY <1>3, <2>1, <2>2, <2>4
  <2>6. at' = "size" => \E x : Ends(x, i)' /\ x[i'] <= running'
    BY <1>1, <2>1, <2>2, <2>5 DEF Ends
  <2>7. QED
    BY <1>1, <1>5, <2>1, <2>6 DEF Sized
<1>11. CASE SizeDone
  <2>1. at = "size" /\ first' = first /\ last' = last /\ i' = first /\ nbits' = nbits /\ i > last
        /\ size' = Container(Larger(maxBits, running))
        /\ \/ at' = "refused" /\ refusal' = "unsupported"
           \/ at' = "place" /\ refusal' = refusal /\ size' \in Widths
    BY <1>11 DEF SizeDone, Refuse, Supported
  <2>2. i = last + 1 /\ nbits = 0 /\ first \in 1..Len(fmt) /\ last \in first..Len(fmt)
    BY <1>3, <1>4, <2>1 DEF Walking, Sized
  <2>3. PICK e : Ends(e, i) /\ e[i] <= running
    BY <2>1 DEF Sized
  <2>4. e[last + 1] \in Nat /\ e[first] = 0
    BY <1>2, <2>2, <2>3 DEF Ends
  <2>5. at' = "place" => e[last + 1] <= 8 * size'
    <3>1. Larger(maxBits, running) \in Nat /\ running <= Larger(maxBits, running)
      BY <1>3 DEF Larger
    <3>2. size' \in Widths => Larger(maxBits, running) <= 8 * size'
      BY <2>1, <3>1, ContainerSize
    <3>3. size' \in Widths => size' \in Nat
      BY DEF Widths
    <3>4. QED
      BY <1>3, <2>1, <2>2, <2>3, <2>4, <3>1, <3>2, <3>3
  <2>6. at' = "place" => \E x : Ends(x, last + 1)' /\ x[last' + 1] <= 8 * size' /\ nbits' = x[i']
    BY <1>1, <2>1, <2>2, <2>3, <2>4, <2>5 DEF Ends
  <2>7. QED
    BY <1>1, <1>5, <2>1, <2>6 DEF Sized
<1>12. CASE PlaceField
  <2>1. at = "place" /\ first' = first /\ last' = last /\ size' = size
        /\ \/ at' = "refused" /\ refusal' = "overlap"
           \/ at' = "place" /\ refusal' = refusal /\ i' = i + 1 /\ nbits' = EndOf(nbits, fmt[i])
    BY <1>12 DEF PlaceField, Refuse, Place, EndOf
  <2>2. i \in first..last /\ first \in Nat /\ last \in Nat
    BY <1>3, <1>4, <1>12, <2>1 DEF PlaceField, Walking
  <2>3. CASE at' = "place" /\ declared = 0
    <3>1. PICK e : Ends(e, last + 1) /\ e[last + 1] <= 8 * size /\ nbits = e[i]
      BY <2>1, <2>3 DEF Sized
    <3>2. nbits' = e[i']
      BY <2>1, <2>2, <2>3, <3>1 DEF Ends
    <3>3. \E x : Ends(x, last + 1)' /\ x[last' + 1] <= 8 * size' /\ nbits' = x[i']
      BY <1>1, <2>1, <3>1, <3>2 DEF Ends
    <3>4. QED
      BY <1>1, <1>5, <2>1, <2>3, <3>3 DEF Sized
  <2>4. CASE at' = "place" /\ declared # 0
    BY <1>1, <2>1, <2>4 DEF Sized
  <2>5. CASE at' = "refused" /\ refusal' = "overlap"
    BY <2>5 DEF Sized
  <2>6. QED
    BY <2>1, <2>3, <2>4, <2>5
<1>13. CASE PlaceDone
  <2>1. at = "place" /\ i > last
        /\ \/ at' = "refused" /\ refusal' = "exceeds" /\ nbits > 8 * size
           \/ at' = "group" /\ refusal' = refusal
    BY <1>13 DEF PlaceDone, Refuse
  <2>2. i = last + 1 /\ i \in Nat
    BY <1>3, <1>4, <2>1 DEF Walking
  <2>3. declared = 0 => nbits <= 8 * size
    BY <2>1, <2>2 DEF Sized
  <2>4. refusal' = "exceeds" => declared # 0
    BY <1>3, <1>5, <2>1, <2>3
  <2>5. QED
    BY <1>1, <2>1, <2>4 DEF Sized
<1>14. CASE SkipOther \/ GroupsDone \/ EncodeField \/ EncodeOther \/ EncodeDone \/ Decode
  <2>1. at' \in {"group", "encode", "decode", "done", "refused"}
        /\ refusal' \in {refusal, "value", "overflow"}
    BY <1>14 DEF SkipOther, GroupsDone, EncodeField, EncodeOther, EncodeDone, Decode, Refuse
  <2>2. QED
    BY <1>1, <1>5, <2>1 DEF Sized
<1>15. CASE UNCHANGED vars
  BY <1>15 DEF vars, input, walk, Sized, Ends
<1>16. QED
  BY <1>6, <1>7, <1>8, <1>9, <1>10, <1>11, <1>12, <1>13,
     <1>14, <1>15
  DEF Next

-----------------------------------------------------------------------------
(* The bit b of integer g is one exactly when it is, from its offset, a    *)
(* bit of a value given for a field of that integer.                       *)
IsOne(g, b) == \E j \in 1..Len(given) : home[j] = g /\ IsBitfield(fmt[j]) /\ b - offsets[j] \in given[j]

Encoded ==
    /\ at \in {"encode", "decode", "done"} =>
          /\ \A j \in 1..Len(given) :
                IF IsBitfield(fmt[j]) THEN given[j] \subseteq 0..(fmt[j].bits - 1) ELSE given[j] = {}
          /\ DOMAIN ints = 1..Len(sizes)
          /\ \A g \in 1..Len(sizes) : ints[g] \subseteq Nat /\ \A b \in Nat : b \in ints[g] <=> IsOne(g, b)
    /\ at \notin {"encode", "decode", "done", "refused"} => given = <<>>
    /\ at = "encode" => Len(given) = i - 1
    /\ at \in {"decode", "done"} => Len(given) = Len(fmt)
    /\ \E S : given \in Seq(S)
    /\ refusal # "overflow"
    /\ RoundTrip

LEMMA Overflow ==
    ASSUME Layout, Encoded, at = "encode", i > Len(fmt), NEW g \in 1..Len(sizes)
    PROVE  ints[g] \subseteq 0..(8 * sizes[g] - 1)
<1>1. /\ Len(fmt) \in Nat /\ DOMAIN fmt = 1..Len(fmt)
      /\ \A j \in 1..Len(fmt) : fmt[j].bits \in Nat
  BY FieldTypes DEF Layout, TypeOK, LayoutTypeOK
<1>2. /\ Len(home) = Len(fmt) /\ DOMAIN home = 1..Len(fmt)
      /\ \A j \in 1..Len(fmt) : home[j] \in Nat /\ offsets[j] \in Nat
      /\ sizes[g] \in Nat /\ DOMAIN sizes = 1..Len(sizes)
  BY LayoutTypes DEF Layout, TypeOK, Counted, Widths
<1>3. i = Len(fmt) + 1 /\ Len(given) = Len(fmt)
  BY <1>1 DEF Layout, TypeOK, WalkTypeOK, Encoded
<1>4. ASSUME NEW b \in ints[g] PROVE b \in 0..(8 * sizes[g] - 1)
  <2>1. b \in Nat /\ IsOne(g, b)
    BY <1>4 DEF Encoded
  <2>2. PICK j \in 1..Len(fmt) : home[j] = g /\ IsBitfield(fmt[j]) /\ b - offsets[j] \in given[j]
    BY <1>3, <2>1 DEF IsOne
  <2>3. b - offsets[j] \in 0..(fmt[j].bits - 1)
    BY <1>3, <2>2 DEF Encoded
  <2>4. offsets[j] + fmt[j].bits <= 8 * sizes[g]
    BY <1>2, <2>2 DEF Layout, FieldsDisjoint
  <2>5. QED
    BY <1>1, <1>2, <2>1, <2>2, <2>3, <2>4
<1>5. QED
  BY <1>4

(* What decoding extracts is what was given: the other fields of the       *)
(* integer end before this one, or start after its end.                    *)
LEMMA ExtractGiven ==
    ASSUME Layout, Encoded, at = "decode", NEW j \in 1..Len(fmt), IsBitfield(fmt[j])
    PROVE  Extract(ints[home[j]], fmt[j], offsets[j]) = given[j]
<1>1. /\ Len(fmt) \in Nat /\ DOMAIN fmt = 1..Len(fmt)
      /\ \A k \in 1..Len(fmt) : fmt[k].bits \in Nat
  BY FieldTypes DEF Layout, TypeOK, LayoutTypeOK
<1>2. /\ Len(home) = Len(fmt) /\ DOMAIN home = 1..Len(fmt)
      /\ \A k \in 1..Len(fmt) : home[k] \in Nat /\ offsets[k] \in Nat
      /\ Len(sizes) \in Nat
  BY LayoutTypes DEF Layout, TypeOK, Counted
<1>3. Len(given) = Len(fmt) /\ given[j] \subseteq 0..(fmt[j].bits - 1)
  BY DEF Encoded
<1>4. home[j] \in 1..Len(sizes)
  BY <1>2 DEF Layout, Owned
<1>5. ASSUME NEW b \in 0..(fmt[j].bits - 1), b + offsets[j] \in ints[home[j]]
      PROVE  b \in given[j]
  <2>1. b + offsets[j] \in Nat
    BY <1>1, <1>2, <1>5
  <2>2. IsOne(home[j], b + offsets[j])
    BY <1>4, <1>5, <2>1 DEF Encoded
  <2>3. PICK k \in 1..Len(fmt) : /\ home[k] = home[j] /\ IsBitfield(fmt[k])
                                 /\ (b + offsets[j]) - offsets[k] \in given[k]
    BY <1>3, <2>2 DEF IsOne
  <2>4. (b + offsets[j]) - offsets[k] \in 0..(fmt[k].bits - 1)
    BY <1>3, <2>3 DEF Encoded
  <2>5. k < j => offsets[k] + fmt[k].bits <= offsets[j]
    BY <1>2, <2>3 DEF Layout, FieldsDisjoint
  <2>6. j < k => offsets[j] + fmt[j].bits <= offsets[k]
    BY <1>2, <2>3 DEF Layout, FieldsDisjoint
  <2>7. k = j
    BY <1>1, <1>2, <1>5, <2>3, <2>4, <2>5, <2>6
  <2>8. QED
    BY <1>1, <1>2, <1>5, <2>3, <2>7
<1>6. ASSUME NEW b \in given[j]
      PROVE  b \in 0..(fmt[j].bits - 1) /\ b + offsets[j] \in ints[home[j]]
  <2>1. b \in 0..(fmt[j].bits - 1)
    BY <1>3, <1>6
  <2>2. b + offsets[j] \in Nat /\ (b + offsets[j]) - offsets[j] = b
    BY <1>1, <1>2, <2>1
  <2>3. IsOne(home[j], b + offsets[j])
    BY <1>3, <1>6, <2>2 DEF IsOne
  <2>4. QED
    BY <1>4, <2>1, <2>2, <2>3 DEF Encoded
<1>7. QED
  BY <1>3, <1>5, <1>6 DEF Extract

LEMMA StepEncoded ==
    ASSUME Layout, Encoded, [Next]_vars
    PROVE  Encoded'
<1>1. fmt' = fmt
  BY InputKept
<1>2. /\ Len(fmt) \in Nat /\ DOMAIN fmt = 1..Len(fmt)
      /\ \A j \in 1..Len(fmt) : fmt[j].bits \in Nat
  BY FieldTypes DEF Layout, TypeOK, LayoutTypeOK
<1>3. /\ Len(home) \in Nat /\ DOMAIN home = 1..Len(home)
      /\ \A j \in 1..Len(home) : home[j] \in Nat /\ offsets[j] \in Nat
      /\ Len(sizes) \in Nat /\ DOMAIN sizes = 1..Len(sizes)
  BY LayoutTypes DEF Layout, TypeOK
<1>4. refusal # "overflow" /\ \E S : given \in Seq(S)
  BY DEF Encoded
<1>5. i \in 1..(Len(fmt) + 1)
  BY DEF Layout, TypeOK, WalkTypeOK
<1>6. CASE GroupsDone
  <2>1. at = "group" /\ at' = "encode" /\ i' = 1 /\ ints' = [g \in 1..Len(sizes) |-> {}]
        /\ given' = given /\ sizes' = sizes /\ refusal' = refusal
    BY <1>3, <1>6 DEF GroupsDone, layout
  <2>2. given = <<>>
    BY <2>1 DEF Encoded
  <2>3. Len(given) = 0
    BY <2>2
  <2>4. \A g \in 1..Len(sizes) : \A b \in Nat : ~IsOne(g, b)'
    BY <2>1, <2>3 DEF IsOne
  <2>5. /\ DOMAIN ints' = 1..Len(sizes')
        /\ \A g \in 1..Len(sizes') : ints'[g] \subseteq Nat /\ \A b \in Nat : b \in ints'[g] <=> IsOne(g, b)'
    BY <2>1, <2>4
  <2>6. \A j \in 1..Len(given') : FALSE
    BY <2>1, <2>3
  <2>7. Len(given') = i' - 1
    BY <2>1, <2>3
  <2>8. QED
    BY <1>4, <2>1, <2>5, <2>6, <2>7 DEF Encoded, RoundTrip
<1>7. CASE EncodeField
  <2>1. at = "encode" /\ i \in 1..Len(fmt) /\ IsBitfield(fmt[i])
        /\ home' = home /\ offsets' = offsets /\ sizes' = sizes
    BY <1>2, <1>7 DEF EncodeField, layout
  <2>2. CASE at' = "refused" /\ refusal' = "value" /\ given' = given
    BY <1>4, <2>2 DEF Encoded, RoundTrip
  <2>3. ASSUME NEW v \in Given, InRange(v, fmt[i]), given' = Append(given, v.ones),
               ints' = [ints EXCEPT ![home[i]] = @ \cup Shift(v.ones, offsets[i])],
               i' = i + 1, at' = at, refusal' = refusal
        PROVE  Encoded'
    <3>1. v.ones \subseteq 0..(fmt[i].bits - 1) /\ v.ones \subseteq Nat
      BY <1>2, <2>1, <2>3 DEF InRange
    <3>2. Len(given) = i - 1 /\ DOMAIN ints = 1..Len(sizes)
      BY <2>1 DEF Encoded
    <3>3. /\ Len(given') = i /\ given'[i] = v.ones /\ \E S : given' \in Seq(S)
          /\ \A j \in 1..(i - 1) : given'[j] = given[j]
      <4>1. PICK S : given \in Seq(S)
        BY <1>4
      <4>2. given \in Seq(S \cup {v.ones})
        BY <4>1
      <4>3. given' \in Seq(S \cup {v.ones})
        BY <2>3, <4>2
      <4>4. QED
        BY <2>1, <2>3, <3>2, <4>2, <4>3
    <3>4. Len(home) = Len(fmt) /\ home[i] \in 1..Len(sizes) /\ offsets[i] \in Nat
      BY <1>2, <1>3, <2>1 DEF Layout, Counted, Owned
    <3>5. ASSUME NEW j \in 1..Len(given')
          PROVE  IF IsBitfield(fmt[j]) THEN given'[j] \subseteq 0..(fmt[j].bits - 1) ELSE given'[j] = {}
      <4>1. CASE j = i
        BY <2>1, <3>1, <3>3, <4>1
      <4>2. CASE j \in 1..(i - 1)
        BY <2>1, <3>2, <3>3, <4>2 DEF Encoded
      <4>3. QED
        BY <1>5, <3>3, <4>1, <4>2
    <3>6. DOMAIN ints' = 1..Len(sizes)
      BY <2>3, <3>2
    <3>7. ASSUME NEW g \in 1..Len(sizes)
          PROVE  ints'[g] \subseteq Nat /\ \A b \in Nat : b \in ints'[g] <=> IsOne(g, b)'
      <4>1. ints[g] \subseteq Nat /\ \A b \in Nat : b \in ints[g] <=> IsOne(g, b)
        BY <2>1 DEF Encoded
      <4>2. Shift(v.ones, offsets[i]) \subseteq Nat
            /\ \A b \in Nat : b \in Shift(v.ones, offsets[i]) <=> b - offsets[i] \in v.ones
        BY <3>1, <3>4 DEF Shift
      <4>3. ASSUME NEW b \in Nat
            PROVE  IsOne(g, b)' <=> IsOne(g, b) \/ (g = home[i] /\ b - offsets[i] \in v.ones)
        <5>1. IsOne(g, b)' <=> \E j \in 1..i : home[j] = g /\ IsBitfield(fmt[j]) /\ b - offsets[j] \in given'[j]
          BY <1>1, <2>1, <3>3 DEF IsOne
        <5>2. IsOne(g, b) <=> \E j \in 1..(i - 1) : home[j] = g /\ IsBitfield(fmt[j]) /\ b - offsets[j] \in given'[j]
          BY <3>2, <3>3 DEF IsOne
        <5>3. \A j \in 1..i : j \in 1..(i - 1) \/ j = i
          BY <1>5
        <5>4. 1..(i - 1) \subseteq 1..i /\ i \in 1..i
          BY <1>5
        <5>5. QED
          BY <2>1, <3>3, <5>1, <5>2, <5>3, <5>4
      <4>4. CASE g = home[i]
        <5>1. ints'[g] = ints[g] \cup Shift(v.ones, offsets[i])
          BY <2>3, <3>2, <3>4, <4>4
        <5>2. QED
          BY <4>1, <4>2, <4>3, <4>4, <5>1
      <4>5. CASE g # home[i]
        <5>1. ints'[g] = ints[g]
          BY <2>3, <3>2, <3>4, <4>5
        <5>2. QED
          BY <4>1, <4>3, <4>5, <5>1
      <4>6. QED
        BY <4>4, <4>5
    <3>8. Len(given') = i' - 1
      BY <1>5, <2>3, <3>3
    <3>9. QED
      BY <1>1, <1>4, <2>1, <2>3, <3>3, <3>5, <3>6, <3>7, <3>8 DEF Encoded, RoundTrip
  <2>4. QED
    BY <1>7, <2>1, <2>2, <2>3 DEF EncodeField, Refuse
<1>8. CASE EncodeOther
  <2>1. at = "encode" /\ at' = at /\ i \in 1..Len(fmt) /\ ~IsBitfield(fmt[i])
        /\ home' = home /\ offsets' = offsets /\ sizes' = sizes
        /\ given' = Append(given, {}) /\ ints' = ints /\ i' = i + 1 /\ refusal' = refusal
    BY <1>2, <1>8 DEF EncodeOther, layout
  <2>2. Len(given) = i - 1 /\ DOMAIN ints = 1..Len(sizes)
    BY <2>1 DEF Encoded
  <2>3. /\ Len(given') = i /\ given'[i] = {} /\ \E S : given' \in Seq(S)
        /\ \A j \in 1..(i - 1) : given'[j] = given[j]
    <3>1. PICK S : given \in Seq(S)
      BY <1>4
    <3>2. given \in Seq(S \cup {{}})
      BY <3>1
    <3>3. given' \in Seq(S \cup {{}})
      BY <2>1, <3>2
    <3>4. QED
      BY <2>1, <2>2, <3>2, <3>3
  <2>4. ASSUME NEW j \in 1..Len(given')
        PROVE  IF IsBitfield(fmt[j]) THEN given'[j] \subseteq 0..(fmt[j].bits - 1) ELSE given'[j] = {}
    <3>1. CASE j = i
      BY <2>1, <2>3, <3>1
    <3>2. CASE j \in 1..(i - 1)
      BY <2>1, <2>2, <2>3, <3>2 DEF Encoded
    <3>3. QED
      BY <1>5, <2>3, <3>1, <3>2
  <2>5. ASSUME NEW g \in 1..Len(sizes)
        PROVE  ints'[g] \subseteq Nat /\ \A b \in Nat : b \in ints'[g] <=> IsOne(g, b)'
    <3>1. ints[g] \subseteq Nat /\ \A b \in Nat : b \in ints[g] <=> IsOne(g, b)
      BY <2>1 DEF Encoded
    <3>2. ASSUME NEW b \in Nat PROVE IsOne(g, b)' <=> IsOne(g, b)
      <4>1. IsOne(g, b)' <=> \E j \in 1..i : home[j] = g /\ IsBitfield(fmt[j]) /\ b - offsets[j] \in given'[j]
        BY <1>1, <2>1, <2>3 DEF IsOne
      <4>2. IsOne(g, b) <=> \E j \in 1..(i - 1) : home[j] = g /\ IsBitfield(fmt[j]) /\ b - offsets[j] \in given'[j]
        BY <2>2, <2>3 DEF IsOne
      <4>3. (\A j \in 1..i : j \in 1..(i - 1) \/ j = i) /\ 1..(i - 1) \subseteq 1..i
        BY <1>5
      <4>4. QED
        BY <2>1, <4>1, <4>2, <4>3
    <3>3. QED
      BY <2>1, <3>1, <3>2
  <2>6. Len(given') = i' - 1
    BY <1>5, <2>1, <2>3
  <2>7. QED
    BY <1>1, <1>4, <2>1, <2>2, <2>3, <2>4, <2>5, <2>6 DEF Encoded, RoundTrip
<1>9. CASE EncodeDone \/ Decode
  <2>1. home' = home /\ offsets' = offsets /\ sizes' = sizes /\ given' = given /\ ints' = ints
        /\ at \in {"encode", "decode"} /\ at' \in {"decode", "done", "refused"}
    BY <1>9 DEF EncodeDone, Decode, layout, data, Refuse
  <2>2. Len(given) = Len(fmt)
    BY <1>2, <1>5, <1>9 DEF EncodeDone, Decode, Encoded
  <2>3. refusal' # "overflow"
    <3>1. CASE EncodeDone
      <4>1. at = "encode" /\ i > Len(fmt) /\ DOMAIN ints = 1..Len(sizes)
        BY <3>1 DEF EncodeDone, Encoded
      <4>2. \A g \in DOMAIN ints : ints[g] \subseteq 0..(8 * sizes[g] - 1)
        BY <4>1, Overflow
      <4>3. QED
        BY <1>4, <3>1, <4>2 DEF EncodeDone
    <3>2. CASE Decode
      BY <1>4, <3>2 DEF Decode
    <3>3. QED
      BY <1>9, <3>1, <3>2
  <2>4. at' = "done" => decoded' = given
    <3>1. CASE EncodeDone
      BY <3>1 DEF EncodeDone, Refuse
    <3>2. CASE Decode
      <4>1. at = "decode"
            /\ decoded' = [j \in 1..Len(fmt) |->
                   IF IsBitfield(fmt[j]) THEN Extract(ints[home[j]], fmt[j], offsets[j]) ELSE {}]
        BY <1>2, <3>2 DEF Decode
      <4>2. ASSUME NEW j \in 1..Len(fmt) PROVE decoded'[j] = given[j]
        <5>1. CASE IsBitfield(fmt[j])
          BY <4>1, <5>1, ExtractGiven
        <5>2. CASE ~IsBitfield(fmt[j])
          BY <2>2, <4>1, <5>2 DEF Encoded
        <5>3. QED
          BY <5>1, <5>2
      <4>3. given = [j \in 1..Len(fmt) |-> given[j]]
        BY <1>4, <2>2
      <4>4. QED
        BY <4>1, <4>2, <4>3
    <3>3. QED
      BY <1>9, <3>1, <3>2
  <2>5. \A g \in 1..Len(sizes) : \A b \in Nat : IsOne(g, b)' <=> IsOne(g, b)
    BY <1>1, <2>1 DEF IsOne
  <2>6. QED
    BY <1>1, <1>4, <2>1, <2>2, <2>3, <2>4, <2>5 DEF Encoded, RoundTrip
<1>10. CASE StartGroup \/ SkipOther \/ SizeExplicit \/ SizeGroup \/ SizeContinue \/ SizeGroupEnd
            \/ SizeDone \/ PlaceField \/ PlaceDone
  <2>1. at \in {"group", "size", "run", "place"} /\ given' = given
    BY <1>10 DEF StartGroup, SkipOther, SizeExplicit, SizeGroup, SizeContinue, SizeGroupEnd,
                 SizeDone, PlaceField, PlaceDone, data
  <2>2. at' \notin {"encode", "decode", "done"} /\ refusal' # "overflow"
    BY <1>4, <1>10 DEF StartGroup, SkipOther, SizeExplicit, SizeGroup, SizeContinue, SizeGroupEnd,
                 SizeDone, PlaceField, PlaceDone, Place, Refuse
  <2>3. given = <<>>
    BY <2>1 DEF Encoded
  <2>4. QED
    BY <1>4, <2>1, <2>2, <2>3 DEF Encoded, RoundTrip
<1>11. CASE UNCHANGED vars
  <2>1. /\ UNCHANGED <<at, refusal, i, home, offsets, sizes, given, ints, decoded>>
    BY <1>11 DEF vars, layout, data
  <2>2. \A g \in 1..Len(sizes) : \A b \in Nat : IsOne(g, b)' <=> IsOne(g, b)
    BY <1>1, <2>1 DEF IsOne
  <2>3. QED
    BY <1>1, <2>1, <2>2 DEF Encoded, RoundTrip
<1>12. QED
  BY <1>6, <1>7, <1>8, <1>9, <1>10, <1>11 DEF Next

LEMMA InitSizedEncoded == Init => Sized /\ Encoded
<1> SUFFICES ASSUME Init PROVE Sized /\ Encoded
  OBVIOUS
<1>1. at = "group" /\ refusal = ""
  BY DEF Init
<1>2. given = <<>>
  BY DEF Init
<1>3. \E S : given \in Seq(S)
  BY <1>2
<1>4. QED
  BY <1>1, <1>2, <1>3 DEF Sized, Encoded, RoundTrip

(* When the constructor infers the size, placing never runs out of it, and *)
(* encoding values in range never overflows the integer.                   *)
THEOREM InferredSizeFits == Spec => []InferredFits
<1>1. Init => Layout /\ Sized /\ Encoded
  BY InitLayout, InitSizedEncoded
<1>2. Layout /\ Sized /\ Encoded /\ [Next]_vars => (Layout /\ Sized /\ Encoded)'
  BY StepLayout, StepSized, StepEncoded
<1>3. Sized /\ Encoded => InferredFits
  BY DEF Sized, Encoded, InferredFits
<1>4. QED
  BY <1>1, <1>2, <1>3, PTL DEF Spec

(* Every field decodes to the value encoded for it, whatever the others of *)
(* the same integer hold.                                                  *)
THEOREM DecodeInvertsEncode == Spec => []RoundTrip
<1>1. Init => Layout /\ Encoded
  BY InitLayout, InitSizedEncoded
<1>2. Layout /\ Encoded /\ [Next]_vars => (Layout /\ Encoded)'
  BY StepLayout, StepEncoded
<1>3. Encoded => RoundTrip
  BY DEF Encoded
<1>4. QED
  BY <1>1, <1>2, <1>3, PTL DEF Spec

-----------------------------------------------------------------------------
(* Without align the sizing walk counts exactly what the placing walk will *)
(* use, as long as no offset turns back, which placing would refuse.       *)
Plain == \A j \in first..last : fmt[j].align = 0

InOrder(e, m) == \A k \in first..(m - 1) : fmt[k].offset = 0 \/ e[k] <= fmt[k].offset

Counts(e, bits) == Plain => e[i] = bits /\ (InOrder(e, i) => maxBits <= bits)

Tight ==
    /\ at = "size" => \E e : Ends(e, i) /\ Counts(e, running)
    /\ at = "run" => (Plain => forced = 0) /\ \E e : Ends(e, i) /\ Counts(e, running + groupBits)
    /\ at = "place" /\ declared = 0 =>
          \E e : /\ Ends(e, last + 1) /\ nbits = e[i] /\ InOrder(e, i)
                 /\ Plain /\ InOrder(e, last + 1) => size = Container(e[last + 1])

(* The fields of the Bitfields being placed are in it, the last at its end.*)
Together ==
    at = "place" =>
        /\ \A j \in first..(i - 1) : home[j] = Len(sizes) + 1
        /\ i > first => offsets[i - 1] + fmt[i - 1].bits = nbits

(* A container is the smallest: half of it is too small for its bits.      *)
LEMMA ContainerSmallest ==
    ASSUME NEW bits \in Nat, Container(bits) \in Widths
    PROVE  Container(bits) = 1 \/ bits > 4 * Container(bits)
BY DEF Container, Widths

(* Offsets in order up to a field are in order up to the one before it.    *)
LEMMA InOrderBefore ==
    ASSUME first \in Nat, i \in Nat, first <= i, NEW e, NEW d,
           \A k \in first..i : d[k] = e[k], InOrder(d, i + 1)
    PROVE  InOrder(e, i) /\ (fmt[i].offset = 0 \/ e[i] <= fmt[i].offset)
<1>1. \A k \in first..(i - 1) : k \in first..i /\ k \in first..((i + 1) - 1)
  OBVIOUS
<1>2. i \in first..i /\ i \in first..((i + 1) - 1)
  OBVIOUS
<1>3. QED
  BY <1>1, <1>2 DEF InOrder

(* The sizing walk, then the placing walk, field by field.                 *)
LEMMA StepTight ==
    ASSUME Layout, Sized, Tight, [Next]_vars
    PROVE  Tight'
<1>1. fmt' = fmt /\ declared' = declared
  BY InputKept
<1>2. /\ Len(fmt) \in Nat /\ DOMAIN fmt = 1..Len(fmt) /\ fmt \in Seq(Field)
      /\ \A j \in 1..Len(fmt) :
            fmt[j].bits \in Nat /\ fmt[j].offset \in Nat /\ fmt[j].align \in Widths \cup {0}
  BY FieldTypes DEF Layout, TypeOK, LayoutTypeOK
<1>3. /\ first \in 1..(Len(fmt) + 1) /\ last \in 0..Len(fmt) /\ i \in 1..(Len(fmt) + 1)
      /\ running \in Nat /\ maxBits \in Nat /\ groupBits \in Nat /\ forced \in Widths \cup {0}
      /\ size \in Nat /\ nbits \in Nat
  BY DEF Layout, TypeOK, WalkTypeOK
<1>4. Walking
  BY DEF Layout
<1>6. CASE StartGroup
  <2>1. at' \in {"size", "place", "refused"} /\ (at' = "place" => declared # 0)
    BY <1>6 DEF StartGroup, Refuse
  <2>2. i' = first /\ running' = 0 /\ maxBits' = 0 /\ first' = first /\ first \in Nat
    BY <1>3, <1>6 DEF StartGroup
  <2>3. PICK e : Ends(e, first) /\ e[first] = 0
    <3>1. Ends([k \in {first} |-> 0], first) /\ [k \in {first} |-> 0][first] = 0
      BY <2>2 DEF Ends
    <3>2. QED
      BY <3>1
  <2>4. Ends(e, i)'
    BY <1>1, <2>2, <2>3 DEF Ends
  <2>5. e[i'] = running' /\ maxBits' <= running'
    BY <2>2, <2>3
  <2>6. Counts(e, running)'
    BY <2>5 DEF Counts
  <2>7. QED
    BY <1>1, <2>1, <2>4, <2>6 DEF Tight
<1>7. CASE SizeExplicit
  <2>1. at = "size" /\ at' = "size" /\ i' = i + 1 /\ running' = fmt[i].offset + fmt[i].bits
        /\ maxBits' = Larger(maxBits, Larger(running, fmt[i].offset + fmt[i].bits))
        /\ first' = first /\ last' = last /\ fmt[i].offset # 0
    BY <1>7 DEF SizeExplicit
  <2>2. i \in first..Len(fmt) /\ first \in 1..Len(fmt) /\ i \in first..last /\ first \in Nat /\ i \in Nat
    BY <1>2, <1>3, <1>4, <1>7, <2>1 DEF SizeExplicit, Walking
  <2>3. PICK e : Ends(e, i) /\ Counts(e, running)
    BY <2>1 DEF Tight
  <2>4. PICK d : Ends(d, i + 1) /\ d[i + 1] = EndOf(e[i], fmt[i]) /\ \A k \in first..i : d[k] = e[k]
    BY <1>2, <2>2, <2>3, OneMoreEnd
  <2>5. d[i + 1] = running'
    BY <1>2, <2>1, <2>2, <2>4 DEF EndOf
  <2>6. ASSUME Plain, InOrder(d, i + 1) PROVE maxBits' <= running'
    <3>1. InOrder(e, i) /\ (fmt[i].offset = 0 \/ e[i] <= fmt[i].offset)
      BY <2>2, <2>4, <2>6, InOrderBefore
    <3>2. e[i] = running /\ maxBits <= running
      BY <2>3, <2>6, <3>1 DEF Counts
    <3>3. fmt[i].bits \in Nat /\ fmt[i].offset \in Nat
      BY <1>2, <2>2
    <3>4. running <= fmt[i].offset
      BY <2>1, <3>1, <3>2
    <3>5. QED
      BY <1>3, <2>1, <3>2, <3>3, <3>4 DEF Larger
  <2>7. Ends(d, i)' /\ Counts(d, running)'
    BY <1>1, <2>1, <2>4, <2>5, <2>6 DEF Ends, Counts, Plain, InOrder
  <2>8. QED
    BY <1>1, <2>1, <2>7 DEF Tight
<1>8. CASE SizeGroup
  <2>1. at = "size" /\ first' = first /\ last' = last /\ fmt[i].offset = 0 /\ maxBits' = maxBits
        /\ forced' = fmt[i].align /\ groupBits' = fmt[i].bits /\ running' = running
        /\ (at' = "refused" \/ (at' = "run" /\ i' = i + 1))
    BY <1>8 DEF SizeGroup, Refuse
  <2>2. i \in first..Len(fmt) /\ first \in 1..Len(fmt) /\ i \in first..last /\ first \in Nat /\ i \in Nat
    BY <1>2, <1>3, <1>4, <1>8, <2>1 DEF SizeGroup, Walking
  <2>3. PICK e : Ends(e, i) /\ Counts(e, running)
    BY <2>1 DEF Tight
  <2>4. PICK d : Ends(d, i + 1) /\ d[i + 1] = EndOf(e[i], fmt[i]) /\ \A k \in first..i : d[k] = e[k]
    BY <1>2, <2>2, <2>3, OneMoreEnd
  <2>5. fmt[i].bits \in Nat /\ d[i + 1] = e[i] + fmt[i].bits
    BY <1>2, <2>1, <2>2, <2>4 DEF EndOf
  <2>6. ASSUME Plain PROVE d[i + 1] = running + fmt[i].bits
    BY <2>3, <2>5, <2>6 DEF Counts
  <2>7. ASSUME Plain, InOrder(d, i + 1) PROVE maxBits <= running + fmt[i].bits
    <3>1. InOrder(e, i)
      BY <2>2, <2>4, <2>7, InOrderBefore
    <3>2. maxBits <= running
      BY <2>3, <2>7, <3>1 DEF Counts
    <3>3. QED
      BY <1>3, <2>5, <3>2
  <2>8. CASE at' = "run"
    <3>1. i' = i + 1
      BY <2>1, <2>8
    <3>2. Ends(d, i)' /\ Counts(d, running + groupBits)'
      BY <1>1, <2>1, <2>4, <2>6, <2>7, <3>1 DEF Ends, Counts, Plain, InOrder
    <3>3. Plain' => forced' = 0
      BY <1>1, <2>1, <2>2 DEF Plain
    <3>4. QED
      BY <2>8, <3>2, <3>3 DEF Tight
  <2>9. QED
    BY <2>1, <2>8 DEF Tight
<1>9. CASE SizeContinue
  <2>1. at = "run" /\ at' = "run" /\ i' = i + 1 /\ maxBits' = maxBits /\ forced' = forced
        /\ first' = first /\ last' = last /\ running' = running /\ groupBits' = groupBits + fmt[i].bits
        /\ fmt[i].offset = 0 /\ i \in first..last
    BY <1>9 DEF SizeContinue, Continues
  <2>2. i \in first..Len(fmt) /\ first \in 1..Len(fmt) /\ first \in Nat /\ i \in Nat
    BY <1>2, <1>3, <1>4, <2>1 DEF Walking
  <2>3. PICK e : Ends(e, i) /\ Counts(e, running + groupBits)
    BY <2>1 DEF Tight
  <2>4. PICK d : Ends(d, i + 1) /\ d[i + 1] = EndOf(e[i], fmt[i]) /\ \A k \in first..i : d[k] = e[k]
    BY <1>2, <2>2, <2>3, OneMoreEnd
  <2>5. fmt[i].bits \in Nat /\ d[i + 1] = e[i] + fmt[i].bits
    BY <1>2, <2>1, <2>2, <2>4 DEF EndOf
  <2>6. ASSUME Plain PROVE d[i + 1] = running + (groupBits + fmt[i].bits)
    <3>1. e[i] = running + groupBits
      BY <2>3, <2>6 DEF Counts
    <3>2. QED
      BY <1>3, <2>5, <3>1
  <2>7. ASSUME Plain, InOrder(d, i + 1) PROVE maxBits <= running + (groupBits + fmt[i].bits)
    <3>1. InOrder(e, i)
      BY <2>2, <2>4, <2>7, InOrderBefore
    <3>2. maxBits <= running + groupBits
      BY <2>3, <2>7, <3>1 DEF Counts
    <3>3. QED
      BY <1>3, <2>5, <3>2
  <2>8. Ends(d, i)' /\ Counts(d, running + groupBits)'
    BY <1>1, <2>1, <2>4, <2>6, <2>7 DEF Ends, Counts, Plain, InOrder
  <2>9. Plain' => forced' = 0
    BY <1>1, <2>1 DEF Plain, Tight
  <2>10. QED
    BY <2>1, <2>8, <2>9 DEF Tight
<1>10. CASE SizeGroupEnd
  <2>1. at = "run" /\ first' = first /\ last' = last /\ i' = i /\ maxBits' = maxBits
        /\ \/ at' = "refused"
           \/ at' = "size" /\ running' = running + (IF forced # 0 THEN 8 * forced ELSE groupBits)
    BY <1>10 DEF SizeGroupEnd, Refuse
  <2>2. PICK e : Ends(e, i) /\ Counts(e, running + groupBits)
    BY <2>1 DEF Tight
  <2>3. ASSUME at' = "size", Plain PROVE running' = running + groupBits
    BY <2>1, <2>3 DEF Tight
  <2>4. at' = "size" => Ends(e, i)' /\ Counts(e, running)'
    BY <1>1, <2>1, <2>2, <2>3 DEF Ends, Counts, Plain, InOrder
  <2>5. QED
    BY <1>1, <2>1, <2>4 DEF Tight
<1>11. CASE SizeDone
  <2>1. at = "size" /\ first' = first /\ last' = last /\ i' = first /\ nbits' = nbits /\ i > last
        /\ size' = Container(Larger(maxBits, running)) /\ at' \in {"refused", "place"}
    BY <1>11 DEF SizeDone, Refuse, Supported
  <2>2. i = last + 1 /\ nbits = 0 /\ first \in 1..Len(fmt) /\ last \in first..Len(fmt)
    BY <1>3, <1>4, <2>1 DEF Walking, Sized
  <2>3. PICK e : Ends(e, i) /\ Counts(e, running)
    BY <2>1 DEF Tight
  <2>4. nbits' = e[first]
    BY <2>1, <2>2, <2>3 DEF Ends
  <2>5. ASSUME Plain, InOrder(e, last + 1) PROVE size' = Container(e[last + 1])
    <3>1. e[last + 1] = running /\ maxBits <= running
      BY <2>2, <2>3, <2>5 DEF Counts
    <3>2. Larger(maxBits, running) = running
      BY <1>3, <3>1 DEF Larger
    <3>3. QED
      BY <2>1, <3>1, <3>2
  <2>6. InOrder(e, first)
    BY <1>3 DEF InOrder
  <2>7. /\ Ends(e, last + 1)' /\ nbits' = e[i'] /\ InOrder(e, i)'
        /\ Plain' /\ InOrder(e, last + 1)' => size' = Container(e[last' + 1])
    BY <1>1, <2>1, <2>2, <2>3, <2>4, <2>5, <2>6 DEF Ends, Plain, InOrder
  <2>8. QED
    BY <2>1, <2>7 DEF Tight
<1>12. CASE PlaceField
  <2>1. at = "place" /\ first' = first /\ last' = last /\ size' = size
        /\ \/ at' = "refused"
           \/ /\ at' = "place" /\ i' = i + 1 /\ nbits' = EndOf(nbits, fmt[i])
              /\ fmt[i].offset = 0 \/ ~(fmt[i].offset < nbits)
    BY <1>12 DEF PlaceField, Refuse, Place, EndOf
  <2>2. i \in first..last /\ first \in Nat /\ last \in Nat /\ i \in Nat /\ fmt[i].offset \in Nat
    BY <1>2, <1>3, <1>4, <1>12, <2>1 DEF PlaceField, Walking
  <2>3. CASE at' = "place" /\ declared = 0
    <3>1. PICK e : /\ Ends(e, last + 1) /\ nbits = e[i] /\ InOrder(e, i)
                   /\ Plain /\ InOrder(e, last + 1) => size = Container(e[last + 1])
      BY <2>1, <2>3 DEF Tight
    <3>2. nbits' = e[i + 1]
      BY <2>1, <2>2, <2>3, <3>1 DEF Ends
    <3>3. fmt[i].offset = 0 \/ e[i] <= fmt[i].offset
      BY <1>3, <2>1, <2>2, <2>3, <3>1
    <3>4. InOrder(e, i + 1)
      <4>1. \A k \in first..((i + 1) - 1) : k \in first..(i - 1) \/ k = i
        BY <2>2
      <4>2. QED
        BY <3>1, <3>3, <4>1 DEF InOrder
    <3>5. /\ Ends(e, last + 1)' /\ nbits' = e[i'] /\ InOrder(e, i)'
          /\ Plain' /\ InOrder(e, last + 1)' => size' = Container(e[last' + 1])
      BY <1>1, <2>1, <2>3, <3>1, <3>2, <3>4 DEF Ends, Plain, InOrder
    <3>6. QED
      BY <2>3, <3>5 DEF Tight
  <2>4. CASE at' = "place" /\ declared # 0
    BY <1>1, <2>4 DEF Tight
  <2>5. CASE at' = "refused"
    BY <2>5 DEF Tight
  <2>6. QED
    BY <2>1, <2>3, <2>4, <2>5
<1>13. CASE SkipOther \/ GroupsDone \/ PlaceDone \/ EncodeField \/ EncodeOther \/ EncodeDone \/ Decode
  <2>1. at' \in {"group", "encode", "decode", "done", "refused"}
    BY <1>13 DEF SkipOther, GroupsDone, PlaceDone, EncodeField, EncodeOther, EncodeDone, Decode, Refuse
  <2>2. QED
    BY <2>1 DEF Tight
<1>14. CASE UNCHANGED vars
  BY <1>14 DEF vars, input, walk, Tight, Ends, Counts, Plain, InOrder
<1>15. QED
  BY <1>6, <1>7, <1>8, <1>9, <1>10, <1>11, <1>12, <1>13, <1>14 DEF Next

(* Only placing adds a field to the integer under construction.           *)
LEMMA StepTogether ==
    ASSUME Layout, Together, [Next]_vars
    PROVE  Together'
<1>1. fmt' = fmt
  BY InputKept
<1>2. /\ Len(fmt) \in Nat /\ fmt \in Seq(Field)
      /\ \A j \in 1..Len(fmt) : fmt[j].bits \in Nat /\ fmt[j].offset \in Nat
  BY FieldTypes DEF Layout, TypeOK, LayoutTypeOK
<1>3. first \in Nat /\ last \in 0..Len(fmt) /\ i \in Nat /\ nbits \in Nat
  BY <1>2 DEF Layout, TypeOK, WalkTypeOK
<1>4. CASE PlaceField
  <2>1. at = "place" /\ i \in first..last /\ first \in 1..Len(fmt) /\ first' = first /\ sizes' = sizes
    BY <1>3, <1>4 DEF PlaceField, Layout, Walking
  <2>2. CASE at' = "refused"
    BY <2>2 DEF Together
  <2>3. ASSUME NEW offset \in Nat, Place(offset) PROVE Together'
    <3>1. Len(home) = i - 1 /\ home \in Seq(Nat) /\ offsets \in Seq(Nat) /\ Len(offsets) = i - 1
      BY <2>1 DEF Layout, Counted, TypeOK, LayoutTypeOK
    <3>2. Len(sizes) \in Nat
      BY DEF Layout, TypeOK, LayoutTypeOK
    <3>3. /\ home' = Append(home, Len(sizes) + 1) /\ offsets' = Append(offsets, offset)
          /\ nbits' = offset + fmt[i].bits /\ i' = i + 1
      BY <2>3 DEF Place
    <3>4. /\ home'[i] = Len(sizes) + 1 /\ offsets'[i] = offset
          /\ \A j \in 1..(i - 1) : home'[j] = home[j]
      BY <1>3, <3>1, <3>2, <3>3
    <3>5. \A j \in first..i : home'[j] = Len(sizes) + 1
      <4>1. \A j \in first..i : j = i \/ (j \in first..(i - 1) /\ j \in 1..(i - 1))
        BY <1>2, <1>3, <2>1
      <4>2. QED
        BY <2>1, <3>4, <4>1 DEF Together
    <3>6. i' - 1 = i
      BY <1>3, <3>3
    <3>7. QED
      BY <1>1, <2>1, <3>3, <3>4, <3>5, <3>6 DEF Together
  <2>4. fmt[i].offset \in Nat
    BY <1>2, <1>3, <2>1
  <2>5. QED
    BY <1>3, <1>4, <2>2, <2>3, <2>4 DEF PlaceField, Refuse
<1>5. CASE StartGroup \/ SizeDone
  <2>1. i' = first /\ first' = first
    BY <1>5 DEF StartGroup, SizeDone
  <2>2. first..(first - 1) = {} /\ ~(first > first)
    BY <1>3
  <2>3. QED
    BY <2>1, <2>2 DEF Together
<1>6. CASE SkipOther \/ GroupsDone \/ SizeExplicit \/ SizeGroup \/ SizeContinue \/ SizeGroupEnd
           \/ PlaceDone \/ EncodeField \/ EncodeOther \/ EncodeDone \/ Decode
  <2>1. at' # "place"
    BY <1>6 DEF SkipOther, GroupsDone, SizeExplicit, SizeGroup, SizeContinue, SizeGroupEnd,
                PlaceDone, EncodeField, EncodeOther, EncodeDone, Decode, Refuse
  <2>2. QED
    BY <2>1 DEF Together
<1>7. CASE UNCHANGED vars
  BY <1>7 DEF vars, input, layout, Together
<1>8. QED
  BY <1>4, <1>5, <1>6, <1>7 DEF Next

(* A field joins an integer that is not built, so it says nothing of those *)
(* that are.                                                               *)
LEMMA SmallestKept ==
    ASSUME Layout, InferredSmallest, fmt' = fmt, declared' = declared, sizes' = sizes,
           NEW h \in Nat, NEW o \in Nat, h \notin 1..Len(sizes),
           home' = Append(home, h), offsets' = Append(offsets, o)
    PROVE  InferredSmallest'
<1>1. /\ home \in Seq(Nat) /\ offsets \in Seq(Nat) /\ Len(home) = Len(offsets) /\ Len(home) \in Nat
      /\ DOMAIN home = 1..Len(home) /\ DOMAIN sizes = 1..Len(sizes)
  BY LayoutTypes DEF Layout, TypeOK, LayoutTypeOK
<1>2. /\ DOMAIN home' = 1..(Len(home) + 1) /\ home'[Len(home) + 1] = h
      /\ \A j \in 1..Len(home) : j \in DOMAIN home' /\ home'[j] = home[j] /\ offsets'[j] = offsets[j]
  BY <1>1
<1>3. \A j \in DOMAIN home' : home'[j] \in 1..Len(sizes) => j \in 1..Len(home) /\ home[j] = home'[j]
  BY <1>1, <1>2
<1>4. SUFFICES ASSUME NEW g \in DOMAIN sizes, declared = 0,
                      \A j \in DOMAIN home' : home'[j] = g => fmt[j].align = 0
               PROVE  \/ sizes[g] = 1
                      \/ \E j \in DOMAIN home' : home'[j] = g /\ offsets'[j] + fmt[j].bits > 4 * sizes[g]
  BY DEF InferredSmallest
<1>5. \A j \in DOMAIN home : home[j] = g => fmt[j].align = 0
  BY <1>1, <1>2, <1>4
<1>6. \/ sizes[g] = 1
      \/ \E j \in DOMAIN home : home[j] = g /\ offsets[j] + fmt[j].bits > 4 * sizes[g]
  BY <1>4, <1>5 DEF InferredSmallest
<1>7. QED
  BY <1>1, <1>2, <1>6

(* A Bitfields that is complete has the size its last field needs.         *)
LEMMA StepSmallest ==
    ASSUME Layout, Sized, Tight, Together, InferredSmallest, [Next]_vars
    PROVE  InferredSmallest'
<1>1. fmt' = fmt /\ declared' = declared
  BY InputKept
<1>2. /\ Len(home) \in Nat /\ DOMAIN home = 1..Len(home)
      /\ \A j \in 1..Len(home) : home[j] \in Nat /\ offsets[j] \in Nat
      /\ Len(sizes) \in Nat /\ DOMAIN sizes = 1..Len(sizes) /\ sizes \in Seq(Widths)
  BY LayoutTypes DEF Layout, TypeOK, LayoutTypeOK
<1>3. CASE UNCHANGED <<home, offsets, sizes>>
  BY <1>1, <1>3 DEF InferredSmallest
<1>4. CASE SkipOther
  <2>1. home' = Append(home, 0) /\ offsets' = Append(offsets, 0) /\ sizes' = sizes
    BY <1>4 DEF SkipOther
  <2>2. QED
    BY <1>1, <2>1, SmallestKept
<1>5. CASE PlaceField
  <2>1. sizes' = sizes
    BY <1>5 DEF PlaceField
  <2>2. ASSUME NEW offset \in Nat, Place(offset) PROVE InferredSmallest'
    <3>1. home' = Append(home, Len(sizes) + 1) /\ offsets' = Append(offsets, offset)
      BY <2>2 DEF Place
    <3>2. Len(sizes) + 1 \in Nat /\ Len(sizes) + 1 \notin 1..Len(sizes)
      BY <1>2
    <3>3. QED
      BY <1>1, <2>1, <2>2, <3>1, <3>2, SmallestKept
  <2>3. nbits \in Nat /\ fmt[i].offset \in Nat
    <3>1. fmt \in Seq(Field) /\ nbits \in Nat /\ i \in 1..(Len(fmt) + 1) /\ last \in 0..Len(fmt) /\ i <= last
      BY <1>5 DEF PlaceField, Layout, TypeOK, WalkTypeOK, LayoutTypeOK
    <3>2. Len(fmt) \in Nat /\ \A j \in 1..Len(fmt) : fmt[j].offset \in Nat
      BY <3>1, FieldTypes
    <3>3. QED
      BY <3>1, <3>2
  <2>4. QED
    BY <1>3, <1>5, <2>1, <2>2, <2>3 DEF PlaceField
<1>6. CASE PlaceDone /\ sizes' # sizes
  <2>1. /\ at = "place" /\ i > last /\ sizes' = Append(sizes, size) /\ home' = home /\ offsets' = offsets
    BY <1>6 DEF PlaceDone
  <2>2. /\ first \in 1..Len(fmt) /\ last \in first..Len(fmt) /\ i = last + 1 /\ Len(home) = last
        /\ size \in Widths /\ nbits \in Nat /\ Len(fmt) \in Nat
    <3>1. Walking /\ Counted /\ fmt \in Seq(Field) /\ nbits \in Nat /\ i \in Nat
      BY DEF Layout, TypeOK, WalkTypeOK, LayoutTypeOK
    <3>2. /\ first \in 1..Len(fmt) /\ last \in first..Len(fmt) /\ i \in first..(last + 1)
          /\ size \in Widths /\ Len(home) = i - 1
      BY <2>1, <3>1 DEF Walking, Counted
    <3>3. Len(fmt) \in Nat
      BY <3>1
    <3>4. i = last + 1
      BY <2>1, <3>2, <3>3
    <3>5. QED
      BY <3>1, <3>2, <3>3, <3>4
  <2>3. /\ DOMAIN sizes' = 1..(Len(sizes) + 1) /\ sizes'[Len(sizes) + 1] = size
        /\ \A g \in 1..Len(sizes) : sizes'[g] = sizes[g]
    BY <1>2, <2>1, <2>2
  <2>4. \A j \in first..last : j \in DOMAIN home /\ home[j] = Len(sizes) + 1
    BY <1>2, <2>1, <2>2 DEF Together
  <2>5. i - 1 = last /\ i > first /\ last \in first..last
    BY <2>2
  <2>6. home[last] = Len(sizes) + 1 /\ last \in DOMAIN home /\ offsets[last] + fmt[last].bits = nbits
    BY <2>1, <2>4, <2>5 DEF Together
  <2>7. ASSUME declared = 0, \A j \in DOMAIN home : home[j] = Len(sizes) + 1 => fmt[j].align = 0
        PROVE  size = 1 \/ nbits > 4 * size
    <3>1. Plain
      BY <2>4, <2>7 DEF Plain
    <3>2. PICK e : /\ Ends(e, last + 1) /\ nbits = e[i] /\ InOrder(e, i)
                   /\ Plain /\ InOrder(e, last + 1) => size = Container(e[last + 1])
      BY <2>1, <2>7 DEF Tight
    <3>3. size = Container(nbits)
      BY <2>2, <3>1, <3>2
    <3>4. QED
      BY <2>2, <3>3, ContainerSmallest
  <2>8. SUFFICES ASSUME NEW g \in 1..(Len(sizes) + 1), declared = 0,
                        \A j \in DOMAIN home : home[j] = g => fmt[j].align = 0
                 PROVE  \/ sizes'[g] = 1
                        \/ \E j \in DOMAIN home : home[j] = g /\ offsets[j] + fmt[j].bits > 4 * sizes'[g]
    BY <1>1, <2>1, <2>3 DEF InferredSmallest
  <2>9. CASE g \in 1..Len(sizes)
    BY <1>2, <2>3, <2>8, <2>9 DEF InferredSmallest
  <2>10. CASE g = Len(sizes) + 1
    BY <2>3, <2>6, <2>7, <2>8, <2>10
  <2>11. QED
    BY <1>2, <2>9, <2>10
<1>7. CASE PlaceDone /\ sizes' = sizes
  BY <1>3, <1>7 DEF PlaceDone
<1>8. CASE Next /\ ~SkipOther /\ ~PlaceField /\ ~PlaceDone
  BY <1>3, <1>8, LayoutKept
<1>9. CASE UNCHANGED vars
  BY <1>3, <1>9 DEF vars, layout
<1>10. QED
  BY <1>4, <1>5, <1>6, <1>7, <1>8, <1>9

LEMMA InitTight == Init => Tight /\ Together /\ InferredSmallest
<1> SUFFICES ASSUME Init PROVE Tight /\ Together /\ InferredSmallest
  OBVIOUS
<1>1. at = "group"
  BY DEF Init
<1>2. DOMAIN sizes = {}
  <2>1. sizes = <<>>
    BY DEF Init
  <2>2. QED
    BY <2>1
<1>3. QED
  BY <1>1, <1>2 DEF Tight, Together, InferredSmallest

(* A size inferred for fields without align is the smallest that holds     *)
(* them, whatever offsets leave unused between them.                       *)
THEOREM InferredSizeSmallest == Spec => []InferredSmallest
<1>1. Init => Layout /\ Sized /\ Encoded /\ Tight /\ Together /\ InferredSmallest
  BY InitLayout, InitSizedEncoded, InitTight
<1>2. Layout /\ Sized /\ Encoded /\ Tight /\ Together /\ InferredSmallest /\ [Next]_vars
      => (Layout /\ Sized /\ Encoded /\ Tight /\ Together /\ InferredSmallest)'
  BY StepLayout, StepSized, StepEncoded, StepTight, StepTogether, StepSmallest
<1>3. QED
  BY <1>1, <1>2, PTL DEF Spec
=============================================================================
