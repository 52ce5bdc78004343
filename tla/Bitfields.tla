----------------------------- MODULE Bitfields ------------------------------
(***************************************************************************)
(* Bit fields packed into integers: Bitfields(fmt) directly, or a mapping  *)
(* whose runs of Bitfield entries _group_bitfields turns into Bitfields.   *)
(* The constructor walks the fields twice, once to infer the size of the   *)
(* integer and once to place them; then values are encoded and decoded.    *)
(*                                                                         *)
(* An integer is the set of its one-bits: shifting moves the bits, masking *)
(* intersects, and | is union.                                             *)
(***************************************************************************)
EXTENDS Integers, Sequences

CONSTANTS Field,       \* the entries of a format: Bitfields, and other formats
          Fmts,        \* the formats explored: sequences of entries
          Declared,    \* the sizes a caller gives, in bytes; 0 for None
          Given        \* the values it encodes; their ones are a set of bits

Widths == {1, 2, 4, 8}

(* A Bitfield has at least one bit and fits the bucket its align names; an *)
(* entry of no bits stands for a format that is not a Bitfield.            *)
ASSUME BitfieldAssumption ==
    /\ \A f \in Field :
          /\ f.bits \in Nat /\ f.offset \in Nat
          /\ f.align \in Widths \cup {0}
          /\ f.align # 0 => f.offset + f.bits <= 8 * f.align
    /\ Fmts \subseteq Seq(Field)
    /\ Declared \subseteq Nat
    /\ \A v \in Given : v.kind \in {"missing", "negative", "natural"} /\ v.ones \subseteq Nat

IsBitfield(f) == f.bits > 0

VARIABLES entry,       \* "direct": Bitfields(fmt, size); "mapping": a mapping format
          fmt,         \* the fields, in order
          declared,    \* the size given to Bitfields
          at,          \* where the code is
          first, last, \* the fields of the Bitfields under construction
          i,           \* the loop index
          running, maxBits, forced, groupBits,    \* the locals of the sizing walk
          size, nbits, \* the size in bytes; the end of the last field placed
          home,        \* of each field placed the Bitfields it is in, counted from 1
          offsets,     \* and its entry of _offsets; both 0 for other formats
          sizes,       \* of each Bitfields built, its size
          given,       \* the values encoded, as sets of bits
          ints,        \* of each Bitfields, the integer encoded
          decoded,     \* the values decoded from those integers
          refusal      \* why an exception was raised

input == <<entry, fmt, declared>>
walk == <<running, maxBits, forced, groupBits>>
layout == <<home, offsets, sizes>>
data == <<given, ints, decoded>>
vars == <<input, at, first, last, i, walk, size, nbits, layout, data, refusal>>

Refuse(why) == at' = "refused" /\ refusal' = why

-----------------------------------------------------------------------------
(* Total bits are rounded up to bytes, and these to a power of two (0 for  *)
(* more than 8 bytes); SIZE_MAP has the sizes supported.                   *)
(* Wrong versions: a full container is too small; any size is supported.   *)
ContainerRoomy(bits) == IF bits < 8 THEN 1 ELSE IF bits < 16 THEN 2
                        ELSE IF bits < 32 THEN 4 ELSE IF bits < 64 THEN 8 ELSE 0
SupportedAny(bytes) == TRUE

Container(bits) == IF bits <= 8 THEN 1 ELSE IF bits <= 16 THEN 2
                   ELSE IF bits <= 32 THEN 4 ELSE IF bits <= 64 THEN 8 ELSE 0
Supported(bytes) == bytes \in Widths

(* The size a Bitfield has by itself, which sizeof adds up for a mapping.  *)
OwnSize(f) == Container(IF f.align # 0 THEN 8 * f.align ELSE f.offset + f.bits)

-----------------------------------------------------------------------------
(* The fields of the next Bitfields: all of them, or a run of Bitfield     *)
(* entries of which only the first has an align.                           *)
Joins(j) == j \in DOMAIN fmt /\ IsBitfield(fmt[j]) /\ fmt[j].align = 0

IsGroup(lo, hi) ==
    /\ hi \in lo..Len(fmt)
    /\ IF entry = "direct" THEN hi = Len(fmt)
       ELSE (\A j \in (lo + 1)..hi : Joins(j)) /\ ~Joins(hi + 1)

StartGroup ==
    /\ at = "group"
    /\ first \in DOMAIN fmt
    /\ IsBitfield(fmt[first])
    /\ \E hi \in DOMAIN fmt : IsGroup(first, hi) /\ last' = hi
    /\ i' = first
    /\ running' = 0
    /\ maxBits' = 0
    /\ nbits' = 0
    /\ size' = declared
    /\ IF declared = 0 THEN at' = "size" /\ UNCHANGED refusal
       ELSE IF Supported(declared) THEN at' = "place" /\ UNCHANGED refusal
       ELSE Refuse("unsupported")
    /\ UNCHANGED <<input, first, forced, groupBits, layout, data>>

SkipOther ==
    /\ at = "group"
    /\ first \in DOMAIN fmt
    /\ ~IsBitfield(fmt[first])
    /\ home' = Append(home, 0)
    /\ offsets' = Append(offsets, 0)
    /\ first' = first + 1
    /\ UNCHANGED <<input, at, last, i, walk, size, nbits, sizes, data, refusal>>

GroupsDone ==
    /\ at = "group"
    /\ first > Len(fmt)
    /\ at' = "encode"
    /\ i' = 1
    /\ ints' = [g \in DOMAIN sizes |-> {}]
    /\ UNCHANGED <<input, first, last, walk, size, nbits, layout, given, decoded, refusal>>

-----------------------------------------------------------------------------
(* The sizing walk.  A field with an offset ends there; the bits reserved  *)
(* before it still count.                                                  *)
Larger(a, b) == IF a < b THEN b ELSE a

SizeExplicit ==
    /\ at = "size"
    /\ i <= last
    /\ fmt[i].offset # 0
    /\ running' = fmt[i].offset + fmt[i].bits
    /\ maxBits' = Larger(maxBits, Larger(running, fmt[i].offset + fmt[i].bits))
    /\ i' = i + 1
    /\ UNCHANGED <<input, at, first, last, forced, groupBits, size, nbits, layout, data, refusal>>

(* Fields without an offset are taken a group at a time: only its first    *)
(* may have an align, which reserves the whole bucket.                     *)
Continues(j) == j \in first..last /\ fmt[j].offset = 0 /\ fmt[j].align = 0

SizeGroup ==
    /\ at = "size"
    /\ i <= last
    /\ fmt[i].offset = 0
    /\ forced' = fmt[i].align
    /\ groupBits' = fmt[i].bits
    /\ IF fmt[i].align # 0 /\ Continues(i - 1)
       THEN Refuse("align") /\ UNCHANGED i
       ELSE at' = "run" /\ i' = i + 1 /\ UNCHANGED refusal
    /\ UNCHANGED <<input, first, last, running, maxBits, size, nbits, layout, data>>

SizeContinue ==
    /\ at = "run"
    /\ Continues(i)
    /\ groupBits' = groupBits + fmt[i].bits
    /\ i' = i + 1
    /\ UNCHANGED <<input, at, first, last, running, maxBits, forced, size, nbits, layout, data, refusal>>

(* Wrong version: the bits before the group are forgotten.                 *)
SizeGroupAlone ==
    /\ at = "run"
    /\ ~Continues(i)
    /\ IF forced # 0 /\ groupBits > 8 * forced
       THEN Refuse("forced") /\ UNCHANGED running
       ELSE /\ running' = (IF forced # 0 THEN 8 * forced ELSE groupBits)
            /\ at' = "size"
            /\ UNCHANGED refusal
    /\ UNCHANGED <<input, first, last, i, maxBits, forced, groupBits, size, nbits, layout, data>>

SizeGroupEnd ==
    /\ at = "run"
    /\ ~Continues(i)
    /\ IF forced # 0 /\ groupBits > 8 * forced
       THEN Refuse("forced") /\ UNCHANGED running
       ELSE /\ running' = running + (IF forced # 0 THEN 8 * forced ELSE groupBits)
            /\ at' = "size"
            /\ UNCHANGED refusal
    /\ UNCHANGED <<input, first, last, i, maxBits, forced, groupBits, size, nbits, layout, data>>

SizeDone ==
    /\ at = "size"
    /\ i > last
    /\ size' = Container(Larger(maxBits, running))
    /\ i' = first
    /\ IF Supported(size') THEN at' = "place" /\ UNCHANGED refusal ELSE Refuse("unsupported")
    /\ UNCHANGED <<input, first, last, walk, nbits, layout, data>>

-----------------------------------------------------------------------------
(* Wrong version: the bits below an offset are not counted.                *)
PlaceUncounted(offset) ==
    /\ home' = Append(home, Len(sizes) + 1)
    /\ offsets' = Append(offsets, offset)
    /\ nbits' = nbits + fmt[i].bits
    /\ i' = i + 1
    /\ UNCHANGED <<at, refusal>>

(* The placing walk: a field follows the one before it unless it has an    *)
(* offset, which must not lie before the end of that one.                  *)
Place(offset) ==
    /\ home' = Append(home, Len(sizes) + 1)
    /\ offsets' = Append(offsets, offset)
    /\ nbits' = offset + fmt[i].bits
    /\ i' = i + 1
    /\ UNCHANGED <<at, refusal>>

PlaceField ==
    /\ at = "place"
    /\ i <= last
    /\ IF fmt[i].offset = 0 THEN Place(nbits)
       ELSE IF fmt[i].offset < nbits THEN Refuse("overlap") /\ UNCHANGED <<home, offsets, nbits, i>>
       ELSE Place(fmt[i].offset)
    /\ UNCHANGED <<input, first, last, walk, size, sizes, data>>

PlaceDone ==
    /\ at = "place"
    /\ i > last
    /\ IF nbits > 8 * size
       THEN Refuse("exceeds") /\ UNCHANGED <<sizes, first>>
       ELSE /\ sizes' = Append(sizes, size)
            /\ first' = last + 1
            /\ at' = "group"
            /\ UNCHANGED refusal
    /\ UNCHANGED <<input, last, i, walk, size, nbits, home, offsets, data>>

-----------------------------------------------------------------------------
Shift(bits, n) == {b + n : b \in bits}

(* Wrong version: the mask is one bit too wide.                            *)
InRangeOrOver(v, f) == v.kind = "natural" /\ v.ones \subseteq 0..f.bits

(* A value is there and within 0..mask.                                    *)
InRange(v, f) == v.kind = "natural" /\ v.ones \subseteq 0..(f.bits - 1)

(* encode_int: each value is shifted to its place.                         *)
EncodeField ==
    /\ at = "encode"
    /\ i \in DOMAIN fmt
    /\ IsBitfield(fmt[i])
    /\ \E v \in Given :
          IF InRange(v, fmt[i])
          THEN /\ given' = Append(given, v.ones)
               /\ ints' = [ints EXCEPT ![home[i]] = @ \cup Shift(v.ones, offsets[i])]
               /\ i' = i + 1
               /\ UNCHANGED <<at, refusal>>
          ELSE Refuse("value") /\ UNCHANGED <<given, ints, i>>
    /\ UNCHANGED <<input, first, last, walk, size, nbits, layout, decoded>>

EncodeOther ==
    /\ at = "encode"
    /\ i \in DOMAIN fmt
    /\ ~IsBitfield(fmt[i])
    /\ given' = Append(given, {})
    /\ i' = i + 1
    /\ UNCHANGED <<input, at, first, last, walk, size, nbits, layout, ints, decoded, refusal>>

(* Int.encode refuses an integer that needs more than its bytes.           *)
EncodeDone ==
    /\ at = "encode"
    /\ i > Len(fmt)
    /\ IF \A g \in DOMAIN ints : ints[g] \subseteq 0..(8 * sizes[g] - 1)
       THEN at' = "decode" /\ UNCHANGED refusal
       ELSE Refuse("overflow")
    /\ UNCHANGED <<input, first, last, i, walk, size, nbits, layout, data>>

(* _decode_bitfield: shift down, mask.  A bool and an enumeration are the  *)
(* integers they equal.                                                    *)
Extract(int, f, offset) == {b \in 0..(f.bits - 1) : b + offset \in int}

Decode ==
    /\ at = "decode"
    /\ decoded' = [j \in DOMAIN fmt |->
                     IF IsBitfield(fmt[j]) THEN Extract(ints[home[j]], fmt[j], offsets[j]) ELSE {}]
    /\ at' = "done"
    /\ UNCHANGED <<input, first, last, i, walk, size, nbits, layout, given, ints, refusal>>

Init ==
    /\ fmt \in Fmts
    /\ \/ entry = "mapping" /\ declared = 0
       \/ entry = "direct" /\ declared \in Declared /\ \A j \in DOMAIN fmt : IsBitfield(fmt[j])
    /\ at = "group"
    /\ first = 1 /\ last = 0 /\ i = 1
    /\ running = 0 /\ maxBits = 0 /\ forced = 0 /\ groupBits = 0
    /\ size = 0 /\ nbits = 0
    /\ home = <<>> /\ offsets = <<>> /\ sizes = <<>>
    /\ given = <<>> /\ ints = <<>> /\ decoded = <<>>
    /\ refusal = ""

Next == \/ StartGroup \/ SkipOther \/ GroupsDone
        \/ SizeExplicit \/ SizeGroup \/ SizeContinue \/ SizeGroupEnd \/ SizeDone
        \/ PlaceField \/ PlaceDone
        \/ EncodeField \/ EncodeOther \/ EncodeDone \/ Decode

Spec == Init /\ [][Next]_vars

-----------------------------------------------------------------------------
Phases == {"group", "size", "run", "place", "encode", "decode", "done", "refused"}
Reasons == {"", "unsupported", "align", "forced", "overlap", "exceeds", "value", "overflow"}

LayoutTypeOK ==
    /\ fmt \in Seq(Field)
    /\ home \in Seq(Nat) /\ offsets \in Seq(Nat)
    /\ Len(home) = Len(offsets) /\ Len(home) <= Len(fmt)
    /\ sizes \in Seq(Widths)
    /\ \A j \in DOMAIN home : home[j] <= Len(sizes) + 1

ControlTypeOK == entry \in {"direct", "mapping"} /\ at \in Phases /\ refusal \in Reasons

WalkTypeOK ==
    /\ declared \in Nat
    /\ first \in 1..(Len(fmt) + 1) /\ last \in 0..Len(fmt) /\ i \in 1..(Len(fmt) + 1)
    /\ running \in Nat /\ maxBits \in Nat /\ groupBits \in Nat /\ forced \in Widths \cup {0}
    /\ size \in Nat /\ nbits \in Nat

TypeOK == LayoutTypeOK /\ ControlTypeOK /\ WalkTypeOK

(* No two fields of one integer share a bit, and the fields of a finished  *)
(* Bitfields end within its bytes, whether the caller or the walk sized it.*)
FieldsDisjoint ==
    /\ \A j, k \in DOMAIN home :
          j < k /\ home[j] = home[k] /\ IsBitfield(fmt[j]) =>
              offsets[j] + fmt[j].bits <= offsets[k]
    /\ \A j \in DOMAIN home :
          home[j] \in DOMAIN sizes =>
              offsets[j] + fmt[j].bits <= 8 * sizes[home[j]]

(* The two walks agree: an inferred size always holds what is placed in    *)
(* it, and values in range never overflow the integer.                     *)
InferredFits == /\ refusal = "exceeds" => declared # 0
                /\ refusal # "overflow"

(* Without align the inferred size is the smallest supported one           *)
(* (docs/types-api.md): half of it would not hold the last field.          *)
InferredSmallest ==
    \A g \in DOMAIN sizes :
        declared = 0 /\ (\A j \in DOMAIN home : home[j] = g => fmt[j].align = 0) =>
            \/ sizes[g] = 1
            \/ \E j \in DOMAIN home : home[j] = g /\ offsets[j] + fmt[j].bits > 4 * sizes[g]

(* Decoding gives back the values encoded, of every field and whatever the *)
(* other fields of the integer hold.                                       *)
RoundTrip == at = "done" => decoded = given
=============================================================================
