---------------------------- MODULE MsgPackCodec ----------------------------
(***************************************************************************)
(* One call of MsgPack.encode, and one of MsgPack.decode on what it wrote; *)
(* or a decode of bytes from elsewhere, as in MsgPack.  msgspec encodes a  *)
(* value in one piece; where a tree is asked for, or floats of four bytes, *)
(* MsgPack does so itself, value by value, onto the stream.                *)
(***************************************************************************)
EXTENDS MsgPack

CONSTANTS Given,       \* the values encoded
          Precisions,  \* float_precision: a subset of {4, 8}
          Floats,      \* the floats, each by its bytes: [single, double], where
                       \* what is too large for a single has none
          W32, W64,    \* the values of a word of four and of eight bytes
          Takes(_),    \* whether msgspec encodes a value
          Packs(_)     \* and the bytes it encodes it to

ASSUME CodecAssumption ==
    /\ Precisions \subseteq {4, 8}
    /\ W32 \in Nat /\ W64 \in Nat /\ 65536 < W32 /\ W32 < W64
    /\ \A x \in Given : Takes(x) => Packs(x) \in Seq(0..255)
    /\ \A i \in DOMAIN Floats :
          /\ Floats[i].double \in Seq(0..255) /\ Len(Floats[i].double) = 8
          /\ Floats[i].single \in Seq(0..255) /\ Len(Floats[i].single) \in {0, 4}

VARIABLES value, precision,
          traced,      \* whether encode builds an inspection tree
          encoding,    \* the calls of encode under way, the running one last
          out,         \* the bytes written
          encTree,     \* their inspection tree
          encOutcome   \* "skipped", "none", "ok" or the exception raised

encGiven == <<value, precision, traced>>
encoder == <<encGiven, encoding, out, encTree, encOutcome>>

(* The heads of MsgPackHeads.  TLC has no number that fills a word of four *)
(* bytes: it is given smaller ones, which nothing it encodes reaches.      *)
Word == INSTANCE MsgPackHeads WITH Unit <- 16, W16 <- 65536

TagOctet == [uint8 |-> 204, uint16 |-> 205, uint32 |-> 206, uint64 |-> 207,
             int8 |-> 208, int16 |-> 209, int32 |-> 210, int64 |-> 211,
             str8 |-> 217, str16 |-> 218, str32 |-> 219, bin8 |-> 196, bin16 |-> 197, bin32 |-> 198,
             array16 |-> 220, array32 |-> 221, map16 |-> 222, map32 |-> 223]

Arrays == {"list", "tuple"}
HeadKind(x) == IF x.t \in Arrays \cup {"set"} THEN "array" ELSE IF x.t = "dict" THEN "map" ELSE x.t

HeadOf(x) ==
    LET number == IF x.t = "int" THEN x.n
                  ELSE IF x.t \in {"str", "bin"} THEN Len(x.text)
                  ELSE IF x.t = "dict" THEN Len(x.xs) \div 2
                  ELSE Len(x.xs)
        h == Word!HeadFor(HeadKind(x), number)
    IN  IF h.tag = "fix" THEN <<h.word>>
        ELSE <<TagOctet[h.tag]>> \o BigEndian(number, Word!HeadSize(h.tag) - 1)

FloatOctets(n, width) == IF width = 8 THEN Floats[n].double ELSE Floats[n].single

(* encode, by type; a float is a tag and what its Float packs.             *)
Scalars == {"nil", "bool", "int", "float", "str", "bin"}
ScalarOctets(x, width) ==
    IF x.t = "nil" THEN <<192>>
    ELSE IF x.t = "bool" THEN <<194 + x.n>>
    ELSE IF x.t = "float" THEN <<IF width = 8 THEN 203 ELSE 202>> \o FloatOctets(x.n, width)
    ELSE HeadOf(x) \o x.text

-----------------------------------------------------------------------------
(* Calls of encode.  sizes are the nodes of what precedes the items,       *)
(* items those of the items, of a dict alternately keys and values.        *)
NewEncode(x) == [obj |-> x, at |-> "value", start |-> Len(out), i |-> 0, sizes |-> <<>>, items |-> <<>>]

Encoder == Last(encoding)
WithEncoder(C) == [encoding EXCEPT ![Len(encoding)] = C]
Encoding(where, types) ==
    encOutcome = "none" /\ Encoder.at = where /\ Encoder.obj.t \in types
Slowly == traced \/ precision = 4

Refuse(exc) == encOutcome' = exc /\ UNCHANGED <<encGiven, encoding, encTree, vars>>

EncodeFast ==
    /\ encOutcome = "none"
    /\ ~Slowly
    /\ IF Takes(value)
       THEN /\ out' = out \o Packs(value)
            /\ encoding' = <<>>
            /\ encOutcome' = "ok"
            /\ UNCHANGED <<encGiven, encTree, vars>>
       ELSE Refuse("TypeError") /\ UNCHANGED out

EncodeRefused ==
    /\ Slowly
    /\ Encoding("value", {"set", "object"})
    /\ Refuse("TypeError")
    /\ UNCHANGED out

(* The tag of a float is out before the float is refused.                  *)
TooLarge(x) == x.t = "float" /\ FloatOctets(x.n, precision) = <<>>
EncodeTooLarge ==
    /\ Slowly
    /\ Encoding("value", {"float"})
    /\ TooLarge(Encoder.obj)
    /\ out' = Append(out, 202)
    /\ Refuse("OverflowError")

SizeNode(x, start) ==
    LET width == Len(HeadOf(x)) - 1
    IN  IF traced /\ width > 0 THEN <<InspectNode(start + 1, width, <<>>)>> ELSE <<>>

(* A text behind a size of its own is a Sized: its node, in the BytesIO    *)
(* the text is encoded to, comes first and the size is put before it.      *)
TextNodes(x, start) ==
    IF SizeNode(x, start) = <<>> THEN <<>> ELSE SizeNode(x, start) \o <<InspectNode(0, Len(x.text), <<>>)>>

EncodeScalar ==
    /\ Slowly
    /\ Encoding("value", Scalars)
    /\ ~TooLarge(Encoder.obj)
    /\ out' = out \o ScalarOctets(Encoder.obj, precision)
    /\ encoding' = WithEncoder([Encoder EXCEPT
            !.at = "return",
            !.sizes = IF Encoder.obj.t \in {"str", "bin"} THEN TextNodes(Encoder.obj, Encoder.start) ELSE @])
    /\ UNCHANGED <<encGiven, encTree, encOutcome, vars>>

(* _encode_array, _encode_map: the number of items, or of pairs.           *)
EncodeContainer ==
    /\ Slowly
    /\ Encoding("value", Arrays \cup {"dict"})
    /\ out' = out \o HeadOf(Encoder.obj)
    /\ encoding' = WithEncoder([Encoder EXCEPT !.at = "items", !.sizes = SizeNode(Encoder.obj, Encoder.start)])
    /\ UNCHANGED <<encGiven, encTree, encOutcome, vars>>

(* Wrong version: the last item is left out.                               *)
EncodeItemShort ==
    /\ Encoding("items", Arrays \cup {"dict"})
    /\ Encoder.i < Len(Encoder.obj.xs)
    /\ encoding' = IF Encoder.i + 1 = Len(Encoder.obj.xs) THEN WithEncoder([Encoder EXCEPT !.at = "return"])
                   ELSE Append(encoding, NewEncode(Encoder.obj.xs[Encoder.i + 1]))
    /\ UNCHANGED <<encGiven, out, encTree, encOutcome, vars>>

EncodeItem ==
    /\ Encoding("items", Arrays \cup {"dict"})
    /\ Encoder.i < Len(Encoder.obj.xs)
    /\ encoding' = Append(encoding, NewEncode(Encoder.obj.xs[Encoder.i + 1]))
    /\ UNCHANGED <<encGiven, out, encTree, encOutcome, vars>>

(* The scope of a pair spans that of its key and that of its value.        *)
Pairs(nodes) ==
    [j \in 1 .. Len(nodes) \div 2 |->
        LET key == nodes[2 * j - 1]
            item == nodes[2 * j]
        IN  InspectNode(key.off, EndOf(item) - key.off, <<key, item>>)]

EncodeReturn ==
    /\ encOutcome = "none" /\ encoding # <<>>
    /\ Encoder.at = "return" \/ (Encoder.at = "items" /\ Encoder.i = Len(Encoder.obj.xs))
    /\ LET kids == Encoder.sizes \o IF Encoder.obj.t = "dict" THEN Pairs(Encoder.items) ELSE Encoder.items
           node == InspectNode(Encoder.start, Len(out) - Encoder.start, kids)
           rest == Front(encoding)
           caller == Last(rest)
       IN  IF rest = <<>>
           THEN /\ encoding' = <<>>
                /\ encTree' = IF traced THEN Normalize(node) ELSE encTree
                /\ encOutcome' = "ok"
           ELSE /\ encoding' = [rest EXCEPT ![Len(rest)] =
                        [caller EXCEPT !.i = @ + 1, !.items = IF traced THEN Append(@, node) ELSE @]]
                /\ UNCHANGED <<encTree, encOutcome>>
    /\ UNCHANGED <<encGiven, out, vars>>

-----------------------------------------------------------------------------
(* What was written is decoded, by a call of its own.                      *)
Refused == encOutcome \notin {"skipped", "none", "ok"}

DecodeAgain ==
    /\ encOutcome = "ok"
    /\ calls = <<>> /\ ~Ended
    /\ wire' = out
    /\ calls' = <<NewCall(setting, 0)>>
    /\ UNCHANGED <<stream, setting, inspect, pos, result, missed, encoder>>

CodecInit ==
    /\ encTree = InspectNode(0, 0, <<>>)
    /\ out = <<>>
    /\ \/ /\ Init
          /\ value = NilV /\ precision = 8 /\ traced = FALSE
          /\ encoding = <<>>
          /\ encOutcome = "skipped"
       \/ /\ Idle
          /\ wire = <<>> /\ calls = <<>>
          /\ value \in Given /\ precision \in Precisions /\ traced \in Inspects
          /\ encoding = <<NewEncode(value)>>
          /\ encOutcome = "none"

CodecNext ==
    \/ EncodeFast
    \/ EncodeRefused
    \/ EncodeTooLarge
    \/ EncodeScalar
    \/ EncodeContainer
    \/ EncodeItem
    \/ EncodeReturn
    \/ DecodeAgain
    \/ Next /\ UNCHANGED encoder
    \/ Refused /\ UNCHANGED <<vars, encoder>>

allVars == <<vars, encoder>>
CodecEnded == Ended \/ Refused

CodecSpec == CodecInit /\ [][CodecNext]_allVars

(* Nothing waits: a call runs until it returns or raises.  This is         *)
(* WF_allVars(CodecNext) with "a step is possible" written out, which TLC  *)
(* is much quicker to evaluate; that a step is possible until the end is   *)
(* what the deadlock check shows.                                          *)
CodecFairSpec == CodecSpec /\ ([]<>CodecEnded \/ []<><<CodecNext>>_allVars)

-----------------------------------------------------------------------------
CodecTypeOK ==
    /\ TypeOK
    /\ precision \in {4, 8} /\ traced \in BOOLEAN
    /\ out \in Seq(0..255)
    /\ encOutcome \in {"skipped", "none", "ok", "TypeError", "OverflowError"}
    /\ encOutcome = "none" => encoding # <<>>
    /\ \A i \in DOMAIN encoding :
          /\ encoding[i].at \in {"value", "items", "return"}
          /\ encoding[i].start \in 0..Len(out)
          /\ i < Len(encoding) => encoding[i].at = "items" /\ encoding[i].i < Len(encoding[i].obj.xs)

(* However the paths take turns, encode and decode end.                    *)
CallsReturn == <>CodecEnded
=============================================================================
