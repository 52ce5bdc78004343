-------------------------------- MODULE Asn1 --------------------------------
(***************************************************************************)
(* ASN.1 in tag-length-value form: a node is encoded to a stream and what  *)
(* was written decoded again, or bytes from elsewhere are decoded.  A node *)
(* that contains others encodes them into a BytesIO of its own, since its  *)
(* length comes first; it is decoded straight from the stream, up to the   *)
(* length it declares or up to a mark when it declares none.               *)
(***************************************************************************)
EXTENDS InspectNodes, Octets, FiniteSets

CONSTANTS Nodes,     \* what is encoded
          Wires,     \* what is decoded, apart from that
          Streams,   \* "file": seeks; "pipe": a ReadStreamWrapper, which cannot
          Inspects,  \* whether an inspection tree is built: a set of Booleans
          Bits,      \* no length, integer, tag or arc has more bits; a length
                     \* of more cannot be written, its octets are not counted
          Normalize(_)  \* what _normalize_inspect_tree makes of a tree

ASSUME Asn1Assumption ==
    /\ Wires \subseteq Seq(0..255)
    /\ Streams \subseteq {"file", "pipe"}
    /\ Inspects \subseteq BOOLEAN
    /\ Bits \in 1..1016

VARIABLES node, stream, inspect,
          encoding,  \* the calls of ASN1.encode under way, the running one last
          out,       \* what has been encoded
          encTree,   \* and its inspection tree
          wire,      \* the bytes to decode
          pos,       \* the position in them
          decoding,  \* the calls of ASN1.decode under way
          outcome,   \* "none", "encoded", "ok" or the exception raised
          val,       \* the node decoded
          tree       \* and its inspection tree

given == <<node, stream, inspect>>
encoder == <<encoding, out, encTree>>
decoder == <<wire, pos, decoding, val, tree>>
vars == <<given, encoder, decoder, outcome>>

-----------------------------------------------------------------------------
(* Nodes.  A value is an integer, a string of bytes, the arcs of an object *)
(* identifier, a bit string with its unused bits, or a list of nodes.      *)
Value(t, n, data, items) == [t |-> t, n |-> n, data |-> data, items |-> items]
IntV(n) == Value("int", n, <<>>, <<>>)
BoolV(n) == Value("bool", n, <<>>, <<>>)
NoneV == Value("none", 0, <<>>, <<>>)
BytesV(data) == Value("bytes", 0, data, <<>>)
TextV(data) == Value("text", 0, data, <<>>)
OidV(arcs) == Value("oid", 0, arcs, <<>>)
BitsV(unused, data) == Value("bits", unused, data, <<>>)
ListV(items) == Value("list", 0, <<>>, items)

Universal == 0
Boolean == 1  Integer == 2  BitString == 3  Null == 5  ObjectIdentifier == 6  Utf8String == 12
ConstructedTags == {16, 17}
AsciiStringTags == {19, 22, 23, 24}

Node(class, tag, constructed, value) ==
    [class |-> class, tag |-> tag, constructed |-> constructed, value |-> value]

(* Whether a node is constructed, where its author left that open.         *)
IsConstructed(N) ==
    \/ N.constructed = "yes"
    \/ N.constructed = "default" /\ N.class = Universal /\ N.tag \in ConstructedTags

-----------------------------------------------------------------------------
(* Numbers.  bit_length, and the fewest groups of so many bits.            *)
Magnitude(n) == IF n < 0 THEN -n ELSE n
BitLength(n) == Cardinality({k \in 0 .. Bits - 1 : Magnitude(n) >= 2 ^ k})

Base128(n) ==
    LET k == IF n = 0 THEN 1 ELSE (BitLength(n) + 6) \div 7
    IN  [i \in 1..k |-> ((n \div 128 ^ (k - i)) % 128) + IF i < k THEN 128 ELSE 0]

(* The number that starts behind p, and where it ends.                     *)
Number(n, end) == [ok |-> TRUE, n |-> n, end |-> end]
NoNumber == [ok |-> FALSE, n |-> 0, end |-> 0]
Ends128(w, p) == {i \in p + 1 .. Len(w) : w[i] < 128 /\ \A j \in p + 1 .. i - 1 : w[j] >= 128}
FromBase128(w, p) ==
    IF Ends128(w, p) = {} THEN NoNumber
    ELSE LET e == CHOOSE i \in Ends128(w, p) : TRUE
         IN  Number(FoldLeft(LAMBDA n, b : 128 * n + (b % 128), 0, SubSeq(w, p + 1, e)), e)

(* ASN1Tag: the low five bits of the tag in one octet, then the whole tag  *)
(* in more of them if it is 31 or above.                                   *)
TagOctets(class, tag, constructed) ==
    <<64 * class + (IF constructed THEN 32 ELSE 0) + (tag % 32)>>
        \o IF tag >= 31 THEN Base128(tag) ELSE <<>>

TagAt(w, p) ==
    IF p >= Len(w) THEN NoNumber
    ELSE IF w[p + 1] % 32 < 31 THEN Number(w[p + 1] % 32, p + 1)
    ELSE FromBase128(w, p + 1)

(* Wrong version: 128 in one octet, which stands for no length.            *)
LengthOctetsShort(n) ==
    IF n <= 128 THEN <<n>>
    ELSE LET k == (BitLength(n) + 7) \div 8 IN <<128 + k>> \o BigEndian(n, k)

(* ASN1Length: one octet, or the number of octets and these; -1 for None.  *)
LengthOctets(n) ==
    IF n < 128 THEN <<n>>
    ELSE LET k == (BitLength(n) + 7) \div 8 IN <<128 + k>> \o BigEndian(n, k)

LengthAt(w, p) ==
    IF p >= Len(w) THEN NoNumber
    ELSE IF w[p + 1] = 128 THEN Number(-1, p + 1)
    ELSE IF w[p + 1] < 128 THEN Number(w[p + 1], p + 1)
    ELSE LET e == p + 1 + (w[p + 1] % 128)
         IN  IF e > Len(w) THEN NoNumber ELSE Number(Unsigned(SubSeq(w, p + 2, e)), e)

(* _encode_int_twos_complement.                                            *)
IntOctets(n) == BigEndian(n, IF n = 0 THEN 1 ELSE (BitLength(n) + 8) \div 8)

(* Wrong version: the first octet is not bounded.                          *)
OidEncodableWide(arcs) == Len(arcs) >= 2 /\ arcs[1] <= 2 /\ (arcs[1] < 2 => arcs[2] < 40)

(* _encode_oid and _decode_oid.                                            *)
OidEncodable(arcs) ==
    /\ Len(arcs) >= 2
    /\ arcs[1] <= 2
    /\ arcs[1] < 2 => arcs[2] < 40
    /\ 40 * arcs[1] + arcs[2] < 256
OidOctets(arcs) ==
    <<40 * arcs[1] + arcs[2]>> \o FlattenSeq([i \in 1 .. Len(arcs) - 2 |-> Base128(arcs[i + 2])])

OidFirst(byte) == IF byte \div 40 < 2 THEN byte \div 40 ELSE 2
OidComplete(data) == Len(data) = 1 \/ Last(data) < 128
OidArcs(data) ==
    LET last == SelectSeq([i \in DOMAIN data |-> i], LAMBDA i : i > 1 /\ data[i] < 128)
        Start(k) == IF k = 1 THEN 1 ELSE last[k - 1]
    IN  <<OidFirst(data[1]), data[1] - 40 * OidFirst(data[1])>>
            \o [k \in DOMAIN last |-> FromBase128(data, Start(k)).n]

-----------------------------------------------------------------------------
(* What a primitive node holds: the exception encoding its value raises,   *)
(* or the bytes it is encoded to.  Other tags take what bytes() takes, an  *)
(* integer or a bool too, which makes so many zeros, and an empty list.    *)
(* "text" is no text of arcs; those are "oid".                             *)
IsBytes(V) == V.t = "bytes" \/ (V.t \in {"int", "bool"} /\ V.n >= 0) \/ V = ListV(<<>>)
AsBytes(V) == IF V.t \in {"int", "bool"} THEN [i \in 1..V.n |-> 0] ELSE V.data

EncodeError(N) ==
    LET V == N.value
        Wants(types) == IF V.t \in types THEN "none" ELSE "TypeError"
        ByBytes == IF IsBytes(V) THEN "none" ELSE IF V.t \in {"int", "bool"} THEN "ValueError" ELSE "TypeError"
    IN  CASE IsConstructed(N) -> Wants({"list"})
          [] ~IsConstructed(N) /\ N.class # Universal -> ByBytes
          [] ~IsConstructed(N) /\ N.class = Universal ->
                CASE N.tag = Boolean -> "none"
                  [] N.tag = Integer -> Wants({"int", "bool"})
                  [] N.tag = Null -> Wants({"none"})
                  [] N.tag \in AsciiStringTags \cup {Utf8String} ->
                        IF V.t # "text" THEN "TypeError"
                        ELSE IF N.tag = Utf8String \/ \A i \in DOMAIN V.data : V.data[i] < 128 THEN "none"
                        ELSE "UnicodeEncodeError"
                  [] N.tag = ObjectIdentifier ->
                        IF V.t \notin {"oid", "text"} THEN "TypeError"
                        ELSE IF V.t = "oid" /\ OidEncodable(V.data) THEN "none" ELSE "ValueError"
                  [] N.tag = BitString ->
                        IF V.t = "bits" THEN IF V.n \in 0..7 THEN "none" ELSE "ValueError" ELSE ByBytes
                  [] OTHER -> ByBytes

IsTrue(V) == V.n # 0 \/ V.data # <<>> \/ V.items # <<>>
PrimitiveOctets(N) ==
    LET V == N.value
    IN  IF N.class # Universal THEN AsBytes(V)
        ELSE CASE N.tag = Boolean -> IF IsTrue(V) THEN <<255>> ELSE <<0>>
               [] N.tag = Integer -> IntOctets(V.n)
               [] N.tag = Null -> <<>>
               [] N.tag \in AsciiStringTags \cup {Utf8String} -> V.data
               [] N.tag = ObjectIdentifier -> OidOctets(V.data)
               [] N.tag = BitString -> IF V.t = "bits" THEN <<V.n>> \o V.data ELSE <<0>> \o AsBytes(V)
               [] OTHER -> AsBytes(V)

(* _decode_universal_primitive, and the bytes of any other class.          *)
DecodeError(class, tag, data) ==
    IF class # Universal THEN "none"
    ELSE CASE tag = Boolean -> IF Len(data) = 1 THEN "none" ELSE "ValueError"
           [] tag \in {Integer, BitString} -> IF data # <<>> THEN "none" ELSE "ValueError"
           [] tag = Null -> IF data = <<>> THEN "none" ELSE "ValueError"
           [] tag = ObjectIdentifier ->
                IF data = <<>> THEN "ValueError" ELSE IF OidComplete(data) THEN "none" ELSE "EOFError"
           [] tag = Utf8String -> IF IsText(data) THEN "none" ELSE "UnicodeDecodeError"
           [] tag \in AsciiStringTags ->
                IF \A i \in DOMAIN data : data[i] < 128 THEN "none" ELSE "UnicodeDecodeError"
           [] OTHER -> "none"

PrimitiveValue(class, tag, data) ==
    IF class # Universal THEN BytesV(data)
    ELSE CASE tag = Boolean -> BoolV(IF data = <<0>> THEN 0 ELSE 1)
           [] tag = Integer -> IntV(Signed(data))
           [] tag = BitString -> BitsV(data[1], Tail(data))
           [] tag = Null -> NoneV
           [] tag = ObjectIdentifier -> OidV(OidArcs(data))
           [] tag \in AsciiStringTags \cup {Utf8String} -> TextV(data)
           [] OTHER -> BytesV(data)

-----------------------------------------------------------------------------
(* Encoding.  The call for a constructed node holds the BytesIO of its     *)
(* items and the nodes of their inspection scopes; every other octet goes  *)
(* to the BytesIO of the caller, or to the stream for the outermost call.  *)
NewEncode(N) == [node |-> N, buf |-> <<>>, inner |-> <<>>, i |-> 1]

Encoding == outcome = "none" /\ encoding # <<>>
Encoder == Last(encoding)
Enclosing == IF Len(encoding) = 1 THEN out ELSE encoding[Len(encoding) - 1].buf

Raise(exc) == outcome' = exc

EncodeRefused ==
    /\ Encoding
    /\ Raise(EncodeError(Encoder.node))
    /\ EncodeError(Encoder.node) # "none"
    /\ UNCHANGED <<given, encoder, decoder>>

InItems == EncodeError(Encoder.node) = "none" /\ IsConstructed(Encoder.node)

(* _encode_constructed_body_with_nodes: the next item.                     *)
EncodeItem ==
    /\ Encoding
    /\ InItems
    /\ Encoder.i <= Len(Encoder.node.value.items)
    /\ encoding' = Append(encoding, NewEncode(Encoder.node.value.items[Encoder.i]))
    /\ UNCHANGED <<given, out, encTree, decoder, outcome>>

(* Tag, length and body follow each other, and the call returns.           *)
EncodeNode ==
    /\ Encoding
    /\ EncodeError(Encoder.node) = "none"
    /\ InItems => Encoder.i > Len(Encoder.node.value.items)
    /\ LET N == Encoder.node
           body == IF IsConstructed(N) THEN Encoder.buf ELSE PrimitiveOctets(N)
           tag == TagOctets(N.class, N.tag, IsConstructed(N))
           length == LengthOctets(Len(body))
           written == Enclosing \o tag \o length \o body
           start == Len(Enclosing)
           inside == start + Len(tag) + Len(length)
           kids == <<InspectNode(start, Len(tag), <<>>), InspectNode(start + Len(tag), Len(length), <<>>)>>
                      \o IF Encoder.inner # <<>> THEN Encoder.inner
                         ELSE <<InspectNode(inside, Len(body), <<>>)>>
           scope == InspectNode(start, Len(written) - start, IF inspect THEN kids ELSE <<>>)
           rest == Front(encoding)
           caller == Last(rest)
       IN  IF rest = <<>>
           THEN /\ out' = written
                /\ encoding' = <<>>
                /\ encTree' = Normalize(scope)
                /\ outcome' = "encoded"
           ELSE /\ encoding' = [rest EXCEPT ![Len(rest)] =
                        [caller EXCEPT !.buf = written, !.i = @ + 1,
                                       !.inner = IF inspect THEN Append(@, scope) ELSE @]]
                /\ UNCHANGED <<out, encTree, outcome>>
    /\ UNCHANGED <<given, decoder>>

-----------------------------------------------------------------------------
(* Decoding.  at: before the tag and the length, in the value, at the end. *)
NewDecode(p) ==
    [at |-> "head", start |-> p, class |-> 0, tag |-> 0, constructed |-> FALSE,
     length |-> 0, end |-> 0, items |-> <<>>, kids |-> <<>>, value |-> NoneV]

Decoding(where) == outcome = "none" /\ decoding # <<>> /\ Last(decoding).at = where
Decoder == Last(decoding)
WithDecoder(C) == [decoding EXCEPT ![Len(decoding)] = C]
WithLeaf(C, start, end) == IF inspect THEN [C EXCEPT !.kids = Append(@, InspectNode(start, end - start, <<>>))] ELSE C

(* The octets just encoded are decoded, by a call of their own.            *)
DecodeAgain ==
    /\ outcome = "encoded"
    /\ outcome' = "none"
    /\ wire' = out
    /\ decoding' = <<NewDecode(0)>>
    /\ UNCHANGED <<given, encoder, pos, val, tree>>

RaiseAt(p, exc) == pos' = p /\ outcome' = exc /\ UNCHANGED decoding

DecodeHead ==
    /\ Decoding("head")
    /\ LET tag == TagAt(wire, pos)
           length == LengthAt(wire, tag.end)
           octet == wire[pos + 1]
           named == [Decoder EXCEPT
                        !.at = "value", !.class = octet \div 64, !.tag = tag.n,
                        !.constructed = (octet \div 32) % 2 = 1,
                        !.length = length.n, !.end = length.end + length.n]
       IN  IF ~tag.ok \/ ~length.ok THEN RaiseAt(Len(wire), "EOFError")
           ELSE /\ pos' = length.end
                /\ decoding' = WithDecoder(WithLeaf(WithLeaf(named, pos, tag.end), tag.end, length.end))
                /\ UNCHANGED outcome
    /\ UNCHANGED <<given, encoder, wire, val, tree>>

DecodePrimitive ==
    /\ Decoding("value")
    /\ ~Decoder.constructed
    /\ LET data == SubSeq(wire, pos + 1, Decoder.end)
           error == DecodeError(Decoder.class, Decoder.tag, data)
           done == [Decoder EXCEPT !.at = "return", !.value = PrimitiveValue(Decoder.class, Decoder.tag, data)]
       IN  IF Decoder.length = -1 THEN RaiseAt(pos, "ValueError")
           ELSE IF Decoder.end > Len(wire) THEN RaiseAt(Len(wire), "EOFError")
           ELSE IF error # "none" THEN RaiseAt(Decoder.end, error)
           ELSE /\ pos' = Decoder.end
                /\ decoding' = WithDecoder(WithLeaf(done, pos, Decoder.end))
                /\ UNCHANGED outcome
    /\ UNCHANGED <<given, encoder, wire, val, tree>>

InItemsOf(indefinite) ==
    Decoding("value") /\ Decoder.constructed /\ (Decoder.length = -1) = indefinite
ListOf(C) == [C EXCEPT !.at = "return", !.value = ListV(C.items)]

(* _decode_constructed_items: items as long as the end is not reached.     *)
DecodeItem ==
    /\ InItemsOf(FALSE)
    /\ pos < Decoder.end
    /\ decoding' = Append(decoding, NewDecode(pos))
    /\ UNCHANGED <<given, encoder, wire, pos, val, tree, outcome>>

(* Wrong version: an item may end behind the end.                          *)
DecodeItemsEndLax ==
    /\ InItemsOf(FALSE)
    /\ pos >= Decoder.end
    /\ decoding' = WithDecoder(ListOf(Decoder))
    /\ UNCHANGED <<given, encoder, wire, pos, val, tree, outcome>>

DecodeItemsEnd ==
    /\ InItemsOf(FALSE)
    /\ pos >= Decoder.end
    /\ IF pos # Decoder.end THEN RaiseAt(pos, "ValueError")
       ELSE decoding' = WithDecoder(ListOf(Decoder)) /\ UNCHANGED <<pos, outcome>>
    /\ UNCHANGED <<given, encoder, wire, val, tree>>

(* _decode_constructed_items_greedy: peek tells the mark from an item, but *)
(* a stream that cannot seek stays behind what it peeked at.               *)
AfterPeek == IF stream = "file" THEN pos ELSE pos + 2
DecodeGreedyItem ==
    /\ InItemsOf(TRUE)
    /\ IF pos + 2 > Len(wire) THEN RaiseAt(Len(wire), "EOFError")
       ELSE IF SubSeq(wire, pos + 1, pos + 2) # <<0, 0>>
       THEN /\ pos' = AfterPeek
            /\ decoding' = Append(decoding, NewDecode(AfterPeek))
            /\ UNCHANGED outcome
       ELSE IF AfterPeek + 2 > Len(wire) THEN RaiseAt(Len(wire), "EOFError")
       ELSE /\ pos' = AfterPeek + 2
            /\ decoding' = WithDecoder(WithLeaf(ListOf(Decoder), AfterPeek, AfterPeek + 2))
            /\ UNCHANGED outcome
    /\ UNCHANGED <<given, encoder, wire, val, tree>>

ReturnNode ==
    /\ Decoding("return")
    /\ LET N == Node(Decoder.class, Decoder.tag, IF Decoder.constructed THEN "yes" ELSE "no", Decoder.value)
           scope == InspectNode(Decoder.start, pos - Decoder.start, Decoder.kids)
           rest == Front(decoding)
           caller == Last(rest)
       IN  IF rest = <<>>
           THEN /\ val' = N
                /\ tree' = Normalize(scope)
                /\ decoding' = <<>>
                /\ outcome' = "ok"
           ELSE /\ decoding' = [rest EXCEPT ![Len(rest)] =
                        [caller EXCEPT !.items = Append(@, N),
                                       !.kids = IF inspect THEN Append(@, scope) ELSE @]]
                /\ UNCHANGED <<val, tree, outcome>>
    /\ UNCHANGED <<given, encoder, wire, pos>>

-----------------------------------------------------------------------------
NoNode == Node(0, 0, "no", NoneV)
NoTree == InspectNode(0, 0, <<>>)

(* Either a node is encoded, then decoded again, or a wire is decoded.     *)
Init ==
    /\ stream \in Streams
    /\ inspect \in Inspects
    /\ inspect => stream = "file"   \* decode_inspect is given bytes
    /\ \/ node \in Nodes /\ wire = <<>> /\ encoding = <<NewEncode(node)>> /\ decoding = <<>>
       \/ node = NoNode /\ wire \in Wires /\ encoding = <<>> /\ decoding = <<NewDecode(0)>>
    /\ out = <<>> /\ pos = 0 /\ outcome = "none" /\ val = NoNode
    /\ encTree = NoTree /\ tree = NoTree

Ended == outcome \notin {"none", "encoded"}
Terminated == Ended /\ UNCHANGED vars

Next ==
    \/ EncodeRefused
    \/ EncodeItem
    \/ EncodeNode
    \/ DecodeAgain
    \/ DecodeHead
    \/ DecodePrimitive
    \/ DecodeItem
    \/ DecodeItemsEnd
    \/ DecodeGreedyItem
    \/ ReturnNode
    \/ Terminated

Spec == Init /\ [][Next]_vars

-----------------------------------------------------------------------------
TypeOK ==
    /\ node \in Nodes \cup {NoNode} /\ stream \in Streams /\ inspect \in Inspects
    /\ out \in Seq(0..255) /\ wire \in Seq(0..255)
    /\ pos \in 0 .. Len(wire)
    /\ outcome \in {"none", "encoded", "ok", "EOFError", "ValueError", "TypeError", "UnicodeDecodeError", "UnicodeEncodeError"}
    /\ \A c \in Range(encoding) : c.buf \in Seq(0..255) /\ c.i >= 1
    /\ \A c \in Range(decoding) : c.at \in {"head", "value", "return"} /\ c.start \in 0 .. pos
    /\ outcome = "none" => (encoding = <<>>) # (decoding = <<>>)

-----------------------------------------------------------------------------
(* The rules of the encoding, read as a grammar: the node that starts      *)
(* behind p and where it ends, given the items that start behind each      *)
(* place further on; and these items, up to a place or, for -1, a mark.    *)
Parsed(value, end) == [ok |-> TRUE, value |-> value, end |-> end]
NotParsed == [ok |-> FALSE, value |-> NoneV, end |-> 0]

NodeAt(w, p, items) ==
    LET tag == TagAt(w, p)
        length == LengthAt(w, tag.end)
        class == w[p + 1] \div 64
        constructed == (w[p + 1] \div 32) % 2 = 1
        end == length.end + length.n
        data == SubSeq(w, length.end + 1, end)
        body == IF constructed THEN items[length.end][IF length.n = -1 THEN -1 ELSE end]
                ELSE IF length.n = -1 \/ end > Len(w) \/ DecodeError(class, tag.n, data) # "none" THEN NotParsed
                ELSE Parsed(PrimitiveValue(class, tag.n, data), end)
    IN  IF ~tag.ok \/ ~length.ok \/ ~body.ok THEN NotParsed
        ELSE Parsed(Node(class, tag.n, IF constructed THEN "yes" ELSE "no", body.value), body.end)

MarkAt(w, p) == p + 2 <= Len(w) /\ SubSeq(w, p + 1, p + 2) = <<0, 0>>
ItemsAt(w, p, end, items) ==
    IF p = end THEN Parsed(ListV(<<>>), p)
    ELSE IF end = -1 /\ MarkAt(w, p) THEN Parsed(ListV(<<>>), p + 2)
    ELSE LET first == NodeAt(w, p, items)
             rest == items[first.end][end]
         IN  IF ~first.ok \/ (end >= 0 /\ first.end > end) \/ ~rest.ok THEN NotParsed
             ELSE Parsed(ListV(<<first.value>> \o rest.value.items), rest.end)

Grammar(w) ==
    LET items[p \in 0 .. Len(w)] == [end \in Int |-> ItemsAt(w, p, end, items)] IN items

First == NodeAt(wire, 0, Grammar(wire))
MayPeek(w) == \E i \in DOMAIN w : w[i] = 128

(* Exactly the well-formed is decoded, to what it says: an item that       *)
(* reaches past the end its container declares is refused however deep it  *)
(* lies, and the stream is left right behind the node.  On a stream that   *)
(* cannot seek this holds where every length is declared.                  *)
DecodesWellFormed ==
    /\ Ended
    /\ stream = "file" \/ ~MayPeek(wire)
    => /\ outcome = "ok" <=> First.ok
       /\ outcome = "ok" => val = First.value /\ pos = First.end
=============================================================================
