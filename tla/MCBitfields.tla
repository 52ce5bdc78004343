---------------------------- MODULE MCBitfields -----------------------------
(***************************************************************************)
(* Model-checking instances of Bitfields.  Widths and offsets lie on both  *)
(* sides of a byte, of two bytes and of eight, and of each other.          *)
(***************************************************************************)
EXTENDS Bitfields

Bits(n, off, al) == [bits |-> n, offset |-> off, align |-> al]

Other == Bits(0, 0, 0)
Auto == {Bits(n, 0, 0) : n \in {1, 4, 8, 56}}
Explicit == {Bits(n, off, 0) : n \in {1, 4}, off \in {2, 7, 12, 63}}
Aligned == {Bits(n, 0, al) : n \in {4, 8}, al \in {1, 2}} \cup {Bits(1, 1, 4)}

AnyField == {Other} \cup Auto \cup Explicit \cup Aligned
AnyFmts == UNION {[1..n -> AnyField] : n \in 1..3}

(* Nothing, one bit, all bits, a bit too many, and what is refused.        *)
Natural(ones) == [kind |-> "natural", ones |-> ones]
AnyGiven == {Natural({}), Natural({0}), Natural(0..3), Natural(0..7), Natural({4}), Natural({8}),
             [kind |-> "missing", ones |-> {}], [kind |-> "negative", ones |-> {}]}
=============================================================================
