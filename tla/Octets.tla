------------------------------- MODULE Octets -------------------------------
(***************************************************************************)
(* Sequences of bytes as numbers and as texts.                             *)
(***************************************************************************)
EXTENDS Integers, Sequences, SequencesExt

(* A function and not a fold, so that it can be proved about.              *)
Unsigned(data) ==
    LET first[k \in 0..Len(data)] == IF k = 0 THEN 0 ELSE 256 * first[k - 1] + data[k]
    IN  first[Len(data)]
Signed(data) == IF data[1] < 128 THEN Unsigned(data)
                ELSE FoldLeft(LAMBDA n, b : 256 * n + b, data[1] - 256, Tail(data))

(* The k bytes of n, the most significant first; of a negative n those of  *)
(* its two's complement.                                                   *)
BigEndian(n, k) == [i \in 1..k |-> (n \div 256 ^ (k - i)) % 256]

(* UTF-8 of one and two bytes; no input holds any of more.                 *)
Follows(data, i) == i > 1 /\ data[i] \in 128..191 /\ data[i - 1] \in 194..223
IsText(data) ==
    \A i \in DOMAIN data :
        \/ data[i] < 128
        \/ Follows(data, i)
        \/ data[i] \in 194..223 /\ i < Len(data) /\ Follows(data, i + 1)
=============================================================================
