--------------------------- MODULE MCMsgPackWords ---------------------------
(* Words small enough to enumerate: half a byte has one value, a byte 16,  *)
(* and the longer words 32, 64 and 128.                                    *)
EXTENDS MsgPackWords

EveryBoundary == -66..130
=============================================================================
