----------------------------- MODULE StreamCall -----------------------------
(***************************************************************************)
(* What fmtspec.stream promises of one I/O call, seen from its caller: a   *)
(* call either transfers every byte it was asked for or raises EOFError,   *)
(* and it happens at one instant.  How many raw calls the transfer takes,  *)
(* and which kind of stream is underneath, is not visible here; StreamIO   *)
(* implements this module.                                                 *)
(***************************************************************************)
EXTENDS Naturals

CONSTANT MaxSize       \* the largest transfer a caller asks for

VARIABLES request,     \* the call in progress, or the last one
          asked,       \* the number of bytes it asks for
          start,       \* the cursor when it was issued
          cursor,      \* the stream position its caller can observe
          outcome      \* "pending", "ok", "eof" or "none" before any call

vars == <<request, asked, start, cursor, outcome>>

Requests == {"read", "peek", "write", "seek_to"}

Init == /\ request = "read"
        /\ asked = 0
        /\ start = 0
        /\ cursor = 0
        /\ outcome = "none"

(* A caller issues the next call once the previous one has ended.          *)
Issue == /\ outcome # "pending"
         /\ request' \in Requests
         /\ asked' \in 0..MaxSize
         /\ start' = cursor
         /\ outcome' = "pending"
         /\ UNCHANGED cursor

(* Everything was transferred.  A read or a write leaves the cursor after  *)
(* its bytes; peek and seek_to give the cursor back where it was.          *)
Complete == /\ outcome = "pending"
            /\ outcome' = "ok"
            /\ cursor' = IF request \in {"peek", "seek_to"} THEN start ELSE start + asked
            /\ UNCHANGED <<request, asked, start>>

(* EOFError: fewer bytes than asked.  What was transferred before the end  *)
(* stays consumed, except under seek_to, whose finally clause rewinds.     *)
Fail == /\ outcome = "pending"
        /\ outcome' = "eof"
        /\ \E n \in 0..MaxSize :
              /\ n < asked
              /\ cursor' = IF request = "seek_to" THEN start ELSE start + n
        /\ UNCHANGED <<request, asked, start>>

Next == Issue \/ Complete \/ Fail

Spec == Init /\ [][Next]_vars
=============================================================================
