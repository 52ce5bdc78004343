------------------------------ MODULE StreamIO ------------------------------
(***************************************************************************)
(* fmtspec.stream: read_exactly, write_all, peek and seek_to over a raw    *)
(* stream that may transfer fewer bytes than asked, or none.  One action   *)
(* is one call of the raw stream, so that the loops are interleaved with   *)
(* every choice the raw stream can make.                                   *)
(***************************************************************************)
EXTENDS Naturals, Sequences

CONSTANTS Byte,        \* the byte values
          Files,       \* the contents a stream may hold
          Payloads,    \* the buffers a caller may write
          MaxSize,     \* the largest read a caller asks for
          MaxOffset,   \* the largest absolute offset given to seek_to
          MaxCursor    \* bound: no call starts once the cursor is past it

ASSUME StreamAssumption ==
    /\ Files \subseteq Seq(Byte)
    /\ Payloads \subseteq Seq(Byte)
    /\ MaxSize \in Nat
    /\ MaxOffset \in Nat
    /\ MaxCursor \in Nat
    /\ \A p \in Payloads : Len(p) <= MaxSize

VARIABLES kind,        \* "bytesio", "readinto" (raw file), "read" (no readinto)
          session,     \* "decode" only reads its stream, "encode" only writes
          file,        \* the bytes of the stream being read
          payload,     \* the argument of write_all
          sink,        \* the bytes the current write_all has written
          request,     \* the helper that was called
          asked,       \* its size argument, or the length of the payload
          start,       \* the cursor when it was called
          from,        \* the position its first byte is transferred at
          pos,         \* the position of the stream
          n,           \* the helper's progress counter
          out,         \* the part of its result buffer filled so far
          outcome      \* "none", "pending", "ok", "eof"

vars == <<kind, session, file, payload, sink, request, asked, start, from, pos, n, out, outcome>>

Kinds == {"bytesio", "readinto", "read"}
Readers == {"read", "peek", "seek_to"}

Init == /\ kind \in Kinds
        /\ session \in {"decode", "encode"}
        /\ file \in Files
        /\ payload \in Payloads
        /\ sink = <<>>
        /\ request = "read"
        /\ asked = 0
        /\ start = 0
        /\ from = 0
        /\ pos = 0
        /\ n = 0
        /\ out = <<>>
        /\ outcome = "none"

(* A helper is called.  seek_to moves to its offset before its body runs;  *)
(* the body modelled is the read_exactly of one field.                     *)
Call(r, size, at) ==
    /\ outcome # "pending"
    /\ pos <= MaxCursor
    /\ request' = r
    /\ asked' = size
    /\ start' = pos
    /\ from' = at
    /\ pos' = at
    /\ n' = 0
    /\ out' = <<>>
    /\ sink' = <<>>
    /\ outcome' = "pending"
    /\ UNCHANGED <<kind, session, file>>

CallRead == /\ session = "decode"
            /\ \E r \in {"read", "peek"}, size \in 0..MaxSize : Call(r, size, pos)
            /\ UNCHANGED payload

CallSeekTo == /\ session = "decode"
              /\ \E size \in 0..MaxSize, offset \in 0..MaxOffset : Call("seek_to", size, offset)
              /\ UNCHANGED payload

CallWrite == /\ session = "encode"
             /\ \E p \in Payloads : payload' = p /\ Call("write", Len(p), pos)

(* The bytes left between the cursor and the end; a cursor moved past the  *)
(* end reads nothing.                                                      *)
Available == IF pos < Len(file) THEN Len(file) - pos ELSE 0

(* Wrong versions: each chunk is taken from where the transfer began; only *)
(* the last chunk is kept.                                                 *)
FilledAgain(c) == [i \in 1..(n + c) |-> IF i <= n THEN out[i] ELSE file[from + i - n]]
FilledLast(c) == SubSeq(file, pos + 1, pos + c)

(* The result buffer with the next c bytes stored behind the first n.      *)
Filled(c) == [i \in 1..(n + c) |-> IF i <= n THEN out[i] ELSE file[pos + i - n]]

Reading == outcome = "pending" /\ request \in Readers
Writing == outcome = "pending" /\ request = "write"

(* The BytesIO fast path: one read returns everything there is, up to the  *)
(* size, and a short result is an EOFError at once.                        *)
ReadAtOnce ==
    /\ Reading
    /\ kind = "bytesio"
    /\ n = 0
    /\ asked > 0
    /\ \E c \in 0..asked :
          /\ c = (IF asked <= Available THEN asked ELSE Available)
          /\ pos' = IF c < asked /\ request = "seek_to" THEN start ELSE pos + c
          /\ n' = c
          /\ out' = Filled(c)
          /\ outcome' = IF c < asked THEN "eof" ELSE "pending"
    /\ UNCHANGED <<kind, session, file, payload, sink, request, asked, start, from>>

(* readinto or read returns between one byte and what was asked for.       *)
ReadChunk ==
    /\ Reading
    /\ kind # "bytesio"
    /\ n < asked
    /\ \E c \in 1..(asked - n) :
          /\ c <= Available
          /\ pos' = pos + c
          /\ n' = n + c
          /\ out' = Filled(c)
    /\ UNCHANGED <<kind, session, file, payload, sink, request, asked, start, from, outcome>>

(* Wrong versions: the finally clause is missing; the read is retried.     *)
ReadNothingStays ==
    /\ Reading
    /\ kind # "bytesio"
    /\ n < asked
    /\ outcome' = "eof"
    /\ UNCHANGED <<kind, session, file, payload, sink, request, asked, start, from, pos, n, out>>

ReadNothingRetries == Reading /\ kind # "bytesio" /\ n < asked /\ UNCHANGED vars

(* It returns 0, b"" or None: the end of the stream, or a non-blocking     *)
(* stream with nothing ready.  The helper raises; only seek_to rewinds.    *)
ReadNothing ==
    /\ Reading
    /\ kind # "bytesio"
    /\ n < asked
    /\ outcome' = "eof"
    /\ pos' = IF request = "seek_to" THEN start ELSE pos
    /\ UNCHANGED <<kind, session, file, payload, sink, request, asked, start, from, n, out>>

(* All bytes are there: peek seeks back by its size, seek_to to the saved  *)
(* position, and the helper returns.                                       *)
ReadDone ==
    /\ Reading
    /\ n = asked
    /\ outcome' = "ok"
    /\ pos' = IF request = "peek" THEN pos - asked
              ELSE IF request = "seek_to" THEN start ELSE pos
    /\ UNCHANGED <<kind, session, file, payload, sink, request, asked, start, from, n, out>>

(* Wrong version: each write begins at the start of the payload again.     *)
WriteFromStart ==
    /\ Writing
    /\ n < asked
    /\ \E c \in 1..(asked - n) :
          /\ kind = "bytesio" => c = asked - n
          /\ sink' = [i \in 1..(n + c) |-> IF i <= n THEN sink[i] ELSE payload[i - n]]
          /\ pos' = pos + c
          /\ n' = n + c
    /\ UNCHANGED <<kind, session, file, payload, request, asked, start, from, out, outcome>>

(* write(mv[n:]) takes at least one byte of what is left of the payload; a *)
(* BytesIO takes all of it.                                                *)
WriteChunk ==
    /\ Writing
    /\ n < asked
    /\ \E c \in 1..(asked - n) :
          /\ kind = "bytesio" => c = asked - n
          /\ sink' = [i \in 1..(n + c) |-> IF i <= n THEN sink[i] ELSE payload[i]]
          /\ pos' = pos + c
          /\ n' = n + c
    /\ UNCHANGED <<kind, session, file, payload, request, asked, start, from, out, outcome>>

(* write returns 0 or None.                                                *)
WriteNothing ==
    /\ Writing
    /\ kind # "bytesio"
    /\ n < asked
    /\ outcome' = "eof"
    /\ UNCHANGED <<kind, session, file, payload, sink, request, asked, start, from, pos, n, out>>

(* Wrong version: a short write counts as the whole.                       *)
WriteOnce ==
    /\ Writing
    /\ n = asked \/ n > 0
    /\ outcome' = "ok"
    /\ UNCHANGED <<kind, session, file, payload, sink, request, asked, start, from, pos, n, out>>

WriteDone ==
    /\ Writing
    /\ n = asked
    /\ outcome' = "ok"
    /\ UNCHANGED <<kind, session, file, payload, sink, request, asked, start, from, pos, n, out>>

Step == \/ ReadAtOnce \/ ReadChunk \/ ReadNothing \/ ReadDone
        \/ WriteChunk \/ WriteNothing \/ WriteDone

Next == CallRead \/ CallSeekTo \/ CallWrite \/ Step

Spec == Init /\ [][Next]_vars

(* A call that was issued keeps running: the loops are straight-line code  *)
(* and every raw call returns.  Nothing obliges a caller to call again.    *)
FairSpec == Spec /\ WF_vars(Step)

-----------------------------------------------------------------------------
(* Every variable holds a value of its kind; out and sink are exactly as   *)
(* long as the progress counter says.                                      *)
TypeOK ==
    /\ kind \in Kinds
    /\ session \in {"decode", "encode"}
    /\ file \in Files
    /\ payload \in Payloads
    /\ request \in Readers \cup {"write"}
    /\ asked \in 0..MaxSize
    /\ start \in Nat
    /\ from \in Nat
    /\ pos \in Nat
    /\ n \in 0..asked
    /\ out \in [1..(IF request = "write" THEN 0 ELSE n) -> Byte]
    /\ sink \in [1..(IF request = "write" THEN n ELSE 0) -> Byte]
    /\ outcome \in {"none", "pending", "ok", "eof"}

(* The result buffer holds the bytes of the stream from where the transfer *)
(* began, none skipped and none read twice, however the raw stream cut     *)
(* them up: the mv[n:n_next] bookkeeping of read_exactly.                  *)
ExactBytes ==
    /\ request \in Readers => \A i \in 1..n : from + i <= Len(file) /\ out[i] = file[from + i]
    /\ outcome = "ok" => n = asked

(* write_all has always written a prefix of its payload, in order, and     *)
(* returns only when it is the whole payload: retried writes neither       *)
(* repeat nor lose bytes.                                                  *)
WrittenInOrder ==
    request = "write" =>
        /\ asked = Len(payload)
        /\ \A i \in 1..n : sink[i] = payload[i]
        /\ outcome = "ok" => n = asked
        /\ outcome = "eof" => n < asked

(* Where every call leaves the stream: after its bytes for read and write, *)
(* back where it was for a completed peek and for seek_to however its body *)
(* ended, and after the partial transfer otherwise.                        *)
CursorAccounts ==
    /\ outcome = "pending" => pos = from + n
    /\ outcome = "pending" /\ request # "seek_to" => from = start
    /\ outcome = "ok" => pos = IF request \in {"peek", "seek_to"} THEN start ELSE start + asked
    /\ outcome = "eof" => /\ n < asked
                          /\ pos = IF request = "seek_to" THEN start ELSE start + n

(* The atomic call of StreamCall: its cursor moves when the call ends.     *)
Calls == INSTANCE StreamCall WITH cursor <- IF outcome = "pending" THEN start ELSE pos

(* Every loop of raw reads and writes amounts to one atomic call that      *)
(* transfers everything or raises EOFError.                                *)
ImplementsCalls == Calls!Spec

(* A call that was issued ends: no loop of read_exactly or write_all spins *)
(* on a raw stream that makes no progress.                                 *)
EveryCallEnds == outcome = "pending" ~> outcome # "pending"
=============================================================================
