----------------------------- MODULE EncodeReads -----------------------------
(***************************************************************************)
(* What an encoding is worth to who reads it: the object can be had back,  *)
(* and the inspection tree points at the bytes.                            *)
(***************************************************************************)
EXTENDS Encode, Reader, InspectTree

(* What encode returns, the decoder takes for the object that was encoded, *)
(* to the last byte: lengths, counts and tags taken from siblings or       *)
(* written ahead, padding, pointers and inline fields all agree.  Formats  *)
(* that end where the stream does must come last, a fill that is needed    *)
(* must be one byte, and a Pointer must not be sent where something else   *)
(* is written.                                                             *)
RoundTrip ==
    ctl = "done" /\ exc = "" /\ Readable(call.fmt) /\ streams[1].seekable /\ ~streams[1].torn =>
        LET r == Read(call.fmt, streams[1].data, 0, <<MapV(<<>>)>>)
        IN  r.ok /\ r.pos = streams[1].pos /\ r.val = Kept(call.fmt, call.obj)

(* Where the inspection tree of an encoding says that a value lies, its    *)
(* bytes lie, also when it was encoded in a buffer of its own, below other *)
(* buffers, and moved.  A Pointer that overwrites what is behind it is not *)
(* looked at.                                                              *)
RECURSIVE Shown(_, _)
Shown(N, data) ==
    /\ N.raw # <<>> => EndOf(N) <= Len(data) /\ SubSeq(data, N.off + 1, EndOf(N)) = N.raw
    /\ \A i \in DOMAIN N.kids : Shown(N.kids[i], data)

InspectShowsBytes == root # <<>> /\ ~streams[1].torn => Shown(root[1], streams[1].data)
=============================================================================
