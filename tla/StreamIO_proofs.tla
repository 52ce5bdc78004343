-------------------------- MODULE StreamIO_proofs ---------------------------
(***************************************************************************)
(* For every file, payload, size and sequence of short or failing raw      *)
(* transfers: type correctness, exactness of reads and writes, where the   *)
(* cursor ends, and that the loops implement the atomic call.              *)
(***************************************************************************)
EXTENDS StreamIO, TLAPS

(* The inductive invariant: the type invariant and the three properties    *)
(* support each other, and need nothing more.                              *)
IInv == TypeOK /\ ExactBytes /\ WrittenInOrder /\ CursorAccounts

LEMMA FileTypes ==
    /\ \A f \in Files : Len(f) \in Nat /\ \A i \in 1..Len(f) : f[i] \in Byte
    /\ \A p \in Payloads : Len(p) \in 0..MaxSize /\ \A i \in 1..Len(p) : p[i] \in Byte
BY StreamAssumption

LEMMA InitIInv == Init => IInv
BY StreamAssumption DEF Init, IInv, TypeOK, ExactBytes, WrittenInOrder, CursorAccounts, Kinds, Readers

(* A call starts with nothing transferred, wherever the cursor is.         *)
LEMMA CallIInv ==
    ASSUME IInv, NEW r \in Readers \cup {"write"}, NEW size \in 0..MaxSize, NEW at \in Nat,
           Call(r, size, at), payload' \in Payloads,
           r \in {"read", "peek", "write"} => at = pos,
           r = "write" => size = Len(payload')
    PROVE  IInv'
<1>1. TypeOK'
  BY DEF IInv, TypeOK, Call, Readers
<1>2. ExactBytes' /\ WrittenInOrder' /\ CursorAccounts'
  BY DEF IInv, TypeOK, Call, Readers, ExactBytes, WrittenInOrder, CursorAccounts
<1>3. QED
  BY <1>1, <1>2 DEF IInv

(* Storing the next c available bytes behind the first n keeps the buffer  *)
(* an exact copy of the stream from where the transfer began.              *)
LEMMA FilledExactly ==
    ASSUME IInv, outcome = "pending", request \in Readers, NEW c \in Nat, c > 0 => c <= Available
    PROVE  /\ Filled(c) \in [1..(n + c) -> Byte]
           /\ \A i \in 1..(n + c) : from + i <= Len(file) /\ Filled(c)[i] = file[from + i]
<1>1. /\ n \in Nat /\ from \in Nat /\ pos = from + n /\ Len(file) \in Nat
      /\ out \in [1..n -> Byte]
      /\ \A i \in 1..n : from + i <= Len(file) /\ out[i] = file[from + i]
      /\ \A i \in 1..Len(file) : file[i] \in Byte
  BY FileTypes DEF IInv, TypeOK, ExactBytes, CursorAccounts, Readers
<1>2. c > 0 => pos + c <= Len(file)
  BY <1>1 DEF Available
<1>3. ASSUME NEW i \in 1..(n + c)
      PROVE  from + i <= Len(file) /\ Filled(c)[i] = file[from + i] /\ file[from + i] \in Byte
  BY <1>1, <1>2 DEF Filled
<1>4. QED
  BY <1>3 DEF Filled

LEMMA StepIInv == IInv /\ [Next]_vars => IInv'
<1> SUFFICES ASSUME IInv, [Next]_vars PROVE IInv'
  OBVIOUS
<1>0. /\ Len(file) \in Nat
      /\ Len(payload) \in 0..MaxSize
      /\ \A i \in 1..Len(file) : file[i] \in Byte
      /\ \A i \in 1..Len(payload) : payload[i] \in Byte
  BY FileTypes DEF IInv, TypeOK
<1>1. CASE CallRead
  BY <1>1, CallIInv DEF CallRead, IInv, TypeOK, Readers
<1>2. CASE CallSeekTo
  BY <1>2, CallIInv, StreamAssumption DEF CallSeekTo, IInv, TypeOK, Readers
<1>3. CASE CallWrite
  BY <1>3, CallIInv, FileTypes DEF CallWrite, IInv, TypeOK, Readers
<1>4. CASE ReadAtOnce
  <2>1. PICK c \in 0..asked :
          /\ c = (IF asked <= Available THEN asked ELSE Available)
          /\ pos' = IF c < asked /\ request = "seek_to" THEN start ELSE pos + c
          /\ n' = c
          /\ out' = Filled(c)
          /\ outcome' = IF c < asked THEN "eof" ELSE "pending"
    BY <1>4 DEF ReadAtOnce
  <2>2. /\ outcome = "pending" /\ request \in Readers /\ n = 0 /\ asked > 0
        /\ UNCHANGED <<kind, session, file, payload, sink, request, asked, start, from>>
    BY <1>4 DEF ReadAtOnce, Reading
  <2>3. n + c \in 0..asked /\ (c > 0 => c <= Available)
    BY <2>1, <2>2, <1>0 DEF Available, IInv, TypeOK
  <2>4. out' \in [1..(n + c) -> Byte] /\ \A i \in 1..(n + c) : from + i <= Len(file) /\ out'[i] = file[from + i]
    BY <2>1, <2>2, <2>3, FilledExactly
  <2>5. TypeOK'
    BY <2>1, <2>2, <2>3, <2>4 DEF Readers, IInv, TypeOK
  <2>6. ExactBytes' /\ WrittenInOrder'
    BY <2>1, <2>2, <2>3, <2>4 DEF Readers, IInv, TypeOK, ExactBytes, WrittenInOrder
  <2>7. CursorAccounts'
    BY <2>1, <2>2, <2>3 DEF Readers, IInv, TypeOK, CursorAccounts
  <2>8. QED
    BY <2>5, <2>6, <2>7 DEF IInv
<1>5. CASE ReadChunk
  <2>1. PICK c \in 1..(asked - n) : c <= Available /\ pos' = pos + c /\ n' = n + c /\ out' = Filled(c)
    BY <1>5 DEF ReadChunk
  <2>2. /\ outcome = "pending" /\ request \in Readers /\ n < asked
        /\ UNCHANGED <<kind, session, file, payload, sink, request, asked, start, from, outcome>>
    BY <1>5 DEF ReadChunk, Reading
  <2>3. c \in Nat /\ n + c \in 0..asked
    BY <2>1, <2>2 DEF IInv, TypeOK
  <2>4. out' \in [1..(n + c) -> Byte] /\ \A i \in 1..(n + c) : from + i <= Len(file) /\ out'[i] = file[from + i]
    BY <2>1, <2>2, <2>3, FilledExactly
  <2>5. TypeOK'
    BY <2>1, <2>2, <2>3, <2>4 DEF Readers, IInv, TypeOK
  <2>6. ExactBytes' /\ WrittenInOrder'
    BY <2>1, <2>2, <2>3, <2>4 DEF Readers, IInv, TypeOK, ExactBytes, WrittenInOrder
  <2>7. CursorAccounts'
    BY <2>1, <2>2, <2>3 DEF Readers, IInv, TypeOK, CursorAccounts
  <2>8. QED
    BY <2>5, <2>6, <2>7 DEF IInv
<1>6. CASE ReadNothing
  <2>1. TypeOK'
    BY <1>6 DEF ReadNothing, Reading, Readers, IInv, TypeOK
  <2>2. ExactBytes' /\ WrittenInOrder'
    BY <1>6 DEF ReadNothing, Reading, Readers, IInv, TypeOK, ExactBytes, WrittenInOrder
  <2>3. CursorAccounts'
    BY <1>6 DEF ReadNothing, Reading, Readers, IInv, TypeOK, CursorAccounts
  <2>4. QED
    BY <2>1, <2>2, <2>3 DEF IInv
<1>7. CASE ReadDone
  BY <1>7 DEF ReadDone, Reading, Readers, IInv, TypeOK, ExactBytes, WrittenInOrder, CursorAccounts
<1>8. CASE WriteChunk
  <2>1. PICK c \in 1..(asked - n) :
          /\ sink' = [i \in 1..(n + c) |-> IF i <= n THEN sink[i] ELSE payload[i]]
          /\ pos' = pos + c
          /\ n' = n + c
    BY <1>8 DEF WriteChunk
  <2>2. /\ outcome = "pending" /\ request = "write" /\ n < asked
        /\ UNCHANGED <<kind, session, file, payload, request, asked, start, from, out, outcome>>
    BY <1>8 DEF WriteChunk, Writing
  <2>3. n + c \in 0..asked /\ asked = Len(payload)
    BY <2>1, <2>2 DEF IInv, TypeOK, WrittenInOrder
  <2>4. sink' \in [1..(n + c) -> Byte] /\ \A i \in 1..(n + c) : sink'[i] = payload[i]
    <3>1. sink \in [1..n -> Byte] /\ \A i \in 1..n : sink[i] = payload[i]
      BY <2>2 DEF IInv, TypeOK, WrittenInOrder
    <3>2. n \in Nat /\ c \in Nat /\ n + c <= Len(payload)
      BY <2>1, <2>3 DEF IInv, TypeOK
    <3>3. ASSUME NEW i \in 1..(n + c)
          PROVE  sink'[i] = payload[i] /\ payload[i] \in Byte
      <4>0. \A j \in 1..Len(payload) : payload[j] \in Byte
        BY <1>0
      <4>1. i \in 1..Len(payload) /\ (i <= n => i \in 1..n)
        BY <3>2, <1>0
      <4>2. sink'[i] = IF i <= n THEN sink[i] ELSE payload[i]
        BY <2>1
      <4>3. QED
        BY <4>1, <4>2, <3>1, <4>0
    <3>4. sink' = [i \in 1..(n + c) |-> payload[i]]
      BY <2>1, <3>3
    <3>5. QED
      BY <3>3, <3>4
  <2>5. QED
    BY <2>1, <2>2, <2>3, <2>4 DEF Readers, IInv, TypeOK, ExactBytes, WrittenInOrder, CursorAccounts
<1>9. CASE WriteNothing
  BY <1>9 DEF WriteNothing, Writing, Readers, IInv, TypeOK, ExactBytes, WrittenInOrder, CursorAccounts
<1>10. CASE WriteDone
  BY <1>10 DEF WriteDone, Writing, Readers, IInv, TypeOK, ExactBytes, WrittenInOrder, CursorAccounts
<1>11. CASE UNCHANGED vars
  BY <1>11 DEF vars, Readers, IInv, TypeOK, ExactBytes, WrittenInOrder, CursorAccounts
<1>12. QED
  BY <1>1, <1>2, <1>3, <1>4, <1>5, <1>6, <1>7, <1>8, <1>9, <1>10, <1>11 DEF Next, Step

(* The invariant holds in every reachable state, whatever the raw stream   *)
(* does.                                                                   *)
THEOREM Invariance == Spec => []IInv
<1>1. Init => IInv
  BY InitIInv
<1>2. IInv /\ [Next]_vars => IInv'
  BY StepIInv
<1>3. QED
  BY <1>1, <1>2, PTL DEF Spec

(* Type correctness.                                                       *)
THEOREM TypeCorrect == Spec => []TypeOK
<1>1. IInv => TypeOK
  BY DEF IInv
<1>2. QED
  BY <1>1, Invariance, PTL

(* read_exactly and seek_to's body return exactly the bytes of the stream. *)
THEOREM ReadsExact == Spec => []ExactBytes
<1>1. IInv => ExactBytes
  BY DEF IInv
<1>2. QED
  BY <1>1, Invariance, PTL

(* write_all writes its payload in order and completely, or raises.        *)
THEOREM WritesInOrder == Spec => []WrittenInOrder
<1>1. IInv => WrittenInOrder
  BY DEF IInv
<1>2. QED
  BY <1>1, Invariance, PTL

(* Where the cursor is after every call.                                   *)
THEOREM CursorAccounted == Spec => []CursorAccounts
<1>1. IInv => CursorAccounts
  BY DEF IInv
<1>2. QED
  BY <1>1, Invariance, PTL

(* The loops of raw transfers implement the atomic call.                   *)
THEOREM Refinement == Spec => ImplementsCalls
<1>1. Init => Calls!Init
  BY DEF Init, Calls!Init
<1>2. ASSUME IInv, [Next]_vars PROVE [Calls!Next]_(Calls!vars)
  <2> USE DEF Calls!vars, IInv, TypeOK, Readers
  <2>1. CASE CallRead
    BY <1>2, <2>1 DEF CallRead, Call, Calls!Next, Calls!Issue, Calls!Requests
  <2>2. CASE CallSeekTo
    BY <1>2, <2>2 DEF CallSeekTo, Call, Calls!Next, Calls!Issue, Calls!Requests
  <2>3. CASE CallWrite
    BY <1>2, <2>3, FileTypes DEF CallWrite, Call, Calls!Next, Calls!Issue, Calls!Requests
  <2>4. CASE ReadAtOnce
    <3>1. PICK c \in 0..asked :
            /\ pos' = IF c < asked /\ request = "seek_to" THEN start ELSE pos + c
            /\ outcome' = IF c < asked THEN "eof" ELSE "pending"
      BY <2>4 DEF ReadAtOnce
    <3>2. /\ outcome = "pending" /\ c \in 0..MaxSize
          /\ pos = (IF request = "seek_to" THEN pos ELSE start)
          /\ UNCHANGED <<request, asked, start>>
      BY <1>2, <2>4, StreamAssumption DEF ReadAtOnce, Reading, CursorAccounts
    <3>3. QED
      BY <3>1, <3>2 DEF Calls!Next, Calls!Fail
  <2>5. CASE ReadChunk
    BY <1>2, <2>5 DEF ReadChunk, Reading
  <2>6. CASE ReadNothing
    <3>1. /\ outcome = "pending" /\ outcome' = "eof" /\ n \in 0..MaxSize /\ n < asked
          /\ pos' = IF request = "seek_to" THEN start ELSE start + n
          /\ UNCHANGED <<request, asked, start>>
      BY <1>2, <2>6, StreamAssumption DEF ReadNothing, Reading, CursorAccounts
    <3>2. QED
      BY <3>1 DEF Calls!Next, Calls!Fail
  <2>7. CASE ReadDone
    BY <1>2, <2>7 DEF ReadDone, Reading, Calls!Next, Calls!Complete, CursorAccounts
  <2>8. CASE WriteChunk
    BY <1>2, <2>8 DEF WriteChunk, Writing
  <2>9. CASE WriteNothing
    <3>1. /\ outcome = "pending" /\ outcome' = "eof" /\ n \in 0..MaxSize /\ n < asked
          /\ pos' = IF request = "seek_to" THEN start ELSE start + n
          /\ UNCHANGED <<request, asked, start>>
      BY <1>2, <2>9, StreamAssumption DEF WriteNothing, Writing, CursorAccounts
    <3>2. QED
      BY <3>1 DEF Calls!Next, Calls!Fail
  <2>10. CASE WriteDone
    BY <1>2, <2>10 DEF WriteDone, Writing, Calls!Next, Calls!Complete, CursorAccounts
  <2>11. CASE UNCHANGED vars
    BY <1>2, <2>11 DEF vars
  <2>12. QED
    BY <1>2, <2>1, <2>2, <2>3, <2>4, <2>5, <2>6, <2>7, <2>8, <2>9, <2>10, <2>11 DEF Next, Step
<1>3. QED
  BY <1>1, <1>2, Invariance, PTL DEF Spec, ImplementsCalls, Calls!Spec

=============================================================================
