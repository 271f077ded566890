------------------------- MODULE WritableFileProofs -------------------------
(***************************************************************************)
(* Proofs about WritableFile, for every buffer size, every set of slices   *)
(* and every number of bytes.  The inductive invariant adds to the         *)
(* properties what the control state says of the buffer: which steps find  *)
(* it empty, and that the loop's offset is zero outside the loop.          *)
(*                                                                         *)
(* A file written through McneWrapper is one of these files, whatever the  *)
(* key; what it adds is that the offset of the cipher is that of the file. *)
(***************************************************************************)
EXTENDS EncryptedFile, SequenceTheorems, TLAPS

ControlInv ==
  /\ offset <= Len(src)
  /\ pc \in {"idle", "fsync", "close"} => offset = 0
  /\ pc = "idle" /\ ~Buffered => src = <<>>
  /\ pc = "fsync" /\ WritesThrough => src = <<>>
  /\ pc = "close" => src = <<>> \/ (op = "Destroy" /\ result = "error")
  /\ pc = "fsync" => op = "Sync"

ClosedInv ==
  fd = "none" /\ pc # "crashed" =>
    os = stream /\ src = <<>> /\ pc \in {"idle", "destroyed", "killed"}

DurableInv ==
  /\ durable <= Len(os)
  /\ WritesThrough => synced <= durable
  /\ WritesThrough /\ pc # "crashed" => flushed <= Len(os)

IInv ==
  /\ TypeOK
  /\ ControlInv
  /\ StreamIntegrity
  /\ CrashLeavesPrefix
  /\ ClosedInv
  /\ DestroyedIsComplete
  /\ DurableInv

-----------------------------------------------------------------------------
(* Facts about sequences the proofs share.                                 *)

LEMMA PrefixOfConcat ==
  ASSUME NEW S, NEW s \in Seq(S), NEW t \in Seq(S)
  PROVE  SubSeq(s \o t, 1, Len(s)) = s
<1>1. CASE Len(s) = 0
  <2>1. s = <<>>
    BY <1>1, EmptySeq
  <2> QED
    BY <1>1, <2>1, SubSeqEmpty
<1>2. CASE Len(s) # 0
  <2>1. 1 \in 1 .. Len(s) /\ Len(s) \in 1 .. Len(s)
    BY <1>2, LenProperties
  <2>2. SubSeq(s \o t, 1, Len(s)) = SubSeq(s, 1, Len(s))
    BY <2>1, SubSeqOfConcat1
  <2> QED
    BY <2>2, SubSeqFull
<1> QED
  BY <1>1, <1>2

LEMMA PrefixOfPrefix ==
  ASSUME NEW S, NEW s \in Seq(S), NEW n \in 0 .. Len(s), NEW k \in 0 .. n
  PROVE  /\ SubSeq(s, 1, n) \in Seq(S)
         /\ Len(SubSeq(s, 1, n)) = n
         /\ SubSeq(SubSeq(s, 1, n), 1, k) = SubSeq(s, 1, k)
<1>1. \A i \in 1 .. n : s[i] \in S
  BY LenProperties, ElementOfSeq
<1>2. SubSeq(s, 1, n) \in Seq(S) /\ Len(SubSeq(s, 1, n)) = n
  BY <1>1, SubSeqProperties
<1>3. CASE k = 0
  BY <1>2, <1>3, SubSeqEmpty
<1>4. CASE k # 0
  <2>1. 1 \in 1 .. Len(s) /\ n \in 1 .. Len(s)
    BY <1>4, LenProperties
  <2>2. 1 \in 1 .. n - 1 + 1 /\ k \in 1 .. n - 1 + 1
    BY <1>4, LenProperties
  <2>3. SubSeq(SubSeq(s, 1, n), 1, k) = SubSeq(s, 1 + 1 - 1, 1 + k - 1)
    BY <2>1, <2>2, SubSeqOfSubSeq
  <2> QED
    BY <1>2, <2>3, <2>2
<1> QED
  BY <1>2, <1>3, <1>4

LEMMA SuffixType ==
  ASSUME NEW S, NEW s \in Seq(S), NEW m \in Nat, NEW n \in 0 .. Len(s)
  PROVE  SubSeq(s, m + 1, n) \in Seq(S)
<1>1. \A i \in m + 1 .. n : s[i] \in S
  BY LenProperties, ElementOfSeq
<1> QED
  BY <1>1, SubSeqProperties, LenProperties

(* A step that splits src after offset + n bytes leaves the same bytes.    *)
LEMMA SplitRest ==
  ASSUME TypeOK, NEW n \in Nat, offset + n <= Len(src)
  PROVE  Rest = SubSeq(src, offset + 1, offset + n)
                  \o SubSeq(src, offset + n + 1, Len(src))
<1>1. /\ offset + 1 \in 1 .. Len(src) + 1
      /\ offset + n \in (offset + 1) - 1 .. Len(src)
      /\ Len(src) \in offset + n .. Len(src)
  BY LenProperties DEF TypeOK
<1> QED
  BY <1>1, ConcatAdjacentSubSeq DEF Rest, TypeOK

-----------------------------------------------------------------------------
(* Every step keeps the types.                                             *)
LEMMA TypeStep == TypeOK /\ [Next]_vars => TypeOK'
<1> SUFFICES ASSUME TypeOK, [Next]_vars PROVE TypeOK'
  OBVIOUS
<1>0. Rest \in Seq(Byte) /\ Len(os) \in Nat /\ Len(stream) \in Nat
  <2>1. Len(src) \in 0 .. Len(src) /\ Len(os) \in Nat /\ Len(stream) \in Nat
    BY LenProperties DEF TypeOK
  <2> QED
    BY <2>1, SuffixType DEF Rest, TypeOK
<1>1. ASSUME NEW data \in Slices, AppendSlice(data) PROVE TypeOK'
  <2>1. data \in Seq(Byte)
    BY FileAssumption
  <2>2. src \o data \in Seq(Byte) /\ stream \o data \in Seq(Byte)
    BY <2>1, ConcatProperties DEF TypeOK
  <2> QED
    BY <1>1, <2>2 DEF AppendSlice, Enter, Return, TypeOK, Calls, disk
<1>2. CASE Flush
  BY <1>2, <1>0 DEF Flush, Enter, Return, TypeOK, Calls, disk
<1>3. CASE Sync
  BY <1>3 DEF Sync, Enter, TypeOK, Calls, disk, history
<1>4. CASE Close
  BY <1>4 DEF Close, Enter, TypeOK, Calls, disk, history
<1>5. CASE Destroy
  BY <1>5 DEF Destroy, Enter, TypeOK, Calls, disk, history
<1>6. ASSUME NEW call \in Calls, NEW status \in {"ok", "error"},
             CallOnClosed(call, status)
      PROVE  TypeOK'
  BY <1>6 DEF CallOnClosed, Return, TypeOK, disk, history
<1>7. ASSUME NEW n \in 1 .. Len(src), WriteSome(n) PROVE TypeOK'
  <2>1. n \in Nat /\ offset + n \in 0 .. Len(src)
    BY <1>7, LenProperties DEF WriteSome, TypeOK
  <2>2. SubSeq(src, offset + 1, offset + n) \in Seq(Byte)
    BY <2>1, SuffixType DEF TypeOK
  <2>3. os \o SubSeq(src, offset + 1, offset + n) \in Seq(Byte)
    BY <2>2, ConcatProperties DEF TypeOK
  <2> QED
    BY <1>7, <2>1, <2>3 DEF WriteSome, TypeOK, history
<1>8. CASE WriteAll
  <2>1. os \o Rest \in Seq(Byte)
    BY <1>0, ConcatProperties DEF TypeOK
  <2> QED
    BY <1>8, <1>0, <2>1, EmptySeq DEF WriteAll, Enter, Return, TypeOK, Calls
<1>9. CASE WriteFail
  <2>1. src' \in Seq(Byte) /\ stream' \in Seq(Byte)
    BY <1>9, <1>0, EmptySeq DEF WriteFail, TypeOK
  <2>2. /\ pc' \in {"idle", "close"} /\ op' \in Calls
        /\ offset' = 0 /\ result' = "error"
    BY <1>9 DEF WriteFail, Enter, Return, TypeOK
  <2> QED
    BY <1>9, <2>1, <2>2 DEF WriteFail, TypeOK, disk
<1>10. CASE FsyncOk
  BY <1>10, <1>0 DEF FsyncOk, Return, TypeOK, Calls
<1>11. CASE FsyncFail
  BY <1>11 DEF FsyncFail, Return, TypeOK, Calls, disk, history
<1>12. CASE CloseOk
  BY <1>12 DEF CloseOk, Enter, Return, TypeOK, disk, history
<1>13. CASE CloseFail
  BY <1>13 DEF CloseFail, Enter, Return, TypeOK, disk, history
<1>14. CASE ProcessCrash
  BY <1>14 DEF ProcessCrash, TypeOK, disk, history
<1>15. ASSUME NEW n \in 0 .. Len(os), MachineCrash(n) PROVE TypeOK'
  <2>1. SubSeq(os, 1, n) \in Seq(Byte)
    BY PrefixOfPrefix DEF TypeOK
  <2> QED
    BY <1>15, <2>1 DEF MachineCrash, TypeOK, history
<1>16. CASE UNCHANGED vars
  BY <1>16 DEF vars, object, disk, history, TypeOK
<1> QED
  BY <1>1, <1>2, <1>3, <1>4, <1>5, <1>6, <1>7, <1>8, <1>9, <1>10, <1>11,
     <1>12, <1>13, <1>14, <1>15, <1>16
     DEF Next, Caller, System, Crash, Calls

(* Every variable keeps its type.                                          *)
THEOREM TypeCorrect == Spec => []TypeOK
<1>1. Init => TypeOK
  BY EmptySeq DEF Init, TypeOK, Calls
<1> QED
  BY <1>1, TypeStep, PTL DEF Spec

-----------------------------------------------------------------------------
(* Between crashes as after them, the file is a prefix of the stream.      *)
LEMMA OsIsPrefix ==
  ASSUME TypeOK, StreamIntegrity, CrashLeavesPrefix
  PROVE  /\ os = SubSeq(stream, 1, Len(os))
         /\ Len(os) \in 0 .. Len(stream)
<1>1. Rest \in Seq(Byte)
  <2>1. Len(src) \in 0 .. Len(src)
    BY LenProperties DEF TypeOK
  <2> QED
    BY <2>1, SuffixType DEF Rest, TypeOK
<1>2. CASE ~Gone
  <2>1. stream = os \o Rest
    BY <1>2 DEF StreamIntegrity
  <2>2. Len(stream) = Len(os) + Len(Rest) /\ Len(os) \in Nat /\ Len(Rest) \in Nat
    BY <2>1, <1>1, ConcatProperties, LenProperties DEF TypeOK
  <2> QED
    BY <2>1, <2>2, <1>1, PrefixOfConcat DEF TypeOK
<1>3. CASE Gone
  BY <1>3, LenProperties DEF CrashLeavesPrefix, TypeOK
<1> QED
  BY <1>2, <1>3

(* After a step as well: what the file and the rest of the buffer make up. *)
LEMMA PrefixOfStreamNext ==
  ASSUME TypeOK', StreamIntegrity', ~Gone'
  PROVE  /\ os' = SubSeq(stream', 1, Len(os'))
         /\ Len(os') \in 0 .. Len(stream')
<1>1. Rest' \in Seq(Byte)
  <2>1. src' \in Seq(Byte) /\ offset' \in Nat /\ Len(src') \in 0 .. Len(src')
    BY LenProperties DEF TypeOK
  <2>2. SubSeq(src', offset' + 1, Len(src')) \in Seq(Byte)
    BY <2>1, SuffixType
  <2> QED
    BY <2>2 DEF Rest
<1>2. stream' = os' \o Rest' /\ os' \in Seq(Byte)
  BY DEF StreamIntegrity, TypeOK
<1>3. /\ Len(stream') = Len(os') + Len(Rest')
      /\ Len(os') \in Nat /\ Len(Rest') \in Nat
  BY <1>1, <1>2, ConcatProperties, LenProperties
<1> QED
  BY <1>1, <1>2, <1>3, PrefixOfConcat

(* A step that touches neither the file, the stream nor the buffer.        *)
LEMMA QuietStep ==
  ASSUME TypeOK, TypeOK', StreamIntegrity, CrashLeavesPrefix,
         UNCHANGED <<os, stream, src>>, pc \in {"idle", "fsync", "close"},
         offset = 0, offset' = 0
  PROVE  StreamIntegrity' /\ CrashLeavesPrefix'
<1>1. ~Gone
  BY DEF Gone
<1>2. os \o Rest = stream /\ Rest' = Rest
  BY <1>1 DEF StreamIntegrity, Rest
<1>3. StreamIntegrity'
  BY <1>2 DEF StreamIntegrity
<1>4. CrashLeavesPrefix'
  BY OsIsPrefix DEF CrashLeavesPrefix
<1> QED
  BY <1>3, <1>4

LEMMA InvInit == Init => IInv
<1> SUFFICES ASSUME Init PROVE IInv
  OBVIOUS
<1>1. TypeOK
  BY EmptySeq DEF Init, TypeOK, Calls
<1>2. Len(src) = 0 /\ Len(os) = 0 /\ Rest = <<>>
  BY SubSeqEmpty, EmptySeq DEF Init, Rest
<1>3. StreamIntegrity
  BY <1>2, ConcatEmptySeq DEF Init, StreamIntegrity
<1> QED
  BY <1>1, <1>2, <1>3 DEF Init, IInv, ControlInv, CrashLeavesPrefix, Gone,
     ClosedInv, DestroyedIsComplete, DurableInv

-----------------------------------------------------------------------------
(* The steps of the invariant's preservation, one action each.             *)
LEMMA InvAppend ==
  ASSUME IInv, TypeOK', NEW data \in Slices, AppendSlice(data)
  PROVE  IInv'
<1>1. data \in Seq(Byte) /\ src \in Seq(Byte) /\ os \in Seq(Byte)
  BY FileAssumption DEF IInv, TypeOK
<1>2. /\ offset = 0 /\ offset' = 0 /\ pc = "idle" /\ src' = src \o data
      /\ UNCHANGED kind
  BY DEF IInv, ControlInv, AppendSlice, Enter, Return
<1>3. Rest = src /\ Rest' = src'
  BY <1>1, <1>2, SubSeqFull DEF Rest, TypeOK
<1>4. StreamIntegrity'
  <2>1. os \o src = stream
    BY <1>2, <1>3 DEF IInv, StreamIntegrity, Gone
  <2>2. os \o (src \o data) = (os \o src) \o data
    BY <1>1, ConcatAssociative
  <2> QED
    BY <1>2, <1>3, <2>1, <2>2 DEF AppendSlice, StreamIntegrity, disk
<1>5. ControlInv'
  <2>1. Len(src') \in Nat
    BY LenProperties DEF TypeOK
  <2> QED
    BY <1>2, <2>1 DEF AppendSlice, Enter, Return, ControlInv, Buffered
<1>6. ~Gone' /\ pc' # "close" /\ fd' = "open"
  BY DEF AppendSlice, Enter, Return, Gone
<1>7. CrashLeavesPrefix' /\ ClosedInv' /\ DestroyedIsComplete'
  BY <1>6 DEF CrashLeavesPrefix, ClosedInv, DestroyedIsComplete, Gone
<1>8. DurableInv'
  BY <1>2 DEF AppendSlice, IInv, DurableInv, disk, WritesThrough, Buffered
<1> QED
  BY <1>4, <1>5, <1>7, <1>8 DEF IInv

LEMMA InvFlush == ASSUME IInv, TypeOK', Flush PROVE IInv'
<1>1. /\ offset = 0 /\ offset' = 0 /\ pc = "idle" /\ pc' \in {"idle", "write"}
      /\ UNCHANGED kind
  BY DEF IInv, ControlInv, Flush, Enter, Return
<1>2. StreamIntegrity' /\ CrashLeavesPrefix'
  BY <1>1, QuietStep DEF IInv, Flush, disk
<1>3. ControlInv'
  BY <1>1, LenProperties DEF Flush, IInv, ControlInv, TypeOK, Buffered
<1>4. ClosedInv' /\ DestroyedIsComplete'
  BY <1>1 DEF Flush, Enter, Return, IInv, ClosedInv, DestroyedIsComplete, disk
<1>5. DurableInv'
  <2>1. CASE flushed' = flushed
    BY <2>1, <1>1 DEF Flush, IInv, DurableInv, disk, WritesThrough, Buffered
  <2>2. CASE flushed' = Len(stream) /\ ~(Buffered /\ Immediate /\ src # <<>>)
    <3>1. WritesThrough => src = <<>>
      <4>1. kind \in {"raw", "block", "log"}
        BY FileAssumption DEF IInv, TypeOK
      <4> QED
        BY <2>2, <1>1, <4>1 DEF WritesThrough, Buffered, Immediate, IInv, ControlInv
    <3>2. src = <<>> => os = stream
      BY <1>1, EmptySeq, SubSeqEmpty, ConcatEmptySeq
         DEF IInv, StreamIntegrity, Gone, Rest, TypeOK
    <3> QED
      BY <2>2, <1>1, <3>1, <3>2, LenProperties
         DEF Flush, IInv, DurableInv, disk, WritesThrough, Buffered, TypeOK
  <2> QED
    BY <2>1, <2>2 DEF Flush
<1> QED
  BY <1>2, <1>3, <1>4, <1>5 DEF IInv

(* Entering Sync, Close or the destructor changes nothing but the control  *)
(* state.                                                                  *)
LEMMA InvEnter ==
  ASSUME IInv, TypeOK', Sync \/ Close \/ Destroy
  PROVE  IInv'
<1>1. /\ offset = 0 /\ offset' = 0 /\ pc = "idle"
      /\ UNCHANGED <<kind, fd, src, os, stream, result, durable, flushed, synced>>
  BY DEF IInv, ControlInv, Sync, Close, Destroy, Enter, disk, history
<1>2. StreamIntegrity' /\ CrashLeavesPrefix'
  BY <1>1, QuietStep DEF IInv
<1>3. Len(src') >= 0
  BY LenProperties DEF TypeOK
<1>4. ControlInv'
  <2>1. kind \in {"raw", "block", "log"}
    BY FileAssumption DEF IInv, TypeOK
  <2> QED
    BY <1>1, <1>3, <2>1 DEF Sync, Close, Destroy, Enter, IInv, ControlInv,
       WritesThrough, Buffered, Immediate
<1>5. ClosedInv' /\ DestroyedIsComplete'
  BY <1>1 DEF Sync, Close, Destroy, Enter, IInv, ClosedInv, DestroyedIsComplete
<1>6. DurableInv'
  BY <1>1 DEF IInv, DurableInv, WritesThrough, Buffered
<1> QED
  BY <1>2, <1>4, <1>5, <1>6 DEF IInv

LEMMA InvCallOnClosed ==
  ASSUME IInv, TypeOK', NEW call, NEW status, CallOnClosed(call, status)
  PROVE  IInv'
<1>1. /\ offset = 0 /\ offset' = 0 /\ pc = "idle" /\ pc' = "idle"
      /\ UNCHANGED <<kind, fd, src, os, stream, durable, flushed, synced>>
  BY DEF IInv, ControlInv, CallOnClosed, Return, disk, history
<1>2. StreamIntegrity' /\ CrashLeavesPrefix'
  BY <1>1, QuietStep DEF IInv
<1>3. ControlInv' /\ ClosedInv' /\ DestroyedIsComplete' /\ DurableInv'
  BY <1>1 DEF IInv, ControlInv, ClosedInv, DestroyedIsComplete, DurableInv,
     WritesThrough, Buffered
<1> QED
  BY <1>2, <1>3 DEF IInv

LEMMA InvWriteSome ==
  ASSUME IInv, TypeOK', NEW n \in 1 .. Len(src), WriteSome(n)
  PROVE  IInv'
<1> DEFINE chunk == SubSeq(src, offset + 1, offset + n)
           tail == SubSeq(src, offset + n + 1, Len(src))
<1>1. /\ pc = "write" /\ pc' = "write" /\ src' = src /\ offset' = offset + n
      /\ offset + n < Len(src) /\ os' = os \o chunk
      /\ UNCHANGED <<kind, fd, durable, stream, flushed, synced>>
  BY DEF WriteSome, history
<1>2. n \in Nat /\ offset + n \in 0 .. Len(src)
  BY <1>1, LenProperties DEF IInv, TypeOK
<1>3. Rest = chunk \o tail /\ Rest' = tail
  <2>1. Rest = chunk \o tail
    <3>1. TypeOK /\ n \in Nat /\ offset + n <= Len(src)
      BY <1>2, LenProperties DEF IInv, TypeOK
    <3> QED
      BY <3>1, SplitRest
  <2>2. Rest' = tail
    BY <1>1 DEF Rest
  <2> QED
    BY <2>1, <2>2
<1>4. chunk \in Seq(Byte) /\ tail \in Seq(Byte) /\ os \in Seq(Byte)
  <2>1. Len(src) \in 0 .. Len(src) /\ offset \in Nat /\ offset + n \in Nat
    BY <1>2, LenProperties DEF IInv, TypeOK
  <2> QED
    BY <1>2, <2>1, SuffixType DEF IInv, TypeOK
<1> HIDE DEF chunk, tail
<1>5. StreamIntegrity'
  <2>1. os \o Rest = stream
    BY <1>1 DEF IInv, StreamIntegrity, Gone
  <2>2. (os \o chunk) \o tail = os \o (chunk \o tail)
    BY <1>4, ConcatAssociative
  <2> QED
    BY <1>1, <1>3, <2>1, <2>2 DEF StreamIntegrity
<1>6. Len(os') >= Len(os) /\ Len(os) \in Nat /\ Len(os') \in Nat
  BY <1>1, <1>4, ConcatProperties, LenProperties
<1>7. ControlInv'
  BY <1>1, <1>2 DEF IInv, ControlInv, TypeOK
<1>8. CrashLeavesPrefix' /\ ClosedInv' /\ DestroyedIsComplete'
  BY <1>1 DEF IInv, CrashLeavesPrefix, Gone, ClosedInv, DestroyedIsComplete
<1>9. DurableInv'
  BY <1>1, <1>6 DEF IInv, DurableInv, TypeOK, WritesThrough, Buffered
<1> QED
  BY <1>5, <1>7, <1>8, <1>9 DEF IInv

LEMMA InvWriteAll == ASSUME IInv, TypeOK', WriteAll PROVE IInv'
<1>1. /\ pc = "write" /\ src' = <<>> /\ offset' = 0 /\ os' = os \o Rest
      /\ pc' \in {"idle", "fsync", "close"}
      /\ UNCHANGED <<kind, fd, durable, stream, synced>>
      /\ flushed' \in {flushed, Len(stream)}
  BY DEF WriteAll, Enter, Return
<1>2. os' = stream
  BY <1>1 DEF IInv, StreamIntegrity, Gone
<1>3. Rest' = <<>> /\ Len(src') = 0
  BY <1>1, EmptySeq, SubSeqEmpty DEF Rest
<1>4. StreamIntegrity'
  BY <1>1, <1>2, <1>3, ConcatEmptySeq DEF StreamIntegrity, IInv, TypeOK
<1>5. ControlInv'
  BY <1>1, <1>3 DEF WriteAll, Enter, Return, ControlInv
<1>6. CrashLeavesPrefix' /\ ClosedInv' /\ DestroyedIsComplete'
  BY <1>1 DEF IInv, CrashLeavesPrefix, Gone, ClosedInv, DestroyedIsComplete
<1>7. Len(os') >= Len(os) /\ Len(os) \in Nat /\ Len(os') \in Nat
  <2>1. Len(os) \in 0 .. Len(stream)
    BY OsIsPrefix DEF IInv
  <2> QED
    BY <1>2, <2>1, LenProperties DEF IInv, TypeOK
<1>8. DurableInv'
  BY <1>1, <1>2, <1>7 DEF IInv, DurableInv, TypeOK, WritesThrough, Buffered
<1> QED
  BY <1>4, <1>5, <1>6, <1>8 DEF IInv

LEMMA InvWriteFail == ASSUME IInv, TypeOK', WriteFail PROVE IInv'
<1>1. /\ pc = "write" /\ offset' = 0
      /\ UNCHANGED <<kind, fd, os, durable, flushed, synced>>
      /\ pc' \in {"idle", "close"} /\ result' = "error"
      /\ pc' = "close" => op' = "Destroy"
  BY DEF WriteFail, Enter, Return, disk
<1>2. Rest' = src'
  BY <1>1, SubSeqFull DEF Rest, TypeOK
<1>3. StreamIntegrity'
  <2>1. CASE Buffered
    BY <1>1, <1>2, <2>1 DEF WriteFail, IInv, StreamIntegrity, Gone
  <2>2. CASE ~Buffered
    BY <1>1, <1>2, <2>2, ConcatEmptySeq DEF WriteFail, IInv, TypeOK, StreamIntegrity
  <2> QED
    BY <2>1, <2>2
<1>4. ControlInv'
  <2>1. Len(src') \in Nat
    BY LenProperties DEF TypeOK
  <2> QED
    BY <1>1, <2>1 DEF WriteFail, ControlInv, Buffered
<1>5. CrashLeavesPrefix' /\ ClosedInv' /\ DestroyedIsComplete'
  BY <1>1 DEF IInv, CrashLeavesPrefix, Gone, ClosedInv, DestroyedIsComplete
<1>6. DurableInv'
  BY <1>1 DEF IInv, DurableInv, WritesThrough, Buffered
<1> QED
  BY <1>3, <1>4, <1>5, <1>6 DEF IInv

LEMMA InvFsync == ASSUME IInv, TypeOK', FsyncOk \/ FsyncFail PROVE IInv'
<1>1. /\ pc = "fsync" /\ pc' = "idle" /\ offset = 0 /\ offset' = 0
      /\ UNCHANGED <<kind, fd, src, os, stream, flushed>>
  BY DEF IInv, ControlInv, FsyncOk, FsyncFail, Return, disk, history
<1>2. StreamIntegrity' /\ CrashLeavesPrefix'
  BY <1>1, QuietStep DEF IInv
<1>3. fd' # "none"
  BY <1>1 DEF IInv, ClosedInv
<1>4. CASE FsyncOk
  <2>1. durable' = Len(os) /\ synced' = Len(stream)
    BY <1>4 DEF FsyncOk
  <2>2. WritesThrough => src = <<>>
    BY <1>1 DEF IInv, ControlInv
  <2>3. src = <<>> => os = stream
    BY <1>1, EmptySeq, SubSeqEmpty, ConcatEmptySeq
       DEF IInv, StreamIntegrity, Gone, Rest, TypeOK
  <2>4. DurableInv'
    BY <1>1, <2>1, <2>2, <2>3, LenProperties
       DEF IInv, DurableInv, TypeOK, WritesThrough, Buffered
  <2>5. ControlInv'
    <3>1. src = src' /\ Len(src') >= 0
      BY <1>1, LenProperties DEF TypeOK
    <3>2. ~Buffered => src = <<>>
      BY <2>2 DEF WritesThrough, Buffered
    <3> QED
      BY <1>1, <3>1, <3>2 DEF ControlInv, Buffered
  <2> QED
    BY <1>1, <1>2, <1>3, <2>4, <2>5 DEF IInv, ClosedInv, DestroyedIsComplete
<1>5. CASE FsyncFail
  <2>1. UNCHANGED <<durable, synced>>
    BY <1>5 DEF FsyncFail, disk, history
  <2>2. ControlInv'
    BY <1>1 DEF IInv, ControlInv, WritesThrough, Buffered
  <2> QED
    BY <1>1, <1>2, <1>3, <2>1, <2>2
       DEF IInv, ClosedInv, DestroyedIsComplete, DurableInv, WritesThrough, Buffered
<1> QED
  BY <1>4, <1>5

LEMMA InvClose == ASSUME IInv, TypeOK', CloseOk \/ CloseFail PROVE IInv'
<1>1. /\ pc = "close" /\ pc' \in {"idle", "destroyed"} /\ offset = 0 /\ offset' = 0
      /\ UNCHANGED <<kind, src, os, stream, durable, flushed, synced>>
      /\ pc' = "destroyed" => op = "Destroy" /\ UNCHANGED <<fd, result>>
      /\ pc' = "idle" => op # "Destroy"
  BY DEF IInv, ControlInv, CloseOk, CloseFail, Enter, Return, disk, history
<1>2. StreamIntegrity' /\ CrashLeavesPrefix'
  BY <1>1, QuietStep DEF IInv
<1>3. src = <<>> => os = stream
  BY <1>1, EmptySeq, SubSeqEmpty, ConcatEmptySeq
     DEF IInv, StreamIntegrity, Gone, Rest, TypeOK
<1>4. src = <<>> \/ (op = "Destroy" /\ result = "error")
  BY <1>1 DEF IInv, ControlInv
<1>5. DestroyedIsComplete'
  BY <1>1, <1>3, <1>4 DEF DestroyedIsComplete
<1>6. ClosedInv'
  <2>1. CASE pc' = "idle"
    BY <1>1, <1>3, <1>4, <2>1 DEF ClosedInv
  <2>2. CASE pc' = "destroyed"
    BY <1>1, <2>2 DEF IInv, ClosedInv
  <2> QED
    BY <1>1, <2>1, <2>2
<1>7. ControlInv' /\ DurableInv'
  BY <1>1, <1>4 DEF IInv, ControlInv, DurableInv, WritesThrough, Buffered
<1> QED
  BY <1>2, <1>5, <1>6, <1>7 DEF IInv

LEMMA InvCrash ==
  ASSUME IInv, TypeOK', Crash
  PROVE  IInv'
<1>1. CASE ProcessCrash
  <2>1. /\ ~Gone /\ pc' = "killed"
        /\ UNCHANGED <<kind, fd, src, offset, os, stream, durable, flushed, synced>>
    BY <1>1 DEF ProcessCrash, disk, history
  <2>2. CrashLeavesPrefix'
    BY <2>1, OsIsPrefix DEF IInv, CrashLeavesPrefix
  <2>3. StreamIntegrity' /\ DestroyedIsComplete' /\ ControlInv'
    BY <2>1 DEF Gone, StreamIntegrity, DestroyedIsComplete, IInv, ControlInv
  <2>4. ClosedInv' /\ DurableInv'
    BY <2>1 DEF IInv, Gone, ClosedInv, DurableInv, WritesThrough, Buffered
  <2> QED
    BY <2>2, <2>3, <2>4 DEF IInv
<1>2. ASSUME NEW n \in 0 .. Len(os), MachineCrash(n) PROVE IInv'
  <2>1. /\ pc' = "crashed" /\ n >= durable /\ os' = SubSeq(os, 1, n)
        /\ UNCHANGED <<kind, src, offset, stream, durable, flushed, synced>>
    BY <1>2 DEF MachineCrash, history
  <2>2. os = SubSeq(stream, 1, Len(os)) /\ Len(os) \in 0 .. Len(stream)
    BY OsIsPrefix DEF IInv
  <2>3. Len(os') = n
    BY <2>1, PrefixOfPrefix DEF IInv, TypeOK
  <2>4. os' = SubSeq(stream, 1, n)
    BY <2>1, <2>2, PrefixOfPrefix DEF IInv, TypeOK
  <2>5. CrashLeavesPrefix'
    BY <2>1, <2>2, <2>3, <2>4 DEF CrashLeavesPrefix
  <2>6. StreamIntegrity' /\ DestroyedIsComplete' /\ ControlInv' /\ ClosedInv'
    BY <2>1 DEF Gone, StreamIntegrity, DestroyedIsComplete, IInv, ControlInv, ClosedInv
  <2>7. DurableInv'
    BY <2>1, <2>3 DEF IInv, DurableInv, WritesThrough, Buffered
  <2> QED
    BY <2>5, <2>6, <2>7 DEF IInv
<1> QED
  BY <1>1, <1>2 DEF Crash

LEMMA InvStep == IInv /\ [Next]_vars => IInv'
<1> SUFFICES ASSUME IInv, [Next]_vars PROVE IInv'
  OBVIOUS
<1>1. TypeOK'
  BY TypeStep DEF IInv
<1>2. CASE Caller
  BY <1>1, <1>2, InvAppend, InvFlush, InvEnter, InvCallOnClosed DEF Caller
<1>3. CASE System
  BY <1>1, <1>3, InvWriteSome, InvWriteAll, InvWriteFail, InvFsync, InvClose DEF System
<1>4. CASE Crash
  BY <1>1, <1>4, InvCrash
<1>5. CASE UNCHANGED vars
  BY <1>1, <1>5 DEF vars, object, disk, history, IInv, ControlInv, StreamIntegrity,
     CrashLeavesPrefix, ClosedInv, DestroyedIsComplete, DurableInv, Gone, Rest,
     WritesThrough, Buffered
<1> QED
  BY <1>2, <1>3, <1>4, <1>5 DEF Next

-----------------------------------------------------------------------------
(* No byte the file accepted is lost, repeated or moved, whatever short    *)
(* writes, failures and retries m_FlushBuffer goes through.                *)
THEOREM NoByteLostOrRepeated == Spec => []StreamIntegrity
<1>1. IInv => StreamIntegrity
  BY DEF IInv
<1> QED
  BY <1>1, InvInit, InvStep, PTL DEF Spec

(* What a crash leaves in the file is a prefix of what was appended.       *)
THEOREM CrashSafety == Spec => []CrashLeavesPrefix
<1>1. IInv => CrashLeavesPrefix
  BY DEF IInv
<1> QED
  BY <1>1, InvInit, InvStep, PTL DEF Spec

(* A file Close() said it closed, or that the destructor flushed without   *)
(* an error, holds every byte it accepted.                                 *)
THEOREM CloseSafety == Spec => []ClosedIsComplete
<1>1. IInv => ClosedIsComplete
  BY DEF IInv, ClosedInv, ClosedIsComplete
<1> QED
  BY <1>1, InvInit, InvStep, PTL DEF Spec

(* With an immediate buffer, or none, Sync() and Flush() keep their word:  *)
(* what they covered survives a crash of the machine, of the process.      *)
THEOREM SyncSafety == Spec => []SyncCoversStream
<1>1. IInv => SyncCoversStream
  <2>1. IInv => Len(os) \in Nat
    BY LenProperties DEF IInv, TypeOK
  <2> QED
    BY <2>1 DEF IInv, DurableInv, TypeOK, SyncCoversStream, SyncedIsDurable,
       FlushedIsWritten
<1> QED
  BY <1>1, InvInit, InvStep, PTL DEF Spec

-----------------------------------------------------------------------------
(* A step of the file is one of the abstract file or leaves it alone.      *)
LEMMA PromiseAccept ==
  ASSUME IInv, NEW data \in Slices, AppendSlice(data)
  PROVE  Promise!Accept
BY DEF AppendSlice, Enter, Return, Promise!Accept, disk

LEMMA PromiseTransfer ==
  ASSUME IInv, IInv', WriteAll \/ \E n \in 1 .. Len(src) : WriteSome(n)
  PROVE  Promise!Transfer \/ UNCHANGED Promise!vars
<1>1. /\ pc = "write" /\ pc' \in {"write", "idle", "fsync", "close"}
      /\ UNCHANGED <<kind, stream, durable, synced>>
  BY DEF WriteSome, WriteAll, Enter, Return, history
<1>2. PICK t \in Seq(Byte) : os' = os \o t
  <2>1. Rest \in Seq(Byte)
    <3>1. Len(src) \in 0 .. Len(src)
      BY LenProperties DEF IInv, TypeOK
    <3> QED
      BY <3>1, SuffixType DEF Rest, IInv, TypeOK
  <2>2. CASE WriteAll
    BY <2>1, <2>2 DEF WriteAll
  <2>3. ASSUME NEW n \in 1 .. Len(src), WriteSome(n)
        PROVE  SubSeq(src, offset + 1, offset + n) \in Seq(Byte)
    <3>1. n \in Nat /\ offset + n \in 0 .. Len(src)
      BY <2>3, LenProperties DEF WriteSome, IInv, TypeOK
    <3> QED
      BY <3>1, SuffixType DEF IInv, TypeOK
  <2> QED
    BY <2>2, <2>3 DEF WriteSome
<1>3. Len(os') = Len(os) + Len(t) /\ Len(os) \in Nat /\ Len(t) \in Nat
  BY <1>2, ConcatProperties, LenProperties DEF IInv, TypeOK
<1>4. os' = SubSeq(stream, 1, Len(os')) /\ Len(os') \in 0 .. Len(stream)
  BY <1>1, PrefixOfStreamNext DEF IInv, Gone
<1>5. CASE Len(t) = 0
  <2>1. t = <<>>
    BY <1>2, <1>5, EmptySeq
  <2>2. os' = os
    BY <1>2, <2>1, ConcatEmptySeq DEF IInv, TypeOK
  <2> QED
    BY <1>1, <2>2 DEF Promise!vars
<1>6. CASE Len(t) # 0
  <2>1. Len(os') \in Len(os) + 1 .. Len(stream)
    BY <1>3, <1>4, <1>6, LenProperties DEF IInv, TypeOK
  <2> QED
    BY <1>1, <1>4, <2>1 DEF Promise!Transfer
<1> QED
  BY <1>5, <1>6

LEMMA PromiseSync == ASSUME IInv, FsyncOk PROVE Promise!Sync
<1>1. kind # "block" => src = <<>>
  BY DEF FsyncOk, IInv, ControlInv, WritesThrough
<1>2. src = <<>> => os = stream
  BY EmptySeq, SubSeqEmpty, ConcatEmptySeq
     DEF FsyncOk, IInv, StreamIntegrity, Gone, Rest, TypeOK, ControlInv
<1> QED
  BY <1>1, <1>2 DEF FsyncOk, Return, Promise!Sync

LEMMA PromiseCrash == ASSUME IInv, Crash PROVE Promise!Crash
<1>1. Len(os) \in Nat /\ durable \in Nat /\ durable <= Len(os)
  BY LenProperties DEF IInv, TypeOK, DurableInv
<1>2. CASE ProcessCrash
  <2>1. os' = SubSeq(os, 1, Len(os))
    BY <1>2, SubSeqFull DEF ProcessCrash, disk, IInv, TypeOK
  <2>2. Len(os) \in durable .. Len(os)
    BY <1>1
  <2> QED
    BY <1>2, <2>1, <2>2 DEF ProcessCrash, Promise!Crash, disk, history
<1>3. ASSUME NEW n \in 0 .. Len(os), MachineCrash(n) PROVE Promise!Crash
  <2>1. n \in durable .. Len(os)
    BY <1>1, <1>3 DEF MachineCrash
  <2> QED
    BY <1>3, <2>1 DEF MachineCrash, Promise!Crash, history
<1> QED
  BY <1>2, <1>3 DEF Crash

LEMMA PromiseStep ==
  ASSUME IInv, IInv', [Next]_vars
  PROVE  [Promise!Next]_(Promise!vars)
<1> USE DEF Promise!Next
<1>1. ASSUME NEW data \in Slices, AppendSlice(data) PROVE Promise!Next
  BY <1>1, PromiseAccept
<1>2. CASE Flush \/ Sync \/ Close \/ Destroy
  BY <1>2 DEF Flush, Sync, Close, Destroy, Enter, Return, Promise!vars, disk,
     history
<1>3. ASSUME NEW call, NEW status, CallOnClosed(call, status)
      PROVE  UNCHANGED Promise!vars
  BY <1>3 DEF CallOnClosed, Return, Promise!vars, disk, history
<1>4. CASE WriteAll \/ \E n \in 1 .. Len(src) : WriteSome(n)
  BY <1>4, PromiseTransfer
<1>5. CASE WriteFail
  <2>1. pc = "write" /\ pc' \in {"idle", "close"}
    BY <1>5 DEF WriteFail, Enter, Return
  <2> QED
    BY <1>5, <2>1 DEF WriteFail, Buffered, Promise!GiveUp, Promise!vars, disk
<1>6. CASE FsyncOk
  BY <1>6, PromiseSync
<1>7. CASE FsyncFail \/ CloseOk \/ CloseFail
  BY <1>7 DEF FsyncFail, CloseOk, CloseFail, Enter, Return, Promise!vars, disk,
     history
<1>8. CASE Crash
  BY <1>8, PromiseCrash
<1>9. CASE UNCHANGED vars
  BY <1>9 DEF vars, object, disk, history, Promise!vars
<1> QED
  BY <1>1, <1>2, <1>3, <1>4, <1>5, <1>6, <1>7, <1>8, <1>9
     DEF Next, Caller, System

(* Both classes, with every kind of file, implement the append-only file   *)
(* LevelDB is promised.                                                    *)
THEOREM ImplementsAppendOnlyFile == Spec => KeepsPromise
<1>1. Init => Promise!Init
  BY DEF Init, Promise!Init
<1>2. IInv /\ IInv' /\ [Next]_vars => [Promise!Next]_(Promise!vars)
  BY PromiseStep
<1> QED
  BY <1>1, <1>2, InvInit, InvStep, PTL DEF Spec, KeepsPromise, Promise!Spec

-----------------------------------------------------------------------------
(* The file below an encrypted one: the offset of the writer is the number *)
(* of bytes it was given while the file is open, and the stream is the     *)
(* magic number and the cipher of those bytes unless some were dropped.    *)
CipherInv ==
  /\ EncryptedTypeOK
  /\ stage \in {"new", "header"} => plain = <<>>
  /\ encrypted /\ fd = "open" => woff = Len(plain)
  /\ encrypted /\ ~gaveUp =>
       stream = IF stage = "new" THEN <<>> ELSE Magic \o Mcne!XorOn(plain, 0)

(* The bytes, with what XOR makes of any two.                              *)
XoredByte == Byte \union {Mcne!Xor(a, b) : a \in Byte, b \in Byte}

(* The byte of the key that the byte at a place meets.                     *)
KeyAt(p) == Key[(p % Len(Key)) + 1]

(* PerformXorOn keeps the length and gives byte k what its place demands.  *)
LEMMA XorOnBytes ==
  ASSUME NEW data \in Seq(Byte), NEW offs \in Nat
  PROVE  /\ Mcne!XorOn(data, offs) \in Seq(XoredByte)
         /\ Len(Mcne!XorOn(data, offs)) = Len(data)
         /\ \A k \in 1 .. Len(data) :
              Mcne!XorOn(data, offs)[k] = Mcne!Xor(data[k], KeyAt(offs + k - 1))
<1> DEFINE x == Mcne!XorOn(data, offs)
           n == Len(data)
<1>1. n \in Nat
  OBVIOUS
<1>2. x = [k \in 1 .. n |-> Mcne!Xor(data[k], KeyAt(offs + k - 1))]
  BY DEF Mcne!XorOn, KeyAt
<1>3. ASSUME NEW k \in 1 .. n PROVE Mcne!Xor(data[k], KeyAt(offs + k - 1)) \in XoredByte
  <2>1. data[k] \in Byte
    BY ElementOfSeq
  <2>2. KeyAt(offs + k - 1) \in Byte
    <3>1. Len(Key) \in Nat \ {0} /\ Key \in Seq(Byte) /\ offs + k - 1 \in Nat
      BY <1>1, EncryptedAssumption, EmptySeq
    <3>2. (offs + k - 1) % Len(Key) \in 0 .. Len(Key) - 1
      BY <3>1
    <3>3. ((offs + k - 1) % Len(Key)) + 1 \in 1 .. Len(Key)
      BY <3>1, <3>2
    <3> QED
      BY <3>1, <3>3, ElementOfSeq DEF KeyAt
  <2> QED
    BY <2>1, <2>2 DEF XoredByte
<1> HIDE DEF x, n
<1>4. x \in [1 .. n -> XoredByte]
  BY <1>2, <1>3
<1>5. x \in Seq(XoredByte) /\ Len(x) = n
  BY <1>1, <1>4
<1> QED
  BY <1>2, <1>5 DEF x, n

(* Ciphering piece by piece, each at the place it follows on, is ciphering *)
(* the whole.                                                              *)
LEMMA XorOnConcat ==
  ASSUME NEW s \in Seq(Byte), NEW t \in Seq(Byte)
  PROVE  Mcne!XorOn(s \o t, 0) = Mcne!XorOn(s, 0) \o Mcne!XorOn(t, Len(s))
<1> DEFINE w == Mcne!XorOn(s \o t, 0)
           x == Mcne!XorOn(s, 0)
           y == Mcne!XorOn(t, Len(s))
           m == Len(s)
           n == Len(t)
<1>1. /\ s \o t \in Seq(Byte) /\ Len(s \o t) = m + n /\ m \in Nat /\ n \in Nat
      /\ \A k \in 1 .. m + n : (s \o t)[k] = IF k <= m THEN s[k] ELSE t[k - m]
  BY ConcatProperties, LenProperties
<1>2. /\ w \in Seq(XoredByte) /\ Len(w) = m + n
      /\ \A k \in 1 .. m + n : w[k] = Mcne!Xor((s \o t)[k], KeyAt(0 + k - 1))
  <2>1. 0 \in Nat
    OBVIOUS
  <2> QED
    BY <1>1, <2>1, XorOnBytes
<1>3. /\ x \in Seq(XoredByte) /\ Len(x) = m
      /\ \A k \in 1 .. m : x[k] = Mcne!Xor(s[k], KeyAt(0 + k - 1))
  <2>1. 0 \in Nat
    OBVIOUS
  <2> QED
    BY <2>1, XorOnBytes
<1>4. /\ y \in Seq(XoredByte) /\ Len(y) = n
      /\ \A k \in 1 .. n : y[k] = Mcne!Xor(t[k], KeyAt(m + k - 1))
  BY <1>1, XorOnBytes
<1> HIDE DEF w, x, y, m, n
<1>5. /\ x \o y \in Seq(XoredByte) /\ Len(x \o y) = m + n
      /\ \A k \in 1 .. m + n : (x \o y)[k] = IF k <= m THEN x[k] ELSE y[k - m]
  BY <1>3, <1>4, ConcatProperties
<1>6. ASSUME NEW k \in 1 .. m + n PROVE w[k] = (x \o y)[k]
  <2>1. CASE k <= m
    <3>1. k \in 1 .. m
      BY <1>1, <2>1
    <3> QED
      BY <1>1, <1>2, <1>3, <1>5, <2>1, <3>1
  <2>2. CASE ~(k <= m)
    <3>1. k - m \in 1 .. n /\ 0 + k - 1 = m + (k - m) - 1
      BY <1>1, <2>2
    <3> QED
      BY <1>1, <1>2, <1>4, <1>5, <2>2, <3>1
  <2> QED
    BY <2>1, <2>2
<1>7. w = x \o y
  BY <1>2, <1>5, <1>6, SeqEqual
<1> QED
  BY <1>7 DEF w, x, y, m

(* What McneWritableFile does to the file below, one of its calls or none. *)
LEMMA BelowStep == woff \in Nat /\ EncryptedNext => [Next]_vars
<1> SUFFICES ASSUME woff \in Nat, EncryptedNext PROVE [Next]_vars
  OBVIOUS
<1>1. CASE WriteHeader
  BY <1>1, EncryptedAssumption DEF WriteHeader, Next, Caller
<1>2. CASE HeaderWritten
  BY <1>2 DEF HeaderWritten, Next, Caller
<1>3. ASSUME NEW data \in Plaintexts, AppendEncrypted(data) PROVE Next
  <2>1. woff \in 0 .. MaxBytes
    <3>1. Len(data) \in Nat
      BY FileAssumption, EncryptedAssumption
    <3> QED
      BY <1>3, <3>1, FileAssumption DEF AppendEncrypted
  <2> QED
    BY <1>3, <2>1, EncryptedAssumption DEF AppendEncrypted, Next, Caller
<1>4. ASSUME NEW data \in Plaintexts, AppendOnClosed(data) PROVE Next
  BY <1>4 DEF AppendOnClosed, Next, Caller
<1>5. ASSUME NEW data \in Plaintexts, AppendUnencrypted(data) PROVE Next
  BY <1>5, EncryptedAssumption DEF AppendUnencrypted, Next, Caller
<1>6. CASE PassOn
  BY <1>6 DEF PassOn, Next, Caller
<1>7. CASE Below
  BY <1>7 DEF Below, Next
<1> QED
  BY <1>1, <1>2, <1>3, <1>4, <1>5, <1>6, <1>7 DEF EncryptedNext

(* A file that is made has nothing in it.                                  *)
LEMMA CipherInit == EncryptedInit => IInv /\ CipherInv
<1> SUFFICES ASSUME EncryptedInit PROVE IInv /\ CipherInv
  OBVIOUS
<1>1. IInv
  BY InvInit DEF EncryptedInit
<1>2. EncryptedTypeOK
  BY <1>1, EmptySeq DEF EncryptedInit, IInv, EncryptedTypeOK
<1>3. encrypted => stage = "new"
  BY DEF EncryptedInit
<1>4. Len(plain) = 0
  BY DEF EncryptedInit
<1> QED
  BY <1>1, <1>2, <1>3, <1>4 DEF EncryptedInit, Init, CipherInv

(* An Append of McneWritableFile, at the place it counted.                 *)
LEMMA CipherAppend ==
  ASSUME IInv, CipherInv, TypeOK', NEW data \in Plaintexts, AppendEncrypted(data)
  PROVE  CipherInv'
<1>1. /\ data \in Seq(Byte) /\ Magic \in Seq(Byte) /\ plain \in Seq(Byte)
      /\ woff \in Nat /\ Len(data) \in Nat
  BY FileAssumption, EncryptedAssumption DEF CipherInv, EncryptedTypeOK
<1>2. /\ encrypted /\ stage = "open" /\ fd = "open" /\ fd' = "open"
      /\ woff' = woff + Len(data) /\ plain' = plain \o data
      /\ stream' = stream \o Mcne!XorOn(data, woff)
      /\ UNCHANGED <<encrypted, stage, gaveUp>>
  BY DEF AppendEncrypted, AppendSlice
<1>3. plain' \in Seq(Byte) /\ Len(plain') = Len(plain) + Len(data)
  BY <1>1, <1>2, ConcatProperties
<1>4. EncryptedTypeOK'
  BY <1>1, <1>2, <1>3 DEF CipherInv, EncryptedTypeOK
<1>5. woff = Len(plain) /\ woff' = Len(plain')
  BY <1>2, <1>3 DEF CipherInv
<1>6. ASSUME ~gaveUp PROVE stream' = Magic \o Mcne!XorOn(plain', 0)
  <2> DEFINE x == Mcne!XorOn(plain, 0)
             y == Mcne!XorOn(data, woff)
  <2>1. stream = Magic \o x
    BY <1>2, <1>6 DEF CipherInv
  <2>2. x \in Seq(XoredByte) /\ y \in Seq(XoredByte)
    <3>1. 0 \in Nat
      OBVIOUS
    <3> QED
      BY <1>1, <3>1, XorOnBytes
  <2>3. Magic \in Seq(XoredByte)
    <3>1. Byte \subseteq XoredByte
      BY DEF XoredByte
    <3> QED
      BY <1>1, <3>1
  <2>4. (Magic \o x) \o y = Magic \o (x \o y)
    BY <2>2, <2>3, ConcatAssociative
  <2>5. Mcne!XorOn(plain', 0) = x \o y
    BY <1>1, <1>2, <1>5, XorOnConcat
  <2> QED
    BY <1>2, <2>1, <2>4, <2>5
<1> QED
  BY <1>2, <1>4, <1>5, <1>6 DEF CipherInv

(* Every step keeps the cipher and the place in it.                        *)
LEMMA CipherStep ==
  ASSUME IInv, CipherInv, TypeOK', [EncryptedNext]_<<vars, wrapper>>
  PROVE  CipherInv'
<1> USE DEF CipherInv, EncryptedTypeOK
<1>1. CASE WriteHeader
  <2>1. /\ stage = "new" /\ stage' = "header" /\ UNCHANGED <<encrypted, woff, plain, gaveUp, fd>>
        /\ stream' = stream \o Magic /\ plain = <<>>
    BY <1>1 DEF WriteHeader, AppendSlice
  <2>2. Magic \in Seq(Byte)
    BY FileAssumption, EncryptedAssumption
  <2>3. <<>> \o Magic = Magic /\ Magic \o <<>> = Magic
    BY <2>2, ConcatEmptySeq
  <2>4. Mcne!XorOn(<<>>, 0) = <<>>
    BY EmptySeq, XorOnBytes
  <2> QED
    BY <2>1, <2>3, <2>4
<1>2. CASE HeaderWritten
  <2>1. /\ stage = "header" /\ stage' \in {"open", "refused"}
        /\ UNCHANGED <<encrypted, woff, plain, gaveUp, fd, stream>>
    BY <1>2 DEF HeaderWritten, Destroy, vars, object, history
  <2> QED
    BY <2>1
<1>3. ASSUME NEW data \in Plaintexts, AppendEncrypted(data) PROVE CipherInv'
  BY <1>3, CipherAppend
<1>4. ASSUME NEW data \in Plaintexts, AppendOnClosed(data) PROVE CipherInv'
  <2>1. Len(data) \in Nat
    BY FileAssumption, EncryptedAssumption
  <2>2. /\ fd = "none" /\ fd' = "none" /\ stream' = stream /\ stage = "open"
        /\ woff' = woff + Len(data) /\ UNCHANGED <<encrypted, stage, plain, gaveUp>>
    BY <1>4 DEF AppendOnClosed, CallOnClosed, history
  <2> QED
    BY <2>1, <2>2
<1>5. ASSUME NEW data \in Plaintexts, AppendUnencrypted(data) PROVE CipherInv'
  BY <1>5 DEF AppendUnencrypted, wrapper
<1>6. CASE PassOn
  <2>1. UNCHANGED <<encrypted, stage, woff, plain, gaveUp, stream, fd>>
    BY <1>6 DEF PassOn, Flush, Sync, Close, Destroy, CallOnClosed, wrapper, history
  <2> QED
    BY <2>1
<1>7. CASE Below
  <2>1. /\ UNCHANGED <<encrypted, stage, woff, plain>>
        /\ gaveUp' = (gaveUp \/ stream' # stream)
    BY <1>7 DEF Below
  <2>2. fd' = "open" => fd = "open"
    BY <1>7 DEF Below, System, Crash, WriteSome, WriteAll, WriteFail, FsyncOk, FsyncFail,
                CloseOk, CloseFail, ProcessCrash, MachineCrash, Enter, Return
  <2>3. gaveUp' \in BOOLEAN
    BY <2>1, Zenon
  <2>4. ~gaveUp' => ~gaveUp /\ stream' = stream
    BY <2>1, Zenon
  <2> QED
    BY <2>1, <2>2, <2>3, <2>4
<1>8. CASE UNCHANGED <<vars, wrapper>>
  BY <1>8 DEF vars, object, history, wrapper
<1> QED
  BY <1>1, <1>2, <1>3, <1>4, <1>5, <1>6, <1>7, <1>8 DEF EncryptedNext

(* The invariants of the file and of its wrapper.                          *)
LEMMA CipherInvariance == EncryptedSpec => [](IInv /\ CipherInv)
<1>1. IInv /\ CipherInv /\ [EncryptedNext]_<<vars, wrapper>> => (IInv /\ CipherInv)'
  <2> SUFFICES ASSUME IInv, CipherInv, [EncryptedNext]_<<vars, wrapper>>
               PROVE  IInv' /\ CipherInv'
    OBVIOUS
  <2>1. [Next]_vars
    BY BelowStep DEF CipherInv, EncryptedTypeOK
  <2>2. IInv'
    BY <2>1, InvStep
  <2>3. TypeOK'
    BY <2>2 DEF IInv
  <2> QED
    BY <2>2, <2>3, CipherStep
<1> QED
  BY <1>1, CipherInit, PTL DEF EncryptedSpec

(* Whatever McneWrapper does, the file below it is one of the environment  *)
(* as LevelDB would use it: every theorem above holds of it.               *)
THEOREM EncryptedIsWritable == EncryptedSpec => Spec
<1>1. EncryptedInit => Init
  BY DEF EncryptedInit
<1>2. CipherInv /\ [EncryptedNext]_<<vars, wrapper>> => [Next]_vars
  BY BelowStep DEF CipherInv, EncryptedTypeOK
<1> QED
  BY <1>1, <1>2, CipherInvariance, PTL DEF EncryptedSpec, Spec

(* The variables of McneWritableFile and of the file below keep their type. *)
THEOREM EncryptedTypeCorrect == EncryptedSpec => []EncryptedTypeOK
<1>1. CipherInv => EncryptedTypeOK
  BY DEF CipherInv
<1> QED
  BY <1>1, CipherInvariance, PTL

(* The file holds the magic number and then the plaintext, each byte under *)
(* the key byte of its own place, or a prefix of that: the offset that     *)
(* McneWritableFile counts stays that of the file through short writes,    *)
(* failures, retries and crashes, as long as no Append dropped bytes.      *)
THEOREM OffsetFollowsFile == EncryptedSpec => []CipherFollowsFile
<1>1. ASSUME IInv, CipherInv PROVE CipherFollowsFile
  <2> DEFINE whole == Magic \o Mcne!XorOn(plain, 0)
  <2> SUFFICES ASSUME encrypted, ~gaveUp
               PROVE  Len(os) <= Len(whole) /\ os = SubSeq(whole, 1, Len(os))
    BY DEF CipherFollowsFile
  <2>1. os = SubSeq(stream, 1, Len(os)) /\ Len(os) \in 0 .. Len(stream)
    BY <1>1, OsIsPrefix DEF IInv
  <2>2. CASE stage # "new"
    BY <1>1, <2>1, <2>2 DEF CipherInv
  <2>3. CASE stage = "new"
    <3>1. stream = <<>> /\ os \in Seq(Byte)
      BY <1>1, <2>3 DEF CipherInv, IInv, TypeOK
    <3>2. Len(os) = 0 /\ os = <<>>
      BY <2>1, <3>1, EmptySeq
    <3>3. whole \in Seq(XoredByte)
      <4>1. Mcne!XorOn(plain, 0) \in Seq(XoredByte)
        <5>1. 0 \in Nat /\ plain \in Seq(Byte)
          BY <1>1 DEF CipherInv, EncryptedTypeOK
        <5> QED
          BY <5>1, XorOnBytes
      <4>2. Magic \in Seq(Byte) /\ Byte \subseteq XoredByte
        BY FileAssumption, EncryptedAssumption DEF XoredByte
      <4> QED
        BY <4>1, <4>2, ConcatProperties
    <3> HIDE DEF whole
    <3> QED
      BY <3>2, <3>3, SubSeqEmpty, LenProperties
  <2> QED
    BY <2>2, <2>3
<1> QED
  BY <1>1, CipherInvariance, PTL

(* Written through McneWrapper, too, a file is the append-only file that   *)
(* LevelDB is promised.                                                    *)
THEOREM EncryptedKeepsPromise == EncryptedSpec => KeepsPromise
  BY EncryptedIsWritable, ImplementsAppendOnlyFile

(* So an encrypted file keeps what it accepted, in order and once, leaves  *)
(* a prefix after a crash, and is complete where a plain one is.           *)
THEOREM EncryptedKeepsBytes ==
  EncryptedSpec =>
    [](StreamIntegrity /\ CrashLeavesPrefix /\ SyncCoversStream /\ ClosedIsComplete)
  BY EncryptedIsWritable, NoByteLostOrRepeated, CrashSafety, SyncSafety, CloseSafety, PTL
=============================================================================
