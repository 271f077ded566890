---------------------------- MODULE WritableFile ----------------------------
(***************************************************************************)
(* One file that the Emscripten environment opened for writing:            *)
(* EmWritableFile when the user-space buffer is disabled                   *)
(* (FileWriteBuffer = 0), EmBufferedWritableFile otherwise.                *)
(*                                                                         *)
(* One call is in progress at a time (LevelDB serialises the calls on a    *)
(* file), but every call into Node's fs module is a step of its own, so    *)
(* that a crash may fall between any two of them.  Each such call may      *)
(* fail, and fs.writeSync may write less than it was given.                *)
(*                                                                         *)
(* The two classes run the same loop over different bytes: src is          *)
(* m_buffer for the buffered class and, for EmWritableFile, the slice that *)
(* the Append in progress was given.                                       *)
(***************************************************************************)
EXTENDS Naturals, Sequences

CONSTANTS
  Byte,             \* the values of a byte
  Slices,           \* the (non-empty) slices callers give to Append
  FileWriteBuffer,  \* g_fileWriteBuffer, in bytes, where it is not 0
  Kinds,            \* the kinds of file opened
  MaxBytes          \* bound of the model: bytes given to Append in all

ASSUME FileAssumption ==
  /\ Slices \subseteq Seq(Byte) \ {<<>>}
  /\ FileWriteBuffer \in Nat \ {0}
  /\ Kinds \subseteq {"raw", "block", "log"}
  /\ MaxBytes \in Nat

VARIABLES
  kind,     \* "raw": EmWritableFile.  EmBufferedWritableFile: "log" if
            \* m_immediate is set, "block" if not
  fd,       \* m_fd: "open", or "none" for -1
  handle,   \* what m_fd denotes in the process: "open" or "released"
  src,      \* m_buffer, or the slice being written
  offset,   \* local of the write loop: how much of src is written
  pc,       \* "idle", in a call ("write", "fsync", "close"), or gone
  op,       \* the call in progress, or the last one
  result,   \* the Status of the last call that returned
  os,       \* the file as the operating system holds it
  durable,  \* length of the prefix of os that is on stable storage
  stream,   \* history: the bytes this file has accepted, in order
  flushed,  \* history: Len(stream) when Flush() last returned OK
  synced    \* history: Len(stream) when Sync() last returned OK

object == <<kind, fd, handle, src, offset, pc, op, result>>
disk == <<os, durable>>
history == <<stream, flushed, synced>>
vars == <<object, disk, history>>

Buffered == kind # "raw"
Immediate == kind = "log"

Calls == {"Append", "Flush", "Sync", "Close", "Destroy"}
Gone == pc \in {"destroyed", "killed", "crashed"}

(* The bytes of src the write loop has still to pass on. *)
Rest == SubSeq(src, offset + 1, Len(src))

(* The object as New{Writable,Appendable}File returns it on a new file:    *)
(* unbuffered when g_fileWriteBuffer is 0, else immediate if               *)
(* ParseFileName (LevelDB's, external) takes the name for a log's.         *)
Init ==
  /\ kind \in Kinds
  /\ fd = "open" /\ handle = "open"
  /\ src = <<>> /\ offset = 0
  /\ pc = "idle" /\ op = "Append" /\ result = "ok"
  /\ os = <<>> /\ durable = 0
  /\ stream = <<>> /\ flushed = 0 /\ synced = 0

-----------------------------------------------------------------------------
Enter(call, step) ==
  /\ pc' = step
  /\ op' = call
  /\ offset' = 0

(* Mutants: a definition named Bad... is the next one with a bug.  No       *)
(* specification uses it; it shows that a property would notice the bug.   *)
BadReturn(call, status) ==
  /\ pc' = "idle"
  /\ op' = status
  /\ offset' = 0
  /\ result' = call

Return(call, status) ==
  /\ pc' = "idle"
  /\ op' = call
  /\ offset' = 0
  /\ result' = status

(* Append: a full buffer starts a flush; EmWritableFile always writes. *)
AppendSlice(data) ==
  /\ pc = "idle" /\ fd = "open"
  /\ Len(stream) + Len(data) <= MaxBytes
  /\ src' = src \o data
  /\ stream' = stream \o data
  /\ IF Buffered /\ Len(src') < FileWriteBuffer
       THEN Return("Append", "ok")
       ELSE Enter("Append", "write") /\ UNCHANGED result
  /\ UNCHANGED <<kind, fd, handle, disk, flushed, synced>>

(* Flush: nothing to do unless the buffer is an immediate one. *)
Flush ==
  /\ pc = "idle"
  /\ IF Buffered /\ Immediate /\ src # <<>>
       THEN Enter("Flush", "write") /\ UNCHANGED <<result, flushed>>
       ELSE Return("Flush", "ok") /\ flushed' = Len(stream)
  /\ UNCHANGED <<kind, fd, handle, src, disk, stream, synced>>

BadSync ==  \* fsync without Flush()
  /\ pc = "idle" /\ fd = "open"
  /\ Enter("Sync", "fsync")
  /\ UNCHANGED <<kind, fd, handle, src, result, disk, history>>

(* Sync: Flush() first, then fsync. *)
Sync ==
  /\ pc = "idle" /\ fd = "open"
  /\ IF Buffered /\ Immediate /\ src # <<>>
       THEN Enter("Sync", "write")
       ELSE Enter("Sync", "fsync")
  /\ UNCHANGED <<kind, fd, handle, src, result, disk, history>>

BadClose ==  \* drops the buffer
  /\ pc = "idle" /\ fd = "open"
  /\ Enter("Close", "close")
  /\ UNCHANGED <<kind, fd, handle, src, result, disk, history>>

(* Close: the buffer goes out first, and only then the descriptor. *)
Close ==
  /\ pc = "idle" /\ fd = "open"
  /\ IF Buffered /\ src # <<>>
       THEN Enter("Close", "write")
       ELSE Enter("Close", "close")
  /\ UNCHANGED <<kind, fd, handle, src, result, disk, history>>

(* The destructor flushes like Close, but goes on whatever the outcome. *)
Destroy ==
  /\ pc = "idle"
  /\ \/ fd = "none" /\ Enter("Destroy", "destroyed")
     \/ fd = "open" /\ Buffered /\ src # <<>> /\ Enter("Destroy", "write")
     \/ fd = "open" /\ ~(Buffered /\ src # <<>>) /\ Enter("Destroy", "close")
  /\ UNCHANGED <<kind, fd, handle, src, result, disk, history>>

(* Append, Sync, Close on a closed file (fd = -1) change nothing. *)
CallOnClosed(call, status) ==
  /\ pc = "idle" /\ fd = "none"
  /\ Return(call, status)
  /\ UNCHANGED <<kind, fd, handle, src, disk, history>>

-----------------------------------------------------------------------------
(* fs.writeSync accepted n bytes, possibly fewer than it was given. *)
WriteSome(n) ==
  /\ pc = "write" /\ handle = "open"
  /\ offset + n < Len(src)
  /\ os' = os \o SubSeq(src, offset + 1, offset + n)
  /\ offset' = offset + n
  /\ UNCHANGED <<kind, fd, handle, src, pc, op, result, durable, history>>

(* fs.writeSync accepted the rest: the buffer is cleared, the call goes on. *)
WriteAll ==
  /\ pc = "write" /\ handle = "open"
  /\ os' = os \o Rest
  /\ src' = <<>>
  /\ \/ op \in {"Append", "Flush"} /\ Return(op, "ok")
     \/ op = "Sync" /\ Enter(op, "fsync") /\ UNCHANGED result
     \/ op \in {"Close", "Destroy"} /\ Enter(op, "close") /\ result' = "ok"
  /\ flushed' = IF op = "Flush" THEN Len(stream) ELSE flushed
  /\ UNCHANGED <<kind, fd, handle, durable, stream, synced>>

BadWriteFail ==  \* the written prefix is not erased: a retry repeats it
  /\ pc = "write"
  /\ IF Buffered
       THEN UNCHANGED <<src, stream>>
       ELSE src' = <<>> /\ stream' = os
  /\ IF op = "Destroy"
       THEN Enter(op, "close") /\ result' = "error"
       ELSE Return(op, "error")
  /\ UNCHANGED <<kind, fd, handle, disk, flushed, synced>>

(* fs.writeSync threw, or made no progress.  The buffer keeps what was not *)
(* written; EmWritableFile gives the rest of the slice up.                 *)
WriteFail ==
  /\ pc = "write"
  /\ IF Buffered
       THEN src' = Rest /\ UNCHANGED stream
       ELSE src' = <<>> /\ stream' = os
  /\ IF op = "Destroy"
       THEN Enter(op, "close") /\ result' = "error"
       ELSE Return(op, "error")
  /\ UNCHANGED <<kind, fd, handle, disk, flushed, synced>>

FsyncOk ==
  /\ pc = "fsync" /\ handle = "open"
  /\ durable' = Len(os)
  /\ synced' = Len(stream)
  /\ Return("Sync", "ok")
  /\ UNCHANGED <<kind, fd, handle, src, os, stream, flushed>>

FsyncFail ==
  /\ pc = "fsync"
  /\ Return("Sync", "error")
  /\ UNCHANGED <<kind, fd, handle, src, disk, history>>

CloseOk ==
  /\ pc = "close" /\ handle = "open"
  /\ handle' = "released"
  /\ IF op = "Destroy"
       THEN Enter(op, "destroyed") /\ UNCHANGED <<kind, fd, result>>
       ELSE Return(op, "ok") /\ fd' = "none"
  /\ UNCHANGED <<kind, src, disk, history>>

(* fs.closeSync threw.  m_fd is kept, whether or not the system released   *)
(* the descriptor.                                                         *)
CloseFail ==
  /\ pc = "close"
  /\ handle' \in {handle, "released"}
  /\ IF op = "Destroy"
       THEN Enter(op, "destroyed") /\ UNCHANGED result
       ELSE Return(op, "error")
  /\ UNCHANGED <<kind, fd, src, disk, history>>

-----------------------------------------------------------------------------
(* The process dies: what the object held is lost, the system's copy stays. *)
ProcessCrash ==
  /\ ~Gone
  /\ pc' = "killed"
  /\ UNCHANGED <<kind, fd, handle, src, offset, op, result, disk, history>>

(* The machine stops: only a prefix no shorter than the synced one stays.  *)
MachineCrash(n) ==
  /\ pc # "crashed"
  /\ n >= durable
  /\ pc' = "crashed"
  /\ os' = SubSeq(os, 1, n)
  /\ UNCHANGED <<kind, fd, handle, src, offset, op, result, durable, history>>

Crash == ProcessCrash \/ \E n \in 0 .. Len(os) : MachineCrash(n)

Caller ==
  \/ \E data \in Slices : AppendSlice(data)
  \/ Flush \/ Sync \/ Close \/ Destroy
  \/ CallOnClosed("Append", "error")
  \/ CallOnClosed("Sync", "error")
  \/ CallOnClosed("Close", "ok")

System ==
  \/ \E n \in 1 .. Len(src) : WriteSome(n)
  \/ WriteAll \/ WriteFail
  \/ FsyncOk \/ FsyncFail
  \/ CloseOk \/ CloseFail

Next == Caller \/ System \/ Crash

Spec == Init /\ [][Next]_vars

-----------------------------------------------------------------------------
TypeOK ==
  /\ kind \in Kinds
  /\ fd \in {"open", "none"} /\ handle \in {"open", "released"}
  /\ src \in Seq(Byte) /\ os \in Seq(Byte) /\ stream \in Seq(Byte)
  /\ offset \in Nat /\ durable \in Nat
  /\ flushed \in Nat /\ synced \in Nat
  /\ pc \in {"idle", "write", "fsync", "close",
             "destroyed", "killed", "crashed"}
  /\ op \in Calls
  /\ result \in {"ok", "error"}

(* What LevelDB is promised of a writable file.                            *)
Promise == INSTANCE AppendOnlyFile WITH
             alive <- pc \notin {"killed", "crashed"}
KeepsPromise == Promise!Spec

(* The file and what is still held back are together exactly the bytes     *)
(* accepted: through any mix of short writes, failures and retries none is *)
(* lost, repeated or moved ("a later retry cannot duplicate bytes into the *)
(* log", m_FlushBuffer).                                                   *)
StreamIntegrity == ~Gone => os \o Rest = stream

(* Whatever a crash or a destructor leaves is a prefix of the stream.      *)
CrashLeavesPrefix ==
  Gone => Len(os) <= Len(stream) /\ os = SubSeq(stream, 1, Len(os))

(* A byte appended before a Sync() that returned OK is on stable storage,  *)
(* and is in the file after any crash: with the option sync a write "will  *)
(* be flushed ... (by calling WritableFile::Sync()) before the write is    *)
(* considered complete" (main.d.ts).                                       *)
SyncedIsDurable == synced <= durable /\ synced <= Len(os)

(* Of the files whose Flush() empties the buffer (all but the block files) *)
(* Sync(), which calls Flush() first, holds that, and a byte appended      *)
(* before a Flush() that returned OK survives the end of the process.      *)
WritesThrough == kind # "block"
FlushedIsWritten == pc # "crashed" => flushed <= Len(os)
SyncCoversStream == WritesThrough => SyncedIsDurable /\ FlushedIsWritten

(* A file that was closed holds every byte it accepted, and a destroyed    *)
(* one too, unless the destructor's own flush failed.                      *)
DestroyedIsComplete == pc = "destroyed" /\ result = "ok" => os = stream
ClosedIsComplete ==
  (pc # "crashed" /\ fd = "none" => os = stream) /\ DestroyedIsComplete
=============================================================================
