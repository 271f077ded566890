--------------------------- MODULE AppendOnlyFile ---------------------------
(***************************************************************************)
(* What LevelDB is promised of a file opened for writing, whatever is done *)
(* in between: the bytes it appends reach the file in order and once, a    *)
(* successful Sync() covers all of them, and a crash keeps at least what   *)
(* was synced.                                                             *)
(***************************************************************************)
EXTENDS Naturals, Sequences

CONSTANTS
  Slices,   \* the slices callers append
  Kinds     \* the kinds of file

VARIABLES
  kind,     \* "raw", "block" or "log", for good
  stream,   \* the bytes accepted, in order
  os,       \* the file
  durable,  \* length of its prefix on stable storage
  synced,   \* Len(stream) when Sync() last succeeded
  alive     \* the writer has not crashed

vars == <<kind, stream, os, durable, synced, alive>>

Init ==
  /\ kind \in Kinds /\ alive = TRUE
  /\ stream = <<>> /\ os = <<>> /\ durable = 0 /\ synced = 0

Accept == \E data \in Slices :
  /\ alive
  /\ stream' = stream \o data
  /\ UNCHANGED <<kind, os, durable, synced, alive>>

Transfer ==
  /\ alive
  /\ \E n \in Len(os) + 1 .. Len(stream) : os' = SubSeq(stream, 1, n)
  /\ UNCHANGED <<kind, stream, durable, synced, alive>>

(* A failed write of an unbuffered file gives up what it has not written. *)
GiveUp ==
  /\ alive /\ kind = "raw"
  /\ stream' = os
  /\ UNCHANGED <<kind, os, durable, synced, alive>>

(* Sync() covers every byte accepted; of a block file, what was flushed. *)
Sync ==
  /\ alive
  /\ kind # "block" => os = stream
  /\ durable' = Len(os)
  /\ synced' = Len(stream)
  /\ UNCHANGED <<kind, stream, os, alive>>

Crash ==
  /\ alive' = FALSE
  /\ \E n \in durable .. Len(os) : os' = SubSeq(os, 1, n)
  /\ UNCHANGED <<kind, stream, durable, synced>>

Next == Accept \/ Transfer \/ GiveUp \/ Sync \/ Crash

Spec == Init /\ [][Next]_vars
=============================================================================
