------------------------------ MODULE McneFile ------------------------------
(***************************************************************************)
(* One file of an encrypted (MCNE) database, from the McneWritableFile     *)
(* that writes it to the McneSequentialFile and McneRandomAccessFile that  *)
(* read it back.  Each class keeps its own idea of where in the file it is *)
(* (offset), and the key is applied at that offset: the file can be read   *)
(* only if they agree.                                                     *)
(*                                                                         *)
(* The magic number comes first and is not encrypted; it is kept apart     *)
(* here, and offsets count what follows it.                                *)
(***************************************************************************)
EXTENDS Cipher

CONSTANTS
  Bits,        \* the bits of a byte
  Slices,      \* what LevelDB appends
  Retains,     \* a failed Append of the file below keeps all its bytes
  ShortReads,  \* may a read return less than there is
  SkipsBreak,  \* may a Skip fail after some of its chunks were read
  MaxBytes     \* bound of the model, on every offset

Byte == SUBSET Bits

ASSUME McneAssumption ==
  /\ Key \in Seq(Byte) \ {<<>>}
  /\ Slices \subseteq Seq(Byte) \ {<<>>}
  /\ Retains \in BOOLEAN /\ ShortReads \in BOOLEAN /\ SkipsBreak \in BOOLEAN
  /\ MaxBytes \in Nat

VARIABLES
  phase,   \* "write", then "read", or "corrupt"
  below,   \* the bytes the file below has accepted, after the magic number
  woff,    \* McneWritableFile::offset
  failed,  \* an Append returned an error
  stream,  \* history: the plaintext of the bytes accepted
  pos,     \* the sequential file's position below
  roff,    \* McneSequentialFile::offset
  got,     \* what the last read returned
  from     \* the place in the plaintext the last read was asked for

writer == <<below, woff, failed, stream>>
reader == <<pos, roff, got, from>>
vars == <<phase, writer, reader>>

(* NewWritableFile, the magic number appended. *)
Init ==
  /\ phase = "write"
  /\ below = <<>> /\ woff = 0 /\ failed = FALSE /\ stream = <<>>
  /\ pos = 0 /\ roff = 0 /\ got = <<>> /\ from = 0

-----------------------------------------------------------------------------
AppendOk(data) ==
  /\ phase = "write" /\ woff + Len(data) <= MaxBytes
  /\ below' = below \o XorOn(data, woff)
  /\ stream' = stream \o data
  /\ woff' = woff + Len(data)
  /\ UNCHANGED <<phase, failed, reader>>

(* Mutants: a definition named Bad... is the next one with a bug.  No       *)
(* specification uses it; it shows that a property would notice the bug.   *)
BadAppendFail(data, n) ==  \* the offset stays behind
  /\ phase = "write" /\ woff + Len(data) <= MaxBytes
  /\ IF Retains THEN n = Len(data) ELSE n < Len(data)
  /\ below' = below \o SubSeq(XorOn(data, woff), 1, n)
  /\ stream' = stream \o SubSeq(data, 1, n)
  /\ failed' = TRUE
  /\ UNCHANGED <<phase, woff, reader>>

(* The offset moves by the whole slice although Append returned an error,  *)
(* of which the file below may have kept n bytes.                          *)
AppendFail(data, n) ==
  /\ phase = "write" /\ woff + Len(data) <= MaxBytes
  /\ IF Retains THEN n = Len(data) ELSE n < Len(data)
  /\ below' = below \o SubSeq(XorOn(data, woff), 1, n)
  /\ stream' = stream \o SubSeq(data, 1, n)
  /\ woff' = woff + Len(data)
  /\ failed' = TRUE
  /\ UNCHANGED <<phase, reader>>

(* Close, or a crash that leaves the magic number and n bytes; then the    *)
(* file is opened for reading.                                             *)
Reopen(n) ==
  /\ phase = "write"
  /\ phase' = "read"
  /\ below' = SubSeq(below, 1, n)
  /\ UNCHANGED <<woff, failed, stream, reader>>

(* A crash within the magic number: the four bytes compared with it are    *)
(* partly uninitialised, and the file, empty, is refused or not.           *)
ReopenTorn ==
  /\ phase = "write"
  /\ phase' \in {"read", "corrupt"}
  /\ below' = <<>>
  /\ UNCHANGED <<woff, failed, stream, reader>>

-----------------------------------------------------------------------------
(* How many bytes there are of n at p, and what a read of them may return. *)
Available(p, n) ==
  IF p >= Len(below) THEN 0
  ELSE IF p + n <= Len(below) THEN n ELSE Len(below) - p

Chunks(p, n) ==
  {SubSeq(below, p + 1, p + k) :
     k \in IF ShortReads /\ Available(p, n) > 0
             THEN 1 .. Available(p, n) ELSE {Available(p, n)}}

BadSequentialRead(n) ==  \* the offset runs backwards
  /\ phase = "read" /\ roff + n <= MaxBytes
  /\ \E chunk \in Chunks(pos, n) :
       /\ got' = XorOn(chunk, roff)
       /\ pos' = pos + Len(chunk)
  /\ from' = pos
  /\ roff' = roff - n
  /\ UNCHANGED <<phase, writer>>

SequentialRead(n) ==
  /\ phase = "read" /\ roff + n <= MaxBytes
  /\ \E chunk \in Chunks(pos, n) :
       /\ got' = XorOn(chunk, roff)
       /\ pos' = pos + Len(chunk)
  /\ from' = pos
  /\ roff' = roff + n
  /\ UNCHANGED <<phase, writer>>

BadSequentialSkip(n) ==  \* the key does not follow
  /\ phase = "read" /\ roff + n <= MaxBytes
  /\ pos' = pos + Available(pos, n)
  /\ UNCHANGED <<phase, writer, roff, got, from>>

(* The file below skips in a loop, so only the end of the file stops it.   *)
SequentialSkip(n) ==
  /\ phase = "read" /\ roff + n <= MaxBytes
  /\ pos' = pos + Available(pos, n)
  /\ roff' = roff + n
  /\ UNCHANGED <<phase, writer, got, from>>

RandomRead(offset, n) ==
  /\ phase = "read"
  /\ \E chunk \in Chunks(offset, n) : got' = XorOn(chunk, offset)
  /\ from' = offset
  /\ UNCHANGED <<phase, writer, pos, roff>>

(* A read that fails returns nothing and moves nothing.                    *)
ReadFails(offset) ==
  /\ phase = "read"
  /\ got' = <<>> /\ from' = offset
  /\ UNCHANGED <<phase, writer, pos, roff>>

(* A Skip that fails leaves the offset, and the position below after the   *)
(* chunks it has read.                                                     *)
SkipFails(n) ==
  /\ phase = "read"
  /\ \E k \in IF SkipsBreak THEN 0 .. Available(pos, n) ELSE {0} : pos' = pos + k
  /\ UNCHANGED <<phase, writer, roff, got, from>>

Next ==
  \/ \E data \in Slices :
       \/ AppendOk(data)
       \/ \E n \in 0 .. Len(data) : AppendFail(data, n)
  \/ \E n \in 0 .. Len(below) : Reopen(n)
  \/ ReopenTorn
  \/ \E n \in 1 .. MaxBytes :
       \/ SequentialRead(n) \/ SequentialSkip(n) \/ SkipFails(n)
       \/ \E offset \in 0 .. MaxBytes : RandomRead(offset, n)
  \/ \E offset \in 0 .. MaxBytes : ReadFails(offset)

Spec == Init /\ [][Next]_vars

-----------------------------------------------------------------------------
TypeOK ==
  /\ phase \in {"write", "read", "corrupt"}
  /\ below \in Seq(Byte) /\ stream \in Seq(Byte) /\ got \in Seq(Byte)
  /\ woff \in Nat /\ roff \in Nat /\ pos \in Nat /\ from \in Nat
  /\ failed \in BOOLEAN

Intact == Retains \/ ~failed

(* What reached the file deciphers to what LevelDB appended: the writer's  *)
(* offset never drifts from the file, however appends fail, as long as the *)
(* file below keeps what a failed append gave it.                          *)
FileDeciphers ==
  Intact =>
    /\ Len(below) <= Len(stream)
    /\ XorOn(below, 0) = SubSeq(stream, 1, Len(below))

(* A read returns the plaintext of the place it asks for, wherever reads,  *)
(* skips and the end of the file have left the sequential offset.          *)
ReadsPlaintext ==
  Intact => got = SubSeq(stream, from + 1, from + Len(got))
=============================================================================
