--------------------------- MODULE McneFileProofs ---------------------------
(***************************************************************************)
(* Proofs about McneFile, for every key, every set of slices and files of  *)
(* any length: what reaches the file deciphers to what was appended, and   *)
(* reads return it.                                                        *)
(***************************************************************************)
EXTENDS McneFile, SequenceTheorems, TLAPS

(* The byte of the key that the byte at a place meets. *)
KeyAt(p) == Key[(p % Len(Key)) + 1]

(* Byte k of the file is byte k of the stream, XORed with its key byte.    *)
Ciphered ==
  /\ Len(below) <= Len(stream)
  /\ \A k \in 1 .. Len(below) : below[k] = Xor(stream[k], KeyAt(k - 1))

(* While the file is written, the writer's offset is its length.           *)
WriterInStep ==
  phase = "write" => Len(below) = woff /\ Len(stream) = woff

(* Reads are short only at the end of the file, and Skips fail whole.      *)
ReadsWhole == ~ShortReads /\ ~SkipsBreak

(* The reader's offset is its position below, or both are past the end.    *)
ReaderInStep ==
  /\ phase = "write" => pos = 0 /\ roff = 0 /\ got = <<>>
  /\ pos <= Len(below)
  /\ ReadsWhole => roff = pos \/ (pos = Len(below) /\ roff >= pos)

(* What the last read returned is in the file and deciphered.              *)
LastRead ==
  /\ Len(got) > 0 => from + Len(got) <= Len(stream)
  /\ \A k \in 1 .. Len(got) : got[k] = stream[from + k]

IInv ==
  /\ TypeOK
  /\ ReaderInStep
  /\ Intact => Ciphered /\ WriterInStep
  /\ Intact /\ ReadsWhole => LastRead

-----------------------------------------------------------------------------
(* XORing twice with one byte gives the byte back.                         *)
LEMMA XorTwice ==
  ASSUME NEW a \in Byte, NEW b \in Byte
  PROVE  Xor(a, b) \in Byte /\ Xor(Xor(a, b), b) = a
  BY DEF Xor, Byte

(* The key has a byte for every place.                                     *)
LEMMA KeyIsByte ==
  ASSUME NEW p \in Nat
  PROVE  KeyAt(p) \in Byte
<1>1. Len(Key) \in Nat \ {0} /\ Key \in Seq(Byte)
  BY McneAssumption, EmptySeq
<1>2. p % Len(Key) \in 0 .. Len(Key) - 1
  BY <1>1
<1>3. (p % Len(Key)) + 1 \in 1 .. Len(Key)
  BY <1>1, <1>2
<1> QED
  BY <1>1, <1>3, ElementOfSeq DEF KeyAt

(* PerformXorOn keeps the length and turns each byte over.                 *)
LEMMA XorOnBytes ==
  ASSUME NEW data \in Seq(Byte), NEW offset \in Nat
  PROVE  /\ XorOn(data, offset) \in Seq(Byte)
         /\ Len(XorOn(data, offset)) = Len(data)
         /\ \A k \in 1 .. Len(data) :
              XorOn(data, offset)[k] = Xor(data[k], KeyAt(offset + k - 1))
<1> DEFINE x == XorOn(data, offset)
           n == Len(data)
<1>1. n \in Nat
  OBVIOUS
<1>2. x = [k \in 1 .. n |-> Xor(data[k], KeyAt(offset + k - 1))]
  BY DEF XorOn, KeyAt
<1>3. ASSUME NEW k \in 1 .. n PROVE Xor(data[k], KeyAt(offset + k - 1)) \in Byte
  <2>1. data[k] \in Byte
    BY ElementOfSeq
  <2>2. KeyAt(offset + k - 1) \in Byte
    <3>1. offset + k - 1 \in Nat
      BY <1>1
    <3> QED
      BY <3>1, KeyIsByte
  <2> QED
    BY <2>1, <2>2, XorTwice
<1> HIDE DEF x, n
<1>4. x \in [1 .. n -> Byte]
  BY <1>2, <1>3
<1>5. x \in Seq(Byte) /\ Len(x) = n
  BY <1>1, <1>4
<1> QED
  BY <1>2, <1>5 DEF x, n

(* The bytes of a sequence after the first p, n of them.                   *)
LEMMA Part ==
  ASSUME NEW s \in Seq(Byte), NEW p \in Nat, NEW n \in Nat, n > 0 => p + n <= Len(s)
  PROVE  /\ SubSeq(s, p + 1, p + n) \in Seq(Byte)
         /\ Len(SubSeq(s, p + 1, p + n)) = n
         /\ \A k \in 1 .. n : SubSeq(s, p + 1, p + n)[k] = s[p + k]
<1>1. CASE n = 0
  <2>1. p + n < p + 1
    BY <1>1
  <2>2. SubSeq(s, p + 1, p + n) = <<>>
    BY <2>1, SubSeqEmpty
  <2> QED
    BY <1>1, <2>2
<1>2. CASE n > 0
  <2>1. \A k \in p + 1 .. p + n : s[k] \in Byte
    BY <1>2, ElementOfSeq
  <2>2. /\ SubSeq(s, p + 1, p + n) \in Seq(Byte)
        /\ Len(SubSeq(s, p + 1, p + n)) = n
    BY <1>2, <2>1, SubSeqProperties
  <2> QED
    BY <1>2, <2>1, <2>2, SubSeqProperties
<1> QED
  BY <1>1, <1>2

-----------------------------------------------------------------------------
(* A new file.                                                             *)
LEMMA InitIInv == Init => IInv
<1> SUFFICES ASSUME Init PROVE IInv
  OBVIOUS
<1>1. TypeOK
  <2>1. <<>> \in Seq(Byte)
    BY EmptySeq
  <2> QED
    BY <2>1 DEF Init, TypeOK
<1>2. /\ phase = "write" /\ pos = 0 /\ roff = 0 /\ woff = 0 /\ got = <<>>
      /\ Len(below) = 0 /\ Len(stream) = 0 /\ Len(got) = 0
  BY DEF Init
<1>3. ReaderInStep /\ Ciphered /\ WriterInStep /\ LastRead
  BY <1>2 DEF ReaderInStep, Ciphered, WriterInStep, LastRead
<1> QED
  BY <1>1, <1>3 DEF IInv

(* A piece of the stream, ciphered at the writer's offset.                 *)
LEMMA PieceFits ==
  ASSUME TypeOK, Ciphered, WriterInStep, phase = "write", NEW piece \in Seq(Byte),
         below' = below \o XorOn(piece, woff), stream' = stream \o piece
  PROVE  /\ Ciphered'
         /\ Len(below)' = woff + Len(piece) /\ Len(stream)' = woff + Len(piece)
<1> DEFINE x == XorOn(piece, woff)
           n == Len(piece)
<1>1. /\ below \in Seq(Byte) /\ stream \in Seq(Byte) /\ woff \in Nat /\ n \in Nat
      /\ Len(below) = woff /\ Len(stream) = woff
  BY DEF TypeOK, WriterInStep
<1>2. /\ x \in Seq(Byte) /\ Len(x) = n
      /\ \A k \in 1 .. n : x[k] = Xor(piece[k], KeyAt(woff + k - 1))
  BY <1>1, XorOnBytes
<1> HIDE DEF x, n
<1>3. /\ Len(below') = woff + n
      /\ \A k \in 1 .. woff + n :
           below'[k] = IF k <= woff THEN below[k] ELSE x[k - woff]
  <2>1. below' = below \o x
    BY DEF x
  <2>2. /\ Len(below \o x) = Len(below) + Len(x)
        /\ \A k \in 1 .. Len(below) + Len(x) :
             (below \o x)[k] = IF k <= Len(below) THEN below[k] ELSE x[k - Len(below)]
    BY <1>1, <1>2, ConcatProperties
  <2> QED
    BY <1>1, <1>2, <2>1, <2>2
<1>4. /\ Len(stream') = woff + n
      /\ \A k \in 1 .. woff + n :
           stream'[k] = IF k <= woff THEN stream[k] ELSE piece[k - woff]
  <2>1. Len(piece) = n
    BY DEF n
  <2>2. /\ Len(stream \o piece) = Len(stream) + Len(piece)
        /\ \A k \in 1 .. Len(stream) + Len(piece) :
             (stream \o piece)[k] =
               IF k <= Len(stream) THEN stream[k] ELSE piece[k - Len(stream)]
    BY <1>1, ConcatProperties
  <2> QED
    BY <1>1, <2>1, <2>2
<1>5. ASSUME NEW k \in 1 .. woff + n PROVE below'[k] = Xor(stream'[k], KeyAt(k - 1))
  <2>1. CASE k <= woff
    <3>1. k \in 1 .. Len(below)
      BY <1>1, <2>1
    <3>2. below[k] = Xor(stream[k], KeyAt(k - 1))
      BY <3>1 DEF Ciphered
    <3> QED
      BY <1>3, <1>4, <2>1, <3>2
  <2>2. CASE k > woff
    <3>1. k - woff \in 1 .. n /\ woff + (k - woff) - 1 = k - 1 /\ ~(k <= woff)
      BY <1>1, <2>2
    <3>2. x[k - woff] = Xor(piece[k - woff], KeyAt(k - 1))
      BY <1>2, <3>1
    <3> QED
      BY <1>3, <1>4, <3>1, <3>2
  <2>3. k \in Nat /\ (k <= woff \/ k > woff)
    BY <1>1
  <2> QED
    BY <2>1, <2>2, <2>3
<1>6. Ciphered'
  <2>1. Len(below') <= Len(stream')
    BY <1>1, <1>3, <1>4
  <2>2. \A k \in 1 .. Len(below') : below'[k] = Xor(stream'[k], KeyAt(k - 1))
    BY <1>3, <1>5
  <2> QED
    BY <2>1, <2>2 DEF Ciphered, KeyAt
<1> QED
  BY <1>3, <1>4, <1>6 DEF n

(* Append: all of the slice, or of a failed one what the file below kept.  *)
LEMMA AppendIInv ==
  ASSUME IInv, NEW data \in Slices,
         AppendOk(data) \/ \E n \in 0 .. Len(data) : AppendFail(data, n)
  PROVE  IInv'
<1>1. data \in Seq(Byte) /\ Len(data) \in Nat /\ woff \in Nat
  BY McneAssumption DEF IInv, TypeOK
<1> DEFINE x == XorOn(data, woff)
<1>2. x \in Seq(Byte) /\ Len(x) = Len(data)
  BY <1>1, XorOnBytes
<1>3. /\ phase = "write" /\ phase' = phase /\ woff' = woff + Len(data)
      /\ UNCHANGED <<pos, roff, got, from>>
  BY DEF AppendOk, AppendFail, reader
<1>4. PICK n \in 0 .. Len(data) :
        /\ below' = below \o SubSeq(x, 1, n)
        /\ stream' = stream \o SubSeq(data, 1, n)
        /\ (n = Len(data) /\ failed' = failed) \/ (failed' = TRUE /\ (Retains => n = Len(data)))
  <2>1. CASE AppendOk(data)
    <3>1. SubSeq(x, 1, Len(data)) = x /\ SubSeq(data, 1, Len(data)) = data
      BY <1>1, <1>2, SubSeqFull
    <3>2. Len(data) \in 0 .. Len(data)
      BY <1>1
    <3> QED
      BY <2>1, <3>1, <3>2 DEF AppendOk
  <2>2. CASE \E n \in 0 .. Len(data) : AppendFail(data, n)
    BY <2>2 DEF AppendFail
  <2> QED
    BY <2>1, <2>2
<1>5. SubSeq(x, 1, n) \in Seq(Byte) /\ SubSeq(data, 1, n) \in Seq(Byte)
  <2>1. 0 + 1 = 1 /\ 0 + n = n /\ n \in Nat /\ (n > 0 => 0 + n <= Len(data))
    BY <1>1
  <2> QED
    BY <1>1, <1>2, <2>1, Part
<1>6. below' \in Seq(Byte) /\ stream' \in Seq(Byte) /\ woff' \in Nat
  BY <1>1, <1>3, <1>4, <1>5, ConcatProperties DEF IInv, TypeOK
<1>7. TypeOK'
  BY <1>3, <1>4, <1>6 DEF IInv, TypeOK
<1>8. ReaderInStep'
  <2>1. pos = 0 /\ roff = 0 /\ got = <<>>
    BY <1>3 DEF IInv, ReaderInStep
  <2>2. Len(below') \in Nat
    BY <1>6
  <2> QED
    BY <1>3, <2>1, <2>2 DEF ReaderInStep
<1>9. ASSUME Intact' PROVE Ciphered' /\ WriterInStep'
  <2>1. Intact /\ n = Len(data)
    BY <1>4, <1>9 DEF Intact, IInv, TypeOK
  <2>2. Ciphered /\ WriterInStep /\ TypeOK
    BY <2>1 DEF IInv
  <2>3. SubSeq(x, 1, n) = x /\ SubSeq(data, 1, n) = data
    BY <1>1, <1>2, <2>1, SubSeqFull
  <2>4. below' = below \o XorOn(data, woff) /\ stream' = stream \o data
    BY <1>4, <2>3
  <2>5. /\ Ciphered'
        /\ Len(below)' = woff + Len(data) /\ Len(stream)' = woff + Len(data)
    BY <1>1, <1>3, <2>2, <2>4, PieceFits
  <2> QED
    BY <1>3, <2>5 DEF WriterInStep
<1>10. LastRead'
  <2>1. Len(got') = 0
    BY <1>3 DEF IInv, ReaderInStep
  <2> QED
    BY <2>1 DEF LastRead
<1> QED
  BY <1>7, <1>8, <1>9, <1>10 DEF IInv

(* The file that is opened again holds a prefix of what was written.       *)
LEMMA ReopenIInv ==
  ASSUME IInv, ReopenTorn \/ \E n \in 0 .. Len(below) : Reopen(n)
  PROVE  IInv'
<1>1. /\ below \in Seq(Byte) /\ stream \in Seq(Byte) /\ pos = 0 /\ roff = 0 /\ got = <<>>
      /\ phase = "write" /\ Len(below) \in Nat
  BY DEF ReopenTorn, Reopen, IInv, TypeOK, ReaderInStep
<1>2. /\ phase' \in {"read", "corrupt"}
      /\ UNCHANGED <<woff, failed, stream, pos, roff, got, from>>
  BY DEF ReopenTorn, Reopen, reader
<1>3. /\ below' \in Seq(Byte) /\ Len(below') <= Len(below)
      /\ \A k \in 1 .. Len(below') : below'[k] = below[k]
  <2>1. CASE ReopenTorn
    <3>1. below' = <<>> /\ Len(below') = 0
      BY <2>1 DEF ReopenTorn
    <3> QED
      BY <1>1, <3>1, EmptySeq
  <2>2. CASE \E n \in 0 .. Len(below) : Reopen(n)
    <3>1. PICK n \in 0 .. Len(below) : below' = SubSeq(below, 1, n)
      BY <2>2 DEF Reopen
    <3>2. 0 + 1 = 1 /\ 0 + n = n /\ n \in Nat /\ 0 \in Nat /\ n <= Len(below)
      BY <1>1
    <3>3. /\ SubSeq(below, 0 + 1, 0 + n) \in Seq(Byte)
          /\ Len(SubSeq(below, 0 + 1, 0 + n)) = n
          /\ \A k \in 1 .. n : SubSeq(below, 0 + 1, 0 + n)[k] = below[0 + k]
      BY <1>1, <3>2, Part
    <3> QED
      BY <3>1, <3>2, <3>3
  <2> QED
    BY <2>1, <2>2
<1>4. Len(below') \in Nat
  BY <1>3
<1>5. TypeOK'
  BY <1>2, <1>3 DEF IInv, TypeOK
<1>6. ReaderInStep'
  BY <1>1, <1>2, <1>4 DEF ReaderInStep
<1>7. ASSUME Intact' PROVE Ciphered' /\ WriterInStep'
  <2>1. Ciphered
    BY <1>2, <1>7 DEF Intact, IInv
  <2>2. Len(below') <= Len(stream')
    <3>1. Len(stream) \in Nat
      BY <1>1
    <3> QED
      BY <1>1, <1>2, <1>3, <1>4, <2>1, <3>1 DEF Ciphered
  <2>3. \A k \in 1 .. Len(below') : below'[k] = Xor(stream'[k], KeyAt(k - 1))
    <3>1. \A k \in 1 .. Len(below') : k \in 1 .. Len(below)
      BY <1>1, <1>3, <1>4
    <3> QED
      BY <1>2, <1>3, <2>1, <3>1 DEF Ciphered
  <2>4. Ciphered'
    BY <2>2, <2>3 DEF Ciphered, KeyAt
  <2> QED
    BY <1>2, <2>4 DEF WriterInStep
<1>8. LastRead'
  <2>1. Len(got') = 0
    BY <1>1, <1>2
  <2> QED
    BY <2>1 DEF LastRead
<1> QED
  BY <1>5, <1>6, <1>7, <1>8 DEF IInv

-----------------------------------------------------------------------------
(* What a read may find in the file.                                       *)
LEMMA ChunkIs ==
  ASSUME TypeOK, NEW p \in Nat, NEW n \in Nat, NEW chunk \in Chunks(p, n)
  PROVE  \E k \in 0 .. n :
           /\ chunk = SubSeq(below, p + 1, p + k)
           /\ k > 0 => p + k <= Len(below)
           /\ ~ShortReads => k = Available(p, n)
<1>1. Len(below) \in Nat
  BY DEF TypeOK
<1>2. Available(p, n) \in 0 .. n /\ (Available(p, n) > 0 => p + Available(p, n) <= Len(below))
  BY <1>1 DEF Available
<1>3. PICK k \in IF ShortReads /\ Available(p, n) > 0
                 THEN 1 .. Available(p, n) ELSE {Available(p, n)} :
        chunk = SubSeq(below, p + 1, p + k)
  BY Zenon DEF Chunks
<1>4. CASE ShortReads /\ Available(p, n) > 0
  <2>1. k \in 1 .. Available(p, n)
    BY <1>3, <1>4
  <2>2. k \in 0 .. n /\ p + k <= Len(below)
    BY <1>1, <1>2, <1>4, <2>1
  <2> QED
    BY <1>3, <1>4, <2>2
<1>5. CASE ~(ShortReads /\ Available(p, n) > 0)
  <2>1. k = Available(p, n)
    BY <1>3, <1>5
  <2> QED
    BY <1>2, <1>3, <2>1
<1> QED
  BY <1>4, <1>5

(* A read at a place, ciphered at that place or empty.                     *)
LEMMA ReadGives ==
  ASSUME TypeOK, NEW p \in Nat, NEW q \in Nat, NEW k \in Nat,
         k > 0 => p + k <= Len(below),
         got' = XorOn(SubSeq(below, p + 1, p + k), q), from' = p, stream' = stream
  PROVE  /\ Len(SubSeq(below, p + 1, p + k)) = k
         /\ got' \in Seq(Byte)
         /\ Ciphered /\ (k > 0 => q = p) => LastRead'
<1> DEFINE chunk == SubSeq(below, p + 1, p + k)
<1>1. below \in Seq(Byte) /\ stream \in Seq(Byte) /\ Len(below) \in Nat /\ Len(stream) \in Nat
  BY DEF TypeOK
<1>2. /\ chunk \in Seq(Byte) /\ Len(chunk) = k
      /\ \A j \in 1 .. k : chunk[j] = below[p + j]
  BY <1>1, Part
<1> HIDE DEF chunk
<1>3. /\ got' \in Seq(Byte) /\ Len(got') = k
      /\ \A j \in 1 .. k : got'[j] = Xor(chunk[j], KeyAt(q + j - 1))
  <2>1. got' = XorOn(chunk, q)
    BY DEF chunk
  <2> QED
    BY <1>2, <2>1, XorOnBytes
<1>4. ASSUME Ciphered, k > 0 => q = p PROVE LastRead'
  <2>1. k > 0 => p + k <= Len(stream)
    BY <1>1, <1>4 DEF Ciphered
  <2>2. ASSUME NEW j \in 1 .. k PROVE got'[j] = stream[p + j]
    <3>1. q = p /\ p + j \in 1 .. Len(below) /\ q + j - 1 \in Nat /\ p + j - 1 = q + j - 1
      BY <1>1, <1>4
    <3>2. below[p + j] = Xor(stream[p + j], KeyAt(q + j - 1))
      BY <1>4, <3>1 DEF Ciphered
    <3>3. stream[p + j] \in Byte
      <4>1. p + j \in 1 .. Len(stream)
        BY <1>1, <1>4, <3>1 DEF Ciphered
      <4> QED
        BY <1>1, <4>1, ElementOfSeq
    <3>4. KeyAt(q + j - 1) \in Byte
      BY <3>1, KeyIsByte
    <3> QED
      BY <1>2, <1>3, <3>2, <3>3, <3>4, XorTwice
  <2> QED
    BY <1>3, <2>1, <2>2 DEF LastRead
<1> QED
  BY <1>2, <1>3, <1>4 DEF chunk

(* What all reads leave alone.                                             *)
LEMMA ReadKeeps ==
  ASSUME IInv, phase = "read", UNCHANGED <<phase, writer>>, ReaderInStep',
         pos' \in Nat, roff' \in Nat, from' \in Nat, got' \in Seq(Byte),
         Intact /\ ReadsWhole => LastRead'
  PROVE  IInv'
<1>1. TypeOK'
  BY DEF IInv, TypeOK, writer
<1>2. Intact' <=> Intact
  BY DEF Intact, writer
<1>3. Intact => Ciphered' /\ WriterInStep'
  BY DEF IInv, Ciphered, WriterInStep, writer, KeyAt
<1> QED
  BY <1>1, <1>2, <1>3 DEF IInv

(* A sequential read: its reader stays in step with the file it reads.     *)
LEMMA SequentialReadIInv ==
  ASSUME IInv, NEW n \in 1 .. MaxBytes, SequentialRead(n)
  PROVE  IInv'
<1>1. /\ TypeOK /\ ReaderInStep /\ phase = "read" /\ pos \in Nat /\ roff \in Nat /\ n \in Nat
      /\ below \in Seq(Byte) /\ Len(below) \in Nat
  BY McneAssumption DEF IInv, SequentialRead, TypeOK
<1>2. PICK chunk \in Chunks(pos, n) :
        got' = XorOn(chunk, roff) /\ pos' = pos + Len(chunk)
  BY DEF SequentialRead
<1>3. PICK k \in 0 .. n :
        /\ chunk = SubSeq(below, pos + 1, pos + k)
        /\ k > 0 => pos + k <= Len(below)
        /\ ~ShortReads => k = Available(pos, n)
  BY <1>1, ChunkIs
<1>4. from' = pos /\ roff' = roff + n /\ UNCHANGED <<phase, writer>> /\ stream' = stream /\ below' = below
  BY DEF SequentialRead, writer
<1>5. k \in Nat
  BY <1>1
<1>6. /\ Len(chunk) = k /\ got' \in Seq(Byte)
      /\ Ciphered /\ (k > 0 => roff = pos) => LastRead'
  BY <1>1, <1>2, <1>3, <1>4, <1>5, ReadGives
<1>7. ReadsWhole /\ k > 0 => roff = pos
  BY <1>1, <1>3, <1>5 DEF ReaderInStep, ReadsWhole
<1>8. ReaderInStep'
  <2>1. pos' = pos + k /\ pos' <= Len(below)
    BY <1>1, <1>2, <1>3, <1>5, <1>6 DEF ReaderInStep
  <2>2. ASSUME ReadsWhole PROVE roff' = pos' \/ (pos' = Len(below) /\ roff' >= pos')
    <3>1. k = Available(pos, n) /\ (roff = pos \/ (pos = Len(below) /\ roff >= pos))
      BY <1>1, <1>3, <2>2 DEF ReaderInStep, ReadsWhole
    <3> QED
      BY <1>1, <1>4, <2>1, <3>1 DEF Available, ReaderInStep
  <2> QED
    BY <1>1, <1>4, <2>1, <2>2 DEF ReaderInStep
<1>9. Intact /\ ReadsWhole => LastRead'
  BY <1>6, <1>7 DEF IInv
<1>10. pos' \in Nat /\ roff' \in Nat /\ from' \in Nat
  BY <1>1, <1>2, <1>4, <1>5, <1>6
<1> QED
  BY <1>1, <1>4, <1>6, <1>8, <1>9, <1>10, ReadKeeps

(* A skip moves both positions by as much.                                 *)
LEMMA SequentialSkipIInv ==
  ASSUME IInv, NEW n \in 1 .. MaxBytes, SequentialSkip(n)
  PROVE  IInv'
<1>1. /\ TypeOK /\ ReaderInStep /\ phase = "read" /\ pos \in Nat /\ roff \in Nat /\ n \in Nat
      /\ Len(below) \in Nat /\ got \in Seq(Byte) /\ from \in Nat
  BY McneAssumption DEF IInv, SequentialSkip, TypeOK
<1>2. /\ pos' = pos + Available(pos, n) /\ roff' = roff + n
      /\ UNCHANGED <<phase, writer, got, from>> /\ below' = below /\ stream' = stream
  BY DEF SequentialSkip, writer
<1>3. ReaderInStep'
  BY <1>1, <1>2 DEF ReaderInStep, Available
<1>4. Intact /\ ReadsWhole => LastRead'
  BY <1>2 DEF IInv, LastRead
<1>5. pos' \in Nat /\ roff' \in Nat
  BY <1>1, <1>2 DEF Available
<1> QED
  BY <1>1, <1>2, <1>3, <1>4, <1>5, ReadKeeps

(* A random read leaves no position behind.                                *)
LEMMA RandomReadIInv ==
  ASSUME IInv, NEW n \in 1 .. MaxBytes, NEW offset \in 0 .. MaxBytes, RandomRead(offset, n)
  PROVE  IInv'
<1>1. /\ TypeOK /\ ReaderInStep /\ phase = "read" /\ pos \in Nat /\ roff \in Nat /\ n \in Nat
      /\ offset \in Nat
  BY McneAssumption DEF IInv, RandomRead, TypeOK
<1>2. PICK chunk \in Chunks(offset, n) : got' = XorOn(chunk, offset)
  BY DEF RandomRead
<1>3. PICK k \in 0 .. n :
        /\ chunk = SubSeq(below, offset + 1, offset + k)
        /\ k > 0 => offset + k <= Len(below)
  BY <1>1, ChunkIs
<1>4. /\ from' = offset /\ UNCHANGED <<phase, writer, pos, roff>>
      /\ below' = below /\ stream' = stream
  BY DEF RandomRead, writer
<1>5. k \in Nat
  BY <1>1
<1>6. got' \in Seq(Byte) /\ (Ciphered => LastRead')
  BY <1>1, <1>2, <1>3, <1>4, <1>5, ReadGives
<1>7. ReaderInStep'
  BY <1>1, <1>4 DEF ReaderInStep
<1>8. Intact /\ ReadsWhole => LastRead'
  BY <1>6 DEF IInv
<1> QED
  BY <1>1, <1>4, <1>6, <1>7, <1>8, ReadKeeps

(* A read that fails gives nothing and moves nothing.                      *)
LEMMA ReadFailsIInv ==
  ASSUME IInv, NEW offset \in 0 .. MaxBytes, ReadFails(offset)
  PROVE  IInv'
<1>1. /\ TypeOK /\ ReaderInStep /\ phase = "read" /\ offset \in Nat
      /\ pos \in Nat /\ roff \in Nat
  BY McneAssumption DEF IInv, ReadFails, TypeOK
<1>2. /\ got' = <<>> /\ from' = offset /\ UNCHANGED <<phase, writer, pos, roff>>
      /\ below' = below
  BY DEF ReadFails, writer
<1>3. got' \in Seq(Byte) /\ Len(got') = 0
  BY <1>2, EmptySeq
<1>4. ReaderInStep'
  BY <1>1, <1>2 DEF ReaderInStep
<1>5. LastRead'
  BY <1>3 DEF LastRead
<1> QED
  BY <1>1, <1>2, <1>3, <1>4, <1>5, ReadKeeps

(* A Skip that fails moves the position below, if Skips may break.         *)
LEMMA SkipFailsIInv ==
  ASSUME IInv, NEW n \in 1 .. MaxBytes, SkipFails(n)
  PROVE  IInv'
<1>1. /\ TypeOK /\ ReaderInStep /\ phase = "read" /\ pos \in Nat /\ roff \in Nat /\ n \in Nat
      /\ Len(below) \in Nat /\ got \in Seq(Byte) /\ from \in Nat
  BY McneAssumption DEF IInv, SkipFails, TypeOK
<1>2. PICK k \in IF SkipsBreak THEN 0 .. Available(pos, n) ELSE {0} : pos' = pos + k
  BY DEF SkipFails
<1>3. UNCHANGED <<phase, writer, roff, got, from>> /\ below' = below /\ stream' = stream
  BY DEF SkipFails, writer
<1>4. k \in Nat /\ pos + k <= Len(below) /\ (~SkipsBreak => k = 0)
  BY <1>1, <1>2 DEF Available, ReaderInStep
<1>5. ReaderInStep'
  BY <1>1, <1>2, <1>3, <1>4 DEF ReaderInStep, ReadsWhole
<1>6. Intact /\ ReadsWhole => LastRead'
  BY <1>3 DEF IInv, LastRead
<1>7. pos' \in Nat
  BY <1>1, <1>2, <1>4
<1> QED
  BY <1>1, <1>3, <1>5, <1>6, <1>7, ReadKeeps

(* Every step keeps the invariant.                                         *)
LEMMA StepIInv == IInv /\ [Next]_vars => IInv'
<1> SUFFICES ASSUME IInv, [Next]_vars PROVE IInv'
  OBVIOUS
<1>1. CASE UNCHANGED vars
  BY <1>1
  DEF vars, writer, reader, IInv, TypeOK, ReaderInStep, Intact, Ciphered,
      WriterInStep, LastRead, KeyAt
<1>2. CASE \E data \in Slices :
             AppendOk(data) \/ \E n \in 0 .. Len(data) : AppendFail(data, n)
  BY <1>2, AppendIInv
<1>3. CASE ReopenTorn \/ \E n \in 0 .. Len(below) : Reopen(n)
  BY <1>3, ReopenIInv
<1>4. CASE \E n \in 1 .. MaxBytes :
             \/ SequentialRead(n) \/ SequentialSkip(n) \/ SkipFails(n)
             \/ \E offset \in 0 .. MaxBytes : RandomRead(offset, n)
  BY <1>4, SequentialReadIInv, SequentialSkipIInv, SkipFailsIInv, RandomReadIInv
<1>5. CASE \E offset \in 0 .. MaxBytes : ReadFails(offset)
  BY <1>5, ReadFailsIInv
<1> QED
  BY <1>1, <1>2, <1>3, <1>4, <1>5 DEF Next

(* The invariant holds in every reachable state.                           *)
LEMMA Invariance == Spec => []IInv
  BY InitIInv, StepIInv, PTL DEF Spec

(* What the invariant says of each byte, of the sequences.                 *)
LEMMA IInvDeciphers == IInv => FileDeciphers
<1> SUFFICES ASSUME IInv, Intact
             PROVE  /\ Len(below) <= Len(stream)
                    /\ XorOn(below, 0) = SubSeq(stream, 1, Len(below))
  BY DEF FileDeciphers
<1> DEFINE n == Len(below)
           x == XorOn(below, 0)
           s == SubSeq(stream, 0 + 1, 0 + n)
<1>1. /\ below \in Seq(Byte) /\ stream \in Seq(Byte) /\ n \in Nat /\ Len(stream) \in Nat
      /\ Ciphered /\ n <= Len(stream)
  BY DEF IInv, TypeOK, Ciphered
<1>2. /\ x \in Seq(Byte) /\ Len(x) = n
      /\ \A k \in 1 .. n : x[k] = Xor(below[k], KeyAt(0 + k - 1))
  BY <1>1, XorOnBytes
<1>3. /\ s \in Seq(Byte) /\ Len(s) = n /\ \A k \in 1 .. n : s[k] = stream[0 + k]
  BY <1>1, Part
<1>4. SubSeq(stream, 1, Len(below)) = s
  BY <1>1
<1>5. ASSUME NEW k \in 1 .. n PROVE x[k] = s[k]
  <2>1. k \in 1 .. Len(stream) /\ k - 1 \in Nat /\ 0 + k - 1 = k - 1 /\ 0 + k = k
    BY <1>1
  <2>2. stream[k] \in Byte /\ KeyAt(k - 1) \in Byte
    BY <1>1, <2>1, ElementOfSeq, KeyIsByte
  <2>3. below[k] = Xor(stream[k], KeyAt(k - 1))
    BY <1>1 DEF Ciphered
  <2>4. x[k] = Xor(below[k], KeyAt(k - 1)) /\ s[k] = stream[k]
    BY <1>2, <1>3, <2>1
  <2> QED
    BY <2>2, <2>3, <2>4, XorTwice
<1> HIDE DEF x, s
<1>6. x = s
  BY <1>1, <1>2, <1>3, <1>5, SeqEqual
<1> QED
  BY <1>1, <1>4, <1>6 DEF x

(* When reads are whole, what was read is what was written.                *)
LEMMA IInvReads == IInv /\ ReadsWhole => ReadsPlaintext
<1> SUFFICES ASSUME IInv, ReadsWhole, Intact
             PROVE  got = SubSeq(stream, from + 1, from + Len(got))
  BY DEF ReadsPlaintext
<1>1. /\ got \in Seq(Byte) /\ stream \in Seq(Byte) /\ from \in Nat /\ Len(got) \in Nat /\ LastRead
  BY DEF IInv, TypeOK
<1> DEFINE s == SubSeq(stream, from + 1, from + Len(got))
<1>2. /\ s \in Seq(Byte) /\ Len(s) = Len(got)
      /\ \A k \in 1 .. Len(got) : s[k] = stream[from + k]
  BY <1>1, Part DEF LastRead
<1> HIDE DEF s
<1>3. got = s
  BY <1>1, <1>2, SeqEqual DEF LastRead
<1> QED
  BY <1>3 DEF s

-----------------------------------------------------------------------------
(* Type correctness. *)
THEOREM TypeCorrect == Spec => []TypeOK
<1>1. IInv => TypeOK
  BY DEF IInv
<1> QED
  BY <1>1, Invariance, PTL

(* FileDeciphers: whatever appends fail, and wherever a crash cuts the     *)
(* file, what it holds deciphers to what was appended                      *)
(* (McneWritableFile::Append).                                             *)
THEOREM WriterInCipher == Spec => []FileDeciphers
  BY Invariance, IInvDeciphers, PTL

(* ReadsPlaintext: both readers return the plaintext of the place they are *)
(* asked for, if the file below reads short only at its end and no Skip    *)
(* fails half-way                                                          *)
(* (McneSequentialFile and McneRandomAccessFile).                          *)
THEOREM ReadersInCipher ==
  ASSUME ReadsWhole
  PROVE  Spec => []ReadsPlaintext
<1>1. IInv => ReadsPlaintext
  BY IInvReads
<1> QED
  BY <1>1, Invariance, PTL
=============================================================================
