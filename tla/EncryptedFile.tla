--------------------------- MODULE EncryptedFile ---------------------------
(***************************************************************************)
(* A file that LevelDB writes through McneWrapper: a McneWritableFile over *)
(* one of the environment's files of WritableFile, or, if the key is empty *)
(* or the name exempt, that file itself.  The magic number goes first,     *)
(* through the same buffer, unencrypted; what follows meets the key at the *)
(* offset McneWritableFile counts for itself.                              *)
(***************************************************************************)
EXTENDS WritableFile

CONSTANTS
  Key,         \* the encryption key
  Magic,       \* kMagicNum
  Plaintexts   \* what LevelDB appends

Mcne == INSTANCE Cipher

(* Slices holds what the file below is given: the slices of LevelDB, as    *)
(* they are or encrypted at any place, and the magic number.               *)
ASSUME EncryptedAssumption ==
  /\ Key \in Seq(Byte) \ {<<>>}
  /\ Magic \in Slices /\ Plaintexts \subseteq Slices
  /\ \A data \in Plaintexts, place \in 0 .. MaxBytes : Mcne!XorOn(data, place) \in Slices

VARIABLES
  encrypted,  \* the file is a McneWritableFile
  stage,      \* of NewWritableFile: "new", "header", then "open" or "refused"
  woff,       \* McneWritableFile::offset
  plain,      \* history: what was appended to an encrypted file
  gaveUp      \* history: an Append dropped bytes it was given

wrapper == <<encrypted, stage, woff, plain, gaveUp>>

(* Every name of a log is exempt (MayEncrypt). *)
EncryptedInit ==
  /\ Init
  /\ encrypted \in BOOLEAN /\ (kind = "log" => ~encrypted)
  /\ stage = IF encrypted THEN "new" ELSE "open"
  /\ woff = 0 /\ plain = <<>> /\ gaveUp = FALSE

-----------------------------------------------------------------------------
(* NewWritableFile appends the magic number; if that fails, it deletes the *)
(* file and returns the error.                                             *)
WriteHeader ==
  /\ stage = "new" /\ stage' = "header"
  /\ AppendSlice(Magic)
  /\ UNCHANGED <<encrypted, woff, plain, gaveUp>>

HeaderWritten ==
  /\ stage = "header" /\ pc = "idle"
  /\ \/ result = "ok" /\ stage' = "open" /\ UNCHANGED vars
     \/ result = "error" /\ stage' = "refused" /\ Destroy
  /\ UNCHANGED <<encrypted, woff, plain, gaveUp>>

(* Mutants: a definition named Bad... is the next one with a bug.  No       *)
(* specification uses it; it shows that a property would notice the bug.   *)
BadAppendEncrypted(data) ==  \* every slice meets the key from its start
  /\ encrypted /\ stage = "open" /\ woff + Len(data) <= MaxBytes
  /\ AppendSlice(Mcne!XorOn(data, 0))
  /\ woff' = woff + Len(data) /\ plain' = plain \o data
  /\ UNCHANGED <<encrypted, stage, gaveUp>>

(* Append moves the offset whatever the file below answers, now or when    *)
(* its write ends.                                                         *)
AppendEncrypted(data) ==
  /\ encrypted /\ stage = "open" /\ woff + Len(data) <= MaxBytes
  /\ AppendSlice(Mcne!XorOn(data, woff))
  /\ woff' = woff + Len(data) /\ plain' = plain \o data
  /\ UNCHANGED <<encrypted, stage, gaveUp>>

AppendOnClosed(data) ==
  /\ encrypted /\ stage = "open" /\ woff + Len(data) <= MaxBytes
  /\ CallOnClosed("Append", "error")
  /\ woff' = woff + Len(data)
  /\ UNCHANGED <<encrypted, stage, plain, gaveUp>>

(* Without a key, and for an exempt name, the file below is handed out.    *)
AppendUnencrypted(data) ==
  /\ ~encrypted
  /\ AppendSlice(data) \/ CallOnClosed("Append", "error")
  /\ UNCHANGED wrapper

(* All other calls are passed on. *)
PassOn ==
  /\ stage = "open"
  /\ \/ Flush \/ Sync \/ Close \/ Destroy
     \/ CallOnClosed("Sync", "error") \/ CallOnClosed("Close", "ok")
  /\ UNCHANGED wrapper

(* The calls into fs, and crashes, are those of the file below. *)
Below ==
  /\ System \/ Crash
  /\ gaveUp' = (gaveUp \/ stream' # stream)
  /\ UNCHANGED <<encrypted, stage, woff, plain>>

EncryptedNext ==
  \/ WriteHeader \/ HeaderWritten
  \/ \E data \in Plaintexts :
       \/ AppendEncrypted(data) \/ AppendOnClosed(data)
       \/ AppendUnencrypted(data)
  \/ PassOn \/ Below

EncryptedSpec == EncryptedInit /\ [][EncryptedNext]_<<vars, wrapper>>

-----------------------------------------------------------------------------
EncryptedTypeOK ==
  /\ TypeOK
  /\ encrypted \in BOOLEAN /\ gaveUp \in BOOLEAN
  /\ stage \in {"new", "header", "open", "refused"}
  /\ woff \in Nat /\ plain \in Seq(Byte)

(* The file holds the magic number and then the plaintext, each byte under *)
(* the key byte of its own place: however writes are cut short, fail and   *)
(* are retried and wherever a crash cuts it off, the offset that           *)
(* McneWritableFile counts stays that of the file.  Only an unbuffered     *)
(* file breaks this, once an Append failed and dropped bytes.              *)
CipherFollowsFile ==
  encrypted /\ ~gaveUp =>
    LET whole == Magic \o Mcne!XorOn(plain, 0)
    IN  Len(os) <= Len(whole) /\ os = SubSeq(whole, 1, Len(os))
=============================================================================
