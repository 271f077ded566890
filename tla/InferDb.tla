------------------------------ MODULE InferDb ------------------------------
(***************************************************************************)
(* InferDB on the databases that EncryptDB leaves: the key is what turns   *)
(* the name of a MANIFEST, which CURRENT must hold, into the bytes CURRENT *)
(* does hold.  Only these two are looked at; callers use the answer for    *)
(* every file.                                                             *)
(***************************************************************************)
EXTENDS EncryptDb

CONSTANTS
  Current,    \* the file CURRENT
  Manifests,  \* the MANIFEST files: a crash of LevelDB may leave several
  Named,      \* the one whose name CURRENT holds
  Periodic    \* the keys whose stream repeats after eight bytes

ASSUME InferAssumption ==
  /\ Current \in Files \ Logs
  /\ Manifests \subseteq Files \ (Logs \union {Current}) /\ Named \in Manifests
  /\ Periodic \subseteq Keys

VARIABLE answer  \* the answer to InferDB since the last EncryptDB began

Answers == [status : {"none", "ok", "error"}, keys : SUBSET Keys]

Answer(status, keys) == [status |-> status, keys |-> keys]
Unasked == Answer("none", {})
Corruption == Answer("error", {})

InferInit == Init /\ answer = Unasked

(* Mutants: a definition named Bad... is the next one with a bug.  No       *)
(* specification uses it; it shows that a property would notice the bug.   *)
BadKeyStream(name) ==  \* the period of the stream is not checked
  IF disk[Current].bytes = "all"
    THEN Answer("ok", disk[Current].keys)
    ELSE Corruption

(* The keys whose streams are left when name is XORed with CURRENT.        *)
(* Another name differs from Named in a digit after the first eight bytes, *)
(* so the stream is not periodic; a CURRENT cut short has another length.  *)
(* (Keys that are not periodic are taken not to cancel one another.)       *)
KeyStream(name) ==
  IF name = Named /\ disk[Current].bytes = "all"
       /\ disk[Current].keys \subseteq Periodic
    THEN Answer("ok", disk[Current].keys)
    ELSE Corruption

BadInference(name) ==  \* what cannot be inferred passes for unencrypted
  IF disk[Current].magic /\ KeyStream(name) # Corruption
    THEN KeyStream(name)
    ELSE Answer("ok", {})

(* Without the magic number, or room for it, the database is taken for an  *)
(* unencrypted one.                                                        *)
Inference(name) ==
  IF disk[Current].magic THEN KeyStream(name) ELSE Answer("ok", {})

(* The first MANIFEST listed counts.  Listing, sizes and reads may fail.   *)
Infer ==
  /\ pc = "idle"
  /\ answer' \in {Inference(name) : name \in Manifests} \union {Corruption}
  /\ UNCHANGED vars

InferNext == Infer \/ (Next /\ answer' = Unasked)

InferSpec == InferInit /\ [][InferNext]_<<vars, answer>>

-----------------------------------------------------------------------------
AnswerOK == TypeOK /\ answer \in Answers

(* The eight bytes InferDB answers, repeated, are the stream that turns    *)
(* CURRENT back, whichever MANIFEST it saw and whatever failed before; and *)
(* while no call of EncryptDB has failed they do so for every file, as     *)
(* callers take for granted.                                               *)
InferredKeyFits ==
  answer.status = "ok" /\ answer.keys # {} =>
    /\ disk[Current].bytes = "all" /\ disk[Current].keys = answer.keys
    /\ answer.keys \subseteq Periodic
    /\ failures = 0 =>
         \A f \in Files \ Logs : disk[f].magic /\ disk[f].keys = answer.keys

(* "If the database is unencrypted, a zero-lengthed string is stored"      *)
(* (leveldb_mcne.h), and in no other case as long as no call has failed:   *)
(* then no file has the magic number.                                      *)
EmptyKeyMeansUnencrypted ==
  answer.status = "ok" /\ answer.keys = {} /\ failures = 0 =>
    \A f \in Files : ~disk[f].magic
=============================================================================
