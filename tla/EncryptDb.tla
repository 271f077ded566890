----------------------------- MODULE EncryptDb -----------------------------
(***************************************************************************)
(* EncryptDB: encrypt or decrypt, in place, the files of a closed          *)
(* database.  The files are rewritten one after the other, each read       *)
(* whole, truncated and written again; the call may fail at any of these   *)
(* steps and the process may die between any two.  The machine stays up:   *)
(* nothing here is synced, so a power failure could cost files that a call *)
(* was done with.  Callers may repeat it, with the same key or another.    *)
(*                                                                         *)
(* A file's content is its magic number, if any, and its bytes, of which   *)
(* only how many there are and the keys they are XORed with matter.        *)
(***************************************************************************)
EXTENDS Naturals, FiniteSets

CONSTANTS
  Files,      \* the regular files of the database
  Logs,       \* those whose name exempts them (*.log, LOCK)
  PathExempt, \* the path of the database contains such a name itself
  Keys,       \* the keys callers give
  None,       \* no file, no key
  SizeFails,  \* may GetFileSize fail on a regular file
  MaxCalls    \* bound of the model: calls of EncryptDB

ASSUME EncryptAssumption ==
  /\ None \notin Files \union Keys
  /\ Logs \subseteq Files
  /\ PathExempt \in BOOLEAN /\ SizeFails \in BOOLEAN
  /\ MaxCalls \in Nat

VARIABLES
  disk,     \* the content of each file
  todo,     \* the files GetChildren listed and the loop has not reached
  file,     \* the file of the current iteration, or None
  pc,       \* "idle", "size", "read", "truncate", "append", "close"
  key,      \* the key of the call
  new,      \* newContent
  result,   \* the status of the last call: "ok", "error", or "crash"
  calls,    \* calls made
  failures, \* history: calls that did not return OK
  before,   \* history: the disk when the last call began
  earlier   \* history: of the call before, if it returned OK: its key and
            \* the disk it began with

local == <<todo, file, pc, key, new>>
history == <<calls, failures, before, earlier>>
vars == <<disk, local, result, history>>

Content == [magic : BOOLEAN, bytes : {"none", "some", "all"}, keys : SUBSET Keys]

Empty == [magic |-> FALSE, bytes |-> "none", keys |-> {}]
Plain == [magic |-> FALSE, bytes |-> "all", keys |-> {}]
Encrypted(k) == [magic |-> TRUE, bytes |-> "all", keys |-> {k}]

(* XORing twice with one key gives the bytes back. *)
XorKeys(c, k) ==
  [c EXCEPT !.keys = IF c.bytes = "none" THEN {}
                     ELSE IF k \in @ THEN @ \ {k} ELSE @ \union {k}]

(* Mutants: a definition named Bad... is the next one with a bug.  No       *)
(* specification uses it; it shows that a property would notice the bug.   *)
BadNewContent(c, k) == [XorKeys(c, k) EXCEPT !.magic = TRUE]

(* The direction is decided for each file, by its first four bytes. *)
NewContent(c, k) == [XorKeys(c, k) EXCEPT !.magic = ~c.magic]

(* What a write of c cut short may leave. *)
Prefixes(c) ==
  {Empty, [c EXCEPT !.bytes = "none", !.keys = {}]}
    \union (IF c.bytes = "none" THEN {}
            ELSE {[c EXCEPT !.bytes = "some"], [Empty EXCEPT !.bytes = "some"], c})

(* MayEncrypt is given the whole path, and looks for the names anywhere in it. *)
MayEncrypt(f) == ~PathExempt /\ f \notin Logs

(* An unencrypted database, or one encrypted with one of the keys. *)
Init ==
  /\ \/ disk = [f \in Files |-> Plain]
     \/ \E k \in Keys :
          disk = [f \in Files |-> IF MayEncrypt(f) THEN Encrypted(k) ELSE Plain]
  /\ todo = {} /\ file = None /\ pc = "idle" /\ key = None /\ new = Empty
  /\ result = "ok" /\ calls = 0 /\ failures = 0
  /\ before = disk
  /\ earlier = [key |-> None, disk |-> disk]

-----------------------------------------------------------------------------
BadEncrypt(k) ==  \* the listing holds an entry that is no file
  /\ pc = "idle" /\ calls < MaxCalls
  /\ calls' = calls + 1
  /\ earlier' = IF result = "ok" THEN [key |-> key, disk |-> before]
                                ELSE [key |-> None, disk |-> disk]
  /\ before' = disk
  /\ key' = k
  /\ todo' = Files \union {None} /\ pc' = "size"
  /\ UNCHANGED <<disk, file, new, result, failures>>

Encrypt(k) ==
  /\ pc = "idle" /\ calls < MaxCalls
  /\ calls' = calls + 1
  /\ earlier' = IF result = "ok" THEN [key |-> key, disk |-> before]
                                ELSE [key |-> None, disk |-> disk]
  /\ before' = disk
  /\ key' = k
  /\ todo' = Files /\ pc' = "size"
  /\ UNCHANGED <<disk, file, new, result, failures>>

BadSize(f) ==  \* files that are encrypted already are skipped
  /\ pc = "size" /\ f \in todo
  /\ todo' = todo \ {f}
  /\ IF MayEncrypt(f) /\ disk[f] # Empty /\ ~disk[f].magic
       THEN pc' = "read" /\ file' = f
       ELSE UNCHANGED <<pc, file>>
  /\ UNCHANGED <<disk, key, new, result, history>>

(* The next file.  One that is exempt or empty is skipped, and one that    *)
(* GetFileSize fails on.                                                   *)
Size(f) ==
  /\ pc = "size" /\ f \in todo
  /\ todo' = todo \ {f}
  /\ \/ MayEncrypt(f) /\ disk[f] # Empty /\ pc' = "read" /\ file' = f
     \/ ~MayEncrypt(f) /\ UNCHANGED <<pc, file>>
     \/ disk[f] = Empty /\ UNCHANGED <<pc, file>>
     \/ SizeFails /\ UNCHANGED <<pc, file>>
  /\ UNCHANGED <<disk, key, new, result, history>>

Finish ==
  /\ pc = "size" /\ todo = {}
  /\ pc' = "idle" /\ result' = "ok"
  /\ UNCHANGED <<disk, todo, file, key, new, history>>

Read ==
  /\ pc = "read"
  /\ new' = NewContent(disk[file], key)
  /\ pc' = "truncate"
  /\ UNCHANGED <<disk, todo, file, key, result, history>>

Truncate ==
  /\ pc = "truncate"
  /\ disk' = [disk EXCEPT ![file] = Empty]
  /\ pc' = "append"
  /\ UNCHANGED <<todo, file, key, new, result, history>>

(* Append may hand some of the bytes on before Close writes the rest. *)
AppendContent ==
  /\ pc = "append"
  /\ \E c \in Prefixes(new) : disk' = [disk EXCEPT ![file] = c]
  /\ pc' = "close"
  /\ UNCHANGED <<todo, file, key, new, result, history>>

BadClose ==  \* its status is ignored
  /\ pc = "close"
  /\ \E c \in Prefixes(new) : disk' = [disk EXCEPT ![file] = c]
  /\ pc' = "size" /\ file' = None /\ new' = Empty
  /\ UNCHANGED <<todo, key, result, history>>

Close ==
  /\ pc = "close"
  /\ disk' = [disk EXCEPT ![file] = new]
  /\ pc' = "size" /\ file' = None /\ new' = Empty
  /\ UNCHANGED <<todo, key, result, history>>

Stop(status) ==
  /\ todo' = {} /\ file' = None /\ new' = Empty
  /\ pc' = "idle" /\ result' = status
  /\ failures' = failures + 1
  /\ UNCHANGED <<key, calls, before, earlier>>

(* A failed listing, open or read leaves the file alone; a failed Append   *)
(* or Close leaves what was written, and the destructor may add the rest.  *)
Fail ==
  /\ pc # "idle"
  /\ pc = "size" => todo = Files
  /\ \/ pc \in {"size", "read", "truncate"} /\ UNCHANGED disk
     \/ /\ pc \in {"append", "close"}
        /\ \E c \in Prefixes(new) : disk' = [disk EXCEPT ![file] = c]
  /\ Stop("error")

Crash ==
  /\ pc # "idle"
  /\ UNCHANGED disk
  /\ Stop("crash")

Next ==
  \/ \E k \in Keys : Encrypt(k)
  \/ \E f \in Files : Size(f)
  \/ Finish \/ Read \/ Truncate \/ AppendContent \/ Close
  \/ Fail \/ Crash

Spec == Init /\ [][Next]_vars

-----------------------------------------------------------------------------
TypeOK ==
  /\ disk \in [Files -> Content] /\ before \in [Files -> Content]
  /\ todo \subseteq Files /\ file \in Files \union {None}
  /\ pc \in {"idle", "size", "read", "truncate", "append", "close"}
  /\ key \in Keys \union {None} /\ new \in Content
  /\ result \in {"ok", "error", "crash"}
  /\ calls \in 0 .. MaxCalls /\ failures \in 0 .. MaxCalls

Done == pc = "idle" /\ calls > 0
Intact(d) == \A f \in Files : d[f].bytes = "all"
Torn == {f \in Files : disk[f].bytes # "all"}

(* An OK means that every file was turned over: "every files of the        *)
(* database except log files will be circularly XOR encrypted"             *)
(* (leveldb_mcne.h).                                                       *)
OkMeansEveryFile ==
  Done /\ result = "ok" /\ Intact(before) =>
    \A f \in Files \ Logs : disk[f] = NewContent(before[f], key)

(* Two calls in a row with one key that both returned OK give the database *)
(* back, whatever mix of keys and directions earlier calls left it in.     *)
TwiceRestores ==
  Done /\ result = "ok" /\ earlier.key = key /\ Intact(earlier.disk)
    => disk = earlier.disk

(* A call that fails or dies damages one file at most, the one it was      *)
(* rewriting.                                                              *)
OneFileAtRisk ==
  Cardinality(Torn) <= failures + (IF file = None THEN 0 ELSE 1)

(* The direction is "decided on the database" (leveldb_mcne.h): a call     *)
(* that returns OK leaves all its files encrypted or none.                 *)
DecidedOnDatabase ==
  Done /\ result = "ok" =>
    \/ \A f \in Files \ Logs : disk[f].magic
    \/ \A f \in Files \ Logs : ~disk[f].magic
=============================================================================
