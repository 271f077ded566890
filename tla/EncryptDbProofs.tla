-------------------------- MODULE EncryptDbProofs --------------------------
(***************************************************************************)
(* Proofs about EncryptDb, for any files, keys and number of calls: what   *)
(* OK means, that two calls restore, and that a failure damages one file;  *)
(* and about InferDb: that its answer is the key of every file.            *)
(***************************************************************************)
EXTENDS InferDb, FiniteSetTheorems, TLAPS

TypeInv ==
  /\ disk \in [Files -> Content] /\ before \in [Files -> Content]
  /\ todo \subseteq Files /\ file \in Files \union {None}
  /\ pc \in {"idle", "size", "read", "truncate", "append", "close"}
  /\ key \in Keys \union {None} /\ new \in Content
  /\ result \in {"ok", "error", "crash"}
  /\ calls \in 0 .. MaxCalls /\ failures \in Nat
  /\ earlier \in [key : Keys \union {None}, disk : [Files -> Content]]

(* Where the call is, and what it knows of its file.                       *)
ControlInv ==
  /\ failures <= calls /\ (pc # "idle" => failures < calls)
  /\ key = None <=> calls = 0
  /\ pc = "idle" => todo = {}
  /\ file = None <=> pc \in {"idle", "size"}
  /\ file # None => MayEncrypt(file) /\ file \notin todo /\ before[file] # Empty
  /\ pc \in {"read", "truncate"} => disk[file] = before[file]
  /\ pc \in {"truncate", "append", "close"} => new = NewContent(before[file], key)
  /\ \A f \in todo : disk[f] = before[f]

(* What a call with a key makes of a file.                                 *)
Turned(f, c, k) == IF MayEncrypt(f) /\ c # Empty THEN NewContent(c, k) ELSE c

(* The files the call has dealt with: all of them, once it returned OK.    *)
DealtWith(f) ==
  /\ f \notin todo /\ f # file /\ key # None
  /\ pc # "idle" \/ result = "ok"

TurnedInv ==
  \A f \in Files : DealtWith(f) => disk[f] = Turned(f, before[f], key)

EarlierInv ==
  earlier.key # None =>
    \A f \in Files : before[f] = Turned(f, earlier.disk[f], earlier.key)

(* The files that were damaged before the one at work was touched.         *)
Damaged ==
  {f \in Files : \/ f # file /\ disk[f].bytes # "all"
                 \/ f = file /\ before[f].bytes # "all"}

DamagedInv == IsFiniteSet(Damaged) /\ Cardinality(Damaged) <= failures

IInv ==
  /\ TypeInv
  /\ ControlInv
  /\ ~SizeFails => TurnedInv /\ EarlierInv
  /\ DamagedInv

-----------------------------------------------------------------------------
(* NewContent keeps how much there is of a file, and undoes itself.        *)
LEMMA NewContentIs ==
  ASSUME NEW c \in Content, NEW k \in Keys
  PROVE  NewContent(c, k) \in Content /\ NewContent(c, k).bytes = c.bytes
  BY DEF NewContent, XorKeys, Content

(* Encrypting or decrypting twice with one key gives a file back.          *)
LEMMA NewContentTwice ==
  ASSUME NEW c \in Content, NEW k \in Keys, c.bytes = "all"
  PROVE  NewContent(NewContent(c, k), k) = c
<1> DEFINE d == NewContent(c, k)
           e == NewContent(d, k)
<1>1. /\ c.magic \in BOOLEAN /\ c.keys \subseteq Keys
      /\ c = [magic |-> c.magic, bytes |-> "all", keys |-> c.keys]
  BY DEF Content
<1>2. /\ d.bytes = "all" /\ d.magic = ~c.magic /\ d \in Content
      /\ d.keys = IF k \in c.keys THEN c.keys \ {k} ELSE c.keys \union {k}
  BY DEF NewContent, XorKeys, Content
<1> HIDE DEF d
<1>3. /\ e.bytes = "all" /\ e.magic = ~d.magic /\ e \in Content
      /\ e.keys = IF k \in d.keys THEN d.keys \ {k} ELSE d.keys \union {k}
  BY <1>2 DEF NewContent, XorKeys, Content
<1> HIDE DEF e
<1>4. e.keys = c.keys
  BY <1>1, <1>2, <1>3
<1>5. e.magic = c.magic
  <2>1. e.magic = ~~c.magic
    BY <1>2, <1>3, Zenon
  <2> QED
    BY <1>1, <2>1, Zenon
<1>6. e = [magic |-> e.magic, bytes |-> e.bytes, keys |-> e.keys]
  BY <1>3 DEF Content
<1>7. e = c
  BY <1>1, <1>3, <1>4, <1>5, <1>6, Zenon
<1> QED
  BY <1>7 DEF d, e

(* A write that is cut short leaves something of a file.                   *)
LEMMA PrefixesAre ==
  ASSUME NEW c \in Content, NEW d \in Prefixes(c)
  PROVE  d \in Content
<1>1. CASE d = Empty \/ d = [Empty EXCEPT !.bytes = "some"]
  <2>1. Empty \in Content
    BY DEF Content, Empty
  <2>2. [Empty EXCEPT !.bytes = "some"] \in Content
    BY <2>1 DEF Content
  <2> QED
    BY <1>1, <2>1, <2>2
<1>2. CASE d = [c EXCEPT !.bytes = "none", !.keys = {}]
  BY <1>2 DEF Content
<1>3. CASE d = [c EXCEPT !.bytes = "some"]
  BY <1>3 DEF Content
<1>4. CASE d = c
  BY <1>4
<1>5. \/ d = Empty \/ d = [Empty EXCEPT !.bytes = "some"]
      \/ d = [c EXCEPT !.bytes = "none", !.keys = {}]
      \/ d = [c EXCEPT !.bytes = "some"] \/ d = c
  <2> DEFINE none == [c EXCEPT !.bytes = "none", !.keys = {}]
             cut == [c EXCEPT !.bytes = "some"]
             few == [Empty EXCEPT !.bytes = "some"]
  <2>1. d \in {Empty, none} \union (IF c.bytes = "none" THEN {} ELSE {cut, few, c})
    BY DEF Prefixes
  <2> HIDE DEF none, cut, few
  <2>2. d = Empty \/ d = none \/ d = cut \/ d = few \/ d = c
    BY <2>1
  <2> QED
    BY <2>2 DEF none, cut, few
<1> QED
  BY <1>1, <1>2, <1>3, <1>4, <1>5

(* The empty file.                                                         *)
LEMMA EmptyIs == Empty \in Content /\ Empty.bytes = "none"
  BY DEF Empty, Content

(* A closed database.                                                      *)
LEMMA InitIInv == Init => IInv
<1> SUFFICES ASSUME Init PROVE IInv
  OBVIOUS
<1> USE EncryptAssumption
<1>1. disk \in [Files -> Content] /\ \A f \in Files : disk[f].bytes = "all"
  <2>1. Plain \in Content /\ Plain.bytes = "all"
    BY DEF Plain, Content
  <2>2. \A k \in Keys : Encrypted(k) \in Content /\ Encrypted(k).bytes = "all"
    BY DEF Encrypted, Content
  <2>3. CASE disk = [f \in Files |-> Plain]
    BY <2>1, <2>3
  <2>4. ASSUME NEW k \in Keys,
               disk = [f \in Files |-> IF MayEncrypt(f) THEN Encrypted(k) ELSE Plain]
        PROVE  disk \in [Files -> Content] /\ \A f \in Files : disk[f].bytes = "all"
    BY <2>1, <2>2, <2>4
  <2> QED
    BY <2>3, <2>4 DEF Init
<1>2. TypeInv
  BY <1>1, EmptyIs DEF Init, TypeInv
<1>3. ControlInv
  BY DEF Init, ControlInv
<1>4. TurnedInv /\ EarlierInv
  BY DEF Init, TurnedInv, EarlierInv, DealtWith
<1>5. DamagedInv
  <2>1. Damaged = {}
    BY <1>1 DEF Init, Damaged
  <2> QED
    BY <2>1, FS_EmptySet DEF DamagedInv, Init
<1> QED
  BY <1>2, <1>3, <1>4, <1>5 DEF IInv

-----------------------------------------------------------------------------
(* Encrypt begins with the disk as the call before left it.                *)
LEMMA EncryptIInv == ASSUME IInv, NEW k \in Keys, Encrypt(k) PROVE IInv'
<1> USE EncryptAssumption DEF Encrypt
<1>1. TypeInv /\ ControlInv /\ DamagedInv
  BY DEF IInv
<1>2. TypeInv'
  <2>1. calls' \in 0 .. MaxCalls
    BY <1>1 DEF TypeInv
  <2>2. earlier' \in [key : Keys \union {None}, disk : [Files -> Content]]
    BY <1>1 DEF TypeInv
  <2> QED
    BY <1>1, <2>1, <2>2 DEF TypeInv
<1>3. ControlInv'
  BY <1>1 DEF TypeInv, ControlInv
<1>4. ASSUME ~SizeFails PROVE TurnedInv' /\ EarlierInv'
  <2>1. TurnedInv
    BY <1>4 DEF IInv
  <2>2. TurnedInv'
    BY <1>1 DEF TurnedInv, DealtWith, ControlInv
  <2>3. CASE result = "ok"
    <3>1. \A f \in Files : key # None => DealtWith(f)
      BY <1>1, <2>3 DEF DealtWith, ControlInv, TypeInv
    <3>2. earlier'.key = key /\ earlier'.disk = before
      BY <2>3
    <3> QED
      BY <2>1, <2>2, <3>1, <3>2 DEF TurnedInv, EarlierInv, Turned
  <2>4. CASE result # "ok"
    BY <2>2, <2>4 DEF EarlierInv
  <2> QED
    BY <2>3, <2>4
<1>5. DamagedInv'
  BY <1>1 DEF DamagedInv, Damaged, ControlInv
<1> QED
  BY <1>2, <1>3, <1>4, <1>5 DEF IInv

(* Size takes a file of which nothing has changed yet.                     *)
LEMMA SizeIInv == ASSUME IInv, NEW f \in Files, Size(f) PROVE IInv'
<1> USE EncryptAssumption DEF Size, history
<1>1. TypeInv /\ ControlInv /\ DamagedInv
  BY DEF IInv
<1>2. TypeInv'
  BY <1>1 DEF TypeInv
<1>3. ControlInv'
  BY <1>1 DEF TypeInv, ControlInv, MayEncrypt
<1>4. ASSUME ~SizeFails PROVE TurnedInv' /\ EarlierInv'
  <2>1. TurnedInv /\ EarlierInv
    BY <1>4 DEF IInv
  <2>2. EarlierInv'
    BY <2>1 DEF EarlierInv, Turned, MayEncrypt
  <2>3. ASSUME NEW g \in Files, DealtWith(g)' PROVE disk'[g] = Turned(g, before[g], key)'
    <3>1. CASE g # f
      BY <1>1, <2>1, <2>3, <3>1
      DEF TurnedInv, DealtWith, Turned, MayEncrypt, ControlInv
    <3>2. CASE g = f
      BY <1>1, <1>4, <2>3, <3>2 DEF DealtWith, Turned, MayEncrypt, ControlInv
    <3> QED
      BY <3>1, <3>2
  <2> QED
    BY <2>2, <2>3 DEF TurnedInv
<1>5. Damaged' = Damaged
  BY <1>1 DEF Damaged, ControlInv
<1> QED
  BY <1>1, <1>2, <1>3, <1>4, <1>5 DEF IInv, DamagedInv

(* Finish returns OK when no file is left.                                 *)
LEMMA FinishIInv == ASSUME IInv, Finish PROVE IInv'
<1> USE EncryptAssumption DEF Finish, history
<1>1. TypeInv /\ ControlInv /\ DamagedInv
  BY DEF IInv
<1>2. TypeInv'
  BY <1>1 DEF TypeInv
<1>3. ControlInv'
  BY <1>1 DEF TypeInv, ControlInv, MayEncrypt
<1>4. ASSUME ~SizeFails PROVE TurnedInv' /\ EarlierInv'
  <2>1. TurnedInv /\ EarlierInv
    BY <1>4 DEF IInv
  <2> QED
    BY <2>1 DEF TurnedInv, EarlierInv, DealtWith, Turned, MayEncrypt
<1>5. Damaged' = Damaged
  BY DEF Damaged
<1> QED
  BY <1>1, <1>2, <1>3, <1>4, <1>5 DEF IInv, DamagedInv

(* Read computes the new content.                                          *)
LEMMA ReadIInv == ASSUME IInv, Read PROVE IInv'
<1> USE EncryptAssumption DEF Read, history
<1>1. TypeInv /\ ControlInv /\ DamagedInv
  BY DEF IInv
<1>2. /\ file \in Files /\ key \in Keys /\ disk[file] \in Content
      /\ disk[file] = before[file]
  BY <1>1 DEF TypeInv, ControlInv
<1>3. new' = NewContent(before[file], key) /\ new' \in Content
  BY <1>2, NewContentIs
<1>4. TypeInv'
  BY <1>1, <1>3 DEF TypeInv
<1>5. ControlInv'
  BY <1>1, <1>2, <1>3 DEF TypeInv, ControlInv, MayEncrypt, NewContent, XorKeys
<1>6. ASSUME ~SizeFails PROVE TurnedInv' /\ EarlierInv'
  BY <1>6 DEF IInv, TurnedInv, EarlierInv, DealtWith, Turned, MayEncrypt
<1>7. Damaged' = Damaged
  BY DEF Damaged
<1> QED
  BY <1>1, <1>4, <1>5, <1>6, <1>7 DEF IInv, DamagedInv

(* A step that changes the file at work, and only that.                    *)
LEMMA RewriteIInv ==
  ASSUME IInv, pc \in {"truncate", "append"}, pc' \in {"append", "close"},
         NEW c \in Content, disk' = [disk EXCEPT ![file] = c],
         UNCHANGED <<todo, file, key, new, result, history>>
  PROVE  IInv'
<1> USE EncryptAssumption DEF history
<1>1. TypeInv /\ ControlInv /\ DamagedInv
  BY DEF IInv
<1>2. \A f \in Files : f # file => disk'[f] = disk[f]
  BY <1>1 DEF TypeInv
<1>3. TypeInv'
  BY <1>1 DEF TypeInv
<1>4. ControlInv'
  BY <1>1, <1>2 DEF TypeInv, ControlInv, MayEncrypt, NewContent, XorKeys
<1>5. ASSUME ~SizeFails PROVE TurnedInv' /\ EarlierInv'
  <2>1. TurnedInv /\ EarlierInv
    BY <1>5 DEF IInv
  <2>2. EarlierInv'
    BY <2>1 DEF EarlierInv, Turned, MayEncrypt
  <2>3. TurnedInv'
    BY <1>2, <2>1 DEF TurnedInv, DealtWith, Turned, MayEncrypt
  <2> QED
    BY <2>2, <2>3
<1>6. Damaged' = Damaged
  BY <1>2 DEF Damaged
<1> QED
  BY <1>1, <1>3, <1>4, <1>5, <1>6 DEF IInv, DamagedInv

(* Close leaves the whole new content.                                     *)
LEMMA CloseIInv == ASSUME IInv, Close PROVE IInv'
<1> USE EncryptAssumption DEF Close, history
<1>1. TypeInv /\ ControlInv /\ DamagedInv
  BY DEF IInv
<1>2. /\ file \in Files /\ key \in Keys /\ before[file] \in Content
      /\ new = NewContent(before[file], key)
      /\ MayEncrypt(file) /\ before[file] # Empty
  BY <1>1 DEF TypeInv, ControlInv
<1>3. new.bytes = before[file].bytes
  BY <1>2, NewContentIs
<1>4. disk'[file] = new /\ \A f \in Files : f # file => disk'[f] = disk[f]
  BY <1>1, <1>2 DEF TypeInv
<1>5. TypeInv'
  BY <1>1, EmptyIs DEF TypeInv
<1>6. ControlInv'
  BY <1>1, <1>4 DEF TypeInv, ControlInv
<1>7. ASSUME ~SizeFails PROVE TurnedInv' /\ EarlierInv'
  <2>1. TurnedInv /\ EarlierInv
    BY <1>7 DEF IInv
  <2>2. EarlierInv'
    BY <2>1 DEF EarlierInv, Turned, MayEncrypt
  <2>3. new = Turned(file, before[file], key)
    BY <1>2 DEF Turned
  <2>4. TurnedInv'
    BY <1>4, <2>1, <2>3 DEF TurnedInv, DealtWith, Turned, MayEncrypt
  <2> QED
    BY <2>2, <2>4
<1>8. Damaged' = Damaged
  BY <1>1, <1>2, <1>3, <1>4 DEF Damaged
<1> QED
  BY <1>1, <1>5, <1>6, <1>7, <1>8 DEF IInv, DamagedInv

(* A call that stops early has changed at most its file, and counts as a   *)
(* failure.                                                                *)
LEMMA StopIInv ==
  ASSUME IInv, pc # "idle", NEW status \in {"error", "crash"}, Stop(status),
         disk' \in [Files -> Content],
         \A f \in Files : f # file => disk'[f] = disk[f]
  PROVE  IInv'
<1> USE EncryptAssumption DEF Stop
<1>1. TypeInv /\ ControlInv /\ DamagedInv
  BY DEF IInv
<1>2. TypeInv'
  BY <1>1, EmptyIs DEF TypeInv
<1>3. ControlInv'
  BY <1>1 DEF TypeInv, ControlInv
<1>4. ASSUME ~SizeFails PROVE TurnedInv' /\ EarlierInv'
  BY <1>4 DEF IInv, TurnedInv, EarlierInv, DealtWith, Turned, MayEncrypt
<1>5. DamagedInv'
  <2>1. IsFiniteSet(Damaged) /\ Cardinality(Damaged) <= failures
    BY <1>1 DEF DamagedInv
  <2>2. Damaged' \subseteq Damaged \union {file}
    BY DEF Damaged
  <2>3. /\ IsFiniteSet(Damaged \union {file})
        /\ Cardinality(Damaged \union {file}) <= Cardinality(Damaged) + 1
    <3>1. /\ IsFiniteSet(Damaged \union {file})
          /\ \/ Cardinality(Damaged \union {file}) = Cardinality(Damaged)
             \/ Cardinality(Damaged \union {file}) = Cardinality(Damaged) + 1
      BY <2>1, FS_AddElement
    <3>2. Cardinality(Damaged) \in Nat
      BY <2>1, FS_CardinalityType
    <3> QED
      BY <3>1, <3>2
  <2>4. /\ IsFiniteSet(Damaged')
        /\ Cardinality(Damaged') <= Cardinality(Damaged \union {file})
    BY <2>2, <2>3, FS_Subset
  <2>5. /\ Cardinality(Damaged) \in Nat /\ failures \in Nat
        /\ Cardinality(Damaged \union {file}) \in Nat
        /\ Cardinality(Damaged') \in Nat
    BY <1>1, <2>1, <2>3, <2>4, FS_CardinalityType DEF TypeInv
  <2>6. Cardinality(Damaged') <= failures + 1
    BY <2>1, <2>3, <2>4, <2>5
  <2> QED
    BY <2>4, <2>6 DEF DamagedInv
<1> QED
  BY <1>2, <1>3, <1>4, <1>5 DEF IInv

(* Every step keeps the invariant.                                         *)
LEMMA StepIInv == IInv /\ [Next]_vars => IInv'
<1> SUFFICES ASSUME IInv, [Next]_vars PROVE IInv'
  OBVIOUS
<1>1. TypeInv /\ ControlInv
  BY DEF IInv
<1>2. \A c \in Prefixes(new) : c \in Content
  BY <1>1, PrefixesAre DEF TypeInv
<1>3. ASSUME NEW k \in Keys, Encrypt(k) PROVE IInv'
  BY <1>3, EncryptIInv
<1>4. ASSUME NEW f \in Files, Size(f) PROVE IInv'
  BY <1>4, SizeIInv
<1>5. CASE Finish
  BY <1>5, FinishIInv
<1>6. CASE Read
  BY <1>6, ReadIInv
<1>7. CASE Truncate
  BY <1>7, EmptyIs, RewriteIInv DEF Truncate
<1>8. CASE AppendContent
  BY <1>2, <1>8, RewriteIInv DEF AppendContent
<1>9. CASE Close
  BY <1>9, CloseIInv
<1>10. CASE Fail
  <2>1. disk' \in [Files -> Content] /\ \A f \in Files : f # file => disk'[f] = disk[f]
    BY <1>1, <1>2, <1>10 DEF Fail, TypeInv
  <2> QED
    BY <1>10, <2>1, StopIInv DEF Fail
<1>11. CASE Crash
  BY <1>1, <1>11, StopIInv DEF Crash, TypeInv
<1>12. CASE UNCHANGED vars
  <2>1. UNCHANGED <<disk, todo, file, pc, key, new, result, calls, failures, before, earlier>>
    BY <1>12 DEF vars, local, history
  <2>2. TypeInv' /\ ControlInv'
    BY <1>1, <2>1 DEF TypeInv, ControlInv, MayEncrypt, NewContent, XorKeys
  <2>3. ASSUME ~SizeFails PROVE TurnedInv' /\ EarlierInv'
    BY <2>1, <2>3 DEF IInv, TurnedInv, EarlierInv, DealtWith, Turned, MayEncrypt,
                      NewContent, XorKeys
  <2>4. DamagedInv'
    BY <2>1 DEF IInv, DamagedInv, Damaged
  <2> QED
    BY <2>2, <2>3, <2>4 DEF IInv
<1> QED
  BY <1>3, <1>4, <1>5, <1>6, <1>7, <1>8, <1>9, <1>10, <1>11, <1>12 DEF Next

(* The invariant holds in every reachable state.                           *)
LEMMA Invariance == Spec => []IInv
  BY InitIInv, StepIInv, PTL DEF Spec

-----------------------------------------------------------------------------
(* The variables keep their types; calls that failed are no more than the  *)
(* calls made.                                                             *)
THEOREM TypeCorrect == Spec => []TypeOK
<1>1. IInv => TypeOK
  BY EncryptAssumption DEF IInv, TypeInv, ControlInv, TypeOK
<1> QED
  BY <1>1, Invariance, PTL

(* A call that fails or dies damages the file it was rewriting and no      *)
(* other, whatever its key and whatever the calls before it left.          *)
THEOREM OneFileDamaged == Spec => []OneFileAtRisk
<1>1. ASSUME IInv PROVE OneFileAtRisk
  <2>1. /\ IsFiniteSet(Damaged) /\ Cardinality(Damaged) <= failures
        /\ failures \in Nat /\ Cardinality(Damaged) \in Nat
    BY <1>1, FS_CardinalityType DEF IInv, DamagedInv, TypeInv
  <2>2. CASE file = None
    <3>1. Torn = Damaged
      BY <2>2, EncryptAssumption DEF Torn, Damaged
    <3> QED
      BY <2>1, <2>2, <3>1 DEF OneFileAtRisk
  <2>3. CASE file # None
    <3>1. Torn \subseteq Damaged \union {file}
      BY DEF Torn, Damaged
    <3>2. /\ IsFiniteSet(Damaged \union {file})
          /\ Cardinality(Damaged \union {file}) <= Cardinality(Damaged) + 1
      BY <2>1, FS_AddElement
    <3>3. IsFiniteSet(Torn) /\ Cardinality(Torn) <= Cardinality(Damaged \union {file})
      BY <3>1, <3>2, FS_Subset
    <3>4. Cardinality(Torn) \in Nat /\ Cardinality(Damaged \union {file}) \in Nat
      BY <3>2, <3>3, FS_CardinalityType
    <3> QED
      BY <2>1, <2>3, <3>2, <3>3, <3>4 DEF OneFileAtRisk
  <2> QED
    BY <2>2, <2>3
<1> QED
  BY <1>1, Invariance, PTL

(* EncryptDB returns OK only if it turned over every file but the logs,    *)
(* when the path holds no exempt name and GetFileSize does not fail.       *)
THEOREM OkCoversEveryFile ==
  ASSUME ~PathExempt, ~SizeFails
  PROVE  Spec => []OkMeansEveryFile
<1>1. ASSUME IInv PROVE OkMeansEveryFile
  <2> SUFFICES ASSUME Done, result = "ok", Intact(before), NEW f \in Files \ Logs
               PROVE  disk[f] = NewContent(before[f], key)
    BY DEF OkMeansEveryFile
  <2>1. DealtWith(f)
    BY <1>1, EncryptAssumption DEF Done, DealtWith, IInv, ControlInv, TypeInv
  <2>2. MayEncrypt(f) /\ before[f] # Empty
    BY EmptyIs DEF MayEncrypt, Intact
  <2> QED
    BY <1>1, <2>1, <2>2 DEF IInv, TurnedInv, Turned
<1> QED
  BY <1>1, Invariance, PTL

(* Two calls of EncryptDB in a row, with one key and both OK, restore an   *)
(* intact database, whatever mix of directions it was left in.             *)
THEOREM TwoCallsRestore ==
  ASSUME ~SizeFails
  PROVE  Spec => []TwiceRestores
<1>1. ASSUME IInv PROVE TwiceRestores
  <2> SUFFICES ASSUME Done, result = "ok", earlier.key = key, Intact(earlier.disk)
               PROVE  disk = earlier.disk
    BY DEF TwiceRestores
  <2>1. /\ key \in Keys /\ disk \in [Files -> Content]
        /\ earlier.disk \in [Files -> Content] /\ key # None
    BY <1>1, EncryptAssumption DEF Done, IInv, ControlInv, TypeInv
  <2>2. ASSUME NEW f \in Files PROVE disk[f] = earlier.disk[f]
    <3> DEFINE c == earlier.disk[f]
    <3>1. c \in Content /\ c.bytes = "all"
      BY <2>1 DEF Intact
    <3>2. DealtWith(f)
      BY <1>1, <2>1, EncryptAssumption DEF Done, DealtWith, IInv, ControlInv, TypeInv
    <3>3. /\ disk[f] = Turned(f, before[f], key)
          /\ before[f] = Turned(f, c, key)
      BY <1>1, <2>1, <3>2 DEF IInv, TurnedInv, EarlierInv
    <3>4. c # Empty /\ NewContent(c, key) # Empty
      BY <2>1, <3>1, EmptyIs, NewContentIs
    <3>5. NewContent(NewContent(c, key), key) = c
      BY <2>1, <3>1, NewContentTwice
    <3> QED
      BY <3>3, <3>4, <3>5 DEF Turned
  <2> QED
    BY <2>1, <2>2
<1> QED
  BY <1>1, Invariance, PTL

-----------------------------------------------------------------------------
(* What InferDb adds.  A file that was encrypted and decrypted whole has   *)
(* the magic number when the number of its keys is odd.                    *)
Consistent(c) ==
  /\ c \in Content /\ c.bytes = "all"
  /\ IsFiniteSet(c.keys)
  /\ c.magic <=> Cardinality(c.keys) % 2 = 1

(* Every file but the exempt ones has one content.                         *)
Uniform(d) ==
  \E c \in Content :
    Consistent(c) /\ \A f \in Files : d[f] = IF MayEncrypt(f) THEN c ELSE Plain

(* While no call has failed the calls leave the files alike.               *)
UniformInv ==
  failures = 0 =>
    /\ result = "ok"
    /\ calls = 0 => disk = before
    /\ Uniform(before)

(* An answer is about the disk as it is.                                   *)
AnswerInv ==
  \/ answer = Unasked
  \/ /\ pc = "idle"
     /\ answer = Corruption \/ \E name \in Manifests : answer = Inference(name)

InferInv ==
  /\ IInv
  /\ ~SizeFails => UniformInv
  /\ AnswerInv

(* A key more, or one less, and the magic number changes with the parity.  *)
LEMMA NewContentConsistent ==
  ASSUME NEW c, Consistent(c), NEW k \in Keys
  PROVE  Consistent(NewContent(c, k))
<1> DEFINE d == NewContent(c, k)
           n == Cardinality(c.keys)
           m == Cardinality(d.keys)
<1>1. c \in Content /\ c.bytes = "all" /\ IsFiniteSet(c.keys)
  BY DEF Consistent
<1>2. /\ d \in Content /\ d.bytes = "all" /\ d.magic = ~c.magic
      /\ d.keys = IF k \in c.keys THEN c.keys \ {k} ELSE c.keys \union {k}
  BY <1>1 DEF NewContent, XorKeys, Content
<1> HIDE DEF d
<1>3. n \in Nat
  BY <1>1, FS_CardinalityType
<1>4. IsFiniteSet(d.keys) /\ (m = n + 1 \/ m = n - 1)
  <2>1. CASE k \in c.keys
    BY <1>1, <1>2, <2>1, FS_RemoveElement
  <2>2. CASE k \notin c.keys
    BY <1>1, <1>2, <2>2, FS_AddElement
  <2> QED
    BY <2>1, <2>2
<1>5. m \in Nat
  BY <1>4, FS_CardinalityType
<1>6. m % 2 = 1 <=> ~(n % 2 = 1)
  BY <1>3, <1>4, <1>5
<1>7. d.magic <=> m % 2 = 1
  <2>1. c.magic <=> n % 2 = 1
    BY DEF Consistent
  <2>2. d.magic <=> ~c.magic
    BY <1>2, Zenon
  <2> QED
    BY <1>6, <2>1, <2>2, Zenon
<1>8. Consistent(d)
  BY <1>2, <1>4, <1>7, Zenon DEF Consistent
<1> QED
  BY <1>8 DEF d

(* An unencrypted database, and one encrypted with a key, are uniform.     *)
LEMMA InitUniform == Init => UniformInv
<1> SUFFICES ASSUME Init PROVE UniformInv
  OBVIOUS
<1>1. Consistent(Plain)
  <2>1. Plain \in Content /\ Plain.bytes = "all" /\ Plain.keys = {} /\ ~Plain.magic
    BY DEF Plain, Content
  <2>2. IsFiniteSet({}) /\ Cardinality({}) = 0
    BY FS_EmptySet
  <2>3. ~(0 % 2 = 1)
    OBVIOUS
  <2> QED
    BY <2>1, <2>2, <2>3, Zenon DEF Consistent
<1>2. ASSUME NEW k \in Keys PROVE Consistent(Encrypted(k))
  <2>1. /\ Encrypted(k) \in Content /\ Encrypted(k).bytes = "all"
        /\ Encrypted(k).keys = {k} /\ Encrypted(k).magic
    BY DEF Encrypted, Content
  <2>2. IsFiniteSet({k}) /\ Cardinality({k}) = 1
    BY FS_Singleton
  <2>3. 1 % 2 = 1
    OBVIOUS
  <2> QED
    BY <2>1, <2>2, <2>3, Zenon DEF Consistent
<1>3. Uniform(disk)
  <2>1. CASE disk = [f \in Files |-> Plain]
    <3>1. \A f \in Files : disk[f] = IF MayEncrypt(f) THEN Plain ELSE Plain
      BY <2>1
    <3> QED
      BY <1>1, <3>1 DEF Uniform, Consistent
  <2>2. ASSUME NEW k \in Keys,
               disk = [f \in Files |-> IF MayEncrypt(f) THEN Encrypted(k) ELSE Plain]
        PROVE  Uniform(disk)
    BY <1>2, <2>2 DEF Uniform, Consistent
  <2> QED
    BY <2>1, <2>2 DEF Init
<1> QED
  BY <1>3 DEF Init, UniformInv

(* Between calls the files are alike, as long as none has failed.          *)
LEMMA UniformBetweenCalls ==
  ASSUME IInv, UniformInv, ~SizeFails, pc = "idle", failures = 0
  PROVE  Uniform(disk)
<1>1. TypeInv /\ ControlInv /\ TurnedInv
  BY DEF IInv
<1>2. result = "ok" /\ Uniform(before)
  BY DEF UniformInv
<1>3. CASE calls = 0
  BY <1>2, <1>3 DEF UniformInv
<1>4. CASE calls # 0
  <2>1. key \in Keys /\ key # None
    BY <1>1, <1>4 DEF TypeInv, ControlInv
  <2>2. PICK c \in Content :
           /\ Consistent(c)
           /\ \A f \in Files : before[f] = IF MayEncrypt(f) THEN c ELSE Plain
    BY <1>2 DEF Uniform
  <2>3. Consistent(NewContent(c, key))
    BY <2>1, <2>2, NewContentConsistent
  <2>4. ASSUME NEW f \in Files
        PROVE  disk[f] = IF MayEncrypt(f) THEN NewContent(c, key) ELSE Plain
    <3>1. DealtWith(f)
      BY <1>1, <1>2, <2>1, EncryptAssumption DEF DealtWith, ControlInv, TypeInv
    <3>2. disk[f] = Turned(f, before[f], key)
      BY <1>1, <3>1 DEF TurnedInv
    <3>3. c # Empty
      BY <2>2, EmptyIs DEF Consistent
    <3> QED
      BY <2>2, <3>2, <3>3 DEF Turned
  <2>5. NewContent(c, key) \in Content
    BY <2>3 DEF Consistent
  <2> QED
    BY <2>3, <2>4, <2>5 DEF Uniform
<1> QED
  BY <1>3, <1>4

(* No step of EncryptDB but the first looks at, or changes, what the files *)
(* were alike in.                                                          *)
LEMMA StepUniform ==
  ASSUME IInv, UniformInv, ~SizeFails, [Next]_vars
  PROVE  UniformInv'
<1>1. TypeInv /\ ControlInv
  BY DEF IInv
<1>2. ASSUME NEW k \in Keys, Encrypt(k) PROVE UniformInv'
  <2>1. ASSUME failures = 0 PROVE Uniform(before')
    BY <1>2, <2>1, UniformBetweenCalls DEF Encrypt
  <2>2. calls' # 0
    BY <1>1, <1>2 DEF Encrypt, TypeInv
  <2>3. Uniform(before)' <=> Uniform(before')
    BY DEF Uniform, MayEncrypt
  <2> QED
    BY <1>2, <2>1, <2>2, <2>3 DEF Encrypt, UniformInv
<1>3. ASSUME pc # "idle" \/ UNCHANGED disk,
             UNCHANGED <<calls, failures, before>>, result' \in {result, "ok"}
      PROVE  UniformInv'
  <2>1. calls = 0 => pc = "idle"
    BY <1>1 DEF TypeInv, ControlInv
  <2>2. Uniform(before)' <=> Uniform(before)
    BY <1>3 DEF Uniform, MayEncrypt
  <2> QED
    BY <1>3, <2>1, <2>2 DEF UniformInv
<1>4. ASSUME NEW status, Stop(status) PROVE UniformInv'
  BY <1>1, <1>4 DEF Stop, UniformInv, TypeInv
<1>5. ASSUME NEW f \in Files, Size(f) PROVE UniformInv'
  BY <1>3, <1>5 DEF Size, history
<1>6. CASE Finish
  BY <1>3, <1>6 DEF Finish, history
<1>7. CASE Read \/ Truncate \/ AppendContent \/ Close
  BY <1>3, <1>7 DEF Read, Truncate, AppendContent, Close, history
<1>8. CASE Fail \/ Crash
  BY <1>4, <1>8 DEF Fail, Crash
<1>9. CASE UNCHANGED vars
  BY <1>3, <1>9 DEF vars, history
<1> QED
  BY <1>2, <1>5, <1>6, <1>7, <1>8, <1>9 DEF Next

(* The invariant of EncryptDB with InferDB asked between its calls.        *)
LEMMA InferInvariance == InferSpec => []InferInv
<1>1. InferInit => InferInv
  BY InitIInv, InitUniform DEF InferInit, InferInv, AnswerInv
<1>2. InferInv /\ [InferNext]_<<vars, answer>> => InferInv'
  <2> SUFFICES ASSUME InferInv, [InferNext]_<<vars, answer>> PROVE InferInv'
    OBVIOUS
  <2>1. [Next]_vars
    BY DEF InferNext, Infer
  <2>2. IInv'
    BY <2>1, StepIInv DEF InferInv
  <2>3. ~SizeFails => UniformInv'
    BY <2>1, StepUniform DEF InferInv
  <2>4. AnswerInv'
    <3>1. CASE Infer
      BY <3>1 DEF Infer, AnswerInv, vars, local, Inference, KeyStream
    <3>2. CASE Next /\ answer' = Unasked
      BY <3>2 DEF AnswerInv, Unasked, Answer
    <3>3. CASE UNCHANGED <<vars, answer>>
      BY <3>3 DEF InferInv, AnswerInv, vars, local, Inference, KeyStream
    <3> QED
      BY <3>1, <3>2, <3>3 DEF InferNext
  <2> QED
    BY <2>2, <2>3, <2>4 DEF InferInv
<1> QED
  BY <1>1, <1>2, PTL DEF InferSpec

(* What InferDB can answer OK with: what CURRENT says.                     *)
LEMMA AnswerIs ==
  ASSUME InferInv, answer.status = "ok"
  PROVE  /\ pc = "idle"
         /\ IF disk[Current].magic
              THEN /\ disk[Current].bytes = "all" /\ disk[Current].keys \subseteq Periodic
                   /\ answer.keys = disk[Current].keys
              ELSE answer.keys = {}
<1>1. Corruption.status = "error" /\ Unasked.status = "none"
  BY DEF Corruption, Unasked, Answer
<1>2. PICK name \in Manifests : pc = "idle" /\ answer = Inference(name)
  BY <1>1 DEF InferInv, AnswerInv
<1>3. CASE disk[Current].magic
  BY <1>1, <1>2, <1>3 DEF Inference, KeyStream, Answer
<1>4. CASE ~disk[Current].magic
  BY <1>2, <1>4 DEF Inference, Answer
<1> QED
  BY <1>2, <1>3, <1>4, Zenon

-----------------------------------------------------------------------------
(* The variables keep their types with InferDB asked between calls, and an *)
(* answer is a status and a set of keys that callers gave.                 *)
THEOREM AnswerTypeCorrect == InferSpec => []AnswerOK
<1>1. ASSUME InferInv PROVE AnswerOK
  <2>1. TypeOK
    BY <1>1, EncryptAssumption DEF InferInv, IInv, TypeInv, ControlInv, TypeOK
  <2>2. answer \in Answers
    <3>1. Unasked \in Answers /\ Corruption \in Answers /\ Answer("ok", {}) \in Answers
      BY DEF Unasked, Corruption, Answer, Answers
    <3>2. disk[Current].keys \subseteq Keys
      BY <1>1, InferAssumption DEF InferInv, IInv, TypeInv, Content
    <3>3. Answer("ok", disk[Current].keys) \in Answers
      BY <3>2 DEF Answer, Answers
    <3> QED
      BY <1>1, <3>1, <3>3 DEF InferInv, AnswerInv, Inference, KeyStream
  <2> QED
    BY <2>1, <2>2 DEF AnswerOK
<1> QED
  BY <1>1, InferInvariance, PTL

(* A key that InferDB answers turns CURRENT back, and every other file     *)
(* too as long as no call of EncryptDB has failed, when GetFileSize does   *)
(* not fail: EncryptDB would pass over the file in silence.                *)
THEOREM KeyOfEveryFile ==
  ASSUME ~SizeFails
  PROVE  InferSpec => []InferredKeyFits
<1>1. ASSUME InferInv PROVE InferredKeyFits
  <2> SUFFICES ASSUME answer.status = "ok", answer.keys # {}
               PROVE  /\ disk[Current].bytes = "all"
                      /\ disk[Current].keys = answer.keys
                      /\ answer.keys \subseteq Periodic
                      /\ failures = 0 =>
                           \A f \in Files \ Logs :
                             disk[f].magic /\ disk[f].keys = answer.keys
    BY DEF InferredKeyFits
  <2>1. /\ pc = "idle" /\ disk[Current].magic
        /\ disk[Current].bytes = "all" /\ disk[Current].keys \subseteq Periodic
        /\ answer.keys = disk[Current].keys
    BY <1>1, AnswerIs, Zenon
  <2>2. ASSUME failures = 0, NEW f \in Files \ Logs
        PROVE  disk[f] = disk[Current]
    <3>1. Uniform(disk)
      BY <1>1, <2>1, <2>2, UniformBetweenCalls DEF InferInv
    <3>2. MayEncrypt(f) <=> MayEncrypt(Current)
      BY InferAssumption DEF MayEncrypt
    <3> QED
      BY <3>1, <3>2, InferAssumption DEF Uniform
  <2> QED
    BY <2>1, <2>2, Zenon
<1> QED
  BY <1>1, InferInvariance, PTL

(* InferDB calls a database unencrypted only if no file of it is           *)
(* encrypted, as long as no call of EncryptDB has failed: a file has the   *)
(* magic number when the number of its keys is odd, which none is not.     *)
THEOREM EmptyKeyIsTrue ==
  ASSUME ~SizeFails
  PROVE  InferSpec => []EmptyKeyMeansUnencrypted
<1>1. ASSUME InferInv PROVE EmptyKeyMeansUnencrypted
  <2> SUFFICES ASSUME answer.status = "ok", answer.keys = {}, failures = 0,
                      NEW f \in Files
               PROVE  ~disk[f].magic
    BY Zenon DEF EmptyKeyMeansUnencrypted
  <2>1. pc = "idle" /\ (disk[Current].magic => disk[Current].keys = {})
    BY <1>1, AnswerIs, Zenon
  <2>2. Uniform(disk)
    BY <1>1, <2>1, UniformBetweenCalls DEF InferInv
  <2>3. PICK c \in Content :
          Consistent(c) /\ \A g \in Files : disk[g] = IF MayEncrypt(g) THEN c ELSE Plain
    BY <2>2 DEF Uniform
  <2>4. ~Plain.magic
    BY DEF Plain
  <2>5. ASSUME MayEncrypt(f) PROVE ~c.magic
    <3>1. disk[Current] = c
      BY <2>3, <2>5, InferAssumption DEF MayEncrypt
    <3>2. Cardinality({}) = 0 /\ ~(0 % 2 = 1)
      BY FS_EmptySet
    <3>3. c.keys = {} => ~c.magic
      BY <2>3, <3>2, Zenon DEF Consistent
    <3> QED
      BY <2>1, <3>1, <3>3, Zenon
  <2> QED
    BY <2>3, <2>4, <2>5, Zenon
<1> QED
  BY <1>1, InferInvariance, PTL

(* "Decided on the database" (leveldb_mcne.h) holds as long as no call has *)
(* failed or died and GetFileSize works: what encrypt_rerun finds takes a  *)
(* call that stopped half-way.                                             *)
THEOREM OneDirection ==
  ASSUME ~SizeFails
  PROVE  Spec => [](failures = 0 => DecidedOnDatabase)
<1>1. Init => IInv /\ UniformInv
  BY InitIInv, InitUniform
<1>2. IInv /\ UniformInv /\ [Next]_vars => (IInv /\ UniformInv)'
  BY StepIInv, StepUniform
<1>3. IInv /\ UniformInv => (failures = 0 => DecidedOnDatabase)
  <2> SUFFICES ASSUME IInv, UniformInv, failures = 0, Done
               PROVE  \/ \A f \in Files \ Logs : disk[f].magic
                      \/ \A f \in Files \ Logs : ~disk[f].magic
    BY Zenon DEF DecidedOnDatabase
  <2>1. Uniform(disk)
    BY UniformBetweenCalls DEF Done
  <2>2. PICK c \in Content :
          \A f \in Files : disk[f] = IF MayEncrypt(f) THEN c ELSE Plain
    BY <2>1 DEF Uniform
  <2>3. CASE PathExempt
    <3>1. \A f \in Files \ Logs : disk[f] = Plain
      BY <2>2, <2>3 DEF MayEncrypt
    <3>2. ~Plain.magic
      BY DEF Plain
    <3> QED
      BY <3>1, <3>2, Zenon
  <2>4. CASE ~PathExempt
    <3>1. \A f \in Files \ Logs : disk[f] = c
      BY <2>2, <2>4 DEF MayEncrypt
    <3> QED
      BY <3>1, Zenon
  <2> QED
    BY <2>3, <2>4
<1> QED
  BY <1>1, <1>2, <1>3, PTL DEF Spec
=============================================================================
