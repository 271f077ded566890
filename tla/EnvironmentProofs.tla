------------------------- MODULE EnvironmentProofs -------------------------
(***************************************************************************)
(* Proofs about Environment, for any threads, names, objects and buffer:   *)
(* its operations implement the atomic ones of Namespace, and what         *)
(* DescriptorsProofs shows of the file objects holds when they are opened  *)
(* by these operations.                                                    *)
(***************************************************************************)
EXTENDS Environment, DescriptorsProofs

CallRecord == [op : Operations \union {"none"}, name : Paths, to : Paths,
               cap : Nat, tries : 0 .. Attempts - 1, tested : BOOLEAN]

TypeInv ==
  /\ tree \in [Paths -> Kinds]
  /\ call \in [Threads -> CallRecord]
  /\ changes \in [Threads -> 0 .. Attempts - 1]
  /\ reply \in [Threads -> [status : {"none", "OK", "NotFound", "IOError"},
                            names : SUBSET Names]]

(* A listing that did not fit is of the size asked for now, or the tree    *)
(* was seen to change since then.                                          *)
RoundsSeen(t) ==
  call[t].op = "GetChildren" =>
    \/ changes[t] = call[t].tries
    \/ changes[t] = call[t].tries - 1 /\ Needed(call[t].name) = call[t].cap

(* What CreateDir found missing still is, or the tree was seen to change.  *)
TestSeen(t) ==
  call[t].op = "CreateDir" /\ call[t].tested =>
    changes[t] = 1 \/ (changes[t] = 0 /\ Missing(call[t].name))

(* For the other calls nothing is counted. *)
OthersUnseen(t) == Watched(t) = 0 => changes[t] = 0

Remembers(t) == RoundsSeen(t) /\ TestSeen(t) /\ OthersUnseen(t)

EnvInv == TypeInv /\ \A t \in Threads : Remembers(t)

-----------------------------------------------------------------------------
(* What a step of others makes of a thread's call.                         *)
LEMMA SeenKeeps ==
  ASSUME EnvInv, NEW t \in Threads, call'[t] = call[t], changes'[t] = Seen(t)
  PROVE  changes'[t] \in 0 .. Attempts - 1 /\ Remembers(t)'
<1>1. /\ call[t] \in CallRecord /\ changes[t] \in 0 .. Attempts - 1
      /\ RoundsSeen(t) /\ TestSeen(t) /\ OthersUnseen(t)
  BY DEF EnvInv, TypeInv, Remembers
<1>2. Watched(t)' = Watched(t)
  BY DEF Watched
<1>3. CASE tree' = tree
  <2>1. changes'[t] = changes[t]
    BY <1>3 DEF Seen
  <2>2. Needed(call[t].name)' = Needed(call[t].name)
    BY <1>3 DEF Needed, Listing, Entries
  <2>3. RoundsSeen(t)'
    BY <1>1, <2>1, <2>2 DEF RoundsSeen, Needed, Listing, Entries
  <2> QED
    BY <1>1, <1>2, <1>3, <2>1, <2>3 DEF Remembers, TestSeen, OthersUnseen, Missing
<1>4. CASE tree' # tree
  <2>1. changes'[t] = IF changes[t] < Watched(t) THEN changes[t] + 1 ELSE changes[t]
    BY <1>4 DEF Seen
  <2>2. CASE call[t].op = "GetChildren"
    <3>1. Watched(t) = call[t].tries
      BY <2>2 DEF Watched
    <3>2. changes'[t] = call[t].tries /\ call[t].tries \in 0 .. Attempts - 1
      BY <1>1, <2>1, <2>2, <3>1 DEF RoundsSeen, CallRecord, Attempts
    <3> QED
      BY <1>2, <2>2, <3>1, <3>2
      DEF Remembers, RoundsSeen, TestSeen, OthersUnseen, Attempts
  <2>3. CASE call[t].op = "CreateDir" /\ call[t].tested
    <3>1. Watched(t) = 1
      BY <2>3 DEF Watched
    <3>2. changes'[t] = 1
      BY <1>1, <2>1, <2>3, <3>1 DEF TestSeen
    <3> QED
      BY <1>2, <2>3, <3>1, <3>2
      DEF Remembers, RoundsSeen, TestSeen, OthersUnseen, Attempts
  <2>4. CASE /\ call[t].op # "GetChildren"
             /\ ~(call[t].op = "CreateDir" /\ call[t].tested)
    <3>1. Watched(t) = 0
      BY <2>4 DEF Watched
    <3>2. changes'[t] = 0
      BY <1>1, <2>1, <3>1 DEF OthersUnseen
    <3> QED
      BY <1>2, <2>4, <3>1, <3>2
      DEF Remembers, RoundsSeen, TestSeen, OthersUnseen, Attempts
  <2> QED
    BY <2>2, <2>3, <2>4
<1> QED
  BY <1>3, <1>4

(* A call that begins or moves on changes no file; what it counts is in    *)
(* order again, and the others see nothing.                                *)
LEMMA QuietStep ==
  ASSUME EnvInv, NEW t \in Threads, tree' = tree,
         NEW c \in CallRecord, call' = [call EXCEPT ![t] = c],
         changes' = changes, Remembers(t)', reply' = reply
  PROVE  EnvInv'
<1>1. TypeInv'
  BY DEF EnvInv, TypeInv
<1>2. ASSUME NEW u \in Threads, u # t PROVE Remembers(u)'
  <2>1. call'[u] = call[u] /\ changes'[u] = Seen(u)
    BY <1>2 DEF EnvInv, TypeInv, Seen
  <2> QED
    BY <2>1, SeenKeeps
<1> QED
  BY <1>1, <1>2 DEF EnvInv

(* An answer ends the call, and the others see what it changed.            *)
LEMMA AnswerKeeps ==
  ASSUME EnvInv, NEW t \in Threads, tree' \in [Paths -> Kinds],
         NEW status \in {"OK", "NotFound", "IOError"}, NEW names \in SUBSET Names,
         Answer(t, status, names)
  PROVE  EnvInv'
<1>1. /\ call' = [call EXCEPT ![t] = NoCall]
      /\ reply' = [reply EXCEPT ![t] = [status |-> status, names |-> names]]
      /\ changes' = [u \in Threads |-> IF u = t THEN 0 ELSE Seen(u)]
  BY DEF Answer
<1>2. NoCall \in CallRecord
  BY DEF NoCall, CallRecord, Paths, Attempts
<1>3. ASSUME NEW u \in Threads, u # t
      PROVE  changes'[u] \in 0 .. Attempts - 1 /\ Remembers(u)'
  BY <1>1, <1>3, SeenKeeps DEF EnvInv, TypeInv
<1>4. changes'[t] = 0 /\ call'[t] = NoCall
  BY <1>1 DEF EnvInv, TypeInv
<1>5. Remembers(t)'
  BY <1>4 DEF Remembers, RoundsSeen, TestSeen, OthersUnseen, NoCall
<1>6. changes' \in [Threads -> 0 .. Attempts - 1]
  <2>1. ASSUME NEW u \in Threads
        PROVE  (IF u = t THEN 0 ELSE Seen(u)) \in 0 .. Attempts - 1
    <3>1. CASE u = t
      BY <3>1 DEF Attempts
    <3>2. CASE u # t
      BY <1>1, <1>3, <3>2
    <3> QED
      BY <3>1, <3>2
  <2> QED
    BY <1>1, <2>1
<1>7. TypeInv'
  BY <1>1, <1>2, <1>6 DEF EnvInv, TypeInv
<1> QED
  BY <1>3, <1>5, <1>7 DEF EnvInv

(* An answer is the abstract operation's, if its effect is one of that's.  *)
LEMMA AnswerTakes ==
  ASSUME EnvInv, NEW t \in Threads, call[t].op \in Operations,
         tree' \in [Paths -> Kinds], disk' = disk,
         NEW status \in {"OK", "NotFound", "IOError"}, NEW names \in SUBSET Names,
         Answer(t, status, names),
         Promise!Effect(t, call[t].op, call[t].name, call[t].to)
  PROVE  Promise!Take(t)
<1> DEFINE pending == [u \in Threads |-> Request(call[u])]
<1>1. /\ call' = [call EXCEPT ![t] = NoCall]
      /\ changes' = [u \in Threads |-> IF u = t THEN 0 ELSE Seen(u)]
  BY DEF Answer
<1>2. pending[t] = [op |-> call[t].op, name |-> call[t].name, to |-> call[t].to]
  BY DEF Request
<1>3. pending[t] # Promise!NoRequest
  BY <1>2 DEF Promise!NoRequest, Operations, Openers
<1>4. pending' = [pending EXCEPT ![t] = Promise!NoRequest]
  BY <1>1 DEF EnvInv, TypeInv, Request, NoCall, Promise!NoRequest
<1>5. changes' \in [Threads -> 0 .. 3] /\ changes'[t] = 0
  <2>1. EnvInv'
    BY AnswerKeeps
  <2>2. changes' \in [Threads -> 0 .. Attempts - 1]
    BY <2>1 DEF EnvInv, TypeInv
  <2> QED
    BY <1>1, <2>2 DEF Attempts
<1>6. ASSUME NEW u \in Threads \ {t} PROVE Promise!Counts(u)
  <2>1. changes'[u] = Seen(u)
    BY <1>1, <1>6
  <2>2. CASE changes'[u] = changes[u]
    BY <2>2 DEF Promise!Counts
  <2>3. CASE changes'[u] # changes[u]
    <3>1. /\ tree' # tree /\ changes'[u] = changes[u] + 1
          /\ changes[u] < Watched(u)
      BY <2>1, <2>3 DEF Seen
    <3>2. call[u].op \in {"GetChildren", "CreateDir"}
      <4>1. CASE call[u].op \notin {"GetChildren", "CreateDir"}
        <5>1. Watched(u) = 0
          BY <4>1 DEF Watched
        <5> QED
          BY <3>1, <5>1 DEF EnvInv, TypeInv
      <4> QED
        BY <4>1
    <3>3. pending[u] # Promise!NoRequest
      BY <3>2 DEF Request, Promise!NoRequest
    <3> QED
      BY <3>1, <3>3 DEF Promise!Counts
  <2> QED
    BY <2>2, <2>3
<1> QED
  BY <1>2, <1>3, <1>4, <1>5, <1>6 DEF Promise!Take

(* Both together, for an answer without a listing. *)
LEMMA GivesStep ==
  ASSUME EnvInv, NEW t \in Threads, call[t].op \in Operations,
         tree' \in [Paths -> Kinds], disk' = disk,
         NEW status \in {"OK", "NotFound", "IOError"}, Gives(t, status),
         reply' = [reply EXCEPT ![t] = [status |-> status, names |-> {}]] =>
           Promise!Effect(t, call[t].op, call[t].name, call[t].to)
  PROVE  EnvInv' /\ Promise!Take(t)
<1>1. Answer(t, status, {})
  BY DEF Gives
<1>2. Promise!Effect(t, call[t].op, call[t].name, call[t].to)
  BY <1>1 DEF Answer
<1> QED
  BY <1>1, <1>2, AnswerKeeps, AnswerTakes

LEMMA StatusOfCode ==
  /\ Status("kFsOk") = "OK" /\ Status("kFsNotFound") = "NotFound"
  /\ Status("kFsError") = "IOError"
  /\ \A code \in Codes : Status(code) \in {"OK", "NotFound", "IOError"}
  BY DEF Status, Codes

(* A test that came out well changes nothing the caller sees.              *)
LEMMA TestedStep ==
  ASSUME EnvInv, NEW t \in Threads, tree' = tree, disk' = disk, Tested(t),
         call[t].op \in {"DeleteFile", "DeleteDir", "RenameFile", "CreateDir"},
         call[t].op = "CreateDir" => Missing(call[t].name), ~call[t].tested
  PROVE  EnvInv' /\ UNCHANGED Promise!nsVars
<1> DEFINE c == [call[t] EXCEPT !.tested = TRUE]
<1>1. /\ call' = [call EXCEPT ![t] = c] /\ changes' = changes /\ reply' = reply
  BY DEF Tested
<1>2. /\ c \in CallRecord /\ call[t] \in CallRecord
      /\ c.op = call[t].op /\ c.name = call[t].name /\ c.to = call[t].to
  BY DEF EnvInv, TypeInv, CallRecord
<1>3. call'[t] = c
  BY <1>1 DEF EnvInv, TypeInv
<1>4. changes[t] = 0
  <2>1. Watched(t) = 0
    BY DEF Watched
  <2> QED
    BY <2>1 DEF EnvInv, Remembers, OthersUnseen
<1>5. Remembers(t)'
  BY <1>1, <1>2, <1>3, <1>4
  DEF Remembers, RoundsSeen, TestSeen, OthersUnseen, Missing
<1>6. EnvInv'
  BY <1>1, <1>2, <1>5, QuietStep
<1>7. \A u \in Threads : Request(call'[u]) = Request(call[u])
  BY <1>1, <1>2, <1>3 DEF EnvInv, TypeInv, Request
<1> QED
  BY <1>1, <1>6, <1>7 DEF Promise!nsVars

-----------------------------------------------------------------------------
(* What the codes of fs tell of the tree. *)
LEMMA StatCodes ==
  ASSUME tree \in [Paths -> Kinds], NEW p \in Paths, NEW code \in Codes,
         Stat(p, code)
  PROVE  /\ tree' = tree
         /\ \/ code = "kFsOk" /\ ~Missing(p)
            \/ code = "kFsNotFound" /\ Missing(p)
            \/ code = "kFsError" /\ (disk = "fails" \/ Promise!Astray(p))
<1>1. tree[Dir] \in Kinds
  BY DEF Paths
<1> QED
  BY <1>1 DEF Stat, NotThere, Fails, Refused, Missing, HasParent, Kinds,
     Promise!Astray, Promise!HasParent

LEMMA NotThereCodes ==
  ASSUME tree \in [Paths -> Kinds], NEW p \in Paths, NEW code \in Codes,
         NotThere(p, code)
  PROVE  /\ tree' = tree
         /\ \/ code = "kFsNotFound" /\ (HasParent(p) \/ Promise!Orphan(p))
            \/ code = "kFsError" /\ Promise!Astray(p)
<1>1. tree[Dir] \in Kinds
  BY DEF Paths
<1> QED
  BY <1>1 DEF NotThere, HasParent, Kinds, Promise!Astray, Promise!Orphan,
     Promise!HasParent

LEMMA CallTypes ==
  ASSUME EnvInv, NEW t \in Threads
  PROVE  call[t] \in CallRecord /\ call[t].name \in Paths /\ tree \in [Paths -> Kinds]
  BY DEF EnvInv, TypeInv, CallRecord

LEMMA FileExistsStep ==
  ASSUME EnvInv, NEW t \in Threads, FileExists(t)
  PROVE  EnvInv' /\ Promise!Take(t)
<1>1. PICK yes \in BOOLEAN :
        Exists(call[t].name, yes) /\ Gives(t, IF yes THEN "OK" ELSE "NotFound")
  BY DEF FileExists
<1>2. /\ call[t].op = "FileExists" /\ call[t].op \in Operations
      /\ disk' = disk /\ tree' = tree /\ tree' \in [Paths -> Kinds]
  BY <1>1 DEF FileExists, In, Operations, Exists, EnvInv, TypeInv
<1>3. reply' = [reply EXCEPT ![t] =
                 [status |-> IF yes THEN "OK" ELSE "NotFound", names |-> {}]] =>
        Promise!Effect(t, call[t].op, call[t].name, call[t].to)
  BY <1>1, <1>2
  DEF Exists, Promise!Effect, Promise!OkIf, Promise!NotFoundIf, Promise!Gives,
      Promise!Missing, Missing
<1> QED
  BY <1>1, <1>2, <1>3, GivesStep

LEMMA GetFileSizeStep ==
  ASSUME EnvInv, NEW t \in Threads, GetFileSize(t)
  PROVE  EnvInv' /\ Promise!Take(t)
<1>1. PICK code \in Codes : Stat(call[t].name, code) /\ Gives(t, Status(code))
  BY DEF GetFileSize
<1>2. /\ call[t].op = "GetFileSize" /\ call[t].op \in Operations /\ disk' = disk
  BY DEF GetFileSize, In, Operations
<1>3. /\ tree' = tree /\ tree' \in [Paths -> Kinds]
      /\ \/ Status(code) = "OK" /\ ~Missing(call[t].name)
         \/ Status(code) = "NotFound" /\ Missing(call[t].name)
         \/ Status(code) = "IOError"
              /\ (disk = "fails" \/ Promise!Astray(call[t].name))
  BY <1>1, StatCodes, CallTypes, StatusOfCode
<1>4. reply' = [reply EXCEPT ![t] = [status |-> Status(code), names |-> {}]] =>
        Promise!Effect(t, call[t].op, call[t].name, call[t].to)
  BY <1>2, <1>3
  DEF Missing, Promise!Effect, Promise!OkIf, Promise!NotFoundIf,
      Promise!IOErrorIf, Promise!Gives, Promise!Missing
<1> QED
  BY <1>1, <1>2, <1>3, <1>4, StatusOfCode, GivesStep

(* The tests of DeleteFile and DeleteDir. *)
LEMMA DeleteTestStep ==
  ASSUME EnvInv, NEW t \in Threads,
         NEW op \in {"DeleteFile", "DeleteDir"}, NEW kind \in {"file", "dir"},
         op = "DeleteFile" <=> kind = "file", DeleteTest(t, op, kind)
  PROVE  EnvInv' /\ (Promise!Take(t) \/ UNCHANGED Promise!nsVars)
<1>1. PICK code \in Codes :
        /\ Stat(call[t].name, code)
        /\ IF code = "kFsOk"
           THEN IF tree[call[t].name] = kind THEN Tested(t) ELSE Gives(t, "IOError")
           ELSE Gives(t, Status(code))
  BY DEF DeleteTest
<1>2. /\ call[t].op = op /\ op \in Operations /\ disk' = disk /\ ~call[t].tested
  BY DEF DeleteTest, In, Operations
<1>3. /\ tree' = tree /\ tree' \in [Paths -> Kinds]
      /\ \/ code = "kFsOk" /\ ~Missing(call[t].name)
         \/ code = "kFsNotFound" /\ Missing(call[t].name)
         \/ code = "kFsError"
              /\ (disk = "fails" \/ Promise!Astray(call[t].name))
  BY <1>1, StatCodes, CallTypes
<1>4. CASE code = "kFsOk" /\ tree[call[t].name] = kind
  BY <1>1, <1>2, <1>3, <1>4, TestedStep
<1>5. CASE code = "kFsOk" /\ tree[call[t].name] # kind
  <2>1. tree[call[t].name] \in Kinds
    BY CallTypes
  <2>2. reply' = [reply EXCEPT ![t] = [status |-> "IOError", names |-> {}]] =>
          Promise!Effect(t, call[t].op, call[t].name, call[t].to)
    <3>1. CASE op = "DeleteFile"
      BY <1>2, <1>3, <1>5, <2>1, <3>1
      DEF Kinds, Missing, Promise!Effect, Promise!IOErrorIf, Promise!Gives
    <3>2. CASE op = "DeleteDir"
      BY <1>2, <1>3, <1>5, <2>1, <3>2
      DEF Kinds, Missing, Promise!Effect, Promise!IOErrorIf, Promise!Gives,
          Promise!Missing, Promise!IsEmptyDir
    <3> QED
      BY <3>1, <3>2
  <2> QED
    BY <1>1, <1>2, <1>3, <1>5, <2>2, GivesStep
<1>6. CASE code # "kFsOk"
  <2>1. \/ Status(code) = "NotFound" /\ Missing(call[t].name)
        \/ Status(code) = "IOError"
             /\ (disk = "fails" \/ Promise!Astray(call[t].name))
    BY <1>3, <1>6, StatusOfCode
  <2>2. reply' = [reply EXCEPT ![t] = [status |-> Status(code), names |-> {}]] =>
          Promise!Effect(t, call[t].op, call[t].name, call[t].to)
    BY <1>2, <1>3, <2>1
    DEF Missing, Promise!Effect, Promise!NotFoundIf, Promise!IOErrorIf,
        Promise!Gives, Promise!Missing
  <2> QED
    BY <1>1, <1>2, <1>3, <1>6, <2>2, StatusOfCode, GivesStep
<1> QED
  BY <1>4, <1>5, <1>6

LEMMA DeleteFileStep ==
  ASSUME EnvInv, NEW t \in Threads, DeleteFile(t)
  PROVE  EnvInv' /\ (Promise!Take(t) \/ UNCHANGED Promise!nsVars)
<1>1. CASE DeleteTest(t, "DeleteFile", "file")
  BY <1>1, DeleteTestStep
<1>2. CASE /\ In(t, "DeleteFile")
           /\ \E code \in Codes : Unlink(call[t].name, code) /\ Gives(t, Status(code))
  <2>1. PICK code \in Codes : Unlink(call[t].name, code) /\ Gives(t, Status(code))
    BY <1>2
  <2>2. call[t].op = "DeleteFile" /\ call[t].op \in Operations /\ disk' = disk
    BY <1>2 DEF In, Operations
  <2>3. /\ tree' \in [Paths -> Kinds]
        /\ \/ /\ code = "kFsOk" /\ tree[call[t].name] = "file"
              /\ tree' = [tree EXCEPT ![call[t].name] = "none"]
           \/ code = "kFsNotFound" /\ Missing(call[t].name) /\ tree' = tree
           \/ /\ code = "kFsError" /\ tree' = tree
              /\ \/ tree[call[t].name] = "dir" \/ disk = "fails"
                 \/ Promise!Astray(call[t].name)
    BY <2>1, CallTypes, NotThereCodes DEF Unlink, Put, Refused, Fails, Kinds
  <2>4. reply' = [reply EXCEPT ![t] = [status |-> Status(code), names |-> {}]] =>
          Promise!Effect(t, call[t].op, call[t].name, call[t].to)
    BY <2>2, <2>3, StatusOfCode
    DEF Missing, Promise!Effect, Promise!NotFoundIf, Promise!IOErrorIf,
        Promise!Gives, Promise!Missing, Promise!Put
  <2> QED
    BY <2>1, <2>2, <2>3, <2>4, StatusOfCode, GivesStep
<1> QED
  BY <1>1, <1>2 DEF DeleteFile

LEMMA DeleteDirStep ==
  ASSUME EnvInv, NEW t \in Threads, DeleteDir(t)
  PROVE  EnvInv' /\ (Promise!Take(t) \/ UNCHANGED Promise!nsVars)
<1>1. CASE DeleteTest(t, "DeleteDir", "dir")
  BY <1>1, DeleteTestStep
<1>2. CASE /\ In(t, "DeleteDir")
           /\ \E code \in Codes : Rmdir(call[t].name, code) /\ Gives(t, Status(code))
  <2>1. PICK code \in Codes : Rmdir(call[t].name, code) /\ Gives(t, Status(code))
    BY <1>2
  <2>2. call[t].op = "DeleteDir" /\ call[t].op \in Operations /\ disk' = disk
    BY <1>2 DEF In, Operations
  <2>3. /\ tree' \in [Paths -> Kinds]
        /\ \/ /\ code = "kFsOk" /\ IsEmptyDir(call[t].name)
              /\ tree' = [tree EXCEPT ![call[t].name] = "none"]
           \/ code = "kFsNotFound" /\ Missing(call[t].name) /\ tree' = tree
           \/ /\ code = "kFsError" /\ tree' = tree
              /\ \/ ~Missing(call[t].name) /\ ~IsEmptyDir(call[t].name)
                 \/ disk = "fails" \/ Promise!Astray(call[t].name)
    BY <2>1, CallTypes, NotThereCodes DEF Rmdir, Put, Refused, Fails, Kinds
  <2>4. reply' = [reply EXCEPT ![t] = [status |-> Status(code), names |-> {}]] =>
          Promise!Effect(t, call[t].op, call[t].name, call[t].to)
    BY <2>2, <2>3, StatusOfCode
    DEF Missing, IsEmptyDir, Entries, Promise!Effect, Promise!NotFoundIf,
        Promise!IOErrorIf, Promise!Gives, Promise!Missing, Promise!Put,
        Promise!IsEmptyDir, Promise!Entries
  <2> QED
    BY <2>1, <2>2, <2>3, <2>4, StatusOfCode, GivesStep
<1> QED
  BY <1>1, <1>2 DEF DeleteDir

LEMMA CreateDirStep ==
  ASSUME EnvInv, NEW t \in Threads, CreateDir(t)
  PROVE  EnvInv' /\ (Promise!Take(t) \/ UNCHANGED Promise!nsVars)
<1>1. CASE CreateDirTest(t)
  <2>1. PICK code \in Codes :
          /\ Stat(call[t].name, code)
          /\ \/ /\ code = "kFsOk"
                /\ Gives(t, IF tree[call[t].name] = "dir" THEN "OK" ELSE "IOError")
             \/ code = "kFsError" /\ Gives(t, "IOError")
             \/ code = "kFsNotFound" /\ Tested(t)
    BY <1>1 DEF CreateDirTest
  <2>2. /\ call[t].op = "CreateDir" /\ call[t].op \in Operations
        /\ disk' = disk /\ ~call[t].tested
    BY <1>1 DEF CreateDirTest, In, Operations
  <2>3. /\ tree' = tree /\ tree' \in [Paths -> Kinds]
        /\ \/ code = "kFsOk" /\ ~Missing(call[t].name)
           \/ code = "kFsNotFound" /\ Missing(call[t].name)
           \/ code = "kFsError"
                /\ (disk = "fails" \/ Promise!Astray(call[t].name))
    BY <2>1, StatCodes, CallTypes
  <2>4. CASE code = "kFsNotFound"
    BY <2>1, <2>2, <2>3, <2>4, TestedStep
  <2>5. CASE code = "kFsError"
    <3>1. reply' = [reply EXCEPT ![t] = [status |-> "IOError", names |-> {}]] =>
            Promise!Effect(t, call[t].op, call[t].name, call[t].to)
      BY <2>2, <2>3, <2>5 DEF Promise!Effect, Promise!IOErrorIf, Promise!Gives
    <3> QED
      BY <2>1, <2>2, <2>3, <2>5, <3>1, GivesStep
  <2>6. CASE code = "kFsOk"
    <3>1. CASE tree[call[t].name] = "dir"
      <4>1. reply' = [reply EXCEPT ![t] = [status |-> "OK", names |-> {}]] =>
              Promise!Effect(t, call[t].op, call[t].name, call[t].to)
        BY <2>2, <2>3, <3>1 DEF Promise!Effect, Promise!OkIf, Promise!Gives
      <4> QED
        BY <2>1, <2>2, <2>3, <2>6, <3>1, <4>1, GivesStep
    <3>2. CASE tree[call[t].name] # "dir"
      <4>1. tree[call[t].name] = "file"
        BY <2>3, <2>6, <3>2, CallTypes DEF Missing, Kinds
      <4>2. reply' = [reply EXCEPT ![t] = [status |-> "IOError", names |-> {}]] =>
              Promise!Effect(t, call[t].op, call[t].name, call[t].to)
        BY <2>2, <2>3, <4>1 DEF Promise!Effect, Promise!IOErrorIf, Promise!Gives
      <4> QED
        BY <2>1, <2>2, <2>3, <2>6, <3>2, <4>2, GivesStep
    <3> QED
      BY <3>1, <3>2
  <2> QED
    BY <2>3, <2>4, <2>5, <2>6
<1>2. CASE /\ In(t, "CreateDir") /\ call[t].tested
           /\ \E code \in Codes : Mkdir(call[t].name, code) /\ Gives(t, Status(code))
  <2>1. PICK code \in Codes : Mkdir(call[t].name, code) /\ Gives(t, Status(code))
    BY <1>2
  <2>2. call[t].op = "CreateDir" /\ call[t].op \in Operations /\ disk' = disk
    BY <1>2 DEF In, Operations
  <2>3. changes[t] = 1 \/ Missing(call[t].name)
    BY <1>2, <2>2 DEF EnvInv, Remembers, TestSeen
  <2>4. /\ tree' \in [Paths -> Kinds]
        /\ \/ /\ code = "kFsOk" /\ Missing(call[t].name) /\ HasParent(call[t].name)
              /\ tree' = [tree EXCEPT ![call[t].name] = "dir"]
           \/ code = "kFsNotFound" /\ Promise!Orphan(call[t].name) /\ tree' = tree
           \/ /\ code = "kFsError" /\ tree' = tree
              /\ \/ ~Missing(call[t].name) \/ disk = "fails"
                 \/ Promise!Astray(call[t].name)
    BY <2>1, CallTypes, NotThereCodes DEF Mkdir, Put, Refused, Fails, Kinds
  <2>5. reply' = [reply EXCEPT ![t] = [status |-> Status(code), names |-> {}]] =>
          Promise!Effect(t, call[t].op, call[t].name, call[t].to)
    <3>1. CASE code = "kFsOk"
      BY <2>2, <2>4, <3>1, StatusOfCode
      DEF Missing, HasParent, Promise!Effect, Promise!Gives, Promise!Missing,
          Promise!HasParent, Promise!Put
    <3>2. CASE code = "kFsNotFound"
      BY <2>2, <2>4, <3>2, StatusOfCode
      DEF Promise!Effect, Promise!NotFoundIf, Promise!Gives
    <3>3. CASE code = "kFsError"
      <4>1. /\ tree' = tree
            /\ \/ tree[call[t].name] \in {"file", "dir"} \/ disk = "fails"
               \/ Promise!Astray(call[t].name)
        BY <2>4, <3>3, CallTypes DEF Missing, Kinds
      <4>2. /\ tree' = tree
            /\ \/ changes[t] > 0 \/ disk = "fails" \/ Promise!Astray(call[t].name)
        BY <2>3, <4>1 DEF Missing
      <4> QED
        BY <2>2, <3>3, <4>2, StatusOfCode
        DEF Promise!Effect, Promise!IOErrorIf, Promise!Gives
    <3> QED
      BY <2>4, <3>1, <3>2, <3>3
  <2> QED
    BY <2>1, <2>2, <2>4, <2>5, StatusOfCode, GivesStep
<1> QED
  BY <1>1, <1>2 DEF CreateDir

LEMMA RenameFileStep ==
  ASSUME EnvInv, NEW t \in Threads, RenameFile(t)
  PROVE  EnvInv' /\ (Promise!Take(t) \/ UNCHANGED Promise!nsVars)
<1>1. CASE /\ In(t, "RenameFile") /\ ~call[t].tested
           /\ \E yes \in BOOLEAN :
                /\ Exists(call[t].name, yes)
                /\ IF yes THEN Tested(t) ELSE Gives(t, "NotFound")
  <2>1. PICK yes \in BOOLEAN :
          /\ Exists(call[t].name, yes)
          /\ IF yes THEN Tested(t) ELSE Gives(t, "NotFound")
    BY <1>1
  <2>2. /\ call[t].op = "RenameFile" /\ call[t].op \in Operations
        /\ disk' = disk /\ tree' = tree /\ tree' \in [Paths -> Kinds]
        /\ ~call[t].tested
    BY <1>1, <2>1, CallTypes DEF In, Operations, Exists
  <2>3. CASE yes
    BY <2>1, <2>2, <2>3, TestedStep
  <2>4. CASE ~yes
    <3>1. reply' = [reply EXCEPT ![t] = [status |-> "NotFound", names |-> {}]] =>
            Promise!Effect(t, call[t].op, call[t].name, call[t].to)
      BY <2>1, <2>2, <2>4
      DEF Exists, Missing, Promise!Effect, Promise!NotFoundIf, Promise!Gives,
          Promise!Missing
    <3> QED
      BY <2>1, <2>2, <2>4, <3>1, GivesStep
  <2> QED
    BY <2>3, <2>4
<1>2. CASE /\ In(t, "RenameFile")
           /\ \E code \in Codes :
                Rename(call[t].name, call[t].to, code) /\ Gives(t, Status(code))
  <2>1. PICK code \in Codes :
          Rename(call[t].name, call[t].to, code) /\ Gives(t, Status(code))
    BY <1>2
  <2>2. call[t].op = "RenameFile" /\ call[t].op \in Operations /\ disk' = disk
    BY <1>2 DEF In, Operations
  <2>3. call[t].to \in Paths /\ tree[call[t].name] \in Kinds
    BY CallTypes DEF CallRecord
  <2>4. /\ tree' \in [Paths -> Kinds]
        /\ \/ /\ code = "kFsOk" /\ ~Missing(call[t].name)
              /\ tree[call[t].to] \in {"none", tree[call[t].name]}
              /\ tree' = [tree EXCEPT ![call[t].name] = "none",
                                      ![call[t].to] = tree[call[t].name]]
           \/ code = "kFsNotFound" /\ Missing(call[t].name) /\ tree' = tree
           \/ /\ code = "kFsError" /\ tree' = tree
              /\ \/ tree[call[t].to] \notin {"none", tree[call[t].name]}
                 \/ disk = "fails" \/ Promise!Astray(call[t].name)
    BY <2>1, <2>3, CallTypes, NotThereCodes DEF Rename, Refused, Fails, Kinds
  <2>5. reply' = [reply EXCEPT ![t] = [status |-> Status(code), names |-> {}]] =>
          Promise!Effect(t, call[t].op, call[t].name, call[t].to)
    <3>1. CASE code = "kFsOk"
      BY <2>2, <2>4, <3>1, StatusOfCode
      DEF Missing, Promise!Effect, Promise!Gives, Promise!Missing
    <3>2. CASE code = "kFsNotFound"
      BY <2>2, <2>4, <3>2, StatusOfCode
      DEF Missing, Promise!Effect, Promise!NotFoundIf, Promise!Gives, Promise!Missing
    <3>3. CASE code = "kFsError"
      BY <2>2, <2>4, <3>3, StatusOfCode
      DEF Promise!Effect, Promise!IOErrorIf, Promise!Gives
    <3> QED
      BY <2>4, <3>1, <3>2, <3>3
  <2> QED
    BY <2>1, <2>2, <2>4, <2>5, StatusOfCode, GivesStep
<1> QED
  BY <1>1, <1>2 DEF RenameFile

LEMMA GetChildrenStep ==
  ASSUME EnvInv, NEW t \in Threads, GetChildren(t)
  PROVE  EnvInv' /\ (Promise!Take(t) \/ UNCHANGED Promise!nsVars)
<1> DEFINE p == call[t].name
<1>1. PICK code \in Codes :
        /\ Readdir(p, call[t].cap, code)
        /\ \/ code = "kFsOk" /\ Answer(t, "OK", Listing(p))
           \/ code = "kFsError" /\ Gives(t, "IOError")
           \/ code = "tooSmall" /\ call[t].tries + 1 = Attempts /\ Gives(t, "IOError")
           \/ /\ code = "tooSmall" /\ call[t].tries + 1 # Attempts
              /\ call' = [call EXCEPT ![t].cap = Needed(p), ![t].tries = @ + 1]
              /\ UNCHANGED <<changes, reply>>
  BY DEF GetChildren
<1>2. /\ call[t].op = "GetChildren" /\ call[t].op \in Operations
      /\ disk' = disk /\ tree' = tree /\ tree' \in [Paths -> Kinds]
      /\ call[t] \in CallRecord
  BY <1>1, CallTypes DEF GetChildren, In, Operations, Readdir
<1>3. Listing(p) \in SUBSET Names /\ Needed(p) \in Nat
  BY FileSystemAssumption DEF Listing, Entries, Needed
<1>4. CASE code = "kFsOk"
  <2>1. Answer(t, "OK", Listing(p))
    BY <1>1, <1>4
  <2>2. reply' = [reply EXCEPT ![t] = [status |-> "OK", names |-> Listing(p)]]
    BY <2>1 DEF Answer
  <2>3. tree[p] = "dir"
    BY <1>1, <1>4 DEF Readdir
  <2>4. Promise!Listing(p) = Listing(p)
    BY DEF Listing, Entries, Promise!Listing, Promise!Entries
  <2>5. Promise!Effect(t, call[t].op, call[t].name, call[t].to)
    BY <1>2, <2>2, <2>3, <2>4 DEF Promise!Effect
  <2> QED
    BY <1>2, <1>3, <2>1, <2>5, AnswerKeeps, AnswerTakes
<1>5. CASE code = "kFsError"
  <2>1. tree[p] # "dir" \/ disk = "fails"
    BY <1>1, <1>5 DEF Readdir
  <2>2. reply' = [reply EXCEPT ![t] = [status |-> "IOError", names |-> {}]] =>
          Promise!Effect(t, call[t].op, call[t].name, call[t].to)
    BY <1>2, <2>1 DEF Promise!Effect, Promise!IOErrorIf, Promise!Gives
  <2>3. Gives(t, "IOError")
    BY <1>1, <1>5
  <2> QED
    BY <1>2, <2>2, <2>3, GivesStep
<1>6. CASE code = "tooSmall"
  <2>1. Needed(p) > call[t].cap
    BY <1>1, <1>6 DEF Readdir
  <2>2. changes[t] = call[t].tries
    <3>1. RoundsSeen(t)
      BY DEF EnvInv, Remembers
    <3> QED
      BY <1>2, <1>3, <2>1, <3>1 DEF RoundsSeen, CallRecord
  <2>3. CASE call[t].tries + 1 = Attempts
    <3>1. changes[t] = 3
      BY <1>2, <2>2, <2>3 DEF CallRecord, Attempts
    <3>2. reply' = [reply EXCEPT ![t] = [status |-> "IOError", names |-> {}]] =>
            Promise!Effect(t, call[t].op, call[t].name, call[t].to)
      BY <1>2, <3>1 DEF Promise!Effect, Promise!IOErrorIf, Promise!Gives
    <3>3. Gives(t, "IOError")
      BY <1>1, <1>6, <2>3
    <3> QED
      BY <1>2, <3>2, <3>3, GivesStep
  <2>4. CASE call[t].tries + 1 # Attempts
    <3> DEFINE c == [call[t] EXCEPT !.cap = Needed(p), !.tries = @ + 1]
    <3>1. /\ call' = [call EXCEPT ![t] = c] /\ changes' = changes /\ reply' = reply
      BY <1>1, <1>6, <2>4
    <3>2. /\ c \in CallRecord /\ c.op = call[t].op /\ c.name = p
          /\ c.to = call[t].to /\ c.cap = Needed(p) /\ c.tries = call[t].tries + 1
      <4>1. call[t].tries + 1 \in 0 .. Attempts - 1
        BY <1>2, <2>4 DEF CallRecord, Attempts
      <4> QED
        BY <1>2, <1>3, <4>1 DEF CallRecord
    <3>3. call'[t] = c
      BY <3>1 DEF EnvInv, TypeInv
    <3>4. Needed(p)' = Needed(p)
      BY <1>2, <3>2, <3>3 DEF Needed, Listing, Entries
    <3>5. Remembers(t)'
      <4>1. /\ changes'[t] = c.tries - 1 /\ Needed(call[t].name)' = c.cap
        BY <1>2, <2>2, <3>1, <3>2, <3>4 DEF CallRecord
      <4>2. RoundsSeen(t)'
        BY <1>2, <3>2, <3>3, <3>4, <4>1 DEF RoundsSeen
      <4>3. TestSeen(t)'
        BY <1>2, <3>2, <3>3 DEF TestSeen
      <4>4. Watched(t)' = call[t].tries + 1
        BY <1>2, <3>2, <3>3 DEF Watched
      <4>5. OthersUnseen(t)'
        BY <1>2, <4>4 DEF OthersUnseen, CallRecord
      <4> QED
        BY <4>2, <4>3, <4>5 DEF Remembers
    <3>6. EnvInv'
      BY <1>2, <3>1, <3>2, <3>5, QuietStep
    <3>7. \A u \in Threads : Request(call'[u]) = Request(call[u])
      BY <3>1, <3>2, <3>3 DEF EnvInv, TypeInv, Request
    <3> QED
      BY <1>2, <3>1, <3>6, <3>7 DEF Promise!nsVars
  <2> QED
    BY <2>3, <2>4
<1> QED
  BY <1>1, <1>4, <1>5, <1>6

LEMMA OperateStep ==
  ASSUME EnvInv, NEW t \in Threads, Operate(t)
  PROVE  EnvInv' /\ (Promise!Take(t) \/ UNCHANGED Promise!nsVars)
  BY FileExistsStep, GetFileSizeStep, DeleteFileStep, DeleteDirStep,
     CreateDirStep, RenameFileStep, GetChildrenStep DEF Operate

LEMMA NewFileStep ==
  ASSUME EnvInv, NEW t \in Threads, NewFile(t)
  PROVE  EnvInv' /\ Promise!Take(t)
<1>1. PICK code \in Codes : OpenCall(t, code) /\ Gives(t, Status(code))
  BY DEF NewFile
<1>2. /\ call[t].op \in Operations /\ disk' = disk
  BY <1>1 DEF OpenCall, In, Operations, Openers
<1>3. CASE call[t].op = "NewSequentialFile"
  <2>1. /\ tree' = tree /\ tree' \in [Paths -> Kinds]
        /\ \/ Status(code) = "OK" /\ ~Missing(call[t].name)
           \/ Status(code) = "NotFound" /\ Missing(call[t].name)
           \/ Status(code) = "IOError"
                /\ (disk = "fails" \/ Promise!Astray(call[t].name))
    BY <1>1, <1>3, StatCodes, CallTypes, StatusOfCode DEF OpenCall, OpenToRead, In
  <2>2. reply' = [reply EXCEPT ![t] = [status |-> Status(code), names |-> {}]] =>
          Promise!Effect(t, call[t].op, call[t].name, call[t].to)
    BY <1>3, <2>1
    DEF Missing, Promise!Effect, Promise!OkIf, Promise!NotFoundIf,
        Promise!IOErrorIf, Promise!Gives, Promise!Missing
  <2> QED
    BY <1>1, <1>2, <2>1, <2>2, StatusOfCode, GivesStep
<1>4. CASE call[t].op = "NewWritableFile"
  <2>1. /\ tree' \in [Paths -> Kinds]
        /\ \/ /\ code = "kFsOk" /\ tree[call[t].name] # "dir"
              /\ HasParent(call[t].name)
              /\ tree' = [tree EXCEPT ![call[t].name] = "file"]
           \/ code = "kFsNotFound" /\ Promise!Orphan(call[t].name) /\ tree' = tree
           \/ /\ code = "kFsError" /\ tree' = tree
              /\ \/ tree[call[t].name] = "dir" \/ disk = "fails"
                 \/ Promise!Astray(call[t].name)
    BY <1>1, <1>4, CallTypes, NotThereCodes
    DEF OpenCall, OpenToWrite, In, Put, Refused, Fails, Kinds
  <2>2. reply' = [reply EXCEPT ![t] = [status |-> Status(code), names |-> {}]] =>
          Promise!Effect(t, call[t].op, call[t].name, call[t].to)
    BY <1>4, <2>1, StatusOfCode
    DEF HasParent, Promise!Effect, Promise!NotFoundIf, Promise!IOErrorIf,
        Promise!Gives, Promise!HasParent, Promise!Put
  <2> QED
    BY <1>1, <1>2, <2>1, <2>2, StatusOfCode, GivesStep
<1> QED
  BY <1>1, <1>3, <1>4 DEF OpenCall, In

LEMMA BeginStep ==
  ASSUME EnvInv, NEW t \in Threads, Begin(t)
  PROVE  EnvInv' /\ Promise!Invoke(t)
<1>0. PICK op \in Operations : \E a \in Arguments(op) :
        call' = [call EXCEPT ![t] =
          [op |-> op, name |-> a[1], to |-> a[2],
           cap |-> IF op = "GetChildren" THEN Buffer ELSE 0,
           tries |-> 0, tested |-> FALSE]]
  BY DEF Begin
<1>1. PICK a \in Arguments(op) :
        call' = [call EXCEPT ![t] =
          [op |-> op, name |-> a[1], to |-> a[2],
           cap |-> IF op = "GetChildren" THEN Buffer ELSE 0,
           tries |-> 0, tested |-> FALSE]]
  BY <1>0
<1> DEFINE c == [op |-> op, name |-> a[1], to |-> a[2],
                 cap |-> IF op = "GetChildren" THEN Buffer ELSE 0,
                 tries |-> 0, tested |-> FALSE]
<1>2. a[1] \in Paths /\ a[2] \in Paths
  BY FileSystemAssumption DEF Arguments, Paths
<1>3. c \in CallRecord
  BY <1>2, EnvironmentAssumption DEF CallRecord, Attempts
<1>4. /\ call[t] = NoCall /\ reply[t] = NoReply
      /\ tree' = tree /\ disk' = disk /\ changes' = changes /\ reply' = reply
  BY DEF Begin, Idle
<1>5. call'[t] = c
  BY <1>1 DEF EnvInv, TypeInv
<1>6. changes[t] = 0
  <2>1. Watched(t) = 0
    BY <1>4 DEF Watched, NoCall
  <2> QED
    BY <2>1 DEF EnvInv, Remembers, OthersUnseen
<1>7. Remembers(t)'
  BY <1>4, <1>5, <1>6 DEF Remembers, RoundsSeen, TestSeen, OthersUnseen
<1>8. EnvInv'
  BY <1>1, <1>3, <1>4, <1>7, QuietStep
<1> DEFINE pending == [u \in Threads |-> Request(call[u])]
<1>9. pending[t] = Promise!NoRequest /\ reply[t] = Promise!NoReply
  BY <1>4 DEF Request, NoCall, NoReply, Promise!NoRequest, Promise!NoReply
<1>10. pending' = [pending EXCEPT ![t] = [op |-> op, name |-> a[1], to |-> a[2]]]
  BY <1>1, <1>5 DEF EnvInv, TypeInv, Request
<1>11. pending'[t] = [op |-> op, name |-> a[1], to |-> a[2]]
  BY <1>5 DEF Request
<1>12. pending'[t] \in Promise!Requests
  BY <1>2, <1>11 DEF Promise!Requests, Promise!Paths, Paths, Operations, Openers
<1> QED
  BY <1>4, <1>8, <1>9, <1>10, <1>11, <1>12 DEF Promise!Invoke, Promise!Idle

LEMMA ReturnsStep ==
  ASSUME EnvInv, NEW t \in Threads, Returns(t)
  PROVE  EnvInv' /\ Promise!Return(t)
<1>1. /\ reply[t] # NoReply /\ reply' = [reply EXCEPT ![t] = NoReply]
      /\ tree' = tree /\ disk' = disk /\ call' = call /\ changes' = changes
  BY DEF Returns
<1>2. TypeInv'
  BY <1>1 DEF EnvInv, TypeInv, NoReply
<1>3. ASSUME NEW u \in Threads PROVE Remembers(u)'
  BY <1>1, SeenKeeps DEF Seen
<1>4. Promise!Return(t)
  BY <1>1 DEF Promise!Return, Promise!NoReply, NoReply
<1> QED
  BY <1>2, <1>3, <1>4 DEF EnvInv

LEMMA OthersStep ==
  ASSUME EnvInv, Others
  PROVE  EnvInv' /\ Promise!Disturb
<1>1. /\ OthersChange /\ changes' = [t \in Threads |-> Seen(t)]
      /\ call' = call /\ reply' = reply
  BY DEF Others
<1>2. tree' \in [Paths -> Kinds]
  BY <1>1 DEF OthersChange, Put, EnvInv, TypeInv
<1>3. ASSUME NEW t \in Threads
      PROVE  Seen(t) \in 0 .. Attempts - 1 /\ Remembers(t)'
  BY <1>1, SeenKeeps
<1>4. changes' \in [Threads -> 0 .. Attempts - 1]
  BY <1>1, <1>3
<1>5. EnvInv'
  BY <1>1, <1>2, <1>3, <1>4 DEF EnvInv, TypeInv
<1>6. ASSUME NEW t \in Threads PROVE Promise!Counts(t)
  <2>1. changes'[t] = Seen(t)
    BY <1>1
  <2>2. CASE tree' # tree /\ changes[t] < Watched(t)
    <3>1. changes'[t] = changes[t] + 1
      BY <2>1, <2>2 DEF Seen
    <3>2. call[t].op # "none"
      <4>1. ASSUME call[t].op = "none" PROVE FALSE
        <5>1. Watched(t) = 0
          BY <4>1 DEF Watched
        <5> QED
          BY <2>2, <5>1 DEF EnvInv, TypeInv, Attempts
      <4> QED
        BY <4>1
    <3> QED
      BY <2>2, <3>1, <3>2 DEF Promise!Counts, Promise!NoRequest, Request
  <2>3. CASE ~(tree' # tree /\ changes[t] < Watched(t))
    BY <2>1, <2>3 DEF Seen, Promise!Counts
  <2> QED
    BY <2>2, <2>3
<1>7. Promise!OthersChange
  BY <1>1
  DEF OthersChange, Put, HasParent, IsEmptyDir, Entries, Kinds, Paths,
      Promise!OthersChange, Promise!Put, Promise!HasParent, Promise!IsEmptyDir,
      Promise!Entries, Promise!Kinds, Promise!Paths
<1> QED
  BY <1>1, <1>4, <1>5, <1>6, <1>7 DEF Promise!Disturb, Attempts

-----------------------------------------------------------------------------
(* The kinds of step, as Environment's variables see them.                 *)
LEMMA EnvStep ==
  ASSUME EnvInv, [EnvNext]_allVars
  PROVE  EnvInv' /\ [Promise!NsNext]_(Promise!nsVars)
<1>1. CASE UNCHANGED envVars
  <2>1. /\ tree' = tree /\ disk' = disk /\ call' = call
        /\ changes' = changes /\ reply' = reply
    BY <1>1 DEF envVars
  <2>2. ASSUME NEW t \in Threads PROVE Remembers(t)'
    BY <2>1, SeenKeeps DEF Seen
  <2>3. EnvInv'
    BY <2>1, <2>2 DEF EnvInv, TypeInv
  <2> QED
    BY <2>1, <2>3 DEF Promise!nsVars
<1>2. CASE \E t \in Threads : Begin(t) \/ Operate(t) \/ Returns(t)
  BY <1>2, BeginStep, OperateStep, ReturnsStep DEF Promise!NsNext
<1>3. CASE \E t \in Threads : NewFile(t)
  BY <1>3, NewFileStep DEF Promise!NsNext
<1>4. CASE Others
  BY <1>4, OthersStep DEF Promise!NsNext
<1>5. CASE DiskChanges /\ UNCHANGED <<call, changes, reply>>
  <2>1. /\ tree' = tree /\ call' = call /\ changes' = changes /\ reply' = reply
    BY <1>5 DEF DiskChanges
  <2>2. ASSUME NEW t \in Threads PROVE Remembers(t)'
    BY <2>1, SeenKeeps DEF Seen
  <2>3. EnvInv'
    BY <2>1, <2>2 DEF EnvInv, TypeInv
  <2>4. Promise!DiskChanges
    BY <1>5 DEF DiskChanges, Promise!DiskChanges
  <2> QED
    BY <2>1, <2>3, <2>4 DEF Promise!NsNext
<1>6. UNCHANGED allVars => UNCHANGED envVars
  BY DEF allVars
<1> QED
  BY <1>1, <1>2, <1>3, <1>4, <1>5, <1>6 DEF EnvNext

LEMMA EnvStart == EnvInit => EnvInv /\ Promise!NsInit
<1> SUFFICES ASSUME EnvInit PROVE EnvInv /\ Promise!NsInit
  OBVIOUS
<1>1. TypeInv
  BY DEF EnvInit, TreeInit, TypeInv, NoCall, NoReply, CallRecord, Paths, Kinds, Attempts
<1>2. ASSUME NEW t \in Threads PROVE Remembers(t)
  BY DEF EnvInit, NoCall, Remembers, RoundsSeen, TestSeen, OthersUnseen
<1>3. Promise!NsInit
  BY DEF EnvInit, TreeInit, Request, NoCall, NoReply, Paths, Promise!NsInit,
     Promise!TreeInit, Promise!NoRequest, Promise!NoReply, Promise!Paths
<1> QED
  BY <1>1, <1>2, <1>3 DEF EnvInv

(* The operations of EmscriptenEnv on a directory implement the atomic     *)
(* ones: each answers for one moment of its call, with any number of       *)
(* threads, of names and of changes by others in between.                  *)
THEOREM ImplementsNamespace == EnvSpec => AnswersAreAtomic
  BY EnvStart, EnvStep, PTL DEF EnvSpec, AnswersAreAtomic, Promise!NsSpec

-----------------------------------------------------------------------------
(* To the file objects every step of the environment is one of theirs.     *)
LEMMA FilesStep == [EnvNext]_allVars => [Next]_vars
<1> SUFFICES ASSUME EnvNext, ~UNCHANGED vars PROVE Next
  BY DEF allVars
<1>1. CASE \E t \in Threads : NewFile(t)
  BY <1>1 DEF NewFile, Class, Next
<1>2. CASE \E t \in Threads, o \in Objects : Use(t, o)
  BY <1>2 DEF Next
<1> QED
  BY <1>1, <1>2 DEF EnvNext

(* The file objects of the environment are those of Descriptors.           *)
LEMMA FilesAreDescriptors == EnvSpec => Spec
<1>1. EnvInit => Init
  BY DEF EnvInit
<1> QED
  BY <1>1, FilesStep, PTL DEF EnvSpec, Spec

(* Files opened and used through the environment, by any threads, lose     *)
(* their handles only to an object that kept their number, such a number   *)
(* is only left by a destructor half-way or a close that threw, and none   *)
(* of them leaves a descriptor behind (EmBufferedWritableFile::Close and   *)
(* the destructors).                                                       *)
THEOREM FilesKeepHandles ==
  EnvSpec => /\ []OnlySharedLoseHandles
             /\ NumbersSharedWhenStale
             /\ []NoDescriptorLeak
  BY FilesAreDescriptors, HandlesStayOpen, SharingBegins, DescriptorsComeBack, PTL

(* The locks keep their types. *)
LocksInv ==
  locked \subseteq LockNames /\ holds \in [Lockers -> LockNames \union {None}]

LEMMA LockStep == LocksInv /\ [EnvNext]_allVars => LocksInv'
<1> SUFFICES ASSUME LocksInv, [EnvNext]_allVars PROVE LocksInv'
  OBVIOUS
<1>1. CASE UNCHANGED lockVars
  BY <1>1 DEF lockVars, LocksInv
<1>2. ASSUME NEW t \in Threads, NEW l \in Lockers, NEW name \in LockNames,
             LockFile(t, l, name)
      PROVE  LocksInv'
  BY <1>2 DEF LockFile, LocksInv
<1>3. ASSUME NEW t \in Threads, NEW l \in Lockers, UnlockFile(t, l)
      PROVE  LocksInv'
  BY <1>3 DEF UnlockFile, LocksInv
<1> QED
  BY <1>1, <1>2, <1>3 DEF EnvNext, allVars
-----------------------------------------------------------------------------
(* Nothing is left in a directory that is not there: the last conjunct of  *)
(* TreeOK.  It holds because files are made, removed and renamed in the    *)
(* directory only, never over it.                                          *)
NoOrphans == tree[Dir] # "dir" => Entries = {}

ActsOnNames(t) ==
  call[t].op \in {"NewWritableFile", "DeleteFile", "RenameFile"} =>
    /\ call[t].name \in Names
    /\ call[t].op = "RenameFile" => call[t].to \in Names

DirectoryInv ==
  /\ disk \in {"works", "fails"}
  /\ NoOrphans
  /\ \A t \in Threads : ActsOnNames(t)

(* A change under one path that needs the directory, or leaves it empty.   *)
LEMMA PutKeeps ==
  ASSUME TypeInv, NoOrphans, NEW p \in Paths, NEW kind \in Kinds, Put(p, kind),
         p \in Names => kind = "none" \/ tree[Dir] = "dir",
         p = Dir => kind = "dir" \/ Entries = {}
  PROVE  NoOrphans'
<1> USE FileSystemAssumption DEF Put, TypeInv, NoOrphans, Entries, Paths
<1>1. CASE p = Dir
  <2>1. tree'[Dir] = kind /\ \A n \in Names : tree'[n] = tree[n]
    BY <1>1
  <2> QED
    BY <1>1, <2>1
<1>2. CASE p \in Names
  <2>1. /\ tree'[Dir] = tree[Dir]
        /\ \A n \in Names : tree'[n] = IF n = p THEN kind ELSE tree[n]
    BY <1>2
  <2> QED
    BY <1>2, <2>1
<1> QED
  BY <1>1, <1>2

(* A step that leaves the tree alone.                                      *)
LEMMA SameTreeKeeps == ASSUME NoOrphans, tree' = tree PROVE NoOrphans'
  BY DEF NoOrphans, Entries

(* The calls of fs that write, on the paths the environment gives them.    *)
LEMMA OpenToWriteKeeps ==
  ASSUME TypeInv, NoOrphans, NEW p \in Names, NEW code, OpenToWrite(p, code)
  PROVE  NoOrphans'
<1>1. CASE tree' = tree
  BY <1>1, SameTreeKeeps
<1>2. CASE tree[p] # "dir" /\ HasParent(p) /\ Put(p, "file")
  <2>1. tree[Dir] = "dir" /\ p # Dir
    BY <1>2, FileSystemAssumption DEF HasParent
  <2> QED
    BY <1>2, <2>1, PutKeeps DEF Paths, Kinds
<1> QED
  BY <1>1, <1>2 DEF OpenToWrite, Refused, NotThere, Fails

(* Removing a file.                                                        *)
LEMMA UnlinkKeeps ==
  ASSUME TypeInv, NoOrphans, NEW p \in Names, NEW code, Unlink(p, code)
  PROVE  NoOrphans'
<1>1. CASE tree' = tree
  BY <1>1, SameTreeKeeps
<1>2. CASE Put(p, "none")
  <2>1. p # Dir
    BY FileSystemAssumption
  <2> QED
    BY <1>2, <2>1, PutKeeps DEF Paths, Kinds
<1> QED
  BY <1>1, <1>2 DEF Unlink, Refused, NotThere, Fails

(* Making a directory, in the one there is or the database's own.          *)
LEMMA MkdirKeeps ==
  ASSUME TypeInv, NoOrphans, NEW p \in Paths, NEW code, Mkdir(p, code)
  PROVE  NoOrphans'
<1>1. CASE tree' = tree
  BY <1>1, SameTreeKeeps
<1>2. CASE HasParent(p) /\ Put(p, "dir")
  <2>1. p \in Names => tree[Dir] = "dir"
    BY <1>2, FileSystemAssumption DEF HasParent
  <2> QED
    BY <1>2, <2>1, PutKeeps DEF Kinds
<1> QED
  BY <1>1, <1>2 DEF Mkdir, Refused, NotThere, Fails

(* Removing a directory, which is empty.                                   *)
LEMMA RmdirKeeps ==
  ASSUME TypeInv, NoOrphans, NEW p \in Paths, NEW code, Rmdir(p, code)
  PROVE  NoOrphans'
<1>1. CASE tree' = tree
  BY <1>1, SameTreeKeeps
<1>2. CASE IsEmptyDir(p) /\ Put(p, "none")
  BY <1>2, PutKeeps DEF IsEmptyDir, Kinds
<1> QED
  BY <1>1, <1>2 DEF Rmdir, Refused, NotThere, Fails

(* What is renamed is in the directory, so the directory is there.         *)
LEMMA RenameKeeps ==
  ASSUME TypeInv, NoOrphans, NEW p \in Names, NEW q \in Names, NEW code,
         Rename(p, q, code)
  PROVE  NoOrphans'
<1>1. CASE tree' = tree
  BY <1>1, SameTreeKeeps
<1>2. CASE ~Missing(p) /\ tree' = [tree EXCEPT ![p] = "none", ![q] = tree[p]]
  <2>1. p \in Entries
    BY <1>2 DEF Missing, Entries
  <2>2. tree[Dir] = "dir" /\ p # Dir /\ q # Dir
    BY <2>1, FileSystemAssumption DEF NoOrphans
  <2>3. tree'[Dir] = "dir"
    BY <1>2, <2>2 DEF TypeInv, Paths
  <2> QED
    BY <2>3 DEF NoOrphans
<1> QED
  BY <1>1, <1>2 DEF Rename, Refused, NotThere, Fails

(* Other processes are held to the rules of the file system too.           *)
LEMMA OthersChangeKeeps ==
  ASSUME TypeInv, NoOrphans, OthersChange
  PROVE  NoOrphans'
<1>1. PICK p \in Paths, kind \in Kinds :
        /\ kind # tree[p] /\ HasParent(p)
        /\ tree[p] = "dir" => IsEmptyDir(p)
        /\ Put(p, kind)
  BY DEF OthersChange
<1>2. p \in Names => tree[Dir] = "dir"
  BY <1>1, FileSystemAssumption DEF HasParent
<1>3. p = Dir => Entries = {}
  BY <1>1 DEF IsEmptyDir, NoOrphans
<1> QED
  BY <1>1, <1>2, <1>3, PutKeeps

(* A step of an operation ends it or keeps its paths. *)
SamePaths(t) ==
  \/ call' = [call EXCEPT ![t] = NoCall]
  \/ call' = [call EXCEPT ![t].tested = TRUE]
  \/ \E cap, tries \in Nat : call' = [call EXCEPT ![t].cap = cap, ![t].tries = tries]

(* An answer ends the call.                                                *)
LEMMA GivesSamePaths ==
  ASSUME NEW t \in Threads, NEW status, NEW names, Answer(t, status, names)
  PROVE  SamePaths(t)
  BY DEF Answer, SamePaths

(* A call that goes on acts on the same paths.                             *)
LEMMA SamePathsKeeps ==
  ASSUME TypeInv, NEW t \in Threads, SamePaths(t), \A u \in Threads : ActsOnNames(u)
  PROVE  \A u \in Threads : ActsOnNames(u)'
<1> SUFFICES ASSUME NEW u \in Threads PROVE ActsOnNames(u)'
  OBVIOUS
<1>1. call[u] \in CallRecord
  BY DEF TypeInv
<1>2. \/ call'[u] = NoCall
      \/ /\ call'[u].op = call[u].op
         /\ call'[u].name = call[u].name /\ call'[u].to = call[u].to
  <2>1. CASE call' = [call EXCEPT ![t] = NoCall]
    BY <2>1 DEF TypeInv
  <2>2. CASE call' = [call EXCEPT ![t].tested = TRUE]
    BY <1>1, <2>2 DEF TypeInv, CallRecord
  <2>3. ASSUME NEW cap \in Nat, NEW tries \in Nat,
               call' = [call EXCEPT ![t].cap = cap, ![t].tries = tries]
        PROVE  /\ call'[u].op = call[u].op
               /\ call'[u].name = call[u].name /\ call'[u].to = call[u].to
    <3>1. CASE u = t
      <4>1. call'[u] = [call[u] EXCEPT !.cap = cap, !.tries = tries]
        BY <2>3, <3>1 DEF TypeInv
      <4> QED
        BY <1>1, <4>1 DEF CallRecord
    <3>2. CASE u # t
      BY <2>3, <3>2 DEF TypeInv
    <3> QED
      BY <3>1, <3>2
  <2> QED
    BY <2>1, <2>2, <2>3 DEF SamePaths
<1> QED
  BY <1>2 DEF ActsOnNames, NoCall

(* One call of fs of an operation that opens no file.                      *)
LEMMA OperateKeeps ==
  ASSUME TypeInv, DirectoryInv, NEW t \in Threads, Operate(t)
  PROVE  DirectoryInv'
<1>1. call[t] \in CallRecord /\ ActsOnNames(t) /\ NoOrphans
  BY DEF TypeInv, DirectoryInv
<1>2. disk' = disk
  BY DEF Operate, FileExists, GetFileSize, DeleteFile, DeleteDir, DeleteTest,
         CreateDir, CreateDirTest, RenameFile, GetChildren, In
<1>3. SamePaths(t)
  <2>1. CASE FileExists(t) \/ GetFileSize(t)
    BY <2>1, GivesSamePaths DEF FileExists, GetFileSize, Gives
  <2>2. CASE DeleteFile(t) \/ DeleteDir(t)
    BY <2>2, GivesSamePaths
    DEF DeleteFile, DeleteDir, DeleteTest, Gives, Tested, SamePaths
  <2>3. CASE CreateDir(t)
    BY <2>3, GivesSamePaths DEF CreateDir, CreateDirTest, Gives, Tested, SamePaths
  <2>4. CASE RenameFile(t)
    BY <2>4, GivesSamePaths DEF RenameFile, Gives, Tested, SamePaths
  <2>5. CASE GetChildren(t)
    <3>1. CASE call' = [call EXCEPT ![t].cap = Needed(call[t].name), ![t].tries = @ + 1]
      <4>1. Needed(call[t].name) \in Nat /\ call[t].tries + 1 \in Nat
        BY <1>1, FileSystemAssumption
        DEF Needed, Listing, Entries, CallRecord, Attempts
      <4>2. call' = [call EXCEPT ![t].cap = Needed(call[t].name),
                                 ![t].tries = call[t].tries + 1]
        BY <3>1 DEF TypeInv
      <4> QED
        BY <4>1, <4>2 DEF SamePaths
    <3> QED
      BY <2>5, <3>1, GivesSamePaths DEF GetChildren, Gives
  <2> QED
    BY <2>1, <2>2, <2>3, <2>4, <2>5 DEF Operate
<1>4. NoOrphans'
  <2>1. CASE tree' = tree
    BY <1>1, <2>1, SameTreeKeeps
  <2>2. CASE DeleteFile(t) /\ tree' # tree
    <3>1. call[t].name \in Names
      BY <1>1, <2>2 DEF DeleteFile, DeleteTest, In, ActsOnNames
    <3>2. \E code \in Codes : Unlink(call[t].name, code)
      BY <2>2 DEF DeleteFile, DeleteTest, Stat, NotThere, Fails, Refused
    <3> QED
      BY <1>1, <3>1, <3>2, UnlinkKeeps
  <2>3. CASE DeleteDir(t) /\ tree' # tree
    <3>1. \E code \in Codes : Rmdir(call[t].name, code)
      BY <2>3 DEF DeleteDir, DeleteTest, Stat, NotThere, Fails, Refused
    <3> QED
      BY <1>1, <3>1, RmdirKeeps DEF CallRecord
  <2>4. CASE CreateDir(t) /\ tree' # tree
    <3>1. \E code \in Codes : Mkdir(call[t].name, code)
      BY <2>4 DEF CreateDir, CreateDirTest, Stat, NotThere, Fails, Refused
    <3> QED
      BY <1>1, <3>1, MkdirKeeps DEF CallRecord
  <2>5. CASE RenameFile(t) /\ tree' # tree
    <3>1. call[t].name \in Names /\ call[t].to \in Names
      BY <1>1, <2>5 DEF RenameFile, In, ActsOnNames
    <3>2. \E code \in Codes : Rename(call[t].name, call[t].to, code)
      BY <2>5 DEF RenameFile, Exists
    <3> QED
      BY <1>1, <3>1, <3>2, RenameKeeps
  <2>6. CASE FileExists(t) \/ GetFileSize(t) \/ GetChildren(t)
    <3>1. tree' = tree
      BY <2>6
      DEF FileExists, GetFileSize, GetChildren, Exists, Stat, Readdir, NotThere,
          Fails, Refused
    <3> QED
      BY <1>1, <3>1, SameTreeKeeps
  <2> QED
    BY <2>1, <2>2, <2>3, <2>4, <2>5, <2>6 DEF Operate
<1> QED
  BY <1>2, <1>3, <1>4, SamePathsKeeps DEF DirectoryInv

(* The call of fs of an operation that opens a file.                       *)
LEMMA NewFileKeeps ==
  ASSUME TypeInv, DirectoryInv, NEW t \in Threads, NewFile(t)
  PROVE  DirectoryInv'
<1>1. PICK code \in Codes : OpenCall(t, code) /\ Gives(t, Status(code))
  BY DEF NewFile
<1>2. disk' = disk /\ SamePaths(t)
  BY <1>1, GivesSamePaths DEF OpenCall, In, Gives
<1>3. NoOrphans'
  <2>1. CASE OpenToRead(call[t].name, code)
    <3>1. tree' = tree
      BY <2>1 DEF OpenToRead, Stat, NotThere, Fails, Refused
    <3> QED
      BY <3>1, SameTreeKeeps DEF DirectoryInv
  <2>2. CASE call[t].op = "NewWritableFile" /\ OpenToWrite(call[t].name, code)
    BY <2>2, OpenToWriteKeeps DEF DirectoryInv, ActsOnNames
  <2> QED
    BY <1>1, <2>1, <2>2 DEF OpenCall, In
<1> QED
  BY <1>2, <1>3, SamePathsKeeps DEF DirectoryInv

(* The arguments LevelDB gives.                                            *)
LEMMA BeginKeeps ==
  ASSUME TypeInv, DirectoryInv, NEW t \in Threads, Begin(t)
  PROVE  DirectoryInv'
<1>0. PICK op \in Operations : \E a \in Arguments(op) :
        call' = [call EXCEPT ![t] =
          [op |-> op, name |-> a[1], to |-> a[2],
           cap |-> IF op = "GetChildren" THEN Buffer ELSE 0,
           tries |-> 0, tested |-> FALSE]]
  BY DEF Begin
<1>1. PICK a \in Arguments(op) :
        call' = [call EXCEPT ![t] =
          [op |-> op, name |-> a[1], to |-> a[2],
           cap |-> IF op = "GetChildren" THEN Buffer ELSE 0,
           tries |-> 0, tested |-> FALSE]]
  BY <1>0
<1>2. op \in {"NewWritableFile", "DeleteFile", "RenameFile"} =>
        a[1] \in Names /\ (op = "RenameFile" => a[2] \in Names)
  BY DEF Arguments
<1>3. ASSUME NEW u \in Threads PROVE ActsOnNames(u)'
  <2>1. CASE u = t
    BY <1>1, <1>2, <2>1 DEF TypeInv, ActsOnNames
  <2>2. CASE u # t
    BY <1>1, <2>2 DEF TypeInv, DirectoryInv, ActsOnNames
  <2> QED
    BY <2>1, <2>2
<1>4. tree' = tree /\ disk' = disk
  BY DEF Begin
<1> QED
  BY <1>3, <1>4, SameTreeKeeps DEF DirectoryInv

(* Every step keeps the directory's invariant.                             *)
LEMMA DirectoryStep ==
  ASSUME TypeInv, DirectoryInv, [EnvNext]_allVars
  PROVE  DirectoryInv'
<1>1. CASE UNCHANGED envVars
  BY <1>1, SameTreeKeeps DEF envVars, DirectoryInv, ActsOnNames
<1>2. ASSUME NEW t \in Threads, Returns(t) PROVE DirectoryInv'
  BY <1>2, SameTreeKeeps DEF Returns, DirectoryInv, ActsOnNames
<1>3. CASE Others
  <2>1. NoOrphans'
    BY <1>3, OthersChangeKeeps DEF Others, DirectoryInv
  <2>2. disk' = disk /\ call' = call
    BY <1>3 DEF Others, OthersChange
  <2> QED
    BY <2>1, <2>2 DEF DirectoryInv, ActsOnNames
<1>4. CASE DiskChanges /\ UNCHANGED call
  BY <1>4, SameTreeKeeps DEF DiskChanges, DirectoryInv, ActsOnNames
<1> QED
  BY <1>1, <1>2, <1>3, <1>4, BeginKeeps, OperateKeeps, NewFileKeeps
  DEF EnvNext, allVars

(* There is nothing at the start.                                          *)
LEMMA DirectoryInit == EnvInit => DirectoryInv
  BY FileSystemAssumption
  DEF EnvInit, TreeInit, NoCall, DirectoryInv, NoOrphans, Entries, ActsOnNames, Paths

-----------------------------------------------------------------------------
(* What a call counts stays within what it watches. *)
LEMMA CountsFit ==
  ASSUME EnvInv, NEW t \in Threads PROVE changes[t] \in 0 .. Watched(t)
<1>1. /\ call[t] \in CallRecord /\ changes[t] \in 0 .. Attempts - 1
      /\ RoundsSeen(t) /\ TestSeen(t) /\ OthersUnseen(t)
  BY DEF EnvInv, TypeInv, Remembers
<1>2. CASE call[t].op = "GetChildren"
  BY <1>1, <1>2 DEF Watched, RoundsSeen, CallRecord, Attempts
<1>3. CASE call[t].op = "CreateDir" /\ call[t].tested
  BY <1>1, <1>3 DEF Watched, TestSeen
<1>4. CASE call[t].op # "GetChildren" /\ ~(call[t].op = "CreateDir" /\ call[t].tested)
  <2>1. Watched(t) = 0
    BY <1>4 DEF Watched
  <2> QED
    BY <1>1, <2>1 DEF OthersUnseen
<1> QED
  BY <1>2, <1>3, <1>4

WholeInv ==
  /\ TypeOK /\ EnvInv /\ DirectoryInv
  /\ LocksInv

(* The invariant of all the variables of the environment.                  *)
LEMMA WholeInvHolds == EnvSpec => []WholeInv
<1>1. EnvInit => WholeInv
  <2>1. EnvInit => Init
    BY DEF EnvInit
  <2>2. EnvInit => LocksInv
    BY DEF EnvInit, LocksInv
  <2> QED
    BY <2>1, <2>2, TypeInit, EnvStart, DirectoryInit DEF WholeInv
<1>2. WholeInv /\ [EnvNext]_allVars => WholeInv'
  BY FilesStep, TypeStep, EnvStep, DirectoryStep, LockStep DEF WholeInv, EnvInv
<1> QED
  BY <1>1, <1>2, PTL DEF EnvSpec

(* The variables keep their types: no thread's call leaves its range, a    *)
(* directory that is gone has nothing in it, and a call counts no more     *)
(* changes of the directory than its rounds leave room for.                *)
THEOREM EnvTypeCorrect == EnvSpec => []EnvTypeOK
<1>1. WholeInv => EnvTypeOK
  <2> SUFFICES ASSUME WholeInv PROVE EnvTypeOK
    OBVIOUS
  <2>1. TreeOK
    BY DEF WholeInv, EnvInv, TypeInv, DirectoryInv, NoOrphans, TreeOK
  <2>2. ASSUME NEW t \in Threads
        PROVE  /\ call[t].op \in Operations \union {"none"}
               /\ call[t].name \in Paths /\ call[t].to \in Paths
               /\ call[t].cap \in Nat /\ call[t].tries \in 0 .. Attempts - 1
               /\ reply[t].status \in {"none", "OK", "NotFound", "IOError"}
               /\ reply[t].names \subseteq Names
    <3>1. /\ call[t] \in CallRecord
          /\ reply[t] \in [status : {"none", "OK", "NotFound", "IOError"},
                           names : SUBSET Names]
      BY DEF WholeInv, EnvInv, TypeInv
    <3> QED
      BY <3>1 DEF CallRecord
  <2> QED
    BY <2>1, <2>2, CountsFit DEF WholeInv, LocksInv, EnvTypeOK
<1> QED
  BY <1>1, WholeInvHolds, PTL
=============================================================================
