---------------------------- MODULE Environment ----------------------------
(***************************************************************************)
(* EmscriptenEnv: the operations that open files and change the directory, *)
(* each a few calls of fs with the rest of the world in between, and the   *)
(* locks.  A file that is opened becomes an object of Descriptors.         *)
(*                                                                         *)
(* NewSequentialFile stands for NewRandomAccessFile as well, and           *)
(* NewWritableFile for NewAppendableFile and NewLogger: they differ in the *)
(* flags of the open and the class of the object.                          *)
(***************************************************************************)
EXTENDS Descriptors, FileSystem

CONSTANTS
  Buffer,     \* bytes GetChildren has for its first listing (4096)
  LockNames,
  Lockers     \* the databases that lock them

ASSUME EnvironmentAssumption == Buffer \in Nat /\ None \notin LockNames

Attempts == 4  \* of GetChildren

VARIABLES
  call,     \* the operation each thread is in
  changes,  \* history: how often the tree changed during it, see Watched
  reply,    \* its answer, until it returns
  locked,   \* m_locks
  holds     \* the name in the FileLock of each locker, or None

envVars == <<tree, disk, call, changes, reply>>
lockVars == <<locked, holds>>
allVars == <<vars, envVars, lockVars>>

NoCall == [op |-> "none", name |-> Dir, to |-> Dir, cap |-> 0, tries |-> 0,
           tested |-> FALSE]
NoReply == [status |-> "none", names |-> {}]

Openers == {"NewSequentialFile", "NewWritableFile"}
Operations == Openers \union
  {"FileExists", "GetFileSize", "DeleteFile", "CreateDir", "DeleteDir",
   "RenameFile", "GetChildren"}

EnvInit ==
  /\ Init /\ TreeInit
  /\ call = [t \in Threads |-> NoCall]
  /\ changes = [t \in Threads |-> 0]
  /\ reply = [t \in Threads |-> NoReply]
  /\ locked = {} /\ holds = [l \in Lockers |-> None]

Idle(t) == call[t] = NoCall /\ reply[t] = NoReply /\ busy[t] = None

(* Databases name their directory and the files in it, and rename files.   *)
Arguments(op) ==
  CASE op = "RenameFile" -> (Names \ Subdirs) \X Names
    [] op \in {"CreateDir", "DeleteDir"} -> (Subdirs \union {Dir}) \X {Dir}
    [] op = "GetChildren" -> {Dir} \X {Dir}
    [] OTHER -> Names \X {Dir}

(* The objects an open may make; bound of the model: while there are any.  *)
Class(op) == IF op = "NewWritableFile" THEN Objects ELSE Objects \ BufferedObjects

Begin(t) ==
  /\ Idle(t)
  /\ \E op \in Operations : \E a \in Arguments(op) :
       /\ op \in Openers => \E o \in Class(op) : stage[o] = "new"
       /\ call' = [call EXCEPT ![t] =
            [op |-> op, name |-> a[1], to |-> a[2],
             cap |-> IF op = "GetChildren" THEN Buffer ELSE 0,
             tries |-> 0, tested |-> FALSE]]
  /\ UNCHANGED <<tree, disk, changes, reply>>

(* The changes of the tree that matter to a call: one between two listings, *)
(* and one after CreateDir's test.                                         *)
Watched(t) ==
  CASE call[t].op = "GetChildren" -> call[t].tries
    [] call[t].op = "CreateDir" /\ call[t].tested -> 1
    [] OTHER -> 0

Seen(t) ==
  IF tree' # tree /\ changes[t] < Watched(t) THEN changes[t] + 1 ELSE changes[t]

In(t, op) == call[t].op = op /\ disk' = disk

Answer(t, status, names) ==
  /\ reply' = [reply EXCEPT ![t] = [status |-> status, names |-> names]]
  /\ call' = [call EXCEPT ![t] = NoCall]
  /\ changes' = [u \in Threads |-> IF u = t THEN 0 ELSE Seen(u)]

(* FsError, and OK for kFsOk. *)
Status(code) ==
  CASE code = "kFsOk" -> "OK"
    [] code = "kFsNotFound" -> "NotFound"
    [] OTHER -> "IOError"

Gives(t, status) == Answer(t, status, {})

(* The test came out well: the call that changes something comes next.     *)
Tested(t) ==
  /\ call' = [call EXCEPT ![t].tested = TRUE]
  /\ UNCHANGED <<changes, reply>>

FileExists(t) ==
  /\ In(t, "FileExists")
  /\ \E yes \in BOOLEAN :
       Exists(call[t].name, yes) /\ Gives(t, IF yes THEN "OK" ELSE "NotFound")

GetFileSize(t) ==
  /\ In(t, "GetFileSize")
  /\ \E code \in Codes : Stat(call[t].name, code) /\ Gives(t, Status(code))

(* emfs_isdir before DeleteFile and DeleteDir. *)
DeleteTest(t, op, kind) ==
  /\ In(t, op) /\ ~call[t].tested
  /\ \E code \in Codes :
       /\ Stat(call[t].name, code)
       /\ IF code = "kFsOk"
          THEN IF tree[call[t].name] = kind THEN Tested(t) ELSE Gives(t, "IOError")
          ELSE Gives(t, Status(code))

DeleteFile(t) ==
  \/ DeleteTest(t, "DeleteFile", "file")
  \/ /\ In(t, "DeleteFile") /\ call[t].tested
     /\ \E code \in Codes : Unlink(call[t].name, code) /\ Gives(t, Status(code))

DeleteDir(t) ==
  \/ DeleteTest(t, "DeleteDir", "dir")
  \/ /\ In(t, "DeleteDir") /\ call[t].tested
     /\ \E code \in Codes : Rmdir(call[t].name, code) /\ Gives(t, Status(code))

CreateDirTest(t) ==
  /\ In(t, "CreateDir") /\ ~call[t].tested
  /\ \E code \in Codes :
       /\ Stat(call[t].name, code)
       /\ \/ /\ code = "kFsOk"
             /\ Gives(t, IF tree[call[t].name] = "dir" THEN "OK" ELSE "IOError")
          \/ code = "kFsError" /\ Gives(t, "IOError")
          \/ code = "kFsNotFound" /\ Tested(t)

CreateDir(t) ==
  \/ CreateDirTest(t)
  \/ /\ In(t, "CreateDir") /\ call[t].tested
     /\ \E code \in Codes : Mkdir(call[t].name, code) /\ Gives(t, Status(code))

RenameFile(t) ==
  \/ /\ In(t, "RenameFile") /\ ~call[t].tested
     /\ \E yes \in BOOLEAN :
          /\ Exists(call[t].name, yes)
          /\ IF yes THEN Tested(t) ELSE Gives(t, "NotFound")
  \/ /\ In(t, "RenameFile") /\ call[t].tested
     /\ \E code \in Codes :
          Rename(call[t].name, call[t].to, code) /\ Gives(t, Status(code))

(* Mutants: a definition named Bad... is the next one with a bug.  No       *)
(* specification uses it; it shows that a property would notice the bug.   *)
BadGetChildren(t) ==  \* the code of a listing that does not fit is not looked at
  /\ In(t, "GetChildren")
  /\ \E code \in Codes :
       /\ Readdir(call[t].name, call[t].cap, code)
       /\ IF code = "kFsError" THEN Gives(t, "IOError")
          ELSE Answer(t, "OK", IF code = "kFsOk" THEN Listing(call[t].name) ELSE {})

(* One round of GetChildren. *)
GetChildren(t) ==
  /\ In(t, "GetChildren")
  /\ \E code \in Codes :
       /\ Readdir(call[t].name, call[t].cap, code)
       /\ \/ code = "kFsOk" /\ Answer(t, "OK", Listing(call[t].name))
          \/ code = "kFsError" /\ Gives(t, "IOError")
          \/ code = "tooSmall" /\ call[t].tries + 1 = Attempts /\ Gives(t, "IOError")
          \/ /\ code = "tooSmall" /\ call[t].tries + 1 # Attempts
             /\ call' = [call EXCEPT ![t].cap = Needed(call[t].name), ![t].tries = @ + 1]
             /\ UNCHANGED <<changes, reply>>

Operate(t) ==
  \/ FileExists(t) \/ GetFileSize(t) \/ DeleteFile(t) \/ DeleteDir(t)
  \/ CreateDir(t) \/ RenameFile(t) \/ GetChildren(t)

(* An open that fails makes no object. *)
OpenCall(t, code) ==
  \/ In(t, "NewSequentialFile") /\ OpenToRead(call[t].name, code)
  \/ In(t, "NewWritableFile") /\ OpenToWrite(call[t].name, code)

NewFile(t) ==
  \E code \in Codes :
    /\ OpenCall(t, code)
    /\ IF code = "kFsOk" THEN \E o \in Class(call[t].op) : Open(t, o) ELSE UNCHANGED vars
    /\ Gives(t, Status(code))

Returns(t) ==
  /\ reply[t] # NoReply
  /\ reply' = [reply EXCEPT ![t] = NoReply]
  /\ UNCHANGED <<tree, disk, call, changes>>

-----------------------------------------------------------------------------
(* An IOError and no lock when the name is in the set. *)
LockFile(t, l, name) ==
  /\ Idle(t) /\ holds[l] = None
  /\ name \notin locked
  /\ locked' = locked \union {name}
  /\ holds' = [holds EXCEPT ![l] = name]

UnlockFile(t, l) ==
  /\ Idle(t) /\ holds[l] # None
  /\ locked' = locked \ {holds[l]}
  /\ holds' = [holds EXCEPT ![l] = None]

-----------------------------------------------------------------------------
(* Other processes change the directory. *)
Others ==
  /\ OthersChange
  /\ changes' = [t \in Threads |-> Seen(t)]
  /\ UNCHANGED <<call, reply>>

EnvNext ==
  \/ /\ \E t \in Threads : Begin(t) \/ Operate(t) \/ Returns(t)
     /\ UNCHANGED <<vars, lockVars>>
  \/ (\E t \in Threads : NewFile(t)) /\ UNCHANGED lockVars
  \/ (\E t \in Threads, o \in Objects :
        call[t] = NoCall /\ reply[t] = NoReply /\ Use(t, o))
     /\ UNCHANGED <<envVars, lockVars>>
  \/ (\E t \in Threads, l \in Lockers :
        UnlockFile(t, l) \/ \E name \in LockNames : LockFile(t, l, name))
     /\ UNCHANGED <<vars, envVars>>
  \/ Others /\ UNCHANGED <<vars, lockVars>>
  \/ DiskChanges /\ UNCHANGED <<vars, call, changes, reply, lockVars>>

EnvSpec == EnvInit /\ [][EnvNext]_allVars

-----------------------------------------------------------------------------
EnvTypeOK ==
  /\ TypeOK /\ TreeOK
  /\ \A t \in Threads :
       /\ call[t].op \in Operations \union {"none"}
       /\ call[t].name \in Paths /\ call[t].to \in Paths
       /\ call[t].cap \in Nat /\ call[t].tries \in 0 .. Attempts - 1
       /\ changes[t] \in 0 .. Watched(t)
       /\ reply[t].status \in {"none", "OK", "NotFound", "IOError"}
       /\ reply[t].names \subseteq Names
  /\ locked \subseteq LockNames
  /\ holds \in [Lockers -> LockNames \union {None}]

(* An operation of the environment takes effect and finds its answer at    *)
(* one moment, though others change the directory between its calls of fs  *)
(* (GetChildren, DeleteFile, CreateDir, DeleteDir, RenameFile).            *)
Request(c) == [op |-> c.op, name |-> c.name, to |-> c.to]
Promise == INSTANCE Namespace WITH
             pending <- [t \in Threads |-> Request(call[t])]
AnswersAreAtomic == Promise!NsSpec
=============================================================================
