----------------------------- MODULE Namespace -----------------------------
(***************************************************************************)
(* What the callers of Env's directory operations rely on: each call takes *)
(* effect, and finds its answer, at one moment between its start and its   *)
(* return, although the environment makes several calls of fs for it.  An  *)
(* IOError needs a reason: a file where a directory is needed or the other *)
(* way round, a disk that fails, or changes of the directory by others     *)
(* while the call runs.                                                    *)
(***************************************************************************)
EXTENDS FileSystem

CONSTANTS Threads

VARIABLES
  pending,  \* the request of each thread's call that has no answer yet
  changes,  \* how often others changed the tree during that call, or less
  reply     \* the answer of each thread's call, until it returns

nsVars == <<tree, disk, pending, changes, reply>>

NoRequest == [op |-> "none", name |-> Dir, to |-> Dir]
NoReply == [status |-> "none", names |-> {}]

NsInit ==
  /\ TreeInit
  /\ pending = [t \in Threads |-> NoRequest]
  /\ changes = [t \in Threads |-> 0]
  /\ reply = [t \in Threads |-> NoReply]

Idle(t) == pending[t] = NoRequest /\ reply[t] = NoReply

Requests ==
  [op : {"FileExists", "GetFileSize", "NewSequentialFile", "NewWritableFile",
         "DeleteFile", "CreateDir", "DeleteDir", "RenameFile", "GetChildren"},
   name : Paths, to : Paths]

Invoke(t) ==
  /\ Idle(t)
  /\ pending'[t] \in Requests
  /\ pending' = [pending EXCEPT ![t] = pending'[t]]
  /\ UNCHANGED <<tree, disk, changes, reply>>

Gives(t, status) ==
  reply' = [reply EXCEPT ![t] = [status |-> status, names |-> {}]]

OkIf(t, condition) == condition /\ Gives(t, "OK") /\ UNCHANGED tree
NotFoundIf(t, condition) == condition /\ Gives(t, "NotFound") /\ UNCHANGED tree
IOErrorIf(t, condition) == condition /\ Gives(t, "IOError") /\ UNCHANGED tree

(* A path in a directory that is not there, or in a file. *)
Orphan(p) == ~HasParent(p) /\ tree[Dir] = "none"
Astray(p) == ~HasParent(p) /\ tree[Dir] = "file"

Effect(t, op, p, q) ==
  \/ op \in {"GetFileSize", "NewSequentialFile"} /\ OkIf(t, ~Missing(p))
  \/ op = "FileExists" /\ OkIf(t, ~Missing(p))
  \/ op = "FileExists" /\ NotFoundIf(t, Missing(p) \/ disk = "fails")
  \/ op \in {"GetFileSize", "NewSequentialFile", "DeleteFile", "DeleteDir", "RenameFile"}
       /\ NotFoundIf(t, Missing(p))
  \/ op \in {"NewWritableFile", "CreateDir"} /\ NotFoundIf(t, Orphan(p))
  \/ op = "RenameFile" /\ NotFoundIf(t, disk = "fails")
  \/ /\ op = "NewWritableFile" /\ tree[p] # "dir" /\ HasParent(p)
     /\ Gives(t, "OK") /\ Put(p, "file")
  \/ op = "NewWritableFile" /\ IOErrorIf(t, tree[p] = "dir")
  \/ op = "DeleteFile" /\ tree[p] = "file" /\ Gives(t, "OK") /\ Put(p, "none")
  \/ op = "DeleteFile" /\ IOErrorIf(t, tree[p] = "dir")
  \/ op = "CreateDir" /\ OkIf(t, tree[p] = "dir")
  \/ /\ op = "CreateDir" /\ Missing(p) /\ HasParent(p)
     /\ Gives(t, "OK") /\ Put(p, "dir")
  \/ op = "CreateDir" /\ IOErrorIf(t, tree[p] = "file" \/ changes[t] > 0)
  \/ op = "DeleteDir" /\ IsEmptyDir(p) /\ Gives(t, "OK") /\ Put(p, "none")
  \/ op = "DeleteDir" /\ IOErrorIf(t, ~Missing(p) /\ ~IsEmptyDir(p))
  \/ /\ op = "RenameFile" /\ ~Missing(p) /\ tree[q] \in {"none", tree[p]}
     /\ Gives(t, "OK")
     /\ tree' = [tree EXCEPT ![p] = "none", ![q] = tree[p]]
  \/ op = "RenameFile" /\ IOErrorIf(t, tree[q] \notin {"none", tree[p]})
  \/ /\ op = "GetChildren" /\ tree[p] = "dir" /\ UNCHANGED tree
     /\ reply' = [reply EXCEPT ![t] = [status |-> "OK", names |-> Listing(p)]]
  \/ op = "GetChildren" /\ IOErrorIf(t, tree[p] # "dir" \/ changes[t] = 3)
  \/ op # "FileExists" /\ IOErrorIf(t, disk = "fails" \/ Astray(p))

(* A change of the tree by others may count for a call that is under way.  *)
Counts(t) ==
  \/ changes'[t] = changes[t]
  \/ tree' # tree /\ pending[t] # NoRequest /\ changes'[t] = changes[t] + 1

Take(t) ==
  /\ pending[t] # NoRequest
  /\ Effect(t, pending[t].op, pending[t].name, pending[t].to)
  /\ pending' = [pending EXCEPT ![t] = NoRequest]
  /\ changes' \in [Threads -> 0 .. 3] /\ changes'[t] = 0
  /\ \A u \in Threads \ {t} : Counts(u)
  /\ UNCHANGED disk

Return(t) ==
  /\ reply[t] # NoReply
  /\ reply' = [reply EXCEPT ![t] = NoReply]
  /\ UNCHANGED <<tree, disk, pending, changes>>

Disturb ==
  /\ OthersChange
  /\ changes' \in [Threads -> 0 .. 3] /\ \A t \in Threads : Counts(t)
  /\ UNCHANGED <<pending, reply>>

NsNext ==
  \/ \E t \in Threads : Invoke(t) \/ Take(t) \/ Return(t)
  \/ Disturb
  \/ DiskChanges /\ UNCHANGED <<pending, changes, reply>>

NsSpec == NsInit /\ [][NsNext]_nsVars
=============================================================================
