----------------------------- MODULE FileSystem -----------------------------
(***************************************************************************)
(* The part of the file system the environment's directory operations      *)
(* touch: a database directory and the names in it, and what the calls of  *)
(* fs do to them and answer.  A call answers as the bridge (emldb_fs.cc)   *)
(* reports it: kFsOk, kFsNotFound for ENOENT, kFsError for all else.       *)
(* While the disk fails, any call may report an error and do nothing.      *)
(***************************************************************************)
EXTENDS Naturals

CONSTANTS
  Names,    \* the names in the directory
  Bytes,    \* how many bytes the listing of each set of names takes
  Subdirs,  \* bound of the model: those that may be directories themselves
  Dir       \* the directory

ASSUME FileSystemAssumption ==
  /\ Bytes \in [SUBSET Names -> Nat]
  /\ Subdirs \subseteq Names /\ Dir \notin Names

VARIABLES
  tree,  \* what there is under each path: "none", "file" or "dir"
  disk   \* "works" or "fails"

Paths == Names \union {Dir}
Kinds == {"none", "file", "dir"}
Codes == {"kFsOk", "kFsNotFound", "kFsError", "tooSmall"}

Entries == {n \in Names : tree[n] # "none"}
Missing(p) == tree[p] = "none"
HasParent(p) == p = Dir \/ tree[Dir] = "dir"
IsEmptyDir(p) == tree[p] = "dir" /\ (p = Dir => Entries = {})

TreeInit == tree = [p \in Paths |-> "none"] /\ disk = "works"

(* A change of the tree; a call that is refused, or fails with the disk;   *)
(* one whose path is not there (in what may be a file: ENOTDIR).           *)
Put(p, kind) == tree' = [tree EXCEPT ![p] = kind]
Refused(code) == code = "kFsError" /\ UNCHANGED tree
Fails(code) == disk = "fails" /\ Refused(code)
NotThere(p, code) ==
  /\ code = IF HasParent(p) \/ tree[Dir] = "none" THEN "kFsNotFound" ELSE "kFsError"
  /\ UNCHANGED tree

(* emfs_isdir, emfs_filesize: statSync. *)
Stat(p, code) ==
  \/ ~Missing(p) /\ code = "kFsOk" /\ UNCHANGED tree
  \/ Missing(p) /\ NotThere(p, code)
  \/ Fails(code)

(* emfs_exists: an error is a "no". *)
Exists(p, answer) ==
  /\ answer \in BOOLEAN /\ (answer = ~Missing(p) \/ (disk = "fails" /\ ~answer))
  /\ UNCHANGED tree

(* emfs_open to read, or to write ("w" and "a"). *)
OpenToRead(p, code) == Stat(p, code)

OpenToWrite(p, code) ==
  \/ tree[p] # "dir" /\ HasParent(p) /\ code = "kFsOk" /\ Put(p, "file")
  \/ tree[p] = "dir" /\ Refused(code)
  \/ ~HasParent(p) /\ NotThere(p, code)
  \/ Fails(code)

Unlink(p, code) ==
  \/ tree[p] = "file" /\ code = "kFsOk" /\ Put(p, "none")
  \/ tree[p] = "dir" /\ Refused(code)
  \/ Missing(p) /\ NotThere(p, code)
  \/ Fails(code)

Mkdir(p, code) ==
  \/ Missing(p) /\ HasParent(p) /\ code = "kFsOk" /\ Put(p, "dir")
  \/ ~Missing(p) /\ Refused(code)  \* EEXIST
  \/ ~HasParent(p) /\ NotThere(p, code)
  \/ Fails(code)

Rmdir(p, code) ==
  \/ IsEmptyDir(p) /\ code = "kFsOk" /\ Put(p, "none")
  \/ ~Missing(p) /\ ~IsEmptyDir(p) /\ Refused(code)
  \/ Missing(p) /\ NotThere(p, code)
  \/ Fails(code)

(* Between names of the directory; a file or an empty directory of the     *)
(* same kind under the new name is replaced.                               *)
Rename(p, q, code) ==
  \/ /\ ~Missing(p) /\ tree[q] \in {"none", tree[p]} /\ code = "kFsOk"
     /\ tree' = [tree EXCEPT ![p] = "none", ![q] = tree[p]]
  \/ ~Missing(p) /\ tree[q] \notin {"none", tree[p]} /\ Refused(code)
  \/ Missing(p) /\ NotThere(p, code)
  \/ Fails(code)

(* emfs_readdir into cap bytes: the names, or how many bytes they need.    *)
(* Every exception is kFsError, a missing directory too.                   *)
Listing(p) == IF p = Dir THEN Entries ELSE {}
Needed(p) == Bytes[Listing(p)]

Readdir(p, cap, code) ==
  /\ \/ tree[p] = "dir" /\ code = IF Needed(p) > cap THEN "tooSmall" ELSE "kFsOk"
     \/ tree[p] # "dir" /\ code = "kFsError"
     \/ disk = "fails" /\ code = "kFsError"
  /\ UNCHANGED tree

-----------------------------------------------------------------------------
(* Other processes make and remove files and directories. *)
OthersChange ==
  /\ \E p \in Paths, kind \in Kinds :
       /\ kind # tree[p]
       /\ HasParent(p)
       /\ tree[p] = "dir" => IsEmptyDir(p)
       /\ kind = "dir" => p \in Subdirs \union {Dir}
       /\ Put(p, kind)
  /\ UNCHANGED disk

DiskChanges == disk' \in {"works", "fails"} \ {disk} /\ UNCHANGED tree

TreeOK ==
  /\ tree \in [Paths -> Kinds] /\ disk \in {"works", "fails"}
  /\ tree[Dir] # "dir" => Entries = {}
=============================================================================
