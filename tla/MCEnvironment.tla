--------------------------- MODULE MCEnvironment ---------------------------
(* Environment for TLC: a name is a number, the bytes it takes in a        *)
(* listing.                                                                *)
EXTENDS Environment, FiniteSetsExt, TLC

MCBytes == [names \in SUBSET Names |-> SumSet(names)]

(* Bounds of the run.  One thread at a time is in an operation.  The       *)
(* operations that open no file, and the locks, neither read nor change    *)
(* the file objects: a thread is in one, or a lock is held, only while no  *)
(* file was made.  Once there are files, the disk works, and the directory *)
(* is there and has one entry at most.                                     *)
Calling(t) == call[t] # NoCall \/ reply[t] # NoReply
OneCaller == \A t, u \in Threads : Calling(t) /\ Calling(u) => t = u
FilesApart ==
  \/ \A o \in Objects : stage[o] = "new"
  \/ /\ locked = {} /\ \A t \in Threads : call[t].op \in Openers \union {"none"}
     /\ disk = "works" /\ tree[Dir] = "dir" /\ Cardinality(Entries) <= 1

(* The threads are alike, and the files that are not buffered.             *)
Alike == Permutations(Threads) \union Permutations(Objects \ BufferedObjects)
=============================================================================
