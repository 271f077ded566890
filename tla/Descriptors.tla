---------------------------- MODULE Descriptors ----------------------------
(***************************************************************************)
(* File descriptors as the file objects of the environment use them: an    *)
(* object keeps the number fs.openSync gave it (m_fd) and closes whatever  *)
(* has that number later.  The system gives the lowest free number.        *)
(*                                                                         *)
(* Threads: the JavaScript thread and LevelDB's background thread open and *)
(* destroy files side by side; descriptors belong to the process.          *)
(***************************************************************************)
EXTENDS Naturals, FiniteSets

CONSTANTS
  Threads,
  Objects,          \* file objects, each constructed once
  BufferedObjects,  \* those that are EmBufferedWritableFile
  None,             \* no object
  CloseReleases     \* fs.closeSync may release the descriptor and throw

ASSUME DescriptorAssumption ==
  /\ BufferedObjects \subseteq Objects
  /\ None \notin Objects
  /\ CloseReleases \in BOOLEAN

(* Enough numbers for every object. *)
Numbers == 1 .. Cardinality(Objects)
NoFd == 0

VARIABLES
  table,    \* the object each descriptor of the process was opened for
  fd,       \* m_fd of each object
  stage,    \* "new", "live", "derived" (its own destructor ran), "gone"
  busy,     \* the object each thread is destroying, or None
  failed,   \* history: the objects a close of which threw
  shared    \* history: the objects given a number another one still kept

vars == <<table, fd, stage, busy, failed, shared>>

Init ==
  /\ table = [n \in Numbers |-> None]
  /\ fd = [o \in Objects |-> NoFd]
  /\ stage = [o \in Objects |-> "new"]
  /\ busy = [t \in Threads |-> None]
  /\ failed = {} /\ shared = {}

LowestFree(n) ==
  table[n] = None /\ \A m \in 1 .. n - 1 : table[m] # None

(* Mutants: a definition named Bad... is the next one with a bug.  No       *)
(* specification uses it; it shows that a property would notice the bug.   *)
BadOpen(t, o) ==  \* an object is made although openSync failed
  /\ busy[t] = None /\ stage[o] = "new"
  /\ fd' = [fd EXCEPT ![o] = 0 - 1]
  /\ stage' = [stage EXCEPT ![o] = "live"]
  /\ UNCHANGED <<table, busy, failed, shared>>

Unfinished == {o \in Objects : stage[o] \in {"live", "derived"}}

(* New{Sequential,RandomAccess,Writable}File, NewLogger. *)
Open(t, o) ==
  /\ busy[t] = None /\ stage[o] = "new"
  /\ \E n \in Numbers :
       /\ LowestFree(n)
       /\ table' = [table EXCEPT ![n] = o]
       /\ fd' = [fd EXCEPT ![o] = n]
       /\ shared' = shared \union
            (IF \E p \in Unfinished : fd[p] = n THEN {o} ELSE {})
  /\ stage' = [stage EXCEPT ![o] = "live"]
  /\ UNCHANGED <<busy, failed>>

(* fs.closeSync(m_fd) of o: it acts on the number, whoever has it now.     *)
CloseSyncOk(o) ==
  /\ table[fd[o]] # None
  /\ table' = [table EXCEPT ![fd[o]] = None]
  /\ UNCHANGED failed

CloseSyncThrows(o) ==
  /\ \/ UNCHANGED table
     \/ CloseReleases /\ table' = [table EXCEPT ![fd[o]] = None]
  /\ failed' = failed \union {o}

BadCloseOk(t, o) ==  \* m_fd keeps the number
  /\ busy[t] = None /\ stage[o] = "live" /\ fd[o] # NoFd
  /\ CloseSyncOk(o)
  /\ UNCHANGED <<fd, stage, busy, shared>>

(* Close() of a writable file. *)
CloseOk(t, o) ==
  /\ busy[t] = None /\ stage[o] = "live" /\ fd[o] # NoFd
  /\ CloseSyncOk(o)
  /\ fd' = [fd EXCEPT ![o] = NoFd]
  /\ UNCHANGED <<stage, busy, shared>>

CloseFail(t, o) ==
  /\ busy[t] = None /\ stage[o] = "live" /\ fd[o] # NoFd
  /\ CloseSyncThrows(o)
  /\ UNCHANGED <<fd, stage, busy, shared>>

(* ~EmBufferedWritableFile: closes the descriptor and keeps its number.    *)
DestroyBuffered(t, o) ==
  /\ busy[t] = None /\ stage[o] = "live" /\ o \in BufferedObjects
  /\ IF fd[o] # NoFd THEN CloseSyncOk(o) \/ CloseSyncThrows(o)
                     ELSE UNCHANGED <<table, failed>>
  /\ stage' = [stage EXCEPT ![o] = "derived"]
  /\ busy' = [busy EXCEPT ![t] = o]
  /\ UNCHANGED <<fd, shared>>

BadDestroy(t, o) ==  \* does not close
  /\ \/ busy[t] = None /\ stage[o] = "live" /\ o \notin BufferedObjects
     \/ busy[t] = o /\ stage[o] = "derived"
  /\ stage' = [stage EXCEPT ![o] = "gone"]
  /\ busy' = [busy EXCEPT ![t] = None]
  /\ UNCHANGED <<table, fd, failed, shared>>

(* The destructor of the other classes, among them the base class of a     *)
(* buffered file.                                                          *)
Destroy(t, o) ==
  /\ \/ busy[t] = None /\ stage[o] = "live" /\ o \notin BufferedObjects
     \/ busy[t] = o /\ stage[o] = "derived"
  /\ IF fd[o] # NoFd THEN CloseSyncOk(o) \/ CloseSyncThrows(o)
                     ELSE UNCHANGED <<table, failed>>
  /\ stage' = [stage EXCEPT ![o] = "gone"]
  /\ busy' = [busy EXCEPT ![t] = None]
  /\ UNCHANGED <<fd, shared>>

(* What the owner of a file object does with it. *)
Use(t, o) ==
  CloseOk(t, o) \/ CloseFail(t, o) \/ DestroyBuffered(t, o) \/ Destroy(t, o)

Next == \E t \in Threads, o \in Objects : Open(t, o) \/ Use(t, o)

Spec == Init /\ [][Next]_vars

-----------------------------------------------------------------------------
TypeOK ==
  /\ table \in [Numbers -> Objects \union {None}]
  /\ fd \in [Objects -> Numbers \union {NoFd}]
  /\ stage \in [Objects -> {"new", "live", "derived", "gone"}]
  /\ busy \in [Threads -> Objects \union {None}]
  /\ failed \subseteq Objects /\ shared \subseteq Objects

(* A file that nobody closed keeps its handle, whatever other files the    *)
(* process opens, closes and destroys: "a closed handle would make the     *)
(* lost bytes unrecoverable" (EmBufferedWritableFile::Close).              *)
HandleStaysOpen ==
  \A o \in Objects : stage[o] = "live" /\ fd[o] # NoFd /\ o \notin failed =>
    table[fd[o]] = o

(* What is left of it when threads do come in between and a close may throw *)
(* after it released the descriptor: the files that can lose their handle  *)
(* are those opened under a number that another object had not done with   *)
(* (~EmBufferedWritableFile keeps m_fd for ~EmWritableFile; Close() keeps  *)
(* it when closeSync throws).                                              *)
OnlySharedLoseHandles ==
  \A o \in Objects : stage[o] = "live" /\ fd[o] # NoFd /\ o \notin failed =>
    table[fd[o]] = o \/ o \in shared

(* A file is opened under such a number only while a buffered file is      *)
(* between its two destructors, or after a close that threw, or by way of  *)
(* a file that lost its handle so: a Close() that succeeds never leaves    *)
(* its number behind.                                                      *)
Stale(p) ==
  /\ p \in Unfinished /\ fd[p] # NoFd
  /\ stage[p] = "derived" \/ p \in failed \/ p \in shared
NumbersSharedWhenStale ==
  [][\A o \in Objects : o \in shared' \ shared =>
       \E p \in Objects \ {o} : Stale(p) /\ fd[p] = fd'[o]]_vars

(* A destroyed object leaves no descriptor behind unless closing it threw. *)
NoDescriptorLeak ==
  \A n \in Numbers : table[n] # None =>
    stage[table[n]] = "live" \/ table[n] \in failed
=============================================================================
