------------------------- MODULE DescriptorsProofs -------------------------
(***************************************************************************)
(* Proofs about Descriptors, for any threads, file objects and buffered    *)
(* ones, whatever a close that throws did: which files can lose their      *)
(* handle, how that begins, and that no descriptor is left behind.         *)
(***************************************************************************)
EXTENDS Descriptors, TLAPS

(* No descriptor is held for an object before it is made. *)
NewHasNone ==
  \A o \in Objects : stage[o] = "new" =>
    fd[o] = NoFd /\ \A n \in Numbers : table[n] # o

(* The number in an object is the one the process has for it. *)
OwnerKnowsNumber == \A n \in Numbers : table[n] # None => fd[table[n]] = n

(* A file that was not opened under a number that another object kept is   *)
(* the only one to have its number, for as long as no close of it threw.   *)
UnsharedIsAlone ==
  \A o, p \in Objects :
    /\ stage[o] = "live" /\ fd[o] # NoFd /\ o \notin failed /\ o \notin shared
    /\ p \in Unfinished /\ fd[p] = fd[o]
    => p = o

IInv ==
  /\ TypeOK
  /\ NewHasNone
  /\ OwnerKnowsNumber
  /\ UnsharedIsAlone
  /\ OnlySharedLoseHandles
  /\ NoDescriptorLeak

(* No number is the mark of a closed object. *)
LEMMA NoFdIsNoNumber == \A n \in Numbers : n # NoFd
  BY DEF Numbers, NoFd

(* The initial states satisfy the invariant. *)
LEMMA InitIInv == Init => IInv
  BY DescriptorAssumption, SMT
  DEF Init, IInv, TypeOK, NewHasNone, OwnerKnowsNumber, UnsharedIsAlone, Unfinished,
      OnlySharedLoseHandles, NoDescriptorLeak, Numbers, NoFd

-----------------------------------------------------------------------------
(* The types hold whatever a close does, and whichever thread comes in     *)
(* between: m_fd is a number of the table or the mark of a closed object.  *)
LEMMA TypeInit == Init => TypeOK
  BY InitIInv DEF IInv

(* Every step keeps the types.                                             *)
LEMMA TypeStep == TypeOK /\ [Next]_vars => TypeOK'
<1> USE DescriptorAssumption
<1> SUFFICES ASSUME TypeOK, [Next]_vars PROVE TypeOK'
  OBVIOUS
<1>1. CASE UNCHANGED vars
  BY <1>1 DEF vars, TypeOK
<1>2. ASSUME NEW o \in Objects, fd[o] # NoFd, CloseSyncOk(o) \/ CloseSyncThrows(o)
      PROVE  /\ table' \in [Numbers -> Objects \union {None}]
             /\ failed' \subseteq Objects
  BY <1>2 DEF TypeOK, CloseSyncOk, CloseSyncThrows
<1>3. ASSUME NEW t \in Threads, NEW o \in Objects, Open(t, o) PROVE TypeOK'
  <2>1. PICK n \in Numbers :
          /\ table' = [table EXCEPT ![n] = o] /\ fd' = [fd EXCEPT ![o] = n]
          /\ shared' \subseteq shared \union {o}
    BY <1>3 DEF Open
  <2>2. stage' = [stage EXCEPT ![o] = "live"] /\ busy' = busy /\ failed' = failed
    BY <1>3 DEF Open
  <2>3. table' \in [Numbers -> Objects \union {None}]
    BY <2>1 DEF TypeOK
  <2>4. fd' \in [Objects -> Numbers \union {NoFd}]
    BY <2>1 DEF TypeOK
  <2>5. stage' \in [Objects -> {"new", "live", "derived", "gone"}]
    BY <2>2 DEF TypeOK
  <2>6. shared' \subseteq Objects
    BY <2>1 DEF TypeOK
  <2> QED
    BY <2>2, <2>3, <2>4, <2>5, <2>6 DEF TypeOK
<1>4. ASSUME NEW t \in Threads, NEW o \in Objects, CloseOk(t, o) \/ CloseFail(t, o)
      PROVE  TypeOK'
  <2>1. /\ fd[o] # NoFd /\ (CloseSyncOk(o) \/ CloseSyncThrows(o))
        /\ stage' = stage /\ busy' = busy /\ shared' = shared
        /\ (fd' = fd \/ fd' = [fd EXCEPT ![o] = NoFd])
    BY <1>4 DEF CloseOk, CloseFail
  <2> QED
    BY <1>2, <2>1 DEF TypeOK
<1>5. ASSUME NEW t \in Threads, NEW o \in Objects,
             DestroyBuffered(t, o) \/ Destroy(t, o)
      PROVE  TypeOK'
  <2>1. /\ table' \in [Numbers -> Objects \union {None}]
        /\ failed' \subseteq Objects
    <3>1. CASE fd[o] # NoFd
      BY <1>2, <1>5, <3>1 DEF DestroyBuffered, Destroy
    <3>2. CASE fd[o] = NoFd
      BY <1>5, <3>2 DEF DestroyBuffered, Destroy, TypeOK
    <3> QED
      BY <3>1, <3>2
  <2>2. /\ fd' = fd /\ shared' = shared
        /\ \/ stage' = [stage EXCEPT ![o] = "derived"]
           \/ stage' = [stage EXCEPT ![o] = "gone"]
        /\ \/ busy' = [busy EXCEPT ![t] = o]
           \/ busy' = [busy EXCEPT ![t] = None]
    BY <1>5 DEF DestroyBuffered, Destroy
  <2> QED
    BY <2>1, <2>2 DEF TypeOK
<1> QED
  BY <1>1, <1>3, <1>4, <1>5 DEF Next, Use

(* The variables keep their types. *)
THEOREM TypeCorrect == Spec => []TypeOK
  BY TypeInit, TypeStep, PTL DEF Spec

-----------------------------------------------------------------------------
(* What an open does: the object gets a number that the process has free,  *)
(* and is marked if another object still has that number.                  *)
LEMMA OpenEffect ==
  ASSUME NEW t \in Threads, NEW o \in Objects, Open(t, o)
  PROVE  /\ stage[o] = "new" /\ stage' = [stage EXCEPT ![o] = "live"]
         /\ failed' = failed
         /\ \E n \in Numbers :
              /\ table[n] = None
              /\ table' = [table EXCEPT ![n] = o]
              /\ fd' = [fd EXCEPT ![o] = n]
              /\ shared' = shared \union
                   (IF \E p \in Unfinished : fd[p] = n THEN {o} ELSE {})
  BY DEF Open, LowestFree

(* Opening a file: a number that is free in the process is no unmarked     *)
(* file's, and who gets one that another object kept is marked.            *)
LEMMA OpenIInv ==
  ASSUME IInv, NEW t \in Threads, NEW o \in Objects, Open(t, o)
  PROVE  IInv'
<1> USE DescriptorAssumption
<1>1. PICK n \in Numbers :
        /\ table[n] = None
        /\ table' = [table EXCEPT ![n] = o]
        /\ fd' = [fd EXCEPT ![o] = n]
        /\ shared' = shared \union
             (IF \E p \in Unfinished : fd[p] = n THEN {o} ELSE {})
  BY OpenEffect
<1>2. /\ stage[o] = "new" /\ stage' = [stage EXCEPT ![o] = "live"]
      /\ failed' = failed
  BY OpenEffect
<1>3. n # NoFd
  BY NoFdIsNoNumber
<1>4. TypeOK'
  BY TypeStep DEF IInv, Next
<1>5. NewHasNone' /\ OwnerKnowsNumber' /\ NoDescriptorLeak'
  BY <1>1, <1>2, <1>3
  DEF IInv, TypeOK, NewHasNone, OwnerKnowsNumber, NoDescriptorLeak
<1>6. OnlySharedLoseHandles'
  BY <1>1, <1>2, <1>3 DEF IInv, TypeOK, OnlySharedLoseHandles
<1>7. UnsharedIsAlone'
  <2> SUFFICES ASSUME NEW p \in Objects, NEW q \in Objects,
                      stage'[p] = "live", fd'[p] # NoFd,
                      p \notin failed', p \notin shared',
                      q \in Unfinished', fd'[q] = fd'[p]
               PROVE  q = p
    BY DEF UnsharedIsAlone
  <2>1. CASE p # o /\ q # o
    BY <1>1, <1>2, <2>1 DEF IInv, TypeOK, UnsharedIsAlone, Unfinished
  <2>2. CASE p = o /\ q # o
    <3>1. q \in Unfinished /\ fd[q] = n
      BY <1>1, <1>2, <2>2 DEF IInv, TypeOK, Unfinished
    <3> QED
      BY <1>1, <2>2, <3>1
  <2>3. CASE p # o /\ q = o
    <3>1. stage[p] = "live" /\ fd[p] = n /\ p \notin failed /\ p \notin shared
      BY <1>1, <1>2, <2>3 DEF IInv, TypeOK
    <3>2. table[n] = p
      BY <1>3, <3>1 DEF IInv, OnlySharedLoseHandles
    <3> QED
      BY <1>1, <3>2
  <2> QED
    BY <2>1, <2>2, <2>3
<1> QED
  BY <1>4, <1>5, <1>6, <1>7 DEF IInv

(* What a close leaves: the table gives back the object's number or        *)
(* nothing, and in the second case it threw or there was nothing to close. *)
Closes(o) ==
  \/ /\ fd[o] \in Numbers /\ table' = [table EXCEPT ![fd[o]] = None]
     /\ failed' \in {failed, failed \union {o}}
  \/ table' = table /\ failed' = failed \union {o}
  \/ table' = table /\ failed' = failed /\ fd[o] = NoFd

(* The closes of Close() and of the destructors.                           *)
LEMMA CloseEffect ==
  ASSUME IInv, NEW o \in Objects,
         IF fd[o] # NoFd THEN CloseSyncOk(o) \/ CloseSyncThrows(o)
                         ELSE UNCHANGED <<table, failed>>
  PROVE  Closes(o)
<1>1. fd[o] # NoFd => fd[o] \in Numbers
  BY DEF IInv, TypeOK
<1> QED
  BY <1>1 DEF CloseSyncOk, CloseSyncThrows, Closes

(* A close takes the handle of no unmarked file but the one it closes.     *)
LEMMA ClosesKeeps ==
  ASSUME IInv, NEW o \in Objects, o \in Unfinished, Closes(o),
         NEW p \in Objects, p # o,
         stage[p] = "live", fd[p] # NoFd, p \notin failed', p \notin shared
  PROVE  table'[fd[p]] = p
<1>1. p \notin failed
  BY DEF Closes
<1>2. fd[p] \in Numbers /\ table[fd[p]] = p
  BY <1>1 DEF IInv, TypeOK, OnlySharedLoseHandles
<1>3. fd[o] # fd[p]
  BY <1>1 DEF IInv, UnsharedIsAlone
<1> QED
  BY <1>2, <1>3 DEF Closes, IInv, TypeOK

(* A descriptor that is still there after a close of o has the owner it    *)
(* had, and that is o only if the close threw.                             *)
LEMMA ClosesLeaves ==
  ASSUME IInv, NEW o \in Objects, Closes(o), NEW n \in Numbers, table'[n] # None
  PROVE  /\ table'[n] = table[n] /\ table[n] \in Objects /\ fd[table[n]] = n
         /\ table[n] = o => o \in failed'
<1>1. table'[n] = table[n] /\ table[n] \in Objects
  BY DEF Closes, IInv, TypeOK
<1>2. fd[table[n]] = n
  BY <1>1, DescriptorAssumption DEF IInv, OwnerKnowsNumber
<1>3. ASSUME table[n] = o PROVE o \in failed'
  <2>1. fd[o] = n /\ n # NoFd
    BY <1>2, <1>3, NoFdIsNoNumber
  <2> QED
    BY <2>1 DEF Closes, IInv, TypeOK
<1> QED
  BY <1>1, <1>2, <1>3

(* Close() of a live file. *)
LEMMA CloseIInv ==
  ASSUME IInv, NEW t \in Threads, NEW o \in Objects,
         CloseOk(t, o) \/ CloseFail(t, o)
  PROVE  IInv'
<1> USE DescriptorAssumption
<1>1. /\ stage[o] = "live" /\ stage' = stage /\ fd[o] # NoFd /\ shared' = shared
      /\ \/ fd' = [fd EXCEPT ![o] = NoFd]
         \/ fd' = fd /\ failed' = failed \union {o}
  BY DEF CloseOk, CloseFail, CloseSyncThrows
<1>2. Closes(o) /\ o \in Unfinished
  BY <1>1, CloseEffect DEF CloseOk, CloseFail, Unfinished
<1>3. /\ failed \subseteq failed'
      /\ fd'[o] = NoFd \/ o \in failed'
      /\ \A p \in Objects : p # o => fd'[p] = fd[p]
      /\ \A p \in Objects : fd'[p] \in {fd[p], NoFd}
  BY <1>1, <1>2 DEF Closes, IInv, TypeOK
<1>4. TypeOK'
  BY TypeStep DEF IInv, Next, Use
<1>5. NewHasNone'
  BY <1>1, <1>2, <1>3 DEF Closes, IInv, TypeOK, NewHasNone
<1>6. OwnerKnowsNumber'
  <2> SUFFICES ASSUME NEW n \in Numbers, table'[n] # None PROVE fd'[table'[n]] = n
    BY DEF OwnerKnowsNumber
  <2>1. /\ table'[n] = table[n] /\ table[n] \in Objects /\ fd[table[n]] = n
    BY <1>2, ClosesLeaves
  <2>2. CASE table[n] = o
    <3>1. fd' = fd
      BY <1>1, <2>1, <2>2 DEF CloseOk, CloseSyncOk, CloseFail, IInv, TypeOK
    <3> QED
      BY <2>1, <3>1
  <2> QED
    BY <1>3, <2>1, <2>2
<1>7. NoDescriptorLeak'
  BY <1>1, <1>2, <1>3, ClosesLeaves DEF IInv, NoDescriptorLeak
<1>8. OnlySharedLoseHandles'
  BY <1>1, <1>2, <1>3, ClosesKeeps DEF OnlySharedLoseHandles
<1>9. UnsharedIsAlone'
  <2> SUFFICES ASSUME NEW p \in Objects, NEW q \in Objects,
                      stage'[p] = "live", fd'[p] # NoFd,
                      p \notin failed', p \notin shared',
                      q \in Unfinished', fd'[q] = fd'[p]
               PROVE  q = p
    BY DEF UnsharedIsAlone
  <2>1. fd'[p] = fd[p] /\ fd'[q] = fd[q]
    BY <1>3
  <2> QED
    BY <1>1, <1>3, <2>1 DEF IInv, UnsharedIsAlone, Unfinished
<1> QED
  BY <1>4, <1>5, <1>6, <1>7, <1>8, <1>9 DEF IInv

(* The destructors: the first of a buffered file, and all the others.      *)
LEMMA DestroyIInv ==
  ASSUME IInv, NEW t \in Threads, NEW o \in Objects,
         DestroyBuffered(t, o) \/ Destroy(t, o)
  PROVE  IInv'
<1> USE DescriptorAssumption
<1>1. /\ stage[o] \in {"live", "derived"} /\ fd' = fd /\ shared' = shared
      /\ \/ stage' = [stage EXCEPT ![o] = "derived"]
         \/ stage' = [stage EXCEPT ![o] = "gone"]
  BY DEF DestroyBuffered, Destroy
<1>2. Closes(o) /\ o \in Unfinished
  BY <1>1, CloseEffect DEF DestroyBuffered, Destroy, Unfinished
<1>3. /\ failed \subseteq failed'
      /\ stage'[o] \in {"derived", "gone"}
      /\ \A p \in Objects : p # o => stage'[p] = stage[p]
      /\ Unfinished' \subseteq Unfinished
  BY <1>1, <1>2 DEF Closes, IInv, TypeOK, Unfinished
<1>4. TypeOK'
  BY TypeStep DEF IInv, Next, Use
<1>5. NewHasNone'
  BY <1>1, <1>2, <1>3 DEF Closes, IInv, TypeOK, NewHasNone
<1>6. OwnerKnowsNumber'
  BY <1>1, <1>2, ClosesLeaves DEF OwnerKnowsNumber
<1>7. NoDescriptorLeak'
  BY <1>2, <1>3, ClosesLeaves DEF IInv, NoDescriptorLeak
<1>8. OnlySharedLoseHandles'
  BY <1>1, <1>2, <1>3, ClosesKeeps DEF OnlySharedLoseHandles
<1>9. UnsharedIsAlone'
  BY <1>1, <1>3 DEF IInv, UnsharedIsAlone
<1> QED
  BY <1>4, <1>5, <1>6, <1>7, <1>8, <1>9 DEF IInv

(* Every step keeps the invariant. *)
LEMMA NextIInv == IInv /\ [Next]_vars => IInv'
<1> SUFFICES ASSUME IInv, [Next]_vars PROVE IInv'
  OBVIOUS
<1>1. CASE UNCHANGED vars
  BY <1>1 DEF vars, IInv, TypeOK, NewHasNone, OwnerKnowsNumber, UnsharedIsAlone,
              Unfinished, OnlySharedLoseHandles, NoDescriptorLeak
<1>2. CASE Next
  BY <1>2, OpenIInv, CloseIInv, DestroyIInv DEF Next, Use
<1> QED
  BY <1>1, <1>2

LEMMA Invariance == Spec => []IInv
  BY InitIInv, NextIInv, PTL DEF Spec

-----------------------------------------------------------------------------
(* A file keeps its handle until a close of it throws, unless it was       *)
(* opened under a number that another object still had in m_fd             *)
(* (~EmBufferedWritableFile, EmWritableFile::Close).                       *)
THEOREM HandlesStayOpen == Spec => []OnlySharedLoseHandles
<1>1. IInv => OnlySharedLoseHandles
  BY DEF IInv
<1> QED
  BY <1>1, Invariance, PTL

(* Destroyed objects leave no descriptor behind, unless a close threw.     *)
THEOREM DescriptorsComeBack == Spec => []NoDescriptorLeak
<1>1. IInv => NoDescriptorLeak
  BY DEF IInv
<1> QED
  BY <1>1, Invariance, PTL

(* What a file is opened under such a number for: the object that kept it  *)
(* is between its two destructors, or had a close that threw, or lost its  *)
(* own handle so.                                                          *)
LEMMA SharingStep ==
  ASSUME IInv, Next
  PROVE  \A o \in Objects : o \in shared' \ shared =>
           \E p \in Objects \ {o} : Stale(p) /\ fd[p] = fd'[o]
<1> SUFFICES ASSUME NEW o \in Objects, o \in shared' \ shared
             PROVE  \E p \in Objects \ {o} : Stale(p) /\ fd[p] = fd'[o]
  OBVIOUS
<1>1. PICK t \in Threads : Open(t, o)
  <2>1. PICK t \in Threads, q \in Objects : Open(t, q) \/ Use(t, q)
    BY DEF Next
  <2>2. Open(t, q)
    BY <2>1 DEF Use, CloseOk, CloseFail, DestroyBuffered, Destroy
  <2>3. q = o
    BY <2>2, OpenEffect
  <2> QED
    BY <2>2, <2>3
<1>2. PICK n \in Numbers :
        /\ table[n] = None
        /\ fd' = [fd EXCEPT ![o] = n]
        /\ shared' = shared \union
             (IF \E p \in Unfinished : fd[p] = n THEN {o} ELSE {})
  BY <1>1, OpenEffect
<1>3. PICK p \in Unfinished : fd[p] = n
  BY <1>2
<1>4. p \in Objects /\ p # o
  BY <1>1, OpenEffect, <1>3 DEF Unfinished
<1>5. Stale(p)
  BY <1>2, <1>3, <1>4, NoFdIsNoNumber, DescriptorAssumption
  DEF IInv, OnlySharedLoseHandles, Stale, Unfinished
<1> QED
  BY <1>2, <1>3, <1>4, <1>5 DEF IInv, TypeOK

(* A Close() that succeeds never leaves a number behind that a file is     *)
(* opened under: only a destructor half-way and a close that threw do.     *)
THEOREM SharingBegins == Spec => NumbersSharedWhenStale
<1>1. IInv /\ [Next]_vars =>
        [\A o \in Objects : o \in shared' \ shared =>
           \E p \in Objects \ {o} : Stale(p) /\ fd[p] = fd'[o]]_vars
  BY SharingStep
<1> QED
  BY <1>1, Invariance, PTL DEF Spec, NumbersSharedWhenStale
=============================================================================
