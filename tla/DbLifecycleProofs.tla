------------------------- MODULE DbLifecycleProofs -------------------------
(***************************************************************************)
(* Proofs about DbLifecycle, for any iterators and batches and any number  *)
(* of openings: what the script holds works, nothing is freed twice or     *)
(* lost, and the database goes before its options.  And about Iteration,   *)
(* for any number of loops and pairs: the objects are kept as well when    *)
(* loops use them, a loop that ended holds nothing, and one that says it   *)
(* is done has given every pair.                                           *)
(***************************************************************************)
EXTENDS Iteration, SequenceTheorems, TLAPS

(* Until the collector has a handle, native object, finalizer and handle   *)
(* come and go together; after it, the native object waits for its         *)
(* finalizer.                                                              *)
HandleOk(h) ==
  /\ h \in natives <=> h \in registered
  /\ h \notin collected => (h \in attached <=> h \in registered)
  /\ h \in collected => made[h] # 0 /\ h \notin held

(* The database knows the iterators that are not collected, and one that   *)
(* the script holds keeps it open.                                         *)
IteratorOk(i) ==
  /\ i \notin collected => (i \in attached <=> i \in derivatives)
  /\ i \in held /\ i \in attached =>
       job = "idle" /\ isOpen /\ made[i] = session /\ Db \notin collected

(* Which of the database's native objects live, by what it is doing.       *)
DbOk ==
  /\ Db \in collected => Db \notin held
  /\ isOpen => session # 0
  /\ Db \in registered <=> job = "idle" /\ isOpen
  /\ job = "idle" /\ isOpen => Db \in natives /\ Options \subseteq natives
  /\ job = "idle" /\ ~isOpen => Db \notin natives /\ Options \intersect natives = {}
  /\ job = "opening" => ~isOpen /\ session < MaxSessions
                        /\ (Db \in natives => "opt" \in natives)
  /\ job = "failing" => ~isOpen /\ Db \notin natives
  /\ job \in {"closing", "releasing"} =>
       Options \subseteq natives /\ (Db \in natives <=> isOpen)

IInv ==
  /\ TypeOK
  /\ \A h \in Handles : HandleOk(h)
  /\ \A i \in Iters : IteratorOk(i)
  /\ DbOk
  /\ NoDoubleFree

-----------------------------------------------------------------------------
(* The names of the native objects are apart.                              *)
LEMMA NamesDiffer ==
  /\ Db \notin Options /\ Db \notin Handles
  /\ Options \intersect Handles = {}
  /\ "opt" \in Options
  /\ Iters \subseteq Handles /\ Batches \subseteq Handles
  BY LifecycleAssumption DEF Db, Options, Handles

(* The initial states satisfy the invariant.                               *)
LEMMA InitIInv == Init => IInv
<1> SUFFICES ASSUME Init PROVE IInv
  OBVIOUS
<1> USE LifecycleAssumption, NamesDiffer DEF Init
<1>1. TypeOK
  <2>1. session \in 0 .. MaxSessions /\ made \in [Handles -> Nat]
    OBVIOUS
  <2>2. held \subseteq Handles \union {Db}
    OBVIOUS
  <2> QED
    BY <2>1, <2>2 DEF TypeOK
<1>2. \A h \in Handles : HandleOk(h)
  BY DEF HandleOk
<1>3. \A i \in Iters : IteratorOk(i)
  BY DEF IteratorOk
<1>4. DbOk
  BY DEF DbOk
<1>5. NoDoubleFree
  BY DEF NoDoubleFree
<1> QED
  BY <1>1, <1>2, <1>3, <1>4, <1>5 DEF IInv

(* open() and its steps: no iterator is held meanwhile.                    *)
LEMMA OpeningIInv ==
  ASSUME IInv, Open \/ OpenCreate \/ OpenOk
  PROVE  IInv'
<1> USE NamesDiffer, LifecycleAssumption
<1>1. CASE Open
  BY <1>1 DEF Open, IInv, TypeOK, HandleOk, IteratorOk, DbOk, NoDoubleFree,
              script, native
<1>2. CASE OpenCreate
  <2>1. PICK k \in DOMAIN CreationOrder :
          /\ {CreationOrder[j] : j \in 1 .. k - 1} \subseteq natives
          /\ natives' = natives \union {CreationOrder[k]}
    BY <1>2 DEF OpenCreate
  <2>2. k \in 1 .. 4 /\ CreationOrder[k] \in {Db} \union Options
    BY DEF CreationOrder, Options
  <2>3. CreationOrder[k] = Db => "opt" \in natives
    <3>1. CASE k = 1
      BY <3>1 DEF CreationOrder, Db
    <3>2. CASE k # 1
      <4>1. 1 \in 1 .. k - 1
        BY <2>2, <3>2
      <4>2. CreationOrder[1] \in natives
        BY <2>1, <4>1
      <4> QED
        BY <4>2 DEF CreationOrder
    <3> QED
      BY <3>1, <3>2
  <2> QED
    BY <1>2, <2>1, <2>2, <2>3
    DEF OpenCreate, IInv, TypeOK, HandleOk, IteratorOk, DbOk, NoDoubleFree,
        script, object
<1>3. CASE OpenOk
  <2>1. session' \in 0 .. MaxSessions
    BY <1>3 DEF OpenOk, IInv, TypeOK, DbOk
  <2> QED
    BY <1>3, <2>1
    DEF OpenOk, IInv, TypeOK, HandleOk, IteratorOk, DbOk, NoDoubleFree, script
<1> QED
  BY <1>1, <1>2, <1>3

(* A failed open(): the database first, then the options.                  *)
LEMMA UndoIInv ==
  ASSUME IInv, OpenFail \/ OpenUndo
  PROVE  IInv'
<1> USE NamesDiffer
<1>1. CASE OpenFail
  BY <1>1
  DEF OpenFail, Delete, IInv, TypeOK, HandleOk, IteratorOk, DbOk, NoDoubleFree, script
<1>2. CASE OpenUndo
  BY <1>2
  DEF OpenUndo, Delete, IInv, TypeOK, HandleOk, IteratorOk, DbOk, NoDoubleFree, script
<1> QED
  BY <1>1, <1>2

(* A new handle.                                                           *)
LEMMA NewIInv ==
  ASSUME IInv, NEW h \in Handles,
         (h \in Iters /\ NewIterator(h)) \/ (h \in Batches /\ NewBatch(h))
  PROVE  IInv'
<1> USE NamesDiffer
<1>1. CASE h \in Iters /\ NewIterator(h)
  BY <1>1
  DEF NewIterator, IInv, TypeOK, HandleOk, IteratorOk, DbOk, NoDoubleFree
<1>2. CASE h \in Batches /\ NewBatch(h)
  BY <1>2, LifecycleAssumption
  DEF NewBatch, IInv, TypeOK, HandleOk, IteratorOk, DbOk, NoDoubleFree
<1> QED
  BY <1>1, <1>2

(* free(): the native object lives, since the script holds the handle.     *)
LEMMA FreeIInv ==
  ASSUME IInv, NEW h \in Handles, Free(h)
  PROVE  IInv'
<1> USE NamesDiffer
<1> QED
  BY DEF Free, Delete, IInv, TypeOK, HandleOk, IteratorOk, DbOk, NoDoubleFree, script

(* close(), up to db.close(): no iterator that the script holds is left.   *)
LEMMA CloseIInv ==
  ASSUME IInv, Close
  PROVE  IInv'
<1> USE NamesDiffer
<1> DEFINE live == {i \in derivatives : i \notin collected}
<1>1. /\ attached' = attached \ live
      /\ registered' = registered \ (live \union {Db})
      /\ Delete(live)
  BY DEF Close
<1>2. live \subseteq Iters /\ live \subseteq natives
  BY DEF IInv, TypeOK, HandleOk, IteratorOk
<1>3. \A i \in Iters : i \in live <=> i \notin collected /\ i \in attached
  BY DEF IInv, IteratorOk
<1> HIDE DEF live
<1>4. TypeOK' /\ NoDoubleFree'
  BY <1>1, <1>2 DEF Close, Delete, IInv, TypeOK, NoDoubleFree, script
<1>5. ASSUME NEW h \in Handles PROVE HandleOk(h)'
  BY <1>1, <1>2 DEF Close, Delete, IInv, HandleOk, script
<1>6. ASSUME NEW i \in Iters PROVE IteratorOk(i)'
  BY <1>1, <1>3 DEF Close, IInv, IteratorOk, HandleOk, script
<1>7. DbOk'
  BY <1>1, <1>2 DEF Close, Delete, IInv, DbOk, script
<1> QED
  BY <1>4, <1>5, <1>6, <1>7 DEF IInv

(* The rest of close() and of the finalizer.                               *)
LEMMA ReleaseIInv ==
  ASSUME IInv, ReleaseDb \/ ReleaseOptions
  PROVE  IInv'
<1> USE NamesDiffer
<1>1. CASE ReleaseDb
  BY <1>1
  DEF ReleaseDb, Delete, IInv, TypeOK, HandleOk, IteratorOk, DbOk, NoDoubleFree, script
<1>2. CASE ReleaseOptions
  BY <1>2
  DEF ReleaseOptions, Delete, IInv, TypeOK, HandleOk, IteratorOk, DbOk, NoDoubleFree,
      script
<1> QED
  BY <1>1, <1>2

(* The script lets go, and the collector takes what nobody can reach.      *)
LEMMA CollectIInv ==
  ASSUME IInv, NEW o \in Handles \union {Db}, Drop(o) \/ Collect(o)
  PROVE  IInv'
<1> USE NamesDiffer
<1>1. CASE Drop(o)
  BY <1>1
  DEF Drop, IInv, TypeOK, HandleOk, IteratorOk, DbOk, NoDoubleFree, object, native
<1>2. CASE Collect(o)
  BY <1>2
  DEF Collect, Reachable, IInv, TypeOK, HandleOk, IteratorOk, DbOk, NoDoubleFree,
      object, native
<1> QED
  BY <1>1, <1>2

(* A finalizer frees the native object of what the collector took.         *)
LEMMA FinalizeIInv ==
  ASSUME IInv,
         \/ \E h \in Handles : FinalizeHandle(h)
         \/ \E i \in Iters : FinalizeRef(i)
         \/ FinalizeDb
  PROVE  IInv'
<1> USE NamesDiffer
<1>1. CASE \E h \in Handles : FinalizeHandle(h)
  BY <1>1
  DEF FinalizeHandle, Delete, IInv, TypeOK, HandleOk, IteratorOk, DbOk, NoDoubleFree,
      script, object
<1>2. CASE \E i \in Iters : FinalizeRef(i)
  BY <1>2
  DEF FinalizeRef, IInv, TypeOK, HandleOk, IteratorOk, DbOk, NoDoubleFree, script, native
<1>3. CASE FinalizeDb
  BY <1>3
  DEF FinalizeDb, IInv, TypeOK, HandleOk, IteratorOk, DbOk, NoDoubleFree, script
<1> QED
  BY <1>1, <1>2, <1>3

(* Every step keeps the invariant.                                         *)
LEMMA StepIInv == IInv /\ [Next]_vars => IInv'
<1> SUFFICES ASSUME IInv, [Next]_vars PROVE IInv'
  OBVIOUS
<1>1. CASE UNCHANGED vars
  BY <1>1
  DEF vars, script, object, native, IInv, TypeOK, HandleOk, IteratorOk, DbOk, NoDoubleFree
<1>2. CASE Next
  <2>1. CASE Open \/ OpenCreate \/ OpenOk
    BY <2>1, OpeningIInv
  <2>2. CASE OpenFail \/ OpenUndo
    BY <2>2, UndoIInv
  <2>3. CASE Close
    BY <2>3, CloseIInv
  <2>4. CASE ReleaseDb \/ ReleaseOptions
    BY <2>4, ReleaseIInv
  <2>5. CASE (\E i \in Iters : NewIterator(i)) \/ (\E b \in Batches : NewBatch(b))
    BY <2>5, NewIInv, NamesDiffer
  <2>6. CASE \E h \in Handles : Free(h)
    BY <2>6, FreeIInv
  <2>7. CASE \E o \in Handles \union {Db} : Drop(o) \/ Collect(o)
    BY <2>7, CollectIInv
  <2>8. CASE \/ \E h \in Handles : FinalizeHandle(h)
             \/ \E i \in Iters : FinalizeRef(i)
             \/ FinalizeDb
    BY <2>8, FinalizeIInv
  <2> QED
    BY <1>2, <2>1, <2>2, <2>3, <2>4, <2>5, <2>6, <2>7, <2>8 DEF Next
<1> QED
  BY <1>1, <1>2

(* The invariant has what the properties say.                              *)
LEMMA IInvGivesUse == IInv => HeldHandleIsUsable /\ OptionsOutliveDb
<1> SUFFICES ASSUME IInv PROVE HeldHandleIsUsable /\ OptionsOutliveDb
  OBVIOUS
<1>1. HeldHandleIsUsable
  BY NamesDiffer DEF IInv, TypeOK, HandleOk, IteratorOk, DbOk, HeldHandleIsUsable
<1>2. OptionsOutliveDb
  BY NamesDiffer DEF IInv, TypeOK, DbOk, OptionsOutliveDb
<1> QED
  BY <1>1, <1>2

(* A native handle has its finalizer, and the database's objects theirs.   *)
LEMMA IInvGivesNoLeak == IInv => NothingLeaks
  BY NamesDiffer DEF IInv, TypeOK, HandleOk, DbOk, NothingLeaks, Handles

(* The invariant holds in every behaviour.                                 *)
LEMMA Invariance == Spec => []IInv
  BY InitIInv, StepIInv, PTL DEF Spec

-----------------------------------------------------------------------------
(* Type correctness.                                                       *)
THEOREM TypeCorrect == Spec => []TypeOK
<1>1. IInv => TypeOK
  BY DEF IInv
<1> QED
  BY <1>1, Invariance, PTL

(* HeldHandleIsUsable: free(), close(), the finalizers and the collector   *)
(* take nothing from an iterator or a batch that the script still holds.   *)
THEOREM HandlesWork == Spec => []HeldHandleIsUsable
  BY Invariance, IInvGivesUse, PTL

(* OptionsOutliveDb: LevelDB.open, close and releaseDBState free the       *)
(* database before the options it refers to.                               *)
THEOREM OptionsLast == Spec => []OptionsOutliveDb
  BY Invariance, IInvGivesUse, PTL

(* NoDoubleFree: of free(), close() and the finalizers one at most deletes *)
(* a native object.                                                        *)
THEOREM FreedOnce == Spec => []NoDoubleFree
<1>1. IInv => NoDoubleFree
  BY DEF IInv
<1> QED
  BY <1>1, Invariance, PTL

(* NothingLeaks: between jobs each native object has a finalizer that will *)
(* free it, or belongs to a database that has one.                         *)
THEOREM NothingLost == Spec => []NothingLeaks
  BY Invariance, IInvGivesNoLeak, PTL

(* While close() frees the database, the iterators left are collected ones. *)
CloseFreesIterators == job = "closing" => natives \intersect Iters \subseteq collected

(* "Closing the DB can then release native iterators before destroying     *)
(* their backing database" (iterator()): close() destroys it with no       *)
(* iterator left but those the collector took and has not finalized, which *)
(* is the case db_iterators finds.                                         *)
THEOREM OnlyCollectedOutlive == Spec => []CloseFreesIterators
<1> USE NamesDiffer
<1>1. Init => CloseFreesIterators
  BY DEF Init, CloseFreesIterators
<1>2. IInv /\ CloseFreesIterators /\ [Next]_vars => CloseFreesIterators'
  <2> SUFFICES ASSUME IInv, CloseFreesIterators, [Next]_vars, job' = "closing"
               PROVE  natives' \intersect Iters \subseteq collected'
    BY DEF CloseFreesIterators
  <2>1. CASE Close
    <3>1. \A i \in natives \intersect Iters : i \in derivatives \/ i \in collected
      BY DEF IInv, HandleOk, IteratorOk
    <3> QED
      BY <2>1, <3>1 DEF Close, Delete, script
  <2>2. CASE job = "closing" /\ natives' \subseteq natives /\ collected \subseteq collected'
    BY <2>2 DEF CloseFreesIterators
  <2>3. CASE Next /\ ~Close
    <3>1. job = "closing"
      BY <2>3
      DEF Next, Open, OpenCreate, OpenOk, OpenFail, OpenUndo, ReleaseDb,
          ReleaseOptions, NewIterator, NewBatch, Free, Drop, Collect, FinalizeHandle,
          FinalizeRef, FinalizeDb, object
    <3>2. ReleaseDb \/ ReleaseOptions \/ \E o \in Handles \union {Db} : Collect(o)
      BY <2>3, <3>1
      DEF Next, Open, OpenCreate, OpenOk, OpenFail, OpenUndo, NewIterator, NewBatch,
          Free, Drop, FinalizeHandle, FinalizeRef, FinalizeDb
    <3>3. natives' \subseteq natives /\ collected \subseteq collected'
      BY <3>2 DEF ReleaseDb, ReleaseOptions, Collect, Delete, script, native
    <3> QED
      BY <2>2, <3>1, <3>3
  <2>4. CASE UNCHANGED vars
    BY <2>2, <2>4 DEF vars, script, object, native
  <2> QED
    BY <2>1, <2>3, <2>4
<1> QED
  BY <1>1, <1>2, Invariance, InitIInv, StepIInv, PTL DEF Spec

-----------------------------------------------------------------------------
(* The cursors, whose places are those of a snapshot.                      *)
LoopRecord ==
  [loop : {"none", "running", "done", "threw", "returned"},
   size : 0 .. Pairs, at : 0 .. Pairs, broken : BOOLEAN,
   read : Seq(1 .. Pairs), yielded : Nat]

(* The pairs read, in order; without an error each of them.                *)
InOrder(c) ==
  /\ \A j, k \in 1 .. Len(c.read) : j < k => c.read[j] < c.read[k]
  /\ \A k \in 1 .. Len(c.read) : k <= c.read[k] /\ c.read[k] <= c.size
  /\ ~c.broken => \A k \in 1 .. Len(c.read) : c.read[k] = k

(* The pair the loop is at comes after those it read.                      *)
Ahead(c) ==
  /\ c.at <= c.size
  /\ c.at # 0 => \A k \in 1 .. Len(c.read) : c.read[k] < c.at
  /\ ~c.broken => Len(c.read) = IF c.at = 0 THEN c.size ELSE c.at - 1

(* A loop reads what it yields, and at its end all of it, if all is well.  *)
LoopOk(c) ==
  /\ c \in LoopRecord
  /\ InOrder(c)
  /\ c.loop = "running" => c.yielded = Len(c.read) /\ Ahead(c)
  /\ c.loop = "done" =>
       ~c.broken /\ Len(c.read) = c.size /\ c.yielded = Len(c.read)
  /\ \/ Len(c.read) = c.yielded
     \/ Len(c.read) = c.yielded + 1 /\ c.loop = "threw"

-----------------------------------------------------------------------------
(* Where the native iterator may go.                                       *)
LEMMA MovesTo ==
  ASSUME NEW c \in LoopRecord, NEW d \in Moves(c)
  PROVE  /\ d = [c EXCEPT !.at = d.at, !.broken = d.broken]
         /\ d \in LoopRecord
         /\ d.at \in {0} \union (c.at + 1 .. c.size)
         /\ ~d.broken => ~c.broken /\ d.at = IF c.at = c.size THEN 0 ELSE c.at + 1
<1> DEFINE following == IF c.at = c.size THEN 0 ELSE c.at + 1
           moves == {m \in ({0} \union (c.at + 1 .. c.size)) \X BOOLEAN :
                       m[2] \/ (m[1] = following /\ ~c.broken)}
<1>1. PICK m \in moves : d = [c EXCEPT !.at = m[1], !.broken = m[2]]
  BY Zenon DEF Moves
<1>2. /\ m[1] \in {0} \union (c.at + 1 .. c.size) /\ m[2] \in BOOLEAN
      /\ m[2] \/ (m[1] = following /\ ~c.broken)
  <2>1. m \in ({0} \union (c.at + 1 .. c.size)) \X BOOLEAN
    BY <1>1
  <2> QED
    BY <1>1, <2>1, Zenon
<1> HIDE DEF following
<1>5. d.at = m[1] /\ d.broken = m[2]
  BY <1>1 DEF LoopRecord
<1>6. d = [c EXCEPT !.at = d.at, !.broken = d.broken]
  BY <1>1, <1>5
<1>7. d \in LoopRecord
  <2>1. m[1] \in 0 .. Pairs
    BY <1>2, IterationAssumption DEF LoopRecord
  <2> QED
    BY <1>1, <1>2, <2>1 DEF LoopRecord
<1>8. d.at \in {0} \union (c.at + 1 .. c.size)
  BY <1>2, <1>5
<1>9. ~d.broken => ~c.broken /\ d.at = following
  BY <1>2, <1>5, Zenon
<1> QED
  BY <1>6, <1>7, <1>8, <1>9, Zenon DEF following

(* Sequences of places.                                                    *)
LEMMA PlacesRead ==
  ASSUME NEW s \in Seq(1 .. Pairs)
  PROVE  /\ Len(s) \in Nat
         /\ \A k \in 1 .. Len(s) : s[k] \in Nat
         /\ \A p \in 1 .. Pairs :
              /\ Append(s, p) \in Seq(1 .. Pairs)
              /\ Len(Append(s, p)) = Len(s) + 1
              /\ Append(s, p)[Len(s) + 1] = p
              /\ \A k \in 1 .. Len(s) : Append(s, p)[k] = s[k]
<1>1. Len(s) \in Nat
  OBVIOUS
<1>2. ASSUME NEW k \in 1 .. Len(s) PROVE s[k] \in Nat
  <2>1. s[k] \in 1 .. Pairs
    BY ElementOfSeq
  <2> QED
    BY <2>1, IterationAssumption
<1>3. ASSUME NEW p \in 1 .. Pairs
      PROVE  /\ Append(s, p) \in Seq(1 .. Pairs)
             /\ Len(Append(s, p)) = Len(s) + 1
             /\ Append(s, p)[Len(s) + 1] = p
             /\ \A k \in 1 .. Len(s) : Append(s, p)[k] = s[k]
  OBVIOUS
<1> QED
  BY <1>1, <1>2, <1>3

(* An iterator without a loop.                                             *)
LEMMA NoLoopIs ==
  /\ NoLoop \in LoopRecord
  /\ NoLoop.at = 0 /\ NoLoop.read = <<>> /\ NoLoop.yielded = 0
<1>1. 0 \in 0 .. Pairs /\ <<>> \in Seq(1 .. Pairs)
  BY IterationAssumption
<1> QED
  BY <1>1 DEF NoLoop, LoopRecord

(* A new loop.                                                             *)
LEMMA NewOk ==
  ASSUME NEW n \in 0 .. Pairs,
         NEW d \in Moves([NoLoop EXCEPT !.loop = "running", !.size = n])
  PROVE  LoopOk(d) /\ d.loop = "running"
<1> DEFINE c == [NoLoop EXCEPT !.loop = "running", !.size = n]
<1>1. /\ c \in LoopRecord /\ c.at = 0 /\ c.size = n /\ c.read = <<>>
      /\ c.yielded = 0 /\ c.loop = "running" /\ n \in Nat /\ n <= Pairs
  <2>1. n \in Nat /\ n <= Pairs
    BY IterationAssumption
  <2> QED
    BY <2>1, NoLoopIs DEF LoopRecord
<1> HIDE DEF c
<1>2. d \in Moves(c)
  BY DEF c
<1>3. /\ d = [c EXCEPT !.at = d.at, !.broken = d.broken]
      /\ d \in LoopRecord
      /\ d.at \in {0} \union (c.at + 1 .. c.size)
      /\ ~d.broken => d.at = IF c.at = c.size THEN 0 ELSE c.at + 1
  BY <1>1, <1>2, MovesTo
<1>4. /\ d.size = n /\ d.read = <<>> /\ d.yielded = 0 /\ d.loop = "running"
  BY <1>1, <1>3 DEF LoopRecord
<1>5. Len(d.read) = 0
  BY <1>4
<1> QED
  BY <1>1, <1>3, <1>4, <1>5 DEF LoopOk, InOrder, Ahead

(* Reading the pair the loop is at.                                        *)
LEMMA ReadOk ==
  ASSUME NEW c, LoopOk(c), c.loop = "running", c.at # 0
  PROVE  LET r == Read(c)
         IN  /\ r \in LoopRecord /\ InOrder(r)
             /\ r = [c EXCEPT !.read = r.read]
             /\ Len(r.read) = Len(c.read) + 1
             /\ \A k \in 1 .. Len(r.read) : r.read[k] <= c.at
             /\ ~c.broken => Len(r.read) = c.at
<1> DEFINE r == Read(c)
           n == Len(c.read)
<1>1. /\ c \in LoopRecord /\ c.at \in 1 .. Pairs /\ c.at <= c.size
      /\ c.size \in Nat /\ c.read \in Seq(1 .. Pairs) /\ n \in Nat
  BY IterationAssumption DEF LoopOk, LoopRecord, Ahead
<1>2. r = [c EXCEPT !.read = Append(c.read, c.at)]
  BY DEF Read
<1> HIDE DEF r
<1>3. /\ r \in LoopRecord /\ r.read = Append(c.read, c.at)
      /\ r.size = c.size /\ r.broken = c.broken
  <2>1. Append(c.read, c.at) \in Seq(1 .. Pairs)
    BY <1>1, PlacesRead
  <2> QED
    BY <1>1, <1>2, <2>1 DEF LoopRecord
<1>4. /\ Len(r.read) = n + 1 /\ r.read[n + 1] = c.at
      /\ \A k \in 1 .. n : r.read[k] = c.read[k]
  BY <1>1, <1>3, PlacesRead
<1>5. /\ \A k \in 1 .. n : c.read[k] < c.at /\ k <= c.read[k] /\ c.read[k] <= c.size
      /\ \A j, k \in 1 .. n : j < k => c.read[j] < c.read[k]
      /\ ~c.broken => n = c.at - 1 /\ \A k \in 1 .. n : c.read[k] = k
  BY DEF LoopOk, InOrder, Ahead
<1>6. \A k \in 1 .. n : c.read[k] \in Nat
  BY <1>1, PlacesRead
<1>7. n + 1 <= c.at
  <2>1. CASE n = 0
    BY <1>1, <2>1
  <2>2. CASE n # 0
    <3>1. n \in 1 .. n
      BY <1>1, <2>2
    <3> QED
      BY <1>1, <1>5, <1>6, <3>1
  <2> QED
    BY <2>1, <2>2
<1>8. InOrder(r)
  BY <1>1, <1>3, <1>4, <1>5, <1>6, <1>7 DEF InOrder
<1>9. ASSUME NEW k \in 1 .. Len(r.read) PROVE r.read[k] <= c.at
  <2>1. CASE k \in 1 .. n
    BY <1>1, <1>4, <1>5, <1>6, <2>1
  <2>2. CASE k = n + 1
    BY <1>1, <1>4, <2>2
  <2> QED
    BY <1>1, <1>4, <2>1, <2>2
<1>10. ~c.broken => Len(r.read) = c.at
  BY <1>1, <1>4, <1>5
<1> QED
  BY <1>2, <1>3, <1>4, <1>8, <1>9, <1>10 DEF r

(* Reading it and moving on.                                               *)
LEMMA ReadMoveOk ==
  ASSUME NEW c, LoopOk(c), c.loop = "running", c.at # 0, NEW d \in Moves(Read(c))
  PROVE  /\ d \in LoopRecord /\ InOrder(d)
         /\ d.loop = "running" /\ Len(d.read) = d.yielded + 1
         /\ d.at # 0 => Ahead(d)
         /\ d.at = 0 /\ ~d.broken => Len(d.read) = d.size
<1> DEFINE r == Read(c)
<1>1. /\ r \in LoopRecord /\ InOrder(r)
      /\ r = [c EXCEPT !.read = r.read]
      /\ Len(r.read) = Len(c.read) + 1
      /\ \A k \in 1 .. Len(r.read) : r.read[k] <= c.at
      /\ ~c.broken => Len(r.read) = c.at
  BY ReadOk
<1>2. /\ c \in LoopRecord /\ c.at <= c.size /\ c.yielded = Len(c.read)
  BY DEF LoopOk, Ahead
<1> HIDE DEF r
<1>3. /\ r.at = c.at /\ r.size = c.size /\ r.broken = c.broken
      /\ r.yielded = Len(c.read) /\ r.loop = "running"
  BY <1>1, <1>2 DEF LoopRecord
<1>4. /\ d = [r EXCEPT !.at = d.at, !.broken = d.broken]
      /\ d \in LoopRecord
      /\ d.at \in {0} \union (r.at + 1 .. r.size)
      /\ ~d.broken => ~r.broken /\ d.at = IF r.at = r.size THEN 0 ELSE r.at + 1
  BY <1>1, MovesTo DEF r
<1>5. /\ d.size = c.size /\ d.read = r.read /\ d.yielded = Len(c.read)
      /\ d.loop = "running"
  BY <1>1, <1>3, <1>4 DEF LoopRecord
<1>6. /\ c.at \in Nat /\ c.size \in Nat /\ Len(r.read) \in Nat /\ Len(c.read) \in Nat
      /\ \A k \in 1 .. Len(r.read) : r.read[k] \in Nat
  <2>1. c.at \in Nat /\ c.size \in Nat
    BY <1>2, IterationAssumption DEF LoopRecord
  <2>2. r.read \in Seq(1 .. Pairs) /\ c.read \in Seq(1 .. Pairs)
    BY <1>1, <1>2 DEF LoopRecord
  <2> QED
    BY <2>1, <2>2, PlacesRead
<1>7. InOrder(d)
  BY <1>1, <1>3, <1>4, <1>5 DEF InOrder
<1>8. d.at # 0 => Ahead(d)
  BY <1>1, <1>3, <1>4, <1>5, <1>6 DEF Ahead
<1>9. d.at = 0 /\ ~d.broken => Len(d.read) = d.size
  BY <1>1, <1>3, <1>4, <1>5, <1>6
<1> QED
  BY <1>1, <1>4, <1>5, <1>6, <1>7, <1>8, <1>9

-----------------------------------------------------------------------------
(* Nothing is left of a native iterator; an ended loop has none.           *)
Gone(i) == i \notin natives /\ i \notin registered /\ i \notin derivatives

Loop(i) ==
  /\ LoopOk(cursor[i])
  /\ cursor[i].loop # "none" => made[i] # 0
  /\ Ended(i) => Gone(i)

LoopInv ==
  /\ IInv
  /\ cursor \in [Iters -> LoopRecord]
  /\ \A i \in Iters : Loop(i)

(* No handle is made a second time.                                        *)
LEMMA MadeOnce ==
  ASSUME IInv, [Next]_vars, NEW i \in Iters, made[i] # 0
  PROVE  made'[i] # 0 /\ (Gone(i) => Gone(i)')
<1> USE NamesDiffer, LifecycleAssumption DEF Gone
<1>1. CASE UNCHANGED vars
  BY <1>1 DEF vars, object, native
<1>2. CASE Open \/ OpenOk \/ OpenFail \/ OpenUndo \/ ReleaseDb \/ ReleaseOptions
  BY <1>2 DEF Open, OpenOk, OpenFail, OpenUndo, ReleaseDb, ReleaseOptions, Delete, native
<1>3. CASE OpenCreate
  <2>1. PICK k \in DOMAIN CreationOrder : natives' = natives \union {CreationOrder[k]}
    BY <1>3 DEF OpenCreate
  <2>2. k \in 1 .. 4 /\ CreationOrder[k] \in {Db} \union Options
    BY DEF CreationOrder, Options
  <2> QED
    BY <1>3, <2>1, <2>2 DEF OpenCreate, object
<1>4. CASE Close
  BY <1>4 DEF Close, Delete
<1>5. CASE \E h \in Iters : NewIterator(h)
  BY <1>5 DEF NewIterator, IInv, TypeOK
<1>6. CASE \E h \in Batches : NewBatch(h)
  BY <1>6 DEF NewBatch, IInv, TypeOK
<1>7. CASE \E h \in Handles : Free(h) \/ FinalizeHandle(h)
  BY <1>7 DEF Free, FinalizeHandle, Delete, object
<1>8. CASE \/ \E h \in Iters : FinalizeRef(h)
           \/ \E o \in Handles \union {Db} : Drop(o) \/ Collect(o)
           \/ FinalizeDb
  BY <1>8 DEF FinalizeRef, Drop, Collect, FinalizeDb, object, native
<1> QED
  BY <1>1, <1>2, <1>3, <1>4, <1>5, <1>6, <1>7, <1>8 DEF Next

(* A step of one loop that is also one of DbLifecycle.                     *)
LEMMA LoopBecomes ==
  ASSUME LoopInv, [Next]_vars, NEW i \in Iters, NEW c, LoopOk(c), Becomes(i, c),
         c.loop # "none" => made'[i] # 0,
         c.loop \in {"done", "threw", "returned"} => Gone(i)'
  PROVE  LoopInv'
<1>1. c \in LoopRecord /\ IInv /\ cursor \in [Iters -> LoopRecord]
  BY DEF LoopOk, LoopInv
<1>2. cursor' = [cursor EXCEPT ![i] = c]
  BY DEF Becomes
<1>3. IInv'
  BY <1>1, StepIInv
<1>4. cursor' \in [Iters -> LoopRecord]
  BY <1>1, <1>2
<1>5. ASSUME NEW j \in Iters PROVE Loop(j)'
  <2>1. CASE j = i
    <3>1. cursor'[j] = c
      BY <1>1, <1>2, <2>1
    <3> QED
      BY <2>1, <3>1 DEF Loop, Ended
  <2>2. CASE j # i
    <3>1. cursor'[j] = cursor[j] /\ Loop(j)
      BY <1>1, <1>2, <2>2 DEF LoopInv
    <3>2. made[j] # 0 => made'[j] # 0 /\ (Gone(j) => Gone(j)')
      BY <1>1, MadeOnce
    <3>3. Ended(j) => made[j] # 0
      BY <3>1 DEF Loop, Ended
    <3>4. Ended(j)' <=> Ended(j)
      BY <3>1 DEF Ended
    <3> QED
      BY <3>1, <3>2, <3>3, <3>4 DEF Loop
  <2> QED
    BY <2>1, <2>2
<1> QED
  BY <1>3, <1>4, <1>5 DEF LoopInv

(* What a running loop's steps start from.                                 *)
LEMMA RunningFacts ==
  ASSUME LoopInv, NEW i \in Iters, Running(i)
  PROVE  /\ LoopOk(cursor[i]) /\ cursor[i].loop = "running" /\ made[i] # 0
         /\ i \notin attached => Gone(i)
  BY NamesDiffer
  DEF LoopInv, Loop, Running, Gone, IInv, TypeOK, HandleOk, IteratorOk

(* free() of the iterator of a loop.                                       *)
LEMMA FreeIsStep ==
  ASSUME NEW i \in Iters, Free(i)
  PROVE  [Next]_vars /\ Gone(i)' /\ made' = made
<1>1. i \in Handles
  BY NamesDiffer
<1>2. Next
  BY <1>1 DEF Next
<1>3. Gone(i)' /\ made' = made
  BY DEF Free, Delete, Gone
<1> QED
  BY <1>2, <1>3

(* A step of the loop alone.                                               *)
LEMMA SameIsStep ==
  ASSUME UNCHANGED vars, NEW i \in Iters
  PROVE  [Next]_vars /\ made' = made /\ (Gone(i) => Gone(i)')
  BY DEF vars, object, native, Gone

(* A loop that ends keeps what it read.                                    *)
LEMMA EndOk ==
  ASSUME NEW c \in LoopRecord, InOrder(c), NEW how \in {"done", "threw"},
         \/ Len(c.read) = c.yielded
         \/ Len(c.read) = c.yielded + 1 /\ how = "threw",
         how = "done" => ~c.broken /\ Len(c.read) = c.size
  PROVE  LoopOk(End(c, how)) /\ End(c, how).loop = how
<1> DEFINE e == End(c, how)
<1>1. e = [c EXCEPT !.loop = how, !.at = 0]
  BY DEF End
<1>2. /\ e \in LoopRecord /\ e.loop = how /\ e.read = c.read /\ e.size = c.size
      /\ e.broken = c.broken /\ e.yielded = c.yielded
  <2>1. 0 \in 0 .. Pairs
    BY IterationAssumption
  <2> QED
    BY <1>1, <2>1 DEF LoopRecord
<1> HIDE DEF e
<1>3. InOrder(e)
  BY <1>2 DEF InOrder
<1>4. LoopOk(e)
  BY <1>2, <1>3 DEF LoopOk
<1> QED
  BY <1>2, <1>4 DEF e

(* Returning the pair that was read.                                       *)
LEMMA YieldOk ==
  ASSUME NEW c \in LoopRecord, InOrder(c), Len(c.read) = c.yielded + 1
  PROVE  LET y == Yield(c)
         IN  /\ y \in LoopRecord /\ InOrder(y) /\ Len(y.read) = y.yielded
             /\ y.read = c.read /\ y.size = c.size /\ y.broken = c.broken
             /\ y.at = c.at /\ y.loop = c.loop
<1> DEFINE y == Yield(c)
<1>1. y = [c EXCEPT !.yielded = c.yielded + 1]
  BY DEF Yield
<1>2. /\ y \in LoopRecord /\ y.loop = c.loop /\ y.read = c.read /\ y.size = c.size
      /\ y.broken = c.broken /\ y.yielded = c.yielded + 1 /\ y.at = c.at
  BY <1>1 DEF LoopRecord
<1> HIDE DEF y
<1>3. InOrder(y)
  BY <1>2 DEF InOrder
<1> QED
  BY <1>2, <1>3 DEF y

-----------------------------------------------------------------------------
(* A loop over a new iterator.                                             *)
LEMMA NewLoopInv ==
  ASSUME LoopInv, NEW i \in Iters, NewLoop(i)
  PROVE  LoopInv'
<1>1. PICK n \in 0 .. Pairs :
        \E c \in Moves([NoLoop EXCEPT !.loop = "running", !.size = n]) : Becomes(i, c)
  BY DEF NewLoop
<1>2. PICK c \in Moves([NoLoop EXCEPT !.loop = "running", !.size = n]) : Becomes(i, c)
  BY <1>1
<1>3. LoopOk(c) /\ c.loop = "running"
  BY NewOk
<1>4. NewIterator(i) /\ [Next]_vars
  BY DEF NewLoop, Next
<1>5. made'[i] # 0
  <2>1. isOpen /\ session # 0
    BY <1>4 DEF NewIterator, LoopInv, IInv, DbOk
  <2> QED
    BY <1>4, <2>1, NamesDiffer DEF NewIterator, LoopInv, IInv, TypeOK
<1> QED
  BY <1>2, <1>3, <1>4, <1>5, LoopBecomes

(* The end of the loop: freed, one way or another.                         *)
LEMMA EndsInv ==
  ASSUME LoopInv, NEW i \in Iters,
         NextFreed(i) \/ NextEnd(i) \/ NextThrows(i) \/ Return(i)
  PROVE  LoopInv'
<1>1. Running(i)
  BY DEF NextFreed, NextEnd, NextThrows, Return
<1>2. /\ LoopOk(cursor[i]) /\ cursor[i].loop = "running" /\ made[i] # 0
      /\ i \notin attached => Gone(i)
  BY <1>1, RunningFacts
<1>3. /\ cursor[i] \in LoopRecord /\ InOrder(cursor[i]) /\ Ahead(cursor[i])
      /\ Len(cursor[i].read) = cursor[i].yielded
  BY <1>2 DEF LoopOk
<1>4. CASE NextFreed(i)
  <2>1. [Next]_vars /\ made' = made /\ Gone(i)'
    BY <1>2, <1>4, SameIsStep DEF NextFreed
  <2>2. LoopOk(End(cursor[i], "threw")) /\ End(cursor[i], "threw").loop = "threw"
    BY <1>3, EndOk
  <2> QED
    BY <1>2, <1>4, <2>1, <2>2, LoopBecomes DEF NextFreed
<1>5. CASE NextEnd(i)
  <2> DEFINE how == IF cursor[i].broken THEN "threw" ELSE "done"
  <2>1. [Next]_vars /\ made' = made /\ Gone(i)'
    BY <1>5, FreeIsStep DEF NextEnd
  <2>2. cursor[i].at = 0
    BY <1>5 DEF NextEnd
  <2>3. how = "done" => ~cursor[i].broken
    BY Zenon
  <2>4. ~cursor[i].broken => Len(cursor[i].read) = cursor[i].size
    BY <1>3, <2>2 DEF Ahead
  <2>5. how \in {"done", "threw"}
    OBVIOUS
  <2>6. Becomes(i, End(cursor[i], how))
    BY <1>5 DEF NextEnd
  <2> HIDE DEF how
  <2>7. LoopOk(End(cursor[i], how)) /\ End(cursor[i], how).loop = how
    BY <1>3, <2>3, <2>4, <2>5, EndOk
  <2> QED
    BY <1>2, <2>1, <2>5, <2>6, <2>7, LoopBecomes
<1>6. CASE NextThrows(i)
  <2>1. [Next]_vars /\ made' = made /\ Gone(i)'
    BY <1>6, FreeIsStep DEF NextThrows
  <2>2. PICK c \in {cursor[i], Read(cursor[i])} : Becomes(i, End(c, "threw"))
    BY <1>6 DEF NextThrows
  <2>3. cursor[i].at # 0
    BY <1>6 DEF NextThrows
  <2>4. LoopOk(End(c, "threw")) /\ End(c, "threw").loop = "threw"
    <3>1. CASE c = cursor[i]
      BY <1>3, <3>1, EndOk
    <3>2. CASE c = Read(cursor[i])
      <4>1. /\ c \in LoopRecord /\ InOrder(c) /\ Len(c.read) = Len(cursor[i].read) + 1
            /\ c = [cursor[i] EXCEPT !.read = c.read]
        BY <1>2, <2>3, <3>2, ReadOk
      <4>2. c.yielded = cursor[i].yielded
        BY <1>3, <4>1 DEF LoopRecord
      <4> QED
        BY <1>3, <4>1, <4>2, EndOk
    <3> QED
      BY <2>2, <3>1, <3>2
  <2> QED
    BY <1>2, <2>1, <2>2, <2>4, LoopBecomes
<1>7. CASE Return(i)
  <2>1. [Next]_vars /\ made' = made /\ Gone(i)'
    BY <1>2, <1>7, FreeIsStep, SameIsStep DEF Return
  <2>2. LoopOk(Left) /\ Left.loop = "returned"
    <3>1. /\ Left \in LoopRecord /\ Left.read = <<>> /\ Left.loop = "returned"
          /\ Left.yielded = 0
      BY NoLoopIs DEF Left, LoopRecord
    <3>2. Len(Left.read) = 0
      BY <3>1
    <3> QED
      BY <3>1, <3>2 DEF LoopOk, InOrder
  <2> QED
    BY <1>2, <1>7, <2>1, <2>2, LoopBecomes DEF Return
<1> QED
  BY <1>4, <1>5, <1>6, <1>7

(* The first move throws: the name of the iterator is used up.             *)
LEMMA NewThrowsInv ==
  ASSUME LoopInv, NEW i \in Iters, NewLoopThrows(i)
  PROVE  LoopInv'
<1> USE NamesDiffer
<1>1. /\ isOpen /\ session # 0 /\ made[i] = 0 /\ made' = [made EXCEPT ![i] = session]
      /\ made \in [Handles -> Nat] /\ session \in 0 .. MaxSessions /\ IInv
  BY DEF NewLoopThrows, LoopInv, IInv, DbOk, TypeOK
<1>2. /\ UNCHANGED <<held, collected, job, isOpen, session, attached, derivatives>>
      /\ UNCHANGED <<registered, natives, badFree, cursor>>
  BY DEF NewLoopThrows, script, native
<1>3. made' \in [Handles -> Nat]
  BY <1>1, LifecycleAssumption
<1>4. TypeOK' /\ NoDoubleFree' /\ DbOk'
  BY <1>1, <1>2, <1>3 DEF IInv, TypeOK, NoDoubleFree, DbOk
<1>5. ASSUME NEW h \in Handles PROVE HandleOk(h)'
  BY <1>1, <1>2 DEF IInv, HandleOk
<1>6. ASSUME NEW j \in Iters PROVE IteratorOk(j)'
  BY <1>1, <1>2 DEF IInv, IteratorOk
<1>7. ASSUME NEW j \in Iters PROVE Loop(j)'
  BY <1>1, <1>2 DEF LoopInv, Loop, LoopOk, Ended, Gone
<1> QED
  BY <1>2, <1>4, <1>5, <1>6, <1>7 DEF LoopInv, IInv

(* A pair with another after it.                                           *)
LEMMA NextPairInv ==
  ASSUME LoopInv, NEW i \in Iters, NextPair(i)
  PROVE  LoopInv'
<1>1. Running(i) /\ cursor[i].at # 0 /\ UNCHANGED vars
  BY DEF NextPair
<1>2. LoopOk(cursor[i]) /\ cursor[i].loop = "running" /\ made[i] # 0
  BY <1>1, RunningFacts
<1>3. PICK c \in Moves(Read(cursor[i])) : c.at # 0 /\ Becomes(i, Yield(c))
  BY DEF NextPair
<1>4. /\ c \in LoopRecord /\ InOrder(c) /\ c.loop = "running"
      /\ Len(c.read) = c.yielded + 1 /\ Ahead(c)
  BY <1>1, <1>2, <1>3, ReadMoveOk
<1> DEFINE y == Yield(c)
<1>5. /\ y \in LoopRecord /\ InOrder(y) /\ Len(y.read) = y.yielded
      /\ y.read = c.read /\ y.size = c.size /\ y.broken = c.broken
      /\ y.at = c.at /\ y.loop = c.loop
  BY <1>4, YieldOk
<1> HIDE DEF y
<1>6. Ahead(y)
  BY <1>4, <1>5 DEF Ahead
<1>7. LoopOk(y) /\ y.loop = "running"
  BY <1>4, <1>5, <1>6 DEF LoopOk
<1>8. [Next]_vars /\ made' = made
  BY <1>1, SameIsStep
<1>9. Becomes(i, y)
  BY <1>3 DEF y
<1> QED
  BY <1>2, <1>7, <1>8, <1>9, LoopBecomes

(* The last pair, or the error in its place.                               *)
LEMMA NextLastInv ==
  ASSUME LoopInv, NEW i \in Iters, NextLast(i)
  PROVE  LoopInv'
<1>1. Running(i) /\ cursor[i].at # 0 /\ Free(i)
  BY DEF NextLast
<1>2. LoopOk(cursor[i]) /\ cursor[i].loop = "running" /\ made[i] # 0
  BY <1>1, RunningFacts
<1>3. PICK c \in Moves(Read(cursor[i])) :
        /\ c.at = 0
        /\ Becomes(i, IF c.broken THEN End(c, "threw") ELSE End(Yield(c), "done"))
  BY DEF NextLast
<1>4. /\ c \in LoopRecord /\ InOrder(c) /\ Len(c.read) = c.yielded + 1
      /\ ~c.broken => Len(c.read) = c.size
  BY <1>1, <1>2, <1>3, ReadMoveOk
<1>5. [Next]_vars /\ Gone(i)' /\ made' = made
  BY <1>1, FreeIsStep
<1>6. CASE c.broken
  <2>1. LoopOk(End(c, "threw"))
    BY <1>4, EndOk
  <2>2. Becomes(i, End(c, "threw"))
    BY <1>3, <1>6, Zenon
  <2> QED
    BY <1>2, <1>5, <2>1, <2>2, LoopBecomes
<1>7. CASE ~c.broken
  <2> DEFINE y == Yield(c)
  <2>1. /\ y \in LoopRecord /\ InOrder(y) /\ Len(y.read) = y.yielded
        /\ y.read = c.read /\ y.size = c.size /\ y.broken = c.broken
    BY <1>4, YieldOk
  <2> HIDE DEF y
  <2>2. ~y.broken /\ Len(y.read) = y.size
    <3>1. ~y.broken
      BY <1>7, <2>1, Zenon
    <3>2. Len(c.read) = c.size
      BY <1>4, <1>7, Zenon
    <3> QED
      BY <2>1, <3>1, <3>2
  <2>3. LoopOk(End(y, "done"))
    BY <2>1, <2>2, EndOk
  <2>4. Becomes(i, End(y, "done"))
    BY <1>3, <1>7, Zenon DEF y
  <2> QED
    BY <1>2, <1>5, <2>3, <2>4, LoopBecomes
<1> QED
  BY <1>6, <1>7

(* A step of DbLifecycle leaves the loops where they are.                  *)
LEMMA OtherInv ==
  ASSUME LoopInv, [Next]_vars, UNCHANGED cursor
  PROVE  LoopInv'
<1>1. IInv /\ IInv'
  BY StepIInv DEF LoopInv
<1>2. ASSUME NEW j \in Iters PROVE Loop(j)'
  <2>1. Loop(j) /\ cursor'[j] = cursor[j]
    BY DEF LoopInv
  <2>2. made[j] # 0 => made'[j] # 0 /\ (Gone(j) => Gone(j)')
    BY <1>1, MadeOnce
  <2> QED
    BY <2>1, <2>2 DEF Loop, Ended
<1> QED
  BY <1>1, <1>2 DEF LoopInv

(* There are no loops at first.                                            *)
LEMMA InitLoopInv == IterationInit => LoopInv
<1> SUFFICES ASSUME IterationInit PROVE LoopInv
  OBVIOUS
<1>1. IInv /\ cursor = [i \in Iters |-> NoLoop]
  BY InitIInv DEF IterationInit
<1>2. LoopOk(NoLoop) /\ NoLoop.loop = "none"
  <2>1. NoLoop.loop = "none" /\ Len(NoLoop.read) = 0
    BY NoLoopIs DEF NoLoop
  <2> QED
    BY <2>1, NoLoopIs DEF LoopOk, InOrder
<1>3. \A i \in Iters : Loop(i)
  BY <1>1, <1>2 DEF Loop, Ended
<1> QED
  BY <1>1, <1>3, NoLoopIs DEF LoopInv

(* Every step keeps the invariant.                                         *)
LEMMA StepLoopInv == LoopInv /\ [IterationNext]_<<vars, cursor>> => LoopInv'
<1> SUFFICES ASSUME LoopInv, [IterationNext]_<<vars, cursor>> PROVE LoopInv'
  OBVIOUS
<1>1. CASE UNCHANGED <<vars, cursor>>
  BY <1>1, OtherInv
<1>2. CASE Next /\ UNCHANGED cursor
  BY <1>2, OtherInv
<1>3. ASSUME NEW i \in Iters, LoopStep(i) PROVE LoopInv'
  <2>1. CASE NewLoop(i)
    BY <2>1, NewLoopInv
  <2>2. CASE NewLoopThrows(i)
    BY <2>2, NewThrowsInv
  <2>3. CASE NextFreed(i) \/ NextEnd(i) \/ NextThrows(i) \/ Return(i)
    BY <2>3, EndsInv
  <2>4. CASE NextPair(i)
    BY <2>4, NextPairInv
  <2>5. CASE NextLast(i)
    BY <2>5, NextLastInv
  <2> QED
    BY <1>3, <2>1, <2>2, <2>3, <2>4, <2>5 DEF LoopStep
<1> QED
  BY <1>1, <1>2, <1>3 DEF IterationNext

(* What the invariant says of one loop.                                    *)
LEMMA LoopSays ==
  ASSUME LoopInv, NEW i \in Iters
  PROVE  LET c == cursor[i]
         IN  /\ LoopOk(c) /\ c.read \in Seq(1 .. Pairs) /\ Len(c.read) \in Nat
             /\ DOMAIN c.read = 1 .. Len(c.read)
             /\ Len(c.read) <= Pairs /\ c.yielded \in 0 .. Pairs
<1> DEFINE c == cursor[i]
           n == Len(c.read)
<1>1. LoopOk(c) /\ c \in LoopRecord
  BY DEF LoopInv, Loop
<1>2. c.read \in Seq(1 .. Pairs) /\ c.size \in 0 .. Pairs /\ c.yielded \in Nat
  BY <1>1 DEF LoopRecord
<1>3. n \in Nat /\ DOMAIN c.read = 1 .. n /\ \A k \in 1 .. n : c.read[k] \in Nat
  BY <1>2, PlacesRead
<1>4. n <= Pairs
  <2>1. CASE n = 0
    BY <2>1, IterationAssumption
  <2>2. CASE n # 0
    <3>1. n \in 1 .. n
      BY <1>3, <2>2
    <3>2. n <= c.read[n] /\ c.read[n] <= c.size
      BY <1>1, <3>1 DEF LoopOk, InOrder
    <3> QED
      BY <1>2, <1>3, <3>1, <3>2, IterationAssumption
  <2> QED
    BY <2>1, <2>2
<1>5. n = c.yielded \/ n = c.yielded + 1
  BY <1>1 DEF LoopOk
<1>6. c.yielded \in 0 .. Pairs
  BY <1>2, <1>3, <1>4, <1>5, IterationAssumption
<1> QED
  BY <1>1, <1>2, <1>3, <1>4, <1>6

(* The invariant has what the properties say.                              *)
LEMMA LoopInvGives ==
  LoopInv => IterationTypeOK /\ DoneMeansComplete /\ AtMostOnePairLost /\ EndedMeansFreed
<1> SUFFICES ASSUME LoopInv
             PROVE  /\ IterationTypeOK /\ DoneMeansComplete
                    /\ AtMostOnePairLost /\ EndedMeansFreed
  OBVIOUS
<1>1. TypeOK /\ cursor \in [Iters -> LoopRecord]
  BY DEF LoopInv, IInv
<1>2. IterationTypeOK
  <2>1. ASSUME NEW i \in Iters
        PROVE  cursor[i] \in [loop : {"none", "running", "done", "threw", "returned"},
                              size : 0 .. Pairs, at : 0 .. Pairs, broken : BOOLEAN,
                              read : Seq(1 .. Pairs), yielded : 0 .. Pairs]
    <3>1. cursor[i].yielded \in 0 .. Pairs
      BY LoopSays
    <3>2. cursor[i] \in LoopRecord
      BY <1>1
    <3> QED
      BY <3>1, <3>2 DEF LoopRecord
  <2> QED
    BY <1>1, <2>1 DEF IterationTypeOK
<1>3. ASSUME NEW i \in Iters, cursor[i].loop = "done"
      PROVE  /\ cursor[i].read = [k \in 1 .. cursor[i].size |-> k]
             /\ cursor[i].yielded = cursor[i].size
  <2> DEFINE c == cursor[i]
  <2>1. /\ LoopOk(c) /\ c.read \in Seq(1 .. Pairs) /\ DOMAIN c.read = 1 .. Len(c.read)
    BY LoopSays
  <2>2. ~c.broken /\ Len(c.read) = c.size /\ c.yielded = Len(c.read)
    BY <1>3, <2>1 DEF LoopOk
  <2>3. \A k \in 1 .. c.size : c.read[k] = k
    BY <2>1, <2>2 DEF LoopOk, InOrder
  <2>4. c.read = [k \in 1 .. Len(c.read) |-> c.read[k]]
    BY <2>1
  <2> QED
    BY <2>2, <2>3, <2>4
<1>4. DoneMeansComplete
  BY <1>3 DEF DoneMeansComplete
<1>5. ASSUME NEW i \in Iters
      PROVE  LET c == cursor[i]
             IN  /\ \A j, k \in DOMAIN c.read : j < k => c.read[j] < c.read[k]
                 /\ ~c.broken => c.read = [k \in DOMAIN c.read |-> k]
                 /\ \/ Len(c.read) = c.yielded
                    \/ Len(c.read) = c.yielded + 1 /\ c.loop = "threw"
  <2> DEFINE c == cursor[i]
  <2>1. /\ LoopOk(c) /\ c.read \in Seq(1 .. Pairs) /\ DOMAIN c.read = 1 .. Len(c.read)
    BY LoopSays
  <2>2. \A j, k \in DOMAIN c.read : j < k => c.read[j] < c.read[k]
    BY <2>1 DEF LoopOk, InOrder
  <2>3. ASSUME ~c.broken PROVE c.read = [k \in DOMAIN c.read |-> k]
    <3>1. \A k \in DOMAIN c.read : c.read[k] = k
      BY <2>1, <2>3 DEF LoopOk, InOrder
    <3>2. c.read = [k \in DOMAIN c.read |-> c.read[k]]
      BY <2>1
    <3> QED
      BY <3>1, <3>2
  <2>4. Len(c.read) = c.yielded \/ (Len(c.read) = c.yielded + 1 /\ c.loop = "threw")
    BY <2>1 DEF LoopOk
  <2> QED
    BY <2>2, <2>3, <2>4
<1>6. AtMostOnePairLost
  BY <1>5 DEF AtMostOnePairLost
<1>7. EndedMeansFreed
  BY DEF EndedMeansFreed, LoopInv, Loop, Gone
<1> QED
  BY <1>2, <1>4, <1>6, <1>7

(* The invariant holds in every behaviour.                                 *)
LEMMA LoopsInvariant == IterationSpec => []LoopInv
  BY InitLoopInv, StepLoopInv, PTL DEF IterationSpec

-----------------------------------------------------------------------------
(* Type correctness.                                                       *)
THEOREM LoopsTypeCorrect == IterationSpec => []IterationTypeOK
  BY LoopsInvariant, LoopInvGives, PTL

(* DoneMeansComplete: a loop that ends without an exception has given the  *)
(* script every pair, whatever close(), the collector and unreadable       *)
(* blocks do (LevelDBIterator.next).                                       *)
THEOREM LoopsComplete == IterationSpec => []DoneMeansComplete
  BY LoopsInvariant, LoopInvGives, PTL

(* AtMostOnePairLost: pairs come in order, and at most the last one read   *)
(* before next() throws is lost.                                           *)
THEOREM PairsInOrder == IterationSpec => []AtMostOnePairLost
  BY LoopsInvariant, LoopInvGives, PTL

(* EndedMeansFreed: next() and return() leave no native iterator behind.   *)
THEOREM LoopsFreed == IterationSpec => []EndedMeansFreed
  BY LoopsInvariant, LoopInvGives, PTL

(* The objects of DbLifecycle are used, freed and kept as well when the    *)
(* iterators belong to loops.                                              *)
THEOREM LoopsKeepObjects ==
  IterationSpec =>
    [](HeldHandleIsUsable /\ OptionsOutliveDb /\ NoDoubleFree /\ NothingLeaks)
<1>1. LoopInv => HeldHandleIsUsable /\ OptionsOutliveDb /\ NoDoubleFree /\ NothingLeaks
  BY IInvGivesUse, IInvGivesNoLeak DEF LoopInv, IInv
<1> QED
  BY <1>1, LoopsInvariant, PTL
=============================================================================
