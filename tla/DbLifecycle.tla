---------------------------- MODULE DbLifecycle ----------------------------
(***************************************************************************)
(* A LevelDB object, its options, its iterators and the write batches it   *)
(* is given: which native (C++) objects live while the script opens and    *)
(* closes the database, calls it, creates, frees and forgets iterators and *)
(* batches, and while the garbage collector clears WeakRefs and queues     *)
(* finalizers at moments of its own.                                       *)
(*                                                                         *)
(* JavaScript runs one job at a time: open, close and each finalizer run   *)
(* to their end before another starts, but the collector may work in       *)
(* between their steps.  Options made for one call are freed before it     *)
(* returns and are left out, and so are the finalizers of the options      *)
(* themselves: until they are freed open(), this, or the value registered  *)
(* with the database's finalizer refers to them.                           *)
(***************************************************************************)
EXTENDS Naturals, FiniteSets

CONSTANTS
  Iters,       \* LevelDBIteratorBase objects
  Batches,     \* LevelDBWriteBatch objects
  MaxSessions  \* bound of the model: successful calls of open()

(* The LevelDB object, which is also the name of the native database.      *)
Db == "db"
Options == {"opt", "defaultReadOpt", "defaultWriteOpt"}
Handles == Iters \union Batches

ASSUME LifecycleAssumption ==
  /\ MaxSessions \in Nat
  /\ Handles \intersect ({Db} \union Options) = {}
  /\ Iters \intersect Batches = {}

VARIABLES
  held,         \* the JavaScript objects the script refers to
  collected,    \* the JavaScript objects the collector reclaimed
  job,          \* "idle", "opening", "failing", "closing" or "releasing"
  isOpen,       \* this.db is not null
  session,      \* how many times open() has succeeded
  made,         \* for each handle, the session it was made in, or 0
  attached,     \* the handles whose iter (and owner), or batch, is not null
  derivatives,  \* the iterators whose WeakRef is in this.derivatives
  registered,   \* the objects whose finalizer is registered or queued
  natives,      \* the native objects that live
  badFree       \* history: a native object was deleted twice

script == <<held, collected>>
object == <<job, isOpen, session, made, attached, derivatives>>
native == <<registered, natives, badFree>>
vars == <<script, object, native>>

Init ==
  /\ held = {Db} /\ collected = {}
  /\ job = "idle" /\ isOpen = FALSE /\ session = 0
  /\ made = [h \in Handles |-> 0]
  /\ attached = {} /\ derivatives = {}
  /\ registered = {} /\ natives = {} /\ badFree = FALSE

Delete(objects) ==
  /\ natives' = natives \ objects
  /\ badFree' = (badFree \/ ~(objects \subseteq natives))

-----------------------------------------------------------------------------
(* open(): the options, the database, the default options. *)
Open ==
  /\ job = "idle" /\ Db \in held /\ ~isOpen /\ session < MaxSessions
  /\ job' = "opening"
  /\ UNCHANGED <<script, isOpen, session, made, attached, derivatives, native>>

CreationOrder == <<"opt", Db, "defaultWriteOpt", "defaultReadOpt">>

OpenCreate ==
  /\ job = "opening"
  /\ \E k \in DOMAIN CreationOrder :
       /\ {CreationOrder[j] : j \in 1 .. k - 1} \subseteq natives
       /\ CreationOrder[k] \notin natives
       /\ natives' = natives \union {CreationOrder[k]}
  /\ UNCHANGED <<script, object, registered, badFree>>

OpenOk ==
  /\ job = "opening" /\ {Db} \union Options \subseteq natives
  /\ job' = "idle" /\ isOpen' = TRUE /\ session' = session + 1
  /\ registered' = registered \union {Db}
  /\ UNCHANGED <<script, made, attached, derivatives, natives, badFree>>

(* Mutants: a definition named Bad... is the next one with a bug.  No       *)
(* specification uses it; it shows that a property would notice the bug.   *)
BadOpenFail ==  \* the options go first
  /\ job = "opening"
  /\ Delete(Options \intersect natives)
  /\ job' = "failing"
  /\ UNCHANGED <<script, isOpen, session, made, attached, derivatives, registered>>

BadOpenForget ==  \* the database, which has no finalizer yet, is forgotten
  /\ job = "opening"
  /\ job' = "failing"
  /\ UNCHANGED <<script, isOpen, session, made, attached, derivatives, native>>

(* One of the constructors or DB::Open threw: what exists is freed, the    *)
(* database first.                                                         *)
OpenFail ==
  /\ job = "opening"
  /\ Delete({Db} \intersect natives)
  /\ job' = "failing"
  /\ UNCHANGED <<script, isOpen, session, made, attached, derivatives, registered>>

OpenUndo ==
  /\ job = "failing"
  /\ Delete(Options \intersect natives)
  /\ job' = "idle"
  /\ UNCHANGED <<script, isOpen, session, made, attached, derivatives, registered>>

-----------------------------------------------------------------------------
NewIterator(i) ==
  /\ job = "idle" /\ Db \in held /\ isOpen /\ made[i] = 0
  /\ made' = [made EXCEPT ![i] = session]
  /\ natives' = natives \union {i}
  /\ registered' = registered \union {i}
  /\ attached' = attached \union {i}
  /\ derivatives' = derivatives \union {i}
  /\ held' = held \union {i}
  /\ UNCHANGED <<collected, job, isOpen, session, badFree>>

(* The constructor; batch() too, which frees the batch again if it throws. *)
NewBatch(b) ==
  /\ job = "idle" /\ made[b] = 0
  /\ made' = [made EXCEPT ![b] = 1]
  /\ natives' = natives \union {b}
  /\ registered' = registered \union {b}
  /\ attached' = attached \union {b}
  /\ held' = held \union {b}
  /\ UNCHANGED <<collected, job, isOpen, session, derivatives, badFree>>

BadFree(h) ==  \* the finalizer stays registered
  /\ job = "idle" /\ h \in held \intersect attached
  /\ derivatives' = derivatives \ {h}
  /\ attached' = attached \ {h}
  /\ Delete({h})
  /\ UNCHANGED <<script, job, isOpen, session, made, registered>>

(* free() on an iterator or a batch; on a freed one it returns at once. *)
Free(h) ==
  /\ job = "idle" /\ h \in held \intersect attached
  /\ derivatives' = derivatives \ {h}
  /\ registered' = registered \ {h}
  /\ attached' = attached \ {h}
  /\ Delete({h})
  /\ UNCHANGED <<script, job, isOpen, session, made>>

BadClose ==  \* the iterators are left to the collector
  /\ job = "idle" /\ Db \in held /\ isOpen
  /\ registered' = registered \ {Db}
  /\ derivatives' = {}
  /\ job' = "closing"
  /\ UNCHANGED <<script, isOpen, session, made, attached, natives, badFree>>

(* close(), up to db.close(): the iterators are freed, but for those whose *)
(* WeakRef is empty.                                                       *)
Close ==
  /\ job = "idle" /\ Db \in held /\ isOpen
  /\ LET live == {i \in derivatives : i \notin collected}
     IN  /\ attached' = attached \ live
         /\ registered' = registered \ (live \union {Db})
         /\ Delete(live)
  /\ derivatives' = {}
  /\ job' = "closing"
  /\ UNCHANGED <<script, isOpen, session, made>>

(* The rest of close(), and of releaseDBState(): the native database, and  *)
(* only then the options it refers to.                                     *)
ReleaseDb ==
  /\ job \in {"closing", "releasing"} /\ isOpen
  /\ Delete({Db})
  /\ isOpen' = FALSE
  /\ UNCHANGED <<script, job, session, made, attached, derivatives, registered>>

ReleaseOptions ==
  /\ job \in {"closing", "releasing"} /\ ~isOpen
  /\ Delete(Options)
  /\ job' = "idle"
  /\ UNCHANGED <<script, isOpen, session, made, attached, derivatives, registered>>

-----------------------------------------------------------------------------
(* The script lets go of an object. *)
Drop(o) ==
  /\ job = "idle" /\ o \in held
  /\ held' = held \ {o}
  /\ UNCHANGED <<collected, object, native>>

(* An iterator refers to its database (owner); a WeakRef refers to nothing. *)
Reachable(o) ==
  \/ o \in held
  \/ o = Db /\ (held \intersect attached \intersect Iters # {}
             \/ job \in {"opening", "failing", "closing"})

Collect(o) ==
  /\ o \notin collected /\ ~Reachable(o)
  /\ o \in Handles => made[o] # 0
  /\ collected' = collected \union {o}
  /\ UNCHANGED <<held, object, native>>

(* The callbacks of the finalization registries, in any order. *)
FinalizeHandle(h) ==
  /\ job = "idle" /\ h \in registered \intersect collected
  /\ registered' = registered \ {h}
  /\ Delete({h})
  /\ UNCHANGED <<script, object>>

FinalizeRef(i) ==
  /\ job = "idle" /\ i \in derivatives \intersect collected /\ Db \notin collected
  /\ derivatives' = derivatives \ {i}
  /\ UNCHANGED <<script, job, isOpen, session, made, attached, native>>

FinalizeDb ==
  /\ job = "idle" /\ Db \in registered \intersect collected
  /\ registered' = registered \ {Db}
  /\ job' = "releasing"
  /\ UNCHANGED <<script, isOpen, session, made, attached, derivatives, natives, badFree>>

Next ==
  \/ Open \/ OpenCreate \/ OpenOk \/ OpenFail \/ OpenUndo
  \/ Close \/ ReleaseDb \/ ReleaseOptions
  \/ \E i \in Iters : NewIterator(i) \/ FinalizeRef(i)
  \/ \E b \in Batches : NewBatch(b)
  \/ \E h \in Handles : Free(h) \/ FinalizeHandle(h)
  \/ \E o \in Handles \union {Db} : Drop(o) \/ Collect(o)
  \/ FinalizeDb

Spec == Init /\ [][Next]_vars

-----------------------------------------------------------------------------
TypeOK ==
  /\ held \subseteq Handles \union {Db} /\ collected \subseteq Handles \union {Db}
  /\ job \in {"idle", "opening", "failing", "closing", "releasing"}
  /\ isOpen \in BOOLEAN /\ badFree \in BOOLEAN
  /\ session \in 0 .. MaxSessions /\ made \in [Handles -> Nat]
  /\ attached \subseteq Handles /\ derivatives \subseteq Iters
  /\ registered \subseteq Handles \union {Db}
  /\ natives \subseteq Handles \union {Db} \union Options

(* An iterator or a batch the script still has and that was not freed      *)
(* works: its native object lives and, for an iterator, so does the        *)
(* database it was made from, even when the script kept nothing else.      *)
HeldHandleIsUsable ==
  \A h \in held \intersect attached :
    /\ h \in natives
    /\ h \in Iters => Db \in natives /\ isOpen /\ made[h] = session

(* "The db keeps raw pointers to what the options own" (open): whether     *)
(* opening fails, close() is called or the collector releases it, the      *)
(* database goes before its options.                                       *)
OptionsOutliveDb ==
  /\ Db \in natives => "opt" \in natives
  /\ isOpen => Options \subseteq natives

(* No path deletes a native object twice: free(), close() and finalizers   *)
(* exclude one another.                                                    *)
NoDoubleFree == ~badFree

(* Between jobs every native object has a finalizer waiting for its owner, *)
(* or an owner that has one: nothing is lost, not even by a failed open(). *)
NothingLeaks ==
  job = "idle" => natives \subseteq registered \union Options
                  /\ (natives \intersect Options # {} => Db \in natives)

(* "Closing the DB can then release native iterators before destroying     *)
(* their backing database" (iterator()): no native iterator outlives it.   *)
IteratorsDieFirst ==
  \A i \in natives \intersect Iters : Db \in natives /\ made[i] = session
=============================================================================
