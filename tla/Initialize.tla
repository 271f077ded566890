----------------------------- MODULE Initialize -----------------------------
(***************************************************************************)
(* LevelDB.initialize(): the WebAssembly module is loaded once, by the     *)
(* first call, with the memory profile that call chose; calls made while   *)
(* it loads share its promise, and a load that fails can be retried.       *)
(***************************************************************************)
CONSTANTS
  Callers,   \* calls of initialize()
  Profiles,  \* "performance" and "scalable"
  Sizes,     \* valid values of fileWriteBuffer
  None       \* null

ASSUME InitializeAssumption ==
  None \notin Profiles \union Sizes \union {"pending", "resolved"}

VARIABLES
  module,   \* EmLDB: the profile it was built for, or None
  promise,  \* EmLDBPromise: None, "pending" or "resolved"
  profile,  \* EmLDBMemoryProfile
  size,     \* the fileWriteBuffer captured by the load under way
  buffer,   \* the last SetFileBufferSize, or None for the default
  state,    \* of each call: "new", "waiting", "resolved", "rejected" or
            \* "refused" for its options
  asked     \* the options of each call: [memory, fileWriteBuffer]

vars == <<module, promise, profile, size, buffer, state, asked>>

Init ==
  /\ module = None /\ promise = None /\ profile = None
  /\ size = None /\ buffer = None
  /\ state = [c \in Callers |-> "new"]
  /\ asked \in [Callers -> [memory : Profiles,
                            fileWriteBuffer : Sizes \union {None}]]

Settle(c, how) == state' = [state EXCEPT ![c] = how]

(* normalizeInitOptions checks the variable that is still null instead of  *)
(* the option, so that no size passes.                                     *)
Normalizes(c) == asked[c].fileWriteBuffer = None

(* Mutants: a definition named Bad... is the next one with a bug.  No       *)
(* specification uses it; it shows that a property would notice the bug.   *)
BadConflicts(c) == promise = "resolved" /\ profile # asked[c].memory

Conflicts(c) == profile # None /\ profile # asked[c].memory

Refuse(c) ==
  /\ state[c] = "new" /\ ~Normalizes(c)
  /\ Settle(c, "refused")
  /\ UNCHANGED <<module, promise, profile, size, buffer, asked>>

RejectOther(c) ==
  /\ state[c] = "new" /\ Normalizes(c) /\ Conflicts(c)
  /\ Settle(c, "rejected")
  /\ UNCHANGED <<module, promise, profile, size, buffer, asked>>

BadStartLoad(c) ==  \* keeps the options instead of the profile
  /\ state[c] = "new" /\ Normalizes(c) /\ ~Conflicts(c)
  /\ promise = None
  /\ profile' = asked[c]
  /\ promise' = "pending"
  /\ size' = asked[c].fileWriteBuffer
  /\ Settle(c, "waiting")
  /\ UNCHANGED <<module, buffer, asked>>

StartLoad(c) ==
  /\ state[c] = "new" /\ Normalizes(c) /\ ~Conflicts(c)
  /\ promise = None
  /\ profile' = asked[c].memory
  /\ promise' = "pending"
  /\ size' = asked[c].fileWriteBuffer
  /\ Settle(c, "waiting")
  /\ UNCHANGED <<module, buffer, asked>>

(* require() of the built module throws: before there is a promise whose   *)
(* handlers could undo the assignment of the profile.                      *)
RequireThrows(c) ==
  /\ state[c] = "new" /\ Normalizes(c) /\ ~Conflicts(c)
  /\ promise = None
  /\ profile' = asked[c].memory
  /\ Settle(c, "rejected")
  /\ UNCHANGED <<module, promise, size, buffer, asked>>

Join(c) ==
  /\ state[c] = "new" /\ Normalizes(c) /\ ~Conflicts(c)
  /\ promise # None
  /\ Settle(c, IF promise = "resolved" THEN "resolved" ELSE "waiting")
  /\ UNCHANGED <<module, promise, profile, size, buffer, asked>>

SettleWaiting(how) ==
  state' = [c \in Callers |-> IF state[c] = "waiting" THEN how ELSE state[c]]

LoadDone ==
  /\ promise = "pending"
  /\ module' = profile
  /\ promise' = "resolved"
  /\ buffer' = IF size = None THEN buffer ELSE size
  /\ SettleWaiting("resolved")
  /\ UNCHANGED <<profile, size, asked>>

BadLoadFails ==  \* forgets the calls that joined
  /\ promise = "pending"
  /\ promise' = None /\ profile' = None
  /\ UNCHANGED <<module, size, buffer, state, asked>>

LoadFails ==
  /\ promise = "pending"
  /\ promise' = None /\ profile' = None
  /\ SettleWaiting("rejected")
  /\ UNCHANGED <<module, size, buffer, asked>>

Next ==
  \/ \E c \in Callers : \/ Refuse(c) \/ RejectOther(c)
                        \/ StartLoad(c) \/ RequireThrows(c) \/ Join(c)
  \/ LoadDone \/ LoadFails

(* Node settles the promise of a load one way or the other. *)
Spec == Init /\ [][Next]_vars /\ WF_vars(LoadDone \/ LoadFails)

-----------------------------------------------------------------------------
TypeOK ==
  /\ module \in Profiles \union {None} /\ profile \in Profiles \union {None}
  /\ promise \in {None, "pending", "resolved"}
  /\ size \in Sizes \union {None} /\ buffer \in Sizes \union {None}
  /\ state \in [Callers -> {"new", "waiting", "resolved", "rejected", "refused"}]

(* A call that resolved got the module of the profile it asked for, and    *)
(* none gets a module that another load replaces.                          *)
ResolvedMeansReady ==
  \A c \in Callers : state[c] = "resolved" => module = asked[c].memory

(* No call waits for ever, not even one that joined a load that failed.    *)
EveryCallSettles == \A c \in Callers : state[c] = "waiting" ~> state[c] # "waiting"
=============================================================================
