-------------------------- MODULE BackgroundQueue --------------------------
(***************************************************************************)
(* Env::Schedule and the background thread of the Emscripten environment:  *)
(* a queue under m_mutex, the condition variable m_bgsignal, and a thread  *)
(* started by the first call.  All databases of a process share one        *)
(* environment, so several client threads call Schedule, and so does a     *)
(* task while the background thread runs it.                               *)
(*                                                                         *)
(* Every acquisition, wait and release is a step.  A wait gives the mutex  *)
(* up and may end without a signal, as pthread_cond_wait allows.           *)
(***************************************************************************)
EXTENDS Naturals, Sequences

CONSTANTS
  Clients,      \* the threads that use databases
  Bg,           \* the background thread
  Items,        \* tasks; each is handed to Schedule at most once
  None,         \* no task, no thread
  CreateFails,  \* may pthread_create fail
  Destructs     \* may the environment be destroyed

ASSUME QueueAssumption ==
  /\ None \notin Clients \union {Bg} \union Items
  /\ Bg \notin Clients
  /\ "env" \notin Clients \union {Bg, None}
  /\ CreateFails \in BOOLEAN /\ Destructs \in BOOLEAN

VARIABLES
  mutex,     \* m_mutex: its holder, or None
  started,   \* m_bgStarted
  shutdown,  \* m_shutdown
  queue,     \* m_queue
  call,      \* where each thread is in Schedule
  arg,       \* the task each thread's Schedule was given
  bg,        \* where BGThread is
  item,      \* BGThread's locals function and arg
  env,       \* the destructor's progress
  fresh,     \* the tasks not yet handed to Schedule
  ran        \* history: the tasks that have finished, in order

caller == <<call, arg, fresh>>
worker == <<bg, item, ran>>
vars == <<mutex, started, shutdown, queue, caller, worker, env>>

Threads == Clients \union {Bg}

Init ==
  /\ mutex = None /\ started = FALSE /\ shutdown = FALSE /\ queue = <<>>
  /\ call = [t \in Threads |-> "idle"]
  /\ arg = [t \in Threads |-> None]
  /\ bg = "none" /\ item = None
  /\ env = "alive"
  /\ fresh = Items /\ ran = <<>>

-----------------------------------------------------------------------------
(* A client uses the environment only while it lives; the background       *)
(* thread calls Schedule from inside a task.                               *)
MayCall(t) == IF t = Bg THEN bg = "run" ELSE env = "alive"

Goto(t, step) == call' = [call EXCEPT ![t] = step]

Schedule(t, i) ==
  /\ call[t] = "idle" /\ MayCall(t)
  /\ i \in fresh
  /\ fresh' = fresh \ {i}
  /\ arg' = [arg EXCEPT ![t] = i]
  /\ Goto(t, "lock")
  /\ UNCHANGED <<mutex, started, shutdown, queue, worker, env>>

ScheduleLock(t) ==
  /\ call[t] = "lock" /\ mutex = None
  /\ mutex' = t
  /\ Goto(t, "start")
  /\ UNCHANGED <<started, shutdown, queue, arg, fresh, worker, env>>

(* The first call starts the thread. *)
ScheduleStart(t) ==
  /\ call[t] = "start"
  /\ IF started THEN UNCHANGED <<started, bg>>
                ELSE started' = TRUE /\ bg' = "lock"
  /\ Goto(t, "push")
  /\ UNCHANGED <<mutex, shutdown, queue, arg, fresh, item, ran, env>>

(* Mutants: a definition named Bad... is the next one with a bug.  No       *)
(* specification uses it; it shows that a property would notice the bug.   *)
BadScheduleThrow(t) ==  \* the mutex is kept
  /\ CreateFails
  /\ call[t] = "start" /\ ~started
  /\ arg' = [arg EXCEPT ![t] = None]
  /\ Goto(t, "idle")
  /\ UNCHANGED <<mutex, started, shutdown, queue, fresh, worker, env>>

(* pthread_create failed: the mutex is released and Schedule throws. *)
ScheduleThrow(t) ==
  /\ CreateFails
  /\ call[t] = "start" /\ ~started
  /\ mutex' = None
  /\ arg' = [arg EXCEPT ![t] = None]
  /\ Goto(t, "idle")
  /\ UNCHANGED <<started, shutdown, queue, fresh, worker, env>>

BadSchedulePush(t) ==  \* at the wrong end
  /\ call[t] = "push"
  /\ queue' = <<arg[t]>> \o queue
  /\ arg' = [arg EXCEPT ![t] = None]
  /\ Goto(t, "signal")
  /\ UNCHANGED <<mutex, started, shutdown, fresh, worker, env>>

SchedulePush(t) ==
  /\ call[t] = "push"
  /\ queue' = Append(queue, arg[t])
  /\ arg' = [arg EXCEPT ![t] = None]
  /\ Goto(t, "signal")
  /\ UNCHANGED <<mutex, started, shutdown, fresh, worker, env>>

(* A signal reaches a thread that waits, and is lost otherwise. *)
Signal == bg' = IF bg = "waiting" THEN "relock" ELSE bg

BadScheduleSignal(t) ==  \* no signal
  /\ call[t] = "signal"
  /\ Goto(t, "unlock")
  /\ UNCHANGED <<mutex, started, shutdown, queue, arg, fresh, worker, env>>

ScheduleSignal(t) ==
  /\ call[t] = "signal"
  /\ Signal
  /\ Goto(t, "unlock")
  /\ UNCHANGED <<mutex, started, shutdown, queue, arg, fresh, item, ran, env>>

ScheduleUnlock(t) ==
  /\ call[t] = "unlock"
  /\ mutex' = None
  /\ Goto(t, "idle")
  /\ UNCHANGED <<started, shutdown, queue, arg, fresh, worker, env>>

-----------------------------------------------------------------------------
(* The loop of BGThread. *)
BgLock ==
  /\ bg \in {"lock", "relock"} /\ mutex = None
  /\ mutex' = Bg
  /\ bg' = "check"
  /\ UNCHANGED <<started, shutdown, queue, caller, item, ran, env>>

BgWait ==
  /\ bg = "check"
  /\ queue = <<>> /\ ~shutdown
  /\ mutex' = None
  /\ bg' = "waiting"
  /\ UNCHANGED <<started, shutdown, queue, caller, item, ran, env>>

SpuriousWakeup ==
  /\ bg = "waiting"
  /\ bg' = "relock"
  /\ UNCHANGED <<mutex, started, shutdown, queue, caller, item, ran, env>>

BgExit ==
  /\ bg = "check" /\ shutdown
  /\ mutex' = None
  /\ bg' = "exited"
  /\ UNCHANGED <<started, shutdown, queue, caller, item, ran, env>>

BgTake ==
  /\ bg = "check" /\ ~shutdown /\ queue # <<>>
  /\ item' = Head(queue)
  /\ queue' = Tail(queue)
  /\ mutex' = None
  /\ bg' = "run"
  /\ UNCHANGED <<started, shutdown, caller, ran, env>>

BadBgDone ==  \* the item is forgotten too early
  /\ bg = "run" /\ call[Bg] = "idle"
  /\ item' = None
  /\ ran' = Append(ran, item')
  /\ bg' = "lock"
  /\ UNCHANGED <<mutex, started, shutdown, queue, caller, env>>

(* The task's function returned, and with it any Schedule it called. *)
BgDone ==
  /\ bg = "run" /\ call[Bg] = "idle"
  /\ ran' = Append(ran, item)
  /\ item' = None
  /\ bg' = "lock"
  /\ UNCHANGED <<mutex, started, shutdown, queue, caller, env>>

-----------------------------------------------------------------------------
(* ~EmscriptenEnv, which C++ lets run only when no client is in a call.    *)
DestructLock ==
  /\ Destructs /\ env = "alive" /\ mutex = None
  /\ \A t \in Clients : call[t] = "idle"
  /\ mutex' = "env"
  /\ env' = "locked"
  /\ UNCHANGED <<started, shutdown, queue, caller, worker>>

BadDestructSignal ==  \* no signal
  /\ env = "locked"
  /\ shutdown' = TRUE
  /\ mutex' = None
  /\ env' = "joining"
  /\ UNCHANGED <<started, queue, caller, worker>>

DestructSignal ==
  /\ env = "locked"
  /\ shutdown' = TRUE
  /\ Signal
  /\ mutex' = None
  /\ env' = "joining"
  /\ UNCHANGED <<started, queue, caller, item, ran>>

DestructJoin ==
  /\ env = "joining"
  /\ started => bg = "exited"
  /\ env' = "gone"
  /\ UNCHANGED <<mutex, started, shutdown, queue, caller, worker>>

-----------------------------------------------------------------------------
ScheduleStep(t) ==
  \/ ScheduleLock(t) \/ ScheduleStart(t) \/ ScheduleThrow(t)
  \/ SchedulePush(t) \/ ScheduleSignal(t) \/ ScheduleUnlock(t)

BgStep == BgLock \/ BgWait \/ BgExit \/ BgTake

DestructStep == DestructSignal \/ DestructJoin

Next ==
  \/ \E t \in Threads : (\E i \in Items : Schedule(t, i)) \/ ScheduleStep(t)
  \/ BgStep \/ SpuriousWakeup \/ BgDone
  \/ DestructLock \/ DestructStep

(* A thread inside one of these functions goes on, and one that waits for  *)
(* the mutex is not passed over for ever (spurious wakeups take it too).   *)
(* Nothing is assumed of the tasks, which may never end, or of what        *)
(* clients choose to call.                                                 *)
Fairness ==
  /\ \A t \in Threads : WF_vars(ScheduleStep(t)) /\ SF_vars(ScheduleLock(t))
  /\ WF_vars(BgStep) /\ SF_vars(BgLock)
  /\ WF_vars(DestructStep)

Spec == Init /\ [][Next]_vars /\ Fairness

-----------------------------------------------------------------------------
TypeOK ==
  /\ mutex \in Threads \union {"env", None}
  /\ started \in BOOLEAN /\ shutdown \in BOOLEAN
  /\ queue \in Seq(Items) /\ ran \in Seq(Items)
  /\ call \in [Threads -> {"idle", "lock", "start", "push", "signal", "unlock"}]
  /\ arg \in [Threads -> Items \union {None}]
  /\ bg \in {"none", "lock", "check", "waiting", "relock", "run", "exited"}
  /\ item \in Items \union {None}
  /\ env \in {"alive", "locked", "joining", "gone"}
  /\ fresh \subseteq Items

(* Tasks run at most once, one at a time and in the order their calls      *)
(* took the mutex; a call that throws hands nothing over.                  *)
Executor == INSTANCE FifoExecutor WITH
              running <- item, open <- ~shutdown
RunsInOrder == Executor!Spec

(* The thread never sleeps on work: if the queue holds a task, or the      *)
(* environment shuts down, while BGThread waits, a signal is on its way.   *)
NoLostWakeup ==
  bg = "waiting" =>
    /\ queue # <<>> => \E t \in Threads : call[t] = "signal"
    /\ ~shutdown

(* Schedule returns (or throws) whatever the tasks do, even one that never *)
(* ends: no task is run with the mutex held.                               *)
ScheduleReturns == \A t \in Threads : call[t] # "idle" ~> call[t] = "idle"

(* If tasks end, every task in the queue is run, unless the environment    *)
(* is destroyed first.                                                     *)
TasksEnd == []<>(bg # "run")
QueuedTaskRuns ==
  TasksEnd => \A i \in Items :
    (\E k \in DOMAIN queue : queue[k] = i)
      ~> ((\E k \in DOMAIN ran : ran[k] = i) \/ shutdown)

(* The destructor's join ends if the task under way does.                  *)
DestructorReturns == TasksEnd => (env = "joining" ~> env = "gone")
=============================================================================
