----------------------- MODULE BackgroundQueueProofs -----------------------
(***************************************************************************)
(* Proofs about BackgroundQueue, for every set of clients and of tasks.    *)
(* The invariant says who holds m_mutex, where a task is between the call  *)
(* of Schedule and its end, and what the flags say of the two threads.     *)
(***************************************************************************)
EXTENDS BackgroundQueue, SequenceTheorems, TLAPS

(* The holder of the mutex is inside a section, and nobody else is. *)
Inside == {"start", "push", "signal", "unlock"}

MutexInv ==
  /\ \A t \in Threads : call[t] \in Inside => mutex = t
  /\ bg = "check" => mutex = Bg
  /\ env = "locked" => mutex = "env"
  /\ call[Bg] # "idle" => bg = "run"

(* The flags, and what each thread carries. *)
ControlInv ==
  /\ started <=> bg # "none"
  /\ shutdown <=> env \in {"joining", "gone"}
  /\ item # None <=> bg = "run"
  /\ \A t \in Threads :
       arg[t] # None <=> call[t] \in {"lock", "start", "push"}

(* A task is in one place at a time: not handed to Schedule yet, carried   *)
(* by one call, or known to the executor.                                  *)
PlaceInv ==
  /\ fresh \intersect Executor!Known = {}
  /\ \A t \in Threads :
       arg[t] # None => arg[t] \notin fresh \union Executor!Known
  /\ \A t, u \in Threads : arg[t] # None /\ arg[t] = arg[u] => t = u

IInv == TypeOK /\ MutexInv /\ ControlInv /\ PlaceInv /\ NoLostWakeup

-----------------------------------------------------------------------------
LEMMA Names ==
  /\ Bg \in Threads /\ None \notin Threads /\ "env" \notin Threads
  /\ "env" # None /\ None \notin Items
BY QueueAssumption DEF Threads

(* Facts about the queue and the history as sequences. *)
LEMMA RangeOfAppend ==
  ASSUME NEW S, NEW s \in Seq(S), NEW e \in S
  PROVE  /\ Append(s, e) \in Seq(S)
         /\ Append(s, e) # <<>>
         /\ {Append(s, e)[k] : k \in DOMAIN Append(s, e)}
              = {s[k] : k \in DOMAIN s} \union {e}
<1>1. Append(s, e) \in Seq(S) /\ Len(Append(s, e)) = Len(s) + 1 /\ Len(s) \in Nat
  BY AppendProperties, LenProperties
<1>2. DOMAIN s = 1 .. Len(s) /\ DOMAIN Append(s, e) = 1 .. Len(s) + 1
  BY <1>1, LenProperties
<1>3. \A k \in 1 .. Len(s) : Append(s, e)[k] = s[k]
  BY AppendProperties
<1>4. Append(s, e)[Len(s) + 1] = e
  BY AppendProperties
<1>5. \A k \in 1 .. Len(s) + 1 : k \in 1 .. Len(s) \/ k = Len(s) + 1
  BY <1>1
<1>6. \A k \in 1 .. Len(s) : k \in 1 .. Len(s) + 1
  BY <1>1
<1>7. Len(s) + 1 \in 1 .. Len(s) + 1
  BY <1>1
<1> QED
  BY <1>1, <1>2, <1>3, <1>4, <1>5, <1>6, <1>7, EmptySeq

LEMMA RangeOfTail ==
  ASSUME NEW S, NEW s \in Seq(S), s # <<>>
  PROVE  /\ Head(s) \in S /\ Tail(s) \in Seq(S)
         /\ {s[k] : k \in DOMAIN s}
              = {Head(s)} \union {Tail(s)[k] : k \in DOMAIN Tail(s)}
<1> DEFINE h == Head(s)
           t == Tail(s)
           n == Len(s)
<1>1. /\ h \in S /\ h = s[1] /\ t \in Seq(S) /\ Len(t) = n - 1
      /\ n \in Nat /\ n # 0
      /\ \A i \in 1 .. Len(t) : t[i] = s[i + 1]
  BY HeadTailProperties, LenProperties, EmptySeq
<1>2. DOMAIN s = 1 .. n /\ DOMAIN t = 1 .. n - 1
  BY <1>1, LenProperties
<1> HIDE DEF h, t, n
<1>3. \A k \in 1 .. n : k = 1 \/ (k - 1 \in 1 .. n - 1 /\ s[k] = t[k - 1])
  <2> SUFFICES ASSUME NEW k \in 1 .. n, k # 1
               PROVE  k - 1 \in 1 .. n - 1 /\ s[k] = t[k - 1]
    OBVIOUS
  <2>1. k - 1 \in 1 .. Len(t) /\ (k - 1) + 1 = k
    BY <1>1
  <2>2. t[k - 1] = s[(k - 1) + 1]
    BY <1>1, <2>1
  <2> QED
    BY <1>1, <2>1, <2>2
<1>4. \A k \in 1 .. n - 1 : k + 1 \in 1 .. n /\ t[k] = s[k + 1]
  BY <1>1
<1>5. 1 \in 1 .. n
  BY <1>1
<1>6. {s[k] : k \in 1 .. n} \subseteq {h} \union {t[k] : k \in 1 .. n - 1}
  <2> SUFFICES ASSUME NEW k \in 1 .. n
               PROVE  s[k] \in {h} \union {t[j] : j \in 1 .. n - 1}
    OBVIOUS
  <2>1. CASE k = 1
    BY <1>1, <2>1
  <2>2. CASE k # 1
    <3>1. k - 1 \in 1 .. n - 1 /\ s[k] = t[k - 1]
      BY <1>3, <2>2
    <3>2. t[k - 1] \in {t[j] : j \in 1 .. n - 1}
      BY <3>1
    <3> QED
      BY <3>1, <3>2
  <2> QED
    BY <2>1, <2>2
<1>7. {h} \union {t[k] : k \in 1 .. n - 1} \subseteq {s[k] : k \in 1 .. n}
  BY <1>1, <1>4, <1>5
<1> QED
  BY <1>1, <1>2, <1>6, <1>7 DEF h, t

-----------------------------------------------------------------------------
(* What each step does to the threads' calls.                              *)
LEMMA TypeStep == TypeOK /\ ControlInv /\ [Next]_vars => TypeOK'
<1> SUFFICES ASSUME TypeOK, ControlInv, [Next]_vars PROVE TypeOK'
  OBVIOUS
<1> USE Names
<1>1. ASSUME NEW t \in Threads, NEW i \in Items, Schedule(t, i) PROVE TypeOK'
  BY <1>1 DEF Schedule, Goto, TypeOK, worker
<1>2. ASSUME NEW t \in Threads, ScheduleLock(t) PROVE TypeOK'
  BY <1>2 DEF ScheduleLock, Goto, TypeOK, worker
<1>3. ASSUME NEW t \in Threads, ScheduleStart(t) PROVE TypeOK'
  BY <1>3 DEF ScheduleStart, Goto, TypeOK
<1>4. ASSUME NEW t \in Threads, ScheduleThrow(t) PROVE TypeOK'
  BY <1>4 DEF ScheduleThrow, Goto, TypeOK, worker
<1>5. ASSUME NEW t \in Threads, SchedulePush(t) PROVE TypeOK'
  <2>1. arg[t] \in Items
    BY <1>5 DEF SchedulePush, ControlInv, TypeOK
  <2>2. Append(queue, arg[t]) \in Seq(Items)
    BY <2>1, RangeOfAppend DEF TypeOK
  <2> QED
    BY <1>5, <2>2 DEF SchedulePush, Goto, TypeOK, worker
<1>6. ASSUME NEW t \in Threads, ScheduleSignal(t) PROVE TypeOK'
  BY <1>6 DEF ScheduleSignal, Signal, Goto, TypeOK
<1>7. ASSUME NEW t \in Threads, ScheduleUnlock(t) PROVE TypeOK'
  BY <1>7 DEF ScheduleUnlock, Goto, TypeOK, worker
<1>8. CASE BgLock \/ BgWait \/ BgExit \/ SpuriousWakeup
  BY <1>8 DEF BgLock, BgWait, BgExit, SpuriousWakeup, TypeOK, caller
<1>9. CASE BgTake
  BY <1>9, RangeOfTail DEF BgTake, TypeOK, caller
<1>10. CASE BgDone
  <2>1. Append(ran, item) \in Seq(Items)
    BY <1>10, RangeOfAppend DEF BgDone, ControlInv, TypeOK
  <2> QED
    BY <1>10, <2>1 DEF BgDone, TypeOK, caller
<1>11. CASE DestructLock \/ DestructSignal \/ DestructJoin
  BY <1>11 DEF DestructLock, DestructSignal, DestructJoin, Signal, TypeOK,
     caller, worker
<1>12. CASE UNCHANGED vars
  BY <1>12 DEF vars, caller, worker, TypeOK
<1> QED
  BY <1>1, <1>2, <1>3, <1>4, <1>5, <1>6, <1>7, <1>8, <1>9, <1>10, <1>11, <1>12
     DEF Next, ScheduleStep, BgStep, DestructStep
-----------------------------------------------------------------------------
(* Holding the mutex excludes everybody else; the flags follow.            *)
LEMMA ControlStep ==
  ASSUME TypeOK, MutexInv, ControlInv, [Next]_vars
  PROVE  MutexInv' /\ ControlInv'
<1> USE Names DEF Inside
<1>1. ASSUME NEW t \in Threads, NEW i \in Items, Schedule(t, i)
      PROVE  MutexInv' /\ ControlInv'
  BY <1>1 DEF Schedule, Goto, MayCall, TypeOK, MutexInv, ControlInv, worker
<1>2. ASSUME NEW t \in Threads, ScheduleLock(t)
      PROVE  MutexInv' /\ ControlInv'
  BY <1>2 DEF ScheduleLock, Goto, TypeOK, MutexInv, ControlInv, worker
<1>3. ASSUME NEW t \in Threads, ScheduleStart(t)
      PROVE  MutexInv' /\ ControlInv'
  BY <1>3 DEF ScheduleStart, Goto, TypeOK, MutexInv, ControlInv
<1>4. ASSUME NEW t \in Threads, ScheduleThrow(t)
      PROVE  MutexInv' /\ ControlInv'
  BY <1>4 DEF ScheduleThrow, Goto, TypeOK, MutexInv, ControlInv, worker
<1>5. ASSUME NEW t \in Threads, SchedulePush(t)
      PROVE  MutexInv' /\ ControlInv'
  BY <1>5 DEF SchedulePush, Goto, TypeOK, MutexInv, ControlInv, worker
<1>6. ASSUME NEW t \in Threads, ScheduleSignal(t)
      PROVE  MutexInv' /\ ControlInv'
  BY <1>6 DEF ScheduleSignal, Signal, Goto, TypeOK, MutexInv, ControlInv
<1>7. ASSUME NEW t \in Threads, ScheduleUnlock(t)
      PROVE  MutexInv' /\ ControlInv'
  BY <1>7 DEF ScheduleUnlock, Goto, TypeOK, MutexInv, ControlInv, worker
<1>8. CASE BgLock \/ BgWait \/ BgExit \/ SpuriousWakeup
  BY <1>8 DEF BgLock, BgWait, BgExit, SpuriousWakeup, TypeOK, MutexInv,
     ControlInv, caller
<1>9. CASE BgTake
  <2>1. Head(queue) \in Items
    BY <1>9, RangeOfTail DEF BgTake, TypeOK
  <2> QED
    BY <1>9, <2>1 DEF BgTake, TypeOK, MutexInv, ControlInv, caller
<1>10. CASE BgDone
  BY <1>10 DEF BgDone, TypeOK, MutexInv, ControlInv, caller
<1>11. CASE DestructLock
  BY <1>11 DEF DestructLock, TypeOK, MutexInv, ControlInv, caller, worker
<1>12. CASE DestructSignal
  BY <1>12 DEF DestructSignal, Signal, TypeOK, MutexInv, ControlInv, caller
<1>13. CASE DestructJoin
  BY <1>13 DEF DestructJoin, TypeOK, MutexInv, ControlInv, caller, worker
<1>14. CASE UNCHANGED vars
  BY <1>14 DEF vars, caller, worker, MutexInv, ControlInv
<1> QED
  BY <1>1, <1>2, <1>3, <1>4, <1>5, <1>6, <1>7, <1>8, <1>9, <1>10, <1>11,
     <1>12, <1>13, <1>14 DEF Next, ScheduleStep, BgStep, DestructStep

-----------------------------------------------------------------------------
(* A thread that waits found the queue empty; a push under the mutex is    *)
(* followed, under the same mutex, by the signal.                          *)
LEMMA WakeupStep ==
  ASSUME TypeOK, MutexInv, ControlInv, NoLostWakeup, [Next]_vars
  PROVE  NoLostWakeup'
<1> USE Names
<1>1. ASSUME NEW t \in Threads, NEW i \in Items, Schedule(t, i)
      PROVE  NoLostWakeup'
  BY <1>1 DEF Schedule, Goto, TypeOK, NoLostWakeup, worker
<1>2. ASSUME NEW t \in Threads, ScheduleLock(t) PROVE NoLostWakeup'
  BY <1>2 DEF ScheduleLock, Goto, TypeOK, NoLostWakeup, worker
<1>3. ASSUME NEW t \in Threads, ScheduleStart(t) PROVE NoLostWakeup'
  BY <1>3 DEF ScheduleStart, Goto, TypeOK, NoLostWakeup
<1>4. ASSUME NEW t \in Threads, ScheduleThrow(t) PROVE NoLostWakeup'
  BY <1>4 DEF ScheduleThrow, Goto, TypeOK, NoLostWakeup, worker
<1>5. ASSUME NEW t \in Threads, SchedulePush(t) PROVE NoLostWakeup'
  BY <1>5 DEF SchedulePush, Goto, TypeOK, NoLostWakeup, worker
<1>6. ASSUME NEW t \in Threads, ScheduleSignal(t) PROVE NoLostWakeup'
  BY <1>6 DEF ScheduleSignal, Signal, NoLostWakeup
<1>7. ASSUME NEW t \in Threads, ScheduleUnlock(t) PROVE NoLostWakeup'
  BY <1>7 DEF ScheduleUnlock, Goto, TypeOK, NoLostWakeup, worker
<1>8. CASE BgStep \/ SpuriousWakeup \/ BgDone
  BY <1>8 DEF BgStep, BgLock, BgWait, BgExit, BgTake, SpuriousWakeup, BgDone,
     NoLostWakeup
<1>9. CASE DestructLock \/ DestructStep
  BY <1>9 DEF DestructLock, DestructStep, DestructSignal, DestructJoin, Signal,
     NoLostWakeup, caller, worker
<1>10. CASE UNCHANGED vars
  BY <1>10 DEF vars, caller, worker, NoLostWakeup
<1> QED
  BY <1>1, <1>2, <1>3, <1>4, <1>5, <1>6, <1>7, <1>8, <1>9, <1>10
     DEF Next, ScheduleStep
-----------------------------------------------------------------------------
(* How the executor's knowledge grows: only a push adds to it.             *)
LEMMA KnownPush ==
  ASSUME NEW i \in Items, queue \in Seq(Items), queue' = Append(queue, i),
         UNCHANGED <<ran, item>>
  PROVE  Executor!Known' = Executor!Known \union {i}
BY RangeOfAppend DEF Executor!Known

LEMMA KnownTake ==
  ASSUME TypeOK, BgTake
  PROVE  Executor!Known' \subseteq Executor!Known
BY RangeOfTail DEF BgTake, TypeOK, Executor!Known

LEMMA KnownDone ==
  ASSUME TypeOK, ControlInv, BgDone
  PROVE  Executor!Known' \subseteq Executor!Known \union {None}
<1>1. item \in Items /\ ran \in Seq(Items)
  BY DEF BgDone, TypeOK, ControlInv
<1> QED
  BY <1>1, RangeOfAppend DEF BgDone, Executor!Known

LEMMA KnownSame ==
  ASSUME UNCHANGED <<queue, ran, item>>
  PROVE  Executor!Known' = Executor!Known
BY DEF Executor!Known

LEMMA PlaceStep ==
  ASSUME TypeOK, MutexInv, ControlInv, PlaceInv, [Next]_vars
  PROVE  PlaceInv'
<1> USE Names
<1>1. ASSUME NEW t \in Threads, NEW i \in Items, Schedule(t, i)
      PROVE  PlaceInv'
  <2>1. arg[t] = None
    BY <1>1 DEF Schedule, ControlInv
  <2>2. Executor!Known' = Executor!Known
    BY <1>1, KnownSame DEF Schedule, worker
  <2> QED
    BY <1>1, <2>1, <2>2 DEF Schedule, TypeOK, PlaceInv
<1>2. ASSUME NEW t \in Threads, SchedulePush(t) PROVE PlaceInv'
  <2>1. arg[t] \in Items
    BY <1>2 DEF SchedulePush, ControlInv, TypeOK
  <2>2. Executor!Known' = Executor!Known \union {arg[t]}
    BY <1>2, <2>1, KnownPush DEF SchedulePush, TypeOK, worker
  <2> QED
    BY <1>2, <2>1, <2>2 DEF SchedulePush, TypeOK, PlaceInv
<1>3. ASSUME NEW t \in Threads, ScheduleThrow(t) PROVE PlaceInv'
  <2>1. Executor!Known' = Executor!Known
    BY <1>3, KnownSame DEF ScheduleThrow, worker
  <2> QED
    BY <1>3, <2>1 DEF ScheduleThrow, TypeOK, PlaceInv
<1>4. CASE BgTake
  BY <1>4, KnownTake DEF BgTake, caller, PlaceInv
<1>5. CASE BgDone
  BY <1>5, KnownDone DEF BgDone, caller, PlaceInv, TypeOK
<1>6. ASSUME UNCHANGED <<arg, fresh, queue, ran, item>> PROVE PlaceInv'
  BY <1>6, KnownSame DEF PlaceInv
<1>7. ASSUME NEW t \in Threads,
             ScheduleLock(t) \/ ScheduleStart(t) \/ ScheduleSignal(t)
               \/ ScheduleUnlock(t)
      PROVE  PlaceInv'
  BY <1>6, <1>7 DEF ScheduleLock, ScheduleStart, ScheduleSignal, ScheduleUnlock,
     worker
<1>8. CASE BgLock \/ BgWait \/ BgExit \/ SpuriousWakeup
  BY <1>6, <1>8 DEF BgLock, BgWait, BgExit, SpuriousWakeup, caller
<1>9. CASE DestructLock \/ DestructStep
  BY <1>6, <1>9 DEF DestructLock, DestructStep, DestructSignal, DestructJoin,
     caller, worker
<1>10. CASE UNCHANGED vars
  BY <1>6, <1>10 DEF vars, caller, worker
<1> QED
  BY <1>1, <1>2, <1>3, <1>4, <1>5, <1>7, <1>8, <1>9, <1>10
     DEF Next, ScheduleStep, BgStep

-----------------------------------------------------------------------------
LEMMA InvInit == Init => IInv
<1> SUFFICES ASSUME Init PROVE IInv
  OBVIOUS
<1>1. Executor!Known = {None}
  BY DEF Init, Executor!Known
<1>2. TypeOK
  BY Names, EmptySeq DEF Init, TypeOK
<1>3. MutexInv /\ ControlInv /\ NoLostWakeup
  BY Names DEF Init, MutexInv, Inside, ControlInv, NoLostWakeup
<1>4. PlaceInv
  BY <1>1, Names DEF Init, PlaceInv
<1> QED
  BY <1>2, <1>3, <1>4 DEF IInv

LEMMA InvStep == IInv /\ [Next]_vars => IInv'
BY TypeStep, ControlStep, WakeupStep, PlaceStep DEF IInv

LEMMA Invariance == Spec => []IInv
BY InvInit, InvStep, PTL DEF Spec

(* Every variable keeps its type. *)
THEOREM TypeCorrect == Spec => []TypeOK
<1>1. IInv => TypeOK
  BY DEF IInv
<1> QED
  BY <1>1, Invariance, PTL

(* m_mutex excludes: two threads are never both inside Schedule, nor one   *)
(* there and BGThread at its queue or the destructor at the flag.          *)
THEOREM MutualExclusion ==
  Spec => [](/\ \A t, u \in Threads :
                  call[t] \in Inside /\ call[u] \in Inside => t = u
             /\ \A t \in Threads :
                  call[t] \in Inside => bg # "check" /\ env # "locked"
             /\ bg = "check" => env # "locked")
<1>1. IInv =>
        /\ \A t, u \in Threads :
             call[t] \in Inside /\ call[u] \in Inside => t = u
        /\ \A t \in Threads :
             call[t] \in Inside => bg # "check" /\ env # "locked"
        /\ bg = "check" => env # "locked"
  BY Names DEF IInv, MutexInv, Inside
<1> QED
  BY <1>1, Invariance, PTL

(* BGThread never sleeps on a task or through the shutdown: a signal for   *)
(* it is on its way, for any number of clients.                            *)
THEOREM WakeupNeverLost == Spec => []NoLostWakeup
<1>1. IInv => NoLostWakeup
  BY DEF IInv
<1> QED
  BY <1>1, Invariance, PTL

(* A step of the environment is one of the executor or leaves it alone.    *)
LEMMA ExecutorStep ==
  ASSUME IInv, [Next]_vars
  PROVE  [Executor!Next]_(Executor!vars)
<1> USE Names DEF Executor!Next, Executor!vars
<1>1. ASSUME UNCHANGED <<queue, item, ran, shutdown>>
      PROVE  UNCHANGED Executor!vars
  BY <1>1
<1>2. ASSUME NEW t \in Threads, SchedulePush(t) PROVE Executor!HandOver
  <2>1. arg[t] \in Items \ Executor!Known
    BY <1>2 DEF SchedulePush, IInv, ControlInv, PlaceInv, TypeOK
  <2> QED
    BY <1>2, <2>1 DEF SchedulePush, Executor!HandOver, worker
<1>3. CASE BgTake
  BY <1>3 DEF BgTake, IInv, ControlInv, Executor!Start
<1>4. CASE BgDone
  BY <1>4 DEF BgDone, IInv, ControlInv, Executor!Finish
<1>5. CASE DestructSignal
  BY <1>5 DEF DestructSignal, Executor!ShutDown
<1>6. ASSUME NEW t \in Threads, NEW i \in Items, Schedule(t, i)
      PROVE  UNCHANGED Executor!vars
  BY <1>6 DEF Schedule, worker
<1>7. ASSUME NEW t \in Threads,
             ScheduleLock(t) \/ ScheduleStart(t) \/ ScheduleThrow(t)
               \/ ScheduleSignal(t) \/ ScheduleUnlock(t)
      PROVE  UNCHANGED Executor!vars
  BY <1>7 DEF ScheduleLock, ScheduleStart, ScheduleThrow, ScheduleSignal,
     ScheduleUnlock, worker
<1>8. CASE BgLock \/ BgWait \/ BgExit \/ SpuriousWakeup
  BY <1>8 DEF BgLock, BgWait, BgExit, SpuriousWakeup
<1>9. CASE DestructLock \/ DestructJoin
  BY <1>9 DEF DestructLock, DestructJoin, worker
<1>10. CASE UNCHANGED vars
  BY <1>10 DEF vars, worker
<1> QED
  BY <1>2, <1>3, <1>4, <1>5, <1>6, <1>7, <1>8, <1>9, <1>10
     DEF Next, ScheduleStep, BgStep, DestructStep

(* The queue, the mutex and the condition variable implement the executor: *)
(* every task handed over is started at most once, one at a time and in    *)
(* the order in which the calls took the mutex.                            *)
THEOREM ImplementsExecutor == Spec => RunsInOrder
<1>1. Init => Executor!Init
  BY DEF Init, Executor!Init
<1>2. IInv /\ [Next]_vars => [Executor!Next]_(Executor!vars)
  BY ExecutorStep
<1> QED
  BY <1>1, <1>2, Invariance, PTL DEF Spec, RunsInOrder, Executor!Spec
=============================================================================
