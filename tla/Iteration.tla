----------------------------- MODULE Iteration -----------------------------
(***************************************************************************)
(* The loops of a script over a database: for (x of db), entries(), keys() *)
(* and values(), each a LevelDBIterator over an iterator of its own.       *)
(* next() reads a pair and at once moves on, so that the native iterator   *)
(* is freed together with the last pair.  The database may be closed, and  *)
(* the loop dropped and collected, between two calls (DbLifecycle).        *)
(*                                                                         *)
(* A native iterator walks over a snapshot of the database, here the       *)
(* places 1 .. size.  A block that cannot be read leaves an error behind,  *)
(* and either ends the walk or is passed over.                             *)
(***************************************************************************)
EXTENDS DbLifecycle, Sequences

CONSTANT Pairs  \* bound of the model: the pairs of a snapshot

ASSUME IterationAssumption == Pairs \in Nat

VARIABLE
  cursor  \* for each iterator:
          \*   loop     "none" if the script uses it directly, else "running"
          \*            while base is not null, or how the loop ended
          \*   size     the pairs of its snapshot
          \*   at       the pair it is at, or 0 if it is not valid
          \*   broken   its status is an error
          \*   read     history: the places read by key() and value()
          \*   yielded  history: how many pairs next() returned

NoLoop == [loop |-> "none", size |-> 0, at |-> 0, broken |-> FALSE,
           read |-> <<>>, yielded |-> 0]

IterationInit == Init /\ cursor = [i \in Iters |-> NoLoop]

(* What SeekToFirst makes of a new cursor, and Next of a valid one.        *)
Moves(c) ==
  LET following == IF c.at = c.size THEN 0 ELSE c.at + 1
      moves == {m \in ({0} \union (c.at + 1 .. c.size)) \X BOOLEAN :
                  m[2] \/ (m[1] = following /\ ~c.broken)}
  IN  {[c EXCEPT !.at = m[1], !.broken = m[2]] : m \in moves}

Read(c) == [c EXCEPT !.read = Append(@, c.at)]

(* Mutants: a definition named Bad... is the next one with a bug.  No       *)
(* specification uses it; it shows that a property would notice the bug.   *)
BadYield(c) == [c EXCEPT !.yielded = @ + 2]  \* a pair twice
Yield(c) == [c EXCEPT !.yielded = @ + 1]

(* The end of a loop; of a loop left early no history is kept.             *)
End(c, how) == [c EXCEPT !.loop = how, !.at = 0]
Left == [NoLoop EXCEPT !.loop = "returned"]

Becomes(i, c) == cursor' = [cursor EXCEPT ![i] = c]

-----------------------------------------------------------------------------
(* iterator() and the constructor of LevelDBIterator. *)
NewLoop(i) ==
  /\ NewIterator(i)
  /\ \E n \in 0 .. Pairs :
       \E c \in Moves([NoLoop EXCEPT !.loop = "running", !.size = n]) : Becomes(i, c)

(* seekToFirst() throws, and the iterator just made is freed. *)
NewLoopThrows(i) ==
  /\ job = "idle" /\ Db \in held /\ isOpen /\ made[i] = 0
  /\ made' = [made EXCEPT ![i] = session]
  /\ UNCHANGED <<script, job, isOpen, session, attached, derivatives, native, cursor>>

Running(i) == job = "idle" /\ i \in held /\ cursor[i].loop = "running"

BadNextFreed(i) ==  \* not valid, therefore at the end
  /\ Running(i) /\ i \notin attached
  /\ Becomes(i, End(cursor[i], "done"))
  /\ UNCHANGED vars

(* next(), when close() has freed the iterator: valid() is false, and      *)
(* getError() throws for want of an iterator.                              *)
NextFreed(i) ==
  /\ Running(i) /\ i \notin attached
  /\ Becomes(i, End(cursor[i], "threw"))
  /\ UNCHANGED vars

(* next(), when the constructor found no pair, or an error. *)
NextEnd(i) ==
  /\ Running(i) /\ i \in attached /\ cursor[i].at = 0
  /\ Free(i)
  /\ Becomes(i, End(cursor[i], IF cursor[i].broken THEN "threw" ELSE "done"))

BadNextPair(i) ==  \* moves on first
  /\ Running(i) /\ i \in attached /\ cursor[i].at # 0
  /\ \E c \in Moves(cursor[i]) : c.at # 0 /\ Becomes(i, Yield(Read(c)))
  /\ UNCHANGED vars

(* next(), when there is another pair after the one it returns. *)
NextPair(i) ==
  /\ Running(i) /\ i \in attached /\ cursor[i].at # 0
  /\ \E c \in Moves(Read(cursor[i])) : c.at # 0 /\ Becomes(i, Yield(c))
  /\ UNCHANGED vars

(* next(), when there is none: the pair is returned, unless an error ended *)
(* the walk, which is thrown in its place.                                 *)
NextLast(i) ==
  /\ Running(i) /\ i \in attached /\ cursor[i].at # 0
  /\ Free(i)
  /\ \E c \in Moves(Read(cursor[i])) :
       /\ c.at = 0
       /\ Becomes(i, IF c.broken THEN End(c, "threw") ELSE End(Yield(c), "done"))

BadNextThrows(i) ==  \* the iterator is left to the collector
  /\ Running(i) /\ i \in attached /\ cursor[i].at # 0
  /\ \E c \in {cursor[i], Read(cursor[i])} : Becomes(i, End(c, "threw"))
  /\ UNCHANGED vars

(* A native call throws inside next(), while reading or moving on. *)
NextThrows(i) ==
  /\ Running(i) /\ i \in attached /\ cursor[i].at # 0
  /\ Free(i)
  /\ \E c \in {cursor[i], Read(cursor[i])} : Becomes(i, End(c, "threw"))

(* return(): the script leaves the loop early. *)
Return(i) ==
  /\ Running(i)
  /\ IF i \in attached THEN Free(i) ELSE UNCHANGED vars
  /\ Becomes(i, Left)

LoopStep(i) ==
  \/ NewLoop(i) \/ NewLoopThrows(i)
  \/ NextFreed(i) \/ NextEnd(i) \/ NextPair(i) \/ NextLast(i) \/ NextThrows(i)
  \/ Return(i)

IterationNext ==
  \/ Next /\ UNCHANGED cursor
  \/ \E i \in Iters : LoopStep(i)

IterationSpec == IterationInit /\ [][IterationNext]_<<vars, cursor>>

-----------------------------------------------------------------------------
Ended(i) == cursor[i].loop \in {"done", "threw", "returned"}

IterationTypeOK ==
  /\ TypeOK
  /\ cursor \in [Iters -> [loop : {"none", "running", "done", "threw", "returned"},
                           size : 0 .. Pairs, at : 0 .. Pairs, broken : BOOLEAN,
                           read : Seq(1 .. Pairs), yielded : 0 .. Pairs]]

(* A loop that ends without an exception has given the script every pair   *)
(* of the snapshot: no error of the native iterator, no block passed over  *)
(* and no close() in between can look like the end.                        *)
DoneMeansComplete ==
  \A i \in Iters : cursor[i].loop = "done" =>
    /\ cursor[i].read = [k \in 1 .. cursor[i].size |-> k]
    /\ cursor[i].yielded = cursor[i].size

(* Pairs come in the order of their keys, and the script gets each pair    *)
(* that was read but one: the last one before next() throws.               *)
AtMostOnePairLost ==
  \A i \in Iters :
    LET c == cursor[i]
    IN  /\ \A j, k \in DOMAIN c.read : j < k => c.read[j] < c.read[k]
        /\ ~c.broken => c.read = [k \in DOMAIN c.read |-> k]
        /\ \/ Len(c.read) = c.yielded
           \/ Len(c.read) = c.yielded + 1 /\ c.loop = "threw"

(* A loop that ended, in whatever way, holds no native iterator any more:  *)
(* none waits for the collector.                                           *)
EndedMeansFreed ==
  \A i \in Iters : Ended(i) => i \notin natives \union registered \union derivatives
=============================================================================
