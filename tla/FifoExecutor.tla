---------------------------- MODULE FifoExecutor ----------------------------
(***************************************************************************)
(* What Env::Schedule promises: every task handed over is run at most      *)
(* once, one after the other and in the order of the calls.                *)
(***************************************************************************)
EXTENDS Naturals, Sequences

CONSTANTS Items, None

VARIABLES
  queue,    \* tasks handed over and not started
  running,  \* the task being run, or None
  ran,      \* the tasks finished, in order
  open      \* the executor has not been shut down

vars == <<queue, running, ran, open>>

Known == {queue[k] : k \in DOMAIN queue} \union {ran[k] : k \in DOMAIN ran}
           \union {running}

Init == queue = <<>> /\ running = None /\ ran = <<>> /\ open = TRUE

HandOver == \E i \in Items \ Known :
  /\ queue' = Append(queue, i)
  /\ UNCHANGED <<running, ran, open>>

Start ==
  /\ open /\ running = None /\ queue # <<>>
  /\ running' = Head(queue)
  /\ queue' = Tail(queue)
  /\ UNCHANGED <<ran, open>>

Finish ==
  /\ running # None
  /\ ran' = Append(ran, running)
  /\ running' = None
  /\ UNCHANGED <<queue, open>>

ShutDown == open' = FALSE /\ UNCHANGED <<queue, running, ran>>

Next == HandOver \/ Start \/ Finish \/ ShutDown

Spec == Init /\ [][Next]_vars
=============================================================================
