\* What put(), delete() and write() answer.
CONSTANTS
  Iters = {it1}
  Batches = {b1}
  MaxSessions = 1
SPECIFICATION CallsSpec
INVARIANT WritesAnswerTruly
CHECK_DEADLOCK FALSE
