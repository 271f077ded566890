\* Does a native iterator ever outlive its database?
CONSTANTS
  Iters = {it1}
  Batches = {b1}
  MaxSessions = 1
SPECIFICATION Spec
INVARIANT IteratorsDieFirst
CHECK_DEADLOCK FALSE
