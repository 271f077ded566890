\* One database opened up to twice, two iterators or loops over up to two
\* pairs, a batch, a collector at large.
CONSTANTS
  Iters = {it1, it2}
  Batches = {b1}
  MaxSessions = 2
  Pairs = 2
SYMMETRY IterSymmetry
SPECIFICATION IterationSpec
INVARIANTS IterationTypeOK HeldHandleIsUsable OptionsOutliveDb NoDoubleFree NothingLeaks DoneMeansComplete AtMostOnePairLost EndedMeansFreed
CHECK_DEADLOCK FALSE
