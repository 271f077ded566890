\* Four overlapping calls, loads that fail and are retried, and the options
\* of one opening after another once a load is done.
CONSTANTS
  Callers = {c1, c2, c3, c4}
  Profiles = {performance, scalable}
  Sizes = {bytes}
  None = null
SPECIFICATION OptionsSpec
INVARIANTS OptionsTypeOK ResolvedMeansReady NoDanglingPointer OldBlocksReadable
PROPERTY EveryCallSettles
CHECK_DEADLOCK FALSE
