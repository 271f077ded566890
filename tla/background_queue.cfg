\* Two clients, tasks that schedule tasks, a thread that may fail to start and
\* an environment that may be destroyed (Env::Default() itself never is).
CONSTANTS
  Clients = {c1, c2}
  Bg = bg
  Items = {i1, i2, i3}
  None = none
  CreateFails = TRUE
  Destructs = TRUE
SPECIFICATION Spec
INVARIANTS TypeOK NoLostWakeup
PROPERTIES RunsInOrder ScheduleReturns QueuedTaskRuns DestructorReturns
CHECK_DEADLOCK FALSE
