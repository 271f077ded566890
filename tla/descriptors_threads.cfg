\* The background thread opens a table while the JavaScript thread drops a log.
CONSTANTS
  Threads = {main, background}
  Objects = {table, log}
  BufferedObjects = {log, table}
  None = none
  CloseReleases = FALSE
SPECIFICATION Spec
INVARIANT HandleStaysOpen
CHECK_DEADLOCK FALSE
