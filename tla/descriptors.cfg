\* Two threads open, close and destroy files, one of them buffered, and a close
\* that throws may have released the descriptor.  The names take 1, 2 and 4 bytes
\* in a listing, so that every listing has its own size; the first buffer is
\* short, so that four listings in a row can be too long for it.
CONSTANTS
  Threads = {main, background}
  Objects = {log, table, info}
  BufferedObjects = {log}
  None = none
  CloseReleases = TRUE
  Names = {1, 2, 4}
  Bytes <- MCBytes
  Subdirs = {4}
  Dir = dir
  Buffer = 1
  LockNames = {LOCK}
  Lockers = {db}
SYMMETRY Alike
CONSTRAINTS OneCaller FilesApart
SPECIFICATION EnvSpec
INVARIANTS EnvTypeOK OnlySharedLoseHandles NoDescriptorLeak
PROPERTIES AnswersAreAtomic NumbersSharedWhenStale
CHECK_DEADLOCK FALSE
