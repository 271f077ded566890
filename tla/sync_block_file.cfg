\* Sync() on a buffered file that is not immediate.
CONSTANTS
  Byte = {0, 1}
  Slices <- MCSlices
  FileWriteBuffer = 2
  Kinds = {"block"}
  MaxBytes = 3
SPECIFICATION Spec
INVARIANT SyncedIsDurable
CHECK_DEADLOCK FALSE
