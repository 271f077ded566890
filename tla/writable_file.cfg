\* The three kinds of file, encrypted or not, with slices shorter and longer
\* than the buffer.
CONSTANTS
  Byte <- MCByte
  Slices <- MCSlices
  Plaintexts <- MCPlaintexts
  Key <- MCKey
  Magic <- MCMagic
  FileWriteBuffer = 2
  Kinds = {"raw", "block", "log"}
  MaxBytes = 5
SPECIFICATION EncryptedSpec
INVARIANTS EncryptedTypeOK StreamIntegrity CrashLeavesPrefix SyncCoversStream ClosedIsComplete CipherFollowsFile
PROPERTY KeepsPromise
CHECK_DEADLOCK FALSE
