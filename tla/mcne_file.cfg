\* An encrypted file over a buffered one, read back as Node reads it.
CONSTANTS
  Bits = {1, 2}
  Key <- MCKey
  Slices <- MCSlices
  Retains = TRUE
  ShortReads = FALSE
  SkipsBreak = FALSE
  MaxBytes = 5
SPECIFICATION Spec
INVARIANTS TypeOK FileDeciphers ReadsPlaintext
CHECK_DEADLOCK FALSE
