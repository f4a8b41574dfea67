SPECIFICATION StorageSpec
CONSTANTS
  w1 = w1  w2 = w2  w3 = w3
  Saves = {w1, w2, w3}
  Reads = {r1, r2}
  Old = Old
  Size <- MCSize
  None = None
  Zeros = Zeros
  Failures = {"open", "truncate", "encrypt", "short", "error", "read"}
  Overlap = TRUE
SYMMETRY Interchangeable
INVARIANTS StorageTypeOK ReadsLatest SaveReplaces
CHECK_DEADLOCK FALSE
