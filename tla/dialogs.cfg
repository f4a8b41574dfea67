SPECIFICATION DialogsSpec
CONSTANTS
  Typed = {"right", "wrong", "empty"}
  Failures = {"fork", "exec", "dump", "read", "unlink", "display"}
  MaxEvents = 3
  Jobs <- MCJobs
INVARIANTS DialogsTypeOK ClearTextRemoved SavedAsLeft KeyProved PasteOnce
PROPERTIES DialogEnds CopyEnds
CHECK_DEADLOCK FALSE
