SPECIFICATION WorkspaceSpec
CONSTANTS
  Paths <- MCPaths
  Root = ""
  Parent <- MCParent
  Config <- MCConfig
  Passwords = {"k1", "k2"}
  Procs = {"p", "q"}
  Jobs <- MCJobs
  Nothing = "nothing"
  Directory = "directory"
  Torn = "torn"
INVARIANTS WorkspaceTypeOK KeyedByWorkspace ListTruthful
PROPERTIES NoStranger FindEnds
CHECK_DEADLOCK FALSE
