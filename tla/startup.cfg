SPECIFICATION FairStartupSpec
CONSTANTS
  Daemonized = {TRUE, FALSE}
  Commanded = {TRUE, FALSE}
  Failures = {"setup", "fork", "exec", "detach"}
INVARIANTS StartupTypeOK ParentTold
PROPERTIES ParentReleased AgentFollows
CHECK_DEADLOCK FALSE
