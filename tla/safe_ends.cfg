SPECIFICATION FairSafeSpec
CONSTANTS
  cfg = cfg  a = a  b = b  d = d  va0 = va0  va1 = va1  vb0 = vb0  vcfg = vcfg
  Names <- MCNames
  Values <- MCValues
  Of <- MCOf
  FirstValue <- MCFirst
  FirstFiles = {cfg, a}
  Config = cfg
  Absent = Absent  NoFile = NoFile  NoValue = NoValue  NoPassword = NoPassword
  Conns = {c1, c2}
  Addrs = {a1, a2}
  NoConn = NoConn  Freed = Freed
  Lifetimes <- MCLifetimes
  CfgLifetime = 1
  MaxFds = 5
  Spare = 2
  MaxNow = 0
  MaxSends = 0
  Jobs <- JobsAll
  Links = {TRUE, FALSE}
  Master = good
  Typed = {good}
  Unreachable = {d}
  Serial = FALSE
  Brisk = FALSE
  Interrupts = FALSE
PROPERTIES CommandsEnd
CHECK_DEADLOCK FALSE
