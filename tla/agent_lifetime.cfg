SPECIFICATION FairSpec
CONSTANTS
  Names = {n1}
  Values = {v1}
  Absent = Absent
  Conns = {c1, c2}
  Addrs = {a1, a2}
  NoConn = NoConn
  Freed = Freed
  Lifetimes <- MCLifetimes
  MaxFds = 4
  Spare = 2
  MaxNow = 1
  MaxSends = 3
PROPERTIES LifetimeHonoured
CHECK_DEADLOCK FALSE
