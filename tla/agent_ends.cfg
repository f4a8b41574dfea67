SPECIFICATION FairSpec
CONSTANTS
  Names = {n1}
  Values = {v1}
  Absent = Absent
  Conns = {c1, c2, c3}
  Addrs = {a1, a2}
  NoConn = NoConn
  Freed = Freed
  Lifetimes <- MCLongLifetimes
  MaxFds = 2
  Spare = 1
  MaxNow = 1
  MaxSends = 2
PROPERTIES EntryEnds RequestsHandled AcceptedUnlessOutOfFds
CHECK_DEADLOCK FALSE
