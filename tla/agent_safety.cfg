SPECIFICATION Spec
CONSTANTS
  Names = {n1, n2}
  Values = {v1}
  Absent = Absent
  Conns = {c1, c2}
  Addrs = {a1, a2}
  NoConn = NoConn
  Freed = Freed
  Lifetimes <- MCLifetimes
  MaxFds = 4
  Spare = 2
  MaxNow = 1
  MaxSends = 4
SYMMETRY Interchangeable
INVARIANTS TypeOK ExpiryInv NoOverstay
PROPERTIES ImplementsTimedCache
CHECK_DEADLOCK FALSE
