SPECIFICATION FairSpec
CONSTANTS
  Units = {u1}
  Sessions = {s1, s2}
  Daemons = {d1, d2}
  Mounters = {m1, m2}
  Killers = {root}
  Stoppers = {root}
  Biglock = TRUE
PROPERTIES OperationsEnd ImplementsSession
INVARIANTS TypeOK SessionLifetime NoDanglingSession SlotExclusive MountCount
CHECK_DEADLOCK FALSE
