SPECIFICATION Spec
CONSTANTS
  Units = {u1}
  Sessions = {s1, s2}
  Daemons = {d1}
  Mounters = {m1}
  Killers = {}
  Stoppers = {}
  Biglock = TRUE
INVARIANTS BiglockAssert
CHECK_DEADLOCK FALSE
