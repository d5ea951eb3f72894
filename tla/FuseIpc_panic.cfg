SPECIFICATION Spec
CONSTANTS
  Requesters = {m, r}
  Mounter = m
  Readers = {d}
  Writers = {w}
  FuseMaxTickets = 0
  FuseMaxFreeTickets = 2
  Events = {"timeout"}
  MaxTickets = 5
  MaxReqs = 4
INVARIANTS NoPanic
CHECK_DEADLOCK FALSE
