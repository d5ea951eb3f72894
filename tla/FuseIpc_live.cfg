SPECIFICATION FairSpec
CONSTANTS
  Requesters = {m, r}
  Mounter = m
  Readers = {d, e}
  Writers = {w}
  FuseMaxTickets = 0
  FuseMaxFreeTickets = 2
  Events = {"close", "short", "kill", "signal", "timeout", "errreply"}
  MaxTickets = 5
  MaxReqs = 2
PROPERTIES AnswerArrives IniSleepEnds
CHECK_DEADLOCK FALSE
