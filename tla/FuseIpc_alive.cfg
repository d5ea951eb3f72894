SPECIFICATION Spec
CONSTANTS
  Requesters = {m, r}
  Mounter = m
  Readers = {d}
  Writers = {w}
  FuseMaxTickets = 3
  FuseMaxFreeTickets = 1
  Events = {"signal", "remake", "forget", "leak"}
  MaxTickets = 5
  MaxReqs = 3
INVARIANTS ReplyMatches FreeTicketsUnused NoTicketLost NoDanglingTicket TicketLimit
PROPERTIES ImplementsService
CHECK_DEADLOCK FALSE
