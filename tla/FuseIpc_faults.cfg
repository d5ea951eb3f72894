SPECIFICATION Spec
CONSTANTS
  Requesters = {m, r}
  Mounter = m
  Readers = {d}
  Writers = {w}
  FuseMaxTickets = 2
  FuseMaxFreeTickets = 1
  Events = {"makefail", "efault", "badreply", "enomem", "timeout", "inisignal", "errreply", "short", "close"}
  MaxTickets = 3
  MaxReqs = 3
INVARIANTS TypeOK TicketAccount HandshakeFirst
CHECK_DEADLOCK FALSE
