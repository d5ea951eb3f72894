--------------------------- MODULE FuseIpcService ---------------------------
(***************************************************************************)
(* The message path (FuseIpc) implements the service of FuseService: where *)
(* a message is, in tickets, queues and threads, gives its stage.          *)
(***************************************************************************)
EXTENDS FuseIpc

\* the tickets that carry message n; the ticket of an INTERRUPT has the number
\* of the request it interrupts
Carries(t, n) == t \notin pool.gone /\ tk[t].rid = n /\ tk[t].op # "INTERRUPT"

\* an answer to n is being written, or is in the ticket of n
Writes(w, n) == thr[w].pc \in {"found", "answer"} /\ thr[w].arid = n
Keeps(t, n)  == Carries(t, n) /\ tk[t].orid = n

IsAnswered(n) == (\E w \in Writers : Writes(w, n)) \/ \E t \in Tickets : Keeps(t, n)

IsDelivered(n) == \E m \in inbox : m.rid = n

\* on ms_head, or in the hands of a reader
Reads(d, t) == At(d, "got") /\ thr[d].tkt = t
Pending(t)  == t \in ToSet(ms_head) \/ \E d \in Readers : Reads(d, t)

IsQueued(n) == \E t \in Tickets : Carries(t, n) /\ Pending(t)

\* on its way to the queue, also while a fetch is in fuse_data_kill
Underway(s) ==
    /\ s.op # "INTERRUPT"
    /\ \/ s.pc \in {"fetch", "alloc", "pushall", "ini", "made", "cbins", "message", "msgins"}
       \/ s.pc = "kill" /\ s.ret = "made"

IsMade(n) == \E r \in Requesters : thr[r].rid = n /\ Underway(thr[r])

Stage(n) ==
    IF dead THEN "over"
    ELSE IF n > nreq THEN "none"
    ELSE IF IsAnswered(n) THEN "answered"
    ELSE IF IsDelivered(n) THEN "delivered"
    ELSE IF IsQueued(n) THEN "queued"
    ELSE IF IsMade(n) THEN "made"
    ELSE "over"

\* a requester is in its call from the first fetch until it is done with the ticket
InCall(s)  == s.op \in {"REQ", "INTERRUPT"} /\ s.pc \notin {"idle", "drop", "push"}
Calling(r) == IF ~dead /\ InCall(thr[r]) THEN thr[r].rid ELSE 0

Taken(r) == IF ~dead /\ At(r, "use") THEN tk[thr[r].tkt].orid ELSE 0

Service == INSTANCE FuseService
    WITH Callers <- Requesters, Msgs <- 1 .. MaxReqs,
         stage <- [n \in 1 .. MaxReqs |-> Stage(n)],
         call <- [r \in Requesters |-> Calling(r)],
         got <- [r \in Requesters |-> Taken(r)],
         down <- dead

\* While the session is alive fuse_ticket_fetch, fuse_insert_message,
\* fuse_device_read, fuse_device_write and fuse_dispatcher_wait_answer deliver
\* every request at most once, and give a caller the daemon's answer to its own
\* request or none, also when it is interrupted while the answer is on its way.
ImplementsService == Service!ASpec
=============================================================================
