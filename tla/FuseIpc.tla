------------------------------ MODULE FuseIpc ------------------------------
(***************************************************************************)
(* One fuse4x session (struct fuse_data) seen from its message path: the   *)
(* kernel threads that send requests, the threads of the user daemon that  *)
(* read(2) requests from /dev/fuse4xN and write(2) answers to it, and the   *)
(* two operations that end the session, fuse_device_kill and               *)
(* fuse_device_close.                                                      *)
(*                                                                         *)
(* One action is one critical section (ms_mtx, data->aw_mtx, ticket_mtx or *)
(* a ticket's aw_mtx) with the code on the thread's own ticket next to it;  *)
(* a test of "dead" made without a lock is a step of its own.  A ticket is  *)
(* named by its `unique', which fuse_ticket_alloc assigns once and which    *)
(* survives reuse.  Message contents are abstracted to the class of the     *)
(* opcode and a ghost request number, rid.                                 *)
(***************************************************************************)
EXTENDS Integers, Sequences, FiniteSets, SequencesExt

CONSTANTS
    Requesters,          \* kernel threads that issue requests
    Mounter,             \* the requester that runs fuse_vfsop_mount
    Readers, Writers,    \* daemon threads in fuse_device_read / _write
    FuseMaxTickets,      \* fuse_max_tickets (0: no limit)
    FuseMaxFreeTickets,  \* fuse_max_freetickets
    Events,              \* the environment events that may happen
    MaxTickets,          \* bound: tickets ever allocated
    MaxReqs              \* bound: requests ever made

AllEvents == {"signal", "inisignal", "timeout", "kill", "close", "makefail", "forget",
              "remake", "short", "efault", "badreply", "enomem", "errreply", "leak"}

Killer  == "fuse_device_kill"
Closer  == "fuse_device_close"
Admins  == {Killer, Closer}
Threads == Requesters \cup Readers \cup Writers \cup Admins

ASSUME ThreadsAssumption ==
    /\ Mounter \in Requesters
    /\ Requesters \cap (Readers \cup Writers \cup Admins) = {}
    /\ Readers \cap (Writers \cup Admins) = {}
    /\ Writers \cap Admins = {}
ASSUME BoundsAssumption ==
    /\ FuseMaxTickets \in Nat /\ FuseMaxFreeTickets \in Nat
    /\ MaxTickets \in Nat \ {0} /\ MaxReqs \in Nat \ {0}
    /\ Events \subseteq AllEvents

ASSUME FiniteAssumption == IsFiniteSet(Requesters)

Tickets  == 0 .. MaxTickets - 1
NoTicket == -1
Rids     == 0 .. MaxReqs

VARIABLES
    dead, inited,     \* data->dead, data->inited
    devopen,          \* the daemon still holds the device open
    ms_head, aw_head, \* queues: messages not yet read, requests awaiting an answer
    pool,             \* the ticket lists and counters of struct fuse_data
    tk,               \* the fields of each struct fuse_ticket
    thr,              \* control and locals of each thread
    inbox,            \* messages the daemon has read and not yet answered
    initSent,         \* fuse_send_init has returned
    initAnswered,     \* ghost: the answer to INIT has been looked at
    nreq,             \* ghost: requests made so far
    panic             \* the first panic() or use of freed memory

sess   == <<dead, inited, devopen>>
queues == <<ms_head, aw_head>>
env    == <<inbox, initSent, initAnswered, nreq>>
vars   == <<sess, queues, pool, tk, thr, env, panic>>

OneWay == {"FORGET", "INTERRUPT"}   \* sent with ticket->invalid, never answered
Ops    == {"none", "INIT", "REQ", "RELEASE"} \cup OneWay
Labels == {"idle", "fetch", "alloc", "pushall", "ini", "made", "cbins", "message",
           "msgins", "wait", "asleep", "woken", "timedout", "waited", "use",
           "drop", "push", "kill", "killw", "read", "rsleep", "got",
           "found", "answer", "initfail", "setinit", "reject", "rejecting"}

\* struct fuse_ticket; op and rid stand for the message, oerror and orid for
\* aw_ohead and the answer's body
TicketState ==
    [op: Ops, rid: Rids, cb: {"none", "standard", "init", "forget"},
     answered: BOOLEAN, invalid: BOOLEAN, dirty: BOOLEAN, killed: BOOLEAN,
     oerror: BOOLEAN, orid: Rids, aw_errno: BOOLEAN]

\* fuse_ticket_alloc: a zeroed ticket
NewTicket ==
    [op |-> "none", rid |-> 0, cb |-> "none", answered |-> FALSE, invalid |-> FALSE,
     dirty |-> FALSE, killed |-> FALSE, oerror |-> FALSE, orid |-> 0, aw_errno |-> FALSE]

\* Mutant: a reused ticket still counts as answered.
RefreshAnswered(s) == [NewTicket EXCEPT !.cb = s.cb, !.answered = s.answered]

\* fuse_ticket_refresh: all but `unique' and aw_callback
Refresh(s) == [NewTicket EXCEPT !.cb = s.cb]

Replies == {"ok"} \cup ({"errreply", "badreply", "enomem"} \cap Events)

\* tkt: the ticket in hand; saved: the one being interrupted; ret: where a call
\* of fuse_data_kill or fuse_ticket_drop returns to; arid, kind, perr: the answer
\* being written; pos: how far fuse_reject_answers has walked
ThreadState ==
    [pc: Labels, tkt: Tickets \cup {NoTicket}, saved: Tickets \cup {NoTicket}, op: Ops,
     rid: Rids, err: {"none", "EINTR", "ENOTCONN", "ENXIO"}, ret: Labels,
     arid: Rids, kind: {"ok", "errreply", "badreply", "enomem"}, perr: BOOLEAN, pos: Nat]

IdleThread ==
    [pc |-> "idle", tkt |-> NoTicket, saved |-> NoTicket, op |-> "none", rid |-> 0,
     err |-> "none", ret |-> "idle", arid |-> 0, kind |-> "ok", perr |-> FALSE, pos |-> 0]

\* fuse_data_alloc; loop: the last free ticket links to itself; gone: OSFree'd;
\* lost: ghost, the tickets that a caller or a callback returned without dropping
Init ==
    /\ dead = FALSE /\ inited = FALSE /\ devopen = TRUE
    /\ ms_head = <<>> /\ aw_head = <<>>
    /\ pool = [free |-> <<>>, loop |-> FALSE, freeticket_counter |-> 0,
               deadticket_counter |-> 0, ticketer |-> 0, all |-> {}, gone |-> {},
               lost |-> {}]
    /\ tk = [t \in Tickets |-> NewTicket]
    /\ thr = [x \in Threads |-> IdleThread]
    /\ inbox = {} /\ initSent = FALSE /\ initAnswered = FALSE /\ nreq = 0
    /\ panic = "none"

-----------------------------------------------------------------------------
(* Control helpers *)

At(x, l) == thr[x].pc = l
Live(x)  == thr[x].tkt \notin pool.gone

\* A list's last element, if any, is not freed memory.
TailLive(q) == q # <<>> => Last(q) \notin pool.gone

\* fuse_wakeup_one(data): at most one reader sleeping in "fu_msg" runs again.
WakeOneReader(f) ==
    LET sleepers == {d \in Readers : At(d, "rsleep")} IN
    \/ sleepers = {} /\ thr' = f
    \/ \E d \in sleepers : thr' = [f EXCEPT ![d].pc = "read"]

\* Mutant: nobody sleeping in "fu_ini" is woken.
WakeIniNobody(f) == f

\* fuse_wakeup(&data->ticketer): every fetch sleeping in "fu_ini" returns.
WakeIni(f) == [x \in Threads |-> IF f[x].pc = "ini" THEN [f[x] EXCEPT !.pc = "made"] ELSE f[x]]

\* Mutant: the waiter is not woken.
WakeTicketNobody(f, t) == f

\* fuse_wakeup(ticket): the thread sleeping in "fu_ans" on ticket t runs again.
WakeTicket(f, t) ==
    [x \in Threads |-> IF f[x].pc = "asleep" /\ f[x].tkt = t
                       THEN [f[x] EXCEPT !.pc = "woken"] ELSE f[x]]

\* The aw_mtx of ticket t is held across other locks in two places: while the
\* requester sends INTERRUPT, and while a timed-out requester kills the session.
AwHeld(t) ==
    \E r \in Requesters :
        \/ thr[r].saved = t
        \/ /\ thr[r].tkt = t /\ thr[r].ret = "timedout"
           /\ thr[r].pc \in {"kill", "killw", "timedout"}

Rejecting == \E a \in Admins : At(a, "rejecting")    \* holds data->aw_mtx

-----------------------------------------------------------------------------
(* Requests begin *)

Started(r, o) ==
    /\ At(r, "idle")
    /\ nreq < MaxReqs
    /\ nreq' = nreq + 1
    /\ thr' = [thr EXCEPT ![r].pc = "fetch", ![r].op = o, ![r].rid = nreq + 1]
    /\ UNCHANGED <<sess, queues, pool, tk, inbox, initSent, initAnswered, panic>>

\* fuse_vfsop_mount -> fuse_send_init: the first message of a session
SendInit(r) == r = Mounter /\ nreq = 0 /\ devopen /\ ~dead /\ Started(r, "INIT")

\* a vnode or VFS operation that waits for an answer
NewRequest(r) == initSent /\ Started(r, "REQ")

\* fuse_internal_forget_send
SendForget(r) == initSent /\ "forget" \in Events /\ Started(r, "FORGET")

\* the RELEASE that fuse_vnop_create sends when it gets no vnode: nobody waits
SendRelease(r) == initSent /\ "leak" \in Events /\ Started(r, "RELEASE")

-----------------------------------------------------------------------------
(* fuse_ticket_fetch *)

\* Mutants: no wait for the answer to INIT; no limit on tickets.
FetchTailUninited == "made"
FetchTailUnlimited == IF ~inited /\ pool.ticketer > 1 THEN "ini" ELSE "made"

\* the end of fuse_ticket_fetch, with the ticket in hand and ticket_mtx held
FetchTail ==
    IF ~inited /\ pool.ticketer > 1 THEN "ini"
    ELSE IF FuseMaxTickets # 0 /\ pool.ticketer - pool.deadticket_counter > FuseMaxTickets
    THEN "kill" ELSE "made"

FetchNone(r) ==
    /\ At(r, "fetch")
    /\ pool.freeticket_counter = 0
    /\ thr' = [thr EXCEPT ![r].pc = "alloc"]
    /\ UNCHANGED <<sess, queues, pool, tk, env, panic>>

\* Mutant: `unique' is the counter after the increment.
AllocNext(r) ==
    /\ At(r, "alloc")
    /\ pool.ticketer < MaxTickets
    /\ thr' = [thr EXCEPT ![r].pc = "pushall", ![r].tkt = pool.ticketer + 1]
    /\ pool' = [pool EXCEPT !.ticketer = @ + 1]
    /\ UNCHANGED <<sess, queues, tk, env, panic>>

\* fuse_ticket_alloc
Alloc(r) ==
    /\ At(r, "alloc")
    /\ pool.ticketer < MaxTickets
    /\ thr' = [thr EXCEPT ![r].pc = "pushall", ![r].tkt = pool.ticketer]
    /\ pool' = [pool EXCEPT !.ticketer = @ + 1]
    /\ UNCHANGED <<sess, queues, tk, env, panic>>

PushAll(r) ==
    /\ At(r, "pushall")
    /\ pool' = [pool EXCEPT !.all = @ \cup {thr[r].tkt}]
    /\ thr' = [thr EXCEPT ![r].pc = FetchTail, ![r].ret = "made"]
    /\ UNCHANGED <<sess, queues, tk, env, panic>>

\* STAILQ_REMOVE_HEAD on freetickets_head
FreeTail == IF pool.loop /\ Len(pool.free) = 1 THEN pool.free ELSE Tail(pool.free)

\* the panic in fuse_pop_freeticks
CountMismatch == pool.free = <<>> \/ (FreeTail = <<>> /\ pool.freeticket_counter # 1)

FetchFree(r) ==
    /\ At(r, "fetch")
    /\ pool.freeticket_counter # 0
    /\ ~CountMismatch
    /\ pool' = [pool EXCEPT !.free = FreeTail, !.freeticket_counter = @ - 1]
    /\ thr' = [thr EXCEPT ![r].pc = FetchTail, ![r].ret = "made", ![r].tkt = Head(pool.free)]
    /\ UNCHANGED <<sess, queues, tk, env, panic>>

FetchMismatch(r) ==
    /\ At(r, "fetch")
    /\ pool.freeticket_counter # 0
    /\ CountMismatch
    /\ panic' = "ticket count mismatch!"
    /\ UNCHANGED <<sess, queues, pool, tk, thr, env>>

\* a signal ends the "fu_ini" sleep: the fetch kills the session and goes on
IniSignal(r) ==
    /\ At(r, "ini")
    /\ "inisignal" \in Events
    /\ thr' = [thr EXCEPT ![r].pc = "kill"]
    /\ UNCHANGED <<sess, queues, pool, tk, env, panic>>

-----------------------------------------------------------------------------
(* fuse_data_kill, called by requesters, writers and admins; returns to ret *)

KillData(x) ==
    /\ At(x, "kill")
    /\ \/ dead /\ thr' = [thr EXCEPT ![x].pc = thr[x].ret]
       \/ ~dead /\ WakeOneReader([thr EXCEPT ![x].pc = "killw"])
    /\ dead' = TRUE
    /\ UNCHANGED <<inited, devopen, queues, pool, tk, env, panic>>

KillWake(x) ==
    /\ At(x, "killw")
    /\ thr' = WakeIni([thr EXCEPT ![x].pc = thr[x].ret])
    /\ UNCHANGED <<sess, queues, pool, tk, env, panic>>

-----------------------------------------------------------------------------
(* fuse_ticket_drop and fuse_ticket_kill; drop returns to ret *)

\* Mutant: deadticket_counter does not count.
DestroyUncounted(t) == pool' = [pool EXCEPT !.all = @ \ {t}, !.gone = @ \cup {t}]

\* A ticket that nobody refers to any more, neither free nor destroyed.
Lose(t) == pool' = [pool EXCEPT !.lost = @ \cup {t}]

\* fuse_remove_allticks, fuse_ticket_destroy
Destroy(t) ==
    pool' = [pool EXCEPT !.deadticket_counter = @ + 1, !.all = @ \ {t}, !.gone = @ \cup {t}]

DropDestroys(t) == FuseMaxFreeTickets <= pool.freeticket_counter \/ tk[t].killed

DropDestroy(x) ==
    /\ At(x, "drop") /\ Live(x)
    /\ DropDestroys(thr[x].tkt)
    /\ Destroy(thr[x].tkt)
    /\ thr' = [thr EXCEPT ![x] = [IdleThread EXCEPT !.pc = thr[x].ret]]
    /\ UNCHANGED <<sess, queues, tk, env, panic>>

DropRefresh(x) ==
    /\ At(x, "drop") /\ Live(x)
    /\ ~DropDestroys(thr[x].tkt)
    /\ tk' = [tk EXCEPT ![thr[x].tkt] = Refresh(@)]
    /\ thr' = [thr EXCEPT ![x].pc = "push"]
    /\ UNCHANGED <<sess, queues, pool, env, panic>>

\* STAILQ_INSERT_TAIL, also for a ticket that is on the list already: if it is
\* the last one its next link now points to itself, else the list ends at it.
FreeInsert(q, t) ==
    IF t \in ToSet(q) THEN SubSeq(q, 1, CHOOSE i \in DOMAIN q : q[i] = t) ELSE Append(q, t)

DropPush(x) ==
    LET t == thr[x].tkt IN
    /\ At(x, "push") /\ Live(x)
    /\ pool' = [pool EXCEPT !.free = FreeInsert(@, t),
                            !.loop = (pool.free # <<>> /\ Last(pool.free) = t),
                            !.freeticket_counter = @ + 1]
    /\ thr' = [thr EXCEPT ![x] = [IdleThread EXCEPT !.pc = thr[x].ret]]
    /\ UNCHANGED <<sess, queues, tk, env, panic>>

-----------------------------------------------------------------------------
(* fuse_dispatcher_make, fuse_insert_callback, fuse_insert_message *)

\* the callback that fuse_insert_callback registers for opcode o
CallbackOf(o) ==
    CASE o = "INIT" -> "init" [] o = "RELEASE" -> "forget" [] OTHER -> "standard"

\* fuse_setup_ihead fills in the header, fuse_insert_callback the callback
Headed(s, o, n, callback) ==
    [s EXCEPT !.op = o, !.rid = n, !.invalid = s.invalid \/ o \in OneWay,
              !.cb = IF ~callback THEN s.cb ELSE CallbackOf(o)]

\* fuse_insert_callback tests dead without a lock
Make(r) ==
    LET callback == ~dead /\ thr[r].op \notin OneWay IN
    /\ At(r, "made") /\ Live(r)
    /\ tk' = [tk EXCEPT ![thr[r].tkt] = Headed(@, thr[r].op, thr[r].rid, callback)]
    /\ thr' = [thr EXCEPT ![r].pc = IF callback THEN "cbins" ELSE "message"]
    /\ UNCHANGED <<sess, queues, pool, env, panic>>

\* fuse_dispatcher_make_canfail -> fuse_ticket_kill
MakeFail(r) ==
    /\ At(r, "made") /\ Live(r)
    /\ "makefail" \in Events
    /\ thr[r].op = "REQ"
    /\ Destroy(thr[r].tkt)
    /\ thr' = [thr EXCEPT ![r] = IdleThread]
    /\ UNCHANGED <<sess, queues, tk, env, panic>>

\* The caller has made its message and cannot fill it in: it drops the ticket
\* (setattr, direct write) ...
MakeDrop(r) ==
    /\ At(r, "made") /\ Live(r)
    /\ "makefail" \in Events
    /\ thr[r].op = "REQ"
    /\ tk' = [tk EXCEPT ![thr[r].tkt] = Headed(@, thr[r].op, thr[r].rid, FALSE)]
    /\ thr' = [thr EXCEPT ![r].pc = "drop", ![r].ret = "idle"]
    /\ UNCHANGED <<sess, queues, pool, env, panic>>

\* ... or returns without (setxattr, when uiomove fails).
MakeLeak(r) ==
    /\ At(r, "made") /\ Live(r)
    /\ "leak" \in Events
    /\ thr[r].op = "REQ"
    /\ tk' = [tk EXCEPT ![thr[r].tkt] = Headed(@, thr[r].op, thr[r].rid, FALSE)]
    /\ Lose(thr[r].tkt)
    /\ thr' = [thr EXCEPT ![r] = IdleThread]
    /\ UNCHANGED <<sess, queues, env, panic>>

InsertCallback(r) ==
    /\ At(r, "cbins") /\ Live(r)
    /\ ~Rejecting /\ TailLive(aw_head)
    /\ aw_head' = Append(aw_head, thr[r].tkt)
    /\ thr' = [thr EXCEPT ![r].pc = "message"]
    /\ UNCHANGED <<sess, ms_head, pool, tk, env, panic>>

\* the sender after fuse_insert_message: a request waits, an interrupted one
\* takes up its own ticket again, the others are done
Sent(r) ==
    LET me == thr[r] IN
    [thr EXCEPT ![r] =
        CASE me.op = "REQ" -> [me EXCEPT !.pc = "wait"]
          [] me.op = "INTERRUPT" -> [me EXCEPT !.pc = "waited", !.op = "REQ",
                                               !.tkt = me.saved, !.saved = NoTicket]
          [] OTHER -> IdleThread]

InsertMessageDead(r) ==
    /\ At(r, "message") /\ Live(r)
    /\ ~tk[thr[r].tkt].dirty
    /\ dead
    /\ tk' = [tk EXCEPT ![thr[r].tkt].dirty = TRUE]
    /\ thr' = Sent(r)
    /\ initSent' = (initSent \/ thr[r].op = "INIT")
    /\ UNCHANGED <<sess, queues, pool, inbox, initAnswered, nreq, panic>>

InsertMessageTest(r) ==
    /\ At(r, "message") /\ Live(r)
    /\ ~tk[thr[r].tkt].dirty
    /\ ~dead
    /\ tk' = [tk EXCEPT ![thr[r].tkt].dirty = TRUE]
    /\ thr' = [thr EXCEPT ![r].pc = "msgins"]
    /\ UNCHANGED <<sess, queues, pool, env, panic>>

InsertMessageDirty(r) ==
    /\ At(r, "message") /\ Live(r)
    /\ tk[thr[r].tkt].dirty
    /\ panic' = "ticket reused without being refreshed"
    /\ UNCHANGED <<sess, queues, pool, tk, thr, env>>

InsertMessage(r) ==
    /\ At(r, "msgins") /\ Live(r)
    /\ TailLive(ms_head)
    /\ ms_head' = Append(ms_head, thr[r].tkt)
    /\ WakeOneReader(Sent(r))
    /\ initSent' = (initSent \/ thr[r].op = "INIT")
    /\ UNCHANGED <<sess, aw_head, pool, tk, inbox, initAnswered, nreq, panic>>

-----------------------------------------------------------------------------
(* fuse_ticket_wait_answer *)

WaitAnswered(r) ==
    /\ At(r, "wait") /\ Live(r) /\ ~AwHeld(thr[r].tkt)
    /\ tk[thr[r].tkt].answered
    /\ thr' = [thr EXCEPT ![r].pc = "waited"]
    /\ UNCHANGED <<sess, queues, pool, tk, env, panic>>

WaitDead(r) ==
    /\ At(r, "wait") /\ Live(r) /\ ~AwHeld(thr[r].tkt)
    /\ ~tk[thr[r].tkt].answered /\ dead
    /\ tk' = [tk EXCEPT ![thr[r].tkt].answered = TRUE]
    /\ thr' = [thr EXCEPT ![r].pc = "waited", ![r].err = "ENOTCONN"]
    /\ UNCHANGED <<sess, queues, pool, env, panic>>

WaitSleep(r) ==
    /\ At(r, "wait") /\ Live(r) /\ ~AwHeld(thr[r].tkt)
    /\ ~tk[thr[r].tkt].answered /\ ~dead
    /\ thr' = [thr EXCEPT ![r].pc = "asleep"]
    /\ UNCHANGED <<sess, queues, pool, tk, env, panic>>

\* msleep returned 0
Woken(r) ==
    /\ At(r, "woken") /\ Live(r) /\ ~AwHeld(thr[r].tkt)
    /\ thr' = [thr EXCEPT ![r].pc = "waited",
                          ![r].err = IF tk[thr[r].tkt].answered THEN "none" ELSE "ENXIO"]
    /\ UNCHANGED <<sess, queues, pool, tk, env, panic>>

\* msleep returned EAGAIN after daemon_timeout; an answer may have come since
Timeout(r) ==
    /\ thr[r].pc \in {"asleep", "woken"} /\ Live(r) /\ ~AwHeld(thr[r].tkt)
    /\ "timeout" \in Events
    /\ thr' = [thr EXCEPT ![r].pc = "kill", ![r].ret = "timedout"]
    /\ UNCHANGED <<sess, queues, pool, tk, env, panic>>

TimedOut(r) ==
    /\ At(r, "timedout") /\ Live(r)
    /\ tk' = [tk EXCEPT ![thr[r].tkt].answered = TRUE]
    /\ thr' = [thr EXCEPT ![r].pc = "waited", ![r].err = "ENOTCONN"]
    /\ UNCHANGED <<sess, queues, pool, env, panic>>

\* msleep returned EINTR: fuse_internal_interrupt_send with aw_mtx held
Interrupted(r) ==
    /\ thr[r].pc \in {"asleep", "woken"} /\ Live(r) /\ ~AwHeld(thr[r].tkt)
    /\ "signal" \in Events
    /\ thr' = [thr EXCEPT ![r].pc = "fetch", ![r].saved = thr[r].tkt, ![r].tkt = NoTicket,
                          ![r].op = "INTERRUPT", ![r].err = "EINTR"]
    /\ UNCHANGED <<sess, queues, pool, tk, env, panic>>

-----------------------------------------------------------------------------
(* fuse_dispatcher_wait_answer, after the wait *)

\* interrupted although answered, or answered with an error: drop the ticket
WaitedDrop(r) ==
    LET t == thr[r].tkt IN
    /\ At(r, "waited") /\ Live(r)
    /\ IF thr[r].err # "none" THEN ~AwHeld(t) /\ tk[t].answered
                              ELSE tk[t].aw_errno \/ tk[t].oerror
    /\ thr' = [thr EXCEPT ![r].pc = "drop", ![r].ret = "idle", ![r].err = "none"]
    /\ UNCHANGED <<sess, queues, pool, tk, env, panic>>

\* Mutant: the ticket of an interrupted request is dropped, not left to the answer.
WaitedDetachDrop(r) ==
    LET t == thr[r].tkt IN
    /\ At(r, "waited") /\ Live(r)
    /\ thr[r].err # "none" /\ ~AwHeld(t) /\ ~tk[t].answered
    /\ tk' = [tk EXCEPT ![t].answered = TRUE]
    /\ thr' = [thr EXCEPT ![r].pc = "drop", ![r].ret = "idle", ![r].err = "none"]
    /\ UNCHANGED <<sess, queues, pool, env, panic>>

\* interrupted with no answer: leave the ticket to the callback of the late answer
WaitedDetach(r) ==
    LET t == thr[r].tkt IN
    /\ At(r, "waited") /\ Live(r)
    /\ thr[r].err # "none" /\ ~AwHeld(t) /\ ~tk[t].answered
    /\ tk' = [tk EXCEPT ![t].answered = TRUE]
    /\ thr' = [thr EXCEPT ![r] = IdleThread]
    /\ UNCHANGED <<sess, queues, pool, env, panic>>

WaitedOk(r) ==
    LET t == thr[r].tkt IN
    /\ At(r, "waited") /\ Live(r)
    /\ thr[r].err = "none" /\ ~tk[t].aw_errno /\ ~tk[t].oerror
    /\ thr' = [thr EXCEPT ![r].pc = "use"]
    /\ UNCHANGED <<sess, queues, pool, tk, env, panic>>

\* the caller has used the answer and drops the ticket, ...
UseDone(r) ==
    /\ At(r, "use") /\ Live(r)
    /\ thr' = [thr EXCEPT ![r].pc = "drop", ![r].ret = "idle"]
    /\ UNCHANGED <<sess, queues, pool, tk, env, panic>>

\* ... returns and loses it: a lookup answered with no node or the root's, an
\* answer without a file type, or no vnode for the entry.  The FORGET or RELEASE
\* of the last case is a SendForget or SendRelease that follows.
UseLeak(r) ==
    /\ At(r, "use") /\ Live(r)
    /\ "leak" \in Events
    /\ Lose(thr[r].tkt)
    /\ thr' = [thr EXCEPT ![r] = IdleThread]
    /\ UNCHANGED <<sess, queues, tk, env, panic>>

\* ... or makes its next request on it, as the loops of readdir, read, write do
Remake(r) ==
    /\ At(r, "use") /\ Live(r)
    /\ "remake" \in Events
    /\ nreq < MaxReqs
    /\ nreq' = nreq + 1
    /\ tk' = [tk EXCEPT ![thr[r].tkt] = Refresh(@)]
    /\ thr' = [thr EXCEPT ![r].pc = "made", ![r].rid = nreq + 1]
    /\ UNCHANGED <<sess, queues, pool, inbox, initSent, initAnswered, panic>>

-----------------------------------------------------------------------------
(* fuse_device_read *)

Reading(d) == At(d, "read") \/ (At(d, "idle") /\ devopen)

\* one round of the read loop under ms_mtx
ReadPop(d) ==
    /\ Reading(d) /\ ~dead /\ ms_head # <<>>
    /\ ms_head' = Tail(ms_head)
    /\ thr' = [thr EXCEPT ![d].pc = "got", ![d].tkt = Head(ms_head)]
    /\ UNCHANGED <<sess, aw_head, pool, tk, env, panic>>

ReadSleep(d) ==
    /\ Reading(d) /\ ~dead /\ ms_head = <<>>
    /\ thr' = [thr EXCEPT ![d].pc = "rsleep"]
    /\ UNCHANGED <<sess, queues, pool, tk, env, panic>>

\* ENODEV after a wakeup; or a signal to the daemon thread ends the sleep
ReadDead(d) ==
    /\ At(d, "read") /\ dead
    /\ thr' = [thr EXCEPT ![d].pc = "idle"]
    /\ UNCHANGED <<sess, queues, pool, tk, env, panic>>

ReadSignal(d) ==
    /\ At(d, "rsleep")
    /\ thr' = [thr EXCEPT ![d].pc = "idle"]
    /\ UNCHANGED <<sess, queues, pool, tk, env, panic>>

\* Mutant: every ticket is dropped once it has been read.
ReadReturnDrop(d) == thr' = [thr EXCEPT ![d] = [@ EXCEPT !.pc = "drop", !.ret = "idle"]]

\* fuse_ticket_drop_invalid at the end of a read
ReadReturn(d) ==
    thr' = [thr EXCEPT ![d] = IF tk[@.tkt].invalid
                              THEN [@ EXCEPT !.pc = "drop", !.ret = "idle"]
                              ELSE IdleThread]

\* Nothing to answer comes of this read: the session is dead, the copy failed
\* (EFAULT), the requester has left (EINTR), or the message wants no answer.
ReadNothing(d) ==
    /\ At(d, "got") /\ Live(d)
    /\ \/ dead \/ "efault" \in Events
       \/ tk[thr[d].tkt].answered \/ tk[thr[d].tkt].invalid
    /\ ReadReturn(d)
    /\ UNCHANGED <<sess, queues, pool, tk, env, panic>>

ReadDeliver(d) ==
    LET t == thr[d].tkt IN
    /\ At(d, "got") /\ Live(d)
    /\ ~dead
    /\ tk[t].op \notin OneWay
    /\ inbox' = inbox \cup {[unique |-> t, rid |-> tk[t].rid, op |-> tk[t].op]}
    /\ ReadReturn(d)
    /\ UNCHANGED <<sess, queues, pool, tk, initSent, initAnswered, nreq, panic>>

\* a buffer too small for the message: dead, with no wakeup of anybody
ReadShort(d) ==
    /\ At(d, "got") /\ Live(d)
    /\ ~dead
    /\ "short" \in Events
    /\ dead' = TRUE
    /\ ReadReturn(d)
    /\ UNCHANGED <<inited, devopen, queues, pool, tk, env, panic>>

-----------------------------------------------------------------------------
(* fuse_device_write and the answer callbacks *)

\* The search of aw_head for `unique' u touches every ticket up to the match and,
\* to unlink it, the one after; all of them if there is no match.
Matches(u)  == {i \in DOMAIN aw_head : aw_head[i] = u}
Walked(u)   == {aw_head[j] : j \in {k \in DOMAIN aw_head : \A i \in Matches(u) : k <= i + 1}}
WalkLive(u) == Walked(u) \cap pool.gone = {}

\* the daemon answers, in manner k, a message it has read
WriteFound(w, m, k) ==
    /\ At(w, "idle") /\ devopen /\ ~Rejecting /\ WalkLive(m.unique)
    /\ inbox' = inbox \ {m}
    /\ \E i \in Matches(m.unique) :
          /\ \A j \in Matches(m.unique) : i <= j
          /\ aw_head' = RemoveAt(aw_head, i)
    /\ thr' = [thr EXCEPT ![w].pc = "found", ![w].tkt = m.unique,
                          ![w].arid = m.rid, ![w].kind = k]
    /\ UNCHANGED <<sess, ms_head, pool, tk, initSent, initAnswered, nreq, panic>>

\* nobody awaits the answer any more
WriteUnknown(w, m) ==
    /\ At(w, "idle") /\ devopen /\ ~Rejecting /\ WalkLive(m.unique)
    /\ Matches(m.unique) = {}
    /\ inbox' = inbox \ {m}
    /\ UNCHANGED <<sess, queues, pool, tk, thr, initSent, initAnswered, nreq, panic>>

\* aw_ohead is copied in, and fuse_ticket_pull takes the body: its error
Pulled(s, me) ==
    [s EXCEPT !.orid = me.arid, !.oerror = (me.kind = "errreply"),
              !.killed = s.killed \/ (me.kind = "enomem" /\ ~dead)]
PullError(w) == thr[w].kind # "errreply" /\ (dead \/ thr[w].kind # "ok")

\* fuse_standard_callback, before it takes the ticket's aw_mtx
Pull(w) ==
    /\ At(w, "found") /\ Live(w)
    /\ tk[thr[w].tkt].cb = "standard"
    /\ tk' = [tk EXCEPT ![thr[w].tkt] = Pulled(@, thr[w])]
    /\ thr' = [thr EXCEPT ![w].pc = "answer", ![w].perr = PullError(w)]
    /\ UNCHANGED <<sess, queues, pool, env, panic>>

\* Mutant: the late answer does not drop the ticket its requester left behind.
AnswerDropNot(w) ==
    /\ At(w, "answer") /\ Live(w) /\ ~AwHeld(thr[w].tkt)
    /\ tk[thr[w].tkt].answered
    /\ thr' = [thr EXCEPT ![w] = IdleThread]
    /\ UNCHANGED <<sess, queues, pool, tk, env, panic>>

AnswerDrop(w) ==
    /\ At(w, "answer") /\ Live(w) /\ ~AwHeld(thr[w].tkt)
    /\ tk[thr[w].tkt].answered
    /\ thr' = [thr EXCEPT ![w] = [IdleThread EXCEPT !.pc = "drop", !.tkt = thr[w].tkt]]
    /\ UNCHANGED <<sess, queues, pool, tk, env, panic>>

AnswerWake(w) ==
    LET t == thr[w].tkt IN
    /\ At(w, "answer") /\ Live(w) /\ ~AwHeld(t)
    /\ ~tk[t].answered
    /\ tk' = [tk EXCEPT ![t].answered = TRUE, ![t].aw_errno = thr[w].perr]
    /\ thr' = WakeTicket([thr EXCEPT ![w] = IdleThread], t)
    /\ UNCHANGED <<sess, queues, pool, env, panic>>

\* fuse_internal_init_callback up to the drop of its ticket
InitCallback(w) ==
    LET failed == thr[w].kind = "errreply" \/ PullError(w) IN
    /\ At(w, "found") /\ Live(w)
    /\ tk[thr[w].tkt].cb = "init"
    /\ tk' = [tk EXCEPT ![thr[w].tkt] = Pulled(@, thr[w])]
    /\ initAnswered' = TRUE
    /\ thr' = [thr EXCEPT ![w] = [IdleThread EXCEPT !.pc = "drop", !.tkt = thr[w].tkt,
                                  !.ret = IF failed THEN "initfail" ELSE "setinit"]]
    /\ UNCHANGED <<sess, queues, pool, inbox, initSent, nreq, panic>>

\* fuse_internal_forget_callback reads no body and never drops its ticket; the FORGET
\* that it sends on the daemon's thread is a SendForget of some requester
ForgetCallback(w) ==
    LET t == thr[w].tkt IN
    /\ At(w, "found") /\ Live(w)
    /\ tk[t].cb = "forget"
    /\ tk' = [tk EXCEPT ![t].orid = thr[w].arid, ![t].oerror = (thr[w].kind = "errreply")]
    /\ Lose(t)
    /\ thr' = [thr EXCEPT ![w] = IdleThread]
    /\ UNCHANGED <<sess, queues, env, panic>>

InitFail(w) ==
    /\ At(w, "initfail")
    /\ thr' = [thr EXCEPT ![w].pc = "kill", ![w].ret = "setinit"]
    /\ UNCHANGED <<sess, queues, pool, tk, env, panic>>

SetInited(w) ==
    /\ At(w, "setinit")
    /\ inited' = TRUE
    /\ thr' = WakeIni([thr EXCEPT ![w] = IdleThread])
    /\ UNCHANGED <<dead, devopen, queues, pool, tk, env, panic>>

-----------------------------------------------------------------------------
(* fuse_device_kill (holds fdev->mtx throughout) and fuse_device_close *)

DeviceKill ==
    /\ "kill" \in Events
    /\ At(Killer, "idle") /\ ~At(Closer, "rejecting")
    /\ thr' = [thr EXCEPT ![Killer].pc = "kill", ![Killer].ret = "reject"]
    /\ UNCHANGED <<sess, queues, pool, tk, env, panic>>

\* the last reference to the device goes: no read or write is in progress
DeviceClose ==
    /\ "close" \in Events
    /\ At(Closer, "idle") /\ devopen
    /\ \A x \in Readers \cup Writers : At(x, "idle")
    /\ devopen' = FALSE
    /\ thr' = [thr EXCEPT ![Closer].pc = "kill", ![Closer].ret = "reject"]
    /\ UNCHANGED <<dead, inited, queues, pool, tk, env, panic>>

\* fuse_reject_answers, entered with fdev->mtx, takes data->aw_mtx
RejectBegin(a) ==
    /\ At(a, "reject") /\ (a = Closer => At(Killer, "idle"))
    /\ thr' = [thr EXCEPT ![a].pc = "rejecting"]
    /\ UNCHANGED <<sess, queues, pool, tk, env, panic>>

\* TAILQ_FOREACH reads the link of the ticket it has just rejected
RejectLinkLive(a) == thr[a].pos > 0 => aw_head[thr[a].pos] \notin pool.gone

RejectOne(a) ==
    LET t == aw_head[thr[a].pos + 1] IN
    /\ At(a, "rejecting") /\ RejectLinkLive(a)
    /\ thr[a].pos < Len(aw_head) /\ t \notin pool.gone /\ ~AwHeld(t)
    /\ tk' = [tk EXCEPT ![t].answered = TRUE, ![t].aw_errno = TRUE]
    /\ thr' = WakeTicket([thr EXCEPT ![a].pos = @ + 1], t)
    /\ UNCHANGED <<sess, queues, pool, env, panic>>

RejectEnd(a) ==
    /\ At(a, "rejecting") /\ RejectLinkLive(a)
    /\ thr[a].pos = Len(aw_head)
    /\ aw_head' = <<>>
    /\ thr' = [thr EXCEPT ![a] = IdleThread]
    /\ UNCHANGED <<sess, ms_head, pool, tk, env, panic>>

-----------------------------------------------------------------------------
(* Memory errors: a step would touch a ticket given back by fuse_ticket_destroy *)

DerefLabels == {"made", "cbins", "message", "msgins", "wait", "asleep", "woken",
                "timedout", "waited", "use", "drop", "push", "got", "found", "answer"}

TouchesFreed(x) ==
    \/ thr[x].pc \in DerefLabels /\ ~Live(x)
    \/ At(x, "cbins") /\ ~TailLive(aw_head)
    \/ At(x, "msgins") /\ ~TailLive(ms_head)
    \/ /\ x \in Writers /\ At(x, "idle") /\ devopen /\ ~Rejecting
       /\ \E m \in inbox : ~WalkLive(m.unique)
    \/ /\ At(x, "rejecting")
       /\ ~RejectLinkLive(x) \/ (/\ thr[x].pos < Len(aw_head)
                                 /\ aw_head[thr[x].pos + 1] \in pool.gone)

UseAfterFree(x) ==
    /\ TouchesFreed(x)
    /\ panic' = "use after free"
    /\ UNCHANGED <<sess, queues, pool, tk, thr, env>>

-----------------------------------------------------------------------------

RequesterStep(r) ==
    \/ FetchNone(r) \/ Alloc(r) \/ PushAll(r) \/ FetchFree(r) \/ FetchMismatch(r)
    \/ Make(r) \/ InsertCallback(r) \/ InsertMessageDead(r) \/ InsertMessageTest(r)
    \/ InsertMessageDirty(r) \/ InsertMessage(r) \/ WaitAnswered(r) \/ WaitDead(r)
    \/ WaitSleep(r) \/ Woken(r) \/ TimedOut(r) \/ WaitedDrop(r) \/ WaitedDetach(r)
    \/ WaitedOk(r) \/ UseDone(r)

RequesterEvent(r) ==
    \/ SendInit(r) \/ NewRequest(r) \/ SendForget(r) \/ SendRelease(r) \/ IniSignal(r)
    \/ MakeFail(r) \/ MakeDrop(r) \/ MakeLeak(r) \/ Timeout(r) \/ Interrupted(r)
    \/ UseLeak(r) \/ Remake(r)

ReaderStep(d) == ReadPop(d) \/ ReadSleep(d) \/ ReadDead(d) \/ ReadNothing(d) \/ ReadDeliver(d)
ReaderEvent(d) == ReadSignal(d) \/ ReadShort(d)

WriterStep(w) ==
    \/ \E m \in inbox : WriteUnknown(w, m) \/ \E k \in Replies : WriteFound(w, m, k)
    \/ Pull(w) \/ AnswerDrop(w) \/ AnswerWake(w)
    \/ ForgetCallback(w) \/ InitCallback(w) \/ InitFail(w) \/ SetInited(w)

AdminStep(a) == RejectBegin(a) \/ RejectOne(a) \/ RejectEnd(a)

SharedStep(x) ==
    \/ KillData(x) \/ KillWake(x) \/ DropDestroy(x) \/ DropRefresh(x)
    \/ DropPush(x) \/ UseAfterFree(x)

\* the machine stops at the first panic or memory error
Next ==
    /\ panic = "none"
    /\ \/ \E r \in Requesters : RequesterStep(r) \/ RequesterEvent(r)
       \/ \E d \in Readers : ReaderStep(d) \/ ReaderEvent(d)
       \/ \E w \in Writers : WriterStep(w)
       \/ \E a \in Admins : AdminStep(a)
       \/ DeviceKill \/ DeviceClose
       \/ \E x \in Threads : SharedStep(x)

Spec == Init /\ [][Next]_vars

(* Fairness.  The kernel schedules runnable threads, so a thread that can     *)
(* run its next step runs it.  The daemon keeps reading, answers what it has  *)
(* read, and once the session is dead its threads leave read(2) and it closes *)
(* the device.  Signals, timeouts, the sysctl and new requests need not come. *)
Run(A) == panic = "none" /\ A

Fairness ==
    /\ \A r \in Requesters : WF_vars(Run(RequesterStep(r)))
    /\ \A d \in Readers : WF_vars(Run(ReaderStep(d))) /\ WF_vars(Run(dead /\ ReadSignal(d)))
    /\ \A w \in Writers : WF_vars(Run(WriterStep(w)))
    /\ \A a \in Admins : WF_vars(Run(AdminStep(a)))
    /\ \A x \in Threads : WF_vars(Run(SharedStep(x)))
    /\ WF_vars(Run(dead /\ DeviceClose))

FairSpec == Spec /\ Fairness

-----------------------------------------------------------------------------
(* Properties *)

PoolState ==
    [free: Seq(Tickets), loop: BOOLEAN, freeticket_counter: Nat, deadticket_counter: Nat,
     ticketer: 0 .. MaxTickets, all: SUBSET Tickets, gone: SUBSET Tickets,
     lost: SUBSET Tickets]

\* The type invariant: in particular every queue and list holds tickets only, and
\* freeticket_counter never goes below zero.
TypeOK ==
    /\ dead \in BOOLEAN /\ inited \in BOOLEAN /\ devopen \in BOOLEAN
    /\ ms_head \in Seq(Tickets) /\ aw_head \in Seq(Tickets)
    /\ pool \in PoolState
    /\ tk \in [Tickets -> TicketState]
    /\ thr \in [Threads -> ThreadState]
    /\ inbox \subseteq [unique: Tickets, rid: Rids, op: Ops]
    /\ initSent \in BOOLEAN /\ initAnswered \in BOOLEAN
    /\ nreq \in Rids
    /\ panic \in {"none", "ticket count mismatch!", "use after free",
                  "ticket reused without being refreshed"}

\* Before the daemon's answer to INIT has been looked at
\* (fuse_internal_init_callback), INIT is the only message queued for it or in
\* its hands: every other fetch sleeps in "fu_ini", and a session that is killed
\* meanwhile queues nothing.
HandshakeFirst ==
    ~initAnswered =>
        /\ \A t \in ToSet(ms_head) : tk[t].op = "INIT"
        /\ \A m \in inbox : m.op = "INIT"

\* While the session is alive, a requester that fuse_ticket_wait_answer tells
\* "answered" has the answer to its own request, although tickets and their
\* `unique' are reused after interrupted requests (fuse_dispatcher_wait_answer).
ReplyMatches ==
    \A r \in Requesters :
        ~dead /\ thr[r].pc \in {"waited", "use"} /\ thr[r].err = "none"
            => tk[thr[r].tkt].answered /\ tk[thr[r].tkt].orid = thr[r].rid

Holders(t) == {x \in Threads : thr[x].tkt = t \/ thr[x].saved = t}

\* While the session is alive, a ticket on freetickets_head is there once, is
\* clean, and is in no queue and in no thread's hands; freeticket_counter counts
\* the list (the condition fuse_pop_freeticks panics on).
FreeTicketsUnused ==
    ~dead =>
        /\ pool.freeticket_counter = Len(pool.free)
        /\ \A i \in DOMAIN pool.free :
              LET t == pool.free[i] IN
              /\ \A j \in DOMAIN pool.free : pool.free[j] = t => j = i
              /\ t \notin ToSet(ms_head) \cup ToSet(aw_head) \cup pool.gone
              /\ Holders(t) = {}
              /\ tk[t] = Refresh(tk[t])

\* While the session is alive the message path loses no ticket: each one allocated
\* and not destroyed is free, queued, awaiting an answer, or in some thread's
\* hands, except for those that a caller's error exit (MakeLeak, UseLeak) or
\* fuse_internal_forget_callback did not drop, and of these nothing is left.
NoTicketLost ==
    ~dead => \A t \in pool.all :
        t \in pool.lost <=>
            /\ t \notin ToSet(pool.free) \cup ToSet(ms_head) \cup ToSet(aw_head)
            /\ Holders(t) = {}

\* While the session is alive, nothing that a queue or a thread refers to has
\* been destroyed (fuse_ticket_drop, fuse_ticket_kill).
NoDanglingTicket ==
    ~dead => \A t \in pool.gone :
        /\ t \notin ToSet(ms_head) \cup ToSet(aw_head) \cup ToSet(pool.free)
        /\ Holders(t) = {}

\* ticketer - deadticket_counter, which fuse_ticket_fetch holds against
\* fuse_max_tickets, is the number of tickets in memory, also after kills,
\* failed allocations and tickets dropped twice.
TicketAccount ==
    /\ pool.ticketer - pool.deadticket_counter =
           Cardinality(pool.all) + Cardinality({r \in Requesters : At(r, "pushall")})
    /\ pool.deadticket_counter = Cardinality(pool.gone)

\* With fuse_max_tickets set, interrupted requests whose answers never come do not
\* pile up in a session that goes on: the fetch that exceeds the limit kills it.
\* The fetches that slept in "fu_ini" are not counted against the limit, so
\* INIT and one request of every requester may be there beyond it.
TicketLimit ==
    \/ FuseMaxTickets = 0 \/ dead
    \/ \E r \in Requesters : thr[r].pc \in {"pushall", "kill"}
    \/ pool.ticketer - pool.deadticket_counter <= FuseMaxTickets
    \/ pool.ticketer - pool.deadticket_counter <= 1 + Cardinality(Requesters)

\* The panics of fuse_pop_freeticks and fuse_insert_message are never reached.
NoPanic == panic \notin {"ticket count mismatch!", "ticket reused without being refreshed"}

\* Every requester asleep in "fu_ans" is woken, by its answer or by
\* fuse_reject_answers after a kill or close.
AnswerArrives == \A r \in Requesters : At(r, "asleep") ~> ~At(r, "asleep")

\* Every fetch asleep in "fu_ini" goes on once INIT is answered, unless the
\* session dies first.
IniSleepEnds == \A r \in Requesters : At(r, "ini") ~> (~At(r, "ini") \/ dead)

-----------------------------------------------------------------------------
(* Where a thread has a ticket *)

KeepsTicket == DerefLabels \cup {"pushall", "ini"}

\* A thread has a ticket in hand wherever the code uses one, also across a call
\* of fuse_data_kill; fuse_ticket_drop never returns to such a place.
HoldOk(s) ==
    /\ s.pc \in KeepsTicket => s.tkt \in Tickets
    /\ s.pc \in {"kill", "killw"} /\ s.ret \in KeepsTicket => s.tkt \in Tickets
    /\ s.pc \in {"ini", "kill", "killw"} => s.ret \notin {"drop", "push"}
    /\ s.pc \in {"drop", "push"} => s.ret \notin KeepsTicket
    /\ s.op = "INTERRUPT" => s.saved \in Tickets

Holding == \A x \in Threads : HoldOk(thr[x])
=============================================================================
