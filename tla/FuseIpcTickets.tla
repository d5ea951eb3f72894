--------------------------- MODULE FuseIpcTickets ---------------------------
(***************************************************************************)
(* The tickets of a session, for any number of threads, tickets and        *)
(* requests, any limits and any set of events: their number                *)
(* (TicketAccount, TicketLimit), and who may touch which ticket while the  *)
(* session is alive (FreeTicketsUnused, NoTicketLost, NoDanglingTicket,    *)
(* ReplyMatches).                                                          *)
(*                                                                         *)
(* The argument.  While the session is alive a ticket is in few places at  *)
(* a time: on the free list, or with one thread alone, or on its way to    *)
(* the daemon and back while its requester waits for it or has left it.    *)
(* OwnOk says which places go together; it speaks of one ticket, and a     *)
(* step changes the places of one ticket only.                             *)
(***************************************************************************)
EXTENDS FuseIpcProofs, FiniteSetTheorems

USE ThreadsAssumption, BoundsAssumption

-----------------------------------------------------------------------------
(* The inductive invariant of a session that is alive *)

\* What thread x does with ticket t: it has it for itself, queues its message,
\* waits for its answer, has read its message, or writes its answer.
Role(x, t) ==
    LET s == thr[x] IN
    IF s.tkt = t
    THEN IF s.pc \in {"pushall", "ini", "made", "cbins", "drop", "push"}
              \/ (s.pc = "kill" /\ s.ret = "made") THEN "alone"
         ELSE IF s.pc \in {"message", "msgins"} THEN "send"
         ELSE IF s.pc = "got" THEN "got"
         ELSE IF s.pc \in {"found", "answer"} THEN "answer"
         ELSE "wait"
    ELSE IF s.saved = t THEN "wait" ELSE "none"

Roles(t) == [x \in Threads |-> Role(x, t)]

Clean(s) == s = Refresh(s)

\* A ticket with fields s, where thread x has role k[x].  p says in which lists it
\* is: the free list, ms_head, aw_head; or that nobody can refer to it (Unused).
OwnOk(p, k, s) ==
    /\ \A x, y \in Threads : x # y /\ k[x] # "none" =>
          k[y] = "none" \/ (k[x] = "wait" /\ k[y] \in {"got", "answer"})
                        \/ (k[y] = "wait" /\ k[x] \in {"got", "answer"})
    /\ "free" \in p => /\ "ms" \notin p /\ "aw" \notin p /\ Clean(s)
                       /\ \A x \in Threads : k[x] = "none"
    /\ "unused" \in p <=> /\ "free" \notin p /\ "ms" \notin p /\ "aw" \notin p
                          /\ \A x \in Threads : k[x] = "none"
    /\ "ms" \in p => /\ \A x \in Threads : k[x] \in {"none", "wait"}
                     /\ "aw" \in p <=> ~s.invalid
                     /\ s.invalid => \A x \in Threads : k[x] = "none"
    /\ "aw" \in p => /\ \A x \in Threads : k[x] \in {"none", "send", "wait", "got"}
                     /\ ~s.invalid /\ s.cb # "none"
    /\ \A x \in Threads :
          /\ k[x] = "alone" => "ms" \notin p /\ "aw" \notin p
          /\ k[x] = "send" => "ms" \notin p /\ ("aw" \in p <=> ~s.invalid)
          /\ k[x] = "got" => /\ "ms" \notin p /\ ("aw" \in p <=> ~s.invalid)
                             /\ s.invalid => \A y \in Threads \ {x} : k[y] = "none"
          /\ k[x] = "answer" => "ms" \notin p /\ "aw" \notin p /\ ~s.invalid /\ s.cb # "none"
          /\ k[x] = "wait" => /\ s.cb = "standard" /\ ~s.invalid
                              /\ ~s.answered => "aw" \in p \/ \E w \in Threads : k[w] = "answer"
                              /\ s.answered => /\ "ms" \notin p /\ "aw" \notin p /\ s.orid = s.rid
                                               /\ \A y \in Threads \ {x} : k[y] = "none"
    /\ ("aw" \in p \/ \E w \in Threads : k[w] = "answer") /\ s.cb = "standard" /\ ~s.answered =>
          \E r \in Threads : k[r] \in {"send", "wait"}

\* not allocated, destroyed, or lost by a caller
Unused(t) == t \in pool.gone \/ t \in pool.lost \/ t >= pool.ticketer

Places(t) ==
    {l \in {"free", "ms", "aw", "unused"} :
        \/ l = "free" /\ t \in ToSet(pool.free)
        \/ l = "ms" /\ t \in ToSet(ms_head)
        \/ l = "aw" /\ t \in ToSet(aw_head)
        \/ l = "unused" /\ Unused(t)}

Owned(t) == OwnOk(Places(t), Roles(t), tk[t])

\* A message in the daemon's hands is that of a ticket that awaits its answer.
InboxOk(b) ==
    LET t == b.unique IN
    /\ t \in ToSet(aw_head) /\ t \notin ToSet(ms_head)
    /\ \A x \in Threads : Role(x, t) \in {"none", "wait"}
    /\ b.rid = tk[t].rid /\ b.op = tk[t].op

Waits == {"wait", "asleep", "woken", "waited", "use"}

RequesterOk(s) ==
    /\ s.tkt = NoTicket <=> s.pc \in {"idle", "fetch", "alloc"}
    /\ s.saved # NoTicket <=> s.op = "INTERRUPT"
    /\ IF s.pc = "idle" THEN s.op # "INTERRUPT" ELSE s.op # "none"
    /\ s.saved # NoTicket => s.saved # s.tkt /\ s.err # "none" /\ tk[s.saved].rid = s.rid
    /\ s.pc \in {"idle", "fetch", "alloc", "pushall", "ini", "made", "cbins", "message", "msgins",
                 "drop", "push", "kill"} \cup Waits
    /\ s.pc = "kill" => s.ret \in {"made", "timedout"}
    /\ s.pc \in Waits \cup {"drop", "push"} \/ (s.pc = "kill" /\ s.ret = "timedout") => s.op = "REQ"
    /\ s.pc \in {"pushall", "ini", "made", "push"} \/ (s.pc = "kill" /\ s.ret = "made")
          => Clean(tk[s.tkt])
    /\ s.pc = "cbins" => s.op \notin OneWay
    /\ s.pc \in {"cbins", "message", "msgins"} =>
          /\ tk[s.tkt].rid = s.rid /\ ~tk[s.tkt].answered
          /\ tk[s.tkt].invalid <=> s.op \in OneWay
          /\ s.op \notin OneWay => tk[s.tkt].cb = CallbackOf(s.op)
          /\ s.pc # "msgins" => ~tk[s.tkt].dirty
    /\ s.pc \in Waits \/ (s.pc = "kill" /\ s.ret = "timedout") => tk[s.tkt].rid = s.rid
    /\ s.op # "INTERRUPT" /\ s.pc # "waited" => s.err = "none"
    /\ s.pc \in {"waited", "use"} /\ s.err = "none" => tk[s.tkt].answered

ReaderOk(s) ==
    /\ s.saved = NoTicket
    /\ s.tkt # NoTicket <=> s.pc \in {"got", "drop", "push"}
    /\ s.pc # "rejecting" /\ (s.pc \in {"drop", "push"} => s.ret = "idle")
    /\ s.pc = "push" => Clean(tk[s.tkt])

WriterOk(s) ==
    /\ s.saved = NoTicket
    /\ s.tkt # NoTicket <=> s.pc \in {"found", "answer", "drop", "push"}
    /\ s.pc # "rejecting" /\ (s.pc \in {"drop", "push"} => s.ret # "rejecting")
    /\ s.pc = "push" => Clean(tk[s.tkt])
    /\ s.pc \in {"found", "answer"} => s.arid = tk[s.tkt].rid
    /\ s.pc = "answer" => tk[s.tkt].orid = s.arid /\ tk[s.tkt].cb = "standard"

AdminOk(s) == s.tkt = NoTicket /\ s.saved = NoTicket /\ s.pc \notin {"reject", "rejecting"}

NoRepeat(q) == \A i, j \in DOMAIN q : q[i] = q[j] => i = j

AliveOk ==
    /\ \A t \in Tickets : Owned(t)
    /\ \A t \in Tickets : t >= pool.ticketer => Clean(tk[t])
    /\ \A b \in inbox : InboxOk(b)
    /\ \A r \in Requesters : RequesterOk(thr[r])
    /\ \A d \in Readers : ReaderOk(thr[d])
    /\ \A w \in Writers : WriterOk(thr[w])
    /\ \A a \in Admins : AdminOk(thr[a])
    /\ NoRepeat(ms_head) /\ NoRepeat(aw_head) /\ NoRepeat(pool.free)
    /\ ~pool.loop /\ pool.freeticket_counter = Len(pool.free)
    /\ panic = "none"

\* What is marked invalid wants no answer.
HeaderOk == \A t \in Tickets : tk[t].invalid => tk[t].op \in OneWay

AliveInv == ~dead => AliveOk /\ HeaderOk

-----------------------------------------------------------------------------
(* The number of tickets, dead or alive *)

\* in allticks_head, or destroyed
Known == pool.all \cup pool.gone

\* Nobody but the thread that is about to put a new ticket into allticks_head has
\* heard of it.
AccountOk ==
    /\ pool.all \cap pool.gone = {}
    /\ Known \subseteq 0 .. pool.ticketer - 1
    /\ ToSet(ms_head) \cup ToSet(aw_head) \cup ToSet(pool.free) \cup pool.lost \subseteq Known
    /\ \A b \in inbox : b.unique \in Known
    /\ \A x \in Threads :
          /\ thr[x].ret # "pushall"
          /\ thr[x].saved \in Known \cup {NoTicket}
          /\ thr[x].pc # "pushall" => thr[x].tkt \in Known \cup {NoTicket}
          /\ thr[x].pc = "pushall" => thr[x].tkt \notin Known /\ thr[x].tkt < pool.ticketer
    /\ \A x, y \in Threads :
          thr[x].pc = "pushall" /\ thr[y].pc = "pushall" /\ thr[x].tkt = thr[y].tkt => x = y

\* The requesters with a ticket that is not in allticks_head yet.
Pushing == {r \in Requesters : At(r, "pushall")}

\* The counters count.
CountOk ==
    /\ IsFiniteSet(pool.all) /\ IsFiniteSet(pool.gone) /\ IsFiniteSet(Pushing)
    /\ TicketAccount

\* The requesters held up before the answer to INIT, with a new ticket or an old one.
HeldUp == {r \in Requesters : thr[r].pc \in {"pushall", "ini"}}

\* Until INIT is answered every ticket but that of INIT is with a requester held up.
LimitOk ==
    \/ dead \/ inited \/ \E r \in Requesters : At(r, "kill")
    \/ pool.ticketer <= 1 + Cardinality(HeldUp)

-----------------------------------------------------------------------------
(* How a ticket may move: what OwnOk allows, whatever the state *)

\* thread x changes its role from one to another, the rest keep theirs
Turns(k, j, x, from, to) ==
    k[x] = from /\ j[x] = to /\ \A y \in Threads \ {x} : j[y] = k[y]

\* Only membership in p and the values of k matter.
LEMMA OwnSame ==
    ASSUME NEW p, NEW k, NEW s, NEW q, NEW j, OwnOk(p, k, s),
           \A l \in {"free", "ms", "aw", "unused"} : l \in q <=> l \in p,
           \A x \in Threads : j[x] = k[x]
    PROVE  OwnOk(q, j, s)
BY DEF OwnOk

\* A thread that has a ticket alone: nobody else has it and no list holds it.
LEMMA AloneIs ==
    ASSUME NEW p, NEW k, NEW s, OwnOk(p, k, s),
           NEW x \in Threads, k[x] = "alone"
    PROVE  /\ "free" \notin p /\ "ms" \notin p /\ "aw" \notin p /\ "unused" \notin p
           /\ \A y \in Threads \ {x} : k[y] = "none"
BY DEF OwnOk

\* It may do what it likes with it, ...
LEMMA AloneStays ==
    ASSUME NEW p, NEW k, NEW s, OwnOk(p, k, s),
           NEW x \in Threads, NEW j, Turns(k, j, x, "alone", "alone"), NEW s1
    PROVE  OwnOk({}, j, s1)
<1>1. /\ "free" \notin p /\ "ms" \notin p /\ "aw" \notin p /\ "unused" \notin p
      /\ \A y \in Threads \ {x} : k[y] = "none"
  BY AloneIs DEF Turns
<1> QED BY <1>1 DEF OwnOk, Turns

\* ... destroy it, ...
LEMMA AloneGone ==
    ASSUME NEW p, NEW k, NEW s, OwnOk(p, k, s),
           NEW x \in Threads, NEW j, Turns(k, j, x, "alone", "none")
    PROVE  OwnOk({"unused"}, j, s)
<1>1. /\ "free" \notin p /\ "ms" \notin p /\ "aw" \notin p /\ "unused" \notin p
      /\ \A y \in Threads \ {x} : k[y] = "none"
  BY AloneIs DEF Turns
<1> QED BY <1>1 DEF OwnOk, Turns

\* ... lose it, as anybody may who is the last to have it, ...
LEMMA NobodyHas ==
    ASSUME NEW j, NEW s, \A x \in Threads : j[x] = "none"
    PROVE  OwnOk({"unused"}, j, s)
BY DEF OwnOk

\* ... give it back, ...
LEMMA AloneFree ==
    ASSUME NEW p, NEW k, NEW s, OwnOk(p, k, s),
           NEW x \in Threads, NEW j, Turns(k, j, x, "alone", "none"), Clean(s)
    PROVE  OwnOk({"free"}, j, s)
<1>1. /\ "free" \notin p /\ "ms" \notin p /\ "aw" \notin p /\ "unused" \notin p
      /\ \A y \in Threads \ {x} : k[y] = "none"
  BY AloneIs DEF Turns
<1> QED BY <1>1 DEF OwnOk, Turns

\* ... or begin to send it, after it registered a callback or with none.
LEMMA AloneSends ==
    ASSUME NEW p, NEW k, NEW s, OwnOk(p, k, s),
           NEW x \in Threads, NEW j, Turns(k, j, x, "alone", "send"), NEW s1,
           NEW q \in {{}, {"aw"}}, "aw" \in q <=> ~s1.invalid, "aw" \in q => s1.cb # "none"
    PROVE  OwnOk(q, j, s1)
<1>1. /\ "free" \notin p /\ "ms" \notin p /\ "aw" \notin p /\ "unused" \notin p
      /\ \A y \in Threads \ {x} : k[y] = "none"
  BY AloneIs DEF Turns
<1> QED BY <1>1 DEF OwnOk, Turns

\* A free ticket and one not used are taken by one thread.
LEMMA FreeTaken ==
    ASSUME NEW p, NEW k, NEW s, OwnOk(p, k, s), "free" \in p \/ "unused" \in p,
           NEW x \in Threads, NEW j, j[x] = "alone", \A y \in Threads \ {x} : j[y] = k[y]
    PROVE  OwnOk({}, j, s)
<1>1. "ms" \notin p /\ "aw" \notin p /\ \A y \in Threads : k[y] = "none"
  BY DEF OwnOk
<1> QED BY <1>1 DEF OwnOk

\* The sender of a message: nobody else has its ticket, and it is not queued yet.
LEMMA SenderIs ==
    ASSUME NEW p, NEW k, NEW s, OwnOk(p, k, s),
           NEW x \in Threads, k[x] = "send"
    PROVE  /\ "free" \notin p /\ "ms" \notin p /\ "unused" \notin p /\ ("aw" \in p <=> ~s.invalid) /\ ("aw" \in p => s.cb # "none")
           /\ \A y \in Threads \ {x} : k[y] = "none"
BY DEF OwnOk

\* It queues the message and waits for the answer, or leaves.
LEMMA SendStays ==
    ASSUME NEW p, NEW k, NEW s, OwnOk(p, k, s),
           NEW x \in Threads, NEW j, Turns(k, j, x, "send", "send"), NEW s1,
           s1.invalid = s.invalid, s1.cb = s.cb
    PROVE  OwnOk((p \cap {"aw"}), j, s1)
<1>1. /\ "free" \notin p /\ "ms" \notin p /\ "unused" \notin p /\ ("aw" \in p <=> ~s.invalid) /\ ("aw" \in p => s.cb # "none")
      /\ \A y \in Threads \ {x} : k[y] = "none"
  BY SenderIs DEF Turns
<1> QED BY <1>1 DEF OwnOk, Turns

\* The sender puts its message on ms_head; it waits for the answer, or has done with
\* the ticket.
LEMMA SendQueues ==
    ASSUME NEW p, NEW k, NEW s, OwnOk(p, k, s),
           NEW x \in Threads, NEW j,
           \/ Turns(k, j, x, "send", "wait") /\ s.cb = "standard" /\ ~s.answered /\ ~s.invalid
           \/ Turns(k, j, x, "send", "none") /\ (s.invalid \/ s.cb # "standard")
    PROVE  OwnOk({"ms"} \cup (p \cap {"aw"}), j, s)
<1>1. /\ "free" \notin p /\ "ms" \notin p /\ "unused" \notin p /\ ("aw" \in p <=> ~s.invalid) /\ ("aw" \in p => s.cb # "none")
      /\ \A y \in Threads \ {x} : k[y] = "none"
  BY SenderIs DEF Turns
<1>2. CASE Turns(k, j, x, "send", "wait") /\ s.cb = "standard" /\ ~s.answered /\ ~s.invalid
  BY <1>1, <1>2 DEF OwnOk, Turns
<1>3. CASE Turns(k, j, x, "send", "none") /\ (s.invalid \/ s.cb # "standard")
  BY <1>1, <1>3 DEF OwnOk, Turns
<1> QED BY <1>2, <1>3

\* A reader takes a message off the queue: at most its requester has the ticket.
LEMMA MessageRead ==
    ASSUME NEW p, NEW k, NEW s, OwnOk(p, k, s), "ms" \in p,
           NEW x \in Threads, NEW j, Turns(k, j, x, "none", "got")
    PROVE  OwnOk((p \cap {"aw"}), j, s)
<1>1. /\ "free" \notin p /\ "unused" \notin p /\ ("aw" \in p <=> ~s.invalid) /\ (s.invalid => \A y \in Threads : k[y] = "none")
      /\ \A y \in Threads : k[y] \in {"none", "wait"}
      /\ "aw" \in p => s.cb # "none"
  BY DEF OwnOk
<1>2. \A y, z \in Threads : y # z /\ k[y] = "wait" => k[z] # "wait"
  BY DEF OwnOk
<1>3. \A y \in Threads : k[y] = "wait" =>
        /\ s.cb = "standard" /\ ~s.invalid /\ "aw" \in p /\ ~s.answered
  BY <1>1 DEF OwnOk
<1>4. "aw" \in p /\ s.cb = "standard" /\ ~s.answered => \E r \in Threads \ {x} : k[r] = "wait"
  BY <1>1 DEF OwnOk, Turns
<1>5. j[x] = "got" /\ \A y \in Threads \ {x} : j[y] = k[y]
  BY DEF Turns
<1> QED BY <1>1, <1>2, <1>3, <1>4, <1>5 DEF OwnOk

\* The reader is done: a message that wants no answer is dropped by it, another
\* one is left on aw_head.
LEMMA ReadDone ==
    ASSUME NEW p, NEW k, NEW s, OwnOk(p, k, s),
           NEW x \in Threads, NEW j,
           \/ Turns(k, j, x, "got", "alone") /\ s.invalid
           \/ Turns(k, j, x, "got", "none") /\ ~s.invalid
    PROVE  OwnOk((p \cap {"aw"}), j, s) /\ "free" \notin p /\ "ms" \notin p /\ "unused" \notin p
<1>0. k[x] = "got" /\ \A y \in Threads \ {x} : j[y] = k[y]
  BY DEF Turns
<1>1. /\ "free" \notin p /\ "ms" \notin p /\ "unused" \notin p /\ ("aw" \in p <=> ~s.invalid)
      /\ s.invalid => \A y \in Threads \ {x} : k[y] = "none"
      /\ "aw" \in p => s.cb # "none"
      /\ \A y \in Threads \ {x} : k[y] \in {"none", "wait"}
  BY <1>0 DEF OwnOk
<1>2. CASE Turns(k, j, x, "got", "alone") /\ s.invalid
  BY <1>1, <1>2 DEF OwnOk, Turns
<1>3. CASE Turns(k, j, x, "got", "none") /\ ~s.invalid
  <2>1. \A y, z \in Threads \ {x} : y # z /\ k[y] = "wait" => k[z] # "wait"
    BY DEF OwnOk
  <2>2. \A y \in Threads \ {x} : k[y] = "wait" => s.cb = "standard" /\ ~s.answered
    BY <1>0, <1>1 DEF OwnOk
  <2>3. s.cb = "standard" /\ ~s.answered => \E r \in Threads \ {x} : k[r] = "wait"
    BY <1>0, <1>1, <1>3 DEF OwnOk
  <2>4. j[x] = "none" /\ "aw" \in p /\ ~s.invalid
    BY <1>1, <1>3 DEF Turns
  <2> QED BY <1>0, <1>1, <2>1, <2>2, <2>3, <2>4 DEF OwnOk
<1> QED BY <1>1, <1>2, <1>3

\* A writer takes the ticket off aw_head, nobody sending or reading its message.
LEMMA AnswerBegins ==
    ASSUME NEW p, NEW k, NEW s, OwnOk(p, k, s), "aw" \in p, "ms" \notin p,
           \A y \in Threads : k[y] \in {"none", "wait"},
           NEW x \in Threads, NEW j, Turns(k, j, x, "none", "answer")
    PROVE  OwnOk({}, j, s) /\ "free" \notin p /\ "unused" \notin p
<1>1. "free" \notin p /\ "unused" \notin p /\ ~s.invalid /\ s.cb # "none"
  BY DEF OwnOk
<1>2. \A y, z \in Threads : y # z /\ k[y] = "wait" => k[z] # "wait"
  BY DEF OwnOk
<1>3. \A y \in Threads : k[y] = "wait" => s.cb = "standard" /\ ~s.answered
  BY DEF OwnOk
<1>4. s.cb = "standard" /\ ~s.answered => \E r \in Threads \ {x} : k[r] = "wait"
  BY DEF OwnOk, Turns
<1>5. j[x] = "answer" /\ \A y \in Threads \ {x} : j[y] = k[y]
  BY DEF Turns
<1> QED BY <1>1, <1>2, <1>3, <1>4, <1>5 DEF OwnOk

\* A writer with the ticket: at most its requester waits for it.
LEMMA WriterIs ==
    ASSUME NEW p, NEW k, NEW s, OwnOk(p, k, s),
           NEW x \in Threads, k[x] = "answer"
    PROVE  /\ "free" \notin p /\ "ms" \notin p /\ "aw" \notin p /\ "unused" \notin p /\ ~s.invalid /\ s.cb # "none"
           /\ \A y \in Threads \ {x} : k[y] \in {"none", "wait"}
           /\ \A y, z \in Threads \ {x} : y # z /\ k[y] = "wait" => k[z] = "none"
           /\ \A y \in Threads \ {x} : k[y] = "wait" => s.cb = "standard" /\ ~s.answered
           /\ s.cb = "standard" /\ ~s.answered => \E r \in Threads \ {x} : k[r] = "wait"
<1>1. "free" \notin p /\ "ms" \notin p /\ "aw" \notin p /\ "unused" \notin p /\ ~s.invalid /\ s.cb # "none"
  BY DEF OwnOk
<1>2. \A y \in Threads \ {x} : k[y] \in {"none", "wait"}
  BY DEF OwnOk
<1>3. \A y, z \in Threads \ {x} : y # z /\ k[y] = "wait" => k[z] = "none"
  BY <1>2 DEF OwnOk
<1>4. \A y \in Threads \ {x} : k[y] = "wait" => s.cb = "standard" /\ ~s.answered
  BY DEF OwnOk
<1>5. s.cb = "standard" /\ ~s.answered => \E r \in Threads \ {x} : k[r] = "wait"
  BY <1>2 DEF OwnOk
<1> QED BY <1>1, <1>2, <1>3, <1>4, <1>5

\* It copies the answer in, ...
LEMMA AnswerStays ==
    ASSUME NEW p, NEW k, NEW s, OwnOk(p, k, s),
           NEW x \in Threads, NEW j, Turns(k, j, x, "answer", "answer"), NEW s1,
           s1.invalid = s.invalid, s1.cb = s.cb, s1.answered = s.answered
    PROVE  OwnOk({}, j, s1)
<1>1. /\ "free" \notin p /\ "ms" \notin p /\ "aw" \notin p /\ "unused" \notin p /\ ~s.invalid /\ s.cb # "none"
      /\ \A y \in Threads \ {x} : k[y] \in {"none", "wait"}
      /\ \A y, z \in Threads \ {x} : y # z /\ k[y] = "wait" => k[z] = "none"
      /\ \A y \in Threads \ {x} : k[y] = "wait" => s.cb = "standard" /\ ~s.answered
      /\ s.cb = "standard" /\ ~s.answered => \E r \in Threads \ {x} : k[r] = "wait"
  BY WriterIs DEF Turns
<1>2. j[x] = "answer" /\ \A y \in Threads \ {x} : j[y] = k[y]
  BY DEF Turns
<1> QED BY <1>1, <1>2 DEF OwnOk

\* ... wakes the requester with the answer to its request, ...
LEMMA AnswerGiven ==
    ASSUME NEW p, NEW k, NEW s, OwnOk(p, k, s),
           NEW x \in Threads, NEW j, Turns(k, j, x, "answer", "none"),
           ~s.answered, s.cb = "standard", NEW s1, s1.answered, s1.orid = s1.rid,
           s1.invalid = s.invalid, s1.cb = s.cb
    PROVE  OwnOk({}, j, s1)
<1>1. /\ "free" \notin p /\ "ms" \notin p /\ "aw" \notin p /\ "unused" \notin p /\ ~s.invalid /\ s.cb # "none"
      /\ \A y \in Threads \ {x} : k[y] \in {"none", "wait"}
      /\ \A y, z \in Threads \ {x} : y # z /\ k[y] = "wait" => k[z] = "none"
      /\ \E r \in Threads \ {x} : k[r] = "wait"
  BY WriterIs DEF Turns
<1>2. j[x] = "none" /\ \A y \in Threads \ {x} : j[y] = k[y]
  BY DEF Turns
<1> QED BY <1>1, <1>2 DEF OwnOk

\* ... or has the ticket alone when nobody waits for it.
LEMMA AnswerAlone ==
    ASSUME NEW p, NEW k, NEW s, OwnOk(p, k, s),
           NEW x \in Threads, NEW j, Turns(k, j, x, "answer", "alone"),
           s.answered \/ s.cb # "standard", NEW s1
    PROVE  OwnOk({}, j, s1)
<1>1. /\ "free" \notin p /\ "ms" \notin p /\ "aw" \notin p /\ "unused" \notin p
      /\ \A y \in Threads \ {x} : k[y] = "none"
  BY WriterIs DEF Turns
<1>2. j[x] = "alone" /\ \A y \in Threads \ {x} : j[y] = k[y]
  BY DEF Turns
<1> QED BY <1>1, <1>2 DEF OwnOk

\* A requester whose ticket is answered has it alone, ...
LEMMA WaitAlone ==
    ASSUME NEW p, NEW k, NEW s, OwnOk(p, k, s),
           NEW x \in Threads, NEW j, Turns(k, j, x, "wait", "alone"), s.answered, NEW s1
    PROVE  OwnOk({}, j, s1) /\ "free" \notin p /\ "ms" \notin p /\ "aw" \notin p /\ "unused" \notin p
<1>1. /\ "free" \notin p /\ "ms" \notin p /\ "aw" \notin p /\ "unused" \notin p
      /\ \A y \in Threads \ {x} : k[y] = "none"
  BY DEF OwnOk, Turns
<1>2. j[x] = "alone" /\ \A y \in Threads \ {x} : j[y] = k[y]
  BY DEF Turns
<1> QED BY <1>1, <1>2 DEF OwnOk

\* ... and one that leaves before leaves it to aw_head or to the writer.
LEMMA WaitLeft ==
    ASSUME NEW p, NEW k, NEW s, OwnOk(p, k, s),
           NEW x \in Threads, NEW j, Turns(k, j, x, "wait", "none"), ~s.answered, NEW s1,
           s1.answered, s1.invalid = s.invalid, s1.cb = s.cb
    PROVE  OwnOk(p, j, s1)
<1>1. j[x] = "none" /\ k[x] = "wait" /\ \A y \in Threads \ {x} : j[y] = k[y]
  BY DEF Turns
<1>2. /\ "free" \notin p /\ "unused" \notin p /\ ~s.invalid /\ s.cb = "standard"
      /\ "aw" \in p \/ \E w \in Threads \ {x} : k[w] = "answer"
  BY <1>1 DEF OwnOk
<1>3. \A y \in Threads \ {x} : k[y] \in {"none", "got", "answer"}
  BY <1>1 DEF OwnOk
<1>4. \A y, z \in Threads \ {x} : y # z /\ k[y] # "none" => k[z] = "none"
  BY <1>1, <1>3 DEF OwnOk
<1>5. /\ "ms" \in p => "aw" \in p /\ \A y \in Threads \ {x} : k[y] = "none"
      /\ "aw" \in p => \A y \in Threads \ {x} : k[y] \in {"none", "got"}
      /\ \A y \in Threads \ {x} : /\ k[y] = "got" => "ms" \notin p /\ "aw" \in p
                                  /\ k[y] = "answer" => "ms" \notin p /\ "aw" \notin p
  BY <1>1, <1>2, <1>3 DEF OwnOk
<1> QED BY <1>1, <1>2, <1>3, <1>4, <1>5 DEF OwnOk

-----------------------------------------------------------------------------
(* Frames: what a step of one thread with one ticket leaves alone *)

\* Thread z is as it was, or has been woken.
Woke(z) ==
    \/ thr'[z] = thr[z]
    \/ thr[z].pc = "ini" /\ thr'[z] = [thr[z] EXCEPT !.pc = "made"]
    \/ thr[z].pc = "asleep" /\ thr'[z] = [thr[z] EXCEPT !.pc = "woken"]
    \/ thr[z].pc = "rsleep" /\ thr'[z] = [thr[z] EXCEPT !.pc = "read"]

\* The places of ticket t are what they were.
SamePlaces(t) ==
    /\ t \in ToSet(pool.free)' <=> t \in ToSet(pool.free)
    /\ t \in ToSet(ms_head)' <=> t \in ToSet(ms_head)
    /\ t \in ToSet(aw_head)' <=> t \in ToSet(aw_head)
    /\ Unused(t)' <=> Unused(t)
    /\ tk'[t] = tk[t]

PlaceOk(x) ==
    /\ x \in Requesters => RequesterOk(thr[x])
    /\ x \in Readers => ReaderOk(thr[x])
    /\ x \in Writers => WriterOk(thr[x])
    /\ x \in Admins => AdminOk(thr[x])

ListsOk ==
    /\ NoRepeat(ms_head) /\ NoRepeat(aw_head) /\ NoRepeat(pool.free)
    /\ ~pool.loop /\ pool.freeticket_counter = Len(pool.free)

\* The invariant by its parts, now and after a step.
LEMMA PlacesAre ==
    /\ AliveOk <=> /\ \A t \in Tickets : Owned(t)
                   /\ \A t \in Tickets : t >= pool.ticketer => Clean(tk[t])
                   /\ \A b \in inbox : InboxOk(b)
                   /\ \A x \in Threads : PlaceOk(x)
                   /\ ListsOk /\ panic = "none"
    /\ AliveOk' <=> /\ \A t \in Tickets : Owned(t)'
                    /\ \A t \in Tickets : t >= pool'.ticketer => Clean(tk'[t])
                    /\ \A b \in inbox' : InboxOk(b)'
                    /\ \A x \in Threads : PlaceOk(x)'
                    /\ ListsOk' /\ panic' = "none"
BY DEF AliveOk, PlaceOk, ListsOk, Threads

\* A wakeup changes no role.
LEMMA WokeRole ==
    ASSUME TypeInv, NEW z \in Threads, Woke(z)
    PROVE  /\ \A t \in Tickets : Role(z, t)' = Role(z, t)
           /\ thr'[z].tkt = thr[z].tkt /\ thr'[z].saved = thr[z].saved
<1>1. thr[z] \in ThreadState
  BY DEF TypeInv, TypeOK
<1>2. CASE thr'[z] = thr[z]
  BY <1>2 DEF Role
<1>3. ASSUME NEW l \in {"made", "woken", "read"}, thr'[z] = [thr[z] EXCEPT !.pc = l],
             \/ l = "made" /\ thr[z].pc = "ini"
             \/ l = "woken" /\ thr[z].pc = "asleep"
             \/ l = "read" /\ thr[z].pc = "rsleep"
      PROVE  /\ \A t \in Tickets : Role(z, t)' = Role(z, t)
             /\ thr'[z].tkt = thr[z].tkt /\ thr'[z].saved = thr[z].saved
  <2>1. thr'[z].pc = l /\ thr'[z].tkt = thr[z].tkt /\ thr'[z].saved = thr[z].saved
    BY <1>1, <1>3 DEF ThreadState
  <2> QED BY <1>3, <2>1 DEF Role
<1> QED BY <1>2, <1>3 DEF Woke

\* What a step may do to a ticket that thread z has: nothing if z has it alone or
\* sends it; set `answered' if z waits for it.
KeptFor(z, t) ==
    /\ Role(z, t) \in {"alone", "send"} => tk'[t] = tk[t]
    /\ Role(z, t) = "wait" => tk'[t].rid = tk[t].rid /\ (tk[t].answered => tk'[t].answered)
    /\ Role(z, t) = "answer" =>
          tk'[t].rid = tk[t].rid /\ tk'[t].orid = tk[t].orid /\ tk'[t].cb = tk[t].cb

\* A thread that is at most woken is still where it should be.
LEMMA WokeOk ==
    ASSUME TypeInv, NEW z \in Threads, Woke(z), PlaceOk(z), \A t \in Tickets : KeptFor(z, t)
    PROVE  PlaceOk(z)'
<1> DEFINE s == thr[z]
           u == thr'[z]
<1>1. s \in ThreadState /\ NoTicket \notin Tickets
  BY InitialRecords DEF TypeInv, TypeOK
<1>2. /\ s.tkt \in Tickets \cup {NoTicket} /\ s.saved \in Tickets \cup {NoTicket}
      /\ u.tkt = s.tkt /\ u.saved = s.saved /\ u.op = s.op /\ u.rid = s.rid /\ u.err = s.err
      /\ u.ret = s.ret /\ u.arid = s.arid
      /\ \/ u.pc = s.pc
         \/ s.pc = "ini" /\ u.pc = "made"
         \/ s.pc = "asleep" /\ u.pc = "woken"
         \/ s.pc = "rsleep" /\ u.pc = "read"
  BY <1>1 DEF Woke, ThreadState
<1>3. s.tkt \in Tickets => KeptFor(z, s.tkt)
  OBVIOUS
<1>4. s.saved \in Tickets => KeptFor(z, s.saved)
  OBVIOUS
<1> HIDE DEF s, u
<1>5. ASSUME z \in Requesters PROVE RequesterOk(thr[z])'
  <2>1. RequesterOk(s)
    BY <1>5 DEF PlaceOk, s
  <2>2. \/ s.pc \in {"pushall", "ini", "made", "push", "cbins"} \/ (s.pc = "kill" /\ s.ret = "made")
        \/ s.pc \in {"message", "msgins"}
        => tk'[s.tkt] = tk[s.tkt]
    BY <1>1, <1>2, <1>3, <2>1 DEF KeptFor, Role, RequesterOk, s
  <2>3. s.pc \in Waits \/ (s.pc = "kill" /\ s.ret = "timedout") =>
          tk'[s.tkt].rid = tk[s.tkt].rid /\ (tk[s.tkt].answered => tk'[s.tkt].answered)
    BY <1>1, <1>2, <1>3, <2>1 DEF KeptFor, Role, RequesterOk, Waits, s
  <2>4. s.saved # NoTicket => tk'[s.saved].rid = tk[s.saved].rid
    BY <1>1, <1>2, <1>4, <2>1 DEF KeptFor, Role, RequesterOk, s
  <2> QED BY <1>2, <2>1, <2>2, <2>3, <2>4 DEF RequesterOk, Waits, u
<1>6. ASSUME z \in Readers PROVE ReaderOk(thr[z])'
  <2>1. ReaderOk(s)
    BY <1>6 DEF PlaceOk, s
  <2>2. s.pc = "push" => tk'[s.tkt] = tk[s.tkt]
    BY <1>1, <1>2, <1>3, <2>1 DEF KeptFor, Role, ReaderOk, s
  <2> QED BY <1>2, <2>1, <2>2, ThreadsAssumption DEF ReaderOk, u
<1>7. ASSUME z \in Writers PROVE WriterOk(thr[z])'
  <2>1. WriterOk(s)
    BY <1>7 DEF PlaceOk, s
  <2>2. s.pc = "push" => tk'[s.tkt] = tk[s.tkt]
    BY <1>1, <1>2, <1>3, <2>1 DEF KeptFor, Role, WriterOk, s
  <2>3. s.pc \in {"found", "answer"} =>
          /\ tk'[s.tkt].rid = tk[s.tkt].rid /\ tk'[s.tkt].orid = tk[s.tkt].orid
          /\ tk'[s.tkt].cb = tk[s.tkt].cb
    BY <1>1, <1>2, <1>3, <2>1 DEF KeptFor, Role, WriterOk, s
  <2> QED BY <1>2, <2>1, <2>2, <2>3 DEF WriterOk, u
<1>8. ASSUME z \in Admins PROVE AdminOk(thr[z])'
  BY <1>2, <1>8 DEF PlaceOk, AdminOk, s, u
<1> QED BY <1>5, <1>6, <1>7, <1>8 DEF PlaceOk

\* A ticket whose places and holders are the same is owned as it was.
LEMMA OwnedSame ==
    ASSUME TypeInv, NEW t \in Tickets, Owned(t), SamePlaces(t),
           \A z \in Threads : Role(z, t)' = Role(z, t)
    PROVE  Owned(t)'
<1>1. \A z \in Threads : Roles(t)'[z] = Roles(t)[z]
  BY DEF Roles
<1>2. \A l \in {"free", "ms", "aw", "unused"} : l \in Places(t)' <=> l \in Places(t)
  BY DEF Places, SamePlaces
<1>3. tk'[t] = tk[t]
  BY DEF SamePlaces
<1>4. OwnOk(Places(t)', Roles(t)', tk[t])
  BY <1>1, <1>2, OwnSame DEF Owned
<1> QED BY <1>3, <1>4 DEF Owned

\* A message in the daemon's hands stays in order when its ticket is not touched.
LEMMA InboxSame ==
    ASSUME NEW b \in inbox, InboxOk(b), b.unique \in Tickets, SamePlaces(b.unique),
           \A z \in Threads : Role(z, b.unique)' = Role(z, b.unique)
    PROVE  InboxOk(b)'
BY DEF InboxOk, SamePlaces

\* A step of thread x with ticket t, seen by the other threads and tickets.
LEMMA AliveStep ==
    ASSUME TypeInv, AliveOk, NEW x \in Threads, NEW t \in Tickets,
           \A z \in Threads \ {x} : Woke(z),
           \A z \in Threads \ {x} : KeptFor(z, t),
           \A v \in Tickets \ {t} : SamePlaces(v) /\ Role(x, v)' = Role(x, v),
           Owned(t)', PlaceOk(x)', pool.ticketer <= pool'.ticketer, pool'.ticketer \in Nat,
           t >= pool'.ticketer => Clean(tk'[t]),
           inbox' \subseteq [unique: Tickets, rid: Rids, op: Ops],
           \A b \in inbox' : b.unique = t => InboxOk(b)',
           \A b \in inbox' : b.unique # t => b \in inbox,
           ListsOk', panic' = "none"
    PROVE  AliveOk'
<1>1. /\ \A v \in Tickets : Owned(v)
      /\ \A v \in Tickets : v >= pool.ticketer => Clean(tk[v])
      /\ \A b \in inbox : InboxOk(b)
      /\ \A z \in Threads : PlaceOk(z)
  BY PlacesAre
<1>2. \A z \in Threads \ {x} : \A v \in Tickets : Role(z, v)' = Role(z, v)
  BY WokeRole
<1>3. \A v \in Tickets \ {t} : \A z \in Threads : Role(z, v)' = Role(z, v)
  BY <1>2
<1>4. \A v \in Tickets : Owned(v)'
  BY <1>1, <1>3, OwnedSame
<1>5. \A v \in Tickets : v >= pool'.ticketer => Clean(tk'[v])
  <2>1. pool.ticketer \in Nat
    BY StateFacts
  <2>2. \A v \in Tickets \ {t} : tk'[v] = tk[v]
    BY DEF SamePlaces
  <2>3. \A v \in Tickets : v >= pool'.ticketer => v >= pool.ticketer
    BY <2>1 DEF Tickets
  <2> QED BY <1>1, <2>2, <2>3
<1>6. \A b \in inbox' : InboxOk(b)'
  <2> SUFFICES ASSUME NEW b \in inbox', b.unique # t PROVE InboxOk(b)'
    OBVIOUS
  <2>1. b \in inbox /\ b.unique \in Tickets \ {t}
    OBVIOUS
  <2> QED BY <1>1, <1>3, <2>1, InboxSame
<1>7. \A z \in Threads : PlaceOk(z)'
  <2> SUFFICES ASSUME NEW z \in Threads \ {x} PROVE PlaceOk(z)'
    OBVIOUS
  <2>1. \A v \in Tickets : KeptFor(z, v)
    BY DEF KeptFor, SamePlaces
  <2> QED BY <1>1, <2>1, WokeOk
<1> QED BY <1>4, <1>5, <1>6, <1>7, PlacesAre

\* A step that moves no ticket.
LEMMA AliveQuiet ==
    ASSUME TypeInv, AliveOk, NEW x \in Threads,
           \A z \in Threads \ {x} : Woke(z),
           \A v \in Tickets : Role(x, v)' = Role(x, v),
           PlaceOk(x)',
           UNCHANGED <<queues, tk, inbox, panic, pool.free, pool.gone, pool.lost, pool.ticketer,
                       pool.loop, pool.freeticket_counter>>
    PROVE  AliveOk'
<1>1. 0 \in Tickets /\ pool.ticketer \in Nat /\ inbox \subseteq [unique: Tickets, rid: Rids, op: Ops]
  BY StateFacts DEF TypeInv, TypeOK
<1>2. \A v \in Tickets : SamePlaces(v)
  BY DEF SamePlaces, Unused, queues
<1>3. /\ \A v \in Tickets : Owned(v)
      /\ \A v \in Tickets : v >= pool.ticketer => Clean(tk[v])
      /\ \A b \in inbox : InboxOk(b)
      /\ ListsOk /\ panic = "none"
  BY PlacesAre
<1>4. \A v \in Tickets : \A z \in Threads : Role(z, v)' = Role(z, v)
  BY WokeRole
<1>5. Owned(0)'
  BY <1>1, <1>2, <1>3, <1>4, OwnedSame
<1>6. \A z \in Threads : KeptFor(z, 0)
  BY DEF KeptFor
<1>7. \A b \in inbox' : InboxOk(b)'
  BY <1>1, <1>2, <1>3, <1>4, InboxSame
<1>8. ListsOk'
  BY <1>3 DEF ListsOk, queues
<1>9. pool.ticketer <= pool'.ticketer /\ pool'.ticketer \in Nat /\ (0 >= pool'.ticketer => Clean(tk'[0]))
  BY <1>1, <1>3
<1> QED BY <1>1, <1>2, <1>3, <1>5, <1>6, <1>7, <1>8, <1>9, AliveStep

\* What is known of a thread while the session is alive.
LEMMA AliveRequester ==
    ASSUME TypeInv, HandshakeInv, AliveOk, NEW r \in Requesters
    PROVE  /\ r \in Threads /\ thr \in [Threads -> ThreadState] /\ thr[r] \in ThreadState
           /\ RequesterOk(thr[r]) /\ HoldOk(thr[r]) /\ ReturnOk(thr[r])
           /\ r \notin Readers /\ r \notin Writers /\ r \notin Admins
           /\ thr[r].tkt \in Tickets \cup {NoTicket} /\ thr[r].saved \in Tickets \cup {NoTicket}
           /\ NoTicket \notin Tickets
           /\ tk \in [Tickets -> TicketState]
<1>1. thr[r] \in ThreadState
  BY RequesterFacts
<1> QED BY <1>1, RequesterFacts, InitialRecords, StateFacts DEF AliveOk, ThreadState

\* What the invariants say of a thread that is no requester.
LEMMA AliveOther ==
    ASSUME TypeInv, HandshakeInv, AliveOk, NEW x \in Readers \cup Writers \cup Admins
    PROVE  /\ x \in Threads /\ thr \in [Threads -> ThreadState] /\ thr[x] \in ThreadState
           /\ x \in Readers => ReaderOk(thr[x])
           /\ x \in Writers => WriterOk(thr[x])
           /\ x \in Admins => AdminOk(thr[x])
           /\ HoldOk(thr[x])
           /\ x \notin Requesters
           /\ thr[x].tkt \in Tickets \cup {NoTicket} /\ thr[x].saved = NoTicket
           /\ NoTicket \notin Tickets
           /\ tk \in [Tickets -> TicketState]
<1>1. thr[x] \in ThreadState
  BY OtherFacts
<1> QED BY <1>1, OtherFacts, InitialRecords, StateFacts
        DEF AliveOk, ThreadState, ReaderOk, WriterOk, AdminOk

\* A step that changes one thread.
LEMMA OneStep ==
    ASSUME thr \in [Threads -> ThreadState], NEW x \in Threads, NEW u,
           thr' = [thr EXCEPT ![x] = u]
    PROVE  thr'[x] = u /\ \A z \in Threads \ {x} : Woke(z)
BY DEF Woke

\* The steps of a requester that begin or go on with a request and move no ticket.
LEMMA RequesterQuiet ==
    ASSUME TypeInv, HandshakeInv, AliveOk, NEW r \in Requesters,
           \/ \E o \in {"INIT", "REQ", "FORGET", "RELEASE"} : Started(r, o)
           \/ FetchNone(r) \/ IniSignal(r) \/ WaitAnswered(r) \/ WaitSleep(r) \/ Woken(r)
           \/ Timeout(r) \/ WaitedOk(r)
    PROVE  AliveOk'
<1> DEFINE s == thr[r]
           u == thr'[r]
<1>1. /\ r \in Threads /\ thr \in [Threads -> ThreadState] /\ s \in ThreadState
      /\ RequesterOk(s) /\ HoldOk(s) /\ ReturnOk(s)
      /\ r \notin Readers /\ r \notin Writers /\ r \notin Admins
      /\ s.tkt \in Tickets \cup {NoTicket} /\ s.saved \in Tickets \cup {NoTicket}
      /\ NoTicket \notin Tickets
  BY AliveRequester
<1>2. UNCHANGED <<queues, tk, inbox, panic, pool>>
  BY DEF Started, FetchNone, IniSignal, WaitAnswered, WaitSleep, Woken, Timeout, WaitedOk, env
<1>3. ASSUME NEW o \in {"INIT", "REQ", "FORGET", "RELEASE"}, Started(r, o)
      PROVE  /\ \A z \in Threads \ {r} : Woke(z)
             /\ \A v \in Tickets : Role(r, v)' = Role(r, v)
             /\ RequesterOk(thr[r])'
  <2>1. thr' = [thr EXCEPT ![r] = [s EXCEPT !.pc = "fetch", !.op = o, !.rid = nreq + 1]]
    BY <1>1, <1>3 DEF Started
  <2>2. u = [s EXCEPT !.pc = "fetch", !.op = o, !.rid = nreq + 1] /\ \A z \in Threads \ {r} : Woke(z)
    BY <1>1, <2>1, OneStep
  <2>3. /\ u.pc = "fetch" /\ u.op = o /\ u.tkt = s.tkt /\ u.saved = s.saved /\ u.err = s.err
        /\ s.pc = "idle"
    BY <1>1, <1>3, <2>2 DEF ThreadState, Started, At
  <2>4. s.tkt = NoTicket
    BY <1>1, <2>3 DEF RequesterOk
  <2>5. s.saved = NoTicket /\ s.err = "none"
    BY <1>1, <2>3 DEF RequesterOk
  <2> QED BY <1>1, <2>2, <2>3, <2>4, <2>5 DEF RequesterOk, Role, Waits
<1>4. ASSUME ~ \E o \in {"INIT", "REQ", "FORGET", "RELEASE"} : Started(r, o)
      PROVE  /\ \A z \in Threads \ {r} : Woke(z)
             /\ \A v \in Tickets : Role(r, v)' = Role(r, v)
             /\ RequesterOk(thr[r])'
  <2>1. /\ \A z \in Threads \ {r} : Woke(z)
        /\ u.tkt = s.tkt /\ u.saved = s.saved /\ u.op = s.op /\ u.rid = s.rid
        /\ \/ s.pc = "fetch" /\ u.pc = "alloc" /\ u.err = s.err /\ u.ret = s.ret
           \/ s.pc = "ini" /\ u.pc = "kill" /\ u.err = s.err /\ u.ret = s.ret
           \/ s.pc = "wait" /\ u.pc = "waited" /\ u.err = s.err /\ tk[s.tkt].answered /\ u.ret = s.ret
           \/ s.pc = "wait" /\ u.pc = "asleep" /\ u.err = s.err /\ u.ret = s.ret
           \/ s.pc = "woken" /\ u.pc = "waited" /\ u.ret = s.ret /\ (u.err = "none" => tk[s.tkt].answered)
           \/ s.pc \in {"asleep", "woken"} /\ u.pc = "kill" /\ u.err = s.err /\ u.ret = "timedout"
           \/ s.pc = "waited" /\ u.pc = "use" /\ u.err = s.err /\ u.ret = s.ret /\ s.err = "none"
    <3>1. CASE FetchNone(r)
      <4>1. thr' = [thr EXCEPT ![r] = [s EXCEPT !.pc = "alloc"]]
        BY <1>1, <3>1 DEF FetchNone
      <4>2. u = [s EXCEPT !.pc = "alloc"] /\ \A z \in Threads \ {r} : Woke(z)
        BY <1>1, <4>1, OneStep
      <4> QED BY <1>1, <3>1, <4>2 DEF FetchNone, At, ThreadState
    <3>2. CASE IniSignal(r)
      <4>1. thr' = [thr EXCEPT ![r] = [s EXCEPT !.pc = "kill"]]
        BY <1>1, <3>2 DEF IniSignal
      <4>2. u = [s EXCEPT !.pc = "kill"] /\ \A z \in Threads \ {r} : Woke(z)
        BY <1>1, <4>1, OneStep
      <4> QED BY <1>1, <3>2, <4>2 DEF IniSignal, At, ThreadState
    <3>3. CASE WaitAnswered(r)
      <4>1. thr' = [thr EXCEPT ![r] = [s EXCEPT !.pc = "waited"]]
        BY <1>1, <3>3 DEF WaitAnswered
      <4>2. u = [s EXCEPT !.pc = "waited"] /\ \A z \in Threads \ {r} : Woke(z)
        BY <1>1, <4>1, OneStep
      <4> QED BY <1>1, <3>3, <4>2 DEF WaitAnswered, At, ThreadState
    <3>4. CASE WaitSleep(r)
      <4>1. thr' = [thr EXCEPT ![r] = [s EXCEPT !.pc = "asleep"]]
        BY <1>1, <3>4 DEF WaitSleep
      <4>2. u = [s EXCEPT !.pc = "asleep"] /\ \A z \in Threads \ {r} : Woke(z)
        BY <1>1, <4>1, OneStep
      <4> QED BY <1>1, <3>4, <4>2 DEF WaitSleep, At, ThreadState
    <3>5. CASE Woken(r)
      <4>1. thr' = [thr EXCEPT ![r] = [s EXCEPT !.pc = "waited", !.err = IF tk[s.tkt].answered THEN "none" ELSE "ENXIO"]]
        BY <1>1, <3>5 DEF Woken
      <4>2. u = [s EXCEPT !.pc = "waited", !.err = IF tk[s.tkt].answered THEN "none" ELSE "ENXIO"] /\ \A z \in Threads \ {r} : Woke(z)
        BY <1>1, <4>1, OneStep
      <4> QED BY <1>1, <3>5, <4>2 DEF Woken, At, ThreadState
    <3>6. CASE Timeout(r)
      <4>1. thr' = [thr EXCEPT ![r] = [s EXCEPT !.pc = "kill", !.ret = "timedout"]]
        BY <1>1, <3>6 DEF Timeout
      <4>2. u = [s EXCEPT !.pc = "kill", !.ret = "timedout"] /\ \A z \in Threads \ {r} : Woke(z)
        BY <1>1, <4>1, OneStep
      <4> QED BY <1>1, <3>6, <4>2 DEF Timeout, At, ThreadState
    <3>7. CASE WaitedOk(r)
      <4>1. thr' = [thr EXCEPT ![r] = [s EXCEPT !.pc = "use"]]
        BY <1>1, <3>7 DEF WaitedOk
      <4>2. u = [s EXCEPT !.pc = "use"] /\ \A z \in Threads \ {r} : Woke(z)
        BY <1>1, <4>1, OneStep
      <4> QED BY <1>1, <3>7, <4>2 DEF WaitedOk, At, ThreadState
    <3> QED BY <1>4, <3>1, <3>2, <3>3, <3>4, <3>5, <3>6, <3>7
  <2> HIDE DEF s, u
  <2>2. s.pc = "ini" => s.ret = "made"
    BY <1>1 DEF ReturnOk
  <2>3. RequesterOk(u)
    BY <1>1, <2>1, <2>2 DEF RequesterOk, Waits
  <2>4. RequesterOk(thr[r])'
    BY <1>2, <2>3 DEF RequesterOk, u
  <2>5. \A v \in Tickets : Role(r, v)' = Role(r, v)
    BY <1>1, <2>1, <2>2 DEF Role, s, u
  <2> QED BY <2>1, <2>4, <2>5 DEF u, s
<1>5. PlaceOk(r)'
  BY <1>1, <1>3, <1>4 DEF PlaceOk
<1> QED BY <1>1, <1>2, <1>3, <1>4, <1>5, AliveQuiet

\* A new ticket is put into allticks_head: its requester had it before.
LEMMA PushAllAlive ==
    ASSUME TypeInv, HandshakeInv, AliveOk, NEW r \in Requesters, PushAll(r)
    PROVE  AliveOk'
<1> DEFINE s == thr[r]
           u == thr'[r]
<1>1. /\ r \in Threads /\ thr \in [Threads -> ThreadState] /\ s \in ThreadState
      /\ RequesterOk(s)
      /\ r \notin Readers /\ r \notin Writers /\ r \notin Admins
      /\ pool \in PoolState
  BY AliveRequester DEF TypeInv, TypeOK
<1>2. /\ UNCHANGED <<queues, tk, inbox, panic>>
      /\ UNCHANGED <<pool.free, pool.gone, pool.lost, pool.ticketer, pool.loop, pool.freeticket_counter>>
  BY <1>1 DEF PushAll, env, PoolState
<1>3. u = [s EXCEPT !.pc = FetchTail, !.ret = "made"] /\ \A z \in Threads \ {r} : Woke(z)
  <2>1. thr' = [thr EXCEPT ![r] = [s EXCEPT !.pc = FetchTail, !.ret = "made"]]
    BY <1>1 DEF PushAll
  <2> QED BY <1>1, <2>1, OneStep
<1>4. /\ s.pc = "pushall" /\ u.pc \in {"ini", "kill", "made"} /\ u.ret = "made"
      /\ u.tkt = s.tkt /\ u.saved = s.saved /\ u.op = s.op /\ u.rid = s.rid /\ u.err = s.err
  <2>1. FetchTail \in {"ini", "kill", "made"}
    BY DEF FetchTail
  <2> QED BY <1>1, <1>3, <2>1 DEF PushAll, At, ThreadState
<1> HIDE DEF s, u
<1>5. RequesterOk(u)
  BY <1>1, <1>4 DEF RequesterOk, Waits
<1>6. PlaceOk(r)'
  BY <1>1, <1>2, <1>5 DEF RequesterOk, PlaceOk, u
<1>7. \A v \in Tickets : Role(r, v)' = Role(r, v)
  BY <1>1, <1>4 DEF Role, s, u
<1> QED BY <1>1, <1>2, <1>3, <1>6, <1>7, AliveQuiet

\* A requester that a signal woke keeps its ticket while it sends INTERRUPT.
LEMMA InterruptedAlive ==
    ASSUME TypeInv, HandshakeInv, AliveOk, NEW r \in Requesters, Interrupted(r)
    PROVE  AliveOk'
<1> DEFINE s == thr[r]
           u == thr'[r]
<1>1. /\ r \in Threads /\ thr \in [Threads -> ThreadState] /\ s \in ThreadState
      /\ RequesterOk(s) /\ HoldOk(s)
      /\ r \notin Readers /\ r \notin Writers /\ r \notin Admins
      /\ NoTicket \notin Tickets
  BY AliveRequester
<1>2. UNCHANGED <<queues, tk, inbox, panic, pool>>
  BY DEF Interrupted, env
<1>3. /\ u = [s EXCEPT !.pc = "fetch", !.saved = s.tkt, !.tkt = NoTicket, !.op = "INTERRUPT",
                       !.err = "EINTR"]
      /\ \A z \in Threads \ {r} : Woke(z)
  <2>1. thr' = [thr EXCEPT ![r] = [s EXCEPT !.pc = "fetch", !.saved = s.tkt, !.tkt = NoTicket,
                                            !.op = "INTERRUPT", !.err = "EINTR"]]
    BY <1>1 DEF Interrupted
  <2> QED BY <1>1, <2>1, OneStep
<1>4. /\ s.pc \in {"asleep", "woken"} /\ u.pc = "fetch" /\ u.saved = s.tkt /\ u.tkt = NoTicket
      /\ u.op = "INTERRUPT" /\ u.rid = s.rid /\ u.err = "EINTR"
  BY <1>1, <1>3 DEF Interrupted, At, ThreadState
<1> HIDE DEF s, u
<1>5. s.tkt \in Tickets /\ s.saved = NoTicket /\ tk[s.tkt].rid = s.rid
  BY <1>1, <1>4 DEF RequesterOk, HoldOk, Waits, KeepsTicket, DerefLabels
<1>6. RequesterOk(u)
  BY <1>1, <1>4, <1>5 DEF RequesterOk, Waits
<1>7. PlaceOk(r)'
  BY <1>1, <1>2, <1>6 DEF RequesterOk, PlaceOk, u
<1>8. \A v \in Tickets : Role(r, v)' = Role(r, v)
  BY <1>1, <1>4, <1>5 DEF Role, s, u
<1> QED BY <1>1, <1>2, <1>3, <1>7, <1>8, AliveQuiet

\* The steps of the daemon's threads and of kill and close that move no ticket.
LEMMA OtherQuiet ==
    ASSUME TypeInv, HandshakeInv, AliveOk, NEW x \in Readers \cup Writers \cup Admins,
           \/ x \in Readers /\ (ReadSleep(x) \/ ReadSignal(x))
           \/ x \in Writers /\ (InitFail(x) \/ SetInited(x))
           \/ x = Killer /\ DeviceKill
           \/ x = Closer /\ DeviceClose
    PROVE  AliveOk'
<1> DEFINE s == thr[x]
           u == thr'[x]
<1>1. /\ x \in Threads /\ thr \in [Threads -> ThreadState] /\ s \in ThreadState
      /\ x \in Readers => ReaderOk(s)
      /\ x \in Writers => WriterOk(s)
      /\ x \in Admins => AdminOk(s)
      /\ x \notin Requesters /\ s.saved = NoTicket
      /\ NoTicket \notin Tickets
  BY AliveOther
<1>2. UNCHANGED <<queues, tk, inbox, panic, pool>>
  BY DEF ReadSleep, ReadSignal, InitFail, SetInited, DeviceKill, DeviceClose, env
<1>3. s.tkt = NoTicket
  BY <1>1, ThreadsAssumption
  DEF ReadSleep, Reading, ReadSignal, InitFail, SetInited, DeviceKill, DeviceClose, At, ReaderOk,
      WriterOk, AdminOk, Admins
<1>4. /\ \A z \in Threads \ {x} : Woke(z)
      /\ u.tkt = NoTicket /\ u.saved = NoTicket
      /\ x \in Readers => u.pc \in {"rsleep", "idle"}
      /\ x \in Writers => u.pc \in {"kill", "idle"}
      /\ x \in Admins => u.pc = "kill"
  <2>1. ASSUME x \in Readers, NEW l \in {"rsleep", "idle"}, thr' = [thr EXCEPT ![x].pc = l]
        PROVE  /\ \A z \in Threads \ {x} : Woke(z)
               /\ u.tkt = NoTicket /\ u.saved = NoTicket /\ u.pc = l
    <3>1. thr' = [thr EXCEPT ![x] = [s EXCEPT !.pc = l]]
      BY <1>1, <2>1
    <3>2. u = [s EXCEPT !.pc = l] /\ \A z \in Threads \ {x} : Woke(z)
      BY <1>1, <3>1, OneStep
    <3> QED BY <1>1, <1>3, <3>2 DEF ThreadState
  <2>2. CASE x \in Readers /\ (ReadSleep(x) \/ ReadSignal(x))
    BY <2>1, <2>2, ThreadsAssumption DEF ReadSleep, ReadSignal
  <2>3. CASE x \in Writers /\ InitFail(x)
    <3>1. thr' = [thr EXCEPT ![x] = [s EXCEPT !.pc = "kill", !.ret = "setinit"]]
      BY <1>1, <2>3 DEF InitFail
    <3>2. u = [s EXCEPT !.pc = "kill", !.ret = "setinit"] /\ \A z \in Threads \ {x} : Woke(z)
      BY <1>1, <3>1, OneStep
    <3> QED BY <1>1, <1>3, <2>3, <3>2, ThreadsAssumption DEF ThreadState
  <2>4. CASE x \in Admins /\ ((DeviceKill /\ x = Killer) \/ (DeviceClose /\ x = Closer))
    <3>1. thr' = [thr EXCEPT ![x] = [s EXCEPT !.pc = "kill", !.ret = "reject"]]
      BY <1>1, <2>4 DEF DeviceKill, DeviceClose
    <3>2. u = [s EXCEPT !.pc = "kill", !.ret = "reject"] /\ \A z \in Threads \ {x} : Woke(z)
      BY <1>1, <3>1, OneStep
    <3> QED BY <1>1, <1>3, <2>4, <3>2, ThreadsAssumption DEF ThreadState
  <2>5. CASE x \in Writers /\ SetInited(x)
    <3> DEFINE g == [thr EXCEPT ![x] = IdleThread]
    <3>1. thr' = [z \in Threads |-> IF g[z].pc = "ini" THEN [g[z] EXCEPT !.pc = "made"] ELSE g[z]]
      BY <2>5 DEF SetInited, WakeIni
    <3>2. g[x] = IdleThread /\ \A z \in Threads \ {x} : g[z] = thr[z]
      BY <1>1
    <3>3. u = IdleThread
      BY <1>1, <3>1, <3>2 DEF IdleThread
    <3>4. \A z \in Threads \ {x} : Woke(z)
      BY <3>1, <3>2 DEF Woke
    <3> QED BY <2>5, <3>3, <3>4, ThreadsAssumption DEF IdleThread
  <2>6. (x = Killer \/ x = Closer) => x \in Admins
    BY DEF Admins
  <2> QED BY <2>2, <2>3, <2>4, <2>5, <2>6
<1> HIDE DEF s, u
<1>5. PlaceOk(x)'
  BY <1>1, <1>4 DEF PlaceOk, ReaderOk, WriterOk, AdminOk, u
<1>6. \A v \in Tickets : Role(x, v)' = Role(x, v)
  BY <1>1, <1>3, <1>4 DEF Role, s, u
<1> QED BY <1>1, <1>2, <1>4, <1>5, <1>6, AliveQuiet

-----------------------------------------------------------------------------
(* Lists without repetition *)

\* STAILQ_INSERT_TAIL of a ticket that is not in the list, and STAILQ_REMOVE_HEAD.
LEMMA ListEnds ==
    ASSUME NEW q \in Seq(Tickets), NoRepeat(q), NEW t \in Tickets
    PROVE  /\ ToSet(Append(q, t)) = ToSet(q) \cup {t}
           /\ t \notin ToSet(q) => NoRepeat(Append(q, t))
           /\ q # <<>> => /\ Head(q) \in ToSet(q) /\ Head(q) \in Tickets
                          /\ ToSet(Tail(q)) = ToSet(q) \ {Head(q)}
                          /\ NoRepeat(Tail(q)) /\ Len(Tail(q)) = Len(q) - 1
<1>1. /\ Append(q, t) \in Seq(Tickets) /\ Len(Append(q, t)) = Len(q) + 1
      /\ \A i \in 1 .. Len(q) : Append(q, t)[i] = q[i]
      /\ Append(q, t)[Len(q) + 1] = t
      /\ Len(q) \in Nat /\ DOMAIN q = 1 .. Len(q) /\ DOMAIN Append(q, t) = 1 .. Len(q) + 1
  OBVIOUS
<1>2. ToSet(Append(q, t)) = ToSet(q) \cup {t}
  <2>1. ToSet(Append(q, t)) \subseteq ToSet(q) \cup {t}
    BY ListFacts
  <2>2. ASSUME NEW i \in DOMAIN q PROVE q[i] \in ToSet(Append(q, t))
    <3>1. i \in DOMAIN Append(q, t) /\ Append(q, t)[i] = q[i]
      BY <1>1
    <3> QED BY <3>1 DEF ToSet
  <2>3. t \in ToSet(Append(q, t))
    <3>1. Len(q) + 1 \in DOMAIN Append(q, t)
      BY <1>1
    <3> QED BY <1>1, <3>1 DEF ToSet
  <2>4. ToSet(q) \subseteq ToSet(Append(q, t))
    BY <2>2 DEF ToSet
  <2> QED BY <2>1, <2>3, <2>4
<1>3. ASSUME t \notin ToSet(q) PROVE NoRepeat(Append(q, t))
  <2>1. \A i \in DOMAIN q : q[i] # t
    BY <1>3 DEF ToSet
  <2> QED BY <1>1, <2>1 DEF NoRepeat
<1>4. ASSUME q # <<>>
      PROVE  /\ Head(q) \in ToSet(q) /\ Head(q) \in Tickets
             /\ ToSet(Tail(q)) = ToSet(q) \ {Head(q)}
             /\ NoRepeat(Tail(q)) /\ Len(Tail(q)) = Len(q) - 1
  <2>1. /\ Len(q) \in Nat \ {0} /\ Head(q) = q[1] /\ Tail(q) \in Seq(Tickets)
        /\ Len(Tail(q)) = Len(q) - 1 /\ DOMAIN Tail(q) = 1 .. Len(q) - 1
        /\ \A i \in 1 .. Len(q) - 1 : Tail(q)[i] = q[i + 1]
    BY <1>4
  <2>2. Head(q) \in ToSet(q) /\ Head(q) \in Tickets
    BY <1>4, ListFacts
  <2>3. NoRepeat(Tail(q))
    BY <2>1 DEF NoRepeat
  <2>4. ASSUME NEW i \in DOMAIN Tail(q) PROVE Tail(q)[i] \in ToSet(q) \ {Head(q)}
    <3>1. i + 1 \in DOMAIN q /\ 1 \in DOMAIN q /\ i + 1 # 1 /\ Tail(q)[i] = q[i + 1]
      BY <2>1
    <3>2. q[i + 1] # q[1]
      BY <3>1 DEF NoRepeat
    <3> QED BY <2>1, <3>1, <3>2 DEF ToSet
  <2>5. ASSUME NEW i \in DOMAIN q, q[i] # Head(q) PROVE q[i] \in ToSet(Tail(q))
    <3>1. i \in 2 .. Len(q)
      BY <2>1, <2>5
    <3>2. i - 1 \in DOMAIN Tail(q) /\ Tail(q)[i - 1] = q[i]
      BY <2>1, <3>1
    <3> QED BY <3>2 DEF ToSet
  <2>6. ToSet(Tail(q)) = ToSet(q) \ {Head(q)}
    BY <2>4, <2>5 DEF ToSet
  <2> QED BY <2>1, <2>2, <2>3, <2>6
<1> QED BY <1>2, <1>3, <1>4

\* TAILQ_REMOVE
LEMMA ListRemove ==
    ASSUME NEW q \in Seq(Tickets), NoRepeat(q), NEW i \in DOMAIN q
    PROVE  ToSet(RemoveAt(q, i)) = ToSet(q) \ {q[i]} /\ NoRepeat(RemoveAt(q, i))
<1> DEFINE a == SubSeq(q, 1, i - 1)
           b == SubSeq(q, i + 1, Len(q))
           p == RemoveAt(q, i)
<1>1. Len(q) \in Nat /\ i \in 1 .. Len(q) /\ DOMAIN q = 1 .. Len(q)
  OBVIOUS
<1>2. /\ a \in Seq(Tickets) /\ Len(a) = i - 1
      /\ \A j \in 1 .. i - 1 : a[j] = q[j]
  BY <1>1, SubSeqProperties
<1>3. /\ b \in Seq(Tickets) /\ Len(b) = Len(q) - i
      /\ \A j \in 1 .. Len(q) - i : b[j] = q[i + j]
  BY <1>1, SubSeqProperties
<1>4. p = a \o b
  BY DEF RemoveAt
<1> HIDE DEF a, b, p
<1>5. /\ p \in Seq(Tickets) /\ Len(p) = Len(q) - 1 /\ DOMAIN p = 1 .. Len(q) - 1
      /\ \A j \in 1 .. Len(q) - 1 : p[j] = IF j < i THEN q[j] ELSE q[j + 1]
  <2>1. p \in Seq(Tickets) /\ Len(p) = Len(a) + Len(b)
        /\ \A j \in 1 .. Len(p) : p[j] = IF j <= Len(a) THEN a[j] ELSE b[j - Len(a)]
    BY <1>2, <1>3, <1>4, ConcatProperties
  <2>2. ASSUME NEW j \in 1 .. Len(q) - 1 PROVE p[j] = IF j < i THEN q[j] ELSE q[j + 1]
    <3>1. CASE j < i
      BY <1>1, <1>2, <1>3, <2>1, <3>1
    <3>2. CASE j >= i
      <4>1. j - Len(a) \in 1 .. Len(q) - i /\ i + (j - Len(a)) = j + 1
        BY <1>1, <1>2, <3>2
      <4>2. p[j] = b[j - Len(a)]
        BY <1>1, <1>2, <1>3, <2>1, <3>2
      <4>3. b[j - Len(a)] = q[i + (j - Len(a))]
        BY <1>3, <4>1
      <4> QED BY <1>1, <3>2, <4>1, <4>2, <4>3
    <3> QED BY <1>1, <3>1, <3>2
  <2> QED BY <1>1, <1>2, <1>3, <2>1, <2>2
<1>6. NoRepeat(p)
  <2> SUFFICES ASSUME NEW j \in DOMAIN p, NEW k \in DOMAIN p, p[j] = p[k] PROVE j = k
    BY DEF NoRepeat
  <2> DEFINE g(h) == IF h < i THEN h ELSE h + 1
  <2>1. p[j] = q[g(j)] /\ p[k] = q[g(k)] /\ g(j) \in DOMAIN q /\ g(k) \in DOMAIN q
    BY <1>1, <1>5
  <2>2. g(j) = g(k)
    BY <2>1 DEF NoRepeat
  <2> QED BY <1>1, <1>5, <2>2
<1>7. ASSUME NEW j \in DOMAIN p PROVE p[j] \in ToSet(q) \ {q[i]}
  <2> DEFINE h == IF j < i THEN j ELSE j + 1
  <2>1. p[j] = q[h] /\ h \in DOMAIN q /\ h # i
    BY <1>1, <1>5
  <2> HIDE DEF h
  <2>2. q[h] # q[i]
    BY <2>1 DEF NoRepeat
  <2> QED BY <2>1, <2>2 DEF ToSet
<1>8. ASSUME NEW h \in DOMAIN q, q[h] # q[i] PROVE q[h] \in ToSet(p)
  <2> DEFINE j == IF h < i THEN h ELSE h - 1
  <2>1. h # i
    BY <1>8
  <2>2. j \in DOMAIN p /\ p[j] = q[h]
    BY <1>1, <1>5, <2>1
  <2> HIDE DEF j
  <2> QED BY <2>2 DEF ToSet
<1>9. ToSet(p) = ToSet(q) \ {q[i]}
  BY <1>7, <1>8 DEF ToSet
<1> QED BY <1>6, <1>9 DEF p

-----------------------------------------------------------------------------
(* Steps with a ticket *)

\* The lists a ticket is in, one by one.
LEMMA PlacesIs ==
    ASSUME NEW t
    PROVE  /\ "free" \in Places(t) <=> t \in ToSet(pool.free)
           /\ "ms" \in Places(t) <=> t \in ToSet(ms_head)
           /\ "aw" \in Places(t) <=> t \in ToSet(aw_head)
           /\ "unused" \in Places(t) <=> Unused(t)
BY DEF Places

\* A ticket whose places, roles and fields are in order is owned.
LEMMA NowOwned ==
    ASSUME NEW t, NEW q, OwnOk(q, Roles(t)', tk'[t]),
           t \in ToSet(pool.free)' <=> "free" \in q, t \in ToSet(ms_head)' <=> "ms" \in q,
           t \in ToSet(aw_head)' <=> "aw" \in q, Unused(t)' <=> "unused" \in q
    PROVE  Owned(t)'
<1>1. \A l \in {"free", "ms", "aw", "unused"} : l \in Places(t)' <=> l \in q
  BY DEF Places
<1>2. OwnOk(Places(t)', Roles(t)', tk'[t])
  BY <1>1, OwnSame
<1> QED BY <1>2 DEF Owned

\* The roles after a step in which one thread alone changes its role.
LEMMA RolesTurn ==
    ASSUME TypeInv, NEW x \in Threads, NEW t \in Tickets, \A z \in Threads \ {x} : Woke(z)
    PROVE  /\ \A z \in Threads : Roles(t)[z] = Role(z, t)
           /\ Turns(Roles(t), Roles(t)', x, Role(x, t), Role(x, t)')
<1>1. \A z \in Threads \ {x} : Role(z, t)' = Role(z, t)
  BY WokeRole
<1> QED BY <1>1 DEF Roles, Turns

\* A thread with another ticket at most saved has a role for its ticket only.
LEMMA RoleElsewhere ==
    ASSUME NEW x \in Threads, NEW t \in Tickets, NoTicket \notin Tickets,
           thr[x].tkt \in {t, NoTicket}, thr'[x].tkt \in {t, NoTicket},
           thr'[x].saved = thr[x].saved
    PROVE  \A v \in Tickets \ {t} : Role(x, v)' = Role(x, v)
BY DEF Role

\* A ticket that a thread has alone, sends, reads or answers is not in the
\* daemon's hands; nor is one that is free, unused or not yet read.
LEMMA NoMail ==
    ASSUME AliveOk, NEW t \in Tickets,
           \/ \E x \in Threads : Role(x, t) \notin {"none", "wait"}
           \/ t \notin ToSet(aw_head) \/ t \in ToSet(ms_head)
    PROVE  \A b \in inbox : b.unique # t
BY DEF AliveOk, InboxOk

\* A thread that has a ticket for itself: nobody else has it and it is in no queue.
LEMMA AloneFacts ==
    ASSUME AliveOk, NEW x \in Threads, NEW t \in Tickets, Role(x, t) = "alone"
    PROVE  /\ t \notin ToSet(pool.free) /\ t \notin ToSet(ms_head) /\ t \notin ToSet(aw_head)
           /\ ~Unused(t)
           /\ \A z \in Threads \ {x} : Role(z, t) = "none"
           /\ \A b \in inbox : b.unique # t
<1>1. Owned(t) /\ \A z \in Threads : Roles(t)[z] = Role(z, t)
  BY DEF AliveOk, Roles
<1>2. /\ t \notin ToSet(pool.free) /\ t \notin ToSet(ms_head) /\ t \notin ToSet(aw_head)
      /\ ~Unused(t)
      /\ \A z \in Threads \ {x} : Roles(t)[z] = "none"
  <2>1. OwnOk(Places(t), Roles(t), tk[t]) /\ Roles(t)[x] = "alone"
    BY <1>1 DEF Owned
  <2> QED BY <2>1, AloneIs, PlacesIs
<1> QED BY <1>1, <1>2, NoMail

\* A step with a ticket that nobody else has and that is not in the daemon's hands.
LEMMA AliveAlone ==
    ASSUME TypeInv, AliveOk, NEW x \in Threads, NEW t \in Tickets,
           \A z \in Threads \ {x} : Woke(z),
           \A z \in Threads \ {x} : Role(z, t) = "none",
           \A b \in inbox : b.unique # t,
           \A v \in Tickets \ {t} : SamePlaces(v) /\ Role(x, v)' = Role(x, v),
           Owned(t)', PlaceOk(x)', pool.ticketer <= pool'.ticketer, pool'.ticketer \in Nat,
           t < pool'.ticketer,
           UNCHANGED inbox, ListsOk', panic' = "none"
    PROVE  AliveOk'
<1>1. \A z \in Threads \ {x} : KeptFor(z, t)
  BY DEF KeptFor
<1>2. t >= pool'.ticketer => Clean(tk'[t])
  BY DEF Tickets
<1>3. inbox' \subseteq [unique: Tickets, rid: Rids, op: Ops]
  BY DEF TypeInv, TypeOK
<1> QED BY <1>1, <1>2, <1>3, AliveStep

\* fuse_ticket_drop is called with a ticket that is its caller's alone.
LEMMA DropAliveFacts ==
    ASSUME TypeInv, HandshakeInv, AliveOk, NEW x \in Threads, thr[x].pc \in {"drop", "push"}
    PROVE  /\ thr[x].tkt \in Tickets /\ thr[x].saved = NoTicket /\ x \notin Admins
           /\ Role(x, thr[x].tkt) = "alone"
           /\ thr[x].pc = "push" => Clean(tk[thr[x].tkt])
           /\ thr[x].ret \notin KeepsTicket
           /\ x \in Requesters => thr[x].ret = "idle"
           /\ thr[x].ret # "rejecting" /\ (x \in Readers => thr[x].ret = "idle")
           /\ PlaceOk(x)
<1>1. thr[x].tkt \in Tickets /\ thr[x].ret \notin KeepsTicket
  BY ThreadFacts DEF HoldOk, KeepsTicket, DerefLabels
<1>2. PlaceOk(x) /\ NoTicket \notin Tickets
  BY PlacesAre, InitialRecords
<1>3. x \notin Admins
  BY <1>1, <1>2 DEF PlaceOk, AdminOk
<1>4. CASE x \in Requesters
  BY <1>1, <1>2, <1>3, <1>4, AliveRequester, ThreadsAssumption DEF RequesterOk, ReturnOk, Role
<1>5. CASE x \notin Requesters
  BY <1>1, <1>2, <1>3, <1>5 DEF PlaceOk, ReaderOk, WriterOk, Role, Threads
<1> QED BY <1>1, <1>2, <1>3, <1>4, <1>5

\* A thread that has dropped its ticket has none.
LEMMA DroppedOk ==
    ASSUME TypeInv, HandshakeInv, AliveOk, NEW x \in Threads, thr[x].pc \in {"drop", "push"},
           NEW t \in Tickets,
           thr' = [thr EXCEPT ![x] = [IdleThread EXCEPT !.pc = thr[x].ret]]
    PROVE  /\ \A z \in Threads \ {x} : Woke(z)
           /\ thr'[x].tkt = NoTicket /\ thr'[x].saved = NoTicket
           /\ Role(x, t)' = "none"
           /\ PlaceOk(x)'
<1>1. /\ thr[x].tkt \in Tickets /\ thr[x].saved = NoTicket /\ x \notin Admins
      /\ thr[x].ret \notin KeepsTicket
      /\ x \in Requesters => thr[x].ret = "idle"
      /\ thr[x].ret # "rejecting" /\ (x \in Readers => thr[x].ret = "idle")
  BY DropAliveFacts
<1>2. thr \in [Threads -> ThreadState] /\ NoTicket \notin Tickets
  BY InitialRecords DEF TypeInv, TypeOK
<1>3. thr'[x] = [IdleThread EXCEPT !.pc = thr[x].ret] /\ \A z \in Threads \ {x} : Woke(z)
  BY <1>2, OneStep
<1>4. /\ thr'[x].pc = thr[x].ret /\ thr'[x].tkt = NoTicket /\ thr'[x].saved = NoTicket
      /\ thr'[x].op = "none" /\ thr'[x].err = "none"
  BY <1>3 DEF IdleThread
<1>5. Role(x, t)' = "none"
  BY <1>2, <1>4 DEF Role
<1>6. PlaceOk(x)'
  BY <1>1, <1>4, ThreadsAssumption
  DEF PlaceOk, RequesterOk, ReaderOk, WriterOk, KeepsTicket, DerefLabels, Waits
<1> QED BY <1>3, <1>4, <1>5, <1>6

\* fuse_ticket_drop, fuse_ticket_destroy
LEMMA DropDestroyAlive ==
    ASSUME TypeInv, HandshakeInv, AliveOk, NEW x \in Threads, DropDestroy(x)
    PROVE  AliveOk'
<1>1. thr[x].pc \in {"drop", "push"}
  BY DEF DropDestroy, At
<1>0. PICK t \in Tickets : t = thr[x].tkt
  BY <1>1, DropAliveFacts
<1>2. thr[x].saved = NoTicket /\ Role(x, t) = "alone"
  BY <1>0, <1>1, DropAliveFacts
<1>3. /\ t \notin ToSet(pool.free) /\ t \notin ToSet(ms_head) /\ t \notin ToSet(aw_head)
      /\ ~Unused(t)
      /\ \A z \in Threads \ {x} : Role(z, t) = "none"
      /\ \A b \in inbox : b.unique # t
  BY <1>2, AloneFacts
<1>4. /\ \A z \in Threads \ {x} : Woke(z)
      /\ thr'[x].tkt = NoTicket /\ thr'[x].saved = NoTicket
      /\ Role(x, t)' = "none" /\ PlaceOk(x)'
  BY <1>1, DroppedOk DEF DropDestroy
<1>5. /\ UNCHANGED <<ms_head, aw_head, tk, inbox, panic>>
      /\ pool'.free = pool.free /\ pool'.loop = pool.loop /\ pool'.ticketer = pool.ticketer
      /\ pool'.freeticket_counter = pool.freeticket_counter
      /\ pool'.gone = pool.gone \cup {t} /\ pool'.lost = pool.lost /\ pool.ticketer \in Nat
  <2>1. pool \in PoolState
    BY DEF TypeInv, TypeOK
  <2> QED BY <1>0, <2>1 DEF DropDestroy, Destroy, env, queues, PoolState
<1>6. \A v \in Tickets \ {t} : SamePlaces(v)
  BY <1>5 DEF SamePlaces, Unused
<1>7. \A v \in Tickets \ {t} : Role(x, v)' = Role(x, v)
  BY <1>0, <1>2, <1>4, InitialRecords, RoleElsewhere
<1>8. OwnOk({"unused"}, Roles(t)', tk'[t])
  <2>1. Turns(Roles(t), Roles(t)', x, "alone", "none") /\ OwnOk(Places(t), Roles(t), tk[t])
    BY <1>2, <1>4, RolesTurn DEF AliveOk, Owned
  <2> QED BY <1>5, <2>1, AloneGone
<1>9. Owned(t)'
  BY <1>2, <1>3, <1>5, <1>8, NowOwned DEF Unused
<1>10. ListsOk' /\ panic' = "none" /\ t < pool'.ticketer
  BY <1>2, <1>3, <1>5 DEF AliveOk, ListsOk, Unused, Tickets
<1> QED BY <1>2, <1>3, <1>4, <1>5, <1>6, <1>7, <1>9, <1>10, AliveAlone

\* fuse_ticket_refresh
LEMMA DropRefreshAlive ==
    ASSUME TypeInv, HandshakeInv, AliveOk, NEW x \in Threads, DropRefresh(x)
    PROVE  AliveOk'
<1>1. thr[x].pc \in {"drop", "push"} /\ thr[x].pc = "drop"
  BY DEF DropRefresh, At
<1>0. PICK t \in Tickets : t = thr[x].tkt
  BY <1>1, DropAliveFacts
<1>2. thr[x].saved = NoTicket /\ Role(x, t) = "alone" /\ x \notin Admins
  BY <1>0, <1>1, DropAliveFacts
<1>3. /\ t \notin ToSet(pool.free) /\ t \notin ToSet(ms_head) /\ t \notin ToSet(aw_head)
      /\ ~Unused(t)
      /\ \A z \in Threads \ {x} : Role(z, t) = "none"
      /\ \A b \in inbox : b.unique # t
  BY <1>2, AloneFacts
<1>4. thr \in [Threads -> ThreadState] /\ tk \in [Tickets -> TicketState] /\ NoTicket \notin Tickets
  BY InitialRecords DEF TypeInv, TypeOK
<1>5. thr'[x] = [thr[x] EXCEPT !.pc = "push"] /\ \A z \in Threads \ {x} : Woke(z)
  <2>1. thr' = [thr EXCEPT ![x] = [thr[x] EXCEPT !.pc = "push"]]
    BY <1>4 DEF DropRefresh
  <2> QED BY <1>4, <2>1, OneStep
<1>6. /\ thr'[x].pc = "push" /\ thr'[x].tkt = t /\ thr'[x].saved = NoTicket /\ thr'[x].op = thr[x].op
      /\ thr'[x].err = thr[x].err /\ thr'[x].ret = thr[x].ret
  BY <1>0, <1>2, <1>4, <1>5 DEF ThreadState
<1>7. /\ UNCHANGED <<ms_head, aw_head, pool, inbox, panic>>
      /\ tk'[t] = Refresh(tk[t]) /\ \A v \in Tickets \ {t} : tk'[v] = tk[v]
  BY <1>0, <1>2, <1>4 DEF DropRefresh, env, queues
<1>8. Clean(tk'[t])
  BY <1>7 DEF Clean, Refresh, NewTicket
<1>9. PlaceOk(x) /\ pool.ticketer \in Nat
  BY <1>1, DropAliveFacts, StateFacts
<1>10. PlaceOk(x)'
  <2>1. CASE x \in Requesters
    <3>1. thr[x].op = "REQ" /\ thr[x].err = "none"
      BY <1>1, <1>9, <2>1 DEF PlaceOk, RequesterOk
    <3> QED BY <1>2, <1>4, <1>6, <1>8, <2>1, <3>1, ThreadsAssumption DEF PlaceOk, RequesterOk, Waits
  <2>2. CASE x \notin Requesters
    BY <1>1, <1>2, <1>4, <1>6, <1>8, <1>9, <2>2 DEF PlaceOk, ReaderOk, WriterOk
  <2> QED BY <2>1, <2>2
<1>11. \A v \in Tickets \ {t} : SamePlaces(v)
  BY <1>7 DEF SamePlaces, Unused
<1>12. \A v \in Tickets \ {t} : Role(x, v)' = Role(x, v)
  BY <1>0, <1>2, <1>4, <1>6, RoleElsewhere
<1>13. Role(x, t)' = "alone"
  BY <1>6 DEF Role
<1>14. OwnOk({}, Roles(t)', tk'[t])
  <2>1. Turns(Roles(t), Roles(t)', x, "alone", "alone") /\ OwnOk(Places(t), Roles(t), tk[t])
    BY <1>2, <1>5, <1>13, RolesTurn DEF AliveOk, Owned
  <2> QED BY <2>1, AloneStays
<1>15. Owned(t)'
  BY <1>2, <1>3, <1>7, <1>14, NowOwned DEF Unused
<1>16. ListsOk' /\ panic' = "none" /\ t < pool'.ticketer
  BY <1>2, <1>3, <1>7, <1>9 DEF AliveOk, ListsOk, Unused, Tickets
<1> QED BY <1>2, <1>3, <1>5, <1>7, <1>9, <1>10, <1>11, <1>12, <1>15, <1>16, AliveAlone

\* STAILQ_INSERT_TAIL on freetickets_head
LEMMA DropPushAlive ==
    ASSUME TypeInv, HandshakeInv, AliveOk, NEW x \in Threads, DropPush(x)
    PROVE  AliveOk'
<1>1. thr[x].pc \in {"drop", "push"} /\ thr[x].pc = "push"
  BY DEF DropPush, At
<1>0. PICK t \in Tickets : t = thr[x].tkt
  BY <1>1, DropAliveFacts
<1>2. thr[x].saved = NoTicket /\ Role(x, t) = "alone" /\ Clean(tk[t])
  BY <1>0, <1>1, DropAliveFacts
<1>3. /\ t \notin ToSet(pool.free) /\ t \notin ToSet(ms_head) /\ t \notin ToSet(aw_head)
      /\ ~Unused(t)
      /\ \A z \in Threads \ {x} : Role(z, t) = "none"
      /\ \A b \in inbox : b.unique # t
  BY <1>2, AloneFacts
<1>4. /\ \A z \in Threads \ {x} : Woke(z)
      /\ thr'[x].tkt = NoTicket /\ thr'[x].saved = NoTicket
      /\ Role(x, t)' = "none" /\ PlaceOk(x)'
  BY <1>1, DroppedOk DEF DropPush
<1>5. pool \in PoolState /\ pool.free \in Seq(Tickets) /\ pool.ticketer \in Nat
  BY StateFacts DEF TypeInv, TypeOK, PoolState
<1>6. NoRepeat(pool.free) /\ pool.freeticket_counter = Len(pool.free)
  BY DEF AliveOk
<1>7. FreeInsert(pool.free, t) = Append(pool.free, t)
  BY <1>3 DEF FreeInsert
<1>8. ~(pool.free # <<>> /\ Last(pool.free) = t)
  <2>1. pool.free # <<>> => Len(pool.free) \in DOMAIN pool.free
    BY <1>5
  <2> QED BY <1>3, <2>1 DEF ToSet, Last
<1>9. /\ UNCHANGED <<ms_head, aw_head, tk, inbox, panic>>
      /\ pool'.free = Append(pool.free, t) /\ ~pool'.loop /\ pool'.ticketer = pool.ticketer
      /\ pool'.freeticket_counter = pool.freeticket_counter + 1
      /\ pool'.gone = pool.gone /\ pool'.lost = pool.lost
  BY <1>0, <1>5, <1>7, <1>8 DEF DropPush, env, queues, PoolState
<1>10. /\ ToSet(pool'.free) = ToSet(pool.free) \cup {t} /\ NoRepeat(pool'.free)
       /\ pool'.freeticket_counter = Len(pool'.free)
  BY <1>2, <1>3, <1>5, <1>6, <1>9, ListEnds
<1>11. \A v \in Tickets \ {t} : SamePlaces(v)
  BY <1>9, <1>10 DEF SamePlaces, Unused
<1>12. \A v \in Tickets \ {t} : Role(x, v)' = Role(x, v)
  BY <1>0, <1>2, <1>4, InitialRecords, RoleElsewhere
<1>13. OwnOk({"free"}, Roles(t)', tk'[t])
  <2>1. Turns(Roles(t), Roles(t)', x, "alone", "none") /\ OwnOk(Places(t), Roles(t), tk[t])
    BY <1>2, <1>4, RolesTurn DEF AliveOk, Owned
  <2> QED BY <1>2, <1>9, <2>1, AloneFree
<1>14. Owned(t)'
  BY <1>2, <1>3, <1>9, <1>10, <1>13, NowOwned DEF Unused
<1>15. ListsOk' /\ panic' = "none" /\ t < pool'.ticketer
  BY <1>2, <1>3, <1>5, <1>9, <1>10 DEF AliveOk, ListsOk, Unused, Tickets
<1> QED BY <1>2, <1>3, <1>4, <1>5, <1>9, <1>11, <1>12, <1>14, <1>15, AliveAlone

\* A clean ticket has no header, no answer and no mark of use.
LEMMA CleanIs ==
    ASSUME NEW s \in TicketState, Clean(s)
    PROVE  s.invalid = FALSE /\ s.answered = FALSE /\ s.dirty = FALSE
BY DEF Clean, Refresh, NewTicket, TicketState

\* fuse_ticket_kill after a failed fuse_dispatcher_make
LEMMA MakeFailAlive ==
    ASSUME TypeInv, HandshakeInv, AliveOk, NEW r \in Requesters, MakeFail(r)
    PROVE  AliveOk'
<1>1. /\ r \in Threads /\ thr \in [Threads -> ThreadState] /\ thr[r] \in ThreadState
      /\ RequesterOk(thr[r]) /\ HoldOk(thr[r])
      /\ r \notin Readers /\ r \notin Writers /\ r \notin Admins
      /\ NoTicket \notin Tickets
  BY AliveRequester
<1>2. thr[r].pc = "made" /\ thr[r].op = "REQ" /\ thr[r].saved = NoTicket
  BY <1>1 DEF MakeFail, At, RequesterOk
<1>3. PICK t \in Tickets : t = thr[r].tkt
  BY <1>1, <1>2 DEF HoldOk, KeepsTicket, DerefLabels
<1>4. Role(r, t) = "alone"
  BY <1>2, <1>3 DEF Role
<1>5. /\ t \notin ToSet(pool.free) /\ t \notin ToSet(ms_head) /\ t \notin ToSet(aw_head)
      /\ ~Unused(t)
      /\ \A z \in Threads \ {r} : Role(z, t) = "none"
      /\ \A b \in inbox : b.unique # t
  BY <1>1, <1>4, AloneFacts
<1>6. thr'[r] = IdleThread /\ \A z \in Threads \ {r} : Woke(z)
  BY <1>1, OneStep DEF MakeFail
<1>7. /\ thr'[r].tkt = NoTicket /\ thr'[r].saved = NoTicket /\ thr'[r].pc = "idle"
      /\ thr'[r].op = "none" /\ thr'[r].err = "none"
  BY <1>6 DEF IdleThread
<1>8. /\ UNCHANGED <<ms_head, aw_head, tk, inbox, panic>>
      /\ pool'.free = pool.free /\ pool'.loop = pool.loop /\ pool'.ticketer = pool.ticketer
      /\ pool'.freeticket_counter = pool.freeticket_counter
      /\ pool'.gone = pool.gone \cup {t} /\ pool'.lost = pool.lost /\ pool.ticketer \in Nat
  <2>1. pool \in PoolState
    BY DEF TypeInv, TypeOK
  <2> QED BY <1>3, <2>1 DEF MakeFail, Destroy, env, queues, PoolState
<1>9. PlaceOk(r)'
  BY <1>1, <1>7 DEF PlaceOk, RequesterOk, Waits
<1>10. \A v \in Tickets \ {t} : SamePlaces(v)
  BY <1>8 DEF SamePlaces, Unused
<1>11. (\A v \in Tickets \ {t} : Role(r, v)' = Role(r, v)) /\ Role(r, t)' = "none"
  BY <1>1, <1>2, <1>3, <1>7, RoleElsewhere DEF Role
<1>12. OwnOk({"unused"}, Roles(t)', tk'[t])
  <2>1. Turns(Roles(t), Roles(t)', r, "alone", "none") /\ OwnOk(Places(t), Roles(t), tk[t])
    BY <1>1, <1>4, <1>6, <1>11, RolesTurn DEF AliveOk, Owned
  <2> QED BY <1>1, <1>8, <2>1, AloneGone
<1>13. Owned(t)'
  BY <1>5, <1>8, <1>12, NowOwned DEF Unused
<1>14. ListsOk' /\ panic' = "none" /\ t < pool'.ticketer
  BY <1>5, <1>8 DEF AliveOk, ListsOk, Unused, Tickets
<1> QED BY <1>1, <1>5, <1>6, <1>8, <1>9, <1>10, <1>11, <1>13, <1>14, AliveAlone

\* A thread returns without dropping its ticket, which nobody else has.
LEMMA LoserAlive ==
    ASSUME TypeInv, HandshakeInv, AliveOk, NEW x \in Requesters \cup Writers, NEW t \in Tickets,
           t = thr[x].tkt, thr[x].saved = NoTicket,
           Lose(t), thr' = [thr EXCEPT ![x] = IdleThread],
           t \notin ToSet(pool.free), t \notin ToSet(ms_head), t \notin ToSet(aw_head), ~Unused(t),
           \A z \in Threads \ {x} : Role(z, t) = "none",
           \A b \in inbox : b.unique # t,
           \A v \in Tickets \ {t} : tk'[v] = tk[v],
           UNCHANGED <<ms_head, aw_head, inbox, panic>>
    PROVE  AliveOk'
<1>1. /\ x \in Threads /\ thr \in [Threads -> ThreadState] /\ pool \in PoolState
      /\ x \notin Readers /\ x \notin Admins /\ NoTicket \notin Tickets
  BY ThreadsAssumption, InitialRecords DEF Threads, TypeInv, TypeOK
<1>2. thr'[x] = IdleThread /\ \A z \in Threads \ {x} : Woke(z)
  BY <1>1, OneStep
<1>3. /\ thr'[x].tkt = NoTicket /\ thr'[x].saved = NoTicket /\ thr'[x].pc = "idle"
      /\ thr'[x].op = "none" /\ thr'[x].err = "none"
  BY <1>2 DEF IdleThread
<1>4. /\ pool'.free = pool.free /\ pool'.loop = pool.loop /\ pool'.ticketer = pool.ticketer
      /\ pool'.freeticket_counter = pool.freeticket_counter
      /\ pool'.gone = pool.gone /\ pool'.lost = pool.lost \cup {t} /\ pool.ticketer \in Nat
  BY <1>1 DEF Lose, PoolState
<1>5. PlaceOk(x)'
  BY <1>1, <1>3 DEF PlaceOk, RequesterOk, WriterOk, Waits
<1>6. \A v \in Tickets \ {t} : SamePlaces(v)
  BY <1>4 DEF SamePlaces, Unused
<1>7. (\A v \in Tickets \ {t} : Role(x, v)' = Role(x, v)) /\ Role(x, t)' = "none"
  BY <1>1, <1>3, RoleElsewhere DEF Role
<1>8. OwnOk({"unused"}, Roles(t)', tk'[t])
  <2>1. \A z \in Threads : Role(z, t)' = "none"
    BY <1>2, <1>7, WokeRole
  <2> QED BY <2>1, NobodyHas DEF Roles
<1>9. Owned(t)'
  BY <1>4, <1>8, NowOwned DEF Unused
<1>10. ListsOk' /\ panic' = "none" /\ t < pool'.ticketer
  BY <1>4 DEF AliveOk, ListsOk, Unused, Tickets
<1> QED BY <1>1, <1>2, <1>4, <1>5, <1>6, <1>7, <1>9, <1>10, AliveAlone

\* A requester loses the ticket of a message that it could not fill in.
LEMMA MakeLeakAlive ==
    ASSUME TypeInv, HandshakeInv, AliveOk, NEW r \in Requesters, MakeLeak(r)
    PROVE  AliveOk'
<1>1. /\ r \in Threads /\ RequesterOk(thr[r]) /\ HoldOk(thr[r]) /\ tk \in [Tickets -> TicketState]
  BY AliveRequester
<1>2. thr[r].pc = "made" /\ thr[r].op = "REQ" /\ thr[r].saved = NoTicket
  BY <1>1 DEF MakeLeak, At, RequesterOk
<1>3. PICK t \in Tickets : t = thr[r].tkt
  BY <1>1, <1>2 DEF HoldOk, KeepsTicket, DerefLabels
<1>4. Role(r, t) = "alone"
  BY <1>2, <1>3 DEF Role
<1>5. /\ t \notin ToSet(pool.free) /\ t \notin ToSet(ms_head) /\ t \notin ToSet(aw_head)
      /\ ~Unused(t)
      /\ \A z \in Threads \ {r} : Role(z, t) = "none"
      /\ \A b \in inbox : b.unique # t
  BY <1>1, <1>4, AloneFacts
<1>6. /\ \A v \in Tickets \ {t} : tk'[v] = tk[v]
      /\ UNCHANGED <<ms_head, aw_head, inbox, panic>>
      /\ Lose(t) /\ thr' = [thr EXCEPT ![r] = IdleThread]
  BY <1>1, <1>3 DEF MakeLeak, env, queues
<1> QED BY <1>2, <1>3, <1>5, <1>6, LoserAlive

\* A requester that has got a clean ticket, from the free list or a new one.
LEMMA FetchedOk ==
    ASSUME TypeInv, HandshakeInv, AliveOk, NEW r \in Requesters, NEW t \in Tickets,
           thr[r].pc \in {"fetch", "alloc"}, "free" \in Places(t) \/ "unused" \in Places(t),
           thr'[r].tkt = t, thr'[r].saved = thr[r].saved, thr'[r].op = thr[r].op,
           thr'[r].rid = thr[r].rid, thr'[r].err = thr[r].err,
           \/ thr'[r].pc = "pushall"
           \/ thr'[r].pc \in {"ini", "kill", "made"} /\ thr'[r].ret = "made",
           \A z \in Threads \ {r} : Woke(z), UNCHANGED tk, Clean(tk[t])
    PROVE  /\ PlaceOk(r)'
           /\ \A v \in Tickets \ {t} : Role(r, v)' = Role(r, v)
           /\ \A z \in Threads \ {r} : Role(z, t) = "none"
           /\ \A b \in inbox : b.unique # t
           /\ OwnOk({}, Roles(t)', tk'[t])
<1>1. /\ r \in Threads /\ thr[r] \in ThreadState /\ RequesterOk(thr[r])
      /\ r \notin Readers /\ r \notin Writers /\ r \notin Admins
      /\ NoTicket \notin Tickets
  BY AliveRequester
<1>2. thr[r].tkt = NoTicket
  BY <1>1 DEF RequesterOk
<1>3. OwnOk(Places(t), Roles(t), tk[t]) /\ \A z \in Threads : Roles(t)[z] = Role(z, t)
  BY DEF AliveOk, Owned, Roles
<1>4. (\A z \in Threads : Role(z, t) = "none") /\ "aw" \notin Places(t)
  BY <1>3 DEF OwnOk
<1>5. thr[r].saved # t
  BY <1>1, <1>2, <1>4 DEF Role
<1>6. Role(r, t)' = "alone"
  BY DEF Role
<1>7. PlaceOk(r)'
  BY <1>1, <1>5, InitialRecords DEF PlaceOk, RequesterOk, Waits
<1>8. \A v \in Tickets \ {t} : Role(r, v)' = Role(r, v)
  BY <1>1, <1>2, RoleElsewhere
<1>9. \A b \in inbox : b.unique # t
  BY <1>4, PlacesIs, NoMail
<1>10. OwnOk({}, Roles(t)', tk'[t])
  <2>1. Turns(Roles(t), Roles(t)', r, "none", "alone")
    BY <1>1, <1>4, <1>6, RolesTurn
  <2> QED BY <1>1, <1>3, <2>1, FreeTaken DEF Turns
<1> QED BY <1>4, <1>7, <1>8, <1>9, <1>10

\* fuse_pop_freeticks
LEMMA FetchFreeAlive ==
    ASSUME TypeInv, HandshakeInv, AliveOk, NEW r \in Requesters, FetchFree(r)
    PROVE  AliveOk'
<1>1. r \in Threads /\ thr \in [Threads -> ThreadState] /\ thr[r] \in ThreadState
  BY AliveRequester
<1>2. pool \in PoolState /\ pool.free \in Seq(Tickets) /\ pool.ticketer \in Nat
  BY StateFacts DEF TypeInv, TypeOK, PoolState
<1>3. NoRepeat(pool.free) /\ pool.freeticket_counter = Len(pool.free) /\ ~pool.loop
  BY DEF AliveOk
<1>4. pool.free # <<>>
  BY DEF FetchFree, CountMismatch
<1>5. PICK t \in Tickets : t = Head(pool.free)
  BY <1>2, <1>3, <1>4, ListEnds
<1>6. /\ t \in ToSet(pool.free) /\ ToSet(Tail(pool.free)) = ToSet(pool.free) \ {t}
      /\ NoRepeat(Tail(pool.free)) /\ Len(Tail(pool.free)) = Len(pool.free) - 1
  BY <1>2, <1>3, <1>4, <1>5, ListEnds
<1>7. /\ UNCHANGED <<ms_head, aw_head, tk, inbox, panic>>
      /\ pool'.free = Tail(pool.free) /\ ~pool'.loop /\ pool'.ticketer = pool.ticketer
      /\ pool'.freeticket_counter = pool.freeticket_counter - 1
      /\ pool'.gone = pool.gone /\ pool'.lost = pool.lost
  BY <1>2, <1>3 DEF FetchFree, FreeTail, env, queues, PoolState
<1>8. /\ thr[r].pc = "fetch" /\ thr'[r].tkt = t /\ thr'[r].saved = thr[r].saved
      /\ thr'[r].op = thr[r].op /\ thr'[r].rid = thr[r].rid /\ thr'[r].err = thr[r].err
      /\ thr'[r].pc \in {"ini", "kill", "made"} /\ thr'[r].ret = "made"
      /\ \A z \in Threads \ {r} : Woke(z)
  <2> DEFINE u == [thr[r] EXCEPT !.pc = FetchTail, !.ret = "made", !.tkt = t]
  <2>1. thr' = [thr EXCEPT ![r] = u]
    BY <1>1, <1>5 DEF FetchFree
  <2>2. thr'[r] = u /\ \A z \in Threads \ {r} : Woke(z)
    BY <1>1, <2>1, OneStep
  <2>3. FetchTail \in {"ini", "kill", "made"}
    BY DEF FetchTail
  <2> QED BY <1>1, <2>2, <2>3 DEF FetchFree, At, ThreadState
<1>9. /\ "free" \in Places(t) /\ Clean(tk[t])
      /\ t \notin ToSet(ms_head) /\ t \notin ToSet(aw_head) /\ ~Unused(t)
  <2>1. OwnOk(Places(t), Roles(t), tk[t]) /\ "free" \in Places(t)
    BY <1>6, PlacesIs DEF AliveOk, Owned
  <2> QED BY <2>1, PlacesIs DEF OwnOk
<1>10. /\ PlaceOk(r)'
       /\ \A v \in Tickets \ {t} : Role(r, v)' = Role(r, v)
       /\ \A z \in Threads \ {r} : Role(z, t) = "none"
       /\ \A b \in inbox : b.unique # t
       /\ OwnOk({}, Roles(t)', tk'[t])
  BY <1>7, <1>8, <1>9, FetchedOk
<1>11. \A v \in Tickets \ {t} : SamePlaces(v)
  BY <1>6, <1>7 DEF SamePlaces, Unused
<1>12. Owned(t)'
  BY <1>6, <1>7, <1>9, <1>10, NowOwned DEF Unused
<1>13. ListsOk' /\ panic' = "none" /\ t < pool'.ticketer
  BY <1>2, <1>3, <1>6, <1>7, <1>9 DEF AliveOk, ListsOk, Unused, Tickets
<1> QED BY <1>1, <1>2, <1>7, <1>8, <1>10, <1>11, <1>12, <1>13, AliveAlone

\* fuse_ticket_alloc
LEMMA AllocAlive ==
    ASSUME TypeInv, HandshakeInv, AliveOk, AccountOk, NEW r \in Requesters, Alloc(r)
    PROVE  AliveOk'
<1>1. r \in Threads /\ thr \in [Threads -> ThreadState] /\ thr[r] \in ThreadState
  BY AliveRequester
<1>2. pool \in PoolState /\ pool.ticketer \in Nat /\ MaxTickets \in Nat
  BY StateFacts, BoundsAssumption DEF TypeInv, TypeOK
<1>3. PICK t \in Tickets : t = pool.ticketer
  BY <1>2 DEF Alloc, Tickets
<1>4. /\ UNCHANGED <<ms_head, aw_head, tk, inbox, panic>>
      /\ pool'.free = pool.free /\ pool'.loop = pool.loop /\ pool'.ticketer = pool.ticketer + 1
      /\ pool'.freeticket_counter = pool.freeticket_counter
      /\ pool'.gone = pool.gone /\ pool'.lost = pool.lost
  BY <1>2 DEF Alloc, env, queues, PoolState
<1>5. /\ thr[r].pc = "alloc" /\ thr'[r].tkt = t /\ thr'[r].saved = thr[r].saved
      /\ thr'[r].op = thr[r].op /\ thr'[r].rid = thr[r].rid /\ thr'[r].err = thr[r].err
      /\ thr'[r].pc = "pushall"
      /\ \A z \in Threads \ {r} : Woke(z)
  <2> DEFINE u == [thr[r] EXCEPT !.pc = "pushall", !.tkt = t]
  <2>1. thr' = [thr EXCEPT ![r] = u]
    BY <1>1, <1>3 DEF Alloc
  <2>2. thr'[r] = u /\ \A z \in Threads \ {r} : Woke(z)
    BY <1>1, <2>1, OneStep
  <2> QED BY <1>1, <2>2 DEF Alloc, At, ThreadState
<1>6. t \notin pool.gone /\ t \notin pool.lost /\ Unused(t) /\ Clean(tk[t])
  BY <1>2, <1>3 DEF AccountOk, Known, Unused, AliveOk
<1>7. /\ "unused" \in Places(t)
      /\ t \notin ToSet(pool.free) /\ t \notin ToSet(ms_head) /\ t \notin ToSet(aw_head)
  <2>1. OwnOk(Places(t), Roles(t), tk[t]) /\ "unused" \in Places(t)
    BY <1>6, PlacesIs DEF AliveOk, Owned
  <2> QED BY <2>1, PlacesIs DEF OwnOk
<1>8. /\ PlaceOk(r)'
      /\ \A v \in Tickets \ {t} : Role(r, v)' = Role(r, v)
      /\ \A z \in Threads \ {r} : Role(z, t) = "none"
      /\ \A b \in inbox : b.unique # t
      /\ OwnOk({}, Roles(t)', tk'[t])
  BY <1>4, <1>5, <1>6, <1>7, FetchedOk
<1>9. \A v \in Tickets \ {t} : SamePlaces(v)
  BY <1>2, <1>3, <1>4 DEF SamePlaces, Unused, Tickets
<1>10. ~Unused(t)'
  BY <1>2, <1>3, <1>4, <1>6 DEF Unused
<1>11. Owned(t)'
  BY <1>4, <1>7, <1>8, <1>10, NowOwned
<1>12. ListsOk' /\ panic' = "none" /\ t < pool'.ticketer /\ pool.ticketer <= pool'.ticketer /\ pool'.ticketer \in Nat
  BY <1>2, <1>3, <1>4 DEF AliveOk, ListsOk
<1> QED BY <1>1, <1>4, <1>5, <1>8, <1>9, <1>11, <1>12, AliveAlone


\* The ticket a message is being queued for: nobody else has it.
LEMMA SenderFacts ==
    ASSUME AliveOk, NEW x \in Threads, NEW t \in Tickets, Role(x, t) = "send"
    PROVE  /\ t \notin ToSet(pool.free) /\ t \notin ToSet(ms_head) /\ ~Unused(t)
           /\ t \in ToSet(aw_head) <=> ~tk[t].invalid
           /\ \A z \in Threads \ {x} : Role(z, t) = "none"
           /\ \A b \in inbox : b.unique # t
<1>1. Owned(t) /\ \A z \in Threads : Roles(t)[z] = Role(z, t)
  BY DEF AliveOk, Roles
<1>2. /\ t \notin ToSet(pool.free) /\ t \notin ToSet(ms_head) /\ ~Unused(t)
      /\ t \in ToSet(aw_head) <=> ~tk[t].invalid
      /\ \A z \in Threads \ {x} : Roles(t)[z] = "none"
  <2>1. OwnOk(Places(t), Roles(t), tk[t]) /\ Roles(t)[x] = "send"
    BY <1>1 DEF Owned
  <2> QED BY <2>1, SenderIs, PlacesIs
<1> QED BY <1>1, <1>2, NoMail

\* An answered ticket that its requester still waits for is the requester's alone.
LEMMA AnsweredFacts ==
    ASSUME AliveOk, NEW x \in Threads, NEW t \in Tickets, Role(x, t) = "wait", tk[t].answered
    PROVE  /\ t \notin ToSet(pool.free) /\ t \notin ToSet(ms_head) /\ t \notin ToSet(aw_head)
           /\ ~Unused(t) /\ tk[t].orid = tk[t].rid
           /\ \A z \in Threads \ {x} : Role(z, t) = "none"
           /\ \A b \in inbox : b.unique # t
<1>1. Owned(t) /\ \A z \in Threads : Roles(t)[z] = Role(z, t)
  BY DEF AliveOk, Roles
<1>2. /\ t \notin ToSet(pool.free) /\ t \notin ToSet(ms_head) /\ t \notin ToSet(aw_head)
      /\ ~Unused(t) /\ tk[t].orid = tk[t].rid
      /\ \A z \in Threads \ {x} : Roles(t)[z] = "none"
  <2>1. OwnOk(Places(t), Roles(t), tk[t]) /\ Roles(t)[x] = "wait"
    BY <1>1 DEF Owned
  <2>2. /\ "free" \notin Places(t) /\ "ms" \notin Places(t) /\ "aw" \notin Places(t)
        /\ "unused" \notin Places(t) /\ tk[t].orid = tk[t].rid
        /\ \A z \in Threads \ {x} : Roles(t)[z] = "none"
    BY <2>1 DEF OwnOk
  <2> QED BY <2>2, PlacesIs
<1> QED BY <1>1, <1>2, NoMail

\* A step of a requester with a ticket that nobody else has and that it keeps.
LEMMA KeepsStep ==
    ASSUME TypeInv, HandshakeInv, AliveOk, NEW r \in Requesters, NEW t \in Tickets,
           thr[r].tkt = t, thr'[r].tkt = t, thr'[r].saved = thr[r].saved,
           \A z \in Threads \ {r} : Woke(z),
           \A z \in Threads \ {r} : Role(z, t) = "none",
           \A b \in inbox : b.unique # t,
           t \notin ToSet(pool.free), t \notin ToSet(ms_head), ~Unused(t),
           UNCHANGED <<pool, ms_head, inbox, panic>>,
           \A v \in Tickets \ {t} : tk'[v] = tk[v] /\ (v \in ToSet(aw_head)' <=> v \in ToSet(aw_head)),
           NoRepeat(aw_head)',
           NEW q \in {{}, {"aw"}}, OwnOk(q, Roles(t)', tk'[t]), t \in ToSet(aw_head)' <=> "aw" \in q,
           RequesterOk(thr[r])'
    PROVE  AliveOk'
<1>1. r \in Threads /\ r \notin Readers /\ r \notin Writers /\ r \notin Admins /\ NoTicket \notin Tickets
  BY AliveRequester
<1>2. PlaceOk(r)'
  BY <1>1 DEF PlaceOk
<1>3. \A v \in Tickets \ {t} : SamePlaces(v)
  BY DEF SamePlaces, Unused
<1>4. \A v \in Tickets \ {t} : Role(r, v)' = Role(r, v)
  BY <1>1, RoleElsewhere
<1>5. ~Unused(t)'
  BY DEF Unused
<1>6. "free" \notin q /\ "ms" \notin q /\ "unused" \notin q
  OBVIOUS
<1>7. Owned(t)'
  BY <1>5, <1>6, NowOwned
<1>8. ListsOk' /\ panic' = "none"
  BY DEF AliveOk, ListsOk
<1>9. pool.ticketer \in Nat
  BY StateFacts
<1>10. t < pool'.ticketer /\ pool.ticketer <= pool'.ticketer /\ pool'.ticketer \in Nat
  BY <1>9 DEF Unused, Tickets
<1> QED BY <1>1, <1>2, <1>3, <1>4, <1>7, <1>8, <1>10, AliveAlone

\* fuse_dispatcher_make and the first half of fuse_insert_callback
LEMMA MakeAlive ==
    ASSUME TypeInv, HandshakeInv, AliveOk, ~dead, NEW r \in Requesters, Make(r)
    PROVE  AliveOk'
<1>1. /\ r \in Threads /\ thr \in [Threads -> ThreadState] /\ thr[r] \in ThreadState
      /\ RequesterOk(thr[r]) /\ HoldOk(thr[r])
      /\ NoTicket \notin Tickets /\ tk \in [Tickets -> TicketState]
  BY AliveRequester
<1>2. thr[r].pc = "made"
  BY DEF Make, At
<1>3. PICK t \in Tickets : t = thr[r].tkt
  BY <1>1, <1>2 DEF HoldOk, KeepsTicket, DerefLabels
<1>4. Role(r, t) = "alone" /\ Clean(tk[t]) /\ tk[t] \in TicketState
  BY <1>1, <1>2, <1>3 DEF Role, RequesterOk
<1>5. /\ t \notin ToSet(pool.free) /\ t \notin ToSet(ms_head) /\ t \notin ToSet(aw_head)
      /\ ~Unused(t)
      /\ \A z \in Threads \ {r} : Role(z, t) = "none"
      /\ \A b \in inbox : b.unique # t
  BY <1>1, <1>4, AloneFacts
<1>6. tk[t].invalid = FALSE /\ tk[t].answered = FALSE /\ tk[t].dirty = FALSE
  BY <1>4, CleanIs
<1> DEFINE c == thr[r].op \notin OneWay
           l == IF c THEN "cbins" ELSE "message"
<1>7. /\ tk'[t] = Headed(tk[t], thr[r].op, thr[r].rid, c)
      /\ \A v \in Tickets \ {t} : tk'[v] = tk[v]
      /\ UNCHANGED <<ms_head, aw_head, pool, inbox, panic>>
  BY <1>1, <1>3 DEF Make, env, queues
<1>8. thr'[r] = [thr[r] EXCEPT !.pc = l] /\ \A z \in Threads \ {r} : Woke(z)
  <2>1. thr' = [thr EXCEPT ![r] = [thr[r] EXCEPT !.pc = l]]
    BY <1>1 DEF Make
  <2> QED BY <1>1, <2>1, OneStep
<1>9. /\ thr'[r].tkt = t /\ thr'[r].saved = thr[r].saved /\ thr'[r].op = thr[r].op
      /\ thr'[r].rid = thr[r].rid /\ thr'[r].err = thr[r].err /\ thr'[r].pc = l
  BY <1>1, <1>3, <1>8 DEF ThreadState
<1>10. /\ tk'[t].rid = thr[r].rid /\ tk'[t].answered = FALSE /\ tk'[t].dirty = FALSE
       /\ tk'[t].invalid = (thr[r].op \in OneWay)
       /\ c => tk'[t].cb = CallbackOf(thr[r].op)
  BY <1>4, <1>6, <1>7 DEF Headed, TicketState, CallbackOf
<1>11. OwnOk(Places(t), Roles(t), tk[t])
  BY DEF AliveOk, Owned
<1>12. RequesterOk(thr[r])'
  <2>1. /\ thr[r].saved # NoTicket => thr[r].saved # t /\ tk'[thr[r].saved] = tk[thr[r].saved]
        /\ thr[r].op # "none"
    BY <1>1, <1>2, <1>3, <1>7, AliveRequester DEF RequesterOk
  <2> QED BY <1>1, <1>2, <1>3, <1>9, <1>10, <2>1 DEF RequesterOk, Waits
<1>13. OwnOk({}, Roles(t)', tk'[t])
  <2>1. CASE c
    <3>1. Role(r, t)' = "alone"
      BY <1>9, <2>1 DEF Role
    <3>2. Turns(Roles(t), Roles(t)', r, "alone", "alone")
      BY <1>1, <1>4, <1>8, <3>1, RolesTurn
    <3> QED BY <1>1, <1>11, <3>2, AloneStays
  <2>2. CASE ~c
    <3>1. Role(r, t)' = "send" /\ tk'[t].invalid
      BY <1>9, <1>10, <2>2 DEF Role
    <3>2. Turns(Roles(t), Roles(t)', r, "alone", "send")
      BY <1>1, <1>4, <1>8, <3>1, RolesTurn
    <3> QED BY <1>1, <1>11, <3>1, <3>2, AloneSends
  <2> QED BY <2>1, <2>2
<1>14. NoRepeat(aw_head)'
  BY <1>7 DEF AliveOk
<1> HIDE DEF c, l
<1> QED BY <1>3, <1>5, <1>7, <1>8, <1>9, <1>12, <1>13, <1>14, KeepsStep

\* A requester drops the ticket of a message that it could not fill in.
LEMMA MakeDropAlive ==
    ASSUME TypeInv, HandshakeInv, AliveOk, NEW r \in Requesters, MakeDrop(r)
    PROVE  AliveOk'
<1>1. /\ r \in Threads /\ thr \in [Threads -> ThreadState] /\ thr[r] \in ThreadState
      /\ RequesterOk(thr[r]) /\ HoldOk(thr[r])
      /\ NoTicket \notin Tickets /\ tk \in [Tickets -> TicketState]
  BY AliveRequester
<1>2. thr[r].pc = "made" /\ thr[r].op = "REQ" /\ thr[r].saved = NoTicket /\ thr[r].err = "none"
  BY <1>1 DEF MakeDrop, At, RequesterOk
<1>3. PICK t \in Tickets : t = thr[r].tkt
  BY <1>1, <1>2 DEF HoldOk, KeepsTicket, DerefLabels
<1>4. Role(r, t) = "alone"
  BY <1>2, <1>3 DEF Role
<1>5. /\ t \notin ToSet(pool.free) /\ t \notin ToSet(ms_head) /\ t \notin ToSet(aw_head)
      /\ ~Unused(t)
      /\ \A z \in Threads \ {r} : Role(z, t) = "none"
      /\ \A b \in inbox : b.unique # t
  BY <1>1, <1>4, AloneFacts
<1>6. /\ \A v \in Tickets \ {t} : tk'[v] = tk[v]
      /\ UNCHANGED <<ms_head, aw_head, pool, inbox, panic>>
  BY <1>1, <1>3 DEF MakeDrop, env, queues
<1>7. thr'[r] = [thr[r] EXCEPT !.pc = "drop", !.ret = "idle"] /\ \A z \in Threads \ {r} : Woke(z)
  <2>1. thr' = [thr EXCEPT ![r] = [thr[r] EXCEPT !.pc = "drop", !.ret = "idle"]]
    BY <1>1 DEF MakeDrop
  <2> QED BY <1>1, <2>1, OneStep
<1>8. /\ thr'[r].tkt = t /\ thr'[r].saved = thr[r].saved /\ thr'[r].op = "REQ"
      /\ thr'[r].err = "none" /\ thr'[r].pc = "drop"
  BY <1>1, <1>2, <1>3, <1>7 DEF ThreadState
<1>9. RequesterOk(thr[r])'
  BY <1>1, <1>2, <1>8 DEF RequesterOk, Waits
<1>10. OwnOk({}, Roles(t)', tk'[t])
  <2>1. OwnOk(Places(t), Roles(t), tk[t])
    BY DEF AliveOk, Owned
  <2>2. Role(r, t)' = "alone"
    BY <1>8 DEF Role
  <2>3. Turns(Roles(t), Roles(t)', r, "alone", "alone")
    BY <1>1, <1>4, <1>7, <2>2, RolesTurn
  <2> QED BY <1>1, <2>1, <2>3, AloneStays
<1>11. NoRepeat(aw_head)'
  BY <1>6 DEF AliveOk
<1> QED BY <1>3, <1>5, <1>6, <1>7, <1>8, <1>9, <1>10, <1>11, KeepsStep

\* TAILQ_INSERT_TAIL on aw_head
LEMMA InsertCallbackAlive ==
    ASSUME TypeInv, HandshakeInv, AliveOk, NEW r \in Requesters, InsertCallback(r)
    PROVE  AliveOk'
<1>1. /\ r \in Threads /\ thr \in [Threads -> ThreadState] /\ thr[r] \in ThreadState
      /\ RequesterOk(thr[r]) /\ HoldOk(thr[r])
      /\ NoTicket \notin Tickets /\ tk \in [Tickets -> TicketState]
  BY AliveRequester
<1>2. thr[r].pc = "cbins"
  BY DEF InsertCallback, At
<1>3. PICK t \in Tickets : t = thr[r].tkt
  BY <1>1, <1>2 DEF HoldOk, KeepsTicket, DerefLabels
<1>4. Role(r, t) = "alone" /\ ~tk[t].invalid /\ tk[t].cb # "none"
  BY <1>1, <1>2, <1>3 DEF Role, RequesterOk, CallbackOf
<1>5. /\ t \notin ToSet(pool.free) /\ t \notin ToSet(ms_head) /\ t \notin ToSet(aw_head)
      /\ ~Unused(t)
      /\ \A z \in Threads \ {r} : Role(z, t) = "none"
      /\ \A b \in inbox : b.unique # t
  BY <1>1, <1>4, AloneFacts
<1>6. UNCHANGED <<ms_head, tk, pool, inbox, panic>> /\ aw_head' = Append(aw_head, t)
  BY <1>3 DEF InsertCallback, env
<1>7. ToSet(aw_head)' = ToSet(aw_head) \cup {t} /\ NoRepeat(aw_head)'
  <2>1. aw_head \in Seq(Tickets) /\ NoRepeat(aw_head)
    BY DEF TypeInv, TypeOK, AliveOk
  <2> QED BY <1>5, <1>6, <2>1, ListEnds
<1>8. thr'[r] = [thr[r] EXCEPT !.pc = "message"] /\ \A z \in Threads \ {r} : Woke(z)
  <2>1. thr' = [thr EXCEPT ![r] = [thr[r] EXCEPT !.pc = "message"]]
    BY <1>1 DEF InsertCallback
  <2> QED BY <1>1, <2>1, OneStep
<1>9. /\ thr'[r].tkt = t /\ thr'[r].saved = thr[r].saved /\ thr'[r].op = thr[r].op
      /\ thr'[r].rid = thr[r].rid /\ thr'[r].err = thr[r].err /\ thr'[r].pc = "message"
  BY <1>1, <1>3, <1>8 DEF ThreadState
<1>10. RequesterOk(thr[r])'
  BY <1>1, <1>2, <1>3, <1>6, <1>9 DEF RequesterOk, Waits
<1>11. OwnOk({"aw"}, Roles(t)', tk'[t])
  <2>1. OwnOk(Places(t), Roles(t), tk[t])
    BY DEF AliveOk, Owned
  <2>2. Role(r, t)' = "send"
    BY <1>9 DEF Role
  <2>3. Turns(Roles(t), Roles(t)', r, "alone", "send")
    BY <1>1, <1>4, <1>8, <2>2, RolesTurn
  <2>4. ~tk'[t].invalid /\ tk'[t].cb # "none"
    BY <1>4, <1>6
  <2> QED BY <1>1, <2>1, <2>3, <2>4, AloneSends
<1>12. \A v \in Tickets \ {t} : tk'[v] = tk[v] /\ (v \in ToSet(aw_head)' <=> v \in ToSet(aw_head))
  BY <1>6, <1>7
<1>13. t \in ToSet(aw_head)'
  BY <1>7
<1> QED BY <1>3, <1>5, <1>6, <1>7, <1>8, <1>9, <1>10, <1>11, <1>12, <1>13, KeepsStep

\* fuse_insert_message marks the ticket and tests dead
LEMMA InsertMessageTestAlive ==
    ASSUME TypeInv, HandshakeInv, AliveOk, NEW r \in Requesters, InsertMessageTest(r)
    PROVE  AliveOk'
<1>1. /\ r \in Threads /\ thr \in [Threads -> ThreadState] /\ thr[r] \in ThreadState
      /\ RequesterOk(thr[r]) /\ HoldOk(thr[r])
      /\ NoTicket \notin Tickets /\ tk \in [Tickets -> TicketState]
  BY AliveRequester
<1>2. thr[r].pc = "message"
  BY DEF InsertMessageTest, At
<1>3. PICK t \in Tickets : t = thr[r].tkt
  BY <1>1, <1>2 DEF HoldOk, KeepsTicket, DerefLabels
<1>4. Role(r, t) = "send" /\ tk[t] \in TicketState
  BY <1>1, <1>2, <1>3 DEF Role
<1>5. /\ t \notin ToSet(pool.free) /\ t \notin ToSet(ms_head) /\ ~Unused(t)
      /\ t \in ToSet(aw_head) <=> ~tk[t].invalid
      /\ \A z \in Threads \ {r} : Role(z, t) = "none"
      /\ \A b \in inbox : b.unique # t
  BY <1>1, <1>4, SenderFacts
<1>6. /\ UNCHANGED <<ms_head, aw_head, pool, inbox, panic>>
      /\ tk'[t] = [tk[t] EXCEPT !.dirty = TRUE]
      /\ \A v \in Tickets \ {t} : tk'[v] = tk[v]
  BY <1>1, <1>3 DEF InsertMessageTest, env, queues
<1>7. /\ tk'[t].rid = tk[t].rid /\ tk'[t].answered = tk[t].answered
      /\ tk'[t].invalid = tk[t].invalid /\ tk'[t].cb = tk[t].cb
  BY <1>4, <1>6 DEF TicketState
<1>8. thr'[r] = [thr[r] EXCEPT !.pc = "msgins"] /\ \A z \in Threads \ {r} : Woke(z)
  <2>1. thr' = [thr EXCEPT ![r] = [thr[r] EXCEPT !.pc = "msgins"]]
    BY <1>1 DEF InsertMessageTest
  <2> QED BY <1>1, <2>1, OneStep
<1>9. /\ thr'[r].tkt = t /\ thr'[r].saved = thr[r].saved /\ thr'[r].op = thr[r].op
      /\ thr'[r].rid = thr[r].rid /\ thr'[r].err = thr[r].err /\ thr'[r].pc = "msgins"
  BY <1>1, <1>3, <1>8 DEF ThreadState
<1>10. RequesterOk(thr[r])'
  <2>1. thr[r].saved # NoTicket => thr[r].saved # t /\ tk'[thr[r].saved] = tk[thr[r].saved]
    BY <1>1, <1>3, <1>6, AliveRequester DEF RequesterOk
  <2> QED BY <1>1, <1>2, <1>3, <1>7, <1>9, <2>1 DEF RequesterOk, Waits
<1>11. PICK q \in {{}, {"aw"}} : q = Places(t) \cap {"aw"}
  OBVIOUS
<1>12. OwnOk(q, Roles(t)', tk'[t])
  <2>1. OwnOk(Places(t), Roles(t), tk[t])
    BY DEF AliveOk, Owned
  <2>2. Role(r, t)' = "send"
    BY <1>9 DEF Role
  <2>3. Turns(Roles(t), Roles(t)', r, "send", "send")
    BY <1>1, <1>4, <1>8, <2>2, RolesTurn
  <2> QED BY <1>1, <1>7, <1>11, <2>1, <2>3, SendStays
<1>13. t \in ToSet(aw_head)' <=> "aw" \in q
  BY <1>6, <1>11, PlacesIs
<1>14. NoRepeat(aw_head)'
  BY <1>6 DEF AliveOk
<1>15. \A v \in Tickets \ {t} : tk'[v] = tk[v] /\ (v \in ToSet(aw_head)' <=> v \in ToSet(aw_head))
  BY <1>6
<1>16. UNCHANGED <<pool, ms_head, inbox, panic>> /\ thr[r].tkt = t /\ thr'[r].tkt = t /\ thr'[r].saved = thr[r].saved
  BY <1>3, <1>6, <1>9
<1> QED BY <1>5, <1>8, <1>10, <1>12, <1>13, <1>14, <1>15, <1>16, KeepsStep

\* A requester that is done with an answered ticket: it drops it or uses it again.
LEMMA AnsweredAlive ==
    ASSUME TypeInv, HandshakeInv, AliveOk, NEW r \in Requesters,
           WaitedDrop(r) \/ UseDone(r) \/ Remake(r)
    PROVE  AliveOk'
<1>1. /\ r \in Threads /\ thr \in [Threads -> ThreadState] /\ thr[r] \in ThreadState
      /\ RequesterOk(thr[r]) /\ HoldOk(thr[r])
      /\ NoTicket \notin Tickets /\ tk \in [Tickets -> TicketState]
  BY AliveRequester
<1>2. thr[r].pc \in {"waited", "use"} /\ (thr[r].pc = "use" <=> UseDone(r) \/ Remake(r))
  BY DEF WaitedDrop, UseDone, Remake, At
<1>3. PICK t \in Tickets : t = thr[r].tkt
  BY <1>1, <1>2 DEF HoldOk, KeepsTicket, DerefLabels
<1>4. /\ Role(r, t) = "wait" /\ tk[t] \in TicketState /\ tk[t].answered
      /\ thr[r].op = "REQ" /\ thr[r].saved = NoTicket /\ (thr[r].pc = "use" => thr[r].err = "none")
  <2>1. thr[r].op = "REQ" /\ thr[r].saved = NoTicket /\ (thr[r].pc = "use" => thr[r].err = "none")
    BY <1>1, <1>2 DEF RequesterOk, Waits
  <2>2. thr[r].err = "none" => tk[t].answered
    BY <1>1, <1>2, <1>3 DEF RequesterOk
  <2>3. thr[r].err # "none" => tk[t].answered
    BY <1>3, <1>2, <2>1 DEF WaitedDrop
  <2> QED BY <1>1, <1>2, <1>3, <2>1, <2>2, <2>3 DEF Role
<1>5. /\ t \notin ToSet(pool.free) /\ t \notin ToSet(ms_head) /\ t \notin ToSet(aw_head)
      /\ ~Unused(t)
      /\ \A z \in Threads \ {r} : Role(z, t) = "none"
      /\ \A b \in inbox : b.unique # t
  BY <1>1, <1>4, AnsweredFacts
<1>6. /\ UNCHANGED <<ms_head, aw_head, pool, inbox, panic>>
      /\ \A v \in Tickets \ {t} : tk'[v] = tk[v]
      /\ Remake(r) => tk'[t] = Refresh(tk[t])
  BY <1>1, <1>3 DEF WaitedDrop, UseDone, Remake, env, queues
<1>7. /\ \A z \in Threads \ {r} : Woke(z)
      /\ thr'[r].tkt = t /\ thr'[r].saved = thr[r].saved /\ thr'[r].op = "REQ" /\ thr'[r].err = "none"
      /\ IF Remake(r) THEN thr'[r].pc = "made" ELSE thr'[r].pc = "drop"
  <2>1. CASE WaitedDrop(r)
    <3> DEFINE u == [thr[r] EXCEPT !.pc = "drop", !.ret = "idle", !.err = "none"]
    <3>1. thr' = [thr EXCEPT ![r] = u]
      BY <1>1, <2>1 DEF WaitedDrop
    <3>2. thr'[r] = u /\ \A z \in Threads \ {r} : Woke(z)
      BY <1>1, <3>1, OneStep
    <3>3. ~Remake(r)
      BY <2>1 DEF WaitedDrop, Remake, At
    <3> QED BY <1>1, <1>3, <1>4, <3>2, <3>3 DEF ThreadState
  <2>2. CASE UseDone(r) /\ ~Remake(r)
    <3> DEFINE u == [thr[r] EXCEPT !.pc = "drop", !.ret = "idle"]
    <3>1. thr' = [thr EXCEPT ![r] = u]
      BY <1>1, <2>2 DEF UseDone
    <3>2. thr'[r] = u /\ \A z \in Threads \ {r} : Woke(z)
      BY <1>1, <3>1, OneStep
    <3> QED BY <1>1, <1>2, <1>3, <1>4, <2>2, <3>2 DEF ThreadState
  <2>3. CASE Remake(r)
    <3> DEFINE u == [thr[r] EXCEPT !.pc = "made", !.rid = nreq + 1]
    <3>1. thr' = [thr EXCEPT ![r] = u]
      BY <1>1, <2>3 DEF Remake
    <3>2. thr'[r] = u /\ \A z \in Threads \ {r} : Woke(z)
      BY <1>1, <3>1, OneStep
    <3> QED BY <1>1, <1>2, <1>3, <1>4, <2>3, <3>2 DEF ThreadState
  <2> QED BY <2>1, <2>2, <2>3
<1>8. Remake(r) => Clean(tk'[t])
  BY <1>6 DEF Clean, Refresh, NewTicket
<1>9. RequesterOk(thr[r])'
  BY <1>1, <1>4, <1>7, <1>8 DEF RequesterOk, Waits
<1>10. OwnOk({}, Roles(t)', tk'[t])
  <2>1. OwnOk(Places(t), Roles(t), tk[t])
    BY DEF AliveOk, Owned
  <2>2. Role(r, t)' = "alone"
    BY <1>7 DEF Role
  <2>3. Turns(Roles(t), Roles(t)', r, "wait", "alone")
    BY <1>1, <1>4, <1>7, <2>2, RolesTurn
  <2> QED BY <1>1, <1>4, <2>1, <2>3, WaitAlone
<1>11. NoRepeat(aw_head)'
  BY <1>6 DEF AliveOk
<1> QED BY <1>3, <1>5, <1>6, <1>7, <1>9, <1>10, <1>11, KeepsStep

\* A caller returns without dropping the ticket of its answer.
LEMMA UseLeakAlive ==
    ASSUME TypeInv, HandshakeInv, AliveOk, NEW r \in Requesters, UseLeak(r)
    PROVE  AliveOk'
<1>1. r \in Threads /\ RequesterOk(thr[r]) /\ HoldOk(thr[r])
  BY AliveRequester
<1>2. thr[r].pc = "use" /\ thr[r].saved = NoTicket /\ tk[thr[r].tkt].answered
  BY <1>1 DEF UseLeak, At, RequesterOk, Waits
<1>3. PICK t \in Tickets : t = thr[r].tkt
  BY <1>1, <1>2 DEF HoldOk, KeepsTicket, DerefLabels
<1>4. Role(r, t) = "wait"
  BY <1>2, <1>3 DEF Role
<1>5. /\ t \notin ToSet(pool.free) /\ t \notin ToSet(ms_head) /\ t \notin ToSet(aw_head)
      /\ ~Unused(t)
      /\ \A z \in Threads \ {r} : Role(z, t) = "none"
      /\ \A b \in inbox : b.unique # t
  BY <1>1, <1>2, <1>3, <1>4, AnsweredFacts
<1>6. /\ UNCHANGED <<tk, ms_head, aw_head, inbox, panic>>
      /\ Lose(t) /\ thr' = [thr EXCEPT ![r] = IdleThread]
  BY <1>3 DEF UseLeak, env, queues
<1> QED BY <1>2, <1>3, <1>5, <1>6, LoserAlive

\* fuse_insert_message queues the message and wakes a reader
LEMMA InsertMessageAlive ==
    ASSUME TypeInv, HandshakeInv, AliveOk, NEW r \in Requesters, InsertMessage(r)
    PROVE  AliveOk'
<1>1. /\ r \in Threads /\ thr \in [Threads -> ThreadState] /\ thr[r] \in ThreadState
      /\ RequesterOk(thr[r]) /\ HoldOk(thr[r])
      /\ r \notin Readers /\ r \notin Writers /\ r \notin Admins
      /\ thr[r].saved \in Tickets \cup {NoTicket}
      /\ NoTicket \notin Tickets /\ tk \in [Tickets -> TicketState]
  BY AliveRequester
<1>2. thr[r].pc = "msgins"
  BY DEF InsertMessage, At
<1>3. PICK t \in Tickets : t = thr[r].tkt
  BY <1>1, <1>2 DEF HoldOk, KeepsTicket, DerefLabels
<1>4. Role(r, t) = "send" /\ tk[t] \in TicketState
  BY <1>1, <1>2, <1>3 DEF Role
<1>5. /\ t \notin ToSet(pool.free) /\ t \notin ToSet(ms_head) /\ ~Unused(t)
      /\ \A z \in Threads \ {r} : Role(z, t) = "none"
      /\ \A b \in inbox : b.unique # t
  BY <1>1, <1>4, SenderFacts
<1>6. UNCHANGED <<aw_head, tk, pool, inbox, panic>> /\ ms_head' = Append(ms_head, t)
  BY <1>3 DEF InsertMessage
<1>7. ToSet(ms_head)' = ToSet(ms_head) \cup {t} /\ NoRepeat(ms_head)'
  <2>1. ms_head \in Seq(Tickets) /\ NoRepeat(ms_head)
    BY DEF TypeInv, TypeOK, AliveOk
  <2> QED BY <1>5, <1>6, <2>1, ListEnds
<1> DEFINE u == CASE thr[r].op = "REQ" -> [thr[r] EXCEPT !.pc = "wait"]
                  [] thr[r].op = "INTERRUPT" ->
                        [thr[r] EXCEPT !.pc = "waited", !.op = "REQ", !.tkt = thr[r].saved,
                                       !.saved = NoTicket]
                  [] OTHER -> IdleThread
<1>8. thr'[r] = u /\ \A z \in Threads \ {r} : Woke(z)
  <2> DEFINE f == [thr EXCEPT ![r] = u]
  <2>1. Sent(r) = f
    BY DEF Sent
  <2>2. f \in [Threads -> {f[z] : z \in Threads}] /\ f[r] = u /\ \A z \in Threads \ {r} : f[z] = thr[z]
    BY <1>1
  <2>3. CASE thr' = f
    BY <2>2, <2>3 DEF Woke
  <2>4. ASSUME NEW d \in Readers, thr[d].pc = "rsleep", thr' = [f EXCEPT ![d].pc = "read"]
        PROVE  thr'[r] = u /\ \A z \in Threads \ {r} : Woke(z)
    <3>1. d \in Threads /\ d # r
      BY <1>1 DEF Threads
    <3> HIDE DEF f, u
    <3>2. thr'[d] = [f[d] EXCEPT !.pc = "read"] /\ \A z \in Threads \ {d} : thr'[z] = f[z]
      BY <2>2, <2>4, <3>1
    <3> QED BY <1>1, <2>2, <2>4, <3>1, <3>2 DEF Woke
  <2> QED BY <2>1, <2>3, <2>4 DEF InsertMessage, WakeOneReader, At
<1>9. /\ thr[r].op # "none"
      /\ thr[r].op = "REQ" => /\ thr'[r].tkt = t /\ thr'[r].saved = thr[r].saved
                              /\ thr'[r].op = "REQ" /\ thr'[r].rid = thr[r].rid
                              /\ thr'[r].err = thr[r].err /\ thr'[r].pc = "wait"
      /\ thr[r].op = "INTERRUPT" => /\ thr'[r].tkt = thr[r].saved /\ thr'[r].saved = NoTicket
                                    /\ thr'[r].op = "REQ" /\ thr'[r].rid = thr[r].rid
                                    /\ thr'[r].err = thr[r].err /\ thr'[r].pc = "waited"
      /\ thr[r].op \in {"INIT", "FORGET", "RELEASE"} => thr'[r] = IdleThread
  <2>1. thr[r].op # "none"
    BY <1>1, <1>2 DEF RequesterOk
  <2> QED BY <1>1, <1>3, <1>8, <2>1 DEF ThreadState
<1> HIDE DEF u
<1>10. thr[r].op \in {"REQ", "INTERRUPT", "INIT", "FORGET", "RELEASE"}
  BY <1>1, <1>9 DEF ThreadState, Ops, OneWay
<1>11. /\ thr[r].op = "INTERRUPT" => thr[r].saved \in Tickets \ {t} /\ thr[r].err # "none"
                                     /\ tk[thr[r].saved].rid = thr[r].rid
       /\ thr[r].op # "INTERRUPT" => thr[r].saved = NoTicket /\ thr[r].err = "none"
       /\ tk[t].rid = thr[r].rid /\ ~tk[t].answered
       /\ tk[t].invalid <=> thr[r].op \in OneWay
       /\ thr[r].op \notin OneWay => tk[t].cb = CallbackOf(thr[r].op)
  BY <1>1, <1>2, <1>3 DEF RequesterOk
<1>12. RequesterOk(thr[r])'
  <2>1. CASE thr[r].op = "REQ"
    BY <1>1, <1>6, <1>9, <1>11, <2>1 DEF RequesterOk, Waits
  <2>2. CASE thr[r].op = "INTERRUPT"
    BY <1>1, <1>6, <1>9, <1>11, <2>2 DEF RequesterOk, Waits
  <2>3. CASE thr[r].op \in {"INIT", "FORGET", "RELEASE"}
    BY <1>9, <2>3 DEF RequesterOk, Waits, IdleThread
  <2> QED BY <1>10, <2>1, <2>2, <2>3
<1>13. /\ \A v \in Tickets \ {t} : Role(r, v)' = Role(r, v)
       /\ thr[r].op = "REQ" => Role(r, t)' = "wait"
       /\ thr[r].op # "REQ" => Role(r, t)' = "none"
  <2>1. CASE thr[r].op = "REQ"
    BY <1>1, <1>3, <1>9, <1>11, <2>1 DEF Role
  <2>2. CASE thr[r].op = "INTERRUPT"
    BY <1>1, <1>3, <1>9, <1>11, <2>2 DEF Role
  <2>3. CASE thr[r].op \in {"INIT", "FORGET", "RELEASE"}
    BY <1>1, <1>3, <1>9, <1>11, <2>3 DEF Role, IdleThread
  <2> QED BY <1>10, <2>1, <2>2, <2>3
<1>14. OwnOk({"ms"} \cup (Places(t) \cap {"aw"}), Roles(t)', tk[t])
  <2>1. OwnOk(Places(t), Roles(t), tk[t])
    BY DEF AliveOk, Owned
  <2>2. Turns(Roles(t), Roles(t)', r, "send", Role(r, t)')
    BY <1>1, <1>4, <1>8, RolesTurn
  <2>3. CASE thr[r].op = "REQ"
    <3>1. Turns(Roles(t), Roles(t)', r, "send", "wait") /\ tk[t].cb = "standard" /\ ~tk[t].answered
          /\ ~tk[t].invalid
      BY <1>11, <1>13, <2>2, <2>3 DEF OneWay, CallbackOf
    <3> QED BY <1>1, <2>1, <3>1, SendQueues
  <2>4. CASE thr[r].op # "REQ"
    <3>1. Turns(Roles(t), Roles(t)', r, "send", "none") /\ (tk[t].invalid \/ tk[t].cb # "standard")
      BY <1>10, <1>11, <1>13, <2>2, <2>4 DEF OneWay, CallbackOf
    <3> QED BY <1>1, <2>1, <3>1, SendQueues
  <2> QED BY <2>3, <2>4
<1>15. Owned(t)'
  <2> DEFINE q == {"ms"} \cup (Places(t) \cap {"aw"})
  <2>1. /\ "free" \notin q /\ "unused" \notin q /\ "ms" \in q
        /\ "aw" \in q <=> t \in ToSet(aw_head)
    BY PlacesIs
  <2>2. OwnOk(q, Roles(t)', tk'[t])
    BY <1>6, <1>14
  <2>3. ~Unused(t)' /\ t \notin ToSet(pool.free)' /\ t \in ToSet(ms_head)'
        /\ (t \in ToSet(aw_head)' <=> t \in ToSet(aw_head))
    BY <1>5, <1>6, <1>7 DEF Unused
  <2> HIDE DEF q
  <2> QED BY <2>1, <2>2, <2>3, NowOwned
<1>16. \A v \in Tickets \ {t} : SamePlaces(v)
  BY <1>6, <1>7 DEF SamePlaces, Unused
<1>17. PlaceOk(r)' /\ ListsOk' /\ panic' = "none"
  BY <1>1, <1>6, <1>7, <1>12 DEF PlaceOk, AliveOk, ListsOk
<1>18. t < pool'.ticketer /\ pool.ticketer <= pool'.ticketer /\ pool'.ticketer \in Nat
  <2>1. pool.ticketer \in Nat
    BY StateFacts
  <2> QED BY <1>5, <1>6, <2>1 DEF Unused, Tickets
<1> QED BY <1>1, <1>5, <1>6, <1>8, <1>13, <1>15, <1>16, <1>17, <1>18, AliveAlone

\* An interrupted requester leaves its ticket to the late answer.
LEMMA WaitedDetachAlive ==
    ASSUME TypeInv, HandshakeInv, AliveOk, NEW r \in Requesters, WaitedDetach(r)
    PROVE  AliveOk'
<1>1. /\ r \in Threads /\ thr \in [Threads -> ThreadState] /\ thr[r] \in ThreadState
      /\ RequesterOk(thr[r]) /\ HoldOk(thr[r])
      /\ r \notin Readers /\ r \notin Writers /\ r \notin Admins
      /\ NoTicket \notin Tickets /\ tk \in [Tickets -> TicketState]
  BY AliveRequester
<1>2. thr[r].pc = "waited" /\ thr[r].op = "REQ" /\ thr[r].saved = NoTicket
  BY <1>1 DEF WaitedDetach, At, RequesterOk, Waits
<1>3. PICK t \in Tickets : t = thr[r].tkt
  BY <1>1, <1>2 DEF HoldOk, KeepsTicket, DerefLabels
<1>4. Role(r, t) = "wait" /\ tk[t] \in TicketState /\ ~tk[t].answered
  BY <1>1, <1>2, <1>3 DEF Role, WaitedDetach
<1>5. /\ UNCHANGED <<ms_head, aw_head, pool, inbox, panic>>
      /\ tk'[t] = [tk[t] EXCEPT !.answered = TRUE]
      /\ \A v \in Tickets \ {t} : tk'[v] = tk[v]
  BY <1>1, <1>3 DEF WaitedDetach, env, queues
<1>6. /\ tk'[t].rid = tk[t].rid /\ tk'[t].orid = tk[t].orid /\ tk'[t].op = tk[t].op
      /\ tk'[t].answered = TRUE
      /\ tk'[t].invalid = tk[t].invalid /\ tk'[t].cb = tk[t].cb
  BY <1>4, <1>5 DEF TicketState
<1>7. thr'[r] = IdleThread /\ \A z \in Threads \ {r} : Woke(z)
  BY <1>1, OneStep DEF WaitedDetach
<1>8. /\ thr'[r].tkt = NoTicket /\ thr'[r].saved = NoTicket /\ thr'[r].pc = "idle"
      /\ thr'[r].op = "none" /\ thr'[r].err = "none"
  BY <1>7 DEF IdleThread
<1>9. PlaceOk(r)'
  BY <1>1, <1>8 DEF PlaceOk, RequesterOk, Waits
<1>10. (\A v \in Tickets \ {t} : Role(r, v)' = Role(r, v)) /\ Role(r, t)' = "none"
  BY <1>1, <1>2, <1>3, <1>8, RoleElsewhere DEF Role
<1>11. OwnOk(Places(t), Roles(t), tk[t]) /\ \A z \in Threads : Roles(t)[z] = Role(z, t)
  BY DEF AliveOk, Owned, Roles
<1>12. \A z \in Threads \ {r} : Role(z, t) \in {"none", "got", "answer"}
  BY <1>1, <1>4, <1>11 DEF OwnOk
<1>13. \A z \in Threads \ {r} : KeptFor(z, t)
  BY <1>6, <1>12 DEF KeptFor
<1>14. OwnOk(Places(t), Roles(t)', tk'[t]) /\ "unused" \notin Places(t)
  <2>1. Turns(Roles(t), Roles(t)', r, "wait", "none")
    BY <1>1, <1>4, <1>7, <1>10, RolesTurn
  <2>2. OwnOk(Places(t), Roles(t)', tk'[t])
    BY <1>1, <1>4, <1>6, <1>11, <2>1, WaitLeft
  <2> QED BY <1>1, <1>4, <1>11, <2>2 DEF OwnOk
<1>15. ~Unused(t) /\ (Unused(t)' <=> Unused(t))
  BY <1>5, <1>14, PlacesIs DEF Unused
<1>16. Owned(t)'
  BY <1>5, <1>14, <1>15, PlacesIs, NowOwned
<1>17. \A v \in Tickets \ {t} : SamePlaces(v)
  BY <1>5 DEF SamePlaces, Unused
<1>18. \A b \in inbox' : b.unique = t => InboxOk(b)'
  <2> SUFFICES ASSUME NEW b \in inbox, b.unique = t PROVE InboxOk(b)'
    BY <1>5
  <2>1. InboxOk(b)
    BY DEF AliveOk
  <2>2. \A z \in Threads \ {r} : Role(z, t)' = Role(z, t)
    BY <1>7, WokeRole
  <2> QED BY <1>5, <1>6, <1>10, <2>1, <2>2 DEF InboxOk
<1>19. ListsOk' /\ panic' = "none"
  BY <1>5 DEF AliveOk, ListsOk
<1>20. t < pool'.ticketer /\ pool.ticketer <= pool'.ticketer /\ pool'.ticketer \in Nat
  <2>1. pool.ticketer \in Nat
    BY StateFacts
  <2> QED BY <1>5, <1>15, <2>1 DEF Unused, Tickets
<1>21. t >= pool'.ticketer => Clean(tk'[t])
  BY <1>20 DEF Tickets
<1>22. inbox' \subseteq [unique: Tickets, rid: Rids, op: Ops] /\ inbox' = inbox
  BY <1>5 DEF TypeInv, TypeOK
<1> QED BY <1>1, <1>7, <1>9, <1>10, <1>13, <1>16, <1>17, <1>18, <1>19, <1>20, <1>21, <1>22, AliveStep

\* fuse_device_read takes the first message
LEMMA ReadPopAlive ==
    ASSUME TypeInv, HandshakeInv, AliveOk, NEW d \in Readers, ReadPop(d)
    PROVE  AliveOk'
<1>1. /\ d \in Threads /\ thr \in [Threads -> ThreadState] /\ thr[d] \in ThreadState
      /\ ReaderOk(thr[d])
      /\ d \notin Requesters /\ thr[d].saved = NoTicket
      /\ NoTicket \notin Tickets
  BY AliveOther
<1>2. d \notin Writers /\ d \notin Admins
  BY ThreadsAssumption
<1>3. thr[d].tkt = NoTicket
  BY <1>1 DEF ReadPop, Reading, At, ReaderOk
<1>4. ms_head \in Seq(Tickets) /\ NoRepeat(ms_head) /\ ms_head # <<>>
  BY DEF TypeInv, TypeOK, AliveOk, ReadPop
<1>5. PICK t \in Tickets : t = Head(ms_head)
  BY <1>4, ListEnds
<1>6. t \in ToSet(ms_head) /\ ToSet(Tail(ms_head)) = ToSet(ms_head) \ {t} /\ NoRepeat(Tail(ms_head))
  BY <1>4, <1>5, ListEnds
<1>7. UNCHANGED <<aw_head, tk, pool, inbox, panic>> /\ ms_head' = Tail(ms_head)
  BY DEF ReadPop, env
<1>8. thr'[d] = [thr[d] EXCEPT !.pc = "got", !.tkt = t] /\ \A z \in Threads \ {d} : Woke(z)
  <2>1. thr' = [thr EXCEPT ![d] = [thr[d] EXCEPT !.pc = "got", !.tkt = t]]
    BY <1>1, <1>5 DEF ReadPop
  <2> QED BY <1>1, <2>1, OneStep
<1>9. thr'[d].tkt = t /\ thr'[d].saved = NoTicket /\ thr'[d].pc = "got"
  BY <1>1, <1>8 DEF ThreadState
<1>10. PlaceOk(d)'
  BY <1>1, <1>2, <1>9 DEF PlaceOk, ReaderOk
<1>11. (\A v \in Tickets \ {t} : Role(d, v)' = Role(d, v)) /\ Role(d, t)' = "got" /\ Role(d, t) = "none"
  BY <1>1, <1>3, <1>9, RoleElsewhere DEF Role
<1>12. OwnOk(Places(t), Roles(t), tk[t]) /\ "ms" \in Places(t) /\ "free" \notin Places(t)
       /\ "unused" \notin Places(t)
  <2>1. OwnOk(Places(t), Roles(t), tk[t]) /\ "ms" \in Places(t)
    BY <1>6, PlacesIs DEF AliveOk, Owned
  <2> QED BY <2>1 DEF OwnOk
<1>13. OwnOk(Places(t) \cap {"aw"}, Roles(t)', tk'[t])
  <2>1. Turns(Roles(t), Roles(t)', d, "none", "got")
    BY <1>1, <1>8, <1>11, RolesTurn
  <2>2. OwnOk(Places(t) \cap {"aw"}, Roles(t)', tk[t])
    BY <1>1, <1>12, <2>1, MessageRead
  <2> QED BY <1>7, <2>2
<1>14. Owned(t)'
  <2> DEFINE q == Places(t) \cap {"aw"}
  <2>1. /\ "free" \notin q /\ "unused" \notin q /\ "ms" \notin q
        /\ "aw" \in q <=> t \in ToSet(aw_head)
    BY PlacesIs
  <2>2. OwnOk(q, Roles(t)', tk'[t])
    BY <1>13
  <2>3. ~Unused(t)' /\ t \notin ToSet(pool.free)' /\ t \notin ToSet(ms_head)'
        /\ (t \in ToSet(aw_head)' <=> t \in ToSet(aw_head))
    BY <1>6, <1>7, <1>12, PlacesIs DEF Unused
  <2> HIDE DEF q
  <2> QED BY <2>1, <2>2, <2>3, NowOwned
<1>15. \A v \in Tickets \ {t} : SamePlaces(v)
  BY <1>6, <1>7 DEF SamePlaces, Unused
<1>16. \A z \in Threads \ {d} : KeptFor(z, t)
  BY <1>7 DEF KeptFor
<1>17. \A b \in inbox : b.unique # t
  BY <1>6, NoMail
<1>18. ListsOk' /\ panic' = "none"
  BY <1>6, <1>7 DEF AliveOk, ListsOk
<1>19. pool.ticketer <= pool'.ticketer /\ pool'.ticketer \in Nat
  <2>1. pool.ticketer \in Nat
    BY StateFacts
  <2> QED BY <1>7, <2>1
<1>20. t >= pool'.ticketer => Clean(tk'[t])
  BY <1>7 DEF AliveOk
<1>21. inbox' \subseteq [unique: Tickets, rid: Rids, op: Ops] /\ inbox' = inbox
  BY <1>7 DEF TypeInv, TypeOK
<1> QED BY <1>1, <1>8, <1>10, <1>11, <1>14, <1>15, <1>16, <1>17, <1>18, <1>19, <1>20, <1>21, AliveStep

\* The end of a read: the message is delivered, or nothing comes of it.
LEMMA ReadReturnAlive ==
    ASSUME TypeInv, HandshakeInv, AliveOk, HeaderOk, NEW d \in Readers,
           ReadNothing(d) \/ ReadDeliver(d)
    PROVE  AliveOk'
<1>1. /\ d \in Threads /\ thr \in [Threads -> ThreadState] /\ thr[d] \in ThreadState
      /\ ReaderOk(thr[d]) /\ HoldOk(thr[d])
      /\ d \notin Requesters /\ thr[d].saved = NoTicket
      /\ NoTicket \notin Tickets /\ tk \in [Tickets -> TicketState]
  BY AliveOther
<1>2. d \notin Writers /\ d \notin Admins /\ thr[d].pc = "got"
  BY ThreadsAssumption DEF ReadNothing, ReadDeliver, At
<1>3. PICK t \in Tickets : t = thr[d].tkt
  BY <1>1, <1>2 DEF HoldOk, KeepsTicket, DerefLabels
<1>4. Role(d, t) = "got" /\ tk[t] \in TicketState
  BY <1>1, <1>2, <1>3 DEF Role
<1>5. UNCHANGED <<ms_head, aw_head, tk, pool, panic>>
  BY DEF ReadNothing, ReadDeliver, queues
<1> DEFINE u == IF tk[t].invalid THEN [thr[d] EXCEPT !.pc = "drop", !.ret = "idle"] ELSE IdleThread
<1>6. thr'[d] = u /\ \A z \in Threads \ {d} : Woke(z)
  <2>1. thr' = [thr EXCEPT ![d] = u]
    BY <1>1, <1>3 DEF ReadNothing, ReadDeliver, ReadReturn
  <2> QED BY <1>1, <2>1, OneStep
<1>7. /\ thr'[d].saved = NoTicket
      /\ tk[t].invalid => thr'[d].tkt = t /\ thr'[d].pc = "drop" /\ thr'[d].ret = "idle"
      /\ ~tk[t].invalid => thr'[d].tkt = NoTicket /\ thr'[d].pc = "idle"
  BY <1>1, <1>3, <1>6 DEF ThreadState, IdleThread
<1> HIDE DEF u
<1>8. PlaceOk(d)'
  BY <1>1, <1>2, <1>7 DEF PlaceOk, ReaderOk
<1>9. /\ \A v \in Tickets \ {t} : Role(d, v)' = Role(d, v)
      /\ Role(d, t)' = IF tk[t].invalid THEN "alone" ELSE "none"
  BY <1>1, <1>3, <1>7, RoleElsewhere DEF Role
<1>10. OwnOk(Places(t), Roles(t), tk[t]) /\ \A z \in Threads : Roles(t)[z] = Role(z, t)
  BY DEF AliveOk, Owned, Roles
<1>11. /\ OwnOk(Places(t) \cap {"aw"}, Roles(t)', tk[t])
       /\ "free" \notin Places(t) /\ "ms" \notin Places(t) /\ "unused" \notin Places(t)
  <2>1. Turns(Roles(t), Roles(t)', d, "got", IF tk[t].invalid THEN "alone" ELSE "none")
    BY <1>1, <1>4, <1>6, <1>9, RolesTurn
  <2>2. CASE tk[t].invalid
    <3>1. Turns(Roles(t), Roles(t)', d, "got", "alone")
      BY <2>1, <2>2
    <3> QED BY <1>1, <1>10, <2>2, <3>1, ReadDone
  <2>3. CASE ~tk[t].invalid
    <3>1. Turns(Roles(t), Roles(t)', d, "got", "none")
      BY <2>1, <2>3
    <3> QED BY <1>1, <1>10, <2>3, <3>1, ReadDone
  <2> QED BY <2>2, <2>3
<1>12. Owned(t)'
  <2> DEFINE q == Places(t) \cap {"aw"}
  <2>1. /\ "free" \notin q /\ "unused" \notin q /\ "ms" \notin q
        /\ "aw" \in q <=> t \in ToSet(aw_head)
    BY PlacesIs
  <2>2. OwnOk(q, Roles(t)', tk'[t])
    BY <1>5, <1>11
  <2>3. ~Unused(t)' /\ t \notin ToSet(pool.free)' /\ t \notin ToSet(ms_head)'
        /\ (t \in ToSet(aw_head)' <=> t \in ToSet(aw_head))
    BY <1>5, <1>11, PlacesIs DEF Unused
  <2> HIDE DEF q
  <2> QED BY <2>1, <2>2, <2>3, NowOwned
<1>13. \A v \in Tickets \ {t} : SamePlaces(v)
  BY <1>5 DEF SamePlaces, Unused
<1>14. \A z \in Threads \ {d} : KeptFor(z, t)
  BY <1>5 DEF KeptFor
<1>15. \A b \in inbox : b.unique # t
  BY <1>1, <1>4, NoMail
<1>16. /\ inbox' \subseteq [unique: Tickets, rid: Rids, op: Ops]
       /\ \A b \in inbox' : b.unique # t => b \in inbox
       /\ \A b \in inbox' : b.unique = t => InboxOk(b)'
  <2>1. inbox \subseteq [unique: Tickets, rid: Rids, op: Ops]
    BY DEF TypeInv, TypeOK
  <2>2. CASE ReadNothing(d)
    BY <1>15, <2>1, <2>2 DEF ReadNothing, env
  <2>3. CASE ReadDeliver(d)
    <3>0. PICK m : m = [unique |-> t, rid |-> tk[t].rid, op |-> tk[t].op]
      OBVIOUS
    <3>1. inbox' = inbox \cup {m} /\ tk[t].op \notin OneWay
      BY <1>3, <2>3, <3>0 DEF ReadDeliver
    <3>2. m \in [unique: Tickets, rid: Rids, op: Ops]
      BY <1>4, <3>0 DEF TicketState
    <3>3. m.unique = t /\ m.rid = tk[t].rid /\ m.op = tk[t].op
      BY <3>0
    <3>4. ~tk[t].invalid
      BY <3>1 DEF HeaderOk
    <3>5. t \in ToSet(aw_head) /\ t \notin ToSet(ms_head)
      <4>1. "aw" \in Places(t) /\ "ms" \notin Places(t)
        BY <1>1, <1>4, <1>10, <3>4 DEF OwnOk
      <4> QED BY <4>1, PlacesIs
    <3>6. \A z \in Threads \ {d} : Role(z, t) \in {"none", "wait"}
      BY <1>1, <1>4, <1>10 DEF OwnOk
    <3>7. \A z \in Threads : Role(z, t)' \in {"none", "wait"}
      <4>1. \A z \in Threads \ {d} : Role(z, t)' = Role(z, t)
        BY <1>6, WokeRole
      <4> QED BY <1>9, <3>4, <3>6, <4>1
    <3>8. InboxOk(m)'
      <4>1. t \in ToSet(aw_head)' /\ t \notin ToSet(ms_head)' /\ tk'[t] = tk[t]
        BY <1>5, <3>5
      <4> QED BY <3>3, <3>7, <4>1 DEF InboxOk
    <3> QED BY <1>15, <2>1, <3>1, <3>2, <3>3, <3>8
  <2> QED BY <2>2, <2>3
<1>17. ListsOk' /\ panic' = "none"
  BY <1>5 DEF AliveOk, ListsOk
<1>18. pool.ticketer <= pool'.ticketer /\ pool'.ticketer \in Nat
  <2>1. pool.ticketer \in Nat
    BY StateFacts
  <2> QED BY <1>5, <2>1
<1>19. t >= pool'.ticketer => Clean(tk'[t])
  BY <1>5 DEF AliveOk
<1> QED BY <1>1, <1>6, <1>8, <1>9, <1>12, <1>13, <1>14, <1>16, <1>17, <1>18, <1>19, AliveStep

\* fuse_device_write takes the ticket off aw_head
LEMMA WriteFoundAlive ==
    ASSUME TypeInv, HandshakeInv, AliveOk, NEW w \in Writers, NEW m \in inbox, NEW k,
           WriteFound(w, m, k)
    PROVE  AliveOk'
<1>1. /\ w \in Threads /\ thr \in [Threads -> ThreadState] /\ thr[w] \in ThreadState
      /\ WriterOk(thr[w])
      /\ w \notin Requesters /\ thr[w].saved = NoTicket
      /\ NoTicket \notin Tickets
  BY AliveOther
<1>2. w \notin Readers /\ w \notin Admins
  BY ThreadsAssumption
<1>3. thr[w].tkt = NoTicket
  BY <1>1 DEF WriteFound, At, WriterOk
<1>4. inbox \subseteq [unique: Tickets, rid: Rids, op: Ops]
  BY DEF TypeInv, TypeOK
<1>5. PICK t \in Tickets : t = m.unique
  BY <1>4
<1>6. /\ t \in ToSet(aw_head) /\ t \notin ToSet(ms_head)
      /\ \A x \in Threads : Role(x, t) \in {"none", "wait"}
      /\ m.rid = tk[t].rid /\ m.op = tk[t].op
  BY <1>5 DEF AliveOk, InboxOk
<1>7. UNCHANGED <<ms_head, tk, pool, panic>> /\ inbox' = inbox \ {m}
  BY DEF WriteFound
<1>8. ToSet(aw_head)' = ToSet(aw_head) \ {t} /\ NoRepeat(aw_head)'
  <2>1. aw_head \in Seq(Tickets) /\ NoRepeat(aw_head)
    BY DEF TypeInv, TypeOK, AliveOk
  <2>2. PICK i \in DOMAIN aw_head : aw_head[i] = t /\ aw_head' = RemoveAt(aw_head, i)
    BY <1>5 DEF WriteFound, Matches
  <2> QED BY <2>1, <2>2, ListRemove
<1> DEFINE u == [thr[w] EXCEPT !.pc = "found", !.tkt = t, !.arid = m.rid, !.kind = k]
<1>9. thr'[w] = u /\ \A z \in Threads \ {w} : Woke(z)
  <2>1. thr' = [thr EXCEPT ![w] = u]
    BY <1>1, <1>5 DEF WriteFound
  <2> QED BY <1>1, <2>1, OneStep
<1>10. thr'[w].tkt = t /\ thr'[w].saved = NoTicket /\ thr'[w].pc = "found" /\ thr'[w].arid = tk[t].rid
  BY <1>1, <1>6, <1>9 DEF ThreadState
<1> HIDE DEF u
<1>11. PlaceOk(w)'
  BY <1>1, <1>2, <1>7, <1>10 DEF PlaceOk, WriterOk
<1>12. /\ \A v \in Tickets \ {t} : Role(w, v)' = Role(w, v)
       /\ Role(w, t)' = "answer" /\ Role(w, t) = "none"
  BY <1>1, <1>3, <1>10, RoleElsewhere DEF Role
<1>13. OwnOk({}, Roles(t)', tk[t]) /\ "free" \notin Places(t) /\ "unused" \notin Places(t)
  <2>1. OwnOk(Places(t), Roles(t), tk[t]) /\ \A z \in Threads : Roles(t)[z] = Role(z, t)
    BY DEF AliveOk, Owned, Roles
  <2>2. Turns(Roles(t), Roles(t)', w, "none", "answer")
    BY <1>1, <1>9, <1>12, RolesTurn
  <2>3. "aw" \in Places(t) /\ "ms" \notin Places(t) /\ \A z \in Threads : Roles(t)[z] \in {"none", "wait"}
    BY <1>6, <2>1, PlacesIs
  <2> QED BY <1>1, <2>1, <2>2, <2>3, AnswerBegins
<1>14. Owned(t)'
  <2>1. OwnOk({}, Roles(t)', tk'[t])
    BY <1>7, <1>13
  <2>2. ~Unused(t)' /\ t \notin ToSet(pool.free)' /\ t \notin ToSet(ms_head)' /\ t \notin ToSet(aw_head)'
    BY <1>6, <1>7, <1>8, <1>13, PlacesIs DEF Unused
  <2> QED BY <2>1, <2>2, NowOwned
<1>15. \A v \in Tickets \ {t} : SamePlaces(v)
  BY <1>7, <1>8 DEF SamePlaces, Unused
<1>16. \A z \in Threads \ {w} : KeptFor(z, t)
  BY <1>7 DEF KeptFor
<1>17. \A b \in inbox' : b.unique # t
  <2> SUFFICES ASSUME NEW b \in inbox, b.unique = t PROVE b = m
    BY <1>7
  <2>1. b.rid = tk[t].rid /\ b.op = tk[t].op
    BY DEF AliveOk, InboxOk
  <2> QED BY <1>4, <1>5, <1>6, <2>1
<1>18. ListsOk' /\ panic' = "none"
  BY <1>7, <1>8 DEF AliveOk, ListsOk
<1>19. pool.ticketer <= pool'.ticketer /\ pool'.ticketer \in Nat
  <2>1. pool.ticketer \in Nat
    BY StateFacts
  <2> QED BY <1>7, <2>1
<1>20. t >= pool'.ticketer => Clean(tk'[t])
  BY <1>7 DEF AliveOk
<1>21. inbox' \subseteq [unique: Tickets, rid: Rids, op: Ops] /\ inbox' \subseteq inbox
  BY <1>4, <1>7
<1> QED BY <1>1, <1>9, <1>11, <1>12, <1>14, <1>15, <1>16, <1>17, <1>18, <1>19, <1>20, <1>21, AliveStep

\* While the session is alive nothing the daemon answers is unknown.
LEMMA NeverUnknown ==
    ASSUME AliveOk, NEW m \in inbox
    PROVE  Matches(m.unique) # {}
<1>1. m.unique \in ToSet(aw_head)
  BY DEF AliveOk, InboxOk
<1>2. PICK i \in DOMAIN aw_head : aw_head[i] = m.unique
  BY <1>1 DEF ToSet
<1> QED BY <1>2 DEF Matches

\* A writer with a ticket: at most one requester waits for it.
LEMMA WriterFacts ==
    ASSUME TypeInv, HandshakeInv, AliveOk, NEW w \in Writers, thr[w].pc \in {"found", "answer"}
    PROVE  /\ w \in Threads /\ thr \in [Threads -> ThreadState] /\ thr[w] \in ThreadState
           /\ w \notin Requesters /\ w \notin Readers /\ w \notin Admins
           /\ tk \in [Tickets -> TicketState] /\ NoTicket \notin Tickets
           /\ WriterOk(thr[w]) /\ thr[w].saved = NoTicket
           /\ thr[w].tkt \in Tickets /\ Role(w, thr[w].tkt) = "answer"
<1>1. /\ w \in Threads /\ thr \in [Threads -> ThreadState] /\ thr[w] \in ThreadState
      /\ w \notin Requesters /\ HoldOk(thr[w])
      /\ tk \in [Tickets -> TicketState] /\ NoTicket \notin Tickets
      /\ WriterOk(thr[w]) /\ thr[w].saved = NoTicket
  BY AliveOther
<1>2. w \notin Readers /\ w \notin Admins
  BY ThreadsAssumption
<1>3. thr[w].tkt \in Tickets
  BY <1>1 DEF HoldOk, KeepsTicket, DerefLabels
<1> QED BY <1>1, <1>2, <1>3 DEF Role

\* What the ticket of a writer looks like.
LEMMA AnswerFacts ==
    ASSUME AliveOk, NEW x \in Threads, NEW t \in Tickets, Role(x, t) = "answer"
    PROVE  /\ t \notin ToSet(pool.free) /\ t \notin ToSet(ms_head) /\ t \notin ToSet(aw_head)
           /\ ~Unused(t)
           /\ \A z \in Threads \ {x} : Role(z, t) \in {"none", "wait"}
           /\ tk[t].answered \/ tk[t].cb # "standard" => \A z \in Threads \ {x} : Role(z, t) = "none"
           /\ \A b \in inbox : b.unique # t
<1>1. Owned(t) /\ \A z \in Threads : Roles(t)[z] = Role(z, t)
  BY DEF AliveOk, Roles
<1>2. OwnOk(Places(t), Roles(t), tk[t]) /\ Roles(t)[x] = "answer"
  BY <1>1 DEF Owned
<1>3. /\ "free" \notin Places(t) /\ "ms" \notin Places(t) /\ "aw" \notin Places(t)
      /\ "unused" \notin Places(t)
      /\ \A z \in Threads \ {x} : Roles(t)[z] \in {"none", "wait"}
      /\ \A z \in Threads \ {x} : Roles(t)[z] = "wait" => tk[t].cb = "standard" /\ ~tk[t].answered
  BY <1>2, WriterIs
<1> QED BY <1>1, <1>3, PlacesIs, NoMail

\* A step of a writer with its ticket, which stays out of the lists.
LEMMA WriterStepAlive ==
    ASSUME TypeInv, HandshakeInv, AliveOk, NEW w \in Writers, thr[w].pc \in {"found", "answer"},
           NEW t \in Tickets, t = thr[w].tkt, thr'[w].tkt \in {t, NoTicket}, thr'[w].saved = NoTicket,
           \A z \in Threads \ {w} : Woke(z),
           \A z \in Threads \ {w} : KeptFor(z, t),
           UNCHANGED <<ms_head, aw_head, pool, inbox, panic>>,
           \A v \in Tickets \ {t} : tk'[v] = tk[v],
           OwnOk({}, Roles(t)', tk'[t]), WriterOk(thr[w])'
    PROVE  AliveOk'
<1>1. /\ w \in Threads /\ w \notin Requesters /\ w \notin Readers /\ w \notin Admins
      /\ NoTicket \notin Tickets /\ thr[w].saved = NoTicket /\ Role(w, t) = "answer"
  BY WriterFacts
<1>2. /\ t \notin ToSet(pool.free) /\ t \notin ToSet(ms_head) /\ t \notin ToSet(aw_head)
      /\ ~Unused(t)
      /\ \A b \in inbox : b.unique # t
  BY <1>1, AnswerFacts
<1>3. PlaceOk(w)'
  BY <1>1 DEF PlaceOk
<1>4. \A v \in Tickets \ {t} : Role(w, v)' = Role(w, v)
  BY <1>1, RoleElsewhere
<1>5. \A v \in Tickets \ {t} : SamePlaces(v)
  BY DEF SamePlaces, Unused
<1>6. ~Unused(t)' /\ t \notin ToSet(pool.free)' /\ t \notin ToSet(ms_head)' /\ t \notin ToSet(aw_head)'
  BY <1>2 DEF Unused
<1>7. Owned(t)'
  BY <1>6, NowOwned
<1>8. ListsOk' /\ panic' = "none"
  BY DEF AliveOk, ListsOk
<1>9. t < pool'.ticketer /\ pool.ticketer <= pool'.ticketer /\ pool'.ticketer \in Nat
  <2>1. pool.ticketer \in Nat
    BY StateFacts
  <2> QED BY <1>2, <2>1 DEF Unused, Tickets
<1>10. t >= pool'.ticketer => Clean(tk'[t])
  BY <1>9 DEF Tickets
<1>11. inbox' \subseteq [unique: Tickets, rid: Rids, op: Ops]
  BY DEF TypeInv, TypeOK
<1> QED BY <1>1, <1>2, <1>3, <1>4, <1>5, <1>7, <1>8, <1>9, <1>10, <1>11, AliveStep

\* What the copy of the answer does to a ticket.
LEMMA PulledIs ==
    ASSUME NEW s \in TicketState, NEW me
    PROVE  /\ Pulled(s, me).orid = me.arid /\ Pulled(s, me).rid = s.rid
           /\ Pulled(s, me).cb = s.cb /\ Pulled(s, me).answered = s.answered
           /\ Pulled(s, me).invalid = s.invalid /\ Pulled(s, me).op = s.op
BY DEF Pulled, TicketState

\* fuse_standard_callback copies the answer in
LEMMA PullAlive ==
    ASSUME TypeInv, HandshakeInv, AliveOk, NEW w \in Writers, Pull(w)
    PROVE  AliveOk'
<1>0. thr[w].pc \in {"found", "answer"} /\ thr[w].pc = "found"
  BY DEF Pull, At
<1>1. /\ w \in Threads /\ thr \in [Threads -> ThreadState] /\ thr[w] \in ThreadState
      /\ tk \in [Tickets -> TicketState] /\ NoTicket \notin Tickets
      /\ WriterOk(thr[w]) /\ thr[w].saved = NoTicket
      /\ thr[w].tkt \in Tickets /\ Role(w, thr[w].tkt) = "answer"
  BY <1>0, WriterFacts
<1>2. PICK t \in Tickets : t = thr[w].tkt
  BY <1>1
<1>3. \A z \in Threads \ {w} : Role(z, t) \in {"none", "wait"}
  BY <1>1, <1>2, AnswerFacts
<1>4. /\ UNCHANGED <<ms_head, aw_head, pool, inbox, panic>>
      /\ \A v \in Tickets \ {t} : tk'[v] = tk[v]
      /\ tk'[t] = Pulled(tk[t], thr[w]) /\ tk[t].cb = "standard"
  BY <1>1, <1>2 DEF Pull, env, queues
<1>5. /\ tk'[t].orid = thr[w].arid /\ tk'[t].rid = tk[t].rid /\ tk'[t].cb = tk[t].cb
      /\ tk'[t].answered = tk[t].answered /\ tk'[t].invalid = tk[t].invalid
  <2>1. tk[t] \in TicketState
    BY <1>1
  <2> HIDE DEF Pulled
  <2> QED BY <1>4, <2>1, PulledIs
<1>6. thr'[w] = [thr[w] EXCEPT !.pc = "answer", !.perr = PullError(w)] /\ \A z \in Threads \ {w} : Woke(z)
  <2>1. thr' = [thr EXCEPT ![w] = [thr[w] EXCEPT !.pc = "answer", !.perr = PullError(w)]]
    BY <1>1 DEF Pull
  <2> QED BY <1>1, <2>1, OneStep
<1>7. thr'[w].tkt = t /\ thr'[w].saved = NoTicket /\ thr'[w].pc = "answer" /\ thr'[w].arid = thr[w].arid
  BY <1>1, <1>2, <1>6 DEF ThreadState
<1>8. WriterOk(thr[w])'
  <2>1. thr[w].arid = tk[t].rid
    BY <1>0, <1>1, <1>2 DEF WriterOk
  <2> QED BY <1>1, <1>4, <1>5, <1>7, <2>1 DEF WriterOk
<1>9. \A z \in Threads \ {w} : KeptFor(z, t)
  BY <1>3, <1>5 DEF KeptFor
<1>10. OwnOk({}, Roles(t)', tk'[t])
  <2>1. OwnOk(Places(t), Roles(t), tk[t])
    BY DEF AliveOk, Owned
  <2>2. Role(w, t)' = "answer"
    BY <1>7 DEF Role
  <2>3. Turns(Roles(t), Roles(t)', w, "answer", "answer")
    BY <1>1, <1>2, <1>6, <2>2, RolesTurn
  <2> QED BY <1>1, <1>5, <2>1, <2>3, AnswerStays
<1> QED BY <1>0, <1>2, <1>4, <1>6, <1>7, <1>8, <1>9, <1>10, WriterStepAlive

\* The answer to a request that was left, and the answer to INIT: the ticket is
\* the writer's to drop.
LEMMA AnswerDropAlive ==
    ASSUME TypeInv, HandshakeInv, AliveOk, NEW w \in Writers, AnswerDrop(w) \/ InitCallback(w)
    PROVE  AliveOk'
<1>0. thr[w].pc \in {"found", "answer"}
  BY DEF AnswerDrop, InitCallback, At
<1>1. /\ w \in Threads /\ thr \in [Threads -> ThreadState] /\ thr[w] \in ThreadState
      /\ tk \in [Tickets -> TicketState] /\ NoTicket \notin Tickets
      /\ WriterOk(thr[w]) /\ thr[w].saved = NoTicket
      /\ thr[w].tkt \in Tickets /\ Role(w, thr[w].tkt) = "answer"
  BY <1>0, WriterFacts
<1>2. PICK t \in Tickets : t = thr[w].tkt
  BY <1>1
<1>3. tk[t].answered \/ tk[t].cb # "standard"
  BY <1>2 DEF AnswerDrop, InitCallback
<1>4. \A z \in Threads \ {w} : Role(z, t) = "none"
  BY <1>1, <1>2, <1>3, AnswerFacts
<1>5. /\ UNCHANGED <<ms_head, aw_head, pool, inbox, panic>>
      /\ \A v \in Tickets \ {t} : tk'[v] = tk[v]
  BY <1>1, <1>2 DEF AnswerDrop, InitCallback, env, queues
<1>6. /\ thr'[w].tkt = t /\ thr'[w].saved = NoTicket /\ thr'[w].pc = "drop"
      /\ thr'[w].ret # "rejecting" /\ \A z \in Threads \ {w} : Woke(z)
  <2>1. CASE AnswerDrop(w)
    <3>1. thr' = [thr EXCEPT ![w] = [IdleThread EXCEPT !.pc = "drop", !.tkt = t]]
      BY <1>2, <2>1 DEF AnswerDrop
    <3>2. thr'[w] = [IdleThread EXCEPT !.pc = "drop", !.tkt = t] /\ \A z \in Threads \ {w} : Woke(z)
      BY <1>1, <3>1, OneStep
    <3> QED BY <3>2 DEF IdleThread
  <2>2. CASE InitCallback(w)
    <3>1. PICK l \in {"initfail", "setinit"} :
             thr' = [thr EXCEPT ![w] = [IdleThread EXCEPT !.pc = "drop", !.tkt = t, !.ret = l]]
      BY <1>2, <2>2 DEF InitCallback
    <3>2. thr'[w] = [IdleThread EXCEPT !.pc = "drop", !.tkt = t, !.ret = l] /\ \A z \in Threads \ {w} : Woke(z)
      BY <1>1, <3>1, OneStep
    <3> QED BY <3>2 DEF IdleThread
  <2> QED BY <2>1, <2>2
<1>7. WriterOk(thr[w])'
  BY <1>1, <1>6 DEF WriterOk
<1>8. \A z \in Threads \ {w} : KeptFor(z, t)
  BY <1>4 DEF KeptFor
<1>9. OwnOk({}, Roles(t)', tk'[t])
  <2>1. OwnOk(Places(t), Roles(t), tk[t])
    BY DEF AliveOk, Owned
  <2>2. Role(w, t)' = "alone"
    BY <1>6 DEF Role
  <2>3. Turns(Roles(t), Roles(t)', w, "answer", "alone")
    BY <1>1, <1>2, <1>6, <2>2, RolesTurn
  <2> QED BY <1>1, <1>3, <2>1, <2>3, AnswerAlone
<1> QED BY <1>0, <1>2, <1>5, <1>6, <1>7, <1>8, <1>9, WriterStepAlive

\* fuse_internal_forget_callback
LEMMA ForgetCallbackAlive ==
    ASSUME TypeInv, HandshakeInv, AliveOk, NEW w \in Writers, ForgetCallback(w)
    PROVE  AliveOk'
<1>0. thr[w].pc \in {"found", "answer"}
  BY DEF ForgetCallback, At
<1>1. /\ w \in Threads /\ tk \in [Tickets -> TicketState] /\ thr[w].saved = NoTicket
      /\ thr[w].tkt \in Tickets /\ Role(w, thr[w].tkt) = "answer"
  BY <1>0, WriterFacts
<1>2. PICK t \in Tickets : t = thr[w].tkt
  BY <1>1
<1>3. tk[t].cb # "standard"
  BY <1>2 DEF ForgetCallback
<1>4. /\ t \notin ToSet(pool.free) /\ t \notin ToSet(ms_head) /\ t \notin ToSet(aw_head)
      /\ ~Unused(t)
      /\ \A z \in Threads \ {w} : Role(z, t) = "none"
      /\ \A b \in inbox : b.unique # t
  BY <1>1, <1>2, <1>3, AnswerFacts
<1>5. /\ \A v \in Tickets \ {t} : tk'[v] = tk[v]
      /\ UNCHANGED <<ms_head, aw_head, inbox, panic>>
      /\ Lose(t) /\ thr' = [thr EXCEPT ![w] = IdleThread]
  BY <1>1, <1>2 DEF ForgetCallback, env, queues
<1> QED BY <1>1, <1>2, <1>4, <1>5, LoserAlive

\* fuse_standard_callback wakes the requester
LEMMA AnswerWakeAlive ==
    ASSUME TypeInv, HandshakeInv, AliveOk, NEW w \in Writers, AnswerWake(w)
    PROVE  AliveOk'
<1>0. thr[w].pc \in {"found", "answer"} /\ thr[w].pc = "answer"
  BY DEF AnswerWake, At
<1>1. /\ w \in Threads /\ thr \in [Threads -> ThreadState] /\ thr[w] \in ThreadState
      /\ tk \in [Tickets -> TicketState] /\ NoTicket \notin Tickets
      /\ WriterOk(thr[w]) /\ thr[w].saved = NoTicket
      /\ thr[w].tkt \in Tickets /\ Role(w, thr[w].tkt) = "answer"
  BY <1>0, WriterFacts
<1>2. PICK t \in Tickets : t = thr[w].tkt
  BY <1>1
<1>3. \A z \in Threads \ {w} : Role(z, t) \in {"none", "wait"}
  BY <1>1, <1>2, AnswerFacts
<1>4. /\ UNCHANGED <<ms_head, aw_head, pool, inbox, panic>>
      /\ \A v \in Tickets \ {t} : tk'[v] = tk[v]
      /\ tk'[t] = [tk[t] EXCEPT !.answered = TRUE, !.aw_errno = thr[w].perr]
      /\ ~tk[t].answered
  BY <1>1, <1>2 DEF AnswerWake, env, queues
<1>5. /\ tk'[t].orid = tk[t].orid /\ tk'[t].rid = tk[t].rid /\ tk'[t].cb = tk[t].cb
      /\ tk'[t].answered = TRUE /\ tk'[t].invalid = tk[t].invalid
  BY <1>1, <1>4 DEF TicketState
<1>6. thr'[w] = IdleThread /\ \A z \in Threads \ {w} : Woke(z)
  <2> DEFINE g == [thr EXCEPT ![w] = IdleThread]
  <2>1. thr' = [z \in Threads |-> IF g[z].pc = "asleep" /\ g[z].tkt = t
                                  THEN [g[z] EXCEPT !.pc = "woken"] ELSE g[z]]
    BY <1>2 DEF AnswerWake, WakeTicket
  <2>2. g[w] = IdleThread /\ \A z \in Threads \ {w} : g[z] = thr[z]
    BY <1>1
  <2> HIDE DEF g
  <2>3. thr'[w] = IdleThread
    BY <1>1, <2>1, <2>2 DEF IdleThread
  <2>4. \A z \in Threads \ {w} : Woke(z)
    BY <2>1, <2>2 DEF Woke
  <2> QED BY <2>3, <2>4
<1>7. thr'[w].tkt = NoTicket /\ thr'[w].saved = NoTicket /\ thr'[w].pc = "idle"
  BY <1>6 DEF IdleThread
<1>8. WriterOk(thr[w])'
  BY <1>7 DEF WriterOk
<1>9. \A z \in Threads \ {w} : KeptFor(z, t)
  BY <1>3, <1>5 DEF KeptFor
<1>10. OwnOk({}, Roles(t)', tk'[t])
  <2>1. OwnOk(Places(t), Roles(t), tk[t])
    BY DEF AliveOk, Owned
  <2>2. Role(w, t)' = "none"
    BY <1>1, <1>7 DEF Role
  <2>3. Turns(Roles(t), Roles(t)', w, "answer", "none")
    BY <1>1, <1>2, <1>6, <2>2, RolesTurn
  <2>4. tk[t].cb = "standard" /\ tk[t].orid = tk[t].rid
    BY <1>0, <1>1, <1>2 DEF WriterOk
  <2>5. tk'[t].answered /\ tk'[t].orid = tk'[t].rid
    BY <1>5, <2>4
  <2> QED BY <1>1, <1>4, <1>5, <2>1, <2>3, <2>4, <2>5, AnswerGiven
<1> QED BY <1>0, <1>2, <1>4, <1>6, <1>7, <1>8, <1>9, <1>10, WriterStepAlive

-----------------------------------------------------------------------------
(* What cannot happen while the session is alive *)

\* A ticket that a list or a thread refers to is not destroyed.
LEMMA NotGone ==
    ASSUME AliveOk, NEW t \in Tickets,
           \/ t \in ToSet(pool.free) \/ t \in ToSet(ms_head) \/ t \in ToSet(aw_head)
           \/ \E x \in Threads : Role(x, t) # "none"
    PROVE  t \notin pool.gone
<1>1. OwnOk(Places(t), Roles(t), tk[t]) /\ \A z \in Threads : Roles(t)[z] = Role(z, t)
  BY DEF AliveOk, Owned, Roles
<1>2. "unused" \notin Places(t)
  BY <1>1, PlacesIs DEF OwnOk
<1> QED BY <1>2, PlacesIs DEF Unused

\* No list has a destroyed ticket anywhere.
LEMMA ListLive ==
    ASSUME TypeInv, AliveOk, NEW q \in {ms_head, aw_head}, NEW i \in DOMAIN q
    PROVE  q[i] \notin pool.gone
<1>1. q \in Seq(Tickets)
  BY DEF TypeInv, TypeOK
<1>2. q[i] \in ToSet(q) /\ q[i] \in Tickets
  BY <1>1 DEF ToSet
<1> QED BY <1>2, NotGone

\* Nothing freed is touched.
LEMMA NothingFreed ==
    ASSUME TypeInv, HandshakeInv, AliveOk, NEW x \in Threads
    PROVE  ~TouchesFreed(x)
<1>1. thr[x].pc \in DerefLabels => Live(x)
  <2> SUFFICES ASSUME thr[x].pc \in DerefLabels PROVE thr[x].tkt \notin pool.gone
    BY DEF Live
  <2>1. thr[x].tkt \in Tickets
    BY ThreadFacts DEF HoldOk, KeepsTicket
  <2>2. Role(x, thr[x].tkt) # "none"
    BY DEF Role
  <2> QED BY <2>1, <2>2, NotGone
<1>2. TailLive(aw_head) /\ TailLive(ms_head)
  <2>1. aw_head \in Seq(Tickets) /\ ms_head \in Seq(Tickets)
    BY DEF TypeInv, TypeOK
  <2>2. aw_head # <<>> => Len(aw_head) \in DOMAIN aw_head
    BY <2>1
  <2>3. ms_head # <<>> => Len(ms_head) \in DOMAIN ms_head
    BY <2>1
  <2> QED BY <2>2, <2>3, ListLive DEF TailLive, Last
<1>3. \A u : WalkLive(u)
  BY ListLive DEF WalkLive, Walked
<1>4. ~At(x, "rejecting")
  <2>1. PlaceOk(x)
    BY PlacesAre
  <2> QED BY <2>1 DEF PlaceOk, RequesterOk, ReaderOk, WriterOk, AdminOk, At, Threads, Waits
<1> QED BY <1>1, <1>2, <1>3, <1>4 DEF TouchesFreed

\* Neither panic is reached.
LEMMA NoPanicStep ==
    ASSUME TypeInv, HandshakeInv, AliveOk, NEW r \in Requesters
    PROVE  ~FetchMismatch(r) /\ ~InsertMessageDirty(r)
<1>1. ~InsertMessageDirty(r)
  BY AliveRequester DEF InsertMessageDirty, At, RequesterOk
<1>2. ~FetchMismatch(r)
  <2> SUFFICES ASSUME pool.freeticket_counter # 0 PROVE ~CountMismatch
    BY DEF FetchMismatch
  <2>1. pool.free \in Seq(Tickets) /\ ~pool.loop /\ pool.freeticket_counter = Len(pool.free)
    BY DEF TypeInv, TypeOK, PoolState, AliveOk
  <2>2. pool.free # <<>> /\ Tail(pool.free) \in Seq(Tickets) /\ Len(Tail(pool.free)) = Len(pool.free) - 1
    BY <2>1
  <2>3. FreeTail = Tail(pool.free)
    BY <2>1 DEF FreeTail
  <2>4. ASSUME FreeTail = <<>> PROVE pool.freeticket_counter = 1
    <3>1. Len(FreeTail) = 0
      BY <2>4
    <3> QED BY <2>1, <2>2, <2>3, <3>1
  <2> QED BY <2>2, <2>4 DEF CountMismatch
<1> QED BY <1>1, <1>2

-----------------------------------------------------------------------------
(* The headers *)

\* A step marks a ticket invalid only with the header of a message that wants no
\* answer.
LEMMA HeaderStep ==
    ASSUME TypeInv, HandshakeInv, AliveOk, HeaderOk, Next
    PROVE  HeaderOk'
<1>0. tk \in [Tickets -> TicketState]
  BY DEF TypeInv, TypeOK
<1> DEFINE Kept(t) == \/ tk'[t] = tk[t] \/ tk'[t] = Refresh(tk[t])
                      \/ tk'[t].op = tk[t].op /\ tk'[t].invalid = tk[t].invalid
<1>1. ASSUME \A t \in Tickets : Kept(t) PROVE HeaderOk'
  <2>1. \A t \in Tickets : Refresh(tk[t]).invalid = FALSE
    BY DEF Refresh, NewTicket
  <2> QED BY <1>1, <2>1 DEF HeaderOk
<1>2. ASSUME NEW x, NEW u, tk' = [tk EXCEPT ![x] = u],
             x \in Tickets => u = Refresh(tk[x]) \/ (u.op = tk[x].op /\ u.invalid = tk[x].invalid)
      PROVE  HeaderOk'
  <2>1. \A t \in Tickets : t # x => tk'[t] = tk[t]
    BY <1>0, <1>2
  <2>2. x \in Tickets => tk'[x] = u
    BY <1>0, <1>2
  <2> QED BY <1>1, <1>2, <2>1, <2>2
<1>3. ASSUME NEW r \in Requesters, Make(r) \/ MakeDrop(r) \/ MakeLeak(r) PROVE HeaderOk'
  <2>1. /\ RequesterOk(thr[r]) /\ HoldOk(thr[r]) /\ thr[r].pc = "made"
    BY <1>3, AliveRequester DEF Make, MakeDrop, MakeLeak, At
  <2>2. PICK t \in Tickets : t = thr[r].tkt
    BY <2>1 DEF HoldOk, KeepsTicket, DerefLabels
  <2>3. tk[t] \in TicketState /\ Clean(tk[t])
    BY <1>0, <2>1, <2>2 DEF RequesterOk
  <2>4. tk[t].invalid = FALSE
    BY <2>3, CleanIs
  <2>5. PICK c \in BOOLEAN : /\ tk'[t] = Headed(tk[t], thr[r].op, thr[r].rid, c)
                             /\ \A v \in Tickets \ {t} : tk'[v] = tk[v]
    BY <1>0, <1>3, <2>2 DEF Make, MakeDrop, MakeLeak
  <2>6. tk'[t].op = thr[r].op /\ tk'[t].invalid = (thr[r].op \in OneWay)
    BY <2>3, <2>4, <2>5 DEF Headed, TicketState
  <2> QED BY <2>5, <2>6 DEF HeaderOk
<1>4. ASSUME UNCHANGED tk PROVE HeaderOk'
  BY <1>4 DEF HeaderOk
<1>5. ASSUME NEW x \in Threads, DropRefresh(x) PROVE HeaderOk'
  BY <1>2, <1>5 DEF DropRefresh
<1>6. ASSUME NEW r \in Requesters, Remake(r) PROVE HeaderOk'
  BY <1>2, <1>6 DEF Remake
<1>7. ASSUME NEW r \in Requesters,
             \/ InsertMessageDead(r) \/ InsertMessageTest(r) \/ WaitDead(r) \/ TimedOut(r)
             \/ WaitedDetach(r)
      PROVE  HeaderOk'
  <2> DEFINE t == thr[r].tkt
  <2>1. CASE InsertMessageDead(r) \/ InsertMessageTest(r)
    <3>1. tk' = [tk EXCEPT ![t] = [tk[t] EXCEPT !.dirty = TRUE]]
      BY <1>0, <2>1 DEF InsertMessageDead, InsertMessageTest
    <3>2. t \in Tickets => [tk[t] EXCEPT !.dirty = TRUE].op = tk[t].op
                           /\ [tk[t] EXCEPT !.dirty = TRUE].invalid = tk[t].invalid
      BY <1>0 DEF TicketState
    <3> QED BY <1>2, <3>1, <3>2
  <2>2. CASE WaitDead(r) \/ TimedOut(r) \/ WaitedDetach(r)
    <3>1. tk' = [tk EXCEPT ![t] = [tk[t] EXCEPT !.answered = TRUE]]
      BY <1>0, <2>2 DEF WaitDead, TimedOut, WaitedDetach
    <3>2. t \in Tickets => [tk[t] EXCEPT !.answered = TRUE].op = tk[t].op
                           /\ [tk[t] EXCEPT !.answered = TRUE].invalid = tk[t].invalid
      BY <1>0 DEF TicketState
    <3> QED BY <1>2, <3>1, <3>2
  <2> QED BY <1>7, <2>1, <2>2
<1>8. ASSUME NEW w \in Writers, Pull(w) \/ InitCallback(w) PROVE HeaderOk'
  <2> DEFINE t == thr[w].tkt
  <2>1. tk' = [tk EXCEPT ![t] = Pulled(tk[t], thr[w])]
    BY <1>0, <1>8 DEF Pull, InitCallback
  <2>2. t \in Tickets => tk[t] \in TicketState
    BY <1>0
  <2>3. t \in Tickets => Pulled(tk[t], thr[w]).op = tk[t].op /\ Pulled(tk[t], thr[w]).invalid = tk[t].invalid
    BY <2>2, PulledIs
  <2> QED BY <1>2, <2>1, <2>3
<1>9. ASSUME NEW t, NEW e, tk' = [tk EXCEPT ![t].answered = TRUE, ![t].aw_errno = e] PROVE HeaderOk'
  <2>1. tk' = [tk EXCEPT ![t] = [tk[t] EXCEPT !.answered = TRUE, !.aw_errno = e]]
    BY <1>0, <1>9
  <2>2. t \in Tickets => [tk[t] EXCEPT !.answered = TRUE, !.aw_errno = e].op = tk[t].op
                         /\ [tk[t] EXCEPT !.answered = TRUE, !.aw_errno = e].invalid = tk[t].invalid
    BY <1>0 DEF TicketState
  <2> QED BY <1>2, <2>1, <2>2
<1>17. ASSUME NEW w \in Writers, ForgetCallback(w) PROVE HeaderOk'
  <2>1. PICK t, a, e : tk' = [tk EXCEPT ![t].orid = a, ![t].oerror = e]
    BY <1>17 DEF ForgetCallback
  <2>2. tk' = [tk EXCEPT ![t] = [tk[t] EXCEPT !.orid = a, !.oerror = e]]
    BY <1>0, <2>1
  <2>3. t \in Tickets => [tk[t] EXCEPT !.orid = a, !.oerror = e].op = tk[t].op
                         /\ [tk[t] EXCEPT !.orid = a, !.oerror = e].invalid = tk[t].invalid
    BY <1>0 DEF TicketState
  <2> QED BY <1>2, <2>2, <2>3
<1>10. ASSUME NEW r \in Requesters, RequesterStep(r) PROVE HeaderOk'
  BY <1>3, <1>4, <1>7, <1>10
  DEF RequesterStep, FetchNone, Alloc, PushAll, FetchFree, FetchMismatch, InsertCallback,
      InsertMessageDirty, InsertMessage, WaitAnswered, WaitSleep, Woken, WaitedDrop, WaitedOk, UseDone
<1>11. ASSUME NEW r \in Requesters, RequesterEvent(r) PROVE HeaderOk'
  BY <1>3, <1>4, <1>6, <1>11
  DEF RequesterEvent, SendInit, NewRequest, SendForget, SendRelease, Started, IniSignal, MakeFail,
      Timeout, Interrupted, UseLeak
<1>12. ASSUME NEW d \in Readers, ReaderStep(d) \/ ReaderEvent(d) PROVE HeaderOk'
  BY <1>4, <1>12
  DEF ReaderStep, ReaderEvent, ReadPop, ReadSleep, ReadDead, ReadNothing, ReadDeliver, ReadSignal,
      ReadShort
<1>13. ASSUME NEW w \in Writers, WriterStep(w) PROVE HeaderOk'
  BY <1>4, <1>8, <1>9, <1>13, <1>17
  DEF WriterStep, WriteUnknown, WriteFound, AnswerDrop, AnswerWake, InitFail, SetInited
<1>14. ASSUME NEW a \in Admins, AdminStep(a) PROVE HeaderOk'
  BY <1>4, <1>9, <1>14 DEF AdminStep, RejectBegin, RejectOne, RejectEnd
<1>15. CASE DeviceKill \/ DeviceClose
  BY <1>4, <1>15 DEF DeviceKill, DeviceClose
<1>16. ASSUME NEW x \in Threads, SharedStep(x) PROVE HeaderOk'
  BY <1>4, <1>5, <1>16 DEF SharedStep, KillData, KillWake, DropDestroy, DropPush, UseAfterFree
<1> QED BY <1>10, <1>11, <1>12, <1>13, <1>14, <1>15, <1>16 DEF Next

-----------------------------------------------------------------------------
(* The invariant of the live session *)

\* A new session is in order.
LEMMA InitAlive == Init => AliveInv
<1> SUFFICES ASSUME Init PROVE AliveOk /\ HeaderOk
  BY DEF AliveInv
<1>1. /\ \A x \in Threads : thr[x] = IdleThread
      /\ \A t \in Tickets : tk[t] = NewTicket
      /\ pool.free = <<>> /\ pool.gone = {} /\ pool.lost = {} /\ pool.ticketer = 0 /\ pool.loop = FALSE
      /\ pool.freeticket_counter = 0
      /\ ms_head = <<>> /\ aw_head = <<>> /\ inbox = {} /\ panic = "none"
  BY DEF Init
<1>2. ToSet(<<>>) = {} /\ NoTicket \notin Tickets /\ NoRepeat(<<>>)
  BY InitialRecords DEF ToSet, NoRepeat
<1>3. HeaderOk /\ \A t \in Tickets : Clean(tk[t])
  BY <1>1 DEF HeaderOk, NewTicket, Clean, Refresh
<1>4. ASSUME NEW t \in Tickets PROVE Owned(t)
  <2>1. \A z \in Threads : Roles(t)[z] = "none"
    BY <1>1, <1>2 DEF Roles, Role, IdleThread
  <2>2. /\ "free" \notin Places(t) /\ "ms" \notin Places(t) /\ "aw" \notin Places(t)
        /\ "unused" \in Places(t)
    BY <1>1, <1>2, PlacesIs DEF Unused, Tickets
  <2> QED BY <2>1, <2>2 DEF Owned, OwnOk
<1>5. \A x \in Threads : PlaceOk(x)
  BY <1>1 DEF PlaceOk, RequesterOk, ReaderOk, WriterOk, AdminOk, IdleThread, Waits
<1>6. ListsOk
  BY <1>1, <1>2 DEF ListsOk
<1> QED BY <1>1, <1>3, <1>4, <1>5, <1>6, PlacesAre

\* A dead session stays dead.
LEMMA DeadStays == Next /\ ~dead' => ~dead
<1> SUFFICES ASSUME Next, ~dead' PROVE ~dead
  OBVIOUS
<1>1. ASSUME NEW r \in Requesters, RequesterStep(r) PROVE ~dead
  BY <1>1
  DEF RequesterStep, FetchNone, Alloc, PushAll, FetchFree, FetchMismatch, Make, InsertCallback,
      InsertMessageDead, InsertMessageTest, InsertMessageDirty, InsertMessage, WaitAnswered,
      WaitDead, WaitSleep, Woken, TimedOut, WaitedDrop, WaitedDetach, WaitedOk, UseDone, sess
<1>2. ASSUME NEW r \in Requesters, RequesterEvent(r) PROVE ~dead
  BY <1>2
  DEF RequesterEvent, SendInit, NewRequest, SendForget, SendRelease, Started, IniSignal, MakeFail,
      MakeDrop, MakeLeak, Timeout, Interrupted, UseLeak, Remake, sess
<1>3. ASSUME NEW d \in Readers, ReaderStep(d) \/ ReaderEvent(d) PROVE ~dead
  BY <1>3
  DEF ReaderStep, ReaderEvent, ReadPop, ReadSleep, ReadDead, ReadNothing, ReadDeliver, ReadSignal,
      ReadShort, sess
<1>4. ASSUME NEW w \in Writers, WriterStep(w) PROVE ~dead
  BY <1>4
  DEF WriterStep, WriteUnknown, WriteFound, Pull, AnswerDrop, AnswerWake, ForgetCallback,
      InitCallback, InitFail, SetInited, sess
<1>5. ASSUME NEW a \in Admins, AdminStep(a) PROVE ~dead
  BY <1>5 DEF AdminStep, RejectBegin, RejectOne, RejectEnd, sess
<1>6. CASE DeviceKill \/ DeviceClose
  BY <1>6 DEF DeviceKill, DeviceClose, sess
<1>7. ASSUME NEW x \in Threads, SharedStep(x) PROVE ~dead
  BY <1>7 DEF SharedStep, KillData, KillWake, DropDestroy, DropRefresh, DropPush, UseAfterFree, sess
<1> QED BY <1>1, <1>2, <1>3, <1>4, <1>5, <1>6, <1>7 DEF Next

\* Every step of a session that is alive keeps its tickets in order, up to the step
\* that kills it.
LEMMA NextAlive ==
    TypeInv /\ HandshakeInv /\ AccountOk /\ AliveInv /\ [Next]_vars => AliveInv'
<1> SUFFICES ASSUME TypeInv, HandshakeInv, AccountOk, AliveInv, [Next]_vars, ~dead'
             PROVE  AliveOk' /\ HeaderOk'
  BY DEF AliveInv
<1>1. CASE UNCHANGED vars
  <2>1. UNCHANGED <<dead, ms_head, aw_head, pool, tk, thr, inbox, panic>>
    BY <1>1 DEF vars, sess, queues, env
  <2>2. AliveOk /\ HeaderOk
    BY <2>1 DEF AliveInv
  <2>3. HeaderOk'
    BY <2>1, <2>2 DEF HeaderOk
  <2>4. PICK x : x \in Admins /\ x \in Threads
    BY DEF Admins, Threads
  <2>5. \A z \in Threads : Woke(z)
    BY <2>1 DEF Woke
  <2>6. PlaceOk(x)'
    <3>1. PlaceOk(x)
      BY <2>2, <2>4, PlacesAre
    <3> QED BY <2>1, <3>1 DEF PlaceOk, RequesterOk, ReaderOk, WriterOk, AdminOk
  <2>7. \A v \in Tickets : Role(x, v)' = Role(x, v)
    BY <2>1 DEF Role
  <2>8. AliveOk'
    BY <2>1, <2>2, <2>4, <2>5, <2>6, <2>7, AliveQuiet DEF queues
  <2> QED BY <2>3, <2>8
<1>2. CASE Next
  <2>1. ~dead
    BY <1>2, DeadStays
  <2>2. AliveOk /\ HeaderOk
    BY <2>1 DEF AliveInv
  <2>3. ASSUME NEW r \in Requesters, RequesterStep(r) PROVE AliveOk'
    <3>1. ~FetchMismatch(r) /\ ~InsertMessageDirty(r)
      BY <2>2, NoPanicStep
    <3>2. ~InsertMessageDead(r) /\ ~WaitDead(r)
      BY <2>1 DEF InsertMessageDead, WaitDead
    <3>3. ~TimedOut(r)
      BY <2>2, AliveRequester DEF TimedOut, At, RequesterOk, Waits
    <3> QED BY <2>1, <2>2, <2>3, <3>1, <3>2, <3>3, RequesterQuiet, AllocAlive, PushAllAlive,
               FetchFreeAlive, MakeAlive, InsertCallbackAlive, InsertMessageTestAlive,
               InsertMessageAlive, AnsweredAlive, WaitedDetachAlive
            DEF RequesterStep
  <2>4. ASSUME NEW r \in Requesters, RequesterEvent(r) PROVE AliveOk'
    <3>1. SendInit(r) \/ NewRequest(r) \/ SendForget(r) \/ SendRelease(r) =>
             \E o \in {"INIT", "REQ", "FORGET", "RELEASE"} : Started(r, o)
      BY DEF SendInit, NewRequest, SendForget, SendRelease
    <3> QED BY <2>2, <2>4, <3>1, RequesterQuiet, MakeFailAlive, MakeDropAlive, MakeLeakAlive,
               InterruptedAlive, UseLeakAlive, AnsweredAlive
            DEF RequesterEvent
  <2>5. ASSUME NEW d \in Readers, ReaderStep(d) \/ ReaderEvent(d) PROVE AliveOk'
    <3>1. ~ReadDead(d) /\ ~ReadShort(d)
      BY <2>1 DEF ReadDead, ReadShort
    <3> QED BY <2>2, <2>5, <3>1, OtherQuiet, ReadPopAlive, ReadReturnAlive
            DEF ReaderStep, ReaderEvent
  <2>6. ASSUME NEW w \in Writers, WriterStep(w) PROVE AliveOk'
    <3>1. \A m \in inbox : ~WriteUnknown(w, m)
      BY <2>2, NeverUnknown DEF WriteUnknown
    <3> QED BY <2>2, <2>6, <3>1, OtherQuiet, WriteFoundAlive, PullAlive, AnswerDropAlive,
               AnswerWakeAlive, ForgetCallbackAlive
            DEF WriterStep
  <2>7. ASSUME NEW a \in Admins PROVE ~AdminStep(a)
    <3>1. AdminOk(thr[a])
      BY <2>2 DEF AliveOk
    <3> QED BY <3>1 DEF AdminOk, AdminStep, RejectBegin, RejectOne, RejectEnd, At
  <2>8. ASSUME DeviceKill \/ DeviceClose PROVE AliveOk'
    <3>1. Killer \in Admins /\ Closer \in Admins
      BY DEF Admins
    <3>2. Killer \in Readers \cup Writers \cup Admins /\ Closer \in Readers \cup Writers \cup Admins
      BY <3>1
    <3>3. CASE DeviceKill
      BY <2>2, <3>2, <3>3, OtherQuiet
    <3>4. CASE DeviceClose
      BY <2>2, <3>2, <3>4, OtherQuiet
    <3> QED BY <2>8, <3>3, <3>4
  <2>9. ASSUME NEW x \in Threads, SharedStep(x) PROVE AliveOk'
    <3>1. ~KillData(x)
      BY DEF KillData
    <3>2. ~KillWake(x)
      BY <2>1 DEF KillWake, At, HandshakeInv, ThreadsOk, Ok, ThreadOk
    <3>3. ~UseAfterFree(x)
      BY <2>2, NothingFreed DEF UseAfterFree
    <3> QED BY <2>2, <2>9, <3>1, <3>2, <3>3, DropDestroyAlive, DropRefreshAlive, DropPushAlive
            DEF SharedStep
  <2>10. AliveOk'
    BY <1>2, <2>3, <2>4, <2>5, <2>6, <2>7, <2>8, <2>9 DEF Next
  <2> QED BY <1>2, <2>2, <2>10, HeaderStep
<1> QED BY <1>1, <1>2

-----------------------------------------------------------------------------
(* The account of tickets, dead or alive *)

\* Thread z is as it was, or refers to tickets that were known before.
Settled(z) ==
    \/ thr'[z] = thr[z]
    \/ /\ thr[z].pc # "pushall" /\ thr'[z].pc # "pushall" /\ thr'[z].ret # "pushall"
       /\ thr'[z].tkt \in Known \cup {NoTicket} /\ thr'[z].saved \in Known \cup {NoTicket}

ListsKnown ==
    /\ ToSet(ms_head)' \cup ToSet(aw_head)' \cup ToSet(pool.free)' \cup pool'.lost \subseteq Known
    /\ \A b \in inbox' : b.unique \in Known

\* A step that allocates and destroys nothing.
NoneMade ==
    /\ \A z \in Threads : Settled(z)
    /\ ListsKnown
    /\ pool'.all = pool.all /\ pool'.gone = pool.gone /\ pool'.ticketer = pool.ticketer
    /\ pool'.deadticket_counter = pool.deadticket_counter

\* What is known of one thread.
LEMMA AccountThread ==
    ASSUME TypeInv, AccountOk, NEW x \in Threads
    PROVE  /\ thr \in [Threads -> ThreadState] /\ thr[x] \in ThreadState
           /\ thr[x].ret # "pushall" /\ thr[x].saved \in Known \cup {NoTicket}
           /\ thr[x].pc # "pushall" => thr[x].tkt \in Known \cup {NoTicket}
<1>1. thr \in [Threads -> ThreadState] /\ thr[x] \in ThreadState
  BY DEF TypeInv, TypeOK
<1> QED BY <1>1 DEF AccountOk

\* One thread is rewritten.
LEMMA OneSettles ==
    ASSUME thr \in [Threads -> ThreadState], NEW x \in Threads, NEW u,
           thr' = [thr EXCEPT ![x] = u], thr[x].pc # "pushall", u.pc # "pushall", u.ret # "pushall",
           u.tkt \in Known \cup {NoTicket}, u.saved \in Known \cup {NoTicket}
    PROVE  \A z \in Threads : Settled(z)
BY DEF Settled

\* The lists are as they were.
LEMMA SameLists ==
    ASSUME AccountOk, UNCHANGED <<ms_head, aw_head, inbox, pool.free, pool.lost>>
    PROVE  ListsKnown
BY DEF AccountOk, ListsKnown

\* Steps of one thread that leave the lists alone.
LEMMA PlainMade ==
    ASSUME TypeInv, AccountOk, NEW x \in Threads,
           \/ x \in Requesters /\ (\/ \E o \in {"INIT", "REQ", "FORGET", "RELEASE"} : Started(x, o)
                                   \/ FetchNone(x) \/ IniSignal(x) \/ Make(x) \/ InsertMessageTest(x)
                                   \/ WaitAnswered(x) \/ WaitDead(x) \/ WaitSleep(x)
                                   \/ Woken(x) \/ Timeout(x) \/ TimedOut(x) \/ WaitedDrop(x)
                                   \/ WaitedOk(x) \/ UseDone(x) \/ Remake(x) \/ MakeDrop(x))
           \/ x \in Readers /\ (ReadSleep(x) \/ ReadDead(x) \/ ReadSignal(x))
           \/ x \in Writers /\ (Pull(x) \/ InitFail(x))
           \/ x = Killer /\ DeviceKill
           \/ x = Closer /\ DeviceClose
           \/ x \in Admins /\ RejectBegin(x)
           \/ DropRefresh(x)
    PROVE  NoneMade
<1>1. /\ thr \in [Threads -> ThreadState] /\ thr[x] \in ThreadState
      /\ thr[x].ret # "pushall" /\ thr[x].saved \in Known \cup {NoTicket}
      /\ thr[x].pc # "pushall" => thr[x].tkt \in Known \cup {NoTicket}
  BY AccountThread
<1>2. UNCHANGED <<ms_head, aw_head, inbox, pool>>
  BY DEF Started, FetchNone, IniSignal, Make, InsertMessageTest, WaitAnswered, WaitDead, WaitSleep,
         Woken, Timeout, TimedOut, WaitedDrop, WaitedOk, UseDone, Remake, MakeDrop, ReadSleep, ReadDead,
         ReadSignal, Pull, InitFail, DeviceKill, DeviceClose, RejectBegin, DropRefresh, env, queues
<1>3. ListsKnown
  BY <1>2, SameLists
<1>4. ASSUME NEW u, thr' = [thr EXCEPT ![x] = u], thr[x].pc # "pushall", u.pc # "pushall",
             u.ret # "pushall", u.tkt = thr[x].tkt, u.saved = thr[x].saved
      PROVE  NoneMade
  BY <1>1, <1>2, <1>3, <1>4, OneSettles DEF NoneMade
<1>5. ASSUME NEW l, l # "pushall", thr' = [thr EXCEPT ![x].pc = l], thr[x].pc # "pushall" PROVE NoneMade
  <2>1. PICK u : u = [thr[x] EXCEPT !.pc = l]
    OBVIOUS
  <2>2. thr' = [thr EXCEPT ![x] = u]
    BY <1>1, <1>5, <2>1
  <2>3. u.pc # "pushall" /\ u.ret # "pushall" /\ u.tkt = thr[x].tkt /\ u.saved = thr[x].saved
    BY <1>1, <1>5, <2>1 DEF ThreadState
  <2>4. thr[x].pc # "pushall"
    BY <1>5
  <2> QED BY <1>4, <2>2, <2>3, <2>4
<1>6. ASSUME NEW l, l # "pushall", NEW k, k # "pushall", thr' = [thr EXCEPT ![x].pc = l, ![x].ret = k],
             thr[x].pc # "pushall"
      PROVE  NoneMade
  <2>1. PICK u : u = [thr[x] EXCEPT !.pc = l, !.ret = k]
    OBVIOUS
  <2>2. thr' = [thr EXCEPT ![x] = u]
    BY <1>1, <1>6, <2>1
  <2>3. u.pc # "pushall" /\ u.ret # "pushall" /\ u.tkt = thr[x].tkt /\ u.saved = thr[x].saved
    BY <1>1, <1>6, <2>1 DEF ThreadState
  <2>4. thr[x].pc # "pushall"
    BY <1>6
  <2> QED BY <1>4, <2>2, <2>3, <2>4
<1>7. ASSUME NEW l, l # "pushall", NEW e, thr' = [thr EXCEPT ![x].pc = l, ![x].err = e],
             thr[x].pc # "pushall"
      PROVE  NoneMade
  <2>1. PICK u : u = [thr[x] EXCEPT !.pc = l, !.err = e]
    OBVIOUS
  <2>2. thr' = [thr EXCEPT ![x] = u]
    BY <1>1, <1>7, <2>1
  <2>3. u.pc # "pushall" /\ u.ret # "pushall" /\ u.tkt = thr[x].tkt /\ u.saved = thr[x].saved
    BY <1>1, <1>7, <2>1 DEF ThreadState
  <2>4. thr[x].pc # "pushall"
    BY <1>7
  <2> QED BY <1>4, <2>2, <2>3, <2>4
<1>8. ASSUME NEW o \in {"INIT", "REQ", "FORGET", "RELEASE"}, Started(x, o) PROVE NoneMade
  <2>1. PICK u : u = [thr[x] EXCEPT !.pc = "fetch", !.op = o, !.rid = nreq + 1]
    OBVIOUS
  <2>2. thr' = [thr EXCEPT ![x] = u]
    BY <1>1, <1>8, <2>1 DEF Started
  <2>3. u.pc # "pushall" /\ u.ret # "pushall" /\ u.tkt = thr[x].tkt /\ u.saved = thr[x].saved
    BY <1>1, <1>8, <2>1 DEF ThreadState
  <2>4. thr[x].pc # "pushall"
    BY <1>8 DEF Started, At
  <2> QED BY <1>4, <2>2, <2>3, <2>4
<1>9. CASE FetchNone(x) \/ IniSignal(x) \/ WaitAnswered(x) \/ WaitSleep(x) \/ WaitedOk(x)
           \/ ReadSignal(x) \/ ReadDead(x) \/ RejectBegin(x) \/ DropRefresh(x) \/ InsertMessageTest(x)
  BY <1>5, <1>9 DEF FetchNone, IniSignal, WaitAnswered, WaitSleep, WaitedOk, ReadSignal, ReadDead,
                    RejectBegin, DropRefresh, InsertMessageTest, At
<1>10. CASE ReadSleep(x)
  BY <1>5, <1>10 DEF ReadSleep, Reading, At
<1>11. CASE Make(x)
  <2>1. PICK l \in {"cbins", "message"} : thr' = [thr EXCEPT ![x].pc = l]
    BY <1>11 DEF Make
  <2> QED BY <1>5, <1>11, <2>1 DEF Make, At
<1>12. CASE Timeout(x) \/ UseDone(x) \/ InitFail(x) \/ MakeDrop(x)
  BY <1>6, <1>12 DEF Timeout, UseDone, InitFail, MakeDrop, At
<1>13. CASE x = Killer /\ DeviceKill
  BY <1>6, <1>13 DEF DeviceKill, At
<1>14. CASE x = Closer /\ DeviceClose
  BY <1>6, <1>14 DEF DeviceClose, At
<1>15. CASE Woken(x) \/ WaitDead(x) \/ TimedOut(x)
  BY <1>7, <1>15 DEF Woken, WaitDead, TimedOut, At
<1>16. CASE WaitedDrop(x)
  <2>1. PICK u : u = [thr[x] EXCEPT !.pc = "drop", !.ret = "idle", !.err = "none"]
    OBVIOUS
  <2>2. thr' = [thr EXCEPT ![x] = u]
    BY <1>1, <1>16, <2>1 DEF WaitedDrop
  <2>3. u.pc # "pushall" /\ u.ret # "pushall" /\ u.tkt = thr[x].tkt /\ u.saved = thr[x].saved
    BY <1>1, <1>16, <2>1 DEF ThreadState
  <2>4. thr[x].pc # "pushall"
    BY <1>16 DEF WaitedDrop, At
  <2> QED BY <1>4, <2>2, <2>3, <2>4
<1>17. CASE Remake(x)
  <2>1. PICK u : u = [thr[x] EXCEPT !.pc = "made", !.rid = nreq + 1]
    OBVIOUS
  <2>2. thr' = [thr EXCEPT ![x] = u]
    BY <1>1, <1>17, <2>1 DEF Remake
  <2>3. u.pc # "pushall" /\ u.ret # "pushall" /\ u.tkt = thr[x].tkt /\ u.saved = thr[x].saved
    BY <1>1, <1>17, <2>1 DEF ThreadState
  <2>4. thr[x].pc # "pushall"
    BY <1>17 DEF Remake, At
  <2> QED BY <1>4, <2>2, <2>3, <2>4
<1>18. CASE Pull(x)
  <2>1. PICK u : u = [thr[x] EXCEPT !.pc = "answer", !.perr = PullError(x)]
    OBVIOUS
  <2>2. thr' = [thr EXCEPT ![x] = u]
    BY <1>1, <1>18, <2>1 DEF Pull
  <2>3. u.pc # "pushall" /\ u.ret # "pushall" /\ u.tkt = thr[x].tkt /\ u.saved = thr[x].saved
    BY <1>1, <1>18, <2>1 DEF ThreadState
  <2>4. thr[x].pc # "pushall"
    BY <1>18 DEF Pull, At
  <2> QED BY <1>4, <2>2, <2>3, <2>4
<1> QED BY <1>8, <1>9, <1>10, <1>11, <1>12, <1>13, <1>14, <1>15, <1>16, <1>17, <1>18

\* The threads in S, none of them at "pushall", go on at l.
Wakes(f, S, l) ==
    /\ \A z \in S : f[z].pc # "pushall"
    /\ \A z \in Threads : thr'[z] = IF z \in S THEN [f[z] EXCEPT !.pc = l] ELSE f[z]

\* Steps that wake others.
LEMMA WakeMade ==
    ASSUME TypeInv, AccountOk, NEW x \in Threads,
           \/ KillData(x) \/ KillWake(x)
           \/ x \in Writers /\ (AnswerWake(x) \/ SetInited(x))
           \/ x \in Admins /\ RejectOne(x)
    PROVE  NoneMade
<1>1. \A z \in Threads :
        /\ thr \in [Threads -> ThreadState] /\ thr[z] \in ThreadState
        /\ thr[z].ret # "pushall" /\ thr[z].saved \in Known \cup {NoTicket}
        /\ thr[z].pc # "pushall" => thr[z].tkt \in Known \cup {NoTicket}
  BY AccountThread
<1>2. UNCHANGED <<ms_head, aw_head, inbox, pool>>
  BY DEF KillData, KillWake, AnswerWake, SetInited, RejectOne, env, queues
<1>3. ListsKnown
  BY <1>2, SameLists
<1>4. thr[x].pc # "pushall"
  BY DEF KillData, KillWake, AnswerWake, SetInited, RejectOne, At
<1>5. ASSUME NEW u \in ThreadState, u.pc # "pushall", u.ret # "pushall",
             u.tkt \in Known \cup {NoTicket}, u.saved \in Known \cup {NoTicket},
             NEW f, f = [thr EXCEPT ![x] = u], NEW S \in SUBSET Threads, NEW l, l # "pushall",
             Wakes(f, S, l)
      PROVE  NoneMade
  <2>1. f[x] = u /\ \A z \in Threads \ {x} : f[z] = thr[z]
    BY <1>1, <1>5
  <2>2. \A z \in Threads : f[z] \in ThreadState
    BY <1>1, <1>5, <2>1
  <2>4. ASSUME NEW z \in S
        PROVE  /\ thr'[z].pc = l /\ thr'[z].ret = f[z].ret /\ thr'[z].tkt = f[z].tkt
               /\ thr'[z].saved = f[z].saved
    <3>1. z \in Threads /\ f[z] \in ThreadState /\ thr'[z] = [f[z] EXCEPT !.pc = l]
      BY <1>5, <2>2, <2>4 DEF Wakes
    <3> QED BY <3>1 DEF ThreadState
  <2>5. ASSUME NEW z \in Threads PROVE Settled(z)
    <3>1. z \notin S => thr'[z] = f[z]
      BY <1>5 DEF Wakes
    <3>2. z \in S => f[z].pc # "pushall"
      BY <1>5 DEF Wakes
    <3>3. CASE z = x
      <4>1. thr'[x].pc # "pushall" /\ thr'[x].ret = u.ret /\ thr'[x].tkt = u.tkt /\ thr'[x].saved = u.saved
        BY <1>5, <2>1, <2>4, <3>1, <3>3
      <4> QED BY <1>4, <1>5, <3>3, <4>1 DEF Settled
    <3>4. CASE z # x
      BY <1>1, <1>5, <2>1, <2>4, <3>1, <3>2, <3>4 DEF Settled
    <3> QED BY <3>3, <3>4
  <2> QED BY <1>2, <1>3, <2>5 DEF NoneMade
<1>6. ASSUME NEW l \in Labels, NEW u, u = [thr[x] EXCEPT !.pc = l]
      PROVE  u \in ThreadState /\ u.pc = l /\ u.ret = thr[x].ret /\ u.tkt = thr[x].tkt /\ u.saved = thr[x].saved
  BY <1>1, <1>6 DEF ThreadState
<1>7. CASE KillData(x)
  <2>1. CASE dead
    <3>1. PICK u : u = [thr[x] EXCEPT !.pc = thr[x].ret]
      OBVIOUS
    <3>2. thr' = [thr EXCEPT ![x] = u]
      BY <1>1, <1>7, <2>1, <3>1 DEF KillData
    <3>3. thr[x].ret \in Labels
      BY <1>1 DEF ThreadState
    <3>4. u.pc # "pushall" /\ u.ret # "pushall" /\ u.tkt = thr[x].tkt /\ u.saved = thr[x].saved
      BY <1>1, <1>6, <3>1, <3>3
    <3>5. \A z \in Threads : Settled(z)
      BY <1>1, <1>4, <3>2, <3>4, OneSettles
    <3> QED BY <1>2, <1>3, <3>5 DEF NoneMade
  <2>2. CASE ~dead
    <3>1. PICK u : u = [thr[x] EXCEPT !.pc = "killw"]
      OBVIOUS
    <3>2. PICK f : f = [thr EXCEPT ![x] = u]
      OBVIOUS
    <3>3. u \in ThreadState /\ u.pc = "killw" /\ u.ret = thr[x].ret
          /\ u.tkt = thr[x].tkt /\ u.saved = thr[x].saved
      BY <1>6, <3>1, LabelFacts
    <3>4. WakeOneReader(f)
      BY <1>1, <1>7, <2>2, <3>1, <3>2 DEF KillData
    <3>5. ASSUME thr' = f PROVE NoneMade
      <4>1. \A z \in Threads : Settled(z)
        BY <1>1, <1>4, <3>2, <3>3, <3>5, OneSettles
      <4> QED BY <1>2, <1>3, <4>1 DEF NoneMade
    <3>6. ASSUME NEW d \in Readers, thr[d].pc = "rsleep", thr' = [f EXCEPT ![d].pc = "read"]
          PROVE  NoneMade
      <4>1. d \in Threads
        BY DEF Threads
      <4>2. f \in [Threads -> ThreadState] /\ f[d].pc # "pushall"
        BY <1>1, <3>2, <3>3, <3>6, <4>1
      <4>3. PICK S \in SUBSET Threads : S = {d}
        BY <4>1
      <4>4. \A z \in Threads : thr'[z] = IF z \in S THEN [f[z] EXCEPT !.pc = "read"] ELSE f[z]
        BY <3>6, <4>1, <4>2, <4>3
      <4>5. \A z \in S : f[z].pc # "pushall"
        BY <4>2, <4>3
      <4>6. u.tkt \in Known \cup {NoTicket} /\ u.saved \in Known \cup {NoTicket} /\ u.ret # "pushall"
        BY <1>1, <1>4, <3>3
      <4>7. Wakes(f, S, "read")
        BY <4>4, <4>5 DEF Wakes
      <4> QED BY <1>5, <3>2, <3>3, <4>6, <4>7
    <3> QED BY <3>4, <3>5, <3>6 DEF WakeOneReader, At
  <2> QED BY <2>1, <2>2
<1>8. CASE KillWake(x)
  <2>1. PICK u : u = [thr[x] EXCEPT !.pc = thr[x].ret]
    OBVIOUS
  <2>2. PICK f : f = [thr EXCEPT ![x] = u]
    OBVIOUS
  <2>3. PICK S \in SUBSET Threads : S = {z \in Threads : f[z].pc = "ini"}
    OBVIOUS
  <2>4. u \in ThreadState /\ u.pc = thr[x].ret /\ u.ret = thr[x].ret /\ u.tkt = thr[x].tkt /\ u.saved = thr[x].saved
    <3>1. thr[x].ret \in Labels
      BY <1>1 DEF ThreadState
    <3> QED BY <1>6, <2>1, <3>1
  <2>5. thr' = WakeIni(f)
    BY <1>1, <1>8, <2>1, <2>2 DEF KillWake
  <2>6. \A z \in Threads : thr'[z] = IF z \in S THEN [f[z] EXCEPT !.pc = "made"] ELSE f[z]
    BY <2>3, <2>5 DEF WakeIni
  <2>7. u.tkt \in Known \cup {NoTicket} /\ u.saved \in Known \cup {NoTicket} /\ u.pc # "pushall" /\ u.ret # "pushall"
    BY <1>1, <1>4, <2>4
  <2>8. \A z \in S : f[z].pc # "pushall"
    BY <2>3
  <2>9. Wakes(f, S, "made")
    BY <2>6, <2>8 DEF Wakes
  <2> QED BY <1>5, <2>2, <2>4, <2>7, <2>9
<1>9. IdleThread \in ThreadState /\ IdleThread.pc = "idle" /\ IdleThread.ret = "idle"
      /\ IdleThread.tkt = NoTicket /\ IdleThread.saved = NoTicket
  BY InitialRecords DEF IdleThread
<1>10. CASE SetInited(x)
  <2>1. PICK f : f = [thr EXCEPT ![x] = IdleThread]
    OBVIOUS
  <2>2. PICK S \in SUBSET Threads : S = {z \in Threads : f[z].pc = "ini"}
    OBVIOUS
  <2>3. thr' = WakeIni(f)
    BY <1>10, <2>1 DEF SetInited
  <2>4. \A z \in Threads : thr'[z] = IF z \in S THEN [f[z] EXCEPT !.pc = "made"] ELSE f[z]
    BY <2>2, <2>3 DEF WakeIni
  <2>5. \A z \in S : f[z].pc # "pushall"
    BY <2>2
  <2>6. Wakes(f, S, "made")
    BY <2>4, <2>5 DEF Wakes
  <2> QED BY <1>5, <1>9, <2>1, <2>6
<1>11. CASE AnswerWake(x)
  <2>1. PICK f : f = [thr EXCEPT ![x] = IdleThread]
    OBVIOUS
  <2>2. PICK S \in SUBSET Threads : S = {z \in Threads : f[z].pc = "asleep" /\ f[z].tkt = thr[x].tkt}
    OBVIOUS
  <2>3. thr' = WakeTicket(f, thr[x].tkt)
    BY <1>11, <2>1 DEF AnswerWake
  <2>4. \A z \in Threads : thr'[z] = IF z \in S THEN [f[z] EXCEPT !.pc = "woken"] ELSE f[z]
    BY <2>2, <2>3 DEF WakeTicket
  <2>5. \A z \in S : f[z].pc # "pushall"
    BY <2>2
  <2>6. Wakes(f, S, "woken")
    BY <2>4, <2>5 DEF Wakes
  <2> QED BY <1>5, <1>9, <2>1, <2>6
<1>12. CASE RejectOne(x)
  <2>1. PICK u : u = [thr[x] EXCEPT !.pos = thr[x].pos + 1]
    OBVIOUS
  <2>2. PICK f : f = [thr EXCEPT ![x] = u]
    OBVIOUS
  <2>3. PICK S \in SUBSET Threads :
           S = {z \in Threads : f[z].pc = "asleep" /\ f[z].tkt = aw_head[thr[x].pos + 1]}
    OBVIOUS
  <2>4. u \in ThreadState /\ u.pc = thr[x].pc /\ u.ret = thr[x].ret /\ u.tkt = thr[x].tkt /\ u.saved = thr[x].saved
    BY <1>1, <2>1 DEF ThreadState
  <2>5. thr' = WakeTicket(f, aw_head[thr[x].pos + 1])
    BY <1>1, <1>12, <2>1, <2>2 DEF RejectOne
  <2>6. \A z \in Threads : thr'[z] = IF z \in S THEN [f[z] EXCEPT !.pc = "woken"] ELSE f[z]
    BY <2>3, <2>5 DEF WakeTicket
  <2>7. u.tkt \in Known \cup {NoTicket} /\ u.saved \in Known \cup {NoTicket} /\ u.pc # "pushall" /\ u.ret # "pushall"
    BY <1>1, <1>4, <2>4
  <2>8. \A z \in S : f[z].pc # "pushall"
    BY <2>3
  <2>9. Wakes(f, S, "woken")
    BY <2>6, <2>8 DEF Wakes
  <2> QED BY <1>5, <2>2, <2>4, <2>7, <2>9
<1> QED BY <1>7, <1>8, <1>10, <1>11, <1>12

\* What a list holds after a step is known if it was in a list or is known.
LEMMA KnownLists ==
    ASSUME TypeInv, AccountOk
    PROVE  /\ ms_head # <<>> => Head(ms_head) \in Known /\ ToSet(Tail(ms_head)) \subseteq Known
           /\ pool.free # <<>> => /\ Head(pool.free) \in Known /\ ToSet(FreeTail) \subseteq Known
           /\ \A i \in DOMAIN aw_head : ToSet(RemoveAt(aw_head, i)) \subseteq Known
           /\ \A t \in Known : /\ ToSet(Append(ms_head, t)) \subseteq Known
                               /\ ToSet(Append(aw_head, t)) \subseteq Known
                               /\ ToSet(FreeInsert(pool.free, t)) \subseteq Known
           /\ Known \subseteq Tickets /\ NoTicket \notin Known
<1>1. /\ ms_head \in Seq(Tickets) /\ aw_head \in Seq(Tickets) /\ pool.free \in Seq(Tickets)
      /\ pool.all \subseteq Tickets /\ pool.gone \subseteq Tickets
  BY DEF TypeInv, TypeOK, PoolState
<1>2. Known \subseteq Tickets /\ NoTicket \notin Known
  BY <1>1, InitialRecords DEF Known
<1>3. ToSet(ms_head) \subseteq Known /\ ToSet(aw_head) \subseteq Known /\ ToSet(pool.free) \subseteq Known
  BY DEF AccountOk
<1>4. PICK z : z \in Tickets
  BY InitialRecords
<1>5. ms_head # <<>> => Head(ms_head) \in Known /\ ToSet(Tail(ms_head)) \subseteq Known
  BY <1>1, <1>3, <1>4, ListFacts
<1>6. pool.free # <<>> => Head(pool.free) \in Known /\ ToSet(FreeTail) \subseteq Known
  BY <1>1, <1>3, <1>4, ListFacts DEF FreeTail
<1>7. \A i \in DOMAIN aw_head : ToSet(RemoveAt(aw_head, i)) \subseteq Known
  BY <1>1, <1>3, <1>4, ListFacts
<1>8. ASSUME NEW t \in Known
      PROVE  /\ ToSet(Append(ms_head, t)) \subseteq Known /\ ToSet(Append(aw_head, t)) \subseteq Known
             /\ ToSet(FreeInsert(pool.free, t)) \subseteq Known
  <2>1. t \in Tickets
    BY <1>2
  <2>2. ToSet(Append(ms_head, t)) \subseteq ToSet(ms_head) \cup {t}
    BY <1>1, <2>1, ListFacts
  <2>3. ToSet(Append(aw_head, t)) \subseteq ToSet(aw_head) \cup {t}
    BY <1>1, <2>1, ListFacts
  <2>4. ToSet(FreeInsert(pool.free, t)) \subseteq ToSet(pool.free) \cup {t}
    BY <1>1, <2>1, ListFacts
  <2> QED BY <1>3, <2>2, <2>3, <2>4
<1> QED BY <1>2, <1>5, <1>6, <1>7, <1>8

\* A thread that uses a ticket uses a known one.
LEMMA InHandKnown ==
    ASSUME TypeInv, AccountOk, NEW x \in Threads, thr[x].pc \in DerefLabels
    PROVE  thr[x].tkt \in Known /\ thr[x].pc # "pushall"
<1>1. thr[x].pc # "pushall"
  BY DEF DerefLabels
<1>2. thr[x].tkt \in Tickets
  BY DEF TypeInv, Holding, HoldOk, KeepsTicket
<1> QED BY <1>1, <1>2, AccountThread, InitialRecords

\* One thread is rewritten and the lists stay known.
LEMMA MoveMade ==
    ASSUME TypeInv, AccountOk, NEW x \in Threads, NEW u,
           thr' = [thr EXCEPT ![x] = u], thr[x].pc # "pushall", u.pc # "pushall", u.ret # "pushall",
           u.tkt \in Known \cup {NoTicket}, u.saved \in Known \cup {NoTicket}, ListsKnown,
           pool'.all = pool.all, pool'.gone = pool.gone, pool'.ticketer = pool.ticketer,
           pool'.deadticket_counter = pool.deadticket_counter
    PROVE  NoneMade
<1>1. thr \in [Threads -> ThreadState]
  BY AccountThread
<1>2. \A z \in Threads : Settled(z)
  BY <1>1, OneSettles
<1> QED BY <1>2 DEF NoneMade


\* Requesters fetch, queue and leave tickets that are known.
LEMMA RequesterMade ==
    ASSUME TypeInv, AccountOk, NEW r \in Requesters,
           FetchFree(r) \/ InsertCallback(r) \/ InsertMessageDead(r) \/ InsertMessage(r)
           \/ Interrupted(r) \/ WaitedDetach(r)
    PROVE  NoneMade
<1>0. r \in Threads
  BY DEF Threads
<1>1. /\ thr \in [Threads -> ThreadState] /\ thr[r] \in ThreadState
      /\ thr[r].ret # "pushall" /\ thr[r].saved \in Known \cup {NoTicket}
      /\ thr[r].pc # "pushall" => thr[r].tkt \in Known \cup {NoTicket}
  BY <1>0, AccountThread
<1>2. thr[r].pc # "pushall"
  BY DEF FetchFree, InsertCallback, InsertMessageDead, InsertMessage, Interrupted, WaitedDetach, At
<1>3. pool \in PoolState
  BY DEF TypeInv, TypeOK
<1>4. /\ ToSet(ms_head) \subseteq Known /\ ToSet(aw_head) \subseteq Known
      /\ ToSet(pool.free) \subseteq Known /\ pool.lost \subseteq Known
      /\ \A b \in inbox : b.unique \in Known
  BY DEF AccountOk
<1>5. CASE FetchFree(r)
  <2>1. PICK f, l : f = FreeTail /\ l = FetchTail
    OBVIOUS
  <2>2. pool.free # <<>>
    BY <1>5 DEF FetchFree, CountMismatch
  <2>3. PICK t : t = Head(pool.free)
    OBVIOUS
  <2>4. t \in Known /\ ToSet(f) \subseteq Known
    BY <2>1, <2>2, <2>3, KnownLists
  <2>5. pool' = [pool EXCEPT !.free = f, !.freeticket_counter = @ - 1]
    BY <1>5, <2>1 DEF FetchFree
  <2>6. /\ pool'.free = f /\ pool'.all = pool.all /\ pool'.gone = pool.gone /\ pool'.lost = pool.lost
        /\ pool'.ticketer = pool.ticketer /\ pool'.deadticket_counter = pool.deadticket_counter
    BY <1>3, <2>5 DEF PoolState
  <2>7. UNCHANGED <<ms_head, aw_head, inbox>>
    BY <1>5 DEF FetchFree, queues, env
  <2>8. ListsKnown
    BY <1>4, <2>4, <2>6, <2>7 DEF ListsKnown
  <2>9. PICK u : u = [thr[r] EXCEPT !.pc = l, !.ret = "made", !.tkt = t]
    OBVIOUS
  <2>10. thr' = [thr EXCEPT ![r] = u]
    BY <1>0, <1>1, <1>5, <2>1, <2>3, <2>9 DEF FetchFree
  <2>11. l # "pushall"
    BY <2>1 DEF FetchTail
  <2>12. u.pc # "pushall" /\ u.ret # "pushall" /\ u.tkt = t /\ u.saved = thr[r].saved
    BY <1>1, <2>9, <2>11 DEF ThreadState
  <2> QED BY <1>0, <1>1, <1>2, <2>4, <2>6, <2>8, <2>10, <2>12, MoveMade
<1>6. CASE InsertCallback(r)
  <2>1. thr[r].tkt \in Known
    BY <1>0, <1>6, InHandKnown DEF InsertCallback, At, DerefLabels
  <2>2. ToSet(aw_head)' \subseteq Known
    BY <1>6, <2>1, KnownLists DEF InsertCallback
  <2>3. UNCHANGED <<ms_head, inbox, pool>>
    BY <1>6 DEF InsertCallback, env
  <2>4. ListsKnown
    BY <1>4, <2>2, <2>3 DEF ListsKnown
  <2>5. PICK u : u = [thr[r] EXCEPT !.pc = "message"]
    OBVIOUS
  <2>6. thr' = [thr EXCEPT ![r] = u]
    BY <1>0, <1>1, <1>6, <2>5 DEF InsertCallback
  <2>7. u.pc # "pushall" /\ u.ret # "pushall" /\ u.tkt = thr[r].tkt /\ u.saved = thr[r].saved
    BY <1>1, <2>5 DEF ThreadState
  <2> QED BY <1>0, <1>1, <1>2, <2>1, <2>3, <2>4, <2>6, <2>7, MoveMade
<1>7. CASE WaitedDetach(r)
  <2>1. UNCHANGED <<ms_head, aw_head, inbox, pool>> /\ thr' = [thr EXCEPT ![r] = IdleThread]
    BY <1>7 DEF WaitedDetach, queues, env
  <2>2. ListsKnown
    BY <2>1, SameLists
  <2>3. IdleThread.pc = "idle" /\ IdleThread.ret = "idle" /\ IdleThread.tkt = NoTicket /\ IdleThread.saved = NoTicket
    BY DEF IdleThread
  <2> QED BY <1>0, <1>2, <2>1, <2>2, <2>3, MoveMade
<1>8. CASE Interrupted(r)
  <2>1. UNCHANGED <<ms_head, aw_head, inbox, pool>>
    BY <1>8 DEF Interrupted, queues, env
  <2>2. ListsKnown
    BY <2>1, SameLists
  <2>3. PICK u : u = [thr[r] EXCEPT !.pc = "fetch", !.saved = thr[r].tkt, !.tkt = NoTicket,
                                    !.op = "INTERRUPT", !.err = "EINTR"]
    OBVIOUS
  <2>4. thr' = [thr EXCEPT ![r] = u]
    BY <1>0, <1>1, <1>8, <2>3 DEF Interrupted
  <2>5. u.pc # "pushall" /\ u.ret # "pushall" /\ u.tkt = NoTicket /\ u.saved = thr[r].tkt
    BY <1>1, <2>3 DEF ThreadState
  <2> QED BY <1>0, <1>1, <1>2, <2>1, <2>2, <2>4, <2>5, MoveMade
<1>9. PICK u : u = CASE thr[r].op = "REQ" -> [thr[r] EXCEPT !.pc = "wait"]
                     [] thr[r].op = "INTERRUPT" -> [thr[r] EXCEPT !.pc = "waited", !.op = "REQ",
                                                   !.tkt = thr[r].saved, !.saved = NoTicket]
                     [] OTHER -> IdleThread
  OBVIOUS
<1>10. PICK f : f = [thr EXCEPT ![r] = u]
  OBVIOUS
<1>11. Sent(r) = f
  BY <1>9, <1>10 DEF Sent
<1>12. /\ u.pc # "pushall" /\ u.ret # "pushall"
       /\ u.tkt \in Known \cup {NoTicket} /\ u.saved \in Known \cup {NoTicket}
  <2>1. CASE thr[r].op = "REQ"
    BY <1>1, <1>2, <1>9, <2>1 DEF ThreadState
  <2>2. CASE thr[r].op = "INTERRUPT"
    BY <1>1, <1>2, <1>9, <2>2 DEF ThreadState
  <2>3. CASE thr[r].op \notin {"REQ", "INTERRUPT"}
    BY <1>9, <2>3 DEF IdleThread
  <2> QED BY <2>1, <2>2, <2>3
<1>13. u \in ThreadState
  <2>0. NoTicket \in Tickets \cup {NoTicket} /\ "REQ" \in Ops
    BY DEF Ops
  <2>1. CASE thr[r].op = "REQ"
    BY <1>1, <1>9, <2>1, LabelFacts DEF ThreadState
  <2>2. CASE thr[r].op = "INTERRUPT"
    BY <1>1, <1>9, <2>0, <2>2, LabelFacts DEF ThreadState
  <2>3. CASE thr[r].op \notin {"REQ", "INTERRUPT"}
    BY <1>9, <2>3, InitialRecords
  <2> QED BY <2>1, <2>2, <2>3
<1>14. CASE InsertMessageDead(r)
  <2>1. UNCHANGED <<ms_head, aw_head, inbox, pool>> /\ thr' = [thr EXCEPT ![r] = u]
    BY <1>10, <1>11, <1>14 DEF InsertMessageDead, queues
  <2>2. ListsKnown
    BY <2>1, SameLists
  <2> QED BY <1>0, <1>2, <1>12, <2>1, <2>2, MoveMade
<1>15. CASE InsertMessage(r)
  <2>1. thr[r].tkt \in Known
    BY <1>0, <1>15, InHandKnown DEF InsertMessage, At, DerefLabels
  <2>2. ToSet(ms_head)' \subseteq Known
    BY <1>15, <2>1, KnownLists DEF InsertMessage
  <2>3. UNCHANGED <<aw_head, inbox, pool>>
    BY <1>15 DEF InsertMessage
  <2>4. ListsKnown
    BY <1>4, <2>2, <2>3 DEF ListsKnown
  <2>5. WakeOneReader(f)
    BY <1>11, <1>15 DEF InsertMessage
  <2>6. ASSUME thr' = f PROVE NoneMade
    BY <1>0, <1>2, <1>10, <1>12, <2>3, <2>4, <2>6, MoveMade
  <2>7. ASSUME NEW d \in Readers, thr[d].pc = "rsleep", thr' = [f EXCEPT ![d].pc = "read"]
        PROVE  NoneMade
    <3>1. d \in Threads /\ d # r
      BY ThreadsAssumption DEF Threads
    <3>2. /\ thr[d] \in ThreadState /\ thr[d].ret # "pushall" /\ thr[d].saved \in Known \cup {NoTicket}
          /\ thr[d].pc # "pushall" => thr[d].tkt \in Known \cup {NoTicket}
      BY <3>1, AccountThread
    <3>3. f \in [Threads -> ThreadState] /\ f[d] = thr[d]
      BY <1>0, <1>1, <1>10, <1>13, <3>1
    <3>4. PICK v : v = [thr[d] EXCEPT !.pc = "read"]
      OBVIOUS
    <3>5. v.pc = "read" /\ v.ret = thr[d].ret /\ v.tkt = thr[d].tkt /\ v.saved = thr[d].saved
      BY <3>2, <3>4 DEF ThreadState
    <3>6. thr'[d] = v /\ thr'[r] = u /\ \A z \in Threads \ {d, r} : thr'[z] = thr[z]
      BY <1>0, <1>1, <1>10, <2>7, <3>1, <3>3, <3>4
    <3>7. Settled(d)
      BY <2>7, <3>2, <3>5, <3>6 DEF Settled
    <3>8. Settled(r)
      BY <1>2, <1>12, <3>6 DEF Settled
    <3>9. \A z \in Threads \ {d, r} : Settled(z)
      BY <3>6 DEF Settled
    <3> QED BY <2>3, <2>4, <3>7, <3>8, <3>9 DEF NoneMade
  <2> QED BY <2>5, <2>6, <2>7 DEF WakeOneReader, At
<1> QED BY <1>5, <1>6, <1>7, <1>8, <1>14, <1>15

\* So do the daemon's threads, and the end of a rejection.
LEMMA DaemonMade ==
    ASSUME TypeInv, AccountOk, NEW x \in Threads,
           \/ ReadPop(x) \/ ReadNothing(x) \/ ReadDeliver(x) \/ ReadShort(x)
           \/ AnswerDrop(x) \/ InitCallback(x) \/ RejectEnd(x) \/ DropPush(x)
    PROVE  NoneMade
<1>1. /\ thr \in [Threads -> ThreadState] /\ thr[x] \in ThreadState
      /\ thr[x].ret # "pushall" /\ thr[x].saved \in Known \cup {NoTicket}
      /\ thr[x].pc # "pushall" => thr[x].tkt \in Known \cup {NoTicket}
  BY AccountThread
<1>2. thr[x].pc # "pushall"
  BY DEF ReadPop, Reading, ReadNothing, ReadDeliver, ReadShort, AnswerDrop, InitCallback, RejectEnd,
         DropPush, At
<1>3. pool \in PoolState
  BY DEF TypeInv, TypeOK
<1>4. /\ ToSet(ms_head) \subseteq Known /\ ToSet(aw_head) \subseteq Known
      /\ ToSet(pool.free) \subseteq Known /\ pool.lost \subseteq Known
      /\ \A b \in inbox : b.unique \in Known
  BY DEF AccountOk
<1>5. CASE ReadPop(x)
  <2>1. PICK t : t = Head(ms_head)
    OBVIOUS
  <2>2. t \in Known /\ ToSet(ms_head)' \subseteq Known
    BY <1>5, <2>1, KnownLists DEF ReadPop
  <2>3. UNCHANGED <<aw_head, inbox, pool>>
    BY <1>5 DEF ReadPop, env
  <2>4. ListsKnown
    BY <1>4, <2>2, <2>3 DEF ListsKnown
  <2>5. PICK u : u = [thr[x] EXCEPT !.pc = "got", !.tkt = t]
    OBVIOUS
  <2>6. thr' = [thr EXCEPT ![x] = u]
    BY <1>1, <1>5, <2>1, <2>5 DEF ReadPop
  <2>7. u.pc # "pushall" /\ u.ret # "pushall" /\ u.tkt = t /\ u.saved = thr[x].saved
    BY <1>1, <2>5 DEF ThreadState
  <2> QED BY <1>1, <1>2, <2>2, <2>3, <2>4, <2>6, <2>7, MoveMade
<1>6. ASSUME ReadReturn(x), ListsKnown, UNCHANGED pool PROVE NoneMade
  <2>1. PICK u : u = IF tk[thr[x].tkt].invalid
                     THEN [thr[x] EXCEPT !.pc = "drop", !.ret = "idle"] ELSE IdleThread
    OBVIOUS
  <2>2. thr' = [thr EXCEPT ![x] = u]
    BY <1>1, <1>6, <2>1 DEF ReadReturn
  <2>3. /\ u.pc # "pushall" /\ u.ret # "pushall"
        /\ u.tkt \in Known \cup {NoTicket} /\ u.saved \in Known \cup {NoTicket}
    <3>1. CASE tk[thr[x].tkt].invalid
      BY <1>1, <1>2, <2>1, <3>1 DEF ThreadState
    <3>2. CASE ~tk[thr[x].tkt].invalid
      BY <2>1, <3>2 DEF IdleThread
    <3> QED BY <3>1, <3>2
  <2> QED BY <1>2, <1>6, <2>2, <2>3, MoveMade
<1>7. CASE ReadNothing(x) \/ ReadShort(x)
  <2>1. ReadReturn(x) /\ UNCHANGED <<ms_head, aw_head, inbox, pool>>
    BY <1>7 DEF ReadNothing, ReadShort, queues, env
  <2>2. ListsKnown
    BY <2>1, SameLists
  <2> QED BY <1>6, <2>1, <2>2
<1>8. CASE ReadDeliver(x)
  <2>1. thr[x].tkt \in Known
    BY <1>8, InHandKnown DEF ReadDeliver, At, DerefLabels
  <2>2. UNCHANGED <<ms_head, aw_head, pool>> /\ ReadReturn(x)
    BY <1>8 DEF ReadDeliver, queues
  <2>3. \A b \in inbox' : b.unique \in Known
    BY <1>4, <1>8, <2>1 DEF ReadDeliver
  <2>4. ListsKnown
    BY <1>4, <2>2, <2>3 DEF ListsKnown
  <2> QED BY <1>6, <2>2, <2>4
<1>9. CASE AnswerDrop(x)
  <2>1. thr[x].tkt \in Known
    BY <1>9, InHandKnown DEF AnswerDrop, At, DerefLabels
  <2>2. /\ UNCHANGED <<ms_head, aw_head, inbox, pool>>
        /\ thr' = [thr EXCEPT ![x] = [IdleThread EXCEPT !.pc = "drop", !.tkt = thr[x].tkt]]
    BY <1>9 DEF AnswerDrop, queues, env
  <2>3. ListsKnown
    BY <2>2, SameLists
  <2>4. PICK u : u = [IdleThread EXCEPT !.pc = "drop", !.tkt = thr[x].tkt]
    OBVIOUS
  <2>5. u.pc = "drop" /\ u.ret = "idle" /\ u.tkt = thr[x].tkt /\ u.saved = NoTicket
    BY <2>4 DEF IdleThread
  <2> QED BY <1>2, <2>1, <2>2, <2>3, <2>4, <2>5, MoveMade
<1>10. CASE InitCallback(x)
  <2>1. thr[x].tkt \in Known
    BY <1>10, InHandKnown DEF InitCallback, At, DerefLabels
  <2>2. PICK l \in {"initfail", "setinit"} :
           thr' = [thr EXCEPT ![x] = [IdleThread EXCEPT !.pc = "drop", !.tkt = thr[x].tkt, !.ret = l]]
    BY <1>10 DEF InitCallback
  <2>3. UNCHANGED <<ms_head, aw_head, inbox, pool>>
    BY <1>10 DEF InitCallback, queues
  <2>4. ListsKnown
    BY <2>3, SameLists
  <2>5. PICK u : u = [IdleThread EXCEPT !.pc = "drop", !.tkt = thr[x].tkt, !.ret = l]
    OBVIOUS
  <2>6. u.pc = "drop" /\ u.ret = l /\ u.tkt = thr[x].tkt /\ u.saved = NoTicket
    BY <2>5 DEF IdleThread
  <2> QED BY <1>2, <2>1, <2>2, <2>3, <2>4, <2>5, <2>6, MoveMade
<1>11. CASE RejectEnd(x)
  <2>1. aw_head' = <<>> /\ UNCHANGED <<ms_head, inbox, pool>> /\ thr' = [thr EXCEPT ![x] = IdleThread]
    BY <1>11 DEF RejectEnd, env
  <2>2. ToSet(aw_head)' = {}
    BY <2>1 DEF ToSet
  <2>3. ListsKnown
    BY <1>4, <2>1, <2>2 DEF ListsKnown
  <2>4. IdleThread.pc = "idle" /\ IdleThread.ret = "idle" /\ IdleThread.tkt = NoTicket /\ IdleThread.saved = NoTicket
    BY DEF IdleThread
  <2> QED BY <1>2, <2>1, <2>3, <2>4, MoveMade
<1>12. CASE DropPush(x)
  <2>1. thr[x].tkt \in Known
    BY <1>12, InHandKnown DEF DropPush, At, DerefLabels
  <2>2. PICK f, b : /\ f = FreeInsert(pool.free, thr[x].tkt)
                    /\ b = (pool.free # <<>> /\ Last(pool.free) = thr[x].tkt)
    OBVIOUS
  <2>3. ToSet(f) \subseteq Known
    BY <2>1, <2>2, KnownLists
  <2>4. pool' = [pool EXCEPT !.free = f, !.loop = b, !.freeticket_counter = @ + 1]
    BY <1>12, <2>2 DEF DropPush
  <2>5. /\ pool'.free = f /\ pool'.all = pool.all /\ pool'.gone = pool.gone /\ pool'.lost = pool.lost
        /\ pool'.ticketer = pool.ticketer /\ pool'.deadticket_counter = pool.deadticket_counter
    BY <1>3, <2>4 DEF PoolState
  <2>6. /\ UNCHANGED <<ms_head, aw_head, inbox>>
        /\ thr' = [thr EXCEPT ![x] = [IdleThread EXCEPT !.pc = thr[x].ret]]
    BY <1>12 DEF DropPush, queues, env
  <2>7. ListsKnown
    BY <1>4, <2>3, <2>5, <2>6 DEF ListsKnown
  <2>8. PICK u : u = [IdleThread EXCEPT !.pc = thr[x].ret]
    OBVIOUS
  <2>9. u.pc = thr[x].ret /\ u.ret = "idle" /\ u.tkt = NoTicket /\ u.saved = NoTicket
    BY <2>8 DEF IdleThread
  <2> QED BY <1>1, <1>2, <2>5, <2>6, <2>7, <2>8, <2>9, MoveMade
<1> QED BY <1>5, <1>7, <1>8, <1>9, <1>10, <1>11, <1>12

\* What a thread loses is known.
LEMMA LoserMade ==
    ASSUME TypeInv, AccountOk, NEW x \in Threads, MakeLeak(x) \/ UseLeak(x) \/ ForgetCallback(x)
    PROVE  NoneMade
<1>1. thr[x].tkt \in Known /\ thr[x].pc # "pushall"
  BY InHandKnown DEF MakeLeak, UseLeak, ForgetCallback, At, DerefLabels
<1>2. pool \in PoolState
  BY DEF TypeInv, TypeOK
<1>3. /\ thr' = [thr EXCEPT ![x] = IdleThread] /\ Lose(thr[x].tkt)
      /\ UNCHANGED <<ms_head, aw_head, inbox>>
  BY DEF MakeLeak, UseLeak, ForgetCallback, queues, env
<1>4. /\ pool'.free = pool.free /\ pool'.lost = pool.lost \cup {thr[x].tkt}
      /\ pool'.all = pool.all /\ pool'.gone = pool.gone /\ pool'.ticketer = pool.ticketer
      /\ pool'.deadticket_counter = pool.deadticket_counter
  BY <1>2, <1>3 DEF Lose, PoolState
<1>5. ListsKnown
  BY <1>1, <1>3, <1>4 DEF ListsKnown, AccountOk
<1>6. IdleThread.pc = "idle" /\ IdleThread.ret = "idle" /\ IdleThread.tkt = NoTicket /\ IdleThread.saved = NoTicket
  BY DEF IdleThread
<1> QED BY <1>1, <1>3, <1>4, <1>5, <1>6, MoveMade

\* A writer takes the ticket its answer names.
LEMMA WriteMade ==
    ASSUME TypeInv, AccountOk, NEW w \in Writers, NEW m \in inbox,
           WriteUnknown(w, m) \/ \E k \in Replies : WriteFound(w, m, k)
    PROVE  NoneMade
<1>0. w \in Threads
  BY DEF Threads
<1>1. /\ thr \in [Threads -> ThreadState] /\ thr[w] \in ThreadState
      /\ thr[w].ret # "pushall" /\ thr[w].saved \in Known \cup {NoTicket}
  BY <1>0, AccountThread
<1>2. /\ ToSet(ms_head) \subseteq Known /\ ToSet(aw_head) \subseteq Known
      /\ ToSet(pool.free) \subseteq Known /\ pool.lost \subseteq Known
      /\ \A b \in inbox : b.unique \in Known
  BY DEF AccountOk
<1>3. CASE WriteUnknown(w, m)
  <2>1. UNCHANGED <<ms_head, aw_head, pool, thr>> /\ inbox' \subseteq inbox
    BY <1>3 DEF WriteUnknown, queues
  <2>2. ListsKnown
    BY <1>2, <2>1 DEF ListsKnown
  <2>3. \A z \in Threads : Settled(z)
    BY <2>1 DEF Settled
  <2> QED BY <2>1, <2>2, <2>3 DEF NoneMade
<1>4. ASSUME NEW k \in Replies, WriteFound(w, m, k) PROVE NoneMade
  <2>1. UNCHANGED <<ms_head, pool>> /\ inbox' \subseteq inbox /\ thr[w].pc # "pushall"
    BY <1>4 DEF WriteFound, At
  <2>2. PICK i \in DOMAIN aw_head : aw_head' = RemoveAt(aw_head, i)
    BY <1>4 DEF WriteFound, Matches
  <2>3. ToSet(aw_head)' \subseteq Known
    BY <2>2, KnownLists
  <2>4. ListsKnown
    BY <1>2, <2>1, <2>3 DEF ListsKnown
  <2>5. PICK u : u = [thr[w] EXCEPT !.pc = "found", !.tkt = m.unique, !.arid = m.rid, !.kind = k]
    OBVIOUS
  <2>6. thr' = [thr EXCEPT ![w] = u]
    BY <1>0, <1>1, <1>4, <2>5 DEF WriteFound
  <2>7. u.pc # "pushall" /\ u.ret # "pushall" /\ u.tkt = m.unique /\ u.saved = thr[w].saved
    BY <1>1, <2>5 DEF ThreadState
  <2> QED BY <1>0, <1>1, <1>2, <2>1, <2>4, <2>6, <2>7, MoveMade
<1> QED BY <1>3, <1>4

-----------------------------------------------------------------------------
(* The steps that allocate and destroy *)

Lists == <<ms_head, aw_head, inbox, pool.free, pool.lost>>

\* fuse_ticket_alloc: thread x has a ticket nobody has heard of.
OneMade(x) ==
    /\ thr[x].pc = "alloc" /\ thr'[x].pc = "pushall" /\ thr'[x].tkt = pool.ticketer
    /\ thr'[x].ret = thr[x].ret /\ thr'[x].saved = thr[x].saved
    /\ \A z \in Threads \ {x} : thr'[z] = thr[z]
    /\ pool'.ticketer = pool.ticketer + 1
    /\ pool'.all = pool.all /\ pool'.gone = pool.gone
    /\ pool'.deadticket_counter = pool.deadticket_counter
    /\ UNCHANGED Lists

\* fuse_push_allticks: thread x makes its ticket known.
OnePut(x) ==
    /\ thr[x].pc = "pushall" /\ thr'[x].pc # "pushall" /\ thr'[x].tkt = thr[x].tkt
    /\ thr'[x].ret # "pushall" /\ thr'[x].saved = thr[x].saved
    /\ \A z \in Threads \ {x} : thr'[z] = thr[z]
    /\ pool'.all = pool.all \cup {thr[x].tkt}
    /\ pool'.ticketer = pool.ticketer /\ pool'.gone = pool.gone
    /\ pool'.deadticket_counter = pool.deadticket_counter
    /\ UNCHANGED Lists

\* fuse_ticket_destroy: a ticket that is known goes.
OneGone ==
    /\ \A z \in Threads : Settled(z)
    /\ \E t \in pool.all : pool'.all = pool.all \ {t} /\ pool'.gone = pool.gone \cup {t}
    /\ pool'.ticketer = pool.ticketer
    /\ pool'.deadticket_counter = pool.deadticket_counter + 1
    /\ UNCHANGED Lists

\* fuse_ticket_alloc makes a ticket.
LEMMA MadeIs ==
    ASSUME TypeInv, NEW r \in Requesters, Alloc(r)
    PROVE  OneMade(r)
<1>1. r \in Threads /\ thr \in [Threads -> ThreadState] /\ thr[r] \in ThreadState /\ pool \in PoolState
  BY DEF TypeInv, TypeOK, Threads
<1>2. PICK u : u = [thr[r] EXCEPT !.pc = "pushall", !.tkt = pool.ticketer]
  OBVIOUS
<1>3. thr' = [thr EXCEPT ![r] = u] /\ thr[r].pc = "alloc"
  BY <1>1, <1>2 DEF Alloc, At
<1>4. u.pc = "pushall" /\ u.tkt = pool.ticketer /\ u.ret = thr[r].ret /\ u.saved = thr[r].saved
  BY <1>1, <1>2 DEF ThreadState
<1>5. thr'[r] = u /\ \A z \in Threads \ {r} : thr'[z] = thr[z]
  BY <1>1, <1>3
<1>6. /\ pool'.ticketer = pool.ticketer + 1 /\ pool'.all = pool.all /\ pool'.gone = pool.gone
      /\ pool'.deadticket_counter = pool.deadticket_counter /\ pool'.free = pool.free
      /\ pool'.lost = pool.lost
  BY <1>1 DEF Alloc, PoolState
<1>7. UNCHANGED Lists
  BY <1>6 DEF Alloc, Lists, queues, env
<1> QED BY <1>3, <1>4, <1>5, <1>6, <1>7 DEF OneMade

\* fuse_push_allticks ends the fetch of a new ticket.
LEMMA PutIs ==
    ASSUME TypeInv, NEW r \in Requesters, PushAll(r)
    PROVE  OnePut(r)
<1>1. r \in Threads /\ thr \in [Threads -> ThreadState] /\ thr[r] \in ThreadState /\ pool \in PoolState
  BY DEF TypeInv, TypeOK, Threads
<1>2. PICK l : l = FetchTail
  OBVIOUS
<1>3. PICK u : u = [thr[r] EXCEPT !.pc = l, !.ret = "made"]
  OBVIOUS
<1>4. thr' = [thr EXCEPT ![r] = u] /\ thr[r].pc = "pushall"
  BY <1>1, <1>2, <1>3 DEF PushAll, At
<1>5. l # "pushall"
  BY <1>2 DEF FetchTail
<1>6. u.pc = l /\ u.tkt = thr[r].tkt /\ u.ret = "made" /\ u.saved = thr[r].saved
  BY <1>1, <1>3 DEF ThreadState
<1>7. thr'[r] = u /\ \A z \in Threads \ {r} : thr'[z] = thr[z]
  BY <1>1, <1>4
<1>8. /\ pool'.ticketer = pool.ticketer /\ pool'.all = pool.all \cup {thr[r].tkt}
      /\ pool'.gone = pool.gone
      /\ pool'.deadticket_counter = pool.deadticket_counter /\ pool'.free = pool.free
      /\ pool'.lost = pool.lost
  BY <1>1 DEF PushAll, PoolState
<1>9. UNCHANGED Lists
  BY <1>8 DEF PushAll, Lists, queues, env
<1> QED BY <1>4, <1>5, <1>6, <1>7, <1>8, <1>9 DEF OnePut

\* What is destroyed was in allticks_head: nothing is destroyed twice.
LEMMA GoneIs ==
    ASSUME TypeInv, AccountOk, NEW x \in Threads,
           DropDestroy(x) \/ (x \in Requesters /\ MakeFail(x))
    PROVE  OneGone
<1>1. /\ thr \in [Threads -> ThreadState] /\ thr[x] \in ThreadState /\ thr[x].ret # "pushall"
      /\ pool \in PoolState
  BY AccountThread DEF TypeInv, TypeOK
<1>2. thr[x].tkt \in Known /\ thr[x].pc # "pushall"
  BY InHandKnown DEF DropDestroy, MakeFail, At, DerefLabels
<1>3. PICK t : t = thr[x].tkt
  OBVIOUS
<1>4. t \in pool.all
  BY <1>2, <1>3 DEF DropDestroy, MakeFail, Live, Known
<1>5. pool' = [pool EXCEPT !.deadticket_counter = @ + 1, !.all = @ \ {t}, !.gone = @ \cup {t}]
  BY <1>3 DEF DropDestroy, MakeFail, Destroy
<1>6. /\ pool'.ticketer = pool.ticketer /\ pool'.all = pool.all \ {t}
      /\ pool'.gone = pool.gone \cup {t}
      /\ pool'.deadticket_counter = pool.deadticket_counter + 1 /\ pool'.free = pool.free
      /\ pool'.lost = pool.lost
  BY <1>1, <1>5 DEF PoolState
<1>7. UNCHANGED Lists
  BY <1>6 DEF DropDestroy, MakeFail, Lists, queues, env
<1>8. PICK u : /\ thr' = [thr EXCEPT ![x] = u]
               /\ u = IdleThread \/ u = [IdleThread EXCEPT !.pc = thr[x].ret]
  BY DEF DropDestroy, MakeFail
<1>9. u.pc # "pushall" /\ u.ret = "idle" /\ u.tkt = NoTicket /\ u.saved = NoTicket
  BY <1>1, <1>8 DEF IdleThread
<1>10. \A z \in Threads : Settled(z)
  BY <1>1, <1>2, <1>8, <1>9, OneSettles
<1> QED BY <1>4, <1>6, <1>7, <1>10 DEF OneGone

\* Every step is one of the four kinds.
LEMMA Kinds ==
    ASSUME TypeInv, AccountOk, [Next]_vars
    PROVE  \/ NoneMade \/ OneGone
           \/ \E r \in Requesters : OneMade(r) \/ OnePut(r)
<1>1. ASSUME UNCHANGED <<ms_head, aw_head, inbox, pool, thr>> PROVE NoneMade
  <2>1. ListsKnown
    BY <1>1, SameLists
  <2>2. \A z \in Threads : Settled(z)
    BY <1>1 DEF Settled
  <2> QED BY <1>1, <2>1, <2>2 DEF NoneMade
<1>2. CASE UNCHANGED vars
  BY <1>1, <1>2 DEF vars, queues, env
<1>3. ASSUME NEW r \in Requesters, RequesterStep(r)
      PROVE  NoneMade \/ OneMade(r) \/ OnePut(r)
  <2>0. r \in Threads
    BY DEF Threads
  <2>1. FetchMismatch(r) \/ InsertMessageDirty(r) => UNCHANGED <<ms_head, aw_head, inbox, pool, thr>>
    BY DEF FetchMismatch, InsertMessageDirty, queues, env
  <2> QED BY <1>1, <1>3, <2>0, <2>1, PlainMade, RequesterMade, MadeIs, PutIs DEF RequesterStep
<1>4. ASSUME NEW r \in Requesters, RequesterEvent(r) PROVE NoneMade \/ OneGone
  <2>0. r \in Threads
    BY DEF Threads
  <2>1. SendInit(r) \/ NewRequest(r) \/ SendForget(r) \/ SendRelease(r) =>
           \E o \in {"INIT", "REQ", "FORGET", "RELEASE"} : Started(r, o)
    BY DEF SendInit, NewRequest, SendForget, SendRelease
  <2> QED BY <1>4, <2>0, <2>1, PlainMade, RequesterMade, LoserMade, GoneIs DEF RequesterEvent
<1>5. ASSUME NEW d \in Readers, ReaderStep(d) \/ ReaderEvent(d) PROVE NoneMade
  <2>0. d \in Threads
    BY DEF Threads
  <2> QED BY <1>5, <2>0, PlainMade, DaemonMade DEF ReaderStep, ReaderEvent
<1>6. ASSUME NEW w \in Writers, WriterStep(w) PROVE NoneMade
  <2>0. w \in Threads
    BY DEF Threads
  <2> QED BY <1>6, <2>0, PlainMade, WakeMade, DaemonMade, LoserMade, WriteMade DEF WriterStep
<1>7. ASSUME NEW a \in Admins, AdminStep(a) PROVE NoneMade
  <2>0. a \in Threads
    BY DEF Threads
  <2> QED BY <1>7, <2>0, PlainMade, WakeMade, DaemonMade DEF AdminStep
<1>8. ASSUME DeviceKill \/ DeviceClose PROVE NoneMade
  <2>0. Killer \in Threads /\ Closer \in Threads
    BY DEF Threads, Admins
  <2>1. CASE DeviceKill
    BY <2>0, <2>1, PlainMade
  <2>2. CASE DeviceClose
    BY <2>0, <2>2, PlainMade
  <2> QED BY <1>8, <2>1, <2>2
<1>9. ASSUME NEW x \in Threads, SharedStep(x) PROVE NoneMade \/ OneGone
  <2>1. UseAfterFree(x) => UNCHANGED <<ms_head, aw_head, inbox, pool, thr>>
    BY DEF UseAfterFree, queues, env
  <2> QED BY <1>1, <1>9, <2>1, PlainMade, WakeMade, DaemonMade, GoneIs DEF SharedStep
<1> QED BY <1>2, <1>3, <1>4, <1>5, <1>6, <1>7, <1>8, <1>9 DEF Next

\* The account of tickets is kept by every step.
LEMMA NextAccount == TypeInv /\ AccountOk /\ CountOk /\ [Next]_vars => AccountOk' /\ CountOk'
<1> SUFFICES ASSUME TypeInv, AccountOk, CountOk, [Next]_vars PROVE AccountOk' /\ CountOk'
  OBVIOUS
<1>1. /\ pool.ticketer \in Nat /\ pool.deadticket_counter \in Nat
      /\ pool.all \subseteq Tickets /\ pool.gone \subseteq Tickets /\ pool.ticketer \in 0 .. MaxTickets
  <2>1. pool \in PoolState
    BY DEF TypeInv, TypeOK
  <2>2. pool.ticketer \in 0 .. MaxTickets /\ pool.deadticket_counter \in Nat
    BY <2>1 DEF PoolState
  <2>3. pool.all \subseteq Tickets /\ pool.gone \subseteq Tickets
    BY <2>1 DEF PoolState
  <2> QED BY <2>2, <2>3
<1>2. /\ pool.all \cap pool.gone = {} /\ \A t \in Known : t \in Nat /\ t < pool.ticketer
      /\ ToSet(ms_head) \cup ToSet(aw_head) \cup ToSet(pool.free) \cup pool.lost \subseteq Known
      /\ \A b \in inbox : b.unique \in Known
  BY <1>1 DEF AccountOk
<1>3. ASSUME NEW z \in Threads
      PROVE  /\ thr[z].ret # "pushall" /\ thr[z].saved \in Known \cup {NoTicket}
             /\ thr[z].pc # "pushall" => thr[z].tkt \in Known \cup {NoTicket}
             /\ thr[z].pc = "pushall" => thr[z].tkt \notin Known /\ thr[z].tkt < pool.ticketer
             /\ thr[z].tkt \in Tickets \cup {NoTicket}
             /\ thr[z].pc = "pushall" => thr[z].tkt \in Tickets
  <2>1. thr[z].tkt \in Tickets \cup {NoTicket}
    BY AccountThread DEF ThreadState
  <2>2. thr[z].pc = "pushall" => thr[z].tkt \in Tickets
    BY DEF TypeInv, Holding, HoldOk, KeepsTicket
  <2> QED BY <2>1, <2>2 DEF AccountOk
<1>4. ASSUME NEW y \in Threads, NEW z \in Threads, thr[y].pc = "pushall", thr[z].pc = "pushall",
             thr[y].tkt = thr[z].tkt
      PROVE  y = z
  BY <1>4 DEF AccountOk
<1>5. /\ IsFiniteSet(pool.all) /\ IsFiniteSet(pool.gone) /\ IsFiniteSet(Pushing)
      /\ pool.ticketer - pool.deadticket_counter = Cardinality(pool.all) + Cardinality(Pushing)
      /\ pool.deadticket_counter = Cardinality(pool.gone)
  BY DEF CountOk, TicketAccount, Pushing
<1>6. Cardinality(pool.all) \in Nat /\ Cardinality(pool.gone) \in Nat /\ Cardinality(Pushing) \in Nat
  BY <1>5, FS_CardinalityType
<1>8. Requesters \subseteq Threads
  BY DEF Threads
<1>9. ASSUME \A z \in Threads : Settled(z) PROVE Pushing' = Pushing
  BY <1>8, <1>9 DEF Settled, Pushing, At
<1>10. ASSUME Known' = Known, pool'.ticketer = pool.ticketer, pool'.all \cap pool'.gone = {},
              \A z \in Threads : Settled(z),
              ToSet(ms_head)' \cup ToSet(aw_head)' \cup ToSet(pool.free)' \cup pool'.lost \subseteq Known,
              \A b \in inbox' : b.unique \in Known
       PROVE  AccountOk'
  <2>1. \A z \in Threads :
          /\ thr'[z].ret # "pushall"
          /\ thr'[z].saved \in Known \cup {NoTicket}
          /\ thr'[z].pc # "pushall" => thr'[z].tkt \in Known \cup {NoTicket}
          /\ thr'[z].pc = "pushall" => thr'[z] = thr[z]
    BY <1>3, <1>10 DEF Settled
  <2>2. \A z \in Threads : thr'[z].pc = "pushall" => thr'[z].tkt \notin Known /\ thr'[z].tkt < pool.ticketer
    BY <1>3, <2>1
  <2>3. \A x, y \in Threads :
          thr'[x].pc = "pushall" /\ thr'[y].pc = "pushall" /\ thr'[x].tkt = thr'[y].tkt => x = y
    BY <1>4, <2>1
  <2>4. Known \subseteq 0 .. pool.ticketer - 1
    BY DEF AccountOk
  <2>5. Known' \subseteq 0 .. pool'.ticketer - 1
    BY <1>10, <2>4
  <2> QED BY <1>10, <2>1, <2>2, <2>3, <2>5 DEF AccountOk
<1>11. CASE NoneMade
  <2>1. Known' = Known
    BY <1>11 DEF NoneMade, Known
  <2>2. AccountOk'
    BY <1>2, <1>10, <1>11, <2>1 DEF NoneMade, ListsKnown
  <2>3. Pushing' = Pushing
    BY <1>9, <1>11 DEF NoneMade
  <2>4. CountOk'
    BY <1>5, <1>11, <2>3 DEF CountOk, TicketAccount, NoneMade, Pushing
  <2> QED BY <2>2, <2>4
<1>12. CASE OneGone
  <2>1. PICK t \in pool.all : pool'.all = pool.all \ {t} /\ pool'.gone = pool.gone \cup {t}
    BY <1>12 DEF OneGone
  <2>2. Known' = Known /\ pool'.all \cap pool'.gone = {} /\ t \notin pool.gone
    BY <1>2, <2>1 DEF Known
  <2>3. AccountOk'
    BY <1>2, <1>10, <1>12, <2>2 DEF OneGone, Lists
  <2>4. Pushing' = Pushing
    BY <1>9, <1>12 DEF OneGone
  <2>5. /\ IsFiniteSet(pool'.all) /\ IsFiniteSet(pool'.gone)
        /\ Cardinality(pool'.all) = Cardinality(pool.all) - 1
        /\ Cardinality(pool'.gone) = Cardinality(pool.gone) + 1
    <3>1. IsFiniteSet(pool.all \ {t}) /\ Cardinality(pool.all \ {t}) = Cardinality(pool.all) - 1
      BY <1>5, FS_RemoveElement
    <3>2. IsFiniteSet(pool.gone \cup {t}) /\ Cardinality(pool.gone \cup {t}) = Cardinality(pool.gone) + 1
      BY <1>5, <2>2, FS_AddElement
    <3> QED BY <2>1, <3>1, <3>2
  <2>6. /\ pool'.ticketer - pool'.deadticket_counter = Cardinality(pool'.all) + Cardinality(Pushing')
        /\ pool'.deadticket_counter = Cardinality(pool'.gone)
    BY <1>1, <1>5, <1>6, <1>12, <2>4, <2>5 DEF OneGone
  <2>7. CountOk'
    BY <1>5, <2>4, <2>5, <2>6 DEF CountOk, TicketAccount, Pushing
  <2> QED BY <2>3, <2>7
<1>13. ASSUME NEW r \in Requesters, OneMade(r) PROVE AccountOk' /\ CountOk'
  <2>0. r \in Threads
    BY <1>8
  <2>1. /\ thr[r].pc = "alloc" /\ thr'[r].pc = "pushall" /\ thr'[r].tkt = pool.ticketer
        /\ thr'[r].ret = thr[r].ret /\ thr'[r].saved = thr[r].saved
        /\ \A z \in Threads \ {r} : thr'[z] = thr[z]
    BY <1>13 DEF OneMade
  <2>2. /\ pool'.ticketer = pool.ticketer + 1 /\ pool'.all = pool.all /\ pool'.gone = pool.gone
        /\ pool'.deadticket_counter = pool.deadticket_counter /\ Known' = Known
    BY <1>13 DEF OneMade, Known
  <2>3. pool.ticketer \notin Known
    BY <1>1, <1>2
  <2>4. \A z \in Threads :
          /\ thr'[z].ret # "pushall"
          /\ thr'[z].saved \in Known \cup {NoTicket}
          /\ thr'[z].pc # "pushall" => thr'[z].tkt \in Known \cup {NoTicket}
    BY <1>3, <2>0, <2>1
  <2>5. \A z \in Threads : thr'[z].pc = "pushall" => thr'[z].tkt \notin Known /\ thr'[z].tkt < pool.ticketer + 1
    <3>1. \A z \in Threads \ {r} : thr[z].pc = "pushall" => thr[z].tkt \in Nat /\ thr[z].tkt < pool.ticketer
      BY <1>3 DEF Tickets
    <3> QED BY <1>1, <1>3, <2>0, <2>1, <2>3, <3>1
  <2>6. \A x, y \in Threads :
          thr'[x].pc = "pushall" /\ thr'[y].pc = "pushall" /\ thr'[x].tkt = thr'[y].tkt => x = y
    <3>1. \A z \in Threads \ {r} : thr[z].pc = "pushall" => thr[z].tkt # pool.ticketer
      BY <1>1, <1>3 DEF Tickets
    <3> QED BY <1>4, <2>0, <2>1, <3>1
  <2>7. Known' \subseteq 0 .. pool'.ticketer - 1
    BY <1>1, <1>2, <2>2
  <2>8. /\ ToSet(ms_head)' \cup ToSet(aw_head)' \cup ToSet(pool.free)' \cup pool'.lost \subseteq Known
        /\ \A b \in inbox' : b.unique \in Known
    BY <1>2, <1>13 DEF OneMade, Lists
  <2>9. AccountOk'
    BY <1>2, <2>2, <2>4, <2>5, <2>6, <2>7, <2>8 DEF AccountOk
  <2>10. Pushing' = Pushing \cup {r} /\ r \notin Pushing
    BY <1>8, <2>0, <2>1 DEF Pushing, At
  <2>11. IsFiniteSet(Pushing') /\ Cardinality(Pushing') = Cardinality(Pushing) + 1
    <3>1. IsFiniteSet(Pushing \cup {r}) /\ Cardinality(Pushing \cup {r}) = Cardinality(Pushing) + 1
      BY <1>5, <2>10, FS_AddElement
    <3> QED BY <2>10, <3>1
  <2>12. pool'.ticketer - pool'.deadticket_counter = Cardinality(pool'.all) + Cardinality(Pushing')
    BY <1>1, <1>5, <1>6, <2>2, <2>11
  <2>13. CountOk'
    BY <1>5, <2>2, <2>11, <2>12 DEF CountOk, TicketAccount, Pushing
  <2> QED BY <2>9, <2>13
<1>14. ASSUME NEW r \in Requesters, OnePut(r) PROVE AccountOk' /\ CountOk'
  <2>0. r \in Threads
    BY <1>8
  <2>1. /\ thr[r].pc = "pushall" /\ thr'[r].pc # "pushall" /\ thr'[r].tkt = thr[r].tkt
        /\ thr'[r].ret # "pushall" /\ thr'[r].saved = thr[r].saved
        /\ \A z \in Threads \ {r} : thr'[z] = thr[z]
    BY <1>14 DEF OnePut
  <2>2. /\ pool'.ticketer = pool.ticketer /\ pool'.all = pool.all \cup {thr[r].tkt}
        /\ pool'.gone = pool.gone
        /\ pool'.deadticket_counter = pool.deadticket_counter /\ Known' = Known \cup {thr[r].tkt}
    BY <1>14 DEF OnePut, Known
  <2>3. thr[r].tkt \notin Known /\ thr[r].tkt < pool.ticketer /\ thr[r].tkt \in Nat
    BY <1>3, <2>0, <2>1 DEF Tickets
  <2>4. \A z \in Threads :
          /\ thr'[z].ret # "pushall"
          /\ thr'[z].saved \in Known' \cup {NoTicket}
          /\ thr'[z].pc # "pushall" => thr'[z].tkt \in Known' \cup {NoTicket}
    BY <1>3, <2>0, <2>1, <2>2
  <2>5. \A z \in Threads : thr'[z].pc = "pushall" => thr'[z].tkt \notin Known' /\ thr'[z].tkt < pool'.ticketer
    BY <1>3, <1>4, <2>0, <2>1, <2>2
  <2>6. \A x, y \in Threads :
          thr'[x].pc = "pushall" /\ thr'[y].pc = "pushall" /\ thr'[x].tkt = thr'[y].tkt => x = y
    BY <1>4, <2>0, <2>1
  <2>7. Known' \subseteq 0 .. pool'.ticketer - 1
    BY <1>1, <1>2, <2>2, <2>3
  <2>8. /\ ToSet(ms_head)' \cup ToSet(aw_head)' \cup ToSet(pool.free)' \cup pool'.lost \subseteq Known'
        /\ \A b \in inbox' : b.unique \in Known'
    BY <1>2, <1>14, <2>2 DEF OnePut, Lists
  <2>9. pool'.all \cap pool'.gone = {}
    BY <1>2, <2>2, <2>3 DEF Known
  <2>10. AccountOk'
    BY <2>4, <2>5, <2>6, <2>7, <2>8, <2>9 DEF AccountOk
  <2>11. Pushing' = Pushing \ {r} /\ r \in Pushing
    BY <1>8, <2>0, <2>1 DEF Pushing, At
  <2>12. IsFiniteSet(Pushing') /\ Cardinality(Pushing') = Cardinality(Pushing) - 1
    <3>1. IsFiniteSet(Pushing \ {r}) /\ Cardinality(Pushing \ {r}) = Cardinality(Pushing) - 1
      BY <1>5, <2>11, FS_RemoveElement
    <3> QED BY <2>11, <3>1
  <2>13. IsFiniteSet(pool'.all) /\ Cardinality(pool'.all) = Cardinality(pool.all) + 1
    <3>1. thr[r].tkt \notin pool.all
      BY <2>3 DEF Known
    <3>2. /\ IsFiniteSet(pool.all \cup {thr[r].tkt})
          /\ Cardinality(pool.all \cup {thr[r].tkt}) = Cardinality(pool.all) + 1
      BY <1>5, <3>1, FS_AddElement
    <3> QED BY <2>2, <3>2
  <2>14. pool'.ticketer - pool'.deadticket_counter = Cardinality(pool'.all) + Cardinality(Pushing')
    BY <1>1, <1>5, <1>6, <2>2, <2>12, <2>13
  <2>15. CountOk'
    BY <1>5, <2>2, <2>12, <2>13, <2>14 DEF CountOk, TicketAccount, Pushing
  <2> QED BY <2>10, <2>15
<1> QED BY <1>11, <1>12, <1>13, <1>14, Kinds

\* A new session has no tickets.
LEMMA InitAccount == Init => AccountOk /\ CountOk
<1> SUFFICES ASSUME Init PROVE AccountOk /\ CountOk
  OBVIOUS
<1>1. /\ ms_head = <<>> /\ aw_head = <<>> /\ inbox = {} /\ pool.free = <<>> /\ pool.all = {}
      /\ pool.gone = {} /\ pool.lost = {} /\ pool.ticketer = 0 /\ pool.deadticket_counter = 0
  BY DEF Init
<1>2. \A x \in Threads : /\ thr[x].pc = "idle" /\ thr[x].ret = "idle" /\ thr[x].tkt = NoTicket
                         /\ thr[x].saved = NoTicket
  BY DEF Init, IdleThread
<1>3. ToSet(ms_head) = {} /\ ToSet(aw_head) = {} /\ ToSet(pool.free) = {}
  BY <1>1 DEF ToSet
<1>4. AccountOk
  BY <1>1, <1>2, <1>3 DEF AccountOk, Known
<1>5. Pushing = {} /\ {r \in Requesters : At(r, "pushall")} = {}
  BY <1>2 DEF Pushing, At, Threads
<1>6. IsFiniteSet({}) /\ Cardinality({}) = 0
  BY FS_EmptySet
<1>7. TicketAccount
  <2>1. Cardinality(pool.all) = 0 /\ Cardinality(pool.gone) = 0
    BY <1>1, <1>6
  <2>2. Cardinality({r \in Requesters : At(r, "pushall")}) = 0
    BY <1>5, <1>6
  <2> QED BY <1>1, <2>1, <2>2 DEF TicketAccount
<1>8. CountOk
  BY <1>1, <1>5, <1>6, <1>7 DEF CountOk
<1> QED BY <1>4, <1>8

-----------------------------------------------------------------------------
(* The limit on tickets *)

\* A requester in fuse_data_kill, in fuse_push_allticks or asleep in "fu_ini" stays
\* there, unless the step is its own or one that lets all of them go.
LEMMA StayStep ==
    ASSUME TypeInv, HandshakeInv, Next, NEW z \in Requesters, thr[z].pc \in {"kill", "ini", "pushall"}
    PROVE  thr'[z] = thr[z] \/ PushAll(z) \/ IniSignal(z) \/ dead' \/ (thr[z].pc = "ini" /\ inited')
<1>0. /\ z \in Threads /\ z \notin Readers /\ z \notin Writers /\ z \notin Admins
      /\ thr \in [Threads -> ThreadState]
  BY ThreadsAssumption DEF Threads, TypeInv, TypeOK
<1>1. ASSUME NEW r \in Requesters, RequesterStep(r) PROVE thr'[z] = thr[z] \/ PushAll(z)
  <2>1. CASE r = z
    BY <1>1, <2>1 DEF RequesterStep, FetchNone, Alloc, FetchFree, FetchMismatch, Make, InsertCallback,
              InsertMessageDead, InsertMessageTest, InsertMessageDirty, InsertMessage, WaitAnswered,
              WaitDead, WaitSleep, Woken, TimedOut, WaitedDrop, WaitedDetach, WaitedOk, UseDone, At
  <2>2. CASE r # z
    <3>1. InsertMessage(r) => thr'[z] = thr[z]
      <4> SUFFICES ASSUME InsertMessage(r) PROVE thr'[z] = thr[z]
        OBVIOUS
      <4>1. PICK f : f = Sent(r)
        OBVIOUS
      <4>2. f \in [Threads -> {f[y] : y \in Threads}] /\ f[z] = thr[z]
        BY <1>0, <2>2, <4>1 DEF Sent
      <4>3. WakeOneReader(f)
        BY <4>1 DEF InsertMessage
      <4> QED BY <1>0, <4>2, <4>3 DEF WakeOneReader
    <3>2. InsertMessageDead(r) => thr'[z] = thr[z]
      BY <1>0, <2>2 DEF InsertMessageDead, Sent
    <3> QED BY <1>0, <1>1, <2>2, <3>1, <3>2
        DEF RequesterStep, FetchNone, Alloc, PushAll, FetchFree, FetchMismatch, Make, InsertCallback,
              InsertMessageTest, InsertMessageDirty, WaitAnswered,
              WaitDead, WaitSleep, Woken, TimedOut, WaitedDrop, WaitedDetach, WaitedOk, UseDone
  <2> QED BY <2>1, <2>2
<1>2. ASSUME NEW r \in Requesters, RequesterEvent(r) PROVE thr'[z] = thr[z] \/ IniSignal(z)
  <2>1. CASE r = z
    BY <1>2, <2>1 DEF RequesterEvent, SendInit, NewRequest, SendForget, SendRelease, Started, MakeFail,
                      MakeDrop, MakeLeak, Timeout, Interrupted, UseLeak, Remake, At
  <2>2. CASE r # z
    BY <1>0, <1>2, <2>2 DEF RequesterEvent, SendInit, NewRequest, SendForget, SendRelease, Started,
                      IniSignal, MakeFail, MakeDrop, MakeLeak, Timeout, Interrupted, UseLeak, Remake
  <2> QED BY <2>1, <2>2
<1>3. ASSUME NEW d \in Readers, ReaderStep(d) \/ ReaderEvent(d) PROVE thr'[z] = thr[z]
  BY <1>0, <1>3 DEF ReaderStep, ReaderEvent, ReadPop, ReadSleep, ReadDead, ReadNothing, ReadDeliver,
                    ReadSignal, ReadShort, ReadReturn
<1>4. ASSUME NEW x \in Threads, x # z, NEW t, NEW u, thr' = WakeTicket([thr EXCEPT ![x] = u], t)
      PROVE  thr'[z] = thr[z]
  BY <1>0, <1>4 DEF WakeTicket
<1>5. ASSUME NEW w \in Writers, WriterStep(w) PROVE thr'[z] = thr[z] \/ (thr[z].pc = "ini" /\ inited')
  <2>1. w \in Threads /\ w # z
    BY <1>0 DEF Threads
  <2>2. AnswerWake(w) => thr'[z] = thr[z]
    BY <1>4, <2>1 DEF AnswerWake
  <2>3. SetInited(w) => thr'[z] = thr[z] \/ (thr[z].pc = "ini" /\ inited')
    BY <1>0, <2>1 DEF SetInited, WakeIni
  <2> QED BY <1>0, <1>5, <2>1, <2>2, <2>3 DEF WriterStep, WriteUnknown, WriteFound, Pull, AnswerDrop,
              ForgetCallback, InitCallback, InitFail
<1>6. ASSUME NEW a \in Admins, AdminStep(a) PROVE thr'[z] = thr[z]
  <2>1. a \in Threads /\ a # z
    BY <1>0 DEF Threads
  <2>2. ASSUME RejectOne(a) PROVE thr'[z] = thr[z]
    <3>1. thr' = WakeTicket([thr EXCEPT ![a].pos = @ + 1], aw_head[thr[a].pos + 1])
      BY <2>2 DEF RejectOne
    <3>2. [thr EXCEPT ![a].pos = @ + 1] = [thr EXCEPT ![a] = [thr[a] EXCEPT !.pos = @ + 1]]
      BY <1>0, <2>1
    <3> QED BY <1>4, <2>1, <3>1, <3>2
  <2> QED BY <1>0, <1>6, <2>1, <2>2 DEF AdminStep, RejectBegin, RejectEnd
<1>7. ASSUME DeviceKill \/ DeviceClose PROVE thr'[z] = thr[z]
  BY <1>0, <1>7 DEF DeviceKill, DeviceClose, Admins
<1>8. ASSUME NEW x \in Threads, SharedStep(x) PROVE thr'[z] = thr[z] \/ dead'
  <2>1. KillData(x) => dead'
    BY DEF KillData
  <2>2. KillWake(x) => dead'
    BY DEF KillWake, At, HandshakeInv, ThreadsOk, Ok, ThreadOk, sess
  <2>3. CASE x = z
    BY <1>8, <2>1, <2>2, <2>3 DEF SharedStep, DropDestroy, DropRefresh, DropPush, UseAfterFree, At
  <2>4. CASE x # z
    BY <1>0, <1>8, <2>1, <2>2, <2>4 DEF SharedStep, DropDestroy, DropRefresh, DropPush, UseAfterFree
  <2> QED BY <2>3, <2>4
<1> QED BY <1>1, <1>2, <1>3, <1>5, <1>6, <1>7, <1>8 DEF Next

\* A session stays dead, and inited.
LEMMA FlagsStay ==
    ASSUME TypeInv, Next
    PROVE  (dead => dead') /\ (inited => inited')
<1>1. dead => dead'
  BY DeadStays
<1>2. ASSUME NEW r \in Requesters, RequesterStep(r) \/ RequesterEvent(r) PROVE inited' = inited
  BY <1>2 DEF RequesterStep, RequesterEvent, FetchNone, Alloc, PushAll, FetchFree, FetchMismatch, Make,
              InsertCallback, InsertMessageDead, InsertMessageTest, InsertMessageDirty, InsertMessage,
              WaitAnswered, WaitDead, WaitSleep, Woken, TimedOut, WaitedDrop, WaitedDetach, WaitedOk,
              UseDone, SendInit, NewRequest, SendForget, SendRelease, Started, IniSignal, MakeFail,
              MakeDrop, MakeLeak, Timeout, Interrupted, UseLeak, Remake, sess
<1>3. ASSUME NEW d \in Readers, ReaderStep(d) \/ ReaderEvent(d) PROVE inited' = inited
  BY <1>3 DEF ReaderStep, ReaderEvent, ReadPop, ReadSleep, ReadDead, ReadNothing, ReadDeliver,
              ReadSignal, ReadShort, sess
<1>4. ASSUME NEW w \in Writers, WriterStep(w) PROVE inited => inited'
  BY <1>4 DEF WriterStep, WriteUnknown, WriteFound, Pull, AnswerDrop, AnswerWake, ForgetCallback,
              InitCallback, InitFail, SetInited, sess
<1>5. ASSUME NEW a \in Admins, AdminStep(a) PROVE inited' = inited
  BY <1>5 DEF AdminStep, RejectBegin, RejectOne, RejectEnd, sess
<1>6. ASSUME DeviceKill \/ DeviceClose PROVE inited' = inited
  BY <1>6 DEF DeviceKill, DeviceClose, sess
<1>7. ASSUME NEW x \in Threads, SharedStep(x) PROVE inited' = inited
  BY <1>7 DEF SharedStep, KillData, KillWake, DropDestroy, DropRefresh, DropPush, UseAfterFree, sess
<1> QED BY <1>1, <1>2, <1>3, <1>4, <1>5, <1>6, <1>7 DEF Next

\* What the end of fuse_ticket_fetch decides.
LEMMA TailIs ==
    ASSUME TypeInv
    PROVE  /\ FetchTail \in {"ini", "kill", "made"}
           /\ FetchTail = "ini" => ~inited
           /\ FetchTail = "made" => (inited \/ pool.ticketer <= 1)
                 /\ (FuseMaxTickets = 0 \/ pool.ticketer - pool.deadticket_counter <= FuseMaxTickets)
<1>1. pool \in PoolState
  BY DEF TypeInv, TypeOK
<1>2. pool.ticketer \in Int /\ pool.deadticket_counter \in Int /\ FuseMaxTickets \in Int
  BY <1>1 DEF PoolState
<1> QED BY <1>2 DEF FetchTail

\* Before INIT is answered tickets pile up only with requesters that are held up.
LEMMA NextLimit ==
    ASSUME TypeInv, HandshakeInv, AccountOk, LimitOk, [Next]_vars
    PROVE  LimitOk'
<1>1. CASE UNCHANGED vars
  BY <1>1 DEF vars, sess, LimitOk, HeldUp, At
<1>2. CASE Next
  <2> SUFFICES ASSUME ~dead', ~inited', \A r \in Requesters : thr'[r].pc # "kill"
               PROVE  pool'.ticketer <= 1 + Cardinality(HeldUp')
    BY DEF LimitOk, At
  <2>1. ~dead /\ ~inited
    BY <1>2, FlagsStay
  <2>2. \A r \in Requesters : thr[r].pc # "kill"
    <3> SUFFICES ASSUME NEW r \in Requesters, thr[r].pc = "kill" PROVE FALSE
      OBVIOUS
    <3>1. thr'[r] # thr[r]
      OBVIOUS
    <3>2. ~PushAll(r) /\ ~IniSignal(r)
      BY DEF PushAll, IniSignal, At
    <3> QED BY <1>2, <3>1, <3>2, StayStep
  <2>3. pool.ticketer <= 1 + Cardinality(HeldUp)
    BY <2>1, <2>2 DEF LimitOk, At
  <2>4. IsFiniteSet(HeldUp) /\ Cardinality(HeldUp) \in Nat
    BY FiniteAssumption, FS_Subset, FS_CardinalityType DEF HeldUp
  <2>5. IsFiniteSet(HeldUp') /\ Cardinality(HeldUp') \in Nat
    <3>1. HeldUp' \subseteq Requesters
      BY DEF HeldUp
    <3> QED BY <3>1, FiniteAssumption, FS_Subset, FS_CardinalityType
  <2>6. pool.ticketer \in Int
    <3>1. pool \in PoolState
      BY DEF TypeInv, TypeOK
    <3> QED BY <3>1 DEF PoolState
  <2>7. ASSUME NEW z \in HeldUp, ~PushAll(z) PROVE z \in HeldUp'
    <3>1. z \in Requesters /\ thr[z].pc \in {"pushall", "ini"}
      BY DEF HeldUp
    <3>2. z \in Threads /\ thr \in [Threads -> ThreadState] /\ thr[z] \in ThreadState
      BY <3>1 DEF Threads, TypeInv, TypeOK
    <3>3. IniSignal(z) => thr'[z].pc = "kill"
      BY <3>1, <3>2 DEF IniSignal
    <3> QED BY <1>2, <2>7, <3>1, <3>3, StayStep DEF HeldUp
  <2>8. CASE \E r \in Requesters : PushAll(r)
    <3>1. PICK r \in Requesters : PushAll(r)
      BY <2>8
    <3>2. r \in Threads /\ thr \in [Threads -> ThreadState] /\ pool \in PoolState
      BY DEF Threads, TypeInv, TypeOK
    <3>3. thr'[r].pc = FetchTail /\ pool'.ticketer = pool.ticketer
          /\ \A z \in Threads \ {r} : thr'[z] = thr[z]
      BY <3>1, <3>2 DEF PushAll, PoolState
    <3>4. FetchTail = "ini" \/ pool.ticketer <= 1
      BY <2>1, <3>3, TailIs
    <3>5. CASE FetchTail = "ini"
      <4>1. r \in HeldUp'
        BY <3>3, <3>5 DEF HeldUp
      <4>2. HeldUp \subseteq HeldUp'
        BY <3>3, <4>1 DEF HeldUp, Threads
      <4>3. Cardinality(HeldUp) <= Cardinality(HeldUp')
        BY <2>5, <4>2, FS_Subset
      <4> QED BY <2>3, <2>4, <2>5, <2>6, <3>3, <4>3
    <3>6. CASE pool.ticketer <= 1
      BY <2>5, <2>6, <3>3, <3>6
    <3> QED BY <3>4, <3>5, <3>6
  <2>9. CASE \A r \in Requesters : ~PushAll(r)
    <3>1. HeldUp \subseteq HeldUp'
      BY <2>7, <2>9 DEF HeldUp
    <3>2. Cardinality(HeldUp) <= Cardinality(HeldUp')
      BY <2>5, <3>1, FS_Subset
    <3>3. pool'.ticketer = pool.ticketer \/ \E r \in Requesters : OneMade(r)
      BY Kinds DEF NoneMade, OneGone, OnePut
    <3>4. CASE pool'.ticketer = pool.ticketer
      BY <2>3, <2>4, <2>5, <2>6, <3>2, <3>4
    <3>5. CASE \E r \in Requesters : OneMade(r)
      <4>1. PICK r \in Requesters : OneMade(r)
        BY <3>5
      <4>2. r \notin HeldUp /\ r \in HeldUp' /\ pool'.ticketer = pool.ticketer + 1
        BY <4>1 DEF OneMade, HeldUp
      <4>3. IsFiniteSet(HeldUp \cup {r}) /\ Cardinality(HeldUp \cup {r}) = Cardinality(HeldUp) + 1
        BY <2>4, <4>2, FS_AddElement
      <4>4. (HeldUp \cup {r}) \subseteq HeldUp'
        BY <3>1, <4>2
      <4>5. Cardinality(HeldUp \cup {r}) <= Cardinality(HeldUp')
        BY <2>5, <4>4, FS_Subset
      <4> QED BY <2>3, <2>4, <2>5, <2>6, <4>2, <4>3, <4>5
    <3> QED BY <3>3, <3>4, <3>5
  <2> QED BY <2>8, <2>9
<1> QED BY <1>1, <1>2

\* The limit is exceeded only while a fetch decides about it, or by those held up.
LEMMA NextTicketLimit ==
    ASSUME TypeInv, HandshakeInv, AccountOk, LimitOk, TicketLimit, [Next]_vars
    PROVE  TicketLimit'
<1>1. CASE UNCHANGED vars
  BY <1>1 DEF vars, sess, TicketLimit
<1>2. CASE Next
  <2> SUFFICES ASSUME FuseMaxTickets # 0, ~dead',
                      \A r \in Requesters : thr'[r].pc \notin {"pushall", "kill"},
                      ~(pool'.ticketer - pool'.deadticket_counter <= FuseMaxTickets)
               PROVE  pool'.ticketer - pool'.deadticket_counter <= 1 + Cardinality(Requesters)
    BY DEF TicketLimit
  <2>1. ~dead
    BY <1>2, FlagsStay
  <2>2. pool \in PoolState /\ pool' \in PoolState
    <3>1. TypeInv'
      BY NextType
    <3> QED BY <3>1 DEF TypeInv, TypeOK
  <2>3. /\ pool.ticketer \in Int /\ pool.deadticket_counter \in Nat
        /\ pool'.ticketer \in Int /\ pool'.deadticket_counter \in Nat
    BY <2>2 DEF PoolState
  <2>4. Cardinality(Requesters) \in Nat
    BY FiniteAssumption, FS_CardinalityType
  <2>5. /\ pool'.ticketer = pool.ticketer
        /\ \/ pool'.deadticket_counter = pool.deadticket_counter
           \/ pool'.deadticket_counter = pool.deadticket_counter + 1
    BY Kinds DEF NoneMade, OneGone, OnePut, OneMade
  <2>6. \A r \in Requesters : thr[r].pc # "kill"
    <3> SUFFICES ASSUME NEW r \in Requesters, thr[r].pc = "kill" PROVE FALSE
      OBVIOUS
    <3>1. ~PushAll(r) /\ ~IniSignal(r)
      BY DEF PushAll, IniSignal, At
    <3> QED BY <1>2, <3>1, StayStep
  <2>7. CASE \E r \in Requesters : PushAll(r)
    <3>1. PICK r \in Requesters : PushAll(r)
      BY <2>7
    <3>2. r \in Threads /\ thr \in [Threads -> ThreadState]
      BY DEF Threads, TypeInv, TypeOK
    <3>3. thr'[r].pc = FetchTail /\ pool'.deadticket_counter = pool.deadticket_counter
      BY <2>2, <3>1, <3>2 DEF PushAll, PoolState
    <3>4. FetchTail = "ini"
      BY <2>5, <3>3, TailIs
    <3>5. ~inited
      BY <3>4, TailIs
    <3>6. pool.ticketer <= 1 + Cardinality(HeldUp)
      BY <2>1, <2>6, <3>5 DEF LimitOk, At
    <3>7. Cardinality(HeldUp) <= Cardinality(Requesters) /\ IsFiniteSet(HeldUp)
      BY FiniteAssumption, FS_Subset DEF HeldUp
    <3>8. Cardinality(HeldUp) \in Nat
      BY <3>7, FS_CardinalityType
    <3> QED BY <2>3, <2>4, <2>5, <3>6, <3>7, <3>8
  <2>8. CASE \A r \in Requesters : ~PushAll(r)
    <3>1. \A r \in Requesters : thr[r].pc # "pushall"
      <4> SUFFICES ASSUME NEW r \in Requesters, thr[r].pc = "pushall" PROVE FALSE
        OBVIOUS
      <4>1. ~IniSignal(r)
        BY DEF IniSignal, At
      <4> QED BY <1>2, <2>8, <4>1, StayStep
    <3>2. \/ pool.ticketer - pool.deadticket_counter <= FuseMaxTickets
          \/ pool.ticketer - pool.deadticket_counter <= 1 + Cardinality(Requesters)
      BY <2>1, <2>6, <3>1 DEF TicketLimit
    <3> QED BY <2>3, <2>4, <2>5, <3>2
  <2> QED BY <2>7, <2>8
<1> QED BY <1>1, <1>2

\* A new session is within its limits.
LEMMA InitLimit == Init => LimitOk /\ TicketLimit
<1> SUFFICES ASSUME Init PROVE LimitOk /\ TicketLimit
  OBVIOUS
<1>1. pool.ticketer = 0 /\ pool.deadticket_counter = 0
  BY DEF Init
<1>2. IsFiniteSet(HeldUp)
  BY FiniteAssumption, FS_Subset DEF HeldUp
<1>3. Cardinality(HeldUp) \in Nat
  BY <1>2, FS_CardinalityType
<1> QED BY <1>1, <1>3 DEF LimitOk, TicketLimit

-----------------------------------------------------------------------------
(* What the invariant says *)

\* A ticket without a role is in nobody's hands, and the other way round.
LEMMA HolderRole ==
    ASSUME NEW t \in Tickets
    PROVE  Holders(t) = {} <=> \A x \in Threads : Role(x, t) = "none"
<1>1. ASSUME NEW x \in Threads
      PROVE  Role(x, t) = "none" <=> thr[x].tkt # t /\ thr[x].saved # t
  BY DEF Role
<1> QED BY <1>1 DEF Holders

\* While the session is alive the tickets are as the properties ask.
LEMMA AliveMeans ==
    ASSUME TypeInv, AccountOk, AliveInv
    PROVE  /\ ReplyMatches /\ FreeTicketsUnused /\ NoTicketLost /\ NoDanglingTicket
           /\ ~dead => panic = "none"
<1> SUFFICES ASSUME ~dead
             PROVE  /\ ReplyMatches /\ FreeTicketsUnused /\ NoTicketLost /\ NoDanglingTicket
                    /\ panic = "none"
  BY DEF ReplyMatches, FreeTicketsUnused, NoTicketLost, NoDanglingTicket
<1>1. AliveOk
  BY DEF AliveInv
<1>2. /\ pool.free \in Seq(Tickets) /\ pool.gone \subseteq Tickets /\ pool.all \subseteq Tickets
      /\ pool.ticketer \in Nat
  <2>1. pool \in PoolState
    BY DEF TypeInv, TypeOK
  <2>2. pool.ticketer \in 0 .. MaxTickets
    BY <2>1 DEF PoolState
  <2>3. pool.free \in Seq(Tickets) /\ pool.gone \subseteq Tickets /\ pool.all \subseteq Tickets
    BY <2>1 DEF PoolState
  <2> QED BY <2>2, <2>3
<1>3. ASSUME NEW t \in Tickets
      PROVE  /\ t \in ToSet(pool.free) => /\ t \notin ToSet(ms_head) /\ t \notin ToSet(aw_head)
                                          /\ ~Unused(t) /\ Clean(tk[t]) /\ Holders(t) = {}
             /\ Unused(t) <=> /\ t \notin ToSet(pool.free) /\ t \notin ToSet(ms_head)
                              /\ t \notin ToSet(aw_head) /\ Holders(t) = {}
  <2>1. OwnOk(Places(t), Roles(t), tk[t])
    BY <1>1 DEF AliveOk, Owned
  <2>2. \A x \in Threads : Roles(t)[x] = Role(x, t)
    BY DEF Roles
  <2>3. /\ "free" \in Places(t) <=> t \in ToSet(pool.free)
        /\ "ms" \in Places(t) <=> t \in ToSet(ms_head)
        /\ "aw" \in Places(t) <=> t \in ToSet(aw_head)
        /\ "unused" \in Places(t) <=> Unused(t)
    BY DEF Places
  <2>4. /\ "free" \in Places(t) => /\ "ms" \notin Places(t) /\ "aw" \notin Places(t) /\ Clean(tk[t])
                                   /\ \A x \in Threads : Roles(t)[x] = "none"
        /\ "unused" \in Places(t) <=> /\ "free" \notin Places(t) /\ "ms" \notin Places(t)
                                      /\ "aw" \notin Places(t) /\ \A x \in Threads : Roles(t)[x] = "none"
    BY <2>1 DEF OwnOk
  <2> QED BY <2>2, <2>3, <2>4, HolderRole
<1>4. ReplyMatches
  <2> SUFFICES ASSUME NEW r \in Requesters, thr[r].pc \in {"waited", "use"}, thr[r].err = "none"
               PROVE  tk[thr[r].tkt].answered /\ tk[thr[r].tkt].orid = thr[r].rid
    BY DEF ReplyMatches
  <2>1. RequesterOk(thr[r])
    BY <1>1 DEF AliveOk
  <2>2. tk[thr[r].tkt].answered /\ tk[thr[r].tkt].rid = thr[r].rid /\ thr[r].tkt # NoTicket
    BY <2>1 DEF RequesterOk, Waits
  <2>3. r \in Threads /\ thr[r].tkt \in Tickets
    BY <2>2 DEF Threads, TypeInv, TypeOK, ThreadState
  <2>4. PICK t \in Tickets : t = thr[r].tkt
    BY <2>3
  <2>5. Role(r, t) = "wait"
    BY <2>4 DEF Role
  <2>6. OwnOk(Places(t), Roles(t), tk[t])
    BY <1>1 DEF AliveOk, Owned
  <2>7. Roles(t)[r] = "wait"
    BY <2>3, <2>5 DEF Roles
  <2>8. tk[t].answered => tk[t].orid = tk[t].rid
    BY <2>3, <2>6, <2>7 DEF OwnOk
  <2> QED BY <2>2, <2>4, <2>8
<1>5. FreeTicketsUnused
  <2>1. pool.freeticket_counter = Len(pool.free) /\ NoRepeat(pool.free)
    BY <1>1 DEF AliveOk
  <2>2. ASSUME NEW i \in DOMAIN pool.free
        PROVE  /\ \A j \in DOMAIN pool.free : pool.free[j] = pool.free[i] => j = i
               /\ pool.free[i] \notin ToSet(ms_head) \cup ToSet(aw_head) \cup pool.gone
               /\ Holders(pool.free[i]) = {}
               /\ tk[pool.free[i]] = Refresh(tk[pool.free[i]])
    <3>1. PICK t \in Tickets : t = pool.free[i]
      BY <1>2
    <3>2. t \in ToSet(pool.free)
      BY <1>2, <3>1 DEF ToSet
    <3>3. t \notin ToSet(ms_head) /\ t \notin ToSet(aw_head) /\ ~Unused(t) /\ Clean(tk[t]) /\ Holders(t) = {}
      BY <1>3, <3>2
    <3>4. \A j \in DOMAIN pool.free : pool.free[j] = pool.free[i] => j = i
      BY <2>1 DEF NoRepeat
    <3> QED BY <3>1, <3>3, <3>4 DEF Unused, Clean
  <2> QED BY <2>1, <2>2 DEF FreeTicketsUnused
<1>6. NoTicketLost
  <2> SUFFICES ASSUME NEW t \in pool.all
               PROVE  t \in pool.lost <=>
                        /\ t \notin ToSet(pool.free) \cup ToSet(ms_head) \cup ToSet(aw_head)
                        /\ Holders(t) = {}
    BY DEF NoTicketLost
  <2>1. t \in Tickets /\ t \notin pool.gone /\ t \in 0 .. pool.ticketer - 1
    BY <1>2 DEF AccountOk, Known
  <2>2. Unused(t) <=> t \in pool.lost
    BY <1>2, <2>1 DEF Unused
  <2> QED BY <1>3, <2>1, <2>2
<1>7. NoDanglingTicket
  <2> SUFFICES ASSUME NEW t \in pool.gone
               PROVE  /\ t \notin ToSet(ms_head) \cup ToSet(aw_head) \cup ToSet(pool.free)
                      /\ Holders(t) = {}
    BY DEF NoDanglingTicket
  <2>1. t \in Tickets /\ Unused(t)
    BY <1>2 DEF Unused
  <2> QED BY <1>3, <2>1
<1>8. panic = "none"
  BY <1>1 DEF AliveOk
<1> QED BY <1>4, <1>5, <1>6, <1>7, <1>8

-----------------------------------------------------------------------------
(* The theorems *)

TicketInv == AccountOk /\ CountOk /\ AliveInv /\ LimitOk /\ TicketLimit

\* The inductive invariant of the tickets holds in every reachable state.
THEOREM TicketsInOrder == Spec => [](TypeInv /\ HandshakeInv /\ TicketInv)
<1>1. Init => TypeInv /\ HandshakeInv /\ TicketInv
  BY InitType, InitHandshake, InitAccount, InitAlive, InitLimit DEF TicketInv
<1>2. TypeInv /\ HandshakeInv /\ TicketInv /\ [Next]_vars => (TypeInv /\ HandshakeInv /\ TicketInv)'
  BY NextType, NextHandshake, NextAccount, NextAlive, NextLimit, NextTicketLimit DEF TicketInv
<1> QED BY <1>1, <1>2, PTL DEF Spec

\* The difference fuse_ticket_fetch holds against fuse_max_tickets is the number of
\* tickets in memory, for any number of threads and after any kills, failed
\* allocations and double drops (fuse_ticket_alloc, fuse_ticket_destroy).
THEOREM TicketsCounted == Spec => []TicketAccount
<1>1. TicketInv => TicketAccount
  BY DEF TicketInv, CountOk
<1> QED BY <1>1, TicketsInOrder, PTL

\* The fetch that exceeds fuse_max_tickets kills the session (fuse_ticket_fetch).
THEOREM TicketsLimited == Spec => []TicketLimit
<1>1. TicketInv => TicketLimit
  BY DEF TicketInv
<1> QED BY <1>1, TicketsInOrder, PTL

\* While the session is alive a requester that is told "answered" has the answer to
\* its own request, however tickets and their `unique' are reused.
THEOREM RepliesMatch == Spec => []ReplyMatches
<1>1. TypeInv /\ TicketInv => ReplyMatches
  BY AliveMeans DEF TicketInv
<1> QED BY <1>1, TicketsInOrder, PTL

\* While the session is alive the free list holds clean tickets nobody uses, each
\* once, and freeticket_counter is its length (fuse_push_freeticks).
THEOREM FreeListSound == Spec => []FreeTicketsUnused
<1>1. TypeInv /\ TicketInv => FreeTicketsUnused
  BY AliveMeans DEF TicketInv
<1> QED BY <1>1, TicketsInOrder, PTL

\* While the session is alive every ticket that is allocated can be found, the ones
\* excepted that a caller or fuse_internal_forget_callback returned without
\* dropping: the late answer drops what an interrupted request has left
\* (fuse_standard_callback), and what is lost stays out of every list.
THEOREM TicketsKept == Spec => []NoTicketLost
<1>1. TypeInv /\ TicketInv => NoTicketLost
  BY AliveMeans DEF TicketInv
<1> QED BY <1>1, TicketsInOrder, PTL

\* While the session is alive no queue and no thread refers to a ticket that
\* fuse_ticket_destroy has freed.
THEOREM TicketsNotFreedInUse == Spec => []NoDanglingTicket
<1>1. TypeInv /\ TicketInv => NoDanglingTicket
  BY AliveMeans DEF TicketInv
<1> QED BY <1>1, TicketsInOrder, PTL

\* A session that is alive has met no panic and no use of freed memory: those the
\* runs find all come after its death.
THEOREM AliveNoPanic == Spec => [](~dead => panic = "none")
<1>1. TypeInv /\ TicketInv => (~dead => panic = "none")
  BY AliveMeans DEF TicketInv
<1> QED BY <1>1, TicketsInOrder, PTL
=============================================================================
