------------------------ MODULE FuseIpcServiceProofs ------------------------
(***************************************************************************)
(* The message path implements FuseService, for any number of threads,     *)
(* tickets and requests, any limits and any set of events: every step of a *)
(* session that is alive is a step of the service or is not seen by it.    *)
(*                                                                         *)
(* The argument.  Tickets and their `unique' are used again, messages are  *)
(* not: while the session is alive a message has one requester and one     *)
(* ticket at most, and the requester that made it, as long as it has not   *)
(* finished with it, has that ticket.  So a message is in one stage at a   *)
(* time (Apart), and a step moves the one message of the ticket in hand.   *)
(***************************************************************************)
EXTENDS FuseIpcTickets, FuseIpcService

USE ThreadsAssumption, BoundsAssumption

-----------------------------------------------------------------------------
(* The invariant: whose number is whose *)

\* the thread's ticket has the header of its message
Headered(s) ==
    \/ s.pc \in {"cbins", "message", "msgins"} \cup Waits
    \/ s.pc = "kill" /\ s.ret = "timedout"

RequesterRid(s) ==
    s.pc # "idle" =>
        /\ s.rid \in 1 .. nreq
        /\ Headered(s) => tk[s.tkt].op = s.op
        /\ s.pc \in {"cbins", "message", "msgins"} => tk[s.tkt].orid = 0
        /\ s.saved # NoTicket => tk[s.saved].op = "REQ"

ReaderRid(s) == s.pc = "got" => tk[s.tkt].rid > 0 /\ tk[s.tkt].orid = 0
WriterRid(s) == s.pc \in {"found", "answer"} => s.arid > 0

\* A queue holds the tickets of messages that are not answered.
TicketRid(t) ==
    /\ tk[t].rid <= nreq
    /\ tk[t].op \in OneWay => tk[t].invalid
    /\ t \in ToSet(ms_head) \cup ToSet(aw_head) => tk[t].rid > 0 /\ tk[t].orid = 0

Busy(r) == thr[r].pc # "idle"

OneRequester == \A r, q \in Requesters : Busy(r) /\ Busy(q) /\ thr[r].rid = thr[q].rid => r = q
OneTicket    == \A t, v \in Tickets : \A n \in 1 .. MaxReqs : Carries(t, n) /\ Carries(v, n) => t = v
OwnTicket    == \A r \in Requesters, t \in Tickets :
                    Busy(r) /\ Carries(t, thr[r].rid) => t \in {thr[r].tkt, thr[r].saved}

RidThread(x) ==
    /\ x \in Requesters => RequesterRid(thr[x])
    /\ x \in Readers => ReaderRid(thr[x])
    /\ x \in Writers => WriterRid(thr[x])

RidOk ==
    /\ \A x \in Threads : RidThread(x)
    /\ \A t \in Tickets : TicketRid(t)
    /\ OneRequester /\ OneTicket /\ OwnTicket

RidInv == ~dead => RidOk

\* What is known of a session that is alive.
Sound == TypeInv /\ HandshakeInv /\ ~dead /\ AliveOk /\ HeaderOk
Good  == Sound /\ RidOk

-----------------------------------------------------------------------------
(* A message is in one stage at a time *)

Apart(n) ==
    /\ IsAnswered(n) => ~IsDelivered(n) /\ ~IsQueued(n) /\ ~IsMade(n)
    /\ IsDelivered(n) => ~IsQueued(n) /\ ~IsMade(n)
    /\ IsQueued(n) => ~IsMade(n)
    /\ IsAnswered(n) \/ IsDelivered(n) \/ IsQueued(n) \/ IsMade(n) => n <= nreq

\* An answer that is written is that of the writer's ticket.
LEMMA WritesIs ==
    ASSUME Good, NEW w \in Writers, NEW n, Writes(w, n)
    PROVE  /\ w \in Threads /\ thr[w].tkt \in Tickets /\ Role(w, thr[w].tkt) = "answer"
           /\ Carries(thr[w].tkt, n) /\ n > 0
<1>1. /\ w \in Threads /\ WriterOk(thr[w]) /\ thr[w].tkt \in Tickets /\ Role(w, thr[w].tkt) = "answer"
  BY WriterFacts DEF Writes, Good, Sound
<1>2. thr[w].tkt \notin pool.gone
  BY <1>1, NotGone DEF Good, Sound
<1>3. OwnOk(Places(thr[w].tkt), Roles(thr[w].tkt), tk[thr[w].tkt]) /\ Roles(thr[w].tkt)[w] = "answer"
  BY <1>1 DEF Good, Sound, AliveOk, Owned, Roles
<1>4. ~tk[thr[w].tkt].invalid
  BY <1>1, <1>3 DEF OwnOk
<1>5. tk[thr[w].tkt].op # "INTERRUPT"
  BY <1>1, <1>4 DEF Good, RidOk, TicketRid, OneWay
<1>6. tk[thr[w].tkt].rid = n /\ n > 0
  BY <1>1 DEF Writes, WriterOk, Good, RidOk, RidThread, WriterRid
<1> QED BY <1>1, <1>2, <1>5, <1>6 DEF Carries

\* A message in the daemon's hands is that of a ticket on aw_head.
LEMMA DeliveredIs ==
    ASSUME Good, NEW b \in inbox
    PROVE  /\ b.unique \in Tickets /\ Carries(b.unique, b.rid) /\ b.rid > 0
           /\ b.unique \in ToSet(aw_head) /\ b.unique \notin ToSet(ms_head)
           /\ \A x \in Threads : Role(x, b.unique) \in {"none", "wait"}
<1>1. b.unique \in Tickets
  BY DEF Good, Sound, TypeInv, TypeOK
<1>2. InboxOk(b)
  BY DEF Good, Sound, AliveOk
<1>3. b.unique \notin pool.gone
  BY <1>1, <1>2, NotGone DEF Good, Sound, InboxOk
<1>4. OwnOk(Places(b.unique), Roles(b.unique), tk[b.unique]) /\ "aw" \in Places(b.unique)
  BY <1>1, <1>2, PlacesIs DEF Good, Sound, AliveOk, Owned, InboxOk
<1>5. ~tk[b.unique].invalid
  BY <1>4 DEF OwnOk
<1>6. tk[b.unique].op # "INTERRUPT" /\ tk[b.unique].rid > 0
  BY <1>1, <1>2, <1>5 DEF Good, RidOk, TicketRid, OneWay, InboxOk
<1> QED BY <1>1, <1>2, <1>3, <1>6 DEF Carries, InboxOk

\* A message that waits to be delivered.
LEMMA PendingIs ==
    ASSUME Good, NEW t \in Tickets, Pending(t)
    PROVE  /\ tk[t].rid > 0 /\ tk[t].orid = 0 /\ t \notin pool.gone
           /\ \A x \in Threads : Role(x, t) \in {"none", "wait", "got"}
           /\ \A b \in inbox : b.unique # t
<1>0. OwnOk(Places(t), Roles(t), tk[t]) /\ \A x \in Threads : Roles(t)[x] = Role(x, t)
  BY DEF Good, Sound, AliveOk, Owned, Roles
<1>1. CASE t \in ToSet(ms_head)
  <2>1. \A x \in Threads : Role(x, t) \in {"none", "wait"}
    BY <1>0, <1>1, PlacesIs DEF OwnOk
  <2>2. tk[t].rid > 0 /\ tk[t].orid = 0
    BY <1>1 DEF Good, RidOk, TicketRid
  <2> QED BY <1>1, <2>1, <2>2, NotGone, NoMail DEF Good, Sound
<1>2. ASSUME NEW d \in Readers, Reads(d, t) PROVE /\ tk[t].rid > 0 /\ tk[t].orid = 0
                                                 /\ d \in Threads /\ Role(d, t) = "got"
  <2>1. d \in Threads
    BY DEF Threads
  <2> QED BY <1>2, <2>1 DEF Good, RidOk, RidThread, ReaderRid, Reads, At, Role
<1>3. CASE t \notin ToSet(ms_head)
  <2>1. PICK d \in Readers : Reads(d, t)
    BY <1>3 DEF Pending
  <2>2. tk[t].rid > 0 /\ tk[t].orid = 0 /\ d \in Threads /\ Role(d, t) = "got"
    BY <1>2, <2>1
  <2>3. \A x \in Threads : Role(x, t) \in {"none", "wait", "got"}
    BY <1>0, <2>2 DEF OwnOk
  <2> QED BY <2>2, <2>3, NotGone, NoMail DEF Good, Sound
<1> QED BY <1>1, <1>3

\* A message on its way to the queue has no ticket yet, or that of its requester.
LEMMA UnderwayIs ==
    ASSUME Good, NEW r \in Requesters, Underway(thr[r])
    PROVE  /\ r \in Threads /\ Busy(r) /\ thr[r].rid \in 1 .. nreq
           /\ \A t \in Tickets : Carries(t, thr[r].rid) =>
                 /\ t = thr[r].tkt /\ tk[t].orid = 0 /\ Role(r, t) \in {"alone", "send"}
                 /\ thr[r].pc \in {"cbins", "message", "msgins"}
<1>1. /\ r \in Threads /\ RequesterOk(thr[r]) /\ thr[r] \in ThreadState
      /\ tk \in [Tickets -> TicketState] /\ NoTicket \notin Tickets
  BY AliveRequester DEF Good, Sound
<1>2. Busy(r) /\ thr[r].saved = NoTicket
  BY <1>1 DEF Underway, Busy, RequesterOk
<1>3. RequesterRid(thr[r])
  BY <1>1 DEF Good, RidOk, RidThread
<1>4. thr[r].rid \in 1 .. nreq
  BY <1>2, <1>3 DEF RequesterRid, Busy
<1>5. ASSUME NEW t \in Tickets, Carries(t, thr[r].rid)
      PROVE  /\ t = thr[r].tkt /\ tk[t].orid = 0 /\ Role(r, t) \in {"alone", "send"}
             /\ thr[r].pc \in {"cbins", "message", "msgins"}
  <2>1. t = thr[r].tkt
    BY <1>1, <1>2, <1>5 DEF Good, RidOk, OwnTicket
  <2>2. tk[t].rid = thr[r].rid /\ tk[t].rid # 0
    BY <1>4, <1>5 DEF Carries
  <2>3. ~Clean(tk[t])
    <3>1. Refresh(tk[t]).rid = 0
      BY DEF Refresh, NewTicket
    <3> QED BY <2>2, <3>1 DEF Clean
  <2>4. thr[r].pc \in {"cbins", "message", "msgins"}
    BY <1>1, <2>1, <2>3 DEF Underway, RequesterOk
  <2> QED BY <1>2, <1>3, <2>1, <2>4 DEF RequesterRid, Busy, Role
<1> QED BY <1>1, <1>2, <1>4, <1>5

LEMMA StagesApart == Good => \A n \in 1 .. MaxReqs : Apart(n)
<1> SUFFICES ASSUME Good, NEW n \in 1 .. MaxReqs PROVE Apart(n)
  OBVIOUS
<1>0. /\ \A t, v \in Tickets : Carries(t, n) /\ Carries(v, n) => t = v
      /\ \A t \in Tickets : Carries(t, n) => n <= nreq
      /\ \A t \in Tickets : OwnOk(Places(t), Roles(t), tk[t]) /\ \A x \in Threads : Roles(t)[x] = Role(x, t)
      /\ nreq \in Nat
  BY StateFacts DEF Good, Sound, RidOk, OneTicket, TicketRid, Carries, AliveOk, Owned, Roles
<1>1. ASSUME NEW w \in Writers, Writes(w, n)
      PROVE  ~IsDelivered(n) /\ ~IsQueued(n) /\ ~IsMade(n) /\ n <= nreq
  <2> DEFINE t == thr[w].tkt
  <2>1. w \in Threads /\ t \in Tickets /\ Role(w, t) = "answer" /\ Carries(t, n)
    BY <1>1, WritesIs
  <2>2. ~IsDelivered(n)
    BY <1>0, <2>1, DeliveredIs DEF IsDelivered
  <2>3. ~IsQueued(n)
    BY <1>0, <2>1, PendingIs DEF IsQueued
  <2>4. ~IsMade(n)
    BY <1>0, <2>1, UnderwayIs DEF IsMade, OwnOk
  <2> QED BY <1>0, <2>1, <2>2, <2>3, <2>4
<1>2. ASSUME NEW t \in Tickets, Keeps(t, n)
      PROVE  ~IsDelivered(n) /\ ~IsQueued(n) /\ ~IsMade(n) /\ n <= nreq
  <2>1. Carries(t, n) /\ tk[t].orid # 0
    BY <1>2 DEF Keeps
  <2>2. t \notin ToSet(aw_head)
    BY <2>1 DEF Good, RidOk, TicketRid
  <2>3. ~IsDelivered(n)
    BY <1>0, <2>1, <2>2, DeliveredIs DEF IsDelivered
  <2>4. ~IsQueued(n)
    BY <1>0, <2>1, PendingIs DEF IsQueued
  <2>5. ~IsMade(n)
    BY <1>0, <2>1, UnderwayIs DEF IsMade
  <2> QED BY <1>0, <2>1, <2>3, <2>4, <2>5
<1>3. ASSUME NEW b \in inbox, b.rid = n
      PROVE  ~IsQueued(n) /\ ~IsMade(n) /\ n <= nreq
  <2>1. /\ b.unique \in Tickets /\ Carries(b.unique, n)
        /\ \A x \in Threads : Role(x, b.unique) \in {"none", "wait"}
    BY <1>3, DeliveredIs
  <2>2. ~IsQueued(n)
    BY <1>0, <2>1, PendingIs DEF IsQueued
  <2>3. ~IsMade(n)
    BY <1>0, <2>1, UnderwayIs DEF IsMade
  <2> QED BY <1>0, <2>1, <2>2, <2>3
<1>4. ASSUME NEW t \in Tickets, Carries(t, n), Pending(t) PROVE ~IsMade(n) /\ n <= nreq
  <2>1. \A x \in Threads : Role(x, t) \in {"none", "wait", "got"}
    BY <1>4, PendingIs
  <2>2. ~IsMade(n)
    BY <1>0, <1>4, <2>1, UnderwayIs DEF IsMade
  <2> QED BY <1>0, <1>4, <2>2
<1>5. IsMade(n) => n <= nreq
  BY <1>0, UnderwayIs DEF IsMade
<1> QED BY <1>1, <1>2, <1>3, <1>4, <1>5 DEF Apart, IsAnswered, IsDelivered, IsQueued

\* ... also after a step.
LEMMA StagesApartNext == Good' => \A n \in 1 .. MaxReqs : Apart(n)'
<1>1. (Good => \A n \in 1 .. MaxReqs : Apart(n))'
  BY StagesApart, PTL
<1> QED BY <1>1

-----------------------------------------------------------------------------
(* How a step keeps the invariant *)

\* The message of ticket v is what it was, and v is in no queue it was not in.
SameMessage(v) ==
    /\ tk'[v].rid = tk[v].rid /\ tk'[v].op = tk[v].op /\ tk'[v].orid = tk[v].orid
    /\ tk'[v].invalid = tk[v].invalid
    /\ v \in ToSet(ms_head)' \cup ToSet(aw_head)' => v \in ToSet(ms_head) \cup ToSet(aw_head)

\* What another thread relies on of a ticket it has.
MessageFor(z, t) ==
    Role(z, t) # "none" =>
        /\ tk'[t].rid = tk[t].rid /\ tk'[t].op = tk[t].op
        /\ Role(z, t) # "wait" => tk'[t].orid = tk[t].orid

\* A thread that is at most woken.
LEMMA WokeRid ==
    ASSUME Good, NEW z \in Threads, Woke(z), \A t \in Tickets : MessageFor(z, t),
           nreq' \in Nat, nreq <= nreq'
    PROVE  RidThread(z)'
<1> DEFINE s == thr[z]
           u == thr'[z]
<1>1. s \in ThreadState /\ NoTicket \notin Tickets /\ RidThread(z) /\ nreq \in Nat
  BY InitialRecords, StateFacts DEF Good, Sound, TypeInv, TypeOK, RidOk
<1>2. /\ s.tkt \in Tickets \cup {NoTicket} /\ s.saved \in Tickets \cup {NoTicket}
      /\ u.tkt = s.tkt /\ u.saved = s.saved /\ u.op = s.op /\ u.rid = s.rid
      /\ u.ret = s.ret /\ u.arid = s.arid
      /\ \/ u.pc = s.pc
         \/ s.pc = "ini" /\ u.pc = "made"
         \/ s.pc = "asleep" /\ u.pc = "woken"
         \/ s.pc = "rsleep" /\ u.pc = "read"
  BY <1>1 DEF Woke, ThreadState
<1>3. s.tkt \in Tickets => MessageFor(z, s.tkt)
  OBVIOUS
<1>4. s.saved \in Tickets => MessageFor(z, s.saved)
  OBVIOUS
<1> HIDE DEF s, u
<1>5. ASSUME z \in Requesters PROVE RequesterRid(thr[z])'
  <2>1. RequesterRid(s) /\ RequesterOk(s)
    BY <1>1, <1>5 DEF RidThread, s, Good, Sound, AliveOk
  <2>2. Headered(s) => tk'[s.tkt].op = tk[s.tkt].op
    BY <1>1, <1>2, <1>3, <2>1 DEF MessageFor, Role, RequesterOk, Headered, Waits, s
  <2>3. s.pc \in {"cbins", "message", "msgins"} => tk'[s.tkt].orid = tk[s.tkt].orid
    BY <1>1, <1>2, <1>3, <2>1 DEF MessageFor, Role, RequesterOk, Headered, Waits, s
  <2>4. s.saved # NoTicket => tk'[s.saved].op = tk[s.saved].op
    BY <1>1, <1>2, <1>4, <2>1 DEF MessageFor, Role, RequesterOk, s
  <2>5. Headered(u) => Headered(s)
    BY <1>2 DEF Headered, Waits
  <2>6. \A i : i \in 1 .. nreq => i \in 1 .. nreq'
    BY <1>1
  <2> QED BY <1>2, <2>1, <2>2, <2>3, <2>4, <2>5, <2>6 DEF RequesterRid, u
<1>6. ASSUME z \in Readers PROVE ReaderRid(thr[z])'
  <2>1. ReaderRid(s) /\ ReaderOk(s)
    BY <1>1, <1>6 DEF RidThread, s, Good, Sound, AliveOk
  <2>2. s.pc = "got" => tk'[s.tkt].rid = tk[s.tkt].rid /\ tk'[s.tkt].orid = tk[s.tkt].orid
    BY <1>1, <1>2, <1>3, <2>1 DEF MessageFor, Role, ReaderOk, s
  <2> QED BY <1>2, <2>1, <2>2 DEF ReaderRid, u
<1>7. ASSUME z \in Writers PROVE WriterRid(thr[z])'
  BY <1>1, <1>2, <1>7 DEF RidThread, WriterRid, s, u
<1> QED BY <1>5, <1>6, <1>7 DEF RidThread

\* A step of thread x with ticket t: threads and tickets by themselves.
LEMMA RidParts ==
    ASSUME Good, NEW x \in Threads, NEW t \in Tickets,
           \A z \in Threads \ {x} : Woke(z) /\ MessageFor(z, t),
           \A v \in Tickets \ {t} : SameMessage(v),
           nreq' \in Nat, nreq <= nreq', RidThread(x)', TicketRid(t)'
    PROVE  (\A z \in Threads : RidThread(z)') /\ (\A v \in Tickets : TicketRid(v)')
<1>1. ASSUME NEW z \in Threads \ {x} PROVE RidThread(z)'
  <2>1. \A v \in Tickets : MessageFor(z, v)
    BY DEF MessageFor, SameMessage
  <2> QED BY <2>1, WokeRid
<1>2. ASSUME NEW v \in Tickets \ {t} PROVE TicketRid(v)'
  <2>1. TicketRid(v) /\ tk[v].rid \in Nat /\ nreq \in Nat
    BY StateFacts DEF Good, Sound, RidOk, TicketState, Rids
  <2> QED BY <2>1 DEF TicketRid, SameMessage
<1> QED BY <1>1, <1>2

\* No ticket gets a message that it had not.
NoneCarried == \A v \in Tickets : \A n \in 1 .. MaxReqs : Carries(v, n)' => Carries(v, n)

LEMMA NoneCarriedIs ==
    ASSUME NEW t \in Tickets, pool.gone \subseteq pool'.gone,
           \A v \in Tickets \ {t} : SameMessage(v),
           \/ tk'[t].rid = tk[t].rid /\ tk'[t].op = tk[t].op
           \/ tk'[t].rid = 0 \/ tk'[t].op = "INTERRUPT"
    PROVE  NoneCarried
BY DEF NoneCarried, Carries, SameMessage

\* Requester r is not in a new request, and has the ticket of its message if it had it.
KeepsRequest(r) ==
    Busy(r)' => /\ Busy(r) /\ thr'[r].rid = thr[r].rid
                /\ \A v \in {thr[r].tkt, thr[r].saved} \cap Tickets :
                      Carries(v, thr[r].rid)' => v \in {thr'[r].tkt, thr'[r].saved}

LEMMA WokeKeeps ==
    ASSUME TypeInv, NEW z \in Requesters, Woke(z)
    PROVE  KeepsRequest(z)
<1>1. z \in Threads /\ thr[z] \in ThreadState
  BY DEF Threads, TypeInv, TypeOK
<1> QED BY <1>1 DEF Woke, ThreadState, KeepsRequest, Busy

LEMMA RidKept ==
    ASSUME Good, NoneCarried, \A r \in Requesters : KeepsRequest(r)
    PROVE  (OneRequester /\ OneTicket /\ OwnTicket)'
<1>1. OneRequester'
  BY DEF Good, RidOk, OneRequester, KeepsRequest, Busy
<1>2. OneTicket'
  BY DEF Good, RidOk, OneTicket, NoneCarried
<1>3. OwnTicket'
  <2> SUFFICES ASSUME NEW r \in Requesters, NEW t \in Tickets, Busy(r)', Carries(t, thr[r].rid)'
               PROVE  t \in {thr'[r].tkt, thr'[r].saved}
    BY DEF OwnTicket
  <2>1. Busy(r) /\ thr'[r].rid = thr[r].rid
    BY DEF KeepsRequest
  <2>2. r \in Threads /\ thr[r].rid \in 1 .. nreq /\ nreq \in 0 .. MaxReqs
    BY <2>1 DEF Threads, Good, Sound, TypeInv, TypeOK, Rids, RidOk, RidThread, RequesterRid, Busy
  <2>3. thr[r].rid \in 1 .. MaxReqs
    BY <2>2
  <2>4. Carries(t, thr[r].rid)
    BY <2>1, <2>3 DEF NoneCarried
  <2>5. t \in {thr[r].tkt, thr[r].saved}
    BY <2>1, <2>4 DEF Good, RidOk, OwnTicket
  <2> QED BY <2>4, <2>5 DEF KeepsRequest
<1> QED BY <1>1, <1>2, <1>3

\* A step that makes no message.
LEMMA RidStep ==
    ASSUME Good, NEW x \in Threads, NEW t \in Tickets,
           \A z \in Threads \ {x} : Woke(z) /\ MessageFor(z, t),
           \A v \in Tickets \ {t} : SameMessage(v),
           nreq' = nreq, RidThread(x)', TicketRid(t)',
           pool.gone \subseteq pool'.gone,
           \/ tk'[t].rid = tk[t].rid /\ tk'[t].op = tk[t].op
           \/ tk'[t].rid = 0 \/ tk'[t].op = "INTERRUPT",
           x \in Requesters => KeepsRequest(x)
    PROVE  RidOk'
<1>1. nreq \in Nat /\ nreq' \in Nat /\ nreq <= nreq'
  BY StateFacts DEF Good, Sound
<1>2. (\A z \in Threads : RidThread(z)') /\ (\A v \in Tickets : TicketRid(v)')
  BY <1>1, RidParts
<1>3. NoneCarried
  BY NoneCarriedIs
<1>4. \A r \in Requesters : KeepsRequest(r)
  BY WokeKeeps DEF Threads, Good, Sound
<1> QED BY <1>2, <1>3, <1>4, RidKept DEF RidOk

\* A step that changes no message.
LEMMA RidQuiet ==
    ASSUME Good, NEW x \in Threads, \A z \in Threads \ {x} : Woke(z),
           \A v \in Tickets : SameMessage(v), nreq' = nreq, RidThread(x)',
           pool.gone \subseteq pool'.gone, x \in Requesters => KeepsRequest(x)
    PROVE  RidOk'
<1>1. 0 \in Tickets /\ nreq \in Nat /\ tk[0].rid \in Nat
  BY StateFacts DEF Good, Sound, TicketState, Rids
<1>2. \A z \in Threads : MessageFor(z, 0)
  BY <1>1 DEF MessageFor, SameMessage
<1>3. TicketRid(0)'
  BY <1>1 DEF Good, RidOk, TicketRid, SameMessage
<1>4. tk'[0].rid = tk[0].rid /\ tk'[0].op = tk[0].op
  BY <1>1 DEF SameMessage
<1> QED BY <1>1, <1>2, <1>3, <1>4, RidStep

-----------------------------------------------------------------------------
(* What the service sees of a step *)

Calls == [r \in Requesters |-> Calling(r)]
Gots  == [r \in Requesters |-> Taken(r)]

\* Caller r is where it was.
SameCaller(r) == Calling(r)' = Calling(r) /\ Taken(r)' = Taken(r)

Nothing == UNCHANGED Service!avars

LEMMA SeenNothing ==
    ASSUME \A n \in 1 .. MaxReqs : Stage(n)' = Stage(n), \A r \in Requesters : SameCaller(r),
           dead' = dead
    PROVE  Nothing
BY DEF Nothing, Service!avars, SameCaller

\* Message n goes from one stage to another.
Passes(n, from, to) ==
    /\ Stage(n) = from /\ Stage(n)' = to
    /\ \A m \in (1 .. MaxReqs) \ {n} : Stage(m)' = Stage(m)

LEMMA SeenMove ==
    ASSUME NEW n \in 1 .. MaxReqs, NEW from, NEW to, Passes(n, from, to)
    PROVE  Service!Moves(n, from, to)
BY DEF Passes, Service!Moves

LEMMA SeenMessage ==
    ASSUME NEW n \in 1 .. MaxReqs, \A r \in Requesters : SameCaller(r), dead' = dead,
           \/ Passes(n, "none", "made") \/ Passes(n, "made", "queued")
           \/ Passes(n, "queued", "delivered") \/ Passes(n, "delivered", "answered")
           \/ Passes(n, "queued", "over")
           \/ Passes(n, "answered", "over") /\ \A r \in Requesters : Calling(r) # n
    PROVE  Service!ANext
<1>1. /\ \/ Service!Moves(n, "none", "made") \/ Service!Moves(n, "made", "queued")
         \/ Service!Moves(n, "queued", "delivered") \/ Service!Moves(n, "delivered", "answered")
         \/ Service!Moves(n, "queued", "over")
         \/ Service!Moves(n, "answered", "over") /\ \A r \in Requesters : Calling(r) # n
  BY SeenMove
<1>2. Calls' = Calls /\ Gots' = Gots
  BY DEF Calls, Gots, SameCaller
<1>3. Service!Post(n) \/ Service!Queue(n) \/ Service!Deliver(n) \/ Service!Answer(n) \/ Service!Discard(n)
  BY <1>1, <1>2 DEF Calls, Gots, Service!Post, Service!Queue, Service!Deliver, Service!Answer, Service!Discard
<1> QED BY <1>3 DEF Service!ANext

LEMMA SeenCall ==
    ASSUME NEW n \in 1 .. MaxReqs, NEW r \in Requesters, \A q \in Requesters \ {r} : SameCaller(q),
           dead' = dead, Passes(n, "none", "made"), Calling(r) = 0, Calling(r)' = n, Taken(r)' = Taken(r)
    PROVE  Service!ANext
<1>1. Service!Moves(n, "none", "made")
  BY SeenMove
<1>2. Calls' = [Calls EXCEPT ![r] = n] /\ Gots' = Gots /\ Calls[r] = 0
  BY DEF Calls, Gots, SameCaller
<1>3. Service!Call(r, n)
  BY <1>1, <1>2 DEF Calls, Gots, Service!Call
<1> QED BY <1>3 DEF Service!ANext

LEMMA SeenCallAgain ==
    ASSUME NEW n \in 1 .. MaxReqs, NEW k \in (1 .. MaxReqs) \ {n}, NEW r \in Requesters,
           \A q \in Requesters \ {r} : SameCaller(q),
           dead' = dead, Stage(n) = "none", Stage(n)' = "made", Stage(k)' = "over",
           \A m \in (1 .. MaxReqs) \ {n, k} : Stage(m)' = Stage(m),
           Calling(r) = k, Calling(r)' = n, Taken(r) # 0, Taken(r)' = 0
    PROVE  Service!ANext
<1> DEFINE S == [m \in 1 .. MaxReqs |-> Stage(m)]
<1>1. Calls' = [Calls EXCEPT ![r] = n]
  BY DEF Calls, SameCaller
<1>2. Gots' = [Gots EXCEPT ![r] = 0]
  BY DEF Gots, SameCaller
<1>3. Calls' = [Calls EXCEPT ![r] = n] /\ Gots' = [Gots EXCEPT ![r] = 0] /\ Calls[r] = k /\ Gots[r] # 0
  BY <1>1, <1>2 DEF Calls, Gots
<1>4. S' = [S EXCEPT ![n] = "made", ![k] = "over"] /\ S[n] = "none"
  OBVIOUS
<1>5. Service!CallAgain(r, n)
  BY <1>3, <1>4 DEF Calls, Gots, Service!CallAgain
<1> QED BY <1>5 DEF Service!ANext

\* A call returns, with an answer or without.
LEMMA SeenReturn ==
    ASSUME NEW r \in Requesters, \A q \in Requesters \ {r} : SameCaller(q), dead' = dead,
           Calling(r) # 0, Calling(r)' = 0, Taken(r)' = 0,
           \A n \in 1 .. MaxReqs : Stage(n)' = Stage(n)
    PROVE  Service!ANext
<1> DEFINE S == [m \in 1 .. MaxReqs |-> Stage(m)]
<1>1. Calls' = [Calls EXCEPT ![r] = 0]
  BY DEF Calls, SameCaller
<1>2. Gots' = [Gots EXCEPT ![r] = 0]
  BY DEF Gots, SameCaller
<1>3. Calls[r] # 0
  BY DEF Calls
<1>4. S' = S
  OBVIOUS
<1>5. Service!Return(r)
  BY <1>1, <1>2, <1>3, <1>4 DEF Calls, Gots, Service!Return
<1> QED BY <1>5 DEF Service!ANext

\* A call returns because its message could not be made.
LEMMA SeenFailed ==
    ASSUME NEW n \in 1 .. MaxReqs, NEW r \in Requesters, \A q \in Requesters \ {r} : SameCaller(q),
           dead' = dead, Calling(r) = n, Calling(r)' = 0, Taken(r)' = 0, Passes(n, "made", "over")
    PROVE  Service!ANext
<1>1. Calls' = [Calls EXCEPT ![r] = 0]
  BY DEF Calls, SameCaller
<1>2. Gots' = [Gots EXCEPT ![r] = 0]
  BY DEF Gots, SameCaller
<1>3. Calls[r] = n /\ n # 0
  BY DEF Calls
<1>4. Service!Moves(n, "made", "over")
  BY SeenMove
<1>5. Service!Moves(Calls[r], "made", "over")
  BY <1>3, <1>4 DEF Service!Moves
<1>6. Service!Return(r)
  BY <1>1, <1>2, <1>3, <1>5 DEF Calls, Gots, Service!Return
<1> QED BY <1>6 DEF Service!ANext

LEMMA SeenTake ==
    ASSUME NEW r \in Requesters, \A q \in Requesters \ {r} : SameCaller(q), dead' = dead,
           Calling(r) \in 1 .. MaxReqs, Calling(r)' = Calling(r), Taken(r) = 0, Taken(r)' = Calling(r),
           Stage(Calling(r)) = "answered", \A n \in 1 .. MaxReqs : Stage(n)' = Stage(n)
    PROVE  Service!ANext
<1> DEFINE S == [m \in 1 .. MaxReqs |-> Stage(m)]
<1>1. Calls' = Calls
  BY DEF Calls, SameCaller
<1>2. Calling(r) # 0 /\ Calls[r] = Calling(r)
  BY DEF Calls
<1>3. Gots' = [Gots EXCEPT ![r] = Calling(r)] /\ Gots[r] = 0
  BY DEF Gots, SameCaller
<1>4. /\ Calls' = Calls /\ Gots' = [Gots EXCEPT ![r] = Calls[r]] /\ Calls[r] = Calling(r)
      /\ Calling(r) # 0 /\ Gots[r] = 0
  BY <1>1, <1>2, <1>3
<1>5. S' = S /\ S[Calling(r)] = "answered"
  OBVIOUS
<1>6. Service!Take(r)
  BY <1>4, <1>5 DEF Calls, Gots, Service!Take
<1> QED BY <1>6 DEF Service!ANext

-----------------------------------------------------------------------------
(* Frames: what a step leaves where it was *)

Sends(r, n) == thr[r].rid = n /\ Underway(thr[r])

\* The signs of message n are what they were.
SameSigns(n) ==
    /\ \A w \in Writers : Writes(w, n)' <=> Writes(w, n)
    /\ \A t \in Tickets : Keeps(t, n)' <=> Keeps(t, n)
    /\ \A t \in Tickets : (Carries(t, n) /\ Pending(t))' <=> (Carries(t, n) /\ Pending(t))
    /\ IsDelivered(n)' <=> IsDelivered(n)
    /\ \A r \in Requesters : Sends(r, n)' <=> Sends(r, n)

LEMMA SameStage ==
    ASSUME NEW n, dead' = dead, n > nreq' <=> n > nreq, SameSigns(n)
    PROVE  Stage(n)' = Stage(n)
<1>1. IsAnswered(n)' <=> IsAnswered(n)
  BY DEF SameSigns, IsAnswered
<1>2. IsQueued(n)' <=> IsQueued(n)
  BY DEF SameSigns, IsQueued
<1>3. IsMade(n)' <=> IsMade(n)
  BY DEF SameSigns, IsMade, Sends
<1>4. IsDelivered(n)' <=> IsDelivered(n)
  BY DEF SameSigns
<1> QED BY <1>1, <1>2, <1>3, <1>4 DEF Stage

\* The service does not see that a thread is woken.
LEMMA WokeSeen ==
    ASSUME TypeInv, NEW z \in Threads, Woke(z)
    PROVE  /\ \A n : Writes(z, n)' <=> Writes(z, n)
           /\ \A t : Reads(z, t)' <=> Reads(z, t)
           /\ \A n : Sends(z, n)' <=> Sends(z, n)
           /\ InCall(thr[z])' <=> InCall(thr[z])
           /\ thr'[z].rid = thr[z].rid /\ thr'[z].tkt = thr[z].tkt
           /\ At(z, "use")' <=> At(z, "use")
<1>1. thr[z] \in ThreadState
  BY DEF TypeInv, TypeOK
<1>2. /\ thr'[z].rid = thr[z].rid /\ thr'[z].tkt = thr[z].tkt /\ thr'[z].arid = thr[z].arid
      /\ thr'[z].op = thr[z].op /\ thr'[z].ret = thr[z].ret
      /\ \/ thr'[z].pc = thr[z].pc
         \/ thr[z].pc = "ini" /\ thr'[z].pc = "made"
         \/ thr[z].pc = "asleep" /\ thr'[z].pc = "woken"
         \/ thr[z].pc = "rsleep" /\ thr'[z].pc = "read"
  BY <1>1 DEF Woke, ThreadState
<1> QED BY <1>2 DEF Writes, Reads, Sends, Underway, InCall, At

\* The answer that a caller uses is in a ticket that nobody else has.
LEMMA UseAlone ==
    ASSUME Sound, NEW r \in Requesters, At(r, "use")
    PROVE  /\ thr[r].tkt \in Tickets /\ tk[thr[r].tkt].orid = thr[r].rid /\ tk[thr[r].tkt].rid = thr[r].rid
           /\ \A x \in Threads \ {r} : Role(x, thr[r].tkt) = "none"
           /\ thr[r].tkt \notin ToSet(ms_head) /\ thr[r].tkt \notin pool.gone
           /\ thr[r].op = "REQ" /\ thr[r].saved = NoTicket
<1>1. /\ r \in Threads /\ RequesterOk(thr[r]) /\ thr[r].tkt \in Tickets \cup {NoTicket}
      /\ NoTicket \notin Tickets
  BY AliveRequester DEF Sound
<1>2. thr[r].tkt \in Tickets /\ tk[thr[r].tkt].answered /\ tk[thr[r].tkt].rid = thr[r].rid /\ Role(r, thr[r].tkt) = "wait"
      /\ thr[r].op = "REQ" /\ thr[r].saved = NoTicket
  BY <1>1 DEF RequesterOk, Waits, At, Role
<1> QED BY <1>1, <1>2, AnsweredFacts DEF Sound, Unused

\* Callers other than the one that takes the step.
LEMMA OtherCallers ==
    ASSUME Good, dead' = dead, NEW x \in Threads, NEW t \in Tickets,
           \A z \in Threads \ {x} : Woke(z), \A v \in Tickets \ {t} : SameMessage(v),
           tk'[t].orid = tk[t].orid \/ Role(x, t) # "none"
    PROVE  \A r \in Requesters \ {x} : SameCaller(r)
<1> SUFFICES ASSUME NEW r \in Requesters \ {x} PROVE SameCaller(r)
  OBVIOUS
<1>1. r \in Threads \ {x} /\ Woke(r)
  BY DEF Threads
<1>2. /\ InCall(thr[r])' <=> InCall(thr[r])
      /\ thr'[r].rid = thr[r].rid /\ thr'[r].tkt = thr[r].tkt
      /\ At(r, "use")' <=> At(r, "use")
  BY <1>1, WokeSeen DEF Good, Sound
<1>3. At(r, "use") => tk'[thr[r].tkt].orid = tk[thr[r].tkt].orid
  BY <1>1, UseAlone DEF Good, SameMessage
<1> QED BY <1>2, <1>3 DEF SameCaller, Calling, Taken

\* A step of thread x that changes no message: what the service may see is in x.
LEMMA QuietStages ==
    ASSUME Good, dead' = dead, nreq' = nreq, NEW x \in Threads,
           \A z \in Threads \ {x} : Woke(z), \A v \in Tickets : SameMessage(v),
           pool'.gone = pool.gone, inbox' = inbox,
           \A v \in Tickets : v \in ToSet(ms_head)' <=> v \in ToSet(ms_head),
           NEW n, x \in Writers => (Writes(x, n)' <=> Writes(x, n)),
           x \in Readers => \A t \in Tickets : Reads(x, t)' <=> Reads(x, t),
           x \in Requesters => (Sends(x, n)' <=> Sends(x, n))
    PROVE  Stage(n)' = Stage(n)
<1>1. \A w \in Writers : Writes(w, n)' <=> Writes(w, n)
  BY WokeSeen DEF Threads, Good, Sound
<1>2. \A d \in Readers, t \in Tickets : Reads(d, t)' <=> Reads(d, t)
  BY WokeSeen DEF Threads, Good, Sound
<1>3. \A r \in Requesters : Sends(r, n)' <=> Sends(r, n)
  BY WokeSeen DEF Threads, Good, Sound
<1>4. \A t \in Tickets : Carries(t, n)' <=> Carries(t, n)
  BY DEF Carries, SameMessage
<1>5. \A t \in Tickets : Keeps(t, n)' <=> Keeps(t, n)
  BY <1>4 DEF Keeps, SameMessage
<1>6. \A t \in Tickets : Pending(t)' <=> Pending(t)
  BY <1>2 DEF Pending
<1>7. IsDelivered(n)' <=> IsDelivered(n)
  BY DEF IsDelivered
<1>8. SameSigns(n)
  BY <1>1, <1>3, <1>4, <1>5, <1>6, <1>7 DEF SameSigns
<1> QED BY <1>8, SameStage

-----------------------------------------------------------------------------
(* Steps of a requester that change no message *)

Seen == RidOk' /\ (Service!ANext \/ Nothing)

\* From record s to record u, with the same request.
Advances(s, u) ==
    /\ u.rid = s.rid
    /\ \/ /\ u.op = s.op /\ u.saved = s.saved /\ u.tkt = s.tkt
          /\ \/ s.pc = "fetch" /\ u.pc = "alloc"
             \/ s.pc = "pushall" /\ (u.pc \in {"ini", "made"} \/ (u.pc = "kill" /\ u.ret = "made"))
             \/ s.pc = "ini" /\ u.pc = "kill" /\ u.ret = "made"
             \/ s.pc = "message" /\ u.pc = "msgins"
             \/ s.pc = "wait" /\ u.pc \in {"waited", "asleep"}
             \/ s.pc = "woken" /\ u.pc = "waited"
             \/ s.pc \in {"asleep", "woken"} /\ u.pc = "kill" /\ u.ret = "timedout"
       \/ /\ u.op = s.op /\ u.saved = s.saved /\ s.pc \in {"fetch", "alloc"}
          /\ u.pc \in {"pushall", "ini", "made"} \/ (u.pc = "kill" /\ u.ret = "made")
       \/ /\ s.pc \in {"asleep", "woken"} /\ u.pc = "fetch"
          /\ u.op = "INTERRUPT" /\ u.saved = s.tkt /\ u.tkt = NoTicket

\* From record s to record u, with an effect on the call.
Finishes(s, u) ==
    \/ s.pc \in {"waited", "use"} /\ u.pc = "idle"
    \/ /\ u.rid = s.rid /\ u.op = s.op /\ u.saved = s.saved /\ u.tkt = s.tkt
       /\ s.pc \in {"waited", "use"} /\ u.pc = "drop"

Takes(s, u) ==
    /\ u.rid = s.rid /\ u.op = s.op /\ u.saved = s.saved /\ u.tkt = s.tkt
    /\ s.pc = "waited" /\ u.pc = "use" /\ s.err = "none"

LEMMA PlainMoves ==
    ASSUME Good, NEW r \in Requesters,
           \/ FetchNone(r) \/ Alloc(r) \/ PushAll(r) \/ FetchFree(r) \/ IniSignal(r)
           \/ InsertMessageTest(r) \/ WaitAnswered(r) \/ WaitSleep(r) \/ Woken(r) \/ Timeout(r)
           \/ Interrupted(r) \/ WaitedDrop(r) \/ WaitedDetach(r) \/ WaitedOk(r) \/ UseDone(r) \/ UseLeak(r)
    PROVE  /\ \A z \in Threads \ {r} : Woke(z)
           /\ \A v \in Tickets : SameMessage(v)
           /\ dead' = dead /\ nreq' = nreq /\ inbox' = inbox /\ pool'.gone = pool.gone /\ ms_head' = ms_head
           /\ Advances(thr[r], thr'[r]) \/ Finishes(thr[r], thr'[r]) \/ Takes(thr[r], thr'[r])
<1> DEFINE s == thr[r]
           u == thr'[r]
<1>1. /\ r \in Threads /\ thr \in [Threads -> ThreadState] /\ s \in ThreadState
      /\ ReturnOk(s) /\ tk \in [Tickets -> TicketState] /\ pool \in PoolState
  BY AliveRequester, StateFacts DEF Good, Sound
<1>2. FetchTail \in {"ini", "kill", "made"}
  BY DEF FetchTail
<1>3. /\ dead' = dead /\ nreq' = nreq /\ inbox' = inbox /\ ms_head' = ms_head /\ aw_head' = aw_head
  BY DEF FetchNone, Alloc, PushAll, FetchFree, IniSignal, InsertMessageTest, WaitAnswered, WaitSleep, Woken,
         Timeout, Interrupted, WaitedDrop, WaitedDetach, WaitedOk, UseDone, UseLeak, env, sess, queues
<1>4. pool'.gone = pool.gone
  BY <1>1 DEF FetchNone, Alloc, PushAll, FetchFree, IniSignal, InsertMessageTest, WaitAnswered, WaitSleep,
         Woken, Timeout, Interrupted, WaitedDrop, WaitedDetach, WaitedOk, UseDone, UseLeak, Lose, PoolState
<1>5. \A v \in Tickets : SameMessage(v)
  <2>1. CASE InsertMessageTest(r) \/ WaitedDetach(r)
    BY <1>1, <1>3, <2>1 DEF InsertMessageTest, WaitedDetach, SameMessage, TicketState
  <2>2. CASE ~(InsertMessageTest(r) \/ WaitedDetach(r))
    <3>1. tk' = tk
      BY <2>2 DEF FetchNone, Alloc, PushAll, FetchFree, IniSignal, WaitAnswered, WaitSleep, Woken, Timeout,
             Interrupted, WaitedDrop, WaitedOk, UseDone, UseLeak
    <3> QED BY <1>3, <3>1 DEF SameMessage
  <2> QED BY <2>1, <2>2
<1>6. CASE FetchNone(r)
  <2>1. thr' = [thr EXCEPT ![r] = [s EXCEPT !.pc = "alloc"]]
    BY <1>1, <1>6 DEF FetchNone
  <2>2. u = [s EXCEPT !.pc = "alloc"] /\ \A z \in Threads \ {r} : Woke(z)
    BY <1>1, <2>1, OneStep
  <2>3. s.pc = "fetch" /\ u.pc = "alloc" /\ u.rid = s.rid /\ u.op = s.op /\ u.saved = s.saved /\ u.tkt = s.tkt
    BY <1>1, <1>2, <1>6, <2>2 DEF FetchNone, At, ThreadState
  <2> QED BY <1>3, <1>4, <1>5, <2>2, <2>3 DEF Advances
<1>7. CASE Alloc(r)
  <2>1. thr' = [thr EXCEPT ![r] = [s EXCEPT !.pc = "pushall", !.tkt = pool.ticketer]]
    BY <1>1, <1>7 DEF Alloc
  <2>2. u = [s EXCEPT !.pc = "pushall", !.tkt = pool.ticketer] /\ \A z \in Threads \ {r} : Woke(z)
    BY <1>1, <2>1, OneStep
  <2>3. s.pc = "alloc" /\ u.pc = "pushall" /\ u.rid = s.rid /\ u.op = s.op /\ u.saved = s.saved
    BY <1>1, <1>2, <1>7, <2>2 DEF Alloc, At, ThreadState
  <2> QED BY <1>3, <1>4, <1>5, <2>2, <2>3 DEF Advances
<1>8. CASE PushAll(r)
  <2>1. thr' = [thr EXCEPT ![r] = [s EXCEPT !.pc = FetchTail, !.ret = "made"]]
    BY <1>1, <1>8 DEF PushAll
  <2>2. u = [s EXCEPT !.pc = FetchTail, !.ret = "made"] /\ \A z \in Threads \ {r} : Woke(z)
    BY <1>1, <2>1, OneStep
  <2>3. s.pc = "pushall" /\ u.pc \in {"ini", "made", "kill"} /\ u.ret = "made" /\ u.rid = s.rid /\ u.op = s.op /\ u.saved = s.saved /\ u.tkt = s.tkt
    BY <1>1, <1>2, <1>8, <2>2 DEF PushAll, At, ThreadState
  <2> QED BY <1>3, <1>4, <1>5, <2>2, <2>3 DEF Advances
<1>9. CASE FetchFree(r)
  <2>1. thr' = [thr EXCEPT ![r] = [s EXCEPT !.pc = FetchTail, !.ret = "made", !.tkt = Head(pool.free)]]
    BY <1>1, <1>9 DEF FetchFree
  <2>2. u = [s EXCEPT !.pc = FetchTail, !.ret = "made", !.tkt = Head(pool.free)] /\ \A z \in Threads \ {r} : Woke(z)
    BY <1>1, <2>1, OneStep
  <2>3. s.pc = "fetch" /\ u.pc \in {"ini", "made", "kill"} /\ u.ret = "made" /\ u.rid = s.rid /\ u.op = s.op /\ u.saved = s.saved
    BY <1>1, <1>2, <1>9, <2>2 DEF FetchFree, At, ThreadState
  <2> QED BY <1>3, <1>4, <1>5, <2>2, <2>3 DEF Advances
<1>10. CASE IniSignal(r)
  <2>1. thr' = [thr EXCEPT ![r] = [s EXCEPT !.pc = "kill"]]
    BY <1>1, <1>10 DEF IniSignal
  <2>2. u = [s EXCEPT !.pc = "kill"] /\ \A z \in Threads \ {r} : Woke(z)
    BY <1>1, <2>1, OneStep
  <2>3. s.pc = "ini" /\ u.pc = "kill" /\ u.ret = "made" /\ u.rid = s.rid /\ u.op = s.op /\ u.saved = s.saved /\ u.tkt = s.tkt
    BY <1>1, <1>2, <1>10, <2>2 DEF IniSignal, At, ThreadState, ReturnOk
  <2> QED BY <1>3, <1>4, <1>5, <2>2, <2>3 DEF Advances
<1>11. CASE WaitAnswered(r)
  <2>1. thr' = [thr EXCEPT ![r] = [s EXCEPT !.pc = "waited"]]
    BY <1>1, <1>11 DEF WaitAnswered
  <2>2. u = [s EXCEPT !.pc = "waited"] /\ \A z \in Threads \ {r} : Woke(z)
    BY <1>1, <2>1, OneStep
  <2>3. s.pc = "wait" /\ u.pc = "waited" /\ u.rid = s.rid /\ u.op = s.op /\ u.saved = s.saved /\ u.tkt = s.tkt
    BY <1>1, <1>2, <1>11, <2>2 DEF WaitAnswered, At, ThreadState
  <2> QED BY <1>3, <1>4, <1>5, <2>2, <2>3 DEF Advances
<1>12. CASE WaitSleep(r)
  <2>1. thr' = [thr EXCEPT ![r] = [s EXCEPT !.pc = "asleep"]]
    BY <1>1, <1>12 DEF WaitSleep
  <2>2. u = [s EXCEPT !.pc = "asleep"] /\ \A z \in Threads \ {r} : Woke(z)
    BY <1>1, <2>1, OneStep
  <2>3. s.pc = "wait" /\ u.pc = "asleep" /\ u.rid = s.rid /\ u.op = s.op /\ u.saved = s.saved /\ u.tkt = s.tkt
    BY <1>1, <1>2, <1>12, <2>2 DEF WaitSleep, At, ThreadState
  <2> QED BY <1>3, <1>4, <1>5, <2>2, <2>3 DEF Advances
<1>13. CASE Woken(r)
  <2>1. thr' = [thr EXCEPT ![r] = [s EXCEPT !.pc = "waited", !.err = IF tk[s.tkt].answered THEN "none" ELSE "ENXIO"]]
    BY <1>1, <1>13 DEF Woken
  <2>2. u = [s EXCEPT !.pc = "waited", !.err = IF tk[s.tkt].answered THEN "none" ELSE "ENXIO"] /\ \A z \in Threads \ {r} : Woke(z)
    BY <1>1, <2>1, OneStep
  <2>3. s.pc = "woken" /\ u.pc = "waited" /\ u.rid = s.rid /\ u.op = s.op /\ u.saved = s.saved /\ u.tkt = s.tkt
    BY <1>1, <1>2, <1>13, <2>2 DEF Woken, At, ThreadState
  <2> QED BY <1>3, <1>4, <1>5, <2>2, <2>3 DEF Advances
<1>14. CASE Timeout(r)
  <2>1. thr' = [thr EXCEPT ![r] = [s EXCEPT !.pc = "kill", !.ret = "timedout"]]
    BY <1>1, <1>14 DEF Timeout
  <2>2. u = [s EXCEPT !.pc = "kill", !.ret = "timedout"] /\ \A z \in Threads \ {r} : Woke(z)
    BY <1>1, <2>1, OneStep
  <2>3. s.pc \in {"asleep", "woken"} /\ u.pc = "kill" /\ u.ret = "timedout" /\ u.rid = s.rid /\ u.op = s.op /\ u.saved = s.saved /\ u.tkt = s.tkt
    BY <1>1, <1>2, <1>14, <2>2 DEF Timeout, At, ThreadState
  <2> QED BY <1>3, <1>4, <1>5, <2>2, <2>3 DEF Advances
<1>15. CASE Interrupted(r)
  <2>1. thr' = [thr EXCEPT ![r] = [s EXCEPT !.pc = "fetch", !.saved = s.tkt, !.tkt = NoTicket, !.op = "INTERRUPT", !.err = "EINTR"]]
    BY <1>1, <1>15 DEF Interrupted
  <2>2. u = [s EXCEPT !.pc = "fetch", !.saved = s.tkt, !.tkt = NoTicket, !.op = "INTERRUPT", !.err = "EINTR"] /\ \A z \in Threads \ {r} : Woke(z)
    BY <1>1, <2>1, OneStep
  <2>3. s.pc \in {"asleep", "woken"} /\ u.pc = "fetch" /\ u.op = "INTERRUPT" /\ u.saved = s.tkt /\ u.tkt = NoTicket /\ u.rid = s.rid
    BY <1>1, <1>2, <1>15, <2>2 DEF Interrupted, At, ThreadState
  <2> QED BY <1>3, <1>4, <1>5, <2>2, <2>3 DEF Advances
<1>16. CASE WaitedDrop(r)
  <2>1. thr' = [thr EXCEPT ![r] = [s EXCEPT !.pc = "drop", !.ret = "idle", !.err = "none"]]
    BY <1>1, <1>16 DEF WaitedDrop
  <2>2. u = [s EXCEPT !.pc = "drop", !.ret = "idle", !.err = "none"] /\ \A z \in Threads \ {r} : Woke(z)
    BY <1>1, <2>1, OneStep
  <2>3. s.pc = "waited" /\ u.pc = "drop" /\ u.rid = s.rid /\ u.op = s.op /\ u.saved = s.saved /\ u.tkt = s.tkt
    BY <1>1, <1>2, <1>16, <2>2 DEF WaitedDrop, At, ThreadState
  <2> QED BY <1>3, <1>4, <1>5, <2>2, <2>3 DEF Finishes
<1>17. CASE UseDone(r)
  <2>1. thr' = [thr EXCEPT ![r] = [s EXCEPT !.pc = "drop", !.ret = "idle"]]
    BY <1>1, <1>17 DEF UseDone
  <2>2. u = [s EXCEPT !.pc = "drop", !.ret = "idle"] /\ \A z \in Threads \ {r} : Woke(z)
    BY <1>1, <2>1, OneStep
  <2>3. s.pc = "use" /\ u.pc = "drop" /\ u.rid = s.rid /\ u.op = s.op /\ u.saved = s.saved /\ u.tkt = s.tkt
    BY <1>1, <1>2, <1>17, <2>2 DEF UseDone, At, ThreadState
  <2> QED BY <1>3, <1>4, <1>5, <2>2, <2>3 DEF Finishes
<1>18. CASE WaitedOk(r)
  <2>1. thr' = [thr EXCEPT ![r] = [s EXCEPT !.pc = "use"]]
    BY <1>1, <1>18 DEF WaitedOk
  <2>2. u = [s EXCEPT !.pc = "use"] /\ \A z \in Threads \ {r} : Woke(z)
    BY <1>1, <2>1, OneStep
  <2>3. s.pc = "waited" /\ u.pc = "use" /\ s.err = "none" /\ u.rid = s.rid /\ u.op = s.op /\ u.saved = s.saved /\ u.tkt = s.tkt
    BY <1>1, <1>2, <1>18, <2>2 DEF WaitedOk, At, ThreadState
  <2> QED BY <1>3, <1>4, <1>5, <2>2, <2>3 DEF Takes
<1>19. CASE InsertMessageTest(r)
  <2>1. thr' = [thr EXCEPT ![r] = [s EXCEPT !.pc = "msgins"]]
    BY <1>1, <1>19 DEF InsertMessageTest
  <2>2. u = [s EXCEPT !.pc = "msgins"] /\ \A z \in Threads \ {r} : Woke(z)
    BY <1>1, <2>1, OneStep
  <2>3. s.pc = "message" /\ u.pc = "msgins" /\ u.rid = s.rid /\ u.op = s.op /\ u.saved = s.saved /\ u.tkt = s.tkt
    BY <1>1, <1>2, <1>19, <2>2 DEF InsertMessageTest, At, ThreadState
  <2> QED BY <1>3, <1>4, <1>5, <2>2, <2>3 DEF Advances
<1>20. CASE WaitedDetach(r)
  <2>1. thr' = [thr EXCEPT ![r] = IdleThread]
    BY <1>1, <1>20 DEF WaitedDetach
  <2>2. u = IdleThread /\ \A z \in Threads \ {r} : Woke(z)
    BY <1>1, <2>1, OneStep
  <2>3. s.pc = "waited" /\ u.pc = "idle"
    BY <1>1, <1>2, <1>20, <2>2 DEF WaitedDetach, At, ThreadState, IdleThread
  <2> QED BY <1>3, <1>4, <1>5, <2>2, <2>3 DEF Finishes
<1>21. CASE UseLeak(r)
  <2>1. thr' = [thr EXCEPT ![r] = IdleThread]
    BY <1>1, <1>21 DEF UseLeak
  <2>2. u = IdleThread /\ \A z \in Threads \ {r} : Woke(z)
    BY <1>1, <2>1, OneStep
  <2>3. s.pc = "use" /\ u.pc = "idle"
    BY <1>1, <1>21, <2>2 DEF UseLeak, At, ThreadState, IdleThread
  <2> QED BY <1>3, <1>4, <1>5, <2>2, <2>3 DEF Finishes
<1> QED BY <1>6, <1>7, <1>8, <1>9, <1>10, <1>11, <1>12, <1>13, <1>14, <1>15, <1>16, <1>17, <1>18, <1>19, <1>20,
           <1>21

\* What is known of a requester, and of the number of requests.
LEMMA AliveFacts ==
    ASSUME Good, NEW r \in Requesters
    PROVE  /\ r \in Threads /\ RequesterOk(thr[r]) /\ RequesterRid(thr[r]) /\ nreq \in Nat /\ nreq <= MaxReqs
           /\ r \notin Readers /\ r \notin Writers /\ r \notin Admins
           /\ thr[r].tkt \in Tickets \cup {NoTicket} /\ thr[r].saved \in Tickets \cup {NoTicket}
           /\ NoTicket \notin Tickets
<1>1. /\ r \in Threads /\ RequesterOk(thr[r])
      /\ r \notin Readers /\ r \notin Writers /\ r \notin Admins
      /\ thr[r].tkt \in Tickets \cup {NoTicket} /\ thr[r].saved \in Tickets \cup {NoTicket}
      /\ NoTicket \notin Tickets
  BY AliveRequester DEF Good, Sound
<1>2. RequesterRid(thr[r])
  BY <1>1 DEF Good, RidOk, RidThread
<1>3. nreq \in 0 .. MaxReqs
  BY DEF Good, Sound, TypeInv, TypeOK, Rids
<1> QED BY <1>1, <1>2, <1>3

LEMMA PlainSeen ==
    ASSUME Good, Sound', NEW r \in Requesters,
           \/ FetchNone(r) \/ Alloc(r) \/ PushAll(r) \/ FetchFree(r) \/ IniSignal(r)
           \/ InsertMessageTest(r) \/ WaitAnswered(r) \/ WaitSleep(r) \/ Woken(r) \/ Timeout(r)
           \/ Interrupted(r) \/ WaitedDrop(r) \/ WaitedDetach(r) \/ WaitedOk(r) \/ UseDone(r) \/ UseLeak(r)
    PROVE  Seen
<1> DEFINE s == thr[r]
           u == thr'[r]
<1>1. /\ r \in Threads /\ RequesterOk(s) /\ RequesterRid(s) /\ nreq \in Nat /\ nreq <= MaxReqs
      /\ r \notin Readers /\ r \notin Writers /\ r \notin Admins
      /\ s.tkt \in Tickets \cup {NoTicket} /\ s.saved \in Tickets \cup {NoTicket} /\ NoTicket \notin Tickets
  BY AliveFacts
<1>2. /\ \A z \in Threads \ {r} : Woke(z)
      /\ \A v \in Tickets : SameMessage(v)
      /\ dead' = dead /\ nreq' = nreq /\ inbox' = inbox /\ pool'.gone = pool.gone /\ ms_head' = ms_head
      /\ Advances(s, u) \/ Finishes(s, u) \/ Takes(s, u)
  BY PlainMoves
<1>3. \A v \in Tickets : tk'[v].rid = tk[v].rid /\ tk'[v].op = tk[v].op /\ tk'[v].orid = tk[v].orid
  BY <1>2 DEF SameMessage
<1>4. s.pc # "idle" /\ s.rid \in 1 .. nreq /\ s.rid \in 1 .. MaxReqs
  <2>1. s.pc # "idle"
    BY <1>2 DEF Advances, Finishes, Takes
  <2> QED BY <1>1, <2>1 DEF RequesterRid
<1>5. \A r1 \in Requesters \ {r} : SameCaller(r1)
  <2>1. 0 \in Tickets
    BY StateFacts DEF Good, Sound
  <2> QED BY <1>1, <1>2, <1>3, <2>1, OtherCallers
<1> HIDE DEF s, u
<1>6. CASE Advances(s, u)
  <2>1. RequesterRid(thr[r])'
    BY <1>1, <1>2, <1>3, <1>4, <1>6 DEF Advances, RequesterRid, Headered, Waits, RequesterOk, s, u
  <2>2. RidThread(r)'
    BY <1>1, <2>1 DEF RidThread
  <2>3. KeepsRequest(r)
    BY <1>1, <1>6 DEF Advances, KeepsRequest, Busy, RequesterOk, Waits, s, u
  <2>4. RidOk'
    BY <1>1, <1>2, <2>2, <2>3, RidQuiet
  <2>5. \A n : Sends(r, n)' <=> Sends(r, n)
    BY <1>1, <1>6 DEF Advances, Sends, Underway, RequesterOk, Waits, s, u
  <2>6. \A n : Stage(n)' = Stage(n)
    BY <1>1, <1>2, <2>5, QuietStages
  <2>7. SameCaller(r)
    <3>1. s.pc # "use" /\ u.pc # "use"
      BY <1>6 DEF Advances
    <3>2. InCall(s) <=> InCall(u)
      BY <1>1, <1>6 DEF Advances, InCall, RequesterOk, Waits
    <3>3. u.rid = s.rid
      BY <1>6 DEF Advances
    <3> QED BY <1>2, <3>1, <3>2, <3>3 DEF SameCaller, Calling, Taken, At, s, u
  <2> QED BY <1>2, <1>5, <2>4, <2>6, <2>7, SeenNothing DEF Seen
<1>7. CASE Finishes(s, u)
  <2>1. RequesterRid(thr[r])'
    BY <1>1, <1>2, <1>3, <1>4, <1>7 DEF Finishes, RequesterRid, Headered, Waits, RequesterOk, s, u
  <2>2. RidThread(r)'
    BY <1>1, <2>1 DEF RidThread
  <2>3. KeepsRequest(r)
    BY <1>1, <1>4, <1>7 DEF Finishes, KeepsRequest, Busy, s, u
  <2>4. RidOk'
    BY <1>1, <1>2, <2>2, <2>3, RidQuiet
  <2>5. \A n : Sends(r, n)' <=> Sends(r, n)
    BY <1>1, <1>7 DEF Finishes, Sends, Underway, s, u
  <2>6. \A n : Stage(n)' = Stage(n)
    BY <1>1, <1>2, <2>5, QuietStages
  <2>7. Calling(r) = s.rid /\ Calling(r)' = 0 /\ Taken(r)' = 0
    BY <1>1, <1>2, <1>7 DEF Finishes, Calling, Taken, InCall, At, RequesterOk, Waits, Good, Sound, s, u
  <2> QED BY <1>2, <1>4, <1>5, <2>4, <2>6, <2>7, SeenReturn DEF Seen
<1>8. CASE Takes(s, u)
  <2>1. RequesterRid(thr[r])'
    BY <1>1, <1>2, <1>3, <1>4, <1>8 DEF Takes, RequesterRid, Headered, Waits, RequesterOk, s, u
  <2>2. RidThread(r)'
    BY <1>1, <2>1 DEF RidThread
  <2>3. KeepsRequest(r)
    BY <1>1, <1>4, <1>8 DEF Takes, KeepsRequest, Busy, s, u
  <2>4. RidOk'
    BY <1>1, <1>2, <2>2, <2>3, RidQuiet
  <2>5. \A n : Sends(r, n)' <=> Sends(r, n)
    BY <1>1, <1>8 DEF Takes, Sends, Underway, s, u
  <2>6. \A n : Stage(n)' = Stage(n)
    BY <1>1, <1>2, <2>5, QuietStages
  <2>7. Calling(r) = s.rid /\ Calling(r)' = s.rid /\ Taken(r) = 0
    BY <1>1, <1>2, <1>8 DEF Takes, Calling, Taken, InCall, At, RequesterOk, Waits, Good, Sound, s, u
  <2>8. /\ s.tkt \in Tickets /\ Role(r, s.tkt) = "wait" /\ tk[s.tkt].answered /\ tk[s.tkt].rid = s.rid
        /\ tk[s.tkt].op = "REQ"
    BY <1>1, <1>4, <1>8 DEF Takes, Role, RequesterOk, RequesterRid, Headered, Waits, s
  <2>9. tk[s.tkt].orid = s.rid /\ s.tkt \notin pool.gone
    BY <1>1, <2>8, AnsweredFacts DEF Good, Sound, Unused
  <2>10. Taken(r)' = s.rid
    BY <1>2, <1>3, <1>8, <2>8, <2>9 DEF Takes, Taken, At, u, Good, Sound
  <2>11. Stage(s.rid) = "answered"
    <3>1. IsAnswered(s.rid)
      BY <2>8, <2>9 DEF IsAnswered, Keeps, Carries
    <3> QED BY <1>1, <1>4, <3>1 DEF Stage, Good, Sound
  <2> QED BY <1>2, <1>4, <1>5, <2>4, <2>6, <2>7, <2>10, <2>11, SeenTake DEF Seen
<1> QED BY <1>2, <1>6, <1>7, <1>8


-----------------------------------------------------------------------------
(* Steps with one ticket *)

\* Ticket v has the same signs of every message as before.
Untouched(v) ==
    /\ SameMessage(v) /\ (v \in pool'.gone <=> v \in pool.gone)
    /\ v \in ToSet(ms_head)' <=> v \in ToSet(ms_head)

\* What thread x shows of message n, but for ticket t, is what it showed.
SameShown(x, t, n) ==
    /\ x \in Writers => (Writes(x, n)' <=> Writes(x, n))
    /\ x \in Readers => \A v \in Tickets \ {t} : Reads(x, v)' <=> Reads(x, v)
    /\ x \in Requesters => (Sends(x, n)' <=> Sends(x, n))

\* A step of thread x with ticket t: the stage of message n, if t shows the same of it.
LEMMA StageKept ==
    ASSUME Good, dead' = dead, NEW n, n > nreq' <=> n > nreq, NEW x \in Threads, NEW t \in Tickets,
           \A z \in Threads \ {x} : Woke(z), \A v \in Tickets \ {t} : Untouched(v),
           SameShown(x, t, n),
           Keeps(t, n)' <=> Keeps(t, n),
           (Carries(t, n) /\ Pending(t))' <=> (Carries(t, n) /\ Pending(t)),
           IsDelivered(n)' <=> IsDelivered(n)
    PROVE  Stage(n)' = Stage(n)
<1>1. \A w \in Writers : Writes(w, n)' <=> Writes(w, n)
  BY WokeSeen DEF Threads, Good, Sound, SameShown
<1>2. \A d \in Readers, v \in Tickets \ {t} : Reads(d, v)' <=> Reads(d, v)
  BY WokeSeen DEF Threads, Good, Sound, SameShown
<1>3. \A r \in Requesters : Sends(r, n)' <=> Sends(r, n)
  BY WokeSeen DEF Threads, Good, Sound, SameShown
<1>4. \A v \in Tickets \ {t} : Carries(v, n)' <=> Carries(v, n)
  BY DEF Carries, Untouched, SameMessage
<1>5. \A v \in Tickets : Keeps(v, n)' <=> Keeps(v, n)
  BY <1>4 DEF Keeps, Untouched, SameMessage
<1>6. \A v \in Tickets \ {t} : Pending(v)' <=> Pending(v)
  BY <1>2 DEF Pending, Untouched
<1>7. \A v \in Tickets : (Carries(v, n) /\ Pending(v))' <=> (Carries(v, n) /\ Pending(v))
  BY <1>4, <1>6
<1>8. SameSigns(n)
  BY <1>1, <1>3, <1>5, <1>7 DEF SameSigns
<1> QED BY <1>8, SameStage

\* A message that no ticket carries is on its way to the queue, or over.
LEMMA Uncarried ==
    Good => \A n \in 1 .. MaxReqs : (\A t \in Tickets : ~Carries(t, n)) =>
                ~IsAnswered(n) /\ ~IsDelivered(n) /\ ~IsQueued(n)
<1> SUFFICES ASSUME Good, NEW n \in 1 .. MaxReqs, \A t \in Tickets : ~Carries(t, n)
             PROVE  ~IsAnswered(n) /\ ~IsDelivered(n) /\ ~IsQueued(n)
  OBVIOUS
<1>1. ~IsAnswered(n)
  BY WritesIs DEF IsAnswered, Keeps
<1>2. ~IsDelivered(n)
  BY DeliveredIs DEF IsDelivered
<1>3. ~IsQueued(n)
  BY DEF IsQueued
<1> QED BY <1>1, <1>2, <1>3

\* ... also after a step.
LEMMA UncarriedNext ==
    Good' => \A n \in 1 .. MaxReqs : (\A t \in Tickets : ~Carries(t, n)') =>
                ~IsAnswered(n)' /\ ~IsDelivered(n)' /\ ~IsQueued(n)'
<1>1. (Good => \A n \in 1 .. MaxReqs : (\A t \in Tickets : ~Carries(t, n)) =>
                ~IsAnswered(n) /\ ~IsDelivered(n) /\ ~IsQueued(n))'
  BY Uncarried, PTL
<1> QED BY <1>1

\* A ticket that one thread has alone: only what that thread shows counts.
LEMMA AloneNotPending ==
    ASSUME Good, NEW x \in Threads, NEW t \in Tickets, Role(x, t) \in {"alone", "send", "answer"}
    PROVE  ~Pending(t) /\ t \notin pool.gone
<1>1. t \notin pool.gone
  BY NotGone DEF Good, Sound
<1>2. ~Pending(t)
  BY PendingIs
<1> QED BY <1>1, <1>2

\* A caller that goes on, and has no answer in hand.
LEMMA CallerGoesOn ==
    ASSUME NEW r, dead' = dead, thr'[r].rid = thr[r].rid, InCall(thr'[r]) <=> InCall(thr[r]),
           thr[r].pc # "use", thr'[r].pc # "use"
    PROVE  SameCaller(r)
BY DEF SameCaller, Calling, Taken, At

\* A thread that is no requester takes a step with ticket t.
LEMMA AllCallers ==
    ASSUME Good, dead' = dead, NEW x \in Threads \ Requesters, NEW t \in Tickets,
           \A z \in Threads \ {x} : Woke(z), \A v \in Tickets \ {t} : SameMessage(v),
           tk'[t].orid = tk[t].orid \/ Role(x, t) # "none"
    PROVE  \A r \in Requesters : SameCaller(r)
BY OtherCallers

LEMMA InsertCallbackSeen ==
    ASSUME Good, Sound', NEW r \in Requesters, InsertCallback(r)
    PROVE  Seen
<1> DEFINE s == thr[r]
           u == thr'[r]
<1>1. /\ r \in Threads /\ RequesterOk(s) /\ RequesterRid(s) /\ nreq \in Nat /\ nreq <= MaxReqs
      /\ r \notin Readers /\ r \notin Writers /\ r \notin Admins /\ NoTicket \notin Tickets
      /\ s.tkt \in Tickets \cup {NoTicket}
  BY AliveFacts
<1>2. thr \in [Threads -> ThreadState] /\ s \in ThreadState /\ tk \in [Tickets -> TicketState]
  BY AliveRequester DEF Good, Sound
<1>3. s.pc = "cbins"
  BY DEF InsertCallback, At
<1>4. PICK t \in Tickets : t = s.tkt
  BY <1>1, <1>3 DEF RequesterOk
<1>5. thr' = [thr EXCEPT ![r] = [s EXCEPT !.pc = "message"]]
  BY <1>2 DEF InsertCallback
<1>6. u = [s EXCEPT !.pc = "message"] /\ \A z \in Threads \ {r} : Woke(z)
  BY <1>1, <1>2, <1>5, OneStep
<1>7. u.pc = "message" /\ u.rid = s.rid /\ u.op = s.op /\ u.saved = s.saved /\ u.tkt = s.tkt
  BY <1>2, <1>6 DEF ThreadState
<1>8. /\ dead' = dead /\ nreq' = nreq /\ inbox' = inbox /\ pool' = pool /\ ms_head' = ms_head /\ tk' = tk
      /\ aw_head' = Append(aw_head, t)
  BY <1>4 DEF InsertCallback, sess, env
<1>9. ToSet(aw_head)' = ToSet(aw_head) \cup {t}
  BY <1>8, ListEnds DEF Good, Sound, TypeInv, TypeOK, AliveOk
<1>10. \A v \in Tickets \ {t} : Untouched(v)
  BY <1>8, <1>9 DEF Untouched, SameMessage
<1>11. tk[t].rid = s.rid /\ tk[t].op = s.op /\ tk[t].orid = 0 /\ s.rid \in 1 .. nreq
  BY <1>1, <1>3, <1>4 DEF RequesterOk, RequesterRid, Headered
<1> HIDE DEF s, u
<1>12. RidOk'
  <2>1. RequesterRid(thr[r])'
    BY <1>1, <1>3, <1>7, <1>8 DEF RequesterRid, Headered, s, u
  <2>2. TicketRid(t)'
    <3>1. TicketRid(t)
      BY DEF Good, RidOk
    <3> QED BY <1>8, <1>11, <3>1 DEF TicketRid
  <2>3. KeepsRequest(r)
    BY <1>3, <1>7 DEF KeepsRequest, Busy, s, u
  <2>4. RidThread(r)'
    BY <1>1, <2>1 DEF RidThread
  <2>5. \A z \in Threads \ {r} : Woke(z) /\ MessageFor(z, t)
    BY <1>6, <1>8 DEF MessageFor
  <2>6. \A v \in Tickets \ {t} : SameMessage(v)
    BY <1>10 DEF Untouched
  <2> QED BY <1>1, <1>8, <2>2, <2>3, <2>4, <2>5, <2>6, RidStep
<1>13. \A n : Stage(n)' = Stage(n)
  <2> SUFFICES ASSUME NEW n PROVE Stage(n)' = Stage(n)
    OBVIOUS
  <2>1. SameShown(r, t, n)
    BY <1>1, <1>3, <1>7 DEF SameShown, Sends, Underway, s, u
  <2>2. Keeps(t, n)' <=> Keeps(t, n)
    BY <1>8 DEF Keeps, Carries
  <2>3. Role(r, t) = "alone"
    BY <1>3, <1>4 DEF Role, s
  <2>4. ~Pending(t) /\ ~Pending(t)'
    <3>1. ~Pending(t)
      BY <1>1, <2>3, AloneNotPending
    <3>2. \A d \in Readers : Reads(d, t)' <=> Reads(d, t)
      BY <1>1, <1>6, WokeSeen DEF Threads, Good, Sound
    <3> QED BY <1>8, <3>1, <3>2 DEF Pending
  <2>5. IsDelivered(n)' <=> IsDelivered(n)
    BY <1>8 DEF IsDelivered
  <2> QED BY <1>1, <1>6, <1>8, <1>10, <2>1, <2>2, <2>4, <2>5, StageKept
<1>14. \A q \in Requesters : SameCaller(q)
  <2>1. SameCaller(r)
    BY <1>3, <1>7, <1>8, CallerGoesOn DEF InCall, s, u
  <2>2. \A q \in Requesters \ {r} : SameCaller(q)
    BY <1>1, <1>6, <1>8, <1>10, OtherCallers DEF Untouched
  <2> QED BY <2>1, <2>2
<1> QED BY <1>8, <1>12, <1>13, <1>14, SeenNothing DEF Seen

-----------------------------------------------------------------------------
(* Messages begin *)

\* A message that only its requester shows, after a step.
LEMMA NowMade ==
    ASSUME Good', ~dead', NEW r \in Requesters, NEW n \in 1 .. MaxReqs, Sends(r, n)'
    PROVE  Stage(n)' = "made"
<1>1. IsMade(n)'
  BY DEF IsMade, Sends
<1>2. Apart(n)'
  BY StagesApartNext
<1>3. nreq' \in 0 .. MaxReqs
  BY DEF Good, Sound, TypeInv, TypeOK, Rids
<1> QED BY <1>1, <1>2, <1>3 DEF Stage, Apart

LEMMA StartedSeen ==
    ASSUME Good, Sound', NEW r \in Requesters, NEW o \in {"INIT", "REQ", "FORGET", "RELEASE"}, Started(r, o)
    PROVE  Seen
<1> DEFINE s == thr[r]
           u == thr'[r]
<1>0. PICK n : n = nreq + 1
  OBVIOUS
<1>1. /\ r \in Threads /\ RequesterOk(s) /\ nreq \in Nat /\ nreq <= MaxReqs
      /\ r \notin Readers /\ r \notin Writers /\ r \notin Admins /\ NoTicket \notin Tickets
      /\ s.tkt \in Tickets \cup {NoTicket}
  BY AliveFacts
<1>2. thr \in [Threads -> ThreadState] /\ s \in ThreadState /\ tk \in [Tickets -> TicketState]
  BY AliveRequester DEF Good, Sound
<1>3. s.pc = "idle" /\ s.saved = NoTicket /\ s.tkt = NoTicket
  BY <1>1 DEF Started, At, RequesterOk
<1>4. thr' = [thr EXCEPT ![r] = [s EXCEPT !.pc = "fetch", !.op = o, !.rid = n]]
  BY <1>0, <1>2 DEF Started
<1>5. u = [s EXCEPT !.pc = "fetch", !.op = o, !.rid = n] /\ \A z \in Threads \ {r} : Woke(z)
  BY <1>1, <1>2, <1>4, OneStep
<1>6. u.pc = "fetch" /\ u.rid = n /\ u.op = o /\ u.saved = NoTicket /\ u.tkt = NoTicket
  BY <1>2, <1>3, <1>5 DEF ThreadState
<1>7. /\ dead' = dead /\ nreq' = n /\ inbox' = inbox /\ pool' = pool /\ ms_head' = ms_head /\ tk' = tk
      /\ aw_head' = aw_head /\ n \in 1 .. MaxReqs /\ n > nreq
  BY <1>0, <1>1 DEF Started, sess, queues
<1>8. \A v \in Tickets : Untouched(v)
  BY <1>7 DEF Untouched, SameMessage
<1>9. 0 \in Tickets
  BY StateFacts DEF Good, Sound
<1> HIDE DEF s, u
<1>10. \A q \in Requesters \ {r} : KeepsRequest(q)
  BY <1>5, WokeKeeps DEF Threads, Good, Sound
<1>11. \A t \in Tickets : tk[t].rid <= nreq /\ tk[t].rid \in Nat
  BY <1>2 DEF Good, RidOk, TicketRid, TicketState, Rids
<1>12. NoneCarried
  BY <1>7 DEF NoneCarried, Carries
<1>13. \A q \in Requesters : Busy(q) => thr[q].rid \in 1 .. nreq /\ q \in Threads
  BY DEF Good, RidOk, RidThread, RequesterRid, Busy, Threads
<1>14. OneRequester'
  <2>1. \A q \in Requesters \ {r} : Busy(q)' => thr'[q].rid = thr[q].rid /\ Busy(q) /\ thr'[q].rid # n
    BY <1>1, <1>7, <1>10, <1>13 DEF KeepsRequest
  <2> QED BY <1>6, <2>1 DEF Good, RidOk, OneRequester, u
<1>15. OneTicket'
  BY <1>12 DEF Good, RidOk, OneTicket, NoneCarried
<1>16. OwnTicket'
  <2> SUFFICES ASSUME NEW q \in Requesters, NEW t \in Tickets, Busy(q)', Carries(t, thr[q].rid)'
               PROVE  t \in {thr'[q].tkt, thr'[q].saved}
    BY DEF OwnTicket
  <2>1. q # r
    BY <1>1, <1>6, <1>7, <1>11 DEF Carries, u
  <2>2. Busy(q) /\ thr'[q].rid = thr[q].rid
    BY <1>10, <2>1 DEF KeepsRequest
  <2>3. Carries(t, thr[q].rid)
    BY <1>7, <2>2 DEF Carries
  <2>4. t \in {thr[q].tkt, thr[q].saved}
    BY <2>2, <2>3 DEF Good, RidOk, OwnTicket
  <2> QED BY <1>10, <2>1, <2>2, <2>3, <2>4 DEF KeepsRequest
<1>17. RidOk'
  <2>1. RequesterRid(thr[r])'
    BY <1>1, <1>6, <1>7 DEF RequesterRid, Headered, Waits, u
  <2>2. RidThread(r)'
    BY <1>1, <2>1 DEF RidThread
  <2>3. TicketRid(0)'
    <3>1. TicketRid(0)
      BY <1>9 DEF Good, RidOk
    <3> QED BY <1>1, <1>7, <1>9, <1>11, <3>1 DEF TicketRid
  <2>4. \A z \in Threads \ {r} : Woke(z) /\ MessageFor(z, 0)
    BY <1>5, <1>7 DEF MessageFor
  <2>5. \A v \in Tickets : SameMessage(v)
    BY <1>8 DEF Untouched
  <2>6. nreq' \in Nat /\ nreq <= nreq'
    BY <1>1, <1>7
  <2>7. (\A z \in Threads : RidThread(z)') /\ (\A v \in Tickets : TicketRid(v)')
    BY <1>1, <1>9, <2>2, <2>3, <2>4, <2>5, <2>6, RidParts
  <2> QED BY <1>14, <1>15, <1>16, <2>7 DEF RidOk
<1>18. Passes(n, "none", "made")
  <2>1. Stage(n) = "none"
    BY <1>1, <1>7 DEF Stage, Good, Sound
  <2>2. Stage(n)' = "made"
    <3>1. Sends(r, n)'
      BY <1>6 DEF Sends, Underway, u
    <3>2. Good' /\ ~dead'
      BY <1>17 DEF Good, Sound
    <3> QED BY <1>7, <3>1, <3>2, NowMade
  <2>3. ASSUME NEW m \in (1 .. MaxReqs) \ {n} PROVE Stage(m)' = Stage(m)
    <3>1. SameShown(r, 0, m)
      BY <1>1, <1>3, <1>6, <2>3 DEF SameShown, Sends, Underway, s, u
    <3>2. Keeps(0, m)' <=> Keeps(0, m)
      BY <1>7 DEF Keeps, Carries
    <3>3. \A d \in Readers : Reads(d, 0)' <=> Reads(d, 0)
      BY <1>1, <1>5, WokeSeen DEF Threads, Good, Sound
    <3>4. (Carries(0, m) /\ Pending(0))' <=> (Carries(0, m) /\ Pending(0))
      BY <1>7, <3>3 DEF Carries, Pending
    <3>5. IsDelivered(m)' <=> IsDelivered(m)
      BY <1>7 DEF IsDelivered
    <3>6. m > nreq' <=> m > nreq
      BY <1>0, <1>1, <1>7, <2>3
    <3> QED BY <1>1, <1>5, <1>7, <1>8, <1>9, <3>1, <3>2, <3>4, <3>5, <3>6, StageKept
  <2> QED BY <2>1, <2>2, <2>3 DEF Passes
<1>19. \A q \in Requesters \ {r} : SameCaller(q)
  BY <1>1, <1>5, <1>7, <1>8, <1>9, OtherCallers DEF Untouched
<1>20. Calling(r) = 0 /\ Taken(r) = 0 /\ Taken(r)' = 0
  BY <1>3, <1>6 DEF Calling, Taken, InCall, At, s, u
<1>21. Service!ANext
  <2>1. CASE o = "REQ"
    <3>1. Calling(r)' = n
      BY <1>6, <1>7, <2>1 DEF Calling, InCall, u, Good, Sound
    <3> QED BY <1>7, <1>18, <1>19, <1>20, <3>1, SeenCall
  <2>2. CASE o # "REQ"
    <3>1. Calling(r)' = 0
      BY <1>6, <1>7, <2>2 DEF Calling, InCall, u
    <3>2. \A q \in Requesters : SameCaller(q)
      BY <1>19, <1>20, <3>1 DEF SameCaller
    <3> QED BY <1>7, <1>18, <3>2, SeenMessage
  <2> QED BY <2>1, <2>2
<1> QED BY <1>17, <1>21 DEF Seen

\* The header of a message is written in a fresh ticket, and its requester goes
\* on with the message or leaves it.
LEMMA HeadedRid ==
    ASSUME Good, NEW r \in Requesters, NEW t \in Tickets, t = thr[r].tkt, thr[r].pc = "made",
           \A z \in Threads \ {r} : Woke(z), \A v \in Tickets \ {t} : tk'[v] = tk[v],
           tk'[t].rid = thr[r].rid, tk'[t].op = thr[r].op, thr[r].op \in OneWay => tk'[t].invalid,
           UNCHANGED <<nreq, ms_head, aw_head>>, pool'.gone = pool.gone, RidThread(r)',
           Busy(r)' => /\ thr'[r].rid = thr[r].rid /\ thr'[r].tkt = thr[r].tkt
                       /\ thr'[r].saved = thr[r].saved
    PROVE  RidOk'
<1> DEFINE s == thr[r]
<1>1. /\ r \in Threads /\ RequesterOk(s) /\ RequesterRid(s) /\ nreq \in Nat /\ nreq <= MaxReqs
      /\ NoTicket \notin Tickets
  BY AliveFacts
<1>2. s.rid \in 1 .. nreq
  BY <1>1 DEF RequesterRid
<1>3. tk[t].rid = 0
  <2>1. tk[t] = Refresh(tk[t])
    BY <1>1 DEF RequesterOk, Clean
  <2>2. Refresh(tk[t]).rid = 0
    BY DEF Refresh, NewTicket
  <2> QED BY <2>1, <2>2
<1>4. Role(r, t) = "alone"
  BY DEF Role
<1>5. /\ t \notin ToSet(ms_head) /\ t \notin ToSet(aw_head)
      /\ \A z \in Threads \ {r} : Role(z, t) = "none"
  BY <1>1, <1>4, AloneFacts DEF Good, Sound
<1>6. \A v \in Tickets \ {t} : SameMessage(v)
  BY DEF SameMessage
<1> HIDE DEF s
<1>7. \A q \in Requesters \ {r} : KeepsRequest(q)
  BY WokeKeeps DEF Threads, Good, Sound
<1>8. \A q \in Requesters : Busy(q)' => thr'[q].rid = thr[q].rid /\ Busy(q)
  BY <1>7 DEF KeepsRequest, Busy
<1>9. OneRequester'
  BY <1>8 DEF Good, RidOk, OneRequester
<1>10. \A v \in Tickets, n \in 1 .. MaxReqs :
          Carries(v, n)' => Carries(v, n) \/ (v = t /\ n = s.rid /\ s.op # "INTERRUPT")
  BY DEF Carries, s
<1>11. \A v \in Tickets \ {t} : s.op # "INTERRUPT" => ~Carries(v, s.rid)
  <2>1. s.op # "INTERRUPT" => s.saved = NoTicket
    BY <1>1 DEF RequesterOk
  <2> QED BY <1>1, <2>1 DEF Good, RidOk, OwnTicket, Busy, s
<1>12. OneTicket'
  <2> SUFFICES ASSUME NEW v \in Tickets, NEW w \in Tickets, NEW n \in 1 .. MaxReqs,
                      Carries(v, n)', Carries(w, n)'
               PROVE  v = w
    BY DEF OneTicket
  <2>1. ~Carries(t, n)
    BY <1>3 DEF Carries
  <2> QED BY <1>10, <1>11, <2>1 DEF Good, RidOk, OneTicket
<1>13. OwnTicket'
  <2> SUFFICES ASSUME NEW q \in Requesters, NEW v \in Tickets, Busy(q)', Carries(v, thr[q].rid)'
               PROVE  v \in {thr'[q].tkt, thr'[q].saved}
    BY DEF OwnTicket
  <2>1. Busy(q) /\ thr'[q].rid = thr[q].rid /\ q \in Threads
    BY <1>8 DEF Threads
  <2>2. thr[q].rid \in 1 .. nreq
    BY <2>1 DEF Good, RidOk, RidThread, RequesterRid, Busy
  <2>3. thr[q].rid \in 1 .. MaxReqs
    BY <1>1, <2>2
  <2>4. Carries(v, thr[q].rid) \/ (v = t /\ thr[q].rid = s.rid)
    BY <1>10, <2>1, <2>3
  <2>5. CASE q = r
    <3>1. v \in {s.tkt, s.saved}
      BY <2>1, <2>4, <2>5 DEF Good, RidOk, OwnTicket, s
    <3> QED BY <2>5, <3>1 DEF s
  <2>6. CASE q # r
    <3>1. Busy(r)
      BY DEF Busy
    <3>2. thr[q].rid # s.rid
      BY <2>1, <2>6, <3>1 DEF Good, RidOk, OneRequester, s
    <3>3. Carries(v, thr[q].rid) /\ v \in {thr[q].tkt, thr[q].saved}
      BY <2>1, <2>4, <3>2 DEF Good, RidOk, OwnTicket
    <3> QED BY <1>7, <2>1, <2>6, <3>3 DEF KeepsRequest
  <2> QED BY <2>5, <2>6
<1>14. TicketRid(t)'
  BY <1>1, <1>2, <1>5 DEF TicketRid, s
<1>15. \A z \in Threads \ {r} : Woke(z) /\ MessageFor(z, t)
  BY <1>5 DEF MessageFor
<1>16. (\A z \in Threads : RidThread(z)') /\ (\A v \in Tickets : TicketRid(v)')
  BY <1>1, <1>6, <1>14, <1>15, RidParts
<1> QED BY <1>9, <1>12, <1>13, <1>16 DEF RidOk

\* fuse_dispatcher_make: the ticket gets the message.
LEMMA MakeSeen ==
    ASSUME Good, Sound', NEW r \in Requesters, Make(r)
    PROVE  Seen
<1> DEFINE s == thr[r]
           u == thr'[r]
<1>1. /\ r \in Threads /\ RequesterOk(s) /\ RequesterRid(s) /\ nreq \in Nat /\ nreq <= MaxReqs
      /\ r \notin Readers /\ r \notin Writers /\ r \notin Admins /\ NoTicket \notin Tickets
      /\ s.tkt \in Tickets \cup {NoTicket}
  BY AliveFacts
<1>2. thr \in [Threads -> ThreadState] /\ s \in ThreadState /\ tk \in [Tickets -> TicketState]
  BY AliveRequester DEF Good, Sound
<1>3. s.pc = "made" /\ s.rid \in 1 .. nreq
  BY <1>1 DEF Make, At, RequesterRid
<1>4. PICK t \in Tickets : t = s.tkt
  BY <1>1, <1>3 DEF RequesterOk
<1>5. PICK l \in {"cbins", "message"} : thr' = [thr EXCEPT ![r] = [s EXCEPT !.pc = l]]
  BY <1>2 DEF Make
<1>6. u = [s EXCEPT !.pc = l] /\ \A z \in Threads \ {r} : Woke(z)
  BY <1>1, <1>2, <1>5, OneStep
<1>7. u.pc = l /\ u.rid = s.rid /\ u.op = s.op /\ u.saved = s.saved /\ u.tkt = s.tkt
  BY <1>2, <1>6 DEF ThreadState
<1>8. /\ dead' = dead /\ nreq' = nreq /\ inbox' = inbox /\ pool' = pool /\ ms_head' = ms_head
      /\ aw_head' = aw_head
  BY DEF Make, sess, env, queues
<1>9. /\ \A v \in Tickets \ {t} : tk'[v] = tk[v]
      /\ tk'[t].rid = s.rid /\ tk'[t].op = s.op /\ tk'[t].orid = tk[t].orid
      /\ s.op \in OneWay => tk'[t].invalid
  <2>1. PICK callback \in BOOLEAN : tk' = [tk EXCEPT ![t] = Headed(tk[t], s.op, s.rid, callback)]
    BY <1>2, <1>4 DEF Make
  <2>2. (\A v \in Tickets \ {t} : tk'[v] = tk[v]) /\ tk'[t] = Headed(tk[t], s.op, s.rid, callback)
        /\ tk[t] \in TicketState
    BY <1>2, <2>1
  <2>3. /\ Headed(tk[t], s.op, s.rid, callback).rid = s.rid /\ Headed(tk[t], s.op, s.rid, callback).op = s.op
        /\ Headed(tk[t], s.op, s.rid, callback).orid = tk[t].orid
        /\ Headed(tk[t], s.op, s.rid, callback).invalid = (tk[t].invalid \/ s.op \in OneWay)
    BY <2>2 DEF Headed, TicketState
  <2> QED BY <2>2, <2>3
<1>10. tk[t].rid = 0 /\ tk[t].orid = 0
  <2>1. tk[t] = Refresh(tk[t])
    BY <1>1, <1>3, <1>4 DEF RequesterOk, Clean
  <2>2. Refresh(tk[t]).rid = 0 /\ Refresh(tk[t]).orid = 0
    BY DEF Refresh, NewTicket
  <2> QED BY <2>1, <2>2
<1>11. Role(r, t) = "alone"
  BY <1>3, <1>4 DEF Role
<1>12. /\ t \notin ToSet(ms_head) /\ t \notin ToSet(aw_head)
       /\ \A z \in Threads \ {r} : Role(z, t) = "none"
  BY <1>1, <1>11, AloneFacts DEF Good, Sound
<1>13. \A v \in Tickets \ {t} : Untouched(v)
  BY <1>8, <1>9 DEF Untouched, SameMessage
<1> HIDE DEF s, u
<1>21. RidOk'
  <2>1. RequesterRid(thr[r])'
    <3>1. s.saved # NoTicket => s.saved \in Tickets \ {t} /\ tk[s.saved].op = "REQ"
      <4>1. s.saved \in Tickets \cup {NoTicket}
        BY <1>2 DEF ThreadState, s
      <4> QED BY <1>1, <1>3, <1>4, <4>1 DEF RequesterOk, RequesterRid
    <3>2. u.saved # NoTicket => tk'[u.saved].op = "REQ"
      BY <1>7, <1>9, <3>1
    <3> QED BY <1>3, <1>4, <1>7, <1>8, <1>9, <1>10, <3>2 DEF RequesterRid, u
  <2>2. RidThread(r)'
    BY <1>1, <2>1 DEF RidThread
  <2> QED BY <1>3, <1>4, <1>6, <1>7, <1>8, <1>9, <2>2, HeadedRid DEF s, u
<1>22. \A n \in 1 .. MaxReqs : Stage(n)' = Stage(n)
  <2> SUFFICES ASSUME NEW n \in 1 .. MaxReqs PROVE Stage(n)' = Stage(n)
    OBVIOUS
  <2>1. SameShown(r, t, n)
    BY <1>1, <1>3, <1>7 DEF SameShown, Sends, Underway, s, u
  <2>2. ~Keeps(t, n) /\ ~Keeps(t, n)'
    BY <1>9, <1>10 DEF Keeps
  <2>3. ~Pending(t) /\ ~Pending(t)'
    <3>1. ~Pending(t)
      BY <1>1, <1>11, AloneNotPending
    <3>2. \A d \in Readers : Reads(d, t)' <=> Reads(d, t)
      BY <1>1, <1>6, WokeSeen DEF Threads, Good, Sound
    <3> QED BY <1>8, <3>1, <3>2 DEF Pending
  <2>4. IsDelivered(n)' <=> IsDelivered(n)
    BY <1>8 DEF IsDelivered
  <2> QED BY <1>1, <1>6, <1>8, <1>13, <2>1, <2>2, <2>3, <2>4, StageKept
<1>23. \A q \in Requesters : SameCaller(q)
  <2>1. SameCaller(r)
    BY <1>3, <1>7, <1>8, CallerGoesOn DEF InCall, s, u
  <2>2. \A q \in Requesters \ {r} : SameCaller(q)
    BY <1>1, <1>6, <1>8, <1>9, <1>13, OtherCallers DEF Untouched
  <2> QED BY <2>1, <2>2
<1> QED BY <1>8, <1>21, <1>22, <1>23, SeenNothing DEF Seen

\* A message that nobody carries and nobody sends, after a step.
LEMMA NowOver ==
    ASSUME Good', NEW n \in 1 .. MaxReqs, n <= nreq', ~IsMade(n)', \A t \in Tickets : ~Carries(t, n)'
    PROVE  Stage(n)' = "over"
<1>1. ~IsAnswered(n)' /\ ~IsDelivered(n)' /\ ~IsQueued(n)'
  BY UncarriedNext
<1>2. nreq' \in 0 .. MaxReqs /\ ~dead'
  BY DEF Good, Sound, TypeInv, TypeOK, Rids
<1> QED BY <1>1, <1>2 DEF Stage

\* A message that its requester sends, before a step.
LEMMA WasMade ==
    ASSUME Good, NEW r \in Requesters, Underway(thr[r])
    PROVE  Stage(thr[r].rid) = "made"
<1>1. thr[r].rid \in 1 .. nreq /\ nreq \in Nat /\ nreq <= MaxReqs
  BY UnderwayIs, AliveFacts
<1>2. Apart(thr[r].rid) /\ ~dead
  BY <1>1, StagesApart DEF Good, Sound
<1>3. IsMade(thr[r].rid)
  BY DEF IsMade
<1> QED BY <1>1, <1>2, <1>3 DEF Stage, Apart

\* fuse_dispatcher_make_canfail fails: the call returns.
LEMMA MakeFailSeen ==
    ASSUME Good, Sound', NEW r \in Requesters, MakeFail(r)
    PROVE  Seen
<1> DEFINE s == thr[r]
           u == thr'[r]
<1>1. /\ r \in Threads /\ RequesterOk(s) /\ RequesterRid(s) /\ nreq \in Nat /\ nreq <= MaxReqs
      /\ r \notin Readers /\ r \notin Writers /\ r \notin Admins /\ NoTicket \notin Tickets
      /\ s.tkt \in Tickets \cup {NoTicket}
  BY AliveFacts
<1>2. thr \in [Threads -> ThreadState] /\ s \in ThreadState /\ tk \in [Tickets -> TicketState]
      /\ pool \in PoolState
  BY AliveRequester, StateFacts DEF Good, Sound
<1>3. s.pc = "made" /\ s.rid \in 1 .. nreq /\ s.op = "REQ"
  BY <1>1 DEF MakeFail, At, RequesterRid
<1>4. PICK t \in Tickets : t = s.tkt
  BY <1>1, <1>3 DEF RequesterOk
<1>5. thr' = [thr EXCEPT ![r] = IdleThread]
  BY DEF MakeFail
<1>6. u = IdleThread /\ \A z \in Threads \ {r} : Woke(z)
  BY <1>1, <1>2, <1>5, OneStep
<1>7. u.pc = "idle"
  BY <1>6 DEF IdleThread
<1>8. /\ dead' = dead /\ nreq' = nreq /\ inbox' = inbox /\ ms_head' = ms_head /\ tk' = tk
      /\ aw_head' = aw_head /\ pool'.gone = pool.gone \cup {t}
  BY <1>2, <1>4 DEF MakeFail, Destroy, sess, env, queues, PoolState
<1>9. Role(r, t) = "alone" /\ Underway(s)
  BY <1>3, <1>4 DEF Role, Underway
<1>10. tk[t].rid = 0
  <2>1. tk[t] = Refresh(tk[t])
    BY <1>1, <1>3, <1>4 DEF RequesterOk, Clean
  <2>2. Refresh(tk[t]).rid = 0
    BY DEF Refresh, NewTicket
  <2> QED BY <2>1, <2>2
<1>11. \A v \in Tickets \ {t} : Untouched(v)
  BY <1>8 DEF Untouched, SameMessage
<1>12. \A v \in Tickets : ~Carries(v, s.rid)
  BY <1>3, <1>9, UnderwayIs
<1>13. PICK n : n = s.rid
  OBVIOUS
<1>14. Stage(n) = "made" /\ n \in 1 .. MaxReqs /\ n <= nreq
  BY <1>1, <1>3, <1>9, <1>13, WasMade
<1> HIDE DEF s, u
<1>15. RidOk'
  <2>1. RidThread(r)' /\ KeepsRequest(r)
    BY <1>1, <1>7 DEF RidThread, RequesterRid, KeepsRequest, Busy, u
  <2>2. \A v \in Tickets : SameMessage(v)
    BY <1>8 DEF SameMessage
  <2>3. pool.gone \subseteq pool'.gone
    BY <1>8
  <2> QED BY <1>1, <1>6, <1>8, <2>1, <2>2, <2>3, RidQuiet
<1>16. Stage(n)' = "over"
  <2>1. \A v \in Tickets : ~Carries(v, n)'
    BY <1>8, <1>12, <1>13 DEF Carries
  <2>2. ~IsMade(n)'
    <3> SUFFICES ASSUME NEW q \in Requesters, Sends(q, n)' PROVE FALSE
      BY DEF IsMade, Sends
    <3>1. q # r
      BY <1>7 DEF Sends, Underway, u
    <3>2. q \in Threads \ {r}
      BY <3>1 DEF Threads
    <3>3. Sends(q, n)
      BY <1>6, <3>2, WokeSeen DEF Good, Sound
    <3>4. Busy(q) /\ Busy(r) /\ thr[q].rid = thr[r].rid
      BY <1>3, <1>13, <3>3 DEF Sends, Underway, Busy, s
    <3> QED BY <3>1, <3>4 DEF Good, RidOk, OneRequester
  <2>3. Good'
    BY <1>15 DEF Good
  <2> QED BY <1>8, <1>14, <2>1, <2>2, <2>3, NowOver
<1>17. ASSUME NEW m \in (1 .. MaxReqs) \ {n} PROVE Stage(m)' = Stage(m)
  <2>1. SameShown(r, t, m)
    BY <1>1, <1>3, <1>7, <1>13 DEF SameShown, Sends, Underway, s, u
  <2>2. ~Carries(t, m) /\ ~Carries(t, m)'
    BY <1>8, <1>10 DEF Carries
  <2>3. IsDelivered(m)' <=> IsDelivered(m)
    BY <1>8 DEF IsDelivered
  <2> QED BY <1>1, <1>6, <1>8, <1>11, <2>1, <2>2, <2>3, StageKept DEF Keeps
<1>18. \A q \in Requesters \ {r} : SameCaller(q)
  BY <1>1, <1>6, <1>8, <1>11, OtherCallers DEF Untouched
<1>19. Calling(r) = n /\ Calling(r)' = 0 /\ Taken(r)' = 0
  BY <1>3, <1>7, <1>13 DEF Calling, Taken, InCall, At, s, u, Good, Sound
<1>20. Passes(n, "made", "over")
  BY <1>14, <1>16, <1>17 DEF Passes
<1> QED BY <1>8, <1>14, <1>15, <1>18, <1>19, <1>20, SeenFailed DEF Seen

\* fuse_dispatcher_make, and the caller cannot fill the message in: it returns.
LEMMA MakeGivenUpSeen ==
    ASSUME Good, Sound', NEW r \in Requesters, MakeDrop(r) \/ MakeLeak(r)
    PROVE  Seen
<1> DEFINE s == thr[r]
           u == thr'[r]
<1>1. /\ r \in Threads /\ RequesterOk(s) /\ RequesterRid(s) /\ nreq \in Nat /\ nreq <= MaxReqs
      /\ r \notin Readers /\ r \notin Writers /\ r \notin Admins /\ NoTicket \notin Tickets
      /\ s.tkt \in Tickets \cup {NoTicket}
  BY AliveFacts
<1>2. thr \in [Threads -> ThreadState] /\ s \in ThreadState /\ tk \in [Tickets -> TicketState]
      /\ pool \in PoolState
  BY AliveRequester, StateFacts DEF Good, Sound
<1>3. s.pc = "made" /\ s.rid \in 1 .. nreq /\ s.op = "REQ"
  BY <1>1 DEF MakeDrop, MakeLeak, At, RequesterRid
<1>4. PICK t \in Tickets : t = s.tkt
  BY <1>1, <1>3 DEF RequesterOk
<1>5. (\A z \in Threads \ {r} : Woke(z)) /\ u.pc \in {"drop", "idle"}
      /\ (u.pc = "drop" => u.rid = s.rid /\ u.tkt = s.tkt /\ u.saved = s.saved)
  <2>1. CASE MakeDrop(r)
    <3>1. thr' = [thr EXCEPT ![r] = [s EXCEPT !.pc = "drop", !.ret = "idle"]]
      BY <1>2, <2>1 DEF MakeDrop
    <3>2. u = [s EXCEPT !.pc = "drop", !.ret = "idle"] /\ \A z \in Threads \ {r} : Woke(z)
      BY <1>1, <1>2, <3>1, OneStep
    <3> QED BY <1>2, <3>2 DEF ThreadState
  <2>2. CASE MakeLeak(r)
    <3>1. thr' = [thr EXCEPT ![r] = IdleThread]
      BY <2>2 DEF MakeLeak
    <3>2. u = IdleThread /\ \A z \in Threads \ {r} : Woke(z)
      BY <1>1, <1>2, <3>1, OneStep
    <3> QED BY <3>2 DEF IdleThread
  <2> QED BY <2>1, <2>2
<1>6. /\ dead' = dead /\ nreq' = nreq /\ inbox' = inbox /\ ms_head' = ms_head
      /\ aw_head' = aw_head /\ pool'.gone = pool.gone
  BY <1>2 DEF MakeDrop, MakeLeak, Lose, sess, env, queues, PoolState
<1>7. /\ \A v \in Tickets \ {t} : tk'[v] = tk[v]
      /\ tk'[t].rid = s.rid /\ tk'[t].op = s.op /\ tk'[t].orid = tk[t].orid
  <2>1. tk' = [tk EXCEPT ![t] = Headed(tk[t], s.op, s.rid, FALSE)]
    BY <1>2, <1>4 DEF MakeDrop, MakeLeak
  <2>2. (\A v \in Tickets \ {t} : tk'[v] = tk[v]) /\ tk'[t] = Headed(tk[t], s.op, s.rid, FALSE)
        /\ tk[t] \in TicketState
    BY <1>2, <2>1
  <2>3. /\ Headed(tk[t], s.op, s.rid, FALSE).rid = s.rid /\ Headed(tk[t], s.op, s.rid, FALSE).op = s.op
        /\ Headed(tk[t], s.op, s.rid, FALSE).orid = tk[t].orid
    BY <2>2 DEF Headed, TicketState
  <2> QED BY <2>2, <2>3
<1>8. tk[t].rid = 0 /\ tk[t].orid = 0
  <2>1. tk[t] = Refresh(tk[t])
    BY <1>1, <1>3, <1>4 DEF RequesterOk, Clean
  <2>2. Refresh(tk[t]).rid = 0 /\ Refresh(tk[t]).orid = 0
    BY DEF Refresh, NewTicket
  <2> QED BY <2>1, <2>2
<1>9. Role(r, t) = "alone" /\ Underway(s) /\ s.saved = NoTicket
  BY <1>1, <1>3, <1>4 DEF Role, Underway, RequesterOk
<1>10. \A v \in Tickets \ {t} : Untouched(v)
  BY <1>6, <1>7 DEF Untouched, SameMessage
<1>11. \A v \in Tickets : ~Carries(v, s.rid)
  BY <1>3, <1>9, UnderwayIs
<1>12. PICK n : n = s.rid
  OBVIOUS
<1>13. Stage(n) = "made" /\ n \in 1 .. MaxReqs /\ n <= nreq
  BY <1>1, <1>3, <1>9, <1>12, WasMade
<1> HIDE DEF s, u
<1>14. RidOk'
  <2>1. RequesterRid(thr[r])'
    BY <1>3, <1>5, <1>6, <1>9 DEF RequesterRid, Headered, Waits, u
  <2>2. RidThread(r)'
    BY <1>1, <2>1 DEF RidThread
  <2>3. Busy(r)' => thr'[r].rid = thr[r].rid /\ thr'[r].tkt = thr[r].tkt /\ thr'[r].saved = thr[r].saved
    BY <1>5 DEF Busy, s, u
  <2>4. thr[r].op \notin OneWay
    BY <1>3 DEF OneWay, s
  <2> QED BY <1>3, <1>4, <1>5, <1>6, <1>7, <2>2, <2>3, <2>4, HeadedRid DEF s
<1>15. ~Pending(t) /\ ~Pending(t)'
  <2>1. ~Pending(t)
    BY <1>1, <1>9, AloneNotPending
  <2>2. \A d \in Readers : Reads(d, t)' <=> Reads(d, t)
    BY <1>1, <1>5, WokeSeen DEF Threads, Good, Sound
  <2> QED BY <1>6, <2>1, <2>2 DEF Pending
<1>16. Stage(n)' = "over"
  <2>1. ~IsAnswered(n) /\ ~IsDelivered(n) /\ ~IsQueued(n)
    BY <1>11, <1>12, <1>13, Uncarried
  <2>2. \A v \in Tickets \ {t} : ~Carries(v, n)'
    BY <1>6, <1>7, <1>11, <1>12 DEF Carries
  <2>3. ~Keeps(t, n)'
    BY <1>7, <1>8, <1>13 DEF Keeps
  <2>4. \A w \in Writers : ~Writes(w, n)'
    BY <1>1, <1>5, <2>1, WokeSeen DEF Threads, Good, Sound, IsAnswered
  <2>5. ~IsAnswered(n)' /\ ~IsQueued(n)'
    BY <1>15, <2>2, <2>3, <2>4 DEF IsAnswered, IsQueued, Keeps
  <2>6. ~IsDelivered(n)'
    BY <1>6, <2>1 DEF IsDelivered
  <2>7. ~IsMade(n)'
    <3> SUFFICES ASSUME NEW q \in Requesters, Sends(q, n)' PROVE FALSE
      BY DEF IsMade, Sends
    <3>1. q # r
      BY <1>5 DEF Sends, Underway, u
    <3>2. q \in Threads \ {r}
      BY <3>1 DEF Threads
    <3>3. Sends(q, n)
      BY <1>5, <3>2, WokeSeen DEF Good, Sound
    <3>4. Busy(q) /\ Busy(r) /\ thr[q].rid = thr[r].rid
      BY <1>3, <1>12, <3>3 DEF Sends, Underway, Busy, s
    <3> QED BY <3>1, <3>4 DEF Good, RidOk, OneRequester
  <2>8. ~dead'
    BY DEF Sound
  <2> QED BY <1>1, <1>6, <1>13, <2>5, <2>6, <2>7, <2>8 DEF Stage
<1>17. ASSUME NEW m \in (1 .. MaxReqs) \ {n} PROVE Stage(m)' = Stage(m)
  <2>1. SameShown(r, t, m)
    BY <1>1, <1>3, <1>5, <1>12 DEF SameShown, Sends, Underway, s, u
  <2>2. ~Carries(t, m) /\ ~Carries(t, m)'
    BY <1>7, <1>8, <1>12 DEF Carries
  <2>3. IsDelivered(m)' <=> IsDelivered(m)
    BY <1>6 DEF IsDelivered
  <2> QED BY <1>1, <1>5, <1>6, <1>10, <2>1, <2>2, <2>3, StageKept DEF Keeps
<1>18. \A q \in Requesters \ {r} : SameCaller(q)
  BY <1>1, <1>5, <1>6, <1>7, <1>10, OtherCallers DEF Untouched
<1>19. Calling(r) = n /\ Calling(r)' = 0 /\ Taken(r)' = 0
  BY <1>3, <1>5, <1>12 DEF Calling, Taken, InCall, At, s, u, Good, Sound
<1>20. Passes(n, "made", "over")
  BY <1>13, <1>16, <1>17 DEF Passes
<1> QED BY <1>6, <1>13, <1>14, <1>18, <1>19, <1>20, SeenFailed DEF Seen

\* The next request on the ticket of one whose answer has been used.
LEMMA RemakeSeen ==
    ASSUME Good, Sound', NEW r \in Requesters, Remake(r)
    PROVE  Seen
<1> DEFINE s == thr[r]
           u == thr'[r]
<1>1. /\ r \in Threads /\ RequesterOk(s) /\ RequesterRid(s) /\ nreq \in Nat /\ nreq <= MaxReqs
      /\ r \notin Readers /\ r \notin Writers /\ r \notin Admins /\ NoTicket \notin Tickets
      /\ s.tkt \in Tickets \cup {NoTicket}
  BY AliveFacts
<1>2. thr \in [Threads -> ThreadState] /\ s \in ThreadState /\ tk \in [Tickets -> TicketState]
  BY AliveRequester DEF Good, Sound
<1>3. s.pc = "use" /\ s.rid \in 1 .. nreq
  BY <1>1 DEF Remake, At, RequesterRid
<1>4. PICK t \in Tickets : t = s.tkt
  BY <1>1, <1>3 DEF RequesterOk
<1>5. PICK n, k : n = nreq + 1 /\ k = s.rid
  OBVIOUS
<1>6. n \in 1 .. MaxReqs /\ k \in 1 .. MaxReqs /\ n # k /\ n > nreq /\ k <= nreq
  BY <1>1, <1>3, <1>5 DEF Remake
<1>7. thr' = [thr EXCEPT ![r] = [s EXCEPT !.pc = "made", !.rid = n]]
  BY <1>2, <1>5 DEF Remake
<1>8. u = [s EXCEPT !.pc = "made", !.rid = n] /\ \A z \in Threads \ {r} : Woke(z)
  BY <1>1, <1>2, <1>7, OneStep
<1>9. u.pc = "made" /\ u.rid = n /\ u.op = s.op /\ u.saved = s.saved /\ u.tkt = s.tkt
  BY <1>2, <1>8 DEF ThreadState
<1>10. /\ dead' = dead /\ nreq' = n /\ inbox' = inbox /\ pool' = pool /\ ms_head' = ms_head
       /\ aw_head' = aw_head
  BY <1>5 DEF Remake, sess, queues
<1>11. (\A v \in Tickets \ {t} : tk'[v] = tk[v]) /\ tk'[t].rid = 0 /\ tk'[t].orid = 0 /\ tk'[t].op = "none"
  <2>1. tk' = [tk EXCEPT ![t] = Refresh(tk[t])]
    BY <1>2, <1>4 DEF Remake
  <2>2. (\A v \in Tickets \ {t} : tk'[v] = tk[v]) /\ tk'[t] = Refresh(tk[t])
    BY <1>2, <2>1
  <2>3. Refresh(tk[t]).rid = 0 /\ Refresh(tk[t]).orid = 0 /\ Refresh(tk[t]).op = "none"
    BY DEF Refresh, NewTicket
  <2> QED BY <2>2, <2>3
<1>12. /\ tk[t].orid = k /\ tk[t].rid = k /\ t \notin ToSet(ms_head) /\ s.op = "REQ" /\ s.saved = NoTicket
       /\ \A z \in Threads \ {r} : Role(z, t) = "none"
  BY <1>3, <1>4, <1>5, UseAlone DEF Good, At
<1>13. t \notin ToSet(aw_head) /\ Role(r, t) = "wait"
  <2>1. Role(r, t) = "wait" /\ tk[t].answered
    BY <1>1, <1>3, <1>4 DEF Role, RequesterOk
  <2> QED BY <1>1, <2>1, AnsweredFacts DEF Good, Sound
<1>14. \A v \in Tickets \ {t} : Untouched(v)
  BY <1>10, <1>11 DEF Untouched, SameMessage
<1> HIDE DEF s, u
<1>15. \A q \in Requesters \ {r} : KeepsRequest(q)
  BY <1>8, WokeKeeps DEF Threads, Good, Sound
<1>16. \A v \in Tickets : tk[v].rid <= nreq /\ tk[v].rid \in Nat
  BY <1>2 DEF Good, RidOk, TicketRid, TicketState, Rids
<1>17. NoneCarried
  BY <1>10, <1>11 DEF NoneCarried, Carries
<1>18. \A q \in Requesters : Busy(q) => thr[q].rid \in 1 .. nreq /\ q \in Threads
  BY DEF Good, RidOk, RidThread, RequesterRid, Busy, Threads
<1>19. \A q \in Requesters \ {r} : Busy(q) => thr[q].rid # k
  BY <1>3, <1>5 DEF Good, RidOk, OneRequester, Busy, s
<1>20. OneRequester'
  <2>1. \A q \in Requesters \ {r} : Busy(q)' => thr'[q].rid = thr[q].rid /\ Busy(q) /\ thr'[q].rid # n
    BY <1>1, <1>6, <1>15, <1>18 DEF KeepsRequest
  <2> QED BY <1>9, <2>1 DEF Good, RidOk, OneRequester, u
<1>21. OneTicket'
  BY <1>17 DEF Good, RidOk, OneTicket, NoneCarried
<1>22. OwnTicket'
  <2> SUFFICES ASSUME NEW q \in Requesters, NEW v \in Tickets, Busy(q)', Carries(v, thr[q].rid)'
               PROVE  v \in {thr'[q].tkt, thr'[q].saved}
    BY DEF OwnTicket
  <2>1. q # r
    <3> SUFFICES ASSUME q = r PROVE FALSE
      OBVIOUS
    <3>1. tk'[v].rid = n
      BY <1>9 DEF Carries, u
    <3>2. tk'[v].rid <= nreq /\ tk'[v].rid \in Nat
      BY <1>1, <1>11, <1>16
    <3> QED BY <1>1, <1>6, <3>1, <3>2
  <2>2. Busy(q) /\ thr'[q].rid = thr[q].rid
    BY <1>15, <2>1 DEF KeepsRequest
  <2>3. thr[q].rid \in 1 .. MaxReqs
    BY <1>1, <1>18, <2>2
  <2>4. Carries(v, thr[q].rid)
    BY <1>17, <2>2, <2>3 DEF NoneCarried
  <2>5. v \in {thr[q].tkt, thr[q].saved}
    BY <2>2, <2>4 DEF Good, RidOk, OwnTicket
  <2> QED BY <1>15, <2>1, <2>2, <2>4, <2>5 DEF KeepsRequest
<1>23. RidOk'
  <2>1. RequesterRid(thr[r])'
    BY <1>1, <1>6, <1>9, <1>10, <1>12 DEF RequesterRid, Headered, Waits, u
  <2>2. RidThread(r)'
    BY <1>1, <2>1 DEF RidThread
  <2>3. nreq' \in Nat /\ nreq <= nreq'
    BY <1>1, <1>6, <1>10
  <2>4. TicketRid(t)'
    BY <1>10, <1>11, <1>12, <1>13, <2>3 DEF TicketRid, OneWay
  <2>5. \A z \in Threads \ {r} : Woke(z) /\ MessageFor(z, t)
    BY <1>8, <1>12 DEF MessageFor
  <2>6. \A v \in Tickets \ {t} : SameMessage(v)
    BY <1>14 DEF Untouched
  <2>7. (\A z \in Threads : RidThread(z)') /\ (\A v \in Tickets : TicketRid(v)')
    BY <1>1, <2>2, <2>3, <2>4, <2>5, <2>6, RidParts
  <2> QED BY <1>20, <1>21, <1>22, <2>7 DEF RidOk
<1>24. Good' /\ ~dead'
  BY <1>23 DEF Good, Sound
<1>25. Stage(n) = "none" /\ Stage(n)' = "made"
  <2>1. Stage(n) = "none"
    BY <1>6 DEF Stage, Good, Sound
  <2>2. Sends(r, n)'
    BY <1>9, <1>12 DEF Sends, Underway, u
  <2> QED BY <1>6, <1>24, <2>1, <2>2, NowMade
<1>26. Stage(k)' = "over"
  <2>1. \A v \in Tickets : ~Carries(v, k)'
    <3>1. \A v \in Tickets : Carries(v, k) => v = t
      BY <1>3, <1>4, <1>5, <1>12 DEF Good, RidOk, OwnTicket, Busy, s, NoTicket, Tickets
    <3> QED BY <1>6, <1>11, <1>17, <3>1 DEF NoneCarried, Carries
  <2>2. ~IsMade(k)'
    <3> SUFFICES ASSUME NEW q \in Requesters, Sends(q, k)' PROVE FALSE
      BY DEF IsMade, Sends
    <3>1. q # r
      BY <1>6, <1>9 DEF Sends, u
    <3>2. q \in Threads \ {r}
      BY <3>1 DEF Threads
    <3>3. Sends(q, k)
      BY <1>8, <3>2, WokeSeen DEF Good, Sound
    <3>4. Busy(q) /\ thr[q].rid = k
      BY <3>3 DEF Sends, Underway, Busy
    <3> QED BY <1>19, <3>1, <3>4
  <2>3. k <= nreq'
    BY <1>1, <1>6, <1>10
  <2> QED BY <1>6, <1>24, <2>1, <2>2, <2>3, NowOver
<1>27. ASSUME NEW m \in (1 .. MaxReqs) \ {n, k} PROVE Stage(m)' = Stage(m)
  <2>1. SameShown(r, t, m)
    BY <1>1, <1>5, <1>9, <1>27 DEF SameShown, Sends, Underway, s, u
  <2>2. ~Carries(t, m) /\ ~Carries(t, m)'
    BY <1>11, <1>12, <1>27 DEF Carries
  <2>3. IsDelivered(m)' <=> IsDelivered(m)
    BY <1>10 DEF IsDelivered
  <2>4. m > nreq' <=> m > nreq
    BY <1>1, <1>5, <1>10, <1>27
  <2> QED BY <1>1, <1>8, <1>10, <1>14, <2>1, <2>2, <2>3, <2>4, StageKept DEF Keeps
<1>28. \A q \in Requesters \ {r} : SameCaller(q)
  BY <1>1, <1>8, <1>10, <1>13, <1>14, OtherCallers DEF Untouched
<1>29. Calling(r) = k /\ Taken(r) # 0
  BY <1>3, <1>4, <1>5, <1>6, <1>12 DEF Calling, Taken, InCall, At, s, Good, Sound
<1>30. Calling(r)' = n /\ Taken(r)' = 0
  BY <1>9, <1>12, <1>24 DEF Calling, Taken, InCall, At, u
<1> QED BY <1>6, <1>10, <1>23, <1>25, <1>26, <1>27, <1>28, <1>29, <1>30, SeenCallAgain DEF Seen

-----------------------------------------------------------------------------
(* Messages are queued, read and delivered *)

\* What a step shows of a message, in the order of Stage.
LEMMA NowQueued ==
    ASSUME Good', NEW n \in 1 .. MaxReqs, IsQueued(n)'
    PROVE  Stage(n)' = "queued"
<1>1. Apart(n)'
  BY StagesApartNext
<1>2. nreq' \in 0 .. MaxReqs /\ ~dead'
  BY DEF Good, Sound, TypeInv, TypeOK, Rids
<1> QED BY <1>1, <1>2 DEF Stage, Apart

LEMMA WasQueued ==
    ASSUME Good, NEW n \in 1 .. MaxReqs, IsQueued(n)
    PROVE  Stage(n) = "queued" /\ ~IsAnswered(n) /\ ~IsDelivered(n) /\ ~IsMade(n) /\ n <= nreq
<1>1. Apart(n)
  BY StagesApart
<1>2. nreq \in 0 .. MaxReqs /\ ~dead
  BY DEF Good, Sound, TypeInv, TypeOK, Rids
<1> QED BY <1>1, <1>2 DEF Stage, Apart

LEMMA NowDelivered ==
    ASSUME Good', NEW n \in 1 .. MaxReqs, IsDelivered(n)'
    PROVE  Stage(n)' = "delivered"
<1>1. Apart(n)'
  BY StagesApartNext
<1>2. nreq' \in 0 .. MaxReqs /\ ~dead'
  BY DEF Good, Sound, TypeInv, TypeOK, Rids
<1> QED BY <1>1, <1>2 DEF Stage, Apart

LEMMA WasDelivered ==
    ASSUME Good, NEW n \in 1 .. MaxReqs, IsDelivered(n)
    PROVE  Stage(n) = "delivered"
<1>1. Apart(n)
  BY StagesApart
<1>2. nreq \in 0 .. MaxReqs /\ ~dead
  BY DEF Good, Sound, TypeInv, TypeOK, Rids
<1> QED BY <1>1, <1>2 DEF Stage, Apart

LEMMA NowAnswered ==
    ASSUME Good', NEW n \in 1 .. MaxReqs, IsAnswered(n)'
    PROVE  Stage(n)' = "answered"
<1>1. Apart(n)'
  BY StagesApartNext
<1>2. nreq' \in 0 .. MaxReqs /\ ~dead'
  BY DEF Good, Sound, TypeInv, TypeOK, Rids
<1> QED BY <1>1, <1>2 DEF Stage, Apart

LEMMA WasAnswered ==
    ASSUME Good, NEW n \in 1 .. MaxReqs, IsAnswered(n)
    PROVE  Stage(n) = "answered" /\ ~IsDelivered(n) /\ ~IsQueued(n) /\ ~IsMade(n) /\ n <= nreq
<1>1. Apart(n)
  BY StagesApart
<1>2. nreq \in 0 .. MaxReqs /\ ~dead
  BY DEF Good, Sound, TypeInv, TypeOK, Rids
<1> QED BY <1>1, <1>2 DEF Stage, Apart

\* fuse_insert_message puts the ticket on ms_head.
LEMMA InsertMessageSeen ==
    ASSUME Good, Sound', NEW r \in Requesters, InsertMessage(r)
    PROVE  Seen
<1> DEFINE s == thr[r]
           u == thr'[r]
<1>1. /\ r \in Threads /\ RequesterOk(s) /\ RequesterRid(s) /\ nreq \in Nat /\ nreq <= MaxReqs
      /\ r \notin Readers /\ r \notin Writers /\ r \notin Admins /\ NoTicket \notin Tickets
      /\ s.tkt \in Tickets \cup {NoTicket} /\ s.saved \in Tickets \cup {NoTicket}
  BY AliveFacts
<1>2. thr \in [Threads -> ThreadState] /\ s \in ThreadState /\ tk \in [Tickets -> TicketState]
  BY AliveRequester DEF Good, Sound
<1>3. s.pc = "msgins" /\ s.rid \in 1 .. nreq
  BY <1>1 DEF InsertMessage, At, RequesterRid
<1>4. PICK t \in Tickets : t = s.tkt
  BY <1>1, <1>3 DEF RequesterOk
<1>5. PICK n : n = s.rid
  OBVIOUS
<1>6. /\ dead' = dead /\ nreq' = nreq /\ inbox' = inbox /\ pool' = pool /\ tk' = tk /\ aw_head' = aw_head
      /\ ms_head' = Append(ms_head, t)
  BY <1>4 DEF InsertMessage, sess
<1>7. ToSet(ms_head)' = ToSet(ms_head) \cup {t}
  BY <1>6, ListEnds DEF Good, Sound, TypeInv, TypeOK, AliveOk
<1> DEFINE U == CASE s.op = "REQ" -> [s EXCEPT !.pc = "wait"]
                  [] s.op = "INTERRUPT" ->
                        [s EXCEPT !.pc = "waited", !.op = "REQ", !.tkt = s.saved, !.saved = NoTicket]
                  [] OTHER -> IdleThread
<1>8. u = U /\ \A z \in Threads \ {r} : Woke(z)
  <2> DEFINE f == [thr EXCEPT ![r] = U]
  <2>1. Sent(r) = f
    BY DEF Sent
  <2>2. f \in [Threads -> {f[z] : z \in Threads}] /\ f[r] = U /\ \A z \in Threads \ {r} : f[z] = thr[z]
    BY <1>1, <1>2
  <2>3. CASE thr' = f
    BY <2>2, <2>3 DEF Woke
  <2>4. ASSUME NEW d \in Readers, thr[d].pc = "rsleep", thr' = [f EXCEPT ![d].pc = "read"]
        PROVE  u = U /\ \A z \in Threads \ {r} : Woke(z)
    <3>1. d \in Threads /\ d # r
      BY <1>1 DEF Threads
    <3> HIDE DEF f, U
    <3>2. thr'[d] = [f[d] EXCEPT !.pc = "read"] /\ \A z \in Threads \ {d} : thr'[z] = f[z]
      BY <2>2, <2>4, <3>1
    <3> QED BY <1>1, <2>2, <2>4, <3>1, <3>2 DEF Woke
  <2> QED BY <2>1, <2>3, <2>4 DEF InsertMessage, WakeOneReader, At
<1>9. /\ s.op # "none"
      /\ s.op = "REQ" => /\ u.tkt = t /\ u.saved = s.saved /\ u.op = "REQ" /\ u.rid = n /\ u.pc = "wait"
      /\ s.op = "INTERRUPT" => /\ u.tkt = s.saved /\ u.saved = NoTicket
                               /\ u.op = "REQ" /\ u.rid = n /\ u.pc = "waited"
      /\ s.op \in {"INIT", "FORGET", "RELEASE"} => u.pc = "idle"
  <2>1. s.op # "none"
    BY <1>1, <1>3 DEF RequesterOk
  <2> QED BY <1>2, <1>4, <1>5, <1>8, <2>1 DEF ThreadState, IdleThread
<1> HIDE DEF U
<1>10. s.op \in {"REQ", "INTERRUPT", "INIT", "FORGET", "RELEASE"}
  BY <1>2, <1>9 DEF ThreadState, Ops, OneWay
<1>11. tk[t].rid = n /\ tk[t].op = s.op /\ tk[t].orid = 0 /\ n \in 1 .. nreq /\ n \in 1 .. MaxReqs
  BY <1>1, <1>3, <1>4, <1>5 DEF RequesterOk, RequesterRid, Headered
<1>12. Role(r, t) = "send"
  BY <1>3, <1>4 DEF Role
<1>13. ~Pending(t) /\ t \notin pool.gone
  BY <1>1, <1>12, AloneNotPending
<1>14. \A v \in Tickets \ {t} : Untouched(v)
  BY <1>6, <1>7 DEF Untouched, SameMessage
<1>15. s.saved # NoTicket <=> s.op = "INTERRUPT"
  BY <1>1 DEF RequesterOk
<1> HIDE DEF s, u
<1>16. RidOk'
  <2>1. RequesterRid(thr[r])'
    <3>1. CASE s.op = "REQ"
      BY <1>6, <1>9, <1>11, <1>15, <3>1 DEF RequesterRid, Headered, Waits, u
    <3>2. CASE s.op = "INTERRUPT"
      <4>1. tk[s.saved].op = "REQ"
        BY <1>1, <1>3, <1>15, <3>2 DEF RequesterRid
      <4> QED BY <1>6, <1>9, <1>11, <3>2, <4>1 DEF RequesterRid, Headered, Waits, u
    <3>3. CASE s.op \in {"INIT", "FORGET", "RELEASE"}
      BY <1>9, <3>3 DEF RequesterRid, u
    <3> QED BY <1>10, <3>1, <3>2, <3>3
  <2>2. TicketRid(t)'
    <3>1. TicketRid(t)
      BY DEF Good, RidOk
    <3> QED BY <1>1, <1>6, <1>11, <3>1 DEF TicketRid
  <2>3. KeepsRequest(r)
    <3>1. CASE s.op = "REQ"
      BY <1>3, <1>4, <1>5, <1>9, <1>15, <3>1 DEF KeepsRequest, Busy, s, u
    <3>2. CASE s.op = "INTERRUPT"
      <4>1. ~Carries(t, thr[r].rid)'
        BY <1>6, <1>11, <3>2 DEF Carries
      <4> QED BY <1>3, <1>4, <1>5, <1>9, <3>2, <4>1 DEF KeepsRequest, Busy, s, u
    <3>3. CASE s.op \in {"INIT", "FORGET", "RELEASE"}
      BY <1>9, <3>3 DEF KeepsRequest, Busy, u
    <3> QED BY <1>10, <3>1, <3>2, <3>3
  <2>4. RidThread(r)'
    BY <1>1, <2>1 DEF RidThread
  <2>5. \A z \in Threads \ {r} : Woke(z) /\ MessageFor(z, t)
    BY <1>6, <1>8 DEF MessageFor
  <2>6. \A v \in Tickets \ {t} : SameMessage(v)
    BY <1>14 DEF Untouched
  <2> QED BY <1>1, <1>6, <2>2, <2>3, <2>4, <2>5, <2>6, RidStep
<1>17. Good'
  BY <1>16 DEF Good
<1>18. ASSUME NEW m \in 1 .. MaxReqs, m # n \/ s.op = "INTERRUPT" PROVE Stage(m)' = Stage(m)
  <2>1. SameShown(r, t, m)
    <3>1. u.pc \in {"wait", "waited", "idle"}
      BY <1>9, <1>10
    <3> QED BY <1>1, <1>5, <1>18, <3>1 DEF SameShown, Sends, Underway, s, u
  <2>2. ~Carries(t, m) /\ ~Carries(t, m)'
    BY <1>6, <1>11, <1>18 DEF Carries
  <2>3. IsDelivered(m)' <=> IsDelivered(m)
    BY <1>6 DEF IsDelivered
  <2> QED BY <1>1, <1>6, <1>8, <1>14, <2>1, <2>2, <2>3, StageKept DEF Keeps
<1>19. \A q \in Requesters : SameCaller(q)
  <2>1. InCall(u) <=> InCall(s)
    BY <1>3, <1>9, <1>10 DEF InCall
  <2>2. SameCaller(r)
    BY <1>3, <1>5, <1>6, <1>9, <1>10, <2>1, CallerGoesOn DEF SameCaller, Calling, Taken, InCall, At, s, u
  <2>3. \A q \in Requesters \ {r} : SameCaller(q)
    BY <1>1, <1>6, <1>8, <1>14, OtherCallers DEF Untouched
  <2> QED BY <2>2, <2>3
<1>20. CASE s.op = "INTERRUPT"
  BY <1>6, <1>16, <1>18, <1>19, <1>20, SeenNothing DEF Seen
<1>21. CASE s.op # "INTERRUPT"
  <2>1. Underway(thr[r])
    BY <1>3, <1>21 DEF Underway, s
  <2>2. Stage(n) = "made"
    BY <1>5, <2>1, WasMade DEF s
  <2>3. IsQueued(n)'
    <3>1. Carries(t, n)' /\ t \in ToSet(ms_head)'
      BY <1>6, <1>7, <1>11, <1>13, <1>21 DEF Carries
    <3> QED BY <3>1 DEF IsQueued, Pending
  <2>4. Stage(n)' = "queued"
    BY <1>11, <1>17, <2>3, NowQueued
  <2>5. Passes(n, "made", "queued")
    BY <1>18, <2>2, <2>4 DEF Passes
  <2> QED BY <1>6, <1>11, <1>16, <1>19, <2>5, SeenMessage DEF Seen
<1> QED BY <1>20, <1>21

\* What is known of a daemon thread.
LEMMA DaemonFacts ==
    ASSUME Good, NEW x \in Readers \cup Writers
    PROVE  /\ x \in Threads /\ x \notin Requesters /\ (x \in Readers <=> x \notin Writers)
           /\ thr \in [Threads -> ThreadState] /\ thr[x] \in ThreadState
           /\ tk \in [Tickets -> TicketState] /\ NoTicket \notin Tickets
           /\ nreq \in Nat /\ nreq <= MaxReqs
           /\ x \in Readers => ReaderOk(thr[x]) /\ ReaderRid(thr[x])
           /\ x \in Writers => WriterOk(thr[x]) /\ WriterRid(thr[x])
           /\ thr[x].tkt \in Tickets \cup {NoTicket}
<1>1. /\ x \in Threads /\ x \notin Requesters
      /\ thr \in [Threads -> ThreadState] /\ thr[x] \in ThreadState
      /\ tk \in [Tickets -> TicketState] /\ NoTicket \notin Tickets
      /\ x \in Readers => ReaderOk(thr[x])
      /\ x \in Writers => WriterOk(thr[x])
      /\ thr[x].tkt \in Tickets \cup {NoTicket}
  BY AliveOther DEF Good, Sound
<1>2. RidThread(x)
  BY <1>1 DEF Good, RidOk
<1>3. nreq \in 0 .. MaxReqs
  BY DEF Good, Sound, TypeInv, TypeOK, Rids
<1> QED BY <1>1, <1>2, <1>3 DEF RidThread

\* A step that changes nothing but the place of a thread that is no requester.
LEMMA QuietSeen ==
    ASSUME Good, Sound', NEW x \in Threads \ Requesters, \A z \in Threads \ {x} : Woke(z),
           \A v \in Tickets : SameMessage(v), pool'.gone = pool.gone, ms_head' = ms_head,
           inbox' = inbox, nreq' = nreq, dead' = dead,
           x \in Readers => thr[x].pc # "got" /\ thr'[x].pc # "got",
           x \in Writers => thr[x].pc \notin {"found", "answer"} /\ thr'[x].pc \notin {"found", "answer"}
    PROVE  Seen
<1>1. RidThread(x)'
  BY DEF RidThread, ReaderRid, WriterRid
<1>2. RidOk'
  BY <1>1, RidQuiet
<1>3. \A n : Stage(n)' = Stage(n)
  <2> SUFFICES ASSUME NEW n PROVE Stage(n)' = Stage(n)
    OBVIOUS
  <2>1. x \in Writers => (Writes(x, n)' <=> Writes(x, n))
    BY DEF Writes
  <2>2. x \in Readers => \A t \in Tickets : Reads(x, t)' <=> Reads(x, t)
    BY DEF Reads, At
  <2> QED BY <2>1, <2>2, QuietStages
<1>4. \A r \in Requesters : SameCaller(r)
  <2>1. 0 \in Tickets
    BY StateFacts DEF Good, Sound
  <2>2. tk'[0].orid = tk[0].orid
    BY <2>1 DEF SameMessage
  <2> QED BY <2>1, <2>2, AllCallers
<1> QED BY <1>2, <1>3, <1>4, SeenNothing DEF Seen

LEMMA ReadQuietSeen ==
    ASSUME Good, Sound', NEW d \in Readers, ReadSleep(d) \/ ReadSignal(d)
    PROVE  Seen
<1>1. /\ d \in Threads \ Requesters /\ d \notin Writers
      /\ thr \in [Threads -> ThreadState] /\ thr[d] \in ThreadState
  BY DaemonFacts
<1>2. PICK l \in {"rsleep", "idle"} : thr' = [thr EXCEPT ![d] = [thr[d] EXCEPT !.pc = l]]
  BY <1>1 DEF ReadSleep, ReadSignal
<1>3. thr'[d] = [thr[d] EXCEPT !.pc = l] /\ \A z \in Threads \ {d} : Woke(z)
  BY <1>1, <1>2, OneStep
<1>4. thr'[d].pc = l /\ thr[d].pc # "got"
  BY <1>1, <1>3 DEF ThreadState, ReadSleep, ReadSignal, Reading, At
<1>5. UNCHANGED <<dead, nreq, inbox, pool, ms_head, aw_head, tk>>
  BY DEF ReadSleep, ReadSignal, sess, queues, env
<1>6. \A v \in Tickets : SameMessage(v)
  BY <1>5 DEF SameMessage
<1> QED BY <1>1, <1>3, <1>4, <1>5, <1>6, QuietSeen

\* fuse_device_read takes a ticket off ms_head: its message still waits.
LEMMA ReadPopSeen ==
    ASSUME Good, Sound', NEW d \in Readers, ReadPop(d)
    PROVE  Seen
<1> DEFINE s == thr[d]
           u == thr'[d]
<1>1. /\ d \in Threads /\ d \notin Requesters /\ d \notin Writers
      /\ thr \in [Threads -> ThreadState] /\ s \in ThreadState
  BY DaemonFacts
<1>2. ms_head \in Seq(Tickets) /\ NoRepeat(ms_head) /\ ms_head # <<>>
  BY DEF Good, Sound, TypeInv, TypeOK, AliveOk, ReadPop
<1>3. PICK t \in Tickets : t = Head(ms_head)
  BY <1>2, ListEnds
<1>4. t \in ToSet(ms_head) /\ ToSet(Tail(ms_head)) = ToSet(ms_head) \ {t}
  BY <1>2, <1>3, ListEnds
<1>5. /\ dead' = dead /\ nreq' = nreq /\ inbox' = inbox /\ pool' = pool /\ tk' = tk /\ aw_head' = aw_head
      /\ ToSet(ms_head)' = ToSet(ms_head) \ {t}
  BY <1>4 DEF ReadPop, sess, env
<1>6. thr' = [thr EXCEPT ![d] = [s EXCEPT !.pc = "got", !.tkt = t]]
  BY <1>1, <1>3 DEF ReadPop
<1>7. u = [s EXCEPT !.pc = "got", !.tkt = t] /\ \A z \in Threads \ {d} : Woke(z)
  BY <1>1, <1>6, OneStep
<1>8. u.pc = "got" /\ u.tkt = t /\ s.pc # "got"
  BY <1>1, <1>7 DEF ThreadState, ReadPop, Reading, At
<1>9. \A v \in Tickets : SameMessage(v)
  BY <1>5 DEF SameMessage
<1>10. \A v \in Tickets \ {t} : Untouched(v)
  BY <1>5, <1>9 DEF Untouched
<1> HIDE DEF s, u
<1>11. RidOk'
  <2>1. tk[t].rid > 0 /\ tk[t].orid = 0
    BY <1>4 DEF Good, RidOk, TicketRid
  <2>2. RidThread(d)'
    BY <1>1, <1>5, <1>8, <2>1 DEF RidThread, ReaderRid, u
  <2> QED BY <1>1, <1>5, <1>7, <1>9, <2>2, RidQuiet
<1>12. \A n : Stage(n)' = Stage(n)
  <2> SUFFICES ASSUME NEW n PROVE Stage(n)' = Stage(n)
    OBVIOUS
  <2>1. SameShown(d, t, n)
    BY <1>1, <1>8 DEF SameShown, Reads, At, s, u
  <2>2. Keeps(t, n)' <=> Keeps(t, n)
    BY <1>5 DEF Keeps, Carries
  <2>3. Pending(t) /\ Pending(t)'
    <3>1. Reads(d, t)'
      BY <1>8 DEF Reads, At, u
    <3> QED BY <1>4, <3>1 DEF Pending
  <2>4. Carries(t, n)' <=> Carries(t, n)
    BY <1>5 DEF Carries
  <2>5. IsDelivered(n)' <=> IsDelivered(n)
    BY <1>5 DEF IsDelivered
  <2> QED BY <1>1, <1>5, <1>7, <1>10, <2>1, <2>2, <2>3, <2>4, <2>5, StageKept
<1>13. \A q \in Requesters : SameCaller(q)
  BY <1>1, <1>5, <1>7, <1>9, AllCallers
<1> QED BY <1>5, <1>11, <1>12, <1>13, SeenNothing DEF Seen

\* The end of a read: the message is delivered, or it is over.
LEMMA ReadReturnSeen ==
    ASSUME Good, Sound', NEW d \in Readers, ReadNothing(d) \/ ReadDeliver(d)
    PROVE  Seen
<1> DEFINE s == thr[d]
           u == thr'[d]
<1>1. /\ d \in Threads /\ d \notin Requesters /\ d \notin Writers
      /\ thr \in [Threads -> ThreadState] /\ s \in ThreadState
      /\ tk \in [Tickets -> TicketState] /\ NoTicket \notin Tickets
      /\ nreq \in Nat /\ nreq <= MaxReqs /\ ReaderOk(s) /\ ReaderRid(s)
      /\ s.tkt \in Tickets \cup {NoTicket}
  BY DaemonFacts
<1>2. s.pc = "got"
  BY DEF ReadNothing, ReadDeliver, At
<1>3. PICK t \in Tickets : t = s.tkt
  BY <1>1, <1>2 DEF ReaderOk
<1>4. PICK n : n = tk[t].rid
  OBVIOUS
<1>5. n \in 1 .. MaxReqs /\ n <= nreq /\ tk[t].orid = 0
  <2>1. n > 0 /\ tk[t].orid = 0
    BY <1>1, <1>2, <1>3, <1>4 DEF ReaderRid
  <2>2. n <= nreq /\ n \in Nat
    BY <1>1, <1>4 DEF Good, RidOk, TicketRid, TicketState, Rids
  <2> QED BY <1>1, <2>1, <2>2
<1>6. /\ dead' = dead /\ nreq' = nreq /\ pool' = pool /\ tk' = tk /\ aw_head' = aw_head
      /\ ms_head' = ms_head
  BY DEF ReadNothing, ReadDeliver, sess, env, queues
<1>7. thr' = [thr EXCEPT ![d] = IF tk[t].invalid THEN [s EXCEPT !.pc = "drop", !.ret = "idle"] ELSE IdleThread]
  BY <1>1, <1>3 DEF ReadNothing, ReadDeliver, ReadReturn
<1>8. /\ u = (IF tk[t].invalid THEN [s EXCEPT !.pc = "drop", !.ret = "idle"] ELSE IdleThread)
      /\ \A z \in Threads \ {d} : Woke(z)
  BY <1>1, <1>7, OneStep
<1>9. u.pc # "got"
  BY <1>1, <1>8 DEF ThreadState, IdleThread
<1>10. Role(d, t) = "got"
  BY <1>2, <1>3 DEF Role
<1>11. \A v \in Tickets : SameMessage(v) /\ Untouched(v)
  BY <1>6 DEF SameMessage, Untouched
<1> HIDE DEF s, u
<1>12. RidOk'
  <2>1. RidThread(d)'
    BY <1>1, <1>9 DEF RidThread, ReaderRid, u
  <2> QED BY <1>1, <1>6, <1>8, <1>11, <2>1, RidQuiet
<1>13. Good'
  BY <1>12 DEF Good
<1>14. ~Pending(t)' /\ Pending(t) /\ t \notin pool.gone
  <2>1. OwnOk(Places(t), Roles(t), tk[t]) /\ \A x \in Threads : Roles(t)[x] = Role(x, t)
    BY DEF Good, Sound, AliveOk, Owned, Roles
  <2>2. t \notin ToSet(ms_head) /\ \A x \in Threads \ {d} : Role(x, t) # "got"
    BY <1>1, <1>10, <2>1, PlacesIs DEF OwnOk
  <2>3. \A x \in Readers : ~Reads(x, t)'
    <3> SUFFICES ASSUME NEW x \in Readers, Reads(x, t)' PROVE FALSE
      OBVIOUS
    <3>1. x \in Threads \ {d}
      BY <1>9 DEF Reads, At, u, Threads
    <3>2. Reads(x, t)
      BY <1>8, <3>1, WokeSeen DEF Good, Sound
    <3> QED BY <2>2, <3>1, <3>2 DEF Reads, At, Role
  <2>4. Pending(t)
    BY <1>2, <1>3 DEF Pending, Reads, At, s
  <2> QED BY <1>6, <2>2, <2>3, <2>4, PendingIs DEF Pending
<1>15. /\ ReadDeliver(d) => /\ tk[t].op # "INTERRUPT"
                           /\ \E b : b.rid = n /\ inbox' = inbox \cup {b}
       /\ ~ReadDeliver(d) => inbox' = inbox
  <2>1. CASE ReadDeliver(d)
    <3>1. PICK b : b = [unique |-> t, rid |-> tk[t].rid, op |-> tk[t].op]
      OBVIOUS
    <3>2. b.rid = n
      BY <1>4, <3>1
    <3>3. inbox' = inbox \cup {b} /\ tk[t].op \notin OneWay
      BY <1>3, <2>1, <3>1 DEF ReadDeliver, s
    <3> QED BY <2>1, <3>2, <3>3 DEF OneWay
  <2>2. CASE ~ReadDeliver(d)
    <3>1. inbox' = inbox
      BY <2>2 DEF ReadNothing, env
    <3> QED BY <2>2, <3>1
  <2> QED BY <2>1, <2>2
<1>16. ASSUME NEW m \in 1 .. MaxReqs, m # n \/ tk[t].op = "INTERRUPT" PROVE Stage(m)' = Stage(m)
  <2>1. SameShown(d, t, m)
    BY <1>1, <1>2, <1>3, <1>9 DEF SameShown, Reads, At, s, u
  <2>2. ~Carries(t, m) /\ ~Carries(t, m)'
    BY <1>4, <1>6, <1>16 DEF Carries
  <2>3. IsDelivered(m)' <=> IsDelivered(m)
    <3>1. CASE ReadDeliver(d)
      <4>1. m # n
        BY <1>15, <1>16, <3>1
      <4> QED BY <1>15, <3>1, <4>1 DEF IsDelivered
    <3>2. CASE ~ReadDeliver(d)
      BY <1>15, <3>2 DEF IsDelivered
    <3> QED BY <3>1, <3>2
  <2> QED BY <1>1, <1>6, <1>8, <1>11, <2>1, <2>2, <2>3, StageKept DEF Keeps
<1>17. \A q \in Requesters : SameCaller(q)
  BY <1>1, <1>6, <1>8, <1>11, AllCallers
<1>18. tk[t].op # "INTERRUPT" => IsQueued(n)
  BY <1>4, <1>14 DEF IsQueued, Carries
<1>19. CASE ReadDeliver(d)
  <2>1. tk[t].op # "INTERRUPT"
    BY <1>15, <1>19
  <2>2. Stage(n) = "queued"
    BY <1>5, <1>18, <2>1, WasQueued
  <2>3. IsDelivered(n)'
    BY <1>15, <1>19 DEF IsDelivered
  <2>4. Stage(n)' = "delivered"
    BY <1>5, <1>13, <2>3, NowDelivered
  <2>5. Passes(n, "queued", "delivered")
    BY <1>16, <2>2, <2>4 DEF Passes
  <2> QED BY <1>5, <1>6, <1>12, <1>17, <2>5, SeenMessage DEF Seen
<1>20. CASE ~ReadDeliver(d) /\ tk[t].op = "INTERRUPT"
  BY <1>6, <1>12, <1>16, <1>17, <1>20, SeenNothing DEF Seen
<1>21. CASE ~ReadDeliver(d) /\ tk[t].op # "INTERRUPT"
  <2>1. Stage(n) = "queued" /\ ~IsAnswered(n) /\ ~IsDelivered(n) /\ ~IsMade(n)
    BY <1>5, <1>18, <1>21, WasQueued
  <2>2. Carries(t, n)
    BY <1>4, <1>14, <1>21 DEF Carries
  <2>3. ~IsAnswered(n)'
    <3>1. \A w \in Writers : ~Writes(w, n)'
      BY <1>1, <1>8, <2>1, WokeSeen DEF IsAnswered, Threads, Good, Sound
    <3>2. \A v \in Tickets : ~Keeps(v, n)'
      BY <1>6, <2>1 DEF IsAnswered, Keeps, Carries
    <3> QED BY <3>1, <3>2 DEF IsAnswered
  <2>4. ~IsDelivered(n)'
    BY <1>15, <1>21, <2>1 DEF IsDelivered
  <2>5. ~IsQueued(n)'
    <3>1. \A v \in Tickets : Carries(v, n)' => v = t
      BY <1>5, <1>6, <2>2 DEF Carries, Good, RidOk, OneTicket
    <3> QED BY <1>14, <3>1 DEF IsQueued
  <2>6. ~IsMade(n)'
    <3>1. \A q \in Requesters : ~Sends(q, n)
      BY <2>1 DEF IsMade, Sends
    <3>2. \A q \in Requesters : ~Sends(q, n)'
      BY <1>1, <1>8, <3>1, WokeSeen DEF Threads, Good, Sound
    <3> QED BY <3>2 DEF IsMade, Sends
  <2>7. Stage(n)' = "over"
    BY <1>1, <1>5, <1>6, <2>3, <2>4, <2>5, <2>6 DEF Stage, Good, Sound
  <2>8. Passes(n, "queued", "over")
    BY <1>16, <2>1, <2>7 DEF Passes
  <2> QED BY <1>5, <1>6, <1>12, <1>17, <2>8, SeenMessage DEF Seen
<1> QED BY <1>19, <1>20, <1>21

-----------------------------------------------------------------------------
(* Messages are answered *)

\* fuse_device_write finds the ticket of the answer.
LEMMA WriteFoundSeen ==
    ASSUME Good, Sound', NEW w \in Writers, NEW b \in inbox, NEW k, WriteFound(w, b, k)
    PROVE  Seen
<1> DEFINE s == thr[w]
           u == thr'[w]
<1>1. /\ w \in Threads /\ w \notin Requesters /\ w \notin Readers
      /\ thr \in [Threads -> ThreadState] /\ s \in ThreadState
      /\ nreq \in Nat /\ nreq <= MaxReqs
  BY DaemonFacts
<1>2. PICK t \in Tickets, n \in Rids : t = b.unique /\ n = b.rid
  BY DEF Good, Sound, TypeInv, TypeOK
<1>3. Carries(t, n) /\ n > 0 /\ t \in ToSet(aw_head) /\ t \notin ToSet(ms_head)
      /\ \A x \in Threads : Role(x, t) \in {"none", "wait"}
  BY <1>2, DeliveredIs
<1>4. n \in 1 .. MaxReqs
  <2>1. n <= nreq /\ n \in Nat
    BY <1>3, StateFacts DEF Carries, Good, Sound, RidOk, TicketRid, TicketState, Rids
  <2> QED BY <1>1, <1>3, <2>1
<1>5. /\ dead' = dead /\ nreq' = nreq /\ pool' = pool /\ tk' = tk /\ ms_head' = ms_head
      /\ inbox' = inbox \ {b}
  BY DEF WriteFound, sess
<1>6. ToSet(aw_head)' = ToSet(aw_head) \ {t}
  <2>1. aw_head \in Seq(Tickets) /\ NoRepeat(aw_head)
    BY DEF Good, Sound, TypeInv, TypeOK, AliveOk
  <2>2. PICK i \in DOMAIN aw_head : aw_head[i] = t /\ aw_head' = RemoveAt(aw_head, i)
    BY <1>2 DEF WriteFound, Matches
  <2> QED BY <2>1, <2>2, ListRemove
<1>7. thr' = [thr EXCEPT ![w] = [s EXCEPT !.pc = "found", !.tkt = t, !.arid = n, !.kind = k]]
  BY <1>1, <1>2 DEF WriteFound
<1>8. u = [s EXCEPT !.pc = "found", !.tkt = t, !.arid = n, !.kind = k] /\ \A z \in Threads \ {w} : Woke(z)
  BY <1>1, <1>7, OneStep
<1>9. u.pc = "found" /\ u.arid = n /\ s.pc = "idle"
  BY <1>1, <1>8 DEF ThreadState, WriteFound, At
<1>10. \A v \in Tickets : SameMessage(v) /\ Untouched(v)
  BY <1>5, <1>6 DEF SameMessage, Untouched
<1> HIDE DEF s, u
<1>11. RidOk'
  <2>1. RidThread(w)'
    BY <1>1, <1>3, <1>9 DEF RidThread, WriterRid, u
  <2> QED BY <1>1, <1>5, <1>8, <1>10, <2>1, RidQuiet
<1>12. Good'
  BY <1>11 DEF Good
<1>13. Stage(n) = "delivered"
  <2>1. IsDelivered(n)
    BY <1>2 DEF IsDelivered
  <2> QED BY <1>4, <2>1, WasDelivered
<1>14. Stage(n)' = "answered"
  <2>1. IsAnswered(n)'
    BY <1>9 DEF IsAnswered, Writes, u
  <2> QED BY <1>4, <1>12, <2>1, NowAnswered
<1>15. ASSUME NEW m \in (1 .. MaxReqs) \ {n} PROVE Stage(m)' = Stage(m)
  <2>1. SameShown(w, t, m)
    BY <1>1, <1>9, <1>15 DEF SameShown, Writes, s, u
  <2>2. ~Carries(t, m) /\ ~Carries(t, m)'
    BY <1>3, <1>5, <1>15 DEF Carries
  <2>3. IsDelivered(m)' <=> IsDelivered(m)
    BY <1>2, <1>5, <1>15 DEF IsDelivered
  <2> QED BY <1>1, <1>5, <1>8, <1>10, <2>1, <2>2, <2>3, StageKept DEF Keeps
<1>16. Passes(n, "delivered", "answered")
  BY <1>13, <1>14, <1>15 DEF Passes
<1>17. \A q \in Requesters : SameCaller(q)
  BY <1>1, <1>5, <1>8, <1>10, AllCallers
<1> QED BY <1>4, <1>5, <1>11, <1>16, <1>17, SeenMessage DEF Seen

\* A step of the thread that writes the answer in ticket t, which it pulls or has pulled.
LEMMA AnswerSeen ==
    ASSUME Good, Sound', NEW w \in Writers, NEW t \in Tickets, t = thr[w].tkt,
           thr[w].pc \in {"found", "answer"}, \A z \in Threads \ {w} : Woke(z),
           \A v \in Tickets \ {t} : tk'[v] = tk[v],
           tk'[t].rid = tk[t].rid, tk'[t].op = tk[t].op, tk'[t].invalid = tk[t].invalid,
           tk'[t].orid = thr[w].arid,
           \/ thr'[w].pc \notin {"found", "answer"}
           \/ thr'[w].pc = "answer" /\ thr'[w].arid = thr[w].arid,
           UNCHANGED <<dead, nreq, inbox, ms_head, aw_head>>, pool'.gone = pool.gone
    PROVE  Seen
<1>1. PICK n : n = thr[w].arid
  OBVIOUS
<1>2. /\ w \in Threads /\ w \notin Requesters /\ w \notin Readers /\ nreq \in Nat /\ nreq <= MaxReqs
      /\ tk \in [Tickets -> TicketState]
  BY DaemonFacts
<1>3. Role(w, t) = "answer" /\ Carries(t, n) /\ n > 0 /\ Writes(w, n)
  BY <1>1, WritesIs DEF Writes
<1>4. n \in 1 .. MaxReqs /\ n <= nreq
  <2>1. n <= nreq /\ n \in Nat
    BY <1>2, <1>3 DEF Carries, Good, RidOk, TicketRid, TicketState, Rids
  <2> QED BY <1>2, <1>3, <2>1
<1>5. /\ t \notin ToSet(ms_head) /\ t \notin ToSet(aw_head) /\ ~Unused(t)
      /\ \A z \in Threads \ {w} : Role(z, t) \in {"none", "wait"}
  BY <1>2, <1>3, AnswerFacts DEF Good, Sound
<1>6. \A v \in Tickets \ {t} : SameMessage(v) /\ Untouched(v)
  BY DEF SameMessage, Untouched
<1>7. RidOk'
  <2>1. RidThread(w)'
    BY <1>1, <1>2, <1>3 DEF RidThread, WriterRid
  <2>2. TicketRid(t)'
    <3>1. TicketRid(t)
      BY DEF Good, RidOk
    <3> QED BY <1>5, <3>1 DEF TicketRid
  <2>3. \A z \in Threads \ {w} : Woke(z) /\ MessageFor(z, t)
    BY <1>5 DEF MessageFor
  <2> QED BY <1>2, <1>6, <2>1, <2>2, <2>3, RidStep
<1>8. Good'
  BY <1>7 DEF Good
<1>9. IsAnswered(n) /\ IsAnswered(n)'
  <2>1. IsAnswered(n)
    BY <1>3 DEF IsAnswered
  <2>2. Keeps(t, n)'
    BY <1>1, <1>3 DEF Keeps, Carries
  <2> QED BY <2>1, <2>2 DEF IsAnswered
<1>10. Stage(n)' = Stage(n)
  BY <1>4, <1>8, <1>9, WasAnswered, NowAnswered
<1>11. ASSUME NEW m \in (1 .. MaxReqs) \ {n} PROVE Stage(m)' = Stage(m)
  <2>1. SameShown(w, t, m)
    BY <1>1, <1>2, <1>11 DEF SameShown, Writes
  <2>2. ~Carries(t, m) /\ ~Carries(t, m)'
    BY <1>3, <1>11 DEF Carries
  <2>3. IsDelivered(m)' <=> IsDelivered(m)
    BY DEF IsDelivered
  <2> QED BY <1>2, <1>6, <2>1, <2>2, <2>3, StageKept DEF Keeps
<1>12. \A q \in Requesters : SameCaller(q)
  BY <1>2, <1>3, <1>6, AllCallers
<1> QED BY <1>7, <1>10, <1>11, <1>12, SeenNothing DEF Seen

\* The answer callbacks.
LEMMA CallbackSeen ==
    ASSUME Good, Sound', NEW w \in Writers,
           Pull(w) \/ InitCallback(w) \/ ForgetCallback(w) \/ AnswerDrop(w) \/ AnswerWake(w)
    PROVE  Seen
<1> DEFINE s == thr[w]
           u == thr'[w]
<1>1. thr[w].pc \in {"found", "answer"}
  BY DEF Pull, InitCallback, ForgetCallback, AnswerDrop, AnswerWake, At
<1>2. /\ w \in Threads /\ thr \in [Threads -> ThreadState] /\ s \in ThreadState
      /\ tk \in [Tickets -> TicketState] /\ WriterOk(s) /\ s.tkt \in Tickets
  BY <1>1, WriterFacts DEF Good, Sound
<1>3. PICK t \in Tickets : t = s.tkt
  BY <1>2
<1>4. UNCHANGED <<dead, nreq, inbox, ms_head, aw_head>> /\ pool'.gone = pool.gone
  <2>1. pool \in PoolState
    BY StateFacts DEF Good, Sound
  <2> QED BY <2>1 DEF Pull, InitCallback, ForgetCallback, AnswerDrop, AnswerWake, Lose, PoolState,
                  sess, env, queues
<1>5. CASE Pull(w) \/ InitCallback(w)
  <2>1. tk' = [tk EXCEPT ![t] = Pulled(tk[t], s)]
    BY <1>2, <1>3, <1>5 DEF Pull, InitCallback
  <2>2. (\A v \in Tickets \ {t} : tk'[v] = tk[v]) /\ tk'[t] = Pulled(tk[t], s) /\ tk[t] \in TicketState
    BY <1>2, <2>1
  <2>3. /\ tk'[t].rid = tk[t].rid /\ tk'[t].op = tk[t].op /\ tk'[t].invalid = tk[t].invalid
        /\ tk'[t].orid = s.arid
    BY <2>2, PulledIs
  <2>4. (\A z \in Threads \ {w} : Woke(z)) /\ u.pc \in {"answer", "drop"} /\ (u.pc = "answer" => u.arid = s.arid)
    <3>1. CASE Pull(w)
      <4>1. thr' = [thr EXCEPT ![w] = [s EXCEPT !.pc = "answer", !.perr = PullError(w)]]
        BY <1>2, <3>1 DEF Pull
      <4>2. u = [s EXCEPT !.pc = "answer", !.perr = PullError(w)] /\ \A z \in Threads \ {w} : Woke(z)
        BY <1>2, <4>1, OneStep
      <4> QED BY <1>2, <4>2 DEF ThreadState
    <3>2. CASE InitCallback(w)
      <4>1. PICK l \in {"initfail", "setinit"} :
               thr' = [thr EXCEPT ![w] = [IdleThread EXCEPT !.pc = "drop", !.tkt = s.tkt, !.ret = l]]
        BY <1>2, <3>2 DEF InitCallback
      <4>2. u = [IdleThread EXCEPT !.pc = "drop", !.tkt = s.tkt, !.ret = l] /\ \A z \in Threads \ {w} : Woke(z)
        BY <1>2, <4>1, OneStep
      <4>3. u.pc = "drop"
        BY <4>2 DEF IdleThread
      <4> QED BY <4>2, <4>3
    <3> QED BY <1>5, <3>1, <3>2
  <2> QED BY <1>1, <1>3, <1>4, <2>2, <2>3, <2>4, AnswerSeen
<1>6. CASE AnswerDrop(w) \/ AnswerWake(w)
  <2>1. s.pc = "answer" /\ tk[t].orid = s.arid
    BY <1>2, <1>3, <1>6 DEF AnswerDrop, AnswerWake, At, WriterOk
  <2>2. /\ \A v \in Tickets \ {t} : tk'[v] = tk[v]
        /\ tk'[t].rid = tk[t].rid /\ tk'[t].op = tk[t].op /\ tk'[t].invalid = tk[t].invalid
        /\ tk'[t].orid = tk[t].orid
    <3>1. CASE AnswerDrop(w)
      BY <3>1 DEF AnswerDrop
    <3>2. CASE AnswerWake(w)
      <4>1. tk' = [tk EXCEPT ![t] = [tk[t] EXCEPT !.answered = TRUE, !.aw_errno = s.perr]] /\ tk[t] \in TicketState
        BY <1>2, <1>3, <3>2 DEF AnswerWake
      <4>2. (\A v \in Tickets \ {t} : tk'[v] = tk[v]) /\ tk'[t] = [tk[t] EXCEPT !.answered = TRUE, !.aw_errno = s.perr]
        BY <1>2, <4>1
      <4> QED BY <4>1, <4>2 DEF TicketState
    <3> QED BY <1>6, <3>1, <3>2
  <2>3. (\A z \in Threads \ {w} : Woke(z)) /\ u.pc \in {"idle", "drop"}
    <3>1. CASE AnswerDrop(w)
      <4>1. thr' = [thr EXCEPT ![w] = [IdleThread EXCEPT !.pc = "drop", !.tkt = s.tkt]]
        BY <3>1 DEF AnswerDrop
      <4>2. u = [IdleThread EXCEPT !.pc = "drop", !.tkt = s.tkt] /\ \A z \in Threads \ {w} : Woke(z)
        BY <1>2, <4>1, OneStep
      <4>3. u.pc = "drop"
        BY <4>2 DEF IdleThread
      <4> QED BY <4>2, <4>3
    <3>2. CASE AnswerWake(w)
      <4> DEFINE f == [thr EXCEPT ![w] = IdleThread]
      <4>1. f[w] = IdleThread /\ \A z \in Threads \ {w} : f[z] = thr[z]
        BY <1>2
      <4>2. thr' = WakeTicket(f, t)
        BY <1>3, <3>2 DEF AnswerWake
      <4> HIDE DEF f
      <4>3. u = IdleThread
        BY <1>2, <4>1, <4>2 DEF WakeTicket, IdleThread
      <4>4. \A z \in Threads \ {w} : Woke(z)
        BY <4>1, <4>2 DEF WakeTicket, Woke
      <4> QED BY <4>3, <4>4 DEF IdleThread
    <3> QED BY <1>6, <3>1, <3>2
  <2> QED BY <1>1, <1>3, <1>4, <2>1, <2>2, <2>3, AnswerSeen
<1>7. CASE ForgetCallback(w)
  <2>1. tk' = [tk EXCEPT ![t] = [tk[t] EXCEPT !.orid = s.arid, !.oerror = (s.kind = "errreply")]]
    BY <1>2, <1>3, <1>7 DEF ForgetCallback
  <2>2. /\ \A v \in Tickets \ {t} : tk'[v] = tk[v]
        /\ tk'[t] = [tk[t] EXCEPT !.orid = s.arid, !.oerror = (s.kind = "errreply")] /\ tk[t] \in TicketState
    BY <1>2, <2>1
  <2>3. /\ tk'[t].rid = tk[t].rid /\ tk'[t].op = tk[t].op /\ tk'[t].invalid = tk[t].invalid
        /\ tk'[t].orid = s.arid
    BY <2>2 DEF TicketState
  <2>4. thr' = [thr EXCEPT ![w] = IdleThread]
    BY <1>7 DEF ForgetCallback
  <2>5. u = IdleThread /\ \A z \in Threads \ {w} : Woke(z)
    BY <1>2, <2>4, OneStep
  <2>6. u.pc = "idle"
    BY <2>5 DEF IdleThread
  <2> QED BY <1>1, <1>3, <1>4, <2>2, <2>3, <2>5, <2>6, AnswerSeen
<1> QED BY <1>5, <1>6, <1>7

\* The end of fuse_internal_init_callback.
LEMMA InitDoneSeen ==
    ASSUME Good, Sound', NEW w \in Writers, InitFail(w) \/ SetInited(w)
    PROVE  Seen
<1>1. /\ w \in Threads \ Requesters /\ w \notin Readers
      /\ thr \in [Threads -> ThreadState] /\ thr[w] \in ThreadState
  BY DaemonFacts
<1>2. UNCHANGED <<dead, nreq, inbox, pool, ms_head, aw_head, tk>>
  BY DEF InitFail, SetInited, sess, env, queues
<1>3. \A v \in Tickets : SameMessage(v)
  BY <1>2 DEF SameMessage
<1>4. thr[w].pc \notin {"found", "answer"}
  BY DEF InitFail, SetInited, At
<1>5. (\A z \in Threads \ {w} : Woke(z)) /\ thr'[w].pc \notin {"found", "answer"}
  <2>1. CASE InitFail(w)
    <3>1. thr' = [thr EXCEPT ![w] = [thr[w] EXCEPT !.pc = "kill", !.ret = "setinit"]]
      BY <1>1, <2>1 DEF InitFail
    <3>2. thr'[w] = [thr[w] EXCEPT !.pc = "kill", !.ret = "setinit"] /\ \A z \in Threads \ {w} : Woke(z)
      BY <1>1, <3>1, OneStep
    <3> QED BY <1>1, <3>2 DEF ThreadState
  <2>2. CASE SetInited(w)
    <3> DEFINE f == [thr EXCEPT ![w] = IdleThread]
    <3>1. f[w] = IdleThread /\ \A z \in Threads \ {w} : f[z] = thr[z]
      BY <1>1
    <3>2. thr' = WakeIni(f)
      BY <2>2 DEF SetInited
    <3> HIDE DEF f
    <3>3. thr'[w] = IdleThread
      BY <1>1, <3>1, <3>2 DEF WakeIni, IdleThread
    <3>4. \A z \in Threads \ {w} : Woke(z)
      BY <3>1, <3>2 DEF WakeIni, Woke
    <3> QED BY <3>3, <3>4 DEF IdleThread
  <2> QED BY <2>1, <2>2
<1> QED BY <1>1, <1>2, <1>3, <1>4, <1>5, QuietSeen

-----------------------------------------------------------------------------
(* Tickets are dropped *)

\* fuse_ticket_drop ends what is left of the message: an answer that nobody waits for.
LEMMA DropSeen ==
    ASSUME Good, Sound', NEW x \in Threads, DropDestroy(x) \/ DropRefresh(x)
    PROVE  Seen
<1> DEFINE s == thr[x]
           u == thr'[x]
<1>1. /\ thr \in [Threads -> ThreadState] /\ s \in ThreadState
      /\ tk \in [Tickets -> TicketState] /\ pool \in PoolState /\ NoTicket \notin Tickets
      /\ nreq \in Nat
  BY StateFacts, InitialRecords DEF Good, Sound, TypeInv, TypeOK
<1>2. nreq \in 0 .. MaxReqs
  BY DEF Good, Sound, TypeInv, TypeOK, Rids
<1>3. s.pc = "drop"
  BY DEF DropDestroy, DropRefresh, At
<1>4. /\ s.tkt \in Tickets /\ s.saved = NoTicket /\ Role(x, s.tkt) = "alone"
      /\ s.ret \notin KeepsTicket /\ (x \in Requesters => s.ret = "idle")
  BY <1>3, DropAliveFacts DEF Good, Sound
<1>5. PICK t \in Tickets : t = s.tkt
  BY <1>4
<1>6. PICK n : n = tk[t].rid
  OBVIOUS
<1>7. n \in Nat /\ n <= nreq
  BY <1>1, <1>6 DEF TicketState, Rids, Good, RidOk, TicketRid
<1>8. /\ t \notin ToSet(ms_head) /\ t \notin ToSet(aw_head) /\ ~Unused(t)
      /\ \A z \in Threads \ {x} : Role(z, t) = "none"
  BY <1>4, <1>5, AloneFacts DEF Good, Sound
<1>9. UNCHANGED <<dead, nreq, inbox, ms_head, aw_head>>
  BY DEF DropDestroy, DropRefresh, sess, env, queues
<1>10. /\ \A v \in Tickets \ {t} : tk'[v] = tk[v] /\ (v \in pool'.gone <=> v \in pool.gone)
       /\ pool.gone \subseteq pool'.gone
       /\ \/ tk'[t] = tk[t] /\ t \in pool'.gone
          \/ tk'[t].rid = 0 /\ tk'[t].orid = 0 /\ tk'[t].op = "none"
  <2>1. CASE DropDestroy(x)
    BY <1>1, <1>5, <2>1 DEF DropDestroy, Destroy, PoolState
  <2>2. CASE DropRefresh(x)
    <3>1. tk' = [tk EXCEPT ![t] = Refresh(tk[t])] /\ pool' = pool
      BY <1>1, <1>5, <2>2 DEF DropRefresh
    <3>2. (\A v \in Tickets \ {t} : tk'[v] = tk[v]) /\ tk'[t] = Refresh(tk[t])
      BY <1>1, <3>1
    <3>3. Refresh(tk[t]).rid = 0 /\ Refresh(tk[t]).orid = 0 /\ Refresh(tk[t]).op = "none"
      BY DEF Refresh, NewTicket
    <3> QED BY <3>1, <3>2, <3>3
  <2> QED BY <2>1, <2>2
<1>11. /\ \A z \in Threads \ {x} : Woke(z)
       /\ \/ u.pc = s.ret
          \/ u.pc = "push" /\ u.rid = s.rid /\ u.op = s.op /\ u.saved = s.saved /\ u.tkt = s.tkt
  <2>1. CASE DropDestroy(x)
    <3>1. thr' = [thr EXCEPT ![x] = [IdleThread EXCEPT !.pc = s.ret]]
      BY <2>1 DEF DropDestroy
    <3>2. u = [IdleThread EXCEPT !.pc = s.ret] /\ \A z \in Threads \ {x} : Woke(z)
      BY <1>1, <3>1, OneStep
    <3> QED BY <3>2 DEF IdleThread
  <2>2. CASE DropRefresh(x)
    <3>1. thr' = [thr EXCEPT ![x] = [s EXCEPT !.pc = "push"]]
      BY <1>1, <2>2 DEF DropRefresh
    <3>2. u = [s EXCEPT !.pc = "push"] /\ \A z \in Threads \ {x} : Woke(z)
      BY <1>1, <3>1, OneStep
    <3> QED BY <1>1, <3>2 DEF ThreadState
  <2> QED BY <2>1, <2>2
<1>12. u.pc \notin {"found", "answer", "got"} /\ (x \in Requesters => u.pc \in {"idle", "push"})
  BY <1>4, <1>11 DEF KeepsTicket, DerefLabels
<1>13. \A v \in Tickets \ {t} : Untouched(v) /\ SameMessage(v)
  BY <1>9, <1>10 DEF Untouched, SameMessage
<1> HIDE DEF s, u
<1>14. RidOk'
  <2>1. ASSUME x \in Requesters PROVE RequesterRid(thr[x])'
    <3>1. CASE u.pc = "idle"
      BY <3>1 DEF RequesterRid, u
    <3>2. CASE u.pc = "push"
      <4>1. s.rid \in 1 .. nreq
        BY <1>3, <2>1 DEF Good, RidOk, RidThread, RequesterRid, s
      <4>2. u.rid = s.rid /\ u.saved = NoTicket
        BY <1>4, <1>11, <2>1, <3>2
      <4> QED BY <1>9, <3>2, <4>1, <4>2 DEF RequesterRid, Headered, Waits, u
    <3> QED BY <1>12, <2>1, <3>1, <3>2
  <2>2. RidThread(x)'
    BY <1>12, <2>1 DEF RidThread, ReaderRid, WriterRid, u
  <2>3. TicketRid(t)'
    <3>1. TicketRid(t)
      BY DEF Good, RidOk
    <3> QED BY <1>1, <1>8, <1>9, <1>10, <3>1 DEF TicketRid, OneWay
  <2>4. x \in Requesters => KeepsRequest(x)
    <3> SUFFICES ASSUME x \in Requesters, u.pc = "push" PROVE KeepsRequest(x)
      BY <1>12 DEF KeepsRequest, Busy, u
    <3>1. u.rid = s.rid /\ u.saved = s.saved /\ u.tkt = s.tkt
      BY <1>4, <1>11
    <3> QED BY <1>3, <3>1 DEF KeepsRequest, Busy, s, u
  <2>5. \A z \in Threads \ {x} : Woke(z) /\ MessageFor(z, t)
    BY <1>8, <1>11 DEF MessageFor
  <2>6. (tk'[t].rid = tk[t].rid /\ tk'[t].op = tk[t].op) \/ tk'[t].rid = 0
    BY <1>10
  <2> QED BY <1>9, <1>10, <1>13, <2>2, <2>3, <2>4, <2>5, <2>6, RidStep
<1>15. Good'
  BY <1>14 DEF Good
<1>16. \A m \in 1 .. MaxReqs : ~Carries(t, m)'
  BY <1>10 DEF Carries
<1>17. ~Pending(t)
  BY <1>4, <1>5, AloneNotPending
<1>18. ASSUME NEW m \in 1 .. MaxReqs PROVE SameShown(x, t, m)
  BY <1>3, <1>12 DEF SameShown, Writes, Reads, Sends, Underway, At, s, u
<1>19. ASSUME NEW m \in 1 .. MaxReqs, ~Keeps(t, m) PROVE Stage(m)' = Stage(m)
  <2>1. ~Keeps(t, m)'
    BY <1>16 DEF Keeps
  <2>2. IsDelivered(m)' <=> IsDelivered(m)
    BY <1>9 DEF IsDelivered
  <2> QED BY <1>9, <1>11, <1>13, <1>16, <1>17, <1>18, <1>19, <2>1, <2>2, StageKept
<1>20. \A q \in Requesters : SameCaller(q)
  <2>1. \A q \in Requesters \ {x} : SameCaller(q)
    BY <1>4, <1>5, <1>9, <1>11, <1>13, OtherCallers
  <2>2. x \in Requesters => SameCaller(x)
    BY <1>3, <1>12 DEF SameCaller, Calling, Taken, InCall, At, s, u
  <2> QED BY <2>1, <2>2
<1>21. CASE \A m \in 1 .. MaxReqs : ~Keeps(t, m)
  BY <1>9, <1>14, <1>19, <1>20, <1>21, SeenNothing DEF Seen
<1>22. ASSUME NEW m \in 1 .. MaxReqs, Keeps(t, m) PROVE Seen
  <2>1. m = n /\ Carries(t, n)
    BY <1>6, <1>22 DEF Keeps, Carries
  <2>2. IsAnswered(n)
    BY <1>22, <2>1 DEF IsAnswered
  <2>3. Stage(n) = "answered" /\ ~IsMade(n) /\ n \in 1 .. MaxReqs
    BY <2>1, <2>2, WasAnswered
  <2>4. \A v \in Tickets : ~Carries(v, n)'
    <3>1. \A v \in Tickets \ {t} : ~Carries(v, n)
      BY <2>1, <2>3 DEF Good, RidOk, OneTicket
    <3> QED BY <1>10, <1>16, <2>3, <3>1 DEF Carries
  <2>5. ~IsMade(n)'
    <3>1. \A q \in Requesters : ~Sends(q, n)
      BY <2>3 DEF IsMade, Sends
    <3>2. ASSUME NEW q \in Requesters PROVE ~Sends(q, n)'
      <4>1. q \in Threads
        BY DEF Threads
      <4>2. CASE q = x
        BY <1>18, <2>3, <3>1, <4>2 DEF SameShown
      <4>3. CASE q # x
        BY <1>11, <3>1, <4>1, <4>3, WokeSeen DEF Good, Sound
      <4> QED BY <4>2, <4>3
    <3> QED BY <3>2 DEF IsMade, Sends
  <2>6. Stage(n)' = "over"
    BY <1>7, <1>9, <1>15, <2>3, <2>4, <2>5, NowOver
  <2>7. ASSUME NEW k \in (1 .. MaxReqs) \ {n} PROVE Stage(k)' = Stage(k)
    BY <1>6, <1>19, <2>7 DEF Keeps, Carries
  <2>8. ASSUME NEW q \in Requesters, Calling(q) = n PROVE FALSE
    <3>1. InCall(thr[q]) /\ thr[q].rid = n
      BY <2>3, <2>8 DEF Calling
    <3>2. Busy(q) /\ q # x /\ q \in Threads
      BY <1>3, <3>1 DEF InCall, Busy, Threads, s
    <3>3. t \in {thr[q].tkt, thr[q].saved}
      BY <2>1, <3>1, <3>2 DEF Good, RidOk, OwnTicket
    <3>4. Role(q, t) # "none"
      BY <3>3 DEF Role
    <3> QED BY <1>8, <3>2, <3>4
  <2>9. Passes(n, "answered", "over")
    BY <2>3, <2>6, <2>7 DEF Passes
  <2> QED BY <1>9, <1>14, <1>20, <2>3, <2>8, <2>9, SeenMessage DEF Seen
<1> QED BY <1>21, <1>22

\* fuse_ticket_drop puts the ticket on the free list.
LEMMA DropPushSeen ==
    ASSUME Good, Sound', NEW x \in Threads, DropPush(x)
    PROVE  Seen
<1> DEFINE s == thr[x]
           u == thr'[x]
<1>1. /\ thr \in [Threads -> ThreadState] /\ s \in ThreadState /\ pool \in PoolState /\ 0 \in Tickets
  BY StateFacts DEF Good, Sound, TypeInv, TypeOK
<1>2. s.pc = "push"
  BY DEF DropPush, At
<1>3. s.ret \notin KeepsTicket /\ (x \in Requesters => s.ret = "idle")
  BY <1>2, DropAliveFacts DEF Good, Sound
<1>4. UNCHANGED <<dead, nreq, inbox, ms_head, aw_head, tk>>
  BY DEF DropPush, sess, env, queues
<1>5. pool'.gone = pool.gone
  BY <1>1 DEF DropPush, PoolState
<1>6. \A v \in Tickets : SameMessage(v)
  BY <1>4 DEF SameMessage
<1>7. thr' = [thr EXCEPT ![x] = [IdleThread EXCEPT !.pc = s.ret]]
  BY DEF DropPush
<1>8. u = [IdleThread EXCEPT !.pc = s.ret] /\ \A z \in Threads \ {x} : Woke(z)
  BY <1>1, <1>7, OneStep
<1>9. u.pc \notin {"found", "answer", "got"} /\ (x \in Requesters => u.pc = "idle")
  BY <1>3, <1>8 DEF KeepsTicket, DerefLabels, IdleThread
<1> HIDE DEF s, u
<1>10. CASE x \notin Requesters
  BY <1>2, <1>4, <1>5, <1>6, <1>8, <1>9, <1>10, QuietSeen DEF s, u
<1>11. CASE x \in Requesters
  <2>0. x \notin Readers /\ x \notin Writers
    BY <1>11
  <2>1. RidThread(x)' /\ KeepsRequest(x)
    BY <1>9, <1>11, <2>0 DEF RidThread, RequesterRid, KeepsRequest, Busy, u
  <2>2. RidOk'
    BY <1>4, <1>5, <1>6, <1>8, <2>1, RidQuiet
  <2>3. \A n : Sends(x, n)' <=> Sends(x, n)
    BY <1>2, <1>9, <1>11 DEF Sends, Underway, s, u
  <2>4. \A n : Stage(n)' = Stage(n)
    BY <1>4, <1>5, <1>6, <1>8, <2>0, <2>3, QuietStages
  <2>5. SameCaller(x)
    BY <1>2, <1>9, <1>11 DEF SameCaller, Calling, Taken, InCall, At, s, u
  <2>6. \A q \in Requesters \ {x} : SameCaller(q)
    BY <1>1, <1>4, <1>6, <1>8, OtherCallers
  <2> QED BY <1>4, <2>2, <2>4, <2>5, <2>6, SeenNothing DEF Seen
<1> QED BY <1>10, <1>11

\* A kill of the device or its close begins.
LEMMA DeviceSeen ==
    ASSUME Good, Sound', DeviceKill \/ DeviceClose
    PROVE  Seen
<1>1. thr \in [Threads -> ThreadState]
  BY DEF Good, Sound, TypeInv, TypeOK
<1>2. PICK a \in Admins : thr' = [thr EXCEPT ![a] = [thr[a] EXCEPT !.pc = "kill", !.ret = "reject"]]
  <2>1. Killer \in Admins /\ Closer \in Admins /\ Killer \in Threads /\ Closer \in Threads
    BY DEF Admins, Threads
  <2>2. CASE DeviceKill
    <3>1. thr' = [thr EXCEPT ![Killer] = [thr[Killer] EXCEPT !.pc = "kill", !.ret = "reject"]]
      BY <1>1, <2>1, <2>2 DEF DeviceKill
    <3> QED BY <2>1, <3>1
  <2>3. CASE DeviceClose
    <3>1. thr' = [thr EXCEPT ![Closer] = [thr[Closer] EXCEPT !.pc = "kill", !.ret = "reject"]]
      BY <1>1, <2>1, <2>3 DEF DeviceClose
    <3> QED BY <2>1, <3>1
  <2> QED BY <2>2, <2>3
<1>3. a \in Threads \ Requesters /\ a \notin Readers /\ a \notin Writers
  BY DEF Threads
<1>4. \A z \in Threads \ {a} : Woke(z)
  BY <1>1, <1>2, <1>3, OneStep
<1>5. UNCHANGED <<dead, nreq, inbox, pool, ms_head, aw_head, tk>>
  BY DEF DeviceKill, DeviceClose, sess, env, queues
<1>6. \A v \in Tickets : SameMessage(v)
  BY <1>5 DEF SameMessage
<1> QED BY <1>3, <1>4, <1>5, <1>6, QuietSeen

-----------------------------------------------------------------------------
(* Every step is a step of the service, or is not seen by it *)

\* A step of a session that is alive and stays alive.
LEMMA AliveSeen ==
    ASSUME Good, Sound', Next
    PROVE  Seen
<1>0. TypeInv /\ HandshakeInv /\ AliveOk /\ ~dead /\ ~dead'
  BY DEF Good, Sound
<1>1. ASSUME NEW r \in Requesters, RequesterStep(r) \/ RequesterEvent(r) PROVE Seen
  <2>1. ~FetchMismatch(r) /\ ~InsertMessageDirty(r)
    BY <1>0, NoPanicStep
  <2>2. ~InsertMessageDead(r) /\ ~WaitDead(r)
    BY <1>0 DEF InsertMessageDead, WaitDead
  <2>3. ~TimedOut(r)
    BY AliveFacts DEF TimedOut, At, RequesterOk, Waits
  <2>4. CASE SendInit(r) \/ NewRequest(r) \/ SendForget(r) \/ SendRelease(r)
    BY <2>4, StartedSeen DEF SendInit, NewRequest, SendForget, SendRelease
  <2>5. CASE \/ Make(r) \/ MakeFail(r) \/ MakeDrop(r) \/ MakeLeak(r) \/ Remake(r)
             \/ InsertCallback(r) \/ InsertMessage(r)
    BY <2>5, MakeSeen, MakeFailSeen, MakeGivenUpSeen, RemakeSeen, InsertCallbackSeen, InsertMessageSeen
  <2>6. CASE \/ FetchNone(r) \/ Alloc(r) \/ PushAll(r) \/ FetchFree(r) \/ IniSignal(r)
             \/ InsertMessageTest(r) \/ WaitAnswered(r) \/ WaitSleep(r) \/ Woken(r) \/ Timeout(r)
             \/ Interrupted(r) \/ WaitedDrop(r) \/ WaitedDetach(r) \/ WaitedOk(r) \/ UseDone(r) \/ UseLeak(r)
    BY <2>6, PlainSeen
  <2> QED BY <1>1, <2>1, <2>2, <2>3, <2>4, <2>5, <2>6 DEF RequesterStep, RequesterEvent
<1>2. ASSUME NEW d \in Readers, ReaderStep(d) \/ ReaderEvent(d) PROVE Seen
  <2>1. ~ReadDead(d) /\ ~ReadShort(d)
    BY <1>0 DEF ReadDead, ReadShort
  <2> QED BY <1>2, <2>1, ReadPopSeen, ReadQuietSeen, ReadReturnSeen DEF ReaderStep, ReaderEvent
<1>3. ASSUME NEW w \in Writers, WriterStep(w) PROVE Seen
  <2>1. ASSUME NEW m \in inbox PROVE ~WriteUnknown(w, m)
    BY <1>0, NeverUnknown DEF WriteUnknown
  <2> QED BY <1>3, <2>1, WriteFoundSeen, CallbackSeen, InitDoneSeen DEF WriterStep
<1>4. ASSUME NEW a \in Admins PROVE ~AdminStep(a)
  BY <1>0 DEF AliveOk, AdminOk, AdminStep, RejectBegin, RejectOne, RejectEnd, At
<1>5. ASSUME NEW x \in Threads, SharedStep(x) PROVE Seen
  <2>1. ~KillData(x)
    BY <1>0 DEF KillData
  <2>2. ~KillWake(x)
    BY <1>0, RequesterFacts, OtherFacts DEF KillWake, At, Threads
  <2>3. ~UseAfterFree(x)
    BY <1>0, NothingFreed DEF UseAfterFree
  <2> QED BY <1>5, <2>1, <2>2, <2>3, DropSeen, DropPushSeen DEF SharedStep
<1> QED BY <1>1, <1>2, <1>3, <1>4, <1>5, DeviceSeen DEF Next

\* A session that dies, or is dead.
LEMMA DeadSeen ==
    ASSUME TypeInv, dead', dead' \in BOOLEAN
    PROVE  Service!ANext \/ Nothing
<1>1. (\A n \in 1 .. MaxReqs : Stage(n)' = "over") /\ \A r \in Requesters : Calling(r)' = 0 /\ Taken(r)' = 0
  BY DEF Stage, Calling, Taken
<1>2. CASE dead
  <2>1. (\A n \in 1 .. MaxReqs : Stage(n) = "over") /\ \A r \in Requesters : Calling(r) = 0 /\ Taken(r) = 0
    BY <1>2 DEF Stage, Calling, Taken
  <2>2. dead' = dead
    BY <1>2 DEF TypeInv, TypeOK
  <2> QED BY <1>1, <2>1, <2>2, SeenNothing DEF SameCaller
<1>3. CASE ~dead
  <2>1. Service!Die
    BY <1>1, <1>3 DEF Service!Die
  <2> QED BY <2>1 DEF Service!ANext
<1> QED BY <1>2, <1>3

\* A step that changes nothing.
LEMMA StutterSeen ==
    ASSUME UNCHANGED vars
    PROVE  Nothing /\ (RidInv => RidInv')
<1>1. UNCHANGED <<dead, nreq, inbox, pool, ms_head, aw_head, tk, thr>>
  BY DEF vars, sess, queues, env
<1>2. \A n \in 1 .. MaxReqs : Stage(n)' = Stage(n)
  BY <1>1 DEF Stage, IsAnswered, IsDelivered, IsQueued, IsMade, Writes, Keeps, Carries, Pending, Reads, At
<1>3. \A r \in Requesters : SameCaller(r)
  BY <1>1 DEF SameCaller, Calling, Taken, At
<1>4. RidInv => RidInv'
  BY <1>1 DEF RidInv, RidOk, RidThread, RequesterRid, ReaderRid, WriterRid, TicketRid,
          OneRequester, OneTicket, OwnTicket, Busy, Carries
<1> QED BY <1>1, <1>2, <1>3, <1>4, SeenNothing

LEMMA NextSeen ==
    ASSUME TypeInv, HandshakeInv, AliveInv, RidInv, TypeInv', HandshakeInv', AliveInv', [Next]_vars
    PROVE  RidInv' /\ [Service!ANext]_(Service!avars)
<1>1. CASE UNCHANGED vars
  BY <1>1, StutterSeen DEF Nothing
<1>2. CASE Next /\ dead'
  <2>1. dead' \in BOOLEAN
    BY DEF TypeInv, TypeOK
  <2> QED BY <1>2, <2>1, DeadSeen DEF RidInv, Nothing
<1>3. CASE Next /\ ~dead'
  <2>1. ~dead
    BY <1>3, DeadStays
  <2>2. Good /\ Sound'
    BY <1>3, <2>1 DEF Good, Sound, AliveInv, RidInv
  <2>3. Seen
    BY <1>3, <2>2, AliveSeen
  <2> QED BY <2>3 DEF Seen, RidInv, Nothing
<1> QED BY <1>1, <1>2, <1>3

LEMMA InitSeen == Init => RidInv /\ Service!AInit
<1> SUFFICES ASSUME Init PROVE RidInv /\ Service!AInit
  OBVIOUS
<1>1. /\ dead = FALSE /\ ms_head = <<>> /\ aw_head = <<>> /\ inbox = {} /\ nreq = 0
      /\ \A t \in Tickets : tk[t] = NewTicket
      /\ \A x \in Threads : thr[x] = IdleThread
  BY DEF Init
<1>2. ToSet(ms_head) = {} /\ ToSet(aw_head) = {}
  BY <1>1 DEF ToSet
<1>3. \A t \in Tickets : tk[t].rid = 0 /\ tk[t].orid = 0 /\ tk[t].op = "none"
  BY <1>1 DEF NewTicket
<1>4. \A x \in Threads : thr[x].pc = "idle"
  BY <1>1 DEF IdleThread
<1>5. \A x \in Requesters \cup Readers \cup Writers : thr[x].pc = "idle"
  BY <1>4 DEF Threads
<1>6. RidInv
  <2>1. \A x \in Threads : RidThread(x)
    BY <1>4 DEF RidThread, RequesterRid, ReaderRid, WriterRid
  <2>2. \A t \in Tickets : TicketRid(t)
    BY <1>1, <1>2, <1>3 DEF TicketRid, OneWay
  <2>3. OneRequester /\ OwnTicket
    BY <1>5 DEF OneRequester, OwnTicket, Busy
  <2>4. OneTicket
    BY <1>3 DEF OneTicket, Carries
  <2> QED BY <2>1, <2>2, <2>3, <2>4 DEF RidInv, RidOk
<1>7. \A n \in 1 .. MaxReqs : Stage(n) = "none"
  BY <1>1 DEF Stage
<1>8. \A r \in Requesters : Calling(r) = 0 /\ Taken(r) = 0
  BY <1>5 DEF Calling, Taken, InCall, At
<1>9. Service!AInit
  BY <1>1, <1>7, <1>8 DEF Service!AInit
<1> QED BY <1>6, <1>9

\* The message path implements the service, for every set of threads, number of
\* tickets and requests, limit and event: fuse_ticket_fetch, fuse_insert_message,
\* fuse_device_read, fuse_device_write and fuse_dispatcher_wait_answer deliver
\* every message at most once, a caller takes the daemon's answer to its own
\* request or none, and no answer is thrown away under a caller that waits for it.
THEOREM ServiceImplemented == Spec => ImplementsService
<1>1. Init => RidInv /\ Service!AInit
  BY InitSeen
<1>2. /\ TypeInv /\ HandshakeInv /\ AliveInv /\ TypeInv' /\ HandshakeInv' /\ AliveInv'
      /\ RidInv /\ [Next]_vars
      => RidInv' /\ [Service!ANext]_(Service!avars)
  BY NextSeen
<1>3. Spec => [](TypeInv /\ HandshakeInv /\ AliveInv)
  <2>1. TicketInv => AliveInv
    BY DEF TicketInv
  <2> QED BY <2>1, TicketsInOrder, PTL
<1> QED BY <1>1, <1>2, <1>3, PTL DEF Spec, ImplementsService, Service!ASpec
=============================================================================
