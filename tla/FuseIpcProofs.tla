--------------------------- MODULE FuseIpcProofs ---------------------------
(***************************************************************************)
(* Proofs about FuseIpc for any number of threads, tickets and requests,   *)
(* any limits and any set of events: its types, then the handshake.        *)
(*                                                                         *)
(* TypeOK alone is not inductive: a thread that reaches Make with no       *)
(* ticket in hand would update tk outside its domain.  TypeInv adds        *)
(* Holding, which says where a thread has a ticket.  The proof has one     *)
(* lemma per action: the thread's new record is well typed and still       *)
(* holds its ticket, and the rest of the state keeps its type.             *)
(***************************************************************************)
EXTENDS FuseIpc, SequenceTheorems, TLAPS

USE ThreadsAssumption, BoundsAssumption

\* The inductive strengthening of TypeOK.
TypeInv == TypeOK /\ Holding

ThreadInv(f) == f \in [Threads -> ThreadState] /\ \A x \in Threads : HoldOk(f[x])

-----------------------------------------------------------------------------
(* Facts about records and lists *)

\* The places in the code.
LEMMA LabelFacts ==
    /\ "idle" \in Labels /\ "fetch" \in Labels /\ "alloc" \in Labels
    /\ "pushall" \in Labels /\ "ini" \in Labels /\ "made" \in Labels
    /\ "cbins" \in Labels /\ "message" \in Labels /\ "msgins" \in Labels
    /\ "wait" \in Labels /\ "asleep" \in Labels /\ "woken" \in Labels
    /\ "timedout" \in Labels /\ "waited" \in Labels /\ "use" \in Labels
    /\ "drop" \in Labels /\ "push" \in Labels /\ "kill" \in Labels
    /\ "killw" \in Labels /\ "read" \in Labels /\ "rsleep" \in Labels
    /\ "got" \in Labels /\ "found" \in Labels /\ "answer" \in Labels
    /\ "initfail" \in Labels /\ "setinit" \in Labels /\ "reject" \in Labels
    /\ "rejecting" \in Labels
BY DEF Labels

\* The constants of the initial state are well typed.
LEMMA InitialRecords ==
    /\ IdleThread \in ThreadState /\ HoldOk(IdleThread)
    /\ NewTicket \in TicketState
    /\ 0 \in Rids /\ 0 \in Tickets /\ NoTicket \notin Tickets
<1>1. 0 \in Rids /\ 0 \in Tickets /\ NoTicket \notin Tickets
  BY DEF Rids, Tickets, NoTicket
<1>2. IdleThread \in ThreadState
  BY <1>1, LabelFacts DEF IdleThread, ThreadState, Ops
<1>3. HoldOk(IdleThread)
  BY DEF IdleThread, HoldOk, KeepsTicket, DerefLabels
<1>4. NewTicket \in TicketState
  BY <1>1 DEF NewTicket, TicketState, Ops
<1> QED BY <1>1, <1>2, <1>3, <1>4

\* A thread with nothing in hand, at a place that needs no ticket.
LEMMA IdleAt ==
    ASSUME NEW l \in Labels, l \notin KeepsTicket
    PROVE  /\ [IdleThread EXCEPT !.pc = l] \in ThreadState
           /\ HoldOk([IdleThread EXCEPT !.pc = l])
<1>1. [IdleThread EXCEPT !.pc = l] \in ThreadState
  BY InitialRecords DEF ThreadState
<1>2. HoldOk([IdleThread EXCEPT !.pc = l])
  BY DEF IdleThread, HoldOk, KeepsTicket, DerefLabels
<1> QED BY <1>1, <1>2

\* fuse_ticket_refresh returns a ticket.
LEMMA RefreshType ==
    ASSUME NEW s \in TicketState
    PROVE  Refresh(s) \in TicketState
BY InitialRecords DEF Refresh, TicketState

\* A header and an answer leave a ticket a ticket.
LEMMA HeadedType ==
    ASSUME NEW s \in TicketState, NEW o \in Ops, NEW n \in Rids, NEW callback \in BOOLEAN
    PROVE  Headed(s, o, n, callback) \in TicketState
<1>1. (s.invalid \/ o \in OneWay) \in BOOLEAN
  OBVIOUS
<1>2. (IF ~callback THEN s.cb ELSE CallbackOf(o)) \in {"none", "standard", "init", "forget"}
  BY DEF TicketState, CallbackOf
<1> QED BY <1>1, <1>2 DEF Headed, TicketState

\* A ticket that fuse_ticket_pull has filled is well typed.
LEMMA PulledType ==
    ASSUME NEW s \in TicketState, NEW me \in ThreadState
    PROVE  Pulled(s, me) \in TicketState
<1>1. me.arid \in Rids
  BY DEF ThreadState
<1>2. (me.kind = "errreply") \in BOOLEAN /\ (s.killed \/ (me.kind = "enomem" /\ ~dead)) \in BOOLEAN
  OBVIOUS
<1> QED BY <1>1, <1>2 DEF Pulled, TicketState

\* Changing one thread's record.
LEMMA UpdateThread ==
    ASSUME NEW f, ThreadInv(f), NEW x \in Threads, NEW s \in ThreadState, HoldOk(s)
    PROVE  ThreadInv([f EXCEPT ![x] = s])
BY DEF ThreadInv

\* Changing one ticket.
LEMMA UpdateTicket ==
    ASSUME tk \in [Tickets -> TicketState], NEW t \in Tickets, NEW s \in TicketState
    PROVE  [tk EXCEPT ![t] = s] \in [Tickets -> TicketState]
OBVIOUS

\* The queues and lists stay sequences of tickets.
LEMMA QueueType ==
    ASSUME NEW q \in Seq(Tickets), NEW t \in Tickets
    PROVE  /\ Append(q, t) \in Seq(Tickets)
           /\ q # <<>> => Tail(q) \in Seq(Tickets) /\ Head(q) \in Tickets
           /\ \A i \in DOMAIN q : RemoveAt(q, i) \in Seq(Tickets)
           /\ FreeInsert(q, t) \in Seq(Tickets)
           /\ \A i \in DOMAIN q : q[i] \in Tickets
<1>1. Append(q, t) \in Seq(Tickets)
  OBVIOUS
<1>2. q # <<>> => Tail(q) \in Seq(Tickets) /\ Head(q) \in Tickets
  OBVIOUS
<1>3. \A i \in DOMAIN q : q[i] \in Tickets
  OBVIOUS
<1>4. ASSUME NEW i \in DOMAIN q PROVE RemoveAt(q, i) \in Seq(Tickets)
  <2>1. SubSeq(q, 1, i - 1) \in Seq(Tickets) /\ SubSeq(q, i + 1, Len(q)) \in Seq(Tickets)
    BY SubSeqProperties
  <2> QED BY <2>1, ConcatProperties DEF RemoveAt
<1>5. FreeInsert(q, t) \in Seq(Tickets)
  <2>1. ASSUME t \in ToSet(q) PROVE SubSeq(q, 1, CHOOSE i \in DOMAIN q : q[i] = t) \in Seq(Tickets)
    <3>1. (CHOOSE i \in DOMAIN q : q[i] = t) \in DOMAIN q
      BY <2>1 DEF ToSet
    <3>2. \A i \in DOMAIN q : SubSeq(q, 1, i) \in Seq(Tickets)
      BY SubSeqProperties
    <3> QED BY <3>1, <3>2
  <2> QED BY <2>1, <1>1 DEF FreeInsert
<1> QED BY <1>1, <1>2, <1>3, <1>4, <1>5

-----------------------------------------------------------------------------
(* The wakeups, and the parts of a state *)

\* fuse_wakeup_one(data) moves a reader to a place that needs no ticket.
LEMMA WakeOneReaderType ==
    ASSUME NEW f, ThreadInv(f), WakeOneReader(f)
    PROVE  ThreadInv(thr')
<1>1. ASSUME NEW d \in Readers, thr' = [f EXCEPT ![d].pc = "read"] PROVE ThreadInv(thr')
  <2> DEFINE s == [f[d] EXCEPT !.pc = "read"]
  <2>1. d \in Threads /\ f[d] \in ThreadState /\ HoldOk(f[d])
    BY DEF Threads, ThreadInv
  <2>2. s \in ThreadState
    BY <2>1, LabelFacts DEF ThreadState
  <2>3. HoldOk(s)
    BY <2>1 DEF ThreadState, HoldOk, KeepsTicket, DerefLabels
  <2>4. thr' = [f EXCEPT ![d] = s]
    BY <1>1, <2>1 DEF ThreadInv
  <2> HIDE DEF s
  <2> QED BY <2>1, <2>2, <2>3, <2>4, UpdateThread
<1> QED BY <1>1 DEF WakeOneReader

\* fuse_wakeup(&data->ticketer): a fetch that slept has its ticket.
LEMMA WakeIniType ==
    ASSUME NEW f, ThreadInv(f)
    PROVE  ThreadInv(WakeIni(f))
<1>1. ASSUME NEW x \in Threads, f[x].pc = "ini"
      PROVE  /\ [f[x] EXCEPT !.pc = "made"] \in ThreadState
             /\ HoldOk([f[x] EXCEPT !.pc = "made"])
  <2>1. f[x] \in ThreadState /\ HoldOk(f[x])
    BY DEF ThreadInv
  <2>2. [f[x] EXCEPT !.pc = "made"] \in ThreadState
    BY <2>1, LabelFacts DEF ThreadState
  <2>3. HoldOk([f[x] EXCEPT !.pc = "made"])
    BY <2>1, <1>1 DEF ThreadState, HoldOk, KeepsTicket, DerefLabels
  <2> QED BY <2>2, <2>3
<1> QED BY <1>1 DEF ThreadInv, WakeIni

\* fuse_wakeup(ticket): a waiter keeps its ticket.
LEMMA WakeTicketType ==
    ASSUME NEW f, ThreadInv(f), NEW t
    PROVE  ThreadInv(WakeTicket(f, t))
<1>1. ASSUME NEW x \in Threads, f[x].pc = "asleep"
      PROVE  /\ [f[x] EXCEPT !.pc = "woken"] \in ThreadState
             /\ HoldOk([f[x] EXCEPT !.pc = "woken"])
  <2>1. f[x] \in ThreadState /\ HoldOk(f[x])
    BY DEF ThreadInv
  <2>2. [f[x] EXCEPT !.pc = "woken"] \in ThreadState
    BY <2>1, LabelFacts DEF ThreadState
  <2>3. HoldOk([f[x] EXCEPT !.pc = "woken"])
    BY <2>1, <1>1 DEF ThreadState, HoldOk, KeepsTicket, DerefLabels
  <2> QED BY <2>2, <2>3
<1> QED BY <1>1 DEF ThreadInv, WakeTicket

\* What TypeInv says of one thread.
LEMMA ThreadFacts ==
    ASSUME TypeInv, NEW x \in Threads
    PROVE  /\ ThreadInv(thr)
           /\ thr[x] \in ThreadState /\ HoldOk(thr[x])
           /\ thr[x].pc \in Labels /\ thr[x].ret \in Labels /\ thr[x].op \in Ops
           /\ thr[x].rid \in Rids /\ thr[x].arid \in Rids /\ thr[x].pos \in Nat
           /\ thr[x].perr \in BOOLEAN
           /\ thr[x].tkt \in Tickets \cup {NoTicket}
           /\ thr[x].pc \in KeepsTicket => thr[x].tkt \in Tickets /\ tk[thr[x].tkt] \in TicketState
<1>1. ThreadInv(thr) /\ thr[x] \in ThreadState /\ HoldOk(thr[x])
  BY DEF TypeInv, TypeOK, Holding, ThreadInv
<1>2. /\ thr[x].pc \in Labels /\ thr[x].ret \in Labels /\ thr[x].op \in Ops
      /\ thr[x].rid \in Rids /\ thr[x].arid \in Rids /\ thr[x].pos \in Nat
      /\ thr[x].perr \in BOOLEAN
      /\ thr[x].tkt \in Tickets \cup {NoTicket}
  BY <1>1 DEF ThreadState
<1>3. thr[x].pc \in KeepsTicket => thr[x].tkt \in Tickets /\ tk[thr[x].tkt] \in TicketState
  BY <1>1 DEF HoldOk, TypeInv, TypeOK
<1> QED BY <1>1, <1>2, <1>3

\* The four kinds of threads.
LEMMA ThreadsAre ==
    Requesters \subseteq Threads /\ Readers \subseteq Threads /\ Writers \subseteq Threads
    /\ Admins \subseteq Threads /\ Killer \in Threads /\ Closer \in Threads
BY DEF Threads, Admins

\* A step that changes threads and tickets only.
LEMMA OnlyThreads ==
    ASSUME TypeInv, ThreadInv(thr'), tk' \in [Tickets -> TicketState],
           UNCHANGED <<sess, queues, pool, env, panic>>
    PROVE  TypeInv'
BY DEF TypeInv, TypeOK, Holding, ThreadInv, sess, queues, env

-----------------------------------------------------------------------------
(* Each action preserves TypeInv *)

\* FetchNone keeps the types.
LEMMA FetchNoneType ==
    ASSUME TypeInv, NEW r \in Requesters, FetchNone(r)
    PROVE  TypeInv'
<1> DEFINE s == [thr[r] EXCEPT !.pc = "alloc"]
<1>1. /\ r \in Threads /\ ThreadInv(thr) /\ thr[r] \in ThreadState
      /\ HoldOk(thr[r])
  BY ThreadsAre, ThreadFacts
<1>2. s \in ThreadState
  BY <1>1, ThreadFacts, LabelFacts, InitialRecords DEF ThreadState
<1>3. HoldOk(s)
  BY <1>1 DEF FetchNone, At, ThreadState, HoldOk, KeepsTicket, DerefLabels
<1>4. thr' = [thr EXCEPT ![r] = s]
  BY <1>1 DEF FetchNone, ThreadInv
<1>5. ThreadInv(thr')
  <2> HIDE DEF s
  <2> QED BY <1>1, <1>2, <1>3, <1>4, UpdateThread
<1>6. tk' \in [Tickets -> TicketState]
  BY DEF FetchNone, TypeInv, TypeOK
<1> QED BY <1>5, <1>6, OnlyThreads DEF FetchNone

\* IniSignal keeps the types.
LEMMA IniSignalType ==
    ASSUME TypeInv, NEW r \in Requesters, IniSignal(r)
    PROVE  TypeInv'
<1> DEFINE s == [thr[r] EXCEPT !.pc = "kill"]
<1>1. /\ r \in Threads /\ ThreadInv(thr) /\ thr[r] \in ThreadState
      /\ HoldOk(thr[r])
  BY ThreadsAre, ThreadFacts
<1>2. s \in ThreadState
  BY <1>1, ThreadFacts, LabelFacts, InitialRecords DEF ThreadState
<1>3. HoldOk(s)
  BY <1>1 DEF IniSignal, At, ThreadState, HoldOk, KeepsTicket, DerefLabels
<1>4. thr' = [thr EXCEPT ![r] = s]
  BY <1>1 DEF IniSignal, ThreadInv
<1>5. ThreadInv(thr')
  <2> HIDE DEF s
  <2> QED BY <1>1, <1>2, <1>3, <1>4, UpdateThread
<1>6. tk' \in [Tickets -> TicketState]
  BY DEF IniSignal, TypeInv, TypeOK
<1> QED BY <1>5, <1>6, OnlyThreads DEF IniSignal

\* Make keeps the types.
LEMMA MakeType ==
    ASSUME TypeInv, NEW r \in Requesters, Make(r)
    PROVE  TypeInv'
<1> DEFINE s == [thr[r] EXCEPT !.pc = IF ~dead /\ thr[r].op \notin OneWay THEN "cbins" ELSE "message"]
<1>1. /\ r \in Threads /\ ThreadInv(thr) /\ thr[r] \in ThreadState
      /\ HoldOk(thr[r])
  BY ThreadsAre, ThreadFacts
<1>2. s \in ThreadState
  BY <1>1, ThreadFacts, LabelFacts, InitialRecords DEF ThreadState
<1>3. HoldOk(s)
  BY <1>1 DEF Make, At, ThreadState, HoldOk, KeepsTicket, DerefLabels
<1>4. thr' = [thr EXCEPT ![r] = s]
  BY <1>1 DEF Make, ThreadInv
<1>5. ThreadInv(thr')
  <2> HIDE DEF s
  <2> QED BY <1>1, <1>2, <1>3, <1>4, UpdateThread
<1>6. tk' \in [Tickets -> TicketState]
  <2> DEFINE t == thr[r].tkt
             u == Headed(tk[t], thr[r].op, thr[r].rid, ~dead /\ thr[r].op \notin OneWay)
  <2>1. t \in Tickets /\ tk[t] \in TicketState
    BY <1>1, ThreadFacts DEF Make, At, KeepsTicket, DerefLabels
  <2>2. u \in TicketState
    BY <1>1, <2>1, ThreadFacts, HeadedType
  <2>3. tk' = [tk EXCEPT ![t] = u]
    BY <2>1 DEF Make, TypeInv, TypeOK
  <2> QED BY <2>1, <2>2, <2>3 DEF TypeInv, TypeOK
<1> QED BY <1>5, <1>6, OnlyThreads DEF Make

\* InsertMessageTest keeps the types.
LEMMA InsertMessageTestType ==
    ASSUME TypeInv, NEW r \in Requesters, InsertMessageTest(r)
    PROVE  TypeInv'
<1> DEFINE s == [thr[r] EXCEPT !.pc = "msgins"]
<1>1. /\ r \in Threads /\ ThreadInv(thr) /\ thr[r] \in ThreadState
      /\ HoldOk(thr[r])
  BY ThreadsAre, ThreadFacts
<1>2. s \in ThreadState
  BY <1>1, ThreadFacts, LabelFacts, InitialRecords DEF ThreadState
<1>3. HoldOk(s)
  BY <1>1 DEF InsertMessageTest, At, ThreadState, HoldOk, KeepsTicket, DerefLabels
<1>4. thr' = [thr EXCEPT ![r] = s]
  BY <1>1 DEF InsertMessageTest, ThreadInv
<1>5. ThreadInv(thr')
  <2> HIDE DEF s
  <2> QED BY <1>1, <1>2, <1>3, <1>4, UpdateThread
<1>6. tk' \in [Tickets -> TicketState]
  <2> DEFINE t == thr[r].tkt
             u == [tk[t] EXCEPT !.dirty = TRUE]
  <2>1. t \in Tickets /\ tk[t] \in TicketState
    BY <1>1, ThreadFacts DEF InsertMessageTest, At, KeepsTicket, DerefLabels
  <2>2. u \in TicketState
    BY <1>1, <2>1, ThreadFacts DEF TicketState
  <2>3. tk' = [tk EXCEPT ![t] = u]
    BY <2>1 DEF InsertMessageTest, TypeInv, TypeOK
  <2> QED BY <2>1, <2>2, <2>3 DEF TypeInv, TypeOK
<1> QED BY <1>5, <1>6, OnlyThreads DEF InsertMessageTest

\* WaitAnswered keeps the types.
LEMMA WaitAnsweredType ==
    ASSUME TypeInv, NEW r \in Requesters, WaitAnswered(r)
    PROVE  TypeInv'
<1> DEFINE s == [thr[r] EXCEPT !.pc = "waited"]
<1>1. /\ r \in Threads /\ ThreadInv(thr) /\ thr[r] \in ThreadState
      /\ HoldOk(thr[r])
  BY ThreadsAre, ThreadFacts
<1>2. s \in ThreadState
  BY <1>1, ThreadFacts, LabelFacts, InitialRecords DEF ThreadState
<1>3. HoldOk(s)
  BY <1>1 DEF WaitAnswered, At, ThreadState, HoldOk, KeepsTicket, DerefLabels
<1>4. thr' = [thr EXCEPT ![r] = s]
  BY <1>1 DEF WaitAnswered, ThreadInv
<1>5. ThreadInv(thr')
  <2> HIDE DEF s
  <2> QED BY <1>1, <1>2, <1>3, <1>4, UpdateThread
<1>6. tk' \in [Tickets -> TicketState]
  BY DEF WaitAnswered, TypeInv, TypeOK
<1> QED BY <1>5, <1>6, OnlyThreads DEF WaitAnswered

\* WaitDead keeps the types.
LEMMA WaitDeadType ==
    ASSUME TypeInv, NEW r \in Requesters, WaitDead(r)
    PROVE  TypeInv'
<1> DEFINE s == [thr[r] EXCEPT !.pc = "waited", !.err = "ENOTCONN"]
<1>1. /\ r \in Threads /\ ThreadInv(thr) /\ thr[r] \in ThreadState
      /\ HoldOk(thr[r])
  BY ThreadsAre, ThreadFacts
<1>2. s \in ThreadState
  BY <1>1, ThreadFacts, LabelFacts, InitialRecords DEF ThreadState
<1>3. HoldOk(s)
  BY <1>1 DEF WaitDead, At, ThreadState, HoldOk, KeepsTicket, DerefLabels
<1>4. thr' = [thr EXCEPT ![r] = s]
  BY <1>1 DEF WaitDead, ThreadInv
<1>5. ThreadInv(thr')
  <2> HIDE DEF s
  <2> QED BY <1>1, <1>2, <1>3, <1>4, UpdateThread
<1>6. tk' \in [Tickets -> TicketState]
  <2> DEFINE t == thr[r].tkt
             u == [tk[t] EXCEPT !.answered = TRUE]
  <2>1. t \in Tickets /\ tk[t] \in TicketState
    BY <1>1, ThreadFacts DEF WaitDead, At, KeepsTicket, DerefLabels
  <2>2. u \in TicketState
    BY <1>1, <2>1, ThreadFacts DEF TicketState
  <2>3. tk' = [tk EXCEPT ![t] = u]
    BY <2>1 DEF WaitDead, TypeInv, TypeOK
  <2> QED BY <2>1, <2>2, <2>3 DEF TypeInv, TypeOK
<1> QED BY <1>5, <1>6, OnlyThreads DEF WaitDead

\* WaitSleep keeps the types.
LEMMA WaitSleepType ==
    ASSUME TypeInv, NEW r \in Requesters, WaitSleep(r)
    PROVE  TypeInv'
<1> DEFINE s == [thr[r] EXCEPT !.pc = "asleep"]
<1>1. /\ r \in Threads /\ ThreadInv(thr) /\ thr[r] \in ThreadState
      /\ HoldOk(thr[r])
  BY ThreadsAre, ThreadFacts
<1>2. s \in ThreadState
  BY <1>1, ThreadFacts, LabelFacts, InitialRecords DEF ThreadState
<1>3. HoldOk(s)
  BY <1>1 DEF WaitSleep, At, ThreadState, HoldOk, KeepsTicket, DerefLabels
<1>4. thr' = [thr EXCEPT ![r] = s]
  BY <1>1 DEF WaitSleep, ThreadInv
<1>5. ThreadInv(thr')
  <2> HIDE DEF s
  <2> QED BY <1>1, <1>2, <1>3, <1>4, UpdateThread
<1>6. tk' \in [Tickets -> TicketState]
  BY DEF WaitSleep, TypeInv, TypeOK
<1> QED BY <1>5, <1>6, OnlyThreads DEF WaitSleep

\* Woken keeps the types.
LEMMA WokenType ==
    ASSUME TypeInv, NEW r \in Requesters, Woken(r)
    PROVE  TypeInv'
<1> DEFINE s == [thr[r] EXCEPT !.pc = "waited", !.err = IF tk[thr[r].tkt].answered THEN "none" ELSE "ENXIO"]
<1>1. /\ r \in Threads /\ ThreadInv(thr) /\ thr[r] \in ThreadState
      /\ HoldOk(thr[r])
  BY ThreadsAre, ThreadFacts
<1>2. s \in ThreadState
  BY <1>1, ThreadFacts, LabelFacts, InitialRecords DEF ThreadState
<1>3. HoldOk(s)
  BY <1>1 DEF Woken, At, ThreadState, HoldOk, KeepsTicket, DerefLabels
<1>4. thr' = [thr EXCEPT ![r] = s]
  BY <1>1 DEF Woken, ThreadInv
<1>5. ThreadInv(thr')
  <2> HIDE DEF s
  <2> QED BY <1>1, <1>2, <1>3, <1>4, UpdateThread
<1>6. tk' \in [Tickets -> TicketState]
  BY DEF Woken, TypeInv, TypeOK
<1> QED BY <1>5, <1>6, OnlyThreads DEF Woken

\* Timeout keeps the types.
LEMMA TimeoutType ==
    ASSUME TypeInv, NEW r \in Requesters, Timeout(r)
    PROVE  TypeInv'
<1> DEFINE s == [thr[r] EXCEPT !.pc = "kill", !.ret = "timedout"]
<1>1. /\ r \in Threads /\ ThreadInv(thr) /\ thr[r] \in ThreadState
      /\ HoldOk(thr[r])
  BY ThreadsAre, ThreadFacts
<1>2. s \in ThreadState
  BY <1>1, ThreadFacts, LabelFacts, InitialRecords DEF ThreadState
<1>3. HoldOk(s)
  BY <1>1 DEF Timeout, At, ThreadState, HoldOk, KeepsTicket, DerefLabels
<1>4. thr' = [thr EXCEPT ![r] = s]
  BY <1>1 DEF Timeout, ThreadInv
<1>5. ThreadInv(thr')
  <2> HIDE DEF s
  <2> QED BY <1>1, <1>2, <1>3, <1>4, UpdateThread
<1>6. tk' \in [Tickets -> TicketState]
  BY DEF Timeout, TypeInv, TypeOK
<1> QED BY <1>5, <1>6, OnlyThreads DEF Timeout

\* TimedOut keeps the types.
LEMMA TimedOutType ==
    ASSUME TypeInv, NEW r \in Requesters, TimedOut(r)
    PROVE  TypeInv'
<1> DEFINE s == [thr[r] EXCEPT !.pc = "waited", !.err = "ENOTCONN"]
<1>1. /\ r \in Threads /\ ThreadInv(thr) /\ thr[r] \in ThreadState
      /\ HoldOk(thr[r])
  BY ThreadsAre, ThreadFacts
<1>2. s \in ThreadState
  BY <1>1, ThreadFacts, LabelFacts, InitialRecords DEF ThreadState
<1>3. HoldOk(s)
  BY <1>1 DEF TimedOut, At, ThreadState, HoldOk, KeepsTicket, DerefLabels
<1>4. thr' = [thr EXCEPT ![r] = s]
  BY <1>1 DEF TimedOut, ThreadInv
<1>5. ThreadInv(thr')
  <2> HIDE DEF s
  <2> QED BY <1>1, <1>2, <1>3, <1>4, UpdateThread
<1>6. tk' \in [Tickets -> TicketState]
  <2> DEFINE t == thr[r].tkt
             u == [tk[t] EXCEPT !.answered = TRUE]
  <2>1. t \in Tickets /\ tk[t] \in TicketState
    BY <1>1, ThreadFacts DEF TimedOut, At, KeepsTicket, DerefLabels
  <2>2. u \in TicketState
    BY <1>1, <2>1, ThreadFacts DEF TicketState
  <2>3. tk' = [tk EXCEPT ![t] = u]
    BY <2>1 DEF TimedOut, TypeInv, TypeOK
  <2> QED BY <2>1, <2>2, <2>3 DEF TypeInv, TypeOK
<1> QED BY <1>5, <1>6, OnlyThreads DEF TimedOut

\* Interrupted keeps the types.
LEMMA InterruptedType ==
    ASSUME TypeInv, NEW r \in Requesters, Interrupted(r)
    PROVE  TypeInv'
<1> DEFINE s == [thr[r] EXCEPT !.pc = "fetch", !.saved = thr[r].tkt, !.tkt = NoTicket, !.op = "INTERRUPT", !.err = "EINTR"]
<1>1. /\ r \in Threads /\ ThreadInv(thr) /\ thr[r] \in ThreadState
      /\ HoldOk(thr[r])
  BY ThreadsAre, ThreadFacts
<1>2. s \in ThreadState
  BY <1>1, ThreadFacts, LabelFacts, InitialRecords DEF ThreadState, Ops, OneWay
<1>3. HoldOk(s)
  BY <1>1 DEF Interrupted, At, ThreadState, HoldOk, KeepsTicket, DerefLabels
<1>4. thr' = [thr EXCEPT ![r] = s]
  BY <1>1 DEF Interrupted, ThreadInv
<1>5. ThreadInv(thr')
  <2> HIDE DEF s
  <2> QED BY <1>1, <1>2, <1>3, <1>4, UpdateThread
<1>6. tk' \in [Tickets -> TicketState]
  BY DEF Interrupted, TypeInv, TypeOK
<1> QED BY <1>5, <1>6, OnlyThreads DEF Interrupted

\* WaitedDrop keeps the types.
LEMMA WaitedDropType ==
    ASSUME TypeInv, NEW r \in Requesters, WaitedDrop(r)
    PROVE  TypeInv'
<1> DEFINE s == [thr[r] EXCEPT !.pc = "drop", !.ret = "idle", !.err = "none"]
<1>1. /\ r \in Threads /\ ThreadInv(thr) /\ thr[r] \in ThreadState
      /\ HoldOk(thr[r])
  BY ThreadsAre, ThreadFacts
<1>2. s \in ThreadState
  BY <1>1, ThreadFacts, LabelFacts, InitialRecords DEF ThreadState
<1>3. HoldOk(s)
  BY <1>1 DEF WaitedDrop, At, ThreadState, HoldOk, KeepsTicket, DerefLabels
<1>4. thr' = [thr EXCEPT ![r] = s]
  BY <1>1 DEF WaitedDrop, ThreadInv
<1>5. ThreadInv(thr')
  <2> HIDE DEF s
  <2> QED BY <1>1, <1>2, <1>3, <1>4, UpdateThread
<1>6. tk' \in [Tickets -> TicketState]
  BY DEF WaitedDrop, TypeInv, TypeOK
<1> QED BY <1>5, <1>6, OnlyThreads DEF WaitedDrop

\* WaitedDetach keeps the types.
LEMMA WaitedDetachType ==
    ASSUME TypeInv, NEW r \in Requesters, WaitedDetach(r)
    PROVE  TypeInv'
<1> DEFINE s == IdleThread
<1>1. /\ r \in Threads /\ ThreadInv(thr) /\ thr[r] \in ThreadState
      /\ HoldOk(thr[r])
  BY ThreadsAre, ThreadFacts
<1>2. s \in ThreadState
  BY <1>1, ThreadFacts, LabelFacts, InitialRecords DEF ThreadState
<1>3. HoldOk(s)
  BY <1>1 DEF WaitedDetach, At, ThreadState, HoldOk, KeepsTicket, DerefLabels, IdleThread
<1>4. thr' = [thr EXCEPT ![r] = s]
  BY <1>1 DEF WaitedDetach, ThreadInv
<1>5. ThreadInv(thr')
  <2> HIDE DEF s
  <2> QED BY <1>1, <1>2, <1>3, <1>4, UpdateThread
<1>6. tk' \in [Tickets -> TicketState]
  <2> DEFINE t == thr[r].tkt
             u == [tk[t] EXCEPT !.answered = TRUE]
  <2>1. t \in Tickets /\ tk[t] \in TicketState
    BY <1>1, ThreadFacts DEF WaitedDetach, At, KeepsTicket, DerefLabels
  <2>2. u \in TicketState
    BY <1>1, <2>1, ThreadFacts DEF TicketState
  <2>3. tk' = [tk EXCEPT ![t] = u]
    BY <2>1 DEF WaitedDetach, TypeInv, TypeOK
  <2> QED BY <2>1, <2>2, <2>3 DEF TypeInv, TypeOK
<1> QED BY <1>5, <1>6, OnlyThreads DEF WaitedDetach

\* WaitedOk keeps the types.
LEMMA WaitedOkType ==
    ASSUME TypeInv, NEW r \in Requesters, WaitedOk(r)
    PROVE  TypeInv'
<1> DEFINE s == [thr[r] EXCEPT !.pc = "use"]
<1>1. /\ r \in Threads /\ ThreadInv(thr) /\ thr[r] \in ThreadState
      /\ HoldOk(thr[r])
  BY ThreadsAre, ThreadFacts
<1>2. s \in ThreadState
  BY <1>1, ThreadFacts, LabelFacts, InitialRecords DEF ThreadState
<1>3. HoldOk(s)
  BY <1>1 DEF WaitedOk, At, ThreadState, HoldOk, KeepsTicket, DerefLabels
<1>4. thr' = [thr EXCEPT ![r] = s]
  BY <1>1 DEF WaitedOk, ThreadInv
<1>5. ThreadInv(thr')
  <2> HIDE DEF s
  <2> QED BY <1>1, <1>2, <1>3, <1>4, UpdateThread
<1>6. tk' \in [Tickets -> TicketState]
  BY DEF WaitedOk, TypeInv, TypeOK
<1> QED BY <1>5, <1>6, OnlyThreads DEF WaitedOk

\* UseDone keeps the types.
LEMMA UseDoneType ==
    ASSUME TypeInv, NEW r \in Requesters, UseDone(r)
    PROVE  TypeInv'
<1> DEFINE s == [thr[r] EXCEPT !.pc = "drop", !.ret = "idle"]
<1>1. /\ r \in Threads /\ ThreadInv(thr) /\ thr[r] \in ThreadState
      /\ HoldOk(thr[r])
  BY ThreadsAre, ThreadFacts
<1>2. s \in ThreadState
  BY <1>1, ThreadFacts, LabelFacts, InitialRecords DEF ThreadState
<1>3. HoldOk(s)
  BY <1>1 DEF UseDone, At, ThreadState, HoldOk, KeepsTicket, DerefLabels
<1>4. thr' = [thr EXCEPT ![r] = s]
  BY <1>1 DEF UseDone, ThreadInv
<1>5. ThreadInv(thr')
  <2> HIDE DEF s
  <2> QED BY <1>1, <1>2, <1>3, <1>4, UpdateThread
<1>6. tk' \in [Tickets -> TicketState]
  BY DEF UseDone, TypeInv, TypeOK
<1> QED BY <1>5, <1>6, OnlyThreads DEF UseDone

\* ReadSleep keeps the types.
LEMMA ReadSleepType ==
    ASSUME TypeInv, NEW d \in Readers, ReadSleep(d)
    PROVE  TypeInv'
<1> DEFINE s == [thr[d] EXCEPT !.pc = "rsleep"]
<1>1. /\ d \in Threads /\ ThreadInv(thr) /\ thr[d] \in ThreadState
      /\ HoldOk(thr[d])
  BY ThreadsAre, ThreadFacts
<1>2. s \in ThreadState
  BY <1>1, ThreadFacts, LabelFacts, InitialRecords DEF ThreadState
<1>3. HoldOk(s)
  BY <1>1 DEF ReadSleep, At, ThreadState, HoldOk, KeepsTicket, DerefLabels
<1>4. thr' = [thr EXCEPT ![d] = s]
  BY <1>1 DEF ReadSleep, ThreadInv
<1>5. ThreadInv(thr')
  <2> HIDE DEF s
  <2> QED BY <1>1, <1>2, <1>3, <1>4, UpdateThread
<1>6. tk' \in [Tickets -> TicketState]
  BY DEF ReadSleep, TypeInv, TypeOK
<1> QED BY <1>5, <1>6, OnlyThreads DEF ReadSleep

\* ReadDead keeps the types.
LEMMA ReadDeadType ==
    ASSUME TypeInv, NEW d \in Readers, ReadDead(d)
    PROVE  TypeInv'
<1> DEFINE s == [thr[d] EXCEPT !.pc = "idle"]
<1>1. /\ d \in Threads /\ ThreadInv(thr) /\ thr[d] \in ThreadState
      /\ HoldOk(thr[d])
  BY ThreadsAre, ThreadFacts
<1>2. s \in ThreadState
  BY <1>1, ThreadFacts, LabelFacts, InitialRecords DEF ThreadState
<1>3. HoldOk(s)
  BY <1>1 DEF ReadDead, At, ThreadState, HoldOk, KeepsTicket, DerefLabels
<1>4. thr' = [thr EXCEPT ![d] = s]
  BY <1>1 DEF ReadDead, ThreadInv
<1>5. ThreadInv(thr')
  <2> HIDE DEF s
  <2> QED BY <1>1, <1>2, <1>3, <1>4, UpdateThread
<1>6. tk' \in [Tickets -> TicketState]
  BY DEF ReadDead, TypeInv, TypeOK
<1> QED BY <1>5, <1>6, OnlyThreads DEF ReadDead

\* ReadSignal keeps the types.
LEMMA ReadSignalType ==
    ASSUME TypeInv, NEW d \in Readers, ReadSignal(d)
    PROVE  TypeInv'
<1> DEFINE s == [thr[d] EXCEPT !.pc = "idle"]
<1>1. /\ d \in Threads /\ ThreadInv(thr) /\ thr[d] \in ThreadState
      /\ HoldOk(thr[d])
  BY ThreadsAre, ThreadFacts
<1>2. s \in ThreadState
  BY <1>1, ThreadFacts, LabelFacts, InitialRecords DEF ThreadState
<1>3. HoldOk(s)
  BY <1>1 DEF ReadSignal, At, ThreadState, HoldOk, KeepsTicket, DerefLabels
<1>4. thr' = [thr EXCEPT ![d] = s]
  BY <1>1 DEF ReadSignal, ThreadInv
<1>5. ThreadInv(thr')
  <2> HIDE DEF s
  <2> QED BY <1>1, <1>2, <1>3, <1>4, UpdateThread
<1>6. tk' \in [Tickets -> TicketState]
  BY DEF ReadSignal, TypeInv, TypeOK
<1> QED BY <1>5, <1>6, OnlyThreads DEF ReadSignal

\* ReadNothing keeps the types.
LEMMA ReadNothingType ==
    ASSUME TypeInv, NEW d \in Readers, ReadNothing(d)
    PROVE  TypeInv'
<1> DEFINE s == IF tk[thr[d].tkt].invalid
               THEN [thr[d] EXCEPT !.pc = "drop", !.ret = "idle"] ELSE IdleThread
<1>1. /\ d \in Threads /\ ThreadInv(thr) /\ thr[d] \in ThreadState
      /\ HoldOk(thr[d])
  BY ThreadsAre, ThreadFacts
<1>2. s \in ThreadState
  BY <1>1, ThreadFacts, LabelFacts, InitialRecords DEF ThreadState
<1>3. HoldOk(s)
  BY <1>1 DEF ReadNothing, At, ThreadState, HoldOk, KeepsTicket, DerefLabels, IdleThread
<1>4. thr' = [thr EXCEPT ![d] = s]
  BY <1>1 DEF ReadNothing, ThreadInv, ReadReturn
<1>5. ThreadInv(thr')
  <2> HIDE DEF s
  <2> QED BY <1>1, <1>2, <1>3, <1>4, UpdateThread
<1>6. tk' \in [Tickets -> TicketState]
  BY DEF ReadNothing, TypeInv, TypeOK
<1> QED BY <1>5, <1>6, OnlyThreads DEF ReadNothing

\* Pull keeps the types.
LEMMA PullType ==
    ASSUME TypeInv, NEW w \in Writers, Pull(w)
    PROVE  TypeInv'
<1> DEFINE s == [thr[w] EXCEPT !.pc = "answer", !.perr = PullError(w)]
<1>1. /\ w \in Threads /\ ThreadInv(thr) /\ thr[w] \in ThreadState
      /\ HoldOk(thr[w])
  BY ThreadsAre, ThreadFacts
<1>2. s \in ThreadState
  BY <1>1, ThreadFacts, LabelFacts, InitialRecords DEF ThreadState, PullError
<1>3. HoldOk(s)
  BY <1>1 DEF Pull, At, ThreadState, HoldOk, KeepsTicket, DerefLabels
<1>4. thr' = [thr EXCEPT ![w] = s]
  BY <1>1 DEF Pull, ThreadInv
<1>5. ThreadInv(thr')
  <2> HIDE DEF s
  <2> QED BY <1>1, <1>2, <1>3, <1>4, UpdateThread
<1>6. tk' \in [Tickets -> TicketState]
  <2> DEFINE t == thr[w].tkt
             u == Pulled(tk[t], thr[w])
  <2>1. t \in Tickets /\ tk[t] \in TicketState
    BY <1>1, ThreadFacts DEF Pull, At, KeepsTicket, DerefLabels
  <2>2. u \in TicketState
    BY <1>1, <2>1, ThreadFacts, PulledType
  <2>3. tk' = [tk EXCEPT ![t] = u]
    BY <2>1 DEF Pull, TypeInv, TypeOK
  <2> QED BY <2>1, <2>2, <2>3 DEF TypeInv, TypeOK
<1> QED BY <1>5, <1>6, OnlyThreads DEF Pull

\* AnswerDrop keeps the types.
LEMMA AnswerDropType ==
    ASSUME TypeInv, NEW w \in Writers, AnswerDrop(w)
    PROVE  TypeInv'
<1> DEFINE s == [IdleThread EXCEPT !.pc = "drop", !.tkt = thr[w].tkt]
<1>1. /\ w \in Threads /\ ThreadInv(thr) /\ thr[w] \in ThreadState
      /\ HoldOk(thr[w])
  BY ThreadsAre, ThreadFacts
<1>2. s \in ThreadState
  BY <1>1, ThreadFacts, LabelFacts, InitialRecords DEF ThreadState
<1>3. HoldOk(s)
  BY <1>1 DEF AnswerDrop, At, ThreadState, HoldOk, KeepsTicket, DerefLabels, IdleThread
<1>4. thr' = [thr EXCEPT ![w] = s]
  BY <1>1 DEF AnswerDrop, ThreadInv
<1>5. ThreadInv(thr')
  <2> HIDE DEF s
  <2> QED BY <1>1, <1>2, <1>3, <1>4, UpdateThread
<1>6. tk' \in [Tickets -> TicketState]
  BY DEF AnswerDrop, TypeInv, TypeOK
<1> QED BY <1>5, <1>6, OnlyThreads DEF AnswerDrop

\* InitFail keeps the types.
LEMMA InitFailType ==
    ASSUME TypeInv, NEW w \in Writers, InitFail(w)
    PROVE  TypeInv'
<1> DEFINE s == [thr[w] EXCEPT !.pc = "kill", !.ret = "setinit"]
<1>1. /\ w \in Threads /\ ThreadInv(thr) /\ thr[w] \in ThreadState
      /\ HoldOk(thr[w])
  BY ThreadsAre, ThreadFacts
<1>2. s \in ThreadState
  BY <1>1, ThreadFacts, LabelFacts, InitialRecords DEF ThreadState
<1>3. HoldOk(s)
  BY <1>1 DEF InitFail, At, ThreadState, HoldOk, KeepsTicket, DerefLabels
<1>4. thr' = [thr EXCEPT ![w] = s]
  BY <1>1 DEF InitFail, ThreadInv
<1>5. ThreadInv(thr')
  <2> HIDE DEF s
  <2> QED BY <1>1, <1>2, <1>3, <1>4, UpdateThread
<1>6. tk' \in [Tickets -> TicketState]
  BY DEF InitFail, TypeInv, TypeOK
<1> QED BY <1>5, <1>6, OnlyThreads DEF InitFail

\* RejectBegin keeps the types.
LEMMA RejectBeginType ==
    ASSUME TypeInv, NEW a \in Admins, RejectBegin(a)
    PROVE  TypeInv'
<1> DEFINE s == [thr[a] EXCEPT !.pc = "rejecting"]
<1>1. /\ a \in Threads /\ ThreadInv(thr) /\ thr[a] \in ThreadState
      /\ HoldOk(thr[a])
  BY ThreadsAre, ThreadFacts
<1>2. s \in ThreadState
  BY <1>1, ThreadFacts, LabelFacts, InitialRecords DEF ThreadState
<1>3. HoldOk(s)
  BY <1>1 DEF RejectBegin, At, ThreadState, HoldOk, KeepsTicket, DerefLabels
<1>4. thr' = [thr EXCEPT ![a] = s]
  BY <1>1 DEF RejectBegin, ThreadInv
<1>5. ThreadInv(thr')
  <2> HIDE DEF s
  <2> QED BY <1>1, <1>2, <1>3, <1>4, UpdateThread
<1>6. tk' \in [Tickets -> TicketState]
  BY DEF RejectBegin, TypeInv, TypeOK
<1> QED BY <1>5, <1>6, OnlyThreads DEF RejectBegin

\* DropRefresh keeps the types.
LEMMA DropRefreshType ==
    ASSUME TypeInv, NEW x \in Threads, DropRefresh(x)
    PROVE  TypeInv'
<1> DEFINE s == [thr[x] EXCEPT !.pc = "push"]
<1>1. /\ x \in Threads /\ ThreadInv(thr) /\ thr[x] \in ThreadState
      /\ HoldOk(thr[x])
  BY ThreadsAre, ThreadFacts
<1>2. s \in ThreadState
  BY <1>1, ThreadFacts, LabelFacts, InitialRecords DEF ThreadState
<1>3. HoldOk(s)
  BY <1>1 DEF DropRefresh, At, ThreadState, HoldOk, KeepsTicket, DerefLabels
<1>4. thr' = [thr EXCEPT ![x] = s]
  BY <1>1 DEF DropRefresh, ThreadInv
<1>5. ThreadInv(thr')
  <2> HIDE DEF s
  <2> QED BY <1>1, <1>2, <1>3, <1>4, UpdateThread
<1>6. tk' \in [Tickets -> TicketState]
  <2> DEFINE t == thr[x].tkt
             u == Refresh(tk[t])
  <2>1. t \in Tickets /\ tk[t] \in TicketState
    BY <1>1, ThreadFacts DEF DropRefresh, At, KeepsTicket, DerefLabels
  <2>2. u \in TicketState
    BY <1>1, <2>1, ThreadFacts, RefreshType
  <2>3. tk' = [tk EXCEPT ![t] = u]
    BY <2>1 DEF DropRefresh, TypeInv, TypeOK
  <2> QED BY <2>1, <2>2, <2>3 DEF TypeInv, TypeOK
<1> QED BY <1>5, <1>6, OnlyThreads DEF DropRefresh

\* Parts of the pool's record may change.
LEMMA PoolType ==
    ASSUME pool \in PoolState
    PROVE  /\ pool.free \in Seq(Tickets) /\ pool.freeticket_counter \in Nat
           /\ pool.ticketer \in 0 .. MaxTickets /\ pool.all \subseteq Tickets
           /\ pool.gone \subseteq Tickets /\ pool.deadticket_counter \in Nat
           /\ pool.lost \subseteq Tickets
BY DEF PoolState

\* A lost ticket leaves the pool well typed.
LEMMA LoseType ==
    ASSUME pool \in PoolState, NEW t \in Tickets, Lose(t)
    PROVE  pool' \in PoolState
<1>1. pool.lost \cup {t} \in SUBSET Tickets
  BY PoolType
<1> QED BY <1>1 DEF Lose, PoolState

\* fuse_ticket_destroy leaves the pool well typed.
LEMMA DestroyType ==
    ASSUME pool \in PoolState, NEW t \in Tickets, Destroy(t)
    PROVE  pool' \in PoolState
<1>1. pool.deadticket_counter + 1 \in Nat
  BY PoolType
<1>2. pool.all \ {t} \in SUBSET Tickets /\ pool.gone \cup {t} \in SUBSET Tickets
  BY PoolType
<1> QED BY <1>1, <1>2 DEF Destroy, PoolState

\* A step that changes threads, tickets and the pool only.
LEMMA ThreadsAndPool ==
    ASSUME TypeInv, ThreadInv(thr'), tk' \in [Tickets -> TicketState], pool' \in PoolState,
           UNCHANGED <<sess, queues, env, panic>>
    PROVE  TypeInv'
BY DEF TypeInv, TypeOK, Holding, ThreadInv, sess, queues, env

\* A request begins.
LEMMA StartedType ==
    ASSUME TypeInv, NEW r \in Requesters, NEW o \in Ops \ {"INTERRUPT"}, Started(r, o)
    PROVE  TypeInv'
<1> DEFINE s == [thr[r] EXCEPT !.pc = "fetch", !.op = o, !.rid = nreq + 1]
<1>1. /\ r \in Threads /\ ThreadInv(thr) /\ thr[r] \in ThreadState
      /\ HoldOk(thr[r])
  BY ThreadsAre, ThreadFacts
<1>2. nreq + 1 \in Rids
  <2>1. nreq \in Rids /\ nreq < MaxReqs
    BY DEF Started, TypeInv, TypeOK
  <2> QED BY <2>1 DEF Rids
<1>3. s \in ThreadState
  BY <1>1, <1>2, LabelFacts DEF ThreadState
<1>4. HoldOk(s)
  BY <1>1 DEF ThreadState, HoldOk, KeepsTicket, DerefLabels
<1>5. thr' = [thr EXCEPT ![r] = s]
  BY <1>1 DEF Started, ThreadInv
<1>6. ThreadInv(thr')
  <2> HIDE DEF s
  <2> QED BY <1>1, <1>3, <1>4, <1>5, UpdateThread
<1> QED BY <1>2, <1>6 DEF Started, TypeInv, TypeOK, Holding, ThreadInv, sess, queues

\* Alloc keeps the types.
LEMMA AllocType ==
    ASSUME TypeInv, NEW r \in Requesters, Alloc(r)
    PROVE  TypeInv'
<1> DEFINE s == [thr[r] EXCEPT !.pc = "pushall", !.tkt = pool.ticketer]
<1>1. /\ r \in Threads /\ ThreadInv(thr) /\ thr[r] \in ThreadState
      /\ HoldOk(thr[r])
  BY ThreadsAre, ThreadFacts
<1>a. /\ pool \in PoolState /\ pool.ticketer \in Tickets
      /\ pool.ticketer + 1 \in 0 .. MaxTickets
  <2>1. pool \in PoolState /\ pool.ticketer < MaxTickets
    BY DEF Alloc, TypeInv, TypeOK
  <2> QED BY <2>1, PoolType DEF Tickets
<1>2. s \in ThreadState
  BY <1>1, <1>a, ThreadFacts, LabelFacts, InitialRecords DEF ThreadState
<1>3. HoldOk(s)
  BY <1>1, <1>a DEF Alloc, At, ThreadState, HoldOk, KeepsTicket, DerefLabels
<1>4. ThreadInv([thr EXCEPT ![r] = s])
  <2> HIDE DEF s
  <2> QED BY <1>1, <1>2, <1>3, UpdateThread
<1>5. ThreadInv(thr')
  <2>1. thr' = [thr EXCEPT ![r] = s]
    BY <1>1, <1>a DEF Alloc, ThreadInv
  <2> HIDE DEF s
  <2> QED BY <1>4, <2>1
<1>6. pool' \in PoolState
  BY <1>a DEF Alloc, PoolState
<1> QED BY <1>5, <1>6, ThreadsAndPool DEF Alloc, TypeInv, TypeOK

\* PushAll keeps the types.
LEMMA PushAllType ==
    ASSUME TypeInv, NEW r \in Requesters, PushAll(r)
    PROVE  TypeInv'
<1> DEFINE s == [thr[r] EXCEPT !.pc = FetchTail, !.ret = "made"]
<1>1. /\ r \in Threads /\ ThreadInv(thr) /\ thr[r] \in ThreadState
      /\ HoldOk(thr[r])
  BY ThreadsAre, ThreadFacts
<1>a. /\ pool \in PoolState /\ thr[r].tkt \in Tickets
      /\ FetchTail \in Labels /\ FetchTail \in {"ini", "kill", "made"}
  BY <1>1, ThreadFacts, LabelFacts DEF PushAll, At, KeepsTicket, TypeInv, TypeOK, FetchTail
<1>2. s \in ThreadState
  BY <1>1, <1>a, ThreadFacts, LabelFacts, InitialRecords DEF ThreadState
<1>3. HoldOk(s)
  BY <1>1, <1>a DEF PushAll, At, ThreadState, HoldOk, KeepsTicket, DerefLabels
<1>4. ThreadInv([thr EXCEPT ![r] = s])
  <2> HIDE DEF s
  <2> QED BY <1>1, <1>2, <1>3, UpdateThread
<1>5. ThreadInv(thr')
  <2>1. thr' = [thr EXCEPT ![r] = s]
    BY <1>1, <1>a DEF PushAll, ThreadInv
  <2> HIDE DEF s
  <2> QED BY <1>4, <2>1
<1>6. pool' \in PoolState
  <2>1. pool.all \cup {thr[r].tkt} \in SUBSET Tickets
    BY <1>a, PoolType
  <2> QED BY <1>a, <2>1 DEF PushAll, PoolState
<1> QED BY <1>5, <1>6, ThreadsAndPool DEF PushAll, TypeInv, TypeOK

\* FetchFree keeps the types.
LEMMA FetchFreeType ==
    ASSUME TypeInv, NEW r \in Requesters, FetchFree(r)
    PROVE  TypeInv'
<1> DEFINE s == [thr[r] EXCEPT !.pc = FetchTail, !.ret = "made", !.tkt = Head(pool.free)]
<1>1. /\ r \in Threads /\ ThreadInv(thr) /\ thr[r] \in ThreadState
      /\ HoldOk(thr[r])
  BY ThreadsAre, ThreadFacts
<1>a. /\ pool \in PoolState /\ Head(pool.free) \in Tickets /\ FreeTail \in Seq(Tickets)
      /\ pool.freeticket_counter - 1 \in Nat
      /\ FetchTail \in Labels /\ FetchTail \in {"ini", "kill", "made"}
  <2>1. pool \in PoolState
    BY DEF TypeInv, TypeOK
  <2>2. pool.free # <<>> /\ pool.freeticket_counter # 0
    BY DEF FetchFree, CountMismatch
  <2>3. Head(pool.free) \in Tickets /\ Tail(pool.free) \in Seq(Tickets)
    BY <2>1, <2>2, PoolType, InitialRecords, QueueType
  <2>4. FetchTail \in Labels /\ FetchTail \in {"ini", "kill", "made"}
    BY LabelFacts DEF FetchTail
  <2> QED BY <2>1, <2>2, <2>3, <2>4, PoolType DEF FreeTail
<1>2. s \in ThreadState
  BY <1>1, <1>a, ThreadFacts, LabelFacts, InitialRecords DEF ThreadState
<1>3. HoldOk(s)
  BY <1>1, <1>a DEF FetchFree, At, ThreadState, HoldOk, KeepsTicket, DerefLabels
<1>4. ThreadInv([thr EXCEPT ![r] = s])
  <2> HIDE DEF s
  <2> QED BY <1>1, <1>2, <1>3, UpdateThread
<1>5. ThreadInv(thr')
  <2>1. thr' = [thr EXCEPT ![r] = s]
    BY <1>1, <1>a DEF FetchFree, ThreadInv
  <2> HIDE DEF s
  <2> QED BY <1>4, <2>1
<1>6. pool' \in PoolState
  BY <1>a DEF FetchFree, PoolState
<1> QED BY <1>5, <1>6, ThreadsAndPool DEF FetchFree, TypeInv, TypeOK

\* DropDestroy keeps the types.
LEMMA DropDestroyType ==
    ASSUME TypeInv, NEW x \in Threads, DropDestroy(x)
    PROVE  TypeInv'
<1> DEFINE s == [IdleThread EXCEPT !.pc = thr[x].ret]
<1>1. /\ x \in Threads /\ ThreadInv(thr) /\ thr[x] \in ThreadState
      /\ HoldOk(thr[x])
  BY ThreadsAre, ThreadFacts
<1>a. /\ pool \in PoolState /\ thr[x].tkt \in Tickets
      /\ thr[x].ret \in Labels /\ thr[x].ret \notin KeepsTicket
  BY <1>1, ThreadFacts DEF DropDestroy, At, HoldOk, KeepsTicket, DerefLabels, TypeInv, TypeOK
<1>2. s \in ThreadState
  BY <1>1, <1>a, ThreadFacts, LabelFacts, InitialRecords, IdleAt DEF ThreadState
<1>3. HoldOk(s)
  BY <1>1, <1>a, IdleAt DEF DropDestroy, At, ThreadState, HoldOk, KeepsTicket, DerefLabels
<1>4. ThreadInv([thr EXCEPT ![x] = s])
  <2> HIDE DEF s
  <2> QED BY <1>1, <1>2, <1>3, UpdateThread
<1>5. ThreadInv(thr')
  <2>1. thr' = [thr EXCEPT ![x] = s]
    BY <1>1, <1>a DEF DropDestroy, ThreadInv
  <2> HIDE DEF s
  <2> QED BY <1>4, <2>1
<1>6. pool' \in PoolState
  BY <1>a, DestroyType DEF DropDestroy
<1> QED BY <1>5, <1>6, ThreadsAndPool DEF DropDestroy, TypeInv, TypeOK

\* DropPush keeps the types.
LEMMA DropPushType ==
    ASSUME TypeInv, NEW x \in Threads, DropPush(x)
    PROVE  TypeInv'
<1> DEFINE s == [IdleThread EXCEPT !.pc = thr[x].ret]
<1>1. /\ x \in Threads /\ ThreadInv(thr) /\ thr[x] \in ThreadState
      /\ HoldOk(thr[x])
  BY ThreadsAre, ThreadFacts
<1>a. /\ pool \in PoolState /\ thr[x].tkt \in Tickets
      /\ thr[x].ret \in Labels /\ thr[x].ret \notin KeepsTicket
  BY <1>1, ThreadFacts DEF DropPush, At, HoldOk, KeepsTicket, DerefLabels, TypeInv, TypeOK
<1>2. s \in ThreadState
  BY <1>1, <1>a, ThreadFacts, LabelFacts, InitialRecords, IdleAt DEF ThreadState
<1>3. HoldOk(s)
  BY <1>1, <1>a, IdleAt DEF DropPush, At, ThreadState, HoldOk, KeepsTicket, DerefLabels
<1>4. ThreadInv([thr EXCEPT ![x] = s])
  <2> HIDE DEF s
  <2> QED BY <1>1, <1>2, <1>3, UpdateThread
<1>5. ThreadInv(thr')
  <2>1. thr' = [thr EXCEPT ![x] = s]
    BY <1>1, <1>a DEF DropPush, ThreadInv
  <2> HIDE DEF s
  <2> QED BY <1>4, <2>1
<1>6. pool' \in PoolState
  <2>1. FreeInsert(pool.free, thr[x].tkt) \in Seq(Tickets)
    BY <1>a, PoolType, QueueType
  <2>2. ASSUME NEW q \in Seq(Tickets), NEW b \in BOOLEAN, NEW n \in Nat
        PROVE  [pool EXCEPT !.free = q, !.loop = b, !.freeticket_counter = n] \in PoolState
    BY <1>a DEF PoolState
  <2>3. (pool.free # <<>> /\ Last(pool.free) = thr[x].tkt) \in BOOLEAN
        /\ pool.freeticket_counter + 1 \in Nat
    BY <1>a, PoolType
  <2> QED BY <2>1, <2>2, <2>3 DEF DropPush
<1> QED BY <1>5, <1>6, ThreadsAndPool DEF DropPush, TypeInv, TypeOK

\* MakeFail keeps the types.
LEMMA MakeFailType ==
    ASSUME TypeInv, NEW r \in Requesters, MakeFail(r)
    PROVE  TypeInv'
<1> DEFINE s == IdleThread
<1>1. /\ r \in Threads /\ ThreadInv(thr) /\ thr[r] \in ThreadState
      /\ HoldOk(thr[r])
  BY ThreadsAre, ThreadFacts
<1>a. pool \in PoolState /\ thr[r].tkt \in Tickets
  BY <1>1, ThreadFacts DEF MakeFail, At, KeepsTicket, DerefLabels, TypeInv, TypeOK
<1>2. s \in ThreadState
  BY <1>1, <1>a, ThreadFacts, LabelFacts, InitialRecords DEF ThreadState
<1>3. HoldOk(s)
  BY <1>1, <1>a, InitialRecords DEF MakeFail, At, ThreadState, HoldOk, KeepsTicket, DerefLabels
<1>4. ThreadInv([thr EXCEPT ![r] = s])
  <2> HIDE DEF s
  <2> QED BY <1>1, <1>2, <1>3, UpdateThread
<1>5. ThreadInv(thr')
  <2>1. thr' = [thr EXCEPT ![r] = s]
    BY <1>1, <1>a DEF MakeFail, ThreadInv
  <2> HIDE DEF s
  <2> QED BY <1>4, <2>1
<1>6. pool' \in PoolState
  BY <1>a, DestroyType DEF MakeFail
<1> QED BY <1>5, <1>6, ThreadsAndPool DEF MakeFail, TypeInv, TypeOK

\* MakeDrop keeps the types.
LEMMA MakeDropType ==
    ASSUME TypeInv, NEW r \in Requesters, MakeDrop(r)
    PROVE  TypeInv'
<1> DEFINE s == [thr[r] EXCEPT !.pc = "drop", !.ret = "idle"]
           t == thr[r].tkt
           u == Headed(tk[t], thr[r].op, thr[r].rid, FALSE)
<1>1. /\ r \in Threads /\ ThreadInv(thr) /\ thr[r] \in ThreadState
      /\ HoldOk(thr[r])
  BY ThreadsAre, ThreadFacts
<1>2. s \in ThreadState
  BY <1>1, LabelFacts DEF ThreadState
<1>3. HoldOk(s)
  BY <1>1 DEF MakeDrop, At, ThreadState, HoldOk, KeepsTicket, DerefLabels
<1>4. thr' = [thr EXCEPT ![r] = s]
  BY <1>1 DEF MakeDrop, ThreadInv
<1>5. ThreadInv(thr')
  <2> HIDE DEF s
  <2> QED BY <1>1, <1>2, <1>3, <1>4, UpdateThread
<1>6. tk' \in [Tickets -> TicketState]
  <2>1. t \in Tickets /\ tk[t] \in TicketState
    BY <1>1, ThreadFacts DEF MakeDrop, At, KeepsTicket, DerefLabels
  <2>2. u \in TicketState
    BY <1>1, <2>1, ThreadFacts, HeadedType
  <2>3. tk' = [tk EXCEPT ![t] = u]
    BY <2>1 DEF MakeDrop, TypeInv, TypeOK
  <2> QED BY <2>1, <2>2, <2>3 DEF TypeInv, TypeOK
<1> QED BY <1>5, <1>6, OnlyThreads DEF MakeDrop

\* A step of a thread that loses its ticket.
LEMMA LoserType ==
    ASSUME TypeInv, NEW x \in Threads, thr[x].tkt \in Tickets, Lose(thr[x].tkt),
           thr' = [thr EXCEPT ![x] = IdleThread], tk' \in [Tickets -> TicketState],
           UNCHANGED <<sess, queues, env, panic>>
    PROVE  TypeInv'
<1>1. ThreadInv(thr)
  BY ThreadFacts
<1>2. ThreadInv(thr')
  BY <1>1, InitialRecords, UpdateThread
<1>3. pool' \in PoolState
  BY LoseType DEF TypeInv, TypeOK
<1> QED BY <1>2, <1>3, ThreadsAndPool

\* MakeLeak keeps the types.
LEMMA MakeLeakType ==
    ASSUME TypeInv, NEW r \in Requesters, MakeLeak(r)
    PROVE  TypeInv'
<1> DEFINE t == thr[r].tkt
           u == Headed(tk[t], thr[r].op, thr[r].rid, FALSE)
<1>1. r \in Threads /\ thr[r] \in ThreadState
  BY ThreadsAre, ThreadFacts
<1>2. t \in Tickets /\ tk[t] \in TicketState
  BY <1>1, ThreadFacts DEF MakeLeak, At, KeepsTicket, DerefLabels
<1>3. u \in TicketState
  BY <1>1, <1>2, ThreadFacts, HeadedType
<1>4. tk' = [tk EXCEPT ![t] = u]
  BY <1>2 DEF MakeLeak, TypeInv, TypeOK
<1>5. tk' \in [Tickets -> TicketState]
  BY <1>2, <1>3, <1>4 DEF TypeInv, TypeOK
<1> QED BY <1>1, <1>2, <1>5, LoserType DEF MakeLeak

\* UseLeak keeps the types.
LEMMA UseLeakType ==
    ASSUME TypeInv, NEW r \in Requesters, UseLeak(r)
    PROVE  TypeInv'
<1>1. r \in Threads /\ thr[r].tkt \in Tickets
  BY ThreadsAre, ThreadFacts DEF UseLeak, At, KeepsTicket, DerefLabels
<1> QED BY <1>1, LoserType DEF UseLeak, TypeInv, TypeOK

\* ForgetCallback keeps the types.
LEMMA ForgetCallbackType ==
    ASSUME TypeInv, NEW w \in Writers, ForgetCallback(w)
    PROVE  TypeInv'
<1> DEFINE t == thr[w].tkt
<1>1. w \in Threads /\ thr[w] \in ThreadState
  BY ThreadsAre, ThreadFacts
<1>2. t \in Tickets /\ tk[t] \in TicketState
  BY <1>1, ThreadFacts DEF ForgetCallback, At, KeepsTicket, DerefLabels
<1>3. tk' \in [Tickets -> TicketState]
  <2>1. thr[w].arid \in Rids /\ (thr[w].kind = "errreply") \in BOOLEAN
    BY <1>1 DEF ThreadState
  <2>2. tk' = [tk EXCEPT ![t] = [tk[t] EXCEPT !.orid = thr[w].arid,
                                              !.oerror = (thr[w].kind = "errreply")]]
    BY <1>2 DEF ForgetCallback, TypeInv, TypeOK
  <2>3. [tk[t] EXCEPT !.orid = thr[w].arid, !.oerror = (thr[w].kind = "errreply")] \in TicketState
    BY <1>2, <2>1 DEF TicketState
  <2> QED BY <1>2, <2>2, <2>3, UpdateTicket DEF TypeInv, TypeOK
<1> QED BY <1>1, <1>2, <1>3, LoserType DEF ForgetCallback

\* InsertCallback keeps the types.
LEMMA InsertCallbackType ==
    ASSUME TypeInv, NEW r \in Requesters, InsertCallback(r)
    PROVE  TypeInv'
<1> DEFINE s == [thr[r] EXCEPT !.pc = "message"]
<1>1. /\ r \in Threads /\ ThreadInv(thr) /\ thr[r] \in ThreadState
      /\ HoldOk(thr[r])
  BY ThreadsAre, ThreadFacts
<1>a. thr[r].tkt \in Tickets
  BY <1>1, ThreadFacts DEF InsertCallback, At, KeepsTicket, DerefLabels
<1>2. s \in ThreadState
  BY <1>1, <1>a, ThreadFacts, LabelFacts, InitialRecords DEF ThreadState
<1>3. HoldOk(s)
  BY <1>1, <1>a DEF InsertCallback, At, ThreadState, HoldOk, KeepsTicket, DerefLabels
<1>4. ThreadInv([thr EXCEPT ![r] = s])
  <2> HIDE DEF s
  <2> QED BY <1>1, <1>2, <1>3, UpdateThread
<1>5. ThreadInv(thr')
  <2>1. thr' = [thr EXCEPT ![r] = s]
    BY <1>1, <1>a DEF InsertCallback, ThreadInv
  <2> HIDE DEF s
  <2> QED BY <1>4, <2>1
<1>6. aw_head' \in Seq(Tickets)
  BY <1>a, QueueType DEF InsertCallback, TypeInv, TypeOK
<1> QED BY <1>5, <1>6 DEF InsertCallback, TypeInv, TypeOK, Holding, ThreadInv, sess, env

\* Remake keeps the types.
LEMMA RemakeType ==
    ASSUME TypeInv, NEW r \in Requesters, Remake(r)
    PROVE  TypeInv'
<1> DEFINE s == [thr[r] EXCEPT !.pc = "made", !.rid = nreq + 1]
<1>1. /\ r \in Threads /\ ThreadInv(thr) /\ thr[r] \in ThreadState
      /\ HoldOk(thr[r])
  BY ThreadsAre, ThreadFacts
<1>a. nreq + 1 \in Rids /\ thr[r].tkt \in Tickets /\ tk[thr[r].tkt] \in TicketState
  <2>1. nreq + 1 \in Rids
    <3>1. nreq \in Rids /\ nreq < MaxReqs
      BY DEF Remake, TypeInv, TypeOK
    <3> QED BY <3>1 DEF Rids
  <2> QED BY <1>1, <2>1, ThreadFacts DEF Remake, At, KeepsTicket, DerefLabels
<1>2. s \in ThreadState
  BY <1>1, <1>a, ThreadFacts, LabelFacts, InitialRecords DEF ThreadState
<1>3. HoldOk(s)
  BY <1>1, <1>a DEF Remake, At, ThreadState, HoldOk, KeepsTicket, DerefLabels
<1>4. ThreadInv([thr EXCEPT ![r] = s])
  <2> HIDE DEF s
  <2> QED BY <1>1, <1>2, <1>3, UpdateThread
<1>5. ThreadInv(thr')
  <2>1. thr' = [thr EXCEPT ![r] = s]
    BY <1>1, <1>a DEF Remake, ThreadInv
  <2> HIDE DEF s
  <2> QED BY <1>4, <2>1
<1>6. tk' \in [Tickets -> TicketState]
  <2>1. Refresh(tk[thr[r].tkt]) \in TicketState
    BY <1>a, RefreshType
  <2> QED BY <1>a, <2>1, UpdateTicket DEF Remake, TypeInv, TypeOK
<1> QED BY <1>5, <1>6, <1>a DEF Remake, TypeInv, TypeOK, Holding, ThreadInv, sess, queues

\* ReadPop keeps the types.
LEMMA ReadPopType ==
    ASSUME TypeInv, NEW d \in Readers, ReadPop(d)
    PROVE  TypeInv'
<1> DEFINE s == [thr[d] EXCEPT !.pc = "got", !.tkt = Head(ms_head)]
<1>1. /\ d \in Threads /\ ThreadInv(thr) /\ thr[d] \in ThreadState
      /\ HoldOk(thr[d])
  BY ThreadsAre, ThreadFacts
<1>a. Head(ms_head) \in Tickets /\ Tail(ms_head) \in Seq(Tickets)
  BY QueueType, InitialRecords DEF ReadPop, TypeInv, TypeOK
<1>2. s \in ThreadState
  BY <1>1, <1>a, ThreadFacts, LabelFacts, InitialRecords DEF ThreadState
<1>3. HoldOk(s)
  BY <1>1, <1>a DEF ReadPop, At, ThreadState, HoldOk, KeepsTicket, DerefLabels
<1>4. ThreadInv([thr EXCEPT ![d] = s])
  <2> HIDE DEF s
  <2> QED BY <1>1, <1>2, <1>3, UpdateThread
<1>5. ThreadInv(thr')
  <2>1. thr' = [thr EXCEPT ![d] = s]
    BY <1>1, <1>a DEF ReadPop, ThreadInv
  <2> HIDE DEF s
  <2> QED BY <1>4, <2>1
<1> QED BY <1>5, <1>a DEF ReadPop, TypeInv, TypeOK, Holding, ThreadInv, sess, env

\* ReadDeliver keeps the types.
LEMMA ReadDeliverType ==
    ASSUME TypeInv, NEW d \in Readers, ReadDeliver(d)
    PROVE  TypeInv'
<1> DEFINE s == IF tk[thr[d].tkt].invalid
               THEN [thr[d] EXCEPT !.pc = "drop", !.ret = "idle"] ELSE IdleThread
<1>1. /\ d \in Threads /\ ThreadInv(thr) /\ thr[d] \in ThreadState
      /\ HoldOk(thr[d])
  BY ThreadsAre, ThreadFacts
<1>a. thr[d].tkt \in Tickets /\ tk[thr[d].tkt] \in TicketState
  BY <1>1, ThreadFacts DEF ReadDeliver, At, KeepsTicket, DerefLabels
<1>2. s \in ThreadState
  BY <1>1, <1>a, ThreadFacts, LabelFacts, InitialRecords DEF ThreadState
<1>3. HoldOk(s)
  BY <1>1, <1>a DEF ReadDeliver, At, ThreadState, HoldOk, KeepsTicket, DerefLabels, IdleThread
<1>4. ThreadInv([thr EXCEPT ![d] = s])
  <2> HIDE DEF s
  <2> QED BY <1>1, <1>2, <1>3, UpdateThread
<1>5. ThreadInv(thr')
  <2>1. thr' = [thr EXCEPT ![d] = s]
    BY <1>1, <1>a DEF ReadDeliver, ThreadInv, ReadReturn
  <2> HIDE DEF s
  <2> QED BY <1>4, <2>1
<1>6. inbox' \subseteq [unique: Tickets, rid: Rids, op: Ops]
  <2>1. tk[thr[d].tkt].rid \in Rids /\ tk[thr[d].tkt].op \in Ops
    BY <1>a DEF TicketState
  <2>2. [unique |-> thr[d].tkt, rid |-> tk[thr[d].tkt].rid, op |-> tk[thr[d].tkt].op]
            \in [unique: Tickets, rid: Rids, op: Ops]
    BY <1>a, <2>1
  <2>3. inbox \subseteq [unique: Tickets, rid: Rids, op: Ops]
    BY DEF TypeInv, TypeOK
  <2> QED BY <2>2, <2>3 DEF ReadDeliver
<1> QED BY <1>5, <1>6 DEF ReadDeliver, TypeInv, TypeOK, Holding, ThreadInv, sess, queues

\* ReadShort keeps the types.
LEMMA ReadShortType ==
    ASSUME TypeInv, NEW d \in Readers, ReadShort(d)
    PROVE  TypeInv'
<1> DEFINE s == IF tk[thr[d].tkt].invalid
               THEN [thr[d] EXCEPT !.pc = "drop", !.ret = "idle"] ELSE IdleThread
<1>1. /\ d \in Threads /\ ThreadInv(thr) /\ thr[d] \in ThreadState
      /\ HoldOk(thr[d])
  BY ThreadsAre, ThreadFacts
<1>a. thr[d].tkt \in Tickets
  BY <1>1, ThreadFacts DEF ReadShort, At, KeepsTicket, DerefLabels
<1>2. s \in ThreadState
  BY <1>1, <1>a, ThreadFacts, LabelFacts, InitialRecords DEF ThreadState
<1>3. HoldOk(s)
  BY <1>1, <1>a DEF ReadShort, At, ThreadState, HoldOk, KeepsTicket, DerefLabels, IdleThread
<1>4. ThreadInv([thr EXCEPT ![d] = s])
  <2> HIDE DEF s
  <2> QED BY <1>1, <1>2, <1>3, UpdateThread
<1>5. ThreadInv(thr')
  <2>1. thr' = [thr EXCEPT ![d] = s]
    BY <1>1, <1>a DEF ReadShort, ThreadInv, ReadReturn
  <2> HIDE DEF s
  <2> QED BY <1>4, <2>1
<1> QED BY <1>5 DEF ReadShort, TypeInv, TypeOK, Holding, ThreadInv, queues, env

\* WriteFound keeps the types.
LEMMA WriteFoundType ==
    ASSUME TypeInv, NEW w \in Writers, NEW m \in inbox, NEW k \in Replies, WriteFound(w, m, k)
    PROVE  TypeInv'
<1> DEFINE s == [thr[w] EXCEPT !.pc = "found", !.tkt = m.unique, !.arid = m.rid, !.kind = k]
<1>1. /\ w \in Threads /\ ThreadInv(thr) /\ thr[w] \in ThreadState
      /\ HoldOk(thr[w])
  BY ThreadsAre, ThreadFacts
<1>a. /\ m.unique \in Tickets /\ m.rid \in Rids
      /\ k \in {"ok", "errreply", "badreply", "enomem"}
  BY DEF TypeInv, TypeOK, Replies
<1>2. s \in ThreadState
  BY <1>1, <1>a, ThreadFacts, LabelFacts, InitialRecords DEF ThreadState
<1>3. HoldOk(s)
  BY <1>1, <1>a DEF WriteFound, At, ThreadState, HoldOk, KeepsTicket, DerefLabels
<1>4. ThreadInv([thr EXCEPT ![w] = s])
  <2> HIDE DEF s
  <2> QED BY <1>1, <1>2, <1>3, UpdateThread
<1>5. ThreadInv(thr')
  <2>1. thr' = [thr EXCEPT ![w] = s]
    BY <1>1, <1>a DEF WriteFound, ThreadInv
  <2> HIDE DEF s
  <2> QED BY <1>4, <2>1
<1>6. aw_head' \in Seq(Tickets)
  <2>1. PICK i \in DOMAIN aw_head : aw_head' = RemoveAt(aw_head, i)
    BY DEF WriteFound, Matches
  <2> QED BY <2>1, QueueType, InitialRecords DEF TypeInv, TypeOK
<1> QED BY <1>5, <1>6 DEF WriteFound, TypeInv, TypeOK, Holding, ThreadInv, sess

\* InitCallback keeps the types.
LEMMA InitCallbackType ==
    ASSUME TypeInv, NEW w \in Writers, InitCallback(w)
    PROVE  TypeInv'
<1> DEFINE s == [IdleThread EXCEPT !.pc = "drop", !.tkt = thr[w].tkt,
                       !.ret = IF thr[w].kind = "errreply" \/ PullError(w)
                               THEN "initfail" ELSE "setinit"]
<1>1. /\ w \in Threads /\ ThreadInv(thr) /\ thr[w] \in ThreadState
      /\ HoldOk(thr[w])
  BY ThreadsAre, ThreadFacts
<1>a. thr[w].tkt \in Tickets /\ tk[thr[w].tkt] \in TicketState
  BY <1>1, ThreadFacts DEF InitCallback, At, KeepsTicket, DerefLabels
<1>2. s \in ThreadState
  BY <1>1, <1>a, ThreadFacts, LabelFacts, InitialRecords DEF ThreadState
<1>3. HoldOk(s)
  BY <1>1, <1>a DEF InitCallback, At, ThreadState, HoldOk, KeepsTicket, DerefLabels, IdleThread
<1>4. ThreadInv([thr EXCEPT ![w] = s])
  <2> HIDE DEF s
  <2> QED BY <1>1, <1>2, <1>3, UpdateThread
<1>5. ThreadInv(thr')
  <2>1. thr' = [thr EXCEPT ![w] = s]
    BY <1>1, <1>a DEF InitCallback, ThreadInv
  <2> HIDE DEF s
  <2> QED BY <1>4, <2>1
<1>6. tk' \in [Tickets -> TicketState]
  <2>1. Pulled(tk[thr[w].tkt], thr[w]) \in TicketState
    BY <1>1, <1>a, PulledType
  <2> QED BY <1>a, <2>1, UpdateTicket DEF InitCallback, TypeInv, TypeOK
<1> QED BY <1>5, <1>6 DEF InitCallback, TypeInv, TypeOK, Holding, ThreadInv, sess, queues

\* AnswerWake keeps the types.
LEMMA AnswerWakeType ==
    ASSUME TypeInv, NEW w \in Writers, AnswerWake(w)
    PROVE  TypeInv'
<1> DEFINE s == IdleThread
<1>1. /\ w \in Threads /\ ThreadInv(thr) /\ thr[w] \in ThreadState
      /\ HoldOk(thr[w])
  BY ThreadsAre, ThreadFacts
<1>a. thr[w].tkt \in Tickets /\ tk[thr[w].tkt] \in TicketState /\ thr[w].perr \in BOOLEAN
  BY <1>1, ThreadFacts DEF AnswerWake, At, KeepsTicket, DerefLabels
<1>2. s \in ThreadState
  BY <1>1, <1>a, ThreadFacts, LabelFacts, InitialRecords DEF ThreadState
<1>3. HoldOk(s)
  BY <1>1, <1>a, InitialRecords DEF AnswerWake, At, ThreadState, HoldOk, KeepsTicket, DerefLabels
<1>4. ThreadInv([thr EXCEPT ![w] = s])
  <2> HIDE DEF s
  <2> QED BY <1>1, <1>2, <1>3, UpdateThread
<1>5. ThreadInv(thr')
  BY <1>4, WakeTicketType DEF AnswerWake
<1>6. tk' \in [Tickets -> TicketState]
  <2> DEFINE u == [tk[thr[w].tkt] EXCEPT !.answered = TRUE, !.aw_errno = thr[w].perr]
  <2>1. u \in TicketState
    BY <1>a DEF TicketState
  <2>2. tk' = [tk EXCEPT ![thr[w].tkt] = u]
    BY <1>a DEF AnswerWake, TypeInv, TypeOK
  <2> QED BY <1>a, <2>1, <2>2, UpdateTicket DEF TypeInv, TypeOK
<1> QED BY <1>5, <1>6, OnlyThreads DEF AnswerWake

\* SetInited keeps the types.
LEMMA SetInitedType ==
    ASSUME TypeInv, NEW w \in Writers, SetInited(w)
    PROVE  TypeInv'
<1> DEFINE s == IdleThread
<1>1. /\ w \in Threads /\ ThreadInv(thr) /\ thr[w] \in ThreadState
      /\ HoldOk(thr[w])
  BY ThreadsAre, ThreadFacts
<1>a. TRUE OBVIOUS
<1>2. s \in ThreadState
  BY <1>1, <1>a, ThreadFacts, LabelFacts, InitialRecords DEF ThreadState
<1>3. HoldOk(s)
  BY <1>1, <1>a, InitialRecords DEF SetInited, At, ThreadState, HoldOk, KeepsTicket, DerefLabels
<1>4. ThreadInv([thr EXCEPT ![w] = s])
  <2> HIDE DEF s
  <2> QED BY <1>1, <1>2, <1>3, UpdateThread
<1>5. ThreadInv(thr')
  BY <1>4, WakeIniType DEF SetInited
<1> QED BY <1>5 DEF SetInited, TypeInv, TypeOK, Holding, ThreadInv, queues, env

\* RejectOne keeps the types.
LEMMA RejectOneType ==
    ASSUME TypeInv, NEW a \in Admins, RejectOne(a)
    PROVE  TypeInv'
<1> DEFINE s == [thr[a] EXCEPT !.pos = thr[a].pos + 1]
<1>1. /\ a \in Threads /\ ThreadInv(thr) /\ thr[a] \in ThreadState
      /\ HoldOk(thr[a])
  BY ThreadsAre, ThreadFacts
<1>a. thr[a].pos + 1 \in Nat /\ thr[a].pos + 1 \in DOMAIN aw_head
  <2>1. thr[a].pos \in Nat /\ thr[a].pos < Len(aw_head) /\ aw_head \in Seq(Tickets)
    BY <1>1, ThreadFacts DEF RejectOne, TypeInv, TypeOK
  <2> QED BY <2>1
<1>2. s \in ThreadState
  BY <1>1, <1>a, ThreadFacts, LabelFacts, InitialRecords DEF ThreadState
<1>3. HoldOk(s)
  BY <1>1, <1>a DEF RejectOne, At, ThreadState, HoldOk, KeepsTicket, DerefLabels
<1>4. ThreadInv([thr EXCEPT ![a] = s])
  <2> HIDE DEF s
  <2> QED BY <1>1, <1>2, <1>3, UpdateThread
<1>5. ThreadInv(thr')
  <2>1. [thr EXCEPT ![a].pos = @ + 1] = [thr EXCEPT ![a] = s]
    BY <1>1 DEF ThreadInv
  <2>2. ThreadInv([thr EXCEPT ![a].pos = @ + 1])
    BY <1>4, <2>1
  <2> QED BY <2>2, WakeTicketType DEF RejectOne
<1>6. tk' \in [Tickets -> TicketState]
  <2> DEFINE t == aw_head[thr[a].pos + 1]
             u == [tk[t] EXCEPT !.answered = TRUE, !.aw_errno = TRUE]
  <2>1. t \in Tickets /\ tk[t] \in TicketState
    BY <1>a, QueueType, InitialRecords DEF TypeInv, TypeOK
  <2>2. u \in TicketState
    BY <2>1 DEF TicketState
  <2>3. tk' = [tk EXCEPT ![t] = u]
    BY <2>1 DEF RejectOne, TypeInv, TypeOK
  <2> QED BY <2>1, <2>2, <2>3, UpdateTicket DEF TypeInv, TypeOK
<1> QED BY <1>5, <1>6, OnlyThreads DEF RejectOne

\* RejectEnd keeps the types.
LEMMA RejectEndType ==
    ASSUME TypeInv, NEW a \in Admins, RejectEnd(a)
    PROVE  TypeInv'
<1> DEFINE s == IdleThread
<1>1. /\ a \in Threads /\ ThreadInv(thr) /\ thr[a] \in ThreadState
      /\ HoldOk(thr[a])
  BY ThreadsAre, ThreadFacts
<1>a. TRUE OBVIOUS
<1>2. s \in ThreadState
  BY <1>1, <1>a, ThreadFacts, LabelFacts, InitialRecords DEF ThreadState
<1>3. HoldOk(s)
  BY <1>1, <1>a, InitialRecords DEF RejectEnd, At, ThreadState, HoldOk, KeepsTicket, DerefLabels
<1>4. ThreadInv([thr EXCEPT ![a] = s])
  <2> HIDE DEF s
  <2> QED BY <1>1, <1>2, <1>3, UpdateThread
<1>5. ThreadInv(thr')
  <2>1. thr' = [thr EXCEPT ![a] = s]
    BY <1>1, <1>a DEF RejectEnd, ThreadInv
  <2> HIDE DEF s
  <2> QED BY <1>4, <2>1
<1>6. aw_head' \in Seq(Tickets)
  BY DEF RejectEnd
<1> QED BY <1>5, <1>6 DEF RejectEnd, TypeInv, TypeOK, Holding, ThreadInv, sess, env

\* DeviceKill keeps the types.
LEMMA DeviceKillType ==
    ASSUME TypeInv, DeviceKill
    PROVE  TypeInv'
<1> DEFINE s == [thr[Killer] EXCEPT !.pc = "kill", !.ret = "reject"]
<1>1. /\ Killer \in Threads /\ ThreadInv(thr) /\ thr[Killer] \in ThreadState
      /\ HoldOk(thr[Killer])
  BY ThreadsAre, ThreadFacts
<1>a. TRUE OBVIOUS
<1>2. s \in ThreadState
  BY <1>1, <1>a, ThreadFacts, LabelFacts, InitialRecords DEF ThreadState
<1>3. HoldOk(s)
  BY <1>1, <1>a DEF DeviceKill, At, ThreadState, HoldOk, KeepsTicket, DerefLabels
<1>4. ThreadInv([thr EXCEPT ![Killer] = s])
  <2> HIDE DEF s
  <2> QED BY <1>1, <1>2, <1>3, UpdateThread
<1>5. ThreadInv(thr')
  <2>1. thr' = [thr EXCEPT ![Killer] = s]
    BY <1>1, <1>a DEF DeviceKill, ThreadInv
  <2> HIDE DEF s
  <2> QED BY <1>4, <2>1
<1> QED BY <1>5, OnlyThreads DEF DeviceKill, TypeInv, TypeOK

\* DeviceClose keeps the types.
LEMMA DeviceCloseType ==
    ASSUME TypeInv, DeviceClose
    PROVE  TypeInv'
<1> DEFINE s == [thr[Closer] EXCEPT !.pc = "kill", !.ret = "reject"]
<1>1. /\ Closer \in Threads /\ ThreadInv(thr) /\ thr[Closer] \in ThreadState
      /\ HoldOk(thr[Closer])
  BY ThreadsAre, ThreadFacts
<1>a. TRUE OBVIOUS
<1>2. s \in ThreadState
  BY <1>1, <1>a, ThreadFacts, LabelFacts, InitialRecords DEF ThreadState
<1>3. HoldOk(s)
  BY <1>1, <1>a DEF DeviceClose, At, ThreadState, HoldOk, KeepsTicket, DerefLabels
<1>4. ThreadInv([thr EXCEPT ![Closer] = s])
  <2> HIDE DEF s
  <2> QED BY <1>1, <1>2, <1>3, UpdateThread
<1>5. ThreadInv(thr')
  <2>1. thr' = [thr EXCEPT ![Closer] = s]
    BY <1>1, <1>a DEF DeviceClose, ThreadInv
  <2> HIDE DEF s
  <2> QED BY <1>4, <2>1
<1> QED BY <1>5 DEF DeviceClose, TypeInv, TypeOK, Holding, ThreadInv, queues, env

\* KillWake keeps the types.
LEMMA KillWakeType ==
    ASSUME TypeInv, NEW x \in Threads, KillWake(x)
    PROVE  TypeInv'
<1> DEFINE s == [thr[x] EXCEPT !.pc = thr[x].ret]
<1>1. /\ x \in Threads /\ ThreadInv(thr) /\ thr[x] \in ThreadState
      /\ HoldOk(thr[x])
  BY ThreadsAre, ThreadFacts
<1>a. TRUE OBVIOUS
<1>2. s \in ThreadState
  BY <1>1, <1>a, ThreadFacts, LabelFacts, InitialRecords DEF ThreadState
<1>3. HoldOk(s)
  BY <1>1, <1>a DEF KillWake, At, ThreadState, HoldOk, KeepsTicket, DerefLabels
<1>4. ThreadInv([thr EXCEPT ![x] = s])
  <2> HIDE DEF s
  <2> QED BY <1>1, <1>2, <1>3, UpdateThread
<1>5. ThreadInv(thr')
  <2>1. [thr EXCEPT ![x].pc = thr[x].ret] = [thr EXCEPT ![x] = s]
    BY <1>1 DEF ThreadInv
  <2>2. ThreadInv([thr EXCEPT ![x].pc = thr[x].ret])
    BY <1>4, <2>1
  <2> QED BY <2>2, WakeIniType DEF KillWake
<1> QED BY <1>5, OnlyThreads DEF KillWake, TypeInv, TypeOK

\* fuse_insert_message returns: an interrupted request has its own ticket again.
LEMMA SentType ==
    ASSUME TypeInv, NEW r \in Requesters, thr[r].pc \in {"message", "msgins"}
    PROVE  ThreadInv(Sent(r))
<1> DEFINE me == thr[r]
           u == [me EXCEPT !.pc = "waited", !.op = "REQ", !.tkt = me.saved, !.saved = NoTicket]
           v == [me EXCEPT !.pc = "wait"]
<1>1. r \in Threads /\ ThreadInv(thr) /\ me \in ThreadState /\ HoldOk(me)
  BY ThreadsAre, ThreadFacts
<1>2. u \in ThreadState /\ v \in ThreadState
  BY <1>1, LabelFacts DEF ThreadState, Ops
<1>3. HoldOk(v)
  BY <1>1 DEF ThreadState, HoldOk, KeepsTicket, DerefLabels
<1>4. me.op = "INTERRUPT" => HoldOk(u)
  BY <1>1 DEF ThreadState, HoldOk, KeepsTicket, DerefLabels
<1>5. \/ me.op = "REQ" /\ Sent(r) = [thr EXCEPT ![r] = v]
      \/ me.op = "INTERRUPT" /\ Sent(r) = [thr EXCEPT ![r] = u]
      \/ Sent(r) = [thr EXCEPT ![r] = IdleThread]
  <2>1. CASE me.op = "REQ"
    BY <2>1 DEF Sent
  <2>2. CASE me.op = "INTERRUPT"
    BY <2>2 DEF Sent
  <2>3. CASE me.op \notin {"REQ", "INTERRUPT"}
    BY <2>3 DEF Sent
  <2> QED BY <2>1, <2>2, <2>3
<1> HIDE DEF me, u, v
<1> QED BY <1>1, <1>2, <1>3, <1>4, <1>5, UpdateThread, InitialRecords

\* InsertMessageDead keeps the types.
LEMMA InsertMessageDeadType ==
    ASSUME TypeInv, NEW r \in Requesters, InsertMessageDead(r)
    PROVE  TypeInv'
<1>1. r \in Threads
  BY ThreadsAre
<1>2. ThreadInv(thr')
  BY SentType DEF InsertMessageDead, At
<1>3. tk' \in [Tickets -> TicketState]
  <2> DEFINE t == thr[r].tkt
             u == [tk[t] EXCEPT !.dirty = TRUE]
  <2>1. t \in Tickets /\ tk[t] \in TicketState
    BY <1>1, ThreadFacts DEF InsertMessageDead, At, KeepsTicket, DerefLabels
  <2>2. u \in TicketState
    BY <2>1 DEF TicketState
  <2>3. tk' = [tk EXCEPT ![t] = u]
    BY <2>1 DEF InsertMessageDead, TypeInv, TypeOK
  <2> QED BY <2>1, <2>2, <2>3, UpdateTicket DEF TypeInv, TypeOK
<1>4. initSent' \in BOOLEAN
  BY DEF InsertMessageDead
<1> QED BY <1>2, <1>3, <1>4
    DEF InsertMessageDead, TypeInv, TypeOK, Holding, ThreadInv, sess, queues

\* InsertMessage keeps the types.
LEMMA InsertMessageType ==
    ASSUME TypeInv, NEW r \in Requesters, InsertMessage(r)
    PROVE  TypeInv'
<1>1. r \in Threads
  BY ThreadsAre
<1>2. ThreadInv(thr')
  BY SentType, WakeOneReaderType DEF InsertMessage, At
<1>3. ms_head' \in Seq(Tickets)
  <2>1. thr[r].tkt \in Tickets
    BY <1>1, ThreadFacts DEF InsertMessage, At, KeepsTicket, DerefLabels
  <2> QED BY <2>1, QueueType DEF InsertMessage, TypeInv, TypeOK
<1>4. initSent' \in BOOLEAN
  BY DEF InsertMessage
<1> QED BY <1>2, <1>3, <1>4
    DEF InsertMessage, TypeInv, TypeOK, Holding, ThreadInv, sess

\* KillData keeps the types.
LEMMA KillDataType ==
    ASSUME TypeInv, NEW x \in Threads, KillData(x)
    PROVE  TypeInv'
<1> DEFINE u == [thr[x] EXCEPT !.pc = thr[x].ret]
           v == [thr[x] EXCEPT !.pc = "killw"]
<1>1. /\ ThreadInv(thr) /\ thr[x] \in ThreadState /\ HoldOk(thr[x])
      /\ thr[x].pc = "kill"
  BY ThreadFacts DEF KillData, At
<1>2. u \in ThreadState /\ v \in ThreadState
  BY <1>1, ThreadFacts, LabelFacts DEF ThreadState
<1>3. HoldOk(u) /\ HoldOk(v)
  BY <1>1 DEF ThreadState, HoldOk, KeepsTicket, DerefLabels
<1>4. /\ [thr EXCEPT ![x].pc = thr[x].ret] = [thr EXCEPT ![x] = u]
      /\ [thr EXCEPT ![x].pc = "killw"] = [thr EXCEPT ![x] = v]
  BY <1>1 DEF ThreadInv
<1>5. ThreadInv([thr EXCEPT ![x].pc = thr[x].ret]) /\ ThreadInv([thr EXCEPT ![x].pc = "killw"])
  <2> HIDE DEF u, v
  <2> QED BY <1>1, <1>2, <1>3, <1>4, UpdateThread
<1>6. ThreadInv(thr')
  BY <1>5, WakeOneReaderType DEF KillData
<1> QED BY <1>6 DEF KillData, TypeInv, TypeOK, Holding, ThreadInv, queues, env

\* WriteUnknown keeps the types.
LEMMA WriteUnknownType ==
    ASSUME TypeInv, NEW w \in Writers, NEW m \in inbox, WriteUnknown(w, m)
    PROVE  TypeInv'
BY DEF WriteUnknown, TypeInv, TypeOK, Holding, sess, queues

\* The panics change nothing else.
LEMMA PanicType ==
    ASSUME TypeInv, UNCHANGED <<sess, queues, pool, tk, thr, env>>,
           panic' \in {"ticket count mismatch!", "use after free",
                       "ticket reused without being refreshed"}
    PROVE  TypeInv'
BY DEF TypeInv, TypeOK, Holding, sess, queues, env

-----------------------------------------------------------------------------

\* Every step keeps the types.
LEMMA NextType == TypeInv /\ [Next]_vars => TypeInv'
<1> SUFFICES ASSUME TypeInv, [Next]_vars PROVE TypeInv'
  OBVIOUS
<1>1. ASSUME NEW r \in Requesters, RequesterStep(r) PROVE TypeInv'
  <2>1. CASE FetchMismatch(r) \/ InsertMessageDirty(r)
    BY <2>1, PanicType DEF FetchMismatch, InsertMessageDirty
  <2> QED
    BY <1>1, <2>1, FetchNoneType, AllocType, PushAllType, FetchFreeType, MakeType,
       InsertCallbackType, InsertMessageDeadType, InsertMessageTestType,
       InsertMessageType, WaitAnsweredType, WaitDeadType, WaitSleepType, WokenType,
       TimedOutType, WaitedDropType, WaitedDetachType, WaitedOkType, UseDoneType
    DEF RequesterStep
<1>2. ASSUME NEW r \in Requesters, RequesterEvent(r) PROVE TypeInv'
  <2>1. CASE SendInit(r) \/ NewRequest(r) \/ SendForget(r) \/ SendRelease(r)
    <3>1. {"INIT", "REQ", "FORGET", "RELEASE"} \subseteq Ops \ {"INTERRUPT"}
      BY DEF Ops, OneWay
    <3> QED BY <2>1, <3>1, StartedType DEF SendInit, NewRequest, SendForget, SendRelease
  <2> QED
    BY <1>2, <2>1, IniSignalType, MakeFailType, MakeDropType, MakeLeakType, TimeoutType,
       InterruptedType, UseLeakType, RemakeType
    DEF RequesterEvent
<1>3. ASSUME NEW d \in Readers, ReaderStep(d) \/ ReaderEvent(d) PROVE TypeInv'
  BY <1>3, ReadPopType, ReadSleepType, ReadDeadType, ReadNothingType, ReadDeliverType,
     ReadSignalType, ReadShortType
  DEF ReaderStep, ReaderEvent
<1>4. ASSUME NEW w \in Writers, WriterStep(w) PROVE TypeInv'
  BY <1>4, WriteUnknownType, WriteFoundType, PullType, AnswerDropType, AnswerWakeType,
     ForgetCallbackType, InitCallbackType, InitFailType, SetInitedType
  DEF WriterStep
<1>5. ASSUME NEW a \in Admins, AdminStep(a) PROVE TypeInv'
  BY <1>5, RejectBeginType, RejectOneType, RejectEndType DEF AdminStep
<1>6. ASSUME NEW x \in Threads, SharedStep(x) PROVE TypeInv'
  <2>1. CASE UseAfterFree(x)
    BY <2>1, PanicType DEF UseAfterFree
  <2> QED
    BY <1>6, <2>1, KillDataType, KillWakeType, DropDestroyType, DropRefreshType,
       DropPushType
    DEF SharedStep
<1>7. CASE UNCHANGED vars
  BY <1>7 DEF vars, sess, queues, env, TypeInv, TypeOK, Holding
<1> QED
  BY <1>1, <1>2, <1>3, <1>4, <1>5, <1>6, <1>7, DeviceKillType, DeviceCloseType DEF Next

\* A new session is well typed.
LEMMA InitType == Init => TypeInv
<1> SUFFICES ASSUME Init PROVE TypeInv
  OBVIOUS
<1>1. pool \in PoolState
  BY DEF Init, PoolState
<1>2. tk \in [Tickets -> TicketState]
  BY InitialRecords DEF Init
<1>3. thr \in [Threads -> ThreadState] /\ Holding
  BY InitialRecords DEF Init, Holding
<1>4. nreq \in Rids /\ ms_head \in Seq(Tickets) /\ aw_head \in Seq(Tickets)
  BY InitialRecords DEF Init
<1> QED BY <1>1, <1>2, <1>3, <1>4 DEF Init, TypeInv, TypeOK

\* The type invariant, for every number of threads, tickets and requests: in
\* particular no list of fuse_data ever holds anything but tickets, and the counter
\* that fuse_ticket_fetch decrements never goes below zero.
THEOREM TypeCorrect == Spec => []TypeOK
<1>1. TypeInv => TypeOK
  BY DEF TypeInv
<1> QED BY InitType, NextType, <1>1, PTL DEF Spec

-----------------------------------------------------------------------------
(* The handshake: no message reaches the daemon before its answer to INIT  *)
(* has been looked at (HandshakeFirst).                                    *)
(*                                                                         *)
(* The argument.  INIT is the first request of a session and has ticket 0. *)
(* Until it is answered ticket 0 is never free, so another request gets    *)
(* another ticket, and with more than one ticket it goes to sleep in       *)
(* "fu_ini".  What wakes it is either the answer or fuse_data_kill, and in *)
(* a dead session it queues nothing: neither fuse_insert_callback nor      *)
(* fuse_insert_message goes on.                                            *)

InitLabels == {"fetch", "alloc", "pushall", "ini", "made", "cbins", "message", "msgins",
               "kill", "killw"}
Sending    == {"cbins", "message", "msgins"}

\* What may be said of thread x with record s when dead = d, initAnswered = a,
\* initSent = i, a request was made iff n, and ticketer = k.

\* Only fuse_vfsop_mount sends INIT, first of all and on ticket 0.
InitOk(x, s, i, n, k) ==
    /\ x = Mounter /\ ~i /\ n
    /\ s.pc \in InitLabels
    /\ s.pc \in {"kill", "killw"} => s.ret = "made"
    /\ IF s.pc \in {"fetch", "alloc"} THEN s.tkt = NoTicket /\ k = 0 ELSE s.tkt = 0 /\ k # 0

\* Another request is past "fu_ini" only if INIT was answered or the session is
\* dead, and does not queue anything in the second case.  It never has ticket 0
\* before INIT is answered.
RequestOk(s, d, a, i, k) ==
    /\ s.pc = "idle" => s.tkt = NoTicket /\ s.saved = NoTicket
    /\ s.pc # "idle" => i
    /\ s.pc \in {"cbins", "msgins"} => a
    /\ s.pc \in DerefLabels \/ s.op = "INTERRUPT" => d \/ a
    /\ s.pc = "pushall" => k > 1
    /\ ~a => s.tkt # 0 /\ s.saved # 0

\* fuse_data_kill and fuse_ticket_drop return a requester to where it called them.
ReturnOk(s) ==
    /\ s.pc \in {"drop", "push"} => s.ret = "idle"
    /\ s.pc = "ini" => s.ret = "made"
    /\ s.pc \in {"kill", "killw"} => s.ret \in {"made", "timedout"}

\* Readers, writers and admins: before INIT is answered the only ticket they
\* have is 0, fresh from a queue.
OtherOk(s, a, i) ==
    /\ s.pc \in {"setinit", "initfail"} => a
    /\ s.ret \in {"setinit", "initfail"} => a
    /\ s.pc \in {"drop", "push"} => s.ret # "killw"
    /\ ~a /\ s.tkt # NoTicket => s.tkt = 0 /\ s.pc \in {"got", "found"} /\ i

ThreadOk(x, s, d, a, i, n, k) ==
    /\ x \in Requesters => ReturnOk(s)
    /\ x \in Requesters /\ s.op = "INIT" => InitOk(x, s, i, n, k)
    /\ x \in Requesters /\ s.op # "INIT" => RequestOk(s, d, a, i, k)
    /\ x \notin Requesters => OtherOk(s, a, i)
    /\ s.pc = "killw" => d

\* Until INIT is answered ticket 0 carries INIT and is never free.
TicketZero ==
    ~initAnswered =>
        /\ ~tk[0].invalid /\ tk[0].cb # "standard"
        /\ initSent \/ thr[Mounter].pc \in Sending => tk[0].op = "INIT"
        /\ 0 \notin ToSet(pool.free)
        /\ ToSet(ms_head) \subseteq {0} /\ ToSet(aw_head) \subseteq {0}
        /\ \A m \in inbox : m.op = "INIT"
        /\ ~dead => pool.freeticket_counter = 0

Phases ==
    /\ inited => initAnswered
    /\ initAnswered => initSent
    /\ initSent => pool.ticketer # 0 /\ nreq # 0
    /\ nreq = 0 => pool.ticketer = 0
    /\ ~initSent => pool.freeticket_counter = 0 /\ ms_head = <<>> /\ inbox = {}

\* ThreadOk in the current state.
Ok(x)     == ThreadOk(x, thr[x], dead, initAnswered, initSent, nreq # 0, pool.ticketer)
ThreadsOk == \A x \in Threads : Ok(x)

HandshakeInv ==
    /\ ThreadsOk
    /\ TicketZero
    /\ Phases
-----------------------------------------------------------------------------
(* What the invariant says of one thread, and steps of one thread *)

\* What the invariants say of one requester.
LEMMA RequesterFacts ==
    ASSUME TypeInv, HandshakeInv, NEW r \in Requesters
    PROVE  /\ r \in Threads /\ thr[r] \in ThreadState /\ HoldOk(thr[r])
           /\ thr \in [Threads -> ThreadState]
           /\ ReturnOk(thr[r])
           /\ thr[r].op = "INIT" => InitOk(r, thr[r], initSent, nreq # 0, pool.ticketer)
           /\ thr[r].op # "INIT" => RequestOk(thr[r], dead, initAnswered, initSent, pool.ticketer)
           /\ thr[r].pc = "killw" => dead
BY ThreadsAre, ThreadFacts DEF HandshakeInv, ThreadsOk, Ok, ThreadOk, ThreadInv

\* What the invariants say of the shared state.
LEMMA StateFacts ==
    ASSUME TypeInv
    PROVE  /\ nreq \in Nat /\ pool \in PoolState /\ pool.ticketer \in Nat
           /\ tk \in [Tickets -> TicketState] /\ 0 \in Tickets /\ NoTicket # 0
           /\ ms_head \in Seq(Tickets) /\ aw_head \in Seq(Tickets)
<1>1. pool \in PoolState /\ nreq \in Rids
  BY DEF TypeInv, TypeOK
<1>2. nreq \in Nat
  BY <1>1 DEF Rids
<1>3. pool.ticketer \in Nat
  BY <1>1 DEF PoolState
<1> QED BY <1>1, <1>2, <1>3, InitialRecords DEF TypeInv, TypeOK, NoTicket

\* What the invariants say of a thread that is no requester.
LEMMA OtherFacts ==
    ASSUME TypeInv, HandshakeInv, NEW x \in Readers \cup Writers \cup Admins
    PROVE  /\ x \in Threads /\ x \notin Requesters /\ thr[x] \in ThreadState /\ HoldOk(thr[x])
           /\ thr \in [Threads -> ThreadState]
           /\ OtherOk(thr[x], initAnswered, initSent)
           /\ thr[x].pc = "killw" => dead
BY ThreadsAre, ThreadFacts DEF HandshakeInv, ThreadsOk, Ok, ThreadOk, ThreadInv

\* What is said of a thread stays true when the session dies, INIT is answered
\* or another request is made.
LEMMA OneThread ==
    ASSUME HandshakeInv, NEW x \in Threads, Ok(x)',
           \A y \in Threads : y # x => thr'[y] = thr[y],
           dead => dead', initAnswered => initAnswered', nreq # 0 => nreq' # 0,
           UNCHANGED <<initSent, pool.ticketer>>
    PROVE  ThreadsOk'
<1> SUFFICES ASSUME NEW y \in Threads, y # x PROVE Ok(y)'
  BY DEF ThreadsOk
<1>1. Ok(y) /\ thr'[y] = thr[y]
  BY DEF HandshakeInv, ThreadsOk
<1> QED BY <1>1 DEF Ok, ThreadOk, InitOk, RequestOk, OtherOk

\* Until INIT is answered a step leaves ticket 0 fit for it.
ZeroKept ==
    ~initAnswered => /\ ~tk'[0].invalid /\ tk'[0].cb # "standard"
                     /\ tk[0].op = "INIT" => tk'[0].op = "INIT"

\* Such a step keeps the invariant if it leaves the queues, the tickets' counters
\* and ticket 0 alone.
LEMMA Quiet ==
    ASSUME HandshakeInv, ThreadsOk',
           UNCHANGED <<inited, queues, inbox, initSent, initAnswered,
                       pool.free, pool.freeticket_counter, pool.ticketer>>,
           dead => dead', nreq # 0 => nreq' # 0,
           ZeroKept,
           thr'[Mounter].pc \in Sending =>
               initAnswered \/ thr[Mounter].pc \in Sending \/ tk'[0].op = "INIT"
    PROVE  HandshakeInv'
<1>1. TicketZero'
  BY DEF HandshakeInv, TicketZero, ZeroKept, queues
<1>2. Phases'
  BY DEF HandshakeInv, Phases, queues
<1> QED BY <1>1, <1>2 DEF HandshakeInv

\* A step of one thread that changes at most tickets otherwise.
LEMMA MoveOn ==
    ASSUME HandshakeInv, NEW x \in Threads,
           ThreadOk(x, thr'[x], dead, initAnswered, initSent, nreq # 0, pool.ticketer),
           \A y \in Threads : y # x => thr'[y] = thr[y],
           x = Mounter /\ thr'[x].pc \in Sending =>
               initAnswered \/ thr[x].pc \in Sending \/ tk'[0].op = "INIT",
           ZeroKept \/ UNCHANGED tk,
           UNCHANGED <<sess, queues, pool, env>>
    PROVE  HandshakeInv'
<1>1. ThreadsOk'
  BY OneThread DEF Ok, sess, env
<1>2. ZeroKept
  BY DEF HandshakeInv, TicketZero, ZeroKept
<1>3. Mounter \in Threads
  BY DEF Threads
<1> QED BY <1>1, <1>2, <1>3, Quiet DEF sess, env

-----------------------------------------------------------------------------
(* Requesters *)

\* Steps of a requester that only move it on.
LEMMA RequesterMoves ==
    ASSUME TypeInv, HandshakeInv, NEW r \in Requesters,
           \/ FetchNone(r) \/ IniSignal(r) \/ WaitAnswered(r) \/ WaitSleep(r) \/ Woken(r)
           \/ Timeout(r) \/ Interrupted(r) \/ WaitedDrop(r) \/ WaitedOk(r) \/ UseDone(r)
    PROVE  HandshakeInv'
<1> DEFINE Moves == /\ ThreadOk(r, thr'[r], dead, initAnswered, initSent, nreq # 0, pool.ticketer)
                    /\ thr'[r].pc \notin Sending
                    /\ \A y \in Threads : y # r => thr'[y] = thr[y]
                    /\ UNCHANGED <<sess, queues, pool, tk, env>>
<1>0. Moves
  <2> USE RequesterFacts
  <2> USE DEF At, ThreadState, ThreadOk, ReturnOk, InitOk, RequestOk, InitLabels, Sending,
              DerefLabels
  <2>1. ASSUME FetchNone(r) PROVE Moves
    BY <2>1 DEF FetchNone
  <2>2. ASSUME IniSignal(r) PROVE Moves
    BY <2>2 DEF IniSignal
  <2>3. ASSUME WaitAnswered(r) PROVE Moves
    BY <2>3 DEF WaitAnswered
  <2>4. ASSUME WaitSleep(r) PROVE Moves
    BY <2>4 DEF WaitSleep
  <2>5. ASSUME Woken(r) PROVE Moves
    BY <2>5 DEF Woken
  <2>6. ASSUME Timeout(r) PROVE Moves
    BY <2>6 DEF Timeout
  <2>7. ASSUME Interrupted(r) PROVE Moves
    BY <2>7 DEF Interrupted
  <2>8. ASSUME WaitedDrop(r) PROVE Moves
    BY <2>8 DEF WaitedDrop
  <2>9. ASSUME WaitedOk(r) PROVE Moves
    BY <2>9 DEF WaitedOk
  <2>10. ASSUME UseDone(r) PROVE Moves
    BY <2>10 DEF UseDone
  <2> QED BY <2>1, <2>2, <2>3, <2>4, <2>5, <2>6, <2>7, <2>8, <2>9, <2>10
<1> QED BY <1>0, RequesterFacts, MoveOn

\* Steps of a requester on its own ticket.
LEMMA RequesterTickets ==
    ASSUME TypeInv, HandshakeInv, NEW r \in Requesters,
           \/ Make(r) \/ InsertMessageTest(r) \/ WaitDead(r) \/ TimedOut(r) \/ WaitedDetach(r)
           \/ MakeDrop(r)
    PROVE  HandshakeInv'
<1> DEFINE t == thr[r].tkt
           Moves == /\ ThreadOk(r, thr'[r], dead, initAnswered, initSent, nreq # 0, pool.ticketer)
                    /\ r = Mounter /\ thr'[r].pc \in Sending =>
                           initAnswered \/ thr[r].pc \in Sending \/ tk'[0].op = "INIT"
                    /\ \A y \in Threads : y # r => thr'[y] = thr[y]
                    /\ ZeroKept
                    /\ UNCHANGED <<sess, queues, pool, env>>
<1>0. /\ t \in Tickets /\ 0 \in Tickets /\ tk \in [Tickets -> TicketState]
      /\ thr[r].op # "INIT" /\ ~initAnswered => t # 0
      /\ thr[r].op = "INIT" => t = 0 /\ thr[r].pc \in {"made", "message"}
      /\ ~initAnswered => /\ ~tk[0].invalid /\ tk[0].cb # "standard"
                          /\ initSent => tk[0].op = "INIT"
  BY RequesterFacts, ThreadFacts, InitialRecords
  DEF Make, MakeDrop, InsertMessageTest, WaitDead, TimedOut, WaitedDetach, At, KeepsTicket,
      DerefLabels, InitOk, RequestOk, InitLabels, HandshakeInv, TicketZero, TypeInv, TypeOK
<1> HIDE DEF t
<1>1. ASSUME Make(r) PROVE Moves
  <2>1. /\ \A y \in Threads : y # r => thr'[y] = thr[y]
        /\ thr'[r] = [thr[r] EXCEPT !.pc =
                         IF ~dead /\ thr[r].op \notin OneWay THEN "cbins" ELSE "message"]
        /\ thr[r].pc = "made" /\ UNCHANGED <<sess, queues, pool, env>>
    BY <1>1, RequesterFacts DEF Make, At
  <2>2. thr[r].op # "INIT" => initSent
    BY <2>1, RequesterFacts DEF RequestOk
  <2>3. ThreadOk(r, thr'[r], dead, initAnswered, initSent, nreq # 0, pool.ticketer)
    BY <2>1, RequesterFacts
    DEF ThreadState, ThreadOk, ReturnOk, InitOk, RequestOk, InitLabels, DerefLabels, OneWay
  <2>4. ZeroKept /\ (thr[r].op = "INIT" => tk'[0].op = "INIT")
    BY <1>0, <1>1 DEF Make, Headed, CallbackOf, OneWay, ZeroKept, TicketState, t
  <2>5. tk'[0].op = "INIT" \/ initAnswered
    BY <1>0, <2>2, <2>4 DEF ZeroKept
  <2> QED BY <2>1, <2>3, <2>4, <2>5
<1> USE RequesterFacts, <1>0
<1> USE DEF At, ThreadState, TicketState, ThreadOk, ReturnOk, InitOk, RequestOk, InitLabels,
            Sending, DerefLabels, ZeroKept
<1>2. ASSUME InsertMessageTest(r) PROVE Moves
  BY <1>2 DEF InsertMessageTest, t
<1>3. ASSUME WaitDead(r) PROVE Moves
  BY <1>3 DEF WaitDead, t
<1>4. ASSUME TimedOut(r) PROVE Moves
  BY <1>4 DEF TimedOut, t
<1>5. ASSUME WaitedDetach(r) PROVE Moves
  BY <1>5 DEF WaitedDetach, IdleThread, NoTicket, t
<1>6. ASSUME MakeDrop(r) PROVE Moves
  <2>1. ZeroKept
    BY <1>6 DEF MakeDrop, t
  <2>2. /\ thr'[r] = [thr[r] EXCEPT !.pc = "drop", !.ret = "idle"]
        /\ \A y \in Threads : y # r => thr'[y] = thr[y]
        /\ thr[r].pc = "made" /\ thr[r].op = "REQ" /\ UNCHANGED <<sess, queues, pool, env>>
    BY <1>6 DEF MakeDrop
  <2>3. ThreadOk(r, thr'[r], dead, initAnswered, initSent, nreq # 0, pool.ticketer)
    BY <2>2
  <2> QED BY <2>1, <2>2, <2>3
<1> QED BY <1>1, <1>2, <1>3, <1>4, <1>5, <1>6, MoveOn

-----------------------------------------------------------------------------
(* Readers, writers, fuse_device_kill and fuse_device_close *)

\* Their steps that only move them on.
LEMMA OtherMoves ==
    ASSUME TypeInv, HandshakeInv, NEW x \in Readers \cup Writers \cup Admins,
           \/ ReadSleep(x) \/ ReadDead(x) \/ ReadSignal(x) \/ ReadNothing(x)
           \/ AnswerDrop(x) \/ InitFail(x) \/ RejectBegin(x) \/ (x = Killer /\ DeviceKill)
    PROVE  HandshakeInv'
<1> DEFINE Moves == /\ OtherOk(thr'[x], initAnswered, initSent)
                    /\ thr'[x].pc # "killw"
                    /\ \A y \in Threads : y # x => thr'[y] = thr[y]
                    /\ UNCHANGED <<sess, queues, pool, tk, env>>
<1>0. NoTicket \notin Tickets
  BY InitialRecords
<1>1. Moves
  <2> USE OtherFacts, <1>0
  <2> USE DEF At, ThreadState, OtherOk, HoldOk, KeepsTicket, DerefLabels
  <2>1. ASSUME ReadSleep(x) PROVE Moves
    BY <2>1 DEF ReadSleep, Reading
  <2>2. ASSUME ReadDead(x) PROVE Moves
    BY <2>2 DEF ReadDead
  <2>3. ASSUME ReadSignal(x) PROVE Moves
    BY <2>3 DEF ReadSignal
  <2>4. ASSUME ReadNothing(x) PROVE Moves
    BY <2>4 DEF ReadNothing, ReadReturn, IdleThread, HandshakeInv, TicketZero
  <2>5. ASSUME AnswerDrop(x) PROVE Moves
    BY <2>5 DEF AnswerDrop, IdleThread
  <2>6. ASSUME InitFail(x) PROVE Moves
    BY <2>6 DEF InitFail
  <2>7. ASSUME RejectBegin(x) PROVE Moves
    BY <2>7 DEF RejectBegin
  <2>8. ASSUME x = Killer, DeviceKill PROVE Moves
    BY <2>8 DEF DeviceKill
  <2> QED BY <2>1, <2>2, <2>3, <2>4, <2>5, <2>6, <2>7, <2>8
<1> QED BY <1>1, OtherFacts, MoveOn DEF ThreadOk

\* A standard answer is never one to ticket 0 before INIT is answered.
LEMMA PullStep ==
    ASSUME TypeInv, HandshakeInv, NEW w \in Writers, Pull(w)
    PROVE  HandshakeInv'
<1>1. thr[w].tkt \in Tickets /\ NoTicket \notin Tickets /\ thr[w].pc = "found"
  BY OtherFacts, InitialRecords DEF Pull, At, HoldOk, KeepsTicket, DerefLabels
<1>2. initAnswered
  BY <1>1, OtherFacts DEF Pull, OtherOk, HandshakeInv, TicketZero
<1>3. /\ OtherOk(thr'[w], initAnswered, initSent) /\ thr'[w].pc # "killw"
      /\ \A y \in Threads : y # w => thr'[y] = thr[y]
  BY <1>2, OtherFacts DEF Pull, ThreadState, OtherOk
<1> QED BY <1>2, <1>3, OtherFacts, MoveOn DEF Pull, ThreadOk, ZeroKept

\* Before INIT is answered, a ticket that is dropped is not ticket 0.
LEMMA DropFacts ==
    ASSUME TypeInv, HandshakeInv, NEW x \in Threads, thr[x].pc \in {"drop", "push"}
    PROVE  /\ thr[x].tkt \in Tickets
           /\ initAnswered \/ (x \in Requesters /\ thr[x].tkt # 0)
           /\ x \in Requesters => thr[x].op # "INIT" /\ initSent /\ thr[x].ret = "idle"
                                  /\ (dead \/ initAnswered)
<1>1. thr[x].tkt \in Tickets /\ NoTicket \notin Tickets
  BY ThreadFacts, InitialRecords DEF KeepsTicket, DerefLabels
<1>2. CASE x \in Requesters
  BY <1>1, <1>2, RequesterFacts DEF InitOk, RequestOk, InitLabels, DerefLabels, ReturnOk
<1>3. CASE x \notin Requesters
  BY <1>1, <1>3, OtherFacts DEF OtherOk, Threads
<1> QED BY <1>2, <1>3

\* fuse_ticket_refresh, before a ticket returns to the free list.
LEMMA DropRefreshStep ==
    ASSUME TypeInv, HandshakeInv, NEW x \in Threads, DropRefresh(x)
    PROVE  HandshakeInv'
<1>1. thr[x] \in ThreadState /\ thr \in [Threads -> ThreadState] /\ 0 \in Tickets
      /\ thr[x].pc = "drop" /\ tk \in [Tickets -> TicketState]
  BY ThreadFacts, InitialRecords DEF DropRefresh, At, TypeInv, TypeOK
<1>2. ZeroKept
  BY <1>1, DropFacts DEF DropRefresh, ZeroKept, HandshakeInv, TicketZero
<1>3. \A y \in Threads : y # x => thr'[y] = thr[y]
  BY <1>1 DEF DropRefresh
<1>4. thr'[x] = [thr[x] EXCEPT !.pc = "push"]
  BY <1>1 DEF DropRefresh
<1>5. ThreadOk(x, thr'[x], dead, initAnswered, initSent, nreq # 0, pool.ticketer)
  <2>1. CASE x \in Requesters
    BY <1>1, <1>4, <2>1, DropFacts, RequesterFacts
    DEF ThreadState, ThreadOk, ReturnOk, RequestOk, DerefLabels
  <2>2. CASE x \notin Requesters
    BY <1>1, <1>4, <2>2, DropFacts, OtherFacts DEF ThreadState, ThreadOk, OtherOk, Threads
  <2> QED BY <2>1, <2>2
<1> QED BY <1>2, <1>3, <1>4, <1>5, MoveOn DEF DropRefresh, ThreadState, Sending

-----------------------------------------------------------------------------
(* Wakeups *)

\* Thread y is left alone, or it slept and is woken; a fetch only by the answer to
\* INIT or by the death of the session.
Undisturbed(y) ==
    \/ thr'[y] = thr[y]
    \/ thr[y].pc = "ini" /\ (dead' \/ initAnswered') /\ thr'[y] = [thr[y] EXCEPT !.pc = "made"]
    \/ thr[y].pc = "asleep" /\ thr'[y] = [thr[y] EXCEPT !.pc = "woken"]
    \/ y \in Readers /\ thr[y].pc = "rsleep" /\ thr'[y] = [thr[y] EXCEPT !.pc = "read"]

\* A step of thread x that wakes others at most keeps what is said of all threads.
LEMMA Wakeups ==
    ASSUME TypeInv, HandshakeInv, NEW x \in Threads, Ok(x)',
           \A y \in Threads : y # x => Undisturbed(y),
           dead => dead', initAnswered => initAnswered', nreq # 0 => nreq' # 0,
           UNCHANGED pool.ticketer, UNCHANGED initSent \/ (initSent' /\ x = Mounter)
    PROVE  ThreadsOk'
<1> SUFFICES ASSUME NEW y \in Threads, y # x PROVE Ok(y)'
  BY DEF ThreadsOk
<1>1. Ok(y) /\ Undisturbed(y) /\ thr[y] \in ThreadState
  BY ThreadFacts DEF HandshakeInv, ThreadsOk
<1>2. CASE thr'[y] = thr[y]
  BY <1>1, <1>2 DEF Ok, ThreadOk, InitOk, RequestOk, OtherOk
<1>3. CASE thr'[y] # thr[y] /\ y \in Requesters
  BY <1>1, <1>3 DEF Undisturbed, Ok, ThreadOk, InitOk, RequestOk, ReturnOk, ThreadState,
                    InitLabels, DerefLabels
<1>4. CASE thr'[y] # thr[y] /\ y \notin Requesters
  BY <1>1, <1>4 DEF Undisturbed, Ok, ThreadOk, OtherOk, ThreadState
<1> QED BY <1>2, <1>3, <1>4

\* Nobody is woken into the sending of a message.
LEMMA WokenMounter ==
    ASSUME TypeInv, NEW x \in Threads, \A y \in Threads : y # x => Undisturbed(y),
           x = Mounter => thr'[x].pc \notin Sending
    PROVE  thr'[Mounter].pc \in Sending => thr[Mounter].pc \in Sending
<1>1. Mounter \in Threads /\ thr[Mounter] \in ThreadState
  BY ThreadFacts DEF Threads
<1> QED BY <1>1 DEF Undisturbed, Sending, ThreadState


\* fuse_data_kill wakes those asleep in "fu_ini".
LEMMA KillWakeStep ==
    ASSUME TypeInv, HandshakeInv, NEW x \in Threads, KillWake(x)
    PROVE  HandshakeInv'
<1>1. thr[x] \in ThreadState /\ thr \in [Threads -> ThreadState] /\ thr[x].pc = "killw" /\ dead
      /\ Ok(x) /\ HoldOk(thr[x])
  BY ThreadFacts DEF KillWake, At, HandshakeInv, ThreadsOk, Ok, ThreadOk, ThreadInv
<1>2. \A y \in Threads : y # x => Undisturbed(y)
  BY <1>1 DEF KillWake, WakeIni, Undisturbed, sess
<1>3. thr'[x] = [thr[x] EXCEPT !.pc = IF thr[x].ret = "ini" THEN "made" ELSE thr[x].ret]
  BY <1>1 DEF KillWake, WakeIni, ThreadState
<1>4. Ok(x)' /\ (x = Mounter => thr'[x].pc \notin Sending)
  <2>1. CASE x \in Requesters
    BY <1>1, <1>3, <2>1 DEF KillWake, Ok, ThreadOk, InitOk, RequestOk, ReturnOk, ThreadState,
                    InitLabels, DerefLabels, Sending, sess, env
  <2>2. CASE x \notin Requesters
    BY <1>1, <1>3, <2>2 DEF KillWake, Ok, ThreadOk, OtherOk, HoldOk, ThreadState, sess, env
  <2> QED BY <2>1, <2>2
<1>5. ThreadsOk'
  BY <1>2, <1>4, Wakeups DEF KillWake, sess, env
<1>6. ZeroKept
  BY DEF KillWake, HandshakeInv, TicketZero, ZeroKept
<1> QED BY <1>2, <1>4, <1>5, <1>6, WokenMounter, Quiet DEF KillWake, sess, env

\* An answer, or its rejection, wakes the requester of the ticket.
LEMMA WakeTicketStep ==
    ASSUME TypeInv, HandshakeInv, NEW x \in Writers \cup Admins, AnswerWake(x) \/ RejectOne(x)
    PROVE  HandshakeInv'
<1>1. /\ x \in Threads /\ x \notin Requesters /\ thr[x] \in ThreadState
      /\ thr \in [Threads -> ThreadState] /\ thr[x].pc \in {"answer", "rejecting"}
      /\ OtherOk(thr[x], initAnswered, initSent) /\ tk \in [Tickets -> TicketState]
      /\ 0 \in Tickets
  BY OtherFacts, InitialRecords DEF AnswerWake, RejectOne, At, TypeInv, TypeOK
<1>2. \A y \in Threads : y # x => Undisturbed(y)
  BY <1>1 DEF AnswerWake, RejectOne, WakeTicket, Undisturbed
<1>3. \/ thr'[x] = IdleThread
      \/ thr'[x] = [thr[x] EXCEPT !.pos = @ + 1]
  <2>1. CASE AnswerWake(x)
    BY <1>1, <2>1 DEF AnswerWake, WakeTicket, IdleThread
  <2>2. CASE RejectOne(x)
    BY <1>1, <2>2 DEF RejectOne, WakeTicket, At, ThreadState
  <2> QED BY <2>1, <2>2
<1>4. Ok(x)'
  BY <1>1, <1>3 DEF AnswerWake, RejectOne, Ok, ThreadOk, OtherOk, IdleThread, ThreadState, env
<1>5. ThreadsOk'
  BY <1>1, <1>2, <1>4, Wakeups DEF AnswerWake, RejectOne, sess, env
<1>6. ZeroKept
  BY <1>1 DEF AnswerWake, RejectOne, HandshakeInv, TicketZero, ZeroKept, TicketState
<1>7. UNCHANGED <<sess, queues, pool, env>>
  BY DEF AnswerWake, RejectOne
<1> QED BY <1>1, <1>2, <1>5, <1>6, <1>7, WokenMounter, Quiet DEF sess, env

\* fuse_data_kill: a reader is woken.
LEMMA KillDataStep ==
    ASSUME TypeInv, HandshakeInv, NEW x \in Threads, KillData(x)
    PROVE  HandshakeInv'
<1>1. thr[x] \in ThreadState /\ thr \in [Threads -> ThreadState] /\ thr[x].pc = "kill" /\ Ok(x)
      /\ HoldOk(thr[x])
  BY ThreadFacts DEF KillData, At, HandshakeInv, ThreadsOk, ThreadInv
<1>2. \A y \in Threads : y # x => Undisturbed(y)
  BY <1>1 DEF KillData, WakeOneReader, At, Undisturbed
<1>3. thr'[x] = [thr[x] EXCEPT !.pc = IF dead THEN thr[x].ret ELSE "killw"]
  BY <1>1 DEF KillData, WakeOneReader, At
<1>4. Ok(x)' /\ (x = Mounter => thr'[x].pc \notin Sending)
  <2>1. CASE x \in Requesters
    BY <1>1, <1>3, <2>1 DEF KillData, Ok, ThreadOk, InitOk, RequestOk, ReturnOk, ThreadState,
                    InitLabels, DerefLabels, Sending, env
  <2>2. CASE x \notin Requesters
    BY <1>1, <1>3, <2>2 DEF KillData, Ok, ThreadOk, OtherOk, HoldOk, ThreadState, env
  <2> QED BY <2>1, <2>2
<1>5. ThreadsOk'
  BY <1>2, <1>4, Wakeups DEF KillData, env
<1>6. ZeroKept
  BY DEF KillData, HandshakeInv, TicketZero, ZeroKept
<1> QED BY <1>2, <1>4, <1>5, <1>6, WokenMounter, Quiet DEF KillData, env

\* The other two ways in which the session ends.
LEMMA EndSteps ==
    ASSUME TypeInv, HandshakeInv, NEW x \in Readers \cup Admins,
           ReadShort(x) \/ (x = Closer /\ DeviceClose)
    PROVE  HandshakeInv'
<1>1. /\ OtherOk(thr'[x], initAnswered, initSent) /\ thr'[x].pc # "killw"
      /\ \A y \in Threads : y # x => thr'[y] = thr[y]
  <2>1. CASE ReadShort(x)
    BY <2>1, OtherFacts DEF ReadShort, ReadReturn, IdleThread, HandshakeInv, TicketZero, At,
                            ThreadState, OtherOk
  <2>2. CASE x = Closer /\ DeviceClose
    BY <2>2, OtherFacts DEF DeviceClose, At, ThreadState, OtherOk
  <2> QED BY <2>1, <2>2
<1>2. /\ UNCHANGED <<inited, queues, pool, tk, env>>
      /\ dead => dead'
  BY DEF ReadShort, DeviceClose
<1>3. ThreadsOk'
  BY <1>1, <1>2, OtherFacts, OneThread DEF ThreadOk, Ok, env
<1>4. ZeroKept
  BY <1>2 DEF HandshakeInv, TicketZero, ZeroKept
<1>5. thr'[Mounter] = thr[Mounter]
  BY <1>1, OtherFacts DEF Threads
<1> QED BY <1>2, <1>3, <1>4, <1>5, Quiet DEF env

-----------------------------------------------------------------------------
(* The queues and the ticket lists *)

\* A part of a list holds elements of the list.
LEMMA SubSeqSet ==
    ASSUME NEW q \in Seq(Tickets), NEW m \in 1 .. Len(q) + 1, NEW n \in (m - 1) .. Len(q)
    PROVE  SubSeq(q, m, n) \in Seq(Tickets) /\ ToSet(SubSeq(q, m, n)) \subseteq ToSet(q)
<1>1. /\ SubSeq(q, m, n) \in Seq(Tickets) /\ Len(SubSeq(q, m, n)) = IF m <= n THEN n - m + 1 ELSE 0
      /\ \A j \in 1 .. n - m + 1 : SubSeq(q, m, n)[j] = q[m + j - 1]
  BY SubSeqProperties
<1>2. \A j \in 1 .. n - m + 1 : m + j - 1 \in DOMAIN q
  OBVIOUS
<1>3. DOMAIN SubSeq(q, m, n) \subseteq 1 .. n - m + 1
  BY <1>1
<1> QED BY <1>1, <1>2, <1>3 DEF ToSet

\* Two lists put together hold what each of them holds.
LEMMA ConcatSet ==
    ASSUME NEW p \in Seq(Tickets), NEW q \in Seq(Tickets)
    PROVE  ToSet(p \o q) \subseteq ToSet(p) \cup ToSet(q)
<1> SUFFICES ASSUME NEW j \in DOMAIN (p \o q) PROVE (p \o q)[j] \in ToSet(p) \cup ToSet(q)
  BY DEF ToSet
<1>1. j \in 1 .. Len(p) + Len(q) /\ (p \o q)[j] = IF j <= Len(p) THEN p[j] ELSE q[j - Len(p)]
  BY ConcatProperties
<1>2. CASE j <= Len(p)
  BY <1>1, <1>2 DEF ToSet
<1>3. CASE j > Len(p)
  <2>1. j - Len(p) \in DOMAIN q
    BY <1>1, <1>3
  <2> QED BY <1>1, <1>3, <2>1 DEF ToSet
<1> QED BY <1>1, <1>2, <1>3

\* What the list operations of the code leave in a list.
LEMMA ListFacts ==
    ASSUME NEW q \in Seq(Tickets), NEW t \in Tickets
    PROVE  /\ ToSet(Append(q, t)) \subseteq ToSet(q) \cup {t}
           /\ q # <<>> => Head(q) \in ToSet(q) /\ ToSet(Tail(q)) \subseteq ToSet(q)
           /\ \A i \in DOMAIN q : ToSet(RemoveAt(q, i)) \subseteq ToSet(q)
           /\ ToSet(FreeInsert(q, t)) \subseteq ToSet(q) \cup {t}
<1>1. ToSet(Append(q, t)) \subseteq ToSet(q) \cup {t}
  BY DEF ToSet
<1>2. q # <<>> => Head(q) \in ToSet(q) /\ ToSet(Tail(q)) \subseteq ToSet(q)
  BY DEF ToSet
<1>3. ASSUME NEW i \in DOMAIN q PROVE ToSet(RemoveAt(q, i)) \subseteq ToSet(q)
  <2>1. /\ 1 \in 1 .. Len(q) + 1 /\ i - 1 \in (1 - 1) .. Len(q)
        /\ i + 1 \in 1 .. Len(q) + 1 /\ Len(q) \in (i + 1 - 1) .. Len(q)
    OBVIOUS
  <2> DEFINE a == SubSeq(q, 1, i - 1)
             b == SubSeq(q, i + 1, Len(q))
  <2>2. /\ a \in Seq(Tickets) /\ ToSet(a) \subseteq ToSet(q)
        /\ b \in Seq(Tickets) /\ ToSet(b) \subseteq ToSet(q)
    BY <2>1, SubSeqSet
  <2>3. RemoveAt(q, i) = a \o b
    BY DEF RemoveAt
  <2> HIDE DEF a, b
  <2> QED BY <2>2, <2>3, ConcatSet
<1>4. ToSet(FreeInsert(q, t)) \subseteq ToSet(q) \cup {t}
  <2>1. ASSUME NEW i \in DOMAIN q PROVE ToSet(SubSeq(q, 1, i)) \subseteq ToSet(q)
    <3>1. 1 \in 1 .. Len(q) + 1 /\ i \in (1 - 1) .. Len(q)
      OBVIOUS
    <3> QED BY <3>1, SubSeqSet
  <2>2. t \in ToSet(q) => (CHOOSE i \in DOMAIN q : q[i] = t) \in DOMAIN q
    BY DEF ToSet
  <2> QED BY <1>1, <2>1, <2>2 DEF FreeInsert
<1> QED BY <1>1, <1>2, <1>3, <1>4

\* Where fuse_ticket_drop returns to, nothing is in hand.
LEMMA DropReturns ==
    ASSUME TypeInv, HandshakeInv, NEW x \in Threads, thr[x].pc \in {"drop", "push"}
    PROVE  /\ ThreadOk(x, [IdleThread EXCEPT !.pc = thr[x].ret],
                       dead, initAnswered, initSent, nreq # 0, pool.ticketer)
           /\ x \in Requesters => thr[x].ret = "idle"
<1>1. NoTicket # 0
  BY DEF NoTicket
<1>2. CASE x \in Requesters
  BY <1>1, <1>2, DropFacts DEF ThreadOk, ReturnOk, RequestOk, IdleThread, DerefLabels
<1>3. CASE x \notin Requesters
  <2>1. thr[x].ret \in {"setinit", "initfail"} => initAnswered
    BY <1>3, OtherFacts DEF OtherOk, Threads
  <2>2. thr[x].ret # "killw"
    BY <1>3, OtherFacts DEF OtherOk, Threads
  <2> QED BY <1>3, <2>1, <2>2 DEF ThreadOk, OtherOk, IdleThread
<1> QED BY <1>2, <1>3

\* The free list grows by fuse_ticket_drop, never with ticket 0 in a handshake.
LEMMA DropSteps ==
    ASSUME TypeInv, HandshakeInv, NEW x \in Threads, DropDestroy(x) \/ DropPush(x)
    PROVE  HandshakeInv'
<1>1. /\ thr[x] \in ThreadState /\ thr \in [Threads -> ThreadState] /\ thr[x].pc \in {"drop", "push"}
      /\ pool \in PoolState /\ Mounter \in Threads
  BY ThreadFacts DEF DropDestroy, DropPush, At, TypeInv, TypeOK, Threads
<1>2. /\ thr'[x] = [IdleThread EXCEPT !.pc = thr[x].ret]
      /\ \A y \in Threads : y # x => thr'[y] = thr[y]
  BY <1>1 DEF DropDestroy, DropPush
<1>3. UNCHANGED <<sess, queues, tk, env, pool.ticketer>>
  BY <1>1 DEF DropDestroy, DropPush, Destroy, PoolState
<1>4. ThreadsOk'
  BY <1>1, <1>2, <1>3, DropReturns, OneThread DEF Ok, sess, env
<1>5. thr'[Mounter].pc \in Sending => thr[Mounter].pc \in Sending
  BY <1>1, <1>2, DropReturns DEF IdleThread, Sending
<1>6. /\ initSent /\ (dead \/ initAnswered)
      /\ ~initAnswered => 0 \notin ToSet(pool.free)'
  <2>1. initSent /\ (dead \/ initAnswered)
    BY <1>1, DropFacts DEF HandshakeInv, Phases
  <2>2. ASSUME ~initAnswered, DropPush(x) PROVE 0 \notin ToSet(pool.free)'
    <3>1. pool.free' = FreeInsert(pool.free, thr[x].tkt) /\ pool.free \in Seq(Tickets)
      BY <1>1, <2>2 DEF DropPush, PoolState
    <3>2. thr[x].tkt \in Tickets /\ thr[x].tkt # 0 /\ 0 \notin ToSet(pool.free)
      BY <1>1, <2>2, DropFacts DEF HandshakeInv, TicketZero
    <3> QED BY <3>1, <3>2, ListFacts
  <2>3. ASSUME ~initAnswered, DropDestroy(x) PROVE 0 \notin ToSet(pool.free)'
    BY <1>1, <2>3 DEF DropDestroy, Destroy, PoolState, HandshakeInv, TicketZero
  <2> QED BY <2>1, <2>2, <2>3
<1>7. TicketZero'
  BY <1>3, <1>5, <1>6 DEF HandshakeInv, TicketZero, sess, queues, env
<1>8. Phases'
  BY <1>3, <1>6 DEF HandshakeInv, Phases, sess, queues, env
<1> QED BY <1>4, <1>7, <1>8 DEF HandshakeInv

\* fuse_ticket_fetch with the ticket in hand: before INIT is answered a request
\* goes to sleep, unless it took a used ticket in a dead session.
LEMMA FetchSteps ==
    ASSUME TypeInv, HandshakeInv, NEW r \in Requesters, PushAll(r) \/ FetchFree(r)
    PROVE  HandshakeInv'
<1>1. /\ thr[r] \in ThreadState /\ thr \in [Threads -> ThreadState] /\ r \in Threads
      /\ pool \in PoolState /\ Mounter \in Threads
  BY RequesterFacts DEF TypeInv, TypeOK, Threads
<1>2. /\ thr'[r].pc = FetchTail /\ thr'[r].ret = "made"
      /\ thr'[r].op = thr[r].op /\ thr'[r].saved = thr[r].saved
      /\ \A y \in Threads : y # r => thr'[y] = thr[y]
  BY <1>1 DEF PushAll, FetchFree, ThreadState
<1>3. UNCHANGED <<sess, queues, tk, env, pool.ticketer>>
  BY <1>1 DEF PushAll, FetchFree, PoolState
<1>4. FetchTail \in {"ini", "kill", "made"} /\ (~inited /\ pool.ticketer > 1 => FetchTail = "ini")
  BY DEF FetchTail
<1>5. CASE PushAll(r)
  <2>1. thr'[r].tkt = thr[r].tkt /\ thr[r].pc = "pushall"
    BY <1>1, <1>5 DEF PushAll, At, ThreadState
  <2>2. Ok(r)'
    BY <1>1, <1>2, <1>3, <1>4, <2>1, RequesterFacts
    DEF Ok, ThreadOk, ReturnOk, InitOk, RequestOk, InitLabels, DerefLabels, HandshakeInv, Phases,
        sess, env
  <2>3. UNCHANGED <<pool.free, pool.freeticket_counter>>
    BY <1>1, <1>5 DEF PushAll, PoolState
  <2>4. ThreadsOk'
    BY <1>1, <1>2, <1>3, <2>2, OneThread DEF sess, env
  <2>5. ZeroKept
    BY <1>3 DEF HandshakeInv, TicketZero, ZeroKept
  <2>6. thr'[Mounter].pc \in Sending => thr[Mounter].pc \in Sending
    BY <1>1, <1>2, <1>4 DEF Sending
  <2> QED BY <1>3, <2>3, <2>4, <2>5, <2>6, Quiet DEF sess, env
<1>6. CASE FetchFree(r)
  <2>1. /\ thr'[r].tkt = Head(pool.free) /\ thr[r].pc = "fetch" /\ pool.free # <<>>
        /\ pool.free' = FreeTail
    BY <1>1, <1>6 DEF FetchFree, At, ThreadState, CountMismatch, PoolState
  <2>2. thr[r].op # "INIT" /\ initSent /\ (dead \/ initAnswered)
    BY <1>6, <2>1, RequesterFacts
    DEF FetchFree, InitOk, RequestOk, HandshakeInv, Phases, TicketZero
  <2>3. Head(pool.free) \in ToSet(pool.free) /\ ToSet(FreeTail) \subseteq ToSet(pool.free)
    BY <1>1, <2>1, ListFacts, InitialRecords DEF FreeTail, PoolState
  <2>4. Ok(r)'
    BY <1>1, <1>2, <1>3, <1>4, <2>1, <2>2, <2>3, RequesterFacts
    DEF Ok, ThreadOk, ReturnOk, RequestOk, DerefLabels, HandshakeInv, TicketZero, sess, env
  <2>5. ThreadsOk'
    BY <1>1, <1>2, <1>3, <2>4, OneThread DEF sess, env
  <2>6. thr'[Mounter].pc \in Sending => thr[Mounter].pc \in Sending
    BY <1>1, <1>2, <1>4 DEF Sending
  <2>7. TicketZero'
    BY <1>3, <2>1, <2>2, <2>3, <2>6 DEF HandshakeInv, TicketZero, sess, queues, env
  <2>8. Phases'
    BY <1>3, <2>2 DEF HandshakeInv, Phases, sess, queues, env
  <2> QED BY <2>5, <2>7, <2>8 DEF HandshakeInv
<1> QED BY <1>5, <1>6

-----------------------------------------------------------------------------
(* Requests begin and are made again *)

\* A request begins.
LEMMA StartSteps ==
    ASSUME TypeInv, HandshakeInv, NEW r \in Requesters,
           SendInit(r) \/ NewRequest(r) \/ SendForget(r) \/ SendRelease(r)
    PROVE  HandshakeInv'
<1>1. /\ thr[r] \in ThreadState /\ thr \in [Threads -> ThreadState] /\ r \in Threads
      /\ nreq \in Nat /\ thr[r].pc = "idle"
  BY RequesterFacts, StateFacts DEF SendInit, NewRequest, SendForget, SendRelease, Started, At
<1>2. thr[r].tkt = NoTicket /\ thr[r].saved = NoTicket /\ NoTicket # 0
  BY <1>1, RequesterFacts DEF InitOk, RequestOk, InitLabels, NoTicket
<1>3. /\ thr'[r].pc = "fetch" /\ thr'[r].tkt = NoTicket /\ thr'[r].saved = NoTicket
      /\ \A y \in Threads : y # r => thr'[y] = thr[y]
      /\ UNCHANGED <<sess, queues, pool, tk, inbox, initSent, initAnswered>>
      /\ nreq' = nreq + 1
  BY <1>1, <1>2 DEF SendInit, NewRequest, SendForget, SendRelease, Started, ThreadState
<1>4. nreq' # 0
  BY <1>1, <1>3
<1>5. Ok(r)'
  <2>1. CASE SendInit(r)
    <3>1. r = Mounter /\ ~initSent /\ pool.ticketer = 0 /\ thr'[r].op = "INIT"
      BY <1>1, <2>1 DEF SendInit, Started, ThreadState, HandshakeInv, Phases
    <3> QED BY <1>3, <1>4, <3>1 DEF Ok, ThreadOk, InitOk, ReturnOk, InitLabels
  <2>2. CASE NewRequest(r) \/ SendForget(r) \/ SendRelease(r)
    <3>1. initSent /\ thr'[r].op \in {"REQ", "FORGET", "RELEASE"}
      BY <1>1, <2>2 DEF NewRequest, SendForget, SendRelease, Started, ThreadState
    <3> QED BY <1>2, <1>3, <3>1 DEF Ok, ThreadOk, RequestOk, ReturnOk, DerefLabels
  <2> QED BY <2>1, <2>2
<1>6. ThreadsOk'
  BY <1>1, <1>3, <1>4, <1>5, OneThread DEF sess
<1>7. ZeroKept
  BY <1>3 DEF HandshakeInv, TicketZero, ZeroKept
<1>8. thr'[Mounter].pc \in Sending => thr[Mounter].pc \in Sending
  BY <1>3 DEF Sending, Threads
<1> QED BY <1>3, <1>4, <1>6, <1>7, <1>8, Quiet DEF sess

\* A request is made on the ticket of the one before.
LEMMA RemakeSteps ==
    ASSUME TypeInv, HandshakeInv, NEW r \in Requesters, Remake(r) \/ MakeFail(r)
    PROVE  HandshakeInv'
<1>1. /\ thr[r] \in ThreadState /\ thr \in [Threads -> ThreadState] /\ r \in Threads
      /\ nreq \in Nat /\ pool \in PoolState /\ tk \in [Tickets -> TicketState] /\ 0 \in Tickets
  BY RequesterFacts, StateFacts
<1>2. /\ thr[r].op # "INIT" /\ initSent /\ (dead \/ initAnswered) /\ NoTicket # 0
      /\ ~initAnswered => thr[r].tkt # 0 /\ thr[r].saved # 0
  BY RequesterFacts DEF Remake, MakeFail, At, InitOk, RequestOk, InitLabels, DerefLabels, NoTicket
<1>3. /\ UNCHANGED <<sess, queues, inbox, initSent, initAnswered, pool.ticketer, pool.free,
                     pool.freeticket_counter>>
      /\ nreq # 0 => nreq' # 0
  <2>1. nreq + 1 # 0
    BY <1>1
  <2> QED BY <1>1, <2>1 DEF Remake, MakeFail, Destroy, PoolState, env
<1>4. /\ \/ thr'[r] = IdleThread
         \/ thr'[r] = [thr[r] EXCEPT !.pc = "made", !.rid = nreq + 1]
      /\ \A y \in Threads : y # r => thr'[y] = thr[y]
  BY <1>1 DEF Remake, MakeFail
<1>5. Ok(r)' /\ thr'[r].pc \notin Sending
  <2>1. CASE thr'[r] = IdleThread
    <3>1. /\ thr'[r].pc = "idle" /\ thr'[r].op = "none"
          /\ thr'[r].tkt = NoTicket /\ thr'[r].saved = NoTicket
      BY <2>1 DEF IdleThread
    <3> QED BY <1>2, <3>1 DEF Ok, ThreadOk, RequestOk, ReturnOk, DerefLabels, Sending
  <2>2. CASE thr'[r] = [thr[r] EXCEPT !.pc = "made", !.rid = nreq + 1]
    BY <1>1, <1>2, <1>3, <2>2
    DEF Ok, ThreadOk, RequestOk, ReturnOk, DerefLabels, ThreadState, Sending, sess
  <2> QED BY <1>4, <2>1, <2>2
<1>6. ThreadsOk'
  BY <1>1, <1>3, <1>4, <1>5, OneThread DEF sess
<1>7. ZeroKept
  BY <1>1, <1>2 DEF Remake, MakeFail, HandshakeInv, TicketZero, ZeroKept
<1>8. thr'[Mounter].pc \in Sending => thr[Mounter].pc \in Sending
  BY <1>4, <1>5 DEF Threads
<1> QED BY <1>3, <1>6, <1>7, <1>8, Quiet DEF sess

\* fuse_ticket_alloc gives INIT ticket 0 and every other request another one.
LEMMA AllocStep ==
    ASSUME TypeInv, HandshakeInv, NEW r \in Requesters, Alloc(r)
    PROVE  HandshakeInv'
<1>1. /\ thr[r] \in ThreadState /\ thr \in [Threads -> ThreadState] /\ r \in Threads
      /\ pool \in PoolState /\ pool.ticketer \in Nat /\ thr[r].pc = "alloc"
  BY RequesterFacts, StateFacts DEF Alloc, At
<1>2. /\ thr'[r] = [thr[r] EXCEPT !.pc = "pushall", !.tkt = pool.ticketer]
      /\ \A y \in Threads : y # r => thr'[y] = thr[y]
  BY <1>1 DEF Alloc
<1>3. /\ UNCHANGED <<sess, queues, tk, env, pool.free, pool.freeticket_counter>>
      /\ pool.ticketer' = pool.ticketer + 1
  BY <1>1 DEF Alloc, PoolState
<1>4. /\ pool.ticketer' # 0 /\ (pool.ticketer # 0 => pool.ticketer' > 1)
      /\ pool.ticketer > 1 => pool.ticketer' > 1
  BY <1>1, <1>3
<1>5. Ok(r)'
  BY <1>1, <1>2, <1>3, <1>4, RequesterFacts
  DEF Ok, ThreadOk, InitOk, RequestOk, ReturnOk, InitLabels, DerefLabels, ThreadState, sess, env,
      HandshakeInv, Phases
<1>6. ASSUME NEW y \in Threads, y # r PROVE Ok(y)'
  <2>1. Ok(y) /\ thr'[y] = thr[y]
    BY <1>2, <1>6 DEF HandshakeInv, ThreadsOk
  <2>2. thr[y].op = "INIT" /\ y \in Requesters => thr[y].pc \notin {"fetch", "alloc"}
    BY <1>1, <1>6, <2>1, RequesterFacts DEF Ok, ThreadOk, InitOk, RequestOk
  <2> QED BY <1>3, <1>4, <2>1, <2>2 DEF Ok, ThreadOk, InitOk, RequestOk, OtherOk, sess, env
<1>7. ThreadsOk'
  BY <1>5, <1>6 DEF ThreadsOk
<1>8. TicketZero'
  <2>1. thr'[Mounter].pc \in Sending => thr[Mounter].pc \in Sending
    BY <1>1, <1>2 DEF Sending, Threads, ThreadState
  <2> QED BY <1>3, <2>1 DEF HandshakeInv, TicketZero, sess, queues, env
<1>9. nreq # 0
  BY <1>1, RequesterFacts DEF InitOk, RequestOk, HandshakeInv, Phases
<1>10. Phases'
  BY <1>3, <1>4, <1>9 DEF HandshakeInv, Phases, sess, queues, env
<1> QED BY <1>7, <1>8, <1>10 DEF HandshakeInv

-----------------------------------------------------------------------------
(* fuse_insert_callback and fuse_insert_message *)

\* Only INIT is queued before it is answered.
LEMMA InsertCallbackStep ==
    ASSUME TypeInv, HandshakeInv, NEW r \in Requesters, InsertCallback(r)
    PROVE  HandshakeInv'
<1>1. /\ thr[r] \in ThreadState /\ thr \in [Threads -> ThreadState] /\ r \in Threads
      /\ thr[r].pc = "cbins" /\ thr[r].tkt \in Tickets /\ aw_head \in Seq(Tickets)
  BY RequesterFacts, StateFacts DEF InsertCallback, At, HoldOk, KeepsTicket, DerefLabels
<1>2. initAnswered \/ (thr[r].op = "INIT" /\ thr[r].tkt = 0)
  BY <1>1, RequesterFacts DEF InitOk, RequestOk
<1>3. /\ thr'[r] = [thr[r] EXCEPT !.pc = "message"]
      /\ \A y \in Threads : y # r => thr'[y] = thr[y]
      /\ UNCHANGED <<sess, ms_head, pool, tk, env>> /\ aw_head' = Append(aw_head, thr[r].tkt)
  BY <1>1 DEF InsertCallback
<1>4. Ok(r)'
  BY <1>1, <1>2, <1>3, RequesterFacts
  DEF Ok, ThreadOk, InitOk, RequestOk, ReturnOk, InitLabels, DerefLabels, ThreadState, sess, env
<1>5. ThreadsOk'
  BY <1>1, <1>3, <1>4, OneThread DEF sess, env
<1>6. thr'[Mounter].pc \in Sending => thr[Mounter].pc \in Sending
  BY <1>1, <1>3 DEF Sending, Threads
<1>7. ToSet(aw_head)' \subseteq ToSet(aw_head) \cup {thr[r].tkt}
  BY <1>1, <1>3, ListFacts
<1>8. TicketZero'
  BY <1>2, <1>3, <1>6, <1>7 DEF HandshakeInv, TicketZero, sess, env
<1>9. Phases'
  BY <1>3 DEF HandshakeInv, Phases, sess, env
<1> QED BY <1>5, <1>8, <1>9 DEF HandshakeInv

\* The sender after fuse_insert_message.
LEMMA SentOk ==
    ASSUME TypeInv, HandshakeInv, NEW r \in Requesters, thr[r].pc \in {"message", "msgins"}
    PROVE  /\ Sent(r) = [thr EXCEPT ![r] = Sent(r)[r]]
           /\ Sent(r)[r].op # "INIT" /\ Sent(r)[r].pc \in {"wait", "waited", "idle"}
           /\ ReturnOk(Sent(r)[r])
           /\ RequestOk(Sent(r)[r], dead, initAnswered, TRUE, pool.ticketer)
<1>1. /\ thr[r] \in ThreadState /\ thr \in [Threads -> ThreadState] /\ r \in Threads
      /\ NoTicket # 0
  BY RequesterFacts, StateFacts
<1>2. Sent(r) = [thr EXCEPT ![r] = Sent(r)[r]]
  BY <1>1 DEF Sent
<1>3. CASE thr[r].op = "REQ"
  <2>1. Sent(r)[r] = [thr[r] EXCEPT !.pc = "wait"]
    BY <1>1, <1>3 DEF Sent
  <2> QED BY <1>1, <1>2, <1>3, <2>1, RequesterFacts DEF ReturnOk, RequestOk, ThreadState, DerefLabels
<1>4. CASE thr[r].op = "INTERRUPT"
  <2>1. Sent(r)[r] = [thr[r] EXCEPT !.pc = "waited", !.op = "REQ", !.tkt = thr[r].saved,
                                    !.saved = NoTicket]
    BY <1>1, <1>4 DEF Sent
  <2> QED BY <1>1, <1>2, <1>4, <2>1, RequesterFacts DEF ReturnOk, RequestOk, ThreadState, DerefLabels
<1>5. CASE thr[r].op \notin {"REQ", "INTERRUPT"}
  <2>1. Sent(r)[r] = IdleThread
    BY <1>1, <1>5 DEF Sent
  <2> QED BY <1>1, <1>2, <2>1 DEF ReturnOk, RequestOk, IdleThread, DerefLabels
<1> QED BY <1>3, <1>4, <1>5

\* fuse_insert_message, in a dead session and in a live one.  With INIT the
\* session reaches initSent.
LEMMA InsertMessageSteps ==
    ASSUME TypeInv, HandshakeInv, NEW r \in Requesters, InsertMessageDead(r) \/ InsertMessage(r)
    PROVE  HandshakeInv'
<1> DEFINE t == thr[r].tkt
<1>1. /\ thr[r] \in ThreadState /\ thr \in [Threads -> ThreadState] /\ r \in Threads
      /\ thr[r].pc \in {"message", "msgins"} /\ t \in Tickets /\ ms_head \in Seq(Tickets)
      /\ tk \in [Tickets -> TicketState] /\ 0 \in Tickets
  BY RequesterFacts, StateFacts DEF InsertMessage, InsertMessageDead, At, HoldOk, KeepsTicket, DerefLabels
<1>2. /\ initSent' = (initSent \/ thr[r].op = "INIT")
      /\ UNCHANGED <<sess, aw_head, pool, inbox, initAnswered, nreq>>
      /\ thr[r].op = "INIT" => InitOk(r, thr[r], initSent, nreq # 0, pool.ticketer)
      /\ thr[r].op # "INIT" => initSent
  BY <1>1, RequesterFacts DEF InsertMessage, InsertMessageDead, queues, RequestOk
<1>3. /\ thr'[r] = Sent(r)[r]
      /\ \A y \in Threads : y # r => Undisturbed(y)
  <2>1. Sent(r) = [thr EXCEPT ![r] = Sent(r)[r]]
    BY <1>1, SentOk
  <2>2. \/ thr' = Sent(r)
        \/ \E d \in Readers : thr[d].pc = "rsleep" /\ thr' = [Sent(r) EXCEPT ![d].pc = "read"]
    BY DEF InsertMessage, InsertMessageDead, WakeOneReader, At
  <2>3. \A d \in Readers : d # r /\ d \in Threads
    BY DEF Threads
  <2> HIDE DEF Sent
  <2> QED BY <1>1, <2>1, <2>2, <2>3 DEF Undisturbed
<1>4. Ok(r)'
  BY <1>1, <1>2, <1>3, SentOk DEF Ok, ThreadOk, sess
<1>5. ThreadsOk'
  BY <1>1, <1>2, <1>3, <1>4, Wakeups DEF InitOk, sess
<1>6. thr'[Mounter].pc \in Sending => thr[Mounter].pc \in Sending
  BY <1>1, <1>3, SentOk, WokenMounter DEF Sending
<1>7. ~initAnswered =>
        /\ ~tk'[0].invalid /\ tk'[0].cb # "standard" /\ tk'[0].op = "INIT"
        /\ ToSet(ms_head)' \subseteq {0}
  <2> SUFFICES ASSUME ~initAnswered
               PROVE  /\ ~tk'[0].invalid /\ tk'[0].cb # "standard" /\ tk'[0].op = "INIT"
                      /\ ToSet(ms_head)' \subseteq {0}
    OBVIOUS
  <2>1. ~tk[0].invalid /\ tk[0].cb # "standard" /\ tk[0].op = "INIT" /\ ToSet(ms_head) \subseteq {0}
    BY <1>1, <1>2 DEF HandshakeInv, TicketZero, InitOk, Sending
  <2>2. ~tk'[0].invalid /\ tk'[0].cb # "standard" /\ tk'[0].op = "INIT"
    <3>1. tk' = tk \/ tk' = [tk EXCEPT ![t].dirty = TRUE]
      BY DEF InsertMessage, InsertMessageDead
    <3> QED BY <1>1, <2>1, <3>1 DEF TicketState
  <2>3. CASE InsertMessageDead(r)
    BY <2>1, <2>2, <2>3 DEF InsertMessageDead, queues
  <2>4. CASE InsertMessage(r)
    <3>1. t = 0
      BY <2>4, RequesterFacts DEF InsertMessage, At, InitOk, RequestOk
    <3>2. ToSet(ms_head)' \subseteq ToSet(ms_head) \cup {t}
      BY <1>1, <2>4, ListFacts DEF InsertMessage
    <3> QED BY <2>1, <2>2, <3>1, <3>2
  <2> QED BY <2>3, <2>4
<1>8. TicketZero'
  BY <1>2, <1>7 DEF HandshakeInv, TicketZero, sess
<1>9. initSent' /\ pool.ticketer # 0 /\ nreq # 0
  BY <1>1, <1>2 DEF InitOk, HandshakeInv, Phases
<1>10. Phases'
  BY <1>2, <1>9 DEF HandshakeInv, Phases, sess
<1> QED BY <1>5, <1>8, <1>10 DEF HandshakeInv

-----------------------------------------------------------------------------
(* fuse_device_read, fuse_device_write and fuse_reject_answers *)

\* What a reader or writer with a ticket in hand knows before INIT is answered.
LEMMA InHand ==
    ASSUME TypeInv, HandshakeInv, NEW x \in Readers \cup Writers, thr[x].pc \in {"got", "found"}
    PROVE  /\ thr[x].tkt \in Tickets /\ initSent
           /\ ~initAnswered => thr[x].tkt = 0
<1>1. thr[x].tkt \in Tickets /\ NoTicket \notin Tickets
  BY OtherFacts, InitialRecords DEF HoldOk, KeepsTicket, DerefLabels
<1> QED BY <1>1, OtherFacts DEF OtherOk, HandshakeInv, Phases

\* A step of a reader, writer or admin that changes the queues or the inbox.
LEMMA OtherQueues ==
    ASSUME TypeInv, HandshakeInv, NEW x \in Readers \cup Writers \cup Admins,
           OtherOk(thr'[x], initAnswered, initSent), thr'[x].pc # "killw",
           \A y \in Threads : y # x => thr'[y] = thr[y],
           UNCHANGED <<sess, pool, tk, initSent, initAnswered, nreq>>,
           ToSet(ms_head') \subseteq ToSet(ms_head), ToSet(aw_head') \subseteq ToSet(aw_head),
           ~initAnswered => \A m \in inbox' : m.op = "INIT",
           ms_head' # <<>> \/ inbox' # {} => initSent
    PROVE  HandshakeInv'
<1>1. thr'[Mounter] = thr[Mounter] /\ x \in Threads /\ x \notin Requesters
  BY OtherFacts DEF Threads
<1>2. ThreadsOk'
  BY <1>1, OneThread DEF Ok, ThreadOk, sess
<1>3. TicketZero'
  BY <1>1 DEF HandshakeInv, TicketZero, sess
<1>4. Phases'
  BY DEF HandshakeInv, Phases, sess
<1> QED BY <1>2, <1>3, <1>4 DEF HandshakeInv

\* The daemon takes a message off ms_head.
LEMMA ReadPopStep ==
    ASSUME TypeInv, HandshakeInv, NEW d \in Readers, ReadPop(d)
    PROVE  HandshakeInv'
<1>1. /\ ms_head # <<>> /\ initSent /\ ms_head \in Seq(Tickets)
      /\ Head(ms_head) \in ToSet(ms_head) /\ ToSet(Tail(ms_head)) \subseteq ToSet(ms_head)
  BY StateFacts, ListFacts DEF ReadPop, HandshakeInv, Phases
<1>2. ~initAnswered => Head(ms_head) = 0
  BY <1>1 DEF HandshakeInv, TicketZero
<1>3. /\ thr'[d] = [thr[d] EXCEPT !.pc = "got", !.tkt = Head(ms_head)]
      /\ \A y \in Threads : y # d => thr'[y] = thr[y]
  BY OtherFacts DEF ReadPop
<1>4. OtherOk(thr'[d], initAnswered, initSent) /\ thr'[d].pc # "killw"
  BY <1>1, <1>2, <1>3, OtherFacts DEF OtherOk, ThreadState
<1>5. ~initAnswered => \A m \in inbox' : m.op = "INIT"
  BY DEF ReadPop, env, HandshakeInv, TicketZero
<1> QED BY <1>1, <1>3, <1>4, <1>5, OtherQueues DEF ReadPop, env

\* The daemon gets a message.
LEMMA ReadDeliverStep ==
    ASSUME TypeInv, HandshakeInv, NEW d \in Readers, ReadDeliver(d)
    PROVE  HandshakeInv'
<1>1. /\ thr[d].pc = "got" /\ thr[d].tkt \in Tickets /\ initSent
      /\ ~initAnswered => thr[d].tkt = 0
  BY InHand DEF ReadDeliver, At
<1>2. ~initAnswered => \A m \in inbox' : m.op = "INIT"
  BY <1>1 DEF ReadDeliver, HandshakeInv, TicketZero
<1>3. \/ ~tk[thr[d].tkt].invalid /\ thr'[d] = IdleThread
      \/ tk[thr[d].tkt].invalid /\ thr'[d] = [thr[d] EXCEPT !.pc = "drop", !.ret = "idle"]
  BY OtherFacts DEF ReadDeliver, ReadReturn
<1>4. \A y \in Threads : y # d => thr'[y] = thr[y]
  BY OtherFacts DEF ReadDeliver, ReadReturn
<1>5. ~initAnswered => ~tk[thr[d].tkt].invalid
  BY <1>1 DEF HandshakeInv, TicketZero
<1>6. OtherOk(thr'[d], initAnswered, initSent) /\ thr'[d].pc # "killw"
  <2>1. CASE thr'[d] = IdleThread
    BY <2>1 DEF OtherOk, IdleThread
  <2>2. CASE tk[thr[d].tkt].invalid /\ thr'[d] = [thr[d] EXCEPT !.pc = "drop", !.ret = "idle"]
    BY <1>5, <2>2, OtherFacts DEF OtherOk, ThreadState
  <2> QED BY <1>3, <2>1, <2>2
<1> QED BY <1>1, <1>2, <1>4, <1>6, OtherQueues DEF ReadDeliver, queues

\* The daemon writes an answer.
LEMMA WriteSteps ==
    ASSUME TypeInv, HandshakeInv, NEW w \in Writers, NEW m \in inbox,
           WriteUnknown(w, m) \/ \E k \in Replies : WriteFound(w, m, k)
    PROVE  HandshakeInv'
<1>1. initSent /\ (~initAnswered => \A n \in inbox' : n.op = "INIT")
  BY DEF WriteUnknown, WriteFound, HandshakeInv, Phases, TicketZero
<1>2. CASE WriteUnknown(w, m)
  <2>1. OtherOk(thr'[w], initAnswered, initSent) /\ thr'[w].pc # "killw"
    BY <1>2, OtherFacts DEF WriteUnknown, At
  <2> QED BY <1>1, <1>2, <2>1, OtherQueues DEF WriteUnknown, queues
<1>3. ASSUME NEW k \in Replies, WriteFound(w, m, k) PROVE HandshakeInv'
  <2>1. PICK i \in DOMAIN aw_head : aw_head[i] = m.unique /\ aw_head' = RemoveAt(aw_head, i)
    BY <1>3 DEF WriteFound, Matches
  <2>2. ToSet(aw_head') \subseteq ToSet(aw_head)
    BY <2>1, StateFacts, ListFacts
  <2>3. ~initAnswered => m.unique = 0
    BY <2>1 DEF ToSet, HandshakeInv, TicketZero
  <2>4. /\ thr'[w] = [thr[w] EXCEPT !.pc = "found", !.tkt = m.unique, !.arid = m.rid, !.kind = k]
        /\ \A y \in Threads : y # w => thr'[y] = thr[y]
    BY <1>3, OtherFacts DEF WriteFound
  <2>5. OtherOk(thr'[w], initAnswered, initSent) /\ thr'[w].pc # "killw"
    BY <1>1, <2>3, <2>4, OtherFacts DEF OtherOk, ThreadState
  <2> QED BY <1>1, <1>3, <2>2, <2>4, <2>5, OtherQueues DEF WriteFound
<1> QED BY <1>2, <1>3

\* fuse_reject_answers empties aw_head.
LEMMA RejectEndStep ==
    ASSUME TypeInv, HandshakeInv, NEW a \in Admins, RejectEnd(a)
    PROVE  HandshakeInv'
<1>1. thr'[a] = IdleThread /\ \A y \in Threads : y # a => thr'[y] = thr[y]
  BY OtherFacts DEF RejectEnd
<1>2. OtherOk(thr'[a], initAnswered, initSent) /\ thr'[a].pc # "killw"
  BY <1>1 DEF OtherOk, IdleThread
<1>3. ToSet(aw_head') \subseteq ToSet(aw_head)
  BY DEF RejectEnd, ToSet
<1>4. /\ ~initAnswered => \A m \in inbox' : m.op = "INIT"
      /\ ms_head' # <<>> \/ inbox' # {} => initSent
  BY DEF RejectEnd, env, HandshakeInv, TicketZero, Phases
<1> QED BY <1>1, <1>2, <1>3, <1>4, OtherQueues DEF RejectEnd, env

\* fuse_internal_init_callback ends the handshake.
LEMMA InitCallbackStep ==
    ASSUME TypeInv, HandshakeInv, NEW w \in Writers, InitCallback(w)
    PROVE  HandshakeInv'
<1>1. initSent /\ thr[w].pc = "found"
  BY InHand DEF InitCallback, At
<1>2. /\ \A y \in Threads : y # w => thr'[y] = thr[y]
      /\ thr'[w].pc = "drop" /\ thr'[w].ret \in {"initfail", "setinit"}
      /\ initAnswered' /\ UNCHANGED <<sess, queues, pool, inbox, initSent, nreq>>
  BY OtherFacts DEF InitCallback, IdleThread
<1>3. ThreadsOk'
  BY <1>2, OtherFacts, OneThread DEF Ok, ThreadOk, OtherOk, sess
<1>4. TicketZero'
  BY <1>2 DEF TicketZero
<1>5. Phases'
  BY <1>1, <1>2 DEF HandshakeInv, Phases, sess, queues
<1> QED BY <1>3, <1>4, <1>5 DEF HandshakeInv

\* The answer to INIT has been taken: data->inited is set.
LEMMA SetInitedStep ==
    ASSUME TypeInv, HandshakeInv, NEW w \in Writers, SetInited(w)
    PROVE  HandshakeInv'
<1>1. initAnswered /\ w \in Threads /\ w \notin Requesters /\ thr \in [Threads -> ThreadState]
  BY OtherFacts DEF SetInited, At, OtherOk
<1>2. UNCHANGED <<dead, queues, pool, env>>
  BY DEF SetInited
<1>3. /\ thr'[w] = IdleThread
      /\ \A y \in Threads : y # w => Undisturbed(y)
  <2> DEFINE f == [thr EXCEPT ![w] = IdleThread]
  <2>1. f[w] = IdleThread /\ \A y \in Threads : y # w => f[y] = thr[y]
    BY <1>1
  <2>2. thr' = WakeIni(f) /\ initAnswered'
    BY <1>1, <1>2 DEF SetInited, env
  <2>3. IdleThread.pc # "ini"
    BY DEF IdleThread
  <2> HIDE DEF f
  <2> QED BY <1>1, <2>1, <2>2, <2>3 DEF WakeIni, Undisturbed
<1>4. ThreadsOk'
  <2>1. Ok(w)'
    BY <1>1, <1>3 DEF Ok, ThreadOk, OtherOk, IdleThread
  <2> QED BY <1>1, <1>2, <1>3, <2>1, Wakeups DEF env
<1>5. TicketZero'
  BY <1>1, <1>2 DEF TicketZero, env
<1>6. Phases'
  BY <1>1, <1>2 DEF HandshakeInv, Phases, env, queues
<1> QED BY <1>4, <1>5, <1>6 DEF HandshakeInv

\* A thread that loses its ticket has nothing left to do.
LEMMA LoserStep ==
    ASSUME TypeInv, HandshakeInv, NEW x \in Threads, Lose(thr[x].tkt),
           thr' = [thr EXCEPT ![x] = IdleThread], ZeroKept, UNCHANGED <<sess, queues, env>>
    PROVE  HandshakeInv'
<1>1. thr \in [Threads -> ThreadState] /\ pool \in PoolState /\ Mounter \in Threads /\ NoTicket # 0
  <2>1. Mounter \in Threads
    BY DEF Threads
  <2> QED BY <2>1, StateFacts DEF TypeInv, TypeOK
<1>2. thr'[x] = IdleThread /\ \A y \in Threads : y # x => thr'[y] = thr[y]
  BY <1>1
<1>3. UNCHANGED <<pool.free, pool.freeticket_counter, pool.ticketer>>
  BY <1>1 DEF Lose, PoolState
<1>4. Ok(x)'
  BY <1>1, <1>2 DEF Ok, ThreadOk, ReturnOk, RequestOk, OtherOk, IdleThread, DerefLabels
<1>5. ThreadsOk'
  BY <1>2, <1>3, <1>4, OneThread DEF sess, env
<1>6. thr'[Mounter].pc \in Sending => thr[Mounter].pc \in Sending
  BY <1>1, <1>2 DEF IdleThread, Sending
<1> QED BY <1>3, <1>5, <1>6, Quiet DEF sess, env

\* The exits of callers and of fuse_internal_forget_callback that lose a ticket.
LEMMA LoseSteps ==
    ASSUME TypeInv, HandshakeInv,
           \/ \E r \in Requesters : MakeLeak(r) \/ UseLeak(r)
           \/ \E w \in Writers : ForgetCallback(w)
    PROVE  HandshakeInv'
<1>0. tk \in [Tickets -> TicketState] /\ 0 \in Tickets /\ NoTicket \notin Tickets
  BY StateFacts, InitialRecords
<1>1. ASSUME NEW r \in Requesters, MakeLeak(r) PROVE HandshakeInv'
  <2>1. r \in Threads /\ thr[r].tkt \in Tickets /\ (~initAnswered => thr[r].tkt # 0)
    BY <1>1, RequesterFacts, ThreadFacts
    DEF MakeLeak, At, InitOk, RequestOk, KeepsTicket, DerefLabels
  <2>2. ZeroKept
    BY <1>0, <1>1, <2>1 DEF MakeLeak, ZeroKept, HandshakeInv, TicketZero
  <2> QED BY <1>1, <2>1, <2>2, LoserStep DEF MakeLeak
<1>2. ASSUME NEW r \in Requesters, UseLeak(r) PROVE HandshakeInv'
  <2>1. r \in Threads
    BY RequesterFacts
  <2>2. ZeroKept
    BY <1>2 DEF UseLeak, ZeroKept, HandshakeInv, TicketZero
  <2> QED BY <1>2, <2>1, <2>2, LoserStep DEF UseLeak
<1>3. ASSUME NEW w \in Writers, ForgetCallback(w) PROVE HandshakeInv'
  <2>1. w \in Threads /\ thr[w].tkt \in Tickets
    BY <1>3, OtherFacts DEF ForgetCallback, At, HoldOk, KeepsTicket, DerefLabels
  <2>2. ZeroKept
    BY <1>0, <1>3, <2>1 DEF ForgetCallback, ZeroKept, HandshakeInv, TicketZero, TicketState
  <2> QED BY <1>3, <2>1, <2>2, LoserStep DEF ForgetCallback
<1> QED BY <1>1, <1>2, <1>3

-----------------------------------------------------------------------------

\* Every step keeps the order of the handshake.
LEMMA NextHandshake == TypeInv /\ HandshakeInv /\ [Next]_vars => HandshakeInv'
<1> SUFFICES ASSUME TypeInv, HandshakeInv, [Next]_vars PROVE HandshakeInv'
  OBVIOUS
<1>1. ASSUME UNCHANGED <<sess, queues, pool, tk, thr, env>> PROVE HandshakeInv'
  BY <1>1 DEF sess, queues, env, HandshakeInv, ThreadsOk, Ok, TicketZero, Phases
<1>2. ASSUME NEW r \in Requesters, RequesterStep(r) PROVE HandshakeInv'
  <2>1. CASE FetchMismatch(r) \/ InsertMessageDirty(r)
    BY <1>1, <2>1 DEF FetchMismatch, InsertMessageDirty
  <2> QED
    BY <1>2, <2>1, RequesterMoves, RequesterTickets, AllocStep, FetchSteps, InsertCallbackStep,
       InsertMessageSteps
    DEF RequesterStep
<1>3. ASSUME NEW r \in Requesters, RequesterEvent(r) PROVE HandshakeInv'
  BY <1>3, StartSteps, RequesterMoves, RequesterTickets, RemakeSteps, LoseSteps DEF RequesterEvent
<1>4. ASSUME NEW d \in Readers, ReaderStep(d) \/ ReaderEvent(d) PROVE HandshakeInv'
  BY <1>4, ReadPopStep, OtherMoves, ReadDeliverStep, EndSteps DEF ReaderStep, ReaderEvent
<1>5. ASSUME NEW w \in Writers, WriterStep(w) PROVE HandshakeInv'
  BY <1>5, WriteSteps, PullStep, OtherMoves, WakeTicketStep, LoseSteps, InitCallbackStep,
     SetInitedStep
  DEF WriterStep
<1>6. ASSUME NEW a \in Admins, AdminStep(a) PROVE HandshakeInv'
  BY <1>6, OtherMoves, WakeTicketStep, RejectEndStep DEF AdminStep
<1>7. CASE DeviceKill \/ DeviceClose
  BY <1>7, OtherMoves, EndSteps DEF Admins
<1>8. ASSUME NEW x \in Threads, SharedStep(x) PROVE HandshakeInv'
  <2>1. CASE UseAfterFree(x)
    BY <1>1, <2>1 DEF UseAfterFree
  <2> QED BY <1>8, <2>1, KillDataStep, KillWakeStep, DropSteps, DropRefreshStep DEF SharedStep
<1>9. CASE UNCHANGED vars
  BY <1>1, <1>9 DEF vars
<1> QED BY <1>2, <1>3, <1>4, <1>5, <1>6, <1>7, <1>8, <1>9 DEF Next

\* A new session has sent nothing.
LEMMA InitHandshake == Init => HandshakeInv
<1> SUFFICES ASSUME Init PROVE HandshakeInv
  OBVIOUS
<1>1. ThreadsOk
  BY DEF Init, ThreadsOk, Ok, ThreadOk, ReturnOk, RequestOk, OtherOk, IdleThread, DerefLabels, NoTicket
<1>2. TicketZero
  BY InitialRecords DEF Init, TicketZero, NewTicket, IdleThread, Sending, ToSet, Threads
<1>3. Phases
  BY DEF Init, Phases
<1> QED BY <1>1, <1>2, <1>3 DEF HandshakeInv

\* Before the daemon's answer to INIT has been looked at, INIT is the only message
\* queued for it or in its hands, whatever the number of requesters and of daemon
\* threads, and whatever signals, kills and failures come in between.
THEOREM HandshakeCorrect == Spec => []HandshakeFirst
<1>1. TypeInv /\ HandshakeInv => HandshakeFirst
  <2> SUFFICES ASSUME HandshakeInv, ~initAnswered
               PROVE  /\ \A t \in ToSet(ms_head) : tk[t].op = "INIT"
                      /\ \A m \in inbox : m.op = "INIT"
    BY DEF HandshakeFirst
  <2> QED BY DEF HandshakeInv, TicketZero, Phases, ToSet
<1> QED BY InitType, NextType, InitHandshake, NextHandshake, <1>1, PTL DEF Spec
=============================================================================
