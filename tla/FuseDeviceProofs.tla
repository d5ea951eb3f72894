-------------------------- MODULE FuseDeviceProofs --------------------------
(***************************************************************************)
(* Proofs about FuseDevice for any number of slots, sessions and threads,  *)
(* with and without the biglock.                                           *)
(*                                                                         *)
(* DeviceInv says, for each place in the code, what the thread there may   *)
(* rely on: which slot's mutex it holds, that its daemon has the slot      *)
(* counted, that the session it points to is still the slot's and is       *)
(* mounted by it.  The session of a slot can then be destroyed only by the *)
(* last of its daemon and its mount.                                       *)
(***************************************************************************)
EXTENDS FuseDevice, FiniteSetTheorems, TLAPS

USE ActorsAssumption, NamesAssumption

-----------------------------------------------------------------------------
(* The inductive invariant *)

DaemonLabels  == {"idle", "open", "openmtx", "alloc", "busy", "opened", "close", "closed", "unlock"}
MounterLabels == {"idle", "mount", "mtest", "send", "answer", "out", "tail", "mounted", "flush",
                  "unmount", "unlock"}
OtherLabels   == {"idle", "kill", "stop", "unlock"}

\* Which code each thread runs, and where it goes on after fdev->mtx.
RoleOk(x) ==
    /\ x \in Daemons => /\ thr[x].pc \in DaemonLabels
                        /\ At(x, "unlock") => thr[x].ret \in {"opened", "closed"}
    /\ x \in Mounters => /\ thr[x].pc \in MounterLabels
                         /\ At(x, "unlock") => thr[x].ret \in {"idle", "send", "out", "tail", "mounted"}
    /\ x \in Killers \cup Stoppers => /\ thr[x].pc \in OtherLabels
                                      /\ thr[x].ret = "idle"
    /\ thr[x].pc \in {"idle", "mount"} => thr[x].ret = "idle"
    /\ thr[x].pc \notin {"idle", "stop"} => Unit(x) \in Units

\* Who holds fdev->mtx.  Only a release may come after fuse_devices_stop.
MutexOk(x) ==
    /\ thr[x].pc \in {"alloc", "busy", "mtest"} => slot[Unit(x)].mtx = x
    /\ At(x, "unlock") => slot[Unit(x)].mtx \in {x, Freed}

\* A session is in one slot at most and never in one without daemon and mount;
\* an address that is not allocated is blank.
SlotsOk ==
    /\ \A u \in Units : slot[u].data # NoData =>
          LET s == ses[slot[u].data] IN s.alloc /\ (s.opened \/ s.mounted)
    /\ \A u, v \in Units : slot[u].data = slot[v].data /\ slot[u].data # NoData => u = v
    /\ \A s \in Sessions : ~ses[s].alloc => ses[s] = NoSession

\* After fuse_devices_stop no slot has a mutex, and so none gets a session.
StoppedOk ==
    /\ ~cdev => \A u \in Units : slot[u].mtx = Freed
    /\ \A u \in Units : slot[u].mtx = Freed => slot[u].data = NoData

\* the daemon's part of the slot's use count
Counted(x) == thr[x].pc \in {"openmtx", "alloc", "busy", "opened", "close", "closed", "unlock"}

\* One daemon at a time uses a slot.
CountOk ==
    /\ \A x \in Daemons : Counted(x) => slot[Unit(x)].usecount = 1
    /\ \A x, y \in Daemons : Counted(x) /\ Counted(y) /\ Unit(x) = Unit(y) => x = y

\* x has the device open: fuse_device_open has succeeded and close has not begun to
\* take fdev->mtx
HasOpen(x) ==
    \/ thr[x].pc \in {"opened", "close"}
    \/ At(x, "unlock") /\ thr[x].ret = "opened"

OpenOk(x) ==
    HasOpen(x) => /\ Data(x) \in Sessions /\ ses[Data(x)].opened
                  /\ At(x, "close") => thr[x].d = Data(x) /\ ses[Data(x)].dead

SpareSession == [NoSession EXCEPT !.alloc = TRUE]

\* The session that an open for a lingering mount allocated is seen by nobody.
SpareOk ==
    /\ \A x \in Daemons : At(x, "busy") =>
          /\ thr[x].d \in Sessions
          /\ ses[thr[x].d] = SpareSession
          /\ \A u \in Units : slot[u].data # thr[x].d
    /\ \A x, y \in Daemons : At(x, "busy") /\ At(y, "busy") /\ thr[x].d = thr[y].d => x = y

\* No session is leaked.
PlacedOk ==
    \A s \in Sessions : ses[s].alloc =>
        \/ \E u \in Units : slot[u].data = s
        \/ \E x \in Daemons : At(x, "busy") /\ thr[x].d = s

\* x has set mounted in its session: mount is past its tests, or the file system
\* is mounted, or unmount has not yet taken fdev->mtx
HasMounted(x) ==
    \/ thr[x].pc \in {"send", "answer", "out", "mounted", "flush", "unmount"}
    \/ At(x, "unlock") /\ thr[x].ret \in {"send", "out", "mounted"}
    \/ At(x, "tail") /\ ~thr[x].err

\* The session of a mount stays in its slot, and it is this mount's alone.
MounterOk(x) ==
    /\ At(x, "mtest") => thr[x].d = Data(x) /\ Data(x) # NoData
    /\ HasMounted(x) => /\ thr[x].d \in Sessions /\ thr[x].d = Data(x)
                        /\ ses[thr[x].d].mounted
                        /\ thr[x].mnt
    /\ mpdata[x] \in {NoData, thr[x].d}
    /\ HasMounted(x) /\ mpdata[x] = NoData =>
          At(x, "out") \/ (At(x, "unlock") /\ thr[x].ret = "out")
    /\ ~HasMounted(x) => mpdata[x] = NoData
    /\ At(x, "out") \/ (At(x, "unlock") /\ thr[x].ret \in {"out", "tail"}) => thr[x].err
    /\ At(x, "unlock") /\ thr[x].ret = "mounted" => ~thr[x].err

AloneOk ==
    \A x, y \in Mounters : HasMounted(x) /\ HasMounted(y) /\ thr[x].d = thr[y].d => x = y

DeviceInv ==
    /\ TypeOK
    /\ \A x \in Threads : RoleOk(x) /\ MutexOk(x)
    /\ SlotsOk /\ StoppedOk
    /\ CountOk
    /\ \A x \in Daemons : OpenOk(x)
    /\ SpareOk /\ PlacedOk
    /\ \A x \in Mounters : MounterOk(x)
    /\ AloneOk

-----------------------------------------------------------------------------
(* Types *)

SlotRec   == [usecount: 0 .. 1, data: Sessions \cup {NoData}, mtx: Threads \cup {Nobody, Freed}]
SesRec    == [alloc: BOOLEAN, opened: BOOLEAN, mounted: BOOLEAN, dead: BOOLEAN,
              biglock: Threads \cup {Nobody}]
ThreadRec == [pc: Labels, u: Units \cup {NoUnit}, d: Sessions \cup {NoData},
              mnt: BOOLEAN, err: BOOLEAN, ret: Labels]

\* TypeOK, variable by variable.
LEMMA TypeParts ==
    TypeOK <=> /\ slot \in [Units -> SlotRec]
               /\ ses \in [Sessions -> SesRec]
               /\ fuse_device_mutex \in Threads \cup {Nobody}
               /\ thr \in [Threads -> ThreadRec]
               /\ mpdata \in [Mounters -> Sessions \cup {NoData}]
               /\ fuse_mount_count \in Int
               /\ available \in BOOLEAN /\ cdev \in BOOLEAN
               /\ panic \in Panics
BY DEF TypeOK, SlotRec, SesRec, ThreadRec

\* ... and the same of the next state.
LEMMA TypeNext ==
    ASSUME slot' \in [Units -> SlotRec], ses' \in [Sessions -> SesRec],
           fuse_device_mutex' \in Threads \cup {Nobody}, thr' \in [Threads -> ThreadRec],
           mpdata' \in [Mounters -> Sessions \cup {NoData}], fuse_mount_count' \in Int,
           available' \in BOOLEAN, cdev' \in BOOLEAN, panic' \in Panics
    PROVE  TypeOK'
BY DEF TypeOK, SlotRec, SesRec, ThreadRec

\* The blank records are well typed.
LEMMA BlankTypes == IdleThread \in ThreadRec /\ NoSession \in SesRec
BY DEF IdleThread, ThreadRec, Labels, NoSession, SesRec

\* The flags of a session that is not there, and of a spare one.
LEMMA BlankFacts ==
    /\ NoSession.alloc = FALSE /\ NoSession.opened = FALSE /\ NoSession.mounted = FALSE
    /\ SpareSession.alloc = TRUE /\ SpareSession.opened = FALSE /\ SpareSession.mounted = FALSE
BY DEF NoSession, SpareSession

\* The places in the code.
LEMMA LabelFacts == 
    {"idle", "open", "openmtx", "alloc", "busy", "opened", "close", "closed", "mount", "mtest",
     "send", "answer", "out", "tail", "mounted", "flush", "unmount", "kill", "stop", "unlock"}
       \subseteq Labels
BY DEF Labels

\* A slot, a session and a thread with a field changed are what they were.
LEMMA SlotFields ==
    ASSUME NEW r \in SlotRec
    PROVE  /\ \A m \in Threads \cup {Nobody, Freed} : [r EXCEPT !.mtx = m] \in SlotRec
           /\ \A s \in Sessions \cup {NoData} : [r EXCEPT !.data = s] \in SlotRec
           /\ \A n \in 0 .. 1 : [r EXCEPT !.usecount = n] \in SlotRec
           /\ \A m \in Threads \cup {Nobody, Freed}, s \in Sessions \cup {NoData} :
                 [r EXCEPT !.mtx = m, !.data = s] \in SlotRec
           /\ \A m \in Threads \cup {Nobody, Freed}, n \in 0 .. 1 :
                 [r EXCEPT !.usecount = n, !.mtx = m] \in SlotRec
BY DEF SlotRec

\* A session with a field changed is a session.
LEMMA SessionFields ==
    ASSUME NEW r \in SesRec
    PROVE  /\ \A b \in BOOLEAN :
                 /\ [r EXCEPT !.alloc = b] \in SesRec /\ [r EXCEPT !.opened = b] \in SesRec
                 /\ [r EXCEPT !.mounted = b] \in SesRec /\ [r EXCEPT !.dead = b] \in SesRec
           /\ \A m \in Threads \cup {Nobody} : [r EXCEPT !.biglock = m] \in SesRec
           /\ \A b \in BOOLEAN, m \in Threads \cup {Nobody} :
                 /\ [r EXCEPT !.mounted = b, !.biglock = m] \in SesRec
                 /\ [r EXCEPT !.dead = b, !.biglock = m] \in SesRec
BY DEF SesRec

\* A thread with a field changed is a thread.
LEMMA ThreadFields ==
    ASSUME NEW r \in ThreadRec, NEW l \in Labels
    PROVE  /\ [r EXCEPT !.pc = l] \in ThreadRec
           /\ \A k \in Labels : [r EXCEPT !.pc = l, !.ret = k] \in ThreadRec
           /\ \A u \in Units : [r EXCEPT !.pc = l, !.u = u] \in ThreadRec
           /\ \A s \in Sessions \cup {NoData} : [r EXCEPT !.pc = l, !.d = s] \in ThreadRec
           /\ \A b \in BOOLEAN : [r EXCEPT !.err = b, !.pc = l] \in ThreadRec
           /\ \A k \in Labels, b, c \in BOOLEAN :
                 [r EXCEPT !.pc = l, !.ret = k, !.mnt = b, !.err = c] \in ThreadRec
BY DEF ThreadRec

\* What a step of thread x does to thr, and a change of session d to ses.
LEMMA ThreadStep ==
    ASSUME thr \in [Threads -> ThreadRec], NEW x \in Threads, NEW r \in ThreadRec,
           thr' = [thr EXCEPT ![x] = r]
    PROVE  /\ thr' \in [Threads -> ThreadRec] /\ thr'[x] = r
           /\ \A z \in Threads \ {x} : thr'[z] = thr[z]
OBVIOUS

\* What one session becomes when its record is replaced.
LEMMA SessionStep ==
    ASSUME ses \in [Sessions -> SesRec], NEW d \in Sessions, NEW r \in SesRec,
           ses' = [ses EXCEPT ![d] = r]
    PROVE  /\ ses' \in [Sessions -> SesRec] /\ ses'[d] = r
           /\ \A s \in Sessions \ {d} : ses'[s] = ses[s]
OBVIOUS

\* What one slot becomes when its record is replaced.
LEMMA SlotStep ==
    ASSUME slot \in [Units -> SlotRec], NEW v \in Units, NEW r \in SlotRec,
           slot' = [slot EXCEPT ![v] = r]
    PROVE  /\ slot' \in [Units -> SlotRec] /\ slot'[v] = r
           /\ \A w \in Units \ {v} : slot'[w] = slot[w]
OBVIOUS

\* What taking fdev->mtx does to the table.
LEMMA LockedFacts ==
    ASSUME TypeOK, NEW x \in Threads, Unit(x) \in Units
    PROVE  /\ Locked(x) \in [Units -> SlotRec]
           /\ Locked(x)[Unit(x)].mtx = x
           /\ \A v \in Units : /\ Locked(x)[v].usecount = slot[v].usecount
                               /\ Locked(x)[v].data = slot[v].data
                               /\ v # Unit(x) => Locked(x)[v] = slot[v]
<1>1. slot \in [Units -> SlotRec]
  BY TypeParts
<1>2. Locked(x) \in [Units -> SlotRec]
  BY <1>1, SlotFields DEF Locked
<1> QED BY <1>1, <1>2 DEF Locked, SlotRec

-----------------------------------------------------------------------------
(* What a step does to the slots and to the number of mounts, as FuseSession   *)
(* and the sysctl see them                                                    *)

\* the other slots and their sessions stay as they are
Elsewhere(u) ==
    /\ cdev' = cdev
    /\ \A v \in Units \ {u} :
          /\ slot'[v].data = slot[v].data
          /\ slot[v].data # NoData => ses'[slot[v].data] = ses[slot[v].data]

RestAt ==
    /\ cdev' = cdev
    /\ \A v \in Units :
          /\ slot'[v].data = slot[v].data
          /\ slot[v].data # NoData => ses'[slot[v].data] = ses[slot[v].data]

BornAt(u) ==
    /\ Elsewhere(u)
    /\ cdev /\ slot[u].data = NoData /\ slot'[u].data # NoData
    /\ LET new == ses'[slot'[u].data] IN new.opened /\ ~new.mounted /\ ~new.dead

AttachAt(u) ==
    /\ Elsewhere(u)
    /\ slot[u].data # NoData /\ slot'[u].data = slot[u].data
    /\ LET old == ses[slot[u].data] new == ses'[slot[u].data] IN
          /\ old.opened /\ new.opened /\ ~old.mounted /\ new.mounted
          /\ new.dead = old.dead

DieAt(u) ==
    /\ Elsewhere(u)
    /\ slot[u].data # NoData /\ slot'[u].data = slot[u].data
    /\ LET old == ses[slot[u].data] new == ses'[slot[u].data] IN
          /\ new.opened = old.opened /\ new.mounted = old.mounted
          /\ old.dead => new.dead

DaemonLeavesAt(u) ==
    /\ Elsewhere(u)
    /\ slot[u].data # NoData
    /\ LET old == ses[slot[u].data] new == ses'[slot[u].data] IN
          /\ old.opened /\ old.dead
          /\ \/ /\ old.mounted /\ slot'[u].data = slot[u].data
                /\ new.mounted /\ ~new.opened /\ new.dead
             \/ ~old.mounted /\ slot'[u].data = NoData

DetachAt(u) ==
    /\ Elsewhere(u)
    /\ slot[u].data # NoData
    /\ LET old == ses[slot[u].data] new == ses'[slot[u].data] IN
          /\ old.mounted
          /\ \/ /\ old.opened /\ slot'[u].data = slot[u].data
                /\ new.opened /\ ~new.mounted /\ new.dead = old.dead
             \/ ~old.opened /\ slot'[u].data = NoData

UnloadAt ==
    /\ ~cdev'
    /\ \A v \in Units : slot[v].data = NoData /\ slot'[v].data = NoData

Seen ==
    \/ RestAt \/ UnloadAt
    \/ \E u \in Units : BornAt(u) \/ AttachAt(u) \/ DieAt(u) \/ DaemonLeavesAt(u) \/ DetachAt(u)

CountSame ==
    /\ fuse_mount_count' = fuse_mount_count
    /\ \A s \in Sessions : ses'[s].mounted = ses[s].mounted

CountUp(d) ==
    /\ fuse_mount_count' = fuse_mount_count + 1
    /\ ~ses[d].mounted /\ ses'[d].mounted
    /\ \A s \in Sessions \ {d} : ses'[s].mounted = ses[s].mounted

CountDown(d) ==
    /\ fuse_mount_count' = fuse_mount_count - 1
    /\ ses[d].mounted /\ ~ses'[d].mounted
    /\ \A s \in Sessions \ {d} : ses'[s].mounted = ses[s].mounted

Count == CountSame \/ \E d \in Sessions : CountUp(d) \/ CountDown(d)

-----------------------------------------------------------------------------
(* Quiet steps: no session is born, destroyed, opened, closed, mounted or      *)
(* unmounted, no count changes and no mutex but x's own is taken or released.  *)

\* at most killed or its biglock taken or released
SameSession(s) ==
    /\ ses'[s].alloc = ses[s].alloc /\ ses'[s].opened = ses[s].opened
    /\ ses'[s].mounted = ses[s].mounted /\ (ses[s].dead => ses'[s].dead)

Quiet(x, d) ==
    /\ \A z \in Threads \ {x} : thr'[z] = thr[z]
    /\ UNCHANGED <<mpdata, cdev, fuse_mount_count>>
    /\ \A v \in Units :
          /\ slot'[v].usecount = slot[v].usecount /\ slot'[v].data = slot[v].data
          /\ \/ slot'[v].mtx = slot[v].mtx
             \/ slot[v].mtx \in {x, Nobody} /\ slot'[v].mtx \in {x, Nobody}
    /\ \A s \in Sessions :
          \/ ses'[s] = ses[s]
          \/ s = d /\ (\E u \in Units : slot[u].data = s) /\ SameSession(s)

\* Where a quiet step may take a thread.
Keeps(x) ==
    /\ ~At(x, "busy") /\ ~At(x, "busy")'
    /\ x \in Daemons /\ Counted(x)' => Counted(x) /\ Unit(x)' = Unit(x)
    /\ x \in Mounters /\ HasMounted(x)' => HasMounted(x) /\ thr'[x].d = thr[x].d

\* A step that moves one thread and leaves slots and sessions alone keeps the
\* invariant.
LEMMA QuietInv ==
    ASSUME DeviceInv, TypeOK', NEW x \in Threads, NEW d, Quiet(x, d), Keeps(x),
           RoleOk(x)', MutexOk(x)',
           x \in Daemons => OpenOk(x)',
           x \in Mounters => MounterOk(x)'
    PROVE  DeviceInv' /\ Seen /\ Count
<1>1. \A z \in Threads : RoleOk(z)'
  BY DEF DeviceInv, Quiet, SameSession, RoleOk, At, Unit
<1>2. \A z \in Threads : MutexOk(z)'
  <2> SUFFICES ASSUME NEW z \in Threads, z # x PROVE MutexOk(z)'
    OBVIOUS
  <2>1. MutexOk(z) /\ RoleOk(z) /\ thr'[z] = thr[z]
    BY DEF DeviceInv, Quiet, SameSession
  <2>2. z # Nobody /\ z # Freed /\ x # Freed /\ Nobody # Freed
    BY DEF Nobody, Freed
  <2> QED BY <2>1, <2>2 DEF Quiet, SameSession, RoleOk, MutexOk, At, Unit
<1>3. SlotsOk'
  <2>1. \A u \in Units : slot[u].data \in Sessions \cup {NoData}
    BY TypeParts DEF DeviceInv, SlotRec
  <2>2. \A s \in Sessions : ~ses'[s].alloc => ses'[s] = NoSession
    BY DEF DeviceInv, SlotsOk, Quiet, SameSession
  <2> QED BY <2>1, <2>2 DEF DeviceInv, SlotsOk, Quiet, SameSession
<1>4. StoppedOk'
  <2>1. x # Freed /\ Nobody # Freed
    BY DEF Nobody, Freed
  <2> QED BY <2>1 DEF DeviceInv, StoppedOk, Quiet, SameSession
<1>5. CountOk'
  BY DEF DeviceInv, CountOk, Counted, Quiet, SameSession, Keeps, At, Unit, RoleOk, Threads
<1>6. \A z \in Daemons : OpenOk(z)'
  BY DEF DeviceInv, OpenOk, HasOpen, Quiet, SameSession, At, Unit, Data, RoleOk, Threads
<1>7. SpareOk'
  <2>1. \A z \in Daemons : At(z, "busy")' => thr'[z] = thr[z] /\ At(z, "busy")
    BY DEF Quiet, SameSession, Keeps, At, Threads
  <2>2. \A z \in Daemons : At(z, "busy") => ses'[thr[z].d] = ses[thr[z].d]
    BY DEF DeviceInv, SpareOk, Quiet, SameSession
  <2>3. ASSUME NEW z \in Daemons, At(z, "busy")'
        PROVE  /\ thr'[z].d \in Sessions
               /\ ses'[thr'[z].d] = SpareSession
               /\ \A u \in Units : slot'[u].data # thr'[z].d
    BY <2>1, <2>2, <2>3 DEF DeviceInv, SpareOk, Quiet, SameSession
  <2>4. ASSUME NEW y \in Daemons, NEW z \in Daemons,
               At(y, "busy")', At(z, "busy")', thr'[y].d = thr'[z].d
        PROVE  y = z
    BY <2>1, <2>4 DEF DeviceInv, SpareOk
  <2> QED BY <2>3, <2>4 DEF SpareOk
<1>8. PlacedOk'
  BY DEF DeviceInv, PlacedOk, Quiet, SameSession, Keeps, At, Threads
<1>9. \A z \in Mounters : MounterOk(z)'
  BY DEF DeviceInv, MounterOk, HasMounted, Quiet, SameSession, At, Unit, Data, RoleOk, Threads
<1>10. AloneOk'
  BY DEF DeviceInv, AloneOk, HasMounted, Quiet, SameSession, Keeps, At, Threads
<1>11. Seen
  <2>1. CASE \E u \in Units : slot[u].data = d /\ d # NoData
    <3>1. PICK u \in Units : slot[u].data = d /\ d # NoData
      BY <2>1
    <3>2. Elsewhere(u)
      BY <3>1, TypeParts DEF DeviceInv, SlotsOk, Quiet, Elsewhere, SlotRec
    <3>3. DieAt(u)
      BY <3>1, <3>2, TypeParts DEF DeviceInv, Quiet, SameSession, DieAt, SlotRec
    <3> QED BY <3>3 DEF Seen
  <2>2. CASE ~\E u \in Units : slot[u].data = d /\ d # NoData
    <3>1. RestAt
      BY <2>2, TypeParts DEF DeviceInv, Quiet, RestAt, SlotRec
    <3> QED BY <3>1 DEF Seen
  <2> QED BY <2>1, <2>2
<1>12. Count
  BY DEF Quiet, SameSession, Count, CountSame
<1> QED BY <1>1, <1>2, <1>3, <1>4, <1>5, <1>6, <1>7, <1>8, <1>9, <1>10, <1>11, <1>12 DEF DeviceInv

\* Which threads run which code.
LEMMA Roles ==
    ASSUME DeviceInv, NEW x \in Threads
    PROVE  /\ thr[x].pc \in {"open", "openmtx", "alloc", "busy", "opened", "close", "closed"} =>
                 x \in Daemons /\ x \notin Mounters
           /\ thr[x].pc \in {"mount", "mtest", "send", "answer", "out", "tail", "mounted", "flush",
                             "unmount"} => x \in Mounters /\ x \notin Daemons
           /\ thr[x].pc \in {"kill", "stop"} => x \notin Daemons /\ x \notin Mounters
           /\ x \in Daemons => x \notin Mounters
           /\ x \in Killers \cup Stoppers => x \notin Daemons /\ x \notin Mounters
BY DEF DeviceInv, RoleOk, DaemonLabels, MounterLabels, OtherLabels, Threads

\* A step that changes nothing the invariant speaks of.
LEMMA ThreadsRest ==
    ASSUME DeviceInv, TypeOK', thr' = thr, UNCHANGED <<mpdata, cdev, slot, ses, fuse_mount_count>>
    PROVE  DeviceInv' /\ Seen /\ Count
<1>1. Seen /\ Count
  BY DEF Seen, RestAt, Count, CountSame
<1> QED
  BY <1>1 DEF DeviceInv, RoleOk, MutexOk, SlotsOk, StoppedOk, CountOk, Counted, OpenOk, HasOpen, SpareOk,
            PlacedOk, MounterOk, HasMounted, AloneOk, At, Unit, Data

\* fdev->mtx is released.
LEMMA UnlockInv ==
    ASSUME DeviceInv, NEW x \in Threads, Unlock(x)
    PROVE  DeviceInv' /\ Seen /\ Count
<1>1. /\ x \in Threads /\ RoleOk(x) /\ MutexOk(x)
      /\ thr \in [Threads -> ThreadRec] /\ slot \in [Units -> SlotRec] /\ ses \in [Sessions -> SesRec]
  BY TypeParts DEF DeviceInv, Threads
<1>2. thr[x].pc = "unlock" /\ (x \in Daemons => x \notin Mounters)
  BY <1>1, Roles DEF Unlock, At
<1>3. /\ x \in Daemons => thr[x].ret \in {"opened", "closed"}
      /\ x \in Mounters => thr[x].ret \in {"idle", "send", "out", "tail", "mounted"}
      /\ x \notin Daemons /\ x \notin Mounters => thr[x].ret = "idle"
      /\ x \in Mounters /\ thr[x].ret = "tail" => thr[x].err
  BY <1>1, <1>2 DEF DeviceInv, MounterOk, RoleOk, At, Threads
<1>4. /\ thr' \in [Threads -> ThreadRec] /\ \A z \in Threads \ {x} : thr'[z] = thr[z]
      /\ thr[x].ret = "idle" => thr'[x] = IdleThread
      /\ thr[x].ret # "idle" => /\ thr'[x].pc = thr[x].ret /\ thr'[x].u = thr[x].u
                                /\ thr'[x].d = thr[x].d /\ thr'[x].mnt = thr[x].mnt
                                /\ thr'[x].err = thr[x].err /\ thr'[x].ret = thr[x].ret
  <2> DEFINE r == [thr[x] EXCEPT !.pc = thr[x].ret]
  <2>1. r \in ThreadRec
    BY <1>1 DEF ThreadRec
  <2>2. CASE thr[x].ret = "idle"
    BY <1>1, <2>2, ThreadStep, BlankTypes DEF Unlock
  <2>3. CASE thr[x].ret # "idle"
    <3>1. thr' = [thr EXCEPT ![x] = r]
      BY <2>3 DEF Unlock
    <3>2. thr'[x] = r /\ thr' \in [Threads -> ThreadRec] /\ \A z \in Threads \ {x} : thr'[z] = thr[z]
      BY <1>1, <2>1, <3>1, ThreadStep
    <3> QED BY <1>1, <2>3, <3>2 DEF ThreadRec
  <2> QED BY <2>2, <2>3
<1>5. /\ Unit(x) \in Units /\ slot[Unit(x)].mtx = x /\ slot'[Unit(x)].mtx = Nobody
      /\ slot' \in [Units -> SlotRec]
      /\ \A v \in Units : /\ slot'[v].usecount = slot[v].usecount /\ slot'[v].data = slot[v].data
                          /\ v # Unit(x) => slot'[v] = slot[v]
  <2> DEFINE r == [slot[Unit(x)] EXCEPT !.mtx = Nobody]
  <2>1. Unit(x) \in Units /\ slot' = [slot EXCEPT ![Unit(x)] = r] /\ slot[Unit(x)].mtx = x
    BY <1>1, <1>2 DEF Unlock, RoleOk
  <2>2. r \in SlotRec
    BY <1>1, <2>1, SlotFields
  <2> QED BY <1>1, <2>1, <2>2, SlotStep DEF SlotRec
<1>7. UNCHANGED <<mpdata, cdev, fuse_mount_count, ses>>
  BY DEF Unlock
<1>8. TypeOK'
  <2>1. /\ fuse_device_mutex' \in Threads \cup {Nobody} /\ fuse_mount_count' \in Int
        /\ available' \in BOOLEAN /\ panic' \in Panics
    BY <1>1, <1>2, <1>3, <1>4, <1>5, TypeParts DEF DeviceInv, Unlock, Panics
  <2> QED BY <1>1, <1>2, <1>3, <1>4, <1>5, <1>7, <2>1, TypeParts, TypeNext DEF DeviceInv
<1>10. Quiet(x, NoData)
  BY <1>1, <1>2, <1>3, <1>4, <1>5, <1>7 DEF Quiet, Data, SameSession
<1>11. Keeps(x)
  <2>1. CASE thr[x].ret = "idle"
    BY <2>1, <1>1, <1>2, <1>3, <1>4, <1>5, <1>7 DEF Keeps, Counted, HasMounted, At, Unit, IdleThread
  <2>2. CASE thr[x].ret # "idle"
    BY <2>2, <1>1, <1>2, <1>3, <1>4, <1>5, <1>7 DEF Keeps, Counted, HasMounted, At, Unit, IdleThread
  <2> QED BY <2>1, <2>2
<1>12. RoleOk(x)'
  BY <1>1, <1>2, <1>3, <1>4, <1>5, <1>7, Roles DEF RoleOk, DaemonLabels, MounterLabels, OtherLabels, At, Unit, IdleThread, Threads
<1>13. MutexOk(x)'
  <2>1. CASE thr[x].ret = "idle"
    BY <2>1, <1>1, <1>2, <1>3, <1>4, <1>5, <1>7 DEF MutexOk, At, Unit, IdleThread
  <2>2. CASE thr[x].ret # "idle"
    BY <2>2, <1>1, <1>2, <1>3, <1>4, <1>5, <1>7 DEF MutexOk, At, Unit, IdleThread
  <2> QED BY <2>1, <2>2
<1>14. x \in Daemons => OpenOk(x)'
  <2>1. CASE thr[x].ret = "idle"
    BY <2>1, <1>1, <1>2, <1>3, <1>4, <1>5, <1>7 DEF DeviceInv, OpenOk, HasOpen, At, Unit, Data, IdleThread, SameSession
  <2>2. CASE thr[x].ret # "idle"
    BY <2>2, <1>1, <1>2, <1>3, <1>4, <1>5, <1>7 DEF DeviceInv, OpenOk, HasOpen, At, Unit, Data, IdleThread, SameSession
  <2> QED BY <2>1, <2>2
<1>15. x \in Mounters => MounterOk(x)'
  <2>1. CASE thr[x].ret = "idle"
    BY <2>1, <1>1, <1>2, <1>3, <1>4, <1>5, <1>7 DEF DeviceInv, MounterOk, HasMounted, At, Unit, Data, IdleThread, SameSession
  <2>2. CASE thr[x].ret # "idle"
    BY <2>2, <1>1, <1>2, <1>3, <1>4, <1>5, <1>7 DEF DeviceInv, MounterOk, HasMounted, At, Unit, Data, IdleThread, SameSession
  <2> QED BY <2>1, <2>2
<1> QED BY <1>1, <1>2, <1>8, <1>10, <1>11, <1>12, <1>13, <1>14, <1>15, QuietInv

\* A freed mutex is used: the machine stops.
LEMMA FreedMutexInv ==
    ASSUME DeviceInv, NEW x \in Threads, FreedMutex(x)
    PROVE  DeviceInv' /\ Seen /\ Count
<1>1. /\ x \in Threads /\ RoleOk(x) /\ MutexOk(x)
      /\ thr \in [Threads -> ThreadRec] /\ slot \in [Units -> SlotRec] /\ ses \in [Sessions -> SesRec]
  BY TypeParts DEF DeviceInv, Threads
<1>4. thr' = thr
  BY DEF FreedMutex
<1>7. UNCHANGED <<mpdata, cdev, fuse_mount_count, slot, ses>>
  BY DEF FreedMutex
<1>8. TypeOK'
  <2>1. /\ fuse_device_mutex' \in Threads \cup {Nobody} /\ fuse_mount_count' \in Int
        /\ available' \in BOOLEAN /\ panic' \in Panics
    BY <1>1, <1>4, TypeParts DEF DeviceInv, FreedMutex, Panics
  <2> QED BY <1>1, <1>4, <1>7, <2>1, TypeParts, TypeNext DEF DeviceInv
<1> QED BY <1>1, <1>4, <1>7, <1>8, ThreadsRest

\* fuse_device_open begins.
LEMMA OpenInv ==
    ASSUME DeviceInv, NEW x \in Daemons, NEW u \in Units, Open(x, u)
    PROVE  DeviceInv' /\ Seen /\ Count
<1>1. /\ x \in Threads /\ RoleOk(x) /\ MutexOk(x)
      /\ thr \in [Threads -> ThreadRec] /\ slot \in [Units -> SlotRec] /\ ses \in [Sessions -> SesRec]
  BY TypeParts DEF DeviceInv, Threads
<1>2. thr[x].pc = "idle" /\ x \in Daemons /\ x \notin Mounters
  BY <1>1, Roles DEF Open, At
<1>4. /\ thr' \in [Threads -> ThreadRec] /\ \A z \in Threads \ {x} : thr'[z] = thr[z]
      /\ thr'[x].pc = "open" /\ thr'[x].ret = thr[x].ret
      /\ thr'[x].u = u /\ thr'[x].d = thr[x].d
      /\ thr'[x].mnt = thr[x].mnt /\ thr'[x].err = thr[x].err
  <2>1. thr' = [thr EXCEPT ![x] = [thr[x] EXCEPT !.pc = "open", !.u = u]]
    BY <1>1 DEF Open
  <2>2. [thr[x] EXCEPT !.pc = "open", !.u = u] \in ThreadRec
    BY <1>1, <1>2, ThreadFields, LabelFacts
  <2> QED BY <1>1, <2>1, <2>2, ThreadStep DEF ThreadRec
<1>7. UNCHANGED <<mpdata, cdev, fuse_mount_count, slot, ses>>
  BY DEF Open
<1>8. TypeOK'
  <2>1. /\ fuse_device_mutex' \in Threads \cup {Nobody} /\ fuse_mount_count' \in Int
        /\ available' \in BOOLEAN /\ panic' \in Panics
    BY <1>1, <1>2, <1>4, TypeParts DEF DeviceInv, Open, Panics
  <2> QED BY <1>1, <1>2, <1>4, <1>7, <2>1, TypeParts, TypeNext DEF DeviceInv
<1>10. Quiet(x, NoData)
  BY <1>1, <1>2, <1>4, <1>7 DEF Quiet, Data, SameSession
<1>11. Keeps(x)
  BY <1>1, <1>2, <1>4, <1>7 DEF Keeps, Counted, HasMounted, At, Unit, IdleThread
<1>12. RoleOk(x)'
  BY <1>1, <1>2, <1>4, <1>7, Roles DEF RoleOk, DaemonLabels, MounterLabels, OtherLabels, At, Unit, IdleThread, Threads
<1>13. MutexOk(x)'
  BY <1>1, <1>2, <1>4, <1>7 DEF MutexOk, At, Unit, IdleThread
<1>14. x \in Daemons => OpenOk(x)'
  BY <1>1, <1>2, <1>4, <1>7 DEF DeviceInv, OpenOk, HasOpen, At, Unit, Data, IdleThread, SameSession
<1> QED BY <1>1, <1>2, <1>8, <1>10, <1>11, <1>12, <1>13, <1>14, QuietInv

\* fuse_device_open returns EBUSY.
LEMMA OpenInUseInv ==
    ASSUME DeviceInv, NEW x \in Threads, OpenInUse(x)
    PROVE  DeviceInv' /\ Seen /\ Count
<1>1. /\ x \in Threads /\ RoleOk(x) /\ MutexOk(x)
      /\ thr \in [Threads -> ThreadRec] /\ slot \in [Units -> SlotRec] /\ ses \in [Sessions -> SesRec]
  BY TypeParts DEF DeviceInv, Threads
<1>2. thr[x].pc = "open" /\ x \in Daemons /\ x \notin Mounters
  BY <1>1, Roles DEF OpenInUse, At
<1>4. /\ thr' \in [Threads -> ThreadRec] /\ \A z \in Threads \ {x} : thr'[z] = thr[z]
      /\ thr'[x].pc = "idle" /\ thr'[x].ret = "idle"
      /\ thr'[x].u = NoUnit /\ thr'[x].d = NoData
      /\ thr'[x].mnt = FALSE /\ thr'[x].err = FALSE
  <2>1. thr' = [thr EXCEPT ![x] = IdleThread]
    BY <1>1 DEF OpenInUse
  <2> QED BY <1>1, <2>1, ThreadStep, BlankTypes DEF IdleThread
<1>7. UNCHANGED <<mpdata, cdev, fuse_mount_count, slot, ses>>
  BY DEF OpenInUse
<1>8. TypeOK'
  <2>1. /\ fuse_device_mutex' \in Threads \cup {Nobody} /\ fuse_mount_count' \in Int
        /\ available' \in BOOLEAN /\ panic' \in Panics
    BY <1>1, <1>2, <1>4, TypeParts DEF DeviceInv, OpenInUse, Panics
  <2> QED BY <1>1, <1>2, <1>4, <1>7, <2>1, TypeParts, TypeNext DEF DeviceInv
<1>9. Unit(x) \in Units
  BY <1>1, <1>2 DEF RoleOk
<1>10. Quiet(x, NoData)
  BY <1>1, <1>2, <1>4, <1>7, <1>9 DEF Quiet, Data, SameSession
<1>11. Keeps(x)
  BY <1>1, <1>2, <1>4, <1>7, <1>9 DEF Keeps, Counted, HasMounted, At, Unit, IdleThread
<1>12. RoleOk(x)'
  BY <1>1, <1>2, <1>4, <1>7, <1>9, Roles DEF RoleOk, DaemonLabels, MounterLabels, OtherLabels, At, Unit, IdleThread, Threads
<1>13. MutexOk(x)'
  BY <1>1, <1>2, <1>4, <1>7, <1>9 DEF MutexOk, At, Unit, IdleThread
<1>14. x \in Daemons => OpenOk(x)'
  BY <1>1, <1>2, <1>4, <1>7, <1>9 DEF DeviceInv, OpenOk, HasOpen, At, Unit, Data, IdleThread, SameSession
<1> QED BY <1>1, <1>2, <1>8, <1>10, <1>11, <1>12, <1>13, <1>14, QuietInv

\* fuse_device_open takes fdev->mtx.
LEMMA OpenLockInv ==
    ASSUME DeviceInv, NEW x \in Threads, OpenLock(x)
    PROVE  DeviceInv' /\ Seen /\ Count
<1>1. /\ x \in Threads /\ RoleOk(x) /\ MutexOk(x)
      /\ thr \in [Threads -> ThreadRec] /\ slot \in [Units -> SlotRec] /\ ses \in [Sessions -> SesRec]
  BY TypeParts DEF DeviceInv, Threads
<1>2. thr[x].pc = "openmtx" /\ x \in Daemons /\ x \notin Mounters
  BY <1>1, Roles DEF OpenLock, At
<1>4. /\ thr' \in [Threads -> ThreadRec] /\ \A z \in Threads \ {x} : thr'[z] = thr[z]
      /\ thr'[x].pc = "alloc" /\ thr'[x].ret = thr[x].ret
      /\ thr'[x].u = thr[x].u /\ thr'[x].d = thr[x].d
      /\ thr'[x].mnt = thr[x].mnt /\ thr'[x].err = thr[x].err
  <2>1. thr' = [thr EXCEPT ![x] = [thr[x] EXCEPT !.pc = "alloc"]]
    BY <1>1 DEF OpenLock, MtxFree, Goto
  <2>2. [thr[x] EXCEPT !.pc = "alloc"] \in ThreadRec
    BY <1>1, <1>2, ThreadFields, LabelFacts
  <2> QED BY <1>1, <2>1, <2>2, ThreadStep DEF ThreadRec
<1>5. /\ Unit(x) \in Units /\ slot[Unit(x)].mtx = Nobody /\ slot'[Unit(x)].mtx = x
      /\ slot' \in [Units -> SlotRec]
      /\ \A v \in Units : /\ slot'[v].usecount = slot[v].usecount /\ slot'[v].data = slot[v].data
                          /\ v # Unit(x) => slot'[v] = slot[v]
  <2>1. Unit(x) \in Units /\ slot' = Locked(x) /\ slot[Unit(x)].mtx = Nobody
    BY <1>1, <1>2 DEF OpenLock, RoleOk, MtxFree
  <2> QED BY <1>1, <2>1, LockedFacts DEF DeviceInv
<1>7. UNCHANGED <<mpdata, cdev, fuse_mount_count, ses>>
  BY DEF OpenLock
<1>8. TypeOK'
  <2>1. /\ fuse_device_mutex' \in Threads \cup {Nobody} /\ fuse_mount_count' \in Int
        /\ available' \in BOOLEAN /\ panic' \in Panics
    BY <1>1, <1>2, <1>4, <1>5, TypeParts DEF DeviceInv, OpenLock, Panics
  <2> QED BY <1>1, <1>2, <1>4, <1>5, <1>7, <2>1, TypeParts, TypeNext DEF DeviceInv
<1>10. Quiet(x, NoData)
  BY <1>1, <1>2, <1>4, <1>5, <1>7 DEF Quiet, Data, SameSession
<1>11. Keeps(x)
  BY <1>1, <1>2, <1>4, <1>5, <1>7 DEF Keeps, Counted, HasMounted, At, Unit, IdleThread
<1>12. RoleOk(x)'
  BY <1>1, <1>2, <1>4, <1>5, <1>7, Roles DEF RoleOk, DaemonLabels, MounterLabels, OtherLabels, At, Unit, IdleThread, Threads
<1>13. MutexOk(x)'
  BY <1>1, <1>2, <1>4, <1>5, <1>7 DEF MutexOk, At, Unit, IdleThread
<1>14. x \in Daemons => OpenOk(x)'
  BY <1>1, <1>2, <1>4, <1>5, <1>7 DEF DeviceInv, OpenOk, HasOpen, At, Unit, Data, IdleThread, SameSession
<1> QED BY <1>1, <1>2, <1>8, <1>10, <1>11, <1>12, <1>13, <1>14, QuietInv

\* fuse_device_close kills the session it reads.
LEMMA CloseInv ==
    ASSUME DeviceInv, NEW x \in Daemons, Close(x)
    PROVE  DeviceInv' /\ Seen /\ Count
<1>1. /\ x \in Threads /\ RoleOk(x) /\ MutexOk(x)
      /\ thr \in [Threads -> ThreadRec] /\ slot \in [Units -> SlotRec] /\ ses \in [Sessions -> SesRec]
  BY TypeParts DEF DeviceInv, Threads
<1>2. thr[x].pc = "opened" /\ x \in Daemons /\ x \notin Mounters
  BY <1>1, Roles DEF Close, At
<1>3. Data(x) \in Sessions
  BY <1>2 DEF DeviceInv, OpenOk, HasOpen, At
<1>4. /\ thr' \in [Threads -> ThreadRec] /\ \A z \in Threads \ {x} : thr'[z] = thr[z]
      /\ thr'[x].pc = "close" /\ thr'[x].ret = thr[x].ret
      /\ thr'[x].u = thr[x].u /\ thr'[x].d = Data(x)
      /\ thr'[x].mnt = thr[x].mnt /\ thr'[x].err = thr[x].err
  <2>1. thr' = [thr EXCEPT ![x] = [thr[x] EXCEPT !.pc = "close", !.d = Data(x)]]
    BY <1>1 DEF Close
  <2>2. [thr[x] EXCEPT !.pc = "close", !.d = Data(x)] \in ThreadRec
    BY <1>1, <1>2, <1>3, ThreadFields, LabelFacts
  <2> QED BY <1>1, <2>1, <2>2, ThreadStep DEF ThreadRec
<1>6. /\ ses' \in [Sessions -> SesRec] /\ ses'[Data(x)].dead
      /\ \A s \in Sessions :
            ses'[s] = ses[s] \/ (s = Data(x) /\ SameSession(s))
  <2> DEFINE r == [ses[Data(x)] EXCEPT !.dead = TRUE]
  <2>1. ses' = [ses EXCEPT ![Data(x)] = r]
    BY <1>1, <1>2, <1>3, <1>4 DEF Close
  <2>2. r \in SesRec
    BY <1>1, <1>3, SessionFields
  <2> QED BY <1>1, <1>2, <1>3, <1>4, <2>1, <2>2, SessionStep DEF SesRec, SameSession
<1>7. UNCHANGED <<mpdata, cdev, fuse_mount_count, slot>>
  BY DEF Close
<1>8. TypeOK'
  <2>1. /\ fuse_device_mutex' \in Threads \cup {Nobody} /\ fuse_mount_count' \in Int
        /\ available' \in BOOLEAN /\ panic' \in Panics
    BY <1>1, <1>2, <1>3, <1>4, <1>6, TypeParts DEF DeviceInv, Close, Panics
  <2> QED BY <1>1, <1>2, <1>3, <1>4, <1>6, <1>7, <2>1, TypeParts, TypeNext DEF DeviceInv
<1>9. Unit(x) \in Units
  BY <1>1, <1>2 DEF RoleOk
<1>10. Quiet(x, Data(x))
  BY <1>1, <1>2, <1>3, <1>4, <1>6, <1>7, <1>9 DEF Quiet, Data, SameSession
<1>11. Keeps(x)
  BY <1>1, <1>2, <1>3, <1>4, <1>6, <1>7, <1>9 DEF Keeps, Counted, HasMounted, At, Unit, IdleThread
<1>12. RoleOk(x)'
  BY <1>1, <1>2, <1>3, <1>4, <1>6, <1>7, <1>9, Roles DEF RoleOk, DaemonLabels, MounterLabels, OtherLabels, At, Unit, IdleThread, Threads
<1>13. MutexOk(x)'
  BY <1>1, <1>2, <1>3, <1>4, <1>6, <1>7, <1>9 DEF MutexOk, At, Unit, IdleThread
<1>14. x \in Daemons => OpenOk(x)'
  BY <1>1, <1>2, <1>3, <1>4, <1>6, <1>7, <1>9 DEF DeviceInv, OpenOk, HasOpen, At, Unit, Data, IdleThread, SameSession
<1> QED BY <1>1, <1>2, <1>8, <1>10, <1>11, <1>12, <1>13, <1>14, QuietInv

\* fuse_vfsop_mount begins.
LEMMA MountInv ==
    ASSUME DeviceInv, NEW x \in Mounters, NEW u \in Units, Mount(x, u)
    PROVE  DeviceInv' /\ Seen /\ Count
<1>1. /\ x \in Threads /\ RoleOk(x) /\ MutexOk(x)
      /\ thr \in [Threads -> ThreadRec] /\ slot \in [Units -> SlotRec] /\ ses \in [Sessions -> SesRec]
  BY TypeParts DEF DeviceInv, Threads
<1>2. thr[x].pc = "idle" /\ x \in Mounters /\ x \notin Daemons
  BY <1>1, Roles DEF Mount, At
<1>4. /\ thr' \in [Threads -> ThreadRec] /\ \A z \in Threads \ {x} : thr'[z] = thr[z]
      /\ thr'[x].pc = "mount" /\ thr'[x].ret = thr[x].ret
      /\ thr'[x].u = u /\ thr'[x].d = thr[x].d
      /\ thr'[x].mnt = thr[x].mnt /\ thr'[x].err = thr[x].err
  <2>1. thr' = [thr EXCEPT ![x] = [thr[x] EXCEPT !.pc = "mount", !.u = u]]
    BY <1>1 DEF Mount
  <2>2. [thr[x] EXCEPT !.pc = "mount", !.u = u] \in ThreadRec
    BY <1>1, <1>2, ThreadFields, LabelFacts
  <2> QED BY <1>1, <2>1, <2>2, ThreadStep DEF ThreadRec
<1>7. UNCHANGED <<mpdata, cdev, fuse_mount_count, slot, ses>>
  BY DEF Mount
<1>8. TypeOK'
  <2>1. /\ fuse_device_mutex' \in Threads \cup {Nobody} /\ fuse_mount_count' \in Int
        /\ available' \in BOOLEAN /\ panic' \in Panics
    BY <1>1, <1>2, <1>4, TypeParts DEF DeviceInv, Mount, Panics
  <2> QED BY <1>1, <1>2, <1>4, <1>7, <2>1, TypeParts, TypeNext DEF DeviceInv
<1>10. Quiet(x, NoData)
  BY <1>1, <1>2, <1>4, <1>7 DEF Quiet, Data, SameSession
<1>11. Keeps(x)
  BY <1>1, <1>2, <1>4, <1>7 DEF Keeps, Counted, HasMounted, At, Unit, IdleThread
<1>12. RoleOk(x)'
  BY <1>1, <1>2, <1>4, <1>7, Roles DEF RoleOk, DaemonLabels, MounterLabels, OtherLabels, At, Unit, IdleThread, Threads
<1>13. MutexOk(x)'
  BY <1>1, <1>2, <1>4, <1>7 DEF MutexOk, At, Unit, IdleThread
<1>15. x \in Mounters => MounterOk(x)'
  BY <1>1, <1>2, <1>4, <1>7 DEF DeviceInv, MounterOk, HasMounted, At, Unit, Data, IdleThread, SameSession
<1> QED BY <1>1, <1>2, <1>8, <1>10, <1>11, <1>12, <1>13, <1>15, QuietInv

\* fuse_vfsop_mount takes fdev->mtx.
LEMMA MountLockInv ==
    ASSUME DeviceInv, NEW x \in Threads, MountLock(x)
    PROVE  DeviceInv' /\ Seen /\ Count
<1>1. /\ x \in Threads /\ RoleOk(x) /\ MutexOk(x)
      /\ thr \in [Threads -> ThreadRec] /\ slot \in [Units -> SlotRec] /\ ses \in [Sessions -> SesRec]
  BY TypeParts DEF DeviceInv, Threads
<1>2. thr[x].pc = "mount" /\ x \in Mounters /\ x \notin Daemons
  BY <1>1, Roles DEF MountLock, At
<1>3. Data(x) \in Sessions \cup {NoData} /\ thr[x].ret = "idle"
  BY <1>1, <1>2 DEF RoleOk, Data, Unit, SlotRec
<1>4. /\ thr' \in [Threads -> ThreadRec] /\ \A z \in Threads \ {x} : thr'[z] = thr[z]
      /\ \/ Data(x) = NoData /\ thr'[x].pc = "unlock"
         \/ Data(x) # NoData /\ thr'[x].pc = "mtest"
      /\ thr'[x].u = thr[x].u /\ thr'[x].d = Data(x)
      /\ thr'[x].mnt = thr[x].mnt /\ thr'[x].err = thr[x].err /\ thr'[x].ret = thr[x].ret
  <2>1. thr' = [thr EXCEPT ![x] = [thr[x] EXCEPT !.pc = IF Data(x) = NoData THEN "unlock" ELSE "mtest", !.d = Data(x)]]
    BY <1>1 DEF MountLock, MtxFree
  <2>a. (IF Data(x) = NoData THEN "unlock" ELSE "mtest") \in Labels
    BY LabelFacts
  <2>2. [thr[x] EXCEPT !.pc = IF Data(x) = NoData THEN "unlock" ELSE "mtest", !.d = Data(x)] \in ThreadRec
    BY <1>1, <1>2, <1>3, <2>a, ThreadFields, LabelFacts
  <2>3. /\ thr' \in [Threads -> ThreadRec] /\ thr'[x] = [thr[x] EXCEPT !.pc = IF Data(x) = NoData THEN "unlock" ELSE "mtest", !.d = Data(x)]
        /\ \A z \in Threads \ {x} : thr'[z] = thr[z]
    BY <1>1, <2>1, <2>2, ThreadStep
  <2> QED BY <1>1, <2>3 DEF ThreadRec
<1>5. /\ Unit(x) \in Units /\ slot[Unit(x)].mtx = Nobody /\ slot'[Unit(x)].mtx = x
      /\ slot' \in [Units -> SlotRec]
      /\ \A v \in Units : /\ slot'[v].usecount = slot[v].usecount /\ slot'[v].data = slot[v].data
                          /\ v # Unit(x) => slot'[v] = slot[v]
  <2>1. Unit(x) \in Units /\ slot' = Locked(x) /\ slot[Unit(x)].mtx = Nobody
    BY <1>1, <1>2 DEF MountLock, RoleOk, MtxFree
  <2> QED BY <1>1, <2>1, LockedFacts DEF DeviceInv
<1>7. UNCHANGED <<mpdata, cdev, fuse_mount_count, ses>>
  BY DEF MountLock
<1>8. TypeOK'
  <2>1. /\ fuse_device_mutex' \in Threads \cup {Nobody} /\ fuse_mount_count' \in Int
        /\ available' \in BOOLEAN /\ panic' \in Panics
    BY <1>1, <1>2, <1>3, <1>4, <1>5, TypeParts DEF DeviceInv, MountLock, Panics
  <2> QED BY <1>1, <1>2, <1>3, <1>4, <1>5, <1>7, <2>1, TypeParts, TypeNext DEF DeviceInv
<1>10. Quiet(x, NoData)
  BY <1>1, <1>2, <1>3, <1>4, <1>5, <1>7 DEF Quiet, Data, SameSession
<1>11. Keeps(x)
  BY <1>1, <1>2, <1>3, <1>4, <1>5, <1>7 DEF Keeps, Counted, HasMounted, At, Unit, IdleThread
<1>12. RoleOk(x)'
  BY <1>1, <1>2, <1>3, <1>4, <1>5, <1>7, Roles DEF RoleOk, DaemonLabels, MounterLabels, OtherLabels, At, Unit, IdleThread, Threads
<1>13. MutexOk(x)'
  BY <1>1, <1>2, <1>3, <1>4, <1>5, <1>7 DEF MutexOk, At, Unit, IdleThread
<1>15. x \in Mounters => MounterOk(x)'
  BY <1>1, <1>2, <1>3, <1>4, <1>5, <1>7 DEF DeviceInv, MounterOk, HasMounted, At, Unit, Data, IdleThread, SameSession
<1> QED BY <1>1, <1>2, <1>8, <1>10, <1>11, <1>12, <1>13, <1>15, QuietInv

\* fuse_vfsop_mount returns EALREADY.
LEMMA MountAlreadyInv ==
    ASSUME DeviceInv, NEW x \in Threads, MountAlready(x)
    PROVE  DeviceInv' /\ Seen /\ Count
<1>1. /\ x \in Threads /\ RoleOk(x) /\ MutexOk(x)
      /\ thr \in [Threads -> ThreadRec] /\ slot \in [Units -> SlotRec] /\ ses \in [Sessions -> SesRec]
  BY TypeParts DEF DeviceInv, Threads
<1>2. thr[x].pc = "mtest" /\ x \in Mounters /\ x \notin Daemons
  BY <1>1, Roles DEF MountAlready, At
<1>4. /\ thr' \in [Threads -> ThreadRec] /\ \A z \in Threads \ {x} : thr'[z] = thr[z]
      /\ thr'[x].pc = "unlock" /\ thr'[x].ret = "idle"
      /\ thr'[x].u = thr[x].u /\ thr'[x].d = thr[x].d
      /\ thr'[x].mnt = thr[x].mnt /\ thr'[x].err = thr[x].err
  <2>1. thr' = [thr EXCEPT ![x] = [thr[x] EXCEPT !.pc = "unlock", !.ret = "idle"]]
    BY <1>1 DEF MountAlready, UnlockThen
  <2>2. [thr[x] EXCEPT !.pc = "unlock", !.ret = "idle"] \in ThreadRec
    BY <1>1, <1>2, ThreadFields, LabelFacts
  <2> QED BY <1>1, <2>1, <2>2, ThreadStep DEF ThreadRec
<1>7. UNCHANGED <<mpdata, cdev, fuse_mount_count, slot, ses>>
  BY DEF MountAlready
<1>8. TypeOK'
  <2>1. /\ fuse_device_mutex' \in Threads \cup {Nobody} /\ fuse_mount_count' \in Int
        /\ available' \in BOOLEAN /\ panic' \in Panics
    BY <1>1, <1>2, <1>4, TypeParts DEF DeviceInv, MountAlready, Panics
  <2> QED BY <1>1, <1>2, <1>4, <1>7, <2>1, TypeParts, TypeNext DEF DeviceInv
<1>9. Unit(x) \in Units
  BY <1>1, <1>2 DEF RoleOk
<1>10. Quiet(x, NoData)
  BY <1>1, <1>2, <1>4, <1>7, <1>9 DEF Quiet, Data, SameSession
<1>11. Keeps(x)
  BY <1>1, <1>2, <1>4, <1>7, <1>9 DEF Keeps, Counted, HasMounted, At, Unit, IdleThread
<1>12. RoleOk(x)'
  BY <1>1, <1>2, <1>4, <1>7, <1>9, Roles DEF RoleOk, DaemonLabels, MounterLabels, OtherLabels, At, Unit, IdleThread, Threads
<1>13. MutexOk(x)'
  BY <1>1, <1>2, <1>4, <1>7, <1>9 DEF MutexOk, At, Unit, IdleThread
<1>15. x \in Mounters => MounterOk(x)'
  BY <1>1, <1>2, <1>4, <1>7, <1>9 DEF DeviceInv, MounterOk, HasMounted, At, Unit, Data, IdleThread, SameSession
<1> QED BY <1>1, <1>2, <1>8, <1>10, <1>11, <1>12, <1>13, <1>15, QuietInv

\* fuse_vfsop_mount sends INIT and STATFS.
LEMMA MountSendInv ==
    ASSUME DeviceInv, NEW x \in Threads, MountSend(x)
    PROVE  DeviceInv' /\ Seen /\ Count
<1>1. /\ x \in Threads /\ RoleOk(x) /\ MutexOk(x)
      /\ thr \in [Threads -> ThreadRec] /\ slot \in [Units -> SlotRec] /\ ses \in [Sessions -> SesRec]
  BY TypeParts DEF DeviceInv, Threads
<1>2. thr[x].pc = "send" /\ x \in Mounters /\ x \notin Daemons
  BY <1>1, Roles DEF MountSend, At
<1>3. thr[x].d \in Sessions /\ thr[x].d = Data(x)
  BY <1>2, Roles DEF DeviceInv, MounterOk, HasMounted, At
<1>4. /\ thr' \in [Threads -> ThreadRec] /\ \A z \in Threads \ {x} : thr'[z] = thr[z]
      /\ thr'[x].pc = "answer" /\ thr'[x].ret = thr[x].ret
      /\ thr'[x].u = thr[x].u /\ thr'[x].d = thr[x].d
      /\ thr'[x].mnt = thr[x].mnt /\ thr'[x].err = thr[x].err
  <2>1. thr' = [thr EXCEPT ![x] = [thr[x] EXCEPT !.pc = "answer"]]
    BY <1>1 DEF MountSend, Goto
  <2>2. [thr[x] EXCEPT !.pc = "answer"] \in ThreadRec
    BY <1>1, <1>2, <1>3, ThreadFields, LabelFacts
  <2> QED BY <1>1, <2>1, <2>2, ThreadStep DEF ThreadRec
<1>6. /\ ses' \in [Sessions -> SesRec]
      /\ \A s \in Sessions :
            ses'[s] = ses[s] \/ (s = thr[x].d /\ SameSession(s))
  <2> DEFINE r == [ses[thr[x].d] EXCEPT !.biglock = Nobody]
  <2>1. ses' = [ses EXCEPT ![thr[x].d] = r]
    BY <1>1, <1>2, <1>3, <1>4 DEF MountSend, Goto
  <2>2. r \in SesRec
    BY <1>1, <1>3, SessionFields
  <2> QED BY <1>1, <1>2, <1>3, <1>4, <2>1, <2>2, SessionStep DEF SesRec, SameSession
<1>7. UNCHANGED <<mpdata, cdev, fuse_mount_count, slot>>
  BY DEF MountSend
<1>8. TypeOK'
  <2>1. /\ fuse_device_mutex' \in Threads \cup {Nobody} /\ fuse_mount_count' \in Int
        /\ available' \in BOOLEAN /\ panic' \in Panics
    BY <1>1, <1>2, <1>3, <1>4, <1>6, TypeParts DEF DeviceInv, MountSend, Panics
  <2> QED BY <1>1, <1>2, <1>3, <1>4, <1>6, <1>7, <2>1, TypeParts, TypeNext DEF DeviceInv
<1>9. Unit(x) \in Units
  BY <1>1, <1>2 DEF RoleOk
<1>10. Quiet(x, thr[x].d)
  BY <1>1, <1>2, <1>3, <1>4, <1>6, <1>7, <1>9 DEF Quiet, Data, SameSession
<1>11. Keeps(x)
  BY <1>1, <1>2, <1>3, <1>4, <1>6, <1>7, <1>9 DEF Keeps, Counted, HasMounted, At, Unit, IdleThread
<1>12. RoleOk(x)'
  BY <1>1, <1>2, <1>3, <1>4, <1>6, <1>7, <1>9, Roles DEF RoleOk, DaemonLabels, MounterLabels, OtherLabels, At, Unit, IdleThread, Threads
<1>13. MutexOk(x)'
  BY <1>1, <1>2, <1>3, <1>4, <1>6, <1>7, <1>9 DEF MutexOk, At, Unit, IdleThread
<1>15. x \in Mounters => MounterOk(x)'
  BY <1>1, <1>2, <1>3, <1>4, <1>6, <1>7, <1>9 DEF DeviceInv, MounterOk, HasMounted, At, Unit, Data, IdleThread, SameSession
<1> QED BY <1>1, <1>2, <1>8, <1>10, <1>11, <1>12, <1>13, <1>15, QuietInv

\* The daemon's answer to the mount.
LEMMA MountAnswerInv ==
    ASSUME DeviceInv, NEW x \in Threads, MountAnswer(x)
    PROVE  DeviceInv' /\ Seen /\ Count
<1>1. /\ x \in Threads /\ RoleOk(x) /\ MutexOk(x)
      /\ thr \in [Threads -> ThreadRec] /\ slot \in [Units -> SlotRec] /\ ses \in [Sessions -> SesRec]
  BY TypeParts DEF DeviceInv, Threads
<1>2. thr[x].pc = "answer" /\ x \in Mounters /\ x \notin Daemons
  BY <1>1, Roles DEF MountAnswer, At
<1>3. thr[x].d \in Sessions /\ thr[x].d = Data(x)
  BY <1>2, Roles DEF DeviceInv, MounterOk, HasMounted, At
<1>4. /\ thr' \in [Threads -> ThreadRec] /\ \A z \in Threads \ {x} : thr'[z] = thr[z]
      /\ \/ thr'[x].pc = "out" /\ thr'[x].err
         \/ thr'[x].pc \in {"tail", "mounted"} /\ ~thr'[x].err
      /\ thr'[x].u = thr[x].u /\ thr'[x].d = thr[x].d
      /\ thr'[x].mnt = thr[x].mnt /\ thr'[x].ret = thr[x].ret
  <2>1. PICK e \in BOOLEAN : thr' = [thr EXCEPT ![x] = [thr[x] EXCEPT !.err = e, !.pc = IF e THEN "out" ELSE IF Biglock THEN "tail" ELSE "mounted"]]
    BY <1>1 DEF MountAnswer
  <2>a. (IF e THEN "out" ELSE IF Biglock THEN "tail" ELSE "mounted") \in Labels
    BY LabelFacts
  <2>2. [thr[x] EXCEPT !.err = e, !.pc = IF e THEN "out" ELSE IF Biglock THEN "tail" ELSE "mounted"] \in ThreadRec
    BY <1>1, <1>2, <1>3, <2>a, ThreadFields, LabelFacts
  <2>3. /\ thr' \in [Threads -> ThreadRec] /\ thr'[x] = [thr[x] EXCEPT !.err = e, !.pc = IF e THEN "out" ELSE IF Biglock THEN "tail" ELSE "mounted"]
        /\ \A z \in Threads \ {x} : thr'[z] = thr[z]
    BY <1>1, <2>1, <2>2, ThreadStep
  <2> QED BY <1>1, <2>3 DEF ThreadRec
<1>6. /\ ses' \in [Sessions -> SesRec]
      /\ \A s \in Sessions :
            ses'[s] = ses[s] \/ (s = thr[x].d /\ SameSession(s))
  <2> DEFINE r == [ses[thr[x].d] EXCEPT !.biglock = IF Biglock THEN x ELSE @]
  <2>1. ses' = [ses EXCEPT ![thr[x].d] = r]
    BY <1>1, <1>2, <1>3, <1>4 DEF MountAnswer
  <2>a. (IF Biglock THEN x ELSE ses[thr[x].d].biglock) \in Threads \cup {Nobody}
    BY <1>1, <1>3 DEF SesRec
  <2>2. r \in SesRec
    BY <1>1, <1>3, <2>a, SessionFields
  <2> QED BY <1>1, <1>2, <1>3, <1>4, <2>1, <2>2, SessionStep DEF SesRec, SameSession
<1>7. UNCHANGED <<mpdata, cdev, fuse_mount_count, slot>>
  BY DEF MountAnswer
<1>8. TypeOK'
  <2>1. /\ fuse_device_mutex' \in Threads \cup {Nobody} /\ fuse_mount_count' \in Int
        /\ available' \in BOOLEAN /\ panic' \in Panics
    BY <1>1, <1>2, <1>3, <1>4, <1>6, TypeParts DEF DeviceInv, MountAnswer, Panics
  <2> QED BY <1>1, <1>2, <1>3, <1>4, <1>6, <1>7, <2>1, TypeParts, TypeNext DEF DeviceInv
<1>9. Unit(x) \in Units
  BY <1>1, <1>2 DEF RoleOk
<1>10. Quiet(x, thr[x].d)
  BY <1>1, <1>2, <1>3, <1>4, <1>6, <1>7, <1>9 DEF Quiet, Data, SameSession
<1>11. Keeps(x)
  BY <1>1, <1>2, <1>3, <1>4, <1>6, <1>7, <1>9 DEF Keeps, Counted, HasMounted, At, Unit, IdleThread
<1>12. RoleOk(x)'
  BY <1>1, <1>2, <1>3, <1>4, <1>6, <1>7, <1>9, Roles DEF RoleOk, DaemonLabels, MounterLabels, OtherLabels, At, Unit, IdleThread, Threads
<1>13. MutexOk(x)'
  BY <1>1, <1>2, <1>3, <1>4, <1>6, <1>7, <1>9 DEF MutexOk, At, Unit, IdleThread
<1>15. x \in Mounters => MounterOk(x)'
  BY <1>1, <1>2, <1>3, <1>4, <1>6, <1>7, <1>9 DEF DeviceInv, MounterOk, HasMounted, At, Unit, Data, IdleThread, SameSession
<1> QED BY <1>1, <1>2, <1>8, <1>10, <1>11, <1>12, <1>13, <1>15, QuietInv

\* The end of fuse_vfsop_mount.
LEMMA MountTailInv ==
    ASSUME DeviceInv, NEW x \in Threads, MountTail(x)
    PROVE  DeviceInv' /\ Seen /\ Count
<1>1. /\ x \in Threads /\ RoleOk(x) /\ MutexOk(x)
      /\ thr \in [Threads -> ThreadRec] /\ slot \in [Units -> SlotRec] /\ ses \in [Sessions -> SesRec]
  BY TypeParts DEF DeviceInv, Threads
<1>2. thr[x].pc = "tail" /\ x \in Mounters /\ x \notin Daemons
  BY <1>1, Roles DEF MountTail, At
<1>4. /\ thr' \in [Threads -> ThreadRec] /\ \A z \in Threads \ {x} : thr'[z] = thr[z]
      /\ thr'[x].pc = "unlock" /\ thr'[x].ret = IF thr[x].err THEN "idle" ELSE "mounted"
      /\ thr'[x].u = thr[x].u /\ thr'[x].d = thr[x].d
      /\ thr'[x].mnt = thr[x].mnt /\ thr'[x].err = thr[x].err
  <2>1. thr' = [thr EXCEPT ![x] = [thr[x] EXCEPT !.pc = "unlock", !.ret = IF thr[x].err THEN "idle" ELSE "mounted"]]
    BY <1>1 DEF MountTail, MtxFree, UnlockThen
  <2>a. (IF thr[x].err THEN "idle" ELSE "mounted") \in Labels
    BY LabelFacts
  <2>2. [thr[x] EXCEPT !.pc = "unlock", !.ret = IF thr[x].err THEN "idle" ELSE "mounted"] \in ThreadRec
    BY <1>1, <1>2, <2>a, ThreadFields, LabelFacts
  <2> QED BY <1>1, <2>1, <2>2, ThreadStep DEF ThreadRec
<1>5. /\ Unit(x) \in Units /\ slot[Unit(x)].mtx = Nobody /\ slot'[Unit(x)].mtx = x
      /\ slot' \in [Units -> SlotRec]
      /\ \A v \in Units : /\ slot'[v].usecount = slot[v].usecount /\ slot'[v].data = slot[v].data
                          /\ v # Unit(x) => slot'[v] = slot[v]
  <2>1. Unit(x) \in Units /\ slot' = Locked(x) /\ slot[Unit(x)].mtx = Nobody
    BY <1>1, <1>2 DEF MountTail, RoleOk, MtxFree
  <2> QED BY <1>1, <2>1, LockedFacts DEF DeviceInv
<1>6. /\ ses' \in [Sessions -> SesRec]
      /\ \A s \in Sessions :
            ses'[s] = ses[s] \/ (s = Data(x) /\ SameSession(s))
  <2>1. \A s \in Sessions : [ses[s] EXCEPT !.biglock = Nobody] \in SesRec
    BY <1>1, SessionFields
  <2>2. /\ ses' = [s \in Sessions |-> ses'[s]]
        /\ \A s \in Sessions : ses'[s] = ses[s] \/ (s = Data(x) /\ ses'[s] = [ses[s] EXCEPT !.biglock = Nobody])
    BY DEF MountTail
  <2> QED BY <1>1, <2>1, <2>2 DEF SesRec, SameSession
<1>7. UNCHANGED <<mpdata, cdev, fuse_mount_count>>
  BY DEF MountTail
<1>8. TypeOK'
  <2>1. /\ fuse_device_mutex' \in Threads \cup {Nobody} /\ fuse_mount_count' \in Int
        /\ available' \in BOOLEAN /\ panic' \in Panics
    BY <1>1, <1>2, <1>4, <1>5, <1>6, TypeParts DEF DeviceInv, MountTail, Panics
  <2> QED BY <1>1, <1>2, <1>4, <1>5, <1>6, <1>7, <2>1, TypeParts, TypeNext DEF DeviceInv
<1>10. Quiet(x, Data(x))
  BY <1>1, <1>2, <1>4, <1>5, <1>6, <1>7 DEF Quiet, Data, SameSession
<1>11. Keeps(x)
  BY <1>1, <1>2, <1>4, <1>5, <1>6, <1>7 DEF Keeps, Counted, HasMounted, At, Unit, IdleThread
<1>12. RoleOk(x)'
  BY <1>1, <1>2, <1>4, <1>5, <1>6, <1>7, Roles DEF RoleOk, DaemonLabels, MounterLabels, OtherLabels, At, Unit, IdleThread, Threads
<1>13. MutexOk(x)'
  BY <1>1, <1>2, <1>4, <1>5, <1>6, <1>7 DEF MutexOk, At, Unit, IdleThread
<1>15. x \in Mounters => MounterOk(x)'
  BY <1>1, <1>2, <1>4, <1>5, <1>6, <1>7 DEF DeviceInv, MounterOk, HasMounted, At, Unit, Data, IdleThread, SameSession
<1> QED BY <1>1, <1>2, <1>8, <1>10, <1>11, <1>12, <1>13, <1>15, QuietInv

\* The end of fuse_vfsop_mount finds another session.
LEMMA MountTailOtherInv ==
    ASSUME DeviceInv, NEW x \in Threads, MountTailOther(x)
    PROVE  DeviceInv' /\ Seen /\ Count
<1>1. /\ x \in Threads /\ RoleOk(x) /\ MutexOk(x)
      /\ thr \in [Threads -> ThreadRec] /\ slot \in [Units -> SlotRec] /\ ses \in [Sessions -> SesRec]
  BY TypeParts DEF DeviceInv, Threads
<1>2. thr[x].pc = "tail" /\ x \in Mounters /\ x \notin Daemons
  BY <1>1, Roles DEF MountTailOther, At
<1>4. thr' = thr
  BY DEF MountTailOther
<1>7. UNCHANGED <<mpdata, cdev, fuse_mount_count, slot, ses>>
  BY DEF MountTailOther
<1>8. TypeOK'
  <2>1. /\ fuse_device_mutex' \in Threads \cup {Nobody} /\ fuse_mount_count' \in Int
        /\ available' \in BOOLEAN /\ panic' \in Panics
    BY <1>1, <1>2, <1>4, TypeParts DEF DeviceInv, MountTailOther, Panics
  <2> QED BY <1>1, <1>2, <1>4, <1>7, <2>1, TypeParts, TypeNext DEF DeviceInv
<1> QED BY <1>1, <1>4, <1>7, <1>8, ThreadsRest

\* fuse_vfsop_unmount begins.
LEMMA UnmountInv ==
    ASSUME DeviceInv, NEW x \in Mounters, Unmount(x)
    PROVE  DeviceInv' /\ Seen /\ Count
<1>1. /\ x \in Threads /\ RoleOk(x) /\ MutexOk(x)
      /\ thr \in [Threads -> ThreadRec] /\ slot \in [Units -> SlotRec] /\ ses \in [Sessions -> SesRec]
  BY TypeParts DEF DeviceInv, Threads
<1>2. thr[x].pc = "mounted" /\ x \in Mounters /\ x \notin Daemons
  BY <1>1, Roles DEF Unmount, At
<1>3. thr[x].d \in Sessions /\ thr[x].d = Data(x) /\ mpdata[x] = thr[x].d
  BY <1>2, Roles DEF DeviceInv, MounterOk, HasMounted, At
<1>4. /\ thr' \in [Threads -> ThreadRec] /\ \A z \in Threads \ {x} : thr'[z] = thr[z]
      /\ thr'[x].pc = "flush" /\ thr'[x].ret = thr[x].ret
      /\ thr'[x].u = thr[x].u /\ thr'[x].d = mpdata[x]
      /\ thr'[x].mnt = thr[x].mnt /\ thr'[x].err = thr[x].err
  <2>1. thr' = [thr EXCEPT ![x] = [thr[x] EXCEPT !.pc = "flush", !.d = mpdata[x]]]
    BY <1>1 DEF Unmount
  <2>2. [thr[x] EXCEPT !.pc = "flush", !.d = mpdata[x]] \in ThreadRec
    BY <1>1, <1>2, <1>3, ThreadFields, LabelFacts
  <2> QED BY <1>1, <2>1, <2>2, ThreadStep DEF ThreadRec
<1>6. /\ ses' \in [Sessions -> SesRec]
      /\ \A s \in Sessions :
            ses'[s] = ses[s] \/ (s = mpdata[x] /\ SameSession(s))
  <2>1. PICK i \in BOOLEAN : ses' = [ses EXCEPT ![mpdata[x]] = [ses[mpdata[x]] EXCEPT !.dead = @ \/ ~i]]
    BY <1>1, <1>3 DEF Unmount
  <2> DEFINE r == [ses[mpdata[x]] EXCEPT !.dead = @ \/ ~i]
  <2>2. r \in SesRec
    BY <1>1, <1>3 DEF SesRec
  <2> QED BY <1>1, <1>3, <2>1, <2>2, SessionStep DEF SesRec, SameSession
<1>7. UNCHANGED <<mpdata, cdev, fuse_mount_count, slot>>
  BY DEF Unmount
<1>8. TypeOK'
  <2>1. /\ fuse_device_mutex' \in Threads \cup {Nobody} /\ fuse_mount_count' \in Int
        /\ available' \in BOOLEAN /\ panic' \in Panics
    BY <1>1, <1>2, <1>3, <1>4, <1>6, TypeParts DEF DeviceInv, Unmount, Panics
  <2> QED BY <1>1, <1>2, <1>3, <1>4, <1>6, <1>7, <2>1, TypeParts, TypeNext DEF DeviceInv
<1>9. Unit(x) \in Units
  BY <1>1, <1>2 DEF RoleOk
<1>10. Quiet(x, mpdata[x])
  BY <1>1, <1>2, <1>3, <1>4, <1>6, <1>7, <1>9 DEF Quiet, Data, SameSession
<1>11. Keeps(x)
  BY <1>1, <1>2, <1>3, <1>4, <1>6, <1>7, <1>9 DEF Keeps, Counted, HasMounted, At, Unit, IdleThread
<1>12. RoleOk(x)'
  BY <1>1, <1>2, <1>3, <1>4, <1>6, <1>7, <1>9, Roles DEF RoleOk, DaemonLabels, MounterLabels, OtherLabels, At, Unit, IdleThread, Threads
<1>13. MutexOk(x)'
  BY <1>1, <1>2, <1>3, <1>4, <1>6, <1>7, <1>9 DEF MutexOk, At, Unit, IdleThread
<1>15. x \in Mounters => MounterOk(x)'
  BY <1>1, <1>2, <1>3, <1>4, <1>6, <1>7, <1>9 DEF DeviceInv, MounterOk, HasMounted, At, Unit, Data, IdleThread, SameSession
<1> QED BY <1>1, <1>2, <1>8, <1>10, <1>11, <1>12, <1>13, <1>15, QuietInv

\* fuse_vfsop_unmount returns EBUSY.
LEMMA UnmountBusyInv ==
    ASSUME DeviceInv, NEW x \in Threads, UnmountBusy(x)
    PROVE  DeviceInv' /\ Seen /\ Count
<1>1. /\ x \in Threads /\ RoleOk(x) /\ MutexOk(x)
      /\ thr \in [Threads -> ThreadRec] /\ slot \in [Units -> SlotRec] /\ ses \in [Sessions -> SesRec]
  BY TypeParts DEF DeviceInv, Threads
<1>2. thr[x].pc = "flush" /\ x \in Mounters /\ x \notin Daemons
  BY <1>1, Roles DEF UnmountBusy, At
<1>4. /\ thr' \in [Threads -> ThreadRec] /\ \A z \in Threads \ {x} : thr'[z] = thr[z]
      /\ thr'[x].pc = "mounted" /\ thr'[x].ret = thr[x].ret
      /\ thr'[x].u = thr[x].u /\ thr'[x].d = thr[x].d
      /\ thr'[x].mnt = thr[x].mnt /\ thr'[x].err = thr[x].err
  <2>1. thr' = [thr EXCEPT ![x] = [thr[x] EXCEPT !.pc = "mounted"]]
    BY <1>1 DEF UnmountBusy, Goto
  <2>2. [thr[x] EXCEPT !.pc = "mounted"] \in ThreadRec
    BY <1>1, <1>2, ThreadFields, LabelFacts
  <2> QED BY <1>1, <2>1, <2>2, ThreadStep DEF ThreadRec
<1>7. UNCHANGED <<mpdata, cdev, fuse_mount_count, slot, ses>>
  BY DEF UnmountBusy
<1>8. TypeOK'
  <2>1. /\ fuse_device_mutex' \in Threads \cup {Nobody} /\ fuse_mount_count' \in Int
        /\ available' \in BOOLEAN /\ panic' \in Panics
    BY <1>1, <1>2, <1>4, TypeParts DEF DeviceInv, UnmountBusy, Panics
  <2> QED BY <1>1, <1>2, <1>4, <1>7, <2>1, TypeParts, TypeNext DEF DeviceInv
<1>9. Unit(x) \in Units
  BY <1>1, <1>2 DEF RoleOk
<1>10. Quiet(x, NoData)
  BY <1>1, <1>2, <1>4, <1>7, <1>9 DEF Quiet, Data, SameSession
<1>11. Keeps(x)
  BY <1>1, <1>2, <1>4, <1>7, <1>9 DEF Keeps, Counted, HasMounted, At, Unit, IdleThread
<1>12. RoleOk(x)'
  BY <1>1, <1>2, <1>4, <1>7, <1>9, Roles DEF RoleOk, DaemonLabels, MounterLabels, OtherLabels, At, Unit, IdleThread, Threads
<1>13. MutexOk(x)'
  BY <1>1, <1>2, <1>4, <1>7, <1>9 DEF MutexOk, At, Unit, IdleThread
<1>15. x \in Mounters => MounterOk(x)'
  BY <1>1, <1>2, <1>4, <1>7, <1>9 DEF DeviceInv, MounterOk, HasMounted, At, Unit, Data, IdleThread, SameSession
<1> QED BY <1>1, <1>2, <1>8, <1>10, <1>11, <1>12, <1>13, <1>15, QuietInv

\* fuse_vfsop_unmount kills the session.
LEMMA UnmountKillInv ==
    ASSUME DeviceInv, NEW x \in Threads, UnmountKill(x)
    PROVE  DeviceInv' /\ Seen /\ Count
<1>1. /\ x \in Threads /\ RoleOk(x) /\ MutexOk(x)
      /\ thr \in [Threads -> ThreadRec] /\ slot \in [Units -> SlotRec] /\ ses \in [Sessions -> SesRec]
  BY TypeParts DEF DeviceInv, Threads
<1>2. thr[x].pc = "flush" /\ x \in Mounters /\ x \notin Daemons
  BY <1>1, Roles DEF UnmountKill, At
<1>3. thr[x].d \in Sessions /\ thr[x].d = Data(x)
  BY <1>2, Roles DEF DeviceInv, MounterOk, HasMounted, At
<1>4. /\ thr' \in [Threads -> ThreadRec] /\ \A z \in Threads \ {x} : thr'[z] = thr[z]
      /\ thr'[x].pc = "unmount" /\ thr'[x].ret = thr[x].ret
      /\ thr'[x].u = thr[x].u /\ thr'[x].d = thr[x].d
      /\ thr'[x].mnt = thr[x].mnt /\ thr'[x].err = thr[x].err
  <2>1. thr' = [thr EXCEPT ![x] = [thr[x] EXCEPT !.pc = "unmount"]]
    BY <1>1 DEF UnmountKill, Goto
  <2>2. [thr[x] EXCEPT !.pc = "unmount"] \in ThreadRec
    BY <1>1, <1>2, <1>3, ThreadFields, LabelFacts
  <2> QED BY <1>1, <2>1, <2>2, ThreadStep DEF ThreadRec
<1>6. /\ ses' \in [Sessions -> SesRec]
      /\ \A s \in Sessions :
            ses'[s] = ses[s] \/ (s = thr[x].d /\ SameSession(s))
  <2> DEFINE r == [ses[thr[x].d] EXCEPT !.dead = TRUE, !.biglock = IF Biglock THEN x ELSE @]
  <2>1. ses' = [ses EXCEPT ![thr[x].d] = r]
    BY <1>1, <1>2, <1>3, <1>4 DEF UnmountKill, Goto
  <2>a. (IF Biglock THEN x ELSE ses[thr[x].d].biglock) \in Threads \cup {Nobody}
    BY <1>1, <1>3 DEF SesRec
  <2>2. r \in SesRec
    BY <1>1, <1>3, <2>a, SessionFields
  <2> QED BY <1>1, <1>2, <1>3, <1>4, <2>1, <2>2, SessionStep DEF SesRec, SameSession
<1>7. UNCHANGED <<mpdata, cdev, fuse_mount_count, slot>>
  BY DEF UnmountKill
<1>8. TypeOK'
  <2>1. /\ fuse_device_mutex' \in Threads \cup {Nobody} /\ fuse_mount_count' \in Int
        /\ available' \in BOOLEAN /\ panic' \in Panics
    BY <1>1, <1>2, <1>3, <1>4, <1>6, TypeParts DEF DeviceInv, UnmountKill, Panics
  <2> QED BY <1>1, <1>2, <1>3, <1>4, <1>6, <1>7, <2>1, TypeParts, TypeNext DEF DeviceInv
<1>9. Unit(x) \in Units
  BY <1>1, <1>2 DEF RoleOk
<1>10. Quiet(x, thr[x].d)
  BY <1>1, <1>2, <1>3, <1>4, <1>6, <1>7, <1>9 DEF Quiet, Data, SameSession
<1>11. Keeps(x)
  BY <1>1, <1>2, <1>3, <1>4, <1>6, <1>7, <1>9 DEF Keeps, Counted, HasMounted, At, Unit, IdleThread
<1>12. RoleOk(x)'
  BY <1>1, <1>2, <1>3, <1>4, <1>6, <1>7, <1>9, Roles DEF RoleOk, DaemonLabels, MounterLabels, OtherLabels, At, Unit, IdleThread, Threads
<1>13. MutexOk(x)'
  BY <1>1, <1>2, <1>3, <1>4, <1>6, <1>7, <1>9 DEF MutexOk, At, Unit, IdleThread
<1>15. x \in Mounters => MounterOk(x)'
  BY <1>1, <1>2, <1>3, <1>4, <1>6, <1>7, <1>9 DEF DeviceInv, MounterOk, HasMounted, At, Unit, Data, IdleThread, SameSession
<1> QED BY <1>1, <1>2, <1>8, <1>10, <1>11, <1>12, <1>13, <1>15, QuietInv

\* fuse_device_kill begins.
LEMMA KillInv ==
    ASSUME DeviceInv, NEW x \in Killers, NEW u \in Units, Kill(x, u)
    PROVE  DeviceInv' /\ Seen /\ Count
<1>1. /\ x \in Threads /\ RoleOk(x) /\ MutexOk(x)
      /\ thr \in [Threads -> ThreadRec] /\ slot \in [Units -> SlotRec] /\ ses \in [Sessions -> SesRec]
  BY TypeParts DEF DeviceInv, Threads
<1>2. thr[x].pc = "idle" /\ x \notin Daemons /\ x \notin Mounters
  BY <1>1, Roles DEF Kill, At
<1>4. /\ thr' \in [Threads -> ThreadRec] /\ \A z \in Threads \ {x} : thr'[z] = thr[z]
      /\ thr'[x].pc = "kill" /\ thr'[x].ret = thr[x].ret
      /\ thr'[x].u = u /\ thr'[x].d = thr[x].d
      /\ thr'[x].mnt = thr[x].mnt /\ thr'[x].err = thr[x].err
  <2>1. thr' = [thr EXCEPT ![x] = [thr[x] EXCEPT !.pc = "kill", !.u = u]]
    BY <1>1 DEF Kill
  <2>2. [thr[x] EXCEPT !.pc = "kill", !.u = u] \in ThreadRec
    BY <1>1, <1>2, ThreadFields, LabelFacts
  <2> QED BY <1>1, <2>1, <2>2, ThreadStep DEF ThreadRec
<1>7. UNCHANGED <<mpdata, cdev, fuse_mount_count, slot, ses>>
  BY DEF Kill
<1>8. TypeOK'
  <2>1. /\ fuse_device_mutex' \in Threads \cup {Nobody} /\ fuse_mount_count' \in Int
        /\ available' \in BOOLEAN /\ panic' \in Panics
    BY <1>1, <1>2, <1>4, TypeParts DEF DeviceInv, Kill, Panics
  <2> QED BY <1>1, <1>2, <1>4, <1>7, <2>1, TypeParts, TypeNext DEF DeviceInv
<1>10. Quiet(x, NoData)
  BY <1>1, <1>2, <1>4, <1>7 DEF Quiet, Data, SameSession
<1>11. Keeps(x)
  BY <1>1, <1>2, <1>4, <1>7 DEF Keeps, Counted, HasMounted, At, Unit, IdleThread
<1>12. RoleOk(x)'
  BY <1>1, <1>2, <1>4, <1>7, Roles DEF RoleOk, DaemonLabels, MounterLabels, OtherLabels, At, Unit, IdleThread, Threads
<1>13. MutexOk(x)'
  BY <1>1, <1>2, <1>4, <1>7 DEF MutexOk, At, Unit, IdleThread
<1> QED BY <1>1, <1>2, <1>8, <1>10, <1>11, <1>12, <1>13, QuietInv

\* fuse_device_kill.
LEMMA KillLockInv ==
    ASSUME DeviceInv, NEW x \in Threads, KillLock(x)
    PROVE  DeviceInv' /\ Seen /\ Count
<1>1. /\ x \in Threads /\ RoleOk(x) /\ MutexOk(x)
      /\ thr \in [Threads -> ThreadRec] /\ slot \in [Units -> SlotRec] /\ ses \in [Sessions -> SesRec]
  BY TypeParts DEF DeviceInv, Threads
<1>2. thr[x].pc = "kill" /\ x \notin Daemons /\ x \notin Mounters
  BY <1>1, Roles DEF KillLock, At
<1>4. /\ thr' \in [Threads -> ThreadRec] /\ \A z \in Threads \ {x} : thr'[z] = thr[z]
      /\ thr'[x].pc = "unlock" /\ thr'[x].ret = "idle"
      /\ thr'[x].u = thr[x].u /\ thr'[x].d = thr[x].d
      /\ thr'[x].mnt = thr[x].mnt /\ thr'[x].err = thr[x].err
  <2>1. thr' = [thr EXCEPT ![x] = [thr[x] EXCEPT !.pc = "unlock", !.ret = "idle"]]
    BY <1>1 DEF KillLock, MtxFree, UnlockThen
  <2>2. [thr[x] EXCEPT !.pc = "unlock", !.ret = "idle"] \in ThreadRec
    BY <1>1, <1>2, ThreadFields, LabelFacts
  <2> QED BY <1>1, <2>1, <2>2, ThreadStep DEF ThreadRec
<1>5. /\ Unit(x) \in Units /\ slot[Unit(x)].mtx = Nobody /\ slot'[Unit(x)].mtx = x
      /\ slot' \in [Units -> SlotRec]
      /\ \A v \in Units : /\ slot'[v].usecount = slot[v].usecount /\ slot'[v].data = slot[v].data
                          /\ v # Unit(x) => slot'[v] = slot[v]
  <2>1. Unit(x) \in Units /\ slot' = Locked(x) /\ slot[Unit(x)].mtx = Nobody
    BY <1>1, <1>2 DEF KillLock, RoleOk, MtxFree
  <2> QED BY <1>1, <2>1, LockedFacts DEF DeviceInv
<1>6. /\ ses' \in [Sessions -> SesRec]
      /\ \A s \in Sessions :
            ses'[s] = ses[s] \/ (s = Data(x) /\ SameSession(s))
  <2>1. \A s \in Sessions : [ses[s] EXCEPT !.dead = TRUE] \in SesRec
    BY <1>1, SessionFields
  <2>2. /\ ses' = [s \in Sessions |-> ses'[s]]
        /\ \A s \in Sessions : ses'[s] = ses[s] \/ (s = Data(x) /\ ses'[s] = [ses[s] EXCEPT !.dead = TRUE])
    BY DEF KillLock
  <2> QED BY <1>1, <2>1, <2>2 DEF SesRec, SameSession
<1>7. UNCHANGED <<mpdata, cdev, fuse_mount_count>>
  BY DEF KillLock
<1>8. TypeOK'
  <2>1. /\ fuse_device_mutex' \in Threads \cup {Nobody} /\ fuse_mount_count' \in Int
        /\ available' \in BOOLEAN /\ panic' \in Panics
    BY <1>1, <1>2, <1>4, <1>5, <1>6, TypeParts DEF DeviceInv, KillLock, Panics
  <2> QED BY <1>1, <1>2, <1>4, <1>5, <1>6, <1>7, <2>1, TypeParts, TypeNext DEF DeviceInv
<1>10. Quiet(x, Data(x))
  BY <1>1, <1>2, <1>4, <1>5, <1>6, <1>7 DEF Quiet, Data, SameSession
<1>11. Keeps(x)
  BY <1>1, <1>2, <1>4, <1>5, <1>6, <1>7 DEF Keeps, Counted, HasMounted, At, Unit, IdleThread
<1>12. RoleOk(x)'
  BY <1>1, <1>2, <1>4, <1>5, <1>6, <1>7, Roles DEF RoleOk, DaemonLabels, MounterLabels, OtherLabels, At, Unit, IdleThread, Threads
<1>13. MutexOk(x)'
  BY <1>1, <1>2, <1>4, <1>5, <1>6, <1>7 DEF MutexOk, At, Unit, IdleThread
<1> QED BY <1>1, <1>2, <1>8, <1>10, <1>11, <1>12, <1>13, QuietInv

\* fuse_devices_stop begins.
LEMMA StopInv ==
    ASSUME DeviceInv, NEW x \in Stoppers, Stop(x)
    PROVE  DeviceInv' /\ Seen /\ Count
<1>1. /\ x \in Threads /\ RoleOk(x) /\ MutexOk(x)
      /\ thr \in [Threads -> ThreadRec] /\ slot \in [Units -> SlotRec] /\ ses \in [Sessions -> SesRec]
  BY TypeParts DEF DeviceInv, Threads
<1>2. thr[x].pc = "idle" /\ x \notin Daemons /\ x \notin Mounters
  BY <1>1, Roles DEF Stop, At
<1>4. /\ thr' \in [Threads -> ThreadRec] /\ \A z \in Threads \ {x} : thr'[z] = thr[z]
      /\ thr'[x].pc = "stop" /\ thr'[x].ret = thr[x].ret
      /\ thr'[x].u = thr[x].u /\ thr'[x].d = thr[x].d
      /\ thr'[x].mnt = thr[x].mnt /\ thr'[x].err = thr[x].err
  <2>1. thr' = [thr EXCEPT ![x] = [thr[x] EXCEPT !.pc = "stop"]]
    BY <1>1 DEF Stop, Goto
  <2>2. [thr[x] EXCEPT !.pc = "stop"] \in ThreadRec
    BY <1>1, <1>2, ThreadFields, LabelFacts
  <2> QED BY <1>1, <2>1, <2>2, ThreadStep DEF ThreadRec
<1>7. UNCHANGED <<mpdata, cdev, fuse_mount_count, slot, ses>>
  BY DEF Stop
<1>8. TypeOK'
  <2>1. /\ fuse_device_mutex' \in Threads \cup {Nobody} /\ fuse_mount_count' \in Int
        /\ available' \in BOOLEAN /\ panic' \in Panics
    BY <1>1, <1>2, <1>4, TypeParts DEF DeviceInv, Stop, Panics
  <2> QED BY <1>1, <1>2, <1>4, <1>7, <2>1, TypeParts, TypeNext DEF DeviceInv
<1>10. Quiet(x, NoData)
  BY <1>1, <1>2, <1>4, <1>7 DEF Quiet, Data, SameSession
<1>11. Keeps(x)
  BY <1>1, <1>2, <1>4, <1>7 DEF Keeps, Counted, HasMounted, At, Unit, IdleThread
<1>12. RoleOk(x)'
  BY <1>1, <1>2, <1>4, <1>7, Roles DEF RoleOk, DaemonLabels, MounterLabels, OtherLabels, At, Unit, IdleThread, Threads
<1>13. MutexOk(x)'
  BY <1>1, <1>2, <1>4, <1>7 DEF MutexOk, At, Unit, IdleThread
<1> QED BY <1>1, <1>2, <1>8, <1>10, <1>11, <1>12, <1>13, QuietInv

\* fuse_devices_stop returns EBUSY.
LEMMA StopRefusedInv ==
    ASSUME DeviceInv, NEW x \in Threads, StopRefused(x)
    PROVE  DeviceInv' /\ Seen /\ Count
<1>1. /\ x \in Threads /\ RoleOk(x) /\ MutexOk(x)
      /\ thr \in [Threads -> ThreadRec] /\ slot \in [Units -> SlotRec] /\ ses \in [Sessions -> SesRec]
  BY TypeParts DEF DeviceInv, Threads
<1>2. thr[x].pc = "stop" /\ x \notin Daemons /\ x \notin Mounters
  BY <1>1, Roles DEF StopRefused, At
<1>4. /\ thr' \in [Threads -> ThreadRec] /\ \A z \in Threads \ {x} : thr'[z] = thr[z]
      /\ thr'[x].pc = "idle" /\ thr'[x].ret = "idle"
      /\ thr'[x].u = NoUnit /\ thr'[x].d = NoData
      /\ thr'[x].mnt = FALSE /\ thr'[x].err = FALSE
  <2>1. thr' = [thr EXCEPT ![x] = IdleThread]
    BY <1>1 DEF StopRefused
  <2> QED BY <1>1, <2>1, ThreadStep, BlankTypes DEF IdleThread
<1>7. UNCHANGED <<mpdata, cdev, fuse_mount_count, slot, ses>>
  BY DEF StopRefused
<1>8. TypeOK'
  <2>1. /\ fuse_device_mutex' \in Threads \cup {Nobody} /\ fuse_mount_count' \in Int
        /\ available' \in BOOLEAN /\ panic' \in Panics
    BY <1>1, <1>2, <1>4, TypeParts DEF DeviceInv, StopRefused, Panics
  <2> QED BY <1>1, <1>2, <1>4, <1>7, <2>1, TypeParts, TypeNext DEF DeviceInv
<1>10. Quiet(x, NoData)
  BY <1>1, <1>2, <1>4, <1>7 DEF Quiet, Data, SameSession
<1>11. Keeps(x)
  BY <1>1, <1>2, <1>4, <1>7 DEF Keeps, Counted, HasMounted, At, Unit, IdleThread
<1>12. RoleOk(x)'
  BY <1>1, <1>2, <1>4, <1>7, Roles DEF RoleOk, DaemonLabels, MounterLabels, OtherLabels, At, Unit, IdleThread, Threads
<1>13. MutexOk(x)'
  BY <1>1, <1>2, <1>4, <1>7 DEF MutexOk, At, Unit, IdleThread
<1> QED BY <1>1, <1>2, <1>8, <1>10, <1>11, <1>12, <1>13, QuietInv


-----------------------------------------------------------------------------
(* The steps that count a daemon, or change what a slot or a session is *)

\* What Leave does when fdev->data is a session.
LEMMA LeaveFacts ==
    ASSUME TypeOK, NEW x \in Threads, Unit(x) \in Units, Data(x) \in Sessions,
           NEW r \in SesRec, Leave(x, r)
    PROVE  /\ slot' \in [Units -> SlotRec] /\ ses' \in [Sessions -> SesRec]
           /\ slot'[Unit(x)].mtx = x /\ slot'[Unit(x)].usecount = slot[Unit(x)].usecount
           /\ \A v \in Units \ {Unit(x)} : slot'[v] = slot[v]
           /\ \A s \in Sessions \ {Data(x)} : ses'[s] = ses[s]
           /\ \/ (r.opened \/ r.mounted) /\ ses'[Data(x)] = r /\ slot'[Unit(x)].data = Data(x)
              \/ /\ ~r.opened /\ ~r.mounted
                 /\ ses'[Data(x)] = NoSession /\ slot'[Unit(x)].data = NoData
<1>1. slot \in [Units -> SlotRec] /\ ses \in [Sessions -> SesRec]
  BY TypeParts
<1>2. CASE r.opened \/ r.mounted
  <2>1. ses' = [ses EXCEPT ![Data(x)] = r] /\ slot' = Locked(x)
    BY <1>2 DEF Leave
  <2> QED BY <1>1, <1>2, <2>1, LockedFacts, SessionStep DEF Data
<1>3. CASE ~(r.opened \/ r.mounted)
  <2> DEFINE w == [slot[Unit(x)] EXCEPT !.mtx = x, !.data = NoData]
  <2>1. ses' = [ses EXCEPT ![Data(x)] = NoSession] /\ slot' = [slot EXCEPT ![Unit(x)] = w]
    BY <1>3 DEF Leave, CloseFinal
  <2>2. w \in SlotRec
    BY <1>1, SlotFields
  <2>3. /\ slot' \in [Units -> SlotRec] /\ slot'[Unit(x)] = w
        /\ \A v \in Units \ {Unit(x)} : slot'[v] = slot[v]
    BY <1>1, <2>1, <2>2, SlotStep
  <2>4. /\ ses' \in [Sessions -> SesRec] /\ ses'[Data(x)] = NoSession
        /\ \A s \in Sessions \ {Data(x)} : ses'[s] = ses[s]
    BY <1>1, <2>1, BlankTypes, SessionStep
  <2> QED BY <1>1, <1>3, <2>3, <2>4 DEF SlotRec
<1> QED BY <1>2, <1>3

\* fuse_device_open counts itself in.
LEMMA OpenUseInv ==
    ASSUME DeviceInv, NEW x \in Threads, OpenUse(x)
    PROVE  DeviceInv' /\ Seen /\ Count
<1>1. /\ RoleOk(x) /\ MutexOk(x)
      /\ thr \in [Threads -> ThreadRec] /\ slot \in [Units -> SlotRec] /\ ses \in [Sessions -> SesRec]
  BY TypeParts DEF DeviceInv
<1>2. /\ thr[x].pc = "open" /\ x \in Daemons /\ x \notin Mounters
      /\ Unit(x) \in Units /\ slot[Unit(x)].usecount = 0
  <2>1. thr[x].pc = "open" /\ x \in Daemons /\ x \notin Mounters /\ slot[Unit(x)].usecount = 0
    BY Roles DEF OpenUse, At, Busy
  <2> QED BY <1>1, <2>1 DEF RoleOk
<1>3. /\ thr' \in [Threads -> ThreadRec] /\ \A z \in Threads \ {x} : thr'[z] = thr[z]
      /\ thr'[x].pc = "openmtx" /\ thr'[x].u = thr[x].u /\ thr'[x].ret = thr[x].ret
  <2>1. thr' = [thr EXCEPT ![x] = [thr[x] EXCEPT !.pc = "openmtx"]]
    BY <1>1, <1>2 DEF OpenUse, Goto
  <2>2. [thr[x] EXCEPT !.pc = "openmtx"] \in ThreadRec
    BY <1>1, ThreadFields, LabelFacts
  <2> QED BY <1>1, <2>1, <2>2, ThreadStep DEF ThreadRec
<1>4. /\ slot' \in [Units -> SlotRec] /\ \A v \in Units \ {Unit(x)} : slot'[v] = slot[v]
      /\ slot'[Unit(x)].usecount = 1 /\ slot'[Unit(x)].mtx = slot[Unit(x)].mtx
      /\ slot'[Unit(x)].data = slot[Unit(x)].data
  <2> DEFINE w == [slot[Unit(x)] EXCEPT !.usecount = 1]
  <2>1. slot' = [slot EXCEPT ![Unit(x)] = w]
    BY <1>1, <1>2 DEF OpenUse
  <2>a. 0 \in 0 .. 1 /\ 1 \in 0 .. 1
    OBVIOUS
  <2>2. w \in SlotRec
    BY <1>1, <1>2, <2>a, SlotFields
  <2> QED BY <1>1, <1>2, <2>1, <2>2, SlotStep DEF SlotRec
<1>7. UNCHANGED <<mpdata, cdev, ses>>
  BY DEF OpenUse
<1>8. TypeOK'
  <2>1. /\ fuse_device_mutex' \in Threads \cup {Nobody} /\ fuse_mount_count' \in Int
        /\ available' \in BOOLEAN /\ cdev' \in BOOLEAN /\ panic' \in Panics
    BY <1>2, TypeParts DEF DeviceInv, OpenUse
  <2> QED BY <1>1, <1>2, <1>3, <1>4, <1>7, <2>1, TypeParts, TypeNext DEF DeviceInv
<1>11. \A z \in Threads : RoleOk(z)'
  BY <1>1, <1>2, <1>3, <1>4, <1>7 DEF DeviceInv, RoleOk, DaemonLabels, MounterLabels, OtherLabels, At, Unit, Threads
<1>12. \A z \in Threads : MutexOk(z)'
  BY <1>1, <1>2, <1>3, <1>4, <1>7 DEF DeviceInv, RoleOk, MutexOk, At, Unit, Nobody, Freed
<1>13. SlotsOk'
  BY <1>1, <1>2, <1>3, <1>4, <1>7 DEF DeviceInv, SlotsOk, Data, Unit
<1>14. StoppedOk'
  BY <1>1, <1>2, <1>3, <1>4, <1>7 DEF DeviceInv, StoppedOk, Nobody, Freed
<1>15. CountOk'
  BY <1>1, <1>2, <1>3, <1>4, <1>7 DEF DeviceInv, CountOk, Counted, RoleOk, At, Unit, Threads
<1>16. \A z \in Daemons : OpenOk(z)'
  <2> SUFFICES ASSUME NEW z \in Daemons, HasOpen(z)' PROVE OpenOk(z)'
    BY DEF OpenOk
  <2>1. z # x /\ z \in Threads /\ thr'[z] = thr[z]
    BY <1>2, <1>3 DEF HasOpen, At, Threads
  <2>2. HasOpen(z) /\ Unit(z) \in Units /\ OpenOk(z)
    BY <2>1 DEF DeviceInv, HasOpen, RoleOk, At
  <2>3. Unit(z)' = Unit(z) /\ Data(z)' = Data(z)
    BY <1>2, <1>4, <2>1, <2>2 DEF Unit, Data
  <2> QED BY <1>7, <2>1, <2>2, <2>3 DEF OpenOk, At
<1>17. SpareOk'
  BY <1>1, <1>2, <1>3, <1>4, <1>7 DEF DeviceInv, SpareOk, At, Threads
<1>18. PlacedOk'
  BY <1>1, <1>2, <1>3, <1>4, <1>7 DEF DeviceInv, PlacedOk, At, Threads
<1>19. \A z \in Mounters : MounterOk(z)'
  BY <1>1, <1>2, <1>3, <1>4, <1>7 DEF DeviceInv, MounterOk, HasMounted, RoleOk, At, Unit, Data, Threads
<1>20. AloneOk'
  BY <1>1, <1>2, <1>3, <1>4, <1>7 DEF DeviceInv, AloneOk, HasMounted, At, Threads
<1>21. RestAt
  BY <1>1, <1>2, <1>3, <1>4, <1>7, BlankFacts, TypeParts DEF DeviceInv, SlotsOk, Elsewhere, RestAt, Data, SlotRec
<1>22. CountSame
  BY <1>1, <1>2, <1>3, <1>4, <1>7, BlankFacts DEF OpenUse, CountSame, Data
<1>23. Seen /\ Count
  BY <1>2, <1>21, <1>22 DEF Seen, Count
<1> QED BY <1>8, <1>23, <1>11, <1>12, <1>13, <1>14, <1>15, <1>16, <1>17, <1>18, <1>19, <1>20 DEF DeviceInv

\* fuse_device_close counts itself out.
LEMMA CloseCountInv ==
    ASSUME DeviceInv, NEW x \in Threads, CloseCount(x)
    PROVE  DeviceInv' /\ Seen /\ Count
<1>1. /\ RoleOk(x) /\ MutexOk(x)
      /\ thr \in [Threads -> ThreadRec] /\ slot \in [Units -> SlotRec] /\ ses \in [Sessions -> SesRec]
  BY TypeParts DEF DeviceInv
<1>2. /\ thr[x].pc = "closed" /\ x \in Daemons /\ x \notin Mounters
      /\ Unit(x) \in Units /\ slot[Unit(x)].usecount = 1
  <2>1. thr[x].pc = "closed" /\ x \in Daemons /\ x \notin Mounters
    BY Roles DEF CloseCount, At
  <2> QED BY <1>1, <2>1 DEF DeviceInv, RoleOk, CountOk, Counted
<1>3. /\ thr' \in [Threads -> ThreadRec] /\ \A z \in Threads \ {x} : thr'[z] = thr[z]
      /\ thr'[x].pc = "idle" /\ thr'[x].ret = "idle"
  <2>1. thr' = [thr EXCEPT ![x] = IdleThread]
    BY <1>1, <1>2 DEF CloseCount
  <2> QED BY <1>1, <2>1, ThreadStep, BlankTypes DEF IdleThread
<1>4. /\ slot' \in [Units -> SlotRec] /\ \A v \in Units \ {Unit(x)} : slot'[v] = slot[v]
      /\ slot'[Unit(x)].usecount = 0 /\ slot'[Unit(x)].mtx = slot[Unit(x)].mtx
      /\ slot'[Unit(x)].data = slot[Unit(x)].data
  <2> DEFINE w == [slot[Unit(x)] EXCEPT !.usecount = 0]
  <2>1. slot' = [slot EXCEPT ![Unit(x)] = w]
    BY <1>1, <1>2 DEF CloseCount
  <2>a. 0 \in 0 .. 1 /\ 1 \in 0 .. 1
    OBVIOUS
  <2>2. w \in SlotRec
    BY <1>1, <1>2, <2>a, SlotFields
  <2> QED BY <1>1, <1>2, <2>1, <2>2, SlotStep DEF SlotRec
<1>7. UNCHANGED <<mpdata, cdev, ses>>
  BY DEF CloseCount
<1>8. TypeOK'
  <2>1. /\ fuse_device_mutex' \in Threads \cup {Nobody} /\ fuse_mount_count' \in Int
        /\ available' \in BOOLEAN /\ cdev' \in BOOLEAN /\ panic' \in Panics
    BY <1>2, TypeParts DEF DeviceInv, CloseCount
  <2> QED BY <1>1, <1>2, <1>3, <1>4, <1>7, <2>1, TypeParts, TypeNext DEF DeviceInv
<1>11. \A z \in Threads : RoleOk(z)'
  BY <1>1, <1>2, <1>3, <1>4, <1>7 DEF DeviceInv, RoleOk, DaemonLabels, MounterLabels, OtherLabels, At, Unit, Threads
<1>12. \A z \in Threads : MutexOk(z)'
  BY <1>1, <1>2, <1>3, <1>4, <1>7 DEF DeviceInv, RoleOk, MutexOk, At, Unit, Nobody, Freed
<1>13. SlotsOk'
  BY <1>1, <1>2, <1>3, <1>4, <1>7 DEF DeviceInv, SlotsOk, Data, Unit
<1>14. StoppedOk'
  BY <1>1, <1>2, <1>3, <1>4, <1>7 DEF DeviceInv, StoppedOk, Nobody, Freed
<1>15. CountOk'
  BY <1>1, <1>2, <1>3, <1>4, <1>7 DEF DeviceInv, CountOk, Counted, RoleOk, At, Unit, Threads
<1>16. \A z \in Daemons : OpenOk(z)'
  <2> SUFFICES ASSUME NEW z \in Daemons, HasOpen(z)' PROVE OpenOk(z)'
    BY DEF OpenOk
  <2>1. z # x /\ z \in Threads /\ thr'[z] = thr[z]
    BY <1>2, <1>3 DEF HasOpen, At, Threads
  <2>2. HasOpen(z) /\ Unit(z) \in Units /\ OpenOk(z)
    BY <2>1 DEF DeviceInv, HasOpen, RoleOk, At
  <2>3. Unit(z)' = Unit(z) /\ Data(z)' = Data(z)
    BY <1>2, <1>4, <2>1, <2>2 DEF Unit, Data
  <2> QED BY <1>7, <2>1, <2>2, <2>3 DEF OpenOk, At
<1>17. SpareOk'
  BY <1>1, <1>2, <1>3, <1>4, <1>7 DEF DeviceInv, SpareOk, At, Threads
<1>18. PlacedOk'
  BY <1>1, <1>2, <1>3, <1>4, <1>7 DEF DeviceInv, PlacedOk, At, Threads
<1>19. \A z \in Mounters : MounterOk(z)'
  BY <1>1, <1>2, <1>3, <1>4, <1>7 DEF DeviceInv, MounterOk, HasMounted, RoleOk, At, Unit, Data, Threads
<1>20. AloneOk'
  BY <1>1, <1>2, <1>3, <1>4, <1>7 DEF DeviceInv, AloneOk, HasMounted, At, Threads
<1>21. RestAt
  BY <1>1, <1>2, <1>3, <1>4, <1>7, BlankFacts, TypeParts DEF DeviceInv, SlotsOk, Elsewhere, RestAt, Data, SlotRec
<1>22. CountSame
  BY <1>1, <1>2, <1>3, <1>4, <1>7, BlankFacts DEF CloseCount, CountSame, Data
<1>23. Seen /\ Count
  BY <1>2, <1>21, <1>22 DEF Seen, Count
<1> QED BY <1>8, <1>23, <1>11, <1>12, <1>13, <1>14, <1>15, <1>16, <1>17, <1>18, <1>19, <1>20 DEF DeviceInv

\* fuse_device_open finds a lingering mount and frees what it allocated.
LEMMA OpenBusyInv ==
    ASSUME DeviceInv, NEW x \in Threads, OpenBusy(x)
    PROVE  DeviceInv' /\ Seen /\ Count
<1>1. /\ RoleOk(x) /\ MutexOk(x)
      /\ thr \in [Threads -> ThreadRec] /\ slot \in [Units -> SlotRec] /\ ses \in [Sessions -> SesRec]
  BY TypeParts DEF DeviceInv
<1>2. /\ thr[x].pc = "busy" /\ x \in Daemons /\ x \notin Mounters
      /\ Unit(x) \in Units /\ slot[Unit(x)].usecount = 1 /\ slot[Unit(x)].mtx = x
      /\ thr[x].d \in Sessions /\ \A v \in Units : slot[v].data # thr[x].d
  <2>1. thr[x].pc = "busy" /\ x \in Daemons /\ x \notin Mounters
    BY Roles DEF OpenBusy, At
  <2> QED BY <1>1, <2>1 DEF DeviceInv, RoleOk, MutexOk, CountOk, Counted, SpareOk, At
<1>3. /\ thr' \in [Threads -> ThreadRec] /\ \A z \in Threads \ {x} : thr'[z] = thr[z]
      /\ thr'[x].pc = "idle" /\ thr'[x].ret = "idle"
  <2>1. thr' = [thr EXCEPT ![x] = IdleThread]
    BY <1>1, <1>2 DEF OpenBusy
  <2> QED BY <1>1, <2>1, ThreadStep, BlankTypes DEF IdleThread
<1>4. /\ slot' \in [Units -> SlotRec] /\ \A v \in Units \ {Unit(x)} : slot'[v] = slot[v]
      /\ slot'[Unit(x)].usecount = 0 /\ slot'[Unit(x)].mtx = Nobody
      /\ slot'[Unit(x)].data = slot[Unit(x)].data
  <2> DEFINE w == [slot[Unit(x)] EXCEPT !.usecount = slot[Unit(x)].usecount - 1, !.mtx = Nobody]
  <2>1. slot' = [slot EXCEPT ![Unit(x)] = w]
    BY <1>1, <1>2 DEF OpenBusy
  <2>a. 0 \in 0 .. 1 /\ 1 \in 0 .. 1
    OBVIOUS
  <2>b. slot[Unit(x)].usecount - 1 = 0
    BY <1>2
  <2>2. w \in SlotRec
    BY <1>1, <1>2, <2>a, <2>b, SlotFields
  <2> QED BY <1>1, <1>2, <2>1, <2>2, <2>b, SlotStep DEF SlotRec
<1>5. /\ ses' \in [Sessions -> SesRec] /\ ses'[thr[x].d] = NoSession
      /\ \A s \in Sessions \ {thr[x].d} : ses'[s] = ses[s]
  <2>1. ses' = [ses EXCEPT ![thr[x].d] = NoSession]
    BY DEF OpenBusy
  <2> QED BY <1>1, <1>2, <2>1, BlankTypes, SessionStep
<1>7. UNCHANGED <<mpdata, cdev>>
  BY DEF OpenBusy
<1>8. TypeOK'
  <2>1. /\ fuse_device_mutex' \in Threads \cup {Nobody} /\ fuse_mount_count' \in Int
        /\ available' \in BOOLEAN /\ cdev' \in BOOLEAN /\ panic' \in Panics
    BY <1>2, TypeParts DEF DeviceInv, OpenBusy
  <2> QED BY <1>1, <1>2, <1>3, <1>4, <1>5, <1>7, <2>1, TypeParts, TypeNext DEF DeviceInv
<1>11. \A z \in Threads : RoleOk(z)'
  BY <1>1, <1>2, <1>3, <1>4, <1>5, <1>7 DEF DeviceInv, RoleOk, DaemonLabels, MounterLabels, OtherLabels, At, Unit, Threads
<1>12. \A z \in Threads : MutexOk(z)'
  BY <1>1, <1>2, <1>3, <1>4, <1>5, <1>7 DEF DeviceInv, RoleOk, MutexOk, At, Unit, Nobody, Freed
<1>13. SlotsOk'
  <2>1. \A u \in Units : /\ slot'[u].data = slot[u].data
                         /\ slot[u].data # NoData => /\ slot[u].data \in Sessions
                                                     /\ ses'[slot[u].data] = ses[slot[u].data]
    BY <1>1, <1>2, <1>4, <1>5 DEF SlotRec
  <2>2. \A s \in Sessions : ~ses'[s].alloc => ses'[s] = NoSession
    BY <1>2, <1>5 DEF DeviceInv, SlotsOk
  <2> QED BY <2>1, <2>2 DEF DeviceInv, SlotsOk
<1>14. StoppedOk'
  BY <1>1, <1>2, <1>3, <1>4, <1>5, <1>7 DEF DeviceInv, StoppedOk, Nobody, Freed
<1>15. CountOk'
  BY <1>1, <1>2, <1>3, <1>4, <1>5, <1>7 DEF DeviceInv, CountOk, Counted, RoleOk, At, Unit, Threads
<1>16. \A z \in Daemons : OpenOk(z)'
  <2> SUFFICES ASSUME NEW z \in Daemons, HasOpen(z)' PROVE OpenOk(z)'
    BY DEF OpenOk
  <2>1. z # x /\ z \in Threads /\ thr'[z] = thr[z]
    BY <1>2, <1>3 DEF HasOpen, At, Threads
  <2>2. HasOpen(z) /\ Unit(z) \in Units /\ OpenOk(z)
    BY <2>1 DEF DeviceInv, HasOpen, RoleOk, At
  <2>3. Unit(z)' = Unit(z) /\ Data(z)' = Data(z)
    BY <1>2, <1>4, <2>1, <2>2 DEF Unit, Data
  <2>4. Data(z) # thr[x].d
    BY <1>2, <2>2 DEF DeviceInv, SpareOk, At, Data
  <2> QED BY <1>5, <2>1, <2>2, <2>3, <2>4 DEF OpenOk, At
<1>17. SpareOk'
  BY <1>1, <1>2, <1>3, <1>4, <1>5, <1>7 DEF DeviceInv, SpareOk, At, Threads
<1>18. PlacedOk'
  BY <1>1, <1>2, <1>3, <1>4, <1>5, <1>7, BlankFacts DEF DeviceInv, PlacedOk, At, Threads
<1>19. \A z \in Mounters : MounterOk(z)'
  BY <1>1, <1>2, <1>3, <1>4, <1>5, <1>7 DEF DeviceInv, MounterOk, HasMounted, RoleOk, At, Unit, Data, Threads
<1>20. AloneOk'
  BY <1>1, <1>2, <1>3, <1>4, <1>5, <1>7 DEF DeviceInv, AloneOk, HasMounted, At, Threads
<1>21. RestAt
  BY <1>1, <1>2, <1>3, <1>4, <1>5, <1>7, BlankFacts, TypeParts DEF DeviceInv, SlotsOk, Elsewhere, RestAt, Data, SlotRec
<1>22. CountSame
  <2>1. ses[thr[x].d].mounted = FALSE /\ ses'[thr[x].d].mounted = FALSE
    BY <1>2, <1>5, BlankFacts DEF DeviceInv, SpareOk, At
  <2> QED BY <1>5, <2>1 DEF OpenBusy, CountSame
<1>23. Seen /\ Count
  BY <1>2, <1>21, <1>22 DEF Seen, Count
<1> QED BY <1>8, <1>23, <1>11, <1>12, <1>13, <1>14, <1>15, <1>16, <1>17, <1>18, <1>19, <1>20 DEF DeviceInv

\* fuse_device_close takes the daemon from its session.
LEMMA CloseLockInv ==
    ASSUME DeviceInv, NEW x \in Threads, CloseLock(x)
    PROVE  DeviceInv' /\ Seen /\ Count
<1>1. /\ RoleOk(x) /\ MutexOk(x)
      /\ thr \in [Threads -> ThreadRec] /\ slot \in [Units -> SlotRec] /\ ses \in [Sessions -> SesRec]
  BY TypeParts DEF DeviceInv
<1>2. /\ thr[x].pc = "close" /\ x \in Daemons /\ x \notin Mounters
      /\ Unit(x) \in Units /\ slot[Unit(x)].mtx = Nobody
      /\ Data(x) \in Sessions /\ thr[x].d = Data(x)
      /\ ses[Data(x)].opened /\ ses[Data(x)].dead
  <2>1. thr[x].pc = "close" /\ x \in Daemons /\ x \notin Mounters /\ slot[Unit(x)].mtx = Nobody
    BY Roles DEF CloseLock, At, MtxFree
  <2> QED BY <1>1, <2>1 DEF DeviceInv, RoleOk, OpenOk, HasOpen, At
<1>3. /\ thr' \in [Threads -> ThreadRec] /\ \A z \in Threads \ {x} : thr'[z] = thr[z]
      /\ thr'[x].pc = "unlock" /\ thr'[x].ret = "closed"
      /\ thr'[x].u = thr[x].u /\ thr'[x].d = thr[x].d
      /\ thr'[x].mnt = thr[x].mnt /\ thr'[x].err = thr[x].err
  <2>1. thr' = [thr EXCEPT ![x] = [thr[x] EXCEPT !.pc = "unlock", !.ret = "closed"]]
    BY <1>1, <1>2 DEF CloseLock, UnlockThen
  <2>2. [thr[x] EXCEPT !.pc = "unlock", !.ret = "closed"] \in ThreadRec
    BY <1>1, <1>2, ThreadFields, LabelFacts
  <2> QED BY <1>1, <2>1, <2>2, ThreadStep DEF ThreadRec
<1>4. [ses[Data(x)] EXCEPT !.opened = FALSE] \in SesRec
  BY <1>1, <1>2, SessionFields
<1>5. /\ slot' \in [Units -> SlotRec] /\ ses' \in [Sessions -> SesRec]
      /\ slot'[Unit(x)].mtx = x /\ slot'[Unit(x)].usecount = slot[Unit(x)].usecount
      /\ \A v \in Units \ {Unit(x)} : slot'[v] = slot[v]
      /\ \A s \in Sessions \ {Data(x)} : ses'[s] = ses[s]
      /\ \/ /\ ses[Data(x)].mounted /\ slot'[Unit(x)].data = Data(x)
            /\ ses'[Data(x)].mounted /\ ses'[Data(x)].alloc = ses[Data(x)].alloc
            /\ ~ses'[Data(x)].opened /\ ses'[Data(x)].dead = ses[Data(x)].dead
         \/ /\ ~ses[Data(x)].mounted
            /\ ses'[Data(x)] = NoSession /\ slot'[Unit(x)].data = NoData
  <2>1. Leave(x, [ses[Data(x)] EXCEPT !.opened = FALSE])
    BY <1>2 DEF CloseLock
  <2> DEFINE r == [ses[Data(x)] EXCEPT !.opened = FALSE]
  <2>2. /\ slot' \in [Units -> SlotRec] /\ ses' \in [Sessions -> SesRec]
        /\ slot'[Unit(x)].mtx = x /\ slot'[Unit(x)].usecount = slot[Unit(x)].usecount
        /\ \A v \in Units \ {Unit(x)} : slot'[v] = slot[v]
        /\ \A s \in Sessions \ {Data(x)} : ses'[s] = ses[s]
        /\ \/ (r.opened \/ r.mounted) /\ ses'[Data(x)] = r /\ slot'[Unit(x)].data = Data(x)
           \/ /\ ~r.opened /\ ~r.mounted
              /\ ses'[Data(x)] = NoSession /\ slot'[Unit(x)].data = NoData
    BY <1>1, <1>2, <1>4, <2>1, LeaveFacts DEF DeviceInv
  <2>3. /\ r.opened = FALSE /\ r.mounted = ses[Data(x)].mounted
        /\ r.alloc = ses[Data(x)].alloc /\ r.dead = ses[Data(x)].dead
    BY <1>1, <1>2 DEF SesRec
  <2> HIDE DEF r
  <2> QED BY <2>2, <2>3
<1>9. \A v \in Units \ {Unit(x)} :
          slot[v].data # NoData => /\ slot[v].data \in Sessions /\ slot[v].data # Data(x)
                                   /\ ses'[slot[v].data] = ses[slot[v].data]
  BY <1>1, <1>2, <1>5 DEF DeviceInv, SlotsOk, SlotRec, Data
<1>7. UNCHANGED <<mpdata, cdev>>
  BY DEF CloseLock
<1>8. TypeOK'
  <2>1. /\ fuse_device_mutex' \in Threads \cup {Nobody} /\ fuse_mount_count' \in Int
        /\ available' \in BOOLEAN /\ cdev' \in BOOLEAN /\ panic' \in Panics
    BY <1>2, TypeParts DEF DeviceInv, CloseLock
  <2> QED BY <1>1, <1>2, <1>3, <1>5, <1>7, <2>1, TypeParts, TypeNext DEF DeviceInv
<1>11. \A z \in Threads : RoleOk(z)'
  BY <1>1, <1>2, <1>3, <1>5, <1>7 DEF DeviceInv, RoleOk, DaemonLabels, MounterLabels, OtherLabels, At, Unit, Threads
<1>12. \A z \in Threads : MutexOk(z)'
  BY <1>1, <1>2, <1>3, <1>5, <1>7 DEF DeviceInv, RoleOk, MutexOk, At, Unit, Nobody, Freed
<1>13. SlotsOk'
  <2>1. \A v \in Units : slot'[v].data # NoData => slot'[v].data = slot[v].data
    BY <1>2, <1>5 DEF Data
  <2>2. slot'[Unit(x)].data # NoData => LET s == ses'[Data(x)] IN s.alloc /\ (s.opened \/ s.mounted)
    BY <1>2, <1>5 DEF DeviceInv, SlotsOk, Data
  <2>3. \A v \in Units : slot'[v].data # NoData =>
          LET s == ses'[slot'[v].data] IN s.alloc /\ (s.opened \/ s.mounted)
    BY <1>2, <1>5, <1>9, <2>1, <2>2 DEF DeviceInv, SlotsOk, Data
  <2>4. \A s \in Sessions : ~ses'[s].alloc => ses'[s] = NoSession
    BY <1>1, <1>2, <1>5 DEF DeviceInv, SlotsOk, Data
  <2> QED BY <2>1, <2>3, <2>4 DEF DeviceInv, SlotsOk
<1>14. StoppedOk'
  BY <1>1, <1>2, <1>3, <1>5, <1>7 DEF DeviceInv, StoppedOk, Nobody, Freed
<1>15. CountOk'
  BY <1>1, <1>2, <1>3, <1>5, <1>7 DEF DeviceInv, CountOk, Counted, RoleOk, At, Unit, Threads
<1>16. \A z \in Daemons : OpenOk(z)'
  <2> SUFFICES ASSUME NEW z \in Daemons, HasOpen(z)' PROVE OpenOk(z)'
    BY DEF OpenOk
  <2>1. z # x /\ z \in Threads /\ thr'[z] = thr[z] /\ HasOpen(z) /\ Unit(z) \in Units /\ OpenOk(z)
    BY <1>1, <1>2, <1>3, <1>5, <1>7 DEF DeviceInv, HasOpen, RoleOk, At, Threads
  <2>2. Unit(z) # Unit(x)
    BY <1>2, <2>1 DEF DeviceInv, CountOk, Counted, HasOpen, At
  <2> QED BY <1>5, <1>9, <2>1, <2>2 DEF OpenOk, HasOpen, At, Unit, Data
<1>17. SpareOk'
  <2>1. \A z \in Daemons : At(z, "busy")' => z # x /\ At(z, "busy") /\ thr'[z] = thr[z]
    BY <1>2, <1>3 DEF At, Threads
  <2>2. \A z \in Daemons : At(z, "busy") => thr[z].d # Data(x) /\ thr[z].d # NoData
    BY <1>2 DEF DeviceInv, SpareOk, Data
  <2>3. \A v \in Units : slot'[v].data # NoData => slot'[v].data = slot[v].data
    BY <1>2, <1>5 DEF Data
  <2>4. ASSUME NEW z \in Daemons, At(z, "busy")'
        PROVE  /\ thr'[z].d \in Sessions /\ ses'[thr'[z].d] = SpareSession
               /\ \A u \in Units : slot'[u].data # thr'[z].d
    BY <1>5, <2>1, <2>2, <2>3, <2>4 DEF DeviceInv, SpareOk
  <2>5. ASSUME NEW y \in Daemons, NEW z \in Daemons,
               At(y, "busy")', At(z, "busy")', thr'[y].d = thr'[z].d
        PROVE  y = z
    BY <2>1, <2>5 DEF DeviceInv, SpareOk
  <2> QED BY <2>4, <2>5 DEF SpareOk
<1>18. PlacedOk'
  <2> SUFFICES ASSUME NEW s \in Sessions, ses'[s].alloc
               PROVE  \/ \E u \in Units : slot'[u].data = s
                      \/ \E z \in Daemons : At(z, "busy")' /\ thr'[z].d = s
    BY DEF PlacedOk
  <2>1. CASE s = Data(x)
    BY <1>2, <1>5, <2>1, BlankFacts
  <2>2. CASE s # Data(x)
    <3>1. \/ \E u \in Units : slot[u].data = s
          \/ \E z \in Daemons : At(z, "busy") /\ thr[z].d = s
      BY <1>5, <2>2 DEF DeviceInv, PlacedOk
    <3>2. ASSUME NEW u \in Units, slot[u].data = s PROVE slot'[u].data = s
      BY <1>5, <2>2, <3>2 DEF Data
    <3>3. ASSUME NEW z \in Daemons, At(z, "busy") PROVE thr'[z] = thr[z] /\ At(z, "busy")'
      BY <1>2, <1>3, <3>3 DEF At, Threads
    <3> QED BY <3>1, <3>2, <3>3
  <2> QED BY <2>1, <2>2
<1>19. \A z \in Mounters : MounterOk(z)'
  <2> SUFFICES ASSUME NEW z \in Mounters PROVE MounterOk(z)'
    OBVIOUS
  <2>1. z # x /\ z \in Threads /\ thr'[z] = thr[z] /\ mpdata'[z] = mpdata[z] /\ MounterOk(z)
    BY <1>1, <1>2, <1>3, <1>5, <1>7 DEF DeviceInv, Threads
  <2>2. At(z, "mtest") => Unit(z) # Unit(x) /\ Unit(z) \in Units
    BY <1>2, <2>1 DEF DeviceInv, MutexOk, RoleOk, At, Nobody
  <2>3. HasMounted(z) => Unit(z) \in Units
    BY <2>1 DEF DeviceInv, HasMounted, RoleOk, At
  <2>4. HasMounted(z) => Data(z)' = Data(z) /\ ses'[thr[z].d].mounted
    <3> SUFFICES ASSUME HasMounted(z) PROVE Data(z)' = Data(z) /\ ses'[thr[z].d].mounted
      OBVIOUS
    <3>1. Unit(z)' = Unit(z) /\ Unit(z) \in Units /\ thr[z].d = Data(z) /\ ses[thr[z].d].mounted
          /\ Data(z) # NoData
      BY <2>1, <2>3 DEF MounterOk, Unit
    <3>2. CASE Unit(z) = Unit(x)
      BY <1>5, <3>1, <3>2 DEF Data
    <3>3. CASE Unit(z) # Unit(x)
      BY <1>5, <1>9, <3>1, <3>3 DEF Data
    <3> QED BY <3>2, <3>3
  <2>5. At(z, "mtest") => Data(z)' = Data(z)
    BY <1>5, <2>1, <2>2 DEF Unit, Data
  <2> QED BY <2>1, <2>4, <2>5 DEF MounterOk, HasMounted, At
<1>20. AloneOk'
  BY <1>1, <1>2, <1>3, <1>5, <1>7 DEF DeviceInv, AloneOk, HasMounted, At, Threads
<1>21. DaemonLeavesAt(Unit(x))
  <2>1. Elsewhere(Unit(x))
    BY <1>5, <1>7, <1>9 DEF Elsewhere
  <2> QED BY <1>2, <1>5, <2>1 DEF DaemonLeavesAt, Data
<1>22. CountSame
  <2>1. ses'[Data(x)].mounted = ses[Data(x)].mounted
    BY <1>1, <1>2, <1>5, BlankFacts DEF SesRec
  <2> QED BY <1>5, <2>1 DEF CloseLock, CountSame
<1>23. Seen /\ Count
  BY <1>2, <1>21, <1>22 DEF Seen, Count
<1> QED BY <1>8, <1>23, <1>11, <1>12, <1>13, <1>14, <1>15, <1>16, <1>17, <1>18, <1>19, <1>20 DEF DeviceInv

\* The error path of fuse_vfsop_mount.
LEMMA MountOutInv ==
    ASSUME DeviceInv, NEW x \in Threads, MountOut(x)
    PROVE  DeviceInv' /\ Seen /\ Count
<1>1. /\ RoleOk(x) /\ MutexOk(x)
      /\ thr \in [Threads -> ThreadRec] /\ slot \in [Units -> SlotRec] /\ ses \in [Sessions -> SesRec]
  BY TypeParts DEF DeviceInv
<1>2. /\ thr[x].pc = "out" /\ x \in Mounters /\ x \notin Daemons
      /\ Unit(x) \in Units /\ slot[Unit(x)].mtx = Nobody
      /\ Data(x) \in Sessions /\ thr[x].d = Data(x) /\ Data(x) # NoData /\ HasMounted(x) /\ ses[Data(x)].mounted /\ thr[x].mnt /\ thr[x].err
      /\ (IF Biglock THEN "tail" ELSE "idle") \in Labels
  <2>1. thr[x].pc = "out" /\ x \in Mounters /\ x \notin Daemons /\ slot[Unit(x)].mtx = Nobody
    BY Roles DEF MountOut, At, MtxFree
  <2> QED BY <1>1, <2>1, LabelFacts DEF DeviceInv, RoleOk, MounterOk, HasMounted, At
<1>3. /\ thr' \in [Threads -> ThreadRec] /\ \A z \in Threads \ {x} : thr'[z] = thr[z]
      /\ thr'[x].pc = "unlock" /\ thr'[x].ret = IF Biglock THEN "tail" ELSE "idle"
      /\ thr'[x].u = thr[x].u /\ thr'[x].d = thr[x].d
      /\ thr'[x].mnt = thr[x].mnt /\ thr'[x].err = thr[x].err
  <2>1. thr' = [thr EXCEPT ![x] = [thr[x] EXCEPT !.pc = "unlock", !.ret = IF Biglock THEN "tail" ELSE "idle"]]
    BY <1>1, <1>2 DEF MountOut, UnlockThen
  <2>2. [thr[x] EXCEPT !.pc = "unlock", !.ret = IF Biglock THEN "tail" ELSE "idle"] \in ThreadRec
    BY <1>1, <1>2, ThreadFields, LabelFacts
  <2> QED BY <1>1, <2>1, <2>2, ThreadStep DEF ThreadRec
<1>4. [ses[Data(x)] EXCEPT !.mounted = FALSE] \in SesRec
  BY <1>1, <1>2, SessionFields
<1>5. /\ slot' \in [Units -> SlotRec] /\ ses' \in [Sessions -> SesRec]
      /\ slot'[Unit(x)].mtx = x /\ slot'[Unit(x)].usecount = slot[Unit(x)].usecount
      /\ \A v \in Units \ {Unit(x)} : slot'[v] = slot[v]
      /\ \A s \in Sessions \ {Data(x)} : ses'[s] = ses[s]
      /\ \/ /\ ses[Data(x)].opened /\ slot'[Unit(x)].data = Data(x)
            /\ ses'[Data(x)].opened /\ ses'[Data(x)].alloc = ses[Data(x)].alloc
            /\ ~ses'[Data(x)].mounted
            /\ ses'[Data(x)].dead = ses[Data(x)].dead
         \/ /\ ~ses[Data(x)].opened
            /\ ses'[Data(x)] = NoSession /\ slot'[Unit(x)].data = NoData
  <2>1. Leave(x, [ses[Data(x)] EXCEPT !.mounted = FALSE])
    BY <1>2 DEF MountOut
  <2> DEFINE r == [ses[Data(x)] EXCEPT !.mounted = FALSE]
  <2>2. /\ slot' \in [Units -> SlotRec] /\ ses' \in [Sessions -> SesRec]
        /\ slot'[Unit(x)].mtx = x /\ slot'[Unit(x)].usecount = slot[Unit(x)].usecount
        /\ \A v \in Units \ {Unit(x)} : slot'[v] = slot[v]
        /\ \A s \in Sessions \ {Data(x)} : ses'[s] = ses[s]
        /\ \/ (r.opened \/ r.mounted) /\ ses'[Data(x)] = r /\ slot'[Unit(x)].data = Data(x)
           \/ /\ ~r.opened /\ ~r.mounted
              /\ ses'[Data(x)] = NoSession /\ slot'[Unit(x)].data = NoData
    BY <1>1, <1>2, <1>4, <2>1, LeaveFacts DEF DeviceInv
  <2>3. /\ r.opened = ses[Data(x)].opened /\ r.mounted = FALSE
        /\ r.alloc = ses[Data(x)].alloc /\ r.dead = ses[Data(x)].dead
    BY <1>1, <1>2 DEF SesRec
  <2> HIDE DEF r
  <2> QED BY <2>2, <2>3
<1>6. /\ mpdata' \in [Mounters -> Sessions \cup {NoData}] /\ mpdata'[x] = NoData
      /\ \A m \in Mounters \ {x} : mpdata'[m] = mpdata[m]
  BY <1>2, TypeParts DEF DeviceInv, MountOut
<1>9. \A v \in Units \ {Unit(x)} :
          slot[v].data # NoData => /\ slot[v].data \in Sessions /\ slot[v].data # Data(x)
                                   /\ ses'[slot[v].data] = ses[slot[v].data]
  BY <1>1, <1>2, <1>5 DEF DeviceInv, SlotsOk, SlotRec, Data
<1>7. UNCHANGED <<cdev>>
  BY DEF MountOut
<1>8. TypeOK'
  <2>1. /\ fuse_device_mutex' \in Threads \cup {Nobody} /\ fuse_mount_count' \in Int
        /\ available' \in BOOLEAN /\ cdev' \in BOOLEAN /\ panic' \in Panics
    BY <1>2, TypeParts DEF DeviceInv, MountOut, Uncounted
  <2> QED BY <1>1, <1>2, <1>3, <1>5, <1>6, <1>7, <2>1, TypeParts, TypeNext DEF DeviceInv
<1>11. \A z \in Threads : RoleOk(z)'
  BY <1>1, <1>2, <1>3, <1>5, <1>6, <1>7 DEF DeviceInv, RoleOk, DaemonLabels, MounterLabels, OtherLabels, At, Unit, Threads
<1>12. \A z \in Threads : MutexOk(z)'
  BY <1>1, <1>2, <1>3, <1>5, <1>6, <1>7 DEF DeviceInv, RoleOk, MutexOk, At, Unit, Nobody, Freed
<1>13. SlotsOk'
  <2>1. \A v \in Units : slot'[v].data # NoData => slot'[v].data = slot[v].data
    BY <1>2, <1>5 DEF Data
  <2>2. slot'[Unit(x)].data # NoData => LET s == ses'[Data(x)] IN s.alloc /\ (s.opened \/ s.mounted)
    BY <1>2, <1>5 DEF DeviceInv, SlotsOk, Data
  <2>3. \A v \in Units : slot'[v].data # NoData =>
          LET s == ses'[slot'[v].data] IN s.alloc /\ (s.opened \/ s.mounted)
    BY <1>2, <1>5, <1>9, <2>1, <2>2 DEF DeviceInv, SlotsOk, Data
  <2>4. \A s \in Sessions : ~ses'[s].alloc => ses'[s] = NoSession
    BY <1>1, <1>2, <1>5 DEF DeviceInv, SlotsOk, Data
  <2> QED BY <2>1, <2>3, <2>4 DEF DeviceInv, SlotsOk
<1>14. StoppedOk'
  BY <1>1, <1>2, <1>3, <1>5, <1>6, <1>7 DEF DeviceInv, StoppedOk, Nobody, Freed
<1>15. CountOk'
  BY <1>1, <1>2, <1>3, <1>5, <1>6, <1>7 DEF DeviceInv, CountOk, Counted, RoleOk, At, Unit, Threads
<1>16. \A z \in Daemons : OpenOk(z)'
  <2> SUFFICES ASSUME NEW z \in Daemons, HasOpen(z)' PROVE OpenOk(z)'
    BY DEF OpenOk
  <2>1. z # x /\ z \in Threads /\ thr'[z] = thr[z] /\ HasOpen(z) /\ Unit(z) \in Units /\ OpenOk(z)
    BY <1>1, <1>2, <1>3, <1>5, <1>6, <1>7 DEF DeviceInv, HasOpen, RoleOk, At, Threads
  <2> QED BY <1>5, <1>9, <2>1 DEF OpenOk, HasOpen, At, Unit, Data
<1>17. SpareOk'
  <2>1. \A z \in Daemons : At(z, "busy")' => z # x /\ At(z, "busy") /\ thr'[z] = thr[z]
    BY <1>2, <1>3 DEF At, Threads
  <2>2. \A z \in Daemons : At(z, "busy") => thr[z].d # Data(x) /\ thr[z].d # NoData
    BY <1>2 DEF DeviceInv, SpareOk, Data
  <2>3. \A v \in Units : slot'[v].data # NoData => slot'[v].data = slot[v].data
    BY <1>2, <1>5 DEF Data
  <2>4. ASSUME NEW z \in Daemons, At(z, "busy")'
        PROVE  /\ thr'[z].d \in Sessions /\ ses'[thr'[z].d] = SpareSession
               /\ \A u \in Units : slot'[u].data # thr'[z].d
    BY <1>5, <2>1, <2>2, <2>3, <2>4 DEF DeviceInv, SpareOk
  <2>5. ASSUME NEW y \in Daemons, NEW z \in Daemons,
               At(y, "busy")', At(z, "busy")', thr'[y].d = thr'[z].d
        PROVE  y = z
    BY <2>1, <2>5 DEF DeviceInv, SpareOk
  <2> QED BY <2>4, <2>5 DEF SpareOk
<1>18. PlacedOk'
  <2> SUFFICES ASSUME NEW s \in Sessions, ses'[s].alloc
               PROVE  \/ \E u \in Units : slot'[u].data = s
                      \/ \E z \in Daemons : At(z, "busy")' /\ thr'[z].d = s
    BY DEF PlacedOk
  <2>1. CASE s = Data(x)
    BY <1>2, <1>5, <2>1, BlankFacts
  <2>2. CASE s # Data(x)
    <3>1. \/ \E u \in Units : slot[u].data = s
          \/ \E z \in Daemons : At(z, "busy") /\ thr[z].d = s
      BY <1>5, <2>2 DEF DeviceInv, PlacedOk
    <3>2. ASSUME NEW u \in Units, slot[u].data = s PROVE slot'[u].data = s
      BY <1>5, <2>2, <3>2 DEF Data
    <3>3. ASSUME NEW z \in Daemons, At(z, "busy") PROVE thr'[z] = thr[z] /\ At(z, "busy")'
      BY <1>2, <1>3, <3>3 DEF At, Threads
    <3> QED BY <3>1, <3>2, <3>3
  <2> QED BY <2>1, <2>2
<1>19. \A z \in Mounters : MounterOk(z)'
  <2> SUFFICES ASSUME NEW z \in Mounters PROVE MounterOk(z)'
    OBVIOUS
  <2>1. CASE z = x
    BY <1>1, <1>2, <1>3, <1>5, <1>6, <1>7, <2>1 DEF MounterOk, HasMounted, At
  <2>2. CASE z # x
    <3>1. z \in Threads /\ thr'[z] = thr[z] /\ mpdata'[z] = mpdata[z] /\ MounterOk(z)
      BY <1>1, <1>2, <1>3, <1>5, <1>6, <1>7, <2>2 DEF DeviceInv, Threads
    <3>2. At(z, "mtest") => Unit(z) # Unit(x) /\ Unit(z) \in Units
      BY <1>2, <3>1 DEF DeviceInv, MutexOk, RoleOk, At, Nobody
    <3>3. HasMounted(z) => Unit(z) \in Units
      BY <3>1 DEF DeviceInv, HasMounted, RoleOk, At
    <3>4. HasMounted(z) => Unit(z) # Unit(x)
      BY <1>2, <2>2, <3>1 DEF DeviceInv, AloneOk, MounterOk, Data
    <3> QED BY <1>2, <1>5, <1>9, <3>1, <3>2, <3>3, <3>4 DEF MounterOk, HasMounted, At, Unit, Data
  <2> QED BY <2>1, <2>2
<1>20. AloneOk'
  BY <1>1, <1>2, <1>3, <1>5, <1>6, <1>7 DEF DeviceInv, AloneOk, HasMounted, At, Threads
<1>21. DetachAt(Unit(x))
  BY <1>1, <1>2, <1>3, <1>5, <1>6, <1>7, BlankFacts, TypeParts DEF DeviceInv, SlotsOk, Elsewhere, DetachAt, Data, SlotRec
<1>22. CountDown(Data(x))
  <2>1. ~ses'[Data(x)].mounted
    BY <1>5, BlankFacts
  <2>2. fuse_mount_count' = fuse_mount_count - 1
    BY <1>2 DEF MountOut, Uncounted
  <2> QED BY <1>2, <1>5, <2>1, <2>2 DEF CountDown
<1>23. Seen /\ Count
  BY <1>2, <1>21, <1>22 DEF Seen, Count
<1> QED BY <1>8, <1>23, <1>11, <1>12, <1>13, <1>14, <1>15, <1>16, <1>17, <1>18, <1>19, <1>20 DEF DeviceInv

\* fuse_vfsop_unmount takes the mount from its session.
LEMMA UnmountLockInv ==
    ASSUME DeviceInv, NEW x \in Threads, UnmountLock(x)
    PROVE  DeviceInv' /\ Seen /\ Count
<1>1. /\ RoleOk(x) /\ MutexOk(x)
      /\ thr \in [Threads -> ThreadRec] /\ slot \in [Units -> SlotRec] /\ ses \in [Sessions -> SesRec]
  BY TypeParts DEF DeviceInv
<1>2. /\ thr[x].pc = "unmount" /\ x \in Mounters /\ x \notin Daemons
      /\ Unit(x) \in Units /\ slot[Unit(x)].mtx = Nobody
      /\ Data(x) \in Sessions /\ thr[x].d = Data(x) /\ Data(x) # NoData /\ HasMounted(x) /\ ses[Data(x)].mounted /\ thr[x].mnt
  <2>1. thr[x].pc = "unmount" /\ x \in Mounters /\ x \notin Daemons /\ slot[Unit(x)].mtx = Nobody
    BY Roles DEF UnmountLock, At, MtxFree
  <2> QED BY <1>1, <2>1, LabelFacts DEF DeviceInv, RoleOk, MounterOk, HasMounted, At
<1>3. /\ thr' \in [Threads -> ThreadRec] /\ \A z \in Threads \ {x} : thr'[z] = thr[z]
      /\ thr'[x].pc = "unlock" /\ thr'[x].ret = "idle"
      /\ thr'[x].u = thr[x].u /\ thr'[x].d = thr[x].d
      /\ thr'[x].mnt = thr[x].mnt /\ thr'[x].err = thr[x].err
  <2>1. thr' = [thr EXCEPT ![x] = [thr[x] EXCEPT !.pc = "unlock", !.ret = "idle"]]
    BY <1>1, <1>2 DEF UnmountLock, UnlockThen
  <2>2. [thr[x] EXCEPT !.pc = "unlock", !.ret = "idle"] \in ThreadRec
    BY <1>1, <1>2, ThreadFields, LabelFacts
  <2> QED BY <1>1, <2>1, <2>2, ThreadStep DEF ThreadRec
<1>4. [ses[thr[x].d] EXCEPT !.mounted = FALSE, !.biglock = Nobody] \in SesRec
  BY <1>1, <1>2, SessionFields
<1>5. /\ slot' \in [Units -> SlotRec] /\ ses' \in [Sessions -> SesRec]
      /\ slot'[Unit(x)].mtx = x /\ slot'[Unit(x)].usecount = slot[Unit(x)].usecount
      /\ \A v \in Units \ {Unit(x)} : slot'[v] = slot[v]
      /\ \A s \in Sessions \ {Data(x)} : ses'[s] = ses[s]
      /\ \/ /\ ses[Data(x)].opened /\ slot'[Unit(x)].data = Data(x)
            /\ ses'[Data(x)].opened /\ ses'[Data(x)].alloc = ses[Data(x)].alloc
            /\ ~ses'[Data(x)].mounted
            /\ ses'[Data(x)].dead = ses[Data(x)].dead
         \/ /\ ~ses[Data(x)].opened
            /\ ses'[Data(x)] = NoSession /\ slot'[Unit(x)].data = NoData
  <2>1. Leave(x, [ses[thr[x].d] EXCEPT !.mounted = FALSE, !.biglock = Nobody])
    BY <1>2 DEF UnmountLock
  <2> DEFINE r == [ses[thr[x].d] EXCEPT !.mounted = FALSE, !.biglock = Nobody]
  <2>2. /\ slot' \in [Units -> SlotRec] /\ ses' \in [Sessions -> SesRec]
        /\ slot'[Unit(x)].mtx = x /\ slot'[Unit(x)].usecount = slot[Unit(x)].usecount
        /\ \A v \in Units \ {Unit(x)} : slot'[v] = slot[v]
        /\ \A s \in Sessions \ {Data(x)} : ses'[s] = ses[s]
        /\ \/ (r.opened \/ r.mounted) /\ ses'[Data(x)] = r /\ slot'[Unit(x)].data = Data(x)
           \/ /\ ~r.opened /\ ~r.mounted
              /\ ses'[Data(x)] = NoSession /\ slot'[Unit(x)].data = NoData
    BY <1>1, <1>2, <1>4, <2>1, LeaveFacts DEF DeviceInv
  <2>3. /\ r.opened = ses[Data(x)].opened /\ r.mounted = FALSE
        /\ r.alloc = ses[Data(x)].alloc /\ r.dead = ses[Data(x)].dead
    BY <1>1, <1>2 DEF SesRec
  <2> HIDE DEF r
  <2> QED BY <2>2, <2>3
<1>6. /\ mpdata' \in [Mounters -> Sessions \cup {NoData}] /\ mpdata'[x] = NoData
      /\ \A m \in Mounters \ {x} : mpdata'[m] = mpdata[m]
  BY <1>2, TypeParts DEF DeviceInv, UnmountLock
<1>9. \A v \in Units \ {Unit(x)} :
          slot[v].data # NoData => /\ slot[v].data \in Sessions /\ slot[v].data # Data(x)
                                   /\ ses'[slot[v].data] = ses[slot[v].data]
  BY <1>1, <1>2, <1>5 DEF DeviceInv, SlotsOk, SlotRec, Data
<1>7. UNCHANGED <<cdev>>
  BY DEF UnmountLock
<1>8. TypeOK'
  <2>1. /\ fuse_device_mutex' \in Threads \cup {Nobody} /\ fuse_mount_count' \in Int
        /\ available' \in BOOLEAN /\ cdev' \in BOOLEAN /\ panic' \in Panics
    BY <1>2, TypeParts DEF DeviceInv, UnmountLock
  <2> QED BY <1>1, <1>2, <1>3, <1>5, <1>6, <1>7, <2>1, TypeParts, TypeNext DEF DeviceInv
<1>11. \A z \in Threads : RoleOk(z)'
  BY <1>1, <1>2, <1>3, <1>5, <1>6, <1>7 DEF DeviceInv, RoleOk, DaemonLabels, MounterLabels, OtherLabels, At, Unit, Threads
<1>12. \A z \in Threads : MutexOk(z)'
  BY <1>1, <1>2, <1>3, <1>5, <1>6, <1>7 DEF DeviceInv, RoleOk, MutexOk, At, Unit, Nobody, Freed
<1>13. SlotsOk'
  <2>1. \A v \in Units : slot'[v].data # NoData => slot'[v].data = slot[v].data
    BY <1>2, <1>5 DEF Data
  <2>2. slot'[Unit(x)].data # NoData => LET s == ses'[Data(x)] IN s.alloc /\ (s.opened \/ s.mounted)
    BY <1>2, <1>5 DEF DeviceInv, SlotsOk, Data
  <2>3. \A v \in Units : slot'[v].data # NoData =>
          LET s == ses'[slot'[v].data] IN s.alloc /\ (s.opened \/ s.mounted)
    BY <1>2, <1>5, <1>9, <2>1, <2>2 DEF DeviceInv, SlotsOk, Data
  <2>4. \A s \in Sessions : ~ses'[s].alloc => ses'[s] = NoSession
    BY <1>1, <1>2, <1>5 DEF DeviceInv, SlotsOk, Data
  <2> QED BY <2>1, <2>3, <2>4 DEF DeviceInv, SlotsOk
<1>14. StoppedOk'
  BY <1>1, <1>2, <1>3, <1>5, <1>6, <1>7 DEF DeviceInv, StoppedOk, Nobody, Freed
<1>15. CountOk'
  BY <1>1, <1>2, <1>3, <1>5, <1>6, <1>7 DEF DeviceInv, CountOk, Counted, RoleOk, At, Unit, Threads
<1>16. \A z \in Daemons : OpenOk(z)'
  <2> SUFFICES ASSUME NEW z \in Daemons, HasOpen(z)' PROVE OpenOk(z)'
    BY DEF OpenOk
  <2>1. z # x /\ z \in Threads /\ thr'[z] = thr[z] /\ HasOpen(z) /\ Unit(z) \in Units /\ OpenOk(z)
    BY <1>1, <1>2, <1>3, <1>5, <1>6, <1>7 DEF DeviceInv, HasOpen, RoleOk, At, Threads
  <2> QED BY <1>5, <1>9, <2>1 DEF OpenOk, HasOpen, At, Unit, Data
<1>17. SpareOk'
  <2>1. \A z \in Daemons : At(z, "busy")' => z # x /\ At(z, "busy") /\ thr'[z] = thr[z]
    BY <1>2, <1>3 DEF At, Threads
  <2>2. \A z \in Daemons : At(z, "busy") => thr[z].d # Data(x) /\ thr[z].d # NoData
    BY <1>2 DEF DeviceInv, SpareOk, Data
  <2>3. \A v \in Units : slot'[v].data # NoData => slot'[v].data = slot[v].data
    BY <1>2, <1>5 DEF Data
  <2>4. ASSUME NEW z \in Daemons, At(z, "busy")'
        PROVE  /\ thr'[z].d \in Sessions /\ ses'[thr'[z].d] = SpareSession
               /\ \A u \in Units : slot'[u].data # thr'[z].d
    BY <1>5, <2>1, <2>2, <2>3, <2>4 DEF DeviceInv, SpareOk
  <2>5. ASSUME NEW y \in Daemons, NEW z \in Daemons,
               At(y, "busy")', At(z, "busy")', thr'[y].d = thr'[z].d
        PROVE  y = z
    BY <2>1, <2>5 DEF DeviceInv, SpareOk
  <2> QED BY <2>4, <2>5 DEF SpareOk
<1>18. PlacedOk'
  <2> SUFFICES ASSUME NEW s \in Sessions, ses'[s].alloc
               PROVE  \/ \E u \in Units : slot'[u].data = s
                      \/ \E z \in Daemons : At(z, "busy")' /\ thr'[z].d = s
    BY DEF PlacedOk
  <2>1. CASE s = Data(x)
    BY <1>2, <1>5, <2>1, BlankFacts
  <2>2. CASE s # Data(x)
    <3>1. \/ \E u \in Units : slot[u].data = s
          \/ \E z \in Daemons : At(z, "busy") /\ thr[z].d = s
      BY <1>5, <2>2 DEF DeviceInv, PlacedOk
    <3>2. ASSUME NEW u \in Units, slot[u].data = s PROVE slot'[u].data = s
      BY <1>5, <2>2, <3>2 DEF Data
    <3>3. ASSUME NEW z \in Daemons, At(z, "busy") PROVE thr'[z] = thr[z] /\ At(z, "busy")'
      BY <1>2, <1>3, <3>3 DEF At, Threads
    <3> QED BY <3>1, <3>2, <3>3
  <2> QED BY <2>1, <2>2
<1>19. \A z \in Mounters : MounterOk(z)'
  <2> SUFFICES ASSUME NEW z \in Mounters PROVE MounterOk(z)'
    OBVIOUS
  <2>1. CASE z = x
    BY <1>1, <1>2, <1>3, <1>5, <1>6, <1>7, <2>1 DEF MounterOk, HasMounted, At
  <2>2. CASE z # x
    <3>1. z \in Threads /\ thr'[z] = thr[z] /\ mpdata'[z] = mpdata[z] /\ MounterOk(z)
      BY <1>1, <1>2, <1>3, <1>5, <1>6, <1>7, <2>2 DEF DeviceInv, Threads
    <3>2. At(z, "mtest") => Unit(z) # Unit(x) /\ Unit(z) \in Units
      BY <1>2, <3>1 DEF DeviceInv, MutexOk, RoleOk, At, Nobody
    <3>3. HasMounted(z) => Unit(z) \in Units
      BY <3>1 DEF DeviceInv, HasMounted, RoleOk, At
    <3>4. HasMounted(z) => Unit(z) # Unit(x)
      BY <1>2, <2>2, <3>1 DEF DeviceInv, AloneOk, MounterOk, Data
    <3> QED BY <1>2, <1>5, <1>9, <3>1, <3>2, <3>3, <3>4 DEF MounterOk, HasMounted, At, Unit, Data
  <2> QED BY <2>1, <2>2
<1>20. AloneOk'
  BY <1>1, <1>2, <1>3, <1>5, <1>6, <1>7 DEF DeviceInv, AloneOk, HasMounted, At, Threads
<1>21. DetachAt(Unit(x))
  BY <1>1, <1>2, <1>3, <1>5, <1>6, <1>7, BlankFacts, TypeParts DEF DeviceInv, SlotsOk, Elsewhere, DetachAt, Data, SlotRec
<1>22. CountDown(Data(x))
  BY <1>1, <1>2, <1>3, <1>5, <1>6, <1>7, BlankFacts DEF UnmountLock, CountDown, Data
<1>23. Seen /\ Count
  BY <1>2, <1>21, <1>22 DEF Seen, Count
<1> QED BY <1>8, <1>23, <1>11, <1>12, <1>13, <1>14, <1>15, <1>16, <1>17, <1>18, <1>19, <1>20 DEF DeviceInv

\* fuse_vfsop_mount marks the session mounted.
LEMMA MountStartInv ==
    ASSUME DeviceInv, NEW x \in Threads, MountStart(x)
    PROVE  DeviceInv' /\ Seen /\ Count
<1>1. /\ RoleOk(x) /\ MutexOk(x)
      /\ thr \in [Threads -> ThreadRec] /\ slot \in [Units -> SlotRec] /\ ses \in [Sessions -> SesRec]
  BY TypeParts DEF DeviceInv
<1>2. /\ thr[x].pc = "mtest" /\ x \in Mounters /\ x \notin Daemons
      /\ Unit(x) \in Units /\ slot[Unit(x)].mtx = x
      /\ Data(x) \in Sessions /\ thr[x].d = Data(x) /\ Data(x) # NoData
      /\ ~ses[Data(x)].mounted /\ ses[Data(x)].opened = TRUE
  <2>1. thr[x].pc = "mtest" /\ x \in Mounters /\ x \notin Daemons /\ ~ses[thr[x].d].mounted
    BY Roles DEF MountStart, At
  <2>2. /\ Unit(x) \in Units /\ slot[Unit(x)].mtx = x
        /\ thr[x].d = Data(x) /\ Data(x) # NoData
    BY <1>1, <2>1 DEF DeviceInv, RoleOk, MutexOk, MounterOk, At
  <2>3. Data(x) \in Sessions
    BY <1>1, <2>2 DEF Data, SlotRec
  <2>4. ses[Data(x)].opened
    BY <2>1, <2>2 DEF DeviceInv, SlotsOk, Data
  <2> QED BY <1>1, <2>1, <2>2, <2>3, <2>4 DEF SesRec
<1>3. /\ thr' \in [Threads -> ThreadRec] /\ \A z \in Threads \ {x} : thr'[z] = thr[z]
      /\ mpdata' \in [Mounters -> Sessions \cup {NoData}]
      /\ \A m \in Mounters \ {x} : mpdata'[m] = mpdata[m]
      /\ thr'[x].pc = "unlock" /\ thr'[x].u = thr[x].u /\ thr'[x].d = thr[x].d /\ thr'[x].mnt
      /\ \/ thr'[x].ret = "send" /\ mpdata'[x] = thr[x].d
         \/ thr'[x].ret = "out" /\ mpdata'[x] = NoData /\ thr'[x].err
  <2>1. PICK ok \in BOOLEAN :
          /\ mpdata' = [mpdata EXCEPT ![x] = IF ok THEN thr[x].d ELSE NoData]
          /\ thr' = [thr EXCEPT ![x] = [thr[x] EXCEPT !.pc = "unlock",
                        !.ret = IF ok THEN "send" ELSE "out", !.mnt = TRUE, !.err = ~ok]]
    BY <1>1, <1>2 DEF MountStart
  <2> DEFINE r == [thr[x] EXCEPT !.pc = "unlock", !.ret = IF ok THEN "send" ELSE "out",
                                 !.mnt = TRUE, !.err = ~ok]
  <2>2. (IF ok THEN "send" ELSE "out") \in Labels
    BY LabelFacts
  <2>3. r \in ThreadRec
    BY <1>1, <2>2, ThreadFields, LabelFacts
  <2>4. /\ thr' \in [Threads -> ThreadRec] /\ \A z \in Threads \ {x} : thr'[z] = thr[z]
        /\ thr'[x] = r
    BY <1>1, <2>1, <2>3, ThreadStep
  <2>5. /\ thr'[x].pc = "unlock" /\ thr'[x].u = thr[x].u /\ thr'[x].d = thr[x].d /\ thr'[x].mnt
        /\ thr'[x].ret = (IF ok THEN "send" ELSE "out") /\ thr'[x].err = ~ok
    BY <1>1, <2>4 DEF ThreadRec
  <2>6. /\ mpdata' \in [Mounters -> Sessions \cup {NoData}]
        /\ \A m \in Mounters \ {x} : mpdata'[m] = mpdata[m]
        /\ mpdata'[x] = IF ok THEN thr[x].d ELSE NoData
    BY <1>2, <2>1, TypeParts DEF DeviceInv
  <2> QED BY <2>4, <2>5, <2>6
<1>5. /\ ses' \in [Sessions -> SesRec] /\ \A s \in Sessions \ {thr[x].d} : ses'[s] = ses[s]
      /\ ses'[thr[x].d].mounted /\ ses'[thr[x].d].opened = ses[thr[x].d].opened
      /\ ses'[thr[x].d].alloc = ses[thr[x].d].alloc /\ ses'[thr[x].d].dead = ses[thr[x].d].dead
  <2> DEFINE r == [ses[thr[x].d] EXCEPT !.mounted = TRUE,
                                        !.biglock = IF Biglock THEN x ELSE ses[thr[x].d].biglock]
  <2>1. ses' = [ses EXCEPT ![thr[x].d] = r]
    BY <1>1, <1>2 DEF MountStart, Data
  <2>2. (IF Biglock THEN x ELSE ses[thr[x].d].biglock) \in Threads \cup {Nobody}
    BY <1>1, <1>2 DEF SesRec
  <2>3. r \in SesRec
    BY <1>1, <1>2, <2>2, SessionFields
  <2> QED BY <1>1, <1>2, <2>1, <2>3, SessionStep DEF SesRec
<1>7. UNCHANGED <<cdev, slot>>
  BY DEF MountStart
<1>8. TypeOK'
  <2>1. /\ fuse_device_mutex' \in Threads \cup {Nobody} /\ fuse_mount_count' \in Int
        /\ available' \in BOOLEAN /\ cdev' \in BOOLEAN /\ panic' \in Panics
    BY <1>2, TypeParts DEF DeviceInv, MountStart
  <2> QED BY <1>1, <1>2, <1>3, <1>5, <1>7, <2>1, TypeParts, TypeNext DEF DeviceInv
<1>11. \A z \in Threads : RoleOk(z)'
  BY <1>1, <1>2, <1>3, <1>5, <1>7 DEF DeviceInv, RoleOk, DaemonLabels, MounterLabels, OtherLabels, At, Unit, Threads
<1>12. \A z \in Threads : MutexOk(z)'
  BY <1>1, <1>2, <1>3, <1>5, <1>7 DEF DeviceInv, RoleOk, MutexOk, At, Unit, Nobody, Freed
<1>13. SlotsOk'
  <2>1. \A s \in Sessions : /\ ses'[s].alloc = ses[s].alloc /\ ses'[s].opened = ses[s].opened
                            /\ ses[s].mounted => ses'[s].mounted
    BY <1>2, <1>5
  <2>2. \A u \in Units : slot[u].data # NoData => slot[u].data \in Sessions
    BY <1>1 DEF SlotRec
  <2>3. ses[thr[x].d].alloc
    BY <1>2 DEF DeviceInv, SlotsOk, Data
  <2>4. \A s \in Sessions : ~ses'[s].alloc => ses'[s] = NoSession
    BY <1>2, <1>5, <2>3 DEF DeviceInv, SlotsOk
  <2> QED BY <1>7, <2>1, <2>2, <2>4 DEF DeviceInv, SlotsOk
<1>14. StoppedOk'
  BY <1>1, <1>2, <1>3, <1>5, <1>7 DEF DeviceInv, StoppedOk, Nobody, Freed
<1>15. CountOk'
  BY <1>1, <1>2, <1>3, <1>5, <1>7 DEF DeviceInv, CountOk, Counted, RoleOk, At, Unit, Threads
<1>16. \A z \in Daemons : OpenOk(z)'
  <2> SUFFICES ASSUME NEW z \in Daemons, HasOpen(z)' PROVE OpenOk(z)'
    BY DEF OpenOk
  <2>1. z # x /\ z \in Threads /\ thr'[z] = thr[z]
    BY <1>2, <1>3 DEF HasOpen, At, Threads
  <2>2. HasOpen(z) /\ Unit(z) \in Units /\ OpenOk(z)
    BY <2>1 DEF DeviceInv, HasOpen, RoleOk, At
  <2>3. Unit(z)' = Unit(z) /\ Data(z)' = Data(z)
    BY <1>7, <2>1, <2>2 DEF Unit, Data
  <2> QED BY <1>5, <2>1, <2>2, <2>3 DEF OpenOk, At
<1>17. SpareOk'
  <2>1. \A z \in Daemons : At(z, "busy")' => z # x /\ At(z, "busy") /\ thr'[z] = thr[z]
    BY <1>2, <1>3 DEF At, Threads
  <2>2. \A z \in Daemons : At(z, "busy") => thr[z].d # thr[x].d
    BY <1>2 DEF DeviceInv, SpareOk, Data
  <2>3. ASSUME NEW z \in Daemons, At(z, "busy")'
        PROVE  /\ thr'[z].d \in Sessions /\ ses'[thr'[z].d] = SpareSession
               /\ \A u \in Units : slot'[u].data # thr'[z].d
    BY <1>5, <1>7, <2>1, <2>2, <2>3 DEF DeviceInv, SpareOk
  <2>4. ASSUME NEW y \in Daemons, NEW z \in Daemons,
               At(y, "busy")', At(z, "busy")', thr'[y].d = thr'[z].d
        PROVE  y = z
    BY <2>1, <2>4 DEF DeviceInv, SpareOk
  <2> QED BY <2>3, <2>4 DEF SpareOk
<1>18. PlacedOk'
  BY <1>1, <1>2, <1>3, <1>5, <1>7 DEF DeviceInv, PlacedOk, At, Threads
<1>19. \A z \in Mounters : MounterOk(z)'
  BY <1>1, <1>2, <1>3, <1>5, <1>7 DEF DeviceInv, MounterOk, HasMounted, RoleOk, At, Unit, Data, Threads
<1>20. AloneOk'
  <2>1. \A z \in Mounters : z # x => /\ thr'[z] = thr[z]
                                     /\ HasMounted(z)' => HasMounted(z) /\ thr[z].d # thr[x].d
    BY <1>2, <1>3 DEF DeviceInv, MounterOk, HasMounted, At, Threads
  <2> QED BY <1>3, <2>1 DEF DeviceInv, AloneOk
<1>21. AttachAt(Unit(x))
  BY <1>1, <1>2, <1>3, <1>5, <1>7, BlankFacts, TypeParts DEF DeviceInv, SlotsOk, Elsewhere, AttachAt, Data, SlotRec
<1>22. CountUp(Data(x))
  BY <1>1, <1>2, <1>3, <1>5, <1>7, BlankFacts DEF MountStart, CountUp, Data
<1>23. Seen /\ Count
  BY <1>2, <1>21, <1>22 DEF Seen, Count
<1> QED BY <1>8, <1>23, <1>11, <1>12, <1>13, <1>14, <1>15, <1>16, <1>17, <1>18, <1>19, <1>20 DEF DeviceInv

\* fuse_devices_stop destroys the mutexes of unused slots.
LEMMA StopDoneInv ==
    ASSUME DeviceInv, NEW x \in Threads, StopDone(x)
    PROVE  DeviceInv' /\ Seen /\ Count
<1>1. /\ RoleOk(x) /\ MutexOk(x)
      /\ thr \in [Threads -> ThreadRec] /\ slot \in [Units -> SlotRec] /\ ses \in [Sessions -> SesRec]
  BY TypeParts DEF DeviceInv
<1>2. /\ thr[x].pc = "stop" /\ x \notin Daemons /\ x \notin Mounters
      /\ \A u \in Units : slot[u].usecount = 0 /\ slot[u].data = NoData
  BY Roles DEF StopDone, At, InUse
<1>3. /\ thr' \in [Threads -> ThreadRec] /\ \A z \in Threads \ {x} : thr'[z] = thr[z]
      /\ thr'[x].pc = "idle" /\ thr'[x].ret = "idle"
  <2>1. thr' = [thr EXCEPT ![x] = IdleThread]
    BY <1>1, <1>2 DEF StopDone
  <2> QED BY <1>1, <2>1, ThreadStep, BlankTypes DEF IdleThread
<1>4. /\ slot' \in [Units -> SlotRec]
      /\ \A u \in Units : /\ slot'[u].usecount = 0 /\ slot'[u].data = NoData
                          /\ slot'[u].mtx = Freed
  <2>1. slot' = [u \in Units |-> [slot[u] EXCEPT !.mtx = Freed]]
    BY DEF StopDone
  <2>2. \A u \in Units : [slot[u] EXCEPT !.mtx = Freed] \in SlotRec
    BY <1>1, SlotFields
  <2> QED BY <1>1, <1>2, <2>1, <2>2 DEF SlotRec
<1>7. UNCHANGED <<mpdata, ses>>
  BY DEF StopDone
<1>8. TypeOK'
  <2>1. /\ fuse_device_mutex' \in Threads \cup {Nobody} /\ fuse_mount_count' \in Int
        /\ available' \in BOOLEAN /\ cdev' \in BOOLEAN /\ panic' \in Panics
    BY <1>2, TypeParts DEF DeviceInv, StopDone
  <2> QED BY <1>1, <1>2, <1>3, <1>4, <1>7, <2>1, TypeParts, TypeNext DEF DeviceInv
<1>11. \A z \in Threads : RoleOk(z)'
  BY <1>1, <1>2, <1>3, <1>4, <1>7 DEF DeviceInv, RoleOk, DaemonLabels, MounterLabels, OtherLabels, At, Unit, Threads
<1>12. \A z \in Threads : MutexOk(z)'
  <2> SUFFICES ASSUME NEW z \in Threads, z # x PROVE MutexOk(z)'
    BY <1>3 DEF MutexOk, At
  <2>1. thr'[z] = thr[z] /\ RoleOk(z)
    BY <1>3 DEF DeviceInv
  <2>2. thr[z].pc \notin {"alloc", "busy"}
    BY <1>2, <2>1, Roles DEF DeviceInv, CountOk, Counted, RoleOk
  <2>3. thr[z].pc # "mtest"
    BY <1>2, <2>1, Roles DEF DeviceInv, MounterOk, RoleOk, At, Data
  <2>4. At(z, "unlock") => Unit(z) \in Units
    BY <2>1 DEF RoleOk, At
  <2> QED BY <1>4, <2>1, <2>2, <2>3, <2>4 DEF MutexOk, At, Unit
<1>13. SlotsOk'
  BY <1>1, <1>2, <1>3, <1>4, <1>7 DEF DeviceInv, SlotsOk, Data, Unit
<1>14. StoppedOk'
  BY <1>1, <1>2, <1>3, <1>4, <1>7 DEF DeviceInv, StoppedOk, Nobody, Freed
<1>15. CountOk'
  BY <1>1, <1>2, <1>3, <1>4, <1>7 DEF DeviceInv, CountOk, Counted, RoleOk, At, Unit, Threads
<1>16. \A z \in Daemons : OpenOk(z)'
  BY <1>1, <1>2, <1>3, <1>4, <1>7 DEF DeviceInv, OpenOk, HasOpen, RoleOk, At, Unit, Data, Threads
<1>17. SpareOk'
  BY <1>1, <1>2, <1>3, <1>4, <1>7 DEF DeviceInv, SpareOk, At, Threads
<1>18. PlacedOk'
  BY <1>1, <1>2, <1>3, <1>4, <1>7 DEF DeviceInv, PlacedOk, At, Threads
<1>19. \A z \in Mounters : MounterOk(z)'
  BY <1>1, <1>2, <1>3, <1>4, <1>7 DEF DeviceInv, MounterOk, HasMounted, RoleOk, At, Unit, Data, Threads
<1>20. AloneOk'
  BY <1>1, <1>2, <1>3, <1>4, <1>7 DEF DeviceInv, AloneOk, HasMounted, At, Threads
<1>21. UnloadAt
  BY <1>2, <1>4 DEF UnloadAt, StopDone
<1>22. CountSame
  BY <1>1, <1>2, <1>3, <1>4, <1>7, BlankFacts DEF StopDone, CountSame, Data
<1>23. Seen /\ Count
  BY <1>2, <1>21, <1>22 DEF Seen, Count
<1> QED BY <1>8, <1>23, <1>11, <1>12, <1>13, <1>14, <1>15, <1>16, <1>17, <1>18, <1>19, <1>20 DEF DeviceInv

\* fuse_device_open puts a new session into an empty slot.
LEMMA OpenNewInv ==
    ASSUME DeviceInv, NEW x \in Threads, NEW s \in Sessions, OpenAlloc(x, s), Data(x) = NoData
    PROVE  DeviceInv' /\ Seen /\ Count
<1>1. /\ RoleOk(x) /\ MutexOk(x)
      /\ thr \in [Threads -> ThreadRec] /\ slot \in [Units -> SlotRec] /\ ses \in [Sessions -> SesRec]
  BY TypeParts DEF DeviceInv
<1>2. /\ thr[x].pc = "alloc" /\ x \in Daemons /\ x \notin Mounters /\ s # NoData
      /\ Unit(x) \in Units /\ slot[Unit(x)].mtx = x /\ slot[Unit(x)].data = NoData /\ ~ses[s].alloc
  <2>1. thr[x].pc = "alloc" /\ x \in Daemons /\ x \notin Mounters /\ ~ses[s].alloc
    BY Roles DEF OpenAlloc, At
  <2> QED BY <1>1, <2>1 DEF DeviceInv, RoleOk, MutexOk, At, Data
<1>3. /\ thr' \in [Threads -> ThreadRec] /\ \A z \in Threads \ {x} : thr'[z] = thr[z]
      /\ thr'[x].pc = "unlock" /\ thr'[x].ret = "opened" /\ thr'[x].u = thr[x].u
  <2>1. thr' = [thr EXCEPT ![x] = [thr[x] EXCEPT !.pc = "unlock", !.ret = "opened"]]
    BY <1>1 DEF OpenAlloc
  <2>2. [thr[x] EXCEPT !.pc = "unlock", !.ret = "opened"] \in ThreadRec
    BY <1>1, ThreadFields, LabelFacts
  <2> QED BY <1>1, <2>1, <2>2, ThreadStep DEF ThreadRec
<1>4. /\ slot' \in [Units -> SlotRec] /\ \A v \in Units \ {Unit(x)} : slot'[v] = slot[v]
      /\ slot'[Unit(x)].data = s /\ slot'[Unit(x)].mtx = x
      /\ slot'[Unit(x)].usecount = slot[Unit(x)].usecount
  <2> DEFINE w == [slot[Unit(x)] EXCEPT !.data = s]
  <2>1. slot' = [slot EXCEPT ![Unit(x)] = w]
    BY <1>1, <1>2 DEF OpenAlloc
  <2>2. w \in SlotRec
    BY <1>1, <1>2, SlotFields
  <2> QED BY <1>1, <1>2, <2>1, <2>2, SlotStep DEF SlotRec
<1>5. /\ ses' \in [Sessions -> SesRec] /\ \A d \in Sessions \ {s} : ses'[d] = ses[d]
      /\ ses'[s].alloc /\ ses'[s].opened /\ ~ses'[s].mounted /\ ~ses'[s].dead
  <2> DEFINE r == [NoSession EXCEPT !.alloc = TRUE, !.opened = TRUE]
  <2>1. ses' = [ses EXCEPT ![s] = r]
    BY DEF OpenAlloc
  <2>2. r \in SesRec /\ r.alloc /\ r.opened /\ ~r.mounted /\ ~r.dead
    BY DEF NoSession, SesRec
  <2> HIDE DEF r
  <2> QED BY <1>1, <2>1, <2>2, SessionStep
<1>6. \A v \in Units : slot[v].data # s
  BY <1>2 DEF DeviceInv, SlotsOk
<1>7. UNCHANGED <<mpdata, cdev>>
  BY DEF OpenAlloc
<1>8. TypeOK'
  <2>1. /\ fuse_device_mutex' \in Threads \cup {Nobody} /\ fuse_mount_count' \in Int
        /\ available' \in BOOLEAN /\ panic' \in Panics
    BY TypeParts DEF DeviceInv, OpenAlloc
  <2> QED BY <1>3, <1>4, <1>5, <1>7, <2>1, TypeParts, TypeNext DEF DeviceInv
<1>9. \A v \in Units \ {Unit(x)} :
          slot[v].data # NoData => /\ slot[v].data \in Sessions
                                   /\ ses'[slot[v].data] = ses[slot[v].data]
  BY <1>1, <1>5, <1>6 DEF SlotRec
<1>11. \A z \in Threads : RoleOk(z)'
  BY <1>1, <1>2, <1>3 DEF DeviceInv, RoleOk, DaemonLabels, MounterLabels, OtherLabels, At, Unit, Threads
<1>12. \A z \in Threads : MutexOk(z)'
  BY <1>1, <1>2, <1>3, <1>4 DEF DeviceInv, RoleOk, MutexOk, At, Unit, Nobody, Freed
<1>13. SlotsOk'
  <2>1. \A v \in Units : slot'[v].data # NoData =>
          LET q == ses'[slot'[v].data] IN q.alloc /\ (q.opened \/ q.mounted)
    BY <1>4, <1>5, <1>9 DEF DeviceInv, SlotsOk
  <2>2. \A d \in Sessions : ~ses'[d].alloc => ses'[d] = NoSession
    BY <1>5 DEF DeviceInv, SlotsOk
  <2>3. \A v, w \in Units : slot'[v].data = slot'[w].data /\ slot'[v].data # NoData => v = w
    BY <1>4, <1>6 DEF DeviceInv, SlotsOk
  <2> QED BY <2>1, <2>2, <2>3 DEF SlotsOk
<1>14. StoppedOk'
  BY <1>1, <1>2, <1>4, <1>7 DEF DeviceInv, StoppedOk, Nobody, Freed
<1>15. CountOk'
  BY <1>1, <1>2, <1>3, <1>4 DEF DeviceInv, CountOk, Counted, RoleOk, At, Unit, Threads
<1>16. \A z \in Daemons : OpenOk(z)'
  <2> SUFFICES ASSUME NEW z \in Daemons, HasOpen(z)' PROVE OpenOk(z)'
    BY DEF OpenOk
  <2>1. CASE z = x
    BY <1>3, <1>4, <1>5, <2>1 DEF OpenOk, At, Unit, Data
  <2>2. CASE z # x
    <3>1. z \in Threads /\ thr'[z] = thr[z] /\ HasOpen(z) /\ Unit(z) \in Units /\ OpenOk(z)
      BY <1>3, <2>2 DEF DeviceInv, HasOpen, RoleOk, At, Threads
    <3>2. Unit(z) # Unit(x)
      BY <1>2, <2>2, <3>1 DEF DeviceInv, CountOk, Counted, HasOpen, At
    <3> QED BY <1>4, <1>9, <3>1, <3>2 DEF OpenOk, At, Unit, Data
  <2> QED BY <2>1, <2>2
<1>17. SpareOk'
  <2>1. \A z \in Daemons : At(z, "busy")' => z # x /\ At(z, "busy") /\ thr'[z] = thr[z]
    BY <1>2, <1>3 DEF At, Threads
  <2>2. \A z \in Daemons : At(z, "busy") => thr[z].d # s
    BY <1>2, BlankFacts DEF DeviceInv, SpareOk
  <2>3. ASSUME NEW z \in Daemons, At(z, "busy")'
        PROVE  /\ thr'[z].d \in Sessions /\ ses'[thr'[z].d] = SpareSession
               /\ \A u \in Units : slot'[u].data # thr'[z].d
    BY <1>4, <1>5, <2>1, <2>2, <2>3 DEF DeviceInv, SpareOk
  <2>4. ASSUME NEW y \in Daemons, NEW z \in Daemons,
               At(y, "busy")', At(z, "busy")', thr'[y].d = thr'[z].d
        PROVE  y = z
    BY <2>1, <2>4 DEF DeviceInv, SpareOk
  <2> QED BY <2>3, <2>4 DEF SpareOk
<1>18. PlacedOk'
  <2> SUFFICES ASSUME NEW d \in Sessions, ses'[d].alloc
               PROVE  \/ \E u \in Units : slot'[u].data = d
                      \/ \E z \in Daemons : At(z, "busy")' /\ thr'[z].d = d
    BY DEF PlacedOk
  <2>1. CASE d = s
    BY <1>2, <1>4, <2>1
  <2>2. CASE d # s
    <3>1. \/ \E u \in Units : slot[u].data = d
          \/ \E z \in Daemons : At(z, "busy") /\ thr[z].d = d
      BY <1>5, <2>2 DEF DeviceInv, PlacedOk
    <3>2. ASSUME NEW u \in Units, slot[u].data = d PROVE slot'[u].data = d
      BY <1>2, <1>4, <3>2
    <3>3. ASSUME NEW z \in Daemons, At(z, "busy") PROVE thr'[z] = thr[z] /\ At(z, "busy")'
      BY <1>2, <1>3, <3>3 DEF At, Threads
    <3> QED BY <3>1, <3>2, <3>3
  <2> QED BY <2>1, <2>2
<1>19. \A z \in Mounters : MounterOk(z)'
  <2> SUFFICES ASSUME NEW z \in Mounters PROVE MounterOk(z)'
    OBVIOUS
  <2>1. z # x /\ z \in Threads /\ thr'[z] = thr[z] /\ mpdata'[z] = mpdata[z] /\ MounterOk(z)
    BY <1>2, <1>3, <1>7 DEF DeviceInv, Threads
  <2>2. At(z, "mtest") => Unit(z) # Unit(x) /\ Unit(z) \in Units
    BY <1>2, <2>1 DEF DeviceInv, MutexOk, RoleOk, At
  <2>3. HasMounted(z) => Unit(z) # Unit(x) /\ Unit(z) \in Units
    BY <1>2, <2>1 DEF DeviceInv, HasMounted, MounterOk, RoleOk, At, Data
  <2> QED BY <1>4, <1>9, <2>1, <2>2, <2>3 DEF MounterOk, HasMounted, At, Unit, Data
<1>20. AloneOk'
  BY <1>2, <1>3 DEF DeviceInv, AloneOk, HasMounted, At, Threads
<1>21. BornAt(Unit(x))
  BY <1>1, <1>2, <1>4, <1>5, <1>7, <1>9 DEF DeviceInv, StoppedOk, Elsewhere, BornAt, Freed
<1>22. CountSame
  <2>1. ses[s].mounted = FALSE /\ ses'[s].mounted = FALSE
    BY <1>2, <1>5, BlankFacts DEF DeviceInv, SlotsOk, SesRec
  <2> QED BY <1>5, <2>1 DEF OpenAlloc, CountSame
<1>23. Seen /\ Count
  BY <1>2, <1>21, <1>22 DEF Seen, Count
<1> QED BY <1>8, <1>23, <1>11, <1>12, <1>13, <1>14, <1>15, <1>16, <1>17, <1>18, <1>19, <1>20 DEF DeviceInv

\* fuse_device_open finds the slot taken by a lingering mount.
LEMMA OpenSpareInv ==
    ASSUME DeviceInv, NEW x \in Threads, NEW s \in Sessions, OpenAlloc(x, s), Data(x) # NoData
    PROVE  DeviceInv' /\ Seen /\ Count
<1>1. /\ RoleOk(x) /\ MutexOk(x)
      /\ thr \in [Threads -> ThreadRec] /\ slot \in [Units -> SlotRec] /\ ses \in [Sessions -> SesRec]
  BY TypeParts DEF DeviceInv
<1>2. /\ thr[x].pc = "alloc" /\ x \in Daemons /\ x \notin Mounters /\ s # NoData
      /\ Unit(x) \in Units /\ slot[Unit(x)].mtx = x /\ ses[s] = NoSession
  <2>1. thr[x].pc = "alloc" /\ x \in Daemons /\ x \notin Mounters /\ ~ses[s].alloc
    BY Roles DEF OpenAlloc, At
  <2> QED BY <1>1, <2>1 DEF DeviceInv, RoleOk, MutexOk, SlotsOk, At
<1>3. /\ thr' \in [Threads -> ThreadRec] /\ \A z \in Threads \ {x} : thr'[z] = thr[z]
      /\ thr'[x].pc = "busy" /\ thr'[x].d = s /\ thr'[x].u = thr[x].u /\ thr'[x].ret = thr[x].ret
  <2>1. thr' = [thr EXCEPT ![x] = [thr[x] EXCEPT !.pc = "busy", !.d = s]]
    BY <1>1 DEF OpenAlloc
  <2>2. [thr[x] EXCEPT !.pc = "busy", !.d = s] \in ThreadRec
    BY <1>1, ThreadFields, LabelFacts
  <2> QED BY <1>1, <2>1, <2>2, ThreadStep DEF ThreadRec
<1>5. /\ ses' \in [Sessions -> SesRec] /\ \A d \in Sessions \ {s} : ses'[d] = ses[d]
      /\ ses'[s] = SpareSession
  <2>1. ses' = [ses EXCEPT ![s] = SpareSession]
    BY <1>1, <1>2 DEF OpenAlloc, SpareSession
  <2>2. SpareSession \in SesRec
    BY BlankTypes, SessionFields DEF SpareSession
  <2> QED BY <1>1, <2>1, <2>2, SessionStep
<1>6. \A v \in Units : slot[v].data # s
  BY <1>2, BlankFacts DEF DeviceInv, SlotsOk
<1>7. UNCHANGED <<mpdata, cdev, slot>>
  BY DEF OpenAlloc
<1>8. TypeOK'
  <2>1. /\ fuse_device_mutex' \in Threads \cup {Nobody} /\ fuse_mount_count' \in Int
        /\ available' \in BOOLEAN /\ panic' \in Panics
    BY TypeParts DEF DeviceInv, OpenAlloc
  <2> QED BY <1>3, <1>5, <1>7, <2>1, TypeParts, TypeNext DEF DeviceInv
<1>9. \A v \in Units :
          slot[v].data # NoData => /\ slot[v].data \in Sessions
                                   /\ ses'[slot[v].data] = ses[slot[v].data]
  BY <1>1, <1>5, <1>6 DEF SlotRec
<1>11. \A z \in Threads : RoleOk(z)'
  BY <1>1, <1>2, <1>3 DEF DeviceInv, RoleOk, DaemonLabels, MounterLabels, OtherLabels, At, Unit, Threads
<1>12. \A z \in Threads : MutexOk(z)'
  BY <1>1, <1>2, <1>3, <1>7 DEF DeviceInv, RoleOk, MutexOk, At, Unit
<1>13. SlotsOk'
  <2>1. \A d \in Sessions : ~ses'[d].alloc => ses'[d] = NoSession
    BY <1>5, BlankFacts DEF DeviceInv, SlotsOk
  <2> QED BY <1>7, <1>9, <2>1 DEF DeviceInv, SlotsOk
<1>14. StoppedOk'
  BY <1>7 DEF DeviceInv, StoppedOk
<1>15. CountOk'
  BY <1>1, <1>2, <1>3, <1>7 DEF DeviceInv, CountOk, Counted, RoleOk, At, Unit, Threads
<1>16. \A z \in Daemons : OpenOk(z)'
  <2> SUFFICES ASSUME NEW z \in Daemons, HasOpen(z)' PROVE OpenOk(z)'
    BY DEF OpenOk
  <2>1. z # x /\ z \in Threads /\ thr'[z] = thr[z] /\ HasOpen(z) /\ Unit(z) \in Units /\ OpenOk(z)
    BY <1>3 DEF DeviceInv, HasOpen, RoleOk, At, Threads
  <2> QED BY <1>7, <1>9, <2>1 DEF OpenOk, At, Unit, Data
<1>17. SpareOk'
  <2>1. \A z \in Daemons \ {x} : thr'[z] = thr[z] /\ (At(z, "busy")' => At(z, "busy"))
    BY <1>3 DEF At, Threads
  <2>2. \A z \in Daemons : At(z, "busy") => thr[z].d # s
    BY <1>2, BlankFacts DEF DeviceInv, SpareOk
  <2>3. ASSUME NEW z \in Daemons, At(z, "busy")'
        PROVE  /\ thr'[z].d \in Sessions /\ ses'[thr'[z].d] = SpareSession
               /\ \A u \in Units : slot'[u].data # thr'[z].d
    BY <1>3, <1>5, <1>6, <1>7, <2>1, <2>2, <2>3 DEF DeviceInv, SpareOk
  <2>4. ASSUME NEW y \in Daemons, NEW z \in Daemons,
               At(y, "busy")', At(z, "busy")', thr'[y].d = thr'[z].d
        PROVE  y = z
    BY <1>3, <2>1, <2>2, <2>4 DEF DeviceInv, SpareOk
  <2> QED BY <2>3, <2>4 DEF SpareOk
<1>18. PlacedOk'
  <2> SUFFICES ASSUME NEW d \in Sessions, ses'[d].alloc
               PROVE  \/ \E u \in Units : slot'[u].data = d
                      \/ \E z \in Daemons : At(z, "busy")' /\ thr'[z].d = d
    BY DEF PlacedOk
  <2>1. CASE d = s
    BY <1>2, <1>3, <2>1 DEF At
  <2>2. CASE d # s
    <3>1. \/ \E u \in Units : slot[u].data = d
          \/ \E z \in Daemons : At(z, "busy") /\ thr[z].d = d
      BY <1>5, <2>2 DEF DeviceInv, PlacedOk
    <3>2. ASSUME NEW z \in Daemons, At(z, "busy") PROVE thr'[z] = thr[z] /\ At(z, "busy")'
      BY <1>2, <1>3, <3>2 DEF At, Threads
    <3> QED BY <1>7, <3>1, <3>2
  <2> QED BY <2>1, <2>2
<1>19. \A z \in Mounters : MounterOk(z)'
  <2> SUFFICES ASSUME NEW z \in Mounters PROVE MounterOk(z)'
    OBVIOUS
  <2>1. z \in Threads /\ thr'[z] = thr[z] /\ mpdata'[z] = mpdata[z] /\ MounterOk(z)
    BY <1>2, <1>3, <1>7 DEF DeviceInv, Threads
  <2>2. HasMounted(z) => Unit(z) \in Units
    BY <2>1 DEF DeviceInv, HasMounted, RoleOk, At
  <2> QED BY <1>7, <1>9, <2>1, <2>2 DEF MounterOk, HasMounted, At, Unit, Data
<1>20. AloneOk'
  BY <1>2, <1>3 DEF DeviceInv, AloneOk, HasMounted, At, Threads
<1>21. RestAt
  BY <1>7, <1>9 DEF RestAt
<1>22. CountSame
  <2>1. ses[s].mounted = FALSE /\ ses'[s].mounted = FALSE
    BY <1>2, <1>5, BlankFacts
  <2> QED BY <1>5, <2>1 DEF OpenAlloc, CountSame
<1>23. Seen /\ Count
  BY <1>2, <1>21, <1>22 DEF Seen, Count
<1> QED BY <1>8, <1>23, <1>11, <1>12, <1>13, <1>14, <1>15, <1>16, <1>17, <1>18, <1>19, <1>20 DEF DeviceInv

-----------------------------------------------------------------------------

\* The driver starts in order.
LEMMA InitInv == Init => DeviceInv
<1> SUFFICES ASSUME Init PROVE DeviceInv
  OBVIOUS
<1>1. TypeOK
  <2>1. [usecount |-> 0, data |-> NoData, mtx |-> Nobody] \in SlotRec
    BY DEF SlotRec
  <2> QED BY <2>1, BlankTypes, TypeParts DEF Init, Panics
<1>2. \A x \in Threads : thr[x].pc = "idle" /\ thr[x].ret = "idle"
  BY DEF Init, IdleThread
<1>3. \A x \in Threads : RoleOk(x) /\ MutexOk(x)
  BY <1>2 DEF RoleOk, MutexOk, DaemonLabels, MounterLabels, OtherLabels, At
<1>4. \A u \in Units : slot[u].data = NoData /\ slot[u].mtx = Nobody
  BY DEF Init
<1>5. SlotsOk /\ StoppedOk
  BY <1>4 DEF Init, SlotsOk, StoppedOk, Nobody, Freed
<1>6. CountOk /\ \A x \in Daemons : OpenOk(x)
  BY <1>2 DEF CountOk, Counted, OpenOk, HasOpen, At, Threads
<1>7. SpareOk /\ PlacedOk
  BY <1>2, BlankFacts DEF Init, SpareOk, PlacedOk, At, Threads
<1>8. AloneOk /\ \A x \in Mounters : MounterOk(x)
  BY <1>2 DEF Init, AloneOk, MounterOk, HasMounted, At, Threads
<1> QED BY <1>1, <1>3, <1>5, <1>6, <1>7, <1>8 DEF DeviceInv

\* Every step keeps the invariant and shows FuseSession one of its steps.
LEMMA NextInv == DeviceInv /\ [Next]_vars => DeviceInv' /\ Seen /\ Count
<1> SUFFICES ASSUME DeviceInv, [Next]_vars PROVE DeviceInv' /\ Seen /\ Count
  OBVIOUS
<1>1. CASE UNCHANGED vars
  <2>1. TypeOK'
    BY <1>1, TypeParts, TypeNext DEF DeviceInv, vars
  <2> QED BY <1>1, <2>1, ThreadsRest DEF vars
<1>2. ASSUME NEW x \in Threads, Begin(x) PROVE DeviceInv' /\ Seen /\ Count
  BY <1>2, CloseInv, OpenInv, UnmountInv, MountInv, KillInv, StopInv DEF Begin
<1>3. ASSUME NEW x \in Threads, NEW s \in Sessions, OpenAlloc(x, s) PROVE DeviceInv' /\ Seen /\ Count
  BY <1>3, OpenNewInv, OpenSpareInv
<1>4. ASSUME NEW x \in Threads, Step(x) PROVE DeviceInv' /\ Seen /\ Count
  BY <1>3, <1>4, UnlockInv, FreedMutexInv, OpenInUseInv, OpenUseInv, OpenLockInv, OpenBusyInv,
     CloseLockInv, CloseCountInv, MountLockInv, MountAlreadyInv, MountStartInv, MountSendInv,
     MountAnswerInv, MountOutInv, MountTailInv, MountTailOtherInv, UnmountBusyInv, UnmountKillInv,
     UnmountLockInv, KillLockInv, StopRefusedInv, StopDoneInv DEF Step
<1> QED BY <1>1, <1>2, <1>4 DEF Next

\* The invariant holds in every reachable state of any number of slots, sessions
\* and threads.
THEOREM DeviceCorrect == Spec => []DeviceInv
<1>1. DeviceInv /\ [Next]_vars => DeviceInv'
  BY NextInv
<1> QED BY <1>1, InitInv, PTL DEF Spec

\* Every field of every slot, session and thread keeps its type: the use count of
\* a slot never leaves 0 .. 1.
THEOREM DeviceTypes == Spec => []TypeOK
<1>1. DeviceInv => TypeOK
  BY DEF DeviceInv
<1> QED BY <1>1, DeviceCorrect, PTL

\* A live session is in exactly one slot, or is the one an open for a lingering
\* mount will free (fuse_device_open), and a slot's session has a daemon or a mount.
THEOREM DeviceLifetime == Spec => []SessionLifetime
<1>1. ASSUME DeviceInv PROVE SessionLifetime
  <2>1. \A u \in Units : slot[u].data # NoData =>
          LET s == ses[slot[u].data] IN s.alloc /\ (s.opened \/ s.mounted)
    BY <1>1 DEF DeviceInv, SlotsOk
  <2>2. ASSUME NEW s \in Sessions, NEW u \in Units, slot[u].data = s
        PROVE  Cardinality({v \in Units : slot[v].data = s}) = 1
    <3>1. {v \in Units : slot[v].data = s} = {u}
      BY <1>1, <2>2 DEF DeviceInv, SlotsOk
    <3> QED BY <3>1, FS_Singleton
  <2> QED BY <1>1, <2>1, <2>2 DEF DeviceInv, PlacedOk, SessionLifetime
<1> QED BY <1>1, DeviceCorrect, PTL

\* No thread is left with a pointer to a session that another thread destroyed
\* (fuse_device_close_final), and the session of a mount point is mounted.
THEOREM DeviceNoDangling == Spec => []NoDanglingSession
<1>1. ASSUME DeviceInv PROVE NoDanglingSession
  <2>1. ASSUME NEW x \in Threads, thr[x].pc \in HoldsData PROVE ses[thr[x].d].alloc
    <3>1. RoleOk(x) /\ SlotsOk /\ SpareOk
      BY <1>1 DEF DeviceInv
    <3>2. CASE thr[x].pc = "busy"
      BY <1>1, <3>1, <3>2, Roles, BlankFacts DEF SpareOk, At
    <3>3. CASE thr[x].pc = "close"
      BY <1>1, <3>1, <3>3, Roles DEF DeviceInv, RoleOk, SlotsOk, OpenOk, HasOpen, At, Data
    <3>4. CASE thr[x].pc \in {"mtest", "send", "answer", "flush", "unmount"}
      BY <1>1, <3>1, <3>4, Roles DEF DeviceInv, RoleOk, SlotsOk, MounterOk, HasMounted, At, Data
    <3> QED BY <2>1, <3>2, <3>3, <3>4 DEF HoldsData
  <2>2. \A m \in Mounters : mpdata[m] # NoData => ses[mpdata[m]].mounted
    BY <1>1 DEF DeviceInv, MounterOk
  <2> QED BY <2>1, <2>2 DEF NoDanglingSession
<1> QED BY <1>1, DeviceCorrect, PTL

\* A daemon that has the device open has the slot and its session to itself
\* (fuse_device_open's EBUSY), and a mount point its session (EALREADY).
THEOREM DeviceExclusive == Spec => []SlotExclusive
<1>1. ASSUME DeviceInv PROVE SlotExclusive
  <2>1. ASSUME NEW x \in Daemons, At(x, "opened")
        PROVE  Data(x) # NoData /\ ses[Data(x)].opened /\ slot[Unit(x)].usecount = 1
    BY <1>1, <2>1 DEF DeviceInv, OpenOk, HasOpen, CountOk, Counted, At
  <2>2. ASSUME NEW x \in Daemons, NEW y \in Daemons,
               At(x, "opened"), At(y, "opened"), Unit(x) = Unit(y)
        PROVE  x = y
    BY <1>1, <2>2 DEF DeviceInv, CountOk, Counted, At
  <2>3. ASSUME NEW m \in Mounters, NEW n \in Mounters, mpdata[m] = mpdata[n], mpdata[m] # NoData
        PROVE  m = n
    BY <1>1, <2>3 DEF DeviceInv, MounterOk, AloneOk
  <2> QED BY <2>1, <2>2, <2>3 DEF SlotExclusive
<1> QED BY <1>1, DeviceCorrect, PTL

-----------------------------------------------------------------------------
(* The number of mounts *)

Mounted == {s \in Sessions : ses[s].mounted}

\* fuse_mount_count is the number of mounted sessions: each mount that counts
\* itself in marks a session that was not marked (fuse_vfsop_mount), and each one
\* that counts itself out, on the error path or in fuse_vfsop_unmount, unmarks its
\* own.  No bound on the number of sessions is needed.
THEOREM DeviceMountCount == Spec => []MountCount
<1> DEFINE CInv == IsFiniteSet(Mounted) /\ fuse_mount_count = Cardinality(Mounted)
<1>1. Init => CInv
  <2> SUFFICES ASSUME Init PROVE CInv
    OBVIOUS
  <2>1. Mounted = {}
    BY BlankFacts DEF Init, Mounted
  <2> QED BY <2>1, FS_EmptySet DEF Init
<1>2. ASSUME CInv, Count PROVE CInv'
  <2>1. CASE CountSame
    <3>1. Mounted' = Mounted /\ fuse_mount_count' = fuse_mount_count
      BY <2>1 DEF CountSame, Mounted
    <3> QED BY <1>2, <3>1
  <2>2. ASSUME NEW d \in Sessions, CountUp(d) PROVE CInv'
    <3>1. /\ Mounted' = Mounted \cup {d} /\ d \notin Mounted
          /\ fuse_mount_count' = fuse_mount_count + 1
      BY <2>2 DEF CountUp, Mounted
    <3>2. IsFiniteSet(Mounted \cup {d}) /\ Cardinality(Mounted \cup {d}) = Cardinality(Mounted) + 1
      BY <1>2, <3>1, FS_AddElement
    <3> QED BY <1>2, <3>1, <3>2
  <2>3. ASSUME NEW d \in Sessions, CountDown(d) PROVE CInv'
    <3>1. /\ Mounted' = Mounted \ {d} /\ d \in Mounted
          /\ fuse_mount_count' = fuse_mount_count - 1
      BY <2>3 DEF CountDown, Mounted
    <3>2. IsFiniteSet(Mounted \ {d}) /\ Cardinality(Mounted \ {d}) = Cardinality(Mounted) - 1
      BY <1>2, <3>1, FS_RemoveElement
    <3> QED BY <1>2, <3>1, <3>2
  <2> QED BY <1>2, <2>1, <2>2, <2>3 DEF Count
<1>3. DeviceInv /\ CInv /\ [Next]_vars => CInv'
  BY <1>2, NextInv
<1>4. CInv => MountCount
  BY DEF Mounted, MountCount
<1> HIDE DEF CInv
<1> QED BY <1>1, <1>3, <1>4, DeviceCorrect, PTL DEF Spec

-----------------------------------------------------------------------------
(* FuseDevice implements FuseSession: what the slots show of their sessions    *)
(* changes only as FuseSession allows.                                         *)

\* the abstract state, unit by unit
LEMMA AbstractSets ==
    /\ With(HasDaemon) = {u \in Units : slot[u].data # NoData /\ ses[slot[u].data].opened}
    /\ With(HasMount) = {u \in Units : slot[u].data # NoData /\ ses[slot[u].data].mounted}
    /\ With(IsDead) = {u \in Units : slot[u].data # NoData /\ ses[slot[u].data].dead}
    /\ With(HasDaemon)' = {u \in Units : slot'[u].data # NoData /\ ses'[slot'[u].data].opened}
    /\ With(HasMount)' = {u \in Units : slot'[u].data # NoData /\ ses'[slot'[u].data].mounted}
    /\ With(IsDead)' = {u \in Units : slot'[u].data # NoData /\ ses'[slot'[u].data].dead}
BY DEF With, HasDaemon, HasMount, IsDead

\* a slot that a step does not change shows the same
LEMMA SlotRests ==
    ASSUME NEW v \in Units, slot'[v].data = slot[v].data,
           slot[v].data # NoData => ses'[slot[v].data] = ses[slot[v].data]
    PROVE  /\ v \in With(HasDaemon)' <=> v \in With(HasDaemon)
           /\ v \in With(HasMount)' <=> v \in With(HasMount)
           /\ v \in With(IsDead)' <=> v \in With(IsDead)
BY AbstractSets

\* The initial state maps to one of the abstract specification.
LEMMA AbstractInit == Init => Session!AInit
<1>1. Init => \A u \in Units : slot[u].data = NoData
  BY DEF Init
<1> QED BY <1>1, AbstractSets DEF Init, Session!AInit

\* Each step that the slots show is one of FuseSession.
LEMMA AbstractStep ==
    ASSUME DeviceInv, Seen
    PROVE  [Session!ANext]_(Session!avars)
<1> DEFINE D == With(HasDaemon)
           M == With(HasMount)
           X == With(IsDead)
<1>1. D \subseteq Units /\ M \subseteq Units /\ X \subseteq Units
  BY AbstractSets
<1>2. D' \subseteq Units /\ M' \subseteq Units /\ X' \subseteq Units
  BY AbstractSets
<1>3. \A v \in Units : slot[v].data = NoData <=> v \notin D \cup M
  BY AbstractSets DEF DeviceInv, SlotsOk
<1>4. CASE RestAt
  <2>1. \A v \in Units : (v \in D' <=> v \in D) /\ (v \in M' <=> v \in M) /\ (v \in X' <=> v \in X)
    BY <1>4, SlotRests DEF RestAt
  <2>2. D' = D /\ M' = M /\ X' = X /\ cdev' = cdev
    BY <1>1, <1>2, <1>4, <2>1 DEF RestAt
  <2> QED BY <2>2 DEF Session!avars
<1>5. CASE UnloadAt
  <2>1. D = {} /\ M = {} /\ X = {} /\ D' = {} /\ M' = {} /\ X' = {}
    BY <1>5, AbstractSets DEF UnloadAt
  <2> QED BY <1>5, <2>1 DEF UnloadAt, Session!ANext, Session!Unload, Session!Free
<1>6. ASSUME NEW u \in Units, Elsewhere(u)
      PROVE  /\ cdev' = cdev
             /\ \A v \in Units \ {u} :
                   (v \in D' <=> v \in D) /\ (v \in M' <=> v \in M) /\ (v \in X' <=> v \in X)
  BY <1>6, SlotRests DEF Elsewhere
<1>7. ASSUME NEW u \in Units, BornAt(u) PROVE Session!Born(u)
  <2>1. u \notin D /\ u \notin M /\ u \notin X /\ u \in D' /\ u \notin M' /\ u \notin X'
    BY <1>7, AbstractSets DEF BornAt
  <2>2. D' = D \cup {u} /\ M' = M /\ X' = X /\ cdev' = cdev
    <3>1. /\ cdev' = cdev
          /\ \A v \in Units \ {u} :
                (v \in D' <=> v \in D) /\ (v \in M' <=> v \in M) /\ (v \in X' <=> v \in X)
      BY <1>6, <1>7 DEF BornAt
    <3> HIDE DEF D, M, X
    <3> QED BY <1>1, <1>2, <2>1, <3>1
  <2> QED BY <1>7, <2>1, <2>2 DEF BornAt, Session!Born, Session!Free
<1>8. ASSUME NEW u \in Units, AttachAt(u) PROVE Session!Attach(u)
  <2>1. u \in D /\ u \notin M /\ u \in D' /\ u \in M' /\ (u \in X' <=> u \in X)
    BY <1>8, AbstractSets DEF AttachAt
  <2>2. D' = D /\ M' = M \cup {u} /\ X' = X /\ cdev' = cdev
    <3>1. /\ cdev' = cdev
          /\ \A v \in Units \ {u} :
                (v \in D' <=> v \in D) /\ (v \in M' <=> v \in M) /\ (v \in X' <=> v \in X)
      BY <1>6, <1>8 DEF AttachAt
    <3> HIDE DEF D, M, X
    <3> QED BY <1>1, <1>2, <2>1, <3>1
  <2> QED BY <2>1, <2>2 DEF Session!Attach
<1>9. ASSUME NEW u \in Units, DieAt(u)
      PROVE  Session!Die(u) \/ UNCHANGED Session!avars
  <2>1. (u \in D' <=> u \in D) /\ (u \in M' <=> u \in M) /\ (u \in X => u \in X') /\ u \in D \cup M
    BY <1>3, <1>9, AbstractSets DEF DieAt
  <2>2. D' = D /\ M' = M /\ (X' = X \/ X' = X \cup {u}) /\ cdev' = cdev
    <3>1. /\ cdev' = cdev
          /\ \A v \in Units \ {u} :
                (v \in D' <=> v \in D) /\ (v \in M' <=> v \in M) /\ (v \in X' <=> v \in X)
      BY <1>6, <1>9 DEF DieAt
    <3> HIDE DEF D, M, X
    <3> QED BY <1>1, <1>2, <2>1, <3>1
  <2> QED BY <2>1, <2>2 DEF Session!Die, Session!Free, Session!avars
<1>10. ASSUME NEW u \in Units, DaemonLeavesAt(u) PROVE Session!DaemonLeaves(u)
  <2>1. /\ u \in D /\ u \in X /\ u \notin D' /\ (u \in M' <=> u \in M)
        /\ u \in X' <=> u \in M
    BY <1>10, AbstractSets DEF DaemonLeavesAt
  <2>2. D' = D \ {u} /\ M' = M /\ X' = (IF u \in M THEN X ELSE X \ {u}) /\ cdev' = cdev
    <3>1. /\ cdev' = cdev
          /\ \A v \in Units \ {u} :
                (v \in D' <=> v \in D) /\ (v \in M' <=> v \in M) /\ (v \in X' <=> v \in X)
      BY <1>6, <1>10 DEF DaemonLeavesAt
    <3> HIDE DEF D, M, X
    <3> QED BY <1>1, <1>2, <2>1, <3>1
  <2> QED BY <2>1, <2>2 DEF Session!DaemonLeaves
<1>11. ASSUME NEW u \in Units, DetachAt(u) PROVE Session!Detach(u)
  <2>1. /\ u \in M /\ u \notin M' /\ (u \in D' <=> u \in D)
        /\ u \in X' <=> u \in X /\ u \in D
    BY <1>11, AbstractSets DEF DetachAt
  <2>2. M' = M \ {u} /\ D' = D /\ X' = (IF u \in D THEN X ELSE X \ {u}) /\ cdev' = cdev
    <3>1. /\ cdev' = cdev
          /\ \A v \in Units \ {u} :
                (v \in D' <=> v \in D) /\ (v \in M' <=> v \in M) /\ (v \in X' <=> v \in X)
      BY <1>6, <1>11 DEF DetachAt
    <3> HIDE DEF D, M, X
    <3> QED BY <1>1, <1>2, <2>1, <3>1
  <2> QED BY <2>1, <2>2 DEF Session!Detach
<1> QED BY <1>4, <1>5, <1>7, <1>8, <1>9, <1>10, <1>11 DEF Seen, Session!ANext

\* What daemons, mounts and the unloading of the kext see of the slots is what
\* FuseSession promises (fuse_device.c, fuse_vfsop_mount, fuse_vfsop_unmount), for
\* any number of units, sessions and threads.
THEOREM DeviceImplements == Spec => ImplementsSession
<1>1. DeviceInv /\ [Next]_vars => [Session!ANext]_(Session!avars)
  BY NextInv, AbstractStep
<1> QED BY <1>1, AbstractInit, DeviceCorrect, PTL DEF Spec, ImplementsSession, Session!ASpec
=============================================================================
