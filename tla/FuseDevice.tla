----------------------------- MODULE FuseDevice -----------------------------
(***************************************************************************)
(* The life of a session (struct fuse_data) in its device slot: daemons    *)
(* open and close /dev/fuse4xN, mount and unmount attach the session to a  *)
(* file system, the sysctl kills it, and fuse_devices_stop takes the       *)
(* devices away when the kext is unloaded.                                 *)
(*                                                                         *)
(* One action is the code between two acquisitions of a mutex             *)
(* (fuse_device_mutex, fdev->mtx, data->biglock).  fdev->mtx is released    *)
(* in a step of its own, because fuse_devices_stop reads the slot without  *)
(* taking it.  A session is named by its address, which a later open may   *)
(* get again after it was freed.  What goes on inside a session is the     *)
(* subject of FuseIpc.                                                     *)
(***************************************************************************)
EXTENDS Integers, FiniteSets

CONSTANTS
    Units,       \* device slots
    Sessions,    \* addresses of struct fuse_data
    Daemons,     \* threads that open and close devices
    Mounters,    \* threads that mount and unmount, one mount point each
    Killers,     \* threads in the sysctl that kills a session
    Stoppers,    \* threads in fusefs_stop
    Biglock      \* FUSE4X_ENABLE_BIGLOCK (64-bit builds)

Threads == Daemons \cup Mounters \cup Killers \cup Stoppers

ASSUME ActorsAssumption ==
    /\ Daemons \cap (Mounters \cup Killers \cup Stoppers) = {}
    /\ Mounters \cap (Killers \cup Stoppers) = {}
    /\ Biglock \in BOOLEAN

NoData == "NULL"
NoUnit == "no unit"
Nobody == "nobody"
Freed  == "freed"

ASSUME NamesAssumption ==
    NoData \notin Sessions /\ {Nobody, Freed} \cap Threads = {}

VARIABLES
    slot,               \* fuse_device_table
    ses,                \* struct fuse_data by address
    fuse_device_mutex,  \* who holds it
    thr,                \* control and locals of each thread
    mpdata,             \* vfs_fsprivate of each mount point
    fuse_mount_count,
    available,          \* fuse_interface_available
    cdev,               \* fuse_cdev_major # -1
    panic               \* the first panic, failed assert or use of a freed mutex

vars == <<slot, ses, fuse_device_mutex, thr, mpdata, fuse_mount_count, available, cdev, panic>>

NoSession == [alloc |-> FALSE, opened |-> FALSE, mounted |-> FALSE, dead |-> FALSE,
              biglock |-> Nobody]

\* u: the unit; d: the session a pointer was read for; mnt, err: the locals of
\* fuse_vfsop_mount; ret: where to go after fdev->mtx is released
IdleThread == [pc |-> "idle", u |-> NoUnit, d |-> NoData, mnt |-> FALSE, err |-> FALSE,
               ret |-> "idle"]

\* fuse_devices_start
Init ==
    /\ slot = [u \in Units |-> [usecount |-> 0, data |-> NoData, mtx |-> Nobody]]
    /\ ses = [s \in Sessions |-> NoSession]
    /\ fuse_device_mutex = Nobody
    /\ thr = [x \in Threads |-> IdleThread]
    /\ mpdata = [m \in Mounters |-> NoData]
    /\ fuse_mount_count = 0
    /\ available = TRUE /\ cdev = TRUE
    /\ panic = "none"

-----------------------------------------------------------------------------

At(x, l) == thr[x].pc = l
Unit(x)  == thr[x].u
Data(x)  == slot[Unit(x)].data      \* fdev->data
MtxFree(x) == slot[Unit(x)].mtx = Nobody

Goto(x, l) == thr' = [thr EXCEPT ![x].pc = l]

\* go on after fdev->mtx has been released
UnlockThen(x, l) == thr' = [thr EXCEPT ![x].pc = "unlock", ![x].ret = l]

Locked(x) == [slot EXCEPT ![Unit(x)].mtx = x]

\* fuse_device_close_final, with fdev->mtx held by x
CloseFinal(x) ==
    /\ ses' = [ses EXCEPT ![Data(x)] = NoSession]
    /\ slot' = [slot EXCEPT ![Unit(x)].mtx = x, ![Unit(x)].data = NoData]

\* Mutants: the session is never destroyed; it is destroyed under a mount; it is
\* destroyed under a daemon.
LeaveForever(x, s) == ses' = [ses EXCEPT ![Data(x)] = s] /\ slot' = Locked(x)
LeaveMount(x, s) ==
    IF s.opened THEN ses' = [ses EXCEPT ![Data(x)] = s] /\ slot' = Locked(x) ELSE CloseFinal(x)
LeaveDaemon(x, s) ==
    IF s.mounted THEN ses' = [ses EXCEPT ![Data(x)] = s] /\ slot' = Locked(x) ELSE CloseFinal(x)

\* fdev->data becomes s; without a daemon and a mount it is destroyed
Leave(x, s) ==
    IF s.opened \/ s.mounted
    THEN ses' = [ses EXCEPT ![Data(x)] = s] /\ slot' = Locked(x)
    ELSE CloseFinal(x)

\* the session's biglock, where the build has one
BigFree(s) == Biglock => ses[s].biglock = Nobody

Unlock(x) ==
    /\ At(x, "unlock") /\ slot[Unit(x)].mtx = x
    /\ slot' = [slot EXCEPT ![Unit(x)].mtx = Nobody]
    /\ thr' = [thr EXCEPT ![x] = IF thr[x].ret = "idle" THEN IdleThread
                                 ELSE [thr[x] EXCEPT !.pc = thr[x].ret]]
    /\ UNCHANGED <<ses, fuse_device_mutex, mpdata, fuse_mount_count, available, cdev, panic>>

-----------------------------------------------------------------------------
(* fuse_device_open *)

\* fuse_interface_available is tested without a lock
Open(x, u) ==
    /\ At(x, "idle") /\ available /\ cdev
    /\ thr' = [thr EXCEPT ![x].pc = "open", ![x].u = u]
    /\ UNCHANGED <<slot, ses, fuse_device_mutex, mpdata, fuse_mount_count, available, cdev, panic>>

\* Mutant: a second daemon may open the device.
BusyNever(x) == FALSE

Busy(x) == slot[Unit(x)].usecount # 0

\* EBUSY: another daemon has the device
OpenInUse(x) ==
    /\ At(x, "open") /\ fuse_device_mutex = Nobody
    /\ Busy(x)
    /\ thr' = [thr EXCEPT ![x] = IdleThread]
    /\ UNCHANGED <<slot, ses, fuse_device_mutex, mpdata, fuse_mount_count, available, cdev, panic>>

OpenUse(x) ==
    /\ At(x, "open") /\ fuse_device_mutex = Nobody
    /\ ~Busy(x)
    /\ fuse_device_mutex' = x
    /\ slot' = [slot EXCEPT ![Unit(x)].usecount = @ + 1]
    /\ Goto(x, "openmtx")
    /\ UNCHANGED <<ses, mpdata, fuse_mount_count, available, cdev, panic>>

\* fdev->mtx is taken under fuse_device_mutex
OpenLock(x) ==
    /\ At(x, "openmtx") /\ MtxFree(x)
    /\ slot' = Locked(x)
    /\ fuse_device_mutex' = Nobody
    /\ Goto(x, "alloc")
    /\ UNCHANGED <<ses, mpdata, fuse_mount_count, available, cdev, panic>>

\* fuse_data_alloc, then the test for a lingering mount
OpenAlloc(x, s) ==
    /\ At(x, "alloc") /\ ~ses[s].alloc
    /\ IF Data(x) = NoData
       THEN /\ ses' = [ses EXCEPT ![s] = [NoSession EXCEPT !.alloc = TRUE, !.opened = TRUE]]
            /\ slot' = [slot EXCEPT ![Unit(x)].data = s]
            /\ thr' = [thr EXCEPT ![x].pc = "unlock", ![x].ret = "opened"]
       ELSE /\ ses' = [ses EXCEPT ![s].alloc = TRUE]
            /\ slot' = slot
            /\ thr' = [thr EXCEPT ![x].pc = "busy", ![x].d = s]
    /\ UNCHANGED <<fuse_device_mutex, mpdata, fuse_mount_count, available, cdev, panic>>

\* Mutant: fuse_device_mutex is not released.
OpenBusyLocked(x) ==
    /\ At(x, "busy") /\ fuse_device_mutex = Nobody
    /\ fuse_device_mutex' = x
    /\ slot' = [slot EXCEPT ![Unit(x)].usecount = @ - 1, ![Unit(x)].mtx = Nobody]
    /\ ses' = [ses EXCEPT ![thr[x].d] = NoSession]
    /\ thr' = [thr EXCEPT ![x] = IdleThread]
    /\ UNCHANGED <<mpdata, fuse_mount_count, available, cdev, panic>>

\* EBUSY: fuse_device_mutex is taken under fdev->mtx, and both are released
OpenBusy(x) ==
    /\ At(x, "busy") /\ fuse_device_mutex = Nobody
    /\ slot' = [slot EXCEPT ![Unit(x)].usecount = @ - 1, ![Unit(x)].mtx = Nobody]
    /\ ses' = [ses EXCEPT ![thr[x].d] = NoSession]
    /\ thr' = [thr EXCEPT ![x] = IdleThread]
    /\ UNCHANGED <<fuse_device_mutex, mpdata, fuse_mount_count, available, cdev, panic>>

-----------------------------------------------------------------------------
(* fuse_device_close *)

\* fdev->data is read and killed without fdev->mtx
Close(x) ==
    /\ At(x, "opened")
    /\ IF Data(x) = NoData
       THEN ses' = ses /\ panic' = "no device private data in device_close"
       ELSE ses' = [ses EXCEPT ![Data(x)].dead = TRUE] /\ panic' = panic
    /\ thr' = [thr EXCEPT ![x].pc = "close", ![x].d = Data(x)]
    /\ UNCHANGED <<slot, fuse_device_mutex, mpdata, fuse_mount_count, available, cdev>>

CloseLock(x) ==
    /\ At(x, "close") /\ MtxFree(x)
    /\ Leave(x, [ses[thr[x].d] EXCEPT !.opened = FALSE])
    /\ UnlockThen(x, "closed")
    /\ UNCHANGED <<fuse_device_mutex, mpdata, fuse_mount_count, available, cdev, panic>>

CloseCount(x) ==
    /\ At(x, "closed") /\ fuse_device_mutex = Nobody
    /\ slot' = [slot EXCEPT ![Unit(x)].usecount = @ - 1]
    /\ thr' = [thr EXCEPT ![x] = IdleThread]
    /\ UNCHANGED <<ses, fuse_device_mutex, mpdata, fuse_mount_count, available, cdev, panic>>

-----------------------------------------------------------------------------
(* fuse_vfsop_mount *)

Mount(x, u) ==
    /\ At(x, "idle") /\ cdev
    /\ thr' = [thr EXCEPT ![x].pc = "mount", ![x].u = u]
    /\ UNCHANGED <<slot, ses, fuse_device_mutex, mpdata, fuse_mount_count, available, cdev, panic>>

\* ENXIO if there is no session
MountLock(x) ==
    /\ At(x, "mount") /\ MtxFree(x)
    /\ slot' = Locked(x)
    /\ thr' = [thr EXCEPT ![x].pc = IF Data(x) = NoData THEN "unlock" ELSE "mtest",
                          ![x].d = Data(x)]
    /\ UNCHANGED <<ses, fuse_device_mutex, mpdata, fuse_mount_count, available, cdev, panic>>

\* EALREADY; the biglock is taken and released
MountAlready(x) ==
    /\ At(x, "mtest") /\ BigFree(thr[x].d)
    /\ ses[thr[x].d].mounted
    /\ UnlockThen(x, "idle")
    /\ UNCHANGED <<slot, ses, fuse_device_mutex, mpdata, fuse_mount_count, available, cdev, panic>>

\* ENXIO if no daemon has the device open, ENOTCONN if the session is dead;
\* EPERM depends on the caller
MountStart(x) ==
    LET d == thr[x].d
        start == ses[d].opened
    IN
    /\ At(x, "mtest") /\ BigFree(d)
    /\ ~ses[d].mounted
    /\ ses' = [ses EXCEPT ![d].mounted = start, ![d].biglock = IF Biglock THEN x ELSE @]
    /\ fuse_mount_count' = fuse_mount_count + (IF start THEN 1 ELSE 0)
    /\ \E ok \in BOOLEAN :
          /\ ok => start /\ ~ses[d].dead
          /\ mpdata' = [mpdata EXCEPT ![x] = IF ok THEN d ELSE NoData]
          /\ thr' = [thr EXCEPT ![x].pc = "unlock", ![x].ret = IF ok THEN "send" ELSE "out",
                                ![x].mnt = start, ![x].err = ~ok]
    /\ UNCHANGED <<slot, fuse_device_mutex, available, cdev, panic>>

\* fuse_send_init and fuse_vfsop_getattr; the biglock is free during the wait
MountSend(x) ==
    /\ At(x, "send")
    /\ ses' = [ses EXCEPT ![thr[x].d].biglock = Nobody]
    /\ Goto(x, "answer")
    /\ UNCHANGED <<slot, fuse_device_mutex, mpdata, fuse_mount_count, available, cdev, panic>>

\* the answer to STATFS, fuse_vfsop_root and vnode_ref: each may fail
MountAnswer(x) ==
    /\ At(x, "answer") /\ BigFree(thr[x].d)
    /\ ses' = [ses EXCEPT ![thr[x].d].biglock = IF Biglock THEN x ELSE @]
    /\ \E e \in BOOLEAN :
          thr' = [thr EXCEPT ![x].err = e, ![x].pc = IF e THEN "out" ELSE
                                                    IF Biglock THEN "tail" ELSE "mounted"]
    /\ UNCHANGED <<slot, fuse_device_mutex, mpdata, fuse_mount_count, available, cdev, panic>>

\* Mutant: a failed mount stays counted.
UncountedNot(x) == fuse_mount_count

Uncounted(x) == fuse_mount_count - (IF thr[x].mnt THEN 1 ELSE 0)

\* the error path; a session whose daemon has left meanwhile is destroyed
MountOut(x) ==
    /\ At(x, "out") /\ MtxFree(x)
    /\ mpdata' = [mpdata EXCEPT ![x] = NoData]
    /\ fuse_mount_count' = Uncounted(x)
    /\ IF Data(x) = NoData THEN ses' = ses /\ slot' = Locked(x)
                           ELSE Leave(x, [ses[Data(x)] EXCEPT !.mounted = FALSE])
    /\ UnlockThen(x, IF Biglock THEN "tail" ELSE "idle")
    /\ UNCHANGED <<fuse_device_mutex, available, cdev, panic>>

\* BIGLOCK builds only: the end of fuse_vfsop_mount releases the biglock
MountTail(x) ==
    /\ At(x, "tail") /\ MtxFree(x)
    /\ Data(x) # NoData => Data(x) = thr[x].d /\ ses[Data(x)].biglock = x
    /\ ses' = [s \in Sessions |-> IF s = Data(x) THEN [ses[s] EXCEPT !.biglock = Nobody] ELSE ses[s]]
    /\ slot' = Locked(x)
    /\ UnlockThen(x, IF thr[x].err THEN "idle" ELSE "mounted")
    /\ UNCHANGED <<fuse_device_mutex, mpdata, fuse_mount_count, available, cdev, panic>>

\* ... of whatever session the slot has by then
MountTailOther(x) ==
    /\ At(x, "tail") /\ MtxFree(x)
    /\ Data(x) # NoData /\ (Data(x) # thr[x].d \/ ses[Data(x)].biglock # x)
    /\ panic' = "biglock of another session"
    /\ UNCHANGED <<slot, ses, fuse_device_mutex, thr, mpdata, fuse_mount_count, available, cdev>>

-----------------------------------------------------------------------------
(* fuse_vfsop_unmount *)

\* a session that is not inited is killed
Unmount(x) ==
    LET d == mpdata[x] IN
    /\ At(x, "mounted")
    /\ d # NoData => BigFree(d)
    /\ IF d = NoData
       THEN ses' = ses /\ panic' = "no mount private data in vfs_unmount"
       ELSE /\ \E inited \in BOOLEAN : ses' = [ses EXCEPT ![d].dead = @ \/ ~inited]
            /\ panic' = panic
    /\ thr' = [thr EXCEPT ![x].pc = "flush", ![x].d = d]
    /\ UNCHANGED <<slot, fuse_device_mutex, mpdata, fuse_mount_count, available, cdev>>

\* vflush failed, or the root vnode is in use: EBUSY
UnmountBusy(x) ==
    /\ At(x, "flush") /\ BigFree(thr[x].d)
    /\ Goto(x, "mounted")
    /\ UNCHANGED <<slot, ses, fuse_device_mutex, mpdata, fuse_mount_count, available, cdev, panic>>

\* DESTROY has been answered or the session was dead; fuse_data_kill
UnmountKill(x) ==
    LET d == thr[x].d IN
    /\ At(x, "flush") /\ BigFree(d)
    /\ ses' = [ses EXCEPT ![d].dead = TRUE, ![d].biglock = IF Biglock THEN x ELSE @]
    /\ Goto(x, "unmount")
    /\ UNCHANGED <<slot, fuse_device_mutex, mpdata, fuse_mount_count, available, cdev, panic>>

UnmountLock(x) ==
    /\ At(x, "unmount") /\ MtxFree(x)
    /\ mpdata' = [mpdata EXCEPT ![x] = NoData]
    /\ fuse_mount_count' = fuse_mount_count - 1
    /\ Leave(x, [ses[thr[x].d] EXCEPT !.mounted = FALSE, !.biglock = Nobody])
    /\ UnlockThen(x, "idle")
    /\ UNCHANGED <<fuse_device_mutex, available, cdev, panic>>

-----------------------------------------------------------------------------
(* fuse_device_kill *)

Kill(x, u) ==
    /\ At(x, "idle") /\ cdev
    /\ thr' = [thr EXCEPT ![x].pc = "kill", ![x].u = u]
    /\ UNCHANGED <<slot, ses, fuse_device_mutex, mpdata, fuse_mount_count, available, cdev, panic>>

\* ENOENT, EPERM, or the session is killed with fdev->mtx held
KillLock(x) ==
    /\ At(x, "kill") /\ MtxFree(x)
    /\ slot' = Locked(x)
    /\ \E allowed \in BOOLEAN :
          ses' = [s \in Sessions |->
                    IF s = Data(x) /\ allowed THEN [ses[s] EXCEPT !.dead = TRUE] ELSE ses[s]]
    /\ UnlockThen(x, "idle")
    /\ UNCHANGED <<fuse_device_mutex, mpdata, fuse_mount_count, available, cdev, panic>>

-----------------------------------------------------------------------------
(* fuse_devices_stop *)

Stop(x) ==
    /\ At(x, "idle") /\ cdev
    /\ available' = FALSE
    /\ Goto(x, "stop")
    /\ UNCHANGED <<slot, ses, fuse_device_mutex, mpdata, fuse_mount_count, cdev, panic>>

\* Mutant: a lingering mount does not keep the device.
InUseOpen(u) == slot[u].usecount # 0

\* a slot is looked at under fuse_device_mutex but without its own mutex
InUse(u) == slot[u].usecount # 0 \/ slot[u].data # NoData

StopRefused(x) ==
    /\ At(x, "stop") /\ fuse_device_mutex = Nobody
    /\ \E u \in Units : InUse(u)
    /\ available' = TRUE
    /\ thr' = [thr EXCEPT ![x] = IdleThread]
    /\ UNCHANGED <<slot, ses, fuse_device_mutex, mpdata, fuse_mount_count, cdev, panic>>

StopDone(x) ==
    /\ At(x, "stop") /\ fuse_device_mutex = Nobody
    /\ \A u \in Units : ~InUse(u)
    /\ slot' = [u \in Units |-> [slot[u] EXCEPT !.mtx = Freed]]
    /\ cdev' = FALSE
    /\ thr' = [thr EXCEPT ![x] = IdleThread]
    /\ UNCHANGED <<ses, fuse_device_mutex, mpdata, fuse_mount_count, available, panic>>

\* a thread locks or unlocks an fdev->mtx that fuse_devices_stop has freed
UsesMtx == {"unlock", "openmtx", "close", "mount", "out", "tail", "unmount", "kill"}

FreedMutex(x) ==
    /\ thr[x].pc \in UsesMtx /\ slot[Unit(x)].mtx = Freed
    /\ panic' = IF At(x, "unlock") THEN "unlock of a freed mutex" ELSE "lock of a freed mutex"
    /\ UNCHANGED <<slot, ses, fuse_device_mutex, thr, mpdata, fuse_mount_count, available, cdev>>

-----------------------------------------------------------------------------

Begin(x) ==
    \/ x \in Daemons /\ (Close(x) \/ \E u \in Units : Open(x, u))
    \/ x \in Mounters /\ (Unmount(x) \/ \E u \in Units : Mount(x, u))
    \/ x \in Killers /\ \E u \in Units : Kill(x, u)
    \/ x \in Stoppers /\ Stop(x)

Step(x) ==
    \/ Unlock(x) \/ FreedMutex(x)
    \/ OpenInUse(x) \/ OpenUse(x) \/ OpenLock(x) \/ OpenBusy(x)
    \/ \E s \in Sessions : OpenAlloc(x, s)
    \/ CloseLock(x) \/ CloseCount(x)
    \/ MountLock(x) \/ MountAlready(x) \/ MountStart(x) \/ MountSend(x) \/ MountAnswer(x)
    \/ MountOut(x) \/ MountTail(x) \/ MountTailOther(x)
    \/ UnmountBusy(x) \/ UnmountKill(x) \/ UnmountLock(x)
    \/ KillLock(x) \/ StopRefused(x) \/ StopDone(x)

\* the machine stops at the first panic
Next == panic = "none" /\ \E x \in Threads : Begin(x) \/ Step(x)

Spec == Init /\ [][Next]_vars

(* Fairness.  A thread inside an operation runs whenever it can, and a mutex  *)
(* that is released again and again is in the end given to each thread that   *)
(* waits for it (lck_mtx_unlock wakes a waiter).  The daemon answers or the    *)
(* session is killed, so a mount does not wait for ever.  No operation has to *)
(* begin.                                                                     *)
Fairness == \A x \in Threads : SF_vars(panic = "none" /\ Step(x))

FairSpec == Spec /\ Fairness

-----------------------------------------------------------------------------
(* Properties *)

Labels == {"idle", "open", "openmtx", "alloc", "busy", "opened", "close", "closed", "mount",
           "mtest", "send", "answer", "out", "tail", "mounted", "flush", "unmount", "kill",
           "stop", "unlock"}

Panics == {"none", "no device private data in device_close", "biglock of another session",
           "no mount private data in vfs_unmount", "lock of a freed mutex",
           "unlock of a freed mutex"}

TypeOK ==
    /\ slot \in [Units -> [usecount: 0 .. 1, data: Sessions \cup {NoData},
                           mtx: Threads \cup {Nobody, Freed}]]
    /\ ses \in [Sessions -> [alloc: BOOLEAN, opened: BOOLEAN, mounted: BOOLEAN,
                             dead: BOOLEAN, biglock: Threads \cup {Nobody}]]
    /\ fuse_device_mutex \in Threads \cup {Nobody}
    /\ thr \in [Threads -> [pc: Labels, u: Units \cup {NoUnit}, d: Sessions \cup {NoData},
                            mnt: BOOLEAN, err: BOOLEAN, ret: Labels]]
    /\ mpdata \in [Mounters -> Sessions \cup {NoData}]
    /\ fuse_mount_count \in Int
    /\ available \in BOOLEAN /\ cdev \in BOOLEAN
    /\ panic \in Panics

\* A session is destroyed exactly when it has neither a daemon nor a mount: each
\* live one is the data of one slot (or of an open that will return EBUSY), and a
\* slot's session, looked at under fdev->mtx, is opened or mounted.  So the ENXIO
\* branch of fuse_vfsop_mount for a session that is not opened is never taken.
SessionLifetime ==
    /\ \A s \in Sessions :
          ses[s].alloc => \/ Cardinality({u \in Units : slot[u].data = s}) = 1
                          \/ \E x \in Daemons : At(x, "busy") /\ thr[x].d = s
    /\ \A u \in Units : slot[u].data # NoData =>
          LET s == ses[slot[u].data] IN s.alloc /\ (s.opened \/ s.mounted)

HoldsData == {"busy", "close", "mtest", "send", "answer", "flush", "unmount"}

\* No operation is left with a pointer to a session that another one destroyed,
\* whatever fdev->data was when it read it, and a mount point's session lives.
NoDanglingSession ==
    /\ \A x \in Threads : thr[x].pc \in HoldsData => ses[thr[x].d].alloc
    /\ \A m \in Mounters : mpdata[m] # NoData => ses[mpdata[m]].mounted

\* While a daemon has the device open the slot keeps its session, a slot whose
\* mount lingers after its daemon died is not given to another daemon, and a
\* mount point has a session to itself.
SlotExclusive ==
    /\ \A x, y \in Daemons :
          At(x, "opened") => /\ Data(x) # NoData /\ ses[Data(x)].opened
                             /\ slot[Unit(x)].usecount = 1
                             /\ At(y, "opened") /\ Unit(x) = Unit(y) => x = y
    /\ \A m, n \in Mounters : mpdata[m] = mpdata[n] /\ mpdata[m] # NoData => m = n

\* The sysctl fuse_mount_count counts the mounted sessions.
MountCount == fuse_mount_count = Cardinality({s \in Sessions : ses[s].mounted})

\* The assertion at the end of fuse_vfsop_mount: the session in the slot is the
\* one whose biglock this mount took.
BiglockAssert == panic # "biglock of another session"

AtRest(x) == thr[x].pc \in {"idle", "opened", "mounted"}

\* A mount has fdev->mtx and waits for the biglock of a mount or unmount that
\* waits for fdev->mtx at its end.
MountCircle ==
    \E x, y \in Mounters :
        /\ At(x, "mtest") /\ slot[Unit(x)].mtx = x /\ ses[thr[x].d].biglock = y
        /\ thr[y].pc \in {"out", "tail", "unmount"} /\ Unit(y) = Unit(x)

\* Every operation that begins ends, although fuse_device_open takes fdev->mtx
\* under fuse_device_mutex and, for a lingering mount, the other way round.  The
\* one circle of waiting threads in this code is that of two mounts of a device
\* whose session has a biglock (fuse_vfsop_mount, fuse_vfsop_unmount).
OperationsEnd ==
    \A x \in Threads : ~AtRest(x) ~> (AtRest(x) \/ panic # "none" \/ MountCircle)

-----------------------------------------------------------------------------
(* Refinement: the slots of this module are those of FuseSession *)

With(P(_)) == {u \in Units : slot[u].data # NoData /\ P(ses[slot[u].data])}

HasDaemon(s) == s.opened
HasMount(s)  == s.mounted
IsDead(s)    == s.dead

Session == INSTANCE FuseSession
    WITH daemon <- With(HasDaemon), attached <- With(HasMount), dead <- With(IsDead),
         present <- cdev

\* What daemons, mounts, the sysctl and the unloading of the kext see of a slot is
\* what FuseSession promises: no second daemon for a session, no mount without
\* one, no daemon that leaves a living session behind, and a slot that is free
\* again only when both have left.
ImplementsSession == Session!ASpec
=============================================================================
