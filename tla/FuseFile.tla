------------------------------ MODULE FuseFile ------------------------------
(***************************************************************************)
(* The three file handles (struct fuse_filehandle) of one vnode.  open,    *)
(* close, create, read, write, readdir, fsync and inactive hold the node   *)
(* lock for the whole operation (nodelocked_vnop), page I/O and reclaim do *)
(* not (locked_vnop), and create holds the lock of the directory.          *)
(*                                                                         *)
(* The biglock is released whenever an operation waits for the daemon, so  *)
(* one action is the code from one answer to the next message.             *)
(* Descriptors, mappings and the calls of inactive and reclaim are the     *)
(* VFS's: VNOP_CLOSE once for each descriptor, VNOP_INACTIVE when the last *)
(* use of the vnode is gone, VNOP_RECLAIM when nobody has a reference.     *)
(***************************************************************************)
EXTENDS Integers, FiniteSets, FiniteSetsExt

CONSTANTS
    Users,       \* threads that make system calls, one descriptor each
    Pagers,      \* threads that page in and out
    Vfs,         \* the thread that recycles vnodes
    Kinds,       \* "dir", "direct" (a file, direct_io mount), "cached" (a file)
    MaxHandles   \* bound: handles the daemon ever gives out

Threads == Users \cup Pagers \cup {Vfs}

ASSUME FileAssumption ==
    /\ Users \cap Pagers = {} /\ Vfs \notin Users \cup Pagers
    /\ Kinds \subseteq {"dir", "direct", "cached"}
    /\ MaxHandles \in Nat

\* A system has finitely many threads and descriptors at a time.
ASSUME FiniteAssumption == IsFiniteSet(Users)

\* fufh_type_t
FUFH_RDONLY == 0
FUFH_WRONLY == 1
FUFH_RDWR   == 2
Types == FUFH_RDONLY .. FUFH_RDWR

Closed == 3                          \* no descriptor
Nobody == "nobody"
Handles == 1 .. MaxHandles           \* what the daemon calls fh; 0 is none

ASSUME NobodyAssumption == Nobody \notin Threads

VARIABLES
    fufh,        \* fvdat->fufh
    vn,          \* the vnode
    nodelock,    \* who holds fvdat->nodelock
    thr,         \* control and locals of each thread
    desc,        \* the open descriptor of each user: its fufh type, or Closed
    dead,        \* fuse_isdeadfs
    noimpl,      \* data->noimplflags
    fh_current,  \* fuse_fh_current
    given,       \* handles in answers of the daemon so far
    dropped,     \* ghost: those of them that came in an answer nobody used
    released,    \* number of RELEASE messages for each handle
    over,        \* ghost: "get": an OPEN's handle replaced one in use;
                 \* "create": CREATE was answered with a node that has a vnode
    panic

vars == <<fufh, vn, nodelock, thr, desc, dead, noimpl, fh_current, given, dropped, released, over, panic>>

IdleThread == [pc |-> "idle", op |-> "none", t |-> FUFH_RDONLY, fh |-> 0]

\* fuse_open_flags is abstracted to FOPEN_DIRECT_IO
NewFufh == [t \in Types |-> [fh_id |-> 0, open_count |-> 0, direct |-> FALSE]]

\* direct: FN_DIRECT_IO or a direct_io mount; busy: VL_NEEDINACTIVE, the
\* vnode was in use since the last VNOP_INACTIVE; mapped, dirty: its pages
NewVnode(k) == [kind |-> k, live |-> TRUE, direct |-> k = "direct", busy |-> FALSE,
                mapped |-> FALSE, dirty |-> FALSE]

Init ==
    /\ fufh = NewFufh
    /\ \E k \in Kinds, l \in BOOLEAN : vn = [NewVnode(k) EXCEPT !.live = l]
    /\ nodelock = Nobody
    /\ thr = [x \in Threads |-> IdleThread]
    /\ desc = [x \in Users |-> Closed]
    /\ dead = FALSE /\ noimpl = {} /\ fh_current = 0
    /\ given = 0 /\ dropped = {} /\ released = [h \in Handles |-> 0]
    /\ over = {} /\ panic = "none"

-----------------------------------------------------------------------------

At(x, l) == thr[x].pc = l
IsDir == vn.kind = "dir"

\* FUFH_IS_VALID
Valid(t) == fufh[t].open_count > 0

\* x may get a reference to the vnode: it exists and is not being reclaimed
Reachable == vn.live /\ thr[Vfs].op \notin {"reclaim", "vclean"}

\* nodelocked_vnop: the operation begins with the node lock
Begins(x) == At(x, "idle") /\ Reachable /\ nodelock = Nobody /\ panic = "none"

\* the operation of x ends, and with it the node lock if x holds it
Ends(x) ==
    /\ thr' = [thr EXCEPT ![x] = IdleThread]
    /\ nodelock' = IF nodelock = x THEN Nobody ELSE nodelock

\* x sends a message of operation o and waits at label l; the message names
\* the handle in slot t
Sends(x, l, o, t) ==
    thr' = [thr EXCEPT ![x] = [pc |-> l, op |-> o, t |-> t, fh |-> fufh[t].fh_id]]

Upcall == UNCHANGED <<fufh, vn, desc, dead, noimpl, fh_current, given, dropped, released, over, panic>>

-----------------------------------------------------------------------------
(* fuse_filehandle_get: OPEN or OPENDIR *)

\* the slot is looked at before the message is sent, not after the answer
Get(x, o, t) ==
    IF Valid(t)
    THEN panic' = "filehandle_get called despite valid fufh" /\ UNCHANGED thr
    ELSE /\ thr' = [thr EXCEPT ![x] = [pc |-> "get", op |-> o, t |-> t, fh |-> 0]]
         /\ UNCHANGED panic

\* the daemon's answer gives handle given + 1 to slot t
Install(t, d) ==
    /\ given < MaxHandles /\ given' = given + 1
    /\ fufh' = [fufh EXCEPT ![t] = [fh_id |-> given', open_count |-> 1, direct |-> d]]
    /\ fh_current' = fh_current + 1

\* where an operation goes on with its new handle
GetOk(x) ==
    /\ At(x, "get") /\ ~dead /\ panic = "none"
    /\ \E d \in {FALSE, vn.kind = "cached"} : Install(thr[x].t, d)
    /\ over' = IF Valid(thr[x].t) THEN over \cup {"get"} ELSE over
    /\ IF thr[x].op = "open"
       THEN /\ desc' = [desc EXCEPT ![x] = thr[x].t]
            /\ vn' = [vn EXCEPT !.busy = TRUE, !.direct = @ \/ fufh'[thr[x].t].direct]
            /\ Ends(x)
       ELSE /\ thr' = [thr EXCEPT ![x].pc = IF thr[x].op = "readdir" THEN "readdir" ELSE "io",
                                  ![x].fh = given']
            /\ UNCHANGED <<desc, vn, nodelock>>
    /\ UNCHANGED <<dead, noimpl, dropped, released, panic>>

\* Page I/O inside another operation fails without failing that operation.
GetLeaves(x) ==
    /\ At(x, "get") /\ panic = "none"
    /\ IF thr[x].op \in {"close", "fsync"}
       THEN thr' = [thr EXCEPT ![x].pc = "pushed"] /\ UNCHANGED nodelock
       ELSE Ends(x)

\* an error, or the session died, or a signal and the late answer is an error
GetFail(x) == GetLeaves(x) /\ Upcall

\* the daemon's answer gives handle given + 1, which no slot takes and no RELEASE names
Drops ==
    /\ ~dead /\ given < MaxHandles /\ given' = given + 1
    /\ dropped' = dropped \cup {given'}
    /\ UNCHANGED <<fufh, vn, desc, dead, noimpl, fh_current, released, over, panic>>

\* A signal ended the wait, and fuse_standard_callback drops the ticket of a request
\* nobody waits for with the handle in it.
GetDropped(x) == GetLeaves(x) /\ Drops

-----------------------------------------------------------------------------
(* fuse_filehandle_put: RELEASE or RELEASEDIR *)

\* slot t gets use count c; without a use its handle is released, by a message
\* unless the session is dead
Put(x, o, t, c) ==
    /\ fufh' = [fufh EXCEPT ![t].open_count = c]
    /\ IF c > 0
       THEN panic' = "filehandle_put called on a valid fufh" /\ UNCHANGED <<thr, released>>
       ELSE /\ thr' = [thr EXCEPT ![x] = [pc |-> "put", op |-> o, t |-> t, fh |-> 0]]
            /\ released' = IF dead THEN released ELSE [released EXCEPT ![fufh[t].fh_id] = @ + 1]
            /\ UNCHANGED panic

\* Mutant: fuse_fh_current is not decremented after the last close.
PutDoneUncounted(x) ==
    /\ At(x, "put") /\ panic = "none"
    /\ IF thr[x].op \in {"close", "readdir"}
       THEN Ends(x) /\ UNCHANGED fh_current
       ELSE /\ thr' = [thr EXCEPT ![x].pc = "scan", ![x].t = @ + 1]
            /\ fh_current' = fh_current - 1 /\ UNCHANGED nodelock
    /\ UNCHANGED <<fufh, vn, desc, dead, noimpl, given, dropped, released, over, panic>>

\* the RELEASE was answered, whatever the answer, or not sent
PutDone(x) ==
    /\ At(x, "put") /\ panic = "none"
    /\ fh_current' = fh_current - 1
    /\ IF thr[x].op \in {"close", "readdir"}
       THEN Ends(x)
       ELSE /\ thr' = [thr EXCEPT ![x].pc = "scan", ![x].t = @ + 1]
            /\ UNCHANGED nodelock
    /\ UNCHANGED <<fufh, vn, desc, dead, noimpl, given, dropped, released, over, panic>>

\* FUFH_USE_DEC, and fuse_filehandle_put after the last use
UseDec(x, o, t) ==
    LET c == fufh[t].open_count - 1 IN
    IF c > 0
    THEN /\ fufh' = [fufh EXCEPT ![t].open_count = c]
         /\ Ends(x) /\ UNCHANGED <<released, panic>>
    ELSE Put(x, o, t, c) /\ nodelock' = x

-----------------------------------------------------------------------------
(* fuse_internal_strategy, called by the pager, by cluster_read and _write *)
(* and by cluster_push *)

Slot(o) == IF o \in {"pagein", "read"} THEN FUFH_RDONLY ELSE FUFH_WRONLY

\* Mutant: page I/O that finds no handle of its own type asks for one.
StrategyOwn(x, o) ==
    IF Valid(Slot(o)) THEN Sends(x, "io", o, Slot(o)) /\ UNCHANGED panic
    ELSE Get(x, o, IF o \in {"pagein", "read"} THEN FUFH_RDONLY ELSE FUFH_RDWR)

Strategy(x, o) ==
    CASE Valid(Slot(o))   -> Sends(x, "io", o, Slot(o)) /\ UNCHANGED panic
      [] ~Valid(Slot(o)) /\ Valid(FUFH_RDWR)
                          -> Sends(x, "io", o, FUFH_RDWR) /\ UNCHANGED panic
      [] OTHER            -> Get(x, o, IF Slot(o) = FUFH_RDONLY THEN FUFH_RDONLY ELSE FUFH_RDWR)

\* the next chunk: fh_id is read again, from the slot chosen before the sleep
IoNext(x) ==
    /\ At(x, "io") /\ ~dead /\ panic = "none"
    /\ Sends(x, "io", thr[x].op, thr[x].t)
    /\ UNCHANGED nodelock /\ Upcall

IoDone(x) ==
    /\ At(x, "io") /\ panic = "none"
    /\ IF thr[x].op \in {"close", "fsync"}
       THEN thr' = [thr EXCEPT ![x].pc = "pushed", ![x].fh = 0] /\ UNCHANGED nodelock
       ELSE Ends(x)
    /\ vn' = [vn EXCEPT !.dirty = @ /\ thr[x].op \in {"pagein", "read"}]
    /\ UNCHANGED <<fufh, desc, dead, noimpl, fh_current, given, dropped, released, over, panic>>

\* fuse_vnop_pagein and fuse_vnop_pageout, for a page of a mapping and a dirty page
Page(x, o) ==
    /\ At(x, "idle") /\ Reachable /\ panic = "none"
    /\ ~dead /\ ~vn.direct /\ ~IsDir
    /\ IF o = "pagein" THEN vn.mapped ELSE vn.dirty
    /\ Strategy(x, o)
    /\ UNCHANGED <<fufh, vn, nodelock, desc, dead, noimpl, fh_current, given, dropped, released, over>>

-----------------------------------------------------------------------------
(* fuse_vnop_open, fuse_vnop_create *)

\* the tail of open, with the handle in slot t
Opened(x, t) ==
    /\ desc' = [desc EXCEPT ![x] = t]
    /\ vn' = [vn EXCEPT !.busy = TRUE, !.direct = @ \/ fufh[t].direct]

\* after create, or of a vnode that lookup found
OpenBegins(x) ==
    /\ At(x, "idle") \/ At(x, "created")
    /\ desc[x] = Closed /\ Reachable /\ nodelock = Nobody /\ panic = "none"

\* Mutants: open takes up a handle that was released, because fh_id is still set;
\* open does not count its use.
OpenReuseStale(x, t) ==
    /\ OpenBegins(x) /\ ~dead /\ fufh[t].fh_id # 0
    /\ fufh' = [fufh EXCEPT ![t].open_count = @ + 1]
    /\ Opened(x, t) /\ Ends(x)
    /\ UNCHANGED <<dead, noimpl, fh_current, given, dropped, released, over, panic>>
OpenReuseUncounted(x, t) ==
    /\ OpenBegins(x) /\ ~dead /\ Valid(t)
    /\ Opened(x, t) /\ Ends(x)
    /\ UNCHANGED <<fufh, dead, noimpl, fh_current, given, dropped, released, over, panic>>

OpenReuse(x, t) ==
    /\ OpenBegins(x) /\ ~dead /\ Valid(t)
    /\ fufh' = [fufh EXCEPT ![t].open_count = @ + 1]
    /\ Opened(x, t) /\ Ends(x)
    /\ UNCHANGED <<dead, noimpl, fh_current, given, dropped, released, over, panic>>

\* Mutant: open waits for its handle without the node lock.
OpenGetUnlocked(x, t) ==
    /\ OpenBegins(x) /\ ~dead /\ ~Valid(t)
    /\ Get(x, "open", t)
    /\ UNCHANGED <<fufh, vn, nodelock, desc, dead, noimpl, fh_current, given, dropped, released, over>>

OpenGet(x, t) ==
    /\ OpenBegins(x) /\ ~dead /\ ~Valid(t)
    /\ Get(x, "open", t) /\ nodelock' = x
    /\ UNCHANGED <<fufh, vn, desc, dead, noimpl, fh_current, given, dropped, released, over>>

\* ENXIO, or open was not called after create
OpenFail(x) == At(x, "created") /\ panic = "none" /\ Ends(x) /\ Upcall

\* the lock of the directory admits one create at a time
Create(x) ==
    /\ At(x, "idle") /\ desc[x] = Closed /\ ~dead /\ ~IsDir /\ panic = "none"
    /\ \A y \in Users : thr[y].op # "create"
    /\ thr' = [thr EXCEPT ![x].pc = IF "CREATE" \in noimpl THEN "mknod" ELSE "create",
                          ![x].op = "create"]
    /\ UNCHANGED nodelock /\ Upcall

Found == [vn EXCEPT !.live = TRUE]

\* Mutant: create does not count its handle in fuse_fh_current.
CreateOkUncounted(x) ==
    /\ At(x, "create") /\ ~dead /\ panic = "none" /\ (vn.live => Reachable)
    /\ given < MaxHandles /\ given' = given + 1
    /\ fufh' = [fufh EXCEPT ![FUFH_RDWR].fh_id = given', ![FUFH_RDWR].open_count = 1]
    /\ over' = IF vn.live THEN over \cup {"create"} ELSE over
    /\ vn' = Found
    /\ thr' = [thr EXCEPT ![x] = [IdleThread EXCEPT !.pc = "created"]]
    /\ UNCHANGED <<nodelock, desc, dead, noimpl, fh_current, dropped, released, panic>>

\* The new vnode, or the one that the node already has, keeps the handle in
\* FUFH_RDWR with use count 1.  fuse_open_flags is not set.
CreateOk(x) ==
    /\ At(x, "create") /\ ~dead /\ panic = "none" /\ (vn.live => Reachable)
    /\ Install(FUFH_RDWR, fufh[FUFH_RDWR].direct)
    /\ over' = IF vn.live THEN over \cup {"create"} ELSE over
    /\ vn' = Found
    /\ thr' = [thr EXCEPT ![x] = [IdleThread EXCEPT !.pc = "created"]]
    /\ UNCHANGED <<nodelock, desc, dead, noimpl, dropped, released, panic>>

\* Mutant: the handle of a file without a vnode is not released.
CreateNoVnodeLost(x) ==
    /\ At(x, "create") /\ ~dead /\ panic = "none"
    /\ given < MaxHandles /\ given' = given + 1
    /\ Ends(x)
    /\ UNCHANGED <<fufh, vn, desc, dead, noimpl, fh_current, dropped, released, over, panic>>

\* FSNodeGetOrCreateFileVNodeByID failed: the handle is released at once
CreateNoVnode(x) ==
    /\ At(x, "create") /\ ~dead /\ panic = "none"
    /\ given < MaxHandles /\ given' = given + 1
    /\ released' = [released EXCEPT ![given'] = @ + 1]
    /\ Ends(x)
    /\ UNCHANGED <<fufh, vn, desc, dead, noimpl, fh_current, dropped, over, panic>>

CreateNosys(x) ==
    /\ At(x, "create") /\ ~dead /\ panic = "none"
    /\ noimpl' = noimpl \cup {"CREATE"}
    /\ thr' = [thr EXCEPT ![x].pc = "mknod"]
    /\ UNCHANGED <<fufh, vn, nodelock, desc, dead, fh_current, given, dropped, released, over, panic>>

MknodOk(x) ==
    /\ At(x, "mknod") /\ ~dead /\ panic = "none" /\ (vn.live => Reachable)
    /\ vn' = Found
    /\ thr' = [thr EXCEPT ![x] = [IdleThread EXCEPT !.pc = "created"]]
    /\ UNCHANGED <<fufh, nodelock, desc, dead, noimpl, fh_current, given, dropped, released, over, panic>>

\* an error, a signal, or an entry of MKNOD that fuse_internal_checkentry refuses
CreateFail(x) ==
    /\ At(x, "create") \/ At(x, "mknod")
    /\ panic = "none" /\ Ends(x) /\ Upcall

\* CREATE succeeds and fuse_internal_checkentry refuses its entry, or the answer
\* comes after a signal
CreateDropped(x) == At(x, "create") /\ panic = "none" /\ Ends(x) /\ Drops

-----------------------------------------------------------------------------
(* fuse_vnop_close *)

\* a dead session, or a descriptor whose handle is gone: nothing is counted
CloseNothing(x) ==
    /\ Begins(x) /\ desc[x] # Closed
    /\ dead \/ ~Valid(desc[x])
    /\ desc' = [desc EXCEPT ![x] = Closed]
    /\ UNCHANGED <<fufh, vn, nodelock, thr, dead, noimpl, fh_current, given, dropped, released, over, panic>>

Closes(x) == Begins(x) /\ desc[x] # Closed /\ ~dead /\ Valid(desc[x])

\* cluster_push writes the dirty pages first
ClosePush(x) ==
    /\ Closes(x) /\ vn.dirty
    /\ Strategy(x, "close") /\ nodelock' = x
    /\ UNCHANGED <<fufh, vn, desc, dead, noimpl, fh_current, given, dropped, released, over>>

Pushed(x, o) == At(x, "pushed") /\ thr[x].op = o /\ panic = "none"
Synced(x) == Pushed(x, "close") \/ (Closes(x) /\ ~vn.dirty)

Flush(x) ==
    /\ Synced(x) /\ ~IsDir /\ "FLUSH" \notin noimpl
    /\ Sends(x, "flush", "close", desc[x]) /\ nodelock' = x
    /\ Upcall

\* FUFH_USE_DEC after the flush, whatever its answer
CloseDec(x) ==
    /\ \/ At(x, "flush") /\ panic = "none" /\ noimpl' \in {noimpl, noimpl \cup {"FLUSH"}}
       \/ Synced(x) /\ (IsDir \/ "FLUSH" \in noimpl) /\ UNCHANGED noimpl
    /\ UseDec(x, "close", desc[x])
    /\ desc' = [desc EXCEPT ![x] = Closed]
    /\ UNCHANGED <<vn, dead, fh_current, given, dropped, over>>

-----------------------------------------------------------------------------
(* fuse_vnop_read, fuse_vnop_write, fuse_vnop_readdir, fuse_vnop_fsync *)

\* read and write of a descriptor that allows it
Allows(x, o) == IF o = "read" THEN desc[x] \in {FUFH_RDONLY, FUFH_RDWR}
                              ELSE desc[x] \in {FUFH_WRONLY, FUFH_RDWR}

\* Mutant: direct I/O does not hold the node lock.
DirectIoUnlocked(x, o) ==
    /\ Begins(x) /\ ~dead /\ ~IsDir /\ vn.direct /\ Allows(x, o)
    /\ \/ Valid(Slot(o)) /\ Sends(x, "io", o, Slot(o))
       \/ ~Valid(Slot(o)) /\ Valid(FUFH_RDWR) /\ Sends(x, "io", o, FUFH_RDWR)
    /\ UNCHANGED nodelock /\ Upcall

\* direct I/O uses a handle of its own type or FUFH_RDWR, and fails without one
DirectIo(x, o) ==
    /\ Begins(x) /\ ~dead /\ ~IsDir /\ vn.direct /\ Allows(x, o)
    /\ \/ Valid(Slot(o)) /\ Sends(x, "io", o, Slot(o))
       \/ ~Valid(Slot(o)) /\ Valid(FUFH_RDWR) /\ Sends(x, "io", o, FUFH_RDWR)
    /\ nodelock' = x /\ Upcall

\* cluster_read and cluster_write, when they go to the daemon
CachedIo(x, o) ==
    /\ Begins(x) /\ ~dead /\ ~IsDir /\ ~vn.direct /\ Allows(x, o)
    /\ Strategy(x, o) /\ nodelock' = x
    /\ UNCHANGED <<fufh, vn, desc, dead, noimpl, fh_current, given, dropped, released, over>>

\* a write that stays in the page cache, or one through a mapping
Dirty(x) ==
    /\ Begins(x) /\ ~dead /\ ~vn.direct /\ ~vn.dirty
    /\ Allows(x, "write") \/ vn.mapped
    /\ vn' = [vn EXCEPT !.dirty = TRUE]
    /\ UNCHANGED <<fufh, nodelock, thr, desc, dead, noimpl, fh_current, given, dropped, released, over, panic>>

\* readdir counts a use of the handle for as long as it reads
Readdir(x) ==
    /\ Begins(x) /\ ~dead /\ IsDir
    /\ IF Valid(FUFH_RDONLY)
       THEN /\ fufh' = [fufh EXCEPT ![FUFH_RDONLY].open_count = @ + 1]
            /\ Sends(x, "readdir", "readdir", FUFH_RDONLY) /\ UNCHANGED panic
       ELSE Get(x, "readdir", FUFH_RDONLY) /\ UNCHANGED fufh
    /\ nodelock' = x
    /\ UNCHANGED <<vn, desc, dead, noimpl, fh_current, given, dropped, released, over>>

ReaddirDone(x) ==
    /\ At(x, "readdir") /\ panic = "none"
    /\ UseDec(x, "readdir", FUFH_RDONLY)
    /\ UNCHANGED <<vn, desc, dead, noimpl, fh_current, given, dropped, over>>

FsyncPush(x) ==
    /\ Begins(x) /\ ~dead /\ vn.dirty
    /\ Strategy(x, "fsync") /\ nodelock' = x
    /\ UNCHANGED <<fufh, vn, desc, dead, noimpl, fh_current, given, dropped, released, over>>

\* the slots from t on that are in use
InUse(t) == {k \in Types : k >= t /\ Valid(k)}

\* FSYNC for each handle, in the order of the slots
FsyncBegin(x) ==
    /\ Pushed(x, "fsync") \/ (Begins(x) /\ ~dead /\ ~vn.dirty)
    /\ "FSYNC" \notin noimpl /\ InUse(0) # {}
    /\ Sends(x, "fsync", "fsync", Min(InUse(0))) /\ nodelock' = x
    /\ Upcall

FsyncNext(x) ==
    /\ At(x, "fsync") /\ panic = "none"
    /\ noimpl' \in {noimpl, noimpl \cup {"FSYNC"}}
    /\ IF InUse(thr[x].t + 1) = {} THEN Ends(x)
       ELSE Sends(x, "fsync", "fsync", Min(InUse(thr[x].t + 1))) /\ UNCHANGED nodelock
    /\ UNCHANGED <<fufh, vn, desc, dead, fh_current, given, dropped, released, over, panic>>

FsyncEnd(x) ==
    /\ Pushed(x, "fsync") /\ ("FSYNC" \in noimpl \/ InUse(0) = {})
    /\ Ends(x) /\ Upcall

-----------------------------------------------------------------------------
(* fuse_vnop_mmap, fuse_vnop_mnomap, fuse_vnop_inactive, fuse_vnop_reclaim *)

\* mmap returns 0 for every protection that has a bit set: no handle is taken
Mmap(x) ==
    /\ Begins(x) /\ ~dead /\ ~IsDir /\ ~vn.direct /\ desc[x] # Closed /\ ~vn.mapped
    /\ vn' = [vn EXCEPT !.mapped = TRUE, !.busy = TRUE]
    /\ UNCHANGED <<fufh, nodelock, thr, desc, dead, noimpl, fh_current, given, dropped, released, over, panic>>

Mnomap ==
    /\ vn.mapped /\ nodelock = Nobody /\ panic = "none"
    /\ vn' = [vn EXCEPT !.mapped = FALSE]
    /\ UNCHANGED <<fufh, nodelock, thr, desc, dead, noimpl, fh_current, given, dropped, released, over, panic>>

\* nobody has an iocount on the vnode; nobody has a usecount
NoIo  == vn.live /\ panic = "none" /\ \A x \in Threads : At(x, "idle")
NoUse == ~vn.mapped /\ \A x \in Users : desc[x] = Closed

Scans(o) == thr' = [thr EXCEPT ![Vfs] = [pc |-> "scan", op |-> o, t |-> 0, fh |-> 0]]

Inactive ==
    /\ NoIo /\ NoUse /\ vn.busy
    /\ Scans("inactive") /\ nodelock' = Vfs
    /\ vn' = [vn EXCEPT !.busy = FALSE]
    /\ UNCHANGED <<fufh, desc, dead, noimpl, fh_current, given, dropped, released, over, panic>>

\* a vnode that was used again since has VNOP_INACTIVE called first
Reclaim ==
    /\ NoIo /\ NoUse /\ ~vn.busy /\ (dead \/ ~vn.dirty)
    /\ Scans("reclaim") /\ UNCHANGED nodelock /\ Upcall

\* A forced unmount takes the vnode away from those who use it: VNOP_CLOSE with
\* IO_NDELAY, which does nothing, then VNOP_INACTIVE and VNOP_RECLAIM.
Vclean ==
    /\ NoIo /\ ~NoUse
    /\ Scans("vclean") /\ nodelock' = Vfs
    /\ desc' = [x \in Users |-> Closed]
    /\ vn' = [vn EXCEPT !.mapped = FALSE, !.dirty = FALSE, !.busy = FALSE]
    /\ UNCHANGED <<fufh, dead, noimpl, fh_current, given, dropped, released, over, panic>>

\* reclaim looks at no handle when the session is dead
Scanned == IF thr[Vfs].op = "reclaim" /\ dead THEN {} ELSE InUse(thr[Vfs].t)

\* FUFH_USE_RESET and fuse_filehandle_put for the next handle in use
ScanPut ==
    /\ At(Vfs, "scan") /\ panic = "none" /\ Scanned # {}
    /\ Put(Vfs, thr[Vfs].op, Min(Scanned), 0)
    /\ UNCHANGED <<vn, nodelock, desc, dead, noimpl, fh_current, given, dropped, over>>

InactiveEnd ==
    /\ At(Vfs, "scan") /\ panic = "none" /\ Scanned = {}
    /\ thr[Vfs].op = "inactive"
    /\ Ends(Vfs) /\ Upcall

VcleanReclaim ==
    /\ At(Vfs, "scan") /\ panic = "none" /\ Scanned = {}
    /\ thr[Vfs].op = "vclean"
    /\ Scans("reclaim") /\ nodelock' = Nobody /\ Upcall

\* fuse_vnode_data_destroy
ReclaimEnd ==
    /\ At(Vfs, "scan") /\ panic = "none" /\ Scanned = {}
    /\ thr[Vfs].op = "reclaim"
    /\ fufh' = NewFufh
    /\ vn' = [NewVnode(vn.kind) EXCEPT !.live = FALSE]
    /\ Ends(Vfs)
    /\ UNCHANGED <<desc, dead, noimpl, fh_current, given, dropped, released, over, panic>>

\* another lookup gets a new vnode
Lookup ==
    /\ ~vn.live /\ ~dead /\ panic = "none"
    /\ vn' = Found
    /\ UNCHANGED <<fufh, nodelock, thr, desc, dead, noimpl, fh_current, given, dropped, released, over, panic>>

\* fuse_data_kill, or the daemon left
Die ==
    /\ ~dead /\ panic = "none"
    /\ dead' = TRUE
    /\ UNCHANGED <<fufh, vn, nodelock, thr, desc, noimpl, fh_current, given, dropped, released, over, panic>>

-----------------------------------------------------------------------------

Waits(x) == GetOk(x) \/ GetFail(x) \/ GetDropped(x) \/ PutDone(x) \/ IoNext(x) \/ IoDone(x)

UserStep(x) ==
    \/ \E t \in IF IsDir THEN {FUFH_RDONLY} ELSE Types : OpenReuse(x, t) \/ OpenGet(x, t)
    \/ OpenFail(x)
    \/ Create(x) \/ CreateOk(x) \/ CreateNoVnode(x) \/ CreateNosys(x)
    \/ MknodOk(x) \/ CreateFail(x) \/ CreateDropped(x)
    \/ CloseNothing(x) \/ ClosePush(x) \/ Flush(x) \/ CloseDec(x)
    \/ \E o \in {"read", "write"} : DirectIo(x, o) \/ CachedIo(x, o)
    \/ Dirty(x)
    \/ Readdir(x) \/ ReaddirDone(x)
    \/ FsyncPush(x) \/ FsyncBegin(x) \/ FsyncNext(x) \/ FsyncEnd(x)
    \/ Mmap(x)

VfsStep ==
    \/ Mnomap \/ Inactive \/ Reclaim \/ Vclean
    \/ ScanPut \/ InactiveEnd \/ VcleanReclaim \/ ReclaimEnd
    \/ Lookup \/ Die

Next ==
    \/ \E x \in Threads : Waits(x)
    \/ \E x \in Users : UserStep(x)
    \/ \E x \in Pagers, o \in {"pagein", "pageout"} : Page(x, o)
    \/ VfsStep

Spec == Init /\ [][Next]_vars

-----------------------------------------------------------------------------

ThreadState == [pc : {"idle", "get", "put", "io", "pushed", "flush", "readdir", "fsync", "scan",
                      "create", "mknod", "created"},
                op : {"none", "open", "create", "close", "readdir", "fsync", "read", "write",
                      "pagein", "pageout", "inactive", "reclaim", "vclean"},
                t : Types \cup {3}, fh : Handles \cup {0}]

TypeOK ==
    /\ fufh \in [Types -> [fh_id : Handles \cup {0}, open_count : Nat, direct : BOOLEAN]]
    /\ vn \in [kind : Kinds, live : BOOLEAN, direct : BOOLEAN, busy : BOOLEAN,
               mapped : BOOLEAN, dirty : BOOLEAN]
    /\ nodelock \in Threads \cup {Nobody}
    /\ thr \in [Threads -> ThreadState]
    /\ desc \in [Users -> Types \cup {Closed}]
    /\ dead \in BOOLEAN /\ noimpl \subseteq {"CREATE", "FLUSH", "FSYNC"}
    /\ fh_current \in Nat /\ given \in Handles \cup {0} /\ dropped \subseteq Handles
    /\ released \in [Handles -> Nat]
    /\ over \subseteq {"get", "create"}
    /\ panic \in {"none", "filehandle_get called despite valid fufh",
                  "filehandle_put called on a valid fufh"}

\* The kext's own checks: fuse_filehandle_get is never called for a slot in use,
\* nor fuse_filehandle_put, although page I/O chooses its slot without the node lock.
NoFilehandlePanic == panic = "none"

\* A slot in use names a handle that has not been released, and no handle is
\* released twice: a put cannot meet an open or page I/O that takes the old handle up
\* again, although fh_id stays in the slot while RELEASE is answered.
ValidHandleOpen ==
    /\ \A t \in Types : Valid(t) => fufh[t].fh_id # 0 /\ released[fufh[t].fh_id] = 0
    /\ \A h \in Handles : released[h] <= 1

\* What the node lock is for: a vnode without page I/O never has two
\* fuse_filehandle_get for one slot under way, so that one overwrites the other's handle.
\* (create holds the lock of the directory only, and may if it meets an existing node.)
NodeLockProtects == vn.kind # "cached" /\ "create" \notin over => "get" \notin over

\* The daemon is sent no request for a handle it was told to release, and no RELEASE
\* while a request for that handle waits, on vnodes without page I/O.
NoUseAfterRelease ==
    vn.kind # "cached" =>
        \A x \in Threads : thr[x].fh # 0 => released[thr[x].fh] = 0

\* Every descriptor is counted in its slot until it is closed, unless the slot was
\* overwritten or the session died: close never finds its handle gone.
DescriptorsCounted ==
    over = {} /\ ~dead =>
        \A t \in Types : Cardinality({x \in Users : desc[x] = t}) <= fufh[t].open_count

\* In a session that lives a handle is lost in three ways only: it was overwritten
\* (over), it came after a signal had ended the wait for OPEN or CREATE, or in an
\* answer to CREATE whose entry fuse_internal_checkentry refused (dropped).  Every
\* other one that was given is in a slot in use until it is released, also when
\* create gets no vnode, when opens fail, and when the vnode is reclaimed.
NoHandleLost ==
    over = {} /\ ~dead =>
        \A h \in (1 .. given) \ dropped :
            released[h] = 1 \/ \E t \in Types : Valid(t) /\ fufh[t].fh_id = h

\* The sysctl fuse_fh_current counts the handles in use and those being released.
HandleCount ==
    over = {} /\ ~dead =>
        fh_current = Cardinality(InUse(0)) + Cardinality({x \in Threads : At(x, "put")})
=============================================================================
