--------------------------- MODULE FuseFileProofs ---------------------------
(***************************************************************************)
(* The file handles of a vnode, for any number of threads, descriptors and *)
(* handles.                                                                *)
(*                                                                         *)
(* The argument.  The operations in Holds have the node lock from their    *)
(* first step to their last, and a recycled vnode has no other operation:  *)
(* so a slot that such an operation found in use is in use when it comes   *)
(* back to it, whatever the daemon's delays.  Only page I/O and create     *)
(* change a slot without the lock, and they only put a new handle into it. *)
(***************************************************************************)
EXTENDS FuseFile, FiniteSetTheorems, TLAPS

USE FileAssumption, NobodyAssumption, FiniteAssumption

-----------------------------------------------------------------------------
(* The inductive invariant *)

\* nodelocked_vnop: the operations that have the node lock
Holds == {"open", "close", "readdir", "fsync", "read", "write", "inactive", "vclean"}

\* the operations of each kind of thread
OpsOf(x) == IF x \in Users
            THEN {"none", "open", "create", "close", "readdir", "fsync", "read", "write"}
            ELSE IF x \in Pagers THEN {"none", "pagein", "pageout"}
            ELSE {"none", "inactive", "reclaim", "vclean"}

\* the operations that may be at label l
OpsAt(l) ==
    CASE l \in {"idle", "created"} -> {"none"}
      [] l \in {"create", "mknod"} -> {"create"}
      [] l = "get"     -> {"open", "close", "readdir", "fsync", "read", "write", "pagein", "pageout"}
      [] l = "io"      -> {"close", "fsync", "read", "write", "pagein", "pageout"}
      [] l = "put"     -> {"close", "readdir", "inactive", "reclaim", "vclean"}
      [] l = "pushed"  -> {"close", "fsync"}
      [] l = "flush"   -> {"close"}
      [] l = "readdir" -> {"readdir"}
      [] l = "fsync"   -> {"fsync"}
      [] l = "scan"    -> {"inactive", "reclaim", "vclean"}

\* What thread x at s does, and what it relies on when the daemon has answered.
PlaceOf(x, s) ==
    /\ s.op \in OpsAt(s.pc) /\ s.op \in OpsOf(x)
    /\ s.pc \in {"get", "put", "io", "fsync"} => s.t \in Types
    /\ s.fh # 0 => s.pc \in {"io", "flush", "readdir", "fsync"}
    /\ s.op = "open" => desc[x] = Closed
    /\ s.op = "readdir" /\ s.pc = "get" => s.t = FUFH_RDONLY
    /\ s.pc = "readdir" => Valid(FUFH_RDONLY)
    /\ s.op = "close" /\ s.pc # "put" => desc[x] \in Types /\ Valid(desc[x])
    /\ s.pc \notin {"idle", "create", "mknod"} => vn.live

PlacesOk == \A x \in Threads : PlaceOf(x, thr[x])
LocksOk  == \A x \in Threads : nodelock = x <=> thr[x].op \in Holds

\* What recycling a vnode relies on: nobody uses it.
RecycleOk ==
    LET s == thr[Vfs] IN
    /\ s.op # "none" => \A u \in Users : desc[u] = Closed
    /\ s.op \in {"reclaim", "vclean"} =>
          /\ \A x \in Threads \ {Vfs} : thr[x].pc \in {"idle", "create", "mknod"}
          /\ \A k \in Types : (k < s.t \/ (k = s.t /\ s.pc = "put")) => ~Valid(k)
    /\ ~vn.live => \A k \in Types : ~Valid(k)
    /\ ~vn.live => \A u \in Users : desc[u] = Closed

\* A slot in use has a handle of its own that is not released.
SlotsOk ==
    /\ \A k \in Types : Valid(k) => fufh[k].fh_id \in 1 .. given /\ released[fufh[k].fh_id] = 0
    /\ \A j, k \in Types : Valid(j) /\ Valid(k) /\ fufh[j].fh_id = fufh[k].fh_id => j = k
    /\ \A h \in Handles : released[h] <= 1 /\ (h > given => released[h] = 0)

\* A thread at s that works on a vnode without page I/O.
UnpagedOf(s) ==
    /\ s.op \notin {"pagein", "pageout"}
    /\ s.pc = "get" => s.op \in {"open", "readdir"}
    /\ s.pc = "get" /\ vn.kind = "dir" => s.t = FUFH_RDONLY
    /\ s.pc = "get" /\ "create" \notin over => ~Valid(s.t)
    /\ s.pc = "io" => Valid(s.t)
    /\ s.fh # 0 => s.fh <= given /\ released[s.fh] = 0

\* Its pages are never dirty; a directory has one slot and no mapping.
UnpagedVnode ==
    /\ ~vn.dirty
    /\ vn.kind = "direct" => vn.direct
    /\ vn.kind = "dir" => /\ ~vn.mapped
                          /\ \A u \in Users : desc[u] \in {FUFH_RDONLY, Closed}

\* A vnode without page I/O: the node lock covers every use of a handle.
UnpagedOk == vn.kind # "cached" => UnpagedVnode /\ \A x \in Threads : UnpagedOf(thr[x])

Used(k) == IF Valid(k) THEN 1 ELSE 0
Putting == IF \E x \in Threads : At(x, "put") THEN 1 ELSE 0
Intact  == over = {} /\ ~dead

\* fuse_fh_current counts the slots in use and the handle being released.
CountOk ==
    LET n == Used(FUFH_RDONLY) + Used(FUFH_WRONLY) + Used(FUFH_RDWR) + Putting IN
    fh_current >= n /\ (Intact => fh_current = n)

\* Every descriptor is a use of its slot, and so is a readdir under way.
Descriptors(k) == {u \in Users : desc[u] = k}
Reading == IF \E x \in Threads : At(x, "readdir") THEN 1 ELSE 0
UsesOk ==
    Intact => \A k \in Types :
        Cardinality(Descriptors(k)) + (IF k = FUFH_RDONLY THEN Reading ELSE 0) <= fufh[k].open_count

FileInv ==
    /\ TypeOK /\ panic = "none"
    /\ PlacesOk /\ LocksOk /\ RecycleOk /\ SlotsOk /\ UnpagedOk /\ NodeLockProtects
    /\ CountOk /\ UsesOk /\ NoHandleLost


-----------------------------------------------------------------------------
(* What a step does to the threads and to the node lock *)

\* x goes on at u, the other threads stay where they are
Moves(x, u) ==
    /\ thr' \in [Threads -> ThreadState] /\ thr'[x] = u
    /\ \A y \in Threads \ {x} : thr'[y] = thr[y]

\* x takes the node lock, keeps what it has, or lets go of it
LockChange(x, u) ==
    \/ nodelock = Nobody /\ nodelock' = x /\ u.op \in Holds
    \/ nodelock' = nodelock /\ (u.op \in Holds <=> thr[x].op \in Holds)
    \/ nodelock' = (IF nodelock = x THEN Nobody ELSE nodelock) /\ u.op \notin Holds

\* no other thread has the node lock or reclaims the vnode
Alone(x) == \A y \in Threads \ {x} : thr[y].op \notin Holds \cup {"reclaim"}

\* the step of x takes nothing away that another thread relies on
Keeps(x) ==
    \A y \in Threads \ {x} :
        /\ y \in Users => desc'[y] = desc[y]
        /\ thr[y].pc = "readdir" => fufh'[FUFH_RDONLY].open_count > 0
        /\ thr[y].op = "close" /\ thr[y].pc # "put" /\ Valid(desc[y]) => fufh'[desc[y]].open_count > 0
        /\ vn.live /\ thr[y].pc \notin {"idle", "create", "mknod"} => vn'.live

\* Each field of a thread has its type.
LEMMA ThreadFields ==
    ASSUME TypeOK, NEW x \in Threads
    PROVE  /\ thr[x] \in ThreadState /\ thr[x].t \in Types \cup {3}
           /\ thr[x].fh \in Handles \cup {0}
           /\ thr[x].pc \in {"idle", "get", "put", "io", "pushed", "flush", "readdir", "fsync", "scan",
                      "create", "mknod", "created"}
           /\ thr[x].op \in {"none", "open", "create", "close", "readdir", "fsync", "read", "write",
                      "pagein", "pageout", "inactive", "reclaim", "vclean"}
  <1>1. thr[x] \in ThreadState
    BY DEF TypeOK
  <1> QED
    BY <1>1 DEF ThreadState

\* An assignment to one thread moves that thread.
LEMMA MoveFacts ==
    ASSUME TypeOK, NEW x \in Threads, NEW u \in ThreadState, thr' = [thr EXCEPT ![x] = u]
    PROVE  Moves(x, u)
  BY DEF TypeOK, Moves

\* The node lock names the one operation that needs it.
LEMMA LockMove ==
    ASSUME LocksOk, NEW x \in Threads, NEW u, Moves(x, u), LockChange(x, u)
    PROVE  LocksOk' /\ (nodelock \in Threads \cup {Nobody} => nodelock' \in Threads \cup {Nobody})
  <1>1. \A y \in Threads \ {x} : (nodelock' = y <=> thr'[y].op \in Holds)
    BY DEF LocksOk, Moves, LockChange
  <1>2. nodelock' = x <=> thr'[x].op \in Holds
    BY DEF LocksOk, Moves, LockChange
  <1>3. nodelock \in Threads \cup {Nobody} => nodelock' \in Threads \cup {Nobody}
    BY DEF LockChange
  <1> QED
    BY <1>1, <1>2, <1>3 DEF LocksOk

\* The places of the threads, when x moves and keeps what the others rely on.
LEMMA PlacesMove ==
    ASSUME PlacesOk, NEW x \in Threads, NEW u, Moves(x, u), PlaceOf(x, u)', Keeps(x)
    PROVE  PlacesOk'
  <1>1. SUFFICES ASSUME NEW y \in Threads \ {x}
                 PROVE  PlaceOf(y, thr[y])'
    <2>1. \A y \in Threads : PlaceOf(y, thr[y])'
      <3>1. TAKE y \in Threads
      <3>2. CASE y = x
        BY <3>2, u = thr'[x] DEF Moves, PlaceOf
      <3> QED
        BY <1>1, <3>2
    <2> QED
      BY <2>1 DEF PlacesOk
  <1>2. PlaceOf(y, thr[y]) /\ thr'[y] = thr[y]
    BY DEF PlacesOk, Moves
  <1>3. thr[y].op \in {"open", "close"} => y \in Users
    BY <1>2 DEF PlaceOf, OpsOf
  <1>4. /\ y \in Users => desc'[y] = desc[y]
        /\ thr[y].pc = "readdir" => fufh'[FUFH_RDONLY].open_count > 0
        /\ thr[y].op = "close" /\ thr[y].pc # "put" /\ fufh[desc[y]].open_count > 0 => fufh'[desc[y]].open_count > 0
        /\ vn.live /\ thr[y].pc \notin {"idle", "create", "mknod"} => vn'.live
    BY DEF Keeps, Valid
  <1> QED
    BY <1>2, <1>3, <1>4 DEF PlaceOf, Valid

\* Slots that stay in use keep what the other threads rely on.
LEMMA KeepsGrown ==
    ASSUME PlacesOk, NEW x \in Threads,
           \A y \in Users \ {x} : desc'[y] = desc[y],
           \A k \in Types : Valid(k) => fufh'[k].open_count > 0,
           vn.live => vn'.live
    PROVE  Keeps(x)
  <1>1. SUFFICES ASSUME NEW y \in Threads \ {x}
                 PROVE  /\ thr[y].pc = "readdir" => fufh'[FUFH_RDONLY].open_count > 0
                        /\ thr[y].op = "close" /\ thr[y].pc # "put" /\ Valid(desc[y]) => fufh'[desc[y]].open_count > 0
    BY DEF Keeps
  <1>2. PlaceOf(y, thr[y])
    BY DEF PlacesOk
  <1>3. thr[y].pc = "readdir" => Valid(FUFH_RDONLY)
    BY <1>2 DEF PlaceOf
  <1>4. thr[y].op = "close" /\ thr[y].pc # "put" => desc[y] \in Types
    BY <1>2 DEF PlaceOf
  <1> QED
    BY <1>3, <1>4 DEF Types, FUFH_RDONLY, FUFH_RDWR

\* Without another operation on the vnode only the page I/O and the creates are left,
\* and they rely on nothing.
LEMMA KeepsAlone ==
    ASSUME PlacesOk, NEW x \in Threads, Alone(x),
           \A y \in Users \ {x} : desc'[y] = desc[y],
           vn.live => vn'.live
    PROVE  Keeps(x)
  <1>1. SUFFICES ASSUME NEW y \in Threads \ {x}
                 PROVE  thr[y].pc # "readdir" /\ thr[y].op # "close"
    BY DEF Keeps
  <1>2. PlaceOf(y, thr[y]) /\ thr[y].op \notin Holds
    BY DEF PlacesOk, Alone
  <1>3. thr[y].pc = "readdir" => thr[y].op = "readdir"
    BY <1>2 DEF PlaceOf, OpsAt
  <1> QED
    BY <1>2, <1>3 DEF Holds

\* The holder of the node lock is alone.
LEMMA AloneHolder ==
    ASSUME PlacesOk, LocksOk, RecycleOk, NEW x \in Threads, thr[x].op \in Holds
    PROVE  Alone(x)
  <1>1. SUFFICES ASSUME NEW y \in Threads \ {x}
                 PROVE  thr[y].op \notin Holds /\ thr[y].op # "reclaim"
    BY DEF Alone
  <1>2. nodelock = x /\ nodelock # y
    BY DEF LocksOk
  <1>3. thr[y].op \notin Holds
    BY <1>2 DEF LocksOk
  <1>4. ASSUME thr[y].op = "reclaim"
        PROVE  FALSE
    <2>1. y = Vfs
      <3>1. "reclaim" \in OpsOf(y)
        BY <1>4 DEF PlacesOk, PlaceOf
      <3> QED
        BY <3>1 DEF OpsOf, Threads
    <2>2. thr[x].pc \in {"idle", "create", "mknod"}
      BY <1>4, <2>1 DEF RecycleOk
    <2>3. thr[x].op \in {"none", "create"}
      BY <2>2 DEF PlacesOk, PlaceOf, OpsAt
    <2> QED
      BY <2>3 DEF Holds
  <1> QED
    BY <1>3, <1>4

\* An operation that begins with the node lock finds nobody at work.
LEMMA AloneBegins ==
    ASSUME PlacesOk, LocksOk, Reachable, nodelock = Nobody
    PROVE  \A y \in Threads : thr[y].op \notin Holds \cup {"reclaim"}
  <1>1. TAKE y \in Threads
  <1>2. thr[y].op \notin Holds
    BY DEF LocksOk
  <1>3. ASSUME thr[y].op = "reclaim"
        PROVE  FALSE
    <2>1. "reclaim" \in OpsOf(y)
      BY <1>3 DEF PlacesOk, PlaceOf
    <2>2. y = Vfs
      BY <2>1 DEF OpsOf, Threads
    <2> QED
      BY <1>3, <2>2 DEF Reachable
  <1> QED
    BY <1>2, <1>3

\* The thread that recycles the vnode is alone.
LEMMA AloneVfs ==
    ASSUME PlacesOk, LocksOk, RecycleOk, thr[Vfs].op \in {"inactive", "reclaim", "vclean"}
    PROVE  Alone(Vfs)
  <1>1. Vfs \in Threads
    BY DEF Threads
  <1>2. CASE thr[Vfs].op \in Holds
    BY <1>1, <1>2, AloneHolder
  <1>3. CASE thr[Vfs].op = "reclaim"
    <2>1. SUFFICES ASSUME NEW y \in Threads \ {Vfs}
                   PROVE  thr[y].op \notin Holds /\ thr[y].op # "reclaim"
      BY DEF Alone
    <2>2. thr[y].pc \in {"idle", "create", "mknod"}
      BY <1>3 DEF RecycleOk
    <2>3. thr[y].op \in {"none", "create"}
      BY <2>2 DEF PlacesOk, PlaceOf, OpsAt
    <2> QED
      BY <2>3 DEF Holds
  <1> QED
    BY <1>2, <1>3 DEF Holds

\* Beside a thread that is alone there are page I/O and creates only.
LEMMA AloneLabels ==
    ASSUME TypeOK, PlacesOk, NEW x \in Threads, Alone(x)
    PROVE  \A y \in Threads \ {x} :
              /\ thr[y].pc \in {"idle", "get", "io", "create", "mknod", "created"}
              /\ thr[y].pc \in {"get", "io"} => thr[y].op \in {"pagein", "pageout"}
  <1>1. TAKE y \in Threads \ {x}
  <1>2. thr[y].op \in OpsAt(thr[y].pc) /\ thr[y].op \notin Holds \cup {"reclaim"}
    BY DEF PlacesOk, PlaceOf, Alone
  <1> QED
    BY <1>2, ThreadFields DEF OpsAt, Holds

\* The recycling of the vnode, when a thread that it does not know of moves.
LEMMA RecycleUser ==
    ASSUME RecycleOk, NEW x \in Threads \ {Vfs}, NEW u, Moves(x, u),
           thr[Vfs].op \in {"reclaim", "vclean"} => u.pc \in {"idle", "create", "mknod"},
           UNCHANGED <<fufh, desc>>, vn.live => vn'.live
    PROVE  RecycleOk'
  <1>1. thr'[Vfs] = thr[Vfs] /\ Vfs \in Threads
    BY DEF Moves, Threads
  <1>2. \A k \in Types : Valid(k)' <=> Valid(k)
    BY DEF Valid
  <1>3. thr[Vfs].op \in {"reclaim", "vclean"} =>
            \A y \in Threads \ {Vfs} : thr'[y].pc \in {"idle", "create", "mknod"}
    BY DEF RecycleOk, Moves
  <1> QED
    BY <1>1, <1>2, <1>3 DEF RecycleOk

-----------------------------------------------------------------------------
(* What a step does to the slots *)

VnodeState == [kind : Kinds, live : BOOLEAN, direct : BOOLEAN, busy : BOOLEAN,
               mapped : BOOLEAN, dirty : BOOLEAN]
SlotState == [fh_id : Handles \cup {0}, open_count : Nat, direct : BOOLEAN]

\* slot t has use count c, the others and its handle stay
Counted(t, c) ==
    /\ fufh' \in [Types -> SlotState]
    /\ fufh'[t].open_count = c /\ fufh'[t].fh_id = fufh[t].fh_id
    /\ \A k \in Types \ {t} : fufh'[k] = fufh[k]

\* slot t has the new handle
Installed(t) ==
    /\ given' = given + 1 /\ given' \in Handles /\ fh_current' = fh_current + 1
    /\ fufh' \in [Types -> SlotState]
    /\ fufh'[t].open_count = 1 /\ fufh'[t].fh_id = given'
    /\ \A k \in Types \ {t} : fufh'[k] = fufh[k]

\* the daemon is told of the release of h
Releases(h) ==
    /\ released' \in [Handles -> Nat] /\ released'[h] = released[h] + 1
    /\ \A g \in Handles \ {h} : released'[g] = released[g]

\* Each field of a slot has its type.
LEMMA SlotFields ==
    ASSUME TypeOK, NEW k \in Types
    PROVE  /\ fufh[k] \in SlotState /\ fufh[k].open_count \in Nat
           /\ fufh[k].fh_id \in Handles \cup {0} /\ fufh[k].direct \in BOOLEAN
  BY DEF TypeOK, SlotState

\* Each field of the vnode has its type.
LEMMA VnodeFields ==
    ASSUME TypeOK
    PROVE  /\ vn \in VnodeState /\ vn.kind \in {"dir", "direct", "cached"} /\ vn.live \in BOOLEAN
           /\ vn.direct \in BOOLEAN /\ vn.busy \in BOOLEAN /\ vn.mapped \in BOOLEAN
           /\ vn.dirty \in BOOLEAN
  <1>1. vn \in VnodeState
    BY DEF TypeOK, VnodeState
  <1> QED
    BY <1>1 DEF VnodeState

\* FUFH_USE_INC, FUFH_USE_DEC and FUFH_USE_RESET change the count of one slot.
LEMMA CountFacts ==
    ASSUME TypeOK, NEW t \in Types, NEW c \in Nat,
           fufh' = [fufh EXCEPT ![t].open_count = c]
    PROVE  Counted(t, c)
  <1>1. fufh \in [Types -> SlotState]
    BY DEF TypeOK, SlotState
  <1>2. [fufh[t] EXCEPT !.open_count = c] \in SlotState
    BY <1>1 DEF SlotState
  <1>3. fufh' = [fufh EXCEPT ![t] = [fufh[t] EXCEPT !.open_count = c]]
    BY <1>1
  <1>4. fufh' \in [Types -> SlotState] /\ fufh'[t] = [fufh[t] EXCEPT !.open_count = c]
    BY <1>1, <1>2, <1>3
  <1>5. \A k \in Types \ {t} : fufh'[k] = fufh[k]
    BY <1>1, <1>3
  <1>6. fufh'[t].open_count = c /\ fufh'[t].fh_id = fufh[t].fh_id
    BY <1>1, <1>4 DEF SlotState
  <1> QED
    BY <1>4, <1>5, <1>6 DEF Counted

\* fuse_filehandle_get and create put the new handle into one slot.
LEMMA InstallFacts ==
    ASSUME TypeOK, NEW t \in Types, NEW d \in BOOLEAN, Install(t, d)
    PROVE  Installed(t) /\ fufh'[t].direct = d
  <1>1. fufh \in [Types -> SlotState] /\ given \in Handles \cup {0} /\ given < MaxHandles
    BY DEF TypeOK, SlotState, Install
  <1>2. given' = given + 1 /\ given' \in Handles
    BY <1>1 DEF Install, Handles
  <1>3. PICK r : r = [fh_id |-> given', open_count |-> 1, direct |-> d]
    OBVIOUS
  <1>4. r \in SlotState /\ r.open_count = 1 /\ r.fh_id = given' /\ r.direct = d
    BY <1>2, <1>3 DEF SlotState
  <1>5. fufh' = [fufh EXCEPT ![t] = r]
    BY <1>3 DEF Install
  <1>6. fufh' \in [Types -> SlotState] /\ fufh'[t] = r /\ \A k \in Types \ {t} : fufh'[k] = fufh[k]
    BY <1>1, <1>4, <1>5
  <1>7. fh_current' = fh_current + 1
    BY DEF Install
  <1> QED
    BY <1>2, <1>4, <1>6, <1>7 DEF Installed

\* RELEASE is sent for one handle.
LEMMA ReleaseFacts ==
    ASSUME TypeOK, NEW h \in Handles, released' = [released EXCEPT ![h] = @ + 1]
    PROVE  Releases(h)
  <1>1. released \in [Handles -> Nat]
    BY DEF TypeOK
  <1> QED
    BY <1>1 DEF Releases

\* The handles given out, and the messages for them, are counted.
LEMMA ReleasedNat ==
    ASSUME TypeOK
    PROVE  given \in Nat /\ given <= MaxHandles /\ \A h \in Handles : released[h] \in Nat
  <1>1. released \in [Handles -> Nat] /\ given \in Handles \cup {0}
    BY DEF TypeOK
  <1> QED
    BY <1>1 DEF Handles

-----------------------------------------------------------------------------
(* Slots and handles after each kind of step *)

\* The handles of the slots, when one slot is used once more or less, and stays in use.
LEMMA CountedSlots ==
    ASSUME TypeOK, SlotsOk, NoHandleLost, NEW t \in Types, NEW c \in Nat, Valid(t), c > 0,
           Counted(t, c), UNCHANGED <<given, dropped, released, over, dead>>
    PROVE  /\ SlotsOk' /\ NoHandleLost'
           /\ \A k \in Types : Valid(k)' <=> Valid(k)
  <1>1. \A k \in Types : (Valid(k)' <=> Valid(k)) /\ fufh'[k].fh_id = fufh[k].fh_id
    BY DEF Counted, Valid
  <1>2. SlotsOk'
    BY <1>1 DEF SlotsOk
  <1>3. NoHandleLost'
    BY <1>1 DEF NoHandleLost
  <1> QED
    BY <1>1, <1>2, <1>3

\* The new handle is of no other slot, and is not released.
LEMMA InstalledSlots ==
    ASSUME TypeOK, SlotsOk, NoHandleLost, NEW t \in Types, Installed(t), UNCHANGED <<dropped, released, dead>>,
           over \subseteq over', over' = {} => ~Valid(t)
    PROVE  /\ SlotsOk' /\ NoHandleLost' /\ Valid(t)'
           /\ \A k \in Types \ {t} : Valid(k)' <=> Valid(k)
  <1>1. /\ \A k \in Types \ {t} : (Valid(k)' <=> Valid(k)) /\ fufh'[k].fh_id = fufh[k].fh_id
        /\ Valid(t)' /\ fufh'[t].fh_id = given'
        /\ given' = given + 1 /\ given' \in Handles
    BY DEF Installed, Valid
  <1>2. given \in Nat
    BY ReleasedNat
  <1>3. released[given'] = 0
    BY <1>1, <1>2 DEF SlotsOk
  <1>4. \A k \in Types : Valid(k) => fufh[k].fh_id \in 1 .. given /\ released[fufh[k].fh_id] = 0
    BY DEF SlotsOk
  <1>5. \A k \in Types : Valid(k)' => fufh'[k].fh_id \in 1 .. given' /\ released'[fufh'[k].fh_id] = 0
    BY <1>1, <1>2, <1>3, <1>4
  <1>6. \A j, k \in Types : Valid(j)' /\ Valid(k)' /\ fufh'[j].fh_id = fufh'[k].fh_id => j = k
    BY <1>1, <1>2, <1>4 DEF SlotsOk
  <1>7. \A h \in Handles : released'[h] <= 1 /\ (h > given' => released'[h] = 0)
    BY <1>1, <1>2 DEF SlotsOk, Handles
  <1>8. SlotsOk'
    BY <1>5, <1>6, <1>7 DEF SlotsOk
  <1>9. NoHandleLost'
    <2>1. SUFFICES ASSUME over' = {}, ~dead', NEW h \in (1 .. given') \ dropped
                   PROVE  released'[h] = 1 \/ \E k \in Types : Valid(k)' /\ fufh'[k].fh_id = h
      BY DEF NoHandleLost
    <2>2. over = {} /\ ~dead /\ ~Valid(t)
      BY <2>1
    <2>3. CASE h = given'
      BY <1>1, <2>3
    <2>4. CASE h \in 1 .. given
      BY <1>1, <2>2, <2>4 DEF NoHandleLost
    <2> QED
      BY <1>1, <1>2, <2>3, <2>4
  <1> QED
    BY <1>1, <1>8, <1>9

\* The slot is free and its handle released, unless the session is dead.
LEMMA PutSlots ==
    ASSUME TypeOK, SlotsOk, NoHandleLost, NEW t \in Types, Valid(t), Counted(t, 0),
           UNCHANGED <<given, dropped, over, dead>>,
           IF dead THEN released' = released ELSE Releases(fufh[t].fh_id)
    PROVE  /\ SlotsOk' /\ NoHandleLost' /\ ~Valid(t)'
           /\ \A k \in Types \ {t} : Valid(k)' <=> Valid(k)
  <1>1. /\ \A k \in Types \ {t} : (Valid(k)' <=> Valid(k)) /\ fufh'[k].fh_id = fufh[k].fh_id
        /\ ~Valid(t)' /\ fufh'[t].fh_id = fufh[t].fh_id
    BY DEF Counted, Valid
  <1>2. fufh[t].fh_id \in 1 .. given /\ released[fufh[t].fh_id] = 0 /\ given \in Nat
        /\ given <= MaxHandles /\ fufh[t].fh_id \in Handles
    <2>1. given \in Nat /\ given <= MaxHandles
      BY ReleasedNat
    <2>2. fufh[t].fh_id \in 1 .. given /\ released[fufh[t].fh_id] = 0
      BY DEF SlotsOk
    <2> QED
      BY <2>1, <2>2 DEF Handles
  <1>3. /\ \A h \in Handles \ {fufh[t].fh_id} : released'[h] = released[h]
        /\ released'[fufh[t].fh_id] \in {0, 1} /\ (~dead => released'[fufh[t].fh_id] = 1)
    BY <1>2 DEF Releases
  <1>4. \A k \in Types : Valid(k)' => fufh'[k].fh_id \in 1 .. given' /\ released'[fufh'[k].fh_id] = 0
    <2>1. SUFFICES ASSUME NEW k \in Types \ {t}, Valid(k)
                   PROVE  fufh[k].fh_id \in 1 .. given /\ released'[fufh[k].fh_id] = 0
      BY <1>1
    <2>2. fufh[k].fh_id \in 1 .. given /\ released[fufh[k].fh_id] = 0 /\ fufh[k].fh_id # fufh[t].fh_id
      BY <2>1 DEF SlotsOk
    <2>3. fufh[k].fh_id \in Handles
      BY <1>2, <2>2 DEF Handles
    <2> QED
      BY <1>3, <2>2, <2>3
  <1>5. \A j, k \in Types : Valid(j)' /\ Valid(k)' /\ fufh'[j].fh_id = fufh'[k].fh_id => j = k
    BY <1>1 DEF SlotsOk
  <1>6. \A h \in Handles : released'[h] <= 1 /\ (h > given' => released'[h] = 0)
    BY <1>2, <1>3 DEF SlotsOk
  <1>7. SlotsOk'
    BY <1>4, <1>5, <1>6 DEF SlotsOk
  <1>8. NoHandleLost'
    <2>1. SUFFICES ASSUME over = {}, ~dead, NEW h \in (1 .. given) \ dropped
                   PROVE  released'[h] = 1 \/ \E k \in Types : Valid(k)' /\ fufh'[k].fh_id = h
      BY DEF NoHandleLost
    <2>2. h \in Handles
      BY <1>2 DEF Handles
    <2>3. CASE h = fufh[t].fh_id
      BY <1>3, <2>1, <2>3
    <2>4. CASE h # fufh[t].fh_id
      BY <1>1, <1>3, <2>1, <2>2, <2>4 DEF NoHandleLost
    <2> QED
      BY <2>3, <2>4
  <1> QED
    BY <1>1, <1>7, <1>8

-----------------------------------------------------------------------------
(* fuse_fh_current after each kind of step *)

\* threads with a RELEASE under way
PutsSame == (\E x \in Threads : At(x, "put"))' <=> (\E x \in Threads : At(x, "put"))

\* The slots in use are the same.
LEMMA CountSame ==
    ASSUME CountOk, PutsSame, \A k \in Types : Valid(k)' <=> Valid(k), fh_current' = fh_current,
           over \subseteq over', dead => dead'
    PROVE  CountOk'
  <1>1. Putting' = Putting
    BY DEF Putting, PutsSame
  <1>2. \A k \in Types : Used(k)' = Used(k)
    BY DEF Used
  <1>3. Intact' => Intact
    BY DEF Intact
  <1> QED
    BY <1>1, <1>2, <1>3 DEF CountOk, Types, FUFH_RDONLY, FUFH_WRONLY, FUFH_RDWR

\* One more slot is in use, and one more is counted.
LEMMA CountInstalled ==
    ASSUME CountOk, PutsSame, fh_current \in Nat, NEW t \in Types, Valid(t)',
           \A k \in Types \ {t} : Valid(k)' <=> Valid(k), fh_current' = fh_current + 1,
           over \subseteq over', over' = {} => ~Valid(t), dead => dead'
    PROVE  CountOk' /\ fh_current' \in Nat
  <1>1. Putting' = Putting /\ Putting \in {0, 1}
    BY DEF Putting, PutsSame
  <1>2. \A k \in Types \ {t} : Used(k)' = Used(k)
    BY DEF Used
  <1>3. \A k \in Types : Used(k) \in {0, 1}
    BY DEF Used
  <1>4. Used(t)' = 1 /\ (over' = {} => Used(t) = 0)
    BY DEF Used
  <1>5. Intact' => Intact /\ over' = {}
    BY DEF Intact
  <1>6. t \in {0, 1, 2}
    BY DEF Types, FUFH_RDONLY, FUFH_RDWR
  <1> QED
    BY <1>1, <1>2, <1>3, <1>4, <1>5, <1>6 DEF CountOk, Types, FUFH_RDONLY, FUFH_WRONLY, FUFH_RDWR

\* A slot in use becomes a handle under release.
LEMMA CountPut ==
    ASSUME CountOk, fh_current \in Nat, NEW t \in Types, Valid(t), ~Valid(t)',
           \A k \in Types \ {t} : Valid(k)' <=> Valid(k), fh_current' = fh_current,
           ~\E x \in Threads : At(x, "put"), (\E x \in Threads : At(x, "put"))',
           UNCHANGED <<over, dead>>
    PROVE  CountOk'
  <1>1. Putting' = 1 /\ Putting = 0
    BY DEF Putting
  <1>2. \A k \in Types \ {t} : Used(k)' = Used(k)
    BY DEF Used
  <1>3. \A k \in Types : Used(k) \in {0, 1}
    BY DEF Used
  <1>4. Used(t)' = 0 /\ Used(t) = 1
    BY DEF Used
  <1>5. Intact' <=> Intact
    BY DEF Intact
  <1>6. t \in {0, 1, 2}
    BY DEF Types, FUFH_RDONLY, FUFH_RDWR
  <1> QED
    BY <1>1, <1>2, <1>3, <1>4, <1>5, <1>6 DEF CountOk, Types, FUFH_RDONLY, FUFH_WRONLY, FUFH_RDWR

\* The release is over and not counted any more.
LEMMA CountDone ==
    ASSUME CountOk, fh_current \in Nat, \A k \in Types : Valid(k)' <=> Valid(k),
           fh_current' = fh_current - 1,
           \E x \in Threads : At(x, "put"), ~(\E x \in Threads : At(x, "put"))',
           UNCHANGED <<over, dead>>
    PROVE  CountOk' /\ fh_current' \in Nat
  <1>1. Putting' = 0 /\ Putting = 1
    BY DEF Putting
  <1>2. \A k \in Types : Used(k)' = Used(k) /\ Used(k) \in {0, 1}
    BY DEF Used
  <1>3. Intact' <=> Intact
    BY DEF Intact
  <1> QED
    BY <1>1, <1>2, <1>3 DEF CountOk, Types, FUFH_RDONLY, FUFH_WRONLY, FUFH_RDWR

-----------------------------------------------------------------------------
(* The descriptors of each slot *)

\* A slot has finitely many descriptors, before and after a step.
LEMMA DescriptorsFinite ==
    ASSUME NEW k \in Types
    PROVE  /\ IsFiniteSet(Descriptors(k)) /\ Cardinality(Descriptors(k)) \in Nat
           /\ IsFiniteSet(Descriptors(k)') /\ Cardinality(Descriptors(k)') \in Nat
  <1>1. Descriptors(k) \subseteq Users /\ Descriptors(k)' \subseteq Users
    BY DEF Descriptors
  <1>2. IsFiniteSet(Descriptors(k)) /\ IsFiniteSet(Descriptors(k)')
    BY <1>1, FS_Subset
  <1> QED
    BY <1>2, FS_CardinalityType

\* Without a descriptor of slot k there is nothing to count.
LEMMA DescriptorsNone ==
    ASSUME NEW k \in Types
    PROVE  /\ (\A u \in Users : desc[u] # k) => Cardinality(Descriptors(k)) = 0
           /\ (\A u \in Users : desc'[u] # k) => Cardinality(Descriptors(k)') = 0
  <1>1. (\A u \in Users : desc[u] # k) => Descriptors(k) = {}
    BY DEF Descriptors
  <1>2. (\A u \in Users : desc'[u] # k) => Descriptors(k)' = {}
    BY DEF Descriptors
  <1> QED
    BY <1>1, <1>2, FS_EmptySet

\* open adds one descriptor to its slot.
LEMMA DescriptorsOpen ==
    ASSUME TypeOK, NEW x \in Users, NEW t \in Types, desc[x] = Closed,
           desc' = [desc EXCEPT ![x] = t]
    PROVE  /\ Cardinality(Descriptors(t)') = Cardinality(Descriptors(t)) + 1
           /\ \A k \in Types \ {t} : Cardinality(Descriptors(k)') = Cardinality(Descriptors(k))
  <1>1. desc \in [Users -> Types \cup {Closed}]
    BY DEF TypeOK
  <1>2. t # Closed
    BY DEF Types, FUFH_RDONLY, FUFH_RDWR, Closed
  <1>3. Descriptors(t)' = Descriptors(t) \cup {x} /\ x \notin Descriptors(t)
    BY <1>1, <1>2 DEF Descriptors
  <1>4. Cardinality(Descriptors(t) \cup {x}) = Cardinality(Descriptors(t)) + 1
    BY <1>3, DescriptorsFinite, FS_AddElement
  <1>5. \A k \in Types \ {t} : Descriptors(k)' = Descriptors(k)
    <2>1. Closed \notin Types
      BY DEF Types, FUFH_RDONLY, FUFH_RDWR, Closed
    <2> QED
      BY <1>1, <2>1 DEF Descriptors
  <1> QED
    BY <1>3, <1>4, <1>5

\* close takes one descriptor from its slot.
LEMMA DescriptorsClose ==
    ASSUME TypeOK, NEW x \in Users, NEW t \in Types, desc[x] = t,
           desc' = [desc EXCEPT ![x] = Closed]
    PROVE  /\ Cardinality(Descriptors(t)') = Cardinality(Descriptors(t)) - 1
           /\ \A k \in Types \ {t} : Cardinality(Descriptors(k)') = Cardinality(Descriptors(k))
  <1>1. desc \in [Users -> Types \cup {Closed}]
    BY DEF TypeOK
  <1>2. Closed \notin Types
    BY DEF Types, FUFH_RDONLY, FUFH_RDWR, Closed
  <1>3. Descriptors(t)' = Descriptors(t) \ {x} /\ x \in Descriptors(t)
    BY <1>1, <1>2 DEF Descriptors
  <1>4. Cardinality(Descriptors(t) \ {x}) = Cardinality(Descriptors(t)) - 1
    BY <1>3, DescriptorsFinite, FS_RemoveElement
  <1>5. \A k \in Types \ {t} : Descriptors(k)' = Descriptors(k)
    BY <1>1, <1>2 DEF Descriptors
  <1> QED
    BY <1>3, <1>4, <1>5

\* Slot k has a use for each of its descriptors and for a readdir.
UseOk(k) == Intact => Cardinality(Descriptors(k)) + (IF k = FUFH_RDONLY THEN Reading ELSE 0)
                          <= fufh[k].open_count

\* UsesOk, slot by slot.
LEMMA UsesSlots ==
    /\ UsesOk <=> \A k \in Types : UseOk(k)
    /\ UsesOk' <=> \A k \in Types : UseOk(k)'
  BY DEF UsesOk, UseOk

\* threads in readdir
ReadsSame == (\E x \in Threads : At(x, "readdir"))' <=> (\E x \in Threads : At(x, "readdir"))

\* A slot keeps its descriptors and its uses.
LEMMA UseSame ==
    ASSUME NEW k \in Types, UseOk(k), ReadsSame, fufh[k].open_count = fufh'[k].open_count,
           Cardinality(Descriptors(k)') = Cardinality(Descriptors(k)),
           over \subseteq over', dead => dead'
    PROVE  UseOk(k)'
  <1>1. Intact' => Intact
    BY DEF Intact
  <1>2. Reading' = Reading
    BY DEF Reading, ReadsSame
  <1> QED
    BY <1>1, <1>2 DEF UseOk

-----------------------------------------------------------------------------
(* Vnodes without page I/O *)

\* the threads but x
OthersUnpaged(x) == \A y \in Threads \ {x} : UnpagedOf(thr[y])

\* A vnode without page I/O, thread by thread.
LEMMA UnpagedMove ==
    ASSUME NEW x \in Threads, NEW u, Moves(x, u),
           vn'.kind # "cached" => UnpagedVnode' /\ UnpagedOf(u)' /\ OthersUnpaged(x)'
    PROVE  UnpagedOk'
  <1>1. SUFFICES ASSUME vn'.kind # "cached"
                 PROVE  \A y \in Threads : UnpagedOf(thr[y])'
    BY DEF UnpagedOk
  <1>2. UnpagedOf(thr[x])'
    BY <1>1, thr'[x] = u DEF Moves, UnpagedOf
  <1> QED
    BY <1>1, <1>2 DEF OthersUnpaged

\* Beside a thread that is alone nobody uses a handle of such a vnode.
LEMMA UnpagedAlone ==
    ASSUME TypeOK, PlacesOk, UnpagedOk, NEW x \in Threads, NEW u, Moves(x, u), Alone(x),
           vn.kind # "cached"
    PROVE  OthersUnpaged(x)'
  <1>1. SUFFICES ASSUME NEW y \in Threads \ {x}
                 PROVE  UnpagedOf(thr[y])'
    BY DEF OthersUnpaged
  <1>2. thr'[y] = thr[y]
    BY DEF Moves
  <1>3. thr[y].op \notin {"pagein", "pageout"}
    BY DEF UnpagedOk, UnpagedOf
  <1>4. thr[y].pc \in {"idle", "create", "mknod", "created"}
    BY <1>3, AloneLabels
  <1>5. thr[y].fh = 0
    BY <1>4 DEF PlacesOk, PlaceOf
  <1> QED
    BY <1>2, <1>3, <1>4, <1>5 DEF UnpagedOf

\* The others keep their handles, and find the slot free that they ask for.
LEMMA UnpagedGrown ==
    ASSUME TypeOK, UnpagedOk, NEW x \in Threads, NEW u, Moves(x, u), vn.kind # "cached",
           vn'.kind = vn.kind, over \subseteq over', given' \in Nat, given' >= given,
           \A k \in Types : Valid(k) => Valid(k)',
           \A h \in Handles : h <= given => released'[h] = released[h],
           PlacesOk,
           fufh' = fufh \/ "create" \in over' \/ \A y \in Threads : thr[y].pc # "get"
    PROVE  OthersUnpaged(x)'
  <1>1. SUFFICES ASSUME NEW y \in Threads \ {x}
                 PROVE  UnpagedOf(thr[y])'
    BY DEF OthersUnpaged
  <1>2. thr'[y] = thr[y]
    BY DEF Moves
  <1>3. UnpagedOf(thr[y]) /\ PlaceOf(y, thr[y])
    BY DEF UnpagedOk, PlacesOk
  <1>4. thr[y].fh \in Handles \cup {0} /\ given \in Nat
    BY ThreadFields, ReleasedNat
  <1>5. thr[y].fh # 0 => thr[y].fh <= given' /\ released'[thr[y].fh] = 0
    BY <1>3, <1>4 DEF UnpagedOf, Handles
  <1>6. thr[y].pc = "io" => Valid(thr[y].t)'
    <2>1. thr[y].pc = "io" => thr[y].t \in Types /\ Valid(thr[y].t)
      BY <1>3 DEF UnpagedOf, PlaceOf
    <2>2. \A k \in Types : fufh[k].open_count > 0 => fufh'[k].open_count > 0
      BY DEF Valid
    <2> QED
      BY <1>2, <2>1, <2>2 DEF Valid
  <1>7. thr[y].pc = "get" /\ "create" \notin over' => ~Valid(thr[y].t)'
    <2>1. thr[y].pc = "get" /\ "create" \notin over => ~(fufh[thr[y].t].open_count > 0)
      BY <1>3 DEF UnpagedOf, Valid
    <2> QED
      BY <1>2, <2>1 DEF Valid
  <1>8. /\ thr[y].op \notin {"pagein", "pageout"}
        /\ thr[y].pc = "get" => thr[y].op \in {"open", "readdir"}
        /\ thr[y].pc = "get" /\ vn'.kind = "dir" => thr[y].t = FUFH_RDONLY
    BY <1>3 DEF UnpagedOf
  <1> QED
    BY <1>2, <1>5, <1>6, <1>7, <1>8 DEF UnpagedOf

-----------------------------------------------------------------------------
(* The steps that leave the slots and the descriptors alone *)

QuietVnode ==
    /\ vn' \in VnodeState /\ vn'.kind = vn.kind /\ vn'.direct = vn.direct
    /\ vn'.mapped = vn.mapped /\ (vn'.dirty => vn.dirty) /\ (vn.live => vn'.live)

\* A step that makes no page dirty keeps the vnode without page I/O.
LEMMA QuietUnpaged ==
    ASSUME UnpagedOk, QuietVnode, desc' = desc
    PROVE  vn'.kind # "cached" => vn.kind # "cached" /\ UnpagedVnode'
  BY DEF UnpagedOk, UnpagedVnode, QuietVnode

\* handles may be given only to be dropped
GivenOk ==
    /\ given' \in Handles \cup {0} /\ given' >= given /\ dropped' \subseteq Handles
    /\ (1 .. given') \ dropped' \subseteq (1 .. given) \ dropped

Quiet == UNCHANGED <<fufh, desc, dead, fh_current, released, over, panic>> /\ GivenOk

\* No handle is given.
LEMMA GivenSame ==
    ASSUME TypeOK, UNCHANGED <<given, dropped>>
    PROVE  GivenOk
  <1>1. given \in Handles \cup {0} /\ dropped \subseteq Handles
    BY DEF TypeOK
  <1>2. given \in Nat
    BY <1>1 DEF Handles
  <1> QED
    BY <1>1, <1>2 DEF GivenOk

\* A handle is given and dropped.
LEMMA GivenDropped ==
    ASSUME TypeOK, Drops
    PROVE  GivenOk
  <1>1. given \in Handles \cup {0} /\ dropped \subseteq Handles
    BY DEF TypeOK
  <1>2. /\ given \in Nat /\ given < MaxHandles /\ given' = given + 1
        /\ dropped' = dropped \cup {given + 1}
    BY <1>1 DEF Handles, Drops
  <1>3. given' \in Handles
    BY <1>2 DEF Handles
  <1>4. \A h \in 1 .. given' : h = given + 1 \/ h \in 1 .. given
    BY <1>2
  <1> QED
    BY <1>1, <1>2, <1>3, <1>4 DEF GivenOk

NoimplOk == noimpl' \subseteq {"CREATE", "FLUSH", "FSYNC"}

\* A step that leaves the slots and the descriptors alone keeps the types.
LEMMA QuietTypes ==
    ASSUME TypeOK, Quiet, NEW x \in Threads, NEW u, Moves(x, u), QuietVnode, NoimplOk,
           nodelock' \in Threads \cup {Nobody}
    PROVE  TypeOK'
  <1>1. thr' \in [Threads -> ThreadState]
    BY DEF Moves
  <1>2. vn' \in VnodeState
    BY DEF QuietVnode
  <1> QED
    BY <1>1, <1>2 DEF TypeOK, Quiet, GivenOk, NoimplOk, VnodeState

\* A step to u, not at a label where the slots are counted, keeps the invariant if u is
\* a place for it.
LEMMA QuietStep ==
    ASSUME FileInv, NEW x \in Threads, NEW u, Moves(x, u), Quiet, QuietVnode, NoimplOk,
           LockChange(x, u), thr[x].pc \notin {"put", "readdir"}, u.pc \notin {"put", "readdir"},
           PlaceOf(x, u)', vn.kind # "cached" => UnpagedOf(u)', RecycleOk'
    PROVE  FileInv'
  <1>1. /\ TypeOK /\ panic = "none" /\ PlacesOk /\ LocksOk /\ RecycleOk /\ SlotsOk /\ UnpagedOk
        /\ NodeLockProtects /\ CountOk /\ UsesOk /\ NoHandleLost
    BY DEF FileInv
  <1>2. LocksOk' /\ nodelock' \in Threads \cup {Nobody}
    BY <1>1, LockMove DEF TypeOK
  <1>3. TypeOK' /\ panic' = "none"
    BY <1>1, <1>2, QuietTypes DEF Quiet
  <1>4. PlacesOk'
    <2>1. Keeps(x)
      BY <1>1, KeepsGrown DEF Quiet, QuietVnode, Valid
    <2> QED
      BY <1>1, <2>1, PlacesMove
  <1>5. \A k \in Types : Valid(k)' <=> Valid(k)
    BY DEF Quiet, Valid
  <1>6. SlotsOk' /\ NoHandleLost'
    <2>1. given \in Nat /\ given' \in Nat /\ given' >= given
      BY <1>1, <1>3, ReleasedNat DEF Quiet, GivenOk, TypeOK, Handles
    <2>2. SlotsOk'
      <3>1. \A h \in 1 .. given : h \in 1 .. given'
        BY <2>1
      <3>2. \A h \in Handles : h > given' => h > given
        BY <2>1 DEF Handles
      <3> QED
        BY <1>1, <3>1, <3>2 DEF Quiet, SlotsOk, Valid
    <2>3. NoHandleLost'
      BY <1>1 DEF Quiet, GivenOk, NoHandleLost, Valid
    <2> QED
      BY <2>2, <2>3
  <1>7. UnpagedOk'
    <2>1. ASSUME vn'.kind # "cached"
          PROVE  UnpagedVnode' /\ UnpagedOf(u)' /\ OthersUnpaged(x)'
      <3>1. vn.kind # "cached" /\ UnpagedVnode' /\ vn'.kind = vn.kind
        BY <1>1, <2>1, QuietUnpaged DEF Quiet, QuietVnode
      <3>2. given' \in Nat /\ given' >= given
        BY <1>3 DEF Quiet, GivenOk, TypeOK, Handles
      <3>3. OthersUnpaged(x)'
        BY <1>1, <1>5, <3>1, <3>2, UnpagedGrown DEF Quiet
      <3> QED
        BY <3>1, <3>3
    <2> QED
      BY <2>1, UnpagedMove
  <1>8. NodeLockProtects'
    BY <1>1 DEF NodeLockProtects, Quiet, QuietVnode
  <1>9. PutsSame /\ ReadsSame
    BY DEF PutsSame, ReadsSame, Moves, At
  <1>10. CountOk'
    BY <1>1, <1>5, <1>9, CountSame DEF Quiet
  <1>11. UsesOk'
    <2>1. \A k \in Types : UseOk(k)'
      <3>1. TAKE k \in Types
      <3>2. Descriptors(k)' = Descriptors(k)
        BY DEF Descriptors, Quiet
      <3> QED
        BY <1>1, <1>9, <3>2, UsesSlots, UseSame DEF Quiet
    <2> QED
      BY <2>1, UsesSlots
  <1> QED
    BY <1>2, <1>3, <1>4, <1>6, <1>7, <1>8, <1>10, <1>11 DEF FileInv

\* The same for a step of a system call or of page I/O.
LEMMA QuietUser ==
    ASSUME FileInv, NEW x \in Threads \ {Vfs}, NEW u, Moves(x, u), Quiet, QuietVnode, NoimplOk,
           LockChange(x, u), thr[x].pc \notin {"put", "readdir"}, u.pc \notin {"put", "readdir"},
           PlaceOf(x, u)', vn.kind # "cached" => UnpagedOf(u)',
           thr[Vfs].op \in {"reclaim", "vclean"} => u.pc \in {"idle", "create", "mknod"}
    PROVE  FileInv'
  <1>1. RecycleOk'
    BY RecycleUser DEF FileInv, Quiet, QuietVnode
  <1> QED
    BY <1>1, QuietStep

\* An operation under way keeps the vnode.
LEMMA UnderWay ==
    ASSUME PlacesOk, RecycleOk, NEW x \in Threads \ {Vfs},
           thr[x].pc \notin {"idle", "create", "mknod"}
    PROVE  Reachable
  BY DEF PlacesOk, PlaceOf, RecycleOk, Reachable

\* Recycling has labels of its own.
LEMMA NotVfs ==
    ASSUME TypeOK, PlacesOk, NEW x \in Threads, thr[x].pc \notin {"idle", "created", "put", "scan"}
    PROVE  x # Vfs
  <1>1. SUFFICES ASSUME x = Vfs
                 PROVE  FALSE
    OBVIOUS
  <1>2. thr[x].op \in {"none", "inactive", "reclaim", "vclean"} /\ thr[x].op \in OpsAt(thr[x].pc)
    BY <1>1 DEF PlacesOk, PlaceOf, OpsOf
  <1>3. thr[x].pc \in {"get", "io", "pushed", "flush", "readdir", "fsync", "create", "mknod"}
    BY ThreadFields
  <1> QED
    BY <1>2, <1>3 DEF OpsAt

\* A thread may always be idle.
LEMMA IdleFits ==
    ASSUME NEW x \in Threads
    PROVE  /\ IdleThread \in ThreadState /\ IdleThread.pc = "idle" /\ IdleThread.op = "none"
           /\ IdleThread.fh = 0 /\ IdleThread.t = 0
           /\ PlaceOf(x, IdleThread)' /\ UnpagedOf(IdleThread)'
  <1>1. /\ IdleThread \in ThreadState /\ IdleThread.pc = "idle" /\ IdleThread.op = "none"
        /\ IdleThread.fh = 0 /\ IdleThread.t = 0
    BY DEF IdleThread, ThreadState, Types, FUFH_RDONLY, FUFH_RDWR
  <1>2. PICK u : u = IdleThread
    OBVIOUS
  <1>3. u.pc = "idle" /\ u.op = "none" /\ u.fh = 0
    BY <1>1, <1>2
  <1>4. "none" \in OpsAt("idle") /\ "none" \in OpsOf(x)
    BY DEF OpsAt, OpsOf
  <1>5. PlaceOf(x, u)'
    BY <1>3, <1>4 DEF PlaceOf
  <1>6. UnpagedOf(u)'
    BY <1>3 DEF UnpagedOf
  <1> QED
    BY <1>1, <1>2, <1>5, <1>6 DEF IdleThread, FUFH_RDONLY

\* The end of an operation gives up the node lock.
LEMMA EndFacts ==
    ASSUME TypeOK, NEW x \in Threads, Ends(x)
    PROVE  Moves(x, IdleThread) /\ LockChange(x, IdleThread)
  <1>1. IdleThread \in ThreadState /\ IdleThread.op = "none"
    BY IdleFits
  <1>2. Moves(x, IdleThread)
    BY <1>1, MoveFacts DEF Ends
  <1>3. LockChange(x, IdleThread)
    BY <1>1 DEF LockChange, Ends, Holds
  <1> QED
    BY <1>2, <1>3

\* An operation ends.
LEMMA QuietEnd ==
    ASSUME FileInv, NEW x \in Threads \ {Vfs}, Ends(x), Quiet, QuietVnode, NoimplOk,
           thr[x].pc \notin {"put", "readdir"}
    PROVE  FileInv'
  <1>1. TypeOK
    BY DEF FileInv
  <1>2. PICK u : u = IdleThread
    OBVIOUS
  <1>3. Moves(x, u) /\ LockChange(x, u) /\ u.pc = "idle"
    BY <1>1, <1>2, EndFacts, IdleFits
  <1>4. PlaceOf(x, u)' /\ UnpagedOf(u)'
    BY <1>2, IdleFits DEF PlaceOf, UnpagedOf
  <1> QED
    BY <1>3, <1>4, QuietUser

\* A message for the handle of a slot is sent.
LEMMA QuietSend ==
    ASSUME FileInv, NEW x \in Threads \ {Vfs}, NEW t \in Types, NEW l \in {"io", "flush", "fsync"},
           NEW o \in OpsAt(l), o \in OpsOf(x), Sends(x, l, o, t), Quiet, QuietVnode, NoimplOk,
           thr[x].pc \notin {"put", "readdir"}, Reachable,
           \/ nodelock = Nobody /\ nodelock' = x /\ o \in Holds
           \/ nodelock' = nodelock /\ (o \in Holds <=> thr[x].op \in Holds),
           vn.kind # "cached" => Valid(t) /\ o \notin {"pagein", "pageout"},
           o = "close" => desc[x] \in Types /\ Valid(desc[x])
    PROVE  FileInv'
  <1>1. TypeOK /\ SlotsOk
    BY DEF FileInv
  <1>2. PICK u : u = [pc |-> l, op |-> o, t |-> t, fh |-> fufh[t].fh_id]
    OBVIOUS
  <1>3. u.pc = l /\ u.op = o /\ u.t = t /\ u.fh = fufh[t].fh_id
    BY <1>2
  <1>4. o \in {"close", "fsync", "read", "write", "pagein", "pageout"}
    BY DEF OpsAt
  <1>5. u \in ThreadState
    BY <1>1, <1>2, <1>4, SlotFields DEF ThreadState
  <1>6. Moves(x, u)
    BY <1>1, <1>2, <1>5, MoveFacts DEF Sends
  <1>7. LockChange(x, u)
    BY <1>3 DEF LockChange
  <1>8. PlaceOf(x, u)'
    BY <1>3, <1>4 DEF PlaceOf, Quiet, QuietVnode, Reachable, Valid
  <1>9. vn.kind # "cached" => UnpagedOf(u)'
    <2>1. SUFFICES ASSUME vn.kind # "cached"
                   PROVE  UnpagedOf(u)'
      OBVIOUS
    <2>2. Valid(t) /\ fufh[t].fh_id \in 1 .. given /\ released[fufh[t].fh_id] = 0 /\ given \in Nat
      BY <1>1, <2>1, ReleasedNat DEF SlotsOk
    <2> QED
      <3>1. u.fh <= given'
        BY <1>3, <2>2 DEF Quiet, GivenOk, Handles
      <3> QED
        BY <1>3, <2>1, <2>2, <3>1 DEF UnpagedOf, Quiet, Valid
  <1>10. thr[Vfs].op \notin {"reclaim", "vclean"}
    BY DEF Reachable
  <1> QED
    BY <1>3, <1>6, <1>7, <1>8, <1>9, <1>10, QuietUser

\* OPEN or OPENDIR is sent.
LEMMA QuietGet ==
    ASSUME FileInv, NEW x \in Threads \ {Vfs}, NEW t \in Types,
           NEW o \in OpsAt("get"), o \in OpsOf(x), Get(x, o, t), ~Valid(t),
           UNCHANGED <<fufh, vn, desc, dead, noimpl, fh_current, given, dropped, released, over>>,
           thr[x].pc \notin {"put", "readdir"}, Reachable,
           \/ nodelock = Nobody /\ nodelock' = x /\ o \in Holds
           \/ nodelock' = nodelock /\ (o \in Holds <=> thr[x].op \in Holds),
           vn.kind # "cached" => o \in {"open", "readdir"} /\ (vn.kind = "dir" => t = FUFH_RDONLY),
           o = "readdir" => t = FUFH_RDONLY,
           o = "open" => desc[x] = Closed,
           o = "close" => desc[x] \in Types /\ Valid(desc[x])
    PROVE  FileInv'
  <1>1. TypeOK
    BY DEF FileInv
  <1>2. PICK u : u = [pc |-> "get", op |-> o, t |-> t, fh |-> 0]
    OBVIOUS
  <1>3. u.pc = "get" /\ u.op = o /\ u.t = t /\ u.fh = 0
    BY <1>2
  <1>4. o \in {"open", "close", "readdir", "fsync", "read", "write", "pagein", "pageout"}
    BY DEF OpsAt
  <1>5. u \in ThreadState
    BY <1>2, <1>4 DEF ThreadState
  <1>6. thr' = [thr EXCEPT ![x] = u] /\ panic' = panic
    BY <1>2 DEF Get
  <1>7. Moves(x, u) /\ LockChange(x, u)
    BY <1>1, <1>3, <1>5, <1>6, MoveFacts DEF LockChange
  <1>8. PlaceOf(x, u)'
    BY <1>3, <1>4 DEF PlaceOf, Reachable, Valid
  <1>9. vn.kind # "cached" => UnpagedOf(u)'
    BY <1>3 DEF UnpagedOf, Valid
  <1>10. thr[Vfs].op \notin {"reclaim", "vclean"}
    BY DEF Reachable
  <1>11. Quiet /\ QuietVnode /\ NoimplOk
    BY <1>1, <1>6, VnodeFields, GivenSame DEF Quiet, QuietVnode, NoimplOk, TypeOK
  <1> QED
    BY <1>3, <1>7, <1>8, <1>9, <1>10, <1>11, QuietUser

\* Page I/O begins, on a vnode that has page I/O.
LEMMA QuietStrategy ==
    ASSUME FileInv, NEW x \in Threads \ {Vfs},
           NEW o \in {"close", "fsync", "read", "write", "pagein", "pageout"}, o \in OpsOf(x),
           Strategy(x, o), UNCHANGED <<fufh, vn, desc, dead, noimpl, fh_current, given, dropped, released, over>>,
           thr[x].pc \notin {"put", "readdir"}, Reachable,
           \/ nodelock = Nobody /\ nodelock' = x /\ o \in Holds
           \/ nodelock' = nodelock /\ (o \in Holds <=> thr[x].op \in Holds),
           vn.kind = "cached",
           o = "close" => desc[x] \in Types /\ Valid(desc[x])
    PROVE  FileInv'
  <1>1. o \in OpsAt("io") /\ o \in OpsAt("get") /\ o \notin {"open", "readdir"}
    BY DEF OpsAt
  <1>2. Slot(o) \in Types /\ FUFH_RDWR \in Types /\ FUFH_RDONLY \in Types
    BY DEF Slot, Types, FUFH_RDONLY, FUFH_WRONLY, FUFH_RDWR
  <1>3. TypeOK
    BY DEF FileInv
  <1>4. ASSUME NEW t \in Types, Sends(x, "io", o, t), panic' = panic
        PROVE  FileInv'
    <2>1. Quiet /\ QuietVnode /\ NoimplOk
      BY <1>3, <1>4, VnodeFields, GivenSame DEF Quiet, QuietVnode, NoimplOk, TypeOK
    <2>2. "io" \in {"io", "flush", "fsync"}
      OBVIOUS
    <2> QED
      BY <1>1, <1>4, <2>1, <2>2, QuietSend
  <1>5. ASSUME NEW t \in Types, Get(x, o, t), ~Valid(t)
        PROVE  FileInv'
    BY <1>1, <1>5, QuietGet
  <1>6. CASE Valid(Slot(o))
    BY <1>2, <1>4, <1>6 DEF Strategy
  <1>7. CASE ~Valid(Slot(o)) /\ Valid(FUFH_RDWR)
    BY <1>2, <1>4, <1>7 DEF Strategy
  <1>8. CASE ~Valid(Slot(o)) /\ ~Valid(FUFH_RDWR)
    BY <1>2, <1>5, <1>8 DEF Strategy
  <1> QED
    BY <1>6, <1>7, <1>8

-----------------------------------------------------------------------------
(* The actions that leave the slots and the descriptors alone *)

\* Sending a message changes the control of the sender only.
LEMMA UpcallQuiet ==
    ASSUME TypeOK, Upcall
    PROVE  Quiet /\ QuietVnode /\ NoimplOk
  BY VnodeFields, GivenSame DEF Upcall, Quiet, QuietVnode, NoimplOk, TypeOK

\* Nor does an answer that nobody uses.
LEMMA DropsQuiet ==
    ASSUME TypeOK, Drops
    PROVE  Quiet /\ QuietVnode /\ NoimplOk
  BY VnodeFields, GivenDropped DEF Drops, Quiet, QuietVnode, NoimplOk, TypeOK

\* A call begins: nobody has the node lock, and the vnode is not being recycled.
LEMMA IdleOp ==
    ASSUME PlacesOk, NEW x \in Threads, thr[x].pc \in {"idle", "created"}
    PROVE  thr[x].op = "none"
  BY DEF PlacesOk, PlaceOf, OpsAt

\* The least of some slots is one of them.
LEMMA MinSlot ==
    ASSUME NEW S, S \subseteq Types, S # {}
    PROVE  Min(S) \in S /\ \A k \in S : Min(S) <= k
  <1>1. S \subseteq {0, 1, 2}
    BY DEF Types, FUFH_RDONLY, FUFH_RDWR
  <1>2. \E m \in S : \A k \in S : m <= k
    <2>1. CASE 0 \in S
      BY <1>1, <2>1
    <2>2. CASE 0 \notin S /\ 1 \in S
      BY <1>1, <2>2
    <2>3. CASE 0 \notin S /\ 1 \notin S
      <3>1. PICK k \in S : TRUE
        OBVIOUS
      <3>2. 2 \in S /\ \A j \in S : j = 2
        BY <1>1, <2>3, <3>1
      <3> QED
        BY <3>2
    <2> QED
      BY <2>1, <2>2, <2>3
  <1> QED
    BY <1>2 DEF Min

\* The next slot of a loop over the handles is in use.
LEMMA InUseSlots ==
    ASSUME NEW t, InUse(t) # {}
    PROVE  Min(InUse(t)) \in Types /\ Valid(Min(InUse(t))) /\ Min(InUse(t)) >= t
  <1>1. InUse(t) \subseteq Types
    BY DEF InUse
  <1>2. Min(InUse(t)) \in InUse(t)
    BY <1>1, MinSlot
  <1> QED
    BY <1>2 DEF InUse

\* OPEN fails: the operation ends, or goes on without its page I/O.
LEMMA GetFailInv ==
    ASSUME FileInv, NEW x \in Threads, GetFail(x) \/ GetDropped(x)
    PROVE  FileInv'
  <1>1. TypeOK /\ PlacesOk /\ RecycleOk /\ UnpagedOk
    BY DEF FileInv
  <1>2. thr[x].pc = "get"
    BY DEF GetFail, GetDropped, GetLeaves, At
  <1>3. x \in Threads \ {Vfs} /\ Reachable
    BY <1>1, <1>2, NotVfs, UnderWay
  <1>4. Quiet /\ QuietVnode /\ NoimplOk
    BY <1>1, UpcallQuiet, DropsQuiet DEF GetFail, GetDropped
  <1>5. CASE thr[x].op \notin {"close", "fsync"}
    BY <1>2, <1>3, <1>4, <1>5, QuietEnd DEF GetFail, GetDropped, GetLeaves
  <1>6. CASE thr[x].op \in {"close", "fsync"}
    <2>1. PICK u : u = [thr[x] EXCEPT !.pc = "pushed"]
      OBVIOUS
    <2>2. u \in ThreadState /\ u.pc = "pushed" /\ u.op = thr[x].op /\ u.fh = thr[x].fh /\ u.t = thr[x].t
      BY <1>1, <2>1, ThreadFields DEF ThreadState
    <2>3. thr' = [thr EXCEPT ![x] = u] /\ nodelock' = nodelock
      BY <1>1, <1>6, <2>1 DEF GetFail, GetDropped, GetLeaves, TypeOK
    <2>4. Moves(x, u) /\ LockChange(x, u)
      BY <1>1, <2>2, <2>3, MoveFacts DEF LockChange
    <2>5. PlaceOf(x, thr[x])
      BY <1>1 DEF PlacesOk
    <2>6. thr[x].fh = 0 /\ thr[x].op \in OpsAt("pushed")
      BY <1>2, <1>6, <2>5 DEF PlaceOf, OpsAt
    <2>7. PlaceOf(x, u)'
      BY <1>2, <1>4, <1>6, <2>2, <2>5, <2>6 DEF PlaceOf, Quiet, QuietVnode, Valid
    <2>8. UnpagedOf(u)'
      BY <1>6, <2>2, <2>6 DEF UnpagedOf
    <2> QED
      BY <1>2, <1>3, <1>4, <2>2, <2>4, <2>7, <2>8, QuietUser DEF Reachable
  <1> QED
    BY <1>5, <1>6

\* The next chunk of I/O names the handle that the slot has by now.
LEMMA IoNextInv ==
    ASSUME FileInv, NEW x \in Threads, IoNext(x)
    PROVE  FileInv'
  <1>1. TypeOK /\ PlacesOk /\ RecycleOk /\ UnpagedOk
    BY DEF FileInv
  <1>2. thr[x].pc = "io" /\ PlaceOf(x, thr[x])
    BY <1>1 DEF IoNext, At, PlacesOk
  <1>3. x \in Threads \ {Vfs} /\ Reachable
    BY <1>1, <1>2, NotVfs, UnderWay
  <1>4. Quiet /\ QuietVnode /\ NoimplOk /\ nodelock' = nodelock
    BY <1>1, UpcallQuiet DEF IoNext
  <1>5. PICK o, t : o = thr[x].op /\ t = thr[x].t
    OBVIOUS
  <1>6. t \in Types /\ o \in OpsAt("io") /\ o \in OpsOf(x)
    BY <1>2, <1>5 DEF PlaceOf
  <1>7. o = "close" => desc[x] \in Types /\ Valid(desc[x])
    BY <1>2, <1>5 DEF PlaceOf
  <1>8. vn.kind # "cached" => Valid(t) /\ o \notin {"pagein", "pageout"}
    BY <1>1, <1>2, <1>5 DEF UnpagedOk, UnpagedOf
  <1>9. Sends(x, "io", o, t) /\ "io" \in {"io", "flush", "fsync"}
    BY <1>5 DEF IoNext
  <1> QED
    BY <1>2, <1>3, <1>4, <1>5, <1>6, <1>7, <1>8, <1>9, QuietSend

\* The I/O is done.
LEMMA IoDoneInv ==
    ASSUME FileInv, NEW x \in Threads, IoDone(x)
    PROVE  FileInv'
  <1>1. TypeOK /\ PlacesOk /\ RecycleOk /\ UnpagedOk
    BY DEF FileInv
  <1>2. thr[x].pc = "io" /\ PlaceOf(x, thr[x])
    BY <1>1 DEF IoDone, At, PlacesOk
  <1>3. x \in Threads \ {Vfs} /\ Reachable
    BY <1>1, <1>2, NotVfs, UnderWay
  <1>4. Quiet /\ NoimplOk
    BY <1>1, GivenSame DEF IoDone, Quiet, NoimplOk, TypeOK
  <1>5. QuietVnode
    <2>1. vn' = [vn EXCEPT !.dirty = vn.dirty /\ thr[x].op \in {"pagein", "read"}]
      BY DEF IoDone
    <2>2. vn \in VnodeState /\ vn.dirty \in BOOLEAN
      BY <1>1, VnodeFields
    <2> QED
      BY <2>1, <2>2 DEF QuietVnode, VnodeState
  <1>6. CASE thr[x].op \notin {"close", "fsync"}
    BY <1>2, <1>3, <1>4, <1>5, <1>6, QuietEnd DEF IoDone
  <1>7. CASE thr[x].op \in {"close", "fsync"}
    <2>1. PICK u : u = [thr[x] EXCEPT !.pc = "pushed", !.fh = 0]
      OBVIOUS
    <2>2. u \in ThreadState /\ u.pc = "pushed" /\ u.op = thr[x].op /\ u.fh = 0
      BY <1>1, <2>1, ThreadFields DEF ThreadState
    <2>3. thr' = [thr EXCEPT ![x] = u] /\ nodelock' = nodelock
      BY <1>1, <1>7, <2>1 DEF IoDone, TypeOK
    <2>4. Moves(x, u) /\ LockChange(x, u)
      BY <1>1, <2>2, <2>3, MoveFacts DEF LockChange
    <2>6. thr[x].op \in OpsAt("pushed")
      BY <1>7 DEF OpsAt
    <2>7. PlaceOf(x, u)'
      BY <1>2, <1>4, <1>5, <1>7, <2>2, <2>6 DEF PlaceOf, Quiet, QuietVnode, Valid
    <2>8. UnpagedOf(u)'
      BY <1>7, <2>2 DEF UnpagedOf
    <2> QED
      BY <1>2, <1>3, <1>4, <1>5, <2>2, <2>4, <2>7, <2>8, QuietUser DEF Reachable
  <1> QED
    BY <1>6, <1>7

\* Page I/O is for vnodes of kind "cached".
LEMMA Paged ==
    ASSUME TypeOK, UnpagedOk, vn.dirty \/ (~vn.direct /\ ~IsDir)
    PROVE  vn.kind = "cached"
  BY VnodeFields DEF UnpagedOk, UnpagedVnode, IsDir

\* The pager begins page I/O without the node lock.
LEMMA PageInv ==
    ASSUME FileInv, NEW x \in Pagers, NEW o \in {"pagein", "pageout"}, Page(x, o)
    PROVE  FileInv'
  <1>1. TypeOK /\ PlacesOk /\ UnpagedOk
    BY DEF FileInv
  <1>2. x \in Threads \ {Vfs} /\ thr[x].pc = "idle" /\ Reachable
    BY DEF Page, At, Threads
  <1>3. thr[x].op = "none"
    BY <1>1, <1>2, IdleOp
  <1>4. vn.kind = "cached"
    BY <1>1, Paged DEF Page
  <1>5. o \in OpsOf(x)
    BY DEF OpsOf
  <1>6. nodelock' = nodelock /\ (o \in Holds <=> thr[x].op \in Holds)
    BY <1>3 DEF Page, Holds
  <1>7. /\ Strategy(x, o)
        /\ UNCHANGED <<fufh, vn, desc, dead, noimpl, fh_current, given, dropped, released, over>>
    BY DEF Page
  <1>8. o \in {"close", "fsync", "read", "write", "pagein", "pageout"} /\ o # "close"
    OBVIOUS
  <1> QED
    BY <1>2, <1>4, <1>5, <1>6, <1>7, <1>8, QuietStrategy

\* open asks for a handle with the node lock.
LEMMA OpenGetInv ==
    ASSUME FileInv, NEW x \in Users, NEW t \in Types, IsDir => t = FUFH_RDONLY, OpenGet(x, t)
    PROVE  FileInv'
  <1>1. TypeOK /\ PlacesOk
    BY DEF FileInv
  <1>2. /\ x \in Threads \ {Vfs} /\ thr[x].pc \in {"idle", "created"} /\ Reachable
        /\ desc[x] = Closed /\ nodelock = Nobody /\ nodelock' = x /\ ~Valid(t)
    BY DEF OpenGet, OpenBegins, At, Threads
  <1>3. "open" \in OpsAt("get") /\ "open" \in OpsOf(x) /\ "open" \in Holds
    BY DEF OpsAt, OpsOf, Holds
  <1>4. /\ Get(x, "open", t)
        /\ UNCHANGED <<fufh, vn, desc, dead, noimpl, fh_current, given, dropped, released, over>>
    BY DEF OpenGet
  <1> QED
    BY <1>2, <1>3, <1>4, QuietGet DEF IsDir

\* open is not called after create, or create fails.
LEMMA OpenFailInv ==
    ASSUME FileInv, NEW x \in Users, OpenFail(x) \/ CreateFail(x) \/ CreateDropped(x)
    PROVE  FileInv'
  <1>1. TypeOK
    BY DEF FileInv
  <1>2. x \in Threads \ {Vfs} /\ thr[x].pc \notin {"put", "readdir"} /\ Ends(x) /\ (Upcall \/ Drops)
    BY DEF OpenFail, CreateFail, CreateDropped, At, Threads
  <1> QED
    BY <1>1, <1>2, UpcallQuiet, DropsQuiet, QuietEnd

\* create begins, with the lock of the directory only.
LEMMA CreateInv ==
    ASSUME FileInv, NEW x \in Users, Create(x)
    PROVE  FileInv'
  <1>1. TypeOK /\ PlacesOk
    BY DEF FileInv
  <1>2. x \in Threads \ {Vfs} /\ thr[x].pc = "idle" /\ PlaceOf(x, thr[x])
    BY <1>1 DEF Create, At, Threads, PlacesOk
  <1>3. thr[x].op = "none" /\ thr[x].fh = 0
    BY <1>1, <1>2, IdleOp DEF PlaceOf
  <1>4. PICK l \in {"create", "mknod"} :
            thr' = [thr EXCEPT ![x].pc = l, ![x].op = "create"]
    BY DEF Create
  <1>5. PICK u : u = [thr[x] EXCEPT !.pc = l, !.op = "create"]
    OBVIOUS
  <1>6. u \in ThreadState /\ u.pc = l /\ u.op = "create" /\ u.fh = 0
    <2>1. thr[x] \in ThreadState
      BY <1>1, <1>2, ThreadFields
    <2>2. CASE l = "create"
      BY <1>3, <1>5, <2>1, <2>2 DEF ThreadState
    <2>3. CASE l = "mknod"
      BY <1>3, <1>5, <2>1, <2>3 DEF ThreadState
    <2> QED
      BY <2>2, <2>3
  <1>7. thr' = [thr EXCEPT ![x] = u]
    BY <1>1, <1>4, <1>5 DEF TypeOK
  <1>8. Moves(x, u)
    BY <1>1, <1>2, <1>6, <1>7, MoveFacts
  <1>9. LockChange(x, u)
    BY <1>3, <1>6 DEF LockChange, Create, Holds
  <1>10. "create" \in OpsAt(l) /\ "create" \in OpsOf(x)
    BY DEF OpsAt, OpsOf
  <1>11. PlaceOf(x, u)' /\ UnpagedOf(u)'
    BY <1>6, <1>10 DEF PlaceOf, UnpagedOf
  <1>12. Quiet /\ QuietVnode /\ NoimplOk
    BY <1>1, UpcallQuiet DEF Create
  <1> QED
    BY <1>2, <1>6, <1>8, <1>9, <1>11, <1>12, QuietUser

\* The daemon does not know CREATE: create goes on with MKNOD.
LEMMA CreateNosysInv ==
    ASSUME FileInv, NEW x \in Users, CreateNosys(x)
    PROVE  FileInv'
  <1>1. TypeOK /\ PlacesOk
    BY DEF FileInv
  <1>2. x \in Threads \ {Vfs} /\ thr[x].pc = "create" /\ PlaceOf(x, thr[x])
    BY <1>1 DEF CreateNosys, At, Threads, PlacesOk
  <1>3. thr[x].op = "create" /\ thr[x].fh = 0
    BY <1>2 DEF PlaceOf, OpsAt
  <1>5. PICK u : u = [thr[x] EXCEPT !.pc = "mknod"]
    OBVIOUS
  <1>6. u \in ThreadState /\ u.pc = "mknod" /\ u.op = "create" /\ u.fh = 0
    BY <1>1, <1>2, <1>3, <1>5, ThreadFields DEF ThreadState
  <1>7. thr' = [thr EXCEPT ![x] = u]
    BY <1>1, <1>5 DEF TypeOK, CreateNosys
  <1>8. Moves(x, u)
    BY <1>1, <1>2, <1>6, <1>7, MoveFacts
  <1>9. LockChange(x, u)
    BY <1>3, <1>6 DEF LockChange, CreateNosys
  <1>10. "create" \in OpsAt("mknod") /\ "create" \in OpsOf(x)
    BY DEF OpsAt, OpsOf
  <1>11. PlaceOf(x, u)' /\ UnpagedOf(u)'
    BY <1>6, <1>10 DEF PlaceOf, UnpagedOf
  <1>12. Quiet /\ QuietVnode /\ NoimplOk
    BY <1>1, VnodeFields, GivenSame DEF CreateNosys, Quiet, QuietVnode, NoimplOk, TypeOK
  <1> QED
    BY <1>2, <1>6, <1>8, <1>9, <1>11, <1>12, QuietUser

\* The place after create, before open.
LEMMA CreatedFits ==
    ASSUME NEW x \in Users, NEW u, u = [IdleThread EXCEPT !.pc = "created"]
    PROVE  /\ u \in ThreadState /\ u.pc = "created" /\ u.op = "none" /\ u.fh = 0
           /\ vn'.live => PlaceOf(x, u)'
           /\ UnpagedOf(u)'
  <1>1. u \in ThreadState /\ u.pc = "created" /\ u.op = "none" /\ u.fh = 0
    BY DEF IdleThread, ThreadState, Types, FUFH_RDONLY, FUFH_RDWR
  <1>2. "none" \in OpsAt("created") /\ "none" \in OpsOf(x)
    BY DEF OpsAt, OpsOf
  <1>3. vn'.live => PlaceOf(x, u)'
    BY <1>1, <1>2 DEF PlaceOf
  <1> QED
    BY <1>1, <1>3 DEF UnpagedOf

\* create and lookup find the vnode, or make a new one; nobody reclaims it.
LEMMA FoundVnode ==
    ASSUME TypeOK, PlacesOk, vn.live => Reachable, vn' = Found
    PROVE  QuietVnode /\ vn'.live /\ thr[Vfs].op \notin {"reclaim", "vclean"}
  <1>1. vn \in VnodeState
    BY VnodeFields
  <1>2. QuietVnode /\ vn'.live
    BY <1>1 DEF QuietVnode, Found, VnodeState
  <1>3. ASSUME thr[Vfs].op \in {"reclaim", "vclean"}
        PROVE  vn.live
    <2>1. PlaceOf(Vfs, thr[Vfs]) /\ Vfs \in Threads
      BY DEF PlacesOk, Threads
    <2>2. thr[Vfs].pc \notin {"idle", "create", "mknod"}
      BY <1>3, <2>1 DEF PlaceOf, OpsAt
    <2> QED
      BY <2>1, <2>2 DEF PlaceOf
  <1> QED
    BY <1>2, <1>3 DEF Reachable

\* MKNOD finds or makes the vnode.
LEMMA MknodOkInv ==
    ASSUME FileInv, NEW x \in Users, MknodOk(x)
    PROVE  FileInv'
  <1>1. TypeOK /\ PlacesOk
    BY DEF FileInv
  <1>2. x \in Threads \ {Vfs} /\ thr[x].pc = "mknod" /\ PlaceOf(x, thr[x])
    BY <1>1 DEF MknodOk, At, Threads, PlacesOk
  <1>3. thr[x].op = "create"
    BY <1>2 DEF PlaceOf, OpsAt
  <1>4. QuietVnode /\ vn'.live /\ thr[Vfs].op \notin {"reclaim", "vclean"}
    BY <1>1, FoundVnode DEF MknodOk
  <1>5. PICK u : u = [IdleThread EXCEPT !.pc = "created"]
    OBVIOUS
  <1>6. u \in ThreadState /\ u.pc = "created" /\ u.op = "none" /\ PlaceOf(x, u)' /\ UnpagedOf(u)'
    BY <1>4, <1>5, CreatedFits
  <1>7. thr' = [thr EXCEPT ![x] = u]
    BY <1>5 DEF MknodOk
  <1>8. Moves(x, u)
    BY <1>1, <1>2, <1>6, <1>7, MoveFacts
  <1>9. LockChange(x, u)
    BY <1>3, <1>6 DEF LockChange, MknodOk, Holds
  <1>10. Quiet /\ NoimplOk
    BY <1>1, GivenSame DEF MknodOk, Quiet, NoimplOk, TypeOK
  <1> QED
    BY <1>2, <1>4, <1>6, <1>8, <1>9, <1>10, QuietUser

\* close writes the dirty pages first.
LEMMA ClosePushInv ==
    ASSUME FileInv, NEW x \in Users, ClosePush(x)
    PROVE  FileInv'
  <1>1. TypeOK /\ UnpagedOk
    BY DEF FileInv
  <1>2. /\ x \in Threads \ {Vfs} /\ thr[x].pc = "idle" /\ Reachable /\ vn.dirty
        /\ nodelock = Nobody /\ nodelock' = x /\ desc[x] # Closed /\ Valid(desc[x])
    BY DEF ClosePush, Closes, Begins, At, Threads
  <1>3. "close" \in OpsOf(x) /\ "close" \in Holds
        /\ "close" \in {"close", "fsync", "read", "write", "pagein", "pageout"}
    BY DEF OpsOf, Holds
  <1>4. vn.kind = "cached"
    BY <1>1, <1>2, Paged
  <1>5. desc[x] \in Types
    BY <1>1, <1>2 DEF TypeOK
  <1>6. /\ Strategy(x, "close")
        /\ UNCHANGED <<fufh, vn, desc, dead, noimpl, fh_current, given, dropped, released, over>>
    BY DEF ClosePush
  <1> QED
    BY <1>2, <1>3, <1>4, <1>5, <1>6, QuietStrategy

\* fsync writes the dirty pages first.
LEMMA FsyncPushInv ==
    ASSUME FileInv, NEW x \in Users, FsyncPush(x)
    PROVE  FileInv'
  <1>1. TypeOK /\ UnpagedOk
    BY DEF FileInv
  <1>2. /\ x \in Threads \ {Vfs} /\ thr[x].pc = "idle" /\ Reachable /\ vn.dirty
        /\ nodelock = Nobody /\ nodelock' = x
    BY DEF FsyncPush, Begins, At, Threads
  <1>3. "fsync" \in OpsOf(x) /\ "fsync" \in Holds
        /\ "fsync" \in {"close", "fsync", "read", "write", "pagein", "pageout"}
    BY DEF OpsOf, Holds
  <1>4. vn.kind = "cached"
    BY <1>1, <1>2, Paged
  <1>6. /\ Strategy(x, "fsync")
        /\ UNCHANGED <<fufh, vn, desc, dead, noimpl, fh_current, given, dropped, released, over>>
    BY DEF FsyncPush
  <1> QED
    BY <1>2, <1>3, <1>4, <1>6, QuietStrategy

\* A read or write goes through the page cache to the daemon.
LEMMA CachedIoInv ==
    ASSUME FileInv, NEW x \in Users, NEW o \in {"read", "write"}, CachedIo(x, o)
    PROVE  FileInv'
  <1>1. TypeOK /\ UnpagedOk
    BY DEF FileInv
  <1>2. /\ x \in Threads \ {Vfs} /\ thr[x].pc = "idle" /\ Reachable
        /\ nodelock = Nobody /\ nodelock' = x
    BY DEF CachedIo, Begins, At, Threads
  <1>3. o \in OpsOf(x) /\ o \in Holds /\ o # "close"
        /\ o \in {"close", "fsync", "read", "write", "pagein", "pageout"}
    BY DEF OpsOf, Holds
  <1>4. vn.kind = "cached"
    BY <1>1, Paged DEF CachedIo
  <1>6. /\ Strategy(x, o)
        /\ UNCHANGED <<fufh, vn, desc, dead, noimpl, fh_current, given, dropped, released, over>>
    BY DEF CachedIo
  <1> QED
    BY <1>2, <1>3, <1>4, <1>6, QuietStrategy

\* close sends FLUSH for the handle of its descriptor.
LEMMA FlushInv ==
    ASSUME FileInv, NEW x \in Users, Flush(x)
    PROVE  FileInv'
  <1>1. TypeOK /\ PlacesOk /\ RecycleOk /\ LocksOk
    BY DEF FileInv
  <1>2. x \in Threads \ {Vfs}
    BY DEF Threads
  <1>3. /\ thr[x].pc \notin {"put", "readdir"} /\ Reachable
        /\ desc[x] \in Types /\ Valid(desc[x])
        /\ \/ nodelock = Nobody
           \/ nodelock = x /\ thr[x].op = "close"
    <2>1. CASE Pushed(x, "close")
      <3>1. thr[x].pc = "pushed" /\ thr[x].op = "close"
        BY <2>1 DEF Pushed, At
      <3>2. desc[x] \in Types /\ Valid(desc[x])
        BY <1>1, <1>2, <3>1 DEF PlacesOk, PlaceOf
      <3>3. nodelock = x
        BY <1>1, <1>2, <3>1 DEF LocksOk, Holds
      <3> QED
        BY <1>1, <1>2, <3>1, <3>2, <3>3, UnderWay
    <2>2. CASE Closes(x)
      <3>1. thr[x].pc = "idle" /\ Reachable /\ nodelock = Nobody /\ desc[x] # Closed /\ Valid(desc[x])
        BY <2>2 DEF Closes, Begins, At
      <3> QED
        BY <1>1, <3>1 DEF TypeOK
    <2> QED
      BY <2>1, <2>2 DEF Flush, Synced
  <1>4. PICK t : t = desc[x]
    OBVIOUS
  <1>5. "close" \in OpsAt("flush") /\ "close" \in OpsOf(x) /\ "close" \in Holds
        /\ "flush" \in {"io", "flush", "fsync"}
    BY DEF OpsAt, OpsOf, Holds
  <1>6. Sends(x, "flush", "close", t) /\ nodelock' = x
    BY <1>4 DEF Flush
  <1>7. Quiet /\ QuietVnode /\ NoimplOk
    BY <1>1, UpcallQuiet DEF Flush
  <1>8. \/ nodelock = Nobody /\ nodelock' = x /\ "close" \in Holds
        \/ nodelock' = nodelock /\ ("close" \in Holds <=> thr[x].op \in Holds)
    BY <1>3, <1>5, <1>6
  <1> QED
    BY <1>2, <1>3, <1>4, <1>5, <1>6, <1>7, <1>8, QuietSend

\* Direct I/O takes a slot in use.
LEMMA DirectIoInv ==
    ASSUME FileInv, NEW x \in Users, NEW o \in {"read", "write"}, DirectIo(x, o)
    PROVE  FileInv'
  <1>1. TypeOK
    BY DEF FileInv
  <1>2. /\ x \in Threads \ {Vfs} /\ thr[x].pc = "idle" /\ Reachable
        /\ nodelock = Nobody /\ nodelock' = x
    BY DEF DirectIo, Begins, At, Threads
  <1>3. o \in OpsAt("io") /\ o \in OpsOf(x) /\ o \in Holds /\ o \notin {"close", "pagein", "pageout"}
        /\ "io" \in {"io", "flush", "fsync"}
    BY DEF OpsAt, OpsOf, Holds
  <1>4. PICK t \in Types : Valid(t) /\ Sends(x, "io", o, t)
    BY DEF DirectIo, Slot, Types, FUFH_RDONLY, FUFH_WRONLY, FUFH_RDWR
  <1>5. Quiet /\ QuietVnode /\ NoimplOk
    BY <1>1, UpcallQuiet DEF DirectIo
  <1> QED
    BY <1>2, <1>3, <1>4, <1>5, QuietSend

\* fsync sends FSYNC for the first handle.
LEMMA FsyncBeginInv ==
    ASSUME FileInv, NEW x \in Users, FsyncBegin(x)
    PROVE  FileInv'
  <1>1. TypeOK /\ PlacesOk /\ RecycleOk /\ LocksOk
    BY DEF FileInv
  <1>2. x \in Threads \ {Vfs}
    BY DEF Threads
  <1>3. /\ thr[x].pc \notin {"put", "readdir"} /\ Reachable
        /\ \/ nodelock = Nobody
           \/ nodelock = x /\ thr[x].op = "fsync"
    <2>1. CASE Pushed(x, "fsync")
      <3>1. thr[x].pc = "pushed" /\ thr[x].op = "fsync"
        BY <2>1 DEF Pushed, At
      <3>3. nodelock = x
        BY <1>1, <1>2, <3>1 DEF LocksOk, Holds
      <3> QED
        BY <1>1, <1>2, <3>1, <3>3, UnderWay
    <2>2. CASE Begins(x)
      BY <2>2 DEF Begins, At
    <2> QED
      BY <2>1, <2>2 DEF FsyncBegin
  <1>4. PICK t \in Types : Valid(t) /\ Sends(x, "fsync", "fsync", t)
    BY InUseSlots DEF FsyncBegin
  <1>5. "fsync" \in OpsAt("fsync") /\ "fsync" \in OpsOf(x) /\ "fsync" \in Holds
        /\ "fsync" \in {"io", "flush", "fsync"}
    BY DEF OpsAt, OpsOf, Holds
  <1>6. nodelock' = x /\ Quiet /\ QuietVnode /\ NoimplOk
    BY <1>1, UpcallQuiet DEF FsyncBegin
  <1>8. \/ nodelock = Nobody /\ nodelock' = x /\ "fsync" \in Holds
        \/ nodelock' = nodelock /\ ("fsync" \in Holds <=> thr[x].op \in Holds)
    BY <1>3, <1>5, <1>6
  <1> QED
    BY <1>2, <1>3, <1>4, <1>5, <1>6, <1>8, QuietSend

\* fsync goes on with the next handle in use, or ends.
LEMMA FsyncNextInv ==
    ASSUME FileInv, NEW x \in Users, FsyncNext(x)
    PROVE  FileInv'
  <1>1. TypeOK /\ PlacesOk /\ RecycleOk
    BY DEF FileInv
  <1>2. x \in Threads \ {Vfs} /\ thr[x].pc = "fsync"
    BY DEF Threads, FsyncNext, At
  <1>3. Reachable /\ thr[x].op = "fsync"
    BY <1>1, <1>2, UnderWay DEF PlacesOk, PlaceOf, OpsAt
  <1>4. Quiet /\ NoimplOk
    BY <1>1, GivenSame DEF FsyncNext, Quiet, NoimplOk, TypeOK
  <1>5. QuietVnode
    BY <1>1, VnodeFields DEF FsyncNext, QuietVnode
  <1>6. CASE InUse(thr[x].t + 1) = {}
    BY <1>2, <1>4, <1>5, <1>6, QuietEnd DEF FsyncNext
  <1>7. CASE InUse(thr[x].t + 1) # {}
    <2>1. PICK t \in Types : Valid(t) /\ Sends(x, "fsync", "fsync", t) /\ nodelock' = nodelock
      BY <1>7, InUseSlots DEF FsyncNext
    <2>2. "fsync" \in OpsAt("fsync") /\ "fsync" \in OpsOf(x) /\ "fsync" \in {"io", "flush", "fsync"}
      BY DEF OpsAt, OpsOf
    <2> QED
      BY <1>2, <1>3, <1>4, <1>5, <2>1, <2>2, QuietSend
  <1> QED
    BY <1>6, <1>7

\* fsync ends without a message.
LEMMA FsyncEndInv ==
    ASSUME FileInv, NEW x \in Users, FsyncEnd(x)
    PROVE  FileInv'
  <1>1. TypeOK
    BY DEF FileInv
  <1>2. x \in Threads \ {Vfs} /\ thr[x].pc \notin {"put", "readdir"} /\ Ends(x) /\ Upcall
    BY DEF FsyncEnd, Pushed, At, Threads
  <1> QED
    BY <1>1, <1>2, UpcallQuiet, QuietEnd

-----------------------------------------------------------------------------
(* The steps of recycling that leave the slots alone *)

\* The place of a scan of the slots.
LEMMA ScanFits ==
    ASSUME NEW o \in {"inactive", "reclaim", "vclean"}, NEW u, u.pc = "scan", u.op = o, u.fh = 0, vn'.live
    PROVE  PlaceOf(Vfs, u)' /\ UnpagedOf(u)'
  <1>1. o \in OpsAt("scan") /\ o \in OpsOf(Vfs) /\ o \notin {"open", "close", "readdir"}
    BY DEF OpsAt, OpsOf
  <1>2. PlaceOf(Vfs, u)'
    BY <1>1 DEF PlaceOf
  <1> QED
    BY <1>2 DEF UnpagedOf

\* A step of the thread that recycles the vnode.
LEMMA ScanStep ==
    ASSUME FileInv, NEW o \in {"inactive", "reclaim", "vclean"}, Scans(o), Quiet, QuietVnode, NoimplOk,
           thr[Vfs].pc \in {"idle", "scan"}, vn.live,
           \/ nodelock = Nobody /\ nodelock' = Vfs /\ o \in Holds
           \/ nodelock' = nodelock /\ (o \in Holds <=> thr[Vfs].op \in Holds)
           \/ nodelock' = (IF nodelock = Vfs THEN Nobody ELSE nodelock) /\ o \notin Holds,
           \A u \in Users : desc[u] = Closed,
           o = "inactive" \/ \A y \in Threads \ {Vfs} : thr[y].pc \in {"idle", "create", "mknod"}
    PROVE  FileInv'
  <1>1. TypeOK /\ RecycleOk
    BY DEF FileInv
  <1>2. PICK u : u = [pc |-> "scan", op |-> o, t |-> 0, fh |-> 0]
    OBVIOUS
  <1>3. vn'.live
    BY DEF QuietVnode
  <1>4. Vfs \in Threads /\ 0 \in Types \cup {3}
    BY DEF Threads, Types, FUFH_RDONLY, FUFH_RDWR
  <1>5. /\ u \in ThreadState /\ u.pc = "scan" /\ u.op = o /\ u.t = 0
        /\ PlaceOf(Vfs, u)' /\ UnpagedOf(u)'
    <2>1. u.pc = "scan" /\ u.op = o /\ u.t = 0 /\ u.fh = 0
      BY <1>2
    <2>2. u \in ThreadState
      BY <1>2, <1>4 DEF ThreadState
    <2> QED
      BY <1>3, <2>1, <2>2, ScanFits
  <1>6. thr' = [thr EXCEPT ![Vfs] = u]
    BY <1>2 DEF Scans
  <1>7. Moves(Vfs, u)
    BY <1>1, <1>4, <1>5, <1>6, MoveFacts
  <1>8. LockChange(Vfs, u)
    BY <1>5 DEF LockChange
  <1>9. RecycleOk'
    <2>1. thr'[Vfs].op = o /\ thr'[Vfs].t = 0 /\ thr'[Vfs].pc = "scan"
      BY <1>5, <1>7 DEF Moves
    <2>2. \A y \in Threads \ {Vfs} : thr'[y] = thr[y]
      BY <1>7 DEF Moves
    <2>3. \A k \in Types : ~(k < 0)
      BY DEF Types, FUFH_RDONLY, FUFH_RDWR
    <2> QED
      BY <1>3, <2>1, <2>2, <2>3 DEF RecycleOk, Quiet
  <1> QED
    BY <1>4, <1>5, <1>7, <1>8, <1>9, QuietStep

\* VNOP_INACTIVE begins when nobody uses the vnode.
LEMMA InactiveInv ==
    ASSUME FileInv, Inactive
    PROVE  FileInv'
  <1>1. TypeOK /\ PlacesOk /\ LocksOk
    BY DEF FileInv
  <1>2. Vfs \in Threads /\ vn.live /\ \A x \in Threads : thr[x].pc = "idle"
    BY DEF Inactive, NoIo, At, Threads
  <1>3. \A x \in Threads : thr[x].op \notin Holds
    BY <1>1, <1>2, IdleOp DEF Holds
  <1>4. nodelock = Nobody
    BY <1>1, <1>3 DEF TypeOK, LocksOk
  <1>5. Quiet /\ NoimplOk
    BY <1>1, GivenSame DEF Inactive, Quiet, NoimplOk, TypeOK
  <1>6. QuietVnode
    <2>1. vn \in VnodeState /\ vn' = [vn EXCEPT !.busy = FALSE]
      BY <1>1, VnodeFields DEF Inactive
    <2> QED
      BY <2>1 DEF QuietVnode, VnodeState
  <1>7. Scans("inactive") /\ nodelock' = Vfs /\ \A u \in Users : desc[u] = Closed
    BY DEF Inactive, NoUse
  <1>8. "inactive" \in Holds
    BY DEF Holds
  <1> QED
    BY <1>2, <1>4, <1>5, <1>6, <1>7, <1>8, ScanStep

\* VNOP_RECLAIM begins when nobody has a reference.
LEMMA ReclaimInv ==
    ASSUME FileInv, Reclaim
    PROVE  FileInv'
  <1>1. TypeOK /\ PlacesOk
    BY DEF FileInv
  <1>2. Vfs \in Threads /\ vn.live /\ \A x \in Threads : thr[x].pc = "idle"
    BY DEF Reclaim, NoIo, At, Threads
  <1>3. thr[Vfs].op = "none"
    BY <1>1, <1>2, IdleOp
  <1>5. Quiet /\ QuietVnode /\ NoimplOk
    BY <1>1, UpcallQuiet DEF Reclaim
  <1>7. Scans("reclaim") /\ nodelock' = nodelock /\ \A u \in Users : desc[u] = Closed
    BY DEF Reclaim, NoUse
  <1>8. "reclaim" \notin Holds /\ "none" \notin Holds
    BY DEF Holds
  <1> QED
    BY <1>2, <1>3, <1>5, <1>7, <1>8, ScanStep

\* A forced unmount reclaims the vnode after its inactive.
LEMMA VcleanReclaimInv ==
    ASSUME FileInv, VcleanReclaim
    PROVE  FileInv'
  <1>1. TypeOK /\ PlacesOk /\ LocksOk /\ RecycleOk
    BY DEF FileInv
  <1>2. Vfs \in Threads /\ thr[Vfs].pc = "scan" /\ thr[Vfs].op = "vclean"
    BY DEF VcleanReclaim, At, Threads
  <1>3. vn.live
    BY <1>1, <1>2 DEF PlacesOk, PlaceOf
  <1>4. nodelock = Vfs
    BY <1>1, <1>2 DEF LocksOk, Holds
  <1>5. Quiet /\ QuietVnode /\ NoimplOk
    BY <1>1, UpcallQuiet DEF VcleanReclaim
  <1>6. /\ \A u \in Users : desc[u] = Closed
        /\ \A y \in Threads \ {Vfs} : thr[y].pc \in {"idle", "create", "mknod"}
    BY <1>1, <1>2 DEF RecycleOk
  <1>7. Scans("reclaim") /\ nodelock' = Nobody
    BY DEF VcleanReclaim
  <1>8. "reclaim" \notin Holds
    BY DEF Holds
  <1> QED
    BY <1>2, <1>3, <1>4, <1>5, <1>6, <1>7, <1>8, ScanStep

\* inactive has released every handle.
LEMMA InactiveEndInv ==
    ASSUME FileInv, InactiveEnd
    PROVE  FileInv'
  <1>1. TypeOK /\ PlacesOk /\ RecycleOk
    BY DEF FileInv
  <1>2. Vfs \in Threads /\ thr[Vfs].pc = "scan" /\ Ends(Vfs)
    BY DEF InactiveEnd, At, Threads
  <1>3. PICK u : u = IdleThread
    OBVIOUS
  <1>4. Moves(Vfs, u) /\ LockChange(Vfs, u) /\ u.pc = "idle" /\ u.op = "none"
    BY <1>1, <1>2, <1>3, EndFacts, IdleFits
  <1>5. PlaceOf(Vfs, u)' /\ UnpagedOf(u)'
    BY <1>2, <1>3, IdleFits DEF PlaceOf, UnpagedOf
  <1>6. Quiet /\ QuietVnode /\ NoimplOk
    BY <1>1, UpcallQuiet DEF InactiveEnd
  <1>7. RecycleOk'
    <2>1. thr'[Vfs].op = "none"
      BY <1>4 DEF Moves
    <2>2. (vn.live => vn'.live) /\ UNCHANGED <<fufh, desc>>
      BY <1>6 DEF QuietVnode, Quiet
    <2> QED
      BY <1>1, <2>1, <2>2 DEF RecycleOk, Valid
  <1> QED
    BY <1>2, <1>4, <1>5, <1>6, <1>7, QuietStep

-----------------------------------------------------------------------------
(* The steps that change slots or descriptors *)

SlotTypes ==
    /\ fufh' \in [Types -> SlotState] /\ fh_current' \in Nat /\ given' \in Handles \cup {0}
    /\ dropped' \subseteq Handles /\ released' \in [Handles -> Nat] /\ over' \subseteq {"get", "create"}
    /\ dead' \in BOOLEAN /\ panic' = "none"

CallTypes == vn' \in VnodeState /\ desc' \in [Users -> Types \cup {Closed}] /\ NoimplOk

HandlesOk == SlotsOk /\ NoHandleLost /\ NodeLockProtects /\ CountOk /\ UsesOk

\* The parts of the invariant, put together again.
LEMMA FullStep ==
    ASSUME FileInv, NEW x \in Threads, NEW u, Moves(x, u), LockChange(x, u), SlotTypes, CallTypes,
           PlacesOk', RecycleOk', HandlesOk',
           vn'.kind # "cached" => UnpagedVnode' /\ UnpagedOf(u)' /\ OthersUnpaged(x)'
    PROVE  FileInv'
  <1>1. TypeOK /\ LocksOk /\ nodelock \in Threads \cup {Nobody}
    BY DEF FileInv, TypeOK
  <1>2. LocksOk' /\ nodelock' \in Threads \cup {Nobody}
    BY <1>1, LockMove
  <1>3. thr' \in [Threads -> ThreadState]
    BY DEF Moves
  <1>4. TypeOK'
    BY <1>2, <1>3 DEF TypeOK, SlotTypes, CallTypes, SlotState, VnodeState, NoimplOk
  <1>5. UnpagedOk'
    BY UnpagedMove
  <1> QED
    BY <1>2, <1>4, <1>5 DEF FileInv, HandlesOk, SlotTypes

\* What is known before a step.
LEMMA Parts ==
    ASSUME FileInv
    PROVE  /\ TypeOK /\ panic = "none" /\ PlacesOk /\ LocksOk /\ RecycleOk /\ UnpagedOk
           /\ SlotsOk /\ NoHandleLost /\ NodeLockProtects /\ CountOk /\ UsesOk
           /\ fufh \in [Types -> SlotState] /\ fh_current \in Nat /\ given \in Handles \cup {0}
           /\ dropped \subseteq Handles /\ released \in [Handles -> Nat]
           /\ over \subseteq {"get", "create"} /\ dead \in BOOLEAN
           /\ desc \in [Users -> Types \cup {Closed}] /\ noimpl \subseteq {"CREATE", "FLUSH", "FSYNC"}
  <1>1. TypeOK
    BY DEF FileInv
  <1>2. /\ fufh \in [Types -> SlotState] /\ fh_current \in Nat /\ given \in Handles \cup {0}
        /\ dropped \subseteq Handles /\ released \in [Handles -> Nat]
        /\ over \subseteq {"get", "create"} /\ dead \in BOOLEAN
        /\ desc \in [Users -> Types \cup {Closed}] /\ noimpl \subseteq {"CREATE", "FLUSH", "FSYNC"}
    BY <1>1 DEF TypeOK, SlotState
  <1> QED
    BY <1>1, <1>2 DEF FileInv

\* A step of the vnode or the session alone, or of a close that has nothing to count.
LEMMA StillStep ==
    ASSUME FileInv, UNCHANGED <<fufh, nodelock, thr, noimpl, fh_current, given, dropped, released, over, panic>>,
           dead' \in BOOLEAN, dead => dead',
           vn' \in VnodeState, vn'.kind = vn.kind, vn.live => vn'.live,
           desc' \in [Users -> Types \cup {Closed}],
           \A y \in Users : desc'[y] = desc[y] \/ (desc'[y] = Closed /\ thr[y].pc = "idle"),
           vn'.kind # "cached" => UnpagedVnode'
    PROVE  FileInv'
  <1> USE Parts
  <1>1. PICK u : u = thr[Vfs]
    OBVIOUS
  <1>2. Vfs \in Threads
    BY DEF Threads
  <1>3. Moves(Vfs, u) /\ LockChange(Vfs, u)
    BY <1>1 DEF Moves, LockChange, TypeOK
  <1>4. SlotTypes /\ CallTypes
    BY DEF SlotTypes, CallTypes, NoimplOk
  <1>5. \A k \in Types : Valid(k)' <=> Valid(k)
    BY DEF Valid
  <1>6. PlacesOk'
    <2>1. SUFFICES ASSUME NEW y \in Threads
                   PROVE  PlaceOf(y, thr[y])'
      BY DEF PlacesOk
    <2>2. PlaceOf(y, thr[y]) /\ thr'[y] = thr[y]
      BY DEF PlacesOk
    <2>3. thr[y].op \in {"open", "close"} => y \in Users
      BY <2>2 DEF PlaceOf, OpsOf
    <2>4. thr[y].pc = "idle" => thr[y].op = "none"
      BY IdleOp
    <2>5. thr[y].op \in {"open", "close"} => desc'[y] = desc[y]
      BY <2>3, <2>4
    <2> QED
      BY <2>2, <2>3, <2>5 DEF PlaceOf, Valid
  <1>7. RecycleOk'
    BY <1>5 DEF RecycleOk
  <1>8. SlotsOk' /\ NoHandleLost' /\ NodeLockProtects'
    BY DEF SlotsOk, NoHandleLost, NodeLockProtects, Valid
  <1>9. PutsSame /\ ReadsSame
    BY DEF PutsSame, ReadsSame, At
  <1>10. CountOk'
    BY <1>5, <1>9, CountSame
  <1>11. UsesOk'
    <2>1. SUFFICES ASSUME NEW k \in Types
                   PROVE  UseOk(k)'
      BY UsesSlots
    <2>2. k # Closed
      BY DEF Types, FUFH_RDONLY, FUFH_RDWR, Closed
    <2>3. Descriptors(k)' \subseteq Descriptors(k)
      BY <2>2 DEF Descriptors
    <2>4. Cardinality(Descriptors(k)') <= Cardinality(Descriptors(k))
          /\ Cardinality(Descriptors(k)) \in Nat /\ Cardinality(Descriptors(k)') \in Nat
      BY <2>3, DescriptorsFinite, FS_Subset
    <2>5. Reading' = Reading /\ Reading \in {0, 1} /\ (Intact' => Intact)
      BY <1>9 DEF Reading, ReadsSame, Intact
    <2>6. UseOk(k) /\ fufh[k].open_count \in Nat
      BY UsesSlots, SlotFields
    <2> QED
      BY <2>4, <2>5, <2>6 DEF UseOk
  <1>12. vn'.kind # "cached" => UnpagedOf(u)' /\ OthersUnpaged(Vfs)'
    <2>1. SUFFICES ASSUME vn.kind # "cached"
                   PROVE  UnpagedOf(u)' /\ OthersUnpaged(Vfs)'
      OBVIOUS
    <2>2. UnpagedOf(u)
      BY <1>1, <1>2, <2>1 DEF UnpagedOk
    <2>3. UnpagedOf(u)'
      BY <2>2 DEF UnpagedOf, Valid
    <2>4. given' \in Nat /\ given' >= given
      BY ReleasedNat
    <2> QED
      BY <1>2, <1>3, <1>5, <2>1, <2>3, <2>4, UnpagedGrown
  <1> QED
    BY <1>2, <1>3, <1>4, <1>6, <1>7, <1>8, <1>10, <1>11, <1>12, FullStep DEF HandlesOk

\* The steps that change neither a slot nor a thread.
LEMMA StillInv ==
    ASSUME FileInv, Mnomap \/ Lookup \/ Die \/ \E x \in Users : CloseNothing(x) \/ Dirty(x) \/ Mmap(x)
    PROVE  FileInv'
  <1> USE Parts
  <1>1. vn \in VnodeState /\ vn.kind \in {"dir", "direct", "cached"}
    BY VnodeFields
  <1>2. vn.kind # "cached" => UnpagedVnode
    BY DEF UnpagedOk
  <1>3. CASE Mnomap
    <2>1. vn' = [vn EXCEPT !.mapped = FALSE]
      BY <1>3 DEF Mnomap
    <2>2. vn' \in VnodeState /\ vn'.kind = vn.kind /\ (vn.live => vn'.live) /\ vn'.dirty = vn.dirty
          /\ vn'.direct = vn.direct /\ ~vn'.mapped
      BY <1>1, <2>1 DEF VnodeState
    <2>3. vn'.kind # "cached" => UnpagedVnode'
      BY <1>2, <1>3, <2>2 DEF UnpagedVnode, Mnomap
    <2> QED
      BY <1>3, <2>2, <2>3, StillStep DEF Mnomap
  <1>4. CASE Lookup
    <2>1. vn' = [vn EXCEPT !.live = TRUE]
      BY <1>4 DEF Lookup, Found
    <2>2. vn' \in VnodeState /\ vn'.kind = vn.kind /\ (vn.live => vn'.live) /\ vn'.dirty = vn.dirty
          /\ vn'.direct = vn.direct /\ vn'.mapped = vn.mapped
      BY <1>1, <2>1 DEF VnodeState
    <2>3. vn'.kind # "cached" => UnpagedVnode'
      BY <1>2, <1>4, <2>2 DEF UnpagedVnode, Lookup
    <2> QED
      BY <1>4, <2>2, <2>3, StillStep DEF Lookup
  <1>5. CASE Die
    <2>3. vn'.kind # "cached" => UnpagedVnode'
      BY <1>2, <1>5 DEF UnpagedVnode, Die
    <2> QED
      BY <1>1, <1>5, <2>3, StillStep DEF Die
  <1>6. ASSUME NEW x \in Users, CloseNothing(x)
        PROVE  FileInv'
    <2>1. desc' = [desc EXCEPT ![x] = Closed] /\ thr[x].pc = "idle"
      BY <1>6 DEF CloseNothing, Begins, At
    <2>2. /\ desc' \in [Users -> Types \cup {Closed}] /\ desc'[x] = Closed
          /\ \A y \in Users \ {x} : desc'[y] = desc[y]
      BY <2>1
    <2>3. vn'.kind # "cached" => UnpagedVnode'
      BY <1>2, <1>6, <2>2 DEF UnpagedVnode, CloseNothing
    <2> QED
      BY <1>1, <1>6, <2>1, <2>2, <2>3, StillStep DEF CloseNothing
  <1>7. ASSUME NEW x \in Users, Dirty(x)
        PROVE  FileInv'
    <2>1. vn' = [vn EXCEPT !.dirty = TRUE]
      BY <1>7 DEF Dirty
    <2>2. vn' \in VnodeState /\ vn'.kind = vn.kind /\ (vn.live => vn'.live)
      BY <1>1, <2>1 DEF VnodeState
    <2>3. vn.kind = "cached"
      <3>1. vn.kind # "direct"
        BY <1>2, <1>7 DEF UnpagedVnode, Dirty
      <3>2. ASSUME vn.kind = "dir"
            PROVE  FALSE
        <4>1. ~vn.mapped /\ desc[x] \in {FUFH_RDONLY, Closed}
          BY <1>2, <3>2 DEF UnpagedVnode
        <4> QED
          BY <1>7, <4>1 DEF Dirty, Allows, FUFH_RDONLY, FUFH_WRONLY, FUFH_RDWR, Closed
      <3> QED
        BY <1>1, <3>1, <3>2
    <2> QED
      BY <1>7, <2>2, <2>3, StillStep DEF Dirty
  <1>8. ASSUME NEW x \in Users, Mmap(x)
        PROVE  FileInv'
    <2>1. vn' = [vn EXCEPT !.mapped = TRUE, !.busy = TRUE]
      BY <1>8 DEF Mmap
    <2>2. vn' \in VnodeState /\ vn'.kind = vn.kind /\ (vn.live => vn'.live) /\ vn'.dirty = vn.dirty
          /\ vn'.direct = vn.direct
      BY <1>1, <2>1 DEF VnodeState
    <2>3. vn.kind # "dir"
      BY <1>8 DEF Mmap, IsDir
    <2>4. vn'.kind # "cached" => UnpagedVnode'
      BY <1>2, <1>8, <2>2, <2>3 DEF UnpagedVnode
    <2> QED
      BY <1>8, <2>2, <2>4, StillStep DEF Mmap
  <1> QED
    BY <1>3, <1>4, <1>5, <1>6, <1>7, <1>8

\* With nobody at work on the vnode, nobody recycles it.
LEMMA VfsIdle ==
    ASSUME PlacesOk, \A y \in Threads : thr[y].op \notin Holds \cup {"reclaim"}
    PROVE  thr[Vfs].op = "none"
  <1>1. Vfs \in Threads /\ thr[Vfs].op \in OpsOf(Vfs)
    BY DEF PlacesOk, PlaceOf, Threads
  <1>2. OpsOf(Vfs) = {"none", "inactive", "reclaim", "vclean"}
    BY DEF OpsOf
  <1> QED
    BY <1>1, <1>2 DEF Holds

\* Nobody recycles the vnode, and it stays.
LEMMA RecycleIdle ==
    ASSUME NEW x \in Threads \ {Vfs}, NEW u, Moves(x, u), thr[Vfs].op = "none", vn'.live
    PROVE  RecycleOk'
  <1>1. thr'[Vfs].op = "none"
    BY DEF Moves, Threads
  <1> QED
    BY <1>1 DEF RecycleOk

\* Beside a thread that is alone nobody is at these labels.
LEMMA LabelsAlone ==
    ASSUME TypeOK, PlacesOk, NEW x \in Threads, NEW u, Moves(x, u), Alone(x)
    PROVE  /\ (\E y \in Threads : At(y, "put")) <=> thr[x].pc = "put"
           /\ (\E y \in Threads : At(y, "put"))' <=> u.pc = "put"
           /\ (\E y \in Threads : At(y, "readdir")) <=> thr[x].pc = "readdir"
           /\ (\E y \in Threads : At(y, "readdir"))' <=> u.pc = "readdir"
           /\ Reading = (IF thr[x].pc = "readdir" THEN 1 ELSE 0)
           /\ Reading' = (IF u.pc = "readdir" THEN 1 ELSE 0)
  <1>1. \A y \in Threads \ {x} : thr[y].pc \notin {"put", "readdir"} /\ thr'[y] = thr[y]
    BY AloneLabels DEF Moves
  <1>2. /\ (\E y \in Threads : At(y, "put")) <=> thr[x].pc = "put"
        /\ (\E y \in Threads : At(y, "readdir")) <=> thr[x].pc = "readdir"
    BY <1>1 DEF At
  <1>3. /\ (\E y \in Threads : At(y, "put"))' <=> u.pc = "put"
        /\ (\E y \in Threads : At(y, "readdir"))' <=> u.pc = "readdir"
    BY <1>1 DEF At, Moves
  <1> QED
    BY <1>2, <1>3 DEF Reading

\* open takes up a handle that is in use.
LEMMA OpenReuseInv ==
    ASSUME FileInv, NEW x \in Users, NEW t \in Types, IsDir => t = FUFH_RDONLY, OpenReuse(x, t)
    PROVE  FileInv'
  <1> USE Parts
  <1>1. /\ x \in Threads \ {Vfs} /\ thr[x].pc \in {"idle", "created"} /\ Reachable
        /\ desc[x] = Closed /\ nodelock = Nobody /\ Valid(t) /\ Ends(x)
        /\ desc' = [desc EXCEPT ![x] = t]
        /\ UNCHANGED <<dead, noimpl, fh_current, given, dropped, released, over, panic>>
    BY DEF OpenReuse, OpenBegins, Opened, At, Threads
  <1>2. \A y \in Threads : thr[y].op \notin Holds \cup {"reclaim"}
    BY <1>1, AloneBegins
  <1>3. Alone(x) /\ thr[Vfs].op = "none"
    BY <1>2, VfsIdle DEF Alone
  <1>4. PICK u : u = IdleThread
    OBVIOUS
  <1>5. Moves(x, u) /\ LockChange(x, u) /\ u.pc = "idle"
    BY <1>1, <1>4, EndFacts, IdleFits
  <1>6. PlaceOf(x, u)' /\ UnpagedOf(u)'
    BY <1>1, <1>4, IdleFits DEF PlaceOf, UnpagedOf
  <1>7. PICK c : c = fufh[t].open_count + 1
    OBVIOUS
  <1>8. c \in Nat /\ c > 0
    BY <1>7, SlotFields
  <1>9. Counted(t, c)
    <2>1. fufh' = [fufh EXCEPT ![t].open_count = c]
      BY <1>7 DEF OpenReuse
    <2> QED
      BY <1>8, <2>1, CountFacts
  <1>10. /\ vn' \in VnodeState /\ vn'.kind = vn.kind /\ vn'.live = vn.live /\ vn'.mapped = vn.mapped
         /\ vn'.dirty = vn.dirty /\ (vn.direct => vn'.direct)
    <2>1. vn' = [vn EXCEPT !.busy = TRUE, !.direct = vn.direct \/ fufh[t].direct]
      BY DEF OpenReuse, Opened
    <2>2. vn \in VnodeState /\ vn.direct \in BOOLEAN
      BY VnodeFields
    <2> QED
      BY <2>1, <2>2 DEF VnodeState
  <1>11. SlotTypes /\ CallTypes
    BY <1>1, <1>9, <1>10 DEF SlotTypes, CallTypes, NoimplOk, Counted
  <1>12. desc'[x] = t /\ \A y \in Users \ {x} : desc'[y] = desc[y]
    BY <1>1
  <1>13. PlacesOk'
    <2>1. Keeps(x)
      BY <1>1, <1>3, <1>10, <1>12, KeepsAlone
    <2> QED
      BY <1>1, <1>5, <1>6, <2>1, PlacesMove
  <1>14. RecycleOk'
    BY <1>1, <1>3, <1>5, <1>10, RecycleIdle DEF Reachable
  <1>15. SlotsOk' /\ NoHandleLost' /\ \A k \in Types : Valid(k)' <=> Valid(k)
    BY <1>1, <1>8, <1>9, CountedSlots
  <1>16. NodeLockProtects'
    BY <1>1, <1>10 DEF NodeLockProtects
  <1>17. PutsSame /\ ReadsSame /\ Reading = 0 /\ Reading' = 0
    BY <1>1, <1>3, <1>5, LabelsAlone DEF PutsSame, ReadsSame
  <1>18. CountOk'
    BY <1>1, <1>15, <1>17, CountSame
  <1>19. UsesOk'
    <2>1. \A k \in Types : UseOk(k) /\ fufh[k].open_count \in Nat
      BY UsesSlots, SlotFields
    <2>2. /\ Cardinality(Descriptors(t)') = Cardinality(Descriptors(t)) + 1
          /\ \A k \in Types \ {t} : Cardinality(Descriptors(k)') = Cardinality(Descriptors(k))
      BY <1>1, DescriptorsOpen
    <2>3. \A k \in Types \ {t} : UseOk(k)'
      BY <1>1, <1>9, <1>17, <2>1, <2>2, UseSame DEF Counted
    <2>4. UseOk(t)'
      <3>1. (Intact' => Intact) /\ fufh'[t].open_count = fufh[t].open_count + 1
        BY <1>1, <1>7, <1>9 DEF Intact, Counted
      <3>2. Cardinality(Descriptors(t)) \in Nat
        BY DescriptorsFinite
      <3> QED
        BY <1>17, <2>1, <2>2, <3>1, <3>2 DEF UseOk
    <2> QED
      BY <2>3, <2>4, UsesSlots
  <1>20. vn'.kind # "cached" => UnpagedVnode' /\ OthersUnpaged(x)'
    <2>1. SUFFICES ASSUME vn.kind # "cached"
                   PROVE  UnpagedVnode' /\ OthersUnpaged(x)'
      BY <1>10
    <2>2. OthersUnpaged(x)'
      BY <1>1, <1>3, <1>5, <2>1, UnpagedAlone
    <2>3. UnpagedVnode'
      BY <1>10, <1>12, <2>1 DEF UnpagedOk, UnpagedVnode, IsDir
    <2> QED
      BY <2>2, <2>3
  <1> QED
    BY <1>1, <1>5, <1>6, <1>11, <1>13, <1>14, <1>15, <1>16, <1>18, <1>19, <1>20, FullStep DEF HandlesOk

\* readdir counts a use of the handle, or asks for one.
LEMMA ReaddirInv ==
    ASSUME FileInv, NEW x \in Users, Readdir(x)
    PROVE  FileInv'
  <1> USE Parts
  <1>1. /\ x \in Threads \ {Vfs} /\ thr[x].pc = "idle" /\ Reachable /\ vn.kind = "dir"
        /\ nodelock = Nobody /\ nodelock' = x
        /\ UNCHANGED <<vn, desc, dead, noimpl, fh_current, given, dropped, released, over>>
    BY DEF Readdir, Begins, IsDir, At, Threads
  <1>2. /\ FUFH_RDONLY \in Types /\ "readdir" \in OpsAt("get") /\ "readdir" \in OpsOf(x)
        /\ "readdir" \in Holds /\ "readdir" \in OpsAt("readdir")
    BY DEF Types, FUFH_RDONLY, FUFH_RDWR, OpsAt, OpsOf, Holds
  <1>3. CASE ~Valid(FUFH_RDONLY)
    <2>1. Get(x, "readdir", FUFH_RDONLY) /\ fufh' = fufh
      BY <1>3 DEF Readdir
    <2> QED
      BY <1>1, <1>2, <1>3, <2>1, QuietGet
  <1>4. CASE Valid(FUFH_RDONLY)
    <2>1. \A y \in Threads : thr[y].op \notin Holds \cup {"reclaim"}
      BY <1>1, AloneBegins
    <2>2. Alone(x) /\ thr[Vfs].op = "none"
      BY <2>1, VfsIdle DEF Alone
    <2>3. PICK t : t = FUFH_RDONLY
      OBVIOUS
    <2>4. PICK u : u = [pc |-> "readdir", op |-> "readdir", t |-> t, fh |-> fufh[t].fh_id]
      OBVIOUS
    <2>5. /\ u.pc = "readdir" /\ u.op = "readdir" /\ u.fh = fufh[t].fh_id
          /\ t \in Types /\ Valid(t)
      BY <1>2, <1>4, <2>3, <2>4
    <2>6. u \in ThreadState
      BY <2>4, <2>5, SlotFields DEF ThreadState
    <2>7. thr' = [thr EXCEPT ![x] = u] /\ panic' = panic
      BY <1>4, <2>3, <2>4 DEF Readdir, Sends
    <2>8. Moves(x, u) /\ LockChange(x, u)
      BY <1>1, <1>2, <2>5, <2>6, <2>7, MoveFacts DEF LockChange
    <2>9. PICK c : c = fufh[t].open_count + 1
      OBVIOUS
    <2>10. c \in Nat /\ c > 0
      BY <2>5, <2>9, SlotFields
    <2>11. Counted(t, c)
      <3>1. fufh' = [fufh EXCEPT ![t].open_count = c]
        BY <1>4, <2>3, <2>9 DEF Readdir
      <3> QED
        BY <2>5, <2>10, <3>1, CountFacts
    <2>12. SlotsOk' /\ NoHandleLost' /\ \A k \in Types : Valid(k)' <=> Valid(k)
      BY <1>1, <2>5, <2>10, <2>11, CountedSlots
    <2>13. vn \in VnodeState /\ SlotTypes /\ CallTypes
      BY <1>1, <2>7, <2>11, VnodeFields DEF SlotTypes, CallTypes, NoimplOk, Counted
    <2>14. PlacesOk'
      <3>1. Keeps(x)
        BY <1>1, <2>2, KeepsAlone
      <3>2. PlaceOf(x, u)'
        BY <1>1, <1>2, <2>3, <2>5, <2>12 DEF PlaceOf, Reachable
      <3> QED
        BY <1>1, <2>8, <3>1, <3>2, PlacesMove
    <2>15. RecycleOk'
      BY <1>1, <2>2, <2>8, RecycleIdle DEF Reachable
    <2>16. NodeLockProtects'
      BY <1>1 DEF NodeLockProtects
    <2>17. PutsSame /\ Reading = 0 /\ Reading' = 1
      BY <1>1, <2>2, <2>5, <2>8, LabelsAlone DEF PutsSame
    <2>18. CountOk'
      BY <1>1, <2>12, <2>17, CountSame
    <2>19. UsesOk'
      <3>1. SUFFICES ASSUME NEW k \in Types
                     PROVE  UseOk(k)'
        BY UsesSlots
      <3>2. UseOk(k) /\ fufh[k].open_count \in Nat /\ Cardinality(Descriptors(k)) \in Nat
        BY UsesSlots, SlotFields, DescriptorsFinite
      <3>3. Descriptors(k)' = Descriptors(k) /\ (Intact' => Intact)
        BY <1>1 DEF Descriptors, Intact
      <3>4. fufh'[k].open_count = IF k = FUFH_RDONLY THEN fufh[k].open_count + 1 ELSE fufh[k].open_count
        BY <2>3, <2>9, <2>11 DEF Counted
      <3> QED
        BY <2>17, <3>2, <3>3, <3>4 DEF UseOk
    <2>20. UnpagedVnode' /\ UnpagedOf(u)' /\ OthersUnpaged(x)'
      <3>1. OthersUnpaged(x)'
        BY <1>1, <2>2, <2>8, UnpagedAlone
      <3>2. UnpagedVnode'
        BY <1>1 DEF UnpagedOk, UnpagedVnode
      <3>3. fufh[t].fh_id \in 1 .. given /\ released[fufh[t].fh_id] = 0
        BY <2>5 DEF SlotsOk
      <3>4. UnpagedOf(u)'
        BY <1>1, <2>5, <3>3, ReleasedNat DEF UnpagedOf
      <3> QED
        BY <3>1, <3>2, <3>4
    <2> QED
      BY <1>1, <2>8, <2>13, <2>14, <2>15, <2>12, <2>16, <2>18, <2>19, <2>20, FullStep DEF HandlesOk
  <1> QED
    BY <1>3, <1>4

\* A use ends: the last one starts the release of the handle.
LEMMA DecStep ==
    ASSUME FileInv, NEW x \in Users, NEW t \in Types, NEW o \in {"close", "readdir"},
           UseDec(x, o, t), Valid(t), Alone(x), Reachable,
           UNCHANGED <<vn, dead, fh_current, given, dropped, over>>, NoimplOk, thr[x].pc # "put",
           \/ nodelock = Nobody \/ (nodelock = x /\ thr[x].op \in Holds),
           IF o = "close"
           THEN thr[x].pc # "readdir" /\ desc[x] = t /\ desc' = [desc EXCEPT ![x] = Closed]
           ELSE thr[x].pc = "readdir" /\ t = FUFH_RDONLY /\ desc' = desc
    PROVE  FileInv'
  <1> USE Parts
  <1>1. x \in Threads \ {Vfs} /\ o \in Holds
    BY DEF Threads, Holds
  <1>2. thr[Vfs].op \notin {"reclaim", "vclean"} /\ vn.live
    BY DEF Reachable
  <1>3. \A y \in Users \ {x} : desc'[y] = desc[y]
    OBVIOUS
  <1>4. desc' \in [Users -> Types \cup {Closed}]
    OBVIOUS
  <1>5. PICK c : c = fufh[t].open_count - 1
    OBVIOUS
  <1>6. c \in Nat
    BY <1>5, SlotFields DEF Valid
  <1>7. vn \in VnodeState
    BY VnodeFields
  \* what does not depend on whether it was the last use
  <1>8. ASSUME NEW u, Moves(x, u), LockChange(x, u), PlaceOf(x, u)', UnpagedOf(u)',
               u.pc # "readdir", SlotTypes, SlotsOk', NoHandleLost', CountOk', Counted(t, c)
        PROVE  FileInv'
    <2>1. PlacesOk'
      BY <1>1, <1>3, <1>8, KeepsAlone, PlacesMove
    <2>2. RecycleOk'
      <3>1. thr'[Vfs] = thr[Vfs]
        BY <1>1, <1>8 DEF Moves, Threads
      <3>2. \A y \in Users : desc[y] = Closed => desc'[y] = Closed
        OBVIOUS
      <3> QED
        BY <1>2, <3>1, <3>2 DEF RecycleOk
    <2>3. NodeLockProtects'
      BY DEF NodeLockProtects
    <2>4. Reading = (IF o = "readdir" THEN 1 ELSE 0) /\ Reading' = 0
      BY <1>1, <1>8, LabelsAlone
    <2>5. UsesOk'
      <3>1. SUFFICES ASSUME NEW k \in Types
                     PROVE  UseOk(k)'
        BY UsesSlots
      <3>2. UseOk(k) /\ fufh[k].open_count \in Nat
        BY UsesSlots, SlotFields
      <3>3. fufh'[k].open_count = IF k = t THEN fufh[k].open_count - 1 ELSE fufh[k].open_count
        BY <1>5, <1>8 DEF Counted
      <3>4. (Intact' => Intact) /\ Cardinality(Descriptors(k)) \in Nat
            /\ Cardinality(Descriptors(k)') \in Nat
        BY DescriptorsFinite DEF Intact
      <3>5. CASE o = "close"
        <4>1. Cardinality(Descriptors(k)') =
                 IF k = t THEN Cardinality(Descriptors(k)) - 1 ELSE Cardinality(Descriptors(k))
          BY <3>5, DescriptorsClose
        <4> QED
          BY <2>4, <3>2, <3>3, <3>4, <3>5, <4>1 DEF UseOk
      <3>6. CASE o = "readdir"
        <4>1. Descriptors(k)' = Descriptors(k)
          BY <3>6 DEF Descriptors
        <4> QED
          BY <2>4, <3>2, <3>3, <3>4, <3>6, <4>1 DEF UseOk
      <3> QED
        BY <3>5, <3>6
    <2>6. vn'.kind # "cached" => UnpagedVnode' /\ OthersUnpaged(x)'
      <3>1. SUFFICES ASSUME vn.kind # "cached"
                     PROVE  UnpagedVnode' /\ OthersUnpaged(x)'
        OBVIOUS
      <3>2. OthersUnpaged(x)'
        BY <1>1, <1>8, <3>1, UnpagedAlone
      <3>3. UnpagedVnode'
        <4>1. \A y \in Users : desc'[y] \in {desc[y], Closed}
          OBVIOUS
        <4> QED
          BY <3>1, <4>1 DEF UnpagedOk, UnpagedVnode
      <3> QED
        BY <3>2, <3>3
    <2>7. CallTypes
      BY <1>4, <1>7 DEF CallTypes
    <2> QED
      BY <1>1, <1>8, <2>1, <2>2, <2>3, <2>5, <2>6, <2>7, FullStep DEF HandlesOk
  <1>9. CASE c > 0
    <2>1. /\ fufh' = [fufh EXCEPT ![t].open_count = c] /\ Ends(x)
          /\ UNCHANGED <<released, panic>>
      BY <1>5, <1>9 DEF UseDec
    <2>2. Counted(t, c)
      BY <1>6, <2>1, CountFacts
    <2>3. SlotsOk' /\ NoHandleLost' /\ \A k \in Types : Valid(k)' <=> Valid(k)
      BY <1>6, <1>9, <2>1, <2>2, CountedSlots
    <2>4. PICK u : u = IdleThread
      OBVIOUS
    <2>5. Moves(x, u) /\ LockChange(x, u) /\ u.pc = "idle"
      BY <1>1, <2>1, <2>4, EndFacts, IdleFits
    <2>6. PlaceOf(x, u)' /\ UnpagedOf(u)'
      BY <1>1, <2>4, IdleFits DEF PlaceOf, UnpagedOf
    <2>7. PutsSame
      BY <1>1, <2>5, LabelsAlone DEF PutsSame
    <2>8. CountOk'
      BY <2>3, <2>7, CountSame
    <2>9. SlotTypes
      BY <2>1, <2>2 DEF SlotTypes, Counted
    <2> QED
      BY <1>8, <2>2, <2>3, <2>5, <2>6, <2>8, <2>9
  <1>10. CASE ~(c > 0)
    <2>0. c = 0
      BY <1>6, <1>10
    <2>1. PICK u : u = [pc |-> "put", op |-> o, t |-> t, fh |-> 0]
      OBVIOUS
    <2>2. /\ fufh' = [fufh EXCEPT ![t].open_count = c] /\ nodelock' = x
          /\ thr' = [thr EXCEPT ![x] = u] /\ panic' = panic
          /\ released' = IF dead THEN released ELSE [released EXCEPT ![fufh[t].fh_id] = @ + 1]
      BY <1>5, <1>10, <2>1 DEF UseDec, Put
    <2>3. u.pc = "put" /\ u.op = o /\ u.t = t /\ u.fh = 0
      BY <2>1
    <2>4. u \in ThreadState
      BY <2>1 DEF ThreadState
    <2>5. Moves(x, u) /\ LockChange(x, u)
      BY <1>1, <2>2, <2>3, <2>4, MoveFacts DEF LockChange
    <2>6. Counted(t, c) /\ Counted(t, 0)
      BY <1>6, <2>0, <2>2, CountFacts
    <2>7. fufh[t].fh_id \in Handles
      <3>1. fufh[t].fh_id \in 1 .. given
        BY DEF SlotsOk
      <3> QED
        BY <3>1, ReleasedNat DEF Handles
    <2>8. IF dead THEN released' = released ELSE Releases(fufh[t].fh_id)
      BY <2>2, <2>7, ReleaseFacts
    <2>9. /\ SlotsOk' /\ NoHandleLost' /\ ~Valid(t)'
          /\ \A k \in Types \ {t} : Valid(k)' <=> Valid(k)
      BY <2>6, <2>8, PutSlots
    <2>10. CountOk'
      <3>1. ~(\E y \in Threads : At(y, "put")) /\ (\E y \in Threads : At(y, "put"))'
        BY <1>1, <2>3, <2>5, LabelsAlone
      <3> QED
        BY <2>9, <3>1, CountPut
    <2>11. o \in OpsAt("put") /\ o \in OpsOf(x) /\ o # "open"
      BY DEF OpsAt, OpsOf
    <2>12. PlaceOf(x, u)' /\ UnpagedOf(u)'
      BY <1>2, <2>3, <2>11 DEF PlaceOf, UnpagedOf
    <2>13. SlotTypes
      <3>1. released' \in [Handles -> Nat]
        BY <2>8 DEF Releases
      <3> QED
        BY <2>2, <2>6, <3>1 DEF SlotTypes, Counted
    <2> QED
      BY <1>8, <2>3, <2>5, <2>6, <2>9, <2>10, <2>12, <2>13
  <1> QED
    BY <1>9, <1>10

\* close gives up its use, and the last one the handle.
LEMMA CloseDecInv ==
    ASSUME FileInv, NEW x \in Users, CloseDec(x)
    PROVE  FileInv'
  <1> USE Parts
  <1>1. x \in Threads \ {Vfs}
    BY DEF Threads
  <1>2. /\ thr[x].pc \notin {"put", "readdir"} /\ Reachable /\ Alone(x)
        /\ desc[x] \in Types /\ Valid(desc[x])
        /\ nodelock = Nobody \/ (nodelock = x /\ thr[x].op \in Holds)
    <2>1. CASE At(x, "flush") \/ Pushed(x, "close")
      <3>1. thr[x].pc \in {"flush", "pushed"} /\ PlaceOf(x, thr[x])
        BY <1>1, <2>1 DEF Pushed, At, PlacesOk
      <3>2. thr[x].op = "close"
        BY <2>1, <3>1 DEF Pushed, At, PlaceOf, OpsAt
      <3>3. desc[x] \in Types /\ Valid(desc[x])
        BY <3>1, <3>2 DEF PlaceOf
      <3>4. thr[x].op \in Holds /\ nodelock = x
        BY <1>1, <3>2 DEF LocksOk, Holds
      <3> QED
        BY <1>1, <3>1, <3>3, <3>4, UnderWay, AloneHolder
    <2>2. CASE Closes(x)
      <3>1. thr[x].pc = "idle" /\ Reachable /\ nodelock = Nobody /\ desc[x] # Closed /\ Valid(desc[x])
        BY <2>2 DEF Closes, Begins, At
      <3>2. Alone(x)
        BY <3>1, AloneBegins DEF Alone
      <3> QED
        BY <3>1, <3>2
    <2> QED
      BY <2>1, <2>2 DEF CloseDec, Synced
  <1>3. PICK t : t = desc[x]
    OBVIOUS
  <1>4. /\ UseDec(x, "close", t) /\ desc' = [desc EXCEPT ![x] = Closed]
        /\ UNCHANGED <<vn, dead, fh_current, given, dropped, over>>
    BY <1>3 DEF CloseDec
  <1>5. NoimplOk
    BY DEF CloseDec, NoimplOk
  <1> QED
    BY <1>2, <1>3, <1>4, <1>5, DecStep

\* readdir gives up its use, and the last one the handle.
LEMMA ReaddirDoneInv ==
    ASSUME FileInv, NEW x \in Users, ReaddirDone(x)
    PROVE  FileInv'
  <1> USE Parts
  <1>1. x \in Threads \ {Vfs} /\ thr[x].pc = "readdir"
    BY DEF Threads, ReaddirDone, At
  <1>2. PlaceOf(x, thr[x])
    BY <1>1 DEF PlacesOk
  <1>3. thr[x].op = "readdir" /\ Valid(FUFH_RDONLY)
    BY <1>1, <1>2 DEF PlaceOf, OpsAt
  <1>4. thr[x].op \in Holds /\ nodelock = x /\ FUFH_RDONLY \in Types
    BY <1>1, <1>3 DEF LocksOk, Holds, Types, FUFH_RDONLY, FUFH_RDWR
  <1>5. Reachable /\ Alone(x)
    BY <1>1, <1>4, UnderWay, AloneHolder
  <1>6. /\ UseDec(x, "readdir", FUFH_RDONLY) /\ NoimplOk
        /\ UNCHANGED <<vn, desc, dead, fh_current, given, dropped, over>>
    BY DEF ReaddirDone, NoimplOk
  <1> QED
    BY <1>1, <1>3, <1>4, <1>5, <1>6, DecStep

\* RELEASE was answered: fuse_fh_current is decremented.
LEMMA PutDoneInv ==
    ASSUME FileInv, NEW x \in Threads, PutDone(x)
    PROVE  FileInv'
  <1> USE Parts
  <1>1. /\ thr[x].pc = "put" /\ fh_current' = fh_current - 1
        /\ UNCHANGED <<fufh, vn, desc, dead, noimpl, given, dropped, released, over, panic>>
    BY DEF PutDone, At
  <1>2. PlaceOf(x, thr[x])
    BY DEF PlacesOk
  <1>3. thr[x].op \in {"close", "readdir", "inactive", "reclaim", "vclean"} /\ vn.live /\ thr[x].t \in Types
    BY <1>1, <1>2 DEF PlaceOf, OpsAt
  <1>4. thr[x].op \in {"close", "readdir"} => x \in Users
    BY <1>2 DEF PlaceOf, OpsOf
  <1>5. thr[x].op \in {"inactive", "reclaim", "vclean"} => x = Vfs
    BY <1>2 DEF PlaceOf, OpsOf, Threads
  <1>6. Alone(x)
    BY <1>3, <1>5, AloneHolder, AloneVfs DEF Holds
  <1>7. vn \in VnodeState
    BY VnodeFields
  <1>8. \A k \in Types : Valid(k)' <=> Valid(k)
    BY <1>1 DEF Valid
  <1>9. ASSUME NEW u, Moves(x, u), LockChange(x, u), PlaceOf(x, u)', UnpagedOf(u)', RecycleOk',
               u.pc \notin {"put", "readdir"}
        PROVE  FileInv'
    <2>1. PlacesOk'
      BY <1>1, <1>6, <1>9, KeepsAlone, PlacesMove
    <2>2. SlotsOk' /\ NoHandleLost' /\ NodeLockProtects'
      BY <1>1 DEF SlotsOk, NoHandleLost, NodeLockProtects, Valid
    <2>3. CountOk' /\ fh_current' \in Nat
      <3>1. (\E y \in Threads : At(y, "put")) /\ ~(\E y \in Threads : At(y, "put"))'
        BY <1>1, <1>6, <1>9, LabelsAlone
      <3> QED
        BY <1>1, <1>8, <3>1, CountDone
    <2>4. UsesOk'
      <3>1. ReadsSame
        BY <1>1, <1>6, <1>9, LabelsAlone DEF ReadsSame
      <3>2. \A k \in Types : UseOk(k)'
        <4>1. TAKE k \in Types
        <4>2. Descriptors(k)' = Descriptors(k)
          BY <1>1 DEF Descriptors
        <4> QED
          BY <1>1, <3>1, <4>2, UsesSlots, UseSame
      <3> QED
        BY <3>2, UsesSlots
    <2>5. vn'.kind # "cached" => UnpagedVnode' /\ OthersUnpaged(x)'
      <3>1. vn'.kind # "cached" => OthersUnpaged(x)'
        BY <1>1, <1>6, <1>9, UnpagedAlone
      <3> QED
        BY <1>1, <3>1 DEF UnpagedOk, UnpagedVnode
    <2>6. SlotTypes /\ CallTypes
      BY <1>1, <1>7, <2>3 DEF SlotTypes, CallTypes, NoimplOk
    <2> QED
      BY <1>9, <2>1, <2>2, <2>3, <2>4, <2>5, <2>6, FullStep DEF HandlesOk
  <1>10. CASE thr[x].op \in {"close", "readdir"}
    <2>1. x \in Threads \ {Vfs} /\ Ends(x)
      BY <1>4, <1>10 DEF PutDone
    <2>2. PICK u : u = IdleThread
      OBVIOUS
    <2>3. Moves(x, u) /\ LockChange(x, u) /\ u.pc = "idle"
      BY <2>1, <2>2, EndFacts, IdleFits
    <2>4. PlaceOf(x, u)' /\ UnpagedOf(u)'
      BY <2>2, IdleFits DEF PlaceOf, UnpagedOf
    <2>5. RecycleOk'
      BY <1>1, <2>1, <2>3, RecycleUser
    <2> QED
      BY <1>9, <2>3, <2>4, <2>5
  <1>11. CASE thr[x].op \in {"inactive", "reclaim", "vclean"}
    <2>1. x = Vfs
      BY <1>5, <1>11
    <2>2. PICK n : n = thr[Vfs].t + 1
      OBVIOUS
    <2>3. n \in Types \cup {3}
      BY <1>3, <2>1, <2>2 DEF Types, FUFH_RDONLY, FUFH_RDWR
    <2>4. PICK o : o = thr[Vfs].op
      OBVIOUS
    <2>5. PICK u : u = [thr[Vfs] EXCEPT !.pc = "scan", !.t = n]
      OBVIOUS
    <2>6. /\ u \in ThreadState /\ u.pc = "scan" /\ u.op = o /\ u.t = n
          /\ PlaceOf(Vfs, u)' /\ UnpagedOf(u)'
      <3>1. thr[Vfs] \in ThreadState /\ thr[Vfs].fh = 0
        BY <1>1, <1>2, <2>1, ThreadFields DEF PlaceOf
      <3>2. u \in ThreadState /\ u.pc = "scan" /\ u.op = o /\ u.t = n /\ u.fh = 0
        BY <2>3, <2>4, <2>5, <3>1 DEF ThreadState
      <3> QED
        BY <1>1, <1>3, <1>11, <2>1, <2>4, <3>2, ScanFits
    <2>7. thr' = [thr EXCEPT ![Vfs] = u] /\ nodelock' = nodelock
      <3>1. thr' = [thr EXCEPT ![Vfs].pc = "scan", ![Vfs].t = @ + 1] /\ nodelock' = nodelock
        BY <1>11, <2>1 DEF PutDone
      <3> QED
        BY <2>1, <2>2, <2>5, <3>1 DEF TypeOK
    <2>8. Moves(x, u) /\ LockChange(x, u)
      BY <2>1, <2>4, <2>6, <2>7, MoveFacts DEF LockChange
    <2>9. RecycleOk'
      <3>1. /\ thr'[Vfs].op = thr[Vfs].op /\ thr'[Vfs].t = thr[Vfs].t + 1 /\ thr'[Vfs].pc = "scan"
            /\ \A y \in Threads \ {Vfs} : thr'[y] = thr[y]
        BY <2>1, <2>2, <2>4, <2>6, <2>8 DEF Moves
      <3>2. thr[Vfs].op # "none"
        BY <1>3, <2>1
      <3>3. \A k \in Types : k < thr[Vfs].t + 1 => k < thr[Vfs].t \/ k = thr[Vfs].t
        BY <1>3, <2>1 DEF Types, FUFH_RDONLY, FUFH_RDWR
      <3>4. thr[Vfs].op \in {"reclaim", "vclean"} =>
                /\ \A k \in Types : k < thr[Vfs].t + 1 => ~Valid(k)
                /\ \A y \in Threads \ {Vfs} : thr[y].pc \in {"idle", "create", "mknod"}
        BY <1>1, <2>1, <3>3 DEF RecycleOk
      <3> QED
        BY <1>1, <1>3, <1>8, <3>1, <3>2, <3>4 DEF RecycleOk
    <2> QED
      BY <1>9, <2>1, <2>6, <2>8, <2>9
  <1> QED
    BY <1>3, <1>10, <1>11

\* A slot that was free has the uses of its new handle only.
LEMMA UseNew ==
    ASSUME FileInv, NEW k \in Types, Intact, ~Valid(k)
    PROVE  Cardinality(Descriptors(k)) = 0 /\ (k = FUFH_RDONLY => Reading = 0)
  <1>1. UseOk(k) /\ fufh[k].open_count = 0
    BY Parts, UsesSlots, SlotFields DEF Valid
  <1>2. Cardinality(Descriptors(k)) \in Nat /\ Reading \in {0, 1}
    BY DescriptorsFinite DEF Reading
  <1> QED
    BY <1>1, <1>2 DEF UseOk

\* Reading counts who is at one label.
LEMMA ReadingSame ==
    ASSUME \A y \in Threads : thr'[y].pc = "readdir" <=> thr[y].pc = "readdir"
    PROVE  Reading' = Reading
  BY DEF Reading, At

\* A slot with one use and no descriptor.
LEMMA NewUse ==
    ASSUME NEW k \in Types, fufh'[k].open_count = 1, Reading' \in {0, 1},
           Intact' => Cardinality(Descriptors(k)') = 0
    PROVE  UseOk(k)'
  <1>1. PICK r : r = IF k = FUFH_RDONLY THEN Reading' ELSE 0
    OBVIOUS
  <1>2. r \in {0, 1}
    BY <1>1
  <1>3. Intact' => Cardinality(Descriptors(k)') + r <= fufh'[k].open_count
    BY <1>2
  <1> QED
    BY <1>1, <1>3 DEF UseOk

\* The answer to OPEN puts a new handle into the slot.
LEMMA GetOkInv ==
    ASSUME FileInv, NEW x \in Threads, GetOk(x)
    PROVE  FileInv'
  <1> USE Parts
  <1>1. /\ thr[x].pc = "get" /\ ~dead
        /\ UNCHANGED <<dead, noimpl, dropped, released, panic>>
    BY DEF GetOk, At
  <1>2. x \in Threads \ {Vfs} /\ Reachable /\ PlaceOf(x, thr[x])
    BY <1>1, NotVfs, UnderWay DEF PlacesOk
  <1>3. PICK t : t = thr[x].t
    OBVIOUS
  <1>4. t \in Types /\ thr[x].fh = 0 /\ thr[x].op \in OpsAt("get")
    BY <1>1, <1>2, <1>3 DEF PlaceOf
  <1>5. PICK d \in BOOLEAN : Install(t, d)
    BY <1>3 DEF GetOk
  <1>6. Installed(t) /\ fufh'[t].direct \in BOOLEAN
    BY <1>4, <1>5, InstallFacts
  <1>7. over' = IF Valid(t) THEN over \cup {"get"} ELSE over
    BY <1>3 DEF GetOk
  <1>8. over \subseteq over' /\ (over' = {} => ~Valid(t)) /\ over' \subseteq {"get", "create"}
    BY <1>7
  <1>9. /\ SlotsOk' /\ NoHandleLost' /\ Valid(t)'
        /\ \A k \in Types \ {t} : Valid(k)' <=> Valid(k)
    BY <1>1, <1>4, <1>6, <1>8, InstalledSlots
  <1>10. \A k \in Types : Valid(k) => Valid(k)'
    BY <1>9
  <1>11. vn.kind # "cached" => /\ thr[x].op \in {"open", "readdir"}
                              /\ (vn.kind = "dir" => t = FUFH_RDONLY)
                              /\ ("create" \notin over => ~Valid(t))
    BY <1>1, <1>3 DEF UnpagedOk, UnpagedOf
  <1>12. thr[x].op \in {"open", "readdir"} => Alone(x)
    BY AloneHolder DEF Holds
  <1>13. thr[Vfs].op \notin {"reclaim", "vclean"} /\ vn.live
    BY <1>2 DEF Reachable
  \* what does not depend on the operation
  <1>14. ASSUME NEW u, Moves(x, u), LockChange(x, u), PlaceOf(x, u)', u.pc # "put",
                vn.kind # "cached" => UnpagedOf(u)',
                vn' \in VnodeState, vn'.kind = vn.kind, vn'.live = vn.live,
                desc' \in [Users -> Types \cup {Closed}], \A y \in Users \ {x} : desc'[y] = desc[y],
                thr[Vfs].op # "none" => desc' = desc,
                UsesOk', vn.kind # "cached" => UnpagedVnode'
         PROVE  FileInv'
    <2>1. PlacesOk'
      <3>1. \A k \in Types : Valid(k) => fufh'[k].open_count > 0
        BY <1>10 DEF Valid
      <3>2. Keeps(x)
        BY <1>14, <3>1, KeepsGrown
      <3> QED
        BY <1>14, <3>2, PlacesMove
    <2>2. RecycleOk'
      <3>1. thr'[Vfs] = thr[Vfs]
        BY <1>2, <1>14 DEF Moves, Threads
      <3> QED
        BY <1>13, <1>14, <3>1 DEF RecycleOk
    <2>3. NodeLockProtects'
      BY <1>7, <1>11, <1>14 DEF NodeLockProtects
    <2>4. PutsSame
      BY <1>1, <1>14 DEF PutsSame, Moves, At
    <2>5. CountOk' /\ fh_current' \in Nat
      BY <1>1, <1>4, <1>6, <1>8, <1>9, <2>4, CountInstalled DEF Installed
    <2>6. vn.kind # "cached" => OthersUnpaged(x)'
      BY <1>11, <1>12, <1>14, UnpagedAlone
    <2>7. SlotTypes /\ CallTypes
      BY <1>1, <1>6, <1>8, <1>14, <2>5 DEF SlotTypes, CallTypes, NoimplOk, Installed
    <2> QED
      BY <1>9, <1>14, <2>1, <2>2, <2>3, <2>5, <2>6, <2>7, FullStep DEF HandlesOk
  <1>15. CASE thr[x].op = "open"
    <2>1. x \in Users /\ desc[x] = Closed /\ Alone(x)
      BY <1>2, <1>12, <1>15 DEF PlaceOf, OpsOf
    <2>2. /\ desc' = [desc EXCEPT ![x] = t] /\ Ends(x)
          /\ vn' = [vn EXCEPT !.busy = TRUE, !.direct = vn.direct \/ fufh'[t].direct]
      BY <1>3, <1>15 DEF GetOk
    <2>3. /\ vn' \in VnodeState /\ vn'.kind = vn.kind /\ vn'.live = vn.live /\ vn'.mapped = vn.mapped
          /\ vn'.dirty = vn.dirty /\ (vn.direct => vn'.direct)
      <3>1. vn \in VnodeState /\ vn.direct \in BOOLEAN
        BY VnodeFields
      <3> QED
        BY <1>6, <2>2, <3>1 DEF VnodeState
    <2>4. /\ desc' \in [Users -> Types \cup {Closed}] /\ desc'[x] = t
          /\ \A y \in Users \ {x} : desc'[y] = desc[y]
      BY <1>4, <2>1, <2>2
    <2>5. PICK u : u = IdleThread
      OBVIOUS
    <2>6. Moves(x, u) /\ LockChange(x, u) /\ u.pc = "idle"
      BY <2>2, <2>5, EndFacts, IdleFits
    <2>7. PlaceOf(x, u)' /\ UnpagedOf(u)'
      BY <2>5, IdleFits DEF PlaceOf, UnpagedOf
    <2>8. thr[Vfs].op = "none"
      <3>1. thr[Vfs].op \notin Holds \cup {"reclaim"} /\ thr[Vfs].op \in OpsOf(Vfs)
        BY <1>2, <2>1 DEF Alone, PlacesOk, PlaceOf, Threads
      <3>2. OpsOf(Vfs) = {"none", "inactive", "reclaim", "vclean"}
        BY DEF OpsOf
      <3> QED
        BY <3>1, <3>2 DEF Holds
    <2>9. UsesOk'
      <3>1. ReadsSame /\ Reading = 0 /\ Reading' = 0
        BY <1>1, <2>1, <2>6, LabelsAlone DEF ReadsSame
      <3>2. /\ Cardinality(Descriptors(t)') = Cardinality(Descriptors(t)) + 1
            /\ \A k \in Types \ {t} : Cardinality(Descriptors(k)') = Cardinality(Descriptors(k))
        BY <1>4, <2>1, <2>2, DescriptorsOpen
      <3>3. \A k \in Types \ {t} : UseOk(k)'
        BY <1>1, <1>6, <1>8, <3>1, <3>2, UsesSlots, UseSame DEF Installed
      <3>4. UseOk(t)'
        <4>1. Intact' => Intact /\ ~Valid(t)
          BY <1>1, <1>8 DEF Intact
        <4>2. Intact' => Cardinality(Descriptors(t)) = 0
          BY <1>4, <4>1, UseNew
        <4>3. fufh'[t].open_count = 1
          BY <1>6 DEF Installed
        <4> QED
          BY <3>1, <3>2, <4>2, <4>3 DEF UseOk
      <3> QED
        BY <3>3, <3>4, UsesSlots
    <2>10. vn.kind # "cached" => UnpagedVnode'
      BY <1>11, <2>3, <2>4 DEF UnpagedOk, UnpagedVnode
    <2> QED
      BY <1>14, <2>3, <2>4, <2>6, <2>7, <2>8, <2>9, <2>10
  <1>16. CASE thr[x].op # "open"
    <2>1. PICK l \in {"readdir", "io"} :
              /\ thr' = [thr EXCEPT ![x].pc = l, ![x].fh = given']
              /\ l = "readdir" <=> thr[x].op = "readdir"
      BY <1>16 DEF GetOk
    <2>2. UNCHANGED <<desc, vn, nodelock>>
      BY <1>16 DEF GetOk
    <2>3. PICK u : u = [thr[x] EXCEPT !.pc = l, !.fh = given']
      OBVIOUS
    <2>4. u \in ThreadState /\ u.pc = l /\ u.op = thr[x].op /\ u.t = t /\ u.fh = given'
      <3>1. thr[x] \in ThreadState /\ given' \in Handles
        BY <1>6, ThreadFields DEF Installed
      <3>2. CASE l = "io"
        BY <1>3, <2>3, <3>1, <3>2 DEF ThreadState
      <3>3. CASE l = "readdir"
        BY <1>3, <2>3, <3>1, <3>3 DEF ThreadState
      <3> QED
        BY <3>2, <3>3
    <2>5. thr' = [thr EXCEPT ![x] = u]
      BY <2>1, <2>3 DEF TypeOK
    <2>6. Moves(x, u) /\ LockChange(x, u)
      BY <2>2, <2>4, <2>5, MoveFacts DEF LockChange
    <2>7. thr[x].op \in OpsAt(l) /\ (l = "readdir" => t = FUFH_RDONLY)
      <3>1. thr[x].op \in {"close", "readdir", "fsync", "read", "write", "pagein", "pageout"}
        BY <1>4, <1>16 DEF OpsAt
      <3>2. thr[x].op \in OpsAt(l)
        BY <2>1, <3>1 DEF OpsAt
      <3> QED
        BY <1>1, <1>2, <1>3, <2>1, <3>2 DEF PlaceOf
    <2>8. PlaceOf(x, u)'
      <3>1. l = "readdir" => Valid(FUFH_RDONLY)'
        BY <1>9, <2>7
      <3>2. thr[x].op = "close" => desc'[x] \in Types /\ fufh'[desc'[x]].open_count > 0
        <4>1. thr[x].op = "close" => desc[x] \in Types /\ Valid(desc[x])
          BY <1>1, <1>2 DEF PlaceOf
        <4>2. \A k \in Types : fufh[k].open_count > 0 => fufh'[k].open_count > 0
          BY <1>10 DEF Valid
        <4> QED
          BY <2>2, <4>1, <4>2 DEF Valid
      <3> QED
        BY <1>2, <1>4, <1>13, <1>16, <2>2, <2>4, <2>7, <3>1, <3>2 DEF PlaceOf, Valid
    <2>9. vn.kind # "cached" => UnpagedOf(u)' /\ UnpagedVnode'
      <3>1. SUFFICES ASSUME vn.kind # "cached"
                     PROVE  UnpagedOf(u)' /\ UnpagedVnode'
        OBVIOUS
      <3>2. thr[x].op = "readdir" /\ u.pc = "readdir"
        BY <1>11, <1>16, <2>1, <2>4, <3>1
      <3>3. given' \in Nat /\ given' > given /\ released'[given'] = 0
        <4>1. given' = given + 1 /\ given' \in Handles /\ given \in Nat
          BY <1>6, ReleasedNat DEF Installed
        <4> QED
          BY <1>1, <4>1 DEF SlotsOk
      <3>4. UnpagedOf(u)'
        BY <2>4, <3>2, <3>3 DEF UnpagedOf
      <3> QED
        BY <2>2, <3>1, <3>4 DEF UnpagedOk, UnpagedVnode
    <2>10. UsesOk'
      <3>1. SUFFICES ASSUME NEW k \in Types
                     PROVE  UseOk(k)'
        BY UsesSlots
      <3>2. Descriptors(k)' = Descriptors(k) /\ (Intact' => Intact)
        BY <1>1, <1>8, <2>2 DEF Descriptors, Intact
      <3>3. UseOk(k) /\ fufh[k].open_count \in Nat /\ Cardinality(Descriptors(k)) \in Nat
        BY UsesSlots, SlotFields, DescriptorsFinite
      <3>4. CASE k # t
        <4>1. fufh'[k].open_count = fufh[k].open_count
          BY <1>6, <3>4 DEF Installed
        <4>2. k = FUFH_RDONLY => Reading' = Reading
          <5>1. k = FUFH_RDONLY => l # "readdir"
            BY <2>7, <3>4
          <5>2. k = FUFH_RDONLY => \A y \in Threads : thr'[y].pc = "readdir" <=> thr[y].pc = "readdir"
            BY <1>1, <2>4, <2>6, <5>1 DEF Moves
          <5> QED
            BY <5>2, ReadingSame
        <4> QED
          BY <3>2, <3>3, <4>1, <4>2 DEF UseOk
      <3>5. CASE k = t
        <4>1. Intact' => Cardinality(Descriptors(k)) = 0
          BY <1>8, <3>2, <3>5, UseNew DEF Intact
        <4>2. fufh'[k].open_count = 1 /\ Reading' \in {0, 1}
          BY <1>6, <3>5 DEF Installed, Reading
        <4>3. Intact' => Cardinality(Descriptors(k)') = 0
          BY <3>2, <4>1
        <4> QED
          BY <4>2, <4>3, NewUse
      <3> QED
        BY <3>4, <3>5
    <2>11. vn \in VnodeState
      BY VnodeFields
    <2> QED
      BY <1>14, <2>1, <2>2, <2>4, <2>6, <2>8, <2>9, <2>10, <2>11
  <1> QED
    BY <1>15, <1>16

\* The answer to CREATE puts a new handle into FUFH_RDWR.
LEMMA CreateOkInv ==
    ASSUME FileInv, NEW x \in Users, CreateOk(x)
    PROVE  FileInv'
  <1> USE Parts
  <1>1. /\ x \in Threads \ {Vfs} /\ thr[x].pc = "create" /\ ~dead /\ (vn.live => Reachable) /\ vn' = Found
        /\ over' = IF vn.live THEN over \cup {"create"} ELSE over
        /\ UNCHANGED <<nodelock, desc, dead, noimpl, dropped, released, panic>>
    BY DEF CreateOk, At, Threads
  <1>2. thr[x].op = "create"
    BY <1>1 DEF PlacesOk, PlaceOf, OpsAt
  <1>3. PICK t : t = FUFH_RDWR
    OBVIOUS
  <1>4. t \in Types
    BY <1>3 DEF Types, FUFH_RDONLY, FUFH_RDWR
  <1>5. Installed(t)
    <2>1. fufh[t].direct \in BOOLEAN /\ Install(t, fufh[t].direct)
      BY <1>3, <1>4, SlotFields DEF CreateOk
    <2> QED
      BY <1>4, <2>1, InstallFacts
  <1>6. QuietVnode /\ vn'.live /\ thr[Vfs].op \notin {"reclaim", "vclean"}
    BY <1>1, FoundVnode
  <1>7. ~vn.live => /\ \A k \in Types : ~Valid(k)
                    /\ \A y \in Threads : thr[y].pc # "get"
    BY DEF RecycleOk, PlacesOk, PlaceOf
  <1>8. /\ over \subseteq over' /\ over' \subseteq {"get", "create"}
        /\ over' = {} => ~vn.live /\ ~Valid(t)
        /\ "create" \in over' \/ ~vn.live
    BY <1>1, <1>4, <1>7
  <1>9. /\ SlotsOk' /\ NoHandleLost' /\ Valid(t)'
        /\ \A k \in Types \ {t} : Valid(k)' <=> Valid(k)
    BY <1>1, <1>4, <1>5, <1>8, InstalledSlots
  <1>10. \A k \in Types : Valid(k) => Valid(k)'
    BY <1>9
  <1>11. PICK u : u = [IdleThread EXCEPT !.pc = "created"]
    OBVIOUS
  <1>12. u \in ThreadState /\ u.pc = "created" /\ u.op = "none" /\ PlaceOf(x, u)' /\ UnpagedOf(u)'
    BY <1>6, <1>11, CreatedFits
  <1>13. thr' = [thr EXCEPT ![x] = u]
    BY <1>11 DEF CreateOk
  <1>14. Moves(x, u) /\ LockChange(x, u)
    BY <1>1, <1>2, <1>12, <1>13, MoveFacts DEF LockChange, Holds
  <1>15. PlacesOk'
    <2>1. \A k \in Types : Valid(k) => fufh'[k].open_count > 0
      BY <1>10 DEF Valid
    <2>2. Keeps(x)
      BY <1>1, <1>6, <2>1, KeepsGrown
    <2> QED
      BY <1>1, <1>12, <1>14, <2>2, PlacesMove
  <1>16. RecycleOk'
    <2>1. thr'[Vfs] = thr[Vfs]
      BY <1>1, <1>14 DEF Moves, Threads
    <2> QED
      BY <1>1, <1>6, <2>1 DEF RecycleOk
  <1>17. NodeLockProtects'
    BY <1>1, <1>6 DEF NodeLockProtects, QuietVnode
  <1>18. PutsSame /\ ReadsSame
    BY <1>1, <1>12, <1>14 DEF PutsSame, ReadsSame, Moves, At
  <1>19. CountOk' /\ fh_current' \in Nat
    BY <1>1, <1>4, <1>5, <1>8, <1>9, <1>18, CountInstalled DEF Installed
  <1>20. UsesOk'
    <2>1. SUFFICES ASSUME NEW k \in Types
                   PROVE  UseOk(k)'
      BY UsesSlots
    <2>2. Descriptors(k)' = Descriptors(k)
      BY <1>1 DEF Descriptors
    <2>3. CASE k # t
      BY <1>1, <1>5, <1>8, <1>18, <2>2, <2>3, UsesSlots, UseSame DEF Installed
    <2>4. CASE k = t
      <3>1. Intact' => Intact /\ ~Valid(t)
        BY <1>1, <1>8 DEF Intact
      <3>2. Intact' => Cardinality(Descriptors(k)) = 0
        BY <1>4, <2>4, <3>1, UseNew
      <3>3. fufh'[k].open_count = 1 /\ k # FUFH_RDONLY
        BY <1>3, <1>5, <2>4 DEF Installed, FUFH_RDONLY, FUFH_RDWR
      <3> QED
        BY <2>2, <3>2, <3>3 DEF UseOk
    <2> QED
      BY <2>3, <2>4
  <1>21. vn'.kind # "cached" => UnpagedVnode' /\ OthersUnpaged(x)'
    <2>1. SUFFICES ASSUME vn'.kind # "cached"
                   PROVE  UnpagedVnode' /\ OthersUnpaged(x)'
      OBVIOUS
    <2>2. vn.kind # "cached" /\ UnpagedVnode' /\ vn'.kind = vn.kind
      BY <1>1, <1>6, <2>1, QuietUnpaged DEF QuietVnode
    <2>3. given' \in Nat /\ given' >= given
      BY <1>5, ReleasedNat DEF Installed
    <2>4. OthersUnpaged(x)'
      BY <1>1, <1>7, <1>8, <1>10, <1>14, <2>2, <2>3, UnpagedGrown
    <2> QED
      BY <2>2, <2>4
  <1>22. SlotTypes /\ CallTypes
    BY <1>1, <1>5, <1>6, <1>8, <1>19 DEF SlotTypes, CallTypes, NoimplOk, Installed, QuietVnode
  <1> QED
    BY <1>1, <1>9, <1>12, <1>14, <1>15, <1>16, <1>17, <1>19, <1>20, <1>21, <1>22, FullStep DEF HandlesOk

\* The handle of a file without a vnode is released at once.
LEMMA CreateNoVnodeInv ==
    ASSUME FileInv, NEW x \in Users, CreateNoVnode(x)
    PROVE  FileInv'
  <1> USE Parts
  <1>1. /\ x \in Threads \ {Vfs} /\ thr[x].pc = "create" /\ Ends(x)
        /\ given < MaxHandles /\ given' = given + 1
        /\ UNCHANGED <<fufh, vn, desc, dead, noimpl, fh_current, dropped, over, panic>>
    BY DEF CreateNoVnode, At, Threads
  <1>2. given \in Nat /\ given' \in Nat /\ given' \in Handles
    BY <1>1, ReleasedNat DEF Handles
  <1>3. Releases(given')
    <2>1. PICK h : h = given'
      OBVIOUS
    <2>2. released' = [released EXCEPT ![h] = @ + 1]
      BY <2>1 DEF CreateNoVnode
    <2> QED
      BY <1>2, <2>1, <2>2, ReleaseFacts
  <1>4. released[given'] = 0 /\ released'[given'] = 1
    BY <1>1, <1>2, <1>3 DEF SlotsOk, Releases
  <1>5. \A k \in Types : Valid(k)' <=> Valid(k)
    BY <1>1 DEF Valid
  <1>6. SlotsOk'
    <2>1. \A k \in Types : Valid(k) => fufh[k].fh_id \in 1 .. given' /\ released'[fufh[k].fh_id] = 0
      <3>1. SUFFICES ASSUME NEW k \in Types, Valid(k)
                     PROVE  fufh[k].fh_id \in 1 .. given' /\ released'[fufh[k].fh_id] = 0
        OBVIOUS
      <3>2. fufh[k].fh_id \in 1 .. given /\ released[fufh[k].fh_id] = 0
        BY <3>1 DEF SlotsOk
      <3>3. fufh[k].fh_id \in Handles \ {given'}
        BY <1>1, <1>2, <3>2 DEF Handles
      <3> QED
        BY <1>1, <1>2, <1>3, <3>2, <3>3 DEF Releases
    <2>2. \A h \in Handles : released'[h] <= 1 /\ (h > given' => released'[h] = 0)
      <3>1. TAKE h \in Handles
      <3>2. released[h] <= 1 /\ (h > given => released[h] = 0) /\ h \in Nat
        BY DEF SlotsOk, Handles
      <3>3. CASE h = given'
        BY <1>2, <1>4, <3>3
      <3>4. CASE h # given'
        BY <1>1, <1>2, <1>3, <3>2, <3>4 DEF Releases
      <3> QED
        BY <3>3, <3>4
    <2> QED
      BY <1>1, <1>5, <2>1, <2>2 DEF SlotsOk
  <1>7. NoHandleLost'
    <2>1. SUFFICES ASSUME over = {}, ~dead, NEW h \in (1 .. given') \ dropped
                   PROVE  released'[h] = 1 \/ \E k \in Types : Valid(k) /\ fufh[k].fh_id = h
      BY <1>1, <1>5 DEF NoHandleLost
    <2>2. CASE h = given'
      BY <1>4, <2>2
    <2>3. CASE h # given'
      <3>1. h \in 1 .. given /\ h \in Handles
        BY <1>1, <1>2, <2>3 DEF Handles
      <3>2. released'[h] = released[h]
        BY <1>3, <2>3, <3>1 DEF Releases
      <3> QED
        BY <2>1, <3>1, <3>2 DEF NoHandleLost
    <2> QED
      BY <2>2, <2>3
  <1>8. PICK u : u = IdleThread
    OBVIOUS
  <1>9. Moves(x, u) /\ LockChange(x, u) /\ u.pc = "idle"
    BY <1>1, <1>8, EndFacts, IdleFits
  <1>10. PlaceOf(x, u)' /\ UnpagedOf(u)'
    BY <1>1, <1>8, IdleFits DEF PlaceOf, UnpagedOf
  <1>11. PlacesOk'
    <2>1. Keeps(x)
      BY <1>1, KeepsGrown DEF Valid
    <2> QED
      BY <1>1, <1>9, <1>10, <2>1, PlacesMove
  <1>12. RecycleOk'
    BY <1>1, <1>9, RecycleUser
  <1>13. NodeLockProtects'
    BY <1>1 DEF NodeLockProtects
  <1>14. PutsSame /\ ReadsSame
    BY <1>1, <1>9 DEF PutsSame, ReadsSame, Moves, At
  <1>15. CountOk'
    BY <1>1, <1>5, <1>14, CountSame
  <1>16. UsesOk'
    <2>1. \A k \in Types : UseOk(k)'
      <3>1. TAKE k \in Types
      <3>2. Descriptors(k)' = Descriptors(k)
        BY <1>1 DEF Descriptors
      <3> QED
        BY <1>1, <1>14, <3>2, UsesSlots, UseSame
    <2> QED
      BY <2>1, UsesSlots
  <1>17. vn'.kind # "cached" => UnpagedVnode' /\ OthersUnpaged(x)'
    <2>1. vn.kind # "cached" => UnpagedVnode'
      BY <1>1 DEF UnpagedOk, UnpagedVnode
    <2>2. \A h \in Handles : h <= given => released'[h] = released[h]
      BY <1>1, <1>2, <1>3 DEF Releases, Handles
    <2>3. given' >= given
      BY <1>1, <1>2
    <2>4. vn.kind # "cached" => OthersUnpaged(x)'
      BY <1>1, <1>2, <1>5, <1>9, <2>2, <2>3, UnpagedGrown
    <2> QED
      BY <1>1, <2>1, <2>4
  <1>18. vn \in VnodeState
    BY VnodeFields
  <1>19. SlotTypes /\ CallTypes
    BY <1>1, <1>2, <1>3, <1>18 DEF SlotTypes, CallTypes, NoimplOk, Releases
  <1> QED
    BY <1>1, <1>6, <1>7, <1>9, <1>10, <1>11, <1>12, <1>13, <1>15, <1>16, <1>17, <1>19, FullStep DEF HandlesOk

\* inactive and reclaim release the next handle in use.
LEMMA ScanPutInv ==
    ASSUME FileInv, ScanPut
    PROVE  FileInv'
  <1> USE Parts
  <1>1. /\ Vfs \in Threads /\ thr[Vfs].pc = "scan" /\ Scanned # {}
        /\ UNCHANGED <<vn, nodelock, desc, dead, noimpl, fh_current, given, dropped, over>>
    BY DEF ScanPut, At, Threads
  <1>2. PlaceOf(Vfs, thr[Vfs])
    BY <1>1 DEF PlacesOk
  <1>3. thr[Vfs].op \in {"inactive", "reclaim", "vclean"} /\ vn.live
    BY <1>1, <1>2 DEF PlaceOf, OpsAt
  <1>4. Alone(Vfs) /\ \A y \in Users : desc[y] = Closed
    BY <1>3, AloneVfs DEF RecycleOk
  <1>5. PICK o, t : o = thr[Vfs].op /\ t = Min(Scanned)
    OBVIOUS
  <1>6. /\ t \in Types /\ Valid(t) /\ Scanned = InUse(thr[Vfs].t)
        /\ \A k \in Types : thr[Vfs].t <= k /\ Valid(k) => t <= k
    <2>1. Scanned = InUse(thr[Vfs].t) /\ Scanned \subseteq Types
      BY <1>1 DEF Scanned, InUse
    <2>2. t \in Scanned /\ \A k \in Scanned : t <= k
      BY <1>1, <1>5, <2>1, MinSlot
    <2>3. thr[Vfs].t \in 0 .. 3 /\ \A k \in Types : k \in 0 .. 2
      BY <1>1, ThreadFields DEF Types, FUFH_RDONLY, FUFH_RDWR
    <2>4. \A k \in Types : thr[Vfs].t <= k /\ Valid(k) => k \in Scanned
      BY <2>1, <2>3 DEF InUse
    <2> QED
      BY <2>1, <2>2, <2>4 DEF InUse
  <1>7. PICK u : u = [pc |-> "put", op |-> o, t |-> t, fh |-> 0]
    OBVIOUS
  <1>8. /\ fufh' = [fufh EXCEPT ![t].open_count = 0]
        /\ thr' = [thr EXCEPT ![Vfs] = u] /\ panic' = panic
        /\ released' = IF dead THEN released ELSE [released EXCEPT ![fufh[t].fh_id] = @ + 1]
    BY <1>5, <1>7 DEF ScanPut, Put
  <1>9. u.pc = "put" /\ u.op = o /\ u.t = t /\ u.fh = 0
    BY <1>7
  <1>10. u \in ThreadState
    BY <1>3, <1>5, <1>6, <1>7 DEF ThreadState
  <1>11. Moves(Vfs, u) /\ LockChange(Vfs, u)
    BY <1>1, <1>5, <1>8, <1>9, <1>10, MoveFacts DEF LockChange
  <1>12. Counted(t, 0)
    BY <1>6, <1>8, CountFacts
  <1>13. fufh[t].fh_id \in Handles
    <2>1. fufh[t].fh_id \in 1 .. given
      BY <1>6 DEF SlotsOk
    <2> QED
      BY <2>1, ReleasedNat DEF Handles
  <1>14. IF dead THEN released' = released ELSE Releases(fufh[t].fh_id)
    BY <1>8, <1>13, ReleaseFacts
  <1>15. /\ SlotsOk' /\ NoHandleLost' /\ ~Valid(t)'
         /\ \A k \in Types \ {t} : Valid(k)' <=> Valid(k)
    BY <1>1, <1>6, <1>12, <1>14, PutSlots
  <1>16. CountOk'
    <2>1. ~(\E y \in Threads : At(y, "put")) /\ (\E y \in Threads : At(y, "put"))'
      BY <1>1, <1>4, <1>9, <1>11, LabelsAlone
    <2> QED
      BY <1>1, <1>6, <1>15, <2>1, CountPut
  <1>17. o \in OpsAt("put") /\ o \in OpsOf(Vfs) /\ o \notin {"open", "close", "readdir"}
    BY <1>3, <1>5 DEF OpsAt, OpsOf
  <1>18. PlaceOf(Vfs, u)' /\ UnpagedOf(u)'
    BY <1>1, <1>3, <1>5, <1>6, <1>9, <1>17 DEF PlaceOf, UnpagedOf
  <1>19. PlacesOk'
    <2>1. Keeps(Vfs)
      BY <1>1, <1>4, KeepsAlone
    <2> QED
      BY <1>1, <1>11, <1>18, <2>1, PlacesMove
  <1>20. RecycleOk'
    <2>1. /\ thr'[Vfs].op = thr[Vfs].op /\ thr'[Vfs].t = t
          /\ \A y \in Threads \ {Vfs} : thr'[y] = thr[y]
      BY <1>5, <1>9, <1>11 DEF Moves
    <2>2. thr[Vfs].op \in {"reclaim", "vclean"} =>
              /\ \A k \in Types : k < thr[Vfs].t => ~Valid(k)
              /\ \A y \in Threads \ {Vfs} : thr[y].pc \in {"idle", "create", "mknod"}
      BY <1>1 DEF RecycleOk
    <2>3. thr[Vfs].t \in 0 .. 3 /\ \A k \in Types : k \in 0 .. 2
      BY <1>1, ThreadFields DEF Types, FUFH_RDONLY, FUFH_RDWR
    <2>4. thr[Vfs].op \in {"reclaim", "vclean"} =>
              \A k \in Types : (k < t \/ k = t) => ~Valid(k)'
      <3>1. SUFFICES ASSUME thr[Vfs].op \in {"reclaim", "vclean"}, NEW k \in Types, k < t
                     PROVE  ~Valid(k)
        BY <1>6, <1>15, <2>3
      <3>2. k < thr[Vfs].t \/ thr[Vfs].t <= k
        BY <2>3
      <3> QED
        BY <1>6, <2>2, <2>3, <3>1, <3>2
    <2> QED
      BY <1>1, <1>3, <1>4, <2>1, <2>2, <2>4 DEF RecycleOk
  <1>21. NodeLockProtects'
    BY <1>1 DEF NodeLockProtects
  <1>22. UsesOk'
    <2>1. SUFFICES ASSUME NEW k \in Types
                   PROVE  UseOk(k)'
      BY UsesSlots
    <2>2. Cardinality(Descriptors(k)') = 0
      <3>1. \A y \in Users : desc'[y] # k
        BY <1>1, <1>4 DEF Types, FUFH_RDONLY, FUFH_RDWR, Closed
      <3> QED
        BY <3>1, DescriptorsNone
    <2>3. Reading' = 0
      BY <1>1, <1>4, <1>9, <1>11, LabelsAlone
    <2>4. fufh'[k].open_count \in Nat
      BY <1>12 DEF Counted, SlotState
    <2> QED
      BY <2>2, <2>3, <2>4 DEF UseOk
  <1>23. vn'.kind # "cached" => UnpagedVnode' /\ OthersUnpaged(Vfs)'
    <2>1. vn'.kind # "cached" => OthersUnpaged(Vfs)'
      BY <1>1, <1>4, <1>11, UnpagedAlone
    <2> QED
      BY <1>1, <2>1 DEF UnpagedOk, UnpagedVnode
  <1>24. SlotTypes
    <2>1. released' \in [Handles -> Nat]
      BY <1>14 DEF Releases
    <2> QED
      BY <1>1, <1>8, <1>12, <2>1 DEF SlotTypes, Counted
  <1>25. CallTypes
    BY <1>1, VnodeFields DEF CallTypes, NoimplOk
  <1> QED
    BY <1>1, <1>11, <1>15, <1>16, <1>18, <1>19, <1>20, <1>21, <1>22, <1>23, <1>24, <1>25, FullStep
       DEF HandlesOk

\* A forced unmount takes the descriptors away.
LEMMA VcleanInv ==
    ASSUME FileInv, Vclean
    PROVE  FileInv'
  <1> USE Parts
  <1>1. /\ Vfs \in Threads /\ vn.live /\ \A x \in Threads : thr[x].pc = "idle"
        /\ nodelock' = Vfs /\ desc' = [x \in Users |-> Closed]
        /\ vn' = [vn EXCEPT !.mapped = FALSE, !.dirty = FALSE, !.busy = FALSE]
        /\ UNCHANGED <<fufh, dead, noimpl, fh_current, given, dropped, released, over, panic>>
    BY DEF Vclean, NoIo, At, Threads
  <1>2. \A x \in Threads : thr[x].op = "none"
    BY <1>1, IdleOp
  <1>3. nodelock = Nobody
    BY <1>2 DEF TypeOK, LocksOk, Holds
  <1>4. Alone(Vfs)
    BY <1>2 DEF Alone, Holds
  <1>5. /\ vn' \in VnodeState /\ vn'.kind = vn.kind /\ vn'.live /\ ~vn'.mapped
        /\ ~vn'.dirty /\ vn'.direct = vn.direct
    <2>1. vn \in VnodeState
      BY VnodeFields
    <2> QED
      BY <1>1, <2>1 DEF VnodeState
  <1>6. desc' \in [Users -> Types \cup {Closed}] /\ \A y \in Users : desc'[y] = Closed
    BY <1>1
  <1>7. PICK u : u = [pc |-> "scan", op |-> "vclean", t |-> 0, fh |-> 0]
    OBVIOUS
  <1>8. u.pc = "scan" /\ u.op = "vclean" /\ u.t = 0 /\ u.fh = 0
    BY <1>7
  <1>9. u \in ThreadState
    BY <1>7 DEF ThreadState, Types, FUFH_RDONLY, FUFH_RDWR
  <1>10. PlaceOf(Vfs, u)' /\ UnpagedOf(u)'
    BY <1>5, <1>8, ScanFits
  <1>11. thr' = [thr EXCEPT ![Vfs] = u]
    BY <1>7 DEF Vclean, Scans
  <1>12. Moves(Vfs, u) /\ LockChange(Vfs, u)
    BY <1>1, <1>3, <1>8, <1>9, <1>11, MoveFacts DEF LockChange, Holds
  <1>13. PlacesOk'
    <2>1. SUFFICES ASSUME NEW y \in Threads \ {Vfs}
                   PROVE  PlaceOf(y, thr[y])'
      <3>1. PlaceOf(Vfs, thr[Vfs])'
        <4>1. thr'[Vfs] = u
          BY <1>12 DEF Moves
        <4> QED
          BY <1>10, <4>1 DEF PlaceOf
      <3> QED
        BY <2>1, <3>1 DEF PlacesOk
    <2>2. thr'[y] = thr[y] /\ thr[y].pc = "idle" /\ thr[y].op = "none" /\ PlaceOf(y, thr[y])
      BY <1>1, <1>2, <1>12 DEF Moves, PlacesOk
    <2> QED
      BY <2>2 DEF PlaceOf
  <1>14. RecycleOk'
    <2>1. /\ thr'[Vfs].t = 0 /\ thr'[Vfs].pc = "scan"
          /\ \A y \in Threads \ {Vfs} : thr'[y].pc = "idle"
      BY <1>1, <1>8, <1>12 DEF Moves
    <2>2. \A k \in Types : ~(k < 0)
      BY DEF Types, FUFH_RDONLY, FUFH_RDWR
    <2> QED
      BY <1>5, <1>6, <2>1, <2>2 DEF RecycleOk
  <1>15. SlotsOk' /\ NoHandleLost' /\ NodeLockProtects'
    BY <1>1, <1>5 DEF SlotsOk, NoHandleLost, NodeLockProtects, Valid
  <1>16. PutsSame /\ Reading' = 0
    BY <1>1, <1>4, <1>8, <1>12, LabelsAlone DEF PutsSame
  <1>17. CountOk'
    <2>1. \A k \in Types : Valid(k)' <=> Valid(k)
      BY <1>1 DEF Valid
    <2> QED
      BY <1>1, <1>16, <2>1, CountSame
  <1>18. UsesOk'
    <2>1. SUFFICES ASSUME NEW k \in Types
                   PROVE  UseOk(k)'
      BY UsesSlots
    <2>2. Cardinality(Descriptors(k)') = 0
      <3>1. \A y \in Users : desc'[y] # k
        BY <1>6 DEF Types, FUFH_RDONLY, FUFH_RDWR, Closed
      <3> QED
        BY <3>1, DescriptorsNone
    <2>3. fufh'[k].open_count \in Nat
      BY <1>1, SlotFields
    <2> QED
      BY <1>16, <2>2, <2>3 DEF UseOk
  <1>19. vn'.kind # "cached" => UnpagedVnode' /\ OthersUnpaged(Vfs)'
    <2>1. vn'.kind # "cached" => OthersUnpaged(Vfs)'
      BY <1>1, <1>4, <1>5, <1>12, UnpagedAlone
    <2> QED
      BY <1>5, <1>6, <2>1 DEF UnpagedOk, UnpagedVnode
  <1>20. SlotTypes /\ CallTypes
    BY <1>1, <1>5, <1>6 DEF SlotTypes, CallTypes, NoimplOk
  <1> QED
    BY <1>1, <1>10, <1>12, <1>13, <1>14, <1>15, <1>17, <1>18, <1>19, <1>20, FullStep DEF HandlesOk

\* The vnode is gone, and no handle with it.
LEMMA ReclaimEndInv ==
    ASSUME FileInv, ReclaimEnd
    PROVE  FileInv'
  <1> USE Parts
  <1>1. /\ Vfs \in Threads /\ thr[Vfs].pc = "scan" /\ thr[Vfs].op = "reclaim" /\ Scanned = {}
        /\ fufh' = NewFufh /\ vn' = [NewVnode(vn.kind) EXCEPT !.live = FALSE] /\ Ends(Vfs)
        /\ UNCHANGED <<desc, dead, noimpl, fh_current, given, dropped, released, over, panic>>
    BY DEF ReclaimEnd, At, Threads
  <1>2. Alone(Vfs)
    BY <1>1, AloneVfs
  <1>3. /\ \A y \in Users : desc[y] = Closed
        /\ \A y \in Threads \ {Vfs} : thr[y].pc \in {"idle", "create", "mknod"}
    BY <1>1 DEF RecycleOk
  <1>4. ~dead => \A k \in Types : ~Valid(k)
    <2>1. SUFFICES ASSUME ~dead, NEW k \in Types, Valid(k)
                   PROVE  FALSE
      OBVIOUS
    <2>2. k \notin InUse(thr[Vfs].t)
      BY <1>1, <2>1 DEF Scanned
    <2>3. ~(k >= thr[Vfs].t)
      BY <2>1, <2>2 DEF InUse
    <2>4. thr[Vfs].t \in 0 .. 3 /\ k \in 0 .. 2
      BY <1>1, ThreadFields DEF Types, FUFH_RDONLY, FUFH_RDWR
    <2>5. k < thr[Vfs].t
      BY <2>3, <2>4
    <2> QED
      BY <1>1, <2>1, <2>5 DEF RecycleOk
  <1>5. fufh' \in [Types -> SlotState] /\ \A k \in Types : fufh'[k].open_count = 0
    BY <1>1 DEF NewFufh, SlotState
  <1>6. \A k \in Types : ~Valid(k)'
    BY <1>5 DEF Valid
  <1>7. /\ vn' \in VnodeState /\ vn'.kind = vn.kind /\ ~vn'.live /\ ~vn'.mapped
        /\ ~vn'.dirty /\ vn'.direct = (vn.kind = "direct")
    <2>1. vn.kind \in Kinds
      BY VnodeFields DEF VnodeState
    <2> QED
      BY <1>1, <2>1 DEF NewVnode, VnodeState
  <1>8. PICK u : u = IdleThread
    OBVIOUS
  <1>9. Moves(Vfs, u) /\ LockChange(Vfs, u) /\ u.pc = "idle" /\ u.op = "none"
    BY <1>1, <1>8, EndFacts, IdleFits
  <1>10. PlaceOf(Vfs, u)' /\ UnpagedOf(u)'
    BY <1>1, <1>8, IdleFits DEF PlaceOf, UnpagedOf
  <1>11. PlacesOk'
    <2>1. Keeps(Vfs)
      <3>1. \A y \in Threads \ {Vfs} : thr[y].op # "close"
        BY <1>2 DEF Alone, Holds
      <3> QED
        BY <1>1, <1>3, <3>1 DEF Keeps
    <2> QED
      BY <1>1, <1>9, <1>10, <2>1, PlacesMove
  <1>12. RecycleOk'
    <2>1. thr'[Vfs].op = "none"
      BY <1>9 DEF Moves
    <2> QED
      BY <1>1, <1>3, <1>6, <2>1 DEF RecycleOk
  <1>13. SlotsOk'
    BY <1>1, <1>6 DEF SlotsOk
  <1>14. NoHandleLost'
    BY <1>1, <1>4 DEF NoHandleLost
  <1>15. NodeLockProtects'
    BY <1>1, <1>7 DEF NodeLockProtects
  <1>16. /\ ~(\E y \in Threads : At(y, "put")) /\ ~(\E y \in Threads : At(y, "put"))'
         /\ Reading' = 0
    BY <1>1, <1>2, <1>9, LabelsAlone
  <1>17. CountOk'
    <2>1. Putting = 0 /\ Putting' = 0
      BY <1>16 DEF Putting
    <2>2. \A k \in Types : Used(k)' = 0 /\ Used(k) \in {0, 1} /\ (~dead => Used(k) = 0)
      BY <1>4, <1>6 DEF Used
    <2>3. Intact' => Intact /\ ~dead
      BY <1>1 DEF Intact
    <2> QED
      BY <1>1, <2>1, <2>2, <2>3 DEF CountOk, Types, FUFH_RDONLY, FUFH_WRONLY, FUFH_RDWR
  <1>18. UsesOk'
    <2>1. SUFFICES ASSUME NEW k \in Types
                   PROVE  UseOk(k)'
      BY UsesSlots
    <2>2. Cardinality(Descriptors(k)') = 0
      <3>1. \A y \in Users : desc'[y] # k
        BY <1>1, <1>3 DEF Types, FUFH_RDONLY, FUFH_RDWR, Closed
      <3> QED
        BY <3>1, DescriptorsNone
    <2> QED
      BY <1>5, <1>16, <2>2 DEF UseOk
  <1>19. vn'.kind # "cached" => UnpagedVnode' /\ OthersUnpaged(Vfs)'
    <2>1. vn'.kind # "cached" => OthersUnpaged(Vfs)'
      BY <1>1, <1>2, <1>7, <1>9, UnpagedAlone
    <2> QED
      BY <1>1, <1>3, <1>7, <2>1 DEF UnpagedVnode
  <1>20. SlotTypes /\ CallTypes
    BY <1>1, <1>5, <1>7 DEF SlotTypes, CallTypes, NoimplOk
  <1> QED
    BY <1>1, <1>9, <1>10, <1>11, <1>12, <1>13, <1>14, <1>15, <1>17, <1>18, <1>19, <1>20, FullStep
       DEF HandlesOk

-----------------------------------------------------------------------------
(* The theorems *)

\* A new vnode is in order.
LEMMA FileInit ==
    ASSUME Init
    PROVE  FileInv
  <1>1. \A x \in Threads : thr[x] = IdleThread
    BY DEF Init
  <1>2. /\ IdleThread \in ThreadState /\ IdleThread.pc = "idle" /\ IdleThread.op = "none"
        /\ IdleThread.fh = 0
    BY DEF IdleThread, ThreadState, Types, FUFH_RDONLY, FUFH_RDWR
  <1>3. /\ vn \in VnodeState /\ ~vn.dirty /\ ~vn.mapped /\ (vn.kind = "direct" => vn.direct)
    <2>1. PICK k \in Kinds, l \in BOOLEAN : vn = [NewVnode(k) EXCEPT !.live = l]
      BY DEF Init
    <2> QED
      BY <2>1 DEF NewVnode, VnodeState
  <1>4. /\ fufh \in [Types -> SlotState] /\ \A k \in Types : fufh[k].open_count = 0
    BY DEF Init, NewFufh, SlotState
  <1>5. \A k \in Types : ~Valid(k)
    BY <1>4 DEF Valid
  <1>6. /\ nodelock = Nobody /\ given = 0 /\ fh_current = 0 /\ over = {} /\ panic = "none"
        /\ \A h \in Handles : released[h] = 0
        /\ \A u \in Users : desc[u] = Closed
    BY DEF Init
  <1>7. TypeOK
    <2>1. thr \in [Threads -> ThreadState]
      BY <1>2 DEF Init
    <2> QED
      BY <1>3, <1>4, <2>1 DEF Init, TypeOK, VnodeState, SlotState
  <1>8. PlacesOk /\ LocksOk
    <2>1. "none" \in OpsAt("idle") /\ \A x \in Threads : "none" \in OpsOf(x)
      BY DEF OpsAt, OpsOf
    <2> QED
      BY <1>1, <1>2, <1>6, <2>1 DEF PlacesOk, PlaceOf, LocksOk, Holds
  <1>9. RecycleOk
    <2>1. thr[Vfs].op = "none"
      BY <1>1, <1>2 DEF Threads
    <2> QED
      BY <1>5, <1>6, <2>1 DEF RecycleOk
  <1>10. SlotsOk
    BY <1>5, <1>6 DEF SlotsOk
  <1>11. UnpagedOk
    BY <1>1, <1>2, <1>3, <1>6 DEF UnpagedOk, UnpagedOf, UnpagedVnode
  <1>12. NodeLockProtects /\ NoHandleLost
    BY <1>6 DEF NodeLockProtects, NoHandleLost
  <1>13. CountOk
    <2>1. Putting = 0 /\ \A k \in Types : Used(k) = 0
      BY <1>1, <1>2, <1>5 DEF Putting, Used, At
    <2> QED
      BY <1>6, <2>1 DEF CountOk, Types, FUFH_RDONLY, FUFH_WRONLY, FUFH_RDWR
  <1>14. UsesOk
    <2>1. Reading = 0
      BY <1>1, <1>2 DEF Reading, At
    <2>2. \A k \in Types : Cardinality(Descriptors(k)) = 0
      <3>1. \A k \in Types : \A u \in Users : desc[u] # k
        BY <1>6 DEF Types, FUFH_RDONLY, FUFH_RDWR, Closed
      <3> QED
        BY <3>1, DescriptorsNone
    <2> QED
      BY <1>4, <2>1, <2>2 DEF UsesOk
  <1> QED
    BY <1>6, <1>7, <1>8, <1>9, <1>10, <1>11, <1>12, <1>13, <1>14 DEF FileInv

\* Every step keeps the invariant.
LEMMA FileNext ==
    ASSUME FileInv, Next
    PROVE  FileInv'
  <1>1. ASSUME NEW x \in Threads, Waits(x)
        PROVE  FileInv'
    BY <1>1, GetOkInv, GetFailInv, PutDoneInv, IoNextInv, IoDoneInv DEF Waits
  <1>2. ASSUME NEW x \in Users, UserStep(x)
        PROVE  FileInv'
    <2>1. ASSUME NEW t \in IF IsDir THEN {FUFH_RDONLY} ELSE Types, OpenReuse(x, t) \/ OpenGet(x, t)
          PROVE  FileInv'
      <3>1. t \in Types /\ (IsDir => t = FUFH_RDONLY)
        BY DEF Types, FUFH_RDONLY, FUFH_RDWR
      <3> QED
        BY <2>1, <3>1, OpenReuseInv, OpenGetInv
    <2>2. CASE OpenFail(x) \/ Create(x) \/ CreateOk(x) \/ CreateNoVnode(x) \/ CreateNosys(x)
               \/ MknodOk(x) \/ CreateFail(x) \/ CreateDropped(x)
      BY <2>2, OpenFailInv, CreateInv, CreateOkInv, CreateNoVnodeInv, CreateNosysInv, MknodOkInv
    <2>3. CASE CloseNothing(x) \/ ClosePush(x) \/ Flush(x) \/ CloseDec(x)
      BY <2>3, StillInv, ClosePushInv, FlushInv, CloseDecInv
    <2>4. ASSUME NEW o \in {"read", "write"}, DirectIo(x, o) \/ CachedIo(x, o)
          PROVE  FileInv'
      BY <2>4, DirectIoInv, CachedIoInv
    <2>5. CASE Dirty(x) \/ Readdir(x) \/ ReaddirDone(x) \/ Mmap(x)
      BY <2>5, StillInv, ReaddirInv, ReaddirDoneInv
    <2>6. CASE FsyncPush(x) \/ FsyncBegin(x) \/ FsyncNext(x) \/ FsyncEnd(x)
      BY <2>6, FsyncPushInv, FsyncBeginInv, FsyncNextInv, FsyncEndInv
    <2> QED
      BY <1>2, <2>1, <2>2, <2>3, <2>4, <2>5, <2>6 DEF UserStep
  <1>3. ASSUME NEW x \in Pagers, NEW o \in {"pagein", "pageout"}, Page(x, o)
        PROVE  FileInv'
    BY <1>3, PageInv
  <1>4. CASE VfsStep
    BY <1>4, StillInv, InactiveInv, ReclaimInv, VcleanInv, ScanPutInv, InactiveEndInv,
       VcleanReclaimInv, ReclaimEndInv DEF VfsStep
  <1> QED
    BY <1>1, <1>2, <1>3, <1>4 DEF Next

\* So does no step.
LEMMA FileStutter ==
    ASSUME FileInv, UNCHANGED vars
    PROVE  FileInv'
  <1> USE Parts
  <1>1. vn \in VnodeState /\ (vn.kind # "cached" => UnpagedVnode')
    BY VnodeFields DEF UnpagedOk, UnpagedVnode, vars
  <1> QED
    BY <1>1, StillStep DEF vars

\* The inductive invariant of the file handles of a vnode holds in every state, for
\* any number of threads, pagers and handles.
THEOREM FileCorrect == Spec => []FileInv
  <1>1. Init => FileInv
    BY FileInit
  <1>2. FileInv /\ [Next]_vars => FileInv'
    BY FileNext, FileStutter
  <1> QED
    BY <1>1, <1>2, PTL DEF Spec

\* fuse_fh_current never falls below zero and every field keeps its type, whatever
\* the order of opens, closes, page I/O and recycling.
THEOREM FileTypes == Spec => []TypeOK
  <1>1. FileInv => TypeOK
    BY DEF FileInv
  <1> QED
    BY <1>1, FileCorrect, PTL

\* fuse_filehandle_get is never called for a slot in use, nor fuse_filehandle_put:
\* the two panics of fuse_file.c are not reached.
THEOREM FileNoPanic == Spec => []NoFilehandlePanic
  <1>1. FileInv => NoFilehandlePanic
    BY DEF FileInv, NoFilehandlePanic
  <1> QED
    BY <1>1, FileCorrect, PTL

\* A slot in use has a handle the daemon was not told to release, and no handle is
\* released twice.
THEOREM FileHandlesOpen == Spec => []ValidHandleOpen
  <1>1. FileInv => ValidHandleOpen
    BY DEF FileInv, SlotsOk, ValidHandleOpen
  <1> QED
    BY <1>1, FileCorrect, PTL

\* On a vnode without page I/O the node lock keeps one fuse_filehandle_get from
\* overwriting the handle of another.
THEOREM FileLockProtects == Spec => []NodeLockProtects
  <1>1. FileInv => NodeLockProtects
    BY DEF FileInv
  <1> QED
    BY <1>1, FileCorrect, PTL

\* On a vnode without page I/O no request names a handle after its RELEASE.
THEOREM FileNoUseAfterRelease == Spec => []NoUseAfterRelease
  <1>1. FileInv => NoUseAfterRelease
    BY DEF FileInv, UnpagedOk, UnpagedOf, NoUseAfterRelease
  <1> QED
    BY <1>1, FileCorrect, PTL

\* Each open descriptor is counted in its slot, so close finds its handle.
THEOREM FileDescriptors == Spec => []DescriptorsCounted
  <1>1. FileInv => DescriptorsCounted
    <2>1. SUFFICES ASSUME FileInv, Intact, NEW k \in Types
                   PROVE  Cardinality({x \in Users : desc[x] = k}) <= fufh[k].open_count
      BY DEF DescriptorsCounted, Intact
    <2>2. UseOk(k) /\ Cardinality(Descriptors(k)) \in Nat /\ fufh[k].open_count \in Nat
      BY <2>1, Parts, UsesSlots, SlotFields, DescriptorsFinite
    <2>3. Reading \in {0, 1}
      BY DEF Reading
    <2>4. Cardinality(Descriptors(k)) <= fufh[k].open_count
      BY <2>1, <2>2, <2>3 DEF UseOk
    <2> QED
      BY <2>4 DEF Descriptors
  <1> QED
    BY <1>1, FileCorrect, PTL

\* In a live session every handle the daemon gave is in a slot in use or was released,
\* unless a slot was overwritten or it came in an answer that nobody used.
THEOREM FileNoHandleLost == Spec => []NoHandleLost
  <1>1. FileInv => NoHandleLost
    BY DEF FileInv
  <1> QED
    BY <1>1, FileCorrect, PTL

\* Two threads are never at the release of a handle.
LEMMA OnePut ==
    ASSUME FileInv, NEW x \in Threads, NEW y \in Threads, At(x, "put"), At(y, "put")
    PROVE  x = y
  <1> USE Parts
  <1>1. PlaceOf(x, thr[x]) /\ thr[x].pc = "put" /\ thr[y].pc = "put"
    BY DEF PlacesOk, At
  <1>2. thr[x].op \in {"close", "readdir", "inactive", "reclaim", "vclean"}
    BY <1>1 DEF PlaceOf, OpsAt
  <1>3. thr[x].op = "reclaim" => x = Vfs
    BY <1>1 DEF PlaceOf, OpsOf, Threads
  <1>4. Alone(x)
    BY <1>2, <1>3, AloneHolder, AloneVfs DEF Holds
  <1> QED
    BY <1>1, <1>4, AloneLabels

\* The sysctl fuse_fh_current is the number of handles in use and under release.
THEOREM FileHandleCount == Spec => []HandleCount
  <1>1. FileInv => HandleCount
    <2>1. SUFFICES ASSUME FileInv, Intact
                   PROVE  fh_current = Cardinality(InUse(0)) + Cardinality({x \in Threads : At(x, "put")})
      BY DEF HandleCount, Intact
    <2>2. fh_current = Used(0) + Used(1) + Used(2) + Putting
      BY <2>1, Parts DEF CountOk, FUFH_RDONLY, FUFH_WRONLY, FUFH_RDWR
    <2>3. Cardinality({x \in Threads : At(x, "put")}) = Putting
      <3>1. CASE \E x \in Threads : At(x, "put")
        <4>1. PICK x \in Threads : At(x, "put")
          BY <3>1
        <4>2. {y \in Threads : At(y, "put")} = {x}
          BY <2>1, <4>1, OnePut
        <4> QED
          BY <3>1, <4>2, FS_Singleton DEF Putting
      <3>2. CASE ~\E x \in Threads : At(x, "put")
        <4>1. {y \in Threads : At(y, "put")} = {}
          BY <3>2
        <4> QED
          BY <3>2, <4>1, FS_EmptySet DEF Putting
      <3> QED
        BY <3>1, <3>2
    <2>4. Cardinality(InUse(0)) = Used(0) + Used(1) + Used(2)
      <3>1. PICK A, B, C : /\ A = {k \in {0} : Valid(k)} /\ B = {k \in {1} : Valid(k)}
                           /\ C = {k \in {2} : Valid(k)}
        OBVIOUS
      <3>2. IsFiniteSet(A) /\ Cardinality(A) = Used(0)
        <4>1. A = IF Valid(0) THEN {0} ELSE {}
          BY <3>1
        <4> QED
          BY <4>1, FS_Singleton, FS_EmptySet DEF Used
      <3>3. IsFiniteSet(A \cup B) /\ Cardinality(A \cup B) = Used(0) + Used(1)
        <4>1. CASE Valid(1)
          <5>1. A \cup B = A \cup {1} /\ 1 \notin A
            BY <3>1, <4>1
          <5>2. IsFiniteSet(A \cup {1}) /\ Cardinality(A \cup {1}) = Cardinality(A) + 1
            BY <3>2, <5>1, FS_AddElement
          <5> QED
            BY <3>2, <4>1, <5>1, <5>2 DEF Used
        <4>2. CASE ~Valid(1)
          <5>1. A \cup B = A
            BY <3>1, <4>2
          <5>2. Used(0) \in {0, 1} /\ Used(1) = 0
            BY <4>2 DEF Used
          <5> QED
            BY <3>2, <5>1, <5>2
        <4> QED
          BY <4>1, <4>2
      <3>4. Cardinality((A \cup B) \cup C) = Used(0) + Used(1) + Used(2)
        <4>0. Used(0) \in {0, 1} /\ Used(1) \in {0, 1}
          BY DEF Used
        <4>1. CASE Valid(2)
          <5>1. (A \cup B) \cup C = (A \cup B) \cup {2} /\ 2 \notin A \cup B
            BY <3>1, <4>1
          <5>2. Cardinality((A \cup B) \cup {2}) = Cardinality(A \cup B) + 1
            BY <3>3, <5>1, FS_AddElement
          <5> QED
            BY <3>3, <4>1, <5>1, <5>2 DEF Used
        <4>2. CASE ~Valid(2)
          <5>1. (A \cup B) \cup C = A \cup B
            BY <3>1, <4>2
          <5>2. Used(2) = 0
            BY <4>2 DEF Used
          <5> QED
            BY <3>3, <4>0, <5>1, <5>2
        <4> QED
          BY <4>1, <4>2
      <3>5. InUse(0) = (A \cup B) \cup C
        BY <3>1 DEF InUse, Types, FUFH_RDONLY, FUFH_RDWR
      <3> QED
        BY <3>4, <3>5
    <2>5. Used(0) \in {0, 1} /\ Used(1) \in {0, 1} /\ Used(2) \in {0, 1} /\ Putting \in {0, 1}
      BY DEF Used, Putting
    <2> QED
      BY <2>2, <2>3, <2>4, <2>5
  <1> QED
    BY <1>1, FileCorrect, PTL
=============================================================================
