----------------------------- MODULE FuseLocks -----------------------------
(***************************************************************************)
(* The locks of one mounted file system: which node locks the wrappers of  *)
(* the vnode operations take and in which order, the order that            *)
(* fuse_locking.c gives to two and to four nodes, the biglock, which       *)
(* follows them and is released while an operation waits for the daemon,   *)
(* and the mutexes of the answer queue and of its tickets.                 *)
(*                                                                         *)
(* The order goes by parent_nodeid, which is set when a vnode is made and  *)
(* never changed, and by address.  xnu finds the vnodes of an operation    *)
(* before the call, so the tree may have changed when their locks are      *)
(* taken.  One action takes one lock that others may hold while they wait  *)
(* themselves; the rest of an operation is of no concern here.             *)
(***************************************************************************)
EXTENDS Integers, SequencesExt

CONSTANTS
    Threads,     \* threads in vnode operations
    Dirs, Files, \* nodes
    Root,
    NULL,        \* no vnode; the parent_nodeid 0
    Closer,      \* the thread in fuse_device_close or fuse_device_kill
    Moved        \* nodes that may have been renamed since their vnodes were made

Nodes == Dirs \cup Files

\* the value 0xffffffff after the last element of a list, which is no node
Sentinel == <<"sentinel">>

ASSUME LocksAssumption ==
    /\ Root \in Dirs /\ NULL \notin Nodes \cup Threads /\ Dirs \cap Files = {}
    /\ Closer \notin Threads \cup {NULL} /\ Moved \subseteq Nodes /\ IsFiniteSet(Nodes)
    /\ Sentinel \notin Nodes \cup {NULL}

VARIABLES
    addr,          \* address of each node's fuse_vnode_data
    parent_nodeid, \* the directory the node was in when its vnode was made
    owner,         \* nodelockowner
    biglock,       \* who holds data->biglock
    aw_mtx,        \* who holds data->aw_mtx
    aw_head,       \* threads whose ticket is on data->aw_head, in order
    rejecting,     \* tickets fuse_reject_answers has still to visit
    dead,
    thr            \* control, vnodes and locks to take of each thread

nodes == <<addr, parent_nodeid>>
vars  == <<nodes, owner, biglock, aw_mtx, aw_head, rejecting, dead, thr>>

\* cp: the nodes the operation unlocks at its end; list: the node locks it has
\* still to take
IdleThread == [pc |-> "idle", op |-> "none", cp |-> {}, list |-> <<>>]

Addresses == {a \in [Nodes -> 1 .. Cardinality(Nodes)] : \A m, n \in Nodes : a[m] = a[n] => m = n}

\* A vnode can be reclaimed and made again wherever its node is by then, so after
\* some renames a node may have any directory for its parent_nodeid.
Parents == {p \in [Nodes -> Dirs \cup {NULL}] :
              \A n \in Nodes : p[n] # n /\ (p[n] = NULL <=> n = Root)
                               /\ (n \in Dirs \ {Root} => p[n] = Root \/ n \in Moved)}

Init ==
    /\ addr \in Addresses /\ parent_nodeid \in Parents
    /\ owner = [n \in Nodes |-> NULL]
    /\ biglock = NULL /\ aw_mtx = NULL /\ aw_head = <<>> /\ rejecting = <<>> /\ dead = FALSE
    /\ thr = [t \in Threads |-> IdleThread]

-----------------------------------------------------------------------------
(* The order of fuse_locking.c *)

\* fusefs_isordered
IsOrdered(cp1, cp2) ==
    /\ cp1 # cp2
    /\ \/ cp1 = NULL \/ cp2 = Sentinel
       \/ /\ cp2 # NULL /\ cp1 # Sentinel
          /\ \/ cp1 = parent_nodeid[cp2]
             \/ cp2 # parent_nodeid[cp1] /\ addr[cp1] < addr[cp2]

Sorted(cp1, cp2) == IF IsOrdered(cp1, cp2) THEN <<cp1, cp2, Sentinel>> ELSE <<cp2, cp1, Sentinel>>

\* Mutant: duplicates are not left out.
JoinsAll(list, last, tmp) == IF tmp = NULL THEN list ELSE Append(list, tmp)

\* tmp is left out if it equals the one taken before it, or is no node
Joins(list, last, tmp) == IF tmp \in {last, NULL} THEN list ELSE Append(list, tmp)

\* A round of the loop of fusefs_lockfour takes the lower head of a and b.
Round(a, b, s) ==
    IF IsOrdered(a[s.i], b[s.j])
    THEN [i |-> s.i + 1, j |-> s.j, last |-> a[s.i], list |-> Joins(s.list, s.last, a[s.i])]
    ELSE [i |-> s.i, j |-> s.j + 1, last |-> b[s.j], list |-> Joins(s.list, s.last, b[s.j])]

\* Each round takes one of the four nodes.
Merged(a, b) ==
    Round(a, b, Round(a, b, Round(a, b, Round(a, b,
        [i |-> 1, j |-> 1, last |-> Sentinel, list |-> <<>>])))).list

\* fusefs_lockfour: the nodes in the order in which it locks them
LockFour(cp1, cp2, cp3, cp4) == Merged(Sorted(cp1, cp2), Sorted(cp3, cp4))

\* Mutant: the order of the arguments.
LockPairGiven(cp1, cp2) == IF cp1 = cp2 THEN <<cp1>> ELSE <<cp1, cp2>>

\* fusefs_lockpair, which looks for a parent in its first argument only
LockPair(cp1, cp2) ==
    IF cp1 = cp2 THEN <<cp1>> ELSE
    IF (cp1 \in Dirs /\ cp1 = parent_nodeid[cp2]) \/ addr[cp1] < addr[cp2] THEN <<cp1, cp2>>
    ELSE <<cp2, cp1>>

\* Mutant: the last argument is forgotten.
UnlockedThree(cp) == {cp[i] : i \in 1 .. Len(cp) - (IF Len(cp) = 4 THEN 1 ELSE 0)} \ {NULL}

\* fusefs_unlockfour and fusefs_unlockpair: each node once
Unlocked(cp) == {cp[i] : i \in DOMAIN cp} \ {NULL}

-----------------------------------------------------------------------------
(* The wrappers take the node locks and then the biglock *)

At(t, l) == thr[t].pc = l

\* Operation op with the vnodes cp; list is the order of their locks.  One that
\* begins in a dead session takes the same locks and returns: it is left out.
Called(t, op, cp, list) ==
    /\ At(t, "idle") /\ ~dead
    /\ thr' = [thr EXCEPT ![t] = [pc |-> "lock", op |-> op, cp |-> Unlocked(cp), list |-> list]]
    /\ UNCHANGED <<nodes, owner, biglock, aw_mtx, aw_head, rejecting, dead>>

\* nodelocked_vnop on a_vp, or on a_dvp of the operations that make an entry
One(t, n) == Called(t, "one", <<n>>, <<n>>)

\* nodelocked_pair_vnop: two files xnu was given by name
Exchange(t, f, g) == Called(t, "exchange", <<f, g>>, LockPair(f, g))

\* fuse_biglock_vnop_rename: nodelocked_quad_vnop(tdvp, fdvp, fvp, tvp)
RenameList(fdvp, fvp, tdvp, tvp) == LockFour(tdvp, fdvp, fvp, tvp)

\* xnu found n in d
Entry(n, d) == n # d /\ n # Root /\ (parent_nodeid[n] = d \/ n \in Moved)

\* xnu returns EINVAL, EISDIR or ENOTDIR for other arguments
Rename(t, fdvp, fvp, tdvp, tvp) ==
    /\ Entry(fvp, fdvp) /\ fvp # tdvp
    /\ tvp # NULL => Entry(tvp, tdvp) /\ (fvp \in Dirs <=> tvp \in Dirs)
    /\ Called(t, "rename", <<tdvp, fdvp, fvp, tvp>>, RenameList(fdvp, fvp, tdvp, tvp))

\* fuse_vfsop_biglock_sync takes the biglock only
Sync(t) == Called(t, "sync", <<>>, <<>>)

\* fusefs_lock, exclusive
LockNext(t) ==
    /\ At(t, "lock") /\ thr[t].list # <<>>
    /\ owner[thr[t].list[1]] = NULL
    /\ owner' = [owner EXCEPT ![thr[t].list[1]] = t]
    /\ thr' = [thr EXCEPT ![t].list = Tail(@)]
    /\ UNCHANGED <<nodes, biglock, aw_mtx, aw_head, rejecting, dead>>

Enter(t) ==
    /\ At(t, "lock") /\ thr[t].list = <<>> /\ biglock = NULL /\ thr[t].op # "sync"
    /\ biglock' = t
    /\ thr' = [thr EXCEPT ![t].pc = "send", ![t].op = "none"]
    /\ UNCHANGED <<nodes, owner, aw_mtx, aw_head, rejecting, dead>>

\* the end of the wrapper: the biglock, then fusefs_unlock of each node
Leaves(t) ==
    /\ biglock' = NULL
    /\ owner' = [n \in Nodes |-> IF n \in thr[t].cp THEN NULL ELSE owner[n]]
    /\ thr' = [thr EXCEPT ![t] = IdleThread]
    /\ UNCHANGED nodes

-----------------------------------------------------------------------------
(* Requests and answers *)

\* fuse_insert_callback looks at dead, which no lock protects, ...
Send(t) ==
    /\ At(t, "send") /\ ~dead
    /\ thr' = [thr EXCEPT ![t].pc = "insert"]
    /\ UNCHANGED <<nodes, owner, biglock, aw_mtx, aw_head, rejecting, dead>>

\* ... and takes data->aw_mtx, with the biglock held.
Insert(t) ==
    /\ At(t, "insert") /\ aw_mtx = NULL
    /\ aw_head' = Append(aw_head, t)
    /\ thr' = [thr EXCEPT ![t].pc = "wait"]
    /\ UNCHANGED <<nodes, owner, biglock, aw_mtx, rejecting, dead>>

\* fuse_ticket_wait_answer releases the biglock and sleeps.  It does so also for a
\* sync, which may not hold it: the mutex is then free whoever held it.
Sleep(t) ==
    /\ At(t, "wait") /\ ~dead
    /\ biglock' = NULL
    /\ thr' = [thr EXCEPT ![t].pc = "sleep"]
    /\ UNCHANGED <<nodes, owner, aw_mtx, aw_head, rejecting, dead>>

\* It does not sleep if the session has died or the ticket is answered.
NeedNotSleep(t) == At(t, "done") \/ (At(t, "wait") /\ dead)

\* ENXIO or ENOTCONN: nothing is sent to a dead session
Refused(t) ==
    /\ At(t, "send") /\ dead /\ thr[t].op # "sync"
    /\ Leaves(t)
    /\ UNCHANGED <<aw_mtx, aw_head, rejecting, dead>>

\* TAILQ_REMOVE
Without(t) ==
    IF \E i \in DOMAIN aw_head : aw_head[i] = t
    THEN RemoveAt(aw_head, CHOOSE i \in DOMAIN aw_head : aw_head[i] = t)
    ELSE aw_head

\* answered is set and the requester woken; one that does not sleep yet will not
Notified(pc) == CASE pc = "sleep" -> "woken" [] pc = "wait" -> "done" [] OTHER -> pc

\* fuse_device_write takes the ticket off aw_head, then fuse_standard_callback takes
\* the ticket's mutex, for which it may wait, holding nothing else
Answer(t) ==
    /\ \E i \in DOMAIN aw_head : aw_head[i] = t
    /\ aw_mtx = NULL
    /\ aw_head' = Without(t)
    /\ thr' = [thr EXCEPT ![t].pc = Notified(@)]
    /\ UNCHANGED <<nodes, owner, biglock, aw_mtx, rejecting, dead>>

\* a signal or the timeout: the ticket stays on aw_head
Interrupted(t) ==
    /\ At(t, "sleep")
    /\ thr' = [thr EXCEPT ![t].pc = "woken"]
    /\ UNCHANGED <<nodes, owner, biglock, aw_mtx, aw_head, rejecting, dead>>

Return(t) ==
    /\ NeedNotSleep(t) /\ thr[t].op # "sync"
    /\ Leaves(t)
    /\ aw_head' = Without(t)
    /\ UNCHANGED <<aw_mtx, rejecting, dead>>

\* Woken, a requester has ticket->aw_mtx and takes the biglock; the end of the
\* operation waits for nothing more.  A timeout kills the session.  Nobody holds
\* the mutex of a ticket that is left on aw_head any longer, so it is left out.
Finish(t) ==
    /\ At(t, "woken") /\ biglock = NULL /\ thr[t].op # "sync"
    /\ Leaves(t)
    /\ aw_head' = Without(t)
    /\ dead' \in {dead, TRUE}
    /\ UNCHANGED <<aw_mtx, rejecting>>

-----------------------------------------------------------------------------
(* fuse_vfsop_sync *)

\* The wrapper has taken the biglock, fuse_vfsop_sync releases it again.
SyncEnter(t) ==
    /\ At(t, "lock") /\ thr[t].op = "sync" /\ biglock = NULL
    /\ thr' = [thr EXCEPT ![t].pc = "visit"]
    /\ UNCHANGED <<nodes, owner, biglock, aw_mtx, aw_head, rejecting, dead>>

\* fuse_sync_callback: FSYNC for a handle of a dirty vnode, or no vnode is left.
\* The page I/O of cluster_push is left out.
Visit(t) ==
    /\ At(t, "visit")
    /\ \E l \in {"send", "relock"} : (l = "send" => ~dead) /\ thr' = [thr EXCEPT ![t].pc = l]
    /\ UNCHANGED <<nodes, owner, biglock, aw_mtx, aw_head, rejecting, dead>>

\* FSYNC is not sent, and the iteration ends
SyncRefused(t) ==
    /\ At(t, "send") /\ dead /\ thr[t].op = "sync"
    /\ thr' = [thr EXCEPT ![t].pc = "relock"]
    /\ UNCHANGED <<nodes, owner, biglock, aw_mtx, aw_head, rejecting, dead>>

\* fuse_ticket_wait_answer takes the biglock for the callback
SyncWoken(t) ==
    /\ At(t, "woken") /\ biglock = NULL /\ thr[t].op = "sync"
    /\ biglock' = t
    /\ thr' = [thr EXCEPT ![t].pc = "visit"]
    /\ aw_head' = Without(t)
    /\ dead' \in {dead, TRUE}
    /\ UNCHANGED <<nodes, owner, aw_mtx, rejecting>>

SyncReturn(t) ==
    /\ NeedNotSleep(t) /\ thr[t].op = "sync"
    /\ thr' = [thr EXCEPT ![t].pc = "visit"]
    /\ aw_head' = Without(t)
    /\ UNCHANGED <<nodes, owner, biglock, aw_mtx, rejecting, dead>>

\* fuse_vfsop_sync takes the biglock, which its wrapper releases
SyncEnd(t) ==
    /\ At(t, "relock") /\ biglock = NULL
    /\ Leaves(t)
    /\ UNCHANGED <<aw_mtx, aw_head, rejecting, dead>>

-----------------------------------------------------------------------------
(* The end of the session *)

\* fuse_data_kill takes none of these locks
Kill ==
    /\ ~dead
    /\ dead' = TRUE
    /\ UNCHANGED <<nodes, owner, biglock, aw_mtx, aw_head, rejecting, thr>>

\* after it, fuse_reject_answers takes data->aw_mtx ...
Reject ==
    /\ dead /\ aw_mtx = NULL /\ aw_head # <<>>
    /\ aw_mtx' = Closer
    /\ rejecting' = aw_head
    /\ UNCHANGED <<nodes, owner, biglock, aw_head, dead, thr>>

\* ... and under it the aw_mtx of each ticket
RejectOne ==
    /\ aw_mtx = Closer /\ rejecting # <<>>
    /\ ~At(rejecting[1], "woken")
    /\ thr' = [thr EXCEPT ![rejecting[1]].pc = Notified(@)]
    /\ rejecting' = Tail(rejecting)
    /\ UNCHANGED <<nodes, owner, biglock, aw_mtx, aw_head, dead>>

RejectEnd ==
    /\ aw_mtx = Closer /\ rejecting = <<>>
    /\ aw_mtx' = NULL /\ aw_head' = <<>>
    /\ UNCHANGED <<nodes, owner, biglock, rejecting, dead, thr>>

-----------------------------------------------------------------------------

Call(t) ==
    /\ At(t, "idle")
    /\ \/ Sync(t)
       \/ \E n \in Nodes : One(t, n)
       \/ \E f, g \in Files : Exchange(t, f, g)
       \/ \E fdvp, tdvp \in Dirs, fvp \in Nodes, tvp \in Nodes \cup {NULL} :
             Rename(t, fdvp, fvp, tdvp, tvp)

Step(t) ==
    \/ LockNext(t) \/ Enter(t) \/ Send(t) \/ Refused(t) \/ Insert(t) \/ Sleep(t)
    \/ Answer(t) \/ Interrupted(t) \/ Return(t) \/ Finish(t)
    \/ SyncEnter(t) \/ Visit(t) \/ SyncRefused(t) \/ SyncReturn(t) \/ SyncWoken(t) \/ SyncEnd(t)

Next ==
    \/ \E t \in Threads : Call(t) \/ Step(t)
    \/ Kill \/ Reject \/ RejectOne \/ RejectEnd

Spec == Init /\ [][Next]_vars

-----------------------------------------------------------------------------
(* Properties *)

TypeOK ==
    /\ addr \in Addresses /\ parent_nodeid \in Parents
    /\ owner \in [Nodes -> Threads \cup {NULL}]
    /\ biglock \in Threads \cup {NULL} /\ aw_mtx \in {NULL, Closer} /\ dead \in BOOLEAN
    /\ aw_head \in Seq(Threads) /\ rejecting \in Seq(Threads)
    /\ \A t \in Threads :
          /\ thr[t].pc \in {"idle", "lock", "send", "insert", "wait", "done", "sleep", "woken",
                            "visit", "relock"}
          /\ thr[t].op \in {"none", "one", "exchange", "rename", "sync"}
          /\ thr[t].cp \subseteq Nodes /\ thr[t].list \in Seq(Nodes)
          /\ \A n \in Nodes : owner[n] = t => ~At(t, "idle")

\* "locked in fusenode parent-child order (if there is a relationship)", says the
\* comment of fusefs_lockfour: no node is locked before its parent.
ParentFirst ==
    \A t \in Threads : LET l == thr[t].list IN
       \A i, j \in DOMAIN l : i < j => parent_nodeid[l[i]] # l[j]

\* the actor that holds what t waits for, NULL if t does not wait
WaitsFor(t) ==
    CASE At(t, "lock") /\ thr[t].list # <<>> -> owner[thr[t].list[1]]
      [] At(t, "lock") /\ thr[t].list = <<>> -> biglock
      [] At(t, "insert")                     -> aw_mtx
      [] At(t, "woken") \/ At(t, "relock")   -> biglock
      [] OTHER                               -> NULL

\* a requester holds ticket->aw_mtx when it is woken
CloserWaitsFor ==
    IF rejecting # <<>> /\ At(rejecting[1], "woken") THEN rejecting[1] ELSE NULL

Actors == Threads \cup {Closer}

Blocker == [t \in Actors |-> IF t = Closer THEN CloserWaitsFor ELSE WaitsFor(t)]

\* actors each of whom waits for the next one
Circles ==
    LET b == Blocker
        Closed == {S \in SUBSET {t \in Actors : b[t] # NULL} : S # {} /\ \A t \in S : b[t] \in S}
    IN  {S \in Closed : \A R \in Closed : R \subseteq S => R = S}

\* Actors wait for each other in a circle only in three cases.  One is a circle of
\* node locks with a rename in it: exchange and the operations with one lock
\* cannot make one, and neither can the biglock, which is taken after the node
\* locks and is free while its taker sleeps.  The second needs the session to be
\* closed: fuse_reject_answers has data->aw_mtx and waits for the ticket of a
\* requester that a signal or a timeout woke; that one waits for the biglock; and
\* its holder, who found the session alive, waits in fuse_insert_callback for
\* data->aw_mtx.  The third is a sync
\* that waits for itself: fuse_ticket_wait_answer gave the biglock to the FSYNC of
\* a dirty vnode, and fuse_vfsop_sync takes it again.
CirclesKnown ==
    \A S \in Circles :
       \/ /\ \A t \in S : At(t, "lock") /\ thr[t].list # <<>>
          /\ \E t \in S : thr[t].op = "rename"
       \/ /\ Closer \in S
          /\ \E t, u \in S \ {Closer} : At(t, "woken") /\ At(u, "insert")
       \/ \E t \in S : S = {t} /\ At(t, "relock")

\* two of the nodes remember each other as parents: one was moved out of the other,
\* the other into it, and only one of the vnodes was made since
Mutual(S) == \E m, n \in S : parent_nodeid[m] = n /\ parent_nodeid[n] = m

\* "only one lock taken per fusenode", says the comment of fusefs_lockfour: an
\* operation waits for a node lock that it holds only if two of its nodes remember
\* each other as parents, which fusefs_isordered finds in order both ways.
OneLockPerNode ==
    \A t \in Threads :
        At(t, "lock") /\ thr[t].list # <<>> /\ owner[thr[t].list[1]] = t => Mutual(thr[t].cp)
=============================================================================
