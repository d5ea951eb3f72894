----------------------------- MODULE FuseCache -----------------------------
(***************************************************************************)
(* What the kernel remembers of a directory and of the nodes in it: the    *)
(* name cache, the attributes of each vnode and how long they are valid,   *)
(* and the file size, which local writes and truncations move ahead of the *)
(* daemon's until the dirty pages reach it.                                *)
(*                                                                         *)
(* xnu first looks an operation's names up (fuse_vnop_lookup, under the    *)
(* directory's lock) and then calls the operation, which takes the locks   *)
(* of fuse_biglock_vnops.c: the directory's to make an entry or to rename, *)
(* only the node's own to remove it, link it or change it.  Each call has  *)
(* three steps: it takes its locks and sends its request, the daemon       *)
(* executes it, the call uses the answer and releases the locks.  A signal *)
(* makes it give up between any two of them.                               *)
(*                                                                         *)
(* One directory is modelled, without its own attributes; its nodes keep   *)
(* their type, and the daemon changes nothing unless it is asked to.       *)
(*                                                                         *)
(* An ubc_msync pages the dirty pages out and waits for them: the steps    *)
(* are those of Pageout, and what follows it in the code waits until the   *)
(* file is clean.                                                          *)
(***************************************************************************)
EXTENDS Integers, FiniteSets, FiniteSetsExt, Functions

CONSTANTS
    Threads,
    Names,
    Files, Subdirs, \* nodes, with the numbers the daemon gives them
    Direct,         \* files whose OPEN the daemon answers with FOPEN_DIRECT_IO
    Dvp,            \* the directory
    NULL,
    MaxSize,        \* bound: file sizes are 0 .. MaxSize
    MaxOps,         \* bound: operations that are started
    MaxSignals      \* bound: operations that a signal interrupts

Nodes == Files \cup Subdirs

ASSUME CacheAssumption ==
    /\ Files \cap Subdirs = {} /\ Direct \subseteq Files /\ Dvp \notin Nodes /\ NULL \notin Nodes
    /\ IsFiniteSet(Nodes) /\ MaxSize \in Nat /\ MaxOps \in Nat /\ MaxSignals \in Nat

\* The markers are no nodes, names or threads.
ASSUME MarkersAssumption ==
    /\ "miss" \notin Nodes /\ "negative" \notin Nodes
    /\ NULL \notin Names \cup Threads \cup {Dvp}

VARIABLES
    sync,         \* vfs_issynchronous(mp)
    fs,           \* the daemon: its directory, file sizes, other attributes, nodes made
    kern,         \* the kernel's name cache, vnodes and what is kept with them
    flight,       \* end of each file's pages that are being paged out
    lock,         \* nodelock of the directory and of each node
    thr,          \* the operation of each thread
    late,         \* requests for a change whose caller gave up, still to be executed
    ops, signals, \* operations started, operations interrupted
    cause,        \* history: how each name last changed
    tag           \* history: what befell each node

vars == <<sync, fs, kern, flight, lock, thr, late, ops, signals, cause, tag>>

---------------------------------------------------------------------------
\* Requests and answers

Sizes == 0 .. MaxSize

NameOps == {"lookup", "create", "newentry", "remove", "rmdir", "rename", "link"}
FileOps == {"getattr", "chmod", "truncate", "write", "exchange"}

\* The bzero'd cached_attr of a new vnode.
Blank == [size |-> 0, ver |-> 0]

Fail == [ok |-> FALSE, node |-> NULL, size |-> 0, ver |-> 0]

\* What the daemon says of a node.
About(d, n) == IF n = NULL THEN [Fail EXCEPT !.ok = TRUE]
               ELSE [ok |-> TRUE, node |-> n, size |-> d.size[n], ver |-> d.ver[n]]

\* stage: which call of the operation; pc: "ready" without locks, "sent", "done".
\* vp, vp2: the vnodes the lookups found; nm, nm2: the names; end: the end of a
\* write or the new size; size: original_size; iosync: IO_SYNC, chosen when the
\* write starts; mk: MAKEENTRY; over: the name changed after the daemon answered.
IdleThread == [pc |-> "idle", stage |-> "none", op |-> "none", nm |-> NULL, nm2 |-> NULL,
               vp |-> NULL, vp2 |-> NULL, end |-> 0, size |-> 0, iosync |-> FALSE, mk |-> FALSE,
               ans |-> Fail, over |-> FALSE]

Linked(d) == Range(d.dir) \ {NULL}

\* The daemon d after a WRITE of file n up to end e: the times change as well.
Written(d, n, e) == [d EXCEPT !.size[n] = Max({@, e}), !.ver[n] = @ + 1]

\* The outcomes of executing request r: the daemon's next state and its answer.  A
\* write of several chunks may fail when the first has been executed.
Exec(d, r) ==
  LET a   == r.nm
      old == d.dir[a]
      new(S) == {<<[d EXCEPT !.dir[a] = n, !.made = @ \cup {n}], About(d, n)>> : n \in S \ d.made}
      Unlinked(S) == IF old \in S
                     THEN {<<[d EXCEPT !.dir[a] = NULL, !.ver[old] = @ + 1], About(d, NULL)>>} ELSE {}
  IN IF r.stage \in {"find", "find2"}
     THEN {<<d, About(d, d.dir[IF r.stage = "find" THEN r.nm ELSE r.nm2])>>}
     ELSE CASE
          r.op = "create"   -> IF old = NULL THEN new(Files)
                               ELSE IF old \in Files THEN {<<d, About(d, old)>>} ELSE {}
       [] r.op = "newentry" -> IF old = NULL THEN new(Nodes) ELSE {}
       [] r.op = "remove"   -> Unlinked(Files)
       [] r.op = "rmdir"    -> Unlinked(Subdirs)
       [] r.op = "rename"   ->
              LET to == d.dir[r.nm2]
              IN IF old = NULL \/ (to # NULL /\ (old \in Files) # (to \in Files)) THEN {}
                 ELSE IF old = to THEN {<<d, About(d, NULL)>>}
                 ELSE {<<[d EXCEPT !.dir = [@ EXCEPT ![a] = NULL, ![r.nm2] = old],
                                   !.ver = [n \in Nodes |-> @[n] + (IF n = to THEN 1 ELSE 0)]],
                         About(d, NULL)>>}
       [] r.op = "link"     -> IF old = NULL /\ r.vp \in Linked(d)
                               THEN {<<[d EXCEPT !.dir[a] = r.vp, !.ver[r.vp] = @ + 1],
                                       About(d, r.vp)>>}
                               ELSE {}
       [] r.op = "getattr"  -> {<<d, About(d, r.vp)>>}
       [] r.op = "chmod"    -> LET e == [d EXCEPT !.ver[r.vp] = @ + 1] IN {<<e, About(e, r.vp)>>}
       [] r.op = "truncate" -> LET e == [d EXCEPT !.size[r.vp] = r.end, !.ver[r.vp] = @ + 1]
                               IN {<<e, About(e, r.vp)>>}
       [] r.op = "write"    -> {Written(d, r.vp, r.end)} \X {About(d, NULL), Fail}
       [] r.op = "exchange" -> {<<[d EXCEPT !.size = [@ EXCEPT ![r.vp] = d.size[r.vp2], ![r.vp2] = d.size[r.vp]],
                                            !.ver = [n \in Nodes |-> @[n] + (IF n \in {r.vp, r.vp2} THEN 1 ELSE 0)]],
                                  About(d, NULL)>>}
       [] OTHER -> {}

---------------------------------------------------------------------------
\* The kernel's caches.  kern.names: a vnode, "miss" or "negative" for each name;
\* vn: the nodes that have a vnode, with their filesize, cached_attr (va), whether
\* attr_valid is not over (valid) and the end of their dirty pages; direct: those
\* with FN_DIRECT_IO, which stays until the vnode is reclaimed.

\* xnu: cache_purge, cache_purge_negatives
Purge(k, S)       == [k EXCEPT !.names = [a \in Names |-> IF @[a] \in S THEN "miss" ELSE @[a]]]
PurgeNegatives(k) == Purge(k, {"negative"})
PurgeDir(k)       == [k EXCEPT !.names = [a \in Names |-> "miss"]]

Invalidate(k, S) == [k EXCEPT !.valid = [n \in Nodes |-> @[n] /\ n \notin S]]

\* FSNodeGetOrCreateFileVNodeByID.  attr_valid of a new vnode is the daemon's
\* timeout without the uptime: not over if it is longer than the uptime (early).
Vget(k, ans, early) ==
    IF ans.node \in k.vn THEN k
    ELSE [k EXCEPT !.vn = @ \cup {ans.node}, !.filesize[ans.node] = ans.size,
                   !.va[ans.node] = Blank, !.valid[ans.node] = early]

\* fuse_internal_attr_fat2vat: without synchronous writes the kernel's size comes
\* first, and replaces the one in the answer too.
Fat2Vat(k, n, ans) == [size |-> IF sync THEN ans.size ELSE k.filesize[n], ver |-> ans.ver]

CacheAttrs(k, n, ans) == [k EXCEPT !.va[n] = Fat2Vat(k, n, ans), !.valid[n] = TRUE]

Clean(n) == kern.dirty[n] = 0 /\ flight[n] = 0

\* fuse_internal_attr_loadvap: in a synchronous mount another size takes the place of
\* the kernel's once ubc_msync has pushed the pages.
LoadVapReady(k, n) == sync /\ k.filesize[n] # k.va[n].size => Clean(n)
LoadVap(k, n) == IF sync THEN [k EXCEPT !.filesize[n] = k.va[n].size]
                 ELSE [k EXCEPT !.va[n].size = k.filesize[n]]

\* ATTR_FUDGE_CASE
Fudge(k, n, size) == IF n \in k.direct THEN [k EXCEPT !.filesize[n] = size] ELSE k

---------------------------------------------------------------------------
\* Looking a name up

Intent(r) == CASE r.op = "lookup" -> "LOOKUP"
               [] r.op \in {"create", "newentry", "link"} -> "CREATE"
               [] r.stage = "find2" -> "RENAME"
               [] OTHER -> "DELETE"

Name(r) == IF r.stage = "find2" THEN r.nm2 ELSE r.nm

\* xnu enters no name on behalf of a DELETE or RENAME.
MakeEntry(r) == Intent(r) = "LOOKUP" \/ (Intent(r) = "CREATE" /\ r.mk)

\* What xnu does once the lookup has found v: no vnode is right for a new entry,
\* a vnode of the right kind for one to be removed, any for the rest.
Resolved(r, v) ==
  LET go(q) == [q EXCEPT !.pc = "ready", !.ans = Fail, !.over = FALSE]
  IN CASE Intent(r) = "CREATE" /\ v = NULL -> go([r EXCEPT !.stage = "run"])
       [] r.op = "remove" /\ v \in Files  -> go([r EXCEPT !.stage = "run", !.vp = v])
       [] r.op = "rmdir" /\ v \in Subdirs -> go([r EXCEPT !.stage = "run", !.vp = v])
       [] r.op = "rename" /\ r.stage = "find" /\ v # NULL -> go([r EXCEPT !.stage = "find2", !.vp = v])
       [] r.op = "rename" /\ r.stage = "find2" -> go([r EXCEPT !.stage = "run", !.vp2 = v])
       [] OTHER -> IdleThread

Locks(r) == IF r.stage \in {"find", "find2"} \/ r.op \in {"create", "newentry"} THEN {Dvp}
            ELSE IF r.op = "rename" THEN {Dvp, r.vp, r.vp2} \ {NULL}
            ELSE IF r.op = "exchange" THEN {r.vp, r.vp2}
            ELSE {r.vp}

Acquire(t, L) == /\ \A x \in L : lock[x] = NULL
                 /\ lock' = [x \in DOMAIN lock |-> IF x \in L THEN t ELSE lock[x]]
Release(t)    == lock' = [x \in DOMAIN lock |-> IF lock[x] = t THEN NULL ELSE lock[x]]

Sent(r) == [r EXCEPT !.pc = "sent"]

\* cache_lookup of xnu drops an entry that the caller does not want, or a negative
\* one for a name to be made.
Hit(r) == LET c == kern.names[Name(r)]
          IN MakeEntry(r) /\ c # "miss" /\ ~(c = "negative" /\ Intent(r) = "CREATE")

\* fuse_vnop_lookup of a name that is cached
FindHit(t, r) ==
    /\ lock[Dvp] = NULL /\ Hit(r)
    /\ LET c == kern.names[Name(r)]
       IN thr' = [thr EXCEPT ![t] = Resolved(r, IF c = "negative" THEN NULL ELSE c)]
    /\ UNCHANGED <<sync, fs, kern, flight, lock, late, signals, cause, tag>>

\* fuse_vnop_lookup of another one, up to its request
FindMiss(t, r) ==
    /\ ~Hit(r)
    /\ Acquire(t, Locks(r))
    /\ kern' = [kern EXCEPT !.names[Name(r)] = "miss"]
    /\ thr' = [thr EXCEPT ![t] = Sent(r)]
    /\ UNCHANGED <<sync, fs, flight, late, signals, cause, tag>>

\* The answer is older than what the daemon would say now.
Overtaken(ans) == ans.node # NULL /\ ans # About(fs, ans.node)

Tagged(n, S) == [tag EXCEPT ![n] = @ \cup S]

VgetTags(ans, early) == (IF Overtaken(ans) THEN {"overtaken"} ELSE {})
                          \cup (IF early /\ ans.node \notin kern.vn THEN {"blank"} ELSE {})

Enter(k, r, c) == IF MakeEntry(r) THEN [k EXCEPT !.names[Name(r)] = c] ELSE k

EnterCause(r) == IF MakeEntry(r) THEN [cause EXCEPT ![Name(r)] = IF r.over THEN "overtaken" ELSE "none"]
                 ELSE cause

\* fuse_vnop_lookup after an answer: fuse_vget_i, and the attributes unless the
\* name is to be removed or renamed.
FindEnd(t) ==
  LET r == thr[t]
      n == r.ans.node
      K(early) == Enter(Vget(kern, r.ans, early), r, n)
  IN /\ r.pc = "done" /\ r.stage # "run" /\ r.ans.ok
     /\ \/ /\ n = NULL
           /\ IF Intent(r) = "LOOKUP"
              THEN kern' = Enter(kern, r, "negative") /\ cause' = EnterCause(r)
              ELSE UNCHANGED <<kern, cause>>
           /\ UNCHANGED tag
        \/ /\ n # NULL
           /\ \E early \in {e \in BOOLEAN : e => n \notin kern.vn} :
                /\ kern' = IF Intent(r) \in {"DELETE", "RENAME"} THEN K(early)
                           ELSE CacheAttrs(Fudge(K(early), n, r.ans.size), n, r.ans)
                /\ tag' = Tagged(n, VgetTags(r.ans, early))
           /\ cause' = EnterCause(r)
     /\ thr' = [thr EXCEPT ![t] = Resolved(r, n)]
     /\ Release(t)
     /\ UNCHANGED <<sync, fs, flight, late, ops, signals>>

\* A lookup fails: no answer, an answer that is refused, or no vnode to be had.
FindFailed(t) ==
    /\ thr[t].pc = "done" /\ thr[t].stage # "run"
    /\ thr' = [thr EXCEPT ![t] = IdleThread]
    /\ Release(t)
    /\ UNCHANGED <<sync, fs, kern, flight, late, ops, signals, cause, tag>>

---------------------------------------------------------------------------
\* The operations up to their request

Cached(n) == n \notin kern.direct

\* fuse_vnop_getattr with attributes that are still valid
GetattrHit(t, r) ==
    /\ r.op = "getattr" /\ kern.valid[r.vp] /\ lock[r.vp] = NULL /\ LoadVapReady(kern, r.vp)
    /\ kern' = LoadVap(kern, r.vp)
    /\ thr' = [thr EXCEPT ![t] = IdleThread]
    /\ UNCHANGED <<sync, fs, flight, lock, late, signals, cause, tag>>

\* The locks of an operation on names, and the first fuse_vncache_purge of
\* fuse_vnop_remove, _rmdir and _rename.
NameRun(t, r) ==
    /\ Acquire(t, Locks(r))
    /\ kern' = IF r.op \in {"remove", "rmdir", "rename"} THEN Purge(kern, {r.vp}) ELSE kern
    /\ thr' = [thr EXCEPT ![t] = Sent(r)]
    /\ UNCHANGED <<sync, fs, flight, late, signals, cause, tag>>

\* The locks of an operation on files, the larger filesize of a cached write
\* (cluster_write then succeeds or fails, in a synchronous mount after its request)
\* and the ubc_msync of fuse_internal_exchange.
FileRun(t, r) ==
    /\ ~(r.op = "getattr" /\ kern.valid[r.vp])
    /\ Acquire(t, Locks(r))
    /\ \/ /\ r.op \in {"getattr", "chmod", "truncate"} \/ (r.op = "write" /\ ~Cached(r.vp))
          /\ thr' = [thr EXCEPT ![t] = Sent(r)]
          /\ UNCHANGED kern
       \/ /\ r.op = "write" /\ Cached(r.vp)
          /\ kern' = [kern EXCEPT !.filesize[r.vp] = Max({@, r.end})]
          /\ LET q == [r EXCEPT !.size = kern.filesize[r.vp], !.iosync = sync]
             IN \/ sync /\ thr' = [thr EXCEPT ![t] = Sent(q)]
                \/ /\ ~sync
                   /\ \E ans \in {Fail, About(fs, NULL)} :
                        thr' = [thr EXCEPT ![t] = [q EXCEPT !.pc = "done", !.ans = ans]]
       \/ /\ r.op = "exchange" /\ Clean(r.vp) /\ Clean(r.vp2)
          /\ thr' = [thr EXCEPT ![t] = Sent(r)]
          /\ UNCHANGED kern
    /\ UNCHANGED <<sync, fs, flight, late, signals, cause, tag>>

NameRequest(r) ==
    /\ r.op \in NameOps /\ r.stage = "find"
    /\ r.nm \in Names
    /\ IF r.op = "rename" THEN r.nm2 \in Names \ {r.nm} ELSE r.nm2 = NULL
    /\ IF r.op = "link" THEN r.vp \in kern.vn \cap Files ELSE r.vp = NULL
    /\ r.mk => Intent(r) = "CREATE"

FileRequest(r) ==
    /\ r.op \in FileOps /\ r.stage = "run"
    /\ r.vp \in kern.vn \cap Files
    /\ IF r.op = "exchange" THEN r.vp2 \in (kern.vn \cap Files) \ {r.vp} ELSE r.vp2 = NULL
    /\ CASE r.op = "truncate" -> TRUE [] r.op = "write" -> r.end > 0 [] OTHER -> r.end = 0

\* xnu calls the file system on behalf of a system call.
Start(t) ==
    /\ thr[t] = IdleThread /\ ops < MaxOps
    /\ ops' = ops + 1
    /\ \/ \E op \in NameOps, a \in Names, b \in Names \cup {NULL}, v \in kern.vn \cup {NULL}, mk \in BOOLEAN :
            LET r == [IdleThread EXCEPT !.stage = "find", !.op = op, !.nm = a, !.nm2 = b, !.vp = v, !.mk = mk]
            IN NameRequest(r) /\ (FindHit(t, r) \/ FindMiss(t, r))
       \/ \E op \in FileOps, v \in kern.vn, v2 \in kern.vn \cup {NULL}, e \in Sizes :
            LET r == [IdleThread EXCEPT !.stage = "run", !.op = op, !.vp = v, !.vp2 = v2, !.end = e]
            IN FileRequest(r) /\ (GetattrHit(t, r) \/ FileRun(t, r))

\* The next call of an operation whose name has been looked up: the lookup of a
\* rename's second name, or the operation itself.
Continue(t) ==
    /\ thr[t].pc = "ready"
    /\ IF thr[t].stage = "run" THEN NameRun(t, thr[t]) ELSE FindMiss(t, thr[t])
    /\ UNCHANGED ops

---------------------------------------------------------------------------
\* The daemon

Wrong(a) == kern.names[a] \in Nodes /\ kern.names[a] # fs.dir[a]

\* The vnodes found for the operation's names are no longer what the names mean.
Moved(r) == fs.dir[r.nm] # r.vp \/ (r.op = "rename" /\ fs.dir[r.nm2] # r.vp2)

CauseOf(r, a) == IF r.op = "create" THEN "none"
                 ELSE IF r.op \in {"newentry", "link"} THEN "made"
                 ELSE IF Moved(r) THEN "moved"
                 ELSE IF r.op = "rmdir" THEN "rmdir"
                 ELSE IF r.op = "rename" /\ a = r.nm2 THEN "made"
                 ELSE "none"

\* History of a change of the daemon's from fs to d by request r.
Changed(r, d, gaveup) ==
    /\ cause' = [a \in Names |->
                   IF d.dir[a] = fs.dir[a] \/ (Wrong(a) /\ cause[a] # "none") THEN cause[a]
                   ELSE IF gaveup THEN "abandoned" ELSE CauseOf(r, a)]
    /\ tag' = [n \in Nodes |->
                 IF d.ver[n] = fs.ver[n] /\ d.size[n] = fs.size[n] THEN tag[n]
                 ELSE tag[n] \cup (IF gaveup THEN {"abandoned"}
                                   ELSE IF n \notin Locks(r) THEN {"moved"}
                                   ELSE IF r.op = "rename" THEN {"replaced"} ELSE {})]

Overtake(T, d) == [t \in Threads |->
    [T[t] EXCEPT !.over = @ \/ (thr[t].pc = "done" /\ \E a \in Names :
                                   a \in {T[t].nm, T[t].nm2} /\ d.dir[a] # fs.dir[a])]]

Serve(t) ==
  LET r == thr[t]
  IN /\ r.pc = "sent"
     /\ \E out \in Exec(fs, r) \cup {<<fs, Fail>>} :
          /\ fs' = out[1]
          /\ thr' = Overtake([thr EXCEPT ![t] = [r EXCEPT !.pc = "done", !.ans = out[2]]], out[1])
          /\ Changed(r, out[1], FALSE)
     /\ UNCHANGED <<sync, kern, flight, lock, late, ops, signals>>

\* The daemon executes a request that nobody waits for.
ServeLate(r) ==
    /\ late' = late \ {r}
    /\ \E out \in Exec(fs, r) \cup {<<fs, Fail>>} :
         /\ fs' = out[1]
         /\ thr' = Overtake(thr, out[1])
         /\ Changed(r, out[1], TRUE)
    /\ UNCHANGED <<sync, kern, flight, lock, ops, signals>>

\* A signal interrupts fuse_ticket_wait_answer before the daemon has taken up the
\* request, or when it has executed it.
Interrupt(t) ==
  LET r == thr[t]
  IN /\ r.pc \in {"sent", "done"} /\ signals < MaxSignals
     /\ ~(r.op = "write" /\ Cached(r.vp) /\ ~r.iosync)
     /\ signals' = signals + 1
     /\ thr' = [thr EXCEPT ![t] = [r EXCEPT !.pc = "done", !.ans = Fail]]
     /\ late' = IF r.pc = "sent" /\ r.stage = "run" /\ r.op # "getattr" THEN late \cup {r} ELSE late
     /\ IF r.pc = "done" /\ r.stage = "run" /\ r.ans.ok
        THEN /\ cause' = [a \in Names |-> IF a \in {r.nm, r.nm2} THEN "abandoned" ELSE cause[a]]
             /\ tag' = [n \in Nodes |-> IF r.op \in {"link", "truncate", "write", "exchange"} /\ n \in {r.vp, r.vp2}
                                        THEN tag[n] \cup {"abandoned"} ELSE tag[n]]
        ELSE UNCHANGED <<cause, tag>>
     /\ UNCHANGED <<sync, fs, kern, flight, lock, ops>>

---------------------------------------------------------------------------
\* The operations after their answer

\* Mutant: create keeps the negative entries.
CreateEndKeepsNegatives(r) ==
    /\ r.op = "create"
    /\ \/ /\ r.ans.ok
          /\ \E early \in {e \in BOOLEAN : e => r.ans.node \notin kern.vn} :
               kern' = Vget(kern, r.ans, early) /\ tag' = Tagged(r.ans.node, VgetTags(r.ans, early))
       \/ ~r.ans.ok /\ UNCHANGED <<kern, tag>>
    /\ UNCHANGED cause

\* fuse_vnop_create: a vnode, but neither its name nor its attributes are cached.  An
\* entry that fuse_internal_checkentry refuses, or no vnode for it, is the end of it
\* before the negative entries are purged.
CreateEnd(r) ==
    /\ r.op = "create"
    /\ \/ /\ r.ans.ok
          /\ \E early \in {e \in BOOLEAN : e => r.ans.node \notin kern.vn} :
               /\ kern' = PurgeNegatives(Vget(kern, r.ans, early))
               /\ tag' = Tagged(r.ans.node, VgetTags(r.ans, early))
          /\ UNCHANGED cause
       \/ /\ r.ans.ok
          /\ cause' = [cause EXCEPT ![r.nm] = IF kern.names[r.nm] = "negative" THEN "refused" ELSE @]
          /\ UNCHANGED <<kern, tag>>
       \/ ~r.ans.ok /\ UNCHANGED <<kern, cause, tag>>

\* fuse_internal_newentry_core, for fuse_vnop_mkdir, _mknod and _symlink; it fails
\* without an answer, with an entry that is refused or without a vnode.
NewentryEnd(r) ==
    /\ r.op = "newentry"
    /\ \/ /\ r.ans.ok
          /\ kern' = CacheAttrs(Enter(Vget(kern, r.ans, FALSE), r, r.ans.node), r.ans.node, r.ans)
          /\ cause' = EnterCause(r)
          /\ tag' = Tagged(r.ans.node, VgetTags(r.ans, FALSE))
       \/ UNCHANGED <<kern, cause, tag>>

\* Mutant: remove purges the names only before its request, as rmdir does.
RemoveEndOnce(r) ==
    r.op = "remove" /\ kern' = Invalidate(kern, {r.vp}) /\ UNCHANGED <<cause, tag>>

\* fuse_vnop_remove and fuse_internal_remove, whose vnode_iterate also invalidates
\* the files that are believed to have as many links as one with several.
RemoveEnd(r) ==
    /\ r.op = "remove"
    /\ \/ ~r.ans.ok /\ kern' = Invalidate(kern, {r.vp})
       \/ r.ans.ok /\ \E alike \in SUBSET (kern.vn \cap Files) : kern' = Invalidate(Purge(kern, {r.vp}), {r.vp} \cup alike)
    /\ UNCHANGED <<cause, tag>>

\* fuse_vnop_rmdir does not purge a second time.
RmdirEnd(r) ==
    /\ r.op = "rmdir"
    /\ kern' = Invalidate(kern, {r.vp})
    /\ UNCHANGED <<cause, tag>>

\* fuse_vnop_rename: the target's names go whatever the answer, and all names of
\* the directory when a directory has been renamed.
RenameEnd(r) ==
    /\ r.op = "rename"
    /\ kern' = IF r.vp \in Subdirs THEN PurgeDir(kern) ELSE Purge(kern, {r.vp2} \ {r.vp})
    /\ UNCHANGED <<cause, tag>>

\* fuse_vnop_link
LinkEnd(r) ==
    /\ r.op = "link"
    /\ kern' = IF r.ans.ok THEN Invalidate(kern, {r.vp}) ELSE kern
    /\ UNCHANGED <<cause, tag>>

\* fuse_vnop_getattr; an answer of ENOENT purges the names of the vnode.
GetattrEnd(r) ==
    /\ r.op = "getattr"
    /\ \/ /\ r.ans.ok
          /\ LoadVapReady(CacheAttrs(kern, r.vp, r.ans), r.vp)
          /\ kern' = Fudge(LoadVap(CacheAttrs(kern, r.vp, r.ans), r.vp), r.vp, Fat2Vat(kern, r.vp, r.ans).size)
       \/ ~r.ans.ok /\ \E gone \in BOOLEAN : kern' = IF gone THEN Purge(kern, {r.vp}) ELSE kern
    /\ UNCHANGED <<cause, tag>>

\* Mutant: a setattr that fails keeps the attributes.
SetattrEndKeeps(r) ==
    /\ r.op \in {"chmod", "truncate"}
    /\ \/ ~r.ans.ok /\ UNCHANGED kern
       \/ r.ans.ok /\ r.op = "chmod" /\ kern' = CacheAttrs(kern, r.vp, r.ans)
       \/ /\ r.ans.ok /\ r.op = "truncate" /\ flight[r.vp] = 0
          /\ kern' = [Invalidate(kern, {r.vp}) EXCEPT !.filesize[r.vp] = r.end,
                                                      !.dirty[r.vp] = Min({@, r.end})]
    /\ UNCHANGED <<cause, tag>>

\* fuse_vnop_setattr; ubc_setsize waits for the pages that are being paged out.
SetattrEnd(r) ==
    /\ r.op \in {"chmod", "truncate"}
    /\ \/ ~r.ans.ok /\ kern' = Invalidate(kern, {r.vp})
       \/ r.ans.ok /\ r.op = "chmod" /\ kern' = CacheAttrs(kern, r.vp, r.ans)
       \/ /\ r.ans.ok /\ r.op = "truncate" /\ flight[r.vp] = 0
          /\ kern' = [Invalidate(kern, {r.vp}) EXCEPT !.filesize[r.vp] = r.end,
                                                      !.dirty[r.vp] = Min({@, r.end})]
    /\ UNCHANGED <<cause, tag>>

\* Mutant: a write keeps the attributes.
WriteEndKeeps(r) ==
    /\ r.op = "write"
    /\ \/ /\ r.ans.ok
          /\ kern' = IF Cached(r.vp)
                     THEN [kern EXCEPT !.filesize[r.vp] = Max({r.size, r.end}),
                                       !.dirty[r.vp] = IF r.iosync THEN @ ELSE Max({@, r.end})]
                     ELSE kern
          /\ UNCHANGED tag
       \/ ~r.ans.ok /\ tag' = Tagged(r.vp, {"failed"}) /\ UNCHANGED kern
    /\ UNCHANGED cause

\* fuse_vnop_write; a write that fails leaves the larger filesize and the attributes.
WriteEnd(r) ==
    /\ r.op = "write"
    /\ \/ /\ r.ans.ok
          /\ kern' = IF Cached(r.vp)
                     THEN [Invalidate(kern, {r.vp}) EXCEPT !.filesize[r.vp] = Max({r.size, r.end}),
                                                           !.dirty[r.vp] = IF r.iosync THEN @ ELSE Max({@, r.end})]
                     ELSE Invalidate(kern, {r.vp})
          /\ UNCHANGED tag
       \/ /\ ~r.ans.ok
          /\ tag' = Tagged(r.vp, {"failed"})
          /\ UNCHANGED kern
    /\ UNCHANGED cause

\* fuse_internal_exchange
ExchangeEnd(r) ==
    /\ r.op = "exchange"
    /\ \/ /\ r.ans.ok
          /\ kern' = [Purge(Invalidate(kern, {r.vp, r.vp2}), {r.vp, r.vp2}) EXCEPT
                       !.filesize = [@ EXCEPT ![r.vp] = kern.filesize[r.vp2], ![r.vp2] = kern.filesize[r.vp]]]
          /\ tag' = [n \in Nodes |-> IF n \in {r.vp, r.vp2}
                                     THEN tag[r.vp] \cup tag[r.vp2]
                                            \cup (IF {r.vp, r.vp2} \cap kern.direct # {} THEN {"direct"} ELSE {})
                                     ELSE tag[n]]
       \/ ~r.ans.ok /\ UNCHANGED <<kern, tag>>
    /\ UNCHANGED cause

End(t) ==
  LET r == thr[t]
  IN /\ r.pc = "done" /\ r.stage = "run"
     /\ \/ CreateEnd(r) \/ NewentryEnd(r) \/ RemoveEnd(r) \/ RmdirEnd(r) \/ RenameEnd(r) \/ LinkEnd(r)
        \/ GetattrEnd(r) \/ SetattrEnd(r) \/ WriteEnd(r) \/ ExchangeEnd(r)
     /\ thr' = [thr EXCEPT ![t] = IdleThread]
     /\ Release(t)
     /\ UNCHANGED <<sync, fs, flight, late, ops, signals>>

---------------------------------------------------------------------------
\* What happens without a system call

\* xnu pages dirty pages out; fuse_vnop_pageout takes no node lock.
Pageout(n) ==
    /\ kern.dirty[n] > 0 /\ flight[n] = 0
    /\ flight' = [flight EXCEPT ![n] = kern.dirty[n]]
    /\ kern' = [kern EXCEPT !.dirty[n] = 0]
    /\ UNCHANGED <<sync, fs, lock, thr, late, ops, signals, cause, tag>>

\* Pages of file n that reach the daemon now make attributes old: valid ones, or ones
\* of an answer that has yet to be used.
Outdates(n) == \/ kern.valid[n]
               \/ \E t \in Threads : thr[t].pc = "done" /\ thr[t].stage = "run" /\ thr[t].vp = n /\ thr[t].ans.ok

\* fuse_internal_strategy: the daemon has the pages.  Nothing invalidates the
\* attributes.
PageoutEnd(n) ==
    /\ flight[n] > 0
    /\ flight' = [flight EXCEPT ![n] = 0]
    /\ fs' = Written(fs, n, flight[n])
    /\ tag' = Tagged(n, (IF Outdates(n) THEN {"paged"} ELSE {})
                          \cup (IF \E t \in Threads : /\ thr[t].pc = "done" /\ thr[t].op = "truncate"
                                                      /\ thr[t].vp = n /\ thr[t].ans.ok
                                THEN {"crossed"} ELSE {}))
    /\ UNCHANGED <<sync, kern, lock, thr, late, ops, signals, cause>>

\* fuse_internal_strategy fails; xnu drops the pages or keeps them dirty.  The daemon
\* may have got some of them (that it gets them again and again is left out).
PageoutFails(n) ==
    /\ flight[n] > 0
    /\ flight' = [flight EXCEPT ![n] = 0]
    /\ \/ \E e \in {0, flight[n]} : kern' = [kern EXCEPT !.dirty[n] = Max({@, e})] /\ UNCHANGED fs
       \/ fs' = Written(fs, n, flight[n]) /\ UNCHANGED kern
    /\ tag' = Tagged(n, {"failed"})
    /\ UNCHANGED <<sync, lock, thr, late, ops, signals, cause>>

\* fuse_vnop_open, under the node's lock, of a file that the daemon wants opened with
\* FOPEN_DIRECT_IO: the file's pages are pushed, fuse_clearnosyncwrites_mp makes the
\* whole mount synchronous, and the file has FN_DIRECT_IO.
Open(n) ==
    /\ n \in kern.vn \cap Direct /\ n \notin kern.direct
    /\ lock[n] = NULL /\ Clean(n)
    /\ sync' = TRUE
    /\ kern' = [kern EXCEPT !.direct = @ \cup {n}]
    /\ UNCHANGED <<fs, flight, lock, thr, late, ops, signals, cause, tag>>

\* attr_valid is over, or a release, a readlink, a change of an extended attribute
\* or an open with FOPEN_PURGE_ATTR has cleared it.
Expire(n) ==
    /\ kern.valid[n]
    /\ kern' = Invalidate(kern, {n})
    /\ UNCHANGED <<sync, fs, flight, lock, thr, late, ops, signals, cause, tag>>

\* Mutant: the names of a reclaimed vnode stay in the cache.
ReclaimKeepsNames(n) ==
    /\ n \in kern.vn /\ kern.dirty[n] = 0 /\ flight[n] = 0
    /\ \A t \in Threads : n \notin {thr[t].vp, thr[t].vp2}
    /\ kern' = [Invalidate(kern, {n}) EXCEPT !.vn = @ \ {n}, !.filesize[n] = 0, !.va[n] = Blank,
                 !.direct = @ \ {n}]
    /\ UNCHANGED <<sync, fs, flight, lock, thr, late, ops, signals, cause, tag>>

\* fuse_vnop_reclaim of a vnode that nobody uses and whose pages are clean.
Reclaim(n) ==
    /\ n \in kern.vn /\ kern.dirty[n] = 0 /\ flight[n] = 0
    /\ \A t \in Threads : n \notin {thr[t].vp, thr[t].vp2}
    /\ kern' = [Purge(Invalidate(kern, {n}), {n}) EXCEPT !.vn = @ \ {n}, !.filesize[n] = 0, !.va[n] = Blank,
                 !.direct = @ \ {n}]
    /\ UNCHANGED <<sync, fs, flight, lock, thr, late, ops, signals, cause, tag>>

Init ==
    /\ sync \in BOOLEAN
    /\ fs \in [dir : {d \in [Names -> Nodes \cup {NULL}] : \A a, b \in Names : d[a] = d[b] => a = b \/ d[a] = NULL},
               size : {[n \in Nodes |-> 0]}, ver : {[n \in Nodes |-> 1]}, made : SUBSET Nodes]
    /\ fs.made = Linked(fs)
    /\ \E c \in BOOLEAN :
         kern = [names |-> [a \in Names |-> IF ~c THEN "miss" ELSE IF fs.dir[a] = NULL THEN "negative" ELSE fs.dir[a]],
                 vn |-> Linked(fs), filesize |-> [n \in Nodes |-> 0],
                 va |-> [n \in Nodes |-> [Blank EXCEPT !.ver = IF n \in Linked(fs) THEN 1 ELSE 0]],
                 valid |-> [n \in Nodes |-> n \in Linked(fs)], dirty |-> [n \in Nodes |-> 0], direct |-> {}]
    /\ flight = [n \in Nodes |-> 0]
    /\ lock = [x \in Nodes \cup {Dvp} |-> NULL]
    /\ thr = [t \in Threads |-> IdleThread]
    /\ late = {} /\ ops = 0 /\ signals = 0
    /\ cause = [a \in Names |-> "none"] /\ tag = [n \in Nodes |-> {}]

Next ==
    \/ \E t \in Threads : Start(t) \/ Continue(t) \/ FindEnd(t) \/ FindFailed(t) \/ Serve(t) \/ Interrupt(t) \/ End(t)
    \/ \E r \in late : ServeLate(r)
    \/ \E n \in Nodes : Pageout(n) \/ PageoutEnd(n) \/ PageoutFails(n) \/ Open(n) \/ Expire(n) \/ Reclaim(n)

Spec == Init /\ [][Next]_vars

---------------------------------------------------------------------------
\* Properties

\* The caches have their types: every cached name and every valid attribute is a
\* vnode's, the files with FN_DIRECT_IO are in a synchronous mount, and a lock is
\* held by the operation that took it, and only by one.
TypeOK ==
    /\ fs.dir \in [Names -> fs.made \cup {NULL}] /\ fs.size \in [Nodes -> Sizes]
    /\ kern.names \in [Names -> kern.vn \cup {"miss", "negative"}]
    /\ kern.filesize \in [Nodes -> Sizes] /\ kern.dirty \in [Nodes -> Sizes] /\ flight \in [Nodes -> Sizes]
    /\ kern.direct \subseteq kern.vn \cap Direct /\ (kern.direct # {} => sync)
    /\ \A n \in Nodes : kern.valid[n] \/ kern.dirty[n] > 0 \/ flight[n] > 0 => n \in kern.vn
    /\ \A t \in Threads : {x \in DOMAIN lock : lock[x] = t}
                            = IF thr[t].pc \in {"sent", "done"} THEN Locks(thr[t]) ELSE {}

\* An operation will still purge the names of vnode v.
ToPurge(v) == \E t \in Threads : /\ thr[t].pc = "done" /\ thr[t].stage = "run" /\ thr[t].op \in {"remove", "rename"}
                                 /\ v \in {thr[t].vp, thr[t].vp2}

\* The name cache leads to another node than the daemon's only when the answer to
\* its lookup was overtaken, a vnode found earlier was no longer what the name
\* meant, fuse_vnop_rmdir (which purges only before its request) removed the name,
\* or a signal made the operation give up.  In particular fuse_vnop_rename and
\* fuse_vnop_remove leave no such name.
PositiveNames ==
    \A a \in Names : Wrong(a) /\ ~ToPurge(kern.names[a]) => cause[a] \in {"overtaken", "moved", "rmdir", "abandoned"}

\* The name cache denies a name the daemon has only when the answer was overtaken,
\* the name was made by an operation that does not purge negative entries (mkdir,
\* mknod, symlink, link, rename), a signal made it give up, or fuse_vnop_create had
\* to refuse the entry or got no vnode for it: a create that succeeds leaves no such
\* name.
NegativeNames ==
    \A a \in Names :
        /\ kern.names[a] = "negative" /\ fs.dir[a] # NULL
        /\ ~\E t \in Threads : thr[t].pc = "done" /\ thr[t].op = "create" /\ thr[t].nm = a
        => cause[a] \in {"overtaken", "moved", "made", "refused", "abandoned"}

\* Valid attributes of a vnode nobody has locked are the daemon's, unless they came
\* with a lookup's answer that was overtaken (it does not hold the node's lock), or
\* never came (a new vnode's timeout longer than the uptime), or the node changed
\* without its lock or as the target of a rename, or pages reached the daemon after
\* its answer (fuse_internal_strategy invalidates nothing), or a write or page-out
\* failed halfway, or a signal was involved.
AttrExplained ==
    \A n \in kern.vn : kern.valid[n] /\ lock[n] = NULL /\ kern.va[n].ver # fs.ver[n]
                       => tag[n] \cap {"overtaken", "blank", "moved", "replaced", "paged", "failed", "abandoned"} # {}

\* The size of a file nobody has locked is the daemon's or the end of the pages the
\* daemon has yet to get, unless a write or a page-out failed, a page-out crossed a
\* truncation, the vnode was made or (synchronous mounts) its size taken from an
\* answer that was overtaken, it was exchanged with a file of FOPEN_DIRECT_IO,
\* whose filesize lags behind, or a signal was involved, or pages reached the daemon
\* after its answer and the mount is synchronous by now (an open of another file
\* with FOPEN_DIRECT_IO makes it so while pages are dirty).
SizeAgrees ==
    \A n \in (kern.vn \cap Files) \ kern.direct :
        /\ lock[n] = NULL
        /\ kern.filesize[n] # Max({fs.size[n], kern.dirty[n], flight[n]})
        => (sync /\ "paged" \in tag[n]) \/ tag[n] \cap {"failed", "crossed", "overtaken", "blank", "direct", "abandoned"} # {}

=============================================================================
