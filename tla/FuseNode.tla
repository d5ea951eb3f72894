------------------------------ MODULE FuseNode ------------------------------
(***************************************************************************)
(* The vnodes of one mounted file system: nodes_head, which finds the      *)
(* vnode of a node the daemon names; lookup and the operations that make   *)
(* entries; reclaim; and the account of lookups that nlookup and FORGET    *)
(* keep with the daemon.                                                   *)
(*                                                                         *)
(* Every operation runs with the biglock (locked_vnop and its variants),   *)
(* which is released while it waits for the daemon and inside              *)
(* vnode_create, so one action is the code between two such places.  Names *)
(* are left out: the daemon answers a lookup with any node.  An answer is  *)
(* one action with the code that looks at it; what comes between can delay *)
(* it.  A vnode that an operation returns is in use as long as its caller  *)
(* likes: xnu may recycle any that no operation is using, or never.  So a  *)
(* lookup that the name cache answers, or of "." or "..", changes nothing. *)
(* Attributes, tickets and file handles are not in this module.            *)
(***************************************************************************)
EXTENDS Integers, FiniteSets

CONSTANTS
    Threads,      \* threads that make system calls
    Vnodes,       \* addresses of vnodes
    Rootvp,       \* data->rootvp
    NULLVP,
    Nodes,        \* node ids the daemon gives to files
    FUSE_ROOT_ID, FUSE_NULL_ID,
    Attrs,        \* [type, gen]: the attributes the daemon may answer with
    MaxLookups    \* bound: lookups of a node that the daemon has not forgotten

NodeIds == Nodes \cup {FUSE_ROOT_ID, FUSE_NULL_ID}
VTypes  == {"VDIR", "VREG", "VNON"}

ASSUME NodeAssumption ==
    /\ Rootvp \in Vnodes /\ NULLVP \notin Vnodes
    /\ FUSE_ROOT_ID \notin Nodes /\ FUSE_NULL_ID \notin Nodes /\ FUSE_ROOT_ID # FUSE_NULL_ID
    /\ \A a \in Attrs : a.type \in VTypes /\ a.gen \in Nat
    /\ MaxLookups \in Nat

VARIABLES
    vnode,      \* the vnode at each address and its fuse_vnode_data
    nodes_head, \* data->nodes_head: the vnode RB_FIND finds for a node
    ncache,     \* xnu's name cache: pairs of a directory and a vnode in it
    thr,        \* control and locals of each thread
    dead,       \* fuse_isdeadfs
    daemon,     \* lookups of each node that the daemon counts
    forgets,    \* lookups in FORGET messages the daemon has not read
    releasing,  \* RELEASE messages with fuse_internal_forget_callback
    lost        \* ghost: lookups that the kext never accounts for

vars == <<vnode, nodes_head, ncache, thr, dead, daemon, forgets, releasing, lost>>
account == <<daemon, forgets, releasing, lost>>

\* state: "free"; "new": in vnode_create; "live"; "dying": xnu is about to
\* call VNOP_RECLAIM.  linked: RB_INSERT put the fuse_vnode_data in the tree.
NoVnode == [state |-> "free", nodeid |-> FUSE_NULL_ID, type |-> "VNON", gen |-> 0,
            nlookup |-> 0, parentvp |-> NULLVP, linked |-> FALSE]

NewVnode(feo, dvp) ==
    [NoVnode EXCEPT !.state = "new", !.nodeid = feo.nodeid, !.type = feo.type,
                    !.gen = feo.gen, !.parentvp = dvp]

NoEntry == [nodeid |-> FUSE_NULL_ID, type |-> "VNON", gen |-> 0]

\* dvp, vp: the directory and the vnode of the operation;
\* feo: the entry that vnode_create makes a vnode for
IdleThread == [pc |-> "idle", op |-> "none", dvp |-> NULLVP, vp |-> NULLVP,
               feo |-> NoEntry]

\* after the mount: fuse_vfsop_root made the root, and vnode_ref keeps it
Init ==
    /\ vnode = [v \in Vnodes |-> IF v = Rootvp
                  THEN [NoVnode EXCEPT !.state = "live", !.nodeid = FUSE_ROOT_ID, !.type = "VDIR",
                                       !.parentvp = Rootvp, !.linked = TRUE]
                  ELSE NoVnode]
    /\ nodes_head = [n \in NodeIds |-> IF n = FUSE_ROOT_ID THEN Rootvp ELSE NULLVP]
    /\ ncache = {}
    /\ thr = [t \in Threads |-> IdleThread]
    /\ dead = FALSE
    /\ daemon = [n \in Nodes |-> 0] /\ forgets = daemon /\ releasing = daemon /\ lost = daemon

-----------------------------------------------------------------------------

At(t, l) == thr[t].pc = l
Live(v) == vnode[v].state = "live"
IsDir(v) == vnode[v].type = "VDIR"

\* the vnode t has the node lock of: link locks the file, not the directory
Lock(t) == IF thr[t].op = "link" THEN thr[t].vp ELSE thr[t].dvp

Unlocked(v) == \A t \in Threads : v # Lock(t)

\* vnode_get, vnode_create's v_parent and the VFS's own references keep v
InUse(v) ==
    \/ v = Rootvp
    \/ \E t \in Threads : v \in {thr[t].dvp, thr[t].vp}
    \/ \E u \in Vnodes : vnode[u].parentvp = v

\* cache_purge
Purge(c, v) == {e \in c : v \notin {e[1], e[2]}}

\* fuse_internal_forget_send: one way, nobody waits for it; not sent in a
\* dead session, where reclaim does not call it
ForgetSend(n, k) == forgets' = [forgets EXCEPT ![n] = IF dead THEN @ ELSE @ + k]

Ends(t) == thr' = [thr EXCEPT ![t] = IdleThread]

-----------------------------------------------------------------------------
(* The operations up to their message *)

\* nodelocked_vnop and the test of fuse_isdeadfs
Begins(t, op, d, v) ==
    /\ At(t, "idle") /\ ~dead
    /\ Live(d) /\ IsDir(d) /\ (v # NULLVP => Live(v))
    /\ thr' = [thr EXCEPT ![t] = [IdleThread EXCEPT !.pc = "sent", !.op = op, !.dvp = d, !.vp = v]]
    /\ UNCHANGED <<vnode, nodes_head, ncache, dead, account>>

\* fuse_vnop_lookup of a name that cache_lookup does not have
Lookup(t, d) == Unlocked(d) /\ Begins(t, "lookup", d, NULLVP)

\* fuse_internal_newentry: the answer to MKDIR, MKNOD or SYMLINK is treated
\* as that to LOOKUP, but for its type, which is left out
Newentry(t, d) == Unlocked(d) /\ Begins(t, "lookup", d, NULLVP)
Mkdir(t, d) == Newentry(t, d)
Mknod(t, d) == Newentry(t, d)
Symlink(t, d) == Newentry(t, d)

\* fuse_vnop_create with CREATE, or with MKNOD if the daemon has no CREATE
Create(t, d) == Unlocked(d) /\ \E op \in {"create", "good_old"} : Begins(t, op, d, NULLVP)

Link(t, d, v) == Unlocked(v) /\ ~IsDir(v) /\ Begins(t, "link", d, v)

-----------------------------------------------------------------------------
(* Answers without an entry *)

\* an error, a signal, a dead session, or an entry with the id of no node or
\* of the root, which lookup and fuse_internal_checkentry refuse
AnswerError(t) ==
    /\ At(t, "sent") /\ Ends(t)
    /\ UNCHANGED <<vnode, nodes_head, ncache, dead, account>>

-----------------------------------------------------------------------------
(* Answers with an entry *)

\* The daemon answers t with an entry, which is a lookup of node n.  It
\* answers LINK with the node that was linked.
Answers(t, n) ==
    /\ At(t, "sent") /\ ~dead
    /\ thr[t].op = "link" => n = vnode[thr[t].vp].nodeid
    /\ daemon[n] < MaxLookups
    /\ daemon' = [daemon EXCEPT ![n] = @ + 1]

\* The type of the entry is right (fuse_internal_checkentry).  Lookup takes
\* any, and which one mkdir, mknod or symlink wants is left out.
CheckEntry(t, feo) ==
    CASE thr[t].op = "lookup" -> TRUE
      [] thr[t].op = "link" -> feo.type = vnode[thr[t].vp].type
      [] OTHER -> feo.type = "VREG"

\* The kext drops the answer: it came after a signal, or the entry is
\* refused.  The daemon keeps its lookup.
Refused(t, n) ==
    /\ Answers(t, n)
    /\ lost' = [lost EXCEPT ![n] = @ + 1]
    /\ Ends(t)
    /\ UNCHANGED <<vnode, nodes_head, ncache, dead, forgets, releasing>>

\* link counts the lookup for the vnode it was given
Linked(t, feo) ==
    /\ Answers(t, feo.nodeid) /\ thr[t].op = "link" /\ CheckEntry(t, feo)
    /\ vnode' = [vnode EXCEPT ![thr[t].vp].nlookup = @ + 1]
    /\ Ends(t)
    /\ UNCHANGED <<nodes_head, ncache, dead, forgets, releasing, lost>>

\* mutant: the error exit of CREATE sends a FORGET of its own as well
GivesUpTwice(t, n) ==
    /\ IF thr[t].op = "create"
       THEN releasing' = [releasing EXCEPT ![n] = @ + 1]
       ELSE UNCHANGED releasing
    /\ ForgetSend(n, 1)
    /\ Ends(t)
    /\ UNCHANGED <<lost, dead>>

\* The operation gives up a lookup of n: with FORGET, but after CREATE with
\* a RELEASE whose answer sends the FORGET
GivesUp(t, n) ==
    /\ IF thr[t].op = "create"
       THEN releasing' = [releasing EXCEPT ![n] = @ + 1] /\ UNCHANGED forgets
       ELSE ForgetSend(n, 1) /\ UNCHANGED releasing
    /\ Ends(t)
    /\ UNCHANGED <<lost, dead>>

\* fuse_vget_i, and for create FSNodeGetOrCreateFileVNodeByID alone: create
\* neither counts the lookup nor enters the name.  MAKEENTRY is the caller's.
Given(t, v, vn) ==
    LET counts == thr[t].op \notin {"create", "good_old"} IN
    /\ vnode' = [vnode EXCEPT ![v] = [vn EXCEPT !.nlookup = IF counts THEN @ + 1 ELSE @]]
    /\ lost' = [lost EXCEPT ![vn.nodeid] = IF counts THEN @ ELSE @ + 1]
    /\ \/ UNCHANGED ncache
       \/ counts /\ ncache' = ncache \cup {<<thr[t].dvp, v>>}
    /\ Ends(t)
    /\ UNCHANGED <<dead, forgets, releasing>>

\* lookup refuses an entry without a type, and forgets it
NoMode(t, feo) ==
    /\ Answers(t, feo.nodeid) /\ thr[t].op = "lookup" /\ CheckEntry(t, feo)
    /\ feo.type = "VNON"
    /\ GivesUp(t, feo.nodeid)
    /\ UNCHANGED <<vnode, nodes_head, ncache>>

Gets(t, feo) ==
    /\ Answers(t, feo.nodeid) /\ thr[t].op # "link" /\ CheckEntry(t, feo) /\ feo.type # "VNON"

\* RB_FIND and vnode_getwithvid, which fails for a vnode being reclaimed
Found(n) == nodes_head[n] # NULLVP /\ Live(nodes_head[n])

Same(vn, feo) == vn.type = feo.type /\ vn.gen = feo.gen

GetFound(t, feo) ==
    LET v == nodes_head[feo.nodeid] IN
    /\ Gets(t, feo) /\ Found(feo.nodeid) /\ Same(vnode[v], feo)
    /\ Given(t, v, vnode[v])
    /\ UNCHANGED nodes_head

\* mutant: the lookup of a vnode that changed is not given back
GetStaleKept(t, feo) ==
    /\ Gets(t, feo) /\ Found(feo.nodeid) /\ ~Same(vnode[nodes_head[feo.nodeid]], feo)
    /\ ncache' = Purge(ncache, nodes_head[feo.nodeid])
    /\ Ends(t)
    /\ UNCHANGED <<vnode, nodes_head, forgets, releasing, lost, dead>>

\* "vnode changed type behind us", "vnode changed generation"
GetStale(t, feo) ==
    LET v == nodes_head[feo.nodeid] IN
    /\ Gets(t, feo) /\ Found(feo.nodeid) /\ ~Same(vnode[v], feo)
    /\ ncache' = Purge(ncache, v)
    /\ GivesUp(t, feo.nodeid)
    /\ UNCHANGED <<vnode, nodes_head>>

\* otherwise vnode_create, for which the biglock is released
GetNew(t, feo, v) ==
    /\ Gets(t, feo) /\ ~Found(feo.nodeid)
    /\ vnode[v].state = "free"
    /\ vnode' = [vnode EXCEPT ![v] = NewVnode(feo, thr[t].dvp)]
    /\ thr' = [thr EXCEPT ![t].pc = "create", ![t].vp = v, ![t].feo = feo]
    /\ UNCHANGED <<nodes_head, ncache, dead, forgets, releasing, lost>>

\* RB_INSERT leaves the tree alone if it has the node; nobody looks at what it
\* returns
RbInsert(h, n, v) == IF h[n] = NULLVP THEN [h EXCEPT ![n] = v] ELSE h

Created(t) ==
    LET v == thr[t].vp
        n == thr[t].feo.nodeid IN
    /\ At(t, "create")
    /\ nodes_head' = RbInsert(nodes_head, n, v)
    /\ Given(t, v, [vnode[v] EXCEPT !.state = "live", !.linked = nodes_head'[n] = v])
    /\ UNCHANGED daemon

CreateFail(t) ==
    /\ At(t, "create")
    /\ vnode' = [vnode EXCEPT ![thr[t].vp] = NoVnode]
    /\ GivesUp(t, thr[t].feo.nodeid)
    /\ UNCHANGED <<nodes_head, ncache, daemon>>

-----------------------------------------------------------------------------
(* The end of a vnode *)

\* xnu recycles a vnode nobody refers to
Terminate(v) ==
    /\ Live(v) /\ ~InUse(v)
    /\ vnode' = [vnode EXCEPT ![v].state = "dying"]
    /\ UNCHANGED <<nodes_head, ncache, thr, dead, account>>

\* Entries that RB_INSERT put in and RB_FIND no longer finds
Orphans == {v \in Vnodes : vnode[v].linked /\ nodes_head[vnode[v].nodeid] # v}

\* RB_REMOVE.  An entry that was never put in has null links, as only the root
\* of a tree with one entry does: the root is set to null.  An entry of a tree
\* that lost its root so changes whatever its links lead to.
RbRemove(h, v) ==
    IF h[vnode[v].nodeid] = v THEN {[h EXCEPT ![vnode[v].nodeid] = NULLVP]}
    ELSE IF ~vnode[v].linked THEN {[n \in NodeIds |-> NULLVP]}
    ELSE {g \in [NodeIds -> Vnodes \cup {NULLVP}] : \A n \in NodeIds :
            g[n] \in {NULLVP, h[n]} \cup {u \in Orphans \ {v} : vnode[u].nodeid = n}}

\* mutants: reclaim does not purge the names of the vnode; does not take it out
\* of the tree; does so only if the session is not dead
ReclaimNamed(v) ==
    /\ vnode[v].state = "dying"
    /\ ForgetSend(vnode[v].nodeid, vnode[v].nlookup)
    /\ nodes_head' \in RbRemove(nodes_head, v)
    /\ vnode' = [vnode EXCEPT ![v] = NoVnode]
    /\ UNCHANGED <<ncache, thr, dead, daemon, releasing, lost>>
ReclaimLinked(v) ==
    /\ vnode[v].state = "dying"
    /\ ForgetSend(vnode[v].nodeid, vnode[v].nlookup)
    /\ ncache' = Purge(ncache, v)
    /\ vnode' = [vnode EXCEPT ![v] = NoVnode]
    /\ UNCHANGED <<nodes_head, thr, dead, daemon, releasing, lost>>
ReclaimDeadLinked(v) ==
    /\ vnode[v].state = "dying"
    /\ ForgetSend(vnode[v].nodeid, vnode[v].nlookup)
    /\ ncache' = Purge(ncache, v)
    /\ nodes_head' \in IF dead THEN {nodes_head} ELSE RbRemove(nodes_head, v)
    /\ vnode' = [vnode EXCEPT ![v] = NoVnode]
    /\ UNCHANGED <<thr, dead, daemon, releasing, lost>>

\* fuse_vnop_reclaim
Reclaim(v) ==
    /\ vnode[v].state = "dying"
    /\ ForgetSend(vnode[v].nodeid, vnode[v].nlookup)
    /\ ncache' = Purge(ncache, v)
    /\ nodes_head' \in RbRemove(nodes_head, v)
    /\ vnode' = [vnode EXCEPT ![v] = NoVnode]
    /\ UNCHANGED <<thr, dead, daemon, releasing, lost>>

-----------------------------------------------------------------------------
(* The daemon and the session *)

\* the daemon reads the FORGET messages for a node
Forget(n) ==
    /\ forgets[n] > 0
    /\ daemon' = [daemon EXCEPT ![n] = @ - forgets[n]]
    /\ forgets' = [forgets EXCEPT ![n] = 0]
    /\ UNCHANGED <<vnode, nodes_head, ncache, thr, dead, releasing, lost>>

\* mutant: the callback stays on the RELEASE
ForgetCallbackAgain(n) ==
    /\ releasing[n] > 0 /\ ~dead
    /\ ForgetSend(n, 1)
    /\ UNCHANGED <<vnode, nodes_head, ncache, thr, dead, daemon, releasing, lost>>

\* fuse_internal_forget_callback
ForgetCallback(n) ==
    /\ releasing[n] > 0 /\ ~dead
    /\ releasing' = [releasing EXCEPT ![n] = @ - 1]
    /\ ForgetSend(n, 1)
    /\ UNCHANGED <<vnode, nodes_head, ncache, thr, dead, daemon, lost>>

\* fuse_data_kill; nobody keeps the account any more
Die ==
    /\ ~dead /\ dead' = TRUE
    /\ daemon' = [n \in Nodes |-> 0] /\ forgets' = daemon' /\ releasing' = daemon' /\ lost' = daemon'
    /\ UNCHANGED <<vnode, nodes_head, ncache, thr>>

-----------------------------------------------------------------------------

Entries == {[nodeid |-> n, type |-> a.type, gen |-> a.gen] : n \in Nodes, a \in Attrs}

Begin(t) ==
    \E d \in Vnodes :
      \/ Lookup(t, d) \/ Mkdir(t, d) \/ Mknod(t, d) \/ Symlink(t, d) \/ Create(t, d)
      \/ \E v \in Vnodes : Link(t, d, v)

Continue(t) ==
    \/ AnswerError(t)  \/ Created(t) \/ CreateFail(t)
    \/ \E n \in Nodes : Refused(t, n)
    \/ \E feo \in Entries : \/ Linked(t, feo) \/ NoMode(t, feo)
                            \/ GetFound(t, feo) \/ GetStale(t, feo)
                            \/ \E v \in Vnodes : GetNew(t, feo, v)

Next ==
    \/ \E t \in Threads : Begin(t) \/ Continue(t)
    \/ \E v \in Vnodes : Terminate(v) \/ Reclaim(v)
    \/ \E n \in Nodes : ForgetCallback(n) \/ Forget(n)
    \/ Die

Spec == Init /\ [][Next]_vars

-----------------------------------------------------------------------------
(* Properties *)

Pcs == {"idle", "sent", "create"}
Ops == {"none", "lookup", "create", "good_old", "link"}

\* Each variable has its type.  In particular the daemon's count of a node,
\* from which every FORGET is subtracted, is never negative.
TypeOK ==
    /\ vnode \in [Vnodes -> [state : {"free", "new", "live", "dying"}, nodeid : NodeIds, type : VTypes,
                             gen : Nat, nlookup : Nat, parentvp : Vnodes \cup {NULLVP}, linked : BOOLEAN]]
    /\ nodes_head \in [NodeIds -> Vnodes \cup {NULLVP}]
    /\ ncache \subseteq Vnodes \X Vnodes
    /\ thr \in [Threads -> [pc : Pcs, op : Ops, dvp : Vnodes \cup {NULLVP}, vp : Vnodes \cup {NULLVP},
                            feo : [nodeid : NodeIds, type : VTypes, gen : Nat]]]
    /\ dead \in BOOLEAN
    /\ daemon \in [Nodes -> Nat] /\ forgets \in [Nodes -> Nat]
    /\ releasing \in [Nodes -> Nat] /\ lost \in [Nodes -> Nat]

\* operations in vnode_create, each with a lookup of n in hand
InHand(n) == {t \in Threads : At(t, "create") /\ thr[t].feo.nodeid = n}

\* the lookups that vnodes stand for, numbered from 1 to nlookup for each vnode
Counted(n) == UNION {{v} \X (1 .. vnode[v].nlookup) : v \in {u \in Vnodes : vnode[u].nodeid = n}}

\* The account of lookups is right: what the daemon counts for a node is
\* what the vnodes of the node will forget, what is being forgotten, what an
\* operation has in hand, and what was lost at one of three places: create
\* (which never increments nlookup), an entry that fuse_internal_checkentry
\* refuses, an answer after a signal.  No error exit of lookup, newentry or
\* create forgets a lookup twice or not at all, and duplicate vnodes of a node do not matter.
LookupBalance ==
    ~dead => \A n \in Nodes :
        daemon[n] = Cardinality(Counted(n)) + Cardinality(InHand(n)) + forgets[n] + releasing[n] + lost[n]

\* A vnode in use is of a node the daemon still knows when every FORGET
\* under way has reached it: reclaim, a failed lookup and a failed create
\* never forget a node that another operation got.
NodeKnown ==
    ~dead => \A v \in Vnodes \ {Rootvp} :
        Live(v) => daemon[vnode[v].nodeid] > forgets[vnode[v].nodeid] + releasing[vnode[v].nodeid]

\* The tree has no pointer to a fuse_vnode_data that fuse_vnop_reclaim
\* destroyed or that is another node's by now.
TreeCurrent ==
    \A n \in NodeIds : nodes_head[n] # NULLVP =>
        vnode[nodes_head[n]].state \in {"live", "dying"} /\ vnode[nodes_head[n]].nodeid = n

\* Names lead from vnodes to vnodes that exist: a lookup never enters a name
\* that reclaim has purged or is past purging, of the directory or the file.
NamesCurrent ==
    \A e \in ncache : \A v \in {e[1], e[2]} : vnode[v].state \in {"live", "dying"}

\* A step that counts a lookup for vnode v ends the operation of a thread that was
\* answered with the node of v, or that made v for the entry it was answered with.
CountedFor(v) ==
    /\ vnode'[v].state = "live"
    /\ \E t \in Threads : thr[t].pc # "idle" /\ thr'[t].pc = "idle" /\
         IF At(t, "create")
         THEN [nodeid |-> vnode'[v].nodeid, type |-> vnode'[v].type, gen |-> vnode'[v].gen] = thr[t].feo
         ELSE daemon'[vnode'[v].nodeid] > daemon[vnode'[v].nodeid]

CountsRightly == \A v \in Vnodes : vnode'[v].nlookup > vnode[v].nlookup => CountedFor(v)

\* A lookup is counted for a vnode, so returned with one, of the node that the
\* daemon answered (a new one of its type and generation too), although vnodes
\* are recycled, and their addresses used again, while an operation waits for
\* the daemon and for vnode_create.
NodeAskedFor == [][CountsRightly]_vars

\* "map ino->vnode_data" (fuse_ipc.h): a node has one vnode.
OneVnode ==
    \A u, v \in Vnodes : u # v /\ Live(u) /\ Live(v) => vnode[u].nodeid # vnode[v].nodeid
=============================================================================
