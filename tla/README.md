# Verification of the fuse4x kernel extension

TLA+ models of the fuse4x kext (`src/`): the kernel side of FUSE for Mac OS X.
The kext turns VFS calls into request messages, queues them on a character
device, and a user-space daemon reads them and writes answers back.

## Inventory

| Component | Source | State | Operations |
|---|---|---|---|
| Ticket pool | `fuse_ipc.c` 163-231, 448-610 | `freetickets_head`, `alltickets_head`, `freeticket_counter`, `deadticket_counter`, `ticketer`; per ticket `answered`/`invalid`/`dirty`/`killed` | alloc, fetch, drop, kill, refresh, destroy |
| Request/answer IPC | `fuse_ipc.c` 233-346, 612-660, 851-1015 | `ms_head`, `aw_head`, `dead`, `inited` | insert_callback, insert_message, wait_answer, standard callback, dispatcher make/wait, data_kill |
| Handshake, one-way messages | `fuse_internal.c` 1290-1440 | `inited`, `dataflags`, `max_write` | send_init, init_callback, forget_send, interrupt_send |
| Device | `fuse_device.c` | `fuse_device_table`, `usecount`, `fdev->data`, `opened` | open, close, read, write, kill, devices_start/stop |
| Mount | `fuse_vfsops.c` | `mounted`, `mp`, `rootvp`, mount options | mount, unmount, root, getattr, sync, setattr |
| I/O vectors | `fuse_ipc.c` 48-161 | `base`, `len`, `allocated_size`, `credit` | init, adjust, adjust_canfail, refresh, teardown |
| Node table | `fuse_node.c`, reclaim in `fuse_vnops.c` | `nodes_head` rb-tree, `vid`, `generation`, `nlookup` | get-or-create, vget, reclaim, FORGET |
| File handles | `fuse_file.c`, `fuse_file.h`, open/create/close/inactive in `fuse_vnops.c` | `fufh[3].open_count` | get, put, open, close, create, mmap, inactive |
| Vnode operations | `fuse_vnops.c`, `fuse_internal.c` | attribute cache, `filesize`, `noimplflags` | one per vnop |
| Locking | `fuse_locking.c`, `fuse_biglock_vnops.*` | biglock, nodelock, truncatelock | lock, lockpair, lockfour, biglock release around sleeps |
| Sysctl, main, load tool | `fuse_sysctl.c`, `fuse_main.c`, `load_fuse4x.c` | tunables | start/stop, kill sysctl |

### What is hard

IPC:
* `unique` is assigned once per ticket (`fuse_ticket_alloc`), never on reuse: a late
  answer to an interrupted request must not reach the next request on the same ticket.
* Interrupted request (EINTR): requester sets `answered`, leaves WITHOUT dropping; the
  late callback sees `answered` and drops. Exactly one of the two drops.
* Timed-out request (EAGAIN), or `dead` seen in `fuse_ticket_wait_answer`: `answered`
  is set there, the dispatcher sees it and drops, while the ticket is still on
  `aw_head`: a late answer drops it a second time (panic "ticket count mismatch!",
  "ticket reused without being refreshed"), and `fuse_reject_answers` walks freed tickets.
* `fuse_ticket_fetch` sleeps on `ticketer` if `!inited && ticketer > 1`; it does not look at
  `dead`, so a session killed before the sleep never wakes it; `fuse_device_read` sets
  `dead` directly on a short buffer, without any wakeup, and then `fuse_data_kill` is a no-op.
* A signal in that sleep kills the whole session.
* `fuse_internal_init_callback` drops the INIT ticket before `inited` (and before the
  kill when INIT failed): a fetch in that window pops it with `ticketer = 1` and does not sleep.
* `fuse_ticket_drop` tests the free counter, unlocks, refreshes, relocks, pushes (overshoot).
* `fuse_dispatcher_init` clears `dispatcher->ticket`, so `fuse_internal_forget_send` and
  `fuse_internal_interrupt_send` always fetch a new ticket; callers that relied on reuse
  (newentry_core, lookup error exit, create error exit) lose the old one.
* Other callers that lose a ticket in a live session: lookup answered with node 0 or the root's id, getattr with a mode
  without S_IFMT, setxattr after an error of uiomove; `fuse_internal_forget_callback` never drops its own.

Device and mount:
* `fdev->data` outlives close while mounted, outlives unmount while opened; freed once.
* BIGLOCK builds: mount takes fdev->mtx then biglock; end of mount and unmount take
  biglock then fdev->mtx (deadlock of two concurrent mounts of a device, mount vs unmount).
* BIGLOCK builds: `fuse_ticket_wait_answer` re-takes biglock holding the ticket's aw_mtx;
  vnop holds biglock and takes data->aw_mtx in insert_callback; reject_answers holds
  data->aw_mtx and takes the ticket's aw_mtx (three-way cycle).

Nodes and handles:
* vid race between get-or-create and reclaim (comment in `fuse_node.c`); two creators of
  the same nodeid; RB_INSERT result is ignored.
* create stashes a RDWR handle with open_count 1, "The use count will later transfer", but open
  only increments; create never increments nlookup.
* filehandle_get checks validity before the upcall and sets open_count = 1 after it.
* mmap returns early for every PROT flag.
* the handle in an answer to CREATE whose entry `fuse_internal_checkentry` refuses, and in an answer to OPEN or CREATE
  that comes after a signal, is dropped with the answer; nobody releases it.

Locks, names, attributes and sizes:
* `fusefs_isordered` prefers parents and otherwise compares addresses, which is not transitive; `parent_nodeid` is
  never updated, so it may be that of an earlier directory.
* lookup holds its directory's lock and changes the vnode it finds; remove, rmdir and link change a directory whose
  lock they do not hold. So an answer may be overtaken between the daemon and the cache it goes to.
* negative entries are purged by create only; rmdir purges before its request only; rename does not invalidate the
  attributes of the file it replaces.
* `filesize` runs ahead of the daemon's size in mounts without synchronous writes, and page-outs hold no node lock and
  invalidate no attributes.
* an open with `FOPEN_DIRECT_IO` makes the whole mount synchronous while other files have dirty pages.
* create returns before `cache_purge_negatives` when its entry is refused or gets no vnode.
* `fuse_vfsop_sync` releases the biglock, and the FSYNC it sends releases it a second time.

## How the parts interact

* A kernel thread in a vnode or VFS operation takes a **ticket** from the session
  (`fuse_ticket_fetch`), writes the request header into it (`fuse_dispatcher_make`),
  puts it on `aw_head` (`fuse_insert_callback`) and on `ms_head`
  (`fuse_insert_message`), and sleeps on it (`fuse_ticket_wait_answer`).
* A daemon thread in `read(2)` pops `ms_head`; a daemon thread in `write(2)` looks the
  answer's `unique` up on `aw_head`, unlinks the ticket and runs its callback, which
  wakes the requester or, if it has left, drops the ticket.
* The **session** (`struct fuse_data`) hangs in a device slot. A daemon opens the slot,
  `mount` attaches the session to a mount point; whichever of the two leaves last
  destroys it. `fuse_data_kill` marks it dead from four places: the close of the
  device, the sysctl, a daemon timeout, a signal during the handshake.
* Locks: `ms_mtx`, `data->aw_mtx`, `ticket_mtx`, one `aw_mtx` per ticket;
  `fuse_device_mutex` and one `fdev->mtx` per slot; in 64-bit builds a `biglock` per
  session, held by every vnode operation and released around sleeps.

## Modules

| Module | Models | State | Actions |
|---|---|---|---|
| `FuseIpc` | one session's message path: `fuse_ipc.c`, `fuse_device_read`/`_write`, `fuse_reject_answers`, `fuse_internal_init_callback`, `fuse_internal_forget_send`, `fuse_internal_interrupt_send` | flags, `ms_head`, `aw_head`, the ticket pool, the fields of each ticket, a control record per thread, what the daemon has read | one per critical section: fetch, alloc, drop, insert, wait, read, write, callback, kill, reject |
| `FuseDevice` | a session's life in its slot: `fuse_device_open`/`_close`/`_kill`, `fuse_devices_start`/`_stop`, `fuse_vfsop_mount`/`_unmount` | `fuse_device_table`, `fuse_data` by address, `fuse_device_mutex`, `fuse_mount_count`, mount points, a control record per thread | one per acquisition of a mutex |
| `FuseFile` | the file handles of one vnode: `fuse_file.c`, open, close, create, read, write, readdir, fsync, mmap, page I/O, inactive and reclaim of `fuse_vnops.c`, `fuse_internal_strategy` | the three slots (`fh_id`, `open_count`), the vnode, its node lock, descriptors, what the daemon was told, a control record per thread | the code from one answer of the daemon to the next message |
| `FuseNode` | the vnodes of a mount: `fuse_node.c`, lookup, create, mkdir, mknod, symlink, link and reclaim of `fuse_vnops.c`, new entries and FORGET of `fuse_internal.c`, the tree's insert and remove | each vnode and its `fuse_vnode_data`, `nodes_head`, the name cache, a control record per thread, what the daemon counts and what is on its way to it | the code between two places that release the biglock |
| `FuseLocks` | the locks inside a session: `fuse_locking.c`, the wrappers of `fuse_biglock_vnops.*`, the biglock in `fuse_ticket_wait_answer` and `fuse_vfsop_sync`, the mutexes of `aw_head` and of its tickets | addresses and remembered parents of the nodes, owners of the locks, `aw_head`, a control record per thread | one per acquisition of a lock |
| `FuseCache` | what the kernel remembers of a directory: name cache, attributes and their validity, sizes and dirty pages, under lookup, create, new entries, remove, rmdir, rename, link, getattr, setattr, write, exchange, page-out and reclaim | the daemon's directory and files, the kernel's caches, node locks, a record per operation | the call up to its request; its execution by the daemon; the call after its answer |
| `FuseService` | abstract: what the message path promises a caller | the stage of each message, who waits for which | call, queue, deliver, answer, take, return, die |
| `FuseIpcService` | the refinement of `FuseService` by `FuseIpc` | | |
| `FuseSession` | abstract: what a device slot promises | daemon, file system, dead, devices present | born, attach, die, leave, detach, unload |
| `FuseIpcProofs`, `FuseIpcTickets`, `FuseIpcServiceProofs` | theorems about `FuseIpc` and its refinement of `FuseService` | | |
| `FuseDeviceProofs`, `FuseFileProofs`, `FuseNodeProofs`, `FuseLocksProofs`, `FuseCacheProofs` | theorems about the modules they are named after | | |
| `MCFuseIpc`, `MCFuseDevice`, `MCFuseFile`, `MCFuseNode`, `MCFuseLocks`, `MCFuseCache` | the modules the runs instantiate | | |

How they fit together: `FuseSession` is the outside of a slot, `FuseDevice` its inside; a session that `FuseDevice` treats
as a unit is `FuseIpc`, and `FuseService` is its outside. The vnode operations above it see only that outside: a request
that is answered, refused or given up. `FuseFile` follows them on the handles of one vnode, `FuseNode` on the table of
vnodes, `FuseCache` on names, attributes and sizes, and `FuseLocks` on the locks they hold meanwhile.

**FuseIpc.** A ticket is named by its `unique`, which `fuse_ticket_alloc` assigns once and
`fuse_ticket_refresh` keeps. `pool` holds `freetickets_head` (`free`; `loop` records a list
whose last link points to itself after a double insert), `alltickets_head` (`all`), both
counters, `ticketer`, the tickets given back to the allocator (`gone`) and, as a ghost, those that somebody should have
dropped and did not (`lost`). A thread's record
has a label (`pc`) for the place between two critical sections, the ticket in hand, and `ret`,
the return label of the two subroutines that have more than one critical section,
`fuse_data_kill` and `fuse_ticket_drop`. A caller that was answered drops its ticket (`UseDone`), makes its next request
on it (`Remake`) or returns and loses it (`UseLeak`); one that has made its request may drop (`MakeDrop`) or lose
(`MakeLeak`) it unsent. A RELEASE of create has `fuse_internal_forget_callback`, which loses its ticket too; the FORGET
that callback sends is a `SendForget`. A message is its opcode class (`INIT`, a request, a RELEASE nobody waits for, a
one-way message) and a ghost request number `rid`; an answer is the `rid` it answers and how
it went (`Replies`). Sleeps are labels (`ini`: "fu_ini", `asleep`: "fu_ans", `rsleep`:
"fu_msg") and a wakeup moves every (or, for `fuse_wakeup_one`, at most one) sleeper on. Where
the code dereferences a ticket, the action is enabled only if the ticket is not `gone`;
`UseAfterFree` is the other outcome. After a panic or a use of freed memory nothing happens any more.
The interleavings are those of builds without the biglock, a superset of the ones a session with
the biglock can show between its sleeps.

The daemon is not in the repository. It is modelled from how the device is used: it answers a
message it has read at most once, in any order, correctly, with an error, or with a body
`fuse_body_audit` refuses; it does not answer one-way messages.

**FuseDevice.** A session is its address (`Sessions`), which a later open may get again. Opening
and closing threads hold a local pointer `d` to the session, as the code does, so that a destroyed
and reallocated one is told apart from the one the thread meant only by what the code looks at.
`Biglock` selects the build. What happens inside a session is abstracted to nondeterministic
outcomes of the steps that send messages (`MountAnswer`, `Unmount`).

**FuseFile.** One vnode is a directory, a file of a direct_io mount or a cached file (`Kinds`). Its node lock
is held as `fuse_biglock_vnops.c` says: for the whole of open, close, read, write, readdir, fsync and inactive
(`nodelocked_vnop`), not at all for page I/O and reclaim (`locked_vnop`), and create holds only its directory's.
The biglock is released while an operation waits for the daemon, so an action is the code from one answer to the
next message. (The page I/O inside `cluster_push` and `ubc_msync` takes the biglock, a plain mutex, which close, fsync
and exchange hold at that point; the model lets it go on.) `desc` are the descriptors of the processes. When VNOP_CLOSE, VNOP_INACTIVE and
VNOP_RECLAIM are called is xnu's: one close for each open, inactive after the last use, reclaim when nobody has a
reference, and close (IO_NDELAY), inactive and reclaim in one go for a forced unmount. The daemon gives a new handle
with every answer to OPEN and CREATE. `over` is a ghost: "get" when `fuse_filehandle_get` stores its handle
over one in use, "create" when CREATE was answered with a node that has a vnode. `dropped` is another: the handles in
answers that nobody used, because a signal came first (`GetDropped`) or the entry was refused (`CreateDropped`). Sizes, and
which chunks a transfer has, are left out.

**FuseNode.** Operations hold the biglock, which is released while they wait for the daemon and inside `vnode_create`:
one action goes from one such place to the next, with the daemon's answer in the action that looks at it. A thread
holds the node lock of the directory (for link, of the file), which is all that keeps two lookups apart. A vnode is an
address that is used again after `fuse_vnop_reclaim`; xnu may recycle one as soon as no operation and no child uses it,
which covers every caller that keeps it longer, and `vnode_getwithvid` fails for one that is being reclaimed.
Names are left out: the daemon answers a lookup with any node, of any type and generation, so that hard links,
a node that changed, and the deletion and reuse of a node id are all among the answers. `nodes_head` is the map that
`RB_FIND` sees; `RbRemove` is what `RB_REMOVE` does to it, also for an entry that `RB_INSERT` refused (its null links
make the tree empty) and for entries of a tree that was lost that way. `daemon` is the daemon's count of lookups,
`forgets` and `releasing` what is on its way to reduce it, and the ghost `lost` the lookups that no code of the kext
accounts for: create never increments `nlookup`; an entry that `fuse_internal_checkentry` refuses and an answer that
comes after a signal are dropped without FORGET. LINK is assumed to be answered with the node that was linked.

**FuseLocks.** A thread takes the node locks of its operation in the order that `fusefs_lock`, `fusefs_lockpair` or
`fusefs_lockfour` gives them, then the biglock; it releases the biglock when it sleeps for an answer and takes it again
with its ticket's `aw_mtx` held. `fuse_insert_callback`'s test of `dead`, which no lock protects (`Send`), is a step of its
own before the one that takes `data->aw_mtx` (`Insert`), and so is `fuse_data_kill` (`Kill`) before `fuse_reject_answers`
(`Reject`): a requester may find the session alive and then wait for the closing thread. `Merged` is the loop of `fusefs_lockfour`: four rounds, each of which takes the
lower head of the two sorted pairs (`Round`) and leaves it out if it equals the one before (`Joins`). Addresses are any permutation; `parent_nodeid` is any directory for the nodes in `Moved`, because a vnode
keeps the parent it was made under and a vnode made later has a later one. `WaitsFor` gives the actor that holds what an
actor waits for, so that a deadlock is a circle of it, also when other threads can go on. What an operation does is left
out, and so is the truncate lock, which nobody takes.

**FuseCache.** One directory with names for files (one of them opened with `FOPEN_DIRECT_IO`) and a subdirectory. xnu
looks an operation's names up and then calls it, with nothing held in between. The answer a call uses is what the daemon
said when it executed the request, so everything that may overtake it is there. Attributes are a size and a version
that each change by the daemon increments, a WRITE or page-out included, since it changes the times. `sync` is the mount's:
with synchronous writes the daemon's size is the kernel's, without them the kernel's goes first (`Fat2Vat`, `LoadVap`). The
first open of a file that the daemon answers with `FOPEN_DIRECT_IO` makes the mount synchronous (`Open`), whatever is dirty.
What follows an `ubc_msync` waits until the file's pages have gone out (`Clean`). A signal makes a call give up, and the daemon
executes its request later or has done so. xnu's name cache, its page-outs and its use of `MAKEENTRY` are external, and
so is the daemon (`Exec`), which changes nothing that it is not asked to change. The properties say of each cache when it
may differ from the daemon: `cause` (per name) and `tag` (per node) are histories of the races and omissions that can
explain a difference. Every exception the properties make is reachable: without it TLC finds a counterexample (for
"moved" in `NegativeNames` and "blank" in `SizeAgrees` with three operations).
`FuseCache` describes a mount with name and attribute caching, without the `direct_io` option, on a session that stays
alive. An open with `FOPEN_PURGE_ATTR` is an `Expire` followed by a getattr; a failed page-out that reaches the daemon in
part does so once.

**FuseService, FuseSession.** The stage of a message is where it is: on a thread's way to the queue, on `ms_head`, with
the daemon, in an answer; what becomes of messages after the session died is not promised. (A requester whose wait timed out
has made its message long ago: in `fuse_data_kill` only a thread that returns to `fuse_dispatcher_make` counts as making one.) `Call`, `Take` and `Return` are
seen by the caller, `Queue`, `Deliver` and `Answer` by the daemon. A slot has a daemon when its session is `opened`, a file
system when it is `mounted`.

## Runs

| Run | Instance | Shows |
|---|---|---|
| `ipc_alive` | 2 requesters, a reader, a writer, 3 requests, 5 tickets, `fuse_max_tickets` 3, `fuse_max_freetickets` 1; signals, FORGET, requests made again on a ticket, callers that lose theirs (442,659 states) | `ReplyMatches`: although `unique` is reused, a requester gets the answer to its own request. `FreeTicketsUnused`, `NoTicketLost`, `NoDanglingTicket`: exactly one of requester, reader and callback drops each ticket, and what is lost is what an error exit or `fuse_internal_forget_callback` did not drop. `TicketLimit`: interrupted and lost requests do not pile up. `ImplementsService`: the message path implements `FuseService`, so a message is delivered and answered at most once, and no answer is thrown away under a caller that waits for it. |
| `ipc_faults` | 3 requests, 3 tickets; allocation failures, bad answers, EFAULT, timeouts, a signal in "fu_ini", failed INIT, short read, close | `TypeOK`, `TicketAccount`: what `fuse_max_tickets` is compared with is the number of tickets in memory, even after a ticket was dropped twice. `HandshakeFirst`: no message but INIT reaches the daemon before its answer to INIT was looked at. |
| `ipc_live` | 2 readers, 2 requests; signals, timeouts, failed INIT, short read, the kill sysctl, close | `AnswerArrives`, `IniSleepEnds`: no requester sleeps for ever. |
| `ipc_timeout` | 4 requests, timeouts | violated: the panics of `fuse_pop_freeticks` and `fuse_insert_message` are reachable after a daemon timeout (finding 1). |
| `device_slots` | 1 device, 2 daemons, 2 mounters, the kill sysctl, the unloading of the kext, 2 session addresses, with the biglock | a session lives exactly as long as it is opened or mounted (`SessionLifetime`), no dangling pointers (`NoDanglingSession`), the slot is exclusive (`SlotExclusive`), `fuse_mount_count` is right; the slot implements `FuseSession` (`ImplementsSession`: also, the devices are not removed under a session); every operation ends unless a panic or the one known circle of two mounts stops it (`OperationsEnd`). |
| `device_assert` | 1 daemon, 1 mounter, biglock | violated: the assertion at the end of `fuse_vfsop_mount` (finding 2). |
| `file_handles` | 2 processes, a pager, the three kinds of vnode, 2 handles | A slot in use names a handle the daemon still has and no handle is released twice (`ValidHandleOpen`); the kext's panics are out of reach (`NoFilehandlePanic`); without page I/O the node lock does its work (`NodeLockProtects`, `NoUseAfterRelease`); unless a handle was overwritten, each descriptor and handle is counted (`DescriptorsCounted`, `HandleCount`) and a handle is lost only with an answer that a signal or a refused entry left unused (`NoHandleLost`). |
| `node_table` | 2 threads, the root and 2 other vnodes, 2 nodes, answers with a directory, a file of one of two generations, or no type | The daemon's count of each node is what the kext will forget plus what it is known to lose, on every exit (`LookupBalance`), and a live vnode is of a node the daemon still knows (`NodeKnown`). The tree and the name cache lead to no destroyed or foreign vnode (`TreeCurrent`, `NamesCurrent`), and a lookup gets a vnode of the node it was answered with (`NodeAskedFor`). All of them hold with duplicate vnodes and an emptied tree too. |
| `node_shared` | the same with a third vnode | violated: a node has one vnode (finding 3). |
| `locks_circles` | 2 threads and a closing one, a directory in the root, 2 files that may have been moved, every order of addresses | `CirclesKnown`: only a rename, the close of the device beside a woken requester, or a sync can make actors wait in a circle. `OneLockPerNode`: no operation waits for its own node lock. |
| `locks_order` | 1 thread, 2 directories in the root, 2 files | violated: parent before child (finding 4). |
| `caches` | 2 threads, 2 operations, 2 names, 2 files (one direct_io), a subdirectory, sizes 0 and 1, a signal; synchronous, asynchronous and made synchronous by an open (2.3 million states) | a cached name (`PositiveNames`), a negative entry (`NegativeNames`), valid attributes (`AttrExplained`) or a size (`SizeAgrees`) that differs from the daemon's has one of the explanations listed in the property; remove, rename and a create that succeeds leave no wrong name, setattr and getattr no wrong attributes unless pages go out meanwhile, writes and truncations that succeed no wrong size. |

Every property of a passing run has a mutant: a small change of the code's behaviour
(an operator defined just before the definition it replaces) that violates it.

**Bounds.** `MaxReqs` bounds the requests ever made and `MaxTickets` the tickets ever allocated;
`MaxTickets` is large enough that a run never stops for want of a ticket except in `ipc_faults`,
where at most three requests can be in flight. Three requests on two requesters are what
the interesting cases need: one that is interrupted, one that gets its ticket again, one that runs
beside both; the panic needs four. In `ipc_live` two requests suffice: INIT and one that sleeps in
"fu_ini" or on its ticket. One device suffices for `FuseDevice` because slots share nothing but
`fuse_device_mutex` and the counters; two daemons and two mounters give every pair of operations. In `FuseFile`
a user has one descriptor, and two handles are what an overwriting, or a release followed by another open, takes.
In `FuseNode`, `MaxLookups` bounds what the daemon counts for a node: two lookups give each pair of one that is counted
and one that is in hand, forgotten or lost; two vnodes besides the root are two of a node, or a directory and a file
in it, and the run of the violation has three (a second directory and two vnodes of a file).
In `FuseLocks` two threads and the closing one give each circle of two node locks and the circle of three mutexes (without the second case of `CirclesKnown` the
run fails after 14 steps: a woken requester, a second one at `Insert`, and `Reject`); four
nodes are a rename's. Directories that remember each other as parents need a third directory, which is too much beside a
second thread; `OneLockPerNode` sets them apart, and TLC confirms it for one thread with three directories and two files,
all moved, where a rename does list a directory twice. In `FuseCache` two operations give each pair of racing calls, with
page-outs, opens, expiry and recycling beside them; for three and more calls there are the proofs.

**Deadlock.** In `FuseIpc` requests are bounded and a panic stops the machine, so the runs say
`CHECK_DEADLOCK FALSE` (`FuseFile`'s, `FuseNode`'s and `FuseCache`'s too: handles, lookups and operations are bounded, and
a dead session may stop); what must go on is stated by the liveness properties. `device_slots` and `locks_circles` say so because
builds with the biglock do deadlock; `OperationsEnd` and `CirclesKnown` say where, and that it happens nowhere else. For `FuseDevice`:
a second mount of a device holds `fdev->mtx` and waits for the biglock, which the first one holds while it waits for `fdev->mtx`.

**Fairness.** In `FuseIpc`, weak fairness for each thread's own steps: the kernel runs runnable
threads, and the daemon keeps reading, answers what it has read, and leaves and closes the
device once the session is dead. Signals, timeouts, kills and new requests have none. In `FuseDevice`,
strong fairness for the steps of a thread inside an operation, because they wait for a mutex that
others take and release again: `lck_mtx_unlock` hands it to a waiter. Beginning an operation has
no fairness.

## Findings

1. **Double drop after a daemon timeout** (`fuse_ipc.c:274`, run `ipc_timeout`). The timed-out
   requester sets `answered` and then drops its ticket, which stays on `aw_head`; a late answer
   finds `answered` set and drops it again.
2. **Biglock of another session** (`fuse_vfsops.c:535`, run `device_assert`). The tail of a failed
   mount reads `fdev->data` again after the session was destroyed and `fdev->mtx` released.
3. **Two vnodes for a node** (`fuse_node.c:197`, run `node_shared`). The biglock is released between the look at
   `nodes_head` and the insert, whose result is ignored; two lookups of a hard link from two directories each make
   a vnode. When the one that is not in the tree is reclaimed, `RB_REMOVE` empties the tree, and every node gets a
   second vnode at its next lookup.
4. **Child locked before its parent** (`fuse_biglock_vnops.c:527`, run `locks_order`). rename gives `fusefs_lockfour` its nodes
   as (tdvp, fdvp, fvp, tvp); merging two sorted pairs by an order that is not transitive can list a node before its parent,
   and two renames can then wait for each other for ever.

Met while modelling, without a run of their own: `fuse_devices_stop` frees `fdev->mtx` while a thread that has just cleared
`fdev->data` still holds it (`fuse_device.c:499`); page I/O opens a handle without the node lock and may overwrite the handle and
the use count of an open that waits for its answer (`fuse_file.c:107`, `over` in `FuseFile`); a sync that finds a dirty vnode
with an open handle waits for itself in builds with the biglock (`fuse_vfsops.c:1218`, third case of `CirclesKnown`); a rename of a
directory's child onto that directory locks it twice when the two remember each other as parents (`OneLockPerNode`); names,
attributes and sizes go stale in the ways `FuseCache`'s properties list; callers lose tickets (`lost` in `FuseIpc`: a LOOKUP
answered with node 0 or the root's id returns without a drop, `fuse_vnops.c:1249`, and so do the other exits listed above)
and handles (`dropped` in `FuseFile`). Met while reading: `fuse_vnop_create` never increments `nlookup`, so the daemon never forgets a created
file completely (`lost` in `FuseNode`); `fuse_vnop_create` stores the daemon's FOPEN flags in `open_flags` instead of
`fuse_open_flags` (`fuse_vnops.c:454`), so FOPEN_DIRECT_IO in an answer to CREATE has no effect and RELEASE carries
the wrong flags; the use count that create stashes never transfers (`fuse_vnops.c:458`).

## Proofs

Each theorem holds for every value of the constants that meets the assumptions named with it: any sets of threads, nodes
and sessions, any numbers of tickets, requests and handles, any bounds. Where the listed property is not inductive, the
strengthening was checked by TLC on the bounds of the run first. The step theorem of each module has one lemma per action,
or per group of actions that disturb the same conjuncts.

**`FuseIpc`** (`ThreadsAssumption`: requesters, readers, writers and the two administrative threads are different threads,
and the mounter is a requester; `BoundsAssumption`: the limits are naturals, the bounds positive; `FiniteAssumption`:
finitely many requesters, for the bound in `TicketLimit`).

* `TypeCorrect == Spec => []TypeOK` (`FuseIpcProofs`). `TypeOK` is not inductive: an action that writes `tk[thr[r].tkt]`
  keeps `tk` a function on `Tickets` only if the thread has a ticket. `Holding` says where it has one,
  through the subroutines too: a thread in `fuse_data_kill` that returns to a place that uses a ticket has
  one, and `fuse_ticket_drop`, which gives the ticket away, never returns to such a place.
  The inductive invariant is `TypeInv == TypeOK /\ Holding`.
* `HandshakeCorrect == Spec => []HandshakeFirst` (`FuseIpcProofs`). The inductive invariant is
  `TypeInv /\ HandshakeInv`. INIT is the first request and has ticket 0 (`InitOk`), and until it is answered
  ticket 0 carries INIT, is never on the free list, and is the only ticket in a queue or in a reader's or
  writer's hands (`TicketZero`, `OtherOk`). Every other request is then asleep in "fu_ini", or awake in a session
  that is dead, where neither `fuse_insert_callback` nor `fuse_insert_message` queues it (`RequestOk`).
  The last is why the test of `dead` in both functions matters: `fuse_data_kill` wakes the fetches
  before any answer.
* `TicketsCounted`, `TicketsLimited`, `RepliesMatch`, `FreeListSound`, `TicketsKept`, `TicketsNotFreedInUse`
  (`FuseIpcTickets`): the properties `TicketAccount`, `TicketLimit`, `ReplyMatches`, `FreeTicketsUnused`, `NoTicketLost` and
  `NoDanglingTicket`, and `AliveNoPanic`, that every panic comes after the session's death. The inductive invariant is
  `TypeInv /\ HandshakeInv /\ TicketInv`. `AliveInv` is about a session that is alive, and says of each ticket by itself which
  places go together (`OwnOk`): on the free list and clean; or with one thread alone; or on its way to the daemon and back,
  on `aw_head` as long as an answer is expected, while its requester waits for it (`answered` not set) or has left it
  (`answered` set); or lost, and then nowhere else. From this follows that exactly one thread drops it, and that a ticket is
  lost only where a caller or `fuse_internal_forget_callback` loses it. The requester that sleeps and the callback that answers
  are the only two threads that may have the same ticket; `RequesterOk`, `ReaderOk`, `WriterOk` and `InboxOk` tie the request
  numbers together, which gives `ReplyMatches`. After a kill all of this fails (finding 1), so the account of the tickets is
  kept apart: `AccountOk` and `CountOk` hold of dead sessions too, and `LimitOk` says that until INIT
  is answered every ticket but that of INIT is with a requester that is held up before the limit is looked at.
* `ServiceImplemented == Spec => ImplementsService` (`FuseIpcServiceProofs`): the initial state maps to one of `FuseService`,
  and each step to a step or a stutter of it, from `TypeInv`, `HandshakeInv`, `TicketInv` and `RidInv`. The abstract
  specification follows messages, the code tickets, and a ticket and its `unique` are used again. `RidInv` ties the two
  together while the session is alive: a message has one requester at most (`OneRequester`) and one ticket at most
  (`OneTicket`), the requester that made it and has not finished with it has that ticket (`OwnTicket`), and the queues hold
  tickets of messages that are not answered (`TicketRid`). A request that is made and not sent (`MakeDrop`, `MakeLeak`) has
  its header in the ticket already (`HeadedRid`). Hence a message is in one stage at a time, and a step moves only
  the message of the ticket in hand, which is what each action's lemma then shows. `fuse_data_kill`, from wherever it is called, is `Die`; what comes after it
  is not seen. The attempt showed that the mapping was wrong for a timed-out requester inside `fuse_data_kill`, a
  case the instance of `ipc_alive`, which has no timeouts, does not reach.

**`FuseDevice`** (`ActorsAssumption`, `NamesAssumption`: the kinds of threads are disjoint, the markers are no sessions or
threads; with and without the biglock).

* `DeviceTypes`, `DeviceLifetime`, `DeviceNoDangling`, `DeviceExclusive`, `DeviceMountCount` (`FuseDeviceProofs`): the
  invariants of `device_slots`. `DeviceInv` says for each place in the code what the thread there relies on: which `fdev->mtx`
  it holds (`MutexOk`), that its daemon is the one the slot's `usecount` stands for (`CountOk`), that the session it opened is
  still the slot's (`OpenOk`), that the one it mounted is its alone (`MounterOk`, `AloneOk`), that a session allocated by an open that
  loses to a lingering mount is seen by nobody (`SpareOk`) and that none is leaked (`PlacedOk`). Only the last of daemon and
  mount can then destroy a session.
* `DeviceImplements == Spec => ImplementsSession` (`FuseDeviceProofs`): the initial state maps to one of `FuseSession`
  and each step to a step or a stutter of it, from `DeviceInv`.

**`FuseFile`** (`FileAssumption`, `NobodyAssumption`, and `FiniteAssumption`: finitely many processes).
`FileTypes`, `FileNoPanic`, `FileHandlesOpen`, `FileLockProtects`, `FileNoUseAfterRelease`, `FileDescriptors`,
`FileNoHandleLost`, `FileHandleCount` (`FuseFileProofs`): all invariants of `file_handles`. `FileInv` says who has the node
lock (`LocksOk`), what an operation found before it waited for the daemon and still finds (`PlacesOk`), that recycling is alone
(`RecycleOk`), that slots in use have handles of their own (`SlotsOk`), that on a vnode without page I/O the lock covers every
use of a handle (`UnpagedOk`), and, as long as nothing was overwritten, what the counters count (`CountOk`, `UsesOk`). For
`NoHandleLost` every handle given is in a slot, was released, or is in `dropped`.

**`FuseNode`** (`NodeAssumption`: the root and null ids are not the daemon's). `NodeTypes`, `NodeBalance`, `NodesKnown`,
`NodeTree`, `NodeNames` and the action property `NodeAsked` (`FuseNodeProofs`): all properties of `node_table`. `NodeInv`
adds to them that the vnodes of an operation under way are live (`PlacesOk`), that a vnode in `vnode_create` is of the entry
that was answered and of one thread (`CreatorsOk`), and that a live vnode stands for a lookup or create has lost one of its node
(`KnownOk`). The two sides of `LookupBalance` are cardinalities: `Counted(n)` is a set of numbered lookups, so that what a step
adds to a count it adds to a set.

**`FuseLocks`** (`LocksAssumption`: finitely many nodes, files are no directories, the sentinel is no node). `LocksTypes`,
`LocksOnce`, `LocksCircles` (`FuseLocksProofs`): the invariants of `locks_circles`, and `LocksReturned`, that an operation
which has taken its locks owns exactly the nodes it will unlock. `LockFourFacts` is the lemma about `fusefs_lockfour`: the
loop takes its four nodes in one of six orders, each of which lists every node, and, because `fusefs_isordered` orders any
two nodes one way only unless they remember each other as parents, takes equal nodes one after the other. That order is not
transitive, so nothing is said about sorting (finding 4). For `CirclesKnown`: lists without a rename ascend by address
(`AscOk`), so the one who waits for the highest node of a circle would have to wait for a higher one; and the biglock is held
only where a thread is about to insert its ticket or to sleep, visits, or waits for it in a sync (`BigOk`); of these only
the insertion and the sync wait for anything. The theorem covers what the run's bounds leave out:
directories that remember each other as parents beside a second thread, and circles of any length.

**`FuseCache`** (`CacheAssumption`: files are no subdirectories, finitely many nodes, the bounds are naturals;
`MarkersAssumption`: "miss", "negative" and NULL are no nodes, names or threads). `CacheTypesCorrect`, `CachePositive`,
`CacheNegative`, `CacheAttributes`, `CacheSizes` (`FuseCacheProofs`): all invariants of `caches`. None of them is inductive,
because each only speaks of a cache nobody is about to change. `CacheInv` adds what the operation under way has established
and what it will still do, and rests throughout on the locks: `CacheTypes` says that exactly the calls that have sent their request
hold the locks that `fuse_biglock_vnops.c` gives them (`LockOk`), and that their vnodes are in use.

* `NamesInv`: an answer that was not overtaken still says what the name means (`CurrentOk`); while a rename has the directory no
  name of its vnode is entered (`RenameOk`); a wrong entry without a history is one that the remove or rename that has the lock
  will purge (`Mends`), a wrong negative entry one that create will purge (`Creates`), or that a create which failed after its answer has left.
* `AttrInv`: attributes answered to a call that has the node's lock are the daemon's (`VersionOk`), and valid ones that are not
  will be renewed or dropped by the call that has the lock (`Renews`), unless pages have reached the daemon since.
* `SizeInv`: `LengthOk` says of each of getattr, write, truncate and exchange how the daemon's size and the kernel's differ
  between the request and the end of the call; outside of these the kernel's size is the daemon's or the end of the dirty
  pages (`LengthsOk`, `Resizes`), or one of the listed events excuses it (`Excused`). Valid attributes have the daemon's size
  or the kernel's unless pages went out after the answer (`ValidOk`, `Forgets`, `Paged`). That is harmless in an asynchronous
  mount, which does not take the size from the attributes, and the excuse `sync /\ "paged"` appears when the mount becomes
  synchronous.

The theorems cover what the bounds of `caches` leave out: any number of operations, threads and signals, three and more
calls that overtake each other. The attempt showed that three case distinctions of the model relied on the order of
the arms of a CASE, which has none; they are IF ... ELSE now.

Only model-checked: the liveness properties `AnswerArrives`, `IniSleepEnds` and `OperationsEnd`, since fairness is out of the
prover's reach. They hold for the bounds of their runs.

## Not modelled

Message bodies and their sizes, the negotiated flags, the parsing of mount options, logging; `IO_NDELAY` reads and
malformed answer headers; VFS registration, the load tool and the sysctl tables, which only call the system;
the I/O vectors, a buffer of one thread; the balancing in `compat/tree.h` (third-party), of which only what insert and
remove do to the map is modelled, and `compat/exchange.c`, which swaps fields of xnu's vnodes. Of the vnode operations:
the contents of readdir, extended attributes, ioctl, access and pathconf (one request and its answer, nothing kept but a
noimpl flag), lookup of "." and "..", nodes that change their type under a vnode (`FuseNode` has that for lookups), the
attributes of directories, a daemon that answers WRITE with size 0 (the loop then never ends). Of the locks: page I/O
inside `cluster_push` and `ubc_msync` with the biglock held, and whether `vnode_getwithvid` waits for a vnode that is being
reclaimed, which is xnu's.

## Plan

The model is complete as far as the code keeps state that several threads see. Every invariant and action property that a
passing run checks, and both refinements, are proved for all values of the constants. What could come next:

1. A bound on the free pool: `fuse_ticket_drop` tests the counter before it unlocks, so the pool can exceed
   `fuse_max_freetickets` by the number of threads between the test and the push.
2. The liveness arguments, with a prover that supports fairness: each rests on the places a thread cannot stay in, which
   `TicketInv` and `DeviceInv` already name.
