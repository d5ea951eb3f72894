---------------------------- MODULE FuseSession -----------------------------
(***************************************************************************)
(* What a device slot promises.  A session is born when a daemon opens a   *)
(* slot that has none, and it serves that daemon only.  A file system may  *)
(* be attached to it while the daemon is there, one at a time.  A session  *)
(* that is dead stays dead; a daemon leaves only a dead one.  When the     *)
(* last of daemon and file system has left, the slot is free again, and    *)
(* the devices go away only when every slot is free.                       *)
(***************************************************************************)
CONSTANT Units

VARIABLES
    daemon,    \* the units whose session has a daemon
    attached,  \* the units whose session has a file system
    dead,      \* the units whose session is dead
    present    \* the devices exist

avars == <<daemon, attached, dead, present>>

Free(u) == u \notin daemon \cup attached

AInit == daemon = {} /\ attached = {} /\ dead = {} /\ present = TRUE

Born(u) ==
    /\ present /\ Free(u)
    /\ daemon' = daemon \cup {u}
    /\ UNCHANGED <<attached, dead, present>>

Attach(u) ==
    /\ u \in daemon \ attached
    /\ attached' = attached \cup {u}
    /\ UNCHANGED <<daemon, dead, present>>

Die(u) ==
    /\ ~Free(u)
    /\ dead' = dead \cup {u}
    /\ UNCHANGED <<daemon, attached, present>>

\* a free slot has no session that could be dead
DaemonLeaves(u) ==
    /\ u \in daemon \cap dead
    /\ daemon' = daemon \ {u}
    /\ dead' = IF u \in attached THEN dead ELSE dead \ {u}
    /\ UNCHANGED <<attached, present>>

Detach(u) ==
    /\ u \in attached
    /\ attached' = attached \ {u}
    /\ dead' = IF u \in daemon THEN dead ELSE dead \ {u}
    /\ UNCHANGED <<daemon, present>>

Unload ==
    /\ \A u \in Units : Free(u)
    /\ present' = FALSE
    /\ UNCHANGED <<daemon, attached, dead>>

ANext == Unload \/ \E u \in Units : Born(u) \/ Attach(u) \/ Die(u) \/ DaemonLeaves(u) \/ Detach(u)

ASpec == AInit /\ [][ANext]_avars
=============================================================================
