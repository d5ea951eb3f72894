--------------------------- MODULE FuseNodeProofs ---------------------------
(***************************************************************************)
(* Proofs about FuseNode, for any sets of threads, vnodes, nodes and       *)
(* attributes and any bound on the lookups: the types, the account of      *)
(* lookups, the tree, the name cache and what a lookup is counted for.     *)
(*                                                                         *)
(* All of them rest on one inductive invariant.  A thread between two      *)
(* steps of an operation has a directory (and link a file) that is live,   *)
(* because what a thread uses is not recycled; and one in vnode_create is  *)
(* alone in having its new vnode, which still has what the daemon          *)
(* answered.  So an answer is never applied to a vnode that was recycled   *)
(* meanwhile.                                                              *)
(***************************************************************************)
EXTENDS FuseNode, FiniteSetTheorems, TLAPS

VnodeData == [state : {"free", "new", "live", "dying"}, nodeid : NodeIds, type : VTypes,
              gen : Nat, nlookup : Nat, parentvp : Vnodes \cup {NULLVP}, linked : BOOLEAN]

EntryData == [nodeid : NodeIds, type : VTypes, gen : Nat]

ThreadState == [pc : Pcs, op : Ops, dvp : Vnodes \cup {NULLVP}, vp : Vnodes \cup {NULLVP},
                feo : EntryData]

Counts == [Nodes -> Nat]

\* A vnode that is free or in vnode_create stands for no lookups and is not in
\* the tree; the root is never recycled, and every other vnode in use is of one
\* of the daemon's nodes.
VnodesOk ==
    /\ vnode[Rootvp].state = "live"
    /\ \A v \in Vnodes :
         /\ vnode[v].state \in {"free", "new"} => vnode[v].nlookup = 0 /\ ~vnode[v].linked
         /\ vnode[v].state # "free" /\ v # Rootvp => vnode[v].nodeid \in Nodes

\* What thread state s implies: the vnodes of an operation are live, and the one
\* in vnode_create is new and of the entry that was answered.
PlaceOf(s) ==
    /\ s.pc # "idle" => s.dvp \in Vnodes /\ vnode[s.dvp].state = "live"
    /\ s.pc = "sent" /\ s.op = "link" => s.vp \in Vnodes /\ vnode[s.vp].state = "live"
    /\ s.pc = "create" =>
         /\ s.op # "link" /\ s.vp \in Vnodes /\ s.feo.nodeid \in Nodes
         /\ vnode[s.vp].state = "new" /\ vnode[s.vp].nodeid = s.feo.nodeid
         /\ vnode[s.vp].type = s.feo.type /\ vnode[s.vp].gen = s.feo.gen

PlacesOk == \A t \in Threads : PlaceOf(thr[t])

\* No two threads make the same vnode.
CreatorsOk ==
    \A t, u \in Threads : At(t, "create") /\ At(u, "create") /\ thr[t].vp = thr[u].vp => t = u

\* The lookups of each node are finitely many, and the account is right.
AccountOk ==
    ~dead => \A n \in Nodes :
        /\ IsFiniteSet(Counted(n)) /\ IsFiniteSet(InHand(n))
        /\ daemon[n] = Cardinality(Counted(n)) + Cardinality(InHand(n)) + forgets[n] + releasing[n] + lost[n]

\* A dead session has no FORGET under way.
DeadOk == dead => \A n \in Nodes : forgets[n] = 0

\* A vnode in use stands for a lookup, or create lost one of its node.
KnownOk ==
    ~dead => \A v \in Vnodes \ {Rootvp} :
        Live(v) => vnode[v].nlookup > 0 \/ lost[vnode[v].nodeid] > 0

\* The part of the invariant that is about vnodes, the tree and names.
VnodeInv == VnodesOk /\ PlacesOk /\ CreatorsOk /\ TreeCurrent /\ NamesCurrent

\* The part that is about the account.
AccountInv == AccountOk /\ DeadOk /\ KnownOk

NodeInv == TypeOK /\ VnodeInv /\ AccountInv

-----------------------------------------------------------------------------
(* The lookups that vnodes stand for *)

Types == vnode \in [Vnodes -> VnodeData] /\ thr \in [Threads -> ThreadState]

\* What the type invariant says of each variable.
LEMMA TypesFacts == TypeOK =>
    /\ Types /\ nodes_head \in [NodeIds -> Vnodes \cup {NULLVP}] /\ ncache \subseteq Vnodes \X Vnodes
    /\ dead \in BOOLEAN /\ daemon \in Counts /\ forgets \in Counts /\ releasing \in Counts /\ lost \in Counts
BY DEF TypeOK, Types, VnodeData, ThreadState, EntryData, Counts

\* The lookups of node n that the vnodes of f stand for.
LookupsIn(f, n) == UNION {{v} \X (1 .. f[v].nlookup) : v \in {u \in Vnodes : f[u].nodeid = n}}

\* The counted lookups, as a set that depends on the vnodes alone.
LEMMA CountedIs == ASSUME NEW n PROVE Counted(n) = LookupsIn(vnode, n) /\ Counted(n)' = LookupsIn(vnode', n)
BY DEF Counted, LookupsIn

\* The members of LookupsIn(f, n).
LEMMA LookupMembers ==
    ASSUME NEW f \in [Vnodes -> VnodeData], NEW n
    PROVE  /\ \A v \in Vnodes, i \in Nat : <<v, i>> \in LookupsIn(f, n) <=>
                  f[v].nodeid = n /\ 1 =< i /\ i =< f[v].nlookup
           /\ LookupsIn(f, n) \subseteq Vnodes \X Nat
  <1>0. ASSUME NEW v \in Vnodes PROVE f[v].nlookup \in Nat
    BY <1>0 DEF VnodeData
  <1>1. ASSUME NEW v \in Vnodes, NEW i \in Nat
        PROVE  <<v, i>> \in LookupsIn(f, n) <=> f[v].nodeid = n /\ 1 =< i /\ i =< f[v].nlookup
    BY <1>0, <1>1 DEF LookupsIn
  <1>2. LookupsIn(f, n) \subseteq Vnodes \X Nat
    BY <1>0 DEF LookupsIn
  <1> QED BY <1>1, <1>2

\* S and T have the same pairs of a vnode and a number.
SamePairs(S, T) == \A u \in Vnodes, i \in Nat : <<u, i>> \in S <=> <<u, i>> \in T

\* Two sets with the same numbered lookups are equal.
LEMMA PairsEqual ==
    ASSUME NEW S \in SUBSET (Vnodes \X Nat), NEW T \in SUBSET (Vnodes \X Nat), SamePairs(S, T)
    PROVE  S = T
  <1>1. ASSUME NEW q \in Vnodes \X Nat PROVE q \in S <=> q \in T
    <2> PICK u \in Vnodes, i \in Nat : q = <<u, i>> BY <1>1
    <2> QED BY DEF SamePairs
  <1> QED BY <1>1

\* g is f with w at x.
Replaces(f, g, x, w) == g = [f EXCEPT ![x] = w]

\* One vnode of f is replaced.
LEMMA Replaced ==
    ASSUME NEW f \in [Vnodes -> VnodeData], NEW v \in Vnodes, NEW w \in VnodeData,
           NEW g, Replaces(f, g, v, w)
    PROVE  /\ g \in [Vnodes -> VnodeData] /\ g[v] = w /\ f[v].nlookup \in Nat /\ w.nlookup \in Nat
           /\ \A u \in Vnodes : u # v => g[u] = f[u]
BY DEF VnodeData, Replaces

\* The lookups when vnode v comes to stand for one more.
LEMMA LookupsUp ==
    ASSUME NEW f \in [Vnodes -> VnodeData], NEW v \in Vnodes, NEW w \in VnodeData,
           NEW g, Replaces(f, g, v, w),
           w.nlookup = f[v].nlookup + 1, w.nodeid = f[v].nodeid,
           NEW n, IsFiniteSet(LookupsIn(f, n))
    PROVE  /\ IsFiniteSet(LookupsIn(g, n))
           /\ Cardinality(LookupsIn(g, n)) = Cardinality(LookupsIn(f, n)) + (IF n = w.nodeid THEN 1 ELSE 0)
  <1>1. /\ g \in [Vnodes -> VnodeData] /\ g[v] = w /\ f[v].nlookup \in Nat
        /\ \A u \in Vnodes : u # v => g[u] = f[u]
    BY Replaced
  <1> PICK S : S = LookupsIn(f, n) OBVIOUS
  <1> PICK T : T = LookupsIn(g, n) OBVIOUS
  <1>2. /\ \A u \in Vnodes, i \in Nat : <<u, i>> \in S <=> f[u].nodeid = n /\ 1 =< i /\ i =< f[u].nlookup
        /\ S \subseteq Vnodes \X Nat /\ IsFiniteSet(S)
    BY LookupMembers
  <1>3. /\ \A u \in Vnodes, i \in Nat : <<u, i>> \in T <=> g[u].nodeid = n /\ 1 =< i /\ i =< g[u].nlookup
        /\ T \subseteq Vnodes \X Nat
    BY <1>1, LookupMembers
  <1>4. IsFiniteSet(T) /\ Cardinality(T) = Cardinality(S) + (IF n = w.nodeid THEN 1 ELSE 0)
    <2>1. CASE n # w.nodeid
      <3>0. ASSUME NEW u \in Vnodes, NEW i \in Nat PROVE <<u, i>> \in T <=> <<u, i>> \in S
        <4>1. <<u, i>> \in T <=> g[u].nodeid = n /\ 1 =< i /\ i =< g[u].nlookup
          BY <1>3
        <4>2. <<u, i>> \in S <=> f[u].nodeid = n /\ 1 =< i /\ i =< f[u].nlookup
          BY <1>2
        <4>3. g[u] = f[u] \/ (g[u].nodeid # n /\ f[u].nodeid # n)
          BY <1>1, <2>1
        <4> QED BY <4>1, <4>2, <4>3
      <3>1. T = S
        <4>1. T \in SUBSET (Vnodes \X Nat) /\ S \in SUBSET (Vnodes \X Nat)
          BY <1>2, <1>3
        <4>2. SamePairs(T, S)
          BY <3>0 DEF SamePairs
        <4> QED BY <4>1, <4>2, PairsEqual
      <3>2. Cardinality(S) \in Nat
        BY <1>2, FS_CardinalityType
      <3> QED BY <1>2, <2>1, <3>1, <3>2
    <2>2. CASE n = w.nodeid
      <3> PICK p : p = <<v, f[v].nlookup + 1>> OBVIOUS
      <3>1. p \in Vnodes \X Nat /\ p \notin S
        BY <1>1, <1>2
      <3>2. ASSUME NEW q \in Vnodes \X Nat PROVE q \in T <=> q \in S \cup {p}
        <4> PICK u \in Vnodes, i \in Nat : q = <<u, i>> BY <3>2
        <4>1. CASE u = v
          <5>0. <<v, i>> \in T <=> g[v].nodeid = n /\ 1 =< i /\ i =< g[v].nlookup
            BY <1>3
          <5>1. <<v, i>> \in T <=> 1 =< i /\ i =< f[v].nlookup + 1
            BY <1>1, <2>2, <5>0
          <5>2. <<v, i>> \in S <=> 1 =< i /\ i =< f[v].nlookup
            BY <1>1, <1>2, <2>2
          <5>3. <<v, i>> = p <=> i = f[v].nlookup + 1
            BY <1>1
          <5> QED BY <1>1, <4>1, <5>1, <5>2, <5>3
        <4>2. CASE u # v
          <5>1. q # p
            BY <4>2
          <5> QED BY <1>1, <1>2, <1>3, <4>2, <5>1
        <4> QED BY <4>1, <4>2
      <3>3. T = S \cup {p}
        BY <1>2, <1>3, <3>1, <3>2
      <3>4. IsFiniteSet(S \cup {p}) /\ Cardinality(S \cup {p}) = Cardinality(S) + 1
        BY <1>2, <3>1, FS_AddElement
      <3> QED BY <2>2, <3>3, <3>4
    <2> QED BY <2>1, <2>2
  <1> QED BY <1>4

\* The lookups when vnode v comes to stand for none.
LEMMA LookupsDown ==
    ASSUME NEW f \in [Vnodes -> VnodeData], NEW v \in Vnodes, NEW w \in VnodeData,
           NEW g, Replaces(f, g, v, w), w.nlookup = 0,
           NEW n, IsFiniteSet(LookupsIn(f, n))
    PROVE  /\ IsFiniteSet(LookupsIn(g, n))
           /\ Cardinality(LookupsIn(g, n))
                = Cardinality(LookupsIn(f, n)) - (IF n = f[v].nodeid THEN f[v].nlookup ELSE 0)
  <1>1. /\ g \in [Vnodes -> VnodeData] /\ g[v] = w /\ f[v].nlookup \in Nat
        /\ \A u \in Vnodes : u # v => g[u] = f[u]
    BY Replaced
  <1> PICK S : S = LookupsIn(f, n) OBVIOUS
  <1> PICK T : T = LookupsIn(g, n) OBVIOUS
  <1> PICK k : k = f[v].nlookup OBVIOUS
  <1> PICK I : I = 1 .. k OBVIOUS
  <1> PICK D : D = {v} \X I OBVIOUS
  <1>2. /\ \A u \in Vnodes, i \in Nat : <<u, i>> \in S <=> f[u].nodeid = n /\ 1 =< i /\ i =< f[u].nlookup
        /\ S \subseteq Vnodes \X Nat /\ IsFiniteSet(S)
    BY LookupMembers
  <1>3. /\ \A u \in Vnodes, i \in Nat : <<u, i>> \in T <=> g[u].nodeid = n /\ 1 =< i /\ i =< g[u].nlookup
        /\ T \subseteq Vnodes \X Nat
    BY <1>1, LookupMembers
  <1>4. \A u \in Vnodes, i \in Nat : <<u, i>> \in D <=> u = v /\ 1 =< i /\ i =< k
    BY <1>1
  <1>5. ASSUME NEW u \in Vnodes, NEW i \in Nat
        PROVE  <<u, i>> \in T <=> <<u, i>> \in S /\ <<u, i>> \notin D
    <2>1. <<u, i>> \in T <=> g[u].nodeid = n /\ 1 =< i /\ i =< g[u].nlookup
      BY <1>3
    <2>2. <<u, i>> \in S <=> f[u].nodeid = n /\ 1 =< i /\ i =< f[u].nlookup
      BY <1>2
    <2>3. <<u, i>> \in D <=> u = v /\ 1 =< i /\ i =< k
      BY <1>4
    <2>4. CASE u = v
      <3>1. g[u].nlookup = 0
        BY <1>1, <2>4
      <3> QED BY <1>1, <2>1, <2>2, <2>3, <2>4, <3>1
    <2>5. CASE u # v
      <3>1. g[u] = f[u]
        BY <1>1, <2>5
      <3> QED BY <2>1, <2>2, <2>3, <2>5, <3>1
    <2> QED BY <2>4, <2>5
  <1>6. T = S \ D
    <2>1. T \in SUBSET (Vnodes \X Nat) /\ (S \ D) \in SUBSET (Vnodes \X Nat)
      BY <1>2, <1>3
    <2>2. SamePairs(T, S \ D)
      BY <1>5 DEF SamePairs
    <2> QED BY <2>1, <2>2, PairsEqual
  <1>7. IsFiniteSet(S \ D) /\ Cardinality(S \ D) = Cardinality(S) - Cardinality(S \cap D)
    BY <1>2, FS_Difference
  <1>8. Cardinality(S \cap D) = IF n = f[v].nodeid THEN k ELSE 0
    <2>1. CASE n # f[v].nodeid
      <3>1. \A u \in Vnodes, i \in Nat : ~(<<u, i>> \in S /\ <<u, i>> \in D)
        BY <1>2, <1>4, <2>1
      <3>2. S \cap D = {}
        BY <1>2, <3>1
      <3> QED BY <2>1, <3>2, FS_EmptySet
    <2>2. CASE n = f[v].nodeid
      <3>1. \A q \in D : \E i \in Nat : q = <<v, i>> /\ 1 =< i /\ i =< k
        BY <1>1
      <3>2. S \cap D = D
        BY <1>2, <2>2, <3>1
      <3>3. IsFiniteSet(I) /\ Cardinality(I) = k
        BY <1>1, FS_Interval
      <3>4. IsFiniteSet({v}) /\ Cardinality({v}) = 1
        BY FS_Singleton
      <3>5. Cardinality({v} \X I) = Cardinality({v}) * Cardinality(I)
        BY <3>3, <3>4, FS_Product
      <3>6. Cardinality(D) = k
        BY <1>1, <3>3, <3>4, <3>5
      <3> QED BY <2>2, <3>2, <3>6
    <2> QED BY <2>1, <2>2
  <1> QED BY <1>6, <1>7, <1>8

\* The lookups when v stands for as many as before.
LEMMA LookupsKept ==
    ASSUME NEW f \in [Vnodes -> VnodeData], NEW v \in Vnodes, NEW w \in VnodeData,
           NEW g, Replaces(f, g, v, w),
           w.nlookup = f[v].nlookup, w.nodeid = f[v].nodeid, NEW n
    PROVE  LookupsIn(g, n) = LookupsIn(f, n)
  <1>1. g \in [Vnodes -> VnodeData]
    BY Replaced
  <1>2. \A u \in Vnodes : g[u].nlookup = f[u].nlookup /\ g[u].nodeid = f[u].nodeid
    BY Replaced
  <1>3. ASSUME NEW u \in Vnodes, NEW i \in Nat PROVE <<u, i>> \in LookupsIn(g, n) <=> <<u, i>> \in LookupsIn(f, n)
    <2>1. <<u, i>> \in LookupsIn(g, n) <=> g[u].nodeid = n /\ 1 =< i /\ i =< g[u].nlookup
      BY <1>1, LookupMembers
    <2>2. <<u, i>> \in LookupsIn(f, n) <=> f[u].nodeid = n /\ 1 =< i /\ i =< f[u].nlookup
      BY LookupMembers
    <2> QED BY <1>2, <2>1, <2>2
  <1>4. LookupsIn(g, n) \in SUBSET (Vnodes \X Nat) /\ LookupsIn(f, n) \in SUBSET (Vnodes \X Nat)
    BY <1>1, LookupMembers
  <1>5. SamePairs(LookupsIn(g, n), LookupsIn(f, n))
    BY <1>3 DEF SamePairs
  <1> QED BY <1>4, <1>5, PairsEqual

\* The threads of T that have a lookup of n in hand.
HandsIn(T, n) == {t \in Threads : T[t].pc = "create" /\ T[t].feo.nodeid = n}

\* The lookups in the hands of threads, as a set that depends on the threads alone.
LEMMA InHandIs == ASSUME NEW n PROVE InHand(n) = HandsIn(thr, n) /\ InHand(n)' = HandsIn(thr', n)
BY DEF InHand, HandsIn, At

\* Thread t comes to vnode_create.
LEMMA HandsUp ==
    ASSUME NEW T \in [Threads -> ThreadState], NEW t \in Threads, NEW u \in ThreadState,
           NEW U, Replaces(T, U, t, u), T[t].pc # "create", u.pc = "create",
           NEW n, IsFiniteSet(HandsIn(T, n))
    PROVE  /\ IsFiniteSet(HandsIn(U, n))
           /\ Cardinality(HandsIn(U, n)) = Cardinality(HandsIn(T, n)) + (IF n = u.feo.nodeid THEN 1 ELSE 0)
  <1>0. Cardinality(HandsIn(T, n)) \in Nat
    BY FS_CardinalityType
  <1>1. CASE n # u.feo.nodeid
    <2>1. HandsIn(U, n) = HandsIn(T, n)
      BY <1>1 DEF HandsIn, Replaces
    <2> QED BY <1>0, <1>1, <2>1
  <1>2. CASE n = u.feo.nodeid
    <2>1. HandsIn(U, n) = HandsIn(T, n) \cup {t}
      BY <1>2 DEF HandsIn, Replaces
    <2>2. t \notin HandsIn(T, n)
      BY DEF HandsIn
    <2>3. /\ IsFiniteSet(HandsIn(T, n) \cup {t})
          /\ Cardinality(HandsIn(T, n) \cup {t}) = Cardinality(HandsIn(T, n)) + 1
      BY <2>2, FS_AddElement
    <2> QED BY <1>2, <2>1, <2>3
  <1> QED BY <1>1, <1>2

\* Thread t leaves vnode_create.
LEMMA HandsDown ==
    ASSUME NEW T \in [Threads -> ThreadState], NEW t \in Threads, NEW u \in ThreadState,
           NEW U, Replaces(T, U, t, u), T[t].pc = "create", u.pc # "create",
           NEW n, IsFiniteSet(HandsIn(T, n))
    PROVE  /\ IsFiniteSet(HandsIn(U, n))
           /\ Cardinality(HandsIn(U, n)) = Cardinality(HandsIn(T, n)) - (IF n = T[t].feo.nodeid THEN 1 ELSE 0)
  <1>0. Cardinality(HandsIn(T, n)) \in Nat
    BY FS_CardinalityType
  <1>1. CASE n # T[t].feo.nodeid
    <2>1. HandsIn(U, n) = HandsIn(T, n)
      BY <1>1 DEF HandsIn, Replaces
    <2> QED BY <1>0, <1>1, <2>1
  <1>2. CASE n = T[t].feo.nodeid
    <2>1. HandsIn(U, n) = HandsIn(T, n) \ {t}
      BY <1>2 DEF HandsIn, Replaces
    <2>2. t \in HandsIn(T, n)
      BY <1>2 DEF HandsIn
    <2>3. /\ IsFiniteSet(HandsIn(T, n) \ {t})
          /\ Cardinality(HandsIn(T, n) \ {t}) = Cardinality(HandsIn(T, n)) - 1
      BY <2>2, FS_RemoveElement
    <2> QED BY <1>2, <2>1, <2>3
  <1> QED BY <1>1, <1>2

-----------------------------------------------------------------------------
(* The vnodes, the tree and the names *)

\* A step that changes no vnode, and of the threads only t, which makes no vnode.
LEMMA ThreadStep ==
    ASSUME TypeOK, VnodeInv, NEW t \in Threads, NEW u \in ThreadState,
           thr' = [thr EXCEPT ![t] = u], PlaceOf(u), u.pc # "create",
           UNCHANGED <<vnode, nodes_head>>, ncache' \subseteq ncache
    PROVE  VnodeInv'
  <1>1. Types
    BY TypesFacts
  <1>2. thr'[t] = u /\ \A x \in Threads : x # t => thr'[x] = thr[x]
    BY <1>1 DEF Types
  <1>3. VnodesOk'
    BY DEF VnodeInv, VnodesOk
  <1>4. PlacesOk'
    BY <1>2 DEF VnodeInv, PlacesOk, PlaceOf
  <1>5. CreatorsOk'
    BY <1>2 DEF VnodeInv, CreatorsOk, At
  <1>6. TreeCurrent'
    BY DEF VnodeInv, TreeCurrent
  <1>7. NamesCurrent'
    BY DEF VnodeInv, NamesCurrent
  <1> QED BY <1>3, <1>4, <1>5, <1>6, <1>7 DEF VnodeInv

\* A step that changes neither vnodes nor threads.
LEMMA QuietStep ==
    ASSUME VnodeInv, UNCHANGED <<vnode, nodes_head, ncache, thr>>
    PROVE  VnodeInv'
BY DEF VnodeInv, VnodesOk, PlacesOk, PlaceOf, CreatorsOk, At, TreeCurrent, NamesCurrent

\* The directory and the new vnode of a thread are as PlaceOf says.
LEMMA PlaceFacts ==
    ASSUME VnodeInv, NEW t \in Threads, thr[t].pc \in {"sent", "create"}
    PROVE  /\ thr[t].dvp \in Vnodes /\ vnode[thr[t].dvp].state = "live"
           /\ thr[t].pc = "sent" /\ thr[t].op = "link" => thr[t].vp \in Vnodes /\ vnode[thr[t].vp].state = "live"
           /\ thr[t].pc = "create" =>
                /\ thr[t].op # "link" /\ thr[t].vp \in Vnodes /\ thr[t].feo.nodeid \in Nodes
                /\ vnode[thr[t].vp].state = "new" /\ vnode[thr[t].vp].nodeid = thr[t].feo.nodeid
                /\ vnode[thr[t].vp].type = thr[t].feo.type /\ vnode[thr[t].vp].gen = thr[t].feo.gen
                /\ vnode[thr[t].vp].nlookup = 0
                /\ \A x \in Threads : x # t /\ thr[x].pc = "create" => thr[x].vp # thr[t].vp
  <1>1. PlaceOf(thr[t])
    BY DEF VnodeInv, PlacesOk
  <1> QED BY <1>1 DEF PlaceOf, VnodeInv, VnodesOk, CreatorsOk, At

\* w is vnode v, in use, as an operation that gets it leaves it.
Got(v, w) ==
    /\ w.state = "live" /\ w.nodeid = vnode[v].nodeid
    /\ w.type = vnode[v].type /\ w.gen = vnode[v].gen

\* The step at the end of which thread t is given vnode v: a live one, or the one
\* it made.
LEMMA GivenStep ==
    ASSUME TypeOK, VnodeInv, NEW t \in Threads, thr[t].pc \in {"sent", "create"},
           thr' = [thr EXCEPT ![t] = IdleThread], NEW v \in Vnodes, NEW w \in VnodeData,
           vnode' = [vnode EXCEPT ![v] = w], Got(v, w),
           vnode[v].state = "live" \/ (thr[t].pc = "create" /\ v = thr[t].vp),
           \A n \in NodeIds : nodes_head'[n] = nodes_head[n] \/ (nodes_head'[n] = v /\ n = w.nodeid),
           ncache' \subseteq ncache \cup {<<thr[t].dvp, v>>}
    PROVE  VnodeInv'
  <1>1. Types /\ nodes_head \in [NodeIds -> Vnodes \cup {NULLVP}] /\ ncache \subseteq Vnodes \X Vnodes
    BY TypesFacts
  <1>2. thr'[t] = IdleThread /\ \A x \in Threads : x # t => thr'[x] = thr[x]
    BY <1>1 DEF Types
  <1>3. vnode'[v] = w /\ \A x \in Vnodes : x # v => vnode'[x] = vnode[x]
    BY <1>1 DEF Types
  <1>4. /\ thr[t].dvp \in Vnodes /\ vnode[thr[t].dvp].state = "live"
        /\ thr[t].pc = "create" => \A x \in Threads : x # t /\ thr[x].pc = "create" => thr[x].vp # thr[t].vp
        /\ thr[t].pc = "create" => vnode[thr[t].vp].state = "new" /\ vnode[thr[t].vp].nodeid \in Nodes
    BY PlaceFacts
  <1>5. VnodesOk'
    <2>1. vnode'[Rootvp].state = "live"
      BY <1>3, NodeAssumption DEF VnodeInv, VnodesOk, Got
    <2>2. ASSUME NEW x \in Vnodes
          PROVE  /\ vnode'[x].state \in {"free", "new"} => vnode'[x].nlookup = 0 /\ ~vnode'[x].linked
                 /\ vnode'[x].state # "free" /\ x # Rootvp => vnode'[x].nodeid \in Nodes
      <3>1. CASE x = v
        BY <1>3, <1>4, <3>1 DEF VnodeInv, VnodesOk, Got
      <3>2. CASE x # v
        BY <1>3, <3>2 DEF VnodeInv, VnodesOk
      <3> QED BY <3>1, <3>2
    <2> QED BY <2>1, <2>2 DEF VnodesOk
  <1>6. PlacesOk'
    <2> SUFFICES ASSUME NEW x \in Threads PROVE PlaceOf(thr[x])'
      BY DEF PlacesOk
    <2>1. CASE x = t
      BY <1>2, <2>1 DEF PlaceOf, IdleThread
    <2>2. CASE x # t
      <3>1. PlaceOf(thr[x]) /\ thr'[x] = thr[x]
        BY <1>2, <2>2 DEF VnodeInv, PlacesOk
      <3>2. \A y \in Vnodes : vnode[y].state = "live" => vnode'[y].state = "live"
        BY <1>3 DEF Got
      <3>3. thr[x].pc = "create" => vnode'[thr[x].vp] = vnode[thr[x].vp]
        <4> HAVE thr[x].pc = "create"
        <4>1. thr[x].vp \in Vnodes /\ vnode[thr[x].vp].state = "new"
          BY <3>1 DEF PlaceOf
        <4>2. thr[x].vp # v
          BY <1>4, <2>2, <4>1
        <4> QED BY <1>3, <4>1, <4>2
      <3> QED BY <3>1, <3>2, <3>3 DEF PlaceOf
    <2> QED BY <2>1, <2>2
  <1>7. CreatorsOk'
    BY <1>2 DEF VnodeInv, CreatorsOk, At, IdleThread
  <1>8. \A x \in Vnodes : vnode[x].state \in {"live", "dying"} =>
            vnode'[x].state \in {"live", "dying"} /\ vnode'[x].nodeid = vnode[x].nodeid
    BY <1>3 DEF Got
  <1>9. TreeCurrent'
    <2> SUFFICES ASSUME NEW n \in NodeIds, nodes_head'[n] # NULLVP
                 PROVE  vnode'[nodes_head'[n]].state \in {"live", "dying"} /\ vnode'[nodes_head'[n]].nodeid = n
      BY DEF TreeCurrent
    <2>1. CASE nodes_head'[n] = nodes_head[n]
      <3>1. nodes_head[n] \in Vnodes
        BY <1>1, <2>1
      <3> QED BY <1>8, <2>1, <3>1 DEF VnodeInv, TreeCurrent
    <2>2. CASE nodes_head'[n] = v /\ n = w.nodeid
      BY <1>3, <2>2 DEF Got
    <2> QED BY <2>1, <2>2
  <1>10. NamesCurrent'
    <2> SUFFICES ASSUME NEW e \in ncache', NEW y \in {e[1], e[2]}
                 PROVE  vnode'[y].state \in {"live", "dying"}
      BY DEF NamesCurrent
    <2>1. CASE e \in ncache
      BY <1>1, <1>8, <2>1 DEF VnodeInv, NamesCurrent
    <2>2. CASE e = <<thr[t].dvp, v>>
      BY <1>3, <1>4, <1>8, <2>2 DEF Got
    <2> QED BY <2>1, <2>2
  <1> QED BY <1>5, <1>6, <1>7, <1>9, <1>10 DEF VnodeInv

\* What the daemon answers is an entry of one of its nodes.
LEMMA EntryFacts == ASSUME NEW feo \in Entries
                    PROVE  feo \in EntryData /\ feo.nodeid \in Nodes /\ feo.nodeid \in NodeIds
BY NodeAssumption DEF Entries, EntryData, NodeIds

\* The vnode of an entry whose vnode_create is under way.
LEMMA NewVnodeFacts ==
    ASSUME NEW feo \in EntryData, NEW d \in Vnodes \cup {NULLVP}
    PROVE  /\ NewVnode(feo, d) \in VnodeData /\ NewVnode(feo, d).state = "new"
           /\ NewVnode(feo, d).nodeid = feo.nodeid /\ NewVnode(feo, d).type = feo.type
           /\ NewVnode(feo, d).gen = feo.gen /\ NewVnode(feo, d).nlookup = 0
           /\ ~NewVnode(feo, d).linked
BY DEF NewVnode, NoVnode, VnodeData, EntryData, VTypes, NodeIds

\* A vnode that is not allocated stands for no lookup.
LEMMA NoVnodeFacts == NoVnode \in VnodeData /\ NoVnode.state = "free" /\ NoVnode.nlookup = 0 /\ ~NoVnode.linked
BY DEF NoVnode, VnodeData, VTypes, NodeIds

\* A vnode is taken from the free ones for thread t.
LEMMA NewStep ==
    ASSUME TypeOK, VnodeInv, NEW t \in Threads, thr[t].pc = "sent", thr[t].op # "link",
           NEW v \in Vnodes, vnode[v].state = "free", NEW w \in VnodeData,
           vnode' = [vnode EXCEPT ![v] = w], NEW u \in ThreadState, thr' = [thr EXCEPT ![t] = u],
           u.pc = "create", u.vp = v, u.op = thr[t].op, u.dvp = thr[t].dvp, u.feo.nodeid \in Nodes,
           w.state = "new", w.nlookup = 0, ~w.linked, w.nodeid = u.feo.nodeid,
           w.type = u.feo.type, w.gen = u.feo.gen,
           UNCHANGED <<nodes_head, ncache>>
    PROVE  VnodeInv'
  <1>1. Types /\ nodes_head \in [NodeIds -> Vnodes \cup {NULLVP}] /\ ncache \subseteq Vnodes \X Vnodes
    BY TypesFacts
  <1>2. thr'[t] = u /\ \A x \in Threads : x # t => thr'[x] = thr[x]
    BY <1>1 DEF Types
  <1>3. vnode'[v] = w /\ \A x \in Vnodes : x # v => vnode'[x] = vnode[x]
    BY <1>1 DEF Types
  <1>4. thr[t].dvp \in Vnodes /\ vnode[thr[t].dvp].state = "live"
    BY PlaceFacts
  <1>5. VnodesOk'
    <2>1. vnode'[Rootvp].state = "live"
      BY <1>3, NodeAssumption DEF VnodeInv, VnodesOk
    <2>2. ASSUME NEW x \in Vnodes
          PROVE  /\ vnode'[x].state \in {"free", "new"} => vnode'[x].nlookup = 0 /\ ~vnode'[x].linked
                 /\ vnode'[x].state # "free" /\ x # Rootvp => vnode'[x].nodeid \in Nodes
      <3>1. CASE x = v
        BY <1>3, <3>1
      <3>2. CASE x # v
        BY <1>3, <3>2 DEF VnodeInv, VnodesOk
      <3> QED BY <3>1, <3>2
    <2> QED BY <2>1, <2>2 DEF VnodesOk
  <1>6. \A x \in Vnodes : vnode[x].state # "free" => vnode'[x] = vnode[x]
    BY <1>3
  <1>7. PlacesOk'
    <2> SUFFICES ASSUME NEW x \in Threads PROVE PlaceOf(thr[x])'
      BY DEF PlacesOk
    <2>1. CASE x = t
      BY <1>2, <1>3, <1>4, <1>6, <2>1 DEF PlaceOf
    <2>2. CASE x # t
      BY <1>2, <1>6, <2>2 DEF VnodeInv, PlacesOk, PlaceOf
    <2> QED BY <2>1, <2>2
  <1>8. CreatorsOk'
    <2> SUFFICES ASSUME NEW x \in Threads, NEW y \in Threads, thr'[x].pc = "create", thr'[y].pc = "create",
                        thr'[x].vp = thr'[y].vp, x # y
                 PROVE  FALSE
      BY DEF CreatorsOk, At
    <2>1. \A z \in Threads : z # t /\ thr'[z].pc = "create" => thr'[z].vp # v
      BY <1>2 DEF VnodeInv, PlacesOk, PlaceOf
    <2> QED BY <1>2, <2>1 DEF VnodeInv, CreatorsOk, At
  <1>9. TreeCurrent'
    <2> SUFFICES ASSUME NEW n \in NodeIds, nodes_head[n] # NULLVP
                 PROVE  vnode'[nodes_head[n]].state \in {"live", "dying"} /\ vnode'[nodes_head[n]].nodeid = n
      BY DEF TreeCurrent
    <2>1. nodes_head[n] \in Vnodes
      BY <1>1
    <2> QED BY <1>6, <2>1 DEF VnodeInv, TreeCurrent
  <1>10. NamesCurrent'
    <2> SUFFICES ASSUME NEW e \in ncache, NEW y \in {e[1], e[2]}
                 PROVE  vnode'[y].state \in {"live", "dying"}
      BY DEF NamesCurrent
    <2>1. y \in Vnodes /\ vnode[y].state \in {"live", "dying"}
      BY <1>1 DEF VnodeInv, NamesCurrent
    <2> QED BY <1>6, <2>1
  <1> QED BY <1>5, <1>7, <1>8, <1>9, <1>10 DEF VnodeInv

\* vnode_create fails for thread t.
LEMMA FailStep ==
    ASSUME TypeOK, VnodeInv, NEW t \in Threads, thr[t].pc = "create",
           thr' = [thr EXCEPT ![t] = IdleThread], vnode' = [vnode EXCEPT ![thr[t].vp] = NoVnode],
           UNCHANGED <<nodes_head, ncache>>
    PROVE  VnodeInv'
  <1>1. Types /\ nodes_head \in [NodeIds -> Vnodes \cup {NULLVP}] /\ ncache \subseteq Vnodes \X Vnodes
    BY TypesFacts
  <1>2. thr'[t] = IdleThread /\ \A x \in Threads : x # t => thr'[x] = thr[x]
    BY <1>1 DEF Types
  <1>3. /\ thr[t].vp \in Vnodes /\ vnode[thr[t].vp].state = "new"
        /\ \A x \in Threads : x # t /\ thr[x].pc = "create" => thr[x].vp # thr[t].vp
    BY PlaceFacts
  <1>4. vnode'[thr[t].vp] = NoVnode /\ \A x \in Vnodes : x # thr[t].vp => vnode'[x] = vnode[x]
    BY <1>1, <1>3 DEF Types
  <1>5. VnodesOk'
    <2>1. vnode'[Rootvp].state = "live"
      BY <1>3, <1>4, NodeAssumption DEF VnodeInv, VnodesOk
    <2>2. ASSUME NEW x \in Vnodes
          PROVE  /\ vnode'[x].state \in {"free", "new"} => vnode'[x].nlookup = 0 /\ ~vnode'[x].linked
                 /\ vnode'[x].state # "free" /\ x # Rootvp => vnode'[x].nodeid \in Nodes
      <3>1. CASE x = thr[t].vp
        BY <1>4, <3>1, NoVnodeFacts
      <3>2. CASE x # thr[t].vp
        BY <1>4, <3>2 DEF VnodeInv, VnodesOk
      <3> QED BY <3>1, <3>2
    <2> QED BY <2>1, <2>2 DEF VnodesOk
  <1>6. \A x \in Vnodes : vnode[x].state \in {"live", "dying"} => vnode'[x] = vnode[x]
    BY <1>3, <1>4
  <1>7. PlacesOk'
    <2> SUFFICES ASSUME NEW x \in Threads PROVE PlaceOf(thr[x])'
      BY DEF PlacesOk
    <2>1. CASE x = t
      BY <1>2, <2>1 DEF PlaceOf, IdleThread
    <2>2. CASE x # t
      BY <1>2, <1>3, <1>4, <1>6, <2>2 DEF VnodeInv, PlacesOk, PlaceOf
    <2> QED BY <2>1, <2>2
  <1>8. CreatorsOk'
    BY <1>2 DEF VnodeInv, CreatorsOk, At, IdleThread
  <1>9. TreeCurrent'
    <2> SUFFICES ASSUME NEW n \in NodeIds, nodes_head[n] # NULLVP
                 PROVE  vnode'[nodes_head[n]].state \in {"live", "dying"} /\ vnode'[nodes_head[n]].nodeid = n
      BY DEF TreeCurrent
    <2>1. nodes_head[n] \in Vnodes
      BY <1>1
    <2> QED BY <1>6, <2>1 DEF VnodeInv, TreeCurrent
  <1>10. NamesCurrent'
    <2> SUFFICES ASSUME NEW e \in ncache, NEW y \in {e[1], e[2]}
                 PROVE  vnode'[y].state \in {"live", "dying"}
      BY DEF NamesCurrent
    <2>1. y \in Vnodes /\ vnode[y].state \in {"live", "dying"}
      BY <1>1 DEF VnodeInv, NamesCurrent
    <2> QED BY <1>6, <2>1
  <1> QED BY <1>5, <1>7, <1>8, <1>9, <1>10 DEF VnodeInv

\* xnu recycles a vnode that no operation uses.
LEMMA TerminateStep ==
    ASSUME TypeOK, VnodeInv, NEW v \in Vnodes, Terminate(v)
    PROVE  VnodeInv'
  <1>1. Types /\ nodes_head \in [NodeIds -> Vnodes \cup {NULLVP}] /\ ncache \subseteq Vnodes \X Vnodes
    BY TypesFacts
  <1>2. /\ vnode[v].state = "live" /\ v # Rootvp /\ UNCHANGED <<nodes_head, ncache, thr>>
        /\ \A t \in Threads : v # thr[t].dvp /\ v # thr[t].vp
    BY DEF Terminate, InUse, Live
  <1>3. /\ vnode'[v].state = "dying" /\ vnode'[v].nodeid = vnode[v].nodeid
        /\ \A x \in Vnodes : x # v => vnode'[x] = vnode[x]
    BY <1>1 DEF Terminate, Types, VnodeData
  <1>4. VnodesOk'
    BY <1>2, <1>3, NodeAssumption DEF VnodeInv, VnodesOk
  <1>5. PlacesOk'
    <2> SUFFICES ASSUME NEW x \in Threads PROVE PlaceOf(thr[x])'
      BY DEF PlacesOk
    <2> QED BY <1>2, <1>3 DEF VnodeInv, PlacesOk, PlaceOf
  <1>6. CreatorsOk'
    BY <1>2 DEF VnodeInv, CreatorsOk, At
  <1>7. \A x \in Vnodes : vnode[x].state \in {"live", "dying"} =>
            vnode'[x].state \in {"live", "dying"} /\ vnode'[x].nodeid = vnode[x].nodeid
    BY <1>3
  <1>8. TreeCurrent'
    <2> SUFFICES ASSUME NEW n \in NodeIds, nodes_head[n] # NULLVP
                 PROVE  vnode'[nodes_head[n]].state \in {"live", "dying"} /\ vnode'[nodes_head[n]].nodeid = n
      BY <1>2 DEF TreeCurrent
    <2>1. nodes_head[n] \in Vnodes
      BY <1>1
    <2> QED BY <1>7, <2>1 DEF VnodeInv, TreeCurrent
  <1>9. NamesCurrent'
    <2> SUFFICES ASSUME NEW e \in ncache, NEW y \in {e[1], e[2]}
                 PROVE  vnode'[y].state \in {"live", "dying"}
      BY <1>2 DEF NamesCurrent
    <2>1. y \in Vnodes /\ vnode[y].state \in {"live", "dying"}
      BY <1>1 DEF VnodeInv, NamesCurrent
    <2> QED BY <1>7, <2>1
  <1> QED BY <1>4, <1>5, <1>6, <1>8, <1>9 DEF VnodeInv

\* Whichever way RB_REMOVE of v goes, it leaves no pointer to v and brings in only
\* vnodes that are in the tree of a node of their own.
LEMMA RbRemoveFacts ==
    ASSUME TypeOK, VnodeInv, NEW v \in Vnodes, vnode[v].state = "dying",
           NEW g \in RbRemove(nodes_head, v)
    PROVE  /\ g \in [NodeIds -> Vnodes \cup {NULLVP}]
           /\ \A n \in NodeIds : g[n] # NULLVP =>
                g[n] # v /\ vnode[g[n]].state \in {"live", "dying"} /\ vnode[g[n]].nodeid = n
  <1>1. Types /\ nodes_head \in [NodeIds -> Vnodes \cup {NULLVP}]
    BY TypesFacts
  <1>2. vnode[v].nodeid \in NodeIds /\ v # NULLVP
    BY <1>1, NodeAssumption DEF Types, VnodeData
  <1>3. \A n \in NodeIds : nodes_head[n] # NULLVP =>
           vnode[nodes_head[n]].state \in {"live", "dying"} /\ vnode[nodes_head[n]].nodeid = n
    BY DEF VnodeInv, TreeCurrent
  <1>4. CASE nodes_head[vnode[v].nodeid] = v
    <2>1. g = [nodes_head EXCEPT ![vnode[v].nodeid] = NULLVP]
      BY <1>4 DEF RbRemove
    <2>2. g \in [NodeIds -> Vnodes \cup {NULLVP}]
      BY <1>1, <2>1
    <2>3. \A n \in NodeIds : g[n] # NULLVP => n # vnode[v].nodeid /\ g[n] = nodes_head[n]
      BY <1>1, <1>2, <2>1
    <2> QED BY <1>3, <2>2, <2>3
  <1>5. CASE nodes_head[vnode[v].nodeid] # v /\ ~vnode[v].linked
    <2>1. g = [n \in NodeIds |-> NULLVP]
      BY <1>5 DEF RbRemove
    <2> QED BY <2>1
  <1>6. CASE nodes_head[vnode[v].nodeid] # v /\ vnode[v].linked
    <2>1. /\ g \in [NodeIds -> Vnodes \cup {NULLVP}]
          /\ \A n \in NodeIds : g[n] \in {NULLVP, nodes_head[n]} \cup {u \in Orphans \ {v} : vnode[u].nodeid = n}
      BY <1>6 DEF RbRemove
    <2>2. \A u \in Orphans : u \in Vnodes /\ vnode[u].state \in {"live", "dying"}
      <3>1. ASSUME NEW u \in Vnodes, vnode[u].linked PROVE vnode[u].state \in {"live", "dying"}
        BY <1>1, <3>1 DEF Types, VnodeData, VnodeInv, VnodesOk
      <3> QED BY <3>1 DEF Orphans
    <2>3. ASSUME NEW n \in NodeIds, g[n] # NULLVP
          PROVE  g[n] # v /\ vnode[g[n]].state \in {"live", "dying"} /\ vnode[g[n]].nodeid = n
      <3>1. CASE g[n] = nodes_head[n]
        BY <1>3, <1>6, <2>3, <3>1
      <3>2. CASE g[n] \in {u \in Orphans \ {v} : vnode[u].nodeid = n}
        BY <2>2, <3>2
      <3> QED BY <2>1, <2>3, <3>1, <3>2
    <2> QED BY <2>1, <2>3
  <1> QED BY <1>4, <1>5, <1>6

\* fuse_vnop_reclaim
LEMMA ReclaimStep ==
    ASSUME TypeOK, VnodeInv, NEW v \in Vnodes, Reclaim(v)
    PROVE  VnodeInv'
  <1>1. Types /\ nodes_head \in [NodeIds -> Vnodes \cup {NULLVP}] /\ ncache \subseteq Vnodes \X Vnodes
    BY TypesFacts
  <1>2. /\ vnode[v].state = "dying" /\ UNCHANGED thr
        /\ ncache' = Purge(ncache, v)
        /\ nodes_head' \in RbRemove(nodes_head, v)
        /\ vnode' = [vnode EXCEPT ![v] = NoVnode]
    BY DEF Reclaim
  <1>3. vnode'[v] = NoVnode /\ \A x \in Vnodes : x # v => vnode'[x] = vnode[x]
    BY <1>1, <1>2 DEF Types
  <1>4. v # Rootvp
    BY <1>2 DEF VnodeInv, VnodesOk
  <1>5. VnodesOk'
    BY <1>3, <1>4, NoVnodeFacts, NodeAssumption DEF VnodeInv, VnodesOk
  <1>6. PlacesOk'
    <2> SUFFICES ASSUME NEW x \in Threads PROVE PlaceOf(thr[x])'
      BY DEF PlacesOk
    <2> QED BY <1>2, <1>3 DEF VnodeInv, PlacesOk, PlaceOf
  <1>7. CreatorsOk'
    BY <1>2 DEF VnodeInv, CreatorsOk, At
  <1>8. TreeCurrent'
    <2> SUFFICES ASSUME NEW n \in NodeIds, nodes_head'[n] # NULLVP
                 PROVE  vnode'[nodes_head'[n]].state \in {"live", "dying"} /\ vnode'[nodes_head'[n]].nodeid = n
      BY DEF TreeCurrent
    <2> PICK g \in RbRemove(nodes_head, v) : g = nodes_head' BY <1>2
    <2>1. g \in [NodeIds -> Vnodes \cup {NULLVP}] /\ g[n] # v
          /\ vnode[g[n]].state \in {"live", "dying"} /\ vnode[g[n]].nodeid = n
      BY <1>2, RbRemoveFacts
    <2>2. g[n] \in Vnodes
      BY <2>1
    <2> QED BY <1>3, <2>1, <2>2
  <1>9. NamesCurrent'
    <2> SUFFICES ASSUME NEW e \in ncache', NEW y \in {e[1], e[2]}
                 PROVE  vnode'[y].state \in {"live", "dying"}
      BY DEF NamesCurrent
    <2>1. e \in ncache /\ y # v
      BY <1>2 DEF Purge
    <2>2. y \in Vnodes /\ vnode[y].state \in {"live", "dying"}
      BY <1>1, <2>1 DEF VnodeInv, NamesCurrent
    <2> QED BY <1>3, <2>1, <2>2
  <1> QED BY <1>5, <1>6, <1>7, <1>8, <1>9 DEF VnodeInv

-----------------------------------------------------------------------------
(* The account *)

\* In a step the daemon comes to count d more lookups of n, vnodes stand for c
\* more, threads have h more in hand, f more are being forgotten, r more are in
\* RELEASE messages and l more are lost.
Adds(n, d, c, h, f, r, l) ==
    /\ daemon'[n] = daemon[n] + d /\ forgets'[n] = forgets[n] + f
    /\ releasing'[n] = releasing[n] + r /\ lost'[n] = lost[n] + l
    /\ IsFiniteSet(Counted(n)') /\ Cardinality(Counted(n)') = Cardinality(Counted(n)) + c
    /\ IsFiniteSet(InHand(n)') /\ Cardinality(InHand(n)') = Cardinality(InHand(n)) + h

\* What a step adds on both sides of the account is the same.
Balanced == \A n \in Nodes : \E d, c, h, f, r, l \in Int :
                Adds(n, d, c, h, f, r, l) /\ d = c + h + f + r + l

\* A step that adds the same to both sides keeps the account.
LEMMA BalancedStep ==
    ASSUME TypeOK, AccountOk, ~dead, Balanced
    PROVE  AccountOk'
  <1> SUFFICES ASSUME NEW n \in Nodes
               PROVE  /\ IsFiniteSet(Counted(n)') /\ IsFiniteSet(InHand(n)')
                      /\ daemon'[n] = Cardinality(Counted(n)') + Cardinality(InHand(n)')
                                        + forgets'[n] + releasing'[n] + lost'[n]
    BY DEF AccountOk
  <1> PICK d \in Int, c \in Int, h \in Int, f \in Int, r \in Int, l \in Int :
           Adds(n, d, c, h, f, r, l) /\ d = c + h + f + r + l
    BY DEF Balanced
  <1> PICK a, b : a = Cardinality(Counted(n)) /\ b = Cardinality(InHand(n)) OBVIOUS
  <1>1. /\ IsFiniteSet(Counted(n)) /\ IsFiniteSet(InHand(n))
        /\ daemon[n] = a + b + forgets[n] + releasing[n] + lost[n]
    BY DEF AccountOk
  <1>2. a \in Nat /\ b \in Nat
    BY <1>1, FS_CardinalityType
  <1>3. daemon[n] \in Nat /\ forgets[n] \in Nat /\ releasing[n] \in Nat /\ lost[n] \in Nat
    BY TypesFacts DEF Counts
  <1>4. /\ daemon'[n] = daemon[n] + d /\ forgets'[n] = forgets[n] + f
        /\ releasing'[n] = releasing[n] + r /\ lost'[n] = lost[n] + l
        /\ IsFiniteSet(Counted(n)') /\ Cardinality(Counted(n)') = a + c
        /\ IsFiniteSet(InHand(n)') /\ Cardinality(InHand(n)') = b + h
    BY DEF Adds
  <1> QED BY <1>1, <1>2, <1>3, <1>4

\* A vnode that is live after a step was live before it, of the same node and for
\* no fewer lookups, or has been counted, or create has lost its lookup.
LEMMA KnownStep ==
    ASSUME TypeOK, VnodeInv, KnownOk, ~dead,
           \A n \in Nodes : lost'[n] \in Nat /\ lost'[n] >= lost[n],
           \A v \in Vnodes \ {Rootvp} : vnode'[v].state = "live" =>
             \/ /\ vnode[v].state = "live" /\ vnode'[v].nodeid = vnode[v].nodeid
                /\ vnode'[v].nlookup \in Nat /\ vnode'[v].nlookup >= vnode[v].nlookup
             \/ vnode'[v].nlookup > 0
             \/ lost'[vnode'[v].nodeid] > 0
    PROVE  KnownOk'
  <1> SUFFICES ASSUME NEW v \in Vnodes \ {Rootvp}, vnode'[v].state = "live"
               PROVE  vnode'[v].nlookup > 0 \/ lost'[vnode'[v].nodeid] > 0
    BY DEF KnownOk, Live
  <1>1. CASE /\ vnode[v].state = "live" /\ vnode'[v].nodeid = vnode[v].nodeid
             /\ vnode'[v].nlookup \in Nat /\ vnode'[v].nlookup >= vnode[v].nlookup
    <2>1. vnode[v].nodeid \in Nodes
      BY <1>1 DEF VnodeInv, VnodesOk
    <2>2. vnode[v].nlookup \in Nat /\ lost[vnode[v].nodeid] \in Nat
      BY <2>1, TypesFacts DEF Types, VnodeData, Counts
    <2>3. vnode[v].nlookup > 0 \/ lost[vnode[v].nodeid] > 0
      BY <1>1 DEF KnownOk, Live
    <2> QED BY <1>1, <2>1, <2>2, <2>3
  <1>2. CASE vnode'[v].nlookup > 0 \/ lost'[vnode'[v].nodeid] > 0
    BY <1>2
  <1> QED BY <1>1, <1>2

\* Counter g is f with k more for node m.
Up(f, g, m, k) == g \in Counts /\ g[m] = f[m] + k /\ \A n \in Nodes : n # m => g[n] = f[n]

\* The sets of the account in a step that changes neither vnodes nor who makes one.
LEMMA SameLookups == ASSUME UNCHANGED vnode, NEW n PROVE Counted(n)' = Counted(n)
BY DEF Counted

\* A thread that is not about to create a vnode has no lookup in its hands.
LEMMA SameHands ==
    ASSUME Types, NEW t \in Threads, NEW u \in ThreadState, thr' = [thr EXCEPT ![t] = u],
           thr[t].pc # "create", u.pc # "create", NEW n
    PROVE  InHand(n)' = InHand(n)
  <1>1. HandsIn(thr', n) = HandsIn(thr, n)
    BY DEF Types, HandsIn
  <1> QED BY <1>1, InHandIs

\* The sets of the account and their size are finite numbers.
LEMMA AccountNumbers ==
    ASSUME TypeOK, AccountOk, ~dead, NEW n \in Nodes
    PROVE  /\ IsFiniteSet(Counted(n)) /\ Cardinality(Counted(n)) \in Nat
           /\ IsFiniteSet(InHand(n)) /\ Cardinality(InHand(n)) \in Nat
           /\ daemon[n] \in Nat /\ forgets[n] \in Nat /\ releasing[n] \in Nat /\ lost[n] \in Nat
  <1>1. IsFiniteSet(Counted(n)) /\ IsFiniteSet(InHand(n))
    BY DEF AccountOk
  <1>2. Cardinality(Counted(n)) \in Nat /\ Cardinality(InHand(n)) \in Nat
    BY <1>1, FS_CardinalityType
  <1> QED BY <1>1, <1>2, TypesFacts DEF Counts

\* Neither vnodes nor makers change, and the counters go up by d, f, r and l for m.
LEMMA CountersStep ==
    ASSUME NodeInv, ~dead, UNCHANGED vnode, \A n \in Nodes : InHand(n)' = InHand(n),
           NEW m \in Nodes, NEW d \in Nat, NEW f \in Nat, NEW r \in Nat, NEW l \in Nat, d = f + r + l,
           Up(daemon, daemon', m, d), Up(forgets, forgets', m, f),
           Up(releasing, releasing', m, r), Up(lost, lost', m, l)
    PROVE  /\ daemon' \in Counts /\ forgets' \in Counts /\ releasing' \in Counts /\ lost' \in Counts
           /\ AccountOk' /\ KnownOk'
  <1>0. TypeOK /\ VnodeInv /\ AccountOk /\ KnownOk
    BY DEF NodeInv, AccountInv
  <1>1. daemon \in Counts /\ forgets \in Counts /\ releasing \in Counts /\ lost \in Counts
    BY <1>0, TypesFacts
  <1>2. /\ daemon' \in Counts /\ daemon'[m] = daemon[m] + d
        /\ \A n \in Nodes : n # m => daemon'[n] = daemon[n]
    BY <1>1 DEF Up, Counts
  <1>3. /\ forgets' \in Counts /\ forgets'[m] = forgets[m] + f
        /\ \A n \in Nodes : n # m => forgets'[n] = forgets[n]
    BY <1>1 DEF Up, Counts
  <1>4. /\ releasing' \in Counts /\ releasing'[m] = releasing[m] + r
        /\ \A n \in Nodes : n # m => releasing'[n] = releasing[n]
    BY <1>1 DEF Up, Counts
  <1>5. /\ lost' \in Counts /\ lost'[m] = lost[m] + l
        /\ \A n \in Nodes : n # m => lost'[n] = lost[n]
        /\ \A n \in Nodes : lost'[n] \in Nat /\ lost'[n] >= lost[n]
    BY <1>1 DEF Up, Counts
  <1>6. Balanced
    <2> SUFFICES ASSUME NEW n \in Nodes
                 PROVE  \E dd, c, h, ff, rr, ll \in Int :
                           Adds(n, dd, c, h, ff, rr, ll) /\ dd = c + h + ff + rr + ll
      BY DEF Balanced
    <2>1. /\ IsFiniteSet(Counted(n)) /\ Cardinality(Counted(n)) \in Nat
          /\ IsFiniteSet(InHand(n)) /\ Cardinality(InHand(n)) \in Nat
          /\ daemon[n] \in Nat /\ forgets[n] \in Nat /\ releasing[n] \in Nat /\ lost[n] \in Nat
      BY <1>0, AccountNumbers
    <2>2. Counted(n)' = Counted(n) /\ InHand(n)' = InHand(n)
      BY SameLookups
    <2>3. CASE n = m
      <3>1. Adds(n, d, 0, 0, f, r, l)
        BY <1>2, <1>3, <1>4, <1>5, <2>1, <2>2, <2>3 DEF Adds
      <3>2. d = 0 + 0 + f + r + l
        OBVIOUS
      <3> QED BY <3>1, <3>2
    <2>4. CASE n # m
      <3>1. Adds(n, 0, 0, 0, 0, 0, 0)
        BY <1>2, <1>3, <1>4, <1>5, <2>1, <2>2, <2>4 DEF Adds
      <3>2. 0 = 0 + 0 + 0 + 0 + 0
        OBVIOUS
      <3> QED BY <3>1, <3>2
    <2> QED BY <2>3, <2>4
  <1>7. AccountOk'
    BY <1>0, <1>6, BalancedStep
  <1>8. KnownOk'
    <2>1. \A v \in Vnodes : vnode[v].nlookup \in Nat
      BY <1>0, TypesFacts DEF Types, VnodeData
    <2>2. \A v \in Vnodes \ {Rootvp} : vnode'[v].state = "live" =>
             \/ /\ vnode[v].state = "live" /\ vnode'[v].nodeid = vnode[v].nodeid
                /\ vnode'[v].nlookup \in Nat /\ vnode'[v].nlookup >= vnode[v].nlookup
             \/ vnode'[v].nlookup > 0
             \/ lost'[vnode'[v].nodeid] > 0
      BY <2>1
    <2> QED BY <1>0, <1>5, <2>2, KnownStep
  <1> QED BY <1>2, <1>3, <1>4, <1>5, <1>7, <1>8

-----------------------------------------------------------------------------
(* The steps that change no vnode *)

\* The type invariant, put together again after a step.
LEMMA TypeAgain ==
    ASSUME vnode' \in [Vnodes -> VnodeData], thr' \in [Threads -> ThreadState],
           nodes_head' \in [NodeIds -> Vnodes \cup {NULLVP}], ncache' \subseteq Vnodes \X Vnodes,
           dead' \in BOOLEAN, daemon' \in Counts, forgets' \in Counts, releasing' \in Counts, lost' \in Counts
    PROVE  TypeOK'
BY DEF TypeOK, VnodeData, ThreadState, EntryData, Counts

\* What the invariant consists of.
LEMMA Parts == NodeInv =>
    /\ TypeOK /\ VnodeInv /\ AccountInv /\ AccountOk /\ DeadOk /\ KnownOk
    /\ vnode \in [Vnodes -> VnodeData] /\ thr \in [Threads -> ThreadState] /\ Types
    /\ nodes_head \in [NodeIds -> Vnodes \cup {NULLVP}] /\ ncache \subseteq Vnodes \X Vnodes
    /\ dead \in BOOLEAN /\ daemon \in Counts /\ forgets \in Counts /\ releasing \in Counts /\ lost \in Counts
BY TypesFacts DEF NodeInv, AccountInv, Types

\* The state of a thread without an operation is well typed.
LEMMA IdleThreadType == IdleThread \in ThreadState /\ IdleThread.pc = "idle"
BY DEF IdleThread, NoEntry, ThreadState, EntryData, Pcs, Ops, VTypes, NodeIds

\* An idle thread has no place to justify.
LEMMA IdlePlace == PlaceOf(IdleThread)
BY IdleThreadType DEF PlaceOf

\* The account is left alone.
LEMMA SameAccount ==
    ASSUME AccountInv, UNCHANGED <<vnode, dead, account>>, \A n \in Nodes : InHand(n)' = InHand(n)
    PROVE  AccountInv'
  <1>1. AccountOk'
    BY SameLookups DEF AccountInv, AccountOk, account
  <1> QED BY <1>1 DEF AccountInv, DeadOk, KnownOk, Live, account

\* Thread t moves, and nothing else changes.
LEMMA MoveStep ==
    ASSUME NodeInv, NEW t \in Threads, NEW u \in ThreadState, thr' = [thr EXCEPT ![t] = u],
           PlaceOf(u), u.pc # "create", thr[t].pc # "create",
           UNCHANGED <<vnode, nodes_head, ncache, dead, account>>
    PROVE  NodeInv'
  <1> USE Parts
  <1>1. VnodeInv'
    BY ThreadStep
  <1>2. \A n \in Nodes : InHand(n)' = InHand(n)
    BY SameHands
  <1>3. AccountInv'
    BY <1>2, SameAccount
  <1>4. thr' \in [Threads -> ThreadState]
    OBVIOUS
  <1>5. TypeOK'
    BY <1>4, TypeAgain DEF account
  <1> QED BY <1>1, <1>3, <1>5 DEF NodeInv

\* An operation begins: no vnode and no count changes.
LEMMA BeginOk ==
    ASSUME NodeInv, NEW t \in Threads, Begin(t)
    PROVE  NodeInv'
  <1> PICK op \in {"lookup", "create", "good_old", "link"}, d \in Vnodes, v \in Vnodes \cup {NULLVP} :
           Begins(t, op, d, v) /\ (op = "link" => v \in Vnodes)
    BY DEF Begin, Lookup, Mkdir, Mknod, Symlink, Newentry, Create, Link
  <1> PICK u : u = [IdleThread EXCEPT !.pc = "sent", !.op = op, !.dvp = d, !.vp = v] OBVIOUS
  <1>1. u \in ThreadState /\ u.pc = "sent" /\ u.op = op /\ u.dvp = d /\ u.vp = v
    BY IdleThreadType DEF IdleThread, ThreadState, Pcs, Ops
  <1>2. /\ thr[t].pc = "idle" /\ vnode[d].state = "live" /\ (v # NULLVP => vnode[v].state = "live")
        /\ thr' = [thr EXCEPT ![t] = u]
        /\ UNCHANGED <<vnode, nodes_head, ncache, dead, account>>
    BY DEF Begins, At, Live
  <1>3. PlaceOf(u)
    BY <1>1, <1>2, NodeAssumption DEF PlaceOf
  <1> QED BY <1>1, <1>2, <1>3, MoveStep

\* The daemon refuses the request and counts nothing.
LEMMA AnswerErrorOk ==
    ASSUME NodeInv, NEW t \in Threads, AnswerError(t)
    PROVE  NodeInv'
  <1>1. thr[t].pc = "sent" /\ thr' = [thr EXCEPT ![t] = IdleThread]
    BY DEF AnswerError, At, Ends
  <1> QED BY <1>1, IdleThreadType, IdlePlace, MoveStep DEF AnswerError

\* Thread t is answered with a lookup of m and drops it, gives it up or loses it.
LEMMA DropStep ==
    ASSUME NodeInv, ~dead, NEW t \in Threads, thr[t].pc = "sent", thr' = [thr EXCEPT ![t] = IdleThread],
           UNCHANGED <<vnode, nodes_head, dead>>, ncache' \subseteq ncache,
           NEW m \in Nodes, NEW f \in Nat, NEW r \in Nat, NEW l \in Nat, f + r + l = 1,
           Up(daemon, daemon', m, 1), Up(forgets, forgets', m, f),
           Up(releasing, releasing', m, r), Up(lost, lost', m, l)
    PROVE  NodeInv'
  <1> USE Parts
  <1>1. VnodeInv'
    BY IdleThreadType, IdlePlace, ThreadStep
  <1>2. \A n \in Nodes : InHand(n)' = InHand(n)
    BY IdleThreadType, SameHands
  <1>3. /\ daemon' \in Counts /\ forgets' \in Counts /\ releasing' \in Counts /\ lost' \in Counts
        /\ AccountOk' /\ KnownOk'
    <2>1. 1 = f + r + l /\ 1 \in Nat
      OBVIOUS
    <2> QED BY <1>2, <2>1, CountersStep
  <1>4. thr' \in [Threads -> ThreadState]
    BY IdleThreadType
  <1>5. TypeOK'
    BY <1>3, <1>4, TypeAgain
  <1>6. DeadOk'
    BY DEF DeadOk
  <1> QED BY <1>1, <1>3, <1>5, <1>6 DEF NodeInv, AccountInv

\* A counter that is left alone.
LEMMA UpZero == ASSUME NEW f \in Counts, NEW m \in Nodes PROVE Up(f, f, m, 0)
BY DEF Up, Counts

\* When the daemon answers with a node it counts one lookup of it.
LEMMA AnswersFacts ==
    ASSUME NodeInv, NEW t \in Threads, NEW n \in Nodes, Answers(t, n)
    PROVE  thr[t].pc = "sent" /\ ~dead /\ Up(daemon, daemon', n, 1)
BY Parts DEF Answers, At, Up, Counts

\* The lookup of n that thread t gives up is sent, or waits for a RELEASE.
LEMMA GivesUpFacts ==
    ASSUME NodeInv, ~dead, NEW t \in Threads, NEW n \in Nodes, GivesUp(t, n)
    PROVE  \E f, r \in Nat : f + r = 1 /\ Up(forgets, forgets', n, f) /\ Up(releasing, releasing', n, r)
  <1> USE Parts
  <1>1. CASE thr[t].op = "create"
    <2>1. Up(releasing, releasing', n, 1) /\ UNCHANGED forgets
      BY <1>1 DEF GivesUp, Up, Counts
    <2>2. Up(forgets, forgets', n, 0)
      BY <2>1, UpZero
    <2> QED BY <2>1, <2>2
  <1>2. CASE thr[t].op # "create"
    <2>1. Up(forgets, forgets', n, 1) /\ UNCHANGED releasing
      BY <1>2 DEF GivesUp, ForgetSend, Up, Counts
    <2>2. Up(releasing, releasing', n, 0)
      BY <2>1, UpZero
    <2> QED BY <2>1, <2>2
  <1> QED BY <1>1, <1>2

\* An answer the code refuses is lost: nobody forgets its lookup.
LEMMA RefusedOk ==
    ASSUME NodeInv, NEW t \in Threads, NEW n \in Nodes, Refused(t, n)
    PROVE  NodeInv'
  <1> USE Parts
  <1>1. thr[t].pc = "sent" /\ ~dead /\ Up(daemon, daemon', n, 1)
    BY AnswersFacts DEF Refused
  <1>2. /\ thr' = [thr EXCEPT ![t] = IdleThread] /\ ncache' \subseteq ncache
        /\ UNCHANGED <<vnode, nodes_head, dead>> /\ UNCHANGED <<forgets, releasing>>
    BY DEF Refused, Ends
  <1>3. Up(lost, lost', n, 1)
    BY DEF Refused, Up, Counts
  <1>4. Up(forgets, forgets', n, 0) /\ Up(releasing, releasing', n, 0)
    BY <1>2, UpZero
  <1>5. 0 + 0 + 1 = 1 /\ 0 \in Nat /\ 1 \in Nat
    OBVIOUS
  <1> QED BY <1>1, <1>2, <1>3, <1>4, <1>5, DropStep

\* A lookup that is given up is forgotten, or released, and the vnodes stay.
LEMMA GivesUpStep ==
    ASSUME NodeInv, NEW t \in Threads, NEW feo \in Entries, Answers(t, feo.nodeid), GivesUp(t, feo.nodeid),
           UNCHANGED <<vnode, nodes_head>>, ncache' \subseteq ncache
    PROVE  NodeInv'
  <1> USE Parts
  <1>0. feo.nodeid \in Nodes
    BY EntryFacts
  <1>1. thr[t].pc = "sent" /\ ~dead /\ Up(daemon, daemon', feo.nodeid, 1)
    BY <1>0, AnswersFacts
  <1>2. thr' = [thr EXCEPT ![t] = IdleThread] /\ UNCHANGED <<dead, lost>>
    BY DEF GivesUp, Ends
  <1>3. PICK f \in Nat, r \in Nat : f + r = 1 /\ Up(forgets, forgets', feo.nodeid, f)
                                              /\ Up(releasing, releasing', feo.nodeid, r)
    BY <1>0, <1>1, GivesUpFacts
  <1>4. Up(lost, lost', feo.nodeid, 0)
    BY <1>0, <1>2, UpZero
  <1>5. f + r + 0 = 1 /\ 0 \in Nat
    BY <1>3
  <1> QED BY <1>0, <1>1, <1>2, <1>3, <1>4, <1>5, DropStep

\* An answer of mode 0 is given up.
LEMMA NoModeOk ==
    ASSUME NodeInv, NEW t \in Threads, NEW feo \in Entries, NoMode(t, feo)
    PROVE  NodeInv'
BY GivesUpStep DEF NoMode

\* An answer for a node whose vnode has another type or generation is given up.
LEMMA GetStaleOk ==
    ASSUME NodeInv, NEW t \in Threads, NEW feo \in Entries, GetStale(t, feo)
    PROVE  NodeInv'
  <1>1. ncache' \subseteq ncache
    BY DEF GetStale, Purge
  <1> QED BY <1>1, GivesUpStep DEF GetStale, Gets

-----------------------------------------------------------------------------
(* The steps that give a thread its vnode *)

\* The lookups of node n after vnode v was given: one more if it was counted.
LEMMA GivenLookups ==
    ASSUME Types, NEW v \in Vnodes, NEW w \in VnodeData, vnode' = [vnode EXCEPT ![v] = w],
           w.nodeid = vnode[v].nodeid, NEW c \in {0, 1}, w.nlookup = vnode[v].nlookup + c,
           NEW n, IsFiniteSet(Counted(n)), Cardinality(Counted(n)) \in Nat
    PROVE  /\ IsFiniteSet(Counted(n)')
           /\ Cardinality(Counted(n)') = Cardinality(Counted(n)) + (IF n = w.nodeid THEN c ELSE 0)
  <1> PICK g : g = vnode' OBVIOUS
  <1> PICK f \in [Vnodes -> VnodeData] : f = vnode BY DEF Types
  <1>1. Counted(n) = LookupsIn(f, n) /\ Counted(n)' = LookupsIn(g, n)
    BY CountedIs
  <1>2. /\ Replaces(f, g, v, w) /\ w.nodeid = f[v].nodeid
        /\ w.nlookup = f[v].nlookup + c /\ f[v].nlookup \in Nat
    BY DEF VnodeData, Replaces
  <1>3. CASE c = 1
    BY <1>1, <1>2, <1>3, LookupsUp
  <1>4. CASE c = 0
    <2>1. LookupsIn(g, n) = LookupsIn(f, n)
      BY <1>2, <1>4, LookupsKept
    <2> QED BY <1>1, <1>4, <2>1
  <1> QED BY <1>3, <1>4

\* The lookups of n in hand when thread t ends: one fewer if it had one of n.
LEMMA EndedHands ==
    ASSUME Types, NEW t \in Threads, thr' = [thr EXCEPT ![t] = IdleThread],
           NEW n, IsFiniteSet(InHand(n)), Cardinality(InHand(n)) \in Nat
    PROVE  /\ IsFiniteSet(InHand(n)')
           /\ Cardinality(InHand(n)') = Cardinality(InHand(n))
                - (IF thr[t].pc = "create" /\ n = thr[t].feo.nodeid THEN 1 ELSE 0)
  <1>1. CASE thr[t].pc = "create"
    <2> PICK U : U = thr' OBVIOUS
    <2> PICK T \in [Threads -> ThreadState] : T = thr BY DEF Types
    <2>1. InHand(n) = HandsIn(T, n) /\ InHand(n)' = HandsIn(U, n)
      BY InHandIs
    <2>2. Replaces(T, U, t, IdleThread) /\ T[t] = thr[t]
      BY DEF Replaces
    <2> QED BY <1>1, <2>1, <2>2, IdleThreadType, HandsDown
  <1>2. CASE thr[t].pc # "create"
    <2>1. InHand(n)' = InHand(n)
      BY <1>2, IdleThreadType, SameHands
    <2> QED BY <1>2, <2>1
  <1> QED BY <1>1, <1>2

\* Thread t is given vnode v of node m: either the lookup is counted (c = 1) or
\* create loses it.
LEMMA GivenAccount ==
    ASSUME NodeInv, NEW t \in Threads, thr' = [thr EXCEPT ![t] = IdleThread],
           NEW v \in Vnodes, NEW w \in VnodeData, vnode' = [vnode EXCEPT ![v] = w], Got(v, w),
           NEW c \in {0, 1}, w.nlookup = vnode[v].nlookup + c,
           NEW m \in Nodes, m = w.nodeid, Up(lost, lost', m, 1 - c),
           \/ thr[t].pc = "sent" /\ Up(daemon, daemon', m, 1)
           \/ thr[t].pc = "create" /\ thr[t].feo.nodeid = m /\ UNCHANGED daemon,
           UNCHANGED <<dead, forgets, releasing>>
    PROVE  daemon' \in Counts /\ lost' \in Counts /\ AccountInv'
  <1> USE Parts
  <1>1. daemon' \in Counts /\ lost' \in Counts
    BY DEF Up
  <1>2. DeadOk'
    BY DEF DeadOk
  <1>3. CASE dead
    BY <1>1, <1>2, <1>3 DEF AccountInv, AccountOk, KnownOk
  <1>4. CASE ~dead
    <2>1. \A n \in Nodes : lost'[n] = lost[n] + (IF n = m THEN 1 - c ELSE 0) /\ lost[n] \in Nat
      BY DEF Up, Counts
    <2>2. Balanced
      <3> SUFFICES ASSUME NEW n \in Nodes
                   PROVE  \E d, cc, h, f, r, l \in Int :
                             Adds(n, d, cc, h, f, r, l) /\ d = cc + h + f + r + l
        BY DEF Balanced
      <3>1. /\ IsFiniteSet(Counted(n)) /\ Cardinality(Counted(n)) \in Nat
            /\ IsFiniteSet(InHand(n)) /\ Cardinality(InHand(n)) \in Nat
            /\ daemon[n] \in Nat /\ forgets[n] \in Nat /\ releasing[n] \in Nat /\ lost[n] \in Nat
        BY <1>4, AccountNumbers
      <3>2. /\ IsFiniteSet(Counted(n)')
            /\ Cardinality(Counted(n)') = Cardinality(Counted(n)) + (IF n = m THEN c ELSE 0)
        BY <3>1, GivenLookups DEF Got
      <3>3. /\ IsFiniteSet(InHand(n)')
            /\ Cardinality(InHand(n)') = Cardinality(InHand(n))
                 - (IF thr[t].pc = "create" /\ n = thr[t].feo.nodeid THEN 1 ELSE 0)
        BY <3>1, EndedHands
      <3>4. CASE n # m
        <4>1. Adds(n, 0, 0, 0, 0, 0, 0)
          <5>1. daemon'[n] = daemon[n] /\ lost'[n] = lost[n]
            BY <2>1, <3>4 DEF Up
          <5>2. Cardinality(InHand(n)') = Cardinality(InHand(n))
            BY <3>1, <3>3, <3>4
          <5> QED BY <3>1, <3>2, <3>3, <3>4, <5>1, <5>2 DEF Adds
        <4>2. 0 = 0 + 0 + 0 + 0 + 0
          OBVIOUS
        <4> QED BY <4>1, <4>2
      <3>5. CASE n = m /\ thr[t].pc = "sent" /\ Up(daemon, daemon', m, 1)
        <4>1. Adds(n, 1, c, 0, 0, 0, 1 - c)
          <5>1. daemon'[n] = daemon[n] + 1 /\ lost'[n] = lost[n] + (1 - c)
            BY <2>1, <3>5 DEF Up
          <5>2. Cardinality(InHand(n)') = Cardinality(InHand(n))
            BY <3>1, <3>3, <3>5
          <5> QED BY <3>1, <3>2, <3>3, <3>5, <5>1, <5>2 DEF Adds
        <4>2. 1 = c + 0 + 0 + 0 + (1 - c) /\ c \in Int /\ 1 - c \in Int
          OBVIOUS
        <4> QED BY <4>1, <4>2
      <3>6. CASE n = m /\ thr[t].pc = "create" /\ thr[t].feo.nodeid = m /\ UNCHANGED daemon
        <4>1. Adds(n, 0, c, 0 - 1, 0, 0, 1 - c)
          <5>1. daemon'[n] = daemon[n] + 0 /\ lost'[n] = lost[n] + (1 - c)
            BY <2>1, <3>1, <3>6
          <5>2. Cardinality(InHand(n)') = Cardinality(InHand(n)) + (0 - 1)
            BY <3>1, <3>3, <3>6
          <5> QED BY <3>1, <3>2, <3>3, <3>6, <5>1, <5>2 DEF Adds
        <4>2. 0 = c + (0 - 1) + 0 + 0 + (1 - c) /\ c \in Int /\ 1 - c \in Int /\ 0 - 1 \in Int
          OBVIOUS
        <4> QED BY <4>1, <4>2
      <3> QED BY <3>4, <3>5, <3>6
    <2>3. AccountOk'
      BY <1>4, <2>2, BalancedStep
    <2>4. KnownOk'
      <3>1. \A n \in Nodes : lost'[n] \in Nat /\ lost'[n] >= lost[n]
        BY <2>1
      <3>2. \A x \in Vnodes : vnode[x].nlookup \in Nat
        BY DEF VnodeData
      <3>3. vnode'[v] = w /\ \A x \in Vnodes : x # v => vnode'[x] = vnode[x]
        OBVIOUS
      <3>4. w.nlookup > 0 \/ lost'[w.nodeid] > 0
        BY <2>1, <3>2
      <3>5. \A x \in Vnodes \ {Rootvp} : vnode'[x].state = "live" =>
               \/ /\ vnode[x].state = "live" /\ vnode'[x].nodeid = vnode[x].nodeid
                  /\ vnode'[x].nlookup \in Nat /\ vnode'[x].nlookup >= vnode[x].nlookup
               \/ vnode'[x].nlookup > 0
               \/ lost'[vnode'[x].nodeid] > 0
        BY <3>2, <3>3, <3>4
      <3> QED BY <1>4, <3>1, <3>5, KnownStep
    <2> QED BY <1>1, <1>2, <2>3, <2>4 DEF AccountInv
  <1> QED BY <1>3, <1>4

\* The tree is as before, or finds v for node m.
Finds(v, m) ==
    /\ nodes_head' \in [NodeIds -> Vnodes \cup {NULLVP}]
    /\ \A n \in NodeIds : nodes_head'[n] = nodes_head[n] \/ (nodes_head'[n] = v /\ n = m)

\* A step that ends the operation of t with vnode v of node m, live or made by t,
\* and leaves it as w.  Either the lookup is counted (c = 1) or create loses it.
Gives(t, v, w, c, m) ==
    /\ thr' = [thr EXCEPT ![t] = IdleThread]
    /\ vnode' = [vnode EXCEPT ![v] = w] /\ Got(v, w) /\ m = w.nodeid
    /\ vnode[v].state = "live" \/ (thr[t].pc = "create" /\ v = thr[t].vp)
    /\ w.nlookup = vnode[v].nlookup + c /\ Up(lost, lost', m, 1 - c)
    /\ \/ thr[t].pc = "sent" /\ Up(daemon, daemon', m, 1)
       \/ thr[t].pc = "create" /\ thr[t].feo.nodeid = m /\ v = thr[t].vp /\ UNCHANGED daemon
    /\ Finds(v, m) /\ ncache' \subseteq ncache \cup {<<thr[t].dvp, v>>}
    /\ UNCHANGED <<dead, forgets, releasing>>

\* The two halves of the invariant after such a step.
LEMMA GivenOk ==
    ASSUME NodeInv, NEW t \in Threads, NEW v \in Vnodes, NEW w \in VnodeData, NEW c \in {0, 1},
           NEW m \in Nodes, Gives(t, v, w, c, m)
    PROVE  NodeInv'
  <1>0. /\ thr' = [thr EXCEPT ![t] = IdleThread]
        /\ vnode' = [vnode EXCEPT ![v] = w] /\ Got(v, w) /\ m = w.nodeid
        /\ vnode[v].state = "live" \/ (thr[t].pc = "create" /\ v = thr[t].vp)
        /\ w.nlookup = vnode[v].nlookup + c /\ Up(lost, lost', m, 1 - c)
        /\ \/ thr[t].pc = "sent" /\ Up(daemon, daemon', m, 1)
           \/ thr[t].pc = "create" /\ thr[t].feo.nodeid = m /\ UNCHANGED daemon
        /\ Finds(v, m) /\ ncache' \subseteq ncache \cup {<<thr[t].dvp, v>>}
        /\ UNCHANGED <<dead, forgets, releasing>>
    BY DEF Gives
  <1> USE Parts, <1>0
  <1>1. VnodeInv'
    <2>1. thr[t].pc \in {"sent", "create"}
      OBVIOUS
    <2>2. \A n \in NodeIds : nodes_head'[n] = nodes_head[n] \/ (nodes_head'[n] = v /\ n = w.nodeid)
      BY DEF Finds
    <2> QED BY <2>1, <2>2, GivenStep
  <1>2. daemon' \in Counts /\ lost' \in Counts /\ AccountInv'
    BY GivenAccount
  <1>3. thr' \in [Threads -> ThreadState] /\ vnode' \in [Vnodes -> VnodeData]
    BY IdleThreadType
  <1>4. ncache' \subseteq Vnodes \X Vnodes
    <2>1. thr[t].dvp \in Vnodes
      BY PlaceFacts
    <2> QED BY <2>1
  <1>5. TypeOK'
    BY <1>2, <1>3, <1>4, TypeAgain DEF Finds
  <1> QED BY <1>1, <1>2, <1>5 DEF NodeInv

\* A link counts its answer in the vnode the thread holds.
LEMMA LinkedGives ==
    ASSUME NodeInv, NEW t \in Threads, NEW feo \in Entries, Linked(t, feo)
    PROVE  \E v \in Vnodes, w \in VnodeData, c \in {0, 1}, m \in Nodes : Gives(t, v, w, c, m)
  <1> USE Parts
  <1>0. feo.nodeid \in Nodes
    BY EntryFacts
  <1>1. thr[t].pc = "sent" /\ ~dead /\ Up(daemon, daemon', feo.nodeid, 1)
    BY <1>0, AnswersFacts DEF Linked
  <1>2. thr[t].op = "link" /\ feo.nodeid = vnode[thr[t].vp].nodeid
    BY DEF Linked, Answers
  <1>3. thr[t].vp \in Vnodes /\ vnode[thr[t].vp].state = "live"
    BY <1>1, <1>2, PlaceFacts
  <1> PICK v \in Vnodes : v = thr[t].vp BY <1>3
  <1> PICK w : w = [vnode[v] EXCEPT !.nlookup = vnode[v].nlookup + 1] OBVIOUS
  <1>4. /\ w \in VnodeData /\ w.state = vnode[v].state /\ w.nodeid = vnode[v].nodeid
        /\ w.type = vnode[v].type /\ w.gen = vnode[v].gen /\ w.nlookup = vnode[v].nlookup + 1
    BY DEF VnodeData
  <1>5. Got(v, w)
    BY <1>3, <1>4 DEF Got
  <1>6. vnode' = [vnode EXCEPT ![v] = w] /\ thr' = [thr EXCEPT ![t] = IdleThread]
    BY DEF Linked, Ends
  <1>7. UNCHANGED <<nodes_head, ncache, dead, forgets, releasing, lost>>
    BY DEF Linked
  <1>8. Up(lost, lost', feo.nodeid, 1 - 1)
    <2>1. Up(lost, lost', feo.nodeid, 0)
      BY <1>0, <1>7, UpZero
    <2> QED BY <2>1
  <1>9. feo.nodeid = w.nodeid /\ 1 \in {0, 1} /\ vnode[v].state = "live"
    BY <1>2, <1>3, <1>4
  <1>10. Finds(v, feo.nodeid)
    BY <1>7 DEF Finds
  <1>11. Gives(t, v, w, 1, feo.nodeid)
    BY <1>1, <1>4, <1>5, <1>6, <1>7, <1>8, <1>9, <1>10 DEF Gives
  <1> QED BY <1>0, <1>4, <1>9, <1>11

\* What Given does, for a vnode vn that is of node m.
LEMMA GivenFacts ==
    ASSUME NodeInv, NEW t \in Threads, NEW v \in Vnodes, NEW vn \in VnodeData, Given(t, v, vn),
           vn.nodeid \in Nodes
    PROVE  \E c \in {0, 1}, w \in VnodeData :
             /\ vnode' = [vnode EXCEPT ![v] = w] /\ w.nlookup = vn.nlookup + c
             /\ w.state = vn.state /\ w.nodeid = vn.nodeid /\ w.type = vn.type /\ w.gen = vn.gen
             /\ Up(lost, lost', vn.nodeid, 1 - c)
  <1> USE Parts
  <1> PICK w : w = [vn EXCEPT !.nlookup = IF thr[t].op \notin {"create", "good_old"} THEN @ + 1 ELSE @] OBVIOUS
  <1>1. vnode' = [vnode EXCEPT ![v] = w]
    BY DEF Given
  <1>2. CASE thr[t].op \notin {"create", "good_old"}
    <2>1. /\ w \in VnodeData /\ w.nlookup = vn.nlookup + 1 /\ w.state = vn.state /\ w.nodeid = vn.nodeid
          /\ w.type = vn.type /\ w.gen = vn.gen
      BY <1>2 DEF VnodeData
    <2>2. Up(lost, lost', vn.nodeid, 1 - 1)
      <3>1. lost'[vn.nodeid] = lost[vn.nodeid] /\ lost' \in Counts
            /\ \A n \in Nodes : n # vn.nodeid => lost'[n] = lost[n]
        BY <1>2 DEF Given, Counts
      <3> QED BY <3>1 DEF Up, Counts
    <2> QED BY <1>1, <2>1, <2>2
  <1>3. CASE thr[t].op \in {"create", "good_old"}
    <2>1. /\ w \in VnodeData /\ w.nlookup = vn.nlookup /\ w.state = vn.state /\ w.nodeid = vn.nodeid
          /\ w.type = vn.type /\ w.gen = vn.gen /\ vn.nlookup \in Nat
      BY <1>3 DEF VnodeData
    <2>2. w.nlookup = vn.nlookup + 0
      BY <2>1
    <2>3. Up(lost, lost', vn.nodeid, 1 - 0)
      BY <1>3 DEF Given, Up, Counts
    <2> QED BY <1>1, <2>1, <2>2, <2>3
  <1> QED BY <1>2, <1>3

\* The vnode that is found counts the answer.
LEMMA GetFoundGives ==
    ASSUME NodeInv, NEW t \in Threads, NEW feo \in Entries, GetFound(t, feo)
    PROVE  \E v \in Vnodes, w \in VnodeData, c \in {0, 1}, m \in Nodes : Gives(t, v, w, c, m)
  <1> USE Parts
  <1>0. feo.nodeid \in Nodes /\ feo.nodeid \in NodeIds
    BY EntryFacts
  <1>1. thr[t].pc = "sent" /\ ~dead /\ Up(daemon, daemon', feo.nodeid, 1)
    BY <1>0, AnswersFacts DEF GetFound, Gets
  <1>2. nodes_head[feo.nodeid] \in Vnodes /\ vnode[nodes_head[feo.nodeid]].state = "live"
    BY <1>0 DEF GetFound, Found, Live
  <1>3. vnode[nodes_head[feo.nodeid]].nodeid = feo.nodeid
    BY <1>0, <1>2, NodeAssumption DEF VnodeInv, TreeCurrent
  <1> PICK v \in Vnodes : v = nodes_head[feo.nodeid] BY <1>2
  <1>4. /\ Given(t, v, vnode[v]) /\ vnode[v] \in VnodeData /\ vnode[v].nodeid \in Nodes
        /\ UNCHANGED nodes_head
    BY <1>0, <1>3 DEF GetFound
  <1>5. PICK c \in {0, 1}, w \in VnodeData :
             /\ vnode' = [vnode EXCEPT ![v] = w] /\ w.nlookup = vnode[v].nlookup + c
             /\ w.state = vnode[v].state /\ w.nodeid = vnode[v].nodeid
             /\ w.type = vnode[v].type /\ w.gen = vnode[v].gen
             /\ Up(lost, lost', vnode[v].nodeid, 1 - c)
    BY <1>4, GivenFacts
  <1>6. Got(v, w) /\ vnode[v].state = "live"
    BY <1>2, <1>5 DEF Got
  <1>7. /\ thr' = [thr EXCEPT ![t] = IdleThread]
        /\ ncache' \subseteq ncache \cup {<<thr[t].dvp, v>>}
        /\ UNCHANGED <<dead, forgets, releasing>>
    BY <1>4 DEF Given, Ends
  <1>8. feo.nodeid = w.nodeid /\ Up(lost, lost', feo.nodeid, 1 - c)
    BY <1>3, <1>5
  <1>9. Finds(v, feo.nodeid)
    BY <1>4 DEF Finds
  <1>10. Gives(t, v, w, c, feo.nodeid)
    BY <1>1, <1>5, <1>6, <1>7, <1>8, <1>9 DEF Gives
  <1> QED BY <1>0, <1>10

\* The new vnode counts the answer, in the tree or beside it.
LEMMA CreatedGives ==
    ASSUME NodeInv, NEW t \in Threads, Created(t)
    PROVE  \E v \in Vnodes, w \in VnodeData, c \in {0, 1}, m \in Nodes : Gives(t, v, w, c, m)
  <1> USE Parts
  <1>1. thr[t].pc = "create"
    BY DEF Created, At
  <1>2. /\ thr[t].vp \in Vnodes /\ thr[t].feo.nodeid \in Nodes
        /\ vnode[thr[t].vp].state = "new" /\ vnode[thr[t].vp].nodeid = thr[t].feo.nodeid
    BY <1>1, PlaceFacts
  <1> PICK v \in Vnodes : v = thr[t].vp BY <1>2
  <1> PICK m \in Nodes : m = thr[t].feo.nodeid BY <1>2
  <1>b. PICK b \in BOOLEAN : b = (nodes_head'[m] = v) OBVIOUS
  <1>vn. PICK vn : vn = [vnode[v] EXCEPT !.state = "live", !.linked = b] OBVIOUS
  <1>3. /\ vn \in VnodeData /\ vn.state = "live" /\ vn.nodeid = m /\ vn.type = vnode[v].type
        /\ vn.gen = vnode[v].gen /\ vn.nlookup = vnode[v].nlookup
        /\ vn.nodeid \in Nodes
    BY <1>2, <1>vn DEF VnodeData
  <1>4. Given(t, v, vn) /\ UNCHANGED daemon /\ nodes_head' = RbInsert(nodes_head, m, v)
    BY <1>b, <1>vn DEF Created
  <1>5. PICK c \in {0, 1}, w \in VnodeData :
             /\ vnode' = [vnode EXCEPT ![v] = w] /\ w.nlookup = vn.nlookup + c
             /\ w.state = vn.state /\ w.nodeid = vn.nodeid /\ w.type = vn.type /\ w.gen = vn.gen
             /\ Up(lost, lost', vn.nodeid, 1 - c)
    BY <1>3, <1>4, GivenFacts
  <1>6. Got(v, w) /\ w.nlookup = vnode[v].nlookup + c /\ m = w.nodeid /\ Up(lost, lost', m, 1 - c)
    BY <1>2, <1>3, <1>5 DEF Got
  <1>7. /\ thr' = [thr EXCEPT ![t] = IdleThread]
        /\ ncache' \subseteq ncache \cup {<<thr[t].dvp, v>>}
        /\ UNCHANGED <<dead, forgets, releasing>>
    BY <1>4 DEF Given, Ends
  <1>8. Finds(v, m)
    BY <1>4 DEF Finds, RbInsert, NodeIds
  <1>9. thr[t].feo.nodeid = m /\ v = thr[t].vp
    OBVIOUS
  <1>10. /\ thr[t].pc = "create" /\ thr[t].feo.nodeid = m /\ UNCHANGED daemon
         /\ vnode' = [vnode EXCEPT ![v] = w]
    BY <1>1, <1>4, <1>5, <1>9
  <1>11. vnode[v].state = "live" \/ (thr[t].pc = "create" /\ v = thr[t].vp)
    BY <1>1, <1>9
  <1>12. Gives(t, v, w, c, m)
    BY <1>6, <1>7, <1>8, <1>9, <1>10, <1>11 DEF Gives
  <1> QED BY <1>12

-----------------------------------------------------------------------------
(* The beginning and the end of a vnode *)

\* No vnode is found: the lookup is in the hands of the thread that makes one.
LEMMA GetNewOk ==
    ASSUME NodeInv, NEW t \in Threads, NEW feo \in Entries, NEW v \in Vnodes, GetNew(t, feo, v)
    PROVE  NodeInv'
  <1> USE Parts
  <1>0. feo \in EntryData /\ feo.nodeid \in Nodes
    BY EntryFacts
  <1>1. thr[t].pc = "sent" /\ ~dead /\ Up(daemon, daemon', feo.nodeid, 1) /\ thr[t].op # "link"
    BY <1>0, AnswersFacts DEF GetNew, Gets
  <1>2. thr[t].dvp \in Vnodes
    BY <1>1, PlaceFacts
  <1>w. PICK w : w = NewVnode(feo, thr[t].dvp) OBVIOUS
  <1>u. PICK u : u = [thr[t] EXCEPT !.pc = "create", !.vp = v, !.feo = feo] OBVIOUS
  <1>3. /\ w \in VnodeData /\ w.state = "new" /\ w.nlookup = 0 /\ ~w.linked
        /\ w.nodeid = feo.nodeid /\ w.type = feo.type /\ w.gen = feo.gen
    BY <1>0, <1>2, <1>w, NewVnodeFacts
  <1>4. /\ u \in ThreadState /\ u.pc = "create" /\ u.vp = v /\ u.op = thr[t].op /\ u.dvp = thr[t].dvp
        /\ u.feo = feo
    BY <1>0, <1>u DEF ThreadState, Pcs
  <1>5. /\ vnode[v].state = "free" /\ vnode' = [vnode EXCEPT ![v] = w]
        /\ UNCHANGED <<nodes_head, ncache, dead, forgets, releasing, lost>>
    BY <1>w DEF GetNew
  <1>6. thr' = [thr EXCEPT ![t] = u]
    BY <1>u DEF GetNew
  <1>7. VnodeInv'
    BY <1>0, <1>1, <1>3, <1>4, <1>5, <1>6, NewStep
  <1>8. vnode[v].nlookup = 0
    BY <1>5 DEF VnodeInv, VnodesOk
  <1>9. Balanced
    <2> SUFFICES ASSUME NEW n \in Nodes
                 PROVE  \E d, c, h, f, r, l \in Int :
                           Adds(n, d, c, h, f, r, l) /\ d = c + h + f + r + l
      BY DEF Balanced
    <2>1. /\ IsFiniteSet(Counted(n)) /\ Cardinality(Counted(n)) \in Nat
          /\ IsFiniteSet(InHand(n)) /\ Cardinality(InHand(n)) \in Nat
          /\ daemon[n] \in Nat /\ forgets[n] \in Nat /\ releasing[n] \in Nat /\ lost[n] \in Nat
      BY <1>1, AccountNumbers
    <2>2. IsFiniteSet(Counted(n)') /\ Cardinality(Counted(n)') = Cardinality(Counted(n))
      <3> PICK g : g = vnode' OBVIOUS
      <3> PICK f \in [Vnodes -> VnodeData] : f = vnode OBVIOUS
      <3>1. Counted(n) = LookupsIn(f, n) /\ Counted(n)' = LookupsIn(g, n)
        BY CountedIs
      <3>2. Replaces(f, g, v, w) /\ f[v].nlookup = 0
        BY <1>5, <1>8 DEF Replaces
      <3>3. /\ IsFiniteSet(LookupsIn(g, n))
            /\ Cardinality(LookupsIn(g, n))
                 = Cardinality(LookupsIn(f, n)) - (IF n = f[v].nodeid THEN f[v].nlookup ELSE 0)
        BY <1>3, <2>1, <3>1, <3>2, LookupsDown
      <3> QED BY <2>1, <3>1, <3>2, <3>3
    <2>3. /\ IsFiniteSet(InHand(n)')
          /\ Cardinality(InHand(n)') = Cardinality(InHand(n)) + (IF n = feo.nodeid THEN 1 ELSE 0)
      <3> PICK U : U = thr' OBVIOUS
      <3> PICK T \in [Threads -> ThreadState] : T = thr OBVIOUS
      <3>1. InHand(n) = HandsIn(T, n) /\ InHand(n)' = HandsIn(U, n)
        BY InHandIs
      <3>2. Replaces(T, U, t, u) /\ T[t].pc # "create"
        BY <1>1, <1>6 DEF Replaces
      <3> QED BY <1>4, <2>1, <3>1, <3>2, HandsUp
    <2>4. CASE n = feo.nodeid
      <3>1. Adds(n, 1, 0, 1, 0, 0, 0)
        BY <1>1, <1>5, <2>1, <2>2, <2>3, <2>4 DEF Adds, Up
      <3>2. 1 = 0 + 1 + 0 + 0 + 0
        OBVIOUS
      <3> QED BY <3>1, <3>2
    <2>5. CASE n # feo.nodeid
      <3>1. Adds(n, 0, 0, 0, 0, 0, 0)
        BY <1>1, <1>5, <2>1, <2>2, <2>3, <2>5 DEF Adds, Up
      <3>2. 0 = 0 + 0 + 0 + 0 + 0
        OBVIOUS
      <3> QED BY <3>1, <3>2
    <2> QED BY <2>4, <2>5
  <1>10. AccountOk'
    BY <1>1, <1>9, BalancedStep
  <1>11. KnownOk'
    <2>1. \A n \in Nodes : lost'[n] \in Nat /\ lost'[n] >= lost[n]
      BY <1>5 DEF Counts
    <2>2. \A x \in Vnodes : vnode[x].nlookup \in Nat
      BY DEF VnodeData
    <2>3. vnode'[v] = w /\ \A x \in Vnodes : x # v => vnode'[x] = vnode[x]
      BY <1>5
    <2>4. \A x \in Vnodes \ {Rootvp} : vnode'[x].state = "live" =>
             \/ /\ vnode[x].state = "live" /\ vnode'[x].nodeid = vnode[x].nodeid
                /\ vnode'[x].nlookup \in Nat /\ vnode'[x].nlookup >= vnode[x].nlookup
             \/ vnode'[x].nlookup > 0
             \/ lost'[vnode'[x].nodeid] > 0
      BY <1>3, <2>2, <2>3
    <2> QED BY <1>1, <2>1, <2>4, KnownStep
  <1>12. DeadOk'
    BY <1>1, <1>5 DEF DeadOk
  <1>13. vnode' \in [Vnodes -> VnodeData] /\ thr' \in [Threads -> ThreadState] /\ daemon' \in Counts
    BY <1>1, <1>3, <1>4, <1>5, <1>6 DEF Up
  <1>14. TypeOK'
    BY <1>5, <1>13, TypeAgain
  <1> QED BY <1>7, <1>10, <1>11, <1>12, <1>14 DEF NodeInv, AccountInv

\* vnode_create fails: the lookup in hand is given up and the vnode is free again.
LEMMA CreateFailOk ==
    ASSUME NodeInv, NEW t \in Threads, CreateFail(t)
    PROVE  NodeInv'
  <1> USE Parts
  <1>1. /\ thr[t].pc = "create" /\ thr' = [thr EXCEPT ![t] = IdleThread]
        /\ vnode' = [vnode EXCEPT ![thr[t].vp] = NoVnode]
        /\ UNCHANGED <<nodes_head, ncache>> /\ UNCHANGED <<daemon, dead, lost>>
        /\ GivesUp(t, thr[t].feo.nodeid)
    BY DEF CreateFail, At, GivesUp, Ends
  <1>2. thr[t].vp \in Vnodes /\ thr[t].feo.nodeid \in Nodes /\ vnode[thr[t].vp].nlookup = 0
    BY <1>1, PlaceFacts
  <1> PICK m \in Nodes : m = thr[t].feo.nodeid BY <1>2
  <1> PICK v \in Vnodes : v = thr[t].vp BY <1>2
  <1>3. VnodeInv'
    BY <1>1, FailStep
  <1>4. vnode' \in [Vnodes -> VnodeData] /\ thr' \in [Threads -> ThreadState]
    BY <1>1, IdleThreadType, NoVnodeFacts
  <1>5. forgets' \in Counts /\ releasing' \in Counts
    BY <1>1 DEF GivesUp, ForgetSend, Counts
  <1>6. TypeOK'
    BY <1>1, <1>4, <1>5, TypeAgain
  <1>7. dead => UNCHANGED forgets
    BY <1>1 DEF GivesUp, ForgetSend, Counts
  <1>8. DeadOk'
    BY <1>1, <1>7 DEF DeadOk
  <1>9. CASE dead
    BY <1>1, <1>3, <1>6, <1>8, <1>9 DEF NodeInv, AccountInv, AccountOk, KnownOk
  <1>10. CASE ~dead
    <2>1. PICK f \in Nat, r \in Nat : f + r = 1 /\ Up(forgets, forgets', m, f) /\ Up(releasing, releasing', m, r)
      BY <1>1, <1>10, GivesUpFacts
    <2>2. Balanced
      <3> SUFFICES ASSUME NEW n \in Nodes
                   PROVE  \E d, c, h, ff, rr, l \in Int :
                             Adds(n, d, c, h, ff, rr, l) /\ d = c + h + ff + rr + l
        BY DEF Balanced
      <3>1. /\ IsFiniteSet(Counted(n)) /\ Cardinality(Counted(n)) \in Nat
            /\ IsFiniteSet(InHand(n)) /\ Cardinality(InHand(n)) \in Nat
            /\ daemon[n] \in Nat /\ forgets[n] \in Nat /\ releasing[n] \in Nat /\ lost[n] \in Nat
        BY <1>10, AccountNumbers
      <3>2. IsFiniteSet(Counted(n)') /\ Cardinality(Counted(n)') = Cardinality(Counted(n))
        <4> PICK g : g = vnode' OBVIOUS
        <4> PICK e \in [Vnodes -> VnodeData] : e = vnode OBVIOUS
        <4>1. Counted(n) = LookupsIn(e, n) /\ Counted(n)' = LookupsIn(g, n)
          BY CountedIs
        <4>2. Replaces(e, g, v, NoVnode) /\ e[v].nlookup = 0
          BY <1>1, <1>2 DEF Replaces
        <4>3. /\ IsFiniteSet(LookupsIn(g, n))
              /\ Cardinality(LookupsIn(g, n))
                   = Cardinality(LookupsIn(e, n)) - (IF n = e[v].nodeid THEN e[v].nlookup ELSE 0)
          BY <3>1, <4>1, <4>2, NoVnodeFacts, LookupsDown
        <4> QED BY <3>1, <4>1, <4>2, <4>3
      <3>3. /\ IsFiniteSet(InHand(n)')
            /\ Cardinality(InHand(n)') = Cardinality(InHand(n))
                 - (IF thr[t].pc = "create" /\ n = thr[t].feo.nodeid THEN 1 ELSE 0)
        BY <1>1, <3>1, EndedHands
      <3>4. CASE n = m
        <4>1. Adds(n, 0, 0, 0 - 1, f, r, 0)
          <5>1. Cardinality(InHand(n)') = Cardinality(InHand(n)) + (0 - 1)
            BY <1>1, <3>1, <3>3, <3>4
          <5> QED BY <1>1, <2>1, <3>1, <3>2, <3>3, <3>4, <5>1 DEF Adds, Up
        <4>2. 0 = 0 + (0 - 1) + f + r + 0 /\ 0 - 1 \in Int /\ f \in Int /\ r \in Int /\ 0 \in Int
          BY <2>1
        <4> QED BY <4>1, <4>2
      <3>5. CASE n # m
        <4>1. Adds(n, 0, 0, 0, 0, 0, 0)
          <5>1. Cardinality(InHand(n)') = Cardinality(InHand(n))
            BY <1>1, <3>1, <3>3, <3>5
          <5> QED BY <1>1, <2>1, <3>1, <3>2, <3>3, <3>5, <5>1 DEF Adds, Up
        <4>2. 0 = 0 + 0 + 0 + 0 + 0
          OBVIOUS
        <4> QED BY <4>1, <4>2
      <3> QED BY <3>4, <3>5
    <2>3. AccountOk'
      BY <1>10, <2>2, BalancedStep
    <2>4. KnownOk'
      <3>1. \A n \in Nodes : lost'[n] \in Nat /\ lost'[n] >= lost[n]
        BY <1>1 DEF Counts
      <3>2. \A x \in Vnodes : vnode[x].nlookup \in Nat
        BY DEF VnodeData
      <3>3. vnode'[v] = NoVnode /\ \A x \in Vnodes : x # v => vnode'[x] = vnode[x]
        BY <1>1
      <3>4. \A x \in Vnodes \ {Rootvp} : vnode'[x].state = "live" =>
               \/ /\ vnode[x].state = "live" /\ vnode'[x].nodeid = vnode[x].nodeid
                  /\ vnode'[x].nlookup \in Nat /\ vnode'[x].nlookup >= vnode[x].nlookup
               \/ vnode'[x].nlookup > 0
               \/ lost'[vnode'[x].nodeid] > 0
        BY <3>2, <3>3, NoVnodeFacts
      <3> QED BY <1>10, <3>1, <3>4, KnownStep
    <2> QED BY <1>3, <1>6, <1>8, <2>3, <2>4 DEF NodeInv, AccountInv
  <1> QED BY <1>9, <1>10

\* xnu begins to reclaim a vnode, which stays in the tree.
LEMMA TerminateOk ==
    ASSUME NodeInv, NEW v \in Vnodes, Terminate(v)
    PROVE  NodeInv'
  <1> USE Parts
  <1>1. VnodeInv'
    BY TerminateStep
  <1>2. UNCHANGED <<nodes_head, ncache, thr, dead>> /\ UNCHANGED <<daemon, forgets, releasing, lost>>
    BY DEF Terminate, account
  <1>w. PICK w : w = [vnode[v] EXCEPT !.state = "dying"] OBVIOUS
  <1>3. /\ w \in VnodeData /\ w.state = "dying" /\ w.nodeid = vnode[v].nodeid /\ w.nlookup = vnode[v].nlookup
    BY <1>w DEF VnodeData
  <1>4. vnode' = [vnode EXCEPT ![v] = w]
    BY <1>w DEF Terminate
  <1>5. vnode' \in [Vnodes -> VnodeData]
    BY <1>3, <1>4
  <1>6. TypeOK'
    BY <1>2, <1>5, TypeAgain
  <1>7. AccountOk'
    <2>1. ASSUME NEW n PROVE Counted(n)' = Counted(n)
      <3> PICK g : g = vnode' OBVIOUS
      <3> PICK f \in [Vnodes -> VnodeData] : f = vnode OBVIOUS
      <3>1. Counted(n) = LookupsIn(f, n) /\ Counted(n)' = LookupsIn(g, n)
        BY CountedIs
      <3>2. Replaces(f, g, v, w) /\ w.nlookup = f[v].nlookup /\ w.nodeid = f[v].nodeid
        BY <1>3, <1>4 DEF Replaces
      <3> QED BY <1>3, <3>1, <3>2, LookupsKept
    <2>2. \A n \in Nodes : InHand(n)' = InHand(n)
      BY <1>2 DEF InHand, At
    <2> QED BY <1>2, <2>1, <2>2 DEF AccountOk
  <1>8. DeadOk' /\ KnownOk'
    BY <1>2, <1>3, <1>4 DEF DeadOk, KnownOk, Live
  <1> QED BY <1>1, <1>6, <1>7, <1>8 DEF NodeInv, AccountInv

\* fuse_vnop_reclaim takes the vnode out of the tree and forgets its lookups.
LEMMA ReclaimOk ==
    ASSUME NodeInv, NEW v \in Vnodes, Reclaim(v)
    PROVE  NodeInv'
  <1> USE Parts
  <1>1. VnodeInv'
    BY ReclaimStep
  <1>2. /\ vnode[v].state = "dying" /\ UNCHANGED <<thr, dead>> /\ UNCHANGED <<daemon, releasing, lost>>
        /\ vnode' = [vnode EXCEPT ![v] = NoVnode] /\ ncache' \subseteq ncache
        /\ nodes_head' \in RbRemove(nodes_head, v)
        /\ ForgetSend(vnode[v].nodeid, vnode[v].nlookup)
    BY DEF Reclaim, Purge
  <1>3. vnode[v].nodeid \in Nodes /\ vnode[v].nlookup \in Nat
    BY <1>2 DEF VnodeInv, VnodesOk, VnodeData
  <1> PICK m \in Nodes : m = vnode[v].nodeid BY <1>3
  <1> PICK k \in Nat : k = vnode[v].nlookup BY <1>3
  <1>4. vnode' \in [Vnodes -> VnodeData]
    BY <1>2, NoVnodeFacts
  <1>5. nodes_head' \in [NodeIds -> Vnodes \cup {NULLVP}]
    BY <1>2, RbRemoveFacts
  <1>6. /\ forgets' \in Counts /\ (dead => UNCHANGED forgets) /\ (~dead => Up(forgets, forgets', m, k))
    BY <1>2 DEF ForgetSend, Counts, Up
  <1>7. TypeOK'
    BY <1>2, <1>4, <1>5, <1>6, TypeAgain
  <1>8. DeadOk'
    BY <1>2, <1>6 DEF DeadOk
  <1>9. CASE dead
    BY <1>1, <1>2, <1>7, <1>8, <1>9 DEF NodeInv, AccountInv, AccountOk, KnownOk
  <1>10. CASE ~dead
    <2>1. Balanced
      <3> SUFFICES ASSUME NEW n \in Nodes
                   PROVE  \E d, c, h, f, r, l \in Int :
                             Adds(n, d, c, h, f, r, l) /\ d = c + h + f + r + l
        BY DEF Balanced
      <3>1. /\ IsFiniteSet(Counted(n)) /\ Cardinality(Counted(n)) \in Nat
            /\ IsFiniteSet(InHand(n)) /\ Cardinality(InHand(n)) \in Nat
            /\ daemon[n] \in Nat /\ forgets[n] \in Nat /\ releasing[n] \in Nat /\ lost[n] \in Nat
        BY <1>10, AccountNumbers
      <3>2. /\ IsFiniteSet(Counted(n)')
            /\ Cardinality(Counted(n)') = Cardinality(Counted(n)) - (IF n = m THEN k ELSE 0)
        <4> PICK g : g = vnode' OBVIOUS
        <4> PICK e \in [Vnodes -> VnodeData] : e = vnode OBVIOUS
        <4>1. Counted(n) = LookupsIn(e, n) /\ Counted(n)' = LookupsIn(g, n)
          BY CountedIs
        <4>2. Replaces(e, g, v, NoVnode) /\ e[v].nlookup = k /\ e[v].nodeid = m
          BY <1>2 DEF Replaces
        <4> QED BY <3>1, <4>1, <4>2, NoVnodeFacts, LookupsDown
      <3>3. InHand(n)' = InHand(n)
        BY <1>2 DEF InHand, At
      <3>4. CASE n = m
        <4>1. Adds(n, 0, 0 - k, 0, k, 0, 0)
          <5>1. Cardinality(Counted(n)') = Cardinality(Counted(n)) + (0 - k)
            BY <3>1, <3>2, <3>4
          <5> QED BY <1>2, <1>6, <1>10, <3>1, <3>2, <3>3, <3>4, <5>1 DEF Adds, Up
        <4>2. 0 = (0 - k) + 0 + k + 0 + 0 /\ 0 - k \in Int
          OBVIOUS
        <4> QED BY <4>1, <4>2
      <3>5. CASE n # m
        <4>1. Adds(n, 0, 0, 0, 0, 0, 0)
          BY <1>2, <1>6, <1>10, <3>1, <3>2, <3>3, <3>5 DEF Adds, Up
        <4>2. 0 = 0 + 0 + 0 + 0 + 0
          OBVIOUS
        <4> QED BY <4>1, <4>2
      <3> QED BY <3>4, <3>5
    <2>2. AccountOk'
      BY <1>10, <2>1, BalancedStep
    <2>3. KnownOk'
      <3>1. \A n \in Nodes : lost'[n] \in Nat /\ lost'[n] >= lost[n]
        BY <1>2 DEF Counts
      <3>2. \A x \in Vnodes : vnode[x].nlookup \in Nat
        BY DEF VnodeData
      <3>3. vnode'[v] = NoVnode /\ \A x \in Vnodes : x # v => vnode'[x] = vnode[x]
        BY <1>2
      <3>4. \A x \in Vnodes \ {Rootvp} : vnode'[x].state = "live" =>
               \/ /\ vnode[x].state = "live" /\ vnode'[x].nodeid = vnode[x].nodeid
                  /\ vnode'[x].nlookup \in Nat /\ vnode'[x].nlookup >= vnode[x].nlookup
               \/ vnode'[x].nlookup > 0
               \/ lost'[vnode'[x].nodeid] > 0
        BY <3>2, <3>3, NoVnodeFacts
      <3> QED BY <1>10, <3>1, <3>4, KnownStep
    <2> QED BY <1>1, <1>7, <1>8, <2>2, <2>3 DEF NodeInv, AccountInv
  <1> QED BY <1>9, <1>10

-----------------------------------------------------------------------------
(* The daemon and the session *)

\* Only the counters change, for node m: forgets by f, releasing by r, daemon by d.
LEMMA DaemonStep ==
    ASSUME NodeInv, ~dead, UNCHANGED <<vnode, nodes_head, ncache, thr, dead, lost>>, NEW m \in Nodes,
           NEW d \in Int, NEW f \in Int, NEW r \in Int, d = f + r,
           Up(daemon, daemon', m, d), Up(forgets, forgets', m, f), Up(releasing, releasing', m, r)
    PROVE  NodeInv'
  <1> USE Parts
  <1>1. VnodeInv'
    BY QuietStep
  <1>2. TypeOK'
    BY TypeAgain DEF Up
  <1>3. Balanced
    <2> SUFFICES ASSUME NEW n \in Nodes
                 PROVE  \E dd, c, h, ff, rr, l \in Int :
                           Adds(n, dd, c, h, ff, rr, l) /\ dd = c + h + ff + rr + l
      BY DEF Balanced
    <2>1. /\ IsFiniteSet(Counted(n)) /\ Cardinality(Counted(n)) \in Nat
          /\ IsFiniteSet(InHand(n)) /\ Cardinality(InHand(n)) \in Nat
          /\ daemon[n] \in Nat /\ forgets[n] \in Nat /\ releasing[n] \in Nat /\ lost[n] \in Nat
      BY AccountNumbers
    <2>2. Counted(n)' = Counted(n) /\ InHand(n)' = InHand(n)
      BY DEF Counted, InHand, At
    <2>3. CASE n = m
      <3>1. Adds(n, d, 0, 0, f, r, 0)
        BY <2>1, <2>2, <2>3 DEF Adds, Up
      <3>2. d = 0 + 0 + f + r + 0
        OBVIOUS
      <3> QED BY <3>1, <3>2
    <2>4. CASE n # m
      <3>1. Adds(n, 0, 0, 0, 0, 0, 0)
        BY <2>1, <2>2, <2>4 DEF Adds, Up
      <3>2. 0 = 0 + 0 + 0 + 0 + 0
        OBVIOUS
      <3> QED BY <3>1, <3>2
    <2> QED BY <2>3, <2>4
  <1>4. AccountOk'
    BY <1>3, BalancedStep
  <1>5. DeadOk' /\ KnownOk'
    BY DEF DeadOk, KnownOk, Live
  <1> QED BY <1>1, <1>2, <1>4, <1>5 DEF NodeInv, AccountInv

\* The RELEASE of a create that was given up is answered: its lookup is forgotten.
LEMMA ForgetCallbackOk ==
    ASSUME NodeInv, NEW n \in Nodes, ForgetCallback(n)
    PROVE  NodeInv'
  <1> USE Parts
  <1>1. ~dead /\ UNCHANGED <<vnode, nodes_head, ncache, thr, dead, lost>>
    BY DEF ForgetCallback
  <1>2. Up(forgets, forgets', n, 1)
    BY <1>1 DEF ForgetCallback, ForgetSend, Up, Counts
  <1>3. Up(releasing, releasing', n, 0 - 1)
    BY DEF ForgetCallback, Up, Counts
  <1>4. Up(daemon, daemon', n, 0)
    BY UpZero DEF ForgetCallback
  <1>5. 0 = 1 + (0 - 1) /\ 0 - 1 \in Int /\ 1 \in Int /\ 0 \in Int
    OBVIOUS
  <1> QED BY <1>1, <1>2, <1>3, <1>4, <1>5, DaemonStep

\* The account is why the daemon's count does not go below zero.
LEMMA ForgetOk ==
    ASSUME NodeInv, NEW n \in Nodes, Forget(n)
    PROVE  NodeInv'
  <1> USE Parts
  <1>1. UNCHANGED <<vnode, nodes_head, ncache, thr, dead, lost>> /\ UNCHANGED releasing
    BY DEF Forget
  <1>2. ~dead
    BY DEF Forget, DeadOk
  <1>3. /\ Cardinality(Counted(n)) \in Nat /\ Cardinality(InHand(n)) \in Nat
        /\ daemon[n] \in Nat /\ forgets[n] \in Nat /\ releasing[n] \in Nat /\ lost[n] \in Nat
    BY <1>2, AccountNumbers
  <1>4. daemon[n] = Cardinality(Counted(n)) + Cardinality(InHand(n)) + forgets[n] + releasing[n] + lost[n]
    BY <1>2 DEF AccountOk
  <1>5. daemon[n] >= forgets[n]
    BY <1>3, <1>4
  <1>6. Up(daemon, daemon', n, 0 - forgets[n])
    BY <1>3, <1>5 DEF Forget, Up, Counts
  <1>7. Up(forgets, forgets', n, 0 - forgets[n])
    BY <1>3 DEF Forget, Up, Counts
  <1>8. Up(releasing, releasing', n, 0)
    BY <1>1, UpZero
  <1>9. 0 - forgets[n] = (0 - forgets[n]) + 0 /\ 0 - forgets[n] \in Int /\ 0 \in Int
    BY <1>3
  <1> QED BY <1>1, <1>2, <1>6, <1>7, <1>8, <1>9, DaemonStep

\* The daemon dies, and with it the account.
LEMMA DieOk == ASSUME NodeInv, Die PROVE NodeInv'
  <1> USE Parts
  <1>1. VnodeInv'
    BY QuietStep DEF Die
  <1>2. /\ dead' = TRUE /\ daemon' = [n \in Nodes |-> 0] /\ forgets' = [n \in Nodes |-> 0]
        /\ releasing' = [n \in Nodes |-> 0] /\ lost' = [n \in Nodes |-> 0]
        /\ UNCHANGED <<vnode, nodes_head, ncache, thr>>
    BY DEF Die
  <1>3. daemon' \in Counts /\ forgets' \in Counts /\ releasing' \in Counts /\ lost' \in Counts
    BY <1>2 DEF Counts
  <1>4. TypeOK'
    BY <1>2, <1>3, TypeAgain
  <1>5. AccountInv'
    BY <1>2 DEF AccountInv, AccountOk, DeadOk, KnownOk
  <1> QED BY <1>1, <1>4, <1>5 DEF NodeInv

-----------------------------------------------------------------------------
(* The theorems *)

\* A new mount has its root vnode and no lookups.
LEMMA InitOk == Init => NodeInv
  <1> SUFFICES ASSUME Init PROVE NodeInv
    OBVIOUS
  <1>1. /\ vnode[Rootvp].state = "live" /\ vnode[Rootvp].nodeid = FUSE_ROOT_ID
        /\ vnode[Rootvp] \in VnodeData
    BY NodeAssumption DEF Init, NoVnode, VnodeData, VTypes, NodeIds
  <1>2. \A v \in Vnodes : v # Rootvp => vnode[v] = NoVnode
    BY DEF Init
  <1>3. vnode \in [Vnodes -> VnodeData]
    <2>1. \A v \in Vnodes : vnode[v] \in VnodeData
      BY <1>1, <1>2, NoVnodeFacts
    <2>2. vnode = [v \in Vnodes |-> vnode[v]]
      BY DEF Init
    <2> QED BY <2>1, <2>2
  <1>4. \A v \in Vnodes : vnode[v].nlookup = 0
    BY <1>2, NoVnodeFacts DEF Init, NoVnode
  <1>5. thr = [t \in Threads |-> IdleThread] /\ \A t \in Threads : thr[t].pc = "idle"
    BY IdleThreadType DEF Init
  <1>6. TypeOK
    <2>1. thr \in [Threads -> ThreadState]
      BY <1>5, IdleThreadType
    <2>2. nodes_head \in [NodeIds -> Vnodes \cup {NULLVP}]
      BY NodeAssumption DEF Init
    <2>3. /\ ncache \subseteq Vnodes \X Vnodes /\ dead \in BOOLEAN
          /\ daemon \in Counts /\ forgets \in Counts /\ releasing \in Counts /\ lost \in Counts
      BY DEF Init, Counts
    <2> QED BY <1>3, <2>1, <2>2, <2>3 DEF TypeOK, VnodeData, ThreadState, EntryData, Counts
  <1>7. VnodeInv
    <2>1. VnodesOk
      BY <1>1, <1>2, NoVnodeFacts DEF VnodesOk
    <2>2. PlacesOk /\ CreatorsOk
      BY <1>5 DEF PlacesOk, PlaceOf, CreatorsOk, At
    <2>3. TreeCurrent
      BY <1>1 DEF Init, TreeCurrent
    <2>4. NamesCurrent
      BY DEF Init, NamesCurrent
    <2> QED BY <2>1, <2>2, <2>3, <2>4 DEF VnodeInv
  <1>8. AccountInv
    <2>1. ASSUME NEW n \in Nodes PROVE Counted(n) = {} /\ InHand(n) = {}
      <3>1. LookupsIn(vnode, n) \subseteq Vnodes \X Nat
            /\ \A v \in Vnodes, i \in Nat : <<v, i>> \notin LookupsIn(vnode, n)
        BY <1>3, <1>4, LookupMembers
      <3>2. LookupsIn(vnode, n) = {}
        BY <3>1
      <3> QED BY <1>5, <3>2, CountedIs DEF InHand, At
    <2>2. AccountOk
      <3>1. IsFiniteSet({}) /\ Cardinality({}) = 0
        BY FS_EmptySet
      <3> QED BY <2>1, <3>1 DEF AccountOk, Init
    <2>3. DeadOk /\ KnownOk
      BY <1>2, NoVnodeFacts DEF Init, DeadOk, KnownOk, Live
    <2> QED BY <2>2, <2>3 DEF AccountInv
  <1> QED BY <1>6, <1>7, <1>8 DEF NodeInv

\* Every step of an operation that has been answered keeps the invariant.
LEMMA ContinueOk == ASSUME NodeInv, NEW t \in Threads, Continue(t) PROVE NodeInv'
  <1>1. CASE AnswerError(t)
    BY <1>1, AnswerErrorOk
  <1>2. CASE Created(t)
    BY <1>2, CreatedGives, GivenOk
  <1>3. CASE CreateFail(t)
    BY <1>3, CreateFailOk
  <1>4. CASE \E n \in Nodes : Refused(t, n)
    BY <1>4, RefusedOk
  <1>5. ASSUME NEW feo \in Entries, Linked(t, feo) PROVE NodeInv'
    BY <1>5, LinkedGives, GivenOk
  <1>6. ASSUME NEW feo \in Entries, NoMode(t, feo) PROVE NodeInv'
    BY <1>6, NoModeOk
  <1>7. ASSUME NEW feo \in Entries, GetFound(t, feo) PROVE NodeInv'
    BY <1>7, GetFoundGives, GivenOk
  <1>8. ASSUME NEW feo \in Entries, GetStale(t, feo) PROVE NodeInv'
    BY <1>8, GetStaleOk
  <1>9. ASSUME NEW feo \in Entries, NEW v \in Vnodes, GetNew(t, feo, v) PROVE NodeInv'
    BY <1>9, GetNewOk
  <1> QED BY <1>1, <1>2, <1>3, <1>4, <1>5, <1>6, <1>7, <1>8, <1>9 DEF Continue

\* Every step keeps the invariant.
LEMMA NextOk == NodeInv /\ [Next]_vars => NodeInv'
  <1> SUFFICES ASSUME NodeInv, [Next]_vars PROVE NodeInv'
    OBVIOUS
  <1>1. ASSUME NEW t \in Threads, Begin(t) \/ Continue(t) PROVE NodeInv'
    BY <1>1, BeginOk, ContinueOk
  <1>2. ASSUME NEW v \in Vnodes, Terminate(v) \/ Reclaim(v) PROVE NodeInv'
    BY <1>2, TerminateOk, ReclaimOk
  <1>3. ASSUME NEW n \in Nodes, ForgetCallback(n) \/ Forget(n) PROVE NodeInv'
    BY <1>3, ForgetCallbackOk, ForgetOk
  <1>4. CASE Die
    BY <1>4, DieOk
  <1>5. CASE UNCHANGED vars
    <2>1. /\ UNCHANGED <<vnode, nodes_head, ncache, thr>>
          /\ UNCHANGED <<vnode, dead, account>>
      BY <1>5 DEF vars, account
    <2>2. VnodeInv'
      BY <2>1, Parts, QuietStep
    <2>3. \A n \in Nodes : InHand(n)' = InHand(n)
      BY <2>1 DEF InHand, At
    <2>4. AccountInv'
      BY <2>1, <2>3, Parts, SameAccount
    <2>5. TypeOK'
      BY <2>1, Parts, TypeAgain DEF account
    <2> QED BY <2>2, <2>4, <2>5 DEF NodeInv
  <1> QED BY <1>1, <1>2, <1>3, <1>4, <1>5 DEF Next

\* The invariant on which everything below rests, for every number of threads,
\* vnodes and nodes: what an operation uses across its waits for the daemon and
\* for vnode_create is still what it was, and the account of lookups balances.
THEOREM NodeCorrect == Spec => []NodeInv
  <1> QED BY InitOk, NextOk, PTL DEF Spec

\* Every variable of the node table keeps its type; in particular no FORGET takes
\* the daemon's count of a node below zero.
THEOREM NodeTypes == Spec => []TypeOK
  <1>1. NodeInv => TypeOK
    BY DEF NodeInv
  <1> QED BY <1>1, NodeCorrect, PTL

\* The daemon's count of every node is what the kernel still owes it, whatever
\* the operations, their failures and the recycling of vnodes.
THEOREM NodeBalance == Spec => []LookupBalance
  <1>1. NodeInv => LookupBalance
    BY DEF NodeInv, AccountInv, AccountOk, LookupBalance
  <1> QED BY <1>1, NodeCorrect, PTL

\* The daemon knows the node of every vnode in use when all FORGETs have reached it.
THEOREM NodesKnown == Spec => []NodeKnown
  <1>1. NodeInv => NodeKnown
    <2> SUFFICES ASSUME NodeInv, ~dead, NEW v \in Vnodes \ {Rootvp}, vnode[v].state = "live"
                 PROVE  daemon[vnode[v].nodeid] > forgets[vnode[v].nodeid] + releasing[vnode[v].nodeid]
      BY DEF NodeKnown, Live
    <2> USE Parts
    <2>1. vnode[v].nodeid \in Nodes /\ vnode[v].nlookup \in Nat
      BY DEF VnodeInv, VnodesOk, VnodeData
    <2> PICK n \in Nodes : n = vnode[v].nodeid BY <2>1
    <2>2. /\ IsFiniteSet(Counted(n)) /\ Cardinality(Counted(n)) \in Nat /\ Cardinality(InHand(n)) \in Nat
          /\ daemon[n] \in Nat /\ forgets[n] \in Nat /\ releasing[n] \in Nat /\ lost[n] \in Nat
      BY AccountNumbers
    <2>3. daemon[n] = Cardinality(Counted(n)) + Cardinality(InHand(n)) + forgets[n] + releasing[n] + lost[n]
      BY DEF AccountOk
    <2>4. CASE vnode[v].nlookup > 0
      <3>1. <<v, 1>> \in Counted(n)
        BY <2>1, <2>4, LookupMembers, CountedIs
      <3>2. Cardinality(Counted(n)) # 0
        BY <2>2, <3>1, FS_EmptySet
      <3> QED BY <2>2, <2>3, <3>2
    <2>5. CASE lost[n] > 0
      BY <2>2, <2>3, <2>5
    <2> QED BY <2>4, <2>5 DEF KnownOk, Live
  <1> QED BY <1>1, NodeCorrect, PTL

\* nodes_head has no pointer to a fuse_vnode_data that was destroyed or is another
\* node's by now, although RB_INSERT may fail unseen and RB_REMOVE be called for
\* an entry that is not in the tree.
THEOREM NodeTree == Spec => []TreeCurrent
  <1>1. NodeInv => TreeCurrent
    BY DEF NodeInv, VnodeInv
  <1> QED BY <1>1, NodeCorrect, PTL

\* Names lead from vnodes to vnodes that exist.
THEOREM NodeNames == Spec => []NamesCurrent
  <1>1. NodeInv => NamesCurrent
    BY DEF NodeInv, VnodeInv
  <1> QED BY <1>1, NodeCorrect, PTL

-----------------------------------------------------------------------------
(* What a lookup is counted for *)

\* A step that gives a thread its vnode counts a lookup for no other.
LEMMA GivenCounts ==
    ASSUME NodeInv, NEW t \in Threads, NEW v \in Vnodes, NEW w \in VnodeData, NEW c \in {0, 1},
           NEW m \in Nodes, Gives(t, v, w, c, m)
    PROVE  CountsRightly
  <1> USE Parts
  <1> SUFFICES ASSUME NEW x \in Vnodes, vnode'[x].nlookup > vnode[x].nlookup PROVE CountedFor(x)
    BY DEF CountsRightly
  <1>1. vnode' = [vnode EXCEPT ![v] = w] /\ Got(v, w) /\ m = w.nodeid
    BY DEF Gives
  <1>2. \A y \in Vnodes : vnode[y].nlookup \in Nat
    BY DEF VnodeData
  <1>3. x = v
    BY <1>1, <1>2
  <1>4. vnode'[x] = w
    BY <1>1, <1>3
  <1>5. thr[t].pc # "idle" /\ thr'[t].pc = "idle"
    BY IdleThreadType DEF Gives
  <1>6. CASE thr[t].pc = "sent"
    <2>1. Up(daemon, daemon', m, 1)
      BY <1>6 DEF Gives
    <2>2. daemon'[m] > daemon[m]
      BY <2>1 DEF Up, Counts
    <2> QED BY <1>1, <1>4, <1>5, <1>6, <2>2 DEF CountedFor, Got, At
  <1>7. CASE thr[t].pc = "create"
    <2>1. v = thr[t].vp
      BY <1>7 DEF Gives
    <2>2. /\ w.nodeid = thr[t].feo.nodeid /\ w.type = thr[t].feo.type /\ w.gen = thr[t].feo.gen
          /\ thr[t].feo \in EntryData
      BY <1>1, <1>7, <2>1, PlaceFacts DEF Got, ThreadState
    <2>3. [nodeid |-> w.nodeid, type |-> w.type, gen |-> w.gen] = thr[t].feo
      BY <2>2 DEF EntryData
    <2> QED BY <1>1, <1>4, <1>5, <1>7, <2>3 DEF CountedFor, Got, At
  <1> QED BY <1>6, <1>7 DEF Gives

\* Steps after which no vnode stands for more lookups than before.
LEMMA CountsNothing ==
    ASSUME \A v \in Vnodes : ~(vnode'[v].nlookup > vnode[v].nlookup)
    PROVE  CountsRightly
BY DEF CountsRightly

\* Every step that counts a lookup counts that of the node it was asked for.
LEMMA NextCounts == NodeInv /\ [Next]_vars => CountsRightly
  <1> SUFFICES ASSUME NodeInv, [Next]_vars PROVE CountsRightly
    OBVIOUS
  <1> USE Parts
  <1>0. \A v \in Vnodes : vnode[v].nlookup \in Nat
    BY DEF VnodeData
  <1>1. CASE UNCHANGED vnode
    BY <1>0, <1>1, CountsNothing
  <1>2. ASSUME NEW v \in Vnodes, NEW w \in VnodeData, vnode' = [vnode EXCEPT ![v] = w],
               w.nlookup = 0 \/ w.nlookup = vnode[v].nlookup
        PROVE  CountsRightly
    <2>1. \A x \in Vnodes : ~(vnode'[x].nlookup > vnode[x].nlookup)
      BY <1>0, <1>2
    <2> QED BY <2>1, CountsNothing
  <1>3. ASSUME NEW t \in Threads, Begin(t) PROVE UNCHANGED vnode
    BY <1>3 DEF Begin, Lookup, Mkdir, Mknod, Symlink, Newentry, Create, Link, Begins
  <1>4. ASSUME NEW t \in Threads, Continue(t) PROVE CountsRightly
    <2>1. CASE AnswerError(t)
      BY <1>1, <2>1 DEF AnswerError
    <2>2. CASE Created(t)
      BY <2>2, CreatedGives, GivenCounts
    <2>3. CASE CreateFail(t)
      <3>1. thr[t].vp \in Vnodes
        BY <2>3, PlaceFacts DEF CreateFail, At
      <3>2. vnode' = [vnode EXCEPT ![thr[t].vp] = NoVnode]
        BY <2>3 DEF CreateFail
      <3> QED BY <1>2, <3>1, <3>2, NoVnodeFacts
    <2>4. CASE \E n \in Nodes : Refused(t, n)
      BY <1>1, <2>4 DEF Refused
    <2>5. ASSUME NEW feo \in Entries, Linked(t, feo) PROVE CountsRightly
      BY <2>5, LinkedGives, GivenCounts
    <2>6. ASSUME NEW feo \in Entries, NoMode(t, feo) PROVE CountsRightly
      BY <1>1, <2>6 DEF NoMode
    <2>7. ASSUME NEW feo \in Entries, GetFound(t, feo) PROVE CountsRightly
      BY <2>7, GetFoundGives, GivenCounts
    <2>8. ASSUME NEW feo \in Entries, GetStale(t, feo) PROVE CountsRightly
      BY <1>1, <2>8 DEF GetStale
    <2>9. ASSUME NEW feo \in Entries, NEW v \in Vnodes, GetNew(t, feo, v) PROVE CountsRightly
      <3>1. vnode' = [vnode EXCEPT ![v] = NewVnode(feo, thr[t].dvp)]
        BY <2>9 DEF GetNew
      <3>2. NewVnode(feo, thr[t].dvp) \in VnodeData /\ NewVnode(feo, thr[t].dvp).nlookup = 0
        BY <2>9, EntryFacts, NewVnodeFacts DEF ThreadState
      <3> QED BY <1>2, <3>1, <3>2
    <2> QED BY <1>4, <2>1, <2>2, <2>3, <2>4, <2>5, <2>6, <2>7, <2>8, <2>9 DEF Continue
  <1>5. ASSUME NEW v \in Vnodes, Terminate(v) PROVE CountsRightly
    <2>w. PICK w : w = [vnode[v] EXCEPT !.state = "dying"] OBVIOUS
    <2>1. w \in VnodeData /\ w.nlookup = vnode[v].nlookup
      BY <2>w DEF VnodeData
    <2>2. vnode' = [vnode EXCEPT ![v] = w]
      BY <1>5, <2>w DEF Terminate
    <2> QED BY <1>2, <2>1, <2>2
  <1>6. ASSUME NEW v \in Vnodes, Reclaim(v) PROVE CountsRightly
    <2>1. vnode' = [vnode EXCEPT ![v] = NoVnode]
      BY <1>6 DEF Reclaim
    <2> QED BY <1>2, <2>1, NoVnodeFacts
  <1>7. ASSUME NEW n \in Nodes, ForgetCallback(n) \/ Forget(n) PROVE CountsRightly
    BY <1>1, <1>7 DEF ForgetCallback, Forget
  <1>8. CASE Die
    BY <1>1, <1>8 DEF Die
  <1>9. CASE UNCHANGED vars
    BY <1>1, <1>9 DEF vars
  <1> QED BY <1>1, <1>3, <1>4, <1>5, <1>6, <1>7, <1>8, <1>9 DEF Next

\* No lookup is ever counted for another vnode than that of the node the daemon
\* answered, although vnodes are recycled while operations wait.
THEOREM NodeAsked == Spec => NodeAskedFor
  <1>1. NodeInv /\ [Next]_vars => [CountsRightly]_vars
    BY NextCounts
  <1> QED BY <1>1, NodeCorrect, PTL DEF Spec, NodeAskedFor

=============================================================================
