-------------------------- MODULE FuseLocksProofs --------------------------
(***************************************************************************)
(* The locks of a mounted file system, for any number of threads and nodes *)
(* and whatever parents the nodes remember.                                *)
(*                                                                         *)
(* The argument.  An operation's list holds what it has still to lock of   *)
(* the nodes it unlocks at its end, so it ends with locks it has.  The     *)
(* list has no node twice unless two of the nodes remember each other as   *)
(* parents: fusefs_isordered is then no order, but it still orders any two *)
(* nodes one way only, and the loop of fusefs_lockfour takes equal nodes   *)
(* one after the other.  Where there is no rename the lists ascend by      *)
(* address, so in a circle of node locks the one who waits for the highest *)
(* node would wait for itself.  The biglock is held only by a thread that  *)
(* waits for nothing, for data->aw_mtx or, in sync, for the biglock.       *)
(***************************************************************************)
EXTENDS FuseLocks, FiniteSetTheorems, WellFoundedInduction, SequenceTheorems, TLAPS

USE LocksAssumption

-----------------------------------------------------------------------------
(* The inductive invariant *)

Pcs == {"idle", "lock", "send", "insert", "wait", "done", "sleep", "woken", "visit", "relock"}
Ops == {"none", "one", "exchange", "rename", "sync"}

ThreadState == [pc : Pcs, op : Ops, cp : SUBSET Nodes, list : Seq(Nodes)]

\* where an operation has taken its node locks
Past == Pcs \ {"idle", "lock"}

\* where a thread may have the biglock
Entered == {"send", "insert", "wait", "done", "visit", "relock"}

\* no node is listed twice
Once(l) == \A i, j \in DOMAIN l : l[i] = l[j] => i = j

\* the addresses of the listed nodes ascend
Ascends(l) == \A i, j \in DOMAIN l : i < j => addr[l[i]] < addr[l[j]]

\* What is true of a thread t with the state s: it owns nodes it will unlock ...
OwnOk(t, s) == \A n \in Nodes : owner[n] = t => n \in s.cp /\ s.pc # "idle"

\* ... and will unlock nodes it owns, or is going to lock
HeldOk(t, s) ==
    /\ s.pc \in Past => \A n \in s.cp : owner[n] = t
    /\ s.pc = "lock" => \A n \in s.cp : owner[n] = t \/ \E i \in DOMAIN s.list : s.list[i] = n

ListOk(s) ==
    s.pc = "lock" =>
        /\ s.op # "none" /\ (s.op = "sync" => s.cp = {} /\ s.list = <<>>)
        /\ \A i \in DOMAIN s.list : s.list[i] \in s.cp

\* it locks no node twice
OnceOk(t, s) ==
    s.pc = "lock" /\ ~Mutual(s.cp) => Once(s.list) /\ \A i \in DOMAIN s.list : owner[s.list[i]] # t

\* without a rename it locks higher and higher nodes
AscOk(t, s) ==
    s.pc = "lock" /\ s.op # "rename" =>
        /\ Ascends(s.list)
        /\ \A n \in Nodes, i \in DOMAIN s.list : owner[n] = t => addr[n] < addr[s.list[i]]

BigOk(t, s) == biglock = t => s.pc \in Entered

ThreadOk(t, s) ==
    OwnOk(t, s) /\ HeldOk(t, s) /\ ListOk(s) /\ OnceOk(t, s) /\ AscOk(t, s) /\ BigOk(t, s)

LocksInv ==
    /\ TypeOK /\ thr \in [Threads -> ThreadState]
    /\ \A t \in Threads : ThreadOk(t, thr[t])

-----------------------------------------------------------------------------
(* The order of four nodes *)

\* the list of the nodes taken in this order
Kept(t1, t2, t3, t4) == Joins(Joins(Joins(Joins(<<>>, Sentinel, t1), t1, t2), t2, t3), t3, t4)

\* A list of the nodes S that may go on after the node last: a node that comes
\* again is the last one.
Listed(l, S, last) ==
    /\ l \in Seq(Nodes) /\ S \subseteq Nodes \cup {NULL}
    /\ \A i \in DOMAIN l : l[i] \in S
    /\ \A n \in S \ {NULL} : \E i \in DOMAIN l : l[i] = n
    /\ last \in S \cup {Sentinel}

\* One more node is taken.
LEMMA JoinsFacts ==
    ASSUME NEW l, NEW S, NEW last, NEW n \in Nodes \cup {NULL}, Listed(l, S, last)
    PROVE  /\ Listed(Joins(l, last, n), S \cup {n}, n)
           /\ Once(l) /\ (n \in S => n \in {last, NULL}) => Once(Joins(l, last, n))
  <1> USE DEF Listed
  <1>1. CASE n \in {last, NULL}
    <2>1. Joins(l, last, n) = l
      BY <1>1 DEF Joins
    <2>2. n \in Nodes => n \in S
      BY <1>1
    <2> QED BY <2>1, <2>2
  <1>2. CASE n \notin {last, NULL}
    <2>1. Joins(l, last, n) = Append(l, n) /\ n \in Nodes
      BY <1>2 DEF Joins
    <2>2. PICK k : k = Append(l, n)
      OBVIOUS
    <2>3. /\ k \in Seq(Nodes) /\ DOMAIN k = 1 .. Len(l) + 1 /\ DOMAIN l = 1 .. Len(l) /\ Len(l) \in Nat
          /\ \A i \in 1 .. Len(l) : k[i] = l[i]
          /\ k[Len(l) + 1] = n
      BY <2>1, <2>2, AppendProperties
    <2>4. \A i \in DOMAIN k : k[i] \in S \cup {n}
      BY <2>3
    <2>5. \A m \in (S \cup {n}) \ {NULL} : \E i \in DOMAIN k : k[i] = m
      BY <2>3
    <2>6. ASSUME Once(l), n \in S => n \in {last, NULL} PROVE Once(k)
      <3>1. \A i \in DOMAIN l : l[i] # n
        BY <1>2, <2>6
      <3> QED BY <3>1, <2>3, <2>6 DEF Once
    <2> QED BY <2>1, <2>2, <2>3, <2>4, <2>5, <2>6
  <1> QED BY <1>1, <1>2

\* No node comes again after another one was taken.
Adjacent(t1, t2, t3, t4) ==
    /\ t3 = t1 => t2 = t1
    /\ t4 = t2 => t3 = t2
    /\ t4 = t1 => t2 = t1 /\ t3 = t1

\* The list holds the taken nodes, each once if equal ones are taken together.
LEMMA KeptFacts ==
    ASSUME NEW t1 \in Nodes \cup {NULL}, NEW t2 \in Nodes \cup {NULL},
           NEW t3 \in Nodes \cup {NULL}, NEW t4 \in Nodes \cup {NULL}
    PROVE  /\ Listed(Kept(t1, t2, t3, t4), {t1, t2, t3, t4}, t4)
           /\ Adjacent(t1, t2, t3, t4) => Once(Kept(t1, t2, t3, t4))
  <1>0. PICK l0 : l0 = <<>>
    OBVIOUS
  <1>1. PICK l1 : l1 = Joins(l0, Sentinel, t1)
    OBVIOUS
  <1>2. PICK l2 : l2 = Joins(l1, t1, t2)
    OBVIOUS
  <1>3. PICK l3 : l3 = Joins(l2, t2, t3)
    OBVIOUS
  <1>4. PICK l4 : l4 = Joins(l3, t3, t4)
    OBVIOUS
  <1>5. l4 = Kept(t1, t2, t3, t4)
    BY <1>0, <1>1, <1>2, <1>3, <1>4 DEF Kept
  <1>6. Listed(l0, {}, Sentinel) /\ Once(l0)
    BY <1>0 DEF Listed, Once
  <1>7. Listed(l1, {} \cup {t1}, t1) /\ Once(l1)
    BY <1>1, <1>6, JoinsFacts
  <1>8. Listed(l2, ({} \cup {t1}) \cup {t2}, t2) /\ Once(l2)
    BY <1>2, <1>7, JoinsFacts
  <1>9. Listed(l3, (({} \cup {t1}) \cup {t2}) \cup {t3}, t3) /\ ((t3 = t1 => t2 = t1) => Once(l3))
    BY <1>3, <1>8, JoinsFacts
  <1>10. /\ Listed(l4, ((({} \cup {t1}) \cup {t2}) \cup {t3}) \cup {t4}, t4)
         /\ Adjacent(t1, t2, t3, t4) => Once(l4)
    BY <1>4, <1>9, JoinsFacts DEF Adjacent
  <1>11. ((({} \cup {t1}) \cup {t2}) \cup {t3}) \cup {t4} = {t1, t2, t3, t4}
    OBVIOUS
  <1> QED BY <1>5, <1>10, <1>11

\* The parents and addresses of the nodes, and what is a node.
OrderTypes ==
    /\ addr \in [Nodes -> Nat] /\ \A m, n \in Nodes : addr[m] = addr[n] => m = n
    /\ parent_nodeid \in [Nodes -> Dirs \cup {NULL}]

\* fusefs_isordered on nodes, on no node and on the sentinel: nothing comes before
\* itself, and of two nodes one comes before the other, or both do if they
\* remember each other as parents.
LEMMA OrderFacts ==
    ASSUME OrderTypes
    PROVE  /\ \A n \in Nodes \cup {NULL} : IsOrdered(n, Sentinel) /\ ~IsOrdered(Sentinel, n)
           /\ \A n \in Nodes : ~IsOrdered(n, NULL) /\ IsOrdered(NULL, n)
           /\ \A m, n \in Nodes : m # n => IsOrdered(m, n) \/ IsOrdered(n, m)
           /\ \A S : ~Mutual(S) => \A m, n \in S \cap Nodes : ~(IsOrdered(m, n) /\ IsOrdered(n, m))
  <1>1. \A n \in Nodes \cup {NULL} : IsOrdered(n, Sentinel) /\ ~IsOrdered(Sentinel, n)
    BY DEF IsOrdered
  <1>2. \A n \in Nodes : ~IsOrdered(n, NULL) /\ IsOrdered(NULL, n)
    BY DEF IsOrdered
  <1>3. ASSUME NEW m \in Nodes, NEW n \in Nodes, m # n PROVE IsOrdered(m, n) \/ IsOrdered(n, m)
    <2>1. addr[m] < addr[n] \/ addr[n] < addr[m]
      BY <1>3 DEF OrderTypes
    <2> QED BY <1>3, <2>1 DEF IsOrdered
  <1>4. ASSUME NEW S, ~Mutual(S), NEW m \in S \cap Nodes, NEW n \in S \cap Nodes,
               IsOrdered(m, n), IsOrdered(n, m)
        PROVE  FALSE
    <2>1. m # n
      BY <1>4 DEF IsOrdered
    <2>2. m # NULL /\ n # NULL /\ m # Sentinel /\ n # Sentinel
      OBVIOUS
    <2>3. /\ m = parent_nodeid[n] \/ (n # parent_nodeid[m] /\ addr[m] < addr[n])
          /\ n = parent_nodeid[m] \/ (m # parent_nodeid[n] /\ addr[n] < addr[m])
      BY <1>4, <2>2 DEF IsOrdered
    <2>4. ~(parent_nodeid[m] = n /\ parent_nodeid[n] = m)
      BY <1>4 DEF Mutual
    <2>5. addr[m] \in Nat /\ addr[n] \in Nat
      BY DEF OrderTypes
    <2> QED BY <2>3, <2>4, <2>5
  <1> QED BY <1>1, <1>2, <1>3, <1>4

\* the state of the loop
At4(i, j, last, list) == [i |-> i, j |-> j, last |-> last, list |-> list]

\* A round takes the head of a.
LEMMA RoundA ==
    ASSUME NEW a, NEW b, NEW i, NEW j, NEW last, NEW list, IsOrdered(a[i], b[j])
    PROVE  Round(a, b, At4(i, j, last, list)) = At4(i + 1, j, a[i], Joins(list, last, a[i]))
  <1>1. PICK s : s = At4(i, j, last, list)
    OBVIOUS
  <1>2. s.i = i /\ s.j = j /\ s.last = last /\ s.list = list
    BY <1>1 DEF At4
  <1>3. Round(a, b, s) = At4(i + 1, j, a[i], Joins(list, last, a[i]))
    BY <1>2 DEF Round, At4
  <1> QED BY <1>1, <1>3

\* A round takes the head of b.
LEMMA RoundB ==
    ASSUME NEW a, NEW b, NEW i, NEW j, NEW last, NEW list, ~IsOrdered(a[i], b[j])
    PROVE  Round(a, b, At4(i, j, last, list)) = At4(i, j + 1, b[j], Joins(list, last, b[j]))
  <1>1. PICK s : s = At4(i, j, last, list)
    OBVIOUS
  <1>2. s.i = i /\ s.j = j /\ s.last = last /\ s.list = list
    BY <1>1 DEF At4
  <1>3. Round(a, b, s) = At4(i, j + 1, b[j], Joins(list, last, b[j]))
    BY <1>2 DEF Round, At4
  <1> QED BY <1>1, <1>3

\* The loop takes two sorted pairs in one of six orders.
LEMMA MergedFacts ==
    ASSUME OrderTypes, NEW x1 \in Nodes, NEW x2 \in Nodes, NEW y1 \in Nodes \cup {NULL}, NEW y2 \in Nodes,
           NEW a, NEW b, a = <<x1, x2, Sentinel>>, b = <<y1, y2, Sentinel>>
    PROVE  \/ /\ Merged(a, b) = Kept(x1, x2, y1, y2) /\ IsOrdered(x1, y1) /\ IsOrdered(x2, y1)
           \/ /\ Merged(a, b) = Kept(x1, y1, x2, y2) /\ IsOrdered(x1, y1) /\ ~IsOrdered(x2, y1)
              /\ IsOrdered(x2, y2)
           \/ /\ Merged(a, b) = Kept(x1, y1, y2, x2) /\ IsOrdered(x1, y1) /\ ~IsOrdered(x2, y1)
              /\ ~IsOrdered(x2, y2)
           \/ /\ Merged(a, b) = Kept(y1, x1, x2, y2) /\ ~IsOrdered(x1, y1) /\ IsOrdered(x1, y2)
              /\ IsOrdered(x2, y2)
           \/ /\ Merged(a, b) = Kept(y1, x1, y2, x2) /\ ~IsOrdered(x1, y1) /\ IsOrdered(x1, y2)
              /\ ~IsOrdered(x2, y2)
           \/ /\ Merged(a, b) = Kept(y1, y2, x1, x2) /\ ~IsOrdered(x1, y1) /\ ~IsOrdered(x1, y2)
  <1>a. a[1] = x1 /\ a[2] = x2 /\ a[3] = Sentinel /\ b[1] = y1 /\ b[2] = y2 /\ b[3] = Sentinel
    OBVIOUS
  <1>b. /\ IsOrdered(x1, Sentinel) /\ IsOrdered(x2, Sentinel)
        /\ ~IsOrdered(Sentinel, y1) /\ ~IsOrdered(Sentinel, y2)
    BY OrderFacts
  <1>0. PICK s0 : s0 = At4(1, 1, Sentinel, <<>>)
    OBVIOUS
  <1>1. PICK s1 : s1 = Round(a, b, s0)
    OBVIOUS
  <1>2. PICK s2 : s2 = Round(a, b, s1)
    OBVIOUS
  <1>3. PICK s3 : s3 = Round(a, b, s2)
    OBVIOUS
  <1>4. PICK s4 : s4 = Round(a, b, s3)
    OBVIOUS
  <1>5. Merged(a, b) = s4.list
    BY <1>0, <1>1, <1>2, <1>3, <1>4 DEF Merged, At4
  <1>n. 1 + 1 = 2 /\ 2 + 1 = 3
    OBVIOUS
  <1>l. ASSUME NEW i, NEW j, NEW last, NEW list PROVE At4(i, j, last, list).list = list
    BY DEF At4
  <1> DEFINE J1(p) == Joins(<<>>, Sentinel, p)
             J2(p, q) == Joins(J1(p), p, q)
             J3(p, q, r) == Joins(J2(p, q), q, r)
             J4(p, q, r, s) == Joins(J3(p, q, r), r, s)
  <1>k. ASSUME NEW p, NEW q, NEW r, NEW s PROVE J4(p, q, r, s) = Kept(p, q, r, s)
    BY DEF Kept
  <1> HIDE DEF J4
  <1>6. CASE IsOrdered(x1, y1)
    <2>1. s1 = At4(2, 1, x1, J1(x1))
      BY <1>6, <1>a, <1>0, <1>1, <1>n, RoundA
    <2>2. CASE IsOrdered(x2, y1)
      <3>2. s2 = At4(3, 1, x2, J2(x1, x2))
        BY <2>2, <1>a, <2>1, <1>2, <1>n, RoundA
      <3>3. s3 = At4(3, 2, y1, J3(x1, x2, y1))
        BY <1>b, <1>a, <3>2, <1>3, <1>n, RoundB
      <3>4. s4 = At4(3, 3, y2, J4(x1, x2, y1, y2))
        BY <1>b, <1>a, <3>3, <1>4, <1>n, RoundB DEF J4
      <3> QED BY <3>4, <1>5, <1>k, <1>l, <1>6, <2>2
    <2>3. CASE ~IsOrdered(x2, y1)
      <3>2. s2 = At4(2, 2, y1, J2(x1, y1))
        BY <2>3, <1>a, <2>1, <1>2, <1>n, RoundB
      <3>3. CASE IsOrdered(x2, y2)
        <4>3. s3 = At4(3, 2, x2, J3(x1, y1, x2))
          BY <3>3, <1>a, <3>2, <1>3, <1>n, RoundA
        <4>4. s4 = At4(3, 3, y2, J4(x1, y1, x2, y2))
          BY <1>b, <1>a, <4>3, <1>4, <1>n, RoundB DEF J4
        <4> QED BY <4>4, <1>5, <1>k, <1>l, <1>6, <2>3, <3>3
      <3>4. CASE ~IsOrdered(x2, y2)
        <4>3. s3 = At4(2, 3, y2, J3(x1, y1, y2))
          BY <3>4, <1>a, <3>2, <1>3, <1>n, RoundB
        <4>4. s4 = At4(3, 3, x2, J4(x1, y1, y2, x2))
          BY <1>b, <1>a, <4>3, <1>4, <1>n, RoundA DEF J4
        <4> QED BY <4>4, <1>5, <1>k, <1>l, <1>6, <2>3, <3>4
      <3> QED BY <3>3, <3>4
    <2> QED BY <2>2, <2>3
  <1>7. CASE ~IsOrdered(x1, y1)
    <2>1. s1 = At4(1, 2, y1, J1(y1))
      BY <1>7, <1>a, <1>0, <1>1, <1>n, RoundB
    <2>2. CASE ~IsOrdered(x1, y2)
      <3>2. s2 = At4(1, 3, y2, J2(y1, y2))
        BY <2>2, <1>a, <2>1, <1>2, <1>n, RoundB
      <3>3. s3 = At4(2, 3, x1, J3(y1, y2, x1))
        BY <1>b, <1>a, <3>2, <1>3, <1>n, RoundA
      <3>4. s4 = At4(3, 3, x2, J4(y1, y2, x1, x2))
        BY <1>b, <1>a, <3>3, <1>4, <1>n, RoundA DEF J4
      <3> QED BY <3>4, <1>5, <1>k, <1>l, <1>7, <2>2
    <2>3. CASE IsOrdered(x1, y2)
      <3>2. s2 = At4(2, 2, x1, J2(y1, x1))
        BY <2>3, <1>a, <2>1, <1>2, <1>n, RoundA
      <3>3. CASE IsOrdered(x2, y2)
        <4>3. s3 = At4(3, 2, x2, J3(y1, x1, x2))
          BY <3>3, <1>a, <3>2, <1>3, <1>n, RoundA
        <4>4. s4 = At4(3, 3, y2, J4(y1, x1, x2, y2))
          BY <1>b, <1>a, <4>3, <1>4, <1>n, RoundB DEF J4
        <4> QED BY <4>4, <1>5, <1>k, <1>l, <1>7, <2>3, <3>3
      <3>4. CASE ~IsOrdered(x2, y2)
        <4>3. s3 = At4(2, 3, y2, J3(y1, x1, y2))
          BY <3>4, <1>a, <3>2, <1>3, <1>n, RoundB
        <4>4. s4 = At4(3, 3, x2, J4(y1, x1, y2, x2))
          BY <1>b, <1>a, <4>3, <1>4, <1>n, RoundA DEF J4
        <4> QED BY <4>4, <1>5, <1>k, <1>l, <1>7, <2>3, <3>4
      <3> QED BY <3>3, <3>4
    <2> QED BY <2>2, <2>3
  <1> QED BY <1>6, <1>7

\* The list holds the nodes S and no others, each once if S allows it.
LocksAll(l, S) ==
    /\ l \in Seq(Nodes)
    /\ \A i \in DOMAIN l : l[i] \in S
    /\ \A n \in S : \E i \in DOMAIN l : l[i] = n
    /\ ~Mutual(S) => Once(l)

\* fusefs_lockfour of the four vnodes of a rename locks each of them, and each once
\* unless two of them remember each other as parents.
LEMMA LockFourFacts ==
    ASSUME OrderTypes, NEW c1 \in Nodes, NEW c2 \in Nodes, NEW c3 \in Nodes, NEW c4 \in Nodes \cup {NULL}
    PROVE  LocksAll(LockFour(c1, c2, c3, c4), {c1, c2, c3, c4} \ {NULL})
  <1> DEFINE S == {c1, c2, c3, c4} \ {NULL}
  <1>3. PICK l : l = LockFour(c1, c2, c3, c4)
    OBVIOUS
  <1>1. PICK x1 \in Nodes, x2 \in Nodes :
            /\ Sorted(c1, c2) = <<x1, x2, Sentinel>> /\ {x1, x2} = {c1, c2}
            /\ x1 # x2 => IsOrdered(x1, x2)
    <2>1. CASE IsOrdered(c1, c2)
      BY <2>1 DEF Sorted
    <2>2. CASE ~IsOrdered(c1, c2)
      BY <2>2, OrderFacts DEF Sorted
    <2> QED BY <2>1, <2>2
  <1>2. PICK y1 \in Nodes \cup {NULL}, y2 \in Nodes :
            /\ Sorted(c3, c4) = <<y1, y2, Sentinel>> /\ {y1, y2} = {c3, c4}
            /\ y1 # y2 => IsOrdered(y1, y2)
    <2>1. CASE c4 = NULL
      <3>1. ~IsOrdered(c3, c4) /\ IsOrdered(c4, c3)
        BY <2>1, OrderFacts
      <3> QED BY <3>1 DEF Sorted
    <2>2. CASE c4 \in Nodes /\ IsOrdered(c3, c4)
      BY <2>2 DEF Sorted
    <2>3. CASE c4 \in Nodes /\ ~IsOrdered(c3, c4)
      BY <2>3, OrderFacts DEF Sorted
    <2> QED BY <2>1, <2>2, <2>3
  <1>4. l = Merged(<<x1, x2, Sentinel>>, <<y1, y2, Sentinel>>)
    BY <1>1, <1>2, <1>3 DEF LockFour
  <1>5. PICK t1 \in Nodes \cup {NULL}, t2 \in Nodes \cup {NULL}, t3 \in Nodes \cup {NULL}, t4 \in Nodes \cup {NULL} :
            /\ l = Kept(t1, t2, t3, t4) /\ {t1, t2, t3, t4} = {x1, x2, y1, y2}
            /\ ~Mutual(S) => Adjacent(t1, t2, t3, t4)
    <2>1. ~Mutual(S) => \A m, n \in {x1, x2, y1, y2} \cap Nodes :
                          ~(IsOrdered(m, n) /\ IsOrdered(n, m))
      <3>1. {x1, x2, y1, y2} \cap Nodes = S \cap Nodes
        BY <1>1, <1>2
      <3> QED BY <3>1, OrderFacts
    <2>2. \A n \in Nodes \cup {NULL} : ~IsOrdered(n, n)
      BY DEF IsOrdered
    <2>3. \A n \in Nodes : ~IsOrdered(n, NULL)
      BY OrderFacts
    <2>4. CASE l = Kept(x1, x2, y1, y2) /\ IsOrdered(x1, y1) /\ IsOrdered(x2, y1)
      <3>1. ~Mutual(S) => Adjacent(x1, x2, y1, y2)
        BY <1>1, <1>2, <2>1, <2>2, <2>3, <2>4 DEF Adjacent
      <3> QED BY <3>1, <2>4
    <2>5. CASE l = Kept(x1, y1, x2, y2) /\ IsOrdered(x1, y1) /\ ~IsOrdered(x2, y1) /\ IsOrdered(x2, y2)
      <3>1. ~Mutual(S) => Adjacent(x1, y1, x2, y2)
        BY <1>1, <1>2, <2>1, <2>2, <2>3, <2>5 DEF Adjacent
      <3>2. {x1, y1, x2, y2} = {x1, x2, y1, y2}
        OBVIOUS
      <3> QED BY <3>1, <3>2, <2>5
    <2>6. CASE l = Kept(x1, y1, y2, x2) /\ IsOrdered(x1, y1) /\ ~IsOrdered(x2, y1) /\ ~IsOrdered(x2, y2)
      <3>1. ~Mutual(S) => Adjacent(x1, y1, y2, x2)
        BY <1>1, <1>2, <2>1, <2>2, <2>3, <2>6 DEF Adjacent
      <3>2. {x1, y1, y2, x2} = {x1, x2, y1, y2}
        OBVIOUS
      <3> QED BY <3>1, <3>2, <2>6
    <2>7. CASE l = Kept(y1, x1, x2, y2) /\ ~IsOrdered(x1, y1) /\ IsOrdered(x1, y2) /\ IsOrdered(x2, y2)
      <3>1. ~Mutual(S) => Adjacent(y1, x1, x2, y2)
        BY <1>1, <1>2, <2>1, <2>2, <2>3, <2>7 DEF Adjacent
      <3>2. {y1, x1, x2, y2} = {x1, x2, y1, y2}
        OBVIOUS
      <3> QED BY <3>1, <3>2, <2>7
    <2>8. CASE l = Kept(y1, x1, y2, x2) /\ ~IsOrdered(x1, y1) /\ IsOrdered(x1, y2) /\ ~IsOrdered(x2, y2)
      <3>1. ~Mutual(S) => Adjacent(y1, x1, y2, x2)
        BY <1>1, <1>2, <2>1, <2>2, <2>3, <2>8 DEF Adjacent
      <3>2. {y1, x1, y2, x2} = {x1, x2, y1, y2}
        OBVIOUS
      <3> QED BY <3>1, <3>2, <2>8
    <2>9. CASE l = Kept(y1, y2, x1, x2) /\ ~IsOrdered(x1, y1) /\ ~IsOrdered(x1, y2)
      <3>1. ~Mutual(S) => Adjacent(y1, y2, x1, x2)
        BY <1>1, <1>2, <2>1, <2>2, <2>3, <2>9 DEF Adjacent
      <3>2. {y1, y2, x1, x2} = {x1, x2, y1, y2}
        OBVIOUS
      <3> QED BY <3>1, <3>2, <2>9
    <2>10. PICK a, b : a = <<x1, x2, Sentinel>> /\ b = <<y1, y2, Sentinel>>
      OBVIOUS
    <2>11. l = Merged(a, b)
      BY <1>4, <2>10
    <2>12. \/ Merged(a, b) = Kept(x1, x2, y1, y2) /\ IsOrdered(x1, y1) /\ IsOrdered(x2, y1)
           \/ Merged(a, b) = Kept(x1, y1, x2, y2) /\ IsOrdered(x1, y1) /\ ~IsOrdered(x2, y1) /\ IsOrdered(x2, y2)
           \/ Merged(a, b) = Kept(x1, y1, y2, x2) /\ IsOrdered(x1, y1) /\ ~IsOrdered(x2, y1) /\ ~IsOrdered(x2, y2)
           \/ Merged(a, b) = Kept(y1, x1, x2, y2) /\ ~IsOrdered(x1, y1) /\ IsOrdered(x1, y2) /\ IsOrdered(x2, y2)
           \/ Merged(a, b) = Kept(y1, x1, y2, x2) /\ ~IsOrdered(x1, y1) /\ IsOrdered(x1, y2) /\ ~IsOrdered(x2, y2)
           \/ Merged(a, b) = Kept(y1, y2, x1, x2) /\ ~IsOrdered(x1, y1) /\ ~IsOrdered(x1, y2)
      BY <2>10, MergedFacts
    <2> QED BY <2>11, <2>12, <2>4, <2>5, <2>6, <2>7, <2>8, <2>9
  <1>6. Listed(l, {t1, t2, t3, t4}, t4) /\ (~Mutual(S) => Once(l))
    BY <1>5, KeptFacts
  <1>7. {t1, t2, t3, t4} = {c1, c2, c3, c4}
    BY <1>1, <1>2, <1>5
  <1>8. /\ l \in Seq(Nodes) /\ \A i \in DOMAIN l : l[i] \in S
        /\ \A n \in S : \E i \in DOMAIN l : l[i] = n
    <2>1. \A i \in DOMAIN l : l[i] \in Nodes
      BY <1>6 DEF Listed
    <2> QED BY <1>6, <1>7, <2>1 DEF Listed
  <1>9. LocksAll(l, S)
    BY <1>6, <1>8 DEF LocksAll
  <1> QED BY <1>3, <1>9

-----------------------------------------------------------------------------
(* The steps *)

\* The types of what the threads share.
SharedOk ==
    /\ addr \in Addresses /\ parent_nodeid \in Parents
    /\ owner \in [Nodes -> Threads \cup {NULL}]
    /\ biglock \in Threads \cup {NULL} /\ aw_mtx \in {NULL, Closer} /\ dead \in BOOLEAN
    /\ aw_head \in Seq(Threads) /\ rejecting \in Seq(Threads)

\* What the invariant consists of.
LEMMA Parts ==
    LocksInv => /\ SharedOk /\ thr \in [Threads -> ThreadState] /\ OrderTypes
                /\ owner \in [Nodes -> Threads \cup {NULL}]
                /\ \A t \in Threads : thr[t] \in ThreadState /\ ThreadOk(t, thr[t])
  <1> SUFFICES ASSUME LocksInv
               PROVE  /\ SharedOk /\ thr \in [Threads -> ThreadState] /\ OrderTypes
                      /\ owner \in [Nodes -> Threads \cup {NULL}]
                      /\ \A t \in Threads : thr[t] \in ThreadState /\ ThreadOk(t, thr[t])
    OBVIOUS
  <1>1. SharedOk
    BY DEF LocksInv, TypeOK, SharedOk
  <1>2. Cardinality(Nodes) \in Nat
    BY FS_CardinalityType
  <1>3. OrderTypes
    BY <1>1, <1>2 DEF SharedOk, OrderTypes, Addresses, Parents
  <1> QED BY <1>1, <1>3 DEF LocksInv, SharedOk

\* What is true of a thread, of its state and of the locks.
Fits(t, s, own, big) ==
    /\ \A n \in Nodes : own[n] = t => n \in s.cp /\ s.pc # "idle"
    /\ s.pc \in Past => \A n \in s.cp : own[n] = t
    /\ s.pc = "lock" =>
         /\ \A n \in s.cp : own[n] = t \/ \E i \in DOMAIN s.list : s.list[i] = n
         /\ s.op # "none" /\ (s.op = "sync" => s.cp = {} /\ s.list = <<>>)
         /\ \A i \in DOMAIN s.list : s.list[i] \in s.cp
         /\ ~Mutual(s.cp) => Once(s.list) /\ \A i \in DOMAIN s.list : own[s.list[i]] # t
         /\ s.op # "rename" =>
              /\ Ascends(s.list)
              /\ \A n \in Nodes, i \in DOMAIN s.list : own[n] = t => addr[n] < addr[s.list[i]]
    /\ big = t => s.pc \in Entered

\* The invariant of a thread, with the locks named.
LEMMA FitsIs == ASSUME NEW t, NEW s PROVE ThreadOk(t, s) <=> Fits(t, s, owner, biglock)
BY DEF ThreadOk, OwnOk, HeldOk, ListOk, OnceOk, AscOk, BigOk, Fits

\* A step that leaves the nodes alone keeps the invariant if each thread fits again.
LEMMA StepOk ==
    ASSUME LocksInv, UNCHANGED nodes, thr' \in [Threads -> ThreadState],
           owner' \in [Nodes -> Threads \cup {NULL}], biglock' \in Threads \cup {NULL},
           aw_mtx' \in {NULL, Closer}, dead' \in BOOLEAN,
           aw_head' \in Seq(Threads), rejecting' \in Seq(Threads),
           \A t \in Threads : Fits(t, thr'[t], owner', biglock')
    PROVE  LocksInv'
  <1>1. SharedOk'
    BY Parts DEF SharedOk, nodes, Addresses, Parents
  <1>2. ASSUME NEW t \in Threads PROVE ThreadOk(t, thr[t])'
    <2>1. ThreadOk(t, thr[t])' <=> Fits(t, thr[t], owner, biglock)'
      BY DEF ThreadOk, OwnOk, HeldOk, ListOk, OnceOk, AscOk, BigOk, Fits
    <2>2. Fits(t, thr[t], owner, biglock)' <=> Fits(t, thr'[t], owner', biglock')
      BY DEF Fits, Mutual, Ascends, nodes
    <2> QED BY <2>1, <2>2
  <1>3. \A t \in Threads : ThreadOk(t, thr[t])'
    BY <1>2
  <1>4. SharedOk' /\ thr' \in [Threads -> ThreadState] /\ (\A t \in Threads : ThreadOk(t, thr[t]))'
    BY <1>1, <1>3
  <1>5. ASSUME NEW t \in Threads
        PROVE  /\ thr'[t].pc \in Pcs
               /\ thr'[t].op \in {"none", "one", "exchange", "rename", "sync"}
               /\ thr'[t].cp \subseteq Nodes /\ thr'[t].list \in Seq(Nodes)
               /\ \A n \in Nodes : owner'[n] = t => thr'[t].pc # "idle"
    <2>1. thr'[t] \in ThreadState /\ Fits(t, thr'[t], owner', biglock')
      OBVIOUS
    <2> QED BY <2>1 DEF ThreadState, Pcs, Ops, Fits
  <1> QED BY <1>4, <1>5 DEF LocksInv, TypeOK, SharedOk, At, Pcs

\* A thread whose state stays fits again if its nodes stay as they are.
LEMMA OthersFit ==
    ASSUME NEW t \in Threads, NEW s \in ThreadState, NEW own, NEW own2, NEW big, NEW big2,
           Fits(t, s, own, big), \A n \in Nodes : own[n] = t <=> own2[n] = t, big2 = t => big = t
    PROVE  Fits(t, s, own2, big2)
  <1>1. s.cp \subseteq Nodes /\ s.list \in Seq(Nodes)
    BY DEF ThreadState
  <1>2. \A i \in DOMAIN s.list : s.list[i] \in Nodes
    BY <1>1
  <1> QED BY <1>1, <1>2 DEF Fits

\* The state of one thread is replaced.
LEMMA Replaced ==
    ASSUME LocksInv, NEW t \in Threads, NEW u \in ThreadState, thr' = [thr EXCEPT ![t] = u],
           UNCHANGED nodes,
           owner' \in [Nodes -> Threads \cup {NULL}], biglock' \in Threads \cup {NULL},
           aw_mtx' \in {NULL, Closer}, dead' \in BOOLEAN,
           aw_head' \in Seq(Threads), rejecting' \in Seq(Threads),
           Fits(t, u, owner', biglock'),
           \A x \in Threads \ {t}, n \in Nodes : owner[n] = x <=> owner'[n] = x,
           \A x \in Threads \ {t} : biglock' = x => biglock = x
    PROVE  LocksInv'
  <1>1. thr' \in [Threads -> ThreadState] /\ thr'[t] = u /\ \A x \in Threads \ {t} : thr'[x] = thr[x]
    BY Parts
  <1>2. ASSUME NEW x \in Threads \ {t} PROVE Fits(x, thr[x], owner', biglock')
    <2>1. thr[x] \in ThreadState /\ Fits(x, thr[x], owner, biglock)
      BY Parts, FitsIs
    <2> QED BY <2>1, OthersFit
  <1>3. \A x \in Threads : Fits(x, thr'[x], owner', biglock')
    BY <1>1, <1>2
  <1> QED BY <1>1, <1>3, StepOk

\* What a step that replaces the state of one thread leaves alone is well typed.
LEMMA SharedTypes ==
    LocksInv => /\ owner \in [Nodes -> Threads \cup {NULL}] /\ biglock \in Threads \cup {NULL}
                /\ aw_mtx \in {NULL, Closer} /\ dead \in BOOLEAN
                /\ aw_head \in Seq(Threads) /\ rejecting \in Seq(Threads)
BY Parts DEF SharedOk

\* An operation begins with a list of the nodes it will unlock.
LEMMA CalledOk ==
    ASSUME LocksInv, NEW t \in Threads, NEW op \in Ops \ {"none"}, NEW cp, NEW list \in Seq(Nodes),
           Unlocked(cp) \subseteq Nodes, Called(t, op, cp, list),
           \A i \in DOMAIN list : list[i] \in Unlocked(cp),
           \A n \in Unlocked(cp) : \E i \in DOMAIN list : list[i] = n,
           op = "sync" => list = <<>>,
           ~Mutual(Unlocked(cp)) => Once(list),
           op # "rename" => Ascends(list)
    PROVE  LocksInv'
  <1>1. PICK u : u = [pc |-> "lock", op |-> op, cp |-> Unlocked(cp), list |-> list]
    OBVIOUS
  <1>2. u \in ThreadState /\ u.pc = "lock" /\ u.op = op /\ u.cp = Unlocked(cp) /\ u.list = list
    BY <1>1 DEF ThreadState, Pcs, Ops
  <1>3. /\ thr[t].pc = "idle" /\ thr' = [thr EXCEPT ![t] = u]
        /\ UNCHANGED <<nodes, owner, biglock, aw_mtx, aw_head, rejecting, dead>>
    BY <1>1 DEF Called, At
  <1>4. /\ \A n \in Nodes : owner[n] # t
        /\ biglock # t
    <2>1. Fits(t, thr[t], owner, biglock)
      BY Parts, FitsIs
    <2> QED BY <1>3, <2>1 DEF Fits, Entered
  <1>5. op = "sync" => Unlocked(cp) = {}
    OBVIOUS
  <1>6. \A i \in DOMAIN list : list[i] \in Nodes
    OBVIOUS
  <1>7. Fits(t, u, owner, biglock)
    BY <1>2, <1>4, <1>5, <1>6 DEF Fits, Past
  <1> QED BY <1>2, <1>3, <1>7, SharedTypes, Replaced

\* nodelocked_vnop
LEMMA OneOk ==
    ASSUME LocksInv, NEW t \in Threads, NEW n \in Nodes, One(t, n)
    PROVE  LocksInv'
  <1>1. PICK l : l = <<n>>
    OBVIOUS
  <1>2. l \in Seq(Nodes) /\ DOMAIN l = {1} /\ l[1] = n
    BY <1>1
  <1>3. Unlocked(l) = {n}
    BY <1>2 DEF Unlocked
  <1>4. Once(l) /\ Ascends(l)
    BY <1>2 DEF Once, Ascends
  <1>5. Called(t, "one", l, l)
    BY <1>1 DEF One
  <1> QED BY <1>2, <1>3, <1>4, <1>5, CalledOk DEF Ops

\* fusefs_lockpair of two files goes by address.
LEMMA ExchangeOk ==
    ASSUME LocksInv, NEW t \in Threads, NEW f \in Files, NEW g \in Files, Exchange(t, f, g)
    PROVE  LocksInv'
  <1>1. PICK l : l = LockPair(f, g)
    OBVIOUS
  <1>2. PICK c : c = <<f, g>>
    OBVIOUS
  <1>3. Unlocked(c) = {f, g}
    BY <1>2 DEF Unlocked, Nodes
  <1>4. addr \in [Nodes -> Nat] /\ \A m, n \in Nodes : addr[m] = addr[n] => m = n
    BY Parts DEF OrderTypes
  <1>5. f \in Nodes /\ g \in Nodes /\ f \notin Dirs /\ g \notin Dirs
    BY DEF Nodes
  <1>6. /\ l \in Seq(Nodes) /\ Once(l) /\ Ascends(l)
        /\ \A i \in DOMAIN l : l[i] \in {f, g}
        /\ \A n \in {f, g} : \E i \in DOMAIN l : l[i] = n
    <2>1. CASE f = g
      <3>1. l = <<f>>
        BY <1>1, <2>1 DEF LockPair
      <3>2. l \in Seq(Nodes) /\ DOMAIN l = {1} /\ l[1] = f
        BY <3>1, <1>5
      <3> QED BY <2>1, <3>2 DEF Once, Ascends
    <2>2. CASE f # g
      <3>1. PICK p \in {f, g}, q \in {f, g} : p # q /\ addr[p] < addr[q] /\ l = <<p, q>>
        <4>1. CASE addr[f] < addr[g]
          BY <1>1, <2>2, <4>1 DEF LockPair
        <4>2. CASE ~(addr[f] < addr[g])
          BY <1>1, <1>4, <1>5, <2>2, <4>2 DEF LockPair
        <4> QED BY <4>1, <4>2
      <3>2. l \in Seq(Nodes) /\ DOMAIN l = {1, 2} /\ l[1] = p /\ l[2] = q
        BY <3>1, <1>5
      <3>3. Once(l)
        BY <3>1, <3>2 DEF Once
      <3>4. Ascends(l)
        BY <3>1, <3>2 DEF Ascends
      <3> QED BY <3>1, <3>2, <3>3, <3>4, <2>2
    <2> QED BY <2>1, <2>2
  <1>7. Called(t, "exchange", c, l)
    BY <1>1, <1>2 DEF Exchange
  <1> QED BY <1>3, <1>5, <1>6, <1>7, CalledOk DEF Ops

\* fusefs_lockfour
LEMMA RenameOk ==
    ASSUME LocksInv, NEW t \in Threads, NEW fdvp \in Dirs, NEW tdvp \in Dirs, NEW fvp \in Nodes,
           NEW tvp \in Nodes \cup {NULL}, Rename(t, fdvp, fvp, tdvp, tvp)
    PROVE  LocksInv'
  <1>1. PICK l : l = LockFour(tdvp, fdvp, fvp, tvp)
    OBVIOUS
  <1>2. PICK c : c = <<tdvp, fdvp, fvp, tvp>>
    OBVIOUS
  <1>3. Unlocked(c) = {tdvp, fdvp, fvp, tvp} \ {NULL}
    <2>1. DOMAIN c = 1 .. 4 /\ c[1] = tdvp /\ c[2] = fdvp /\ c[3] = fvp /\ c[4] = tvp
      BY <1>2
    <2>2. 1 .. 4 = {1, 2, 3, 4}
      OBVIOUS
    <2> QED BY <2>1, <2>2 DEF Unlocked
  <1>4. tdvp \in Nodes /\ fdvp \in Nodes
    BY DEF Nodes
  <1>5. /\ l \in Seq(Nodes)
        /\ \A i \in DOMAIN l : l[i] \in Unlocked(c)
        /\ \A n \in Unlocked(c) : \E i \in DOMAIN l : l[i] = n
        /\ ~Mutual(Unlocked(c)) => Once(l)
    <2>1. LocksAll(l, Unlocked(c))
      BY <1>1, <1>3, <1>4, Parts, LockFourFacts
    <2> QED BY <2>1 DEF LocksAll
  <1>6. Called(t, "rename", c, l)
    BY <1>1, <1>2 DEF Rename, RenameList
  <1>7. Unlocked(c) \subseteq Nodes
    BY <1>3, <1>4
  <1> QED BY <1>5, <1>6, <1>7, CalledOk DEF Ops

\* fuse_vfsop_biglock_sync
LEMMA SyncOk ==
    ASSUME LocksInv, NEW t \in Threads, Sync(t)
    PROVE  LocksInv'
  <1>1. PICK l : l = <<>>
    OBVIOUS
  <1>2. l \in Seq(Nodes) /\ DOMAIN l = {}
    BY <1>1
  <1>3. Unlocked(l) = {} /\ Once(l)
    BY <1>2 DEF Unlocked, Once
  <1>4. Called(t, "sync", l, l)
    BY <1>1 DEF Sync
  <1>5. "sync" = "sync" => l = <<>>
    BY <1>1
  <1>6. Ascends(l)
    BY <1>2 DEF Ascends
  <1> QED BY <1>2, <1>3, <1>4, <1>5, <1>6, CalledOk DEF Ops

\* fusefs_lock takes the first lock of the list.
LEMMA LockNextOk ==
    ASSUME LocksInv, NEW t \in Threads, LockNext(t)
    PROVE  LocksInv'
  <1>1. PICK s : s = thr[t]
    OBVIOUS
  <1>2. PICK n : n = s.list[1]
    OBVIOUS
  <1>3. s \in ThreadState /\ Fits(t, s, owner, biglock)
    BY <1>1, Parts, FitsIs
  <1>4. /\ s.pc = "lock" /\ s.list # <<>> /\ owner[n] = NULL /\ owner' = [owner EXCEPT ![n] = t]
        /\ UNCHANGED <<nodes, biglock, aw_mtx, aw_head, rejecting, dead>>
    BY <1>1, <1>2 DEF LockNext, At
  <1>5. PICK l : l = Tail(s.list)
    OBVIOUS
  <1>6. s.list \in Seq(Nodes) /\ s.cp \subseteq Nodes
    BY <1>3 DEF ThreadState
  <1>7. /\ l \in Seq(Nodes) /\ DOMAIN l = 1 .. Len(l) /\ DOMAIN s.list = 1 .. Len(l) + 1 /\ Len(l) \in Nat
        /\ \A i \in DOMAIN l : l[i] = s.list[i + 1] /\ i + 1 \in DOMAIN s.list
        /\ n \in Nodes /\ 1 \in DOMAIN s.list
    <2>1. /\ Tail(s.list) \in Seq(Nodes) /\ Len(Tail(s.list)) = Len(s.list) - 1
          /\ \A i \in 1 .. Len(Tail(s.list)) : Tail(s.list)[i] = s.list[i + 1]
      BY <1>4, <1>6, HeadTailProperties
    <2>2. Len(s.list) \in Nat /\ DOMAIN s.list = 1 .. Len(s.list) /\ s.list[1] \in Nodes
      BY <1>4, <1>6
    <2> QED BY <1>2, <1>5, <2>1, <2>2
  <1>8. PICK u : u = [s EXCEPT !.list = l]
    OBVIOUS
  <1>9. /\ u \in ThreadState /\ u.pc = "lock" /\ u.op = s.op /\ u.cp = s.cp /\ u.list = l
        /\ thr' = [thr EXCEPT ![t] = u]
    <2>1. u \in ThreadState /\ u.pc = "lock" /\ u.op = s.op /\ u.cp = s.cp /\ u.list = l
      BY <1>3, <1>4, <1>7, <1>8 DEF ThreadState
    <2>2. thr' = [thr EXCEPT ![t] = u]
      BY <1>1, <1>5, <1>8 DEF LockNext
    <2> QED BY <2>1, <2>2
  <1>10. owner' \in [Nodes -> Threads \cup {NULL}] /\ owner'[n] = t /\ \A m \in Nodes \ {n} : owner'[m] = owner[m]
    BY <1>4, <1>7, Parts
  <1>11. n \in s.cp
    BY <1>2, <1>3, <1>4, <1>7 DEF Fits
  <1>12. \A m \in s.cp : owner'[m] = t \/ \E i \in DOMAIN l : l[i] = m
    <2> SUFFICES ASSUME NEW m \in s.cp, m # n, owner[m] # t PROVE \E i \in DOMAIN l : l[i] = m
      BY <1>6, <1>10
    <2>1. PICK i \in DOMAIN s.list : s.list[i] = m
      BY <1>3, <1>4 DEF Fits
    <2>2. i # 1
      BY <1>2, <2>1
    <2>3. i - 1 \in DOMAIN l /\ (i - 1) + 1 = i
      BY <1>7, <2>1, <2>2
    <2> QED BY <1>7, <2>1, <2>3
  <1>13. \A i \in DOMAIN l : l[i] \in s.cp /\ l[i] \in Nodes
    BY <1>3, <1>4, <1>6, <1>7 DEF Fits
  <1>14. ~Mutual(s.cp) => Once(l) /\ \A i \in DOMAIN l : owner'[l[i]] # t
    <2> SUFFICES ASSUME ~Mutual(s.cp) PROVE Once(l) /\ \A i \in DOMAIN l : owner'[l[i]] # t
      OBVIOUS
    <2>1. Once(s.list) /\ \A i \in DOMAIN s.list : owner[s.list[i]] # t
      BY <1>3, <1>4 DEF Fits
    <2>2. Once(l)
      BY <1>7, <2>1 DEF Once
    <2>3. ASSUME NEW i \in DOMAIN l PROVE l[i] # n
      <3>1. i + 1 # 1
        BY <1>7
      <3> QED BY <1>2, <1>7, <2>1, <3>1 DEF Once
    <2> QED BY <1>7, <1>10, <1>13, <2>1, <2>2, <2>3
  <1>15. s.op # "rename" => /\ Ascends(l)
                            /\ \A m \in Nodes, i \in DOMAIN l : owner'[m] = t => addr[m] < addr[l[i]]
    <2> SUFFICES ASSUME s.op # "rename"
                 PROVE  /\ Ascends(l)
                        /\ \A m \in Nodes, i \in DOMAIN l : owner'[m] = t => addr[m] < addr[l[i]]
      OBVIOUS
    <2>1. Ascends(s.list) /\ \A m \in Nodes, i \in DOMAIN s.list : owner[m] = t => addr[m] < addr[s.list[i]]
      BY <1>3, <1>4 DEF Fits
    <2>2. Ascends(l)
      BY <1>7, <2>1 DEF Ascends
    <2>3. ASSUME NEW i \in DOMAIN l PROVE addr[n] < addr[l[i]]
      <3>1. 1 < i + 1
        BY <1>7
      <3> QED BY <1>2, <1>7, <2>1, <3>1 DEF Ascends
    <2> QED BY <1>7, <1>10, <2>1, <2>2, <2>3
  <1>16. s.op # "none" /\ s.op # "sync" /\ biglock # t
    BY <1>3, <1>4 DEF Fits, Entered
  <1>17. \A m \in Nodes : owner'[m] = t => m \in s.cp
    BY <1>3, <1>10, <1>11 DEF Fits
  <1>18. Fits(t, u, owner', biglock')
    BY <1>4, <1>9, <1>12, <1>13, <1>14, <1>15, <1>16, <1>17 DEF Fits, Past
  <1>19. \A x \in Threads \ {t}, m \in Nodes : owner[m] = x <=> owner'[m] = x
    BY <1>4, <1>10
  <1>20. /\ UNCHANGED nodes /\ biglock' = biglock /\ biglock' \in Threads \cup {NULL}
         /\ aw_mtx' \in {NULL, Closer} /\ dead' \in BOOLEAN
         /\ aw_head' \in Seq(Threads) /\ rejecting' \in Seq(Threads)
    BY <1>4, SharedTypes
  <1> QED BY <1>9, <1>10, <1>18, <1>19, <1>20, Replaced

\* TAILQ_REMOVE leaves a list of threads.
LEMMA WithoutType ==
    ASSUME LocksInv, NEW t
    PROVE  Without(t) \in Seq(Threads)
  <1>1. aw_head \in Seq(Threads)
    BY SharedTypes
  <1>2. CASE \E i \in DOMAIN aw_head : aw_head[i] = t
    <2>1. PICK i : i = CHOOSE j \in DOMAIN aw_head : aw_head[j] = t
      OBVIOUS
    <2>2. i \in 1 .. Len(aw_head) /\ Len(aw_head) \in Nat
      BY <1>1, <1>2, <2>1
    <2>3. Without(t) = RemoveAt(aw_head, i)
      BY <1>2, <2>1 DEF Without
    <2>4. \A k \in 1 .. Len(aw_head) : aw_head[k] \in Threads
      BY <1>1
    <2>5. SubSeq(aw_head, 1, i - 1) \in Seq(Threads)
      BY <2>2, <2>4, SubSeqProperties
    <2>6. SubSeq(aw_head, i + 1, Len(aw_head)) \in Seq(Threads)
      BY <2>2, <2>4, SubSeqProperties
    <2> QED BY <2>3, <2>5, <2>6, ConcatProperties DEF RemoveAt
  <1>3. CASE ~ \E i \in DOMAIN aw_head : aw_head[i] = t
    BY <1>1, <1>3 DEF Without
  <1> QED BY <1>2, <1>3

\* A thread that has its node locks goes on and keeps them.
LEMMA MoveOk ==
    ASSUME LocksInv, NEW t \in Threads, NEW u \in ThreadState, thr' = [thr EXCEPT ![t] = u],
           thr[t].pc \in Past \/ (thr[t].pc = "lock" /\ thr[t].list = <<>>),
           u.pc \in Past, u.cp = thr[t].cp,
           UNCHANGED <<nodes, owner>>, biglock' \in {biglock, NULL, t}, biglock' = t => u.pc \in Entered,
           aw_mtx' \in {NULL, Closer}, dead' \in BOOLEAN,
           aw_head' \in Seq(Threads), rejecting' \in Seq(Threads)
    PROVE  LocksInv'
  <1>1. PICK s : s = thr[t]
    OBVIOUS
  <1>2. s \in ThreadState /\ Fits(t, s, owner, biglock)
    BY <1>1, Parts, FitsIs
  <1>3. \A n \in s.cp : owner[n] = t
    <2>1. CASE s.pc \in Past
      BY <1>2, <2>1 DEF Fits
    <2>2. CASE s.pc = "lock" /\ s.list = <<>>
      <3>1. DOMAIN s.list = {}
        BY <2>2
      <3> QED BY <1>2, <2>2, <3>1 DEF Fits
    <2> QED BY <1>1, <2>1, <2>2
  <1>4. u.pc # "idle" /\ u.pc # "lock"
    BY DEF Past
  <1>5. \A n \in Nodes : owner[n] = t => n \in s.cp
    BY <1>2 DEF Fits
  <1>6. Fits(t, u, owner', biglock')
    BY <1>1, <1>3, <1>4, <1>5 DEF Fits
  <1>7. /\ UNCHANGED nodes /\ owner' \in [Nodes -> Threads \cup {NULL}] /\ owner' = owner
        /\ biglock' \in Threads \cup {NULL}
        /\ \A x \in Threads \ {t} : biglock' = x => biglock = x
    BY SharedTypes
  <1> QED BY <1>6, <1>7, Replaced

\* Only the place of a thread changes.
LEMMA PcOk ==
    ASSUME LocksInv, NEW t \in Threads, NEW pc \in Past, thr' = [thr EXCEPT ![t].pc = pc],
           thr[t].pc \in Past \/ (thr[t].pc = "lock" /\ thr[t].list = <<>>),
           UNCHANGED <<nodes, owner>>, biglock' \in {biglock, NULL, t},
           biglock' = t => pc \in Entered,
           aw_mtx' \in {NULL, Closer}, dead' \in BOOLEAN,
           aw_head' \in Seq(Threads), rejecting' \in Seq(Threads)
    PROVE  LocksInv'
  <1>1. PICK u : u = [thr[t] EXCEPT !.pc = pc]
    OBVIOUS
  <1>2. thr[t] \in ThreadState
    BY Parts
  <1>3. u \in ThreadState /\ u.pc = pc /\ u.cp = thr[t].cp
    BY <1>1, <1>2 DEF ThreadState, Past
  <1>4. thr' = [thr EXCEPT ![t] = u]
    BY <1>1
  <1> QED BY <1>3, <1>4, MoveOk

\* The biglock is taken after the node locks.
LEMMA EnterOk ==
    ASSUME LocksInv, NEW t \in Threads, Enter(t)
    PROVE  LocksInv'
  <1>1. PICK u : u = [thr[t] EXCEPT !.pc = "send", !.op = "none"]
    OBVIOUS
  <1>2. thr[t] \in ThreadState
    BY Parts
  <1>3. u \in ThreadState /\ u.pc = "send" /\ u.cp = thr[t].cp
    BY <1>1, <1>2 DEF ThreadState, Pcs, Ops
  <1>4. /\ thr' = [thr EXCEPT ![t] = u] /\ thr[t].pc = "lock" /\ thr[t].list = <<>> /\ biglock' = t
        /\ UNCHANGED <<nodes, owner, aw_mtx, aw_head, rejecting, dead>>
    BY <1>1 DEF Enter, At
  <1>5. "send" \in Past /\ "send" \in Entered
    BY DEF Past, Pcs, Entered
  <1>6. /\ aw_mtx' \in {NULL, Closer} /\ dead' \in BOOLEAN
        /\ aw_head' \in Seq(Threads) /\ rejecting' \in Seq(Threads)
    BY <1>4, SharedTypes
  <1> QED BY <1>3, <1>4, <1>5, <1>6, MoveOk

\* A request is sent or interrupted; a sync goes on.
LEMMA QuietOk ==
    ASSUME LocksInv, NEW t \in Threads,
           \/ Send(t) \/ Insert(t) \/ Sleep(t) \/ Interrupted(t) \/ SyncEnter(t) \/ Visit(t)
           \/ SyncRefused(t) \/ SyncReturn(t) \/ SyncWoken(t)
    PROVE  LocksInv'
  <1>0. /\ Past = {"send", "insert", "wait", "done", "sleep", "woken", "visit", "relock"}
        /\ Entered \subseteq Past
    BY DEF Past, Pcs, Entered
  <1>f. Fits(t, thr[t], owner, biglock)
    BY Parts, FitsIs
  <1>1. PICK pc \in Past :
            /\ thr' = [thr EXCEPT ![t].pc = pc]
            /\ thr[t].pc \in Past \/ (thr[t].pc = "lock" /\ thr[t].list = <<>>)
            /\ UNCHANGED <<nodes, owner>> /\ biglock' \in {biglock, NULL, t}
            /\ biglock' = t => pc \in Entered
            /\ aw_mtx' = aw_mtx /\ rejecting' = rejecting /\ dead' \in {dead, TRUE}
            /\ aw_head' \in {aw_head, Append(aw_head, t), Without(t)}
    <2>1. CASE Send(t)
      <3>1. "insert" \in Entered
        BY DEF Entered
      <3> QED BY <2>1, <3>1, <1>0 DEF Send, At
    <2>2. CASE Insert(t)
      <3>1. "wait" \in Entered
        BY DEF Entered
      <3> QED BY <2>2, <3>1, <1>0 DEF Insert, At
    <2>8. CASE Sleep(t)
      BY <2>8, <1>0 DEF Sleep, At
    <2>9. CASE SyncReturn(t)
      <3>1. "visit" \in Entered
        BY DEF Entered
      <3> QED BY <2>9, <3>1, <1>0 DEF SyncReturn, NeedNotSleep, At
    <2>3. CASE Interrupted(t)
      <3>1. biglock # t
        BY <1>f, <2>3 DEF Interrupted, At, Fits, Entered
      <3> QED BY <2>3, <3>1, <1>0 DEF Interrupted, At
    <2>4. CASE SyncEnter(t)
      <3>1. thr[t].list = <<>>
        BY <1>f, <2>4 DEF SyncEnter, At, Fits
      <3> QED BY <2>4, <3>1, <1>0 DEF SyncEnter, At
    <2>5. CASE Visit(t)
      <3>1. PICK l \in {"send", "relock"} : thr' = [thr EXCEPT ![t].pc = l]
        BY <2>5 DEF Visit
      <3>2. l \in Past /\ l \in Entered
        BY <1>0 DEF Entered
      <3> QED BY <2>5, <3>1, <3>2, <1>0 DEF Visit, At
    <2>6. CASE SyncRefused(t)
      <3>1. "relock" \in Entered
        BY DEF Entered
      <3> QED BY <2>6, <3>1, <1>0 DEF SyncRefused, At
    <2>7. CASE SyncWoken(t)
      <3>1. "visit" \in Entered
        BY DEF Entered
      <3> QED BY <2>7, <3>1, <1>0 DEF SyncWoken, At
    <2> QED BY <2>1, <2>2, <2>3, <2>4, <2>5, <2>6, <2>7, <2>8, <2>9
  <1>2. aw_head' \in Seq(Threads)
    <2>1. Append(aw_head, t) \in Seq(Threads)
      BY SharedTypes, AppendProperties
    <2> QED BY <1>1, <2>1, WithoutType, SharedTypes
  <1>3. aw_mtx' \in {NULL, Closer} /\ rejecting' \in Seq(Threads) /\ dead' \in BOOLEAN
    BY <1>1, SharedTypes
  <1>4. /\ thr' = [thr EXCEPT ![t].pc = pc]
        /\ thr[t].pc \in Past \/ (thr[t].pc = "lock" /\ thr[t].list = <<>>)
        /\ UNCHANGED <<nodes, owner>> /\ biglock' \in {biglock, NULL, t}
        /\ biglock' = t => pc \in Entered
    BY <1>1
  <1> QED BY <1>2, <1>3, <1>4, PcOk

\* The end of a wrapper unlocks what the thread has and nothing else.
LEMMA LeavesOk ==
    ASSUME LocksInv, NEW t \in Threads, Leaves(t), thr[t].pc \in Past,
           UNCHANGED <<aw_mtx, rejecting>>, dead' \in {dead, TRUE}, aw_head' \in {aw_head, Without(t)}
    PROVE  LocksInv'
  <1>1. IdleThread \in ThreadState /\ IdleThread.pc = "idle" /\ IdleThread.cp = {}
    BY DEF IdleThread, ThreadState, Pcs, Ops
  <1>2. /\ biglock' = NULL /\ thr' = [thr EXCEPT ![t] = IdleThread] /\ UNCHANGED nodes
        /\ owner' = [n \in Nodes |-> IF n \in thr[t].cp THEN NULL ELSE owner[n]]
    BY DEF Leaves
  <1>3. Fits(t, thr[t], owner, biglock)
    BY Parts, FitsIs
  <1>4. owner' \in [Nodes -> Threads \cup {NULL}]
    BY <1>2, SharedTypes
  <1>5. \A n \in Nodes : owner'[n] # t
    BY <1>2, <1>3 DEF Fits
  <1>6. \A x \in Threads \ {t}, n \in Nodes : owner[n] = x <=> owner'[n] = x
    BY <1>2, <1>3 DEF Fits
  <1>7. Fits(t, IdleThread, owner', biglock')
    BY <1>1, <1>2, <1>5 DEF Fits, Past
  <1>8. /\ aw_mtx' \in {NULL, Closer} /\ dead' \in BOOLEAN
        /\ aw_head' \in Seq(Threads) /\ rejecting' \in Seq(Threads)
    BY SharedTypes, WithoutType
  <1>9. biglock' \in Threads \cup {NULL} /\ \A x \in Threads \ {t} : biglock' = x => biglock = x
    BY <1>2
  <1>10. thr' = [thr EXCEPT ![t] = IdleThread] /\ UNCHANGED nodes
    BY <1>2
  <1> QED BY <1>1, <1>4, <1>6, <1>7, <1>8, <1>9, <1>10, Replaced

\* The operations that end.
LEMMA EndOk ==
    ASSUME LocksInv, NEW t \in Threads, Refused(t) \/ Return(t) \/ Finish(t) \/ SyncEnd(t)
    PROVE  LocksInv'
  <1>1. "send" \in Past /\ "wait" \in Past /\ "done" \in Past /\ "woken" \in Past /\ "relock" \in Past
    BY DEF Past, Pcs
  <1>2. CASE Refused(t)
    BY <1>1, <1>2, LeavesOk DEF Refused, At
  <1>3. CASE Finish(t)
    BY <1>1, <1>3, LeavesOk DEF Finish, At
  <1>4. CASE SyncEnd(t)
    BY <1>1, <1>4, LeavesOk DEF SyncEnd, At
  <1>5. CASE Return(t)
    BY <1>1, <1>5, LeavesOk DEF Return, NeedNotSleep, At
  <1> QED BY <1>2, <1>3, <1>4, <1>5

\* Where no thread moves and no lock changes hands, each thread fits.
LEMMA StillOk ==
    ASSUME LocksInv, UNCHANGED <<nodes, owner, biglock, thr>>,
           aw_mtx' \in {NULL, Closer}, dead' \in BOOLEAN,
           aw_head' \in Seq(Threads), rejecting' \in Seq(Threads)
    PROVE  LocksInv'
  <1>1. \A t \in Threads : Fits(t, thr'[t], owner', biglock')
    BY Parts, FitsIs
  <1>2. /\ UNCHANGED nodes /\ thr' \in [Threads -> ThreadState]
        /\ owner' \in [Nodes -> Threads \cup {NULL}] /\ biglock' \in Threads \cup {NULL}
    BY Parts, SharedTypes
  <1> QED BY <1>1, <1>2, StepOk

\* A ticket is answered or rejected: its requester is woken, or will not sleep.
LEMMA NotifyOk ==
    ASSUME LocksInv, NEW t \in Threads, thr' = [thr EXCEPT ![t].pc = Notified(thr[t].pc)],
           UNCHANGED <<nodes, owner, biglock>>,
           aw_mtx' \in {NULL, Closer}, dead' \in BOOLEAN,
           aw_head' \in Seq(Threads), rejecting' \in Seq(Threads)
    PROVE  LocksInv'
  <1>1. Fits(t, thr[t], owner, biglock)
    BY Parts, FitsIs
  <1>2. CASE thr[t].pc = "sleep"
    <2>1. thr' = [thr EXCEPT ![t].pc = "woken"]
      BY <1>2 DEF Notified
    <2>2. "woken" \in Past /\ thr[t].pc \in Past
      BY <1>2 DEF Past, Pcs
    <2>3. biglock' # t /\ biglock' \in {biglock, NULL, t} /\ UNCHANGED <<nodes, owner>>
      BY <1>1, <1>2 DEF Fits, Entered
    <2> QED BY <2>1, <2>2, <2>3, PcOk
  <1>3. CASE thr[t].pc = "wait"
    <2>1. thr' = [thr EXCEPT ![t].pc = "done"]
      BY <1>3 DEF Notified
    <2>2. "done" \in Past /\ "done" \in Entered /\ thr[t].pc \in Past
      BY <1>3 DEF Past, Pcs, Entered
    <2>3. biglock' \in {biglock, NULL, t} /\ UNCHANGED <<nodes, owner>>
      OBVIOUS
    <2> QED BY <2>1, <2>2, <2>3, PcOk
  <1>4. CASE thr[t].pc \notin {"sleep", "wait"}
    <2>1. Notified(thr[t].pc) = thr[t].pc
      BY <1>4 DEF Notified
    <2>2. thr' = thr
      <3>1. thr \in [Threads -> ThreadState] /\ thr[t] \in ThreadState
        BY Parts
      <3>2. [thr[t] EXCEPT !.pc = thr[t].pc] = thr[t]
        BY <3>1 DEF ThreadState
      <3> QED BY <2>1, <3>1, <3>2
    <2> QED BY <2>2, StillOk
  <1> QED BY <1>2, <1>3, <1>4

\* fuse_device_write takes a ticket off the queue.
LEMMA AnswerOk ==
    ASSUME LocksInv, NEW t \in Threads, Answer(t)
    PROVE  LocksInv'
  <1>1. /\ thr' = [thr EXCEPT ![t].pc = Notified(thr[t].pc)] /\ aw_head' = Without(t)
        /\ UNCHANGED <<nodes, owner, biglock, aw_mtx, rejecting, dead>>
    BY Parts DEF Answer
  <1> QED BY <1>1, WithoutType, SharedTypes, NotifyOk

\* fuse_reject_answers goes from ticket to ticket.
LEMMA RejectOneOk ==
    ASSUME LocksInv, RejectOne
    PROVE  LocksInv'
  <1>1. PICK t : t = rejecting[1]
    OBVIOUS
  <1>2. rejecting \in Seq(Threads) /\ rejecting # <<>>
    BY SharedTypes DEF RejectOne
  <1>3. t \in Threads /\ Tail(rejecting) \in Seq(Threads)
    BY <1>1, <1>2
  <1>4. /\ thr' = [thr EXCEPT ![t].pc = Notified(thr[t].pc)]
        /\ UNCHANGED <<nodes, owner, biglock, aw_mtx, aw_head, dead>> /\ rejecting' = Tail(rejecting)
    BY <1>1, <1>3, Parts DEF RejectOne
  <1> QED BY <1>3, <1>4, SharedTypes, NotifyOk

\* A new mount.
LEMMA InitOk == Init => LocksInv
  <1> SUFFICES ASSUME Init PROVE LocksInv
    OBVIOUS
  <1>1. IdleThread \in ThreadState /\ IdleThread.pc = "idle" /\ IdleThread.cp = {}
    BY DEF IdleThread, ThreadState, Pcs, Ops
  <1>2. thr \in [Threads -> ThreadState] /\ \A t \in Threads : thr[t] = IdleThread
    BY <1>1 DEF Init
  <1>3. owner \in [Nodes -> Threads \cup {NULL}] /\ \A n \in Nodes : owner[n] = NULL
    BY DEF Init
  <1>4. ASSUME NEW t \in Threads PROVE ThreadOk(t, thr[t])
    <2>1. t # NULL /\ biglock = NULL
      BY DEF Init
    <2>2. Fits(t, IdleThread, owner, biglock)
      BY <1>1, <1>3, <2>1 DEF Fits, Past
    <2> QED BY <1>2, <2>2, FitsIs
  <1>5. TypeOK
    <2>1. /\ addr \in Addresses /\ parent_nodeid \in Parents /\ biglock = NULL /\ aw_mtx = NULL
          /\ aw_head = <<>> /\ rejecting = <<>> /\ dead = FALSE
      BY DEF Init
    <2>2. <<>> \in Seq(Threads)
      OBVIOUS
    <2>3. ASSUME NEW t \in Threads
          PROVE  /\ thr[t].pc \in Pcs
                 /\ thr[t].op \in {"none", "one", "exchange", "rename", "sync"}
                 /\ thr[t].cp \subseteq Nodes /\ thr[t].list \in Seq(Nodes)
                 /\ \A n \in Nodes : owner[n] = t => ~At(t, "idle")
      <3>1. t # NULL
        OBVIOUS
      <3> QED BY <1>2, <1>3, <3>1 DEF ThreadState, Pcs, Ops
    <2> QED BY <1>3, <2>1, <2>2, <2>3 DEF TypeOK, Pcs
  <1> QED BY <1>2, <1>4, <1>5 DEF LocksInv

\* Every step keeps the invariant.
LEMMA NextOk == LocksInv /\ [Next]_vars => LocksInv'
  <1> SUFFICES ASSUME LocksInv, [Next]_vars PROVE LocksInv'
    OBVIOUS
  <1>1. ASSUME NEW t \in Threads, Call(t) PROVE LocksInv'
    BY <1>1, SyncOk, OneOk, ExchangeOk, RenameOk DEF Call
  <1>2. ASSUME NEW t \in Threads, Step(t) PROVE LocksInv'
    BY <1>2, LockNextOk, EnterOk, QuietOk, AnswerOk, EndOk DEF Step
  <1>3. CASE Reject
    BY <1>3, SharedTypes, StillOk DEF Reject
  <1>4. CASE RejectOne
    BY <1>4, RejectOneOk
  <1>5. CASE RejectEnd
    <2>1. <<>> \in Seq(Threads)
      OBVIOUS
    <2> QED BY <1>5, <2>1, SharedTypes, StillOk DEF RejectEnd
  <1>6. CASE UNCHANGED vars
    BY <1>6, SharedTypes, StillOk DEF vars
  <1>7. CASE Kill
    BY <1>7, SharedTypes, StillOk DEF Kill
  <1> QED BY <1>1, <1>2, <1>3, <1>4, <1>5, <1>6, <1>7 DEF Next

-----------------------------------------------------------------------------
(* Circles *)

\* Whom a thread waits for, by its place.
LEMMA WaitsForIs ==
    ASSUME LocksInv, NEW t \in Threads
    PROVE  /\ At(t, "lock") /\ thr[t].list # <<>> => WaitsFor(t) = owner[thr[t].list[1]]
           /\ At(t, "lock") /\ thr[t].list = <<>> => WaitsFor(t) = biglock
           /\ At(t, "insert") => WaitsFor(t) = aw_mtx
           /\ At(t, "woken") \/ At(t, "relock") => WaitsFor(t) = biglock
           /\ WaitsFor(t) # NULL => \/ At(t, "lock") \/ At(t, "insert")
                                    \/ At(t, "woken") \/ At(t, "relock")
  <1> DEFINE p == thr[t].pc
  <1>1. CASE p = "lock"
    BY <1>1 DEF WaitsFor, At
  <1>2. CASE p = "insert"
    BY <1>2 DEF WaitsFor, At
  <1>3. CASE p = "woken" \/ p = "relock"
    BY <1>3 DEF WaitsFor, At
  <1>4. CASE p \notin {"lock", "insert", "woken", "relock"}
    BY <1>4 DEF WaitsFor, At
  <1> QED BY <1>1, <1>2, <1>3, <1>4 DEF At

\* actors that wait, and wait for each other only
IsClosed(S) == S \subseteq Actors /\ S # {} /\ \A t \in S : Blocker[t] # NULL /\ Blocker[t] \in S

\* A circle is closed, and no smaller closed set is in it.
LEMMA CircleFacts ==
    ASSUME NEW S \in Circles
    PROVE  IsClosed(S) /\ \A R : IsClosed(R) /\ R \subseteq S => R = S
BY DEF Circles, IsClosed

\* What an actor in a circle waits for.
LEMMA BlockerIs ==
    ASSUME LocksInv
    PROVE  /\ \A t \in Threads : t \in Actors /\ t # Closer /\ Blocker[t] = WaitsFor(t)
           /\ Closer \in Actors /\ Blocker[Closer] = CloserWaitsFor
           /\ \A t \in Actors \ {Closer} : t \in Threads
BY DEF Blocker, Actors

\* If one in the circle waits for the biglock, a thread that inserts has it, or a sync
\* that waits for itself is the circle.
LEMMA BiglockCircle ==
    ASSUME LocksInv, NEW S \in Circles, NEW t \in S, Blocker[t] = biglock
    PROVE  \/ biglock \in S /\ biglock \in Threads /\ At(biglock, "insert") /\ Closer \in S
           \/ S = {biglock} /\ At(biglock, "relock")
  <1>1. IsClosed(S) /\ \A R : IsClosed(R) /\ R \subseteq S => R = S
    BY CircleFacts
  <1>2. PICK u : u = biglock
    OBVIOUS
  <1>3. u \in S /\ u \in Threads /\ Blocker[u] # NULL /\ Blocker[u] \in S
    <2>1. u # NULL /\ u \in S
      BY <1>1, <1>2 DEF IsClosed
    <2>2. u \in Threads
      BY <1>2, <2>1, SharedTypes
    <2> QED BY <1>1, <2>1, <2>2 DEF IsClosed
  <1>4. thr[u].pc \in Entered
    BY <1>2, <1>3, Parts, FitsIs DEF Fits
  <1>5. Blocker[u] = WaitsFor(u)
    BY <1>3, BlockerIs
  <1>6. CASE At(u, "relock")
    <2>1. Blocker[u] = u
      BY <1>2, <1>3, <1>5, <1>6, WaitsForIs
    <2>2. IsClosed({u})
      BY <1>1, <1>3, <2>1 DEF IsClosed
    <2>3. S = {u}
      BY <1>1, <1>3, <2>2
    <2> QED BY <1>2, <1>6, <2>3
  <1>7. CASE At(u, "insert")
    <2>1. Blocker[u] = aw_mtx
      BY <1>3, <1>5, <1>7, WaitsForIs
    <2>2. Blocker[u] = Closer
      BY <1>3, <2>1, SharedTypes
    <2> QED BY <1>2, <1>3, <1>7, <2>2
  <1>8. CASE thr[u].pc \in {"send", "wait", "done", "visit"}
    BY <1>3, <1>5, <1>8, WaitsForIs DEF At
  <1> QED BY <1>4, <1>6, <1>7, <1>8 DEF At, Entered

\* If the session's end is in the circle, so is a woken requester and, unless a sync
\* waits for itself, a thread that inserts its ticket.
LEMMA CloserCircle ==
    ASSUME LocksInv, NEW S \in Circles, Closer \in S
    PROVE  \/ \E t, u \in S \ {Closer} : At(t, "woken") /\ At(u, "insert")
           \/ \E t \in S : S = {t} /\ At(t, "relock")
  <1>1. IsClosed(S)
    BY CircleFacts
  <1>2. PICK r : r = Blocker[Closer]
    OBVIOUS
  <1>3. r # NULL /\ r \in S /\ r = CloserWaitsFor
    BY <1>1, <1>2, BlockerIs DEF IsClosed
  <1>4. rejecting # <<>> /\ r = rejecting[1] /\ At(r, "woken")
    BY <1>3 DEF CloserWaitsFor
  <1>5. r \in Threads
    BY <1>4, SharedTypes
  <1>6. Blocker[r] = biglock /\ r # Closer
    BY <1>4, <1>5, BlockerIs, WaitsForIs
  <1>7. CASE biglock \in S /\ biglock \in Threads /\ At(biglock, "insert")
    <2>1. biglock # Closer
      BY <1>7
    <2> QED BY <1>3, <1>4, <1>6, <1>7, <2>1
  <1>8. CASE S = {biglock} /\ At(biglock, "relock")
    BY <1>8
  <1> QED BY <1>3, <1>6, <1>7, <1>8, BiglockCircle

\* A bounded set of natural numbers has a greatest one.
LEMMA Greatest ==
    ASSUME NEW m \in Nat, NEW A, A \subseteq 0 .. m, A # {}
    PROVE  \E x \in A : \A y \in A : y <= x
  <1>1. PICK B : B = {k \in Nat : k <= m /\ m - k \in A}
    OBVIOUS
  <1>2. B \subseteq Nat /\ \A k \in Nat : k \in B <=> k <= m /\ m - k \in A
    BY <1>1
  <1>3. B # {}
    <2>1. PICK x \in A : x \in 0 .. m
      OBVIOUS
    <2>2. m - x \in Nat /\ m - x <= m /\ m - (m - x) = x
      BY <2>1
    <2> QED BY <1>2, <2>1, <2>2
  <1>4. PICK k \in B : \A j \in B : <<j, k>> \notin OpToRel(<, Nat)
    BY <1>2, <1>3, NatLessThanWellFounded, WFMin
  <1>5. \A j \in B : ~(j < k)
    BY <1>2, <1>4 DEF OpToRel
  <1>6. k \in Nat /\ k <= m /\ m - k \in A
    BY <1>2, <1>4
  <1>7. ASSUME NEW y \in A PROVE y <= m - k
    <2>1. y \in 0 .. m
      OBVIOUS
    <2>2. m - y \in Nat /\ m - y <= m /\ m - (m - y) = y
      BY <2>1
    <2>3. m - y \in B
      BY <1>2, <2>2
    <2> QED BY <1>5, <1>6, <2>1, <2>3
  <1> QED BY <1>6, <1>7

\* A circle of node locks has a rename in it.
LEMMA NodeCircle ==
    ASSUME LocksInv, NEW S \in Circles, Closer \notin S,
           \A t \in S : At(t, "lock") /\ thr[t].list # <<>>
    PROVE  \E t \in S : thr[t].op = "rename"
  <1> SUFFICES ASSUME \A t \in S : thr[t].op # "rename" PROVE FALSE
    OBVIOUS
  <1>1. IsClosed(S)
    BY CircleFacts
  <1>2. PICK m : m = Cardinality(Nodes)
    OBVIOUS
  <1>3. m \in Nat /\ addr \in [Nodes -> 1 .. m]
    BY <1>2, FS_CardinalityType, Parts DEF SharedOk, Addresses
  <1>4. ASSUME NEW t \in S
        PROVE  /\ t \in Threads /\ thr[t].list[1] \in Nodes /\ addr[thr[t].list[1]] \in 0 .. m
               /\ 1 \in DOMAIN thr[t].list
               /\ owner[thr[t].list[1]] \in S
               /\ \A n \in Nodes : owner[n] = t => addr[n] < addr[thr[t].list[1]]
    <2>1. t \in Threads
      BY <1>1, BlockerIs DEF IsClosed
    <2>2. thr[t] \in ThreadState /\ Fits(t, thr[t], owner, biglock)
      BY <2>1, Parts, FitsIs
    <2>3. thr[t].list \in Seq(Nodes) /\ thr[t].list # <<>> /\ thr[t].pc = "lock"
      BY <2>2 DEF ThreadState, At
    <2>4. 1 \in DOMAIN thr[t].list /\ thr[t].list[1] \in Nodes
      BY <2>3
    <2>5. \A n \in Nodes : owner[n] = t => addr[n] < addr[thr[t].list[1]]
      BY <2>2, <2>3, <2>4 DEF Fits
    <2>6. addr[thr[t].list[1]] \in 1 .. m
      BY <1>3, <2>4
    <2>7. addr[thr[t].list[1]] \in 0 .. m
      BY <1>3, <2>6
    <2>8. owner[thr[t].list[1]] \in S
      <3>1. Blocker[t] = owner[thr[t].list[1]]
        BY <2>1, BlockerIs, WaitsForIs
      <3> QED BY <1>1, <3>1 DEF IsClosed
    <2> QED BY <2>1, <2>4, <2>5, <2>7, <2>8
  <1>5. PICK A : A = {addr[thr[t].list[1]] : t \in S}
    OBVIOUS
  <1>6. A \subseteq 0 .. m /\ A # {}
    BY <1>1, <1>4, <1>5 DEF IsClosed
  <1>7. PICK x \in A : \A y \in A : y <= x
    BY <1>3, <1>6, Greatest
  <1>8. PICK t \in S : x = addr[thr[t].list[1]]
    BY <1>5
  <1>9. PICK u : u = owner[thr[t].list[1]]
    OBVIOUS
  <1>10. u \in S
    BY <1>4, <1>9
  <1>11. x < addr[thr[u].list[1]]
    BY <1>4, <1>8, <1>9, <1>10
  <1>12. addr[thr[u].list[1]] <= x
    BY <1>5, <1>7, <1>10
  <1>13. x \in 0 .. m /\ addr[thr[u].list[1]] \in 0 .. m
    BY <1>4, <1>6, <1>10
  <1> QED BY <1>11, <1>12, <1>13

\* Every circle is one of the three.
LEMMA CirclesOk == LocksInv => CirclesKnown
  <1> SUFFICES ASSUME LocksInv, NEW S \in Circles
               PROVE  \/ /\ \A t \in S : At(t, "lock") /\ thr[t].list # <<>>
                         /\ \E t \in S : thr[t].op = "rename"
                      \/ /\ Closer \in S
                         /\ \E t, u \in S \ {Closer} : At(t, "woken") /\ At(u, "insert")
                      \/ \E t \in S : S = {t} /\ At(t, "relock")
    BY DEF CirclesKnown
  <1>1. IsClosed(S)
    BY CircleFacts
  <1>2. CASE Closer \in S
    BY <1>2, CloserCircle
  <1>3. CASE Closer \notin S /\ \E t \in S : Blocker[t] = biglock
    BY <1>3, BiglockCircle
  <1>4. CASE Closer \notin S /\ ~ \E t \in S : Blocker[t] = biglock
    <2>1. ASSUME NEW t \in S PROVE At(t, "lock") /\ thr[t].list # <<>>
      <3>1. t \in Threads /\ Blocker[t] = WaitsFor(t) /\ WaitsFor(t) # NULL /\ WaitsFor(t) \in S
        BY <1>1, <1>4, BlockerIs DEF IsClosed
      <3>2. ~At(t, "insert")
        <4>1. aw_mtx \in {NULL, Closer}
          BY SharedTypes
        <4> QED BY <1>4, <3>1, <4>1, WaitsForIs
      <3> QED BY <1>4, <3>1, <3>2, WaitsForIs
    <2> QED BY <1>4, <2>1, NodeCircle
  <1> QED BY <1>2, <1>3, <1>4

-----------------------------------------------------------------------------
(* The theorems *)

\* The inductive invariant: each thread owns nodes it will unlock and no others,
\* lists what it has still to lock, and has the biglock only where it has entered.
THEOREM LocksCorrect == Spec => []LocksInv
  <1>1. Init => LocksInv
    BY InitOk
  <1>2. LocksInv /\ [Next]_vars => LocksInv'
    BY NextOk
  <1> QED BY <1>1, <1>2, PTL DEF Spec

\* The types of the locks and lists, and an idle thread owns no node.
THEOREM LocksTypes == Spec => []TypeOK
  <1>1. LocksInv => TypeOK
    BY DEF LocksInv
  <1> QED BY <1>1, LocksCorrect, PTL

\* "only one lock taken per fusenode", of fusefs_lockfour and fusefs_lockpair: an
\* operation waits for a lock it has only if two of its nodes remember each other
\* as parents.
THEOREM LocksOnce == Spec => []OneLockPerNode
  <1>1. ASSUME LocksInv PROVE OneLockPerNode
    <2> SUFFICES ASSUME NEW t \in Threads, At(t, "lock"), thr[t].list # <<>>,
                        owner[thr[t].list[1]] = t, ~Mutual(thr[t].cp)
                 PROVE  FALSE
      BY DEF OneLockPerNode
    <2>1. thr[t] \in ThreadState /\ Fits(t, thr[t], owner, biglock)
      BY <1>1, Parts, FitsIs
    <2>2. 1 \in DOMAIN thr[t].list
      BY <2>1 DEF ThreadState
    <2> QED BY <2>1, <2>2 DEF Fits, At
  <1> QED BY <1>1, LocksCorrect, PTL

\* Actors wait for each other only in the three circles CirclesKnown names.
THEOREM LocksCircles == Spec => []CirclesKnown
BY CirclesOk, LocksCorrect, PTL

\* fusefs_unlockfour, fusefs_unlockpair and fusefs_unlock end an operation that has
\* the locks of exactly the nodes they unlock: none is left locked, and nobody
\* else's lock is released.
UnlocksOwn ==
    \A t \in Threads : thr[t].pc \in Past => \A n \in Nodes : n \in thr[t].cp <=> owner[n] = t

\* An operation that has taken its locks has those of the nodes it will unlock.
THEOREM LocksReturned == Spec => []UnlocksOwn
  <1>1. ASSUME LocksInv PROVE UnlocksOwn
    <2> SUFFICES ASSUME NEW t \in Threads, thr[t].pc \in Past, NEW n \in Nodes
                 PROVE  n \in thr[t].cp <=> owner[n] = t
      BY DEF UnlocksOwn
    <2>1. Fits(t, thr[t], owner, biglock)
      BY <1>1, Parts, FitsIs
    <2> QED BY <2>1 DEF Fits
  <1> QED BY <1>1, LocksCorrect, PTL
=============================================================================
