-------------------------- MODULE FuseCacheProofs --------------------------
(***************************************************************************)
(* What the kernel remembers and the daemon has, for any number of         *)
(* threads, names and nodes, any file sizes and any number of operations   *)
(* and signals: every invariant of FuseCache.                              *)
(*                                                                         *)
(* The argument.  Each of the three caches (names, attributes, sizes) is   *)
(* right, or its history says why it is not, or an operation that has its  *)
(* answer and still holds the lock will put it right when it ends.  What   *)
(* makes this inductive is who such an operation is (Mends, Renews,        *)
(* Resizes) and what an answer on its way may be older than (CurrentOk,    *)
(* VersionOk, LengthOk).                                                   *)
(***************************************************************************)
EXTENDS FuseCache, TLAPS

USE CacheAssumption, MarkersAssumption

-----------------------------------------------------------------------------
(* Types *)

Answers == [ok : BOOLEAN, node : Nodes \cup {NULL}, size : Sizes, ver : Nat]

Requests ==
    [pc : {"idle", "ready", "sent", "done"}, stage : {"none", "find", "find2", "run"},
     op : NameOps \cup FileOps \cup {"none"}, nm : Names \cup {NULL}, nm2 : Names \cup {NULL},
     vp : Nodes \cup {NULL}, vp2 : Nodes \cup {NULL}, end : Sizes, size : Sizes, iosync : BOOLEAN,
     mk : BOOLEAN, ans : Answers, over : BOOLEAN]

Daemon == [dir : [Names -> Nodes \cup {NULL}], size : [Nodes -> Sizes], ver : [Nodes -> Nat],
           made : SUBSET Nodes]

Attrs == [size : Sizes, ver : Nat]

Caches == [names : [Names -> Nodes \cup {"miss", "negative"}], vn : SUBSET Nodes,
           filesize : [Nodes -> Sizes], va : [Nodes -> Attrs], valid : [Nodes -> BOOLEAN],
           dirty : [Nodes -> Sizes], direct : SUBSET Nodes]

\* What the locks and lookups of an operation have established about its request.
Formed(r) ==
    /\ r.op = "none" <=> r.pc = "idle"
    /\ r.op \in NameOps => r.nm \in Names /\ r.stage # "none"
    /\ IF r.op = "rename" THEN r.nm2 \in Names \ {r.nm} ELSE r.nm2 = NULL
    /\ r.op \in FileOps => r.nm = NULL /\ r.stage = "run" /\ r.vp \in Files /\ r.pc # "ready"
    /\ r.op = "exchange" => r.vp2 \in Files \ {r.vp}
    /\ r.op \notin {"exchange", "rename"} => r.vp2 = NULL
    /\ r.op = "link" => r.vp \in Files
    /\ r.stage = "find2" => r.op = "rename"
    /\ r.stage = "run" /\ r.op = "remove" => r.vp \in Files
    /\ r.stage = "run" /\ r.op = "rmdir" => r.vp \in Subdirs
    /\ r.stage \in {"find2", "run"} /\ r.op = "rename" => r.vp \in Nodes
    /\ r.op = "lookup" => r.stage = "find"
    /\ r.pc = "done" /\ r.ans.ok /\ r.stage = "run" /\ r.op \in {"create", "newentry"} => r.ans.node \in Nodes

\* The vnodes of an operation are in use.
InUse(r) == {r.vp, r.vp2} \ {NULL} \subseteq kern.vn

Holds(r, x) == r.pc \in {"sent", "done"} /\ x \in Locks(r)

LockOk(t) == \A x \in Nodes \cup {Dvp} : lock[x] = t <=> Holds(thr[t], x)

VnodesOk ==
    /\ \A a \in Names : kern.names[a] \in Nodes => kern.names[a] \in kern.vn
    /\ \A n \in Nodes : kern.valid[n] \/ kern.dirty[n] > 0 \/ flight[n] > 0 => n \in kern.vn
    /\ kern.direct \subseteq kern.vn \cap Direct /\ (kern.direct # {} => sync)

TypesOk ==
    /\ sync \in BOOLEAN /\ fs \in Daemon /\ kern \in Caches /\ flight \in [Nodes -> Sizes]
    /\ lock \in [Nodes \cup {Dvp} -> Threads \cup {NULL}]
    /\ thr \in [Threads -> Requests] /\ late \subseteq Requests
    /\ cause \in [Names -> {"none", "overtaken", "moved", "made", "rmdir", "refused", "abandoned"}]
    /\ tag \in [Nodes -> SUBSET {"failed", "crossed", "overtaken", "blank", "direct", "abandoned",
                                 "moved", "replaced", "paged"}]

\* The daemon's names lead to nodes it has made.
Small(d) == \A a \in Names : d.dir[a] # NULL => d.dir[a] \in d.made

CacheTypes ==
    /\ TypesOk /\ VnodesOk /\ Small(fs)
    /\ \A t \in Threads : Formed(thr[t]) /\ InUse(thr[t]) /\ LockOk(t)
    /\ \A r \in late : Formed(r) /\ r.stage = "run" /\ r.pc = "sent"

-----------------------------------------------------------------------------
(* Names *)

Answered(r) == r.pc = "done" /\ r.ans.ok

\* An answer that has not been overtaken says what the name means.
CurrentOk(r) ==
    Answered(r) /\ ~r.over /\ (r.stage # "run" \/ r.op = "newentry") => r.ans.node = fs.dir[Name(r)]

\* While the directory is locked no name of the vnode that is renamed is entered.
RenameOk(r) ==
    r.pc \in {"sent", "done"} /\ r.stage = "run" /\ r.op = "rename" => \A a \in Names : kern.names[a] # r.vp

\* The operation that holds the lock will drop the entry of name a when it ends.
Mends(r, a) ==
    /\ Answered(r) /\ r.stage = "run"
    /\ \/ r.op = "remove" /\ r.nm = a /\ kern.names[a] = r.vp
       \/ r.op = "rename" /\ r.nm2 = a /\ kern.names[a] = r.vp2

PositiveOk(a) ==
    Wrong(a) => \/ cause[a] \in {"overtaken", "moved", "rmdir", "abandoned"}
                \/ \E t \in Threads : Mends(thr[t], a)

Creates(r, a) == Answered(r) /\ r.stage = "run" /\ r.op = "create" /\ r.nm = a

NegativeOk(a) ==
    kern.names[a] = "negative" /\ fs.dir[a] # NULL =>
        \/ cause[a] \in {"overtaken", "moved", "made", "refused", "abandoned"}
        \/ \E t \in Threads : Creates(thr[t], a)

NamesInv ==
    /\ \A t \in Threads : CurrentOk(thr[t]) /\ RenameOk(thr[t])
    /\ \A a \in Names : PositiveOk(a) /\ NegativeOk(a)

-----------------------------------------------------------------------------
(* Attributes *)

AttrTags == {"overtaken", "blank", "moved", "replaced", "paged", "failed", "abandoned"}

Marked(n) == tag[n] \cap AttrTags # {}

\* Attributes that came under the node's lock are the daemon's.
VersionOk(r) ==
    Answered(r) /\ r.op \in {"getattr", "chmod"} =>
        r.ans.ver = fs.ver[r.vp] \/ Marked(r.vp)

\* The operation that holds the lock of n renews its attributes or drops them.
Renews(r, n) ==
    /\ r.pc = "done" /\ r.stage = "run"
    /\ \/ r.op \in {"remove", "rmdir", "chmod", "truncate", "write"} /\ r.vp = n
       \/ r.op = "link" /\ r.vp = n /\ r.ans.ok
       \/ r.op = "exchange" /\ n \in {r.vp, r.vp2} /\ r.ans.ok

AttrOk(n) ==
    n \in kern.vn /\ kern.valid[n] /\ kern.va[n].ver # fs.ver[n] =>
        Marked(n) \/ \E t \in Threads : Renews(thr[t], n)

AttrInv ==
    /\ \A t \in Threads : VersionOk(thr[t])
    /\ \A n \in Nodes : AttrOk(n)

-----------------------------------------------------------------------------
(* Sizes *)

SizeTags == {"failed", "crossed", "overtaken", "blank", "direct", "abandoned"}

\* A size that was answered may be older than the pages the daemon has, which matters
\* once the mount is synchronous.
Paged(n)   == tag[n] \cap (SizeTags \cup {"paged"}) # {}
Excused(n) == tag[n] \cap SizeTags # {} \/ (sync /\ "paged" \in tag[n])

\* The size a file has once its dirty pages are written.
Due(n) == Max({fs.size[n], kern.dirty[n], flight[n]})

Plain == Files \ kern.direct

\* What a size, a write, a truncation and an exchange may rely on while they hold
\* the lock of their file.
LengthOk(r) ==
    /\ Answered(r) /\ r.op \in {"getattr", "chmod"} => r.ans.size = fs.size[r.vp] \/ Paged(r.vp)
    /\ Answered(r) /\ r.op = "truncate" => fs.size[r.vp] = r.end \/ Excused(r.vp)
    /\ r.op = "write" /\ r.vp \in Plain =>
          /\ r.pc = "sent" => r.iosync
          /\ r.pc = "sent" \/ (Answered(r) /\ ~r.iosync) => Due(r.vp) = r.size \/ Excused(r.vp)
          /\ Answered(r) /\ r.iosync => Due(r.vp) = Max({r.size, r.end}) \/ Excused(r.vp)
    /\ r.op = "exchange" =>
          /\ \A n \in {r.vp, r.vp2} : kern.dirty[n] = 0 /\ flight[n] = 0
          /\ Answered(r) => \/ \E n \in {r.vp, r.vp2} : n \in kern.direct \/ Excused(n)
                            \/ /\ fs.size[r.vp] = kern.filesize[r.vp2]
                               /\ fs.size[r.vp2] = kern.filesize[r.vp]

\* The operation that holds the lock of n will set its size.
Resizes(r, n) ==
    \/ r.op = "write" /\ r.vp = n
    \/ r.op = "truncate" /\ r.vp = n /\ Answered(r)
    \/ r.op = "exchange" /\ n \in {r.vp, r.vp2} /\ Answered(r)

LengthsOk(n) ==
    n \in kern.vn \cap Plain =>
        kern.filesize[n] = Due(n) \/ Excused(n) \/ \E t \in Threads : Resizes(thr[t], n)

\* The operation that holds the lock of n will drop its attributes, or has failed.
Forgets(r, n) ==
    \/ r.op = "write" /\ r.vp = n
    \/ r.pc = "done" /\ r.op = "truncate" /\ r.vp = n
    \/ r.op = "exchange" /\ n \in {r.vp, r.vp2} /\ Answered(r)

\* Synchronous mounts take a file's size from its attributes.
ValidOk(n) ==
    n \in kern.vn \cap Plain /\ kern.valid[n] =>
        kern.va[n].size \in {fs.size[n], kern.filesize[n]} \/ Paged(n) \/ \E t \in Threads : Forgets(thr[t], n)

SizeInv ==
    /\ \A t \in Threads : LengthOk(thr[t])
    /\ \A n \in Nodes : LengthsOk(n) /\ ValidOk(n)

-----------------------------------------------------------------------------

CacheInv == CacheTypes /\ NamesInv /\ AttrInv /\ SizeInv

-----------------------------------------------------------------------------
(* The kernel's operations on its caches *)

\* no size is negative
LEMMA SizesNat == 0 \in Sizes /\ \A e \in Sizes : e \in Nat
BY DEF Sizes

\* the largest of two sizes
LEMMA MaxTwo ==
    ASSUME NEW x \in Sizes, NEW y \in Sizes
    PROVE  Max({x, y}) = IF x >= y THEN x ELSE y
<1>1. PICK m \in {x, y} : \A z \in {x, y} : m >= z
  BY SizesNat
<1>2. Max({x, y}) \in {x, y} /\ \A z \in {x, y} : Max({x, y}) >= z
  BY <1>1 DEF Max
<1> QED BY <1>2, SizesNat

\* the largest of three sizes
LEMMA MaxThree ==
    ASSUME NEW x \in Sizes, NEW y \in Sizes, NEW z \in Sizes
    PROVE  Max({x, y, z}) = IF x >= y /\ x >= z THEN x ELSE IF y >= z THEN y ELSE z
<1>1. PICK m \in {x, y, z} : \A w \in {x, y, z} : m >= w
  BY SizesNat
<1>2. Max({x, y, z}) \in {x, y, z} /\ \A w \in {x, y, z} : Max({x, y, z}) >= w
  BY <1>1 DEF Max
<1> QED BY <1>2, SizesNat

\* the smaller of two sizes
LEMMA MinTwo ==
    ASSUME NEW x \in Sizes, NEW y \in Sizes
    PROVE  Min({x, y}) = IF x <= y THEN x ELSE y
<1>1. PICK m \in {x, y} : \A z \in {x, y} : z >= m
  BY SizesNat
<1>2. Min({x, y}) \in {x, y} /\ \A z \in {x, y} : z >= Min({x, y})
  BY <1>1 DEF Min
<1> QED BY <1>2, SizesNat

\* a bzero'd cached_attr is one
LEMMA BlankType == Blank \in Attrs /\ Blank.size = 0 /\ Blank.ver = 0
BY SizesNat DEF Blank, Attrs

\* cache_purge of the vnodes in S
LEMMA PurgeFacts ==
    ASSUME NEW k \in Caches, NEW S
    PROVE  /\ Purge(k, S) \in Caches
           /\ \A a \in Names : Purge(k, S).names[a] = IF k.names[a] \in S THEN "miss" ELSE k.names[a]
           /\ Purge(k, S).vn = k.vn /\ Purge(k, S).filesize = k.filesize /\ Purge(k, S).va = k.va
           /\ Purge(k, S).valid = k.valid /\ Purge(k, S).dirty = k.dirty
           /\ Purge(k, S).direct = k.direct
BY DEF Purge, Caches

\* cache_purge of the directory
LEMMA PurgeDirFacts ==
    ASSUME NEW k \in Caches
    PROVE  /\ PurgeDir(k) \in Caches
           /\ \A a \in Names : PurgeDir(k).names[a] = "miss"
           /\ PurgeDir(k).vn = k.vn /\ PurgeDir(k).filesize = k.filesize /\ PurgeDir(k).va = k.va
           /\ PurgeDir(k).valid = k.valid /\ PurgeDir(k).dirty = k.dirty
           /\ PurgeDir(k).direct = k.direct
BY DEF PurgeDir, Caches

\* the attributes of the nodes in S are over
LEMMA InvalidateFacts ==
    ASSUME NEW k \in Caches, NEW S
    PROVE  /\ Invalidate(k, S) \in Caches
           /\ \A n \in Nodes : Invalidate(k, S).valid[n] <=> k.valid[n] /\ n \notin S
           /\ Invalidate(k, S).vn = k.vn /\ Invalidate(k, S).filesize = k.filesize
           /\ Invalidate(k, S).va = k.va
           /\ Invalidate(k, S).names = k.names /\ Invalidate(k, S).dirty = k.dirty
           /\ Invalidate(k, S).direct = k.direct
BY DEF Invalidate, Caches

\* a new vnode, or the one there is
LEMMA VgetFacts ==
    ASSUME NEW k \in Caches, NEW ans \in Answers, ans.node \in Nodes, NEW early \in BOOLEAN
    PROVE  /\ Vget(k, ans, early) \in Caches
           /\ Vget(k, ans, early).vn = k.vn \cup {ans.node}
           /\ Vget(k, ans, early).names = k.names /\ Vget(k, ans, early).dirty = k.dirty
           /\ Vget(k, ans, early).direct = k.direct
           /\ \A n \in Nodes \ {ans.node} : /\ Vget(k, ans, early).filesize[n] = k.filesize[n]
                                            /\ Vget(k, ans, early).va[n] = k.va[n]
                                            /\ Vget(k, ans, early).valid[n] = k.valid[n]
           /\ ans.node \in k.vn => Vget(k, ans, early) = k
           /\ ans.node \notin k.vn => /\ Vget(k, ans, early).filesize[ans.node] = ans.size
                                      /\ Vget(k, ans, early).valid[ans.node] = early
<1>1. CASE ans.node \in k.vn
  BY <1>1 DEF Vget
<1>2. CASE ans.node \notin k.vn
  BY <1>2, BlankType DEF Vget, Caches, Answers
<1> QED BY <1>1, <1>2

\* the attributes of an answer are cached
LEMMA CacheAttrsFacts ==
    ASSUME sync \in BOOLEAN, NEW k \in Caches, NEW n \in Nodes, NEW ans \in Answers
    PROVE  /\ CacheAttrs(k, n, ans) \in Caches
           /\ CacheAttrs(k, n, ans).vn = k.vn /\ CacheAttrs(k, n, ans).names = k.names
           /\ CacheAttrs(k, n, ans).dirty = k.dirty /\ CacheAttrs(k, n, ans).filesize = k.filesize
           /\ \A m \in Nodes \ {n} : /\ CacheAttrs(k, n, ans).va[m] = k.va[m]
                                     /\ CacheAttrs(k, n, ans).valid[m] = k.valid[m]
           /\ CacheAttrs(k, n, ans).va[n].ver = ans.ver
           /\ CacheAttrs(k, n, ans).va[n].size = IF sync THEN ans.size ELSE k.filesize[n]
           /\ CacheAttrs(k, n, ans).direct = k.direct
<1>1. (IF sync THEN ans.size ELSE k.filesize[n]) \in Sizes
  BY DEF Caches, Answers
<1>2. [size |-> IF sync THEN ans.size ELSE k.filesize[n], ver |-> ans.ver] \in Attrs
  BY <1>1 DEF Attrs, Answers
<1>3. PICK v \in Attrs : v = [size |-> IF sync THEN ans.size ELSE k.filesize[n], ver |-> ans.ver]
  BY <1>2
<1>4. CacheAttrs(k, n, ans) = [k EXCEPT !.va[n] = v, !.valid[n] = TRUE]
  BY <1>3 DEF CacheAttrs, Fat2Vat
<1>5. v.ver = ans.ver /\ v.size = IF sync THEN ans.size ELSE k.filesize[n]
  BY <1>3
<1>6. CacheAttrs(k, n, ans) = [k EXCEPT !.va = [k.va EXCEPT ![n] = v],
                                        !.valid = [k.valid EXCEPT ![n] = TRUE]]
  BY <1>4 DEF Caches
<1>7. [k.va EXCEPT ![n] = v] \in [Nodes -> Attrs] /\ [k.valid EXCEPT ![n] = TRUE] \in [Nodes -> BOOLEAN]
  BY DEF Caches
<1>8. CacheAttrs(k, n, ans) \in Caches
  BY <1>6, <1>7 DEF Caches
<1>9. CacheAttrs(k, n, ans).va[n] = v
  BY <1>6 DEF Caches
<1> QED BY <1>5, <1>6, <1>8, <1>9 DEF Caches

\* the size of a file and of its attributes are made equal
LEMMA LoadVapFacts ==
    ASSUME sync \in BOOLEAN, NEW k \in Caches, NEW n \in Nodes
    PROVE  /\ LoadVap(k, n) \in Caches
           /\ LoadVap(k, n).vn = k.vn /\ LoadVap(k, n).names = k.names
           /\ LoadVap(k, n).dirty = k.dirty /\ LoadVap(k, n).valid = k.valid
           /\ \A m \in Nodes \ {n} : /\ LoadVap(k, n).va[m] = k.va[m]
                                     /\ LoadVap(k, n).filesize[m] = k.filesize[m]
           /\ LoadVap(k, n).va[n].ver = k.va[n].ver
           /\ sync => LoadVap(k, n).filesize[n] = k.va[n].size /\ LoadVap(k, n).va[n] = k.va[n]
           /\ ~sync => LoadVap(k, n).filesize = k.filesize /\ LoadVap(k, n).va[n].size = k.filesize[n]
           /\ LoadVap(k, n).direct = k.direct
<1>a. k.va[n] \in Attrs
  BY DEF Caches
<1>1. CASE sync
  <2>1. PICK s \in Sizes : s = k.va[n].size
    BY <1>a DEF Attrs
  <2>2. LoadVap(k, n) = [k EXCEPT !.filesize = [k.filesize EXCEPT ![n] = s]]
    BY <1>1, <2>1 DEF LoadVap, Caches
  <2>3. [k.filesize EXCEPT ![n] = s] \in [Nodes -> Sizes]
    BY DEF Caches
  <2> QED BY <1>1, <2>1, <2>2, <2>3 DEF Caches
<1>2. CASE ~sync
  <2>a. k.filesize[n] \in Sizes
    BY DEF Caches
  <2>b. [k.va[n] EXCEPT !.size = k.filesize[n]] \in Attrs
    BY <1>a, <2>a DEF Attrs
  <2>1. PICK v \in Attrs : v = [k.va[n] EXCEPT !.size = k.filesize[n]]
    BY <2>b
  <2>2. LoadVap(k, n) = [k EXCEPT !.va = [k.va EXCEPT ![n] = v]]
    BY <1>2, <2>1 DEF LoadVap, Caches, Attrs
  <2>3. v.ver = k.va[n].ver /\ v.size = k.filesize[n]
    BY <1>a, <2>1 DEF Attrs
  <2> QED BY <1>2, <2>2, <2>3 DEF Caches
<1> QED BY <1>1, <1>2

\* a file of FOPEN_DIRECT_IO has the size of the answer
LEMMA FudgeFacts ==
    ASSUME NEW k \in Caches, NEW n \in Nodes, NEW s \in Sizes
    PROVE  /\ Fudge(k, n, s) \in Caches
           /\ Fudge(k, n, s).vn = k.vn /\ Fudge(k, n, s).names = k.names
           /\ Fudge(k, n, s).dirty = k.dirty /\ Fudge(k, n, s).valid = k.valid
           /\ Fudge(k, n, s).va = k.va
           /\ Fudge(k, n, s).direct = k.direct
           /\ \A m \in Nodes \ k.direct : Fudge(k, n, s).filesize[m] = k.filesize[m]
BY DEF Fudge, Caches

\* the name of a lookup gets an entry
LEMMA EnterFacts ==
    ASSUME NEW k \in Caches, NEW r, NEW c \in Nodes \cup {"miss", "negative"}, Name(r) \in Names
    PROVE  /\ Enter(k, r, c) \in Caches
           /\ Enter(k, r, c).vn = k.vn /\ Enter(k, r, c).dirty = k.dirty /\ Enter(k, r, c).valid = k.valid
           /\ Enter(k, r, c).va = k.va /\ Enter(k, r, c).filesize = k.filesize
           /\ Enter(k, r, c).direct = k.direct
           /\ \A a \in Names : Enter(k, r, c).names[a] = IF MakeEntry(r) /\ a = Name(r) THEN c ELSE k.names[a]
BY DEF Enter, Caches

-----------------------------------------------------------------------------
(* What the daemon does with a request *)

\* an answer about a node or about none
LEMMA AboutFacts ==
    ASSUME NEW d \in Daemon, NEW n \in Nodes \cup {NULL}
    PROVE  /\ About(d, n) \in Answers /\ About(d, n).ok /\ About(d, n).node = n
           /\ n \in Nodes => About(d, n).size = d.size[n] /\ About(d, n).ver = d.ver[n]
<1>1. CASE n = NULL
  BY <1>1, SizesNat DEF About, Fail, Answers
<1>2. CASE n # NULL
  BY <1>2 DEF About, Answers, Daemon
<1> QED BY <1>1, <1>2

\* no answer
LEMMA FailFacts == Fail \in Answers /\ Fail.ok = FALSE /\ Fail.node = NULL
BY SizesNat DEF Fail, Answers

\* a file is written
LEMMA WrittenFacts ==
    ASSUME NEW d \in Daemon, NEW n \in Nodes, NEW e \in Sizes
    PROVE  /\ Written(d, n, e) \in Daemon /\ Written(d, n, e).dir = d.dir /\ Written(d, n, e).made = d.made
           /\ Written(d, n, e).size[n] = Max({d.size[n], e})
           /\ \A m \in Nodes \ {n} : /\ Written(d, n, e).size[m] = d.size[m]
                                     /\ Written(d, n, e).ver[m] = d.ver[m]
<1>1. d.size[n] \in Sizes /\ d.ver[n] \in Nat
  BY DEF Daemon
<1>2. PICK s \in Sizes : s = Max({d.size[n], e})
  BY <1>1, MaxTwo
<1>3. PICK v \in Nat : v = d.ver[n] + 1
  BY <1>1
<1>4. Written(d, n, e) = [d EXCEPT !.size = [d.size EXCEPT ![n] = s], !.ver = [d.ver EXCEPT ![n] = v]]
  BY <1>2, <1>3 DEF Written, Daemon
<1>5. [d.size EXCEPT ![n] = s] \in [Nodes -> Sizes] /\ [d.ver EXCEPT ![n] = v] \in [Nodes -> Nat]
  BY DEF Daemon
<1>6. /\ Written(d, n, e).dir = d.dir /\ Written(d, n, e).made = d.made
      /\ Written(d, n, e).size = [d.size EXCEPT ![n] = s] /\ Written(d, n, e).ver = [d.ver EXCEPT ![n] = v]
      /\ Written(d, n, e) \in Daemon
  BY <1>4, <1>5 DEF Daemon
<1> QED BY <1>2, <1>6 DEF Daemon

\* From d to e: what executing request r may do to the directory.
DirStep(d, r, e, ans) ==
    /\ \A a \in Names : a \notin {r.nm, r.nm2} => e.dir[a] = d.dir[a]
    /\ r.stage # "run" => e = d /\ ans.node = d.dir[Name(r)]
    /\ r.op \in FileOps => e.dir = d.dir
    /\ r.stage = "run" /\ r.op \in {"create", "newentry", "link"} =>
          d.dir[r.nm] = NULL \/ e.dir[r.nm] = d.dir[r.nm]
    /\ r.stage = "run" /\ r.op \in {"create", "newentry"} => ans.node \in Nodes
    /\ r.stage = "run" /\ r.op = "newentry" => ans.node = e.dir[r.nm]
    /\ r.stage = "run" /\ r.op \in {"remove", "rmdir"} => e.dir[r.nm] = NULL
    /\ r.stage = "run" /\ r.op = "rename" => e.dir[r.nm] = NULL \/ e.dir[r.nm] = d.dir[r.nm]

\* What it may do to the other attributes.
VerStep(d, r, e, ans) ==
    /\ \A n \in Nodes : e.ver[n] # d.ver[n] =>
          /\ r.stage = "run"
          /\ r.op \in {"remove", "rmdir", "rename"} 
             \/ (r.op \in {"link", "chmod", "truncate", "write"} /\ n = r.vp)
             \/ (r.op = "exchange" /\ n \in {r.vp, r.vp2})
    /\ r.op \in {"getattr", "chmod"} => ans.ver = e.ver[r.vp]

\* What it may do to the sizes.
SizeStep(d, r, e, ans) ==
    /\ r.op \notin {"truncate", "write", "exchange"} => e.size = d.size
    /\ \A n \in Nodes \ {r.vp, r.vp2} : e.size[n] = d.size[n]
    /\ r.op \in {"getattr", "chmod"} => ans.size = e.size[r.vp]
    /\ r.op = "truncate" => e.size[r.vp] = r.end
    /\ r.op = "write" => e.size[r.vp] = Max({d.size[r.vp], r.end})
    /\ r.op = "exchange" => e.size[r.vp] = d.size[r.vp2] /\ e.size[r.vp2] = d.size[r.vp]

Executed(d, r, e, ans) ==
    /\ e \in Daemon /\ Small(e) /\ ans \in Answers /\ (ans.ok \/ r.op = "write")
    /\ DirStep(d, r, e, ans) /\ VerStep(d, r, e, ans) /\ SizeStep(d, r, e, ans)

\* a lookup
LEMMA ExecFind ==
    ASSUME NEW d \in Daemon, Small(d), NEW r \in Requests, Formed(r), r.op \in NameOps,
           r.stage \in {"find", "find2"}, NEW out \in Exec(d, r)
    PROVE  Executed(d, r, out[1], out[2])
<1>1. r.op \in NameOps /\ Name(r) \in Names
  BY DEF Formed, Name
<1>2. out = <<d, About(d, d.dir[Name(r)])>>
  <2>1. Exec(d, r) = {<<d, About(d, d.dir[IF r.stage = "find" THEN r.nm ELSE r.nm2])>>}
    BY DEF Exec
  <2>2. (IF r.stage = "find" THEN r.nm ELSE r.nm2) = Name(r)
    BY DEF Name
  <2> QED BY <2>1, <2>2
<1>3. out[1] = d /\ out[2] = About(d, d.dir[Name(r)])
  BY <1>2
<1>4. d.dir[Name(r)] \in Nodes \cup {NULL}
  BY <1>1 DEF Daemon
<1>5. out[2] \in Answers /\ out[2].ok /\ out[2].node = d.dir[Name(r)]
  BY <1>3, <1>4, AboutFacts
<1> QED BY <1>1, <1>3, <1>5 DEF Executed, DirStep, VerStep, SizeStep, NameOps, FileOps

Added(d, a, n) == [d EXCEPT !.dir[a] = n, !.made = @ \cup {n}]

\* a new node under a name
LEMMA NewNode ==
    ASSUME NEW d \in Daemon, Small(d), NEW a \in Names, NEW n \in Nodes,
           NEW e, e = Added(d, a, n)
    PROVE  /\ e \in Daemon /\ Small(e) /\ e.ver = d.ver /\ e.size = d.size /\ e.dir[a] = n
           /\ \A b \in Names \ {a} : e.dir[b] = d.dir[b]
<1>1. e = [d EXCEPT !.dir = [d.dir EXCEPT ![a] = n], !.made = d.made \cup {n}]
  BY DEF Daemon, Added
<1>2. [d.dir EXCEPT ![a] = n] \in [Names -> Nodes \cup {NULL}]
  BY DEF Daemon
<1>a. d.made \cup {n} \in SUBSET Nodes
  BY DEF Daemon
<1>3. /\ e \in Daemon /\ e.dir = [d.dir EXCEPT ![a] = n] /\ e.made = d.made \cup {n}
      /\ e.ver = d.ver /\ e.size = d.size
  BY <1>1, <1>2, <1>a DEF Daemon
<1>4. e.dir[a] = n /\ \A b \in Names \ {a} : e.dir[b] = d.dir[b]
  BY <1>3 DEF Daemon
<1> QED BY <1>3, <1>4 DEF Small

\* fuse_vnop_create and fuse_internal_newentry
LEMMA ExecMake ==
    ASSUME NEW d \in Daemon, Small(d), NEW r \in Requests, Formed(r), r.stage = "run",
           r.op \in {"create", "newentry"}, NEW out \in Exec(d, r)
    PROVE  Executed(d, r, out[1], out[2])
<1>1. r.nm \in Names /\ r.nm2 = NULL /\ r.vp2 = NULL
  BY DEF Formed, NameOps
<1>2. \/ /\ r.op = "create" /\ d.dir[r.nm] \in Files
         /\ out = <<d, About(d, d.dir[r.nm])>>
      \/ /\ d.dir[r.nm] = NULL
         /\ \E n \in Nodes : out = <<[d EXCEPT !.dir[r.nm] = n, !.made = @ \cup {n}], About(d, n)>>
  <2>1. CASE r.op = "create"
    BY <2>1 DEF Exec, Nodes
  <2>2. CASE r.op = "newentry"
    BY <2>2 DEF Exec
  <2> QED BY <2>1, <2>2
<1>3. CASE r.op = "create" /\ d.dir[r.nm] \in Files /\ out = <<d, About(d, d.dir[r.nm])>>
  <2>1. out[1] = d /\ out[2] = About(d, d.dir[r.nm])
    BY <1>3
  <2>2. out[2] \in Answers /\ out[2].ok /\ out[2].node = d.dir[r.nm] /\ d.dir[r.nm] \in Nodes
    BY <1>3, <2>1, AboutFacts DEF Nodes
  <2> QED BY <1>1, <1>3, <2>1, <2>2 DEF Executed, DirStep, VerStep, SizeStep, NameOps, FileOps
<1>4. ASSUME d.dir[r.nm] = NULL,
             NEW n \in Nodes, out = <<[d EXCEPT !.dir[r.nm] = n, !.made = @ \cup {n}], About(d, n)>>
      PROVE  Executed(d, r, out[1], out[2])
  <2>1. out[1] = [d EXCEPT !.dir[r.nm] = n, !.made = @ \cup {n}] /\ out[2] = About(d, n)
    BY <1>4
  <2>2. out[2] \in Answers /\ out[2].ok /\ out[2].node = n
    BY <2>1, AboutFacts
  <2>3. PICK e : e = out[1] /\ e = Added(d, r.nm, n)
    BY <2>1 DEF Added
  <2>4. /\ e \in Daemon /\ Small(e) /\ e.ver = d.ver /\ e.size = d.size /\ e.dir[r.nm] = n
        /\ \A b \in Names \ {r.nm} : e.dir[b] = d.dir[b]
    BY <1>1, <2>3, NewNode
  <2> QED BY <1>1, <1>4, <2>2, <2>3, <2>4 DEF Executed, DirStep, VerStep, SizeStep, NameOps, FileOps
<1> QED BY <1>2, <1>3, <1>4

Links(d, a, c, n) == [d EXCEPT !.dir[a] = c, !.ver[n] = @ + 1]

\* a name and a node change
LEMMA Relinked ==
    ASSUME NEW d \in Daemon, Small(d), NEW a \in Names, NEW c \in d.made \cup {NULL}, NEW n \in Nodes,
           NEW e, e = Links(d, a, c, n)
    PROVE  /\ e \in Daemon /\ Small(e) /\ e.size = d.size /\ e.dir[a] = c
           /\ \A b \in Names \ {a} : e.dir[b] = d.dir[b]
           /\ \A m \in Nodes \ {n} : e.ver[m] = d.ver[m]
<1>1. e = [d EXCEPT !.dir = [d.dir EXCEPT ![a] = c], !.ver = [d.ver EXCEPT ![n] = d.ver[n] + 1]]
  BY DEF Daemon, Links
<1>2. d.ver[n] \in Nat /\ c \in Nodes \cup {NULL}
  BY DEF Daemon
<1>3. /\ [d.dir EXCEPT ![a] = c] \in [Names -> Nodes \cup {NULL}]
      /\ [d.ver EXCEPT ![n] = d.ver[n] + 1] \in [Nodes -> Nat]
  BY <1>2 DEF Daemon
<1>4. /\ e \in Daemon /\ e.dir = [d.dir EXCEPT ![a] = c] /\ e.made = d.made
      /\ e.ver = [d.ver EXCEPT ![n] = d.ver[n] + 1] /\ e.size = d.size
  BY <1>1, <1>3 DEF Daemon
<1>5. e.dir[a] = c /\ \A b \in Names \ {a} : e.dir[b] = d.dir[b]
  BY <1>4 DEF Daemon
<1>6. \A m \in Nodes \ {n} : e.ver[m] = d.ver[m]
  BY <1>4 DEF Daemon
<1> QED BY <1>4, <1>5, <1>6 DEF Small

\* fuse_vnop_remove and fuse_vnop_rmdir
LEMMA ExecUnlink ==
    ASSUME NEW d \in Daemon, Small(d), NEW r \in Requests, Formed(r), r.stage = "run",
           r.op \in {"remove", "rmdir"}, NEW out \in Exec(d, r)
    PROVE  Executed(d, r, out[1], out[2])
<1>1. r.nm \in Names /\ r.nm2 = NULL /\ r.vp2 = NULL
  BY DEF Formed, NameOps
<1>2. /\ d.dir[r.nm] \in Nodes
      /\ out = <<[d EXCEPT !.dir[r.nm] = NULL, !.ver[d.dir[r.nm]] = @ + 1], About(d, NULL)>>
  <2>1. CASE r.op = "remove"
    BY <2>1 DEF Exec, Nodes
  <2>2. CASE r.op = "rmdir"
    BY <2>2 DEF Exec, Nodes
  <2> QED BY <2>1, <2>2
<1>3. out[1] = [d EXCEPT !.dir[r.nm] = NULL, !.ver[d.dir[r.nm]] = @ + 1] /\ out[2] = About(d, NULL)
  BY <1>2
<1>4. out[2] \in Answers /\ out[2].ok
  BY <1>3, AboutFacts
<1>6. PICK n \in Nodes : n = d.dir[r.nm]
  BY <1>2
<1>5. PICK e : e = out[1] /\ e = Links(d, r.nm, NULL, n)
  BY <1>3, <1>6 DEF Links
<1>7. /\ e \in Daemon /\ Small(e) /\ e.size = d.size /\ e.dir[r.nm] = NULL
      /\ \A b \in Names \ {r.nm} : e.dir[b] = d.dir[b]
      /\ \A m \in Nodes \ {n} : e.ver[m] = d.ver[m]
  <2>1. PICK a \in Names : a = r.nm
    BY <1>1
  <2>2. PICK c \in d.made \cup {NULL} : c = NULL
    OBVIOUS
  <2>3. e = Links(d, a, c, n)
    BY <1>5, <2>1, <2>2
  <2>4. /\ e \in Daemon /\ Small(e) /\ e.size = d.size /\ e.dir[a] = c
        /\ \A b \in Names \ {a} : e.dir[b] = d.dir[b]
        /\ \A m \in Nodes \ {n} : e.ver[m] = d.ver[m]
    BY <2>3, Relinked
  <2> QED BY <2>1, <2>2, <2>4
<1> QED BY <1>1, <1>4, <1>5, <1>7 DEF Executed, DirStep, VerStep, SizeStep, NameOps, FileOps

\* fuse_vnop_link
LEMMA ExecLink ==
    ASSUME NEW d \in Daemon, Small(d), NEW r \in Requests, Formed(r), r.stage = "run",
           r.op = "link", NEW out \in Exec(d, r)
    PROVE  Executed(d, r, out[1], out[2])
<1>1. r.nm \in Names /\ r.nm2 = NULL /\ r.vp2 = NULL /\ r.vp \in Nodes
  BY DEF Formed, NameOps, Nodes
<1>2. /\ d.dir[r.nm] = NULL /\ r.vp \in Linked(d)
      /\ out = <<[d EXCEPT !.dir[r.nm] = r.vp, !.ver[r.vp] = @ + 1], About(d, r.vp)>>
  BY DEF Exec
<1>3. r.vp \in d.made
  BY <1>2 DEF Linked, Range, Small, Daemon
<1>4. out[1] = [d EXCEPT !.dir[r.nm] = r.vp, !.ver[r.vp] = @ + 1] /\ out[2] = About(d, r.vp)
  BY <1>2
<1>5. out[2] \in Answers /\ out[2].ok
  BY <1>1, <1>4, AboutFacts
<1>6. PICK e : e = out[1] /\ e = Links(d, r.nm, r.vp, r.vp)
  BY <1>4 DEF Links
<1>7. /\ e \in Daemon /\ Small(e) /\ e.size = d.size
      /\ \A b \in Names \ {r.nm} : e.dir[b] = d.dir[b]
      /\ \A m \in Nodes \ {r.vp} : e.ver[m] = d.ver[m]
  <2>1. PICK a \in Names, c \in d.made \cup {NULL}, n \in Nodes : a = r.nm /\ c = r.vp /\ n = r.vp
    BY <1>1, <1>3
  <2>2. e = Links(d, a, c, n)
    BY <1>6, <2>1
  <2>3. /\ e \in Daemon /\ Small(e) /\ e.size = d.size
        /\ \A b \in Names \ {a} : e.dir[b] = d.dir[b]
        /\ \A m \in Nodes \ {n} : e.ver[m] = d.ver[m]
    BY <2>2, Relinked
  <2> QED BY <2>1, <2>3
<1> QED BY <1>1, <1>2, <1>5, <1>6, <1>7 DEF Executed, DirStep, VerStep, SizeStep, NameOps, FileOps

\* fuse_vnop_rename
LEMMA ExecRename ==
    ASSUME NEW d \in Daemon, Small(d), NEW r \in Requests, Formed(r), r.stage = "run",
           r.op = "rename", NEW out \in Exec(d, r)
    PROVE  Executed(d, r, out[1], out[2])
<1>1. r.nm \in Names /\ r.nm2 \in Names /\ r.nm # r.nm2
  BY DEF Formed, NameOps
<1>2. \/ out = <<d, About(d, NULL)>>
      \/ /\ d.dir[r.nm] # NULL
         /\ out = <<[d EXCEPT !.dir = [@ EXCEPT ![r.nm] = NULL, ![r.nm2] = d.dir[r.nm]],
                              !.ver = [n \in Nodes |-> @[n] + (IF n = d.dir[r.nm2] THEN 1 ELSE 0)]],
                    About(d, NULL)>>
  BY DEF Exec
<1>a. About(d, NULL) \in Answers /\ About(d, NULL).ok
  BY AboutFacts
<1>3. CASE out = <<d, About(d, NULL)>>
  <2>1. out[1] = d /\ out[2] = About(d, NULL)
    BY <1>3
  <2> QED BY <1>a, <2>1 DEF Executed, DirStep, VerStep, SizeStep, NameOps, FileOps
<1>4. CASE /\ d.dir[r.nm] # NULL
           /\ out = <<[d EXCEPT !.dir = [@ EXCEPT ![r.nm] = NULL, ![r.nm2] = d.dir[r.nm]],
                                !.ver = [n \in Nodes |-> @[n] + (IF n = d.dir[r.nm2] THEN 1 ELSE 0)]],
                      About(d, NULL)>>
  <2>1. PICK e : e = out[1]
    OBVIOUS
  <2>2. PICK f : f = [d.dir EXCEPT ![r.nm] = NULL, ![r.nm2] = d.dir[r.nm]]
    OBVIOUS
  <2>3. PICK v : v = [n \in Nodes |-> d.ver[n] + (IF n = d.dir[r.nm2] THEN 1 ELSE 0)]
    OBVIOUS
  <2>4. e = [d EXCEPT !.dir = f, !.ver = v] /\ out[2] = About(d, NULL)
    BY <1>4, <2>1, <2>2, <2>3
  <2>5. /\ f \in [Names -> Nodes \cup {NULL}] /\ f[r.nm] = NULL /\ f[r.nm2] = d.dir[r.nm]
        /\ \A a \in Names : a \notin {r.nm, r.nm2} => f[a] = d.dir[a]
    BY <1>1, <2>2 DEF Daemon
  <2>6. v \in [Nodes -> Nat]
    <3>1. ASSUME NEW n \in Nodes PROVE d.ver[n] + (IF n = d.dir[r.nm2] THEN 1 ELSE 0) \in Nat
      BY DEF Daemon
    <3> QED BY <2>3, <3>1
  <2>7. e \in Daemon /\ e.dir = f /\ e.ver = v /\ e.made = d.made /\ e.size = d.size
    BY <2>4, <2>5, <2>6 DEF Daemon
  <2>8. Small(e)
    BY <1>1, <2>5, <2>7 DEF Small
  <2> QED BY <1>1, <1>a, <2>1, <2>4, <2>5, <2>7, <2>8 DEF Executed, DirStep, VerStep, SizeStep, NameOps, FileOps
<1> QED BY <1>2, <1>3, <1>4

\* the operations on files
LEMMA ExecFile ==
    ASSUME NEW d \in Daemon, Small(d), NEW r \in Requests, Formed(r), r.op \in FileOps, NEW out \in Exec(d, r)
    PROVE  Executed(d, r, out[1], out[2])
<1>1. /\ r.stage = "run" /\ r.vp \in Nodes /\ r.end \in Sizes
      /\ r.op = "exchange" => r.vp2 \in Nodes /\ r.vp2 # r.vp
      /\ r.nm = NULL /\ r.nm2 = NULL
  BY DEF Formed, Nodes, Requests, FileOps
<1>a. About(d, NULL) \in Answers /\ About(d, NULL).ok
  BY AboutFacts
<1>b. d.size[r.vp] \in Sizes /\ d.ver[r.vp] \in Nat
  BY <1>1 DEF Daemon
<1>2. CASE r.op = "getattr"
  <2>1. out = <<d, About(d, r.vp)>>
    BY <1>1, <1>2 DEF Exec
  <2>2. out[1] = d /\ out[2] = About(d, r.vp)
    BY <2>1
  <2>3. out[2] \in Answers /\ out[2].ok /\ out[2].size = d.size[r.vp] /\ out[2].ver = d.ver[r.vp]
    BY <1>1, <2>2, AboutFacts
  <2> QED BY <1>1, <1>2, <2>2, <2>3 DEF Executed, DirStep, VerStep, SizeStep
<1>3. CASE r.op = "chmod"
  <2>1. PICK e : e = [d EXCEPT !.ver = [d.ver EXCEPT ![r.vp] = d.ver[r.vp] + 1]]
    OBVIOUS
  <2>2. out = <<e, About(e, r.vp)>>
    BY <1>1, <1>3, <2>1 DEF Exec, Daemon
  <2>3. [d.ver EXCEPT ![r.vp] = d.ver[r.vp] + 1] \in [Nodes -> Nat]
    <3>1. d.ver[r.vp] + 1 \in Nat
      BY <1>b
    <3> QED BY <3>1 DEF Daemon
  <2>4. /\ e \in Daemon /\ e.dir = d.dir /\ e.made = d.made /\ e.size = d.size
        /\ \A n \in Nodes \ {r.vp} : e.ver[n] = d.ver[n]
    BY <2>1, <2>3 DEF Daemon
  <2>5. out[1] = e /\ out[2] = About(e, r.vp)
    BY <2>2
  <2>6. out[2] \in Answers /\ out[2].ok /\ out[2].size = e.size[r.vp] /\ out[2].ver = e.ver[r.vp]
    BY <1>1, <2>4, <2>5, AboutFacts
  <2> QED BY <1>1, <1>3, <2>4, <2>5, <2>6 DEF Executed, DirStep, VerStep, SizeStep, Small
<1>c. [d.ver EXCEPT ![r.vp] = d.ver[r.vp] + 1] \in [Nodes -> Nat]
  <2>1. d.ver[r.vp] + 1 \in Nat
    BY <1>b
  <2> QED BY <2>1 DEF Daemon
<1>4. CASE r.op = "truncate"
  <2>1. PICK e : e = [d EXCEPT !.size = [d.size EXCEPT ![r.vp] = r.end],
                               !.ver = [d.ver EXCEPT ![r.vp] = d.ver[r.vp] + 1]]
    OBVIOUS
  <2>2. out = <<e, About(e, r.vp)>>
    BY <1>1, <1>4, <2>1 DEF Exec, Daemon
  <2>4. /\ e \in Daemon /\ e.dir = d.dir /\ e.made = d.made /\ e.size[r.vp] = r.end
        /\ \A n \in Nodes \ {r.vp} : e.size[n] = d.size[n] /\ e.ver[n] = d.ver[n]
    BY <1>1, <1>c, <2>1 DEF Daemon
  <2>5. out[1] = e /\ out[2] = About(e, r.vp)
    BY <2>2
  <2>6. out[2] \in Answers /\ out[2].ok
    BY <1>1, <2>4, <2>5, AboutFacts
  <2> QED BY <1>1, <1>4, <2>4, <2>5, <2>6 DEF Executed, DirStep, VerStep, SizeStep, Small
<1>5. CASE r.op = "write"
  <2>1. PICK e : e = Written(d, r.vp, r.end)
    OBVIOUS
  <2>2. out \in {e} \X {About(d, NULL), Fail}
    BY <1>1, <1>5, <2>1 DEF Exec
  <2>4. /\ e \in Daemon /\ e.dir = d.dir /\ e.made = d.made /\ e.size[r.vp] = Max({d.size[r.vp], r.end})
        /\ \A n \in Nodes \ {r.vp} : e.size[n] = d.size[n] /\ e.ver[n] = d.ver[n]
    <3>1. PICK z \in Sizes, v \in Nodes : z = r.end /\ v = r.vp
      BY <1>1
    <3>2. e = Written(d, v, z)
      BY <2>1, <3>1
    <3>3. /\ e \in Daemon /\ e.dir = d.dir /\ e.made = d.made /\ e.size[v] = Max({d.size[v], z})
          /\ \A n \in Nodes \ {v} : e.size[n] = d.size[n] /\ e.ver[n] = d.ver[n]
      BY <3>2, WrittenFacts
    <3> QED BY <3>1, <3>3
  <2>5. out[1] = e /\ out[2] \in Answers
    BY <1>a, <2>2, FailFacts
  <2> QED BY <1>1, <1>5, <2>4, <2>5 DEF Executed, DirStep, VerStep, SizeStep, Small
<1>6. CASE r.op = "exchange"
  <2>1. PICK W : W = [n \in Nodes |-> d.ver[n] + (IF n \in {r.vp, r.vp2} THEN 1 ELSE 0)]
    OBVIOUS
  <2>2. W \in [Nodes -> Nat] /\ \A n \in Nodes \ {r.vp, r.vp2} : W[n] = d.ver[n]
    BY <2>1 DEF Daemon
  <2>3. PICK e : e = [d EXCEPT !.size = [d.size EXCEPT ![r.vp] = d.size[r.vp2], ![r.vp2] = d.size[r.vp]], !.ver = W]
    OBVIOUS
  <2>a. out = <<e, About(d, NULL)>>
    BY <1>1, <1>6, <2>1, <2>3 DEF Exec, Daemon
  <2>b. d.size[r.vp2] \in Sizes
    BY <1>1, <1>6 DEF Daemon
  <2>4. /\ e \in Daemon /\ e.dir = d.dir /\ e.made = d.made
        /\ e.size[r.vp] = d.size[r.vp2] /\ e.size[r.vp2] = d.size[r.vp]
        /\ \A n \in Nodes \ {r.vp, r.vp2} : e.size[n] = d.size[n] /\ e.ver[n] = d.ver[n]
    BY <1>1, <1>6, <1>b, <2>2, <2>3, <2>b DEF Daemon
  <2>5. out[1] = e /\ out[2] = About(d, NULL)
    BY <2>a
  <2> QED BY <1>1, <1>6, <1>a, <2>4, <2>5 DEF Executed, DirStep, VerStep, SizeStep, Small
<1> QED BY <1>2, <1>3, <1>4, <1>5, <1>6 DEF FileOps

\* The daemon executes a request.
LEMMA ExecFacts ==
    ASSUME NEW d \in Daemon, Small(d), NEW r \in Requests, Formed(r), r.pc = "sent", NEW out \in Exec(d, r)
    PROVE  Executed(d, r, out[1], out[2])
<1>1. r.op \in FileOps \/ r.op \in NameOps
  BY DEF Formed, Requests
<1>2. r.op \in NameOps => \/ r.stage \in {"find", "find2"}
                          \/ r.stage = "run" /\ r.op \in {"create", "newentry", "remove", "rmdir", "link", "rename"}
  BY DEF Formed, Requests, NameOps
<1> QED BY <1>1, <1>2, ExecFind, ExecMake, ExecUnlink, ExecLink, ExecRename, ExecFile

-----------------------------------------------------------------------------
(* How a step may change the threads and the locks *)

\* all but `over' is the same
Like(q, r) ==
    /\ q.pc = r.pc /\ q.stage = r.stage /\ q.op = r.op /\ q.nm = r.nm /\ q.nm2 = r.nm2
    /\ q.vp = r.vp /\ q.vp2 = r.vp2 /\ q.end = r.end /\ q.size = r.size /\ q.iosync = r.iosync
    /\ q.mk = r.mk /\ q.ans = r.ans

Others(t) == \A u \in Threads \ {t} : Like(thr'[u], thr[u])

\* what such requests have in common
LEMMA LikeFacts ==
    ASSUME NEW q, NEW r, Like(q, r)
    PROVE  /\ Locks(q) = Locks(r) /\ Name(q) = Name(r)
           /\ Formed(q) <=> Formed(r)
           /\ Answered(q) <=> Answered(r)
           /\ \A x : Holds(q, x) <=> Holds(r, x)
<1>1. Locks(q) = Locks(r)
  BY DEF Like, Locks
<1>2. Name(q) = Name(r)
  BY DEF Like, Name
<1>3. Formed(q) <=> Formed(r)
  BY DEF Like, Formed
<1> QED BY <1>1, <1>2, <1>3 DEF Like, Answered, Holds

\* thread t goes on as q
LEMMA Turn ==
    ASSUME thr \in [Threads -> Requests], NEW t \in Threads, NEW q \in Requests, thr' = [thr EXCEPT ![t] = q]
    PROVE  /\ thr' \in [Threads -> Requests] /\ thr'[t] = q /\ Others(t)
           /\ \A u \in Threads \ {t} : thr'[u] = thr[u]
<1>1. /\ thr' \in [Threads -> Requests] /\ thr'[t] = q
      /\ \A u \in Threads \ {t} : thr'[u] = thr[u]
  OBVIOUS
<1> QED BY <1>1 DEF Others, Like

\* the locks of an operation are locks there are
LEMMA LocksExist ==
    ASSUME NEW r \in Requests, Formed(r), r.pc \in {"sent", "done"}
    PROVE  Locks(r) \subseteq Nodes \cup {Dvp}
<1>1. r.op \in NameOps \cup FileOps
  BY DEF Formed, Requests
<1>2. r.op \in FileOps => r.vp \in Nodes /\ (r.op = "exchange" => r.vp2 \in Nodes)
  BY DEF Formed, Nodes
<1>3. r.op \in NameOps => r.stage \in {"find", "find2", "run"} /\ r.vp2 \in Nodes \cup {NULL} /\ r.vp \in Nodes \cup {NULL}
  BY DEF Formed, Requests
<1>4. r.op \in {"remove", "rmdir", "link"} /\ r.stage = "run" => r.vp \in Nodes
  BY DEF Formed, Nodes
<1>5. r.op = "lookup" => r.stage = "find"
  BY DEF Formed
<1> QED BY <1>1, <1>2, <1>3, <1>4, <1>5 DEF Locks, NameOps, FileOps

\* a node has one holder
LEMMA OneHolder ==
    ASSUME CacheTypes, NEW t \in Threads, NEW u \in Threads, NEW x \in Nodes \cup {Dvp},
           Holds(thr[t], x), Holds(thr[u], x)
    PROVE  t = u
BY DEF CacheTypes, LockOk

\* thread t takes its locks
LEMMA LocksTaken ==
    ASSUME CacheTypes, NEW t \in Threads, Others(t), thr[t].pc \notin {"sent", "done"},
           thr'[t].pc \in {"sent", "done"}, NEW L, L = Locks(thr'[t]), Acquire(t, L)
    PROVE  /\ lock' \in [Nodes \cup {Dvp} -> Threads \cup {NULL}]
           /\ \A u \in Threads : LockOk(u)'
<1>1. DOMAIN lock = Nodes \cup {Dvp} /\ lock \in [Nodes \cup {Dvp} -> Threads \cup {NULL}]
  BY DEF CacheTypes, TypesOk
<1>2. /\ \A x \in L : lock[x] = NULL
      /\ lock' = [x \in DOMAIN lock |-> IF x \in L THEN t ELSE lock[x]]
  BY DEF Acquire
<1>3. \A x \in Nodes \cup {Dvp} : lock'[x] = IF x \in L THEN t ELSE lock[x]
  BY <1>1, <1>2
<1>4. lock' \in [Nodes \cup {Dvp} -> Threads \cup {NULL}]
  BY <1>1, <1>2
<1>5. \A x \in Nodes \cup {Dvp} : lock[x] # t
  BY DEF CacheTypes, LockOk, Holds
<1>6. LockOk(t)'
  BY <1>3, <1>5 DEF LockOk, Holds
<1>7. ASSUME NEW u \in Threads, u # t PROVE LockOk(u)'
  <2>0. Like(thr'[u], thr[u])
    BY <1>7 DEF Others
  <2>1. \A x : Holds(thr'[u], x) <=> Holds(thr[u], x)
    BY <2>0, LikeFacts
  <2>2. \A x \in Nodes \cup {Dvp} : lock'[x] = u <=> lock[x] = u
    BY <1>2, <1>3, <1>7
  <2>3. LockOk(u)
    BY DEF CacheTypes
  <2> QED BY <2>1, <2>2, <2>3 DEF LockOk, Holds
<1> QED BY <1>4, <1>6, <1>7

\* thread t releases its locks
LEMMA LocksGiven ==
    ASSUME CacheTypes, NEW t \in Threads, Others(t), thr'[t].pc \notin {"sent", "done"}, Release(t)
    PROVE  /\ lock' \in [Nodes \cup {Dvp} -> Threads \cup {NULL}]
           /\ \A u \in Threads : LockOk(u)'
<1>1. DOMAIN lock = Nodes \cup {Dvp} /\ lock \in [Nodes \cup {Dvp} -> Threads \cup {NULL}]
  BY DEF CacheTypes, TypesOk
<1>2. lock' = [x \in DOMAIN lock |-> IF lock[x] = t THEN NULL ELSE lock[x]]
  BY DEF Release
<1>3. \A x \in Nodes \cup {Dvp} : lock'[x] = IF lock[x] = t THEN NULL ELSE lock[x]
  BY <1>1, <1>2
<1>4. lock' \in [Nodes \cup {Dvp} -> Threads \cup {NULL}]
  BY <1>1, <1>2
<1>5. NULL \notin Threads
  OBVIOUS
<1>6. LockOk(t)'
  BY <1>3, <1>5 DEF LockOk, Holds
<1>7. ASSUME NEW u \in Threads, u # t PROVE LockOk(u)'
  <2>0. Like(thr'[u], thr[u])
    BY <1>7 DEF Others
  <2>1. \A x : Holds(thr'[u], x) <=> Holds(thr[u], x)
    BY <2>0, LikeFacts
  <2>2. \A x \in Nodes \cup {Dvp} : lock'[x] = u <=> lock[x] = u
    BY <1>3, <1>5, <1>7
  <2>3. LockOk(u)
    BY DEF CacheTypes
  <2> QED BY <2>1, <2>2, <2>3 DEF LockOk, Holds
<1> QED BY <1>4, <1>6, <1>7

\* nobody takes or releases a lock
LEMMA LocksKept ==
    ASSUME CacheTypes, NEW t, Others(t), UNCHANGED lock,
           t \in Threads => \A x \in Nodes \cup {Dvp} : Holds(thr[t], x)' <=> Holds(thr[t], x)
    PROVE  /\ lock' \in [Nodes \cup {Dvp} -> Threads \cup {NULL}]
           /\ \A u \in Threads : LockOk(u)'
<1>1. lock' \in [Nodes \cup {Dvp} -> Threads \cup {NULL}]
  BY DEF CacheTypes, TypesOk
<1>2. ASSUME NEW u \in Threads PROVE LockOk(u)'
  <2>1. \A x \in Nodes \cup {Dvp} : Holds(thr[u], x)' <=> Holds(thr[u], x)
    <3>1. CASE u = t
      BY <3>1
    <3>2. CASE u # t
      <4>1. Like(thr'[u], thr[u])
        BY <3>2 DEF Others
      <4>2. \A x : Holds(thr'[u], x) <=> Holds(thr[u], x)
        BY <4>1, LikeFacts
      <4> QED BY <4>2 DEF Holds
    <3> QED BY <3>1, <3>2
  <2>2. LockOk(u)
    BY DEF CacheTypes
  <2> QED BY <2>1, <2>2 DEF LockOk
<1> QED BY <1>1, <1>2

\* the types after a step
LEMMA TypesStep ==
    ASSUME CacheTypes, NEW t, TypesOk', VnodesOk', Small(fs)', Others(t),
           kern.vn \subseteq kern'.vn \/ \A u \in Threads : InUse(thr[u])',
           \A u \in Threads : LockOk(u)',
           t \in Threads => Formed(thr[t])' /\ InUse(thr[t])',
           \A r \in late' : r \in late \/ (Formed(r) /\ r.stage = "run" /\ r.pc = "sent")
    PROVE  CacheTypes'
<1>1. ASSUME NEW u \in Threads, u # t PROVE Formed(thr[u])' /\ InUse(thr[u])'
  <2>1. Like(thr'[u], thr[u])
    BY <1>1 DEF Others
  <2>2. Formed(thr[u]) /\ InUse(thr[u])
    BY DEF CacheTypes
  <2>3. Formed(thr'[u])
    BY <2>1, <2>2, LikeFacts
  <2> QED BY <2>1, <2>2, <2>3 DEF Like, InUse, Formed
<1>2. \A r \in late' : Formed(r) /\ r.stage = "run" /\ r.pc = "sent"
  BY DEF CacheTypes
<1> QED BY <1>1, <1>2 DEF CacheTypes

-----------------------------------------------------------------------------
(* How a step that leaves the daemon's directory alone may change the names *)

\* Name a is right, or the history excuses it, after the step.
Settled(a) ==
    \/ cause'[a] \in {"overtaken", "abandoned"}
    \/ kern'.names[a] \in {"miss", fs'.dir[a]}
    \/ kern'.names[a] = "negative" /\ (fs'.dir[a] = NULL \/ cause'[a] = "refused")

\* Thread t does not leave name a to nobody.
NotLeft(t, a) == t \in Threads => /\ Mends(thr[t], a) => Mends(thr'[t], a)
                                  /\ Creates(thr[t], a) => Creates(thr'[t], a) \/ kern'.names[a] # "negative"

Renaming(r) == r.pc \in {"sent", "done"} /\ r.stage = "run" /\ r.op = "rename"

\* the operations of the others go on
LEMMA LikeDuties ==
    ASSUME NEW q, NEW r, Like(q, r), NEW a
    PROVE  /\ Mends(q, a) <=> Mends(r, a)
           /\ Creates(q, a) <=> Creates(r, a)
           /\ Renaming(q) <=> Renaming(r)
           /\ Renews(q, a) <=> Renews(r, a)
           /\ Resizes(q, a) <=> Resizes(r, a)
           /\ Forgets(q, a) <=> Forgets(r, a)
BY DEF Like, Mends, Creates, Renaming, Renews, Resizes, Forgets, Answered

\* the names after a step
LEMMA NamesStep ==
    ASSUME CacheTypes, NamesInv, NEW t, \A u \in Threads \ {t} : thr'[u] = thr[u], fs'.dir = fs.dir,
           \A a \in Names : Settled(a) \/ (kern'.names[a] = kern.names[a] /\ cause'[a] = cause[a] /\ NotLeft(t, a)),
           \/ \A a \in Names : kern'.names[a] \in {kern.names[a], "miss"}
           \/ \A u \in Threads \ {t} : ~Renaming(thr[u]),
           t \in Threads => CurrentOk(thr[t])' /\ RenameOk(thr[t])'
    PROVE  NamesInv'
<1>1. ASSUME NEW u \in Threads, u # t PROVE CurrentOk(thr[u])'
  <2>1. CurrentOk(thr[u]) /\ thr'[u] = thr[u]
    BY <1>1 DEF NamesInv
  <2> QED BY <2>1 DEF CurrentOk, Answered, Name
<1>2. ASSUME NEW u \in Threads, u # t PROVE RenameOk(thr[u])'
  <2>1. RenameOk(thr[u]) /\ thr'[u] = thr[u]
    BY <1>2 DEF NamesInv
  <2>2. Renaming(thr[u]) => thr[u].vp \in Nodes
    BY DEF CacheTypes, Formed, Renaming
  <2> QED BY <1>2, <2>1, <2>2 DEF RenameOk, Renaming
<1>3. ASSUME NEW a \in Names PROVE PositiveOk(a)' /\ NegativeOk(a)'
  <2>1. CASE Settled(a)
    <3>1. fs'.dir[a] \in Nodes \cup {NULL}
      BY DEF CacheTypes, TypesOk, Daemon
    <3>2. CASE cause'[a] \in {"overtaken", "abandoned"}
      BY <3>2 DEF PositiveOk, NegativeOk
    <3>3. CASE ~Wrong(a)' /\ ~(kern'.names[a] = "negative" /\ fs'.dir[a] # NULL)
      BY <3>3 DEF PositiveOk, NegativeOk
    <3>4. CASE kern'.names[a] = "negative" /\ cause'[a] = "refused"
      BY <3>4 DEF PositiveOk, NegativeOk, Wrong
    <3>5. cause'[a] \in {"overtaken", "abandoned"} \/ kern'.names[a] = "miss" \/ kern'.names[a] = fs'.dir[a]
            \/ (kern'.names[a] = "negative" /\ (fs'.dir[a] = NULL \/ cause'[a] = "refused"))
      BY <2>1 DEF Settled
    <3> QED BY <3>1, <3>2, <3>3, <3>4, <3>5 DEF Wrong
  <2>2. CASE kern'.names[a] = kern.names[a] /\ cause'[a] = cause[a] /\ NotLeft(t, a)
    <3>1. PositiveOk(a) /\ NegativeOk(a)
      BY DEF NamesInv
    <3>2. \A u \in Threads : Mends(thr[u], a) => Mends(thr[u], a)'
      <4> SUFFICES ASSUME NEW u \in Threads, Mends(thr[u], a) PROVE Mends(thr[u], a)'
        OBVIOUS
      <4>1. CASE u = t
        BY <2>2, <4>1 DEF NotLeft, Mends, Answered
      <4>2. CASE u # t
        BY <2>2, <4>2 DEF Mends, Answered
      <4> QED BY <4>1, <4>2
    <3>3. kern'.names[a] = "negative" => \A u \in Threads : Creates(thr[u], a) => Creates(thr[u], a)'
      <4> SUFFICES ASSUME kern'.names[a] = "negative", NEW u \in Threads, Creates(thr[u], a)
                   PROVE  Creates(thr[u], a)'
        OBVIOUS
      <4>1. CASE u = t
        BY <2>2, <4>1 DEF NotLeft, Creates, Answered
      <4>2. CASE u # t
        BY <2>2, <4>2 DEF Creates, Answered
      <4> QED BY <4>1, <4>2
    <3>4. Wrong(a)' => Wrong(a)
      BY <2>2 DEF Wrong
    <3> QED BY <2>2, <3>1, <3>2, <3>3, <3>4 DEF PositiveOk, NegativeOk
  <2> QED BY <1>3, <2>1, <2>2
<1> QED BY <1>1, <1>2, <1>3 DEF NamesInv

-----------------------------------------------------------------------------
(* How a step may change the attributes *)

\* The attributes of n are right, excused or in thread t's care after the step, or
\* were so before it and nothing happened to them.
AttrStays(t, n) ==
    n \in kern'.vn /\ kern'.valid[n] =>
        \/ kern'.va[n].ver = fs'.ver[n]
        \/ tag'[n] \cap AttrTags # {}
        \/ t \in Threads /\ Renews(thr'[t], n)
        \/ /\ n \in kern.vn /\ kern.valid[n] /\ kern'.va[n].ver = kern.va[n].ver /\ fs'.ver[n] = fs.ver[n]
           /\ t \in Threads => ~Renews(thr[t], n)

\* who renews attributes holds the lock
LEMMA RenewsHolds ==
    ASSUME NEW r \in Requests, NEW n, Renews(r, n)
    PROVE  Holds(r, n)
BY DEF Renews, Holds, Locks

\* the attributes after a step
LEMMA AttrStep ==
    ASSUME CacheTypes, CacheTypes', AttrInv, NEW t, Others(t),
           \A n \in Nodes : tag[n] \subseteq tag'[n],
           \A n \in Nodes : fs'.ver[n] = fs.ver[n] \/ tag'[n] \cap AttrTags # {}
                              \/ (t \in Threads /\ Holds(thr'[t], n)) \/ ~Outdates(n),
           \A n \in Nodes : AttrStays(t, n),
           t \in Threads => VersionOk(thr[t])'
    PROVE  AttrInv'
<1>1. ASSUME NEW u \in Threads, u # t PROVE VersionOk(thr[u])'
  <2>1. Like(thr'[u], thr[u])
    BY <1>1 DEF Others
  <2> SUFFICES ASSUME Answered(thr'[u]), thr'[u].op \in {"getattr", "chmod"}
               PROVE  VersionOk(thr[u])'
    BY DEF VersionOk, Answered
  <2>2. thr[u].vp \in Nodes /\ Formed(thr[u])
    BY <2>1 DEF CacheTypes, Formed, FileOps, Nodes, Like
  <2>3. thr[u].ans.ver = fs.ver[thr[u].vp] \/ Marked(thr[u].vp)
    BY <2>1 DEF AttrInv, VersionOk, Answered, Like
  <2>4. Holds(thr'[u], thr[u].vp)
    BY <2>1, <2>2 DEF Holds, Locks, Answered, Like, Formed, FileOps
  <2>5. ~(t \in Threads /\ Holds(thr'[t], thr[u].vp))
    BY <1>1, <2>2, <2>4 DEF CacheTypes, LockOk, Holds
  <2>7. Outdates(thr[u].vp)
    BY <2>1, <2>2 DEF Outdates, Answered, Like, Formed, FileOps
  <2>6. fs'.ver[thr[u].vp] = fs.ver[thr[u].vp] \/ tag'[thr[u].vp] \cap AttrTags # {}
    BY <2>2, <2>5, <2>7
  <2> QED BY <2>1, <2>2, <2>3, <2>6 DEF VersionOk, Marked, Like
<1>2. ASSUME NEW n \in Nodes PROVE AttrOk(n)'
  <2> SUFFICES ASSUME n \in kern'.vn, kern'.valid[n], kern'.va[n].ver # fs'.ver[n],
                      ~(tag'[n] \cap AttrTags # {}), ~(t \in Threads /\ Renews(thr'[t], n))
               PROVE  \E u \in Threads : Renews(thr'[u], n)
    BY DEF AttrOk, Marked, Renews
  <2>1. /\ n \in kern.vn /\ kern.valid[n] /\ kern'.va[n].ver = kern.va[n].ver /\ fs'.ver[n] = fs.ver[n]
        /\ t \in Threads => ~Renews(thr[t], n)
    BY DEF AttrStays
  <2>2. ~Marked(n)
    BY DEF Marked
  <2>3. PICK u \in Threads : Renews(thr[u], n)
    BY <2>1, <2>2 DEF AttrInv, AttrOk
  <2>4. u # t
    BY <2>1, <2>3
  <2>5. Like(thr'[u], thr[u])
    BY <2>4 DEF Others
  <2> QED BY <2>3, <2>5, LikeDuties
<1> QED BY <1>1, <1>2 DEF AttrInv

-----------------------------------------------------------------------------
(* How a step may change the sizes *)

\* Nothing happens to the size of n but that its pages reach the daemon, or the
\* history excuses it.
Cuts(r, n) == Answered(r) /\ r.op = "truncate" /\ r.vp = n

Steady(n) ==
    /\ Max({fs'.size[n], kern'.dirty[n], flight'[n]}) = Due(n)
    /\ \/ fs'.size[n] = fs.size[n]
       \/ /\ \A u \in Threads : Cuts(thr[u], n) => tag'[n] \cap SizeTags # {}
          /\ Outdates(n) => "paged" \in tag'[n]
    /\ kern.dirty[n] = 0 /\ flight[n] = 0 =>
          fs'.size[n] = fs.size[n] /\ kern'.dirty[n] = 0 /\ flight'[n] = 0
    /\ n \in kern.vn \cap Plain => kern'.filesize[n] = kern.filesize[n]

Loose(n) ==
    /\ Excused(n)'
    /\ kern.dirty[n] = 0 /\ flight[n] = 0 => kern'.dirty[n] = 0 /\ flight'[n] = 0

\* Thread t has the lock of n before or after the step.
Locked(t, n) == t \in Threads /\ (lock[n] = t \/ lock'[n] = t)

LengthStays(t, n) ==
    n \in (kern'.vn \cap Files) \ kern'.direct =>
        \/ kern'.filesize[n] = Max({fs'.size[n], kern'.dirty[n], flight'[n]})
        \/ Excused(n)'
        \/ t \in Threads /\ Resizes(thr'[t], n)
        \/ n \in kern.vn /\ Steady(n) /\ (t \in Threads => ~Resizes(thr[t], n))

ValidStays(t, n) ==
    n \in (kern'.vn \cap Files) \ kern'.direct /\ kern'.valid[n] =>
        \/ kern'.va[n].size \in {fs'.size[n], kern'.filesize[n]}
        \/ Paged(n)'
        \/ t \in Threads /\ Forgets(thr'[t], n)
        \/ /\ n \in kern.vn /\ kern.valid[n] /\ kern'.va[n].size = kern.va[n].size
           /\ fs'.size[n] = fs.size[n] /\ kern'.filesize[n] = kern.filesize[n]
           /\ t \in Threads => ~Forgets(thr[t], n)

\* where nothing happens
LEMMA Still ==
    ASSUME NEW n, fs'.size[n] = fs.size[n], kern'.dirty[n] = kern.dirty[n], flight'[n] = flight[n],
           n \in kern.vn \cap Plain => kern'.filesize[n] = kern.filesize[n]
    PROVE  Steady(n)
BY DEF Steady, Due

\* an operation on files has their locks from its request on
LEMMA FileHolds ==
    ASSUME NEW r \in Requests, Formed(r), r.op \in FileOps
    PROVE  /\ Holds(r, r.vp) /\ r.vp \in Nodes /\ r.vp \in Files
           /\ r.op = "exchange" => Holds(r, r.vp2) /\ r.vp2 \in Nodes /\ r.vp2 \in Files
<1>1. r.stage = "run" /\ r.vp \in Files /\ r.pc \in {"sent", "done"}
  BY DEF Formed, Requests, FileOps
<1>2. r.op = "exchange" => r.vp2 \in Files
  BY DEF Formed
<1> QED BY <1>1, <1>2 DEF Holds, Locks, FileOps, Nodes

\* the sizes after a step
LEMMA LengthStep ==
    ASSUME CacheTypes, CacheTypes', SizeInv, NEW t, Others(t), sync => sync',
           kern.direct \cap kern'.vn \subseteq kern'.direct,
           \A n \in Nodes : tag[n] \subseteq tag'[n],
           \A n \in Nodes : Steady(n) \/ Loose(n) \/ Locked(t, n) \/ n \notin kern'.vn,
           \A n \in Nodes : LengthStays(t, n) /\ ValidStays(t, n),
           t \in Threads => LengthOk(thr[t])'
    PROVE  SizeInv'
<1>1. ASSUME NEW u \in Threads, u # t PROVE LengthOk(thr[u])'
  <2>1. Like(thr'[u], thr[u])
    BY <1>1 DEF Others
  <2> SUFFICES ASSUME thr[u].op \in FileOps PROVE LengthOk(thr[u])'
    BY <2>1 DEF LengthOk, FileOps, Like
  <2>2. PICK r \in Requests : r = thr[u]
    BY DEF CacheTypes, TypesOk
  <2>3. PICK q \in Requests : q = thr'[u]
    BY DEF CacheTypes, TypesOk
  <2>4. Like(q, r) /\ Formed(r) /\ Formed(q) /\ r.op \in FileOps /\ q.op \in FileOps
    BY <2>1, <2>2, <2>3 DEF CacheTypes, Like
  <2>5. LengthOk(r) /\ InUse(r)
    BY <2>2 DEF SizeInv, CacheTypes
  <2>6. /\ lock[r.vp] = u /\ lock'[r.vp] = u /\ r.vp \in Nodes /\ r.vp \in Files
        /\ r.op = "exchange" => lock[r.vp2] = u /\ lock'[r.vp2] = u /\ r.vp2 \in Nodes /\ r.vp2 \in Files
    <3>1. /\ Holds(r, r.vp) /\ r.vp \in Nodes /\ r.vp \in Files
          /\ r.op = "exchange" => Holds(r, r.vp2) /\ r.vp2 \in Nodes /\ r.vp2 \in Files
      BY <2>4, FileHolds
    <3>2. \A x : Holds(q, x) <=> Holds(r, x)
      BY <2>4, LikeFacts
    <3>3. \A x \in Nodes : (lock[x] = u <=> Holds(r, x)) /\ (lock'[x] = u <=> Holds(q, x))
      BY <2>2, <2>3 DEF CacheTypes, LockOk, Holds
    <3> QED BY <3>1, <3>2, <3>3
  <2>14. InUse(q)' /\ r.vp \in kern'.vn /\ (r.op = "exchange" => r.vp2 \in kern'.vn)
    <3>1. InUse(thr[u])'
      BY DEF CacheTypes
    <3> QED BY <2>3, <2>4, <2>6, <3>1 DEF InUse, Like
  <2>7. Steady(r.vp) \/ Loose(r.vp)
    BY <1>1, <2>6, <2>14 DEF Locked
  <2>8. r.op = "exchange" => Steady(r.vp2) \/ Loose(r.vp2)
    BY <1>1, <2>6, <2>14 DEF Locked
  <2>9. r.vp \in kern.vn /\ (r.op = "exchange" => r.vp2 \in kern.vn)
    BY <2>5, <2>6 DEF InUse
  <2>10. Steady(r.vp) => Due(r.vp)' = Due(r.vp)
    BY DEF Steady, Due
  <2>15. r.op = "truncate" /\ Answered(r) => Cuts(thr[u], r.vp)
    BY <2>2 DEF Cuts
  <2>11. \A n \in Nodes : (Excused(n) => Excused(n)') /\ (Paged(n) => Paged(n)')
    BY DEF Excused, Paged
  <2>16. Answered(r) => Outdates(r.vp)
    BY <2>2, <2>4 DEF Outdates, Answered, Formed
  <2>17. r.vp \in Plain' => r.vp \in Plain
    BY <2>6, <2>14 DEF Plain
  <2>12. \A n \in Nodes : Loose(n) => Excused(n)'
    BY DEF Loose
  <2>13. LengthOk(q)'
    <3> USE <2>4, <2>5, <2>6, <2>9 DEF Like
    <3>1. Answered(q)' /\ q.op \in {"getattr", "chmod"} => q.ans.size = fs'.size[q.vp] \/ Paged(q.vp)'
      BY <2>7, <2>11, <2>16 DEF LengthOk, Answered, Steady, Loose, Paged, Excused
    <3>2. Answered(q)' /\ q.op = "truncate" => fs'.size[q.vp] = q.end \/ Excused(q.vp)'
      BY <2>7, <2>11, <2>12, <2>15 DEF LengthOk, Answered, Steady, Excused
    <3>3. q.op = "write" /\ q.vp \in Plain' =>
            /\ q.pc = "sent" => q.iosync
            /\ q.pc = "sent" \/ (Answered(q)' /\ ~q.iosync) => Due(q.vp)' = q.size \/ Excused(q.vp)'
            /\ Answered(q)' /\ q.iosync => Due(q.vp)' = Max({q.size, q.end}) \/ Excused(q.vp)'
      BY <2>7, <2>10, <2>11, <2>12, <2>17 DEF LengthOk, Answered
    <3>4. q.op = "exchange" =>
            /\ \A n \in {q.vp, q.vp2} : kern'.dirty[n] = 0 /\ flight'[n] = 0
            /\ Answered(q)' => \/ \E n \in {q.vp, q.vp2} : n \in kern'.direct \/ Excused(n)'
                               \/ /\ fs'.size[q.vp] = kern'.filesize[q.vp2]
                                  /\ fs'.size[q.vp2] = kern'.filesize[q.vp]
      <4> SUFFICES ASSUME q.op = "exchange"
                   PROVE  /\ \A n \in {q.vp, q.vp2} : kern'.dirty[n] = 0 /\ flight'[n] = 0
                          /\ Answered(q)' => \/ \E n \in {q.vp, q.vp2} : n \in kern'.direct \/ Excused(n)'
                                             \/ /\ fs'.size[q.vp] = kern'.filesize[q.vp2]
                                                /\ fs'.size[q.vp2] = kern'.filesize[q.vp]
        OBVIOUS
      <4>1. \A n \in {q.vp, q.vp2} : kern'.dirty[n] = 0 /\ flight'[n] = 0
        BY <2>7, <2>8 DEF LengthOk, Steady, Loose
      <4>2. ASSUME Answered(q)', \A n \in {q.vp, q.vp2} : ~(n \in kern'.direct \/ Excused(n)')
            PROVE  fs'.size[q.vp] = kern'.filesize[q.vp2] /\ fs'.size[q.vp2] = kern'.filesize[q.vp]
        <5>1. Steady(r.vp) /\ Steady(r.vp2) /\ r.vp \in Plain /\ r.vp2 \in Plain
          BY <2>7, <2>8, <2>12, <2>14, <4>2 DEF Plain
        <5>2. ~Excused(r.vp) /\ ~Excused(r.vp2)
          BY <2>11, <4>2
        <5>3. fs.size[r.vp] = kern.filesize[r.vp2] /\ fs.size[r.vp2] = kern.filesize[r.vp]
          BY <4>2, <5>1, <5>2 DEF LengthOk, Answered, Plain
        <5> QED BY <5>1, <5>3 DEF Steady, LengthOk
      <4> QED BY <4>1, <4>2
    <3> QED BY <3>1, <3>2, <3>3, <3>4 DEF LengthOk, Answered
  <2> QED BY <2>3, <2>13 DEF LengthOk, Answered
<1>2. ASSUME NEW n \in Nodes PROVE LengthsOk(n)'
  <2> SUFFICES ASSUME n \in kern'.vn, n \in Files, n \notin kern'.direct, ~Excused(n)',
                      kern'.filesize[n] # Max({fs'.size[n], kern'.dirty[n], flight'[n]}),
                      ~(t \in Threads /\ Resizes(thr'[t], n))
               PROVE  \E u \in Threads : Resizes(thr'[u], n)
    BY DEF LengthsOk, Due, Plain, Resizes, Answered
  <2>1. n \in kern.vn /\ Steady(n) /\ (t \in Threads => ~Resizes(thr[t], n))
    BY DEF LengthStays
  <2>2. ~Excused(n)
    BY DEF Excused
  <2>3. kern.filesize[n] # Due(n)
    BY <2>1 DEF Steady, Due, Plain
  <2>4. PICK u \in Threads : Resizes(thr[u], n)
    BY <2>1, <2>2, <2>3 DEF SizeInv, LengthsOk, Plain
  <2>5. u # t
    BY <2>1, <2>4
  <2>6. Like(thr'[u], thr[u])
    BY <2>5 DEF Others
  <2> QED BY <2>4, <2>6, LikeDuties
<1>3. ASSUME NEW n \in Nodes PROVE ValidOk(n)'
  <2> SUFFICES ASSUME n \in kern'.vn, n \in Files, n \notin kern'.direct, kern'.valid[n], ~Paged(n)',
                      kern'.va[n].size \notin {fs'.size[n], kern'.filesize[n]}, ~(t \in Threads /\ Forgets(thr'[t], n))
               PROVE  \E u \in Threads : Forgets(thr'[u], n)
    BY DEF ValidOk, Plain, Forgets, Answered
  <2>1. /\ n \in kern.vn /\ kern.valid[n] /\ kern'.va[n].size = kern.va[n].size
        /\ fs'.size[n] = fs.size[n] /\ kern'.filesize[n] = kern.filesize[n]
        /\ t \in Threads => ~Forgets(thr[t], n)
    BY DEF ValidStays
  <2>2. ~Paged(n)
    BY DEF Paged
  <2>3. PICK u \in Threads : Forgets(thr[u], n)
    BY <2>1, <2>2 DEF SizeInv, ValidOk, Plain
  <2>4. u # t
    BY <2>1, <2>3
  <2>5. Like(thr'[u], thr[u])
    BY <2>4 DEF Others
  <2> QED BY <2>3, <2>5, LikeDuties
<1> QED BY <1>1, <1>2, <1>3 DEF SizeInv

-----------------------------------------------------------------------------
(* Requests *)

\* A lookup that is about to be made.
Asked(r) ==
    /\ r \in Requests /\ r.op \in NameOps /\ r.nm \in Names /\ r.stage \in {"find", "find2"}
    /\ IF r.op = "rename" THEN r.nm2 \in Names \ {r.nm} ELSE r.nm2 = NULL
    /\ r.op # "rename" => r.vp2 = NULL
    /\ r.op = "link" => r.vp \in Files
    /\ r.stage = "find2" => r.op = "rename" /\ r.vp \in Nodes
    /\ r.op = "lookup" => r.stage = "find"

\* a thread without an operation
LEMMA IdleFacts ==
    /\ IdleThread \in Requests /\ Formed(IdleThread) /\ IdleThread.pc = "idle" /\ IdleThread.op = "none"
    /\ IdleThread.vp = NULL /\ IdleThread.vp2 = NULL
<1>1. IdleThread \in Requests
  BY FailFacts, SizesNat DEF IdleThread, Requests
<1>2. IdleThread.ans.ok = FALSE
  BY FailFacts DEF IdleThread
<1> QED BY <1>1, <1>2 DEF IdleThread, Formed, NameOps, FileOps

\* a request that is sent
LEMMA SentFacts ==
    ASSUME NEW r \in Requests
    PROVE  /\ Sent(r) \in Requests /\ Sent(r).pc = "sent" /\ Locks(Sent(r)) = Locks(r) /\ Name(Sent(r)) = Name(r)
           /\ Sent(r).stage = r.stage /\ Sent(r).op = r.op /\ Sent(r).nm = r.nm /\ Sent(r).nm2 = r.nm2
           /\ Sent(r).vp = r.vp /\ Sent(r).vp2 = r.vp2 /\ Sent(r).end = r.end /\ Sent(r).size = r.size
           /\ Sent(r).iosync = r.iosync
           /\ Sent(r).over = r.over
<1>1. /\ Sent(r) \in Requests /\ Sent(r).pc = "sent"
      /\ Sent(r).stage = r.stage /\ Sent(r).op = r.op /\ Sent(r).nm = r.nm /\ Sent(r).nm2 = r.nm2
      /\ Sent(r).vp = r.vp /\ Sent(r).vp2 = r.vp2 /\ Sent(r).end = r.end /\ Sent(r).size = r.size
      /\ Sent(r).iosync = r.iosync /\ Sent(r).over = r.over
  BY DEF Sent, Requests
<1> QED BY <1>1 DEF Locks, Name

\* xnu goes on, or ends the system call
LEMMA ResolvedFacts ==
    ASSUME NEW r, Asked(r), NEW v \in Nodes \cup {NULL}
    PROVE  /\ Resolved(r, v) \in Requests /\ Formed(Resolved(r, v))
           /\ Resolved(r, v).pc \in {"idle", "ready"} /\ Resolved(r, v).op \in NameOps \cup {"none"}
           /\ {Resolved(r, v).vp, Resolved(r, v).vp2} \subseteq {r.vp, r.vp2, v, NULL}
<1> DEFINE go(q) == [q EXCEPT !.pc = "ready", !.ans = Fail, !.over = FALSE]
<1>0. r \in Requests /\ r.op \in NameOps /\ r.nm \in Names /\ r.op \notin FileOps
  BY DEF Asked, NameOps, FileOps
<1>1. CASE Resolved(r, v) = IdleThread
  BY <1>1, IdleFacts
<1>2. CASE r.op \in {"create", "newentry", "link"} /\ Resolved(r, v) = go([r EXCEPT !.stage = "run"])
  <2>1. PICK q : q = go([r EXCEPT !.stage = "run"])
    OBVIOUS
  <2>2. /\ q \in Requests /\ q.pc = "ready" /\ q.stage = "run" /\ q.op = r.op /\ q.nm = r.nm /\ q.nm2 = r.nm2
        /\ q.vp = r.vp /\ q.vp2 = r.vp2
    BY <1>0, <2>1, FailFacts DEF Requests
  <2>3. Formed(q)
    BY <1>2, <1>0, <2>2 DEF Formed, Asked, FileOps
  <2> QED BY <1>0, <1>2, <2>1, <2>2, <2>3
<1>3. CASE \/ r.op = "remove" /\ v \in Files /\ Resolved(r, v) = go([r EXCEPT !.stage = "run", !.vp = v])
           \/ r.op = "rmdir" /\ v \in Subdirs /\ Resolved(r, v) = go([r EXCEPT !.stage = "run", !.vp = v])
  <2>1. PICK q : q = go([r EXCEPT !.stage = "run", !.vp = v])
    OBVIOUS
  <2>2. /\ q \in Requests /\ q.pc = "ready" /\ q.stage = "run" /\ q.op = r.op /\ q.nm = r.nm /\ q.nm2 = r.nm2
        /\ q.vp = v /\ q.vp2 = r.vp2
    BY <1>0, <2>1, FailFacts, ZenonT(60) DEF Requests
  <2>3. Formed(q)
    BY <1>3, <1>0, <2>2 DEF Formed, Asked, FileOps
  <2> QED BY <1>0, <1>3, <2>1, <2>2, <2>3
<1>4. CASE r.op = "rename" /\ v # NULL /\ r.stage = "find"
             /\ Resolved(r, v) = go([r EXCEPT !.stage = "find2", !.vp = v])
  <2>1. PICK q : q = go([r EXCEPT !.stage = "find2", !.vp = v])
    OBVIOUS
  <2>2. /\ q \in Requests /\ q.pc = "ready" /\ q.stage = "find2" /\ q.op = r.op /\ q.nm = r.nm /\ q.nm2 = r.nm2
        /\ q.vp = v /\ q.vp2 = r.vp2
    BY <1>0, <2>1, FailFacts, ZenonT(60) DEF Requests
  <2>3. Formed(q)
    BY <1>4, <1>0, <2>2 DEF Formed, Asked, FileOps
  <2> QED BY <1>0, <1>4, <2>1, <2>2, <2>3
<1>5. CASE r.op = "rename" /\ r.stage = "find2"
             /\ Resolved(r, v) = go([r EXCEPT !.stage = "run", !.vp2 = v])
  <2>1. PICK q : q = go([r EXCEPT !.stage = "run", !.vp2 = v])
    OBVIOUS
  <2>2. /\ q \in Requests /\ q.pc = "ready" /\ q.stage = "run" /\ q.op = r.op /\ q.nm = r.nm /\ q.nm2 = r.nm2
        /\ q.vp = r.vp /\ q.vp2 = v
    BY <1>0, <2>1, FailFacts, ZenonT(60) DEF Requests
  <2>3. Formed(q)
    BY <1>5, <1>0, <2>2 DEF Formed, Asked, FileOps
  <2> QED BY <1>0, <1>5, <2>1, <2>2, <2>3
<1>6. Intent(r) = "CREATE" => r.op \in {"create", "newentry", "link"}
  BY DEF Intent
<1> QED BY <1>1, <1>2, <1>3, <1>4, <1>5, <1>6 DEF Resolved

-----------------------------------------------------------------------------
(* The steps that change neither the daemon nor a size *)

\* Thread t does what it owes node n, or still owes it.
Duties(t, n) ==
    t \in Threads =>
        /\ Renews(thr[t], n) => Renews(thr'[t], n) \/ ~kern'.valid[n] \/ tag'[n] \cap AttrTags # {}
        /\ Resizes(thr[t], n) => Resizes(thr'[t], n) \/ tag'[n] \cap SizeTags # {}
        /\ Forgets(thr[t], n) => Forgets(thr'[t], n) \/ ~kern'.valid[n] \/ tag'[n] \cap SizeTags # {}

Reasons == {"none", "overtaken", "moved", "made", "rmdir", "refused", "abandoned"}

Fates == {"failed", "crossed", "overtaken", "blank", "direct", "abandoned", "moved", "replaced",
          "paged"}

\* names are dropped or denied, and attributes end
LEMMA QuietStep ==
    ASSUME CacheInv, NEW t,
           thr' \in [Threads -> Requests], \A u \in Threads \ {t} : thr'[u] = thr[u],
           t \in Threads => Formed(thr[t])' /\ InUse(thr[t])',
           lock' \in [Nodes \cup {Dvp} -> Threads \cup {NULL}], \A u \in Threads : LockOk(u)',
           sync' = sync, fs' = fs, flight' = flight, kern' \in Caches, kern'.vn = kern.vn,
           kern'.filesize = kern.filesize, kern'.va = kern.va, kern'.dirty = kern.dirty, kern'.direct = kern.direct,
           \A n \in Nodes : kern'.valid[n] => kern.valid[n],
           \A a \in Names : kern'.names[a] \in {kern.names[a], "miss", "negative"},
           \/ \A a \in Names : kern'.names[a] \in {kern.names[a], "miss"}
           \/ \A u \in Threads \ {t} : ~Renaming(thr[u]),
           cause' \in [Names -> Reasons], tag' \in [Nodes -> SUBSET Fates],
           \A n \in Nodes : tag[n] \subseteq tag'[n],
           \A a \in Names : Settled(a) \/ (kern'.names[a] = kern.names[a] /\ cause'[a] = cause[a] /\ NotLeft(t, a)),
           late' \subseteq Requests,
           \A r \in late' : r \in late \/ (Formed(r) /\ r.stage = "run" /\ r.pc = "sent"),
           \A n \in Nodes : Duties(t, n),
           t \in Threads => CurrentOk(thr[t])' /\ RenameOk(thr[t])' /\ VersionOk(thr[t])' /\ LengthOk(thr[t])'
    PROVE  CacheInv'
<1>1. CacheTypes /\ NamesInv /\ AttrInv /\ SizeInv
  BY DEF CacheInv
<1>2. Others(t)
  BY DEF Others, Like
<1>3. TypesOk'
  BY <1>1 DEF CacheTypes, TypesOk, Reasons, Fates
<1>4. VnodesOk'
  BY <1>1 DEF CacheTypes, VnodesOk
<1>5. Small(fs)'
  BY <1>1 DEF CacheTypes, Small
<1>6. CacheTypes'
  BY <1>1, <1>2, <1>3, <1>4, <1>5, TypesStep
<1>7. NamesInv'
  BY <1>1, NamesStep
<1>8. AttrInv'
  <2>1. \A n \in Nodes : AttrStays(t, n)
    BY DEF AttrStays, Duties
  <2> QED BY <1>1, <1>2, <1>6, <2>1, AttrStep
<1>9. SizeInv'
  <2>2. \A n \in Nodes : Steady(n)
    BY Still
  <2>3. \A n \in Nodes : LengthStays(t, n) /\ ValidStays(t, n)
    BY <2>2 DEF LengthStays, ValidStays, Duties, Excused, Paged
  <2>4. \A n \in Nodes : Steady(n) \/ Loose(n) \/ Locked(t, n) \/ n \notin kern'.vn
    BY <2>2
  <2> QED BY <1>1, <1>2, <1>6, <2>3, <2>4, LengthStep
<1> QED BY <1>6, <1>7, <1>8, <1>9 DEF CacheInv

\* names may be dropped and attributes may end
LEMMA CalmStep ==
    ASSUME CacheInv, NEW t,
           thr' \in [Threads -> Requests], \A u \in Threads \ {t} : thr'[u] = thr[u],
           t \in Threads => Formed(thr[t])' /\ InUse(thr[t])',
           lock' \in [Nodes \cup {Dvp} -> Threads \cup {NULL}], \A u \in Threads : LockOk(u)',
           sync' = sync, fs' = fs, flight' = flight, kern' \in Caches, kern'.vn = kern.vn,
           kern'.filesize = kern.filesize, kern'.va = kern.va, kern'.dirty = kern.dirty, kern'.direct = kern.direct,
           \A n \in Nodes : kern'.valid[n] => kern.valid[n],
           \A a \in Names : kern'.names[a] \in {kern.names[a], "miss"},
           cause' \in [Names -> Reasons], tag' \in [Nodes -> SUBSET Fates],
           \A n \in Nodes : tag[n] \subseteq tag'[n],
           \A a \in Names : cause'[a] = "abandoned" \/ kern'.names[a] = "miss"
                              \/ (cause'[a] = cause[a] /\ NotLeft(t, a)),
           late' \subseteq Requests,
           \A r \in late' : r \in late \/ (Formed(r) /\ r.stage = "run" /\ r.pc = "sent"),
           \A n \in Nodes : Duties(t, n),
           t \in Threads => CurrentOk(thr[t])' /\ RenameOk(thr[t])' /\ VersionOk(thr[t])' /\ LengthOk(thr[t])'
    PROVE  CacheInv'
<1>1. \A a \in Names : Settled(a) \/ (kern'.names[a] = kern.names[a] /\ cause'[a] = cause[a] /\ NotLeft(t, a))
  BY DEF Settled
<1>2. \A a \in Names : kern'.names[a] \in {kern.names[a], "miss", "negative"}
  OBVIOUS
<1> QED BY <1>1, <1>2, QuietStep

-----------------------------------------------------------------------------
(* Lookups, and what precedes a request *)

\* what a request without an answer has to satisfy
LEMMA Unanswered ==
    ASSUME NEW t \in Threads, ~Answered(thr'[t]), thr'[t].op # "exchange",
           thr'[t].op = "write" => thr'[t].vp \notin Plain'
    PROVE  CurrentOk(thr[t])' /\ VersionOk(thr[t])' /\ LengthOk(thr[t])'
BY DEF Answered, CurrentOk, VersionOk, LengthOk

\* a thread that holds no lock owes nothing
LEMMA NoDuties ==
    ASSUME CacheTypes, NEW t \in Threads, thr[t].pc \notin {"sent", "done"}
    PROVE  /\ thr[t].op \notin FileOps
           /\ \A n \in Nodes : Duties(t, n)
           /\ \A a \in Names : NotLeft(t, a)
<1>1. thr[t].op \notin FileOps
  BY DEF CacheTypes, TypesOk, Formed, Requests, FileOps
<1> QED BY <1>1 DEF Duties, NotLeft, Renews, Resizes, Forgets, Mends, Creates, Answered, FileOps

\* a name that is cached is found
LEMMA FindHitKeeps ==
    ASSUME CacheInv, NEW t \in Threads, thr[t].pc \notin {"sent", "done"}, NEW r, Asked(r), InUse(r), FindHit(t, r)
    PROVE  CacheInv'
<1>1. CacheTypes /\ TypesOk /\ VnodesOk
  BY DEF CacheInv, CacheTypes
<1>2. Name(r) \in Names
  BY DEF Asked, Name
<1>3. PICK c : c = kern.names[Name(r)]
  OBVIOUS
<1>4. c \in Nodes \cup {"negative"}
  BY <1>1, <1>2, <1>3 DEF FindHit, Hit, TypesOk, Caches
<1>5. PICK v : v = IF c = "negative" THEN NULL ELSE c
  OBVIOUS
<1>6. v \in Nodes \cup {NULL} /\ (v # NULL => v \in kern.vn)
  BY <1>1, <1>2, <1>3, <1>4, <1>5 DEF VnodesOk
<1>7. PICK q : q = Resolved(r, v)
  OBVIOUS
<1>8. /\ q \in Requests /\ Formed(q) /\ q.pc \in {"idle", "ready"} /\ q.op \in NameOps \cup {"none"}
      /\ {q.vp, q.vp2} \subseteq {r.vp, r.vp2, v, NULL}
  BY <1>6, <1>7, ResolvedFacts
<1>9. thr' = [thr EXCEPT ![t] = q]
  BY <1>3, <1>5, <1>7 DEF FindHit
<1>10. /\ thr' \in [Threads -> Requests] /\ thr'[t] = q /\ Others(t)
       /\ \A u \in Threads \ {t} : thr'[u] = thr[u]
  BY <1>1, <1>8, <1>9, Turn DEF TypesOk
<1>11. UNCHANGED <<sync, fs, kern, flight, lock, late, cause, tag>>
  BY DEF FindHit
<1>12. \A x \in Nodes \cup {Dvp} : Holds(thr[t], x)' <=> Holds(thr[t], x)
  BY <1>8, <1>10 DEF Holds
<1>13. /\ lock' \in [Nodes \cup {Dvp} -> Threads \cup {NULL}]
       /\ \A u \in Threads : LockOk(u)'
  BY <1>1, <1>10, <1>11, <1>12, LocksKept
<1>14. Formed(thr[t])' /\ InUse(thr[t])'
  BY <1>6, <1>8, <1>10, <1>11 DEF InUse, Formed
<1>15. (\A n \in Nodes : Duties(t, n)) /\ (\A a \in Names : NotLeft(t, a))
  BY <1>1, NoDuties
<1>16. CurrentOk(thr[t])' /\ RenameOk(thr[t])' /\ VersionOk(thr[t])' /\ LengthOk(thr[t])'
  <2>1. ~Answered(thr'[t]) /\ thr'[t].op \notin {"write", "exchange"}
    BY <1>8, <1>10 DEF Answered, NameOps
  <2> QED BY <1>8, <1>10, <2>1, Unanswered DEF RenameOk
<1>17. \A r0 \in late' : r0 \in late
  BY <1>11
<1> QED BY <1>1, <1>10, <1>11, <1>13, <1>14, <1>15, <1>16, <1>17, CalmStep DEF TypesOk, Reasons, Fates

\* a thread takes its locks and sends its request
LEMMA SendStep ==
    ASSUME CacheInv, NEW t \in Threads, thr[t].pc \notin {"sent", "done"}, NEW r \in Requests,
           Formed(Sent(r)), InUse(r), r.op # "exchange", r.op = "write" => r.vp \notin Plain,
           Acquire(t, Locks(r)), thr' = [thr EXCEPT ![t] = Sent(r)],
           UNCHANGED <<sync, fs, flight, late, cause, tag>>,
           kern' \in Caches, kern'.vn = kern.vn, kern'.filesize = kern.filesize, kern'.va = kern.va,
           kern'.dirty = kern.dirty, kern'.direct = kern.direct, kern'.valid = kern.valid,
           \A a \in Names : kern'.names[a] \in {kern.names[a], "miss"},
           r.stage = "run" /\ r.op = "rename" => \A a \in Names : kern'.names[a] # r.vp
    PROVE  CacheInv'
<1>1. CacheTypes /\ TypesOk
  BY DEF CacheInv, CacheTypes
<1>2. PICK q : q = Sent(r)
  OBVIOUS
<1>3. /\ q \in Requests /\ q.pc = "sent" /\ Locks(q) = Locks(r) /\ q.stage = r.stage /\ q.op = r.op
      /\ q.vp = r.vp /\ q.vp2 = r.vp2 /\ Formed(q)
  BY <1>2, SentFacts
<1>4. thr' = [thr EXCEPT ![t] = q]
  BY <1>2
<1>5. /\ thr' \in [Threads -> Requests] /\ thr'[t] = q /\ Others(t)
      /\ \A u \in Threads \ {t} : thr'[u] = thr[u]
  BY <1>1, <1>3, <1>4, Turn, ZenonT(60) DEF TypesOk
<1>6. PICK L : L = Locks(r)
  OBVIOUS
<1>7. L = Locks(thr'[t]) /\ Acquire(t, L) /\ thr'[t].pc \in {"sent", "done"}
  BY <1>3, <1>5, <1>6
<1>8. /\ lock' \in [Nodes \cup {Dvp} -> Threads \cup {NULL}]
      /\ \A u \in Threads : LockOk(u)'
  BY <1>1, <1>5, <1>7, LocksTaken
<1>9. Formed(thr[t])' /\ InUse(thr[t])'
  BY <1>3, <1>5 DEF InUse, Formed
<1>10. (\A n \in Nodes : Duties(t, n)) /\ (\A a \in Names : NotLeft(t, a))
  BY <1>1, NoDuties
<1>11. CurrentOk(thr[t])' /\ RenameOk(thr[t])' /\ VersionOk(thr[t])' /\ LengthOk(thr[t])'
  <2>1. ~Answered(thr'[t]) /\ thr'[t].op # "exchange" /\ (thr'[t].op = "write" => thr'[t].vp \notin Plain')
    BY <1>3, <1>5 DEF Answered, Plain
  <2> QED BY <1>3, <1>5, <2>1, Unanswered DEF RenameOk
<1>12. \A r0 \in late' : r0 \in late
  OBVIOUS
<1> QED BY <1>1, <1>5, <1>8, <1>9, <1>10, <1>11, <1>12, CalmStep DEF TypesOk, Reasons, Fates

\* a name that is not cached is asked for
LEMMA FindMissKeeps ==
    ASSUME CacheInv, NEW t \in Threads, thr[t].pc \notin {"sent", "done"}, NEW r, Asked(r), InUse(r), FindMiss(t, r)
    PROVE  CacheInv'
<1>1. kern \in Caches /\ Name(r) \in Names /\ r \in Requests
  BY DEF CacheInv, CacheTypes, TypesOk, Asked, Name
<1>2. kern' = [kern EXCEPT !.names[Name(r)] = "miss"]
  BY DEF FindMiss
<1>3. /\ kern' \in Caches /\ kern'.vn = kern.vn /\ kern'.filesize = kern.filesize /\ kern'.va = kern.va
      /\ kern'.dirty = kern.dirty /\ kern'.valid = kern.valid /\ kern'.direct = kern.direct
      /\ \A a \in Names : kern'.names[a] \in {kern.names[a], "miss"}
  BY <1>1, <1>2 DEF Caches
<1>4. Formed(Sent(r))
  <2>1. PICK q : q = Sent(r)
    OBVIOUS
  <2>2. /\ q \in Requests /\ q.pc = "sent" /\ q.stage = r.stage /\ q.op = r.op /\ q.nm = r.nm /\ q.nm2 = r.nm2
        /\ q.vp = r.vp /\ q.vp2 = r.vp2
    BY <1>1, <2>1, SentFacts
  <2> QED BY <2>1, <2>2 DEF Formed, Asked, NameOps, FileOps
<1>5. r.op \notin {"write", "exchange"} /\ r.stage # "run"
  BY DEF Asked, NameOps
<1> QED BY <1>1, <1>3, <1>4, <1>5, SendStep DEF FindMiss

\* an operation on names
LEMMA NameRunKeeps ==
    ASSUME CacheInv, NEW t \in Threads, thr[t].pc = "ready", thr[t].stage = "run", NameRun(t, thr[t])
    PROVE  CacheInv'
<1>1. PICK r : r = thr[t]
  OBVIOUS
<1>2. r \in Requests /\ Formed(r) /\ InUse(r) /\ kern \in Caches /\ r.pc = "ready" /\ r.stage = "run"
  BY <1>1 DEF CacheInv, CacheTypes, TypesOk
<1>3. Formed(Sent(r)) /\ r.op \notin {"write", "exchange"}
  <2>1. PICK q : q = Sent(r)
    OBVIOUS
  <2>2. /\ q \in Requests /\ q.pc = "sent" /\ q.stage = r.stage /\ q.op = r.op /\ q.nm = r.nm /\ q.nm2 = r.nm2
        /\ q.vp = r.vp /\ q.vp2 = r.vp2
    BY <1>2, <2>1, SentFacts
  <2> QED BY <1>2, <2>1, <2>2 DEF Formed, NameOps, FileOps
<1>4. kern' = IF r.op \in {"remove", "rmdir", "rename"} THEN Purge(kern, {r.vp}) ELSE kern
  BY <1>1 DEF NameRun
<1>5. /\ kern' \in Caches /\ kern'.vn = kern.vn /\ kern'.filesize = kern.filesize /\ kern'.va = kern.va
      /\ kern'.dirty = kern.dirty /\ kern'.valid = kern.valid /\ kern'.direct = kern.direct
      /\ \A a \in Names : kern'.names[a] \in {kern.names[a], "miss"}
      /\ r.op = "rename" => \A a \in Names : kern'.names[a] = IF kern.names[a] \in {r.vp} THEN "miss" ELSE kern.names[a]
  BY <1>2, <1>4, PurgeFacts
<1>6. r.op = "rename" => r.vp \in Nodes
  BY <1>2 DEF Formed
<1>7. r.stage = "run" /\ r.op = "rename" => \A a \in Names : kern'.names[a] # r.vp
  BY <1>5, <1>6
<1>8. /\ Acquire(t, Locks(r)) /\ thr' = [thr EXCEPT ![t] = Sent(r)]
      /\ UNCHANGED <<sync, fs, flight, late, cause, tag>>
  BY <1>1 DEF NameRun
<1>9. thr[t].pc \notin {"sent", "done"}
  BY <1>1, <1>2
<1> QED BY <1>2, <1>3, <1>5, <1>7, <1>8, <1>9, SendStep

\* the lookup of a name goes wrong
LEMMA FindFailedKeeps ==
    ASSUME CacheInv, NEW t \in Threads, FindFailed(t)
    PROVE  CacheInv'
<1>1. CacheTypes /\ TypesOk
  BY DEF CacheInv, CacheTypes
<1>2. thr' = [thr EXCEPT ![t] = IdleThread] /\ UNCHANGED <<sync, fs, kern, flight, late, cause, tag>>
      /\ Release(t)
  BY DEF FindFailed
<1>3. /\ thr' \in [Threads -> Requests] /\ thr'[t] = IdleThread /\ Others(t)
      /\ \A u \in Threads \ {t} : thr'[u] = thr[u]
  BY <1>1, <1>2, IdleFacts, Turn DEF TypesOk
<1>4. thr'[t].pc \notin {"sent", "done"} /\ thr'[t].op = "none"
  BY <1>3, IdleFacts
<1>5. /\ lock' \in [Nodes \cup {Dvp} -> Threads \cup {NULL}]
      /\ \A u \in Threads : LockOk(u)'
  BY <1>1, <1>2, <1>3, <1>4, LocksGiven
<1>6. Formed(thr[t])' /\ InUse(thr[t])'
  BY <1>3, IdleFacts DEF InUse, Formed
<1>7. (\A n \in Nodes : Duties(t, n)) /\ (\A a \in Names : NotLeft(t, a))
  <2>1. thr[t].op \notin FileOps /\ thr[t].stage # "run"
    BY <1>1 DEF FindFailed, CacheTypes, Formed
  <2> QED BY <2>1 DEF Duties, NotLeft, Renews, Resizes, Forgets, Mends, Creates, FileOps
<1>8. CurrentOk(thr[t])' /\ RenameOk(thr[t])' /\ VersionOk(thr[t])' /\ LengthOk(thr[t])'
  <2>1. ~Answered(thr'[t]) /\ thr'[t].op \notin {"write", "exchange"}
    BY <1>4 DEF Answered
  <2> QED BY <1>4, <2>1, Unanswered DEF RenameOk
<1>9. \A r0 \in late' : r0 \in late
  BY <1>2
<1> QED BY <1>1, <1>2, <1>3, <1>5, <1>6, <1>7, <1>8, <1>9, CalmStep DEF TypesOk, Reasons, Fates

-----------------------------------------------------------------------------
(* The ends that only drop names and attributes *)

\* a thread that ends its operation
LEMMA EndFacts ==
    ASSUME CacheTypes, NEW t \in Threads, thr' = [thr EXCEPT ![t] = IdleThread], Release(t)
    PROVE  /\ thr' \in [Threads -> Requests] /\ thr'[t] = IdleThread /\ Others(t)
           /\ \A u \in Threads \ {t} : thr'[u] = thr[u]
           /\ lock' \in [Nodes \cup {Dvp} -> Threads \cup {NULL}] /\ \A u \in Threads : LockOk(u)'
           /\ Formed(thr[t])' /\ InUse(thr[t])'
           /\ CurrentOk(thr[t])' /\ RenameOk(thr[t])' /\ VersionOk(thr[t])' /\ LengthOk(thr[t])'
<1>1. TypesOk
  BY DEF CacheTypes
<1>2. /\ thr' \in [Threads -> Requests] /\ thr'[t] = IdleThread /\ Others(t)
      /\ \A u \in Threads \ {t} : thr'[u] = thr[u]
  BY <1>1, IdleFacts, Turn DEF TypesOk
<1>3. thr'[t].pc \notin {"sent", "done"} /\ thr'[t].op = "none"
  BY <1>2, IdleFacts
<1>4. /\ lock' \in [Nodes \cup {Dvp} -> Threads \cup {NULL}]
      /\ \A u \in Threads : LockOk(u)'
  BY <1>2, <1>3, LocksGiven
<1>5. Formed(thr[t])' /\ InUse(thr[t])'
  BY <1>2, IdleFacts DEF InUse, Formed
<1>6. ~Answered(thr'[t]) /\ thr'[t].op \notin {"write", "exchange"}
  BY <1>3 DEF Answered
<1>7. CurrentOk(thr[t])' /\ VersionOk(thr[t])' /\ LengthOk(thr[t])'
  BY <1>6, Unanswered
<1>8. RenameOk(thr[t])'
  BY <1>3 DEF RenameOk
<1> QED BY <1>2, <1>4, <1>5, <1>7, <1>8

\* The caches lose names and attributes at most.
Shrinks ==
    /\ kern' \in Caches /\ kern'.vn = kern.vn /\ kern'.filesize = kern.filesize /\ kern'.va = kern.va
    /\ kern'.dirty = kern.dirty /\ kern'.direct = kern.direct
    /\ \A n \in Nodes : kern'.valid[n] => kern.valid[n]
    /\ \A a \in Names : kern'.names[a] \in {kern.names[a], "miss"}

\* an end that only does this
LEMMA CalmEnd ==
    ASSUME CacheInv, NEW t \in Threads, thr' = [thr EXCEPT ![t] = IdleThread], Release(t),
           UNCHANGED <<sync, fs, flight, late, cause>>, Shrinks,
           tag' \in [Nodes -> SUBSET Fates], \A n \in Nodes : tag[n] \subseteq tag'[n],
           \A a \in Names : kern'.names[a] = "miss" \/ NotLeft(t, a),
           \A n \in Nodes : Duties(t, n)
    PROVE  CacheInv'
<1>1. CacheTypes /\ TypesOk
  BY DEF CacheInv, CacheTypes
<1>2. /\ thr' \in [Threads -> Requests]
      /\ \A u \in Threads \ {t} : thr'[u] = thr[u]
      /\ lock' \in [Nodes \cup {Dvp} -> Threads \cup {NULL}] /\ \A u \in Threads : LockOk(u)'
      /\ Formed(thr[t])' /\ InUse(thr[t])'
      /\ CurrentOk(thr[t])' /\ RenameOk(thr[t])' /\ VersionOk(thr[t])' /\ LengthOk(thr[t])'
  BY <1>1, EndFacts
<1>3. \A r \in late' : r \in late
  OBVIOUS
<1>4. cause' \in [Names -> Reasons] /\ late' \subseteq Requests
  BY <1>1 DEF TypesOk, Reasons
<1>5. \A a \in Names : cause'[a] = "abandoned" \/ kern'.names[a] = "miss"
                         \/ (cause'[a] = cause[a] /\ NotLeft(t, a))
  OBVIOUS
<1> QED BY <1>2, <1>3, <1>4, <1>5, CalmStep DEF Shrinks

\* an operation on names that ends
LEMMA NameEnds ==
    ASSUME CacheInv, NEW t \in Threads, NEW r, r = thr[t], r.pc = "done", r.stage = "run",
           \/ RemoveEnd(r) \/ RmdirEnd(r) \/ RenameEnd(r) \/ LinkEnd(r)
           \/ (r.op = "newentry" \/ (r.op = "create" /\ ~r.ans.ok)) /\ UNCHANGED <<kern, cause, tag>>,
           thr' = [thr EXCEPT ![t] = IdleThread], Release(t), UNCHANGED <<sync, fs, flight, late>>
    PROVE  CacheInv'
<1>1. CacheTypes /\ TypesOk /\ r \in Requests /\ Formed(r) /\ RenameOk(r) /\ kern \in Caches
  BY DEF CacheInv, CacheTypes, TypesOk, NamesInv
<1>2. UNCHANGED <<cause, tag>>
  BY DEF RemoveEnd, RmdirEnd, RenameEnd, LinkEnd
<1>3. tag' \in [Nodes -> SUBSET Fates] /\ \A n \in Nodes : tag[n] \subseteq tag'[n]
  BY <1>1, <1>2 DEF TypesOk, Fates
<1>4. r.op \notin FileOps
  BY DEF RemoveEnd, RmdirEnd, RenameEnd, LinkEnd, FileOps
<1>5. Shrinks /\ (\A a \in Names : kern'.names[a] = "miss" \/ ~(Mends(r, a) \/ Creates(r, a)))
        /\ (\A n \in Nodes : Renews(r, n) => ~kern'.valid[n])
  <2>1. CASE RemoveEnd(r)
    <3>1. CASE ~r.ans.ok /\ kern' = Invalidate(kern, {r.vp})
      <4>1. Shrinks /\ \A n \in Nodes : kern'.valid[n] <=> kern.valid[n] /\ n \notin {r.vp}
        BY <1>1, <3>1, InvalidateFacts DEF Shrinks
      <4> QED BY <3>1, <4>1 DEF Mends, Creates, Answered, Renews
    <3>2. CASE r.ans.ok /\ \E alike \in SUBSET (kern.vn \cap Files) : kern' = Invalidate(Purge(kern, {r.vp}), {r.vp} \cup alike)
      <4>1. PICK alike : kern' = Invalidate(Purge(kern, {r.vp}), {r.vp} \cup alike)
        BY <3>2
      <4>2. PICK k : k = Purge(kern, {r.vp})
        OBVIOUS
      <4>3. /\ k \in Caches /\ k.vn = kern.vn /\ k.filesize = kern.filesize /\ k.va = kern.va
            /\ k.valid = kern.valid /\ k.dirty = kern.dirty /\ k.direct = kern.direct
            /\ \A a \in Names : k.names[a] = IF kern.names[a] \in {r.vp} THEN "miss" ELSE kern.names[a]
        BY <1>1, <4>2, PurgeFacts
      <4>4. PICK S : S = {r.vp} \cup alike
        OBVIOUS
      <4>5. kern' = Invalidate(k, S) /\ r.vp \in S
        BY <4>1, <4>2, <4>4
      <4>6. /\ kern' \in Caches /\ kern'.vn = k.vn /\ kern'.filesize = k.filesize /\ kern'.va = k.va
            /\ kern'.names = k.names /\ kern'.dirty = k.dirty /\ kern'.direct = k.direct
            /\ \A n \in Nodes : kern'.valid[n] <=> k.valid[n] /\ n \notin S
        BY <4>3, <4>5, InvalidateFacts
      <4>7. Shrinks
        BY <4>3, <4>6 DEF Shrinks
      <4> QED BY <2>1, <4>3, <4>5, <4>6, <4>7 DEF RemoveEnd, Mends, Creates, Renews
    <3> QED BY <2>1, <3>1, <3>2 DEF RemoveEnd
  <2>2. CASE RmdirEnd(r)
    <3>1. kern' = Invalidate(kern, {r.vp}) /\ r.op = "rmdir"
      BY <2>2 DEF RmdirEnd
    <3>2. Shrinks /\ \A n \in Nodes : kern'.valid[n] <=> kern.valid[n] /\ n \notin {r.vp}
      BY <1>1, <3>1, InvalidateFacts DEF Shrinks
    <3> QED BY <3>1, <3>2 DEF Mends, Creates, Renews
  <2>3. CASE RenameEnd(r)
    <3>0. r.op = "rename" /\ r.vp \in Nodes /\ \A a \in Names : kern.names[a] # r.vp
      BY <1>1, <2>3 DEF RenameEnd, RenameOk, Formed
    <3>1. CASE r.vp \in Subdirs
      <4>1. kern' = PurgeDir(kern)
        BY <2>3, <3>1 DEF RenameEnd
      <4>2. Shrinks /\ \A a \in Names : kern'.names[a] = "miss"
        BY <1>1, <4>1, PurgeDirFacts DEF Shrinks
      <4> QED BY <3>0, <4>2 DEF Renews
    <3>2. CASE r.vp \notin Subdirs
      <4>0. PICK S : S = {r.vp2} \ {r.vp}
        OBVIOUS
      <4>1. kern' = Purge(kern, S)
        BY <2>3, <3>2, <4>0 DEF RenameEnd
      <4>2. Shrinks /\ \A a \in Names : kern'.names[a] = IF kern.names[a] \in S THEN "miss" ELSE kern.names[a]
        BY <1>1, <4>1, PurgeFacts DEF Shrinks
      <4> QED BY <3>0, <4>0, <4>2 DEF Renews, Mends, Creates
    <3> QED BY <3>1, <3>2
  <2>4. CASE LinkEnd(r)
    <3>1. CASE r.ans.ok
      <4>1. kern' = Invalidate(kern, {r.vp}) /\ r.op = "link"
        BY <2>4, <3>1 DEF LinkEnd
      <4>2. Shrinks /\ \A n \in Nodes : kern'.valid[n] <=> kern.valid[n] /\ n \notin {r.vp}
        BY <1>1, <4>1, InvalidateFacts DEF Shrinks
      <4> QED BY <4>1, <4>2 DEF Mends, Creates, Renews
    <3>2. CASE ~r.ans.ok
      <4>1. kern' = kern /\ r.op = "link"
        BY <2>4, <3>2 DEF LinkEnd
      <4>2. Shrinks
        BY <1>1, <4>1 DEF Shrinks
      <4> QED BY <3>2, <4>1, <4>2 DEF Mends, Creates, Renews
    <3> QED BY <3>1, <3>2
  <2>5. CASE (r.op = "newentry" \/ (r.op = "create" /\ ~r.ans.ok)) /\ UNCHANGED <<kern, cause, tag>>
    <3>1. Shrinks
      BY <1>1, <2>5 DEF Shrinks
    <3> QED BY <2>5, <3>1 DEF Mends, Creates, Renews, Answered
  <2> QED BY <2>1, <2>2, <2>3, <2>4, <2>5
<1>6. \A a \in Names : kern'.names[a] = "miss" \/ NotLeft(t, a)
  BY <1>5 DEF NotLeft
<1>7. \A n \in Nodes : Duties(t, n)
  BY <1>4, <1>5 DEF Duties, Resizes, Forgets, FileOps
<1> QED BY <1>2, <1>3, <1>5, <1>6, <1>7, CalmEnd

\* an operation on files that fails
LEMMA FileFails ==
    ASSUME CacheInv, NEW t \in Threads, NEW r, r = thr[t], r.pc = "done", r.stage = "run", ~r.ans.ok,
           \/ GetattrEnd(r) \/ SetattrEnd(r) \/ WriteEnd(r) \/ ExchangeEnd(r),
           thr' = [thr EXCEPT ![t] = IdleThread], Release(t), UNCHANGED <<sync, fs, flight, late>>
    PROVE  CacheInv'
<1>1. CacheTypes /\ TypesOk /\ r \in Requests /\ Formed(r) /\ kern \in Caches /\ r.vp \in Nodes
  BY DEF CacheInv, CacheTypes, TypesOk, Formed, GetattrEnd, SetattrEnd, WriteEnd, ExchangeEnd, FileOps, Nodes
<1>2. r.op \in FileOps /\ ~Answered(r) /\ UNCHANGED cause
  BY DEF GetattrEnd, SetattrEnd, WriteEnd, ExchangeEnd, FileOps, Answered
<1>3. \A a \in Names : NotLeft(t, a)
  BY <1>2 DEF NotLeft, Mends, Creates
<1>4. CASE GetattrEnd(r)
  <2>1. r.op = "getattr" /\ UNCHANGED tag /\ (kern' = kern \/ kern' = Purge(kern, {r.vp}))
    BY <1>4 DEF GetattrEnd
  <2>2. Shrinks
    <3>1. CASE kern' = kern
      BY <1>1, <3>1 DEF Shrinks
    <3>2. CASE kern' = Purge(kern, {r.vp})
      BY <1>1, <3>2, PurgeFacts DEF Shrinks
    <3> QED BY <2>1, <3>1, <3>2
  <2>3. \A n \in Nodes : Duties(t, n)
    BY <2>1 DEF Duties, Renews, Resizes, Forgets
  <2>4. tag' \in [Nodes -> SUBSET Fates] /\ \A n \in Nodes : tag[n] \subseteq tag'[n]
    BY <1>1, <2>1 DEF TypesOk, Fates
  <2> QED BY <1>2, <1>3, <2>2, <2>3, <2>4, CalmEnd
<1>5. CASE SetattrEnd(r)
  <2>1. r.op \in {"chmod", "truncate"} /\ UNCHANGED tag /\ kern' = Invalidate(kern, {r.vp})
    BY <1>5 DEF SetattrEnd
  <2>2. Shrinks /\ \A n \in Nodes : kern'.valid[n] <=> kern.valid[n] /\ n \notin {r.vp}
    BY <1>1, <2>1, InvalidateFacts DEF Shrinks
  <2>3. \A n \in Nodes : Duties(t, n)
    BY <1>2, <2>1, <2>2 DEF Duties, Renews, Resizes, Forgets
  <2>4. tag' \in [Nodes -> SUBSET Fates] /\ \A n \in Nodes : tag[n] \subseteq tag'[n]
    BY <1>1, <2>1 DEF TypesOk, Fates
  <2> QED BY <1>2, <1>3, <2>2, <2>3, <2>4, CalmEnd
<1>6. CASE WriteEnd(r)
  <2>1. r.op = "write" /\ tag' = Tagged(r.vp, {"failed"}) /\ UNCHANGED kern
    BY <1>6 DEF WriteEnd
  <2>2. Shrinks
    BY <1>1, <2>1 DEF Shrinks
  <2>3. /\ tag' \in [Nodes -> SUBSET Fates] /\ \A n \in Nodes : tag[n] \subseteq tag'[n]
        /\ tag'[r.vp] = tag[r.vp] \cup {"failed"}
    BY <1>1, <2>1 DEF TypesOk, Fates, Tagged
  <2>4. tag'[r.vp] \cap SizeTags # {} /\ tag'[r.vp] \cap AttrTags # {}
    BY <2>3 DEF SizeTags, AttrTags
  <2>5. \A n \in Nodes : Duties(t, n)
    BY <2>1, <2>4 DEF Duties, Renews, Resizes, Forgets
  <2> QED BY <1>2, <1>3, <2>2, <2>3, <2>5, CalmEnd
<1>7. CASE ExchangeEnd(r)
  <2>1. r.op = "exchange" /\ UNCHANGED <<tag, kern>>
    BY <1>7 DEF ExchangeEnd
  <2>2. Shrinks
    BY <1>1, <2>1 DEF Shrinks
  <2>3. \A n \in Nodes : Duties(t, n)
    BY <1>2, <2>1 DEF Duties, Renews, Resizes, Forgets
  <2>4. tag' \in [Nodes -> SUBSET Fates] /\ \A n \in Nodes : tag[n] \subseteq tag'[n]
    BY <1>1, <2>1 DEF TypesOk, Fates
  <2> QED BY <1>2, <1>3, <2>2, <2>3, <2>4, CalmEnd
<1> QED BY <1>4, <1>5, <1>6, <1>7

-----------------------------------------------------------------------------
(* Signals *)

\* an operation gives up
LEMMA InterruptKeeps ==
    ASSUME CacheInv, NEW t \in Threads, Interrupt(t)
    PROVE  CacheInv'
<1>0. PICK r : r = thr[t]
  OBVIOUS
<1>1. /\ CacheTypes /\ TypesOk /\ r \in Requests /\ Formed(r) /\ InUse(r) /\ kern \in Caches /\ LengthOk(r)
      /\ RenameOk(r)
  BY <1>0 DEF CacheInv, CacheTypes, TypesOk, SizeInv, NamesInv
<1>2. /\ r.pc \in {"sent", "done"} /\ UNCHANGED <<sync, fs, kern, flight, lock>>
      /\ thr' = [thr EXCEPT ![t] = [r EXCEPT !.pc = "done", !.ans = Fail]]
      /\ late' = IF r.pc = "sent" /\ r.stage = "run" /\ r.op # "getattr" THEN late \cup {r} ELSE late
  BY <1>0 DEF Interrupt
<1>3. PICK q : q = [r EXCEPT !.pc = "done", !.ans = Fail]
  OBVIOUS
<1>4. /\ q \in Requests /\ q.pc = "done" /\ q.ans = Fail /\ q.stage = r.stage /\ q.op = r.op /\ q.nm = r.nm
      /\ q.nm2 = r.nm2 /\ q.vp = r.vp /\ q.vp2 = r.vp2 /\ q.end = r.end /\ q.size = r.size
  BY <1>1, <1>3, FailFacts DEF Requests
<1>5. ~Answered(q) /\ Locks(q) = Locks(r) /\ ~q.ans.ok
  BY <1>4, FailFacts DEF Answered, Locks
<1>6. Formed(q)
  BY <1>1, <1>2, <1>4, <1>5 DEF Formed
<1>7. /\ thr' \in [Threads -> Requests] /\ thr'[t] = q /\ Others(t)
      /\ \A u \in Threads \ {t} : thr'[u] = thr[u]
  <2>1. thr' = [thr EXCEPT ![t] = q]
    BY <1>2, <1>3
  <2> QED BY <1>1, <1>4, <2>1, Turn DEF TypesOk
<1>8. \A x \in Nodes \cup {Dvp} : Holds(thr[t], x)' <=> Holds(thr[t], x)
  <2>1. \A x : Holds(q, x) <=> Holds(r, x)
    BY <1>2, <1>4, <1>5 DEF Holds
  <2> QED BY <1>0, <1>7, <2>1 DEF Holds
<1>9. /\ lock' \in [Nodes \cup {Dvp} -> Threads \cup {NULL}]
      /\ \A u \in Threads : LockOk(u)'
  BY <1>1, <1>2, <1>7, <1>8, LocksKept
<1>10. Formed(thr[t])' /\ InUse(thr[t])'
  BY <1>1, <1>2, <1>4, <1>6, <1>7 DEF InUse, Formed
<1>11. /\ cause' \in [Names -> Reasons] /\ tag' \in [Nodes -> SUBSET Fates]
       /\ \A n \in Nodes : tag[n] \subseteq tag'[n]
       /\ \A a \in Names : cause'[a] = "abandoned" \/ (cause'[a] = cause[a] /\ (Answered(r) /\ r.stage = "run" => a \notin {r.nm, r.nm2}))
       /\ Answered(r) /\ r.stage = "run" /\ r.op \in {"link", "truncate", "write", "exchange"} =>
             \A n \in Nodes : n \in {r.vp, r.vp2} => "abandoned" \in tag'[n]
  <2>0. cause \in [Names -> Reasons] /\ tag \in [Nodes -> SUBSET Fates]
    BY <1>1 DEF TypesOk, Reasons, Fates
  <2>1. CASE r.pc = "done" /\ r.stage = "run" /\ r.ans.ok
    <3>1. /\ cause' = [a \in Names |-> IF a \in {r.nm, r.nm2} THEN "abandoned" ELSE cause[a]]
          /\ tag' = [n \in Nodes |-> IF r.op \in {"link", "truncate", "write", "exchange"} /\ n \in {r.vp, r.vp2}
                                     THEN tag[n] \cup {"abandoned"} ELSE tag[n]]
      BY <1>0, <2>1 DEF Interrupt
    <3> QED BY <2>0, <3>1 DEF Reasons, Fates
  <2>2. CASE ~(r.pc = "done" /\ r.stage = "run" /\ r.ans.ok)
    <3>1. UNCHANGED <<cause, tag>>
      BY <1>0, <2>2 DEF Interrupt
    <3> QED BY <2>0, <2>2, <3>1 DEF Answered
  <2> QED BY <2>1, <2>2
<1>12. \A a \in Names : cause'[a] = "abandoned" \/ kern'.names[a] = "miss"
                          \/ (cause'[a] = cause[a] /\ NotLeft(t, a))
  BY <1>0, <1>11 DEF NotLeft, Mends, Creates
<1>13. late' \subseteq Requests /\ \A r0 \in late' : r0 \in late \/ (Formed(r0) /\ r0.stage = "run" /\ r0.pc = "sent")
  BY <1>1, <1>2 DEF TypesOk
<1>14. \A n \in Nodes : Duties(t, n)
  <2> SUFFICES ASSUME NEW n \in Nodes PROVE Duties(t, n)
    OBVIOUS
  <2>1. Renews(r, n) => Renews(q, n) \/ tag'[n] \cap AttrTags # {}
    BY <1>4, <1>11 DEF Renews, Answered, AttrTags
  <2>2. r.op \in {"truncate", "exchange"} => r.stage = "run"
    BY <1>1 DEF Formed, FileOps
  <2>3. Resizes(r, n) => Resizes(q, n) \/ tag'[n] \cap SizeTags # {}
    BY <1>4, <1>11, <2>2 DEF Resizes, SizeTags
  <2>4. Forgets(r, n) => Forgets(q, n) \/ tag'[n] \cap SizeTags # {}
    BY <1>4, <1>11, <2>2 DEF Forgets, SizeTags
  <2> QED BY <1>0, <1>7, <2>1, <2>3, <2>4 DEF Duties
<1>15. CurrentOk(thr[t])' /\ RenameOk(thr[t])' /\ VersionOk(thr[t])'
  BY <1>0, <1>1, <1>2, <1>4, <1>5, <1>7 DEF CurrentOk, RenameOk, VersionOk, Answered
<1>16. LengthOk(thr[t])'
  BY <1>1, <1>2, <1>4, <1>5, <1>7 DEF LengthOk, Answered
<1>17. kern' \in Caches
  BY <1>1, <1>2
<1> QED BY <1>2, <1>7, <1>9, <1>10, <1>11, <1>12, <1>13, <1>14, <1>15, <1>16, <1>17, CalmStep

-----------------------------------------------------------------------------
(* What happens without a system call *)

\* no thread has a part in it
LEMMA NoThread == NULL \notin Threads /\ (\A n : Duties(NULL, n)) /\ (\A a : NotLeft(NULL, a))
BY DEF Duties, NotLeft

\* attributes end
LEMMA ExpireKeeps ==
    ASSUME CacheInv, NEW n \in Nodes, Expire(n)
    PROVE  CacheInv'
<1>1. CacheTypes /\ TypesOk /\ kern \in Caches
  BY DEF CacheInv, CacheTypes, TypesOk
<1>2. kern' = Invalidate(kern, {n}) /\ UNCHANGED <<sync, fs, flight, lock, thr, late, cause, tag>>
  BY DEF Expire
<1>3. Shrinks
  BY <1>1, <1>2, InvalidateFacts DEF Shrinks
<1>4. Others(NULL)
  BY <1>2 DEF Others, Like
<1>5. /\ lock' \in [Nodes \cup {Dvp} -> Threads \cup {NULL}]
      /\ \A u \in Threads : LockOk(u)'
  BY <1>1, <1>2, <1>4, NoThread, LocksKept
<1>6. /\ thr' \in [Threads -> Requests] /\ \A u \in Threads \ {NULL} : thr'[u] = thr[u]
  BY <1>1, <1>2 DEF TypesOk
<1>7. /\ cause' \in [Names -> Reasons] /\ tag' \in [Nodes -> SUBSET Fates] /\ late' \subseteq Requests
      /\ \A m \in Nodes : tag[m] \subseteq tag'[m]
      /\ \A r0 \in late' : r0 \in late
  BY <1>1, <1>2 DEF TypesOk, Reasons, Fates
<1> QED BY <1>2, <1>3, <1>5, <1>6, <1>7, NoThread, CalmStep DEF Shrinks

\* pages or vnodes change, and no thread does
LEMMA StillStep ==
    ASSUME CacheInv, UNCHANGED <<lock, thr, late, cause>>, sync' \in BOOLEAN, sync => sync',
           fs' \in Daemon, fs'.dir = fs.dir, fs'.made = fs.made, kern' \in Caches,
           flight' \in [Nodes -> Sizes], tag' \in [Nodes -> SUBSET Fates], VnodesOk',
           kern.vn = kern'.vn \/ \A u \in Threads : InUse(thr[u])',
           kern.direct \cap kern'.vn \subseteq kern'.direct,
           \A a \in Names : kern'.names[a] \in {kern.names[a], "miss"},
           \A n \in Nodes : tag[n] \subseteq tag'[n],
           \A n \in Nodes : fs'.ver[n] = fs.ver[n] \/ tag'[n] \cap AttrTags # {} \/ ~Outdates(n),
           \A n \in Nodes : Steady(n) \/ Loose(n) \/ Locked(NULL, n) \/ n \notin kern'.vn,
           \A n \in Nodes : AttrStays(NULL, n) /\ LengthStays(NULL, n) /\ ValidStays(NULL, n)
    PROVE  CacheInv'
<1>1. CacheTypes /\ TypesOk /\ NamesInv /\ AttrInv /\ SizeInv
  BY DEF CacheInv, CacheTypes
<1>2. Others(NULL)
  BY DEF Others, Like
<1>3. /\ lock' \in [Nodes \cup {Dvp} -> Threads \cup {NULL}]
      /\ \A u \in Threads : LockOk(u)'
  BY <1>1, <1>2, NoThread, LocksKept
<1>4. TypesOk'
  BY <1>1, <1>3 DEF TypesOk, Reasons, Fates
<1>5. Small(fs)'
  BY <1>1 DEF CacheTypes, Small
<1>6. \A r \in late' : r \in late
  OBVIOUS
<1>7. CacheTypes'
  BY <1>1, <1>2, <1>3, <1>4, <1>5, <1>6, NoThread, TypesStep
<1>8. NamesInv'
  <2>1. \A a \in Names : Settled(a) \/ (kern'.names[a] = kern.names[a] /\ cause'[a] = cause[a] /\ NotLeft(NULL, a))
    BY NoThread DEF Settled
  <2>2. \A u \in Threads \ {NULL} : thr'[u] = thr[u]
    OBVIOUS
  <2> QED BY <1>1, <2>1, <2>2, NoThread, NamesStep
<1>9. AttrInv'
  <2>1. \A n \in Nodes : fs'.ver[n] = fs.ver[n] \/ tag'[n] \cap AttrTags # {}
                              \/ (NULL \in Threads /\ Holds(thr'[NULL], n)) \/ ~Outdates(n)
    OBVIOUS
  <2>2. \A n \in Nodes : AttrStays(NULL, n)
    OBVIOUS
  <2> QED BY <1>1, <1>2, <1>7, <2>1, <2>2, NoThread, AttrStep
<1>10. SizeInv'
  BY <1>1, <1>2, <1>7, NoThread, LengthStep
<1> QED BY <1>7, <1>8, <1>9, <1>10 DEF CacheInv

\* what an unlocked or a foreign node keeps
LEMMA AttrSame ==
    ASSUME NEW n, kern'.vn = kern.vn, kern'.valid[n] = kern.valid[n], kern'.va[n] = kern.va[n],
           fs'.ver[n] = fs.ver[n]
    PROVE  AttrStays(NULL, n)
BY NoThread DEF AttrStays

\* what happens to a node whose pages and attributes are left alone
LEMMA NodeSame ==
    ASSUME NEW n \in Nodes, kern'.vn = kern.vn, kern'.filesize = kern.filesize, Steady(n) \/ tag'[n] \cap SizeTags # {},
           fs'.size[n] = fs.size[n] \/ ~kern.valid[n] \/ tag'[n] \cap (SizeTags \cup {"paged"}) # {},
           kern'.valid = kern.valid, kern'.va = kern.va
    PROVE  LengthStays(NULL, n) /\ ValidStays(NULL, n)
BY NoThread DEF LengthStays, ValidStays, Excused, Paged

\* pages are on their way
LEMMA PageoutKeeps ==
    ASSUME CacheInv, NEW n \in Nodes, Pageout(n)
    PROVE  CacheInv'
<1>1. /\ TypesOk /\ kern \in Caches /\ flight \in [Nodes -> Sizes] /\ VnodesOk /\ fs \in Daemon /\ sync \in BOOLEAN
  BY DEF CacheInv, CacheTypes, TypesOk
<1>2. /\ kern.dirty[n] > 0 /\ flight[n] = 0 /\ flight' = [flight EXCEPT ![n] = kern.dirty[n]]
      /\ kern' = [kern EXCEPT !.dirty[n] = 0] /\ UNCHANGED <<sync, fs, lock, thr, late, cause, tag>>
  BY DEF Pageout
<1>3. /\ kern' \in Caches /\ kern'.vn = kern.vn /\ kern'.filesize = kern.filesize /\ kern'.va = kern.va
      /\ kern'.names = kern.names /\ kern'.valid = kern.valid /\ kern'.dirty[n] = 0 /\ kern'.direct = kern.direct
      /\ \A m \in Nodes \ {n} : kern'.dirty[m] = kern.dirty[m]
  BY <1>1, <1>2, SizesNat DEF Caches
<1>4. /\ flight' \in [Nodes -> Sizes] /\ flight'[n] = kern.dirty[n]
      /\ \A m \in Nodes \ {n} : flight'[m] = flight[m]
  BY <1>1, <1>2 DEF Caches
<1>5. VnodesOk'
  BY <1>1, <1>2, <1>3, <1>4, SizesNat DEF VnodesOk
<1>8. \A m \in Nodes : Steady(m)
  <2>1. ASSUME NEW m \in Nodes, m # n PROVE Steady(m)
    BY <1>2, <1>3, <1>4, <2>1, Still
  <2>2. Steady(n)
    <3>1. PICK x \in Sizes, y \in Sizes : x = fs.size[n] /\ y = kern.dirty[n]
      BY <1>1 DEF Caches, Daemon
    <3>2. Due(n) = Max({x, y, 0}) /\ Max({fs'.size[n], kern'.dirty[n], flight'[n]}) = Max({x, 0, y})
      BY <1>2, <1>3, <1>4, <3>1 DEF Due
    <3>3. {x, y, 0} = {x, 0, y}
      OBVIOUS
    <3>4. kern.dirty[n] # 0
      BY <1>2
    <3> QED BY <1>2, <1>3, <3>2, <3>3, <3>4 DEF Steady
  <2> QED BY <2>1, <2>2
<1>9. \A m \in Nodes : AttrStays(NULL, m) /\ LengthStays(NULL, m) /\ ValidStays(NULL, m)
  BY <1>2, <1>3, <1>8, AttrSame, NodeSame
<1>10. /\ fs' \in Daemon /\ fs'.dir = fs.dir /\ fs'.ver = fs.ver /\ fs'.made = fs.made
       /\ tag' \in [Nodes -> SUBSET Fates] /\ \A m \in Nodes : tag[m] \subseteq tag'[m]
  BY <1>1, <1>2 DEF TypesOk, Fates
<1>11. /\ \A a \in Names : kern'.names[a] \in {kern.names[a], "miss"}
       /\ \A m \in Nodes : Steady(m) \/ Loose(m) \/ Locked(NULL, m) \/ m \notin kern'.vn
       /\ kern.direct \cap kern'.vn \subseteq kern'.direct /\ sync' \in BOOLEAN /\ (sync => sync')
  BY <1>1, <1>2, <1>3, <1>8
<1> QED BY <1>2, <1>3, <1>4, <1>5, <1>9, <1>10, <1>11, StillStep

\* pages reach the daemon
LEMMA PageoutEndKeeps ==
    ASSUME CacheInv, NEW n \in Nodes, PageoutEnd(n)
    PROVE  CacheInv'
<1>1. /\ TypesOk /\ kern \in Caches /\ flight \in [Nodes -> Sizes] /\ VnodesOk /\ fs \in Daemon /\ sync \in BOOLEAN
      /\ tag \in [Nodes -> SUBSET Fates]
  BY DEF CacheInv, CacheTypes, TypesOk, Fates
<1>t. PICK T \in SUBSET Fates : /\ tag' = Tagged(n, T)
                                /\ Outdates(n) => "paged" \in T
                                /\ \A u \in Threads : Cuts(thr[u], n) => "crossed" \in T
  <2>1. PICK C : C = (\E t \in Threads : thr[t].pc = "done" /\ thr[t].op = "truncate" /\ thr[t].vp = n /\ thr[t].ans.ok)
    OBVIOUS
  <2>2. PICK T : T = (IF Outdates(n) THEN {"paged"} ELSE {}) \cup (IF C THEN {"crossed"} ELSE {})
    OBVIOUS
  <2>3. tag' = Tagged(n, T)
    BY <2>1, <2>2 DEF PageoutEnd
  <2>4. T \subseteq Fates /\ (Outdates(n) => "paged" \in T) /\ (C => "crossed" \in T)
    BY <2>2 DEF Fates
  <2>5. \A u \in Threads : Cuts(thr[u], n) => C
    BY <2>1 DEF Cuts, Answered
  <2> QED BY <2>3, <2>4, <2>5
<1>2. /\ flight[n] > 0 /\ flight' = [flight EXCEPT ![n] = 0] /\ fs' = Written(fs, n, flight[n])
      /\ UNCHANGED <<sync, kern, lock, thr, late, cause>>
  BY DEF PageoutEnd
<1>3. PICK x \in Sizes, y \in Sizes, z \in Sizes : x = fs.size[n] /\ y = kern.dirty[n] /\ z = flight[n]
  BY <1>1 DEF Caches, Daemon
<1>4. PICK w \in Sizes : w = Max({x, z})
  BY MaxTwo
<1>5. /\ fs' \in Daemon /\ fs'.dir = fs.dir /\ fs'.made = fs.made /\ fs'.size[n] = w
      /\ \A m \in Nodes \ {n} : fs'.size[m] = fs.size[m] /\ fs'.ver[m] = fs.ver[m]
  BY <1>1, <1>2, <1>3, <1>4, WrittenFacts
<1>6. flight' \in [Nodes -> Sizes] /\ flight'[n] = 0 /\ \A m \in Nodes \ {n} : flight'[m] = flight[m]
  BY <1>1, <1>2, SizesNat
<1>7. VnodesOk'
  BY <1>1, <1>2, <1>6, SizesNat DEF VnodesOk
<1>10. /\ tag' \in [Nodes -> SUBSET Fates] /\ \A m \in Nodes : tag[m] \subseteq tag'[m]
       /\ tag'[n] = tag[n] \cup T
  BY <1>1, <1>t DEF Tagged
<1>11. \A m \in Nodes : Steady(m)
  <2>1. ASSUME NEW m \in Nodes, m # n PROVE Steady(m)
    BY <1>2, <1>5, <1>6, <2>1, Still
  <2>2. Steady(n)
    <3>1. Due(n) = Max({x, y, z}) /\ Max({fs'.size[n], kern'.dirty[n], flight'[n]}) = Max({w, y, 0})
      BY <1>2, <1>3, <1>5, <1>6 DEF Due
    <3>2. Max({x, y, z}) = Max({w, y, 0})
      BY <1>4, MaxTwo, MaxThree, SizesNat
    <3>3. ~(kern.dirty[n] = 0 /\ flight[n] = 0)
      BY <1>2
    <3>4. /\ \A u \in Threads : Cuts(thr[u], n) => tag'[n] \cap SizeTags # {}
          /\ Outdates(n) => "paged" \in tag'[n]
      BY <1>t, <1>10 DEF SizeTags
    <3> QED BY <1>2, <3>1, <3>2, <3>3, <3>4 DEF Steady
  <2> QED BY <2>1, <2>2
<1>12. ASSUME NEW m \in Nodes PROVE AttrStays(NULL, m) /\ LengthStays(NULL, m) /\ ValidStays(NULL, m)
  <2>1. CASE m # n
    BY <1>2, <1>5, <1>11, <2>1, AttrSame, NodeSame
  <2>2. CASE m = n
    <3>1. ~kern.valid[n] \/ "paged" \in tag'[n]
      BY <1>t, <1>10 DEF Outdates
    <3>2. AttrStays(NULL, n)
      BY <1>2, <3>1 DEF AttrStays, AttrTags
    <3> QED BY <1>2, <1>11, <2>2, <3>1, <3>2, NodeSame
  <2> QED BY <2>1, <2>2
<1>13. /\ \A a \in Names : kern'.names[a] \in {kern.names[a], "miss"}
       /\ \A m \in Nodes : Steady(m) \/ Loose(m) \/ Locked(NULL, m) \/ m \notin kern'.vn
       /\ kern' \in Caches /\ kern.vn = kern'.vn
       /\ kern.direct \cap kern'.vn \subseteq kern'.direct /\ sync' \in BOOLEAN /\ (sync => sync')
  BY <1>1, <1>2, <1>11
<1>14. \A m \in Nodes : fs'.ver[m] = fs.ver[m] \/ tag'[m] \cap AttrTags # {} \/ ~Outdates(m)
  BY <1>5, <1>t, <1>10 DEF AttrTags
<1> QED BY <1>2, <1>5, <1>6, <1>7, <1>10, <1>12, <1>13, <1>14, StillStep

\* pages do not reach the daemon, or not all
LEMMA PageoutFailsKeeps ==
    ASSUME CacheInv, NEW n \in Nodes, PageoutFails(n)
    PROVE  CacheInv'
<1>1. /\ TypesOk /\ kern \in Caches /\ flight \in [Nodes -> Sizes] /\ VnodesOk /\ fs \in Daemon /\ sync \in BOOLEAN
      /\ tag \in [Nodes -> SUBSET Fates]
  BY DEF CacheInv, CacheTypes, TypesOk, Fates
<1>2. /\ flight[n] > 0 /\ flight' = [flight EXCEPT ![n] = 0] /\ tag' = Tagged(n, {"failed"})
      /\ UNCHANGED <<sync, lock, thr, late, cause>>
  BY DEF PageoutFails
<1>4. flight[n] \in Sizes /\ kern.dirty[n] \in Sizes
  BY <1>1 DEF Caches
<1>5. /\ kern' \in Caches /\ kern'.vn = kern.vn /\ kern'.filesize = kern.filesize /\ kern'.va = kern.va
      /\ kern'.names = kern.names /\ kern'.valid = kern.valid /\ kern'.direct = kern.direct
      /\ \A m \in Nodes \ {n} : kern'.dirty[m] = kern.dirty[m]
  <2>1. CASE UNCHANGED kern
    BY <1>1, <2>1
  <2>2. CASE \E e \in {0, flight[n]} : kern' = [kern EXCEPT !.dirty[n] = Max({@, e})]
    <3>1. PICK e \in {0, flight[n]} : kern' = [kern EXCEPT !.dirty[n] = Max({@, e})]
      BY <2>2
    <3>2. PICK w \in Sizes : w = Max({kern.dirty[n], e})
      BY <1>4, SizesNat, MaxTwo
    <3>3. kern' = [kern EXCEPT !.dirty = [kern.dirty EXCEPT ![n] = w]]
      BY <1>1, <3>1, <3>2 DEF Caches
    <3>4. [kern.dirty EXCEPT ![n] = w] \in [Nodes -> Sizes]
      BY <1>1 DEF Caches
    <3> QED BY <1>1, <3>3, <3>4 DEF Caches
  <2> QED BY <2>1, <2>2 DEF PageoutFails
<1>6. /\ fs' \in Daemon /\ fs'.dir = fs.dir /\ fs'.made = fs.made
      /\ \A m \in Nodes \ {n} : fs'.size[m] = fs.size[m] /\ fs'.ver[m] = fs.ver[m]
  <2>1. CASE UNCHANGED fs
    BY <1>1, <2>1
  <2>2. CASE fs' = Written(fs, n, flight[n])
    <3>1. PICK x \in Sizes, z \in Sizes : x = fs.size[n] /\ z = flight[n]
      BY <1>1, <1>4 DEF Daemon
    <3>2. PICK w \in Sizes : w = Max({x, z})
      BY MaxTwo
    <3> QED BY <1>1, <2>2, <3>1, <3>2, WrittenFacts
  <2> QED BY <2>1, <2>2 DEF PageoutFails
<1>7. flight' \in [Nodes -> Sizes] /\ flight'[n] = 0 /\ \A m \in Nodes \ {n} : flight'[m] = flight[m]
  BY <1>1, <1>2, SizesNat
<1>8. n \in kern.vn
  BY <1>1, <1>2 DEF VnodesOk
<1>9. VnodesOk'
  BY <1>1, <1>2, <1>5, <1>7, <1>8, SizesNat DEF VnodesOk
<1>12. /\ tag' \in [Nodes -> SUBSET Fates] /\ \A m \in Nodes : tag[m] \subseteq tag'[m]
       /\ tag'[n] \cap SizeTags # {} /\ tag'[n] \cap AttrTags # {}
  BY <1>1, <1>2 DEF Tagged, Fates, SizeTags, AttrTags
<1>13. Loose(n)
  BY <1>2, <1>12 DEF Loose, Excused
<1>14. \A m \in Nodes \ {n} : Steady(m)
  BY <1>2, <1>5, <1>6, <1>7, Still
<1>15. ASSUME NEW m \in Nodes PROVE AttrStays(NULL, m) /\ LengthStays(NULL, m) /\ ValidStays(NULL, m)
  <2>1. CASE m # n
    BY <1>5, <1>6, <1>14, <2>1, AttrSame, NodeSame
  <2>2. CASE m = n
    BY <1>5, <1>12, <2>2, NodeSame DEF AttrStays
  <2> QED BY <2>1, <2>2
<1>16. /\ \A a \in Names : kern'.names[a] \in {kern.names[a], "miss"}
       /\ \A m \in Nodes : Steady(m) \/ Loose(m) \/ Locked(NULL, m) \/ m \notin kern'.vn
       /\ kern.direct \cap kern'.vn \subseteq kern'.direct /\ sync' \in BOOLEAN /\ (sync => sync')
       /\ \A m \in Nodes : fs'.ver[m] = fs.ver[m] \/ tag'[m] \cap AttrTags # {} \/ ~Outdates(m)
  BY <1>1, <1>2, <1>5, <1>6, <1>12, <1>13, <1>14
<1> QED BY <1>2, <1>5, <1>6, <1>7, <1>9, <1>12, <1>15, <1>16, StillStep

\* a file is opened for direct I/O, and the mount becomes synchronous
LEMMA OpenKeeps ==
    ASSUME CacheInv, NEW n \in Nodes, Open(n)
    PROVE  CacheInv'
<1>1. /\ TypesOk /\ kern \in Caches /\ flight \in [Nodes -> Sizes] /\ VnodesOk /\ fs \in Daemon
      /\ tag \in [Nodes -> SUBSET Fates]
  BY DEF CacheInv, CacheTypes, TypesOk, Fates
<1>2. /\ n \in kern.vn \cap Direct /\ sync' = TRUE /\ kern' = [kern EXCEPT !.direct = @ \cup {n}]
      /\ UNCHANGED <<fs, flight, lock, thr, late, cause, tag>>
  BY DEF Open
<1>3. /\ kern' \in Caches /\ kern'.vn = kern.vn /\ kern'.filesize = kern.filesize /\ kern'.va = kern.va
      /\ kern'.names = kern.names /\ kern'.valid = kern.valid /\ kern'.dirty = kern.dirty
      /\ kern'.direct = kern.direct \cup {n}
  BY <1>1, <1>2 DEF Caches
<1>4. VnodesOk'
  BY <1>1, <1>2, <1>3 DEF VnodesOk
<1>5. \A m \in Nodes : Steady(m)
  BY <1>2, <1>3, Still
<1>6. \A m \in Nodes : AttrStays(NULL, m) /\ LengthStays(NULL, m) /\ ValidStays(NULL, m)
  BY <1>2, <1>3, <1>5, AttrSame, NodeSame
<1>7. /\ \A a \in Names : kern'.names[a] \in {kern.names[a], "miss"}
      /\ \A m \in Nodes : Steady(m) \/ Loose(m) \/ Locked(NULL, m) \/ m \notin kern'.vn
      /\ kern.direct \cap kern'.vn \subseteq kern'.direct /\ sync' \in BOOLEAN /\ (sync => sync')
      /\ \A m \in Nodes : tag[m] \subseteq tag'[m]
  BY <1>2, <1>3, <1>5
<1> QED BY <1>1, <1>2, <1>3, <1>4, <1>6, <1>7, StillStep

\* a vnode nobody uses goes
LEMMA ReclaimKeeps ==
    ASSUME CacheInv, NEW n \in Nodes, Reclaim(n)
    PROVE  CacheInv'
<1>1. /\ CacheTypes /\ TypesOk /\ kern \in Caches /\ flight \in [Nodes -> Sizes] /\ VnodesOk /\ fs \in Daemon
      /\ tag \in [Nodes -> SUBSET Fates] /\ sync \in BOOLEAN
  BY DEF CacheInv, CacheTypes, TypesOk, Fates
<1>2. /\ kern.dirty[n] = 0 /\ flight[n] = 0 /\ \A t \in Threads : n \notin {thr[t].vp, thr[t].vp2}
      /\ kern' = [Purge(Invalidate(kern, {n}), {n}) EXCEPT !.vn = @ \ {n}, !.filesize[n] = 0, !.va[n] = Blank,
                                                           !.direct = @ \ {n}]
      /\ UNCHANGED <<sync, fs, flight, lock, thr, late, cause, tag>>
  BY DEF Reclaim
<1>k. PICK k : k = Invalidate(kern, {n})
  OBVIOUS
<1>3. /\ k \in Caches /\ k.vn = kern.vn /\ k.filesize = kern.filesize /\ k.va = kern.va /\ k.names = kern.names
      /\ k.dirty = kern.dirty /\ k.direct = kern.direct
      /\ \A m \in Nodes : k.valid[m] <=> kern.valid[m] /\ m \notin {n}
  BY <1>1, <1>k, InvalidateFacts
<1>l. PICK k2 : k2 = Purge(k, {n})
  OBVIOUS
<1>4. /\ k2 \in Caches
      /\ k2.vn = k.vn /\ k2.filesize = k.filesize /\ k2.va = k.va /\ k2.valid = k.valid /\ k2.dirty = k.dirty
      /\ k2.direct = k.direct
      /\ \A a \in Names : k2.names[a] = IF k.names[a] \in {n} THEN "miss" ELSE k.names[a]
  BY <1>3, <1>l, PurgeFacts
<1>5. kern' = [k2 EXCEPT !.vn = k2.vn \ {n}, !.filesize = [k2.filesize EXCEPT ![n] = 0],
                         !.va = [k2.va EXCEPT ![n] = Blank], !.direct = k2.direct \ {n}]
  BY <1>2, <1>k, <1>l, <1>4 DEF Caches
<1>6. /\ [k2.filesize EXCEPT ![n] = 0] \in [Nodes -> Sizes] /\ [k2.va EXCEPT ![n] = Blank] \in [Nodes -> Attrs]
      /\ k2.vn \ {n} \in SUBSET Nodes /\ k2.direct \ {n} \in SUBSET Nodes
  BY <1>4, SizesNat, BlankType DEF Caches
<1>7. /\ kern' \in Caches /\ kern'.vn = k2.vn \ {n} /\ kern'.names = k2.names /\ kern'.valid = k2.valid
      /\ kern'.dirty = k2.dirty /\ kern'.direct = k2.direct \ {n}
      /\ \A m \in Nodes \ {n} : kern'.filesize[m] = k2.filesize[m] /\ kern'.va[m] = k2.va[m]
  BY <1>4, <1>5, <1>6 DEF Caches
<1>8. /\ kern'.vn = kern.vn \ {n} /\ kern'.dirty = kern.dirty /\ kern'.direct = kern.direct \ {n}
      /\ \A m \in Nodes : kern'.valid[m] <=> kern.valid[m] /\ m # n
      /\ \A m \in Nodes \ {n} : kern'.filesize[m] = kern.filesize[m] /\ kern'.va[m] = kern.va[m]
      /\ \A a \in Names : kern'.names[a] = IF kern.names[a] = n THEN "miss" ELSE kern.names[a]
  <2>1. \A m \in Nodes : kern'.valid[m] <=> kern.valid[m] /\ m # n
    BY <1>3, <1>4, <1>7
  <2>2. \A a \in Names : kern'.names[a] = IF kern.names[a] = n THEN "miss" ELSE kern.names[a]
    BY <1>3, <1>4, <1>7
  <2>3. \A m \in Nodes \ {n} : kern'.filesize[m] = kern.filesize[m] /\ kern'.va[m] = kern.va[m]
    BY <1>3, <1>4, <1>7
  <2>4. kern'.vn = kern.vn \ {n} /\ kern'.dirty = kern.dirty /\ kern'.direct = kern.direct \ {n}
    BY <1>3, <1>4, <1>7
  <2> QED BY <2>1, <2>2, <2>3, <2>4
<1>9. VnodesOk'
  <2>1. \A a \in Names : kern'.names[a] \in Nodes => kern'.names[a] \in kern'.vn
    BY <1>1, <1>8 DEF VnodesOk
  <2>2. ASSUME NEW m \in Nodes, kern'.valid[m] \/ kern'.dirty[m] > 0 \/ flight'[m] > 0
        PROVE  m \in kern'.vn
    <3>1. CASE kern'.valid[m]
      <4>1. kern.valid[m] /\ m # n
        BY <1>8, <3>1
      <4>2. m \in kern.vn
        BY <1>1, <4>1 DEF VnodesOk
      <4> QED BY <1>8, <4>1, <4>2
    <3>2. CASE kern.dirty[m] > 0 \/ flight[m] > 0
      <4>1. m # n /\ m \in kern.vn
        BY <1>1, <1>2, <3>2 DEF VnodesOk
      <4> QED BY <1>8, <4>1
    <3> QED BY <1>2, <1>8, <2>2, <3>1, <3>2
  <2>3. kern'.direct \subseteq kern'.vn \cap Direct /\ (kern'.direct # {} => sync')
    BY <1>1, <1>2, <1>8 DEF VnodesOk
  <2> QED BY <2>1, <2>2, <2>3 DEF VnodesOk
<1>11. \A u \in Threads : InUse(thr[u])'
  <2> SUFFICES ASSUME NEW u \in Threads PROVE InUse(thr[u])'
    OBVIOUS
  <2>1. InUse(thr[u]) /\ n \notin {thr[u].vp, thr[u].vp2} /\ thr'[u] = thr[u]
    BY <1>1, <1>2 DEF CacheTypes
  <2> QED BY <1>8, <2>1 DEF InUse
<1>12. \A m \in Nodes \ {n} : Steady(m)
  BY <1>2, <1>8, Still
<1>13. \A m \in Nodes : AttrStays(NULL, m) /\ LengthStays(NULL, m) /\ ValidStays(NULL, m)
  BY <1>2, <1>8, <1>12, NoThread DEF AttrStays, LengthStays, ValidStays
<1>14. /\ \A a \in Names : kern'.names[a] \in {kern.names[a], "miss"}
       /\ \A m \in Nodes : Steady(m) \/ Loose(m) \/ Locked(NULL, m) \/ m \notin kern'.vn
       /\ fs' \in Daemon /\ fs'.dir = fs.dir /\ fs'.ver = fs.ver /\ fs'.made = fs.made
       /\ tag' \in [Nodes -> SUBSET Fates] /\ (\A m \in Nodes : tag[m] \subseteq tag'[m]) /\ flight' \in [Nodes -> Sizes]
       /\ kern.direct \cap kern'.vn \subseteq kern'.direct /\ sync' \in BOOLEAN /\ (sync => sync')
  BY <1>1, <1>2, <1>8, <1>12
<1> QED BY <1>2, <1>7, <1>9, <1>11, <1>13, <1>14, StillStep

-----------------------------------------------------------------------------
(* Operations on files *)

\* thread t changes sizes or attributes, and no name is entered
LEMMA FileStep ==
    ASSUME CacheInv, NEW t \in Threads,
           thr' \in [Threads -> Requests], \A u \in Threads \ {t} : thr'[u] = thr[u],
           Formed(thr[t])', InUse(thr[t])',
           lock' \in [Nodes \cup {Dvp} -> Threads \cup {NULL}], \A u \in Threads : LockOk(u)',
           UNCHANGED <<sync, flight, late, cause>>,
           fs' \in Daemon, fs'.dir = fs.dir, fs'.ver = fs.ver, fs'.made = fs.made,
           kern' \in Caches, kern'.vn = kern.vn, tag' \in [Nodes -> SUBSET Fates], VnodesOk', kern'.direct = kern.direct,
           \A a \in Names : kern'.names[a] \in {kern.names[a], "miss"},
           \A n \in Nodes : tag[n] \subseteq tag'[n],
           \A n \in Nodes : Steady(n) \/ Loose(n) \/ Locked(t, n),
           \A n \in Nodes : AttrStays(t, n) /\ LengthStays(t, n) /\ ValidStays(t, n),
           \A a \in Names : NotLeft(t, a),
           CurrentOk(thr[t])', RenameOk(thr[t])', VersionOk(thr[t])', LengthOk(thr[t])'
    PROVE  CacheInv'
<1>1. CacheTypes /\ TypesOk /\ NamesInv /\ AttrInv /\ SizeInv
  BY DEF CacheInv, CacheTypes
<1>2. Others(t)
  BY DEF Others, Like
<1>4. TypesOk'
  BY <1>1 DEF TypesOk, Reasons, Fates
<1>5. Small(fs)'
  BY <1>1 DEF CacheTypes, Small
<1>6. \A r \in late' : r \in late
  OBVIOUS
<1>7. CacheTypes'
  BY <1>1, <1>2, <1>4, <1>5, <1>6, TypesStep
<1>8. NamesInv'
  <2>1. \A a \in Names : Settled(a) \/ (kern'.names[a] = kern.names[a] /\ cause'[a] = cause[a] /\ NotLeft(t, a))
    BY DEF Settled
  <2> QED BY <1>1, <2>1, NamesStep
<1>9. AttrInv'
  <2>1. \A n \in Nodes : fs'.ver[n] = fs.ver[n] \/ tag'[n] \cap AttrTags # {}
                              \/ (t \in Threads /\ Holds(thr'[t], n)) \/ ~Outdates(n)
    OBVIOUS
  <2>2. \A n \in Nodes : AttrStays(t, n)
    OBVIOUS
  <2> QED BY <1>1, <1>2, <1>7, <2>1, <2>2, AttrStep
<1>10. SizeInv'
  <2>1. \A n \in Nodes : Steady(n) \/ Loose(n) \/ Locked(t, n) \/ n \notin kern'.vn
    OBVIOUS
  <2>2. \A n \in Nodes : LengthStays(t, n) /\ ValidStays(t, n)
    OBVIOUS
  <2>3. (sync => sync') /\ LengthOk(thr[t])' /\ kern.direct \cap kern'.vn \subseteq kern'.direct
    OBVIOUS
  <2> QED BY <1>1, <1>2, <1>7, <2>1, <2>2, <2>3, LengthStep
<1> QED BY <1>7, <1>8, <1>9, <1>10 DEF CacheInv

\* who owes a file something has its lock
LEMMA FreeFacts ==
    ASSUME CacheTypes, NEW n \in Nodes, lock[n] = NULL, NEW u \in Threads
    PROVE  ~Resizes(thr[u], n) /\ ~Forgets(thr[u], n)
<1>1. thr[u] \in Requests /\ Formed(thr[u])
  BY DEF CacheTypes, TypesOk
<1>2. ~Holds(thr[u], n)
  BY DEF CacheTypes, LockOk
<1>3. Resizes(thr[u], n) \/ Forgets(thr[u], n) =>
        thr[u].op \in FileOps /\ (n = thr[u].vp \/ (n = thr[u].vp2 /\ thr[u].op = "exchange"))
  BY DEF Resizes, Forgets, FileOps
<1> QED BY <1>1, <1>2, <1>3, FileHolds

\* no lock, no name, no other attribute
LEMMA FileFacts ==
    ASSUME CacheTypes, NEW t \in Threads
    PROVE  thr[t].op \in FileOps => \A a \in Names : NotLeft(t, a)
BY DEF NotLeft, Mends, Creates, FileOps

\* A request that xnu makes on behalf of a system call on files.
AskedFile(r) == r \in Requests /\ FileRequest(r) /\ r.nm = NULL /\ r.nm2 = NULL /\ r.ans = Fail

\* it is well-formed when it is sent
LEMMA AskedFacts ==
    ASSUME NEW r, AskedFile(r), NEW q \in Requests, q.pc \in {"sent", "done"}, q.op = r.op, q.stage = r.stage,
           q.nm = r.nm, q.nm2 = r.nm2, q.vp = r.vp, q.vp2 = r.vp2
    PROVE  /\ Formed(q) /\ InUse(q) /\ r.vp \in Nodes /\ r.vp \in Files /\ r.stage = "run" /\ r.op \in FileOps
           /\ Locks(q) = Locks(r) /\ r.vp \in Locks(r)
           /\ r.op = "exchange" => r.vp2 \in Nodes /\ r.vp2 \in Files /\ r.vp2 # r.vp /\ Locks(r) = {r.vp, r.vp2}
<1>1. /\ r \in Requests /\ r.op \in FileOps /\ r.stage = "run" /\ r.vp \in kern.vn \cap Files
      /\ r.nm = NULL /\ r.nm2 = NULL
      /\ IF r.op = "exchange" THEN r.vp2 \in (kern.vn \cap Files) \ {r.vp} ELSE r.vp2 = NULL
  BY DEF AskedFile, FileRequest
<1>2. Formed(q)
  BY <1>1 DEF Formed, FileOps, NameOps
<1>3. InUse(q)
  BY <1>1 DEF InUse
<1> QED BY <1>1, <1>2, <1>3 DEF Locks, FileOps, Nodes

\* an operation on a file sends its request
LEMMA FileRunKeeps ==
    ASSUME CacheInv, NEW t \in Threads, thr[t] = IdleThread, NEW r, AskedFile(r),
           r.op \in {"getattr", "chmod", "truncate"} \/ (r.op = "write" /\ ~Cached(r.vp)),
           Acquire(t, Locks(r)), thr' = [thr EXCEPT ![t] = Sent(r)],
           UNCHANGED <<sync, fs, kern, flight, late, cause, tag>>
    PROVE  CacheInv'
<1>1. kern \in Caches /\ r \in Requests
  BY DEF CacheInv, CacheTypes, TypesOk, AskedFile
<1>2. thr[t].pc \notin {"sent", "done"}
  BY IdleFacts
<1>3. PICK q : q = Sent(r)
  OBVIOUS
<1>4. /\ q \in Requests /\ q.pc \in {"sent", "done"} /\ q.op = r.op /\ q.stage = r.stage
      /\ q.nm = r.nm /\ q.nm2 = r.nm2 /\ q.vp = r.vp /\ q.vp2 = r.vp2
  BY <1>1, <1>3, SentFacts
<1>5. Formed(q) /\ InUse(q) /\ r.vp \in Files
  BY <1>4, AskedFacts
<1>6. InUse(r) /\ Formed(Sent(r))
  BY <1>3, <1>4, <1>5 DEF InUse
<1>7. r.op # "exchange" /\ (r.op = "write" => r.vp \notin Plain)
  BY DEF Cached, Plain
<1>8. r.op # "rename"
  OBVIOUS
<1> QED BY <1>1, <1>2, <1>6, <1>7, <1>8, SendStep

\* a cached write begins
LEMMA WriteRunKeeps ==
    ASSUME CacheInv, NEW t \in Threads, thr[t] = IdleThread, NEW r, AskedFile(r), r.op = "write", Cached(r.vp),
           Acquire(t, Locks(r)), kern' = [kern EXCEPT !.filesize[r.vp] = Max({@, r.end})],
           NEW q \in Requests, (q.pc = "sent" /\ sync) \/ (q.pc = "done" /\ ~sync),
           q.op = r.op, q.stage = r.stage, q.nm = r.nm, q.nm2 = r.nm2, q.vp = r.vp, q.vp2 = r.vp2,
           q.size = kern.filesize[r.vp], q.iosync = sync,
           thr' = [thr EXCEPT ![t] = q],
           UNCHANGED <<sync, fs, flight, late, cause, tag>>
    PROVE  CacheInv'
<1>1. /\ CacheTypes /\ TypesOk /\ kern \in Caches /\ r \in Requests /\ fs \in Daemon /\ flight \in [Nodes -> Sizes]
      /\ VnodesOk /\ \A n \in Nodes : LengthsOk(n)
  BY DEF CacheInv, CacheTypes, TypesOk, AskedFile, SizeInv
<1>2. thr[t].pc = "idle" /\ thr[t].pc \notin {"sent", "done"}
  BY IdleFacts
<1>3. q.pc \in {"sent", "done"}
  OBVIOUS
<1>4. /\ Formed(q) /\ InUse(q) /\ r.vp \in Nodes /\ r.vp \in Files /\ r.stage = "run" /\ r.op \in FileOps
      /\ Locks(q) = Locks(r) /\ r.vp \in Locks(r)
  BY <1>3, AskedFacts
<1>5. PICK w \in Sizes : w = Max({kern.filesize[r.vp], r.end})
  <2>1. kern.filesize[r.vp] \in Sizes /\ r.end \in Sizes
    BY <1>1, <1>4 DEF Caches, Requests
  <2> QED BY <2>1, MaxTwo
<1>6. /\ kern' \in Caches /\ kern'.vn = kern.vn /\ kern'.names = kern.names /\ kern'.va = kern.va
      /\ kern'.valid = kern.valid /\ kern'.dirty = kern.dirty /\ kern'.direct = kern.direct
      /\ \A m \in Nodes \ {r.vp} : kern'.filesize[m] = kern.filesize[m]
  <2>1. kern' = [kern EXCEPT !.filesize = [kern.filesize EXCEPT ![r.vp] = w]]
    BY <1>1, <1>4, <1>5 DEF Caches
  <2>2. [kern.filesize EXCEPT ![r.vp] = w] \in [Nodes -> Sizes]
    BY <1>1 DEF Caches
  <2> QED BY <1>1, <2>1, <2>2 DEF Caches
<1>7. /\ thr' \in [Threads -> Requests] /\ thr'[t] = q /\ Others(t)
      /\ \A u \in Threads \ {t} : thr'[u] = thr[u]
  BY <1>1, Turn DEF TypesOk
<1>8. PICK L : L = Locks(r)
  OBVIOUS
<1>9. L = Locks(thr'[t]) /\ Acquire(t, L) /\ thr'[t].pc \in {"sent", "done"}
  BY <1>3, <1>4, <1>7, <1>8
<1>10. /\ lock' \in [Nodes \cup {Dvp} -> Threads \cup {NULL}]
       /\ \A u \in Threads : LockOk(u)'
  BY <1>1, <1>2, <1>7, <1>9, LocksTaken
<1>11. lock[r.vp] = NULL /\ lock'[r.vp] = t
  BY <1>1, <1>4 DEF Acquire, TypesOk
<1>12. Formed(thr[t])' /\ InUse(thr[t])'
  BY <1>4, <1>6, <1>7 DEF InUse, Formed
<1>13. (\A n \in Nodes : Duties(t, n)) /\ (\A a \in Names : NotLeft(t, a))
  BY <1>1, <1>2, NoDuties
<1>14. VnodesOk'
  BY <1>1, <1>6 DEF VnodesOk
<1>15. \A n \in Nodes \ {r.vp} : Steady(n)
  BY <1>6, Still
<1>16. Locked(t, r.vp)
  BY <1>11 DEF Locked
<1>17. thr[t].op = "none"
  BY IdleFacts
<1>18. Resizes(thr'[t], r.vp) /\ Forgets(thr'[t], r.vp)
  BY <1>7 DEF Resizes, Forgets
<1>19. \A n \in Nodes : AttrStays(t, n) /\ LengthStays(t, n) /\ ValidStays(t, n)
  <2>1. \A n \in Nodes : ~Renews(thr[t], n) /\ ~Resizes(thr[t], n) /\ ~Forgets(thr[t], n)
    BY <1>17 DEF Renews, Resizes, Forgets
  <2>2. \A n \in Nodes : AttrStays(t, n)
    BY <1>6, <2>1 DEF AttrStays
  <2>3. \A n \in Nodes : LengthStays(t, n)
    BY <1>6, <1>15, <1>18, <2>1 DEF LengthStays
  <2>4. \A n \in Nodes : ValidStays(t, n)
    BY <1>6, <1>18, <2>1 DEF ValidStays
  <2> QED BY <2>2, <2>3, <2>4
<1>20. CurrentOk(thr[t])' /\ RenameOk(thr[t])' /\ VersionOk(thr[t])'
  BY <1>4, <1>7 DEF CurrentOk, RenameOk, VersionOk
<1>21. LengthOk(thr[t])'
  <2>1. r.vp \in Plain /\ r.vp \in kern.vn
    BY <1>4 DEF Cached, Plain, InUse
  <2>2. kern.filesize[r.vp] = Due(r.vp) \/ Excused(r.vp)
    BY <1>1, <1>4, <1>11, <2>1, FreeFacts DEF LengthsOk
  <2>3. Due(r.vp)' = Due(r.vp) /\ Excused(r.vp)' = Excused(r.vp)
    BY <1>6 DEF Due, Excused
  <2> QED BY <1>6, <1>7, <2>2, <2>3 DEF LengthOk, Answered, Plain
<1>22. /\ fs' \in Daemon /\ fs'.dir = fs.dir /\ fs'.ver = fs.ver /\ fs'.made = fs.made
       /\ tag' \in [Nodes -> SUBSET Fates] /\ \A n \in Nodes : tag[n] \subseteq tag'[n]
  BY <1>1 DEF TypesOk, Fates
<1>23. /\ \A n \in Nodes : Steady(n) \/ Loose(n) \/ Locked(t, n)
       /\ \A a \in Names : kern'.names[a] \in {kern.names[a], "miss"}
  BY <1>6, <1>15, <1>16
<1> QED BY <1>6, <1>7, <1>10, <1>12, <1>13, <1>14, <1>19, <1>20, <1>21, <1>22, <1>23, FileStep

\* an exchange begins when the pages of both files have been written
LEMMA ExchangeRunKeeps ==
    ASSUME CacheInv, NEW t \in Threads, thr[t] = IdleThread, NEW r, AskedFile(r), r.op = "exchange",
           Acquire(t, Locks(r)), Clean(r.vp), Clean(r.vp2), thr' = [thr EXCEPT ![t] = Sent(r)],
           UNCHANGED <<sync, fs, kern, flight, late, cause, tag>>
    PROVE  CacheInv'
<1>1. CacheTypes /\ TypesOk /\ kern \in Caches /\ r \in Requests
  BY DEF CacheInv, CacheTypes, TypesOk, AskedFile
<1>2. thr[t].pc \notin {"sent", "done"} /\ thr[t].op = "none"
  BY IdleFacts
<1>a. PICK q : q = Sent(r)
  OBVIOUS
<1>3. /\ q \in Requests /\ q.pc \in {"sent", "done"} /\ q.op = r.op /\ q.stage = r.stage
      /\ q.nm = r.nm /\ q.nm2 = r.nm2 /\ q.vp = r.vp /\ q.vp2 = r.vp2 /\ q.pc = "sent"
  BY <1>1, <1>a, SentFacts
<1>4. Formed(q) /\ InUse(q) /\ Locks(q) = Locks(r)
  BY <1>3, AskedFacts
<1>5. /\ thr' \in [Threads -> Requests] /\ thr'[t] = q /\ Others(t)
      /\ \A u \in Threads \ {t} : thr'[u] = thr[u]
  <2>1. thr' = [thr EXCEPT ![t] = q]
    BY <1>a
  <2> QED BY <1>1, <1>3, <2>1, Turn DEF TypesOk
<1>6. PICK L : L = Locks(r)
  OBVIOUS
<1>7. L = Locks(thr'[t]) /\ Acquire(t, L) /\ thr'[t].pc \in {"sent", "done"}
  BY <1>3, <1>4, <1>5, <1>6
<1>8. /\ lock' \in [Nodes \cup {Dvp} -> Threads \cup {NULL}]
      /\ \A u \in Threads : LockOk(u)'
  BY <1>1, <1>2, <1>5, <1>7, LocksTaken
<1>9. Formed(thr[t])' /\ InUse(thr[t])'
  BY <1>4, <1>5 DEF InUse, Formed
<1>10. (\A n \in Nodes : Duties(t, n)) /\ (\A a \in Names : NotLeft(t, a))
  BY <1>1, <1>2, NoDuties
<1>11. CurrentOk(thr[t])' /\ RenameOk(thr[t])' /\ VersionOk(thr[t])'
  BY <1>3, <1>5 DEF CurrentOk, RenameOk, VersionOk, Answered
<1>12. LengthOk(thr[t])'
  BY <1>3, <1>5 DEF LengthOk, Answered, Clean
<1>13. \A r0 \in late' : r0 \in late
  OBVIOUS
<1> QED BY <1>1, <1>5, <1>8, <1>9, <1>10, <1>11, <1>12, <1>13, CalmStep DEF TypesOk, Reasons, Fates

\* attributes that are still valid are used
LEMMA GetattrHitKeeps ==
    ASSUME CacheInv, NEW t \in Threads, thr[t] = IdleThread, NEW r, AskedFile(r), GetattrHit(t, r)
    PROVE  CacheInv'
<1>1. /\ CacheTypes /\ TypesOk /\ kern \in Caches /\ r \in Requests /\ fs \in Daemon /\ flight \in [Nodes -> Sizes]
      /\ VnodesOk /\ \A n \in Nodes : LengthsOk(n) /\ ValidOk(n)
  BY DEF CacheInv, CacheTypes, TypesOk, AskedFile, SizeInv
<1>2. r.vp \in Nodes /\ r.vp \in kern.vn
  BY DEF AskedFile, FileRequest, Nodes
<1>3. /\ kern.valid[r.vp] /\ lock[r.vp] = NULL /\ kern' = LoadVap(kern, r.vp) /\ LoadVapReady(kern, r.vp)
      /\ thr' = [thr EXCEPT ![t] = IdleThread] /\ UNCHANGED <<sync, fs, flight, lock, late, cause, tag>>
  BY DEF GetattrHit
<1>4. /\ kern' \in Caches /\ kern'.vn = kern.vn /\ kern'.names = kern.names
      /\ kern'.dirty = kern.dirty /\ kern'.valid = kern.valid /\ kern'.direct = kern.direct
      /\ \A m \in Nodes \ {r.vp} : kern'.va[m] = kern.va[m] /\ kern'.filesize[m] = kern.filesize[m]
      /\ kern'.va[r.vp].ver = kern.va[r.vp].ver /\ kern'.va[r.vp].size = kern'.filesize[r.vp]
      /\ sync => kern'.filesize[r.vp] = kern.va[r.vp].size /\ kern'.va[r.vp] = kern.va[r.vp]
      /\ ~sync => kern'.filesize = kern.filesize
  BY <1>1, <1>2, <1>3, LoadVapFacts DEF TypesOk
<1>5. /\ thr' \in [Threads -> Requests] /\ thr'[t] = IdleThread /\ Others(t)
      /\ \A u \in Threads \ {t} : thr'[u] = thr[u]
  BY <1>1, <1>3, IdleFacts, Turn DEF TypesOk
<1>6. thr[t].pc = "idle" /\ thr'[t].pc = "idle" /\ thr[t].op = "none" /\ thr'[t].op = "none"
  BY <1>5, IdleFacts
<1>7. \A x \in Nodes \cup {Dvp} : Holds(thr[t], x)' <=> Holds(thr[t], x)
  BY <1>6 DEF Holds
<1>8. /\ lock' \in [Nodes \cup {Dvp} -> Threads \cup {NULL}]
      /\ \A u \in Threads : LockOk(u)'
  BY <1>1, <1>3, <1>5, <1>7, LocksKept
<1>9. Formed(thr[t])' /\ InUse(thr[t])'
  BY <1>5, IdleFacts DEF InUse, Formed
<1>10. \A a \in Names : NotLeft(t, a)
  BY <1>1, <1>6, NoDuties
<1>11. VnodesOk'
  BY <1>1, <1>3, <1>4 DEF VnodesOk
<1>12. \A n \in Nodes : ~Renews(thr[t], n) /\ ~Resizes(thr[t], n) /\ ~Forgets(thr[t], n)
  BY <1>6 DEF Renews, Resizes, Forgets
<1>13. \A n \in Nodes : AttrStays(t, n)
  BY <1>3, <1>4, <1>12 DEF AttrStays
<1>14. ASSUME NEW n \in Nodes PROVE Steady(n) \/ Loose(n)
  <2>1. CASE n # r.vp \/ kern'.filesize[n] = kern.filesize[n] \/ n \notin Plain
    BY <1>3, <1>4, <2>1, Still
  <2>2. CASE n = r.vp /\ kern'.filesize[n] # kern.filesize[n] /\ n \in Plain
    <3>0. sync /\ kern'.filesize[n] = kern.va[n].size /\ Clean(n)
      BY <1>3, <1>4, <2>2 DEF LoadVapReady
    <3>1. kern.va[n].size = fs.size[n] \/ Excused(n)
      BY <1>1, <1>2, <1>3, <2>2, <3>0, FreeFacts DEF ValidOk, Paged, Excused
    <3>2. kern.filesize[n] = Due(n) \/ Excused(n)
      BY <1>1, <1>2, <1>3, <2>2, FreeFacts DEF LengthsOk
    <3>3. fs.size[n] \in Sizes /\ kern.dirty[n] = 0 /\ flight[n] = 0
      BY <1>1, <3>0 DEF Daemon, Clean
    <3>4. Due(n) = fs.size[n]
      BY <3>3, MaxThree, SizesNat DEF Due
    <3>5. Excused(n)
      BY <2>2, <3>0, <3>1, <3>2, <3>4
    <3> QED BY <1>3, <1>4, <3>5 DEF Loose, Excused
  <2> QED BY <2>1, <2>2
<1>15. \A n \in Nodes : LengthStays(t, n)
  BY <1>4, <1>12, <1>14 DEF LengthStays, Loose
<1>16. ASSUME NEW n \in Nodes PROVE ValidStays(t, n)
  <2>1. CASE n = r.vp
    BY <1>4, <2>1 DEF ValidStays
  <2>2. CASE n # r.vp
    BY <1>3, <1>4, <1>12, <2>2 DEF ValidStays
  <2> QED BY <2>1, <2>2
<1>17. CurrentOk(thr[t])' /\ RenameOk(thr[t])' /\ VersionOk(thr[t])' /\ LengthOk(thr[t])'
  <2>1. ~Answered(thr'[t])
    BY <1>6 DEF Answered
  <2> QED BY <1>6, <2>1, Unanswered DEF RenameOk
<1>18. tag' \in [Nodes -> SUBSET Fates] /\ \A n \in Nodes : tag[n] \subseteq tag'[n]
  BY <1>1, <1>3 DEF TypesOk, Fates
<1>19. /\ \A n \in Nodes : Steady(n) \/ Loose(n) \/ Locked(t, n)
       /\ \A a \in Names : kern'.names[a] \in {kern.names[a], "miss"}
       /\ fs' \in Daemon /\ fs'.dir = fs.dir /\ fs'.ver = fs.ver /\ fs'.made = fs.made
  BY <1>1, <1>3, <1>4, <1>14
<1> QED BY <1>3, <1>4, <1>5, <1>8, <1>9, <1>10, <1>11, <1>13, <1>15, <1>16, <1>17, <1>18, <1>19, FileStep

\* an operation on files that has succeeded ends
LEMMA FileEnds ==
    ASSUME CacheInv, NEW t \in Threads, thr[t].op \in FileOps, thr' = [thr EXCEPT ![t] = IdleThread], Release(t),
           UNCHANGED <<sync, fs, flight, late, cause>>,
           kern' \in Caches, kern'.vn = kern.vn, tag' \in [Nodes -> SUBSET Fates], VnodesOk', kern'.direct = kern.direct,
           \A a \in Names : kern'.names[a] \in {kern.names[a], "miss"},
           \A n \in Nodes : tag[n] \subseteq tag'[n],
           \A n \in Nodes : Steady(n) \/ Loose(n) \/ Locked(t, n),
           \A n \in Nodes : AttrStays(t, n) /\ LengthStays(t, n) /\ ValidStays(t, n)
    PROVE  CacheInv'
<1>1. CacheTypes /\ fs \in Daemon
  BY DEF CacheInv, CacheTypes, TypesOk
<1>2. /\ thr' \in [Threads -> Requests]
      /\ \A u \in Threads \ {t} : thr'[u] = thr[u]
      /\ lock' \in [Nodes \cup {Dvp} -> Threads \cup {NULL}] /\ \A u \in Threads : LockOk(u)'
      /\ Formed(thr[t])' /\ InUse(thr[t])'
      /\ CurrentOk(thr[t])' /\ RenameOk(thr[t])' /\ VersionOk(thr[t])' /\ LengthOk(thr[t])'
  BY <1>1, EndFacts
<1>3. \A a \in Names : NotLeft(t, a)
  BY <1>1, FileFacts
<1>4. fs' \in Daemon /\ fs'.dir = fs.dir /\ fs'.ver = fs.ver /\ fs'.made = fs.made
  BY <1>1
<1> QED BY <1>2, <1>3, <1>4, FileStep

\* the locks of the operation that ends
LEMMA EndLocked ==
    ASSUME CacheTypes, NEW t \in Threads, thr[t].op \in FileOps
    PROVE  /\ Locked(t, thr[t].vp) /\ thr[t].vp \in Nodes /\ thr[t].vp \in kern.vn
           /\ thr[t].op = "exchange" => /\ Locked(t, thr[t].vp2) /\ thr[t].vp2 \in Nodes /\ thr[t].vp2 \in kern.vn
                                        /\ thr[t].vp2 # thr[t].vp
<1>1. PICK r \in Requests : r = thr[t]
  BY DEF CacheTypes, TypesOk
<1>2. Formed(r) /\ InUse(r) /\ LockOk(t)
  BY <1>1 DEF CacheTypes
<1>3. /\ Holds(r, r.vp) /\ r.vp \in Nodes
      /\ r.op = "exchange" => Holds(r, r.vp2) /\ r.vp2 \in Nodes
  BY <1>1, <1>2, FileHolds
<1>4. r.op = "exchange" => r.vp2 # r.vp
  BY <1>2 DEF Formed
<1> QED BY <1>1, <1>2, <1>3, <1>4 DEF LockOk, Locked, InUse

\* fuse_vnop_getattr and fuse_vnop_setattr of the mode: the answer is cached
LEMMA AttrEndKeeps ==
    ASSUME CacheInv, NEW t \in Threads, NEW r, r = thr[t], r.pc = "done", r.ans.ok, r.op \in {"getattr", "chmod"},
           kern' \in Caches, kern'.vn = kern.vn, kern'.names = kern.names, kern'.dirty = kern.dirty,
           kern'.direct = kern.direct,
           \A m \in Nodes \ {r.vp} : /\ kern'.valid[m] = kern.valid[m] /\ kern'.va[m] = kern.va[m]
                                     /\ m \notin kern.direct => kern'.filesize[m] = kern.filesize[m],
           kern'.va[r.vp].ver = r.ans.ver, sync => kern'.va[r.vp].size = r.ans.size,
           ~sync /\ r.vp \notin kern.direct => kern'.va[r.vp].size = kern'.filesize[r.vp],
           r.vp \notin kern.direct => \/ kern'.filesize[r.vp] = kern.filesize[r.vp]
                                      \/ sync /\ kern'.filesize[r.vp] = r.ans.size /\ Clean(r.vp),
           thr' = [thr EXCEPT ![t] = IdleThread], Release(t), UNCHANGED <<sync, fs, flight, late, cause, tag>>
    PROVE  CacheInv'
<1>1. /\ CacheTypes /\ TypesOk /\ kern \in Caches /\ fs \in Daemon /\ flight \in [Nodes -> Sizes]
      /\ VnodesOk /\ r.op \in FileOps /\ LengthOk(r) /\ VersionOk(r)
  BY DEF CacheInv, CacheTypes, TypesOk, SizeInv, AttrInv, FileOps
<1>2. Locked(t, r.vp) /\ r.vp \in Nodes /\ r.vp \in kern.vn
  BY <1>1, EndLocked
<1>3. Answered(r)
  BY DEF Answered
<1>4. VnodesOk'
  <2>1. \A a \in Names : kern'.names[a] \in Nodes => kern'.names[a] \in kern'.vn
    BY <1>1 DEF VnodesOk
  <2>2. ASSUME NEW m \in Nodes, kern'.valid[m] PROVE m \in kern'.vn
    BY <1>1, <1>2, <2>2 DEF VnodesOk
  <2>3. ASSUME NEW m \in Nodes, kern'.dirty[m] > 0 \/ flight'[m] > 0 PROVE m \in kern'.vn
    BY <1>1, <2>3 DEF VnodesOk
  <2>4. kern'.direct \subseteq kern'.vn \cap Direct /\ (kern'.direct # {} => sync')
    BY <1>1 DEF VnodesOk
  <2> QED BY <2>1, <2>2, <2>3, <2>4 DEF VnodesOk
<1>6. \A m \in Nodes \ {r.vp} : Steady(m)
  BY Still DEF Plain
<1>7. \A n \in Nodes : ~Renews(thr[t], n) \/ n = r.vp
  BY DEF Renews
<1>8. \A n \in Nodes : ~Resizes(thr[t], n) /\ ~Forgets(thr[t], n)
  BY DEF Resizes, Forgets
<1>9. ASSUME NEW n \in Nodes PROVE AttrStays(t, n)
  <2>1. CASE n # r.vp
    BY <1>7, <2>1 DEF AttrStays
  <2>2. CASE n = r.vp
    BY <1>1, <1>3, <2>2 DEF AttrStays, VersionOk, Marked
  <2> QED BY <2>1, <2>2
<1>5. r.ans.size = fs.size[r.vp] \/ Paged(r.vp)
  BY <1>1, <1>3 DEF LengthOk
<1>10. Clean(r.vp) => Due(r.vp) = fs.size[r.vp]
  <2>1. fs.size[r.vp] \in Sizes
    BY <1>1, <1>2 DEF Daemon
  <2> QED BY <2>1, MaxThree, SizesNat DEF Due, Clean
<1>11. ASSUME NEW n \in Nodes PROVE LengthStays(t, n) /\ ValidStays(t, n)
  <2>1. CASE n # r.vp
    BY <1>6, <1>8, <2>1 DEF LengthStays, ValidStays
  <2>2. CASE n = r.vp
    <3>1. ValidStays(t, n)
      BY <1>5, <2>2 DEF ValidStays, Paged
    <3>2. LengthStays(t, n)
      <4>1. CASE kern'.filesize[r.vp] = kern.filesize[r.vp]
        <5>1. Steady(r.vp)
          BY <4>1, Still
        <5> QED BY <1>2, <1>8, <2>2, <5>1 DEF LengthStays
      <4>2. CASE sync /\ kern'.filesize[r.vp] = r.ans.size /\ Clean(r.vp)
        <5>1. Max({fs'.size[r.vp], kern'.dirty[r.vp], flight'[r.vp]}) = Due(r.vp)
          BY DEF Due
        <5> QED BY <1>5, <1>10, <2>2, <4>2, <5>1 DEF LengthStays, Excused, Paged
      <4>3. CASE r.vp \notin Plain
        BY <2>2, <4>3 DEF LengthStays, Plain
      <4> QED BY <2>2, <4>1, <4>2, <4>3 DEF Plain, LengthStays
    <3> QED BY <3>1, <3>2
  <2> QED BY <2>1, <2>2
<1>12. /\ \A n \in Nodes : Steady(n) \/ Loose(n) \/ Locked(t, n)
       /\ \A a \in Names : kern'.names[a] \in {kern.names[a], "miss"}
       /\ tag' \in [Nodes -> SUBSET Fates] /\ \A n \in Nodes : tag[n] \subseteq tag'[n]
  BY <1>1, <1>2, <1>6 DEF TypesOk, Fates
<1> QED BY <1>1, <1>4, <1>9, <1>11, <1>12, FileEnds

\* fuse_vnop_getattr
LEMMA GetattrEndKeeps ==
    ASSUME CacheInv, NEW t \in Threads, NEW r, r = thr[t], r.pc = "done", r.ans.ok, GetattrEnd(r),
           thr' = [thr EXCEPT ![t] = IdleThread], Release(t), UNCHANGED <<sync, fs, flight, late>>
    PROVE  CacheInv'
<1>1. CacheTypes /\ sync \in BOOLEAN /\ kern \in Caches /\ r.op = "getattr" /\ r.ans \in Answers /\ UNCHANGED <<cause, tag>>
  BY DEF CacheInv, CacheTypes, TypesOk, GetattrEnd, Requests
<1>2. r.vp \in Nodes
  BY <1>1, EndLocked DEF FileOps
<1>3. /\ kern' = Fudge(LoadVap(CacheAttrs(kern, r.vp, r.ans), r.vp), r.vp, Fat2Vat(kern, r.vp, r.ans).size)
      /\ LoadVapReady(CacheAttrs(kern, r.vp, r.ans), r.vp)
  BY DEF GetattrEnd
<1>4. PICK s : s = Fat2Vat(kern, r.vp, r.ans).size
  OBVIOUS
<1>5. s \in Sizes
  BY <1>1, <1>2, <1>4 DEF Fat2Vat, Answers, Caches
<1>6. PICK k : k = CacheAttrs(kern, r.vp, r.ans)
  OBVIOUS
<1>7. /\ k \in Caches /\ k.vn = kern.vn /\ k.names = kern.names /\ k.dirty = kern.dirty /\ k.filesize = kern.filesize
      /\ k.direct = kern.direct
      /\ \A m \in Nodes \ {r.vp} : k.va[m] = kern.va[m] /\ k.valid[m] = kern.valid[m]
      /\ k.va[r.vp].ver = r.ans.ver
      /\ sync => k.va[r.vp].size = r.ans.size
  <2>1. PICK a \in Answers, n \in Nodes : a = r.ans /\ n = r.vp
    BY <1>1, <1>2
  <2>2. k = CacheAttrs(kern, n, a)
    BY <1>6, <2>1
  <2>3. /\ k \in Caches /\ k.vn = kern.vn /\ k.names = kern.names /\ k.dirty = kern.dirty /\ k.filesize = kern.filesize
        /\ k.direct = kern.direct
        /\ \A m \in Nodes \ {n} : k.va[m] = kern.va[m] /\ k.valid[m] = kern.valid[m]
        /\ k.va[n].ver = a.ver
        /\ sync => k.va[n].size = a.size
    BY <1>1, <2>2, CacheAttrsFacts
  <2> QED BY <2>1, <2>3
<1>8. PICK l : l = LoadVap(k, r.vp)
  OBVIOUS
<1>9. /\ l \in Caches /\ l.vn = k.vn /\ l.names = k.names /\ l.dirty = k.dirty /\ l.valid = k.valid
      /\ l.direct = k.direct /\ l.va[r.vp].size = l.filesize[r.vp]
      /\ \A m \in Nodes \ {r.vp} : l.va[m] = k.va[m] /\ l.filesize[m] = k.filesize[m]
      /\ l.va[r.vp].ver = k.va[r.vp].ver
      /\ sync => l.filesize[r.vp] = k.va[r.vp].size /\ l.va[r.vp] = k.va[r.vp]
      /\ ~sync => l.filesize = k.filesize
  <2>1. PICK n \in Nodes : n = r.vp
    BY <1>2
  <2>2. l = LoadVap(k, n) /\ k \in Caches /\ sync \in BOOLEAN
    BY <1>1, <1>7, <1>8, <2>1
  <2>3. /\ l \in Caches /\ l.vn = k.vn /\ l.names = k.names /\ l.dirty = k.dirty /\ l.valid = k.valid
        /\ l.direct = k.direct /\ l.va[n].ver = k.va[n].ver
        /\ \A m \in Nodes \ {n} : l.va[m] = k.va[m] /\ l.filesize[m] = k.filesize[m]
        /\ sync => l.filesize[n] = k.va[n].size /\ l.va[n] = k.va[n]
        /\ ~sync => l.filesize = k.filesize /\ l.va[n].size = k.filesize[n]
    BY <2>2, LoadVapFacts
  <2>4. l.va[n].size = l.filesize[n]
    BY <2>2, <2>3
  <2> QED BY <2>1, <2>3, <2>4
<1>10. kern' = Fudge(l, r.vp, s)
  BY <1>3, <1>4, <1>6, <1>8
<1>11. /\ kern' \in Caches /\ kern'.vn = l.vn /\ kern'.names = l.names /\ kern'.dirty = l.dirty
       /\ kern'.valid = l.valid /\ kern'.va = l.va /\ kern'.direct = l.direct
       /\ \A m \in Nodes \ l.direct : kern'.filesize[m] = l.filesize[m]
  BY <1>2, <1>5, <1>9, <1>10, FudgeFacts
<1>12. /\ kern'.vn = kern.vn /\ kern'.names = kern.names /\ kern'.dirty = kern.dirty /\ kern'.direct = kern.direct
  BY <1>7, <1>9, <1>11
<1>13. \A m \in Nodes \ {r.vp} : /\ kern'.valid[m] = kern.valid[m] /\ kern'.va[m] = kern.va[m]
                                 /\ m \notin kern.direct => kern'.filesize[m] = kern.filesize[m]
  BY <1>7, <1>9, <1>11
<1>14. kern'.va[r.vp].ver = r.ans.ver /\ (sync => kern'.va[r.vp].size = r.ans.size)
  BY <1>7, <1>9, <1>11
<1>15. r.vp \notin kern.direct => \/ kern'.filesize[r.vp] = kern.filesize[r.vp]
                                  \/ sync /\ kern'.filesize[r.vp] = r.ans.size /\ Clean(r.vp)
  <2>1. sync /\ k.filesize[r.vp] # k.va[r.vp].size => Clean(r.vp)
    BY <1>3, <1>6 DEF LoadVapReady
  <2> QED BY <1>1, <1>2, <1>7, <1>9, <1>11, <2>1
<1>16. ~sync /\ r.vp \notin kern.direct => kern'.va[r.vp].size = kern'.filesize[r.vp]
  BY <1>2, <1>7, <1>9, <1>11
<1> QED BY <1>1, <1>11, <1>12, <1>13, <1>14, <1>15, <1>16, AttrEndKeeps

\* fuse_vnop_setattr of the mode
LEMMA ChmodEndKeeps ==
    ASSUME CacheInv, NEW t \in Threads, NEW r, r = thr[t], r.pc = "done", r.ans.ok, r.op = "chmod", SetattrEnd(r),
           thr' = [thr EXCEPT ![t] = IdleThread], Release(t), UNCHANGED <<sync, fs, flight, late>>
    PROVE  CacheInv'
<1>1. CacheTypes /\ sync \in BOOLEAN /\ kern \in Caches /\ r.ans \in Answers /\ UNCHANGED <<cause, tag>>
  BY DEF CacheInv, CacheTypes, TypesOk, SetattrEnd, Requests
<1>2. r.vp \in Nodes
  BY <1>1, EndLocked DEF FileOps
<1>3. kern' = CacheAttrs(kern, r.vp, r.ans)
  BY DEF SetattrEnd
<1>4. /\ kern' \in Caches /\ kern'.vn = kern.vn /\ kern'.names = kern.names /\ kern'.dirty = kern.dirty
      /\ kern'.filesize = kern.filesize /\ kern'.direct = kern.direct
      /\ \A m \in Nodes \ {r.vp} : kern'.va[m] = kern.va[m] /\ kern'.valid[m] = kern.valid[m]
      /\ kern'.va[r.vp].ver = r.ans.ver
      /\ sync => kern'.va[r.vp].size = r.ans.size
      /\ ~sync => kern'.va[r.vp].size = kern.filesize[r.vp]
  <2>1. PICK a \in Answers, n \in Nodes : a = r.ans /\ n = r.vp
    BY <1>1, <1>2
  <2>2. kern' = CacheAttrs(kern, n, a)
    BY <1>3, <2>1
  <2>3. /\ kern' \in Caches /\ kern'.vn = kern.vn /\ kern'.names = kern.names /\ kern'.dirty = kern.dirty
        /\ kern'.filesize = kern.filesize /\ kern'.direct = kern.direct
        /\ \A m \in Nodes \ {n} : kern'.va[m] = kern.va[m] /\ kern'.valid[m] = kern.valid[m]
        /\ kern'.va[n].ver = a.ver
        /\ sync => kern'.va[n].size = a.size
        /\ ~sync => kern'.va[n].size = kern.filesize[n]
    BY <1>1, <2>2, CacheAttrsFacts
  <2> QED BY <2>1, <2>3
<1> QED BY <1>1, <1>4, AttrEndKeeps

\* fuse_vnop_setattr of the size, and fuse_vnop_write
LEMMA SizeEndKeeps ==
    ASSUME CacheInv, NEW t \in Threads, NEW r, r = thr[t], r.pc = "done", r.op \in {"truncate", "write"},
           kern' \in Caches, kern'.vn = kern.vn, kern'.names = kern.names, kern'.va = kern.va,
           \A m \in Nodes : kern'.valid[m] <=> kern.valid[m] /\ m \notin {r.vp},
           \A m \in Nodes \ {r.vp} : kern'.dirty[m] = kern.dirty[m] /\ kern'.filesize[m] = kern.filesize[m],
           kern'.direct = kern.direct,
           r.vp \in Plain => \/ kern'.filesize[r.vp] = Max({fs.size[r.vp], kern'.dirty[r.vp], flight[r.vp]})
                             \/ Excused(r.vp),
           thr' = [thr EXCEPT ![t] = IdleThread], Release(t), UNCHANGED <<sync, fs, flight, late, cause, tag>>
    PROVE  CacheInv'
<1>1. /\ CacheTypes /\ TypesOk /\ kern \in Caches /\ fs \in Daemon /\ flight \in [Nodes -> Sizes]
      /\ VnodesOk /\ r.op \in FileOps
  BY DEF CacheInv, CacheTypes, TypesOk, SizeInv, FileOps
<1>2. Locked(t, r.vp) /\ r.vp \in Nodes /\ r.vp \in kern.vn
  BY <1>1, EndLocked
<1>3. VnodesOk'
  <2>1. \A a \in Names : kern'.names[a] \in Nodes => kern'.names[a] \in kern'.vn
    BY <1>1 DEF VnodesOk
  <2>2. ASSUME NEW m \in Nodes, kern'.valid[m] PROVE m \in kern'.vn
    BY <1>1, <2>2 DEF VnodesOk
  <2>3. ASSUME NEW m \in Nodes, kern'.dirty[m] > 0 \/ flight'[m] > 0 PROVE m \in kern'.vn
    BY <1>1, <1>2, <2>3 DEF VnodesOk
  <2>4. kern'.direct \subseteq kern'.vn \cap Direct /\ (kern'.direct # {} => sync')
    BY <1>1 DEF VnodesOk
  <2> QED BY <2>1, <2>2, <2>3, <2>4 DEF VnodesOk
<1>5. \A m \in Nodes \ {r.vp} : Steady(m)
  BY Still
<1>6. \A n \in Nodes : n # r.vp => ~Renews(thr[t], n) /\ ~Resizes(thr[t], n) /\ ~Forgets(thr[t], n)
  BY DEF Renews, Resizes, Forgets
<1>7. \A n \in Nodes : AttrStays(t, n)
  BY <1>6 DEF AttrStays
<1>8. ASSUME NEW n \in Nodes PROVE LengthStays(t, n) /\ ValidStays(t, n)
  <2>1. CASE n # r.vp
    BY <1>5, <1>6, <2>1 DEF LengthStays, ValidStays
  <2>2. CASE n = r.vp
    BY <2>2 DEF LengthStays, ValidStays, Excused, Plain
  <2> QED BY <2>1, <2>2
<1>9. /\ \A n \in Nodes : Steady(n) \/ Loose(n) \/ Locked(t, n)
      /\ \A a \in Names : kern'.names[a] \in {kern.names[a], "miss"}
      /\ tag' \in [Nodes -> SUBSET Fates] /\ \A n \in Nodes : tag[n] \subseteq tag'[n]
  BY <1>1, <1>2, <1>5 DEF TypesOk, Fates
<1> QED BY <1>1, <1>3, <1>7, <1>8, <1>9, FileEnds

\* fuse_vnop_setattr of the size
LEMMA TruncateEndKeeps ==
    ASSUME CacheInv, NEW t \in Threads, NEW r, r = thr[t], r.pc = "done", r.ans.ok, r.op = "truncate", SetattrEnd(r),
           thr' = [thr EXCEPT ![t] = IdleThread], Release(t), UNCHANGED <<sync, fs, flight, late>>
    PROVE  CacheInv'
<1>1. /\ CacheTypes /\ TypesOk /\ kern \in Caches /\ fs \in Daemon /\ flight \in [Nodes -> Sizes]
      /\ r \in Requests /\ LengthOk(r) /\ UNCHANGED <<cause, tag>>
  BY DEF CacheInv, CacheTypes, TypesOk, SizeInv, SetattrEnd
<1>2. r.vp \in Nodes
  BY <1>1, EndLocked DEF FileOps
<1>3. flight[r.vp] = 0 /\ kern' = [Invalidate(kern, {r.vp}) EXCEPT !.filesize[r.vp] = r.end,
                                                                  !.dirty[r.vp] = Min({@, r.end})]
  BY DEF SetattrEnd
<1>4. PICK k : k = Invalidate(kern, {r.vp})
  OBVIOUS
<1>5. /\ k \in Caches /\ k.vn = kern.vn /\ k.filesize = kern.filesize /\ k.va = kern.va /\ k.names = kern.names
      /\ k.dirty = kern.dirty /\ k.direct = kern.direct /\ \A m \in Nodes : k.valid[m] <=> kern.valid[m] /\ m \notin {r.vp}
  BY <1>1, <1>4, InvalidateFacts
<1>6. PICK e \in Sizes, y \in Sizes, x \in Sizes : e = r.end /\ y = kern.dirty[r.vp] /\ x = fs.size[r.vp]
  BY <1>1, <1>2 DEF Caches, Daemon, Requests
<1>7. PICK w \in Sizes : w = Min({y, e})
  BY MinTwo
<1>8. kern' = [k EXCEPT !.filesize = [k.filesize EXCEPT ![r.vp] = e], !.dirty = [k.dirty EXCEPT ![r.vp] = w]]
  BY <1>2, <1>3, <1>4, <1>5, <1>6, <1>7 DEF Caches
<1>9. [k.filesize EXCEPT ![r.vp] = e] \in [Nodes -> Sizes] /\ [k.dirty EXCEPT ![r.vp] = w] \in [Nodes -> Sizes]
  BY <1>5 DEF Caches
<1>10. /\ kern' \in Caches /\ kern'.vn = k.vn /\ kern'.names = k.names /\ kern'.va = k.va /\ kern'.valid = k.valid /\ kern'.direct = k.direct
       /\ kern'.filesize[r.vp] = e /\ kern'.dirty[r.vp] = w
       /\ \A m \in Nodes \ {r.vp} : kern'.dirty[m] = k.dirty[m] /\ kern'.filesize[m] = k.filesize[m]
  BY <1>2, <1>5, <1>8, <1>9 DEF Caches
<1>11. /\ kern'.vn = kern.vn /\ kern'.names = kern.names /\ kern'.va = kern.va /\ kern'.direct = kern.direct
       /\ \A m \in Nodes : kern'.valid[m] <=> kern.valid[m] /\ m \notin {r.vp}
       /\ \A m \in Nodes \ {r.vp} : kern'.dirty[m] = kern.dirty[m] /\ kern'.filesize[m] = kern.filesize[m]
  BY <1>5, <1>10
<1>13. x = e => Max({x, w, 0}) = e
  BY <1>7, MinTwo, MaxThree, SizesNat
<1>14. x = e \/ Excused(r.vp)
  BY <1>1, <1>6 DEF LengthOk, Answered
<1>15. \/ kern'.filesize[r.vp] = Max({fs.size[r.vp], kern'.dirty[r.vp], flight[r.vp]})
       \/ Excused(r.vp)
  BY <1>3, <1>6, <1>10, <1>13, <1>14
<1> QED BY <1>1, <1>10, <1>11, <1>15, SizeEndKeeps

\* fuse_vnop_write
LEMMA WriteEnds ==
    ASSUME CacheInv, NEW t \in Threads, NEW r, r = thr[t], r.pc = "done", r.ans.ok, WriteEnd(r),
           thr' = [thr EXCEPT ![t] = IdleThread], Release(t), UNCHANGED <<sync, fs, flight, late>>
    PROVE  CacheInv'
<1>1. /\ CacheTypes /\ TypesOk /\ kern \in Caches /\ fs \in Daemon /\ flight \in [Nodes -> Sizes] /\ sync \in BOOLEAN
      /\ r \in Requests /\ LengthOk(r) /\ r.op = "write" /\ UNCHANGED <<cause, tag>>
  BY DEF CacheInv, CacheTypes, TypesOk, SizeInv, WriteEnd
<1>2. r.vp \in Nodes /\ r.vp \in Files
  <2>1. Formed(r)
    BY <1>1 DEF CacheTypes
  <2> QED BY <1>1, <2>1 DEF Formed, FileOps, Nodes
<1>4. PICK k : k = Invalidate(kern, {r.vp})
  OBVIOUS
<1>5. /\ k \in Caches /\ k.vn = kern.vn /\ k.filesize = kern.filesize /\ k.va = kern.va /\ k.names = kern.names
      /\ k.dirty = kern.dirty /\ k.direct = kern.direct /\ \A m \in Nodes : k.valid[m] <=> kern.valid[m] /\ m \notin {r.vp}
  BY <1>1, <1>4, InvalidateFacts
<1>6. CASE r.vp \in kern.direct
  <2>1. kern' = k
    BY <1>4, <1>6 DEF WriteEnd, Cached
  <2>3. r.vp \notin Plain
    BY <1>6 DEF Plain
  <2>4. \A m \in Nodes \ {r.vp} : kern'.dirty[m] = kern.dirty[m] /\ kern'.filesize[m] = kern.filesize[m]
    BY <1>5, <2>1
  <2> QED BY <1>1, <1>5, <2>1, <2>3, <2>4, SizeEndKeeps
<1>7. CASE r.vp \notin kern.direct
  <2>1. kern' = [Invalidate(kern, {r.vp}) EXCEPT !.filesize[r.vp] = Max({r.size, r.end}),
                                                 !.dirty[r.vp] = IF r.iosync THEN @ ELSE Max({@, r.end})]
    BY <1>7 DEF WriteEnd, Cached
  <2>2. PICK e \in Sizes, o \in Sizes, x \in Sizes, y \in Sizes, z \in Sizes :
          e = r.end /\ o = r.size /\ x = fs.size[r.vp] /\ y = kern.dirty[r.vp] /\ z = flight[r.vp]
    BY <1>1, <1>2 DEF Caches, Daemon, Requests
  <2>3. PICK s \in Sizes : s = Max({o, e})
    BY MaxTwo
  <2>4. Max({y, e}) \in Sizes
    BY MaxTwo
  <2>5. PICK w \in Sizes : w = IF r.iosync THEN y ELSE Max({y, e})
    BY <2>4
  <2>6. kern' = [k EXCEPT !.filesize = [k.filesize EXCEPT ![r.vp] = s], !.dirty = [k.dirty EXCEPT ![r.vp] = w]]
    BY <1>2, <1>4, <1>5, <2>1, <2>2, <2>3, <2>5 DEF Caches
  <2>7. [k.filesize EXCEPT ![r.vp] = s] \in [Nodes -> Sizes] /\ [k.dirty EXCEPT ![r.vp] = w] \in [Nodes -> Sizes]
    BY <1>5 DEF Caches
  <2>8. /\ kern' \in Caches /\ kern'.vn = k.vn /\ kern'.names = k.names /\ kern'.va = k.va /\ kern'.valid = k.valid /\ kern'.direct = k.direct
        /\ kern'.filesize[r.vp] = s /\ kern'.dirty[r.vp] = w
        /\ \A m \in Nodes \ {r.vp} : kern'.dirty[m] = k.dirty[m] /\ kern'.filesize[m] = k.filesize[m]
    BY <1>2, <1>5, <2>6, <2>7 DEF Caches
  <2>9. /\ kern'.vn = kern.vn /\ kern'.names = kern.names /\ kern'.va = kern.va /\ kern'.direct = kern.direct
        /\ \A m \in Nodes : kern'.valid[m] <=> kern.valid[m] /\ m \notin {r.vp}
        /\ \A m \in Nodes \ {r.vp} : kern'.dirty[m] = kern.dirty[m] /\ kern'.filesize[m] = kern.filesize[m]
    BY <1>5, <2>8
  <2>11. Due(r.vp) = Max({x, y, z})
    BY <2>2 DEF Due
  <2>12. r.vp \in Plain
    BY <1>2, <1>7 DEF Plain
  <2>13. /\ ~r.iosync => Max({x, y, z}) = o \/ Excused(r.vp)
         /\ r.iosync => Max({x, y, z}) = s \/ Excused(r.vp)
    BY <1>1, <2>2, <2>3, <2>11, <2>12 DEF LengthOk, Answered
  <2>14. ~r.iosync /\ Max({x, y, z}) = o => Max({x, w, z}) = s
    <3>1. PICK m \in Sizes : m = Max({y, e})
      BY <2>4
    <3>2. /\ Max({x, y, z}) = IF x >= y /\ x >= z THEN x ELSE IF y >= z THEN y ELSE z
          /\ Max({x, m, z}) = IF x >= m /\ x >= z THEN x ELSE IF m >= z THEN m ELSE z
          /\ m = IF y >= e THEN y ELSE e
          /\ s = IF o >= e THEN o ELSE e
      BY <2>3, <3>1, MaxTwo, MaxThree, SMTT(30)
    <3>3. x \in Nat /\ y \in Nat /\ z \in Nat /\ e \in Nat /\ o \in Nat /\ m \in Nat /\ s \in Nat
      BY SizesNat
    <3>4. Max({x, y, z}) = o => Max({x, m, z}) = s
      BY <3>2, <3>3
    <3> QED BY <2>5, <3>1, <3>4
  <2>15. r.iosync /\ Max({x, y, z}) = s => Max({x, w, z}) = s
    BY <2>5
  <2>16. \/ kern'.filesize[r.vp] = Max({fs.size[r.vp], kern'.dirty[r.vp], flight[r.vp]})
         \/ Excused(r.vp)
    BY <2>2, <2>8, <2>13, <2>14, <2>15
  <2> QED BY <1>1, <2>8, <2>9, <2>16, SizeEndKeeps
<1> QED BY <1>6, <1>7

\* fuse_internal_exchange
LEMMA ExchangeEndKeeps ==
    ASSUME CacheInv, NEW t \in Threads, NEW r, r = thr[t], r.pc = "done", r.ans.ok, ExchangeEnd(r),
           thr' = [thr EXCEPT ![t] = IdleThread], Release(t), UNCHANGED <<sync, fs, flight, late>>
    PROVE  CacheInv'
<1>1. /\ CacheTypes /\ TypesOk /\ kern \in Caches /\ fs \in Daemon /\ flight \in [Nodes -> Sizes] /\ VnodesOk
      /\ r \in Requests /\ LengthOk(r) /\ r.op = "exchange" /\ UNCHANGED cause /\ r.op \in FileOps
      /\ tag \in [Nodes -> SUBSET Fates]
  BY DEF CacheInv, CacheTypes, TypesOk, SizeInv, ExchangeEnd, FileOps, Fates
<1>2. /\ Locked(t, r.vp) /\ r.vp \in Nodes /\ r.vp \in kern.vn
      /\ Locked(t, r.vp2) /\ r.vp2 \in Nodes /\ r.vp2 \in kern.vn /\ r.vp2 # r.vp
  BY <1>1, EndLocked
<1>3. PICK S : S = {r.vp, r.vp2}
  OBVIOUS
<1>4. /\ kern' = [Purge(Invalidate(kern, S), S) EXCEPT
                   !.filesize = [@ EXCEPT ![r.vp] = kern.filesize[r.vp2], ![r.vp2] = kern.filesize[r.vp]]]
      /\ tag' = [n \in Nodes |-> IF n \in S
                                 THEN tag[r.vp] \cup tag[r.vp2] \cup (IF S \cap kern.direct # {} THEN {"direct"} ELSE {})
                                 ELSE tag[n]]
  BY <1>3 DEF ExchangeEnd
<1>5. PICK k : k = Invalidate(kern, S)
  OBVIOUS
<1>6. /\ k \in Caches /\ k.vn = kern.vn /\ k.filesize = kern.filesize /\ k.va = kern.va /\ k.names = kern.names
      /\ k.dirty = kern.dirty /\ k.direct = kern.direct /\ \A m \in Nodes : k.valid[m] <=> kern.valid[m] /\ m \notin S
  BY <1>1, <1>5, InvalidateFacts
<1>7. PICK l : l = Purge(k, S)
  OBVIOUS
<1>8. /\ l \in Caches
      /\ l.vn = k.vn /\ l.filesize = k.filesize /\ l.va = k.va /\ l.valid = k.valid /\ l.dirty = k.dirty
      /\ l.direct = k.direct
      /\ \A a \in Names : l.names[a] = IF k.names[a] \in S THEN "miss" ELSE k.names[a]
  BY <1>6, <1>7, PurgeFacts
<1>9. PICK x \in Sizes, y \in Sizes : x = kern.filesize[r.vp] /\ y = kern.filesize[r.vp2]
  BY <1>1, <1>2 DEF Caches
<1>10. kern' = [l EXCEPT !.filesize = [l.filesize EXCEPT ![r.vp] = y, ![r.vp2] = x]]
  BY <1>4, <1>5, <1>7, <1>8, <1>9 DEF Caches
<1>11. [l.filesize EXCEPT ![r.vp] = y, ![r.vp2] = x] \in [Nodes -> Sizes]
  BY <1>8 DEF Caches
<1>12. /\ kern' \in Caches /\ kern'.vn = l.vn /\ kern'.names = l.names /\ kern'.va = l.va /\ kern'.valid = l.valid
       /\ kern'.direct = l.direct /\ kern'.dirty = l.dirty /\ kern'.filesize[r.vp] = y /\ kern'.filesize[r.vp2] = x
       /\ \A m \in Nodes : m \notin {r.vp, r.vp2} => kern'.filesize[m] = l.filesize[m]
  BY <1>2, <1>8, <1>10, <1>11 DEF Caches
<1>13. /\ kern'.vn = kern.vn /\ kern'.va = kern.va /\ kern'.dirty = kern.dirty /\ kern'.direct = kern.direct
       /\ \A m \in Nodes : kern'.valid[m] <=> kern.valid[m] /\ m \notin S
       /\ \A m \in Nodes : m \notin S => kern'.filesize[m] = kern.filesize[m]
       /\ \A a \in Names : kern'.names[a] \in {kern.names[a], "miss"}
  BY <1>3, <1>6, <1>8, <1>12
<1>14. tag' \in [Nodes -> SUBSET Fates] /\ \A n \in Nodes : tag[n] \subseteq tag'[n]
  <2>1. \A n \in Nodes : tag'[n] \in SUBSET Fates
    BY <1>1, <1>2, <1>4 DEF Fates
  <2>2. \A n \in Nodes : tag[n] \subseteq tag'[n]
    BY <1>2, <1>3, <1>4
  <2> QED BY <1>4, <2>1, <2>2
<1>15. \A n \in S : n \in Nodes /\ tag[r.vp] \subseteq tag'[n] /\ tag[r.vp2] \subseteq tag'[n]
                      /\ (S \cap kern.direct # {} => "direct" \in tag'[n])
  BY <1>2, <1>3, <1>4
<1>16. VnodesOk'
  <2>1. \A a \in Names : kern'.names[a] \in Nodes => kern'.names[a] \in kern'.vn
    BY <1>1, <1>13 DEF VnodesOk
  <2>2. ASSUME NEW m \in Nodes, kern'.valid[m] PROVE m \in kern'.vn
    BY <1>1, <1>13, <2>2 DEF VnodesOk
  <2>3. ASSUME NEW m \in Nodes, kern'.dirty[m] > 0 \/ flight'[m] > 0 PROVE m \in kern'.vn
    BY <1>1, <1>13, <2>3 DEF VnodesOk
  <2>4. kern'.direct \subseteq kern'.vn \cap Direct /\ (kern'.direct # {} => sync')
    BY <1>1, <1>13 DEF VnodesOk
  <2> QED BY <2>1, <2>2, <2>3, <2>4 DEF VnodesOk
<1>18. \A n \in Nodes : n \notin S => Steady(n)
  BY <1>13, Still
<1>19. \A n \in S : Locked(t, n)
  BY <1>2, <1>3
<1>20. \A n \in Nodes : n \notin S => ~Renews(thr[t], n) /\ ~Resizes(thr[t], n) /\ ~Forgets(thr[t], n)
  BY <1>1, <1>3 DEF Renews, Resizes, Forgets
<1>21. \A n \in Nodes : AttrStays(t, n)
  BY <1>13, <1>20 DEF AttrStays
<1>22. \A n \in S : \/ kern'.filesize[n] = Max({fs'.size[n], kern'.dirty[n], flight'[n]})
                    \/ Excused(n)'
  <2>1. \A n \in S : kern.dirty[n] = 0 /\ flight[n] = 0 /\ fs.size[n] \in Sizes
    BY <1>1, <1>2, <1>3 DEF LengthOk, Daemon
  <2>2. \A n \in S : Max({fs'.size[n], kern'.dirty[n], flight'[n]}) = fs.size[n]
    BY <1>13, <2>1, MaxThree, SizesNat
  <2>3. CASE \E n \in S : n \in kern.direct \/ Excused(n)
    <3>1. CASE \E n \in S : n \in kern.direct
      BY <1>15, <3>1 DEF SizeTags, Excused
    <3>2. CASE \E n \in S : Excused(n)
      BY <1>3, <1>15, <3>2 DEF Excused
    <3> QED BY <2>3, <3>1, <3>2
  <2>4. CASE fs.size[r.vp] = kern.filesize[r.vp2] /\ fs.size[r.vp2] = kern.filesize[r.vp]
    <3>1. kern'.filesize[r.vp] = fs.size[r.vp] /\ kern'.filesize[r.vp2] = fs.size[r.vp2]
      BY <1>9, <1>12, <2>4
    <3>2. \A n \in S : kern'.filesize[n] = fs.size[n]
      BY <1>3, <3>1
    <3> QED BY <2>2, <3>2
  <2> QED BY <1>1, <1>3, <2>3, <2>4 DEF LengthOk, Answered
<1>23. ASSUME NEW n \in Nodes PROVE LengthStays(t, n) /\ ValidStays(t, n)
  <2>1. CASE n \notin S
    BY <1>13, <1>18, <1>20, <2>1 DEF LengthStays, ValidStays
  <2>2. CASE n \in S
    BY <1>13, <1>22, <2>2 DEF LengthStays, ValidStays
  <2> QED BY <2>1, <2>2
<1>24. \A n \in Nodes : Steady(n) \/ Loose(n) \/ Locked(t, n)
  BY <1>18, <1>19
<1> QED BY <1>1, <1>12, <1>13, <1>14, <1>16, <1>21, <1>23, <1>24, FileEnds

-----------------------------------------------------------------------------
(* Answers that bring a vnode *)

\* while a thread has the directory no other renames in it
LEMMA DirLocked ==
    ASSUME CacheTypes, NEW t \in Threads, Holds(thr[t], Dvp)
    PROVE  \A u \in Threads \ {t} : ~Renaming(thr[u])
<1> SUFFICES ASSUME NEW u \in Threads, u # t, Renaming(thr[u]) PROVE FALSE
  OBVIOUS
<1>1. Dvp \in Locks(thr[u])
  BY DEF Renaming, Locks
<1>2. Holds(thr[u], Dvp)
  BY <1>1 DEF Renaming, Holds
<1> QED BY <1>2, OneHolder

\* a lookup that waits or has its answer is what it was
LEMMA FindAsked ==
    ASSUME NEW r \in Requests, Formed(r), r.pc # "idle", r.stage # "run"
    PROVE  Asked(r) /\ Name(r) \in Names /\ Locks(r) = {Dvp} /\ r.op \in NameOps
<1>1. r.op \in NameOps
  BY DEF Formed, Requests
<1>2. r.stage \in {"find", "find2"} /\ r.nm \in Names /\ r.op \notin FileOps /\ r.op # "exchange"
  BY <1>1 DEF Formed, Requests, NameOps, FileOps
<1>3. Asked(r)
  BY <1>1, <1>2 DEF Asked, Formed
<1> QED BY <1>1, <1>2, <1>3 DEF Asked, Name, Locks

\* what the history says of a vnode that an answer brings
LEMMA VgetTagged ==
    ASSUME tag \in [Nodes -> SUBSET Fates], fs \in Daemon, NEW ans \in Answers, NEW n \in Nodes, ans.node = n,
           NEW early \in BOOLEAN, tag' = Tagged(n, VgetTags(ans, early))
    PROVE  /\ tag' \in [Nodes -> SUBSET Fates] /\ \A m \in Nodes : tag[m] \subseteq tag'[m]
           /\ early /\ n \notin kern.vn => "blank" \in tag'[n]
           /\ "overtaken" \in tag'[n] \/ (ans.size = fs.size[n] /\ ans.ver = fs.ver[n])
<1>1. PICK S : S = VgetTags(ans, early)
  OBVIOUS
<1>2. /\ S \subseteq Fates /\ (early /\ n \notin kern.vn => "blank" \in S)
      /\ Overtaken(ans) => "overtaken" \in S
  BY <1>1 DEF VgetTags, Fates
<1>3. tag' = [tag EXCEPT ![n] = tag[n] \cup S]
  BY <1>1 DEF Tagged
<1>4. ~Overtaken(ans) => ans.size = fs.size[n] /\ ans.ver = fs.ver[n]
  BY AboutFacts DEF Overtaken
<1> QED BY <1>2, <1>3, <1>4

\* The kernel has vnode n, new or not, and may have entered names and attributes.
Brought(n, ans, early) ==
    /\ kern' \in Caches /\ kern'.vn = kern.vn \cup {n} /\ kern'.dirty = kern.dirty
    /\ \A m \in Nodes \ {n} : /\ kern'.valid[m] = kern.valid[m] /\ kern'.va[m] = kern.va[m]
                              /\ m \notin kern.direct => kern'.filesize[m] = kern.filesize[m]
    /\ n \in kern.vn /\ n \notin kern.direct => kern'.filesize[n] = kern.filesize[n]
    /\ n \notin kern.vn /\ n \notin kern.direct => kern'.filesize[n] = ans.size
    /\ kern'.direct = kern.direct
    /\ \/ n \in kern.vn /\ kern'.va[n] = kern.va[n] /\ kern'.valid[n] = kern.valid[n]
       \/ n \notin kern.vn /\ kern'.valid[n] = early
       \/ kern'.va[n].ver = ans.ver /\ kern'.va[n].size \in {ans.size, kern'.filesize[n]}
    /\ \A a \in Names : kern'.names[a] \in {kern.names[a], "miss", n}

\* The history of the vnode.
Recorded(n, ans, early) == tag' = Tagged(n, VgetTags(ans, early))

\* The names are right, excused, or as they were.
NamesKept(t) ==
    \A a \in Names : Settled(a) \/ (kern'.names[a] = kern.names[a] /\ cause'[a] = cause[a] /\ NotLeft(t, a))

\* A thread that has the directory goes on as q, without it.
Leaves(t, q) ==
    /\ Holds(thr[t], Dvp) /\ thr[t].op \in NameOps /\ (thr[t].stage # "run" \/ thr[t].op \in {"create", "newentry"})
    /\ q \in Requests /\ Formed(q) /\ q.pc \in {"idle", "ready"} /\ q.op \in NameOps \cup {"none"}
    /\ {q.vp, q.vp2} \ {NULL} \subseteq kern'.vn
    /\ thr' = [thr EXCEPT ![t] = q] /\ Release(t) /\ UNCHANGED <<sync, fs, flight, late>>

\* a thread that has the directory ends its call with it
LEMMA VgetStep ==
    ASSUME CacheInv, NEW t \in Threads, NEW q, Leaves(t, q),
           NEW ans \in Answers, NEW n \in Nodes, ans.node = n, NEW early \in BOOLEAN,
           Brought(n, ans, early), Recorded(n, ans, early), cause' \in [Names -> Reasons], NamesKept(t)
    PROVE  CacheInv'
<1>1. /\ CacheTypes /\ TypesOk /\ NamesInv /\ AttrInv /\ SizeInv /\ kern \in Caches /\ fs \in Daemon
      /\ flight \in [Nodes -> Sizes] /\ VnodesOk /\ tag \in [Nodes -> SUBSET Fates]
  BY DEF CacheInv, CacheTypes, TypesOk, SizeInv, Fates
<1>0. /\ Holds(thr[t], Dvp) /\ thr[t].op \in NameOps /\ (thr[t].stage # "run" \/ thr[t].op \in {"create", "newentry"})
      /\ q \in Requests /\ Formed(q) /\ q.pc \in {"idle", "ready"} /\ q.op \in NameOps \cup {"none"}
      /\ {q.vp, q.vp2} \ {NULL} \subseteq kern'.vn
      /\ Release(t) /\ UNCHANGED <<sync, fs, flight, late>>
  BY DEF Leaves
<1>2. /\ thr' \in [Threads -> Requests] /\ thr'[t] = q /\ Others(t)
      /\ \A u \in Threads \ {t} : thr'[u] = thr[u]
  <2>1. thr' = [thr EXCEPT ![t] = q]
    BY DEF Leaves
  <2> QED BY <1>0, <1>1, <2>1, Turn DEF TypesOk
<1> USE <1>0
<1>3. thr'[t].pc \notin {"sent", "done"}
  BY <1>2
<1>4. /\ lock' \in [Nodes \cup {Dvp} -> Threads \cup {NULL}]
      /\ \A u \in Threads : LockOk(u)'
  BY <1>1, <1>2, <1>3, LocksGiven
<1>5. Formed(thr[t])' /\ InUse(thr[t])'
  BY <1>2 DEF InUse, Formed
<1>6. CurrentOk(thr[t])' /\ RenameOk(thr[t])' /\ VersionOk(thr[t])' /\ LengthOk(thr[t])'
  <2>1. ~Answered(thr'[t]) /\ thr'[t].op \notin {"write", "exchange"}
    BY <1>2, <1>3 DEF Answered, NameOps
  <2> QED BY <1>3, <2>1, Unanswered DEF RenameOk
<1>7. /\ tag' \in [Nodes -> SUBSET Fates] /\ \A m \in Nodes : tag[m] \subseteq tag'[m]
      /\ early /\ n \notin kern.vn => "blank" \in tag'[n]
      /\ "overtaken" \in tag'[n] \/ (ans.size = fs.size[n] /\ ans.ver = fs.ver[n])
  BY <1>1, VgetTagged DEF Recorded
<1>8. TypesOk'
  BY <1>1, <1>2, <1>4, <1>7 DEF TypesOk, Reasons, Fates, Brought
<1>9. VnodesOk'
  <2>1. \A a \in Names : kern'.names[a] \in Nodes => kern'.names[a] \in kern'.vn
    BY <1>1 DEF VnodesOk, Brought
  <2>2. ASSUME NEW m \in Nodes, kern'.valid[m] PROVE m \in kern'.vn
    BY <1>1, <2>2 DEF VnodesOk, Brought
  <2>3. ASSUME NEW m \in Nodes, kern'.dirty[m] > 0 \/ flight'[m] > 0 PROVE m \in kern'.vn
    BY <1>1, <2>3 DEF VnodesOk, Brought
  <2>4. kern'.direct \subseteq kern'.vn \cap Direct /\ (kern'.direct # {} => sync')
    BY <1>1 DEF VnodesOk, Brought
  <2> QED BY <2>1, <2>2, <2>3, <2>4 DEF VnodesOk
<1>10. Small(fs)' /\ kern.vn \subseteq kern'.vn /\ \A r \in late' : r \in late
  BY <1>1 DEF CacheTypes, Small, Brought
<1>11. CacheTypes'
  BY <1>1, <1>2, <1>4, <1>5, <1>8, <1>9, <1>10, TypesStep
<1>12. NamesInv'
  <2>1. \A u \in Threads \ {t} : ~Renaming(thr[u])
    BY <1>1, DirLocked
  <2> QED BY <1>1, <1>2, <1>6, <2>1, NamesStep DEF NamesKept
<1>13. \A m \in Nodes : ~Renews(thr[t], m) /\ ~Resizes(thr[t], m) /\ ~Forgets(thr[t], m)
  BY DEF Renews, Resizes, Forgets, NameOps
<1>14. AttrInv'
  <2>1. ASSUME NEW m \in Nodes PROVE AttrStays(t, m)
    <3>1. CASE m # n
      BY <1>13, <3>1 DEF AttrStays, Brought
    <3>2. CASE m = n /\ n \in kern.vn /\ kern'.va[n] = kern.va[n] /\ kern'.valid[n] = kern.valid[n]
      BY <1>13, <3>2 DEF AttrStays
    <3>3. CASE m = n /\ n \notin kern.vn /\ kern'.valid[n] = early
      BY <1>7, <3>3 DEF AttrStays, AttrTags
    <3>4. CASE m = n /\ kern'.va[n].ver = ans.ver
      BY <1>7, <3>4 DEF AttrStays, AttrTags
    <3> QED BY <3>1, <3>2, <3>3, <3>4 DEF Brought
  <2>2. \A m \in Nodes : fs'.ver[m] = fs.ver[m] \/ tag'[m] \cap AttrTags # {}
                              \/ (t \in Threads /\ Holds(thr'[t], m))
    OBVIOUS
  <2> QED BY <1>1, <1>2, <1>6, <1>7, <1>11, <2>1, <2>2, AttrStep
<1>15. \A m \in Nodes : Steady(m)
  <2> SUFFICES ASSUME NEW m \in Nodes PROVE Steady(m)
    OBVIOUS
  <2>1. /\ fs'.size[m] = fs.size[m] /\ kern'.dirty[m] = kern.dirty[m] /\ flight'[m] = flight[m]
        /\ m \in kern.vn \cap Plain => kern'.filesize[m] = kern.filesize[m]
    BY DEF Brought, Plain
  <2> QED BY <2>1, Still
<1>16. ASSUME NEW m \in Nodes PROVE LengthStays(t, m)
  <2>1. CASE m \in kern.vn
    BY <1>13, <1>15, <2>1 DEF LengthStays
  <2>2. CASE m \notin kern.vn /\ m = n /\ m \in Plain
    <3>1. kern.dirty[m] \in Nat /\ flight[m] \in Nat /\ fs.size[m] \in Sizes
      BY <1>1, SizesNat DEF Caches, Daemon
    <3>2. kern.dirty[m] = 0 /\ flight[m] = 0
      BY <1>1, <2>2, <3>1 DEF VnodesOk
    <3>3. kern'.dirty[m] = 0 /\ flight'[m] = 0 /\ fs'.size[m] = fs.size[m]
      BY <3>2 DEF Brought
    <3>4. Max({fs'.size[m], kern'.dirty[m], flight'[m]}) = fs.size[m]
      BY <3>1, <3>3, MaxThree, SizesNat
    <3>5. kern'.filesize[m] = ans.size
      BY <2>2 DEF Brought, Plain
    <3> QED BY <1>7, <2>2, <3>4, <3>5 DEF LengthStays, SizeTags, Excused
  <2>3. CASE m \notin kern.vn /\ (m # n \/ m \notin Plain)
    BY <2>3 DEF LengthStays, Brought, Plain
  <2> QED BY <2>1, <2>2, <2>3
<1>17. ASSUME NEW m \in Nodes PROVE ValidStays(t, m)
  <2>1. CASE m # n
    BY <1>13, <2>1 DEF ValidStays, Brought, Plain
  <2>2. CASE m = n /\ n \in kern.vn /\ kern'.va[n] = kern.va[n] /\ kern'.valid[n] = kern.valid[n]
    BY <1>13, <2>2 DEF ValidStays, Brought, Plain
  <2>3. CASE m = n /\ n \notin kern.vn /\ kern'.valid[n] = early
    BY <1>7, <2>3 DEF ValidStays, SizeTags, Paged
  <2>4. CASE m = n /\ kern'.va[n].size \in {ans.size, kern'.filesize[n]}
    BY <1>7, <2>4 DEF ValidStays, SizeTags, Paged
  <2> QED BY <2>1, <2>2, <2>3, <2>4 DEF Brought
<1>18. SizeInv'
  <2>1. (sync => sync') /\ kern.direct \cap kern'.vn \subseteq kern'.direct
    BY DEF Brought
  <2>2. \A m \in Nodes : Steady(m) \/ Loose(m) \/ Locked(t, m) \/ m \notin kern'.vn
    BY <1>15
  <2> QED BY <1>1, <1>2, <1>6, <1>7, <1>11, <1>16, <1>17, <2>1, <2>2, LengthStep
<1> QED BY <1>11, <1>12, <1>14, <1>18 DEF CacheInv

\* the history of the name that is entered
LEMMA EnterCauseFacts ==
    ASSUME cause \in [Names -> Reasons], NEW r, Name(r) \in Names
    PROVE  /\ EnterCause(r) \in [Names -> Reasons]
           /\ \A a \in Names : ~(MakeEntry(r) /\ a = Name(r)) => EnterCause(r)[a] = cause[a]
           /\ MakeEntry(r) /\ r.over => EnterCause(r)[Name(r)] = "overtaken"
BY DEF EnterCause, Reasons

\* a vnode and the name it was found under
LEMMA EnteredFacts ==
    ASSUME kern \in Caches, NEW r, Name(r) \in Names, NEW ans \in Answers, NEW n \in Nodes, ans.node = n,
           NEW early \in BOOLEAN, NEW k, k = Enter(Vget(kern, ans, early), r, n)
    PROVE  /\ k \in Caches /\ k.vn = kern.vn \cup {n} /\ k.dirty = kern.dirty
           /\ \A m \in Nodes \ {n} : k.valid[m] = kern.valid[m] /\ k.va[m] = kern.va[m] /\ k.filesize[m] = kern.filesize[m]
           /\ n \in kern.vn => k.filesize = kern.filesize /\ k.va = kern.va /\ k.valid = kern.valid
           /\ n \notin kern.vn => k.filesize[n] = ans.size /\ k.valid[n] = early
           /\ \A a \in Names : k.names[a] = IF MakeEntry(r) /\ a = Name(r) THEN n ELSE kern.names[a]
           /\ k.direct = kern.direct
<1>1. PICK v : v = Vget(kern, ans, early)
  OBVIOUS
<1>2. /\ v \in Caches /\ v.vn = kern.vn \cup {n} /\ v.dirty = kern.dirty /\ v.names = kern.names /\ v.direct = kern.direct
      /\ \A m \in Nodes \ {n} : v.filesize[m] = kern.filesize[m] /\ v.va[m] = kern.va[m] /\ v.valid[m] = kern.valid[m]
      /\ n \in kern.vn => v = kern
      /\ n \notin kern.vn => v.filesize[n] = ans.size /\ v.valid[n] = early
  BY <1>1, VgetFacts
<1>3. k = Enter(v, r, n)
  BY <1>1
<1>4. /\ k \in Caches /\ k.vn = v.vn /\ k.dirty = v.dirty /\ k.valid = v.valid /\ k.va = v.va /\ k.filesize = v.filesize
      /\ \A a \in Names : k.names[a] = IF MakeEntry(r) /\ a = Name(r) THEN n ELSE v.names[a]
      /\ k.direct = v.direct
  BY <1>2, <1>3, EnterFacts
<1> QED BY <1>2, <1>4

\* its attributes are cached too
LEMMA AttrsBrought ==
    ASSUME sync \in BOOLEAN, NEW k \in Caches, NEW ans \in Answers, NEW n \in Nodes,
           kern' = CacheAttrs(k, n, ans)
    PROVE  /\ kern' \in Caches /\ kern'.vn = k.vn /\ kern'.dirty = k.dirty /\ kern'.names = k.names
           /\ kern'.filesize = k.filesize
           /\ \A m \in Nodes \ {n} : kern'.valid[m] = k.valid[m] /\ kern'.va[m] = k.va[m]
           /\ kern'.va[n].ver = ans.ver /\ kern'.va[n].size \in {ans.size, kern'.filesize[n]}
           /\ kern'.direct = k.direct
BY CacheAttrsFacts

\* a name is found
LEMMA FindNode ==
    ASSUME CacheInv, NEW t \in Threads, FindEnd(t), thr[t].ans.node # NULL
    PROVE  CacheInv'
<1>1. PICK r : r = thr[t]
  OBVIOUS
<1>2. /\ CacheTypes /\ sync \in BOOLEAN /\ kern \in Caches /\ cause \in [Names -> Reasons] /\ r \in Requests
      /\ Formed(r) /\ InUse(r) /\ CurrentOk(r) /\ fs \in Daemon
  BY <1>1 DEF CacheInv, CacheTypes, TypesOk, NamesInv, Reasons
<1>3. r.pc = "done" /\ r.stage # "run" /\ r.ans.ok /\ r.ans \in Answers /\ r.ans.node \in Nodes /\ r.over \in BOOLEAN
  BY <1>1, <1>2 DEF FindEnd, Requests, Answers
<1>4. Asked(r) /\ Name(r) \in Names /\ Locks(r) = {Dvp} /\ r.op \in NameOps
  BY <1>2, <1>3, FindAsked
<1>5. Holds(r, Dvp)
  BY <1>3, <1>4 DEF Holds
<1>6. PICK n \in Nodes, ans \in Answers : n = r.ans.node /\ ans = r.ans
  BY <1>3
<1>7. PICK early \in BOOLEAN :
        /\ kern' = IF Intent(r) \in {"DELETE", "RENAME"} THEN Enter(Vget(kern, ans, early), r, n)
                   ELSE CacheAttrs(Fudge(Enter(Vget(kern, ans, early), r, n), n, ans.size), n, ans)
        /\ tag' = Tagged(n, VgetTags(ans, early))
  BY <1>1, <1>6 DEF FindEnd
<1>8. PICK k : k = Enter(Vget(kern, ans, early), r, n)
  OBVIOUS
<1>9. /\ k \in Caches /\ k.vn = kern.vn \cup {n} /\ k.dirty = kern.dirty
      /\ \A m \in Nodes \ {n} : k.valid[m] = kern.valid[m] /\ k.va[m] = kern.va[m] /\ k.filesize[m] = kern.filesize[m]
      /\ n \in kern.vn => k.filesize = kern.filesize /\ k.va = kern.va /\ k.valid = kern.valid
      /\ n \notin kern.vn => k.filesize[n] = ans.size /\ k.valid[n] = early
      /\ \A a \in Names : k.names[a] = IF MakeEntry(r) /\ a = Name(r) THEN n ELSE kern.names[a]
      /\ k.direct = kern.direct
  BY <1>2, <1>4, <1>6, <1>8, EnteredFacts
<1>10. Brought(n, ans, early) /\ kern'.names = k.names
  <2>0. \A a \in Names : k.names[a] \in {kern.names[a], "miss", n}
    BY <1>9
  <2>1. CASE kern' = k
    BY <1>9, <2>0, <2>1 DEF Brought
  <2>2. CASE kern' = CacheAttrs(Fudge(k, n, ans.size), n, ans)
    <3>1. PICK l : l = Fudge(k, n, ans.size)
      OBVIOUS
    <3>2. /\ l \in Caches /\ l.vn = k.vn /\ l.names = k.names /\ l.dirty = k.dirty /\ l.valid = k.valid /\ l.va = k.va
          /\ \A m \in Nodes \ k.direct : l.filesize[m] = k.filesize[m]
          /\ l.direct = k.direct
      BY <1>9, <3>1, FudgeFacts DEF Answers
    <3>3. /\ kern' \in Caches /\ kern'.vn = l.vn /\ kern'.dirty = l.dirty /\ kern'.names = l.names
          /\ kern'.filesize = l.filesize
          /\ \A m \in Nodes \ {n} : kern'.valid[m] = l.valid[m] /\ kern'.va[m] = l.va[m]
          /\ kern'.va[n].ver = ans.ver /\ kern'.va[n].size \in {ans.size, kern'.filesize[n]}
          /\ kern'.direct = l.direct
      BY <1>2, <2>2, <3>1, <3>2, AttrsBrought
    <3>4. \A m \in Nodes \ {n} : /\ kern'.valid[m] = kern.valid[m] /\ kern'.va[m] = kern.va[m]
                                 /\ m \notin kern.direct => kern'.filesize[m] = kern.filesize[m]
      BY <1>9, <3>2, <3>3
    <3>5. /\ n \in kern.vn /\ n \notin kern.direct => kern'.filesize[n] = kern.filesize[n]
          /\ n \notin kern.vn /\ n \notin kern.direct => kern'.filesize[n] = ans.size
      BY <1>9, <3>2, <3>3
    <3>6. kern'.names = k.names /\ kern'.vn = kern.vn \cup {n} /\ kern'.dirty = kern.dirty
          /\ kern'.direct = kern.direct
      BY <1>9, <3>2, <3>3
    <3> QED BY <2>0, <3>3, <3>4, <3>5, <3>6 DEF Brought
  <2> QED BY <1>7, <1>8, <2>1, <2>2
<1>11. PICK q : q = Resolved(r, n)
  OBVIOUS
<1>12. /\ q \in Requests /\ Formed(q) /\ q.pc \in {"idle", "ready"} /\ q.op \in NameOps \cup {"none"}
       /\ {q.vp, q.vp2} \subseteq {r.vp, r.vp2, n, NULL}
  BY <1>4, <1>11, ResolvedFacts
<1>13. {q.vp, q.vp2} \ {NULL} \subseteq kern'.vn
  BY <1>2, <1>10, <1>12 DEF InUse, Brought
<1>14. thr' = [thr EXCEPT ![t] = q] /\ Release(t) /\ UNCHANGED <<sync, fs, flight, late>> /\ cause' = EnterCause(r)
  BY <1>1, <1>3, <1>6, <1>11 DEF FindEnd
<1>15. /\ cause' \in [Names -> Reasons]
       /\ \A a \in Names : ~(MakeEntry(r) /\ a = Name(r)) => cause'[a] = cause[a]
       /\ MakeEntry(r) /\ r.over => cause'[Name(r)] = "overtaken"
  BY <1>2, <1>4, <1>14, EnterCauseFacts
<1>16. \A a \in Names : NotLeft(t, a)
  BY <1>1, <1>3 DEF NotLeft, Mends, Creates
<1>17. ~r.over => fs'.dir[Name(r)] = n
  BY <1>2, <1>3, <1>6, <1>14 DEF CurrentOk, Answered
<1>18. NamesKept(t)
  <2> SUFFICES ASSUME NEW a \in Names
               PROVE  Settled(a) \/ (kern'.names[a] = kern.names[a] /\ cause'[a] = cause[a] /\ NotLeft(t, a))
    BY DEF NamesKept
  <2>1. CASE MakeEntry(r) /\ a = Name(r)
    <3>1. kern'.names[a] = n
      BY <1>9, <1>10, <2>1
    <3> QED BY <1>15, <1>17, <2>1, <3>1 DEF Settled
  <2>2. CASE ~(MakeEntry(r) /\ a = Name(r))
    <3>1. kern'.names[a] = kern.names[a]
      BY <1>9, <1>10, <2>2
    <3> QED BY <1>15, <1>16, <2>2, <3>1
  <2> QED BY <2>1, <2>2
<1>19. Holds(thr[t], Dvp) /\ thr[t].op \in NameOps /\ thr[t].stage # "run" /\ ans.node = n
  BY <1>1, <1>3, <1>4, <1>5, <1>6
<1>20. tag' = Tagged(n, VgetTags(ans, early)) /\ Brought(n, ans, early) /\ cause' \in [Names -> Reasons]
  BY <1>7, <1>10, <1>15
<1>21. Leaves(t, q)
  BY <1>12, <1>13, <1>14, <1>19 DEF Leaves
<1>22. Recorded(n, ans, early)
  BY <1>20 DEF Recorded
<1> QED BY <1>18, <1>19, <1>20, <1>21, <1>22, VgetStep

\* a name is not found
LEMMA FindNothing ==
    ASSUME CacheInv, NEW t \in Threads, FindEnd(t), thr[t].ans.node = NULL
    PROVE  CacheInv'
<1>1. PICK r : r = thr[t]
  OBVIOUS
<1>2. /\ CacheTypes /\ TypesOk /\ kern \in Caches /\ cause \in [Names -> Reasons] /\ r \in Requests
      /\ Formed(r) /\ InUse(r) /\ CurrentOk(r)
  BY <1>1 DEF CacheInv, CacheTypes, TypesOk, NamesInv, Reasons
<1>3. r.pc = "done" /\ r.stage # "run" /\ r.ans.ok /\ r.ans.node = NULL
  BY <1>1 DEF FindEnd
<1>4. Asked(r) /\ Name(r) \in Names /\ Locks(r) = {Dvp} /\ r.op \in NameOps
  BY <1>2, <1>3, FindAsked
<1>5. Holds(r, Dvp)
  BY <1>3, <1>4 DEF Holds
<1>6. PICK q : q = Resolved(r, NULL)
  OBVIOUS
<1>7. /\ q \in Requests /\ Formed(q) /\ q.pc \in {"idle", "ready"} /\ q.op \in NameOps \cup {"none"}
      /\ {q.vp, q.vp2} \subseteq {r.vp, r.vp2, NULL}
  BY <1>4, <1>6, ResolvedFacts
<1>8. thr' = [thr EXCEPT ![t] = q] /\ Release(t) /\ UNCHANGED <<sync, fs, flight, late, tag>>
  BY <1>1, <1>3, <1>6 DEF FindEnd
<1>9. /\ thr' \in [Threads -> Requests] /\ thr'[t] = q /\ Others(t)
      /\ \A u \in Threads \ {t} : thr'[u] = thr[u]
  BY <1>2, <1>7, <1>8, Turn DEF TypesOk
<1>10. thr'[t].pc \notin {"sent", "done"}
  BY <1>7, <1>9
<1>11. /\ lock' \in [Nodes \cup {Dvp} -> Threads \cup {NULL}]
       /\ \A u \in Threads : LockOk(u)'
  BY <1>2, <1>8, <1>9, <1>10, LocksGiven
<1>12. CurrentOk(thr[t])' /\ RenameOk(thr[t])' /\ VersionOk(thr[t])' /\ LengthOk(thr[t])'
  <2>1. ~Answered(thr'[t]) /\ thr'[t].op \notin {"write", "exchange"}
    BY <1>7, <1>9, <1>10 DEF Answered, NameOps
  <2> QED BY <1>10, <2>1, Unanswered DEF RenameOk
<1>13. \A a \in Names : NotLeft(t, a)
  BY <1>1, <1>3 DEF NotLeft, Mends, Creates
<1>14. \A n \in Nodes : Duties(t, n)
  BY <1>1, <1>3, <1>4 DEF Duties, Renews, Resizes, Forgets, NameOps
<1>15. \/ Intent(r) = "LOOKUP" /\ kern' = Enter(kern, r, "negative") /\ cause' = EnterCause(r)
       \/ UNCHANGED <<kern, cause>>
  BY <1>1, <1>3 DEF FindEnd
<1>16. /\ kern' \in Caches /\ kern'.vn = kern.vn /\ kern'.dirty = kern.dirty /\ kern'.valid = kern.valid
       /\ kern'.va = kern.va /\ kern'.filesize = kern.filesize /\ kern'.direct = kern.direct /\ cause' \in [Names -> Reasons]
       /\ \A a \in Names : \/ kern'.names[a] = kern.names[a] /\ cause'[a] = cause[a]
                           \/ a = Name(r) /\ kern'.names[a] = "negative" /\ (r.over => cause'[a] = "overtaken")
  <2>1. CASE kern' = Enter(kern, r, "negative") /\ cause' = EnterCause(r)
    <3>1. /\ kern' \in Caches /\ kern'.vn = kern.vn /\ kern'.dirty = kern.dirty /\ kern'.valid = kern.valid
          /\ kern'.va = kern.va /\ kern'.filesize = kern.filesize /\ kern'.direct = kern.direct
          /\ \A a \in Names : kern'.names[a] = IF MakeEntry(r) /\ a = Name(r) THEN "negative" ELSE kern.names[a]
      BY <1>2, <1>4, <2>1, EnterFacts
    <3>2. /\ cause' \in [Names -> Reasons]
          /\ \A a \in Names : ~(MakeEntry(r) /\ a = Name(r)) => cause'[a] = cause[a]
          /\ MakeEntry(r) /\ r.over => cause'[Name(r)] = "overtaken"
      BY <1>2, <1>4, <2>1, EnterCauseFacts
    <3> QED BY <3>1, <3>2
  <2>2. CASE UNCHANGED <<kern, cause>>
    BY <1>2, <2>2
  <2> QED BY <1>15, <2>1, <2>2
<1>17. ~r.over => fs'.dir[Name(r)] = NULL
  BY <1>2, <1>3, <1>8 DEF CurrentOk, Answered
<1>18. \A a \in Names : Settled(a) \/ (kern'.names[a] = kern.names[a] /\ cause'[a] = cause[a] /\ NotLeft(t, a))
  BY <1>13, <1>16, <1>17 DEF Settled
<1>19. /\ \A a \in Names : kern'.names[a] \in {kern.names[a], "miss", "negative"}
       /\ \A n \in Nodes : kern'.valid[n] => kern.valid[n]
       /\ \A n \in Nodes : tag[n] \subseteq tag'[n]
       /\ \A r0 \in late' : r0 \in late
       /\ tag' \in [Nodes -> SUBSET Fates] /\ late' \subseteq Requests
  BY <1>2, <1>8, <1>16 DEF TypesOk, Fates
<1>20. \A u \in Threads \ {t} : ~Renaming(thr[u])
  BY <1>1, <1>2, <1>5, DirLocked
<1>21. Formed(thr[t])' /\ InUse(thr[t])'
  BY <1>2, <1>7, <1>9, <1>16 DEF InUse, Formed
<1> QED BY <1>8, <1>9, <1>11, <1>12, <1>14, <1>16, <1>18, <1>19, <1>20, <1>21, QuietStep

\* what the ends of create and newentry have in common
LEMMA MakeFacts ==
    ASSUME CacheInv, NEW t \in Threads, NEW r, r = thr[t], r.pc = "done", r.stage = "run", r.ans.ok,
           r.op \in {"create", "newentry"}
    PROVE  /\ CacheTypes /\ sync \in BOOLEAN /\ kern \in Caches /\ cause \in [Names -> Reasons] /\ fs \in Daemon
           /\ CurrentOk(r) /\ r.ans \in Answers /\ r.ans.node \in Nodes /\ r.over \in BOOLEAN
           /\ r.nm \in Names /\ Name(r) = r.nm /\ Holds(r, Dvp) /\ r.op \in NameOps /\ VnodesOk
<1>1. /\ CacheTypes /\ sync \in BOOLEAN /\ kern \in Caches /\ cause \in [Names -> Reasons] /\ r \in Requests /\ fs \in Daemon
      /\ Formed(r) /\ CurrentOk(r) /\ VnodesOk
  BY DEF CacheInv, CacheTypes, TypesOk, NamesInv, Reasons
<1>2. r.op \in NameOps /\ r.ans \in Answers /\ r.over \in BOOLEAN
  BY <1>1 DEF NameOps, Requests
<1>3. r.nm \in Names /\ r.ans.node \in Nodes
  BY <1>1, <1>2 DEF Formed
<1> QED BY <1>1, <1>2, <1>3 DEF Name, Holds, Locks

\* fuse_vnop_create that makes the vnode
LEMMA CreateEnds ==
    ASSUME CacheInv, NEW t \in Threads, NEW r, r = thr[t], r.pc = "done", r.stage = "run", r.ans.ok,
           r.op = "create", UNCHANGED cause,
           \E early \in BOOLEAN : /\ kern' = PurgeNegatives(Vget(kern, r.ans, early))
                                  /\ tag' = Tagged(r.ans.node, VgetTags(r.ans, early)),
           thr' = [thr EXCEPT ![t] = IdleThread], Release(t), UNCHANGED <<sync, fs, flight, late>>
    PROVE  CacheInv'
<1>1. r.op = "create" /\ UNCHANGED cause
  OBVIOUS
<1>2. /\ CacheTypes /\ kern \in Caches /\ cause \in [Names -> Reasons]
      /\ r.ans \in Answers /\ r.ans.node \in Nodes /\ Holds(r, Dvp) /\ r.op \in NameOps
  BY <1>1, MakeFacts
<1>3. PICK n \in Nodes, ans \in Answers : n = r.ans.node /\ ans = r.ans
  BY <1>2
<1>4. PICK early \in BOOLEAN :
        kern' = PurgeNegatives(Vget(kern, ans, early)) /\ tag' = Tagged(n, VgetTags(ans, early))
  BY <1>3
<1>5. PICK v : v = Vget(kern, ans, early)
  OBVIOUS
<1>6. /\ v \in Caches /\ v.vn = kern.vn \cup {n} /\ v.dirty = kern.dirty /\ v.names = kern.names /\ v.direct = kern.direct
      /\ \A m \in Nodes \ {n} : v.filesize[m] = kern.filesize[m] /\ v.va[m] = kern.va[m] /\ v.valid[m] = kern.valid[m]
      /\ n \in kern.vn => v = kern
      /\ n \notin kern.vn => v.filesize[n] = ans.size /\ v.valid[n] = early
  BY <1>2, <1>3, <1>5, VgetFacts
<1>7. /\ kern' \in Caches /\ kern'.vn = v.vn /\ kern'.filesize = v.filesize /\ kern'.va = v.va
      /\ kern'.valid = v.valid /\ kern'.dirty = v.dirty /\ kern'.direct = v.direct
      /\ \A a \in Names : kern'.names[a] = IF v.names[a] \in {"negative"} THEN "miss" ELSE v.names[a]
  BY <1>4, <1>5, <1>6, PurgeFacts DEF PurgeNegatives
<1>8. Brought(n, ans, early)
  BY <1>6, <1>7 DEF Brought
<1>9. NamesKept(t)
  <2> SUFFICES ASSUME NEW a \in Names
               PROVE  Settled(a) \/ (kern'.names[a] = kern.names[a] /\ cause'[a] = cause[a] /\ NotLeft(t, a))
    BY DEF NamesKept
  <2>1. CASE kern.names[a] = "negative"
    BY <1>6, <1>7, <2>1 DEF Settled
  <2>2. CASE kern.names[a] # "negative"
    <3>1. kern'.names[a] = kern.names[a]
      BY <1>6, <1>7, <2>2
    <3>2. NotLeft(t, a)
      BY <1>1, <2>2, <3>1 DEF NotLeft, Mends
    <3> QED BY <1>1, <3>1, <3>2
  <2> QED BY <2>1, <2>2
<1>10. /\ IdleThread \in Requests /\ Formed(IdleThread) /\ IdleThread.pc \in {"idle", "ready"}
       /\ IdleThread.op \in NameOps \cup {"none"} /\ {IdleThread.vp, IdleThread.vp2} \ {NULL} \subseteq kern'.vn
  BY IdleFacts
<1>11. cause' \in [Names -> Reasons] /\ ans.node = n /\ Holds(thr[t], Dvp) /\ thr[t].op \in NameOps
       /\ thr[t].op \in {"create", "newentry"}
  BY <1>1, <1>2, <1>3
<1>12. Leaves(t, IdleThread)
  BY <1>10, <1>11 DEF Leaves
<1>13. Recorded(n, ans, early)
  BY <1>4 DEF Recorded
<1> QED BY <1>8, <1>9, <1>11, <1>12, <1>13, VgetStep

\* fuse_vnop_create that refuses the entry or gets no vnode
LEMMA CreateRefused ==
    ASSUME CacheInv, NEW t \in Threads, NEW r, r = thr[t], r.pc = "done", r.stage = "run", r.ans.ok,
           r.op = "create", UNCHANGED <<kern, tag>>,
           cause' = [cause EXCEPT ![r.nm] = IF kern.names[r.nm] = "negative" THEN "refused" ELSE @],
           thr' = [thr EXCEPT ![t] = IdleThread], Release(t), UNCHANGED <<sync, fs, flight, late>>
    PROVE  CacheInv'
<1>1. /\ CacheTypes /\ TypesOk /\ kern \in Caches /\ cause \in [Names -> Reasons]
      /\ tag \in [Nodes -> SUBSET Fates] /\ r.nm \in Names
  BY MakeFacts DEF CacheInv, CacheTypes, TypesOk, Fates
<1>2. /\ thr' \in [Threads -> Requests]
      /\ \A u \in Threads \ {t} : thr'[u] = thr[u]
      /\ lock' \in [Nodes \cup {Dvp} -> Threads \cup {NULL}] /\ \A u \in Threads : LockOk(u)'
      /\ Formed(thr[t])' /\ InUse(thr[t])'
      /\ CurrentOk(thr[t])' /\ RenameOk(thr[t])' /\ VersionOk(thr[t])' /\ LengthOk(thr[t])'
  BY <1>1, EndFacts
<1>3. /\ cause' \in [Names -> Reasons] /\ \A a \in Names \ {r.nm} : cause'[a] = cause[a]
      /\ cause'[r.nm] = IF kern.names[r.nm] = "negative" THEN "refused" ELSE cause[r.nm]
  BY <1>1 DEF Reasons
<1>4. ASSUME NEW a \in Names
      PROVE  Settled(a) \/ (kern'.names[a] = kern.names[a] /\ cause'[a] = cause[a] /\ NotLeft(t, a))
  <2>1. CASE a = r.nm /\ kern.names[a] = "negative"
    BY <1>3, <2>1 DEF Settled
  <2>2. CASE ~(a = r.nm /\ kern.names[a] = "negative")
    <3>1. cause'[a] = cause[a]
      BY <1>3, <2>2
    <3>2. NotLeft(t, a)
      BY <2>2 DEF NotLeft, Mends, Creates
    <3> QED BY <3>1, <3>2
  <2> QED BY <2>1, <2>2
<1>5. \A n \in Nodes : Duties(t, n)
  BY DEF Duties, Renews, Resizes, Forgets
<1>6. late' \subseteq Requests /\ \A q \in late' : q \in late
  BY <1>1 DEF TypesOk
<1>7. /\ \A n \in Nodes : tag[n] \subseteq tag'[n]
      /\ tag' \in [Nodes -> SUBSET Fates] /\ kern' \in Caches
      /\ \A n \in Nodes : kern'.valid[n] => kern.valid[n]
      /\ \A a \in Names : kern'.names[a] \in {kern.names[a], "miss"}
  BY <1>1
<1> QED BY <1>2, <1>3, <1>4, <1>5, <1>6, <1>7, QuietStep

\* The vnode is made, and its name and attributes are cached.
Entered(r) ==
    /\ kern' = CacheAttrs(Enter(Vget(kern, r.ans, FALSE), r, r.ans.node), r.ans.node, r.ans)
    /\ cause' = EnterCause(r) /\ tag' = Tagged(r.ans.node, VgetTags(r.ans, FALSE))

\* fuse_internal_newentry_core that makes the vnode
LEMMA NewentryEnds ==
    ASSUME CacheInv, NEW t \in Threads, NEW r, r = thr[t], r.pc = "done", r.stage = "run", r.ans.ok,
           r.op = "newentry", Entered(r),
           thr' = [thr EXCEPT ![t] = IdleThread], Release(t), UNCHANGED <<sync, fs, flight, late>>
    PROVE  CacheInv'
<1>1. r.op = "newentry"
  OBVIOUS
<1>2. /\ CacheTypes /\ sync \in BOOLEAN /\ kern \in Caches /\ cause \in [Names -> Reasons] /\ r.over \in BOOLEAN
      /\ r.ans \in Answers /\ r.ans.node \in Nodes /\ Holds(r, Dvp) /\ r.op \in NameOps /\ Name(r) \in Names /\ CurrentOk(r)
  BY <1>1, MakeFacts
<1>3. PICK n \in Nodes, ans \in Answers : n = r.ans.node /\ ans = r.ans
  BY <1>2
<1>4. PICK early \in BOOLEAN : early = FALSE
  OBVIOUS
<1>5. /\ kern' = CacheAttrs(Enter(Vget(kern, ans, early), r, n), n, ans)
      /\ tag' = Tagged(n, VgetTags(ans, early)) /\ cause' = EnterCause(r)
  BY <1>3, <1>4 DEF Entered
<1>6. PICK k : k = Enter(Vget(kern, ans, early), r, n)
  OBVIOUS
<1>7. /\ k \in Caches /\ k.vn = kern.vn \cup {n} /\ k.dirty = kern.dirty
      /\ \A m \in Nodes \ {n} : k.valid[m] = kern.valid[m] /\ k.va[m] = kern.va[m] /\ k.filesize[m] = kern.filesize[m]
      /\ n \in kern.vn => k.filesize = kern.filesize /\ k.va = kern.va /\ k.valid = kern.valid
      /\ n \notin kern.vn => k.filesize[n] = ans.size /\ k.valid[n] = early
      /\ \A a \in Names : k.names[a] = IF MakeEntry(r) /\ a = Name(r) THEN n ELSE kern.names[a]
      /\ k.direct = kern.direct
  BY <1>2, <1>3, <1>6, EnteredFacts
<1>8. /\ kern' \in Caches /\ kern'.vn = k.vn /\ kern'.dirty = k.dirty /\ kern'.names = k.names
      /\ kern'.filesize = k.filesize
      /\ \A m \in Nodes \ {n} : kern'.valid[m] = k.valid[m] /\ kern'.va[m] = k.va[m]
      /\ kern'.va[n].ver = ans.ver /\ kern'.va[n].size \in {ans.size, kern'.filesize[n]}
      /\ kern'.direct = k.direct
  BY <1>2, <1>5, <1>6, <1>7, AttrsBrought
<1>9. Brought(n, ans, early)
  <2>1. \A a \in Names : kern'.names[a] \in {kern.names[a], "miss", n}
    BY <1>7, <1>8
  <2> QED BY <1>7, <1>8, <2>1 DEF Brought
<1>10. /\ cause' \in [Names -> Reasons]
       /\ \A a \in Names : ~(MakeEntry(r) /\ a = Name(r)) => cause'[a] = cause[a]
       /\ MakeEntry(r) /\ r.over => cause'[Name(r)] = "overtaken"
  BY <1>2, <1>5, EnterCauseFacts
<1>11. \A a \in Names : NotLeft(t, a)
  BY <1>1 DEF NotLeft, Mends, Creates
<1>12. ~r.over => fs'.dir[Name(r)] = n
  BY <1>1, <1>2, <1>3 DEF CurrentOk, Answered
<1>13. NamesKept(t)
  <2> SUFFICES ASSUME NEW a \in Names
               PROVE  Settled(a) \/ (kern'.names[a] = kern.names[a] /\ cause'[a] = cause[a] /\ NotLeft(t, a))
    BY DEF NamesKept
  <2>1. CASE MakeEntry(r) /\ a = Name(r)
    <3>1. kern'.names[a] = n
      BY <1>7, <1>8, <2>1
    <3> QED BY <1>10, <1>12, <2>1, <3>1 DEF Settled
  <2>2. CASE ~(MakeEntry(r) /\ a = Name(r))
    <3>1. kern'.names[a] = kern.names[a]
      BY <1>7, <1>8, <2>2
    <3> QED BY <1>10, <1>11, <2>2, <3>1
  <2> QED BY <2>1, <2>2
<1>14. /\ IdleThread \in Requests /\ Formed(IdleThread) /\ IdleThread.pc \in {"idle", "ready"}
       /\ IdleThread.op \in NameOps \cup {"none"} /\ {IdleThread.vp, IdleThread.vp2} \ {NULL} \subseteq kern'.vn
  BY IdleFacts
<1>15. ans.node = n /\ Holds(thr[t], Dvp) /\ thr[t].op \in NameOps /\ thr[t].op \in {"create", "newentry"}
  BY <1>1, <1>2, <1>3
<1>16. Leaves(t, IdleThread)
  BY <1>14, <1>15 DEF Leaves
<1>17. Recorded(n, ans, early)
  BY <1>5 DEF Recorded
<1> QED BY <1>9, <1>10, <1>13, <1>15, <1>16, <1>17, VgetStep

-----------------------------------------------------------------------------
(* The daemon executes a request *)

\* Name a is right, excused, in thread t's care, or it was so before the step.
NameServed(t, a) ==
    /\ Wrong(a)' => \/ cause'[a] \in {"overtaken", "moved", "rmdir", "abandoned"}
                    \/ t \in Threads /\ Mends(thr'[t], a)
                    \/ Wrong(a) /\ (cause'[a] = cause[a] \/ cause[a] = "none")
    /\ kern.names[a] = "negative" /\ fs'.dir[a] # NULL =>
                    \/ cause'[a] \in {"overtaken", "moved", "made", "refused", "abandoned"}
                    \/ t \in Threads /\ Creates(thr'[t], a)
                    \/ fs.dir[a] # NULL /\ cause'[a] = cause[a]

\* An answer that has come is still current, or is marked.
Fresh(u) ==
    thr[u].pc = "done" => \/ thr'[u].over
                          \/ /\ ~thr[u].over
                             /\ \A a \in Names : a \in {thr[u].nm, thr[u].nm2} => fs'.dir[a] = fs.dir[a]

\* the names after it
LEMMA NamesServed ==
    ASSUME CacheTypes, NamesInv, NEW t, Others(t), kern' = kern, t \in Threads => ~Answered(thr[t]),
           \A u \in Threads \ {t} : Fresh(u), \A a \in Names : NameServed(t, a),
           t \in Threads => CurrentOk(thr[t])' /\ RenameOk(thr[t])'
    PROVE  NamesInv'
<1>1. ASSUME NEW u \in Threads, u # t PROVE CurrentOk(thr[u])' /\ RenameOk(thr[u])'
  <2>1. Like(thr'[u], thr[u]) /\ Fresh(u) /\ CurrentOk(thr[u]) /\ RenameOk(thr[u]) /\ Formed(thr[u]) /\ thr[u] \in Requests
    BY <1>1 DEF Others, NamesInv, CacheTypes, TypesOk
  <2>2. RenameOk(thr[u])'
    BY <2>1 DEF RenameOk, Like
  <2>3. Name(thr'[u]) = Name(thr[u]) /\ (Answered(thr'[u]) <=> Answered(thr[u]))
    BY <2>1, LikeFacts
  <2>4. ASSUME Answered(thr'[u]), ~thr'[u].over, thr'[u].stage # "run" \/ thr'[u].op = "newentry"
        PROVE  thr'[u].ans.node = fs'.dir[Name(thr'[u])]
    <3>1. Answered(thr[u]) /\ thr[u].pc = "done" /\ thr'[u].ans = thr[u].ans
          /\ (thr[u].stage # "run" \/ thr[u].op = "newentry")
      BY <2>1, <2>3, <2>4 DEF Like, Answered
    <3>2. /\ ~thr[u].over
          /\ \A a \in Names : a \in {thr[u].nm, thr[u].nm2} => fs'.dir[a] = fs.dir[a]
      BY <2>1, <2>4, <3>1 DEF Fresh
    <3>3. thr[u].ans.node = fs.dir[Name(thr[u])]
      BY <2>1, <3>1, <3>2 DEF CurrentOk
    <3>4. thr[u].op \in NameOps
      BY <2>1, <3>1 DEF Formed, Requests, NameOps
    <3>5. Name(thr[u]) \in Names /\ Name(thr[u]) \in {thr[u].nm, thr[u].nm2}
      BY <2>1, <3>4 DEF Formed, Name
    <3> QED BY <2>3, <3>1, <3>2, <3>3, <3>5
  <2>5. CurrentOk(thr[u])'
    BY <2>4 DEF CurrentOk, Answered, Name
  <2> QED BY <2>2, <2>5
<1>2. ASSUME NEW a \in Names PROVE PositiveOk(a)'
  <2> SUFFICES ASSUME Wrong(a)', ~(cause'[a] \in {"overtaken", "moved", "rmdir", "abandoned"})
               PROVE  \E u \in Threads : Mends(thr[u], a)'
    BY DEF PositiveOk
  <2>1. CASE t \in Threads /\ Mends(thr'[t], a)
    BY <2>1 DEF Mends, Answered
  <2>2. CASE Wrong(a) /\ (cause'[a] = cause[a] \/ cause[a] = "none")
    <3>1. PICK u \in Threads : Mends(thr[u], a)
      BY <2>2 DEF NamesInv, PositiveOk
    <3>2. u # t
      BY <3>1 DEF Mends
    <3>3. Like(thr'[u], thr[u])
      BY <3>2 DEF Others
    <3>4. Mends(thr'[u], a)
      BY <3>1, <3>3, LikeDuties
    <3> QED BY <3>4 DEF Mends, Answered
  <2> QED BY <2>1, <2>2 DEF NameServed
<1>3. ASSUME NEW a \in Names PROVE NegativeOk(a)'
  <2> SUFFICES ASSUME kern.names[a] = "negative", fs'.dir[a] # NULL,
                      ~(cause'[a] \in {"overtaken", "moved", "made", "refused", "abandoned"})
               PROVE  \E u \in Threads : Creates(thr[u], a)'
    BY DEF NegativeOk
  <2>1. CASE t \in Threads /\ Creates(thr'[t], a)
    BY <2>1 DEF Creates, Answered
  <2>2. CASE fs.dir[a] # NULL /\ cause'[a] = cause[a]
    <3>1. PICK u \in Threads : Creates(thr[u], a)
      BY <2>2 DEF NamesInv, NegativeOk
    <3>2. u # t
      BY <3>1 DEF Creates
    <3>3. Like(thr'[u], thr[u])
      BY <3>2 DEF Others
    <3>4. Creates(thr'[u], a)
      BY <3>1, <3>3, LikeDuties
    <3> QED BY <3>4 DEF Creates, Answered
  <2> QED BY <2>1, <2>2 DEF NameServed
<1> QED BY <1>1, <1>2, <1>3 DEF NamesInv

\* What has happened to node n is excused or in thread t's care.
NodeServed(t, n) ==
    /\ \/ fs'.ver[n] = fs.ver[n]
       \/ tag'[n] \cap AttrTags # {}
       \/ t \in Threads /\ Renews(thr'[t], n)
    /\ \/ fs'.size[n] = fs.size[n]
       \/ tag'[n] \cap SizeTags # {}
       \/ t \in Threads /\ lock[n] = t /\ Resizes(thr'[t], n) /\ Forgets(thr'[t], n)

\* What becomes of thread t, which waited.
ThreadServed(t) ==
    /\ thr[t].pc = "sent" /\ (thr[t].op = "write" => thr'[t].op = "write" /\ thr'[t].vp = thr[t].vp)
    /\ \A x \in Nodes \cup {Dvp} : Holds(thr[t], x)' <=> Holds(thr[t], x)
    /\ Formed(thr[t])' /\ InUse(thr[t])'
    /\ CurrentOk(thr[t])' /\ RenameOk(thr[t])' /\ VersionOk(thr[t])' /\ LengthOk(thr[t])'

\* the step as a whole
LEMMA ServedStep ==
    ASSUME CacheInv, NEW t, UNCHANGED <<sync, kern, flight, lock>>, late' \subseteq late, fs' \in Daemon, Small(fs)',
           thr' \in [Threads -> Requests], Others(t), t \in Threads => ThreadServed(t),
           cause' \in [Names -> Reasons], tag' \in [Nodes -> SUBSET Fates], \A n \in Nodes : tag[n] \subseteq tag'[n],
           \A u \in Threads \ {t} : Fresh(u), \A a \in Names : NameServed(t, a), \A n \in Nodes : NodeServed(t, n)
    PROVE  CacheInv'
<1>1. /\ CacheTypes /\ NamesInv /\ AttrInv /\ SizeInv /\ TypesOk /\ VnodesOk
  BY DEF CacheInv, CacheTypes, SizeInv
<1>2. t \in Threads => \A x \in Nodes \cup {Dvp} : Holds(thr[t], x)' <=> Holds(thr[t], x)
  BY DEF ThreadServed
<1>3. /\ lock' \in [Nodes \cup {Dvp} -> Threads \cup {NULL}]
      /\ \A u \in Threads : LockOk(u)'
  BY <1>1, <1>2, LocksKept
<1>4. TypesOk'
  BY <1>1, <1>3 DEF TypesOk, Reasons, Fates
<1>5. VnodesOk' /\ kern.vn \subseteq kern'.vn
  BY <1>1 DEF VnodesOk
<1>6. t \in Threads => Formed(thr[t])' /\ InUse(thr[t])'
  BY DEF ThreadServed
<1>7. \A r \in late' : r \in late
  OBVIOUS
<1>8. CacheTypes'
  BY <1>1, <1>3, <1>4, <1>5, <1>6, <1>7, TypesStep
<1>9. NamesInv'
  <2>1. t \in Threads => ~Answered(thr[t])
    BY DEF ThreadServed, Answered
  <2>2. t \in Threads => CurrentOk(thr[t])' /\ RenameOk(thr[t])'
    BY DEF ThreadServed
  <2> QED BY <1>1, <2>1, <2>2, NamesServed
<1>10. t \in Threads => \A n \in Nodes : /\ ~Renews(thr[t], n)
                                         /\ Forgets(thr[t], n) => Forgets(thr'[t], n)
                                         /\ Resizes(thr[t], n) => Resizes(thr'[t], n)
  BY DEF ThreadServed, Renews, Forgets, Resizes, Answered
<1>11. AttrInv'
  <2>1. \A n \in Nodes : fs'.ver[n] = fs.ver[n] \/ tag'[n] \cap AttrTags # {}
                              \/ (t \in Threads /\ Holds(thr'[t], n))
    BY RenewsHolds DEF NodeServed
  <2>2. \A n \in Nodes : AttrStays(t, n)
    BY <1>10 DEF NodeServed, AttrStays
  <2>3. t \in Threads => VersionOk(thr[t])'
    BY DEF ThreadServed
  <2> QED BY <1>1, <1>8, <2>1, <2>2, <2>3, AttrStep
<1>12. SizeInv'
  <2>1. ASSUME NEW n \in Nodes PROVE fs'.size[n] = fs.size[n] => Steady(n)
    BY Still
  <2>2. \A n \in Nodes : Steady(n) \/ Loose(n) \/ Locked(t, n) \/ n \notin kern'.vn
    BY <2>1 DEF NodeServed, Loose, Locked, Excused
  <2>3. ASSUME NEW n \in Nodes PROVE LengthStays(t, n)
    BY <1>10, <2>1 DEF NodeServed, LengthStays, Excused
  <2>4. ASSUME NEW n \in Nodes PROVE ValidStays(t, n)
    BY <1>10 DEF NodeServed, ValidStays, Paged
  <2>5. t \in Threads => LengthOk(thr[t])'
    BY DEF ThreadServed
  <2> QED BY <1>1, <1>5, <1>8, <2>2, <2>3, <2>4, <2>5, LengthStep
<1> QED BY <1>8, <1>9, <1>11, <1>12 DEF CacheInv

\* the threads whose answers it overtakes
LEMMA OvertakeFacts ==
    ASSUME NEW T \in [Threads -> Requests], NEW d, thr' = Overtake(T, d)
    PROVE  /\ thr' \in [Threads -> Requests]
           /\ \A u \in Threads : Like(thr'[u], T[u])
           /\ \A u \in Threads : thr[u].pc = "done" =>
                 thr'[u].over \/ (~T[u].over /\ \A a \in Names : a \in {T[u].nm, T[u].nm2} => d.dir[a] = fs.dir[a])
<1> DEFINE late_(u) == thr[u].pc = "done" /\ \E a \in Names : a \in {T[u].nm, T[u].nm2} /\ d.dir[a] # fs.dir[a]
<1>1. thr' = [u \in Threads |-> [T[u] EXCEPT !.over = T[u].over \/ late_(u)]]
  BY DEF Overtake
<1>2. ASSUME NEW u \in Threads
      PROVE  /\ thr'[u] \in Requests /\ Like(thr'[u], T[u])
             /\ thr[u].pc = "done" => thr'[u].over \/ (~T[u].over /\ \A a \in Names : a \in {T[u].nm, T[u].nm2} => d.dir[a] = fs.dir[a])
  <2>1. PICK o \in BOOLEAN : o = (T[u].over \/ late_(u))
    OBVIOUS
  <2>2. T[u] \in Requests
    OBVIOUS
  <2>3. thr'[u] = [T[u] EXCEPT !.over = o]
    BY <1>1, <2>1
  <2>4. thr'[u] \in Requests /\ thr'[u].over = o /\ Like(thr'[u], T[u])
    BY <2>2, <2>3 DEF Requests, Like
  <2>5. o <=> T[u].over \/ late_(u)
    BY <2>1
  <2> QED BY <2>4, <2>5
<1>3. thr' = [u \in Threads |-> thr'[u]]
  BY <1>1
<1> QED BY <1>2, <1>3

\* what the history says of it
LEMMA ChangedFacts ==
    ASSUME CacheTypes, NEW r, NEW d, NEW gaveup \in BOOLEAN, Changed(r, d, gaveup)
    PROVE  /\ cause' \in [Names -> Reasons] /\ tag' \in [Nodes -> SUBSET Fates]
           /\ \A n \in Nodes : tag[n] \subseteq tag'[n]
           /\ \A a \in Names : d.dir[a] = fs.dir[a] \/ (Wrong(a) /\ cause[a] # "none") => cause'[a] = cause[a]
           /\ \A a \in Names : ~(d.dir[a] = fs.dir[a] \/ (Wrong(a) /\ cause[a] # "none")) =>
                 cause'[a] = IF gaveup THEN "abandoned" ELSE CauseOf(r, a)
           /\ \A n \in Nodes : ~(d.ver[n] = fs.ver[n] /\ d.size[n] = fs.size[n]) =>
                 /\ gaveup => "abandoned" \in tag'[n]
                 /\ ~gaveup /\ n \notin Locks(r) => "moved" \in tag'[n]
                 /\ ~gaveup /\ r.op = "rename" => tag'[n] \cap {"moved", "replaced"} # {}
<1>1. cause \in [Names -> Reasons] /\ tag \in [Nodes -> SUBSET Fates]
  BY DEF CacheTypes, TypesOk, Reasons, Fates
<1>2. \A a : CauseOf(r, a) \in Reasons
  BY DEF CauseOf, Reasons
<1>3. cause' = [a \in Names |->
                   IF d.dir[a] = fs.dir[a] \/ (Wrong(a) /\ cause[a] # "none") THEN cause[a]
                   ELSE IF gaveup THEN "abandoned" ELSE CauseOf(r, a)]
  BY DEF Changed
<1>4. tag' = [n \in Nodes |->
                 IF d.ver[n] = fs.ver[n] /\ d.size[n] = fs.size[n] THEN tag[n]
                 ELSE tag[n] \cup (IF gaveup THEN {"abandoned"}
                                   ELSE IF n \notin Locks(r) THEN {"moved"}
                                   ELSE IF r.op = "rename" THEN {"replaced"} ELSE {})]
  BY DEF Changed
<1>5. "abandoned" \in Reasons
  BY DEF Reasons
<1>6. cause' \in [Names -> Reasons]
  BY <1>1, <1>2, <1>3, <1>5
<1>7. \A a \in Names : d.dir[a] = fs.dir[a] \/ (Wrong(a) /\ cause[a] # "none") => cause'[a] = cause[a]
  BY <1>3
<1>8. \A a \in Names : ~(d.dir[a] = fs.dir[a] \/ (Wrong(a) /\ cause[a] # "none")) =>
                 cause'[a] = IF gaveup THEN "abandoned" ELSE CauseOf(r, a)
  BY <1>3
<1>9. ASSUME NEW n \in Nodes
      PROVE  /\ tag'[n] \in SUBSET Fates /\ tag[n] \subseteq tag'[n]
             /\ ~(d.ver[n] = fs.ver[n] /\ d.size[n] = fs.size[n]) =>
                 /\ gaveup => "abandoned" \in tag'[n]
                 /\ ~gaveup /\ n \notin Locks(r) => "moved" \in tag'[n]
                 /\ ~gaveup /\ r.op = "rename" => tag'[n] \cap {"moved", "replaced"} # {}
  <2>1. tag[n] \in SUBSET Fates /\ {"abandoned", "moved", "replaced"} \subseteq Fates
    BY <1>1 DEF Fates
  <2>2. CASE d.ver[n] = fs.ver[n] /\ d.size[n] = fs.size[n]
    BY <1>4, <2>1, <2>2
  <2>3. CASE ~(d.ver[n] = fs.ver[n] /\ d.size[n] = fs.size[n])
    <3>1. tag'[n] = tag[n] \cup (IF gaveup THEN {"abandoned"}
                                   ELSE IF n \notin Locks(r) THEN {"moved"}
                                   ELSE IF r.op = "rename" THEN {"replaced"} ELSE {})
      BY <1>4, <2>3
    <3> QED BY <2>1, <3>1
  <2> QED BY <2>2, <2>3
<1>10. tag' \in [Nodes -> SUBSET Fates]
  BY <1>4, <1>9
<1> QED BY <1>6, <1>7, <1>8, <1>9, <1>10

\* the outcomes of a request
LEMMA Outcomes ==
    ASSUME CacheTypes, NEW r \in Requests, Formed(r), r.pc = "sent", NEW out \in Exec(fs, r) \cup {<<fs, Fail>>}
    PROVE  /\ Executed(fs, r, out[1], out[2]) \/ (out[1] = fs /\ out[2] = Fail)
           /\ out[1] \in Daemon /\ Small(out[1]) /\ out[2] \in Answers
<1>1. fs \in Daemon /\ Small(fs)
  BY DEF CacheTypes, TypesOk
<1>2. CASE out \in Exec(fs, r)
  BY <1>1, <1>2, ExecFacts DEF Executed
<1>3. CASE out = <<fs, Fail>>
  BY <1>1, <1>3, FailFacts
<1> QED BY <1>2, <1>3

\* nobody waits for it any more
LEMMA ServeLateKeeps ==
    ASSUME CacheInv, NEW r \in late, ServeLate(r)
    PROVE  CacheInv'
<1>1. /\ CacheTypes /\ TypesOk /\ r \in Requests /\ Formed(r) /\ r.pc = "sent" /\ thr \in [Threads -> Requests]
  BY DEF CacheInv, CacheTypes, TypesOk
<1>2. PICK out \in Exec(fs, r) \cup {<<fs, Fail>>} :
        fs' = out[1] /\ thr' = Overtake(thr, out[1]) /\ Changed(r, out[1], TRUE)
  BY DEF ServeLate
<1>3. UNCHANGED <<sync, kern, flight, lock>> /\ late' \subseteq late
  BY DEF ServeLate
<1>4. fs' \in Daemon /\ Small(out[1])
  BY <1>1, <1>2, Outcomes
<1>5. Small(fs)'
  BY <1>2, <1>4 DEF Small
<1>6. /\ thr' \in [Threads -> Requests]
      /\ \A u \in Threads : Like(thr'[u], thr[u])
      /\ \A u \in Threads : thr[u].pc = "done" =>
            thr'[u].over \/ (~thr[u].over /\ \A a \in Names : a \in {thr[u].nm, thr[u].nm2} => out[1].dir[a] = fs.dir[a])
  BY <1>1, <1>2, OvertakeFacts
<1>7. Others(NULL) /\ \A u \in Threads \ {NULL} : Fresh(u)
  BY <1>2, <1>6 DEF Others, Fresh
<1>8. /\ cause' \in [Names -> Reasons] /\ tag' \in [Nodes -> SUBSET Fates]
      /\ \A n \in Nodes : tag[n] \subseteq tag'[n]
      /\ \A a \in Names : out[1].dir[a] = fs.dir[a] \/ (Wrong(a) /\ cause[a] # "none") => cause'[a] = cause[a]
      /\ \A a \in Names : ~(out[1].dir[a] = fs.dir[a] \/ (Wrong(a) /\ cause[a] # "none")) => cause'[a] = "abandoned"
      /\ \A n \in Nodes : ~(out[1].ver[n] = fs.ver[n] /\ out[1].size[n] = fs.size[n]) => "abandoned" \in tag'[n]
  <2>0. PICK d : d = out[1]
    OBVIOUS
  <2>1. PICK gaveup \in BOOLEAN : gaveup = TRUE
    OBVIOUS
  <2>2. Changed(r, d, gaveup)
    BY <1>2, <2>0, <2>1
  <2>3. /\ cause' \in [Names -> Reasons] /\ tag' \in [Nodes -> SUBSET Fates]
        /\ \A n \in Nodes : tag[n] \subseteq tag'[n]
        /\ \A a \in Names : d.dir[a] = fs.dir[a] \/ (Wrong(a) /\ cause[a] # "none") => cause'[a] = cause[a]
        /\ \A a \in Names : ~(d.dir[a] = fs.dir[a] \/ (Wrong(a) /\ cause[a] # "none")) =>
              cause'[a] = IF gaveup THEN "abandoned" ELSE CauseOf(r, a)
        /\ \A n \in Nodes : ~(d.ver[n] = fs.ver[n] /\ d.size[n] = fs.size[n]) => (gaveup => "abandoned" \in tag'[n])
    BY <1>1, <2>2, ChangedFacts
  <2> QED BY <2>0, <2>1, <2>3
<1>9. ASSUME NEW a \in Names PROVE NameServed(NULL, a)
  <2>1. cause'[a] = "abandoned" \/ (cause'[a] = cause[a] /\ (fs'.dir[a] = fs.dir[a] \/ Wrong(a)))
    BY <1>2, <1>8
  <2>2. Wrong(a)' <=> kern.names[a] \in Nodes /\ kern.names[a] # fs'.dir[a]
    BY <1>3 DEF Wrong
  <2> QED BY <2>1, <2>2 DEF NameServed, Wrong
<1>10. \A n \in Nodes : NodeServed(NULL, n)
  BY <1>2, <1>8 DEF NodeServed, AttrTags, SizeTags
<1>11. NULL \in Threads => ThreadServed(NULL)
  OBVIOUS
<1> QED BY <1>3, <1>4, <1>5, <1>6, <1>7, <1>8, <1>9, <1>10, <1>11, ServedStep

\* Thread t, which waited for request r, has its answer.
Told(t, r, ans) ==
    /\ r = thr[t] /\ r \in Requests /\ r.pc = "sent" /\ thr'[t] \in Requests
    /\ thr'[t].pc = "done" /\ thr'[t].ans = ans /\ thr'[t].stage = r.stage /\ thr'[t].op = r.op
    /\ thr'[t].nm = r.nm /\ thr'[t].nm2 = r.nm2 /\ thr'[t].vp = r.vp /\ thr'[t].vp2 = r.vp2
    /\ thr'[t].end = r.end /\ thr'[t].size = r.size /\ thr'[t].iosync = r.iosync

\* What the history says of a request whose caller waits.
Noted(r) ==
    /\ \A a \in Names : fs'.dir[a] = fs.dir[a] \/ (Wrong(a) /\ cause[a] # "none") => cause'[a] = cause[a]
    /\ \A a \in Names : ~(fs'.dir[a] = fs.dir[a] \/ (Wrong(a) /\ cause[a] # "none")) => cause'[a] = CauseOf(r, a)
    /\ \A n \in Nodes : ~(fs'.ver[n] = fs.ver[n] /\ fs'.size[n] = fs.size[n]) =>
          /\ n \notin Locks(r) => "moved" \in tag'[n]
          /\ r.op = "rename" => tag'[n] \cap {"moved", "replaced"} # {}

\* the names it changes
LEMMA NameExecuted ==
    ASSUME CacheInv, NEW t \in Threads, NEW r, NEW ans, Told(t, r, ans), Executed(fs, r, fs', ans), Noted(r),
           kern' = kern, NEW a \in Names
    PROVE  NameServed(t, a)
<1>1. /\ r = thr[t] /\ r \in Requests /\ r.pc = "sent" /\ Formed(r) /\ RenameOk(r)
      /\ thr'[t].pc = "done" /\ (thr'[t].ans.ok \/ r.op = "write") /\ thr'[t].stage = r.stage /\ thr'[t].op = r.op
      /\ thr'[t].nm = r.nm /\ thr'[t].nm2 = r.nm2 /\ thr'[t].vp = r.vp /\ thr'[t].vp2 = r.vp2
  BY DEF Told, CacheInv, CacheTypes, NamesInv, Executed
<1>2. DirStep(fs, r, fs', ans)
  BY DEF Executed
<1>3. fs.dir[a] \in Nodes \cup {NULL} /\ (r.op # "write" => Answered(thr'[t]))
  BY <1>1 DEF CacheInv, CacheTypes, TypesOk, Daemon, Answered
<1>4. Wrong(a)' <=> kern.names[a] \in Nodes /\ kern.names[a] # fs'.dir[a]
  BY DEF Wrong
<1>5. CASE fs'.dir[a] = fs.dir[a]
  BY <1>4, <1>5 DEF Noted, NameServed, Wrong
<1>6. CASE Wrong(a) /\ cause[a] # "none"
  BY <1>6 DEF Noted, NameServed, Wrong
<1>7. CASE fs'.dir[a] # fs.dir[a] /\ (Wrong(a) => cause[a] = "none")
  <2>1. cause'[a] = CauseOf(r, a)
    BY <1>7 DEF Noted
  <2>2. a \in {r.nm, r.nm2} /\ r.op \notin FileOps /\ r.stage = "run"
    BY <1>2, <1>7 DEF DirStep
  <2>3. r.op \in {"create", "newentry", "remove", "rmdir", "rename", "link"} /\ (r.op # "rename" => a = r.nm)
    BY <1>1, <2>2 DEF Formed, Requests, NameOps
  <2>4. ASSUME Wrong(a)', ~Wrong(a) PROVE kern.names[a] = fs.dir[a] /\ kern.names[a] \in Nodes
    BY <1>4, <2>4 DEF Wrong
  <2>5. CASE r.op \in {"create", "newentry", "link"}
    <3>1. fs.dir[a] = NULL
      BY <1>2, <1>7, <2>2, <2>3, <2>5 DEF DirStep
    <3>2. Wrong(a)' => Wrong(a)
      BY <2>4, <3>1
    <3>3. r.op = "create" => Creates(thr'[t], a)
      BY <1>1, <1>3, <2>2, <2>3 DEF Creates
    <3>4. r.op # "create" => cause'[a] = "made"
      BY <2>1, <2>5 DEF CauseOf
    <3> QED BY <1>7, <3>2, <3>3, <3>4 DEF NameServed
  <2>6. CASE r.op \in {"remove", "rmdir"}
    <3>1. fs'.dir[a] = NULL
      BY <1>2, <2>2, <2>3, <2>6 DEF DirStep
    <3>2. CASE fs.dir[r.nm] # r.vp
      <4>1. cause'[a] = "moved"
        BY <2>1, <2>6, <3>2 DEF CauseOf, Moved
      <4> QED BY <4>1 DEF NameServed
    <3>3. CASE fs.dir[r.nm] = r.vp /\ r.op = "rmdir"
      <4>1. cause'[a] = "rmdir"
        BY <2>1, <3>3 DEF CauseOf, Moved
      <4> QED BY <3>1, <4>1 DEF NameServed
    <3>4. CASE fs.dir[r.nm] = r.vp /\ r.op = "remove"
      <4>1. Wrong(a)' /\ ~Wrong(a) => Mends(thr'[t], a)
        BY <1>1, <1>3, <2>2, <2>3, <2>4, <3>4 DEF Mends
      <4> QED BY <1>7, <3>1, <4>1 DEF NameServed
    <3> QED BY <2>6, <3>2, <3>3, <3>4
  <2>7. CASE r.op = "rename"
    <3>1. r.nm \in Names /\ r.nm2 \in Names \ {r.nm}
      BY <1>1, <2>7 DEF Formed, NameOps
    <3>2. CASE Moved(r)
      <4>1. cause'[a] = "moved"
        BY <2>1, <2>7, <3>2 DEF CauseOf
      <4> QED BY <4>1 DEF NameServed
    <3>3. CASE ~Moved(r) /\ a = r.nm
      <4>1. fs.dir[a] = r.vp /\ fs'.dir[a] = NULL
        BY <1>2, <1>7, <2>2, <2>7, <3>3 DEF Moved, DirStep
      <4>2. kern.names[a] # r.vp
        BY <1>1, <2>2, <2>7 DEF RenameOk
      <4>3. Wrong(a)' => Wrong(a)
        BY <2>4, <4>1, <4>2
      <4> QED BY <1>7, <4>1, <4>3 DEF NameServed
    <3>4. CASE ~Moved(r) /\ a = r.nm2
      <4>1. fs.dir[a] = r.vp2
        BY <2>7, <3>4 DEF Moved
      <4>2. cause'[a] = "made"
        BY <2>1, <2>7, <3>4 DEF CauseOf
      <4>3. Wrong(a)' /\ ~Wrong(a) => Mends(thr'[t], a)
        BY <1>1, <1>3, <2>2, <2>4, <2>7, <3>4, <4>1 DEF Mends
      <4> QED BY <1>7, <4>2, <4>3 DEF NameServed
    <3> QED BY <2>2, <3>2, <3>3, <3>4
  <2> QED BY <2>3, <2>5, <2>6, <2>7
<1> QED BY <1>5, <1>6, <1>7

\* the nodes it changes
LEMMA NodeExecuted ==
    ASSUME CacheInv, NEW t \in Threads, NEW r, NEW ans, Told(t, r, ans), Executed(fs, r, fs', ans), Noted(r),
           NEW n \in Nodes
    PROVE  NodeServed(t, n)
<1>1. /\ r = thr[t] /\ r \in Requests /\ r.pc = "sent" /\ Formed(r) /\ LockOk(t)
      /\ thr'[t].pc = "done" /\ (thr'[t].ans.ok \/ r.op = "write") /\ thr'[t].stage = r.stage /\ thr'[t].op = r.op
      /\ thr'[t].vp = r.vp /\ thr'[t].vp2 = r.vp2
  BY DEF Told, CacheInv, CacheTypes, NamesInv, Executed
<1>2. VerStep(fs, r, fs', ans) /\ SizeStep(fs, r, fs', ans)
  BY DEF Executed
<1>3. \/ fs'.ver[n] = fs.ver[n] \/ tag'[n] \cap AttrTags # {} \/ Renews(thr'[t], n)
  <2> SUFFICES ASSUME fs'.ver[n] # fs.ver[n], ~(tag'[n] \cap AttrTags # {})
               PROVE  Renews(thr'[t], n)
    OBVIOUS
  <2>1. n \in Locks(r) /\ r.op # "rename"
    BY DEF Noted, AttrTags
  <2>2. /\ r.stage = "run"
        /\ \/ r.op \in {"remove", "rmdir"} \/ (r.op \in {"link", "chmod", "truncate", "write"} /\ n = r.vp)
           \/ r.op = "exchange" /\ n \in {r.vp, r.vp2}
    BY <1>2, <2>1 DEF VerStep
  <2>3. r.op # "exchange" => n = r.vp
    BY <2>1, <2>2 DEF Locks
  <2> QED BY <1>1, <2>2, <2>3 DEF Renews
<1>4. fs'.size[n] = fs.size[n] \/ (lock[n] = t /\ Resizes(thr'[t], n) /\ Forgets(thr'[t], n))
  <2> SUFFICES ASSUME fs'.size[n] # fs.size[n]
               PROVE  lock[n] = t /\ Resizes(thr'[t], n) /\ Forgets(thr'[t], n)
    OBVIOUS
  <2>1. r.op \in {"truncate", "write", "exchange"} /\ n \in {r.vp, r.vp2} /\ r.op \in FileOps
    BY <1>2 DEF SizeStep, FileOps
  <2>2. r.op # "exchange" => n = r.vp
    BY <1>1, <2>1 DEF Formed
  <2>3. Holds(r, n)
    BY <1>1, <2>1, <2>2, FileHolds
  <2>4. lock[n] = t
    BY <1>1, <2>3 DEF LockOk
  <2>5. r.op # "write" => Answered(thr'[t])
    BY <1>1 DEF Answered
  <2> QED BY <1>1, <2>1, <2>2, <2>4, <2>5 DEF Resizes, Forgets
<1> QED BY <1>3, <1>4 DEF NodeServed

\* only who has a file's lock will set its size
LEMMA ResizesHolds ==
    ASSUME CacheTypes, NEW n \in Nodes, NEW u \in Threads, Resizes(thr[u], n)
    PROVE  lock[n] = u
<1>1. thr[u] \in Requests /\ Formed(thr[u])
  BY DEF CacheTypes, TypesOk
<1>2. thr[u].op \in FileOps /\ (n = thr[u].vp \/ (n = thr[u].vp2 /\ thr[u].op = "exchange"))
  BY DEF Resizes, FileOps
<1>3. Holds(thr[u], n)
  BY <1>1, <1>2, FileHolds
<1> QED BY <1>3 DEF CacheTypes, LockOk

\* what the lengths say of a thread that has its answer
LEMMA LengthExecuted ==
    ASSUME CacheInv, NEW t \in Threads, NEW r, NEW ans, Told(t, r, ans), Executed(fs, r, fs', ans),
           UNCHANGED <<sync, kern, flight>>, \A n \in Nodes : tag[n] \subseteq tag'[n]
    PROVE  LengthOk(thr[t])'
<1>1. /\ r = thr[t] /\ r \in Requests /\ r.pc = "sent" /\ Formed(r) /\ LengthOk(r) /\ CacheTypes /\ InUse(r)
      /\ sync \in BOOLEAN /\ fs \in Daemon /\ fs' \in Daemon /\ kern \in Caches /\ flight \in [Nodes -> Sizes]
      /\ \A n \in Nodes : LengthsOk(n)
  BY DEF Told, CacheInv, CacheTypes, TypesOk, SizeInv, Executed
<1>2. SizeStep(fs, r, fs', ans)
  BY DEF Executed
<1>3. PICK q : q = thr'[t]
  OBVIOUS
<1>4. /\ q.pc = "done" /\ q.ans = ans /\ q.op = r.op /\ q.vp = r.vp /\ q.vp2 = r.vp2 /\ q.end = r.end /\ q.size = r.size
      /\ q.iosync = r.iosync /\ q.end \in Sizes
      /\ q.op \in FileOps => q.vp \in Nodes /\ q.vp \in Files /\ (q.op = "exchange" => q.vp2 \in Nodes /\ q.vp2 \in Files)
  <2>1. r.op \in FileOps => r.vp \in Nodes /\ r.vp \in Files /\ (r.op = "exchange" => r.vp2 \in Nodes /\ r.vp2 \in Files)
    BY <1>1, FileHolds
  <2> QED BY <1>3, <2>1 DEF Told, Requests
<1>5. q.op \in {"getattr", "chmod"} => q.ans.size = fs'.size[q.vp]
  BY <1>2, <1>4 DEF SizeStep
<1>6. q.op = "truncate" => fs'.size[q.vp] = q.end
  BY <1>2, <1>4 DEF SizeStep
<1>7. ASSUME NEW n \in Nodes, Excused(n) PROVE Excused(n)'
  BY <1>7 DEF Excused
<1>8. ASSUME q.op = "write", q.vp \in Plain
      PROVE  q.iosync /\ (Due(q.vp)' = Max({q.size, q.end}) \/ Excused(q.vp)')
  <2>1. q.vp \in Nodes
    BY <1>4, <1>8 DEF FileOps
  <2>2. q.iosync /\ (Due(q.vp) = q.size \/ Excused(q.vp))
    BY <1>1, <1>4, <1>8 DEF LengthOk
  <2>3. PICK x \in Sizes, y \in Sizes, z \in Sizes, e \in Sizes :
          x = fs.size[q.vp] /\ y = kern.dirty[q.vp] /\ z = flight[q.vp] /\ e = q.end
    BY <1>1, <1>4, <2>1 DEF Daemon, Caches
  <2>4. CASE Excused(q.vp)
    BY <1>7, <2>1, <2>2, <2>4
  <2>5. CASE Due(q.vp) = q.size
    <3>1. PICK w \in Sizes, s \in Sizes : w = Max({x, e}) /\ s = Max({x, y, z})
      BY MaxTwo, MaxThree
    <3>2. fs'.size[q.vp] = w
      BY <1>2, <1>4, <1>8, <2>3, <3>1 DEF SizeStep
    <3>3. Due(q.vp)' = Max({w, y, z}) /\ q.size = s
      BY <2>3, <2>5, <3>1, <3>2 DEF Due
    <3>4. Max({w, y, z}) = Max({s, e})
      BY <3>1, MaxTwo, MaxThree, SizesNat, SMTT(30)
    <3> QED BY <2>2, <2>3, <3>3, <3>4
  <2> QED BY <2>2, <2>4, <2>5
<1>9. ASSUME q.op = "exchange"
      PROVE  /\ \A n \in {q.vp, q.vp2} : kern.dirty[n] = 0 /\ flight[n] = 0
             /\ \/ \E n \in {q.vp, q.vp2} : n \in kern.direct \/ Excused(n)'
                \/ fs'.size[q.vp] = kern.filesize[q.vp2] /\ fs'.size[q.vp2] = kern.filesize[q.vp]
  <2>1. q.vp \in Nodes /\ q.vp \in Files /\ q.vp2 \in Nodes /\ q.vp2 \in Files
    BY <1>4, <1>9 DEF FileOps
  <2>2. \A n \in {q.vp, q.vp2} : kern.dirty[n] = 0 /\ flight[n] = 0
    BY <1>1, <1>4, <1>9 DEF LengthOk
  <2>3. ASSUME NEW n \in {q.vp, q.vp2}, n \notin kern.direct, ~Excused(n)'
        PROVE  kern.filesize[n] = fs.size[n]
    <3>1. n \in Nodes /\ n \in kern.vn \cap Plain
      BY <1>1, <1>4, <2>1, <2>3 DEF Plain, InUse
    <3>2. ~Excused(n)
      BY <1>7, <2>3, <3>1
    <3>3. ~\E u \in Threads : Resizes(thr[u], n)
      <4> SUFFICES ASSUME NEW u \in Threads, Resizes(thr[u], n) PROVE FALSE
        OBVIOUS
      <4>1. lock[n] = u
        BY <1>1, <3>1, ResizesHolds
      <4>2. Holds(r, n)
        BY <1>1, <1>4, <1>9, <2>3, FileHolds DEF FileOps
      <4>3. u = t
        BY <1>1, <3>1, <4>1, <4>2 DEF CacheTypes, LockOk
      <4> QED BY <1>1, <1>4, <1>9, <4>3 DEF Resizes, Answered
    <3>4. kern.filesize[n] = Due(n)
      BY <1>1, <3>1, <3>2, <3>3 DEF LengthsOk
    <3>5. fs.size[n] \in Sizes /\ 0 \in Sizes
      BY <1>1, <3>1, SizesNat DEF Daemon
    <3>6. Max({fs.size[n], 0, 0}) = fs.size[n]
      BY <3>5, MaxThree, SizesNat
    <3>7. kern.dirty[n] = 0 /\ flight[n] = 0
      BY <2>2, <2>3
    <3> QED BY <3>4, <3>6, <3>7 DEF Due
  <2>4. fs'.size[q.vp] = fs.size[q.vp2] /\ fs'.size[q.vp2] = fs.size[q.vp]
    BY <1>2, <1>4, <1>9 DEF SizeStep
  <2> QED BY <2>2, <2>3, <2>4
<1>10. q.op = "write" /\ q.vp \in Plain' => q.iosync /\ (Due(q.vp)' = Max({q.size, q.end}) \/ Excused(q.vp)')
  BY <1>8 DEF Plain
<1>11. q.op = "exchange" =>
         /\ \A n \in {q.vp, q.vp2} : kern'.dirty[n] = 0 /\ flight'[n] = 0
         /\ \/ \E n \in {q.vp, q.vp2} : n \in kern'.direct \/ Excused(n)'
            \/ fs'.size[q.vp] = kern'.filesize[q.vp2] /\ fs'.size[q.vp2] = kern'.filesize[q.vp]
  BY <1>9
<1>12. LengthOk(q)'
  BY <1>4, <1>5, <1>6, <1>10, <1>11 DEF LengthOk, Answered
<1> QED BY <1>3, <1>12 DEF LengthOk, Answered

\* a thread that has its answer
LEMMA ThreadExecuted ==
    ASSUME CacheInv, NEW t \in Threads, NEW r, NEW ans, Told(t, r, ans),
           Executed(fs, r, fs', ans) \/ ~ans.ok,
           UNCHANGED <<sync, kern, flight, lock>>, \A n \in Nodes : tag[n] \subseteq tag'[n]
    PROVE  ThreadServed(t)
<1>1. /\ r = thr[t] /\ r \in Requests /\ r.pc = "sent" /\ Formed(r) /\ LengthOk(r) /\ CacheTypes /\ InUse(r) /\ RenameOk(r)
  BY DEF Told, CacheInv, CacheTypes, TypesOk, SizeInv, NamesInv
<1>2. PICK q \in Requests : q = thr'[t]
  BY DEF Told
<1>3. /\ q.pc = "done" /\ q.ans = ans /\ q.stage = r.stage /\ q.op = r.op /\ q.nm = r.nm /\ q.nm2 = r.nm2
      /\ q.vp = r.vp /\ q.vp2 = r.vp2 /\ q.end = r.end /\ q.size = r.size /\ q.iosync = r.iosync
  BY <1>2 DEF Told
<1>4. Formed(q)
  <2>1. ans.ok /\ r.stage = "run" /\ r.op \in {"create", "newentry"} => ans.node \in Nodes
    BY DEF Executed, DirStep
  <2> QED BY <1>1, <1>3, <2>1 DEF Formed
<1>5. Formed(thr[t])' /\ InUse(thr[t])'
  BY <1>1, <1>2, <1>3, <1>4 DEF Formed, InUse
<1>6. Locks(q) = Locks(r)
  BY <1>3 DEF Locks
<1>7. \A x \in Nodes \cup {Dvp} : Holds(thr[t], x)' <=> Holds(thr[t], x)
  <2>1. \A x : Holds(q, x) <=> Holds(r, x)
    BY <1>1, <1>3, <1>6 DEF Holds
  <2> QED BY <1>1, <1>2, <2>1 DEF Holds
<1>8. RenameOk(thr[t])'
  BY <1>1, <1>2, <1>3 DEF RenameOk
<1>9. CurrentOk(thr[t])'
  <2>1. ASSUME ans.ok, q.stage # "run" \/ q.op = "newentry" PROVE q.ans.node = fs'.dir[Name(q)]
    <3>1. DirStep(fs, r, fs', ans) /\ Name(q) = Name(r)
      BY <1>3, <2>1 DEF Executed, Name
    <3>2. CASE q.stage # "run"
      BY <1>3, <3>1, <3>2 DEF DirStep
    <3>3. CASE q.stage = "run"
      BY <1>3, <2>1, <3>1, <3>3 DEF DirStep, Name
    <3> QED BY <3>2, <3>3
  <2> QED BY <1>2, <1>3, <2>1 DEF CurrentOk, Answered, Name
<1>10. VersionOk(thr[t])'
  <2>1. ASSUME ans.ok, q.op \in {"getattr", "chmod"} PROVE q.ans.ver = fs'.ver[q.vp]
    BY <1>3, <2>1 DEF Executed, VerStep
  <2> QED BY <1>2, <1>3, <2>1 DEF VersionOk, Answered
<1>11. LengthOk(thr[t])'
  <2>1. CASE Executed(fs, r, fs', ans)
    BY <2>1, LengthExecuted
  <2>2. CASE ~ans.ok
    <3>1. q.op = "exchange" => \A n \in {q.vp, q.vp2} : kern'.dirty[n] = 0 /\ flight'[n] = 0
      BY <1>1, <1>3 DEF LengthOk
    <3> QED BY <1>2, <1>3, <2>2, <3>1 DEF LengthOk, Answered
  <2> QED BY <2>1, <2>2
<1> QED BY <1>1, <1>2, <1>3, <1>5, <1>7, <1>8, <1>9, <1>10, <1>11 DEF ThreadServed

\* a request is executed, or fails
LEMMA ServeKeeps ==
    ASSUME CacheInv, NEW t \in Threads, Serve(t)
    PROVE  CacheInv'
<1>1. PICK r : r = thr[t]
  OBVIOUS
<1>2. /\ CacheTypes /\ r \in Requests /\ Formed(r) /\ r.pc = "sent" /\ thr \in [Threads -> Requests]
      /\ UNCHANGED <<sync, kern, flight, lock, late>>
  BY <1>1 DEF CacheInv, CacheTypes, TypesOk, Serve
<1>3. PICK out \in Exec(fs, r) \cup {<<fs, Fail>>} :
        /\ fs' = out[1]
        /\ thr' = Overtake([thr EXCEPT ![t] = [r EXCEPT !.pc = "done", !.ans = out[2]]], out[1])
        /\ Changed(r, out[1], FALSE)
  BY <1>1 DEF Serve
<1>4. PICK d : d = out[1]
  OBVIOUS
<1>5. PICK ans : ans = out[2]
  OBVIOUS
<1>6. /\ Executed(fs, r, d, ans) \/ (d = fs /\ ans = Fail)
      /\ d \in Daemon /\ Small(d) /\ ans \in Answers
  BY <1>2, <1>4, <1>5, Outcomes
<1>7. PICK s : s = [r EXCEPT !.pc = "done", !.ans = ans]
  OBVIOUS
<1>8. /\ s \in Requests /\ s.pc = "done" /\ s.ans = ans /\ s.stage = r.stage /\ s.op = r.op /\ s.nm = r.nm /\ s.nm2 = r.nm2
      /\ s.vp = r.vp /\ s.vp2 = r.vp2 /\ s.end = r.end /\ s.size = r.size /\ s.iosync = r.iosync
  BY <1>2, <1>6, <1>7 DEF Requests
<1>9. PICK T : T = [thr EXCEPT ![t] = s]
  OBVIOUS
<1>10. T \in [Threads -> Requests] /\ T[t] = s /\ \A u \in Threads \ {t} : T[u] = thr[u]
  BY <1>2, <1>8, <1>9
<1>11. thr' = Overtake(T, d)
  BY <1>3, <1>4, <1>5, <1>7, <1>9
<1>12. /\ thr' \in [Threads -> Requests]
       /\ \A u \in Threads : Like(thr'[u], T[u])
       /\ \A u \in Threads : thr[u].pc = "done" =>
             thr'[u].over \/ (~T[u].over /\ \A a \in Names : a \in {T[u].nm, T[u].nm2} => d.dir[a] = fs.dir[a])
  BY <1>10, <1>11, OvertakeFacts
<1>13. fs' = d /\ Small(fs)'
  BY <1>3, <1>4, <1>6 DEF Small
<1>14. Others(t) /\ \A u \in Threads \ {t} : Fresh(u)
  BY <1>10, <1>12, <1>13 DEF Others, Fresh
<1>15. Told(t, r, ans)
  <2>1. Like(thr'[t], s) /\ thr'[t] \in Requests
    BY <1>10, <1>12
  <2> QED BY <1>1, <1>2, <1>8, <2>1 DEF Told, Like
<1>16. /\ cause' \in [Names -> Reasons] /\ tag' \in [Nodes -> SUBSET Fates]
       /\ \A n \in Nodes : tag[n] \subseteq tag'[n]
  BY <1>2, <1>3, ChangedFacts
<1>17. Noted(r)
  <2>1. PICK gaveup \in BOOLEAN : gaveup = FALSE
    OBVIOUS
  <2>2. Changed(r, d, gaveup)
    BY <1>3, <1>4, <2>1
  <2>3. /\ \A a \in Names : d.dir[a] = fs.dir[a] \/ (Wrong(a) /\ cause[a] # "none") => cause'[a] = cause[a]
        /\ \A a \in Names : ~(d.dir[a] = fs.dir[a] \/ (Wrong(a) /\ cause[a] # "none")) =>
              cause'[a] = IF gaveup THEN "abandoned" ELSE CauseOf(r, a)
        /\ \A n \in Nodes : ~(d.ver[n] = fs.ver[n] /\ d.size[n] = fs.size[n]) =>
              /\ ~gaveup /\ n \notin Locks(r) => "moved" \in tag'[n]
              /\ ~gaveup /\ r.op = "rename" => tag'[n] \cap {"moved", "replaced"} # {}
    BY <1>2, <2>2, ChangedFacts
  <2> QED BY <1>13, <2>1, <2>3 DEF Noted
<1>18. Executed(fs, r, fs', ans) \/ (fs' = fs /\ ~ans.ok)
  BY <1>6, <1>13, FailFacts
<1>19. ThreadServed(t)
  BY <1>2, <1>15, <1>16, <1>18, ThreadExecuted
<1>20. ASSUME NEW a \in Names PROVE NameServed(t, a)
  <2>1. CASE Executed(fs, r, fs', ans)
    BY <1>2, <1>15, <1>17, <2>1, NameExecuted
  <2>2. CASE fs' = fs
    <3>1. cause'[a] = cause[a]
      BY <1>17, <2>2 DEF Noted
    <3>2. Wrong(a)' <=> Wrong(a)
      BY <1>2, <2>2 DEF Wrong
    <3> QED BY <2>2, <3>1, <3>2 DEF NameServed
  <2> QED BY <1>18, <2>1, <2>2
<1>21. ASSUME NEW n \in Nodes PROVE NodeServed(t, n)
  <2>1. CASE Executed(fs, r, fs', ans)
    BY <1>15, <1>17, <2>1, NodeExecuted
  <2>2. CASE fs' = fs
    BY <2>2 DEF NodeServed
  <2> QED BY <1>18, <2>1, <2>2
<1>22. late' \subseteq late /\ fs' \in Daemon
  BY <1>2, <1>6, <1>13
<1> QED BY <1>2, <1>12, <1>13, <1>14, <1>16, <1>19, <1>20, <1>21, <1>22, ServedStep

-----------------------------------------------------------------------------
(* The steps of a thread *)

\* a system call on a name
LEMMA StartName ==
    ASSUME CacheInv, NEW t \in Threads, thr[t] = IdleThread,
           NEW op \in NameOps, NEW a \in Names, NEW b \in Names \cup {NULL}, NEW v \in kern.vn \cup {NULL}, NEW mk \in BOOLEAN,
           NEW r, r = [IdleThread EXCEPT !.stage = "find", !.op = op, !.nm = a, !.nm2 = b, !.vp = v, !.mk = mk],
           NameRequest(r), FindHit(t, r) \/ FindMiss(t, r)
    PROVE  CacheInv'
<1>1. kern.vn \subseteq Nodes
  BY DEF CacheInv, CacheTypes, TypesOk, Caches
<1>2. /\ r \in Requests /\ r.stage = "find" /\ r.op = op /\ r.nm = a /\ r.nm2 = b /\ r.vp = v /\ r.vp2 = NULL
  BY <1>1, IdleFacts DEF Requests, IdleThread
<1>3. Asked(r)
  BY <1>2 DEF NameRequest, Asked
<1>4. InUse(r)
  BY <1>2 DEF InUse
<1>5. thr[t].pc \notin {"sent", "done"}
  BY IdleFacts
<1> QED BY <1>3, <1>4, <1>5, FindHitKeeps, FindMissKeeps

\* a cached write
LEMMA WriteStarts ==
    ASSUME CacheInv, NEW t \in Threads, thr[t] = IdleThread, NEW r, AskedFile(r), r.op = "write", Cached(r.vp),
           Acquire(t, Locks(r)), kern' = [kern EXCEPT !.filesize[r.vp] = Max({@, r.end})],
           LET q == [r EXCEPT !.size = kern.filesize[r.vp], !.iosync = sync]
           IN \/ sync /\ thr' = [thr EXCEPT ![t] = Sent(q)]
              \/ /\ ~sync
                 /\ \E ans \in {Fail, About(fs, NULL)} :
                      thr' = [thr EXCEPT ![t] = [q EXCEPT !.pc = "done", !.ans = ans]],
           UNCHANGED <<sync, fs, flight, late, cause, tag>>
    PROVE  CacheInv'
<1>1. r \in Requests /\ r.vp \in Nodes /\ kern \in Caches /\ fs \in Daemon /\ sync \in BOOLEAN
  BY DEF AskedFile, FileRequest, CacheInv, CacheTypes, TypesOk, Nodes
<1>2. PICK z \in Sizes : z = kern.filesize[r.vp]
  BY <1>1 DEF Caches
<1>3. PICK p : p = [r EXCEPT !.size = z, !.iosync = sync]
  OBVIOUS
<1>4. /\ p \in Requests /\ p.op = r.op /\ p.stage = r.stage /\ p.nm = r.nm /\ p.nm2 = r.nm2
      /\ p.vp = r.vp /\ p.vp2 = r.vp2 /\ p.size = z /\ p.iosync = sync
  BY <1>1, <1>3 DEF Requests
<1>5. CASE sync /\ thr' = [thr EXCEPT ![t] = Sent(p)]
  <2>1. PICK q : q = Sent(p)
    OBVIOUS
  <2>2. /\ q \in Requests /\ q.pc = "sent" /\ q.op = r.op /\ q.stage = r.stage /\ q.nm = r.nm /\ q.nm2 = r.nm2
        /\ q.vp = r.vp /\ q.vp2 = r.vp2 /\ q.size = kern.filesize[r.vp] /\ q.iosync = sync
    BY <1>2, <1>4, <2>1, SentFacts
  <2>3. thr' = [thr EXCEPT ![t] = q]
    BY <1>5, <2>1
  <2>4. (q.pc = "sent" /\ sync) \/ (q.pc = "done" /\ ~sync)
    <3>1. sync
      BY <1>5
    <3> QED BY <2>2, <3>1
  <2> QED BY <2>2, <2>3, <2>4, WriteRunKeeps
<1>6. ASSUME ~sync, NEW ans \in {Fail, About(fs, NULL)}, thr' = [thr EXCEPT ![t] = [p EXCEPT !.pc = "done", !.ans = ans]]
      PROVE  CacheInv'
  <2>0. ans \in Answers
    BY <1>1, <1>6, FailFacts, AboutFacts
  <2>1. PICK q : q = [p EXCEPT !.pc = "done", !.ans = ans]
    OBVIOUS
  <2>2. /\ q \in Requests /\ q.pc = "done" /\ q.op = r.op /\ q.stage = r.stage /\ q.nm = r.nm /\ q.nm2 = r.nm2
        /\ q.vp = r.vp /\ q.vp2 = r.vp2 /\ q.size = kern.filesize[r.vp] /\ q.iosync = sync
    BY <1>2, <1>4, <2>0, <2>1 DEF Requests
  <2>3. thr' = [thr EXCEPT ![t] = q]
    BY <1>6, <2>1
  <2>4. (q.pc = "sent" /\ sync) \/ (q.pc = "done" /\ ~sync)
    BY <1>6, <2>2
  <2> QED BY <2>2, <2>3, <2>4, WriteRunKeeps
<1> QED BY <1>2, <1>3, <1>5, <1>6

\* a system call on a file
LEMMA StartFile ==
    ASSUME CacheInv, NEW t \in Threads, thr[t] = IdleThread,
           NEW op \in FileOps, NEW v \in kern.vn, NEW v2 \in kern.vn \cup {NULL}, NEW e \in Sizes,
           NEW r, r = [IdleThread EXCEPT !.stage = "run", !.op = op, !.vp = v, !.vp2 = v2, !.end = e],
           FileRequest(r), GetattrHit(t, r) \/ FileRun(t, r)
    PROVE  CacheInv'
<1>1. kern.vn \subseteq Nodes /\ kern \in Caches
  BY DEF CacheInv, CacheTypes, TypesOk, Caches
<1>2. /\ r \in Requests /\ r.nm = NULL /\ r.nm2 = NULL /\ r.ans = Fail
      /\ r.stage = "run" /\ r.op = op /\ r.vp = v /\ r.vp2 = v2
  BY <1>1, IdleFacts DEF Requests, IdleThread
<1>3. AskedFile(r)
  BY <1>2 DEF AskedFile
<1>4. CASE GetattrHit(t, r)
  BY <1>3, <1>4, GetattrHitKeeps
<1>5. CASE FileRun(t, r)
  <2>1. Acquire(t, Locks(r)) /\ UNCHANGED <<sync, fs, flight, late, cause, tag>>
    BY <1>5 DEF FileRun
  <2>2. CASE /\ r.op \in {"getattr", "chmod", "truncate"} \/ (r.op = "write" /\ ~Cached(r.vp))
             /\ thr' = [thr EXCEPT ![t] = Sent(r)]
             /\ UNCHANGED kern
    BY <1>3, <2>1, <2>2, FileRunKeeps
  <2>3. CASE /\ r.op = "write" /\ Cached(r.vp)
             /\ kern' = [kern EXCEPT !.filesize[r.vp] = Max({@, r.end})]
             /\ LET q == [r EXCEPT !.size = kern.filesize[r.vp], !.iosync = sync]
                IN \/ sync /\ thr' = [thr EXCEPT ![t] = Sent(q)]
                   \/ /\ ~sync
                      /\ \E ans \in {Fail, About(fs, NULL)} :
                           thr' = [thr EXCEPT ![t] = [q EXCEPT !.pc = "done", !.ans = ans]]
    BY <1>3, <2>1, <2>3, WriteStarts
  <2>4. CASE /\ r.op = "exchange" /\ Clean(r.vp) /\ Clean(r.vp2)
             /\ thr' = [thr EXCEPT ![t] = Sent(r)]
             /\ UNCHANGED kern
    BY <1>3, <2>1, <2>4, ExchangeRunKeeps
  <2> QED BY <1>5, <2>2, <2>3, <2>4 DEF FileRun
<1> QED BY <1>4, <1>5

\* xnu calls the file system
LEMMA StartKeeps ==
    ASSUME CacheInv, NEW t \in Threads, Start(t)
    PROVE  CacheInv'
<1>1. thr[t] = IdleThread
  BY DEF Start
<1>2. CASE \E op \in NameOps, a \in Names, b \in Names \cup {NULL}, v \in kern.vn \cup {NULL}, mk \in BOOLEAN :
              LET r == [IdleThread EXCEPT !.stage = "find", !.op = op, !.nm = a, !.nm2 = b, !.vp = v, !.mk = mk]
              IN NameRequest(r) /\ (FindHit(t, r) \/ FindMiss(t, r))
  <2>1. PICK op \in NameOps, a \in Names, b \in Names \cup {NULL}, v \in kern.vn \cup {NULL}, mk \in BOOLEAN :
           LET r == [IdleThread EXCEPT !.stage = "find", !.op = op, !.nm = a, !.nm2 = b, !.vp = v, !.mk = mk]
           IN NameRequest(r) /\ (FindHit(t, r) \/ FindMiss(t, r))
    BY <1>2
  <2>2. PICK r : r = [IdleThread EXCEPT !.stage = "find", !.op = op, !.nm = a, !.nm2 = b, !.vp = v, !.mk = mk]
    OBVIOUS
  <2>3. NameRequest(r) /\ (FindHit(t, r) \/ FindMiss(t, r))
    BY <2>1, <2>2
  <2> QED BY <1>1, <2>2, <2>3, StartName, ZenonT(60)
<1>3. CASE \E op \in FileOps, v \in kern.vn, v2 \in kern.vn \cup {NULL}, e \in Sizes :
              LET r == [IdleThread EXCEPT !.stage = "run", !.op = op, !.vp = v, !.vp2 = v2, !.end = e]
              IN FileRequest(r) /\ (GetattrHit(t, r) \/ FileRun(t, r))
  <2>1. PICK op \in FileOps, v \in kern.vn, v2 \in kern.vn \cup {NULL}, e \in Sizes :
           LET r == [IdleThread EXCEPT !.stage = "run", !.op = op, !.vp = v, !.vp2 = v2, !.end = e]
           IN FileRequest(r) /\ (GetattrHit(t, r) \/ FileRun(t, r))
    BY <1>3
  <2>2. PICK r : r = [IdleThread EXCEPT !.stage = "run", !.op = op, !.vp = v, !.vp2 = v2, !.end = e]
    OBVIOUS
  <2>3. FileRequest(r) /\ (GetattrHit(t, r) \/ FileRun(t, r))
    BY <2>1, <2>2
  <2> QED BY <1>1, <2>2, <2>3, StartFile
<1> QED BY <1>2, <1>3 DEF Start

\* it calls it again
LEMMA ContinueKeeps ==
    ASSUME CacheInv, NEW t \in Threads, Continue(t)
    PROVE  CacheInv'
<1>1. thr[t].pc = "ready" /\ thr[t] \in Requests /\ Formed(thr[t]) /\ InUse(thr[t])
  BY DEF Continue, CacheInv, CacheTypes, TypesOk
<1>2. CASE thr[t].stage = "run"
  BY <1>1, <1>2, NameRunKeeps DEF Continue
<1>3. CASE thr[t].stage # "run"
  <2>1. Asked(thr[t])
    BY <1>1, <1>3, FindAsked
  <2>2. FindMiss(t, thr[t])
    BY <1>3 DEF Continue
  <2> QED BY <1>1, <2>1, <2>2, FindMissKeeps
<1> QED BY <1>2, <1>3

\* a lookup has its answer
LEMMA FindEndKeeps ==
    ASSUME CacheInv, NEW t \in Threads, FindEnd(t)
    PROVE  CacheInv'
BY FindNode, FindNothing

\* an operation ends
LEMMA EndKeeps ==
    ASSUME CacheInv, NEW t \in Threads, End(t)
    PROVE  CacheInv'
<1>1. PICK r : r = thr[t]
  OBVIOUS
<1>2. /\ r.pc = "done" /\ r.stage = "run" /\ thr' = [thr EXCEPT ![t] = IdleThread] /\ Release(t)
      /\ UNCHANGED <<sync, fs, flight, late>>
      /\ \/ CreateEnd(r) \/ NewentryEnd(r) \/ RemoveEnd(r) \/ RmdirEnd(r) \/ RenameEnd(r) \/ LinkEnd(r)
         \/ GetattrEnd(r) \/ SetattrEnd(r) \/ WriteEnd(r) \/ ExchangeEnd(r)
  BY <1>1 DEF End
<1>3. CASE RemoveEnd(r) \/ RmdirEnd(r) \/ RenameEnd(r) \/ LinkEnd(r)
  BY <1>1, <1>2, <1>3, NameEnds
<1>4. CASE CreateEnd(r)
  <2>0. r.op = "create"
    BY <1>4 DEF CreateEnd
  <2>1. CASE /\ r.ans.ok /\ UNCHANGED cause
             /\ \E early \in BOOLEAN : /\ kern' = PurgeNegatives(Vget(kern, r.ans, early))
                                       /\ tag' = Tagged(r.ans.node, VgetTags(r.ans, early))
    BY <1>1, <1>2, <2>0, <2>1, CreateEnds
  <2>2. CASE /\ r.ans.ok /\ UNCHANGED <<kern, tag>>
             /\ cause' = [cause EXCEPT ![r.nm] = IF kern.names[r.nm] = "negative" THEN "refused" ELSE @]
    BY <1>1, <1>2, <2>0, <2>2, CreateRefused
  <2>3. CASE ~r.ans.ok /\ UNCHANGED <<kern, cause, tag>>
    BY <1>1, <1>2, <2>0, <2>3, NameEnds
  <2> QED BY <1>4, <2>1, <2>2, <2>3 DEF CreateEnd
<1>10. CASE NewentryEnd(r)
  <2>0. r.op = "newentry"
    BY <1>10 DEF NewentryEnd
  <2>1. CASE r.ans.ok /\ Entered(r)
    BY <1>1, <1>2, <2>0, <2>1, NewentryEnds
  <2>2. CASE UNCHANGED <<kern, cause, tag>>
    BY <1>1, <1>2, <2>0, <2>2, NameEnds
  <2> QED BY <1>10, <2>1, <2>2 DEF NewentryEnd, Entered
<1>5. CASE (GetattrEnd(r) \/ SetattrEnd(r) \/ WriteEnd(r) \/ ExchangeEnd(r)) /\ ~r.ans.ok
  BY <1>1, <1>2, <1>5, FileFails
<1>6. CASE GetattrEnd(r) /\ r.ans.ok
  BY <1>1, <1>2, <1>6, GetattrEndKeeps
<1>7. CASE SetattrEnd(r) /\ r.ans.ok
  <2>1. r.op \in {"chmod", "truncate"}
    BY <1>7 DEF SetattrEnd
  <2> QED BY <1>1, <1>2, <1>7, <2>1, ChmodEndKeeps, TruncateEndKeeps
<1>8. CASE WriteEnd(r) /\ r.ans.ok
  BY <1>1, <1>2, <1>8, WriteEnds
<1>9. CASE ExchangeEnd(r) /\ r.ans.ok
  BY <1>1, <1>2, <1>9, ExchangeEndKeeps
<1> QED BY <1>2, <1>3, <1>4, <1>5, <1>6, <1>7, <1>8, <1>9, <1>10

-----------------------------------------------------------------------------
(* The invariant *)

\* nothing happens
LEMMA StutterKeeps ==
    ASSUME CacheInv, UNCHANGED vars
    PROVE  CacheInv'
<1>1. UNCHANGED <<sync, fs, kern, flight, lock, thr, late, cause, tag>>
  BY DEF vars
<1>2. CacheTypes /\ TypesOk /\ kern \in Caches /\ Others(NULL)
  BY <1>1 DEF CacheInv, CacheTypes, TypesOk, Others, Like
<1>3. /\ lock' \in [Nodes \cup {Dvp} -> Threads \cup {NULL}]
      /\ \A u \in Threads : LockOk(u)'
  BY <1>1, <1>2, NoThread, LocksKept
<1>4. /\ thr' \in [Threads -> Requests] /\ late' \subseteq Requests
      /\ cause' \in [Names -> Reasons] /\ tag' \in [Nodes -> SUBSET Fates]
  BY <1>1, <1>2 DEF TypesOk, Reasons, Fates
<1>5. \A a \in Names : cause'[a] = "abandoned" \/ kern'.names[a] = "miss" \/ (cause'[a] = cause[a] /\ NotLeft(NULL, a))
  BY <1>1, NoThread
<1> QED BY <1>1, <1>2, <1>3, <1>4, <1>5, NoThread, CalmStep

\* the daemon's tree and the kernel's caches at first
LEMMA InitTypes ==
    ASSUME Init
    PROVE  /\ CacheTypes /\ thr = [t \in Threads |-> IdleThread]
           /\ \A a \in Names : kern.names[a] \in {"miss", "negative", fs.dir[a]}
           /\ \A a \in Names : kern.names[a] = "negative" => fs.dir[a] = NULL
           /\ \A n \in Nodes : /\ fs.size[n] = 0 /\ fs.ver[n] = 1 /\ kern.filesize[n] = 0 /\ kern.dirty[n] = 0
                               /\ flight[n] = 0 /\ kern.va[n].size = 0
                               /\ kern.valid[n] => kern.va[n].ver = 1
<1>1. /\ fs.dir \in [Names -> Nodes \cup {NULL}] /\ fs.size = [n \in Nodes |-> 0] /\ fs.ver = [n \in Nodes |-> 1]
      /\ fs.made \in SUBSET Nodes /\ fs.made = Linked(fs)
      /\ fs = [dir |-> fs.dir, size |-> fs.size, ver |-> fs.ver, made |-> fs.made]
  BY DEF Init
<1>2. /\ sync \in BOOLEAN /\ flight = [n \in Nodes |-> 0] /\ lock = [x \in Nodes \cup {Dvp} |-> NULL]
      /\ thr = [t \in Threads |-> IdleThread] /\ late = {}
      /\ cause = [a \in Names |-> "none"] /\ tag = [n \in Nodes |-> {}]
  BY DEF Init
<1>3. fs \in Daemon
  BY <1>1, SizesNat DEF Daemon
<1>4. PICK c \in BOOLEAN :
         kern = [names |-> [a \in Names |-> IF ~c THEN "miss" ELSE IF fs.dir[a] = NULL THEN "negative" ELSE fs.dir[a]],
                 vn |-> Linked(fs), filesize |-> [n \in Nodes |-> 0],
                 va |-> [n \in Nodes |-> [Blank EXCEPT !.ver = IF n \in Linked(fs) THEN 1 ELSE 0]],
                 valid |-> [n \in Nodes |-> n \in Linked(fs)], dirty |-> [n \in Nodes |-> 0], direct |-> {}]
  BY DEF Init
<1>5. \A a \in Names : fs.dir[a] # NULL => fs.dir[a] \in Linked(fs)
  BY <1>1 DEF Linked, Range
<1>6. PICK L \in SUBSET Nodes : L = Linked(fs)
  BY <1>1
<1>7. PICK names : names = [a \in Names |-> IF ~c THEN "miss" ELSE IF fs.dir[a] = NULL THEN "negative" ELSE fs.dir[a]]
  OBVIOUS
<1>8. PICK va : va = [n \in Nodes |-> [Blank EXCEPT !.ver = IF n \in L THEN 1 ELSE 0]]
  OBVIOUS
<1>9. /\ kern.names = names /\ kern.vn = L /\ kern.filesize = [n \in Nodes |-> 0] /\ kern.va = va
      /\ kern.valid = [n \in Nodes |-> n \in L] /\ kern.dirty = [n \in Nodes |-> 0] /\ kern.direct = {}
  BY <1>4, <1>6, <1>7, <1>8
<1>10. /\ names \in [Names -> Nodes \cup {"miss", "negative"}]
       /\ \A a \in Names : /\ names[a] \in {"miss", "negative", fs.dir[a]}
                           /\ names[a] = "negative" => fs.dir[a] = NULL
                           /\ names[a] \in Nodes => names[a] = fs.dir[a]
  BY <1>1, <1>7
<1>11. va \in [Nodes -> Attrs] /\ \A n \in Nodes : va[n].size = 0 /\ (n \in L => va[n].ver = 1)
  <2>1. ASSUME NEW n \in Nodes PROVE va[n] \in Attrs /\ va[n].size = 0 /\ (n \in L => va[n].ver = 1)
    <3>1. PICK w \in {0, 1} : w = IF n \in L THEN 1 ELSE 0
      OBVIOUS
    <3>2. va[n] = [Blank EXCEPT !.ver = w]
      BY <1>8, <3>1
    <3>3. va[n] = [size |-> 0, ver |-> w]
      BY <3>2 DEF Blank
    <3> QED BY <3>1, <3>3, SizesNat DEF Attrs
  <2> QED BY <1>8, <2>1
<1>12. kern \in Caches
  <2>1. kern = [names |-> names, vn |-> L, filesize |-> [n \in Nodes |-> 0], va |-> va,
                valid |-> [n \in Nodes |-> n \in L], dirty |-> [n \in Nodes |-> 0], direct |-> {}]
    BY <1>4, <1>6, <1>7, <1>8
  <2>2. [n \in Nodes |-> n \in L] \in [Nodes -> BOOLEAN] /\ [n \in Nodes |-> 0] \in [Nodes -> Sizes]
    BY SizesNat
  <2> QED BY <1>6, <1>10, <1>11, <2>1, <2>2 DEF Caches
<1>13. TypesOk
  <2>1. thr \in [Threads -> Requests]
    BY <1>2, IdleFacts
  <2>2. flight \in [Nodes -> Sizes] /\ lock \in [Nodes \cup {Dvp} -> Threads \cup {NULL}] /\ late \subseteq Requests
    BY <1>2, SizesNat
  <2>3. cause \in [Names -> Reasons] /\ tag \in [Nodes -> SUBSET Fates]
    BY <1>2 DEF Reasons, Fates
  <2> QED BY <1>2, <1>3, <1>12, <2>1, <2>2, <2>3 DEF TypesOk, Reasons, Fates
<1>14. VnodesOk /\ Small(fs)
  <2>1. \A a \in Names : kern.names[a] \in Nodes => kern.names[a] \in kern.vn
    BY <1>5, <1>6, <1>9, <1>10
  <2>2. \A n \in Nodes : ~(kern.dirty[n] > 0) /\ ~(flight[n] > 0)
    BY <1>2, <1>9
  <2>3. \A n \in Nodes : kern.valid[n] => n \in kern.vn
    BY <1>9
  <2> QED BY <1>1, <1>5, <1>9, <2>1, <2>2, <2>3 DEF VnodesOk, Small
<1>15. \A t \in Threads : Formed(thr[t]) /\ InUse(thr[t]) /\ LockOk(t)
  BY <1>2, IdleFacts DEF InUse, LockOk, Holds
<1>16. CacheTypes
  BY <1>2, <1>13, <1>14, <1>15 DEF CacheTypes
<1>17. /\ \A a \in Names : kern.names[a] \in {"miss", "negative", fs.dir[a]}
       /\ \A a \in Names : kern.names[a] = "negative" => fs.dir[a] = NULL
  BY <1>9, <1>10
<1>18. ASSUME NEW n \in Nodes
       PROVE  /\ fs.size[n] = 0 /\ fs.ver[n] = 1 /\ kern.filesize[n] = 0 /\ kern.dirty[n] = 0
              /\ flight[n] = 0 /\ kern.va[n].size = 0
              /\ kern.valid[n] => kern.va[n].ver = 1
  <2>1. fs.size[n] = 0 /\ fs.ver[n] = 1 /\ kern.filesize[n] = 0 /\ kern.dirty[n] = 0 /\ flight[n] = 0
    BY <1>1, <1>2, <1>9
  <2>2. kern.va[n].size = 0
    BY <1>9, <1>11
  <2>3. kern.valid[n] => n \in L
    BY <1>9
  <2>4. n \in L => kern.va[n].ver = 1
    BY <1>9, <1>11
  <2> QED BY <2>1, <2>2, <2>3, <2>4
<1> QED BY <1>2, <1>16, <1>17, <1>18

\* at first
LEMMA InitCache == Init => CacheInv
<1> SUFFICES ASSUME Init PROVE CacheInv
  OBVIOUS
<1>1. /\ CacheTypes /\ thr = [t \in Threads |-> IdleThread]
      /\ \A a \in Names : kern.names[a] \in {"miss", "negative", fs.dir[a]}
      /\ \A a \in Names : kern.names[a] = "negative" => fs.dir[a] = NULL
      /\ \A n \in Nodes : /\ fs.size[n] = 0 /\ fs.ver[n] = 1 /\ kern.filesize[n] = 0 /\ kern.dirty[n] = 0
                          /\ flight[n] = 0 /\ kern.va[n].size = 0
                          /\ kern.valid[n] => kern.va[n].ver = 1
  BY InitTypes
<1>2. \A t \in Threads : ~Answered(thr[t]) /\ thr[t].pc = "idle" /\ thr[t].op = "none"
  BY <1>1, IdleFacts DEF Answered
<1>3. NamesInv
  <2>1. \A t \in Threads : CurrentOk(thr[t]) /\ RenameOk(thr[t])
    BY <1>2 DEF CurrentOk, RenameOk
  <2>2. \A a \in Names : PositiveOk(a) /\ NegativeOk(a)
    BY <1>1 DEF PositiveOk, NegativeOk, Wrong
  <2> QED BY <2>1, <2>2 DEF NamesInv
<1>4. AttrInv
  BY <1>1, <1>2 DEF AttrInv, VersionOk, AttrOk
<1>5. SizeInv
  <2>1. \A t \in Threads : LengthOk(thr[t])
    BY <1>2 DEF LengthOk
  <2>2. \A n \in Nodes : Due(n) = 0
    <3>1. Max({0, 0, 0}) = 0
      BY MaxThree, SizesNat
    <3> QED BY <1>1, <3>1 DEF Due
  <2> QED BY <1>1, <2>1, <2>2 DEF SizeInv, LengthsOk, ValidOk
<1> QED BY <1>1, <1>3, <1>4, <1>5 DEF CacheInv

\* every step keeps it
LEMMA NextCache == CacheInv /\ [Next]_vars => CacheInv'
<1> SUFFICES ASSUME CacheInv, [Next]_vars PROVE CacheInv'
  OBVIOUS
<1>1. CASE UNCHANGED vars
  BY <1>1, StutterKeeps
<1>2. ASSUME NEW t \in Threads,
             Start(t) \/ Continue(t) \/ FindEnd(t) \/ FindFailed(t) \/ Serve(t) \/ Interrupt(t) \/ End(t)
      PROVE  CacheInv'
  BY <1>2, StartKeeps, ContinueKeeps, FindEndKeeps, FindFailedKeeps, ServeKeeps, InterruptKeeps, EndKeeps
<1>3. ASSUME NEW r \in late, ServeLate(r) PROVE CacheInv'
  BY <1>3, ServeLateKeeps
<1>4. ASSUME NEW n \in Nodes,
             Pageout(n) \/ PageoutEnd(n) \/ PageoutFails(n) \/ Open(n) \/ Expire(n) \/ Reclaim(n)
      PROVE  CacheInv'
  BY <1>4, PageoutKeeps, PageoutEndKeeps, PageoutFailsKeeps, OpenKeeps, ExpireKeeps, ReclaimKeeps
<1> QED BY <1>1, <1>2, <1>3, <1>4 DEF Next

\* so it always holds
LEMMA CacheAlways == Spec => []CacheInv
BY InitCache, NextCache, PTL DEF Spec

-----------------------------------------------------------------------------
(* The properties *)

\* Cached names and valid attributes are those of vnodes there are, and exactly the
\* calls that have sent their request and not yet returned hold the locks that
\* fuse_biglock_vnops.c gives them, each lock one call's.
THEOREM CacheTypesCorrect == Spec => []TypeOK
<1>1. CacheInv => TypeOK
  <2> SUFFICES ASSUME CacheInv PROVE TypeOK
    OBVIOUS
  <2>1. /\ CacheTypes /\ fs \in Daemon /\ kern \in Caches /\ flight \in [Nodes -> Sizes] /\ VnodesOk /\ Small(fs)
        /\ lock \in [Nodes \cup {Dvp} -> Threads \cup {NULL}] /\ thr \in [Threads -> Requests]
    BY DEF CacheInv, CacheTypes, TypesOk
  <2>2. fs.dir \in [Names -> fs.made \cup {NULL}]
    <3>1. fs.dir \in [Names -> Nodes \cup {NULL}]
      BY <2>1 DEF Daemon
    <3>2. \A a \in Names : fs.dir[a] \in fs.made \cup {NULL}
      BY <2>1 DEF Small
    <3> QED BY <3>1, <3>2
  <2>3. kern.names \in [Names -> kern.vn \cup {"miss", "negative"}]
    <3>1. kern.names \in [Names -> Nodes \cup {"miss", "negative"}]
      BY <2>1 DEF Caches
    <3>2. \A a \in Names : kern.names[a] \in kern.vn \cup {"miss", "negative"}
      BY <2>1, <3>1 DEF VnodesOk
    <3> QED BY <3>1, <3>2
  <2>4. /\ fs.size \in [Nodes -> Sizes] /\ kern.filesize \in [Nodes -> Sizes] /\ kern.dirty \in [Nodes -> Sizes]
    BY <2>1 DEF Daemon, Caches
  <2>5. /\ \A n \in Nodes : kern.valid[n] \/ kern.dirty[n] > 0 \/ flight[n] > 0 => n \in kern.vn
        /\ kern.direct \subseteq kern.vn \cap Direct /\ (kern.direct # {} => sync)
    BY <2>1 DEF VnodesOk
  <2>6. ASSUME NEW t \in Threads
        PROVE  {x \in DOMAIN lock : lock[x] = t} = IF thr[t].pc \in {"sent", "done"} THEN Locks(thr[t]) ELSE {}
    <3>1. DOMAIN lock = Nodes \cup {Dvp} /\ thr[t] \in Requests /\ Formed(thr[t])
      BY <2>1 DEF CacheTypes
    <3>2. \A x \in Nodes \cup {Dvp} : lock[x] = t <=> Holds(thr[t], x)
      BY <2>1 DEF CacheTypes, LockOk
    <3>3. CASE thr[t].pc \in {"sent", "done"}
      <4>1. Locks(thr[t]) \subseteq Nodes \cup {Dvp}
        BY <3>1, <3>3, LocksExist
      <4>2. \A x \in Nodes \cup {Dvp} : lock[x] = t <=> x \in Locks(thr[t])
        BY <3>2, <3>3 DEF Holds
      <4> QED BY <3>1, <3>3, <4>1, <4>2
    <3>4. CASE thr[t].pc \notin {"sent", "done"}
      <4>1. \A x \in Nodes \cup {Dvp} : lock[x] # t
        BY <3>2, <3>4 DEF Holds
      <4> QED BY <3>1, <3>4, <4>1
    <3> QED BY <3>3, <3>4
  <2> QED BY <2>1, <2>2, <2>3, <2>4, <2>5, <2>6 DEF TypeOK
<1> QED BY <1>1, CacheAlways, PTL

\* A cached name leads to another node than the daemon's only while fuse_vnop_remove
\* or fuse_vnop_rename is still to purge it, or after one of the four events of
\* PositiveNames.
THEOREM CachePositive == Spec => []PositiveNames
<1>1. CacheInv => PositiveNames
  <2> SUFFICES ASSUME CacheInv, NEW a \in Names, Wrong(a), ~ToPurge(kern.names[a])
               PROVE  cause[a] \in {"overtaken", "moved", "rmdir", "abandoned"}
    BY DEF PositiveNames
  <2>1. \A t \in Threads : ~Mends(thr[t], a)
    BY DEF Mends, ToPurge, Answered
  <2> QED BY <2>1 DEF CacheInv, NamesInv, PositiveOk
<1> QED BY <1>1, CacheAlways, PTL

\* A name the daemon has is denied only while fuse_vnop_create is still to purge the
\* negative entries, or after one of the five events of NegativeNames.
THEOREM CacheNegative == Spec => []NegativeNames
<1>1. CacheInv => NegativeNames
  <2> SUFFICES ASSUME CacheInv, NEW a \in Names, kern.names[a] = "negative", fs.dir[a] # NULL,
                      ~\E t \in Threads : thr[t].pc = "done" /\ thr[t].op = "create" /\ thr[t].nm = a
               PROVE  cause[a] \in {"overtaken", "moved", "made", "refused", "abandoned"}
    BY DEF NegativeNames
  <2>1. \A t \in Threads : ~Creates(thr[t], a)
    BY DEF Creates, Answered
  <2> QED BY <2>1 DEF CacheInv, NamesInv, NegativeOk
<1> QED BY <1>1, CacheAlways, PTL

\* Valid attributes of a vnode that nobody has locked are the daemon's, unless one of
\* the seven events of AttrExplained befell it.
THEOREM CacheAttributes == Spec => []AttrExplained
<1>1. CacheInv => AttrExplained
  <2> SUFFICES ASSUME CacheInv, NEW n \in kern.vn, kern.valid[n], lock[n] = NULL, kern.va[n].ver # fs.ver[n]
               PROVE  tag[n] \cap {"overtaken", "blank", "moved", "replaced", "paged", "failed", "abandoned"} # {}
    BY DEF AttrExplained
  <2>1. n \in Nodes /\ thr \in [Threads -> Requests] /\ CacheTypes /\ AttrOk(n)
    BY DEF CacheInv, CacheTypes, TypesOk, Caches, AttrInv
  <2>2. ASSUME NEW t \in Threads PROVE ~Renews(thr[t], n)
    <3>1. ~Holds(thr[t], n)
      BY <2>1 DEF CacheTypes, LockOk
    <3> QED BY <2>1, <3>1, RenewsHolds
  <2> QED BY <2>1, <2>2 DEF AttrOk, Marked, AttrTags
<1> QED BY <1>1, CacheAlways, PTL

\* The size of a file that nobody has locked is the daemon's or the end of the pages
\* the daemon has yet to get, unless one of the seven events of SizeAgrees befell it.
THEOREM CacheSizes == Spec => []SizeAgrees
<1>1. CacheInv => SizeAgrees
  <2> SUFFICES ASSUME CacheInv, NEW n \in (kern.vn \cap Files) \ kern.direct, lock[n] = NULL,
                      kern.filesize[n] # Max({fs.size[n], kern.dirty[n], flight[n]})
               PROVE  \/ sync /\ "paged" \in tag[n]
                      \/ tag[n] \cap {"failed", "crossed", "overtaken", "blank", "direct", "abandoned"} # {}
    BY DEF SizeAgrees
  <2>1. n \in Nodes /\ CacheTypes /\ LengthsOk(n) /\ n \in kern.vn \cap Plain
    BY DEF CacheInv, SizeInv, Plain, Nodes
  <2>2. \A t \in Threads : ~Resizes(thr[t], n)
    BY <2>1, FreeFacts
  <2> QED BY <2>1, <2>2 DEF LengthsOk, Due, Excused, SizeTags
<1> QED BY <1>1, CacheAlways, PTL

=============================================================================
