---- MODULE VolumeTree ----
(***************************************************************************)
(* The engine as the manager's frontends see it: one volume, its tree of   *)
(* visible names, the locks on its nodes and the clock.  A transaction of  *)
(* the engine (aloelite/operations.py) is one step; the operators below    *)
(* say when it succeeds and what tree it leaves.  ContentStore and         *)
(* Namespace model the same operations in their own detail.                *)
(*                                                                         *)
(* Two mounts use the volume: "session", which the manager's WebDAV, S3    *)
(* and browser clients of a plain volume all share, and "outside", a FUSE  *)
(* mount or another process.                                               *)
(***************************************************************************)
EXTENDS Naturals, FiniteSets, Sequences

CONSTANTS
  Names, Paths,        \* the names, and the normalized paths that may exist
  Dirs, Docs,          \* the containers and entries there are at the start
  LockIds,             \* ids of lock rows
  None,                \* SQL NULL, Python's None
  MaxTime,             \* bound on the clock
  MaxOutside           \* bound on the steps of the other mount

Root == <<>>
ASSUME PathAssumption ==
  /\ Paths \subseteq Seq(Names) /\ Root \in Paths
  /\ \A p \in Paths : \A n \in 0..Len(p) : SubSeq(p, 1, n) \in Paths
ASSUME StartAssumption ==
  /\ Dirs \cup Docs \subseteq Paths /\ Dirs \cap Docs = {} /\ IsFiniteSet(Dirs \cup Docs)
  /\ \A p \in Dirs \cup Docs : \A n \in 0..(Len(p) - 1) : SubSeq(p, 1, n) \in Dirs
ASSUME TimeAssumption == MaxTime \in Nat /\ None \notin Nat

VARIABLES
  tree,     \* path -> the node visible there, or None
  fresh,    \* every node id in use is smaller
  elock,    \* lock rows: id -> [node, mount, until] or None
  now,      \* the clock, in units of a lock's timeout
  outside   \* steps the other mount has taken

treeVars == <<tree, fresh, elock, now, outside>>

(* ver numbers the committed contents of an entry; mode is what the FUSE   *)
(* frontend keeps in the node's metadata, dead what WebDAV does.           *)
TreeNode == [id: Nat, dir: BOOLEAN, ver: Nat, mode: {0, 1}, dead: {0, 1}]
ASSUME NodeAssumption == None \notin TreeNode

Node(id, dir, ver) == [id |-> id, dir |-> dir, ver |-> ver, mode |-> 0, dead |-> 0]

Parent(p) == SubSeq(p, 1, Len(p) - 1)
Within(p, q) == Len(q) <= Len(p) /\ \A i \in 1..Len(q) : p[i] = q[i]
Below(p) == {q \in Paths : Within(q, p)}
Rebase(q, from, to) == to \o SubSeq(q, Len(from) + 1, Len(q))

Exists(p) == tree[p] # None
IsDir(p) == Exists(p) /\ tree[p].dir
IsDoc(p) == Exists(p) /\ ~tree[p].dir
Content(p) == <<tree[p].id, tree[p].ver>>

---------------------------------------------------------------------------
(* Locks: valid while their time has not come; the checks of a mount       *)
(* overlook its own, a new lock is refused by any.                         *)

Lapsed(row) == row.until # None /\ row.until <= now
Valid(l) == elock[l] # None /\ ~Lapsed(elock[l])

AnyLock(p) == \E l \in LockIds : Valid(l) /\ elock[l].node = tree[p].id

HeldByOther(m, p) ==
  \E l \in LockIds : Valid(l) /\ elock[l].node = tree[p].id /\ elock[l].mount # m

HeldBelow(m, p) == \E q \in Below(p) : Exists(q) /\ HeldByOther(m, q)

LockRow(p, m, until) == [node |-> tree[p].id, mount |-> m, until |-> until]

---------------------------------------------------------------------------
(* Operations                                                              *)

MayCreate(p) == p # Root /\ ~Exists(p) /\ IsDir(Parent(p))

Created(p, dir) == [tree EXCEPT ![p] = Node(fresh, dir, IF dir THEN 0 ELSE 1)]

Written(p) == [tree EXCEPT ![p].ver = @ + 1]

(* What is committed through a descriptor, wherever its node is by now.    *)
WrittenNode(id) ==
  [q \in Paths |-> IF Exists(q) /\ tree[q].id = id THEN [tree[q] EXCEPT !.ver = @ + 1] ELSE tree[q]]

MayRemove(m, p) == /\ Exists(p)
                   /\ IF tree[p].dir THEN ~HeldBelow(m, p) ELSE ~HeldByOther(m, p)

Removed(p) == [q \in Paths |-> IF q \in Below(p) THEN None ELSE tree[q]]

Fits(src, dst) == \A q \in Below(src) : Exists(q) => Rebase(q, src, dst) \in Paths

MayPlace(src, dst) ==
  /\ Exists(src) /\ dst # Root /\ IsDir(Parent(dst)) /\ ~Exists(dst) /\ Fits(src, dst)

WouldCycle(src, dst) == tree[src].dir /\ Within(Parent(dst), src)

MayMove(m, src, dst) ==
  MayPlace(src, dst) /\ ~HeldByOther(m, src) /\ ~WouldCycle(src, dst)

From(src, dst, q) == Rebase(q, dst, src)

Moved(src, dst) ==
  [q \in Paths |-> IF q \in Below(src) THEN None
                   ELSE IF q \in Below(dst) /\ From(src, dst, q) \in Paths
                   THEN tree[From(src, dst, q)] ELSE tree[q]]

(* Every node of a copy is new: ids below fresh become ids not yet used.   *)
Twin(n) == IF n = None THEN None
           ELSE [n EXCEPT !.id = n.id + fresh, !.ver = IF n.dir THEN 0 ELSE 1]

Copied(src, dst) ==
  [q \in Paths |-> IF q \in Below(dst) /\ From(src, dst, q) \in Paths
                   THEN Twin(tree[From(src, dst, q)]) ELSE tree[q]]

---------------------------------------------------------------------------
(* The other mount writes, creates, removes, moves, changes a mode, locks   *)
(* and unlocks.  A move looks at the locks of the moved node only, not at  *)
(* those of what lies below it (operations.move).  Names stay unique: the  *)
(* engine lets a name be taken twice (NODE-5), which Namespace models.     *)

OutsideWrite(p) ==
  /\ IsDoc(p) /\ ~HeldByOther("outside", p)
  /\ tree' = Written(p)
  /\ UNCHANGED <<fresh, elock>>

OutsideRemove(p) ==
  /\ p # Root /\ MayRemove("outside", p)
  /\ tree' = Removed(p)
  /\ UNCHANGED <<fresh, elock>>

OutsideChmod(p) ==
  /\ Exists(p) /\ ~HeldByOther("outside", p)
  /\ tree' = [tree EXCEPT ![p].mode = 1 - @]
  /\ UNCHANGED <<fresh, elock>>

OutsideCreate(p, dir) ==
  /\ MayCreate(p)
  /\ tree' = Created(p, dir) /\ fresh' = fresh + 1
  /\ UNCHANGED elock

OutsideMove(src, dst) ==
  /\ src # Root /\ MayMove("outside", src, dst)
  /\ tree' = Moved(src, dst)
  /\ UNCHANGED <<fresh, elock>>

OutsideLock(p) ==
  /\ Exists(p) /\ ~AnyLock(p) /\ elock["outside"] = None
  /\ elock' = [elock EXCEPT !["outside"] = LockRow(p, "outside", None)]
  /\ UNCHANGED <<tree, fresh>>

OutsideUnlock ==
  /\ elock["outside"] # None
  /\ elock' = [elock EXCEPT !["outside"] = None]
  /\ UNCHANGED <<tree, fresh>>

OutsideStep ==
  /\ outside < MaxOutside
  /\ outside' = outside + 1
  /\ \/ \E p \in Paths :
          \/ OutsideWrite(p) \/ OutsideRemove(p) \/ OutsideChmod(p) \/ OutsideLock(p)
          \/ \E dir \in BOOLEAN : OutsideCreate(p, dir)
          \/ \E dst \in Paths : OutsideMove(p, dst)
     \/ OutsideUnlock
  /\ UNCHANGED now

Tick == now < MaxTime /\ now' = now + 1 /\ UNCHANGED <<tree, fresh, elock, outside>>

Ids == CHOOSE ids \in [Dirs \cup Docs -> 1..Cardinality(Dirs \cup Docs)] :
         \A p, q \in Dirs \cup Docs : p # q => ids[p] # ids[q]

TreeInit ==
  /\ tree = [p \in Paths |-> IF p \in Dirs THEN Node(Ids[p], TRUE, 0)
                             ELSE IF p \in Docs THEN Node(Ids[p], FALSE, 1) ELSE None]
  /\ fresh = Cardinality(Dirs \cup Docs) + 1
  /\ elock = [l \in LockIds |-> None]
  /\ now = 0
  /\ outside = 0
====
