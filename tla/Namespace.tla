------------------------------- MODULE Namespace -------------------------------
(***************************************************************************)
(* The naming half of an aloelite volume: nodes, the placements (edges)    *)
(* that give them names, the mounts that anchor every path, and the locks  *)
(* that exclude other mounts from a node (operations.py, resolve.py,       *)
(* schema.sql, sql-templates.yaml).                                        *)
(*                                                                         *)
(* Every operation is one SQLite transaction and so one action; what it    *)
(* refuses, it refuses without effect (TX-1).  Operations name nodes by    *)
(* paths, walked from the mount's anchor at the moment of the operation.   *)
(*                                                                         *)
(* Node and edge ids are the positions in two sequences: one mint orders   *)
(* them as they are created (D-1; two connections minting within the same  *)
(* coordination window are not distinguished from one).  The content of a  *)
(* leaf is 0, or the number of the pack blob it holds.                     *)
(*                                                                         *)
(* A definition marked "variant" is not part of Spec: it is the definition *)
(* after it with a plausible mistake, which a named property must catch.   *)
(***************************************************************************)
EXTENDS Integers, Sequences, FiniteSets, SequencesExt

CONSTANTS
    Names,      \* names a caller may give
    RootName,   \* the name create_volume gives the root container
    Mounts,     \* rw mounts (an ro mount is refused every operation below)
    Habits,     \* what the callers of one run of the volume may do, see Habit
    MaxDepth,   \* bound: segments in a caller's path
    MaxNodes    \* bound: nodes ever created

ASSUME NameAssumption  == RootName \notin Names
ASSUME LimitAssumption == MaxDepth \in Nat /\ MaxNodes \in Nat \ {0}

(* A habit of the callers:                                                    *)
(*   anchors      the volume paths mounts are opened at                       *)
(*   overlap      do mounts ask for allow_overlap?                            *)
(*   sameNames    do callers create, rename, move, copy or unpack onto a name *)
(*                that is taken?                                              *)
(*   anchorOps    do callers apply remove_recursive, pack, unpack to "/"?     *)
(*   ops          the operations callers use                                  *)
(*   edges        bound: edges ever created                                   *)
Habit == [anchors : SUBSET Seq(Names), overlap : BOOLEAN, sameNames : BOOLEAN,
          anchorOps : BOOLEAN, ops : SUBSET STRING, edges : Nat]

ASSUME HabitAssumption == Habits \subseteq Habit

VARIABLES
    node,       \* node rows, by id
    edge,       \* edge rows, by id
    blob,       \* the packs written so far: rows of a subtree in walk order
    anchor,     \* mount_point of each valid mount, 0 when it is not mounted
    lock,       \* the valid locks
    habit       \* what the callers do; it never changes

vars == <<node, edge, blob, anchor, lock, habit>>

Anchors     == habit.anchors
Overlap     == habit.overlap
SameNames   == habit.sameNames
AnchorOps   == habit.anchorOps
Ops         == habit.ops
MaxEdges    == habit.edges

Root == 1

Types == {"container", "leaf"}

NodeRow == [type : Types, name : Names \cup {RootName}, data : Nat]
EdgeRow == [from : Nat, to : Nat, name : Names, archived : BOOLEAN]

(* One row of a pack: parent row (0 for the root), type, name and content. *)
PackRow == [p : Nat, t : Types, n : Names, d : Nat]

TypeOK ==
    /\ node \in Seq(NodeRow) /\ node # <<>>
    /\ edge \in Seq(EdgeRow)
    /\ \A e \in DOMAIN edge : {edge[e].from, edge[e].to} \subseteq DOMAIN node
    /\ blob \in Seq(Seq(PackRow))
    /\ anchor \in [Mounts -> {0} \cup DOMAIN node]
    /\ lock \subseteq [node : DOMAIN node, mount : Mounts]

Init ==
    /\ node = <<[type |-> "container", name |-> RootName, data |-> 0]>>
    /\ edge = <<>>
    /\ blob = <<>>
    /\ anchor = [m \in Mounts |-> 0]
    /\ lock = {}
    /\ habit \in Habits

-------------------------------------------------------------------------------
(***************************************************************************)
(* Queries                                                                 *)
(***************************************************************************)
Paths == UNION {[1..k -> Names] : k \in 0..MaxDepth}

IsContainer(n) == node[n].type = "container"

ActiveEdges == {e \in DOMAIN edge : ~edge[e].archived}

PlacementsOf(n) == {e \in ActiveEdges : edge[e].to = n}

EdgesFrom(c) == {e \in ActiveEdges : edge[e].from = c}

(* The visible child of that name, 0 if there is none: of same-name siblings, *)
(* the greatest node id (NODE-5).                                             *)
Lookup(c, name) ==
    LET hits == {edge[e].to : e \in {x \in EdgesFrom(c) : edge[x].name = name}}
    IN  IF hits = {} THEN 0 ELSE CHOOSE n \in hits : \A k \in hits : n >= k

(* Where a path leads from node n, 0 if a segment is missing or below a leaf. *)
Walk(n, path) ==
    LET at[i \in 0..Len(path)] == IF i = 0 THEN n ELSE Lookup(at[i - 1], path[i])
    IN  at[Len(path)]

(* 0 too when the mount is not valid (_require_mount), so every operation that *)
(* resolves a path is refused then.                                           *)
Resolve(m, path) == Walk(anchor[m], path)

(* variant: a parent is sought from the volume's root (Confined) *)
ResolveParentFromRoot(m, path) ==
    IF path = <<>> THEN 0
    ELSE LET c == Walk(Root, Front(path))
         IN  IF c # 0 /\ IsContainer(c) THEN c ELSE 0

(* The container a path's last segment is sought in, 0 if it has none; an      *)
(* anchor that is a leaf is refused by edge_guard_from_type or finds nothing.  *)
ResolveParent(m, path) ==
    IF path = <<>> THEN 0
    ELSE LET c == Resolve(m, Front(path))
         IN  IF c # 0 /\ IsContainer(c) THEN c ELSE 0

(* get_active_parent of the newest placement, 0 when n has none. *)
Newest(n) == IF PlacementsOf(n) = {} THEN 0 ELSE Max(PlacementsOf(n))

(* path_of: n and its ancestors, each found by the newest placement, up to the *)
(* volume's root or to a node without a placement (D-5; its limit of 256 is a  *)
(* guard against cycles, which TreeShape excludes).                            *)
Upward(n) ==
    LET up[x \in Nat] ==
            IF x = Root \/ Newest(x) = 0 THEN <<x>> ELSE <<x>> \o up[edge[Newest(x)].from]
    IN  up[n]

(* variant: a node's own name, not that of the placement (PathResolves) *)
NodeNameOf(n) == node[n].name

EffectiveName(n) == edge[Newest(n)].name

NoPath == <<RootName>>

(* _build_path: the names below container a on the way to n; NoPath stands for *)
(* Corrupt (the chain ends below the root) and NotFound (it does not pass a).  *)
PathOf(a, n) ==
    LET chain == Upward(n)
        below == SelectInSeq(chain, LAMBDA x : x = a) - 1
    IN  IF below < 0 \/ Last(chain) # Root THEN NoPath
        ELSE Reverse([i \in 1..below |-> EffectiveName(chain[i])])

(* mount_info and list_mounts: where a mount is anchored, NoPath for None. *)
MountPath(m) == PathOf(Root, anchor[m])

(* r and everything below it along active edges. *)
Subtree(r) ==
    LET within[S \in SUBSET Nat] ==
            LET below == {edge[e].to : e \in {x \in ActiveEdges : edge[x].from \in S}}
            IN  IF below \subseteq S THEN S ELSE within[S \cup below]
    IN  within[{r}]

(* variant: only the moved node itself is refused as its own parent (TreeShape) *)
WouldCycleSelf(n, parent) == parent = n

WouldCycle(n, parent) == parent \in Subtree(n)

(* variant: a mount is compared with the mounts above it only (AnchorsDisjoint) *)
OverlapsAbove(a) == \E m \in Mounts : anchor[m] # 0 /\ a \in Subtree(anchor[m])

Overlaps(a) ==
    \E m \in Mounts : anchor[m] # 0 /\ (a \in Subtree(anchor[m]) \/ anchor[m] \in Subtree(a))

(* variant: a subtree is tested at its top only (LockedKept) *)
LockedTop(m, r) == \E l \in lock : l.node = r /\ l.mount # m

LockedBelow(m, r) == \E l \in lock : l.node \in Subtree(r) /\ l.mount # m

LockedByOther(m, n) == \E l \in lock : l.node = n /\ l.mount # m

Free(parent, name) == SameNames \/ Lookup(parent, name) = 0

(* How far n is below r: the members of the subtree that are above it, and it. *)
Depth(r, n) == Cardinality({x \in Subtree(r) : n \in Subtree(x)})

(* The placements below r in the canonical order: depth, then edge id. *)
WalkOrder(r) ==
    LET below == {e \in ActiveEdges : edge[e].from \in Subtree(r)}
        depth == [e \in below |-> Depth(r, edge[e].from)]
        Earlier(e) == {f \in below : depth[f] < depth[e] \/ (depth[f] = depth[e] /\ f < e)}
    IN  [i \in 1..Cardinality(below) |->
            CHOOSE e \in below : Cardinality(Earlier(e)) = i - 1]

(* The rows copy, pack and unpack thread an old-to-new id map through: r under *)
(* the given name, then one row for each placement below it.                   *)
RowsOf(r, name) ==
    LET order == WalkOrder(r)
        RowOf(n) == IF n = r THEN 1
                    ELSE 1 + (CHOOSE i \in DOMAIN order : edge[order[i]].to = n)
        Row(e) == [p |-> RowOf(edge[e].from), t |-> node[edge[e].to].type,
                   n |-> edge[e].name, d |-> node[edge[e].to].data]
    IN  <<[p |-> 0, t |-> node[r].type, n |-> name, d |-> node[r].data]>>
            \o [i \in DOMAIN order |-> Row(order[i])]

-------------------------------------------------------------------------------
(***************************************************************************)
(* Operations                                                              *)
(***************************************************************************)
Archive(S) == [e \in DOMAIN edge |-> [edge[e] EXCEPT !.archived = @ \/ e \in S]]

(* variant: the placement is sought by its node alone (ImplementsPathTree in NameTree) *)
WalkedAnywhere(parent, n, name) == PlacementsOf(n)

(* The active placements of n that a path ending in parent/name walked. *)
Walked(parent, n, name) ==
    {e \in PlacementsOf(n) : edge[e].from = parent /\ edge[e].name = name}

(* A node follows the name of its placement while it has no other. *)
Renamed(n, name, sole) == IF sole THEN [node EXCEPT ![n].name = name] ELSE node

(* Create one node for each row, and place it under its parent row's node, the *)
(* first under the given parent.                                              *)
Graft(parent, rows, edges) ==
    LET fresh(i) == Len(node) + i
    IN  /\ Len(node) + Len(rows) <= MaxNodes
        /\ Len(edges) + Len(rows) <= MaxEdges
        /\ node' = node \o [i \in DOMAIN rows |->
                [type |-> rows[i].t, name |-> rows[i].n, data |-> rows[i].d]]
        /\ edge' = edges \o [i \in DOMAIN rows |->
                [from |-> IF rows[i].p = 0 THEN parent ELSE fresh(rows[i].p),
                 to |-> fresh(i), name |-> rows[i].n, archived |-> FALSE]]

(* create_container, create_entry, create_special *)
Create(m, path, t) ==
    LET parent == ResolveParent(m, path)
    IN  /\ parent # 0
        /\ Free(parent, Last(path))
        /\ Graft(parent, <<[p |-> 0, t |-> t, n |-> Last(path), d |-> 0]>>, edge)
        /\ UNCHANGED <<blob, anchor, lock>>

(* The walked placement is renamed; the node too, when it has no other.       *)
Rename(m, path, name) ==
    LET parent == ResolveParent(m, path)
        n == Resolve(m, path)
    IN  /\ parent # 0 /\ n # 0
        /\ ~LockedByOther(m, n)
        /\ Free(parent, name)
        /\ edge' = [e \in DOMAIN edge |->
                IF e \in Walked(parent, n, Last(path))
                THEN [edge[e] EXCEPT !.name = name] ELSE edge[e]]
        /\ node' = Renamed(n, name, Cardinality(PlacementsOf(n)) = 1)
        /\ UNCHANGED <<blob, anchor, lock>>

Link(m, src, dst) ==
    LET n == Resolve(m, src)
        parent == ResolveParent(m, dst)
    IN  /\ n # 0 /\ ~IsContainer(n)
        /\ ~LockedByOther(m, n)
        /\ parent # 0 /\ Lookup(parent, Last(dst)) = 0
        /\ Len(edge) < MaxEdges
        /\ edge' = Append(edge, [from |-> parent, to |-> n, name |-> Last(dst),
                                 archived |-> FALSE])
        /\ UNCHANGED <<node, blob, anchor, lock>>

(* The new edge is always named by dst; the node takes the name too when this  *)
(* is its only placement.                                                     *)
Move(m, src, dst) ==
    LET n == Resolve(m, src)
        from == ResolveParent(m, src)
        to == ResolveParent(m, dst)
        walked == Walked(from, n, Last(src))
    IN  /\ n # 0 /\ from # 0 /\ to # 0
        /\ ~LockedByOther(m, n)
        /\ IsContainer(n) => ~WouldCycle(n, to)
        /\ Free(to, Last(dst))
        /\ Len(edge) < MaxEdges
        /\ edge' = Append(Archive(walked), [from |-> to, to |-> n, name |-> Last(dst),
                                            archived |-> FALSE])
        /\ node' = Renamed(n, Last(dst), PlacementsOf(n) = walked)
        /\ UNCHANGED <<blob, anchor, lock>>

(* remove: a leaf, or an empty container *)
RemoveOne(m, path) ==
    LET n == Resolve(m, path)
        parent == ResolveParent(m, path)
    IN  /\ n # 0 /\ parent # 0
        /\ ~LockedByOther(m, n)
        /\ EdgesFrom(n) = {}
        /\ edge' = Archive(Walked(parent, n, Last(path)))
        /\ UNCHANGED <<node, blob, anchor, lock>>

(* What archive_subtree archives: every placement of every member, also those *)
(* a hardlinked member has elsewhere.                                         *)
SubtreePlacements(r) == {e \in ActiveEdges : edge[e].to \in Subtree(r)}

RemoveRecursive(m, path) ==
    LET n == Resolve(m, path)
    IN  /\ path # <<>> \/ AnchorOps
        /\ n # 0
        /\ ~LockedBelow(m, n)
        /\ edge' = Archive(SubtreePlacements(n))
        /\ UNCHANGED <<node, blob, anchor, lock>>

Copy(m, src, dst) ==
    LET n == Resolve(m, src)
        parent == ResolveParent(m, dst)
    IN  /\ n # 0 /\ parent # 0
        /\ Free(parent, Last(dst))
        /\ Graft(parent, RowsOf(n, Last(dst)), edge)
        /\ UNCHANGED <<blob, anchor, lock>>

WellFormed(row) == row \in PackRow

Encode(rows) == Append(blob, rows)

(* The rows of the pack a leaf holds; a leaf that holds anything else, or rows *)
(* of another shape, is refused as corrupt.                                   *)
Decode(data) == {blob[i] : i \in {d \in DOMAIN blob \cap {data} :
                                    \A k \in DOMAIN blob[d] : WellFormed(blob[d][k])}}

(* The packed entry takes the container's own name and its one placement. *)
Pack(m, path) ==
    LET n == Resolve(m, path)
    IN  /\ path # <<>> \/ AnchorOps
        /\ n # 0 /\ IsContainer(n)
        /\ ~LockedBelow(m, n)
        /\ blob' = Encode(RowsOf(n, node[n].name))
        /\ \E e \in PlacementsOf(n) :
            Graft(edge[e].from, <<[p |-> 0, t |-> "leaf", n |-> node[n].name, d |-> Len(blob) + 1]>>,
                  Archive(SubtreePlacements(n)))
        /\ UNCHANGED <<anchor, lock>>

(* get_active_parent reads one placement of the entry, no matter which; the    *)
(* subtree comes back there, under the name it was packed with.               *)
Unpack(m, path) ==
    LET n == Resolve(m, path)
    IN  /\ path # <<>> \/ AnchorOps
        /\ n # 0 /\ ~IsContainer(n)
        /\ ~LockedByOther(m, n)
        /\ \E rows \in Decode(node[n].data), e \in PlacementsOf(n) :
            /\ SameNames \/ \A x \in EdgesFrom(edge[e].from) \ {e} : edge[x].name # rows[1].n
            /\ Graft(edge[e].from, rows, Archive({e}))
        /\ UNCHANGED <<blob, anchor, lock>>

(* lock refuses a node with any valid lock on it, its own included. *)
LockNode(m, path) ==
    LET n == Resolve(m, path)
    IN  /\ n # 0
        /\ \A l \in lock : l.node # n
        /\ lock' = lock \cup {[node |-> n, mount |-> m]}
        /\ UNCHANGED <<node, edge, blob, anchor>>

(* unlock, or a ttl that elapsed *)
UnlockNode(m) ==
    /\ \E l \in lock : l.mount = m /\ lock' = lock \ {l}
    /\ UNCHANGED <<node, edge, blob, anchor>>

(* mount resolves its anchor from the volume's root; D-4 refuses a second rw   *)
(* mount of the same subtree unless it asks for allow_overlap.                *)
MountAt(m, path) ==
    LET point == Walk(Root, path)
    IN  /\ anchor[m] = 0
        /\ point # 0
        /\ Overlap \/ ~Overlaps(point)
        /\ anchor' = [anchor EXCEPT ![m] = point]
        /\ UNCHANGED <<node, edge, blob, lock>>

(* unmount, or a ttl that elapsed: the mount's locks are no longer valid. *)
MountEnds(m) ==
    /\ anchor[m] # 0
    /\ anchor' = [anchor EXCEPT ![m] = 0]
    /\ lock' = {l \in lock : l.mount # m}
    /\ UNCHANGED <<node, edge, blob>>

(* What a mount can do to the tree. *)
Edit(m) ==
    \E path \in Paths :
        \/ "create" \in Ops /\ \E t \in Types : Create(m, path, t)
        \/ "rename" \in Ops /\ \E name \in Names : Rename(m, path, name)
        \/ "remove" \in Ops /\ RemoveOne(m, path)
        \/ "remove_recursive" \in Ops /\ RemoveRecursive(m, path)
        \/ "pack" \in Ops /\ Pack(m, path)
        \/ "unpack" \in Ops /\ Unpack(m, path)
        \/ /\ Resolve(m, path) # 0
           /\ \E dst \in Paths :
                \/ "link" \in Ops /\ Link(m, path, dst)
                \/ "move" \in Ops /\ Move(m, path, dst)
                \/ "copy" \in Ops /\ Copy(m, path, dst)

Next ==
    /\ \E m \in Mounts :
        \/ Edit(m)
        \/ "lock" \in Ops /\ \E path \in Paths : LockNode(m, path)
        \/ UnlockNode(m)
        \/ \E path \in Anchors : MountAt(m, path)
        \/ MountEnds(m)
    /\ UNCHANGED habit

Spec == Init /\ [][Next]_vars

-------------------------------------------------------------------------------
(***************************************************************************)
(* Safety                                                                  *)
(***************************************************************************)
(* PI-1, PI-4, PI-5: containers form a tree.  No sequence of moves, hardlinks, *)
(* copies, packs and unpacks gives a container two parents or makes it its     *)
(* own ancestor, and only containers have children (EDGE-4).                   *)
TreeShape ==
    /\ \A e \in ActiveEdges : edge[e].to # Root /\ IsContainer(edge[e].from)
    /\ \A n \in DOMAIN node : IsContainer(n) => Cardinality(PlacementsOf(n)) <= 1
    /\ \A e \in ActiveEdges : edge[e].from \notin Subtree(edge[e].to)

(* Whatever is placed is placed within reach of the volume's root: no          *)
(* operation leaves an active placement under a container it detached.         *)
Rooted == \A e \in ActiveEdges : edge[e].from \in Subtree(Root)

(* The path reported for a node leads to it: path_of, by which FUSE turns an   *)
(* inode into the path of every operation, answers for each node under the     *)
(* anchor a path that names it, or refuses when the newest of its hardlinks is *)
(* outside; so does the path listed for a mount, or none if its anchor is gone.*)
Along(a, path) ==
    LET at[i \in 0..Len(path)] ==
            IF i = 0 THEN {a}
            ELSE {edge[e].to : e \in {x \in ActiveEdges :
                    edge[x].from \in at[i - 1] /\ edge[x].name = path[i]}}
    IN  at[Len(path)]

LeadsBack(a, n, path) ==
    IF path = NoPath THEN Newest(n) = 0 \/ edge[Newest(n)].from \notin Subtree(a)
    ELSE n \in Along(a, path) /\ (~SameNames => Walk(a, path) = n)

PathResolves ==
    \A m \in {k \in Mounts : anchor[k] # 0} :
        /\ LeadsBack(Root, anchor[m], MountPath(m))
        /\ \A n \in Subtree(anchor[m]) : LeadsBack(anchor[m], n, PathOf(anchor[m], n))

(* D-4 admission holds at mount; no operation of a mount then brings the       *)
(* subtrees of two mounts together, unless they asked to share the volume.     *)
AnchorsDisjoint ==
    ~Overlap => \A m, k \in Mounts :
        m # k /\ anchor[m] # 0 /\ anchor[k] # 0 => anchor[m] \notin Subtree(anchor[k])

(* ACC-11: while a mount holds a lock on a node, no operation of another mount *)
(* adds, renames, moves or archives a placement of it, also not from above     *)
(* (remove_recursive, pack) or through another hardlink.                       *)
LockedKept ==
    [][\A l \in lock :
        [e \in PlacementsOf(l.node) |-> edge[e]]' # [e \in PlacementsOf(l.node) |-> edge[e]]
            => \A m \in Mounts \ {l.mount} : ~Edit(m)]_vars

(* What lies under a mount's anchor before or after a step. *)
Reached(m) == Subtree(anchor[m]) \cup Subtree(anchor[m])'

(* An operation of a mount touches only placements under its anchor: what      *)
(* resolve.py calls the confinement of a subtree mount.                        *)
Confined ==
    [][\A e \in DOMAIN edge' : e \notin DOMAIN edge \/ edge'[e] # edge[e] =>
        \A m \in Mounts : edge'[e].from \notin Reached(m) => ~Edit(m)]_vars

===============================================================================
