------------------------- MODULE NamespaceRefinement --------------------------
(***************************************************************************)
(* Namespace implements PathTree for callers who never put two things      *)
(* under one name and work through the volume's root.                      *)
(***************************************************************************)
EXTENDS Namespace

(* The nodes that hold something. *)
Occupied == {edge[e].from : e \in ActiveEdges}

(* The paths that lead somewhere.  A walk passes no node twice. *)
Resolving ==
    {p \in UNION {[1..k -> Names] : k \in 0..Cardinality(Occupied)} : Walk(Root, p) # 0}

Object(n) == [id |-> n, type |-> node[n].type, data |-> node[n].data]

PathOfRow(rows) ==
    LET path[i \in 0..Len(rows)] ==
            IF i <= 1 THEN <<>> ELSE Append(path[rows[i].p], rows[i].n)
    IN  path

(* The shape a pack restores: of rows with one path, the last minted is visible. *)
ShapeOf(rows) ==
    LET path == PathOfRow(rows)
        RowAt(r) == CHOOSE i \in DOMAIN rows : path[i] = r
    IN  [r \in {path[i] : i \in DOMAIN rows} |->
            [type |-> rows[RowAt(r)].t, data |-> rows[RowAt(r)].d]]

Volume == INSTANCE PathTree WITH
    Ids <- Nat,
    tree <- [p \in Resolving |-> Object(Walk(Root, p))],
    packs <- [i \in DOMAIN blob |-> ShapeOf(blob[i])]

(* Every operation changes the paths it names, and those only, as one would    *)
(* expect of a file system; mounts, locks and archived placements are unseen.  *)
ImplementsPathTree == Volume!Spec
===============================================================================
