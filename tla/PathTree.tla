------------------------------- MODULE PathTree -------------------------------
(***************************************************************************)
(* What the naming operations promise a caller who keeps names unique: a   *)
(* volume is a map from paths to objects.  There are no edges, archived or *)
(* active, no ids to compare, no walk order and no node names here.        *)
(*                                                                         *)
(* Each operation is a relation of the map t before it and u after it.     *)
(***************************************************************************)
EXTENDS Naturals, Sequences, SequencesExt

CONSTANTS Ids

VARIABLES
    tree,       \* path -> [id, type, data]: every path that resolves
    packs       \* what each pack holds: relative path -> [type, data]

vars == <<tree, packs>>

Parent(p) == SubSeq(p, 1, Len(p) - 1)
Under(p, q) == SubSeq(q, Len(p) + 1, Len(q))

Below(t, p) == {q \in DOMAIN t : IsPrefix(p, q)}
IdsBelow(t, p) == {t[q].id : q \in Below(t, p)}
CanHold(t, p) == p \in DOMAIN t /\ t[p].type = "container"

(* Something may be put at p. *)
Vacant(t, p) == p # <<>> /\ p \notin DOMAIN t /\ CanHold(t, Parent(p))

(* The types and contents of the subtree at p, by relative path. *)
Shape(t, p) ==
    [r \in {Under(p, q) : q \in Below(t, p)} |->
        [type |-> t[p \o r].type, data |-> t[p \o r].data]]

(* u is t without the paths of gone, and with objects that t does not have, in *)
(* the given shape, at p and below.                                            *)
Replaced(t, u, gone, p, shape) ==
    LET new == {p \o r : r \in DOMAIN shape}
    IN  /\ DOMAIN u = (DOMAIN t \ gone) \cup new
        /\ \A q \in DOMAIN u \ new : u[q] = t[q]
        /\ Shape(u, p) = shape
        /\ \A q \in new : u[q].id \in Ids \ {t[x].id : x \in DOMAIN t}
        /\ \A q, x \in new : u[q].id = u[x].id => q = x

Make(t, u, p) ==
    /\ Vacant(t, p)
    /\ \E type \in {"container", "leaf"} :
        Replaced(t, u, {}, p, [r \in {<<>>} |-> [type |-> type, data |-> 0]])

(* rename and move: the same objects, under another path *)
Relocate(t, u, p, q) ==
    /\ p \in DOMAIN t \ {<<>>}
    /\ Vacant(t, q) /\ ~IsPrefix(p, q)
    /\ DOMAIN u = (DOMAIN t \ Below(t, p)) \cup {q \o Under(p, x) : x \in Below(t, p)}
    /\ \A x \in DOMAIN u : u[x] = IF IsPrefix(q, x) THEN t[p \o Under(q, x)] ELSE t[x]

Alias(t, u, p, q) ==
    /\ p \in DOMAIN t /\ t[p].type = "leaf"
    /\ Vacant(t, q)
    /\ DOMAIN u = DOMAIN t \cup {q} /\ u[q] = t[p]
    /\ \A x \in DOMAIN t : u[x] = t[x]

Without(t, u, gone) ==
    /\ DOMAIN u = DOMAIN t \ gone
    /\ \A x \in DOMAIN u : u[x] = t[x]

Unlink(t, u, p) == p # <<>> /\ Below(t, p) = {p} /\ Without(t, u, {p})

(* Every object of a subtree is removed, under every name it has. *)
Destroyed(t, p) == {q \in DOMAIN t \ {<<>>} : t[q].id \in IdsBelow(t, p)}

Destroy(t, u, p) == p \in DOMAIN t /\ Without(t, u, Destroyed(t, p))

Duplicate(t, u, p, q) ==
    /\ p \in DOMAIN t /\ Vacant(t, q)
    /\ Replaced(t, u, {}, q, Shape(t, p))

(* The subtree becomes one leaf at the same path, holding its shape. *)
Consolidate(t, u, p) ==
    /\ p # <<>> /\ CanHold(t, p)
    /\ Replaced(t, u, Destroyed(t, p), p,
                [r \in {<<>>} |-> [type |-> "leaf", data |-> Len(packs) + 1]])
    /\ packs' = Append(packs, Shape(t, p))

(* The leaf is gone and the shape it holds is back, at a path beside it. *)
Restore(t, u, p, q) ==
    /\ p \in DOMAIN t /\ t[p].type = "leaf" /\ t[p].data # 0
    /\ (p = q \/ Vacant(t, q)) /\ Parent(p) = Parent(q)
    /\ Replaced(t, u, {p}, q, packs[t[p].data])

Edit(t, u, p) ==
    \/ Make(t, u, p)
    \/ Unlink(t, u, p)
    \/ Destroy(t, u, p)
    \/ \E q \in DOMAIN u :
        Relocate(t, u, p, q) \/ Alias(t, u, p, q) \/ Duplicate(t, u, p, q) \/ Restore(t, u, p, q)

Init ==
    /\ DOMAIN tree = {<<>>} /\ tree[<<>>].type = "container" /\ tree[<<>>].id \in Ids
    /\ packs = <<>>

Next ==
    \E t \in {tree}, u \in {tree'} : \E p \in DOMAIN t \cup DOMAIN u :
        \/ Edit(t, u, p) /\ UNCHANGED packs
        \/ Consolidate(t, u, p)

Spec == Init /\ [][Next]_vars
================================================================================
