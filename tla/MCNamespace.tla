------------------------------ MODULE MCNamespace ------------------------------
(***************************************************************************)
(* Values and symmetry for model-checking Namespace.                       *)
(***************************************************************************)
EXTENDS NamespaceRefinement

CONSTANTS dirA, dirB

AtRoot == {<<>>}
AnyAnchor == {<<>>, <<dirA>>, <<dirB>>, <<dirA, dirB>>, <<dirB, dirA>>}

(* One caller at a time, who takes no name twice, with every operation. *)
Careful ==
    [anchors |-> AtRoot, overlap |-> FALSE, sameNames |-> FALSE,
     anchorOps |-> TRUE, edges |-> 4,
     ops |-> {"create", "rename", "link", "move", "remove", "remove_recursive",
              "copy", "pack", "unpack"}]

(* Mounts that share the root and keep out of each other's way by locks. *)
Sharing ==
    [anchors |-> AtRoot, overlap |-> TRUE, sameNames |-> FALSE,
     anchorOps |-> TRUE, edges |-> 3,
     ops |-> {"create", "rename", "link", "move", "remove", "remove_recursive",
              "pack", "unpack", "lock"}]

(* Mounts of disjoint subtrees, who reuse names and make no hardlinks. *)
Apart ==
    [anchors |-> AnyAnchor, overlap |-> FALSE, sameNames |-> TRUE,
     anchorOps |-> FALSE, edges |-> 4,
     ops |-> {"create", "rename", "move", "remove", "remove_recursive",
              "pack", "unpack"}]

OneCaller == {Careful}
TwoCallers == {Sharing, Apart}

NameSymmetry == Permutations(Names)
MountSymmetry == Permutations(Mounts)
RootSymmetry == NameSymmetry \cup MountSymmetry
================================================================================
