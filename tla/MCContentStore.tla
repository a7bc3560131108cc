---------------------------- MODULE MCContentStore ----------------------------
(***************************************************************************)
(* Values and symmetry for model-checking ContentStore.                    *)
(***************************************************************************)
EXTENDS ContentRefinement, ContentVerify, TLC

CONSTANTS f1, f2, s1

MCFull == {f1, f2}
OneFull == {f1}
MCShort == {s1}
TwoPayloads == {<<s1>>, <<f1, s1>>}
OnePayload == {<<f1, s1>>}

Symmetry == Permutations(Mounts) \cup Permutations(Writers) \cup Permutations(Nodes)
=============================================================================
