--------------------------- MODULE ContentRefinement ---------------------------
(***************************************************************************)
(* ContentStore implements AtomicFiles: with an entry read as the rows of  *)
(* its committed version, staging, versions, carried references, the pool, *)
(* locks, retention and both sweeps are steps a caller cannot see.         *)
(***************************************************************************)
EXTENDS ContentStore

ASSUME DraftAssumption == None \notin [node : Nodes, text : Seq(Chunk)]

Files == INSTANCE AtomicFiles WITH
    Commits <- 0..MaxVersion,
    file <- [n \in Nodes |-> IF Exists(n) THEN Assemble(Rows(n, content[n].ver)) ELSE None],
    log <- truth,
    draft <- [w \in Writers |-> IF wr[w].phase = "open"
                                THEN [node |-> wr[w].node, text |-> wr[w].out] ELSE None],
    reading <- [r \in Readers |->
                  [want |-> IF rd[r].phase = "idle" THEN None ELSE rd[r].want,
                   got  |-> IF rd[r].phase = "done" THEN Assemble(rd[r].got) ELSE None]]

(* Every step of the store is one step of the abstract files, or invisible    *)
(* (IO-2r1: partial writes leave the committed version unchanged).            *)
ImplementsAtomicFiles == Files!Spec
================================================================================
