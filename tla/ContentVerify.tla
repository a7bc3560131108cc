---------------------------- MODULE ContentVerify -----------------------------
(***************************************************************************)
(* What `aloelite verify` finds wrong with the entries of a ContentStore   *)
(* (operations.py, the shallow half of verify, and its one query).         *)
(*                                                                         *)
(* The deep half recomputes addresses and tags of the stored bytes: it is  *)
(* about damage on disk, which this model has none of.                     *)
(***************************************************************************)
EXTENDS ContentStore

(* variant: the newest version is walked, not the committed one               *)
RefsNewest(n) == {r \in manifest : r.node = n /\ \A v \in Versions(n) : r.ver >= v}

(* The rows verify_manifest returns for an entry: of its committed version. *)
Refs(n) == Rows(n, content[n].ver)

Missing(n) == {r \in Refs(n) : r.chunk \notin pool}

Gap(n) == {r.idx : r \in Refs(n)} # 0..Cardinality(Refs(n)) - 1

(* The lengths of the chunks that are present, added up. *)
Total(n) ==
    LET present == Refs(n) \ Missing(n)
    IN  2 * Cardinality(present) - Cardinality({r \in present : r.chunk \in Short})

(* An entry without rows is not looked at. *)
Reported(n) ==
    /\ Refs(n) # {}
    /\ Gap(n) \/ Missing(n) # {} \/ Total(n) # content[n].size

Shape(text) == [i \in DOMAIN text |-> text[i] \in Short]

(* The committed rows are numbered from 0 without a hole and cut into chunks   *)
(* as the text was that the last successful write meant to store.              *)
Intact(n) ==
    LET rows == Rows(n, content[n].ver)
    IN  /\ {r.idx : r \in rows} = 0..Cardinality(rows) - 1
        /\ Shape(Assemble(rows)) = Shape(Text(n))

(* Whatever failed transactions, lapsed locks and racing writers did, verify   *)
(* blames no entry whose committed version is what its writer meant to store:  *)
(* not for rows of a write that died, nor of one under way.                    *)
NoFalseAlarm == \A n \in Nodes : Exists(n) /\ Intact(n) => ~Reported(n)

(* Where transactions may fail, but a writer keeps its lock and a mount runs   *)
(* one write of an entry at a time, verify reports every entry with rows that  *)
(* are not those its writer meant to store.  (A full chunk in the place of     *)
(* another full chunk is not seen: the sizes agree.)                           *)
DamageReported ==
    \A n \in Nodes : Exists(n) /\ Refs(n) # {} /\ ~Intact(n) => Reported(n)

(* What the note on verify_manifest says: a committed version without rows is  *)
(* a committed version without content.                                        *)
NoRowsIsFine == \A n \in Nodes : Exists(n) /\ Refs(n) = {} => Intact(n)
===============================================================================
