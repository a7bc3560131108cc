---- MODULE MCSessions ----
(* c1 is a handle of its own, c2 a direct session of the manager. *)
EXTENDS Sessions, TLC
CONSTANTS v1, v2, c1, c2, p1, p2
OneVolume == [c \in Conns |-> {v1}]
Both == [c \in Conns |-> {v1, v2}]
PinSymmetry == Permutations({p1, p2})
====
