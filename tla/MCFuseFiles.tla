---- MODULE MCFuseFiles ----
EXTENDS FuseFiles, TLC

Symmetry == UNION {Permutations(s) : s \in {Names, Bytes, Fds}}
====
