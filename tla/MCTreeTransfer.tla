---- MODULE MCTreeTransfer ----
EXTENDS TreeTransfer
CONSTANTS a, b
AllPaths == (UNION {[1..n -> Names] : n \in 0..2} \ {<<b, b>>})
            \cup {<<a, b, a>>, <<a, a, a>>, <<a, a, b>>}
MCDirs == {Root, <<a>>, <<b>>}
MCDocs == {<<a, a>>, <<b, a>>}
MCLocalDirs == {<<b>>}
MCLocalDocs == {<<a>>}
MCTargets == {Root, <<a>>}
====
