---- MODULE MCWebDav ----
EXTENDS WebDav

\* A directory with a file in it, and a free name to which either may move.
MCPaths == {<<>>, <<"d">>, <<"d", "f">>, <<"g">>, <<"g", "f">>}
MCDirs == {<<>>, <<"d">>}
MCDocs == {<<"d", "f">>}
====
