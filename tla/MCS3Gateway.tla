---- MODULE MCS3Gateway ----
EXTENDS S3Gateway

\* Keys "a", "d/f", "d/g" and "e"; "d" may come to be a key or a container.
MCPaths == {<<>>, <<"a">>, <<"d">>, <<"d", "f">>, <<"d", "g">>, <<"e">>}
MCOrder == <<<<"a">>, <<"d">>, <<"d", "f">>, <<"d", "g">>, <<"e">>>>
MCDirs == {<<>>, <<"d">>}
MCDocs == {<<"a">>, <<"d", "f">>, <<"d", "g">>}
====
