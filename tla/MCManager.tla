---- MODULE MCManager ----
EXTENDS Manager

(* Those who mount through FUSE and the browser; those who come through the *)
(* browser and the web frontends; and the web frontends of plain volumes.   *)
Desktop == [kinds |-> {"fuse", "direct"}, encrypted |-> {TRUE}]
Remote  == [kinds |-> {"direct", "dav", "s3"}, encrypted |-> {TRUE}]
Plain   == [kinds |-> {"dav", "s3"}, encrypted |-> {FALSE}]
AllPublics == {Desktop, Remote, Plain}
====
