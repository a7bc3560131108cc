---- MODULE TreeTransfer ----
(***************************************************************************)
(* The walks of the command line over a volume: aloelite-admin export,     *)
(* import and snapshot (aloelite/transfer.py over aloelite/path.py), and   *)
(* get -r and put -r (aloelite/cli.py).  Each is many transactions, and    *)
(* each goes by names it read in an earlier one; a file is copied by many. *)
(*                                                                         *)
(* The command mounts read-write and without overlap, so no other command  *)
(* and no FUSE daemon is mounted meanwhile.  The manager's direct sessions *)
(* mount with overlap: "session" joins and leaves at any time.             *)
(***************************************************************************)
EXTENDS VolumeTree

CONSTANTS
  Unsafe,                 \* names that would leave a local directory
  LocalDirs, LocalDocs,   \* the local tree that put -r copies, below its root
  BaseName,               \* the name of that root
  Targets,                \* the destinations put -r is given, sources of get -r
  MaxCommands             \* bound on commands begun

(* What put -r may copy to has its paths; a local file is no directory.    *)
ASSUME TransferAssumption ==
  /\ Targets \subseteq Paths /\ BaseName \in Names /\ MaxCommands \in Nat
  /\ LocalDirs \cup LocalDocs \subseteq Seq(Names) /\ LocalDirs \cap LocalDocs = {}
  /\ \A p \in Targets : \A root \in {p, Append(p, BaseName)} \cap Paths :
       \A c \in LocalDirs \cup LocalDocs : root \o c \in Paths

(* What is made of a node: the contents its bytes are of, the one it was   *)
(* known to have when the copy began, and the one whose time it was given. *)
Contents == (Nat \X Nat) \cup {None}
Made == [dir: BOOLEAN, data: SUBSET (Nat \X Nat), mode: {0, 1}, seen: Contents, mtime: Contents]
ASSUME MadeAssumption == None \notin Made /\ None \notin Nat \X Nat

VARIABLES
  job,     \* the command that runs: where it is, what it read and has to do
  copy,    \* what it has made: the new volume's tree, or local files
  rows,    \* holders of valid rw mounts: "job", "session", "left" by a death
  taken,   \* is there a volume of the export's name in the destination file?
  begun,   \* commands begun
  was      \* the trees the volume has had since the command mounted it

ownVars == <<job, copy, rows, taken, begun>>
transferVars == <<treeVars, ownVars, was>>

Idle == [op |-> None, pc |-> "idle", root |-> Root, todo |-> <<>>, left |-> {},
         child |-> Root, node |-> None, at |-> 0, pruned |-> {}, since |-> 0]

Nothing == [p \in Paths |-> None]

Doing(op, pc) == job.op = op /\ job.pc = pc
GoOn(pc) == job' = [job EXCEPT !.pc = pc]

(* Every verb runs inside the with-statements of its mounts: on success    *)
(* and on any error they unmount, and main reports.  What was made stays.  *)
Leave ==
  /\ job' = Idle
  /\ rows' = rows \ {"job"}
  /\ UNCHANGED <<treeVars, copy, taken, begun>>

---------------------------------------------------------------------------
(* A command: create_volume for an export, then the mount                  *)

Launch(op, root) ==
  /\ job = Idle
  /\ begun < MaxCommands
  /\ begun' = begun + 1
  /\ copy' = Nothing
  /\ job' = [Idle EXCEPT !.op = op, !.pc = "mount", !.root = root, !.since = outside]
  /\ UNCHANGED <<treeVars, rows>>

(* ensure_unique refuses a name that is taken; the empty volume is there   *)
(* before either mount is tried.                                           *)
NewVolume ==
  /\ ~taken
  /\ taken' = TRUE

(* _cmd_export, _cmd_import and _cmd_snapshot differ in the file the new   *)
(* volume is in.                                                           *)
BeginExport == Launch("export", Root) /\ NewVolume

BeginPut(p) == Launch("put", p) /\ UNCHANGED taken

BeginGet(p) == Launch("get", p) /\ UNCHANGED taken

(* An rw mount is refused beside any other (D-4).                          *)
Mount ==
  /\ job.pc = "mount"
  /\ rows = {}
  /\ rows' = {"job"}
  /\ job' = [job EXCEPT !.pc = IF job.op = "export" THEN "list" ELSE "root",
                        !.todo = IF job.op = "export" THEN <<Root>> ELSE <<>>]
  /\ UNCHANGED <<treeVars, copy, taken, begun>>

(* MountConflict, or a wrong PIN.                                          *)
MountRefused == job.pc = "mount" /\ Leave

---------------------------------------------------------------------------
(* Reading a tree: export goes depth first, get breadth first              *)

Children(p) == {q \in Paths : q # Root /\ Parent(q) = p /\ Exists(q)}

(* _get_tree: the source must be a container.                              *)
GetRoot ==
  /\ Doing("get", "root")
  /\ IF IsDir(job.root)
     THEN job' = [job EXCEPT !.pc = "list", !.todo = <<job.root>>]
          /\ UNCHANGED <<treeVars, copy, rows, taken, begun>>
     ELSE Leave

Upcoming == IF job.op = "export" THEN job.todo[Len(job.todo)] ELSE Head(job.todo)
Later == IF job.op = "export" THEN SubSeq(job.todo, 1, Len(job.todo) - 1) ELSE Tail(job.todo)

(* iterdir, list: one transaction; what it saw of types is kept.           *)
List ==
  /\ job.pc = "list"
  /\ job.todo # <<>>
  /\ IF IsDir(Upcoming)
     THEN /\ job' = [job EXCEPT !.pc = "child", !.todo = Later,
                       !.left = {[path |-> q, dir |-> IsDir(q)] : q \in Children(Upcoming)}]
          /\ UNCHANGED <<treeVars, copy, rows, taken, begun>>
     ELSE Leave

Listed ==
  /\ job.pc = "child"
  /\ job.left = {}
  /\ GoOn("list")
  /\ UNCHANGED <<treeVars, copy, rows, taken, begun>>

File == [dir |-> FALSE, data |-> {}, mode |-> 0, seen |-> None, mtime |-> None]
Folder == [File EXCEPT !.dir = TRUE]

Make(p, thing) == copy' = [copy EXCEPT ![p] = thing]

(* copy_tree, per child: stat; is_dir, which stats again; mkdir or open    *)
(* and copy; metadata, which stats again.  The path is resolved each time. *)
Stat ==
  /\ Doing("export", "child")
  /\ \E c \in job.left :
       IF Exists(c.path)
       THEN /\ job' = [job EXCEPT !.pc = "type", !.child = c.path, !.left = @ \ {c},
                                  !.node = Content(c.path)]
            /\ UNCHANGED <<treeVars, copy, rows, taken, begun>>
       ELSE Leave

Type ==
  /\ Doing("export", "type")
  /\ IF IsDir(job.child)
     THEN /\ Make(job.child, [Folder EXCEPT !.seen = job.node])
          /\ job' = [job EXCEPT !.pc = "meta", !.todo = Append(@, job.child)]
     ELSE GoOn("open") /\ UNCHANGED copy
  /\ UNCHANGED <<treeVars, rows, taken, begun>>

Open ==
  /\ Doing("export", "open")
  /\ IF IsDoc(job.child)
     THEN /\ Make(job.child, [File EXCEPT !.seen = job.node])
          /\ job' = [job EXCEPT !.pc = "copy", !.node = tree[job.child].id]
          /\ UNCHANGED <<treeVars, rows, taken, begun>>
     ELSE Leave

(* variant: each read resolves the path again (CopyHonest) *)
ReadPieceByName ==
  /\ job.pc = "copy"
  /\ Make(job.child, [copy[job.child] EXCEPT
                        !.data = @ \cup {Content(q) : q \in {r \in {job.child} : IsDoc(r)}}])
  /\ \/ UNCHANGED job
     \/ GoOn(IF job.op = "export" THEN "meta" ELSE "child")
  /\ UNCHANGED <<treeVars, rows, taken, begun>>

(* A read takes what is committed of the descriptor's node by then; the    *)
(* last one finds nothing more.  Of a node removed meanwhile the           *)
(* descriptor goes on to read what the tree no longer tells.               *)
ReadPiece ==
  /\ job.pc = "copy"
  /\ Make(job.child, [copy[job.child] EXCEPT
                        !.data = @ \cup {Content(q) : q \in {r \in Paths : IsDoc(r) /\ tree[r].id = job.node}}])
  /\ \/ UNCHANGED job
     \/ GoOn(IF job.op = "export" THEN "meta" ELSE "child")
  /\ UNCHANGED <<treeVars, rows, taken, begun>>

(* variant: the time is that of the last stat (CopyComplete) *)
MetaStatLast ==
  /\ Doing("export", "meta")
  /\ IF Exists(job.child)
     THEN /\ Make(job.child, [copy[job.child] EXCEPT !.mode = tree[job.child].mode,
                                                    !.seen = Content(job.child)])
          /\ GoOn("child")
          /\ UNCHANGED <<treeVars, rows, taken, begun>>
     ELSE Leave

Meta ==
  /\ Doing("export", "meta")
  /\ IF Exists(job.child)
     THEN /\ Make(job.child, [copy[job.child] EXCEPT !.mode = tree[job.child].mode])
          /\ GoOn("child")
          /\ UNCHANGED <<treeVars, rows, taken, begun>>
     ELSE Leave

(* The times are set last, for every write bumps them.                     *)
Stamp ==
  /\ Doing("export", "list")
  /\ job.todo = <<>>
  /\ copy' = [p \in Paths |-> IF copy[p] = None THEN None
                              ELSE [copy[p] EXCEPT !.mtime = copy[p].seen]]
  /\ GoOn("done")
  /\ UNCHANGED <<treeVars, rows, taken, begun>>

(* _get_tree, per child: by the type the listing gave; a container is      *)
(* queued though it was skipped, and its children are skipped after it.    *)
Skipped(p) == p[Len(p)] \in Unsafe \/ Parent(p) \in job.pruned

Visit ==
  /\ Doing("get", "child")
  /\ \E c \in job.left :
       LET p == c.path
           others == [job EXCEPT !.left = @ \ {c}] IN
       IF c.dir
       THEN /\ job' = [others EXCEPT !.todo = Append(@, p),
                         !.pruned = IF Skipped(p) THEN @ \cup {p} ELSE @]
            /\ IF Skipped(p) THEN UNCHANGED copy ELSE Make(p, Folder)
            /\ UNCHANGED <<treeVars, rows, taken, begun>>
       ELSE IF Skipped(p)
       THEN job' = others /\ UNCHANGED <<treeVars, copy, rows, taken, begun>>
       ELSE IF IsDoc(p)
       THEN /\ job' = [others EXCEPT !.pc = "copy", !.child = p, !.node = tree[p].id]
            /\ Make(p, File)
            /\ UNCHANGED <<treeVars, rows, taken, begun>>
       ELSE Leave

GetDone ==
  /\ Doing("get", "list")
  /\ job.todo = <<>>
  /\ GoOn("done")
  /\ UNCHANGED <<treeVars, copy, rows, taken, begun>>

---------------------------------------------------------------------------
(* put -r                                                                  *)

(* _tree_root_remote: a container receives the tree, a missing path        *)
(* becomes it.                                                             *)
PutRoot ==
  /\ Doing("put", "root")
  /\ LET p == job.root
         root == IF IsDir(p) THEN Append(p, BaseName) ELSE p IN
     IF IsDoc(p) \/ root \notin Paths (* a bound *) \/ \E q \in Paths : q # p /\ Within(p, q) /\ IsDoc(q)
     THEN Leave
     ELSE /\ job' = [job EXCEPT !.pc = "look", !.root = root, !.child = root, !.at = 1,
                       !.left = LocalDirs \cup LocalDocs]
          /\ UNCHANGED <<treeVars, copy, rows, taken, begun>>

(* Mount.mkdir with parents and exist_ok: look; then from the top down     *)
(* look for each parent and create it; create the path itself.             *)
Prefix == SubSeq(job.child, 1, job.at)

LookFor ==
  /\ Doing("put", "look")
  /\ IF IsDoc(job.child) THEN Leave
     ELSE /\ GoOn(IF IsDir(job.child) THEN "local" ELSE "parents")
          /\ UNCHANGED <<treeVars, copy, rows, taken, begun>>

Parents ==
  /\ Doing("put", "parents")
  /\ job' = IF job.at < Len(job.child) /\ Exists(Prefix) THEN [job EXCEPT !.at = @ + 1]
            ELSE [job EXCEPT !.pc = "make"]
  /\ UNCHANGED <<treeVars, copy, rows, taken, begun>>

MakeNext ==
  /\ Doing("put", "make")
  /\ IF MayCreate(Prefix)
     THEN /\ tree' = Created(Prefix, TRUE)
          /\ fresh' = fresh + 1
          /\ job' = IF job.at < Len(job.child) THEN [job EXCEPT !.pc = "parents", !.at = @ + 1]
                    ELSE [job EXCEPT !.pc = "local"]
          /\ UNCHANGED <<elock, now, outside, copy, rows, taken, begun>>
     ELSE Leave

(* _local_walk lists parents before children.                              *)
Ready(c) == c \in job.left /\ \A d \in job.left : Within(c, d) => d = c

LocalDir ==
  /\ Doing("put", "local")
  /\ \E c \in LocalDirs :
       /\ Ready(c)
       /\ job' = [job EXCEPT !.pc = "look", !.child = job.root \o c, !.at = 1, !.left = @ \ {c}]
  /\ UNCHANGED <<treeVars, copy, rows, taken, begun>>

(* open_write creates a missing entry, empty, and locks it until close.    *)
Writable(p) == IsDoc(p) /\ ~HeldByOther("job", p)

(* variant: an entry that is there is passed over (PutComplete) *)
LocalDocOnce ==
  /\ Doing("put", "local")
  /\ \E c \in LocalDocs :
       LET p == job.root \o c IN
       /\ Ready(c)
       /\ IF MayCreate(p)
          THEN /\ tree' = [tree EXCEPT ![p] = Node(fresh, FALSE, 0)]
               /\ fresh' = fresh + 1
               /\ elock' = [elock EXCEPT !["job"] = [node |-> fresh, mount |-> "job", until |-> None]]
               /\ job' = [job EXCEPT !.pc = "close", !.child = p, !.node = fresh, !.left = @ \ {c}]
          ELSE job' = [job EXCEPT !.left = @ \ {c}] /\ UNCHANGED <<tree, fresh, elock>>
  /\ UNCHANGED <<now, outside, copy, rows, taken, begun>>

LocalDoc ==
  /\ Doing("put", "local")
  /\ \E c \in LocalDocs :
       LET p == job.root \o c IN
       /\ Ready(c)
       /\ IF Writable(p) \/ MayCreate(p)
          THEN /\ tree' = IF Exists(p) THEN tree
                          ELSE [tree EXCEPT ![p] = Node(fresh, FALSE, 0)]
               /\ fresh' = IF Exists(p) THEN fresh ELSE fresh + 1
               /\ elock' = [elock EXCEPT !["job"] =
                              [node |-> tree'[p].id, mount |-> "job", until |-> None]]
               /\ job' = [job EXCEPT !.pc = "close", !.child = p, !.node = tree'[p].id,
                                     !.left = @ \ {c}]
               /\ UNCHANGED <<now, outside, copy, rows, taken, begun>>
          ELSE Leave

(* The descriptor knows its node: it commits wherever that is by now.      *)
CloseDoc ==
  /\ Doing("put", "close")
  /\ tree' = WrittenNode(job.node)
  /\ elock' = [elock EXCEPT !["job"] = None]
  /\ copy' = [q \in Paths |-> IF tree'[q] # tree[q]
                              THEN [File EXCEPT !.data = {<<job.node, tree'[q].ver>>}]
                              ELSE copy[q]]
  /\ GoOn("local")
  /\ UNCHANGED <<fresh, now, outside, rows, taken, begun>>

PutDone ==
  /\ Doing("put", "local")
  /\ job.left = {}
  /\ GoOn("done")
  /\ UNCHANGED <<treeVars, copy, rows, taken, begun>>

Finish == job.pc = "done" /\ Leave

---------------------------------------------------------------------------
(* Everybody else                                                          *)

Join ==
  /\ "session" \notin rows
  /\ outside < MaxOutside
  /\ rows' = rows \cup {"session"}
  /\ UNCHANGED <<treeVars, job, copy, taken, begun>>

Quit ==
  /\ "session" \in rows
  /\ rows' = rows \ {"session"}
  /\ UNCHANGED <<treeVars, job, copy, taken, begun>>

SessionWrite(p) ==
  /\ IsDoc(p) /\ ~HeldByOther("session", p)
  /\ tree' = Written(p)
  /\ UNCHANGED fresh

SessionCreate(p, dir) ==
  /\ MayCreate(p)
  /\ tree' = Created(p, dir)
  /\ fresh' = fresh + 1

SessionRemove(p) ==
  /\ p # Root /\ MayRemove("session", p)
  /\ tree' = Removed(p)
  /\ UNCHANGED fresh

SessionMove(p, q) ==
  /\ p # Root /\ MayMove("session", p, q)
  /\ tree' = Moved(p, q)
  /\ UNCHANGED fresh

SessionChmod(p) ==
  /\ Exists(p) /\ ~HeldByOther("session", p)
  /\ tree' = [tree EXCEPT ![p].mode = 1 - @]
  /\ UNCHANGED fresh

Session ==
  /\ "session" \in rows
  /\ outside < MaxOutside
  /\ outside' = outside + 1
  /\ \E p \in Paths :
       \/ SessionWrite(p) \/ SessionRemove(p) \/ SessionChmod(p)
       \/ \E dir \in BOOLEAN : SessionCreate(p, dir)
       \/ \E q \in Paths : SessionMove(p, q)
  /\ UNCHANGED <<elock, now, ownVars>>

(* The command is killed: nothing unmounts, and its mount and lock have    *)
(* no expiry.                                                              *)
Die ==
  /\ job # Idle
  /\ job' = Idle
  /\ rows' = IF "job" \in rows THEN (rows \ {"job"}) \cup {"left"} ELSE rows
  /\ elock' = IF elock["job"] = None THEN elock ELSE [elock EXCEPT !["job"].mount = "left"]
  /\ UNCHANGED <<tree, fresh, now, outside, copy, taken, begun>>

---------------------------------------------------------------------------
TransferInit ==
  /\ TreeInit
  /\ job = Idle /\ copy = Nothing
  /\ rows = {} /\ taken = FALSE /\ begun = 0
  /\ was = {}

Command ==
  \/ BeginExport
  \/ \E p \in Targets : BeginPut(p) \/ BeginGet(p)
  \/ Mount \/ MountRefused
  \/ GetRoot \/ List \/ Listed \/ Stat \/ Type \/ Open \/ ReadPiece \/ Meta \/ Stamp \/ Visit \/ GetDone
  \/ PutRoot \/ LookFor \/ Parents \/ MakeNext \/ LocalDir \/ LocalDoc \/ CloseDoc \/ PutDone
  \/ Finish

(* was is a witness for the properties.                                    *)
Witness == was' = IF "job" \in rows' THEN was \cup {tree'} ELSE {}

TransferNext == (Command \/ Join \/ Quit \/ Session \/ Die) /\ Witness

TransferSpec == TransferInit /\ [][TransferNext]_transferVars

---------------------------------------------------------------------------
(* Properties                                                              *)

Reading == job.op \in {"export", "get"} /\ "job" \in rows

TransferTypes ==
  /\ \A p \in Paths : tree[p] = None \/ tree[p].id \in 1..fresh - 1
  /\ \A p \in Paths : Exists(p) /\ p # Root => IsDir(Parent(p))
  /\ rows \subseteq {"job", "session", "left"}
  /\ job = Idle <=> job.pc = "idle"
  /\ taken \in BOOLEAN /\ begun \in 0..MaxCommands

(* The names a path adds to the source's are those of local files.         *)
Inside(p) == \A i \in Len(job.root) + 1 .. Len(p) : p[i] \notin Unsafe

Stayed(p) == Exists(p) /\ \A t \in was : t[p] # None /\ t[p].id = tree[p].id
Wanted(p) == /\ p # Root /\ Within(p, job.root) /\ p # job.root
             /\ job.op = "get" => Inside(p)

(* copy_tree, _get_tree: whatever kept its place while the command ran is  *)
(* in the copy when it reports success, with contents it had meanwhile,    *)
(* and not under a later time than any of them: a synchronization by time  *)
(* would never look at it again.  Others may have written it between two   *)
(* reads, and moved, removed and created around it.                        *)
CopyComplete ==
  Reading /\ job.pc = "done" =>
    \A p \in Paths : Wanted(p) /\ Stayed(p) =>
      /\ copy[p] # None
      /\ copy[p].dir = tree[p].dir
      /\ ~copy[p].dir =>
           /\ copy[p].data # {} /\ copy[p].data \subseteq {<<t[p].id, t[p].ver>> : t \in was}
           /\ job.op = "export" => \A d \in copy[p].data : copy[p].mtime[2] <= d[2]

(* What is in the copy, finished or not, was in the volume under that path *)
(* at some time while the command ran.  A file is of one node, the one     *)
(* that was there: it may mix versions this node had meanwhile, if it was  *)
(* written between two reads, but nothing of another.  And get -r makes    *)
(* nothing under a name that would lead out of the destination, at any     *)
(* depth.                                                                  *)
HadContent(d) == \E t \in was, q \in Paths : t[q] # None /\ d = <<t[q].id, t[q].ver>>

CopyHonest ==
  Reading => \A p \in Paths : copy[p] # None =>
    /\ job.op = "get" => Inside(p)
    /\ \E t \in was : /\ t[p] # None
                      /\ t[p].dir = copy[p].dir
                      /\ \A d \in copy[p].data : d[1] = t[p].id /\ HadContent(d)

(* _put_tree: when it reports success and nobody else was at work, every   *)
(* local file is the current content of its entry, also where an earlier   *)
(* command that failed had left part of the tree.                          *)
PutComplete ==
  Doing("put", "done") /\ outside = job.since =>
    \A c \in LocalDocs : LET p == job.root \o c IN
      IsDoc(p) /\ copy[p] # None /\ copy[p].data = {Content(p)}

(* What the documentation says of transfers: the copy is a state of the    *)
(* volume.  It holds where no session joins.                               *)
Snapshot ==
  Doing("export", "done") =>
    \E t \in was : \A p \in Paths \ {Root} :
      (copy[p] = None) = (t[p] = None) /\ (copy[p] # None /\ ~copy[p].dir => copy[p].data = {<<t[p].id, t[p].ver>>})
====
