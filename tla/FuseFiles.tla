---- MODULE FuseFiles ----
(***************************************************************************)
(* The FUSE frontend (aloelite/fuse.py): what the kernel's file handles    *)
(* and inodes become over the engine's named entries.                      *)
(*                                                                         *)
(* The handlers share one trio loop and none awaits, so a handler is one   *)
(* step; processes interleave between them.  One directory of entries is   *)
(* modelled; a byte is a member of Bytes, and a write carries one.         *)
(*                                                                         *)
(* Ghosts: truth is the file as its users, told of success, must take it   *)
(* to be; excused holds the nodes of which this frontend is known not to   *)
(* keep that promise, once one of the causes named at Blur occurs; linked  *)
(* holds those of which it gave the kernel a reference it did not count.   *)
(***************************************************************************)
EXTENDS Naturals, FiniteSets, FiniteSetsExt, SequencesExt

CONSTANTS
  Names, Bytes,
  Nodes,               \* node ids, which rise in the order of creation
  Fds,                 \* file handles of the kernel
  Kinds,               \* ways to open: subset of {"r", "w", "a", "rw"}
  None,
  MaxLen,              \* bound on the length of a file
  Batch,               \* _APPEND_BATCH, in bytes of the model
  DirtyFlush,          \* _DIRTY_FLUSH
  MaxRefs,             \* bound on the kernel's references to an inode
  MaxEvents            \* bound on the requests after the first lookup

VARIABLES
  placed,    \* the directory: active placements [name, node, edge]
  content,   \* node -> its committed bytes, None before it is created
  held,      \* nodes locked by another mount
  fd,        \* AloeFuse._open: handle -> [mode, ino, path, node, buf, done, wrote]
  file,      \* AloeFuse._files: node -> [path, refs, size, ext] or None
  known,     \* AloeFuse._n, without the root
  count,     \* AloeFuse._nlookup
  kref,      \* references the kernel holds to each inode
  flying,    \* references it has given up in FORGETs not yet handled
  truth, excused, linked,   \* ghosts
  events

engine == <<placed, content, held>>
(* What a handle and an overlay hold; a gap in a file reads as zeros.      *)
Text == Seq(Bytes \cup {0})
HandleRow == [mode: {"r", "w", "a", "rw"}, ino: Nodes, path: Names, node: Nodes, buf: Text,
              done: BOOLEAN, wrote: BOOLEAN]
Overlay == [path: Names, refs: Nat, size: Nat, ext: [0..(MaxLen - 1) -> {None} \cup Bytes]]

ASSUME FuseAssumption ==
  /\ IsFiniteSet(Fds) /\ Kinds \subseteq {"r", "w", "a", "rw"} /\ MaxLen \in Nat
  /\ Batch \in Nat /\ Batch > 1 /\ Nodes \subseteq Nat
  /\ None \notin Bytes /\ None \notin Nat
  /\ None \notin Text /\ None \notin HandleRow /\ None \notin Overlay

inodes == <<known, count, kref, flying, linked>>
vars == <<engine, fd, file, inodes, truth, excused, events>>

---------------------------------------------------------------------------
(* The engine.  Of the nodes placed by a name the greatest shows (NODE-5), *)
(* and an older one shows again when it goes; the path of a node is that   *)
(* of its newest placement, whatever shows there.  A write by path needs   *)
(* the path and no foreign lock.                                           *)

Showing(name) == {p.node : p \in {q \in placed : q.name = name}}
Visible(name) == IF Showing(name) = {} THEN None ELSE Max(Showing(name))
Linked(n) == {p \in placed : p.node = n}
PathOf(n) == (CHOOSE p \in Linked(n) : \A q \in Linked(n) : q.edge <= p.edge).name
Reach(path) == Visible(path) # None /\ Visible(path) \notin held

(* Edges are numbered in the order they are made.                          *)
NextEdge == Max({0} \cup {p.edge + 1 : p \in placed})
Placed(name, n) == placed \cup {[name |-> name, node |-> n, edge |-> NextEdge]}

(* A node id no file has yet: ids of the minter rise.                      *)
Fresh(n) == content[n] = None /\ \A m \in Nodes : m < n => content[m] # None

Byte(s, i) == IF i \in DOMAIN s THEN s[i] ELSE 0
Resized(s, len) == [i \in 1..len |-> Byte(s, i)]
PutByte(s, off, b) == [Resized(s, Max({Len(s), off + 1})) EXCEPT ![off + 1] = b]

---------------------------------------------------------------------------
(* _OpenFile: dirty bytes by offset.  Adjacent extents are merged, so the  *)
(* set of dirty offsets says all there is to know of them.                 *)

Clear == [o \in 0..(MaxLen - 1) |-> None]
Dirty(f) == {o \in DOMAIN f.ext : f.ext[o] # None}

Overlaid(s, f) ==
  LET len == Max({Len(s)} \cup {o + 1 : o \in Dirty(f)})
  IN  [i \in 1..len |-> IF i - 1 \in Dirty(f) THEN f.ext[i - 1] ELSE Byte(s, i)]

OpenFile(path) == [path |-> path, refs |-> 1, size |-> Len(content[Visible(path)]), ext |-> Clear]

(* _OpenFile.read over the whole file *)
ViewOf(f) == [i \in 1..f.size |-> IF i - 1 \in Dirty(f) THEN f.ext[i - 1]
                                  ELSE Byte(content[Visible(f.path)], i)]

Pending(n) == file[n] # None /\ Dirty(file[n]) # {}
Flushable(n) == Pending(n) => Reach(file[n].path)

Flushed(n, c) == IF Pending(n) THEN [c EXCEPT ![Visible(file[n].path)] = Overlaid(@, file[n])]
                 ELSE c

Emptied(n) == IF file[n] = None THEN file ELSE [file EXCEPT ![n].ext = Clear]

(* _openfile: the overlay of the inode, one reference more. *)
Reopened(f) == [f EXCEPT !.refs = @ + 1]
Shared(n, path) == [file EXCEPT ![n] = IF @ = None THEN OpenFile(path) ELSE Reopened(@)]

(* _drop_openfile *)
Dropped(f) == IF f.refs > 1 THEN [f EXCEPT !.refs = @ - 1] ELSE None

---------------------------------------------------------------------------
(* Handles *)

On(n) == {h \in Fds : fd[h] # None /\ fd[h].ino = n}
Mode(h, m) == fd[h] # None /\ fd[h].mode = m
Opened(n, mode) == {h \in On(n) : fd[h].mode = mode}
Batches(n) == {h \in Opened(n, "a") : fd[h].buf # <<>>}
Streams(n) == {h \in Opened(n, "w") : ~fd[h].done}

(* node is what the descriptor of a reader or a stream was opened on; the  *)
(* others go by their path.                                                *)
Handle(mode, n, path, node) ==
  [mode |-> mode, ino |-> n, path |-> path, node |-> node, buf |-> <<>>, done |-> FALSE,
   wrote |-> mode = "w"]

Appended(h, c) == [c EXCEPT ![Visible(fd[h].path)] = @ \o fd[h].buf]

(* _settle: append batches first, then dirty extents. *)
Settleable(n) == (\A h \in Batches(n) : Reach(fd[h].path)) /\ Flushable(n)

(* variant: settling leaves the append batches where they are (OneTruth) *)
SettledDirty(n) == Flushed(n, content)

Settled(n) == Flushed(n, FoldSet(Appended, content, Batches(n)))

(* getattr: the committed size and what waits to be appended, or what a stream *)
(* or the overlay has come to.                                                 *)
StatSize(n) ==
  LET waiting == MapThenSumSet(LAMBDA h : Len(fd[h].buf), Batches(n))
  IN  Max({Len(content[n]) + waiting}
            \cup {Len(fd[h].buf) : h \in Opened(n, "w")}
            \cup IF file[n] = None THEN {} ELSE {file[n].size})

---------------------------------------------------------------------------
(* Causes for which the frontend is known not to keep a file's truth.      *)

Astray(m, path, n) == Visible(path) # m /\ n \in {m, Visible(path)}

(* A reader lies about its inode, a stream replaces another file as well.  *)
Misled(h, n) ==
  /\ fd[h] # None /\ fd[h].node # fd[h].ino
  /\ \/ fd[h].mode \in {"r", "w"} /\ n = fd[h].ino
     \/ fd[h].mode = "w" /\ n = fd[h].node

Blur(n) ==
  \* a stream, which replaces the file when it closes, beside another writer
  \/ \E h \in Streams(n) : file[n] # None \/ \E g \in On(n) \ {h} : fd[g].mode # "r"
  \* buffered appends, which random access neither sees nor counts
  \/ Batches(n) # {} /\ file[n] # None
  \* batches of two handles, which land in the order of their commits
  \/ Cardinality(Batches(n)) > 1
  \* a name some pending bytes go by, which names another file now
  \/ \E h \in Fds : fd[h] # None /\ fd[h].mode \in {"a", "rw"} /\ Astray(fd[h].ino, fd[h].path, n)
  \/ \E m \in Nodes : file[m] # None /\ Astray(m, file[m].path, n)
  \* an inode opened by its path, at which another file showed
  \/ \E h \in Fds : Misled(h, n)

Blurs(more) == excused' = excused \cup more \cup {n \in Nodes : Blur(n)'}

Of(h) == {fd[h].ino}

Event == events < MaxEvents /\ events' = events + 1
---------------------------------------------------------------------------
(* Inodes.  The kernel refers to an inode by the entry replies it counted, *)
(* and gives them up in a FORGET, which may arrive late.                   *)

Counted(n) == /\ known' = known \cup {n}
              /\ count' = [count EXCEPT ![n] = @ + 1]
              /\ kref' = [kref EXCEPT ![n] = @ + 1]
              /\ UNCHANGED <<flying, linked>>

(* lookup, by _remember *)
Lookup(name) ==
  LET n == Visible(name)
  IN  /\ n # None
      /\ kref[n] < MaxRefs
      /\ Counted(n)
      /\ UNCHANGED <<engine, fd, file, truth, excused>>

(* What a directory handle may hold: opendir takes the listing once, and nodes *)
(* outlive their names.                                                        *)
Listed(n) == content[n] # None

(* A reply of readdir, which the kernel counts and _register does not.         *)
Readdir(n) ==
  /\ Listed(n) /\ kref[n] < MaxRefs
  /\ known' = known \cup {n}
  /\ kref' = [kref EXCEPT ![n] = @ + 1]
  /\ linked' = linked \cup {n}
  /\ UNCHANGED <<engine, fd, file, count, flying, truth, excused>>

(* external: the kernel drops an inode nothing uses *)
Evict(n) ==
  /\ kref[n] > 0 /\ On(n) = {} /\ flying[n] = 0
  /\ flying' = [flying EXCEPT ![n] = kref[n]]
  /\ kref' = [kref EXCEPT ![n] = 0]
  /\ UNCHANGED <<engine, fd, file, known, count, linked, truth, excused>>

(* variant: a FORGET drops the inode whatever its count (InodeHeld) *)
ForgetAll(n) ==
  /\ flying[n] > 0
  /\ flying' = [flying EXCEPT ![n] = 0]
  /\ count' = [count EXCEPT ![n] = 0] /\ known' = known \ {n}
  /\ linked' = IF kref[n] = 0 THEN linked \ {n} ELSE linked
  /\ UNCHANGED <<engine, fd, file, kref, truth, excused>>

Forget(n) ==
  /\ flying[n] > 0
  /\ flying' = [flying EXCEPT ![n] = 0]
  /\ IF count[n] > flying[n]
     THEN count' = [count EXCEPT ![n] = @ - flying[n]] /\ UNCHANGED known
     ELSE count' = [count EXCEPT ![n] = 0] /\ known' = known \ {n}
  /\ linked' = IF kref[n] = 0 THEN linked \ {n} ELSE linked
  /\ UNCHANGED <<engine, fd, file, kref, truth, excused>>

(* The process names files it looked up: the kernel holds their inodes.    *)
InUse(n) == kref[n] > 0 /\ n \in known

---------------------------------------------------------------------------
(* Opening.  The handlers ask for the path of the inode and open by path   *)
(* whatever shows there.                                                   *)

Install(h, handle) == fd' = [fd EXCEPT ![h] = handle]

Opens(n, kind, h) ==
  /\ fd[h] = None /\ kind \in Kinds
  /\ InUse(n) /\ Linked(n) # {}

(* the file an operation on an inode by path gets *)
Found(n) == Visible(PathOf(n))

OpenRead(n, h) ==
  /\ Opens(n, "r", h)
  /\ Install(h, Handle("r", n, PathOf(n), Found(n)))
  /\ UNCHANGED <<engine, file, inodes, truth>>
  /\ Blurs({})

(* O_WRONLY with O_TRUNC: open_write, whose lock keeps other mounts out *)
OpenStream(n, h) ==
  /\ Opens(n, "w", h) /\ Found(n) \notin held
  /\ Install(h, Handle("w", n, PathOf(n), Found(n)))
  /\ truth' = [truth EXCEPT ![n] = <<>>]
  /\ UNCHANGED <<engine, file, inodes>>
  /\ Blurs({})

OpenAppend(n, h) ==
  /\ Opens(n, "a", h)
  /\ Install(h, Handle("a", n, PathOf(n), n))
  /\ UNCHANGED <<engine, file, inodes, truth>>
  /\ Blurs({})

(* O_RDWR, and O_WRONLY without O_TRUNC or O_APPEND *)
OpenRandom(n, h) ==
  /\ Opens(n, "rw", h)
  /\ Install(h, Handle("rw", n, PathOf(n), n))
  /\ file' = Shared(n, PathOf(n))
  /\ UNCHANGED <<engine, inodes, truth>>
  /\ Blurs({})

(* Its truncation may be refused after the overlay was taken: no handle,   *)
(* and the reference stays.                                                *)
OpenTruncated(n, h) ==
  LET f == Shared(n, PathOf(n))[n]
  IN  /\ Opens(n, "rw", h)
      /\ IF Reach(f.path)
         THEN /\ Install(h, Handle("rw", n, PathOf(n), n))
              /\ content' = [Flushed(n, content) EXCEPT ![Visible(f.path)] = <<>>]
              /\ file' = [file EXCEPT ![n] = [f EXCEPT !.ext = Clear, !.size = 0]]
              /\ truth' = [truth EXCEPT ![n] = <<>>]
         ELSE file' = [file EXCEPT ![n] = f] /\ UNCHANGED <<fd, content, truth>>
      /\ UNCHANGED <<placed, held, inodes>>
      /\ Blurs({})

(* create: a reader gets a stream, as every other way that is not "a", "rw" *)
Create(name, kind, h) ==
  \E n \in Nodes :
    /\ fd[h] = None /\ kind \in Kinds
    /\ Visible(name) = None /\ Fresh(n)
    /\ placed' = Placed(name, n)
    /\ content' = [content EXCEPT ![n] = <<>>]
    /\ truth' = [truth EXCEPT ![n] = <<>>]
    /\ Counted(n)
    /\ Install(h, Handle(IF kind = "r" THEN "w" ELSE kind, n, name, n))
    /\ file' = IF kind # "rw" THEN file
               ELSE [file EXCEPT ![n] = [path |-> name, refs |-> 1, size |-> 0, ext |-> Clear]]
    /\ UNCHANGED <<held>>
    /\ Blurs({})

(* mknod of a regular file *)
Mknod(name) ==
  \E n \in Nodes :
    /\ Visible(name) = None /\ Fresh(n)
    /\ placed' = Placed(name, n)
    /\ content' = [content EXCEPT ![n] = <<>>]
    /\ truth' = [truth EXCEPT ![n] = <<>>]
    /\ Counted(n)
    /\ UNCHANGED <<held, fd, file>>
    /\ Blurs({})

---------------------------------------------------------------------------
(* Reading and writing                                                     *)

(* A reader of the store settles its inode first; a batch whose commit is  *)
(* refused fails the read.                                                 *)
Read(h) ==
  /\ Mode(h, "r")
  /\ LET n == fd[h].ino
     IN  /\ Settleable(n)
         /\ content' = Settled(n)
         /\ fd' = [g \in Fds |-> IF g \in Batches(n) THEN [fd[g] EXCEPT !.buf = <<>>] ELSE fd[g]]
         /\ file' = Emptied(n)
  /\ UNCHANGED <<placed, held, inodes, truth>>
  /\ Blurs({})

WriteStream(h, b) ==
  /\ Mode(h, "w") /\ ~fd[h].done /\ Len(fd[h].buf) < MaxLen
  /\ fd' = [fd EXCEPT ![h].buf = Append(@, b), ![h].wrote = TRUE]
  /\ truth' = [truth EXCEPT ![fd[h].ino] = PutByte(@, Len(fd[h].buf), b)]
  /\ UNCHANGED <<engine, file, inodes>>
  /\ Blurs({})

WriteAppend(h, b) ==
  /\ Mode(h, "a") /\ Len(truth[fd[h].ino]) < MaxLen
  /\ UNCHANGED <<placed, held, file, inodes>>
  /\ LET n == fd[h].ino
         wrote == [fd EXCEPT ![h].buf = Append(@, b), ![h].wrote = TRUE]
     IN  /\ truth' = [truth EXCEPT ![n] = Append(@, b)]
         /\ IF Len(wrote[h].buf) < Batch
            THEN fd' = wrote /\ UNCHANGED content /\ Blurs({})
            ELSE IF Reach(fd[h].path)
            THEN /\ fd' = [wrote EXCEPT ![h].buf = <<>>]
                 /\ content' = [content EXCEPT ![Visible(fd[h].path)] = @ \o wrote[h].buf]
                 /\ Blurs({})
            ELSE fd' = wrote /\ UNCHANGED content /\ Blurs(Of(h))

WriteRandom(h, off, b) ==
  /\ Mode(h, "rw")
  /\ UNCHANGED <<placed, held, inodes>>
  /\ LET n == fd[h].ino
         f == [file[n] EXCEPT !.ext[off] = b, !.size = Max({@, off + 1})]
     IN  /\ fd' = [fd EXCEPT ![h].wrote = TRUE]
         /\ truth' = [truth EXCEPT ![n] = PutByte(@, off, b)]
         /\ IF Cardinality(Dirty(f)) < DirtyFlush
            THEN file' = [file EXCEPT ![n] = f] /\ UNCHANGED content /\ Blurs({})
            ELSE IF Reach(f.path)
            THEN /\ file' = [file EXCEPT ![n] = [f EXCEPT !.ext = Clear]]
                 /\ content' = [content EXCEPT ![Visible(f.path)] = Overlaid(@, f)]
                 /\ Blurs({})
            ELSE file' = [file EXCEPT ![n] = f] /\ UNCHANGED content /\ Blurs(Of(h))

(* setattr of the size through a stream is a hint, *)
HintSize(h, len) ==
  /\ Mode(h, "w") /\ len > Len(fd[h].buf)
  /\ UNCHANGED <<engine, fd, file, inodes, truth>>
  /\ Blurs(Of(h))

(* through random access it settles the overlay first, *)
TruncateOpen(h, len) ==
  /\ Mode(h, "rw")
  /\ LET n == fd[h].ino
         path == file[n].path
     IN  /\ Reach(path)
         /\ content' = [Flushed(n, content) EXCEPT ![Visible(path)] = Resized(@, len)]
         /\ file' = [file EXCEPT ![n].ext = Clear, ![n].size = len]
         /\ truth' = [truth EXCEPT ![n] = Resized(@, len)]
  /\ UNCHANGED <<placed, held, fd, inodes>>
  /\ Blurs({})

(* and otherwise it goes to the engine, past what handles have pending,    *)
(* and by path, so that it may cut another file than the one it was told.  *)
TruncateNamed(n, len) ==
  /\ InUse(n) /\ Linked(n) # {} /\ Reach(PathOf(n))
  /\ content' = [content EXCEPT ![Found(n)] = Resized(@, len)]
  /\ truth' = [truth EXCEPT ![n] = Resized(@, len)]
  /\ UNCHANGED <<placed, held, fd, file, inodes>>
  /\ Blurs(IF Found(n) # n \/ file[n] # None \/ Batches(n) # {} \/ Streams(n) # {}
           THEN {n, Found(n)} ELSE {})

---------------------------------------------------------------------------
(* flush, which close(2) waits for, fsync, and release after the last      *)

FlushRandom(h) ==
  /\ Mode(h, "rw") /\ Flushable(fd[h].ino)
  /\ content' = Flushed(fd[h].ino, content)
  /\ file' = Emptied(fd[h].ino)
  /\ fd' = [fd EXCEPT ![h].wrote = FALSE]
  /\ UNCHANGED <<placed, held, inodes, truth>>
  /\ Blurs({})

FlushAppend(h) ==
  /\ Mode(h, "a") /\ (fd[h].buf # <<>> => Reach(fd[h].path))
  /\ content' = IF fd[h].buf = <<>> THEN content ELSE Appended(h, content)
  /\ fd' = [fd EXCEPT ![h].buf = <<>>, ![h].wrote = FALSE]
  /\ UNCHANGED <<placed, held, file, inodes, truth>>
  /\ Blurs({})

(* variant: the stream is committed when it is released (ClosedIsCommitted) *)
FlushStreamLater(h) ==
  /\ Mode(h, "w")
  /\ fd' = [fd EXCEPT ![h].wrote = FALSE]
  /\ UNCHANGED <<engine, file, inodes, truth>>
  /\ Blurs({})

(* The stream commits and its handle becomes a random-access one; it stays *)
(* a closed stream when its name is gone.                                  *)
FlushStream(h) ==
  /\ Mode(h, "w")
  /\ content' = IF fd[h].done THEN content ELSE [content EXCEPT ![fd[h].node] = fd[h].buf]
  /\ IF Visible(fd[h].path) = None
     THEN /\ fd' = [fd EXCEPT ![h].done = TRUE, ![h].wrote = FALSE]
          /\ UNCHANGED file
     ELSE LET n == fd[h].ino
              now == content'[Visible(fd[h].path)]
          IN  /\ fd' = [fd EXCEPT ![h].mode = "rw", ![h].wrote = FALSE, ![h].buf = <<>>]
              /\ file' = IF file[n] # None THEN [file EXCEPT ![n].refs = @ + 1]
                         ELSE [file EXCEPT ![n] = [path |-> fd[h].path, refs |-> 1,
                                                   size |-> Len(now), ext |-> Clear]]
  /\ UNCHANGED <<placed, held, inodes, truth>>
  /\ Blurs({})

(* A flush that fails leaves all pending and its caller an error.          *)
Refused(h) == \/ Mode(h, "rw") /\ ~Flushable(fd[h].ino)
              \/ Mode(h, "a") /\ fd[h].buf # <<>> /\ ~Reach(fd[h].path)

(* The kernel flushed the handle before, and nothing was written since,    *)
(* unless that flush failed: what a batch still holds is then lost, and    *)
(* dirty extents stay in an overlay no release will drop.                  *)
Release(h) ==
  /\ fd[h] # None
  /\ ~fd[h].wrote \/ Refused(h)
  /\ fd' = [fd EXCEPT ![h] = None]
  /\ LET n == fd[h].ino
     IN  IF Refused(h) THEN UNCHANGED <<content, file>>
         ELSE IF Mode(h, "rw")
         THEN /\ content' = Flushed(n, content)
              /\ file' = [file EXCEPT ![n] = Dropped([@ EXCEPT !.ext = Clear])]
         ELSE UNCHANGED file /\ content' = IF Mode(h, "a") /\ fd[h].buf # <<>>
                                           THEN Appended(h, content) ELSE content
  /\ UNCHANGED <<placed, held, inodes, truth>>
  /\ Blurs(IF Refused(h) THEN Of(h) ELSE {})

---------------------------------------------------------------------------
(* Names.  Handles keep the path they were opened by; what the engine     *)
(* moves or detaches is every placement of the node by that name.          *)

Walked(name) == {p \in placed : p.name = name /\ p.node = Visible(name)}

Unlink(name) ==
  /\ Reach(name)
  /\ placed' = placed \ Walked(name)
  /\ UNCHANGED <<content, held, fd, file, inodes, truth>>
  /\ Blurs({})

Rename(old, new) ==
  /\ Reach(old) /\ Visible(new) # Visible(old)
  /\ placed' = (placed \ Walked(old)) \cup {[p EXCEPT !.name = new] : p \in Walked(old)}
  /\ UNCHANGED <<content, held, fd, file, inodes, truth>>
  /\ Blurs({})

(* The file at the inode's path gets a name.  The reply is of the inode:   *)
(* the kernel counts it and _remember does not.                            *)
Link(n, name) ==
  /\ InUse(n) /\ Linked(n) # {} /\ Reach(PathOf(n))
  /\ Visible(name) = None /\ kref[n] < MaxRefs
  /\ placed' = Placed(name, Found(n))
  /\ kref' = [kref EXCEPT ![n] = @ + 1]
  /\ linked' = linked \cup {n}
  /\ UNCHANGED <<content, held, fd, file, known, count, flying, truth>>
  /\ Blurs({})

---------------------------------------------------------------------------
(* Another mount locks and unlocks; the daemon dies, and is mounted anew.  *)

OutsideLock(n) ==
  /\ content[n] # None /\ n \notin held
  /\ \A h \in Fds : Mode(h, "w") /\ ~fd[h].done => fd[h].node # n
  /\ held' = held \cup {n}
  /\ UNCHANGED <<placed, content, fd, file, inodes, truth, excused>>

OutsideUnlock(n) ==
  /\ n \in held
  /\ held' = held \ {n}
  /\ UNCHANGED <<placed, content, fd, file, inodes, truth, excused>>

Crash ==
  /\ fd' = [h \in Fds |-> None]
  /\ file' = [n \in Nodes |-> None]
  /\ known' = {} /\ linked' = {} /\ excused' = {}
  /\ count' = [n \in Nodes |-> 0] /\ kref' = count' /\ flying' = count'
  /\ truth' = content
  /\ UNCHANGED engine

---------------------------------------------------------------------------
Offsets == 0..(MaxLen - 1)

Init ==
  \E name \in Names, n \in Nodes, b \in Bytes :
    /\ \A m \in Nodes : n <= m
    /\ placed = {[name |-> name, node |-> n, edge |-> 0]}
    /\ content = [m \in Nodes |-> IF m = n THEN <<b>> ELSE None]
    /\ held = {}
    /\ fd = [h \in Fds |-> None]
    /\ file = [m \in Nodes |-> None]
    /\ known = {n} /\ linked = {} /\ excused = {}
    /\ count = [m \in Nodes |-> IF m = n THEN 1 ELSE 0] /\ kref = count
    /\ flying = [m \in Nodes |-> 0]
    /\ truth = content
    /\ events = 0

HandleStep(h) ==
  \/ \E n \in Nodes : \/ OpenRead(n, h) \/ OpenStream(n, h) \/ OpenAppend(n, h)
                      \/ OpenRandom(n, h) \/ OpenTruncated(n, h)
  \/ \E name \in Names, kind \in Kinds : Create(name, kind, h)
  \/ Read(h)
  \/ \E b \in Bytes : \/ WriteStream(h, b) \/ WriteAppend(h, b)
                      \/ \E off \in Offsets : WriteRandom(h, off, b)
  \/ \E len \in 0..MaxLen : HintSize(h, len) \/ TruncateOpen(h, len)
  \/ FlushRandom(h) \/ FlushAppend(h) \/ FlushStream(h)
  \/ Release(h)

NameStep ==
  \/ \E name \in Names : \/ Lookup(name) \/ Mknod(name) \/ Unlink(name)
                         \/ \E new \in Names : Rename(name, new)
                         \/ \E n \in Nodes : Link(n, name)
  \/ \E n \in Nodes : \/ Readdir(n) \/ Evict(n) \/ Forget(n) \/ OutsideLock(n) \/ OutsideUnlock(n)
                      \/ \E len \in 0..MaxLen : TruncateNamed(n, len)

Next == Event /\ ((\E h \in Fds : HandleStep(h)) \/ NameStep \/ Crash)

Spec == Init /\ [][Next]_vars

---------------------------------------------------------------------------
(* "One shared overlay per inode makes every handle see one truth": what a *)
(* reader of the store is served after settling, and what a random-access  *)
(* handle is served from its overlay, is what the writes made of the file, *)
(* and stat tells its length (not with a stream, whose position it shows    *)
(* also after a commit that could not turn the handle to random access).   *)
OneTruth ==
  \A n \in Nodes \ excused :
    /\ content[n] # None /\ Streams(n) = {} =>
         \A m \in {n} \cup {fd[h].node : h \in Opened(n, "r")} : Settled(n)[m] = truth[n]
    /\ content[n] # None /\ Opened(n, "w") = {} => StatSize(n) = Len(truth[n])
    /\ \A h \in Streams(n) : fd[h].buf = truth[n]
    /\ file[n] # None => ViewOf(file[n]) = truth[n]

(* What close(2) or fsync reported safe is committed: when every handle of *)
(* a file was flushed since it last wrote, no crash takes anything away.   *)
ClosedIsCommitted ==
  \A n \in Nodes \ excused :
    (\A h \in On(n) : ~fd[h].wrote) => content[n] = truth[n]

(* The daemon knows every inode the kernel may still refer to, whatever    *)
(* order FORGETs and lookups come in, if no link or readdir replied with it. *)
InodeHeld == \A n \in Nodes \ linked : kref[n] > 0 => n \in known

(* The overlay is "keyed BY INODE": a file changes only by a handle on it, *)
(* or by a request that names it.  (The code keeps the path of the open,   *)
(* and writes to the file that has the name now: this does not hold.)      *)
StaysOnItsFile ==
  [][\A n \in Nodes :
       content[n] # None /\ content'[n] # content[n] =>
         On(n) # {} \/ file[n] # None \/ truth'[n] # truth[n]]_vars
====
