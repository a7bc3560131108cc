# Aloelite: a TLA+ model of the engine and its frontends

Aloelite is a file system in one SQLite file. A Python engine (`src/aloelite`)
keeps directories as a graph of nodes and edges and file content as versioned
manifests over a shared pool of chunks; a command line, a FUSE daemon and a
manager (`src/manager`: browser, WebDAV, S3, FUSE mounts) serve it; `src/rust`
ports the engine. This directory holds TLA+ modules translated from that code,
TLC configurations that check them on small instances, and proofs that hold for
every instance.

## Inventory

| component | state | operations | what is hard | correct when | module |
|---|---|---|---|---|---|
| content store (`operations.py`, `db.py`, `sql/schema.sql`, `config/sql-templates.yaml`) | `content` (committed version, size, retention), `content_version` (manifest), `content_chunk` (pool) | create, write_all, append, write_range, truncate, copy, read_all, open_read, set_retention, prune_content, prune, verify | two connections on one file; chunks shared between versions; a sweep beside writes; reads of two statements | a committed version is what one commit wrote; a sweep takes nothing a reader or retention needs; verify blames what is broken | `ContentStore`, `ContentVerify` |
| streaming descriptor (`descriptor.py`) | version claimed, chunks flushed, carry flags, pending buffer, in memory | open_write, write, close, abort, read | a write is many transactions: its lock may lapse, its process die, a transaction fail between them | invisible until close; its rows survive sweeps while it lives; its lock does not outlive it | `ContentStore` |
| sessions (`operations.py`, `aloelite.py`, `crypto.py`; views `valid_mount`, `valid_lock`) | `mount`, `lock` rows with expiry; the cipher and active session of each connection | create_volume, mount, attach, renew, unmount, lock, unlock, set PIN, prune | validity depends on the clock; the key belongs to the connection, the mount to the file | one holder per entry; every chunk is sealed with its volume's key | `Sessions` |
| namespace (`operations.py`, `resolve.py`, triggers of `schema.sql`) | `node`, `edge` rows, archived flags | create, link, rename, move, remove, remove_recursive, copy, pack, unpack, path_of, mounts of subtrees | hard links make a graph of a tree; archived edges stay; other mounts move and remove what a mount is anchored at | containers form a tree; an operation changes the paths it names; locks keep placements; mounts stay in their subtrees | `Namespace` |
| ids (`ids.py`) and eras (`db.py`) | the mint of a connection, the volume's watermark; `user_version`, tables, triggers, views | open and migrate, mint, flush with the transaction | death between any two statements, openers side by side, a clock set back | an era's stamp is true; an open connection has its triggers; ids rise | `Connections` |
| FUSE frontend (`fuse.py`) | handles, dirty extents per inode, append buffers, streams, inode map | lookup, forget, open, create, read, write, truncate, flush, fsync, release, rename, link, unlink, readdir | handles of one inode share an overlay; the kernel's references and the daemon's counts travel separately | a read sees every earlier write of the mount; a close that succeeded is committed; an inode the kernel holds is known | `FuseFiles` |
| WebDAV (`dav.py`, `davlock.py`) | lock tokens with monotonic expiry, the engine lock of each, a PIN cache | PROPFIND, HEAD, GET, PUT, DELETE, MKCOL, COPY, MOVE, LOCK, UNLOCK, PROPPATCH | two lock layers with separate lifetimes; stat in one transaction, action in another; clients that hang up | no two tokens govern one resource; a lock excludes; an engine lock has an owner | `DavLocks`, `WebDav` |
| S3 (`s3.py`) | uploads being staged | object put, copy, delete; multipart; listings by page | parts sent again, answers lost, keys coming and going between pages | an object is the parts listed; a listing misses no key | `S3Gateway` |
| direct sessions (`engine/direct.py`) | one connection per unlocked volume, a mount row per token | unlock, attach, detach, lock, session, shutdown | a session is looked up under one lock, used under another | nobody works on a closed session; no connection is lost open | `DirectSessions` in `Manager` |
| mount supervisor (`engine/supervisor.py`), registry (`engine/store.py`), startup (`__main__.py`, `engine/preflight.py`), routes (`api.py`) | threads by mountpoint; JSON records, pending unmounts | mount, unmount, automatic mounts, shutdown; create, import, rename, delete | mounts that come late, joins that time out, a crash between kernel mount and record | what runs is in the table; records are true after a restart; everything begun ends | `MountSupervisor`, `VolumeStore`, `Manager` |
| transfers (`cli.py`, `admin.py`, `transfer.py`, `path.py`) | a walk over names read in earlier transactions | export, import, snapshot, put -r, get -r | others edit the tree between two transactions; a command is killed | what stayed is copied, what is copied was there, file by file and version by version | `TreeTransfer` |
| encryption, PIN and pack formats (`crypto.py`, `pin.py`, `pack.py`) | none | derive, wrap, seal, encode | pure functions | round trips | keys in `Sessions`, packs in `Namespace` |
| XML, signatures, TLS, UI (`sigv4.py`, `tls.py`, `web.py`), status and download routes | request scoped | parsing, rendering | | unit tests | not modelled |
| Rust port (`src/rust`) | as the engine | as the engine | | agrees with the Python engine | not modelled |
| conformance, tests, benchmarks, scripts | | | | | not modelled |

Interaction: every frontend calls `operations.py`, one call per transaction,
through a mount row. Frontends of one process may share a connection (the
manager's direct sessions) and several processes may open one file, so
transactions of different actors interleave at will. A streaming descriptor
calls `db.py` directly, one transaction per flushed chunk. The FUSE daemon is
one loop whose handlers do not await; the manager is one thread per request,
with a lock on each of its registries and one on each direct session.

The grain of the models follows from that: an action is one engine transaction,
or one stretch of a manager's thread between two acquisitions of a lock or two
transactions, or one FUSE handler.

## Modules

| module | what it is |
|---|---|
| `ContentStore` | the content half of a volume, one action per operation or descriptor step |
| `AtomicFiles`, `ContentRefinement` | what it promises (an entry is one value, replaced whole by a commit), and the mapping under which `ContentStore` implements it |
| `ContentVerify` | what `verify` reports, over the states of `ContentStore` |
| `Namespace` | the naming half: nodes, edges, subtree mounts, locks on nodes |
| `PathTree`, `NamespaceRefinement` | what it promises callers who keep names unique (a map from paths to objects), and the mapping |
| `Sessions` | mounts, locks, keys, connections, with a clock |
| `Connections` | opening and migrating a file; minting ids |
| `FuseFiles` | the FUSE frontend over named entries |
| `VolumeTree` | the engine as frontends and transfers see it: a tree of names, locks, another mount; extended by the next four |
| `DavLocks`, `WebDav` | the WebDAV lock registry; the frontend and the browser's file routes over it |
| `S3Gateway` | the S3 frontend |
| `TreeTransfer` | the command line's walks |
| `VolumeStore`, `MountSupervisor`, `DirectSessions`, `Manager` | the manager's registries, each in a module, and the process that composes them |
| `ContentStoreProofs`, `SessionsProofs`, `NamespaceProofs`, `ConnectionsProofs`, `FuseProofs`, `VolumeTreeProofs`, `S3Proofs`, `ManagerProofs` | theorems, for all values of the constants |
| `MCContentStore`, `MCNamespace`, `MCSessions`, `MCFuseFiles`, `MCWebDav`, `MCS3Gateway`, `MCTreeTransfer`, `MCManager` | values and symmetry for TLC (`Connections` needs none) |

Definitions marked "variant" are not part of any `Spec`. Each is the definition
below it with a mistake a programmer could make, kept beside the original so that
one can see which property would catch it.

### ContentStore

| variable | in the code |
|---|---|
| `content` | rows of `content`: committed version (0 is "none yet"), size, `keep_versions` |
| `manifest` | rows of `content_version`: entry, version, index, chunk |
| `pool` | rows of `content_chunk` by address; equal chunks share one row |
| `valid` | the mounts for which `valid_mount` holds |
| `locks` | rows of `lock`, by id, with whether the ttl has elapsed |
| `wr` | the memory of each write descriptor: `_version`, `_chunk_index`, `_carry_full`, `_carry_src`, `_carry_done`, `_pending`, `_lock`, `_owns_lock` |
| `rd` | reads between their statements |
| `truth` | history variable: what each commit meant to write |

`CreateEntry`, `WriteAll`, `AppendTo`, `WriteRange`, `Shrink`, `Copy` and
`SetRetention` are the whole-file operations, each one transaction and one
action; the rows a truncation, a range write or an append carries over from the
committed version are computed by dividing the size column into chunks, as the
code does (`FullCount`, `ChunkCount`). A streaming write is `OpenWrite`, then
`Flush` per full chunk, then `Close` or `Abort`; `Flush` and `Close` share
`Claim` and `Staged`, the model of `_claim_version_locked`. `FlushFails` and
`CloseFails` are the same transactions rolled back: the database is unchanged,
the descriptor's memory is not. `Crash` is the process dying with the descriptor
open. `TakeLock`, `Unlock`, `LockElapses`, `MountEnds` and `Prune` move the
locks, `PruneContent` is the sweep. `ReadMeta` and `ReadChunks` are the two
statements of read_all and of every read of an open read descriptor; the second
may ask for the chunks of a range only (`FetchRange`).

A chunk is *full* (2 units, the chunk size) or *short* (1 unit). That is enough
to tell apart everything chunk arithmetic distinguishes: an empty last chunk, a
partial one, an exactly full one. Bytes inside a chunk, addresses, encryption
and timestamps are abstracted; names and directories are not here at all.

Four constants describe the environment and separate what the code guarantees
from what it leaves to its callers:

- `LocksMayLapse`: may a writer lose its lock while it writes (its mount is
  unmounted or expires, the lock's ttl runs out, someone unlocks it)?
- `StaleFlushes`: may a writer that lost its lock go on flushing? Nothing in the
  code looks at the lock between open_write and close, so TRUE is the code;
  FALSE is a client that stops writing once its lock is gone.
- `TxnMayFail`: may a staging or closing transaction fail (busy database, disk)?
- `SharedMounts`: may one mount run a second write on an entry it is already
  streaming to? Locks exclude other mounts only, so the code allows it.

`ContentVerify` computes, from the same rows, what the shallow half of `verify`
reports (`Missing`, `Gap`, `Total` against the size). The deep half reads the
stored bytes again and is about damage on disk, which the model has none of. Two
limits of the code show in it: a full chunk standing where another full chunk
should is not seen, the sizes being equal (`Shape`), and an entry without rows is
not looked at. `Intact` says what verify cannot know, that the committed rows are
cut as the last commit meant them to be; `NoFalseAlarm` and `DamageReported`
relate the two, and `NoRowsIsFine` is what the code's note on the query takes for
granted.

After a failed transaction an entry may lack the row of a chunk its size counts.
append and write_range that keep part of such a chunk fetch nothing and would pad
or fail; the model lets them store what they meant to.

### Namespace

| variable | in the code |
|---|---|
| `node` | rows of `node`, by id: container or leaf, the node's own name, its content |
| `edge` | rows of `edge`, by id: from, to, the placement's name, archived |
| `blob` | what packs hold: rows (parent row, type, name, content) in walk order |
| `anchor` | `mount_point` of each valid rw mount, 0 when it is not mounted |
| `lock` | valid locks: node and mount |

Ids are positions in the sequences, since one mint orders the nodes and edges of
a volume; which of two siblings with one name is visible, and the canonical walk
order, depend on nothing else. The walk order is by depth, then edge id, as the
recursive query's ORDER BY has it; `Depth` counts the members of the subtree on
the way down. Paths are sequences of names and are walked from
the mount's anchor when the operation runs (`Walk`, `Resolve`, `ResolveParent`);
`PathOf` and `MountPath` go the other way. `Subtree` and `WalkOrder` are the
views and queries of the same purpose. `Archive`, `Walked`, `Renamed` and
`SubtreePlacements` are the update statements, and `Graft` the loop of
`_new_node` and `_link` that create, copy, pack and unpack share. The types
entry, symlink, fifo and socket are one: they differ in nothing the operations
here look at. A pack blob is its rows, content included; a leaf's other content
is not told apart.

The constant `Habits` names what the callers do, which the code does not
restrict. Each history is of one of its members, a record: `anchors` (where they
mount), `overlap` (do they ask for `allow_overlap`?), `sameNames` (do they put
two things under one name?), `anchorOps` (do they apply remove_recursive, pack or
unpack to the mount point itself?), `ops` (the operations in use) and `edges`, a
bound. `MCNamespace` defines three: `Careful`, one mount of the root with every
operation; `Sharing`, two mounts of the root with locks and hard links;
`Apart`, two mounts of disjoint subtrees who reuse names and make no hard links.

### Sessions

| variable | in the code |
|---|---|
| `wrap` | `volume` rows: the PIN the volume's key is wrapped under |
| `mount`, `lock` | the tables, with expiry times, in the order of admission |
| `cipher`, `session` | `db.cipher` and `db.active_session` of each connection |
| `mine` | the `Mount` handles a connection made or attached to and still holds |
| `writer` | its open write descriptor: lock, volume, and what it sealed its chunks with |
| `stored` | the keys the committed chunks of each volume are sealed with |
| `now` | the wall clock |

A volume key is random and never changes, so it is named by its volume; the
identity cipher is `None`. `MountVolume`, `Attach`, `Detach`, `Unmount`, renewals,
locks, descriptors and pruning are one action each. Three constants say how
connections are used: `Serves` (which volumes a connection mounts), `Registry`
(which connections are the manager's direct sessions, where several clients'
mounts share one) and `Alone` (a handle outside the registry has one mount at a
time, as the command line, the FUSE daemon and `Aloelite.open` users have).

### Connections

`Plan` lists what `Db.open` does to a file of an era, statement by statement;
`conn` is where each opener is in it. Migration statements commit one at a time,
so other openers see the file half-way, and `Leave` (a connection closes, or its
process dies) may come between any two.
`table`, `unit`, `unique`, `named` and `derived` are what the statements change:
columns, the unit of stored times, the index that kept links apart, edge names,
triggers and views. A file is new, or of any era; one from before the eras (its
`user_version` is 0, and it has tables) is upgraded like one of era 1. `Early` are the
time columns with a time before 1970-01-12, which the migration's threshold takes
for milliseconds still, however often it was scaled (`Scaled`). An open connection
then runs transactions that mint ids (`NextId`, `Fence`), commit or roll back,
under WAL's rules: a reader keeps the snapshot of its first read, one
transaction writes, and a writer whose snapshot is stale is refused. The clock
may show any time at any mint.

### FuseFiles

`fd` and `file` are `AloeFuse._open` and `_files`; `known` and `count` are `_n`
and `_nlookup`; `placed`, `content` and `held` are the engine (placements in
edge order, committed bytes, nodes another mount has locked); `kref` and
`flying` are the kernel's references and the FORGETs it has sent. Node ids rise,
and of the nodes a name places the greatest shows (NODE-5, `Visible`); the path
of an inode is its newest placement's name (`PathOf`), whatever shows there.
open, truncate and link take that path and act on what it shows (`Found`), as the
code does: after a rename onto a taken name this may be the other file, which is
then misled, and so is the one the request was for. A handler is
one action, since the daemon's handlers share one loop and do not await; every
other process interleaves between them. A byte is a member of a small set and a
write carries one. The ghosts `truth`, `excused` and `linked` record what the
users of a file, told of success, must take it to be; the nodes of which the
daemon is known not to keep that promise once one of the causes named at `Blur`
occurred (see "Where the code stops short"); and those of which link and readdir
replies gave the kernel references `_remember` does not count.

### VolumeTree, DavLocks, WebDav, S3Gateway, TreeTransfer

`VolumeTree` is the engine seen from above: `tree` maps the normalized paths to
the node visible there (id, container or entry, version of its content, mode,
dead properties), `elock` holds lock rows, `outside` counts the steps of another
mount, which may write, move, remove, create, chmod and lock between any two
transactions of a request. As in `operations.py`, a move looks only at the locks of
the node it moves, not at those below it. Names stay unique: nobody moves or creates
onto a taken name, and the other mount does not take the name the request in flight
has found free (`Taking`); what two nodes under one name do to the engine is
`Namespace`'s subject. A whole-file write commits to its descriptor's node,
wherever that is by then (`WrittenNode`), and a read looks up the committed version
of its node each time. Its operators say when an operation succeeds and what tree it
leaves; `Namespace` and `ContentStore` are the detailed models of the same
operations, and nothing here depends on more than what they promise (`PathTree`,
`AtomicFiles`).

`WebDav` has one request in flight (`req`), because a request holds the volume's
session lock from its first access to its last; between its transactions run the
other mount, the clock, and a crash of the manager. Tokens are in `dlock`
(`LockRegistry`), their engine locks in `elock` under the same id; what each
client remembers (a validator, a downloaded prefix) is in `cli`. LOCK is three
steps, as in `_do_lock`: the entry of an unmapped URL is made, the registry grants
the token (`Acquire`), the engine grants the lock behind it or gives the token back
(`LockEngine`). The engine's ttl starts later than the token's, so it may outlast it
by the time between (`lag`), and where the entry is gone by then an exception leaves
the token with nobody (`Abandoned`). A download reads its body in pieces (`Read`),
each from the version committed by then.

`S3Gateway` has the same shape, with `staged` for the uploads in the manager's
memory, `acked` for the etags their clients were given and `lister` for a client
that pages through the bucket. A page is a transaction per container (`Walk`), one
per key that is on it (`Stat`), and the answer (`Answer`); a key that went in between
fails the whole page, and the client may ask again. Requests that are refused change
nothing and are left out. Making the missing parents of a path is one step in these
two modules; `TreeTransfer` has each of its transactions.

`TreeTransfer` runs one command at a time (`job`), each of its transactions a
step: the command reads a listing, then goes by the names it read, and copies a file
by many reads (`ReadPiece`), each of the version of the descriptor's node that is
committed by then. `Mount` is
admitted only where no rw mount is valid (D-4), and direct sessions, which mount
with overlap, join and leave at any time. `copy` is what the command has made, with
the set of contents its bytes were taken from (`data`);
`was` (a ghost) is the trees the volume has had since it mounted. `Die` is the
process dying; its mount row has no expiry and stays, and no later command is
admitted. One that failed has unmounted and may be run again.

### VolumeStore, MountSupervisor, DirectSessions, Manager

| variable | in the code |
|---|---|
| `volumes`, `filesystems`, `pending` | `JsonVolumeStore`; each method runs under its lock and flushes, so memory and file are one |
| `files` | the backing files that exist |
| `call` | the request threads: next step, volume, and the copy of the record `get` handed out, which a later `put` writes back whole |
| `table`, `thread` | `MountSupervisor._threads` and the FUSE threads |
| `stack` | the kernel's mounts at each mountpoint; `None` is the dead endpoint of a gone process |
| `left` | rw mount rows of dead processes |
| `sessions`, `entry` | `DirectSessionRegistry._sessions` and the `DirectSession` objects, with who holds each one's lock |
| `held`, `pins` | the session the latest token of each client belongs to (`entry.clients` may hold older tokens of the same client: `older`); `_PinCache` |
| `public`, `proc`, `todo`, `spent` | the frontends in use; the stage of startup or shutdown; what it has left to do; bounds |

A route is a sequence of steps cut at every lock and every engine transaction,
so `store.get` at its start, the supervisor or the registry in the middle and
`store.put` at its end are apart, with everything else between them. Readiness
of a FUSE mount is probed at the mountpoint, not at the thread; a join may time
out with the thread alive; a FUSE session may end by itself; the process may
crash at any step, which leaves mount rows and dead endpoints, and start again
with `Preflight`, automatic mounts and `Serve`. Threads and session objects are
alike, so a new one takes the least free identity (`NextThread`, `NextEntry`).

## What the runs check

| run | environment | checks | distinct states |
|---|---|---|---|
| `ContentOrderly` | two entries, two mounts, a writer, a reader, all retained; no lock lapses, no transaction fails | `CommittedIntact`, `ReadAllAtomic`, `ImplementsAtomicFiles` | 200,752 |
| `ContentFaults` | one entry, two mounts, two writers, a standalone lock, retention 1; every fault | `PoolCovers`, `NoFalseAlarm`, `LiveStagingKept`, `CommittedSized` | 713,309 |
| `NameTree` | `Careful`: one mount of the root, unique names, paths three deep | `TreeShape`, `ImplementsPathTree` | 33,776 |
| `NameMounts` | `Sharing` and `Apart`: two mounts | `AnchorsDisjoint`, `PathResolves`, `LockedKept`, `Confined` | 102,073 |
| `SessionsKeys` | a handle of its own and a direct session on one volume, two PINs | `Sealed`, `OneHolder` | 1,338,055 |
| `SessionsMixed` | one connection, two encrypted volumes | `Sealed`, violated | |
| `Connections` | two connections, a new file or one of any era or older, deaths, any clock | `EraHonest`, `GuardsUp`, `IdsRise` | 4,876,639 |
| `Fuse` | two files, two names, two handles of every mode, a crash, another mount's locks | `OneTruth`, `ClosedIsCommitted`, `InodeHeld` | 1,207,666 |
| `Dav` | two clients, the browser, another mount, a crash, time | `TokensDisjoint`, `EngineLocksOwned`, `LockedKept`, `OutsideExcluded`, `ActsOnWhatItSaw` | 2,733,955 |
| `S3` | an upload of two parts, listings of one key a page, another mount, a crash | `StagedWithinLimit`, `CompletedAsListed`, `PagesComplete` | 1,078,671 |
| `Transfer` | export, put -r and get -r beside direct sessions, file by pieces, killed anywhere | `CopyComplete`, `CopyHonest`, `PutComplete` | 3,703,422 |
| `ManagerLife` | two clients of three publics, late threads, join timeouts, one crash or shutdown and the restart | `UsesLiveSession`, `NoLeakedSession`, `NoOrphanThread`, `BootRecovers`, `Settles` | 435,485 |

Engine:

- `ImplementsAtomicFiles`: with locks kept and transactions that succeed, every
  history of chunk references, versions, locks and sweeps is one of a store
  whose entries are single values: a draft is invisible until published, a
  commit replaces the whole, a sweep changes nothing.
- `CommittedIntact`: the committed version reassembles to what was committed,
  with indices 0..k-1 and the recorded size. The run keeps every lock, for its
  size; with `LocksMayLapse = TRUE` and `StaleFlushes = FALSE` it has 580,622
  states and passes too, and that is the environment of the proof.
- `ReadAllAtomic`: a read of all or of a range returns one version's chunks,
  while entries are replaced and copied between its statements (no sweep can
  take a version there, the policy being "keep all").
- `PoolCovers`, `LiveStagingKept`, `CommittedSized` and `NoFalseAlarm` hold in
  every environment, and are proved: a sweep or a commit leaves no row without
  its chunk, live staging keeps its rows, sizes are those of the text meant, and
  verify blames no entry whose committed rows are as its last commit meant them.
- `ImplementsPathTree`: each operation is one of the path map and changes the
  paths it names and no others. A rename or move takes the subtree along with
  its objects, remove takes one path, remove_recursive takes every name of the
  objects below, a copy has the source's shape and new objects, a pack holds the
  shape of what it replaces and unpack brings that shape back. Archived edges,
  node names, ids and the walk order are invisible.
- `TreeShape`: one parent per container and no cycle. It is check_cycle that
  keeps out cycles: the triggers do not see one.
- `LockedKept`: what ACC-11 promises of placement, against the other mount's
  every operation. (Content is `ContentStore`'s half of that promise.)
- `AnchorsDisjoint`: admission holds at mount time only, yet no operation
  afterwards brings two mounts together, since containers have one placement.
  `Confined`: without hard links no operation reaches outside its mount's subtree.
- `PathResolves`: the path told for a node leads down to it again, among hard
  links, archived placements and siblings of one name. path_of follows the
  newest placement only, so it refuses a node whose newest placement is outside
  the mount's subtree, as the code does. Its guard at 256 levels is not reached.
- `Sealed`: every committed chunk of a volume is sealed with that volume's key,
  and in the clear exactly on a plain one. `OneHolder`: the live locks on one
  entry have one holder. Both are proved.
- `EraHonest`, `GuardsUp`: what the stamp of a file and an open connection
  promise about tables, units, the index, names, triggers and views, wherever earlier
  openers died. Times before 1970-01-12 are excepted: one that was scaled is scaled
  again by whoever reruns the migration. `IdsRise`: a connection's ids rise, and lie above what the
  volume had recorded when it was fenced.

Frontends:

- `OneTruth`, `ClosedIsCommitted`, `InodeHeld`: reads, sizes and the kernel's
  inodes of the FUSE daemon, outside the causes listed at `Blur`. What a rename
  does to the handles and inodes of the files it hides is one of these causes: the
  three properties say nothing about files whose names changed hands.
- `TokensDisjoint`, `LockedKept` (of WebDAV): no two live tokens govern one
  resource; while a client holds one, no other client's request changes what it
  governs. Excepted is what a request did not ask about (`AskedAbout`): what lies below
  a destination it overwrites, what lies below an entry that became a container since,
  and the place to which the entry of an upload was moved under it.
- `OutsideExcluded`: the other mount, which sees only the engine lock, neither writes,
  removes, moves nor renames an entry a WebDAV client has locked, as long as the token
  was not refreshed. It may move a container above it: the entry then has another
  path, under which nothing governs it.
- `EngineLocksOwned`: no engine lock of the session is left over. It belongs to the
  upload in progress, or to a token not released, which it outlasts by no more than
  LOCK took from the one to the other.
- `ActsOnWhatItSaw`: If-Match, If-Range and PROPPATCH, in a request nothing raced
  (between the check and the act, which are two transactions, the other mount may
  come).
- `CompletedAsListed`: what becomes the object is the parts the client listed,
  with the content whose etags it was given. `PagesComplete`: a listing without
  delimiter misses no key that stayed and names none twice, whatever is put and
  deleted between its pages and whatever the other mount moves, removes and creates
  inside one.
- `CopyComplete`: what kept its place during a copy is in it, under a time no later
  than its content's. `CopyHonest`: whatever is in the copy was in the volume under
  that path while the command ran, and each piece of a file was committed content of
  the one node that was there. That is less than what the documentation says (a
  "committed state"): the pieces may be of different versions of that node. `PutComplete`:
  a put that reports success beside nobody stored every local file, also over what an
  earlier command that failed had left. (Over what a killed one left nothing is run:
  its mount blocks the next.)
- `UsesLiveSession`: an operation runs on an open connection of the volume it
  asked for, under a mount of the client's own where the volume is gated.
  `NoLeakedSession`: an open connection is in the registry or in the hands of
  the one request that will install or close it. `NoOrphanThread`: a FUSE thread
  nobody told to stop is in the table, where clients issue one mount, unmount or
  deletion at a time. `BootRecovers`: a manager that begins to serve has a
  thread for every record that says "mounted". `Settles`: see Fairness.

`SessionsMixed` must find a violation and does, 1,818 states in. `operations.py`
lines 104 to 108 say that a second volume mounted on a connection replaces the
key of the first, and that refusing turns the mismatch into "a closed error
instead of a quiet loss of confidentiality, in both directions". The check that
follows (line 115) asks only whether some key is installed. With two encrypted
volumes it passes, and a write through the first mount is sealed with the second
volume's key: a later mount of the first volume cannot open that chunk.

### Where the code stops short

These histories are outside the passing runs. Where a change of a configuration
shows one, it is given; the property named is then violated.

| change | property | history |
|---|---|---|
| `ContentOrderly`, two writers, `LocksMayLapse` and `StaleFlushes = TRUE` | `CommittedIntact`, `ReadAllAtomic` | a writer whose lock lapsed keeps flushing (`_flush_one_chunk` looks at no lock), and its rows land in a version another writer committed |
| `ContentOrderly`, `TxnMayFail = TRUE` | `CommittedIntact` | a flush that fails after the carry leaves `_carry_done` set; the retry commits without the appended file's prefix |
| the same | `NoRowsIsFine` | a flush that fails after the carry, a close, a truncation to the carried prefix: the entry has a size and no row. `config/sql-templates.yaml:237` has entries without rows "vacuously fine", so verify, which walks rows, says nothing, though its docstring (`operations.py:1552`) has the lengths "sum to the manifest size" for every entry |
| `ContentOrderly`, two writers, `SharedMounts = TRUE` | `PointerIsLatest` | two writes of one mount to one entry are not arbitrated: the older descriptor closes last and moves the pointer back |
| `ContentOrderly`, `Keeps = {1}` | `ReadAllAtomic` | a commit and a sweep between the two statements of a read: an empty answer for a file that never was |
| `ContentOrderly`, `Keeps = {2}` | | an aborted stream leaves rows at version 2, a commit makes version 3, and a sweep with retention 2 keeps 3 and the dead rows of 2: `retained_version` counts the versions that have rows, so committed version 1 goes though only two were ever committed |
| `ContentOrderly`, `TxnMayFail = TRUE` | | a close that fails releases nothing: the lock open_write minted has no ttl and is held as long as its mount lives |
| `Apart` with `"link"` in `ops` | `Confined` | remove_recursive or pack in a subtree takes the name a file has outside it |
| `Apart` with `anchorOps` | `Confined`, `PathResolves` | remove_recursive or pack of "/" takes the anchor's own placement; what the mount then creates below it is told no path |
| `Apart` with `overlap` | `Rooted`, `PathResolves` | a mount goes on creating below an anchor the other mount removed (ACC-5 speaks of reads only), and `path_of` answers for none of it |
| `SessionsKeys`, `Alone = FALSE` | `Sealed` | two mounts of one handle, the newest unmounted while the older is kept: the cipher goes, and the older mount's descriptor commits in the clear |
| `Transfer`, as an invariant | `Snapshot` | a direct session joins during an export, which then holds the new state of one file and the old one of another, or of one file some pieces of each: `copy_tree` (`transfer.py:41`) and `_get_file` (`cli.py:146`) read piece by piece, and `Descriptor.read` looks up the committed version each time (`descriptor.py:105`); `doc/GETTING_STARTED.md:265` and `doc/FAQ.md:165` say "committed state" |
| `Fuse`, as a property | `StaysOnItsFile` | a handle keeps the path it was opened by; after a rename and a new file of that name its bytes land in the other file |
| `S3`, `PagesComplete` also for delimiters | `PagesComplete` | a page that ends inside a group: the group is listed twice, or lost (`doc/S3.md:45`, `s3.py:457`) |

Others were met while reading and are part of the models, or decide what a
property excepts:

- Content. A failed `COMMIT` is not followed by a rollback (`db.py:416`, `432`):
  the connection stays inside the transaction and every later operation of it
  fails; the models treat it as a rollback. After a failed flush the pending
  buffer holds that chunk and goes on growing; `close` then stages all of it as
  the last chunk, longer than the chunk size (`descriptor.py:182`), which later
  appends and truncations divide wrongly; the model's chunks are whole. Rows of
  a write that died, below a later commit, are never collected where the policy
  keeps everything.
- Namespace. rename and move onto a taken name leave two placements (NODE-5).
  unpack of a file with several names takes the placement get_active_parent
  happens to return, whichever path it was called by (`operations.py:1259`).
- Connections. Two openers of an old file may race on `ALTER TABLE`, and one
  fails to open. An upgrader that comes second drops triggers and views under a
  connection that serves (`GuardsUp` excepts it by `beside`). Times before
  1970-01-12 are taken for milliseconds again by a rerun of the migration
  (`db.py:111`; `Early`, and `EraHonest` excepts them).
- Sessions. `mount` checks for a clash and inserts in one transaction, but
  `Mount.put` of the host API checks that an entry exists and creates it in two.
- FUSE. The causes at `Blur`: a stream beside another writer, buffered appends
  beside random access, two handles' batches, pending bytes whose name has
  changed hands, an inode opened at a path another file shows at. `open`, `link`
  and the truncation of `setattr` ask for the inode's path and act on whatever
  shows there (`fuse.py:521`, `652`, `784`): after `mv a b` onto an older or newer
  `b`, which the engine allows (NODE-5), an ftruncate through an append handle
  cuts the other file and reports success. Both files are excused. A truncation without handle ignores the overlay
  (`fuse.py:782`), a refused truncating open keeps a reference with a stale
  size, a release whose flush raises loses its batch and leaks its references.
  link and readdir replies are not counted (`InodeHeld` excepts `linked`), so a
  FORGET may drop an inode the kernel still has from one of these.
- WebDAV. A refreshed LOCK does not renew the engine lock (`OutsideExcluded`
  excepts it). The engine's lock starts its ttl later than the token's
  (`dav.py:1318`, `1332`) and outlasts it by that time; if the entry goes between
  the two, the token stays until it expires, and no client knows it. Another mount
  may move a container above a locked entry (`operations.py:1009` looks at the moved
  node's locks only), and the token then governs a path with nothing, or something
  else, there. A download of several reads may mix versions of its node, whatever
  `dav.py:1007` says of the descriptor. A client that stalls without hanging up keeps
  the volume's session, there being no timeout on the body (`dav.py:1083`): every
  other request to the volume waits, so the models claim nothing about when a request
  of WebDAV ends. COPY and MOVE with Overwrite remove the destination in a
  transaction of their own, with whatever locks lie below it, and a second one
  that fails leaves it removed. The LOCK of an unmapped URL makes the entry
  before it is refused. The browser and S3 share the session's mount, so engine
  locks do not exclude them (`doc/WEBDAV.md:338`). After a lock and another
  client's unlock, a DAV client with the right PIN gets 401 until one of its
  requests finds the volume locked: the token kept for the PIN is not compared
  with the session that is there (`dav.py:551`; `UsesLiveSession` says that it
  is at least never honoured).
- S3. Completing an upload forgets it before writing the object (`s3.py:286`). A key
  removed between the walk and its stat fails the whole listing (`s3.py:472`). `_walk`
  does not filter hidden siblings: two nodes under one name (NODE-5) would be listed
  twice, which the unique names of `VolumeTree` keep out.
  Setting metadata replaces the node's, with the mode FUSE keeps there. Requests
  without authentication use the first client's mount, and are refused once it
  detaches while others stay.
- Manager. A client that attaches twice has two tokens; when one is detached and
  the older one is all that is left, the volume stays unlocked for it
  (`direct.py:159`, `174`). Rollback and unmount pop the table by mountpoint, whoever is there
  (`NoOrphanThread` is checked for one FUSE call at a time). Direct mounts have
  no ttl, so after a crash FUSE and the command line are refused with
  MountConflict until the row is pruned by hand. An unlock in flight may install
  its session after `shutdown` took the map. A `put` may restore what a deletion
  or an unmount had just changed. A volume created into a filesystem that is
  being retired loses its file, and renaming a filesystem may resurrect its
  record. The file routes of a FUSE volume whose mount is gone write to the bare
  directory.
- Transfers. A refused or killed export leaves its destination volume, with the
  name taken, so it cannot simply be run again. put -r into an existing
  directory nests on the second run. A killed command leaves a mount without ttl, and
  no tool removes its row: every later command on that volume, which mounts without
  overlap, is refused.

## Bounds

`MaxVersion` 2 or 3 and `MaxChunks` 2 bound the history of an entry. Three
versions are a committed one, one staged above it and one that overtakes; two
chunks are a full one and a last one, so carrying, trimming and rebuilding the
last chunk all occur, on both sides of a chunk boundary. Two mounts and two
writers are enough for every pairwise race the lock rules name. Two distinct
full chunks let a wrong chunk be told from the right one (one is enough where
the property only concerns rows and locks).

In the naming runs `MaxNodes` and `edges` count rows ever created, archived ones
included. Two names and paths of two segments give seven paths and every
relation two paths can have. Four nodes and edges are a container, something in
it, a second placement or a copy or a move, and one row to spare; a cycle that
check_cycle must see needs three levels, hence `MaxDepth` 3 in `NameTree`. Locks
need three edges: a container, a file in it, and the file's other name. Packing a
container with two children takes six nodes and five edges: create, rename, move,
pack and unpack alone were also checked at that size.

`SessionsKeys` has two mounts, two locks and one tick: a mount that lapses beside
one that does not, a lock taken over, two PINs to change between. `Connections`
has two tables and two time columns, one of them with an early time (statements come
in pairs that one death can part), three openings for two connections (one dies, one serves, one upgrades),
`SeqLimit` 2 so that the sequence of an id overflows, and times 0 to 3.

`Fuse`: files of two bytes, batches and dirty extents flushed at two, six
requests after the first lookup: open, write, write, flush or rename, open,
read. `Dav` and `S3`: three and four requests, crashes or steps of the other mount
(of these at most one and two), tokens that last two ticks. A hazard of these
frontends is one request with one intervention between its transactions, on top of
one or two requests that set the scene. `Transfer`: two commands,
so that one can fail and be run again, or be killed beside a second one that is
refused, two steps of a session, names down to
the third level below "a", and a local tree of a directory and a file, put at the
root or at "a", where an earlier command or a session may have left something.
`ManagerLife`: one volume, two clients and three requests, since a race needs
two requests and a third one to see what it left; two threads and two sessions
suffice for one to be replaced by another; one crash or shutdown, and the
restart. Each history is of one public: `Desktop` mounts through FUSE and direct
sessions, `Remote` comes through the browser, WebDAV and S3 on an encrypted
volume, `Plain` through WebDAV and S3 on a plain one; all four frontends in one
history are out of TLC's reach in minutes.

Names, mounts, writers, bytes, handles and PINs are symmetric where nothing
names one; no liveness run uses symmetry. Deadlock is checked in the naming
runs, where a mount can always end; elsewhere a bounded history stops.

## Fairness

The engine and the FUSE daemon have no activity of their own: every step there
is a call somebody makes, so nothing must eventually happen and no fairness is
assumed. Nor is any for the frontends on `VolumeTree`: a request of theirs reads its
body from the client and writes its answer to it, without timeout, so a client that
stalls keeps it from ending. One part has threads that must come to an end:

- `ManagerLife`: `WF_vars(Runs /\ UNCHANGED public)`. While some thread of the
  process can take a step, some thread does: no thread is favoured, so this is
  what any scheduler gives. `Runs` contains the requests' steps, startup and
  shutdown, and those FUSE threads that were told to stop or whose mount is gone
  (they poll an event); one that serves may serve for ever, and nobody has to
  send requests, crash or restart. `Settles` is then that the manager comes to
  rest again and again. An operation that uses a session is taken to end, which the
  code gives only as long as the client of a streamed body goes on sending or reading.

## What is proved

`ContentStoreProofs` proves, for any sets of entries, mounts, writers, chunks and
payloads, any bounds and all eight environments:

| theorem | statement | argument |
|---|---|---|
| `TypeCorrect` | `Spec => []TypeOK` | inductive with `CommittedSized` and `OpenOnEntry` |
| `SizesCorrect` | `Spec => []CommittedSized` | in the same induction |
| `PoolCorrect` | `Spec => []PoolCovers` | row insertion and the sweep are the only steps that touch manifest or pool |
| `LocksCorrect` | `Spec => []LockExclusive` | a lock becomes valid only where no other mount's is |
| `StagingSafe` | `Spec => []LiveStagingKept` | inductive with `HoldsLock` and `NothingBeforeClaim` |
| `VerifyBlamesNone` | `Spec => []NoFalseAlarm` | sizes and pool are right in every reachable state, so only the cut of the rows can be wrong |

`TypeOK` alone is not inductive. append, write_range and truncate take prefixes
and suffixes of the committed text at indices computed from the size column, and
that the result is again a sequence of uniform chunks (every one but the last
full) needs the size to agree with the text. So the invariant is
`TypeInv == TypeOK /\ CommittedSized`, with `OpenOnEntry` (a descriptor's entry
exists, an appending one's carried prefix is full). `SpliceIsText` is the lemma
about sequences behind `Rebuild`: a full prefix, new chunks, and the rest of a
text make a text of the stated size. `LiveStagingKept` needs that an open
descriptor's lock is held on its own entry and mount (`HoldsLock`), and that one
that has claimed no version has flushed nothing (`NothingBeforeClaim`); the step
that matters is `PruneContent`, which keeps all rows of an entry with a valid
lock. `VerifyBlamesNone` counts: rows numbered without a hole and cut as the text
was add up to the size `CommittedSized` says is recorded. None of these proofs
uses a fact about how many mounts or writers exist.

`SessionsProofs` proves, for any volumes, PINs, connections, entries and bounds:

| theorem | statement | argument |
|---|---|---|
| `Lapsed` | every step leaves an ended mount and a lapsed lock as they are | `Forward`: rows are only ever appended, shortened in time while valid, or ended |
| `LocksExclusive` | `Spec => []OneHolder` | `Forward` with `NewRows`: a lock row is added only where no lock is valid, and none comes back to life later |
| `ChunksSealed` | `Disciplined => (Spec => []Sealed)` | inductive with `Keyed` |
| `ClientsKeepKey` | `Disciplined => (Spec => []ClientsServed)` | in the same induction |

`Sealed` is not inductive: a descriptor flushes without looking at mount or
lock, so its chunks may be sealed under anything by the time it closes. What
holds is that a descriptor whose lock is still valid was opened under a mount its
connection still holds, with its volume's key installed and nothing else sealed
so far (`WriterKeyed`); close checks the lock and so publishes only such. That
needs `KeyServed` (a connection has no key but of a volume it serves) and
`OneMount`, and these the discipline `Disciplined`: one volume per connection,
and outside the registry one mount at a time. Both halves are needed:
`SessionsMixed` refutes the theorem without the first, and the row for
`SessionsKeys` above without the second. `ClientsServed` is the manager's half:
clients of one session come and go, and the key stays while one is left.

`ContentStoreProofs` proves further, where a client whose lock lapsed flushes nothing more, no
transaction fails half way and no mount writes an entry twice at once
(`Orderly`); locks may lapse at any moment and other mounts take over:

| theorem | statement | argument |
|---|---|---|
| `CommittedSafe` | `Spec => []CommittedIntact` | `StoreInv` |
| `PointerRises` | `Spec => []PointerIsLatest` | `StoreInv` |
| `ReadsSafe` | `Keeps = {}`: `Spec => []ReadAllAtomic` | `StoreInv`, whose `Reading` follows a reader between its statements |
| `StoreIsAtomicFiles` | `Keeps = {}`: `Spec => ImplementsAtomicFiles` | each step is a step of `AtomicFiles` or stutters (`StepSeen`), entry, draft and reader at a time |

The inductive invariant is `AtomicInv`. Its half about streams, `StreamInv`, says
that an entry has one open descriptor whose lock is valid (`Live`, `OneStream`;
`HoldsLock`: the lock is its mount's, on its entry), and that the version
it has claimed lies above the pointer and has the rows of the text flushed so far
(`Stream`). Its half about rows, `StoreInv`, says that the pointer is the greatest
committed version (`PointerIsLatest`), that this version is whole, and where no
retention was set every committed one (`Wholes`), and what a reader that has its
version will find (`Reading`). They need each other: the carry of a first flush is
taken from the committed rows, and a close may move the pointer to the version
claimed only because nobody committed above it meanwhile, which is what the lock
is for. `Keeps = {}` (no retention is ever set)
is needed, not convenient: with a retention a sweep may take the version a reader
is about to fetch (the row with `Keeps = {1}` above), and staged rows of a dead
writer count among the versions retained.

`ConnectionsProofs` proves, for any number of openers, columns, triggers and
clock readings, `StampIsHonest` (`Spec => []EraHonest`), `GuardsAreUp`
(`Spec => []GuardsUp`) and `IdsDoRise` (`Spec => []IdsRise`). The invariant
`OpenInv` joins four parts to the types. `PlanInv`: what an opener has left to do
is in the order of the code. `StampInv`: the era a file is stamped with, and the
era an opener read, vouch for what earlier eras promise (`Vouched`), a file without
tables being new and having nothing old in it (`Origin`), and what the
file still lacks an opener that will stamp it has left to do (`Lacks`), so that
dying over it, or beside another, leaves no gap under the stamp. `GuardInv`: a
trigger or view that is missing will be made by an opener nobody upgraded beside
(`Makes`), and an outdated one dropped first (`Drops`). `MintInv`: no id lies above
the watermarks, one connection mints under one number, and what it minted rises
from its fence (`Rises`).

`ManagerProofs` proves, for any volumes, clients, threads, sessions, mountpoints
and bounds:

| theorem | statement | argument |
|---|---|---|
| `TypeCorrect` | `Spec => []TypeOK` | `TypeInv`, which also says which step of a request carries which references |
| `SessionsAreLive` | `Spec => []UsesLiveSession` | `SessionInv` |
| `SessionsAreKept` | `Spec => []NoLeakedSession` | `SessionInv` |
| `NoThreadIsOrphaned` | `OneFuseCall => (Spec => []NoOrphanThread)` | `SupInv` |
| `BootIsTruthful` | `Spec => BootRecovers` | `SupInv` at the step from startup to service |

`SessionInv` follows a session object through its life: not opened yet and in one
request's hands (`Owns`), registered and open (`Registered`), dropped and about to be closed
(`Drops`). A
request that waits for a session's lock may hold a reference to one that has been
dropped meanwhile, so nothing can be said of it until it has the lock and has
looked again (`Uses`).
`SupInv` says that a thread alive and not told to stop is in the table under its
mountpoint (`Tabled`), that the call that waits for a thread still finds it there
(`Keeps`), that nothing is active in a process that is down, and that during
startup a record that says "mounted" has a thread in the table that the call under
way is not about to remove (`Truthful`). With two FUSE calls side by side the first part is
false, the code popping the table by mountpoint; hence `OneFuseCall`.

`VolumeTreeProofs` begins with lemmas about the operations of `VolumeTree` (each leaves
the tree well formed, changes the paths below what it names, and keeps ids in one
place), and proves for any paths, clients, tokens and times:

| theorem | statement | argument |
|---|---|---|
| `FrontendInvariant` | `Spec => []IInv` | one case per step of a request, per step of the other mount, crash and clock |
| `TokensAreDisjoint` | `Spec => []TokensDisjoint` | acquire looks above, on and below the path |
| `EngineLocksAreOwned` | `Spec => []EngineLocksOwned` | a row's expiry is its token's and `lag`, a refresh only raising the token's; or its request is still there |
| `OutsideIsExcluded` | `Spec => OutsideExcluded` | the engine lock of a token not refreshed is in force on the token's node as long as the token is, and every step of the other mount but a move from above meets it (`TokenExcludes`, `MovedUndisturbed`) |
| `ActsAsSeen` | `Spec => ActsOnWhatItSaw` | `MemoryInv` |
| `LockedIsKept` | `Spec => LockedKept` | `RequestInv` with `TokensDisjoint` |

`IInv` is that the tree is well formed (`Shaped`), that tokens, engine locks and
uploads agree (`TokenInv`, `UploadInv`), and two parts about time that passes inside a
request. `RequestInv`: what the request was allowed when it asked (no other
client's token over the paths it will change) still is so, since another client
can take no token while the request holds the session. `MemoryInv`: what a
client or a request remembers of a version is true unless the other mount came
between, which is what `raced` records.

On the same lemmas it proves of the command line's walks, for any paths, names,
local trees, number of commands and steps of sessions, and with a command killed
anywhere:

| theorem | statement | argument |
|---|---|---|
| `CopiesAreHonest` | `TransferSpec => []CopyHonest` | `HonestInv` |
| `CopiesAreComplete` | `TransferSpec => []CopyComplete` | `CoverInv` and `DatedInv` |
| `PutsAreComplete` | `TransferSpec => []PutComplete` | `PutInv` |
| `TransfersAreTyped` | `TransferSpec => []TransferTypes` | `TransferInv`, with ids that start at one (`Positive`) |

All rest on `TransferInv`: which fields of a command go with which of its steps
(`Phases`), and that between any two trees it has lived through a node keeps its
id and kind and its version only grows (`Past`, from what every operation, of
whomever, does to the tree: `Grows`). None of the three properties is inductive.
`HonestInv` adds what the command goes by: what is queued, listed or pruned lies
at or below the source, and was there in one of the trees, with the kind it was
listed with; and that the pieces read of a file so far are of the node its descriptor
is on, each with a version that node had in one of the trees. `CoverInv` says of a name that has kept its place, and whose parent
is copied or is the source, that it is made, at hand, still to be visited, or still to
be listed with its parent. At the end nothing is at hand or to be done, and a name
that is missing all the same has a shortest missing name at or above it, whose
parent was copied: `NothingMissing`. `DatedInv` follows the time: no piece is
read of a version older than the one the time was taken of. `PutInv` says that, beside nobody, what
was sent is the current content of its entry and every other local file is at
hand or left to do; that what earlier commands left is in the way (a container
where a file goes) ends the command, so it never reports success over it.

`FuseProofs` proves, for any files, names, handles, bytes and batch sizes above
one, and any history of other processes:

| theorem | statement | argument |
|---|---|---|
| `KernelsInodesKnown` | `Spec => []InodeHeld` | `Counts`: what the daemon counts for an inode is the kernel's references and the FORGETs in flight, unless a reply went uncounted |
| `EveryHandleSeesOneTruth` | `Spec => []OneTruth` | `IInv` |
| `ClosedFilesAreCommitted` | `Spec => []ClosedIsCommitted` | `IInv`: with nothing marked as written, nothing is pending, and what is committed is the truth |

`OneTruth` is about reads that settle, overlays and sizes, and none of these
follows from itself after a step; `IInv` says where the truth of a file is kept. It is
what a stream holds, if one is open; else the overlay laid over the committed
bytes, with their common size; else the committed bytes with the one batch that waits
to be appended (`Sound`, for every file not excused). With it go the types
(`Sane`), that what is pending belongs to a handle marked as having written
(`Marked`), that an overlay has at least as many references as handles
(`Referenced`), and that a file in one of the states at `Blur` is excused
(`Blurred`): a file that is not excused has no second stream, batch or overlay, and no
handle whose path leads elsewhere (`Tidy`), so that a settle commits its pending
bytes to it and nothing else's. Each commit is then shown to leave the truth where
it was, and each write to change it as it changes what holds it. A batch is larger
than one byte (`Batch > 1`, `_APPEND_BATCH` being a megabyte): a byte written to an
append handle is buffered before a full batch is committed.

`S3Proofs` proves, for any paths, uploads, part numbers, sizes and limits:

| theorem | statement | argument |
|---|---|---|
| `StagingIsBounded` | `Spec => []StagedWithinLimit` | `UploadsCounted`: the running total is the sum over the parts kept, one per number |
| `CompletionIsFaithful` | `Spec => []CompletedAsListed` | `RequestListed`, with `RanksAreTaken`: the parts in ascending order are all of them, once each |
| `ListingIsComplete` | `Spec => []PagesComplete` | `ListerKept`: what was listed is what lies up to the marker and was there, and each page begins where the last one ended; within a page `WalkKept`: a key that was there all along is found, or a container above it is still to be walked |

`NamespaceProofs` proves, for any names, mounts, habits and bounds:

| theorem | statement | argument |
|---|---|---|
| `NameInvariant` | `Spec => []IInv` | every operation prunes placements, moves one, or grafts rows (`Pruning`, `Placing`, `Grafting`) |
| `NamesAreTyped` | `Spec => []TypeOK` | in the same induction |
| `TreeIsKept` | `Spec => []TreeShape` | check_cycle for moves and links; grafted rows name their parents among earlier rows |
| `MountsStayApart` | `Spec => []AnchorsDisjoint` | a container has one placement, so what a mount moves, it moves within its own subtree |
| `LocksAreKept` | `Spec => LockedKept` | an operation that reaches a placement has looked for locks on it (`EditSpares`) |
| `EditsAreConfined` | `Modest => (Spec => Confined)` | `EditReaches`, with `CInv`: where nobody links, every node has one placement |
| `PathsLeadBack` | `Steady => (Spec => []PathResolves)` | `PathLeadsBack`, with `PInv`: names that nobody takes twice are unique, and anchors stay in reach of the root |
| `NamesAreATree` | `Whole => (Spec => ImplementsPathTree)` | step by step (`StepShows`), on `IInv` and the names of `PInv`: the chart of paths after an operation, from the one before it |

`TreeShape` speaks of active placements and is not inductive: unpack brings back
the rows of a pack, so that those form a tree belongs to the invariant (`Packed`),
and that root and anchors are containers. `Modest` says that every habit either
makes no hard links and leaves "/" alone or does not use remove_recursive, pack
and unpack; the rows of `Apart` with `"link"` and with `anchorOps` in the table
above refute the theorem without it.

`PathsLeadBack` has two halves. One is about a single state: the climb by newest
placements goes on until the root or a node without one (`UpwardClimbs`), passes
the anchor whenever the newest placement of the node comes from the anchor's
subtree (`ClimbMeets`: containers have one placement, so all chains above a
container are one), and read backwards it is a walk (`VisitsLie`; where names are
unique, the walk that `Lookup` takes, `VisitsWalk`). The other is `PInv`, which
no state of its own gives: that active siblings have different names survives
unpack only if the rows of a pack have them too (`Tidy`), and pack names its entry
by the node's name and not by the placement's, so those two must agree for
containers (`Titled`; rename and move keep them so). Anchors stay attached
because an operation archives nothing but what lies at or below its path, and no
anchor of a mount that shares nothing lies there (`EditSparesOthers`,
`ReachKept`). `Steady` says that every habit either mounts the root only or
neither overlaps nor applies remove_recursive, pack and unpack to "/"; the rows of
`Apart` with `overlap` and with `anchorOps` refute the theorem without either half
of it.

`NamesAreATree` is the refinement: where every habit mounts the root and takes no
name twice (`Whole`), a volume is a map from paths to objects, and an operation
changes the paths it names and no others. Its difficulty is that the map is
computed from every path by walking, while an operation is a change of a few rows.
The proof therefore never compares walks. A chart says of a set of paths where
they lead: it holds the empty path, a longer path is there exactly when its last
name is an active placement below the shorter one (`Chart`); and of one set of
rows there is only one chart (`ChartsAgree`), the walks being one (`ChartIs`). For each
operation the paths of the tree of paths after it, with where they lead, are
shown to be a chart of the rows after it, hence what the walks now are
(`CreateTurns`, `CopyTurns`, `RemoveTurns`, `DestroyTurns`, `LinkTurns`,
`RenameTurns`, `MoveTurns`, `PackTurns`, `UnpackTurns`); mounts and locks, and
an unpack at a placement out of the root's reach (`UnpackStays`), show no change. Pack and copy write
rows in the canonical order, whose paths are those below the packed node
(`ShapeOf` in the mapping), once each since names are unique. The mapping
enumerates paths of no more steps than there are nodes with children;
`PathsAreShort`, that a walk leaves no container twice, makes these all the paths
there are (`ResolvingIs`).

`Walk` and `Subtree` are recursive functions, and what they compute for every
path and every graph is proved here, by minimal counterexamples instead of
induction: the library's `WFMin` and the well-foundedness of strict inclusion
give a smallest finite set, hence a least number and a greatest one, with a
property (`SmallestSet`, `SmallestOf`, `LargestOf`). `ReachLeast` is then that
`Subtree` is the least set closed under children, `WalkTypes` that a walk ends at
a node, `WalkOrderIs` that the canonical order lists every placement below its
root once, parents first.

Assumptions on the constants are those named in the modules, which TLC evaluates
on every run. Most say that `None` is none of the values it must be told from
(`NoneAssumption`, `DraftAssumption`, `RecordAssumption`, `EntryAssumption`,
`ThreadAssumption`, `NodeAssumption`, `RowAssumption`) or that bounds are naturals
and parameters of the right type (`LimitAssumption`, `TimeAssumption`,
`HabitAssumption`, `PublicAssumption`, `SessionsAssumption`). The others: full and
short chunks are disjoint, payloads are texts, lock ids minted by open_write, by
lock and by the clients of WebDAV are distinct (`TokenAssumption`,
`LockIdAssumption`); the browser is none of the DAV clients; paths are closed
under parents and the initial tree is a tree (`PathAssumption`,
`StartAssumption`); keys have an order, part numbers are finitely many
(`S3Assumption`); handles are finitely many and batches longer than a byte
(`FuseAssumption`); the schema has a table, and finitely many tables, time columns,
triggers and views (`SchemaAssumption`); the targets of put -r are paths, so is everything it would
copy to below them, and a local file is no directory (`TransferAssumption`,
`MadeAssumption`). `Orderly`, `Keeps = {}`, `Disciplined`, `OneFuseCall`,
`Modest`, `Steady` and `Whole` are hypotheses of the theorems that name them. `ContentOrderly` satisfies
the first two, `SessionsKeys` and `ManagerLife` the next; of the habits of
`NameMounts`, `Apart` is modest, and `Sharing` confined all the same, its mounts
being of the root; both are steady, and `Careful` of `NameTree` is steady and whole.

Only model-checked:

- Liveness: `Settles`. The prover has no rule for ENABLED.
- The content store where locks lapse or transactions fail, beyond the first six
  theorems of `ContentStoreProofs`: most of what the others state is false there
  (the table above).

`Rooted`, `Snapshot` and `StaysOnItsFile` are stated and in no run, being the
counterexamples of the table above; the type invariants that no theorem states
(of `FuseFiles` and the modules on `VolumeTree`) add nothing to the properties that are run. `DamageReported`, the other half of what
verify owes, was checked by itself: with failing transactions, kept locks, two
writers of two mounts, four versions and three chunks of one entry, where it holds
in 119,107 states. `LockExclusive`, `ClientsServed` and
`PointerIsLatest` are in no run because they are proved.

## Not modelled, and why

- Content: the deep verify (damage on disk), a descriptor's byte positions and
  seeks, the chunks of pack blobs. Encryption is a bijection on chunks.
- Namespace: operations addressed by node id, listings and stat change nothing
  or have no path; metadata, ownership, times and extended attributes decide
  nothing here; prune deletes only nodes that never had an edge, and every
  committed operation places the nodes it creates; a read-only mount is refused
  everything in the module but lock. The recursive views stop at 256 levels;
  deeper trees, of which check_cycle, remove_recursive, copy and pack see only a
  part, are outside the model.
- Clock: it only moves forward, except where ids are minted. A clock set back
  revives expired mounts and locks.
- FUSE: directories as such, symlinks, extended attributes, attributes but the
  size, statfs, argument handling.
- WebDAV and S3: XML, properties' rendering, `If` headers beyond their tokens,
  an engine unlock that fails inside UNLOCK, names taken twice, signatures, GET and
  HEAD of an S3 object (whose headers and body are two transactions), the list of
  buckets.
- Manager: the v1 migration and the JSON file (load and save are one step),
  export and checkpoint routes, status, downloads, file routes over FUSE,
  TLS and the environment checks of preflight.
- Command line: the verbs of one operation each. Owners, extended attributes and
  types other than entry and container, which transfers do not carry.
- crypto, PIN prompt and pack bytes: pure functions, for unit tests.
- Rust port: it runs the same SQL templates and is checked against the Python
  engine by the conformance scenarios; the models are of the design both share,
  but no line of it is mapped.
- Conformance, tests, benchmarks, scripts: not part of the running system.

## What is left

A proof of `DamageReported`; node ids that do not follow creation
order; the supervisor with more than one FUSE call at a time, once rollback and
unmount pop only their own thread; streaming writes of one mount that fail side
by side, where `DamageReported` may no longer hold.
