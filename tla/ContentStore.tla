----------------------------- MODULE ContentStore -----------------------------
(***************************************************************************)
(* The content half of an aloelite volume: entries, their version          *)
(* manifests, the shared chunk pool, the locks that arbitrate writers, the *)
(* streaming write descriptor and the content garbage collector            *)
(* (operations.py, descriptor.py, db.py, schema.sql, sql-templates.yaml).  *)
(*                                                                         *)
(* Every operation of the engine is one SQLite transaction and so one      *)
(* action here.  A streaming write is many transactions: open_write, one   *)
(* per flushed chunk, and close or abort; other connections run between    *)
(* them.  read_all is two statements outside a transaction, so two actions.*)
(* A transaction that fails rolls the database back; what it leaves behind *)
(* in the memory of a descriptor is modelled (FlushFails, CloseFails), and *)
(* a failed single-transaction operation changes nothing, i.e. stutters.   *)
(*                                                                         *)
(* A definition marked "variant" is not part of Spec: it is the definition *)
(* after it with a plausible mistake, which a named property must catch.   *)
(*                                                                         *)
(* Bytes are abstracted to chunks: a chunk is full (2 units, the volume's  *)
(* chunk size) or short (1 unit); sizes are counted in units.              *)
(***************************************************************************)
EXTENDS Integers, Sequences, FiniteSets

CONSTANTS
    Nodes,          \* entries that may come to exist
    Mounts,         \* rw mounts; each is valid until it is unmounted or expires
    Writers,        \* write descriptors, each opened at most once
    Tokens,         \* ids of standalone locks (ops.lock), each minted at most once
    Readers,        \* clients that call read_all, or read() of an open reader
    Full, Short,    \* chunk values of full size, and of less
    Payloads,       \* what whole-file writes are called with: chunk sequences
    Keeps,          \* values passed to set_retention, besides None
    None,           \* SQL NULL / Python None
    MaxVersion,     \* bound: no operation allocates a version above it
    MaxChunks,      \* bound: no version grows past this many chunks
    LocksMayLapse,  \* may an open writer lose its lock (unmount, ttl, unlock)?
    StaleFlushes,   \* may a writer that lost its lock go on flushing?
    TxnMayFail,     \* may a staging or closing transaction fail (busy, disk, I/O)?
    SharedMounts    \* may one mount run another write on an entry it has open?

Chunk == Full \cup Short

(* What split_chunks returns: every chunk but the last is full. *)
Texts == {p \in Seq(Chunk) : \A i \in 1..(Len(p) - 1) : p[i] \in Full}

ASSUME ChunkAssumption   == Full \cap Short = {} /\ None \notin Chunk \cup Seq(Chunk)
ASSUME PayloadAssumption == Payloads \subseteq Texts
ASSUME KeepAssumption    == Keeps \subseteq Nat /\ None \notin Keeps
ASSUME LockIdAssumption  == Writers \cap Tokens = {} /\ None \notin Writers \cup Tokens
ASSUME BoundAssumption   == MaxVersion \in Nat /\ MaxChunks \in Nat
ASSUME EnvAssumption     == {LocksMayLapse, StaleFlushes, TxnMayFail, SharedMounts} \subseteq BOOLEAN

VARIABLES
    content,    \* content rows: committed version, size, retention policy
    manifest,   \* content_version rows
    pool,       \* content_chunk rows, by address
    valid,      \* the mounts that are valid (valid_mount)
    locks,      \* lock rows, by id
    wr,         \* the descriptors' memory
    rd,         \* read_all calls in progress
    truth       \* history: what each version successfully committed was meant to hold

vars == <<content, manifest, pool, valid, locks, wr, rd, truth>>

(***************************************************************************)
(* Rows and records                                                        *)
(***************************************************************************)
LockIds == Writers \cup Tokens

ContentRow == [ver : Nat, size : Nat, keep : Nat \cup {None}]
ASSUME NoneAssumption == None \notin Nodes \cup Mounts \cup ContentRow

ManifestRow == [node : Nodes, ver : Nat, idx : Nat, chunk : Chunk]

Lock == [st : {"unused", "held", "gone"}, mount : Mounts \cup {None},
         node : Nodes \cup {None}, live : BOOLEAN]
NoLock(st) == [st |-> st, mount |-> None, node |-> None, live |-> FALSE]

(* ver = 0 is the descriptor's _version None; Len(out) is _chunk_index; buf *)
(* says whether _pending is empty, holds part of a chunk, or at least one   *)
(* full chunk that a failed flush left there.                               *)
Writer == [phase : {"unused", "open", "closed", "crashed"}, mount : Mounts \cup {None},
           node : Nodes \cup {None}, lock : LockIds \cup {None}, ver : Nat,
           src : Nat, carry : Nat, carried : BOOLEAN, out : Seq(Full),
           buf : {"empty", "part", "full"}]
NoWriter(phase) ==
    [phase |-> phase, mount |-> None, node |-> None, lock |-> None, ver |-> 0,
     src |-> 0, carry |-> 0, carried |-> FALSE, out |-> <<>>, buf |-> "empty"]

Reader == [phase : {"idle", "meta", "done"}, node : Nodes \cup {None}, ver : Nat,
           want : Texts, got : SUBSET ManifestRow]
NoReader == [phase |-> "idle", node |-> None, ver |-> 0, want |-> <<>>, got |-> {}]

TypeOK ==
    /\ content \in [Nodes -> ContentRow \cup {None}]
    /\ manifest \subseteq ManifestRow
    /\ pool \subseteq Chunk
    /\ valid \subseteq Mounts
    /\ locks \in [LockIds -> Lock]
    /\ wr \in [Writers -> Writer]
    /\ rd \in [Readers -> Reader]
    /\ truth \in [Nodes -> [0..MaxVersion -> Texts \cup {None}]]

Init ==
    /\ content = [n \in Nodes |-> None]
    /\ manifest = {}
    /\ pool = {}
    /\ valid = Mounts
    /\ locks = [l \in LockIds |-> NoLock("unused")]
    /\ wr = [w \in Writers |-> NoWriter("unused")]
    /\ rd = [r \in Readers |-> NoReader]
    /\ truth = [n \in Nodes |-> [v \in 0..MaxVersion |-> None]]

(***************************************************************************)
(* Queries                                                                 *)
(***************************************************************************)
Exists(n) == content[n] # None

Rows(n, v) == {r \in manifest : r.node = n /\ r.ver = v}

Text(n) == truth[n][content[n].ver]

Committed(n) == {v \in 0..MaxVersion : truth[n][v] # None}

Versions(n) == {r.ver : r \in {q \in manifest : q.node = n}}

(* The bytes a reader reassembles: the chunks of one version in index order. *)
Assemble(rows) ==
    LET At(i) == CHOOSE r \in rows : Cardinality({q \in rows : q.idx < r.idx}) = i - 1
    IN  [i \in 1..Cardinality(rows) |-> At(i).chunk]

(* What read() takes of a version for a range of bytes: the chunks that cover  *)
(* it.                                                                         *)
FetchRange(rows, lo, hi) == Assemble({r \in rows : r.idx \in lo..hi})

LockValid(l) == locks[l].st = "held" /\ locks[l].live /\ locks[l].mount \in valid

Locked(n) == \E l \in LockIds : LockValid(l) /\ locks[l].node = n

HeldByOther(m, n) ==
    \E l \in LockIds : LockValid(l) /\ locks[l].node = n /\ locks[l].mount # m

(* next_version: one above the committed pointer and every manifest row. *)
NextVersion(n, v) ==
    /\ v > content[n].ver /\ \A u \in Versions(n) : v > u
    /\ v - 1 \in Versions(n) \cup {content[n].ver}

(* An open descriptor of mount m on entry n. *)
Streaming(m, n) ==
    \E w \in Writers : wr[w].phase = "open" /\ wr[w].mount = m /\ wr[w].node = n

(* The guard of every content write: a valid mount, and no other mount's    *)
(* valid lock.  Without SharedMounts a mount has one write in hand at once. *)
MayWrite(m, n) ==
    /\ m \in valid /\ Exists(n)
    /\ ~HeldByOther(m, n)
    /\ SharedMounts \/ ~Streaming(m, n)

(***************************************************************************)
(* Rows a transaction inserts                                              *)
(***************************************************************************)
StageRows(n, v, at, p) ==
    {[node |-> n, ver |-> v, idx |-> at + i - 1, chunk |-> p[i]] : i \in DOMAIN p}

(* variant: the upper bound taken as exclusive (CommittedIntact) *)
CarryRowsShort(n, src, dst, lo, hi) ==
    {[r EXCEPT !.ver = dst] : r \in {q \in Rows(n, src) : lo <= q.idx /\ q.idx < hi}}

(* copy_chunk_refs_range: re-reference the rows lo .. hi of version src. *)
CarryRows(n, src, dst, lo, hi) ==
    {[r EXCEPT !.ver = dst] : r \in {q \in Rows(n, src) : lo <= q.idx /\ q.idx <= hi}}

(* The composite primary key refuses a second row at a position. *)
Conflict(rows) ==
    \E r \in rows, q \in manifest : r.node = q.node /\ r.ver = q.ver /\ r.idx = q.idx

Insert(rows) ==
    /\ ~Conflict(rows)
    /\ manifest' = manifest \cup rows
    /\ pool' = pool \cup {r.chunk : r \in rows}

(* update_content: the pointer swap. *)
Publish(n, v, size, text) ==
    /\ content' = [content EXCEPT ![n].ver = v, ![n].size = size]
    /\ truth' = [truth EXCEPT ![n][v] = text]

Units(p) == 2 * Len(p) - (IF p # <<>> /\ p[Len(p)] \in Short THEN 1 ELSE 0)

FullCount(n) == content[n].size \div 2

(* variant: the partial last chunk is not counted (CommittedSized) *)
ChunkCountDown(n) == content[n].size \div 2

ChunkCount(n) == (content[n].size + 1) \div 2

(***************************************************************************)
(* Whole-file operations: one transaction each                             *)
(***************************************************************************)
CreateEntry(m, n, p) ==
    /\ m \in valid /\ ~Exists(n)
    /\ LET v == IF p = <<>> THEN 0 ELSE 1
       IN  /\ v <= MaxVersion
           /\ Insert(StageRows(n, v, 0, p))
           /\ content' = [content EXCEPT ![n] = [ver |-> v, size |-> Units(p), keep |-> None]]
           /\ truth' = [truth EXCEPT ![n][v] = p]
    /\ UNCHANGED <<valid, locks, wr, rd>>

(* copy: the new entry re-references the source's committed chunks, under the *)
(* same version number; no lock is consulted (D-6).                           *)
Copy(m, n, dst) ==
    /\ m \in valid /\ Exists(n) /\ ~Exists(dst)
    /\ Insert({[r EXCEPT !.node = dst] : r \in Rows(n, content[n].ver)})
    /\ content' = [content EXCEPT ![dst] = [content[n] EXCEPT !.keep = None]]
    /\ truth' = [truth EXCEPT ![dst][content[n].ver] = Text(n)]
    /\ UNCHANGED <<valid, locks, wr, rd>>

WriteAll(m, n, p) ==
    /\ MayWrite(m, n)
    /\ \E v \in 1..MaxVersion :
        /\ NextVersion(n, v)
        /\ Insert(StageRows(n, v, 0, p))
        /\ Publish(n, v, Units(p), p)
    /\ UNCHANGED <<valid, locks, wr, rd>>

(* append, write_range and truncate all build the new version from chunk      *)
(* references carried out of the committed one, the rows before chunk a and   *)
(* from chunk b on, with newly staged chunks p between them.                  *)
Splice(t, a, p, b) == SubSeq(t, 1, a) \o p \o SubSeq(t, b + 1, Len(t))

Rebuild(m, n, a, p, b, size) ==
    LET src == content[n].ver
    IN  /\ MayWrite(m, n)
        /\ a + Len(p) <= MaxChunks
        /\ \E v \in 1..MaxVersion :
            /\ NextVersion(n, v)
            /\ Insert(CarryRows(n, src, v, 0, a - 1) \cup StageRows(n, v, a, p)
                        \cup CarryRows(n, src, v, b, ChunkCount(n) - 1))
            /\ Publish(n, v, size, Splice(Text(n), a, p, b))
        /\ UNCHANGED <<valid, locks, wr, rd>>

(* append, and truncate to a larger size: the partial last chunk is rebuilt. *)
AppendTo(m, n, p) ==
    /\ Exists(n) /\ p # <<>>
    /\ 2 * FullCount(n) + Units(p) > content[n].size
    /\ Rebuild(m, n, FullCount(n), p, ChunkCount(n), 2 * FullCount(n) + Units(p))

(* write_range: the window may start no later than the chunk holding EOF, and *)
(* never shortens the entry; chunks after it are carried.                     *)
WriteRange(m, n, a, p) ==
    /\ Exists(n) /\ p # <<>>
    /\ a <= FullCount(n)
    /\ 2 * a + Units(p) < content[n].size => Units(p) = 2 * Len(p)
    /\ LET end == 2 * a + Units(p)
       IN  Rebuild(m, n, a, p, a + Len(p), IF end > content[n].size THEN end ELSE content[n].size)

(* truncate to a smaller size: full chunks are carried; the boundary chunk,   *)
(* which has to be there, is trimmed.                                         *)
Shrink(m, n, a, p) ==
    /\ Exists(n)
    /\ 2 * a + Units(p) < content[n].size
    /\ p # <<>> => \E r \in Rows(n, content[n].ver) : r.idx = a
    /\ Rebuild(m, n, a, p, ChunkCount(n), 2 * a + Units(p))

SetRetention(m, n, k) ==
    /\ m \in valid /\ Exists(n)
    /\ content' = [content EXCEPT ![n].keep = k]
    /\ UNCHANGED <<manifest, pool, valid, locks, wr, rd, truth>>

(***************************************************************************)
(* Streaming writes: open_write, then one transaction per full chunk, then *)
(* close or abort.                                                         *)
(***************************************************************************)
SetWriter(w, rec) == wr' = [wr EXCEPT ![w] = rec]

(* The lock is minted (l = w, no ttl) or supplied (l a token); a supplied one *)
(* must be this mount's own valid lock on this entry.  In append mode the     *)
(* full chunks will be carried and a partial last one is held in memory.      *)
OpenWrite(w, m, n, l, append) ==
    LET carry == IF append THEN FullCount(n) ELSE 0
    IN  /\ wr[w].phase = "unused"
        /\ m \in valid /\ Exists(n)
        /\ SharedMounts \/ ~Streaming(m, n)
        /\ \/ /\ l = w /\ ~HeldByOther(m, n)
              /\ locks' = [locks EXCEPT ![w] = [st |-> "held", mount |-> m, node |-> n, live |-> TRUE]]
           \/ /\ l \in Tokens /\ LockValid(l)
              /\ locks[l].mount = m /\ locks[l].node = n
              /\ UNCHANGED locks
        /\ SetWriter(w, [phase |-> "open", mount |-> m, node |-> n, lock |-> l, ver |-> 0,
                         src |-> IF append THEN content[n].ver ELSE 0,
                         carry |-> carry, carried |-> FALSE,
                         out |-> SubSeq(Text(n), 1, carry),
                         buf |-> IF append /\ content[n].size % 2 = 1 THEN "part" ELSE "empty"])
        /\ UNCHANGED <<content, manifest, pool, valid, rd, truth>>

(* variant: chunks are staged into the committed version (ImplementsAtomicFiles) *)
ClaimCommitted(w, v) == v = content[wr[w].node].ver

(* _claim_version_locked: allocate on first use, and carry the prefix once. *)
Claim(w, v) == IF wr[w].ver # 0 THEN v = wr[w].ver ELSE NextVersion(wr[w].node, v)

Staged(w, v, p) ==
    StageRows(wr[w].node, v, Len(wr[w].out), p) \cup
        IF wr[w].carried THEN {}
        ELSE CarryRows(wr[w].node, wr[w].src, v, 0, wr[w].carry - 1)

(* The code lets every open writer flush: nothing looks at the lock before    *)
(* close does.  Without StaleFlushes a client whose lock lapsed stops writing.*)
MayFlush(w) ==
    /\ wr[w].phase = "open" /\ Len(wr[w].out) < MaxChunks
    /\ StaleFlushes \/ LockValid(wr[w].lock)

(* _flush_one_chunk: claim and stage in one transaction.                      *)
Flush(w, c) ==
    /\ MayFlush(w)
    /\ \E v \in 1..MaxVersion :
        /\ Claim(w, v)
        /\ Insert(Staged(w, v, <<c>>))
        /\ SetWriter(w, [wr[w] EXCEPT !.ver = v, !.carried = TRUE,
                                     !.out = Append(@, c), !.buf = "empty"])
    /\ UNCHANGED <<content, valid, locks, rd, truth>>

(* The same transaction rolled back: the database is as before, while the     *)
(* descriptor keeps the version it claimed, if it got that far, and, when the *)
(* failure came after the carry ran, the belief that the prefix was carried.  *)
FlushFails(w, c) ==
    /\ MayFlush(w)
    /\ \E v \in 0..MaxVersion, carried \in BOOLEAN :
        /\ \/ TxnMayFail /\ v = wr[w].ver /\ carried = wr[w].carried
           \/ /\ Claim(w, v)
              /\ TxnMayFail \/ Conflict(Staged(w, v, <<c>>))
              /\ wr[w].carried \/ wr[w].carry = 0 => carried
        /\ SetWriter(w, [wr[w] EXCEPT !.ver = v, !.carried = carried, !.buf = "full"])
    /\ UNCHANGED <<content, manifest, pool, valid, locks, rd, truth>>

(* What _pending holds at close: nothing or a short chunk; after a failed     *)
(* flush, the full chunk that was not staged.                                 *)
LastChunks(buf) ==
    CASE buf = "empty" -> {<<>>} \cup {<<c>> : c \in Short}
      [] buf = "part"  -> {<<c>> : c \in Short}
      [] buf = "full"  -> {<<c>> : c \in Full}

ReleaseOwned(w) ==
    locks' = IF wr[w].lock = w THEN [locks EXCEPT ![w] = NoLock("gone")] ELSE locks

(* close: re-validate the lock, claim, stage the last chunk, swap the pointer *)
(* and release a minted lock, in one transaction.                             *)
Close(w, p) ==
    LET text == wr[w].out \o p
    IN  /\ wr[w].phase = "open" /\ p \in LastChunks(wr[w].buf)
        /\ Len(text) <= MaxChunks
        /\ LockValid(wr[w].lock)
        /\ \E v \in 1..MaxVersion :
            /\ Claim(w, v)
            /\ Insert(Staged(w, v, p))
            /\ Publish(wr[w].node, v, Units(text), text)
        /\ ReleaseOwned(w)
        /\ SetWriter(w, NoWriter("closed"))
        /\ UNCHANGED <<valid, rd>>

(* close raising: the lock is no longer valid, or the transaction failed.     *)
(* _closed is set in the finally clause, and no lock is released.             *)
CloseFails(w, p) ==
    /\ wr[w].phase = "open" /\ p \in LastChunks(wr[w].buf)
    /\ \/ ~LockValid(wr[w].lock)
       \/ TxnMayFail
       \/ \E v \in 1..MaxVersion : Claim(w, v) /\ Conflict(Staged(w, v, p))
    /\ SetWriter(w, NoWriter("closed"))
    /\ UNCHANGED <<content, manifest, pool, valid, locks, rd, truth>>

(* abort: release a minted lock; the staged rows stay. *)
Abort(w) ==
    /\ wr[w].phase = "open"
    /\ ReleaseOwned(w)
    /\ SetWriter(w, NoWriter("closed"))
    /\ UNCHANGED <<content, manifest, pool, valid, rd, truth>>

(* The process dies with the descriptor open: rows and lock stay. *)
Crash(w) ==
    /\ wr[w].phase = "open"
    /\ SetWriter(w, NoWriter("crashed"))
    /\ UNCHANGED <<content, manifest, pool, valid, locks, rd, truth>>

(***************************************************************************)
(* Locks and mounts                                                        *)
(***************************************************************************)
InUse(l) == \E w \in Writers : wr[w].phase = "open" /\ wr[w].lock = l

(* ops.lock: refused while anyone, this mount included, holds a valid lock. *)
TakeLock(l, m, n) ==
    /\ locks[l].st = "unused"
    /\ m \in valid /\ Exists(n) /\ ~Locked(n)
    /\ locks' = [locks EXCEPT ![l] = [st |-> "held", mount |-> m, node |-> n, live |-> TRUE]]
    /\ UNCHANGED <<content, manifest, pool, valid, wr, rd, truth>>

Unlock(l) ==
    /\ LockValid(l) /\ (LocksMayLapse \/ ~InUse(l))
    /\ locks' = [locks EXCEPT ![l] = NoLock("gone")]
    /\ UNCHANGED <<content, manifest, pool, valid, wr, rd, truth>>

(* A standalone lock's ttl elapses; its row stays until prune. *)
LockElapses(l) ==
    /\ locks[l].st = "held" /\ locks[l].live
    /\ LocksMayLapse \/ ~InUse(l)
    /\ locks' = [locks EXCEPT ![l].live = FALSE]
    /\ UNCHANGED <<content, manifest, pool, valid, wr, rd, truth>>

(* unmount, or the mount's ttl elapsing: its locks lose their validity at     *)
(* once, their rows stay until prune.                                         *)
MountEnds(m) ==
    /\ m \in valid
    /\ LocksMayLapse \/ \A w \in Writers : wr[w].phase = "open" => wr[w].mount # m
    /\ valid' = valid \ {m}
    /\ UNCHANGED <<content, manifest, pool, locks, wr, rd, truth>>

(***************************************************************************)
(* Maintenance                                                             *)
(***************************************************************************)
(* prune: reclaim the lock rows that are not valid. *)
Prune ==
    /\ locks' = [l \in LockIds |-> IF locks[l].st = "held" /\ ~LockValid(l)
                                  THEN NoLock("gone") ELSE locks[l]]
    /\ UNCHANGED <<content, manifest, pool, valid, wr, rd, truth>>

(* retained_version: the committed version, and below it all of them or the   *)
(* keep - 1 highest.                                                          *)
Retained(n, v) ==
    \/ v = content[n].ver
    \/ /\ v < content[n].ver
       /\ \/ content[n].keep = None
          \/ Cardinality({u \in Versions(n) : v <= u /\ u < content[n].ver})
                <= content[n].keep - 1

(* variant: the live-write guard left out (LiveStagingKept) *)
KeptUnguarded == {r \in manifest : Retained(r.node, r.ver)}

(* prune_content_versions, prune_content_chunks: what each leaves. *)
Kept == {r \in manifest : Retained(r.node, r.ver) \/ Locked(r.node)}

(* variant: staged rows do not count as references (PoolCovers) *)
ReferencedBelow(rows) ==
    {c \in pool : \E r \in rows : r.ver <= content[r.node].ver /\ r.chunk = c}

Referenced(rows) == {c \in pool : \E r \in rows : r.chunk = c}

(* prune_content: drop the rows of versions not retained, except under a valid *)
(* lock, then the pool chunks no remaining row references.                     *)
PruneContent ==
    /\ manifest' = Kept
    /\ pool' = Referenced(Kept)
    /\ UNCHANGED <<content, valid, locks, wr, rd, truth>>

(***************************************************************************)
(* read_all, and read() of an open descriptor, which looks at the pointer  *)
(* every time: the committed pointer in one statement, chunks in another.  *)
(***************************************************************************)
(* variant: the newest manifest version instead of the committed one (ReadAllAtomic) *)
ReadMetaNewest(r, n) ==
    /\ rd[r].phase # "meta"
    /\ valid # {} /\ Exists(n) /\ Versions(n) # {}
    /\ rd' = [rd EXCEPT ![r] = [phase |-> "meta", node |-> n,
                               ver |-> CHOOSE v \in Versions(n) : \A u \in Versions(n) : u <= v,
                               want |-> Text(n), got |-> {}]]
    /\ UNCHANGED <<content, manifest, pool, valid, locks, wr, truth>>

ReadMeta(r, n) ==
    /\ rd[r].phase # "meta"
    /\ valid # {} /\ Exists(n)
    /\ rd' = [rd EXCEPT ![r] = [phase |-> "meta", node |-> n, ver |-> content[n].ver,
                               want |-> Text(n), got |-> {}]]
    /\ UNCHANGED <<content, manifest, pool, valid, locks, wr, truth>>

ReadChunks(r) ==
    /\ rd[r].phase = "meta"
    /\ rd' = [rd EXCEPT ![r] = [@ EXCEPT !.phase = "done", !.node = None, !.ver = 0,
                                        !.got = Rows(rd[r].node, rd[r].ver)]]
    /\ UNCHANGED <<content, manifest, pool, valid, locks, wr, truth>>

Next ==
    \/ \E m \in Mounts, n \in Nodes :
        \/ \E p \in Payloads :
            \/ CreateEntry(m, n, p)
            \/ WriteAll(m, n, p)
            \/ AppendTo(m, n, p)
            \/ \E a \in 0..MaxChunks : WriteRange(m, n, a, p)
        \/ \E a \in 0..MaxChunks, p \in {<<>>} \cup {<<c>> : c \in Short} : Shrink(m, n, a, p)
        \/ \E dst \in Nodes : Copy(m, n, dst)
        \/ \E k \in Keeps \cup {None} : SetRetention(m, n, k)
        \/ \E l \in Tokens : TakeLock(l, m, n)
        \/ \E w \in Writers, l \in LockIds, append \in BOOLEAN : OpenWrite(w, m, n, l, append)
    \/ \E w \in Writers :
        \/ \E c \in Full : Flush(w, c) \/ FlushFails(w, c)
        \/ \E p \in LastChunks(wr[w].buf) : Close(w, p) \/ CloseFails(w, p)
        \/ Abort(w)
        \/ Crash(w)
    \/ \E l \in Tokens : Unlock(l) \/ LockElapses(l)
    \/ \E m \in Mounts : MountEnds(m)
    \/ Prune
    \/ PruneContent
    \/ \E r \in Readers : ReadChunks(r) \/ \E n \in Nodes : ReadMeta(r, n)

Spec == Init /\ [][Next]_vars

-------------------------------------------------------------------------------
(***************************************************************************)
(* Safety                                                                  *)
(***************************************************************************)
(* Every manifest row's chunk is in the pool, whoever else deduplicated into  *)
(* that chunk and whatever a sweep collected (CV-7, content_version's FK).    *)
PoolCovers == \A r \in manifest : r.chunk \in pool

(* The valid locks of an entry all belong to one mount (ACC-6, ACC-7), however *)
(* they were taken: lock, open_write, or open_write with a supplied token.     *)
LockExclusive ==
    \A k, l \in LockIds :
        LockValid(k) /\ LockValid(l) /\ locks[k].node = locks[l].node
            => locks[k].mount = locks[l].mount

(* While a descriptor's lock is valid, the chunks it has flushed are where it  *)
(* put them: no sweep and no other writer takes them (the live-write guard of  *)
(* prune_content_versions).                                                    *)
LiveStagingKept ==
    \A w \in Writers :
        wr[w].phase = "open" /\ LockValid(wr[w].lock) =>
            \A i \in wr[w].carry + 1..Len(wr[w].out) :
                [node |-> wr[w].node, ver |-> wr[w].ver, idx |-> i - 1,
                 chunk |-> wr[w].out[i]] \in manifest

(* The committed version reads back as exactly what its writer committed: no   *)
(* gap, no stray chunk, the size of the content row (IO-2r1, what verify       *)
(* checks, and D-4's "overlapping writers cannot corrupt an entry").           *)
CommittedIntact ==
    \A n \in Nodes : Exists(n) =>
        /\ Assemble(Rows(n, content[n].ver)) = Text(n)
        /\ {r.idx : r \in Rows(n, content[n].ver)} = 0..(Len(Text(n)) - 1)
        /\ Units(Text(n)) = content[n].size

(* The pointer is at a version that was committed, and the size the arithmetic *)
(* of append, write_range and truncate divides into chunks is the size of what *)
(* that commit wrote, through any mixture of them and of streaming writes.     *)
CommittedSized ==
    \A n \in Nodes : Exists(n) =>
        content[n].ver \in Committed(n) /\ Units(Text(n)) = content[n].size

(* read_all returns the content some commit wrote, whole, and read() any range *)
(* of it (IO-2).                                                               *)
ReadAllAtomic ==
    \A r \in Readers : rd[r].phase = "done" =>
        LET got == rd[r].got  want == rd[r].want IN
        /\ Assemble(got) = want
        /\ \A lo, hi \in 0..Len(want) - 1 :
              lo <= hi => FetchRange(got, lo, hi) = SubSeq(want, lo + 1, hi + 1)

(* The committed pointer is the latest version ever committed: two writers of  *)
(* one entry never move it back (CV-3's monotonic counter).                    *)
PointerIsLatest ==
    \A n \in Nodes : Exists(n) => \A v \in Committed(n) : v <= content[n].ver
=============================================================================
