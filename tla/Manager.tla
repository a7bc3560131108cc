---- MODULE Manager ----
(***************************************************************************)
(* The manager process: the routes of manager/api.py that create, delete,  *)
(* mount, unmount and use volumes, over the registry of volumes, the FUSE  *)
(* supervisor and the direct sessions; and its life: startup with the      *)
(* preflight's recovery and the automatic mounts (manager/__main__.py,     *)
(* engine/preflight.py), shutdown, and a crash at any moment.              *)
(***************************************************************************)
EXTENDS MountSupervisor, DirectSessions

CONSTANTS
  Publics,        \* who the clients of one history are, see Public
  OneFuseCall,    \* do clients wait for one FUSE mount, unmount or deletion
                  \* before they start the next?
  MaxRequests,    \* bound: requests in a history
  MaxDeaths       \* bound: crashes and shutdowns in a history

(* A public: the frontends its clients use, and the kinds of volumes.      *)
Public == [kinds: SUBSET {"fuse", "direct", "dav", "s3"}, encrypted: SUBSET BOOLEAN]

ASSUME PublicAssumption == Publics \subseteq Public

VARIABLES
  public,  \* the public of this history; it never changes
  proc,    \* "down", "boot", "up", or the stage of a shutdown
  todo,    \* startup: the records still to be mounted automatically;
           \* shutdown: the sessions still to be closed
  spent    \* requests begun and processes ended, for the bounds only

vars == <<volumes, filesystems, pending, files, call, table, thread, stack, left,
          sessions, entry, held, pins, proc, todo, spent, public>>

procVars == <<proc, todo, spent>>

Kinds == public.kinds
Encrypted == public.encrypted

---------------------------------------------------------------------------
(* Requests                                                                *)

FuseSteps == {"reserve", "await", "rollback", "forget", "mounted",
              "lookup", "stop", "join", "clear", "reread", "drop", "retire", "unlink"}

Quiet == OneFuseCall => \A q \in DOMAIN call : call[q].pc \notin FuseSteps

(* Every route starts with store.get: 404 without a record.                *)
Admit(q) == /\ proc = "up"
            /\ At(q, "idle")
            /\ spent.requests < MaxRequests
            /\ spent' = [spent EXCEPT !.requests = @ + 1]
            /\ UNCHANGED <<proc, todo>>

Start(q, v, op, pc) ==
  /\ Admit(q)
  /\ volumes[v] # None
  /\ call' = [call EXCEPT ![q] = [Idle EXCEPT !.pc = pc, !.op = op, !.vid = v,
                                              !.rec = volumes[v]]]
  /\ UNCHANGED <<storeVars, supVars, dirVars>>

(* POST .../mount, mode fuse, under the volume's name or another one, to   *)
(* last or not.                                                            *)
MountFuse(q, v, m, keep) ==
  /\ "fuse" \in Kinds
  /\ Quiet
  /\ Admit(q)
  /\ volumes[v] # None
  /\ call' = [call EXCEPT ![q] = [Idle EXCEPT !.pc = "reserve", !.op = "mount",
                !.vid = v, !.rec = volumes[v], !.at = m,
                !.auto = IF keep THEN m ELSE None]]
  /\ UNCHANGED <<storeVars, supVars, dirVars>>

(* POST .../mount, mode direct.                                            *)
MountDirect(q, v) == "direct" \in Kinds /\ Start(q, v, "unlock", "route")

(* DELETE .../mount: the record's frontend says whom to ask; on a gated    *)
(* volume a client that has a token leaves alone, unless it says ?all=1.   *)
Unmount(q, v, all) ==
  /\ volumes[v] # None
  /\ IF volumes[v].frontend # "direct"
     THEN Quiet /\ Start(q, v, "unmount", "lookup")
     ELSE Start(q, v, "unmount",
                IF Gated(volumes[v]) /\ held[q] # None /\ ~all THEN "detaching" ELSE "pop")

(* DELETE /volumes/<id>                                                    *)
Delete(q, v) ==
  /\ Quiet
  /\ volumes[v] # None
  /\ Start(q, v, "delete",
           CASE ~volumes[v].mounted -> "drop"
             [] volumes[v].mounted /\ volumes[v].frontend = "direct" -> "pop"
             [] OTHER -> "lookup")

(* The file routes of a direct session.                                    *)
UseFiles(q, v) ==
  /\ volumes[v] # None
  /\ volumes[v].frontend = "direct"
  /\ Start(q, v, "files", "seek")

(* GET /volumes asks of a gated volume whether the client may enter it.    *)
AskAttached(q, v) ==
  /\ volumes[v] # None
  /\ volumes[v].mounted /\ Gated(volumes[v])
  /\ Start(q, v, "files", "seek")

(* A request for a file through WebDAV or S3.                              *)
UseDav(q, v) == "dav" \in Kinds /\ Start(q, v, "dav", "dav")
UseS3(q, v) == "s3" \in Kinds /\ Start(q, v, "s3", "s3")

Create(q, v, f, enc) ==
  /\ Admit(q)
  /\ CreateVolume(q, v, f, enc)
  /\ table[v] = None /\ stack[v] = <<>> /\ sessions[v] = None
  /\ \A t \in Threads : thread[t].vol = v => thread[t].st \in {"free", "dead"}
  /\ UNCHANGED <<supVars, dirVars>>

(* POST /filesystems/import: the file of an upload is written under an id   *)
(* of its own, then recorded, then its volume (one, here).                 *)
Import(q, v, f, enc) == f \notin files \cup filesystems /\ Create(q, v, f, enc)

(* PATCH /filesystems/<id>: the record is read, then put as a whole.       *)
RenameFs(q, v) ==
  /\ volumes[v] # None /\ volumes[v].fs \in filesystems
  /\ Start(q, v, "rename", "putfs")

(* Deletion ends with the file; who has it open keeps an unlinked inode.   *)
Unlink(q) ==
  /\ At(q, "unlink")
  /\ LET f == call[q].rec.fs IN
     /\ files' = files \ {f}
     /\ thread' = [t \in Threads |-> [thread[t] EXCEPT !.gone = @ \/ (HasRow(t) /\ thread[t].fs = f)]]
     /\ entry' = [e \in Entries |-> [entry[e] EXCEPT !.gone = @ \/ (entry[e].st = "open" /\ entry[e].fs = f)]]
  /\ End(q)
  /\ UNCHANGED <<procVars, volumes, filesystems, pending, table, stack, left,
                 sessions, held, pins>>

StoreStep(q) ==
  /\ PutFs(q) \/ Reread(q) \/ Drop(q) \/ Retire(q) \/ RecordFs(q) \/ Record(q) \/ Clear(q)
  /\ UNCHANGED <<procVars, supVars, dirVars>>

SupervisorStep(q) ==
  /\ Reserve(q) \/ AwaitReady(q) \/ Stop(q) \/ Forget(q) \/ Mounted(q) \/ Lookup(q) \/ Join(q)
  /\ UNCHANGED <<procVars, dirVars>>

SessionStep(q) ==
  /\ Route(q) \/ Open(q) \/ Install(q) \/ Attach(q) \/ Unlocked(q) \/ Detaching(q)
     \/ DavToken(q) \/ DavKept(q) \/ DavAgain(q) \/ DavCache(q) \/ S3Session(q)
     \/ Detach(q) \/ PopSession(q) \/ LockClose(q) \/ Seek(q) \/ Enter(q) \/ Leave(q)
  /\ UNCHANGED <<procVars, supVars>>

Step(q) == StoreStep(q) \/ SupervisorStep(q) \/ SessionStep(q) \/ Unlink(q)

Request(q) ==
  \E v \in Volumes :
    \/ \E m \in Mountpoints, keep \in BOOLEAN : MountFuse(q, v, m, keep)
    \/ MountDirect(q, v) \/ Delete(q, v) \/ UseFiles(q, v)
    \/ AskAttached(q, v) \/ UseDav(q, v) \/ UseS3(q, v)
    \/ \E all \in BOOLEAN : Unmount(q, v, all)
    \/ RenameFs(q, v)
    \/ \E f \in Filesystems, enc \in Encrypted : Create(q, v, f, enc) \/ Import(q, v, f, enc)

---------------------------------------------------------------------------
(* FUSE threads                                                            *)

RwRow(v) == \/ \E t \in Threads : HasRow(t) /\ thread[t].vol = v
            \/ HasDirectRow(v)
            \/ left[v] # {}

ThreadStep(t) ==
  /\ FuseMount(t, RwRow(thread[t].vol)) \/ FuseInit(t) \/ FuseReturn(t)
  /\ UNCHANGED <<procVars, dirVars, call>>

---------------------------------------------------------------------------
(* The process                                                             *)

(* What a process leaves when it is gone: its mount rows stay, a direct    *)
(* session's without an expiry; its kernel mounts become dead endpoints.   *)
Die ==
  /\ spent' = [spent EXCEPT !.deaths = @ + 1]
  /\ left' = [v \in Volumes |-> left[v]
                \cup (IF \E t \in Threads : HasRow(t) /\ thread[t].vol = v /\ ~thread[t].gone
                      THEN {"ttl"} ELSE {})
                \cup (IF \E e \in Entries : entry[e].st = "open" /\ entry[e].vol = v
                                             /\ Holders(e) # {} /\ ~entry[e].gone
                      THEN {"forever"} ELSE {})]
  /\ stack' = [m \in Mountpoints |-> [i \in DOMAIN stack[m] |-> None]]
  /\ thread' = [t \in Threads |-> NoThread]
  /\ entry' = [e \in Entries |-> NoEntry]
  /\ table' = [m \in Mountpoints |-> None]
  /\ sessions' = [v \in Volumes |-> None]
  /\ held' = [q \in Callers |-> None]
  /\ pins' = [v \in Volumes |-> None]
  /\ call' = [q \in DOMAIN call |-> Idle]
  /\ proc' = "down"
  /\ todo' = {}
  /\ UNCHANGED storeVars

Crash == proc # "down" /\ spent.deaths < MaxDeaths /\ Die

(* recover_stale_mounts: a record still marked direct is cleared; a record *)
(* marked mounted whose mountpoint is not live is cleared and the          *)
(* mountpoint detached; pending unmounts are drained.                      *)
StaleFuse == {v \in Volumes : /\ volumes[v] # None
                              /\ volumes[v].mounted
                              /\ volumes[v].frontend # "direct"
                              /\ volumes[v].mountpoint # None
                              /\ ~Active(volumes[v].mountpoint)}

(* variant: records of direct sessions are left as they are (BootRecovers) *)
StaleDirectKept == {}

StaleDirect == {v \in Volumes : /\ volumes[v] # None
                                /\ volumes[v].mounted
                                /\ volumes[v].frontend = "direct"}

Recovered(v) ==
  IF v \in StaleFuse \cup StaleDirect
  THEN [volumes[v] EXCEPT !.mounted = FALSE, !.mountpoint = None, !.frontend = None]
  ELSE volumes[v]

Detached(m) == m \in pending \/ \E v \in StaleFuse : volumes[v].mountpoint = m

Preflight ==
  /\ proc = "down"
  /\ volumes' = [v \in Volumes |-> Recovered(v)]
  /\ stack' = [m \in Mountpoints |-> IF Detached(m) /\ stack[m] # <<>> THEN Tail(stack[m])
                                     ELSE stack[m]]
  /\ pending' = {}
  /\ todo' = {v \in Volumes : /\ Recovered(v) # None
                              /\ Recovered(v).auto # None
                              /\ ~Recovered(v).mounted}
  /\ proc' = "boot"
  /\ UNCHANGED <<spent, filesystems, files, call, table, thread, left, dirVars>>

(* auto_mount_all: one mount at a time, by the main thread.                *)
AutoMount(v) ==
  /\ proc = "boot"
  /\ v \in todo
  /\ At(Main, "idle")
  /\ todo' = todo \ {v}
  /\ call' = [call EXCEPT ![Main] = [Idle EXCEPT !.pc = "reserve", !.op = "mount",
                 !.vid = v, !.rec = volumes[v], !.at = volumes[v].auto]]
  /\ UNCHANGED <<proc, spent, storeVars, supVars, dirVars>>

Serve ==
  /\ proc = "boot"
  /\ todo = {}
  /\ At(Main, "idle")
  /\ proc' = "up"
  /\ UNCHANGED <<todo, spent, storeVars, call, supVars, dirVars>>

(* A signal: the socket closes, requests in flight run on.  The supervisor *)
(* stops every thread of its table, joins them, clears table and records.  *)
InTable(t) == \E m \in Mountpoints : table[m] = t

ShutdownStop ==
  /\ proc = "up"
  /\ spent.deaths < MaxDeaths
  /\ proc' = "joining"
  /\ thread' = [t \in Threads |-> [thread[t] EXCEPT !.stop = @ \/ (InTable(t) /\ thread[t].st # "dead")]]
  /\ stack' = [m \in Mountpoints |-> IF table[m] # None /\ stack[m] # <<>> THEN Tail(stack[m])
                                     ELSE stack[m]]
  /\ UNCHANGED <<todo, spent, storeVars, call, table, left, dirVars>>

ShutdownJoin ==
  /\ proc = "joining"
  /\ proc' = "clearing"
  /\ pending' = pending \cup {m \in Mountpoints : /\ table[m] # None
                                                  /\ thread[table[m]].st # "dead"}
  /\ table' = [m \in Mountpoints |-> None]
  /\ volumes' = [v \in Volumes |->
                   IF volumes[v] # None /\ volumes[v].mounted
                   THEN [volumes[v] EXCEPT !.mounted = FALSE, !.mountpoint = None]
                   ELSE volumes[v]]
  /\ UNCHANGED <<todo, spent, filesystems, files, call, thread, stack, left, dirVars>>

(* The registry drops all its sessions, then closes each under its lock;   *)
(* todo holds those still to be closed.                                    *)
ShutdownClear ==
  /\ proc = "clearing"
  /\ proc' = "closing"
  /\ todo' = {sessions[v] : v \in Volumes} \ {None}
  /\ sessions' = [v \in Volumes |-> None]
  /\ UNCHANGED <<spent, storeVars, call, supVars, entry, held, pins>>

ShutdownClose(e) ==
  /\ proc = "closing"
  /\ e \in todo
  /\ Free(e)
  /\ Close(e)
  /\ todo' = todo \ {e}
  /\ UNCHANGED <<proc, spent, storeVars, call, supVars, sessions, held, pins>>

Exit == proc = "closing" /\ todo = {} /\ Die

Expiry(v) == LeftExpires(v) /\ UNCHANGED <<procVars, dirVars>>

---------------------------------------------------------------------------
Everybody == Callers \cup {Main}

(* The registry a manager starts with: volumes, none of them mounted.      *)
Init ==
  /\ public \in Publics
  /\ volumes \in [Volumes -> {Fresh(f, enc) : f \in Filesystems, enc \in Encrypted}]
  /\ filesystems = {volumes[v].fs : v \in Volumes}
  /\ files = filesystems
  /\ pending = {}
  /\ call = [q \in Everybody |-> Idle]
  /\ table = [m \in Mountpoints |-> None]
  /\ thread = [t \in Threads |-> NoThread]
  /\ stack = [m \in Mountpoints |-> <<>>]
  /\ left = [v \in Volumes |-> {}]
  /\ sessions = [v \in Volumes |-> None]
  /\ entry = [e \in Entries |-> NoEntry]
  /\ held = [q \in Callers |-> None]
  /\ pins = [v \in Volumes |-> None]
  /\ proc = "down"
  /\ todo = {}
  /\ spent = [requests |-> 0, deaths |-> 0]

Shutdown == ShutdownStop \/ ShutdownJoin \/ ShutdownClear \/ (\E e \in Entries : ShutdownClose(e)) \/ Exit
Boot == Preflight \/ (\E v \in Volumes : AutoMount(v)) \/ Serve

Next ==
  /\ \/ \E q \in Callers : Request(q)
     \/ \E q \in Everybody : Step(q)
     \/ \E t \in Threads : ThreadStep(t)
     \/ \E v \in Volumes : Expiry(v)
     \/ Boot \/ Shutdown \/ Crash
  /\ UNCHANGED public

(* Only this much of the scheduler is assumed: while some thread of the    *)
(* process can take a step, some thread does.  A FUSE thread that was told *)
(* to stop, or whose mount is gone, is polled and returns; one that serves *)
(* need not ever.  Nobody has to send requests, crash or restart.          *)
Ending(t) == thread[t].stop \/ ~Attached(t)

Runs ==
  \/ \E q \in Everybody : Step(q)
  \/ \E t \in Threads : thread[t].st \notin {"free", "dead"} /\ Ending(t) /\ ThreadStep(t)
  \/ proc \in {"boot", "joining", "clearing", "closing"} /\ (Boot \/ Shutdown)

Fairness == WF_vars(Runs /\ UNCHANGED public)

Spec == Init /\ [][Next]_vars
FairSpec == Spec /\ Fairness

---------------------------------------------------------------------------
(* Properties                                                              *)

TypeOK ==
  /\ volumes \in [Volumes -> VolumeRecord \cup {None}]
  /\ filesystems \subseteq Filesystems /\ files \subseteq Filesystems
  /\ pending \subseteq Mountpoints
  /\ table \in [Mountpoints -> Threads \cup {None}]
  /\ sessions \in [Volumes -> Entries \cup {None}]
  /\ held \in [Callers -> Entries \cup {None}]
  /\ \A t \in Threads : thread[t].st \in {"free", "new", "admitted", "serving", "dead"}
  /\ \A e \in Entries : entry[e].st \in {"free", "open", "closed"}
  /\ \A m \in Mountpoints : \A i \in DOMAIN stack[m] : stack[m][i] \in Threads \cup {None}

(* DirectSessionRegistry.session: an operation on a volume's files runs on *)
(* a connection that is open and on the volume it asked for, and on a      *)
(* gated volume under a mount of the client's own, whatever locks,         *)
(* detaches, deletions and shutdowns happened while it waited.             *)
UsesLiveSession ==
  \A q \in Callers : At(q, "using") =>
    LET e == call[q].on IN
    /\ entry[e].st = "open"
    /\ entry[e].vol = call[q].vid
    /\ IF Gated(call[q].rec) /\ call[q].op # "s3" THEN Who(q) \in entry[e].clients
                                                  ELSE Holders(e) # {}

(* DirectSessionRegistry.unlock, lock, detach: an open connection is in    *)
(* the registry, or in the hands of the one request that is to install or  *)
(* close it: none is leaked with its mount rows, which carry no expiry.    *)
NoLeakedSession ==
  proc = "up" => \A e \in Entries : entry[e].st = "open" =>
    \/ \E v \in Volumes : sessions[v] = e
    \/ \E q \in Callers : call[q].on = e /\ call[q].pc \in {"install", "lockclose"}

(* MountSupervisor.mount, unmount: a FUSE thread nobody told to stop is in *)
(* the table under its mountpoint, where an unmount and the shutdown find  *)
(* it.  Holds when clients issue one mount, unmount or deletion at a time; *)
(* join timeouts, late threads, crashes and exits happen all the same.     *)
NoOrphanThread ==
  proc = "up" => \A t \in Threads :
    thread[t].st \in {"new", "admitted", "serving"} /\ ~thread[t].stop => table[thread[t].at] = t

(* recover_stale_mounts and auto_mount_all: when the manager begins to     *)
(* serve, every volume marked mounted has a thread of this process in the  *)
(* table, wherever the last process died.                                  *)
BootRecovers ==
  [][proc = "boot" /\ proc' = "up" =>
       \A v \in Volumes : volumes[v] # None /\ volumes[v].mounted =>
          volumes[v].mountpoint # None /\ table[volumes[v].mountpoint] # None]_vars

(* unmount, lock, shutdown, auto_mount_all: everything begun ends.  Again  *)
(* and again the manager is at rest: no request waits for a session's      *)
(* lock, a mountpoint or a join for ever, every thread told to stop is     *)
(* gone, a startup has come to serve and a shutdown has come to exit.      *)
Settled ==
  /\ \A q \in Everybody : At(q, "idle")
  /\ \A t \in Threads : ~thread[t].stop
  /\ proc \in {"up", "down"}

Settles == []<>Settled

====
