---- MODULE VolumeStore ----
(***************************************************************************)
(* The manager's registry of volumes (manager/engine/store.py) and the     *)
(* request threads that read and rewrite it (manager/api.py).              *)
(*                                                                         *)
(* Every method of JsonVolumeStore runs under one lock and flushes before  *)
(* it returns, so a method is one step and the file on disk equals the     *)
(* memory.  get() hands out a copy and put() overwrites the whole record:  *)
(* a request holds its copy, call[q].rec, across all its later steps.      *)
(***************************************************************************)
EXTENDS Naturals, FiniteSets, Sequences

CONSTANTS Volumes,       \* volume ids; also the names mountpoints are given
          Filesystems,   \* backing files
          Callers,       \* clients, each with one request in flight at most
          Main,          \* the main thread, which mounts at startup
          None           \* Python's None

ASSUME NoneAssumption ==
  /\ None \notin Volumes \cup Filesystems \cup Callers
  /\ Main \notin Callers

VARIABLES
  volumes,      \* JsonVolumeStore._volumes: id -> record or None
  filesystems,  \* JsonVolumeStore._filesystems: the ids it knows
  pending,      \* JsonVolumeStore._pending: mountpoints to clear at startup
  files,        \* the backing files that exist under the data root
  call          \* the request threads: where each is and what it holds

storeVars == <<volumes, filesystems, pending, files>>

Mountpoints == Volumes
Frontends == {"fuse", "direct"}

VolumeRecord ==
  [fs: Filesystems, encrypted: BOOLEAN, mounted: BOOLEAN,
   mountpoint: Mountpoints \cup {None}, frontend: Frontends \cup {None}, auto: Mountpoints \cup {None}]

ASSUME RecordAssumption == None \notin VolumeRecord

Fresh(f, enc) == [fs |-> f, encrypted |-> enc, mounted |-> FALSE,
                  mountpoint |-> None, frontend |-> None, auto |-> None]

VolumesOf(f) == {v \in Volumes : volumes[v] # None /\ volumes[v].fs = f}

(* put: a whole-record overwrite, whatever became of the record since the  *)
(* caller read it.                                                         *)
Put(v, rec) == /\ volumes' = [volumes EXCEPT ![v] = rec]
               /\ UNCHANGED <<filesystems, pending, files>>

AddPending(m) == pending' = pending \cup {m}

---------------------------------------------------------------------------
(* A request: pc is the next step, vid and rec the volume and the copy of  *)
(* its record, at a mountpoint, on a FUSE thread or a direct session, tok  *)
(* the session whose token it was given, auto the name under which a       *)
(* persistent mount is to come back.                                       *)

Idle == [pc |-> "idle", op |-> "none", vid |-> None, rec |-> None,
         at |-> None, on |-> None, tok |-> None, auto |-> None]

Goto(q, pc) == call' = [call EXCEPT ![q].pc = pc]
End(q) == call' = [call EXCEPT ![q] = Idle]
At(q, pc) == call[q].pc = pc

(* sqlite_path_of raises KeyError when the record's filesystem is gone.    *)
PathKnown(q) == call[q].rec.fs \in filesystems

---------------------------------------------------------------------------
(* DELETE /volumes/<id> once the volume is unmounted: read the record      *)
(* again, drop it, retire the filesystem with its last volume, unlink.     *)

Reread(q) ==
  /\ At(q, "reread")
  /\ LET v == call[q].vid IN
     call' = [call EXCEPT ![q].pc = "drop",
                          ![q].rec = IF volumes[v] # None THEN volumes[v] ELSE @]
  /\ UNCHANGED storeVars

Drop(q) ==
  /\ At(q, "drop")
  /\ IF PathKnown(q) THEN Put(call[q].vid, None) /\ Goto(q, "retire")
                     ELSE End(q) /\ UNCHANGED storeVars

Retire(q) ==
  /\ At(q, "retire")
  /\ LET f == call[q].rec.fs IN
     IF VolumesOf(f) = {}
     THEN filesystems' = filesystems \ {f} /\ Goto(q, "unlink")
     ELSE End(q) /\ UNCHANGED filesystems
  /\ UNCHANGED <<volumes, pending, files>>

(* POST /volumes: the volume is created inside the file first, then the    *)
(* filesystem is recorded if it is new, then the volume.                   *)

CreateVolume(q, v, f, enc) ==
  /\ At(q, "idle")
  /\ volumes[v] = None
  /\ \A p \in DOMAIN call : call[p].vid # v
  /\ files' = files \cup {f}
  /\ call' = [call EXCEPT ![q] = [Idle EXCEPT !.pc = IF f \in filesystems THEN "record"
                                                     ELSE "recordfs",
                                              !.op = "create", !.vid = v,
                                              !.rec = Fresh(f, enc)]]
  /\ UNCHANGED <<volumes, filesystems, pending>>

RecordFs(q) ==
  /\ At(q, "recordfs")
  /\ filesystems' = filesystems \cup {call[q].rec.fs}
  /\ Goto(q, "record")
  /\ UNCHANGED <<volumes, pending, files>>

(* A renamed filesystem is put, whether or not it was retired meanwhile.   *)
PutFs(q) ==
  /\ At(q, "putfs")
  /\ filesystems' = filesystems \cup {call[q].rec.fs}
  /\ End(q)
  /\ UNCHANGED <<volumes, pending, files>>

Record(q) ==
  /\ At(q, "record")
  /\ Put(call[q].vid, call[q].rec)
  /\ End(q)

====
