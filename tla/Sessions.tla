---- MODULE Sessions ----
(***************************************************************************)
(* Engine sessions (operations.py, crypto.py, aloelite.py): volumes with   *)
(* their wrapped keys, the durable mount and lock rows with their expiry,  *)
(* and what lives in the memory of a connection: the chunk cipher and the  *)
(* active session of the last mount made on it, and an open write          *)
(* descriptor.  A volume key K_v is random and never changes, so it is     *)
(* named by its volume; the identity cipher is None.                       *)
(*                                                                         *)
(* Every operation is one transaction of the shared file, so an action.    *)
(* A refused operation rolls back and is left out.                         *)
(***************************************************************************)
EXTENDS Naturals, Sequences, FiniteSets

CONSTANTS
  Volumes, Pins,
  Entries,     \* the entries of a volume
  Conns,       \* connections (Aloelite handles)
  Registry,    \* those owned by the manager's direct sessions
  Serves,      \* connection -> the volumes it mounts or attaches to
  Alone,       \* a handle outside the registry has one mount at a time
  None,
  MaxMounts, MaxLocks, MaxTime

Absent == "absent"

ASSUME SessionsAssumption ==
  /\ Registry \subseteq Conns
  /\ Serves \in [Conns -> SUBSET Volumes]
  /\ None \notin Volumes \cup Pins
  /\ Absent \notin Pins \cup {None}
  /\ Alone \in BOOLEAN
  /\ {MaxMounts, MaxLocks, MaxTime} \subseteq Nat

VARIABLES
  wrap,     \* volume -> the PIN its key is wrapped under; None if unencrypted,
            \* Absent before create_volume
  mount,    \* the mount table, in the order of admission
  lock,     \* the lock table, in the order of creation; None where a
            \* row was deleted
  cipher,   \* connection -> the key installed
  session,  \* connection -> the mount of db.active_session, or 0
  mine,     \* connection -> the mounts it made or attached to and still holds
  writer,   \* connection -> its open write descriptor, or None
  stored,   \* volume -> the keys its committed chunks are sealed with
  now

vars == <<wrap, mount, lock, cipher, session, mine, writer, stored, now>>
rows == <<mount, lock>>
memory == <<cipher, session, mine, writer>>

Never == MaxTime + 1          \* expires_at IS NULL
Expiries == {Never} \cup {now + 1}
KeyOf(v) == IF wrap[v] = None THEN None ELSE v

(* Only the PIN a key was wrapped under opens it; an unencrypted volume    *)
(* is mounted without one.                                                 *)
Opens(v, pin) == wrap[v] # Absent /\ wrap[v] = pin

(* db.active_session: the sealed secret of a mount of an encrypted volume. *)
SessionOf(v, m) == IF KeyOf(v) = None THEN 0 ELSE m

ValidMount(m) == mount[m].st = "active" /\ mount[m].until > now
ValidLock(l) == /\ lock[l] # None
                /\ lock[l].until > now
                /\ ValidMount(lock[l].mount)

LocksOn(v, a) == {l \in DOMAIN lock : /\ ValidLock(l)
                                      /\ mount[lock[l].mount].vol = v
                                      /\ lock[l].node = a}

(* The Mount handles of a connection: those it made or attached to.        *)
Handle(c, m) == m \in mine[c]

(* The first step of every operation: the mount is valid and the           *)
(* connection has a key exactly if the volume is encrypted.                *)
RequireMount(c, m, write) ==
  /\ Handle(c, m)
  /\ ValidMount(m)
  /\ (KeyOf(mount[m].vol) # None) <=> (cipher[c] # None)
  /\ write => mount[m].access = "rw"

Init ==
  /\ wrap = [v \in Volumes |-> Absent]
  /\ mount = <<>> /\ lock = <<>>
  /\ cipher = [c \in Conns |-> None]
  /\ session = [c \in Conns |-> 0]
  /\ mine = [c \in Conns |-> {}]
  /\ writer = [c \in Conns |-> None]
  /\ stored = [v \in Volumes |-> {}]
  /\ now = 0

---------------------------------------------------------------------------
(* volumes                                                                 *)

CreateVolume(v) ==
  /\ wrap[v] = Absent
  /\ \E p \in Pins \cup {None} : wrap' = [wrap EXCEPT ![v] = p]
  /\ UNCHANGED <<rows, memory, stored, now>>

(* K_v is unwrapped and wrapped again: no mount and no chunk notices.      *)
ChangePin(v) ==
  /\ \E old, new \in Pins : Opens(v, old) /\ wrap' = [wrap EXCEPT ![v] = new]
  /\ UNCHANGED <<rows, memory, stored, now>>

---------------------------------------------------------------------------
(* mounts                                                                  *)

Clash(v) == \E m \in DOMAIN mount :
              ValidMount(m) /\ mount[m].vol = v /\ mount[m].access = "rw"

(* mount: admission, the row, and the cipher of the connection.  All       *)
(* mounts here cover the whole volume: Namespace has the subtrees.  The    *)
(* registry always asks for overlap and lets no row lapse.                 *)
MountVolume(c, v) ==
  /\ v \in Serves[c]
  /\ \E pin \in Pins \cup {None} : Opens(v, pin)
  /\ Len(mount) < MaxMounts
  /\ c \notin Registry /\ Alone => mine[c] = {}
  /\ \E access \in {"ro", "rw"}, until \in Expiries, overlap \in BOOLEAN :
       /\ c \in Registry => access = "rw" /\ until = Never /\ overlap
       /\ access = "rw" /\ ~overlap => ~Clash(v)
       /\ mount' = Append(mount, [vol |-> v, access |-> access, until |-> until,
                                  st |-> "active"])
  /\ cipher' = [cipher EXCEPT ![c] = KeyOf(v)]
  /\ session' = [session EXCEPT ![c] = SessionOf(v, Len(mount) + 1)]
  /\ mine' = [mine EXCEPT ![c] = @ \cup {Len(mount) + 1}]
  /\ UNCHANGED <<wrap, lock, writer, stored, now>>

(* attach takes up a row by its id and installs nothing.                   *)
Attach(c, m) ==
  /\ c \notin Registry /\ m \notin mine[c]
  /\ mount[m].vol \in Serves[c]
  /\ Alone => mine[c] = {}
  /\ mine' = [mine EXCEPT ![c] = @ \cup {m}]
  /\ UNCHANGED <<wrap, rows, cipher, session, writer, stored, now>>

(* unmount takes the key away only if this mount installed it.             *)
Unmount(c, m) ==
  /\ c \notin Registry /\ Handle(c, m)
  /\ mount' = [mount EXCEPT ![m].st = "unmounted"]
  /\ IF session[c] = m
     THEN /\ session' = [session EXCEPT ![c] = 0]
          /\ cipher' = [cipher EXCEPT ![c] = None]
     ELSE UNCHANGED <<session, cipher>>
  /\ mine' = [mine EXCEPT ![c] = @ \ {m}]
  /\ UNCHANGED <<wrap, lock, writer, stored, now>>

(* The registry's detach puts back what unmount took while other clients   *)
(* share the connection, and closes it after the last one.                 *)
Detach(c, m) ==
  /\ c \in Registry /\ m \in mine[c]
  /\ mount' = [mount EXCEPT ![m].st = "unmounted"]
  /\ mine' = [mine EXCEPT ![c] = @ \ {m}]
  /\ IF mine[c] = {m}
     THEN /\ session' = [session EXCEPT ![c] = 0]
          /\ cipher' = [cipher EXCEPT ![c] = None]
          /\ writer' = [writer EXCEPT ![c] = None]
     ELSE UNCHANGED <<session, cipher, writer>>
  /\ UNCHANGED <<wrap, lock, stored, now>>

(* variant: a lapsed row is renewed too (OneHolder) *)
RenewMountUnchecked(c, m) ==
  /\ Handle(c, m)
  /\ \E until \in Expiries : mount' = [mount EXCEPT ![m].until = until]
  /\ UNCHANGED <<wrap, lock, memory, stored, now>>

(* renew_mount moves the expiry of a valid mount, or clears it.            *)
RenewMount(c, m) ==
  /\ RequireMount(c, m, FALSE)
  /\ \E until \in Expiries : mount' = [mount EXCEPT ![m].until = until]
  /\ UNCHANGED <<wrap, lock, memory, stored, now>>

(* The process dies, or closes its handle with the mount rows left to      *)
(* lapse: the memory of the connection is lost, the rows are not.          *)
Reopen(c) ==
  /\ cipher' = [cipher EXCEPT ![c] = None]
  /\ session' = [session EXCEPT ![c] = 0]
  /\ mine' = [mine EXCEPT ![c] = {}]
  /\ writer' = [writer EXCEPT ![c] = None]
  /\ UNCHANGED <<wrap, rows, stored, now>>

---------------------------------------------------------------------------
(* locks                                                                   *)

NewLock(m, a, until) ==
  lock' = Append(lock, [mount |-> m, node |-> a, until |-> until])

OwnLock(m, l) == ValidLock(l) /\ lock[l].mount = m

(* lock refuses an entry with any valid lock, the mount's own included.    *)
Lock(c, m) ==
  /\ RequireMount(c, m, FALSE)
  /\ Len(lock) < MaxLocks
  /\ \E a \in Entries, until \in Expiries :
       /\ LocksOn(mount[m].vol, a) = {}
       /\ NewLock(m, a, until)
  /\ UNCHANGED <<wrap, mount, memory, stored, now>>

Unlock(c, m) ==
  /\ RequireMount(c, m, FALSE)
  /\ \E l \in DOMAIN lock : /\ OwnLock(m, l)
                            /\ lock' = [lock EXCEPT ![l] = None]
  /\ UNCHANGED <<wrap, mount, memory, stored, now>>

RenewLock(c, m) ==
  /\ RequireMount(c, m, FALSE)
  /\ \E l \in DOMAIN lock, until \in Expiries :
       /\ OwnLock(m, l)
       /\ lock' = [lock EXCEPT ![l].until = until]
  /\ UNCHANGED <<wrap, mount, memory, stored, now>>

(* prune deletes every row that is not valid.                              *)
Prune ==
  /\ lock' = [l \in DOMAIN lock |->
                IF ValidLock(l) THEN lock[l] ELSE None]
  /\ lock' # lock
  /\ UNCHANGED <<wrap, mount, memory, stored, now>>

---------------------------------------------------------------------------
(* content                                                                 *)

OthersLock(m, a) == \E l \in LocksOn(mount[m].vol, a) : lock[l].mount # m

(* write_all and append: one transaction, sealed with the key of the       *)
(* connection.                                                             *)
WriteAll(c, m) ==
  /\ RequireMount(c, m, TRUE)
  /\ \E a \in Entries : ~OthersLock(m, a)
  /\ stored' = [stored EXCEPT ![mount[m].vol] = @ \cup {cipher[c]}]
  /\ UNCHANGED <<wrap, rows, memory, now>>

(* open_write under a lock it mints, or one the caller holds.              *)
OpenWrite(c, m) ==
  /\ writer[c] = None
  /\ RequireMount(c, m, TRUE)
  /\ \E a \in Entries :
       /\ \/ /\ ~OthersLock(m, a)
             /\ Len(lock) < MaxLocks
             /\ NewLock(m, a, Never)
             /\ writer' = [writer EXCEPT ![c] =
                  [vol |-> mount[m].vol, lock |-> Len(lock) + 1, owns |-> TRUE,
                   seals |-> {}]]
          \/ \E l \in DOMAIN lock :
               /\ OwnLock(m, l) /\ lock[l].node = a
               /\ writer' = [writer EXCEPT ![c] =
                    [vol |-> mount[m].vol, lock |-> l, owns |-> FALSE, seals |-> {}]]
               /\ UNCHANGED lock
  /\ UNCHANGED <<wrap, mount, cipher, session, mine, stored, now>>

(* A full chunk is staged: neither the mount nor the lock is looked at.    *)
FlushChunk(c) ==
  /\ writer[c] # None
  /\ writer' = [writer EXCEPT ![c].seals = @ \cup {cipher[c]}]
  /\ UNCHANGED <<wrap, rows, cipher, session, mine, stored, now>>

(* The chunks a commit makes current, the tail among them.                 *)
Publish(c) ==
  stored' = [stored EXCEPT ![writer[c].vol] = @ \cup writer[c].seals \cup {cipher[c]}]

(* variant: the lock is not asked for again (Sealed) *)
CloseUnchecked(c) ==
  /\ writer[c] # None
  /\ Publish(c)
  /\ lock' = IF writer[c].owns THEN [lock EXCEPT ![writer[c].lock] = None] ELSE lock
  /\ writer' = [writer EXCEPT ![c] = None]
  /\ UNCHANGED <<wrap, mount, cipher, session, mine, now>>

(* close stages the tail and commits under a lock still good, else drops   *)
(* what was staged.                                                        *)
CloseWrite(c) ==
  /\ writer[c] # None
  /\ LET w == writer[c] IN
     IF ValidLock(w.lock)
     THEN /\ Publish(c)
          /\ lock' = IF w.owns THEN [lock EXCEPT ![w.lock] = None] ELSE lock
     ELSE UNCHANGED <<lock, stored>>
  /\ writer' = [writer EXCEPT ![c] = None]
  /\ UNCHANGED <<wrap, mount, cipher, session, mine, now>>

Tick ==
  /\ now < MaxTime
  /\ now' = now + 1
  /\ UNCHANGED <<wrap, rows, memory, stored>>

---------------------------------------------------------------------------
Next ==
  \/ \E v \in Volumes : CreateVolume(v) \/ ChangePin(v)
  \/ \E c \in Conns : \/ \E v \in Volumes : MountVolume(c, v)
                      \/ \E m \in DOMAIN mount :
                           \/ Attach(c, m)
                           \/ Unmount(c, m)
                           \/ Detach(c, m)
                           \/ RenewMount(c, m)
                           \/ Lock(c, m)
                           \/ Unlock(c, m)
                           \/ RenewLock(c, m)
                           \/ WriteAll(c, m)
                           \/ OpenWrite(c, m)
                      \/ FlushChunk(c)
                      \/ CloseWrite(c)
                      \/ Reopen(c)
  \/ Prune
  \/ Tick

Spec == Init /\ [][Next]_vars

---------------------------------------------------------------------------
Keys == Volumes \cup {None}
Times == 0 .. Never
MountIds == 1 .. MaxMounts
LockIds == 1 .. MaxLocks

MountRow == [vol : Volumes, access : {"ro", "rw"}, until : Times,
             st : {"active", "unmounted"}]
LockRow == [mount : MountIds, node : Entries, until : Times]
Writer == [vol : Volumes, lock : LockIds, owns : BOOLEAN, seals : SUBSET Keys]

TypeOK ==
  /\ wrap \in [Volumes -> Pins \cup {None, Absent}]
  /\ mount \in Seq(MountRow) /\ Len(mount) <= MaxMounts
  /\ lock \in Seq({None} \cup LockRow) /\ Len(lock) <= MaxLocks
  /\ cipher \in [Conns -> Keys]
  /\ session \in [Conns -> {0} \cup MountIds]
  /\ mine \in [Conns -> SUBSET MountIds]
  /\ writer \in [Conns -> {None} \cup Writer]
  /\ stored \in [Volumes -> SUBSET Keys]
  /\ now \in 0 .. MaxTime

(* Every committed chunk of a volume is sealed with that volume's key, and *)
(* in the clear exactly on an unencrypted one: ENC-3 as _require_mount     *)
(* states it.  The cipher belongs to the connection and neither a flush    *)
(* nor the choice of the mount asks whose it is, so it depends on every    *)
(* mount, unmount, detach and reopening a descriptor lives through.        *)
Sealed == \A v \in Volumes :
            wrap[v] # Absent => stored[v] \subseteq {KeyOf(v)}

(* The clients of a direct session can read whichever of them came or went *)
(* last: the connection they share has the key of their volume.            *)
ClientsServed ==
  \A c \in Registry : \A m \in mine[c] : cipher[c] = KeyOf(mount[m].vol)

(* Valid locks on one entry belong to one mount, although a lock is        *)
(* invalid only because of the clock or of its mount's row and no row is   *)
(* touched when it lapses.                                                 *)
OneHolder ==
  \A v \in Volumes, a \in Entries : \A k, l \in LocksOn(v, a) : lock[k].mount = lock[l].mount
====
