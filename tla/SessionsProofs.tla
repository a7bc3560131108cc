---- MODULE SessionsProofs ----
(***************************************************************************)
(* OneHolder for every value of the constants, and Sealed for handles that *)
(* keep to the discipline of the command line, the daemon and the manager: *)
(* one volume per connection, and outside the registry one mount at a time.*)
(***************************************************************************)
EXTENDS Sessions, SequenceTheorems, TLAPS

(* One volume per connection; a handle of its own has one mount at a time. *)
Disciplined == /\ Alone
               /\ \A c \in Conns : \A u, v \in Serves[c] : u = v

(* Rows refer to rows; a mounted volume exists.                            *)
Linked ==
  /\ \A l \in DOMAIN lock : lock[l] # None => lock[l].mount \in DOMAIN mount
  /\ \A m \in DOMAIN mount : wrap[mount[m].vol] # Absent
  /\ \A c \in Conns : mine[c] \subseteq DOMAIN mount
  /\ \A c \in Conns : \A m \in mine[c] : mount[m].vol \in Serves[c]
  /\ \A c \in Conns : writer[c] # None => /\ writer[c].lock \in DOMAIN lock
                                          /\ wrap[writer[c].vol] # Absent

(* A connection has no key but of an encrypted volume it serves.           *)
KeyServed(c) ==
  cipher[c] # None => /\ cipher[c] \in Serves[c]
                      /\ wrap[cipher[c]] \notin {None, Absent}

OneMount(c) == c \notin Registry => \A m, n \in mine[c] : m = n

(* A descriptor whose lock is good was opened under a mount still held,    *)
(* and the key of its volume is still there.                               *)
WriterKeyed(c) ==
  writer[c] # None /\ ValidLock(writer[c].lock) =>
    /\ lock[writer[c].lock].mount \in mine[c]
    /\ mount[lock[writer[c].lock].mount].vol = writer[c].vol
    /\ cipher[c] = KeyOf(writer[c].vol)
    /\ writer[c].seals \subseteq {KeyOf(writer[c].vol)}

Keyed ==
  /\ \A c \in Conns : KeyServed(c) /\ OneMount(c) /\ WriterKeyed(c)
  /\ \A v \in Volumes : wrap[v] = Absent => stored[v] = {}

---------------------------------------------------------------------------
(* The two tables as functions on an interval.                             *)
LEMMA Tables ==
  ASSUME TypeOK
  PROVE  /\ Len(mount) \in Nat /\ DOMAIN mount = 1 .. Len(mount)
         /\ DOMAIN mount \subseteq MountIds
         /\ \A m \in DOMAIN mount : mount[m] \in MountRow
         /\ Len(lock) \in Nat /\ DOMAIN lock = 1 .. Len(lock)
         /\ DOMAIN lock \subseteq LockIds
         /\ \A l \in DOMAIN lock : lock[l] # None => lock[l] \in LockRow
         /\ MaxMounts \in Nat /\ MaxLocks \in Nat /\ MaxTime \in Nat
  BY SessionsAssumption DEF TypeOK, MountIds, LockIds

(* One row of a table replaced.                                            *)
LEMMA MountExcept ==
  ASSUME TypeOK, NEW m \in DOMAIN mount, NEW row \in MountRow,
         mount' = [mount EXCEPT ![m] = row]
  PROVE  /\ mount' \in Seq(MountRow) /\ Len(mount') = Len(mount)
         /\ DOMAIN mount' = DOMAIN mount
         /\ mount'[m] = row
         /\ \A k \in DOMAIN mount : k # m => mount'[k] = mount[k]
  <1>1. mount \in Seq(MountRow) /\ m \in 1 .. Len(mount)
    BY DEF TypeOK
  <1> QED
    BY <1>1, ExceptSeq

LEMMA LockExcept ==
  ASSUME TypeOK, NEW l \in DOMAIN lock, NEW row \in {None} \cup LockRow,
         lock' = [lock EXCEPT ![l] = row]
  PROVE  /\ lock' \in Seq({None} \cup LockRow) /\ Len(lock') = Len(lock)
         /\ DOMAIN lock' = DOMAIN lock
         /\ lock'[l] = row
         /\ \A k \in DOMAIN lock : k # l => lock'[k] = lock[k]
  <1>1. lock \in Seq({None} \cup LockRow) /\ l \in 1 .. Len(lock)
    BY DEF TypeOK
  <1> QED
    BY <1>1, ExceptSeq

(* A row appended.                                                         *)
LEMMA MountAppend ==
  ASSUME TypeOK, NEW row \in MountRow, Len(mount) < MaxMounts,
         mount' = Append(mount, row)
  PROVE  /\ mount' \in Seq(MountRow) /\ Len(mount') = Len(mount) + 1
         /\ Len(mount') <= MaxMounts
         /\ DOMAIN mount' = 1 .. Len(mount) + 1
         /\ mount'[Len(mount) + 1] = row
         /\ \A k \in DOMAIN mount : mount'[k] = mount[k]
  BY Tables DEF TypeOK

LEMMA LockAppend ==
  ASSUME TypeOK, NEW row \in LockRow, Len(lock) < MaxLocks,
         lock' = Append(lock, row)
  PROVE  /\ lock' \in Seq({None} \cup LockRow) /\ Len(lock') = Len(lock) + 1
         /\ Len(lock') <= MaxLocks
         /\ DOMAIN lock' = 1 .. Len(lock) + 1
         /\ lock'[Len(lock) + 1] = row
         /\ \A k \in DOMAIN lock : lock'[k] = lock[k]
  BY Tables DEF TypeOK

LEMMA ExpiryTimes ==
  ASSUME TypeOK
  PROVE  Expiries \subseteq Times
  BY SessionsAssumption DEF TypeOK, Expiries, Times, Never

---------------------------------------------------------------------------
(* What lapsed stays lapsed                                                *)

(* The tables grow, a row keeps what it refers to, and neither a mount nor *)
(* a lock that is not valid ever becomes valid again.                      *)
MountsForward ==
  /\ mount' \in Seq(MountRow) /\ Len(mount') <= MaxMounts
  /\ DOMAIN mount \subseteq DOMAIN mount'
  /\ \A m \in DOMAIN mount : /\ mount'[m].vol = mount[m].vol
                             /\ ValidMount(m)' => ValidMount(m)

LocksForward ==
  /\ lock' \in Seq({None} \cup LockRow) /\ Len(lock') <= MaxLocks
  /\ DOMAIN lock \subseteq DOMAIN lock'
  /\ \A l \in DOMAIN lock : lock'[l] # None =>
       /\ lock[l] # None
       /\ lock'[l].mount = lock[l].mount
       /\ lock'[l].node = lock[l].node
       /\ ValidLock(l)' => ValidLock(l)

LEMMA MountsUnchanged ==
  ASSUME TypeOK, UNCHANGED <<mount, now>>
  PROVE  MountsForward
  BY DEF TypeOK, MountsForward, ValidMount

LEMMA LocksUnchanged ==
  ASSUME TypeOK, Linked, MountsForward, UNCHANGED lock, now' \in {now, now + 1}
  PROVE  LocksForward
  <1>1. ASSUME NEW l \in DOMAIN lock, lock[l] # None, ValidLock(l)'
        PROVE  ValidLock(l)
    <2>1. lock[l] \in LockRow /\ lock[l].mount \in DOMAIN mount
      BY <1>1, Tables DEF Linked
    <2>2. lock[l].until \in Nat /\ now \in Nat
      BY <2>1, SessionsAssumption DEF TypeOK, LockRow, Times, Never
    <2> QED
      BY <1>1, <2>1, <2>2 DEF ValidLock, MountsForward
  <1> QED
    BY <1>1 DEF TypeOK, LocksForward

LEMMA MountVolumeForward ==
  ASSUME TypeOK, Linked, NEW c \in Conns, NEW v \in Volumes, MountVolume(c, v)
  PROVE  MountsForward /\ LocksForward
  <1>1. PICK row \in MountRow : mount' = Append(mount, row)
    BY ExpiryTimes DEF MountVolume, MountRow
  <1>2. Len(mount) < MaxMounts /\ UNCHANGED <<lock, now>>
    BY DEF MountVolume
  <1>3. MountsForward
    BY <1>1, <1>2, MountAppend, Tables DEF MountsForward, ValidMount
  <1> QED
    BY <1>2, <1>3, LocksUnchanged

(* A row replaced by one of the same volume, valid only if it was.         *)
LEMMA MountReplaced ==
  ASSUME TypeOK, Linked, NEW m \in DOMAIN mount, NEW row \in MountRow,
         mount' = [mount EXCEPT ![m] = row], row.vol = mount[m].vol,
         row.st = "active" /\ row.until > now => ValidMount(m),
         UNCHANGED <<lock, now>>
  PROVE  MountsForward /\ LocksForward
  <1>1. MountsForward
    BY MountExcept DEF MountsForward, ValidMount, TypeOK
  <1> QED
    BY <1>1, LocksUnchanged

LEMMA UnmountForward ==
  ASSUME TypeOK, Linked, NEW m \in DOMAIN mount, UNCHANGED <<lock, now>>,
         mount' = [mount EXCEPT ![m].st = "unmounted"]
  PROVE  MountsForward /\ LocksForward
  <1> DEFINE row == [mount[m] EXCEPT !.st = "unmounted"]
  <1>1. row \in MountRow /\ row.vol = mount[m].vol /\ row.st # "active"
    BY Tables DEF MountRow
  <1>2. mount' = [mount EXCEPT ![m] = row]
    OBVIOUS
  <1> QED
    BY <1>1, <1>2, MountReplaced

LEMMA RenewMountForward ==
  ASSUME TypeOK, Linked, NEW c \in Conns, NEW m \in DOMAIN mount, RenewMount(c, m)
  PROVE  MountsForward /\ LocksForward
  <1>1. PICK until \in Expiries : mount' = [mount EXCEPT ![m].until = until]
    BY DEF RenewMount
  <1> DEFINE row == [mount[m] EXCEPT !.until = until]
  <1>2. row \in MountRow /\ row.vol = mount[m].vol
    BY Tables, ExpiryTimes DEF MountRow
  <1>3. mount' = [mount EXCEPT ![m] = row]
    BY <1>1
  <1>4. ValidMount(m) /\ UNCHANGED <<lock, now>>
    BY DEF RenewMount, RequireMount
  <1> QED
    BY <1>2, <1>3, <1>4, MountReplaced

LEMMA LockReplaced ==
  ASSUME TypeOK, Linked, NEW l \in DOMAIN lock, NEW row \in {None} \cup LockRow,
         lock' = [lock EXCEPT ![l] = row],
         row # None => /\ ValidLock(l)
                       /\ row.mount = lock[l].mount /\ row.node = lock[l].node,
         UNCHANGED <<mount, now>>
  PROVE  MountsForward /\ LocksForward
  <1>1. MountsForward
    BY MountsUnchanged
  <1> QED
    BY <1>1, LockExcept DEF LocksForward, ValidLock, ValidMount, TypeOK

LEMMA LockDropped ==
  ASSUME TypeOK, Linked, NEW l \in DOMAIN lock, lock' = [lock EXCEPT ![l] = None],
         UNCHANGED <<mount, now>>
  PROVE  MountsForward /\ LocksForward
  BY LockReplaced

LEMMA LockAppended ==
  ASSUME TypeOK, Linked, NEW row \in LockRow, Len(lock) < MaxLocks,
         lock' = Append(lock, row), UNCHANGED <<mount, now>>
  PROVE  MountsForward /\ LocksForward
  <1>1. MountsForward
    BY MountsUnchanged
  <1> QED
    BY <1>1, LockAppend, Tables DEF LocksForward, ValidLock, ValidMount

LEMMA RenewLockForward ==
  ASSUME TypeOK, Linked, NEW c \in Conns, NEW m \in DOMAIN mount, RenewLock(c, m)
  PROVE  MountsForward /\ LocksForward
  <1>1. PICK l \in DOMAIN lock, until \in Expiries :
          OwnLock(m, l) /\ lock' = [lock EXCEPT ![l].until = until]
    BY DEF RenewLock
  <1> DEFINE row == [lock[l] EXCEPT !.until = until]
  <1>2. ValidLock(l) /\ lock[l] \in LockRow
    BY <1>1, Tables DEF OwnLock, ValidLock
  <1>3. row \in LockRow /\ row.mount = lock[l].mount /\ row.node = lock[l].node
    BY <1>2, ExpiryTimes DEF LockRow
  <1>4. lock' = [lock EXCEPT ![l] = row] /\ UNCHANGED <<mount, now>>
    BY <1>1 DEF RenewLock
  <1> QED
    BY <1>2, <1>3, <1>4, LockReplaced

LEMMA PruneForward ==
  ASSUME TypeOK, Linked, Prune
  PROVE  MountsForward /\ LocksForward
  <1>1. MountsForward /\ UNCHANGED <<mount, now>>
    BY MountsUnchanged DEF Prune
  <1> DEFINE kept == [l \in DOMAIN lock |-> IF ValidLock(l) THEN lock[l] ELSE None]
  <1>2. lock' = kept
    BY DEF Prune
  <1>3. kept \in [1 .. Len(lock) -> {None} \cup LockRow]
    BY Tables
  <1>4. kept \in Seq({None} \cup LockRow)
    BY <1>3, Tables, SeqDef
  <1>5. Len(kept) = Len(lock)
    BY <1>3, <1>4, Tables, LenProperties
  <1> QED
    BY <1>1, <1>2, <1>4, <1>5 DEF LocksForward, ValidLock, ValidMount, TypeOK

LEMMA NewLockForward ==
  ASSUME TypeOK, Linked, NEW m \in DOMAIN mount, NEW a \in Entries,
         NEW until \in Times, Len(lock) < MaxLocks, NewLock(m, a, until),
         UNCHANGED <<mount, now>>
  PROVE  MountsForward /\ LocksForward
  <1> DEFINE row == [mount |-> m, node |-> a, until |-> until]
  <1>1. row \in LockRow
    BY Tables DEF LockRow
  <1>2. lock' = Append(lock, row)
    BY DEF NewLock
  <1> QED
    BY <1>1, <1>2, LockAppended

LEMMA OpenWriteForward ==
  ASSUME TypeOK, Linked, NEW c \in Conns, NEW m \in DOMAIN mount, OpenWrite(c, m)
  PROVE  MountsForward /\ LocksForward
  <1>1. UNCHANGED <<mount, now>> /\ Never \in Times
    BY SessionsAssumption DEF OpenWrite, Never, Times
  <1>2. \/ \E a \in Entries : Len(lock) < MaxLocks /\ NewLock(m, a, Never)
        \/ UNCHANGED lock
    BY DEF OpenWrite
  <1> QED
    BY <1>1, <1>2, NewLockForward, MountsUnchanged, LocksUnchanged

LEMMA TickForward ==
  ASSUME TypeOK, Linked, Tick
  PROVE  MountsForward /\ LocksForward
  <1>1. now' = now + 1 /\ UNCHANGED <<mount, lock>> /\ now \in Nat
    BY SessionsAssumption DEF Tick, rows, TypeOK
  <1>2. ASSUME NEW m \in DOMAIN mount, ValidMount(m)'
        PROVE  ValidMount(m)
    <2>1. mount[m].until \in Nat
      BY Tables, SessionsAssumption DEF MountRow, Times, Never
    <2> QED
      BY <1>1, <1>2, <2>1 DEF ValidMount
  <1>3. MountsForward
    BY <1>1, <1>2 DEF MountsForward, TypeOK
  <1> QED
    BY <1>1, <1>3, LocksUnchanged

LEMMA CloseWriteForward ==
  ASSUME TypeOK, Linked, NEW c \in Conns, CloseWrite(c)
  PROVE  MountsForward /\ LocksForward
  <1>1. UNCHANGED <<mount, now>> /\ writer[c].lock \in DOMAIN lock
    BY DEF CloseWrite, Linked
  <1>2. lock' = [lock EXCEPT ![writer[c].lock] = None] \/ UNCHANGED lock
    BY DEF CloseWrite
  <1> QED
    BY <1>1, <1>2, LockDropped, MountsUnchanged, LocksUnchanged

(* Every step.                                                             *)
LEMMA Forward ==
  ASSUME TypeOK, Linked, [Next]_vars
  PROVE  MountsForward /\ LocksForward
  <1>1. CASE UNCHANGED <<mount, lock, now>>
    BY <1>1, MountsUnchanged, LocksUnchanged
  <1>2. ASSUME NEW c \in Conns, NEW v \in Volumes, MountVolume(c, v)
        PROVE  MountsForward /\ LocksForward
    BY <1>2, MountVolumeForward
  <1>3. ASSUME NEW c \in Conns, NEW m \in DOMAIN mount, Unmount(c, m) \/ Detach(c, m)
        PROVE  MountsForward /\ LocksForward
    BY <1>3, UnmountForward DEF Unmount, Detach
  <1>4. ASSUME NEW c \in Conns, NEW m \in DOMAIN mount, Lock(c, m)
        PROVE  MountsForward /\ LocksForward
    BY <1>4, NewLockForward, ExpiryTimes DEF Lock
  <1>5. ASSUME NEW c \in Conns, NEW m \in DOMAIN mount, Unlock(c, m)
        PROVE  MountsForward /\ LocksForward
    BY <1>5, LockDropped DEF Unlock
  <1>6. ASSUME NEW c \in Conns, NEW m \in DOMAIN mount,
               RenewMount(c, m) \/ RenewLock(c, m) \/ OpenWrite(c, m)
        PROVE  MountsForward /\ LocksForward
    BY <1>6, RenewMountForward, RenewLockForward, OpenWriteForward
  <1>7. ASSUME NEW c \in Conns, CloseWrite(c)
        PROVE  MountsForward /\ LocksForward
    BY <1>7, CloseWriteForward
  <1>8. CASE Prune \/ Tick
    BY <1>8, PruneForward, TickForward
  <1>9. ASSUME NEW c \in Conns, NEW m \in DOMAIN mount, Attach(c, m) \/ WriteAll(c, m)
        PROVE  UNCHANGED <<mount, lock, now>>
    BY <1>9 DEF Attach, WriteAll, rows
  <1>10. ASSUME NEW c \in Conns, FlushChunk(c) \/ Reopen(c)
         PROVE  UNCHANGED <<mount, lock, now>>
    BY <1>10 DEF FlushChunk, Reopen, rows
  <1>11. ASSUME NEW v \in Volumes, CreateVolume(v) \/ ChangePin(v)
         PROVE  UNCHANGED <<mount, lock, now>>
    BY <1>11 DEF CreateVolume, ChangePin, rows
  <1> QED
    BY <1>1, <1>2, <1>3, <1>4, <1>5, <1>6, <1>7, <1>8, <1>9, <1>10, <1>11
       DEF Next, vars

---------------------------------------------------------------------------
(* What a step adds                                                        *)

(* Only lock and open_write add a lock, and only where no other mount has  *)
(* a valid one; only mount adds a mount, of a volume that exists.          *)
NewRows ==
  /\ \A l \in DOMAIN lock' \ DOMAIN lock :
       /\ l = Len(lock) + 1 /\ UNCHANGED <<mount, now>>
       /\ lock'[l].mount \in DOMAIN mount
       /\ ~OthersLock(lock'[l].mount, lock'[l].node)
  /\ \A m \in DOMAIN mount' \ DOMAIN mount : wrap[mount'[m].vol] # Absent

LEMMA SameRows ==
  ASSUME TypeOK, DOMAIN mount' = DOMAIN mount, DOMAIN lock' = DOMAIN lock
  PROVE  NewRows
  BY DEF NewRows

LEMMA AddedLock ==
  ASSUME TypeOK, NEW m \in DOMAIN mount, NEW a \in Entries, NEW until \in Times,
         ~OthersLock(m, a), Len(lock) < MaxLocks, NewLock(m, a, until),
         UNCHANGED <<mount, now>>
  PROVE  NewRows
  <1> DEFINE row == [mount |-> m, node |-> a, until |-> until]
  <1>1. row \in LockRow
    BY Tables DEF LockRow
  <1>2. lock' = Append(lock, row)
    BY DEF NewLock
  <1>3. /\ DOMAIN lock' = 1 .. Len(lock) + 1 /\ DOMAIN lock = 1 .. Len(lock)
        /\ lock'[Len(lock) + 1] = row /\ Len(lock) \in Nat
    BY <1>1, <1>2, LockAppend, Tables
  <1>4. ASSUME NEW l \in DOMAIN lock' \ DOMAIN lock
        PROVE  l = Len(lock) + 1 /\ lock'[l] = row
    BY <1>3
  <1>5. row.mount = m /\ row.node = a
    OBVIOUS
  <1> QED
    BY <1>4, <1>5 DEF NewRows

LEMMA AddedMount ==
  ASSUME TypeOK, NEW c \in Conns, NEW v \in Volumes, MountVolume(c, v)
  PROVE  NewRows
  <1>1. PICK row \in MountRow : mount' = Append(mount, row) /\ row.vol = v
    BY ExpiryTimes DEF MountVolume, MountRow
  <1>2. Len(mount) < MaxMounts /\ UNCHANGED lock /\ wrap[v] # Absent
    BY DEF MountVolume, Opens
  <1>3. /\ DOMAIN mount' = 1 .. Len(mount) + 1 /\ DOMAIN mount = 1 .. Len(mount)
        /\ mount'[Len(mount) + 1] = row /\ Len(mount) \in Nat
    BY <1>1, <1>2, MountAppend, Tables
  <1>4. ASSUME NEW m \in DOMAIN mount' \ DOMAIN mount
        PROVE  mount'[m].vol = v
    BY <1>1, <1>3
  <1>5. lock' = lock
    BY <1>2
  <1> QED
    BY <1>2, <1>4, <1>5 DEF NewRows

LEMMA Added ==
  ASSUME TypeOK, Linked, [Next]_vars
  PROVE  NewRows
  <1>1. CASE UNCHANGED <<mount, lock, now>>
    BY <1>1, SameRows
  <1>2. ASSUME NEW c \in Conns, NEW v \in Volumes, MountVolume(c, v)
        PROVE  NewRows
    BY <1>2, AddedMount
  <1>3. ASSUME NEW c \in Conns, NEW m \in DOMAIN mount,
               Unmount(c, m) \/ Detach(c, m) \/ RenewMount(c, m)
        PROVE  NewRows
    <2>1. DOMAIN mount' = DOMAIN mount /\ lock' = lock
      BY <1>3 DEF Unmount, Detach, RenewMount, rows
    <2> QED
      BY <2>1, SameRows
  <1>4. ASSUME NEW c \in Conns, NEW m \in DOMAIN mount, Lock(c, m)
        PROVE  NewRows
    BY <1>4, AddedLock, ExpiryTimes DEF Lock, OthersLock
  <1>5. ASSUME NEW c \in Conns, NEW m \in DOMAIN mount, Unlock(c, m) \/ RenewLock(c, m)
        PROVE  NewRows
    <2>1. DOMAIN lock' = DOMAIN lock /\ mount' = mount
      BY <1>5 DEF Unlock, RenewLock
    <2> QED
      BY <2>1, SameRows
  <1>6. ASSUME NEW c \in Conns, NEW m \in DOMAIN mount, OpenWrite(c, m)
        PROVE  NewRows
    <2>1. UNCHANGED <<mount, now>> /\ Never \in Times
      BY <1>6, SessionsAssumption DEF OpenWrite, Never, Times
    <2>2. \/ \E a \in Entries : ~OthersLock(m, a) /\ Len(lock) < MaxLocks /\ NewLock(m, a, Never)
          \/ UNCHANGED lock
      BY <1>6 DEF OpenWrite
    <2> QED
      BY <2>1, <2>2, AddedLock, SameRows
  <1>7. ASSUME NEW c \in Conns, CloseWrite(c)
        PROVE  NewRows
    <2>1. DOMAIN lock' = DOMAIN lock /\ mount' = mount
      BY <1>7 DEF CloseWrite
    <2> QED
      BY <2>1, SameRows
  <1>8. CASE Prune \/ Tick
    <2>1. DOMAIN lock' = DOMAIN lock /\ mount' = mount
      BY <1>8 DEF Prune, Tick, rows
    <2> QED
      BY <2>1, SameRows
  <1>9. ASSUME NEW c \in Conns, NEW m \in DOMAIN mount, Attach(c, m) \/ WriteAll(c, m)
        PROVE  UNCHANGED <<mount, lock, now>>
    BY <1>9 DEF Attach, WriteAll, rows
  <1>10. ASSUME NEW c \in Conns, FlushChunk(c) \/ Reopen(c)
         PROVE  UNCHANGED <<mount, lock, now>>
    BY <1>10 DEF FlushChunk, Reopen, rows
  <1>11. ASSUME NEW v \in Volumes, CreateVolume(v) \/ ChangePin(v)
         PROVE  UNCHANGED <<mount, lock, now>>
    BY <1>11 DEF CreateVolume, ChangePin, rows
  <1> QED
    BY <1>1, <1>2, <1>3, <1>4, <1>5, <1>6, <1>7, <1>8, <1>9, <1>10, <1>11
       DEF Next, vars

(* A volume once made keeps its key, whatever its PIN.                     *)
LEMMA KeyForward ==
  ASSUME TypeOK, [Next]_vars, NEW v \in Volumes, wrap[v] # Absent
  PROVE  wrap'[v] # Absent /\ KeyOf(v)' = KeyOf(v) /\ (wrap'[v] = None <=> wrap[v] = None)
  <1>1. \/ UNCHANGED wrap
        \/ \E u \in Volumes : CreateVolume(u) \/ ChangePin(u)
    <2>1. ASSUME NEW c \in Conns, NEW u \in Volumes, MountVolume(c, u)
          PROVE  UNCHANGED wrap
      BY <2>1 DEF MountVolume
    <2>2. ASSUME NEW c \in Conns, NEW m \in DOMAIN mount,
                 \/ Attach(c, m) \/ Unmount(c, m) \/ Detach(c, m) \/ RenewMount(c, m)
                 \/ Lock(c, m) \/ Unlock(c, m) \/ RenewLock(c, m)
          PROVE  UNCHANGED wrap
      BY <2>2 DEF Attach, Unmount, Detach, RenewMount, Lock, Unlock, RenewLock
    <2>3. ASSUME NEW c \in Conns, NEW m \in DOMAIN mount, WriteAll(c, m) \/ OpenWrite(c, m)
          PROVE  UNCHANGED wrap
      BY <2>3 DEF WriteAll, OpenWrite
    <2>4. ASSUME NEW c \in Conns, FlushChunk(c) \/ CloseWrite(c) \/ Reopen(c)
          PROVE  UNCHANGED wrap
      BY <2>4 DEF FlushChunk, CloseWrite, Reopen
    <2>5. CASE Prune \/ Tick \/ UNCHANGED vars
      BY <2>5 DEF Prune, Tick, vars
    <2> QED
      BY <2>1, <2>2, <2>3, <2>4, <2>5 DEF Next
  <1>2. ASSUME NEW u \in Volumes, CreateVolume(u)
        PROVE  wrap'[v] = wrap[v]
    BY <1>2 DEF CreateVolume, TypeOK
  <1>3. ASSUME NEW u \in Volumes, ChangePin(u)
        PROVE  \/ wrap'[v] = wrap[v]
               \/ wrap[v] \in Pins /\ wrap'[v] \in Pins
    BY <1>3 DEF ChangePin, Opens, TypeOK
  <1>4. None \notin Pins /\ Absent \notin Pins
    BY SessionsAssumption
  <1> QED
    BY <1>1, <1>2, <1>3, <1>4 DEF KeyOf

---------------------------------------------------------------------------
(* Types                                                                   *)

(* What is not in the tables.                                              *)
RestOK ==
  /\ wrap \in [Volumes -> Pins \cup {None, Absent}]
  /\ cipher \in [Conns -> Keys]
  /\ session \in [Conns -> {0} \cup MountIds]
  /\ mine \in [Conns -> SUBSET MountIds]
  /\ writer \in [Conns -> {None} \cup Writer]
  /\ stored \in [Volumes -> SUBSET Keys]
  /\ now \in 0 .. MaxTime

LEMMA KeyTypes ==
  \A v \in Volumes : KeyOf(v) \in Keys
  BY DEF KeyOf, Keys

LEMMA MountRest ==
  ASSUME TypeOK, NEW c \in Conns, NEW v \in Volumes, MountVolume(c, v)
  PROVE  RestOK'
  <1>1. Len(mount) + 1 \in MountIds
    BY Tables DEF MountVolume, MountIds
  <1>2. SessionOf(v, Len(mount) + 1) \in {0} \cup MountIds /\ KeyOf(v) \in Keys
    BY <1>1, KeyTypes DEF SessionOf
  <1> QED
    BY <1>1, <1>2 DEF MountVolume, TypeOK, RestOK

LEMMA UnmountRest ==
  ASSUME TypeOK, NEW c \in Conns, NEW m \in DOMAIN mount, Unmount(c, m) \/ Detach(c, m)
  PROVE  RestOK'
  <1>1. None \in Keys
    BY DEF Keys
  <1>2. CASE Unmount(c, m)
    BY <1>1, <1>2 DEF Unmount, TypeOK, RestOK
  <1>3. CASE Detach(c, m)
    BY <1>1, <1>3 DEF Detach, TypeOK, RestOK
  <1> QED
    BY <1>2, <1>3

LEMMA WriteRest ==
  ASSUME TypeOK, Linked, NEW c \in Conns, NEW m \in DOMAIN mount,
         WriteAll(c, m) \/ OpenWrite(c, m)
  PROVE  RestOK'
  <1>1. mount[m].vol \in Volumes /\ cipher[c] \in Keys
    BY Tables DEF MountRow, TypeOK
  <1>2. CASE WriteAll(c, m)
    BY <1>1, <1>2 DEF WriteAll, memory, TypeOK, RestOK
  <1>3. CASE OpenWrite(c, m)
    <2>1. PICK l \in LockIds, b \in BOOLEAN :
            writer' = [writer EXCEPT ![c] =
                         [vol |-> mount[m].vol, lock |-> l, owns |-> b, seals |-> {}]]
      <3>1. CASE Len(lock) < MaxLocks /\ writer' = [writer EXCEPT ![c] =
                  [vol |-> mount[m].vol, lock |-> Len(lock) + 1, owns |-> TRUE, seals |-> {}]]
        <4>1. Len(lock) + 1 \in LockIds
          BY <3>1, Tables DEF LockIds
        <4> QED
          BY <3>1, <4>1
      <3>2. CASE \E l \in DOMAIN lock : writer' = [writer EXCEPT ![c] =
                  [vol |-> mount[m].vol, lock |-> l, owns |-> FALSE, seals |-> {}]]
        BY <3>2, Tables
      <3> QED
        BY <1>3, <3>1, <3>2 DEF OpenWrite
    <2>2. [vol |-> mount[m].vol, lock |-> l, owns |-> b, seals |-> {}] \in Writer
      BY <1>1 DEF Writer
    <2>3. UNCHANGED <<wrap, cipher, session, mine, stored, now>>
      BY <1>3 DEF OpenWrite
    <2> QED
      BY <2>1, <2>2, <2>3 DEF TypeOK, RestOK
  <1> QED
    BY <1>2, <1>3

LEMMA DescriptorRest ==
  ASSUME TypeOK, NEW c \in Conns, FlushChunk(c) \/ CloseWrite(c)
  PROVE  RestOK'
  <1>1. writer[c] \in Writer /\ cipher[c] \in Keys
    BY DEF TypeOK, FlushChunk, CloseWrite
  <1>2. CASE FlushChunk(c)
    <2>1. [writer[c] EXCEPT !.seals = @ \cup {cipher[c]}] \in Writer
      BY <1>1 DEF Writer
    <2>2. writer' = [writer EXCEPT ![c] = [writer[c] EXCEPT !.seals = @ \cup {cipher[c]}]]
      BY <1>2 DEF FlushChunk
    <2>3. UNCHANGED <<wrap, cipher, session, mine, stored, now>>
      BY <1>2 DEF FlushChunk
    <2> QED
      BY <2>1, <2>2, <2>3 DEF TypeOK, RestOK
  <1>3. CASE CloseWrite(c)
    <2>1. writer[c].vol \in Volumes /\ writer[c].seals \subseteq Keys
      BY <1>1 DEF Writer
    <2>2. stored' \in [Volumes -> SUBSET Keys]
      BY SMTT(30), <1>1, <1>3, <2>1 DEF CloseWrite, Publish, TypeOK
    <2>3. writer' \in [Conns -> {None} \cup Writer]
      BY <1>3 DEF CloseWrite, TypeOK
    <2>4. UNCHANGED <<wrap, cipher, session, mine, now>>
      BY <1>3 DEF CloseWrite
    <2> QED
      BY <2>2, <2>3, <2>4 DEF TypeOK, RestOK
  <1> QED
    BY <1>2, <1>3

LEMMA TypeStep ==
  ASSUME TypeOK, Linked, [Next]_vars
  PROVE  TypeOK'
  <1>1. RestOK'
    <2>1. CASE UNCHANGED vars
      BY <2>1 DEF vars, TypeOK, RestOK
    <2>2. ASSUME NEW c \in Conns, NEW v \in Volumes, MountVolume(c, v)
          PROVE  RestOK'
      BY <2>2, MountRest
    <2>3. ASSUME NEW c \in Conns, NEW m \in DOMAIN mount, Unmount(c, m) \/ Detach(c, m)
          PROVE  RestOK'
      BY <2>3, UnmountRest
    <2>4. ASSUME NEW c \in Conns, NEW m \in DOMAIN mount, WriteAll(c, m) \/ OpenWrite(c, m)
          PROVE  RestOK'
      BY <2>4, WriteRest
    <2>5. ASSUME NEW c \in Conns, FlushChunk(c) \/ CloseWrite(c)
          PROVE  RestOK'
      BY <2>5, DescriptorRest
    <2>6. ASSUME NEW c \in Conns, NEW m \in DOMAIN mount,
                 Lock(c, m) \/ Unlock(c, m) \/ RenewLock(c, m) \/ RenewMount(c, m)
          PROVE  RestOK'
      BY <2>6 DEF Lock, Unlock, RenewLock, RenewMount, memory, TypeOK, RestOK
    <2>7. ASSUME NEW c \in Conns, NEW m \in DOMAIN mount, Attach(c, m)
          PROVE  RestOK'
      BY <2>7, Tables DEF Attach, TypeOK, RestOK
    <2>8. ASSUME NEW c \in Conns, Reopen(c)
          PROVE  RestOK'
      <3>1. None \in Keys
        BY DEF Keys
      <3> QED
        BY <2>8, <3>1 DEF Reopen, TypeOK, RestOK
    <2>9. ASSUME NEW v \in Volumes, CreateVolume(v) \/ ChangePin(v)
          PROVE  RestOK'
      BY <2>9 DEF CreateVolume, ChangePin, memory, TypeOK, RestOK
    <2>10. CASE Prune
      BY <2>10 DEF Prune, memory, TypeOK, RestOK
    <2>11. CASE Tick
      BY <2>11, SessionsAssumption DEF Tick, memory, TypeOK, RestOK
    <2> QED
      BY <2>1, <2>2, <2>3, <2>4, <2>5, <2>6, <2>7, <2>8, <2>9, <2>10, <2>11 DEF Next
  <1> QED
    BY <1>1, Forward DEF RestOK, TypeOK, MountsForward, LocksForward

(* What a connection holds: its mounts and the row of its lock.            *)
HoldsOK(c) == /\ mine[c] \subseteq DOMAIN mount
              /\ \A m \in mine[c] : mount[m].vol \in Serves[c]
              /\ writer[c] # None => /\ writer[c].lock \in DOMAIN lock
                                     /\ wrap[writer[c].vol] # Absent

(* A connection that gained no mount and opened nothing.                   *)
LEMMA HoldsStill ==
  ASSUME TypeOK, Linked, [Next]_vars, NEW d \in Conns, mine'[d] \subseteq mine[d],
         \/ writer'[d] = None
         \/ /\ writer[d] # None
            /\ writer'[d].lock = writer[d].lock /\ writer'[d].vol = writer[d].vol
  PROVE  HoldsOK(d)'
  <1>1. MountsForward /\ LocksForward
    BY Forward
  <1>2. \A m \in mine'[d] : m \in DOMAIN mount /\ mount[m].vol \in Serves[d]
    BY DEF Linked
  <1>3. writer'[d] # None => /\ writer'[d].lock \in DOMAIN lock'
                             /\ wrap'[writer'[d].vol] # Absent
    <2>1. SUFFICES ASSUME writer'[d] # None
                   PROVE  writer'[d].lock \in DOMAIN lock' /\ wrap'[writer'[d].vol] # Absent
      OBVIOUS
    <2>2. writer[d] # None /\ writer'[d].lock = writer[d].lock /\ writer'[d].vol = writer[d].vol
      BY <2>1
    <2>3. writer[d].vol \in Volumes /\ wrap[writer[d].vol] # Absent /\ writer[d].lock \in DOMAIN lock
      BY <2>2 DEF TypeOK, Writer, Linked
    <2> QED
      BY <1>1, <2>2, <2>3, KeyForward DEF LocksForward
  <1> QED
    BY <1>1, <1>2, <1>3 DEF HoldsOK, MountsForward

LEMMA MountHolds ==
  ASSUME TypeOK, Linked, [Next]_vars, NEW c \in Conns, NEW v \in Volumes,
         MountVolume(c, v)
  PROVE  HoldsOK(c)'
  <1>1. PICK row \in MountRow : mount' = Append(mount, row) /\ row.vol = v
    BY ExpiryTimes DEF MountVolume, MountRow
  <1>2. /\ v \in Serves[c] /\ Len(mount) < MaxMounts /\ writer' = writer
        /\ mine'[c] = mine[c] \cup {Len(mount) + 1}
    BY DEF MountVolume, TypeOK
  <1>3. /\ DOMAIN mount' = 1 .. Len(mount) + 1 /\ mount'[Len(mount) + 1].vol = v
        /\ Len(mount) + 1 \in DOMAIN mount'
        /\ \A k \in DOMAIN mount : k \in DOMAIN mount' /\ mount'[k].vol = mount[k].vol
    BY <1>1, <1>2, MountAppend, Tables
  <1>4. mine[c] \subseteq DOMAIN mount /\ \A m \in mine[c] : mount[m].vol \in Serves[c]
    BY DEF Linked
  <1>5. writer'[c] # None => /\ writer'[c].lock \in DOMAIN lock'
                             /\ wrap'[writer'[c].vol] # Absent
    BY <1>2 DEF MountVolume, Linked
  <1> QED
    BY <1>2, <1>3, <1>4, <1>5 DEF HoldsOK

LEMMA AttachHolds ==
  ASSUME TypeOK, Linked, NEW c \in Conns, NEW m \in DOMAIN mount, Attach(c, m)
  PROVE  HoldsOK(c)'
  <1>1. /\ mine'[c] = mine[c] \cup {m} /\ mount[m].vol \in Serves[c]
        /\ UNCHANGED <<wrap, mount, lock, writer>>
    BY DEF Attach, rows, TypeOK
  <1> QED
    BY <1>1 DEF Linked, HoldsOK

LEMMA OpenWriteHolds ==
  ASSUME TypeOK, Linked, NEW c \in Conns, NEW m \in DOMAIN mount, OpenWrite(c, m)
  PROVE  HoldsOK(c)'
  <1>1. UNCHANGED <<mount, wrap, mine, now>> /\ Never \in Times
    BY SessionsAssumption DEF OpenWrite, Never, Times
  <1>2. wrap[mount[m].vol] # Absent
    BY DEF Linked
  <1>3. writer'[c].lock \in DOMAIN lock' /\ writer'[c].vol = mount[m].vol
    <2>1. ASSUME NEW a \in Entries, Len(lock) < MaxLocks, NewLock(m, a, Never),
                 writer' = [writer EXCEPT ![c] =
                  [vol |-> mount[m].vol, lock |-> Len(lock) + 1, owns |-> TRUE, seals |-> {}]]
          PROVE  writer'[c].lock \in DOMAIN lock' /\ writer'[c].vol = mount[m].vol
      <3> DEFINE row == [mount |-> m, node |-> a, until |-> Never]
      <3>1. row \in LockRow /\ lock' = Append(lock, row)
        BY <1>1, <2>1, Tables DEF LockRow, NewLock
      <3>2. Len(lock) + 1 \in DOMAIN lock'
        BY <2>1, <3>1, LockAppend, Tables
      <3> QED
        BY <2>1, <3>2 DEF TypeOK
    <2>2. ASSUME NEW l \in DOMAIN lock, UNCHANGED lock,
                 writer' = [writer EXCEPT ![c] =
                  [vol |-> mount[m].vol, lock |-> l, owns |-> FALSE, seals |-> {}]]
          PROVE  writer'[c].lock \in DOMAIN lock' /\ writer'[c].vol = mount[m].vol
      BY <2>2 DEF TypeOK
    <2> QED
      BY <2>1, <2>2 DEF OpenWrite
  <1>4. mine[c] \subseteq DOMAIN mount /\ \A k \in mine[c] : mount[k].vol \in Serves[c]
    BY DEF Linked
  <1> QED
    BY <1>1, <1>2, <1>3, <1>4 DEF HoldsOK

LEMMA LinkedStep ==
  ASSUME TypeOK, Linked, [Next]_vars
  PROVE  Linked'
  <1>1. MountsForward /\ LocksForward /\ NewRows /\ TypeOK'
    BY Forward, Added, TypeStep
  <1>2. ASSUME NEW l \in DOMAIN lock', lock'[l] # None
        PROVE  lock'[l].mount \in DOMAIN mount'
    <2>1. CASE l \in DOMAIN lock
      BY <1>1, <1>2, <2>1 DEF LocksForward, MountsForward, Linked
    <2>2. CASE l \notin DOMAIN lock
      BY <1>1, <1>2, <2>2 DEF NewRows
    <2> QED
      BY <2>1, <2>2
  <1>3. ASSUME NEW m \in DOMAIN mount'
        PROVE  wrap'[mount'[m].vol] # Absent
    <2>1. mount'[m].vol \in Volumes
      <3>1. mount'[m] \in MountRow
        BY <1>1 DEF MountsForward
      <3> QED
        BY <3>1 DEF MountRow
    <2>2. wrap[mount'[m].vol] # Absent
      BY <1>1 DEF NewRows, MountsForward, Linked
    <2> QED
      BY <2>1, <2>2, KeyForward
  <1>4. ASSUME NEW d \in Conns
        PROVE  HoldsOK(d)'
    <2>1. CASE UNCHANGED <<mine, writer>>
      BY <2>1, HoldsStill
    <2>2. ASSUME NEW c \in Conns, NEW v \in Volumes, MountVolume(c, v)
          PROVE  HoldsOK(d)'
      <3>1. CASE d = c
        BY <2>2, <3>1, MountHolds
      <3>2. CASE d # c
        BY <2>2, <3>2, HoldsStill DEF MountVolume, TypeOK
      <3> QED
        BY <3>1, <3>2
    <2>3. ASSUME NEW c \in Conns, NEW m \in DOMAIN mount, Unmount(c, m) \/ Detach(c, m)
          PROVE  HoldsOK(d)'
      <3>1. mine'[d] \subseteq mine[d] /\ (writer'[d] = None \/ writer'[d] = writer[d])
        BY <2>3 DEF Unmount, Detach, TypeOK
      <3> QED
        BY <3>1, HoldsStill
    <2>4. ASSUME NEW c \in Conns, NEW m \in DOMAIN mount, Attach(c, m)
          PROVE  HoldsOK(d)'
      <3>1. CASE d = c
        BY <2>4, <3>1, AttachHolds
      <3>2. CASE d # c
        BY <2>4, <3>2, HoldsStill DEF Attach, TypeOK
      <3> QED
        BY <3>1, <3>2
    <2>5. ASSUME NEW c \in Conns, NEW m \in DOMAIN mount, OpenWrite(c, m)
          PROVE  HoldsOK(d)'
      <3>1. CASE d = c
        BY <2>5, <3>1, OpenWriteHolds
      <3>2. CASE d # c
        <4>1. mine' = mine /\ writer'[d] = writer[d]
          BY <2>5, <3>2 DEF OpenWrite, TypeOK
        <4> QED
          BY <4>1, HoldsStill
      <3> QED
        BY <3>1, <3>2
    <2>6. ASSUME NEW c \in Conns, FlushChunk(c) \/ CloseWrite(c) \/ Reopen(c)
          PROVE  HoldsOK(d)'
      <3>1. CASE FlushChunk(c)
        <4>1. /\ mine' = mine /\ writer[c] # None
              /\ writer' = [writer EXCEPT ![c] = [writer[c] EXCEPT !.seals = @ \cup {cipher[c]}]]
          BY <3>1 DEF FlushChunk
        <4>2. writer[c] \in Writer
          BY <4>1 DEF TypeOK
        <4>3. \/ writer'[d] = writer[d]
              \/ /\ writer[d] # None
                 /\ writer'[d].lock = writer[d].lock /\ writer'[d].vol = writer[d].vol
          BY <4>1, <4>2 DEF Writer, TypeOK
        <4> QED
          BY <4>1, <4>3, HoldsStill
      <3>2. CASE CloseWrite(c) \/ Reopen(c)
        <4>1. mine'[d] \subseteq mine[d] /\ (writer'[d] = None \/ writer'[d] = writer[d])
          BY <3>2 DEF CloseWrite, Reopen, TypeOK
        <4> QED
          BY <4>1, HoldsStill
      <3> QED
        BY <2>6, <3>1, <3>2
    <2>7. ASSUME NEW c \in Conns, NEW m \in DOMAIN mount,
                 Lock(c, m) \/ Unlock(c, m) \/ RenewLock(c, m) \/ RenewMount(c, m) \/ WriteAll(c, m)
          PROVE  UNCHANGED <<mine, writer>>
      BY <2>7 DEF Lock, Unlock, RenewLock, RenewMount, WriteAll, memory
    <2>8. ASSUME NEW v \in Volumes, CreateVolume(v) \/ ChangePin(v)
          PROVE  UNCHANGED <<mine, writer>>
      BY <2>8 DEF CreateVolume, ChangePin, memory
    <2>9. CASE Prune \/ Tick \/ UNCHANGED vars
      BY <2>1, <2>9 DEF Prune, Tick, memory, vars
    <2> QED
      BY <2>1, <2>2, <2>3, <2>4, <2>5, <2>6, <2>7, <2>8, <2>9 DEF Next
  <1> QED
    BY <1>2, <1>3, <1>4 DEF HoldsOK, Linked

LEMMA InitOK == Init => TypeOK /\ Linked
  BY SessionsAssumption DEF Init, TypeOK, Linked, Keys

(* Every variable of the engine's sessions keeps its type, and every row   *)
(* and descriptor refers to rows that exist.                               *)
THEOREM Types == Spec => [](TypeOK /\ Linked)
  <1>1. TypeOK /\ Linked /\ [Next]_vars => (TypeOK /\ Linked)'
    BY TypeStep, LinkedStep
  <1> QED
    BY InitOK, <1>1, PTL DEF Spec

(* What lapsed stays lapsed: on no path does a mount or a lock that is no  *)
(* longer valid become valid again, so what a caller lost it cannot find   *)
(* itself holding.                                                         *)
THEOREM Lapsed == Spec => [][MountsForward /\ LocksForward]_vars
  <1>1. TypeOK /\ Linked /\ [Next]_vars => [MountsForward /\ LocksForward]_vars
    BY Forward
  <1> QED
    BY Types, <1>1, PTL DEF Spec

---------------------------------------------------------------------------
(* One holder                                                              *)

LEMMA HolderStep ==
  ASSUME TypeOK, Linked, OneHolder, [Next]_vars
  PROVE  OneHolder'
  <1>1. MountsForward /\ LocksForward /\ NewRows /\ Linked'
    BY Forward, Added, LinkedStep
  <1>2. SUFFICES ASSUME NEW v \in Volumes, NEW a \in Entries,
                        NEW k \in LocksOn(v, a)', NEW l \in LocksOn(v, a)'
                 PROVE  lock'[k].mount = lock'[l].mount
    BY DEF OneHolder
  <1>3. ASSUME NEW i \in LocksOn(v, a)'
        PROVE  /\ i \in DOMAIN lock' /\ lock'[i] # None /\ ValidLock(i)'
               /\ lock'[i].node = a /\ mount'[lock'[i].mount].vol = v
    BY DEF LocksOn, ValidLock
  (* A lock that was there was on this entry, of the same mount. *)
  <1>4. ASSUME NEW i \in LocksOn(v, a)', i \in DOMAIN lock
        PROVE  i \in LocksOn(v, a) /\ lock[i].mount = lock'[i].mount
    <2>1. lock[i] # None /\ lock'[i].mount = lock[i].mount /\ lock[i].node = a /\ ValidLock(i)
      BY <1>1, <1>3, <1>4 DEF LocksForward
    <2>2. lock[i].mount \in DOMAIN mount
      BY <1>4, <2>1 DEF Linked
    <2>3. mount[lock[i].mount].vol = v
      BY <1>1, <1>3, <2>1, <2>2 DEF MountsForward
    <2> QED
      BY <1>4, <2>1, <2>3 DEF LocksOn
  (* A new one is the only new one, and on this entry only its mount held. *)
  <1>5. ASSUME NEW i \in LocksOn(v, a)', i \notin DOMAIN lock,
               NEW j \in LocksOn(v, a)'
        PROVE  lock'[i].mount = lock'[j].mount
    <2>1. /\ i = Len(lock) + 1 /\ UNCHANGED <<mount, now>>
          /\ ~OthersLock(lock'[i].mount, lock'[i].node)
      BY <1>1, <1>3, <1>5 DEF NewRows
    <2>2. CASE j \notin DOMAIN lock
      BY <1>1, <1>3, <2>1, <2>2 DEF NewRows
    <2>3. CASE j \in DOMAIN lock
      <3>1. j \in LocksOn(v, a) /\ lock[j].mount = lock'[j].mount
        BY <1>4, <2>3
      <3>2. mount[lock'[i].mount].vol = v /\ lock'[i].node = a
        BY <1>3, <2>1
      <3> QED
        BY <2>1, <3>1, <3>2 DEF OthersLock
    <2> QED
      BY <2>2, <2>3
  <1>6. CASE k \in DOMAIN lock /\ l \in DOMAIN lock
    BY <1>4, <1>6 DEF OneHolder
  <1>7. CASE k \notin DOMAIN lock \/ l \notin DOMAIN lock
    BY <1>5, <1>7
  <1> QED
    BY <1>6, <1>7

(* The valid locks of an entry belong to one mount, whatever mounts and    *)
(* locks lapse, are renewed, unmounted, reopened or pruned, on any number  *)
(* of connections, with no discipline assumed.                             *)
THEOREM LocksExclusive == Spec => []OneHolder
  <1>1. Init => OneHolder
    BY DEF Init, OneHolder, LocksOn
  <1>2. TypeOK /\ Linked /\ OneHolder /\ [Next]_vars => OneHolder'
    BY HolderStep
  <1> QED
    BY Types, <1>1, <1>2, PTL DEF Spec

---------------------------------------------------------------------------
(* The key of the volume                                                   *)

(* require_mount asks whether there is a key; on a connection that serves  *)
(* one volume it is the volume's.                                          *)
LEMMA ServedKey ==
  ASSUME Disciplined, TypeOK, Linked, NEW c \in Conns, KeyServed(c),
         NEW m \in DOMAIN mount, NEW w \in BOOLEAN, RequireMount(c, m, w)
  PROVE  /\ cipher[c] = KeyOf(mount[m].vol)
         /\ m \in mine[c] /\ mount[m].vol \in Volumes /\ wrap[mount[m].vol] # Absent
  <1>1. mount[m].vol \in Volumes /\ m \in mine[c]
    BY Tables DEF MountRow, RequireMount, Handle
  <1>2. mount[m].vol \in Serves[c] /\ wrap[mount[m].vol] # Absent
    BY <1>1 DEF Linked
  <1>3. cipher[c] # None => cipher[c] = mount[m].vol
    BY <1>2 DEF Disciplined, KeyServed
  <1>4. None \notin Volumes
    BY SessionsAssumption
  <1> QED
    BY <1>1, <1>2, <1>3, <1>4 DEF RequireMount, KeyOf

(* A connection the step did not touch.                                    *)
LEMMA KeyStill ==
  ASSUME TypeOK, Linked, [Next]_vars, NEW d \in Conns, KeyServed(d), OneMount(d),
         cipher'[d] \in {None, cipher[d]}, mine'[d] \subseteq mine[d]
  PROVE  KeyServed(d)' /\ OneMount(d)'
  <1>1. cipher[d] \in Volumes \cup {None}
    BY DEF TypeOK, Keys
  <1>2. KeyServed(d)'
    BY <1>1, KeyForward DEF KeyServed
  <1>3. OneMount(d)'
    BY DEF OneMount
  <1> QED
    BY <1>2, <1>3

LEMMA WriterStill ==
  ASSUME TypeOK, Linked, [Next]_vars, NEW d \in Conns, WriterKeyed(d),
         \/ writer'[d] = None
         \/ /\ writer[d] # None
            /\ writer'[d].lock = writer[d].lock /\ writer'[d].vol = writer[d].vol
            /\ writer'[d].seals \subseteq writer[d].seals \cup {cipher[d]}
            /\ ValidLock(writer[d].lock)' /\ ValidLock(writer[d].lock) =>
                 /\ lock[writer[d].lock].mount \in mine'[d]
                 /\ cipher'[d] = cipher[d]
  PROVE  WriterKeyed(d)'
  <1>1. SUFFICES ASSUME (writer[d] # None /\ ValidLock(writer[d].lock))'
                 PROVE  (/\ lock[writer[d].lock].mount \in mine[d]
                         /\ mount[lock[writer[d].lock].mount].vol = writer[d].vol
                         /\ cipher[d] = KeyOf(writer[d].vol)
                         /\ writer[d].seals \subseteq {KeyOf(writer[d].vol)})'
    BY DEF WriterKeyed
  <1>2. writer[d] # None /\ writer[d].vol \in Volumes
    BY <1>1 DEF TypeOK, Writer
  <1>3. PICK l \in DOMAIN lock, v \in Volumes : l = writer[d].lock /\ v = writer[d].vol
    BY <1>2 DEF Linked
  <1>4. /\ writer'[d].lock = l /\ writer'[d].vol = v /\ wrap[v] # Absent
        /\ writer'[d].seals \subseteq writer[d].seals \cup {cipher[d]}
    BY <1>1, <1>2, <1>3 DEF Linked
  <1>5. ValidLock(l)' /\ lock'[l] # None
    BY <1>1, <1>4 DEF ValidLock
  <1>6. ValidLock(l) /\ lock[l] # None /\ lock'[l].mount = lock[l].mount
    BY <1>5, Forward DEF LocksForward
  <1>7. lock[l].mount \in mine'[d] /\ cipher'[d] = cipher[d]
    BY <1>1, <1>2, <1>3, <1>4, <1>5, <1>6
  <1>8. /\ lock[l].mount \in DOMAIN mount
        /\ mount'[lock[l].mount].vol = mount[lock[l].mount].vol
    BY <1>6, Forward DEF Linked, MountsForward
  <1>9. /\ mount[lock[l].mount].vol = v /\ cipher[d] = KeyOf(v)
        /\ writer[d].seals \subseteq {KeyOf(v)}
    BY <1>2, <1>3, <1>6 DEF WriterKeyed
  <1>10. KeyOf(v)' = KeyOf(v)
    BY <1>4, KeyForward
  <1>11. KeyOf(writer[d].vol)' = KeyOf(v)
    BY <1>4, <1>10 DEF KeyOf
  <1> QED
    BY <1>4, <1>6, <1>7, <1>8, <1>9, <1>11

(* What one connection keeps. *)
ConnOK(c) == KeyServed(c) /\ OneMount(c) /\ WriterKeyed(c)

LEMMA ConnStill ==
  ASSUME TypeOK, Linked, [Next]_vars, NEW d \in Conns, ConnOK(d),
         cipher'[d] = cipher[d], mine'[d] = mine[d], writer'[d] = writer[d]
  PROVE  ConnOK(d)'
  <1>1. writer[d] = None \/ writer[d].seals \subseteq writer[d].seals \cup {cipher[d]}
    OBVIOUS
  <1>2. ValidLock(writer[d].lock) /\ writer[d] # None => lock[writer[d].lock].mount \in mine'[d]
    BY DEF ConnOK, WriterKeyed
  <1>3. WriterKeyed(d)'
    BY <1>1, <1>2, WriterStill DEF ConnOK
  <1>4. KeyServed(d)' /\ OneMount(d)'
    BY KeyStill DEF ConnOK
  <1> QED
    BY <1>3, <1>4 DEF ConnOK

(* mount: the registry serves one volume, a handle of its own had no mount *)
(* and so no descriptor whose lock is good.                                *)
LEMMA MountKeeps ==
  ASSUME Disciplined, TypeOK, Linked, [Next]_vars, NEW c \in Conns, ConnOK(c),
         NEW v \in Volumes, MountVolume(c, v)
  PROVE  ConnOK(c)'
  <1>1. /\ v \in Serves[c] /\ wrap[v] # Absent /\ wrap' = wrap
        /\ cipher'[c] = KeyOf(v) /\ writer' = writer
        /\ mine'[c] = mine[c] \cup {Len(mount) + 1}
        /\ c \notin Registry => mine[c] = {}
    BY DEF MountVolume, Opens, Disciplined, TypeOK
  <1>2. KeyServed(c)' /\ OneMount(c)'
    BY <1>1 DEF ConnOK, KeyServed, OneMount, KeyOf
  <1>3. ASSUME writer[c] # None, ValidLock(writer[c].lock)
        PROVE  lock[writer[c].lock].mount \in mine'[c] /\ cipher'[c] = cipher[c]
    <2> DEFINE m == lock[writer[c].lock].mount
    <2>1. /\ m \in mine[c] /\ mount[m].vol = writer[c].vol
          /\ cipher[c] = KeyOf(writer[c].vol)
      BY <1>3 DEF ConnOK, WriterKeyed
    <2>2. mount[m].vol \in Serves[c]
      BY <2>1 DEF Linked
    <2>3. mount[m].vol = v
      BY <1>1, <2>2 DEF Disciplined
    <2> QED
      BY <1>1, <2>1, <2>3
  <1>4. WriterKeyed(c)'
    BY <1>1, <1>3, WriterStill DEF ConnOK
  <1> QED
    BY <1>2, <1>4 DEF ConnOK

(* unmount and detach: the descriptor's own mount goes, and its lock with  *)
(* it, or another goes and the connection is left alone.                   *)
LEMMA UnmountKeeps ==
  ASSUME Disciplined, TypeOK, Linked, [Next]_vars, NEW c \in Conns, ConnOK(c),
         NEW m \in DOMAIN mount, Unmount(c, m) \/ Detach(c, m)
  PROVE  ConnOK(c)'
  <1>1. /\ mount' = [mount EXCEPT ![m].st = "unmounted"] /\ lock' = lock
        /\ m \in mine[c] /\ mine'[c] = mine[c] \ {m}
        /\ cipher'[c] \in {None, cipher[c]}
        /\ \/ writer'[c] = None
           \/ /\ writer'[c] = writer[c]
              /\ c \in Registry => cipher'[c] = cipher[c]
    BY DEF Unmount, Detach, Handle, TypeOK
  <1>2. KeyServed(c)' /\ OneMount(c)'
    BY <1>1, KeyStill DEF ConnOK
  <1>3. ASSUME writer[c] # None, writer'[c] = writer[c],
               ValidLock(writer[c].lock), ValidLock(writer[c].lock)'
        PROVE  lock[writer[c].lock].mount \in mine'[c] /\ cipher'[c] = cipher[c]
    <2> DEFINE n == lock[writer[c].lock].mount
    <2>1. n \in mine[c]
      BY <1>3 DEF ConnOK, WriterKeyed
    <2>2. n # m
      <3>1. mount'[n].st = "active"
        BY <1>1, <1>3 DEF ValidLock, ValidMount
      <3>2. mount'[m].st = "unmounted"
        BY <1>1, Tables DEF MountRow
      <3> QED
        BY <3>1, <3>2
    <2>3. c \in Registry
      BY <1>1, <2>1, <2>2 DEF ConnOK, OneMount
    <2>4. writer'[c] # None
      BY <1>3
    <2> QED
      BY <1>1, <2>1, <2>2, <2>3, <2>4
  <1>4. WriterKeyed(c)'
    BY <1>1, <1>3, WriterStill DEF ConnOK
  <1> QED
    BY <1>2, <1>4 DEF ConnOK

LEMMA AttachKeeps ==
  ASSUME Disciplined, TypeOK, Linked, [Next]_vars, NEW c \in Conns, ConnOK(c),
         NEW m \in DOMAIN mount, Attach(c, m)
  PROVE  ConnOK(c)'
  <1>1. /\ mine[c] = {} /\ mine'[c] = {m} /\ UNCHANGED <<cipher, writer, wrap>>
    BY DEF Attach, Disciplined, TypeOK
  <1>2. KeyServed(c)' /\ OneMount(c)'
    BY <1>1 DEF ConnOK, KeyServed, OneMount
  <1>3. ~(writer[c] # None /\ ValidLock(writer[c].lock))
    BY <1>1 DEF ConnOK, WriterKeyed
  <1>4. WriterKeyed(c)'
    BY <1>1, <1>3, WriterStill DEF ConnOK
  <1> QED
    BY <1>2, <1>4 DEF ConnOK

LEMMA OpenWriteKeeps ==
  ASSUME Disciplined, TypeOK, Linked, [Next]_vars, NEW c \in Conns, ConnOK(c),
         NEW m \in DOMAIN mount, OpenWrite(c, m)
  PROVE  ConnOK(c)'
  <1>1. UNCHANGED <<mount, wrap, mine, cipher, now>> /\ RequireMount(c, m, TRUE)
    BY DEF OpenWrite
  <1>2. /\ cipher[c] = KeyOf(mount[m].vol) /\ m \in mine[c]
    BY <1>1, ServedKey DEF ConnOK
  <1>3. KeyServed(c)' /\ OneMount(c)'
    BY <1>1, KeyStill DEF ConnOK
  <1>4. /\ writer'[c].vol = mount[m].vol /\ writer'[c].seals = {}
        /\ lock'[writer'[c].lock].mount = m
    <2>1. ASSUME NEW a \in Entries, Len(lock) < MaxLocks, NewLock(m, a, Never),
                 writer' = [writer EXCEPT ![c] =
                  [vol |-> mount[m].vol, lock |-> Len(lock) + 1, owns |-> TRUE, seals |-> {}]]
          PROVE  /\ writer'[c].vol = mount[m].vol /\ writer'[c].seals = {}
                 /\ lock'[writer'[c].lock].mount = m
      <3> DEFINE row == [mount |-> m, node |-> a, until |-> Never]
      <3>1. row \in LockRow /\ lock' = Append(lock, row)
        BY <2>1, Tables, SessionsAssumption DEF LockRow, NewLock, Never, Times
      <3>2. lock'[Len(lock) + 1] = row
        BY <2>1, <3>1, LockAppend
      <3>3. /\ writer'[c].vol = mount[m].vol /\ writer'[c].seals = {}
            /\ writer'[c].lock = Len(lock) + 1
        BY <2>1 DEF TypeOK
      <3> QED
        BY <3>2, <3>3
    <2>2. ASSUME NEW l \in DOMAIN lock, OwnLock(m, l), UNCHANGED lock,
                 writer' = [writer EXCEPT ![c] =
                  [vol |-> mount[m].vol, lock |-> l, owns |-> FALSE, seals |-> {}]]
          PROVE  /\ writer'[c].vol = mount[m].vol /\ writer'[c].seals = {}
                 /\ lock'[writer'[c].lock].mount = m
      BY <2>2 DEF TypeOK, OwnLock
    <2> QED
      BY <2>1, <2>2 DEF OpenWrite
  <1>5. WriterKeyed(c)'
    BY <1>1, <1>2, <1>4 DEF WriterKeyed, KeyOf
  <1> QED
    BY <1>3, <1>5 DEF ConnOK

LEMMA FlushKeeps ==
  ASSUME TypeOK, Linked, [Next]_vars, NEW c \in Conns, ConnOK(c), FlushChunk(c)
  PROVE  ConnOK(c)'
  <1>1. /\ UNCHANGED <<cipher, mine>> /\ writer[c] # None
        /\ writer' = [writer EXCEPT ![c] = [writer[c] EXCEPT !.seals = @ \cup {cipher[c]}]]
    BY DEF FlushChunk
  <1>2. writer[c] \in Writer
    BY <1>1 DEF TypeOK
  <1>3. /\ writer'[c].lock = writer[c].lock /\ writer'[c].vol = writer[c].vol
        /\ writer'[c].seals = writer[c].seals \cup {cipher[c]}
    BY <1>1, <1>2 DEF Writer, TypeOK
  <1>4. ValidLock(writer[c].lock) => lock[writer[c].lock].mount \in mine'[c]
    BY <1>1 DEF ConnOK, WriterKeyed
  <1>5. WriterKeyed(c)'
    BY <1>1, <1>3, <1>4, WriterStill DEF ConnOK
  <1>6. KeyServed(c)' /\ OneMount(c)'
    BY <1>1, KeyStill DEF ConnOK
  <1> QED
    BY <1>5, <1>6 DEF ConnOK

LEMMA DropKeeps ==
  ASSUME TypeOK, Linked, [Next]_vars, NEW c \in Conns, ConnOK(c),
         CloseWrite(c) \/ Reopen(c)
  PROVE  ConnOK(c)'
  <1>1. /\ writer'[c] = None /\ cipher'[c] \in {None, cipher[c]}
        /\ mine'[c] \subseteq mine[c]
    BY DEF CloseWrite, Reopen, TypeOK
  <1>2. WriterKeyed(c)'
    BY <1>1, WriterStill DEF ConnOK
  <1> QED
    BY <1>1, <1>2, KeyStill DEF ConnOK

LEMMA KeyedStep ==
  ASSUME Disciplined, TypeOK, Linked, Keyed, [Next]_vars
  PROVE  \A d \in Conns : ConnOK(d)'
  <1>1. SUFFICES ASSUME NEW d \in Conns
                 PROVE  ConnOK(d)'
    OBVIOUS
  <1>2. ConnOK(d)
    BY DEF Keyed, ConnOK
  <1>3. CASE cipher'[d] = cipher[d] /\ mine'[d] = mine[d] /\ writer'[d] = writer[d]
    BY <1>2, <1>3, ConnStill
  <1>4. ASSUME NEW v \in Volumes, MountVolume(d, v)
        PROVE  ConnOK(d)'
    BY <1>2, <1>4, MountKeeps
  <1>5. ASSUME NEW m \in DOMAIN mount,
               Unmount(d, m) \/ Detach(d, m) \/ Attach(d, m) \/ OpenWrite(d, m)
        PROVE  ConnOK(d)'
    BY <1>2, <1>5, UnmountKeeps, AttachKeeps, OpenWriteKeeps
  <1>6. CASE FlushChunk(d) \/ CloseWrite(d) \/ Reopen(d)
    BY <1>2, <1>6, FlushKeeps, DropKeeps
  (* Another connection's step, and those of the tables alone. *)
  <1>7. ASSUME NEW c \in Conns, c # d,
               \/ \E v \in Volumes : MountVolume(c, v)
               \/ \E m \in DOMAIN mount :
                    Attach(c, m) \/ Unmount(c, m) \/ Detach(c, m) \/ OpenWrite(c, m)
               \/ FlushChunk(c) \/ CloseWrite(c) \/ Reopen(c)
        PROVE  cipher'[d] = cipher[d] /\ mine'[d] = mine[d] /\ writer'[d] = writer[d]
    <2>1. ASSUME NEW v \in Volumes, MountVolume(c, v)
          PROVE  cipher'[d] = cipher[d] /\ mine'[d] = mine[d] /\ writer'[d] = writer[d]
      BY <1>7, <2>1 DEF MountVolume, TypeOK
    <2>2. ASSUME NEW m \in DOMAIN mount, Attach(c, m) \/ Unmount(c, m) \/ Detach(c, m)
          PROVE  cipher'[d] = cipher[d] /\ mine'[d] = mine[d] /\ writer'[d] = writer[d]
      BY <1>7, <2>2 DEF Attach, Unmount, Detach, TypeOK
    <2>3. ASSUME NEW m \in DOMAIN mount, OpenWrite(c, m)
          PROVE  cipher'[d] = cipher[d] /\ mine'[d] = mine[d] /\ writer'[d] = writer[d]
      BY <1>7, <2>3 DEF OpenWrite, TypeOK
    <2>4. CASE FlushChunk(c) \/ CloseWrite(c) \/ Reopen(c)
      BY <1>7, <2>4 DEF FlushChunk, CloseWrite, Reopen, TypeOK
    <2> QED
      BY <1>7, <2>1, <2>2, <2>3, <2>4
  <1>8. ASSUME NEW c \in Conns, NEW m \in DOMAIN mount,
               Lock(c, m) \/ Unlock(c, m) \/ RenewLock(c, m) \/ RenewMount(c, m) \/ WriteAll(c, m)
        PROVE  UNCHANGED <<cipher, mine, writer>>
    BY <1>8 DEF Lock, Unlock, RenewLock, RenewMount, WriteAll, memory
  <1>9. ASSUME NEW v \in Volumes, CreateVolume(v) \/ ChangePin(v)
        PROVE  UNCHANGED <<cipher, mine, writer>>
    BY <1>9 DEF CreateVolume, ChangePin, memory
  <1>10. ASSUME Prune \/ Tick \/ UNCHANGED vars
         PROVE  UNCHANGED <<cipher, mine, writer>>
    BY <1>10 DEF Prune, Tick, memory, vars
  <1> QED
    BY <1>3, <1>4, <1>5, <1>6, <1>7, <1>8, <1>9, <1>10 DEF Next

(* What is stored: write_all and a commit under a good lock seal with the  *)
(* volume's own key, and a volume without rows has no chunk.               *)
Clean(v) == stored[v] \subseteq IF wrap[v] = Absent THEN {} ELSE {KeyOf(v)}

LEMMA CleanStep ==
  ASSUME Disciplined, TypeOK, Linked, Keyed, [Next]_vars,
         \A v \in Volumes : Clean(v)
  PROVE  \A v \in Volumes : Clean(v)'
  <1>1. CASE UNCHANGED stored
    <2>1. ASSUME NEW v \in Volumes, wrap[v] # Absent
          PROVE  Clean(v)'
      BY <1>1, <2>1, KeyForward DEF Clean
    <2>2. ASSUME NEW v \in Volumes, wrap[v] = Absent
          PROVE  Clean(v)'
      BY <1>1, <2>2 DEF Clean
    <2> QED
      BY <2>1, <2>2
  <1>2. ASSUME NEW c \in Conns, NEW m \in DOMAIN mount, WriteAll(c, m)
        PROVE  \A v \in Volumes : Clean(v)'
    <2>1. RequireMount(c, m, TRUE) /\ wrap' = wrap
          /\ stored' = [stored EXCEPT ![mount[m].vol] = @ \cup {cipher[c]}]
      BY <1>2 DEF WriteAll
    <2>2. /\ cipher[c] = KeyOf(mount[m].vol) /\ wrap[mount[m].vol] # Absent
          /\ mount[m].vol \in Volumes
      BY <2>1, ServedKey DEF Keyed
    <2> QED
      BY <2>1, <2>2 DEF Clean, KeyOf, TypeOK
  <1>3. ASSUME NEW c \in Conns, CloseWrite(c), ~UNCHANGED stored
        PROVE  \A v \in Volumes : Clean(v)'
    <2>1. /\ writer[c] # None /\ ValidLock(writer[c].lock) /\ wrap' = wrap
          /\ stored' = [stored EXCEPT ![writer[c].vol] =
                          @ \cup writer[c].seals \cup {cipher[c]}]
      BY <1>3 DEF CloseWrite, Publish
    <2>2. /\ cipher[c] = KeyOf(writer[c].vol)
          /\ writer[c].seals \subseteq {KeyOf(writer[c].vol)}
      BY <2>1 DEF Keyed, WriterKeyed
    <2>3. writer[c].vol \in Volumes /\ wrap[writer[c].vol] # Absent
      BY <2>1 DEF TypeOK, Writer, Linked
    <2> QED
      BY <2>1, <2>2, <2>3 DEF Clean, KeyOf, TypeOK
  <1>4. ASSUME NEW c \in Conns, NEW v \in Volumes, MountVolume(c, v)
        PROVE  UNCHANGED stored
    BY <1>4 DEF MountVolume
  <1>5. ASSUME NEW c \in Conns, NEW m \in DOMAIN mount,
               \/ Attach(c, m) \/ Unmount(c, m) \/ Detach(c, m) \/ RenewMount(c, m)
               \/ Lock(c, m) \/ Unlock(c, m) \/ RenewLock(c, m)
        PROVE  UNCHANGED stored
    BY <1>5 DEF Attach, Unmount, Detach, RenewMount, Lock, Unlock, RenewLock
  <1>6. ASSUME NEW c \in Conns, NEW m \in DOMAIN mount, OpenWrite(c, m)
        PROVE  UNCHANGED stored
    BY <1>6 DEF OpenWrite
  <1>7. ASSUME NEW c \in Conns, FlushChunk(c) \/ Reopen(c)
        PROVE  UNCHANGED stored
    BY <1>7 DEF FlushChunk, Reopen
  <1>8. ASSUME NEW v \in Volumes, CreateVolume(v) \/ ChangePin(v)
        PROVE  UNCHANGED stored
    BY <1>8 DEF CreateVolume, ChangePin
  <1>9. ASSUME Prune \/ Tick \/ UNCHANGED vars
        PROVE  UNCHANGED stored
    BY <1>9 DEF Prune, Tick, vars
  <1> QED
    BY <1>1, <1>2, <1>3, <1>4, <1>5, <1>6, <1>7, <1>8, <1>9 DEF Next

KInv == Keyed /\ Sealed

LEMMA KInvClean ==
  KInv <=> (\A c \in Conns : ConnOK(c)) /\ (\A v \in Volumes : Clean(v))
  BY DEF KInv, Keyed, Sealed, ConnOK, Clean

(* Every committed chunk is sealed with its own volume's key, for any      *)
(* number of volumes, connections and direct sessions, provided that a     *)
(* connection serves one volume and that a handle outside the registry     *)
(* has one mount at a time: no lapse, unmount, detach, reopening or change *)
(* of PIN in the life of a descriptor lets it commit anything else.        *)
THEOREM ChunksSealed ==
  ASSUME Disciplined
  PROVE  Spec => []Sealed
  <1>1. Init => KInv
    BY DEF Init, KInv, Keyed, KeyServed, OneMount, WriterKeyed, Sealed
  <1>2. ASSUME TypeOK, Linked, KInv, [Next]_vars
        PROVE  KInv'
    <2>1. (\A c \in Conns : ConnOK(c)') /\ (\A v \in Volumes : Clean(v)')
      BY <1>2, KeyedStep, CleanStep, KInvClean DEF KInv
    <2> QED
      BY <2>1, KInvClean DEF KInv, Keyed, Sealed, ConnOK, Clean
  <1>3. KInv => Sealed
    BY DEF KInv
  <1> QED
    BY Types, <1>1, <1>2, <1>3, PTL DEF Spec

LEMMA ServedStep ==
  ASSUME Disciplined, TypeOK, Linked, ClientsServed, [Next]_vars
  PROVE  ClientsServed'
  <1>1. SUFFICES ASSUME NEW d \in Registry
                 PROVE  \A n \in mine'[d] : cipher'[d] = KeyOf(mount[n].vol)'
    BY DEF ClientsServed
  <1>2. d \in Conns /\ mine[d] \subseteq DOMAIN mount
    BY SessionsAssumption DEF Linked
  (* A client that stays sees the volume it saw. *)
  <1>3. ASSUME NEW n \in mine[d]
        PROVE  /\ cipher[d] = KeyOf(mount[n].vol)
               /\ KeyOf(mount[n].vol)' = KeyOf(mount[n].vol)
    <2>1. n \in DOMAIN mount /\ mount'[n].vol = mount[n].vol
      BY <1>2, Forward DEF MountsForward
    <2>2. mount[n].vol \in Volumes /\ wrap[mount[n].vol] # Absent
      BY <2>1, Tables DEF MountRow, Linked
    <2>3. PICK v \in Volumes : v = mount[n].vol
      BY <2>2
    <2>4. KeyOf(v)' = KeyOf(v)
      BY <2>2, <2>3, KeyForward
    <2> QED
      BY <2>1, <2>3, <2>4 DEF ClientsServed, KeyOf
  <1>4. CASE cipher'[d] = cipher[d] /\ mine'[d] \subseteq mine[d]
    BY <1>3, <1>4
  <1>5. CASE mine'[d] = {}
    BY <1>5
  <1>6. ASSUME NEW v \in Volumes, MountVolume(d, v)
        PROVE  \A n \in mine'[d] : cipher'[d] = KeyOf(mount[n].vol)'
    <2>1. /\ v \in Serves[d] /\ cipher'[d] = KeyOf(v) /\ wrap' = wrap
          /\ mine'[d] = mine[d] \cup {Len(mount) + 1}
      BY <1>2, <1>6 DEF MountVolume, TypeOK
    <2>2. \A n \in mine[d] : mount'[n].vol = v
      <3>1. \A n \in mine[d] : mount[n].vol \in Serves[d]
        BY <1>2 DEF Linked
      <3>2. \A n \in mine[d] : mount'[n].vol = mount[n].vol
        BY <1>2, Forward DEF MountsForward
      <3> QED
        BY <1>2, <2>1, <3>1, <3>2 DEF Disciplined
    <2>3. mount'[Len(mount) + 1].vol = v
      <3>1. PICK row \in MountRow : mount' = Append(mount, row) /\ row.vol = v
        BY <1>6, ExpiryTimes DEF MountVolume, MountRow
      <3>2. Len(mount) < MaxMounts
        BY <1>6 DEF MountVolume
      <3> QED
        BY <3>1, <3>2, MountAppend
    <2> QED
      BY <2>1, <2>2, <2>3 DEF KeyOf
  <1>7. ASSUME NEW c \in Conns, NEW v \in Volumes, c # d, MountVolume(c, v)
        PROVE  cipher'[d] = cipher[d] /\ mine'[d] \subseteq mine[d]
    BY <1>2, <1>7 DEF MountVolume, TypeOK
  <1>8. ASSUME NEW c \in Conns, NEW m \in DOMAIN mount, Detach(c, m) \/ Unmount(c, m) \/ Attach(c, m)
        PROVE  mine'[d] = {} \/ (cipher'[d] = cipher[d] /\ mine'[d] \subseteq mine[d])
    <2>1. CASE Detach(c, m)
      <3>1. CASE c = d
        BY <1>2, <2>1, <3>1 DEF Detach, TypeOK
      <3>2. CASE c # d
        BY <1>2, <2>1, <3>2 DEF Detach, TypeOK
      <3> QED
        BY <3>1, <3>2
    <2>2. CASE Unmount(c, m) \/ Attach(c, m)
      <3>1. c # d
        BY <2>2 DEF Unmount, Attach
      <3>2. cipher'[d] = cipher[d] /\ mine'[d] = mine[d]
        BY <1>2, <2>2, <3>1 DEF Unmount, Attach, TypeOK
      <3> QED
        BY <3>2
    <2> QED
      BY <1>8, <2>1, <2>2
  <1>9. ASSUME NEW c \in Conns, Reopen(c)
        PROVE  mine'[d] = {} \/ (cipher'[d] = cipher[d] /\ mine'[d] \subseteq mine[d])
    BY <1>2, <1>9 DEF Reopen, TypeOK
  <1>10. ASSUME NEW c \in Conns, FlushChunk(c) \/ CloseWrite(c)
         PROVE  UNCHANGED <<cipher, mine>>
    BY <1>10 DEF FlushChunk, CloseWrite
  <1>11. ASSUME NEW c \in Conns, NEW m \in DOMAIN mount,
               \/ Lock(c, m) \/ Unlock(c, m) \/ RenewLock(c, m) \/ RenewMount(c, m)
               \/ WriteAll(c, m) \/ OpenWrite(c, m)
         PROVE  UNCHANGED <<cipher, mine>>
    BY <1>11 DEF Lock, Unlock, RenewLock, RenewMount, WriteAll, OpenWrite, memory
  <1>12. ASSUME NEW v \in Volumes, CreateVolume(v) \/ ChangePin(v)
         PROVE  UNCHANGED <<cipher, mine>>
    BY <1>12 DEF CreateVolume, ChangePin, memory
  <1>13. ASSUME Prune \/ Tick \/ UNCHANGED vars
         PROVE  UNCHANGED <<cipher, mine>>
    BY <1>13 DEF Prune, Tick, memory, vars
  <1> QED
    BY <1>4, <1>5, <1>6, <1>7, <1>8, <1>9, <1>10, <1>11, <1>12, <1>13 DEF Next

(* The clients that share a direct session keep the key of their volume    *)
(* whichever of them comes or goes, although unmount takes the key of the  *)
(* connection away and only the registry puts it back.                     *)
THEOREM ClientsKeepKey ==
  ASSUME Disciplined
  PROVE  Spec => []ClientsServed
  <1>1. Init => ClientsServed
    BY SessionsAssumption DEF Init, ClientsServed
  <1>2. ASSUME TypeOK, Linked, ClientsServed, [Next]_vars
        PROVE  ClientsServed'
    BY <1>2, ServedStep
  <1> QED
    BY Types, <1>1, <1>2, PTL DEF Spec
====
