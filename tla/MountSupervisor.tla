---- MODULE MountSupervisor ----
(***************************************************************************)
(* FUSE mounts of the manager (manager/engine/supervisor.py): a table of   *)
(* daemon threads by mountpoint, each running aloelite.fuse.fuse_main,     *)
(* and the requests that start, await, stop and join them.                 *)
(***************************************************************************)
EXTENDS VolumeStore, SequencesExt

CONSTANTS Threads,      \* thread identities
          FuseExits     \* may a FUSE session end by itself (fusermount3 -u)?

VARIABLES
  table,    \* MountSupervisor._threads: mountpoint -> thread or None
  thread,   \* the FUSE threads
  stack,    \* the kernel's mounts at each mountpoint, topmost first;
            \* None is the dead endpoint of a process that is gone
  left      \* per volume, the rw mount rows a dead process left behind:
            \* "ttl" until they expire, "forever" if they carry no expiry

ASSUME ThreadAssumption == None \notin Threads

supVars == <<table, thread, stack, left>>

NoThread == [st |-> "free", vol |-> None, fs |-> None, at |-> None,
             stop |-> FALSE, gone |-> FALSE]

(* A thread that ended and that nobody refers to is a fresh identity.      *)
Spare(t) == /\ thread[t].st \in {"free", "dead"}
            /\ \A m \in Mountpoints : table[m] # t
            /\ \A q \in DOMAIN call : call[q].on # t

(* Identities are alike, so which spare one a new thread gets is fixed.    *)
NextThread(t) == Spare(t) /\ t = CHOOSE u \in Threads : Spare(u)

HasRow(t) == thread[t].st \in {"admitted", "serving"}

(* _is_fuse_active: the mountpoint is on another device than its parent;   *)
(* stat fails on a dead endpoint.                                          *)
Active(m) == stack[m] # <<>> /\ Head(stack[m]) # None
DeadEnd(m) == stack[m] # <<>> /\ Head(stack[m]) = None

(* fusermount3 -uz detaches the topmost mount, whoever made it.            *)
LazyUnmount(m) ==
  stack' = [stack EXCEPT ![m] = IF @ = <<>> THEN @ ELSE Tail(@)]

---------------------------------------------------------------------------
(* mount                                                                   *)

(* The reservation, under the table's lock: makedirs fails on a dead       *)
(* endpoint, a mountpoint in the table is refused.                         *)
Reserve(q) ==
  /\ At(q, "reserve")
  /\ LET c == call[q] IN
     IF PathKnown(q) /\ table[c.at] = None /\ ~DeadEnd(c.at)
     THEN \E t \in {u \in Threads : NextThread(u)} :
            /\ table' = [table EXCEPT ![c.at] = t]
            /\ thread' = [thread EXCEPT ![t] = [NoThread EXCEPT !.st = "new",
                            !.vol = c.vid, !.fs = c.rec.fs, !.at = c.at]]
            /\ call' = [call EXCEPT ![q].pc = "await", ![q].on = t]
     ELSE End(q) /\ UNCHANGED <<table, thread>>
  /\ UNCHANGED <<stack, left, storeVars>>

(* _await_ready: an exit is noticed first, then readiness, then the        *)
(* deadline; readiness is a property of the mountpoint, not of the thread, *)
(* and may come just after the last probe.                                 *)
AwaitReady(q) ==
  /\ At(q, "await")
  /\ \/ thread[call[q].on].st = "dead" /\ Goto(q, "rollback")
     \/ thread[call[q].on].st # "dead" /\ Active(call[q].at) /\ Goto(q, "mounted")
     \/ thread[call[q].on].st # "dead" /\ Goto(q, "rollback")
  /\ UNCHANGED <<supVars, storeVars>>

(* The stop event of a thread that has ended tells nobody anything.        *)
Tell(t) == thread' = IF thread[t].st = "dead" THEN thread
                     ELSE [thread EXCEPT ![t].stop = TRUE]

(* variant: a mount that failed is only detached, not stopped (NoOrphanThread) *)
StopMounted(q) ==
  /\ At(q, "stop") \/ At(q, "rollback")
  /\ IF At(q, "stop") THEN Tell(call[q].on) ELSE UNCHANGED thread
  /\ LazyUnmount(call[q].at)
  /\ Goto(q, IF At(q, "stop") THEN "join" ELSE "forget")
  /\ UNCHANGED <<table, left, storeVars>>

(* Stop, unmount; then join with a timeout and forget.  The same two steps *)
(* undo a mount that failed and carry out an unmount.                      *)
Stop(q) ==
  /\ At(q, "stop") \/ At(q, "rollback")
  /\ Tell(call[q].on)
  /\ LazyUnmount(call[q].at)
  /\ Goto(q, IF At(q, "stop") THEN "join" ELSE "forget")
  /\ UNCHANGED <<table, left, storeVars>>

(* Whether the thread has ended or the join timed out, the table loses     *)
(* whatever it has at the mountpoint.                                      *)
Forget(q) ==
  /\ At(q, "forget")
  /\ table' = [table EXCEPT ![call[q].at] = None]
  /\ End(q)
  /\ UNCHANGED <<thread, stack, left, storeVars>>

(* The route's put after a mount; at startup auto_mount_all leaves the     *)
(* frontend as it finds it.                                                *)
Mounted(q) ==
  /\ At(q, "mounted")
  /\ LET c == call[q] IN
     Put(c.vid, [c.rec EXCEPT !.mounted = TRUE, !.mountpoint = c.at,
                              !.frontend = IF q = Main THEN @ ELSE "fuse",
                              !.auto = IF c.auto = None THEN @ ELSE c.auto])
  /\ End(q)
  /\ UNCHANGED supVars

---------------------------------------------------------------------------
(* unmount                                                                 *)

MountpointOf(q) == IF call[q].rec.mountpoint = None THEN call[q].vid
                   ELSE call[q].rec.mountpoint

(* An absent entry is NotMounted: 404, or for a deletion nothing to do.    *)
Lookup(q) ==
  /\ At(q, "lookup")
  /\ LET m == MountpointOf(q) IN
     \/ /\ table[m] # None
        /\ call' = [call EXCEPT ![q].pc = "stop", ![q].at = m, ![q].on = table[m]]
     \/ /\ table[m] = None
        /\ IF call[q].op = "delete" THEN Goto(q, "reread") ELSE End(q)
  /\ UNCHANGED <<supVars, storeVars>>

(* Join, drop the entry, remember a thread that outlived the timeout; the  *)
(* checkpoint that follows raises if the filesystem's record is gone.      *)
Join(q) ==
  /\ At(q, "join")
  /\ table' = [table EXCEPT ![call[q].at] = None]
  /\ IF thread[call[q].on].st = "dead" THEN UNCHANGED pending
                                       ELSE AddPending(call[q].at)
  /\ IF ~PathKnown(q) THEN End(q)
     ELSE Goto(q, IF call[q].op = "delete" THEN "reread" ELSE "clear")
  /\ UNCHANGED <<thread, stack, left, volumes, filesystems, files>>

(* The route's put after an unmount of either frontend.                    *)
Clear(q) ==
  /\ At(q, "clear")
  /\ Put(call[q].vid, Fresh(call[q].rec.fs, call[q].rec.encrypted))
  /\ End(q)

---------------------------------------------------------------------------
(* The thread: fuse_main under _thread_main.                               *)

Dies(t) == thread' = [thread EXCEPT ![t] = [NoThread EXCEPT !.st = "dead"]]

(* The engine mount: opening the path creates a file that is not there;    *)
(* admission refuses a second rw mount of the volume (held: some other     *)
(* mount row of it is valid); a wrong PIN or a busy file ends the thread.  *)
FuseMount(t, held) ==
  /\ thread[t].st = "new"
  /\ files' = files \cup {thread[t].fs}
  /\ \/ ~held /\ thread' = [thread EXCEPT ![t].st = "admitted"]
     \/ Dies(t)
  /\ UNCHANGED <<table, stack, left, volumes, filesystems, pending>>

(* pyfuse3.init, which may fail: the directory may have been removed.      *)
FuseInit(t) ==
  /\ thread[t].st = "admitted"
  /\ LET m == thread[t].at IN
     \/ /\ ~DeadEnd(m)
        /\ thread' = [thread EXCEPT ![t].st = "serving"]
        /\ stack' = [stack EXCEPT ![m] = <<t>> \o @]
     \/ Dies(t) /\ UNCHANGED stack
  /\ UNCHANGED <<table, left, storeVars>>

Attached(t) == thread[t].at # None /\ \E i \in DOMAIN stack[thread[t].at] : stack[thread[t].at][i] = t

(* main returns when _watch_stop saw the event or the mount was detached,  *)
(* or, if FuseExits, for a reason of its own; close(unmount=True) takes    *)
(* the kernel mount away if it is still there, then the engine mount ends. *)
FuseReturn(t) ==
  /\ thread[t].st = "serving"
  /\ thread[t].stop \/ ~Attached(t) \/ FuseExits
  /\ Dies(t)
  /\ \/ ~Attached(t) /\ UNCHANGED stack
     \/ \E i \in DOMAIN stack[thread[t].at] :
          /\ stack[thread[t].at][i] = t
          /\ stack' = [stack EXCEPT ![thread[t].at] = RemoveAt(@, i)]
  /\ UNCHANGED <<table, left, storeVars>>

(* A row with a ttl left by a dead process expires.                        *)
LeftExpires(v) ==
  /\ "ttl" \in left[v]
  /\ left' = [left EXCEPT ![v] = @ \ {"ttl"}]
  /\ UNCHANGED <<table, thread, stack, storeVars, call>>

====
