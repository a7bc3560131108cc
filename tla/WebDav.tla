---- MODULE WebDav ----
(***************************************************************************)
(* The WebDAV frontend (manager/dav.py) and the browser's file routes      *)
(* (manager/api.py) on one plain volume in direct mode.                    *)
(*                                                                         *)
(* A request holds the volume's session lock from its first access to its  *)
(* last, so one is in flight at a time; between its engine transactions    *)
(* run the other mount, the clock and a crash of the manager.  Each step   *)
(* below is one transaction, with what the handler decides after it.  A    *)
(* request that is refused changes nothing, and is left out.               *)
(***************************************************************************)
EXTENDS DavLocks

CONSTANT MaxEvents   \* bound: requests, crashes and steps of the other mount

VARIABLES
  req,      \* the request in flight
  cli,      \* what each WebDAV client remembers
  events    \* how many of them there were

davVars == <<dlock, req, cli>>
vars == <<treeVars, davVars, events>>

(* seen is the stat result a handler acts on, tag a validator, node what   *)
(* its descriptor is on, body the versions a download was read from, keep  *)
(* whether it continues the client's prefix; token is the one LOCK has     *)
(* acquired, deep whether that is for all below the path, or whether all   *)
(* below it was asked about.  raced says that the other mount did          *)
(* something since the request began.                                      *)
NoRequest == [pc |-> "idle", op |-> "none", who |-> None, path |-> Root, dst |-> Root,
              seen |-> None, tag |-> None, node |-> None, body |-> {}, keep |-> FALSE,
              token |-> None, deep |-> FALSE, raced |-> FALSE]

(* tag is the etag last received, part the versions of which a prefix was  *)
(* downloaded under it, sure whether nothing raced that download.          *)
NoMemory == [tag |-> None, part |-> {}, sure |-> TRUE]

At(pc) == req.pc = pc
Goto(pc) == req' = [req EXCEPT !.pc = pc]
End == req' = NoRequest

Event == events < MaxEvents /\ events' = events + 1

Begin(r) == Event /\ req' = r
Asks(c, op, pc, p) == [NoRequest EXCEPT !.pc = pc, !.op = op, !.who = c, !.path = p]

Start(r) == Begin(r) /\ UNCHANGED <<treeVars, dlock, cli>>

Continue == UNCHANGED <<now, outside, events>>

---------------------------------------------------------------------------
(* PROPFIND and HEAD: the client learns a validator.                       *)
Look(c, p) ==
  /\ IsDoc(p)
  /\ Begin(NoRequest)
  /\ cli' = [cli EXCEPT ![c] = [NoMemory EXCEPT !.tag = Content(p)]]
  /\ UNCHANGED <<treeVars, dlock>>

(* GET: stat gives size and etag; a Range that comes with an If-Range is   *)
(* honoured only if the validator is the current one.                      *)
Get(c, p, resume) ==
  /\ IsDoc(p)
  /\ resume => cli[c].part # {}
  /\ Start([Asks(c, "get", "openread", p) EXCEPT
              !.tag = Content(p), !.keep = resume /\ cli[c].tag = Content(p)])

OpenRead ==
  /\ At("openread")
  /\ IF IsDoc(req.path)
     THEN req' = [req EXCEPT !.pc = "send", !.node = tree[req.path].id]
     ELSE End
  /\ UNCHANGED <<tree, fresh, elock, dlock, cli>>
  /\ Continue

(* Each read looks up the committed version of the descriptor's node; one  *)
(* of a removed node the tree no longer tells.                             *)
Read ==
  /\ At("send")
  /\ req' = [req EXCEPT !.body = @ \cup {Content(q) : q \in {r \in Paths : IsDoc(r) /\ tree[r].id = req.node}}]
  /\ UNCHANGED <<tree, fresh, elock, dlock, cli>>
  /\ Continue

(* The body: whole, cut off after a prefix, or never asked for; the        *)
(* generator or call_on_close gives the session back in each case.         *)
Send ==
  /\ At("send")
  /\ \/ cli' = [cli EXCEPT ![req.who] = [NoMemory EXCEPT !.tag = req.tag]]
     \/ cli' = [cli EXCEPT ![req.who] =
                  [tag  |-> req.tag,
                   part |-> req.body \cup (IF req.keep THEN @.part ELSE {}),
                   sure |-> ~req.raced /\ (req.keep => @.sure)]]
     \/ UNCHANGED cli
  /\ End
  /\ UNCHANGED <<tree, fresh, elock, dlock>>
  /\ Continue

---------------------------------------------------------------------------
(* PUT, and an upload from the browser.                                    *)

(* variant: If-Match and If-None-Match are not honoured (ActsOnWhatItSaw) *)
PreconditionIgnored(c, p, cond) == TRUE

(* If-Match names the etag the client holds, If-None-Match: * wants no     *)
(* resource there.                                                         *)
Precondition(c, p, cond) ==
  CASE cond = "match" -> IsDoc(p) /\ cli[c].tag = Content(p)
    [] cond = "new"   -> ~Exists(p)
    [] OTHER          -> TRUE

Put(c, p, cond) ==
  /\ p # Root /\ ~IsDir(p)
  /\ Unlocked(c, p, FALSE)
  /\ Precondition(c, p, cond)
  /\ Start([Asks(c, "put", "openwrite", p) EXCEPT
              !.tag = IF cond = "match" THEN cli[c].tag ELSE None])

Upload(p) == Start(Asks(Browser, "upload", "openwrite", p))

(* open_write creates a missing entry and mints a lock of its own, which   *)
(* only other mounts' locks prevent.                                       *)
OpenWrite ==
  LET p == req.path IN
  /\ At("openwrite")
  /\ \/ /\ IsDoc(p) /\ ~HeldByOther("session", p)
        /\ elock' = [elock EXCEPT !["put"] = LockRow(p, "session", None)]
        /\ req' = [req EXCEPT !.pc = "receive", !.node = tree[p].id]
        /\ UNCHANGED <<tree, fresh>>
     \/ /\ MayCreate(p)
        /\ tree' = Created(p, FALSE) /\ fresh' = fresh + 1
        /\ elock' = [elock EXCEPT !["put"] = [node |-> fresh, mount |-> "session", until |-> None]]
        /\ req' = [req EXCEPT !.pc = "receive", !.node = fresh]
     \/ /\ ~(IsDoc(p) /\ ~HeldByOther("session", p)) /\ ~MayCreate(p)
        /\ End /\ UNCHANGED <<tree, fresh, elock>>
  /\ UNCHANGED <<dlock, cli>>
  /\ Continue

(* variant: the upload releases every lock of the session on its node (OutsideExcluded) *)
ReceiveUnlocking ==
  /\ At("receive")
  /\ tree' \in {WrittenNode(req.node), tree}
  /\ elock' = [l \in LockIds |->
                 IF elock[l] # None /\ elock[l].mount = "session" /\ elock[l].node = req.node
                 THEN None ELSE elock[l]]
  /\ End
  /\ UNCHANGED <<fresh, dlock, cli>>
  /\ Continue

(* The descriptor commits when the stream ends, aborts when it breaks.     *)
Receive ==
  /\ At("receive")
  /\ tree' \in {WrittenNode(req.node), tree}
  /\ elock' = [elock EXCEPT !["put"] = None]
  /\ End
  /\ UNCHANGED <<fresh, dlock, cli>>
  /\ Continue

---------------------------------------------------------------------------
(* MKCOL, and mkdir from the browser, which makes missing parents too.     *)

Mkcol(c, p) ==
  ~Exists(p) /\ Unlocked(c, p, FALSE) /\ Start(Asks(c, "mkcol", "mkdir", p))

Mkdir(p) == p # Root /\ Start(Asks(Browser, "mkdir", "mkdir", p))

Ancestors(p) == {q \in Paths : Within(p, q)}

MakeDir ==
  LET p == req.path
      missing == IF req.op = "mkdir" THEN {q \in Ancestors(p) : ~Exists(q)} ELSE {p} IN
  /\ At("mkdir")
  /\ IF ~Exists(p) /\ \A q \in Ancestors(p) \ missing : IsDir(q)
     THEN /\ tree' = [q \in Paths |-> IF q \in missing THEN Node(fresh + Len(q), TRUE, 0) ELSE tree[q]]
          /\ fresh' = fresh + Len(p) + 1
     ELSE UNCHANGED <<tree, fresh>>
  /\ End
  /\ UNCHANGED <<elock, dlock, cli>>
  /\ Continue

(* DELETE, and a deletion from the browser.                                *)
Delete(c, p, cond) ==
  /\ p # Root /\ Exists(p)
  /\ Unlocked(c, p, IsDir(p))
  /\ Precondition(c, p, cond)
  /\ Start([Asks(c, "delete", "remove", p) EXCEPT !.deep = IsDir(p)])

BrowserDelete(p) == p # Root /\ Exists(p) /\ Start(Asks(Browser, "rm", "remove", p))

Remove ==
  /\ At("remove")
  /\ tree' = IF MayRemove("session", req.path) THEN Removed(req.path) ELSE tree
  /\ End
  /\ UNCHANGED <<fresh, elock, dlock, cli>>
  /\ Continue

---------------------------------------------------------------------------
(* COPY and MOVE: an existing destination is removed first.                *)

Transfer(c, src, dst, move, overwrite) ==
  /\ src # Root /\ dst # Root /\ dst # src /\ Exists(src)
  /\ move => Unlocked(c, src, IsDir(src))
  /\ Unlocked(c, dst, FALSE)
  /\ Exists(dst) => overwrite
  /\ Start([Asks(c, IF move THEN "move" ELSE "copy", IF Exists(dst) THEN "clear" ELSE "place", src)
              EXCEPT !.dst = dst, !.deep = IsDir(src)])

(* The browser's rename or copy, onto a free name.                         *)
BrowserTransfer(src, dst, move) ==
  /\ src # Root /\ Exists(src) /\ ~Exists(dst)
  /\ Start([Asks(Browser, IF move THEN "move" ELSE "copy", "place", src) EXCEPT !.dst = dst])

Clear ==
  /\ At("clear")
  /\ IF MayRemove("session", req.dst)
     THEN tree' = Removed(req.dst) /\ Goto("place")
     ELSE End /\ UNCHANGED tree
  /\ UNCHANGED <<fresh, elock, dlock, cli>>
  /\ Continue

Place ==
  LET src == req.path  dst == req.dst IN
  /\ At("place")
  /\ \/ /\ req.op = "move" /\ MayMove("session", src, dst)
        /\ tree' = Moved(src, dst) /\ UNCHANGED fresh
     \/ /\ req.op = "copy" /\ MayPlace(src, dst)
        /\ tree' = Copied(src, dst) /\ fresh' = 2 * fresh
     \/ /\ IF req.op = "move" THEN ~MayMove("session", src, dst) ELSE ~MayPlace(src, dst)
        /\ UNCHANGED <<tree, fresh>>
  /\ End
  /\ UNCHANGED <<elock, dlock, cli>>
  /\ Continue

---------------------------------------------------------------------------
(* PROPPATCH: the metadata is replaced whole, from what stat returned.     *)
Proppatch(c, p) ==
  /\ Exists(p)
  /\ Unlocked(c, p, FALSE)
  /\ Start([Asks(c, "proppatch", "setmeta", p) EXCEPT !.seen = tree[p]])

SetMetadata ==
  LET p == req.path IN
  /\ At("setmeta")
  /\ tree' = IF Exists(p) /\ ~HeldByOther("session", p)
             THEN [tree EXCEPT ![p].mode = req.seen.mode, ![p].dead = 1 - req.seen.dead]
             ELSE tree
  /\ End
  /\ UNCHANGED <<fresh, elock, dlock, cli>>
  /\ Continue

---------------------------------------------------------------------------
(* LOCK: an unmapped URL becomes an empty entry; then the registry; then,  *)
(* for an entry, the engine, whose refusal gives the token back.  If the   *)
(* entry is gone by then, the token stays with nobody.                     *)
Lock(c, p, deep) ==
  /\ \E t \in Tokens : dlock[t] = None
  /\ Begin([Asks(c, IF IsDir(p) THEN "lockdir" ELSE "lockdoc", "acquire", p) EXCEPT !.deep = deep])
  /\ \/ Exists(p) /\ UNCHANGED <<tree, fresh>>
     \/ MayCreate(p) /\ tree' = Created(p, FALSE) /\ fresh' = fresh + 1
  /\ UNCHANGED <<elock, now, outside, dlock, cli>>

Acquire ==
  /\ At("acquire")
  /\ \/ /\ Conflict(req.path, req.deep)
        /\ End /\ UNCHANGED dlock
     \/ \E t \in Tokens :
          /\ dlock[t] = None /\ ~Conflict(req.path, req.deep)
          /\ dlock' = Acquired(t, req.who, req.path, req.deep)
          /\ IF req.op = "lockdir" THEN End ELSE req' = [req EXCEPT !.pc = "enginelock", !.token = t]
  /\ UNCHANGED <<tree, fresh, elock, cli>>
  /\ Continue

(* The engine's lock lasts as long as the token's, from here on.           *)
LockEngine ==
  LET t == req.token  p == req.path IN
  /\ At("enginelock")
  /\ \/ /\ Exists(p) /\ ~AnyLock(p)
        /\ dlock' = Backed(t, tree[p].id)
        /\ elock' = [elock EXCEPT ![t] = LockRow(p, "session", now + Timeout)]
     \/ Exists(p) /\ AnyLock(p) /\ dlock' = Released(t) /\ UNCHANGED elock
     \/ ~Exists(p) /\ dlock' = Abandoned(t) /\ UNCHANGED elock
  /\ End
  /\ UNCHANGED <<tree, fresh, cli>>
  /\ Continue

(* LOCK without a body: the registry's time is extended, the engine's not. *)
Refresh(c, t) ==
  /\ Live(t) /\ dlock[t].owner = c
  /\ Begin(NoRequest)
  /\ dlock' = Refreshed(t)
  /\ UNCHANGED <<treeVars, cli>>

(* variant: only the registry forgets the token (EngineLocksOwned) *)
UnlockToken(c, t) ==
  /\ Live(t) /\ dlock[t].owner = c
  /\ Begin(NoRequest)
  /\ dlock' = Released(t)
  /\ UNCHANGED <<treeVars, cli>>

(* UNLOCK: the registry, then the engine; an engine lock that has lapsed   *)
(* is let be.                                                              *)
Unlock(c, t) ==
  /\ Live(t) /\ dlock[t].owner = c
  /\ Begin(NoRequest)
  /\ dlock' = Released(t)
  /\ elock' = IF Valid(t) /\ elock[t].mount = "session" THEN [elock EXCEPT ![t] = None] ELSE elock
  /\ UNCHANGED <<tree, fresh, now, outside, cli>>

---------------------------------------------------------------------------
(* A crash of the manager: the registry is gone, the old session's mount   *)
(* and its locks stay in the file, and the next session is a new mount.    *)
Crash ==
  /\ Event
  /\ dlock' = [t \in Tokens |-> IF dlock[t] = None THEN None ELSE [dlock[t] EXCEPT !.st = "gone"]]
  /\ elock' = [l \in LockIds |->
                 CASE l = "put" -> None
                   [] l = "left" /\ elock["put"] # None -> [elock["put"] EXCEPT !.mount = "lost"]
                   [] l \in Tokens /\ elock[l] # None -> [elock[l] EXCEPT !.mount = "lost"]
                   [] OTHER -> elock[l]]
  /\ req' = NoRequest
  /\ UNCHANGED <<tree, fresh, now, outside, cli>>

(* Names stay unique: the other mount does not take the name that the      *)
(* request in flight found free, or made free, and will take.              *)
Taking == IF At("mkdir") THEN {req.path}
          ELSE IF At("clear") \/ At("place") THEN {req.dst} ELSE {}

Outside ==
  /\ Event /\ OutsideStep
  /\ \A p \in Taking : Exists(p)' => Exists(p)
  /\ req' = IF At("idle") THEN req ELSE [req EXCEPT !.raced = TRUE]
  /\ UNCHANGED <<dlock, cli>>

Time == Tick /\ UNCHANGED <<davVars, events>>

Request ==
  /\ At("idle") /\ events < MaxEvents
  /\ \/ \E c \in Clients, p \in Paths :
         \/ Look(c, p) \/ Mkcol(c, p) \/ Proppatch(c, p)
         \/ \E resume \in BOOLEAN : Get(c, p, resume)
         \/ \E cond \in {"any", "match", "new"} : Put(c, p, cond)
         \/ \E cond \in {"any", "match"} : Delete(c, p, cond)
         \/ \E dst \in Paths, move, overwrite \in BOOLEAN : Transfer(c, p, dst, move, overwrite)
         \/ \E deep \in BOOLEAN : Lock(c, p, deep)
     \/ \E c \in Clients, t \in Tokens : Refresh(c, t) \/ Unlock(c, t)
     \/ \E p \in Paths :
         \/ Upload(p) \/ Mkdir(p) \/ BrowserDelete(p)
         \/ \E dst \in Paths, move \in BOOLEAN : BrowserTransfer(p, dst, move)

Proceed ==
  \/ OpenRead \/ Read \/ Send \/ OpenWrite \/ Receive \/ MakeDir \/ Remove
  \/ Clear \/ Place \/ SetMetadata \/ Acquire \/ LockEngine

Init ==
  /\ TreeInit
  /\ dlock = [t \in Tokens |-> None]
  /\ req = NoRequest
  /\ cli = [c \in Clients |-> NoMemory]
  /\ events = 0

Next == Request \/ Proceed \/ Outside \/ Time \/ Crash

Spec == Init /\ [][Next]_vars

---------------------------------------------------------------------------
(* Properties                                                              *)

TypeOK ==
  /\ \A p \in Paths : Exists(p) => tree[p].id \in 1..(fresh - 1)
  /\ \A p \in Paths \ {Root} : Exists(p) => IsDir(Parent(p))
  /\ \A p, q \in Paths : Exists(p) /\ Exists(q) /\ p # q => tree[p].id # tree[q].id
  /\ \A t \in Tokens : dlock[t] = None \/ dlock[t] \in DavLock
  /\ \A l \in LockIds : elock[l] = None \/ elock[l].mount \in {"session", "lost", "outside"}

(* What a request had asked about, of what it changes: not the descendants *)
(* of an overwritten destination (_do_copy_move), nor those of what was an *)
(* entry when it asked and is a container by now, nor the place to which   *)
(* the entry of an upload was moved under it.                              *)
AskedAbout(p) ==
  /\ req.op \in {"copy", "move"} => p = req.dst \/ ~Within(p, req.dst)
  /\ req.op \in {"delete", "move"} /\ ~req.deep => p = req.path \/ ~Within(p, req.path)
  /\ At("receive") => p = req.path

(* _require_unlocked: while a client holds a lock, no request of another   *)
(* WebDAV client changes a resource the lock governs, through whichever    *)
(* path it comes, as far as it asked about it.  The empty entry LOCK makes *)
(* before it is refused is excepted.                                       *)
LockedKept ==
  [][tree' # tree /\ outside' = outside /\ req.who \in Clients =>
       \A t \in Tokens, p \in Paths :
         Live(t) /\ Covers(t, p) /\ req.who # dlock[t].owner /\ AskedAbout(p)
           => tree'[p] = tree[p]]_vars

(* The node at p is what it was, under the same name in the same container. *)
Undisturbed(p) ==
  \E q \in Paths :
    /\ tree'[q] = tree[p]
    /\ q = p \/ (q[Len(q)] = p[Len(p)] /\ tree'[Parent(q)].id = tree[Parent(p)].id)

(* _do_lock: an entry locked by a WebDAV client and not refreshed since is *)
(* neither written, removed, moved nor renamed by the other mount until    *)
(* the token expires or is released, whatever uploads, moves and copies    *)
(* the manager's clients make meanwhile; all the other mount can do is to  *)
(* move a container above it.                                              *)
OutsideExcluded ==
  [][outside' # outside =>
       \A t \in Tokens, p \in Paths :
         Live(t) /\ ~dlock[t].refreshed /\ Exists(p) /\ tree[p].id = dlock[t].node
           => Undisturbed(p)]_vars

(* _do_lock, _do_unlock, _do_put: a lock of the session that is in force   *)
(* belongs to a token that was not released, and outlasts it by no more    *)
(* than LOCK took from the one to the other; or it belongs to the upload   *)
(* in progress.  None stays after a broken upload, to wedge the node.      *)
EngineLocksOwned ==
  \A l \in LockIds : Valid(l) /\ elock[l].mount = "session" =>
    \/ l \in Tokens /\ Unreleased(l) /\ now < dlock[l].until + dlock[l].lag
    \/ l = "put" /\ At("receive")

(* _check_preconditions, _do_get, _do_proppatch: a request nothing raced   *)
(* acts on what it checked.  An If-Match upload replaces the version its   *)
(* client saw; a download resumed with If-Range continues the version its  *)
(* prefix came from; a PROPPATCH changes no mode, which belongs to the     *)
(* FUSE frontend.                                                          *)
ActsOnWhatItSaw ==
  [][~req.raced /\ outside' = outside =>
       /\ At("receive") /\ tree' # tree /\ req.tag # None => Content(req.path) = req.tag
       /\ At("send") /\ req.keep /\ cli[req.who].sure => req.body \subseteq cli[req.who].part
       /\ At("setmeta") => \A p \in Paths : Exists(p) => tree'[p].mode = tree[p].mode]_vars

====
