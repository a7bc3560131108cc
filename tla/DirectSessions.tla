---- MODULE DirectSessions ----
(***************************************************************************)
(* Direct sessions of the manager (manager/engine/direct.py): one engine   *)
(* connection per unlocked volume, shared by its clients, each with a      *)
(* mount row and a token of its own.  The registry's lock guards the map   *)
(* from volumes to sessions; a session's lock is held by whoever uses its  *)
(* connection.  Requests of WebDAV and S3 (manager/dav.py, s3.py) unlock    *)
(* and attach by themselves and go on to use the session.                   *)
(***************************************************************************)
EXTENDS VolumeStore

CONSTANTS Entries,     \* identities of sessions
          Web,         \* the client as which WebDAV and S3 hold their mounts
          CookieAuth   \* ALOELITE_AUTH=cookie: the clients of an encrypted
                       \* volume each prove the PIN

VARIABLES
  sessions,  \* DirectSessionRegistry._sessions: volume -> entry or None
  entry,     \* the DirectSession objects
  held,      \* client -> the session its latest token belongs to, or None
  pins       \* _PinCache: volume -> the session of the token WebDAV keeps for
             \* its PIN, or None

dirVars == <<sessions, entry, held, pins>>

ASSUME WebAssumption == Web \notin Callers \cup {None, Main}
ASSUME EntryAssumption == None \notin Entries

(* The client a request mounts as.                                         *)
Who(q) == IF call[q].op \in {"dav", "s3"} THEN Web ELSE q

Gated(rec) == CookieAuth /\ rec.encrypted

(* DirectSession.clients holds a mount for each token: clients are those   *)
(* whose latest token is in it, older those of whom it has earlier ones,   *)
(* which nobody presents again.                                            *)
NoEntry == [st |-> "free", vol |-> None, fs |-> None, clients |-> {}, older |-> {},
            user |-> None, gone |-> FALSE]

(* Those who have a mount in session e.                                    *)
Holders(e) == entry[e].clients \cup entry[e].older

SpareEntry(e) == /\ entry[e].st \in {"free", "closed"}
                 /\ entry[e].user = None
                 /\ \A q \in DOMAIN call : e \notin {call[q].on, call[q].tok}
                 /\ \A q \in Callers : held[q] # e
                 /\ \A v \in Volumes : e \notin {sessions[v], pins[v]}

(* Identities are alike, so which spare one a new session gets is fixed.   *)
NextEntry(e) == SpareEntry(e) /\ e = CHOOSE d \in Entries : SpareEntry(d)

HasDirectRow(v) ==
  \E e \in Entries : entry[e].st = "open" /\ entry[e].vol = v /\ Holders(e) # {}

Free(e) == entry[e].user = None
Close(e) == entry' = [entry EXCEPT ![e].st = "closed"]

---------------------------------------------------------------------------
(* unlock and attach                                                       *)

(* The route asks whether the volume is unlocked and takes one of two ways *)
(* in; unlock asks again.                                                  *)
Route(q) ==
  /\ At(q, "route")
  /\ LET v == call[q].vid IN
     \/ /\ sessions[v] = None
        /\ Goto(q, "open")
     \/ /\ sessions[v] # None
        /\ IF Gated(call[q].rec)
           THEN call' = [call EXCEPT ![q].pc = "attach", ![q].on = sessions[v]]
           ELSE End(q)
  /\ UNCHANGED <<dirVars, storeVars>>

(* AlreadyMounted: WebDAV attaches instead, on a plain volume it and S3 go  *)
(* on with the session that is there.                                      *)
AfterAlready(q) ==
  CASE call[q].op = "unlock" -> "idle"
    [] call[q].op \in {"dav", "s3"} /\ ~call[q].rec.encrypted -> "unlocked"
    [] OTHER -> "again"

Already(q) == IF AfterAlready(q) = "idle" THEN End(q)
              ELSE call' = [call EXCEPT ![q].pc = AfterAlready(q), ![q].on = None]

Lost(q) == sessions[call[q].vid] # None /\ Already(q)

(* A connection of its own and the engine mount, outside every lock; a     *)
(* wrong PIN closes the connection.                                        *)
Open(q) ==
  /\ At(q, "open")
  /\ LET c == call[q] IN
     \/ /\ PathKnown(q)
        /\ \E e \in {d \in Entries : NextEntry(d)} :
             /\ entry' = [entry EXCEPT ![e] = [NoEntry EXCEPT !.st = "open",
                            !.vol = c.vid, !.fs = c.rec.fs, !.clients = {Who(q)}]]
             /\ call' = [call EXCEPT ![q].pc = "install", ![q].on = e]
        /\ files' = files \cup {c.rec.fs}
     \/ Lost(q) /\ UNCHANGED <<entry, files>>
     \/ End(q) /\ UNCHANGED <<entry, files>>
  /\ UNCHANGED <<sessions, held, pins, volumes, filesystems, pending>>

(* The token of a mount of session e goes to the client that asked, or to  *)
(* WebDAV, which will keep that of an encrypted volume.                    *)
Given(q, e) ==
  IF call[q].op = "unlock"
  THEN held' = [held EXCEPT ![q] = e] /\ Goto(q, "unlocked")
  ELSE /\ call' = [call EXCEPT ![q].pc = IF call[q].rec.encrypted THEN "cache" ELSE "unlocked",
                               ![q].tok = e]
       /\ UNCHANGED held

(* variant: the loser of two unlocks forgets its connection (NoLeakedSession) *)
InstallForgetful(q) ==
  /\ At(q, "install")
  /\ LET v == call[q].vid IN
     IF sessions[v] # None
     THEN Already(q) /\ UNCHANGED <<sessions, held>>
     ELSE sessions' = [sessions EXCEPT ![v] = call[q].on] /\ Given(q, call[q].on)
  /\ UNCHANGED <<entry, pins, storeVars>>

(* Whoever comes second unmounts and closes what it opened.                *)
Install(q) ==
  /\ At(q, "install")
  /\ LET v == call[q].vid  e == call[q].on IN
     IF sessions[v] # None
     THEN Close(e) /\ Already(q) /\ UNCHANGED <<sessions, held>>
     ELSE sessions' = [sessions EXCEPT ![v] = e] /\ Given(q, e) /\ UNCHANGED entry
  /\ UNCHANGED <<pins, storeVars>>

(* variant: the session is not looked up again (UsesLiveSession) *)
StillThereOnce(q) == TRUE

(* attach looks the session up (in Route), waits for its lock and looks    *)
(* again before it mounts.                                                 *)
StillThere(q) == sessions[call[q].vid] = call[q].on

Attach(q) ==
  /\ At(q, "attach")
  /\ LET e == call[q].on IN
     /\ Free(e)
     /\ \/ /\ StillThere(q)
           /\ entry' = [entry EXCEPT ![e].clients = @ \cup {Who(q)},
                                     ![e].older = @ \cup (entry[e].clients \cap {Who(q)})]
           /\ Given(q, e)
        \/ End(q) /\ UNCHANGED <<entry, held>>
  /\ UNCHANGED <<sessions, pins, storeVars>>

(* WebDAV and S3 mark a volume as mounted by looking at their own copy.     *)
Marked(rec) == rec.mounted /\ rec.frontend = "direct"

(* The put after an unlock or an attach; WebDAV and S3 go on.              *)
Unlocked(q) ==
  /\ At(q, "unlocked")
  /\ IF Who(q) = Web /\ Marked(call[q].rec)
     THEN UNCHANGED storeVars
     ELSE Put(call[q].vid, [call[q].rec EXCEPT !.mounted = TRUE, !.mountpoint = None,
                                               !.frontend = "direct"])
  /\ IF Who(q) = Web THEN Goto(q, "seek") ELSE End(q)
  /\ UNCHANGED dirVars

---------------------------------------------------------------------------
(* WebDAV and S3 requests                                                  *)

(* A plain volume is unlocked by the first request; for an encrypted one   *)
(* the token kept for the PIN is used while the volume is unlocked, be it  *)
(* by another session than the token's.                                    *)
DavToken(q) ==
  /\ At(q, "dav")
  /\ LET v == call[q].vid IN
     IF call[q].rec.encrypted
     THEN call' = [call EXCEPT ![q].pc = "kept", ![q].tok = pins[v]]
     ELSE Goto(q, IF sessions[v] = None THEN "open" ELSE "seek")
  /\ UNCHANGED <<dirVars, storeVars>>

DavKept(q) ==
  /\ At(q, "kept")
  /\ LET v == call[q].vid  tok == call[q].tok IN
     IF tok # None /\ sessions[v] # None
     THEN Goto(q, "seek") /\ UNCHANGED pins
     ELSE /\ pins' = IF tok # None THEN [pins EXCEPT ![v] = None] ELSE pins
          /\ call' = [call EXCEPT ![q].pc = IF sessions[v] = None THEN "open" ELSE "again",
                                  ![q].tok = None]
  /\ UNCHANGED <<sessions, entry, held, storeVars>>

DavAgain(q) ==
  /\ At(q, "again")
  /\ LET v == call[q].vid IN
     IF sessions[v] = None THEN End(q)
     ELSE call' = [call EXCEPT ![q].pc = "attach", ![q].on = sessions[v]]
  /\ UNCHANGED <<dirVars, storeVars>>

DavCache(q) ==
  /\ At(q, "cache")
  /\ pins' = [pins EXCEPT ![call[q].vid] = call[q].tok]
  /\ Goto(q, "unlocked")
  /\ UNCHANGED <<sessions, entry, held, storeVars>>

(* S3 has no PIN: it cannot unlock an encrypted volume.                    *)
S3Session(q) ==
  /\ At(q, "s3")
  /\ IF sessions[call[q].vid] # None THEN Goto(q, "unlocked")
     ELSE IF call[q].rec.encrypted THEN End(q)
     ELSE Goto(q, "open")
  /\ UNCHANGED <<dirVars, storeVars>>

---------------------------------------------------------------------------
(* detach and lock                                                         *)

KnownClient(q, e) == held[q] = e /\ q \in entry[e].clients

(* detach looks up first, then holds the session's lock for the rest, and  *)
(* does not look again: after a lock() it finds a closed connection.       *)
Detaching(q) ==
  /\ At(q, "detaching")
  /\ LET v == call[q].vid IN
     IF sessions[v] = None THEN End(q)
     ELSE call' = [call EXCEPT ![q].pc = "detach", ![q].on = sessions[v]]
  /\ UNCHANGED <<dirVars, storeVars>>

Detach(q) ==
  /\ At(q, "detach")
  /\ LET e == call[q].on  v == call[q].vid  rest == entry[e].clients \ {q} IN
     /\ Free(e)
     /\ IF ~KnownClient(q, e)
        THEN End(q) /\ UNCHANGED <<sessions, entry>>
        ELSE IF rest \cup entry[e].older # {}
        THEN /\ entry' = [entry EXCEPT ![e].clients = rest]
             /\ End(q)
             /\ UNCHANGED sessions
        ELSE /\ entry' = [entry EXCEPT ![e].clients = {}, ![e].st = "closed"]
             /\ sessions' = IF sessions[v] = e THEN [sessions EXCEPT ![v] = None]
                                               ELSE sessions
             /\ Goto(q, "clear")
  /\ UNCHANGED <<held, pins, storeVars>>

(* lock drops the session from the map, then waits for the operation in    *)
(* flight and closes.                                                      *)
PopSession(q) ==
  /\ At(q, "pop")
  /\ LET v == call[q].vid IN
     \/ /\ sessions[v] # None
        /\ sessions' = [sessions EXCEPT ![v] = None]
        /\ call' = [call EXCEPT ![q].pc = "lockclose", ![q].on = sessions[v]]
     \/ /\ sessions[v] = None
        /\ IF call[q].op = "delete" THEN Goto(q, "reread") ELSE End(q)
        /\ UNCHANGED sessions
  /\ UNCHANGED <<entry, held, pins, storeVars>>

LockClose(q) ==
  /\ At(q, "lockclose")
  /\ Free(call[q].on)
  /\ Close(call[q].on)
  /\ Goto(q, IF call[q].op = "delete" THEN "reread" ELSE "clear")
  /\ UNCHANGED <<sessions, held, pins, storeVars>>

---------------------------------------------------------------------------
(* session: an operation on the volume's files                             *)

Seek(q) ==
  /\ At(q, "seek")
  /\ LET v == call[q].vid IN
     IF sessions[v] = None THEN End(q)
     ELSE call' = [call EXCEPT ![q].pc = "enter", ![q].on = sessions[v]]
  /\ UNCHANGED <<dirVars, storeVars>>

(* WebDAV passes a token for an encrypted volume, S3 never does.           *)
Permitted(q, e) ==
  CASE call[q].op = "dav" -> call[q].rec.encrypted => call[q].tok = e
    [] call[q].op = "s3"  -> TRUE
    [] OTHER              -> Gated(call[q].rec) => KnownClient(q, e)

(* Under the session's lock the session is looked up again and the token   *)
(* compared; without one the primary mount is used.                        *)
Enter(q) ==
  /\ At(q, "enter")
  /\ LET e == call[q].on IN
     /\ Free(e)
     /\ IF StillThere(q) /\ Permitted(q, e)
        THEN entry' = [entry EXCEPT ![e].user = q] /\ Goto(q, "using")
        ELSE End(q) /\ UNCHANGED entry
  /\ UNCHANGED <<sessions, held, pins, storeVars>>

(* variant: an operation that ends keeps the session's lock (Settles) *)
LeaveLocked(q) ==
  /\ At(q, "using")
  /\ End(q)
  /\ UNCHANGED <<dirVars, storeVars>>

Leave(q) ==
  /\ At(q, "using")
  /\ entry' = [entry EXCEPT ![call[q].on].user = None]
  /\ End(q)
  /\ UNCHANGED <<sessions, held, pins, storeVars>>

====
