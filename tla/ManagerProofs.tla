---- MODULE ManagerProofs ----
(***************************************************************************)
(* For any volumes, clients, threads and sessions: an operation runs on a  *)
(* live session, no open connection is lost, no FUSE thread is orphaned    *)
(* where clients wait for one another, and a manager that begins to serve  *)
(* has a thread for every record that says mounted.                        *)
(***************************************************************************)
EXTENDS Manager, SequenceTheorems, TLAPS

---------------------------------------------------------------------------
(* Types.  The steps of a call at which it refers to a session, or to a    *)
(* FUSE thread and its mountpoint.                                         *)

EntryPcs == {"install", "attach", "detach", "lockclose", "enter", "using"}
ThreadPcs == {"await", "rollback", "forget", "mounted", "stop", "join"}
MainPcs == {"idle", "reserve", "await", "rollback", "forget", "mounted"}
PCs == EntryPcs \cup ThreadPcs \cup MainPcs
       \cup {"route", "open", "again", "cache", "unlocked", "dav", "kept", "s3",
             "detaching", "pop", "seek", "lookup", "clear", "reread", "drop",
             "retire", "unlink", "putfs", "recordfs", "record"}

Ops == {"none", "mount", "unlock", "unmount", "delete", "files", "dav", "s3",
        "create", "rename"}

Call == [pc: PCs, op: Ops, vid: Volumes \cup {None}, rec: VolumeRecord \cup {None},
         at: Mountpoints \cup {None}, on: Entries \cup Threads \cup {None},
         tok: Entries \cup {None}, auto: Mountpoints \cup {None}]

(* A record marked mounted through FUSE says where.                        *)
Placed(r) == r.mounted /\ r.frontend # "direct" => r.mountpoint # None

Refers(c) ==
  /\ c.pc # "idle" => c.vid \in Volumes /\ c.rec \in VolumeRecord /\ Placed(c.rec)
  /\ c.pc \in EntryPcs => c.on \in Entries
  /\ c.pc \in ThreadPcs => c.on \in Threads
  /\ c.pc \in ThreadPcs \cup {"reserve"} => c.at \in Mountpoints

(* Which operation comes to which step.                                    *)
Fits(pc, op) ==
  /\ pc \in {"route", "open", "install", "attach", "unlocked"} => op \in {"unlock", "dav", "s3"}
  /\ pc = "route" => op = "unlock"
  /\ pc \in {"again", "cache"} => op \in {"dav", "s3"}
  /\ pc \in {"dav", "kept"} => op = "dav"
  /\ pc = "s3" => op = "s3"
  /\ pc \in {"seek", "enter", "using"} => op \in {"files", "dav", "s3"}

Thread == [st: {"free", "new", "admitted", "serving", "dead"}, vol: Volumes \cup {None},
           fs: Filesystems \cup {None}, at: Mountpoints \cup {None},
           stop: BOOLEAN, gone: BOOLEAN]

Alive(t) == thread[t].st \in {"new", "admitted", "serving"}

Entry == [st: {"free", "open", "closed"}, vol: Volumes \cup {None},
          fs: Filesystems \cup {None}, clients: SUBSET (Callers \cup {Web}),
          older: SUBSET (Callers \cup {Web}),
          user: Callers \cup {None}, gone: BOOLEAN]

StoreTypes ==
  /\ volumes \in [Volumes -> VolumeRecord \cup {None}]
  /\ \A v \in Volumes : volumes[v] # None => Placed(volumes[v])
  /\ filesystems \subseteq Filesystems
  /\ files \subseteq Filesystems
  /\ pending \subseteq Mountpoints

CallTypes ==
  /\ call \in [Everybody -> Call]
  /\ \A q \in Everybody : Refers(call[q]) /\ Fits(call[q].pc, call[q].op)
  /\ call[Main].pc \in MainPcs

SupTypes ==
  /\ table \in [Mountpoints -> Threads \cup {None}]
  /\ thread \in [Threads -> Thread]
  /\ \A t \in Threads : Alive(t) => /\ thread[t].fs \in Filesystems
                                    /\ thread[t].at \in Mountpoints
  /\ stack \in [Mountpoints -> Seq(Threads \cup {None})]

DirTypes ==
  /\ sessions \in [Volumes -> Entries \cup {None}]
  /\ entry \in [Entries -> Entry]
  /\ held \in [Callers -> Entries \cup {None}]
  /\ pins \in [Volumes -> Entries \cup {None}]

ProcTypes ==
  /\ proc \in {"down", "boot", "up", "joining", "clearing", "closing"}
  /\ todo \subseteq IF proc = "closing" THEN Entries ELSE Volumes
  /\ public \in Public

(* Who is at work when: before the manager serves nobody is but the main   *)
(* thread, which mounts what is to come back; then it only waits.          *)
Booting ==
  /\ proc \in {"down", "boot"} => \A q \in Callers : At(q, "idle")
  /\ proc # "boot" => At(Main, "idle")
  /\ proc = "boot" =>
       /\ \A v \in todo : volumes[v] # None /\ volumes[v].auto # None
       /\ ~At(Main, "idle") => call[Main].rec.auto # None

TypeInv == StoreTypes /\ CallTypes /\ SupTypes /\ DirTypes /\ ProcTypes /\ Booting

---------------------------------------------------------------------------
(* Sessions: none before the manager serves; one in the registry is open,  *)
(* on its volume, and somebody's.                                          *)

Unopened == proc \in {"down", "boot"} => \A e \in Entries : entry[e].st = "free"

Registered ==
  \A v \in Volumes : sessions[v] # None =>
    /\ entry[sessions[v]].st = "open"
    /\ entry[sessions[v]].vol = v
    /\ Holders(sessions[v]) # {}

OnItsVolume(q) ==
  call[q].pc \in EntryPcs => /\ entry[call[q].on].st \in {"open", "closed"}
                             /\ entry[call[q].on].vol = call[q].vid

(* What a request opened is its own until it is installed.                 *)
Owns(q) ==
  At(q, "install") =>
    /\ entry[call[q].on].st = "open"
    /\ entry[call[q].on].clients = {Who(q)}
    /\ \A v \in Volumes : sessions[v] # call[q].on
    /\ \A p \in Everybody : p # q /\ call[p].pc \in EntryPcs => call[p].on # call[q].on

Drops(q) == At(q, "lockclose") => \A v \in Volumes : sessions[v] # call[q].on

Uses(q) ==
  At(q, "using") =>
    LET e == call[q].on IN
    /\ entry[e].user = q
    /\ entry[e].st = "open"
    /\ IF Gated(call[q].rec) /\ call[q].op # "s3" THEN Who(q) \in entry[e].clients
                                                  ELSE Holders(e) # {}

(* A token WebDAV has is of a session in which it has a mount, while that  *)
(* session is open.                                                        *)
WebToken(e) == e # None /\ entry[e].st = "open" => Web \in entry[e].clients

WebTokens == /\ \A q \in Everybody : WebToken(call[q].tok)
             /\ \A v \in Volumes : WebToken(pins[v])

(* A session the shutdown has still to close is out of everybody's reach,  *)
(* and, where the last client detached first, is not opened again.         *)
ToClose(e) ==
  /\ \A v \in Volumes : sessions[v] # e
  /\ \A q \in Everybody : call[q].pc \in {"install", "lockclose"} => call[q].on # e
  /\ \/ entry[e].st = "open"
     \/ \E q \in Callers : held[q] = e /\ call[q].pc \in {"clear", "idle"}

SessionInv ==
  /\ Unopened
  /\ Registered
  /\ \A q \in Everybody : OnItsVolume(q) /\ Owns(q) /\ Drops(q) /\ Uses(q)
  /\ WebTokens
  /\ proc = "closing" => \A e \in todo : ToClose(e)
  /\ NoLeakedSession

---------------------------------------------------------------------------
(* FUSE threads.  Where mounts, unmounts and deletions wait for one        *)
(* another, as they do at startup, the table is changed by one call only.  *)

Orderly == proc = "boot" \/ (proc = "up" /\ OneFuseCall)

TablePcs == ThreadPcs \cup {"reserve", "lookup"}

OneAtATime ==
  \A p, q \in Everybody : call[p].pc \in TablePcs /\ call[q].pc \in TablePcs => p = q

Keeps(q) == call[q].pc \in ThreadPcs => table[call[q].at] = call[q].on

Stopped(q) == call[q].pc \in {"forget", "join"} =>
                thread[call[q].on].stop \/ ~Alive(call[q].on)

Tabled == \A t \in Threads : Alive(t) /\ ~thread[t].stop => table[thread[t].at] = t

(* At startup a record says mounted only if this process mounted it.       *)
Truthful ==
  \A v \in Volumes : volumes[v] # None /\ volumes[v].mounted =>
    LET m == volumes[v].mountpoint IN
    /\ m # None
    /\ table[m] # None
    /\ call[Main].pc \in ThreadPcs => call[Main].at # m

SupInv ==
  /\ Orderly => OneAtATime /\ Tabled /\ \A q \in Everybody : Keeps(q)
  /\ \A q \in Everybody : Stopped(q)
  /\ proc = "down" => /\ \A m \in Mountpoints : ~Active(m)
                      /\ \A t \in Threads : thread[t].st = "free"
  /\ proc = "boot" => Truthful

---------------------------------------------------------------------------
(* The types are kept                                                      *)

(* It is enough to look at the call that moves.                            *)
LEMMA CallStep ==
  ASSUME CallTypes, NEW q \in Everybody,
         call' \in [Everybody -> Call],
         \A p \in Everybody : p # q => call'[p] = call[p],
         Refers(call'[q]), Fits(call'[q].pc, call'[q].op),
         q = Main => call'[q].pc \in MainPcs
  PROVE  CallTypes'
  BY DEF CallTypes, Everybody

LEMMA EndTypes ==
  ASSUME CallTypes, NEW q \in Everybody, End(q)
  PROVE  CallTypes'
<1>1. Idle \in Call /\ Refers(Idle) /\ Fits(Idle.pc, Idle.op) /\ Idle.pc \in MainPcs
  BY DEF Idle, Call, Refers, Fits, PCs, MainPcs, EntryPcs, ThreadPcs, Ops
<1> QED BY <1>1, CallStep DEF End, CallTypes

(* A call that goes on, with a session or thread and a token, or as it was. *)
Moves(q, pc, at, on, tok) ==
  call' = [call EXCEPT ![q] = [call[q] EXCEPT !.pc = pc, !.at = at, !.on = on, !.tok = tok]]

LEMMA MoveTypes ==
  ASSUME CallTypes, NEW q \in Everybody, ~At(q, "idle"),
         NEW pc \in PCs, NEW at \in Mountpoints \cup {None},
         NEW on \in Entries \cup Threads \cup {None}, NEW tok \in Entries \cup {None},
         Moves(q, pc, at, on, tok),
         pc \in EntryPcs => on \in Entries,
         pc \in ThreadPcs => on \in Threads,
         pc \in ThreadPcs \cup {"reserve"} => at \in Mountpoints,
         Fits(pc, call[q].op),
         q = Main => pc \in MainPcs
  PROVE  CallTypes'
<1> DEFINE c == [call[q] EXCEPT !.pc = pc, !.at = at, !.on = on, !.tok = tok]
<1>1. call[q] \in Call /\ Refers(call[q])
  BY DEF CallTypes
<1>2. /\ c \in Call /\ c.pc = pc /\ c.at = at /\ c.on = on /\ c.tok = tok
      /\ c.vid = call[q].vid /\ c.rec = call[q].rec /\ c.op = call[q].op
  BY ZenonT(60), <1>1 DEF Call
<1>3. Refers(c)
  BY <1>1, <1>2 DEF Refers, At
<1>4. call' = [call EXCEPT ![q] = c]
  BY DEF Moves
<1> HIDE DEF c
<1> QED BY <1>2, <1>3, <1>4, CallStep DEF CallTypes

(* The forms in which the steps say it.                                    *)
LEMMA GotoMoves ==
  ASSUME CallTypes, NEW q \in Everybody, NEW pc, Goto(q, pc)
  PROVE  Moves(q, pc, call[q].at, call[q].on, call[q].tok)
  BY DEF CallTypes, Call, Goto, Moves

LEMMA OnMoves ==
  ASSUME CallTypes, NEW q \in Everybody, NEW pc, NEW on,
         call' = [call EXCEPT ![q].pc = pc, ![q].on = on]
  PROVE  Moves(q, pc, call[q].at, on, call[q].tok)
  BY DEF CallTypes, Call, Moves

LEMMA TokMoves ==
  ASSUME CallTypes, NEW q \in Everybody, NEW pc, NEW tok,
         call' = [call EXCEPT ![q].pc = pc, ![q].tok = tok]
  PROVE  Moves(q, pc, call[q].at, call[q].on, tok)
  BY DEF CallTypes, Call, Moves

(* A step to which no session, thread or mountpoint matters.               *)
LEMMA GotoTypes ==
  ASSUME CallTypes, NEW q \in Everybody, NEW pc \in PCs, Goto(q, pc),
         ~At(q, "idle"),
         pc \notin EntryPcs \cup ThreadPcs \cup {"reserve"},
         Fits(pc, call[q].op),
         q = Main => pc \in MainPcs
  PROVE  CallTypes'
<1>1. call[q] \in Call
  BY DEF CallTypes
<1> QED BY <1>1, GotoMoves, MoveTypes DEF Call

(* What is known of a call at one of its steps.                            *)
LEMMA AtStep ==
  ASSUME CallTypes, NEW q \in Everybody, NEW pc, At(q, pc), pc # "idle"
  PROVE  /\ call[q] \in Call /\ pc \in PCs /\ ~At(q, "idle")
         /\ call[q].vid \in Volumes
         /\ call[q].rec \in VolumeRecord /\ Placed(call[q].rec)
         /\ Fits(pc, call[q].op)
         /\ pc \notin MainPcs => q \in Callers /\ q # Main
         /\ pc \in EntryPcs => call[q].on \in Entries
         /\ pc \in ThreadPcs => call[q].on \in Threads
         /\ pc \in ThreadPcs \cup {"reserve"} => call[q].at \in Mountpoints
  BY DEF CallTypes, Refers, Call, At, Everybody

(* A step of a session's request leaves every request with what its next   *)
(* step refers to.                                                         *)
LEMMA SessionStepCalls ==
  ASSUME CallTypes, DirTypes, NEW q \in Everybody, SessionStep(q)
  PROVE  CallTypes'
<1> USE EntryAssumption DEF EntryPcs, ThreadPcs, MainPcs, PCs
<1>0. ASSUME NEW pc \in PCs, At(q, pc), pc \notin MainPcs, NEW e \in Entries,
             NEW new \in EntryPcs, Fits(new, call[q].op),
             call' = [call EXCEPT ![q].pc = new, ![q].on = e]
      PROVE  CallTypes'
  <2>1. Moves(q, new, call[q].at, e, call[q].tok) /\ call[q] \in Call /\ q # Main /\ ~At(q, "idle")
    BY <1>0, AtStep, OnMoves
  <2> QED BY <1>0, <2>1, MoveTypes DEF Call
<1>00. ASSUME NEW pc \in {"open", "install"}, At(q, pc), Already(q)
       PROVE  CallTypes'
  <2>1. call[q].op \in {"unlock", "dav", "s3"} /\ q # Main /\ call[q] \in Call
    BY <1>00, AtStep DEF Fits
  <2>2. CASE AfterAlready(q) = "idle"
    BY <2>2, <1>00, EndTypes DEF Already
  <2>3. CASE AfterAlready(q) # "idle"
    <3>1. AfterAlready(q) \in {"again", "unlocked"} /\ Fits(AfterAlready(q), call[q].op)
      BY <2>1, <2>3 DEF AfterAlready, Fits
    <3>2. Moves(q, AfterAlready(q), call[q].at, None, call[q].tok)
      BY <1>00, <2>3, OnMoves DEF Already
    <3> QED BY <1>00, <2>1, <3>1, <3>2, MoveTypes DEF Call, At
  <2> QED BY <2>2, <2>3
<1>01. ASSUME NEW pc \in {"install", "attach"}, At(q, pc), NEW e \in Entries, Given(q, e)
       PROVE  CallTypes'
  <2>1. call[q].op \in {"unlock", "dav", "s3"} /\ q # Main /\ call[q] \in Call
    BY <1>01, AtStep DEF Fits
  <2>2. CASE call[q].op = "unlock"
    BY <1>01, <2>1, <2>2, GotoTypes DEF Given, Fits, At
  <2>3. CASE call[q].op # "unlock"
    <3>1. PICK new \in {"cache", "unlocked"} : Moves(q, new, call[q].at, call[q].on, e)
      BY <1>01, <2>3, TokMoves DEF Given
    <3> QED BY <1>01, <2>1, <2>3, <3>1, MoveTypes DEF Call, At, Fits
  <2> QED BY <2>2, <2>3
<1>1. CASE Route(q)
  <2>1. q # Main /\ call[q].vid \in Volumes /\ call[q].op = "unlock" /\ At(q, "route")
    BY <1>1, AtStep DEF Route, Fits
  <2>2. CASE Goto(q, "open")
    BY SMTT(30), <2>1, <2>2, GotoTypes DEF Fits, At
  <2>3. CASE sessions[call[q].vid] # None /\ ~Goto(q, "open")
    BY ZenonT(60), <1>0, <1>1, <2>1, <2>3, EndTypes DEF Route, Fits, DirTypes
  <2> QED BY <1>1, <2>2, <2>3 DEF Route
<1>2. CASE Open(q)
  <2>1. PICK pc \in PCs : pc = "open" /\ At(q, pc) /\ Fits(pc, call[q].op)
    BY <1>2, AtStep DEF Open
  <2>2. CASE Lost(q)
    BY <1>00, <2>1, <2>2 DEF Lost, Fits
  <2> QED BY <1>0, <1>2, <2>1, <2>2, EndTypes DEF Open, Fits
<1>3. CASE Install(q)
  BY <1>00, <1>01, <1>3, AtStep DEF Install
<1>4. CASE Attach(q)
  BY <1>01, <1>4, AtStep, EndTypes DEF Attach
<1>5. CASE Unlocked(q)
  <2>1. At(q, "unlocked") /\ q # Main /\ call[q].op \in {"unlock", "dav", "s3"}
    BY <1>5, AtStep DEF Unlocked, Fits
  <2>2. CASE Who(q) = Web
    <3>1. call[q].op # "unlock"
      BY <2>1, <2>2, AtStep, WebAssumption DEF Who
    <3> QED BY <1>5, <2>1, <2>2, <3>1, GotoTypes DEF Unlocked, Fits, At
  <2>3. CASE Who(q) # Web
    BY SMTT(30), <1>5, <2>3, EndTypes DEF Unlocked
  <2> QED BY <2>2, <2>3
<1>6. CASE Detaching(q)
  BY <1>0, <1>6, AtStep, EndTypes DEF Detaching, Fits, DirTypes
<1>7. CASE DavToken(q)
  <2>1. /\ At(q, "dav") /\ q # Main /\ call[q].op = "dav" /\ call[q] \in Call
        /\ pins[call[q].vid] \in Entries \cup {None}
    BY <1>7, AtStep DEF DavToken, Fits, DirTypes
  <2>2. CASE call[q].rec.encrypted
    <3>1. Moves(q, "kept", call[q].at, call[q].on, pins[call[q].vid])
      BY <1>7, <2>2, TokMoves DEF DavToken
    <3> QED BY <2>1, <3>1, MoveTypes DEF Fits, Call, At
  <2>3. CASE Goto(q, "open")
    BY <2>1, <2>3, GotoTypes DEF Fits, At
  <2>4. CASE Goto(q, "seek")
    BY <2>1, <2>4, GotoTypes DEF Fits, At
  <2> QED BY <1>7, <2>2, <2>3, <2>4 DEF DavToken
<1>8. CASE DavKept(q)
  <2>1. At(q, "kept") /\ q # Main /\ call[q].op = "dav" /\ call[q] \in Call
    BY <1>8, AtStep DEF DavKept, Fits
  <2>2. CASE Goto(q, "seek")
    BY <2>1, <2>2, GotoTypes DEF Fits, At
  <2>3. CASE ~Goto(q, "seek")
    <3>1. PICK new \in {"open", "again"} : Moves(q, new, call[q].at, call[q].on, None)
      BY <1>8, <2>3, TokMoves DEF DavKept
    <3> QED BY <2>1, <3>1, MoveTypes DEF Fits, Call, At
  <2> QED BY <2>2, <2>3
<1>9. CASE DavAgain(q)
  BY <1>0, <1>9, AtStep, EndTypes DEF DavAgain, Fits, DirTypes
<1>10. CASE DavCache(q)
  BY <1>10, AtStep, GotoTypes DEF DavCache, Fits
<1>11. CASE S3Session(q)
  BY <1>11, AtStep, EndTypes, GotoTypes DEF S3Session, Fits
<1>12. CASE Detach(q)
  BY <1>12, AtStep, EndTypes, GotoTypes DEF Detach, Fits
<1>13. CASE PopSession(q)
  <2>1. At(q, "pop") /\ q # Main /\ call[q].vid \in Volumes
    BY SMTT(30), <1>13, AtStep DEF PopSession
  <2>2. CASE sessions[call[q].vid] # None
    BY <1>0, <1>13, <2>1, <2>2 DEF PopSession, Fits, DirTypes
  <2>3. CASE sessions[call[q].vid] = None
    BY <1>13, <2>1, <2>3, EndTypes, GotoTypes DEF PopSession, Fits, At
  <2> QED BY <2>2, <2>3
<1>14. CASE LockClose(q)
  BY SMTT(30), <1>14, AtStep, GotoTypes DEF LockClose, Fits
<1>15. CASE Seek(q)
  BY <1>0, <1>15, AtStep, EndTypes DEF Seek, Fits, DirTypes
<1>16. CASE Enter(q)
  <2>1. /\ At(q, "enter") /\ q # Main /\ call[q] \in Call /\ call[q].on \in Entries
        /\ call[q].op \in {"files", "dav", "s3"}
    BY <1>16, AtStep DEF Enter, Fits
  <2>2. CASE Goto(q, "using")
    <3>1. Moves(q, "using", call[q].at, call[q].on, call[q].tok)
      BY <2>2, GotoMoves
    <3> QED BY <2>1, <3>1, MoveTypes DEF Fits, Call, At
  <2>3. CASE End(q)
    BY <2>3, EndTypes
  <2> QED BY <1>16, <2>2, <2>3 DEF Enter
<1>17. CASE Leave(q)
  BY SMTT(30), <1>17, EndTypes DEF Leave
<1> QED BY <1>1, <1>2, <1>3, <1>4, <1>5, <1>6, <1>7, <1>8, <1>9, <1>10, <1>11,
           <1>12, <1>13, <1>14, <1>15, <1>16, <1>17 DEF SessionStep

(* The records stay records, and placed, also where a call puts its copy.  *)
LEMMA SessionStepStore ==
  ASSUME CallTypes, StoreTypes, NEW q \in Everybody, SessionStep(q)
  PROVE  StoreTypes'
<1>1. CASE Open(q)
  <2>1. call[q].rec.fs \in Filesystems
    BY <1>1, AtStep DEF Open, VolumeRecord
  <2> QED BY <1>1, <2>1 DEF Open, StoreTypes
<1>2. CASE Unlocked(q)
  <2> DEFINE rec == [call[q].rec EXCEPT !.mounted = TRUE, !.mountpoint = None, !.frontend = "direct"]
  <2>1. call[q].rec \in VolumeRecord /\ call[q].vid \in Volumes
    BY <1>2, AtStep DEF Unlocked
  <2>2. rec \in VolumeRecord /\ Placed(rec)
    BY <2>1 DEF VolumeRecord, Frontends, Placed
  <2> HIDE DEF rec
  <2>3. UNCHANGED storeVars \/ Put(call[q].vid, rec)
    BY <1>2 DEF Unlocked, rec
  <2> QED BY <2>1, <2>2, <2>3 DEF Put, StoreTypes, storeVars
<1>3. CASE UNCHANGED storeVars
  BY <1>3 DEF storeVars, StoreTypes
<1> QED BY <1>1, <1>2, <1>3 DEF SessionStep, Route, Install, Attach, Detaching, DavToken,
           DavKept, DavAgain, DavCache, S3Session, Detach, PopSession, LockClose, Seek,
           Enter, Leave, storeVars

LEMMA SessionStepDirs ==
  ASSUME CallTypes, DirTypes, NEW q \in Everybody, SessionStep(q)
  PROVE  DirTypes'
<1> USE EntryAssumption DEF EntryPcs, ThreadPcs, MainPcs
<1>0. CASE UNCHANGED dirVars
  BY <1>0 DEF dirVars, DirTypes
<1>1. CASE Open(q)
  <2>1. /\ call[q].vid \in Volumes /\ call[q].rec.fs \in Filesystems /\ q \in Callers
    BY <1>1, AtStep DEF Open, VolumeRecord
  <2>2. ASSUME NEW e \in Entries
        PROVE [NoEntry EXCEPT !.st = "open", !.vol = call[q].vid, !.fs = call[q].rec.fs, !.clients = {Who(q)}] \in Entry
    BY <2>1 DEF NoEntry, Entry, Who
  <2> QED BY <1>1, <2>2 DEF Open, DirTypes
<1>2. CASE Install(q)
  <2>1. call[q].vid \in Volumes /\ call[q].on \in Entries /\ q \in Callers
    BY <1>2, AtStep DEF Install
  <2> QED BY SMTT(30), <1>2, <2>1 DEF Install, Given, Close, Goto, Entry, DirTypes
<1>3. CASE Attach(q)
  <2>1. call[q].on \in Entries /\ q \in Callers /\ Who(q) \in Callers \cup {Web}
    BY <1>3, AtStep DEF Attach, Who
  <2>2. entry' \in [Entries -> Entry]
    BY <1>3, <2>1 DEF Attach, Entry, DirTypes
  <2>3. held' \in [Callers -> Entries \cup {None}]
    BY <1>3, <2>1 DEF Attach, Given, DirTypes
  <2> QED BY <1>3, <2>2, <2>3 DEF Attach, DirTypes
<1>4. CASE DavKept(q)
  BY <1>4 DEF DavKept, DirTypes
<1>5. CASE DavCache(q)
  BY <1>5, AtStep DEF DavCache, DirTypes, Call
<1>6. CASE Detach(q)
  <2>1. call[q].on \in Entries /\ call[q].vid \in Volumes
    BY <1>6, AtStep DEF Detach
  <2>2. entry' \in [Entries -> Entry]
    <3> DEFINE e == call[q].on
    <3>1. entry[e] \in Entry
      BY <2>1 DEF DirTypes
    <3>2. /\ [entry[e] EXCEPT !.clients = entry[e].clients \ {q}] \in Entry
          /\ [entry[e] EXCEPT !.clients = {}, !.st = "closed"] \in Entry
      BY <3>1 DEF Entry
    <3>3. \/ entry' = entry
          \/ entry' = [entry EXCEPT ![e] = [entry[e] EXCEPT !.clients = entry[e].clients \ {q}]]
          \/ entry' = [entry EXCEPT ![e] = [entry[e] EXCEPT !.clients = {}, !.st = "closed"]]
      BY <1>6, <2>1 DEF Detach, DirTypes
    <3> QED BY <2>1, <3>2, <3>3 DEF DirTypes
  <2>3. sessions' \in [Volumes -> Entries \cup {None}]
    BY <1>6, <2>1 DEF Detach, DirTypes
  <2> QED BY <1>6, <2>2, <2>3 DEF Detach, DirTypes
<1>7. CASE PopSession(q)
  BY <1>7 DEF PopSession, DirTypes
<1>8. CASE LockClose(q)
  BY ZenonT(60), <1>8 DEF LockClose, Close, Entry, DirTypes
<1>9. CASE Enter(q)
  <2>1. q \in Callers /\ call[q].on \in Entries
    BY <1>9, AtStep DEF Enter
  <2>2. entry' \in [Entries -> Entry]
    BY SMTT(30), <1>9, <2>1 DEF Enter, Entry, DirTypes
  <2> QED BY <1>9, <2>2 DEF Enter, DirTypes
<1>10. CASE Leave(q)
  BY ZenonT(60), <1>10 DEF Leave, Entry, DirTypes
<1> QED BY <1>0, <1>1, <1>2, <1>3, <1>4, <1>5, <1>6, <1>7, <1>8, <1>9, <1>10
        DEF SessionStep, Route, Unlocked, Detaching, DavToken, DavAgain, S3Session, Seek, dirVars

(* A step of a call moves no other.                                        *)
LEMMA StepMoves ==
  ASSUME CallTypes, NEW q \in Everybody, Step(q)
  PROVE  ~At(q, "idle") /\ \A p \in Everybody : p # q => call'[p] = call[p]
<1> USE DEF At, Goto, End
<1>1. CASE StoreStep(q)
  BY <1>1 DEF CallTypes, StoreStep, PutFs, Reread, Drop, Retire, RecordFs, Record, Clear
<1>2. CASE SupervisorStep(q)
  BY <1>2 DEF CallTypes, SupervisorStep, Reserve, AwaitReady, Stop, Tell, Forget, Mounted, Lookup, Join
<1>3. CASE SessionStep(q)
  <2>1. CASE Open(q) \/ Install(q) \/ Attach(q)
    BY <2>1 DEF CallTypes, Open, Lost, Install, Attach, Already, Given
  <2>2. CASE Route(q) \/ Unlocked(q) \/ Detaching(q) \/ DavToken(q) \/ DavKept(q) \/ DavAgain(q)
    BY <2>2 DEF CallTypes, Route, Unlocked, Detaching, DavToken, DavKept, DavAgain
  <2>3. CASE \/ DavCache(q) \/ S3Session(q) \/ Detach(q) \/ PopSession(q) \/ LockClose(q)
             \/ Seek(q) \/ Enter(q) \/ Leave(q)
    BY <2>3 DEF CallTypes, DavCache, S3Session, Detach, PopSession, LockClose, Seek, Enter, Leave
  <2> QED BY <1>3, <2>1, <2>2, <2>3 DEF SessionStep
<1>4. CASE Unlink(q)
  BY <1>4 DEF CallTypes, Unlink
<1> QED BY <1>1, <1>2, <1>3, <1>4 DEF Step

(* A call whose next step is about the same thread and mountpoint.         *)
LEMMA ThreadGoto ==
  ASSUME CallTypes, NEW q \in Everybody, NEW old \in ThreadPcs, At(q, old),
         NEW pc \in ThreadPcs, Goto(q, pc), q = Main => pc \in MainPcs
  PROVE  CallTypes'
<1>1. /\ call[q] \in Call /\ ~At(q, "idle") /\ old # "idle" /\ pc \in PCs
      /\ Moves(q, pc, call[q].at, call[q].on, call[q].tok)
  BY AtStep, GotoMoves DEF ThreadPcs, PCs
<1>2. call[q].on \in Threads /\ call[q].at \in Mountpoints
  BY <1>1, AtStep
<1>3. pc \notin EntryPcs /\ Fits(pc, call[q].op)
  BY DEF ThreadPcs, EntryPcs, Fits
<1> QED BY <1>1, <1>2, <1>3, MoveTypes DEF Call

LEMMA TailIsSeq ==
  ASSUME NEW S, NEW s \in Seq(S), s # <<>>
  PROVE  Tail(s) \in Seq(S)
  BY HeadTailProperties

LEMMA LazyUnmountTypes ==
  ASSUME SupTypes, NEW m \in Mountpoints, LazyUnmount(m)
  PROVE  stack' \in [Mountpoints -> Seq(Threads \cup {None})]
<1>1. stack[m] \in Seq(Threads \cup {None})
  BY DEF SupTypes
<1>2. (IF stack[m] = <<>> THEN stack[m] ELSE Tail(stack[m])) \in Seq(Threads \cup {None})
  BY <1>1, TailIsSeq
<1> QED BY <1>2 DEF LazyUnmount, SupTypes

LEMMA SupervisorStepTypes ==
  ASSUME TypeInv, NEW q \in Everybody, SupervisorStep(q)
  PROVE  StoreTypes' /\ CallTypes' /\ SupTypes'
<1> USE DEF TypeInv
<1>1. CASE Reserve(q)
  <2>1. /\ call[q] \in Call /\ ~At(q, "idle") /\ call[q].at \in Mountpoints
        /\ call[q].vid \in Volumes /\ call[q].rec.fs \in Filesystems
    BY <1>1, AtStep DEF Reserve, VolumeRecord
  <2>2. StoreTypes'
    BY <1>1 DEF Reserve, storeVars, StoreTypes
  <2>3. CASE End(q) /\ UNCHANGED <<table, thread>>
    <3>1. SupTypes'
      BY <1>1, <2>3 DEF Reserve, SupTypes, Alive
    <3> QED BY <2>2, <2>3, <3>1, EndTypes
  <2>4. CASE ~(End(q) /\ UNCHANGED <<table, thread>>)
    <3>1. PICK t \in Threads :
             /\ table' = [table EXCEPT ![call[q].at] = t]
             /\ thread' = [thread EXCEPT ![t] = [NoThread EXCEPT !.st = "new",
                            !.vol = call[q].vid, !.fs = call[q].rec.fs, !.at = call[q].at]]
             /\ call' = [call EXCEPT ![q].pc = "await", ![q].on = t]
      BY <1>1, <2>4 DEF Reserve
    <3>2. Moves(q, "await", call[q].at, t, call[q].tok)
      BY <3>1, OnMoves
    <3>3. CallTypes'
      <4>1. "await" \in PCs /\ "await" \notin EntryPcs /\ "await" \in MainPcs /\ Fits("await", call[q].op)
        BY DEF PCs, MainPcs, EntryPcs, Fits
      <4> QED BY <2>1, <3>2, <4>1, MoveTypes DEF Call
    <3>4. [NoThread EXCEPT !.st = "new", !.vol = call[q].vid, !.fs = call[q].rec.fs, !.at = call[q].at] \in Thread
      BY <2>1 DEF NoThread, Thread
    <3>5. SupTypes'
      <4>1. table' \in [Mountpoints -> Threads \cup {None}] /\ thread' \in [Threads -> Thread]
        BY <3>1, <3>4 DEF SupTypes
      <4>2. \A u \in Threads : Alive(u)' => thread'[u].fs \in Filesystems /\ thread'[u].at \in Mountpoints
        BY <2>1, <3>1 DEF SupTypes, Alive, NoThread
      <4> QED BY <1>1, <4>1, <4>2 DEF Reserve, SupTypes
    <3> QED BY <2>2, <3>3, <3>5
  <2> QED BY <2>3, <2>4
<1>2. CASE AwaitReady(q)
  <2>1. CallTypes'
    <3>1. At(q, "await") /\ (Goto(q, "rollback") \/ Goto(q, "mounted"))
      BY <1>2 DEF AwaitReady
    <3> QED BY <3>1, ThreadGoto DEF ThreadPcs, MainPcs
  <2> QED BY <1>2, <2>1 DEF AwaitReady, StoreTypes, SupTypes, storeVars, supVars, Alive
<1>3. CASE Stop(q)
  <2>1. PICK old \in {"stop", "rollback"} : At(q, old)
    BY <1>3 DEF Stop, Tell
  <2>2. call[q].on \in Threads /\ call[q].at \in Mountpoints
    BY <2>1, AtStep DEF ThreadPcs
  <2>3. CallTypes'
    <3>1. CASE old = "stop"
      <4>1. q # Main
        BY <2>1, <3>1, AtStep DEF MainPcs
      <4> QED BY <1>3, <2>1, <3>1, <4>1, ThreadGoto DEF Stop, Tell, ThreadPcs
    <3>2. CASE old = "rollback"
      <4>1. Goto(q, "forget")
        BY <1>3, <2>1, <3>2 DEF Stop, Tell, At
      <4> QED BY <2>1, <3>2, <4>1, ThreadGoto DEF ThreadPcs, MainPcs
    <3> QED BY <3>1, <3>2
  <2>4. thread' \in [Threads -> Thread]
    <3>0. thread[call[q].on] \in Thread
      BY <2>2 DEF SupTypes
    <3>1. [thread[call[q].on] EXCEPT !.stop = (thread[call[q].on].st # "dead")] \in Thread
      BY <3>0 DEF Thread
    <3> QED BY <1>3, <2>2, <3>1 DEF Stop, Tell, SupTypes
  <2>5. \A u \in Threads : /\ thread'[u].st = thread[u].st /\ thread'[u].fs = thread[u].fs
                           /\ thread'[u].at = thread[u].at
    BY <1>3, <2>2 DEF Stop, Tell, SupTypes, Thread
  <2>6. stack' \in [Mountpoints -> Seq(Threads \cup {None})]
    BY <1>3, <2>2, LazyUnmountTypes DEF Stop, Tell
  <2>7. SupTypes'
    BY <1>3, <2>4, <2>5, <2>6 DEF Stop, Tell, SupTypes, Alive
  <2> QED BY <1>3, <2>3, <2>7 DEF Stop, Tell, StoreTypes, storeVars
<1>4. CASE Forget(q)
  <2>1. call[q].at \in Mountpoints
    BY <1>4, AtStep DEF Forget, ThreadPcs
  <2> QED BY <1>4, <2>1, EndTypes DEF Forget, SupTypes, Alive, StoreTypes, storeVars
<1>5. CASE Mounted(q)
  <2> DEFINE c == call[q]
             rec == [c.rec EXCEPT !.mounted = TRUE, !.mountpoint = c.at,
                              !.frontend = IF q = Main THEN @ ELSE "fuse",
                              !.auto = IF c.auto = None THEN @ ELSE c.auto]
  <2>1. /\ c \in Call /\ c.rec \in VolumeRecord /\ c.vid \in Volumes /\ c.at \in Mountpoints
    BY <1>5, AtStep DEF Mounted, ThreadPcs
  <2>2. rec \in VolumeRecord /\ Placed(rec)
    BY <2>1, NoneAssumption DEF VolumeRecord, Frontends, Placed, Call, Mountpoints
  <2>3. Put(c.vid, rec) /\ End(q) /\ UNCHANGED supVars
    BY <1>5 DEF Mounted
  <2> HIDE DEF rec
  <2>4. StoreTypes'
    BY <2>1, <2>2, <2>3 DEF Put, StoreTypes
  <2> QED BY <2>3, <2>4, EndTypes DEF supVars, SupTypes, Alive
<1>6. CASE Lookup(q)
  <2>1. /\ call[q] \in Call /\ ~At(q, "idle") /\ q # Main /\ At(q, "lookup")
        /\ call[q].vid \in Volumes /\ call[q].rec.mountpoint \in Mountpoints \cup {None}
    BY <1>6, AtStep DEF Lookup, VolumeRecord, MainPcs
  <2>2. MountpointOf(q) \in Mountpoints
    BY <2>1 DEF MountpointOf, Mountpoints
  <2>3. CallTypes'
    <3>1. CASE table[MountpointOf(q)] # None
      <4>1. Moves(q, "stop", MountpointOf(q), table[MountpointOf(q)], call[q].tok)
        BY <1>6, <3>1 DEF Lookup, Moves, CallTypes, Call
      <4>2. table[MountpointOf(q)] \in Threads
        BY <2>2, <3>1 DEF SupTypes
      <4>3. "stop" \in PCs /\ "stop" \notin EntryPcs /\ Fits("stop", call[q].op)
        BY DEF PCs, ThreadPcs, EntryPcs, Fits
      <4> QED BY <2>1, <2>2, <4>1, <4>2, <4>3, MoveTypes DEF Call
    <3>2. CASE table[MountpointOf(q)] = None
      <4>1. Goto(q, "reread") \/ End(q)
        BY <1>6, <3>2 DEF Lookup
      <4> QED BY <2>1, <4>1, EndTypes, GotoTypes DEF PCs, EntryPcs, ThreadPcs, Fits
    <3> QED BY <3>1, <3>2
  <2> QED BY <1>6, <2>3 DEF Lookup, StoreTypes, SupTypes, storeVars, supVars, Alive
<1>7. CASE Join(q)
  <2>1. ~At(q, "idle") /\ q # Main /\ call[q].at \in Mountpoints
    BY <1>7, AtStep DEF Join, ThreadPcs, MainPcs
  <2>2. CallTypes'
    <3>1. Goto(q, "reread") \/ Goto(q, "clear") \/ End(q)
      BY <1>7 DEF Join
    <3> QED BY <2>1, <3>1, EndTypes, GotoTypes DEF PCs, EntryPcs, ThreadPcs, Fits
  <2>3. StoreTypes'
    BY <1>7, <2>1 DEF Join, AddPending, StoreTypes
  <2>4. SupTypes'
    BY <1>7, <2>1 DEF Join, SupTypes, Alive
  <2> QED BY <2>2, <2>3, <2>4
<1> QED BY <1>1, <1>2, <1>3, <1>4, <1>5, <1>6, <1>7 DEF SupervisorStep

LEMMA StoreStepTypes ==
  ASSUME TypeInv, NEW q \in Everybody, StoreStep(q)
  PROVE  StoreTypes' /\ CallTypes' /\ SupTypes'
<1> USE DEF TypeInv
<1>0. /\ call[q] \in Call /\ call[q].vid \in Volumes /\ call[q].rec \in VolumeRecord
      /\ Placed(call[q].rec) /\ q # Main /\ ~At(q, "idle")
  <2>1. PICK pc \in {"putfs", "reread", "drop", "retire", "recordfs", "record", "clear"} : At(q, pc)
    BY DEF StoreStep, PutFs, Reread, Drop, Retire, RecordFs, Record, Clear
  <2> QED BY <2>1, AtStep DEF MainPcs
<1>00. call[q].rec.fs \in Filesystems /\ Fresh(call[q].rec.fs, call[q].rec.encrypted) \in VolumeRecord
       /\ Placed(Fresh(call[q].rec.fs, call[q].rec.encrypted))
  BY <1>0 DEF VolumeRecord, Fresh, Placed
<1>1. SupTypes'
  BY DEF StoreStep, supVars, SupTypes, Alive
<1>2. CASE Reread(q)
  <2>1. PICK rec \in VolumeRecord : Placed(rec) /\ call' = [call EXCEPT ![q].pc = "drop", ![q].rec = rec]
    <3> DEFINE v == call[q].vid
               rec == IF volumes[v] # None THEN volumes[v] ELSE call[q].rec
    <3>1. rec \in VolumeRecord /\ Placed(rec)
      BY <1>0 DEF StoreTypes
    <3>2. call' = [call EXCEPT ![q].pc = "drop", ![q].rec = rec]
      BY <1>2 DEF Reread, CallTypes
    <3> QED BY <3>1, <3>2
  <2>2. call'[q] = [call[q] EXCEPT !.pc = "drop", !.rec = rec] /\ call' \in [Everybody -> Call]
    BY ZenonT(60), <1>0, <2>1 DEF CallTypes, Call, PCs
  <2>3. Refers(call'[q]) /\ Fits(call'[q].pc, call'[q].op)
    BY <1>0, <2>1, <2>2 DEF Refers, Fits, Call, EntryPcs, ThreadPcs
  <2>4. CallTypes'
    BY <1>0, <2>1, <2>2, <2>3, CallStep DEF CallTypes
  <2> QED BY <1>1, <1>2, <2>4 DEF Reread, StoreTypes, storeVars
<1>3. CASE ~Reread(q)
  <2>1. CallTypes'
    <3>1. End(q) \/ Goto(q, "retire") \/ Goto(q, "unlink") \/ Goto(q, "record")
      BY <1>3 DEF StoreStep, PutFs, Drop, Retire, RecordFs, Record, Clear
    <3> QED BY <1>0, <3>1, EndTypes, GotoTypes DEF PCs, EntryPcs, ThreadPcs, Fits
  <2>2. CASE Put(call[q].vid, None)
    BY <1>0, <1>1, <2>1, <2>2 DEF Put, StoreTypes
  <2>3. CASE Record(q) \/ Clear(q)
    <3>1. PICK rec \in VolumeRecord : Placed(rec) /\ Put(call[q].vid, rec)
      BY <1>0, <1>00, <2>3 DEF Record, Clear
    <3> QED BY <1>0, <1>1, <2>1, <3>1 DEF Put, StoreTypes
  <2>4. CASE ~Put(call[q].vid, None) /\ ~Record(q) /\ ~Clear(q)
    <3>1. UNCHANGED volumes /\ pending' = pending /\ files' = files /\ filesystems' \subseteq Filesystems
      BY <1>00, <1>3, <2>4 DEF StoreStep, PutFs, Drop, Retire, RecordFs, StoreTypes, storeVars
    <3> QED BY <1>1, <2>1, <3>1 DEF StoreTypes
  <2> QED BY <2>2, <2>3, <2>4
<1> QED BY <1>2, <1>3

LEMMA UnlinkTypes ==
  ASSUME TypeInv, NEW q \in Everybody, Unlink(q)
  PROVE  StoreTypes' /\ CallTypes' /\ SupTypes' /\ DirTypes'
<1> USE DEF TypeInv
<1>1. StoreTypes' /\ CallTypes'
  BY EndTypes DEF Unlink, StoreTypes
<1>2. thread' \in [Threads -> Thread]
  <2>1. ASSUME NEW t \in Threads
        PROVE  [thread[t] EXCEPT !.gone = @ \/ (HasRow(t) /\ thread[t].fs = call[q].rec.fs)] \in Thread
    BY ZenonT(60) DEF SupTypes, Thread, HasRow
  <2> QED BY <2>1 DEF Unlink
<1>3. entry' \in [Entries -> Entry]
  <2>1. ASSUME NEW e \in Entries
        PROVE  [entry[e] EXCEPT !.gone = @ \/ (entry[e].st = "open" /\ entry[e].fs = call[q].rec.fs)] \in Entry
    BY ZenonT(60) DEF DirTypes, Entry
  <2> QED BY <2>1 DEF Unlink
<1>4. \A t \in Threads : /\ thread'[t].st = thread[t].st /\ thread'[t].fs = thread[t].fs
                         /\ thread'[t].at = thread[t].at
  BY DEF Unlink, SupTypes, Thread
<1>5. SupTypes'
  BY <1>2, <1>4 DEF Unlink, SupTypes, Alive
<1>6. DirTypes'
  BY <1>3 DEF Unlink, DirTypes
<1> QED BY <1>1, <1>5, <1>6

(* A request, or a mount at startup, begins with a copy of the record and  *)
(* with no session, thread or token.                                       *)
BeginPcs == {"reserve", "route", "lookup", "detaching", "pop", "drop", "seek",
             "dav", "s3", "putfs", "record", "recordfs"}

Begun(c) == /\ c \in Call /\ c.pc \in BeginPcs
            /\ c.vid \in Volumes /\ c.rec \in VolumeRecord /\ Placed(c.rec)
            /\ c.on = None /\ c.tok = None
            /\ c.pc = "reserve" => c.at \in Mountpoints
            /\ Fits(c.pc, c.op)

LEMMA BeginTypes ==
  ASSUME CallTypes, NEW q \in Everybody, NEW c, Begun(c), call' = [call EXCEPT ![q] = c],
         q = Main => c.pc \in MainPcs
  PROVE  CallTypes'
<1>1. Refers(c)
  BY DEF Begun, Refers, BeginPcs, EntryPcs, ThreadPcs
<1> QED BY <1>1, CallStep DEF Begun, CallTypes

LEMMA StartBegins ==
  ASSUME NEW v \in Volumes, NEW op \in Ops, NEW pc \in BeginPcs, Fits(pc, op),
         NEW rec \in VolumeRecord, Placed(rec), NEW at \in Mountpoints,
         NEW auto \in Mountpoints \cup {None}
  PROVE  /\ pc # "reserve" => Begun([Idle EXCEPT !.pc = pc, !.op = op, !.vid = v, !.rec = rec])
         /\ Begun([Idle EXCEPT !.pc = pc, !.op = op, !.vid = v, !.rec = rec, !.at = at])
         /\ Begun([Idle EXCEPT !.pc = pc, !.op = op, !.vid = v, !.rec = rec, !.at = at, !.auto = auto])
<1>1. pc \in PCs
  BY DEF BeginPcs, PCs, MainPcs
<1>2. pc # "reserve" => Begun([Idle EXCEPT !.pc = pc, !.op = op, !.vid = v, !.rec = rec])
  BY <1>1 DEF Begun, Idle, Call
<1>3. Begun([Idle EXCEPT !.pc = pc, !.op = op, !.vid = v, !.rec = rec, !.at = at])
  BY <1>1 DEF Begun, Idle, Call
<1>4. Begun([Idle EXCEPT !.pc = pc, !.op = op, !.vid = v, !.rec = rec, !.at = at, !.auto = auto])
  BY <1>1 DEF Begun, Idle, Call
<1> QED BY <1>2, <1>3, <1>4

(* What else a request changes as it begins: files at most.                *)
LEMMA RequestBegins ==
  ASSUME TypeInv, NEW q \in Callers, Request(q)
  PROVE  /\ proc = "up" /\ At(q, "idle") /\ StoreTypes'
         /\ UNCHANGED <<volumes, filesystems, pending, supVars, dirVars, proc, todo>>
         /\ \E c : /\ Begun(c) /\ call' = [call EXCEPT ![q] = c]
                   /\ c.pc \in {"reserve", "lookup"} => Quiet
<1> USE DEF TypeInv
<1> DEFINE Goal == /\ proc = "up" /\ At(q, "idle") /\ StoreTypes'
                   /\ UNCHANGED <<volumes, filesystems, pending, supVars, dirVars, proc, todo>>
                   /\ \E c : /\ Begun(c) /\ call' = [call EXCEPT ![q] = c]
                             /\ c.pc \in {"reserve", "lookup"} => Quiet
<1> SUFFICES Goal
  OBVIOUS
<1>1. ASSUME NEW v \in Volumes, NEW op \in Ops, NEW pc \in BeginPcs, pc # "reserve",
             Fits(pc, op), Start(q, v, op, pc), pc = "lookup" => Quiet
      PROVE  Goal
  <2>1. volumes[v] \in VolumeRecord /\ Placed(volumes[v])
    BY <1>1 DEF Start, StoreTypes
  <2> DEFINE c == [Idle EXCEPT !.pc = pc, !.op = op, !.vid = v, !.rec = volumes[v]]
  <2>2. Begun(c) /\ c.pc = pc
    BY <1>1, <2>1, StartBegins DEF Mountpoints, Idle
  <2>3. /\ proc = "up" /\ At(q, "idle") /\ UNCHANGED storeVars /\ call' = [call EXCEPT ![q] = c]
        /\ UNCHANGED <<volumes, filesystems, pending, supVars, dirVars, proc, todo>>
    BY <1>1 DEF Start, Admit, storeVars
  <2>4. StoreTypes'
    BY <2>3 DEF StoreTypes, storeVars
  <2> HIDE DEF c
  <2> QED BY <1>1, <2>2, <2>3, <2>4
<1>2. PICK v \in Volumes :
        \/ \E m \in Mountpoints, keep \in BOOLEAN : MountFuse(q, v, m, keep)
        \/ MountDirect(q, v) \/ Delete(q, v) \/ UseFiles(q, v)
        \/ AskAttached(q, v) \/ UseDav(q, v) \/ UseS3(q, v)
        \/ \E all \in BOOLEAN : Unmount(q, v, all)
        \/ RenameFs(q, v)
        \/ \E f \in Filesystems, enc \in Encrypted : Create(q, v, f, enc)
  BY DEF Request, Import
<1>3. ASSUME NEW m \in Mountpoints, NEW keep \in BOOLEAN, MountFuse(q, v, m, keep)
      PROVE  Goal
  <2>1. volumes[v] \in VolumeRecord /\ Placed(volumes[v])
    BY <1>3 DEF MountFuse, StoreTypes
  <2> DEFINE auto == IF keep THEN m ELSE None
             c == [Idle EXCEPT !.pc = "reserve", !.op = "mount",
                !.vid = v, !.rec = volumes[v], !.at = m, !.auto = auto]
  <2>2. Begun(c) /\ Quiet
    <3>0. Quiet
      BY <1>3 DEF MountFuse
    <3>1. "reserve" \in BeginPcs /\ "mount" \in Ops /\ Fits("reserve", "mount")
      BY DEF BeginPcs, Ops, Fits
    <3>2. auto \in Mountpoints \cup {None}
      OBVIOUS
    <3> HIDE DEF auto
    <3> QED BY <2>1, <3>0, <3>1, <3>2, StartBegins
  <2>3. /\ proc = "up" /\ At(q, "idle") /\ UNCHANGED storeVars /\ call' = [call EXCEPT ![q] = c]
        /\ UNCHANGED <<volumes, filesystems, pending, supVars, dirVars, proc, todo>>
    BY <1>3 DEF MountFuse, Admit, storeVars
  <2>4. StoreTypes'
    BY <2>3 DEF StoreTypes, storeVars
  <2> HIDE DEF c
  <2> QED BY <2>2, <2>3, <2>4
<1>4. ASSUME NEW f \in Filesystems, NEW enc \in Encrypted, Create(q, v, f, enc)
      PROVE  Goal
  <2>1. Fresh(f, enc) \in VolumeRecord /\ Placed(Fresh(f, enc))
    <3>1. enc \in BOOLEAN
      BY SMTT(30) DEF ProcTypes, Public, Encrypted
    <3> QED BY <3>1 DEF VolumeRecord, Fresh, Placed
  <2> DEFINE pc == IF f \in filesystems THEN "record" ELSE "recordfs"
             c == [Idle EXCEPT !.pc = pc, !.op = "create", !.vid = v, !.rec = Fresh(f, enc)]
  <2>2. Begun(c) /\ c.pc \notin {"reserve", "lookup"}
    <3>0. c.pc = pc /\ pc # "lookup"
      BY DEF Idle
    <3>1. pc \in BeginPcs /\ pc # "reserve" /\ "create" \in Ops /\ Fits(pc, "create")
      BY DEF BeginPcs, Ops, Fits
    <3> HIDE DEF pc
    <3> QED BY <2>1, <3>0, <3>1, StartBegins DEF Mountpoints
  <2>3. /\ proc = "up" /\ At(q, "idle") /\ files' = files \cup {f} /\ call' = [call EXCEPT ![q] = c]
        /\ UNCHANGED <<volumes, filesystems, pending, supVars, dirVars, proc, todo>>
    BY <1>4 DEF Create, CreateVolume, Admit
  <2>4. StoreTypes'
    BY <2>3 DEF StoreTypes
  <2> HIDE DEF c
  <2> QED BY <2>2, <2>3, <2>4
<1>5. CASE MountDirect(q, v) \/ UseDav(q, v) \/ UseS3(q, v) \/ UseFiles(q, v) \/ AskAttached(q, v)
  BY <1>1, <1>5 DEF MountDirect, UseDav, UseS3, UseFiles, AskAttached, Fits, Ops, BeginPcs
<1>6. CASE RenameFs(q, v)
  BY <1>1, <1>6 DEF RenameFs, Fits, Ops, BeginPcs
<1>7. CASE Delete(q, v)
  <2>1. PICK pc \in {"drop", "pop", "lookup"} : Start(q, v, "delete", pc) /\ Quiet
    BY <1>7 DEF Delete
  <2> QED BY <1>1, <2>1 DEF Fits, Ops, BeginPcs
<1>8. ASSUME NEW all \in BOOLEAN, Unmount(q, v, all)
      PROVE  Goal
  <2>1. PICK pc \in {"detaching", "pop", "lookup"} : Start(q, v, "unmount", pc) /\ (pc = "lookup" => Quiet)
    BY <1>8 DEF Unmount
  <2> QED BY <1>1, <2>1 DEF Fits, Ops, BeginPcs
<1> HIDE DEF Goal
<1>9. CASE \E m \in Mountpoints, keep \in BOOLEAN : MountFuse(q, v, m, keep)
  BY <1>3, <1>9
<1>10. CASE \E f \in Filesystems, enc \in Encrypted : Create(q, v, f, enc)
  <2>1. Encrypted \subseteq BOOLEAN
    BY DEF ProcTypes, Public, Encrypted
  <2> QED BY <1>4, <1>10, <2>1
<1>11. CASE \E all \in BOOLEAN : Unmount(q, v, all)
  BY <1>8, <1>11
<1> QED BY <1>2, <1>5, <1>6, <1>7, <1>9, <1>10, <1>11

LEMMA RequestTypes ==
  ASSUME TypeInv, NEW q \in Callers, Request(q), UNCHANGED public
  PROVE  TypeInv'
<1> USE DEF TypeInv
<1>1. /\ proc = "up" /\ At(q, "idle") /\ StoreTypes'
      /\ UNCHANGED <<volumes, filesystems, pending, supVars, dirVars, proc, todo>>
  BY RequestBegins
<1>2. PICK c : /\ Begun(c) /\ call' = [call EXCEPT ![q] = c]
               /\ c.pc \in {"reserve", "lookup"} => Quiet
  BY RequestBegins
<1>3. q # Main /\ q \in Everybody
  BY NoneAssumption DEF Everybody
<1>4. CallTypes'
  BY <1>2, <1>3, BeginTypes
<1>5. SupTypes' /\ DirTypes'
  BY <1>1 DEF supVars, dirVars, SupTypes, DirTypes, Alive
<1>6. ProcTypes' /\ Booting'
  <2>1. call'[Main] = call[Main]
    BY <1>2, <1>3 DEF CallTypes, Everybody
  <2> QED BY <1>1, <2>1 DEF ProcTypes, Booting, At
<1> QED BY <1>1, <1>4, <1>5, <1>6

(* The call of a step of the main thread keeps the name of its mount.      *)
LEMMA StepTypes ==
  ASSUME TypeInv, NEW q \in Everybody, Step(q), UNCHANGED public
  PROVE  TypeInv'
<1> USE DEF TypeInv
<1>1. StoreTypes' /\ CallTypes' /\ SupTypes' /\ DirTypes' /\ UNCHANGED <<proc, todo>>
  <2>1. CASE StoreStep(q)
    BY <2>1, StoreStepTypes DEF StoreStep, procVars, dirVars, DirTypes
  <2>2. CASE SupervisorStep(q)
    BY <2>2, SupervisorStepTypes DEF SupervisorStep, procVars, dirVars, DirTypes
  <2>3. CASE SessionStep(q)
    <3>1. SupTypes' /\ UNCHANGED <<proc, todo>>
      BY <2>3 DEF SessionStep, procVars, supVars, SupTypes, Alive
    <3> QED BY <2>3, <3>1, SessionStepCalls, SessionStepStore, SessionStepDirs
  <2>4. CASE Unlink(q)
    BY <2>4, UnlinkTypes DEF Unlink, procVars
  <2> QED BY <2>1, <2>2, <2>3, <2>4 DEF Step
<1>2. ~At(q, "idle") /\ \A p \in Everybody : p # q => call'[p] = call[p]
  BY StepMoves
<1>3. ProcTypes'
  BY <1>1 DEF ProcTypes
<1>4. Main \notin Callers
  BY NoneAssumption
<1>5. CASE q \in Callers
  <2>1. proc \notin {"down", "boot"}
    BY <1>2, <1>5 DEF Booting
  <2>2. call'[Main] = call[Main]
    BY <1>2, <1>4, <1>5 DEF Everybody
  <2> QED BY <1>1, <1>3, <2>1, <2>2 DEF Booting, At
<1>6. CASE q = Main
  <2>1. proc = "boot"
    BY <1>2, <1>6 DEF Booting
  <2>2. \A p \in Callers : call'[p] = call[p]
    BY <1>2, <1>4, <1>6 DEF Everybody
  <2>3. call[Main] \in Call /\ call[Main].pc \in MainPcs /\ call[Main].pc # "idle"
        /\ call[Main].rec.auto # None /\ call[Main].rec \in VolumeRecord
        /\ call[Main].vid \in Volumes
    BY <1>2, <1>6, <2>1 DEF CallTypes, Booting, At, Refers
  <2>4. Reserve(Main) \/ AwaitReady(Main) \/ Stop(Main) \/ Forget(Main) \/ Mounted(Main)
    <3>1. ~StoreStep(Main) /\ ~Unlink(Main) /\ ~Lookup(Main) /\ ~Join(Main)
      BY SMTT(30), <2>3 DEF MainPcs, At, StoreStep, PutFs, Reread, Drop, Retire, RecordFs, Record, Clear,
                  Unlink, Lookup, Join
    <3>2. ~SessionStep(Main)
      BY <2>3 DEF MainPcs, At, SessionStep, Route, Open, Install, Attach, Unlocked, Detaching,
                  DavToken, DavKept, DavAgain, DavCache, S3Session, Detach, PopSession,
                  LockClose, Seek, Enter, Leave
    <3> QED BY <1>6, <3>1, <3>2 DEF Step, SupervisorStep
  <2>5. At(Main, "idle")' \/ call'[Main].rec = call[Main].rec
    BY <2>3, <2>4 DEF Reserve, AwaitReady, Stop, Tell, Forget, Mounted, Goto, End, At, Idle,
                      CallTypes, Call, Everybody
  <2>6. \A v \in Volumes : volumes[v] # None /\ volumes[v].auto # None
                            => volumes'[v] # None /\ volumes'[v].auto # None
    <3>1. CASE UNCHANGED volumes
      BY <3>1
    <3>2. CASE Mounted(Main)
      <4> DEFINE c == call[Main]
                 rec == [c.rec EXCEPT !.mounted = TRUE, !.mountpoint = c.at,
                              !.frontend = IF Main = Main THEN @ ELSE "fuse",
                              !.auto = IF c.auto = None THEN @ ELSE c.auto]
      <4>1. rec.auto # None
        BY <2>3 DEF VolumeRecord
      <4>2. rec # None
        <5>1. rec \in VolumeRecord /\ Placed(rec)
          <6>1. c.at \in Mountpoints
            BY <3>2, AtStep DEF Mounted, ThreadPcs, Everybody
          <6> QED BY <2>3, <6>1, NoneAssumption DEF VolumeRecord, Frontends, Placed, Call, Mountpoints
        <5> QED BY <5>1, RecordAssumption
      <4>3. volumes' = [volumes EXCEPT ![c.vid] = rec]
        BY <3>2 DEF Mounted, Put
      <4> HIDE DEF rec
      <4> QED BY <2>3, <4>1, <4>2, <4>3 DEF StoreTypes
    <3> QED BY <2>4, <3>1, <3>2 DEF Reserve, AwaitReady, Stop, Tell, Forget, storeVars
  <2>7. todo \subseteq Volumes
    BY <2>1 DEF ProcTypes
  <2>8. Booting'
    BY <1>1, <2>1, <2>2, <2>3, <2>5, <2>6, <2>7 DEF Booting, At
  <2> QED BY <1>1, <1>3, <2>8
<1> QED BY <1>5, <1>6 DEF Everybody

LEMMA RemoveAtIsSeq ==
  ASSUME NEW S, NEW s \in Seq(S), NEW i \in DOMAIN s
  PROVE  RemoveAt(s, i) \in Seq(S)
  BY DEF RemoveAt

LEMMA PushIsSeq ==
  ASSUME NEW S, NEW s \in Seq(S), NEW x \in S
  PROVE  <<x>> \o s \in Seq(S)
  OBVIOUS

(* What a FUSE thread's step does to the threads and stacks.               *)
LEMMA ThreadStepTypes ==
  ASSUME TypeInv, NEW t \in Threads, ThreadStep(t), UNCHANGED public
  PROVE  TypeInv'
<1> USE DEF TypeInv
<1>1. /\ UNCHANGED <<volumes, filesystems, pending, dirVars, proc, todo, call, table>>
      /\ Alive(t)
  BY DEF ThreadStep, FuseMount, FuseInit, FuseReturn, procVars, storeVars, Alive
<1>2. thread[t] \in Thread /\ thread[t].fs \in Filesystems /\ thread[t].at \in Mountpoints
  BY <1>1 DEF SupTypes
<1>3. StoreTypes'
  BY <1>1, <1>2 DEF ThreadStep, FuseMount, FuseInit, FuseReturn, storeVars, StoreTypes
<1>4. CallTypes' /\ DirTypes' /\ ProcTypes' /\ Booting'
  BY <1>1 DEF CallTypes, DirTypes, ProcTypes, Booting, At, dirVars
<1>5. \/ Dies(t)
      \/ \E st \in {"admitted", "serving"} : thread' = [thread EXCEPT ![t].st = st]
  BY DEF ThreadStep, FuseMount, FuseInit, FuseReturn
<1>6. thread' \in [Threads -> Thread]
  <2>1. [NoThread EXCEPT !.st = "dead"] \in Thread
    BY DEF NoThread, Thread
  <2>2. \A st \in {"admitted", "serving"} : [thread[t] EXCEPT !.st = st] \in Thread
    BY <1>2 DEF Thread
  <2> QED BY <1>5, <2>1, <2>2 DEF Dies, SupTypes
<1>7. \A u \in Threads : Alive(u)' => thread'[u].fs \in Filesystems /\ thread'[u].at \in Mountpoints
  <2>1. \A u \in Threads : u # t => thread'[u] = thread[u]
    BY <1>5 DEF Dies, SupTypes
  <2>2. \/ thread'[t].st = "dead"
        \/ thread'[t].fs = thread[t].fs /\ thread'[t].at = thread[t].at
    BY <1>2, <1>5 DEF Dies, SupTypes, NoThread, Thread
  <2> QED BY <1>2, <2>1, <2>2 DEF SupTypes, Alive
<1>8. stack' \in [Mountpoints -> Seq(Threads \cup {None})]
  <2> DEFINE S == Threads \cup {None}
             m == thread[t].at
  <2>1. stack[m] \in Seq(S)
    BY <1>2 DEF SupTypes
  <2>2. \/ UNCHANGED stack
        \/ stack' = [stack EXCEPT ![m] = <<t>> \o @]
        \/ \E i \in DOMAIN stack[m] : stack' = [stack EXCEPT ![m] = RemoveAt(@, i)]
    BY DEF ThreadStep, FuseMount, FuseInit, FuseReturn
  <2>3. <<t>> \o stack[m] \in Seq(S) /\ \A i \in DOMAIN stack[m] : RemoveAt(stack[m], i) \in Seq(S)
    BY <2>1, RemoveAtIsSeq, PushIsSeq
  <2> QED BY <1>2, <2>2, <2>3 DEF SupTypes
<1> QED BY <1>1, <1>3, <1>4, <1>6, <1>7, <1>8 DEF SupTypes

(* The end of a process.                                                   *)
LEMMA DieTypes ==
  ASSUME TypeInv, Die, UNCHANGED public
  PROVE  TypeInv'
<1> USE DEF TypeInv
<1>1. StoreTypes'
  BY DEF Die, storeVars, StoreTypes
<1>2. CallTypes' /\ Booting'
  <2>1. \A q \in Everybody : call'[q] = Idle
    BY DEF Die, CallTypes
  <2>2. Idle \in Call /\ Refers(Idle) /\ Fits(Idle.pc, Idle.op) /\ Idle.pc \in MainPcs /\ Idle.pc = "idle"
    BY DEF Idle, Call, Refers, Fits, PCs, MainPcs, EntryPcs, ThreadPcs, Ops
  <2>3. call' \in [Everybody -> Call]
    BY <2>2 DEF Die, CallTypes
  <2> QED BY <2>1, <2>2, <2>3 DEF Die, CallTypes, Booting, At, Everybody
<1>3. SupTypes'
  <2>1. \A t \in Threads : thread'[t] = NoThread
    BY DEF Die
  <2>2. NoThread \in Thread /\ NoThread.st = "free"
    BY DEF NoThread, Thread
  <2>3. thread' \in [Threads -> Thread]
    BY <2>2 DEF Die
  <2>4. ASSUME NEW m \in Mountpoints
        PROVE  [i \in DOMAIN stack[m] |-> None] \in Seq(Threads \cup {None})
    <3>1. stack[m] \in Seq(Threads \cup {None})
      BY DEF SupTypes
    <3>2. DOMAIN stack[m] = 1 .. Len(stack[m]) /\ Len(stack[m]) \in Nat
      BY <3>1
    <3> QED BY <3>2
  <2>5. stack' \in [Mountpoints -> Seq(Threads \cup {None})]
    BY <2>4 DEF Die
  <2> QED BY <2>1, <2>2, <2>3, <2>5 DEF Die, SupTypes, Alive
<1>4. DirTypes' /\ ProcTypes'
  BY DEF Die, DirTypes, ProcTypes, NoEntry, Entry
<1> QED BY <1>1, <1>2, <1>3, <1>4

LEMMA BootTypes ==
  ASSUME TypeInv, Boot, UNCHANGED public
  PROVE  TypeInv'
<1> USE DEF TypeInv
<1>1. CASE Preflight
  <2>1. \A v \in Volumes : /\ Recovered(v) \in VolumeRecord \cup {None}
                           /\ Recovered(v) # None => Placed(Recovered(v))
    BY DEF StoreTypes, Recovered, VolumeRecord, Placed, StaleFuse, StaleDirect
  <2>2. StoreTypes'
    BY <1>1, <2>1 DEF Preflight, StoreTypes
  <2>3. CallTypes' /\ DirTypes' /\ ProcTypes'
    BY <1>1 DEF Preflight, CallTypes, DirTypes, ProcTypes, dirVars
  <2>4. SupTypes'
    <3>1. \A m \in Mountpoints : stack'[m] \in Seq(Threads \cup {None})
      BY <1>1, TailIsSeq DEF Preflight, SupTypes
    <3>2. stack' \in [Mountpoints -> Seq(Threads \cup {None})]
      BY <1>1, <3>1 DEF Preflight
    <3> QED BY <1>1, <3>2 DEF Preflight, SupTypes, Alive
  <2>5. Booting'
    BY <1>1 DEF Preflight, Booting, At
  <2> QED BY <2>2, <2>3, <2>4, <2>5
<1>2. ASSUME NEW v \in Volumes, AutoMount(v)
      PROVE  TypeInv'
  <2> DEFINE c == [Idle EXCEPT !.pc = "reserve", !.op = "mount",
                 !.vid = v, !.rec = volumes[v], !.at = volumes[v].auto]
  <2>1. /\ volumes[v] \in VolumeRecord /\ Placed(volumes[v])
        /\ volumes[v].auto \in Mountpoints /\ volumes[v].auto # None
    BY SMTT(30), <1>2 DEF AutoMount, Booting, StoreTypes, VolumeRecord
  <2>2. Begun(c)
    <3>1. "reserve" \in BeginPcs /\ "mount" \in Ops /\ Fits("reserve", "mount")
      BY DEF BeginPcs, Ops, Fits
    <3> QED BY <2>1, <3>1, StartBegins
  <2>3. c.pc = "reserve" /\ c.rec = volumes[v]
    BY DEF Idle
  <2>4. call' = [call EXCEPT ![Main] = c]
    BY <1>2 DEF AutoMount
  <2> HIDE DEF c
  <2>5. CallTypes'
    BY <2>2, <2>3, <2>4, BeginTypes DEF Everybody, MainPcs
  <2>6. StoreTypes' /\ SupTypes' /\ DirTypes' /\ ProcTypes'
    BY <1>2 DEF AutoMount, StoreTypes, SupTypes, DirTypes, ProcTypes, storeVars, supVars, dirVars, Alive
  <2>7. Booting'
    <3>1. \A q \in Callers : call'[q] = call[q]
      BY <2>4, NoneAssumption DEF CallTypes, Everybody
    <3>2. call'[Main] = c
      BY <2>4 DEF CallTypes, Everybody
    <3> QED BY <1>2, <2>1, <2>3, <3>1, <3>2 DEF AutoMount, Booting, At, storeVars
  <2> QED BY <2>5, <2>6, <2>7
<1>3. CASE Serve
  BY <1>3 DEF Serve, StoreTypes, CallTypes, SupTypes, DirTypes, ProcTypes, Booting, At,
              storeVars, supVars, dirVars, Alive
<1> QED BY <1>1, <1>2, <1>3 DEF Boot

LEMMA ShutdownTypes ==
  ASSUME TypeInv, Shutdown, UNCHANGED public
  PROVE  TypeInv'
<1> USE DEF TypeInv
<1>1. CASE ShutdownStop
  <2>1. thread' \in [Threads -> Thread]
    <3>1. ASSUME NEW t \in Threads
          PROVE  [thread[t] EXCEPT !.stop = @ \/ (InTable(t) /\ thread[t].st # "dead")] \in Thread
      BY DEF SupTypes, Thread, InTable
    <3> QED BY <1>1, <3>1 DEF ShutdownStop
  <2>2. \A t \in Threads : /\ thread'[t].st = thread[t].st /\ thread'[t].fs = thread[t].fs
                           /\ thread'[t].at = thread[t].at
    BY <1>1 DEF ShutdownStop, SupTypes, Thread
  <2>3. stack' \in [Mountpoints -> Seq(Threads \cup {None})]
    <3>1. \A m \in Mountpoints : stack'[m] \in Seq(Threads \cup {None})
      BY <1>1, TailIsSeq DEF ShutdownStop, SupTypes
    <3> QED BY <1>1, <3>1 DEF ShutdownStop
  <2>4. SupTypes'
    BY <1>1, <2>1, <2>2, <2>3 DEF ShutdownStop, SupTypes, Alive
  <2> QED BY <1>1, <2>4 DEF ShutdownStop, StoreTypes, CallTypes, DirTypes, ProcTypes, Booting, At,
                storeVars, dirVars
<1>2. CASE ShutdownJoin
  <2>1. \A v \in Volumes : volumes[v] # None =>
          /\ [volumes[v] EXCEPT !.mounted = FALSE, !.mountpoint = None] \in VolumeRecord
          /\ Placed([volumes[v] EXCEPT !.mounted = FALSE, !.mountpoint = None])
    BY DEF StoreTypes, VolumeRecord, Placed
  <2>2. StoreTypes'
    BY <1>2, <2>1 DEF ShutdownJoin, StoreTypes
  <2>3. SupTypes'
    BY <1>2 DEF ShutdownJoin, SupTypes, Alive
  <2> QED BY <1>2, <2>2, <2>3 DEF ShutdownJoin, CallTypes, DirTypes, ProcTypes, Booting, At, dirVars
<1>3. CASE ShutdownClear
  BY <1>3 DEF ShutdownClear, StoreTypes, CallTypes, SupTypes, DirTypes, ProcTypes, Booting, At,
              storeVars, supVars, Alive
<1>4. ASSUME NEW e \in Entries, ShutdownClose(e)
      PROVE  TypeInv'
  <2>1. entry' \in [Entries -> Entry]
    BY <1>4 DEF ShutdownClose, Close, DirTypes, Entry
  <2> QED BY <1>4, <2>1 DEF ShutdownClose, StoreTypes, CallTypes, SupTypes, DirTypes, ProcTypes,
              Booting, At, storeVars, supVars, Alive
<1>5. CASE Exit
  BY <1>5, DieTypes DEF Exit
<1> QED BY <1>1, <1>2, <1>3, <1>4, <1>5 DEF Shutdown

LEMMA TypesInit == Init => TypeInv
<1> SUFFICES ASSUME Init
             PROVE  TypeInv
  OBVIOUS
<1> USE DEF Init
<1>1. Encrypted \subseteq BOOLEAN /\ public \in Public
  BY PublicAssumption DEF Public, Encrypted
<1>2. \A f \in Filesystems, enc \in BOOLEAN : Fresh(f, enc) \in VolumeRecord /\ Placed(Fresh(f, enc))
  BY DEF Fresh, VolumeRecord, Placed
<1>3. \A v \in Volumes : volumes[v] \in VolumeRecord /\ Placed(volumes[v])
  BY <1>1, <1>2
<1>4. StoreTypes
  BY <1>1, <1>3 DEF StoreTypes, VolumeRecord
<1>5. Idle \in Call /\ Refers(Idle) /\ Fits(Idle.pc, Idle.op) /\ Idle.pc \in MainPcs /\ Idle.pc = "idle"
  BY DEF Idle, Call, Refers, Fits, PCs, MainPcs, EntryPcs, ThreadPcs, Ops
<1>6. CallTypes /\ Booting
  BY <1>5 DEF CallTypes, Booting, At, Everybody
<1>7. SupTypes
  BY DEF SupTypes, NoThread, Thread, Alive
<1>8. DirTypes /\ ProcTypes
  BY <1>1 DEF DirTypes, ProcTypes, NoEntry, Entry
<1> QED BY <1>4, <1>6, <1>7, <1>8 DEF TypeInv

LEMMA TypesNext == TypeInv /\ [Next]_vars => TypeInv'
<1> SUFFICES ASSUME TypeInv, [Next]_vars
             PROVE  TypeInv'
  OBVIOUS
<1>1. ASSUME NEW v \in Volumes, Expiry(v), UNCHANGED public
      PROVE  TypeInv'
  BY <1>1 DEF Expiry, LeftExpires, TypeInv, StoreTypes, CallTypes, SupTypes, DirTypes, ProcTypes,
              Booting, At, storeVars, procVars, dirVars, Alive
<1>2. CASE UNCHANGED vars
  BY <1>2 DEF vars, TypeInv, StoreTypes, CallTypes, SupTypes, DirTypes, ProcTypes, Booting, At, Alive
<1> QED BY <1>1, <1>2, RequestTypes, StepTypes, ThreadStepTypes, BootTypes, ShutdownTypes, DieTypes
        DEF Next, Crash

LEMMA TypeInvHolds == Spec => []TypeInv
  BY TypesInit, TypesNext, PTL DEF Spec

(* The tables of the manager hold what they are declared to hold.          *)
THEOREM TypeCorrect == Spec => []TypeOK
<1>1. TypeInv => TypeOK
  BY DEF TypeInv, StoreTypes, SupTypes, DirTypes, TypeOK, Thread, Entry
<1> QED BY <1>1, TypeInvHolds, PTL

---------------------------------------------------------------------------
(* The sessions are kept in order                                          *)

(* What a step leaves in its call.                                         *)
LEMMA MoveFields ==
  ASSUME CallTypes, NEW q \in Everybody, NEW pc, NEW at, NEW on, NEW tok,
         Moves(q, pc, at, on, tok)
  PROVE  /\ call'[q].pc = pc /\ call'[q].on = on /\ call'[q].tok = tok
         /\ call'[q].vid = call[q].vid /\ call'[q].rec = call[q].rec /\ call'[q].op = call[q].op
  BY DEF Moves, CallTypes, Call

LEMMA GotoFields ==
  ASSUME CallTypes, NEW q \in Everybody, NEW pc, Goto(q, pc)
  PROVE  /\ call'[q].pc = pc /\ call'[q].on = call[q].on /\ call'[q].tok = call[q].tok
         /\ call'[q].vid = call[q].vid /\ call'[q].rec = call[q].rec /\ call'[q].op = call[q].op
  BY GotoMoves, MoveFields

LEMMA EndFields ==
  ASSUME CallTypes, NEW q \in Everybody, End(q)
  PROVE  call'[q].pc = "idle" /\ call'[q].tok = None /\ call'[q].on = None
  BY DEF End, CallTypes, Idle

LEMMA AlreadyFields ==
  ASSUME CallTypes, NEW q \in Everybody, Already(q)
  PROVE  /\ call'[q].pc \in {"idle", "again", "unlocked"}
         /\ call'[q].tok \in {None, call[q].tok}
<1>1. CASE AfterAlready(q) = "idle"
  BY <1>1, EndFields DEF Already
<1>2. CASE AfterAlready(q) # "idle"
  <2>1. Moves(q, AfterAlready(q), call[q].at, None, call[q].tok)
    BY <1>2, OnMoves DEF Already
  <2> QED BY <2>1, MoveFields DEF AfterAlready
<1> QED BY <1>1, <1>2

(* Only WebDAV and S3 keep the token in the call.                          *)
LEMMA GivenFields ==
  ASSUME CallTypes, DirTypes, NEW q \in Callers, NEW e \in Entries, Given(q, e),
         call[q].op \in {"unlock", "dav", "s3"}
  PROVE  /\ call'[q].pc \in {"cache", "unlocked"}
         /\ call'[q].tok = call[q].tok \/ (call'[q].tok = e /\ Who(q) = Web)
         /\ \A p \in Callers : p # q => held'[p] = held[p]
<1>1. q \in Everybody
  BY DEF Everybody
<1>2. CASE call[q].op = "unlock"
  BY <1>1, <1>2, GotoFields DEF Given, DirTypes
<1>3. CASE call[q].op # "unlock"
  <2>1. PICK new \in {"cache", "unlocked"} : Moves(q, new, call[q].at, call[q].on, e)
    BY <1>1, <1>3, TokMoves DEF Given
  <2> QED BY <1>1, <1>3, <2>1, MoveFields DEF Given, Who
<1> QED BY <1>2, <1>3

(* Most steps look at the sessions at most: they take hold of one that is  *)
(* in the registry, or pass a token on.                                    *)
LEMMA LookKeeps ==
  ASSUME TypeInv, SessionInv, NEW q \in Everybody,
         UNCHANGED <<sessions, held, proc, todo>>,
         \A e \in Entries : /\ entry'[e].st = entry[e].st /\ entry'[e].vol = entry[e].vol
                            /\ entry'[e].clients = entry[e].clients /\ entry'[e].older = entry[e].older
                            /\ entry'[e].user = entry[e].user,
         \A p \in Everybody : p # q => call'[p] = call[p],
         \A v \in Volumes : pins'[v] \in {pins[v], call[q].tok, None},
         call'[q].tok \in {call[q].tok, None} \cup {pins[v] : v \in Volumes},
         call[q].pc \notin {"install", "lockclose"},
         proc = "closing" /\ call[q].pc \in {"clear", "idle"} => call'[q].pc \in {"clear", "idle"},
         \/ call'[q].pc \notin EntryPcs
         \/ /\ call'[q].pc \in {"attach", "detach", "enter"}
            /\ call[q].vid \in Volumes /\ call'[q].vid = call[q].vid
            /\ call'[q].on = sessions[call[q].vid] /\ call'[q].on # None
  PROVE  SessionInv'
<1> USE EntryAssumption DEF TypeInv
<1>1. Unopened /\ Registered /\ WebTokens /\ NoLeakedSession
      /\ \A p \in Everybody : OnItsVolume(p) /\ Owns(p) /\ Drops(p) /\ Uses(p)
  BY DEF SessionInv
<1>2. \A v \in Volumes : sessions[v] # None => sessions[v] \in Entries
  BY DEF DirTypes
<1>3. call'[q].pc \in EntryPcs =>
        /\ call'[q].on \in Entries
        /\ entry[call'[q].on].st = "open" /\ entry[call'[q].on].vol = call'[q].vid
        /\ \E v \in Volumes : sessions[v] = call'[q].on
        /\ call'[q].pc \in {"attach", "detach", "enter"}
  BY <1>1, <1>2 DEF Registered
<1>4. \A p \in Everybody : call[p].pc \in EntryPcs => call[p].on \in Entries
  BY DEF CallTypes, Refers
<1>5. Unopened' /\ Registered'
  BY <1>1, <1>2 DEF SessionInv, Unopened, Registered, Holders
<1>6. \A p \in Everybody : OnItsVolume(p)'
  BY <1>1, <1>3, <1>4 DEF OnItsVolume
<1>7. \A p \in Everybody : Owns(p)'
  <2>1. SUFFICES ASSUME NEW p \in Everybody, At(p, "install")'
                 PROVE  Owns(p)'
    BY DEF Owns
  <2>2. p # q /\ call'[p] = call[p]
    BY <1>3, <2>1 DEF At, EntryPcs
  <2>3. call[p].on \in Entries /\ Owns(p) /\ At(p, "install")
    BY <1>1, <1>4, <2>1, <2>2 DEF At, EntryPcs
  <2> QED BY <1>3, <2>2, <2>3 DEF Owns, Who
<1>8. \A p \in Everybody : Drops(p)' /\ Uses(p)'
  <2>1. Drops(q)' /\ Uses(q)'
    BY <1>3 DEF Drops, Uses, At, EntryPcs
  <2>2. ASSUME NEW p \in Everybody, p # q
        PROVE  Drops(p)' /\ Uses(p)'
    BY <1>1, <1>4, <2>2 DEF Drops, Uses, At, EntryPcs, Who, Holders
  <2> QED BY <2>1, <2>2
<1>9. WebTokens'
  <2>1. \A p \in Everybody : call[p].tok \in Entries \cup {None}
    BY DEF CallTypes, Call
  <2>2. WebToken(None) /\ \A v \in Volumes : pins[v] \in Entries \cup {None}
    BY DEF WebToken, DirTypes
  <2>3. \A v \in Volumes : pins'[v] \in Entries \cup {None} /\ WebToken(pins'[v])
    BY <1>1, <2>1, <2>2 DEF WebTokens
  <2>4. \A p \in Everybody : call'[p].tok \in Entries \cup {None} /\ WebToken(call'[p].tok)
    BY <1>1, <2>1, <2>2 DEF WebTokens
  <2> QED BY <2>3, <2>4 DEF WebTokens, WebToken
<1>10. proc' = "closing" => \A e \in todo' : ToClose(e)'
  <2>1. SUFFICES ASSUME proc = "closing", NEW e \in todo
                 PROVE  ToClose(e)'
    OBVIOUS
  <2>2. e \in Entries /\ ToClose(e)
    BY <2>1 DEF SessionInv, ProcTypes
  <2>3. \A p \in Everybody : call'[p].pc \in {"install", "lockclose"} => call'[p].on # e
    BY <1>3, <2>2 DEF ToClose, EntryPcs
  <2>4. \A p \in Callers : call[p].pc \in {"clear", "idle"} => call'[p].pc \in {"clear", "idle"}
    BY <2>1 DEF Everybody
  <2> QED BY <2>2, <2>3, <2>4 DEF ToClose
<1>11. NoLeakedSession'
  <2>1. SUFFICES ASSUME proc = "up", NEW e \in Entries, entry[e].st = "open"
                 PROVE  \/ \E v \in Volumes : sessions[v] = e
                        \/ \E p \in Callers : call'[p].on = e /\ call'[p].pc \in {"install", "lockclose"}
    BY DEF NoLeakedSession
  <2> QED BY <1>1, <2>1 DEF NoLeakedSession, Everybody
<1> QED BY <1>5, <1>6, <1>7, <1>8, <1>9, <1>10, <1>11 DEF SessionInv

LEMMA StoreStepSessions ==
  ASSUME TypeInv, SessionInv, NEW q \in Everybody, StoreStep(q) \/ SupervisorStep(q) \/ Unlink(q)
  PROVE  SessionInv'
<1> USE DEF TypeInv
<1>1. \A p \in Everybody : p # q => call'[p] = call[p]
  BY StepMoves DEF Step
<1>2. UNCHANGED <<sessions, held, proc, todo, pins>>
  BY DEF StoreStep, SupervisorStep, Unlink, dirVars, procVars
<1>3. \A e \in Entries : /\ entry'[e].st = entry[e].st /\ entry'[e].vol = entry[e].vol
                         /\ entry'[e].clients = entry[e].clients /\ entry'[e].older = entry[e].older
                         /\ entry'[e].user = entry[e].user
  <2>1. CASE Unlink(q)
    BY <2>1 DEF Unlink, DirTypes, Entry
  <2> QED BY <2>1 DEF StoreStep, SupervisorStep, dirVars
<1>4. \/ End(q)
      \/ /\ call[q].pc # "clear" /\ ~At(q, "idle")
         /\ \E pc \in {"retire", "unlink", "record", "drop", "rollback", "mounted", "join", "stop",
                       "await", "forget", "reread", "clear"} :
              call'[q].pc = pc /\ call'[q].tok = call[q].tok
  <2>1. CASE Reserve(q)
    <3>1. ASSUME NEW t, call' = [call EXCEPT ![q].pc = "await", ![q].on = t]
          PROVE  call'[q].pc = "await" /\ call'[q].tok = call[q].tok
      BY <3>1 DEF CallTypes, Call
    <3> QED BY <2>1, <3>1 DEF Reserve, At
  <2>2. CASE Lookup(q)
    <3>1. ASSUME NEW t, NEW m, call' = [call EXCEPT ![q].pc = "stop", ![q].at = m, ![q].on = t]
          PROVE  call'[q].pc = "stop" /\ call'[q].tok = call[q].tok
      BY <3>1 DEF CallTypes, Call
    <3>2. Goto(q, "reread") => call'[q].pc = "reread" /\ call'[q].tok = call[q].tok
      BY GotoFields
    <3> QED BY <2>2, <3>1, <3>2 DEF Lookup, At
  <2>3. CASE Reread(q)
    <3>1. call'[q].pc = "drop" /\ call'[q].tok = call[q].tok
      BY <2>3 DEF Reread, CallTypes, Call
    <3> QED BY <2>3, <3>1 DEF Reread, At
  <2>4. CASE StoreStep(q) /\ ~Reread(q)
    BY <2>4, GotoFields DEF StoreStep, PutFs, Drop, Retire, RecordFs, Record, Clear, At
  <2>5. CASE AwaitReady(q) \/ Stop(q) \/ Forget(q) \/ Mounted(q) \/ Join(q)
    BY <2>5, GotoFields DEF AwaitReady, Stop, Tell, Forget, Mounted, Join, At
  <2>6. CASE Unlink(q)
    BY <2>6 DEF Unlink
  <2> QED BY <2>1, <2>2, <2>3, <2>4, <2>5, <2>6 DEF SupervisorStep
<1>5. call[q].pc \notin {"install", "lockclose"}
  BY DEF StoreStep, PutFs, Reread, Drop, Retire, RecordFs, Record, Clear, SupervisorStep, Reserve,
         AwaitReady, Stop, Forget, Mounted, Lookup, Join, Unlink, At
<1>6. call'[q].pc \notin EntryPcs /\ call'[q].tok \in {call[q].tok, None}
  BY <1>4, EndFields DEF EntryPcs
<1>7. call[q].pc \in {"clear", "idle"} => call'[q].pc \in {"clear", "idle"}
  BY <1>4, EndFields DEF At
<1> QED BY <1>1, <1>2, <1>3, <1>5, <1>6, <1>7, LookKeeps

LEMMA RequestSessions ==
  ASSUME TypeInv, SessionInv, NEW q \in Callers, Request(q)
  PROVE  SessionInv'
<1> USE DEF TypeInv
<1>1. /\ proc = "up" /\ At(q, "idle")
      /\ UNCHANGED <<supVars, dirVars, proc, todo>>
  BY RequestBegins
<1>2. PICK c : /\ Begun(c) /\ call' = [call EXCEPT ![q] = c]
               /\ c.pc \in {"reserve", "lookup"} => Quiet
  BY RequestBegins
<1>3. q \in Everybody /\ call'[q] = c /\ \A p \in Everybody : p # q => call'[p] = call[p]
  BY <1>2 DEF CallTypes, Everybody
<1>4. call'[q].pc \notin EntryPcs /\ call'[q].tok = None
  BY <1>2, <1>3 DEF Begun, BeginPcs, EntryPcs
<1> QED BY <1>1, <1>3, <1>4, LookKeeps DEF dirVars, At

(* An unlock makes a session of a spare identity: nobody has it.           *)
LEMMA OpenSessions ==
  ASSUME TypeInv, SessionInv, NEW q \in Everybody, Open(q), UNCHANGED <<proc, todo>>,
         \A p \in Everybody : p # q => call'[p] = call[p]
  PROVE  SessionInv'
<1> USE EntryAssumption DEF TypeInv
<1>1. At(q, "open") /\ call[q].vid \in Volumes /\ q \in Callers /\ call[q].op \in {"unlock", "dav", "s3"}
  BY AtStep DEF Open, MainPcs, Fits
<1>2. CASE (End(q) \/ Already(q)) /\ UNCHANGED entry
  <2>1. call'[q].pc \notin EntryPcs /\ call'[q].tok \in {None, call[q].tok}
    BY <1>2, EndFields, AlreadyFields DEF EntryPcs
  <2> QED BY <1>1, <1>2, <2>1, LookKeeps DEF Open, At
<1>3. CASE ~((End(q) \/ Already(q)) /\ UNCHANGED entry)
  <2>1. PICK e \in Entries :
          /\ SpareEntry(e)
          /\ entry' = [entry EXCEPT ![e] = [NoEntry EXCEPT !.st = "open",
                         !.vol = call[q].vid, !.fs = call[q].rec.fs, !.clients = {Who(q)}]]
          /\ call' = [call EXCEPT ![q].pc = "install", ![q].on = e]
    BY <1>3 DEF Open, NextEntry, Lost
  <2>2. /\ entry'[e].st = "open" /\ entry'[e].vol = call[q].vid /\ entry'[e].clients = {Who(q)}
        /\ entry'[e].user = None
        /\ \A d \in Entries : d # e => entry'[d] = entry[d]
    BY <2>1 DEF DirTypes, NoEntry
  <2>3. /\ call'[q].pc = "install" /\ call'[q].on = e /\ call'[q].tok = call[q].tok
        /\ call'[q].vid = call[q].vid /\ call'[q].rec = call[q].rec /\ call'[q].op = call[q].op
    BY <2>1, OnMoves, MoveFields
  <2>4. /\ UNCHANGED <<sessions, held, pins, proc, todo>>
        /\ \A v \in Volumes : sessions[v] \in Entries \cup {None} /\ pins[v] \in Entries \cup {None}
        /\ \A p \in Everybody : /\ call[p].pc \in EntryPcs => call[p].on \in Entries
                                /\ call[p].tok \in Entries \cup {None}
    BY DEF Open, DirTypes, CallTypes, Call, Refers
  <2>5. /\ entry[e].st \in {"free", "closed"}
        /\ \A p \in Everybody : call[p].on # e /\ call[p].tok # e
        /\ \A p \in Callers : held[p] # e
        /\ \A v \in Volumes : sessions[v] # e /\ pins[v] # e
    BY <2>1 DEF SpareEntry, CallTypes
  <2>6. Who(q)' = Who(q) /\ \A p \in Everybody : p # q => Who(p)' = Who(p)
    BY <2>3 DEF Who
  <2>7. proc \notin {"down", "boot"}
    BY <1>1 DEF Booting, At
  <2>8. Unopened' /\ Registered'
    BY <2>2, <2>4, <2>5, <2>7 DEF SessionInv, Unopened, Registered, Holders
  <2>9. \A p \in Everybody : OnItsVolume(p)'
    BY <2>2, <2>3, <2>4, <2>5 DEF SessionInv, OnItsVolume
  <2>10. \A p \in Everybody : Owns(p)'
    BY <2>2, <2>3, <2>4, <2>5, <2>6 DEF SessionInv, Owns, At, EntryPcs
  <2>11. \A p \in Everybody : Drops(p)' /\ Uses(p)'
    BY <2>2, <2>3, <2>4, <2>5, <2>6 DEF SessionInv, Drops, Uses, At, EntryPcs, Holders
  <2>12. WebTokens'
    BY <2>2, <2>3, <2>4, <2>5 DEF SessionInv, WebTokens, WebToken
  <2>13. proc' = "closing" => \A d \in todo' : ToClose(d)'
    <3>1. SUFFICES ASSUME proc = "closing", NEW d \in todo
                   PROVE  ToClose(d)'
      BY <2>4
    <3>2. d \in Entries /\ ToClose(d)
      BY <3>1 DEF SessionInv, ProcTypes
    <3>3. d # e
      BY <2>5, <3>2 DEF ToClose
    <3>4. \A p \in Callers : call[p].pc \in {"clear", "idle"} => call'[p].pc \in {"clear", "idle"}
      BY <1>1 DEF At, Everybody
    <3> QED BY <2>2, <2>3, <2>4, <3>2, <3>3, <3>4 DEF ToClose
  <2>14. NoLeakedSession'
    BY <1>1, <2>2, <2>3, <2>4 DEF SessionInv, NoLeakedSession, Everybody, At
  <2> QED BY <2>8, <2>9, <2>10, <2>11, <2>12, <2>13, <2>14 DEF SessionInv
<1> QED BY <1>2, <1>3

(* Steps of requests that only look, or hand a token on.                   *)
LEMMA LookSessions ==
  ASSUME TypeInv, SessionInv, NEW q \in Everybody, UNCHANGED <<proc, todo>>,
         \A p \in Everybody : p # q => call'[p] = call[p],
         \/ Route(q) \/ Unlocked(q) \/ Detaching(q) \/ DavToken(q) \/ DavKept(q)
         \/ DavAgain(q) \/ DavCache(q) \/ S3Session(q) \/ Seek(q)
  PROVE  SessionInv'
<1> USE DEF TypeInv
<1>1. /\ UNCHANGED <<sessions, held, entry>>
      /\ call[q].pc \in {"route", "unlocked", "detaching", "dav", "kept", "again", "cache", "s3", "seek"}
  BY DEF Route, Unlocked, Detaching, DavToken, DavKept, DavAgain, DavCache, S3Session, Seek,
         dirVars, At
<1>2. call[q].vid \in Volumes
  BY <1>1, AtStep DEF At
<1>3. ASSUME NEW pc \in {"attach", "detach", "enter"},
             call' = [call EXCEPT ![q].pc = pc, ![q].on = sessions[call[q].vid]],
             sessions[call[q].vid] # None, UNCHANGED pins
      PROVE  SessionInv'
  <2>1. /\ call'[q].pc = pc /\ call'[q].on = sessions[call[q].vid]
        /\ call'[q].tok = call[q].tok /\ call'[q].vid = call[q].vid
    BY <1>3 DEF CallTypes, Call
  <2> QED BY <1>1, <1>2, <1>3, <2>1, LookKeeps
<1>4. ASSUME call'[q].pc \notin EntryPcs,
             call'[q].tok \in {call[q].tok, None} \cup {pins[v] : v \in Volumes},
             \A v \in Volumes : pins'[v] \in {pins[v], call[q].tok, None}
      PROVE  SessionInv'
  BY <1>1, <1>4, LookKeeps
<1>5. ASSUME End(q), UNCHANGED pins
      PROVE  SessionInv'
  BY <1>4, <1>5, EndFields DEF EntryPcs
<1>6. ASSUME NEW pc \in PCs \ EntryPcs, Goto(q, pc),
             \A v \in Volumes : pins'[v] \in {pins[v], call[q].tok, None}
      PROVE  SessionInv'
  <2>1. call'[q].pc = pc /\ call'[q].tok = call[q].tok
    BY <1>6, GotoFields
  <2> QED BY <1>4, <1>6, <2>1
<1>7. CASE Route(q)
  BY <1>3, <1>5, <1>6, <1>7 DEF Route, dirVars, PCs, EntryPcs
<1>8. CASE Unlocked(q)
  <2>1. UNCHANGED pins /\ (End(q) \/ Goto(q, "seek"))
    BY <1>8 DEF Unlocked, dirVars
  <2> QED BY <1>5, <1>6, <2>1 DEF PCs, EntryPcs
<1>9. CASE Detaching(q)
  BY <1>3, <1>5, <1>9 DEF Detaching, dirVars
<1>10. CASE DavToken(q)
  <2>1. CASE call[q].rec.encrypted
    <3>1. call'[q].pc = "kept" /\ call'[q].tok = pins[call[q].vid]
      BY SMTT(30), <1>10, <2>1, TokMoves, MoveFields DEF DavToken
    <3> QED BY <1>2, <1>4, <1>10, <3>1 DEF DavToken, dirVars, EntryPcs
  <2>2. CASE ~call[q].rec.encrypted
    <3>1. PICK pc \in {"open", "seek"} : Goto(q, pc)
      BY <1>10, <2>2 DEF DavToken
    <3> QED BY <1>6, <1>10, <3>1 DEF DavToken, dirVars, PCs, EntryPcs
  <2> QED BY <2>1, <2>2
<1>11. CASE DavKept(q)
  <2>1. CASE Goto(q, "seek") /\ UNCHANGED pins
    BY <1>6, <2>1 DEF PCs, EntryPcs
  <2>2. CASE ~(Goto(q, "seek") /\ UNCHANGED pins)
    <3>1. PICK pc \in {"open", "again"} : Moves(q, pc, call[q].at, call[q].on, None)
      BY <1>11, <2>2, TokMoves DEF DavKept
    <3>2. call'[q].pc = pc /\ call'[q].tok = None
      BY <3>1, MoveFields
    <3>3. \A v \in Volumes : pins'[v] \in {pins[v], None}
      BY <1>11, <2>2 DEF DavKept, DirTypes
    <3> QED BY <1>4, <3>2, <3>3 DEF EntryPcs
  <2> QED BY <2>1, <2>2
<1>12. CASE DavAgain(q)
  BY <1>3, <1>5, <1>12 DEF DavAgain, dirVars
<1>13. CASE DavCache(q)
  <2>1. \A v \in Volumes : pins'[v] \in {pins[v], call[q].tok}
    BY <1>13 DEF DavCache, DirTypes
  <2> QED BY <1>6, <1>13, <2>1 DEF DavCache, PCs, EntryPcs
<1>14. CASE S3Session(q)
  BY <1>5, <1>6, <1>14 DEF S3Session, dirVars, PCs, EntryPcs
<1>15. CASE Seek(q)
  BY <1>3, <1>5, <1>15 DEF Seek, dirVars
<1> QED BY <1>7, <1>8, <1>9, <1>10, <1>11, <1>12, <1>13, <1>14, <1>15

(* The loser of two unlocks closes what it opened, the winner registers it. *)
LEMMA InstallSessions ==
  ASSUME TypeInv, SessionInv, NEW q \in Everybody, Install(q), UNCHANGED <<proc, todo>>,
         \A p \in Everybody : p # q => call'[p] = call[p]
  PROVE  SessionInv'
<1> USE EntryAssumption DEF TypeInv
<1> DEFINE v == call[q].vid
           e == call[q].on
<1>1. /\ At(q, "install") /\ v \in Volumes /\ q \in Callers /\ e \in Entries
      /\ call[q].op \in {"unlock", "dav", "s3"}
  BY AtStep DEF Install, MainPcs, EntryPcs, Fits
<1>2. /\ entry[e].st = "open" /\ entry[e].vol = v /\ entry[e].clients = {Who(q)}
      /\ \A w \in Volumes : sessions[w] # e
      /\ \A p \in Everybody : p # q /\ call[p].pc \in EntryPcs => call[p].on # e
  BY <1>1 DEF SessionInv, Owns, OnItsVolume, At, EntryPcs
<1>3. /\ UNCHANGED <<pins, proc, todo>>
      /\ \A w \in Volumes : sessions[w] \in Entries \cup {None} /\ pins[w] \in Entries \cup {None}
      /\ \A p \in Everybody : /\ call[p].pc \in EntryPcs => call[p].on \in Entries
                              /\ call[p].tok \in Entries \cup {None}
  BY DEF Install, DirTypes, CallTypes, Call, Refers
<1>4. \A p \in Everybody : p # q => Who(p)' = Who(p)
  BY DEF Who
<1>5. proc \notin {"down", "boot"}
  BY <1>1 DEF Booting, At
<1>6. proc = "closing" => \A d \in todo : d # e /\ d \in Entries /\ ToClose(d)
  BY <1>1 DEF SessionInv, ToClose, ProcTypes, At
<1>7. CASE sessions[v] # None
  <2>1. /\ UNCHANGED <<sessions, held>>
        /\ entry'[e].st = "closed" /\ entry'[e].vol = entry[e].vol
        /\ entry'[e].clients = entry[e].clients /\ entry'[e].older = entry[e].older
        /\ entry'[e].user = entry[e].user
        /\ \A d \in Entries : d # e => entry'[d] = entry[d]
    BY <1>1, <1>7 DEF Install, Close, DirTypes, Entry
  <2>2. call'[q].pc \in {"idle", "again", "unlocked"} /\ call'[q].tok \in {None, call[q].tok}
    BY <1>7, AlreadyFields DEF Install
  <2>3. Unopened' /\ Registered'
    BY <1>2, <1>3, <1>5, <2>1 DEF SessionInv, Unopened, Registered, Holders
  <2>4. \A p \in Everybody : OnItsVolume(p)'
    BY <1>2, <1>3, <2>1, <2>2 DEF SessionInv, OnItsVolume, EntryPcs
  <2>5. \A p \in Everybody : Owns(p)'
    BY <1>2, <1>3, <1>4, <2>1, <2>2 DEF SessionInv, Owns, At, EntryPcs
  <2>6. \A p \in Everybody : Drops(p)' /\ Uses(p)'
    BY <1>2, <1>3, <1>4, <2>1, <2>2 DEF SessionInv, Drops, Uses, At, EntryPcs, Holders, Holders
  <2>7. WebTokens'
    BY <1>2, <1>3, <2>1, <2>2 DEF SessionInv, WebTokens, WebToken
  <2>8. proc' = "closing" => \A d \in todo' : ToClose(d)'
    <3>1. SUFFICES ASSUME proc = "closing", NEW d \in todo
                   PROVE  ToClose(d)'
      BY <1>3
    <3>2. \A p \in Callers : call[p].pc \in {"clear", "idle"} => call'[p].pc \in {"clear", "idle"}
      BY <1>1 DEF At, Everybody
    <3> QED BY <1>3, <1>6, <2>1, <2>2, <3>1, <3>2 DEF ToClose
  <2>9. NoLeakedSession'
    BY <1>1, <1>3, <2>1, <2>2 DEF SessionInv, NoLeakedSession, Everybody, At
  <2> QED BY <2>3, <2>4, <2>5, <2>6, <2>7, <2>8, <2>9 DEF SessionInv
<1>8. CASE sessions[v] = None
  <2>1. /\ UNCHANGED entry /\ sessions'[v] = e
        /\ \A w \in Volumes : w # v => sessions'[w] = sessions[w]
    BY <1>1, <1>8 DEF Install, DirTypes
  <2>2. /\ call'[q].pc \in {"cache", "unlocked"}
        /\ call'[q].tok = call[q].tok \/ (call'[q].tok = e /\ Who(q) = Web)
        /\ \A p \in Callers : p # q => held'[p] = held[p]
    BY <1>1, <1>8, GivenFields DEF Install
  <2>3. Unopened' /\ Registered'
    BY <1>1, <1>2, <1>3, <1>5, <2>1 DEF SessionInv, Unopened, Registered, Holders
  <2>4. \A p \in Everybody : OnItsVolume(p)'
    BY <1>2, <1>3, <2>1, <2>2 DEF SessionInv, OnItsVolume, EntryPcs
  <2>5. \A p \in Everybody : Owns(p)'
    BY <1>2, <1>3, <1>4, <2>1, <2>2 DEF SessionInv, Owns, At, EntryPcs
  <2>6. \A p \in Everybody : Drops(p)' /\ Uses(p)'
    BY <1>2, <1>3, <1>4, <2>1, <2>2 DEF SessionInv, Drops, Uses, At, EntryPcs, Holders, Holders
  <2>7. WebTokens'
    BY <1>2, <1>3, <2>1, <2>2 DEF SessionInv, WebTokens, WebToken
  <2>8. proc' = "closing" => \A d \in todo' : ToClose(d)'
    <3>1. SUFFICES ASSUME proc = "closing", NEW d \in todo
                   PROVE  ToClose(d)'
      BY <1>3
    <3>2. \A p \in Callers : /\ call[p].pc \in {"clear", "idle"} => call'[p].pc \in {"clear", "idle"}
                             /\ call[p].pc \in {"clear", "idle"} => held'[p] = held[p]
      BY <1>1, <2>2 DEF At, Everybody
    <3> QED BY <1>1, <1>3, <1>6, <2>1, <2>2, <3>1, <3>2 DEF ToClose
  <2>9. NoLeakedSession'
    BY <1>1, <1>3, <1>8, <2>1, <2>2 DEF SessionInv, NoLeakedSession, Everybody, At
  <2> QED BY <2>3, <2>4, <2>5, <2>6, <2>7, <2>8, <2>9 DEF SessionInv
<1> QED BY <1>7, <1>8

(* An attach, under the session's lock, adds a mount.                      *)
LEMMA AttachSessions ==
  ASSUME TypeInv, SessionInv, NEW q \in Everybody, Attach(q), UNCHANGED <<proc, todo>>,
         \A p \in Everybody : p # q => call'[p] = call[p]
  PROVE  SessionInv'
<1> USE EntryAssumption DEF TypeInv
<1> DEFINE v == call[q].vid
           e == call[q].on
<1>1. /\ At(q, "attach") /\ v \in Volumes /\ q \in Callers /\ e \in Entries
      /\ call[q].op \in {"unlock", "dav", "s3"}
  BY AtStep DEF Attach, MainPcs, EntryPcs, Fits
<1>2. /\ UNCHANGED <<sessions, pins, proc, todo>>
      /\ \A w \in Volumes : sessions[w] \in Entries \cup {None} /\ pins[w] \in Entries \cup {None}
      /\ \A p \in Everybody : /\ call[p].pc \in EntryPcs => call[p].on \in Entries
                              /\ call[p].tok \in Entries \cup {None}
  BY DEF Attach, DirTypes, CallTypes, Call, Refers
<1>3. CASE End(q) /\ UNCHANGED <<entry, held>>
  BY <1>1, <1>2, <1>3, EndFields, LookKeeps DEF At, EntryPcs
<1>4. CASE ~(End(q) /\ UNCHANGED <<entry, held>>)
  <2>0. entry' = [entry EXCEPT ![e].clients = @ \cup {Who(q)},
                               ![e].older = @ \cup (entry[e].clients \cap {Who(q)})]
    BY <1>4 DEF Attach, StillThere, Free
  <2>1. entry[e].user = None /\ sessions[v] = e /\ Given(q, e)
    BY <1>4 DEF Attach, StillThere, Free
  <2>2. /\ entry'[e].clients = entry[e].clients \cup {Who(q)}
        /\ entry[e].older \subseteq entry'[e].older
        /\ entry'[e].st = entry[e].st /\ entry'[e].vol = entry[e].vol /\ entry'[e].user = None
        /\ \A d \in Entries : d # e => entry'[d] = entry[d]
    BY <1>1, <2>0, <2>1 DEF DirTypes, Entry
  <2>3. /\ call'[q].pc \in {"cache", "unlocked"}
        /\ call'[q].tok = call[q].tok \/ (call'[q].tok = e /\ Who(q) = Web)
        /\ \A p \in Callers : p # q => held'[p] = held[p]
    BY <1>1, <2>1, GivenFields
  <2>4. \A p \in Everybody : p # q => Who(p)' = Who(p)
    BY DEF Who
  <2>5. proc \notin {"down", "boot"}
    BY <1>1 DEF Booting, At
  <2>6. Unopened' /\ Registered'
    BY <1>1, <1>2, <2>2, <2>5 DEF SessionInv, Unopened, Registered, Holders
  <2>7. \A p \in Everybody : OnItsVolume(p)'
    BY <1>1, <1>2, <2>2, <2>3 DEF SessionInv, OnItsVolume, EntryPcs
  <2>8. \A p \in Everybody : Owns(p)'
    BY <1>1, <1>2, <2>1, <2>2, <2>3, <2>4 DEF SessionInv, Owns, At, EntryPcs
  <2>9. \A p \in Everybody : Drops(p)' /\ Uses(p)'
    BY <1>1, <1>2, <2>1, <2>2, <2>3, <2>4, NoneAssumption DEF SessionInv, Drops, Uses, At, EntryPcs, Holders
  <2>10. WebTokens'
    BY <1>1, <1>2, <2>2, <2>3 DEF SessionInv, WebTokens, WebToken
  <2>11. proc' = "closing" => \A d \in todo' : ToClose(d)'
    <3>1. SUFFICES ASSUME proc = "closing", NEW d \in todo
                   PROVE  ToClose(d)'
      BY <1>2
    <3>2. d \in Entries /\ ToClose(d)
      BY <3>1 DEF SessionInv, ProcTypes
    <3>3. d # e
      BY <1>1, <2>1, <3>2 DEF ToClose
    <3>4. \A p \in Callers : /\ call[p].pc \in {"clear", "idle"} => call'[p].pc \in {"clear", "idle"}
                             /\ call[p].pc \in {"clear", "idle"} => held'[p] = held[p]
      BY <1>1, <2>3 DEF At, Everybody
    <3> QED BY <1>2, <2>2, <2>3, <3>2, <3>3, <3>4 DEF ToClose
  <2>12. NoLeakedSession'
    BY <1>1, <1>2, <2>1, <2>2, <2>3 DEF SessionInv, NoLeakedSession, Everybody, At
  <2> QED BY <2>6, <2>7, <2>8, <2>9, <2>10, <2>11, <2>12 DEF SessionInv
<1> QED BY <1>3, <1>4

(* A detach, under the session's lock, takes a mount away, and with the    *)
(* last one the session.                                                   *)
LEMMA DetachSessions ==
  ASSUME TypeInv, SessionInv, NEW q \in Everybody, Detach(q), UNCHANGED <<proc, todo>>,
         \A p \in Everybody : p # q => call'[p] = call[p]
  PROVE  SessionInv'
<1> USE EntryAssumption DEF TypeInv
<1> DEFINE v == call[q].vid
           e == call[q].on
           rest == entry[e].clients \ {q}
           kept == rest \cup entry[e].older
<1>1. At(q, "detach") /\ v \in Volumes /\ q \in Callers /\ e \in Entries
  BY AtStep DEF Detach, MainPcs, EntryPcs
<1>2. /\ UNCHANGED <<held, pins, proc, todo>>
      /\ \A w \in Volumes : sessions[w] \in Entries \cup {None} /\ pins[w] \in Entries \cup {None}
      /\ \A p \in Everybody : /\ call[p].pc \in EntryPcs => call[p].on \in Entries
                              /\ call[p].tok \in Entries \cup {None}
  BY DEF Detach, DirTypes, CallTypes, Call, Refers
<1>3. CASE End(q) /\ UNCHANGED <<sessions, entry>>
  BY <1>1, <1>2, <1>3, EndFields, LookKeeps DEF At, EntryPcs
<1>4. CASE ~(End(q) /\ UNCHANGED <<sessions, entry>>)
  <2>1. /\ entry[e].user = None /\ held[q] = e
        /\ entry[e].vol = v /\ entry[e].st \in {"open", "closed"}
        /\ \A p \in Everybody : At(p, "install") => call[p].on # e
        /\ q # Web /\ q # None
    <3>1. \A p \in Everybody : At(p, "install") => call[p].on # e
      BY <1>1 DEF SessionInv, Owns, At, EntryPcs
    <3>2. q # Web /\ q # None
      BY <1>1, WebAssumption, NoneAssumption
    <3> QED BY <1>1, <1>4, <3>1, <3>2 DEF Detach, Free, KnownClient, SessionInv, OnItsVolume, At, EntryPcs
  <2>2. \/ /\ kept # {} /\ UNCHANGED sessions /\ call'[q].pc = "idle"
           /\ entry'[e].st = entry[e].st
        \/ /\ kept = {} /\ call'[q].pc = "clear"
           /\ entry'[e].st = "closed"
           /\ \A w \in Volumes : sessions'[w] = IF sessions[w] = e THEN None ELSE sessions[w]
    <3>1. CASE kept # {}
      BY <1>1, <1>4, <3>1, EndFields DEF Detach, DirTypes, Entry
    <3>2. CASE kept = {}
      <4>1. Goto(q, "clear") /\ entry'[e].st = "closed"
        BY <1>1, <1>4, <3>2 DEF Detach, DirTypes, Entry
      <4>2. \A w \in Volumes : sessions[w] = e => w = v
        BY <1>2, <2>1, <1>1 DEF SessionInv, Registered
      <4>3. sessions' = IF sessions[v] = e THEN [sessions EXCEPT ![v] = None] ELSE sessions
        BY <1>4, <3>2 DEF Detach
      <4>4. \A w \in Volumes : sessions'[w] = IF sessions[w] = e THEN None ELSE sessions[w]
        BY <1>1, <4>2, <4>3 DEF DirTypes
      <4> QED BY <3>2, <4>1, <4>4, GotoFields
    <3> QED BY <3>1, <3>2
  <2>3. /\ entry'[e].clients = rest /\ entry'[e].clients \cup entry'[e].older = kept
        /\ entry'[e].vol = v /\ entry'[e].user = None
        /\ \A d \in Entries : d # e => entry'[d] = entry[d]
    <3>1. CASE kept # {}
      <4>1. entry' = [entry EXCEPT ![e].clients = rest]
        BY <1>4, <3>1 DEF Detach
      <4>2. entry'[e].older = entry[e].older /\ entry'[e].clients = rest
        BY <1>1, <4>1 DEF DirTypes, Entry
      <4>3. entry'[e].clients \cup entry'[e].older = kept
        BY <4>2
      <4> QED BY <1>1, <2>1, <4>1, <4>2, <4>3 DEF DirTypes, Entry
    <3>2. CASE kept = {}
      <4>1. entry' = [entry EXCEPT ![e].clients = {}, ![e].st = "closed"] /\ rest = {}
        BY <1>4, <3>2 DEF Detach
      <4>2. entry'[e].older = entry[e].older /\ entry'[e].clients = {}
        BY <1>1, <4>1 DEF DirTypes, Entry
      <4>3. entry'[e].clients \cup entry'[e].older = kept
        BY <3>2, <4>1, <4>2
      <4> QED BY <1>1, <2>1, <4>1, <4>2, <4>3 DEF DirTypes, Entry
    <3> QED BY <3>1, <3>2
  <2>4. call'[q].pc \in {"idle", "clear"} /\ call'[q].tok \in {None, call[q].tok}
    <3>1. End(q) \/ Goto(q, "clear")
      BY DEF Detach
    <3> QED BY <3>1, EndFields, GotoFields
  <2>5. \A p \in Everybody : p # q => Who(p)' = Who(p)
    BY DEF Who
  <2>6. proc \notin {"down", "boot"}
    BY <1>1 DEF Booting, At
  <2>7. Unopened' /\ Registered'
    <3>1. Registered /\ Unopened'
      BY <1>2, <2>6 DEF SessionInv, Unopened
    <3> HIDE DEF rest, kept, e, v
    <3>2. CASE UNCHANGED sessions /\ kept # {} /\ entry'[e].st = entry[e].st
      <4>1. SUFFICES ASSUME NEW w \in Volumes, sessions[w] # None
                     PROVE  /\ entry'[sessions[w]].st = "open" /\ entry'[sessions[w]].vol = w
                            /\ entry'[sessions[w]].clients \cup entry'[sessions[w]].older # {}
        BY <3>1, <3>2 DEF Registered, Holders
      <4>2. /\ sessions[w] \in Entries
            /\ entry[sessions[w]].st = "open" /\ entry[sessions[w]].vol = w
            /\ entry[sessions[w]].clients \cup entry[sessions[w]].older # {}
        BY <1>2, <3>1, <4>1 DEF Registered, Holders
      <4>3. CASE sessions[w] = e
        <5>1. entry'[e].clients \cup entry'[e].older # {}
          BY <2>3, <3>2
        <5>2. w = v
          BY <2>1, <4>2, <4>3
        <5> QED BY <2>3, <3>2, <4>2, <4>3, <5>1, <5>2
      <4> QED BY <2>3, <4>2, <4>3
    <3>3. CASE \A w \in Volumes : sessions'[w] = IF sessions[w] = e THEN None ELSE sessions[w]
      BY <1>1, <1>2, <2>3, <3>1, <3>3 DEF Registered, Holders
    <3> QED BY <2>2, <3>1, <3>2, <3>3
  <2>8. \A p \in Everybody : OnItsVolume(p)'
    BY <1>1, <1>2, <2>1, <2>2, <2>3, <2>4 DEF SessionInv, OnItsVolume, EntryPcs
  <2>9. \A p \in Everybody : Owns(p)'
    BY SMTT(30), <1>1, <1>2, <2>1, <2>2, <2>3, <2>4, <2>5 DEF SessionInv, Owns, At, EntryPcs
  <2>10. \A p \in Everybody : Drops(p)' /\ Uses(p)'
    <3>1. ~At(q, "lockclose")' /\ ~At(q, "using")'
      BY <2>4 DEF At
    <3> HIDE DEF rest, kept, e, v
    <3>2. ASSUME NEW p \in Everybody, p # q
          PROVE  Drops(p)' /\ Uses(p)'
      <4>1. At(p, "using") => call[p].on # e
        <5>1. At(p, "using") => p \in Callers /\ p # None
          BY NoneAssumption, AtStep DEF MainPcs
        <5>2. At(p, "using") => entry[call[p].on].user = p
          BY DEF SessionInv, Uses
        <5> QED BY <2>1, <5>1, <5>2
      <4>2. Drops(p)'
        BY <1>1, <1>2, <2>2, <3>2 DEF SessionInv, Drops, At, EntryPcs
      <4>3. Uses(p)'
        BY <1>1, <1>2, <2>3, <2>5, <3>2, <4>1 DEF SessionInv, Uses, At, EntryPcs, Holders
      <4> QED BY <4>2, <4>3
    <3> QED BY <3>1, <3>2 DEF Drops, Uses
  <2>11. WebTokens'
    BY <1>1, <1>2, <2>1, <2>2, <2>3, <2>4 DEF SessionInv, WebTokens, WebToken
  <2>12. proc' = "closing" => \A d \in todo' : ToClose(d)'
    <3>1. SUFFICES ASSUME proc = "closing", NEW d \in todo
                   PROVE  ToClose(d)'
      BY <1>2
    <3>2. d \in Entries /\ ToClose(d)
      BY <3>1 DEF SessionInv, ProcTypes
    <3>3. \A p \in Callers : call[p].pc \in {"clear", "idle"} => call'[p].pc \in {"clear", "idle"}
      BY <1>1 DEF At, Everybody
    <3>4. \A w \in Volumes : sessions'[w] # d
      BY <1>1, <2>2, <3>2 DEF ToClose
    <3>5. \/ entry'[d].st = "open"
          \/ \E p \in Callers : held'[p] = d /\ call'[p].pc \in {"clear", "idle"}
      BY <1>1, <1>2, <2>1, <2>2, <2>3, <2>4, <3>2, <3>3 DEF ToClose
    <3> QED BY <1>2, <2>4, <3>2, <3>4, <3>5 DEF ToClose
  <2>13. NoLeakedSession'
    BY <1>1, <1>2, <2>1, <2>2, <2>3, <2>4 DEF SessionInv, NoLeakedSession, Everybody, At
  <2> QED BY <2>7, <2>8, <2>9, <2>10, <2>11, <2>12, <2>13 DEF SessionInv
<1> QED BY <1>3, <1>4

(* A lock takes the session out of the registry, and closes it later.      *)
LEMMA PopSessions ==
  ASSUME TypeInv, SessionInv, NEW q \in Everybody, PopSession(q), UNCHANGED <<proc, todo>>,
         \A p \in Everybody : p # q => call'[p] = call[p]
  PROVE  SessionInv'
<1> USE EntryAssumption DEF TypeInv
<1> DEFINE v == call[q].vid
           e == sessions[v]
<1>1. At(q, "pop") /\ v \in Volumes /\ q \in Callers
  BY AtStep DEF PopSession, MainPcs
<1>2. /\ UNCHANGED <<entry, held, pins, proc, todo>>
      /\ \A w \in Volumes : sessions[w] \in Entries \cup {None} /\ pins[w] \in Entries \cup {None}
      /\ \A p \in Everybody : /\ call[p].pc \in EntryPcs => call[p].on \in Entries
                              /\ call[p].tok \in Entries \cup {None}
  BY DEF PopSession, DirTypes, CallTypes, Call, Refers
<1>3. CASE e = None
  <2>1. UNCHANGED sessions /\ (End(q) \/ Goto(q, "reread"))
    BY <1>3 DEF PopSession
  <2>2. call'[q].pc \in {"idle", "reread"} /\ call'[q].tok \in {None, call[q].tok}
    BY <2>1, EndFields, GotoFields
  <2> QED BY <1>1, <1>2, <2>1, <2>2, LookKeeps DEF At, EntryPcs
<1>4. CASE e # None
  <2>1. /\ sessions' = [sessions EXCEPT ![v] = None]
        /\ call' = [call EXCEPT ![q].pc = "lockclose", ![q].on = e]
    BY <1>4 DEF PopSession
  <2>2. /\ call'[q].pc = "lockclose" /\ call'[q].on = e /\ call'[q].tok = call[q].tok
        /\ call'[q].vid = v
    BY <2>1 DEF CallTypes, Call
  <2>3. e \in Entries /\ entry[e].st = "open" /\ entry[e].vol = v
    BY <1>1, <1>2, <1>4 DEF SessionInv, Registered
  <2>4. \A w \in Volumes : sessions'[w] = IF sessions[w] = e THEN None ELSE sessions[w]
    BY <1>1, <1>2, <1>4, <2>1, <2>3 DEF SessionInv, Registered, DirTypes
  <2>5. \A p \in Everybody : At(p, "install") => call[p].on # e
    BY <1>1 DEF SessionInv, Owns
  <2> HIDE DEF e, v
  <2>6. \A p \in Everybody : p # q => Who(p)' = Who(p)
    BY DEF Who
  <2>7. Unopened' /\ Registered'
    BY <1>2, <2>4 DEF SessionInv, Unopened, Registered, Holders
  <2>8. \A p \in Everybody : OnItsVolume(p)'
    BY <1>2, <2>2, <2>3 DEF SessionInv, OnItsVolume, EntryPcs
  <2>9. \A p \in Everybody : Owns(p)'
    BY <1>2, <2>2, <2>3, <2>4, <2>5, <2>6 DEF SessionInv, Owns, At, EntryPcs
  <2>10. \A p \in Everybody : Drops(p)' /\ Uses(p)'
    BY <1>2, <2>2, <2>3, <2>4, <2>6 DEF SessionInv, Drops, Uses, At, EntryPcs, Holders
  <2>11. WebTokens'
    BY <1>2, <2>2 DEF SessionInv, WebTokens, WebToken
  <2>12. proc' = "closing" => \A d \in todo' : ToClose(d)'
    <3>1. SUFFICES ASSUME proc = "closing", NEW d \in todo
                   PROVE  ToClose(d)'
      BY <1>2
    <3>2. d \in Entries /\ ToClose(d)
      BY <3>1 DEF SessionInv, ProcTypes
    <3>3. \A p \in Callers : call[p].pc \in {"clear", "idle"} => call'[p].pc \in {"clear", "idle"}
      BY <1>1 DEF At, Everybody
    <3>4. d # e
      BY <1>1, <3>2 DEF ToClose, e
    <3> QED BY <1>2, <2>2, <2>4, <3>2, <3>3, <3>4 DEF ToClose
  <2>13. NoLeakedSession'
    BY <1>1, <1>2, <2>2, <2>4 DEF SessionInv, NoLeakedSession, Everybody, At
  <2> QED BY <2>7, <2>8, <2>9, <2>10, <2>11, <2>12, <2>13 DEF SessionInv
<1> QED BY <1>3, <1>4

LEMMA LockCloseSessions ==
  ASSUME TypeInv, SessionInv, NEW q \in Everybody, LockClose(q), UNCHANGED <<proc, todo>>,
         \A p \in Everybody : p # q => call'[p] = call[p]
  PROVE  SessionInv'
<1> USE EntryAssumption DEF TypeInv
<1> DEFINE e == call[q].on
<1>1. At(q, "lockclose") /\ q \in Callers /\ e \in Entries /\ entry[e].user = None
  BY AtStep DEF LockClose, MainPcs, EntryPcs, Free
<1>2. /\ UNCHANGED <<sessions, held, pins, proc, todo>>
      /\ \A w \in Volumes : sessions[w] \in Entries \cup {None} /\ pins[w] \in Entries \cup {None}
      /\ \A p \in Everybody : /\ call[p].pc \in EntryPcs => call[p].on \in Entries
                              /\ call[p].tok \in Entries \cup {None}
  BY DEF LockClose, DirTypes, CallTypes, Call, Refers
<1>3. /\ \A w \in Volumes : sessions[w] # e
      /\ \A p \in Everybody : At(p, "install") => call[p].on # e
      /\ entry[e].st \in {"open", "closed"}
  BY <1>1 DEF SessionInv, Drops, Owns, OnItsVolume, At, EntryPcs
<1>4. /\ entry'[e].st = "closed" /\ entry'[e].vol = entry[e].vol
      /\ entry'[e].clients = entry[e].clients /\ entry'[e].older = entry[e].older
      /\ entry'[e].user = entry[e].user
      /\ \A d \in Entries : d # e => entry'[d] = entry[d]
  BY <1>1 DEF LockClose, Close, DirTypes, Entry
<1>5. call'[q].pc \in {"reread", "clear"} /\ call'[q].tok = call[q].tok
  <2>1. Goto(q, "reread") \/ Goto(q, "clear")
    BY DEF LockClose
  <2> QED BY <2>1, GotoFields
<1>6. proc \notin {"down", "boot"}
  BY <1>1 DEF Booting, At
<1>7. \A p \in Everybody : p # q => Who(p)' = Who(p)
  BY DEF Who
<1>8. Unopened' /\ Registered'
  BY <1>1, <1>2, <1>3, <1>4, <1>6 DEF SessionInv, Unopened, Registered, Holders
<1>9. \A p \in Everybody : OnItsVolume(p)'
  BY <1>1, <1>2, <1>3, <1>4, <1>5 DEF SessionInv, OnItsVolume, EntryPcs
<1>10. \A p \in Everybody : Owns(p)'
  BY <1>1, <1>2, <1>3, <1>4, <1>5, <1>7 DEF SessionInv, Owns, At, EntryPcs
<1>11. \A p \in Everybody : Drops(p)' /\ Uses(p)'
  <2>1. ~At(q, "lockclose")' /\ ~At(q, "using")'
    BY <1>5 DEF At
  <2> HIDE DEF e
  <2>2. ASSUME NEW p \in Everybody, p # q
        PROVE  Drops(p)' /\ Uses(p)'
    <3>1. At(p, "using") => call[p].on # e
      <4>1. At(p, "using") => p \in Callers /\ p # None
        BY NoneAssumption, AtStep DEF MainPcs
      <4> QED BY <1>1, <4>1 DEF SessionInv, Uses
    <3>2. Drops(p)'
      BY <1>2, <2>2 DEF SessionInv, Drops, At
    <3>3. Uses(p)'
      BY <1>2, <1>4, <1>7, <2>2, <3>1 DEF SessionInv, Uses, At, EntryPcs, Holders
    <3> QED BY <3>2, <3>3
  <2> QED BY <2>1, <2>2 DEF Drops, Uses
<1>12. WebTokens'
  BY <1>1, <1>2, <1>4, <1>5 DEF SessionInv, WebTokens, WebToken
<1>13. proc' = "closing" => \A d \in todo' : ToClose(d)'
  <2>1. SUFFICES ASSUME proc = "closing", NEW d \in todo
                 PROVE  ToClose(d)'
    BY <1>2
  <2>2. d \in Entries /\ ToClose(d)
    BY <2>1 DEF SessionInv, ProcTypes
  <2>3. \A p \in Callers : call[p].pc \in {"clear", "idle"} => call'[p].pc \in {"clear", "idle"}
    BY <1>1 DEF At, Everybody
  <2>4. d # e
    BY <1>1, <2>2 DEF ToClose, At
  <2> QED BY <1>2, <1>4, <1>5, <2>2, <2>3, <2>4 DEF ToClose
<1>14. NoLeakedSession'
  BY <1>1, <1>2, <1>4, <1>5 DEF SessionInv, NoLeakedSession, Everybody, At
<1> QED BY <1>8, <1>9, <1>10, <1>11, <1>12, <1>13, <1>14 DEF SessionInv

(* An operation takes the session's lock, and gives it back.               *)
LEMMA UseSessions ==
  ASSUME TypeInv, SessionInv, NEW q \in Everybody, Enter(q) \/ Leave(q), UNCHANGED <<proc, todo>>,
         \A p \in Everybody : p # q => call'[p] = call[p]
  PROVE  SessionInv'
<1> USE EntryAssumption DEF TypeInv
<1> DEFINE e == call[q].on
           v == call[q].vid
<1>1. /\ call[q].pc \in {"enter", "using"} /\ q \in Callers /\ e \in Entries /\ v \in Volumes
      /\ call[q].rec \in VolumeRecord
  BY AtStep DEF Enter, Leave, MainPcs, EntryPcs, At
<1>2. /\ UNCHANGED <<sessions, held, pins, proc, todo>>
      /\ \A w \in Volumes : sessions[w] \in Entries \cup {None} /\ pins[w] \in Entries \cup {None}
      /\ \A p \in Everybody : /\ call[p].pc \in EntryPcs => call[p].on \in Entries
                              /\ call[p].tok \in Entries \cup {None}
  BY DEF Enter, Leave, DirTypes, CallTypes, Call, Refers
<1>3. CASE End(q) /\ UNCHANGED entry
  BY <1>1, <1>2, <1>3, EndFields, LookKeeps DEF EntryPcs
<1>4. CASE ~(End(q) /\ UNCHANGED entry)
  <2>1. /\ entry[e].user \in {None, q}
        /\ \A p \in Everybody : At(p, "install") => call[p].on # e
    BY <1>1 DEF Enter, Leave, Free, SessionInv, Uses, Owns, EntryPcs, At
  <2>2. \/ /\ Enter(q) /\ sessions[v] = e /\ Permitted(q, e)
           /\ entry' = [entry EXCEPT ![e].user = q] /\ Goto(q, "using")
        \/ entry' = [entry EXCEPT ![e].user = None] /\ End(q)
    BY <1>4 DEF Enter, Leave, StillThere
  <2>3. /\ entry'[e].st = entry[e].st /\ entry'[e].vol = entry[e].vol
        /\ entry'[e].clients = entry[e].clients /\ entry'[e].older = entry[e].older
        /\ \A d \in Entries : d # e => entry'[d] = entry[d]
    BY <1>1, <2>2 DEF DirTypes, Entry
  <2>4. /\ call'[q].pc \in {"using", "idle"} /\ call'[q].tok \in {None, call[q].tok}
        /\ call'[q].pc = "using" => call'[q].on = e /\ call'[q].vid = v
    BY <2>2, EndFields, GotoFields
  <2>5. \A p \in Everybody : p # q => Who(p)' = Who(p)
    BY DEF Who
  <2>6. Uses(q)'
    <3>1. SUFFICES ASSUME Goto(q, "using"), ~End(q)
                   PROVE  Uses(q)'
      BY <2>2, EndFields DEF Uses, At
    <3>2. /\ At(q, "enter") /\ sessions[v] = e /\ Permitted(q, e)
          /\ entry' = [entry EXCEPT ![e].user = q]
      BY <2>2, <3>1 DEF Enter
    <3>3. call[q].op \in {"files", "dav", "s3"}
      BY <3>2, AtStep DEF Fits
    <3>4. entry[e].st = "open" /\ Holders(e) # {}
      BY <1>1, <3>2 DEF SessionInv, Registered, Holders
    <3>5. Gated(call[q].rec) /\ call[q].op # "s3" => Who(q) \in entry[e].clients
      <4>1. CASE call[q].op = "dav"
        <5>1. Gated(call[q].rec) => call[q].tok = e
          BY <3>2, <4>1 DEF Permitted, Gated
        <5> QED BY <1>1, <3>4, <4>1, <5>1 DEF SessionInv, WebTokens, WebToken, Who
      <4>2. CASE call[q].op = "files"
        BY <3>2, <4>2 DEF Permitted, KnownClient, Who
      <4> QED BY <3>3, <4>1, <4>2
    <3>6. /\ call'[q].on = e /\ call'[q].rec = call[q].rec /\ call'[q].op = call[q].op
          /\ Who(q)' = Who(q) /\ entry'[e].user = q
      <4>1. call'[q].on = e /\ call'[q].rec = call[q].rec /\ call'[q].op = call[q].op
        BY <3>1, GotoFields
      <4>2. entry'[e].user = q
        BY <1>1, <3>2 DEF DirTypes, Entry
      <4> QED BY <4>1, <4>2 DEF Who
    <3> QED BY <2>3, <3>4, <3>5, <3>6 DEF Uses, Gated, Holders
  <2>7. Unopened' /\ Registered'
    BY <1>1, <1>2, <2>3 DEF SessionInv, Unopened, Registered, Holders
  <2>8. \A p \in Everybody : OnItsVolume(p)'
    BY <1>1, <1>2, <2>3, <2>4 DEF SessionInv, OnItsVolume, EntryPcs
  <2>9. \A p \in Everybody : Owns(p)'
    BY <1>1, <1>2, <2>1, <2>3, <2>4, <2>5 DEF SessionInv, Owns, At, EntryPcs
  <2>10. ASSUME NEW p \in Everybody, p # q
         PROVE  Drops(p)' /\ Uses(p)'
    <3> HIDE DEF e, v
    <3>1. At(p, "using") => call[p].on # e
      <4>1. At(p, "using") => p \in Callers /\ p # None
        BY NoneAssumption, AtStep DEF MainPcs
      <4> QED BY <2>1, <2>10, <4>1 DEF SessionInv, Uses
    <3>2. Drops(p)'
      BY <1>2, <2>10 DEF SessionInv, Drops, At
    <3>3. Uses(p)'
      BY <1>2, <2>3, <2>5, <2>10, <3>1 DEF SessionInv, Uses, At, EntryPcs, Holders
    <3> QED BY <3>2, <3>3
  <2>11. Drops(q)'
    BY <2>4 DEF Drops, At
  <2>12. WebTokens'
    BY <1>1, <1>2, <2>3, <2>4 DEF SessionInv, WebTokens, WebToken
  <2>13. proc' = "closing" => \A d \in todo' : ToClose(d)'
    <3>1. SUFFICES ASSUME proc = "closing", NEW d \in todo
                   PROVE  ToClose(d)'
      BY <1>2
    <3>2. d \in Entries /\ ToClose(d)
      BY <3>1 DEF SessionInv, ProcTypes
    <3>3. \A p \in Callers : call[p].pc \in {"clear", "idle"} => call'[p].pc \in {"clear", "idle"}
      BY <1>1 DEF Everybody
    <3> QED BY <1>1, <1>2, <2>3, <2>4, <3>2, <3>3 DEF ToClose
  <2>14. NoLeakedSession'
    BY <1>1, <1>2, <2>3, <2>4 DEF SessionInv, NoLeakedSession, Everybody
  <2> QED BY <2>6, <2>7, <2>8, <2>9, <2>10, <2>11, <2>12, <2>13, <2>14 DEF SessionInv
<1> QED BY <1>3, <1>4

LEMMA StepSessions ==
  ASSUME TypeInv, SessionInv, NEW q \in Everybody, Step(q)
  PROVE  SessionInv'
<1>1. \A p \in Everybody : p # q => call'[p] = call[p]
  BY StepMoves DEF TypeInv
<1>2. CASE StoreStep(q) \/ SupervisorStep(q) \/ Unlink(q)
  BY <1>2, StoreStepSessions
<1>3. CASE SessionStep(q)
  <2>1. UNCHANGED <<proc, todo>>
    BY <1>3 DEF SessionStep, procVars
  <2> QED BY <1>1, <1>3, <2>1, LookSessions, OpenSessions, InstallSessions, AttachSessions,
             DetachSessions, PopSessions, LockCloseSessions, UseSessions DEF SessionStep
<1> QED BY <1>2, <1>3 DEF Step

(* Nothing that sessions are about changes, but the stage of the process.  *)
LEMMA StageKeeps ==
  ASSUME TypeInv, SessionInv, UNCHANGED <<dirVars, call>>,
         proc' # "closing" \/ UNCHANGED <<proc, todo>>,
         proc' \in {"down", "boot"} => proc \in {"down", "boot"},
         proc' = "up" => proc \in {"boot", "up"}
  PROVE  SessionInv'
<1>1. /\ Registered' /\ WebTokens'
      /\ \A q \in Everybody : OnItsVolume(q)' /\ Owns(q)' /\ Drops(q)' /\ Uses(q)'
  BY DEF SessionInv, Registered, WebTokens, WebToken, OnItsVolume, Owns, Drops, Uses, At, Who,
         Gated, dirVars, Holders
<1>2. Unopened'
  BY DEF SessionInv, Unopened, dirVars
<1>3. proc' = "closing" => \A e \in todo' : ToClose(e)'
  BY DEF SessionInv, ToClose, dirVars
<1>4. NoLeakedSession'
  BY DEF SessionInv, NoLeakedSession, Unopened, dirVars
<1> QED BY <1>1, <1>2, <1>3, <1>4 DEF SessionInv

LEMMA BootSessions ==
  ASSUME TypeInv, SessionInv, Boot
  PROVE  SessionInv'
<1>1. CASE Preflight
  BY <1>1, StageKeeps DEF Preflight
<1>2. CASE Serve
  BY <1>2, StageKeeps DEF Serve
<1>3. ASSUME NEW v \in Volumes, AutoMount(v)
      PROVE  SessionInv'
  <2>1. call'[Main].pc = "reserve" /\ call'[Main].tok = None
    BY <1>3 DEF AutoMount, TypeInv, CallTypes, Everybody, Idle
  <2>2. \A p \in Everybody : p # Main => call'[p] = call[p]
    BY <1>3 DEF AutoMount, TypeInv, CallTypes
  <2>3. Main \in Everybody /\ call[Main].pc = "idle" /\ proc # "closing"
    BY <1>3 DEF AutoMount, Everybody, At
  <2>4. UNCHANGED <<sessions, held, proc, entry, pins>>
    BY <1>3 DEF AutoMount, dirVars
  <2>5. /\ Registered' /\ WebTokens'
        /\ \A q \in Everybody : OnItsVolume(q)' /\ Owns(q)' /\ Drops(q)' /\ Uses(q)'
    <3>1. Registered' /\ WebTokens'
      BY <2>1, <2>2, <2>4 DEF SessionInv, Registered, WebTokens, WebToken, Holders
    <3>2. \A q \in Everybody : OnItsVolume(q)' /\ Drops(q)'
      BY <2>1, <2>2, <2>4 DEF SessionInv, OnItsVolume, Drops, At, EntryPcs
    <3>3. \A q \in Everybody : Owns(q)' /\ Uses(q)'
      BY <2>1, <2>2, <2>3, <2>4 DEF SessionInv, Owns, Uses, At, Who, Gated, EntryPcs, Holders
    <3> QED BY <3>1, <3>2, <3>3
  <2>6. Unopened' /\ NoLeakedSession' /\ proc' # "closing"
    BY <1>3, <2>3, <2>4 DEF AutoMount, SessionInv, Unopened, NoLeakedSession
  <2> QED BY <2>5, <2>6 DEF SessionInv
<1> QED BY <1>1, <1>2, <1>3 DEF Boot

(* Whoever holds a session the shutdown is to close cannot register it.    *)
LEMMA ClearSessions ==
  ASSUME TypeInv, SessionInv, ShutdownClear
  PROVE  SessionInv'
<1> USE EntryAssumption DEF TypeInv
<1>1. /\ UNCHANGED <<entry, held, pins, call>> /\ proc' = "closing"
      /\ \A v \in Volumes : sessions'[v] = None
      /\ todo' = {sessions[v] : v \in Volumes} \ {None}
  BY DEF ShutdownClear
<1>2. \A p \in Everybody : call[p].pc \in EntryPcs => call[p].on \in Entries
  BY DEF CallTypes, Refers
<1>3. Unopened' /\ Registered' /\ NoLeakedSession'
  BY <1>1 DEF SessionInv, Unopened, Registered, NoLeakedSession
<1>4. WebTokens' /\ \A q \in Everybody : OnItsVolume(q)'
  BY <1>1 DEF SessionInv, WebTokens, WebToken, OnItsVolume
<1>5. \A q \in Everybody : Owns(q)' /\ Drops(q)' /\ Uses(q)'
  BY <1>1, <1>2 DEF SessionInv, Owns, Drops, Uses, At, Who, Gated, EntryPcs, Holders
<1>6. \A e \in todo' : ToClose(e)'
  <2>1. SUFFICES ASSUME NEW e \in todo'
                 PROVE  ToClose(e)'
    OBVIOUS
  <2>2. PICK v \in Volumes : e = sessions[v] /\ e # None
    BY <1>1
  <2>3. e \in Entries /\ entry[e].st = "open"
    BY <2>2 DEF SessionInv, Registered, DirTypes
  <2>4. \A q \in Everybody : call[q].pc \in {"install", "lockclose"} => call[q].on # e
    BY <2>2 DEF SessionInv, Owns, Drops, At
  <2> QED BY <1>1, <2>3, <2>4 DEF ToClose
<1> QED BY <1>1, <1>3, <1>4, <1>5, <1>6 DEF SessionInv

LEMMA CloseSessions ==
  ASSUME TypeInv, SessionInv, NEW e \in Entries, ShutdownClose(e)
  PROVE  SessionInv'
<1> USE EntryAssumption DEF TypeInv
<1>1. /\ UNCHANGED <<sessions, held, pins, call, proc>> /\ proc = "closing"
      /\ e \in todo /\ todo' = todo \ {e} /\ entry[e].user = None
  BY DEF ShutdownClose, Free
<1>2. /\ entry'[e].st = "closed" /\ entry'[e].vol = entry[e].vol
      /\ entry'[e].clients = entry[e].clients /\ entry'[e].older = entry[e].older
      /\ entry'[e].user = entry[e].user
      /\ \A d \in Entries : d # e => entry'[d] = entry[d]
  BY DEF ShutdownClose, Close, DirTypes, Entry
<1>3. /\ \A v \in Volumes : sessions[v] # e
      /\ \A q \in Everybody : call[q].pc \in {"install", "lockclose"} => call[q].on # e
  BY <1>1 DEF SessionInv, ToClose
<1>4. /\ \A w \in Volumes : sessions[w] \in Entries \cup {None} /\ pins[w] \in Entries \cup {None}
      /\ \A p \in Everybody : /\ call[p].pc \in EntryPcs => call[p].on \in Entries
                              /\ call[p].tok \in Entries \cup {None}
  BY DEF DirTypes, CallTypes, Call, Refers
<1>5. \A q \in Everybody : At(q, "using") => call[q].on # e
  <2>1. \A q \in Everybody : At(q, "using") => q # None
    BY AtStep, NoneAssumption DEF MainPcs
  <2> QED BY <1>1, <2>1 DEF SessionInv, Uses
<1>6. Unopened' /\ Registered' /\ NoLeakedSession'
  BY <1>1, <1>2, <1>3, <1>4 DEF SessionInv, Unopened, Registered, NoLeakedSession, Holders
<1>7. WebTokens' /\ \A q \in Everybody : OnItsVolume(q)'
  BY <1>1, <1>2, <1>4 DEF SessionInv, WebTokens, WebToken, OnItsVolume
<1>8. \A q \in Everybody : Owns(q)' /\ Drops(q)'
  BY <1>1, <1>2, <1>3, <1>4 DEF SessionInv, Owns, Drops, At, Who, EntryPcs
<1>9. \A q \in Everybody : Uses(q)'
  BY <1>1, <1>2, <1>4, <1>5 DEF SessionInv, Uses, At, Who, Gated, EntryPcs, Holders
<1>10. \A d \in todo' : ToClose(d)'
  <2>1. SUFFICES ASSUME NEW d \in todo, d # e
                 PROVE  ToClose(d)'
    BY <1>1
  <2>2. ToClose(d) /\ d \in Entries
    BY <1>1 DEF SessionInv, ProcTypes
  <2> QED BY <1>1, <1>2, <2>1, <2>2 DEF ToClose
<1> QED BY <1>6, <1>7, <1>8, <1>9, <1>10 DEF SessionInv

LEMMA DieSessions ==
  ASSUME TypeInv, Die
  PROVE  SessionInv'
<1>1. /\ \A v \in Volumes : sessions'[v] = None /\ pins'[v] = None
      /\ \A e \in Entries : entry'[e] = NoEntry
      /\ \A q \in Everybody : call'[q] = Idle
      /\ proc' = "down"
  BY DEF Die, TypeInv, CallTypes
<1>2. Unopened' /\ Registered' /\ WebTokens' /\ NoLeakedSession'
  BY <1>1 DEF Unopened, Registered, WebTokens, WebToken, NoLeakedSession, NoEntry, Idle
<1>3. \A q \in Everybody : OnItsVolume(q)' /\ Owns(q)' /\ Drops(q)' /\ Uses(q)'
  BY <1>1 DEF OnItsVolume, Owns, Drops, Uses, At, Idle, EntryPcs
<1> QED BY <1>1, <1>2, <1>3 DEF SessionInv

LEMMA SessionsInit == Init => SessionInv
<1> SUFFICES ASSUME Init
             PROVE  SessionInv
  OBVIOUS
<1>1. /\ \A v \in Volumes : sessions[v] = None /\ pins[v] = None
      /\ \A e \in Entries : entry[e] = NoEntry
      /\ \A q \in Everybody : call[q] = Idle
      /\ proc = "down"
  BY DEF Init
<1>2. Unopened /\ Registered /\ WebTokens /\ NoLeakedSession
  BY <1>1 DEF Unopened, Registered, WebTokens, WebToken, NoLeakedSession, NoEntry, Idle
<1>3. \A q \in Everybody : OnItsVolume(q) /\ Owns(q) /\ Drops(q) /\ Uses(q)
  BY <1>1 DEF OnItsVolume, Owns, Drops, Uses, At, Idle, EntryPcs
<1> QED BY <1>1, <1>2, <1>3 DEF SessionInv

LEMMA SessionsNext == TypeInv /\ SessionInv /\ [Next]_vars => SessionInv'
<1> SUFFICES ASSUME TypeInv, SessionInv, [Next]_vars
             PROVE  SessionInv'
  OBVIOUS
<1>1. CASE UNCHANGED vars
  BY <1>1, StageKeeps DEF vars, dirVars
<1>2. ASSUME NEW t \in Threads, ThreadStep(t)
      PROVE  SessionInv'
  BY <1>2, StageKeeps DEF ThreadStep, procVars
<1>3. ASSUME NEW v \in Volumes, Expiry(v)
      PROVE  SessionInv'
  BY <1>3, StageKeeps DEF Expiry, LeftExpires, procVars
<1>4. CASE Shutdown
  <2>1. CASE ShutdownStop
    BY <2>1, StageKeeps DEF ShutdownStop
  <2>2. CASE ShutdownJoin
    BY <2>2, StageKeeps DEF ShutdownJoin
  <2> QED BY <1>4, <2>1, <2>2, ClearSessions, CloseSessions, DieSessions DEF Shutdown, Exit
<1> QED BY <1>1, <1>2, <1>3, <1>4, RequestSessions, StepSessions, BootSessions, DieSessions
        DEF Next, Crash

LEMMA SessionInvHolds == Spec => []SessionInv
  BY SessionsInit, SessionsNext, TypeInvHolds, PTL DEF Spec

(* DirectSessionRegistry.session: whatever locks, detaches, deletions and  *)
(* shutdowns happened while a request waited for the session's lock, its   *)
(* operation runs on an open connection of its volume, on a gated volume   *)
(* under a mount of the client's own.                                      *)
THEOREM SessionsAreLive == Spec => []UsesLiveSession
<1>1. TypeInv /\ SessionInv => UsesLiveSession
  <2>1. SUFFICES ASSUME TypeInv, SessionInv, NEW q \in Callers, At(q, "using")
                 PROVE  LET e == call[q].on IN
                        /\ entry[e].st = "open"
                        /\ entry[e].vol = call[q].vid
                        /\ IF Gated(call[q].rec) /\ call[q].op # "s3" THEN Who(q) \in entry[e].clients
                                                                     ELSE Holders(e) # {}
    BY DEF UsesLiveSession, Holders
  <2>2. Uses(q) /\ OnItsVolume(q)
    BY <2>1 DEF SessionInv, Everybody
  <2> QED BY <2>1, <2>2 DEF Uses, OnItsVolume, At, EntryPcs, Holders
<1> QED BY <1>1, TypeInvHolds, SessionInvHolds, PTL

(* DirectSessionRegistry.unlock, lock, detach: an open connection is in    *)
(* the registry, or with the one request that is to install or close it.   *)
THEOREM SessionsAreKept == Spec => []NoLeakedSession
<1>1. SessionInv => NoLeakedSession
  BY DEF SessionInv
<1> QED BY <1>1, SessionInvHolds, PTL

---------------------------------------------------------------------------
(* The FUSE threads are kept in order                                      *)

(* A step of a call outside the supervisor's steps.                        *)
LEMMA AsideKeeps ==
  ASSUME TypeInv, SupInv, NEW q \in Everybody, UNCHANGED <<table, proc>>,
         \A t \in Threads : /\ thread'[t].st = thread[t].st /\ thread'[t].at = thread[t].at
                            /\ thread'[t].stop = thread[t].stop,
         \A p \in Everybody : p # q => call'[p] = call[p],
         call'[q].pc \notin TablePcs, proc \notin {"down", "boot"}
  PROVE  SupInv'
<1>1. Orderly' => OneAtATime' /\ Tabled' /\ \A p \in Everybody : Keeps(p)'
  BY DEF SupInv, Orderly, OneAtATime, Tabled, Keeps, TablePcs, Alive
<1>2. \A p \in Everybody : Stopped(p)'
  <2>1. \A p \in Everybody : call[p].pc \in {"forget", "join"} => call[p].on \in Threads
    BY DEF TypeInv, CallTypes, Refers, ThreadPcs
  <2> QED BY <2>1 DEF SupInv, Stopped, Alive, TablePcs, ThreadPcs
<1> QED BY <1>1, <1>2 DEF SupInv

(* The fields of the calls that the supervisor's steps move.               *)
LEMMA SupervisorFields ==
  ASSUME CallTypes, NEW q \in Everybody
  PROVE  /\ AwaitReady(q) => /\ call'[q].pc \in {"rollback", "mounted"}
                             /\ call'[q].on = call[q].on /\ call'[q].at = call[q].at
         /\ Stop(q) => /\ call'[q].pc \in {"forget", "join"}
                       /\ call'[q].on = call[q].on /\ call'[q].at = call[q].at
         /\ Forget(q) \/ Mounted(q) => call'[q].pc = "idle"
         /\ Join(q) => call'[q].pc \in {"idle", "reread", "clear"}
         /\ Lookup(q) => \/ call'[q].pc \in {"idle", "reread"}
                         \/ /\ call'[q].pc = "stop" /\ call'[q].at = MountpointOf(q)
                            /\ call'[q].on = table[call'[q].at]
  BY DEF CallTypes, Call, AwaitReady, Stop, Tell, Forget, Mounted, Join, Lookup, Goto, End, At, Idle

LEMMA ReserveKeeps ==
  ASSUME TypeInv, SupInv, NEW q \in Everybody, Reserve(q), UNCHANGED proc,
         \A p \in Everybody : p # q => call'[p] = call[p]
  PROVE  SupInv'
<1> USE DEF TypeInv
<1>1. At(q, "reserve") /\ call[q].at \in Mountpoints
  BY AtStep DEF Reserve
<1>2. proc # "down" /\ (proc = "boot" => q = Main)
  BY <1>1 DEF Booting, At, Everybody
<1>3. CASE End(q) /\ UNCHANGED <<table, thread>>
  <2>1. call'[q].pc = "idle" /\ UNCHANGED <<table, thread, volumes>>
    BY <1>3, EndFields DEF Reserve, storeVars
  <2>2. Orderly' => OneAtATime' /\ Tabled' /\ \A p \in Everybody : Keeps(p)'
    BY <2>1 DEF SupInv, Orderly, OneAtATime, Tabled, Keeps, TablePcs, ThreadPcs, Alive
  <2>3. \A p \in Everybody : Stopped(p)'
    BY <2>1 DEF SupInv, Stopped, Alive
  <2>4. proc = "boot" => Truthful'
    BY <1>2, <2>1 DEF SupInv, Truthful, ThreadPcs
  <2> QED BY <1>2, <2>2, <2>3, <2>4 DEF SupInv
<1>4. CASE ~(End(q) /\ UNCHANGED <<table, thread>>)
  <2>1. PICK t \in Threads :
          /\ Spare(t) /\ table[call[q].at] = None /\ UNCHANGED volumes
          /\ table' = [table EXCEPT ![call[q].at] = t]
          /\ thread' = [thread EXCEPT ![t] = [NoThread EXCEPT !.st = "new",
                            !.vol = call[q].vid, !.fs = call[q].rec.fs, !.at = call[q].at]]
          /\ call' = [call EXCEPT ![q].pc = "await", ![q].on = t]
    BY <1>4 DEF Reserve, NextThread, storeVars
  <2>2. call'[q].pc = "await" /\ call'[q].on = t /\ call'[q].at = call[q].at
    BY <2>1 DEF CallTypes, Call
  <2>3. /\ table'[call[q].at] = t
        /\ \A m \in Mountpoints : m # call[q].at => table'[m] = table[m]
    BY <1>1, <2>1 DEF SupTypes
  <2>4. /\ thread'[t].at = call[q].at
        /\ \A u \in Threads : u # t => thread'[u] = thread[u]
    BY <2>1 DEF SupTypes, NoThread
  <2>5. /\ \A p \in Everybody : call[p].on # t
        /\ \A p \in Everybody : call[p].pc \in ThreadPcs => call[p].on \in Threads
    BY <2>1 DEF Spare, CallTypes, Refers
  <2>6. Orderly' => OneAtATime' /\ Tabled' /\ \A p \in Everybody : Keeps(p)'
    <3>1. SUFFICES ASSUME Orderly
                   PROVE  OneAtATime' /\ Tabled' /\ \A p \in Everybody : Keeps(p)'
      BY DEF Orderly
    <3>2. OneAtATime /\ Tabled /\ \A p \in Everybody : p # q => call[p].pc \notin TablePcs
      BY <1>1, <3>1 DEF SupInv, OneAtATime, TablePcs, At
    <3>3. OneAtATime' /\ \A p \in Everybody : Keeps(p)'
      BY <2>2, <2>3, <3>2 DEF OneAtATime, Keeps, TablePcs
    <3>4. Tabled'
      <4>1. ASSUME NEW u \in Threads, u # t, Alive(u), ~thread[u].stop
            PROVE  table'[thread[u].at] = u
        <5>1. table[thread[u].at] = u /\ thread[u].at \in Mountpoints
          BY <3>2, <4>1 DEF Tabled, SupTypes
        <5>2. thread[u].at # call[q].at
          BY <2>1, <4>1, <5>1, ThreadAssumption
        <5> QED BY <2>3, <5>1, <5>2
      <4> QED BY <2>3, <2>4, <4>1 DEF Tabled, Alive
    <3> QED BY <3>3, <3>4
  <2>7. \A p \in Everybody : Stopped(p)'
    BY <2>2, <2>4, <2>5 DEF SupInv, Stopped, Alive, ThreadPcs
  <2>8. proc = "boot" => Truthful'
    <3>1. SUFFICES ASSUME proc = "boot", NEW v \in Volumes, volumes[v] # None, volumes[v].mounted
                   PROVE  LET m == volumes[v].mountpoint IN
                          m # None /\ table'[m] # None /\ call'[Main].at # m
      BY <2>1 DEF Truthful
    <3>2. /\ volumes[v].mountpoint \in Mountpoints /\ volumes[v].mountpoint # None
          /\ table[volumes[v].mountpoint] # None
      BY <3>1 DEF SupInv, Truthful, StoreTypes, VolumeRecord
    <3>3. volumes[v].mountpoint # call[q].at
      BY <2>1, <3>2
    <3>4. call'[Main].at = call[q].at
      BY <1>2, <2>2, <3>1
    <3>5. table'[volumes[v].mountpoint] = table[volumes[v].mountpoint]
      BY <2>3, <3>2, <3>3
    <3> QED BY <3>2, <3>3, <3>4, <3>5
  <2> QED BY <1>2, <2>6, <2>7, <2>8 DEF SupInv
<1> QED BY <1>3, <1>4

(* Waiting for readiness, looking the thread up and telling it to stop     *)
(* change no table.                                                        *)
LEMMA WaitKeeps ==
  ASSUME TypeInv, SupInv, NEW q \in Everybody, AwaitReady(q) \/ Stop(q) \/ Lookup(q), UNCHANGED proc,
         \A p \in Everybody : p # q => call'[p] = call[p]
  PROVE  SupInv'
<1> USE DEF TypeInv
<1>1. /\ call[q].pc \in {"await", "stop", "rollback", "lookup"}
      /\ UNCHANGED <<table, volumes>>
  BY DEF AwaitReady, Stop, Tell, Lookup, At, supVars, storeVars
<1>2. proc # "down" /\ (proc = "boot" => q = Main /\ call[q].pc # "lookup")
  BY <1>1 DEF Booting, At, Everybody, CallTypes, MainPcs
<1>3. call[q].pc # "lookup" => call[q].on \in Threads /\ call[q].at \in Mountpoints
  BY SMTT(30), <1>1 DEF CallTypes, Refers, ThreadPcs
<1>4. \/ /\ call[q].pc # "lookup" /\ call'[q].on = call[q].on /\ call'[q].at = call[q].at
         /\ call'[q].pc \in {"rollback", "mounted", "forget", "join"}
         /\ call'[q].pc \in {"forget", "join"} => Stop(q)
      \/ call[q].pc = "lookup" /\ call'[q].pc \in {"idle", "reread"}
      \/ /\ call[q].pc = "lookup" /\ call'[q].pc = "stop"
         /\ call'[q].on = table[call'[q].at]
  BY SupervisorFields DEF AwaitReady, Stop, Tell, Lookup, At
<1>5. \A t \in Threads : /\ thread'[t].st = thread[t].st /\ thread'[t].at = thread[t].at
                         /\ thread[t].stop /\ Alive(t) => thread'[t].stop
  BY <1>3 DEF AwaitReady, Stop, Tell, Lookup, supVars, SupTypes, Thread, Alive, At
<1>6. Orderly' => OneAtATime' /\ Tabled' /\ \A p \in Everybody : Keeps(p)'
  <2>1. SUFFICES ASSUME Orderly
                 PROVE  OneAtATime' /\ Tabled' /\ \A p \in Everybody : Keeps(p)'
    BY DEF Orderly
  <2>2. /\ \A p \in Everybody : p # q => call[p].pc \notin TablePcs
        /\ Tabled /\ Keeps(q)
    BY <1>1, <2>1 DEF SupInv, OneAtATime, TablePcs, ThreadPcs
  <2>3. OneAtATime' /\ \A p \in Everybody : Keeps(p)'
    BY <1>1, <1>4, <2>2 DEF OneAtATime, Keeps, TablePcs, ThreadPcs
  <2>4. Tabled'
    BY <1>1, <1>5, <2>2 DEF Tabled, Alive
  <2> QED BY <2>3, <2>4
<1>7. \A p \in Everybody : Stopped(p)'
  <2>1. ASSUME NEW p \in Everybody, p # q
        PROVE  Stopped(p)'
    <3>1. Stopped(p) /\ (call[p].pc \in {"forget", "join"} => call[p].on \in Threads)
      BY DEF SupInv, CallTypes, Refers, ThreadPcs
    <3> QED BY <1>5, <2>1, <3>1 DEF Stopped, Alive
  <2>2. Stopped(q)'
    <3>1. SUFFICES ASSUME Stop(q)
                   PROVE  thread'[call[q].on].stop \/ ~Alive(call[q].on)'
      BY <1>4 DEF Stopped
    <3>2. call[q].on \in Threads /\ call'[q].on = call[q].on
      BY <1>3, <1>4, <3>1 DEF Stop, At
    <3>3. CASE thread[call[q].on].st = "dead"
      <4>1. thread'[call[q].on].st = "dead"
        BY <1>5, <3>2, <3>3
      <4> QED BY <3>2, <4>1 DEF Alive
    <3>4. CASE thread[call[q].on].st # "dead"
      <4> QED BY <3>1, <3>2, <3>4 DEF Stop, Tell, SupTypes, Thread
    <3> QED BY <3>3, <3>4
  <2> QED BY <2>1, <2>2
<1>8. proc = "boot" => Truthful'
  BY <1>1, <1>2, <1>4 DEF SupInv, Truthful, ThreadPcs
<1> QED BY <1>2, <1>6, <1>7, <1>8 DEF SupInv

(* The table forgets only a thread that was told to stop.                  *)
LEMMA ForgetKeeps ==
  ASSUME TypeInv, SupInv, NEW q \in Everybody, Forget(q) \/ Join(q), UNCHANGED proc,
         \A p \in Everybody : p # q => call'[p] = call[p]
  PROVE  SupInv'
<1> USE DEF TypeInv
<1>1. /\ call[q].pc \in {"forget", "join"} /\ UNCHANGED <<volumes, thread>>
      /\ table' = [table EXCEPT ![call[q].at] = None]
  BY DEF Forget, Join, At, storeVars
<1>2. proc # "down" /\ (proc = "boot" => q = Main)
  BY <1>1 DEF Booting, At, Everybody
<1>3. call[q].on \in Threads /\ call[q].at \in Mountpoints
  BY <1>1 DEF CallTypes, Refers, ThreadPcs
<1>4. call'[q].pc \in {"idle", "reread", "clear"}
  BY SupervisorFields
<1>5. /\ table'[call[q].at] = None
      /\ \A m \in Mountpoints : m # call[q].at => table'[m] = table[m]
  BY <1>1, <1>3 DEF SupTypes
<1>6. Orderly' => OneAtATime' /\ Tabled' /\ \A p \in Everybody : Keeps(p)'
  <2>1. SUFFICES ASSUME Orderly
                 PROVE  OneAtATime' /\ Tabled' /\ \A p \in Everybody : Keeps(p)'
    BY DEF Orderly
  <2>2. /\ \A p \in Everybody : p # q => call[p].pc \notin TablePcs
        /\ Tabled /\ Keeps(q) /\ Stopped(q)
    BY <1>1, <2>1 DEF SupInv, OneAtATime, TablePcs, ThreadPcs
  <2>3. OneAtATime' /\ \A p \in Everybody : Keeps(p)'
    BY <1>4, <2>2 DEF OneAtATime, Keeps, TablePcs, ThreadPcs
  <2>4. ASSUME NEW t \in Threads, Alive(t), ~thread[t].stop
        PROVE  table'[thread[t].at] = t
    <3>1. table[thread[t].at] = t /\ thread[t].at \in Mountpoints
      BY <2>2, <2>4 DEF Tabled, SupTypes
    <3>2. thread[t].at # call[q].at
      BY <1>1, <2>2, <2>4, <3>1 DEF Keeps, Stopped, ThreadPcs
    <3> QED BY <1>5, <3>1, <3>2
  <2> QED BY <1>1, <2>3, <2>4 DEF Tabled, Alive
<1>7. \A p \in Everybody : Stopped(p)'
  BY <1>1, <1>4 DEF SupInv, Stopped, Alive
<1>8. proc = "boot" => Truthful'
  <2>1. SUFFICES ASSUME proc = "boot", NEW v \in Volumes, volumes[v] # None, volumes[v].mounted
                 PROVE  LET m == volumes[v].mountpoint IN
                        m # None /\ table'[m] # None
    BY <1>1, <1>2, <1>4 DEF Truthful, ThreadPcs
  <2>2. /\ volumes[v].mountpoint \in Mountpoints /\ volumes[v].mountpoint # None
        /\ table[volumes[v].mountpoint] # None
        /\ call[Main].at # volumes[v].mountpoint
    BY SMTT(30), <1>1, <1>2, <2>1 DEF SupInv, Truthful, StoreTypes, VolumeRecord, ThreadPcs
  <2> QED BY <1>2, <1>5, <2>1, <2>2
<1> QED BY <1>2, <1>6, <1>7, <1>8 DEF SupInv

(* A mount that came up is recorded; at startup its thread is in the table. *)
LEMMA MountedKeeps ==
  ASSUME TypeInv, SupInv, NEW q \in Everybody, Mounted(q), UNCHANGED proc,
         \A p \in Everybody : p # q => call'[p] = call[p]
  PROVE  SupInv'
<1> USE DEF TypeInv
<1>1. At(q, "mounted") /\ UNCHANGED <<table, thread>> /\ call'[q].pc = "idle"
  BY SupervisorFields DEF Mounted, supVars
<1>2. proc # "down" /\ (proc = "boot" => q = Main)
  BY <1>1 DEF Booting, At, Everybody
<1>3. /\ call[q].on \in Threads /\ call[q].at \in Mountpoints /\ call[q].vid \in Volumes
      /\ call[q].rec \in VolumeRecord
  BY <1>1, AtStep DEF ThreadPcs
<1>4. Orderly' => OneAtATime' /\ Tabled' /\ \A p \in Everybody : Keeps(p)'
  BY <1>1 DEF SupInv, Orderly, OneAtATime, Tabled, Keeps, TablePcs, ThreadPcs, Alive
<1>5. \A p \in Everybody : Stopped(p)'
  BY <1>1 DEF SupInv, Stopped, Alive
<1>6. proc = "boot" => Truthful'
  <2>1. SUFFICES ASSUME proc = "boot", NEW v \in Volumes, volumes'[v] # None, volumes'[v].mounted
                 PROVE  LET m == volumes'[v].mountpoint IN
                        m # None /\ table[m] # None
    BY <1>1, <1>2 DEF Truthful, ThreadPcs
  <2>2. CASE v = call[q].vid
    <3>1. volumes'[v].mountpoint = call[q].at
      BY <1>3, <2>2 DEF Mounted, Put, StoreTypes, VolumeRecord
    <3>2. table[call[q].at] = call[q].on
      BY <1>1, <2>1 DEF SupInv, Orderly, Keeps, ThreadPcs, At
    <3> QED BY <1>3, <3>1, <3>2, NoneAssumption, ThreadAssumption DEF Mountpoints
  <2>3. CASE v # call[q].vid
    <3>1. volumes'[v] = volumes[v]
      BY <1>3, <2>3 DEF Mounted, Put, StoreTypes
    <3> QED BY <2>1, <3>1 DEF SupInv, Truthful
  <2> QED BY <2>2, <2>3
<1> QED BY <1>2, <1>4, <1>5, <1>6 DEF SupInv

LEMMA StepThreads ==
  ASSUME TypeInv, SupInv, NEW q \in Everybody, Step(q)
  PROVE  SupInv'
<1> USE DEF TypeInv
<1>1. \A p \in Everybody : p # q => call'[p] = call[p]
  BY StepMoves
<1>2. CASE SupervisorStep(q)
  <2>1. UNCHANGED proc
    BY <1>2 DEF SupervisorStep, procVars
  <2> QED BY <1>1, <1>2, <2>1, ReserveKeeps, WaitKeeps, ForgetKeeps, MountedKeeps DEF SupervisorStep
<1>3. CASE StoreStep(q) \/ SessionStep(q) \/ Unlink(q)
  <2>1. UNCHANGED <<table, proc>>
    BY <1>3 DEF StoreStep, SessionStep, Unlink, procVars, supVars
  <2>2. \A t \in Threads : /\ thread'[t].st = thread[t].st /\ thread'[t].at = thread[t].at
                           /\ thread'[t].stop = thread[t].stop
    BY <1>3 DEF StoreStep, SessionStep, Unlink, supVars, SupTypes, Thread
  <2>3. call[q].pc \notin MainPcs \cup TablePcs
    <3>1. CASE StoreStep(q) \/ Unlink(q)
      BY SMTT(30), <3>1 DEF StoreStep, PutFs, Reread, Drop, Retire, RecordFs, Record, Clear, Unlink,
                  MainPcs, TablePcs, ThreadPcs, At
    <3>2. CASE SessionStep(q)
      BY <3>2 DEF SessionStep, Route, Open, Install, Attach, Unlocked, Detaching, DavToken, DavKept,
                  DavAgain, DavCache, S3Session, Detach, PopSession, LockClose, Seek, Enter, Leave,
                  MainPcs, TablePcs, ThreadPcs, At
    <3> QED BY <1>3, <3>1, <3>2
  <2>4. proc \notin {"down", "boot"}
    BY <2>3 DEF Booting, CallTypes, At, Everybody, MainPcs
  <2>5. call'[q].pc \notin TablePcs
    <3>1. CASE Reread(q)
      BY <3>1 DEF Reread, CallTypes, Call, TablePcs, ThreadPcs
    <3>2. CASE (StoreStep(q) /\ ~Reread(q)) \/ Unlink(q)
      <4>1. End(q) \/ Goto(q, "retire") \/ Goto(q, "unlink") \/ Goto(q, "record")
        BY <3>2 DEF StoreStep, PutFs, Drop, Retire, RecordFs, Record, Clear, Unlink
      <4> QED BY <4>1, EndFields, GotoFields DEF TablePcs, ThreadPcs
    <3>3. CASE SessionStep(q)
      <4>1. ASSUME Already(q) \/ End(q)
            PROVE  call'[q].pc \notin TablePcs
        BY <4>1, EndFields, AlreadyFields DEF TablePcs, ThreadPcs
      <4>2. ASSUME NEW pc, pc \notin TablePcs, NEW on, NEW tok,
                   \/ Goto(q, pc)
                   \/ call' = [call EXCEPT ![q].pc = pc, ![q].on = on]
                   \/ call' = [call EXCEPT ![q].pc = pc, ![q].tok = tok]
            PROVE  call'[q].pc \notin TablePcs
        BY <4>2 DEF Goto, CallTypes, Call
      <4>3. ASSUME NEW e, Given(q, e)
            PROVE  call'[q].pc \notin TablePcs
        BY <4>2, <4>3 DEF Given, TablePcs, ThreadPcs
      <4>4. CASE Open(q) \/ Install(q) \/ Attach(q)
        BY <4>1, <4>2, <4>3, <4>4 DEF Open, Lost, Install, Attach, TablePcs, ThreadPcs
      <4>5. CASE Route(q) \/ Unlocked(q) \/ Detaching(q) \/ DavToken(q) \/ DavKept(q) \/ DavAgain(q)
        BY <4>1, <4>2, <4>5 DEF Route, Unlocked, Detaching, DavToken, DavKept, DavAgain, TablePcs, ThreadPcs
      <4>6. CASE \/ DavCache(q) \/ S3Session(q) \/ Detach(q) \/ PopSession(q) \/ LockClose(q)
                 \/ Seek(q) \/ Enter(q) \/ Leave(q)
        BY <4>1, <4>2, <4>6 DEF DavCache, S3Session, Detach, PopSession, LockClose, Seek, Enter, Leave,
                                TablePcs, ThreadPcs
      <4> QED BY <3>3, <4>4, <4>5, <4>6 DEF SessionStep
    <3> QED BY <1>3, <3>1, <3>2, <3>3
  <2> QED BY <1>1, <2>1, <2>2, <2>4, <2>5, AsideKeeps
<1> QED BY <1>2, <1>3 DEF Step

(* Clients that wait for one another begin one change of the table.        *)
LEMMA RequestThreads ==
  ASSUME TypeInv, SupInv, NEW q \in Callers, Request(q)
  PROVE  SupInv'
<1> USE DEF TypeInv
<1>1. /\ proc = "up" /\ At(q, "idle")
      /\ UNCHANGED <<supVars, dirVars, proc, todo>>
  BY RequestBegins
<1>2. PICK c : /\ Begun(c) /\ call' = [call EXCEPT ![q] = c]
               /\ c.pc \in {"reserve", "lookup"} => Quiet
  BY RequestBegins
<1>3. q \in Everybody /\ call'[q] = c /\ \A p \in Everybody : p # q => call'[p] = call[p]
  BY <1>2 DEF CallTypes, Everybody
<1>4. c.pc \notin ThreadPcs /\ (c.pc \in TablePcs => Quiet)
  BY <1>2 DEF Begun, BeginPcs, TablePcs, ThreadPcs
<1>5. CASE c.pc \notin TablePcs
  BY <1>1, <1>3, <1>5, AsideKeeps DEF supVars
<1>6. CASE c.pc \in TablePcs
  <2>1. Orderly' => OneAtATime' /\ Tabled' /\ \A p \in Everybody : Keeps(p)'
    <3>1. SUFFICES ASSUME OneFuseCall
                   PROVE  OneAtATime' /\ Tabled' /\ \A p \in Everybody : Keeps(p)'
      BY <1>1 DEF Orderly
    <3>2. \A p \in Everybody : call[p].pc \notin TablePcs
      BY <1>4, <1>6, <3>1 DEF Quiet, FuseSteps, TablePcs, ThreadPcs, CallTypes
    <3>3. Tabled /\ \A p \in Everybody : Keeps(p)
      BY <1>1, <3>1 DEF SupInv, Orderly
    <3> QED BY <1>1, <1>3, <1>4, <3>2, <3>3 DEF OneAtATime, Tabled, Keeps, Alive, supVars, TablePcs
  <2>2. \A p \in Everybody : Stopped(p)'
    BY <1>1, <1>3, <1>4 DEF SupInv, Stopped, Alive, supVars, ThreadPcs
  <2> QED BY <1>1, <2>1, <2>2 DEF SupInv
<1> QED BY <1>5, <1>6

LEMMA ThreadStepThreads ==
  ASSUME TypeInv, SupInv, NEW t \in Threads, ThreadStep(t)
  PROVE  SupInv'
<1> USE DEF TypeInv
<1>1. UNCHANGED <<volumes, proc, call, table>> /\ Alive(t)
  BY DEF ThreadStep, FuseMount, FuseInit, FuseReturn, procVars, storeVars, Alive
<1>2. \/ Dies(t)
      \/ \E st \in {"admitted", "serving"} : thread' = [thread EXCEPT ![t].st = st]
  BY DEF ThreadStep, FuseMount, FuseInit, FuseReturn
<1>3. /\ \A u \in Threads : u # t => thread'[u] = thread[u]
      /\ \/ thread'[t].st = "dead"
         \/ thread'[t].at = thread[t].at /\ thread'[t].stop = thread[t].stop
  BY <1>2 DEF Dies, SupTypes, NoThread, Thread
<1>4. \A u \in Threads : /\ Alive(u)' => Alive(u) /\ thread'[u].at = thread[u].at
                                           /\ thread'[u].stop = thread[u].stop
  BY <1>1, <1>3 DEF Alive
<1>5. Orderly' => OneAtATime' /\ Tabled' /\ \A p \in Everybody : Keeps(p)'
  BY <1>1, <1>4 DEF SupInv, Orderly, OneAtATime, Tabled, Keeps
<1>6. \A p \in Everybody : Stopped(p)'
  <2>1. \A p \in Everybody : call[p].pc \in {"forget", "join"} => call[p].on \in Threads
    BY DEF CallTypes, Refers, ThreadPcs
  <2>2. \A u \in Threads : thread[u].stop \/ ~Alive(u) => thread'[u].stop \/ ~Alive(u)'
    BY <1>4
  <2> QED BY <1>1, <2>1, <2>2 DEF SupInv, Stopped
<1>7. proc # "down"
  BY <1>1 DEF SupInv, Alive
<1> QED BY <1>1, <1>5, <1>6, <1>7 DEF SupInv, Truthful

LEMMA BootThreads ==
  ASSUME TypeInv, SupInv, Boot
  PROVE  SupInv'
<1> USE DEF TypeInv
<1>1. CASE Preflight
  <2>1. /\ proc = "down" /\ proc' = "boot" /\ UNCHANGED <<call, thread, table>>
        /\ \A q \in Everybody : call[q].pc = "idle"
        /\ \A t \in Threads : thread[t].st = "free"
    BY <1>1 DEF Preflight, Booting, At, Everybody, SupInv
  <2>2. OneAtATime' /\ Tabled' /\ \A q \in Everybody : Keeps(q)' /\ Stopped(q)'
    BY <2>1 DEF OneAtATime, Tabled, Keeps, Stopped, TablePcs, ThreadPcs, Alive
  <2>3. ASSUME NEW v \in Volumes, volumes'[v] # None
        PROVE  ~volumes'[v].mounted
    <3>1. volumes'[v] = Recovered(v) /\ volumes[v] # None
      BY <1>1, <2>3 DEF Preflight, Recovered, StaleFuse, StaleDirect
    <3>2. volumes[v] \in VolumeRecord /\ Placed(volumes[v])
      BY <3>1 DEF StoreTypes
    <3>3. volumes[v].mountpoint # None => ~Active(volumes[v].mountpoint)
      BY <2>1, <3>2 DEF SupInv, VolumeRecord
    <3>4. volumes[v].mounted => v \in StaleFuse \cup StaleDirect
      BY <3>1, <3>2, <3>3 DEF StaleFuse, StaleDirect, Placed
    <3> QED BY SMTT(30), <3>1, <3>2, <3>4 DEF Recovered, VolumeRecord
  <2> QED BY <2>1, <2>2, <2>3 DEF SupInv, Truthful
<1>2. ASSUME NEW v \in Volumes, AutoMount(v)
      PROVE  SupInv'
  <2>1. /\ proc = "boot" /\ UNCHANGED <<proc, volumes, thread, table>>
        /\ \A q \in Everybody : call[q].pc = "idle"
    BY <1>2 DEF AutoMount, Booting, At, Everybody, supVars, storeVars
  <2>2. call'[Main].pc = "reserve" /\ \A q \in Everybody : q # Main => call'[q] = call[q]
    BY <1>2 DEF AutoMount, CallTypes, Everybody, Idle
  <2>3. OneAtATime' /\ Tabled' /\ \A q \in Everybody : Keeps(q)' /\ Stopped(q)'
    BY <2>1, <2>2 DEF SupInv, Orderly, OneAtATime, Tabled, Keeps, Stopped, TablePcs, ThreadPcs, Alive
  <2>4. Truthful'
    BY <2>1, <2>2 DEF SupInv, Truthful, ThreadPcs
  <2> QED BY <2>1, <2>3, <2>4 DEF SupInv
<1>3. CASE Serve
  <2>1. proc = "boot" /\ proc' = "up" /\ UNCHANGED <<call, thread, table>>
    BY <1>3 DEF Serve, supVars
  <2> QED BY <2>1 DEF SupInv, Orderly, OneAtATime, Tabled, Keeps, Stopped, Alive
<1> QED BY <1>1, <1>2, <1>3 DEF Boot

LEMMA DieThreads ==
  ASSUME TypeInv, Die
  PROVE  SupInv'
<1>1. /\ proc' = "down"
      /\ \A q \in Everybody : call'[q].pc = "idle"
      /\ \A t \in Threads : thread'[t].st = "free"
  BY DEF Die, TypeInv, CallTypes, Idle, NoThread
<1>2. ASSUME NEW m \in Mountpoints
      PROVE  ~Active(m)'
  <2>1. /\ stack[m] \in Seq(Threads \cup {None}) /\ Len(stack[m]) \in Nat
        /\ DOMAIN stack[m] = 1 .. Len(stack[m])
    BY DEF TypeInv, SupTypes
  <2>2. stack'[m] = [i \in 1 .. Len(stack[m]) |-> None]
    BY <2>1 DEF Die
  <2>3. CASE Len(stack[m]) = 0
    <3>1. stack'[m] = <<>>
      BY <2>2, <2>3
    <3> QED BY <3>1 DEF Active
  <2>4. CASE Len(stack[m]) # 0
    <3>1. Head(stack'[m]) = None
      <4>1. 1 \in 1 .. Len(stack[m])
        BY <2>1, <2>4
      <4> QED BY <2>2, <4>1
    <3> QED BY <3>1 DEF Active
  <2> QED BY <2>3, <2>4
<1> QED BY <1>1, <1>2 DEF SupInv, Orderly, Stopped

LEMMA ShutdownThreads ==
  ASSUME TypeInv, SupInv, Shutdown
  PROVE  SupInv'
<1> USE DEF TypeInv
<1>1. CASE ShutdownStop
  <2>1. \A t \in Threads : thread'[t].st = thread[t].st /\ (thread[t].stop => thread'[t].stop)
    BY <1>1 DEF ShutdownStop, SupTypes, Thread
  <2>2. \A q \in Everybody : call[q].pc \in {"forget", "join"} => call[q].on \in Threads
    BY DEF CallTypes, Refers, ThreadPcs
  <2> QED BY <1>1, <2>1, <2>2 DEF ShutdownStop, SupInv, Orderly, Stopped, Alive
<1>2. CASE ShutdownJoin
  BY <1>2 DEF ShutdownJoin, SupInv, Orderly, Stopped, Alive
<1>3. CASE ShutdownClear
  BY <1>3 DEF ShutdownClear, SupInv, Orderly, Stopped, Alive, supVars
<1>4. ASSUME NEW e \in Entries, ShutdownClose(e)
      PROVE  SupInv'
  BY <1>4 DEF ShutdownClose, SupInv, Orderly, Stopped, Alive, supVars
<1> QED BY <1>1, <1>2, <1>3, <1>4, DieThreads DEF Shutdown, Exit

LEMMA ThreadsInit == Init => SupInv
  BY DEF Init, SupInv, Orderly, Stopped, Active, Idle, NoThread, Everybody

LEMMA ThreadsNext == TypeInv /\ SupInv /\ [Next]_vars => SupInv'
<1> SUFFICES ASSUME TypeInv, SupInv, [Next]_vars
             PROVE  SupInv'
  OBVIOUS
<1>1. ASSUME UNCHANGED <<volumes, table, thread, stack, call, proc>>
      PROVE  SupInv'
  BY <1>1 DEF SupInv, Orderly, OneAtATime, Tabled, Keeps, Stopped, Truthful, Active, Alive
<1>2. CASE UNCHANGED vars
  BY <1>1, <1>2 DEF vars
<1>3. ASSUME NEW v \in Volumes, Expiry(v)
      PROVE  SupInv'
  BY <1>1, <1>3 DEF Expiry, LeftExpires, procVars, storeVars
<1> QED BY <1>2, <1>3, RequestThreads, StepThreads, ThreadStepThreads, BootThreads,
           ShutdownThreads, DieThreads DEF Next, Crash

LEMMA SupInvHolds == Spec => []SupInv
  BY ThreadsInit, ThreadsNext, TypeInvHolds, PTL DEF Spec

(* MountSupervisor.mount, unmount: where clients wait for one mount,       *)
(* unmount or deletion before they start the next, a FUSE thread nobody    *)
(* told to stop is in the table under its mountpoint, through failed       *)
(* mounts, join timeouts, exits, crashes and restarts.                     *)
THEOREM NoThreadIsOrphaned ==
  ASSUME OneFuseCall
  PROVE  Spec => []NoOrphanThread
<1>1. SupInv => NoOrphanThread
  BY DEF SupInv, Orderly, Tabled, Alive, NoOrphanThread
<1> QED BY <1>1, SupInvHolds, PTL

(* recover_stale_mounts and auto_mount_all: a manager that begins to serve *)
(* has a thread in its table for every volume marked mounted.              *)
THEOREM BootIsTruthful == Spec => BootRecovers
<1>1. SupInv /\ [Next]_vars =>
        [proc = "boot" /\ proc' = "up" =>
           \A v \in Volumes : volumes[v] # None /\ volumes[v].mounted =>
              volumes[v].mountpoint # None /\ table[volumes[v].mountpoint] # None]_vars
  BY DEF SupInv, Truthful
<1> QED BY <1>1, SupInvHolds, PTL DEF Spec, BootRecovers
====
