---- MODULE Connections ----
(***************************************************************************)
(* Connections to a database file (aloelite/db.py) and the ids they mint   *)
(* (aloelite/ids.py).  Opening brings the file to the current schema era,  *)
(* by statements that commit one at a time, beside other openers, and may  *)
(* die at any of them.  An open connection then creates nodes and edges in *)
(* transactions; their ids come from a mint in its memory, fenced by the   *)
(* watermark of the volume.                                                *)
(*                                                                         *)
(* One volume is modelled, in WAL mode: readers keep the snapshot of their *)
(* first read, one transaction writes, and a writer whose snapshot is not  *)
(* the last commit is refused.                                             *)
(***************************************************************************)
EXTENDS Naturals, FiniteSets, Sequences, SequencesExt

CONSTANTS
  Procs,       \* connections
  Eras,        \* eras the file may be of: 0 has no stamp, with tables or without
  Tables,      \* tables, each with columns its migration adds
  Stamps,      \* columns of timestamps
  Early,       \* those with times under _NS_BOUND in nanoseconds too
  Objects,     \* triggers and views
  None,
  SeqLimit,    \* _SEQ_LIMIT
  MaxTime,     \* bound on the clock
  MaxOpens,    \* bound on the connections opened
  MaxMints     \* bound on the ids minted

SchemaEra == 3   \* SCHEMA_ERA

ASSUME SchemaAssumption ==
  /\ IsFiniteSet(Tables) /\ Tables # {} /\ IsFiniteSet(Stamps) /\ IsFiniteSet(Objects)
  /\ Early \subseteq Stamps
  /\ Eras \subseteq Nat

VARIABLES
  era,       \* PRAGMA user_version
  table,     \* "none", "old" without the columns of era 2, or "new"
  unit,      \* of the stored times: "ms", "ns", or "over", scaled twice
  unique,    \* a node may have one placement only: the index edge_active_placement
  named,     \* every edge has a name
  derived,   \* the era a trigger or view is from, or None
  wm,        \* the volume's watermark <<wm_ts, wm_seq>>
  ids,       \* the ids of committed rows, each with the connection's number
  conn,      \* a connection's state, or None
  writer,    \* the connection whose transaction has written, or None
  opens, mints

schema == <<era, table, unit, unique, named, derived>>
vars == <<schema, wm, ids, conn, writer, opens, mints>>

---------------------------------------------------------------------------
(* The order of ids is that of <<ts, seq>>.                                *)

Above(a, b) == a[1] > b[1] \/ (a[1] = b[1] /\ a[2] > b[2])
Higher(a, b) == IF Above(a, b) THEN a ELSE b

(* MonotonicMint before its first fence: the sequence starts at -1, under  *)
(* every watermark.                                                        *)
Bottom == <<0, 0>>

(* variant: the mint is not fenced (IdsRise) *)
FenceNone(mint, mark) == mint

(* MonotonicMint.fence *)
Fence(mint, mark) == Higher(mark, mint)

(* MonotonicMint.mint *)
NextId(mint, now) ==
  IF now > mint[1] THEN <<now, 0>>
  ELSE IF mint[2] + 1 < SeqLimit THEN <<mint[1], mint[2] + 1>>
  ELSE <<mint[1] + 1, 0>>

---------------------------------------------------------------------------
(* What opening a file of an era does, statement by statement.             *)

Each(op, set) == SetToSeq({<<op, x>> : x \in set})

(* Each table is looked at, and a column is added to it. *)
AddColumns ==
  LET order == SetToSeq(Tables) IN
  [i \in 1..(2 * Len(order)) |->
     IF i % 2 = 1 THEN <<"look", order[(i + 1) \div 2]>> ELSE <<"add", order[i \div 2]>>]

ToEra2 == AddColumns \o Each("scale", Stamps) \o <<<<"unindex", None>>>>
ToEra3 == <<<<"name", None>>>>

Upgrade(from) == (IF from < 2 THEN ToEra2 ELSE <<>>) \o (IF from < 3 THEN ToEra3 ELSE <<>>)

Script == Each("table", Tables) \o Each("make", Objects) \o <<<<"stamp", None>>>>

(* variant: a file of the current era is taken to be whole (GuardsUp) *)
PlanStamped(from, fresh) ==
  IF from = SchemaEra THEN <<<<"stamp", None>>>>
  ELSE (IF fresh THEN <<>> ELSE Upgrade(from))
       \o <<<<"list", None>>>> \o Each("drop", Objects) \o Script

Plan(from, fresh) ==
  IF from = SchemaEra THEN Script
  ELSE (IF fresh THEN <<>> ELSE Upgrade(from))
       \o <<<<"list", None>>>> \o Each("drop", Objects) \o Script

(* What an opener may do, what a mint may hold, and what a transaction     *)
(* reads when it begins: the watermark and the rows there are.             *)
Steps == ({"look", "add", "table"} \X Tables) \cup ({"scale"} \X Stamps)
      \cup ({"drop", "make"} \X Objects) \cup ({"sniff", "unindex", "name", "list", "stamp"} \X {None})
Id == Nat \X Nat
Row == [id: Id, by: Nat]
Snapshot == Id \X SUBSET Row

ConnectionState ==
  [number: Nat, from: Nat, plan: Seq(Steps), listed: SUBSET Objects,
   mint: Id \cup {None}, floor: SUBSET Row, snap: Snapshot \cup {None},
   stale: BOOLEAN, made: Seq(Id), beside: BOOLEAN]

ASSUME NoneAssumption == None \notin Procs \cup Nat \cup Id \cup Snapshot \cup ConnectionState

Opening(p) == conn[p] # None /\ conn[p].plan # <<>>
Serving(p) == conn[p] # None /\ conn[p].plan = <<>>
Doing(p, op) == Opening(p) /\ Head(conn[p].plan)[1] = op
Operand(p) == Head(conn[p].plan)[2]

(* beside is a ghost: another opener upgraded the file during its life;    *)
(* floor are the committed ids it was fenced above.                        *)
Connection(number, from, beside) ==
  [number |-> number, from |-> from, plan |-> <<<<"sniff", None>>>>, listed |-> {},
   mint |-> None, floor |-> {}, snap |-> None, stale |-> FALSE, made |-> <<>>,
   beside |-> beside]

Upgrading(p) == Opening(p) /\ conn[p].from < SchemaEra

Next1(p, c) == [c EXCEPT ![p].plan = Tail(@)]

(* A commit: the snapshots of open transactions are no longer the last.    *)
Staled(p, c) == [q \in Procs |-> IF q # p /\ c[q] # None /\ c[q].snap # None
                                 THEN [c[q] EXCEPT !.stale = TRUE] ELSE c[q]]

Statement(p) == writer = None /\ conn' = Staled(p, Next1(p, conn))

---------------------------------------------------------------------------
(* Db.open                                                                 *)

(* A newer era is refused. *)
Connect(p) ==
  /\ conn[p] = None /\ opens < MaxOpens /\ era <= SchemaEra
  /\ opens' = opens + 1
  /\ conn' = [q \in Procs |->
       IF q = p THEN Connection(opens + 1, era, \E r \in Procs : Upgrading(r))
       ELSE IF conn[q] # None /\ era < SchemaEra THEN [conn[q] EXCEPT !.beside = TRUE]
       ELSE conn[q]]
  /\ UNCHANGED <<schema, wm, ids, writer, mints>>

(* Is there a table?  Then there is something to migrate. *)
Sniff(p) ==
  /\ Doing(p, "sniff")
  /\ conn' = [conn EXCEPT ![p].plan =
                Plan(conn[p].from, \A t \in Tables : table[t] = "none")]
  /\ UNCHANGED <<schema, wm, ids, writer, opens, mints>>

(* _column_exists *)
Look(p) ==
  /\ Doing(p, "look")
  /\ conn' = IF table[Operand(p)] = "new" THEN Next1(p, Next1(p, conn)) ELSE Next1(p, conn)
  /\ UNCHANGED <<schema, wm, ids, writer, opens, mints>>

(* ALTER TABLE raises when there is no table, and when another opener has  *)
(* added the column since: the open fails.                                 *)
Add(p) ==
  /\ Doing(p, "add")
  /\ IF table[Operand(p)] = "old"
     THEN table' = [table EXCEPT ![Operand(p)] = "new"] /\ Statement(p)
     ELSE conn' = [conn EXCEPT ![p] = None] /\ UNCHANGED table
  /\ UNCHANGED <<era, unit, unique, named, derived, wm, ids, writer, opens, mints>>

(* variant: without the bound a rerun scales again (EraHonest) *)
ScaledAgain(s) == IF unit[s] = "ms" THEN "ns" ELSE "over"

(* UPDATE ... WHERE the value is below _NS_BOUND: once, except for times   *)
(* so early that they are still below it.                                  *)
Scaled(s) == IF unit[s] = "ms" THEN "ns" ELSE IF s \in Early THEN "over" ELSE unit[s]

Scale(p) ==
  /\ Doing(p, "scale") /\ Statement(p)
  /\ unit' = [unit EXCEPT ![Operand(p)] = Scaled(Operand(p))]
  /\ UNCHANGED <<era, table, unique, named, derived, wm, ids, writer, opens, mints>>

(* DROP INDEX IF EXISTS *)
Unindex(p) ==
  /\ Doing(p, "unindex") /\ Statement(p)
  /\ unique' = FALSE
  /\ UNCHANGED <<era, table, unit, named, derived, wm, ids, writer, opens, mints>>

(* _migrate_to_era3 *)
NameEdges(p) ==
  /\ Doing(p, "name") /\ Statement(p)
  /\ named' = TRUE
  /\ UNCHANGED <<era, table, unit, unique, derived, wm, ids, writer, opens, mints>>

List(p) ==
  /\ Doing(p, "list")
  /\ conn' = [Next1(p, conn) EXCEPT ![p].listed = {o \in Objects : derived[o] # None}]
  /\ UNCHANGED <<schema, wm, ids, writer, opens, mints>>

Drop(p) ==
  /\ Doing(p, "drop") /\ Statement(p)
  /\ derived' = IF Operand(p) \in conn[p].listed
                THEN [derived EXCEPT ![Operand(p)] = None] ELSE derived
  /\ UNCHANGED <<era, table, unit, unique, named, wm, ids, writer, opens, mints>>

(* schema.sql, IF NOT EXISTS each *)
MakeTable(p) ==
  /\ Doing(p, "table") /\ Statement(p)
  /\ table' = [table EXCEPT ![Operand(p)] = IF @ = "none" THEN "new" ELSE @]
  /\ UNCHANGED <<era, unit, unique, named, derived, wm, ids, writer, opens, mints>>

Make(p) ==
  /\ Doing(p, "make") /\ Statement(p)
  /\ derived' = [derived EXCEPT ![Operand(p)] = IF @ = None THEN SchemaEra ELSE @]
  /\ UNCHANGED <<era, table, unit, unique, named, wm, ids, writer, opens, mints>>

Stamp(p) ==
  /\ Doing(p, "stamp") /\ Statement(p)
  /\ era' = SchemaEra
  /\ UNCHANGED <<table, unit, unique, named, derived, wm, ids, writer, opens, mints>>

---------------------------------------------------------------------------
(* Transactions                                                            *)

InTxn(p) == Serving(p) /\ conn[p].snap # None

Ended(p) == [conn EXCEPT ![p] = [@ EXCEPT !.snap = None, !.stale = FALSE, !.made = <<>>]]

Begin(p) ==
  /\ Serving(p) /\ ~InTxn(p)
  /\ conn' = [conn EXCEPT ![p].snap = <<wm, ids>>]
  /\ UNCHANGED <<schema, wm, ids, writer, opens, mints>>

(* _mint_for: the mint of a connection is fenced at its first use. *)
MintFor(p) == IF conn[p].mint = None THEN Fence(Bottom, conn[p].snap[1]) ELSE conn[p].mint

FloorFor(p) == IF conn[p].mint = None THEN conn[p].snap[2] ELSE conn[p].floor

(* create_monotonic.  The clock may show any time.  An insert that is      *)
(* refused rolls the transaction back; the mint stays advanced.            *)
Create(p) ==
  /\ InTxn(p) /\ mints < MaxMints
  /\ mints' = mints + 1
  /\ \E now \in 1..MaxTime :
       LET id == NextId(MintFor(p), now) IN
       IF ~conn[p].stale /\ writer \in {None, p}
       THEN /\ conn' = [conn EXCEPT ![p] = [@ EXCEPT !.mint = id, !.floor = FloorFor(p),
                                             !.made = Append(conn[p].made, id)]]
            /\ writer' = p
       ELSE /\ conn' = [conn EXCEPT ![p] = [@ EXCEPT !.mint = id, !.floor = FloorFor(p),
                                             !.snap = None, !.stale = FALSE]]
            /\ UNCHANGED writer
  /\ UNCHANGED <<schema, wm, ids, opens>>

(* _flush_watermarks: WHERE the mark is below *)
Flush(mark) == Higher(mark, wm)

Commit(p) ==
  /\ InTxn(p) /\ writer = p
  /\ wm' = Flush(conn[p].mint)
  /\ ids' = ids \cup {[id |-> conn[p].made[i], by |-> conn[p].number] : i \in DOMAIN conn[p].made}
  /\ conn' = Staled(p, Ended(p))
  /\ writer' = None
  /\ UNCHANGED <<schema, opens, mints>>

(* An operation that raises, or only read. *)
Rollback(p) ==
  /\ InTxn(p)
  /\ conn' = Ended(p)
  /\ writer' = IF writer = p THEN None ELSE writer
  /\ UNCHANGED <<schema, wm, ids, opens, mints>>

(* The connection is closed, or its process dies, at whatever it does. *)
Leave(p) ==
  /\ conn[p] # None
  /\ conn' = [conn EXCEPT ![p] = None]
  /\ writer' = IF writer = p THEN None ELSE writer
  /\ UNCHANGED <<schema, wm, ids, opens, mints>>

---------------------------------------------------------------------------
(* A file has no stamp when it is new, and when it was made before there   *)
(* were eras; then it is as one of era 1.                                  *)
Init ==
  \E from \in Eras, new \in BOOLEAN :
    /\ new => from = 0
    /\ era = from
    /\ table = [t \in Tables |-> IF new THEN "none" ELSE IF from < 2 THEN "old" ELSE "new"]
    /\ unit = [s \in Stamps |-> IF ~new /\ from < 2 THEN "ms" ELSE "ns"]
    /\ unique = (~new /\ from < 2)
    /\ named = (new \/ from = 3)
    /\ derived = [o \in Objects |-> IF new THEN None ELSE from]
    /\ wm = IF new THEN Bottom ELSE <<2, 0>>
    /\ ids = IF new THEN {} ELSE {[id |-> <<2, 0>>, by |-> 0]}
    /\ conn = [p \in Procs |-> None]
    /\ writer = None
    /\ opens = 0 /\ mints = 0

Open(p) ==
  \/ Connect(p) \/ Sniff(p) \/ Look(p) \/ Add(p) \/ Scale(p) \/ Unindex(p)
  \/ NameEdges(p) \/ List(p) \/ Drop(p) \/ MakeTable(p) \/ Make(p) \/ Stamp(p)

Use(p) == Begin(p) \/ Create(p) \/ Commit(p) \/ Rollback(p)

Next == \E p \in Procs : Open(p) \/ Use(p) \/ Leave(p)

Spec == Init /\ [][Next]_vars

---------------------------------------------------------------------------
(* The stamp is true of the file, however many openers died or worked side *)
(* by side before it: no table lacks a column, no time is in milliseconds, *)
(* none was scaled twice but those before 1970-01-12, no index refuses a   *)
(* second placement, no edge lacks its name.                               *)
EraHonest ==
  era = SchemaEra => /\ \A t \in Tables : table[t] = "new"
                     /\ \A s \in Stamps : /\ unit[s] # "ms"
                                           /\ s \notin Early => unit[s] = "ns"
                     /\ ~unique /\ named

(* An open connection has every trigger and view, of the current schema,   *)
(* whatever earlier openers left undone; but not when another upgrades the *)
(* file meanwhile, which drops them under it.                              *)
GuardsUp ==
  \A p \in Procs : Serving(p) /\ ~conn[p].beside =>
    \A o \in Objects : derived[o] = SchemaEra

(* D-2: a connection's ids rise, and lie above all that the volume had     *)
(* recorded when it was fenced, though the clock may go back and refused   *)
(* transactions lose the ids they minted.                                  *)
IdsRise ==
  \A p \in Procs : Serving(p) =>
    \A i \in DOMAIN conn[p].made :
      /\ \A r \in conn[p].floor : Above(conn[p].made[i], r.id)
      /\ \A r \in ids : r.by = conn[p].number => Above(conn[p].made[i], r.id)
      /\ \A j \in 1..(i - 1) : Above(conn[p].made[i], conn[p].made[j])
====
