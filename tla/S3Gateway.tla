---- MODULE S3Gateway ----
(***************************************************************************)
(* The S3 frontend (manager/s3.py) on one plain volume.  A key is a path;  *)
(* the containers above it are made when it is written.  A request holds   *)
(* the volume's session lock to its end, so one is in flight at a time,    *)
(* with the other mount running between its transactions.  The uploads     *)
(* that are being staged live in the manager's memory.                     *)
(***************************************************************************)
EXTENDS VolumeTree, FiniteSetsExt

CONSTANTS
  Order,       \* every path that may be a key, in the order of the keys' text
  Uploads,     \* upload ids, each minted once
  Numbers,     \* part numbers
  Sizes,       \* a part is known by its size, and so is its etag
  MaxStaged,   \* _max_bytes: the staging limit of one upload
  MaxKeys,     \* max-keys of a listing
  Delimiters,  \* does a listing name a delimiter?
  MaxEvents    \* bound: requests, crashes, and steps of the other mount

ASSUME S3Assumption ==
  /\ Delimiters \subseteq BOOLEAN
  /\ Order \in Seq(Paths \ {Root}) /\ \A i, j \in DOMAIN Order : Order[i] = Order[j] => i = j
  /\ IsFiniteSet(Numbers) /\ Numbers \subseteq Nat
  /\ MaxStaged \in Nat /\ MaxKeys \in Nat \ {0} /\ Sizes \subseteq Nat \ {0}
  /\ LockIds = {"put", "left", "outside"}

VARIABLES
  staged,   \* _MultipartUploads._uploads: id -> [key, parts, bytes] or None
  acked,    \* id -> the etags its client was given, by part number
  over,     \* the uploads completed, aborted or lost with the process
  req,      \* the request in flight
  lister,   \* a client that lists the bucket page by page
  always,   \* the keys that were there ever since it began
  events

s3Vars == <<staged, acked, over, req, lister>>
vars == <<treeVars, s3Vars, always, events>>

NoParts == [n \in Numbers |-> 0]

(* The bytes that are staged, each known by its part and its place there.  *)
Total(parts) == Cardinality(UNION {{n} \X (1..parts[n]) : n \in Numbers})

(* A set of numbers in ascending order.                                    *)
Ascending(ns) ==
  [i \in 1..Cardinality(ns) |-> CHOOSE n \in ns : Cardinality({m \in ns : m < n}) = i - 1]

(* Parts in ascending order of their numbers.                              *)
Joined(parts, ns) == [i \in 1..Cardinality(ns) |-> parts[Ascending(ns)[i]]]

(* Of an upload: its key, the node its descriptor is on, the parts joined, *)
(* has it metadata.  Of a listing: the containers to walk, the keys found, *)
(* and those of the page yet to be looked at.                              *)
NoRequest == [pc |-> "idle", key |-> Root, node |-> None, parts |-> <<>>, meta |-> FALSE,
              up |-> None, todo |-> {}, found |-> {}, stats |-> {}]

At(pc) == req.pc = pc
Goto(pc) == req' = [req EXCEPT !.pc = pc]
End == req' = NoRequest
Event == events < MaxEvents /\ events' = events + 1

Begin(r) == At("idle") /\ Event /\ req' = r
Continue == UNCHANGED <<now, outside, events>>

---------------------------------------------------------------------------
(* PutObject: the containers, the content, the metadata if there is any.   *)
Put(k) ==
  /\ \E meta \in BOOLEAN :
       Begin([NoRequest EXCEPT !.pc = "parents", !.key = k, !.meta = meta])
  /\ UNCHANGED <<treeVars, staged, acked, over, lister>>

Above(k) == {q \in Paths : Within(k, q) /\ q # k}

Parents ==
  LET missing == {q \in Above(req.key) : ~Exists(q)} IN
  /\ At("parents")
  /\ IF \A q \in Above(req.key) \ missing : IsDir(q)
     THEN /\ tree' = [q \in Paths |-> IF q \in missing THEN Node(fresh + Len(q), TRUE, 0) ELSE tree[q]]
          /\ fresh' = IF missing = {} THEN fresh ELSE fresh + Len(req.key)
          /\ Goto("openwrite")
     ELSE End /\ UNCHANGED <<tree, fresh>>
  /\ UNCHANGED <<elock, staged, acked, over, lister>>
  /\ Continue

OpenWrite ==
  LET k == req.key IN
  /\ At("openwrite")
  /\ \/ /\ IsDoc(k) /\ ~HeldByOther("session", k)
        /\ elock' = [elock EXCEPT !["put"] = LockRow(k, "session", None)]
        /\ req' = [req EXCEPT !.pc = "commit", !.node = tree[k].id]
        /\ UNCHANGED <<tree, fresh>>
     \/ /\ MayCreate(k)
        /\ tree' = Created(k, FALSE) /\ fresh' = fresh + 1
        /\ elock' = [elock EXCEPT !["put"] = [node |-> fresh, mount |-> "session", until |-> None]]
        /\ req' = [req EXCEPT !.pc = "commit", !.node = fresh]
     \/ /\ ~(IsDoc(k) /\ ~HeldByOther("session", k)) /\ ~MayCreate(k)
        /\ End /\ UNCHANGED <<tree, fresh, elock>>
  /\ UNCHANGED <<staged, acked, over, lister>>
  /\ Continue

Commit ==
  /\ At("commit")
  /\ tree' = WrittenNode(req.node)
  /\ elock' = [elock EXCEPT !["put"] = None]
  /\ IF req.meta THEN Goto("setmeta") ELSE End
  /\ UNCHANGED <<fresh, staged, acked, over, lister>>
  /\ Continue

(* The metadata is replaced whole: whatever other frontends kept is gone.  *)
SetMetadata ==
  LET k == req.key IN
  /\ At("setmeta")
  /\ tree' = IF Exists(k) /\ ~HeldByOther("session", k)
             THEN [tree EXCEPT ![k].mode = 0, ![k].dead = 0] ELSE tree
  /\ End
  /\ UNCHANGED <<fresh, elock, staged, acked, over, lister>>
  /\ Continue

(* DeleteObject; a missing key counts as deleted, an empty container goes. *)
Delete(k) ==
  /\ At("idle") /\ Event
  /\ Exists(k) /\ ~HeldByOther("session", k)
  /\ IsDir(k) => \A q \in Below(k) : q # k => ~Exists(q)
  /\ tree' = Removed(k)
  /\ UNCHANGED <<fresh, elock, now, outside, s3Vars>>

---------------------------------------------------------------------------
(* Multipart uploads.                                                      *)

CreateUpload(u, k) ==
  /\ At("idle") /\ Event
  /\ staged[u] = None /\ u \notin over
  /\ staged' = [staged EXCEPT ![u] = [key |-> k, parts |-> NoParts, bytes |-> 0]]
  /\ UNCHANGED <<treeVars, acked, over, req, lister>>

(* variant: a part sent again is counted again (StagedWithinLimit) *)
GrownAgain(u, n, size) == staged[u].bytes + size

(* put_part replaces a part sent before.  Its answer may get lost: the     *)
(* client then knows the etag of an earlier one, or none.                  *)
Grown(u, n, size) == staged[u].bytes - staged[u].parts[n] + size

UploadPart(u, n, size) ==
  /\ At("idle") /\ Event
  /\ staged[u] # None
  /\ Grown(u, n, size) <= MaxStaged
  /\ staged' = [staged EXCEPT ![u].parts[n] = size, ![u].bytes = Grown(u, n, size)]
  /\ \/ acked' = [acked EXCEPT ![u][n] = size]
     \/ UNCHANGED acked
  /\ UNCHANGED <<treeVars, over, req, lister>>

Abort(u) ==
  /\ At("idle") /\ Event
  /\ staged[u] # None
  /\ staged' = [staged EXCEPT ![u] = None]
  /\ over' = over \cup {u}
  /\ UNCHANGED <<treeVars, acked, req, lister>>

(* variant: the etags of the listed parts are not compared (CompletedAsListed) *)
ListablePresent(u, ns) == \A n \in ns : staged[u].parts[n] # 0

(* complete: every listed part is there under the etag the client names    *)
(* (that a client may leave the etags out is not modelled).                *)
(* The upload is dropped before its object is written.                     *)
Listable(u, ns) == \A n \in ns : staged[u].parts[n] # 0 /\ staged[u].parts[n] = acked[u][n]

Complete(u, ns) ==
  /\ staged[u] # None
  /\ ns # {} /\ Listable(u, ns)
  /\ \E meta \in BOOLEAN :
       Begin([NoRequest EXCEPT !.pc = "parents", !.key = staged[u].key,
                !.parts = Joined(staged[u].parts, ns), !.meta = meta, !.up = <<u, ns>>])
  /\ staged' = [staged EXCEPT ![u] = None]
  /\ over' = over \cup {u}
  /\ UNCHANGED <<treeVars, acked, lister>>

Crash ==
  /\ Event
  /\ staged' = [u \in Uploads |-> None]
  /\ over' = over \cup {u \in Uploads : staged[u] # None}
  /\ elock' = [elock EXCEPT !["put"] = None,
                            !["left"] = IF elock["put"] # None THEN [elock["put"] EXCEPT !.mount = "lost"] ELSE @]
  /\ End
  /\ UNCHANGED <<tree, fresh, now, outside, acked, lister>>

---------------------------------------------------------------------------
(* ListObjects V1.  The containers are walked, each in a transaction of    *)
(* its own; of the keys found past the marker, grouped under the           *)
(* delimiter, MaxKeys make the page; each key of it is looked at once more. *)

Objects == {i \in DOMAIN Order : IsDoc(Order[i])}

(* With a delimiter a key below a container stands for the container.      *)
Group(i, delimiter) == IF delimiter THEN SubSeq(Order[i], 1, 1) ELSE Order[i]

Items(found, marker, delimiter) ==
  {i \in found : i > marker /\ ~\E j \in found :
     marker < j /\ j < i /\ Group(j, delimiter) = Group(i, delimiter)}

PageOf(items) == {i \in items : Cardinality({j \in items : j < i}) < MaxKeys}

(* variant: the next page begins after the key at which this one stopped (PagesComplete) *)
NextMarkerStop(items, page, delimiter) == Min(items \ page)

(* Where the next page begins.  With a delimiter the server says: the key  *)
(* at which it stopped, if that one begins a group; else, and without a    *)
(* delimiter, the last key it listed, or the first of its group.           *)
NextMarker(items, page, delimiter) ==
  LET stop == Min(items \ page) IN
  IF delimiter /\ Len(Order[stop]) > 1 THEN stop ELSE Max(page)

(* got counts how often each group was listed.                             *)
NoLister == [on |-> FALSE, delimiter |-> FALSE, marker |-> 0, got |-> <<>>, done |-> FALSE]

ListFrom(delimiter) ==
  /\ ~lister.on /\ At("idle") /\ Event
  /\ lister' = [NoLister EXCEPT !.on = TRUE, !.delimiter = delimiter]
  /\ UNCHANGED <<treeVars, staged, acked, over, req>>

ListPage ==
  /\ lister.on /\ ~lister.done /\ At("idle")
  /\ req' = [NoRequest EXCEPT !.pc = "walk", !.todo = {Root}]
  /\ UNCHANGED <<treeVars, staged, acked, over, lister, events>>

Inside(p) == {q \in Paths : q # Root /\ Parent(q) = p /\ Exists(q)}

(* One container.  Where none is any more, the listing fails and is passed *)
(* over.  The order is the tree's; here it is any.                         *)
Walk ==
  /\ At("walk")
  /\ \E p \in req.todo :
       req' = [req EXCEPT !.todo = (@ \ {p}) \cup {q \in Inside(p) : IsDir(q)},
                          !.found = @ \cup {i \in Objects : Order[i] \in Inside(p)}]
  /\ UNCHANGED <<tree, fresh, elock, staged, acked, over, lister>>
  /\ Continue

ItemsFound == Items(req.found, lister.marker, lister.delimiter)

(* What stands for a container is not looked at.                           *)
Walked ==
  /\ At("walk") /\ req.todo = {}
  /\ req' = [req EXCEPT !.pc = "stat", !.stats =
               {i \in PageOf(ItemsFound) : ~(lister.delimiter /\ Len(Order[i]) > 1)}]
  /\ UNCHANGED <<tree, fresh, elock, staged, acked, over, lister>>
  /\ Continue

(* A key that is gone by now fails the whole page; the client may ask for  *)
(* it again.                                                               *)
Stat ==
  /\ At("stat") /\ req.stats # {}
  /\ IF Exists(Order[Min(req.stats)]) THEN req' = [req EXCEPT !.stats = @ \ {Min(@)}] ELSE End
  /\ UNCHANGED <<tree, fresh, elock, staged, acked, over, lister>>
  /\ Continue

Answer ==
  /\ At("stat") /\ req.stats = {}
  /\ \E items \in {ItemsFound} : \E page \in {PageOf(items)} :
       lister' = [lister EXCEPT
         !.got = @ \o [i \in 1..Cardinality(page) |->
                         Group(Ascending(page)[i], lister.delimiter)],
         !.marker = IF items = page THEN @ ELSE NextMarker(items, page, lister.delimiter),
         !.done = (items = page)]
  /\ End
  /\ UNCHANGED <<tree, fresh, elock, staged, acked, over>>
  /\ Continue

---------------------------------------------------------------------------
Outside == Event /\ OutsideStep /\ UNCHANGED s3Vars

Proceed ==
  \/ Parents \/ OpenWrite \/ Commit \/ SetMetadata
  \/ Walk \/ Walked \/ Stat \/ Answer

(* always is a witness for the properties.                                 *)
Present == {i \in Objects : \A q \in Above(Order[i]) : IsDir(q)}
Witness ==
  always' = IF lister'.on THEN (IF lister.on THEN always ELSE DOMAIN Order) \cap Present' ELSE {}

Request ==
  /\ At("idle")
  /\ \/ \E i \in DOMAIN Order :
          \/ Delete(Order[i]) \/ Put(Order[i])
          \/ \E u \in Uploads : CreateUpload(u, Order[i])
     \/ \E u \in Uploads :
          \/ Abort(u)
          \/ \E n \in Numbers, size \in Sizes : UploadPart(u, n, size)
          \/ \E ns \in SUBSET Numbers : Complete(u, ns)
     \/ \E delimiter \in Delimiters : ListFrom(delimiter)
     \/ ListPage

Init ==
  /\ TreeInit
  /\ staged = [u \in Uploads |-> None]
  /\ acked = [u \in Uploads |-> NoParts]
  /\ over = {}
  /\ req = NoRequest
  /\ lister = NoLister
  /\ always = {}
  /\ events = 0

Next == (Request \/ Proceed \/ Outside \/ Crash) /\ Witness

Spec == Init /\ [][Next]_vars

---------------------------------------------------------------------------
(* Properties                                                              *)

TypeOK ==
  /\ \A p \in Paths : Exists(p) => tree[p].id \in 1..(fresh - 1)
  /\ \A p \in Paths \ {Root} : Exists(p) => IsDir(Parent(p))
  /\ \A p, q \in Paths : Exists(p) /\ Exists(q) /\ p # q => tree[p].id # tree[q].id
  /\ \A u \in Uploads : staged[u] # None => u \notin over

(* put_part: the running total of an upload is the size of the parts that  *)
(* would be joined, whatever parts were sent again, and within the limit.  *)
StagedWithinLimit ==
  \A u \in Uploads : staged[u] # None =>
    staged[u].bytes = Total(staged[u].parts) /\ staged[u].bytes <= MaxStaged

(* complete: what is about to become the object is the parts listed, in    *)
(* order, with the very content whose etags the client was given, even if  *)
(* the answer to a later copy of a part was lost.                          *)
CompletedAsListed ==
  req.up # None => req.parts = Joined(acked[req.up[1]], req.up[2])

(* _do_list without a delimiter: whatever is put and deleted between its   *)
(* pages, and moved, removed and created by the other mount in the midst   *)
(* of one, a listing names no key twice, and every key that was there all  *)
(* along once.                                                             *)
Listed(g) == Cardinality({i \in DOMAIN lister.got : lister.got[i] = g})

PagesComplete ==
  ~lister.delimiter =>
    \A i \in DOMAIN Order :
      /\ Listed(Order[i]) <= 1
      /\ lister.done /\ i \in always => Listed(Order[i]) = 1

====
