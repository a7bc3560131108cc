---- MODULE DavLocks ----
(***************************************************************************)
(* The locks WebDAV clients hold against each other (manager/davlock.py):  *)
(* all of them share one engine mount, which the engine's locks do not     *)
(* exclude from itself.  The registry lives in memory and every method     *)
(* runs under its lock; expired locks are dropped whenever it is asked,    *)
(* which is the same as not counting them.                                 *)
(***************************************************************************)
EXTENDS VolumeTree

CONSTANTS Tokens,    \* lock tokens, each minted once
          Clients,   \* WebDAV clients
          Browser,   \* a client of the browser UI, which sends no tokens
          Timeout    \* seconds granted, on the scale of now

ASSUME TokenAssumption ==
  Timeout \in Nat \ {0} /\ None \notin Clients \cup {Browser} /\ Browser \notin Clients
ASSUME LockIdAssumption ==
  /\ LockIds = Tokens \cup {"put", "left", "outside"}
  /\ Tokens \cap {"put", "left", "outside"} = {}

VARIABLE dlock   \* LockRegistry._by_token, and the tokens no longer in it

(* node, lag and refreshed are for the properties: the node the engine's   *)
(* lock of the same id was taken on, how much later than the token, and    *)
(* whether the token's time was extended since.                            *)
DavLock == [st: {"live", "gone"}, owner: Clients \cup {None}, path: Paths, deep: BOOLEAN,
            until: Nat, node: Nat \cup {None}, lag: Nat, refreshed: BOOLEAN]

(* A lock row of the engine: the session's, a crashed session's, another's. *)
EngineLock == [node: Nat, mount: {"session", "lost", "outside"}, until: Nat \cup {None}]

ASSUME RowAssumption == None \notin DavLock /\ None \notin EngineLock

Unreleased(t) == dlock[t] # None /\ dlock[t].st = "live"
Live(t) == Unreleased(t) /\ now < dlock[t].until

Covers(t, p) == dlock[t].path = p \/ (dlock[t].deep /\ Within(p, dlock[t].path))

Submitted(c) == {t \in Tokens : dlock[t] # None /\ dlock[t].owner = c}

(* find and covered_by_subtree                                             *)
Governing(p) == {t \in Tokens : Live(t) /\ Covers(t, p)}
HeldAtOrBelow(p) == {t \in Tokens : Live(t) /\ Within(dlock[t].path, p)}

(* variant: a collection is asked about like an entry (LockedKept) *)
UnlockedTop(c, p, deep) == Governing(p) \subseteq Submitted(c)

(* _require_unlocked: every lock the request would disturb is the client's *)
Unlocked(c, p, deep) ==
  Governing(p) \cup (IF deep THEN HeldAtOrBelow(p) ELSE {}) \subseteq Submitted(c)

(* variant: locks below a collection are not looked for (TokensDisjoint) *)
ConflictAbove(p, deep) == Governing(p) # {}

(* acquire: in both directions                                             *)
Conflict(p, deep) ==
  Governing(p) # {} \/ (deep /\ HeldAtOrBelow(p) # {})

Acquired(t, c, p, deep) ==
  [dlock EXCEPT ![t] = [st |-> "live", owner |-> c, path |-> p, deep |-> deep,
                        until |-> now + Timeout, node |-> None, lag |-> 0, refreshed |-> FALSE]]

(* The engine's lock was taken; or it could not be, and the client never   *)
(* learns of its token.                                                    *)
Backed(t, node) ==
  [dlock EXCEPT ![t].node = node, ![t].lag = now + Timeout - dlock[t].until]
Abandoned(t) == [dlock EXCEPT ![t].owner = None]

Released(t) == [dlock EXCEPT ![t].st = "gone"]

Refreshed(t) == [dlock EXCEPT ![t].until = now + Timeout, ![t].refreshed = TRUE]

(* LockRegistry.acquire: no two clients hold tokens that both govern one   *)
(* resource, whether taken on it or on a collection above it.              *)
TokensDisjoint ==
  \A t, u \in Tokens : t # u /\ Live(t) /\ Live(u) =>
    \A p \in Paths : ~(Covers(t, p) /\ Covers(u, p))
====
