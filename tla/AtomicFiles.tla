------------------------------ MODULE AtomicFiles ------------------------------
(***************************************************************************)
(* What the content store promises its callers (IO-2, IO-2r1, IO-3, CV-3): *)
(* an entry is one value.  A commit replaces it whole and is recorded; a   *)
(* streaming write is a private draft until it is published; a read        *)
(* returns the value of one moment.  There are no versions to collect, no  *)
(* chunks, no locks and no maintenance here: all of that must be invisible.*)
(***************************************************************************)
EXTENDS Naturals, Sequences

CONSTANTS Nodes, Writers, Readers, Chunk, Commits, None

VARIABLES
    file,       \* what a reader of each entry sees, None before it exists
    log,        \* what each commit of each entry wrote
    draft,      \* the unpublished text of each streaming write
    reading     \* the reads: the value of their moment, and the value returned

vars == <<file, log, draft, reading>>

NoRead == [want |-> None, got |-> None]

Init ==
    /\ file = [n \in Nodes |-> None]
    /\ log = [n \in Nodes |-> [v \in Commits |-> None]]
    /\ draft = [w \in Writers |-> None]
    /\ reading = [r \in Readers |-> NoRead]

(* One commit of entry n: recorded once, visible at once. *)
Commit(n, text) ==
    /\ \E v \in Commits : log[n][v] = None /\ log' = [log EXCEPT ![n][v] = text]
    /\ file' = [file EXCEPT ![n] = text]

(* A whole-file operation; the new text is of the operation's choosing. *)
Replace(n) ==
    /\ \E v \in Commits : log[n][v] = None /\ log'[n][v] # None /\ Commit(n, log'[n][v])
    /\ UNCHANGED <<draft, reading>>

(* A draft starts empty or, to append, with a prefix of the entry. *)
Begin(w, n) ==
    /\ draft[w] = None /\ file[n] # None
    /\ \E k \in 0..Len(file[n]) :
        draft' = [draft EXCEPT ![w] = [node |-> n, text |-> SubSeq(file[n], 1, k)]]
    /\ UNCHANGED <<file, log, reading>>

Extend(w) ==
    /\ draft[w] # None
    /\ \E c \in Chunk : draft' = [draft EXCEPT ![w].text = Append(@, c)]
    /\ UNCHANGED <<file, log, reading>>

PublishDraft(w) ==
    /\ draft[w] # None
    /\ \/ Commit(draft[w].node, draft[w].text)
       \/ \E c \in Chunk : Commit(draft[w].node, Append(draft[w].text, c))
    /\ draft' = [draft EXCEPT ![w] = None]
    /\ UNCHANGED reading

Discard(w) ==
    /\ draft' = [draft EXCEPT ![w] = None]
    /\ UNCHANGED <<file, log, reading>>

BeginRead(r, n) ==
    /\ file[n] # None
    /\ reading' = [reading EXCEPT ![r] = [want |-> file[n], got |-> None]]
    /\ UNCHANGED <<file, log, draft>>

EndRead(r) ==
    /\ reading[r].want # None
    /\ reading' = [reading EXCEPT ![r].got = reading[r].want]
    /\ UNCHANGED <<file, log, draft>>

Next ==
    \/ \E n \in Nodes : Replace(n)
    \/ \E w \in Writers :
        \/ \E n \in Nodes : Begin(w, n)
        \/ Extend(w)
        \/ PublishDraft(w)
        \/ Discard(w)
    \/ \E r \in Readers : EndRead(r) \/ \E n \in Nodes : BeginRead(r, n)

Spec == Init /\ [][Next]_vars
===============================================================================
