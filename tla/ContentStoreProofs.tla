-------------------------- MODULE ContentStoreProofs --------------------------
(***************************************************************************)
(* Proofs about ContentStore, for any sets of entries, mounts, writers and *)
(* chunks, any bounds, and whatever the environment is allowed to do.      *)
(***************************************************************************)
EXTENDS ContentRefinement, ContentVerify, SequenceTheorems, FiniteSetTheorems, TLAPS

(***************************************************************************)
(* The arithmetic of chunks                                                *)
(***************************************************************************)
(* A text of k chunks has 2k units, or 2k - 1 when it ends in a short one     *)
(* (split_chunks).                                                            *)
LEMMA UnitsOfText ==
    ASSUME NEW p \in Texts
    PROVE  /\ Units(p) \in Nat
           /\ \/ Units(p) = 2 * Len(p) /\ (p # <<>> => p[Len(p)] \in Full)
              \/ Units(p) = 2 * Len(p) - 1 /\ p # <<>> /\ p[Len(p)] \in Short
           /\ p = <<>> => Len(p) = 0
           /\ p # <<>> => Len(p) > 0
BY ChunkAssumption DEF Units, Texts, Chunk

(* The chunks before unit boundary 2k, k no more than half the size, are full: *)
(* what append, write_range and truncate carry by reference.                   *)
LEMMA PrefixIsFull ==
    ASSUME NEW p \in Texts, NEW k \in Nat, 2 * k <= Units(p)
    PROVE  k <= Len(p) /\ SubSeq(p, 1, k) \in Seq(Full) /\ Len(SubSeq(p, 1, k)) = k
<1>1. p \in Seq(Chunk) /\ Len(p) \in Nat
    BY DEF Texts
<1>2. k <= Len(p)
    BY <1>1, UnitsOfText
<1>3. \A i \in 1..k : p[i] \in Full
    <2>1. TAKE i \in 1..k
    <2>2. CASE i < Len(p)
        BY <1>1, <2>2 DEF Texts
    <2>3. CASE i = Len(p)
        BY <1>1, <1>2, <2>3, UnitsOfText
    <2>4. QED
        BY <1>1, <1>2, <2>2, <2>3
<1>4. /\ SubSeq(p, 1, k) \in Seq(Chunk)
      /\ Len(SubSeq(p, 1, k)) = k
      /\ \A i \in 1..k : SubSeq(p, 1, k)[i] = p[i]
    BY <1>1, <1>2, SubSeqProperties
<1>5. SubSeq(p, 1, k) \in Seq(Full)
    BY <1>3, <1>4
<1>6. QED
    BY <1>2, <1>4, <1>5

(* Where the chunks of a concatenation come from. *)
LEMMA ThreeParts ==
    ASSUME NEW S, NEW x \in Seq(S), NEW y \in Seq(S), NEW z \in Seq(S)
    PROVE  /\ x \o y \o z \in Seq(S)
           /\ Len(x \o y \o z) = Len(x) + Len(y) + Len(z)
           /\ \A i \in 1..Len(x) : (x \o y \o z)[i] = x[i]
           /\ \A i \in 1..Len(y) : (x \o y \o z)[Len(x) + i] = y[i]
           /\ \A i \in 1..Len(z) : (x \o y \o z)[Len(x) + Len(y) + i] = z[i]
<1>1. /\ x \o y \in Seq(S) /\ Len(x \o y) = Len(x) + Len(y)
      /\ \A i \in 1..Len(x) : (x \o y)[i] = x[i]
      /\ \A i \in 1..Len(y) : (x \o y)[Len(x) + i] = y[i]
    OBVIOUS
<1>2. ASSUME NEW xy \in Seq(S), Len(xy) = Len(x) + Len(y),
             \A i \in 1..Len(x) : xy[i] = x[i],
             \A i \in 1..Len(y) : xy[Len(x) + i] = y[i]
      PROVE  /\ xy \o z \in Seq(S)
             /\ Len(xy \o z) = Len(x) + Len(y) + Len(z)
             /\ \A i \in 1..Len(x) : (xy \o z)[i] = x[i]
             /\ \A i \in 1..Len(y) : (xy \o z)[Len(x) + i] = y[i]
             /\ \A i \in 1..Len(z) : (xy \o z)[Len(x) + Len(y) + i] = z[i]
    <2>1. /\ xy \o z \in Seq(S) /\ Len(xy \o z) = Len(xy) + Len(z)
          /\ \A i \in 1..Len(xy) : (xy \o z)[i] = xy[i]
          /\ \A i \in 1..Len(z) : (xy \o z)[Len(xy) + i] = z[i]
        OBVIOUS
    <2>2. \A i \in 1..Len(x) : i \in 1..Len(xy)
        BY <1>2
    <2>3. \A i \in 1..Len(y) : Len(x) + i \in 1..Len(xy)
        BY <1>2
    <2>4. QED
        BY <1>2, <2>1, <2>2, <2>3
<1>3. QED
    BY <1>1, <1>2

(* Splicing full chunks up to a, a new window, and the chunks after it gives   *)
(* a text again, and its size is the one the operation computed.               *)
LEMMA SpliceIsText ==
    ASSUME NEW t \in Texts, NEW a \in Nat, 2 * a <= Units(t), NEW p \in Texts,
           NEW b \in Nat, b >= Len(t) \/ (p \in Seq(Full) /\ b = a + Len(p))
    PROVE  /\ Splice(t, a, p, b) \in Texts
           /\ b >= Len(t) => Units(Splice(t, a, p, b)) = 2 * a + Units(p)
           /\ b < Len(t) => Units(Splice(t, a, p, b)) = Units(t)
<1> DEFINE pre == SubSeq(t, 1, a)
           suf == SubSeq(t, b + 1, Len(t))
           s   == Splice(t, a, p, b)
<1>1. t \in Seq(Chunk) /\ Len(t) \in Nat /\ p \in Seq(Chunk) /\ Len(p) \in Nat
    BY DEF Texts
<1>2. a <= Len(t) /\ pre \in Seq(Full) /\ Len(pre) = a
    BY PrefixIsFull
<1>3. /\ suf \in Seq(Chunk)
      /\ b < Len(t) => Len(suf) = Len(t) - b
      /\ b >= Len(t) => Len(suf) = 0
      /\ \A i \in 1..Len(suf) : suf[i] = t[b + i]
    <2>1. CASE b <= Len(t)
        <3>1. b + 1 \in 1..(Len(t) + 1) /\ Len(t) \in (b + 1) - 1..Len(t)
            BY <1>1, <2>1
        <3>2. /\ suf \in Seq(Chunk)
              /\ Len(suf) = IF b + 1 <= Len(t) THEN Len(t) - (b + 1) + 1 ELSE 0
              /\ \A i \in 1..(Len(t) - (b + 1) + 1) : suf[i] = t[(b + 1) + i - 1]
            BY <1>1, <3>1, SubSeqProperties
        <3>3. \A i \in Int : (b + 1) + i - 1 = b + i
            OBVIOUS
        <3>4. QED
            BY <1>1, <2>1, <3>2, <3>3
    <2>2. CASE b > Len(t)
        BY <1>1, <2>2, SubSeqEmpty
    <2>3. QED
        BY <1>1, <2>1, <2>2
<1>4. pre \in Seq(Chunk)
    BY <1>2 DEF Chunk
<1>5. s = pre \o p \o suf
    BY DEF Splice
<1> HIDE DEF pre, suf, s
<1>6. /\ s \in Seq(Chunk)
      /\ Len(s) = a + Len(p) + Len(suf)
      /\ \A i \in 1..a : s[i] \in Full
      /\ \A i \in (a + 1)..(a + Len(p)) : s[i] = p[i - a]
      /\ \A i \in (a + Len(p) + 1)..Len(s) : s[i] = t[b + (i - a - Len(p))]
    <2>1. /\ s \in Seq(Chunk)
          /\ Len(s) = Len(pre) + Len(p) + Len(suf)
          /\ \A i \in 1..Len(pre) : s[i] = pre[i]
          /\ \A i \in 1..Len(p) : s[Len(pre) + i] = p[i]
          /\ \A i \in 1..Len(suf) : s[Len(pre) + Len(p) + i] = suf[i]
        <3>1. p \in Seq(Chunk) /\ suf \in Seq(Chunk)
            BY <1>1, <1>3
        <3>2. /\ pre \o p \o suf \in Seq(Chunk)
              /\ Len(pre \o p \o suf) = Len(pre) + Len(p) + Len(suf)
              /\ \A i \in 1..Len(pre) : (pre \o p \o suf)[i] = pre[i]
              /\ \A i \in 1..Len(p) : (pre \o p \o suf)[Len(pre) + i] = p[i]
              /\ \A i \in 1..Len(suf) : (pre \o p \o suf)[Len(pre) + Len(p) + i] = suf[i]
            BY <1>4, <3>1, ThreeParts
        <3>3. QED
            BY <1>5, <3>2
    <2>2. \A i \in 1..a : pre[i] \in Full
        BY <1>2
    <2>3. Len(suf) \in Nat /\ Len(s) = a + Len(p) + Len(suf)
        BY <1>2, <1>3, <2>1
    <2>4. ASSUME NEW i \in (a + 1)..(a + Len(p)) PROVE s[i] = p[i - a]
        <3>1. i - a \in 1..Len(p) /\ a + (i - a) = i
            BY <1>1
        <3>2. QED
            BY <1>2, <2>1, <3>1
    <2>5. ASSUME NEW i \in (a + Len(p) + 1)..Len(s)
          PROVE  s[i] = t[b + (i - a - Len(p))]
        <3> DEFINE k == i - a - Len(p)
        <3>1. k \in 1..Len(suf) /\ a + Len(p) + k = i
            BY <1>1, <2>3
        <3> HIDE DEF k
        <3>2. s[i] = suf[k]
            BY <1>2, <2>1, <3>1
        <3>3. suf[k] = t[b + k]
            BY <1>3, <3>1
        <3>4. QED
            BY <3>2, <3>3 DEF k
    <2>6. QED
        BY <1>2, <2>1, <2>2, <2>3, <2>4, <2>5
<1>7. CASE b >= Len(t)
    <2>1. Len(s) = a + Len(p)
        BY <1>1, <1>3, <1>6, <1>7
    <2>2. ASSUME NEW i \in 1..(Len(s) - 1) PROVE s[i] \in Full
        <3>1. CASE i <= a
            BY <1>6, <3>1
        <3>2. CASE i > a
            <4>1. i - a \in 1..(Len(p) - 1)
                BY <1>1, <2>1, <3>2
            <4>2. s[i] = p[i - a]
                <5>1. i \in (a + 1)..(a + Len(p))
                    BY <1>1, <2>1, <3>2
                <5>2. \A j \in (a + 1)..(a + Len(p)) : s[j] = p[j - a]
                    BY <1>6
                <5>3. QED
                    BY <5>1, <5>2
            <4>3. QED
                BY <4>1, <4>2 DEF Texts
        <3>3. QED
            BY <3>1, <3>2
    <2>3. s \in Texts
        BY <1>6, <2>2 DEF Texts
    <2>4. Units(s) = 2 * a + Units(p)
        <3>1. CASE Len(p) = 0
            <4>1. Len(s) = a /\ (a > 0 => s[a] \in Full)
                BY <1>6, <2>1, <3>1
            <4>2. Units(s) = 2 * a
                BY <2>3, <4>1, UnitsOfText, ChunkAssumption
            <4>3. Units(p) = 0
                BY <3>1, UnitsOfText
            <4>4. QED
                BY <4>2, <4>3
        <3>2. CASE Len(p) > 0
            <4>1. Len(s) \in (a + 1)..(a + Len(p)) /\ Len(s) - a = Len(p)
                BY <1>1, <2>1, <3>2
            <4>2. s[Len(s)] = p[Len(p)] /\ s # <<>> /\ p # <<>>
                BY <1>6, <3>2, <4>1
            <4>3. CASE p[Len(p)] \in Full
                <5>1. Units(s) = 2 * Len(s) /\ Units(p) = 2 * Len(p)
                    BY <2>3, <4>2, <4>3, UnitsOfText, ChunkAssumption
                <5>2. QED
                    BY <1>1, <2>1, <5>1
            <4>4. CASE p[Len(p)] \notin Full
                <5>1. Units(s) = 2 * Len(s) - 1 /\ Units(p) = 2 * Len(p) - 1
                    BY <2>3, <4>2, <4>4, UnitsOfText
                <5>2. QED
                    BY <1>1, <2>1, <5>1
            <4>5. QED
                BY <4>3, <4>4
        <3>3. QED
            BY <1>1, <3>1, <3>2
    <2>5. QED
        BY <1>1, <1>7, <2>3, <2>4 DEF s
<1>8. CASE b < Len(t)
    <2>1. p \in Seq(Full) /\ b = a + Len(p)
        BY <1>1, <1>8
    <2>2. Len(s) = Len(t)
        BY <1>1, <1>3, <1>6, <1>8, <2>1
    <2>3. ASSUME NEW i \in (b + 1)..Len(s) PROVE s[i] = t[i]
        <3>1. b + (i - a - Len(p)) = i /\ i \in (a + Len(p) + 1)..Len(s)
            BY <1>1, <2>1
        <3>2. QED
            BY <1>6, <3>1
    <2>4. ASSUME NEW i \in 1..b PROVE s[i] \in Full
        <3>1. CASE i <= a
            BY <1>6, <3>1
        <3>2. CASE i > a
            <4>1. i - a \in 1..Len(p) /\ s[i] = p[i - a]
                BY <1>1, <1>6, <2>1, <3>2
            <4>2. QED
                BY <2>1, <4>1
        <3>3. QED
            BY <3>1, <3>2
    <2>5. ASSUME NEW i \in 1..(Len(s) - 1) PROVE s[i] \in Full
        <3>1. CASE i <= b
            BY <2>4, <3>1
        <3>2. CASE i > b
            <4>1. s[i] = t[i] /\ i \in 1..(Len(t) - 1)
                BY <1>1, <2>2, <2>3, <3>2
            <4>2. QED
                BY <4>1 DEF Texts
        <3>3. QED
            BY <3>1, <3>2
    <2>6. s \in Texts
        BY <1>6, <2>5 DEF Texts
    <2>7. s[Len(s)] = t[Len(t)] /\ Len(s) > 0
        BY <1>1, <1>8, <2>2, <2>3
    <2>8. Units(s) = Units(t)
        BY <1>1, <2>2, <2>6, <2>7, UnitsOfText, ChunkAssumption
    <2>9. QED
        BY <1>1, <1>8, <2>6, <2>8 DEF s
<1>9. QED
    BY <1>1, <1>7, <1>8

(***************************************************************************)
(* Type correctness.  TypeOK is not inductive alone: what append carries   *)
(* is sound only because the size in the content row is the size of the    *)
(* committed text.                                                         *)
(***************************************************************************)
TypeInv == TypeOK /\ CommittedSized

(* A committed entry has a text, and dividing its size finds its chunks. *)
LEMMA CommittedText ==
    ASSUME TypeInv, NEW n \in Nodes, Exists(n)
    PROVE  /\ content[n] \in ContentRow
           /\ content[n].ver \in 0..MaxVersion
           /\ content[n].size \in Nat
           /\ Text(n) \in Texts
           /\ Units(Text(n)) = content[n].size
           /\ FullCount(n) \in Nat /\ 2 * FullCount(n) <= Units(Text(n))
           /\ ChunkCount(n) = Len(Text(n))
<1>1. content[n] \in ContentRow /\ content[n].size \in Nat
    BY DEF TypeInv, TypeOK, Exists, ContentRow
<1>2. content[n].ver \in Committed(n) /\ Units(Text(n)) = content[n].size
    BY DEF TypeInv, CommittedSized
<1>3. content[n].ver \in 0..MaxVersion /\ truth[n][content[n].ver] # None
    BY <1>2 DEF Committed
<1>4. Text(n) \in Texts
    <2>1. truth[n] \in [0..MaxVersion -> Texts \cup {None}]
        BY DEF TypeInv, TypeOK
    <2>2. QED
        BY <1>3, <2>1 DEF Text
<1>5. FullCount(n) \in Nat /\ 2 * FullCount(n) <= Units(Text(n))
    BY <1>1, <1>2 DEF FullCount
<1>6. ChunkCount(n) = Len(Text(n))
    <2>1. Len(Text(n)) \in Nat
        BY <1>4 DEF Texts
    <2>2. \/ content[n].size = 2 * Len(Text(n))
          \/ content[n].size = 2 * Len(Text(n)) - 1
        BY <1>2, <1>4, UnitsOfText
    <2>3. QED
        BY <2>1, <2>2 DEF ChunkCount
<1>7. QED
    BY <1>1, <1>2, <1>3, <1>4, <1>5, <1>6

LEMMA StageRowsType ==
    ASSUME NEW n \in Nodes, NEW v \in Nat, NEW at \in Nat, NEW p \in Seq(Chunk)
    PROVE  StageRows(n, v, at, p) \subseteq ManifestRow
<1>1. ASSUME NEW i \in DOMAIN p
      PROVE  [node |-> n, ver |-> v, idx |-> at + i - 1, chunk |-> p[i]] \in ManifestRow
    <2>1. i \in 1..Len(p) /\ Len(p) \in Nat
        OBVIOUS
    <2>2. at + i - 1 \in Nat /\ p[i] \in Chunk
        BY <2>1
    <2>3. QED
        BY <2>2 DEF ManifestRow
<1>2. QED
    BY <1>1 DEF StageRows

LEMMA CarryRowsType ==
    ASSUME manifest \subseteq ManifestRow,
           NEW n, NEW src, NEW dst \in Nat, NEW lo, NEW hi
    PROVE  CarryRows(n, src, dst, lo, hi) \subseteq ManifestRow
<1>1. ASSUME NEW r \in ManifestRow
      PROVE  [r EXCEPT !.ver = dst] \in ManifestRow
    BY DEF ManifestRow
<1>2. QED
    BY <1>1 DEF CarryRows, Rows

LEMMA InsertType ==
    ASSUME manifest \subseteq ManifestRow, pool \subseteq Chunk,
           NEW rows, rows \subseteq ManifestRow, Insert(rows)
    PROVE  manifest' \subseteq ManifestRow /\ pool' \subseteq Chunk
<1>1. \A r \in rows : r.chunk \in Chunk
    BY DEF ManifestRow
<1>2. QED
    BY <1>1 DEF Insert

(* The pointer swap keeps the pointer on a committed text of its size. *)
LEMMA PublishType ==
    ASSUME TypeInv, NEW n \in Nodes, Exists(n), NEW v \in 1..MaxVersion,
           NEW text \in Texts, Publish(n, v, Units(text), text)
    PROVE  /\ content' \in [Nodes -> ContentRow \cup {None}]
           /\ truth' \in [Nodes -> [0..MaxVersion -> Texts \cup {None}]]
           /\ CommittedSized'
<1>1. content[n] \in ContentRow
    BY CommittedText
<1>2. Units(text) \in Nat /\ v \in Nat /\ text # None
    BY UnitsOfText, ChunkAssumption DEF Texts
<1>3. content' \in [Nodes -> ContentRow \cup {None}]
    BY <1>1, <1>2 DEF TypeInv, TypeOK, Publish, ContentRow
<1>4. truth' \in [Nodes -> [0..MaxVersion -> Texts \cup {None}]]
    BY BoundAssumption DEF TypeInv, TypeOK, Publish
<1>5. ASSUME NEW x \in Nodes, Exists(x)'
      PROVE  (content[x].ver \in Committed(x) /\ Units(Text(x)) = content[x].size)'
    <2>1. CASE x = n
        <3>1. content'[n].ver = v /\ content'[n].size = Units(text) /\ truth'[n][v] = text
            BY <1>1, BoundAssumption DEF TypeInv, TypeOK, Publish, ContentRow
        <3>2. QED
            BY <1>2, <2>1, <3>1, BoundAssumption DEF Committed, Text, Units
    <2>2. CASE x # n
        <3>1. content'[x] = content[x] /\ truth'[x] = truth[x]
            BY <2>2 DEF TypeInv, TypeOK, Publish
        <3>2. QED
            BY <1>5, <3>1 DEF TypeInv, CommittedSized, Exists, Committed, Text, Units
    <2>3. QED
        BY <2>1, <2>2
<1>6. QED
    BY <1>3, <1>4, <1>5 DEF CommittedSized

LEMMA SameContentSized ==
    ASSUME CommittedSized, UNCHANGED <<content, truth>>
    PROVE  CommittedSized'
BY DEF CommittedSized, Exists, Committed, Text, Units

LEMMA CreateEntryType ==
    ASSUME TypeInv, NEW m \in Mounts, NEW n \in Nodes, NEW p \in Payloads,
           CreateEntry(m, n, p)
    PROVE  TypeInv'
<1> DEFINE v == IF p = <<>> THEN 0 ELSE 1
           row == [ver |-> v, size |-> Units(p), keep |-> None]
<1>1. p \in Texts /\ p \in Seq(Chunk) /\ p # None /\ Units(p) \in Nat
    BY PayloadAssumption, ChunkAssumption, UnitsOfText DEF Texts
<1>2. v \in Nat /\ v \in 0..MaxVersion
    BY BoundAssumption DEF CreateEntry
<1>3. /\ Insert(StageRows(n, v, 0, p))
      /\ content' = [content EXCEPT ![n] = row]
      /\ truth' = [truth EXCEPT ![n][v] = p]
      /\ UNCHANGED <<valid, locks, wr, rd>>
    BY DEF CreateEntry
<1> HIDE DEF v
<1>4. StageRows(n, v, 0, p) \subseteq ManifestRow
    BY <1>1, <1>2, StageRowsType
<1>5. manifest' \subseteq ManifestRow /\ pool' \subseteq Chunk
    BY <1>3, <1>4, InsertType DEF TypeInv, TypeOK
<1>6. row \in ContentRow
    BY <1>1, <1>2 DEF ContentRow
<1>7. content' \in [Nodes -> ContentRow \cup {None}]
    BY <1>3, <1>6 DEF TypeInv, TypeOK
<1>8. truth' \in [Nodes -> [0..MaxVersion -> Texts \cup {None}]]
    BY <1>1, <1>2, <1>3 DEF TypeInv, TypeOK
<1>9. ASSUME NEW x \in Nodes, Exists(x)'
      PROVE  (content[x].ver \in Committed(x) /\ Units(Text(x)) = content[x].size)'
    <2>1. CASE x = n
        <3>1. content'[n].ver = v /\ content'[n].size = Units(p) /\ truth'[n][v] = p
            BY <1>2, <1>3 DEF TypeInv, TypeOK
        <3>2. QED
            BY <1>1, <1>2, <2>1, <3>1 DEF Committed, Text, Units
    <2>2. CASE x # n
        <3>1. content'[x] = content[x] /\ truth'[x] = truth[x]
            BY <1>3, <2>2 DEF TypeInv, TypeOK
        <3>2. QED
            BY <1>9, <3>1 DEF TypeInv, CommittedSized, Exists, Committed, Text, Units
    <2>3. QED
        BY <2>1, <2>2
<1>10. QED
    BY <1>3, <1>5, <1>7, <1>8, <1>9 DEF TypeInv, TypeOK, CommittedSized

LEMMA CopyType ==
    ASSUME TypeInv, NEW m \in Mounts, NEW n \in Nodes, NEW dst \in Nodes,
           Copy(m, n, dst)
    PROVE  TypeInv'
<1> DEFINE v == content[n].ver
           row == [content[n] EXCEPT !.keep = None]
           rows == {[r EXCEPT !.node = dst] : r \in Rows(n, v)}
<1>1. /\ Exists(n) /\ Insert(rows)
      /\ content' = [content EXCEPT ![dst] = row]
      /\ truth' = [truth EXCEPT ![dst][v] = Text(n)]
      /\ UNCHANGED <<valid, locks, wr, rd>>
    BY DEF Copy
<1>2. /\ content[n] \in ContentRow /\ v \in 0..MaxVersion
      /\ Text(n) \in Texts /\ Units(Text(n)) = content[n].size
    BY <1>1, CommittedText
<1>3. Text(n) # None
    BY <1>2, ChunkAssumption DEF Texts
<1>4. rows \subseteq ManifestRow
    BY DEF TypeInv, TypeOK, Rows, ManifestRow
<1>5. manifest' \subseteq ManifestRow /\ pool' \subseteq Chunk
    BY <1>1, <1>4, InsertType DEF TypeInv, TypeOK
<1>6. row \in ContentRow /\ row.ver = v /\ row.size = content[n].size
    BY <1>2 DEF ContentRow
<1> HIDE DEF v, row, rows
<1>7. content' \in [Nodes -> ContentRow \cup {None}]
    BY <1>1, <1>6 DEF TypeInv, TypeOK
<1>8. truth' \in [Nodes -> [0..MaxVersion -> Texts \cup {None}]]
    BY <1>1, <1>2 DEF TypeInv, TypeOK
<1>9. ASSUME NEW x \in Nodes, Exists(x)'
      PROVE  (content[x].ver \in Committed(x) /\ Units(Text(x)) = content[x].size)'
    <2>1. CASE x = dst
        <3>1. content'[dst] = row /\ truth'[dst][v] = Text(n)
            BY <1>1, <1>2 DEF TypeInv, TypeOK
        <3>2. Text(x)' = Text(n) /\ Units(Text(x))' = Units(Text(n))
            BY <1>6, <2>1, <3>1 DEF Text, Units
        <3>3. QED
            BY <1>2, <1>3, <1>6, <2>1, <3>1, <3>2 DEF Committed
    <2>2. CASE x # dst
        <3>1. content'[x] = content[x] /\ truth'[x] = truth[x]
            BY <1>1, <2>2 DEF TypeInv, TypeOK
        <3>2. QED
            BY <1>9, <3>1 DEF TypeInv, CommittedSized, Exists, Committed, Text, Units
    <2>3. QED
        BY <2>1, <2>2
<1>10. QED
    BY <1>1, <1>5, <1>7, <1>8, <1>9 DEF TypeInv, TypeOK, CommittedSized

LEMMA WriteAllType ==
    ASSUME TypeInv, NEW m \in Mounts, NEW n \in Nodes, NEW p \in Payloads,
           WriteAll(m, n, p)
    PROVE  TypeInv'
<1>1. p \in Texts /\ p \in Seq(Chunk)
    BY PayloadAssumption DEF Texts
<1>2. PICK v \in 1..MaxVersion :
        Insert(StageRows(n, v, 0, p)) /\ Publish(n, v, Units(p), p)
    BY DEF WriteAll
<1>3. Exists(n) /\ UNCHANGED <<valid, locks, wr, rd>>
    BY DEF WriteAll, MayWrite
<1>4. StageRows(n, v, 0, p) \subseteq ManifestRow
    BY <1>1, StageRowsType
<1>5. manifest' \subseteq ManifestRow /\ pool' \subseteq Chunk
    BY <1>2, <1>4, InsertType DEF TypeInv, TypeOK
<1>6. QED
    BY <1>1, <1>2, <1>3, <1>5, PublishType DEF TypeInv, TypeOK

(* The three operations that rebuild a version share this step: the new text  *)
(* is a text, of the size they computed, and what they carry after the window *)
(* was at its place already.                                                  *)
Splices(m, n, a, p, b, size) ==
    /\ Rebuild(m, n, a, p, b, size)
    /\ Exists(n) /\ 2 * a <= Units(Text(n))
    /\ b >= Len(Text(n)) \/ b = a + Len(p)
    /\ Splice(Text(n), a, p, b) \in Texts
    /\ Units(Splice(Text(n), a, p, b)) = size

Rebuilds(m, n) == \E a, b \in Nat, p \in Texts : \E size : Splices(m, n, a, p, b, size)

LEMMA RebuildType ==
    ASSUME TypeInv, NEW m \in Mounts, NEW n \in Nodes, Rebuilds(m, n)
    PROVE  TypeInv'
<1> PICK a \in Nat, b \in Nat, p \in Texts : \E size : Splices(m, n, a, p, b, size)
    BY DEF Rebuilds
<1> PICK size : Splices(m, n, a, p, b, size)
    OBVIOUS
<1> DEFINE src == content[n].ver
           pre(v) == CarryRows(n, src, v, 0, a - 1)
           suf(v) == CarryRows(n, src, v, b, ChunkCount(n) - 1)
<1>1. Exists(n) /\ UNCHANGED <<valid, locks, wr, rd>>
    BY DEF Splices, Rebuild, MayWrite
<1>2. PICK v \in 1..MaxVersion :
        /\ Insert(pre(v) \cup StageRows(n, v, a, p) \cup suf(v))
        /\ Publish(n, v, size, Splice(Text(n), a, p, b))
    BY DEF Splices, Rebuild
<1>3. pre(v) \subseteq ManifestRow /\ suf(v) \subseteq ManifestRow
    BY CarryRowsType DEF TypeInv, TypeOK
<1>4. StageRows(n, v, a, p) \subseteq ManifestRow
    BY StageRowsType, BoundAssumption DEF Texts
<1>5. manifest' \subseteq ManifestRow /\ pool' \subseteq Chunk
    BY <1>2, <1>3, <1>4, InsertType DEF TypeInv, TypeOK
<1>6. QED
    BY <1>1, <1>2, <1>5, PublishType DEF Splices, TypeInv, TypeOK

LEMMA AppendToSplices ==
    ASSUME TypeInv, NEW m \in Mounts, NEW n \in Nodes, NEW p \in Payloads,
           AppendTo(m, n, p)
    PROVE  Rebuilds(m, n)
<1>1. p \in Texts /\ Exists(n)
    BY PayloadAssumption DEF AppendTo
<1>2. /\ Text(n) \in Texts /\ Len(Text(n)) \in Nat
      /\ FullCount(n) \in Nat /\ 2 * FullCount(n) <= Units(Text(n))
      /\ ChunkCount(n) = Len(Text(n))
    <2>1. /\ Text(n) \in Texts /\ ChunkCount(n) = Len(Text(n))
          /\ FullCount(n) \in Nat /\ 2 * FullCount(n) <= Units(Text(n))
        BY <1>1, CommittedText
    <2>2. Len(Text(n)) \in Nat
        BY <2>1 DEF Texts
    <2>3. QED
        BY <2>1, <2>2
<1>3. /\ Splice(Text(n), FullCount(n), p, ChunkCount(n)) \in Texts
      /\ Units(Splice(Text(n), FullCount(n), p, ChunkCount(n))) = 2 * FullCount(n) + Units(p)
    BY <1>1, <1>2, SpliceIsText
<1>4. Rebuild(m, n, FullCount(n), p, ChunkCount(n), 2 * FullCount(n) + Units(p))
    BY DEF AppendTo
<1>5. QED
    BY <1>1, <1>2, <1>3, <1>4 DEF Splices, Rebuilds

(* A window that ends inside the entry is made of full chunks, so the chunks  *)
(* after it keep their boundaries.                                            *)
LEMMA WriteRangeSplices ==
    ASSUME TypeInv, NEW m \in Mounts, NEW n \in Nodes, NEW a \in Nat,
           NEW p \in Payloads, WriteRange(m, n, a, p)
    PROVE  Rebuilds(m, n)
<1> DEFINE t == Text(n)
           b == a + Len(p)
           end == 2 * a + Units(p)
           size == IF end > content[n].size THEN end ELSE content[n].size
<1>1. p \in Texts /\ p # <<>> /\ Exists(n) /\ a <= FullCount(n)
    BY PayloadAssumption DEF WriteRange
<1>2. /\ t \in Texts /\ Len(t) \in Nat /\ Units(t) = content[n].size
      /\ FullCount(n) \in Nat /\ 2 * FullCount(n) <= Units(t)
    <2>1. /\ t \in Texts /\ Units(t) = content[n].size
          /\ FullCount(n) \in Nat /\ 2 * FullCount(n) <= Units(t)
        BY <1>1, CommittedText
    <2>2. Len(t) \in Nat
        BY <2>1 DEF Texts
    <2>3. QED
        BY <2>1, <2>2
<1>3. Rebuild(m, n, a, p, b, size) /\ (end < content[n].size => Units(p) = 2 * Len(p))
    BY DEF WriteRange
<1>4. Len(p) \in Nat /\ p \in Seq(Chunk) /\ Units(p) \in Nat /\ Units(t) \in Nat
    BY <1>1, <1>2, UnitsOfText DEF Texts
<1>5. 2 * a <= Units(t) /\ b \in Nat
    BY <1>1, <1>2, <1>4
<1>6. \/ Units(t) = 2 * Len(t)
      \/ Units(t) = 2 * Len(t) - 1
    BY <1>2, UnitsOfText
<1>7. \/ Units(p) = 2 * Len(p)
      \/ Units(p) = 2 * Len(p) - 1
    BY <1>1, UnitsOfText
<1> HIDE DEF t
<1>8. CASE end < content[n].size
    <2>1. Units(p) = 2 * Len(p) /\ p[Len(p)] \in Full /\ b < Len(t) /\ size = Units(t)
        BY <1>1, <1>2, <1>3, <1>4, <1>6, <1>8, UnitsOfText
    <2>2. p \in Seq(Full)
        <3>1. \A i \in 1..Len(p) : p[i] \in Full
            BY <1>1, <1>4, <2>1 DEF Texts
        <3>2. QED
            BY <1>4, <3>1
    <2>3. Splice(t, a, p, b) \in Texts /\ Units(Splice(t, a, p, b)) = size
        BY <1>1, <1>2, <1>4, <1>5, <2>1, <2>2, SpliceIsText
    <2>4. QED
        BY <1>1, <1>3, <1>5, <2>1, <2>3 DEF t, Splices, Rebuilds
<1>9. CASE ~(end < content[n].size)
    <2>1. size = end
        <3>1. end \in Nat /\ content[n].size \in Nat
            BY <1>2, <1>4
        <3>2. QED
            BY <1>9, <3>1
    <2>2. Units(t) <= 2 * a + Units(p)
        BY <1>2, <1>4, <1>9
    <2>3. b >= Len(t)
        BY <1>2, <1>4, <1>6, <1>7, <2>2
    <2>4. Splice(t, a, p, b) \in Texts /\ Units(Splice(t, a, p, b)) = size
        BY <1>1, <1>2, <1>5, <2>1, <2>3, SpliceIsText
    <2>5. QED
        BY <1>1, <1>3, <1>5, <2>3, <2>4 DEF t, Splices, Rebuilds
<1>10. QED
    BY <1>8, <1>9

LEMMA ShrinkSplices ==
    ASSUME TypeInv, NEW m \in Mounts, NEW n \in Nodes, NEW a \in Nat,
           NEW p \in {<<>>} \cup {<<c>> : c \in Short}, Shrink(m, n, a, p)
    PROVE  Rebuilds(m, n)
<1>1. p \in Texts
    <2>1. CASE p = <<>>
        BY <2>1 DEF Texts
    <2>2. ASSUME NEW c \in Short, p = <<c>> PROVE p \in Texts
        <3>1. p \in Seq(Chunk) /\ Len(p) = 1
            BY <2>2 DEF Chunk
        <3>2. \A i \in 1..(Len(p) - 1) : p[i] \in Full
            BY <3>1
        <3>3. QED
            BY <3>1, <3>2 DEF Texts
    <2>3. QED
        BY <2>1, <2>2
<1>2. Exists(n) /\ 2 * a + Units(p) < content[n].size
    BY DEF Shrink
<1>3. /\ Text(n) \in Texts /\ Units(Text(n)) = content[n].size
      /\ content[n].size \in Nat /\ Units(p) \in Nat
      /\ ChunkCount(n) = Len(Text(n)) /\ Len(Text(n)) \in Nat
    <2>1. /\ Text(n) \in Texts /\ Units(Text(n)) = content[n].size
          /\ content[n].size \in Nat /\ ChunkCount(n) = Len(Text(n))
        BY <1>2, CommittedText
    <2>2. Len(Text(n)) \in Nat
        BY <2>1 DEF Texts
    <2>3. QED
        BY <1>1, <2>1, <2>2, UnitsOfText
<1>4. 2 * a <= Units(Text(n))
    BY <1>2, <1>3
<1>5. /\ Splice(Text(n), a, p, ChunkCount(n)) \in Texts
      /\ Units(Splice(Text(n), a, p, ChunkCount(n))) = 2 * a + Units(p)
    BY <1>1, <1>3, <1>4, SpliceIsText
<1>6. Rebuild(m, n, a, p, ChunkCount(n), 2 * a + Units(p))
    BY DEF Shrink
<1>7. QED
    BY <1>1, <1>2, <1>3, <1>4, <1>5, <1>6 DEF Splices, Rebuilds

LEMMA SetRetentionType ==
    ASSUME TypeInv, NEW m \in Mounts, NEW n \in Nodes, NEW k \in Keeps \cup {None},
           SetRetention(m, n, k)
    PROVE  TypeInv'
<1>1. /\ Exists(n) /\ content' = [content EXCEPT ![n].keep = k]
      /\ UNCHANGED <<manifest, pool, valid, locks, wr, rd, truth>>
    BY DEF SetRetention
<1>2. content[n] \in ContentRow
    BY <1>1, CommittedText
<1>3. /\ content' \in [Nodes -> ContentRow \cup {None}]
      /\ \A x \in Nodes : x # n => content'[x] = content[x]
      /\ content'[n].ver = content[n].ver /\ content'[n].size = content[n].size
    BY <1>1, <1>2, KeepAssumption DEF TypeInv, TypeOK, ContentRow
<1>4. ASSUME NEW x \in Nodes, Exists(x)'
      PROVE  (content[x].ver \in Committed(x) /\ Units(Text(x)) = content[x].size)'
    <2>1. Exists(x)
        BY <1>1, <1>3, <1>4 DEF Exists
    <2>2. content'[x].ver = content[x].ver /\ content'[x].size = content[x].size
        BY <1>3
    <2>3. QED
        BY <1>1, <2>1, <2>2 DEF TypeInv, CommittedSized, Committed, Text, Units
<1>5. QED
    BY <1>1, <1>3, <1>4 DEF TypeInv, TypeOK, CommittedSized

LEMMA OpenWriteType ==
    ASSUME TypeInv, NEW w \in Writers, NEW m \in Mounts, NEW n \in Nodes,
           NEW l \in LockIds, NEW append \in BOOLEAN, OpenWrite(w, m, n, l, append)
    PROVE  TypeInv'
<1> DEFINE carry == IF append THEN FullCount(n) ELSE 0
           src == IF append THEN content[n].ver ELSE 0
           buf == IF append /\ content[n].size % 2 = 1 THEN "part" ELSE "empty"
           rec == [phase |-> "open", mount |-> m, node |-> n, lock |-> l, ver |-> 0,
                   src |-> src, carry |-> carry, carried |-> FALSE,
                   out |-> SubSeq(Text(n), 1, carry), buf |-> buf]
<1>1. Exists(n) /\ SetWriter(w, rec) /\ UNCHANGED <<content, manifest, pool, valid, rd, truth>>
    BY DEF OpenWrite
<1>2. /\ Text(n) \in Texts /\ src \in Nat /\ carry \in Nat /\ 2 * carry <= Units(Text(n))
    BY <1>1, CommittedText, UnitsOfText, BoundAssumption
<1>3. SubSeq(Text(n), 1, carry) \in Seq(Full)
    BY <1>2, PrefixIsFull
<1>4. buf \in {"empty", "part", "full"}
    OBVIOUS
<1> HIDE DEF carry, src, buf
<1>5. rec \in Writer
    BY <1>2, <1>3, <1>4 DEF Writer
<1>6. wr' \in [Writers -> Writer]
    BY <1>1, <1>5 DEF SetWriter, TypeInv, TypeOK
<1>7. [st |-> "held", mount |-> m, node |-> n, live |-> TRUE] \in Lock
    BY DEF Lock
<1>8. locks' \in [LockIds -> Lock]
    BY <1>7 DEF OpenWrite, TypeInv, TypeOK, LockIds
<1>9. CommittedSized'
    BY <1>1, SameContentSized DEF TypeInv
<1>10. QED
    BY <1>1, <1>6, <1>8, <1>9 DEF TypeInv, TypeOK

LEMMA SetWriterType ==
    ASSUME TypeOK, NEW w \in Writers, NEW rec \in Writer, SetWriter(w, rec)
    PROVE  wr' \in [Writers -> Writer]
BY DEF TypeOK, SetWriter

LEMMA NoWriterType ==
    ASSUME NEW phase \in {"unused", "open", "closed", "crashed"}
    PROVE  NoWriter(phase) \in Writer
BY EmptySeq DEF NoWriter, Writer

LEMMA NoLockType == ASSUME NEW st \in {"unused", "held", "gone"} PROVE NoLock(st) \in Lock
BY DEF NoLock, Lock

LEMMA ReleaseOwnedType ==
    ASSUME TypeOK, NEW w \in Writers, ReleaseOwned(w)
    PROVE  locks' \in [LockIds -> Lock]
BY NoLockType DEF TypeOK, ReleaseOwned

(* What a flush or a close inserts is rows, at positions after what was       *)
(* written already.                                                           *)
LEMMA StagedType ==
    ASSUME TypeOK, NEW w \in Writers, wr[w].node \in Nodes, NEW v \in Nat,
           NEW p \in Seq(Chunk)
    PROVE  Staged(w, v, p) \subseteq ManifestRow
<1>1. Len(wr[w].out) \in Nat
    BY DEF TypeOK, Writer
<1>2. StageRows(wr[w].node, v, Len(wr[w].out), p) \subseteq ManifestRow
    BY <1>1, StageRowsType
<1>3. CarryRows(wr[w].node, wr[w].src, v, 0, wr[w].carry - 1) \subseteq ManifestRow
    BY CarryRowsType DEF TypeOK
<1>4. QED
    BY <1>2, <1>3 DEF Staged

(* An open descriptor is on an entry that exists, with a lock of its own. *)
OpenOnEntry ==
    \A w \in Writers : wr[w].phase = "open" =>
        /\ wr[w].node \in Nodes /\ Exists(wr[w].node)
        /\ wr[w].mount \in Mounts
        /\ wr[w].lock \in Tokens \cup {w}

LEMMA FlushType ==
    ASSUME TypeInv, OpenOnEntry, NEW w \in Writers, NEW c \in Full, Flush(w, c)
    PROVE  TypeInv'
<1>1. wr[w].node \in Nodes /\ wr[w] \in Writer
    BY DEF Flush, MayFlush, OpenOnEntry, TypeInv, TypeOK
<1>2. PICK v \in 1..MaxVersion :
        /\ Insert(Staged(w, v, <<c>>))
        /\ SetWriter(w, [wr[w] EXCEPT !.ver = v, !.carried = TRUE,
                                     !.out = Append(@, c), !.buf = "empty"])
    BY DEF Flush, MayFlush
<1>3. UNCHANGED <<content, valid, locks, rd, truth>>
    BY DEF Flush, MayFlush
<1>4. <<c>> \in Seq(Chunk)
    BY DEF Chunk
<1>5. Staged(w, v, <<c>>) \subseteq ManifestRow
    <2>1. v \in Nat /\ TypeOK
        BY BoundAssumption DEF TypeInv
    <2>2. QED
        BY <1>1, <1>4, <2>1, StagedType
<1>6. manifest' \subseteq ManifestRow /\ pool' \subseteq Chunk
    BY <1>2, <1>5, InsertType DEF TypeInv, TypeOK
<1>7. [wr[w] EXCEPT !.ver = v, !.carried = TRUE, !.out = Append(@, c), !.buf = "empty"]
        \in Writer
    <2>1. v \in Nat /\ Append(wr[w].out, c) \in Seq(Full)
        BY <1>1, BoundAssumption DEF Writer
    <2>2. QED
        BY <1>1, <2>1 DEF Writer
<1>8. wr' \in [Writers -> Writer]
    BY <1>2, <1>7, SetWriterType DEF TypeInv
<1>9. CommittedSized'
    BY <1>3, SameContentSized DEF TypeInv
<1>10. QED
    BY <1>3, <1>6, <1>8, <1>9 DEF TypeInv, TypeOK

LEMMA FlushFailsType ==
    ASSUME TypeInv, NEW w \in Writers, NEW c \in Full, FlushFails(w, c)
    PROVE  TypeInv'
<1>1. wr[w] \in Writer
    BY DEF TypeInv, TypeOK
<1>2. PICK v \in 0..MaxVersion, carried \in BOOLEAN :
        SetWriter(w, [wr[w] EXCEPT !.ver = v, !.carried = carried, !.buf = "full"])
    BY DEF FlushFails, MayFlush
<1>3. UNCHANGED <<content, manifest, pool, valid, locks, rd, truth>>
    BY DEF FlushFails, MayFlush
<1>4. [wr[w] EXCEPT !.ver = v, !.carried = carried, !.buf = "full"] \in Writer
    <2>1. v \in Nat
        BY BoundAssumption
    <2>2. QED
        BY <1>1, <2>1, Zenon DEF Writer
<1>5. wr' \in [Writers -> Writer]
    BY <1>2, <1>4, SetWriterType DEF TypeInv
<1>6. CommittedSized'
    BY <1>3, SameContentSized DEF TypeInv
<1>7. QED
    BY <1>3, <1>5, <1>6 DEF TypeInv, TypeOK

(* What close publishes is a text: full chunks and what was left in memory. *)
LEMMA LastChunkIsText ==
    ASSUME NEW out \in Seq(Full), NEW buf \in {"empty", "part", "full"},
           NEW p \in LastChunks(buf)
    PROVE  p \in Seq(Chunk) /\ out \o p \in Texts
<1>1. p = <<>> \/ \E c \in Chunk : p = <<c>>
    BY DEF LastChunks, Chunk
<1>2. out \in Seq(Chunk)
    BY DEF Chunk
<1>3. p \in Seq(Chunk) /\ Len(p) <= 1
    <2>1. CASE p = <<>>
        BY <2>1
    <2>2. CASE \E c \in Chunk : p = <<c>>
        BY <2>2
    <2>3. QED
        BY <1>1, <2>1, <2>2
<1>4. out \o p \in Seq(Chunk) /\ Len(out \o p) = Len(out) + Len(p)
    BY <1>2, <1>3
<1>5. ASSUME NEW i \in 1..(Len(out \o p) - 1) PROVE (out \o p)[i] \in Full
    <2>1. i \in 1..Len(out)
        <3>1. Len(out) \in Nat /\ Len(p) \in Nat
            BY <1>2, <1>3
        <3>2. QED
            BY <1>3, <1>4, <3>1
    <2>2. (out \o p)[i] = out[i]
        BY <1>2, <1>3, <2>1
    <2>3. QED
        BY <2>1, <2>2
<1>6. QED
    BY <1>3, <1>4, <1>5 DEF Texts

LEMMA CloseType ==
    ASSUME TypeInv, OpenOnEntry, NEW w \in Writers, NEW p \in LastChunks(wr[w].buf),
           Close(w, p)
    PROVE  TypeInv'
<1> DEFINE text == wr[w].out \o p
           n == wr[w].node
<1>1. n \in Nodes /\ Exists(n) /\ wr[w] \in Writer
    BY DEF Close, OpenOnEntry, TypeInv, TypeOK
<1>2. p \in Seq(Chunk) /\ text \in Texts
    BY <1>1, LastChunkIsText DEF Writer
<1>3. PICK v \in 1..MaxVersion : Insert(Staged(w, v, p)) /\ Publish(n, v, Units(text), text)
    BY DEF Close
<1>4. SetWriter(w, NoWriter("closed")) /\ ReleaseOwned(w) /\ UNCHANGED <<valid, rd>>
    BY DEF Close
<1>5. Staged(w, v, p) \subseteq ManifestRow
    BY <1>1, <1>2, StagedType DEF TypeInv
<1>6. manifest' \subseteq ManifestRow /\ pool' \subseteq Chunk
    BY <1>3, <1>5, InsertType DEF TypeInv, TypeOK
<1>7. wr' \in [Writers -> Writer]
    BY <1>4, NoWriterType, SetWriterType DEF TypeInv
<1>8. locks' \in [LockIds -> Lock]
    BY <1>4, ReleaseOwnedType DEF TypeInv
<1> HIDE DEF text, n
<1>9. /\ content' \in [Nodes -> ContentRow \cup {None}]
      /\ truth' \in [Nodes -> [0..MaxVersion -> Texts \cup {None}]]
      /\ CommittedSized'
    BY <1>1, <1>2, <1>3, PublishType
<1>10. QED
    BY <1>4, <1>6, <1>7, <1>8, <1>9 DEF TypeInv, TypeOK

(* The steps that only end a descriptor. *)
LEMMA DescriptorEndsType ==
    ASSUME TypeInv, NEW w \in Writers,
           \/ \E p \in LastChunks(wr[w].buf) : CloseFails(w, p)
           \/ Abort(w)
           \/ Crash(w)
    PROVE  TypeInv'
<1>1. PICK phase \in {"closed", "crashed"} : SetWriter(w, NoWriter(phase))
    BY DEF CloseFails, Abort, Crash
<1>2. UNCHANGED <<content, manifest, pool, valid, rd, truth>> /\ (UNCHANGED locks \/ ReleaseOwned(w))
    BY DEF CloseFails, Abort, Crash
<1>3. wr' \in [Writers -> Writer]
    BY <1>1, NoWriterType, SetWriterType DEF TypeInv
<1>4. locks' \in [LockIds -> Lock]
    BY <1>2, ReleaseOwnedType DEF TypeInv, TypeOK
<1>5. CommittedSized'
    BY <1>2, SameContentSized DEF TypeInv
<1>6. QED
    BY <1>2, <1>3, <1>4, <1>5 DEF TypeInv, TypeOK

(* The steps that only change locks or mounts. *)
LEMMA LockStepsType ==
    ASSUME TypeInv,
           \/ \E l \in Tokens, m \in Mounts, n \in Nodes : TakeLock(l, m, n)
           \/ \E l \in Tokens : Unlock(l) \/ LockElapses(l)
           \/ \E m \in Mounts : MountEnds(m)
           \/ Prune
    PROVE  TypeInv'
<1>1. UNCHANGED <<content, manifest, pool, wr, rd, truth>>
    BY DEF TakeLock, Unlock, LockElapses, MountEnds, Prune
<1>2. CommittedSized'
    BY <1>1, SameContentSized DEF TypeInv
<1>3. locks' \in [LockIds -> Lock] /\ valid' \subseteq Mounts
    <2>1. CASE \E l \in Tokens, m \in Mounts, n \in Nodes : TakeLock(l, m, n)
        <3>1. PICK l \in Tokens, m \in Mounts, n \in Nodes : TakeLock(l, m, n)
            BY <2>1
        <3>2. [st |-> "held", mount |-> m, node |-> n, live |-> TRUE] \in Lock
            BY DEF Lock
        <3>3. QED
            BY <3>1, <3>2 DEF TakeLock, TypeInv, TypeOK
    <2>2. CASE \E l \in Tokens : Unlock(l) \/ LockElapses(l)
        <3>1. PICK l \in Tokens : Unlock(l) \/ LockElapses(l)
            BY <2>2
        <3>2. l \in LockIds /\ [locks[l] EXCEPT !.live = FALSE] \in Lock
            BY DEF TypeInv, TypeOK, Lock, LockIds
        <3>3. QED
            BY <3>1, <3>2, NoLockType DEF Unlock, LockElapses, TypeInv, TypeOK
    <2>3. CASE \E m \in Mounts : MountEnds(m)
        BY <2>3 DEF MountEnds, TypeInv, TypeOK
    <2>4. CASE Prune
        BY <2>4, NoLockType DEF Prune, TypeInv, TypeOK
    <2>5. QED
        BY <2>1, <2>2, <2>3, <2>4
<1>4. QED
    BY <1>1, <1>2, <1>3 DEF TypeInv, TypeOK

LEMMA PruneContentType == ASSUME TypeInv, PruneContent PROVE TypeInv'
<1>1. UNCHANGED <<content, valid, locks, wr, rd, truth>>
    BY DEF PruneContent
<1>2. manifest' \subseteq manifest /\ pool' \subseteq pool
    BY DEF PruneContent, Kept, Referenced
<1>3. CommittedSized'
    BY <1>1, SameContentSized DEF TypeInv
<1>4. QED
    BY <1>1, <1>2, <1>3 DEF TypeInv, TypeOK

LEMMA ReadType ==
    ASSUME TypeInv, NEW r \in Readers,
           ReadChunks(r) \/ \E n \in Nodes : ReadMeta(r, n)
    PROVE  TypeInv'
<1>1. UNCHANGED <<content, manifest, pool, valid, locks, wr, truth>>
    BY DEF ReadChunks, ReadMeta
<1>2. CommittedSized'
    BY <1>1, SameContentSized DEF TypeInv
<1>3. rd' \in [Readers -> Reader]
    <2>1. CASE ReadChunks(r)
        <3>1. rd[r] \in Reader /\ Rows(rd[r].node, rd[r].ver) \subseteq ManifestRow
            BY DEF TypeInv, TypeOK, Rows
        <3>2. [rd[r] EXCEPT !.phase = "done", !.node = None, !.ver = 0,
                            !.got = Rows(rd[r].node, rd[r].ver)] \in Reader
            BY <3>1 DEF Reader
        <3>3. QED
            BY <2>1, <3>2 DEF ReadChunks, TypeInv, TypeOK
    <2>2. CASE \E n \in Nodes : ReadMeta(r, n)
        <3>1. PICK n \in Nodes : ReadMeta(r, n)
            BY <2>2
        <3>2. content[n].ver \in Nat /\ Text(n) \in Texts
            BY <3>1, CommittedText, BoundAssumption DEF ReadMeta
        <3>3. [phase |-> "meta", node |-> n, ver |-> content[n].ver,
               want |-> Text(n), got |-> {}] \in Reader
            BY <3>2 DEF Reader
        <3>4. QED
            BY <3>1, <3>3 DEF ReadMeta, TypeInv, TypeOK
    <2>3. QED
        BY <2>1, <2>2
<1>4. QED
    BY <1>1, <1>2, <1>3 DEF TypeInv, TypeOK

(* No operation of the model deletes an entry. *)
LEMMA EntriesStay ==
    ASSUME TypeInv, OpenOnEntry, Next, NEW n \in Nodes, Exists(n)
    PROVE  Exists(n)'
<1>1. content[n] \in ContentRow
    BY CommittedText
<1>2. CASE UNCHANGED content
    BY <1>2 DEF Exists
<1>3. ASSUME NEW x \in Nodes, NEW v \in 1..MaxVersion, NEW size \in Nat, NEW text,
             Publish(x, v, size, text)
      PROVE  Exists(n)'
    <2>1. content'[n] \in ContentRow
        <3>1. v \in Nat
            BY BoundAssumption
        <3>2. QED
            BY <1>1, <1>3, <3>1 DEF Publish, TypeInv, TypeOK, ContentRow
    <2>2. QED
        BY <2>1, NoneAssumption DEF Exists
<1>4. ASSUME NEW m \in Mounts, NEW x \in Nodes, NEW p \in Payloads, CreateEntry(m, x, p)
      PROVE  Exists(n)'
    <2>1. n # x
        BY <1>4 DEF CreateEntry
    <2>2. content'[n] = content[n]
        BY <1>4, <2>1 DEF CreateEntry, TypeInv, TypeOK
    <2>3. QED
        BY <2>2 DEF Exists
<1>5. ASSUME NEW m \in Mounts, NEW x \in Nodes, NEW y \in Nodes, Copy(m, x, y)
      PROVE  Exists(n)'
    <2>1. n # y
        BY <1>5 DEF Copy
    <2>2. content'[n] = content[n]
        BY <1>5, <2>1 DEF Copy, TypeInv, TypeOK
    <2>3. QED
        BY <2>2 DEF Exists
<1>6. ASSUME NEW m \in Mounts, NEW x \in Nodes, NEW k \in Keeps \cup {None},
             SetRetention(m, x, k)
      PROVE  Exists(n)'
    <2>1. content'[n] \in ContentRow
        BY <1>1, <1>6, KeepAssumption DEF SetRetention, TypeInv, TypeOK, ContentRow
    <2>2. QED
        BY <2>1, NoneAssumption DEF Exists
<1>7. ASSUME NEW m \in Mounts, NEW x \in Nodes, NEW p \in Payloads, WriteAll(m, x, p)
      PROVE  Exists(n)'
    <2>1. Units(p) \in Nat
        BY PayloadAssumption, UnitsOfText
    <2>2. QED
        BY <1>3, <1>7, <2>1 DEF WriteAll
<1>8. ASSUME NEW m \in Mounts, NEW x \in Nodes, NEW a, NEW p, NEW b, NEW size \in Nat,
             Rebuild(m, x, a, p, b, size)
      PROVE  Exists(n)'
    BY <1>3, <1>8 DEF Rebuild
<1>9. ASSUME NEW m \in Mounts, NEW x \in Nodes, NEW p \in Payloads, AppendTo(m, x, p)
      PROVE  Exists(n)'
    <2>1. Exists(x) /\ Units(p) \in Nat /\ p \in Texts
        BY <1>9, PayloadAssumption, UnitsOfText DEF AppendTo
    <2>2. 2 * FullCount(x) + Units(p) \in Nat
        BY <2>1, CommittedText
    <2>3. QED
        BY <1>8, <1>9, <2>2 DEF AppendTo
<1>10. ASSUME NEW m \in Mounts, NEW x \in Nodes, NEW a \in 0..MaxChunks, NEW p \in Payloads,
              WriteRange(m, x, a, p)
       PROVE  Exists(n)'
    <2> DEFINE end == 2 * a + Units(p)
               size == IF end > content[x].size THEN end ELSE content[x].size
    <2>1. Exists(x) /\ Units(p) \in Nat /\ a \in Nat
        BY <1>10, PayloadAssumption, UnitsOfText, BoundAssumption DEF WriteRange
    <2>2. content[x].size \in Nat
        BY <2>1, CommittedText
    <2>3. size \in Nat
        BY <2>1, <2>2
    <2>4. QED
        BY <1>8, <1>10, <2>3 DEF WriteRange
<1>11. ASSUME NEW m \in Mounts, NEW x \in Nodes, NEW a \in 0..MaxChunks,
              NEW p \in {<<>>} \cup {<<c>> : c \in Short}, Shrink(m, x, a, p)
       PROVE  Exists(n)'
    <2>1. p \in LastChunks("empty")
        BY DEF LastChunks
    <2>2. p \in Texts /\ a \in Nat
        <3>1. p \in Seq(Chunk) /\ <<>> \o p \in Texts
            BY <2>1, LastChunkIsText, EmptySeq
        <3>2. QED
            BY <3>1, BoundAssumption, ConcatEmptySeq
    <2>3. 2 * a + Units(p) \in Nat
        BY <2>2, UnitsOfText
    <2>4. QED
        BY <1>8, <1>11, <2>3 DEF Shrink
<1>12. ASSUME NEW w \in Writers, NEW p \in LastChunks(wr[w].buf), Close(w, p)
       PROVE  Exists(n)'
    <2>1. wr[w].out \o p \in Texts /\ wr[w].node \in Nodes
        <3>1. wr[w] \in Writer
            BY DEF TypeInv, TypeOK
        <3>2. QED
            BY <1>12, <3>1, LastChunkIsText DEF Writer, OpenOnEntry, Close
    <2>2. Units(wr[w].out \o p) \in Nat
        BY <2>1, UnitsOfText
    <2>3. QED
        BY <1>3, <1>12, <2>1, <2>2 DEF Close
<1>13. QED
    <2>1. ASSUME NEW m \in Mounts, NEW n1 \in Nodes,
                 \/ \E l \in Tokens : TakeLock(l, m, n1)
                 \/ \E w \in Writers, l \in LockIds, append \in BOOLEAN :
                        OpenWrite(w, m, n1, l, append)
          PROVE  UNCHANGED content
        BY <2>1 DEF TakeLock, OpenWrite
    <2>2. ASSUME NEW w \in Writers,
                 \/ \E c \in Full : Flush(w, c) \/ FlushFails(w, c)
                 \/ \E p \in LastChunks(wr[w].buf) : CloseFails(w, p)
                 \/ Abort(w) \/ Crash(w)
          PROVE  UNCHANGED content
        BY <2>2 DEF Flush, FlushFails, MayFlush, CloseFails, Abort, Crash
    <2>3. ASSUME \/ \E l \in Tokens : Unlock(l) \/ LockElapses(l)
                 \/ \E m \in Mounts : MountEnds(m)
                 \/ Prune \/ PruneContent
                 \/ \E r \in Readers : ReadChunks(r) \/ \E x \in Nodes : ReadMeta(r, x)
          PROVE  UNCHANGED content
        BY <2>3 DEF Unlock, LockElapses, MountEnds, Prune, PruneContent, ReadChunks, ReadMeta
    <2>4. QED
        BY <1>2, <1>4, <1>5, <1>6, <1>7, <1>9, <1>10, <1>11, <1>12, <2>1, <2>2, <2>3 DEF Next

LEMMA TypeStep == ASSUME TypeInv, OpenOnEntry, [Next]_vars PROVE TypeInv'
<1>1. CASE UNCHANGED vars
    BY <1>1, SameContentSized DEF vars, TypeInv, TypeOK
<1>2. ASSUME NEW m \in Mounts, NEW n \in Nodes, NEW p \in Payloads,
             \/ CreateEntry(m, n, p) \/ WriteAll(m, n, p) \/ AppendTo(m, n, p)
             \/ \E a \in 0..MaxChunks : WriteRange(m, n, a, p)
      PROVE  TypeInv'
    <2>1. 0..MaxChunks \subseteq Nat
        BY BoundAssumption
    <2>2. QED
        BY <1>2, <2>1, CreateEntryType, WriteAllType, AppendToSplices, WriteRangeSplices, RebuildType
<1>3. ASSUME NEW m \in Mounts, NEW n \in Nodes, NEW a \in 0..MaxChunks,
             NEW p \in {<<>>} \cup {<<c>> : c \in Short}, Shrink(m, n, a, p)
      PROVE  TypeInv'
    <2>1. a \in Nat
        BY BoundAssumption
    <2>2. QED
        BY <1>3, <2>1, ShrinkSplices, RebuildType
<1>4. ASSUME NEW m \in Mounts, NEW n \in Nodes,
             \/ \E dst \in Nodes : Copy(m, n, dst)
             \/ \E k \in Keeps \cup {None} : SetRetention(m, n, k)
             \/ \E l \in Tokens : TakeLock(l, m, n)
             \/ \E w \in Writers, l \in LockIds, append \in BOOLEAN :
                    OpenWrite(w, m, n, l, append)
      PROVE  TypeInv'
    BY <1>4, CopyType, SetRetentionType, LockStepsType, OpenWriteType
<1>5. ASSUME NEW w \in Writers,
             \/ \E c \in Full : Flush(w, c) \/ FlushFails(w, c)
             \/ \E p \in LastChunks(wr[w].buf) : Close(w, p) \/ CloseFails(w, p)
             \/ Abort(w) \/ Crash(w)
      PROVE  TypeInv'
    BY <1>5, FlushType, FlushFailsType, CloseType, DescriptorEndsType
<1>6. ASSUME \/ \E l \in Tokens : Unlock(l) \/ LockElapses(l)
             \/ \E m \in Mounts : MountEnds(m)
             \/ Prune \/ PruneContent
             \/ \E r \in Readers : ReadChunks(r) \/ \E n \in Nodes : ReadMeta(r, n)
      PROVE  TypeInv'
    BY <1>6, LockStepsType, PruneContentType, ReadType
<1>7. QED
    BY <1>1, <1>2, <1>3, <1>4, <1>5, <1>6 DEF Next

(* What any step does to the descriptors: nothing, or it opens one, or it     *)
(* moves one that is open, which stays on its entry and its lock or ends.     *)
LEMMA DescriptorSteps ==
    ASSUME Next
    PROVE  \/ UNCHANGED wr
           \/ \E w \in Writers, m \in Mounts, n \in Nodes, l \in LockIds, append \in BOOLEAN :
                OpenWrite(w, m, n, l, append)
           \/ \E w \in Writers, c \in Full : Flush(w, c) \/ FlushFails(w, c)
           \/ \E w \in Writers, phase \in {"closed", "crashed"} :
                SetWriter(w, NoWriter(phase))
<1>1. ASSUME NEW m \in Mounts, NEW n \in Nodes,
             \/ \E p \in Payloads :
                    \/ CreateEntry(m, n, p) \/ WriteAll(m, n, p) \/ AppendTo(m, n, p)
                    \/ \E a \in 0..MaxChunks : WriteRange(m, n, a, p)
             \/ \E a \in 0..MaxChunks, p \in {<<>>} \cup {<<c>> : c \in Short} : Shrink(m, n, a, p)
             \/ \E dst \in Nodes : Copy(m, n, dst)
             \/ \E k \in Keeps \cup {None} : SetRetention(m, n, k)
             \/ \E l \in Tokens : TakeLock(l, m, n)
      PROVE  UNCHANGED wr
    BY <1>1 DEF CreateEntry, WriteAll, AppendTo, WriteRange, Shrink, Rebuild, Copy,
                SetRetention, TakeLock
<1>2. ASSUME NEW w \in Writers,
             \/ \E p \in LastChunks(wr[w].buf) : Close(w, p) \/ CloseFails(w, p)
             \/ Abort(w) \/ Crash(w)
      PROVE  \E phase \in {"closed", "crashed"} : SetWriter(w, NoWriter(phase))
    BY <1>2 DEF Close, CloseFails, Abort, Crash
<1>3. ASSUME \/ \E l \in Tokens : Unlock(l) \/ LockElapses(l)
             \/ \E m \in Mounts : MountEnds(m)
             \/ Prune \/ PruneContent
             \/ \E r \in Readers : ReadChunks(r) \/ \E n \in Nodes : ReadMeta(r, n)
      PROVE  UNCHANGED wr
    BY <1>3 DEF Unlock, LockElapses, MountEnds, Prune, PruneContent, ReadChunks, ReadMeta
<1>4. QED
    BY <1>1, <1>2, <1>3 DEF Next

LEMMA OpenOnEntryStep == ASSUME TypeInv, OpenOnEntry, [Next]_vars PROVE OpenOnEntry'
<1> SUFFICES ASSUME Next PROVE OpenOnEntry'
    BY DEF vars, OpenOnEntry, Exists
<1>1. \A n \in Nodes : Exists(n) => Exists(n)'
    BY EntriesStay
<1>2. CASE UNCHANGED wr
    BY <1>1, <1>2 DEF OpenOnEntry
<1>3. ASSUME NEW w \in Writers, NEW m \in Mounts, NEW n \in Nodes, NEW l \in LockIds,
             NEW append \in BOOLEAN, OpenWrite(w, m, n, l, append)
      PROVE  OpenOnEntry'
    <2>1. Exists(n) /\ l \in Tokens \cup {w}
        BY <1>3 DEF OpenWrite
    <2>2. \A x \in Writers : x # w => wr'[x] = wr[x]
        BY <1>3 DEF OpenWrite, SetWriter, TypeInv, TypeOK
    <2>3. wr'[w].node = n /\ wr'[w].mount = m /\ wr'[w].lock = l
        BY <1>3 DEF OpenWrite, SetWriter, TypeInv, TypeOK
    <2>4. QED
        BY <1>1, <2>1, <2>2, <2>3 DEF OpenOnEntry
<1>4. ASSUME NEW w \in Writers, NEW c \in Full, Flush(w, c) \/ FlushFails(w, c)
      PROVE  OpenOnEntry'
    <2>1. \A x \in Writers : x # w => wr'[x] = wr[x]
        BY <1>4 DEF Flush, FlushFails, MayFlush, SetWriter, TypeInv, TypeOK
    <2>2. /\ wr[w].phase = "open" /\ wr'[w].node = wr[w].node
          /\ wr'[w].mount = wr[w].mount /\ wr'[w].lock = wr[w].lock
        <3>1. CASE Flush(w, c)
            BY <3>1 DEF Flush, MayFlush, SetWriter, TypeInv, TypeOK, Writer
        <3>2. CASE FlushFails(w, c)
            BY <3>2 DEF FlushFails, MayFlush, SetWriter, TypeInv, TypeOK, Writer
        <3>3. QED
            BY <1>4, <3>1, <3>2
    <2>3. QED
        BY <1>1, <2>1, <2>2 DEF OpenOnEntry
<1>5. ASSUME NEW w \in Writers, NEW phase \in {"closed", "crashed"},
             SetWriter(w, NoWriter(phase))
      PROVE  OpenOnEntry'
    <2>1. \A x \in Writers : x # w => wr'[x] = wr[x]
        BY <1>5 DEF SetWriter, TypeInv, TypeOK
    <2>2. wr'[w].phase # "open"
        BY <1>5 DEF SetWriter, NoWriter, TypeInv, TypeOK
    <2>3. QED
        BY <1>1, <2>1, <2>2 DEF OpenOnEntry
<1>6. QED
    BY <1>2, <1>3, <1>4, <1>5, DescriptorSteps

LEMMA InitTyped == Init => TypeInv /\ OpenOnEntry
<1> SUFFICES ASSUME Init PROVE TypeInv /\ OpenOnEntry
    OBVIOUS
<1>1. \A l \in LockIds : locks[l] \in Lock
    BY NoLockType DEF Init
<1>2. \A w \in Writers : wr[w] \in Writer /\ wr[w].phase = "unused"
    BY NoWriterType DEF Init, NoWriter
<1>3. <<>> \in Texts
    BY DEF Texts
<1>4. \A r \in Readers : rd[r] \in Reader
    BY <1>3 DEF Init, NoReader, Reader
<1>5. TypeOK
    BY <1>1, <1>2, <1>4 DEF Init, TypeOK
<1>6. CommittedSized
    BY DEF Init, CommittedSized, Exists
<1>7. QED
    BY <1>2, <1>5, <1>6 DEF TypeInv, OpenOnEntry

(* The strengthening: well-typed state, sizes that match the committed texts, *)
(* and open descriptors on entries that exist.                                *)
THEOREM TypeInvariant == Spec => [](TypeInv /\ OpenOnEntry)
<1>1. Init => TypeInv /\ OpenOnEntry
    BY InitTyped
<1>2. TypeInv /\ OpenOnEntry /\ [Next]_vars => (TypeInv /\ OpenOnEntry)'
    BY TypeStep, OpenOnEntryStep
<1>3. QED
    BY <1>1, <1>2, PTL DEF Spec

(* Every value of every variable is one the code can produce, in particular   *)
(* what descriptors carry and stage: append's memory holds whole full chunks. *)
THEOREM TypeCorrect == Spec => []TypeOK
<1>1. TypeInv => TypeOK
    BY DEF TypeInv
<1>2. QED
    BY <1>1, TypeInvariant, PTL

(* append, write_range, truncate and close agree about sizes: whatever runs   *)
(* in between, and whatever fails, dividing the size in the content row by    *)
(* the chunk size finds the chunk boundaries of the committed text.           *)
THEOREM SizesCorrect == Spec => []CommittedSized
<1>1. TypeInv => CommittedSized
    BY DEF TypeInv
<1>2. QED
    BY <1>1, TypeInvariant, PTL

(***************************************************************************)
(* The chunk pool                                                          *)
(***************************************************************************)
(* What any step does to the rows: nothing, an insertion, or a sweep. *)
LEMMA RowSteps ==
    ASSUME Next
    PROVE  \/ UNCHANGED <<manifest, pool>>
           \/ \E rows : Insert(rows)
           \/ PruneContent
<1>1. ASSUME NEW m \in Mounts, NEW n \in Nodes,
             \/ \E p \in Payloads :
                    \/ CreateEntry(m, n, p) \/ WriteAll(m, n, p) \/ AppendTo(m, n, p)
                    \/ \E a \in 0..MaxChunks : WriteRange(m, n, a, p)
             \/ \E a \in 0..MaxChunks, p \in {<<>>} \cup {<<c>> : c \in Short} : Shrink(m, n, a, p)
             \/ \E dst \in Nodes : Copy(m, n, dst)
      PROVE  \E rows : Insert(rows)
    BY <1>1 DEF CreateEntry, WriteAll, AppendTo, WriteRange, Shrink, Rebuild, Copy
<1>2. ASSUME NEW m \in Mounts, NEW n \in Nodes,
             \/ \E k \in Keeps \cup {None} : SetRetention(m, n, k)
             \/ \E l \in Tokens : TakeLock(l, m, n)
             \/ \E w \in Writers, l \in LockIds, append \in BOOLEAN :
                    OpenWrite(w, m, n, l, append)
      PROVE  UNCHANGED <<manifest, pool>>
    BY <1>2 DEF SetRetention, TakeLock, OpenWrite
<1>3. ASSUME NEW w \in Writers,
             \/ \E c \in Full : Flush(w, c)
             \/ \E p \in LastChunks(wr[w].buf) : Close(w, p)
      PROVE  \E rows : Insert(rows)
    BY <1>3 DEF Flush, MayFlush, Close
<1>4. ASSUME NEW w \in Writers,
             \/ \E c \in Full : FlushFails(w, c)
             \/ \E p \in LastChunks(wr[w].buf) : CloseFails(w, p)
             \/ Abort(w) \/ Crash(w)
      PROVE  UNCHANGED <<manifest, pool>>
    BY <1>4 DEF FlushFails, MayFlush, CloseFails, Abort, Crash
<1>5. ASSUME \/ \E l \in Tokens : Unlock(l) \/ LockElapses(l)
             \/ \E m \in Mounts : MountEnds(m)
             \/ Prune
             \/ \E r \in Readers : ReadChunks(r) \/ \E n \in Nodes : ReadMeta(r, n)
      PROVE  UNCHANGED <<manifest, pool>>
    BY <1>5 DEF Unlock, LockElapses, MountEnds, Prune, ReadChunks, ReadMeta
<1>6. QED
    BY <1>1, <1>2, <1>3, <1>4, <1>5 DEF Next

(* No sweep of the pool takes a chunk some row still names: deduplication and *)
(* collection never leave a version with a missing chunk (CV-7).              *)
THEOREM PoolCorrect == Spec => []PoolCovers
<1>1. Init => PoolCovers
    BY DEF Init, PoolCovers
<1>2. ASSUME PoolCovers, [Next]_vars PROVE PoolCovers'
    <2>1. CASE UNCHANGED <<manifest, pool>>
        BY <1>2, <2>1 DEF PoolCovers
    <2>2. CASE \E rows : Insert(rows)
        BY <1>2, <2>2 DEF PoolCovers, Insert
    <2>3. CASE PruneContent
        BY <1>2, <2>3 DEF PoolCovers, PruneContent, Referenced, Kept
    <2>4. QED
        BY <1>2, <2>1, <2>2, <2>3, RowSteps DEF vars
<1>3. QED
    BY <1>1, <1>2, PTL DEF Spec

(***************************************************************************)
(* Locks                                                                   *)
(***************************************************************************)
(* Lock l is where it was, or has lost its validity, or is gone. *)
SameLock(l) ==
    /\ LockValid(l)' => LockValid(l)
    /\ locks'[l].st = "held" => /\ locks[l].st = "held"
                                /\ locks'[l].node = locks[l].node
                                /\ locks'[l].mount = locks[l].mount
    /\ locks'[l].st = "unused" => locks[l].st = "unused"

(* What any step does to the locks that are valid after it: every one of them *)
(* was valid before, but for at most one new one.                             *)
LEMMA LockSteps ==
    ASSUME TypeInv, OpenOnEntry, Next
    PROVE  \/ \A l \in LockIds : SameLock(l)
           \/ \E x \in LockIds, m \in Mounts, n \in Nodes :
                /\ ~HeldByOther(m, n)
                /\ locks' = [locks EXCEPT ![x] = [st |-> "held", mount |-> m, node |-> n,
                                                  live |-> TRUE]]
                /\ UNCHANGED valid
                /\ \/ x \in Tokens /\ locks[x].st = "unused" /\ UNCHANGED wr
                   \/ x \in Writers /\ wr[x].phase = "unused"
                /\ UNCHANGED manifest
<1>1. CASE UNCHANGED <<valid, locks>>
    BY <1>1 DEF SameLock, LockValid
<1>2. ASSUME NEW m \in Mounts, NEW n \in Nodes, NEW l \in Tokens, TakeLock(l, m, n)
      PROVE  /\ l \in LockIds /\ ~HeldByOther(m, n)
             /\ locks' = [locks EXCEPT ![l] = [st |-> "held", mount |-> m, node |-> n,
                                               live |-> TRUE]]
             /\ locks[l].st = "unused"
             /\ UNCHANGED <<valid, wr, manifest>>
    BY <1>2 DEF TakeLock, LockIds, HeldByOther, Locked
<1>3. ASSUME NEW w \in Writers, NEW m \in Mounts, NEW n \in Nodes, NEW l \in LockIds,
             NEW append \in BOOLEAN, OpenWrite(w, m, n, l, append)
      PROVE  /\ UNCHANGED <<valid, manifest>> /\ wr[w].phase = "unused" /\ w \in LockIds
             /\ \/ UNCHANGED locks
                \/ /\ ~HeldByOther(m, n)
                   /\ locks' = [locks EXCEPT ![w] = [st |-> "held", mount |-> m, node |-> n,
                                                     live |-> TRUE]]
    BY <1>3 DEF OpenWrite, LockIds
<1>4. ASSUME NEW x \in LockIds, locks' = [locks EXCEPT ![x] = NoLock("gone")], UNCHANGED valid
      PROVE  \A l \in LockIds : SameLock(l)
    <2>1. \A l \in LockIds : l # x => locks'[l] = locks[l]
        BY <1>4 DEF TypeInv, TypeOK
    <2>2. locks'[x].st = "gone"
        BY <1>4 DEF TypeInv, TypeOK, NoLock
    <2>3. QED
        BY <1>4, <2>1, <2>2 DEF SameLock, LockValid
<1>5. ASSUME NEW w \in Writers, ReleaseOwned(w), UNCHANGED valid
      PROVE  \A l \in LockIds : SameLock(l)
    <2>1. CASE UNCHANGED locks
        BY <1>5, <2>1 DEF SameLock, LockValid
    <2>2. CASE locks' = [locks EXCEPT ![w] = NoLock("gone")]
        BY <1>4, <1>5, <2>2 DEF LockIds
    <2>3. QED
        BY <1>5, <2>1, <2>2 DEF ReleaseOwned
<1>6. ASSUME NEW l \in Tokens, LockElapses(l)
      PROVE  \A k \in LockIds : SameLock(k)
    <2>1. \A k \in LockIds : k # l => locks'[k] = locks[k]
        BY <1>6 DEF LockElapses, TypeInv, TypeOK
    <2>2. /\ ~locks'[l].live /\ locks'[l].st = locks[l].st
          /\ locks'[l].node = locks[l].node /\ locks'[l].mount = locks[l].mount
          /\ UNCHANGED valid
        BY <1>6 DEF LockElapses, TypeInv, TypeOK, Lock, LockIds
    <2>3. QED
        BY <2>1, <2>2 DEF SameLock, LockValid
<1>7. ASSUME NEW m \in Mounts, MountEnds(m)
      PROVE  \A l \in LockIds : SameLock(l)
    BY <1>7 DEF MountEnds, SameLock, LockValid
<1>8. CASE Prune
    <2>1. \A l \in LockIds : locks'[l] = locks[l] \/ locks'[l].st = "gone"
        BY <1>8 DEF Prune, NoLock
    <2>2. UNCHANGED valid
        BY <1>8 DEF Prune
    <2>3. QED
        BY <2>1, <2>2 DEF SameLock, LockValid
<1>9. ASSUME NEW m \in Mounts, NEW n \in Nodes,
             \/ \E p \in Payloads :
                    \/ CreateEntry(m, n, p) \/ WriteAll(m, n, p) \/ AppendTo(m, n, p)
                    \/ \E a \in 0..MaxChunks : WriteRange(m, n, a, p)
             \/ \E a \in 0..MaxChunks, p \in {<<>>} \cup {<<c>> : c \in Short} : Shrink(m, n, a, p)
             \/ \E dst \in Nodes : Copy(m, n, dst)
             \/ \E k \in Keeps \cup {None} : SetRetention(m, n, k)
      PROVE  UNCHANGED <<valid, locks>>
    BY <1>9 DEF CreateEntry, WriteAll, AppendTo, WriteRange, Shrink, Rebuild, Copy, SetRetention
<1>10. ASSUME NEW w \in Writers,
              \/ \E c \in Full : Flush(w, c) \/ FlushFails(w, c)
              \/ \E p \in LastChunks(wr[w].buf) : CloseFails(w, p)
              \/ Crash(w)
       PROVE  UNCHANGED <<valid, locks>>
    BY <1>10 DEF Flush, FlushFails, MayFlush, CloseFails, Crash
<1>11. ASSUME NEW w \in Writers,
              Abort(w) \/ \E p \in LastChunks(wr[w].buf) : Close(w, p)
       PROVE  ReleaseOwned(w) /\ UNCHANGED valid
    BY <1>11 DEF Abort, Close
<1>12. ASSUME NEW l \in Tokens, Unlock(l)
       PROVE  \A k \in LockIds : SameLock(k)
    BY <1>4, <1>12 DEF Unlock, LockIds
<1>13. ASSUME PruneContent \/ \E r \in Readers : ReadChunks(r) \/ \E n \in Nodes : ReadMeta(r, n)
       PROVE  UNCHANGED <<valid, locks>>
    BY <1>13 DEF PruneContent, ReadChunks, ReadMeta
<1>14. QED
    BY <1>1, <1>2, <1>3, <1>5, <1>6, <1>7, <1>8, <1>9, <1>10, <1>11, <1>12, <1>13 DEF Next

(* Two mounts never hold valid locks on one entry at once, whichever of the   *)
(* three ways each lock was acquired (ACC-6, ACC-7).                          *)
THEOREM LocksCorrect == Spec => []LockExclusive
<1>1. Init => LockExclusive
    BY DEF Init, LockExclusive, LockValid, NoLock
<1>2. ASSUME TypeInv, OpenOnEntry, LockExclusive, [Next]_vars PROVE LockExclusive'
    <2>1. CASE UNCHANGED vars
        BY <1>2, <2>1 DEF vars, LockExclusive, LockValid
    <2>2. CASE \A l \in LockIds : SameLock(l)
        BY <1>2, <2>2 DEF SameLock, LockExclusive, LockValid
    <2>3. ASSUME NEW x \in LockIds, NEW m \in Mounts, NEW n \in Nodes,
                 ~HeldByOther(m, n), UNCHANGED valid,
                 locks' = [locks EXCEPT ![x] = [st |-> "held", mount |-> m, node |-> n,
                                                live |-> TRUE]]
          PROVE  LockExclusive'
        <3>1. locks'[x].node = n /\ locks'[x].mount = m
            BY <2>3, <1>2 DEF TypeInv, TypeOK
        <3>2. \A l \in LockIds :
                l # x => locks'[l] = locks[l] /\ (LockValid(l)' <=> LockValid(l))
            BY <2>3, <1>2 DEF TypeInv, TypeOK, LockValid
        <3>3. \A l \in LockIds : LockValid(l) /\ locks[l].node = n => locks[l].mount = m
            BY <2>3 DEF HeldByOther
        <3>4. ASSUME NEW k \in LockIds, NEW l \in LockIds,
                     LockValid(k)', LockValid(l)', locks'[k].node = locks'[l].node
              PROVE  locks'[k].mount = locks'[l].mount
            <4>1. CASE k # x /\ l # x
                <5>1. LockValid(k) /\ LockValid(l) /\ locks'[k] = locks[k] /\ locks'[l] = locks[l]
                    BY <3>2, <3>4, <4>1 DEF LockValid
                <5>2. QED
                    BY <1>2, <3>4, <5>1 DEF LockExclusive
            <4>2. CASE k = x
                BY <3>1, <3>2, <3>3, <3>4, <4>2 DEF LockValid
            <4>3. CASE l = x
                BY <3>1, <3>2, <3>3, <3>4, <4>3 DEF LockValid
            <4>4. QED
                BY <4>1, <4>2, <4>3
        <3>5. QED
            BY <3>4 DEF LockExclusive
    <2>4. QED
        BY <1>2, <2>1, <2>2, <2>3, LockSteps
<1>3. QED
    BY <1>1, <1>2, TypeInvariant, PTL DEF Spec

(***************************************************************************)
(* Staged chunks under a valid lock                                        *)
(***************************************************************************)
(* The lock an open descriptor names was acquired, and while it is held it is *)
(* the descriptor's mount's lock on the descriptor's entry.                   *)
HoldsLock ==
    \A w \in Writers : wr[w].phase = "open" =>
        /\ locks[wr[w].lock].st # "unused"
        /\ locks[wr[w].lock].st = "held" => /\ locks[wr[w].lock].node = wr[w].node
                                            /\ locks[wr[w].lock].mount = wr[w].mount

(* Before its version is claimed a descriptor has flushed nothing. *)
NothingBeforeClaim ==
    \A w \in Writers : wr[w].phase = "open" /\ wr[w].ver = 0 => Len(wr[w].out) = wr[w].carry

StagingInv == HoldsLock /\ NothingBeforeClaim /\ LiveStagingKept

(* The version of a claim is the one claimed before or above the committed one. *)
LEMMA ClaimedIsPositive ==
    ASSUME TypeInv, NEW w \in Writers, NEW v \in 0..MaxVersion, Claim(w, v),
           wr[w].phase = "open", wr[w].node \in Nodes, Exists(wr[w].node)
    PROVE  v = wr[w].ver \/ v \in 1..MaxVersion
<1>1. content[wr[w].node].ver \in Nat
    BY CommittedText, BoundAssumption
<1>2. v > content[wr[w].node].ver \/ v = wr[w].ver
    BY DEF Claim, NextVersion
<1>3. QED
    BY <1>1, <1>2, BoundAssumption

(* A flush, or a failed one, claims a version or stages nothing, and leaves   *)
(* the rest in place.                                                         *)
LEMMA FlushMoves ==
    ASSUME TypeInv, OpenOnEntry, NEW w \in Writers, NEW c \in Full, Flush(w, c) \/ FlushFails(w, c)
    PROVE  /\ wr[w].phase = "open"
           /\ \A x \in Writers : x # w => wr'[x] = wr[x]
           /\ wr'[w].node = wr[w].node /\ wr'[w].mount = wr[w].mount
           /\ wr'[w].lock = wr[w].lock /\ wr'[w].carry = wr[w].carry
           /\ \/ wr'[w].ver \in 1..MaxVersion
              \/ wr'[w].ver = wr[w].ver /\ wr'[w].out = wr[w].out
<1>1. wr[w] \in Writer
    BY DEF TypeInv, TypeOK
<1>2. CASE Flush(w, c)
    <2>1. PICK v \in 1..MaxVersion :
            SetWriter(w, [wr[w] EXCEPT !.ver = v, !.carried = TRUE,
                                      !.out = Append(@, c), !.buf = "empty"])
        BY <1>2 DEF Flush, MayFlush
    <2>2. QED
        BY <1>1, <1>2, <2>1 DEF Flush, MayFlush, SetWriter, TypeInv, TypeOK, Writer
<1>3. CASE FlushFails(w, c)
    <2>1. PICK v \in 0..MaxVersion, carried \in BOOLEAN :
            /\ v = wr[w].ver \/ Claim(w, v)
            /\ SetWriter(w, [wr[w] EXCEPT !.ver = v, !.carried = carried, !.buf = "full"])
        BY <1>3 DEF FlushFails, MayFlush
    <2>2. wr'[w] = [wr[w] EXCEPT !.ver = v, !.carried = carried, !.buf = "full"]
        BY <2>1 DEF SetWriter, TypeInv, TypeOK
    <2>3. wr'[w].ver = v /\ wr'[w].out = wr[w].out
        BY <1>1, <2>2 DEF Writer
    <2>4. v = wr[w].ver \/ v \in 1..MaxVersion
        BY <1>3, <2>1, ClaimedIsPositive DEF FlushFails, MayFlush, OpenOnEntry
    <2>5. QED
        BY <1>1, <1>3, <2>1, <2>2, <2>3, <2>4 DEF FlushFails, MayFlush, SetWriter, TypeInv, TypeOK, Writer
<1>4. QED
    BY <1>2, <1>3

(* A descriptor that is open after a step was open before it, on the same     *)
(* entry, or has just been opened.                                            *)
LEMMA OpenAfterStep ==
    ASSUME TypeInv, OpenOnEntry, Next, NEW x \in Writers, wr'[x].phase = "open"
    PROVE  \/ /\ wr[x].phase = "open"
              /\ wr'[x].node = wr[x].node /\ wr'[x].mount = wr[x].mount
              /\ wr'[x].lock = wr[x].lock /\ wr'[x].carry = wr[x].carry
              /\ \/ wr'[x] = wr[x]
                 \/ \E c \in Full : Flush(x, c) \/ FlushFails(x, c)
           \/ \E m \in Mounts, n \in Nodes, l \in LockIds, append \in BOOLEAN :
                OpenWrite(x, m, n, l, append)
<1>1. CASE UNCHANGED wr
    BY <1>1
<1>2. ASSUME NEW w \in Writers, NEW m \in Mounts, NEW n \in Nodes, NEW l \in LockIds,
             NEW append \in BOOLEAN, OpenWrite(w, m, n, l, append)
      PROVE  w = x \/ wr'[x] = wr[x]
    BY <1>2 DEF OpenWrite, SetWriter, TypeInv, TypeOK
<1>3. ASSUME NEW w \in Writers, NEW c \in Full, Flush(w, c) \/ FlushFails(w, c)
      PROVE  \/ w # x /\ wr'[x] = wr[x]
             \/ /\ w = x /\ wr[x].phase = "open"
                /\ wr'[x].node = wr[x].node /\ wr'[x].mount = wr[x].mount
                /\ wr'[x].lock = wr[x].lock /\ wr'[x].carry = wr[x].carry
    BY <1>3, FlushMoves
<1>4. ASSUME NEW w \in Writers, NEW phase \in {"closed", "crashed"},
             SetWriter(w, NoWriter(phase))
      PROVE  w # x /\ wr'[x] = wr[x]
    BY <1>4 DEF SetWriter, NoWriter, TypeInv, TypeOK
<1>5. QED
    BY <1>1, <1>2, <1>3, <1>4, DescriptorSteps

(* No step takes over or rewrites the lock an open descriptor is using. *)
LEMMA LockInUse ==
    ASSUME TypeInv, OpenOnEntry, HoldsLock, Next, NEW x \in Writers, wr[x].phase = "open",
           NEW k \in LockIds, k = wr[x].lock
    PROVE  SameLock(k)
<1>1. k \in Tokens \cup {x} /\ locks[k].st # "unused"
    BY DEF OpenOnEntry, HoldsLock
<1>2. ASSUME NEW y \in LockIds, NEW m \in Mounts, NEW n \in Nodes, UNCHANGED valid,
             locks' = [locks EXCEPT ![y] = [st |-> "held", mount |-> m, node |-> n,
                                            live |-> TRUE]],
             \/ y \in Tokens /\ locks[y].st = "unused"
             \/ y \in Writers /\ wr[y].phase = "unused"
      PROVE  SameLock(k)
    <2>1. y # k
        BY <1>1, <1>2, LockIdAssumption
    <2>2. locks'[k] = locks[k]
        BY <1>1, <1>2, <2>1 DEF TypeInv, TypeOK
    <2>3. QED
        BY <1>2, <2>2 DEF SameLock, LockValid
<1>3. QED
    BY <1>1, <1>2, LockSteps

LEMMA HoldsLockStep ==
    ASSUME TypeInv, OpenOnEntry, HoldsLock, Next
    PROVE  HoldsLock'
<1> SUFFICES ASSUME NEW x \in Writers, wr'[x].phase = "open"
             PROVE  /\ locks'[wr'[x].lock].st # "unused"
                    /\ locks'[wr'[x].lock].st = "held" =>
                         /\ locks'[wr'[x].lock].node = wr'[x].node
                         /\ locks'[wr'[x].lock].mount = wr'[x].mount
    BY DEF HoldsLock
<1>1. CASE /\ wr[x].phase = "open"
           /\ wr'[x].node = wr[x].node /\ wr'[x].mount = wr[x].mount
           /\ wr'[x].lock = wr[x].lock
    <2>1. wr[x].lock \in LockIds
        BY <1>1 DEF OpenOnEntry, LockIds
    <2>2. ASSUME NEW k \in LockIds, k = wr[x].lock
          PROVE  /\ locks'[k].st # "unused"
                 /\ locks'[k].st = "held" => /\ locks'[k].node = wr[x].node
                                             /\ locks'[k].mount = wr[x].mount
        BY <1>1, <2>2, LockInUse DEF HoldsLock, SameLock
    <2>3. QED
        BY <1>1, <2>1, <2>2
<1>2. ASSUME NEW m \in Mounts, NEW n \in Nodes, NEW l \in LockIds, NEW append \in BOOLEAN,
             OpenWrite(x, m, n, l, append)
      PROVE  /\ wr'[x].lock = l /\ wr'[x].node = n /\ wr'[x].mount = m
             /\ locks'[l].st = "held" /\ locks'[l].node = n /\ locks'[l].mount = m
    <2>1. wr'[x].lock = l /\ wr'[x].node = n /\ wr'[x].mount = m
        BY <1>2 DEF OpenWrite, SetWriter, TypeInv, TypeOK
    <2>2. locks'[l].st = "held" /\ locks'[l].node = n /\ locks'[l].mount = m
        BY <1>2 DEF OpenWrite, LockValid, TypeInv, TypeOK
    <2>3. QED
        BY <2>1, <2>2
<1>3. QED
    BY <1>1, <1>2, OpenAfterStep

(* What a descriptor has in hand as it opens: a carried prefix, no more. *)
LEMMA NothingAtOpen ==
    ASSUME TypeInv, NEW w \in Writers, NEW m \in Mounts, NEW n \in Nodes,
           NEW l \in LockIds, NEW append \in BOOLEAN, OpenWrite(w, m, n, l, append)
    PROVE  Len(wr'[w].out) = wr'[w].carry /\ wr'[w].carry \in Nat
<1> DEFINE k == IF append THEN FullCount(n) ELSE 0
<1>1. Exists(n)
    BY DEF OpenWrite
<1>2. Text(n) \in Texts /\ k \in Nat /\ 2 * k <= Units(Text(n))
    BY <1>1, CommittedText, UnitsOfText
<1>3. wr'[w].out = SubSeq(Text(n), 1, k) /\ wr'[w].carry = k
    BY DEF OpenWrite, SetWriter, TypeInv, TypeOK
<1> HIDE DEF k
<1>4. QED
    BY <1>2, <1>3, PrefixIsFull

LEMMA NothingBeforeClaimStep ==
    ASSUME TypeInv, OpenOnEntry, NothingBeforeClaim, Next
    PROVE  NothingBeforeClaim'
<1> SUFFICES ASSUME NEW x \in Writers, wr'[x].phase = "open", wr'[x].ver = 0
             PROVE  Len(wr'[x].out) = wr'[x].carry
    BY DEF NothingBeforeClaim
<1>1. CASE wr'[x] = wr[x]
    BY <1>1 DEF NothingBeforeClaim
<1>2. ASSUME NEW c \in Full, Flush(x, c) \/ FlushFails(x, c)
      PROVE  Len(wr'[x].out) = wr'[x].carry
    <2>1. wr[x].phase = "open" /\ wr'[x].carry = wr[x].carry
        BY <1>2, FlushMoves
    <2>2. wr[x].ver = 0 /\ wr'[x].out = wr[x].out
        BY <1>2, FlushMoves, BoundAssumption
    <2>3. QED
        BY <2>1, <2>2 DEF NothingBeforeClaim
<1>3. QED
    BY <1>1, <1>2, OpenAfterStep, NothingAtOpen

(* The row a descriptor's i-th chunk was staged as. *)
StagedRow(w, i) ==
    [node |-> wr[w].node, ver |-> wr[w].ver, idx |-> i - 1, chunk |-> wr[w].out[i]]

(* No step takes a row from an entry some valid lock is on. *)
LEMMA LockedRowsStay ==
    ASSUME Next, NEW l \in LockIds, LockValid(l),
           NEW r \in manifest, r.node = locks[l].node
    PROVE  r \in manifest'
<1>1. Locked(r.node)
    BY DEF Locked
<1>2. QED
    BY <1>1, RowSteps DEF Insert, PruneContent, Kept

LEMMA LiveStagingStep ==
    ASSUME TypeInv, OpenOnEntry, StagingInv, Next
    PROVE  LiveStagingKept'
<1> SUFFICES ASSUME NEW x \in Writers, wr'[x].phase = "open", LockValid(wr[x].lock)',
                    NEW i \in (wr'[x].carry + 1)..Len(wr'[x].out)
             PROVE  StagedRow(x, i)' \in manifest'
    BY DEF LiveStagingKept, StagedRow
<1>1. ASSUME NEW m \in Mounts, NEW n \in Nodes, NEW l \in LockIds, NEW append \in BOOLEAN,
             OpenWrite(x, m, n, l, append)
      PROVE  FALSE
    <2>1. Len(wr'[x].out) = wr'[x].carry /\ wr'[x].carry \in Nat
        BY <1>1, NothingAtOpen
    <2>2. QED
        BY <2>1
<1>2. SUFFICES ASSUME /\ wr[x].phase = "open"
                      /\ wr'[x].node = wr[x].node /\ wr'[x].lock = wr[x].lock
                      /\ wr'[x].carry = wr[x].carry
                      /\ \/ wr'[x] = wr[x]
                         \/ \E c \in Full : Flush(x, c) \/ FlushFails(x, c)
               PROVE  StagedRow(x, i)' \in manifest'
    BY <1>1, OpenAfterStep
<1>3. /\ LockValid(wr[x].lock) /\ wr[x].lock \in LockIds
      /\ locks[wr[x].lock].node = wr[x].node
    <2>1. wr[x].lock \in LockIds
        BY <1>2 DEF OpenOnEntry, LockIds
    <2>2. ASSUME NEW k \in LockIds, k = wr[x].lock, LockValid(k)'
          PROVE  LockValid(k)
        BY <1>2, <2>2, LockInUse DEF StagingInv, SameLock
    <2>3. LockValid(wr[x].lock)
        BY <1>2, <2>1, <2>2 DEF LockValid
    <2>4. QED
        BY <1>2, <2>1, <2>3 DEF StagingInv, HoldsLock, LockValid
<1>4. ASSUME NEW j \in (wr[x].carry + 1)..Len(wr[x].out)
      PROVE  StagedRow(x, j) \in manifest'
    <2>1. StagedRow(x, j) \in manifest /\ StagedRow(x, j).node = wr[x].node
        BY <1>2, <1>3 DEF StagingInv, LiveStagingKept, StagedRow
    <2>2. QED
        BY <1>3, <2>1, LockedRowsStay
<1>5. wr[x].carry \in Nat /\ Len(wr[x].out) \in Nat /\ wr[x] \in Writer
    BY DEF TypeInv, TypeOK, Writer
<1>6. CASE wr'[x] = wr[x]
    BY <1>4, <1>6 DEF StagedRow
<1>7. ASSUME NEW c \in Full, FlushFails(x, c)
      PROVE  StagedRow(x, i)' \in manifest'
    <2>1. PICK v \in 0..MaxVersion :
            /\ v = wr[x].ver \/ Claim(x, v)
            /\ wr'[x].ver = v
            /\ wr'[x].out = wr[x].out /\ wr'[x].node = wr[x].node
            /\ wr'[x].carry = wr[x].carry
        BY <1>5, <1>7 DEF FlushFails, MayFlush, SetWriter, TypeInv, TypeOK, Writer
    <2>2. wr[x].ver # 0
        BY <1>2, <1>5, <2>1 DEF StagingInv, NothingBeforeClaim
    <2>3. StagedRow(x, i)' = StagedRow(x, i) /\ i \in (wr[x].carry + 1)..Len(wr[x].out)
        BY <2>1, <2>2 DEF Claim, StagedRow
    <2>4. QED
        BY <1>4, <2>3
<1>8. ASSUME NEW c \in Full, Flush(x, c)
      PROVE  StagedRow(x, i)' \in manifest'
    <2>1. PICK v \in 1..MaxVersion :
            /\ Claim(x, v) /\ wr'[x].ver = v
            /\ wr'[x].out = Append(wr[x].out, c) /\ wr'[x].node = wr[x].node
            /\ wr'[x].carry = wr[x].carry
            /\ Insert(Staged(x, v, <<c>>))
        BY <1>5, <1>8 DEF Flush, MayFlush, SetWriter, TypeInv, TypeOK, Writer
    <2>2. wr[x].out \in Seq(Full) /\ Len(Append(wr[x].out, c)) = Len(wr[x].out) + 1
        BY <1>5 DEF Writer
    <2>3. CASE i <= Len(wr[x].out)
        <3>1. i \in (wr[x].carry + 1)..Len(wr[x].out) /\ i \in 1..Len(wr[x].out)
            BY <1>5, <2>1, <2>2, <2>3
        <3>2. wr[x].ver # 0
            BY <1>2, <1>5, <3>1 DEF StagingInv, NothingBeforeClaim
        <3>3. wr'[x].out[i] = wr[x].out[i]
            BY <2>1, <2>2, <3>1
        <3>4. StagedRow(x, i)' = StagedRow(x, i)
            BY <2>1, <3>2, <3>3 DEF Claim, StagedRow
        <3>5. QED
            BY <1>4, <3>1, <3>4
    <2>4. CASE i > Len(wr[x].out)
        <3>1. i = Len(wr[x].out) + 1
            BY <1>5, <2>1, <2>2, <2>4
        <3>2. wr'[x].out[i] = c
            BY <2>1, <2>2, <3>1
        <3>3. StagedRow(x, i)' = [node |-> wr[x].node, ver |-> v,
                                  idx |-> Len(wr[x].out) + 1 - 1, chunk |-> <<c>>[1]]
            BY <2>1, <3>1, <3>2 DEF StagedRow
        <3>4. 1 \in DOMAIN <<c>>
            OBVIOUS
        <3>5. StagedRow(x, i)' \in StageRows(wr[x].node, v, Len(wr[x].out), <<c>>)
            BY <3>3, <3>4 DEF StageRows
        <3>6. QED
            BY <2>1, <3>5 DEF Insert, Staged
    <2>5. QED
        BY <1>5, <2>1, <2>2, <2>3, <2>4
<1>9. QED
    BY <1>2, <1>6, <1>7, <1>8

(* While a descriptor's lock is valid, no sweep, no other writer and no       *)
(* failed flush removes a chunk it has flushed: what close will publish is    *)
(* still there, whatever else runs (the live-write guard of prune_content).   *)
THEOREM StagingSafe == Spec => []LiveStagingKept
<1>1. Init => StagingInv
    BY DEF Init, StagingInv, HoldsLock, NothingBeforeClaim, LiveStagingKept, NoWriter
<1>2. TypeInv /\ OpenOnEntry /\ StagingInv /\ [Next]_vars => StagingInv'
    <2> SUFFICES ASSUME TypeInv, OpenOnEntry, StagingInv, [Next]_vars PROVE StagingInv'
        OBVIOUS
    <2>1. CASE UNCHANGED vars
        BY <2>1 DEF vars, StagingInv, HoldsLock, NothingBeforeClaim, LiveStagingKept, LockValid
    <2>2. CASE Next
        BY <2>2, HoldsLockStep, NothingBeforeClaimStep, LiveStagingStep DEF StagingInv
    <2>3. QED
        BY <2>1, <2>2
<1>3. StagingInv => LiveStagingKept
    BY DEF StagingInv
<1>4. QED
    BY <1>1, <1>2, <1>3, TypeInvariant, PTL DEF Spec

(***************************************************************************)
(* The content store is atomic where its clients are orderly: where one    *)
(* that lost its lock flushes nothing more, no transaction fails half way, *)
(* and a mount runs one write of an entry at a time.  Locks may lapse at   *)
(* any moment, by ttl, unlock or unmount, and another writer take over: a  *)
(* descriptor whose lock is still valid is the only such one on its entry, *)
(* the version it stages holds what it has flushed, and a committed        *)
(* version holds the rows of its text and nothing else.  From this follow  *)
(* what readers see and that the store implements AtomicFiles.             *)
(***************************************************************************)
Orderly == ~StaleFlushes /\ ~TxnMayFail /\ ~SharedMounts

(* The rows of a version are those of a text, no more and no fewer. *)
Whole(n, v, text) == Rows(n, v) = StageRows(n, v, 0, text)

Fresh == \A n \in Nodes : ~Exists(n) => Committed(n) = {} /\ \A r \in manifest : r.node # n

(* Where no retention is ever set, every committed version stays whole. *)
Wholes ==
    \A n \in Nodes : \A v \in Committed(n) :
        v = content[n].ver \/ Keeps = {} => Whole(n, v, truth[n][v])

KeepsInv == \A n \in Nodes : Exists(n) => content[n].keep \in Keeps \cup {None}

Reading(r) ==
    /\ rd[r].phase = "meta" => /\ rd[r].node \in Nodes
                               /\ rd[r].ver \in Committed(rd[r].node)
                               /\ truth[rd[r].node][rd[r].ver] = rd[r].want
    /\ rd[r].phase = "done" /\ Keeps = {} =>
            \E n \in Nodes, v \in 0..MaxVersion : rd[r].got = StageRows(n, v, 0, rd[r].want)

StoreInv ==
    /\ Fresh /\ PointerIsLatest /\ Wholes /\ KeepsInv
    /\ \A r \in Readers : Reading(r)

Open(w) == wr[w].phase = "open"

(* An open descriptor whose lock is still valid. *)
Live(w) == Open(w) /\ LockValid(wr[w].lock)

(* What a descriptor will carry or has staged. *)
Stream(w) ==
    LET n == wr[w].node IN
    /\ wr[w].carried <=> wr[w].ver # 0
    /\ wr[w].ver # 0 => wr[w].ver > content[n].ver /\ Whole(n, wr[w].ver, wr[w].out)
    /\ wr[w].ver = 0 => /\ wr[w].carry # 0 => wr[w].src = content[n].ver
                        /\ wr[w].out = SubSeq(Text(n), 1, wr[w].carry)
                        /\ 2 * wr[w].carry <= Units(Text(n))

OneStream ==
    \A w, x \in Writers : Live(w) /\ Live(x) /\ wr[w].node = wr[x].node => w = x

StreamInv ==
    /\ \A w \in Writers : Live(w) => Stream(w)
    /\ OneStream

(***************************************************************************)
(* The rows of a text, and the text of rows                                *)
(***************************************************************************)
(* The i-th of the rows that hold a text. *)
RowAt(n, v, at, p, i) == [node |-> n, ver |-> v, idx |-> at + i - 1, chunk |-> p[i]]

LEMMA StagedRows ==
    ASSUME NEW n, NEW v, NEW at \in Nat, NEW p \in Seq(Chunk)
    PROVE  /\ StageRows(n, v, at, p) = {RowAt(n, v, at, p, i) : i \in 1..Len(p)}
           /\ DOMAIN p = 1..Len(p) /\ Len(p) \in Nat
BY DEF StageRows, RowAt

(* The rows that hold a text read back as the text. *)
LEMMA Reassembled ==
    ASSUME NEW n, NEW v, NEW at \in Nat, NEW p \in Seq(Chunk)
    PROVE  Assemble(StageRows(n, v, at, p)) = p
<1> DEFINE row(i) == RowAt(n, v, at, p, i)
           rows == StageRows(n, v, at, p)
<1>1. Len(p) \in Nat /\ rows = {row(i) : i \in 1..Len(p)}
    BY StagedRows
<1>2. \A i \in 1..Len(p) : row(i).idx = at + i - 1 /\ row(i).chunk = p[i]
    BY DEF RowAt
<1> HIDE DEF row, rows
<1>3. ASSUME NEW i \in 0..Len(p)
      PROVE  Cardinality({q \in rows : q.idx < at + i}) = i
    <2> DEFINE S == {q \in rows : q.idx < at + i}
               f == [k \in 1..i |-> row(k)]
    <2>1. i \in Nat /\ \A k \in 1..i : k \in 1..Len(p)
        BY <1>1
    <2>2. \A q \in S : \E k \in 1..i : q = row(k)
        BY <1>1, <1>2, <2>1
    <2>3. \A k \in 1..i : row(k) \in S
        BY <1>1, <1>2, <2>1
    <2>4. f \in [1..i -> S]
        BY <2>3
    <2>5. f \in Injection(1..i, S)
        <3>1. \A j, k \in 1..i : row(j) = row(k) => j = k
            BY <1>2, <2>1
        <3> QED BY <2>4, <3>1 DEF Injection, IsInjective
    <2>6. f \in Surjection(1..i, S)
        BY <2>2, <2>4 DEF Surjection
    <2>7. ExistsBijection(1..i, S)
        BY <2>5, <2>6 DEF ExistsBijection, Bijection
    <2> QED BY <2>1, <2>7, FS_CountingElements
<1>4. Cardinality(rows) = Len(p)
    <2>1. {q \in rows : q.idx < at + Len(p)} = rows
        BY <1>1, <1>2
    <2> QED BY <1>1, <1>3, <2>1
<1> DEFINE At(i) == CHOOSE r \in rows : Cardinality({q \in rows : q.idx < r.idx}) = i - 1
<1>5. ASSUME NEW i \in 1..Len(p)
      PROVE  At(i).chunk = p[i]
    <2>1. ASSUME NEW j \in 1..Len(p)
          PROVE  Cardinality({q \in rows : q.idx < row(j).idx}) = j - 1
        <3>1. j - 1 \in 0..Len(p) /\ row(j).idx = at + (j - 1)
            BY <1>1, <1>2
        <3> QED BY <1>3, <3>1
    <2>2. row(i) \in rows /\ Cardinality({q \in rows : q.idx < row(i).idx}) = i - 1
        BY <1>1, <2>1
    <2>3. At(i) \in rows /\ Cardinality({q \in rows : q.idx < At(i).idx}) = i - 1
        BY <2>2, Zenon
    <2> HIDE DEF At
    <2>4. PICK j \in 1..Len(p) : At(i) = row(j)
        BY <1>1, <2>3
    <2>5. i = j
        BY <1>1, <2>1, <2>3, <2>4
    <2> QED BY <1>2, <2>4, <2>5
<1>6. Assemble(rows) = [i \in 1..Cardinality(rows) |-> At(i).chunk]
    BY DEF Assemble
<1> HIDE DEF At
<1>7. Assemble(rows) = [i \in 1..Len(p) |-> p[i]]
    BY <1>4, <1>5, <1>6
<1>8. p = [i \in 1..Len(p) |-> p[i]]
    OBVIOUS
<1> QED BY <1>7, <1>8 DEF rows

(* Some of the rows of a text, by position, are those of that part of it. *)
LEMMA RangeOfRows ==
    ASSUME NEW n, NEW v, NEW t \in Seq(Chunk), NEW lo \in Nat, NEW hi \in Int, hi < Len(t),
           lo <= hi + 1
    PROVE  /\ {r \in StageRows(n, v, 0, t) : lo <= r.idx /\ r.idx <= hi}
                = StageRows(n, v, lo, SubSeq(t, lo + 1, hi + 1))
           /\ SubSeq(t, lo + 1, hi + 1) \in Seq(Chunk)
           /\ Len(SubSeq(t, lo + 1, hi + 1)) = hi + 1 - lo
<1> DEFINE s == SubSeq(t, lo + 1, hi + 1)
<1>1. /\ Len(t) \in Nat /\ s \in Seq(Chunk) /\ Len(s) = hi + 1 - lo
      /\ \A i \in 1..(hi + 1 - lo) : s[i] = t[lo + i]
    <2>1. lo + 1 \in 1..(Len(t) + 1) /\ hi + 1 \in (lo + 1) - 1..Len(t)
        OBVIOUS
    <2>2. /\ s \in Seq(Chunk)
          /\ Len(s) = IF lo + 1 <= hi + 1 THEN (hi + 1) - (lo + 1) + 1 ELSE 0
          /\ \A i \in 1..((hi + 1) - (lo + 1) + 1) : s[i] = t[(lo + 1) + i - 1]
        BY <2>1, SubSeqProperties
    <2>3. /\ \A i \in Int : (lo + 1) + i - 1 = lo + i
          /\ (hi + 1) - (lo + 1) + 1 = hi + 1 - lo /\ Len(t) \in Nat
          /\ lo + 1 <= hi + 1 \/ hi + 1 - lo = 0
        OBVIOUS
    <2> HIDE DEF s
    <2>4. Len(s) = hi + 1 - lo
        BY <2>2, <2>3
    <2>5. ASSUME NEW i \in 1..(hi + 1 - lo) PROVE s[i] = t[lo + i]
        <3>1. i \in 1..((hi + 1) - (lo + 1) + 1)
            BY <2>3
        <3>2. s[i] = t[(lo + 1) + i - 1] /\ (lo + 1) + i - 1 = lo + i
            BY <2>2, <3>1
        <3> QED BY <3>2
    <2> QED BY <2>2, <2>3, <2>4, <2>5
<1> HIDE DEF s
<1>2. StageRows(n, v, lo, s) = {RowAt(n, v, lo, s, i) : i \in 1..Len(s)}
    <2>1. s \in Seq(Chunk)
        BY <1>1
    <2>2. \A q \in Seq(Chunk) : StageRows(n, v, lo, q) = {RowAt(n, v, lo, q, i) : i \in 1..Len(q)}
        BY StagedRows
    <2> QED BY <2>1, <2>2
<1>3. StageRows(n, v, 0, t) = {RowAt(n, v, 0, t, i) : i \in 1..Len(t)}
    BY StagedRows
<1>4. ASSUME NEW i \in 1..Len(t), lo <= RowAt(n, v, 0, t, i).idx, RowAt(n, v, 0, t, i).idx <= hi
      PROVE  i - lo \in 1..Len(s) /\ RowAt(n, v, 0, t, i) = RowAt(n, v, lo, s, i - lo)
    <2>1. i - lo \in 1..(hi + 1 - lo) /\ lo + (i - lo) = i
        BY <1>1, <1>4 DEF RowAt
    <2>2. s[i - lo] = t[i]
        BY <1>1, <2>1
    <2>3. i - lo \in 1..Len(s) /\ lo + (i - lo) - 1 = 0 + i - 1
        BY <1>1, <2>1
    <2> QED BY <2>2, <2>3 DEF RowAt
<1>5. ASSUME NEW i \in 1..Len(s)
      PROVE  /\ lo + i \in 1..Len(t) /\ RowAt(n, v, lo, s, i) = RowAt(n, v, 0, t, lo + i)
             /\ lo <= RowAt(n, v, lo, s, i).idx /\ RowAt(n, v, lo, s, i).idx <= hi
    <2>1. lo + i \in 1..Len(t) /\ s[i] = t[lo + i] /\ lo + i - 1 <= hi
        BY <1>1
    <2> QED BY <2>1 DEF RowAt
<1> QED BY <1>1, <1>2, <1>3, <1>4, <1>5 DEF s

(* The rows of one text and, after them, those of another. *)
LEMMA RowsJoined ==
    ASSUME NEW n, NEW v, NEW at \in Nat, NEW s \in Seq(Chunk), NEW t \in Seq(Chunk)
    PROVE  StageRows(n, v, at, s) \cup StageRows(n, v, at + Len(s), t)
             = StageRows(n, v, at, s \o t)
<1>1. /\ s \o t \in Seq(Chunk) /\ Len(s) \in Nat /\ Len(t) \in Nat
      /\ Len(s \o t) = Len(s) + Len(t)
      /\ \A i \in 1..Len(s) : (s \o t)[i] = s[i]
      /\ \A i \in 1..Len(t) : (s \o t)[Len(s) + i] = t[i]
    OBVIOUS
<1> DEFINE st == s \o t
           k == Len(s)
<1> HIDE DEF st
<1>2. /\ StageRows(n, v, at, s) = {RowAt(n, v, at, s, i) : i \in 1..k}
      /\ StageRows(n, v, at + k, t) = {RowAt(n, v, at + k, t, i) : i \in 1..Len(t)}
      /\ StageRows(n, v, at, st) = {RowAt(n, v, at, st, i) : i \in 1..(k + Len(t))}
    <2>1. StageRows(n, v, at, s) = {RowAt(n, v, at, s, i) : i \in 1..Len(s)}
        BY StagedRows
    <2>2. at + k \in Nat
        BY <1>1
    <2>3. StageRows(n, v, at + k, t) = {RowAt(n, v, at + k, t, i) : i \in 1..Len(t)}
        BY SMTT(30), <2>2, StagedRows
    <2>4. st \in Seq(Chunk) /\ Len(st) = k + Len(t)
        BY <1>1 DEF st
    <2>5. StageRows(n, v, at, st) = {RowAt(n, v, at, st, i) : i \in 1..Len(st)}
        BY <2>4, StagedRows
    <2> QED BY <2>1, <2>3, <2>4, <2>5
<1>3. ASSUME NEW i \in 1..k
      PROVE  i \in 1..(k + Len(t)) /\ RowAt(n, v, at, s, i) = RowAt(n, v, at, st, i)
    BY <1>1 DEF RowAt, st
<1>4. ASSUME NEW i \in 1..Len(t)
      PROVE  /\ k + i \in 1..(k + Len(t))
             /\ RowAt(n, v, at + k, t, i) = RowAt(n, v, at, st, k + i)
    <2>1. at + k + i - 1 = at + (k + i) - 1
        BY <1>1
    <2> QED BY <1>1, <2>1 DEF RowAt, st
<1>5. \A i \in 1..(k + Len(t)) : i \in 1..k \/ (i - k \in 1..Len(t) /\ k + (i - k) = i)
    BY <1>1
<1> HIDE DEF k
<1>6. ASSUME NEW i \in 1..(k + Len(t))
      PROVE  RowAt(n, v, at, st, i) \in StageRows(n, v, at, s) \cup StageRows(n, v, at + k, t)
    <2>1. CASE i \in 1..k
        BY <1>2, <1>3, <2>1
    <2>2. CASE i - k \in 1..Len(t) /\ k + (i - k) = i
        BY <1>2, <1>4, <2>2
    <2> QED BY <1>5, <2>1, <2>2
<1>7. StageRows(n, v, at, s) \cup StageRows(n, v, at + k, t) = StageRows(n, v, at, st)
    BY <1>2, <1>3, <1>4, <1>6
<1> QED BY <1>7 DEF st, k

(* What carrying rows of a whole version inserts: the rows of a part of it. *)
LEMMA CarriedRows ==
    ASSUME NEW n, NEW src, NEW v, NEW t \in Seq(Chunk), NEW lo \in Nat, NEW hi \in Int,
           Whole(n, src, t), hi < Len(t), lo <= hi + 1
    PROVE  CarryRows(n, src, v, lo, hi) = StageRows(n, v, lo, SubSeq(t, lo + 1, hi + 1))
<1> DEFINE s == SubSeq(t, lo + 1, hi + 1)
<1>1. /\ {r \in StageRows(n, src, 0, t) : lo <= r.idx /\ r.idx <= hi} = StageRows(n, src, lo, s)
      /\ s \in Seq(Chunk)
    BY RangeOfRows
<1>2. CarryRows(n, src, v, lo, hi) = {[r EXCEPT !.ver = v] : r \in StageRows(n, src, lo, s)}
    BY <1>1 DEF CarryRows, Whole
<1> HIDE DEF s
<1>3. /\ StageRows(n, src, lo, s) = {RowAt(n, src, lo, s, i) : i \in 1..Len(s)}
      /\ StageRows(n, v, lo, s) = {RowAt(n, v, lo, s, i) : i \in 1..Len(s)}
    BY SMTT(30), <1>1, StagedRows
<1>4. ASSUME NEW i \in 1..Len(s)
      PROVE  [RowAt(n, src, lo, s, i) EXCEPT !.ver = v] = RowAt(n, v, lo, s, i)
    <2> DEFINE k == lo + i - 1
               c == s[i]
    <2>1. [[node |-> n, ver |-> src, idx |-> k, chunk |-> c] EXCEPT !.ver = v]
            = [node |-> n, ver |-> v, idx |-> k, chunk |-> c]
        <3> HIDE DEF k, c
        <3> QED OBVIOUS
    <2> QED BY <2>1 DEF RowAt
<1>5. CarryRows(n, src, v, lo, hi) = StageRows(n, v, lo, s)
    <2>1. \A r \in CarryRows(n, src, v, lo, hi) : \E i \in 1..Len(s) : r = [RowAt(n, src, lo, s, i) EXCEPT !.ver = v]
        BY <1>2, <1>3
    <2>2. \A i \in 1..Len(s) : [RowAt(n, src, lo, s, i) EXCEPT !.ver = v] \in CarryRows(n, src, v, lo, hi)
        BY <1>2, <1>3
    <2> HIDE DEF RowAt
    <2> QED BY <1>3, <1>4, <2>1, <2>2
<1> QED BY <1>5 DEF s

LEMMA RowsAreOf ==
    ASSUME NEW n, NEW v, NEW at \in Nat, NEW p \in Seq(Chunk)
    PROVE  \A r \in StageRows(n, v, at, p) : r.node = n /\ r.ver = v
<1>1. StageRows(n, v, at, p) = {RowAt(n, v, at, p, i) : i \in 1..Len(p)}
    BY StagedRows
<1> QED BY <1>1 DEF RowAt

(* At a version above all there are, there are no rows. *)
LEMMA NextIsFree ==
    ASSUME NEW n, NEW v, NextVersion(n, v), \A u \in Versions(n) : u \in Nat
    PROVE  Rows(n, v) = {}
BY DEF NextVersion, Versions, Rows

(***************************************************************************)
(* What a commit does, whichever operation it is of                        *)
(***************************************************************************)
(* The rows of version v of entry n become those of text, and of no other.    *)
Placed(n, v, text) ==
    /\ Rows(n, v)' = StageRows(n, v, 0, text)
    /\ \A x, u : x # n \/ u # v => Rows(x, u)' = Rows(x, u)

(* Version v of n holds text and is its latest, whatever n was before.        *)
Wrote(n, v, text) ==
    /\ n \in Nodes /\ v \in 0..MaxVersion /\ text \in Texts
    /\ \A u \in Committed(n) : u < v
    /\ Placed(n, v, text)
    /\ content'[n] \in ContentRow /\ content'[n].ver = v
    /\ content'[n].keep = None \/ (Exists(n) /\ content'[n].keep = content[n].keep)
    /\ \A x \in Nodes : x # n => content'[x] = content[x] /\ truth'[x] = truth[x]
    /\ truth'[n][v] = text
    /\ \A u \in 0..MaxVersion : u # v => truth'[n][u] = truth[n][u]

(* The swap of the pointer, field by field. *)
Published(n, v, text) ==
    /\ content'[n] \in ContentRow /\ content'[n].ver = v /\ content'[n].keep = content[n].keep
    /\ \A x \in Nodes : x # n => content'[x] = content[x] /\ truth'[x] = truth[x]
    /\ truth'[n][v] = text
    /\ \A u \in 0..MaxVersion : u # v => truth'[n][u] = truth[n][u]

LEMMA PublishFields ==
    ASSUME TypeInv, NEW n \in Nodes, Exists(n), NEW v \in 1..MaxVersion, NEW size \in Nat,
           NEW text \in Texts, Publish(n, v, size, text)
    PROVE  Published(n, v, text)
<1>1. content[n] \in ContentRow /\ v \in Nat /\ v \in 0..MaxVersion
    BY CommittedText, BoundAssumption
<1>2. content'[n] = [content[n] EXCEPT !.ver = v, !.size = size]
    BY DEF Publish, TypeInv, TypeOK
<1>3. content'[n] \in ContentRow /\ content'[n].ver = v /\ content'[n].keep = content[n].keep
    BY <1>1, <1>2 DEF ContentRow
<1>4. \A x \in Nodes : x # n => content'[x] = content[x] /\ truth'[x] = truth[x]
    BY DEF Publish, TypeInv, TypeOK
<1>5. truth[n] \in [0..MaxVersion -> Texts \cup {None}] /\ truth'[n] = [truth[n] EXCEPT ![v] = text]
    BY DEF Publish, TypeInv, TypeOK
<1> QED BY <1>1, <1>3, <1>4, <1>5 DEF Published

(* An existing entry's pointer is at the latest version committed of it. *)
LEMMA LatestIs ==
    ASSUME TypeInv, StoreInv, NEW n \in Nodes
    PROVE  /\ Exists(n) => /\ content[n].ver \in Committed(n) /\ content[n].ver \in Nat
                           /\ Text(n) = truth[n][content[n].ver] /\ Text(n) \in Texts
                           /\ Text(n) \in Seq(Chunk)
                           /\ Whole(n, content[n].ver, Text(n))
                           /\ \A u \in Committed(n) : u <= content[n].ver
           /\ ~Exists(n) => Committed(n) = {} /\ \A u : Rows(n, u) = {}
<1>1. CASE Exists(n)
    <2>1. content[n].ver \in Committed(n) /\ Text(n) \in Texts /\ content[n].ver \in 0..MaxVersion
        BY <1>1, CommittedText DEF TypeInv, CommittedSized
    <2> QED BY <1>1, <2>1, BoundAssumption DEF StoreInv, PointerIsLatest, Wholes, Text, Texts
<1>2. CASE ~Exists(n)
    BY <1>2 DEF StoreInv, Fresh, Rows
<1> QED BY <1>1, <1>2

(* A version a write may take is above every committed one and has no rows. *)
LEMMA NextIsLatest ==
    ASSUME TypeInv, StoreInv, NEW n \in Nodes, Exists(n), NEW v \in 1..MaxVersion,
           NextVersion(n, v)
    PROVE  (\A u \in Committed(n) : u < v) /\ Rows(n, v) = {}
<1>1. v \in Nat /\ Committed(n) \subseteq Nat /\ content[n].ver \in Nat
    BY LatestIs, BoundAssumption DEF Committed
<1>2. \A u \in Versions(n) : u \in Nat
    BY DEF Versions, TypeInv, TypeOK, ManifestRow
<1>3. \A u \in Committed(n) : u < v
    BY <1>1, LatestIs DEF NextVersion
<1>4. Rows(n, v) = {}
    BY <1>2, NextIsFree
<1> QED BY <1>3, <1>4

(* A commit leaves the store whole. *)
LEMMA WroteStore ==
    ASSUME TypeInv, StoreInv, NEW n, NEW v, NEW text, Wrote(n, v, text), UNCHANGED rd
    PROVE  StoreInv'
<1>1. /\ n \in Nodes /\ v \in 0..MaxVersion /\ text \in Texts /\ text # None
      /\ 0..MaxVersion \subseteq Nat
    BY ChunkAssumption, BoundAssumption DEF Wrote, Texts
<1>2. Exists(n)' /\ \A x \in Nodes : x # n => (Exists(x)' <=> Exists(x))
    BY NoneAssumption DEF Wrote, Exists
<1>3. v \in Committed(n)' /\ \A u \in 0..MaxVersion : u # v => (u \in Committed(n)' <=> u \in Committed(n))
    BY <1>1 DEF Wrote, Committed
<1>4. \A x \in Nodes : x # n => Committed(x)' = Committed(x)
    BY <1>1 DEF Wrote, Committed
<1>5. \A x \in Nodes : Committed(x) \subseteq 0..MaxVersion /\ Committed(x)' \subseteq 0..MaxVersion
    BY DEF Committed
<1>6. Fresh'
    <2>1. ASSUME NEW x \in Nodes, ~Exists(x)', NEW r \in manifest', r.node = x
          PROVE  FALSE
        <3>1. x # n /\ r \in Rows(x, r.ver)'
            BY <1>2, <2>1 DEF Rows
        <3>2. r \in Rows(x, r.ver)
            BY <3>1 DEF Wrote, Placed
        <3> QED BY <1>2, <2>1, <3>1, <3>2 DEF StoreInv, Fresh, Rows
    <2>2. ASSUME NEW x \in Nodes, ~Exists(x)'
          PROVE  Committed(x)' = {}
        BY <1>2, <1>4, <2>2 DEF StoreInv, Fresh
    <2> QED BY <2>1, <2>2 DEF Fresh
<1>7. PointerIsLatest'
    <2>1. ASSUME NEW x \in Nodes, Exists(x)', NEW u \in Committed(x)'
          PROVE  u <= content'[x].ver
        <3>1. CASE x = n
            <4>1. u = v \/ u < v
                BY <1>3, <1>5, <2>1, <3>1 DEF Wrote
            <4> QED BY <1>1, <1>5, <2>1, <3>1, <4>1 DEF Wrote
        <3>2. CASE x # n
            BY <1>2, <1>4, <2>1, <3>2 DEF Wrote, StoreInv, PointerIsLatest
        <3> QED BY <3>1, <3>2
    <2> QED BY <2>1 DEF PointerIsLatest
<1>8. Wholes'
    <2>1. ASSUME NEW x \in Nodes, NEW u \in Committed(x)', u = content'[x].ver \/ Keeps = {}
          PROVE  Rows(x, u)' = StageRows(x, u, 0, truth'[x][u])
        <3>1. CASE x = n /\ u = v
            BY <3>1 DEF Wrote, Placed
        <3>2. CASE x = n /\ u # v
            <4>1. u \in Committed(n) /\ Keeps = {} /\ truth'[n][u] = truth[n][u]
                BY <1>3, <1>5, <2>1, <3>2 DEF Wrote
            <4>2. Rows(n, u) = StageRows(n, u, 0, truth[n][u])
                BY <1>1, <4>1 DEF StoreInv, Wholes, Whole
            <4> QED BY <3>2, <4>1, <4>2 DEF Wrote, Placed
        <3>3. CASE x # n
            <4>1. u \in Committed(x) /\ truth'[x] = truth[x] /\ content'[x] = content[x]
                BY <1>4, <2>1, <3>3 DEF Wrote
            <4>2. Rows(x, u) = StageRows(x, u, 0, truth[x][u])
                BY <2>1, <4>1 DEF StoreInv, Wholes, Whole
            <4> QED BY <3>3, <4>1, <4>2 DEF Wrote, Placed
        <3> QED BY <3>1, <3>2, <3>3
    <2> QED BY <2>1 DEF Wholes, Whole, StageRows
<1>9. KeepsInv'
    BY <1>2 DEF Wrote, StoreInv, KeepsInv
<1>10. ASSUME NEW r \in Readers
       PROVE  Reading(r)'
    <2>1. ASSUME NEW x \in Nodes, NEW u \in Committed(x)
          PROVE  u \in Committed(x)' /\ truth'[x][u] = truth[x][u]
        <3>1. CASE x = n
            <4>1. u < v /\ u \in Nat /\ v \in Nat /\ u \in 0..MaxVersion
                BY <1>1, <1>5, <2>1, <3>1 DEF Wrote
            <4> QED BY <1>3, <2>1, <3>1, <4>1 DEF Wrote
        <3>2. CASE x # n
            BY <1>4, <2>1, <3>2 DEF Wrote
        <3> QED BY <3>1, <3>2
    <2>2. Reading(r) /\ rd' = rd
        BY DEF StoreInv
    <2> QED BY <2>1, <2>2 DEF Reading, StageRows
<1> QED BY <1>6, <1>7, <1>8, <1>9, <1>10 DEF StoreInv

(* Rows inserted at one version complete a text there. *)
LEMMA RowsComplete ==
    ASSUME NEW n, NEW v, NEW text, NEW rows, manifest' = manifest \cup rows,
           \A r \in rows : r.node = n /\ r.ver = v,
           Rows(n, v) \cup rows = StageRows(n, v, 0, text)
    PROVE  Placed(n, v, text)
<1>1. \A x, u : x # n \/ u # v => Rows(x, u)' = Rows(x, u)
    BY DEF Rows
<1>2. Rows(n, v)' = Rows(n, v) \cup rows
    BY DEF Rows
<1> QED BY <1>1, <1>2 DEF Placed

(* The rows of a text, inserted where there are none, hold it. *)
LEMMA InsertPlaces ==
    ASSUME NEW n, NEW v, NEW text \in Seq(Chunk), Rows(n, v) = {},
           Insert(StageRows(n, v, 0, text))
    PROVE  Placed(n, v, text)
<1> DEFINE rows == StageRows(n, v, 0, text)
<1>1. \A r \in rows : r.node = n /\ r.ver = v
    BY RowsAreOf
<1>2. manifest' = manifest \cup rows /\ Rows(n, v) \cup rows = StageRows(n, v, 0, text)
    BY DEF Insert
<1> QED BY <1>1, <1>2, RowsComplete

LEMMA CreateWrites ==
    ASSUME TypeInv, StoreInv, NEW m \in Mounts, NEW n \in Nodes, NEW p \in Payloads,
           CreateEntry(m, n, p)
    PROVE  /\ \E v \in 0..MaxVersion : Wrote(n, v, p)
           /\ ~Exists(n) /\ UNCHANGED <<valid, locks, wr, rd>>
<1> DEFINE v == IF p = <<>> THEN 0 ELSE 1
<1>1. /\ ~Exists(n) /\ v <= MaxVersion /\ Insert(StageRows(n, v, 0, p))
      /\ content' = [content EXCEPT ![n] = [ver |-> v, size |-> Units(p), keep |-> None]]
      /\ truth' = [truth EXCEPT ![n][v] = p]
      /\ UNCHANGED <<valid, locks, wr, rd>>
    BY DEF CreateEntry
<1>2. p \in Texts /\ p \in Seq(Chunk) /\ Units(p) \in Nat /\ v \in 0..MaxVersion /\ v \in Nat
    BY <1>1, PayloadAssumption, UnitsOfText, BoundAssumption DEF Texts
<1> HIDE DEF v
<1>3. Placed(n, v, p) /\ Committed(n) = {}
    BY <1>1, <1>2, LatestIs, InsertPlaces
<1>4. content'[n] = [ver |-> v, size |-> Units(p), keep |-> None] /\ content'[n] \in ContentRow
    BY <1>1, <1>2 DEF TypeInv, TypeOK, ContentRow
<1>5. \A x \in Nodes : x # n => content'[x] = content[x] /\ truth'[x] = truth[x]
    BY <1>1 DEF TypeInv, TypeOK
<1>6. truth[n] \in [0..MaxVersion -> Texts \cup {None}] /\ truth'[n] = [truth[n] EXCEPT ![v] = p]
    BY <1>1 DEF TypeInv, TypeOK
<1>7. truth'[n][v] = p /\ \A u \in 0..MaxVersion : u # v => truth'[n][u] = truth[n][u]
    BY <1>2, <1>6
<1> QED BY <1>1, <1>2, <1>3, <1>4, <1>5, <1>7 DEF Wrote

LEMMA CopyWrites ==
    ASSUME TypeInv, StoreInv, NEW m \in Mounts, NEW n \in Nodes, NEW dst \in Nodes, Copy(m, n, dst)
    PROVE  /\ \E v \in 0..MaxVersion, text \in Texts : Wrote(dst, v, text)
           /\ ~Exists(dst) /\ UNCHANGED <<valid, locks, wr, rd>>
<1> PICK v, t : v = content[n].ver /\ t = Text(n)
    OBVIOUS
<1>1. /\ Exists(n) /\ ~Exists(dst)
      /\ Insert({[r EXCEPT !.node = dst] : r \in Rows(n, v)})
      /\ content' = [content EXCEPT ![dst] = [content[n] EXCEPT !.keep = None]]
      /\ truth' = [truth EXCEPT ![dst][v] = t]
      /\ UNCHANGED <<valid, locks, wr, rd>>
    BY DEF Copy
<1>2. t \in Texts /\ t \in Seq(Chunk) /\ v \in 0..MaxVersion /\ Rows(n, v) = StageRows(n, v, 0, t)
    BY <1>1, LatestIs, CommittedText DEF Whole
<1>3. content[n] \in ContentRow
    BY <1>1, CommittedText
<1>4. content'[dst] = [content[n] EXCEPT !.keep = None]
    BY <1>1 DEF TypeInv, TypeOK
<1>5. content'[dst] \in ContentRow /\ content'[dst].ver = v /\ content'[dst].keep = None
    BY <1>3, <1>4 DEF ContentRow
<1>6. \A x \in Nodes : x # dst => content'[x] = content[x] /\ truth'[x] = truth[x]
    BY <1>1 DEF TypeInv, TypeOK
<1>7. truth[dst] \in [0..MaxVersion -> Texts \cup {None}] /\ truth'[dst] = [truth[dst] EXCEPT ![v] = t]
    BY <1>1 DEF TypeInv, TypeOK
<1>8. truth'[dst][v] = t /\ \A u \in 0..MaxVersion : u # v => truth'[dst][u] = truth[dst][u]
    BY <1>2, <1>7
<1>9. {[r EXCEPT !.node = dst] : r \in Rows(n, v)} = StageRows(dst, v, 0, t)
    <2>1. /\ Rows(n, v) = {RowAt(n, v, 0, t, i) : i \in 1..Len(t)}
          /\ StageRows(dst, v, 0, t) = {RowAt(dst, v, 0, t, i) : i \in 1..Len(t)}
        BY <1>2, StagedRows
    <2>2. ASSUME NEW i \in 1..Len(t)
          PROVE  [RowAt(n, v, 0, t, i) EXCEPT !.node = dst] = RowAt(dst, v, 0, t, i)
        <3> DEFINE k == 0 + i - 1
                   c == t[i]
        <3>1. [[node |-> n, ver |-> v, idx |-> k, chunk |-> c] EXCEPT !.node = dst]
                = [node |-> dst, ver |-> v, idx |-> k, chunk |-> c]
            <4> HIDE DEF k, c
            <4> QED OBVIOUS
        <3> QED BY <3>1 DEF RowAt
    <2> DEFINE moved == {[r EXCEPT !.node = dst] : r \in Rows(n, v)}
    <2>3. \A r \in moved : \E i \in 1..Len(t) : r = [RowAt(n, v, 0, t, i) EXCEPT !.node = dst]
        BY <2>1
    <2>4. \A i \in 1..Len(t) : [RowAt(n, v, 0, t, i) EXCEPT !.node = dst] \in moved
        BY <2>1
    <2>5. \A r \in moved : r \in StageRows(dst, v, 0, t)
        BY <2>1, <2>2, <2>3
    <2> HIDE DEF moved
    <2>6. \A r \in StageRows(dst, v, 0, t) : r \in moved
        <3>1. \A i \in 1..Len(t) : RowAt(dst, v, 0, t, i) \in moved
            BY <2>2, <2>4, Zenon
        <3> QED BY <2>1, <3>1
    <2>7. moved = StageRows(dst, v, 0, t)
        BY <2>5, <2>6
    <2> QED BY <2>7 DEF moved
<1>10. Placed(dst, v, t) /\ Committed(dst) = {}
    <2>1. Committed(dst) = {} /\ Rows(dst, v) = {}
        BY <1>1, LatestIs
    <2>2. Insert(StageRows(dst, v, 0, t))
        BY <1>1, <1>9
    <2> QED BY <1>2, <2>1, <2>2, InsertPlaces
<1>11. Wrote(dst, v, t)
    BY <1>2, <1>5, <1>6, <1>8, <1>10 DEF Wrote
<1> QED BY <1>1, <1>2, <1>11

LEMMA WriteAllWrites ==
    ASSUME TypeInv, StoreInv, NEW m \in Mounts, NEW n \in Nodes, NEW p \in Payloads,
           WriteAll(m, n, p)
    PROVE  /\ \E v \in 0..MaxVersion : Wrote(n, v, p)
           /\ MayWrite(m, n) /\ UNCHANGED <<valid, locks, wr, rd>>
<1>1. PICK v \in 1..MaxVersion : /\ NextVersion(n, v) /\ Insert(StageRows(n, v, 0, p))
                                 /\ Publish(n, v, Units(p), p)
    BY DEF WriteAll
<1>2. Exists(n) /\ p \in Texts /\ p \in Seq(Chunk) /\ Units(p) \in Nat /\ v \in 0..MaxVersion
    BY PayloadAssumption, UnitsOfText, BoundAssumption DEF WriteAll, MayWrite, Texts
<1>3. (\A u \in Committed(n) : u < v) /\ Rows(n, v) = {}
    BY <1>1, <1>2, NextIsLatest
<1>4. Placed(n, v, p)
    BY <1>1, <1>2, <1>3, InsertPlaces
<1>5. Published(n, v, p)
    BY <1>1, <1>2, PublishFields
<1>6. Wrote(n, v, p)
    BY <1>2, <1>3, <1>4, <1>5 DEF Wrote, Published
<1> QED BY <1>2, <1>6 DEF WriteAll

(* What a rebuilding operation inserts of version v. *)
SpliceRows(n, src, v, t, a, p, b) ==
    CarryRows(n, src, v, 0, a - 1) \cup StageRows(n, v, a, p)
        \cup CarryRows(n, src, v, b, Len(t) - 1)

(* It is the rows of the spliced text. *)
LEMMA SplicedRows ==
    ASSUME NEW n, NEW src, NEW v, NEW t \in Seq(Chunk), Whole(n, src, t),
           NEW a \in Nat, a <= Len(t), NEW p \in Seq(Chunk), NEW b \in Nat,
           b >= Len(t) \/ b = a + Len(p)
    PROVE  SpliceRows(n, src, v, t, a, p, b) = StageRows(n, v, 0, Splice(t, a, p, b))
<1> DEFINE pre == SubSeq(t, 1, a)
           suf == SubSeq(t, b + 1, Len(t))
<1>1. Len(t) \in Nat /\ Len(p) \in Nat
    OBVIOUS
<1>2. /\ CarryRows(n, src, v, 0, a - 1) = StageRows(n, v, 0, pre)
      /\ pre \in Seq(Chunk) /\ Len(pre) = a
    <2> DEFINE lo == 0
               hi == a - 1
    <2>1. lo \in Nat /\ hi \in Int /\ hi < Len(t) /\ lo <= hi + 1
        BY <1>1
    <2>5. lo + 1 = 1 /\ hi + 1 = a /\ hi + 1 - lo = a
        BY <1>1
    <2> HIDE DEF lo, hi
    <2>2. CarryRows(n, src, v, lo, hi) = StageRows(n, v, lo, SubSeq(t, lo + 1, hi + 1))
        BY <2>1, CarriedRows
    <2>3. /\ SubSeq(t, lo + 1, hi + 1) \in Seq(Chunk)
          /\ Len(SubSeq(t, lo + 1, hi + 1)) = hi + 1 - lo
        BY <2>1, RangeOfRows
    <2>4. CarryRows(n, src, v, lo, hi) = StageRows(n, v, lo, pre) /\ pre \in Seq(Chunk) /\ Len(pre) = a
        BY <2>2, <2>3, <2>5
    <2> QED BY <2>4 DEF lo, hi
<1>3. suf \in Seq(Chunk)
      /\ CarryRows(n, src, v, b, Len(t) - 1) = StageRows(n, v, a + Len(p), suf)
    <2>1. CASE b < Len(t)
        <3> DEFINE hi == Len(t) - 1
        <3>1. hi \in Int /\ hi < Len(t) /\ b <= hi + 1 /\ hi + 1 = Len(t)
            BY <1>1, <2>1
        <3> HIDE DEF hi
        <3>2. CarryRows(n, src, v, b, hi) = StageRows(n, v, b, SubSeq(t, b + 1, hi + 1))
            BY <3>1, CarriedRows
        <3>3. SubSeq(t, b + 1, hi + 1) \in Seq(Chunk)
            BY <3>1, RangeOfRows
        <3>4. b = a + Len(p)
            BY <1>1, <2>1
        <3>5. suf \in Seq(Chunk) /\ CarryRows(n, src, v, b, hi) = StageRows(n, v, a + Len(p), suf)
            BY <3>1, <3>2, <3>3, <3>4
        <3> QED BY <3>5 DEF hi
    <2>2. CASE b >= Len(t)
        <3>1. suf = <<>>
            BY <1>1, <2>2, SubSeqEmpty
        <3>2. Rows(n, src) = {RowAt(n, src, 0, t, i) : i \in 1..Len(t)}
            BY StagedRows DEF Whole
        <3>3. CarryRows(n, src, v, b, Len(t) - 1) = {}
            <4>1. \A i \in 1..Len(t) : ~(b <= RowAt(n, src, 0, t, i).idx)
                BY <1>1, <2>2 DEF RowAt
            <4> QED BY <3>2, <4>1 DEF CarryRows
        <3>4. StageRows(n, v, a + Len(p), <<>>) = {}
            BY DEF StageRows
        <3>5. <<>> \in Seq(Chunk)
            BY EmptySeq
        <3> HIDE DEF suf
        <3> QED BY <3>1, <3>3, <3>4, <3>5
    <2> QED BY <1>1, <2>1, <2>2
<1> HIDE DEF pre, suf
<1>4. StageRows(n, v, 0, pre) \cup StageRows(n, v, a, p) = StageRows(n, v, 0, pre \o p)
      /\ pre \o p \in Seq(Chunk) /\ Len(pre \o p) = a + Len(p)
    <2>1. StageRows(n, v, 0, pre) \cup StageRows(n, v, 0 + Len(pre), p) = StageRows(n, v, 0, pre \o p)
        BY <1>2, RowsJoined
    <2> QED BY <1>2, <2>1
<1> DEFINE pp == pre \o p
<1> HIDE DEF pp
<1>5. StageRows(n, v, 0, pp) \cup StageRows(n, v, a + Len(p), suf) = StageRows(n, v, 0, pp \o suf)
    <2>1. pp \in Seq(Chunk) /\ 0 + Len(pp) = a + Len(p)
        BY <1>1, <1>4 DEF pp
    <2>2. StageRows(n, v, 0, pp) \cup StageRows(n, v, 0 + Len(pp), suf) = StageRows(n, v, 0, pp \o suf)
        BY <1>3, <2>1, RowsJoined
    <2> QED BY <2>1, <2>2
<1>6. Splice(t, a, p, b) = pp \o suf
    BY DEF Splice, pp, pre, suf
<1> QED BY <1>2, <1>3, <1>4, <1>5, <1>6 DEF pp, SpliceRows

LEMMA RebuildWrites ==
    ASSUME TypeInv, StoreInv, NEW m \in Mounts, NEW n \in Nodes, Rebuilds(m, n)
    PROVE  /\ \E v \in 0..MaxVersion, text \in Texts : Wrote(n, v, text)
           /\ MayWrite(m, n) /\ UNCHANGED <<valid, locks, wr, rd>>
<1> PICK a \in Nat, b \in Nat, p \in Texts : \E size : Splices(m, n, a, p, b, size)
    BY DEF Rebuilds
<1> PICK size : Splices(m, n, a, p, b, size)
    OBVIOUS
<1> DEFINE t == Text(n)
           text == Splice(t, a, p, b)
           src == content[n].ver
<1>1. /\ Exists(n) /\ 2 * a <= Units(t) /\ (b >= Len(t) \/ b = a + Len(p))
      /\ text \in Texts /\ Units(text) = size
    BY DEF Splices
<1>2. /\ t \in Texts /\ t \in Seq(Chunk) /\ Whole(n, src, t) /\ ChunkCount(n) = Len(t)
      /\ p \in Seq(Chunk) /\ Len(t) \in Nat
    BY <1>1, LatestIs, CommittedText DEF Texts
<1>3. PICK v \in 1..MaxVersion :
        /\ NextVersion(n, v)
        /\ Insert(SpliceRows(n, src, v, t, a, p, b))
        /\ Publish(n, v, size, text)
    BY <1>2 DEF Splices, Rebuild, SpliceRows
<1> HIDE DEF t, src
<1>4. a <= Len(t)
    BY <1>1, <1>2, PrefixIsFull
<1>5. Insert(StageRows(n, v, 0, text))
    <2>1. SpliceRows(n, src, v, t, a, p, b) = StageRows(n, v, 0, Splice(t, a, p, b))
        <3>1. /\ t \in Seq(Chunk) /\ Whole(n, src, t) /\ a <= Len(t) /\ p \in Seq(Chunk)
              /\ b >= Len(t) \/ b = a + Len(p)
            BY <1>1, <1>2, <1>4
        <3> QED BY <3>1, SplicedRows
    <2> QED BY <1>3, <2>1
<1>6. text \in Seq(Chunk) /\ size \in Nat /\ v \in 0..MaxVersion
    BY <1>1, UnitsOfText, BoundAssumption DEF Texts
<1>7. (\A u \in Committed(n) : u < v) /\ Rows(n, v) = {}
    BY <1>1, <1>3, NextIsLatest
<1> HIDE DEF text
<1>8. Placed(n, v, text)
    BY <1>5, <1>6, <1>7, InsertPlaces
<1>9. Published(n, v, text)
    BY <1>1, <1>3, <1>6, PublishFields
<1>10. Wrote(n, v, text)
    BY <1>1, <1>6, <1>7, <1>8, <1>9 DEF Wrote, Published
<1> QED BY <1>1, <1>6, <1>10 DEF Splices, Rebuild

(* What a descriptor stages joins what it has staged, or carries: together    *)
(* they are the rows of what it has in hand, at a version above the committed. *)
Joins(w, v, p) ==
    LET n == wr[w].node IN
    /\ Rows(n, v) \cup Staged(w, v, p) = StageRows(n, v, 0, wr[w].out \o p)
    /\ \A r \in Staged(w, v, p) : r.node = n /\ r.ver = v
    /\ ~Conflict(Staged(w, v, p))
    /\ v > content[n].ver
    /\ wr[w].out \o p \in Seq(Chunk)

LEMMA StagedJoins ==
    ASSUME TypeInv, StoreInv, NEW w \in Writers, wr[w].node \in Nodes, Exists(wr[w].node), Stream(w),
           NEW v \in Nat, Claim(w, v), NEW p \in Seq(Chunk)
    PROVE  Joins(w, v, p)
<1> DEFINE n == wr[w].node
           out == wr[w].out
           new == StageRows(n, v, Len(out), p)
<1>1. /\ out \in Seq(Chunk) /\ Len(out) \in Nat /\ wr[w].carry \in Nat /\ wr[w].ver \in Nat
      /\ wr[w] \in Writer
    <2>1. wr[w] \in Writer
        BY DEF TypeInv, TypeOK
    <2> QED BY <2>1 DEF Writer, Chunk
<1>2. /\ content[n].ver \in Nat /\ Text(n) \in Seq(Chunk) /\ Text(n) \in Texts
      /\ Whole(n, content[n].ver, Text(n))
    BY LatestIs
<1>3. new = {RowAt(n, v, Len(out), p, i) : i \in 1..Len(p)} /\ Len(p) \in Nat
    <2>1. Len(out) \in Nat
        BY <1>1
    <2> HIDE DEF out, n
    <2> QED BY <2>1, StagedRows
<1>4. \A r \in new : r.node = n /\ r.ver = v /\ r.idx >= Len(out)
    BY <1>1, <1>3 DEF RowAt
<1>5. /\ StageRows(n, v, 0, out) \cup new = StageRows(n, v, 0, out \o p)
      /\ out \o p \in Seq(Chunk)
    <2>1. StageRows(n, v, 0, out) \cup StageRows(n, v, 0 + Len(out), p) = StageRows(n, v, 0, out \o p)
        BY <1>1, RowsJoined
    <2> QED BY <1>1, <2>1
<1>6. CASE wr[w].ver # 0
    <2>1. v = wr[w].ver /\ Staged(w, v, p) = new /\ Rows(n, v) = StageRows(n, v, 0, out)
          /\ v > content[n].ver
        BY <1>6 DEF Claim, Staged, Stream, Whole
    <2>2. Rows(n, v) = {RowAt(n, v, 0, out, i) : i \in 1..Len(out)}
        BY <1>1, <2>1, StagedRows
    <2>3. \A r \in Rows(n, v) : r.idx < Len(out)
        BY <1>1, <2>2 DEF RowAt
    <2>4. ~Conflict(new)
        <3> SUFFICES ASSUME NEW r \in new, NEW q \in manifest, r.node = q.node, r.ver = q.ver,
                            r.idx = q.idx
                     PROVE  FALSE
            BY DEF Conflict
        <3>1. q \in Rows(n, v)
            BY <1>4 DEF Rows
        <3>2. q.idx \in Nat
            BY DEF TypeInv, TypeOK, ManifestRow
        <3> QED BY <1>1, <1>4, <2>3, <3>1, <3>2
    <2> QED BY <1>4, <1>5, <2>1, <2>4 DEF Joins
<1>7. CASE wr[w].ver = 0
    <2>1. /\ NextVersion(n, v) /\ ~wr[w].carried
          /\ Staged(w, v, p) = new \cup CarryRows(n, wr[w].src, v, 0, wr[w].carry - 1)
          /\ wr[w].carry # 0 => wr[w].src = content[n].ver
          /\ out = SubSeq(Text(n), 1, wr[w].carry) /\ 2 * wr[w].carry <= Units(Text(n))
        BY <1>7 DEF Claim, Staged, Stream
    <2>2. Rows(n, v) = {} /\ v > content[n].ver
        <3>1. \A u \in Versions(n) : u \in Nat
            BY DEF Versions, TypeInv, TypeOK, ManifestRow
        <3> QED BY <2>1, <3>1, NextIsFree DEF NextVersion
    <2>3. CarryRows(n, wr[w].src, v, 0, wr[w].carry - 1) = StageRows(n, v, 0, out)
        <3>1. wr[w].carry <= Len(Text(n)) /\ Len(out) = wr[w].carry /\ Len(Text(n)) \in Nat
            <4> DEFINE t == Text(n)
                       k == wr[w].carry
            <4>1. t \in Texts /\ k \in Nat /\ 2 * k <= Units(t) /\ out = SubSeq(t, 1, k) /\ Len(t) \in Nat
                BY <1>1, <1>2, <2>1
            <4> HIDE DEF t, k, out
            <4> QED BY <4>1, PrefixIsFull DEF t, k
        <3>2. CASE wr[w].carry = 0
            <4>1. out = <<>>
                BY <1>1, <3>1, <3>2, EmptySeq
            <4>2. StageRows(n, v, 0, <<>>) = {}
                BY DEF StageRows
            <4>3. \A r \in Rows(n, wr[w].src) : r.idx \in Nat
                BY DEF Rows, TypeInv, TypeOK, ManifestRow
            <4>4. CarryRows(n, wr[w].src, v, 0, wr[w].carry - 1) = {}
                BY <3>2, <4>3 DEF CarryRows
            <4> QED BY <4>1, <4>2, <4>4
        <3>3. CASE wr[w].carry # 0
            <4> DEFINE lo == 0
                       hi == wr[w].carry - 1
                       t == Text(n)
                       src == wr[w].src
            <4>1. lo \in Nat /\ hi \in Int /\ hi < Len(t) /\ lo <= hi + 1
                BY <1>1, <3>1
            <4>2. lo + 1 = 1 /\ hi + 1 = wr[w].carry
                BY <1>1
            <4>3. Whole(n, src, t) /\ t \in Seq(Chunk)
                BY <1>2, <2>1, <3>3
            <4>4. out = SubSeq(t, 1, wr[w].carry)
                BY <2>1
            <4> HIDE DEF lo, hi, t, src, n, out
            <4>5. CarryRows(n, src, v, lo, hi) = StageRows(n, v, lo, SubSeq(t, lo + 1, hi + 1))
                BY <4>1, <4>3, CarriedRows
            <4>6. CarryRows(n, src, v, lo, hi) = StageRows(n, v, lo, out)
                BY <4>2, <4>4, <4>5
            <4> QED BY <4>6 DEF lo, hi, src
        <3> QED BY <3>2, <3>3
    <2>4. Staged(w, v, p) = StageRows(n, v, 0, out \o p)
        BY <1>5, <2>1, <2>3
    <2>5. \A r \in Staged(w, v, p) : r.node = n /\ r.ver = v
        BY <1>5, <2>4, RowsAreOf
    <2>6. ~Conflict(Staged(w, v, p))
        BY <2>2, <2>5 DEF Conflict, Rows
    <2> QED BY <1>5, <2>2, <2>4, <2>5, <2>6 DEF Joins
<1> QED BY <1>6, <1>7

(* The pointer swap of close is a commit of all the descriptor was given. *)
LEMMA CloseWrites ==
    ASSUME TypeInv, OpenOnEntry, StoreInv, NEW w \in Writers, Stream(w),
           NEW p \in LastChunks(wr[w].buf), Close(w, p)
    PROVE  /\ wr[w].phase = "open" /\ p \in Seq(Chunk)
           /\ \E n \in Nodes, v \in 0..MaxVersion, text \in Texts :
                /\ n = wr[w].node /\ Exists(n)
                /\ text = wr[w].out \o p /\ Wrote(n, v, text)
           /\ wr' = [wr EXCEPT ![w] = NoWriter("closed")] /\ ReleaseOwned(w)
           /\ UNCHANGED <<valid, rd>>
<1>1. /\ wr[w].phase = "open" /\ wr[w].node \in Nodes /\ Exists(wr[w].node)
      /\ wr[w].out \in Seq(Full) /\ wr[w].buf \in {"empty", "part", "full"}
    BY DEF Close, OpenOnEntry, TypeInv, TypeOK, Writer
<1>2. p \in Seq(Chunk) /\ wr[w].out \o p \in Texts
    BY <1>1, LastChunkIsText
<1> PICK n, text : n = wr[w].node /\ text = wr[w].out \o p
    OBVIOUS
<1> PICK size : size = Units(text)
    OBVIOUS
<1> PICK v \in 1..MaxVersion : /\ Claim(w, v) /\ Insert(Staged(w, v, p))
                               /\ Publish(n, v, size, text)
    BY DEF Close
<1>3. v \in Nat /\ v \in 0..MaxVersion /\ n \in Nodes /\ Exists(n) /\ text \in Texts
    BY <1>1, <1>2, BoundAssumption
<1> PICK rows : rows = Staged(w, v, p)
    OBVIOUS
<1>4. /\ Rows(n, v) \cup rows = StageRows(n, v, 0, text)
      /\ \A r \in rows : r.node = n /\ r.ver = v
      /\ v > content[n].ver
    <2>1. Joins(w, v, p)
        BY <1>1, <1>2, <1>3, StagedJoins
    <2> QED BY <2>1 DEF Joins
<1>5. manifest' = manifest \cup rows
    BY DEF Insert
<1>6. Placed(n, v, text)
    BY <1>4, <1>5, RowsComplete
<1>7. \A u \in Committed(n) : u < v
    <2>1. /\ content[n].ver \in Nat /\ \A u \in Committed(n) : u <= content[n].ver
          /\ Committed(n) \subseteq Nat
        BY <1>3, LatestIs, BoundAssumption DEF Committed
    <2> QED BY <1>3, <1>4, <2>1
<1>8. size \in Nat
    BY <1>3, UnitsOfText
<1>9. Published(n, v, text)
    BY <1>3, <1>8, PublishFields
<1>10. Wrote(n, v, text)
    BY <1>3, <1>6, <1>7, <1>9 DEF Wrote, Published
<1>11. wr' = [wr EXCEPT ![w] = NoWriter("closed")] /\ ReleaseOwned(w) /\ UNCHANGED <<valid, rd>>
    BY DEF Close, SetWriter
<1> QED BY <1>1, <1>2, <1>3, <1>10, <1>11

(* What a flush leaves in the memory of its descriptor. *)
Flushed(rec, v, text) ==
    [rec EXCEPT !.ver = v, !.carried = TRUE, !.out = text, !.buf = "empty"]

LEMMA FlushedFields ==
    ASSUME NEW rec \in Writer, NEW v, NEW text
    PROVE  LET new == Flushed(rec, v, text) IN
           /\ new.phase = rec.phase /\ new.node = rec.node /\ new.lock = rec.lock
           /\ new.ver = v /\ new.carried /\ new.out = text
BY DEF Flushed, Writer

(* A flush adds to a version above the committed one, and to no other. *)
LEMMA FlushAdds ==
    ASSUME TypeInv, OpenOnEntry, StoreInv, NEW w \in Writers, Stream(w), NEW c \in Full, Flush(w, c)
    PROVE  /\ wr[w].phase = "open"
           /\ \E n \in Nodes, v \in 1..MaxVersion, text \in Seq(Full) :
                /\ n = wr[w].node /\ Exists(n) /\ v > content[n].ver
                /\ text = Append(wr[w].out, c) /\ Placed(n, v, text)
                /\ wr' = [wr EXCEPT ![w] = Flushed(wr[w], v, text)]
           /\ UNCHANGED <<content, valid, locks, rd, truth>>
<1>1. /\ wr[w].phase = "open" /\ wr[w].node \in Nodes /\ Exists(wr[w].node)
      /\ wr[w].out \in Seq(Full)
    BY DEF Flush, MayFlush, OpenOnEntry, TypeInv, TypeOK, Writer
<1> PICK n, p, text : n = wr[w].node /\ p = <<c>> /\ text = Append(wr[w].out, c)
    OBVIOUS
<1> PICK v \in 1..MaxVersion :
        /\ Claim(w, v) /\ Insert(Staged(w, v, p))
        /\ wr' = [wr EXCEPT ![w] = Flushed(wr[w], v, text)]
    BY DEF Flush, MayFlush, SetWriter, Flushed
<1>2. p \in Seq(Chunk) /\ wr[w].out \o p = text
    BY <1>1 DEF Chunk
<1>3. v \in Nat /\ n \in Nodes /\ Exists(n)
    BY <1>1, BoundAssumption
<1> PICK rows : rows = Staged(w, v, p)
    OBVIOUS
<1>4. /\ Rows(n, v) \cup rows = StageRows(n, v, 0, text)
      /\ \A r \in rows : r.node = n /\ r.ver = v
      /\ v > content[n].ver
    <2>1. Joins(w, v, p)
        BY <1>1, <1>2, <1>3, StagedJoins
    <2> QED BY <1>2, <2>1 DEF Joins
<1>5. manifest' = manifest \cup rows
    BY DEF Insert
<1>6. Placed(n, v, text)
    BY <1>4, <1>5, RowsComplete
<1>7. UNCHANGED <<content, valid, locks, rd, truth>>
    BY DEF Flush, MayFlush
<1>8. text \in Seq(Full)
    BY <1>1
<1> QED BY <1>1, <1>3, <1>4, <1>6, <1>7, <1>8

(***************************************************************************)
(* Every step keeps the store whole                                        *)
(***************************************************************************)
(* A commit of a whole-file operation. *)
WholeWrite ==
    /\ \E n \in Nodes, v \in 0..MaxVersion, text \in Texts :
          /\ Wrote(n, v, text)
          /\ ~Exists(n) \/ \E m \in Mounts : MayWrite(m, n)
    /\ UNCHANGED <<valid, locks, wr, rd>>

(* Steps that no reader and no row can notice. *)
HandSteps ==
    \/ \E m \in Mounts, n \in Nodes :
        \/ \E l \in Tokens : TakeLock(l, m, n)
        \/ \E w \in Writers, l \in LockIds, append \in BOOLEAN : OpenWrite(w, m, n, l, append)
    \/ \E w \in Writers :
        \/ \E c \in Full : FlushFails(w, c)
        \/ \E p \in LastChunks(wr[w].buf) : CloseFails(w, p)
        \/ Abort(w)
        \/ Crash(w)
    \/ \E l \in Tokens : Unlock(l) \/ LockElapses(l)
    \/ \E m \in Mounts : MountEnds(m)
    \/ Prune

LEMMA HandStepsAreQuiet ==
    ASSUME HandSteps PROVE UNCHANGED <<content, manifest, pool, rd, truth>>
<1> DEFINE Quiet == UNCHANGED <<content, manifest, pool, rd, truth>>
<1>1. \A m \in Mounts, n \in Nodes : \A l \in Tokens : TakeLock(l, m, n) => Quiet
    BY DEF TakeLock
<1>2. \A m \in Mounts, n \in Nodes : \A w \in Writers, l \in LockIds, append \in BOOLEAN :
        OpenWrite(w, m, n, l, append) => Quiet
    BY DEF OpenWrite
<1>3. \A w \in Writers : /\ \A c \in Full : FlushFails(w, c) => Quiet
                         /\ \A p \in LastChunks(wr[w].buf) : CloseFails(w, p) => Quiet
                         /\ Abort(w) \/ Crash(w) => Quiet
    BY DEF FlushFails, MayFlush, CloseFails, Abort, Crash
<1>4. \A l \in Tokens : Unlock(l) \/ LockElapses(l) => Quiet
    BY DEF Unlock, LockElapses
<1>5. (\A m \in Mounts : MountEnds(m) => Quiet) /\ (Prune => Quiet)
    BY DEF MountEnds, Prune
<1> HIDE DEF Quiet
<1>6. Quiet
    BY <1>1, <1>2, <1>3, <1>4, <1>5 DEF HandSteps
<1> QED BY <1>6 DEF Quiet

LEMMA StepKinds ==
    ASSUME TypeInv, StoreInv, Next
    PROVE  \/ WholeWrite
           \/ \E m \in Mounts, n \in Nodes, k \in Keeps \cup {None} : SetRetention(m, n, k)
           \/ \E w \in Writers : \E c \in Full : Flush(w, c)
           \/ \E w \in Writers : \E p \in LastChunks(wr[w].buf) : Close(w, p)
           \/ PruneContent
           \/ \E r \in Readers : ReadChunks(r) \/ \E n \in Nodes : ReadMeta(r, n)
           \/ HandSteps
<1>1. ASSUME NEW m \in Mounts, NEW n \in Nodes, NEW p \in Payloads,
             CreateEntry(m, n, p) \/ WriteAll(m, n, p)
      PROVE  WholeWrite
    <2>1. p \in Texts
        BY PayloadAssumption
    <2>2. CASE CreateEntry(m, n, p)
        BY <2>1, <2>2, CreateWrites DEF WholeWrite
    <2>3. CASE WriteAll(m, n, p)
        BY <2>1, <2>3, WriteAllWrites DEF WholeWrite
    <2> QED BY <1>1, <2>2, <2>3
<1>2. ASSUME NEW m \in Mounts, NEW n \in Nodes, Rebuilds(m, n)
      PROVE  WholeWrite
    BY <1>2, RebuildWrites DEF WholeWrite
<1>3. ASSUME NEW m \in Mounts, NEW n \in Nodes, NEW p \in Payloads,
             AppendTo(m, n, p) \/ \E a \in 0..MaxChunks : WriteRange(m, n, a, p)
      PROVE  WholeWrite
    <2>1. 0..MaxChunks \subseteq Nat
        BY BoundAssumption
    <2>2. CASE AppendTo(m, n, p)
        BY <1>2, <2>2, AppendToSplices
    <2>3. ASSUME NEW a \in 0..MaxChunks, WriteRange(m, n, a, p)
          PROVE  WholeWrite
        BY <1>2, <2>1, <2>3, WriteRangeSplices
    <2> QED BY <1>3, <2>2, <2>3
<1>4. ASSUME NEW m \in Mounts, NEW n \in Nodes, NEW a \in 0..MaxChunks,
             NEW p \in {<<>>} \cup {<<c>> : c \in Short}, Shrink(m, n, a, p)
      PROVE  WholeWrite
    <2>1. a \in Nat
        BY BoundAssumption
    <2> QED BY <1>2, <1>4, <2>1, ShrinkSplices
<1>5. ASSUME NEW m \in Mounts, NEW n \in Nodes, NEW dst \in Nodes, Copy(m, n, dst)
      PROVE  WholeWrite
    BY <1>5, CopyWrites DEF WholeWrite
<1> QED BY <1>1, <1>3, <1>4, <1>5 DEF Next, HandSteps

(* A step that leaves the pointers alone and the rows of the versions that    *)
(* are to be whole leaves the store whole.                                    *)
LEMMA SameStore ==
    ASSUME StoreInv, UNCHANGED <<content, rd, truth>>,
           \A n \in Nodes : \A u \in Committed(n) :
                u = content[n].ver \/ Keeps = {} => Rows(n, u)' = Rows(n, u),
           \A n \in Nodes : ~Exists(n) => \A r \in manifest' : r.node # n
    PROVE  StoreInv'
<1>1. \A n : (Exists(n)' <=> Exists(n)) /\ Committed(n)' = Committed(n)
    BY DEF Exists, Committed
<1>2. Fresh'
    BY <1>1 DEF StoreInv, Fresh
<1>3. PointerIsLatest'
    BY <1>1 DEF StoreInv, PointerIsLatest
<1>4. Wholes'
    <2>1. ASSUME NEW n \in Nodes, NEW u \in Committed(n)', content'[n].ver = u \/ Keeps = {}
          PROVE  Rows(n, u)' = StageRows(n, u, 0, truth'[n][u])
        <3>1. u \in Committed(n) /\ (u = content[n].ver \/ Keeps = {})
            BY <1>1, <2>1
        <3>2. Rows(n, u) = StageRows(n, u, 0, truth[n][u])
            BY <3>1 DEF StoreInv, Wholes, Whole
        <3> QED BY <3>1, <3>2
    <2> QED BY <2>1 DEF Wholes, Whole, StageRows
<1>5. KeepsInv'
    BY <1>1 DEF StoreInv, KeepsInv
<1>6. ASSUME NEW r \in Readers
      PROVE  Reading(r)'
    <2>1. Reading(r) /\ rd' = rd /\ truth' = truth
        BY DEF StoreInv
    <2> QED BY <1>1, <2>1 DEF Reading, StageRows
<1> QED BY <1>2, <1>3, <1>4, <1>5, <1>6 DEF StoreInv

(* Where no retention is set the sweep keeps every committed version, and     *)
(* anywhere it keeps the version the pointer is at, and what a lock guards.   *)
LEMMA SweepKeeps ==
    ASSUME TypeInv, StoreInv, PruneContent, NEW n \in Nodes, NEW u
    PROVE  (u \in Committed(n) /\ (u = content[n].ver \/ Keeps = {})) \/ Locked(n)
                => Rows(n, u)' = Rows(n, u)
<1>1. manifest' = {r \in manifest : Retained(r.node, r.ver) \/ Locked(r.node)}
    BY DEF PruneContent, Kept
<1>2. ASSUME Retained(n, u) \/ Locked(n)
      PROVE  Rows(n, u)' = Rows(n, u)
    BY <1>1, <1>2 DEF Rows
<1>3. ASSUME u \in Committed(n), u = content[n].ver \/ Keeps = {}
      PROVE  Retained(n, u)
    <2>1. Exists(n)
        BY <1>3 DEF StoreInv, Fresh
    <2>2. u <= content[n].ver /\ content[n].keep \in Keeps \cup {None}
        BY <1>3, <2>1 DEF StoreInv, PointerIsLatest, KeepsInv
    <2>3. content[n].ver \in Nat /\ u \in Nat
        BY <1>3, <2>1, LatestIs, BoundAssumption DEF Committed
    <2>4. u < content[n].ver \/ u = content[n].ver
        BY <2>2, <2>3
    <2> QED BY <1>3, <2>2, <2>4 DEF Retained
<1> QED BY <1>2, <1>3

LEMMA RetentionStore ==
    ASSUME TypeInv, StoreInv, NEW m \in Mounts, NEW n \in Nodes, NEW k \in Keeps \cup {None},
           SetRetention(m, n, k)
    PROVE  /\ StoreInv'
           /\ \A x \in Nodes : /\ Exists(x)' <=> Exists(x)
                               /\ Exists(x) => content'[x].ver = content[x].ver
           /\ UNCHANGED <<manifest, pool, valid, locks, wr, rd, truth>>
<1>1. /\ Exists(n) /\ content' = [content EXCEPT ![n].keep = k]
      /\ UNCHANGED <<manifest, pool, valid, locks, wr, rd, truth>>
    BY DEF SetRetention
<1>2. content[n] \in ContentRow
    BY <1>1, CommittedText
<1>3. /\ content'[n] = [content[n] EXCEPT !.keep = k]
      /\ \A x \in Nodes : x # n => content'[x] = content[x]
    BY <1>1 DEF TypeInv, TypeOK
<1>4. content'[n].ver = content[n].ver /\ content'[n].keep = k /\ content'[n] \in ContentRow
    BY <1>2, <1>3, KeepAssumption DEF ContentRow
<1>5. \A x \in Nodes : /\ Exists(x)' <=> Exists(x)
                       /\ Exists(x) => content'[x].ver = content[x].ver
    BY <1>1, <1>3, <1>4, NoneAssumption DEF Exists
<1>6. \A x : Committed(x)' = Committed(x) /\ \A u : Rows(x, u)' = Rows(x, u)
    BY <1>1 DEF Committed, Rows
<1>7. Fresh' /\ PointerIsLatest'
    BY <1>1, <1>5, <1>6 DEF StoreInv, Fresh, PointerIsLatest
<1>8. Wholes'
    <2>1. ASSUME NEW x \in Nodes, NEW u \in Committed(x)', content'[x].ver = u \/ Keeps = {}
          PROVE  Rows(x, u)' = StageRows(x, u, 0, truth'[x][u])
        <3>1. u \in Committed(x) /\ Exists(x)
            BY <1>6, <2>1 DEF StoreInv, Fresh
        <3>2. u = content[x].ver \/ Keeps = {}
            BY <1>5, <2>1, <3>1
        <3>3. Rows(x, u) = StageRows(x, u, 0, truth[x][u])
            BY <3>1, <3>2 DEF StoreInv, Wholes, Whole
        <3> QED BY <1>1, <1>6, <3>3
    <2> QED BY <2>1 DEF Wholes, Whole, StageRows
<1>9. KeepsInv'
    BY <1>3, <1>4, <1>5 DEF StoreInv, KeepsInv
<1>10. ASSUME NEW r \in Readers
       PROVE  Reading(r)'
    <2>1. Reading(r)
        BY DEF StoreInv
    <2> QED BY <1>1, <1>6, <2>1 DEF Reading, StageRows
<1> QED BY <1>1, <1>5, <1>7, <1>8, <1>9, <1>10 DEF StoreInv

LEMMA ReadStore ==
    ASSUME TypeInv, StoreInv, NEW r \in Readers,
           ReadChunks(r) \/ \E n \in Nodes : ReadMeta(r, n)
    PROVE  StoreInv'
<1>1. /\ UNCHANGED <<content, manifest, truth>> /\ rd \in [Readers -> Reader]
      /\ \A x \in Readers : x # r => rd'[x] = rd[x]
    BY DEF ReadChunks, ReadMeta, TypeInv, TypeOK
<1>2. \A x : /\ (Exists(x)' <=> Exists(x)) /\ Committed(x)' = Committed(x)
             /\ \A u : Rows(x, u)' = Rows(x, u)
    BY <1>1 DEF Exists, Committed, Rows
<1>3. Fresh' /\ PointerIsLatest' /\ KeepsInv'
    BY <1>1, <1>2 DEF StoreInv, Fresh, PointerIsLatest, KeepsInv
<1>4. Wholes'
    BY <1>1, <1>2 DEF StoreInv, Wholes, Whole, StageRows
<1>5. ASSUME NEW x \in Readers, x # r
      PROVE  Reading(x)'
    <2>1. Reading(x) /\ rd'[x] = rd[x]
        BY <1>1, <1>5 DEF StoreInv
    <2> QED BY <1>1, <1>2, <2>1 DEF Reading, StageRows
<1>6. ASSUME NEW n \in Nodes, ReadMeta(r, n)
      PROVE  Reading(r)'
    <2>1. Exists(n) /\ content[n].ver \in Committed(n) /\ Text(n) = truth[n][content[n].ver]
        BY <1>6, LatestIs DEF ReadMeta
    <2>2. rd'[r] = [phase |-> "meta", node |-> n, ver |-> content[n].ver,
                    want |-> Text(n), got |-> {}]
        BY <1>1, <1>6 DEF ReadMeta
    <2>3. rd'[r].phase = "meta" /\ rd'[r].node = n /\ rd'[r].ver = content[n].ver
          /\ rd'[r].want = Text(n)
        BY <2>2
    <2> QED BY <1>1, <1>2, <2>1, <2>3 DEF Reading
<1>7. ASSUME ReadChunks(r)
      PROVE  Reading(r)'
    <2>1. /\ rd[r].phase = "meta" /\ rd[r] \in Reader
          /\ rd'[r] = [rd[r] EXCEPT !.phase = "done", !.node = None, !.ver = 0,
                                    !.got = Rows(rd[r].node, rd[r].ver)]
        BY <1>1, <1>7 DEF ReadChunks
    <2>2. /\ rd'[r].phase = "done" /\ rd'[r].want = rd[r].want
          /\ rd'[r].got = Rows(rd[r].node, rd[r].ver)
        BY <2>1 DEF Reader
    <2>3. /\ rd[r].node \in Nodes /\ rd[r].ver \in Committed(rd[r].node)
          /\ truth[rd[r].node][rd[r].ver] = rd[r].want
        BY <2>1 DEF StoreInv, Reading
    <2>4. ASSUME Keeps = {}
          PROVE  rd'[r].got = StageRows(rd[r].node, rd[r].ver, 0, rd[r].want)
        BY <2>2, <2>3, <2>4 DEF StoreInv, Wholes, Whole
    <2>5. rd[r].node \in Nodes /\ rd[r].ver \in 0..MaxVersion
        BY <2>3 DEF Committed
    <2>6. Keeps = {} => \E n \in Nodes, v \in 0..MaxVersion :
                            rd'[r].got = StageRows(n, v, 0, rd'[r].want)
        BY <2>2, <2>4, <2>5
    <2> QED BY <2>2, <2>6 DEF Reading, StageRows
<1>8. \A x \in Readers : Reading(x)'
    BY <1>5, <1>6, <1>7
<1> QED BY <1>3, <1>4, <1>8 DEF StoreInv

LEMMA StoreStep ==
    ASSUME Orderly, TypeInv, OpenOnEntry, StoreInv, StreamInv, [Next]_vars
    PROVE  StoreInv'
<1>1. CASE WholeWrite
    BY <1>1, WroteStore DEF WholeWrite
<1>2. ASSUME NEW m \in Mounts, NEW n \in Nodes, NEW k \in Keeps \cup {None}, SetRetention(m, n, k)
      PROVE  StoreInv'
    BY <1>2, RetentionStore
<1>3. ASSUME NEW w \in Writers, NEW c \in Full, Flush(w, c)
      PROVE  StoreInv'
    <2>1. Stream(w)
        BY <1>3 DEF StreamInv, Live, Open, Flush, MayFlush, Orderly
    <2>2. PICK n \in Nodes, v \in 1..MaxVersion, text \in Seq(Full) :
                /\ Exists(n) /\ v > content[n].ver /\ Placed(n, v, text)
        BY <1>3, <2>1, FlushAdds
    <2>3. UNCHANGED <<content, rd, truth>>
        BY <1>3, <2>1, FlushAdds
    <2>4. ASSUME NEW x \in Nodes, NEW u \in Committed(x)
          PROVE  Rows(x, u)' = Rows(x, u)
        <3>1. CASE x # n
            BY <2>2, <3>1 DEF Placed
        <3>2. CASE x = n
            <4>1. u <= content[n].ver /\ content[n].ver \in Nat /\ u \in Nat /\ v \in Nat
                BY <2>2, <2>4, <3>2, LatestIs, BoundAssumption DEF Committed
            <4>2. u # v
                BY <2>2, <4>1
            <4> QED BY <2>2, <3>2, <4>2 DEF Placed
        <3> QED BY <3>1, <3>2
    <2>5. ASSUME NEW x \in Nodes, ~Exists(x), NEW r \in manifest', r.node = x
          PROVE  FALSE
        <3>1. x # n /\ r \in Rows(x, r.ver)'
            BY <2>2, <2>5 DEF Rows
        <3>2. r \in Rows(x, r.ver)
            BY <2>2, <3>1 DEF Placed
        <3> QED BY <2>5, <3>2 DEF StoreInv, Fresh, Rows
    <2> QED BY <2>3, <2>4, <2>5, SameStore
<1>4. ASSUME NEW w \in Writers, NEW p \in LastChunks(wr[w].buf), Close(w, p)
      PROVE  StoreInv'
    <2>1. Stream(w)
        BY <1>4 DEF StreamInv, Live, Open, Close
    <2>2. \E n \in Nodes, v \in 0..MaxVersion, text \in Texts : Wrote(n, v, text)
        BY <1>4, <2>1, CloseWrites
    <2>3. UNCHANGED rd
        BY <1>4 DEF Close
    <2> QED BY <2>2, <2>3, WroteStore
<1>5. CASE PruneContent
    <2>1. UNCHANGED <<content, rd, truth>> /\ manifest' \subseteq manifest
        BY <1>5 DEF PruneContent, Kept
    <2>2. \A n \in Nodes : \A u \in Committed(n) :
                u = content[n].ver \/ Keeps = {} => Rows(n, u)' = Rows(n, u)
        BY <1>5, SweepKeeps
    <2>3. \A n \in Nodes : ~Exists(n) => \A r \in manifest' : r.node # n
        BY <2>1 DEF StoreInv, Fresh
    <2> QED BY <2>1, <2>2, <2>3, SameStore
<1>6. ASSUME NEW r \in Readers, ReadChunks(r) \/ \E n \in Nodes : ReadMeta(r, n)
      PROVE  StoreInv'
    BY <1>6, ReadStore
<1>7. CASE UNCHANGED <<content, manifest, rd, truth>>
    <2>1. \A n \in Nodes : \A u : Rows(n, u)' = Rows(n, u)
        BY <1>7 DEF Rows
    <2>2. \A n \in Nodes : ~Exists(n) => \A r \in manifest' : r.node # n
        BY <1>7 DEF StoreInv, Fresh
    <2> QED BY <1>7, <2>1, <2>2, SameStore
<1>8. CASE HandSteps
    BY <1>7, <1>8, HandStepsAreQuiet
<1>9. CASE Next
    BY <1>1, <1>2, <1>3, <1>4, <1>5, <1>6, <1>8, <1>9, StepKinds
<1> QED BY <1>7, <1>9 DEF vars

(***************************************************************************)
(* Every step keeps the streams whole, in an orderly environment           *)
(***************************************************************************)
(* A valid lock of an open descriptor is its mount's, on its entry. *)
LEMMA OpenHolds ==
    ASSUME OpenOnEntry, HoldsLock, StreamInv, NEW w \in Writers, Live(w)
    PROVE  /\ wr[w].lock \in LockIds /\ LockValid(wr[w].lock) /\ Stream(w)
           /\ locks[wr[w].lock].node = wr[w].node /\ locks[wr[w].lock].mount = wr[w].mount
           /\ wr[w].node \in Nodes /\ Exists(wr[w].node) /\ wr[w].mount \in valid
           /\ Locked(wr[w].node)
<1>1. wr[w].phase = "open" /\ LockValid(wr[w].lock) /\ Stream(w)
    BY DEF StreamInv, Live, Open
<1>2. wr[w].lock \in Tokens \cup {w} /\ wr[w].node \in Nodes /\ Exists(wr[w].node)
    BY <1>1 DEF OpenOnEntry
<1>3. wr[w].lock \in LockIds
    BY <1>2 DEF LockIds
<1>4. locks[wr[w].lock].st = "held" /\ locks[wr[w].lock].mount \in valid
    BY <1>1 DEF LockValid
<1>5. locks[wr[w].lock].node = wr[w].node /\ locks[wr[w].lock].mount = wr[w].mount
    BY <1>1, <1>4 DEF HoldsLock
<1> QED BY <1>1, <1>2, <1>3, <1>4, <1>5 DEF Locked

(* Whoever may write an entry, by lock and mount, finds no live descriptor on *)
(* it.                                                                        *)
LEMMA NobodyElse ==
    ASSUME Orderly, OpenOnEntry, HoldsLock, StreamInv, NEW m, NEW n,
           ~HeldByOther(m, n), SharedMounts \/ ~Streaming(m, n),
           NEW w \in Writers, Live(w)
    PROVE  wr[w].node # n
<1> SUFFICES ASSUME wr[w].node = n PROVE FALSE
    OBVIOUS
<1>1. /\ wr[w].lock \in LockIds /\ LockValid(wr[w].lock)
      /\ locks[wr[w].lock].node = n /\ locks[wr[w].lock].mount = wr[w].mount
    BY OpenHolds
<1>2. wr[w].mount = m
    BY <1>1 DEF HeldByOther
<1> QED BY <1>2 DEF Orderly, Streaming, Live, Open

(* A descriptor a step passes by, on an entry and at a version it does not     *)
(* write, is as it was.                                                        *)
LEMMA StreamPassed ==
    ASSUME NEW w \in Writers, Stream(w), wr'[w] = wr[w], NEW n, n = wr[w].node,
           content'[n].ver = content[n].ver,
           truth'[n][content[n].ver] = truth[n][content[n].ver],
           NEW u, u = wr[w].ver, u # 0 => Rows(n, u)' = Rows(n, u)
    PROVE  Stream(w)'
<1>1. Text(wr[w].node)' = Text(wr[w].node)
    BY DEF Text
<1>2. Units(Text(wr[w].node))' = Units(Text(wr[w].node))
    BY <1>1 DEF Units
<1>3. wr[w].ver # 0 => Whole(wr[w].node, wr[w].ver, wr[w].out)'
    <2>1. ASSUME u # 0 PROVE Rows(n, u)' = StageRows(n, u, 0, wr[w].out)
        BY <2>1 DEF Stream, Whole
    <2>2. Rows(wr[w].node, wr[w].ver)' = Rows(n, u)'
        BY DEF Rows
    <2> QED BY <2>1, <2>2 DEF Whole, StageRows
<1> QED BY <1>1, <1>2, <1>3 DEF Stream

(* A step that leaves the descriptors alone: those that are live were so, and *)
(* keep their streams.                                                        *)
LEMMA SameStreams ==
    ASSUME StreamInv, UNCHANGED wr,
           \A w \in Writers : Live(w)' => Live(w) /\ Stream(w)'
    PROVE  StreamInv'
<1>1. OneStream'
    BY DEF StreamInv, OneStream
<1> QED BY <1>1 DEF StreamInv

(* Locks come and go beside the open descriptors: some lapse, none comes back. *)
LEMMA LockStepStreams ==
    ASSUME TypeInv, OpenOnEntry, HoldsLock, StreamInv,
           \/ \E l \in Tokens, m \in Mounts, n \in Nodes : TakeLock(l, m, n)
           \/ \E l \in Tokens : Unlock(l) \/ LockElapses(l)
           \/ \E m \in Mounts : MountEnds(m)
           \/ Prune
    PROVE  StreamInv'
<1>1. UNCHANGED <<content, manifest, wr, truth>>
    BY DEF TakeLock, Unlock, LockElapses, MountEnds, Prune
<1>2. ASSUME NEW w \in Writers, Live(w)'
      PROVE  Live(w)
    <2> PICK k : k = wr[w].lock
        OBVIOUS
    <2>1. wr[w].phase = "open" /\ LockValid(k)' /\ wr'[w] = wr[w]
        BY <1>1, <1>2 DEF Live, Open, LockValid
    <2>2. k \in LockIds /\ locks[k].st # "unused"
        BY <2>1 DEF OpenOnEntry, HoldsLock, LockIds
    <2>3. locks \in [LockIds -> Lock] /\ Tokens \subseteq LockIds
        BY DEF TypeInv, TypeOK, LockIds
    <2>4. ASSUME NEW l \in Tokens, NEW m \in Mounts, NEW n \in Nodes, TakeLock(l, m, n)
          PROVE  LockValid(k)
        <3>1. l # k /\ locks'[k] = locks[k] /\ valid' = valid
            BY <2>2, <2>3, <2>4 DEF TakeLock
        <3> QED BY <2>1, <3>1 DEF LockValid
    <2>5. ASSUME NEW l \in Tokens, Unlock(l) \/ LockElapses(l)
          PROVE  LockValid(k)
        <3>1. valid' = valid /\ (l # k => locks'[k] = locks[k])
            BY <2>2, <2>3, <2>5 DEF Unlock, LockElapses
        <3>2. CASE Unlock(l)
            <4>1. locks' = [locks EXCEPT ![l] = NoLock("gone")] /\ NoLock("gone").st # "held"
                BY <3>2 DEF Unlock, NoLock
            <4>2. l # k
                BY <2>1, <2>2, <2>3, <4>1 DEF LockValid
            <4> QED BY <2>1, <3>1, <4>2 DEF LockValid
        <3>3. CASE LockElapses(l)
            <4>1. locks' = [locks EXCEPT ![l].live = FALSE]
                BY <3>3 DEF LockElapses
            <4>2. l # k
                BY <2>1, <2>2, <2>3, <4>1 DEF LockValid, Lock
            <4> QED BY <2>1, <3>1, <4>2 DEF LockValid
        <3> QED BY <2>5, <3>2, <3>3
    <2>6. ASSUME NEW m \in Mounts, MountEnds(m)
          PROVE  LockValid(k)
        BY <2>1, <2>6 DEF MountEnds, LockValid
    <2>7. ASSUME Prune
          PROVE  LockValid(k)
        <3>1. locks'[k] = locks[k] /\ valid' = valid
            BY <2>1, <2>2, <2>7 DEF Prune, NoLock, LockValid
        <3> QED BY <2>1, <3>1 DEF LockValid
    <2>8. LockValid(k)
        BY <2>4, <2>5, <2>6, <2>7
    <2> QED BY <2>1, <2>8 DEF Live, Open
<1>3. ASSUME NEW w \in Writers, Live(w)
      PROVE  Stream(w)'
    <2> PICK x, u : x = wr[w].node /\ u = wr[w].ver
        OBVIOUS
    <2>1. Stream(w) /\ wr'[w] = wr[w] /\ Rows(x, u)' = Rows(x, u)
        BY <1>1, <1>3, OpenHolds DEF Rows
    <2> QED BY <1>1, <2>1, StreamPassed
<1> QED BY <1>1, <1>2, <1>3, SameStreams

(* A step that leaves descriptors and locks alone. *)
LEMMA StoreStepStreams ==
    ASSUME Orderly, TypeInv, OpenOnEntry, HoldsLock, StoreInv, StreamInv,
           \/ WholeWrite
           \/ \E m \in Mounts, n \in Nodes, k \in Keeps \cup {None} : SetRetention(m, n, k)
           \/ PruneContent
           \/ \E r \in Readers : ReadChunks(r) \/ \E n \in Nodes : ReadMeta(r, n)
           \/ UNCHANGED vars
    PROVE  StreamInv'
<1>1. UNCHANGED <<valid, locks, wr>>
    BY DEF WholeWrite, SetRetention, PruneContent, ReadChunks, ReadMeta, vars
<1>2. ASSUME NEW w \in Writers, Live(w)
      PROVE  Stream(w)'
    <2> PICK x, u : x = wr[w].node /\ u = wr[w].ver
        OBVIOUS
    <2>1. Stream(w) /\ x \in Nodes /\ Exists(x) /\ Locked(x) /\ wr'[w] = wr[w]
        BY <1>1, <1>2, OpenHolds
    <2>2. CASE WholeWrite
        <3>1. PICK n \in Nodes, v \in 0..MaxVersion, text \in Texts :
                /\ Wrote(n, v, text)
                /\ ~Exists(n) \/ \E m \in Mounts : MayWrite(m, n)
            BY <2>2 DEF WholeWrite
        <3>2. x # n
            BY <1>2, <2>1, <3>1, NobodyElse DEF MayWrite
        <3>3. content'[x] = content[x] /\ truth'[x] = truth[x] /\ Rows(x, u)' = Rows(x, u)
            BY <2>1, <3>1, <3>2 DEF Wrote, Placed
        <3> QED BY <2>1, <3>3, StreamPassed
    <2>3. ASSUME NEW m \in Mounts, NEW n \in Nodes, NEW k \in Keeps \cup {None}, SetRetention(m, n, k)
          PROVE  Stream(w)'
        <3>1. content'[x].ver = content[x].ver /\ truth' = truth /\ Rows(x, u)' = Rows(x, u)
            BY <2>1, <2>3, RetentionStore DEF Rows
        <3> QED BY <2>1, <3>1, StreamPassed
    <2>4. CASE PruneContent
        <3>1. content' = content /\ truth' = truth /\ Rows(x, u)' = Rows(x, u)
            BY <2>1, <2>4, SweepKeeps DEF PruneContent
        <3> QED BY <2>1, <3>1, StreamPassed
    <2>5. CASE UNCHANGED <<content, manifest, truth>>
        <3>1. content' = content /\ truth' = truth /\ Rows(x, u)' = Rows(x, u)
            BY <2>5 DEF Rows
        <3> QED BY <2>1, <3>1, StreamPassed
    <2> QED BY <2>2, <2>3, <2>4, <2>5 DEF ReadChunks, ReadMeta, vars
<1>3. \A w \in Writers : Live(w)' <=> Live(w)
    BY <1>1 DEF Live, Open, LockValid
<1> QED BY <1>1, <1>2, <1>3, SameStreams

(* A descriptor that is opened is the only live one on its entry. *)
LEMMA OpenWriteStreams ==
    ASSUME Orderly, TypeInv, OpenOnEntry, HoldsLock, LockExclusive, StoreInv, StreamInv,
           NEW w \in Writers, NEW m \in Mounts, NEW n \in Nodes, NEW l \in LockIds,
           NEW append \in BOOLEAN, OpenWrite(w, m, n, l, append)
    PROVE  StreamInv'
<1> DEFINE carry == IF append THEN FullCount(n) ELSE 0
           src == IF append THEN content[n].ver ELSE 0
           out == SubSeq(Text(n), 1, carry)
           buf == IF append /\ content[n].size % 2 = 1 THEN "part" ELSE "empty"
<1>1. /\ wr[w].phase = "unused" /\ m \in valid /\ Exists(n)
      /\ SharedMounts \/ ~Streaming(m, n)
      /\ wr' = [wr EXCEPT ![w] = [phase |-> "open", mount |-> m, node |-> n, lock |-> l, ver |-> 0,
                                  src |-> src, carry |-> carry, carried |-> FALSE,
                                  out |-> out, buf |-> buf]]
      /\ UNCHANGED <<content, manifest, pool, valid, rd, truth>>
    BY DEF OpenWrite, SetWriter
<1>2. /\ 2 * carry <= Units(Text(n)) /\ (carry # 0 => src = content[n].ver)
      /\ carry \in Nat
    <2>1. /\ FullCount(n) \in Nat /\ 2 * FullCount(n) <= Units(Text(n)) /\ Units(Text(n)) \in Nat
        BY <1>1, CommittedText, UnitsOfText
    <2> HIDE DEF out, buf
    <2> QED BY <2>1
<1> HIDE DEF carry, src, out, buf
<1>3. /\ wr'[w].phase = "open" /\ wr'[w].node = n /\ wr'[w].lock = l /\ wr'[w].ver = 0
      /\ wr'[w].src = src /\ wr'[w].carry = carry /\ wr'[w].carried = FALSE /\ wr'[w].out = out
      /\ \A x \in Writers : x # w => wr'[x] = wr[x]
    BY <1>1 DEF TypeInv, TypeOK
<1>4. Stream(w)'
    <2>1. Text(n)' = Text(n) /\ Units(Text(n))' = Units(Text(n)) /\ content'[n] = content[n]
        BY <1>1 DEF Text, Units
    <2>2. Text(wr[w].node)' = Text(n)' /\ Units(Text(wr[w].node))' = Units(Text(n))'
        BY <1>3 DEF Text, Units
    <2>3. out = SubSeq(Text(n), 1, carry)
        BY DEF out
    <2> QED BY <1>2, <1>3, <2>1, <2>2, <2>3 DEF Stream
<1>5. ~HeldByOther(m, n)
    <2>1. CASE l = w /\ ~HeldByOther(m, n)
        BY <2>1
    <2>2. CASE LockValid(l) /\ locks[l].mount = m /\ locks[l].node = n
        BY <2>2 DEF LockExclusive, HeldByOther
    <2> QED BY <2>1, <2>2 DEF OpenWrite
<1>6. ASSUME NEW x \in Writers, x # w, Live(x)'
      PROVE  Live(x) /\ wr'[x] = wr[x] /\ Stream(x)' /\ wr[x].node # n
    <2> PICK y, u, k : y = wr[x].node /\ u = wr[x].ver /\ k = wr[x].lock
        OBVIOUS
    <2>1. wr[x].phase = "open" /\ wr'[x] = wr[x] /\ LockValid(k)'
        BY <1>3, <1>6 DEF Live, Open, LockValid
    <2>2. k \in Tokens \cup {x} /\ k \in LockIds
        BY <2>1 DEF OpenOnEntry, LockIds
    <2>3. k # w
        BY <1>6, <2>2, LockIdAssumption
    <2>4. locks'[k] = locks[k] /\ valid' = valid
        BY <2>2, <2>3 DEF OpenWrite, TypeInv, TypeOK
    <2>5. Live(x)
        BY <2>1, <2>4 DEF Live, Open, LockValid
    <2>6. Stream(x) /\ content' = content /\ truth' = truth /\ Rows(y, u)' = Rows(y, u)
        BY <1>1, <2>5, OpenHolds DEF Rows
    <2>7. Stream(x)'
        BY <2>1, <2>6, StreamPassed
    <2>8. wr[x].node # n
        BY <1>1, <1>5, <2>5, NobodyElse
    <2> QED BY <2>1, <2>5, <2>7, <2>8
<1>7. OneStream'
    <2>1. ASSUME NEW x \in Writers, NEW y \in Writers, Live(x)', Live(y)', wr'[x].node = wr'[y].node
          PROVE  x = y
        <3>1. x = w \/ y = w => x = y
            BY <1>3, <1>6, <2>1
        <3>2. x # w /\ y # w => x = y
            BY <1>6, <2>1 DEF StreamInv, OneStream
        <3> QED BY <3>1, <3>2
    <2> QED BY <2>1 DEF OneStream
<1> QED BY <1>4, <1>6, <1>7 DEF StreamInv

(* What closes a descriptor leaves the others theirs. *)
LEMMA EndStreams ==
    ASSUME TypeInv, OpenOnEntry, HoldsLock, StreamInv, NEW w \in Writers,
           NEW phase \in {"closed", "crashed"}, wr' = [wr EXCEPT ![w] = NoWriter(phase)],
           ReleaseOwned(w) \/ UNCHANGED locks, UNCHANGED valid,
           \A x \in Writers : x # w /\ Live(x) => Stream(x)'
    PROVE  StreamInv'
<1>1. /\ wr'[w] = NoWriter(phase) /\ ~Live(w)'
      /\ \A x \in Writers : x # w => wr'[x] = wr[x]
    BY DEF TypeInv, TypeOK, NoWriter, Live, Open
<1>2. /\ locks \in [LockIds -> Lock] /\ w \in LockIds
      /\ \A k \in LockIds : k # w => locks'[k] = locks[k]
    BY DEF TypeInv, TypeOK, LockIds, ReleaseOwned
<1>3. ASSUME NEW x \in Writers, Live(x)'
      PROVE  x # w /\ Live(x) /\ wr'[x] = wr[x] /\ Stream(x)'
    <2> PICK k : k = wr[x].lock
        OBVIOUS
    <2>1. x # w /\ wr'[x] = wr[x] /\ wr[x].phase = "open" /\ LockValid(k)'
        BY <1>1, <1>3 DEF Live, Open, LockValid
    <2>2. k \in Tokens \cup {x} /\ k \in LockIds
        BY <2>1 DEF OpenOnEntry, LockIds
    <2>3. locks'[k] = locks[k]
        BY <1>2, <2>1, <2>2, LockIdAssumption
    <2>4. Live(x)
        BY <2>1, <2>3 DEF Live, Open, LockValid
    <2> QED BY <2>1, <2>4
<1>4. OneStream'
    BY <1>3 DEF StreamInv, OneStream
<1> QED BY <1>3, <1>4 DEF StreamInv

LEMMA FlushStreams ==
    ASSUME Orderly, TypeInv, OpenOnEntry, HoldsLock, StoreInv, StreamInv,
           NEW w \in Writers, NEW c \in Full, Flush(w, c)
    PROVE  StreamInv'
<1>1. Open(w) /\ Live(w) /\ Stream(w) /\ wr[w] \in Writer
    BY DEF StreamInv, Live, Open, Flush, MayFlush, Orderly, TypeInv, TypeOK
<1>2. PICK n, v, text :
        /\ n \in Nodes /\ v \in 1..MaxVersion
        /\ n = wr[w].node /\ Exists(n) /\ v > content[n].ver
        /\ text = Append(wr[w].out, c) /\ Placed(n, v, text)
        /\ wr' = [wr EXCEPT ![w] = Flushed(wr[w], v, text)]
    BY <1>1, FlushAdds
<1>3. UNCHANGED <<content, valid, locks, rd, truth>>
    BY <1>1, FlushAdds
<1>4. /\ wr'[w].phase = "open" /\ wr'[w].node = n /\ wr'[w].lock = wr[w].lock
      /\ wr'[w].ver = v /\ wr'[w].carried /\ wr'[w].out = text
      /\ \A x \in Writers : x # w => wr'[x] = wr[x]
    <2>1. /\ wr'[w] = Flushed(wr[w], v, text)
          /\ \A x \in Writers : x # w => wr'[x] = wr[x]
        BY <1>1, <1>2 DEF TypeInv, TypeOK
    <2>2. wr[w] \in Writer /\ wr[w].phase = "open" /\ wr[w].node = n
        BY <1>1, <1>2 DEF Open
    <2>3. LET new == Flushed(wr[w], v, text) IN
          /\ new.phase = wr[w].phase /\ new.node = wr[w].node /\ new.lock = wr[w].lock
          /\ new.ver = v /\ new.carried /\ new.out = text
        BY <2>2, FlushedFields
    <2> QED BY <2>1, <2>2, <2>3
<1>5. Stream(w)'
    <2>1. v # 0 /\ content' = content
        BY <1>2, <1>3, BoundAssumption
    <2>2. Rows(n, v)' = StageRows(n, v, 0, text)
        BY <1>2 DEF Placed
    <2>3. Whole(wr[w].node, wr[w].ver, wr[w].out)'
        BY <1>4, <2>2 DEF Whole, Rows, StageRows
    <2>4. wr'[w].ver # 0 /\ wr'[w].ver > content'[n].ver /\ wr'[w].carried
        BY <1>2, <1>4, <2>1
    <2> QED BY <1>4, <2>3, <2>4 DEF Stream
<1>6. ASSUME NEW x \in Writers, Live(x)'
      PROVE  Live(x) /\ wr'[x].node = wr[x].node /\ (x # w => Stream(x)')
    <2>1. wr'[x].phase = wr[x].phase /\ wr'[x].lock = wr[x].lock /\ wr'[x].node = wr[x].node
        BY <1>1, <1>2, <1>4 DEF Open
    <2>2. Live(x)
        BY <1>3, <1>6, <2>1 DEF Live, Open, LockValid
    <2>3. ASSUME x # w PROVE Stream(x)'
        <3> PICK y, u : y = wr[x].node /\ u = wr[x].ver
            OBVIOUS
        <3>1. Stream(x) /\ y # n /\ wr'[x] = wr[x]
            BY <1>1, <1>2, <1>4, <2>2, <2>3, OpenHolds DEF StreamInv, OneStream
        <3>2. Rows(y, u)' = Rows(y, u)
            BY <1>2, <3>1 DEF Placed
        <3> QED BY <1>3, <3>1, <3>2, StreamPassed
    <2> QED BY <2>1, <2>2, <2>3
<1>7. OneStream'
    BY <1>6 DEF StreamInv, OneStream
<1> QED BY <1>5, <1>6, <1>7 DEF StreamInv

LEMMA CloseStreams ==
    ASSUME TypeInv, OpenOnEntry, HoldsLock, StoreInv, StreamInv,
           NEW w \in Writers, NEW p \in LastChunks(wr[w].buf), Close(w, p)
    PROVE  StreamInv'
<1>1. Open(w) /\ Live(w) /\ Stream(w)
    BY DEF StreamInv, Live, Open, Close
<1> PICK n \in Nodes, v \in 0..MaxVersion, text \in Texts :
        n = wr[w].node /\ Exists(n) /\ Wrote(n, v, text)
    BY <1>1, CloseWrites
<1>2. wr' = [wr EXCEPT ![w] = NoWriter("closed")] /\ ReleaseOwned(w) /\ UNCHANGED <<valid, rd>>
    BY <1>1, CloseWrites
<1>3. \A x \in Writers : x # w => wr'[x] = wr[x]
    BY <1>2 DEF TypeInv, TypeOK
<1>4. ASSUME NEW x \in Writers, x # w, Live(x)
      PROVE  Stream(x)'
    <2> PICK y, u : y = wr[x].node /\ u = wr[x].ver
        OBVIOUS
    <2>1. Stream(x) /\ y # n /\ y \in Nodes /\ wr'[x] = wr[x]
        BY <1>1, <1>3, <1>4, OpenHolds DEF StreamInv, OneStream
    <2>2. content'[y] = content[y] /\ truth'[y] = truth[y] /\ Rows(y, u)' = Rows(y, u)
        BY <2>1 DEF Wrote, Placed
    <2> QED BY <2>1, <2>2, StreamPassed
<1> QED BY <1>1, <1>2, <1>4, EndStreams

(* In an orderly environment no flush fails.                                  *)
LEMMA NothingFails ==
    ASSUME Orderly, TypeInv, OpenOnEntry, HoldsLock, StoreInv, StreamInv, NEW w \in Writers
    PROVE  \A c \in Full : ~FlushFails(w, c)
<1>1. ASSUME NEW v \in Nat, NEW p \in Seq(Chunk), Live(w), Claim(w, v)
      PROVE  ~Conflict(Staged(w, v, p))
    <2>1. Joins(w, v, p)
        BY <1>1, OpenHolds, StagedJoins DEF Live
    <2> QED BY <2>1 DEF Joins
<1>2. \A v \in 0..MaxVersion : v \in Nat
    BY BoundAssumption
<1>3. ASSUME NEW c \in Full, FlushFails(w, c)
      PROVE  FALSE
    <2>1. Live(w) /\ <<c>> \in Seq(Chunk)
        BY <1>3 DEF FlushFails, MayFlush, Orderly, Live, Open, Chunk
    <2>2. PICK v \in 0..MaxVersion : Claim(w, v) /\ Conflict(Staged(w, v, <<c>>))
        BY <1>3 DEF FlushFails, MayFlush, Orderly
    <2> QED BY <1>1, <1>2, <2>1, <2>2
<1> QED BY <1>3

LEMMA StreamStep ==
    ASSUME Orderly, TypeInv, OpenOnEntry, HoldsLock, LockExclusive, StoreInv, StreamInv,
           [Next]_vars
    PROVE  StreamInv'
<1>1. ASSUME NEW w \in Writers, NEW phase \in {"closed", "crashed"},
             wr' = [wr EXCEPT ![w] = NoWriter(phase)],
             ReleaseOwned(w) \/ UNCHANGED locks,
             UNCHANGED <<content, manifest, valid, truth>>
      PROVE  StreamInv'
    <2>1. ASSUME NEW x \in Writers, x # w, Live(x)
          PROVE  Stream(x)'
        <3> PICK y, u : y = wr[x].node /\ u = wr[x].ver
            OBVIOUS
        <3>1. Stream(x) /\ wr'[x] = wr[x]
            BY <1>1, <2>1, OpenHolds DEF TypeInv, TypeOK
        <3>2. Rows(y, u)' = Rows(y, u)
            BY <1>1 DEF Rows
        <3> QED BY <1>1, <3>1, <3>2, StreamPassed
    <2> QED BY <1>1, <2>1, EndStreams
<1>2. ASSUME NEW w \in Writers,
             Abort(w) \/ Crash(w) \/ \E p \in LastChunks(wr[w].buf) : CloseFails(w, p)
      PROVE  StreamInv'
    <2>1. CASE Abort(w)
        BY <1>1, <2>1 DEF Abort, SetWriter
    <2>2. CASE Crash(w)
        BY <1>1, <2>2 DEF Crash, SetWriter
    <2>3. CASE \E p \in LastChunks(wr[w].buf) : CloseFails(w, p)
        BY <1>1, <2>3 DEF CloseFails, SetWriter
    <2> QED BY <1>2, <2>1, <2>2, <2>3
<1>3. CASE HandSteps
    <2>1. ASSUME NEW w \in Writers, NEW m \in Mounts, NEW n \in Nodes, NEW l \in LockIds,
                 NEW append \in BOOLEAN, OpenWrite(w, m, n, l, append)
          PROVE  StreamInv'
        BY <2>1, OpenWriteStreams
    <2>2. CASE \/ \E l \in Tokens, m \in Mounts, n \in Nodes : TakeLock(l, m, n)
               \/ \E l \in Tokens : Unlock(l) \/ LockElapses(l)
               \/ \E m \in Mounts : MountEnds(m)
               \/ Prune
        BY <2>2, LockStepStreams
    <2> QED BY <1>2, <1>3, <2>1, <2>2, NothingFails DEF HandSteps
<1>4. CASE \/ WholeWrite
           \/ \E m \in Mounts, n \in Nodes, k \in Keeps \cup {None} : SetRetention(m, n, k)
           \/ PruneContent
           \/ \E r \in Readers : ReadChunks(r) \/ \E n \in Nodes : ReadMeta(r, n)
           \/ UNCHANGED vars
    BY <1>4, StoreStepStreams
<1>5. ASSUME NEW w \in Writers, NEW c \in Full, Flush(w, c)
      PROVE  StreamInv'
    BY <1>5, FlushStreams
<1>6. ASSUME NEW w \in Writers, NEW p \in LastChunks(wr[w].buf), Close(w, p)
      PROVE  StreamInv'
    BY <1>6, CloseStreams
<1>7. CASE Next
    BY <1>3, <1>4, <1>5, <1>6, <1>7, StepKinds
<1> QED BY <1>4, <1>7

(***************************************************************************)
(* What follows                                                            *)
(***************************************************************************)
LEMMA InitAtomic == Init => HoldsLock /\ StoreInv /\ StreamInv
<1> SUFFICES ASSUME Init PROVE HoldsLock /\ StoreInv /\ StreamInv
    OBVIOUS
<1>1. \A n \in Nodes : content[n] = None /\ \A v \in 0..MaxVersion : truth[n][v] = None
    BY DEF Init
<1>2. \A w \in Writers : wr[w].phase = "unused" /\ w \in LockIds
    BY DEF Init, NoWriter, LockIds
<1>3. \A l \in LockIds : locks[l].st = "unused"
    BY DEF Init, NoLock
<1>4. \A r \in Readers : rd[r].phase = "idle"
    BY DEF Init, NoReader
<1>5. manifest = {}
    BY DEF Init
<1>6. HoldsLock /\ StreamInv
    BY <1>2, <1>3 DEF HoldsLock, StreamInv, Live, Open, OneStream
<1>7. Fresh /\ PointerIsLatest /\ Wholes /\ KeepsInv
    BY <1>1, <1>5 DEF Fresh, PointerIsLatest, Wholes, KeepsInv, Exists, Committed
<1>8. \A r \in Readers : Reading(r)
    BY <1>4 DEF Reading
<1> QED BY <1>6, <1>7, <1>8 DEF StoreInv

AtomicInv == HoldsLock /\ StoreInv /\ StreamInv

LEMMA AtomicInvariant ==
    ASSUME Orderly
    PROVE  Spec => [](TypeInv /\ OpenOnEntry /\ AtomicInv)
<1>1. Init => AtomicInv
    BY InitAtomic DEF AtomicInv
<1>2. TypeInv /\ OpenOnEntry /\ LockExclusive /\ AtomicInv /\ [Next]_vars => AtomicInv'
    <2> SUFFICES ASSUME TypeInv, OpenOnEntry, LockExclusive, AtomicInv, [Next]_vars
                 PROVE  AtomicInv'
        OBVIOUS
    <2>1. HoldsLock'
        <3>1. CASE Next
            BY <3>1, HoldsLockStep DEF AtomicInv
        <3>2. CASE UNCHANGED vars
            BY <3>2 DEF vars, AtomicInv, HoldsLock
        <3> QED BY <3>1, <3>2
    <2> QED BY <2>1, StoreStep, StreamStep DEF AtomicInv
<1> QED BY <1>1, <1>2, TypeInvariant, LocksCorrect, PTL DEF Spec

(* The committed version of an entry reads back as what its writer committed,  *)
(* chunk for chunk and in size: though locks lapse under open descriptors and  *)
(* other mounts take over where they stopped, by close's second look at the    *)
(* lock, and whatever was staged, aborted or crashed and the sweeps took       *)
(* (IO-2r1).  What it takes on trust is Orderly: a client that lost its lock   *)
(* flushes nothing more (the code would let it), no transaction fails half way *)
(* and a mount has one write of an entry in hand.                              *)
THEOREM CommittedSafe ==
    ASSUME Orderly
    PROVE  Spec => []CommittedIntact
<1>1. TypeInv /\ StoreInv => CommittedIntact
    <2> SUFFICES ASSUME TypeInv, StoreInv, NEW n \in Nodes, Exists(n)
                 PROVE  /\ Assemble(Rows(n, content[n].ver)) = Text(n)
                        /\ {r.idx : r \in Rows(n, content[n].ver)} = 0..(Len(Text(n)) - 1)
                        /\ Units(Text(n)) = content[n].size
        BY DEF CommittedIntact
    <2> PICK v, t : v = content[n].ver /\ t = Text(n)
        OBVIOUS
    <2>1. t \in Seq(Chunk) /\ Rows(n, v) = StageRows(n, v, 0, t) /\ Len(t) \in Nat
        BY LatestIs DEF Whole
    <2>2. Assemble(Rows(n, v)) = t
        BY <2>1, Reassembled
    <2>3. Rows(n, v) = {RowAt(n, v, 0, t, i) : i \in 1..Len(t)}
        BY <2>1, StagedRows
    <2>4. \A i \in 1..Len(t) : RowAt(n, v, 0, t, i).idx = i - 1
        BY DEF RowAt
    <2>5. {r.idx : r \in Rows(n, v)} = 0..(Len(t) - 1)
        <3>1. \A r \in Rows(n, v) : r.idx \in 0..(Len(t) - 1)
            BY <2>1, <2>3, <2>4
        <3>2. ASSUME NEW j \in 0..(Len(t) - 1)
              PROVE  \E r \in Rows(n, v) : r.idx = j
            <4>1. j + 1 \in 1..Len(t) /\ (j + 1) - 1 = j
                BY <2>1
            <4>2. RowAt(n, v, 0, t, j + 1) \in Rows(n, v)
                BY <2>3, <4>1
            <4> QED BY <2>4, <4>1, <4>2
        <3> QED BY <3>1, <3>2
    <2> QED BY <2>2, <2>5 DEF TypeInv, CommittedSized
<1> QED BY <1>1, AtomicInvariant, PTL DEF AtomicInv

(* In an orderly environment the pointer of an entry never moves back.        *)
THEOREM PointerRises ==
    ASSUME Orderly
    PROVE  Spec => []PointerIsLatest
<1>1. StoreInv => PointerIsLatest
    BY DEF StoreInv
<1> QED BY <1>1, AtomicInvariant, PTL DEF AtomicInv

(* Where no retention is ever set, read_all returns one committed content     *)
(* whole, though the pointer and the chunks are read in two statements with   *)
(* commits and sweeps between them, and so does read() any range of it (IO-2). *)
THEOREM ReadsSafe ==
    ASSUME Orderly, Keeps = {}
    PROVE  Spec => []ReadAllAtomic
<1>1. TypeInv /\ StoreInv => ReadAllAtomic
    <2> SUFFICES ASSUME TypeInv, StoreInv, NEW r \in Readers, rd[r].phase = "done"
                 PROVE  LET got == rd[r].got  want == rd[r].want IN
                        /\ Assemble(got) = want
                        /\ \A lo, hi \in 0..Len(want) - 1 :
                            lo <= hi => FetchRange(got, lo, hi) = SubSeq(want, lo + 1, hi + 1)
        BY DEF ReadAllAtomic
    <2> PICK got, want : got = rd[r].got /\ want = rd[r].want
        OBVIOUS
    <2>1. PICK n \in Nodes, v \in 0..MaxVersion : got = StageRows(n, v, 0, want)
        BY DEF StoreInv, Reading
    <2>2. want \in Seq(Chunk) /\ Len(want) \in Nat
        BY DEF TypeInv, TypeOK, Reader, Texts
    <2>3. Assemble(got) = want
        BY <2>1, <2>2, Reassembled
    <2>4. ASSUME NEW lo \in 0..Len(want) - 1, NEW hi \in 0..Len(want) - 1, lo <= hi
          PROVE  FetchRange(got, lo, hi) = SubSeq(want, lo + 1, hi + 1)
        <3> DEFINE part == SubSeq(want, lo + 1, hi + 1)
        <3>1. lo \in Nat /\ hi \in Int /\ hi < Len(want) /\ lo <= hi + 1
            BY <2>2, <2>4
        <3>2. /\ {q \in StageRows(n, v, 0, want) : lo <= q.idx /\ q.idx <= hi} = StageRows(n, v, lo, part)
              /\ part \in Seq(Chunk)
            BY <2>2, <3>1, RangeOfRows
        <3> HIDE DEF part
        <3>3. Assemble(StageRows(n, v, lo, part)) = part
            BY <3>1, <3>2, Reassembled
        <3>4. \A q \in got : q.idx \in lo..hi <=> (lo <= q.idx /\ q.idx <= hi)
            <4>1. \A q \in got : q.idx \in Nat
                BY DEF TypeInv, TypeOK, Reader, ManifestRow
            <4> QED BY <3>1, <4>1
        <3>5. {q \in got : q.idx \in lo..hi} = StageRows(n, v, lo, part)
            BY <2>1, <3>2, <3>4
        <3> QED BY <3>3, <3>5 DEF FetchRange, part
    <2> QED BY <2>3, <2>4
<1> QED BY <1>1, AtomicInvariant, PTL DEF AtomicInv

(***************************************************************************)
(* The refinement                                                          *)
(***************************************************************************)
(* What the callers of AtomicFiles see of the store. *)
FileOf == [n \in Nodes |-> IF Exists(n) THEN Assemble(Rows(n, content[n].ver)) ELSE None]
DraftOf == [w \in Writers |-> IF wr[w].phase = "open"
                              THEN [node |-> wr[w].node, text |-> wr[w].out] ELSE None]
ReadingOf == [r \in Readers |->
                [want |-> IF rd[r].phase = "idle" THEN None ELSE rd[r].want,
                 got  |-> IF rd[r].phase = "done" THEN Assemble(rd[r].got) ELSE None]]

LEMMA FileIs ==
    ASSUME TypeInv, StoreInv
    PROVE  FileOf = [n \in Nodes |-> IF Exists(n) THEN Text(n) ELSE None]
<1>1. ASSUME NEW n \in Nodes, Exists(n)
      PROVE  Assemble(Rows(n, content[n].ver)) = Text(n)
    <2> PICK v, t : v = content[n].ver /\ t = Text(n)
        OBVIOUS
    <2>1. t \in Seq(Chunk) /\ Rows(n, v) = StageRows(n, v, 0, t)
        BY <1>1, LatestIs DEF Whole
    <2>2. Assemble(Rows(n, v)) = t
        BY SMTT(30), <2>1, Reassembled
    <2> QED BY <2>2
<1> QED BY <1>1 DEF FileOf

(* The actions of AtomicFiles, of what the callers see. *)
CommitSeen(n, text) ==
    /\ \E v \in 0..MaxVersion : truth[n][v] = None /\ truth' = [truth EXCEPT ![n][v] = text]
    /\ FileOf' = [FileOf EXCEPT ![n] = text]

ReplaceSeen(n) ==
    /\ \E v \in 0..MaxVersion :
            truth[n][v] = None /\ truth'[n][v] # None /\ CommitSeen(n, truth'[n][v])
    /\ DraftOf' = DraftOf /\ ReadingOf' = ReadingOf

BeginSeen(w, n) ==
    /\ DraftOf[w] = None /\ FileOf[n] # None
    /\ \E k \in 0..Len(FileOf[n]) :
        DraftOf' = [DraftOf EXCEPT ![w] = [node |-> n, text |-> SubSeq(FileOf[n], 1, k)]]
    /\ FileOf' = FileOf /\ truth' = truth /\ ReadingOf' = ReadingOf

ExtendSeen(w) ==
    /\ DraftOf[w] # None
    /\ \E c \in Chunk : DraftOf' = [DraftOf EXCEPT ![w].text = Append(@, c)]
    /\ FileOf' = FileOf /\ truth' = truth /\ ReadingOf' = ReadingOf

PublishSeen(w) ==
    /\ DraftOf[w] # None
    /\ \/ CommitSeen(DraftOf[w].node, DraftOf[w].text)
       \/ \E c \in Chunk : CommitSeen(DraftOf[w].node, Append(DraftOf[w].text, c))
    /\ DraftOf' = [DraftOf EXCEPT ![w] = None]
    /\ ReadingOf' = ReadingOf

DiscardSeen(w) ==
    /\ DraftOf' = [DraftOf EXCEPT ![w] = None]
    /\ FileOf' = FileOf /\ truth' = truth /\ ReadingOf' = ReadingOf

BeginReadSeen(r, n) ==
    /\ FileOf[n] # None
    /\ ReadingOf' = [ReadingOf EXCEPT ![r] = [want |-> FileOf[n], got |-> None]]
    /\ FileOf' = FileOf /\ truth' = truth /\ DraftOf' = DraftOf

EndReadSeen(r) ==
    /\ ReadingOf[r].want # None
    /\ ReadingOf' = [ReadingOf EXCEPT ![r].got = ReadingOf[r].want]
    /\ FileOf' = FileOf /\ truth' = truth /\ DraftOf' = DraftOf

StepSeen ==
    \/ \E n \in Nodes : ReplaceSeen(n)
    \/ \E w \in Writers :
        \/ \E n \in Nodes : BeginSeen(w, n)
        \/ ExtendSeen(w)
        \/ PublishSeen(w)
        \/ DiscardSeen(w)
    \/ \E r \in Readers : EndReadSeen(r) \/ \E n \in Nodes : BeginReadSeen(r, n)
    \/ FileOf' = FileOf /\ truth' = truth /\ DraftOf' = DraftOf /\ ReadingOf' = ReadingOf

LEMMA SeenIsFiles == StepSeen => [Files!Next]_(Files!vars)
BY DEF StepSeen, ReplaceSeen, BeginSeen, ExtendSeen, PublishSeen, DiscardSeen, BeginReadSeen,
       EndReadSeen, CommitSeen, FileOf, DraftOf, ReadingOf,
       Files!Next, Files!vars, Files!Replace, Files!Begin, Files!Extend, Files!PublishDraft,
       Files!Discard, Files!BeginRead, Files!EndRead, Files!Commit

LEMMA InitSeen == Init => Files!Init
BY DEF Init, Files!Init, Files!NoRead, Exists, NoWriter, NoReader

(* A commit, as a caller sees it. *)
LEMMA CommitIsSeen ==
    ASSUME TypeInv, StoreInv, TypeInv', NEW n, NEW v, NEW text, Wrote(n, v, text)
    PROVE  /\ CommitSeen(n, text) /\ truth[n][v] = None /\ truth'[n][v] = text /\ text # None
           /\ v \in 0..MaxVersion /\ n \in Nodes
<1>1. /\ n \in Nodes /\ v \in 0..MaxVersion /\ text \in Texts /\ text # None
      /\ truth'[n][v] = text
    BY ChunkAssumption DEF Wrote, Texts
<1>2. truth[n][v] = None
    <2>1. v \notin Committed(n)
        BY <1>1, BoundAssumption DEF Wrote
    <2> QED BY <1>1, <2>1 DEF Committed
<1>3. truth' = [truth EXCEPT ![n][v] = text]
    <2>1. /\ truth \in [Nodes -> [0..MaxVersion -> Texts \cup {None}]]
          /\ truth' \in [Nodes -> [0..MaxVersion -> Texts \cup {None}]]
        BY DEF TypeInv, TypeOK
    <2>2. truth'[n] = [truth[n] EXCEPT ![v] = text]
        <3>1. /\ truth[n] \in [0..MaxVersion -> Texts \cup {None}]
              /\ truth'[n] \in [0..MaxVersion -> Texts \cup {None}]
            BY <1>1, <2>1
        <3>2. \A u \in 0..MaxVersion : u # v => truth'[n][u] = truth[n][u]
            BY DEF Wrote
        <3> QED BY <1>1, <3>1, <3>2
    <2>3. \A x \in Nodes : x # n => truth'[x] = truth[x]
        BY DEF Wrote
    <2> QED BY <1>1, <2>1, <2>2, <2>3
<1>4. FileOf' = [FileOf EXCEPT ![n] = text]
    <2>1. Exists(n)' /\ Rows(n, content[n].ver)' = StageRows(n, v, 0, text)
        <3>1. content'[n].ver = v /\ Rows(n, v)' = StageRows(n, v, 0, text)
            BY DEF Wrote, Placed
        <3> QED BY <3>1, NoneAssumption DEF Wrote, Exists, Rows
    <2>2. Assemble(Rows(n, content[n].ver))' = text
        <3>1. text \in Seq(Chunk)
            BY <1>1 DEF Texts
        <3>2. Assemble(StageRows(n, v, 0, text)) = text
            BY <3>1, Reassembled
        <3> QED BY <2>1, <3>2
    <2>3. ASSUME NEW x \in Nodes, x # n
          PROVE  /\ Exists(x)' <=> Exists(x)
                 /\ Rows(x, content[x].ver)' = Rows(x, content[x].ver)
        <3> PICK u : u = content[x].ver
            OBVIOUS
        <3>1. content'[x] = content[x] /\ Rows(x, u)' = Rows(x, u)
            BY <2>3 DEF Wrote, Placed
        <3> QED BY <3>1 DEF Exists, Rows
    <2>4. \A x \in Nodes : x # n =>
            Assemble(Rows(x, content[x].ver))' = Assemble(Rows(x, content[x].ver))
        BY <2>3
    <2>5. \A x \in Nodes : (IF Exists(x) THEN Assemble(Rows(x, content[x].ver)) ELSE None)'
            = IF x = n THEN text
              ELSE IF Exists(x) THEN Assemble(Rows(x, content[x].ver)) ELSE None
        BY <2>1, <2>2, <2>3, <2>4
    <2> HIDE DEF Exists, Rows, Assemble
    <2> QED BY <1>1, <2>5 DEF FileOf
<1>5. CommitSeen(n, text)
    BY <1>1, <1>2, <1>3, <1>4 DEF CommitSeen
<1> QED BY <1>1, <1>2, <1>5

(* A step that leaves the pointers, and the rows they are at, changes no file. *)
LEMMA FileStays ==
    ASSUME \A n \in Nodes :
             /\ Exists(n)' <=> Exists(n)
             /\ Exists(n) => \E u : /\ u = content[n].ver /\ u = content'[n].ver
                                    /\ Rows(n, u)' = Rows(n, u)
    PROVE  FileOf' = FileOf
<1>1. ASSUME NEW x \in Nodes, Exists(x)
      PROVE  Rows(x, content[x].ver)' = Rows(x, content[x].ver)
    BY <1>1 DEF Rows
<1>2. \A x \in Nodes : Exists(x) =>
            Assemble(Rows(x, content[x].ver))' = Assemble(Rows(x, content[x].ver))
    BY <1>1
<1>3. \A x \in Nodes : (IF Exists(x) THEN Assemble(Rows(x, content[x].ver)) ELSE None)'
                          = IF Exists(x) THEN Assemble(Rows(x, content[x].ver)) ELSE None
    BY <1>2
<1> QED BY <1>3 DEF FileOf

LEMMA SameFiles ==
    ASSUME UNCHANGED <<content, manifest>>
    PROVE  FileOf' = FileOf
BY DEF FileOf, Exists, Rows

LEMMA SameDrafts ==
    ASSUME \A w \in Writers : /\ wr'[w].phase = "open" <=> wr[w].phase = "open"
                              /\ wr'[w].node = wr[w].node /\ wr'[w].out = wr[w].out
    PROVE  DraftOf' = DraftOf
BY DEF DraftOf

(* The draft of an open descriptor is not None. *)
LEMMA DraftIs ==
    ASSUME TypeInv, OpenOnEntry, NEW w \in Writers
    PROVE  /\ wr[w].phase = "open" =>
                /\ DraftOf[w] = [node |-> wr[w].node, text |-> wr[w].out]
                /\ DraftOf[w] # None /\ DraftOf[w].node = wr[w].node /\ DraftOf[w].text = wr[w].out
           /\ wr[w].phase # "open" => DraftOf[w] = None
<1>1. ASSUME wr[w].phase = "open"
      PROVE  [node |-> wr[w].node, text |-> wr[w].out] \in [node : Nodes, text : Seq(Chunk)]
    <2>1. wr[w].node \in Nodes /\ wr[w].out \in Seq(Full)
        BY <1>1 DEF OpenOnEntry, TypeInv, TypeOK, Writer
    <2>2. wr[w].out \in Seq(Chunk)
        BY <2>1 DEF Chunk
    <2> QED BY <2>1, <2>2
<1> QED BY <1>1, DraftAssumption DEF DraftOf

(* The end of a descriptor is the end of its draft. *)
LEMMA DraftEnds ==
    ASSUME NEW w \in Writers, NEW phase \in {"closed", "crashed"},
           TypeInv, wr' = [wr EXCEPT ![w] = NoWriter(phase)]
    PROVE  DraftOf' = [DraftOf EXCEPT ![w] = None]
<1>1. wr'[w].phase # "open" /\ \A x \in Writers : x # w => wr'[x] = wr[x]
    BY DEF TypeInv, TypeOK, NoWriter
<1> QED BY <1>1 DEF DraftOf

LEMMA CloseIsSeen ==
    ASSUME TypeInv, OpenOnEntry, StoreInv, TypeInv', NEW w \in Writers, Stream(w),
           NEW p \in LastChunks(wr[w].buf), Close(w, p)
    PROVE  PublishSeen(w)
<1>1. PICK n \in Nodes, v \in 0..MaxVersion, text \in Texts :
        n = wr[w].node /\ text = wr[w].out \o p /\ Wrote(n, v, text)
    BY CloseWrites
<1>2. /\ wr[w].phase = "open" /\ p \in Seq(Chunk)
      /\ wr' = [wr EXCEPT ![w] = NoWriter("closed")] /\ UNCHANGED rd
    BY CloseWrites
<1>3. DraftOf' = [DraftOf EXCEPT ![w] = None] /\ ReadingOf' = ReadingOf
    BY <1>2, DraftEnds DEF ReadingOf
<1>4. DraftOf[w] # None /\ DraftOf[w].node = n /\ DraftOf[w].text = wr[w].out
    BY <1>1, <1>2, DraftIs
<1>5. CommitSeen(n, text)
    BY <1>1, CommitIsSeen
<1>6. wr[w].out \in Seq(Full) /\ wr[w].buf \in {"empty", "part", "full"}
    BY DEF TypeInv, TypeOK, Writer
<1>7. text = wr[w].out \/ \E c \in Chunk : text = Append(wr[w].out, c)
    <2>1. p = <<>> \/ \E c \in Chunk : p = <<c>>
        BY <1>6 DEF LastChunks, Chunk
    <2>2. wr[w].out \o <<>> = wr[w].out /\ \A c : wr[w].out \o <<c>> = Append(wr[w].out, c)
        BY <1>6
    <2> QED BY <1>1, <2>1, <2>2
<1> QED BY <1>3, <1>4, <1>5, <1>7 DEF PublishSeen

(* One field of a record replaced by a new value. *)
LEMMA TextReplaced ==
    ASSUME NEW n, NEW old, NEW text
    PROVE  [[node |-> n, text |-> old] EXCEPT !.text = text] = [node |-> n, text |-> text]
OBVIOUS

(* A flush extends the draft; the version it stages is above the pointer. *)
LEMMA FlushIsSeen ==
    ASSUME TypeInv, OpenOnEntry, StoreInv, NEW w \in Writers, Stream(w), NEW c \in Full, Flush(w, c)
    PROVE  ExtendSeen(w)
<1>1. wr[w].phase = "open" /\ UNCHANGED <<content, rd, truth>>
    BY FlushAdds
<1>2. wr[w] \in Writer
    BY DEF TypeInv, TypeOK
<1>3. PICK n, v, text :
        /\ n \in Nodes /\ v \in 1..MaxVersion
        /\ n = wr[w].node /\ Exists(n) /\ v > content[n].ver
        /\ text = Append(wr[w].out, c) /\ Placed(n, v, text)
        /\ wr' = [wr EXCEPT ![w] = Flushed(wr[w], v, text)]
    BY FlushAdds
<1>4. FileOf' = FileOf
    <2>1. ASSUME NEW x \in Nodes, Exists(x), NEW u, u = content[x].ver
          PROVE  Rows(x, u)' = Rows(x, u)
        <3>1. content[n].ver \in Nat /\ v \in Nat
            BY <1>3, LatestIs, BoundAssumption
        <3>2. x # n \/ u # v
            BY <1>3, <2>1, <3>1
        <3> QED BY <1>3, <3>2 DEF Placed
    <2>2. \A x \in Nodes : Exists(x)' <=> Exists(x)
        BY <1>1 DEF Exists
    <2> QED BY <1>1, <2>1, <2>2, FileStays
<1>5. /\ wr'[w].phase = "open" /\ wr'[w].node = n /\ wr'[w].out = text
      /\ \A x \in Writers : x # w => wr'[x] = wr[x]
    <2>1. wr'[w] = Flushed(wr[w], v, text) /\ \A x \in Writers : x # w => wr'[x] = wr[x]
        BY <1>3 DEF TypeInv, TypeOK
    <2>2. LET new == Flushed(wr[w], v, text) IN
          /\ new.phase = wr[w].phase /\ new.node = wr[w].node /\ new.lock = wr[w].lock
          /\ new.ver = v /\ new.carried /\ new.out = text
        BY <1>2, FlushedFields
    <2> QED BY <1>1, <1>3, <2>1, <2>2
<1>6. PICK out : out = wr[w].out
    OBVIOUS
<1>7. DraftOf[w] = [node |-> n, text |-> out] /\ DraftOf[w] # None /\ text = Append(out, c)
    BY <1>1, <1>3, <1>6, DraftIs
<1>8. DraftOf' = [DraftOf EXCEPT ![w] = [node |-> n, text |-> text]]
    BY <1>5 DEF DraftOf
<1>9. [DraftOf[w] EXCEPT !.text = Append(DraftOf[w].text, c)] = [node |-> n, text |-> text]
    <2>1. DraftOf[w].text = out
        BY <1>7
    <2>2. [DraftOf[w] EXCEPT !.text = text] = [node |-> n, text |-> text]
        BY <1>7, TextReplaced
    <2> QED BY <1>7, <2>1, <2>2
<1>10. DraftOf' = [DraftOf EXCEPT ![w].text = Append(@, c)]
    <2>1. \A f : [f EXCEPT ![w].text = Append(@, c)]
                    = [f EXCEPT ![w] = [f[w] EXCEPT !.text = Append(f[w].text, c)]]
        OBVIOUS
    <2> QED BY <1>8, <1>9, <2>1
<1>11. ReadingOf' = ReadingOf /\ c \in Chunk
    BY <1>1 DEF ReadingOf, Chunk
<1> QED BY <1>1, <1>4, <1>7, <1>10, <1>11 DEF ExtendSeen

(* open_write begins a draft: empty, or the full chunks of the entry. *)
LEMMA OpenWriteIsSeen ==
    ASSUME TypeInv, OpenOnEntry, StoreInv, NEW w \in Writers, NEW m \in Mounts, NEW n \in Nodes,
           NEW l \in LockIds, NEW append \in BOOLEAN, OpenWrite(w, m, n, l, append)
    PROVE  BeginSeen(w, n)
<1> PICK t, k : t = Text(n) /\ k = IF append THEN FullCount(n) ELSE 0
    OBVIOUS
<1>1. /\ wr[w].phase = "unused" /\ Exists(n)
      /\ UNCHANGED <<content, manifest, rd, truth>>
    BY DEF OpenWrite
<1>2. /\ wr'[w].phase = "open" /\ wr'[w].node = n /\ wr'[w].out = SubSeq(t, 1, k)
      /\ \A x \in Writers : x # w => wr'[x] = wr[x]
    BY DEF OpenWrite, SetWriter, TypeInv, TypeOK
<1>3. t \in Texts /\ t \in Seq(Chunk) /\ FileOf[n] = t
    BY <1>1, LatestIs, FileIs
<1>4. k \in 0..Len(t)
    <2>1. FullCount(n) \in Nat /\ 2 * FullCount(n) <= Units(t)
        BY <1>1, CommittedText, UnitsOfText
    <2>2. Len(t) \in Nat /\ FullCount(n) <= Len(t)
        BY <1>3, <2>1, PrefixIsFull
    <2> QED BY <2>1, <2>2
<1>5. FileOf[n] # None
    BY <1>3, ChunkAssumption
<1>6. DraftOf[w] = None
    BY <1>1, DraftIs
<1>7. DraftOf' = [DraftOf EXCEPT ![w] = [node |-> n, text |-> SubSeq(t, 1, k)]]
    BY <1>2 DEF DraftOf
<1>8. FileOf' = FileOf /\ ReadingOf' = ReadingOf
    BY <1>1, SameFiles DEF ReadingOf
<1> QED BY <1>1, <1>3, <1>4, <1>5, <1>6, <1>7, <1>8 DEF BeginSeen

(* abort, and the death of the process, discard the draft. *)
LEMMA EndIsSeen ==
    ASSUME TypeInv, NEW w \in Writers,
           Abort(w) \/ Crash(w) \/ \E p \in LastChunks(wr[w].buf) : CloseFails(w, p)
    PROVE  DiscardSeen(w)
<1>1. PICK phase \in {"closed", "crashed"} : wr' = [wr EXCEPT ![w] = NoWriter(phase)]
    BY DEF Abort, Crash, CloseFails, SetWriter
<1>2. UNCHANGED <<content, manifest, rd, truth>>
    BY DEF Abort, Crash, CloseFails
<1> QED BY <1>1, <1>2, DraftEnds, SameFiles DEF DiscardSeen, ReadingOf

(* The two statements of read_all: the first fixes the content, the second    *)
(* finds it.                                                                  *)
LEMMA ReadMetaIsSeen ==
    ASSUME TypeInv, StoreInv, NEW r \in Readers, NEW n \in Nodes, ReadMeta(r, n)
    PROVE  BeginReadSeen(r, n)
<1> PICK t : t = Text(n)
    OBVIOUS
<1>1. Exists(n) /\ UNCHANGED <<content, manifest, wr, truth>>
    BY DEF ReadMeta
<1>2. t \in Seq(Chunk) /\ FileOf[n] = t
    BY <1>1, LatestIs, FileIs
<1>3. /\ rd'[r].phase = "meta" /\ rd'[r].want = t
      /\ \A x \in Readers : x # r => rd'[x] = rd[x]
    BY DEF ReadMeta, TypeInv, TypeOK
<1>4. ReadingOf' = [ReadingOf EXCEPT ![r] = [want |-> t, got |-> None]]
    BY <1>3 DEF ReadingOf
<1>5. FileOf' = FileOf /\ DraftOf' = DraftOf
    BY <1>1, SameFiles DEF DraftOf
<1> QED BY <1>1, <1>2, <1>4, <1>5, ChunkAssumption DEF BeginReadSeen

LEMMA ReadChunksIsSeen ==
    ASSUME Keeps = {}, TypeInv, StoreInv, NEW r \in Readers, ReadChunks(r)
    PROVE  EndReadSeen(r)
<1>1. rd[r].phase = "meta" /\ rd[r] \in Reader /\ UNCHANGED <<content, manifest, wr, truth>>
    BY DEF ReadChunks, TypeInv, TypeOK
<1> PICK n, v, t : n = rd[r].node /\ v = rd[r].ver /\ t = rd[r].want
    OBVIOUS
<1>2. /\ rd'[r].phase = "done" /\ rd'[r].want = t /\ rd'[r].got = Rows(n, v)
      /\ \A x \in Readers : x # r => rd'[x] = rd[x]
    <2>1. /\ rd'[r] = [rd[r] EXCEPT !.phase = "done", !.node = None, !.ver = 0, !.got = Rows(n, v)]
          /\ \A x \in Readers : x # r => rd'[x] = rd[x]
        BY DEF ReadChunks, TypeInv, TypeOK
    <2> QED BY <1>1, <2>1 DEF Reader
<1>3. Assemble(Rows(n, v)) = t /\ t \in Seq(Chunk)
    <2>1. n \in Nodes /\ v \in Committed(n) /\ truth[n][v] = t
        BY <1>1 DEF StoreInv, Reading
    <2>2. Rows(n, v) = StageRows(n, v, 0, t) /\ t \in Seq(Chunk)
        BY <1>1, <2>1 DEF StoreInv, Wholes, Whole, Reader, Texts
    <2> QED BY <2>2, Reassembled
<1>4. ReadingOf[r] = [want |-> t, got |-> None]
    BY <1>1 DEF ReadingOf
<1>5. ReadingOf'[r] = [want |-> t, got |-> t]
    BY <1>2, <1>3 DEF ReadingOf
<1>6. \A x \in Readers : x # r => ReadingOf'[x] = ReadingOf[x]
    BY <1>2 DEF ReadingOf
<1>7. ReadingOf' = [ReadingOf EXCEPT ![r].got = ReadingOf[r].want]
    <2>1. ReadingOf'[r] = [ReadingOf[r] EXCEPT !.got = ReadingOf[r].want]
        BY <1>4, <1>5
    <2> QED BY ZenonT(60), <1>6, <2>1 DEF ReadingOf
<1>8. FileOf' = FileOf /\ DraftOf' = DraftOf
    BY <1>1, SameFiles DEF DraftOf
<1> QED BY <1>1, <1>3, <1>4, <1>7, <1>8, ChunkAssumption DEF EndReadSeen

(* Every step of the store is one step of the files, or none. *)
LEMMA StepIsSeen ==
    ASSUME Orderly, Keeps = {}, TypeInv, OpenOnEntry, AtomicInv, TypeInv', [Next]_vars
    PROVE  StepSeen
<1> USE DEF AtomicInv
<1>1. ASSUME UNCHANGED <<content, manifest, wr, rd, truth>>
      PROVE  StepSeen
    BY <1>1 DEF StepSeen, FileOf, DraftOf, ReadingOf, Exists, Rows
<1>2. ASSUME WholeWrite
      PROVE  StepSeen
    <2>1. PICK n, v, text : Wrote(n, v, text)
        BY <1>2 DEF WholeWrite
    <2>2. /\ CommitSeen(n, text) /\ truth[n][v] = None /\ truth'[n][v] = text /\ text # None
          /\ v \in 0..MaxVersion /\ n \in Nodes
        BY <2>1, CommitIsSeen
    <2>3. DraftOf' = DraftOf /\ ReadingOf' = ReadingOf
        BY <1>2 DEF WholeWrite, DraftOf, ReadingOf
    <2>4. ReplaceSeen(n)
        BY <2>2, <2>3 DEF ReplaceSeen
    <2> QED BY <2>2, <2>4 DEF StepSeen
<1>3. ASSUME NEW m \in Mounts, NEW n \in Nodes, NEW k \in Keeps \cup {None}, SetRetention(m, n, k)
      PROVE  StepSeen
    <2>1. /\ \A x \in Nodes : /\ Exists(x)' <=> Exists(x)
                              /\ Exists(x) => content'[x].ver = content[x].ver
          /\ UNCHANGED <<manifest, wr, rd, truth>>
        BY <1>3, RetentionStore
    <2>2. ASSUME NEW x \in Nodes, Exists(x)
          PROVE  \E u : /\ u = content[x].ver /\ u = content'[x].ver
                        /\ Rows(x, u)' = Rows(x, u)
        BY <2>1, <2>2 DEF Rows
    <2>3. FileOf' = FileOf
        BY <2>1, <2>2, FileStays
    <2> QED BY <2>1, <2>3 DEF StepSeen, DraftOf, ReadingOf
<1>4. ASSUME NEW w \in Writers, NEW c \in Full, Flush(w, c)
      PROVE  StepSeen
    <2>1. Stream(w)
        BY <1>4 DEF StreamInv, Live, Open, Flush, MayFlush, Orderly
    <2> QED BY <1>4, <2>1, FlushIsSeen DEF StepSeen
<1>5. ASSUME NEW w \in Writers, NEW p \in LastChunks(wr[w].buf), Close(w, p)
      PROVE  StepSeen
    <2>1. Stream(w)
        BY <1>5 DEF StreamInv, Live, Open, Close
    <2> QED BY <1>5, <2>1, CloseIsSeen DEF StepSeen
<1>6. ASSUME PruneContent
      PROVE  StepSeen
    <2>1. UNCHANGED <<content, wr, rd, truth>>
        BY <1>6 DEF PruneContent
    <2>2. ASSUME NEW x \in Nodes, Exists(x), NEW u, u = content[x].ver
          PROVE  Rows(x, u)' = Rows(x, u)
        BY <1>6, <2>2, LatestIs, SweepKeeps
    <2>3. \A x \in Nodes : Exists(x)' <=> Exists(x)
        BY <2>1 DEF Exists
    <2>4. FileOf' = FileOf
        BY <2>1, <2>2, <2>3, FileStays
    <2> QED BY <2>1, <2>4 DEF StepSeen, DraftOf, ReadingOf
<1>7. ASSUME NEW r \in Readers, ReadChunks(r) \/ \E n \in Nodes : ReadMeta(r, n)
      PROVE  StepSeen
    BY <1>7, ReadMetaIsSeen, ReadChunksIsSeen DEF StepSeen
<1>8. ASSUME HandSteps
      PROVE  StepSeen
    <2>1. UNCHANGED <<content, manifest, pool, rd, truth>>
        BY <1>8, HandStepsAreQuiet
    <2>2. ASSUME NEW m \in Mounts, NEW n \in Nodes, NEW w \in Writers, NEW l \in LockIds,
                 NEW append \in BOOLEAN, OpenWrite(w, m, n, l, append)
          PROVE  StepSeen
        BY <2>2, OpenWriteIsSeen DEF StepSeen
    <2>3. ASSUME NEW w \in Writers,
                 Abort(w) \/ Crash(w) \/ \E p \in LastChunks(wr[w].buf) : CloseFails(w, p)
          PROVE  StepSeen
        BY <2>3, EndIsSeen DEF StepSeen
    <2>4. ASSUME NEW w \in Writers, \E c \in Full : FlushFails(w, c)
          PROVE  FALSE
        BY <2>4, NothingFails
    <2>5. ASSUME UNCHANGED wr
          PROVE  StepSeen
        BY <1>1, <2>1, <2>5
    <2>6. ASSUME \/ \E m \in Mounts, n \in Nodes, l \in Tokens : TakeLock(l, m, n)
                 \/ \E l \in Tokens : Unlock(l) \/ LockElapses(l)
                 \/ \E m \in Mounts : MountEnds(m)
                 \/ Prune
          PROVE  UNCHANGED wr
        BY <2>6 DEF TakeLock, Unlock, LockElapses, MountEnds, Prune
    <2> QED BY <1>8, <2>2, <2>3, <2>4, <2>5, <2>6 DEF HandSteps
<1>9. CASE Next
    BY <1>2, <1>3, <1>4, <1>5, <1>6, <1>7, <1>8, <1>9, StepKinds
<1>10. CASE UNCHANGED vars
    BY <1>1, <1>10 DEF vars
<1> QED BY <1>9, <1>10

(* In an orderly environment, where no retention is ever set, callers cannot  *)
(* tell the store from files that change whole (IO-2r1, IO-3): commits are    *)
(* visible at once and entire, drafts are private until close publishes them, *)
(* reads return one moment, and the versions, chunks, locks and sweeps        *)
(* beneath are never seen.                                                    *)
THEOREM StoreIsAtomicFiles ==
    ASSUME Orderly, Keeps = {}
    PROVE  Spec => ImplementsAtomicFiles
<1>1. TypeInv /\ OpenOnEntry /\ AtomicInv /\ TypeInv' /\ [Next]_vars => [Files!Next]_(Files!vars)
    BY StepIsSeen, SeenIsFiles
<1> QED BY <1>1, InitSeen, AtomicInvariant, PTL DEF Spec, ImplementsAtomicFiles, Files!Spec

(***************************************************************************)
(* What verify reports                                                     *)
(***************************************************************************)
LEMMA StageRowsFinite ==
    ASSUME NEW n, NEW v, NEW at \in Nat, NEW p \in Seq(Chunk)
    PROVE  IsFiniteSet(StageRows(n, v, at, p))
<1> DEFINE S == StageRows(n, v, at, p)
           f == [i \in 1..Len(p) |-> RowAt(n, v, at, p, i)]
<1>1. S = {RowAt(n, v, at, p, i) : i \in 1..Len(p)} /\ Len(p) \in Nat
    BY StagedRows
<1> HIDE DEF S
<1>2. f \in Surjection(1..Len(p), S)
    BY <1>1 DEF Surjection
<1>3. IsFiniteSet(1..Len(p))
    BY <1>1, FS_Interval
<1> HIDE DEF f
<1>4. IsFiniteSet(S)
    BY <1>2, <1>3, FS_Surjection
<1> QED BY <1>4 DEF S

LEMMA CarryRowsFinite ==
    ASSUME IsFiniteSet(manifest), NEW n, NEW src, NEW v, NEW lo, NEW hi
    PROVE  IsFiniteSet(CarryRows(n, src, v, lo, hi))
<1> DEFINE rows == {q \in Rows(n, src) : lo <= q.idx /\ q.idx <= hi}
           f == [r \in rows |-> [r EXCEPT !.ver = v]]
           S == CarryRows(n, src, v, lo, hi)
<1>1. rows \in SUBSET manifest
    BY DEF Rows
<1>2. IsFiniteSet(rows)
    BY <1>1, FS_Subset
<1>3. f \in Surjection(rows, S)
    BY DEF Surjection, CarryRows
<1> HIDE DEF f, rows, S
<1>4. IsFiniteSet(S)
    BY <1>2, <1>3, FS_Surjection
<1> QED BY <1>4 DEF S

FiniteRows == IsFiniteSet(manifest)

LEMMA FiniteInserted ==
    ASSUME FiniteRows, NEW rows, IsFiniteSet(rows), Insert(rows)
    PROVE  FiniteRows'
<1>1. manifest' = manifest \cup rows
    BY DEF Insert
<1>2. IsFiniteSet(manifest \cup rows)
    BY FS_Union DEF FiniteRows
<1> QED BY <1>1, <1>2 DEF FiniteRows

LEMMA RebuildFinite ==
    ASSUME FiniteRows, NEW m, NEW n, NEW a \in Nat, NEW p \in Seq(Chunk), NEW b, NEW size,
           Rebuild(m, n, a, p, b, size)
    PROVE  FiniteRows'
<1> PICK v \in 1..MaxVersion :
        Insert(CarryRows(n, content[n].ver, v, 0, a - 1) \cup StageRows(n, v, a, p)
                 \cup CarryRows(n, content[n].ver, v, b, ChunkCount(n) - 1))
    BY DEF Rebuild
<1> DEFINE first == CarryRows(n, content[n].ver, v, 0, a - 1)
           mid == StageRows(n, v, a, p)
           last == CarryRows(n, content[n].ver, v, b, ChunkCount(n) - 1)
<1>1. IsFiniteSet(first) /\ IsFiniteSet(mid) /\ IsFiniteSet(last)
    BY CarryRowsFinite, StageRowsFinite DEF FiniteRows
<1>2. Insert(first \cup mid \cup last)
    OBVIOUS
<1> HIDE DEF first, mid, last
<1>3. IsFiniteSet(first \cup mid)
    BY <1>1, FS_Union
<1>4. IsFiniteSet(first \cup mid \cup last)
    BY <1>1, <1>3, FS_Union
<1> QED BY <1>2, <1>4, FiniteInserted

LEMMA StagedFinite ==
    ASSUME FiniteRows, NEW w, NEW v, NEW p \in Seq(Chunk), Len(wr[w].out) \in Nat
    PROVE  IsFiniteSet(Staged(w, v, p))
<1> DEFINE S == StageRows(wr[w].node, v, Len(wr[w].out), p)
           T == IF wr[w].carried THEN {}
                ELSE CarryRows(wr[w].node, wr[w].src, v, 0, wr[w].carry - 1)
<1>1. IsFiniteSet(S) /\ IsFiniteSet(T)
    BY StageRowsFinite, CarryRowsFinite, FS_EmptySet DEF FiniteRows
<1> HIDE DEF S, T
<1>2. IsFiniteSet(S \cup T)
    BY <1>1, FS_Union
<1> QED BY <1>2 DEF S, T, Staged

LEMMA FiniteStep == ASSUME TypeInv, FiniteRows, [Next]_vars PROVE FiniteRows'
<1>1. CASE UNCHANGED <<manifest, pool>>
    BY <1>1 DEF FiniteRows
<1>2. CASE PruneContent
    <2>1. manifest' \in SUBSET manifest
        BY <1>2 DEF PruneContent, Kept
    <2> QED BY <2>1, FS_Subset DEF FiniteRows
<1>3. ASSUME NEW m \in Mounts, NEW n \in Nodes, NEW p \in Payloads,
             CreateEntry(m, n, p) \/ WriteAll(m, n, p)
      PROVE  FiniteRows'
    <2>1. p \in Seq(Chunk)
        BY PayloadAssumption DEF Texts
    <2>2. PICK v : Insert(StageRows(n, v, 0, p))
        BY <1>3 DEF CreateEntry, WriteAll
    <2> QED BY <2>1, <2>2, StageRowsFinite, FiniteInserted
<1>4. ASSUME NEW m \in Mounts, NEW n \in Nodes, NEW p \in Payloads,
             AppendTo(m, n, p) \/ \E a \in 0..MaxChunks : WriteRange(m, n, a, p)
      PROVE  FiniteRows'
    <2>1. p \in Seq(Chunk) /\ 0..MaxChunks \subseteq Nat
        BY PayloadAssumption, BoundAssumption DEF Texts
    <2>2. CASE AppendTo(m, n, p)
        <3>1. FullCount(n) \in Nat
            BY <2>2, CommittedText DEF AppendTo
        <3> QED BY <2>1, <2>2, <3>1, RebuildFinite DEF AppendTo
    <2>3. ASSUME NEW a \in 0..MaxChunks, WriteRange(m, n, a, p)
          PROVE  FiniteRows'
        BY <2>1, <2>3, RebuildFinite DEF WriteRange
    <2> QED BY <1>4, <2>2, <2>3
<1>5. ASSUME NEW m \in Mounts, NEW n \in Nodes, NEW a \in 0..MaxChunks,
             NEW p \in {<<>>} \cup {<<c>> : c \in Short}, Shrink(m, n, a, p)
      PROVE  FiniteRows'
    <2>1. a \in Nat
        BY BoundAssumption
    <2>2. \A c \in Short : <<c>> \in Seq(Chunk)
        BY DEF Chunk
    <2>3. p \in Seq(Chunk)
        <3>1. CASE p = <<>>
            BY <3>1
        <3>2. CASE \E c \in Short : p = <<c>>
            BY <2>2, <3>2
        <3> QED BY <3>1, <3>2
    <2> QED BY <1>5, <2>1, <2>3, RebuildFinite DEF Shrink
<1>6. ASSUME NEW m \in Mounts, NEW n \in Nodes, NEW dst \in Nodes, Copy(m, n, dst)
      PROVE  FiniteRows'
    <2> DEFINE rows == Rows(n, content[n].ver)
               new == {[r EXCEPT !.node = dst] : r \in rows}
               f == [r \in rows |-> [r EXCEPT !.node = dst]]
    <2>1. rows \in SUBSET manifest
        BY DEF Rows
    <2>2. IsFiniteSet(rows)
        BY <2>1, FS_Subset DEF FiniteRows
    <2>3. f \in Surjection(rows, new)
        BY DEF Surjection
    <2>4. Insert({[r EXCEPT !.node = dst] : r \in Rows(n, content[n].ver)})
        BY <1>6 DEF Copy
    <2>5. Insert(new)
        BY <2>4 DEF rows
    <2> HIDE DEF new, rows, f
    <2>6. IsFiniteSet(new)
        BY <2>2, <2>3, FS_Surjection
    <2> QED BY <2>5, <2>6, FiniteInserted
<1>7. ASSUME NEW w \in Writers, \E c \in Full : Flush(w, c)
      PROVE  FiniteRows'
    <2> PICK c \in Full : \E v : Insert(Staged(w, v, <<c>>))
        BY <1>7 DEF Flush, MayFlush
    <2>1. PICK v : Insert(Staged(w, v, <<c>>))
        OBVIOUS
    <2>2. <<c>> \in Seq(Chunk) /\ Len(wr[w].out) \in Nat
        BY DEF Chunk, TypeInv, TypeOK, Writer
    <2> QED BY <2>1, <2>2, StagedFinite, FiniteInserted
<1>8. ASSUME NEW w \in Writers, NEW p \in LastChunks(wr[w].buf), Close(w, p)
      PROVE  FiniteRows'
    <2>1. PICK v : Insert(Staged(w, v, p))
        BY <1>8 DEF Close
    <2>2. wr[w].out \in Seq(Full) /\ wr[w].buf \in {"empty", "part", "full"}
        BY DEF TypeInv, TypeOK, Writer
    <2>3. p \in Seq(Chunk) /\ Len(wr[w].out) \in Nat
        BY <2>2, LastChunkIsText
    <2> QED BY <2>1, <2>3, StagedFinite, FiniteInserted
<1>9. CASE HandSteps
    BY <1>1, <1>9, HandStepsAreQuiet
<1>10. CASE \/ \E m \in Mounts, n \in Nodes, k \in Keeps \cup {None} : SetRetention(m, n, k)
            \/ \E r \in Readers : ReadChunks(r) \/ \E n \in Nodes : ReadMeta(r, n)
            \/ UNCHANGED vars
    BY <1>1, <1>10 DEF SetRetention, ReadChunks, ReadMeta, vars
<1> QED BY <1>2, <1>3, <1>4, <1>5, <1>6, <1>7, <1>8, <1>9, <1>10 DEF Next, HandSteps

LEMMA RowsFinite == Spec => []FiniteRows
<1>1. Init => FiniteRows
    BY FS_EmptySet DEF Init, FiniteRows
<1>2. TypeInv /\ FiniteRows /\ [Next]_vars => FiniteRows'
    BY FiniteStep
<1> QED BY <1>1, <1>2, TypeInvariant, PTL DEF Spec

(* Rows numbered from 0 without a hole are those of a text. *)
LEMMA RowsOfText ==
    ASSUME NEW n, NEW v, manifest \subseteq ManifestRow, IsFiniteSet(Rows(n, v)),
           {r.idx : r \in Rows(n, v)} = 0..Cardinality(Rows(n, v)) - 1
    PROVE  \E q \in Seq(Chunk) : /\ Rows(n, v) = StageRows(n, v, 0, q)
                                 /\ Len(q) = Cardinality(Rows(n, v))
<1> DEFINE rows == Rows(n, v)
           k == Cardinality(rows)
           f == [r \in rows |-> r.idx]
           At(i) == CHOOSE r \in rows : r.idx = i - 1
           q == [i \in 1..k |-> At(i).chunk]
<1>1. k \in Nat /\ \A r \in rows : r \in ManifestRow /\ r.node = n /\ r.ver = v
    BY FS_CardinalityType DEF Rows
<1>2. {r.idx : r \in rows} = 0..k - 1
    OBVIOUS
<1>3. IsFiniteSet(rows)
    OBVIOUS
<1> HIDE DEF rows, k
<1>4. f \in Surjection(rows, 0..k - 1)
    BY <1>2 DEF Surjection
<1>5. Cardinality(0..k - 1) = k
    BY <1>1, FS_Interval
<1>6. f \in Injection(rows, 0..k - 1)
    <2> HIDE DEF f
    <2>1. Cardinality(rows) = Cardinality(0..k - 1)
        BY <1>5 DEF k
    <2> QED BY <1>3, <1>4, <2>1, FS_SurjSameCardinalityImpliesInj
<1>7. \A r, s \in rows : r.idx = s.idx => r = s
    BY <1>6 DEF Injection, IsInjective
<1>8. ASSUME NEW i \in 1..k
      PROVE  At(i) \in rows /\ At(i).idx = i - 1
    <2>1. i - 1 \in 0..k - 1
        BY <1>1
    <2>2. \E r \in rows : r.idx = i - 1
        BY <1>2, <2>1
    <2> QED BY <2>2
<1> HIDE DEF At
<1>9. q \in Seq(Chunk) /\ Len(q) = k
    BY <1>1, <1>8 DEF ManifestRow
<1>10. StageRows(n, v, 0, q) = {RowAt(n, v, 0, q, i) : i \in 1..k}
    <2> HIDE DEF q
    <2> QED BY <1>9, StagedRows
<1>11. ASSUME NEW i \in 1..k PROVE At(i) = RowAt(n, v, 0, q, i)
    <2>1. At(i) \in ManifestRow /\ At(i).node = n /\ At(i).ver = v /\ At(i).idx = 0 + i - 1
        BY <1>1, <1>8
    <2>2. q[i] = At(i).chunk
        OBVIOUS
    <2> QED BY <2>1, <2>2 DEF RowAt, ManifestRow
<1>12. ASSUME NEW r \in rows PROVE \E i \in 1..k : r = At(i)
    <2>1. r.idx \in 0..k - 1
        BY <1>2
    <2>2. r.idx + 1 \in 1..k /\ (r.idx + 1) - 1 = r.idx
        BY <1>1, <2>1
    <2>3. At(r.idx + 1) \in rows /\ At(r.idx + 1).idx = r.idx
        BY <1>8, <2>2
    <2> QED BY <1>7, <2>2, <2>3
<1> HIDE DEF q
<1>13. rows = StageRows(n, v, 0, q)
    <2> HIDE DEF RowAt
    <2>1. ASSUME NEW r \in rows PROVE r \in StageRows(n, v, 0, q)
        <3>1. PICK i \in 1..k : r = At(i)
            BY <1>12
        <3> QED BY <1>10, <1>11, <3>1
    <2>2. ASSUME NEW r \in StageRows(n, v, 0, q) PROVE r \in rows
        <3>1. PICK i \in 1..k : r = RowAt(n, v, 0, q, i)
            BY <1>10
        <3> QED BY <1>8, <1>11, <3>1
    <2> QED BY <2>1, <2>2
<1> QED BY <1>9, <1>13 DEF rows, k

(* The chunks of a text are as long together as the text.                     *)
LEMMA LengthsAddUp ==
    ASSUME NEW n, NEW v, NEW q \in Seq(Chunk), NEW t \in Texts, t # <<>>, Shape(q) = Shape(t)
    PROVE  /\ Len(q) = Len(t)
           /\ 2 * Len(q) - Cardinality({r \in StageRows(n, v, 0, q) : r.chunk \in Short}) = Units(t)
<1> DEFINE k == Len(q)
           rows == StageRows(n, v, 0, q)
           shorts == {r \in rows : r.chunk \in Short}
<1>1. t \in Seq(Chunk) /\ Len(t) \in Nat /\ k \in Nat
    BY DEF Texts
<1>2. k = Len(t) /\ \A i \in 1..k : q[i] \in Short <=> t[i] \in Short
    <2>1. DOMAIN Shape(q) = 1..k /\ DOMAIN Shape(t) = 1..Len(t)
        BY <1>1 DEF Shape
    <2>2. 1..k = 1..Len(t)
        BY <2>1
    <2>3. k = Len(t)
        <3>1. k <= Len(t)
            <4>1. CASE k = 0
                BY <1>1, <4>1
            <4>2. CASE k # 0
                <5>1. k \in 1..k
                    BY <1>1, <4>2
                <5> QED BY <1>1, <2>2, <5>1
            <4> QED BY <4>1, <4>2
        <3>2. Len(t) <= k
            <4>1. CASE Len(t) = 0
                BY <1>1, <4>1
            <4>2. CASE Len(t) # 0
                <5>1. Len(t) \in 1..Len(t)
                    BY <1>1, <4>2
                <5> QED BY <1>1, <2>2, <5>1
            <4> QED BY <4>1, <4>2
        <3> QED BY <1>1, <3>1, <3>2
    <2>4. ASSUME NEW i \in 1..k PROVE q[i] \in Short <=> t[i] \in Short
        <3>1. Shape(q)[i] = (q[i] \in Short) /\ Shape(t)[i] = (t[i] \in Short)
            BY <1>1, <2>2 DEF Shape
        <3> QED BY <3>1
    <2> QED BY <2>3, <2>4
<1>3. k > 0 /\ k \in 1..k /\ k \in 1..Len(q)
    BY <1>1, <1>2, UnitsOfText
<1>4. \A i \in 1..k : q[i] \in Short => i = k
    <2>1. \A i \in 1..(k - 1) : t[i] \in Full
        BY <1>2 DEF Texts
    <2> QED BY <1>1, <1>2, <2>1, ChunkAssumption
<1>5. rows = {RowAt(n, v, 0, q, i) : i \in 1..k}
    BY StagedRows
<1>6. \A i \in 1..k : RowAt(n, v, 0, q, i).chunk = q[i]
    BY DEF RowAt
<1> HIDE DEF rows
<1>7. CASE q[k] \in Short
    <2>1. shorts = {RowAt(n, v, 0, q, k)}
        BY <1>3, <1>4, <1>5, <1>6, <1>7
    <2>2. Cardinality(shorts) = 1
        BY <2>1, FS_Singleton
    <2>3. t[Len(t)] \in Short
        BY <1>2, <1>3, <1>7
    <2>4. Units(t) = 2 * k - 1
        BY <1>1, <1>2, <2>3 DEF Units
    <2> QED BY <1>2, <2>2, <2>4 DEF rows
<1>8. CASE q[k] \notin Short
    <2>1. shorts = {}
        BY <1>3, <1>4, <1>5, <1>6, <1>8
    <2>2. Cardinality(shorts) = 0
        BY <2>1, FS_EmptySet
    <2>3. t[Len(t)] \notin Short
        BY <1>2, <1>3, <1>8
    <2>4. Units(t) = 2 * k
        BY <1>1, <1>2, <2>3 DEF Units
    <2> QED BY <1>1, <1>2, <2>2, <2>4 DEF rows
<1> QED BY <1>7, <1>8

(* What verify looks at of an entry, when no chunk is missing. *)
LEMMA VerifySees ==
    ASSUME TypeInv, PoolCovers, FiniteRows, NEW n \in Nodes, Exists(n), NEW rows,
           rows = Rows(n, content[n].ver)
    PROVE  /\ IsFiniteSet(rows) /\ Cardinality(rows) \in Nat /\ manifest \subseteq ManifestRow
           /\ Refs(n) = rows /\ Missing(n) = {}
           /\ Total(n) = 2 * Cardinality(rows) - Cardinality({r \in rows : r.chunk \in Short})
<1>1. rows \in SUBSET manifest /\ manifest \subseteq ManifestRow
    BY DEF Rows, TypeInv, TypeOK
<1>2. IsFiniteSet(rows)
    BY <1>1, FS_Subset DEF FiniteRows
<1>3. Cardinality(rows) \in Nat
    BY <1>2, FS_CardinalityType
<1>4. Refs(n) = rows /\ Missing(n) = {}
    BY <1>1 DEF Refs, Missing, PoolCovers
<1>5. Refs(n) \ Missing(n) = rows
    BY <1>4
<1>6. Total(n) = 2 * Cardinality(rows) - Cardinality({r \in rows : r.chunk \in Short})
    BY <1>5 DEF Total
<1> QED BY <1>1, <1>2, <1>3, <1>4, <1>6

(* Whatever failed transactions, lapsed locks and racing writers did, verify   *)
(* blames no entry whose committed version is what its writer meant to store.  *)
THEOREM VerifyBlamesNone == Spec => []NoFalseAlarm
<1>1. ASSUME TypeInv, PoolCovers, FiniteRows, NEW n \in Nodes, Exists(n), Intact(n), Reported(n)
      PROVE  FALSE
    <2> DEFINE v == content[n].ver
               rows == Rows(n, v)
               t == Text(n)
    <2>1. /\ IsFiniteSet(rows) /\ manifest \subseteq ManifestRow
          /\ Refs(n) = rows /\ Missing(n) = {}
          /\ Total(n) = 2 * Cardinality(rows) - Cardinality({r \in rows : r.chunk \in Short})
        BY <1>1, VerifySees
    <2>2. {r.idx : r \in rows} = 0..Cardinality(rows) - 1 /\ Shape(Assemble(rows)) = Shape(t)
        BY <1>1 DEF Intact
    <2>3. ~Gap(n)
        BY <2>1, <2>2 DEF Gap
    <2>4. rows # {} /\ Total(n) # content[n].size
        BY <1>1, <2>1, <2>3 DEF Reported
    <2>5. PICK q \in Seq(Chunk) : rows = StageRows(n, v, 0, q) /\ Len(q) = Cardinality(rows)
        BY <2>1, <2>2, RowsOfText
    <2>6. Assemble(rows) = q
        BY <2>5, Reassembled
    <2>7. t \in Texts /\ Units(t) = content[n].size
        BY <1>1, CommittedText
    <2>8. t # <<>>
        <3>1. Cardinality(rows) # 0
            BY <2>1, <2>4, FS_EmptySet
        <3>2. 1 \in DOMAIN Shape(q)
            BY <2>5, <3>1 DEF Shape
        <3>3. Shape(q) = Shape(t)
            BY <2>2, <2>6
        <3>4. 1 \in DOMAIN t
            BY <3>2, <3>3 DEF Shape
        <3> QED BY <3>4
    <2> HIDE DEF t, rows, v
    <2>9. 2 * Len(q) - Cardinality({r \in StageRows(n, v, 0, q) : r.chunk \in Short}) = Units(t)
        BY <2>2, <2>6, <2>7, <2>8, LengthsAddUp
    <2> QED BY <2>1, <2>4, <2>5, <2>7, <2>9
<1>2. TypeInv /\ PoolCovers /\ FiniteRows => NoFalseAlarm
    BY <1>1 DEF NoFalseAlarm
<1> QED BY <1>2, TypeInvariant, PoolCorrect, RowsFinite, PTL
==============================================================================
