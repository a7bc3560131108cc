---- MODULE S3Proofs ----
(***************************************************************************)
(* Theorems about the S3 frontend (S3Gateway.tla): what is staged, what a  *)
(* completed upload becomes, and what a listing shows page by page.        *)
(***************************************************************************)
EXTENDS S3Gateway, TLAPS, FiniteSetTheorems, SequenceTheorems

---------------------------------------------------------------------------
(* Numbers in ascending order                                              *)

Rank(S, n) == Cardinality({m \in S : m < n})

(* The elements of S have the ranks 0 .. Cardinality(S) - 1, one each.     *)
LEMMA RanksAreDistinct ==
  ASSUME NEW S \in SUBSET Nat, IsFiniteSet(S)
  PROVE  /\ \A n \in S : Rank(S, n) \in 0..(Cardinality(S) - 1)
         /\ \A m, n \in S : m < n => Rank(S, m) < Rank(S, n)
<1>1. ASSUME NEW n \in S
      PROVE  IsFiniteSet({m \in S : m < n}) /\ Rank(S, n) \in 0..(Cardinality(S) - 1)
  <2>1. {m \in S : m < n} \in SUBSET S
    OBVIOUS
  <2>2. IsFiniteSet({m \in S : m < n}) /\ Rank(S, n) <= Cardinality(S)
        /\ (Cardinality(S) = Rank(S, n) => S = {m \in S : m < n})
    BY <2>1, FS_Subset DEF Rank
  <2>3. n \notin {m \in S : m < n}
    OBVIOUS
  <2>4. Rank(S, n) \in Nat /\ Cardinality(S) \in Nat
    BY <2>2, FS_CardinalityType DEF Rank
  <2> QED
    BY <2>2, <2>3, <2>4
<1>2. ASSUME NEW m \in S, NEW n \in S, m < n PROVE Rank(S, m) < Rank(S, n)
  <2>1. {k \in S : k < m} \in SUBSET {k \in S : k < n}
    <3>1. ASSUME NEW k \in S, k < m PROVE k < n
      <4>1. k \in Nat /\ m \in Nat /\ n \in Nat
        OBVIOUS
      <4> QED
        BY <1>2, <3>1, <4>1
    <3> QED
      BY <3>1
  <2>2. IsFiniteSet({k \in S : k < n})
    BY <1>1
  <2>3. Rank(S, m) <= Rank(S, n)
        /\ (Rank(S, n) = Rank(S, m) => {k \in S : k < n} = {k \in S : k < m})
    BY <2>1, <2>2, FS_Subset DEF Rank
  <2>4. m \in {k \in S : k < n} /\ m \notin {k \in S : k < m}
    BY <1>2
  <2>5. Rank(S, m) \in Nat /\ Rank(S, n) \in Nat
    <3>1. IsFiniteSet({k \in S : k < m})
      BY <1>1
    <3> QED
      BY <2>2, <3>1, FS_CardinalityType DEF Rank
  <2>6. Rank(S, n) # Rank(S, m)
    BY <2>3, <2>4
  <2> QED
    BY <2>3, <2>5, <2>6
<1> QED
  BY <1>1, <1>2

LEMMA RanksAreTaken ==
  ASSUME NEW S \in SUBSET Nat, IsFiniteSet(S), NEW i \in 1..Cardinality(S)
  PROVE  \E n \in S : Rank(S, n) = i - 1
<1> DEFINE f == [n \in S |-> Rank(S, n) + 1]
           N == Cardinality(S)
<1>1. N \in Nat
  BY FS_CardinalityType
<1>2. IsFiniteSet(1..N) /\ Cardinality(1..N) = N
  BY <1>1, FS_Interval
<1>3. \A n \in S : f[n] \in 1..N
  BY <1>1, RanksAreDistinct
<1>4. ASSUME NEW m \in S, NEW n \in S, f[m] = f[n] PROVE m = n
  <2>1. Rank(S, m) = Rank(S, n) /\ Rank(S, m) \in Nat /\ Rank(S, n) \in Nat
    BY <1>4, RanksAreDistinct
  <2>2. ~(m < n) /\ ~(n < m)
    BY <2>1, RanksAreDistinct
  <2> QED
    BY <2>2
<1>5. f \in Injection(S, 1..N)
  BY <1>3, <1>4 DEF Injection, IsInjective
<1>6. f \in Surjection(S, 1..N)
  BY <1>2, <1>5, FS_Injection
<1>7. PICK n \in S : f[n] = i
  BY <1>6 DEF Surjection
<1>8. Rank(S, n) \in Nat
  BY RanksAreDistinct
<1> QED
  BY <1>7, <1>8

(* Ascending lists every element of the set, and none twice, in order.     *)
LEMMA AscendingLists ==
  ASSUME NEW S \in SUBSET Nat, IsFiniteSet(S)
  PROVE  /\ \A i \in 1..Cardinality(S) : Ascending(S)[i] \in S /\ Rank(S, Ascending(S)[i]) = i - 1
         /\ \A n \in S : \E i \in 1..Cardinality(S) : Ascending(S)[i] = n
<1>1. ASSUME NEW i \in 1..Cardinality(S)
      PROVE  Ascending(S)[i] \in S /\ Rank(S, Ascending(S)[i]) = i - 1
  <2>1. Ascending(S)[i] = CHOOSE n \in S : Rank(S, n) = i - 1
    BY DEF Ascending, Rank
  <2>2. \E n \in S : Rank(S, n) = i - 1
    BY RanksAreTaken
  <2> QED
    BY <2>1, <2>2
<1>2. ASSUME NEW n \in S PROVE \E i \in 1..Cardinality(S) : Ascending(S)[i] = n
  <2>1. Rank(S, n) \in 0..(Cardinality(S) - 1) /\ Cardinality(S) \in Nat
    BY RanksAreDistinct, FS_CardinalityType
  <2> DEFINE i == Rank(S, n) + 1
  <2>2. i \in 1..Cardinality(S) /\ i - 1 = Rank(S, n)
    BY <2>1
  <2>3. Ascending(S)[i] \in S /\ Rank(S, Ascending(S)[i]) = Rank(S, n)
    BY <1>1, <2>2
  <2> HIDE DEF i
  <2>4. ASSUME NEW m \in S, Rank(S, m) = Rank(S, n) PROVE m = n
    <3>1. m \in Nat /\ n \in Nat /\ ~(m < n) /\ ~(n < m)
      BY <2>1, <2>4, RanksAreDistinct
    <3> QED
      BY <3>1
  <2>5. Ascending(S)[i] = n
    BY <2>3, <2>4
  <2> QED
    BY <2>2, <2>5
<1> QED
  BY <1>1, <1>2

LEMMA FirstAndLast ==
  ASSUME NEW S \in SUBSET Nat, IsFiniteSet(S), S # {}
  PROVE  /\ \E n \in S : Rank(S, n) = 0
         /\ Max(S) \in S /\ \A n \in S : n <= Max(S)
<1>1. Cardinality(S) \in Nat \ {0}
  BY FS_CardinalityType, FS_EmptySet
<1>2. PICK n \in S : Rank(S, n) = 1 - 1
  BY <1>1, RanksAreTaken
<1>3. PICK m \in S : Rank(S, m) = Cardinality(S) - 1
  BY <1>1, RanksAreTaken
<1>4. ASSUME NEW k \in S PROVE k <= m
  <2>1. Rank(S, k) \in 0..(Cardinality(S) - 1)
    BY RanksAreDistinct
  <2>2. ~(m < k)
    BY <1>1, <1>3, <2>1, RanksAreDistinct
  <2> QED
    BY <2>2
<1>5. \E x \in S : \A y \in S : x >= y
  BY <1>4
<1>6. Max(S) \in S /\ \A y \in S : Max(S) >= y
  BY <1>5 DEF Max
<1> QED
  BY <1>2, <1>6

---------------------------------------------------------------------------
(* The bytes of an upload                                                  *)

BytesOf(parts) == UNION {{n} \X (1..parts[n]) : n \in Numbers}

LEMMA BytesFinite ==
  ASSUME NEW parts \in [Numbers -> Nat]
  PROVE  IsFiniteSet(BytesOf(parts))
<1> DEFINE T == {{n} \X (1..parts[n]) : n \in Numbers}
           f == [n \in Numbers |-> {n} \X (1..parts[n])]
<1>1. f \in Surjection(Numbers, T)
  BY DEF Surjection
<1>2. IsFiniteSet(T)
  <2>1. IsFiniteSet(Numbers)
    BY S3Assumption
  <2> HIDE DEF T, f
  <2> QED
    BY <1>1, <2>1, FS_Surjection
<1>3. ASSUME NEW t \in T PROVE IsFiniteSet(t)
  <2>1. PICK n \in Numbers : t = {n} \X (1..parts[n])
    OBVIOUS
  <2>2. parts[n] \in Int /\ 1 \in Int
    OBVIOUS
  <2>3. IsFiniteSet({n}) /\ IsFiniteSet(1..parts[n])
    BY <2>2, FS_Singleton, FS_Interval
  <2> QED
    BY <2>1, <2>3, FS_Product
<1> HIDE DEF T
<1> QED
  BY <1>2, <1>3, FS_UNION DEF BytesOf, T

LEMMA PartBytes ==
  ASSUME NEW n, NEW size \in Nat
  PROVE  IsFiniteSet({n} \X (1..size)) /\ Cardinality({n} \X (1..size)) = size
<1>1. IsFiniteSet({n}) /\ Cardinality({n}) = 1
  BY FS_Singleton
<1>2. IsFiniteSet(1..size) /\ Cardinality(1..size) = size
  BY FS_Interval
<1>3. Cardinality({n} \X (1..size)) = 1 * size
  BY <1>1, <1>2, FS_Product
<1> QED
  BY <1>1, <1>2, <1>3, FS_Product

LEMMA JoinedCardinality ==
  ASSUME NEW S, NEW T, IsFiniteSet(S), IsFiniteSet(T), S \cap T = {}
  PROVE  Cardinality(S \cup T) = Cardinality(S) + Cardinality(T)
         /\ Cardinality(S) \in Nat /\ Cardinality(T) \in Nat
<1>1. Cardinality(S \cup T) = Cardinality(S) + Cardinality(T) - Cardinality(S \cap T)
  BY FS_Union
<1>2. Cardinality(S \cap T) = 0
  BY FS_EmptySet
<1>3. Cardinality(S) \in Nat /\ Cardinality(T) \in Nat
  BY FS_CardinalityType
<1> QED
  BY <1>1, <1>2, <1>3

(* A part that is sent again takes the place of the one sent before.       *)
LEMMA TotalReplaced ==
  ASSUME NEW parts \in [Numbers -> Nat], NEW n \in Numbers, NEW size \in Nat
  PROVE  /\ Total(parts) \in Nat /\ parts[n] <= Total(parts)
         /\ Total([parts EXCEPT ![n] = size]) = Total(parts) - parts[n] + size
<1> DEFINE new == [parts EXCEPT ![n] = size]
           Rest == {b \in BytesOf(parts) : b[1] # n}
<1>1. IsFiniteSet(Rest)
  BY BytesFinite, FS_Subset
<1>2. BytesOf(parts) = Rest \cup ({n} \X (1..parts[n])) /\ Rest \cap ({n} \X (1..parts[n])) = {}
  BY DEF BytesOf
<1>3. BytesOf(new) = Rest \cup ({n} \X (1..size)) /\ Rest \cap ({n} \X (1..size)) = {}
  <2>1. \A m \in Numbers : new[m] = IF m = n THEN size ELSE parts[m]
    OBVIOUS
  <2> HIDE DEF new
  <2> QED
    BY <2>1 DEF BytesOf
<1>4. Total(parts) = Cardinality(BytesOf(parts)) /\ Total(new) = Cardinality(BytesOf(new))
  BY DEF Total, BytesOf
<1> HIDE DEF Rest, new
<1>5. parts[n] \in Nat
  OBVIOUS
<1>6. /\ Cardinality(BytesOf(parts)) = Cardinality(Rest) + parts[n]
      /\ Cardinality(Rest) \in Nat
  <2>1. IsFiniteSet({n} \X (1..parts[n])) /\ Cardinality({n} \X (1..parts[n])) = parts[n]
    BY <1>5, PartBytes
  <2> QED
    BY <1>1, <1>2, <2>1, JoinedCardinality
<1>7. Cardinality(BytesOf(new)) = Cardinality(Rest) + size
  <2>1. IsFiniteSet({n} \X (1..size)) /\ Cardinality({n} \X (1..size)) = size
    BY PartBytes
  <2> QED
    BY <1>1, <1>3, <2>1, JoinedCardinality
<1>8. Total(new) = Total(parts) - parts[n] + size
  BY <1>4, <1>5, <1>6, <1>7
<1> QED
  BY <1>4, <1>5, <1>6, <1>8 DEF new

LEMMA NothingStaged ==
  Total(NoParts) = 0
<1>1. ASSUME NEW n \in Numbers PROVE {n} \X (1..NoParts[n]) = {}
  BY DEF NoParts
<1>2. UNION {{n} \X (1..NoParts[n]) : n \in Numbers} = {}
  BY <1>1
<1> QED
  BY <1>2, FS_EmptySet DEF Total

---------------------------------------------------------------------------
(* Uploads that are being staged                                           *)

Upload == [key : Paths, parts : [Numbers -> 0..MaxStaged], bytes : Int]

UploadsCounted ==
  /\ staged \in [Uploads -> {None} \cup Upload]
  /\ \A u \in Uploads : staged[u] # None =>
       /\ staged[u] \in Upload
       /\ staged[u].bytes = Total(staged[u].parts)
       /\ staged[u].bytes <= MaxStaged

LEMMA CreateUploadCounts ==
  ASSUME UploadsCounted, NEW u \in Uploads, NEW i \in DOMAIN Order, CreateUpload(u, Order[i])
  PROVE  UploadsCounted'
<1> DEFINE row == [key |-> Order[i], parts |-> NoParts, bytes |-> 0]
<1>1. row \in Upload
  <2>1. Order[i] \in Paths
    BY S3Assumption
  <2>2. NoParts \in [Numbers -> 0..MaxStaged]
    BY S3Assumption DEF NoParts
  <2> QED
    BY <2>1, <2>2 DEF Upload
<1>2. row.bytes = Total(row.parts) /\ row.bytes <= MaxStaged
  BY NothingStaged, S3Assumption
<1>3. staged' = [staged EXCEPT ![u] = row]
  BY DEF CreateUpload
<1> HIDE DEF row
<1> QED
  BY <1>1, <1>2, <1>3 DEF UploadsCounted

LEMMA UploadPartCounts ==
  ASSUME UploadsCounted, NEW u \in Uploads, NEW n \in Numbers, NEW size \in Sizes,
         UploadPart(u, n, size)
  PROVE  UploadsCounted'
<1> DEFINE old == staged[u]
           row == [old EXCEPT !.parts = [old.parts EXCEPT ![n] = size], !.bytes = Grown(u, n, size)]
<1>1. /\ old \in Upload /\ old.parts \in [Numbers -> 0..MaxStaged]
      /\ old.bytes = Total(old.parts) /\ old.bytes <= MaxStaged
  BY DEF UploadsCounted, UploadPart, Upload
<1>2. size \in Nat /\ MaxStaged \in Nat
  BY S3Assumption
<1>3. old.parts \in [Numbers -> Nat]
  BY <1>1, <1>2
<1>4. /\ Total(old.parts) \in Nat /\ old.parts[n] \in Nat /\ old.parts[n] <= Total(old.parts)
      /\ Total([old.parts EXCEPT ![n] = size]) = Total(old.parts) - old.parts[n] + size
  BY <1>2, <1>3, TotalReplaced
<1>5. Grown(u, n, size) = Total([old.parts EXCEPT ![n] = size]) /\ Grown(u, n, size) \in Int
  BY <1>1, <1>2, <1>4 DEF Grown
<1>6. Grown(u, n, size) <= MaxStaged
  BY DEF UploadPart
<1>7. size <= MaxStaged
  BY <1>1, <1>2, <1>4, <1>5, <1>6
<1>8. [old.parts EXCEPT ![n] = size] \in [Numbers -> 0..MaxStaged]
  BY <1>1, <1>2, <1>7
<1>9. row \in Upload
  BY <1>1, <1>5, <1>8 DEF Upload
<1>10. row.parts = [old.parts EXCEPT ![n] = size] /\ row.bytes = Grown(u, n, size)
  BY <1>1 DEF Upload
<1>11. staged' = [staged EXCEPT ![u] = row]
  BY DEF UploadPart
<1> HIDE DEF row, old
<1> QED
  BY <1>5, <1>6, <1>9, <1>10, <1>11 DEF UploadsCounted

LEMMA UploadsCountedInvariant ==
  Spec => []UploadsCounted
<1>1. Init => UploadsCounted
  BY DEF Init, UploadsCounted
<1>2. UploadsCounted /\ [Next]_vars => UploadsCounted'
  <2> SUFFICES ASSUME UploadsCounted, [Next]_vars
               PROVE  UploadsCounted'
    OBVIOUS
  <2>1. ASSUME staged' = staged PROVE UploadsCounted'
    BY <2>1 DEF UploadsCounted
  <2>2. ASSUME Request PROVE UploadsCounted'
    <3>1. ASSUME NEW i \in DOMAIN Order, Delete(Order[i]) PROVE staged' = staged
      BY <3>1 DEF Delete, s3Vars
    <3>2. ASSUME NEW i \in DOMAIN Order, Put(Order[i]) PROVE staged' = staged
      BY <3>2 DEF Put
    <3>3. ASSUME NEW i \in DOMAIN Order, NEW u \in Uploads, CreateUpload(u, Order[i])
          PROVE  UploadsCounted'
      BY <3>3, CreateUploadCounts
    <3>4. ASSUME NEW u \in Uploads, staged' = [staged EXCEPT ![u] = None] PROVE UploadsCounted'
      BY <3>4 DEF UploadsCounted
    <3>5. ASSUME NEW u \in Uploads, Abort(u) PROVE UploadsCounted'
      BY <3>4, <3>5 DEF Abort
    <3>6. ASSUME NEW u \in Uploads, NEW ns \in SUBSET Numbers, Complete(u, ns) PROVE UploadsCounted'
      BY <3>4, <3>6 DEF Complete
    <3>7. ASSUME NEW u \in Uploads, NEW n \in Numbers, NEW size \in Sizes, UploadPart(u, n, size)
          PROVE  UploadsCounted'
      BY <3>7, UploadPartCounts
    <3>8. ASSUME NEW delimiter \in Delimiters, ListFrom(delimiter) PROVE staged' = staged
      BY <3>8 DEF ListFrom
    <3>9. ASSUME ListPage PROVE staged' = staged
      BY <3>9 DEF ListPage
    <3> QED
      BY <2>1, <2>2, <3>1, <3>2, <3>3, <3>5, <3>6, <3>7, <3>8, <3>9 DEF Request
  <2>3. ASSUME Proceed PROVE staged' = staged
    BY <2>3 DEF Proceed, Parents, OpenWrite, Commit, SetMetadata, Walk, Walked, Stat, Answer
  <2>4. ASSUME Outside PROVE staged' = staged
    BY <2>4 DEF Outside, s3Vars
  <2>5. ASSUME Crash PROVE UploadsCounted'
    BY <2>5 DEF Crash, UploadsCounted
  <2>6. ASSUME UNCHANGED vars PROVE staged' = staged
    BY <2>6 DEF vars, s3Vars
  <2> QED
    BY <2>1, <2>2, <2>3, <2>4, <2>5, <2>6 DEF Next
<1> QED
  BY <1>1, <1>2, PTL DEF Spec

(* The running total of every upload is the bytes of the parts that would  *)
(* be joined, however often and in whatever order parts were sent again,   *)
(* and it never passes the limit (put_part).                               *)
THEOREM StagingIsBounded == Spec => []StagedWithinLimit
<1>1. UploadsCounted => StagedWithinLimit
  BY DEF UploadsCounted, StagedWithinLimit
<1> QED
  BY <1>1, UploadsCountedInvariant, PTL

---------------------------------------------------------------------------
(* The request that completes an upload                                    *)

RequestListed ==
  /\ DOMAIN req = DOMAIN NoRequest
  /\ req.up # None =>
       /\ req.pc \notin {"idle", "walk", "stat"}
       /\ \E u \in Uploads, ns \in SUBSET Numbers :
            req.up = <<u, ns>> /\ req.parts = Joined(acked[u], ns)

LEMMA JoinedAlike ==
  ASSUME NEW p, NEW q, NEW ns \in SUBSET Numbers, \A n \in ns : p[n] = q[n]
  PROVE  Joined(p, ns) = Joined(q, ns)
<1>1. ns \in SUBSET Nat /\ IsFiniteSet(ns)
  BY S3Assumption, FS_Subset
<1>2. \A i \in 1..Cardinality(ns) : Ascending(ns)[i] \in ns
  BY <1>1, AscendingLists
<1>3. \A i \in 1..Cardinality(ns) : p[Ascending(ns)[i]] = q[Ascending(ns)[i]]
  BY <1>2
<1> QED
  BY <1>3 DEF Joined

LEMMA RequestListedInvariant ==
  Spec => []RequestListed
<1>1. Init => RequestListed
  BY DEF Init, RequestListed, NoRequest
<1>2. RequestListed /\ [Next]_vars => RequestListed'
  <2> SUFFICES ASSUME RequestListed, [Next]_vars
               PROVE  RequestListed'
    OBVIOUS
  <2>1. ASSUME req' = req, acked' = acked \/ req.pc = "idle" PROVE RequestListed'
    BY <2>1 DEF RequestListed
  <2>2. ASSUME End PROVE RequestListed'
    BY <2>2 DEF End, RequestListed, NoRequest
  <2>3. ASSUME NEW pc \in {"openwrite", "commit", "setmeta"}, acked' = acked,
               Goto(pc) \/ \E node : req' = [req EXCEPT !.pc = pc, !.node = node]
        PROVE  RequestListed'
    <3>1. /\ DOMAIN req' = DOMAIN req /\ req'.up = req.up /\ req'.parts = req.parts
          /\ req'.pc = pc
      BY <2>3 DEF Goto, RequestListed, NoRequest
    <3>2. req'.pc \notin {"idle", "walk", "stat"}
      BY <3>1
    <3> QED
      BY <2>3, <3>1, <3>2 DEF RequestListed
  <2>9. ASSUME DOMAIN req' = DOMAIN NoRequest, req'.up = None PROVE RequestListed'
    BY <2>9 DEF RequestListed
  <2>4. ASSUME Request PROVE RequestListed'
    <3>1. ASSUME NEW i \in DOMAIN Order, Delete(Order[i]) PROVE RequestListed'
      BY <2>1, <3>1 DEF Delete, s3Vars
    <3>2. ASSUME NEW i \in DOMAIN Order, Put(Order[i]) PROVE RequestListed'
      BY <3>2 DEF Put, Begin, NoRequest, RequestListed
    <3>3. ASSUME NEW i \in DOMAIN Order, NEW u \in Uploads, CreateUpload(u, Order[i])
          PROVE  RequestListed'
      BY <2>1, <3>3 DEF CreateUpload
    <3>4. ASSUME NEW u \in Uploads, Abort(u) PROVE RequestListed'
      BY <2>1, <3>4 DEF Abort
    <3>5. ASSUME NEW u \in Uploads, NEW ns \in SUBSET Numbers, Complete(u, ns) PROVE RequestListed'
      <4>1. Joined(staged[u].parts, ns) = Joined(acked[u], ns)
        BY <3>5, JoinedAlike DEF Complete, Listable
      <4>2. /\ DOMAIN req' = DOMAIN NoRequest /\ req'.pc = "parents" /\ req'.up = <<u, ns>>
            /\ req'.parts = Joined(staged[u].parts, ns)
        BY <3>5 DEF Complete, Begin, NoRequest
      <4>3. acked' = acked
        BY <3>5 DEF Complete
      <4> QED
        BY <4>1, <4>2, <4>3 DEF RequestListed
    <3>6. ASSUME NEW u \in Uploads, NEW n \in Numbers, NEW size \in Sizes, UploadPart(u, n, size)
          PROVE  RequestListed'
      BY <2>1, <3>6 DEF UploadPart, At
    <3>7. ASSUME NEW delimiter \in Delimiters, ListFrom(delimiter) PROVE RequestListed'
      BY <2>1, <3>7 DEF ListFrom
    <3>8. ASSUME ListPage PROVE RequestListed'
      BY <2>9, <3>8 DEF ListPage, NoRequest
    <3> QED
      BY <2>4, <3>1, <3>2, <3>3, <3>4, <3>5, <3>6, <3>7, <3>8 DEF Request
  <2>5. ASSUME Proceed PROVE RequestListed'
    <3>1. ASSUME Parents PROVE RequestListed'
      BY <2>2, <2>3, <3>1 DEF Parents
    <3>2. ASSUME OpenWrite PROVE RequestListed'
      BY <2>2, <2>3, <3>2 DEF OpenWrite
    <3>3. ASSUME Commit PROVE RequestListed'
      BY <2>2, <2>3, <3>3 DEF Commit
    <3>4. ASSUME SetMetadata PROVE RequestListed'
      BY <2>2, <3>4 DEF SetMetadata
    <3>5. ASSUME At("walk") \/ At("stat") PROVE req.up = None
      BY <3>5 DEF At, RequestListed
    <3>6. ASSUME Walk PROVE RequestListed'
      BY <2>9, <3>5, <3>6 DEF Walk, RequestListed, NoRequest
    <3>7. ASSUME Walked PROVE RequestListed'
      BY <2>9, <3>5, <3>7 DEF Walked, RequestListed, NoRequest
    <3>8. ASSUME Stat PROVE RequestListed'
      BY <2>2, <2>9, <3>5, <3>8 DEF Stat, RequestListed, NoRequest
    <3>9. ASSUME Answer PROVE RequestListed'
      BY <2>2, <3>9 DEF Answer
    <3> QED
      BY <2>5, <3>1, <3>2, <3>3, <3>4, <3>6, <3>7, <3>8, <3>9 DEF Proceed
  <2>6. ASSUME Outside PROVE RequestListed'
    BY <2>1, <2>6 DEF Outside, s3Vars
  <2>7. ASSUME Crash PROVE RequestListed'
    BY <2>2, <2>7 DEF Crash
  <2>8. ASSUME UNCHANGED vars PROVE RequestListed'
    BY <2>1, <2>8 DEF vars, s3Vars
  <2> QED
    BY <2>4, <2>5, <2>6, <2>7, <2>8 DEF Next
<1> QED
  BY <1>1, <1>2, PTL DEF Spec

(* An upload becomes an object only of the parts its client listed, in     *)
(* their order and with the content whose etags the client was given,      *)
(* though answers were lost and parts sent again (complete).               *)
THEOREM CompletionIsFaithful == Spec => []CompletedAsListed
<1>1. RequestListed => CompletedAsListed
  BY DEF RequestListed, CompletedAsListed
<1> QED
  BY <1>1, RequestListedInvariant, PTL

---------------------------------------------------------------------------
(* Pages                                                                   *)

LEMMA ObjectsFinite ==
  ASSUME NEW items \in SUBSET DOMAIN Order
  PROVE  IsFiniteSet(items) /\ items \in SUBSET Nat
<1>1. DOMAIN Order = 1..Len(Order) /\ Len(Order) \in Int
  BY S3Assumption
<1>2. IsFiniteSet(DOMAIN Order)
  BY <1>1, FS_Interval
<1> QED
  BY <1>1, <1>2, FS_Subset

(* A page is a beginning of what is left, and not empty while any is left. *)
LEMMA PageBegins ==
  ASSUME NEW items \in SUBSET DOMAIN Order
  PROVE  /\ PageOf(items) \in SUBSET items
         /\ items # {} => PageOf(items) # {}
         /\ \A i \in items : \A j \in PageOf(items) : i <= j => i \in PageOf(items)
<1>1. IsFiniteSet(items) /\ items \in SUBSET Nat
  BY ObjectsFinite
<1>2. PageOf(items) = {i \in items : Rank(items, i) < MaxKeys}
  BY DEF PageOf, Rank
<1>3. MaxKeys \in Nat \ {0}
  BY S3Assumption
<1>4. ASSUME items # {} PROVE PageOf(items) # {}
  BY <1>1, <1>2, <1>3, <1>4, FirstAndLast
<1>5. ASSUME NEW i \in items, NEW j \in PageOf(items), i <= j PROVE i \in PageOf(items)
  <2>1. j \in items /\ Rank(items, j) < MaxKeys
    BY <1>2
  <2>2. Rank(items, i) \in Nat /\ Rank(items, j) \in Nat
    <3>1. Rank(items, i) \in 0..(Cardinality(items) - 1)
          /\ Rank(items, j) \in 0..(Cardinality(items) - 1)
      BY <1>1, <2>1, RanksAreDistinct
    <3> QED
      BY <3>1
  <2>3. i = j \/ i < j
    BY <1>1, <1>5, <2>1
  <2>4. Rank(items, i) <= Rank(items, j)
    BY <1>1, <2>1, <2>2, <2>3, RanksAreDistinct
  <2> QED
    BY <1>2, <1>3, <2>1, <2>2, <2>4
<1> QED
  BY <1>2, <1>4, <1>5

(* Without a delimiter what is left are the keys past the marker.          *)
LEMMA PlainItems ==
  ASSUME NEW found \in SUBSET DOMAIN Order, NEW marker \in Nat
  PROVE  Items(found, marker, FALSE) = {i \in found : i > marker}
<1>1. ASSUME NEW i \in found, NEW j \in found, j < i
      PROVE  Group(j, FALSE) # Group(i, FALSE)
  <2>1. i \in DOMAIN Order /\ j \in DOMAIN Order
    OBVIOUS
  <2>2. i # j
    BY <1>1, <2>1, S3Assumption
  <2> QED
    BY <2>1, <2>2, S3Assumption DEF Group
<1> QED
  BY <1>1 DEF Items

---------------------------------------------------------------------------
(* A walk through the containers                                           *)

(* Of what is between a path and a key below it, the next is in the path.  *)
LEMMA NextBelow ==
  ASSUME NEW k \in Paths, NEW p \in Above(k)
  PROVE  \E r \in Paths : /\ r # Root /\ Parent(r) = p
                          /\ r = k \/ r \in Above(k)
<1>1. /\ p \in Paths /\ p # k /\ k \in Seq(Names) /\ p \in Seq(Names)
      /\ Len(p) \in Nat /\ Len(k) \in Nat /\ Len(p) <= Len(k)
      /\ \A i \in 1..Len(p) : k[i] = p[i]
  BY PathAssumption DEF Above, Within
<1>2. Len(p) # Len(k)
  <2>1. ASSUME Len(p) = Len(k) PROVE p = k
    BY <1>1, <2>1, SeqEqual
  <2> QED
    BY <1>1, <2>1
<1>3. Len(p) + 1 \in 1..Len(k) /\ Len(p) + 1 \in 0..Len(k)
  BY <1>1, <1>2
<1> DEFINE r == SubSeq(k, 1, Len(p) + 1)
<1>4. r \in Paths
  BY <1>1, <1>3, PathAssumption
<1>5. /\ r \in Seq(Names) /\ Len(r) = Len(p) + 1
      /\ \A i \in 1..(Len(p) + 1) : r[i] = k[i]
  BY <1>1, <1>3, SubSeqProperties
<1>6. r # Root
  BY <1>1, <1>5 DEF Root
<1>7. Parent(r) = p
  <2>1. Parent(r) = SubSeq(r, 1, Len(p))
    BY <1>1, <1>5 DEF Parent
  <2>2. /\ SubSeq(r, 1, Len(p)) \in Seq(Names) /\ Len(SubSeq(r, 1, Len(p))) = Len(p)
        /\ \A i \in 1..Len(p) : SubSeq(r, 1, Len(p))[i] = r[i]
    BY <1>1, <1>5, SubSeqProperties
  <2>3. \A i \in 1..Len(p) : SubSeq(r, 1, Len(p))[i] = p[i]
    BY <1>1, <1>5, <2>2
  <2> QED
    BY <1>1, <2>1, <2>2, <2>3, SeqEqual
<1>8. Within(k, r)
  BY <1>1, <1>3, <1>5 DEF Within
<1> QED
  BY <1>4, <1>6, <1>7, <1>8 DEF Above

---------------------------------------------------------------------------
(* A listing without a delimiter                                           *)

ListerPlain ==
  /\ lister.marker \in Nat
  /\ lister.got \in Seq(Paths)
  /\ \A k, l \in DOMAIN lister.got : lister.got[k] = lister.got[l] => k = l
  /\ ~lister.done => \A k \in DOMAIN lister.got : \E i \in DOMAIN Order :
       i <= lister.marker /\ lister.got[k] = Order[i]
  /\ \A i \in always : lister.done \/ i <= lister.marker =>
       \E k \in DOMAIN lister.got : lister.got[k] = Order[i]

(* What was there all along is found, or a container above it is yet to be *)
(* walked.                                                                 *)
WalkKept ==
  /\ DOMAIN req = DOMAIN NoRequest
  /\ At("walk") \/ At("stat") =>
       /\ req.found \in SUBSET DOMAIN Order
       /\ \A i \in always : i \in req.found \/ (At("walk") /\ req.todo \cap Above(Order[i]) # {})

ListerKept ==
  /\ DOMAIN lister = DOMAIN NoLister
  /\ lister.delimiter \in BOOLEAN /\ lister.done \in BOOLEAN
  /\ always \in SUBSET DOMAIN Order
  /\ At("walk") \/ At("stat") => ~lister.done
  /\ WalkKept
  /\ ~lister.delimiter => ListerPlain

(* The lister stays: of what was always there some may go.                 *)
LEMMA ListerStays ==
  ASSUME ListerKept, Witness, lister' = lister
  PROVE  /\ always' \in SUBSET always
         /\ ~lister.delimiter => ListerPlain'
<1>1. always' \in SUBSET always
  BY DEF Witness
<1>2. ASSUME ~lister.delimiter PROVE ListerPlain'
  <2>1. ListerPlain
    BY <1>2 DEF ListerKept
  <2> QED
    BY <1>1, <2>1 DEF ListerPlain
<1> QED
  BY <1>1, <1>2

LEMMA OthersKeep ==
  ASSUME ListerKept, Witness, lister' = lister,
         \/ req' = req
         \/ DOMAIN req' = DOMAIN NoRequest /\ req'.pc \notin {"walk", "stat"}
  PROVE  ListerKept'
<1>1. always' \in SUBSET always /\ (~lister.delimiter => ListerPlain')
  BY ListerStays
<1>2. WalkKept'
  BY <1>1 DEF ListerKept, WalkKept, At
<1> QED
  BY <1>1, <1>2 DEF ListerKept, At

LEMMA ListFromKept ==
  ASSUME ListerKept, Witness, NEW delimiter \in Delimiters, ListFrom(delimiter)
  PROVE  ListerKept'
<1>1. delimiter \in BOOLEAN
  BY S3Assumption
<1>2. /\ DOMAIN lister' = DOMAIN NoLister /\ lister'.delimiter = delimiter
      /\ lister'.done = FALSE /\ lister'.marker = 0 /\ lister'.got = <<>>
      /\ req' = req /\ req.pc = "idle"
  BY DEF ListFrom, NoLister, At
<1>3. \A i \in DOMAIN Order : ~(i <= 0)
  BY S3Assumption
<1>4. always' \in SUBSET DOMAIN Order
  BY DEF Witness, ListerKept
<1>5. ListerPlain'
  BY <1>2, <1>3, <1>4 DEF ListerPlain
<1>6. WalkKept'
  BY <1>2 DEF ListerKept, WalkKept, At
<1> QED
  BY <1>1, <1>2, <1>4, <1>5, <1>6 DEF ListerKept, At

LEMMA RootAbove ==
  ASSUME NEW i \in DOMAIN Order
  PROVE  Root \in Above(Order[i]) /\ Order[i] \in Paths
<1>1. Order[i] \in Paths \ {Root}
  BY S3Assumption
<1>2. Len(Order[i]) \in Nat
  BY <1>1, PathAssumption
<1>3. Within(Order[i], Root)
  BY <1>2 DEF Within, Root
<1> QED
  BY <1>1, <1>3, PathAssumption DEF Above

LEMMA ListPageKept ==
  ASSUME ListerKept, Witness, ListPage
  PROVE  ListerKept'
<1>1. /\ DOMAIN req' = DOMAIN NoRequest /\ req'.pc = "walk" /\ req'.todo = {Root}
      /\ req'.found = {} /\ lister' = lister /\ ~lister.done
  BY DEF ListPage, NoRequest
<1>2. always' \in SUBSET always /\ (~lister.delimiter => ListerPlain') /\ always \in SUBSET DOMAIN Order
  BY <1>1, ListerStays DEF ListerKept
<1>3. WalkKept'
  BY <1>1, <1>2, RootAbove DEF WalkKept, At
<1> QED
  BY <1>1, <1>2, <1>3 DEF ListerKept, At

LEMMA WalkStepKept ==
  ASSUME ListerKept, Witness, Walk
  PROVE  ListerKept'
<1>1. PICK p \in req.todo :
        req' = [req EXCEPT !.todo = (@ \ {p}) \cup {q \in Inside(p) : IsDir(q)},
                           !.found = @ \cup {i \in Objects : Order[i] \in Inside(p)}]
  BY DEF Walk
<1>2. /\ DOMAIN req = DOMAIN NoRequest /\ req.pc = "walk" /\ lister' = lister /\ tree' = tree
      /\ req.found \in SUBSET DOMAIN Order /\ always \in SUBSET DOMAIN Order
      /\ \A i \in always : i \in req.found \/ req.todo \cap Above(Order[i]) # {}
  BY DEF Walk, ListerKept, WalkKept, At
<1>3. /\ DOMAIN req' = DOMAIN NoRequest /\ req'.pc = "walk"
      /\ req'.todo = (req.todo \ {p}) \cup {q \in Inside(p) : IsDir(q)}
      /\ req'.found = req.found \cup {i \in Objects : Order[i] \in Inside(p)}
  BY <1>1, <1>2 DEF NoRequest
<1>4. always' \in SUBSET always /\ (~lister.delimiter => ListerPlain')
  BY <1>2, ListerStays
<1>5. always' \in SUBSET Present
  <2>1. Present' = Present
    BY <1>2 DEF Present, Objects, IsDoc, IsDir, Exists
  <2> QED
    BY <2>1 DEF Witness
<1>6. ASSUME NEW i \in always' PROVE i \in req'.found \/ req'.todo \cap Above(Order[i]) # {}
  <2>1. /\ i \in DOMAIN Order /\ i \in Objects /\ \A q \in Above(Order[i]) : IsDir(q)
        /\ i \in req.found \/ req.todo \cap Above(Order[i]) # {}
    BY <1>2, <1>4, <1>5, <1>6 DEF Present
  <2>2. CASE i \in req.found
    BY <1>3, <2>2
  <2>3. CASE req.todo \cap Above(Order[i]) # {}
    <3>1. PICK q \in req.todo \cap Above(Order[i]) : TRUE
      BY <2>3
    <3>2. CASE q # p
      BY <1>3, <3>1, <3>2
    <3>3. CASE q = p
      <4>1. PICK r \in Paths : r # Root /\ Parent(r) = p /\ (r = Order[i] \/ r \in Above(Order[i]))
        BY <2>1, <3>1, <3>3, RootAbove, NextBelow
      <4>2. CASE r = Order[i]
        <5>1. Order[i] \in Inside(p)
          BY <2>1, <4>1, <4>2 DEF Inside, Objects, IsDoc
        <5> QED
          BY <1>3, <2>1, <5>1
      <4>3. CASE r \in Above(Order[i])
        <5>1. IsDir(r)
          BY <2>1, <4>3
        <5>2. r \in Inside(p)
          BY <4>1, <5>1 DEF Inside, IsDir
        <5> QED
          BY <1>3, <4>3, <5>1, <5>2
      <4> QED
        BY <4>1, <4>2, <4>3
    <3> QED
      BY <3>2, <3>3
  <2> QED
    BY <2>1, <2>2, <2>3
<1>7. req'.found \in SUBSET DOMAIN Order
  BY <1>2, <1>3 DEF Objects
<1>8. WalkKept'
  BY <1>3, <1>6, <1>7 DEF WalkKept, At
<1> QED
  BY <1>2, <1>3, <1>4, <1>8 DEF ListerKept, At

LEMMA WalkedKept ==
  ASSUME ListerKept, Witness, Walked \/ Stat
  PROVE  ListerKept'
<1>1. \/ req' = NoRequest
      \/ /\ DOMAIN req' = DOMAIN NoRequest /\ req'.pc = "stat" /\ req'.found = req.found
         /\ At("stat") \/ (At("walk") /\ req.todo = {})
  BY DEF Walked, Stat, End, ListerKept, WalkKept, NoRequest, At
<1>2. lister' = lister
  BY DEF Walked, Stat
<1>3. CASE req' = NoRequest
  BY <1>2, <1>3, OthersKeep DEF NoRequest
<1>4. CASE req' # NoRequest
  <2>1. always' \in SUBSET always /\ (~lister.delimiter => ListerPlain')
    BY <1>2, ListerStays
  <2>2. WalkKept'
    BY <1>1, <1>4, <2>1 DEF ListerKept, WalkKept, At
  <2> QED
    BY <1>1, <1>2, <1>4, <2>1, <2>2 DEF ListerKept, At
<1> QED
  BY <1>3, <1>4

LEMMA AnswerKept ==
  ASSUME ListerKept, Witness, Answer
  PROVE  ListerKept'
<1> DEFINE items == Items(req.found, lister.marker, lister.delimiter)
           page == PageOf(items)
           add == [i \in 1..Cardinality(page) |-> Group(Ascending(page)[i], lister.delimiter)]
<1>1. lister' = [lister EXCEPT !.got = @ \o add,
                   !.marker = IF items = page THEN @ ELSE NextMarker(items, page, lister.delimiter),
                   !.done = (items = page)]
  BY DEF Answer, ItemsFound
<1>2. /\ DOMAIN lister' = DOMAIN NoLister /\ lister'.delimiter = lister.delimiter
      /\ lister'.done = (items = page) /\ lister'.got = lister.got \o add
      /\ lister'.on = lister.on
      /\ lister'.marker = IF items = page THEN lister.marker
                          ELSE NextMarker(items, page, lister.delimiter)
  <2> HIDE DEF items, page, add
  <2> QED
    BY <1>1 DEF ListerKept, NoLister
<1>3. /\ ~lister.done /\ req.found \in SUBSET DOMAIN Order /\ always \in SUBSET req.found
      /\ req' = NoRequest /\ req'.pc = "idle"
  BY DEF Answer, End, ListerKept, WalkKept, At, NoRequest
<1>6. always' \in SUBSET always
  BY <1>2 DEF Witness
<1>4. ASSUME ~lister.delimiter PROVE ListerPlain'
  <2>1. ListerPlain /\ lister.delimiter = FALSE
    BY <1>4 DEF ListerKept
  <2> DEFINE m == lister.marker
             got == lister.got
  <2>2. m \in Nat /\ got \in Seq(Paths) /\ always \in SUBSET DOMAIN Order
    BY <2>1 DEF ListerPlain, ListerKept
  <2>3. items = {i \in req.found : i > m}
    BY <1>3, <2>1, <2>2, PlainItems
  <2>4. items \in SUBSET DOMAIN Order
    BY <1>3, <2>3
  <2> HIDE DEF items
  <2>5. /\ page \in SUBSET items /\ (items # {} => page # {})
        /\ \A i \in items : \A j \in page : i <= j => i \in page
    BY <2>4, PageBegins
  <2> HIDE DEF page
  <2>6. page \in SUBSET DOMAIN Order /\ page \in SUBSET Nat /\ IsFiniteSet(page)
    BY <2>4, <2>5, ObjectsFinite
  <2>7. Cardinality(page) \in Nat
    BY <2>6, FS_CardinalityType
  <2>8. /\ \A i \in 1..Cardinality(page) :
             Ascending(page)[i] \in page /\ Rank(page, Ascending(page)[i]) = i - 1
        /\ \A n \in page : \E i \in 1..Cardinality(page) : Ascending(page)[i] = n
    BY <2>6, AscendingLists
  <2>9. add = [i \in 1..Cardinality(page) |-> Order[Ascending(page)[i]]]
    BY <2>1 DEF Group
  <2> HIDE DEF add
  <2>10. \A j \in DOMAIN Order : Order[j] \in Paths
    BY S3Assumption
  <2>11. add \in Seq(Paths) /\ Len(add) = Cardinality(page) /\ DOMAIN add = 1..Cardinality(page)
    <3>1. \A i \in 1..Cardinality(page) : Order[Ascending(page)[i]] \in Paths
      BY <2>6, <2>8, <2>10
    <3>2. add \in [1..Cardinality(page) -> Paths]
      BY <2>9, <3>1
    <3> QED
      BY <2>7, <3>2
  <2>12. \A k \in DOMAIN add : \E j \in page : add[k] = Order[j]
    BY <2>8, <2>9, <2>11
  <2>13. ASSUME NEW k \in DOMAIN add, NEW l \in DOMAIN add, add[k] = add[l] PROVE k = l
    <3>1. Ascending(page)[k] \in DOMAIN Order /\ Ascending(page)[l] \in DOMAIN Order
      BY <2>6, <2>8, <2>11
    <3>2. Ascending(page)[k] = Ascending(page)[l]
      BY <2>9, <2>11, <2>13, <3>1, S3Assumption
    <3>3. k - 1 = l - 1 /\ k \in Int /\ l \in Int
      BY <2>8, <2>11, <3>2
    <3> QED
      BY <3>3
  <2>14. \A n \in page : \E k \in DOMAIN add : add[k] = Order[n]
    BY <2>8, <2>9, <2>11
  <2> DEFINE all == got \o add
  <2>15. /\ all \in Seq(Paths)
         /\ DOMAIN all = 1..(Len(got) + Len(add))
         /\ \A k \in 1..Len(got) : all[k] = got[k]
         /\ \A k \in 1..Len(add) : all[Len(got) + k] = add[k]
         /\ Len(got) \in Nat /\ Len(add) \in Nat
         /\ DOMAIN got = 1..Len(got) /\ DOMAIN add = 1..Len(add)
    BY <2>2, <2>11
  <2> HIDE DEF all
  <2>16. \A k \in DOMAIN all : k \in 1..Len(got) \/ (k - Len(got) \in 1..Len(add)
            /\ all[k] = add[k - Len(got)])
    BY <2>15
  <2>17. ASSUME NEW k \in 1..Len(got), NEW l \in 1..Len(add) PROVE got[k] # add[l]
    <3>1. PICK i \in DOMAIN Order : i <= m /\ got[k] = Order[i]
      BY <1>3, <2>1, <2>15 DEF ListerPlain
    <3>2. PICK j \in page : add[l] = Order[j]
      BY <2>12, <2>15
    <3>3. j > m /\ j \in DOMAIN Order
      BY <2>3, <2>5, <2>6, <3>2
    <3>4. i # j
      BY <2>2, <3>1, <3>3, S3Assumption
    <3> QED
      BY <3>1, <3>2, <3>3, <3>4, S3Assumption
  <2>18. ASSUME NEW k \in DOMAIN all, NEW l \in DOMAIN all, all[k] = all[l] PROVE k = l
    <3>1. CASE k \in 1..Len(got) /\ l \in 1..Len(got)
      BY <2>1, <2>15, <2>18, <3>1 DEF ListerPlain
    <3>2. CASE k \in 1..Len(got) /\ l \notin 1..Len(got)
      BY <2>15, <2>16, <2>17, <2>18, <3>2
    <3>3. CASE k \notin 1..Len(got) /\ l \in 1..Len(got)
      BY <2>15, <2>16, <2>17, <2>18, <3>3
    <3>4. CASE k \notin 1..Len(got) /\ l \notin 1..Len(got)
      <4>1. k - Len(got) = l - Len(got)
        BY <2>13, <2>15, <2>16, <2>18, <3>4
      <4> QED
        BY <2>15, <4>1
    <3> QED
      BY <3>1, <3>2, <3>3, <3>4
  <2>19. \A n \in page : \E k \in DOMAIN all : all[k] = Order[n]
    <3>1. ASSUME NEW n \in page PROVE \E k \in DOMAIN all : all[k] = Order[n]
      <4>1. PICK k \in 1..Len(add) : add[k] = Order[n]
        BY <2>14, <2>15
      <4>2. Len(got) + k \in DOMAIN all /\ all[Len(got) + k] = Order[n]
        BY <2>15, <4>1
      <4> QED
        BY <4>2
    <3> QED
      BY <3>1
  <2>20. ASSUME NEW i \in always, i <= m PROVE \E k \in DOMAIN all : all[k] = Order[i]
    <3>1. PICK k \in DOMAIN got : got[k] = Order[i]
      BY <2>1, <2>20 DEF ListerPlain
    <3>2. k \in DOMAIN all /\ all[k] = Order[i]
      BY <2>15, <3>1
    <3> QED
      BY <3>2
  <2>21. \A i \in always : i \in DOMAIN Order /\ i \in Nat /\ (i <= m \/ i \in items)
    BY <1>3, <2>2, <2>3, S3Assumption
  <2>22. lister'.got = all
    BY <1>2 DEF all
  <2>23. CASE items = page
    <3>1. lister'.done /\ lister'.marker = m
      BY <1>2, <2>23
    <3> QED
      BY <1>6, <2>2, <2>15, <2>18, <2>19, <2>20, <2>21, <2>22, <2>23, <3>1 DEF ListerPlain
  <2>24. CASE items # page
    <3>1. page # {}
      BY <2>5, <2>24
    <3>2. Max(page) \in page /\ \A n \in page : n <= Max(page)
      BY <2>6, <3>1, FirstAndLast
    <3>3. lister'.marker = Max(page) /\ ~lister'.done
      BY <1>2, <2>1, <2>24 DEF NextMarker
    <3>4. Max(page) \in Nat /\ Max(page) > m
      BY <2>3, <2>5, <2>6, <3>2
    <3>5. ASSUME NEW k \in DOMAIN all
          PROVE  \E i \in DOMAIN Order : i <= Max(page) /\ all[k] = Order[i]
      <4>1. CASE k \in 1..Len(got)
        <5>1. PICK i \in DOMAIN Order : i <= m /\ got[k] = Order[i]
          BY <1>3, <2>1, <2>15, <4>1 DEF ListerPlain
        <5>2. i \in Nat
          BY S3Assumption
        <5>3. i <= Max(page) /\ all[k] = Order[i]
          BY <2>2, <2>15, <3>4, <4>1, <5>1, <5>2
        <5> QED
          BY <5>3
      <4>2. CASE k \notin 1..Len(got)
        <5>1. k - Len(got) \in DOMAIN add /\ all[k] = add[k - Len(got)]
          BY <2>15, <2>16, <4>2
        <5>2. PICK j \in page : add[k - Len(got)] = Order[j]
          BY <2>12, <5>1
        <5> QED
          BY <2>6, <3>2, <5>1, <5>2
      <4> QED
        BY <4>1, <4>2
    <3>6. ASSUME NEW i \in always, i <= Max(page)
          PROVE  \E k \in DOMAIN all : all[k] = Order[i]
      <4>1. CASE i <= m
        BY <2>20, <4>1
      <4>2. CASE i \in items
        <5>1. i \in page
          BY <2>5, <3>2, <3>6, <4>2
        <5> QED
          BY <2>19, <5>1
      <4> QED
        BY <2>21, <4>1, <4>2
    <3> QED
      BY <1>6, <2>2, <2>15, <2>18, <2>22, <3>3, <3>4, <3>5, <3>6 DEF ListerPlain
  <2> QED
    BY <2>23, <2>24
<1>5. lister'.done \in BOOLEAN /\ lister'.delimiter \in BOOLEAN
  BY <1>2 DEF ListerKept
<1>7. WalkKept'
  BY <1>3 DEF WalkKept, At
<1> QED
  BY <1>2, <1>3, <1>4, <1>5, <1>6, <1>7 DEF ListerKept, At

LEMMA ListerKeptInvariant ==
  Spec => []ListerKept
<1>1. Init => ListerKept
  BY S3Assumption DEF Init, ListerKept, ListerPlain, WalkKept, NoLister, NoRequest, At
<1>2. ListerKept /\ [Next]_vars => ListerKept'
  <2> SUFFICES ASSUME ListerKept, [Next]_vars
               PROVE  ListerKept'
    OBVIOUS
  <2>1. CASE UNCHANGED vars
    BY <2>1 DEF vars, s3Vars, ListerKept, ListerPlain, WalkKept, At
  <2>2. CASE Next
    <3>1. Witness
      BY <2>2 DEF Next
    <3>2. ASSUME lister' = lister,
                 \/ req' = req
                 \/ DOMAIN req' = DOMAIN NoRequest /\ req'.pc \notin {"walk", "stat"}
          PROVE  ListerKept'
      BY <3>1, <3>2, OthersKeep
    <3>3. ASSUME Request PROVE ListerKept'
      <4>1. ASSUME NEW i \in DOMAIN Order, Delete(Order[i]) PROVE ListerKept'
        BY <3>2, <4>1 DEF Delete, s3Vars
      <4>2. ASSUME NEW i \in DOMAIN Order, Put(Order[i]) PROVE ListerKept'
        <5>1. DOMAIN req' = DOMAIN NoRequest /\ req'.pc = "parents" /\ lister' = lister
          BY <4>2 DEF Put, Begin, NoRequest
        <5> QED
          BY <3>2, <5>1
      <4>3. ASSUME NEW i \in DOMAIN Order, NEW u \in Uploads, CreateUpload(u, Order[i])
            PROVE  ListerKept'
        BY <3>2, <4>3 DEF CreateUpload
      <4>4. ASSUME NEW u \in Uploads, Abort(u) PROVE ListerKept'
        BY <3>2, <4>4 DEF Abort
      <4>5. ASSUME NEW u \in Uploads, NEW ns \in SUBSET Numbers, Complete(u, ns) PROVE ListerKept'
        <5>1. DOMAIN req' = DOMAIN NoRequest /\ req'.pc = "parents" /\ lister' = lister
          BY <4>5 DEF Complete, Begin, NoRequest
        <5> QED
          BY <3>2, <5>1
      <4>6. ASSUME NEW u \in Uploads, NEW n \in Numbers, NEW size \in Sizes, UploadPart(u, n, size)
            PROVE  ListerKept'
        BY <3>2, <4>6 DEF UploadPart
      <4>7. ASSUME NEW delimiter \in Delimiters, ListFrom(delimiter) PROVE ListerKept'
        BY <3>1, <4>7, ListFromKept
      <4>8. ASSUME ListPage PROVE ListerKept'
        BY <3>1, <4>8, ListPageKept
      <4> QED
        BY <3>3, <4>1, <4>2, <4>3, <4>4, <4>5, <4>6, <4>7, <4>8 DEF Request
    <3>4. DOMAIN req = DOMAIN NoRequest
      BY DEF ListerKept, WalkKept
    <3>5. ASSUME Parents \/ OpenWrite \/ Commit \/ SetMetadata PROVE ListerKept'
      <4>1. ASSUME lister' = lister, End PROVE ListerKept'
        BY <3>2, <4>1 DEF End, NoRequest
      <4>2. ASSUME lister' = lister, NEW pc \in {"openwrite", "commit", "setmeta"},
                   Goto(pc) \/ \E node : req' = [req EXCEPT !.pc = pc, !.node = node]
            PROVE  ListerKept'
        <5>1. DOMAIN req' = DOMAIN NoRequest /\ req'.pc = pc
          BY <3>4, <4>2 DEF Goto, NoRequest
        <5> QED
          BY <3>2, <4>2, <5>1
      <4>3. ASSUME Parents PROVE ListerKept'
        BY <4>1, <4>2, <4>3 DEF Parents
      <4>4. ASSUME OpenWrite PROVE ListerKept'
        BY <4>1, <4>2, <4>4 DEF OpenWrite
      <4>5. ASSUME Commit PROVE ListerKept'
        BY <4>1, <4>2, <4>5 DEF Commit
      <4>6. ASSUME SetMetadata PROVE ListerKept'
        BY <4>1, <4>6 DEF SetMetadata
      <4> QED
        BY <3>5, <4>3, <4>4, <4>5, <4>6
    <3>6. ASSUME Proceed PROVE ListerKept'
      BY <3>1, <3>5, <3>6, WalkStepKept, WalkedKept, AnswerKept DEF Proceed
    <3>7. ASSUME Outside PROVE ListerKept'
      BY <3>2, <3>7 DEF Outside, s3Vars
    <3>8. ASSUME Crash PROVE ListerKept'
      BY <3>2, <3>8 DEF Crash, End, NoRequest
    <3> QED
      BY <2>2, <3>3, <3>6, <3>7, <3>8 DEF Next
  <2> QED
    BY <2>1, <2>2
<1> QED
  BY <1>1, <1>2, PTL DEF Spec

(* However the keys change between its pages, and between the transactions *)
(* of one, a listing without a delimiter names no key twice, and every key *)
(* that was there all along exactly once (_walk, _do_list).                *)
THEOREM ListingIsComplete == Spec => []PagesComplete
<1>1. ListerKept => PagesComplete
  <2> SUFFICES ASSUME ListerKept, ~lister.delimiter, NEW i \in DOMAIN Order
               PROVE  /\ Listed(Order[i]) <= 1
                      /\ lister.done /\ i \in always => Listed(Order[i]) = 1
    BY DEF PagesComplete
  <2> DEFINE here == {k \in DOMAIN lister.got : lister.got[k] = Order[i]}
  <2>1. ListerPlain
    BY DEF ListerKept
  <2>2. \A k, l \in here : k = l
    BY <2>1 DEF ListerPlain
  <2>3. Listed(Order[i]) = Cardinality(here)
    BY DEF Listed
  <2>4. lister.done /\ i \in always => here # {}
    BY <2>1 DEF ListerPlain
  <2> HIDE DEF here
  <2>5. CASE here = {}
    BY <2>3, <2>4, <2>5, FS_EmptySet
  <2>6. CASE here # {}
    <3>1. PICK k \in here : here = {k}
      BY <2>2, <2>6
    <3>2. Cardinality(here) = 1
      BY <3>1, FS_Singleton
    <3> QED
      BY <2>3, <3>2
  <2> QED
    BY <2>5, <2>6
<1> QED
  BY <1>1, ListerKeptInvariant, PTL
====
