---- MODULE FuseProofs ----
(***************************************************************************)
(* Theorems about the FUSE frontend (FuseFiles.tla): the inodes the kernel *)
(* refers to, the one truth of a file, and what close(2) makes durable.    *)
(***************************************************************************)
EXTENDS FuseFiles, TLAPS, FiniteSetTheorems, SequenceTheorems

---------------------------------------------------------------------------
(* Inodes                                                                  *)

(* What the kernel was told of is counted, unless a reply went uncounted.  *)
Counts ==
  /\ count \in [Nodes -> Nat] /\ kref \in [Nodes -> Nat] /\ flying \in [Nodes -> Nat]
  /\ \A n \in Nodes :
       /\ count[n] <= kref[n] + flying[n]
       /\ n \notin linked => count[n] = kref[n] + flying[n]
       /\ count[n] > 0 => n \in known

LEMMA NamedNode ==
  ASSUME NEW n \in Nodes, Counts, Counted(n)
  PROVE  Counts'
BY DEF Counted, Counts

LEMMA Replied ==
  ASSUME NEW n \in Nodes, Counts, known \subseteq known', kref' = [kref EXCEPT ![n] = @ + 1],
         linked' = linked \cup {n}, count' = count, flying' = flying
  PROVE  Counts'
BY DEF Counts

LEMMA EvictCounts ==
  ASSUME NEW n \in Nodes, Counts, Evict(n)
  PROVE  Counts'
BY DEF Evict, Counts

LEMMA ForgetCounts ==
  ASSUME NEW n \in Nodes, Counts, Forget(n)
  PROVE  Counts'
<1>1. /\ count \in [Nodes -> Nat] /\ kref \in [Nodes -> Nat] /\ flying \in [Nodes -> Nat]
      /\ flying' = [flying EXCEPT ![n] = 0] /\ kref' = kref
      /\ linked' = IF kref[n] = 0 THEN linked \ {n} ELSE linked
  BY DEF Counts, Forget
<1>2. CASE count[n] > flying[n]
  <2>1. count' = [count EXCEPT ![n] = @ - flying[n]] /\ known' = known
    BY <1>2 DEF Forget
  <2>2. count[n] \in Nat /\ flying[n] \in Nat /\ count[n] - flying[n] \in Nat
        /\ count[n] - flying[n] > 0
    BY <1>1, <1>2
  <2>3. count' \in [Nodes -> Nat] /\ flying' \in [Nodes -> Nat]
    BY <1>1, <2>1, <2>2
  <2>4. ASSUME NEW m \in Nodes
        PROVE  /\ count'[m] <= kref'[m] + flying'[m]
               /\ m \notin linked' => count'[m] = kref'[m] + flying'[m]
               /\ count'[m] > 0 => m \in known'
    <3>1. CASE m = n
      BY <1>1, <1>2, <2>1, <2>2, <3>1 DEF Counts
    <3>2. CASE m # n
      BY <1>1, <2>1, <3>2 DEF Counts
    <3> QED
      BY <3>1, <3>2
  <2> QED
    BY <1>1, <2>3, <2>4 DEF Counts
<1>3. CASE ~(count[n] > flying[n])
  <2>1. count' = [count EXCEPT ![n] = 0] /\ known' = known \ {n}
    BY <1>3 DEF Forget
  <2>2. count' \in [Nodes -> Nat] /\ flying' \in [Nodes -> Nat]
    BY <1>1, <2>1
  <2>3. ASSUME NEW m \in Nodes
        PROVE  /\ count'[m] <= kref'[m] + flying'[m]
               /\ m \notin linked' => count'[m] = kref'[m] + flying'[m]
               /\ count'[m] > 0 => m \in known'
    <3>1. CASE m = n
      <4>1. count[n] \in Nat /\ kref[n] \in Nat /\ flying[n] \in Nat
        BY <1>1
      <4>2. n \notin linked => kref[n] = 0
        BY <1>3, <4>1 DEF Counts
      <4> QED
        BY <1>1, <2>1, <3>1, <4>1, <4>2
    <3>2. CASE m # n
      BY <1>1, <2>1, <3>2 DEF Counts
    <3> QED
      BY <3>1, <3>2
  <2> QED
    BY <1>1, <2>2, <2>3 DEF Counts
<1> QED
  BY <1>2, <1>3

LEMMA CountsInvariant ==
  Spec => []Counts
<1>1. Init => Counts
  BY DEF Init, Counts
<1>2. Counts /\ [Next]_vars => Counts'
  <2> SUFFICES ASSUME Counts, [Next]_vars PROVE Counts'
    OBVIOUS
  <2>1. ASSUME UNCHANGED inodes PROVE Counts'
    BY <2>1 DEF inodes, Counts
  <2>2. ASSUME NEW h \in Fds, HandleStep(h) PROVE Counts'
    <3>1. ASSUME NEW name \in Names, NEW kind \in Kinds, Create(name, kind, h) PROVE Counts'
      BY <3>1, NamedNode DEF Create
    <3>2. CASE \E n \in Nodes : \/ OpenRead(n, h) \/ OpenStream(n, h) \/ OpenAppend(n, h)
                                \/ OpenRandom(n, h) \/ OpenTruncated(n, h)
      BY <2>1, <3>2 DEF OpenRead, OpenStream, OpenAppend, OpenRandom, OpenTruncated
    <3>3. CASE Read(h)
      BY <2>1, <3>3 DEF Read
    <3>4. CASE \E b \in Bytes : \/ WriteStream(h, b) \/ WriteAppend(h, b)
                                \/ \E off \in Offsets : WriteRandom(h, off, b)
      BY <2>1, <3>4 DEF WriteStream, WriteAppend, WriteRandom
    <3>5. CASE \E len \in 0..MaxLen : HintSize(h, len) \/ TruncateOpen(h, len)
      BY <2>1, <3>5 DEF HintSize, TruncateOpen
    <3>6. CASE FlushRandom(h) \/ FlushAppend(h) \/ FlushStream(h) \/ Release(h)
      BY <2>1, <3>6 DEF FlushRandom, FlushAppend, FlushStream, Release
    <3> QED
      BY <2>2, <3>1, <3>2, <3>3, <3>4, <3>5, <3>6 DEF HandleStep
  <2>3. ASSUME NameStep PROVE Counts'
    <3>1. ASSUME NEW name \in Names, Lookup(name) PROVE Counts'
      <4>1. Visible(name) \in Nodes \/ Visible(name) \notin Nodes
        OBVIOUS
      <4>2. CASE Visible(name) \in Nodes
        BY <3>1, <4>2, NamedNode DEF Lookup
      <4>3. CASE Visible(name) \notin Nodes
        BY <3>1, <4>3 DEF Lookup, Counted, Counts
      <4> QED
        BY <4>2, <4>3
    <3>2. ASSUME NEW name \in Names, Mknod(name) PROVE Counts'
      BY <3>2, NamedNode DEF Mknod
    <3>3. ASSUME NEW name \in Names, Unlink(name) \/ \E new \in Names : Rename(name, new)
          PROVE  Counts'
      BY <2>1, <3>3 DEF Unlink, Rename
    <3>4. ASSUME NEW n \in Nodes, NEW name \in Names, Link(n, name) PROVE Counts'
      BY <3>4, Replied DEF Link
    <3>5. ASSUME NEW n \in Nodes, Readdir(n) PROVE Counts'
      BY <3>5, Replied DEF Readdir
    <3>6. ASSUME NEW n \in Nodes, Evict(n) \/ Forget(n) PROVE Counts'
      BY <3>6, EvictCounts, ForgetCounts
    <3>7. ASSUME NEW n \in Nodes, \/ OutsideLock(n) \/ OutsideUnlock(n)
                                  \/ \E len \in 0..MaxLen : TruncateNamed(n, len)
          PROVE  Counts'
      BY <2>1, <3>7 DEF OutsideLock, OutsideUnlock, TruncateNamed
    <3> QED
      BY <2>3, <3>1, <3>2, <3>3, <3>4, <3>5, <3>6, <3>7 DEF NameStep
  <2>4. ASSUME Crash PROVE Counts'
    BY <2>4 DEF Crash, Counts
  <2>5. ASSUME UNCHANGED vars PROVE Counts'
    BY <2>1, <2>5 DEF vars
  <2> QED
    BY <2>2, <2>3, <2>4, <2>5 DEF Next
<1> QED
  BY <1>1, <1>2, PTL DEF Spec

(* In whatever order lookups and FORGETs reach the daemon, it knows every  *)
(* inode to which the kernel still refers, if every reply that named the   *)
(* inode was counted (_remember, forget).                                  *)
THEOREM KernelsInodesKnown == Spec => []InodeHeld
<1>1. Counts => InodeHeld
  BY DEF Counts, InodeHeld
<1> QED
  BY <1>1, CountsInvariant, PTL

---------------------------------------------------------------------------
(* Smallest sets, which stand in for induction                             *)

LEMMA SmallestSet ==
  ASSUME NEW T, T # {}, \A x \in T : IsFiniteSet(x)
  PROVE  \E x \in T : \A y \in T : y \subseteq x => y = x
<1> DEFINE U == UNION T
<1>1. IsWellFoundedOn(StrictSubsetOrdering(U), FiniteSubsetsOf(U))
  BY FS_StrictSubsetOrderingWellFounded
<1>2. T \subseteq FiniteSubsetsOf(U)
  BY DEF FiniteSubsetsOf
<1>3. \E x \in T : \A y \in T : ~(<<y, x>> \in StrictSubsetOrdering(U))
  BY <1>1, <1>2, WFMin
<1> QED
  BY <1>3 DEF StrictSubsetOrdering

LEMMA MaxOf ==
  ASSUME NEW S \in SUBSET Nat, IsFiniteSet(S), S # {}
  PROVE  Max(S) \in S /\ \A k \in S : k <= Max(S)
<1> DEFINE over(k) == {m \in S : m > k}
           T == {over(k) : k \in S}
<1>1. \A x \in T : IsFiniteSet(x)
  BY FS_Subset
<1>2. PICK x \in T : \A y \in T : y \subseteq x => y = x
  <2>1. T # {}
    OBVIOUS
  <2> HIDE DEF T
  <2> QED
    BY <1>1, <2>1, SmallestSet
<1>3. PICK k \in S : x = over(k)
  OBVIOUS
<1>4. ASSUME NEW j \in S, j > k PROVE FALSE
  <2>1. over(j) \in T
    OBVIOUS
  <2>2. over(j) \subseteq over(k)
    <3>1. ASSUME NEW m \in S, m > j PROVE m > k
      <4>1. m \in Nat /\ j \in Nat /\ k \in Nat
        OBVIOUS
      <4> QED
        BY <1>4, <3>1, <4>1
    <3> QED
      BY <3>1
  <2>3. j \in over(k) /\ j \notin over(j)
    BY <1>4
  <2> QED
    BY <1>2, <1>3, <2>1, <2>2, <2>3
<1>5. \E m \in S : \A y \in S : m >= y
  BY <1>4
<1>6. Max(S) \in S /\ \A y \in S : Max(S) >= y
  BY <1>5 DEF Max
<1> QED
  BY <1>6

---------------------------------------------------------------------------
(* Folding over a finite set                                               *)

Pick(s) == CHOOSE x \in s : TRUE

(* w folds step over every subset of S.                                    *)
Folds(w, S, base, step) ==
  \A s \in SUBSET S : w[s] = IF s = {} THEN base ELSE step[<<Pick(s), w[s \ {Pick(s)}]>>]

LEMMA PickIn ==
  ASSUME NEW s, s # {}
  PROVE  Pick(s) \in s
BY DEF Pick

LEMMA FoldsAgree ==
  ASSUME NEW S, IsFiniteSet(S), NEW base, NEW step, NEW v, NEW w,
         Folds(v, S, base, step), Folds(w, S, base, step), NEW s \in SUBSET S
  PROVE  v[s] = w[s]
<1> DEFINE wrong == {r \in SUBSET S : v[r] # w[r]}
<1> SUFFICES ASSUME wrong # {} PROVE FALSE
  OBVIOUS
<1>1. \A r \in wrong : IsFiniteSet(r)
  BY FS_Subset
<1>2. PICK r \in wrong : \A q \in wrong : q \subseteq r => q = r
  <2> HIDE DEF wrong
  <2> QED
    BY <1>1, SmallestSet
<1>3. r # {}
  BY DEF Folds
<1>4. Pick(r) \in r /\ r \ {Pick(r)} \in SUBSET S
  BY <1>3, PickIn
<1>5. r \ {Pick(r)} \notin wrong
  BY <1>2, <1>4
<1>6. v[r \ {Pick(r)}] = w[r \ {Pick(r)}]
  BY <1>4, <1>5
<1> QED
  BY <1>2, <1>3, <1>6 DEF Folds

LEMMA FoldExists ==
  ASSUME NEW S, IsFiniteSet(S), NEW V, NEW base \in V, NEW step \in [S \X V -> V]
  PROVE  \E w \in [SUBSET S -> V] : Folds(w, S, base, step)
<1> DEFINE good(T) == \E w \in [SUBSET T -> V] : Folds(w, T, base, step)
           wrong == {T \in SUBSET S : ~good(T)}
<1> SUFFICES ASSUME wrong # {} PROVE FALSE
  OBVIOUS
<1>1. \A T \in wrong : IsFiniteSet(T)
  BY FS_Subset
<1>2. PICK T \in wrong : \A q \in wrong : q \subseteq T => q = T
  <2> HIDE DEF wrong
  <2> QED
    BY <1>1, SmallestSet
<1>3. T \in SUBSET S /\ ~good(T)
  OBVIOUS
<1>4. ASSUME NEW s \in SUBSET T, s # T PROVE good(s)
  <2>1. s \notin wrong
    BY <1>2, <1>4
  <2> QED
    BY <1>3, <2>1
<1> DEFINE of(s) == CHOOSE w \in [SUBSET s -> V] : Folds(w, s, base, step)
<1>5. ASSUME NEW s \in SUBSET T, s # T
      PROVE  of(s) \in [SUBSET s -> V] /\ Folds(of(s), s, base, step)
  BY <1>4, <1>5
<1> DEFINE below == [s \in (SUBSET T) \ {T} |-> of(s)[s]]
           top == IF T = {} THEN base ELSE step[<<Pick(T), below[T \ {Pick(T)}]>>]
           all == [s \in SUBSET T |-> IF s = T THEN top ELSE below[s]]
<1>6. \A s \in (SUBSET T) \ {T} : below[s] \in V
  BY <1>5
<1>7. ASSUME NEW s \in (SUBSET T) \ {T}, s # {}
      PROVE  below[s] = step[<<Pick(s), below[s \ {Pick(s)}]>>]
  <2> DEFINE r == s \ {Pick(s)}
  <2>1. Pick(s) \in s
    BY <1>7, PickIn
  <2>2. r \in SUBSET s /\ r \in (SUBSET T) \ {T}
    BY <2>1
  <2>3. Folds(of(s), s, base, step) /\ Folds(of(r), r, base, step)
    BY <1>5, <2>2
  <2>4. Folds(of(s), r, base, step)
    <3> HIDE DEF of
    <3> QED
      BY <2>2, <2>3 DEF Folds
  <2>5. IsFiniteSet(r)
    BY <1>3, <2>2, FS_Subset
  <2> HIDE DEF of, r
  <2>6. of(s)[r] = of(r)[r]
    BY <2>3, <2>4, <2>5, FoldsAgree
  <2>7. of(s)[s] = step[<<Pick(s), of(s)[r]>>]
    BY <1>7, <2>3 DEF Folds, r
  <2>8. below[s] = of(s)[s] /\ below[r] = of(r)[r]
    BY <2>2
  <2> QED
    BY <2>6, <2>7, <2>8 DEF r
<1>8. below[{}] = base \/ T = {}
  <2>1. CASE T # {}
    <3>1. {} \in (SUBSET T) \ {T}
      BY <2>1
    <3>2. Folds(of({}), {}, base, step)
      BY <1>5, <3>1
    <3> HIDE DEF of
    <3>3. of({})[{}] = base
      BY <3>2 DEF Folds
    <3> QED
      BY <3>1, <3>3
  <2> QED
    BY <2>1
<1> HIDE DEF below, of
<1>9. top \in V
  <2>1. CASE T # {}
    <3>1. Pick(T) \in T /\ T \ {Pick(T)} \in (SUBSET T) \ {T}
      BY <2>1, PickIn
    <3>2. <<Pick(T), below[T \ {Pick(T)}]>> \in S \X V
      BY <1>3, <1>6, <3>1
    <3> QED
      BY <2>1, <3>2
  <2> QED
    BY <2>1
<1> HIDE DEF top
<1>10. all \in [SUBSET T -> V]
  BY <1>6, <1>9
<1>11. Folds(all, T, base, step)
  <2> SUFFICES ASSUME NEW s \in SUBSET T
               PROVE  all[s] = IF s = {} THEN base ELSE step[<<Pick(s), all[s \ {Pick(s)}]>>]
    BY DEF Folds
  <2>1. CASE s = {}
    BY <1>8, <2>1 DEF top
  <2>2. CASE s # {}
    <3>1. Pick(s) \in s
      BY <2>2, PickIn
    <3>2. s \ {Pick(s)} \in (SUBSET T) \ {T}
      BY <3>1
    <3>3. all[s \ {Pick(s)}] = below[s \ {Pick(s)}]
      BY <3>2
    <3>4. CASE s = T
      BY <2>2, <3>3, <3>4 DEF top
    <3>5. CASE s # T
      BY <1>7, <2>2, <3>3, <3>5
    <3> QED
      BY <3>4, <3>5
  <2> QED
    BY <2>1, <2>2
<1> QED
  BY <1>3, <1>10, <1>11

---------------------------------------------------------------------------
(* Texts                                                                   *)

Value == Bytes \cup {0}

LEMMA MaxPair ==
  ASSUME NEW a \in Nat, NEW b \in Nat
  PROVE  Max({a, b}) = IF a >= b THEN a ELSE b
<1>1. Max({a, b}) = CHOOSE x \in {a, b} : \A y \in {a, b} : x >= y
  BY DEF Max
<1>2. \E x \in {a, b} : \A y \in {a, b} : x >= y
  <2>1. CASE a >= b
    BY <2>1
  <2>2. CASE ~(a >= b)
    BY <2>2
  <2> QED
    BY <2>1, <2>2
<1>3. Max({a, b}) \in {a, b} /\ \A y \in {a, b} : Max({a, b}) >= y
  BY <1>1, <1>2
<1> QED
  BY <1>3

LEMMA ByteIs ==
  ASSUME NEW s \in Text, NEW i
  PROVE  /\ Byte(s, i) \in Value
         /\ i \in 1..Len(s) => Byte(s, i) = s[i]
         /\ i \notin 1..Len(s) => Byte(s, i) = 0
BY DEF Byte, Value, Text

LEMMA TextOf ==
  ASSUME NEW len \in Nat, NEW s, DOMAIN s = 1..len, s \in [1..len -> Value]
  PROVE  s \in Text /\ Len(s) = len
BY DEF Text, Value

LEMMA ResizedIs ==
  ASSUME NEW s \in Text, NEW len \in Nat
  PROVE  /\ Resized(s, len) \in Text /\ Len(Resized(s, len)) = len
         /\ \A i \in 1..len : Resized(s, len)[i] = Byte(s, i)
<1>1. Resized(s, len) \in [1..len -> Value]
  BY ByteIs DEF Resized
<1> QED
  BY <1>1, TextOf DEF Resized

LEMMA TextsEqual ==
  ASSUME NEW s \in Text, NEW t \in Text, Len(s) = Len(t), \A i \in 1..Len(s) : s[i] = t[i]
  PROVE  s = t
BY DEF Text

LEMMA PutByteIs ==
  ASSUME NEW s \in Text, NEW off \in Nat, NEW b \in Bytes
  PROVE  /\ PutByte(s, off, b) \in Text
         /\ Len(PutByte(s, off, b)) = IF Len(s) >= off + 1 THEN Len(s) ELSE off + 1
         /\ \A i \in 1..Len(PutByte(s, off, b)) :
              PutByte(s, off, b)[i] = IF i = off + 1 THEN b ELSE Byte(s, i)
<1> DEFINE len == Max({Len(s), off + 1})
           r == Resized(s, len)
<1>1. Len(s) \in Nat /\ off + 1 \in Nat
  BY DEF Text
<1>2. len = IF Len(s) >= off + 1 THEN Len(s) ELSE off + 1
  BY <1>1, MaxPair
<1>3. len \in Nat /\ off + 1 \in 1..len
  BY <1>1, <1>2
<1>4. r \in Text /\ Len(r) = len /\ \A i \in 1..len : r[i] = Byte(s, i)
  BY <1>3, ResizedIs
<1>5. PutByte(s, off, b) = [r EXCEPT ![off + 1] = b]
  BY DEF PutByte
<1> HIDE DEF r, len
<1>6. [r EXCEPT ![off + 1] = b] \in Text /\ Len([r EXCEPT ![off + 1] = b]) = len
      /\ \A i \in 1..len : [r EXCEPT ![off + 1] = b][i] = IF i = off + 1 THEN b ELSE r[i]
  BY <1>3, <1>4 DEF Text
<1> QED
  BY <1>2, <1>4, <1>5, <1>6

(* Overlaid: as long as the text and every dirty byte need, and no longer. *)
LEMMA OverlaidIs ==
  ASSUME NEW s \in Text, NEW f \in Overlay
  PROVE  /\ Overlaid(s, f) \in Text
         /\ Len(s) <= Len(Overlaid(s, f))
         /\ \A o \in Dirty(f) : o \in Nat /\ o + 1 <= Len(Overlaid(s, f))
         /\ \/ Len(Overlaid(s, f)) = Len(s)
            \/ \E o \in Dirty(f) : Len(Overlaid(s, f)) = o + 1
         /\ \A i \in 1..Len(Overlaid(s, f)) :
              Overlaid(s, f)[i] = IF i - 1 \in Dirty(f) THEN f.ext[i - 1] ELSE Byte(s, i)
<1> DEFINE S == {Len(s)} \cup {o + 1 : o \in Dirty(f)}
           len == Max(S)
<1>1. Len(s) \in Nat /\ MaxLen \in Nat
  BY FuseAssumption DEF Text
<1>2. \A o \in Dirty(f) : o \in 0..(MaxLen - 1) /\ f.ext[o] \in Bytes
  BY DEF Dirty, Overlay
<1>3. S \in SUBSET (0..(Len(s) + MaxLen))
  BY <1>1, <1>2
<1>4. IsFiniteSet(S) /\ S \in SUBSET Nat
  <2>1. Len(s) + MaxLen \in Int /\ 0 \in Int
    BY <1>1
  <2>2. IsFiniteSet(0..(Len(s) + MaxLen))
    BY <2>1, FS_Interval
  <2>3. 0..(Len(s) + MaxLen) \in SUBSET Nat
    BY <1>1
  <2> HIDE DEF S
  <2> QED
    BY <1>3, <2>2, <2>3, FS_Subset
<1>5. Len(s) \in S /\ \A o \in Dirty(f) : o + 1 \in S
  OBVIOUS
<1>6. len \in S /\ \A k \in S : k <= len
  <2> HIDE DEF S
  <2> QED
    BY <1>4, <1>5, MaxOf
<1>7. len \in Nat
  BY <1>4, <1>6
<1>8. Overlaid(s, f) = [i \in 1..len |-> IF i - 1 \in Dirty(f) THEN f.ext[i - 1] ELSE Byte(s, i)]
  BY DEF Overlaid
<1>9. len = Len(s) \/ \E o \in Dirty(f) : len = o + 1
  BY <1>6
<1>10. Len(s) <= len /\ \A o \in Dirty(f) : o + 1 <= len
  BY <1>5, <1>6
<1> HIDE DEF S, len
<1>11. Overlaid(s, f) \in [1..len -> Value]
  <2>1. ASSUME NEW i \in 1..len
        PROVE  (IF i - 1 \in Dirty(f) THEN f.ext[i - 1] ELSE Byte(s, i)) \in Value
    <3>1. Byte(s, i) \in Value
      BY ByteIs
    <3> QED
      BY <1>2, <3>1 DEF Value
  <2> QED
    BY <1>8, <2>1
<1>12. Overlaid(s, f) \in Text /\ Len(Overlaid(s, f)) = len
  BY <1>7, <1>8, <1>11, TextOf
<1>13. \A i \in 1..len : Overlaid(s, f)[i] = IF i - 1 \in Dirty(f) THEN f.ext[i - 1] ELSE Byte(s, i)
  BY <1>8
<1> QED
  BY <1>2, <1>9, <1>10, <1>12, <1>13

LEMMA OverlaidClean ==
  ASSUME NEW s \in Text, NEW f \in Overlay, Dirty(f) = {}
  PROVE  Overlaid(s, f) = s
<1>1. Overlaid(s, f) \in Text /\ Len(Overlaid(s, f)) = Len(s)
  BY OverlaidIs
<1>2. \A i \in 1..Len(s) : Overlaid(s, f)[i] = s[i]
  <2>1. \A i \in 1..Len(s) : Overlaid(s, f)[i] = Byte(s, i)
    BY <1>1, OverlaidIs
  <2> QED
    BY <2>1, ByteIs
<1> QED
  BY <1>1, <1>2, TextsEqual

LEMMA ClearIsClean ==
  /\ Clear \in [0..(MaxLen - 1) -> {None} \cup Bytes]
  /\ \A f : f.ext = Clear => Dirty(f) = {}
BY DEF Clear, Dirty

---------------------------------------------------------------------------
(* What is where                                                           *)

Contents == [Nodes -> {None} \cup Text]
Placement == [name: Names, node: Nodes, edge: Nat]

(* Names, handles and overlays are of files that were made.                *)
PlacesOK(p) ==
  p \in SUBSET Placement /\ IsFiniteSet(p) /\ \A q \in p : content[q.node] # None
HandlesOK(t) ==
  /\ t \in [Fds -> {None} \cup HandleRow]
  /\ \A h \in Fds : t[h] # None => content[t[h].ino] # None /\ content[t[h].node] # None
OverlaysOK(t) ==
  /\ t \in [Nodes -> {None} \cup Overlay]
  /\ \A n \in Nodes : t[n] # None => content[n] # None

(* c holds some text for each file that was made, and for no other.        *)
Alike(c) == c \in Contents /\ \A n \in Nodes : c[n] = None <=> content[n] = None

Sane ==
  /\ content \in Contents /\ Alike(truth)
  /\ PlacesOK(placed) /\ HandlesOK(fd) /\ OverlaysOK(file)

LEMMA NoneIsNoRow ==
  /\ \A x \in {None} \cup HandleRow : x # None => x \in HandleRow
  /\ \A x \in {None} \cup Overlay : x # None => x \in Overlay
  /\ \A x \in {None} \cup Text : x # None => x \in Text
  /\ \A x \in HandleRow : x # None
  /\ \A x \in Overlay : x # None
  /\ \A x \in Text : x # None
BY FuseAssumption

LEMMA EmptyText ==
  <<>> \in Text /\ <<>> # None
<1>1. <<>> \in Text
  BY DEF Text
<1> QED
  BY <1>1, NoneIsNoRow

LEMMA HandleOf ==
  ASSUME Sane, NEW h \in Fds, fd[h] # None
  PROVE  /\ fd[h] \in HandleRow /\ fd[h].ino \in Nodes /\ fd[h].path \in Names
         /\ fd[h].buf \in Text /\ fd[h].done \in BOOLEAN /\ fd[h].wrote \in BOOLEAN
         /\ fd[h].mode \in {"r", "w", "a", "rw"}
         /\ content[fd[h].ino] \in Text /\ truth[fd[h].ino] \in Text
         /\ content[fd[h].ino] # None
         /\ fd[h].node \in Nodes /\ content[fd[h].node] # None
<1>1. fd[h] \in HandleRow /\ content[fd[h].ino] # None /\ content[fd[h].node] # None
  BY NoneIsNoRow DEF Sane, HandlesOK
<1>2. fd[h].ino \in Nodes /\ fd[h].node \in Nodes
  BY <1>1 DEF HandleRow
<1>3. content[fd[h].ino] \in Text /\ truth[fd[h].ino] \in Text
  BY <1>1, <1>2, NoneIsNoRow DEF Sane, Alike, Contents
<1> QED
  BY <1>1, <1>2, <1>3 DEF HandleRow

LEMMA OverlayOf ==
  ASSUME Sane, NEW n \in Nodes, file[n] # None
  PROVE  /\ file[n] \in Overlay /\ file[n].path \in Names /\ file[n].refs \in Nat
         /\ file[n].size \in Nat
         /\ file[n].ext \in [0..(MaxLen - 1) -> {None} \cup Bytes]
         /\ content[n] \in Text /\ truth[n] \in Text /\ content[n] # None
<1>1. file[n] \in Overlay /\ content[n] # None
  BY NoneIsNoRow DEF Sane, OverlaysOK
<1>2. content[n] \in Text /\ truth[n] \in Text
  BY <1>1, NoneIsNoRow DEF Sane, Alike, Contents
<1> QED
  BY <1>1, <1>2 DEF Overlay

LEMMA FiniteRange ==
  ASSUME NEW S, IsFiniteSet(S), NEW f, f = [x \in S |-> f[x]]
  PROVE  IsFiniteSet({f[x] : x \in S})
<1> DEFINE T == {f[x] : x \in S}
<1>1. f \in Surjection(S, T)
  BY DEF Surjection
<1> HIDE DEF T
<1>2. IsFiniteSet(T)
  BY <1>1, FS_Surjection
<1> QED
  BY <1>2 DEF T

LEMMA PlacementOf ==
  ASSUME Sane, NEW p \in placed
  PROVE  /\ p \in Placement /\ p.name \in Names /\ p.node \in Nodes /\ p.edge \in Nat
         /\ content[p.node] # None
<1>1. p \in Placement /\ content[p.node] # None
  BY DEF Sane, PlacesOK
<1> QED
  BY <1>1 DEF Placement

LEMMA VisibleIs ==
  ASSUME Sane, NEW name, Visible(name) # None
  PROVE  /\ Visible(name) \in Nodes /\ content[Visible(name)] # None
         /\ content[Visible(name)] \in Text
<1> DEFINE Q == {q \in placed : q.name = name}
           f == [q \in Q |-> q.node]
<1>1. IsFiniteSet(Q)
  BY FS_Subset DEF Sane, PlacesOK
<1>2. IsFiniteSet({f[q] : q \in Q})
  <2>1. f = [q \in Q |-> f[q]]
    OBVIOUS
  <2> HIDE DEF f, Q
  <2> QED
    BY <1>1, <2>1, FiniteRange
<1>3. Showing(name) = {f[q] : q \in Q}
  BY DEF Showing
<1>4. Showing(name) # {} /\ IsFiniteSet(Showing(name))
  BY <1>2, <1>3 DEF Visible
<1>5. \A m \in Showing(name) : m \in Nodes /\ m \in Nat /\ content[m] # None
  <2>1. \A q \in Q : q.node \in Nodes /\ content[q.node] # None
    BY PlacementOf
  <2> QED
    BY <2>1, FuseAssumption DEF Showing
<1>6. Visible(name) \in Showing(name)
  BY <1>4, <1>5, MaxOf DEF Visible
<1> QED
  BY <1>5, <1>6, NoneIsNoRow DEF Sane, Contents

LEMMA PathOfIs ==
  ASSUME Sane, NEW n \in Nodes, Linked(n) # {}
  PROVE  /\ PathOf(n) \in Names /\ content[n] # None /\ content[n] \in Text /\ truth[n] \in Text
         /\ Found(n) \in Nodes /\ Found(n) # None
         /\ content[Found(n)] # None /\ content[Found(n)] \in Text
<1> DEFINE f == [p \in Linked(n) |-> p.edge]
           E == {f[p] : p \in Linked(n)}
<1>1. IsFiniteSet(Linked(n)) /\ Linked(n) \subseteq placed
  BY FS_Subset DEF Linked, Sane, PlacesOK
<1>2. IsFiniteSet(E)
  <2>1. f = [p \in Linked(n) |-> f[p]]
    OBVIOUS
  <2> HIDE DEF f
  <2> QED
    BY <1>1, <2>1, FiniteRange
<1>3. E # {} /\ E \in SUBSET Nat
  BY <1>1, PlacementOf
<1>4. Max(E) \in E /\ \A k \in E : k <= Max(E)
  <2> HIDE DEF E
  <2> QED
    BY <1>2, <1>3, MaxOf
<1>5. PICK p \in Linked(n) : \A q \in Linked(n) : q.edge <= p.edge
  BY <1>4
<1> DEFINE last == CHOOSE p0 \in Linked(n) : \A q \in Linked(n) : q.edge <= p0.edge
<1>6. last \in Linked(n) /\ PathOf(n) = last.name
  BY <1>5 DEF PathOf
<1> HIDE DEF last
<1>7. last \in placed /\ last.node = n /\ last.name \in Names /\ content[n] # None
  BY <1>6, PlacementOf DEF Linked
<1>8. Showing(PathOf(n)) # {}
  BY <1>6, <1>7 DEF Showing
<1>9. Found(n) \in Nodes /\ Found(n) # None
  <2> DEFINE Q == {q \in placed : q.name = PathOf(n)}
             g == [q \in Q |-> q.node]
  <2>1. IsFiniteSet(Q)
    BY FS_Subset DEF Sane, PlacesOK
  <2>2. IsFiniteSet({g[q] : q \in Q})
    <3>1. g = [q \in Q |-> g[q]]
      OBVIOUS
    <3> HIDE DEF g, Q
    <3> QED
      BY <2>1, <3>1, FiniteRange
  <2>3. Showing(PathOf(n)) = {g[q] : q \in Q}
    BY DEF Showing
  <2>4. \A m \in Showing(PathOf(n)) : m \in Nodes /\ m \in Nat
    BY PlacementOf, FuseAssumption DEF Showing
  <2>5. Max(Showing(PathOf(n))) \in Showing(PathOf(n))
    BY <1>8, <2>2, <2>3, <2>4, MaxOf
  <2> QED
    BY <1>8, <2>4, <2>5, FuseAssumption DEF Found, Visible
<1> QED
  BY <1>6, <1>7, <1>9, NoneIsNoRow, VisibleIs DEF Sane, Contents, Alike, Found

(* A new placement, or a name or an end for old ones.                      *)
LEMMA PlacedIs ==
  ASSUME Sane, NEW name \in Names, NEW n \in Nodes
  PROVE  /\ NextEdge \in Nat /\ Placed(name, n) \in SUBSET Placement /\ IsFiniteSet(Placed(name, n))
         /\ \A p \in Placed(name, n) : p \in placed \/ p.node = n
<1> DEFINE f == [p \in placed |-> p.edge + 1]
           S == {0} \cup {f[p] : p \in placed}
           T == {f[p] : p \in placed}
<1>1. IsFiniteSet(placed) /\ placed \in SUBSET Placement
  BY DEF Sane, PlacesOK
<1>2. IsFiniteSet(T)
  <2>1. f = [p \in placed |-> f[p]]
    OBVIOUS
  <2> HIDE DEF f
  <2> QED
    BY <1>1, <2>1, FiniteRange
<1>3. T \in SUBSET Nat
  BY PlacementOf
<1> HIDE DEF T
<1>4. IsFiniteSet({0} \cup T) /\ {0} \cup T \in SUBSET Nat
  BY <1>2, <1>3, FS_AddElement
<1>5. Max({0} \cup T) \in Nat
  BY <1>4, MaxOf
<1>6. NextEdge = Max({0} \cup T)
  BY DEF NextEdge, T
<1> DEFINE p == [name |-> name, node |-> n, edge |-> NextEdge]
<1>7. p \in Placement /\ p.node = n
  BY <1>5, <1>6 DEF Placement
<1>8. Placed(name, n) = placed \cup {p}
  BY DEF Placed
<1> HIDE DEF p
<1>9. IsFiniteSet(placed \cup {p})
  BY <1>1, FS_AddElement
<1> QED
  BY <1>1, <1>5, <1>6, <1>7, <1>8, <1>9

---------------------------------------------------------------------------
(* What settling leaves                                                    *)

LEMMA AlikeText ==
  ASSUME NEW c, Alike(c), NEW n \in Nodes, content[n] # None
  PROVE  c[n] \in Text
BY NoneIsNoRow DEF Alike, Contents

LEMMA AlikeSet ==
  ASSUME NEW c, Alike(c), NEW n \in Nodes, content[n] # None, NEW s \in Text
  PROVE  Alike([c EXCEPT ![n] = s])
BY NoneIsNoRow DEF Alike, Contents

LEMMA FlushedIs ==
  ASSUME Sane, NEW n \in Nodes, NEW c, Alike(c), Flushable(n)
  PROVE  /\ Alike(Flushed(n, c))
         /\ \A m \in Nodes : ~(Pending(n) /\ Visible(file[n].path) = m) => Flushed(n, c)[m] = c[m]
         /\ \A m \in Nodes : Pending(n) /\ Visible(file[n].path) = m =>
              Flushed(n, c)[m] = Overlaid(c[m], file[n])
<1>1. CASE ~Pending(n)
  BY <1>1 DEF Flushed
<1>2. CASE Pending(n)
  <2> DEFINE k == Visible(file[n].path)
  <2>1. Flushed(n, c) = [c EXCEPT ![k] = Overlaid(@, file[n])]
    BY <1>2 DEF Flushed
  <2>2. k # None /\ file[n] # None
    BY <1>2 DEF Flushable, Reach, Pending
  <2>3. k \in Nodes /\ content[k] # None
    BY <2>2, VisibleIs
  <2>4. c[k] \in Text
    BY <2>3, AlikeText
  <2>5. Overlaid(c[k], file[n]) \in Text
    BY <2>2, <2>4, OverlayOf, OverlaidIs
  <2> HIDE DEF k
  <2>6. Flushed(n, c) = [c EXCEPT ![k] = Overlaid(c[k], file[n])]
    BY <2>1
  <2>7. Alike(Flushed(n, c))
    <3>1. Alike([c EXCEPT ![k] = Overlaid(c[k], file[n])])
      BY <2>3, <2>5, AlikeSet
    <3> QED
      BY <2>6, <3>1
  <2>8. \A m \in Nodes : Flushed(n, c)[m] = IF m = k THEN Overlaid(c[m], file[n]) ELSE c[m]
    BY <2>6 DEF Alike, Contents
  <2> QED
    BY <1>2, <2>7, <2>8 DEF k
<1> QED
  BY <1>1, <1>2

LEMMA JoinedText ==
  ASSUME NEW s \in Text, NEW t \in Text
  PROVE  s \o t \in Text /\ Len(s \o t) = Len(s) + Len(t)
BY DEF Text

LEMMA AppendedIs ==
  ASSUME Sane, NEW h \in Fds, fd[h] # None, Visible(fd[h].path) # None, NEW c, Alike(c)
  PROVE  /\ Alike(Appended(h, c))
         /\ \A m \in Nodes : Appended(h, c)[m] = IF m = Visible(fd[h].path) THEN c[m] \o fd[h].buf
                                                 ELSE c[m]
<1> DEFINE k == Visible(fd[h].path)
<1>1. Appended(h, c) = [c EXCEPT ![k] = c[k] \o fd[h].buf]
  BY DEF Appended
<1>2. k \in Nodes /\ content[k] # None
  BY VisibleIs
<1>3. c[k] \in Text /\ fd[h].buf \in Text
  BY <1>2, AlikeText, HandleOf
<1>4. c[k] \o fd[h].buf \in Text
  BY <1>3, JoinedText
<1> HIDE DEF k
<1>5. Alike(Appended(h, c))
  BY <1>1, <1>2, <1>4, AlikeSet
<1>6. \A m \in Nodes : Appended(h, c)[m] = IF m = k THEN c[m] \o fd[h].buf ELSE c[m]
  BY <1>1 DEF Alike, Contents
<1> QED
  BY <1>5, <1>6 DEF k

BatchFold(n) == FoldSet(Appended, content, Batches(n))

BatchIter(n, w) ==
  [s \in SUBSET Batches(n) |-> IF s = {} THEN content ELSE Appended(Pick(s), w[s \ {Pick(s)}])]

LEMMA BatchFoldUnfolds ==
  ASSUME NEW n
  PROVE  BatchFold(n) = (CHOOSE w : w = BatchIter(n, w))[Batches(n)]
BY DEF BatchFold, FoldSet, MapThenFoldSet, BatchIter, Pick

(* The batches of a file land on the files their names lead to, in some order. *)
LEMMA BatchFoldIs ==
  ASSUME Sane, NEW n \in Nodes, \A h \in Batches(n) : Visible(fd[h].path) # None
  PROVE  /\ Alike(BatchFold(n))
         /\ \A m \in Nodes : (\A h \in Batches(n) : Visible(fd[h].path) # m) =>
              BatchFold(n)[m] = content[m]
<1> DEFINE S == Batches(n)
           spared(m) == \A h \in S : Visible(fd[h].path) # m
           V == {c \in Contents : Alike(c) /\ \A m \in Nodes : spared(m) => c[m] = content[m]}
           step == [p \in S \X V |-> Appended(p[1], p[2])]
           iter == CHOOSE w : w = BatchIter(n, w)
<1>1. S \in SUBSET Fds /\ IsFiniteSet(S) /\ \A h \in S : fd[h] # None
  <2>1. S \in SUBSET Fds /\ \A h \in S : fd[h] # None
    BY DEF Batches, Opened, On
  <2> QED
    BY <2>1, FuseAssumption, FS_Subset
<1>2. content \in V
  BY DEF Sane, Alike
<1>3. ASSUME NEW h \in S, NEW c \in V PROVE Appended(h, c) \in V
  <2>1. Alike(Appended(h, c)) /\ \A m \in Nodes : Visible(fd[h].path) # m => Appended(h, c)[m] = c[m]
    BY <1>1, AppendedIs
  <2>2. Appended(h, c) \in Contents
    BY <2>1 DEF Alike
  <2> QED
    BY <2>1, <2>2
<1>4. step \in [S \X V -> V]
  BY <1>3
<1>5. \A h \in S : \A c \in V : step[<<h, c>>] = Appended(h, c)
  OBVIOUS
<1> HIDE DEF S, V, step
<1>6. PICK w \in [SUBSET S -> V] : Folds(w, S, content, step)
  BY <1>1, <1>2, <1>4, FoldExists
<1>7. w = BatchIter(n, w)
  <2>1. ASSUME NEW s \in SUBSET S
        PROVE  w[s] = IF s = {} THEN content ELSE Appended(Pick(s), w[s \ {Pick(s)}])
    <3>1. s # {} => Pick(s) \in S /\ s \ {Pick(s)} \in SUBSET S
      BY PickIn
    <3>2. s # {} => w[s \ {Pick(s)}] \in V
      BY <3>1
    <3> QED
      BY <1>5, <1>6, <3>1, <3>2 DEF Folds
  <2> QED
    BY <2>1 DEF BatchIter, S
<1>8. iter = BatchIter(n, iter)
  BY <1>7
<1> HIDE DEF iter
<1>9. \A s \in SUBSET S : iter[s] = IF s = {} THEN content ELSE Appended(Pick(s), iter[s \ {Pick(s)}])
  BY <1>8 DEF BatchIter, S
<1>10. \A s \in SUBSET S : iter[s] \in V
  <2> DEFINE wrong == {s \in SUBSET S : iter[s] \notin V}
  <2> SUFFICES ASSUME wrong # {} PROVE FALSE
    OBVIOUS
  <2>1. \A s \in wrong : IsFiniteSet(s)
    BY <1>1, FS_Subset
  <2>2. PICK s \in wrong : \A q \in wrong : q \subseteq s => q = s
    <3> HIDE DEF wrong
    <3> QED
      BY <2>1, SmallestSet
  <2>3. s # {}
    BY <1>2, <1>9
  <2>4. Pick(s) \in s /\ s \ {Pick(s)} \in SUBSET S
    BY <2>3, PickIn
  <2>5. s \ {Pick(s)} \notin wrong
    BY <2>2, <2>4
  <2>6. iter[s \ {Pick(s)}] \in V
    BY <2>4, <2>5
  <2>7. Appended(Pick(s), iter[s \ {Pick(s)}]) \in V
    BY <1>3, <2>4, <2>6
  <2> QED
    BY <1>9, <2>2, <2>3, <2>7
<1>11. BatchFold(n) \in V
  BY <1>10, BatchFoldUnfolds DEF iter, S
<1> QED
  BY <1>11 DEF V, S

LEMMA BatchFoldNone ==
  ASSUME NEW n, Batches(n) = {}
  PROVE  BatchFold(n) = content
<1> DEFINE w == [s \in SUBSET Batches(n) |-> content]
           iter == CHOOSE v : v = BatchIter(n, v)
<1>1. w = BatchIter(n, w)
  BY DEF BatchIter
<1>2. iter = BatchIter(n, iter)
  BY <1>1
<1> HIDE DEF iter
<1>3. iter[Batches(n)] = content
  BY <1>2 DEF BatchIter
<1> QED
  BY <1>3, BatchFoldUnfolds DEF iter

LEMMA BatchFoldOne ==
  ASSUME NEW n, NEW g, Batches(n) = {g}
  PROVE  BatchFold(n) = Appended(g, content)
<1> DEFINE w == [s \in SUBSET Batches(n) |-> IF s = {} THEN content ELSE Appended(g, content)]
           iter == CHOOSE v : v = BatchIter(n, v)
<1>1. \A s \in SUBSET Batches(n) : s = {} \/ (s = {g} /\ Pick(s) = g /\ s \ {Pick(s)} = {})
  BY PickIn
<1>2. w = BatchIter(n, w)
  BY <1>1 DEF BatchIter
<1>3. iter = BatchIter(n, iter)
  BY <1>2
<1> HIDE DEF iter
<1>4. iter[{}] = content
  BY <1>3 DEF BatchIter
<1>5. Batches(n) # {} /\ Batches(n) \in SUBSET Batches(n)
  OBVIOUS
<1>6. iter[Batches(n)] = Appended(g, content)
  BY <1>1, <1>3, <1>4, <1>5 DEF BatchIter
<1> QED
  BY <1>6, BatchFoldUnfolds DEF iter

LEMMA SettledIs ==
  ASSUME Sane, NEW n \in Nodes, Settleable(n)
  PROVE  /\ Alike(Settled(n))
         /\ \A m \in Nodes : (\A h \in Batches(n) : Visible(fd[h].path) # m)
                             /\ ~(Pending(n) /\ Visible(file[n].path) = m) =>
              Settled(n)[m] = content[m]
<1>1. Settled(n) = Flushed(n, BatchFold(n))
  BY DEF Settled, BatchFold
<1>2. Flushable(n) /\ \A h \in Batches(n) : Visible(fd[h].path) # None
  BY DEF Settleable, Reach
<1>3. Alike(BatchFold(n))
  BY <1>2, BatchFoldIs
<1> QED
  BY <1>1, <1>2, <1>3, BatchFoldIs, FlushedIs

---------------------------------------------------------------------------
(* Every step keeps what is where                                          *)

LEMMA SaneKept ==
  ASSUME Sane, placed' = placed, Alike(content'), Alike(truth'), HandlesOK(fd'), OverlaysOK(file')
  PROVE  Sane'
<1>1. \A n \in Nodes : content'[n] = None <=> content[n] = None
  BY DEF Alike
<1>2. content' \in Contents /\ Alike(truth)'
  BY <1>1 DEF Alike
<1>3. PlacesOK(placed)'
  <2>1. \A p \in placed : p.node \in Nodes /\ content[p.node] # None
    BY PlacementOf
  <2> QED
    BY <1>1, <2>1 DEF Sane, PlacesOK
<1>4. HandlesOK(fd)'
  <2>1. \A h \in Fds : fd'[h] # None => fd'[h].ino \in Nodes /\ fd'[h].node \in Nodes
    BY NoneIsNoRow DEF HandlesOK, HandleRow
  <2> QED
    BY <1>1, <2>1 DEF HandlesOK
<1>5. OverlaysOK(file)'
  BY <1>1 DEF OverlaysOK
<1> QED
  BY <1>2, <1>3, <1>4, <1>5 DEF Sane

LEMMA SaneAsIs ==
  ASSUME Sane
  PROVE  Alike(content) /\ Alike(truth) /\ HandlesOK(fd) /\ OverlaysOK(file)
BY DEF Sane, Alike

LEMMA HandleSet ==
  ASSUME Sane, NEW h \in Fds, NEW row \in {None} \cup HandleRow,
         row # None => content[row.ino] # None /\ content[row.node] # None
  PROVE  HandlesOK([fd EXCEPT ![h] = row])
BY DEF Sane, HandlesOK

LEMMA OverlaySet ==
  ASSUME Sane, NEW n \in Nodes, content[n] # None, NEW row \in {None} \cup Overlay
  PROVE  OverlaysOK([file EXCEPT ![n] = row])
BY DEF Sane, OverlaysOK

LEMMA NewOverlay ==
  ASSUME NEW path \in Names, NEW size \in Nat
  PROVE  [path |-> path, refs |-> 1, size |-> size, ext |-> Clear] \in Overlay
BY ClearIsClean DEF Overlay

LEMMA SharedIs ==
  ASSUME Sane, NEW n \in Nodes, NEW path \in Names, Visible(path) # None
  PROVE  /\ Shared(n, path)[n] \in Overlay /\ Shared(n, path)[n] # None
         /\ Shared(n, path) = [file EXCEPT ![n] = Shared(n, path)[n]]
         /\ file[n] = None => Shared(n, path)[n] = OpenFile(path)
         /\ file[n] # None =>
              /\ Shared(n, path)[n].path = file[n].path /\ Shared(n, path)[n].ext = file[n].ext
              /\ Shared(n, path)[n].size = file[n].size
              /\ Shared(n, path)[n].refs = file[n].refs + 1
<1> DEFINE row == IF file[n] = None THEN OpenFile(path) ELSE Reopened(file[n])
<1>1. file \in [Nodes -> {None} \cup Overlay]
  BY DEF Sane, OverlaysOK
<1>2. Shared(n, path) = [file EXCEPT ![n] = row] /\ Shared(n, path)[n] = row
  <2>1. Shared(n, path) = [file EXCEPT ![n] = row]
    BY DEF Shared
  <2> HIDE DEF row
  <2> QED
    BY <1>1, <2>1
<1>3. OpenFile(path) \in Overlay
  <2>1. content[Visible(path)] \in Text
    BY VisibleIs
  <2>2. Len(content[Visible(path)]) \in Nat
    BY <2>1 DEF Text
  <2> QED
    BY <2>2, NewOverlay DEF OpenFile
<1>4. ASSUME file[n] # None
      PROVE  /\ Reopened(file[n]) \in Overlay
             /\ Reopened(file[n]).path = file[n].path /\ Reopened(file[n]).ext = file[n].ext
             /\ Reopened(file[n]).size = file[n].size
             /\ Reopened(file[n]).refs = file[n].refs + 1
  BY <1>4, OverlayOf DEF Overlay, Reopened
<1>5. row \in Overlay
  BY <1>3, <1>4
<1> QED
  BY <1>2, <1>3, <1>4, <1>5, NoneIsNoRow

LEMMA EmptiedIs ==
  ASSUME Sane, NEW n \in Nodes
  PROVE  /\ OverlaysOK(Emptied(n))
         /\ \A m \in Nodes : m # n => Emptied(n)[m] = file[m]
         /\ Emptied(n)[n] = None <=> file[n] = None
         /\ file[n] # None => /\ Emptied(n)[n].path = file[n].path
                              /\ Emptied(n)[n].refs = file[n].refs
                              /\ Emptied(n)[n].size = file[n].size
                              /\ Emptied(n)[n].ext = Clear
                              /\ Emptied(n)[n] \in Overlay
<1>1. file \in [Nodes -> {None} \cup Overlay] /\ OverlaysOK(file)
  BY DEF Sane, OverlaysOK
<1>2. CASE file[n] = None
  BY <1>1, <1>2 DEF Emptied
<1>3. CASE file[n] # None
  <2> DEFINE row == [file[n] EXCEPT !.ext = Clear]
  <2>1. Emptied(n) = [file EXCEPT ![n] = row]
    BY <1>3 DEF Emptied
  <2>2. /\ row \in Overlay /\ row.path = file[n].path /\ row.refs = file[n].refs
        /\ row.size = file[n].size /\ row.ext = Clear
    BY <1>3, OverlayOf, ClearIsClean DEF Overlay
  <2>3. content[n] # None
    BY <1>3, OverlayOf
  <2> HIDE DEF row
  <2>4. OverlaysOK([file EXCEPT ![n] = row])
    BY <2>2, <2>3, OverlaySet
  <2> QED
    BY <1>1, <1>3, <2>1, <2>2, <2>4, NoneIsNoRow
<1> QED
  BY <1>2, <1>3

LEMMA DroppedIs ==
  ASSUME Sane, NEW n \in Nodes, file[n] # None
  PROVE  /\ Dropped([file[n] EXCEPT !.ext = Clear]) \in {None} \cup Overlay
         /\ file[n].refs > 1 =>
              /\ Dropped([file[n] EXCEPT !.ext = Clear]) \in Overlay
              /\ Dropped([file[n] EXCEPT !.ext = Clear]).refs = file[n].refs - 1
              /\ Dropped([file[n] EXCEPT !.ext = Clear]).path = file[n].path
              /\ Dropped([file[n] EXCEPT !.ext = Clear]).size = file[n].size
              /\ Dropped([file[n] EXCEPT !.ext = Clear]).ext = Clear
         /\ ~(file[n].refs > 1) => Dropped([file[n] EXCEPT !.ext = Clear]) = None
<1> DEFINE f == [file[n] EXCEPT !.ext = Clear]
           g == [f EXCEPT !.refs = f.refs - 1]
<1>1. /\ f \in Overlay /\ f.path = file[n].path /\ f.refs = file[n].refs /\ f.refs \in Nat
      /\ f.size = file[n].size /\ f.ext = Clear
  BY OverlayOf, ClearIsClean DEF Overlay
<1> HIDE DEF f
<1>2. f.refs > 1 => /\ g \in Overlay /\ g.path = f.path /\ g.refs = f.refs - 1
                    /\ g.size = f.size /\ g.ext = f.ext
  BY <1>1 DEF Overlay
<1>3. Dropped(f) = IF f.refs > 1 THEN g ELSE None
  BY DEF Dropped
<1> QED
  BY <1>1, <1>2, <1>3 DEF f

LEMMA OpeningSane ==
  ASSUME Sane, NEW h \in Fds, NEW n \in Nodes,
         \/ OpenRead(n, h) \/ OpenStream(n, h) \/ OpenAppend(n, h)
         \/ OpenRandom(n, h) \/ OpenTruncated(n, h)
  PROVE  Sane'
<1>1. Linked(n) # {} /\ placed' = placed
  BY DEF OpenRead, OpenStream, OpenAppend, OpenRandom, OpenTruncated, Opens, engine
<1>2. /\ PathOf(n) \in Names /\ content[n] # None /\ content[n] \in Text /\ truth[n] \in Text
      /\ Found(n) \in Nodes /\ content[Found(n)] # None
  BY <1>1, PathOfIs
<1>3. ASSUME NEW mode \in {"r", "w", "a", "rw"}, NEW m \in {n, Found(n)}
      PROVE  HandlesOK([fd EXCEPT ![h] = Handle(mode, n, PathOf(n), m)])
  <2> DEFINE row == Handle(mode, n, PathOf(n), m)
  <2>1. row \in HandleRow /\ row.ino = n /\ row.node = m
    BY <1>2, EmptyText DEF Handle, HandleRow
  <2> HIDE DEF row
  <2>2. HandlesOK([fd EXCEPT ![h] = row])
    BY <1>2, <2>1, HandleSet
  <2> QED
    BY <2>2 DEF row
<1>4. Alike([truth EXCEPT ![n] = <<>>])
  <2>1. <<>> \in Text
    BY DEF Text
  <2> QED
    BY <1>2, <2>1, NoneIsNoRow DEF Sane, Alike, Contents
<1>5. Visible(PathOf(n)) # None
  BY <1>1, PathOfIs DEF Found
<1>6. CASE OpenRead(n, h) \/ OpenStream(n, h) \/ OpenAppend(n, h)
  <2>1. HandlesOK(fd')
    BY <1>3, <1>6 DEF OpenRead, OpenStream, OpenAppend, Install
  <2>2. content' = content /\ file' = file /\ Alike(truth')
    BY <1>4, <1>6, SaneAsIs DEF OpenRead, OpenStream, OpenAppend, engine
  <2> QED
    BY <1>1, <2>1, <2>2, SaneAsIs, SaneKept
<1>7. OverlaysOK(Shared(n, PathOf(n)))
  <2>1. Shared(n, PathOf(n))[n] \in {None} \cup Overlay
        /\ Shared(n, PathOf(n)) = [file EXCEPT ![n] = Shared(n, PathOf(n))[n]]
    BY <1>2, <1>5, SharedIs
  <2>2. OverlaysOK([file EXCEPT ![n] = Shared(n, PathOf(n))[n]])
    BY <1>2, <2>1, OverlaySet
  <2> QED
    BY <2>1, <2>2
<1>8. CASE OpenRandom(n, h)
  <2>1. HandlesOK(fd') /\ OverlaysOK(file')
    BY <1>3, <1>7, <1>8 DEF OpenRandom, Install
  <2>2. content' = content /\ truth' = truth
    BY <1>8 DEF OpenRandom, engine
  <2> QED
    BY <1>1, <2>1, <2>2, SaneAsIs, SaneKept
<1>9. CASE OpenTruncated(n, h)
  <2> DEFINE f == Shared(n, PathOf(n))[n]
             g == [f EXCEPT !.ext = Clear, !.size = 0]
             flushed == Flushed(n, content)
             k == Visible(f.path)
  <2>1. f \in Overlay
    BY <1>2, <1>5, SharedIs
  <2>2. CASE Reach(f.path)
    <3>1. /\ fd' = [fd EXCEPT ![h] = Handle("rw", n, PathOf(n), n)]
          /\ content' = [flushed EXCEPT ![k] = <<>>]
          /\ file' = [file EXCEPT ![n] = g] /\ truth' = [truth EXCEPT ![n] = <<>>]
      BY <1>9, <2>2 DEF OpenTruncated, Install
    <3>2. g \in Overlay
      BY <2>1, ClearIsClean DEF Overlay
    <3>3. k \in Nodes /\ content[k] # None
      BY <2>2, VisibleIs DEF Reach
    <3>4. Flushable(n)
      BY <1>2, <1>5, <2>2, SharedIs DEF Flushable, Pending
    <3>5. Alike(flushed)
      BY <3>4, FlushedIs, SaneAsIs
    <3> HIDE DEF flushed, g, k
    <3>6. <<>> \in Text
      BY DEF Text
    <3>7. Alike([flushed EXCEPT ![k] = <<>>])
      BY <3>3, <3>5, <3>6, AlikeSet
    <3>8. OverlaysOK([file EXCEPT ![n] = g])
      BY <1>2, <3>2, OverlaySet
    <3>9. HandlesOK(fd')
      BY <1>3, <3>1
    <3> QED
      BY <1>1, <1>4, <3>1, <3>7, <3>8, <3>9, SaneKept
  <2>3. CASE ~Reach(f.path)
    <3>1. file' = Shared(n, PathOf(n)) /\ fd' = fd /\ content' = content /\ truth' = truth
      BY <1>2, <1>5, <1>9, <2>3, SharedIs DEF OpenTruncated
    <3> QED
      BY <1>1, <1>7, <3>1, SaneAsIs, SaneKept
  <2> QED
    BY <2>2, <2>3
<1> QED
  BY <1>6, <1>8, <1>9

LEMMA BirthSane ==
  ASSUME Sane, NEW name \in Names, NEW n \in Nodes, content[n] = None,
         placed' = Placed(name, n),
         content' = [content EXCEPT ![n] = <<>>], truth' = [truth EXCEPT ![n] = <<>>],
         fd' \in [Fds -> {None} \cup HandleRow],
         \A h \in Fds : fd'[h] = fd[h] \/ (fd'[h].ino = n /\ fd'[h].node = n),
         file' \in [Nodes -> {None} \cup Overlay],
         \A m \in Nodes : m # n => file'[m] = file[m]
  PROVE  Sane'
<1>1. <<>> \in Text /\ <<>> # None
  BY EmptyText
<1>2. /\ content' \in Contents /\ content'[n] = <<>>
      /\ \A m \in Nodes : m # n => content'[m] = content[m]
  BY <1>1 DEF Sane, Contents
<1>3. truth' \in Contents /\ truth'[n] = <<>> /\ \A m \in Nodes : m # n => truth'[m] = truth[m]
  BY <1>1 DEF Sane, Alike, Contents
<1>4. Alike(truth)'
  BY <1>1, <1>2, <1>3 DEF Sane, Alike
<1>5. PlacesOK(placed)'
  <2>1. /\ placed' \in SUBSET Placement /\ IsFiniteSet(placed')
        /\ \A p \in placed' : p \in placed \/ p.node = n
    BY PlacedIs
  <2>2. \A p \in placed : p.node \in Nodes /\ content[p.node] # None
    BY PlacementOf
  <2>3. \A m \in Nodes : content[m] # None => content'[m] # None
    BY <1>1, <1>2
  <2> QED
    BY <1>1, <1>2, <2>1, <2>2, <2>3 DEF PlacesOK
<1>6. HandlesOK(fd)'
  <2>1. \A g \in Fds : fd[g] # None =>
          /\ fd[g].ino \in Nodes /\ content[fd[g].ino] # None
          /\ fd[g].node \in Nodes /\ content[fd[g].node] # None
    BY HandleOf
  <2>2. \A m \in Nodes : content[m] # None => content'[m] # None
    BY <1>1, <1>2
  <2> QED
    BY <1>1, <1>2, <2>1, <2>2 DEF HandlesOK
<1>7. OverlaysOK(file)'
  <2>3. \A m \in Nodes : file[m] # None => content[m] # None
    BY DEF Sane, OverlaysOK
  <2> QED
    BY <1>1, <1>2, <2>3 DEF OverlaysOK
<1> QED
  BY <1>2, <1>4, <1>5, <1>6, <1>7 DEF Sane

LEMMA CreateSane ==
  ASSUME Sane, NEW h \in Fds, NEW name \in Names, NEW kind \in Kinds, Create(name, kind, h)
  PROVE  Sane'
<1> DEFINE row(n) == Handle(IF kind = "r" THEN "w" ELSE kind, n, name, n)
           f == [path |-> name, refs |-> 1, size |-> 0, ext |-> Clear]
<1>1. PICK n \in Nodes :
        /\ content[n] = None /\ placed' = Placed(name, n)
        /\ content' = [content EXCEPT ![n] = <<>>] /\ truth' = [truth EXCEPT ![n] = <<>>]
        /\ fd' = [fd EXCEPT ![h] = row(n)]
        /\ (file' = file \/ file' = [file EXCEPT ![n] = f])
  BY DEF Create, Install, Fresh
<1>2. (IF kind = "r" THEN "w" ELSE kind) \in {"r", "w", "a", "rw"}
  BY FuseAssumption
<1>3. row(n) \in HandleRow /\ row(n).ino = n /\ row(n).node = n
  BY <1>2, EmptyText DEF Handle, HandleRow
<1>4. f \in Overlay
  BY NewOverlay
<1> HIDE DEF row, f
<1>5. /\ fd' \in [Fds -> {None} \cup HandleRow]
      /\ \A g \in Fds : fd'[g] = fd[g] \/ (fd'[g].ino = n /\ fd'[g].node = n)
  BY <1>1, <1>3 DEF Sane, HandlesOK
<1>6. /\ file' \in [Nodes -> {None} \cup Overlay]
      /\ \A m \in Nodes : m # n => file'[m] = file[m]
  BY <1>1, <1>4 DEF Sane, OverlaysOK
<1> QED
  BY <1>1, <1>5, <1>6, BirthSane

LEMMA MknodSane ==
  ASSUME Sane, NEW name \in Names, Mknod(name)
  PROVE  Sane'
<1>1. PICK n \in Nodes :
        /\ content[n] = None /\ placed' = Placed(name, n)
        /\ content' = [content EXCEPT ![n] = <<>>] /\ truth' = [truth EXCEPT ![n] = <<>>]
        /\ fd' = fd /\ file' = file
  BY DEF Mknod, Fresh
<1>2. /\ fd' \in [Fds -> {None} \cup HandleRow]
      /\ file' \in [Nodes -> {None} \cup Overlay]
  BY <1>1 DEF Sane, HandlesOK, OverlaysOK
<1> QED
  BY <1>1, <1>2, BirthSane

---------------------------------------------------------------------------
(* References to an overlay                                                *)

Taken(f) == IF f = None THEN 0 ELSE f.refs

(* Every random-access handle has its reference to the overlay.            *)
Referenced == \A n \in Nodes : Cardinality(Opened(n, "rw")) <= Taken(file[n])

LEMMA OpenedFinite ==
  ASSUME NEW n, NEW mode
  PROVE  IsFiniteSet(Opened(n, mode)) /\ Opened(n, mode) \in SUBSET Fds
<1>1. Opened(n, mode) \in SUBSET Fds
  BY DEF Opened, On
<1> QED
  BY <1>1, FuseAssumption, FS_Subset

LEMMA RandomHasOverlay ==
  ASSUME Sane, Referenced, NEW h \in Fds, Mode(h, "rw")
  PROVE  file[fd[h].ino] # None /\ file[fd[h].ino].refs >= 1
<1> DEFINE n == fd[h].ino
           S == Opened(n, "rw")
<1>1. n \in Nodes
  BY HandleOf DEF Mode
<1>2. h \in S
  BY DEF Opened, On, Mode
<1>3. IsFiniteSet(S)
  BY OpenedFinite
<1> HIDE DEF S
<1>4. Cardinality(S) \in Nat /\ Cardinality(S) # 0
  BY <1>2, <1>3, FS_CardinalityType, FS_EmptySet
<1>5. Cardinality(S) <= IF file[n] = None THEN 0 ELSE file[n].refs
  BY <1>1 DEF Referenced, Taken, S
<1>6. file[n] # None
  BY <1>4, <1>5
<1>7. file[n].refs \in Nat
  BY <1>1, <1>6, OverlayOf
<1> QED
  BY <1>4, <1>5, <1>6, <1>7

---------------------------------------------------------------------------
(* The rest of the steps                                                   *)

LEMMA WritingSane ==
  ASSUME Sane, Referenced, NEW h \in Fds,
         \E b \in Bytes : \/ WriteStream(h, b) \/ WriteAppend(h, b)
                          \/ \E off \in Offsets : WriteRandom(h, off, b)
  PROVE  Sane'
<1>1. PICK b \in Bytes : \/ WriteStream(h, b) \/ WriteAppend(h, b)
                         \/ \E off \in Offsets : WriteRandom(h, off, b)
  OBVIOUS
<1> DEFINE n == fd[h].ino
           path == fd[h].path
           buf == fd[h].buf
           long == Append(buf, b)
<1>2. fd[h] # None /\ placed' = placed
  BY <1>1 DEF WriteStream, WriteAppend, WriteRandom, Mode, engine
<1>3. /\ fd[h] \in HandleRow /\ n \in Nodes /\ path \in Names /\ buf \in Text
      /\ content[n] \in Text /\ truth[n] \in Text /\ content[n] # None
      /\ content[fd[h].node] # None
  BY <1>2, HandleOf
<1>4. long \in Text
  BY <1>3 DEF Text
<1>5. ASSUME NEW x \in Text PROVE Alike([truth EXCEPT ![n] = x])
  BY <1>3, <1>5, NoneIsNoRow DEF Sane, Alike, Contents
<1>6. ASSUME NEW x \in Text
      PROVE  HandlesOK([fd EXCEPT ![h] = [fd[h] EXCEPT !.buf = x, !.wrote = TRUE]])
  <2> DEFINE row == [fd[h] EXCEPT !.buf = x, !.wrote = TRUE]
  <2>1. row \in HandleRow /\ row.ino = n /\ row.node = fd[h].node
    BY <1>3 DEF HandleRow
  <2> HIDE DEF row
  <2>2. HandlesOK([fd EXCEPT ![h] = row])
    BY <1>3, <2>1, HandleSet
  <2> QED
    BY <2>2 DEF row
<1>7. fd \in [Fds -> {None} \cup HandleRow]
  BY DEF Sane, HandlesOK
<1>8. CASE WriteStream(h, b)
  <2>1. fd' = [fd EXCEPT ![h] = [fd[h] EXCEPT !.buf = long, !.wrote = TRUE]]
    BY <1>7, <1>8 DEF WriteStream
  <2>2. truth' = [truth EXCEPT ![n] = PutByte(truth[n], Len(buf), b)]
    BY <1>8 DEF WriteStream
  <2>3. PutByte(truth[n], Len(buf), b) \in Text
    <3>1. Len(buf) \in Nat
      BY <1>3 DEF Text
    <3> QED
      BY <1>3, <3>1, PutByteIs
  <2>4. content' = content /\ file' = file
    BY <1>8 DEF WriteStream, engine
  <2>5. Alike(truth') /\ HandlesOK(fd')
    BY <1>4, <1>5, <1>6, <2>1, <2>2, <2>3
  <2> QED
    BY <1>2, <2>4, <2>5, SaneAsIs, SaneKept
<1>9. CASE WriteAppend(h, b)
  <2>1. truth' = [truth EXCEPT ![n] = Append(truth[n], b)] /\ file' = file
    BY <1>9 DEF WriteAppend
  <2>2. Append(truth[n], b) \in Text
    BY <1>3 DEF Text
  <2>3. Alike(truth')
    BY <1>5, <2>1, <2>2
  <2> DEFINE wrote == [fd EXCEPT ![h].buf = Append(@, b), ![h].wrote = TRUE]
  <2>4. wrote = [fd EXCEPT ![h] = [fd[h] EXCEPT !.buf = long, !.wrote = TRUE]]
        /\ wrote[h] = [fd[h] EXCEPT !.buf = long, !.wrote = TRUE]
    BY <1>7
  <2>5. wrote[h].buf = long
    BY <1>3, <2>4 DEF HandleRow
  <2>6. CASE fd' = wrote /\ content' = content
    <3>1. HandlesOK(fd')
      BY <1>4, <1>6, <2>4, <2>6
    <3> QED
      BY <1>2, <2>1, <2>3, <2>6, <3>1, SaneAsIs, SaneKept
  <2>7. CASE /\ Reach(path) /\ fd' = [wrote EXCEPT ![h].buf = <<>>]
             /\ content' = [content EXCEPT ![Visible(path)] = @ \o long]
    <3>1. [[fd[h] EXCEPT !.buf = long, !.wrote = TRUE] EXCEPT !.buf = <<>>]
          = [fd[h] EXCEPT !.buf = <<>>, !.wrote = TRUE]
      BY <1>3 DEF HandleRow
    <3>2. fd' = [fd EXCEPT ![h] = [fd[h] EXCEPT !.buf = <<>>, !.wrote = TRUE]]
      BY <1>7, <2>4, <2>7, <3>1
    <3>3. HandlesOK(fd')
      BY <1>6, <3>2, EmptyText
    <3> DEFINE k == Visible(path)
    <3>4. k \in Nodes /\ content[k] # None /\ content[k] \in Text
      BY <2>7, VisibleIs DEF Reach
    <3>5. content[k] \o long \in Text
      BY <1>4, <3>4, JoinedText
    <3> HIDE DEF k, long
    <3>6. content' = [content EXCEPT ![k] = content[k] \o long]
      BY <2>7 DEF k
    <3>7. Alike(content')
      BY <3>4, <3>5, <3>6, AlikeSet, SaneAsIs
    <3> QED
      BY <1>2, <2>1, <2>3, <3>3, <3>7, SaneAsIs, SaneKept
  <2>8. \/ fd' = wrote /\ content' = content
        \/ /\ Reach(path) /\ fd' = [wrote EXCEPT ![h].buf = <<>>]
           /\ content' = [content EXCEPT ![Visible(path)] = @ \o wrote[h].buf]
    BY <1>9 DEF WriteAppend
  <2> QED
    BY <2>5, <2>6, <2>7, <2>8
<1>10. ASSUME NEW off \in Offsets, WriteRandom(h, off, b) PROVE Sane'
  <2> DEFINE f == [file[n] EXCEPT !.ext[off] = b, !.size = Max({@, off + 1})]
             g == [f EXCEPT !.ext = Clear]
             k == Visible(f.path)
  <2>1. file[n] # None
    BY <1>10, RandomHasOverlay DEF WriteRandom
  <2>2. /\ file[n] \in Overlay /\ file[n].size \in Nat /\ off \in Nat
        /\ file[n].ext \in [0..(MaxLen - 1) -> {None} \cup Bytes] /\ off \in 0..(MaxLen - 1)
    BY <1>3, <2>1, OverlayOf DEF Offsets
  <2>3. Max({file[n].size, off + 1}) \in Nat
    <3> DEFINE a == file[n].size
               e == off + 1
    <3>1. a \in Nat /\ e \in Nat
      BY <2>2
    <3> HIDE DEF a, e
    <3>2. Max({a, e}) \in Nat
      BY <3>1, MaxPair
    <3> QED
      BY <3>2 DEF a, e
  <2>4. f \in Overlay
    BY <2>2, <2>3 DEF Overlay
  <2>5. g \in Overlay
    BY <2>4, ClearIsClean DEF Overlay
  <2>6. /\ fd' = [fd EXCEPT ![h].wrote = TRUE]
        /\ truth' = [truth EXCEPT ![n] = PutByte(truth[n], off, b)]
        /\ \/ file' = [file EXCEPT ![n] = f] /\ content' = content
           \/ /\ Reach(f.path) /\ file' = [file EXCEPT ![n] = g]
              /\ content' = [content EXCEPT ![k] = Overlaid(content[k], f)]
    BY <1>10 DEF WriteRandom
  <2> HIDE DEF f, g
  <2>7. Alike(truth')
    <3>1. PutByte(truth[n], off, b) \in Text
      BY <1>3, <2>2, PutByteIs
    <3> QED
      BY <1>5, <2>6, <3>1
  <2>8. HandlesOK(fd')
    <3> DEFINE row == [fd[h] EXCEPT !.wrote = TRUE]
    <3>1. row \in HandleRow /\ row.ino = n /\ row.node = fd[h].node
      BY <1>3 DEF HandleRow
    <3>2. fd' = [fd EXCEPT ![h] = row]
      BY <2>6
    <3> HIDE DEF row
    <3> QED
      BY <1>3, <3>1, <3>2, HandleSet
  <2>9. OverlaysOK(file')
    <3>1. OverlaysOK([file EXCEPT ![n] = f]) /\ OverlaysOK([file EXCEPT ![n] = g])
      BY <1>3, <2>4, <2>5, OverlaySet
    <3> QED
      BY <2>6, <3>1
  <2>10. Alike(content')
    <3>1. CASE content' = content
      BY <3>1, SaneAsIs
    <3>2. CASE Reach(f.path) /\ content' = [content EXCEPT ![k] = Overlaid(content[k], f)]
      <4>1. k \in Nodes /\ content[k] # None /\ content[k] \in Text
        BY <3>2, VisibleIs DEF Reach
      <4>2. Overlaid(content[k], f) \in Text
        BY <2>4, <4>1, OverlaidIs
      <4> HIDE DEF k
      <4>3. Alike([content EXCEPT ![k] = Overlaid(content[k], f)])
        BY <4>1, <4>2, AlikeSet, SaneAsIs
      <4> QED
        BY <3>2, <4>3
    <3> QED
      BY <2>6, <3>1, <3>2
  <2> QED
    BY <1>2, <2>7, <2>8, <2>9, <2>10, SaneKept
<1> QED
  BY <1>1, <1>8, <1>9, <1>10

(* A handle after a flush: nothing written since, and what is left to append. *)
LEMMA FlushedRow ==
  ASSUME NEW r \in HandleRow
  PROVE  /\ [r EXCEPT !.wrote = FALSE] \in HandleRow
         /\ [r EXCEPT !.wrote = FALSE].ino = r.ino /\ [r EXCEPT !.wrote = FALSE].mode = r.mode
         /\ [r EXCEPT !.wrote = FALSE].path = r.path /\ [r EXCEPT !.wrote = FALSE].buf = r.buf
         /\ [r EXCEPT !.wrote = FALSE].done = r.done /\ [r EXCEPT !.wrote = FALSE].wrote = FALSE
         /\ [r EXCEPT !.wrote = FALSE].node = r.node
BY DEF HandleRow

LEMMA EmptiedRow ==
  ASSUME NEW r \in HandleRow
  PROVE  /\ [r EXCEPT !.buf = <<>>] \in HandleRow
         /\ [r EXCEPT !.buf = <<>>].ino = r.ino /\ [r EXCEPT !.buf = <<>>].mode = r.mode
         /\ [r EXCEPT !.buf = <<>>].path = r.path /\ [r EXCEPT !.buf = <<>>].buf = <<>>
         /\ [r EXCEPT !.buf = <<>>].done = r.done /\ [r EXCEPT !.buf = <<>>].wrote = r.wrote
         /\ [r EXCEPT !.buf = <<>>].node = r.node
BY EmptyText DEF HandleRow

LEMMA TextsAlike ==
  ASSUME NEW c, Alike(c), NEW n \in Nodes, content[n] # None, NEW s \in Text,
         NEW d, d = [c EXCEPT ![n] = s]
  PROVE  Alike(d) /\ d[n] = s /\ \A m \in Nodes : m # n => d[m] = c[m]
BY AlikeSet DEF Alike, Contents

LEMMA ReadSane ==
  ASSUME Sane, NEW h \in Fds, Read(h)
  PROVE  Sane'
<1> DEFINE n == fd[h].ino
<1>1. fd[h] # None /\ n \in Nodes
  BY HandleOf DEF Read, Mode
<1>2. /\ Settleable(n) /\ content' = Settled(n) /\ file' = Emptied(n)
      /\ placed' = placed /\ truth' = truth
      /\ fd' = [g \in Fds |-> IF g \in Batches(n) THEN [fd[g] EXCEPT !.buf = <<>>] ELSE fd[g]]
  BY DEF Read
<1>3. Alike(content') /\ OverlaysOK(file')
  BY <1>1, <1>2, SettledIs, EmptiedIs
<1>4. HandlesOK(fd')
  <2>1. ASSUME NEW g \in Fds
        PROVE  /\ fd'[g] \in {None} \cup HandleRow
               /\ (fd'[g] # None => content[fd'[g].ino] # None /\ content[fd'[g].node] # None)
    <3>1. fd[g] # None => /\ fd[g] \in HandleRow /\ content[fd[g].ino] # None
                          /\ content[fd[g].node] # None
                          /\ [fd[g] EXCEPT !.buf = <<>>] \in HandleRow
                          /\ [fd[g] EXCEPT !.buf = <<>>].node = fd[g].node
                          /\ [fd[g] EXCEPT !.buf = <<>>].ino = fd[g].ino
      BY HandleOf, EmptyText DEF HandleRow
    <3>2. g \in Batches(n) => fd[g] # None
      BY DEF Batches, Opened, On
    <3>3. fd'[g] = IF g \in Batches(n) THEN [fd[g] EXCEPT !.buf = <<>>] ELSE fd[g]
      BY <1>2
    <3> QED
      BY <3>1, <3>2, <3>3
  <2>2. fd' = [g \in Fds |-> fd'[g]]
    BY <1>2
  <2>3. fd' \in [Fds -> {None} \cup HandleRow]
    BY <2>1, <2>2
  <2> QED
    BY <2>1, <2>3 DEF HandlesOK
<1> QED
  BY <1>2, <1>3, <1>4, SaneAsIs, SaneKept

LEMMA TruncatedOpen ==
  ASSUME Sane, NEW h \in Fds, NEW len \in 0..MaxLen, TruncateOpen(h, len), file[fd[h].ino] # None
  PROVE  Sane'
<1> DEFINE n == fd[h].ino
           k == Visible(file[n].path)
           flushed == Flushed(n, content)
           f == [file[n] EXCEPT !.ext = Clear, !.size = len]
<1>1. fd[h] # None /\ placed' = placed /\ fd' = fd /\ Reach(file[n].path)
  BY DEF TruncateOpen, Mode
<1>2. n \in Nodes /\ content[n] # None /\ content[n] \in Text /\ truth[n] \in Text
  BY <1>1, HandleOf
<1>3. len \in Nat
  BY FuseAssumption
<1>4. /\ content' = [flushed EXCEPT ![k] = Resized(flushed[k], len)]
      /\ truth' = [truth EXCEPT ![n] = Resized(truth[n], len)]
  BY DEF TruncateOpen
<1>5. file' = [file EXCEPT ![n] = f]
  BY DEF TruncateOpen, Sane, OverlaysOK
<1>6. f \in Overlay
  <2>1. file[n] \in Overlay
    BY <1>2, OverlayOf
  <2> QED
    BY <1>3, <2>1, ClearIsClean DEF Overlay
<1>7. k \in Nodes /\ content[k] # None
  BY <1>1, VisibleIs DEF Reach
<1>8. Alike(flushed)
  BY <1>1, <1>2, FlushedIs, SaneAsIs DEF Flushable
<1> HIDE DEF flushed, k, f
<1>9. flushed[k] \in Text
  BY <1>7, <1>8, AlikeText
<1>10. Alike(content')
  <2>1. Resized(flushed[k], len) \in Text
    BY <1>3, <1>9, ResizedIs
  <2> QED
    BY <1>4, <1>7, <1>8, <2>1, AlikeSet
<1>11. Alike(truth')
  <2>1. Resized(truth[n], len) \in Text
    BY <1>2, <1>3, ResizedIs
  <2> HIDE DEF n
  <2> QED
    BY <1>2, <1>4, <2>1, AlikeSet, SaneAsIs
<1>12. OverlaysOK(file')
  BY <1>2, <1>5, <1>6, OverlaySet
<1> QED
  BY <1>1, <1>10, <1>11, <1>12, SaneAsIs, SaneKept

LEMMA TruncatedNamed ==
  ASSUME Sane, NEW n \in Nodes, NEW len \in 0..MaxLen, TruncateNamed(n, len)
  PROVE  Sane'
<1>1. /\ placed' = placed /\ fd' = fd /\ file' = file /\ Linked(n) # {}
      /\ content' = [content EXCEPT ![Found(n)] = Resized(content[Found(n)], len)]
      /\ truth' = [truth EXCEPT ![n] = Resized(truth[n], len)]
  BY DEF TruncateNamed
<1>2. /\ content[n] # None /\ truth[n] \in Text
      /\ Found(n) \in Nodes /\ content[Found(n)] # None /\ content[Found(n)] \in Text
  BY <1>1, PathOfIs
<1>3. Resized(content[Found(n)], len) \in Text /\ Resized(truth[n], len) \in Text
  <2>1. len \in Nat
    BY FuseAssumption
  <2> QED
    BY <1>2, <2>1, ResizedIs
<1>4. Alike(content') /\ Alike(truth')
  BY <1>1, <1>2, <1>3, AlikeSet, SaneAsIs
<1> QED
  BY <1>1, <1>4, SaneAsIs, SaneKept

LEMMA FlushRandomSane ==
  ASSUME Sane, NEW h \in Fds, FlushRandom(h)
  PROVE  Sane'
<1> DEFINE n == fd[h].ino
<1>1. /\ fd[h] # None /\ Flushable(n) /\ content' = Flushed(n, content) /\ file' = Emptied(n)
      /\ placed' = placed /\ truth' = truth /\ fd' = [fd EXCEPT ![h].wrote = FALSE]
  BY DEF FlushRandom, Mode
<1>2. n \in Nodes
  BY <1>1, HandleOf
<1>3. Alike(content') /\ OverlaysOK(file')
  BY <1>1, <1>2, FlushedIs, EmptiedIs, SaneAsIs
<1>4. HandlesOK(fd')
  <2> DEFINE row == [fd[h] EXCEPT !.wrote = FALSE]
  <2>1. fd' = [fd EXCEPT ![h] = row]
    BY <1>1
  <2>2. fd[h] \in HandleRow /\ content[fd[h].ino] # None /\ content[fd[h].node] # None
    BY <1>1, HandleOf
  <2>3. row \in HandleRow /\ row.ino = fd[h].ino /\ row.node = fd[h].node
    BY <2>2, FlushedRow
  <2> HIDE DEF row
  <2> QED
    BY <2>1, <2>2, <2>3, HandleSet
<1> QED
  BY <1>1, <1>3, <1>4, SaneAsIs, SaneKept

LEMMA FlushAppendSane ==
  ASSUME Sane, NEW h \in Fds, FlushAppend(h)
  PROVE  Sane'
<1>1. /\ fd[h] # None /\ placed' = placed /\ truth' = truth /\ file' = file
      /\ fd' = [fd EXCEPT ![h].buf = <<>>, ![h].wrote = FALSE]
      /\ \/ content' = content
         \/ content' = Appended(h, content) /\ Visible(fd[h].path) # None
  BY DEF FlushAppend, Mode, Reach
<1>2. Alike(content')
  BY <1>1, AppendedIs, SaneAsIs
<1>3. HandlesOK(fd')
  <2> DEFINE mid == [fd[h] EXCEPT !.buf = <<>>]
             row == [mid EXCEPT !.wrote = FALSE]
  <2>1. fd' = [fd EXCEPT ![h] = row]
    <3>1. fd \in [Fds -> {None} \cup HandleRow]
      BY DEF Sane, HandlesOK
    <3> QED
      BY <1>1, <3>1
  <2>2. fd[h] \in HandleRow /\ content[fd[h].ino] # None /\ content[fd[h].node] # None
    BY <1>1, HandleOf
  <2>3. mid \in HandleRow /\ mid.ino = fd[h].ino /\ mid.node = fd[h].node
    BY <2>2, EmptiedRow
  <2> HIDE DEF mid
  <2>4. row \in HandleRow /\ row.ino = fd[h].ino /\ row.node = fd[h].node
    BY <2>3, FlushedRow
  <2> HIDE DEF row
  <2> QED
    BY <2>1, <2>2, <2>4, HandleSet
<1> QED
  BY <1>1, <1>2, <1>3, SaneAsIs, SaneKept

(* The handle a committed stream becomes: a closed stream, or random access. *)
LEMMA StreamRows ==
  ASSUME NEW r \in HandleRow
  PROVE  /\ [[r EXCEPT !.done = TRUE] EXCEPT !.wrote = FALSE] \in HandleRow
         /\ [[r EXCEPT !.done = TRUE] EXCEPT !.wrote = FALSE].ino = r.ino
         /\ [[r EXCEPT !.done = TRUE] EXCEPT !.wrote = FALSE].node = r.node
         /\ [[r EXCEPT !.done = TRUE] EXCEPT !.wrote = FALSE].mode = r.mode
         /\ [[r EXCEPT !.done = TRUE] EXCEPT !.wrote = FALSE].buf = r.buf
         /\ [[r EXCEPT !.done = TRUE] EXCEPT !.wrote = FALSE].path = r.path
         /\ [[r EXCEPT !.done = TRUE] EXCEPT !.wrote = FALSE].done = TRUE
         /\ [[r EXCEPT !.done = TRUE] EXCEPT !.wrote = FALSE].wrote = FALSE
         /\ [[[r EXCEPT !.mode = "rw"] EXCEPT !.wrote = FALSE] EXCEPT !.buf = <<>>] \in HandleRow
         /\ [[[r EXCEPT !.mode = "rw"] EXCEPT !.wrote = FALSE] EXCEPT !.buf = <<>>].ino = r.ino
         /\ [[[r EXCEPT !.mode = "rw"] EXCEPT !.wrote = FALSE] EXCEPT !.buf = <<>>].node = r.node
         /\ [[[r EXCEPT !.mode = "rw"] EXCEPT !.wrote = FALSE] EXCEPT !.buf = <<>>].mode = "rw"
         /\ [[[r EXCEPT !.mode = "rw"] EXCEPT !.wrote = FALSE] EXCEPT !.buf = <<>>].buf = <<>>
         /\ [[[r EXCEPT !.mode = "rw"] EXCEPT !.wrote = FALSE] EXCEPT !.buf = <<>>].path = r.path
         /\ [[[r EXCEPT !.mode = "rw"] EXCEPT !.wrote = FALSE] EXCEPT !.buf = <<>>].wrote = FALSE
BY EmptyText DEF HandleRow

StreamDone(h) == [[fd[h] EXCEPT !.done = TRUE] EXCEPT !.wrote = FALSE]
StreamTurned(h) == [[[fd[h] EXCEPT !.mode = "rw"] EXCEPT !.wrote = FALSE] EXCEPT !.buf = <<>>]

(* What flushing a stream does, field by field.                            *)
LEMMA StreamFlushed ==
  ASSUME Sane, NEW h \in Fds, FlushStream(h)
  PROVE  LET n == fd[h].ino
             k == Visible(fd[h].path)
             now == content'[k]
         IN  /\ fd[h] # None /\ fd[h].mode = "w" /\ placed' = placed /\ truth' = truth
             /\ held' = held
             /\ content' = IF fd[h].done THEN content ELSE [content EXCEPT ![fd[h].node] = fd[h].buf]
             /\ Alike(content')
             /\ \/ k = None /\ fd' = [fd EXCEPT ![h] = StreamDone(h)] /\ file' = file
                \/ /\ k # None /\ k \in Nodes /\ now \in Text /\ Len(now) \in Nat
                   /\ fd' = [fd EXCEPT ![h] = StreamTurned(h)]
                   /\ file' = [file EXCEPT ![n] =
                                 IF file[n] # None THEN Reopened(file[n])
                                 ELSE [path |-> fd[h].path, refs |-> 1,
                                       size |-> Len(now), ext |-> Clear]]
<1> DEFINE n == fd[h].ino
           k == Visible(fd[h].path)
           now == content'[k]
<1>1. /\ fd[h] # None /\ fd[h].mode = "w" /\ placed' = placed /\ truth' = truth /\ held' = held
      /\ content' = IF fd[h].done THEN content ELSE [content EXCEPT ![fd[h].node] = fd[h].buf]
  BY DEF FlushStream, Mode
<1>2. /\ n \in Nodes /\ fd[h].node \in Nodes /\ content[fd[h].node] # None
      /\ fd[h].buf \in Text /\ fd[h] \in HandleRow
  BY <1>1, HandleOf
<1>3. Alike(content')
  BY <1>1, <1>2, AlikeSet, SaneAsIs
<1>4. fd \in [Fds -> {None} \cup HandleRow] /\ file \in [Nodes -> {None} \cup Overlay]
  BY DEF Sane, HandlesOK, OverlaysOK
<1>5. CASE k = None
  <2>1. fd' = [fd EXCEPT ![h].done = TRUE, ![h].wrote = FALSE] /\ file' = file
    BY <1>5 DEF FlushStream
  <2>2. fd' = [fd EXCEPT ![h] = StreamDone(h)]
    BY <1>4, <2>1 DEF StreamDone
  <2> QED
    BY <1>1, <1>3, <1>5, <2>1, <2>2
<1>6. CASE k # None
  <2>1. /\ fd' = [fd EXCEPT ![h].mode = "rw", ![h].wrote = FALSE, ![h].buf = <<>>]
        /\ file' = IF file[n] # None THEN [file EXCEPT ![n].refs = @ + 1]
                   ELSE [file EXCEPT ![n] = [path |-> fd[h].path, refs |-> 1,
                                             size |-> Len(now), ext |-> Clear]]
    BY <1>6 DEF FlushStream
  <2>2. fd' = [fd EXCEPT ![h] = StreamTurned(h)]
    BY <1>4, <2>1 DEF StreamTurned
  <2>3. file' = [file EXCEPT ![n] = IF file[n] # None THEN Reopened(file[n])
                                    ELSE [path |-> fd[h].path, refs |-> 1,
                                          size |-> Len(now), ext |-> Clear]]
    <3>1. CASE file[n] # None
      <4>1. file' = [file EXCEPT ![n].refs = @ + 1]
        BY <2>1, <3>1
      <4>2. file' = [file EXCEPT ![n] = Reopened(file[n])]
        BY <1>2, <1>4, <4>1 DEF Reopened
      <4> QED
        BY <3>1, <4>2
    <3>2. CASE file[n] = None
      BY <2>1, <3>2
    <3> QED
      BY <3>1, <3>2
  <2>4. k \in Nodes /\ content[k] # None
    BY <1>6, VisibleIs
  <2>5. content'[k] \in Text
    BY <1>3, <2>4, AlikeText
  <2>6. now \in Text /\ Len(now) \in Nat
    BY <2>5 DEF Text
  <2> HIDE DEF now
  <2> QED
    BY <1>1, <1>3, <1>6, <2>2, <2>3, <2>4, <2>6 DEF now
<1> QED
  BY <1>5, <1>6

LEMMA FlushStreamSane ==
  ASSUME Sane, NEW h \in Fds, FlushStream(h)
  PROVE  Sane'
<1> DEFINE n == fd[h].ino
           k == Visible(fd[h].path)
           now == content'[k]
           fresh == [path |-> fd[h].path, refs |-> 1, size |-> Len(now), ext |-> Clear]
           row == IF file[n] # None THEN Reopened(file[n]) ELSE fresh
<1>1. /\ fd[h] # None /\ placed' = placed /\ truth' = truth /\ Alike(content')
      /\ \/ fd' = [fd EXCEPT ![h] = StreamDone(h)] /\ file' = file
         \/ /\ Len(now) \in Nat /\ fd' = [fd EXCEPT ![h] = StreamTurned(h)]
            /\ file' = [file EXCEPT ![n] = row]
  BY StreamFlushed
<1>2. /\ fd[h] \in HandleRow /\ n \in Nodes /\ fd[h].path \in Names /\ content[n] # None
      /\ content[fd[h].node] # None
  BY <1>1, HandleOf
<1>3. /\ StreamDone(h) \in HandleRow /\ StreamDone(h).ino = n
      /\ StreamTurned(h) \in HandleRow /\ StreamTurned(h).ino = n
      /\ StreamDone(h).node = fd[h].node /\ StreamTurned(h).node = fd[h].node
  BY <1>2, StreamRows DEF StreamDone, StreamTurned
<1>4. HandlesOK(fd')
  <2>1. HandlesOK([fd EXCEPT ![h] = StreamDone(h)]) /\ HandlesOK([fd EXCEPT ![h] = StreamTurned(h)])
    BY <1>2, <1>3, HandleSet
  <2> QED
    BY <1>1, <2>1
<1>5. Len(now) \in Nat => row \in Overlay
  <2>1. Len(now) \in Nat => fresh \in Overlay
    BY <1>2, NewOverlay
  <2>2. file[n] # None => Reopened(file[n]) \in Overlay
    BY <1>2, OverlayOf DEF Reopened, Overlay
  <2> HIDE DEF fresh
  <2> QED
    BY <2>1, <2>2
<1> HIDE DEF row
<1>6. OverlaysOK(file')
  <2>1. CASE file' = file
    BY <2>1, SaneAsIs
  <2>2. CASE file' = [file EXCEPT ![n] = row] /\ Len(now) \in Nat
    <3>1. OverlaysOK([file EXCEPT ![n] = row])
      BY <1>2, <1>5, <2>2, OverlaySet
    <3> QED
      BY <2>2, <3>1
  <2> QED
    BY <1>1, <2>1, <2>2
<1> QED
  BY <1>1, <1>4, <1>6, SaneAsIs, SaneKept

LEMMA ReleaseSane ==
  ASSUME Sane, Referenced, NEW h \in Fds, Release(h)
  PROVE  Sane'
<1> DEFINE n == fd[h].ino
           f == Dropped([file[n] EXCEPT !.ext = Clear])
<1>1. fd[h] # None /\ fd' = [fd EXCEPT ![h] = None] /\ placed' = placed /\ truth' = truth
  BY DEF Release
<1>2. n \in Nodes /\ content[n] # None
  BY <1>1, HandleOf
<1>3. HandlesOK(fd')
  <2>1. HandlesOK([fd EXCEPT ![h] = None])
    BY DEF Sane, HandlesOK
  <2> QED
    BY <1>1, <2>1
<1>4. CASE content' = content /\ file' = file
  BY <1>1, <1>3, <1>4, SaneAsIs, SaneKept
<1>5. CASE /\ ~Refused(h) /\ Mode(h, "rw")
           /\ content' = Flushed(n, content) /\ file' = [file EXCEPT ![n] = f]
  <2>1. Flushable(n) /\ file[n] # None
    BY <1>5, RandomHasOverlay DEF Refused
  <2>2. f \in {None} \cup Overlay
    BY <1>2, <2>1, DroppedIs
  <2> HIDE DEF f
  <2>3. OverlaysOK(file')
    <3>1. OverlaysOK([file EXCEPT ![n] = f])
      BY <1>2, <2>2, OverlaySet
    <3> QED
      BY <1>5, <3>1
  <2>4. Alike(content')
    BY <1>2, <1>5, <2>1, FlushedIs, SaneAsIs
  <2> QED
    BY <1>1, <1>3, <2>3, <2>4, SaneAsIs, SaneKept
<1>6. CASE /\ ~Refused(h) /\ Mode(h, "a") /\ fd[h].buf # <<>>
           /\ content' = Appended(h, content) /\ file' = file
  <2>1. Visible(fd[h].path) # None
    BY <1>6 DEF Refused, Reach
  <2>2. Alike(content')
    BY <1>1, <1>6, <2>1, AppendedIs, SaneAsIs
  <2> QED
    BY <1>1, <1>3, <1>6, <2>2, SaneAsIs, SaneKept
<1> QED
  BY <1>4, <1>5, <1>6 DEF Release

LEMMA PlacingSane ==
  ASSUME Sane, PlacesOK(placed'), content' = content, truth' = truth, fd' = fd, file' = file
  PROVE  Sane'
BY DEF Sane, PlacesOK, HandlesOK, OverlaysOK, Alike

LEMMA NamingSane ==
  ASSUME Sane, NEW name \in Names,
         \/ Unlink(name)
         \/ \E new \in Names : Rename(name, new)
         \/ \E n \in Nodes : Link(n, name)
  PROVE  Sane'
<1>1. content' = content /\ truth' = truth /\ fd' = fd /\ file' = file
  BY DEF Unlink, Rename, Link
<1> SUFFICES PlacesOK(placed')
  BY <1>1, PlacingSane
<1>2. placed \in SUBSET Placement /\ IsFiniteSet(placed) /\ \A p \in placed : content[p.node] # None
  BY DEF Sane, PlacesOK
<1>3. CASE Unlink(name)
  <2>1. placed' \subseteq placed
    BY <1>3 DEF Unlink
  <2> QED
    BY <1>2, <2>1, FS_Subset DEF PlacesOK
<1>4. ASSUME NEW new \in Names, Rename(name, new) PROVE PlacesOK(placed')
  <2> DEFINE W == Walked(name)
             f == [p \in W |-> [p EXCEPT !.name = new]]
             R == {f[p] : p \in W}
  <2>1. placed' = (placed \ W) \cup R
    BY <1>4 DEF Rename
  <2>2. W \subseteq placed /\ IsFiniteSet(W) /\ IsFiniteSet(placed \ W)
    BY <1>2, FS_Subset DEF Walked
  <2>3. IsFiniteSet(R)
    <3>1. f = [p \in W |-> f[p]]
      OBVIOUS
    <3> HIDE DEF f, W
    <3> QED
      BY <2>2, <3>1, FiniteRange
  <2>4. \A p \in W : f[p] \in Placement /\ f[p].node = p.node
    BY <1>2, <2>2 DEF Placement
  <2> HIDE DEF f, W
  <2>5. \A q \in R : q \in Placement /\ content[q.node] # None
    BY <1>2, <2>2, <2>4
  <2> HIDE DEF R
  <2>6. IsFiniteSet((placed \ W) \cup R)
    BY <2>2, <2>3, FS_Union
  <2> QED
    BY <1>2, <2>1, <2>2, <2>5, <2>6 DEF PlacesOK
<1>5. ASSUME NEW n \in Nodes, Link(n, name) PROVE PlacesOK(placed')
  <2>1. placed' = Placed(name, Found(n)) /\ Found(n) \in Nodes /\ content[Found(n)] # None
    BY <1>5, PathOfIs DEF Link
  <2>2. /\ placed' \in SUBSET Placement /\ IsFiniteSet(placed')
        /\ \A p \in placed' : p \in placed \/ p.node = Found(n)
    BY <2>1, PlacedIs
  <2> QED
    BY <1>2, <2>1, <2>2 DEF PlacesOK
<1> QED
  BY <1>3, <1>4, <1>5

LEMMA CrashSane ==
  ASSUME Sane, Crash
  PROVE  Sane'
<1>1. /\ placed' = placed /\ content' = content /\ truth' = content
      /\ fd' = [h \in Fds |-> None] /\ file' = [n \in Nodes |-> None]
  BY DEF Crash, engine
<1>2. HandlesOK(fd') /\ OverlaysOK(file')
  BY <1>1 DEF HandlesOK, OverlaysOK
<1> QED
  BY <1>1, <1>2, SaneAsIs, SaneKept

LEMMA InitSane ==
  ASSUME Init
  PROVE  Sane
<1> DEFINE first(name, n, b) ==
             /\ placed = {[name |-> name, node |-> n, edge |-> 0]}
             /\ content = [m \in Nodes |-> IF m = n THEN <<b>> ELSE None]
             /\ fd = [h \in Fds |-> None] /\ file = [m \in Nodes |-> None] /\ truth = content
<1>1. PICK name \in Names, n \in Nodes, b \in Bytes : first(name, n, b)
  <2>1. PICK name \in Names, n \in Nodes, b \in Bytes :
          /\ \A m \in Nodes : n <= m
          /\ placed = {[name |-> name, node |-> n, edge |-> 0]}
          /\ content = [m \in Nodes |-> IF m = n THEN <<b>> ELSE None]
          /\ held = {}
          /\ fd = [h \in Fds |-> None]
          /\ file = [m \in Nodes |-> None]
          /\ known = {n} /\ linked = {} /\ excused = {}
          /\ count = [m \in Nodes |-> IF m = n THEN 1 ELSE 0] /\ kref = count
          /\ flying = [m \in Nodes |-> 0]
          /\ truth = content
          /\ events = 0
    BY DEF Init
  <2>2. first(name, n, b)
    BY <2>1
  <2> QED
    BY <2>2
<1>2. <<b>> \in Text /\ <<b>> # None
  <2>1. <<b>> \in Text
    BY DEF Text
  <2> QED
    BY <2>1, NoneIsNoRow
<1>3. content \in Contents /\ content[n] # None
  BY <1>1, <1>2 DEF Contents
<1>4. PlacesOK(placed)
  <2> DEFINE p == [name |-> name, node |-> n, edge |-> 0]
  <2>1. p \in Placement /\ p.node = n
    BY DEF Placement
  <2> HIDE DEF p
  <2>2. placed = {p}
    BY <1>1 DEF p
  <2> QED
    BY <1>3, <2>1, <2>2, FS_Singleton DEF PlacesOK
<1>5. HandlesOK(fd) /\ OverlaysOK(file)
  <2>1. \A h \in Fds : fd[h] = None
    BY <1>1
  <2>2. \A m \in Nodes : file[m] = None
    BY <1>1
  <2>3. fd \in [Fds -> {None} \cup HandleRow] /\ file \in [Nodes -> {None} \cup Overlay]
    BY <1>1
  <2> QED
    BY <2>1, <2>2, <2>3 DEF HandlesOK, OverlaysOK
<1>6. Alike(truth)
  BY <1>1, <1>3 DEF Alike
<1> QED
  BY <1>3, <1>4, <1>5, <1>6 DEF Sane

---------------------------------------------------------------------------
(* What a node is worth: what was told of its writes, where it is kept     *)

(* The handle that has something pending is the one to flush.              *)
Marked == \A h \in Fds : fd[h] # None =>
  /\ fd[h].mode = "a" /\ fd[h].buf # <<>> => fd[h].wrote
  /\ fd[h].mode = "w" /\ ~fd[h].done => fd[h].wrote

Blurred == \A n \in Nodes : Blur(n) => n \in excused

(* The truth of a file is what its stream holds; else what its overlay     *)
(* lays over the committed text; else that text with what waits to be      *)
(* appended.                                                               *)
SoundStream(n) == \A h \in Streams(n) : fd[h].buf = truth[n]
SoundOverlay(n) == Streams(n) = {} /\ file[n] # None =>
  truth[n] = Overlaid(content[n], file[n]) /\ file[n].size = Len(truth[n])
SoundBatch(n) == Streams(n) = {} /\ file[n] = None =>
  /\ Batches(n) = {} => truth[n] = content[n]
  /\ \A h \in Batches(n) : truth[n] = content[n] \o fd[h].buf
SoundMarks(n) == Pending(n) => \E h \in Opened(n, "rw") : fd[h].wrote
Sound(n) == content[n] # None =>
  SoundStream(n) /\ SoundOverlay(n) /\ SoundBatch(n) /\ SoundMarks(n)

AllSound == \A n \in Nodes \ excused : Sound(n)

(* What holds of a node whose file nothing blurs.                          *)
Tidy(n) ==
  /\ \A h \in Streams(n) : file[n] = None /\ \A g \in On(n) : g = h \/ fd[g].mode = "r"
  /\ Batches(n) # {} => file[n] = None
  /\ \A h \in Batches(n) : Batches(n) = {h}
  /\ \A h \in Fds : fd[h] # None /\ fd[h].mode \in {"a", "rw"} =>
       (fd[h].ino = n <=> Visible(fd[h].path) = n)
  /\ \A m \in Nodes : file[m] # None => (m = n <=> Visible(file[m].path) = n)
  /\ \A h \in Opened(n, "r") \cup Opened(n, "w") : fd[h].node = n
  /\ \A h \in Fds : Mode(h, "w") /\ fd[h].node = n => fd[h].ino = n

LEMMA Single ==
  ASSUME NEW S, IsFiniteSet(S), ~(Cardinality(S) > 1), NEW h \in S
  PROVE  S = {h}
<1> SUFFICES ASSUME NEW g \in S, g # h PROVE FALSE
  OBVIOUS
<1> DEFINE R == S \ {h}
           Q == R \ {g}
<1>1. IsFiniteSet(R) /\ Cardinality(R) = Cardinality(S) - 1
  BY FS_RemoveElement
<1>2. g \in R
  OBVIOUS
<1> HIDE DEF R
<1>3. IsFiniteSet(Q) /\ Cardinality(Q) = Cardinality(R) - 1
  BY <1>1, <1>2, FS_RemoveElement
<1>4. Cardinality(Q) \in Nat /\ Cardinality(S) \in Nat /\ Cardinality(R) \in Nat
  BY <1>1, <1>3, FS_CardinalityType
<1> QED
  BY <1>1, <1>3, <1>4

LEMMA Tidiness ==
  ASSUME NEW n \in Nodes, ~Blur(n)
  PROVE  Tidy(n)
<1>1. \A h \in Streams(n) : file[n] = None /\ \A g \in On(n) : g = h \/ fd[g].mode = "r"
  BY DEF Blur
<1>2. Batches(n) # {} => file[n] = None
  BY DEF Blur
<1>3. \A h \in Batches(n) : Batches(n) = {h}
  <2>1. Batches(n) \in SUBSET Fds
    BY DEF Batches, Opened, On
  <2>2. IsFiniteSet(Batches(n))
    BY <2>1, FuseAssumption, FS_Subset
  <2>3. ~(Cardinality(Batches(n)) > 1)
    BY DEF Blur
  <2> QED
    BY <2>2, <2>3, Single
<1>4. \A h \in Fds : fd[h] # None /\ fd[h].mode \in {"a", "rw"} =>
        (fd[h].ino = n <=> Visible(fd[h].path) = n)
  <2>1. \A h \in Fds : ~(fd[h] # None /\ fd[h].mode \in {"a", "rw"}
                         /\ Astray(fd[h].ino, fd[h].path, n))
    BY DEF Blur
  <2> QED
    BY <2>1 DEF Astray
<1>5. \A m \in Nodes : file[m] # None => (m = n <=> Visible(file[m].path) = n)
  <2>1. \A m \in Nodes : ~(file[m] # None /\ Astray(m, file[m].path, n))
    BY DEF Blur
  <2> QED
    BY <2>1 DEF Astray
<1>6. /\ \A h \in Opened(n, "r") \cup Opened(n, "w") : fd[h].node = n
      /\ \A h \in Fds : Mode(h, "w") /\ fd[h].node = n => fd[h].ino = n
  <2>1. \A h \in Fds : ~Misled(h, n)
    BY DEF Blur
  <2> QED
    BY <2>1 DEF Misled, Mode, Opened, On
<1> QED
  BY <1>1, <1>2, <1>3, <1>4, <1>5, <1>6 DEF Tidy

AllTidy == \A n \in Nodes : ~Blur(n) => Tidy(n)

LEMMA TidyUnlessBlurred == AllTidy
BY Tidiness DEF AllTidy

LEMMA TidinessNext ==
  ASSUME NEW n \in Nodes, ~Blur(n)'
  PROVE  Tidy(n)'
<1>1. AllTidy'
  BY TidyUnlessBlurred, PTL
<1> QED
  BY <1>1 DEF AllTidy

LEMMA Spared ==
  ASSUME Blurred, AllSound, NEW more, Blurs(more), NEW n \in Nodes, n \notin excused'
  PROVE  n \notin excused /\ n \notin more /\ Tidy(n) /\ Tidy(n)' /\ Sound(n)
<1>1. n \notin excused /\ n \notin more /\ ~Blur(n)'
  BY DEF Blurs
<1> QED
  BY <1>1, Tidiness, TidinessNext DEF Blurred, AllSound

LEMMA BlurredKept ==
  ASSUME NEW more, Blurs(more)
  PROVE  Blurred'
BY DEF Blurs, Blurred

(* The file is untouched, and so are the handles that matter to it.        *)
SameFor(n) ==
  /\ content'[n] = content[n] /\ truth'[n] = truth[n] /\ file'[n] = file[n]
  /\ Streams(n)' = Streams(n) /\ \A h \in Streams(n) : fd'[h].buf = fd[h].buf
  /\ Batches(n)' = Batches(n) /\ \A h \in Batches(n) : fd'[h].buf = fd[h].buf
  /\ \A h \in Opened(n, "rw") : fd[h].wrote => h \in Opened(n, "rw")' /\ fd'[h].wrote

LEMMA SoundSame ==
  ASSUME NEW n, Sound(n), SameFor(n)
  PROVE  Sound(n)'
<1>1. content'[n] = content[n] /\ truth'[n] = truth[n] /\ file'[n] = file[n]
  BY DEF SameFor
<1>2. /\ Streams(n)' = Streams(n) /\ \A h \in Streams(n) : fd'[h].buf = fd[h].buf
      /\ Batches(n)' = Batches(n) /\ \A h \in Batches(n) : fd'[h].buf = fd[h].buf
  BY DEF SameFor
<1>3. SoundStream(n) => SoundStream(n)'
  BY <1>1, <1>2 DEF SoundStream
<1>4. SoundOverlay(n) => SoundOverlay(n)'
  BY <1>1, <1>2 DEF SoundOverlay, Overlaid, Dirty
<1>5. SoundBatch(n) => SoundBatch(n)'
  BY <1>1, <1>2 DEF SoundBatch
<1>6. SoundMarks(n) => SoundMarks(n)'
  BY <1>1 DEF SameFor, SoundMarks, Pending, Dirty
<1> QED
  BY <1>1, <1>3, <1>4, <1>5, <1>6 DEF Sound

LEMMA Elsewhere ==
  ASSUME NEW n, content'[n] = content[n], truth'[n] = truth[n], file'[n] = file[n],
         \A g \in Fds : \/ fd'[g] = fd[g]
                        \/ g \notin On(n) /\ g \notin On(n)'
  PROVE  SameFor(n)
<1>1. On(n)' = On(n) /\ \A g \in On(n) : fd'[g] = fd[g]
  BY DEF On
<1>2. Streams(n)' = Streams(n) /\ Batches(n)' = Batches(n) /\ Opened(n, "rw")' = Opened(n, "rw")
  BY <1>1 DEF Streams, Batches, Opened
<1>3. Streams(n) \subseteq On(n) /\ Batches(n) \subseteq On(n) /\ Opened(n, "rw") \subseteq On(n)
  BY DEF Streams, Batches, Opened
<1> QED
  BY <1>1, <1>2, <1>3 DEF SameFor

LEMMA RowMoved ==
  ASSUME Sane, NEW h \in Fds, NEW row, fd' = [fd EXCEPT ![h] = row]
  PROVE  \A g \in Fds : fd'[g] = IF g = h THEN row ELSE fd[g]
BY DEF Sane, HandlesOK

LEMMA HandleMoved ==
  ASSUME Sane, NEW h \in Fds, NEW row, fd' = [fd EXCEPT ![h] = row], NEW n
  PROVE  /\ \A g \in Fds : fd'[g] = IF g = h THEN row ELSE fd[g]
         /\ Opened(n, "rw")' = (Opened(n, "rw") \ {h}) \cup
              (IF row # None /\ row.ino = n /\ row.mode = "rw" THEN {h} ELSE {})
         /\ Streams(n)' = (Streams(n) \ {h}) \cup
              (IF row # None /\ row.ino = n /\ row.mode = "w" /\ ~row.done THEN {h} ELSE {})
         /\ Batches(n)' = (Batches(n) \ {h}) \cup
              (IF row # None /\ row.ino = n /\ row.mode = "a" /\ row.buf # <<>> THEN {h} ELSE {})
<1>1. \A g \in Fds : fd'[g] = IF g = h THEN row ELSE fd[g]
  BY DEF Sane, HandlesOK
<1>2. Opened(n, "rw")' = (Opened(n, "rw") \ {h}) \cup
        (IF row # None /\ row.ino = n /\ row.mode = "rw" THEN {h} ELSE {})
  BY <1>1 DEF Opened, On
<1>3. Streams(n)' = (Streams(n) \ {h}) \cup
        (IF row # None /\ row.ino = n /\ row.mode = "w" /\ ~row.done THEN {h} ELSE {})
  BY <1>1 DEF Streams, Opened, On
<1>4. Batches(n)' = (Batches(n) \ {h}) \cup
        (IF row # None /\ row.ino = n /\ row.mode = "a" /\ row.buf # <<>> THEN {h} ELSE {})
  BY <1>1 DEF Batches, Opened, On
<1> QED
  BY <1>1, <1>2, <1>3, <1>4

LEMMA ReferencedKept ==
  ASSUME Referenced, Sane, Sane',
         \A n \in Nodes : Opened(n, "rw")' \subseteq Opened(n, "rw") /\ Taken(file'[n]) >= Taken(file[n])
  PROVE  Referenced'
<1> SUFFICES ASSUME NEW n \in Nodes PROVE Cardinality(Opened(n, "rw")') <= Taken(file'[n])
  BY DEF Referenced, Taken
<1>1. IsFiniteSet(Opened(n, "rw")) /\ Opened(n, "rw")' \subseteq Opened(n, "rw")
  BY OpenedFinite
<1>2. /\ Cardinality(Opened(n, "rw")') <= Cardinality(Opened(n, "rw"))
      /\ Cardinality(Opened(n, "rw")') \in Nat /\ Cardinality(Opened(n, "rw")) \in Nat
  BY <1>1, FS_Subset, FS_CardinalityType
<1>3. Taken(file[n]) \in Nat /\ Taken(file'[n]) \in Nat
  <2>1. file[n] \in {None} \cup Overlay /\ file'[n] \in {None} \cup Overlay
    BY DEF Sane, OverlaysOK
  <2> QED
    BY <2>1, NoneIsNoRow DEF Taken, Overlay
<1>4. Taken(file'[n]) >= Taken(file[n]) /\ Cardinality(Opened(n, "rw")) <= Taken(file[n])
  BY DEF Referenced
<1> QED
  BY <1>2, <1>3, <1>4

(* One handle gained or lost at n, and one reference with it.              *)
LEMMA ReferencedMoved ==
  ASSUME Referenced, Sane, Sane', NEW h \in Fds, NEW n \in Nodes,
         \A m \in Nodes \ {n} : Opened(m, "rw")' \subseteq Opened(m, "rw")
                                /\ Taken(file'[m]) >= Taken(file[m]),
         \/ Opened(n, "rw")' \subseteq Opened(n, "rw") \cup {h} /\ Taken(file'[n]) >= Taken(file[n]) + 1
         \/ /\ h \in Opened(n, "rw") /\ Opened(n, "rw")' \subseteq Opened(n, "rw") \ {h}
            /\ Taken(file'[n]) >= Taken(file[n]) - 1
  PROVE  Referenced'
<1> SUFFICES ASSUME NEW m \in Nodes PROVE Cardinality(Opened(m, "rw")') <= Taken(file'[m])
  BY DEF Referenced, Taken
<1>1. IsFiniteSet(Opened(m, "rw")) /\ Cardinality(Opened(m, "rw")) \in Nat
  BY OpenedFinite, FS_CardinalityType
<1>2. Taken(file[m]) \in Nat /\ Taken(file'[m]) \in Nat
  <2>1. file[m] \in {None} \cup Overlay /\ file'[m] \in {None} \cup Overlay
    BY DEF Sane, OverlaysOK
  <2> QED
    BY <2>1, NoneIsNoRow DEF Taken, Overlay
<1>3. Cardinality(Opened(m, "rw")) <= Taken(file[m])
  BY DEF Referenced
<1>4. CASE m # n
  <2>1. /\ Cardinality(Opened(m, "rw")') <= Cardinality(Opened(m, "rw"))
        /\ Cardinality(Opened(m, "rw")') \in Nat
    BY <1>1, <1>4, FS_Subset, FS_CardinalityType
  <2>2. Taken(file'[m]) >= Taken(file[m])
    BY <1>4
  <2> QED
    BY <1>1, <1>2, <1>3, <2>1, <2>2
<1>5. CASE m = n /\ Opened(n, "rw")' \subseteq Opened(n, "rw") \cup {h}
           /\ Taken(file'[n]) >= Taken(file[n]) + 1
  <2> DEFINE S == Opened(m, "rw")
             R == S \cup {h}
             S2 == Opened(m, "rw")'
  <2>1. IsFiniteSet(R) /\ Cardinality(R) <= Cardinality(S) + 1 /\ Cardinality(R) \in Nat
    <3>1. IsFiniteSet(R) /\ (Cardinality(R) = Cardinality(S) \/ Cardinality(R) = Cardinality(S) + 1)
      BY <1>1, FS_AddElement
    <3> QED
      BY <1>1, <3>1, FS_CardinalityType
  <2>2. Cardinality(S2) <= Cardinality(R) /\ Cardinality(S2) \in Nat
    <3>1. S2 \subseteq R
      BY <1>5
    <3> HIDE DEF R, S2
    <3> QED
      BY <2>1, <3>1, FS_Subset, FS_CardinalityType
  <2>3. Cardinality(S) \in Nat /\ Cardinality(S) <= Taken(file[m]) /\ Taken(file'[m]) >= Taken(file[m]) + 1
    BY <1>1, <1>3, <1>5
  <2> HIDE DEF R, S2, S
  <2>4. Cardinality(S2) <= Taken(file'[m])
    BY <1>2, <2>1, <2>2, <2>3
  <2> QED
    BY <2>4 DEF S2
<1>6. CASE m = n /\ h \in Opened(n, "rw") /\ Opened(n, "rw")' \subseteq Opened(n, "rw") \ {h}
           /\ Taken(file'[n]) >= Taken(file[n]) - 1
  <2> DEFINE S == Opened(m, "rw")
             R == S \ {h}
             S2 == Opened(m, "rw")'
  <2>1. IsFiniteSet(R) /\ Cardinality(R) = Cardinality(S) - 1 /\ Cardinality(R) \in Nat
    BY <1>1, <1>6, FS_RemoveElement, FS_CardinalityType
  <2>2. Cardinality(S2) <= Cardinality(R) /\ Cardinality(S2) \in Nat
    <3>1. S2 \subseteq R
      BY <1>6
    <3> HIDE DEF R, S2
    <3> QED
      BY <2>1, <3>1, FS_Subset, FS_CardinalityType
  <2>3. Cardinality(S) \in Nat /\ Cardinality(S) <= Taken(file[m]) /\ Taken(file'[m]) >= Taken(file[m]) - 1
    BY <1>1, <1>3, <1>6
  <2> HIDE DEF R, S2, S
  <2>4. Cardinality(S2) <= Taken(file'[m])
    BY <1>2, <2>1, <2>2, <2>3
  <2> QED
    BY <2>4 DEF S2
<1> QED
  BY <1>4, <1>5, <1>6

---------------------------------------------------------------------------
(* Opening and making                                                      *)

LEMMA FreshRow ==
  ASSUME NEW n \in Nodes, NEW path \in Names, NEW node \in Nodes,
         NEW mode \in {"r", "w", "a", "rw"}
  PROVE  Handle(mode, n, path, node) \in HandleRow /\ Handle(mode, n, path, node) # None
<1>1. Handle(mode, n, path, node) \in HandleRow
  BY EmptyText DEF Handle, HandleRow
<1> QED
  BY <1>1, NoneIsNoRow

LEMMA MarkedMoved ==
  ASSUME Sane, Marked, NEW h \in Fds, NEW row, fd' = [fd EXCEPT ![h] = row],
         row # None => /\ row.mode = "a" /\ row.buf # <<>> => row.wrote
                       /\ row.mode = "w" /\ ~row.done => row.wrote
  PROVE  Marked'
<1>1. \A g \in Fds : fd'[g] = IF g = h THEN row ELSE fd[g]
  BY RowMoved
<1> QED
  BY <1>1 DEF Marked

LEMMA FileKept ==
  ASSUME Referenced, Sane, Sane', file' = file,
         \A n \in Nodes : Opened(n, "rw")' \subseteq Opened(n, "rw")
  PROVE  Referenced'
<1>1. \A n \in Nodes : Taken(file'[n]) >= Taken(file[n])
  <2>1. \A n \in Nodes : file[n] \in {None} \cup Overlay
    BY DEF Sane, OverlaysOK
  <2>2. \A n \in Nodes : Taken(file[n]) \in Nat
    BY <2>1, NoneIsNoRow DEF Taken, Overlay
  <2> QED
    BY <2>2
<1> QED
  BY <1>1, ReferencedKept

Kept == Marked /\ Referenced /\ AllSound

LEMMA OpenReadKept ==
  ASSUME Sane, Sane', Marked, Referenced, Blurred, AllSound, NEW n \in Nodes, NEW h \in Fds,
         OpenRead(n, h) \/ OpenAppend(n, h)
  PROVE  Kept'
<1>1. PICK row : /\ fd' = [fd EXCEPT ![h] = row] /\ fd[h] = None /\ row # None
                 /\ row.mode \in {"r", "a"} /\ row.buf = <<>> /\ row.ino = n
  <2>1. PathOf(n) \in Names /\ Found(n) \in Nodes
    BY PathOfIs DEF OpenRead, OpenAppend, Opens
  <2>2. CASE OpenRead(n, h)
    <3> DEFINE row == Handle("r", n, PathOf(n), Found(n))
    <3>1. fd' = [fd EXCEPT ![h] = row] /\ fd[h] = None
      BY <2>2 DEF OpenRead, Opens, Install
    <3>2. row # None
      BY <2>1, FreshRow
    <3>3. row.mode = "r" /\ row.buf = <<>> /\ row.ino = n
      BY DEF Handle
    <3> HIDE DEF row
    <3> QED
      BY <3>1, <3>2, <3>3
  <2>3. CASE OpenAppend(n, h)
    <3> DEFINE row == Handle("a", n, PathOf(n), n)
    <3>1. fd' = [fd EXCEPT ![h] = row] /\ fd[h] = None
      BY <2>3 DEF OpenAppend, Opens, Install
    <3>2. row # None
      BY <2>1, FreshRow
    <3>3. row.mode = "a" /\ row.buf = <<>> /\ row.ino = n
      BY DEF Handle
    <3> HIDE DEF row
    <3> QED
      BY <3>1, <3>2, <3>3
  <2> QED
    BY <2>2, <2>3
<1>2. content' = content /\ file' = file /\ truth' = truth /\ Blurs({})
  BY DEF OpenRead, OpenAppend, engine
<1>3. Marked'
  BY <1>1, MarkedMoved
<1>4. ASSUME NEW m PROVE Opened(m, "rw")' = Opened(m, "rw") \ {h}
  <2>1. Opened(m, "rw")' = (Opened(m, "rw") \ {h}) \cup
          (IF row # None /\ row.ino = m /\ row.mode = "rw" THEN {h} ELSE {})
    BY <1>1, HandleMoved
  <2> QED
    BY <1>1, <2>1
<1>5. Referenced'
  BY <1>2, <1>4, FileKept
<1>6. ASSUME NEW m \in Nodes, m \notin excused' PROVE Sound(m)'
  <2>1. Sound(m)
    BY <1>2, <1>6, Spared
  <2>2. h \notin Streams(m) /\ h \notin Batches(m) /\ h \notin Opened(m, "rw")
    BY <1>1 DEF Streams, Batches, Opened, On
  <2>3. Streams(m)' = Streams(m) /\ Batches(m)' = Batches(m) /\ Opened(m, "rw")' = Opened(m, "rw")
    <3>1. /\ Streams(m)' = (Streams(m) \ {h}) \cup
               (IF row # None /\ row.ino = m /\ row.mode = "w" /\ ~row.done THEN {h} ELSE {})
          /\ Batches(m)' = (Batches(m) \ {h}) \cup
               (IF row # None /\ row.ino = m /\ row.mode = "a" /\ row.buf # <<>> THEN {h} ELSE {})
      BY <1>1, HandleMoved
    <3> QED
      BY <1>1, <1>4, <2>2, <3>1
  <2>4. \A g \in Fds : g # h => fd'[g] = fd[g]
    BY <1>1, HandleMoved
  <2>5. Streams(m) \subseteq Fds /\ Batches(m) \subseteq Fds /\ Opened(m, "rw") \subseteq Fds
    BY DEF Streams, Batches, Opened, On
  <2>6. SameFor(m)
    BY <1>2, <2>2, <2>3, <2>4, <2>5 DEF SameFor
  <2> QED
    BY <2>1, <2>6, SoundSame
<1> QED
  BY <1>3, <1>5, <1>6 DEF Kept, AllSound

LEMMA OpenStreamKept ==
  ASSUME Sane, Sane', Marked, Referenced, Blurred, AllSound, NEW n \in Nodes, NEW h \in Fds,
         OpenStream(n, h)
  PROVE  Kept'
<1> DEFINE row == Handle("w", n, PathOf(n), Found(n))
<1>1. /\ fd' = [fd EXCEPT ![h] = row] /\ fd[h] = None
      /\ content' = content /\ file' = file /\ truth' = [truth EXCEPT ![n] = <<>>] /\ Blurs({})
  BY DEF OpenStream, Opens, Install, engine
<1>2. PathOf(n) \in Names /\ Found(n) \in Nodes
  BY PathOfIs DEF OpenStream, Opens
<1>9. row # None
  BY <1>2, FreshRow
<1>3. /\ row # None /\ row.mode = "w" /\ row.buf = <<>> /\ row.ino = n
      /\ row.done = FALSE /\ row.wrote
  BY <1>9 DEF Handle
<1> HIDE DEF row
<1>4. Marked'
  BY <1>1, <1>3, MarkedMoved
<1>7. \A g \in Fds : fd'[g] = IF g = h THEN row ELSE fd[g]
  BY <1>1, RowMoved
<1>5. ASSUME NEW m PROVE Opened(m, "rw")' = Opened(m, "rw") \ {h}
  BY <1>3, <1>7 DEF Opened, On
<1>6. Referenced'
  BY <1>1, <1>5, FileKept
<1>8. ASSUME NEW m \in Nodes, m \notin excused' PROVE Sound(m)'
  <2>1. Sound(m) /\ Tidy(m)'
    BY <1>1, <1>8, Spared
  <2>2. CASE m # n
    <3>1. truth'[m] = truth[m]
      BY <1>1, <2>2
    <3>2. \A g \in Fds : fd'[g] = fd[g] \/ (g \notin On(m) /\ g \notin On(m)')
      BY <1>1, <1>3, <1>7, <2>2 DEF On
    <3> QED
      BY <1>1, <2>1, <3>1, <3>2, Elsewhere, SoundSame
  <2>3. CASE m = n
    <3>1. h \in Streams(n)' /\ Streams(n)' \subseteq On(n)'
      BY <1>3, <1>7 DEF Streams, Opened, On
    <3>2. file'[n] = None /\ \A g \in On(n)' : g = h \/ fd'[g].mode = "r"
      BY <2>1, <2>3, <3>1 DEF Tidy
    <3>3. Streams(n)' = {h}
      BY <3>1, <3>2 DEF Streams, Opened
    <3>4. truth'[n] = <<>>
      BY <1>1 DEF Sane, Alike, Contents
    <3>5. fd'[h].buf = truth'[n]
      BY <1>3, <1>7, <3>4
    <3> QED
      BY <2>3, <3>2, <3>3, <3>5 DEF Sound, SoundStream, SoundOverlay, SoundBatch, SoundMarks, Pending
  <2> QED
    BY <2>2, <2>3
<1> QED
  BY <1>4, <1>6, <1>8 DEF Kept, AllSound

(* With an overlay, nothing blurring, nothing streams and nothing waits to *)
(* be appended.                                                            *)
LEMMA OverlaidAlone ==
  ASSUME NEW n, Tidy(n), file[n] # None
  PROVE  Streams(n) = {} /\ Batches(n) = {}
BY DEF Tidy

AloneIsAll == \A n \in Nodes : Tidy(n) /\ file[n] # None => Streams(n) = {} /\ Batches(n) = {}

LEMMA AloneHolds == AloneIsAll
BY OverlaidAlone DEF AloneIsAll

LEMMA OverlaidAloneNext ==
  ASSUME NEW n \in Nodes, Tidy(n)', file'[n] # None
  PROVE  Streams(n)' = {} /\ Batches(n)' = {}
<1>1. AloneIsAll'
  BY AloneHolds, PTL
<1> QED
  BY <1>1 DEF AloneIsAll

(* An overlay that nothing dirtied, over the text that is the truth.       *)
LEMMA CleanSound ==
  ASSUME Sane', NEW n \in Nodes, Tidy(n)', file'[n] # None, Dirty(file'[n]) = {},
         truth'[n] = content'[n], file'[n].size = Len(content'[n])
  PROVE  Sound(n)'
<1>1. Streams(n)' = {} /\ Batches(n)' = {}
  BY OverlaidAloneNext
<1>2. content'[n] # None => content'[n] \in Text /\ file'[n] \in Overlay
  BY NoneIsNoRow DEF Sane, Contents, OverlaysOK
<1>3. content'[n] # None => Overlaid(content'[n], file'[n]) = content'[n]
  BY <1>2, OverlaidClean
<1> QED
  BY <1>1, <1>3 DEF Sound, SoundStream, SoundOverlay, SoundBatch, SoundMarks, Pending

LEMMA SharedSound ==
  ASSUME Sane, Sane', NEW n \in Nodes, NEW path \in Names, Visible(path) # None,
         file[n] = None => Visible(path) = n, content[n] # None, Sound(n), Tidy(n)',
         file'[n] = Shared(n, path)[n], content'[n] = content[n], truth'[n] = truth[n],
         Streams(n)' = Streams(n), Batches(n)' = Batches(n),
         \A g \in Opened(n, "rw") : g \in Opened(n, "rw")' /\ fd'[g].wrote = fd[g].wrote
  PROVE  Sound(n)'
<1>1. content[n] # None /\ content[n] \in Text
  BY NoneIsNoRow DEF Sane, Contents
<1>2. file'[n] # None
  BY <1>1, SharedIs
<1>3. Streams(n) = {} /\ Batches(n) = {}
  BY <1>2, OverlaidAloneNext
<1>4. CASE file[n] = None
  <2>1. file'[n] = OpenFile(path)
    BY <1>1, <1>4, SharedIs
  <2>2. file'[n].size = Len(content[n]) /\ file'[n].ext = Clear
    BY <1>4, <2>1 DEF OpenFile
  <2>3. truth[n] = content[n]
    BY <1>1, <1>3, <1>4 DEF Sound, SoundBatch
  <2> QED
    BY <1>2, <2>2, <2>3, ClearIsClean, CleanSound
<1>5. CASE file[n] # None
  <2>1. file'[n].ext = file[n].ext /\ file'[n].size = file[n].size
    BY <1>1, <1>5, SharedIs
  <2>2. Dirty(file'[n]) = Dirty(file[n])
    BY <2>1 DEF Dirty
  <2>3. Overlaid(content[n], file'[n]) = Overlaid(content[n], file[n])
    BY <2>1, <2>2 DEF Overlaid
  <2>4. SoundOverlay(n) /\ SoundMarks(n)
    BY <1>1 DEF Sound
  <2>5. SoundOverlay(n)'
    BY <1>3, <1>5, <2>1, <2>3, <2>4 DEF SoundOverlay
  <2>6. SoundMarks(n)'
    BY <1>5, <2>2, <2>4 DEF SoundMarks, Pending
  <2> QED
    BY <1>2, <1>3, <2>5, <2>6 DEF Sound, SoundStream, SoundBatch
<1> QED
  BY <1>4, <1>5

LEMMA TakenMore ==
  ASSUME Sane, NEW n \in Nodes, NEW path \in Names, Visible(path) # None
  PROVE  Taken(Shared(n, path)[n]) >= Taken(file[n]) + 1
<1>1. CASE file[n] = None
  <2>1. Shared(n, path)[n] = OpenFile(path) /\ Shared(n, path)[n] # None
    BY <1>1, SharedIs
  <2>2. OpenFile(path).refs = 1
    BY DEF OpenFile
  <2> QED
    BY <1>1, <2>1, <2>2 DEF Taken
<1>2. CASE file[n] # None
  <2>1. Shared(n, path)[n].refs = file[n].refs + 1 /\ Shared(n, path)[n] # None
    BY <1>2, SharedIs
  <2>2. file[n].refs \in Nat
    BY <1>2, OverlayOf
  <2> QED
    BY <1>2, <2>1, <2>2 DEF Taken
<1> QED
  BY <1>1, <1>2

LEMMA TakenIsNat ==
  ASSUME Sane, NEW n \in Nodes
  PROVE  Taken(file[n]) \in Nat
<1>1. file[n] \in {None} \cup Overlay
  BY DEF Sane, OverlaysOK
<1> QED
  BY <1>1, NoneIsNoRow DEF Taken, Overlay

LEMMA OpenRandomKept ==
  ASSUME Sane, Sane', Marked, Referenced, Blurred, AllSound, NEW n \in Nodes, NEW h \in Fds,
         OpenRandom(n, h)
  PROVE  Kept'
<1> DEFINE row == Handle("rw", n, PathOf(n), n)
           f == Shared(n, PathOf(n))[n]
<1>1. /\ fd' = [fd EXCEPT ![h] = row] /\ fd[h] = None
      /\ content' = content /\ file' = Shared(n, PathOf(n)) /\ truth' = truth /\ Blurs({})
      /\ placed' = placed /\ Linked(n) # {}
  BY DEF OpenRandom, Opens, Install, engine
<1>2. PathOf(n) \in Names /\ Visible(PathOf(n)) # None /\ content[n] # None
  BY <1>1, PathOfIs DEF Found
<1>3. row # None
  BY <1>2, FreshRow
<1>4. row.mode = "rw" /\ row.buf = <<>> /\ row.ino = n /\ row.path = PathOf(n)
  BY DEF Handle
<1> HIDE DEF row
<1>5. Marked'
  BY <1>1, <1>4, MarkedMoved
<1>6. \A g \in Fds : fd'[g] = IF g = h THEN row ELSE fd[g]
  BY <1>1, RowMoved
<1>7. \A m \in Nodes : m # n => file'[m] = file[m]
  <2>1. Shared(n, PathOf(n)) = [file EXCEPT ![n] = f]
    BY <1>2, SharedIs
  <2> HIDE DEF f
  <2> QED
    BY <1>1, <2>1 DEF Sane, OverlaysOK
<1>8. Referenced'
  <2>1. \A m \in Nodes \ {n} : Opened(m, "rw")' \subseteq Opened(m, "rw")
                               /\ Taken(file'[m]) >= Taken(file[m])
    <3>1. ASSUME NEW m \in Nodes \ {n} PROVE Opened(m, "rw")' \subseteq Opened(m, "rw")
      BY <1>4, <1>6 DEF Opened, On
    <3> QED
      BY <1>7, <3>1, TakenIsNat
  <2>2. Opened(n, "rw")' \subseteq Opened(n, "rw") \cup {h}
    BY <1>6 DEF Opened, On
  <2>3. Taken(file'[n]) >= Taken(file[n]) + 1
    BY <1>1, <1>2, TakenMore
  <2> QED
    BY <2>1, <2>2, <2>3, ReferencedMoved
<1>9. ASSUME NEW m \in Nodes, m \notin excused' PROVE Sound(m)'
  <2>1. Sound(m) /\ Tidy(m)'
    BY <1>1, <1>9, Spared
  <2>2. CASE m # n
    <3>1. \A g \in Fds : fd'[g] = fd[g] \/ (g \notin On(m) /\ g \notin On(m)')
      BY <1>1, <1>4, <1>6, <2>2 DEF On
    <3> QED
      BY <1>1, <1>7, <2>1, <2>2, <3>1, Elsewhere, SoundSame
  <2>3. CASE m = n
    <3>1. Streams(n)' = Streams(n) /\ Batches(n)' = Batches(n)
      BY <1>1, <1>4, <1>6 DEF Streams, Batches, Opened, On
    <3>2. \A g \in Opened(n, "rw") : g \in Opened(n, "rw")' /\ fd'[g].wrote = fd[g].wrote
      BY <1>1, <1>6 DEF Opened, On
    <3>3. Visible(PathOf(n)) = n
      <4>0. PICK path : path = PathOf(n)
        OBVIOUS
      <4>1. fd'[h] # None /\ fd'[h].mode = "rw" /\ fd'[h].ino = n /\ fd'[h].path = path
        BY <1>3, <1>4, <1>6, <4>0
      <4>2. Visible(path)' = n
        BY <2>1, <2>3, <4>1 DEF Tidy
      <4>3. Visible(path)' = Visible(path)
        BY <1>1 DEF Visible, Showing
      <4> QED
        BY <4>0, <4>2, <4>3
    <3> QED
      BY <1>1, <1>2, <2>1, <2>3, <3>1, <3>2, <3>3, SharedSound
  <2> QED
    BY <2>2, <2>3
<1> QED
  BY <1>5, <1>8, <1>9 DEF Kept, AllSound

LEMMA OpenTruncatedKept ==
  ASSUME Sane, Sane', Marked, Referenced, Blurred, AllSound, NEW n \in Nodes, NEW h \in Fds,
         OpenTruncated(n, h)
  PROVE  Kept'
<1> DEFINE row == Handle("rw", n, PathOf(n), n)
           f == Shared(n, PathOf(n))[n]
           k == Visible(f.path)
           flushed == Flushed(n, content)
           g0 == [f EXCEPT !.ext = Clear, !.size = 0]
<1>1. /\ fd[h] = None /\ Blurs({}) /\ placed' = placed /\ Linked(n) # {}
      /\ IF Reach(f.path)
         THEN /\ fd' = [fd EXCEPT ![h] = row]
              /\ content' = [flushed EXCEPT ![k] = <<>>]
              /\ file' = [file EXCEPT ![n] = g0]
              /\ truth' = [truth EXCEPT ![n] = <<>>]
         ELSE file' = [file EXCEPT ![n] = f] /\ UNCHANGED <<fd, content, truth>>
  BY DEF OpenTruncated, Opens, Install
<1>2. PathOf(n) \in Names /\ Visible(PathOf(n)) # None /\ content[n] # None
  BY <1>1, PathOfIs DEF Found
<1>3. row # None
  BY <1>2, FreshRow
<1>4. row.mode = "rw" /\ row.buf = <<>> /\ row.ino = n
  BY DEF Handle
<1>5. f \in Overlay /\ f # None
  BY <1>2, SharedIs
<1>6. Taken(f) >= Taken(file[n]) + 1
  BY <1>2, TakenMore
<1>7. Taken(file[n]) \in Nat
  BY TakenIsNat
<1>8. file \in [Nodes -> {None} \cup Overlay] /\ truth \in Contents
  BY DEF Sane, OverlaysOK, Alike
<1>9. CASE Reach(f.path)
  <2>1. /\ fd' = [fd EXCEPT ![h] = row]
        /\ content' = [flushed EXCEPT ![k] = <<>>]
        /\ file' = [file EXCEPT ![n] = g0]
        /\ truth' = [truth EXCEPT ![n] = <<>>]
    BY <1>1, <1>9
  <2>2. /\ g0 \in Overlay /\ g0 # None /\ g0.refs = f.refs /\ g0.ext = Clear /\ g0.size = 0
        /\ g0.path = f.path
    <3>1. /\ g0 \in Overlay /\ g0.refs = f.refs /\ g0.ext = Clear /\ g0.size = 0
          /\ g0.path = f.path
      <4> HIDE DEF f
      <4> QED
        BY <1>5, ClearIsClean DEF Overlay
    <3> QED
      BY <3>1, NoneIsNoRow
  <2>3. Flushable(n)
    BY <1>2, <1>9, SharedIs DEF Flushable, Pending
  <2>4. /\ Alike(flushed)
        /\ \A m \in Nodes : ~(Pending(n) /\ Visible(file[n].path) = m) => flushed[m] = content[m]
    BY <2>3, FlushedIs, SaneAsIs
  <2>5. k \in Nodes
    BY <1>9, VisibleIs DEF Reach
  <2>6. file[n] # None => f.path = file[n].path
    BY <1>2, SharedIs
  <2>12. PICK path : path = f.path
    OBVIOUS
  <2>13. /\ k = Visible(path) /\ Visible(path)' = Visible(path) /\ g0.path = path
         /\ (file[n] # None => file[n].path = path)
    <3>1. Visible(path)' = Visible(path)
      BY <1>1 DEF Visible, Showing
    <3> QED
      BY <2>2, <2>6, <2>12, <3>1
  <2> HIDE DEF row, g0, flushed, k, f
  <2>7. Marked'
    BY <1>4, <2>1, MarkedMoved
  <2>8. \A g \in Fds : fd'[g] = IF g = h THEN row ELSE fd[g]
    BY <2>1, RowMoved
  <2>9. /\ \A m \in Nodes : m # n => file'[m] = file[m] /\ truth'[m] = truth[m]
        /\ file'[n] = g0 /\ truth'[n] = <<>>
    BY <1>8, <2>1 DEF Contents
  <2>10. Referenced'
    <3>1. \A m \in Nodes \ {n} : Opened(m, "rw")' \subseteq Opened(m, "rw")
                                 /\ Taken(file'[m]) >= Taken(file[m])
      <4>1. ASSUME NEW m \in Nodes \ {n} PROVE Opened(m, "rw")' \subseteq Opened(m, "rw")
        BY <1>4, <2>8 DEF Opened, On
      <4> QED
        BY <2>9, <4>1, TakenIsNat
    <3>2. Opened(n, "rw")' \subseteq Opened(n, "rw") \cup {h}
      BY <2>8 DEF Opened, On
    <3>3. Taken(file'[n]) >= Taken(file[n]) + 1
      <4>1. Taken(file'[n]) = Taken(f)
        BY <1>5, <2>2, <2>9 DEF Taken
      <4> QED
        BY <1>6, <4>1
    <3> QED
      BY <3>1, <3>2, <3>3, ReferencedMoved
  <2>11. ASSUME NEW m \in Nodes, m \notin excused' PROVE Sound(m)'
    <3>1. Sound(m) /\ Tidy(m)' /\ Tidy(m)
      BY <1>1, <2>11, Spared
    <3>2. \A m2 \in Nodes : content'[m2] = IF m2 = k THEN <<>> ELSE flushed[m2]
      BY <2>1, <2>4 DEF Alike, Contents
    <3>3. CASE m # n
      <4>1. k # m /\ ~(Pending(n) /\ Visible(file[n].path) = m)
        BY <2>2, <2>9, <2>13, <3>1, <3>3 DEF Tidy, Pending
      <4>2. content'[m] = content[m]
        BY <2>4, <3>2, <4>1
      <4>3. \A g \in Fds : fd'[g] = fd[g] \/ (g \notin On(m) /\ g \notin On(m)')
        BY <1>1, <1>4, <2>8, <3>3 DEF On
      <4> QED
        BY <2>9, <3>1, <3>3, <4>2, <4>3, Elsewhere, SoundSame
    <3>4. CASE m = n
      <4>1. k = n
        BY <2>2, <2>9, <2>13, <3>1, <3>4 DEF Tidy
      <4>2. content'[n] = <<>> /\ Len(content'[n]) = 0
        BY <3>2, <4>1
      <4>3. Dirty(file'[n]) = {}
        BY <2>2, <2>9, ClearIsClean
      <4> QED
        BY <2>2, <2>9, <3>1, <3>4, <4>2, <4>3, CleanSound
    <3> QED
      BY <3>3, <3>4
  <2> QED
    BY <2>7, <2>10, <2>11 DEF Kept, AllSound
<1>10. CASE ~Reach(f.path)
  <2>1. file' = [file EXCEPT ![n] = f] /\ fd' = fd /\ content' = content /\ truth' = truth
    BY <1>1, <1>10
  <2>2. /\ \A m \in Nodes : m # n => file'[m] = file[m]
        /\ file'[n] = f
    <3> HIDE DEF f
    <3> QED
      BY <1>8, <2>1
  <2>3. Marked'
    BY <2>1 DEF Marked
  <2>4. \A m : On(m)' = On(m) /\ Opened(m, "rw")' = Opened(m, "rw")
               /\ Streams(m)' = Streams(m) /\ Batches(m)' = Batches(m)
    BY <2>1 DEF On, Opened, Streams, Batches
  <2>5. Referenced'
    <3>1. \A m \in Nodes : Taken(file'[m]) >= Taken(file[m])
      <4>1. Taken(f) \in Nat
        BY <1>5 DEF Taken, Overlay
      <4> HIDE DEF f
      <4>2. Taken(f) >= Taken(file[n])
        BY <1>6, <1>7, <4>1
      <4>3. \A m \in Nodes : Taken(file[m]) >= Taken(file[m])
        BY TakenIsNat
      <4> QED
        BY <2>2, <4>2, <4>3
    <3> QED
      BY <2>4, <3>1, ReferencedKept
  <2>6. ASSUME NEW m \in Nodes, m \notin excused' PROVE Sound(m)'
    <3>1. Sound(m) /\ Tidy(m)'
      BY <1>1, <2>6, Spared
    <3>2. CASE m # n
      BY <2>1, <2>2, <3>1, <3>2, Elsewhere, SoundSame
    <3>3. CASE m = n
      <4>1. Streams(n)' = Streams(n) /\ Batches(n)' = Batches(n)
        BY <2>4
      <4>2. \A g \in Opened(n, "rw") : g \in Opened(n, "rw")' /\ fd'[g].wrote = fd[g].wrote
        BY <2>1, <2>4
      <4>3. content'[n] = content[n] /\ truth'[n] = truth[n] /\ Sound(n) /\ Tidy(n)'
        BY <2>1, <3>1, <3>3
      <4>4. file'[n] = Shared(n, PathOf(n))[n]
        BY <2>2
      <4>5. file[n] = None => Visible(PathOf(n)) = n
        <5>1. file[n] = None => f.path = PathOf(n)
          <6>1. file[n] = None => f = OpenFile(PathOf(n))
            BY <1>2, SharedIs
          <6> HIDE DEF f
          <6> QED
            BY <6>1 DEF OpenFile
        <5> HIDE DEF f
        <5>0. PICK path : path = f.path
          OBVIOUS
        <5>2. Visible(path)' = n
          BY <1>5, <2>2, <3>1, <3>3, <5>0 DEF Tidy
        <5>3. Visible(path)' = Visible(path)
          BY <1>1 DEF Visible, Showing
        <5> QED
          BY <5>0, <5>1, <5>2, <5>3
      <4> HIDE DEF f
      <4> QED
        BY <1>2, <3>3, <4>1, <4>2, <4>3, <4>4, <4>5, SharedSound
    <3> QED
      BY <3>2, <3>3
  <2> QED
    BY <2>3, <2>5, <2>6 DEF Kept, AllSound
<1> QED
  BY <1>9, <1>10

LEMMA UnbornIsBare ==
  ASSUME Sane, NEW n \in Nodes, content[n] = None
  PROVE  file[n] = None /\ On(n) = {}
<1>1. file[n] = None
  BY DEF Sane, OverlaysOK
<1>2. On(n) = {}
  BY DEF Sane, HandlesOK, On
<1> QED
  BY <1>1, <1>2

LEMMA CreateKept ==
  ASSUME Sane, Sane', Marked, Referenced, Blurred, AllSound, NEW h \in Fds,
         NEW name \in Names, NEW kind \in Kinds, Create(name, kind, h)
  PROVE  Kept'
<1> DEFINE mode == IF kind = "r" THEN "w" ELSE kind
           row0(n) == Handle(mode, n, name, n)
           fresh == [path |-> name, refs |-> 1, size |-> 0, ext |-> Clear]
<1>1. PICK n \in Nodes :
        /\ fd[h] = None /\ content[n] = None
        /\ content' = [content EXCEPT ![n] = <<>>] /\ truth' = [truth EXCEPT ![n] = <<>>]
        /\ fd' = [fd EXCEPT ![h] = row0(n)]
        /\ file' = IF kind # "rw" THEN file ELSE [file EXCEPT ![n] = fresh]
        /\ Blurs({})
  BY DEF Create, Install, Fresh
<1>2. PICK row : row = row0(n)
  OBVIOUS
<1>3. kind \in {"r", "w", "a", "rw"}
  BY FuseAssumption
<1>4. row # None
  BY <1>2, <1>3, FreshRow
<1>5. /\ row.mode = mode /\ row.buf = <<>> /\ row.ino = n /\ row.done = FALSE
      /\ row.wrote = (mode = "w")
  BY <1>2 DEF Handle
<1>6. fd' = [fd EXCEPT ![h] = row]
  BY <1>1, <1>2
<1> HIDE DEF row0
<1>7. mode \in {"w", "a", "rw"} /\ (mode = "rw" <=> kind = "rw")
  BY <1>3
<1> HIDE DEF mode
<1>8. Marked'
  BY <1>5, <1>6, <1>7, MarkedMoved
<1>9. \A g \in Fds : fd'[g] = IF g = h THEN row ELSE fd[g]
  BY <1>6, RowMoved
<1>10. fresh \in Overlay /\ fresh # None /\ fresh.refs = 1 /\ fresh.size = 0 /\ fresh.ext = Clear
  <2>1. fresh \in Overlay
    BY NewOverlay
  <2> QED
    BY <2>1, NoneIsNoRow
<1> HIDE DEF fresh
<1>11. file[n] = None /\ On(n) = {}
  BY <1>1, UnbornIsBare
<1>12. /\ \A m \in Nodes : m # n => /\ file'[m] = file[m] /\ truth'[m] = truth[m]
                                    /\ content'[m] = content[m]
       /\ truth'[n] = <<>> /\ content'[n] = <<>>
       /\ file'[n] = IF kind # "rw" THEN None ELSE fresh
  BY <1>1, <1>11 DEF Sane, OverlaysOK, Alike, Contents
<1>13. ASSUME NEW m \in Nodes, m # n
       PROVE  \A g \in Fds : fd'[g] = fd[g] \/ (g \notin On(m) /\ g \notin On(m)')
  BY <1>1, <1>5, <1>9, <1>13 DEF On
<1>14. Referenced'
  <2>1. ASSUME NEW m \in Nodes, m # n PROVE Opened(m, "rw")' \subseteq Opened(m, "rw")
    BY <1>5, <1>9, <2>1 DEF Opened, On
  <2>2. CASE mode # "rw"
    <3>1. Opened(n, "rw")' \subseteq Opened(n, "rw")
      BY <1>5, <1>9, <2>2 DEF Opened, On
    <3>2. file' = file
      BY <1>1, <1>7, <2>2
    <3> QED
      BY <2>1, <3>1, <3>2, FileKept
  <2>3. CASE mode = "rw"
    <3>1. Opened(n, "rw")' \subseteq Opened(n, "rw") \cup {h}
      BY <1>9 DEF Opened, On
    <3>2. Taken(file'[n]) >= Taken(file[n]) + 1
      BY <1>7, <1>10, <1>11, <1>12, <2>3 DEF Taken
    <3>3. \A m \in Nodes \ {n} : Opened(m, "rw")' \subseteq Opened(m, "rw")
                                 /\ Taken(file'[m]) >= Taken(file[m])
      BY <1>12, <2>1, TakenIsNat
    <3> QED
      BY <3>1, <3>2, <3>3, ReferencedMoved
  <2> QED
    BY <2>2, <2>3
<1>15. ASSUME NEW m \in Nodes, m \notin excused' PROVE Sound(m)'
  <2>1. Sound(m) /\ Tidy(m)'
    BY <1>1, <1>15, Spared
  <2>2. CASE m # n
    BY <1>12, <1>13, <2>1, <2>2, Elsewhere, SoundSame
  <2>3. CASE m = n /\ mode = "rw"
    <3>1. Dirty(file'[n]) = {} /\ file'[n] # None /\ file'[n].size = Len(content'[n])
      BY <1>7, <1>10, <1>12, <2>3, ClearIsClean
    <3> QED
      BY <1>12, <2>1, <2>3, <3>1, CleanSound
  <2>4. CASE m = n /\ mode # "rw"
    <3>1. On(n)' = {h} /\ fd'[h] = row /\ fd'[h].buf = <<>>
      BY <1>4, <1>5, <1>9, <1>11 DEF On
    <3>2. Streams(n)' \subseteq {h} /\ Batches(n)' = {}
      BY <3>1 DEF Streams, Batches, Opened
    <3>3. file'[n] = None
      BY <1>7, <1>12, <2>4
    <3> QED
      BY <1>12, <2>4, <3>1, <3>2, <3>3 DEF Sound, SoundStream, SoundOverlay, SoundBatch, SoundMarks, Pending
  <2> QED
    BY <2>2, <2>3, <2>4
<1> QED
  BY <1>8, <1>14, <1>15 DEF Kept, AllSound

LEMMA MknodKept ==
  ASSUME Sane, Sane', Marked, Referenced, Blurred, AllSound, NEW name \in Names, Mknod(name)
  PROVE  Kept'
<1>1. PICK n \in Nodes :
        /\ content[n] = None
        /\ content' = [content EXCEPT ![n] = <<>>] /\ truth' = [truth EXCEPT ![n] = <<>>]
        /\ fd' = fd /\ file' = file /\ Blurs({})
  BY DEF Mknod, Fresh
<1>2. file[n] = None /\ On(n) = {}
  BY <1>1, UnbornIsBare
<1>3. /\ \A m \in Nodes : m # n => truth'[m] = truth[m] /\ content'[m] = content[m]
      /\ truth'[n] = <<>> /\ content'[n] = <<>>
  BY <1>1 DEF Sane, Alike, Contents
<1>4. \A m : On(m)' = On(m) /\ Opened(m, "rw")' = Opened(m, "rw")
  BY <1>1 DEF On, Opened
<1>5. Marked' /\ Referenced'
  BY <1>1, <1>4, FileKept DEF Marked
<1>6. ASSUME NEW m \in Nodes, m \notin excused' PROVE Sound(m)'
  <2>1. Sound(m)
    BY <1>1, <1>6, Spared
  <2>2. CASE m # n
    BY <1>1, <1>3, <2>1, <2>2, Elsewhere, SoundSame
  <2>3. CASE m = n
    <3>1. Streams(n)' = {} /\ Batches(n)' = {} /\ file'[n] = None
      BY <1>1, <1>2, <1>4 DEF Streams, Batches, Opened
    <3> QED
      BY <1>3, <2>3, <3>1 DEF Sound, SoundStream, SoundOverlay, SoundBatch, SoundMarks, Pending
  <2> QED
    BY <2>2, <2>3
<1> QED
  BY <1>5, <1>6 DEF Kept, AllSound

---------------------------------------------------------------------------
(* Writing                                                                 *)

LEMMA PutAtEnd ==
  ASSUME NEW s \in Text, NEW b \in Bytes
  PROVE  PutByte(s, Len(s), b) = Append(s, b)
<1> DEFINE p == PutByte(s, Len(s), b)
           len == Len(s)
<1>1. len \in Nat
  BY DEF Text
<1>2. /\ p \in Text /\ Len(p) = IF len >= len + 1 THEN len ELSE len + 1
      /\ \A i \in 1..Len(p) : p[i] = IF i = len + 1 THEN b ELSE Byte(s, i)
  BY <1>1, PutByteIs
<1> HIDE DEF p
<1>3. Len(p) = len + 1
  BY <1>1, <1>2
<1>4. /\ Append(s, b) \in Text /\ Len(Append(s, b)) = len + 1
      /\ \A i \in 1..(len + 1) : Append(s, b)[i] = IF i = len + 1 THEN b ELSE s[i]
  BY DEF Text
<1>5. \A i \in 1..len : Byte(s, i) = s[i]
  BY ByteIs
<1>6. \A i \in 1..(len + 1) : i = len + 1 \/ i \in 1..len
  BY <1>1
<1>7. \A i \in 1..Len(p) : p[i] = Append(s, b)[i]
  BY <1>2, <1>3, <1>4, <1>5, <1>6
<1>8. p = Append(s, b)
  BY <1>2, <1>3, <1>4, <1>7, TextsEqual
<1> QED
  BY <1>8 DEF p

(* Writing a byte into the overlay writes it into what the overlay shows.  *)
LEMMA OverlaidPut ==
  ASSUME NEW s \in Text, NEW f \in Overlay, NEW g \in Overlay, NEW off \in 0..(MaxLen - 1),
         NEW b \in Bytes, g.ext = [f.ext EXCEPT ![off] = b]
  PROVE  /\ Dirty(g) = Dirty(f) \cup {off}
         /\ Overlaid(s, g) = PutByte(Overlaid(s, f), off, b)
<1> DEFINE before == Overlaid(s, f)
           after == Overlaid(s, g)
           p == PutByte(before, off, b)
<1>1. off \in Nat
  BY FuseAssumption
<1>2. b # None /\ f.ext \in [0..(MaxLen - 1) -> {None} \cup Bytes]
  BY FuseAssumption DEF Overlay
<1>3. Dirty(g) = Dirty(f) \cup {off}
  BY <1>2 DEF Dirty
<1>4. \A o \in Dirty(f) : o # off => g.ext[o] = f.ext[o]
  BY <1>2 DEF Dirty
<1>5. g.ext[off] = b
  BY <1>2
<1>6. /\ before \in Text
      /\ Len(s) <= Len(before)
      /\ \A o \in Dirty(f) : o \in Nat /\ o + 1 <= Len(before)
      /\ \/ Len(before) = Len(s)
         \/ \E o \in Dirty(f) : Len(before) = o + 1
      /\ \A i \in 1..Len(before) :
           before[i] = IF i - 1 \in Dirty(f) THEN f.ext[i - 1] ELSE Byte(s, i)
  BY OverlaidIs
<1>7. /\ after \in Text
      /\ Len(s) <= Len(after)
      /\ \A o \in Dirty(g) : o \in Nat /\ o + 1 <= Len(after)
      /\ \/ Len(after) = Len(s)
         \/ \E o \in Dirty(g) : Len(after) = o + 1
      /\ \A i \in 1..Len(after) :
           after[i] = IF i - 1 \in Dirty(g) THEN g.ext[i - 1] ELSE Byte(s, i)
  BY OverlaidIs
<1>8. /\ p \in Text
      /\ Len(p) = IF Len(before) >= off + 1 THEN Len(before) ELSE off + 1
      /\ \A i \in 1..Len(p) : p[i] = IF i = off + 1 THEN b ELSE Byte(before, i)
  BY <1>1, <1>6, PutByteIs
<1> HIDE DEF before, after, p
<1>9. Len(s) \in Nat /\ Len(before) \in Nat /\ Len(after) \in Nat /\ Len(p) \in Nat
  BY <1>6, <1>7, <1>8 DEF Text
<1>10. Len(after) = Len(p)
  <2>1. Len(after) >= off + 1
    BY <1>3, <1>7, <1>9, <1>1
  <2>2. Len(after) >= Len(before)
    BY <1>3, <1>6, <1>7, <1>9
  <2>3. Len(after) <= Len(p)
    <3>1. CASE Len(after) = Len(s)
      BY <1>1, <1>6, <1>8, <1>9, <3>1
    <3>2. ASSUME NEW o \in Dirty(g), Len(after) = o + 1 PROVE Len(after) <= Len(p)
      <4>1. CASE o = off
        BY <1>1, <1>8, <1>9, <3>2, <4>1
      <4>2. CASE o # off
        <5>1. o \in Dirty(f)
          BY <1>3, <4>2
        <5>2. o \in Nat /\ o + 1 <= Len(before)
          BY <1>6, <5>1
        <5> QED
          BY <1>1, <1>8, <1>9, <3>2, <5>2
      <4> QED
        BY <4>1, <4>2
    <3> QED
      BY <1>7, <3>1, <3>2
  <2> QED
    BY <1>1, <1>8, <1>9, <2>1, <2>2, <2>3
<1>11. ASSUME NEW i \in 1..Len(after) PROVE after[i] = p[i]
  <2>1. after[i] = IF i - 1 \in Dirty(g) THEN g.ext[i - 1] ELSE Byte(s, i)
    BY <1>7
  <2>2. p[i] = IF i = off + 1 THEN b ELSE Byte(before, i)
    BY <1>8, <1>10
  <2>3. CASE i = off + 1
    <3>1. i - 1 = off
      BY <1>1, <2>3
    <3> QED
      BY <1>3, <1>5, <2>1, <2>2, <2>3, <3>1
  <2>4. CASE i # off + 1 /\ i \in 1..Len(before)
    <3>1. Byte(before, i) = before[i]
      BY <1>6, <2>4, ByteIs
    <3>2. i - 1 # off
      BY <1>1, <2>4
    <3>3. i - 1 \in Dirty(g) <=> i - 1 \in Dirty(f)
      BY <1>3, <3>2
    <3>4. i - 1 \in Dirty(f) => g.ext[i - 1] = f.ext[i - 1]
      BY <1>4, <3>2
    <3> QED
      BY <1>6, <2>1, <2>2, <2>4, <3>1, <3>3, <3>4
  <2>5. CASE i # off + 1 /\ i \notin 1..Len(before)
    <3>1. Byte(before, i) = 0
      BY <1>6, <2>5, ByteIs
    <3>2. i \notin 1..Len(s)
      BY <1>6, <1>9, <2>5
    <3>3. Byte(s, i) = 0
      BY <3>2, ByteIs
    <3>4. i - 1 \notin Dirty(f)
      BY <1>6, <1>9, <2>5
    <3>5. i - 1 \notin Dirty(g)
      BY <1>1, <1>3, <2>5, <3>4
    <3> QED
      BY <2>1, <2>2, <2>5, <3>1, <3>3, <3>5
  <2> QED
    BY <2>3, <2>4, <2>5
<1>12. after = p
  BY <1>7, <1>8, <1>10, <1>11, TextsEqual
<1> QED
  BY <1>3, <1>12 DEF after, before, p

LEMMA WrittenRow ==
  ASSUME NEW r \in HandleRow, NEW x \in Text
  PROVE  /\ [r EXCEPT !.buf = x, !.wrote = TRUE] \in HandleRow
         /\ [r EXCEPT !.buf = x, !.wrote = TRUE].ino = r.ino
         /\ [r EXCEPT !.buf = x, !.wrote = TRUE].mode = r.mode
         /\ [r EXCEPT !.buf = x, !.wrote = TRUE].path = r.path
         /\ [r EXCEPT !.buf = x, !.wrote = TRUE].buf = x
         /\ [r EXCEPT !.buf = x, !.wrote = TRUE].done = r.done
         /\ [r EXCEPT !.buf = x, !.wrote = TRUE].wrote = TRUE
BY DEF HandleRow

(* A handle changes, but neither its file nor its way of access.           *)
LEMMA HandleStays ==
  ASSUME Sane, NEW h \in Fds, fd[h] # None, NEW row, row # None, fd' = [fd EXCEPT ![h] = row],
         row.ino = fd[h].ino, row.mode = fd[h].mode
  PROVE  /\ \A g \in Fds : fd'[g] = IF g = h THEN row ELSE fd[g]
         /\ \A m : m # fd[h].ino =>
              \A g \in Fds : fd'[g] = fd[g] \/ (g \notin On(m) /\ g \notin On(m)')
         /\ \A m : On(m)' = On(m) /\ Opened(m, "rw")' = Opened(m, "rw")
<1>1. \A g \in Fds : fd'[g] = IF g = h THEN row ELSE fd[g]
  BY RowMoved
<1>2. ASSUME NEW m, m # fd[h].ino
      PROVE  \A g \in Fds : fd'[g] = fd[g] \/ (g \notin On(m) /\ g \notin On(m)')
  BY <1>1, <1>2 DEF On
<1>3. ASSUME NEW m PROVE On(m)' = On(m) /\ Opened(m, "rw")' = Opened(m, "rw")
  BY <1>1 DEF On, Opened
<1> QED
  BY <1>1, <1>2, <1>3

LEMMA WriteStreamKept ==
  ASSUME Sane, Sane', Marked, Referenced, Blurred, AllSound, NEW h \in Fds, NEW b \in Bytes,
         WriteStream(h, b)
  PROVE  Kept'
<1>0. PICK n : n = fd[h].ino
  OBVIOUS
<1> DEFINE long == Append(fd[h].buf, b)
<1>1. /\ fd[h] # None /\ fd[h].mode = "w" /\ ~fd[h].done
      /\ content' = content /\ file' = file /\ Blurs({})
      /\ truth' = [truth EXCEPT ![n] = PutByte(truth[n], Len(fd[h].buf), b)]
  BY <1>0 DEF WriteStream, Mode, engine
<1>2. /\ fd[h] \in HandleRow /\ n \in Nodes /\ fd[h].buf \in Text /\ truth[n] \in Text
      /\ content[n] # None
  BY <1>0, <1>1, HandleOf
<1>3. long \in Text
  BY <1>2 DEF Text
<1>4. PICK row : row = [fd[h] EXCEPT !.buf = long, !.wrote = TRUE]
  OBVIOUS
<1>5. /\ row \in HandleRow /\ row # None /\ row.ino = n /\ row.mode = "w" /\ row.buf = long
      /\ ~row.done /\ row.wrote
  BY <1>0, <1>1, <1>2, <1>3, <1>4, WrittenRow, NoneIsNoRow
<1>6. fd' = [fd EXCEPT ![h] = row]
  <2>1. fd \in [Fds -> {None} \cup HandleRow]
    BY DEF Sane, HandlesOK
  <2> QED
    BY <1>4, <2>1 DEF WriteStream
<1>7. Marked'
  BY <1>5, <1>6, MarkedMoved
<1>8. /\ \A g \in Fds : fd'[g] = IF g = h THEN row ELSE fd[g]
      /\ \A m : m # n => \A g \in Fds : fd'[g] = fd[g] \/ (g \notin On(m) /\ g \notin On(m)')
      /\ \A m : On(m)' = On(m) /\ Opened(m, "rw")' = Opened(m, "rw")
  <2>1. row.ino = fd[h].ino /\ row.mode = fd[h].mode /\ fd[h] # None /\ row # None
    BY <1>0, <1>1, <1>5
  <2> QED
    BY <1>0, <1>6, <2>1, HandleStays
<1>9. Referenced'
  BY <1>1, <1>8, FileKept
<1>10. ASSUME NEW m \in Nodes, m \notin excused' PROVE Sound(m)'
  <2>1. Sound(m) /\ Tidy(m) /\ Tidy(m)'
    BY <1>1, <1>10, Spared
  <2>2. CASE m # n
    <3>1. truth'[m] = truth[m]
      BY <1>1, <2>2
    <3> QED
      BY <1>1, <1>8, <2>1, <2>2, <3>1, Elsewhere, SoundSame
  <2>3. CASE m = n
    <3>1. h \in Streams(n) /\ h \in Streams(n)'
      BY <1>0, <1>1, <1>5, <1>8 DEF Streams, Opened, On
    <3>2. fd[h].buf = truth[n]
      BY <1>2, <2>1, <2>3, <3>1 DEF Sound, SoundStream
    <3>3. truth'[n] = long
      <4>1. PutByte(truth[n], Len(fd[h].buf), b) = long
        BY <1>2, <3>2, PutAtEnd
      <4> QED
        BY <1>1, <1>2, <4>1 DEF Sane, Alike, Contents
    <3>4. file'[n] = None /\ Streams(n)' = {h}
      <4>1. file'[n] = None /\ \A g \in On(n)' : g = h \/ fd'[g].mode = "r"
        BY <2>1, <2>3, <3>1 DEF Tidy
      <4>2. \A g \in Streams(n)' : g \in On(n)' /\ fd'[g].mode = "w"
        BY DEF Streams, Opened
      <4> QED
        BY <3>1, <4>1, <4>2
    <3>5. fd'[h].buf = truth'[n]
      BY <1>5, <1>8, <3>3
    <3> QED
      BY <2>3, <3>4, <3>5 DEF Sound, SoundStream, SoundOverlay, SoundBatch, SoundMarks, Pending
  <2> QED
    BY <2>2, <2>3
<1> QED
  BY <1>7, <1>9, <1>10 DEF Kept, AllSound

(* Appending to what waits to be appended.                                 *)
LEMMA JoinedAppend ==
  ASSUME NEW s \in Text, NEW t \in Text, NEW b \in Bytes
  PROVE  Append(s \o t, b) = s \o Append(t, b)
BY DEF Text

LEMMA JoinedEmpty ==
  ASSUME NEW s \in Text
  PROVE  s \o <<>> = s
BY DEF Text

LEMMA WriteAppendKept ==
  ASSUME Sane, Sane', Marked, Referenced, Blurred, AllSound, NEW h \in Fds, NEW b \in Bytes,
         WriteAppend(h, b)
  PROVE  Kept'
<1>0. PICK n, k : n = fd[h].ino /\ k = Visible(fd[h].path)
  OBVIOUS
<1> DEFINE long == Append(fd[h].buf, b)
<1>1. fd[h] # None /\ fd[h].mode = "a" /\ file' = file
      /\ truth' = [truth EXCEPT ![n] = Append(truth[n], b)]
  BY <1>0 DEF WriteAppend, Mode
<1>2. /\ fd[h] \in HandleRow /\ n \in Nodes /\ fd[h].buf \in Text /\ truth[n] \in Text
      /\ content[n] # None /\ content[n] \in Text
  BY <1>0, <1>1, HandleOf
<1>3. long \in Text /\ long # <<>> /\ Len(long) = Len(fd[h].buf) + 1
  BY <1>2 DEF Text
<1>4. PICK row : row = [fd[h] EXCEPT !.buf = long, !.wrote = TRUE]
  OBVIOUS
<1>5. /\ row \in HandleRow /\ row # None /\ row.ino = n /\ row.mode = "a" /\ row.buf = long
      /\ row.wrote
  BY <1>0, <1>1, <1>2, <1>3, <1>4, WrittenRow, NoneIsNoRow
<1>6. PICK bare : bare = [row EXCEPT !.buf = <<>>]
  OBVIOUS
<1>7. /\ bare \in HandleRow /\ bare # None /\ bare.ino = n /\ bare.mode = "a" /\ bare.buf = <<>>
      /\ bare.wrote
  BY <1>5, <1>6, EmptiedRow, NoneIsNoRow
<1>8. \/ /\ fd' = [fd EXCEPT ![h] = row] /\ content' = content /\ Blurs({}) /\ Len(long) < Batch
      \/ /\ fd' = [fd EXCEPT ![h] = bare] /\ ~(Len(long) < Batch) /\ Blurs({})
         /\ content' = [content EXCEPT ![k] = content[k] \o long]
      \/ fd' = [fd EXCEPT ![h] = row] /\ content' = content /\ Blurs({n})
  <2> DEFINE wrote == [fd EXCEPT ![h].buf = Append(@, b), ![h].wrote = TRUE]
  <2>1. fd \in [Fds -> {None} \cup HandleRow]
    BY DEF Sane, HandlesOK
  <2>2. wrote = [fd EXCEPT ![h] = row] /\ wrote[h] = row
    BY <1>4, <2>1
  <2>3. [wrote EXCEPT ![h].buf = <<>>] = [fd EXCEPT ![h] = bare]
    <3>1. [wrote EXCEPT ![h].buf = <<>>] = [wrote EXCEPT ![h] = bare]
      BY <1>6, <2>2
    <3>2. wrote = [fd EXCEPT ![h] = row]
      BY <2>2
    <3> HIDE DEF wrote
    <3>3. [wrote EXCEPT ![h] = bare] = [fd EXCEPT ![h] = bare]
      BY <2>1, <3>2
    <3> QED
      BY <3>1, <3>3
  <2>4. \/ fd' = wrote /\ content' = content /\ Blurs({}) /\ Len(wrote[h].buf) < Batch
        \/ /\ fd' = [wrote EXCEPT ![h].buf = <<>>] /\ ~(Len(wrote[h].buf) < Batch) /\ Blurs({})
           /\ content' = [content EXCEPT ![k] = content[k] \o wrote[h].buf]
        \/ fd' = wrote /\ content' = content /\ Blurs({n})
    BY <1>0 DEF WriteAppend, Of
  <2> HIDE DEF wrote
  <2>5. wrote[h].buf = long
    BY <1>5, <2>2
  <2> HIDE DEF long
  <2> QED
    BY <2>2, <2>3, <2>4, <2>5
<1> HIDE DEF long
<1>9. PICK now : now \in {row, bare} /\ fd' = [fd EXCEPT ![h] = now]
  BY <1>8
<1>10. now # None /\ now.ino = n /\ now.mode = "a" /\ now.wrote
  BY <1>5, <1>7, <1>9
<1>11. Marked'
  BY <1>9, <1>10, MarkedMoved
<1>12. /\ \A g \in Fds : fd'[g] = IF g = h THEN now ELSE fd[g]
       /\ \A m : m # n => \A g \in Fds : fd'[g] = fd[g] \/ (g \notin On(m) /\ g \notin On(m)')
       /\ \A m : On(m)' = On(m) /\ Opened(m, "rw")' = Opened(m, "rw")
  BY <1>0, <1>1, <1>9, <1>10, HandleStays
<1>13. Referenced'
  BY <1>1, <1>12, FileKept
<1>14. ASSUME NEW m \in Nodes, m \notin excused' PROVE Sound(m)'
  <2>1. Blurs({}) \/ Blurs({n})
    BY <1>8
  <2>2. Sound(m) /\ Tidy(m) /\ Tidy(m)' /\ (m = n => Blurs({}))
    BY <1>8, <1>14, <2>1, Spared
  <2>3. k = m <=> m = n
    BY <1>0, <1>1, <2>2 DEF Tidy
  <2>4. CASE m # n
    <3>1. truth'[m] = truth[m]
      BY <1>1, <2>4
    <3>2. content'[m] = content[m]
      BY <1>8, <2>3, <2>4 DEF Sane, Contents
    <3> QED
      BY <1>1, <1>12, <2>2, <2>4, <3>1, <3>2, Elsewhere, SoundSame
  <2>5. CASE m = n
    <3>1. truth'[n] = Append(truth[n], b)
      BY <1>1, <1>2 DEF Sane, Alike, Contents
    <3>2. Streams(n) = {} /\ Streams(n)' = {}
      <4>1. h \in On(n) /\ h \in On(n)' /\ fd'[h] = now
        BY <1>0, <1>1, <1>12 DEF On
      <4>2. \A g \in Streams(n) : fd[g].mode = "w"
        BY DEF Streams, Opened
      <4>3. \A g \in Streams(n)' : fd'[g].mode = "w"
        BY DEF Streams, Opened
      <4>4. Streams(n) = {}
        BY <1>1, <2>2, <2>5, <4>1, <4>2 DEF Tidy
      <4>5. Streams(n)' = {}
        BY <1>10, <2>2, <2>5, <4>1, <4>3 DEF Tidy
      <4> QED
        BY <4>4, <4>5
    <3>3. h \in Batches(n) => file[n] = None /\ Batches(n) = {h}
      BY <2>2, <2>5 DEF Tidy
    <3>4. h \in Batches(n) <=> fd[h].buf # <<>>
      BY <1>0, <1>1 DEF Batches, Opened, On
    <3>5. CASE h \in Batches(n)
      <4>1. truth[n] = content[n] \o fd[h].buf /\ file'[n] = None
        BY <1>1, <1>2, <2>2, <2>5, <3>2, <3>3, <3>5 DEF Sound, SoundBatch
      <4>2. truth'[n] = content[n] \o long
        BY <1>2, <3>1, <4>1, JoinedAppend DEF long
      <4>3. CASE fd' = [fd EXCEPT ![h] = row] /\ content' = content
        <5>1. fd'[h] = row
          BY <1>12, <1>9, <4>3, <1>2 DEF Sane, HandlesOK
        <5>2. Batches(n)' = {h}
          <6>1. \A g \in Fds : g # h => fd'[g] = fd[g]
            BY <1>12
          <6> QED
            BY <1>3, <1>5, <3>3, <3>5, <5>1, <6>1 DEF Batches, Opened, On
        <5> QED
          BY <1>5, <2>5, <3>2, <4>1, <4>2, <4>3, <5>1, <5>2
          DEF Sound, SoundStream, SoundOverlay, SoundBatch, SoundMarks, Pending
      <4>4. CASE fd' = [fd EXCEPT ![h] = bare] /\ content' = [content EXCEPT ![k] = content[k] \o long]
        <5>1. fd'[h] = bare
          BY <4>4, <1>2 DEF Sane, HandlesOK
        <5>2. Batches(n)' = {}
          <6>1. \A g \in Fds : g # h => fd'[g] = fd[g]
            BY <1>12
          <6> QED
            BY <1>7, <3>3, <3>5, <5>1, <6>1 DEF Batches, Opened, On
        <5>3. content'[n] = content[n] \o long
          <6>1. k = n
            BY <2>3, <2>5
          <6> QED
            BY <1>2, <4>4, <6>1 DEF Sane, Contents
        <5> QED
          BY <2>5, <3>2, <4>1, <4>2, <5>2, <5>3
          DEF Sound, SoundStream, SoundOverlay, SoundBatch, SoundMarks, Pending
      <4> QED
        BY <1>8, <4>3, <4>4
    <3>6. CASE h \notin Batches(n)
      <4>1. fd[h].buf = <<>> /\ Len(long) = 1
        BY <1>2, <1>3, <3>4, <3>6
      <4>2. fd' = [fd EXCEPT ![h] = row] /\ content' = content
        <5>1. Len(long) < Batch
          BY <4>1, FuseAssumption
        <5> QED
          BY <1>8, <5>1
      <4>3. fd'[h] = row
        BY <1>2, <4>2 DEF Sane, HandlesOK
      <4>4. h \in Batches(n)'
        BY <1>3, <1>5, <4>3 DEF Batches, Opened, On
      <4>5. Batches(n)' = {h} /\ file'[n] = None
        BY <2>2, <2>5, <4>4 DEF Tidy
      <4>6. Batches(n) = {}
        <5>1. ASSUME NEW g \in Batches(n) PROVE FALSE
          <6>1. g # h /\ g \in Fds
            BY <3>6, <5>1 DEF Batches, Opened, On
          <6>2. fd'[g] = fd[g]
            BY <1>12, <6>1
          <6>3. g \in Batches(n)'
            BY <5>1, <6>2 DEF Batches, Opened, On
          <6> QED
            BY <4>5, <6>1, <6>3
        <5> QED
          BY <5>1
      <4>7. truth[n] = content[n]
        BY <1>1, <1>2, <2>2, <2>5, <3>2, <4>5, <4>6 DEF Sound, SoundBatch
      <4>8. truth'[n] = content'[n] \o long
        <5>1. Append(content[n] \o <<>>, b) = content[n] \o Append(<<>>, b)
          BY <1>2, JoinedAppend, EmptyText
        <5>2. content[n] \o <<>> = content[n]
          BY <1>2, JoinedEmpty
        <5> QED
          BY <3>1, <4>1, <4>2, <4>7, <5>1, <5>2 DEF long
      <4> QED
        BY <1>5, <2>5, <3>2, <4>3, <4>5, <4>8
        DEF Sound, SoundStream, SoundOverlay, SoundBatch, SoundMarks, Pending
    <3> QED
      BY <3>5, <3>6
  <2> QED
    BY <2>4, <2>5
<1> QED
  BY <1>11, <1>13, <1>14 DEF Kept, AllSound

LEMMA WriteRandomKept ==
  ASSUME Sane, Sane', Marked, Referenced, Blurred, AllSound, NEW h \in Fds, NEW b \in Bytes,
         NEW off \in Offsets, WriteRandom(h, off, b)
  PROVE  Kept'
<1>0. PICK n : n = fd[h].ino
  OBVIOUS
<1> DEFINE f0 == [file[n] EXCEPT !.ext[off] = b, !.size = Max({file[n].size, off + 1})]
<1>1. PICK f, g, k : f = f0 /\ g = [f EXCEPT !.ext = Clear] /\ k = Visible(f.path)
  OBVIOUS
<1>2. /\ fd[h] # None /\ fd[h].mode = "rw" /\ Mode(h, "rw")
      /\ fd' = [fd EXCEPT ![h].wrote = TRUE]
      /\ truth' = [truth EXCEPT ![n] = PutByte(truth[n], off, b)]
      /\ \/ file' = [file EXCEPT ![n] = f] /\ content' = content /\ Blurs({})
         \/ /\ Reach(f.path) /\ file' = [file EXCEPT ![n] = g] /\ Blurs({})
            /\ content' = [content EXCEPT ![k] = Overlaid(content[k], f)]
         \/ file' = [file EXCEPT ![n] = f] /\ content' = content /\ Blurs({n})
  BY <1>0, <1>1 DEF WriteRandom, Mode, Of
<1>3. /\ fd[h] \in HandleRow /\ n \in Nodes /\ truth[n] \in Text
      /\ content[n] # None /\ content[n] \in Text
  BY <1>0, <1>2, HandleOf
<1>4. file[n] # None
  BY <1>0, <1>2, RandomHasOverlay
<1>5. /\ file[n] \in Overlay /\ file[n].size \in Nat /\ off \in Nat
      /\ file[n].ext \in [0..(MaxLen - 1) -> {None} \cup Bytes] /\ off \in 0..(MaxLen - 1)
  BY <1>3, <1>4, OverlayOf DEF Offsets
<1>6. Max({file[n].size, off + 1}) = IF file[n].size >= off + 1 THEN file[n].size ELSE off + 1
  <2> DEFINE x == file[n].size
             y == off + 1
  <2>1. x \in Nat /\ y \in Nat
    BY <1>5
  <2> HIDE DEF x, y
  <2>2. Max({x, y}) = IF x >= y THEN x ELSE y
    BY <2>1, MaxPair
  <2> QED
    BY <2>2 DEF x, y
<1>7. /\ f \in Overlay /\ f.path = file[n].path /\ f.refs = file[n].refs
      /\ f.size = Max({file[n].size, off + 1}) /\ f.ext = [file[n].ext EXCEPT ![off] = b]
  <2>1. Max({file[n].size, off + 1}) \in Nat
    BY <1>5, <1>6
  <2> DEFINE z == Max({file[n].size, off + 1})
  <2> HIDE DEF z
  <2>2. f = [file[n] EXCEPT !.ext[off] = b, !.size = z]
    BY <1>1 DEF z
  <2>3. z \in Nat
    BY <2>1 DEF z
  <2>4. /\ f \in Overlay /\ f.path = file[n].path /\ f.refs = file[n].refs
        /\ f.size = z /\ f.ext = [file[n].ext EXCEPT ![off] = b]
    BY <1>5, <2>2, <2>3 DEF Overlay
  <2> QED
    BY <2>4 DEF z
<1> HIDE DEF f0
<1>8. /\ g \in Overlay /\ g # None /\ f # None /\ g.size = f.size /\ g.refs = f.refs
      /\ g.ext = Clear
  BY <1>1, <1>7, ClearIsClean, NoneIsNoRow DEF Overlay
<1>9. PICK row : row = [fd[h] EXCEPT !.wrote = TRUE]
  OBVIOUS
<1>10. /\ row \in HandleRow /\ row # None /\ row.ino = n /\ row.mode = "rw" /\ row.wrote
  <2>1. row \in HandleRow /\ row.ino = fd[h].ino /\ row.mode = fd[h].mode /\ row.wrote
    BY <1>3, <1>9 DEF HandleRow
  <2> QED
    BY <1>0, <1>2, <2>1, NoneIsNoRow
<1>11. fd' = [fd EXCEPT ![h] = row]
  BY <1>2, <1>9
<1>12. Marked'
  BY <1>10, <1>11, MarkedMoved
<1>13. /\ \A j \in Fds : fd'[j] = IF j = h THEN row ELSE fd[j]
       /\ \A m : m # n => \A j \in Fds : fd'[j] = fd[j] \/ (j \notin On(m) /\ j \notin On(m)')
       /\ \A m : On(m)' = On(m) /\ Opened(m, "rw")' = Opened(m, "rw")
  <2>1. row.ino = fd[h].ino /\ row.mode = fd[h].mode /\ fd[h] # None /\ row # None
    BY <1>0, <1>2, <1>10
  <2> QED
    BY <1>0, <1>11, <2>1, HandleStays
<1>14. /\ \A m \in Nodes : m # n => file'[m] = file[m] /\ truth'[m] = truth[m]
       /\ truth'[n] = PutByte(truth[n], off, b)
       /\ file'[n] = f \/ file'[n] = g
  BY <1>2, <1>3 DEF Sane, OverlaysOK, Alike, Contents
<1>15. Referenced'
  <2>1. Taken(file'[n]) = Taken(file[n])
    BY <1>4, <1>7, <1>8, <1>14 DEF Taken
  <2>2. \A m \in Nodes : Taken(file'[m]) >= Taken(file[m])
    BY <1>3, <1>14, <2>1, TakenIsNat
  <2> QED
    BY <1>13, <2>2, ReferencedKept
<1>16. ASSUME NEW m \in Nodes, m \notin excused' PROVE Sound(m)'
  <2>1. Blurs({}) \/ Blurs({n})
    BY <1>2
  <2>2. Sound(m) /\ Tidy(m) /\ Tidy(m)'
    BY <1>16, <2>1, Spared
  <2>3. m = n => Blurs({})
    BY <1>2, <1>16, Spared
  <2>4. k = m <=> m = n
    BY <1>1, <1>3, <1>4, <1>7, <2>2 DEF Tidy
  <2>5. CASE m # n
    <3>1. content'[m] = content[m]
      BY <1>2, <2>4, <2>5 DEF Sane, Contents
    <3> QED
      BY <1>13, <1>14, <2>2, <2>5, <3>1, Elsewhere, SoundSame
  <2>6. CASE m = n
    <3>1. Streams(n) = {} /\ Batches(n) = {}
      BY <1>4, <2>2, <2>6, OverlaidAlone
    <3>2. truth[n] = Overlaid(content[n], file[n]) /\ file[n].size = Len(truth[n])
      BY <1>3, <1>4, <2>2, <2>6, <3>1 DEF Sound, SoundOverlay
    <3>3. truth'[n] = Overlaid(content[n], f)
      BY <1>3, <1>5, <1>7, <1>14, <3>2, OverlaidPut
    <3>4. f.size = Len(truth'[n])
      <4>1. Len(PutByte(truth[n], off, b)) = IF Len(truth[n]) >= off + 1 THEN Len(truth[n]) ELSE off + 1
        BY <1>3, <1>5, PutByteIs
      <4>2. f.size = IF Len(truth[n]) >= off + 1 THEN Len(truth[n]) ELSE off + 1
        BY <1>6, <1>7, <3>2
      <4> QED
        BY <1>14, <4>1, <4>2
    <3>5. CASE file' = [file EXCEPT ![n] = f] /\ content' = content
      <4>1. file'[n] = f
        BY <1>3, <3>5 DEF Sane, OverlaysOK
      <4>2. Streams(n)' = {} /\ Batches(n)' = {}
        BY <1>8, <2>2, <2>6, <4>1, OverlaidAloneNext
      <4>3. h \in Opened(n, "rw")' /\ fd'[h].wrote
        BY <1>10, <1>13 DEF Opened, On
      <4> QED
        BY <1>8, <2>6, <3>3, <3>4, <3>5, <4>1, <4>2, <4>3
        DEF Sound, SoundStream, SoundOverlay, SoundBatch, SoundMarks
    <3>6. CASE /\ file' = [file EXCEPT ![n] = g]
               /\ content' = [content EXCEPT ![k] = Overlaid(content[k], f)]
      <4>1. file'[n] = g /\ content'[n] = Overlaid(content[n], f)
        BY <1>3, <2>4, <2>6, <3>6 DEF Sane, OverlaysOK, Contents
      <4>2. Dirty(file'[n]) = {}
        BY <1>8, <4>1, ClearIsClean
      <4> QED
        BY <1>3, <1>8, <2>2, <2>6, <3>3, <3>4, <4>1, <4>2, CleanSound
    <3> QED
      BY <1>2, <3>5, <3>6
  <2> QED
    BY <2>5, <2>6
<1> QED
  BY <1>12, <1>15, <1>16 DEF Kept, AllSound

---------------------------------------------------------------------------
(* Reading, truncating and flushing                                        *)

(* Flushing an overlay commits the truth to its file, and nothing to others. *)
LEMMA FlushedAt ==
  ASSUME Sane, NEW n \in Nodes, file[n] # None, Flushable(n), NEW m \in Nodes, Tidy(m), Sound(m)
  PROVE  Flushed(n, content)[m] = IF m = n THEN truth[m] ELSE content[m]
<1>1. file[n] \in Overlay /\ content[n] # None /\ content[n] \in Text
  BY OverlayOf
<1>2. n = m <=> Visible(file[n].path) = m
  BY DEF Tidy
<1>3. /\ ~(Pending(n) /\ Visible(file[n].path) = m) => Flushed(n, content)[m] = content[m]
      /\ Pending(n) /\ Visible(file[n].path) = m =>
           Flushed(n, content)[m] = Overlaid(content[m], file[n])
  BY FlushedIs, SaneAsIs
<1>4. CASE m # n
  BY <1>2, <1>3, <1>4
<1>5. CASE m = n
  <2>1. truth[n] = Overlaid(content[n], file[n])
    BY <1>1, <1>5, OverlaidAlone DEF Sound, SoundOverlay
  <2>2. ~Pending(n) => Overlaid(content[n], file[n]) = content[n]
    BY <1>1, OverlaidClean DEF Pending
  <2> QED
    BY <1>2, <1>3, <1>5, <2>1, <2>2
<1> QED
  BY <1>4, <1>5

LEMMA ReadKept ==
  ASSUME Sane, Sane', Marked, Referenced, Blurred, AllSound, NEW h \in Fds, Read(h)
  PROVE  Kept'
<1>0. PICK n : n = fd[h].ino
  OBVIOUS
<1>1. /\ Settleable(n) /\ content' = Settled(n) /\ file' = Emptied(n) /\ truth' = truth
      /\ fd' = [g \in Fds |-> IF g \in Batches(n) THEN [fd[g] EXCEPT !.buf = <<>>] ELSE fd[g]]
      /\ Blurs({}) /\ fd[h] # None
  BY <1>0 DEF Read, Mode
<1>2. n \in Nodes /\ content[n] # None /\ content[n] \in Text
  BY <1>0, <1>1, HandleOf
<1>3. ASSUME NEW g \in Fds
      PROVE  /\ g \notin Batches(n) => fd'[g] = fd[g]
             /\ g \in Batches(n) => /\ fd[g] # None /\ fd[g].ino = n /\ fd[g].mode = "a"
                                    /\ fd'[g] # None /\ fd'[g].ino = n /\ fd'[g].mode = "a"
                                    /\ fd'[g].buf = <<>>
  <2>1. fd'[g] = IF g \in Batches(n) THEN [fd[g] EXCEPT !.buf = <<>>] ELSE fd[g]
    BY <1>1
  <2>2. CASE g \in Batches(n)
    <3>1. fd[g] # None /\ fd[g].ino = n /\ fd[g].mode = "a"
      BY <2>2 DEF Batches, Opened, On
    <3>2. fd[g] \in HandleRow
      BY <3>1, HandleOf
    <3>3. /\ fd'[g] \in HandleRow /\ fd'[g].ino = n /\ fd'[g].mode = "a" /\ fd'[g].buf = <<>>
      BY <2>1, <2>2, <3>1, <3>2, EmptiedRow
    <3> QED
      BY <2>2, <3>1, <3>3, NoneIsNoRow
  <2>3. CASE g \notin Batches(n)
    BY <2>1, <2>3
  <2> QED
    BY <2>2, <2>3
<1>4. Marked'
  BY <1>3 DEF Marked
<1>5. ASSUME NEW m PROVE Opened(m, "rw")' = Opened(m, "rw") /\ Streams(m)' = Streams(m)
  <2>1. ASSUME NEW g \in Fds PROVE g \in Opened(m, "rw")' <=> g \in Opened(m, "rw")
    BY <1>3 DEF Opened, On
  <2>2. ASSUME NEW g \in Fds PROVE g \in Streams(m)' <=> g \in Streams(m)
    BY <1>3 DEF Streams, Opened, On
  <2>3. Opened(m, "rw") \subseteq Fds /\ Opened(m, "rw")' \subseteq Fds
        /\ Streams(m) \subseteq Fds /\ Streams(m)' \subseteq Fds
    BY DEF Streams, Opened, On
  <2> QED
    BY <2>1, <2>2, <2>3
<1>6. /\ \A m \in Nodes : m # n => file'[m] = file[m]
      /\ file'[n] = None <=> file[n] = None
      /\ file[n] # None => /\ file'[n].refs = file[n].refs /\ file'[n].ext = Clear
                           /\ file'[n].size = file[n].size
  BY <1>1, <1>2, EmptiedIs
<1>7. Referenced'
  <2>1. Taken(file'[n]) = Taken(file[n])
    BY <1>6 DEF Taken
  <2>2. \A m \in Nodes : Taken(file'[m]) >= Taken(file[m])
    BY <1>2, <1>6, <2>1, TakenIsNat
  <2> QED
    BY <1>5, <2>2, ReferencedKept
<1>8. Batches(n)' = {}
  <2>1. ASSUME NEW g \in Fds, g \in Batches(n)' PROVE FALSE
    <3>1. CASE g \in Batches(n)
      BY <1>3, <2>1, <3>1 DEF Batches
    <3>2. CASE g \notin Batches(n)
      BY <1>3, <2>1, <3>2 DEF Batches, Opened, On
    <3> QED
      BY <3>1, <3>2
  <2>2. Batches(n)' \subseteq Fds
    BY DEF Batches, Opened, On
  <2> QED
    BY <2>1, <2>2
<1>9. ASSUME NEW m \in Nodes, m \notin excused' PROVE Sound(m)'
  <2>1. Sound(m) /\ Tidy(m) /\ Tidy(m)'
    BY <1>1, <1>9, Spared
  <2>2. Settled(n) = Flushed(n, BatchFold(n))
    BY DEF Settled, BatchFold
  <2>3. CASE m # n
    <3>1. \A g \in Batches(n) : Visible(fd[g].path) # m
      BY <2>1, <2>3 DEF Tidy, Batches, Opened, On
    <3>2. ~(Pending(n) /\ Visible(file[n].path) = m)
      BY <1>2, <2>1, <2>3 DEF Tidy, Pending
    <3>3. content'[m] = content[m]
      BY <1>1, <1>2, <3>1, <3>2, SettledIs
    <3>4. \A g \in Fds : fd'[g] = fd[g] \/ (g \notin On(m) /\ g \notin On(m)')
      BY <1>3, <2>3 DEF On
    <3> QED
      BY <1>1, <1>6, <2>1, <2>3, <3>3, <3>4, Elsewhere, SoundSame
  <2>4. CASE m = n /\ file[n] # None
    <3>1. Streams(n) = {} /\ Batches(n) = {}
      BY <2>1, <2>4, OverlaidAlone
    <3>2. content' = Flushed(n, content)
      BY <1>1, <2>2, <3>1, BatchFoldNone
    <3>3. content'[n] = truth[n]
      BY <1>1, <1>2, <2>1, <2>4, <3>2, FlushedAt DEF Settleable
    <3>4. file[n].size = Len(truth[n])
      BY <1>2, <2>1, <2>4, <3>1 DEF Sound, SoundOverlay
    <3>5. Dirty(file'[n]) = {}
      BY <1>6, <2>4, ClearIsClean
    <3> QED
      BY <1>1, <1>2, <1>6, <2>1, <2>4, <3>3, <3>4, <3>5, CleanSound
  <2>5. CASE m = n /\ file[n] = None
    <3>1. file'[n] = None
      BY <1>6, <2>5
    <3>2. ASSUME Streams(n) = {} PROVE content'[n] = truth[n]
      <4>1. content' = BatchFold(n)
        BY <1>1, <2>2, <2>5 DEF Flushed, Pending
      <4>2. CASE Batches(n) = {}
        BY <1>2, <2>1, <2>5, <3>2, <4>1, <4>2, BatchFoldNone DEF Sound, SoundBatch
      <4>3. ASSUME NEW g \in Batches(n) PROVE content'[n] = truth[n]
        <5>1. Batches(n) = {g} /\ g \in Fds /\ fd[g] # None /\ fd[g].mode = "a" /\ fd[g].ino = n
          BY <2>1, <2>5, <4>3 DEF Tidy, Batches, Opened, On
        <5>2. content' = Appended(g, content)
          BY <4>1, <5>1, BatchFoldOne
        <5>3. Visible(fd[g].path) = n
          BY <2>1, <2>5, <5>1 DEF Tidy
        <5>4. content'[n] = content[n] \o fd[g].buf
          BY <1>2, <5>1, <5>2, <5>3, AppendedIs, SaneAsIs, FuseAssumption
        <5> QED
          BY <1>2, <2>1, <2>5, <3>2, <5>1, <5>4 DEF Sound, SoundBatch
      <4> QED
        BY <4>2, <4>3
    <3>3. \A g \in Streams(n) : fd'[g].buf = fd[g].buf
      <4>1. \A g \in Streams(n) : g \in Fds /\ fd[g].mode = "w"
        BY DEF Streams, Opened, On
      <4>2. \A g \in Streams(n) : g \notin Batches(n)
        BY <4>1 DEF Batches, Opened
      <4> QED
        BY <1>3, <4>1, <4>2
    <3>4. SoundStream(n)'
      BY <1>1, <1>2, <1>5, <2>1, <2>5, <3>3 DEF Sound, SoundStream
    <3>5. SoundBatch(n)'
      BY <1>1, <1>5, <1>8, <3>2 DEF SoundBatch
    <3> QED
      BY <2>5, <3>1, <3>4, <3>5 DEF Sound, SoundOverlay, SoundMarks, Pending
  <2> QED
    BY <2>3, <2>4, <2>5
<1> QED
  BY <1>4, <1>7, <1>9 DEF Kept, AllSound

(* Handles, overlays and files as they were.                               *)
LEMMA StillKept ==
  ASSUME Sane, Sane', Marked, Referenced, Blurred, AllSound, NEW more, Blurs(more),
         content' = content, truth' = truth, fd' = fd, file' = file
  PROVE  Kept'
<1>1. Marked'
  BY DEF Marked
<1>2. \A m : Opened(m, "rw")' = Opened(m, "rw")
  BY DEF Opened, On
<1>3. Referenced'
  BY <1>2, FileKept
<1>4. ASSUME NEW m \in Nodes, m \notin excused' PROVE Sound(m)'
  <2>1. Sound(m)
    BY <1>4, Spared
  <2> QED
    BY <2>1, Elsewhere, SoundSame
<1> QED
  BY <1>1, <1>3, <1>4 DEF Kept, AllSound

LEMMA TruncateOpenKept ==
  ASSUME Sane, Sane', Marked, Referenced, Blurred, AllSound, NEW h \in Fds,
         NEW len \in 0..MaxLen, TruncateOpen(h, len)
  PROVE  Kept'
<1>0. PICK n, k : n = fd[h].ino /\ k = Visible(file[n].path)
  OBVIOUS
<1>1. PICK f, flushed : f = [file[n] EXCEPT !.ext = Clear, !.size = len]
                        /\ flushed = Flushed(n, content)
  OBVIOUS
<1>2. /\ fd[h] # None /\ Mode(h, "rw") /\ Reach(file[n].path) /\ fd' = fd /\ Blurs({})
      /\ content' = [flushed EXCEPT ![k] = Resized(flushed[k], len)]
      /\ truth' = [truth EXCEPT ![n] = Resized(truth[n], len)]
  BY <1>0, <1>1 DEF TruncateOpen, Mode
<1>3. n \in Nodes /\ content[n] # None /\ truth[n] \in Text
  BY <1>0, <1>2, HandleOf
<1>4. file' = [file EXCEPT ![n] = f]
  BY <1>0, <1>1 DEF TruncateOpen, Sane, OverlaysOK
<1>5. file[n] # None /\ file[n] \in Overlay /\ len \in Nat
  BY <1>0, <1>2, <1>3, RandomHasOverlay, OverlayOf, FuseAssumption
<1>6. f \in Overlay /\ f # None /\ f.ext = Clear /\ f.size = len /\ f.refs = file[n].refs
  BY <1>1, <1>5, ClearIsClean, NoneIsNoRow DEF Overlay
<1>7. Flushable(n) /\ k \in Nodes
  BY <1>0, <1>2, VisibleIs DEF Flushable, Reach
<1>8. Alike(flushed)
  BY <1>1, <1>3, <1>7, FlushedIs, SaneAsIs
<1>9. /\ \A m \in Nodes : m # n => file'[m] = file[m] /\ truth'[m] = truth[m]
      /\ file'[n] = f /\ truth'[n] = Resized(truth[n], len)
  BY <1>2, <1>3, <1>4 DEF Sane, OverlaysOK, Alike, Contents
<1>10. Marked' /\ \A m : Opened(m, "rw")' = Opened(m, "rw")
  BY <1>2 DEF Marked, Opened, On
<1>11. Referenced'
  <2>1. Taken(file'[n]) = Taken(file[n])
    BY <1>5, <1>6, <1>9 DEF Taken
  <2>2. \A m \in Nodes : Taken(file'[m]) >= Taken(file[m])
    BY <1>3, <1>9, <2>1, TakenIsNat
  <2> QED
    BY <1>10, <2>2, ReferencedKept
<1>12. ASSUME NEW m \in Nodes, m \notin excused' PROVE Sound(m)'
  <2>1. Sound(m) /\ Tidy(m) /\ Tidy(m)'
    BY <1>2, <1>12, Spared
  <2>2. k = m <=> m = n
    BY <1>0, <1>3, <1>5, <2>1 DEF Tidy
  <2>3. flushed[m] = IF m = n THEN truth[m] ELSE content[m]
    BY <1>1, <1>3, <1>5, <1>7, <2>1, FlushedAt
  <2>4. content'[m] = IF m = n THEN Resized(truth[n], len) ELSE content[m]
    BY <1>2, <1>8, <2>2, <2>3 DEF Alike, Contents
  <2>5. CASE m # n
    BY <1>2, <1>9, <2>1, <2>4, <2>5, Elsewhere, SoundSame
  <2>6. CASE m = n
    <3>1. Len(Resized(truth[n], len)) = len
      BY <1>3, <1>5, ResizedIs
    <3>2. Dirty(file'[n]) = {}
      BY <1>6, <1>9, ClearIsClean
    <3> QED
      BY <1>6, <1>9, <2>1, <2>4, <2>6, <3>1, <3>2, CleanSound
  <2> QED
    BY <2>5, <2>6
<1> QED
  BY <1>10, <1>11, <1>12 DEF Kept, AllSound

LEMMA TruncateNamedKept ==
  ASSUME Sane, Sane', Marked, Referenced, Blurred, AllSound, NEW n \in Nodes,
         NEW len \in 0..MaxLen, TruncateNamed(n, len)
  PROVE  Kept'
<1>0. PICK k : k = Found(n)
  OBVIOUS
<1>1. /\ content' = [content EXCEPT ![k] = Resized(content[k], len)]
      /\ truth' = [truth EXCEPT ![n] = Resized(truth[n], len)]
      /\ fd' = fd /\ file' = file /\ Linked(n) # {}
  BY <1>0 DEF TruncateNamed
<1>2. PICK more : /\ Blurs(more)
                  /\ k # n => n \in more /\ k \in more
                  /\ file[n] # None \/ Batches(n) # {} \/ Streams(n) # {} => n \in more
  BY <1>0 DEF TruncateNamed
<1>3. content[n] # None
  BY <1>1, PathOfIs
<1>4. Marked' /\ \A m : /\ Opened(m, "rw")' = Opened(m, "rw")
                        /\ Streams(m)' = Streams(m) /\ Batches(m)' = Batches(m)
  BY <1>1 DEF Marked, Opened, On, Streams, Batches
<1>5. Referenced'
  BY <1>1, <1>4, FileKept
<1>6. ASSUME NEW m \in Nodes, m \notin excused' PROVE Sound(m)'
  <2>1. Sound(m) /\ m \notin more
    BY <1>2, <1>6, Spared
  <2>2. CASE m # n
    <3>1. content'[m] = content[m] /\ truth'[m] = truth[m]
      <4>1. m # k
        BY <1>2, <2>1, <2>2
      <4> QED
        BY <1>1, <2>2, <4>1 DEF Sane, Alike, Contents
    <3> QED
      BY <1>1, <2>1, <3>1, Elsewhere, SoundSame
  <2>3. CASE m = n
    <3>1. file[n] = None /\ Batches(n) = {} /\ Streams(n) = {} /\ k = n
      BY <1>2, <2>1, <2>3
    <3>2. truth[n] = content[n]
      BY <1>3, <2>1, <2>3, <3>1 DEF Sound, SoundBatch
    <3>3. truth'[n] = content'[n]
      BY <1>1, <3>1, <3>2 DEF Sane, Alike, Contents
    <3> QED
      BY <1>1, <1>4, <2>3, <3>1, <3>3
      DEF Sound, SoundStream, SoundOverlay, SoundBatch, SoundMarks, Pending
  <2> QED
    BY <2>2, <2>3
<1> QED
  BY <1>4, <1>5, <1>6 DEF Kept, AllSound

LEMMA FlushRandomKept ==
  ASSUME Sane, Sane', Marked, Referenced, Blurred, AllSound, NEW h \in Fds, FlushRandom(h)
  PROVE  Kept'
<1>0. PICK n : n = fd[h].ino
  OBVIOUS
<1>1. /\ fd[h] # None /\ fd[h].mode = "rw" /\ Mode(h, "rw") /\ Flushable(n)
      /\ content' = Flushed(n, content) /\ file' = Emptied(n)
      /\ truth' = truth /\ fd' = [fd EXCEPT ![h].wrote = FALSE] /\ Blurs({})
  BY <1>0 DEF FlushRandom, Mode
<1>2. n \in Nodes /\ fd[h] \in HandleRow /\ content[n] # None
  BY <1>0, <1>1, HandleOf
<1>3. file[n] # None
  BY <1>0, <1>1, RandomHasOverlay
<1>4. PICK row : row = [fd[h] EXCEPT !.wrote = FALSE]
  OBVIOUS
<1>5. row \in HandleRow /\ row # None /\ row.ino = fd[h].ino /\ row.mode = fd[h].mode
      /\ fd' = [fd EXCEPT ![h] = row]
  BY <1>1, <1>2, <1>4, FlushedRow, NoneIsNoRow
<1>6. Marked'
  BY <1>1, <1>5, MarkedMoved
<1>7. /\ \A m : m # n => \A g \in Fds : fd'[g] = fd[g] \/ (g \notin On(m) /\ g \notin On(m)')
      /\ \A m : On(m)' = On(m) /\ Opened(m, "rw")' = Opened(m, "rw")
  BY <1>0, <1>1, <1>5, HandleStays
<1>8. /\ \A m \in Nodes : m # n => file'[m] = file[m]
      /\ file'[n] # None /\ file'[n].refs = file[n].refs /\ file'[n].ext = Clear
      /\ file'[n].size = file[n].size
  BY <1>1, <1>2, <1>3, EmptiedIs
<1>9. Referenced'
  <2>1. Taken(file'[n]) = Taken(file[n])
    BY <1>3, <1>8 DEF Taken
  <2>2. \A m \in Nodes : Taken(file'[m]) >= Taken(file[m])
    BY <1>2, <1>8, <2>1, TakenIsNat
  <2> QED
    BY <1>7, <2>2, ReferencedKept
<1>10. ASSUME NEW m \in Nodes, m \notin excused' PROVE Sound(m)'
  <2>1. Sound(m) /\ Tidy(m) /\ Tidy(m)'
    BY <1>1, <1>10, Spared
  <2>2. content'[m] = IF m = n THEN truth[m] ELSE content[m]
    BY <1>1, <1>2, <1>3, <2>1, FlushedAt
  <2>3. CASE m # n
    BY <1>1, <1>7, <1>8, <2>1, <2>2, <2>3, Elsewhere, SoundSame
  <2>4. CASE m = n
    <3>1. file[n].size = Len(truth[n])
      BY <1>2, <1>3, <2>1, <2>4, OverlaidAlone DEF Sound, SoundOverlay
    <3>2. Dirty(file'[n]) = {}
      BY <1>8, ClearIsClean
    <3> QED
      BY <1>1, <1>8, <2>1, <2>2, <2>4, <3>1, <3>2, CleanSound
  <2> QED
    BY <2>3, <2>4
<1> QED
  BY <1>6, <1>9, <1>10 DEF Kept, AllSound

LEMMA FlushAppendKept ==
  ASSUME Sane, Sane', Marked, Referenced, Blurred, AllSound, NEW h \in Fds, FlushAppend(h)
  PROVE  Kept'
<1>0. PICK n : n = fd[h].ino
  OBVIOUS
<1>1. /\ fd[h] # None /\ fd[h].mode = "a" /\ file' = file /\ truth' = truth /\ Blurs({})
      /\ fd' = [fd EXCEPT ![h].buf = <<>>, ![h].wrote = FALSE]
      /\ \/ fd[h].buf = <<>> /\ content' = content
         \/ /\ fd[h].buf # <<>> /\ content' = Appended(h, content)
            /\ Visible(fd[h].path) # None
  BY DEF FlushAppend, Mode, Reach
<1>2. n \in Nodes /\ fd[h] \in HandleRow /\ content[n] # None
  BY <1>0, <1>1, HandleOf
<1>3. PICK mid, row : mid = [fd[h] EXCEPT !.buf = <<>>] /\ row = [mid EXCEPT !.wrote = FALSE]
  OBVIOUS
<1>4. row \in HandleRow /\ row # None /\ row.ino = fd[h].ino /\ row.mode = fd[h].mode /\ row.buf = <<>>
  <2>1. mid \in HandleRow /\ mid.ino = fd[h].ino /\ mid.mode = fd[h].mode /\ mid.buf = <<>>
    BY <1>2, <1>3, EmptiedRow
  <2> QED
    BY <1>3, <2>1, FlushedRow, NoneIsNoRow
<1>5. fd' = [fd EXCEPT ![h] = row]
  <2>1. fd \in [Fds -> {None} \cup HandleRow]
    BY DEF Sane, HandlesOK
  <2> QED
    BY <1>1, <1>3, <2>1
<1>6. Marked'
  BY <1>1, <1>4, <1>5, MarkedMoved
<1>7. /\ \A g \in Fds : fd'[g] = IF g = h THEN row ELSE fd[g]
      /\ \A m : m # n => \A g \in Fds : fd'[g] = fd[g] \/ (g \notin On(m) /\ g \notin On(m)')
      /\ \A m : On(m)' = On(m) /\ Opened(m, "rw")' = Opened(m, "rw")
  BY <1>0, <1>1, <1>4, <1>5, HandleStays
<1>8. Referenced'
  BY <1>1, <1>7, FileKept
<1>9. h \notin Batches(n)' /\ h \notin Streams(n)'
      /\ h \notin Opened(n, "rw") /\ h \notin Streams(n)
  BY <1>1, <1>4, <1>7 DEF Batches, Streams, Opened
<1>10. ASSUME NEW g \in Fds, g # h
       PROVE  /\ g \in Batches(n)' <=> g \in Batches(n)
              /\ g \in Streams(n)' <=> g \in Streams(n)
  BY <1>7, <1>10 DEF Batches, Streams, Opened, On
<1>11. /\ Batches(n) \subseteq Fds /\ Batches(n)' \subseteq Fds
       /\ Streams(n) \subseteq Fds /\ Streams(n)' \subseteq Fds /\ Opened(n, "rw") \subseteq Fds
  BY DEF Batches, Streams, Opened, On
<1>12. Streams(n)' = Streams(n)
  BY <1>9, <1>10, <1>11
<1>13. ASSUME NEW m \in Nodes, m \notin excused' PROVE Sound(m)'
  <2>1. Sound(m) /\ Tidy(m) /\ Tidy(m)'
    BY <1>1, <1>13, Spared
  <2>2. Visible(fd[h].path) = m <=> m = n
    BY <1>0, <1>1, <2>1 DEF Tidy
  <2>3. content' = Appended(h, content) /\ Visible(fd[h].path) # None =>
          content'[m] = IF m = n THEN content[m] \o fd[h].buf ELSE content[m]
    BY <1>1, <2>2, AppendedIs, SaneAsIs
  <2>4. CASE m # n
    BY <1>1, <1>7, <2>1, <2>3, <2>4, Elsewhere, SoundSame
  <2>5. CASE m = n /\ fd[h].buf = <<>>
    <3>1. h \notin Batches(n)
      BY <2>5 DEF Batches
    <3>2. Batches(n)' = Batches(n)
      BY <1>9, <1>10, <1>11, <3>1
    <3>3. SameFor(n)
      BY <1>1, <1>7, <1>9, <1>11, <1>12, <2>5, <3>1, <3>2 DEF SameFor
    <3> QED
      BY <2>1, <2>5, <3>3, SoundSame
  <2>6. CASE m = n /\ fd[h].buf # <<>>
    <3>1. h \in Batches(n) /\ h \in On(n)
      BY <1>0, <1>1, <2>6 DEF Batches, Opened, On
    <3>2. file[n] = None /\ Batches(n) = {h}
      BY <2>1, <2>6, <3>1 DEF Tidy
    <3>3. Batches(n)' = {}
      BY <1>9, <1>10, <1>11, <3>2
    <3>4. Streams(n) = {}
      <4>1. \A g \in Streams(n) : g = h \/ fd[h].mode = "r"
        BY <2>1, <2>6, <3>1 DEF Tidy
      <4> QED
        BY <1>1, <1>9, <4>1
    <3>5. truth[n] = content[n] \o fd[h].buf
      BY <1>2, <2>1, <2>6, <3>2, <3>4 DEF Sound, SoundBatch
    <3>6. content'[n] = truth'[n]
      BY <1>1, <2>3, <2>6, <3>5
    <3> QED
      BY <1>1, <1>12, <2>6, <3>2, <3>3, <3>4, <3>6
      DEF Sound, SoundStream, SoundOverlay, SoundBatch, SoundMarks, Pending
  <2> QED
    BY <2>4, <2>5, <2>6
<1> QED
  BY <1>6, <1>8, <1>13 DEF Kept, AllSound

LEMMA FlushStreamKept ==
  ASSUME Sane, Sane', Marked, Referenced, Blurred, AllSound, NEW h \in Fds, FlushStream(h)
  PROVE  Kept'
<1>0. PICK n, k, d, now : /\ n = fd[h].ino /\ k = Visible(fd[h].path) /\ d = fd[h].node
                          /\ now = content'[k]
  OBVIOUS
<1>1. PICK fresh, done, turned :
        /\ fresh = [path |-> fd[h].path, refs |-> 1, size |-> Len(now), ext |-> Clear]
        /\ done = StreamDone(h) /\ turned = StreamTurned(h)
  OBVIOUS
<1>2. /\ fd[h] # None /\ fd[h].mode = "w" /\ placed' = placed /\ truth' = truth /\ Blurs({})
      /\ content' = IF fd[h].done THEN content ELSE [content EXCEPT ![d] = fd[h].buf]
      /\ \/ k = None /\ fd' = [fd EXCEPT ![h] = done] /\ file' = file
         \/ /\ k # None /\ Len(now) \in Nat
            /\ fd' = [fd EXCEPT ![h] = turned]
            /\ file' = [file EXCEPT ![n] = IF file[n] # None THEN Reopened(file[n]) ELSE fresh]
  <2>1. Blurs({})
    BY DEF FlushStream
  <2> QED
    BY <1>0, <1>1, <2>1, StreamFlushed
<1>3. /\ n \in Nodes /\ fd[h] \in HandleRow /\ content[n] # None /\ fd[h].path \in Names
      /\ fd[h].done \in BOOLEAN
  BY <1>0, <1>2, HandleOf
<1>4. /\ done \in HandleRow /\ done # None /\ done.ino = n /\ done.mode = "w" /\ done.done
      /\ turned \in HandleRow /\ turned # None /\ turned.ino = n /\ turned.mode = "rw"
      /\ turned.buf = <<>> /\ turned.path = fd[h].path
  <2>1. /\ done \in HandleRow /\ done.ino = n /\ done.mode = "w" /\ done.done
        /\ turned \in HandleRow /\ turned.ino = n /\ turned.mode = "rw"
        /\ turned.buf = <<>> /\ turned.path = fd[h].path
    BY <1>0, <1>1, <1>2, <1>3, StreamRows DEF StreamDone, StreamTurned
  <2> QED
    BY <2>1, NoneIsNoRow
<1>5. PICK row : row \in {done, turned} /\ fd' = [fd EXCEPT ![h] = row]
  BY <1>2
<1>6. \A g \in Fds : fd'[g] = IF g = h THEN row ELSE fd[g]
  BY <1>5, RowMoved
<1>7. Marked'
  BY <1>4, <1>5, MarkedMoved
<1>8. ASSUME NEW m, m # n
      PROVE  \A g \in Fds : fd'[g] = fd[g] \/ (g \notin On(m) /\ g \notin On(m)')
  BY <1>0, <1>4, <1>5, <1>6, <1>8 DEF On
<1>9. \A m \in Nodes : /\ m # d => content'[m] = content[m]
                       /\ m # n => file'[m] = file[m]
  BY <1>2 DEF Sane, Contents, OverlaysOK
<1>10. ASSUME NEW m, m # n PROVE Opened(m, "rw")' \subseteq Opened(m, "rw")
  BY <1>4, <1>5, <1>6, <1>10 DEF Opened, On
<1>11. \A g \in Opened(n, "rw") : g \in Opened(n, "rw")' /\ fd'[g].wrote = fd[g].wrote
  BY <1>2, <1>6 DEF Opened, On
<1>12. ~fd[h].done => h \in Streams(n)
  BY <1>0, <1>2 DEF Streams, Opened, On
<1>13. /\ \A g \in Fds : g # h => /\ g \in Batches(n)' <=> g \in Batches(n)
                                  /\ g \in Streams(n)' <=> g \in Streams(n)
       /\ h \notin Batches(n)' /\ h \notin Batches(n) /\ h \notin Streams(n)'
       /\ fd[h].done => h \notin Streams(n)
       /\ Batches(n) \subseteq Fds /\ Batches(n)' \subseteq Fds
       /\ Streams(n) \subseteq Fds /\ Streams(n)' \subseteq Fds
  <2>1. ASSUME NEW g \in Fds, g # h
        PROVE  /\ g \in Batches(n)' <=> g \in Batches(n)
               /\ g \in Streams(n)' <=> g \in Streams(n)
    BY <1>6, <2>1 DEF Batches, Streams, Opened, On
  <2>2. h \notin Batches(n)' /\ h \notin Batches(n) /\ h \notin Streams(n)'
    <3>1. fd'[h] = row /\ row.mode # "a" /\ (row.mode = "w" => row.done)
      BY <1>4, <1>5, <1>6
    <3> QED
      BY <1>2, <3>1 DEF Batches, Streams, Opened
  <2>3. fd[h].done => h \notin Streams(n)
    BY DEF Streams
  <2>4. /\ Batches(n) \subseteq Fds /\ Batches(n)' \subseteq Fds
        /\ Streams(n) \subseteq Fds /\ Streams(n)' \subseteq Fds
    BY DEF Batches, Streams, Opened, On
  <2> QED
    BY <2>1, <2>2, <2>3, <2>4
<1>14. ASSUME NEW m \in Nodes, m \notin excused' PROVE Sound(m)' /\ (m = n => Tidy(m)')
  <2>1. Sound(m) /\ Tidy(m) /\ Tidy(m)'
    BY <1>2, <1>14, Spared
  <2>0. m = d <=> m = n
    <3>1. m = d => m = n
      BY <1>0, <1>2, <2>1 DEF Tidy, Mode
    <3>2. m = n => m = d
      BY <1>0, <1>2, <2>1 DEF Tidy, Opened, On
    <3> QED
      BY <3>1, <3>2
  <2>2. CASE m # n
    BY <1>2, <1>8, <1>9, <2>0, <2>1, <2>2, Elsewhere, SoundSame
  <2>3. ASSUME m = n, ~fd[h].done
        PROVE  /\ file[n] = None /\ Streams(n)' = {} /\ Batches(n)' = {}
               /\ content'[n] = truth'[n]
    <3>1. h \in Streams(n)
      BY <1>12, <2>3
    <3>2. file[n] = None /\ \A g \in On(n) : g = h \/ fd[g].mode = "r"
      BY <2>1, <2>3, <3>1 DEF Tidy
    <3>3. \A g \in Streams(n) : g = h
      BY <3>2 DEF Streams, Opened
    <3>4. \A g \in Batches(n) : g = h
      BY <3>2 DEF Batches, Opened
    <3>5. Streams(n)' = {} /\ Batches(n)' = {}
      BY <1>13, <3>3, <3>4
    <3>6. fd[h].buf = truth[n]
      BY <1>3, <2>1, <2>3, <3>1 DEF Sound, SoundStream
    <3>7. content'[n] = fd[h].buf
      BY <1>2, <1>3, <2>0, <2>3 DEF Sane, Contents
    <3> QED
      BY <1>2, <3>2, <3>5, <3>6, <3>7
  <2>4. CASE m = n /\ file' = file /\ ~fd[h].done
    BY <2>0, <2>1, <2>3, <2>4 DEF Sound, SoundStream, SoundOverlay, SoundBatch, SoundMarks, Pending
  <2>5. CASE m = n /\ file' = file /\ fd[h].done
    <3>1. Streams(n)' = Streams(n) /\ Batches(n)' = Batches(n)
      BY <1>13, <2>5
    <3>2. /\ \A g \in Streams(n) : fd'[g].buf = fd[g].buf
          /\ \A g \in Batches(n) : fd'[g].buf = fd[g].buf
      BY <1>6, <1>13, <2>5
    <3>3. SameFor(n)
      BY <1>2, <1>11, <2>5, <3>1, <3>2 DEF SameFor
    <3> QED
      BY <2>1, <2>5, <3>3, SoundSame
  <2>6. CASE /\ m = n /\ k # None /\ fd' = [fd EXCEPT ![h] = turned]
             /\ file' = [file EXCEPT ![n] = IF file[n] # None THEN Reopened(file[n]) ELSE fresh]
    <3>1. file'[n] = IF file[n] # None THEN Reopened(file[n]) ELSE fresh
      BY <1>3, <2>6 DEF Sane, OverlaysOK
    <3>2. fd'[h] = turned
      BY <2>6 DEF Sane, HandlesOK
    <3>3. k = n
      <4>1. PICK name : name = fd[h].path
        OBVIOUS
      <4>2. Visible(name)' = Visible(name)
        BY <1>2 DEF Visible, Showing
      <4>3. Visible(name)' = n
        BY <1>4, <2>1, <2>6, <3>2, <4>1 DEF Tidy
      <4> QED
        BY <1>0, <1>4, <4>1, <4>2, <4>3
    <3>4. now = content'[n]
      BY <1>0, <3>3
    <3>5. fresh.ext = Clear /\ fresh.size = Len(content'[n]) /\ fresh # None
      <4>1. fresh \in Overlay
        BY <1>1, <1>2, <1>3, <2>6, NewOverlay
      <4> QED
        BY <1>1, <3>4, <4>1, NoneIsNoRow
    <3>6. CASE ~fd[h].done
      <4>1. file'[n] = fresh /\ content'[n] = truth'[n]
        BY <2>3, <2>6, <3>1, <3>6
      <4> QED
        BY <1>3, <2>1, <2>6, <3>5, <4>1, ClearIsClean, CleanSound
    <3>7. CASE fd[h].done
      <4>1. content' = content
        BY <1>2, <3>7
      <4>2. CASE file[n] = None
        <5>1. file'[n] = fresh
          BY <3>1, <4>2
        <5>2. Streams(n)' = {} /\ Batches(n)' = {}
          BY <1>3, <2>1, <2>6, <3>5, <5>1, OverlaidAloneNext
        <5>3. Streams(n) = {} /\ Batches(n) = {}
          BY <1>13, <3>7, <5>2
        <5>4. truth'[n] = content'[n]
          BY <1>2, <1>3, <2>1, <2>6, <4>1, <4>2, <5>3 DEF Sound, SoundBatch
        <5> QED
          BY <1>3, <2>1, <2>6, <3>5, <5>1, <5>4, ClearIsClean, CleanSound
      <4>3. CASE file[n] # None
        <5>1. file'[n] = Reopened(file[n])
          BY <3>1, <4>3
        <5>2. /\ Reopened(file[n]) \in Overlay /\ Reopened(file[n]).ext = file[n].ext
              /\ Reopened(file[n]).size = file[n].size
          BY <1>3, <4>3, OverlayOf DEF Reopened, Overlay
        <5>3. file'[n] # None /\ file'[n].ext = file[n].ext /\ file'[n].size = file[n].size
          BY <5>1, <5>2, NoneIsNoRow
        <5>4. Streams(n) = {} /\ Batches(n) = {}
          BY <2>1, <2>6, <4>3, OverlaidAlone
        <5>5. Streams(n)' = {} /\ Batches(n)' = {}
          BY <1>3, <2>1, <2>6, <5>3, OverlaidAloneNext
        <5>6. Dirty(file'[n]) = Dirty(file[n])
          BY <5>3 DEF Dirty
        <5>7. Overlaid(content[n], file'[n]) = Overlaid(content[n], file[n])
          BY <5>3, <5>6 DEF Overlaid
        <5>8. SoundOverlay(n) /\ SoundMarks(n)
          BY <1>3, <2>1, <2>6 DEF Sound
        <5>9. SoundOverlay(n)'
          BY <1>2, <4>1, <4>3, <5>3, <5>4, <5>7, <5>8 DEF SoundOverlay
        <5>10. SoundMarks(n)'
          BY <1>11, <4>3, <5>6, <5>8 DEF SoundMarks, Pending
        <5> QED
          BY <2>1, <2>6, <5>3, <5>5, <5>9, <5>10 DEF Sound, SoundStream, SoundBatch
      <4> QED
        BY <4>2, <4>3
    <3> QED
      BY <3>6, <3>7
  <2> QED
    BY <1>2, <1>3, <2>1, <2>2, <2>4, <2>5, <2>6
<1>16. \A m \in Nodes : m # n => file'[m] = file[m]
  BY <1>9
<1>15. Referenced'
  <2>1. CASE file' = file /\ fd' = [fd EXCEPT ![h] = done]
    <3>1. \A g \in Fds : fd'[g] = IF g = h THEN done ELSE fd[g]
      BY <2>1, RowMoved
    <3>2. ASSUME NEW m PROVE Opened(m, "rw")' \subseteq Opened(m, "rw")
      BY <1>4, <3>1 DEF Opened, On
    <3> QED
      BY <2>1, <3>2, FileKept
  <2>2. CASE file' = [file EXCEPT ![n] = IF file[n] # None THEN Reopened(file[n]) ELSE fresh]
             /\ Len(now) \in Nat
    <3>1. file'[n] = IF file[n] # None THEN Reopened(file[n]) ELSE fresh
      BY <1>3, <2>2 DEF Sane, OverlaysOK
    <3>2. CASE file[n] = None
      <4>1. fresh \in Overlay /\ fresh.refs = 1
        BY <1>1, <1>3, <2>2, NewOverlay
      <4>2. Taken(file'[n]) >= Taken(file[n]) + 1
        BY <3>1, <3>2, <4>1, NoneIsNoRow DEF Taken
      <4> QED
        BY <1>3, <1>6, <1>10, <1>16, <4>2, TakenIsNat, ReferencedMoved DEF Opened, On
    <3>3. CASE file[n] # None
      <4>1. /\ Reopened(file[n]) \in Overlay /\ Reopened(file[n]).refs = file[n].refs + 1
            /\ file[n].refs \in Nat
        BY <1>3, <3>3, OverlayOf DEF Reopened, Overlay
      <4>2. Taken(file'[n]) >= Taken(file[n]) + 1
        BY <3>1, <3>3, <4>1, NoneIsNoRow DEF Taken
      <4> QED
        BY <1>3, <1>6, <1>10, <1>16, <4>2, TakenIsNat, ReferencedMoved DEF Opened, On
    <3> QED
      BY <3>2, <3>3
  <2> QED
    BY <1>2, <2>1, <2>2
<1> QED
  BY <1>7, <1>14, <1>15 DEF Kept, AllSound

LEMMA ReleaseKept ==
  ASSUME Sane, Sane', Marked, Referenced, Blurred, AllSound, NEW h \in Fds, Release(h)
  PROVE  Kept'
<1>0. PICK n, f : n = fd[h].ino /\ f = Dropped([file[n] EXCEPT !.ext = Clear])
  OBVIOUS
<1>1. /\ fd[h] # None /\ fd' = [fd EXCEPT ![h] = None] /\ truth' = truth
      /\ ~fd[h].wrote \/ Refused(h)
      /\ Blurs(IF Refused(h) THEN Of(h) ELSE {})
  BY DEF Release
<1>2. n \in Nodes /\ fd[h] \in HandleRow /\ content[n] # None
  BY <1>0, <1>1, HandleOf
<1>3. \A g \in Fds : fd'[g] = IF g = h THEN None ELSE fd[g]
  BY <1>1, RowMoved
<1>4. Marked'
  BY <1>1, MarkedMoved
<1>5. \A m : m # n => \A g \in Fds : fd'[g] = fd[g] \/ (g \notin On(m) /\ g \notin On(m)')
  BY <1>0, <1>3 DEF On
<1>6. \A m : Opened(m, "rw")' \subseteq Opened(m, "rw")
  BY <1>3 DEF Opened, On
<1>7. \/ Refused(h) /\ content' = content /\ file' = file
      \/ /\ ~Refused(h) /\ Mode(h, "rw")
         /\ content' = Flushed(n, content) /\ file' = [file EXCEPT ![n] = f]
      \/ ~Refused(h) /\ ~Mode(h, "rw") /\ content' = content /\ file' = file
  <2>1. CASE Refused(h)
    BY <2>1 DEF Release
  <2>2. CASE ~Refused(h) /\ Mode(h, "rw")
    BY <1>0, <2>2 DEF Release
  <2>3. CASE ~Refused(h) /\ ~Mode(h, "rw")
    <3>1. ~(Mode(h, "a") /\ fd[h].buf # <<>>)
      BY <1>1, <2>3 DEF Marked, Mode
    <3> QED
      BY <2>3, <3>1 DEF Release
  <2> QED
    BY <2>1, <2>2, <2>3
<1>8. CASE Refused(h) /\ content' = content /\ file' = file
  <2>1. Referenced'
    BY <1>6, <1>8, FileKept
  <2>2. ASSUME NEW m \in Nodes, m \notin excused' PROVE Sound(m)'
    <3>1. Sound(m) /\ m # n
      <4>1. Blurs(Of(h))
        BY <1>1, <1>8
      <4> QED
        BY <1>0, <2>2, <4>1, Spared DEF Of
    <3> QED
      BY <1>1, <1>5, <1>8, <3>1, Elsewhere, SoundSame
  <2> QED
    BY <1>4, <2>1, <2>2 DEF Kept, AllSound
<1>9. CASE /\ ~Refused(h) /\ Mode(h, "rw")
           /\ content' = Flushed(n, content) /\ file' = [file EXCEPT ![n] = f]
  <2>1. Flushable(n) /\ fd[h].mode = "rw"
    BY <1>0, <1>9 DEF Refused, Mode
  <2>2. file[n] # None /\ file[n] \in Overlay /\ file[n].refs \in Nat /\ file[n].refs >= 1
    BY <1>0, <1>2, <1>9, RandomHasOverlay, OverlayOf DEF Overlay
  <2>3. /\ \A m \in Nodes : m # n => file'[m] = file[m]
        /\ file'[n] = f
    BY <1>2, <1>9 DEF Sane, OverlaysOK
  <2>4. /\ file[n].refs > 1 => /\ f # None /\ f.refs = file[n].refs - 1
                               /\ f.size = file[n].size /\ f.ext = Clear
        /\ ~(file[n].refs > 1) => f = None
    BY <1>0, <1>2, <2>2, DroppedIs, NoneIsNoRow
  <2>5. Referenced'
    <3>1. Taken(file'[n]) >= Taken(file[n]) - 1
      BY <2>2, <2>3, <2>4 DEF Taken
    <3>2. h \in Opened(n, "rw") /\ Opened(n, "rw")' \subseteq Opened(n, "rw") \ {h}
      BY <1>0, <1>1, <1>3, <2>1 DEF Opened, On
    <3>3. \A m \in Nodes \ {n} : Taken(file'[m]) >= Taken(file[m])
      BY <2>3, TakenIsNat
    <3> QED
      BY <1>2, <1>6, <3>1, <3>2, <3>3, ReferencedMoved
  <2>6. ASSUME NEW m \in Nodes, m \notin excused' PROVE Sound(m)'
    <3>1. Sound(m) /\ Tidy(m) /\ Tidy(m)'
      BY <1>1, <2>6, Spared
    <3>2. content'[m] = IF m = n THEN truth[m] ELSE content[m]
      BY <1>2, <1>9, <2>1, <2>2, <3>1, FlushedAt
    <3>3. CASE m # n
      BY <1>1, <1>5, <2>3, <3>1, <3>2, <3>3, Elsewhere, SoundSame
    <3>4. CASE m = n /\ f # None
      <4>1. file[n].size = Len(truth[n])
        BY <1>2, <2>2, <3>1, <3>4, OverlaidAlone DEF Sound, SoundOverlay
      <4>2. Dirty(file'[n]) = {}
        BY <2>3, <2>4, <3>4, ClearIsClean
      <4> QED
        BY <1>1, <2>3, <2>4, <3>1, <3>2, <3>4, <4>1, <4>2, CleanSound
    <3>5. CASE m = n /\ f = None
      <4>1. Streams(n) = {} /\ Batches(n) = {}
        BY <2>2, <3>1, <3>5, OverlaidAlone
      <4>2. Streams(n)' = {} /\ Batches(n)' = {}
        BY <1>3, <4>1 DEF Streams, Batches, Opened, On
      <4> QED
        BY <1>1, <2>3, <3>2, <3>5, <4>2
        DEF Sound, SoundStream, SoundOverlay, SoundBatch, SoundMarks, Pending
    <3> QED
      BY <3>3, <3>4, <3>5
  <2> QED
    BY <1>4, <2>5, <2>6 DEF Kept, AllSound
<1>10. CASE ~Refused(h) /\ ~Mode(h, "rw") /\ content' = content /\ file' = file
  <2>1. ~fd[h].wrote /\ fd[h].mode # "rw"
    BY <1>1, <1>10 DEF Mode
  <2>2. Referenced'
    BY <1>6, <1>10, FileKept
  <2>3. h \notin Streams(n) /\ h \notin Batches(n) /\ h \notin Opened(n, "rw")
    BY <2>1 DEF Marked, Streams, Batches, Opened, On
  <2>4. Streams(n)' = Streams(n) /\ Batches(n)' = Batches(n) /\ Opened(n, "rw")' = Opened(n, "rw")
    BY <1>3, <2>3 DEF Streams, Batches, Opened, On
  <2>5. \A g \in Streams(n) \cup Batches(n) \cup Opened(n, "rw") : fd'[g] = fd[g]
    BY <1>3, <2>3 DEF Streams, Batches, Opened, On
  <2>6. SameFor(n)
    BY <1>1, <1>10, <2>4, <2>5 DEF SameFor
  <2>7. ASSUME NEW m \in Nodes, m \notin excused' PROVE Sound(m)'
    <3>1. Sound(m)
      BY <1>1, <2>7, Spared
    <3>2. CASE m = n
      BY <2>6, <3>1, <3>2, SoundSame
    <3>3. CASE m # n
      BY <1>1, <1>5, <1>10, <3>1, <3>3, Elsewhere, SoundSame
    <3> QED
      BY <3>2, <3>3
  <2> QED
    BY <1>4, <2>2, <2>7 DEF Kept, AllSound
<1> QED
  BY <1>7, <1>8, <1>9, <1>10

---------------------------------------------------------------------------
(* The invariant of every reachable state                                  *)

IInv == Sane /\ Marked /\ Referenced /\ Blurred /\ AllSound

(* What no handler of files touched is as it was.                          *)
LEMMA Untouched ==
  ASSUME IInv, placed' = placed, content' = content, truth' = truth, fd' = fd, file' = file,
         excused' = excused
  PROVE  IInv'
<1>1. Sane'
  BY PlacingSane DEF IInv, Sane, PlacesOK
<1>2. Marked' /\ \A m : Opened(m, "rw")' = Opened(m, "rw")
  BY DEF IInv, Marked, Opened, On
<1>3. Referenced'
  BY <1>1, <1>2, FileKept DEF IInv
<1>4. Blurred'
  <2>1. \A n : /\ Streams(n)' = Streams(n) /\ Batches(n)' = Batches(n) /\ On(n)' = On(n)
    BY DEF Streams, Batches, Opened, On
  <2>2. \A m, path, n : Astray(m, path, n)' <=> Astray(m, path, n)
    BY DEF Astray, Visible, Showing
  <2>4. \A h, n : Misled(h, n)' <=> Misled(h, n)
    BY DEF Misled
  <2>3. \A n \in Nodes : Blur(n)' <=> Blur(n)
    BY <2>1, <2>2, <2>4 DEF Blur
  <2> QED
    BY <2>3 DEF IInv, Blurred
<1>5. AllSound'
  BY Elsewhere, SoundSame DEF IInv, AllSound
<1> QED
  BY <1>1, <1>2, <1>3, <1>4, <1>5 DEF IInv

LEMMA KeptWhole ==
  ASSUME Sane', Kept', NEW more, Blurs(more)
  PROVE  IInv'
BY BlurredKept DEF IInv, Kept

LEMMA NamingKept ==
  ASSUME IInv, NEW name \in Names,
         \/ Unlink(name)
         \/ \E new \in Names : Rename(name, new)
         \/ \E n \in Nodes : Link(n, name)
  PROVE  IInv'
<1>1. content' = content /\ truth' = truth /\ fd' = fd /\ file' = file /\ Blurs({})
  BY DEF Unlink, Rename, Link
<1>2. Sane'
  BY NamingSane DEF IInv
<1> QED
  BY <1>1, <1>2, StillKept, KeptWhole DEF IInv

LEMMA BareInvariant ==
  ASSUME Sane, truth = content, \A h \in Fds : fd[h] = None, \A n \in Nodes : file[n] = None
  PROVE  IInv
<1>1. \A n : On(n) = {} /\ Opened(n, "rw") = {} /\ Streams(n) = {} /\ Batches(n) = {}
  BY DEF On, Opened, Streams, Batches
<1>2. Marked
  BY DEF Marked
<1>3. Referenced
  <2>1. Cardinality(Opened({}, "rw")) = 0 /\ \A n : Opened(n, "rw") = {}
    BY <1>1, FS_EmptySet
  <2> QED
    BY <2>1, FS_EmptySet DEF Referenced, Taken
<1>4. Blurred
  <2>1. Cardinality({}) = 0
    BY FS_EmptySet
  <2>2. \A n \in Nodes : ~Blur(n)
    BY <1>1, <2>1 DEF Blur, Misled
  <2> QED
    BY <2>2 DEF Blurred
<1>5. AllSound
  BY <1>1 DEF AllSound, Sound, SoundStream, SoundOverlay, SoundBatch, SoundMarks, Pending
<1> QED
  BY <1>2, <1>3, <1>4, <1>5 DEF IInv

BareIsInvariant ==
  Sane /\ truth = content /\ (\A h \in Fds : fd[h] = None) /\ (\A n \in Nodes : file[n] = None) => IInv

LEMMA BareHolds == BareIsInvariant
BY BareInvariant DEF BareIsInvariant

LEMMA CrashKept ==
  ASSUME IInv, Crash
  PROVE  IInv'
<1>1. Sane'
  BY CrashSane DEF IInv
<1>2. /\ truth' = content' /\ (\A h \in Fds : fd'[h] = None) /\ (\A n \in Nodes : file'[n] = None)
  BY DEF Crash, engine
<1>3. BareIsInvariant'
  BY BareHolds, PTL
<1> QED
  BY <1>1, <1>2, <1>3 DEF BareIsInvariant

LEMMA HandleStepKept ==
  ASSUME IInv, NEW h \in Fds, HandleStep(h)
  PROVE  IInv'
<1> USE DEF IInv
<1>1. ASSUME NEW n \in Nodes, OpenRead(n, h) \/ OpenAppend(n, h) PROVE IInv'
  <2>1. Sane' /\ Blurs({})
    BY <1>1, OpeningSane DEF OpenRead, OpenAppend
  <2> QED
    BY <1>1, <2>1, OpenReadKept, KeptWhole
<1>2. ASSUME NEW n \in Nodes, OpenStream(n, h) PROVE IInv'
  <2>1. Sane' /\ Blurs({})
    BY <1>2, OpeningSane DEF OpenStream
  <2> QED
    BY <1>2, <2>1, OpenStreamKept, KeptWhole
<1>3. ASSUME NEW n \in Nodes, OpenRandom(n, h) PROVE IInv'
  <2>1. Sane' /\ Blurs({})
    BY <1>3, OpeningSane DEF OpenRandom
  <2> QED
    BY <1>3, <2>1, OpenRandomKept, KeptWhole
<1>4. ASSUME NEW n \in Nodes, OpenTruncated(n, h) PROVE IInv'
  <2>1. Sane' /\ Blurs({})
    BY <1>4, OpeningSane DEF OpenTruncated
  <2> QED
    BY <1>4, <2>1, OpenTruncatedKept, KeptWhole
<1>5. ASSUME NEW name \in Names, NEW kind \in Kinds, Create(name, kind, h) PROVE IInv'
  <2>1. Sane' /\ Blurs({})
    BY <1>5, CreateSane DEF Create
  <2> QED
    BY <1>5, <2>1, CreateKept, KeptWhole
<1>6. CASE Read(h)
  <2>1. Sane' /\ Blurs({})
    BY <1>6, ReadSane DEF Read
  <2> QED
    BY <1>6, <2>1, ReadKept, KeptWhole
<1>7. ASSUME NEW b \in Bytes, WriteStream(h, b) PROVE IInv'
  <2>1. Sane' /\ Blurs({})
    BY <1>7, WritingSane DEF WriteStream
  <2> QED
    BY <1>7, <2>1, WriteStreamKept, KeptWhole
<1>8. ASSUME NEW b \in Bytes, WriteAppend(h, b) PROVE IInv'
  <2>1. Sane'
    BY <1>8, WritingSane
  <2>2. Blurs({}) \/ Blurs(Of(h))
    BY <1>8 DEF WriteAppend
  <2> QED
    BY <1>8, <2>1, <2>2, WriteAppendKept, KeptWhole
<1>9. ASSUME NEW b \in Bytes, NEW off \in Offsets, WriteRandom(h, off, b) PROVE IInv'
  <2>1. Sane'
    BY <1>9, WritingSane
  <2>2. Blurs({}) \/ Blurs(Of(h))
    BY <1>9 DEF WriteRandom
  <2> QED
    BY <1>9, <2>1, <2>2, WriteRandomKept, KeptWhole
<1>10. ASSUME NEW len \in 0..MaxLen, HintSize(h, len) PROVE IInv'
  <2>1. /\ placed' = placed /\ content' = content /\ truth' = truth /\ fd' = fd /\ file' = file
        /\ Blurs(Of(h))
    BY <1>10 DEF HintSize, engine
  <2>2. Sane'
    BY <2>1, PlacingSane DEF Sane, PlacesOK
  <2> QED
    BY <2>1, <2>2, StillKept, KeptWhole
<1>11. ASSUME NEW len \in 0..MaxLen, TruncateOpen(h, len) PROVE IInv'
  <2>1. Blurs({})
    BY <1>11 DEF TruncateOpen
  <2>2. Sane'
    <3>1. Mode(h, "rw")
      BY <1>11 DEF TruncateOpen
    <3> QED
      BY <1>11, <3>1, RandomHasOverlay, TruncatedOpen
  <2> QED
    BY <1>11, <2>1, <2>2, TruncateOpenKept, KeptWhole
<1>12. CASE FlushRandom(h)
  <2>1. Sane' /\ Blurs({})
    BY <1>12, FlushRandomSane DEF FlushRandom
  <2> QED
    BY <1>12, <2>1, FlushRandomKept, KeptWhole
<1>13. CASE FlushAppend(h)
  <2>1. Sane' /\ Blurs({})
    BY <1>13, FlushAppendSane DEF FlushAppend
  <2> QED
    BY <1>13, <2>1, FlushAppendKept, KeptWhole
<1>14. CASE FlushStream(h)
  <2>1. Sane' /\ Blurs({})
    BY <1>14, FlushStreamSane DEF FlushStream
  <2> QED
    BY <1>14, <2>1, FlushStreamKept, KeptWhole
<1>15. CASE Release(h)
  <2>1. Sane' /\ Blurs(IF Refused(h) THEN Of(h) ELSE {})
    BY <1>15, ReleaseSane DEF Release
  <2> QED
    BY <1>15, <2>1, ReleaseKept, KeptWhole
<1> QED
  BY <1>1, <1>2, <1>3, <1>4, <1>5, <1>6, <1>7, <1>8, <1>9, <1>10, <1>11, <1>12, <1>13, <1>14,
     <1>15 DEF HandleStep

LEMMA NameStepKept ==
  ASSUME IInv, NameStep
  PROVE  IInv'
<1>1. ASSUME NEW name \in Names, Lookup(name) PROVE IInv'
  BY <1>1, Untouched DEF Lookup, engine
<1>2. ASSUME NEW name \in Names, Mknod(name) PROVE IInv'
  <2>1. Sane' /\ Blurs({})
    BY <1>2, MknodSane DEF Mknod, IInv
  <2> QED
    BY <1>2, <2>1, MknodKept, KeptWhole DEF IInv
<1>3. ASSUME NEW name \in Names, \/ Unlink(name)
                                 \/ \E new \in Names : Rename(name, new)
                                 \/ \E n \in Nodes : Link(n, name)
      PROVE  IInv'
  BY <1>3, NamingKept
<1>4. ASSUME NEW n \in Nodes, \/ Readdir(n) \/ Evict(n) \/ Forget(n)
                              \/ OutsideLock(n) \/ OutsideUnlock(n)
      PROVE  IInv'
  BY <1>4, Untouched DEF Readdir, Evict, Forget, OutsideLock, OutsideUnlock, engine
<1>5. ASSUME NEW n \in Nodes, NEW len \in 0..MaxLen, TruncateNamed(n, len) PROVE IInv'
  <2>1. Sane'
    BY <1>5, TruncatedNamed DEF IInv
  <2>2. PICK more : Blurs(more)
    BY <1>5 DEF TruncateNamed
  <2> QED
    BY <1>5, <2>1, <2>2, TruncateNamedKept, KeptWhole DEF IInv
<1> QED
  BY <1>1, <1>2, <1>3, <1>4, <1>5 DEF NameStep

LEMMA FilesInvariant ==
  Spec => []IInv
<1>1. Init => IInv
  <2> SUFFICES ASSUME Init PROVE IInv
    OBVIOUS
  <2>1. Sane
    BY InitSane
  <2>2. truth = content /\ (\A h \in Fds : fd[h] = None) /\ (\A n \in Nodes : file[n] = None)
    BY DEF Init
  <2> QED
    BY <2>1, <2>2, BareInvariant
<1>2. IInv /\ [Next]_vars => IInv'
  <2> SUFFICES ASSUME IInv, [Next]_vars PROVE IInv'
    OBVIOUS
  <2>1. ASSUME UNCHANGED vars PROVE IInv'
    BY <2>1, Untouched DEF vars, engine
  <2> QED
    BY <2>1, HandleStepKept, NameStepKept, CrashKept DEF Next
<1> QED
  BY <1>1, <1>2, PTL DEF Spec

---------------------------------------------------------------------------
(* What the invariant says to a reader, to stat and to close(2)            *)

LEMMA OnlyCommitted ==
  ASSUME IInv, NEW n \in Nodes, n \notin excused, \A h \in On(n) : ~fd[h].wrote
  PROVE  content[n] = truth[n]
<1>1. Streams(n) = {} /\ Batches(n) = {} /\ \A h \in Opened(n, "rw") : ~fd[h].wrote
  BY DEF IInv, Marked, Streams, Batches, Opened, On
<1>2. content[n] = None <=> truth[n] = None
  BY DEF IInv, Sane, Alike
<1>3. Sound(n)
  BY DEF IInv, AllSound
<1>4. CASE content[n] = None
  BY <1>2, <1>3, <1>4
<1>5. CASE content[n] # None /\ file[n] = None
  BY <1>1, <1>3, <1>5 DEF Sound, SoundBatch
<1>6. CASE content[n] # None /\ file[n] # None
  <2>1. truth[n] = Overlaid(content[n], file[n]) /\ ~Pending(n)
    BY <1>1, <1>3, <1>6 DEF Sound, SoundOverlay, SoundMarks
  <2>2. content[n] \in Text /\ file[n] \in Overlay /\ Dirty(file[n]) = {}
    BY <1>6, <2>1, NoneIsNoRow DEF IInv, Sane, Contents, OverlaysOK, Pending
  <2> QED
    BY <2>1, <2>2, OverlaidClean
<1> QED
  BY <1>4, <1>5, <1>6

Waiting(n) == MapThenSumSet(LAMBDA h : Len(fd[h].buf), Batches(n))

WaitIter(n, w) ==
  [s \in SUBSET Batches(n) |-> IF s = {} THEN 0 ELSE Len(fd[Pick(s)].buf) + w[s \ {Pick(s)}]]

LEMMA WaitingUnfolds ==
  ASSUME NEW n
  PROVE  Waiting(n) = (CHOOSE w : w = WaitIter(n, w))[Batches(n)]
BY DEF Waiting, MapThenSumSet, MapThenFoldSet, WaitIter, Pick

LEMMA WaitingNone ==
  ASSUME NEW n, Batches(n) = {}
  PROVE  Waiting(n) = 0
<1> DEFINE w == [s \in SUBSET Batches(n) |-> 0]
           iter == CHOOSE v : v = WaitIter(n, v)
<1>1. w = WaitIter(n, w)
  BY DEF WaitIter
<1>2. iter = WaitIter(n, iter)
  BY <1>1
<1> HIDE DEF iter
<1>3. iter[Batches(n)] = 0
  BY <1>2 DEF WaitIter
<1> QED
  BY <1>3, WaitingUnfolds DEF iter

LEMMA WaitingOne ==
  ASSUME NEW n, NEW g, Batches(n) = {g}, Len(fd[g].buf) \in Nat
  PROVE  Waiting(n) = Len(fd[g].buf)
<1> DEFINE w == [s \in SUBSET Batches(n) |-> IF s = {} THEN 0 ELSE Len(fd[g].buf)]
           iter == CHOOSE v : v = WaitIter(n, v)
<1>1. \A s \in SUBSET Batches(n) : s = {} \/ (s = {g} /\ Pick(s) = g /\ s \ {Pick(s)} = {})
  BY PickIn
<1>2. w = WaitIter(n, w)
  BY <1>1 DEF WaitIter
<1>3. iter = WaitIter(n, iter)
  BY <1>2
<1> HIDE DEF iter
<1>4. iter[{}] = 0
  BY <1>3 DEF WaitIter
<1>5. Batches(n) # {} /\ Batches(n) \in SUBSET Batches(n)
  OBVIOUS
<1>6. Pick(Batches(n)) = g /\ Batches(n) \ {Pick(Batches(n))} = {}
  BY <1>1, <1>5
<1>7. iter[Batches(n)] = Len(fd[Pick(Batches(n))].buf) + iter[Batches(n) \ {Pick(Batches(n))}]
  BY <1>3, <1>5 DEF WaitIter
<1>8. iter[Batches(n)] = Len(fd[g].buf) + 0
  BY <1>4, <1>6, <1>7
<1>9. iter[Batches(n)] = Len(fd[g].buf)
  BY <1>8
<1> QED
  BY <1>9, WaitingUnfolds DEF iter

LEMMA MaxSingle ==
  ASSUME NEW a \in Nat
  PROVE  Max({a}) = a
<1>1. {a, a} = {a}
  OBVIOUS
<1> QED
  BY <1>1, MaxPair

LEMMA SettledTruth ==
  ASSUME IInv, NEW n \in Nodes, n \notin excused, content[n] # None, Streams(n) = {}
  PROVE  Settled(n)[n] = truth[n]
<1>1. Sound(n) /\ Tidy(n) /\ Sane
  BY Tidiness DEF IInv, AllSound, Blurred
<1>2. Settled(n) = Flushed(n, BatchFold(n))
  BY DEF Settled, BatchFold
<1>3. CASE file[n] = None
  <2>1. Settled(n) = BatchFold(n)
    BY <1>2, <1>3 DEF Flushed, Pending
  <2>2. CASE Batches(n) = {}
    BY <1>1, <1>3, <2>1, <2>2, BatchFoldNone DEF Sound, SoundBatch
  <2>3. ASSUME NEW g \in Batches(n) PROVE Settled(n)[n] = truth[n]
    <3>1. Batches(n) = {g} /\ truth[n] = content[n] \o fd[g].buf
      BY <1>1, <1>3, <2>3 DEF Tidy, Sound, SoundBatch
    <3>2. g \in Fds /\ fd[g] # None /\ fd[g].ino = n /\ fd[g].mode = "a"
      BY <2>3 DEF Batches, Opened, On
    <3>3. Visible(fd[g].path) = n
      BY <1>1, <3>2 DEF Tidy
    <3>4. n # None /\ Alike(content)
      BY <1>1, FuseAssumption, SaneAsIs
    <3>5. Appended(g, content)[n] = content[n] \o fd[g].buf
      BY <1>1, <3>2, <3>3, <3>4, AppendedIs
    <3> QED
      BY <2>1, <3>1, <3>5, BatchFoldOne
  <2> QED
    BY <2>2, <2>3
<1>4. CASE file[n] # None
  <2>1. BatchFold(n) = content
    BY <1>1, <1>4, OverlaidAlone, BatchFoldNone
  <2>2. truth[n] = Overlaid(content[n], file[n]) /\ content[n] \in Text /\ file[n] \in Overlay
    BY <1>1, <1>4, OverlayOf DEF Sound, SoundOverlay
  <2>3. CASE Pending(n)
    <3>1. Visible(file[n].path) = n
      BY <1>1, <1>4 DEF Tidy
    <3>2. Settled(n) = [content EXCEPT ![n] = Overlaid(content[n], file[n])]
      BY <1>2, <2>1, <2>3, <3>1 DEF Flushed
    <3> QED
      BY <1>1, <2>2, <3>2 DEF Sane, Contents
  <2>4. CASE ~Pending(n)
    <3>1. Settled(n) = content /\ Dirty(file[n]) = {}
      BY <1>2, <1>4, <2>1, <2>4 DEF Flushed, Pending
    <3> QED
      BY <2>2, <3>1, OverlaidClean
  <2> QED
    BY <2>3, <2>4
<1> QED
  BY <1>3, <1>4

LEMMA StatTruth ==
  ASSUME IInv, NEW n \in Nodes, n \notin excused, content[n] # None, Opened(n, "w") = {}
  PROVE  StatSize(n) = Len(truth[n])
<1>1. Sound(n) /\ Tidy(n) /\ Sane /\ Streams(n) = {}
  BY Tidiness DEF IInv, AllSound, Blurred, Streams
<1>2. content[n] \in Text /\ truth[n] \in Text
  BY <1>1, NoneIsNoRow DEF Sane, Contents, Alike
<1>3. Len(content[n]) \in Nat /\ Len(truth[n]) \in Nat
  BY <1>2 DEF Text
<1>4. StatSize(n) = Max({Len(content[n]) + Waiting(n)}
                          \cup IF file[n] = None THEN {} ELSE {file[n].size})
  <2>1. {Len(fd[h].buf) : h \in Opened(n, "w")} = {}
    OBVIOUS
  <2> QED
    BY <2>1 DEF StatSize, Waiting
<1>5. CASE file[n] = None
  <2>1. StatSize(n) = Max({Len(content[n]) + Waiting(n)})
    BY <1>4, <1>5
  <2>2. Len(content[n]) + Waiting(n) = Len(truth[n])
    <3>1. CASE Batches(n) = {}
      BY <1>1, <1>3, <1>5, <3>1, WaitingNone DEF Sound, SoundBatch
    <3>2. ASSUME NEW g \in Batches(n) PROVE Len(content[n]) + Waiting(n) = Len(truth[n])
      <4>1. Batches(n) = {g} /\ truth[n] = content[n] \o fd[g].buf
        BY <1>1, <1>5, <3>2 DEF Tidy, Sound, SoundBatch
      <4>2. g \in Fds /\ fd[g] # None
        BY <3>2 DEF Batches, Opened, On
      <4>3. fd[g].buf \in Text /\ Len(fd[g].buf) \in Nat
        BY <1>1, <4>2, HandleOf DEF Text
      <4>4. Len(truth[n]) = Len(content[n]) + Len(fd[g].buf)
        BY <1>2, <4>1, <4>3, JoinedText
      <4> QED
        BY <4>1, <4>3, <4>4, WaitingOne
    <3> QED
      BY <3>1, <3>2
  <2> QED
    BY <1>3, <2>1, <2>2, MaxSingle
<1>6. CASE file[n] # None
  <2>1. Waiting(n) = 0
    BY <1>1, <1>6, OverlaidAlone, WaitingNone
  <2>2. file[n].size = Len(truth[n]) /\ truth[n] = Overlaid(content[n], file[n])
        /\ file[n] \in Overlay
    BY <1>1, <1>6, OverlayOf DEF Sound, SoundOverlay
  <2>3. Len(content[n]) <= Len(truth[n])
    BY <1>2, <2>2, OverlaidIs
  <2>4. StatSize(n) = Max({Len(truth[n]), Len(content[n])})
    BY <1>3, <1>4, <1>6, <2>1, <2>2
  <2> QED
    BY <1>3, <2>3, <2>4, MaxPair
<1> QED
  BY <1>5, <1>6

LEMMA ViewTruth ==
  ASSUME IInv, NEW n \in Nodes, n \notin excused, file[n] # None
  PROVE  ViewOf(file[n]) = truth[n]
<1>1. Sound(n) /\ Tidy(n) /\ Sane /\ file[n] \in Overlay /\ content[n] # None /\ content[n] \in Text
  BY Tidiness, OverlayOf DEF IInv, AllSound, Blurred
<1>2. Visible(file[n].path) = n /\ Streams(n) = {}
  BY <1>1, OverlaidAlone DEF Tidy
<1>3. truth[n] = Overlaid(content[n], file[n]) /\ file[n].size = Len(truth[n])
  BY <1>1, <1>2 DEF Sound, SoundOverlay
<1>4. truth[n] \in Text /\ truth[n] = [i \in 1..Len(truth[n]) |-> truth[n][i]]
  <2>1. truth[n] \in Text
    BY <1>1, <1>3, OverlaidIs
  <2> QED
    BY <2>1 DEF Text
<1>5. \A i \in 1..Len(truth[n]) :
        truth[n][i] = IF i - 1 \in Dirty(file[n]) THEN file[n].ext[i - 1] ELSE Byte(content[n], i)
  <2>1. PICK s, f : s = content[n] /\ f = file[n]
    OBVIOUS
  <2>2. s \in Text /\ f \in Overlay /\ truth[n] = Overlaid(s, f)
    BY <1>1, <1>3, <2>1
  <2>3. \A i \in 1..Len(Overlaid(s, f)) :
          Overlaid(s, f)[i] = IF i - 1 \in Dirty(f) THEN f.ext[i - 1] ELSE Byte(s, i)
    BY <2>2, OverlaidIs
  <2> QED
    BY <2>1, <2>2, <2>3
<1>6. ViewOf(file[n]) = [i \in 1..Len(truth[n]) |->
        IF i - 1 \in Dirty(file[n]) THEN file[n].ext[i - 1] ELSE Byte(content[n], i)]
  BY <1>2, <1>3 DEF ViewOf
<1> QED
  BY <1>4, <1>5, <1>6

(* When every handle of a file was flushed since it last wrote, the file   *)
(* is committed as its writers were told, whatever the interleaving of     *)
(* processes and whatever crashes came before (flush, fsync, release),     *)
(* unless one of the causes named at Blur befell it, or a request by inode *)
(* reached another file (fuse.py 521, 652, 784): then neither file counts. *)
THEOREM ClosedFilesAreCommitted == Spec => []ClosedIsCommitted
<1>1. IInv => ClosedIsCommitted
  BY OnlyCommitted DEF ClosedIsCommitted
<1> QED
  BY <1>1, FilesInvariant, PTL

(* "One shared overlay per inode makes every handle see one truth": every  *)
(* way to look at a file (a settled read, the overlay, stat, the stream)   *)
(* shows what its writers were told, unless one of the causes named at     *)
(* Blur, a refused commit or a truncation past the handles befell it, or a *)
(* request sent by inode reached another file, which showed at the path of *)
(* the inode (fuse.py 521, 652, 784): then neither of the two counts.      *)
THEOREM EveryHandleSeesOneTruth == Spec => []OneTruth
<1>1. IInv => OneTruth
  <2> SUFFICES ASSUME IInv, NEW n \in Nodes \ excused
               PROVE  /\ content[n] # None /\ Streams(n) = {} =>
                           \A m \in {n} \cup {fd[h].node : h \in Opened(n, "r")} :
                             Settled(n)[m] = truth[n]
                      /\ content[n] # None /\ Opened(n, "w") = {} => StatSize(n) = Len(truth[n])
                      /\ \A h \in Streams(n) : fd[h].buf = truth[n]
                      /\ file[n] # None => ViewOf(file[n]) = truth[n]
    BY DEF OneTruth
  <2>1. \A h \in Streams(n) : fd[h].buf = truth[n]
    <3>1. Sound(n)
      BY DEF IInv, AllSound
    <3>2. ASSUME NEW h \in Streams(n) PROVE content[n] # None
      <4>1. h \in Fds /\ fd[h] # None /\ fd[h].ino = n
        BY <3>2 DEF Streams, Opened, On
      <4> QED
        BY <4>1, HandleOf DEF IInv
    <3> QED
      BY <3>1, <3>2 DEF Sound, SoundStream
  <2>2. \A m \in {n} \cup {fd[h].node : h \in Opened(n, "r")} : m = n
    BY Tidiness DEF IInv, Blurred, Tidy
  <2> QED
    BY <2>1, <2>2, SettledTruth, StatTruth, ViewTruth
<1> QED
  BY <1>1, FilesInvariant, PTL
====
