---- MODULE VolumeTreeProofs ----
(***************************************************************************)
(* Theorems about two users of the engine's tree (VolumeTree.tla): the     *)
(* WebDAV frontend (WebDav.tla) and the walks of the command line          *)
(* (TreeTransfer.tla).                                                     *)
(*                                                                         *)
(* The invariant of WebDAV has four parts.  The tree is well formed: what  *)
(* is above an existing name is a directory, and no node has two names.    *)
(* The locks agree: a row the session has in the engine is that of a live  *)
(* token, or of the upload in progress, and a token that was not refreshed *)
(* has the row of its node wherever that is by now.  The request in flight *)
(* still may do what it asked for: the tokens that govern its paths are    *)
(* its client's, because a registry no one else can change meanwhile only  *)
(* loses tokens with time.  And what the request remembers, the node of    *)
(* its descriptor and the versions it read, is the truth unless the other  *)
(* mount raced it.                                                         *)
(*                                                                         *)
(* The invariant of a walk says that what it goes by was there and that a  *)
(* file is copied from one node (HonestInv), that what stayed is made, at  *)
(* hand or to be listed (CoverInv), that a file whose node stayed has been *)
(* read, under a time that is not after any content that was (DatedInv),   *)
(* and what was sent of a local tree (PutInv).                             *)
(***************************************************************************)
EXTENDS WebDav, TreeTransfer, TLAPS, FiniteSetTheorems, FunctionTheorems, SequenceTheorems

(***************************************************************************)
(* Paths, and what the engine's operations leave of the tree (VolumeTree): *)
(* lemmas that say nothing of WebDAV.                                      *)
(*                                                                         *)
(* Shaped is the part of the tree's well-formedness that holds of all the   *)
(* names above one at once, so that it needs no induction on a path.       *)
(***************************************************************************)

Trees == [Paths -> TreeNode \cup {None}]

TreeTypes == /\ tree \in Trees
             /\ fresh \in Nat \ {0} /\ now \in Nat /\ outside \in Nat

Shaped(t) ==
  \A p, q \in Paths : t[p] # None /\ Within(p, q) /\ p # q => t[q] # None /\ t[q].dir

---------------------------------------------------------------------------
(* Paths                                                                   *)

(* A path is a sequence of names.                                          *)
LEMMA PathIsSeq ==
  ASSUME NEW p \in Paths
  PROVE  p \in Seq(Names) /\ Len(p) \in Nat
BY PathAssumption, LenProperties

LEMMA RootIsEmpty == Root \in Paths /\ Len(Root) = 0 /\ Root = << >>
BY PathAssumption DEF Root

(* Being at or below is an order.                                          *)
LEMMA WithinItself ==
  ASSUME NEW p \in Seq(Names)
  PROVE  Within(p, p)
BY LenProperties DEF Within

LEMMA WithinTransitive ==
  ASSUME NEW p \in Seq(Names), NEW q \in Seq(Names), NEW r \in Seq(Names),
         Within(p, q), Within(q, r)
  PROVE  Within(p, r)
BY LenProperties DEF Within

LEMMA WithinShorter ==
  ASSUME NEW p \in Seq(Names), NEW q \in Seq(Names), Within(p, q), p # q
  PROVE  Len(q) < Len(p)
<1>1. Len(p) # Len(q)
  BY SeqEqual, LenProperties DEF Within
<1> QED
  BY <1>1, LenProperties DEF Within

LEMMA WithinAntisymmetric ==
  ASSUME NEW p \in Seq(Names), NEW q \in Seq(Names), Within(p, q), Within(q, p)
  PROVE  p = q
BY WithinShorter, LenProperties

(* Of two paths above a third, one is above the other.                     *)
LEMMA WithinComparable ==
  ASSUME NEW p \in Seq(Names), NEW q \in Seq(Names), NEW r \in Seq(Names),
         Within(p, q), Within(p, r)
  PROVE  Within(q, r) \/ Within(r, q)
<1>1. Len(q) \in Nat /\ Len(r) \in Nat
  BY LenProperties
<1>2. CASE Len(r) <= Len(q)
  BY <1>1, <1>2 DEF Within
<1>3. CASE Len(q) <= Len(r)
  BY <1>1, <1>3 DEF Within
<1> QED
  BY <1>1, <1>2, <1>3

(* The beginning of a path.                                                *)
LEMMA Beginning ==
  ASSUME NEW p \in Seq(Names), NEW n \in 0..Len(p)
  PROVE  /\ SubSeq(p, 1, n) \in Seq(Names) /\ Len(SubSeq(p, 1, n)) = n
         /\ \A i \in 1..n : SubSeq(p, 1, n)[i] = p[i]
<1>1. Len(p) \in Nat /\ \A i \in 1..n : p[i] \in Names
  BY LenProperties, ElementOfSeq
<1>2. n \in Int /\ 1 \in Int /\ n - 1 + 1 = n /\ (1 <= n \/ n = 0)
  BY <1>1
<1>3. SubSeq(p, 1, n) \in Seq(Names) /\ Len(SubSeq(p, 1, n)) = n
  BY <1>1, <1>2, SubSeqProperties
<1>4. \A i \in 1..n : SubSeq(p, 1, n)[i] = p[1 + i - 1]
  BY <1>1, <1>2, SubSeqProperties
<1>5. \A i \in 1..n : 1 + i - 1 = i
  BY <1>2
<1> QED
  BY <1>3, <1>4, <1>5

(* The parent is the last of the paths above.                              *)
LEMMA ParentAbove ==
  ASSUME NEW p \in Paths, p # Root
  PROVE  Parent(p) \in Paths /\ Within(p, Parent(p)) /\ p # Parent(p)
<1>1. p \in Seq(Names) /\ Len(p) \in Nat /\ Len(p) # 0
  BY PathIsSeq, EmptySeq DEF Root
<1>2. Parent(p) \in Paths
  BY <1>1, PathAssumption DEF Parent
<1>3. /\ Len(Parent(p)) = Len(p) - 1
      /\ \A i \in 1..Len(p) - 1 : Parent(p)[i] = p[i]
  <2>1. Len(p) - 1 \in 0..Len(p)
    BY <1>1
  <2> QED
    BY <1>1, <2>1, Beginning DEF Parent
<1> QED
  BY <1>1, <1>2, <1>3 DEF Within

LEMMA AboveParent ==
  ASSUME NEW p \in Paths, NEW q \in Paths, Within(p, q), p # q
  PROVE  p # Root /\ Within(Parent(p), q)
<1>1. p \in Seq(Names) /\ q \in Seq(Names) /\ Len(p) \in Nat /\ Len(q) \in Nat
  BY PathIsSeq
<1>2. Len(q) < Len(p)
  BY <1>1, WithinShorter
<1>3. p # Root
  BY <1>1, <1>2 DEF Root
<1>4. /\ Len(Parent(p)) = Len(p) - 1
      /\ \A i \in 1..Len(p) - 1 : Parent(p)[i] = p[i]
  <2>1. Len(p) - 1 \in 0..Len(p)
    BY <1>1, <1>2
  <2> QED
    BY <1>1, <2>1, Beginning DEF Parent
<1> QED
  BY <1>1, <1>2, <1>3, <1>4 DEF Within

(* What a path above an existing one's path is.                            *)
LEMMA PrefixIsPath ==
  ASSUME NEW p \in Paths, NEW q \in Seq(Names), Within(p, q)
  PROVE  q \in Paths
<1>1. p \in Seq(Names) /\ Len(p) \in Nat /\ Len(q) \in Nat
  BY PathIsSeq, LenProperties
<1>2. Len(q) \in 0..Len(p)
  BY <1>1 DEF Within
<1>3. SubSeq(p, 1, Len(q)) \in Paths
  BY <1>2, PathAssumption
<1>4. SubSeq(p, 1, Len(q)) \in Seq(Names) /\ Len(SubSeq(p, 1, Len(q))) = Len(q)
      /\ \A i \in 1..Len(q) : SubSeq(p, 1, Len(q))[i] = p[i]
  BY <1>1, <1>2, Beginning
<1>5. SubSeq(p, 1, Len(q)) = q
  BY <1>1, <1>4, SeqEqual DEF Within
<1> QED
  BY <1>3, <1>5

(* The rest of a path below another, and the path moved under a third.     *)
LEMMA Rest ==
  ASSUME NEW q \in Seq(Names), NEW n \in 0..Len(q)
  PROVE  /\ SubSeq(q, n + 1, Len(q)) \in Seq(Names)
         /\ Len(SubSeq(q, n + 1, Len(q))) = Len(q) - n
         /\ \A i \in 1..Len(q) - n : SubSeq(q, n + 1, Len(q))[i] = q[n + i]
<1>1. Len(q) \in Nat /\ n \in Nat /\ n <= Len(q)
  BY LenProperties
<1>2. \A i \in n + 1..Len(q) : q[i] \in Names
  BY <1>1, ElementOfSeq
<1> DEFINE m == n + 1
           k == Len(q)
<1>3. m \in Int /\ k \in Int /\ k - m + 1 = k - n /\ (m <= k \/ k - n = 0)
  BY <1>1
<1>4. \A i \in m..k : q[i] \in Names
  BY <1>2
<1>5. \A i \in 1..k - n : m + i - 1 = n + i
  BY <1>1
<1> HIDE DEF m, k
<1>6. /\ SubSeq(q, m, k) \in Seq(Names)
      /\ Len(SubSeq(q, m, k)) = IF m <= k THEN k - m + 1 ELSE 0
      /\ \A i \in 1..k - m + 1 : SubSeq(q, m, k)[i] = q[m + i - 1]
  BY <1>3, <1>4, SubSeqProperties
<1>7. Len(SubSeq(q, m, k)) = k - n
  BY <1>3, <1>6
<1>8. \A i \in 1..k - n : SubSeq(q, m, k)[i] = q[n + i]
  BY <1>3, <1>5, <1>6
<1> QED
  BY <1>6, <1>7, <1>8 DEF m, k

LEMMA Rebased ==
  ASSUME NEW q \in Seq(Names), NEW from \in Seq(Names), NEW to \in Seq(Names), Within(q, from)
  PROVE  /\ Rebase(q, from, to) \in Seq(Names)
         /\ Len(Rebase(q, from, to)) = Len(to) + (Len(q) - Len(from))
         /\ \A i \in 1..Len(to) : Rebase(q, from, to)[i] = to[i]
         /\ \A i \in 1..Len(q) - Len(from) : Rebase(q, from, to)[Len(to) + i] = q[Len(from) + i]
<1> DEFINE s == SubSeq(q, Len(from) + 1, Len(q))
           r == Rebase(q, from, to)
<1>1. Len(q) \in Nat /\ Len(from) \in Nat /\ Len(to) \in Nat /\ Len(from) \in 0..Len(q)
  BY LenProperties DEF Within
<1>2. /\ s \in Seq(Names) /\ Len(s) = Len(q) - Len(from)
      /\ \A i \in 1..Len(q) - Len(from) : s[i] = q[Len(from) + i]
  BY <1>1, Rest
<1>3. r = to \o s
  BY DEF Rebase
<1> HIDE DEF s, r
<1>4. /\ r \in Seq(Names) /\ Len(r) = Len(to) + Len(s)
      /\ \A i \in 1..Len(to) + Len(s) : r[i] = IF i <= Len(to) THEN to[i] ELSE s[i - Len(to)]
  <2>1. s \in Seq(Names)
    BY <1>2
  <2> QED
    BY <2>1, <1>3, ConcatProperties
<1>5. ASSUME NEW i \in 1..Len(to) PROVE r[i] = to[i]
  <2>1. i \in 1..Len(to) + Len(s) /\ i <= Len(to)
    BY <1>1, <1>2
  <2> QED
    BY <2>1, <1>4
<1>6. ASSUME NEW i \in 1..Len(q) - Len(from) PROVE r[Len(to) + i] = q[Len(from) + i]
  <2>1. Len(to) + i \in 1..Len(to) + Len(s) /\ ~(Len(to) + i <= Len(to)) /\ (Len(to) + i) - Len(to) = i
    BY <1>1, <1>2
  <2> QED
    BY <2>1, <1>2, <1>4
<1> USE DEF r
<1> QED
  BY <1>2, <1>4, <1>5, <1>6

(* Moving a path under another keeps what is above what, and loses nothing. *)
LEMMA RebasedWithin ==
  ASSUME NEW q \in Seq(Names), NEW from \in Seq(Names), NEW to \in Seq(Names), Within(q, from)
  PROVE  Within(Rebase(q, from, to), to)
<1>1. /\ Rebase(q, from, to) \in Seq(Names)
      /\ Len(Rebase(q, from, to)) = Len(to) + (Len(q) - Len(from))
      /\ \A i \in 1..Len(to) : Rebase(q, from, to)[i] = to[i]
  BY Rebased
<1>2. Len(q) \in Nat /\ Len(from) \in Nat /\ Len(to) \in Nat /\ Len(from) <= Len(q)
  BY LenProperties DEF Within
<1> QED
  BY <1>1, <1>2 DEF Within

LEMMA RebaseKeepsOrder ==
  ASSUME NEW q \in Seq(Names), NEW r \in Seq(Names), NEW from \in Seq(Names), NEW to \in Seq(Names),
         Within(q, r), Within(r, from), q # r
  PROVE  /\ Within(Rebase(q, from, to), Rebase(r, from, to))
         /\ Rebase(q, from, to) # Rebase(r, from, to)
<1> DEFINE a == Rebase(q, from, to)
           b == Rebase(r, from, to)
<1>1. Len(q) \in Nat /\ Len(r) \in Nat /\ Len(from) \in Nat /\ Len(to) \in Nat
      /\ Len(from) <= Len(r)
  BY LenProperties DEF Within
<1>2. Len(r) < Len(q)
  BY WithinShorter
<1>3. /\ a \in Seq(Names) /\ Len(a) = Len(to) + (Len(q) - Len(from))
      /\ \A i \in 1..Len(to) : a[i] = to[i]
      /\ \A i \in 1..Len(q) - Len(from) : a[Len(to) + i] = q[Len(from) + i]
  <2>1. Within(q, from)
    BY WithinTransitive
  <2> QED
    BY ZenonT(60), <2>1, Rebased
<1>4. /\ b \in Seq(Names) /\ Len(b) = Len(to) + (Len(r) - Len(from))
      /\ \A i \in 1..Len(to) : b[i] = to[i]
      /\ \A i \in 1..Len(r) - Len(from) : b[Len(to) + i] = r[Len(from) + i]
  BY ZenonT(60), Rebased
<1> HIDE DEF a, b
<1>5. Len(b) < Len(a)
  BY <1>1, <1>2, <1>3, <1>4
<1>6. ASSUME NEW i \in 1..Len(b) PROVE a[i] = b[i]
  <2>1. CASE i <= Len(to)
    BY <2>1, <1>1, <1>3, <1>4
  <2>2. CASE ~(i <= Len(to))
    <3> DEFINE j == i - Len(to)
    <3>1. j \in 1..Len(r) - Len(from) /\ j \in 1..Len(q) - Len(from) /\ i = Len(to) + j
          /\ Len(from) + j \in 1..Len(r)
      BY <2>2, <1>1, <1>2, <1>4
    <3> HIDE DEF j
    <3>2. q[Len(from) + j] = r[Len(from) + j]
      BY <3>1 DEF Within
    <3>3. a[Len(to) + j] = q[Len(from) + j] /\ b[Len(to) + j] = r[Len(from) + j]
      BY <3>1, <1>3, <1>4
    <3> QED
      BY <3>1, <3>2, <3>3
  <2> QED
    BY <2>1, <2>2
<1>7. Within(a, b)
  BY <1>5, <1>6, <1>3, <1>4, LenProperties DEF Within
<1>8. a # b
  BY <1>5, <1>3, <1>4, LenProperties
<1> USE DEF a, b
<1> QED
  BY <1>7, <1>8

LEMMA RebaseInjective ==
  ASSUME NEW q \in Seq(Names), NEW r \in Seq(Names), NEW from \in Seq(Names), NEW to \in Seq(Names),
         Within(q, from), Within(r, from), Rebase(q, from, to) = Rebase(r, from, to)
  PROVE  q = r
<1> DEFINE a == Rebase(q, from, to)
<1>1. Len(q) \in Nat /\ Len(r) \in Nat /\ Len(from) \in Nat /\ Len(to) \in Nat
      /\ Len(from) <= Len(r) /\ Len(from) <= Len(q)
  BY LenProperties DEF Within
<1>2. /\ Len(a) = Len(to) + (Len(q) - Len(from))
      /\ \A i \in 1..Len(q) - Len(from) : a[Len(to) + i] = q[Len(from) + i]
  BY ZenonT(60), Rebased
<1> DEFINE b == Rebase(r, from, to)
<1>b. /\ Len(b) = Len(to) + (Len(r) - Len(from))
      /\ \A i \in 1..Len(r) - Len(from) : b[Len(to) + i] = r[Len(from) + i]
  BY Rebased
<1>c. a = b
  OBVIOUS
<1> HIDE DEF b
<1>3. /\ Len(a) = Len(to) + (Len(r) - Len(from))
      /\ \A i \in 1..Len(r) - Len(from) : a[Len(to) + i] = r[Len(from) + i]
  BY <1>b, <1>c
<1> HIDE DEF a
<1>4. Len(q) = Len(r)
  BY <1>1, <1>2, <1>3
<1>5. ASSUME NEW i \in 1..Len(q) PROVE q[i] = r[i]
  <2>1. CASE i <= Len(from)
    BY <2>1, <1>1 DEF Within
  <2>2. CASE ~(i <= Len(from))
    <3> DEFINE j == i - Len(from)
    <3>1. j \in 1..Len(r) - Len(from) /\ j \in 1..Len(q) - Len(from) /\ i = Len(from) + j
      BY <2>2, <1>1, <1>4
    <3> HIDE DEF j
    <3> QED
      BY <3>1, <1>2, <1>3
  <2> QED
    BY <2>1, <2>2
<1> QED
  BY <1>4, <1>5, SeqEqual

(* There and back again; the last name of what moves, and its container.   *)
LEMMA RebasedBack ==
  ASSUME NEW q \in Seq(Names), NEW from \in Seq(Names), NEW to \in Seq(Names), Within(q, from)
  PROVE  Rebase(Rebase(q, from, to), to, from) = q
<1> DEFINE a == Rebase(q, from, to)
           b == Rebase(a, to, from)
<1>1. Len(q) \in Nat /\ Len(from) \in Nat /\ Len(to) \in Nat /\ Len(from) <= Len(q)
  BY LenProperties DEF Within
<1>2. /\ a \in Seq(Names) /\ Len(a) = Len(to) + (Len(q) - Len(from))
      /\ \A i \in 1..Len(q) - Len(from) : a[Len(to) + i] = q[Len(from) + i]
  BY ZenonT(60), Rebased
<1>3. Within(a, to)
  BY ZenonT(60), RebasedWithin
<1> HIDE DEF a
<1>4. /\ b \in Seq(Names) /\ Len(b) = Len(from) + (Len(a) - Len(to))
      /\ \A i \in 1..Len(from) : b[i] = from[i]
      /\ \A i \in 1..Len(a) - Len(to) : b[Len(from) + i] = a[Len(to) + i]
  BY ZenonT(60), <1>2, <1>3, Rebased
<1> HIDE DEF b
<1>5. Len(b) = Len(q) /\ Len(a) - Len(to) = Len(q) - Len(from)
  BY <1>1, <1>2, <1>4
<1>6. ASSUME NEW i \in 1..Len(q) PROVE b[i] = q[i]
  <2>1. CASE i <= Len(from)
    BY <2>1, <1>1, <1>4 DEF Within
  <2>2. CASE ~(i <= Len(from))
    <3> DEFINE j == i - Len(from)
    <3>1. j \in 1..Len(q) - Len(from) /\ i = Len(from) + j
      BY <2>2, <1>1
    <3> HIDE DEF j
    <3> QED
      BY <3>1, <1>2, <1>4, <1>5
  <2> QED
    BY <2>1, <2>2
<1>7. b = q
  BY <1>4, <1>5, <1>6, SeqEqual
<1> QED
  BY <1>7 DEF a, b

LEMMA RebasedParent ==
  ASSUME NEW p \in Paths, NEW from \in Paths, NEW to \in Paths, Within(p, from), p # from,
         Rebase(p, from, to) \in Paths
  PROVE  /\ Parent(p) \in Paths /\ Within(Parent(p), from)
         /\ Parent(Rebase(p, from, to)) = Rebase(Parent(p), from, to)
         /\ Rebase(p, from, to)[Len(Rebase(p, from, to))] = p[Len(p)]
<1> DEFINE a == Rebase(p, from, to)
           h == Parent(p)
           b == Rebase(h, from, to)
           m == Len(p) - Len(from)
<1>1. p \in Seq(Names) /\ from \in Seq(Names) /\ to \in Seq(Names)
      /\ Len(p) \in Nat /\ Len(from) \in Nat /\ Len(to) \in Nat
  BY PathIsSeq
<1>2. Len(from) < Len(p)
  BY <1>1, WithinShorter
<1>3. p # Root /\ Within(h, from)
  BY AboveParent
<1>4. h \in Paths /\ h \in Seq(Names) /\ Len(p) - 1 \in 0..Len(p)
  BY <1>1, <1>2, <1>3, ParentAbove, PathIsSeq
<1>5. Len(h) = Len(p) - 1 /\ \A i \in 1..Len(p) - 1 : h[i] = p[i]
  BY <1>1, <1>4, Beginning DEF Parent
<1>6. /\ a \in Seq(Names) /\ Len(a) = Len(to) + m
      /\ \A i \in 1..Len(to) : a[i] = to[i]
      /\ \A i \in 1..m : a[Len(to) + i] = p[Len(from) + i]
  BY ZenonT(60), <1>1, Rebased
<1>7. /\ b \in Seq(Names) /\ Len(b) = Len(to) + (Len(h) - Len(from))
      /\ \A i \in 1..Len(to) : b[i] = to[i]
      /\ \A i \in 1..Len(h) - Len(from) : b[Len(to) + i] = h[Len(from) + i]
  BY ZenonT(60), <1>1, <1>3, <1>4, Rebased
<1>8. a \in Paths
  OBVIOUS
<1>9. m \in Nat \ {0} /\ m = Len(p) - Len(from)
  BY <1>1, <1>2
<1> HIDE DEF a, b, h, m
<1>10. a # Root
  BY <1>1, <1>6, <1>9, RootIsEmpty
<1>11. /\ Parent(a) \in Seq(Names) /\ Len(Parent(a)) = Len(a) - 1
       /\ \A i \in 1..Len(a) - 1 : Parent(a)[i] = a[i]
  <2>1. Len(a) - 1 \in 0..Len(a)
    BY <1>1, <1>6, <1>9
  <2> QED
    BY <2>1, <1>6, Beginning DEF Parent
<1>12. Len(Parent(a)) = Len(b) /\ Len(b) = Len(to) + (m - 1) /\ Len(h) - Len(from) = m - 1
       /\ Len(a) - 1 = Len(to) + (m - 1)
  <2>1. /\ Len(h) = Len(p) - 1 /\ Len(a) = Len(to) + m /\ Len(b) = Len(to) + (Len(h) - Len(from))
        /\ Len(Parent(a)) = Len(a) - 1
    BY <1>5, <1>6, <1>7, <1>11
  <2> QED
    BY <2>1, <1>1, <1>9
<1>13. ASSUME NEW i \in 1..Len(b) PROVE Parent(a)[i] = b[i]
  <2>0. Parent(a)[i] = a[i]
    BY <1>11, <1>12
  <2>1. CASE i <= Len(to)
    BY <2>0, <2>1, <1>1, <1>6, <1>7
  <2>2. CASE ~(i <= Len(to))
    <3> DEFINE j == i - Len(to)
    <3>1. j \in 1..m - 1 /\ j \in 1..m /\ i = Len(to) + j /\ Len(from) + j \in 1..Len(p) - 1
      BY <2>2, <1>1, <1>9, <1>12
    <3> HIDE DEF j
    <3>2. a[i] = p[Len(from) + j] /\ b[i] = h[Len(from) + j]
      BY <3>1, <1>6, <1>7, <1>12
    <3> QED
      BY <2>0, <3>1, <3>2, <1>5
  <2> QED
    BY <2>1, <2>2
<1>14. Parent(a) = b
  BY <1>7, <1>11, <1>12, <1>13, SeqEqual
<1>15. a[Len(a)] = p[Len(p)]
  <2>1. m \in 1..m /\ Len(from) + m = Len(p)
    BY <1>1, <1>9
  <2> QED
    BY <2>1, <1>6
<1> QED
  BY <1>3, <1>4, <1>14, <1>15 DEF a, b, h

---------------------------------------------------------------------------
(* Operations                                                              *)

(* A new node is one.                                                      *)
LEMMA NodeIsNode ==
  ASSUME NEW id \in Nat, NEW dir \in BOOLEAN, NEW ver \in Nat
  PROVE  /\ Node(id, dir, ver) \in TreeNode /\ Node(id, dir, ver) # None
         /\ Node(id, dir, ver).dir = dir /\ Node(id, dir, ver).id = id
BY NodeAssumption DEF Node, TreeNode

(* Above a name whose parent is a directory everything is.                 *)
LEMMA AboveIsDir ==
  ASSUME Shaped(tree), NEW p \in Paths, IsDir(Parent(p)), p # Root,
         NEW q \in Paths, Within(p, q), p # q
  PROVE  IsDir(q)
<1>1. Parent(p) \in Paths /\ Within(Parent(p), q)
  BY ParentAbove, AboveParent
<1> QED
  BY <1>1 DEF Shaped, IsDir, Exists

(* Below a name that is free there is nothing.                             *)
LEMMA NothingBelow ==
  ASSUME Shaped(tree), NEW p \in Paths, ~IsDir(p), NEW q \in Paths, Within(q, p), p # q
  PROVE  ~Exists(q)
BY DEF Shaped, IsDir, Exists

LEMMA CreatedShaped ==
  ASSUME tree \in Trees, Shaped(tree), fresh \in Nat, NEW p \in Paths, NEW dir \in BOOLEAN,
         MayCreate(p)
  PROVE  /\ Created(p, dir) \in Trees /\ Shaped(Created(p, dir))
         /\ \A q \in Paths \ {p} : Created(p, dir)[q] = tree[q]
         /\ Created(p, dir)[p].dir = dir /\ Created(p, dir)[p].id = fresh
         /\ Created(p, dir)[p] # None
<1> DEFINE n == Node(fresh, dir, IF dir THEN 0 ELSE 1)
           t == Created(p, dir)
<1>1. n \in TreeNode /\ n # None /\ n.dir = dir /\ n.id = fresh
  BY NodeIsNode
<1>2. t = [tree EXCEPT ![p] = n]
  BY DEF Created
<1> HIDE DEF n, t
<1>3. t \in Trees /\ t[p] = n /\ \A q \in Paths \ {p} : t[q] = tree[q]
  BY <1>1, <1>2 DEF Trees
<1>4. ASSUME NEW r \in Paths, NEW q \in Paths, t[r] # None, Within(r, q), r # q
      PROVE  t[q] # None /\ t[q].dir
  <2>1. CASE r = p
    <3>1. IsDir(q)
      BY <2>1, <1>4, AboveIsDir DEF MayCreate
    <3> QED
      BY <3>1, <2>1, <1>3, <1>4 DEF IsDir, Exists
  <2>2. CASE r # p
    <3>1. Exists(r)
      BY <2>2, <1>3, <1>4 DEF Exists
    <3>2. IsDir(q)
      BY <3>1, <1>4 DEF Shaped, Exists, IsDir
    <3>3. q # p
      BY <3>2 DEF MayCreate, IsDir
    <3> QED
      BY <3>2, <3>3, <1>3 DEF IsDir, Exists
  <2> QED
    BY <2>1, <2>2
<1>5. Shaped(t)
  BY <1>4 DEF Shaped
<1> USE DEF t
<1> QED
  BY <1>1, <1>3, <1>5

(* A node that stays of its kind leaves the shape as it is.                *)
LEMMA SetShaped ==
  ASSUME tree \in Trees, Shaped(tree), NEW p \in Paths, Exists(p),
         NEW n \in TreeNode, n.dir = tree[p].dir
  PROVE  [tree EXCEPT ![p] = n] \in Trees /\ Shaped([tree EXCEPT ![p] = n])
<1> DEFINE t == [tree EXCEPT ![p] = n]
<1>1. t \in Trees /\ t[p] = n /\ \A q \in Paths \ {p} : t[q] = tree[q]
  BY DEF Trees
<1>2. n # None
  BY NodeAssumption
<1> HIDE DEF t
<1>3. \A q \in Paths : (t[q] # None <=> tree[q] # None) /\ (tree[q] # None => t[q].dir = tree[q].dir)
  BY <1>1, <1>2 DEF Exists
<1>4. Shaped(t)
  BY <1>3 DEF Shaped
<1> USE DEF t
<1> QED
  BY <1>1, <1>4

LEMMA WrittenShaped ==
  ASSUME tree \in Trees, Shaped(tree), NEW p \in Paths, Exists(p)
  PROVE  /\ Written(p) \in Trees /\ Shaped(Written(p))
         /\ \A q \in Paths \ {p} : Written(p)[q] = tree[q]
         /\ Written(p)[p].id = tree[p].id /\ Written(p)[p].dir = tree[p].dir /\ Written(p)[p] # None
<1> DEFINE n == [tree[p] EXCEPT !.ver = @ + 1]
<1>1. tree[p] \in TreeNode
  BY DEF Trees, Exists
<1>2. n \in TreeNode /\ n.dir = tree[p].dir /\ n.id = tree[p].id
  BY <1>1 DEF TreeNode
<1>3. Written(p) = [tree EXCEPT ![p] = n]
  BY DEF Written, Trees
<1> HIDE DEF n
<1>4. [tree EXCEPT ![p] = n] \in Trees /\ Shaped([tree EXCEPT ![p] = n])
  BY <1>2, SetShaped
<1>5. [tree EXCEPT ![p] = n][p] = n /\ \A q \in Paths \ {p} : [tree EXCEPT ![p] = n][q] = tree[q]
  BY DEF Trees
<1>6. n # None
  BY <1>2, NodeAssumption
<1> QED
  BY <1>2, <1>3, <1>4, <1>5, <1>6

LEMMA RemovedShaped ==
  ASSUME tree \in Trees, Shaped(tree), NEW p \in Paths
  PROVE  /\ Removed(p) \in Trees /\ Shaped(Removed(p))
         /\ \A q \in Paths : Removed(p)[q] = IF Within(q, p) THEN None ELSE tree[q]
<1> DEFINE t == Removed(p)
<1>1. /\ t \in Trees
      /\ \A q \in Paths : t[q] = IF Within(q, p) THEN None ELSE tree[q]
  BY DEF Removed, Trees, Below
<1> HIDE DEF t
<1>2. ASSUME NEW r \in Paths, NEW q \in Paths, t[r] # None, Within(r, q), r # q
      PROVE  t[q] # None /\ t[q].dir
  <2>1. ~Within(r, p) /\ tree[r] # None
    BY <1>1, <1>2
  <2>2. ~Within(q, p)
    BY <2>1, <1>2, WithinTransitive, PathIsSeq
  <2>3. tree[q] # None /\ tree[q].dir
    BY <2>1, <1>2 DEF Shaped
  <2> QED
    BY <2>2, <2>3, <1>1
<1>3. Shaped(t)
  BY <1>2 DEF Shaped
<1> USE DEF t
<1> QED
  BY <1>1, <1>3

(* Where a name below the destination of a move or copy comes from.        *)
LEMMA FromBelow ==
  ASSUME NEW src \in Paths, NEW dst \in Paths, NEW q \in Paths, Within(q, dst)
  PROVE  From(src, dst, q) \in Seq(Names) /\ Within(From(src, dst, q), src)
BY Rebased, RebasedWithin, PathIsSeq DEF From

LEMMA FromKeepsOrder ==
  ASSUME NEW src \in Paths, NEW dst \in Paths, NEW r \in Paths, NEW q \in Paths,
         Within(r, q), Within(q, dst), r # q, From(src, dst, r) \in Paths
  PROVE  /\ From(src, dst, q) \in Paths
         /\ Within(From(src, dst, r), From(src, dst, q)) /\ From(src, dst, r) # From(src, dst, q)
<1>1. /\ Within(From(src, dst, r), From(src, dst, q))
      /\ From(src, dst, r) # From(src, dst, q)
  BY RebaseKeepsOrder, PathIsSeq DEF From
<1>2. From(src, dst, q) \in Seq(Names)
  BY FromBelow
<1> QED
  BY <1>1, <1>2, PrefixIsPath

(* A tree with the source's names under a free destination, and that may   *)
(* have lost a subtree, is well formed.                                    *)
LEMMA PlacedShaped ==
  ASSUME tree \in Trees, Shaped(tree), NEW src \in Paths, NEW dst \in Paths,
         ~Exists(dst), IsDir(Parent(dst)), dst # Root,
         NEW t \in Trees, NEW Gone \in SUBSET Paths,
         \A r \in Paths, q \in Gone : Within(r, q) => r \in Gone,
         \A q \in Gone : t[q] = None,
         \A q \in Paths \ Gone : Within(q, dst) /\ From(src, dst, q) \in Paths =>
           /\ t[q] # None <=> tree[From(src, dst, q)] # None
           /\ t[q] # None => t[q].dir = tree[From(src, dst, q)].dir,
         \A q \in Paths \ Gone : ~(Within(q, dst) /\ From(src, dst, q) \in Paths) => t[q] = tree[q]
  PROVE  Shaped(t)
<1>1. ASSUME NEW r \in Paths, NEW q \in Paths, t[r] # None, Within(r, q), r # q
      PROVE  t[q] # None /\ t[q].dir
  <2>1. r \notin Gone /\ q \notin Gone
    BY <1>1
  <2>2. ASSUME Within(r, dst) PROVE From(src, dst, r) \in Paths /\ tree[From(src, dst, r)] # None
    <3>1. tree[r] = None
      BY <2>2 DEF Shaped, Exists
    <3> QED
      BY <3>1, <2>1, <2>2, <1>1
  <2>3. CASE Within(r, dst) /\ Within(q, dst)
    <3>1. /\ From(src, dst, q) \in Paths
          /\ Within(From(src, dst, r), From(src, dst, q)) /\ From(src, dst, r) # From(src, dst, q)
      BY <1>1, <2>2, <2>3, FromKeepsOrder
    <3>2. tree[From(src, dst, q)] # None /\ tree[From(src, dst, q)].dir
      BY <3>1, <2>2, <2>3 DEF Shaped
    <3> QED
      BY <3>1, <3>2, <2>1, <2>3
  <2>4. CASE Within(r, dst) /\ ~Within(q, dst)
    <3>1. Within(dst, q)
      BY <2>4, <1>1, WithinComparable, PathIsSeq
    <3>2. dst # q
      BY <2>4, WithinItself, PathIsSeq
    <3>3. IsDir(q)
      BY <3>1, <3>2, AboveIsDir
    <3> QED
      BY <3>3, <2>1, <2>4 DEF IsDir, Exists
  <2>5. CASE ~Within(r, dst)
    <3>1. ~Within(q, dst)
      BY <2>5, <1>1, WithinTransitive, PathIsSeq
    <3>2. tree[r] # None
      BY <2>1, <2>5, <1>1
    <3>3. tree[q] # None /\ tree[q].dir
      BY <3>2, <1>1 DEF Shaped
    <3> QED
      BY <3>1, <3>3, <2>1
  <2> QED
    BY <2>3, <2>4, <2>5
<1> QED
  BY <1>1 DEF Shaped

LEMMA MovedShaped ==
  ASSUME tree \in Trees, Shaped(tree), NEW src \in Paths, NEW dst \in Paths, MayPlace(src, dst)
  PROVE  /\ Moved(src, dst) \in Trees /\ Shaped(Moved(src, dst))
         /\ \A q \in Paths : ~Within(q, src) /\ ~Within(q, dst) => Moved(src, dst)[q] = tree[q]
         /\ \A q \in Paths : Within(q, src) => Moved(src, dst)[q] = None
<1> DEFINE t == Moved(src, dst)
<1>1. ASSUME NEW q \in Paths
      PROVE  t[q] = IF Within(q, src) THEN None
                    ELSE IF Within(q, dst) /\ From(src, dst, q) \in Paths
                    THEN tree[From(src, dst, q)] ELSE tree[q]
  BY DEF Moved, Below
<1>2. t \in Trees
  BY DEF Moved, Trees
<1>3. Below(src) \in SUBSET Paths /\ \A q \in Paths : q \in Below(src) <=> Within(q, src)
  BY DEF Below
<1>4. \A r \in Paths, q \in Below(src) : Within(r, q) => r \in Below(src)
  BY <1>3, WithinTransitive, PathIsSeq
<1>5. ~Exists(dst) /\ IsDir(Parent(dst)) /\ dst # Root
  BY DEF MayPlace
<1> HIDE DEF t
<1>6. \A q \in Below(src) : t[q] = None
  BY <1>1, <1>3
<1>7. \A q \in Paths \ Below(src) : Within(q, dst) /\ From(src, dst, q) \in Paths =>
        /\ t[q] # None <=> tree[From(src, dst, q)] # None
        /\ t[q] # None => t[q].dir = tree[From(src, dst, q)].dir
  BY <1>1, <1>3
<1>8. \A q \in Paths \ Below(src) :
        ~(Within(q, dst) /\ From(src, dst, q) \in Paths) => t[q] = tree[q]
  BY <1>1, <1>3
<1>9. Shaped(t)
  BY <1>2, <1>3, <1>4, <1>5, <1>6, <1>7, <1>8, PlacedShaped
<1>10. \A q \in Paths : /\ ~Within(q, src) /\ ~Within(q, dst) => t[q] = tree[q]
                        /\ Within(q, src) => t[q] = None
  BY <1>1
<1> USE DEF t
<1> QED
  BY <1>2, <1>9, <1>10

LEMMA TwinIsNode ==
  ASSUME fresh \in Nat, NEW n \in TreeNode \cup {None}
  PROVE  /\ Twin(n) \in TreeNode \cup {None}
         /\ Twin(n) # None <=> n # None
         /\ n # None => Twin(n).dir = n.dir /\ Twin(n).id = n.id + fresh
<1>1. CASE n = None
  BY <1>1 DEF Twin
<1>2. CASE n # None
  <2>1. n \in TreeNode
    BY <1>2
  <2>2. Twin(n) = [n EXCEPT !.id = n.id + fresh, !.ver = IF n.dir THEN 0 ELSE 1]
    BY <1>2 DEF Twin
  <2> DEFINE id == n.id + fresh
             ver == IF n.dir THEN 0 ELSE 1
  <2>3. id \in Nat /\ ver \in Nat
    BY <2>1 DEF TreeNode
  <2>4. Twin(n) = [n EXCEPT !.id = id, !.ver = ver]
    BY <2>2
  <2>5. id = n.id + fresh
    OBVIOUS
  <2> HIDE DEF id, ver
  <2>6. Twin(n) \in TreeNode /\ Twin(n).dir = n.dir /\ Twin(n).id = id
    BY <2>1, <2>3, <2>4 DEF TreeNode
  <2> QED
    BY <1>2, <2>5, <2>6, NodeAssumption
<1> QED
  BY <1>1, <1>2

LEMMA CopiedShaped ==
  ASSUME tree \in Trees, Shaped(tree), fresh \in Nat,
         NEW src \in Paths, NEW dst \in Paths, MayPlace(src, dst)
  PROVE  /\ Copied(src, dst) \in Trees /\ Shaped(Copied(src, dst))
         /\ \A q \in Paths : ~Within(q, dst) => Copied(src, dst)[q] = tree[q]
<1> DEFINE t == Copied(src, dst)
<1>1. ASSUME NEW q \in Paths
      PROVE  t[q] = IF Within(q, dst) /\ From(src, dst, q) \in Paths
                    THEN Twin(tree[From(src, dst, q)]) ELSE tree[q]
  BY DEF Copied, Below
<1>2. \A q \in Paths : /\ Twin(tree[q]) \in TreeNode \cup {None}
                       /\ Twin(tree[q]) # None <=> tree[q] # None
                       /\ tree[q] # None => Twin(tree[q]).dir = tree[q].dir
  BY TwinIsNode DEF Trees
<1>3. t = [q \in Paths |-> IF q \in Below(dst) /\ From(src, dst, q) \in Paths
                           THEN Twin(tree[From(src, dst, q)]) ELSE tree[q]]
  BY DEF Copied
<1>4. t \in Trees
  BY <1>2, <1>3 DEF Trees
<1>5. ~Exists(dst) /\ IsDir(Parent(dst)) /\ dst # Root
  BY DEF MayPlace
<1> HIDE DEF t
<1>6. \A q \in Paths \ {} : Within(q, dst) /\ From(src, dst, q) \in Paths =>
        /\ t[q] # None <=> tree[From(src, dst, q)] # None
        /\ t[q] # None => t[q].dir = tree[From(src, dst, q)].dir
  BY <1>1, <1>2
<1>7. \A q \in Paths \ {} :
        ~(Within(q, dst) /\ From(src, dst, q) \in Paths) => t[q] = tree[q]
  BY <1>1
<1>8. {} \in SUBSET Paths /\ (\A r \in Paths, q \in {} : Within(r, q) => r \in {})
      /\ \A q \in {} : t[q] = None
  OBVIOUS
<1>9. Shaped(t)
  BY <1>4, <1>5, <1>6, <1>7, <1>8, PlacedShaped
<1>10. \A q \in Paths : ~Within(q, dst) => t[q] = tree[q]
  BY <1>1
<1> USE DEF t
<1> QED
  BY <1>4, <1>9, <1>10

(* The tree a volume starts with is well formed: the ids given to its      *)
(* nodes exist, since there are as many numbers as nodes.                  *)
LEMMA IdsExist ==
  /\ Ids \in [Dirs \cup Docs -> 1..Cardinality(Dirs \cup Docs)]
  /\ \A p, q \in Dirs \cup Docs : p # q => Ids[p] # Ids[q]
<1> DEFINE S == Dirs \cup Docs
           n == Cardinality(S)
<1>1. n \in Nat /\ ExistsBijection(1..n, S)
  BY StartAssumption, FS_CardinalityType
<1> DEFINE T == 1..n
<1>2. ExistsBijection(T, S)
  BY <1>1
<1> HIDE DEF n, S, T
<1>3. PICK f : f \in Bijection(T, S)
  BY <1>2 DEF ExistsBijection
<1> DEFINE g == Inverse(f, T, S)
<1>4. g \in Bijection(S, T)
  BY <1>3, Fun_BijInverse
<1> HIDE DEF g
<1>5. g \in [S -> T] /\ \A p, q \in S : g[p] = g[q] => p = q
  BY <1>4, Fun_BijectionProperties
<1>6. \E ids \in [S -> T] : \A p, q \in S : p # q => ids[p] # ids[q]
  BY <1>5
<1> USE DEF n, S, T
<1> QED
  BY <1>6 DEF Ids

LEMMA StartShaped ==
  ASSUME TreeInit
  PROVE  TreeTypes /\ Shaped(tree)
<1>1. Cardinality(Dirs \cup Docs) \in Nat
  BY StartAssumption, FS_CardinalityType
<1>2. ASSUME NEW p \in Paths PROVE
      /\ tree[p] \in TreeNode \cup {None}
      /\ tree[p] # None <=> p \in Dirs \cup Docs
      /\ tree[p] # None => (tree[p].dir <=> p \in Dirs)
  <2>1. CASE p \in Dirs
    <3>1. tree[p] = Node(Ids[p], TRUE, 0) /\ Ids[p] \in Nat
      BY <2>1, <1>1, IdsExist DEF TreeInit
    <3>2. /\ Node(Ids[p], TRUE, 0) \in TreeNode /\ Node(Ids[p], TRUE, 0) # None
          /\ Node(Ids[p], TRUE, 0).dir
      BY ZenonT(60), <3>1, NodeIsNode
    <3> QED
      BY <2>1, <3>1, <3>2
  <2>2. CASE p \in Docs /\ p \notin Dirs
    <3>1. tree[p] = Node(Ids[p], FALSE, 1) /\ Ids[p] \in Nat
      <4>1. tree[p] = Node(Ids[p], FALSE, 1)
        BY <2>2 DEF TreeInit
      <4>2. Ids[p] \in 1..Cardinality(Dirs \cup Docs)
        BY <2>2, IdsExist
      <4> QED
        BY <4>1, <4>2, <1>1
    <3>2. /\ Node(Ids[p], FALSE, 1) \in TreeNode /\ Node(Ids[p], FALSE, 1) # None
          /\ ~Node(Ids[p], FALSE, 1).dir
      BY ZenonT(60), <3>1, NodeIsNode
    <3> QED
      BY <2>2, <3>1, <3>2
  <2>3. CASE p \notin Dirs /\ p \notin Docs
    BY <2>3 DEF TreeInit
  <2> QED
    BY <2>1, <2>2, <2>3
<1>3. tree \in Trees
  <2>1. tree = [p \in Paths |-> tree[p]]
    BY DEF TreeInit
  <2> QED
    BY <2>1, <1>2 DEF Trees
<1>4. ASSUME NEW p \in Paths, NEW q \in Paths, tree[p] # None, Within(p, q), p # q
      PROVE  tree[q] # None /\ tree[q].dir
  <2>1. p \in Seq(Names) /\ q \in Seq(Names) /\ Len(p) \in Nat /\ Len(q) \in Nat
    BY PathIsSeq
  <2>2. Len(q) < Len(p)
    BY <2>1, <1>4, WithinShorter
  <2>3. Len(q) \in 0..(Len(p) - 1)
    BY <2>1, <2>2
  <2>4. SubSeq(p, 1, Len(q)) \in Dirs
    BY <2>3, <1>2, <1>4, StartAssumption
  <2>5. Len(q) \in 0..Len(p)
    BY <2>1, <2>2
  <2>6. /\ SubSeq(p, 1, Len(q)) \in Seq(Names) /\ Len(SubSeq(p, 1, Len(q))) = Len(q)
        /\ \A i \in 1..Len(q) : SubSeq(p, 1, Len(q))[i] = p[i]
    BY <2>1, <2>5, Beginning
  <2>7. SubSeq(p, 1, Len(q)) = q
    BY <2>1, <2>6, <1>4, SeqEqual DEF Within
  <2> QED
    BY <2>4, <2>7, <1>2
<1>5. Shaped(tree)
  BY <1>4 DEF Shaped
<1>6. fresh \in Nat \ {0} /\ now \in Nat /\ outside \in Nat
  BY <1>1 DEF TreeInit
<1> QED
  BY <1>3, <1>5, <1>6 DEF TreeTypes

---------------------------------------------------------------------------
(* The identity of nodes: one keeps its id and its kind for as long as it  *)
(* is anywhere, and its content only gets newer.                           *)

(* Ids name one node each, and none of them is yet to be given.            *)
Unique(t) == \A p, q \in Paths : t[p] # None /\ t[q] # None /\ t[p].id = t[q].id => p = q

Given(t, k) == \A p \in Paths : t[p] # None => t[p].id < k

(* Every node of u is new, or one of t with a content no older.            *)
Follows(t, u, k) ==
  \A q \in Paths : u[q] # None =>
    \/ u[q].id >= k
    \/ \E p \in Paths : /\ t[p] # None /\ t[p].id = u[q].id
                        /\ t[p].dir = u[q].dir /\ t[p].ver <= u[q].ver

TreeInv == tree \in Trees /\ Shaped(tree) /\ fresh \in Nat /\ Unique(tree) /\ Given(tree, fresh)

(* What the engine makes of the tree.                                      *)
Grows(u, k) ==
  /\ u \in Trees /\ Shaped(u) /\ Unique(u) /\ Given(u, k)
  /\ k \in Nat /\ fresh <= k
  /\ Follows(tree, u, fresh)

(* Nodes are where they were, and no older.                                *)
LEMMA Alike ==
  ASSUME TreeInv, NEW u \in Trees, Shaped(u),
         \A q \in Paths : u[q] # None => /\ tree[q] # None /\ u[q].id = tree[q].id
                                         /\ u[q].dir = tree[q].dir /\ tree[q].ver <= u[q].ver
  PROVE  Grows(u, fresh)
<1>1. Unique(u)
  BY DEF TreeInv, Unique
<1>2. Given(u, fresh)
  BY DEF TreeInv, Given
<1>3. Follows(tree, u, fresh)
  BY DEF Follows
<1> QED
  BY <1>1, <1>2, <1>3 DEF Grows, TreeInv

LEMMA NodeFields ==
  ASSUME NEW t \in Trees, NEW p \in Paths, t[p] # None
  PROVE  t[p] \in TreeNode /\ t[p].id \in Nat /\ t[p].ver \in Nat /\ t[p].dir \in BOOLEAN
         /\ t[p].mode \in {0, 1}
BY DEF Trees, TreeNode

LEMMA TreeStays ==
  ASSUME TreeInv
  PROVE  Grows(tree, fresh)
<1>1. \A q \in Paths : tree[q] # None => tree[q].ver <= tree[q].ver
  BY NodeFields DEF TreeInv
<1> QED
  BY <1>1, Alike DEF TreeInv

LEMMA WrittenGrows ==
  ASSUME TreeInv, NEW p \in Paths, Exists(p)
  PROVE  Grows(Written(p), fresh)
<1> DEFINE u == Written(p)
<1>1. tree \in Trees /\ Shaped(tree)
  BY DEF TreeInv
<1>2. /\ u \in Trees /\ Shaped(u) /\ \A q \in Paths \ {p} : u[q] = tree[q]
      /\ u[p].id = tree[p].id /\ u[p].dir = tree[p].dir /\ u[p] # None
  BY <1>1, WrittenShaped
<1>3. tree[p] # None
  BY DEF Exists
<1>4. u[p].ver = tree[p].ver + 1
  <2>1. tree[p] \in TreeNode
    BY <1>1, <1>3, NodeFields
  <2>2. u[p] = [tree[p] EXCEPT !.ver = tree[p].ver + 1]
    BY <1>1 DEF Written, Trees
  <2> QED
    BY <2>1, <2>2 DEF TreeNode
<1> HIDE DEF u
<1>5. \A q \in Paths : tree[q] # None => tree[q].ver \in Nat
  BY <1>1, NodeFields
<1>6. \A q \in Paths : u[q] # None => /\ tree[q] # None /\ u[q].id = tree[q].id
                                      /\ u[q].dir = tree[q].dir /\ tree[q].ver <= u[q].ver
  BY <1>2, <1>3, <1>4, <1>5
<1>7. Grows(u, fresh)
  BY <1>2, <1>6, Alike
<1> QED
  BY <1>7 DEF u

LEMMA RemovedGrows ==
  ASSUME TreeInv, NEW p \in Paths
  PROVE  Grows(Removed(p), fresh)
<1> DEFINE u == Removed(p)
<1>1. u \in Trees /\ Shaped(u) /\ \A q \in Paths : u[q] = IF Within(q, p) THEN None ELSE tree[q]
  BY RemovedShaped DEF TreeInv
<1> HIDE DEF u
<1>2. \A q \in Paths : tree[q] # None => tree[q].ver \in Nat
  BY NodeFields DEF TreeInv
<1>3. \A q \in Paths : u[q] # None => /\ tree[q] # None /\ u[q].id = tree[q].id
                                      /\ u[q].dir = tree[q].dir /\ tree[q].ver <= u[q].ver
  BY <1>1, <1>2
<1>4. Grows(u, fresh)
  BY <1>1, <1>3, Alike
<1> QED
  BY <1>4 DEF u

LEMMA ChmodGrows ==
  ASSUME TreeInv, NEW p \in Paths, Exists(p)
  PROVE  Grows([tree EXCEPT ![p].mode = 1 - @], fresh)
<1> DEFINE n == [tree[p] EXCEPT !.mode = 1 - tree[p].mode]
           u == [tree EXCEPT ![p] = n]
<1>1. tree \in Trees /\ Shaped(tree) /\ tree[p] # None
  BY DEF TreeInv, Exists
<1>2. tree[p] \in TreeNode /\ tree[p].mode \in {0, 1} /\ tree[p].ver \in Nat
  BY <1>1, NodeFields
<1>3. n \in TreeNode /\ n.dir = tree[p].dir /\ n.id = tree[p].id /\ n.ver = tree[p].ver
  BY <1>2 DEF TreeNode
<1>4. u = [tree EXCEPT ![p].mode = 1 - @]
  BY <1>1 DEF Trees
<1> HIDE DEF n
<1>5. u \in Trees /\ Shaped(u)
  BY <1>1, <1>3, SetShaped
<1>6. u[p] = n /\ \A q \in Paths \ {p} : u[q] = tree[q]
  BY <1>1 DEF Trees
<1> HIDE DEF u
<1>7. \A q \in Paths : tree[q] # None => tree[q].ver \in Nat
  BY <1>1, NodeFields
<1>8. \A q \in Paths : u[q] # None => /\ tree[q] # None /\ u[q].id = tree[q].id
                                      /\ u[q].dir = tree[q].dir /\ tree[q].ver <= u[q].ver
  BY <1>1, <1>3, <1>6, <1>7
<1> QED
  BY <1>4, <1>5, <1>8, Alike

(* A new node under a free name.                                           *)
LEMMA AddedGrows ==
  ASSUME TreeInv, NEW p \in Paths, MayCreate(p), NEW n \in TreeNode, n.id = fresh
  PROVE  Grows([tree EXCEPT ![p] = n], fresh + 1)
<1> DEFINE u == [tree EXCEPT ![p] = n]
<1>1. tree \in Trees /\ Shaped(tree) /\ fresh \in Nat /\ n # None
  BY NodeAssumption DEF TreeInv
<1>2. u \in Trees /\ u[p] = n /\ \A q \in Paths \ {p} : u[q] = tree[q]
  BY <1>1 DEF Trees
<1> HIDE DEF u
<1>3. ASSUME NEW r \in Paths, NEW q \in Paths, u[r] # None, Within(r, q), r # q
      PROVE  u[q] # None /\ u[q].dir
  <2>1. CASE r = p
    <3>1. IsDir(q)
      BY <1>1, <2>1, <1>3, AboveIsDir DEF MayCreate
    <3> QED
      BY <3>1, <2>1, <1>2, <1>3 DEF IsDir, Exists
  <2>2. CASE r # p
    <3>1. IsDir(q)
      BY <1>1, <2>2, <1>2, <1>3 DEF Shaped, Exists, IsDir
    <3>2. q # p
      BY <3>1 DEF MayCreate, IsDir
    <3> QED
      BY <3>1, <3>2, <1>2 DEF IsDir, Exists
  <2> QED
    BY <2>1, <2>2
<1>4. Shaped(u)
  BY <1>3 DEF Shaped
<1>5. \A q \in Paths : tree[q] # None => tree[q].ver \in Nat /\ tree[q].id \in Nat /\ tree[q].id < fresh
  BY <1>1, NodeFields DEF TreeInv, Given
<1>6. \A q \in Paths : u[q] # None => u[q].id < fresh + 1
  BY <1>1, <1>2, <1>5
<1>7. Unique(u)
  <2>1. \A q \in Paths \ {p} : u[q] # None => u[q].id # fresh
    BY <1>1, <1>2, <1>5
  <2>2. \A q, r \in Paths : u[q] # None /\ u[r] # None /\ u[q].id = u[r].id => q = r
    BY <1>2, <2>1 DEF TreeInv, Unique
  <2> QED
    BY <2>2 DEF Unique
<1>8. Follows(tree, u, fresh)
  <2> SUFFICES ASSUME NEW q \in Paths, u[q] # None
               PROVE  \/ u[q].id >= fresh
                      \/ \E r \in Paths : /\ tree[r] # None /\ tree[r].id = u[q].id
                                          /\ tree[r].dir = u[q].dir /\ tree[r].ver <= u[q].ver
    BY DEF Follows
  <2>1. CASE q = p
    BY <2>1, <1>1, <1>2
  <2>2. CASE q # p
    BY <2>2, <1>2, <1>5
  <2> QED
    BY <2>1, <2>2
<1>9. Grows(u, fresh + 1)
  BY <1>1, <1>2, <1>4, <1>6, <1>7, <1>8 DEF Grows, Given
<1> QED
  BY <1>9 DEF u

LEMMA CreatedGrows ==
  ASSUME TreeInv, NEW p \in Paths, MayCreate(p), NEW dir \in BOOLEAN
  PROVE  Grows(Created(p, dir), fresh + 1)
<1> DEFINE n == Node(fresh, dir, IF dir THEN 0 ELSE 1)
<1>1. n \in TreeNode /\ n.id = fresh
  BY NodeIsNode DEF TreeInv
<1>2. Created(p, dir) = [tree EXCEPT ![p] = n]
  BY DEF Created
<1> HIDE DEF n
<1> QED
  BY <1>1, <1>2, AddedGrows

LEMMA MovedGrows ==
  ASSUME TreeInv, NEW src \in Paths, NEW dst \in Paths, MayPlace(src, dst)
  PROVE  Grows(Moved(src, dst), fresh)
<1> DEFINE u == Moved(src, dst)
<1>1. tree \in Trees /\ Shaped(tree) /\ fresh \in Nat
  BY DEF TreeInv
<1>2. u \in Trees /\ Shaped(u)
  BY <1>1, MovedShaped
<1>3. ASSUME NEW q \in Paths
      PROVE  u[q] = IF Within(q, src) THEN None
                    ELSE IF Within(q, dst) /\ From(src, dst, q) \in Paths
                    THEN tree[From(src, dst, q)] ELSE tree[q]
  BY DEF Moved, Below
<1> HIDE DEF u
<1> DEFINE Origin(q) == IF Within(q, dst) THEN From(src, dst, q) ELSE q
<1>4. ASSUME NEW q \in Paths, u[q] # None
      PROVE  /\ Origin(q) \in Paths /\ tree[Origin(q)] # None /\ u[q] = tree[Origin(q)]
             /\ ~Within(q, src) /\ (Within(q, dst) <=> Within(Origin(q), src))
  <2>1. ~Within(q, src)
    BY <1>3, <1>4
  <2>2. CASE Within(q, dst)
    <3>1. tree[q] = None
      <4>1. ~Exists(dst) /\ dst \in Paths
        BY DEF MayPlace
      <4>2. tree[q] # None /\ q # dst => tree[dst] # None
        BY <1>1, <2>2 DEF Shaped
      <4> QED
        BY <4>1, <4>2 DEF Exists
    <3>2. From(src, dst, q) \in Paths
      BY <1>3, <1>4, <2>1, <2>2, <3>1
    <3>3. u[q] = tree[From(src, dst, q)]
      BY <1>3, <2>1, <2>2, <3>2
    <3>4. Within(From(src, dst, q), src)
      BY <2>2, FromBelow
    <3> QED
      BY <1>4, <2>1, <2>2, <3>2, <3>3, <3>4
  <2>3. CASE ~Within(q, dst)
    BY <1>3, <1>4, <2>1, <2>3
  <2> QED
    BY <2>2, <2>3
<1>5. ASSUME NEW q \in Paths, NEW r \in Paths, u[q] # None, u[r] # None, Origin(q) = Origin(r)
      PROVE  q = r
  <2>1. Within(q, dst) <=> Within(r, dst)
    BY <1>4, <1>5
  <2>2. CASE Within(q, dst)
    BY <1>5, <2>1, <2>2, RebaseInjective, PathIsSeq DEF From
  <2> QED
    BY <1>5, <2>1, <2>2
<1> HIDE DEF Origin
<1>6. Unique(u)
  <2> SUFFICES ASSUME NEW q \in Paths, NEW r \in Paths, u[q] # None, u[r] # None, u[q].id = u[r].id
               PROVE  q = r
    BY DEF Unique
  <2>1. Origin(q) = Origin(r)
    BY <1>4 DEF TreeInv, Unique
  <2> QED
    BY <2>1, <1>5
<1>7. \A q \in Paths : tree[q] # None => tree[q].ver \in Nat
  BY <1>1, NodeFields
<1>8. Follows(tree, u, fresh)
  BY <1>4, <1>7 DEF Follows
<1>9. Given(u, fresh)
  BY <1>4 DEF TreeInv, Given
<1>10. Grows(u, fresh)
  BY <1>1, <1>2, <1>6, <1>8, <1>9 DEF Grows
<1> QED
  BY <1>10 DEF u

LEMMA CopiedGrows ==
  ASSUME TreeInv, NEW src \in Paths, NEW dst \in Paths, MayPlace(src, dst)
  PROVE  Grows(Copied(src, dst), 2 * fresh)
<1> DEFINE u == Copied(src, dst)
<1>1. tree \in Trees /\ Shaped(tree) /\ fresh \in Nat
  BY DEF TreeInv
<1>2. u \in Trees /\ Shaped(u)
  BY <1>1, CopiedShaped
<1> DEFINE New(q) == Within(q, dst) /\ From(src, dst, q) \in Paths
<1>3. ASSUME NEW q \in Paths
      PROVE  u[q] = IF New(q) THEN Twin(tree[From(src, dst, q)]) ELSE tree[q]
  BY DEF Copied, Below
<1> HIDE DEF u
<1>4. \A q \in Paths : tree[q] # None => /\ tree[q].ver \in Nat /\ tree[q].id \in Nat
                                        /\ tree[q].id < fresh
  BY <1>1, NodeFields DEF TreeInv, Given
<1>5. \A q \in Paths : Twin(tree[q]) # None => tree[q] # None /\ Twin(tree[q]).id = tree[q].id + fresh
  BY <1>1, TwinIsNode DEF Trees
<1>6. ASSUME NEW q \in Paths, u[q] # None, New(q)
      PROVE  /\ From(src, dst, q) \in Paths /\ tree[From(src, dst, q)] # None
             /\ u[q].id = tree[From(src, dst, q)].id + fresh
  BY <1>3, <1>5, <1>6
<1>7. ASSUME NEW q \in Paths, u[q] # None, ~New(q)
      PROVE  tree[q] # None /\ u[q] = tree[q]
  BY <1>3, <1>7
<1>8. ASSUME NEW q \in Paths, NEW r \in Paths, New(q), New(r), From(src, dst, q) = From(src, dst, r)
      PROVE  q = r
  BY <1>8, RebaseInjective, PathIsSeq DEF From
<1> HIDE DEF New
<1>9. \A q \in Paths : u[q] # None =>
        IF New(q) THEN u[q].id \in Nat /\ fresh <= u[q].id /\ u[q].id < 2 * fresh
        ELSE u[q].id \in Nat /\ u[q].id < fresh
  BY <1>1, <1>4, <1>6, <1>7
<1>10. Unique(u)
  <2> SUFFICES ASSUME NEW q \in Paths, NEW r \in Paths, u[q] # None, u[r] # None, u[q].id = u[r].id
               PROVE  q = r
    BY DEF Unique
  <2>1. CASE New(q) /\ New(r)
    <3>1. tree[From(src, dst, q)].id = tree[From(src, dst, r)].id
      BY <2>1, <1>1, <1>4, <1>6
    <3>2. From(src, dst, q) = From(src, dst, r)
      BY <2>1, <3>1, <1>6 DEF TreeInv, Unique
    <3> QED
      BY <2>1, <3>2, <1>8
  <2>2. CASE ~New(q) /\ ~New(r)
    BY <2>2, <1>7 DEF TreeInv, Unique
  <2>3. CASE New(q) # New(r)
    BY <2>3, <1>1, <1>9 DEF New
  <2> QED
    BY <2>1, <2>2, <2>3 DEF New
<1>11. Given(u, 2 * fresh)
  BY <1>1, <1>9 DEF Given
<1>12. Follows(tree, u, fresh)
  <2> SUFFICES ASSUME NEW q \in Paths, u[q] # None
               PROVE  \/ u[q].id >= fresh
                      \/ \E r \in Paths : /\ tree[r] # None /\ tree[r].id = u[q].id
                                          /\ tree[r].dir = u[q].dir /\ tree[r].ver <= u[q].ver
    BY DEF Follows
  <2>1. CASE New(q)
    BY <2>1, <1>1, <1>9
  <2>2. CASE ~New(q)
    BY <2>2, <1>4, <1>7
  <2> QED
    BY <2>1, <2>2
<1>13. Grows(u, 2 * fresh)
  BY <1>1, <1>2, <1>10, <1>11, <1>12 DEF Grows
<1> QED
  BY <1>13 DEF u

(* A commit of the descriptor on one node.                                 *)
LEMMA CommittedIs ==
  ASSUME TreeInv, NEW id
  PROVE  /\ Grows(WrittenNode(id), fresh)
         /\ \A q \in Paths :
              IF Exists(q) /\ tree[q].id = id
              THEN /\ WrittenNode(id)[q] # None /\ WrittenNode(id)[q].id = id
                   /\ WrittenNode(id)[q].dir = tree[q].dir /\ WrittenNode(id)[q].ver = tree[q].ver + 1
                   /\ WrittenNode(id)[q] # tree[q]
              ELSE WrittenNode(id)[q] = tree[q]
<1> DEFINE u == WrittenNode(id)
<1>1. tree \in Trees /\ Shaped(tree) /\ fresh \in Nat
  BY DEF TreeInv
<1>2. ASSUME NEW q \in Paths
      PROVE  IF Exists(q) /\ tree[q].id = id
             THEN /\ u[q] \in TreeNode /\ u[q].id = id
                  /\ u[q].dir = tree[q].dir /\ u[q].ver = tree[q].ver + 1
             ELSE u[q] = tree[q]
  <2>1. CASE Exists(q) /\ tree[q].id = id
    <3>1. tree[q] \in TreeNode
      BY <1>1, <2>1, NodeFields DEF Exists
    <3>2. u[q] = [tree[q] EXCEPT !.ver = tree[q].ver + 1]
      BY <2>1 DEF WrittenNode
    <3> QED
      BY <2>1, <3>1, <3>2 DEF TreeNode
  <2>2. CASE ~(Exists(q) /\ tree[q].id = id)
    BY <2>2 DEF WrittenNode
  <2> QED
    BY <2>1, <2>2
<1>3. u = [q \in Paths |-> u[q]]
  BY DEF WrittenNode
<1> HIDE DEF u
<1>4. \A q \in Paths : tree[q] # None => tree[q].ver \in Nat
  BY <1>1, NodeFields
<1>5. \A q \in Paths : tree[q] \in TreeNode \cup {None}
  BY <1>1 DEF Trees
<1>6. \A q \in Paths : u[q] \in TreeNode \cup {None}
  BY <1>2, <1>5
<1>7. u \in Trees
  BY <1>3, <1>6 DEF Trees
<1>8. \A q \in Paths : /\ u[q] # None <=> tree[q] # None
                       /\ u[q] # None => /\ u[q].id = tree[q].id /\ u[q].dir = tree[q].dir
                                         /\ tree[q].ver <= u[q].ver
  BY <1>2, <1>4, NodeAssumption DEF Exists
<1>9. Shaped(u)
  BY <1>1, <1>8 DEF Shaped
<1>10. Grows(u, fresh)
  BY <1>7, <1>8, <1>9, Alike
<1>11. \A q \in Paths :
         IF Exists(q) /\ tree[q].id = id
         THEN /\ u[q] # None /\ u[q].id = id
              /\ u[q].dir = tree[q].dir /\ u[q].ver = tree[q].ver + 1
              /\ u[q] # tree[q]
         ELSE u[q] = tree[q]
  BY <1>2, <1>4, NodeAssumption DEF Exists
<1> QED
  BY <1>10, <1>11 DEF u

LEMMA StartGrown ==
  ASSUME TreeInit
  PROVE  TreeInv
<1>1. tree \in Trees /\ Shaped(tree) /\ fresh \in Nat
  BY StartShaped DEF TreeTypes
<1>2. Cardinality(Dirs \cup Docs) \in Nat /\ fresh = Cardinality(Dirs \cup Docs) + 1
  BY StartAssumption, FS_CardinalityType DEF TreeInit
<1>3. ASSUME NEW p \in Paths, tree[p] # None
      PROVE  p \in Dirs \cup Docs /\ tree[p].id = Ids[p] /\ Ids[p] < fresh
  <2>1. p \in Dirs \cup Docs
    BY <1>3 DEF TreeInit
  <2>2. Ids[p] \in 1..Cardinality(Dirs \cup Docs)
    BY <2>1, IdsExist
  <2>3. tree[p] = Node(Ids[p], TRUE, 0) \/ tree[p] = Node(Ids[p], FALSE, 1)
    BY <2>1 DEF TreeInit
  <2>4. tree[p].id = Ids[p]
    BY <2>3 DEF Node
  <2> QED
    BY <1>2, <2>1, <2>2, <2>4
<1>4. Unique(tree)
  BY <1>3, IdsExist DEF Unique
<1>5. Given(tree, fresh)
  BY <1>3 DEF Given
<1> QED
  BY <1>1, <1>4, <1>5 DEF TreeInv
---------------------------------------------------------------------------
(***************************************************************************)
(* The frontend                                                            *)
(***************************************************************************)

Pcs == {"idle", "openread", "send", "openwrite", "receive", "mkdir", "remove", "clear",
        "place", "setmeta", "acquire", "enginelock"}
Ops == {"none", "get", "put", "upload", "mkcol", "mkdir", "delete", "rm", "move", "copy",
        "proppatch", "lockdir", "lockdoc"}
Validators == (Nat \X Nat) \cup {None}
Requests == [pc: Pcs, op: Ops, who: Clients \cup {Browser, None}, path: Paths, dst: Paths,
             seen: TreeNode \cup {None}, tag: Validators, node: Nat \cup {None},
             body: SUBSET (Nat \X Nat), keep: BOOLEAN, token: Tokens \cup {None}, deep: BOOLEAN,
             raced: BOOLEAN]
Memory == [tag: Validators, part: SUBSET (Nat \X Nat), sure: BOOLEAN]

LockTypes == /\ elock \in [LockIds -> EngineLock \cup {None}]
             /\ dlock \in [Tokens -> DavLock \cup {None}]
CallTypes == /\ req \in Requests /\ events \in Nat
             /\ cli \in [Clients -> Memory]

Types == TreeTypes /\ LockTypes /\ CallTypes

(* A token's row outlasts the token by no more than its lag, and is there  *)
(* for as long as the token unless that was refreshed; a token the engine  *)
(* was not asked about yet has none.                                       *)
RowEnds(t) ==
  elock[t] # None /\ elock[t].mount = "session" =>
    /\ elock[t].until \in Nat
    /\ elock[t].until <= now
       \/ (Unreleased(t) /\ elock[t].until <= dlock[t].until + dlock[t].lag)

RowIsThere(t) ==
  Unreleased(t) /\ dlock[t].node # None /\ ~dlock[t].refreshed =>
    /\ elock[t] # None /\ elock[t].mount = "session"
    /\ elock[t].node = dlock[t].node
    /\ elock[t].until \in Nat /\ dlock[t].until <= elock[t].until

Kept(t) ==
  /\ dlock[t] = None \/ dlock[t].node = None => elock[t] = None
  /\ dlock[t] # None => dlock[t].until <= now + Timeout
  /\ RowEnds(t)
  /\ RowIsThere(t)

TokenInv == \A t \in Tokens : Kept(t)

(* The upload in progress has a lock; other rows are those of a crashed    *)
(* session and of the other mount.                                         *)
UploadInv ==
  /\ elock["put"] # None => At("receive")
  /\ elock["left"] # None => elock["left"].mount = "lost"
  /\ elock["outside"] # None => elock["outside"].mount = "outside"

(* The token LOCK took from the registry is for the engine to back.        *)
Locking == At("enginelock") => req.token \in Tokens /\ Unreleased(req.token) /\ dlock[req.token].node = None

LockInv == TokenInv /\ UploadInv /\ Locking /\ TokensDisjoint

(* Whatever governs a path, or lies below it, is this client's; that is    *)
(* what the request in flight asked about before it began.                 *)
Mine(c, p, deep) ==
  \A t \in Tokens :
    Live(t) /\ (Covers(t, p) \/ (deep /\ Within(dlock[t].path, p))) => dlock[t].owner = c

Allowed ==
  /\ At("openwrite") \/ At("receive") \/ At("setmeta") => Mine(req.who, req.path, FALSE)
  /\ At("mkdir") => req.op = "mkcol" /\ Mine(req.who, req.path, FALSE)
  /\ At("remove") => req.op = "delete" /\ Mine(req.who, req.path, req.deep)
  /\ At("clear") \/ At("place") =>
       /\ req.op \in {"copy", "move"} /\ Mine(req.who, req.dst, FALSE)
       /\ req.op = "move" => Mine(req.who, req.path, req.deep)

RequestInv ==
  /\ At("idle") => req = NoRequest
  /\ At("openread") \/ At("send") => req.who \in Clients
  /\ At("setmeta") => req.seen # None
  /\ req.who \in Clients => Allowed
  /\ At("acquire") => req.who \in Clients /\ req.op \in {"lockdir", "lockdoc"}

(* What it remembers is so, if nothing raced it; what a client remembers   *)
(* of an unraced download is of one version.                               *)
Unraced ==
  /\ At("openread") => IsDoc(req.path) /\ Content(req.path) = req.tag /\ req.body = {}
  /\ At("send") => /\ IsDoc(req.path) /\ Content(req.path) = req.tag
                    /\ req.node = tree[req.path].id /\ req.body \subseteq {req.tag}
  /\ (At("openwrite") \/ At("receive")) /\ req.tag # None =>
       IsDoc(req.path) /\ Content(req.path) = req.tag
  /\ At("setmeta") => req.seen = tree[req.path]

MemoryInv ==
  /\ ~req.raced => Unraced
  /\ (At("openread") \/ At("send")) /\ req.keep =>
       cli[req.who].part # {} /\ cli[req.who].tag = req.tag
  /\ \A c \in Clients : cli[c].sure => cli[c].part \subseteq {cli[c].tag}

IInv == Types /\ TreeInv /\ LockInv /\ RequestInv /\ MemoryInv

---------------------------------------------------------------------------
(* Requests                                                                *)

(* What a request is when it begins.                                       *)
LEMMA NoRequestIs ==
  /\ NoRequest \in Requests /\ NoRequest.pc = "idle" /\ NoRequest.who = None
  /\ NoRequest.op = "none" /\ ~NoRequest.raced /\ ~NoRequest.keep
  /\ NoRequest.tag = None /\ NoRequest.path = Root /\ NoRequest.body = {}
BY RootIsEmpty DEF NoRequest, Requests, Pcs, Ops, Validators

LEMMA AsksIs ==
  ASSUME NEW c \in Clients \cup {Browser}, NEW op \in Ops, NEW pc \in Pcs, NEW p \in Paths
  PROVE  /\ Asks(c, op, pc, p) \in Requests
         /\ Asks(c, op, pc, p).pc = pc /\ Asks(c, op, pc, p).op = op
         /\ Asks(c, op, pc, p).who = c /\ Asks(c, op, pc, p).path = p
         /\ ~Asks(c, op, pc, p).raced /\ ~Asks(c, op, pc, p).keep
         /\ Asks(c, op, pc, p).tag = None /\ Asks(c, op, pc, p).body = {}
<1> DEFINE n == NoRequest
<1>1. n \in Requests /\ ~n.raced /\ ~n.keep /\ n.tag = None /\ n.body = {}
  BY NoRequestIs
<1>2. Asks(c, op, pc, p) = [n EXCEPT !.pc = pc, !.op = op, !.who = c, !.path = p]
  BY DEF Asks
<1> HIDE DEF n
<1> QED
  BY <1>1, <1>2 DEF Requests

(* The request in flight, taken a step further.                            *)
LEMMA GotoIs ==
  ASSUME req \in Requests, NEW pc \in Pcs, Goto(pc)
  PROVE  /\ req' \in Requests /\ req'.pc = pc /\ req'.op = req.op /\ req'.who = req.who
         /\ req'.path = req.path /\ req'.dst = req.dst /\ req'.tag = req.tag
         /\ req'.keep = req.keep /\ req'.raced = req.raced /\ req'.seen = req.seen
         /\ req'.deep = req.deep
BY DEF Goto, Requests

(* The requests that only begin, with what each asked about.               *)
Begins(op, pc, c, p) ==
  /\ req' \in Requests /\ req'.pc = pc /\ req'.op = op /\ req'.who = c /\ req'.path = p
  /\ ~req'.raced
  /\ events' = events + 1
  /\ UNCHANGED <<treeVars, dlock, cli>>

LEMMA ContentIsValidator ==
  ASSUME tree \in Trees, NEW p \in Paths, Exists(p)
  PROVE  Content(p) \in Validators /\ tree[p] \in TreeNode
BY DEF Trees, Exists, Content, Validators, TreeNode

LEMMA GetBegins ==
  ASSUME Types, NEW c \in Clients, NEW p \in Paths, NEW resume \in BOOLEAN, Get(c, p, resume)
  PROVE  /\ Begins("get", "openread", c, p) /\ IsDoc(p)
         /\ req'.tag = Content(p) /\ req'.body = {}
         /\ req'.keep => cli[c].part # {} /\ cli[c].tag = Content(p)
<1> DEFINE r == Asks(c, "get", "openread", p)
           k == resume /\ cli[c].tag = Content(p)
<1>1. IsDoc(p) /\ (resume => cli[c].part # {})
  BY DEF Get
<1>2. /\ r \in Requests /\ r.pc = "openread" /\ r.op = "get" /\ r.who = c /\ r.path = p
      /\ ~r.raced /\ r.body = {}
  <2>1. "get" \in Ops /\ "openread" \in Pcs /\ c \in Clients \cup {Browser}
    BY DEF Ops, Pcs
  <2> QED
    BY <2>1, AsksIs
<1>3. /\ req' = [r EXCEPT !.tag = Content(p), !.keep = k]
      /\ events' = events + 1
      /\ UNCHANGED <<treeVars, dlock, cli>>
  BY DEF Get, Start, Begin, Event
<1>4. Content(p) \in Validators /\ k \in BOOLEAN
  BY <1>1, ContentIsValidator DEF IsDoc, Types, TreeTypes
<1>5. k => cli[c].part # {} /\ cli[c].tag = Content(p)
  BY <1>1
<1> HIDE DEF r, k
<1>6. /\ req' \in Requests /\ req'.pc = "openread" /\ req'.op = "get" /\ req'.who = c
      /\ req'.path = p /\ ~req'.raced /\ req'.tag = Content(p) /\ req'.keep = k
      /\ req'.body = {}
  BY <1>2, <1>3, <1>4 DEF Requests
<1> QED
  BY <1>1, <1>3, <1>5, <1>6 DEF Begins

LEMMA PutBegins ==
  ASSUME Types, NEW c \in Clients, NEW p \in Paths, NEW cond \in {"any", "match", "new"},
         Put(c, p, cond)
  PROVE  /\ Begins("put", "openwrite", c, p) /\ Unlocked(c, p, FALSE)
         /\ req'.tag # None => IsDoc(p) /\ Content(p) = req'.tag
<1> DEFINE r == Asks(c, "put", "openwrite", p)
           v == IF cond = "match" THEN cli[c].tag ELSE None
<1>1. Unlocked(c, p, FALSE) /\ (cond = "match" => IsDoc(p) /\ cli[c].tag = Content(p))
  BY DEF Put, Precondition
<1>2. /\ r \in Requests /\ r.pc = "openwrite" /\ r.op = "put" /\ r.who = c /\ r.path = p
      /\ ~r.raced
  <2>1. "put" \in Ops /\ "openwrite" \in Pcs /\ c \in Clients \cup {Browser}
    BY DEF Ops, Pcs
  <2> QED
    BY <2>1, AsksIs
<1>3. /\ req' = [r EXCEPT !.tag = v]
      /\ events' = events + 1
      /\ UNCHANGED <<treeVars, dlock, cli>>
  BY DEF Put, Start, Begin, Event
<1>4. v \in Validators
  BY DEF Types, CallTypes, Memory, Validators
<1>5. v # None => IsDoc(p) /\ Content(p) = v
  BY <1>1
<1> HIDE DEF r, v
<1>6. /\ req' \in Requests /\ req'.pc = "openwrite" /\ req'.op = "put" /\ req'.who = c
      /\ req'.path = p /\ ~req'.raced /\ req'.tag = v
  BY <1>2, <1>3, <1>4 DEF Requests
<1> QED
  BY <1>1, <1>3, <1>5, <1>6 DEF Begins

LEMMA ProppatchBegins ==
  ASSUME Types, NEW c \in Clients, NEW p \in Paths, Proppatch(c, p)
  PROVE  /\ Begins("proppatch", "setmeta", c, p) /\ Unlocked(c, p, FALSE)
         /\ req'.seen = tree[p] /\ Exists(p)
<1> DEFINE r == Asks(c, "proppatch", "setmeta", p)
<1>1. Unlocked(c, p, FALSE) /\ Exists(p)
  BY DEF Proppatch
<1>2. /\ r \in Requests /\ r.pc = "setmeta" /\ r.op = "proppatch" /\ r.who = c /\ r.path = p
      /\ ~r.raced
  <2>1. "proppatch" \in Ops /\ "setmeta" \in Pcs /\ c \in Clients \cup {Browser}
    BY DEF Ops, Pcs
  <2> QED
    BY <2>1, AsksIs
<1>3. /\ req' = [r EXCEPT !.seen = tree[p]]
      /\ events' = events + 1
      /\ UNCHANGED <<treeVars, dlock, cli>>
  BY DEF Proppatch, Start, Begin, Event
<1>4. tree[p] \in TreeNode
  BY <1>1, ContentIsValidator DEF Types, TreeTypes
<1> HIDE DEF r
<1>5. /\ req' \in Requests /\ req'.pc = "setmeta" /\ req'.op = "proppatch" /\ req'.who = c
      /\ req'.path = p /\ ~req'.raced /\ req'.seen = tree[p]
  BY <1>2, <1>3, <1>4 DEF Requests
<1> QED
  BY <1>1, <1>3, <1>5 DEF Begins

LEMMA TransferBegins ==
  ASSUME Types, NEW c \in Clients, NEW p \in Paths, NEW dst \in Paths,
         NEW move \in BOOLEAN, NEW overwrite \in BOOLEAN, Transfer(c, p, dst, move, overwrite)
  PROVE  \E op \in {"copy", "move"}, pc \in {"clear", "place"} :
           /\ Begins(op, pc, c, p) /\ req'.dst = dst
           /\ Unlocked(c, dst, FALSE)
           /\ op = "move" => \E d \in BOOLEAN : req'.deep = d /\ Unlocked(c, p, d)
<1> DEFINE op == IF move THEN "move" ELSE "copy"
           pc == IF Exists(dst) THEN "clear" ELSE "place"
           deep == IsDir(p)
           r == Asks(c, op, pc, p)
<1>1. /\ Unlocked(c, dst, FALSE) /\ (op = "move" => Unlocked(c, p, deep))
      /\ op \in {"copy", "move"} /\ pc \in {"clear", "place"}
      /\ op \in Ops /\ pc \in Pcs /\ deep \in BOOLEAN
  BY DEF Transfer, Ops, Pcs, IsDir, Exists
<1>2. /\ req' = [r EXCEPT !.dst = dst, !.deep = deep]
      /\ events' = events + 1
      /\ UNCHANGED <<treeVars, dlock, cli>>
  BY DEF Transfer, Start, Begin, Event
<1> HIDE DEF op, pc, deep
<1>3. /\ r \in Requests /\ r.pc = pc /\ r.op = op /\ r.who = c /\ r.path = p
      /\ ~r.raced
  <2>1. c \in Clients \cup {Browser}
    OBVIOUS
  <2> QED
    BY <1>1, <2>1, AsksIs
<1> HIDE DEF r
<1>4. /\ req' \in Requests /\ req'.pc = pc /\ req'.op = op /\ req'.who = c
      /\ req'.path = p /\ ~req'.raced /\ req'.dst = dst /\ req'.deep = deep
  BY <1>1, <1>2, <1>3 DEF Requests
<1>5. Begins(op, pc, c, p)
  BY <1>2, <1>4 DEF Begins
<1> QED
  BY <1>1, <1>4, <1>5

LEMMA DeleteBegins ==
  ASSUME Types, NEW c \in Clients, NEW p \in Paths, NEW cond \in {"any", "match"},
         Delete(c, p, cond)
  PROVE  /\ Begins("delete", "remove", c, p)
         /\ \E d \in BOOLEAN : req'.deep = d /\ Unlocked(c, p, d)
<1> DEFINE deep == IsDir(p)
           r == Asks(c, "delete", "remove", p)
<1>1. Unlocked(c, p, deep) /\ deep \in BOOLEAN
  BY DEF Delete, IsDir, Exists
<1>2. /\ r \in Requests /\ r.pc = "remove" /\ r.op = "delete" /\ r.who = c /\ r.path = p
      /\ ~r.raced
  <2>1. "delete" \in Ops /\ "remove" \in Pcs /\ c \in Clients \cup {Browser}
    BY DEF Ops, Pcs
  <2> QED
    BY <2>1, AsksIs
<1>3. /\ req' = [r EXCEPT !.deep = deep]
      /\ events' = events + 1
      /\ UNCHANGED <<treeVars, dlock, cli>>
  BY DEF Delete, Start, Begin, Event
<1> HIDE DEF r, deep
<1>4. /\ req' \in Requests /\ req'.pc = "remove" /\ req'.op = "delete" /\ req'.who = c
      /\ req'.path = p /\ ~req'.raced /\ req'.deep = deep
  BY <1>1, <1>2, <1>3 DEF Requests
<1> QED
  BY <1>1, <1>3, <1>4 DEF Begins

LEMMA PlainBegins ==
  ASSUME NEW c \in Clients \cup {Browser}, NEW op \in Ops, NEW pc \in Pcs, NEW p \in Paths,
         Start(Asks(c, op, pc, p))
  PROVE  Begins(op, pc, c, p) /\ req'.tag = None
<1>1. /\ req' = Asks(c, op, pc, p) /\ events' = events + 1
      /\ UNCHANGED <<treeVars, dlock, cli>>
  BY DEF Start, Begin, Event
<1> QED
  BY <1>1, AsksIs DEF Begins

LEMMA BrowserTransferBegins ==
  ASSUME NEW p \in Paths, NEW dst \in Paths, NEW move \in BOOLEAN, BrowserTransfer(p, dst, move)
  PROVE  \E op \in {"copy", "move"} : Begins(op, "place", Browser, p) /\ req'.dst = dst
<1> DEFINE op == IF move THEN "move" ELSE "copy"
           r == Asks(Browser, op, "place", p)
<1>1. op \in {"copy", "move"} /\ op \in Ops /\ "place" \in Pcs /\ Browser \in Clients \cup {Browser}
  BY DEF Ops, Pcs
<1>2. /\ req' = [r EXCEPT !.dst = dst]
      /\ events' = events + 1
      /\ UNCHANGED <<treeVars, dlock, cli>>
  BY DEF BrowserTransfer, Start, Begin, Event
<1> HIDE DEF op
<1>3. /\ r \in Requests /\ r.pc = "place" /\ r.op = op /\ r.who = Browser /\ r.path = p
      /\ ~r.raced
  BY <1>1, AsksIs
<1> HIDE DEF r
<1>4. /\ req' \in Requests /\ req'.pc = "place" /\ req'.op = op /\ req'.who = Browser
      /\ req'.path = p /\ ~req'.raced /\ req'.dst = dst
  BY <1>2, <1>3 DEF Requests
<1>5. Begins(op, "place", Browser, p)
  BY <1>2, <1>4 DEF Begins
<1> QED
  BY <1>1, <1>4, <1>5

(* LOCK creates what it locks before it asks the registry.                 *)
LEMMA LockBegins ==
  ASSUME NEW c \in Clients, NEW p \in Paths, NEW deep \in BOOLEAN, Lock(c, p, deep)
  PROVE  /\ req' \in Requests /\ req'.pc = "acquire" /\ req'.op \in {"lockdir", "lockdoc"}
         /\ req'.who = c /\ req'.path = p /\ ~req'.raced
         /\ events' = events + 1
<1> DEFINE op == IF IsDir(p) THEN "lockdir" ELSE "lockdoc"
           r == Asks(c, op, "acquire", p)
<1>1. /\ op \in {"lockdir", "lockdoc"} /\ op \in Ops /\ "acquire" \in Pcs
      /\ c \in Clients \cup {Browser}
  BY DEF Ops, Pcs
<1>2. req' = [r EXCEPT !.deep = deep] /\ events' = events + 1
  BY DEF Lock, Begin, Event
<1> HIDE DEF op
<1>3. /\ r \in Requests /\ r.pc = "acquire" /\ r.op = op /\ r.who = c /\ r.path = p
      /\ ~r.raced
  BY <1>1, AsksIs
<1> HIDE DEF r
<1>4. /\ req' \in Requests /\ req'.pc = "acquire" /\ req'.op = op /\ req'.who = c
      /\ req'.path = p /\ ~req'.raced
  BY <1>2, <1>3 DEF Requests
<1> QED
  BY <1>1, <1>2, <1>4

(* What a client's request asks, and the browser's.                        *)
ClientStarts(c, p) ==
  \/ /\ Begins("get", "openread", c, p) /\ IsDoc(p) /\ req'.tag = Content(p) /\ req'.body = {}
     /\ req'.keep => cli[c].part # {} /\ cli[c].tag = Content(p)
  \/ /\ Begins("put", "openwrite", c, p) /\ Unlocked(c, p, FALSE)
     /\ req'.tag # None => IsDoc(p) /\ Content(p) = req'.tag
  \/ Begins("mkcol", "mkdir", c, p) /\ Unlocked(c, p, FALSE)
  \/ /\ Begins("delete", "remove", c, p)
     /\ \E d \in BOOLEAN : req'.deep = d /\ Unlocked(c, p, d)
  \/ /\ Begins("proppatch", "setmeta", c, p) /\ Unlocked(c, p, FALSE)
     /\ req'.seen = tree[p] /\ Exists(p)
  \/ \E op \in {"copy", "move"}, pc \in {"clear", "place"}, dst \in Paths :
       /\ Begins(op, pc, c, p) /\ req'.dst = dst
       /\ Unlocked(c, dst, FALSE)
       /\ op = "move" => \E d \in BOOLEAN : req'.deep = d /\ Unlocked(c, p, d)

BrowserStarts(p) ==
  \/ Begins("upload", "openwrite", Browser, p) /\ req'.tag = None
  \/ Begins("mkdir", "mkdir", Browser, p)
  \/ Begins("rm", "remove", Browser, p)
  \/ \E op \in {"copy", "move"} : Begins(op, "place", Browser, p)

(* Every request, and what it leaves: either it only begins, or it changes *)
(* the locks, or it is a LOCK.                                             *)
Starts ==
  /\ events' = events + 1 /\ UNCHANGED <<treeVars, dlock>>
  /\ \/ /\ req' = NoRequest
        /\ \E c \in Clients, p \in Paths :
             IsDoc(p) /\ cli' = [cli EXCEPT ![c] = [NoMemory EXCEPT !.tag = Content(p)]]
     \/ \E c \in Clients, p \in Paths : ClientStarts(c, p)
     \/ \E p \in Paths : BrowserStarts(p)

LEMMA BeginsStarts ==
  ASSUME NEW op, NEW pc, NEW c, NEW p, Begins(op, pc, c, p)
  PROVE  events' = events + 1 /\ UNCHANGED <<treeVars, dlock>>
BY DEF Begins

LEMMA RequestStarts ==
  ASSUME Types, Request
  PROVE  /\ At("idle")
         /\ \/ Starts
            \/ \E c \in Clients, p \in Paths, deep \in BOOLEAN : Lock(c, p, deep)
            \/ \E c \in Clients, t \in Tokens : Refresh(c, t) \/ Unlock(c, t)
<1> DEFINE Goal ==
      \/ Starts
      \/ \E c \in Clients, p \in Paths, deep \in BOOLEAN : Lock(c, p, deep)
      \/ \E c \in Clients, t \in Tokens : Refresh(c, t) \/ Unlock(c, t)
<1>1. At("idle")
  BY DEF Request
<1>2. ASSUME NEW c \in Clients, NEW p \in Paths, Look(c, p) PROVE Goal
  BY <1>2 DEF Look, Begin, Event, Starts, ClientStarts, BrowserStarts
<1>3. ASSUME NEW c \in Clients, NEW p \in Paths, Mkcol(c, p) PROVE Goal
  <2>1. "mkcol" \in Ops /\ "mkdir" \in Pcs /\ c \in Clients \cup {Browser}
    BY DEF Ops, Pcs
  <2>2. Unlocked(c, p, FALSE) /\ Begins("mkcol", "mkdir", c, p)
    BY <1>3, <2>1, PlainBegins DEF Mkcol
  <2> QED
    BY <2>2, BeginsStarts DEF Starts, ClientStarts, BrowserStarts
<1>4. ASSUME NEW c \in Clients, NEW p \in Paths, Proppatch(c, p) PROVE Goal
  <2>1. /\ Begins("proppatch", "setmeta", c, p) /\ Unlocked(c, p, FALSE)
        /\ req'.seen = tree[p] /\ Exists(p)
    BY <1>4, ProppatchBegins
  <2> QED
    BY <2>1, BeginsStarts DEF Starts, ClientStarts, BrowserStarts
<1>5. ASSUME NEW c \in Clients, NEW p \in Paths, NEW resume \in BOOLEAN, Get(c, p, resume)
      PROVE  Goal
  <2>1. /\ Begins("get", "openread", c, p) /\ IsDoc(p) /\ req'.tag = Content(p) /\ req'.body = {}
        /\ req'.keep => cli[c].part # {} /\ cli[c].tag = Content(p)
    BY <1>5, GetBegins
  <2> QED
    BY <2>1, BeginsStarts DEF Starts, ClientStarts, BrowserStarts
<1>6. ASSUME NEW c \in Clients, NEW p \in Paths, NEW cond \in {"any", "match", "new"},
             Put(c, p, cond)
      PROVE  Goal
  <2>1. /\ Begins("put", "openwrite", c, p) /\ Unlocked(c, p, FALSE)
        /\ req'.tag # None => IsDoc(p) /\ Content(p) = req'.tag
    BY <1>6, PutBegins
  <2> QED
    BY <2>1, BeginsStarts DEF Starts, ClientStarts, BrowserStarts
<1>7. ASSUME NEW c \in Clients, NEW p \in Paths, NEW cond \in {"any", "match"}, Delete(c, p, cond)
      PROVE  Goal
  <2>1. /\ Begins("delete", "remove", c, p)
        /\ \E d \in BOOLEAN : req'.deep = d /\ Unlocked(c, p, d)
    BY <1>7, DeleteBegins
  <2> QED
    BY <2>1, BeginsStarts DEF Starts, ClientStarts, BrowserStarts
<1>8. ASSUME NEW c \in Clients, NEW p \in Paths, NEW dst \in Paths, NEW move \in BOOLEAN,
             NEW overwrite \in BOOLEAN, Transfer(c, p, dst, move, overwrite)
      PROVE  Goal
  <2>1. PICK op \in {"copy", "move"}, pc \in {"clear", "place"} :
           /\ Begins(op, pc, c, p) /\ req'.dst = dst
           /\ Unlocked(c, dst, FALSE)
           /\ op = "move" => \E d \in BOOLEAN : req'.deep = d /\ Unlocked(c, p, d)
    BY <1>8, TransferBegins
  <2> QED
    BY <2>1, BeginsStarts DEF Starts, ClientStarts, BrowserStarts
<1>9. ASSUME NEW p \in Paths, Upload(p) PROVE Goal
  <2>1. "upload" \in Ops /\ "openwrite" \in Pcs /\ Browser \in Clients \cup {Browser}
    BY DEF Ops, Pcs
  <2>2. Begins("upload", "openwrite", Browser, p) /\ req'.tag = None
    BY <1>9, <2>1, PlainBegins DEF Upload
  <2> QED
    BY <2>2, BeginsStarts DEF Starts, ClientStarts, BrowserStarts
<1>10. ASSUME NEW p \in Paths, Mkdir(p) PROVE Goal
  <2>1. "mkdir" \in Ops /\ "mkdir" \in Pcs /\ Browser \in Clients \cup {Browser}
    BY DEF Ops, Pcs
  <2>2. Begins("mkdir", "mkdir", Browser, p)
    BY <1>10, <2>1, PlainBegins DEF Mkdir
  <2> QED
    BY <2>2, BeginsStarts DEF Starts, ClientStarts, BrowserStarts
<1>11. ASSUME NEW p \in Paths, BrowserDelete(p) PROVE Goal
  <2>1. "rm" \in Ops /\ "remove" \in Pcs /\ Browser \in Clients \cup {Browser}
    BY DEF Ops, Pcs
  <2>2. Begins("rm", "remove", Browser, p)
    BY <1>11, <2>1, PlainBegins DEF BrowserDelete
  <2> QED
    BY <2>2, BeginsStarts DEF Starts, ClientStarts, BrowserStarts
<1>12. ASSUME NEW p \in Paths, NEW dst \in Paths, NEW move \in BOOLEAN,
              BrowserTransfer(p, dst, move)
       PROVE  Goal
  <2>1. PICK op \in {"copy", "move"} : Begins(op, "place", Browser, p)
    BY <1>12, BrowserTransferBegins
  <2> QED
    BY <2>1, BeginsStarts DEF Starts, ClientStarts, BrowserStarts
<1>13. ASSUME NEW c \in Clients, NEW p \in Paths, NEW deep \in BOOLEAN, Lock(c, p, deep)
       PROVE  Goal
  BY <1>13
<1>14. ASSUME NEW c \in Clients, NEW t \in Tokens, Refresh(c, t) \/ Unlock(c, t)
       PROVE  Goal
  BY <1>14
<1> HIDE DEF Goal
<1>15. Goal
  BY <1>2, <1>3, <1>4, <1>5, <1>6, <1>7, <1>8, <1>9, <1>10, <1>11, <1>12, <1>13, <1>14
     DEF Request
<1> QED
  BY <1>1, <1>15 DEF Goal

---------------------------------------------------------------------------
(* The tree                                                                *)

(* MKCOL makes one directory, mkdir from the browser every missing one     *)
(* down to it.                                                             *)
LEMMA MakeDirShaped ==
  ASSUME Types, Shaped(tree), MakeDir
  PROVE  /\ tree' \in Trees /\ Shaped(tree') /\ fresh' \in Nat \ {0}
         /\ req.op # "mkdir" => \A q \in Paths \ {req.path} : tree'[q] = tree[q]
<1> DEFINE p == req.path
           missing == IF req.op = "mkdir" THEN {q \in Ancestors(p) : ~Exists(q)} ELSE {p}
<1>1. p \in Paths /\ tree \in Trees /\ fresh \in Nat \ {0}
  BY DEF Types, CallTypes, Requests, TreeTypes
<1>2. Len(p) \in Nat
  BY <1>1, PathIsSeq
<1>3. \/ /\ ~Exists(p) /\ \A q \in Ancestors(p) \ missing : IsDir(q)
         /\ tree' = [q \in Paths |-> IF q \in missing THEN Node(fresh + Len(q), TRUE, 0) ELSE tree[q]]
         /\ fresh' = fresh + Len(p) + 1
      \/ UNCHANGED <<tree, fresh>>
  BY DEF MakeDir
<1>4. ASSUME NEW q \in missing, ~Exists(p) PROVE q \in Paths /\ Within(p, q) /\ ~Exists(q)
  BY <1>1, <1>4, WithinItself, PathIsSeq DEF Ancestors
<1>5. req.op # "mkdir" => missing = {p}
  OBVIOUS
<1> HIDE DEF missing, p
<1>6. CASE UNCHANGED <<tree, fresh>>
  BY <1>6, <1>1
<1>7. CASE /\ ~Exists(p) /\ \A q \in Ancestors(p) \ missing : IsDir(q)
           /\ tree' = [q \in Paths |-> IF q \in missing THEN Node(fresh + Len(q), TRUE, 0) ELSE tree[q]]
           /\ fresh' = fresh + Len(p) + 1
  <2> DEFINE t == tree'
  <2>1. ASSUME NEW q \in missing
        PROVE  t[q] \in TreeNode /\ t[q] # None /\ t[q].dir
    <3>1. q \in Paths /\ Len(q) \in Nat
      BY <1>4, <1>7, PathIsSeq
    <3>2. t[q] = Node(fresh + Len(q), TRUE, 0) /\ fresh + Len(q) \in Nat
      BY <1>1, <1>7, <3>1
    <3>3. /\ Node(fresh + Len(q), TRUE, 0) \in TreeNode /\ Node(fresh + Len(q), TRUE, 0) # None
          /\ Node(fresh + Len(q), TRUE, 0).dir
      BY ZenonT(60), <3>2, NodeIsNode
    <3> QED
      BY <3>2, <3>3
  <2>2. \A q \in Paths \ missing : t[q] = tree[q]
    BY <1>7
  <2>3. t = [q \in Paths |-> t[q]]
    BY <1>7
  <2> HIDE DEF t
  <2>4. t \in Trees
    BY <2>1, <2>2, <2>3, <1>1 DEF Trees
  <2>5. ASSUME NEW r \in Paths, NEW q \in Paths, t[r] # None, Within(r, q), r # q
        PROVE  t[q] # None /\ t[q].dir
    <3>1. CASE r \in missing
      <4>1. Within(p, q) /\ q \in Ancestors(p)
        BY <3>1, <2>5, <1>1, <1>4, <1>7, WithinTransitive, PathIsSeq DEF Ancestors
      <4>2. CASE q \in missing
        BY <4>2, <2>1
      <4>3. CASE q \notin missing
        BY <4>1, <4>3, <1>7, <2>2 DEF IsDir, Exists
      <4> QED
        BY <4>2, <4>3
    <3>2. CASE r \notin missing
      <4>1. tree[r] # None
        BY <3>2, <2>2, <2>5
      <4>2. tree[q] # None /\ tree[q].dir
        BY <4>1, <2>5 DEF Shaped
      <4>3. q \notin missing
        BY <4>2, <1>4, <1>7 DEF Exists
      <4> QED
        BY <4>2, <4>3, <2>2
    <3> QED
      BY <3>1, <3>2
  <2>6. Shaped(t)
    BY <2>5 DEF Shaped
  <2>7. fresh' \in Nat \ {0}
    BY <1>1, <1>2, <1>7
  <2>8. req.op # "mkdir" => \A q \in Paths \ {p} : t[q] = tree[q]
    BY <1>5, <2>2
  <2> USE DEF t, p
  <2> QED
    BY <2>4, <2>6, <2>7, <2>8
<1> QED
  BY <1>3, <1>6, <1>7

LEMMA MakeDirGrows ==
  ASSUME Types, TreeInv, MakeDir
  PROVE  Grows(tree', fresh')
<1> DEFINE p == req.path
           u == tree'
           k == fresh'
           missing == IF req.op = "mkdir" THEN {q \in Ancestors(p) : ~Exists(q)} ELSE {p}
<1>1. /\ p \in Paths /\ tree \in Trees /\ Shaped(tree) /\ fresh \in Nat
      /\ u \in Trees /\ Shaped(u) /\ k \in Nat
  BY MakeDirShaped DEF Types, CallTypes, Requests, TreeInv
<1>2. \/ /\ ~Exists(p)
         /\ u = [q \in Paths |-> IF q \in missing THEN Node(fresh + Len(q), TRUE, 0) ELSE tree[q]]
         /\ k = fresh + Len(p) + 1
      \/ u = tree /\ k = fresh
  BY DEF MakeDir
<1>3. ASSUME NEW q \in missing PROVE q \in Paths /\ Within(p, q)
  BY <1>1, <1>3, WithinItself, PathIsSeq DEF Ancestors
<1> HIDE DEF missing, p, u, k
<1>4. ASSUME u = tree, k = fresh PROVE Grows(u, k)
  BY <1>4, TreeStays
<1>5. ASSUME ~Exists(p),
             u = [q \in Paths |-> IF q \in missing THEN Node(fresh + Len(q), TRUE, 0) ELSE tree[q]],
             k = fresh + Len(p) + 1
      PROVE  Grows(u, k)
  <2>1. ASSUME NEW q \in missing
        PROVE  /\ q \in Paths /\ Within(p, q) /\ Len(q) \in Nat /\ Len(q) <= Len(p)
               /\ u[q].id = fresh + Len(q)
    <3>1. q \in Paths /\ Within(p, q) /\ Len(q) \in Nat /\ Len(q) <= Len(p)
      BY <1>3, PathIsSeq DEF Within
    <3>2. u[q] = Node(fresh + Len(q), TRUE, 0)
      BY <1>5, <3>1
    <3> QED
      BY <3>1, <3>2 DEF Node
  <2>2. \A q \in Paths \ missing : u[q] = tree[q]
    BY <1>5
  <2>3. \A q \in Paths : tree[q] # None => /\ tree[q].ver \in Nat /\ tree[q].id \in Nat
                                          /\ tree[q].id < fresh
    BY <1>1, NodeFields DEF TreeInv, Given
  <2>4. Len(p) \in Nat
    BY <1>1, PathIsSeq
  <2>5. ASSUME NEW q \in missing, NEW r \in missing, Len(q) = Len(r) PROVE q = r
    <3>1. /\ p \in Seq(Names) /\ q \in Seq(Names) /\ r \in Seq(Names)
          /\ Within(p, q) /\ Within(p, r) /\ Len(q) \in Nat
      BY <2>1, <1>1, PathIsSeq
    <3>2. Within(q, r) \/ Within(r, q)
      BY <3>1, WithinComparable
    <3> QED
      BY <3>1, <3>2, <2>5, WithinShorter
  <2>6. Unique(u)
    <3> SUFFICES ASSUME NEW q \in Paths, NEW r \in Paths, u[q] # None, u[r] # None, u[q].id = u[r].id
                 PROVE  q = r
      BY DEF Unique
    <3>1. CASE q \in missing /\ r \in missing
      BY <3>1, <2>1, <2>5, <1>1
    <3>2. CASE q \notin missing /\ r \notin missing
      BY <3>2, <2>2 DEF TreeInv, Unique
    <3>3. CASE q \in missing /\ r \notin missing
      BY <3>3, <2>1, <2>2, <2>3, <1>1
    <3>4. CASE q \notin missing /\ r \in missing
      BY <3>4, <2>1, <2>2, <2>3, <1>1
    <3> QED
      BY <3>1, <3>2, <3>3, <3>4
  <2>7. Given(u, k)
    <3> SUFFICES ASSUME NEW q \in Paths, u[q] # None PROVE u[q].id < k
      BY DEF Given
    <3>1. CASE q \in missing
      <4>1. u[q].id = fresh + Len(q) /\ Len(q) <= Len(p) /\ Len(q) \in Nat
        BY <3>1, <2>1
      <4>2. fresh \in Nat /\ k = fresh + Len(p) + 1
        BY <1>1, <1>5
      <4> QED
        BY <4>1, <4>2, <2>4
    <3>2. CASE q \notin missing
      BY <3>2, <2>2, <2>3, <2>4, <1>1, <1>5
    <3> QED
      BY <3>1, <3>2
  <2>8. Follows(tree, u, fresh)
    <3> SUFFICES ASSUME NEW q \in Paths, u[q] # None
                 PROVE  \/ u[q].id >= fresh
                        \/ \E r \in Paths : /\ tree[r] # None /\ tree[r].id = u[q].id
                                            /\ tree[r].dir = u[q].dir /\ tree[r].ver <= u[q].ver
      BY DEF Follows
    <3>1. CASE q \in missing
      BY <3>1, <2>1, <1>1
    <3>2. CASE q \notin missing
      BY <3>2, <2>2, <2>3
    <3> QED
      BY <3>1, <3>2
  <2>9. fresh <= k
    BY <1>1, <1>5, <2>4
  <2> QED
    BY <1>1, <2>6, <2>7, <2>8, <2>9 DEF Grows
<1>6. Grows(u, k)
  BY <1>2, <1>4, <1>5
<1> QED
  BY <1>6 DEF u, k

(* What each other step makes of the tree.                                 *)
TreeKept == tree' = tree /\ fresh' = fresh
TreeGrown(p, dir) == MayCreate(p) /\ tree' = Created(p, dir) /\ fresh' = fresh + 1
TreeWritten(p) == Exists(p) /\ tree' = Written(p) /\ fresh' = fresh
TreeCommitted(id) == tree' = WrittenNode(id) /\ fresh' = fresh
TreeMeta(p, m, d) ==
  /\ Exists(p) /\ m \in {0, 1} /\ d \in {0, 1} /\ fresh' = fresh
  /\ tree' = [tree EXCEPT ![p] = [tree[p] EXCEPT !.mode = m, !.dead = d]]
TreeCut(p) == tree' = Removed(p) /\ fresh' = fresh
TreeMoved(src, dst) == MayPlace(src, dst) /\ tree' = Moved(src, dst) /\ fresh' = fresh
TreeCopied(src, dst) == MayPlace(src, dst) /\ tree' = Copied(src, dst) /\ fresh' = 2 * fresh

TreeChange ==
  \/ TreeKept
  \/ \E p \in Paths :
       \/ TreeWritten(p) \/ TreeCut(p)
       \/ \E dir \in BOOLEAN : TreeGrown(p, dir)
       \/ \E m, d \in {0, 1} : TreeMeta(p, m, d)
       \/ \E q \in Paths : TreeMoved(p, q) \/ TreeCopied(p, q)
  \/ \E id : TreeCommitted(id)
  \/ MakeDir

LEMMA ChangeIs ==
  /\ TreeKept => TreeChange
  /\ \A p \in Paths :
       /\ \A dir \in BOOLEAN : TreeGrown(p, dir) => TreeChange
       /\ TreeWritten(p) => TreeChange
       /\ TreeCut(p) => TreeChange
       /\ \A m, d \in {0, 1} : TreeMeta(p, m, d) => TreeChange
       /\ \A q \in Paths : TreeMoved(p, q) => TreeChange
       /\ \A q \in Paths : TreeCopied(p, q) => TreeChange
  /\ \A id : TreeCommitted(id) => TreeChange
BY DEF TreeChange

LEMMA MetaShaped ==
  ASSUME tree \in Trees, Shaped(tree), NEW p \in Paths, NEW m \in {0, 1}, NEW d \in {0, 1},
         TreeMeta(p, m, d)
  PROVE  /\ tree' \in Trees /\ Shaped(tree')
         /\ \A q \in Paths \ {p} : tree'[q] = tree[q]
         /\ tree'[p] # None /\ tree'[p].id = tree[p].id /\ tree'[p].dir = tree[p].dir
         /\ tree'[p].mode = m /\ tree'[p].ver = tree[p].ver
<1> DEFINE n == [tree[p] EXCEPT !.mode = m, !.dead = d]
<1>1. tree[p] \in TreeNode
  BY ContentIsValidator DEF TreeMeta
<1>2. n \in TreeNode /\ n.dir = tree[p].dir /\ n.id = tree[p].id /\ n.mode = m
      /\ n.ver = tree[p].ver
  BY <1>1 DEF TreeNode
<1>3. tree' = [tree EXCEPT ![p] = n] /\ Exists(p)
  BY DEF TreeMeta
<1> HIDE DEF n
<1>4. tree' \in Trees /\ Shaped(tree')
  BY <1>2, <1>3, SetShaped
<1>5. tree'[p] = n /\ \A q \in Paths \ {p} : tree'[q] = tree[q]
  BY <1>3 DEF Trees
<1> QED
  BY <1>2, <1>4, <1>5, NodeAssumption

LEMMA MetaGrows ==
  ASSUME TreeInv, NEW p \in Paths, NEW m \in {0, 1}, NEW d \in {0, 1}, TreeMeta(p, m, d)
  PROVE  Grows(tree', fresh')
<1> DEFINE u == tree'
<1>1. /\ tree \in Trees /\ Exists(p) /\ fresh' = fresh
      /\ u \in Trees /\ Shaped(u) /\ \A q \in Paths \ {p} : u[q] = tree[q]
      /\ u[p].id = tree[p].id /\ u[p].dir = tree[p].dir /\ u[p].ver = tree[p].ver
  BY MetaShaped DEF TreeInv, TreeMeta
<1> HIDE DEF u
<1>2. \A q \in Paths : tree[q] # None => tree[q].ver \in Nat
  BY <1>1, NodeFields
<1>3. \A q \in Paths : u[q] # None => /\ tree[q] # None /\ u[q].id = tree[q].id
                                      /\ u[q].dir = tree[q].dir /\ tree[q].ver <= u[q].ver
  BY <1>1, <1>2 DEF Exists
<1>4. Grows(u, fresh)
  BY <1>1, <1>3, Alike
<1> QED
  BY <1>1, <1>4 DEF u

LEMMA ChangeGrows ==
  ASSUME Types, TreeInv, TreeChange
  PROVE  Grows(tree', fresh')
<1>1. CASE TreeKept
  BY <1>1, TreeStays DEF TreeKept
<1>2. ASSUME NEW p \in Paths, NEW dir \in BOOLEAN, TreeGrown(p, dir) PROVE Grows(tree', fresh')
  BY <1>2, CreatedGrows DEF TreeGrown
<1>3. ASSUME NEW p \in Paths, TreeWritten(p) PROVE Grows(tree', fresh')
  BY <1>3, WrittenGrows DEF TreeWritten
<1>4. ASSUME NEW p \in Paths, TreeCut(p) PROVE Grows(tree', fresh')
  BY <1>4, RemovedGrows DEF TreeCut
<1>5. ASSUME NEW p \in Paths, NEW m \in {0, 1}, NEW d \in {0, 1}, TreeMeta(p, m, d)
      PROVE  Grows(tree', fresh')
  BY <1>5, MetaGrows
<1>6. ASSUME NEW p \in Paths, NEW q \in Paths, TreeMoved(p, q) PROVE Grows(tree', fresh')
  BY <1>6, MovedGrows DEF TreeMoved
<1>7. ASSUME NEW p \in Paths, NEW q \in Paths, TreeCopied(p, q) PROVE Grows(tree', fresh')
  BY <1>7, CopiedGrows DEF TreeCopied
<1>8. ASSUME NEW id, TreeCommitted(id) PROVE Grows(tree', fresh')
  BY <1>8, CommittedIs DEF TreeCommitted
<1>9. CASE MakeDir
  BY <1>9, MakeDirGrows
<1> QED
  BY <1>1, <1>2, <1>3, <1>4, <1>5, <1>6, <1>7, <1>8, <1>9 DEF TreeChange

(* Every step leaves the tree as it is or changes it in one of these ways, *)
(* and only the other mount's steps are counted as its.                    *)
LEMMA OutsideChanges ==
  ASSUME Types, OutsideStep
  PROVE  TreeChange /\ outside' = outside + 1 /\ now' = now
<1>1. outside' = outside + 1 /\ now' = now
  BY DEF OutsideStep
<1>2. \/ \E p \in Paths :
           \/ OutsideWrite(p) \/ OutsideRemove(p) \/ OutsideChmod(p) \/ OutsideLock(p)
           \/ \E dir \in BOOLEAN : OutsideCreate(p, dir)
           \/ \E dst \in Paths : OutsideMove(p, dst)
      \/ OutsideUnlock
  BY DEF OutsideStep
<1>3. ASSUME NEW p \in Paths, OutsideWrite(p) PROVE TreeChange
  BY <1>3, ChangeIs DEF OutsideWrite, TreeWritten, IsDoc
<1>4. ASSUME NEW p \in Paths, OutsideRemove(p) PROVE TreeChange
  BY <1>4, ChangeIs DEF OutsideRemove, TreeCut
<1>5. ASSUME NEW p \in Paths, OutsideChmod(p) PROVE TreeChange
  <2> DEFINE n == tree[p]
  <2>1. n \in TreeNode /\ Exists(p)
    BY <1>5, ContentIsValidator DEF OutsideChmod, Types, TreeTypes
  <2>2. tree' = [tree EXCEPT ![p] = [n EXCEPT !.mode = 1 - n.mode]] /\ fresh' = fresh
    BY <1>5 DEF OutsideChmod, Types, TreeTypes, Trees
  <2> HIDE DEF n
  <2>3. 1 - n.mode \in {0, 1} /\ n.dead \in {0, 1}
    BY <2>1 DEF TreeNode
  <2>4. [n EXCEPT !.mode = 1 - n.mode] = [n EXCEPT !.mode = 1 - n.mode, !.dead = n.dead]
    BY <2>1 DEF TreeNode
  <2>5. tree' = [tree EXCEPT ![p] = [n EXCEPT !.mode = 1 - n.mode, !.dead = n.dead]]
    BY <2>2, <2>4
  <2> USE DEF n
  <2>6. TreeMeta(p, 1 - n.mode, n.dead)
    BY <2>1, <2>2, <2>3, <2>5 DEF TreeMeta
  <2> QED
    BY <2>3, <2>6, ChangeIs
<1>6. ASSUME NEW p \in Paths, OutsideLock(p) PROVE TreeChange
  BY <1>6, ChangeIs DEF OutsideLock, TreeKept
<1>7. ASSUME OutsideUnlock PROVE TreeChange
  BY <1>7, ChangeIs DEF OutsideUnlock, TreeKept
<1>8. ASSUME NEW p \in Paths, NEW dir \in BOOLEAN, OutsideCreate(p, dir) PROVE TreeChange
  BY <1>8, ChangeIs DEF OutsideCreate, TreeGrown
<1>9. ASSUME NEW p \in Paths, NEW dst \in Paths, OutsideMove(p, dst) PROVE TreeChange
  BY <1>9, ChangeIs DEF OutsideMove, TreeMoved, MayMove
<1> QED
  BY <1>1, <1>2, <1>3, <1>4, <1>5, <1>6, <1>7, <1>8, <1>9

LEMMA ProceedChanges ==
  ASSUME Types, RequestInv, Proceed
  PROVE  TreeChange /\ UNCHANGED <<now, outside, events>>
<1>1. req.path \in Paths /\ req.dst \in Paths /\ tree \in Trees
  BY DEF Types, CallTypes, Requests, TreeTypes
<1>2. UNCHANGED <<now, outside, events>>
  BY DEF Proceed, OpenRead, Read, Send, OpenWrite, Receive, MakeDir, Remove, Clear, Place, SetMetadata,
         Acquire, LockEngine, Continue
<1>3. ASSUME OpenRead PROVE TreeChange
  BY <1>3, ChangeIs DEF OpenRead, TreeKept
<1>4. ASSUME Send PROVE TreeChange
  BY <1>4, ChangeIs DEF Send, TreeKept
<1>5. ASSUME OpenWrite PROVE TreeChange
  <2>1. TreeKept \/ TreeGrown(req.path, FALSE)
    BY <1>5 DEF OpenWrite, TreeKept, TreeGrown
  <2> QED
    BY <2>1, <1>1, ChangeIs
<1>6. ASSUME Receive PROVE TreeChange
  <2>1. TreeKept \/ TreeCommitted(req.node)
    BY <1>6 DEF Receive, TreeKept, TreeCommitted
  <2> QED
    BY <2>1, ChangeIs
<1>7. ASSUME MakeDir PROVE TreeChange
  BY <1>7 DEF TreeChange
<1>8. ASSUME Remove PROVE TreeChange
  <2>1. TreeKept \/ TreeCut(req.path)
    BY <1>8 DEF Remove, TreeKept, TreeCut
  <2> QED
    BY <2>1, <1>1, ChangeIs
<1>9. ASSUME Clear PROVE TreeChange
  <2>1. TreeKept \/ TreeCut(req.dst)
    BY <1>9 DEF Clear, TreeKept, TreeCut
  <2> QED
    BY <2>1, <1>1, ChangeIs
<1>10. ASSUME Place PROVE TreeChange
  <2>1. TreeKept \/ TreeMoved(req.path, req.dst) \/ TreeCopied(req.path, req.dst)
    BY <1>10 DEF Place, TreeKept, TreeMoved, TreeCopied, MayMove
  <2> QED
    BY <2>1, <1>1, ChangeIs
<1>11. ASSUME SetMetadata PROVE TreeChange
  <2> DEFINE p == req.path
             m == req.seen.mode
             d == 1 - req.seen.dead
  <2>1. req.seen \in TreeNode
    BY <1>11 DEF SetMetadata, RequestInv, Types, CallTypes, Requests
  <2>2. m \in {0, 1} /\ d \in {0, 1}
    BY <2>1 DEF TreeNode
  <2>3. CASE Exists(p) /\ ~HeldByOther("session", p)
    <3> DEFINE t == [tree EXCEPT ![p].mode = m, ![p].dead = d]
    <3>1. tree' = t /\ fresh' = fresh
      BY <2>3, <1>11 DEF SetMetadata
    <3>2. tree[p] \in TreeNode
      BY <2>3, <1>1, ContentIsValidator
    <3>3. t = [tree EXCEPT ![p] = [tree[p] EXCEPT !.mode = m, !.dead = d]]
      BY <3>2, <1>1 DEF Trees
    <3> HIDE DEF t, m, d
    <3>4. TreeMeta(p, m, d)
      BY <3>1, <3>3, <2>2, <2>3 DEF TreeMeta
    <3> QED
      BY <3>4, <2>2, <1>1, ChangeIs DEF d, m
  <2>4. CASE ~(Exists(p) /\ ~HeldByOther("session", p))
    <3>1. TreeKept
      BY <2>4, <1>11 DEF SetMetadata, TreeKept
    <3> QED
      BY <3>1, ChangeIs
  <2> QED
    BY <2>3, <2>4
<1>12. ASSUME Acquire PROVE TreeChange
  BY <1>12, ChangeIs DEF Acquire, TreeKept
<1>13. ASSUME Read \/ LockEngine PROVE TreeChange
  BY <1>13, ChangeIs DEF Read, LockEngine, TreeKept
<1> QED
  BY <1>2, <1>3, <1>4, <1>5, <1>6, <1>7, <1>8, <1>9, <1>10, <1>11, <1>12, <1>13 DEF Proceed

LEMMA TreeStep ==
  ASSUME Types, TreeInv, RequestInv, [Next]_vars
  PROVE  TreeTypes' /\ TreeInv'
<1>1. tree \in Trees /\ fresh \in Nat \ {0} /\ now \in Nat /\ outside \in Nat
  BY DEF Types, TreeTypes
<1>2. TreeChange /\ now' \in Nat /\ outside' \in Nat
  <2>1. CASE Request
    <3>1. CASE Starts
      <4>1. TreeKept /\ UNCHANGED <<now, outside>>
        BY <3>1 DEF Starts, treeVars, TreeKept
      <4> QED
        BY <4>1, <1>1, ChangeIs
    <3>2. CASE \E c \in Clients, p \in Paths, deep \in BOOLEAN : Lock(c, p, deep)
      <4>1. PICK c \in Clients, p \in Paths, deep \in BOOLEAN : Lock(c, p, deep)
        BY <3>2
      <4>2. (TreeKept \/ TreeGrown(p, FALSE)) /\ UNCHANGED <<now, outside>>
        BY <4>1 DEF Lock, TreeKept, TreeGrown
      <4> QED
        BY <4>2, <1>1, ChangeIs
    <3>3. CASE \E c \in Clients, t \in Tokens : Refresh(c, t) \/ Unlock(c, t)
      <4>1. TreeKept /\ UNCHANGED <<now, outside>>
        BY <3>3 DEF Refresh, Unlock, treeVars, TreeKept
      <4> QED
        BY <4>1, <1>1, ChangeIs
    <3> QED
      BY <2>1, <3>1, <3>2, <3>3, RequestStarts
  <2>2. CASE Proceed
    BY <2>2, <1>1, ProceedChanges
  <2>3. CASE Outside
    BY <2>3, <1>1, OutsideChanges DEF Outside
  <2>4. CASE Time
    <3>1. TreeKept /\ now' = now + 1 /\ outside' = outside
      BY <2>4 DEF Time, Tick, TreeKept
    <3> QED
      BY <3>1, <1>1, ChangeIs
  <2>5. CASE Crash
    <3>1. TreeKept /\ UNCHANGED <<now, outside>>
      BY <2>5 DEF Crash, TreeKept
    <3> QED
      BY <3>1, <1>1, ChangeIs
  <2>6. CASE UNCHANGED vars
    <3>1. TreeKept /\ UNCHANGED <<now, outside>>
      BY <2>6 DEF vars, treeVars, TreeKept
    <3> QED
      BY <3>1, <1>1, ChangeIs
  <2> QED
    BY <2>1, <2>2, <2>3, <2>4, <2>5, <2>6 DEF Next
<1>3. Grows(tree', fresh')
  BY <1>2, ChangeGrows
<1>4. fresh' \in Nat \ {0} /\ tree' \in Trees
  BY <1>1, <1>3 DEF Grows
<1> QED
  BY <1>2, <1>3, <1>4 DEF TreeTypes, TreeInv, Grows

---------------------------------------------------------------------------
(* The request and the clients' memories                                   *)

LEMMA StartsIs ==
  ASSUME Types, Starts
  PROVE  /\ req' \in Requests /\ ~req'.raced /\ events' = events + 1
         /\ UNCHANGED <<tree, fresh, now, outside, elock, dlock>>
         /\ \/ UNCHANGED cli
            \/ /\ req' = NoRequest
               /\ \E c \in Clients, p \in Paths :
                    IsDoc(p) /\ cli' = [cli EXCEPT ![c] = [NoMemory EXCEPT !.tag = Content(p)]]
<1>1. events' = events + 1 /\ UNCHANGED <<tree, fresh, now, outside, elock, dlock>>
  BY DEF Starts, treeVars
<1>2. CASE /\ req' = NoRequest
           /\ \E c \in Clients, p \in Paths :
                IsDoc(p) /\ cli' = [cli EXCEPT ![c] = [NoMemory EXCEPT !.tag = Content(p)]]
  BY <1>1, <1>2, NoRequestIs
<1>3. CASE \E op, pc, c, p : Begins(op, pc, c, p)
  BY <1>1, <1>3 DEF Begins
<1> QED
  BY <1>2, <1>3 DEF Starts, ClientStarts, BrowserStarts

LEMMA MemoryIs ==
  ASSUME NEW v \in Validators
  PROVE  /\ [NoMemory EXCEPT !.tag = v] \in Memory
         /\ [NoMemory EXCEPT !.tag = v].part = {}
         /\ [NoMemory EXCEPT !.tag = v].tag = v
BY DEF NoMemory, Memory, Validators

(* A download's end, and what its client keeps of it.                      *)
LEMMA SendIs ==
  ASSUME Types, RequestInv, Send
  PROVE  /\ req' = NoRequest /\ req.who \in Clients
         /\ cli' \in [Clients -> Memory]
         /\ \A c \in Clients :
              \/ cli'[c] = cli[c]
              \/ cli'[c].part = {}
              \/ /\ c = req.who /\ cli'[c].tag = req.tag
                 /\ cli'[c].part = req.body \cup (IF req.keep THEN cli[c].part ELSE {})
                 /\ cli'[c].sure => ~req.raced /\ (req.keep => cli[c].sure)
<1>1. /\ req.who \in Clients /\ req.tag \in Validators /\ req.body \in SUBSET (Nat \X Nat)
      /\ req.raced \in BOOLEAN /\ req.keep \in BOOLEAN
  BY DEF Send, RequestInv, Types, CallTypes, Requests
<1>2. /\ cli \in [Clients -> Memory] /\ req' = NoRequest
      /\ cli[req.who].part \in SUBSET (Nat \X Nat) /\ cli[req.who].sure \in BOOLEAN
  BY <1>1 DEF Types, CallTypes, Send, End, Memory
<1> DEFINE a == [NoMemory EXCEPT !.tag = req.tag]
           w == req.who
           m == req.body \cup (IF req.keep THEN cli[w].part ELSE {})
           s == ~req.raced /\ (req.keep => cli[w].sure)
           b == [tag |-> req.tag, part |-> m, sure |-> s]
<1>3. a \in Memory /\ a.part = {}
  BY <1>1, MemoryIs
<1>4. m \in SUBSET (Nat \X Nat) /\ s \in BOOLEAN
  BY <1>1, <1>2
<1>5. b \in Memory /\ b.tag = req.tag /\ b.part = m /\ b.sure = s
  BY <1>1, <1>4 DEF Memory
<1>6. \/ cli' = [cli EXCEPT ![w] = a]
      \/ cli' = [cli EXCEPT ![w] = b]
      \/ UNCHANGED cli
  BY <1>1, <1>2 DEF Send
<1> HIDE DEF a, b
<1>7. cli' \in [Clients -> Memory]
  BY <1>1, <1>2, <1>3, <1>5, <1>6
<1>8. ASSUME NEW c \in Clients
      PROVE  \/ cli'[c] = cli[c]
             \/ cli'[c].part = {}
             \/ c = req.who /\ cli'[c] = b
  BY <1>1, <1>2, <1>3, <1>6
<1> QED
  BY <1>1, <1>2, <1>5, <1>7, <1>8

LEMMA OpenReadIs ==
  ASSUME Types, OpenRead
  PROVE  /\ req' \in Requests /\ UNCHANGED <<cli, tree>>
         /\ \/ req' = NoRequest
            \/ /\ req'.pc = "send" /\ req'.node = tree[req.path].id /\ IsDoc(req.path)
               /\ req'.who = req.who /\ req'.tag = req.tag /\ req'.keep = req.keep
               /\ req'.raced = req.raced /\ req'.path = req.path /\ req'.body = req.body
<1>1. CASE IsDoc(req.path)
  <2>1. req \in Requests /\ req.path \in Paths /\ tree \in Trees /\ UNCHANGED <<cli, tree>>
    BY DEF OpenRead, Types, CallTypes, Requests, TreeTypes
  <2> DEFINE v == tree[req.path].id
  <2>2. v \in Nat \cup {None}
    BY <1>1, <2>1, NodeFields DEF IsDoc, Exists
  <2>3. req' = [req EXCEPT !.pc = "send", !.node = v]
    BY <1>1 DEF OpenRead
  <2>4. "send" \in Pcs
    BY DEF Pcs
  <2>5. v = tree[req.path].id
    OBVIOUS
  <2> HIDE DEF v
  <2>6. /\ req' \in Requests /\ req'.pc = "send" /\ req'.node = v
        /\ req'.who = req.who /\ req'.tag = req.tag /\ req'.keep = req.keep
        /\ req'.raced = req.raced /\ req'.path = req.path /\ req'.body = req.body
    BY <2>1, <2>2, <2>3, <2>4 DEF Requests
  <2> QED
    BY <1>1, <2>1, <2>5, <2>6
<1>2. CASE ~IsDoc(req.path)
  BY <1>2, NoRequestIs DEF OpenRead, End
<1> QED
  BY <1>1, <1>2

(* A piece of the body comes from what is committed of the node then.      *)
LEMMA ReadIs ==
  ASSUME Types, Read
  PROVE  /\ req' \in Requests /\ UNCHANGED <<cli, tree>> /\ At("send")
         /\ req'.pc = req.pc /\ req'.who = req.who /\ req'.tag = req.tag /\ req'.keep = req.keep
         /\ req'.raced = req.raced /\ req'.path = req.path /\ req'.node = req.node
         /\ \A v \in req'.body : \/ v \in req.body
                                 \/ \E q \in Paths : /\ IsDoc(q) /\ tree[q].id = req.node
                                                     /\ v = Content(q)
<1> DEFINE b == req.body \cup {Content(q) : q \in {r \in Paths : IsDoc(r) /\ tree[r].id = req.node}}
<1>1. req \in Requests /\ tree \in Trees /\ UNCHANGED <<cli, tree>> /\ At("send")
  BY DEF Read, Types, CallTypes, TreeTypes
<1>2. req.body \in SUBSET (Nat \X Nat)
  BY <1>1 DEF Requests
<1>3. ASSUME NEW q \in Paths, IsDoc(q) PROVE Content(q) \in Nat \X Nat
  BY <1>1, <1>3, NodeFields DEF IsDoc, Exists, Content
<1>4. b \in SUBSET (Nat \X Nat)
  BY <1>2, <1>3
<1>5. \A v \in b : v \in req.body \/ \E q \in Paths : IsDoc(q) /\ tree[q].id = req.node /\ v = Content(q)
  OBVIOUS
<1>6. req' = [req EXCEPT !.body = b]
  BY <1>1 DEF Read, Requests
<1> HIDE DEF b
<1>7. /\ req' \in Requests /\ req'.body = b
      /\ req'.pc = req.pc /\ req'.who = req.who /\ req'.tag = req.tag /\ req'.keep = req.keep
      /\ req'.raced = req.raced /\ req'.path = req.path /\ req'.node = req.node
  BY <1>1, <1>4, <1>6 DEF Requests
<1> QED
  BY <1>1, <1>5, <1>7

LEMMA OutsideReq ==
  ASSUME Types, Outside
  PROVE  /\ req' \in Requests /\ UNCHANGED cli
         /\ At("idle") => req' = req
         /\ ~At("idle") => req'.raced
         /\ req'.pc = req.pc /\ req'.op = req.op /\ req'.who = req.who /\ req'.path = req.path
         /\ req'.dst = req.dst /\ req'.seen = req.seen /\ req'.tag = req.tag /\ req'.keep = req.keep
         /\ req'.deep = req.deep /\ req'.token = req.token
<1>1. req \in Requests /\ UNCHANGED cli
  BY DEF Types, CallTypes, Outside
<1>2. req' = req \/ (~At("idle") /\ req' = [req EXCEPT !.raced = TRUE])
  BY DEF Outside
<1>3. At("idle") => req' = req
  BY DEF Outside
<1>4. ~At("idle") => req' = [req EXCEPT !.raced = TRUE]
  BY DEF Outside
<1> QED
  BY <1>1, <1>2, <1>3, <1>4 DEF Requests

(* The upload has a descriptor on its node, LOCK its token.                *)
ToReceive ==
  /\ req'.pc = "receive" /\ req'.op = req.op /\ req'.who = req.who /\ req'.path = req.path
  /\ req'.dst = req.dst /\ req'.tag = req.tag /\ req'.raced = req.raced

ToEngine ==
  req'.pc = "enginelock" /\ req'.token \in Tokens /\ dlock[req'.token] = None
  /\ req'.who = req.who

LEMMA OpenWriteReq ==
  ASSUME Types, OpenWrite
  PROVE  (req' \in Requests /\ ToReceive) \/ req' = NoRequest
<1>1. /\ req \in Requests /\ req.path \in Paths /\ tree \in Trees /\ fresh \in Nat
      /\ "receive" \in Pcs
  BY DEF Types, CallTypes, Requests, TreeTypes, Pcs
<1>2. ASSUME NEW n \in Nat, req' = [req EXCEPT !.pc = "receive", !.node = n]
      PROVE  req' \in Requests /\ ToReceive
  BY <1>1, <1>2 DEF Requests, ToReceive
<1>3. CASE IsDoc(req.path) /\ req' = [req EXCEPT !.pc = "receive", !.node = tree[req.path].id]
  <2>1. tree[req.path].id \in Nat
    BY <1>1, <1>3, NodeFields DEF IsDoc, Exists
  <2> QED
    BY <2>1, <1>2, <1>3
<1>4. CASE req' = [req EXCEPT !.pc = "receive", !.node = fresh]
  BY <1>1, <1>2, <1>4
<1> QED
  BY <1>3, <1>4 DEF OpenWrite, End

LEMMA AcquireReq ==
  ASSUME Types, Acquire
  PROVE  (req' \in Requests /\ ToEngine) \/ req' = NoRequest
<1>1. req \in Requests /\ "enginelock" \in Pcs
  BY DEF Types, CallTypes, Pcs
<1>2. ASSUME NEW t \in Tokens, dlock[t] = None, req' = [req EXCEPT !.pc = "enginelock", !.token = t]
      PROVE  req' \in Requests /\ ToEngine
  BY <1>1, <1>2 DEF Requests, ToEngine
<1> QED
  BY <1>2 DEF Acquire, End

(* The steps of a request in flight that keep it.                          *)
LEMMA ProceedReq ==
  ASSUME Types, Proceed
  PROVE  /\ req' \in Requests
         /\ \/ req' = NoRequest
            \/ OpenRead
            \/ Read
            \/ (OpenWrite /\ ToReceive)
            \/ (Acquire /\ ToEngine)
            \/ (Clear /\ Goto("place") /\ tree' = Removed(req.dst))
         /\ ~Send => UNCHANGED cli
<1> DEFINE Goal ==
         /\ req' \in Requests
         /\ \/ req' = NoRequest
            \/ OpenRead
            \/ Read
            \/ (OpenWrite /\ ToReceive)
            \/ (Acquire /\ ToEngine)
            \/ (Clear /\ Goto("place") /\ tree' = Removed(req.dst))
         /\ ~Send => UNCHANGED cli
<1>1. req \in Requests /\ NoRequest \in Requests /\ "place" \in Pcs
  BY NoRequestIs DEF Types, CallTypes, Pcs
<1>2. ASSUME OpenRead PROVE Goal
  BY <1>2, OpenReadIs
<1>3. ASSUME Send PROVE Goal
  BY <1>3, <1>1 DEF Send, End
<1>4. ASSUME OpenWrite PROVE Goal
  <2>1. UNCHANGED cli
    BY <1>4 DEF OpenWrite
  <2>2. (req' \in Requests /\ ToReceive) \/ req' = NoRequest
    BY <1>4, OpenWriteReq
  <2> QED
    BY <2>1, <2>2, <1>1, <1>4
<1>5. ASSUME Receive PROVE Goal
  BY <1>5, <1>1 DEF Receive, End
<1>6. ASSUME MakeDir PROVE Goal
  BY <1>6, <1>1 DEF MakeDir, End
<1>7. ASSUME Remove PROVE Goal
  BY <1>7, <1>1 DEF Remove, End
<1>8. ASSUME Clear PROVE Goal
  <2>1. ((Goto("place") /\ tree' = Removed(req.dst)) \/ End) /\ UNCHANGED cli
    BY <1>8 DEF Clear
  <2>2. CASE Goto("place") /\ tree' = Removed(req.dst)
    BY <2>1, <2>2, <1>1, <1>8, GotoIs
  <2>3. CASE End
    BY <2>1, <2>3, <1>1 DEF End
  <2> QED
    BY <2>1, <2>2, <2>3
<1>9. ASSUME Place PROVE Goal
  BY <1>9, <1>1 DEF Place, End
<1>10. ASSUME SetMetadata PROVE Goal
  BY <1>10, <1>1 DEF SetMetadata, End
<1>11. ASSUME Acquire PROVE Goal
  <2>1. UNCHANGED cli
    BY <1>11 DEF Acquire
  <2>2. (req' \in Requests /\ ToEngine) \/ req' = NoRequest
    BY <1>11, AcquireReq
  <2> QED
    BY <2>1, <2>2, <1>1, <1>11
<1>12. ASSUME LockEngine PROVE Goal
  BY <1>12, <1>1 DEF LockEngine, End
<1>13. ASSUME Read PROVE Goal
  BY <1>13, ReadIs
<1> HIDE DEF Goal
<1>14. Goal
  BY <1>2, <1>3, <1>4, <1>5, <1>6, <1>7, <1>8, <1>9, <1>10, <1>11, <1>12, <1>13 DEF Proceed
<1> QED
  BY <1>14 DEF Goal

LEMMA CallStep ==
  ASSUME Types, RequestInv, [Next]_vars
  PROVE  CallTypes'
<1>1. req \in Requests /\ events \in Nat /\ cli \in [Clients -> Memory] /\ NoRequest \in Requests
  BY NoRequestIs DEF Types, CallTypes
<1>2. CASE Request
  <2>1. CASE Starts
    <3>1. ASSUME NEW c \in Clients, NEW p \in Paths, IsDoc(p),
                 cli' = [cli EXCEPT ![c] = [NoMemory EXCEPT !.tag = Content(p)]]
          PROVE  cli' \in [Clients -> Memory]
      <4>1. [NoMemory EXCEPT !.tag = Content(p)] \in Memory
        BY <3>1, ContentIsValidator, MemoryIs DEF IsDoc, Types, TreeTypes
      <4> QED
        BY <4>1, <3>1, <1>1
    <3>2. cli' \in [Clients -> Memory] /\ req' \in Requests /\ events' = events + 1
      BY <2>1, <3>1, <1>1, StartsIs
    <3> QED
      BY <3>2, <1>1 DEF CallTypes
  <2>2. ASSUME NEW c \in Clients, NEW p \in Paths, NEW deep \in BOOLEAN, Lock(c, p, deep)
        PROVE  CallTypes'
    <3>1. req' \in Requests /\ events' = events + 1
      BY <2>2, LockBegins
    <3>2. UNCHANGED cli
      BY <2>2 DEF Lock
    <3> QED
      BY <3>1, <3>2, <1>1 DEF CallTypes
  <2>3. ASSUME NEW c \in Clients, NEW t \in Tokens, Refresh(c, t) \/ Unlock(c, t)
        PROVE  CallTypes'
    <3>1. req' = NoRequest /\ events' = events + 1 /\ UNCHANGED cli
      BY <2>3 DEF Refresh, Unlock, Begin, Event
    <3> QED
      BY <3>1, <1>1 DEF CallTypes
  <2> QED
    BY <1>2, <2>1, <2>2, <2>3, RequestStarts
<1>3. CASE Proceed
  <2>1. events' = events
    BY <1>3, ProceedChanges
  <2> QED
    BY <2>1, <1>1, <1>3, ProceedReq, SendIs DEF CallTypes
<1>4. CASE Outside
  <2>1. events' = events + 1
    BY <1>4 DEF Outside, Event
  <2> QED
    BY <2>1, <1>1, <1>4, OutsideReq DEF CallTypes
<1>5. CASE Time
  BY <1>1, <1>5 DEF Time, davVars, CallTypes
<1>6. CASE Crash
  BY <1>1, <1>6 DEF Crash, Event, CallTypes
<1>7. CASE UNCHANGED vars
  BY <1>1, <1>7 DEF vars, davVars, CallTypes
<1> QED
  BY <1>2, <1>3, <1>4, <1>5, <1>6, <1>7 DEF Next

---------------------------------------------------------------------------
(* The locks                                                               *)

LEMMA LockRowIs ==
  ASSUME Types, NEW p \in Paths, Exists(p), NEW m \in {"session", "lost", "outside"},
         NEW u \in Nat \cup {None}
  PROVE  /\ LockRow(p, m, u) \in EngineLock /\ LockRow(p, m, u) # None
         /\ LockRow(p, m, u).node = tree[p].id /\ LockRow(p, m, u).mount = m
         /\ LockRow(p, m, u).until = u
<1>1. tree[p].id \in Nat
  BY DEF Types, TreeTypes, Trees, Exists, TreeNode
<1>2. LockRow(p, m, u) \in EngineLock
  BY <1>1 DEF LockRow, EngineLock
<1> QED
  BY <1>2, RowAssumption DEF LockRow

(* The ids of the lock rows.                                               *)
LEMMA LockIdsAre ==
  /\ "put" \in LockIds /\ "left" \in LockIds /\ "outside" \in LockIds
  /\ Tokens \subseteq LockIds /\ LockIds = Tokens \cup {"put", "left", "outside"}
  /\ \A t \in Tokens : t # "put" /\ t # "left" /\ t # "outside"
BY LockIdAssumption

(* A token taken, extended or given back.                                  *)
LEMMA AcquiredIs ==
  ASSUME Types, NEW t \in Tokens, NEW d \in DavLock, dlock' = [dlock EXCEPT ![t] = d]
  PROVE  /\ dlock' \in [Tokens -> DavLock \cup {None}]
         /\ \A u \in Tokens \ {t} : dlock'[u] = dlock[u]
         /\ dlock'[t] = d /\ dlock'[t] # None
BY RowAssumption DEF Types, LockTypes

LEMMA ReleasedIs ==
  ASSUME Types, NEW t \in Tokens, Unreleased(t), dlock' = Released(t)
  PROVE  /\ dlock' \in [Tokens -> DavLock \cup {None}]
         /\ \A u \in Tokens \ {t} : dlock'[u] = dlock[u]
         /\ dlock'[t] # None /\ dlock'[t].st = "gone" /\ dlock'[t].until = dlock[t].until
         /\ dlock'[t].node = dlock[t].node
<1> DEFINE d == [dlock[t] EXCEPT !.st = "gone"]
<1>1. dlock \in [Tokens -> DavLock \cup {None}] /\ dlock[t] \in DavLock
  BY DEF Types, LockTypes, Unreleased
<1>2. d \in DavLock /\ d.st = "gone" /\ d.until = dlock[t].until /\ d.node = dlock[t].node
  BY <1>1 DEF DavLock
<1>3. dlock' = [dlock EXCEPT ![t] = d]
  BY <1>1 DEF Released
<1> HIDE DEF d
<1> QED
  BY <1>1, <1>2, <1>3, RowAssumption

(* The engine's answer to LOCK, for a token it was not asked about.        *)
LEMMA BackedIs ==
  ASSUME Types, NEW t \in Tokens, Unreleased(t), dlock[t].until <= now + Timeout,
         NEW n \in Nat, dlock' = Backed(t, n)
  PROVE  /\ dlock' \in [Tokens -> DavLock \cup {None}]
         /\ \A u \in Tokens \ {t} : dlock'[u] = dlock[u]
         /\ dlock'[t] # None /\ dlock'[t].st = "live" /\ dlock'[t].until = dlock[t].until
         /\ dlock'[t].path = dlock[t].path /\ dlock'[t].deep = dlock[t].deep
         /\ dlock'[t].node = n /\ dlock'[t].until + dlock'[t].lag = now + Timeout
<1> DEFINE lag == now + Timeout - dlock[t].until
           d == [dlock[t] EXCEPT !.node = n, !.lag = lag]
<1>1. dlock \in [Tokens -> DavLock \cup {None}] /\ dlock[t] \in DavLock /\ dlock[t].st = "live"
  BY DEF Types, LockTypes, Unreleased
<1>2. now \in Nat /\ Timeout \in Nat /\ now + Timeout \in Nat /\ dlock[t].until \in Nat
  BY <1>1, TokenAssumption DEF Types, TreeTypes, DavLock
<1>3. lag \in Nat /\ dlock[t].until + lag = now + Timeout
  BY <1>2
<1>4. dlock' = [dlock EXCEPT ![t] = d]
  BY <1>1 DEF Backed
<1> HIDE DEF lag
<1>5. /\ d \in DavLock /\ d.st = "live" /\ d.until = dlock[t].until /\ d.path = dlock[t].path
      /\ d.deep = dlock[t].deep /\ d.node = n /\ d.lag = lag
  BY <1>1, <1>3 DEF DavLock
<1> HIDE DEF d
<1> QED
  BY <1>1, <1>3, <1>4, <1>5, RowAssumption

LEMMA AbandonedIs ==
  ASSUME Types, NEW t \in Tokens, Unreleased(t), dlock' = Abandoned(t)
  PROVE  /\ dlock' \in [Tokens -> DavLock \cup {None}]
         /\ \A u \in Tokens \ {t} : dlock'[u] = dlock[u]
         /\ dlock'[t] # None /\ dlock'[t].st = "live" /\ dlock'[t].until = dlock[t].until
         /\ dlock'[t].path = dlock[t].path /\ dlock'[t].deep = dlock[t].deep
         /\ dlock'[t].node = dlock[t].node
<1> DEFINE d == [dlock[t] EXCEPT !.owner = None]
<1>1. dlock \in [Tokens -> DavLock \cup {None}] /\ dlock[t] \in DavLock /\ dlock[t].st = "live"
  BY DEF Types, LockTypes, Unreleased
<1>2. /\ d \in DavLock /\ d.st = "live" /\ d.until = dlock[t].until /\ d.path = dlock[t].path
      /\ d.deep = dlock[t].deep /\ d.node = dlock[t].node
  BY <1>1 DEF DavLock
<1>3. dlock' = [dlock EXCEPT ![t] = d]
  BY <1>1 DEF Abandoned
<1> HIDE DEF d
<1> QED
  BY <1>1, <1>2, <1>3, RowAssumption

LEMMA RefreshedIs ==
  ASSUME Types, NEW t \in Tokens, Unreleased(t), dlock' = Refreshed(t)
  PROVE  /\ dlock' \in [Tokens -> DavLock \cup {None}]
         /\ \A u \in Tokens \ {t} : dlock'[u] = dlock[u]
         /\ dlock'[t] # None /\ dlock'[t].st = "live" /\ dlock'[t].until = now + Timeout
         /\ dlock'[t].path = dlock[t].path /\ dlock'[t].deep = dlock[t].deep
         /\ dlock'[t].refreshed /\ dlock'[t].lag = dlock[t].lag /\ dlock'[t].node = dlock[t].node
<1> DEFINE d == [dlock[t] EXCEPT !.until = now + Timeout, !.refreshed = TRUE]
<1>1. dlock \in [Tokens -> DavLock \cup {None}] /\ dlock[t] \in DavLock /\ dlock[t].st = "live"
  BY DEF Types, LockTypes, Unreleased
<1>2. now + Timeout \in Nat
  BY TokenAssumption DEF Types, TreeTypes
<1> DEFINE n == now + Timeout
<1>3. /\ d \in DavLock /\ d.st = "live" /\ d.until = n /\ d.path = dlock[t].path
      /\ d.deep = dlock[t].deep /\ d.refreshed /\ d.lag = dlock[t].lag /\ d.node = dlock[t].node
  BY <1>1, <1>2 DEF DavLock
<1>4. dlock' = [dlock EXCEPT ![t] = d]
  BY <1>1 DEF Refreshed
<1> HIDE DEF d
<1> QED
  BY <1>1, <1>3, <1>4, RowAssumption

LEMMA CrashIs ==
  ASSUME Types, Crash
  PROVE  /\ LockTypes'
         /\ req' = NoRequest /\ now' = now /\ tree' = tree
         /\ \A t \in Tokens : /\ dlock[t] = None => dlock'[t] = None
                              /\ dlock[t] # None => /\ dlock'[t] # None /\ dlock'[t].st = "gone"
                                                    /\ dlock'[t].until = dlock[t].until
                                                    /\ dlock'[t].node = dlock[t].node
                              /\ elock[t] = None => elock'[t] = None
                              /\ elock[t] # None => elock'[t].mount = "lost"
         /\ elock'["put"] = None
         /\ elock'["left"] # None => elock'["left"].mount = "lost" \/ elock'["left"] = elock["left"]
         /\ elock'["outside"] = elock["outside"]
<1>1. elock \in [LockIds -> EngineLock \cup {None}] /\ dlock \in [Tokens -> DavLock \cup {None}]
  BY DEF Types, LockTypes
<1>2. \A l \in LockIds : elock[l] # None =>
        /\ [elock[l] EXCEPT !.mount = "lost"] \in EngineLock
        /\ [elock[l] EXCEPT !.mount = "lost"].mount = "lost"
  BY <1>1 DEF EngineLock
<1>3. \A t \in Tokens : dlock[t] # None =>
        /\ [dlock[t] EXCEPT !.st = "gone"] \in DavLock
        /\ [dlock[t] EXCEPT !.st = "gone"].st = "gone"
        /\ [dlock[t] EXCEPT !.st = "gone"].until = dlock[t].until
        /\ [dlock[t] EXCEPT !.st = "gone"].node = dlock[t].node
  BY <1>1 DEF DavLock
<1>4. dlock' = [t \in Tokens |-> IF dlock[t] = None THEN None ELSE [dlock[t] EXCEPT !.st = "gone"]]
  BY DEF Crash
<1>5. elock' = [l \in LockIds |->
                 CASE l = "put" -> None
                   [] l = "left" /\ elock["put"] # None -> [elock["put"] EXCEPT !.mount = "lost"]
                   [] l \in Tokens /\ elock[l] # None -> [elock[l] EXCEPT !.mount = "lost"]
                   [] OTHER -> elock[l]]
  BY DEF Crash
<1>6. req' = NoRequest /\ now' = now /\ tree' = tree
  BY DEF Crash
<1>7. dlock' \in [Tokens -> DavLock \cup {None}]
  BY <1>3, <1>4
<1>8. elock'["put"] = None
  BY <1>5, LockIdsAre
<1>9. elock'["left"] = IF elock["put"] # None THEN [elock["put"] EXCEPT !.mount = "lost"]
                       ELSE elock["left"]
  BY <1>5, LockIdsAre
<1>10. elock'["outside"] = elock["outside"]
  BY <1>5, LockIdsAre
<1>11. \A t \in Tokens : elock'[t] = IF elock[t] # None THEN [elock[t] EXCEPT !.mount = "lost"]
                                     ELSE elock[t]
  BY <1>5, LockIdsAre
<1>12. ASSUME NEW l \in LockIds PROVE elock'[l] \in EngineLock \cup {None}
  <2>1. CASE l \in Tokens
    BY <2>1, <1>1, <1>2, <1>11
  <2>2. CASE l = "left"
    BY <2>2, <1>1, <1>2, <1>9, LockIdsAre
  <2>3. CASE l = "put" \/ l = "outside"
    BY <2>3, <1>1, <1>8, <1>10, LockIdsAre
  <2> QED
    BY <2>1, <2>2, <2>3, LockIdsAre
<1>13. elock' \in [LockIds -> EngineLock \cup {None}]
  <2>1. elock' = [l \in LockIds |-> elock'[l]]
    BY <1>5
  <2> QED
    BY <2>1, <1>12
<1>14. \A t \in Tokens :
         /\ dlock[t] = None => dlock'[t] = None
         /\ dlock[t] # None => /\ dlock'[t] # None /\ dlock'[t].st = "gone"
                               /\ dlock'[t].until = dlock[t].until
                               /\ dlock'[t].node = dlock[t].node
  BY <1>3, <1>4, RowAssumption
<1>15. \A t \in Tokens :
         /\ elock[t] = None => elock'[t] = None
         /\ elock[t] # None => elock'[t].mount = "lost"
  BY <1>2, <1>11, LockIdsAre
<1>16. elock'["left"] # None => elock'["left"].mount = "lost" \/ elock'["left"] = elock["left"]
  BY <1>2, <1>9, LockIdsAre
<1>17. LockTypes'
  BY <1>7, <1>13 DEF LockTypes
<1>18. \A t \in Tokens :
         /\ dlock[t] = None => dlock'[t] = None
         /\ dlock[t] # None => /\ dlock'[t] # None /\ dlock'[t].st = "gone"
                               /\ dlock'[t].until = dlock[t].until
                               /\ dlock'[t].node = dlock[t].node
         /\ elock[t] = None => elock'[t] = None
         /\ elock[t] # None => elock'[t].mount = "lost"
  BY <1>14, <1>15
<1> QED
  BY <1>6, <1>8, <1>10, <1>16, <1>17, <1>18

(* The registry's half of LOCK, and the engine's.                          *)
Taken(t) ==
  /\ dlock[t] = None /\ ~Conflict(req.path, req.deep)
  /\ \A u \in Tokens \ {t} : dlock'[u] = dlock[u]
  /\ dlock'[t] # None /\ dlock'[t].st = "live" /\ dlock'[t].until = now + Timeout
  /\ dlock'[t].path = req.path /\ dlock'[t].deep = req.deep /\ dlock'[t].node = None
  /\ req' = NoRequest \/ (req'.pc = "enginelock" /\ req'.token = t)

LEMMA AcquireIs ==
  ASSUME Types, RequestInv, Acquire
  PROVE  /\ LockTypes' /\ UNCHANGED <<tree, fresh, now, outside, elock>>
         /\ (UNCHANGED dlock /\ req' = NoRequest) \/ \E t \in Tokens : Taken(t)
<1> DEFINE p == req.path
           c == req.who
           e == req.deep
<1>1. /\ p \in Paths /\ c \in Clients \cup {None} /\ e \in BOOLEAN /\ req \in Requests
      /\ elock \in [LockIds -> EngineLock \cup {None}] /\ now + Timeout \in Nat
      /\ dlock \in [Tokens -> DavLock \cup {None}]
      /\ UNCHANGED <<tree, fresh, now, outside, elock>>
  <2>1. At("acquire") /\ UNCHANGED <<tree, fresh, now, outside, elock>>
    BY DEF Acquire, Continue
  <2>2. now + Timeout \in Nat
    BY TokenAssumption DEF Types, TreeTypes
  <2>3. req.who \in Clients
    BY <2>1 DEF RequestInv
  <2> QED
    BY <2>1, <2>2, <2>3 DEF Types, CallTypes, Requests, LockTypes
<1>2. CASE UNCHANGED dlock /\ req' = NoRequest
  BY <1>1, <1>2 DEF LockTypes
<1>3. ASSUME NEW t \in Tokens, dlock[t] = None, ~Conflict(p, e), dlock' = Acquired(t, c, p, e),
             req' = NoRequest \/ req' = [req EXCEPT !.pc = "enginelock", !.token = t]
      PROVE  LockTypes' /\ Taken(t)
  <2>1. req' = NoRequest \/ (req'.pc = "enginelock" /\ req'.token = t)
    BY <1>1, <1>3 DEF Requests
  <2> DEFINE d == [st |-> "live", owner |-> c, path |-> p, deep |-> e,
                   until |-> now + Timeout, node |-> None, lag |-> 0, refreshed |-> FALSE]
  <2>2. /\ d \in DavLock /\ d.st = "live" /\ d.until = now + Timeout /\ d.path = p
        /\ d.deep = e /\ d.node = None
    BY <1>1 DEF DavLock
  <2>3. dlock' = [dlock EXCEPT ![t] = d]
    BY <1>3 DEF Acquired
  <2> HIDE DEF d
  <2>4. /\ dlock' \in [Tokens -> DavLock \cup {None}]
        /\ \A u \in Tokens \ {t} : dlock'[u] = dlock[u]
        /\ dlock'[t] # None /\ dlock'[t].st = "live" /\ dlock'[t].until = now + Timeout
        /\ dlock'[t].path = p /\ dlock'[t].deep = e /\ dlock'[t].node = None
    BY <2>2, <2>3, AcquiredIs
  <2> QED
    BY <1>1, <1>3, <2>1, <2>4 DEF LockTypes, Taken
<1>4. \/ UNCHANGED dlock /\ req' = NoRequest
      \/ \E t \in Tokens :
           /\ dlock[t] = None /\ ~Conflict(p, e) /\ dlock' = Acquired(t, c, p, e)
           /\ req' = NoRequest \/ req' = [req EXCEPT !.pc = "enginelock", !.token = t]
  BY DEF Acquire, End
<1> HIDE DEF p, c, e
<1> QED
  BY <1>1, <1>2, <1>3, <1>4

LEMMA EngineIs ==
  ASSUME Types, TokenInv, Locking, LockEngine
  PROVE  /\ req' = NoRequest /\ UNCHANGED <<tree, fresh, now, outside>> /\ LockTypes'
         /\ \E t \in Tokens :
              /\ Unreleased(t) /\ dlock[t].node = None
              /\ \A u \in Tokens \ {t} : dlock'[u] = dlock[u]
              /\ \A l \in LockIds \ {t} : elock'[l] = elock[l]
              /\ dlock'[t] # None /\ dlock'[t].until = dlock[t].until
              /\ \/ /\ dlock'[t].st = "live" /\ dlock'[t].node # None
                    /\ dlock'[t].path = dlock[t].path /\ dlock'[t].deep = dlock[t].deep
                    /\ dlock'[t].until + dlock'[t].lag = now + Timeout
                    /\ elock'[t] # None /\ elock'[t].mount = "session"
                    /\ elock'[t].node = dlock'[t].node /\ elock'[t].until = now + Timeout
                 \/ /\ elock'[t] = elock[t] /\ dlock'[t].node = None
                    /\ \/ dlock'[t].st = "gone"
                       \/ /\ dlock'[t].st = "live"
                          /\ dlock'[t].path = dlock[t].path /\ dlock'[t].deep = dlock[t].deep
<1> DEFINE Goal(t) ==
              /\ dlock' \in [Tokens -> DavLock \cup {None}]
              /\ elock' \in [LockIds -> EngineLock \cup {None}]
              /\ \A u \in Tokens \ {t} : dlock'[u] = dlock[u]
              /\ \A l \in LockIds \ {t} : elock'[l] = elock[l]
              /\ dlock'[t] # None /\ dlock'[t].until = dlock[t].until
              /\ \/ /\ dlock'[t].st = "live" /\ dlock'[t].node # None
                    /\ dlock'[t].path = dlock[t].path /\ dlock'[t].deep = dlock[t].deep
                    /\ dlock'[t].until + dlock'[t].lag = now + Timeout
                    /\ elock'[t] # None /\ elock'[t].mount = "session"
                    /\ elock'[t].node = dlock'[t].node /\ elock'[t].until = now + Timeout
                 \/ /\ elock'[t] = elock[t] /\ dlock'[t].node = None
                    /\ \/ dlock'[t].st = "gone"
                       \/ /\ dlock'[t].st = "live"
                          /\ dlock'[t].path = dlock[t].path /\ dlock'[t].deep = dlock[t].deep
<1>1. PICK t, p : t = req.token /\ p = req.path
  OBVIOUS
<1>2. /\ t \in Tokens /\ Unreleased(t) /\ dlock[t].node = None /\ dlock[t].until <= now + Timeout
      /\ p \in Paths /\ t \in LockIds /\ tree \in Trees
      /\ elock \in [LockIds -> EngineLock \cup {None}] /\ now + Timeout \in Nat
  BY <1>1, LockIdsAre, TokenAssumption
     DEF LockEngine, Locking, Types, CallTypes, Requests, LockTypes, TreeTypes, TokenInv, Kept, Unreleased
<1>3. /\ req' = NoRequest /\ UNCHANGED <<tree, fresh, now, outside>>
      /\ \/ /\ Exists(p) /\ dlock' = Backed(t, tree[p].id)
            /\ elock' = [elock EXCEPT ![t] = LockRow(p, "session", now + Timeout)]
         \/ dlock' = Released(t) /\ UNCHANGED elock
         \/ dlock' = Abandoned(t) /\ UNCHANGED elock
  BY <1>1 DEF LockEngine, End, Continue
<1>4. ASSUME Exists(p), dlock' = Backed(t, tree[p].id),
             elock' = [elock EXCEPT ![t] = LockRow(p, "session", now + Timeout)]
      PROVE  Goal(t)
  <2> DEFINE row == LockRow(p, "session", now + Timeout)
             n == tree[p].id
             u == now + Timeout
  <2>1. n \in Nat /\ n # None
    BY <1>2, <1>4, NodeFields, TimeAssumption DEF Exists
  <2>2. row \in EngineLock /\ row # None /\ row.node = n /\ row.mount = "session" /\ row.until = u
    BY <1>2, <1>4, LockRowIs
  <2>3. elock' = [elock EXCEPT ![t] = row] /\ dlock' = Backed(t, n)
    BY <1>4
  <2> HIDE DEF row, n
  <2>4. /\ dlock' \in [Tokens -> DavLock \cup {None}]
        /\ \A v \in Tokens \ {t} : dlock'[v] = dlock[v]
        /\ dlock'[t] # None /\ dlock'[t].st = "live" /\ dlock'[t].until = dlock[t].until
        /\ dlock'[t].path = dlock[t].path /\ dlock'[t].deep = dlock[t].deep
        /\ dlock'[t].node = n /\ dlock'[t].until + dlock'[t].lag = u
    BY <1>2, <2>1, <2>3, BackedIs
  <2>5. /\ elock' \in [LockIds -> EngineLock \cup {None}] /\ elock'[t] = row
        /\ \A l \in LockIds \ {t} : elock'[l] = elock[l]
    BY <1>2, <2>2, <2>3
  <2> QED
    BY <2>1, <2>2, <2>4, <2>5
<1>5. ASSUME dlock' = Released(t), UNCHANGED elock PROVE Goal(t)
  <2>1. /\ dlock' \in [Tokens -> DavLock \cup {None}]
        /\ \A u \in Tokens \ {t} : dlock'[u] = dlock[u]
        /\ dlock'[t] # None /\ dlock'[t].st = "gone" /\ dlock'[t].until = dlock[t].until
        /\ dlock'[t].node = dlock[t].node
    BY <1>2, <1>5, ReleasedIs
  <2> QED
    BY <1>2, <1>5, <2>1
<1>6. ASSUME dlock' = Abandoned(t), UNCHANGED elock PROVE Goal(t)
  <2>1. /\ dlock' \in [Tokens -> DavLock \cup {None}]
        /\ \A u \in Tokens \ {t} : dlock'[u] = dlock[u]
        /\ dlock'[t] # None /\ dlock'[t].st = "live" /\ dlock'[t].until = dlock[t].until
        /\ dlock'[t].path = dlock[t].path /\ dlock'[t].deep = dlock[t].deep
        /\ dlock'[t].node = dlock[t].node
    BY <1>2, <1>6, AbandonedIs
  <2> QED
    BY <1>2, <1>6, <2>1
<1>7. Goal(t)
  BY <1>3, <1>4, <1>5, <1>6
<1> QED
  BY <1>2, <1>3, <1>7 DEF LockTypes

(* The upload's own lock.                                                  *)
LEMMA OpenWriteIs ==
  ASSUME Types, OpenWrite
  PROVE  /\ LockTypes' /\ UNCHANGED <<dlock, now, outside>>
         /\ \A l \in LockIds \ {"put"} : elock'[l] = elock[l]
         /\ (UNCHANGED <<tree, elock>> /\ req' = NoRequest) \/ req'.pc = "receive"
<1>1. /\ req.path \in Paths /\ elock \in [LockIds -> EngineLock \cup {None}]
      /\ dlock \in [Tokens -> DavLock \cup {None}] /\ tree \in Trees /\ req \in Requests
      /\ "put" \in LockIds /\ fresh \in Nat /\ None \in Nat \cup {None}
      /\ UNCHANGED <<dlock, now, outside>>
  BY LockIdsAre DEF Types, CallTypes, Requests, LockTypes, TreeTypes, OpenWrite, Continue
<1>2. ASSUME NEW row \in EngineLock, elock' = [elock EXCEPT !["put"] = row]
      PROVE  LockTypes' /\ \A l \in LockIds \ {"put"} : elock'[l] = elock[l]
  BY <1>1, <1>2 DEF LockTypes
<1>3. ASSUME NEW n, req' = [req EXCEPT !.pc = "receive", !.node = n] PROVE req'.pc = "receive"
  BY <1>1, <1>3 DEF Requests
<1>4. CASE /\ IsDoc(req.path)
           /\ elock' = [elock EXCEPT !["put"] = LockRow(req.path, "session", None)]
           /\ req' = [req EXCEPT !.pc = "receive", !.node = tree[req.path].id]
  <2>1. LockRow(req.path, "session", None) \in EngineLock
    BY <1>1, <1>4, LockRowIs DEF IsDoc
  <2> QED
    BY <2>1, <1>1, <1>2, <1>3, <1>4
<1>5. CASE /\ elock' = [elock EXCEPT !["put"] = [node |-> fresh, mount |-> "session", until |-> None]]
           /\ req' = [req EXCEPT !.pc = "receive", !.node = fresh]
  <2>1. [node |-> fresh, mount |-> "session", until |-> None] \in EngineLock
    BY <1>1 DEF EngineLock
  <2> QED
    BY <2>1, <1>1, <1>2, <1>3, <1>5
<1>6. CASE End /\ UNCHANGED <<tree, elock>>
  BY <1>1, <1>6 DEF End, LockTypes
<1> QED
  BY <1>4, <1>5, <1>6 DEF OpenWrite

LEMMA OutsideLocks ==
  ASSUME Types, OutsideStep, UNCHANGED dlock
  PROVE  /\ LockTypes'
         /\ \A l \in LockIds \ {"outside"} : elock'[l] = elock[l]
         /\ \/ elock'["outside"] = elock["outside"]
            \/ elock'["outside"] = None
            \/ elock'["outside"].mount = "outside"
<1>1. elock \in [LockIds -> EngineLock \cup {None}] /\ dlock \in [Tokens -> DavLock \cup {None}]
      /\ "outside" \in LockIds
  BY LockIdsAre DEF Types, LockTypes
<1>2. CASE UNCHANGED elock
  BY <1>1, <1>2 DEF LockTypes
<1>3. ASSUME NEW p \in Paths, OutsideLock(p)
      PROVE  /\ LockTypes'
             /\ \A l \in LockIds \ {"outside"} : elock'[l] = elock[l]
             /\ elock'["outside"].mount = "outside"
  <2> DEFINE row == LockRow(p, "outside", None)
  <2>1. tree[p].id \in Nat
    BY <1>3 DEF OutsideLock, Exists, Types, TreeTypes, Trees, TreeNode
  <2>2. row \in EngineLock /\ row.mount = "outside"
    BY <2>1 DEF LockRow, EngineLock
  <2>3. elock' = [elock EXCEPT !["outside"] = row]
    BY <1>3 DEF OutsideLock
  <2> HIDE DEF row
  <2> QED
    BY <1>1, <2>2, <2>3 DEF LockTypes
<1>4. CASE OutsideUnlock
  BY <1>1, <1>4 DEF OutsideUnlock, LockTypes
<1> QED
  BY <1>2, <1>3, <1>4 DEF OutsideStep, OutsideWrite, OutsideRemove, OutsideChmod, OutsideCreate,
                          OutsideMove

LEMMA ReceiveIs ==
  ASSUME Types, Receive
  PROVE  /\ LockTypes' /\ UNCHANGED <<dlock, now, outside>> /\ req' = NoRequest
         /\ elock'["put"] = None
         /\ \A l \in LockIds \ {"put"} : elock'[l] = elock[l]
BY LockIdsAre DEF Receive, Continue, End, Types, LockTypes

LEMMA UnlockIs ==
  ASSUME Types, NEW c \in Clients, NEW t \in Tokens, Unlock(c, t)
  PROVE  /\ LockTypes' /\ UNCHANGED <<tree, now, outside>> /\ req' = NoRequest
         /\ \A u \in Tokens \ {t} : dlock'[u] = dlock[u]
         /\ \A l \in LockIds \ {t} : elock'[l] = elock[l]
         /\ Unreleased(t) /\ dlock'[t] # None /\ dlock'[t].st = "gone" /\ dlock'[t].until = dlock[t].until
         /\ dlock'[t].node = dlock[t].node
         /\ \/ elock'[t] = None
            \/ elock'[t] = elock[t] /\ ~(Valid(t) /\ elock[t].mount = "session")
<1>1. /\ Unreleased(t) /\ dlock' \in [Tokens -> DavLock \cup {None}]
      /\ \A u \in Tokens \ {t} : dlock'[u] = dlock[u]
      /\ dlock'[t] # None /\ dlock'[t].st = "gone" /\ dlock'[t].until = dlock[t].until
      /\ dlock'[t].node = dlock[t].node
  BY ReleasedIs DEF Unlock, Live
<1>2. UNCHANGED <<tree, now, outside>> /\ req' = NoRequest
  BY DEF Unlock, Begin
<1>3. elock \in [LockIds -> EngineLock \cup {None}] /\ t \in LockIds
  BY LockIdsAre DEF Types, LockTypes
<1>4. \/ elock' = [elock EXCEPT ![t] = None]
      \/ elock' = elock /\ ~(Valid(t) /\ elock[t].mount = "session")
  BY DEF Unlock
<1>5. /\ elock' \in [LockIds -> EngineLock \cup {None}]
      /\ \A l \in LockIds \ {t} : elock'[l] = elock[l]
      /\ \/ elock'[t] = None
         \/ elock'[t] = elock[t] /\ ~(Valid(t) /\ elock[t].mount = "session")
  BY <1>3, <1>4
<1> QED
  BY <1>1, <1>2, <1>5 DEF LockTypes

LEMMA RefreshIs ==
  ASSUME Types, NEW c \in Clients, NEW t \in Tokens, Refresh(c, t)
  PROVE  /\ LockTypes' /\ UNCHANGED <<tree, elock, now, outside>> /\ req' = NoRequest
         /\ \A u \in Tokens \ {t} : dlock'[u] = dlock[u]
         /\ Live(t) /\ Unreleased(t) /\ dlock'[t] # None /\ dlock'[t].st = "live" /\ dlock'[t].until = now + Timeout
         /\ dlock'[t].path = dlock[t].path /\ dlock'[t].deep = dlock[t].deep
         /\ dlock'[t].refreshed /\ dlock'[t].lag = dlock[t].lag /\ dlock'[t].node = dlock[t].node
<1>1. Live(t) /\ Unreleased(t) /\ UNCHANGED <<tree, elock, now, outside>> /\ req' = NoRequest /\ dlock' = Refreshed(t)
  BY DEF Refresh, Begin, treeVars, Live
<1>2. elock \in [LockIds -> EngineLock \cup {None}]
  BY DEF Types, LockTypes
<1> QED
  BY <1>1, <1>2, RefreshedIs DEF LockTypes

(* The other steps touch no lock.                                          *)
LEMMA LockSteps ==
  ASSUME Types, RequestInv, [Next]_vars
  PROVE  \/ UNCHANGED <<elock, dlock>> /\ now' \in {now, now + 1}
         \/ \E c \in Clients, t \in Tokens : Refresh(c, t) \/ Unlock(c, t)
         \/ OpenWrite
         \/ Receive
         \/ Acquire
         \/ LockEngine
         \/ Outside
         \/ Crash
<1>1. CASE Request
  <2>1. ASSUME NEW c \in Clients, NEW p \in Paths, NEW deep \in BOOLEAN, Lock(c, p, deep)
        PROVE  UNCHANGED <<elock, dlock, now>>
    BY <2>1 DEF Lock
  <2>2. ASSUME Starts PROVE UNCHANGED <<elock, dlock, now>>
    BY <2>2 DEF Starts, treeVars
  <2> QED
    BY <1>1, <2>1, <2>2, RequestStarts
<1>2. CASE Proceed
  BY <1>2 DEF Proceed, OpenRead, Read, Send, MakeDir, Remove, Clear, Place, SetMetadata, Continue
<1>3. CASE Time
  BY <1>3 DEF Time, Tick, davVars
<1>4. CASE UNCHANGED vars
  BY <1>4 DEF vars, treeVars, davVars
<1> QED
  BY <1>1, <1>2, <1>3, <1>4 DEF Next

LEMMA LockTypesStep ==
  ASSUME Types, RequestInv, TokenInv, Locking, [Next]_vars
  PROVE  LockTypes'
<1>1. ASSUME UNCHANGED <<elock, dlock>> PROVE LockTypes'
  BY <1>1 DEF Types, LockTypes
<1>2. ASSUME Outside PROVE LockTypes'
  <2>1. OutsideStep /\ UNCHANGED dlock
    BY <1>2 DEF Outside
  <2> QED
    BY <2>1, OutsideLocks
<1> QED
  BY <1>1, <1>2, LockSteps, RefreshIs, UnlockIs, OpenWriteIs, ReceiveIs, AcquireIs, EngineIs, CrashIs

(* A token and its row that a step leaves alone stay consistent, whatever  *)
(* time it is.                                                             *)
LEMMA KeptStays ==
  ASSUME Types, NEW t \in Tokens, Kept(t), dlock'[t] = dlock[t], elock'[t] = elock[t],
         now' \in {now, now + 1}
  PROVE  Kept(t)'
<1>1. now \in Nat /\ Timeout \in Nat /\ now <= now' /\ now' \in Nat
  BY TokenAssumption DEF Types, TreeTypes
<1>2. dlock[t] # None => dlock[t].until \in Nat
  BY DEF Types, LockTypes, DavLock
<1>3. (dlock[t] = None \/ dlock[t].node = None => elock[t] = None)'
  BY DEF Kept
<1>4. (dlock[t] # None => dlock[t].until <= now + Timeout)'
  BY <1>1, <1>2 DEF Kept
<1>5. RowEnds(t)'
  BY <1>1 DEF Kept, RowEnds, Unreleased
<1>6. RowIsThere(t)'
  BY DEF Kept, RowIsThere, Unreleased
<1> QED
  BY <1>3, <1>4, <1>5, <1>6 DEF Kept

LEMMA TokenStep ==
  ASSUME Types, RequestInv, TokenInv, Locking, [Next]_vars
  PROVE  TokenInv'
<1>1. now \in Nat /\ Timeout \in Nat
  BY TokenAssumption DEF Types, TreeTypes
<1>2. ASSUME UNCHANGED <<elock, dlock>>, now' \in {now, now + 1} PROVE TokenInv'
  BY <1>2, KeptStays DEF TokenInv
<1>3. ASSUME NEW c \in Clients, NEW t \in Tokens, Refresh(c, t) PROVE TokenInv'
  <2>1. /\ UNCHANGED <<elock, now>>
        /\ \A u \in Tokens \ {t} : dlock'[u] = dlock[u]
        /\ Unreleased(t) /\ dlock'[t] # None /\ dlock'[t].st = "live" /\ dlock'[t].until = now + Timeout
        /\ dlock'[t].refreshed /\ dlock'[t].lag = dlock[t].lag /\ dlock'[t].node = dlock[t].node
    BY <1>3, RefreshIs
  <2>2. ASSUME NEW u \in Tokens \ {t} PROVE Kept(u)'
    BY <2>1, KeptStays DEF TokenInv
  <2>3. /\ dlock[t] \in DavLock /\ dlock[t].until \in Nat /\ dlock[t].lag \in Nat
        /\ dlock[t].until <= now + Timeout /\ RowEnds(t) /\ Kept(t)
    BY <2>1 DEF Unreleased, Types, LockTypes, DavLock, TokenInv, Kept
  <2>4. RowEnds(t)'
    BY <1>1, <2>1, <2>3 DEF RowEnds, Unreleased
  <2>5. Kept(t)'
    BY <1>1, <2>1, <2>3, <2>4 DEF Kept, RowIsThere
  <2> QED
    BY <2>2, <2>5 DEF TokenInv
<1>4. ASSUME NEW c \in Clients, NEW t \in Tokens, Unlock(c, t) PROVE TokenInv'
  <2>1. /\ UNCHANGED now
        /\ \A u \in Tokens \ {t} : dlock'[u] = dlock[u] /\ elock'[u] = elock[u]
        /\ Unreleased(t) /\ dlock'[t] # None /\ dlock'[t].st = "gone" /\ dlock'[t].until = dlock[t].until
        /\ dlock'[t].node = dlock[t].node
        /\ \/ elock'[t] = None
           \/ elock'[t] = elock[t] /\ ~(Valid(t) /\ elock[t].mount = "session")
    BY <1>4, UnlockIs, LockIdsAre
  <2>2. ASSUME NEW u \in Tokens \ {t} PROVE Kept(u)'
    BY <2>1, KeptStays DEF TokenInv
  <2>3. /\ dlock[t] # None /\ dlock[t].until <= now + Timeout /\ RowEnds(t) /\ Kept(t)
    BY <2>1 DEF Unreleased, TokenInv, Kept
  <2>4. RowEnds(t)'
    <3>1. CASE elock'[t] = None
      BY <3>1 DEF RowEnds
    <3>2. CASE elock'[t] = elock[t] /\ elock[t] # None /\ elock[t].mount = "session"
      <4>1. elock[t].until # None /\ elock[t].until <= now
        BY <2>1, <3>2 DEF Valid, Lapsed
      <4>2. elock[t].until \in Nat
        BY <3>2, <2>3 DEF RowEnds
      <4> QED
        BY <2>1, <3>2, <4>1, <4>2 DEF RowEnds
    <3> QED
      BY <2>1, <3>1, <3>2 DEF RowEnds
  <2>5. Kept(t)'
    BY <2>1, <2>3, <2>4 DEF Kept, RowIsThere, Unreleased
  <2> QED
    BY <2>2, <2>5 DEF TokenInv
<1>5. ASSUME Acquire PROVE TokenInv'
  <2>1. UNCHANGED <<elock, now>>
    BY <1>5, AcquireIs
  <2>2. CASE UNCHANGED dlock
    BY <2>1, <2>2, <1>2
  <2>3. ASSUME NEW t \in Tokens, Taken(t) PROVE TokenInv'
    <3>1. ASSUME NEW u \in Tokens \ {t} PROVE Kept(u)'
      BY <2>1, <2>3, KeptStays DEF TokenInv, Taken
    <3>2. elock'[t] = None
      BY <2>1, <2>3 DEF TokenInv, Kept, Taken
    <3>3. Kept(t)'
      BY <1>1, <2>1, <2>3, <3>2 DEF Kept, RowEnds, RowIsThere, Taken
    <3> QED
      BY <3>1, <3>3 DEF TokenInv
  <2> QED
    BY <1>5, <2>2, <2>3, AcquireIs
<1>6. ASSUME LockEngine PROVE TokenInv'
  <2>1. PICK t \in Tokens :
          /\ UNCHANGED now /\ Unreleased(t) /\ dlock[t].node = None
          /\ \A u \in Tokens \ {t} : dlock'[u] = dlock[u]
          /\ \A l \in LockIds \ {t} : elock'[l] = elock[l]
          /\ dlock'[t] # None /\ dlock'[t].until = dlock[t].until
          /\ \/ /\ dlock'[t].st = "live" /\ dlock'[t].node # None
                /\ dlock'[t].until + dlock'[t].lag = now + Timeout
                /\ elock'[t] # None /\ elock'[t].mount = "session"
                /\ elock'[t].node = dlock'[t].node /\ elock'[t].until = now + Timeout
             \/ elock'[t] = elock[t] /\ dlock'[t].node = None
    BY <1>6, EngineIs
  <2>2. ASSUME NEW u \in Tokens \ {t} PROVE Kept(u)'
    BY <2>1, KeptStays, LockIdsAre DEF TokenInv
  <2>3. Kept(t) /\ dlock[t] # None /\ elock[t] = None /\ dlock[t].until <= now + Timeout
    BY <2>1 DEF TokenInv, Kept, Unreleased
  <2>4. Kept(t)'
    <3>1. CASE elock'[t] = elock[t] /\ dlock'[t].node = None
      BY <2>1, <2>3, <3>1 DEF Kept, RowEnds, RowIsThere
    <3>2. CASE /\ dlock'[t].st = "live" /\ dlock'[t].node # None
               /\ dlock'[t].until + dlock'[t].lag = now + Timeout
               /\ elock'[t] # None /\ elock'[t].mount = "session"
               /\ elock'[t].node = dlock'[t].node /\ elock'[t].until = now + Timeout
      <4>1. now + Timeout \in Nat
        BY <1>1
      <4>2. RowEnds(t)'
        BY <4>1, <2>1, <3>2 DEF RowEnds, Unreleased
      <4>3. RowIsThere(t)'
        BY <4>1, <2>1, <2>3, <3>2 DEF RowIsThere
      <4> QED
        BY <2>1, <2>3, <3>2, <4>2, <4>3 DEF Kept
    <3> QED
      BY <2>1, <3>1, <3>2
  <2> QED
    BY <2>2, <2>4 DEF TokenInv
<1>7. ASSUME OpenWrite \/ Receive \/ Outside PROVE TokenInv'
  <2>1. UNCHANGED <<dlock, now>> /\ \A u \in Tokens : elock'[u] = elock[u]
    <3>1. ASSUME Outside PROVE OutsideStep /\ UNCHANGED <<dlock, now>>
      BY <3>1 DEF Outside, OutsideStep
    <3> QED
      BY <1>7, <3>1, OpenWriteIs, ReceiveIs, OutsideLocks, LockIdsAre
  <2> QED
    BY <2>1, KeptStays DEF TokenInv
<1>8. ASSUME Crash PROVE TokenInv'
  <2>1. ASSUME NEW t \in Tokens PROVE Kept(t)'
    <3>1. /\ now' = now
          /\ dlock[t] = None => dlock'[t] = None
          /\ dlock[t] # None => /\ dlock'[t] # None /\ dlock'[t].st = "gone"
                                /\ dlock'[t].until = dlock[t].until
                                /\ dlock'[t].node = dlock[t].node
          /\ elock[t] = None => elock'[t] = None
          /\ elock[t] # None => elock'[t].mount = "lost"
      BY <1>8, CrashIs
    <3>2. Kept(t)
      BY DEF TokenInv
    <3>3. RowEnds(t)' /\ RowIsThere(t)'
      BY <3>1 DEF RowEnds, RowIsThere, Unreleased
    <3> QED
      BY <3>1, <3>2, <3>3 DEF Kept
  <2> QED
    BY <2>1 DEF TokenInv
<1> QED
  BY <1>2, <1>3, <1>4, <1>5, <1>6, <1>7, <1>8, LockSteps

(* What the other mount moves comes to its place with what lies below it,  *)
(* under the same names.                                                   *)
LEMMA MovedIs ==
  ASSUME tree \in Trees, Shaped(tree), NEW src \in Paths, NEW dst \in Paths,
         MayPlace(src, dst), ~WouldCycle(src, dst),
         NEW p \in Paths, Exists(p), Within(p, src), IsDir(src)
  PROVE  /\ Rebase(p, src, dst) \in Paths
         /\ Moved(src, dst)[Rebase(p, src, dst)] = tree[p]
<1> DEFINE q == Rebase(p, src, dst)
<1>1. p \in Seq(Names) /\ src \in Seq(Names) /\ dst \in Seq(Names)
  BY PathIsSeq
<1>2. q \in Paths
  BY DEF MayPlace, Fits, Below
<1>3. Within(q, dst) /\ From(src, dst, q) = p
  BY <1>1, RebasedWithin, RebasedBack DEF From
<1> HIDE DEF q
<1>4. ~Within(q, src)
  <2> SUFFICES ASSUME Within(q, src) PROVE FALSE
    OBVIOUS
  <2>1. Within(src, dst) \/ Within(dst, src)
    BY <1>1, <1>2, <1>3, PathIsSeq, WithinComparable
  <2>2. ~Exists(dst) /\ Exists(src) /\ src # dst
    BY DEF MayPlace
  <2>3. CASE Within(src, dst)
    BY <2>2, <2>3 DEF Shaped, Exists
  <2>4. CASE Within(dst, src)
    BY <2>2, <2>4, AboveParent DEF WouldCycle, IsDir
  <2> QED
    BY <2>1, <2>3, <2>4
<1>5. Moved(src, dst)[q] = tree[p]
  BY <1>2, <1>3, <1>4 DEF Moved, Below
<1> QED
  BY <1>2, <1>5 DEF q

LEMMA MovedUndisturbed ==
  ASSUME tree \in Trees, Shaped(tree), NEW src \in Paths, NEW dst \in Paths,
         MayPlace(src, dst), ~WouldCycle(src, dst), tree' = Moved(src, dst),
         NEW p \in Paths, Exists(p), p # src
  PROVE  Undisturbed(p)
<1>1. CASE ~Within(p, src)
  <2>1. ~Within(p, dst)
    <3>1. ~Exists(dst) /\ p # dst
      BY DEF MayPlace
    <3> QED
      BY <3>1 DEF Shaped, Exists
  <2>2. tree'[p] = tree[p]
    BY <1>1, <2>1, MovedShaped
  <2> QED
    BY <2>2 DEF Undisturbed
<1>2. CASE Within(p, src)
  <2>1. IsDir(src)
    BY <1>2 DEF Shaped, Exists, IsDir
  <2>2. Rebase(p, src, dst) \in Paths /\ tree'[Rebase(p, src, dst)] = tree[p]
    BY <1>2, <2>1, MovedIs
  <2>3. /\ Parent(p) \in Paths /\ Within(Parent(p), src)
        /\ Parent(Rebase(p, src, dst)) = Rebase(Parent(p), src, dst)
        /\ Rebase(p, src, dst)[Len(Rebase(p, src, dst))] = p[Len(p)]
    BY <1>2, <2>2, RebasedParent
  <2>4. Exists(Parent(p))
    <3>1. Within(p, Parent(p)) /\ p # Parent(p)
      BY <1>2, AboveParent, ParentAbove
    <3> QED
      BY <2>3, <3>1 DEF Shaped, Exists
  <2>5. tree'[Rebase(Parent(p), src, dst)] = tree[Parent(p)]
    BY <2>1, <2>3, <2>4, MovedIs
  <2>6. PICK q \in Paths : q = Rebase(p, src, dst)
    BY <2>2
  <2>7. /\ tree'[q] = tree[p] /\ q[Len(q)] = p[Len(p)]
        /\ tree'[Parent(q)] = tree[Parent(p)]
    BY <2>2, <2>3, <2>5, <2>6
  <2> QED
    BY <2>7 DEF Undisturbed
<1> QED
  BY <1>1, <1>2

(* The other mount leaves a node another mount holds as it is and under    *)
(* its name in its directory, and so any directory with such a node in it. *)
LEMMA OutsideSpares ==
  ASSUME Types, Shaped(tree), OutsideStep, NEW p \in Paths, Exists(p), HeldByOther("outside", p)
  PROVE  Undisturbed(p)
<1>1. tree \in Trees /\ fresh \in Nat
  BY DEF Types, TreeTypes
<1>2. ASSUME tree'[p] = tree[p] PROVE Undisturbed(p)
  BY <1>2 DEF Undisturbed
<1>3. ASSUME NEW q \in Paths, OutsideWrite(q) PROVE tree'[p] = tree[p]
  <2>1. p # q /\ Exists(q) /\ tree' = Written(q)
    BY <1>3 DEF OutsideWrite, IsDoc
  <2> QED
    BY <2>1, <1>1, WrittenShaped
<1>4. ASSUME NEW q \in Paths, OutsideRemove(q) PROVE tree'[p] = tree[p]
  <2>1. MayRemove("outside", q) /\ tree' = Removed(q)
    BY <1>4 DEF OutsideRemove
  <2>2. ASSUME Within(p, q) PROVE FALSE
    <3>1. CASE tree[q].dir
      <4>1. p \in Below(q)
        BY <2>2 DEF Below
      <4> QED
        BY <4>1, <3>1, <2>1 DEF MayRemove, HeldBelow
    <3>2. CASE ~tree[q].dir
      <4>1. p = q
        BY <3>2, <2>2 DEF Shaped, Exists
      <4> QED
        BY <4>1, <3>2, <2>1 DEF MayRemove
    <3> QED
      BY <3>1, <3>2
  <2> QED
    BY <2>1, <2>2, <1>1, RemovedShaped
<1>5. ASSUME NEW q \in Paths, OutsideChmod(q) PROVE tree'[p] = tree[p]
  <2>1. p # q /\ tree' = [tree EXCEPT ![q].mode = 1 - @]
    BY <1>5 DEF OutsideChmod
  <2> QED
    BY <2>1, <1>1 DEF Trees
<1>6. ASSUME NEW q \in Paths, NEW dir \in BOOLEAN, OutsideCreate(q, dir) PROVE tree'[p] = tree[p]
  <2>1. MayCreate(q) /\ tree' = Created(q, dir) /\ p # q
    BY <1>6 DEF OutsideCreate, MayCreate
  <2> QED
    BY <2>1, <1>1, CreatedShaped
<1>7. ASSUME NEW src \in Paths, NEW dst \in Paths, OutsideMove(src, dst) PROVE Undisturbed(p)
  <2>1. /\ MayPlace(src, dst) /\ ~WouldCycle(src, dst) /\ tree' = Moved(src, dst) /\ p # src
    BY <1>7 DEF OutsideMove, MayMove
  <2> QED
    BY <2>1, <1>1, MovedUndisturbed
<1>8. ASSUME NEW q \in Paths, OutsideLock(q) PROVE tree'[p] = tree[p]
  BY <1>8 DEF OutsideLock
<1>9. ASSUME OutsideUnlock PROVE tree'[p] = tree[p]
  BY <1>9 DEF OutsideUnlock
<1> QED
  BY <1>2, <1>3, <1>4, <1>5, <1>6, <1>7, <1>8, <1>9 DEF OutsideStep

LEMMA StartsElsewhere ==
  ASSUME Starts
  PROVE  req'.pc # "receive" /\ req'.pc # "enginelock"
<1> DEFINE Away == req'.pc # "receive" /\ req'.pc # "enginelock"
<1>1. req' = NoRequest => Away
  BY NoRequestIs
<1>2. ASSUME NEW op, NEW pc, NEW c, NEW p, Begins(op, pc, c, p), pc # "receive", pc # "enginelock"
      PROVE  Away
  BY <1>2 DEF Begins
<1> HIDE DEF Away
<1>3. ASSUME NEW c \in Clients, NEW p \in Paths, ClientStarts(c, p) PROVE Away
  <2>1. CASE \E op \in {"copy", "move"}, pc \in {"clear", "place"} : Begins(op, pc, c, p)
    BY <1>2, <2>1
  <2> QED
    BY <1>2, <1>3, <2>1 DEF ClientStarts
<1>4. ASSUME NEW p \in Paths, BrowserStarts(p) PROVE Away
  BY <1>2, <1>4 DEF BrowserStarts
<1>5. Away
  BY <1>1, <1>3, <1>4 DEF Starts
<1> QED
  BY <1>5 DEF Away

(* A lock of the upload is there only as long as the upload is.            *)
LEMMA UploadStep ==
  ASSUME Types, TokenInv, UploadInv, Locking, RequestInv, [Next]_vars
  PROVE  UploadInv'
<1>1. req \in Requests /\ NoRequest.pc = "idle" /\ "place" \in Pcs
  BY NoRequestIs DEF Types, CallTypes, Pcs
<1> DEFINE Rows == /\ elock["left"] # None => elock["left"].mount = "lost"
                   /\ elock["outside"] # None => elock["outside"].mount = "outside"
<1>2. ASSUME elock'["put"] = None \/ req'.pc = "receive", Rows' PROVE UploadInv'
  BY <1>2 DEF UploadInv, At
<1>3. Rows /\ (~At("receive") => elock["put"] = None)
  BY DEF UploadInv
<1>4. CASE Request
  <2>1. At("idle") /\ elock["put"] = None
    BY <1>3, <1>4, RequestStarts DEF At
  <2>2. ASSUME Starts PROVE UploadInv'
    <3>1. UNCHANGED elock
      BY <2>2 DEF Starts, treeVars
    <3> QED
      BY <3>1, <2>1, <1>2, <1>3
  <2>3. ASSUME NEW c \in Clients, NEW p \in Paths, NEW deep \in BOOLEAN, Lock(c, p, deep)
        PROVE  UploadInv'
    <3>1. UNCHANGED elock
      BY <2>3 DEF Lock
    <3> QED
      BY <3>1, <2>1, <1>2, <1>3
  <2>4. ASSUME NEW c \in Clients, NEW t \in Tokens, Refresh(c, t) \/ Unlock(c, t)
        PROVE  UploadInv'
    <3>1. \A l \in LockIds \ Tokens : elock'[l] = elock[l]
      BY <2>4, RefreshIs, UnlockIs
    <3> QED
      BY <3>1, <2>1, <1>2, <1>3, LockIdsAre
  <2> QED
    BY <1>4, <2>2, <2>3, <2>4, RequestStarts
<1>5. CASE Proceed
  <2>1. ASSUME Receive PROVE UploadInv'
    <3>1. elock'["put"] = None /\ elock'["left"] = elock["left"] /\ elock'["outside"] = elock["outside"]
      BY <2>1, ReceiveIs, LockIdsAre
    <3> QED
      BY <3>1, <1>2, <1>3
  <2>2. ASSUME OpenWrite PROVE UploadInv'
    <3>1. elock'["left"] = elock["left"] /\ elock'["outside"] = elock["outside"]
      BY <2>2, OpenWriteIs, LockIdsAre
    <3>2. elock'["put"] = None \/ req'.pc = "receive"
      <4>1. elock["put"] = None
        BY <2>2, <1>3 DEF OpenWrite, At
      <4> QED
        BY <2>2, <4>1, OpenWriteIs
    <3> QED
      BY <3>1, <3>2, <1>2, <1>3
  <2>3. ASSUME ~Receive, ~OpenWrite PROVE UploadInv'
    <3>1. CASE Acquire
      <4>1. UNCHANGED elock /\ elock["put"] = None
        BY <3>1, <1>3, AcquireIs DEF Acquire, At
      <4> QED
        BY <4>1, <1>2, <1>3
    <3>2. CASE LockEngine
      <4>1. /\ elock'["put"] = elock["put"] /\ elock'["left"] = elock["left"]
            /\ elock'["outside"] = elock["outside"]
        BY <3>2, EngineIs, LockIdsAre
      <4>2. elock["put"] = None
        BY <3>2, <1>3 DEF LockEngine, At
      <4> QED
        BY <4>1, <4>2, <1>2, <1>3
    <3>3. CASE ~Acquire /\ ~LockEngine
      <4>1. UNCHANGED elock /\ ~At("receive")
        BY <3>3, <1>5, <2>3
        DEF Proceed, OpenRead, Read, Send, MakeDir, Remove, Clear, Place, SetMetadata, At
      <4> QED
        BY <4>1, <1>2, <1>3
    <3> QED
      BY <3>1, <3>2, <3>3
  <2> QED
    BY <2>1, <2>2, <2>3
<1>6. CASE Outside
  <2>1. OutsideStep /\ UNCHANGED dlock
    BY <1>6 DEF Outside
  <2>2. /\ elock'["put"] = elock["put"] /\ elock'["left"] = elock["left"]
        /\ \/ elock'["outside"] = elock["outside"]
           \/ elock'["outside"] = None
           \/ elock'["outside"].mount = "outside"
    BY <2>1, OutsideLocks, LockIdsAre
  <2>3. req'.pc = req.pc
    BY <1>6, OutsideReq
  <2> QED
    BY <2>2, <2>3, <1>2, <1>3 DEF At
<1>7. CASE Time \/ UNCHANGED vars
  <2>1. UNCHANGED <<elock, req>>
    BY <1>7 DEF Time, Tick, vars, davVars, treeVars
  <2> QED
    BY <2>1 DEF UploadInv, At
<1>8. CASE Crash
  <2>1. /\ elock'["put"] = None
        /\ elock'["left"] # None => elock'["left"].mount = "lost" \/ elock'["left"] = elock["left"]
        /\ elock'["outside"] = elock["outside"]
    BY <1>8, CrashIs
  <2> QED
    BY <2>1, <1>2, <1>3
<1> QED
  BY <1>4, <1>5, <1>6, <1>7, <1>8 DEF Next

(* The token LOCK took stays there for it until it asks the engine.        *)
LEMMA LockingStep ==
  ASSUME Types, RequestInv, Locking, [Next]_vars
  PROVE  Locking'
<1>1. req \in Requests
  BY DEF Types, CallTypes
<1>2. ASSUME req'.pc # "enginelock" PROVE Locking'
  BY <1>2 DEF Locking, At
<1>3. NoRequest.pc = "idle" /\ "place" \in Pcs
  BY NoRequestIs DEF Pcs
<1>4. CASE Request
  <2>1. req'.pc # "enginelock"
    <3>1. ASSUME NEW c \in Clients, NEW p \in Paths, NEW deep \in BOOLEAN, Lock(c, p, deep)
          PROVE  req'.pc # "enginelock"
      BY <3>1, LockBegins
    <3>2. ASSUME NEW c \in Clients, NEW t \in Tokens, Refresh(c, t) \/ Unlock(c, t)
          PROVE  req'.pc # "enginelock"
      BY <3>2, <1>3, RefreshIs, UnlockIs
    <3> QED
      BY <3>1, <3>2, <1>4, RequestStarts, StartsElsewhere
  <2> QED
    BY <2>1, <1>2
<1>5. CASE Proceed
  <2>1. CASE Acquire
    <3>1. ASSUME NEW t \in Tokens, Taken(t) PROVE Locking'
      <4>1. CASE req' = NoRequest
        BY <4>1, <1>2, <1>3
      <4>2. CASE req'.pc = "enginelock" /\ req'.token = t
        BY <3>1, <4>2 DEF Taken, Locking, Unreleased
      <4> QED
        BY <3>1, <4>1, <4>2 DEF Taken
    <3> QED
      BY <2>1, <3>1, <1>2, <1>3, AcquireIs
  <2>2. CASE ~Acquire
    <3>1. req'.pc # "enginelock"
      <4>1. OpenRead => req'.pc # "enginelock"
        BY <1>3, OpenReadIs
      <4>2. Read => req'.pc # "enginelock"
        BY ReadIs DEF At
      <4>3. ToReceive => req'.pc # "enginelock"
        BY DEF ToReceive
      <4>4. Goto("place") => req'.pc # "enginelock"
        BY <1>1, <1>3, GotoIs
      <4> QED
        BY <4>1, <4>2, <4>3, <4>4, <1>3, <1>5, <2>2, ProceedReq
    <3> QED
      BY <3>1, <1>2
  <2> QED
    BY <2>1, <2>2
<1>6. CASE Outside
  <2>1. UNCHANGED dlock /\ req'.pc = req.pc /\ req'.token = req.token
    BY <1>6, OutsideReq DEF Outside
  <2> QED
    BY <2>1 DEF Locking, At, Unreleased
<1>7. CASE Time \/ UNCHANGED vars
  <2>1. UNCHANGED <<dlock, req>>
    BY <1>7 DEF Time, vars, davVars
  <2> QED
    BY <2>1 DEF Locking, At, Unreleased
<1>8. CASE Crash
  BY <1>8, <1>2, <1>3 DEF Crash
<1> QED
  BY <1>4, <1>5, <1>6, <1>7, <1>8 DEF Next

(* A token a step leaves alone governs what it did, and lives no longer.   *)
LEMMA LiveBefore ==
  ASSUME Types, NEW t \in Tokens, dlock'[t] = dlock[t], now' \in {now, now + 1}
  PROVE  /\ Live(t)' => Live(t)
         /\ \A p \in Paths : Covers(t, p)' => Covers(t, p)
<1>1. now \in Nat /\ (dlock[t] # None => dlock[t].until \in Nat)
  BY DEF Types, TreeTypes, LockTypes, DavLock
<1> QED
  BY <1>1 DEF Live, Unreleased, Covers

(* Two locks that govern one path: what acquire looks for finds the other. *)
LEMMA Overlap ==
  ASSUME Types, NEW u \in Tokens, dlock[u] # None, NEW p \in Paths, NEW deep \in BOOLEAN,
         NEW r \in Paths, Covers(u, r), r = p \/ (deep /\ Within(r, p))
  PROVE  Covers(u, p) \/ (deep /\ Within(dlock[u].path, p))
<1>1. dlock[u].path \in Paths
  BY DEF Types, LockTypes, DavLock
<1>2. CASE r = p
  BY <1>2
<1>3. CASE deep /\ Within(r, p) /\ dlock[u].path = r
  BY <1>3
<1>4. CASE deep /\ Within(r, p) /\ dlock[u].deep /\ Within(r, dlock[u].path)
  <2>1. Within(p, dlock[u].path) \/ Within(dlock[u].path, p)
    BY <1>1, <1>4, WithinComparable, PathIsSeq
  <2> QED
    BY <2>1, <1>4 DEF Covers
<1> QED
  BY <1>2, <1>3, <1>4 DEF Covers

LEMMA DisjointStep ==
  ASSUME Types, TokenInv, Locking, RequestInv, TokensDisjoint, [Next]_vars
  PROVE  TokensDisjoint'
<1>1. ASSUME \A t \in Tokens : dlock'[t] = dlock[t], now' \in {now, now + 1} PROVE TokensDisjoint'
  BY <1>1, LiveBefore DEF TokensDisjoint
<1>2. ASSUME \A u \in Tokens : Live(u)' => /\ Live(u)
                                           /\ \A p \in Paths : Covers(u, p)' => Covers(u, p)
      PROVE  TokensDisjoint'
  BY <1>2 DEF TokensDisjoint
<1>3. ASSUME NEW c \in Clients, NEW t \in Tokens, Refresh(c, t) PROVE TokensDisjoint'
  <2>1. /\ now' = now /\ \A u \in Tokens \ {t} : dlock'[u] = dlock[u]
        /\ Live(t) /\ dlock'[t].path = dlock[t].path /\ dlock'[t].deep = dlock[t].deep
    BY <1>3, RefreshIs
  <2>2. ASSUME NEW u \in Tokens PROVE /\ Live(u)' => Live(u)
                                      /\ \A p \in Paths : Covers(u, p)' => Covers(u, p)
    <3>1. CASE u = t
      BY <3>1, <2>1 DEF Covers
    <3>2. CASE u # t
      BY <3>2, <2>1, LiveBefore
    <3> QED
      BY <3>1, <3>2
  <2> QED
    BY <2>2, <1>2
<1>4. ASSUME NEW c \in Clients, NEW t \in Tokens, Unlock(c, t) PROVE TokensDisjoint'
  <2>1. /\ now' = now /\ \A u \in Tokens \ {t} : dlock'[u] = dlock[u]
        /\ dlock'[t].st = "gone"
    BY <1>4, UnlockIs
  <2>2. ASSUME NEW u \in Tokens, Live(u)' PROVE /\ Live(u)
                                                /\ \A p \in Paths : Covers(u, p)' => Covers(u, p)
    <3>1. u # t
      BY <2>1, <2>2 DEF Live, Unreleased
    <3> QED
      BY <3>1, <2>1, <2>2, LiveBefore
  <2> QED
    BY <2>2, <1>2
<1>5. ASSUME NEW t \in Tokens, UNCHANGED now, Taken(t) PROVE TokensDisjoint'
  <2> DEFINE p == req.path
  <2>1. /\ ~Conflict(p, req.deep)
        /\ \A u \in Tokens \ {t} : dlock'[u] = dlock[u]
        /\ dlock'[t].path = p /\ dlock'[t].deep = req.deep
    BY <1>5 DEF Taken
  <2>2. p \in Paths /\ req.deep \in BOOLEAN
    BY DEF Types, CallTypes, Requests
  <2> HIDE DEF p
  <2>3. ASSUME NEW u \in Tokens \ {t}
        PROVE  /\ Live(u)' => Live(u)
               /\ \A r \in Paths : Covers(u, r)' => Covers(u, r)
    BY <2>1, <1>5, LiveBefore
  <2>4. ASSUME NEW u \in Tokens \ {t}, Live(u)', NEW r \in Paths, Covers(t, r)', Covers(u, r)'
        PROVE  FALSE
    <3>1. Live(u) /\ Covers(u, r) /\ dlock[u] # None
      BY <2>3, <2>4 DEF Live, Unreleased
    <3>2. r = p \/ (req.deep /\ Within(r, p))
      BY <2>1, <2>4 DEF Covers
    <3>3. Covers(u, p) \/ (req.deep /\ Within(dlock[u].path, p))
      BY <3>1, <3>2, <2>2, Overlap
    <3> QED
      BY <3>1, <3>3, <2>1 DEF Conflict, Governing, HeldAtOrBelow
  <2>5. ASSUME NEW u \in Tokens, NEW v \in Tokens, u # v, Live(u)', Live(v)',
               NEW r \in Paths, Covers(u, r)', Covers(v, r)'
        PROVE  FALSE
    <3>1. CASE u = t
      BY <3>1, <2>4, <2>5
    <3>2. CASE v = t
      BY <3>2, <2>4, <2>5
    <3>3. CASE u # t /\ v # t
      BY <3>3, <2>3, <2>5 DEF TokensDisjoint
    <3> QED
      BY <3>1, <3>2, <3>3
  <2> QED
    BY <2>5 DEF TokensDisjoint
<1>6. ASSUME LockEngine PROVE TokensDisjoint'
  <2>1. PICK t \in Tokens :
          /\ now' = now /\ Unreleased(t)
          /\ \A u \in Tokens \ {t} : dlock'[u] = dlock[u]
          /\ dlock'[t].until = dlock[t].until
          /\ \/ dlock'[t].st = "gone"
             \/ dlock'[t].path = dlock[t].path /\ dlock'[t].deep = dlock[t].deep
    BY <1>6, EngineIs
  <2>2. ASSUME NEW u \in Tokens, Live(u)' PROVE /\ Live(u)
                                                /\ \A p \in Paths : Covers(u, p)' => Covers(u, p)
    <3>1. CASE u = t
      BY <3>1, <2>1, <2>2 DEF Live, Unreleased, Covers
    <3>2. CASE u # t
      BY <3>2, <2>1, <2>2, LiveBefore
    <3> QED
      BY <3>1, <3>2
  <2> QED
    BY <2>2, <1>2
<1>7. ASSUME OpenWrite \/ Receive \/ Outside PROVE TokensDisjoint'
  <2>1. ASSUME Outside PROVE UNCHANGED <<dlock, now>>
    BY <2>1 DEF Outside, OutsideStep
  <2>2. UNCHANGED <<dlock, now>>
    BY <1>7, <2>1, OpenWriteIs, ReceiveIs
  <2> QED
    BY <2>2, <1>1
<1>8. ASSUME Crash PROVE TokensDisjoint'
  <2>1. \A t \in Tokens : ~Live(t)'
    BY <1>8, CrashIs DEF Live, Unreleased
  <2> QED
    BY <2>1 DEF TokensDisjoint
<1>9. ASSUME Acquire PROVE TokensDisjoint'
  <2>1. UNCHANGED now /\ (UNCHANGED dlock \/ \E t \in Tokens : Taken(t))
    BY <1>9, AcquireIs
  <2> QED
    BY <2>1, <1>1, <1>5
<1> QED
  BY <1>1, <1>3, <1>4, <1>6, <1>7, <1>8, <1>9, LockSteps

---------------------------------------------------------------------------
(* What the request asked about                                            *)

LEMMA UnlockedIsMine ==
  ASSUME Types, NEW c, NEW p \in Paths, NEW deep \in BOOLEAN, Unlocked(c, p, deep)
  PROVE  Mine(c, p, deep)
<1>1. ASSUME NEW t \in Tokens, Live(t), Covers(t, p) PROVE dlock[t].owner = c
  BY <1>1 DEF Unlocked, Governing, Submitted
<1>2. ASSUME NEW t \in Tokens, Live(t), deep, Within(dlock[t].path, p) PROVE dlock[t].owner = c
  BY <1>2 DEF Unlocked, HeldAtOrBelow, Submitted
<1> QED
  BY <1>1, <1>2 DEF Mine

(* With the registry left alone a path stays its client's.                 *)
LEMMA MineStays ==
  ASSUME Types, UNCHANGED dlock, now' \in {now, now + 1},
         NEW c, NEW p \in Paths, NEW d \in BOOLEAN, Mine(c, p, d)
  PROVE  Mine(c, p, d)'
<1>1. ASSUME NEW t \in Tokens, Live(t)', Covers(t, p)' \/ (d /\ Within(dlock'[t].path, p))
      PROVE  dlock'[t].owner = c
  <2>1. Live(t) /\ (Covers(t, p)' => Covers(t, p))
    BY <1>1, LiveBefore
  <2> QED
    BY <2>1, <1>1 DEF Mine
<1> QED
  BY <1>1 DEF Mine

LEMMA NoRequestAllowed ==
  ASSUME req' = NoRequest
  PROVE  RequestInv'
BY NoRequestIs, TokenAssumption DEF RequestInv, At

(* A request goes on with what it asked about.                             *)
LEMMA AllowedStays ==
  ASSUME Types, Allowed, UNCHANGED dlock, now' \in {now, now + 1},
         req'.who = req.who, req'.path = req.path, req'.dst = req.dst, req'.op = req.op,
         req'.deep = req.deep,
         req'.pc = req.pc \/ (req.pc = "clear" /\ req'.pc = "place")
  PROVE  Allowed'
<1>1. PICK c, p, q, d : c = req.who /\ p = req.path /\ q = req.dst /\ d = req.deep
  OBVIOUS
<1>2. p \in Paths /\ q \in Paths /\ d \in BOOLEAN
  BY <1>1 DEF Types, CallTypes, Requests
<1>3. /\ Mine(c, p, FALSE) => Mine(c, p, FALSE)'
      /\ Mine(c, q, FALSE) => Mine(c, q, FALSE)'
      /\ Mine(c, p, d) => Mine(c, p, d)'
  BY <1>2, MineStays
<1>4. /\ Mine(req.who, req.path, FALSE) => Mine(c, p, FALSE)
      /\ Mine(req.who, req.dst, FALSE) => Mine(c, q, FALSE)
      /\ Mine(req.who, req.path, req.deep) => Mine(c, p, d)
  BY <1>1
<1>5. req'.who = c /\ req'.path = p /\ req'.dst = q /\ req'.deep = d
  BY <1>1
<1>6. /\ Mine(c, p, FALSE)' => Mine(req.who, req.path, FALSE)'
      /\ Mine(c, q, FALSE)' => Mine(req.who, req.dst, FALSE)'
      /\ Mine(c, p, d)' => Mine(req.who, req.path, req.deep)'
  BY <1>5 DEF Mine, Covers
<1> QED
  BY <1>3, <1>4, <1>6 DEF Allowed, At

(* A request that begins has asked.                                        *)
LEMMA BeginsAllowed ==
  ASSUME Types, NEW op, NEW pc, NEW c \in Clients, NEW p \in Paths, Begins(op, pc, c, p),
         pc \in {"openwrite", "setmeta"} => Unlocked(c, p, FALSE),
         pc = "mkdir" => op = "mkcol" /\ Unlocked(c, p, FALSE),
         pc = "remove" => op = "delete" /\ \E d \in BOOLEAN : req'.deep = d /\ Unlocked(c, p, d),
         pc \in {"clear", "place"} =>
           /\ op \in {"copy", "move"}
           /\ \E q \in Paths : req'.dst = q /\ Unlocked(c, q, FALSE)
           /\ op = "move" => \E d \in BOOLEAN : req'.deep = d /\ Unlocked(c, p, d),
         pc # "receive"
  PROVE  Allowed'
<1>1. /\ req'.pc = pc /\ req'.op = op /\ req'.who = c /\ req'.path = p
      /\ UNCHANGED dlock /\ now' \in {now, now + 1}
  BY DEF Begins, treeVars
<1>2. ASSUME NEW q \in Paths, NEW d \in BOOLEAN, Unlocked(c, q, d) PROVE Mine(c, q, d)'
  BY <1>1, <1>2, UnlockedIsMine, MineStays
<1>3. /\ Mine(c, p, FALSE)' => Mine(req.who, req.path, FALSE)'
      /\ \A d \in BOOLEAN : req'.deep = d /\ Mine(c, p, d)' => Mine(req.who, req.path, req.deep)'
      /\ \A q \in Paths : req'.dst = q /\ Mine(c, q, FALSE)' => Mine(req.who, req.dst, FALSE)'
  BY <1>1 DEF Mine, Covers
<1>4. pc = "remove" \/ (pc \in {"clear", "place"} /\ op = "move") =>
        Mine(req.who, req.path, req.deep)'
  BY <1>2, <1>3
<1>5. pc \in {"clear", "place"} => Mine(req.who, req.dst, FALSE)'
  BY <1>2, <1>3
<1>6. pc \in {"openwrite", "setmeta", "mkdir"} => Mine(req.who, req.path, FALSE)'
  BY <1>2, <1>3
<1> QED
  BY <1>1, <1>4, <1>5, <1>6 DEF Allowed, At

LEMMA RequestStep ==
  ASSUME Types, RequestInv, [Next]_vars
  PROVE  RequestInv'
<1>1. req \in Requests /\ req.path \in Paths /\ req.dst \in Paths
  BY DEF Types, CallTypes, Requests
<1>2. CASE Request
  <2>1. ASSUME Starts PROVE RequestInv'
    <3>1. ASSUME NEW op, NEW pc, NEW c \in Clients, NEW p \in Paths, Begins(op, pc, c, p),
                 pc \in {"openread", "openwrite", "mkdir", "remove", "setmeta", "clear", "place"},
                 pc \in {"openwrite", "setmeta"} => Unlocked(c, p, FALSE),
                 pc = "mkdir" => op = "mkcol" /\ Unlocked(c, p, FALSE),
                 pc = "remove" => op = "delete" /\ \E d \in BOOLEAN : req'.deep = d /\ Unlocked(c, p, d),
                 pc \in {"clear", "place"} =>
                   /\ op \in {"copy", "move"}
                   /\ \E q \in Paths : req'.dst = q /\ Unlocked(c, q, FALSE)
                   /\ op = "move" => \E d \in BOOLEAN : req'.deep = d /\ Unlocked(c, p, d),
                 pc = "setmeta" => req'.seen # None
          PROVE  RequestInv'
      <4>1. Allowed'
        BY <3>1, BeginsAllowed
      <4>2. req'.pc = pc /\ req'.who = c
        BY <3>1 DEF Begins
      <4> QED
        BY <4>1, <4>2, <3>1 DEF RequestInv, At
    <3>2. ASSUME NEW op, NEW pc, NEW p \in Paths, Begins(op, pc, Browser, p),
                 pc \in {"openwrite", "mkdir", "remove", "place"}
          PROVE  RequestInv'
      <4>1. req'.pc = pc /\ req'.who = Browser
        BY <3>2 DEF Begins
      <4> QED
        BY <4>1, <3>2, TokenAssumption DEF RequestInv, At
    <3>3. ASSUME NEW c \in Clients, NEW p \in Paths, Begins("proppatch", "setmeta", c, p),
                 Unlocked(c, p, FALSE), req'.seen = tree[p], Exists(p)
          PROVE  RequestInv'
      <4>1. req'.seen # None
        BY <3>3 DEF Exists
      <4> QED
        BY <3>1, <3>3, <4>1
    <3>4. ASSUME NEW c \in Clients, NEW p \in Paths, NEW op \in {"copy", "move"},
                 NEW pc \in {"clear", "place"}, NEW q \in Paths,
                 Begins(op, pc, c, p), req'.dst = q, Unlocked(c, q, FALSE),
                 op = "move" => \E d \in BOOLEAN : req'.deep = d /\ Unlocked(c, p, d)
          PROVE  RequestInv'
      BY <3>4, <3>1
    <3>5. ASSUME NEW c \in Clients, NEW p \in Paths,
                 \/ Begins("get", "openread", c, p)
                 \/ Begins("put", "openwrite", c, p) /\ Unlocked(c, p, FALSE)
                 \/ Begins("mkcol", "mkdir", c, p) /\ Unlocked(c, p, FALSE)
                 \/ /\ Begins("delete", "remove", c, p)
                    /\ \E d \in BOOLEAN : req'.deep = d /\ Unlocked(c, p, d)
          PROVE  RequestInv'
      <4>1. CASE Begins("get", "openread", c, p)
        BY <4>1, <3>1
      <4>2. CASE Begins("put", "openwrite", c, p) /\ Unlocked(c, p, FALSE)
        BY <4>2, <3>1
      <4>3. CASE Begins("mkcol", "mkdir", c, p) /\ Unlocked(c, p, FALSE)
        BY <4>3, <3>1
      <4>4. CASE /\ Begins("delete", "remove", c, p)
                 /\ \E d \in BOOLEAN : req'.deep = d /\ Unlocked(c, p, d)
        BY <4>4, <3>1
      <4> QED
        BY <3>5, <4>1, <4>2, <4>3, <4>4
    <3>6. CASE req' = NoRequest
      BY <3>6, NoRequestAllowed
    <3>7. ASSUME NEW p \in Paths,
                 \/ Begins("upload", "openwrite", Browser, p)
                 \/ Begins("mkdir", "mkdir", Browser, p)
                 \/ Begins("rm", "remove", Browser, p)
                 \/ \E op \in {"copy", "move"} : Begins(op, "place", Browser, p)
          PROVE  RequestInv'
      BY <3>7, <3>2
    <3>8. ASSUME NEW c \in Clients, NEW p \in Paths, NEW op \in {"copy", "move"},
                 NEW pc \in {"clear", "place"},
                 \E q \in Paths :
                   /\ Begins(op, pc, c, p) /\ req'.dst = q
                   /\ Unlocked(c, q, FALSE)
                   /\ op = "move" => \E d \in BOOLEAN : req'.deep = d /\ Unlocked(c, p, d)
          PROVE  RequestInv'
      BY <3>8, <3>4
    <3>9. CASE \E c \in Clients, p \in Paths, op \in {"copy", "move"}, pc \in {"clear", "place"} :
                 \E q \in Paths :
                   /\ Begins(op, pc, c, p) /\ req'.dst = q
                   /\ Unlocked(c, q, FALSE)
                   /\ op = "move" => \E d \in BOOLEAN : req'.deep = d /\ Unlocked(c, p, d)
      BY <3>9, <3>8
    <3> QED
      BY <2>1, <3>3, <3>5, <3>6, <3>7, <3>9, Zenon DEF Starts, ClientStarts, BrowserStarts
  <2>2. ASSUME NEW c \in Clients, NEW p \in Paths, NEW deep \in BOOLEAN, Lock(c, p, deep)
        PROVE  RequestInv'
    <3>1. req'.pc = "acquire" /\ req'.op \in {"lockdir", "lockdoc"} /\ req'.who = c
      BY <2>2, LockBegins
    <3> QED
      BY <3>1 DEF RequestInv, Allowed, At
  <2>3. ASSUME NEW c \in Clients, NEW t \in Tokens, Refresh(c, t) \/ Unlock(c, t)
        PROVE  RequestInv'
    BY <2>3, RefreshIs, UnlockIs, NoRequestAllowed
  <2> QED
    BY <1>2, <2>1, <2>2, <2>3, RequestStarts
<1>3. CASE Proceed
  <2>1. ASSUME OpenRead PROVE RequestInv'
    <3>1. \/ req' = NoRequest
          \/ req'.pc = "send" /\ req'.who = req.who
      BY <2>1, OpenReadIs
    <3>2. req.who \in Clients
      BY <2>1 DEF OpenRead, RequestInv
    <3> QED
      BY <3>1, <3>2, NoRequestAllowed DEF RequestInv, Allowed, At
  <2>2. ASSUME Read PROVE RequestInv'
    <3>1. req'.pc = "send" /\ req'.who = req.who /\ At("send")
      BY <2>2, ReadIs DEF At
    <3> QED
      BY <3>1 DEF RequestInv, Allowed, At
  <2>3. ASSUME OpenWrite, ToReceive PROVE RequestInv'
    <3>1. req'.pc = "receive" /\ req'.who = req.who /\ req'.path = req.path
      BY <2>3 DEF ToReceive
    <3>2. req.pc = "openwrite" /\ UNCHANGED dlock /\ now' \in {now, now + 1}
      BY <2>3, OpenWriteIs DEF OpenWrite, At
    <3>3. ASSUME req.who \in Clients PROVE Allowed'
      <4>1. PICK c, q : c = req.who /\ q = req.path
        OBVIOUS
      <4>2. Mine(c, q, FALSE) /\ q \in Paths
        BY <1>1, <3>2, <3>3, <4>1 DEF RequestInv, Allowed, At
      <4>3. Mine(c, q, FALSE)'
        BY <4>2, <3>2, MineStays
      <4>4. req'.who = c /\ req'.path = q
        BY <3>1, <4>1
      <4>5. Mine(req.who, req.path, FALSE)'
        BY <4>3, <4>4 DEF Mine, Covers
      <4> QED
        BY <4>5, <3>1 DEF Allowed, At
    <3> QED
      BY <3>1, <3>3 DEF RequestInv, At
  <2>4. ASSUME Clear, Goto("place") PROVE RequestInv'
    <3>1. "place" \in Pcs
      BY DEF Pcs
    <3>2. /\ req'.pc = "place" /\ req'.op = req.op /\ req'.who = req.who
          /\ req'.path = req.path /\ req'.dst = req.dst /\ req'.deep = req.deep
      BY <1>1, <2>4, <3>1, GotoIs
    <3>3. req.pc = "clear" /\ UNCHANGED dlock /\ now' \in {now, now + 1}
      BY <2>4 DEF Clear, Continue, At
    <3>4. req.who \in Clients => Allowed'
      BY <3>2, <3>3, AllowedStays DEF RequestInv
    <3> QED
      BY <3>2, <3>4 DEF RequestInv, At
  <2>5. ASSUME ToEngine PROVE RequestInv'
    <3>1. req'.pc = "enginelock"
      BY <2>5 DEF ToEngine
    <3> QED
      BY <3>1 DEF RequestInv, Allowed, At
  <2>6. CASE req' = NoRequest
    BY <2>6, NoRequestAllowed
  <2> QED
    BY <1>3, <2>1, <2>2, <2>3, <2>4, <2>5, <2>6, ProceedReq
<1>4. CASE Outside
  <2>1. /\ At("idle") => req' = req
        /\ req'.pc = req.pc /\ req'.op = req.op /\ req'.who = req.who /\ req'.path = req.path
        /\ req'.dst = req.dst /\ req'.seen = req.seen /\ req'.deep = req.deep
    BY <1>4, OutsideReq
  <2>2. UNCHANGED dlock /\ now' \in {now, now + 1}
    BY <1>4 DEF Outside, OutsideStep
  <2>3. Allowed => Allowed'
    BY <2>1, <2>2, AllowedStays
  <2> QED
    BY <2>1, <2>3 DEF RequestInv, At
<1>5. CASE Time \/ UNCHANGED vars
  <2>1. UNCHANGED <<dlock, req>> /\ now' \in {now, now + 1}
    BY <1>5 DEF Time, Tick, vars, davVars, treeVars
  <2>2. Allowed => Allowed'
    BY <2>1, AllowedStays
  <2> QED
    BY <2>1, <2>2 DEF RequestInv, At
<1>6. CASE Crash
  BY <1>6, CrashIs, NoRequestAllowed
<1> QED
  BY <1>2, <1>3, <1>4, <1>5, <1>6 DEF Next

---------------------------------------------------------------------------
(* What a request and a client remember                                    *)

LEMMA NothingRemembered ==
  ASSUME MemoryInv, req' = NoRequest, UNCHANGED cli
  PROVE  MemoryInv'
BY NoRequestIs DEF MemoryInv, Unraced, At

LEMMA BeginsMindless ==
  ASSUME MemoryInv, UNCHANGED cli,
         req'.pc \in {"mkdir", "remove", "clear", "place", "acquire", "enginelock"}
  PROVE  MemoryInv'
BY DEF MemoryInv, Unraced, At

(* A piece of a download that nothing raced is of the version its stat gave. *)
LEMMA ReadsOneVersion ==
  ASSUME Types, TreeInv, MemoryInv, Read
  PROVE  MemoryInv'
<1>1. /\ At("send") /\ UNCHANGED <<cli, tree>>
      /\ req'.pc = "send" /\ req'.who = req.who /\ req'.tag = req.tag /\ req'.keep = req.keep
      /\ req'.raced = req.raced /\ req'.path = req.path /\ req'.node = req.node
      /\ \A v \in req'.body : \/ v \in req.body
                              \/ \E q \in Paths : /\ IsDoc(q) /\ tree[q].id = req.node
                                                  /\ v = Content(q)
  BY ReadIs DEF At
<1>2. req.path \in Paths
  BY DEF Types, CallTypes, Requests
<1>3. ASSUME ~req.raced PROVE Unraced'
  <2>1. /\ IsDoc(req.path) /\ Content(req.path) = req.tag
        /\ req.node = tree[req.path].id /\ req.body \subseteq {req.tag}
    BY <1>1, <1>3 DEF MemoryInv, Unraced
  <2>2. ASSUME NEW v \in req'.body PROVE v = req.tag
    <3>1. CASE v \in req.body
      BY <2>1, <3>1
    <3>2. ASSUME NEW q \in Paths, IsDoc(q), tree[q].id = req.node, v = Content(q) PROVE v = req.tag
      <4>1. q = req.path
        BY <1>2, <2>1, <3>2 DEF TreeInv, Unique, IsDoc, Exists
      <4> QED
        BY <2>1, <3>2, <4>1
    <3> QED
      BY <1>1, <2>2, <3>1, <3>2
  <2>3. PICK p : p = req.path
    OBVIOUS
  <2>4. req'.path = p /\ tree' = tree /\ IsDoc(p) /\ Content(p) = req.tag /\ req.node = tree[p].id
    BY <1>1, <2>1, <2>3
  <2>5. /\ IsDoc(req.path)' /\ Content(req.path)' = req'.tag
        /\ req'.node = tree'[req'.path].id
    BY <1>1, <2>4 DEF IsDoc, Exists, Content
  <2>6. req'.body \subseteq {req'.tag}
    BY <1>1, <2>2
  <2> QED
    BY <1>1, <2>5, <2>6 DEF Unraced, At
<1> QED
  BY <1>1, <1>3 DEF MemoryInv, At

(* A handler remembers what it saw in the state it began in; a download    *)
(* that nothing raced is of the version its stat gave.                     *)
LEMMA MemoryStep ==
  ASSUME Types, TreeInv, RequestInv, MemoryInv, [Next]_vars
  PROVE  MemoryInv'
<1>1. req \in Requests /\ cli \in [Clients -> Memory] /\ tree \in Trees
  BY DEF Types, CallTypes, TreeTypes
<1>2. CASE Request
  <2>1. ASSUME Starts PROVE MemoryInv'
    <3>1. UNCHANGED tree
      BY <2>1 DEF Starts, treeVars
    <3>2. ASSUME req' # NoRequest PROVE UNCHANGED cli
      BY <2>1, <3>2, StartsIs
    <3>3. ASSUME NEW op, NEW pc, NEW c, NEW p, Begins(op, pc, c, p), pc # "idle"
          PROVE  UNCHANGED cli /\ req'.pc = pc /\ req'.who = c /\ req'.path = p
      BY <3>2, <3>3, NoRequestIs DEF Begins
    <3>4. ASSUME NEW op, NEW pc, NEW c, NEW p, Begins(op, pc, c, p),
                 pc \in {"mkdir", "remove", "clear", "place"}
          PROVE  MemoryInv'
      BY <3>3, <3>4, BeginsMindless
    <3>5. ASSUME req' = NoRequest, NEW c \in Clients, NEW p \in Paths, IsDoc(p),
                 cli' = [cli EXCEPT ![c] = [NoMemory EXCEPT !.tag = Content(p)]]
          PROVE  MemoryInv'
      <4>1. PICK m : m = [NoMemory EXCEPT !.tag = Content(p)]
        OBVIOUS
      <4>2. m.part = {}
        BY <4>1, <1>1, <3>5, ContentIsValidator, MemoryIs DEF IsDoc
      <4>3. \A d \in Clients : cli'[d] = cli[d] \/ cli'[d].part = {}
        BY <1>1, <3>5, <4>1, <4>2
      <4> QED
        BY <3>5, <4>3, NoRequestIs DEF MemoryInv, Unraced, At
    <3>6. ASSUME NEW c \in Clients, NEW p \in Paths, Begins("get", "openread", c, p),
                 IsDoc(p), req'.tag = Content(p), req'.body = {},
                 req'.keep => cli[c].part # {} /\ cli[c].tag = Content(p)
          PROVE  MemoryInv'
      <4>1. UNCHANGED cli /\ req'.pc = "openread" /\ req'.who = c /\ req'.path = p
        BY <3>3, <3>6
      <4>2. IsDoc(req.path)' /\ Content(req.path)' = req'.tag
        BY <3>1, <3>6, <4>1 DEF IsDoc, Exists, Content
      <4> QED
        BY <3>6, <4>1, <4>2 DEF MemoryInv, Unraced, At
    <3>7. ASSUME NEW c, NEW p \in Paths, NEW op, Begins(op, "openwrite", c, p),
                 req'.tag # None => IsDoc(p) /\ Content(p) = req'.tag
          PROVE  MemoryInv'
      <4>1. UNCHANGED cli /\ req'.pc = "openwrite" /\ req'.path = p
        BY <3>3, <3>7
      <4>2. req'.tag # None => IsDoc(req.path)' /\ Content(req.path)' = req'.tag
        BY <3>1, <3>7, <4>1 DEF IsDoc, Exists, Content
      <4> QED
        BY <4>1, <4>2 DEF MemoryInv, Unraced, At
    <3>8. ASSUME NEW c \in Clients, NEW p \in Paths, Begins("proppatch", "setmeta", c, p),
                 req'.seen = tree[p]
          PROVE  MemoryInv'
      <4>1. UNCHANGED cli /\ req'.pc = "setmeta" /\ req'.path = p
        BY <3>3, <3>8
      <4> QED
        BY <3>1, <3>8, <4>1 DEF MemoryInv, Unraced, At
    <3>9. ASSUME NEW c \in Clients, NEW p \in Paths, NEW op \in {"copy", "move"},
                 NEW pc \in {"clear", "place"}, Begins(op, pc, c, p)
          PROVE  MemoryInv'
      BY <3>9, <3>4
    <3>10. CASE \E c \in Clients, p \in Paths, op \in {"copy", "move"}, pc \in {"clear", "place"} :
                  Begins(op, pc, c, p)
      BY <3>10, <3>9
    <3>11. ASSUME NEW p \in Paths,
                  \/ Begins("upload", "openwrite", Browser, p) /\ req'.tag = None
                  \/ Begins("mkdir", "mkdir", Browser, p)
                  \/ Begins("rm", "remove", Browser, p)
                  \/ \E op \in {"copy", "move"} : Begins(op, "place", Browser, p)
           PROVE  MemoryInv'
      BY <3>11, <3>4, <3>7
    <3>12. ASSUME NEW c \in Clients, NEW p \in Paths,
                  Begins("mkcol", "mkdir", c, p) \/ Begins("delete", "remove", c, p)
           PROVE  MemoryInv'
      BY <3>12, <3>4
    <3>13. ASSUME NEW c \in Clients, NEW p \in Paths, Begins("put", "openwrite", c, p),
                  req'.tag # None => IsDoc(p) /\ Content(p) = req'.tag
           PROVE  MemoryInv'
      BY <3>13, <3>7
    <3>14. CASE \E c \in Clients, p \in Paths :
                  \/ /\ Begins("get", "openread", c, p) /\ IsDoc(p) /\ req'.tag = Content(p)
                     /\ req'.body = {}
                     /\ req'.keep => cli[c].part # {} /\ cli[c].tag = Content(p)
                  \/ /\ Begins("put", "openwrite", c, p) /\ Unlocked(c, p, FALSE)
                     /\ req'.tag # None => IsDoc(p) /\ Content(p) = req'.tag
                  \/ Begins("mkcol", "mkdir", c, p) /\ Unlocked(c, p, FALSE)
                  \/ /\ Begins("delete", "remove", c, p)
                     /\ \E d \in BOOLEAN : req'.deep = d /\ Unlocked(c, p, d)
                  \/ /\ Begins("proppatch", "setmeta", c, p) /\ Unlocked(c, p, FALSE)
                     /\ req'.seen = tree[p] /\ Exists(p)
      BY <3>14, <3>6, <3>8, <3>12, <3>13
    <3>15. CASE \E p \in Paths :
                  \/ Begins("upload", "openwrite", Browser, p) /\ req'.tag = None
                  \/ Begins("mkdir", "mkdir", Browser, p)
                  \/ Begins("rm", "remove", Browser, p)
                  \/ \E op \in {"copy", "move"} : Begins(op, "place", Browser, p)
      BY <3>15, <3>11
    <3>16. CASE \E c \in Clients, p \in Paths, op \in {"copy", "move"}, pc \in {"clear", "place"},
                   dst \in Paths :
                  /\ Begins(op, pc, c, p) /\ req'.dst = dst
                  /\ Unlocked(c, dst, FALSE)
                  /\ op = "move" => \E d \in BOOLEAN : req'.deep = d /\ Unlocked(c, p, d)
      BY <3>16, <3>10
    <3>17. CASE /\ req' = NoRequest
                /\ \E c \in Clients, p \in Paths :
                     IsDoc(p) /\ cli' = [cli EXCEPT ![c] = [NoMemory EXCEPT !.tag = Content(p)]]
      BY <3>17, <3>5
    <3> QED
      BY <2>1, <3>14, <3>15, <3>16, <3>17, Zenon DEF Starts, ClientStarts, BrowserStarts
  <2>2. ASSUME NEW c \in Clients, NEW p \in Paths, NEW deep \in BOOLEAN, Lock(c, p, deep)
        PROVE  MemoryInv'
    <3>1. req'.pc = "acquire" /\ UNCHANGED cli
      BY <2>2, LockBegins DEF Lock
    <3> QED
      BY <3>1, BeginsMindless
  <2>3. ASSUME NEW c \in Clients, NEW t \in Tokens, Refresh(c, t) \/ Unlock(c, t)
        PROVE  MemoryInv'
    <3>1. req' = NoRequest /\ UNCHANGED cli
      BY <2>3 DEF Refresh, Unlock, Begin
    <3> QED
      BY <3>1, NothingRemembered
  <2> QED
    BY <1>2, <2>1, <2>2, <2>3, RequestStarts
<1>3. CASE Proceed
  <2>1. ASSUME OpenRead PROVE MemoryInv'
    <3>1. CASE req' = NoRequest
      BY <2>1, <3>1, OpenReadIs, NothingRemembered
    <3>2. CASE /\ req'.pc = "send" /\ req'.node = tree[req.path].id /\ IsDoc(req.path)
               /\ req'.who = req.who /\ req'.tag = req.tag /\ req'.keep = req.keep
               /\ req'.raced = req.raced /\ req'.path = req.path /\ req'.body = req.body
      <4>1. UNCHANGED <<cli, tree>> /\ At("openread")
        BY <2>1 DEF OpenRead
      <4>2. ~req.raced => Content(req.path) = req.tag /\ req.body = {}
        BY <4>1 DEF MemoryInv, Unraced
      <4>3. PICK p : p = req.path
        OBVIOUS
      <4>4. req'.path = p /\ IsDoc(p) /\ req'.node = tree[p].id
            /\ (~req.raced => Content(p) = req.tag /\ req'.body = {})
        BY <3>2, <4>2, <4>3
      <4>5. /\ IsDoc(req.path)' /\ req'.node = tree'[req'.path].id
            /\ ~req.raced => Content(req.path)' = req'.tag /\ req'.body \subseteq {req'.tag}
        BY <3>2, <4>1, <4>4 DEF IsDoc, Exists, Content
      <4> QED
        BY <3>2, <4>1, <4>5 DEF MemoryInv, Unraced, At
    <3> QED
      BY <2>1, <3>1, <3>2, OpenReadIs
  <2>2. ASSUME Send PROVE MemoryInv'
    <3>1. At("send")
      BY <2>2 DEF Send
    <3>2. ~req.raced => req.body \subseteq {req.tag}
      BY <3>1 DEF MemoryInv, Unraced
    <3>3. ASSUME NEW c \in Clients, cli'[c].sure PROVE cli'[c].part \subseteq {cli'[c].tag}
      <4>1. \/ cli'[c] = cli[c]
            \/ cli'[c].part = {}
            \/ /\ c = req.who /\ cli'[c].tag = req.tag
               /\ cli'[c].part = req.body \cup (IF req.keep THEN cli[c].part ELSE {})
               /\ cli'[c].sure => ~req.raced /\ (req.keep => cli[c].sure)
        BY <2>2, SendIs
      <4>2. CASE /\ c = req.who /\ cli'[c].tag = req.tag
                 /\ cli'[c].part = req.body \cup (IF req.keep THEN cli[c].part ELSE {})
                 /\ ~req.raced /\ (req.keep => cli[c].sure)
        <5>1. req.keep => cli[c].part \subseteq {req.tag}
          BY <3>1, <4>2 DEF MemoryInv
        <5> QED
          BY <3>2, <4>2, <5>1
      <4> QED
        BY <3>3, <4>1, <4>2 DEF MemoryInv
    <3>4. req' = NoRequest
      BY <2>2, SendIs
    <3> QED
      BY <3>3, <3>4, NoRequestIs DEF MemoryInv, Unraced, At
  <2>3. ASSUME OpenWrite, ToReceive PROVE MemoryInv'
    <3>1. req'.pc = "receive" /\ req'.path = req.path /\ req'.tag = req.tag /\ req'.raced = req.raced
      BY <2>3 DEF ToReceive
    <3>2. UNCHANGED cli /\ At("openwrite")
      BY <2>3 DEF OpenWrite
    <3>3. UNCHANGED tree \/ ~Exists(req.path)
      BY <2>3 DEF OpenWrite, MayCreate
    <3>4. ASSUME ~req'.raced, req'.tag # None
          PROVE  IsDoc(req.path)' /\ Content(req.path)' = req'.tag
      <4>1. IsDoc(req.path) /\ Content(req.path) = req.tag
        BY <3>1, <3>2, <3>4 DEF MemoryInv, Unraced
      <4>2. UNCHANGED tree
        BY <3>3, <4>1 DEF IsDoc
      <4> QED
        BY <3>1, <4>1, <4>2 DEF IsDoc, Exists, Content
    <3> QED
      BY <3>1, <3>2, <3>4 DEF MemoryInv, Unraced, At
  <2>4. ASSUME Clear, Goto("place") PROVE MemoryInv'
    <3>1. req'.pc = "place" /\ UNCHANGED cli
      BY <1>1, <2>4 DEF Clear, Goto, Requests
    <3> QED
      BY <3>1, BeginsMindless
  <2>5. ASSUME Acquire, ToEngine PROVE MemoryInv'
    <3>1. req'.pc = "enginelock" /\ UNCHANGED cli
      BY <2>5 DEF Acquire, ToEngine
    <3> QED
      BY <3>1, BeginsMindless
  <2>6. ASSUME req' = NoRequest, ~Send PROVE MemoryInv'
    BY <1>3, <2>6, ProceedReq, NothingRemembered
  <2> QED
    BY <1>3, <2>1, <2>2, <2>3, <2>4, <2>5, <2>6, ProceedReq, ReadsOneVersion
<1>4. CASE Outside
  <2>1. CASE At("idle")
    <3>1. req'.pc = "idle" /\ UNCHANGED cli
      BY <1>4, <2>1, OutsideReq DEF At
    <3> QED
      BY <3>1 DEF MemoryInv, Unraced, At
  <2>2. CASE ~At("idle")
    <3>1. /\ req'.raced /\ UNCHANGED cli
          /\ req'.pc = req.pc /\ req'.who = req.who /\ req'.tag = req.tag /\ req'.keep = req.keep
      BY <1>4, <2>2, OutsideReq
    <3> QED
      BY <3>1 DEF MemoryInv, At
  <2> QED
    BY <2>1, <2>2
<1>5. CASE Time \/ UNCHANGED vars
  <2>1. UNCHANGED <<tree, cli, req>>
    BY <1>5 DEF Time, Tick, vars, davVars, treeVars
  <2> QED
    BY <2>1 DEF MemoryInv, Unraced, At, IsDoc, Exists, Content
<1>6. CASE Crash
  BY <1>6, NothingRemembered DEF Crash
<1> QED
  BY <1>2, <1>3, <1>4, <1>5, <1>6 DEF Next

---------------------------------------------------------------------------
(* The invariant                                                           *)

LEMMA InitInv == Init => IInv
<1> SUFFICES ASSUME Init PROVE IInv
  OBVIOUS
<1>1. TreeTypes /\ TreeInv
  BY StartGrown, StartShaped DEF Init
<1>2. elock = [l \in LockIds |-> None]
  BY DEF Init, TreeInit
<1>3. dlock = [t \in Tokens |-> None] /\ req = NoRequest /\ cli = [c \in Clients |-> NoMemory] /\ events = 0
  BY DEF Init
<1>4. LockTypes
  BY <1>2, <1>3 DEF LockTypes
<1>5. NoMemory \in Memory /\ NoMemory.part = {}
  BY DEF NoMemory, Memory, Validators
<1>6. CallTypes
  BY <1>3, <1>5, NoRequestIs DEF CallTypes
<1>7. \A l \in LockIds : elock[l] = None
  BY <1>2
<1>8. Tokens \subseteq LockIds /\ {"put", "left", "outside"} \subseteq LockIds
  BY LockIdAssumption
<1>9. LockInv
  BY <1>3, <1>7, <1>8, NoRequestIs
  DEF LockInv, TokenInv, Kept, RowEnds, RowIsThere, UploadInv, Locking, TokensDisjoint, Live,
      Unreleased, At
<1>10. RequestInv /\ MemoryInv
  BY <1>3, <1>5, TokenAssumption, NoRequestIs
  DEF RequestInv, MemoryInv, Allowed, Unraced, At
<1> QED
  BY <1>1, <1>4, <1>6, <1>9, <1>10 DEF IInv, Types

LEMMA Inductive == IInv /\ [Next]_vars => IInv'
<1> SUFFICES ASSUME IInv, [Next]_vars PROVE IInv'
  OBVIOUS
<1>1. Types /\ TreeInv /\ TokenInv /\ UploadInv /\ Locking /\ TokensDisjoint /\ RequestInv /\ MemoryInv
  BY DEF IInv, LockInv
<1>2. Types' /\ TreeInv'
  BY <1>1, TreeStep, LockTypesStep, CallStep DEF Types
<1>3. LockInv'
  BY <1>1, TokenStep, UploadStep, LockingStep, DisjointStep DEF LockInv
<1>4. RequestInv' /\ MemoryInv'
  BY <1>1, RequestStep, MemoryStep
<1> QED
  BY <1>2, <1>3, <1>4 DEF IInv

(* The tree is well formed and its nodes keep their ids, the locks agree,  *)
(* and the request in flight still may do what it asked about, in every    *)
(* state of the frontend.                                                  *)
THEOREM FrontendInvariant == Spec => []IInv
BY InitInv, Inductive, PTL DEF Spec

(* LockRegistry.acquire: whatever the requests, crashes and the clock do,  *)
(* two tokens in force never govern one resource.                          *)
THEOREM TokensAreDisjoint == Spec => []TokensDisjoint
<1>1. IInv => TokensDisjoint
  BY DEF IInv, LockInv
<1> QED
  BY <1>1, FrontendInvariant, PTL

LEMMA RowsAreOwned == IInv => EngineLocksOwned
<1> SUFFICES ASSUME IInv, NEW l \in LockIds, Valid(l), elock[l].mount = "session"
             PROVE  \/ l \in Tokens /\ Unreleased(l) /\ now < dlock[l].until + dlock[l].lag
                    \/ l = "put" /\ At("receive")
  BY DEF EngineLocksOwned
<1>1. elock[l] # None
  BY DEF Valid
<1>2. CASE l \in Tokens
  <2>1. RowEnds(l) /\ now \in Nat /\ dlock[l] \in DavLock \cup {None}
    BY <1>2 DEF IInv, LockInv, TokenInv, Kept, Types, TreeTypes, LockTypes
  <2>2. elock[l].until \in Nat /\ ~(elock[l].until <= now)
    BY <1>1, <2>1, TimeAssumption DEF RowEnds, Valid, Lapsed
  <2>3. Unreleased(l) /\ elock[l].until <= dlock[l].until + dlock[l].lag
    BY <1>1, <2>1, <2>2 DEF RowEnds
  <2>4. dlock[l].until \in Nat /\ dlock[l].lag \in Nat
    BY <2>1, <2>3 DEF DavLock, Unreleased
  <2> QED
    BY <1>2, <2>1, <2>2, <2>3, <2>4
<1>3. CASE l \in {"put", "left", "outside"}
  BY <1>1, <1>3 DEF IInv, LockInv, UploadInv
<1> QED
  BY <1>2, <1>3, LockIdAssumption

(* _do_lock, _do_unlock, _do_put: a lock the session has in the engine     *)
(* that is in force belongs to a token that was not released and outlasts  *)
(* it by no more than LOCK took from the registry to the engine, or to the *)
(* upload in progress; so none stays after what it was taken for.          *)
THEOREM EngineLocksAreOwned == Spec => []EngineLocksOwned
BY RowsAreOwned, FrontendInvariant, PTL

---------------------------------------------------------------------------
(* Steps                                                                   *)

LEMMA StepsOutside ==
  ASSUME Types, RequestInv, [Next]_vars
  PROVE  outside' # outside => Outside
<1>1. Request => outside' = outside
  BY RequestStarts, StartsIs DEF Lock, Refresh, Unlock, treeVars
<1>2. Proceed => outside' = outside
  BY ProceedChanges
<1>3. Time \/ Crash \/ UNCHANGED vars => outside' = outside
  BY DEF Time, Tick, Crash, vars, treeVars
<1> QED
  BY <1>1, <1>2, <1>3 DEF Next

LEMMA TokenExcludes ==
  ASSUME IInv, NEW t \in Tokens, NEW p \in Paths,
         Live(t), ~dlock[t].refreshed, Exists(p), tree[p].id = dlock[t].node
  PROVE  HeldByOther("outside", p)
<1>1. RowIsThere(t) /\ dlock[t] \in DavLock /\ tree[p] \in TreeNode /\ now \in Nat
  BY DEF IInv, LockInv, TokenInv, Kept, Types, TreeTypes, Trees, LockTypes, Live, Unreleased, Exists
<1>2. dlock[t].node # None /\ now < dlock[t].until /\ dlock[t].until \in Nat
  BY <1>1, TimeAssumption DEF TreeNode, DavLock, Live
<1>3. /\ elock[t] # None /\ elock[t].mount = "session" /\ elock[t].node = dlock[t].node
      /\ elock[t].until \in Nat /\ dlock[t].until <= elock[t].until
  BY <1>1, <1>2 DEF RowIsThere, Live
<1>4. Valid(t)
  <2>1. ~(elock[t].until <= now)
    BY <1>1, <1>2, <1>3
  <2> QED
    BY <1>3, <2>1 DEF Valid, Lapsed
<1>5. t \in LockIds
  BY LockIdAssumption
<1> QED
  BY <1>3, <1>4, <1>5 DEF HeldByOther

(* _do_lock: as long as a token that was not refreshed is in force, the    *)
(* other mount leaves the entry it was taken on as it is and under its     *)
(* name in its container, wherever the entry was moved and whatever was    *)
(* written and copied since.                                               *)
THEOREM OutsideIsExcluded == Spec => OutsideExcluded
<1>1. ASSUME IInv, [Next]_vars, outside' # outside,
             NEW t \in Tokens, NEW p \in Paths,
             Live(t), ~dlock[t].refreshed, Exists(p), tree[p].id = dlock[t].node
      PROVE  Undisturbed(p)
  <2>1. Types /\ Shaped(tree) /\ RequestInv
    BY <1>1 DEF IInv, TreeInv
  <2>2. OutsideStep
    BY <1>1, <2>1, StepsOutside DEF Outside
  <2>3. HeldByOther("outside", p)
    BY <1>1, TokenExcludes
  <2> QED
    BY <1>1, <2>1, <2>2, <2>3, OutsideSpares
<1>2. IInv /\ [Next]_vars =>
        [outside' # outside =>
           \A t \in Tokens, p \in Paths :
             Live(t) /\ ~dlock[t].refreshed /\ Exists(p) /\ tree[p].id = dlock[t].node
               => Undisturbed(p)]_vars
  BY <1>1
<1> QED
  BY <1>2, FrontendInvariant, PTL DEF Spec, OutsideExcluded

(* _check_preconditions, _do_get, _do_proppatch: a request that the other  *)
(* mount did not race acts on what it checked.                             *)
LEMMA KeepsModes ==
  ASSUME IInv, SetMetadata, ~req.raced, NEW p \in Paths, Exists(p)
  PROVE  tree'[p].mode = tree[p].mode
<1>1. /\ tree \in Trees /\ req.path \in Paths /\ req.seen \in TreeNode \cup {None}
      /\ At("setmeta") /\ req.seen = tree[req.path]
  BY DEF IInv, Types, TreeTypes, CallTypes, Requests, SetMetadata, MemoryInv, Unraced
<1>2. CASE tree' = tree
  BY <1>2
<1>3. CASE /\ Exists(req.path)
           /\ tree' = [tree EXCEPT ![req.path].mode = req.seen.mode, ![req.path].dead = 1 - req.seen.dead]
  <2>1. PICK r, s : r = req.path /\ s = req.seen
    OBVIOUS
  <2>2. tree[r] \in TreeNode /\ r \in Paths /\ s = tree[r]
    BY <1>1, <1>3, <2>1 DEF Trees, Exists
  <2>3. tree' = [tree EXCEPT ![r].mode = s.mode, ![r].dead = 1 - s.dead]
    BY <1>3, <2>1
  <2>4. tree'[r].mode = s.mode /\ (p # r => tree'[p] = tree[p])
    BY <1>1, <2>2, <2>3 DEF Trees, TreeNode
  <2> QED
    BY <2>2, <2>4
<1> QED
  BY <1>2, <1>3 DEF SetMetadata

LEMMA SetMetadataOnly ==
  ASSUME Types, [Next]_vars, At("setmeta"), outside' = outside
  PROVE  SetMetadata \/ tree' = tree
<1>1. ~Request
  BY DEF Request, At
<1>2. Proceed => SetMetadata
  BY DEF Proceed, At, OpenRead, Read, Send, OpenWrite, Receive, MakeDir, Remove, Clear, Place,
         Acquire, LockEngine
<1>3. ~Outside
  BY DEF Types, TreeTypes, Outside, OutsideStep
<1>4. Time \/ Crash \/ UNCHANGED vars => tree' = tree
  BY DEF Time, Tick, Crash, vars, treeVars
<1> QED
  BY <1>1, <1>2, <1>3, <1>4 DEF Next

(* An If-Match upload replaces the version its client saw, a resumed       *)
(* download continues the version its prefix came from, and a PROPPATCH    *)
(* changes no mode.                                                        *)
THEOREM ActsAsSeen == Spec => ActsOnWhatItSaw
<1>1. ASSUME IInv, [Next]_vars, ~req.raced, outside' = outside
      PROVE  /\ At("receive") /\ tree' # tree /\ req.tag # None => Content(req.path) = req.tag
             /\ At("send") /\ req.keep /\ cli[req.who].sure => req.body \subseteq cli[req.who].part
             /\ At("setmeta") => \A p \in Paths : Exists(p) => tree'[p].mode = tree[p].mode
  <2>1. Types /\ RequestInv /\ MemoryInv
    BY <1>1 DEF IInv
  <2>2. At("receive") /\ req.tag # None => Content(req.path) = req.tag
    BY <1>1, <2>1 DEF MemoryInv, Unraced
  <2>3. ASSUME At("send"), req.keep, cli[req.who].sure PROVE req.body \subseteq cli[req.who].part
    <3>1. req.who \in Clients /\ req.body \subseteq {req.tag}
      BY <1>1, <2>1, <2>3 DEF MemoryInv, Unraced, RequestInv
    <3>2. /\ cli[req.who].part # {} /\ cli[req.who].tag = req.tag
          /\ cli[req.who].part \subseteq {cli[req.who].tag}
      BY <2>1, <2>3, <3>1 DEF MemoryInv
    <3> QED
      BY <3>1, <3>2
  <2>4. ASSUME At("setmeta"), NEW p \in Paths, Exists(p) PROVE tree'[p].mode = tree[p].mode
    BY <1>1, <2>1, <2>4, SetMetadataOnly, KeepsModes
  <2> QED
    BY <2>2, <2>3, <2>4
<1>2. IInv /\ [Next]_vars =>
        [~req.raced /\ outside' = outside =>
           /\ At("receive") /\ tree' # tree /\ req.tag # None => Content(req.path) = req.tag
           /\ At("send") /\ req.keep /\ cli[req.who].sure => req.body \subseteq cli[req.who].part
           /\ At("setmeta") => \A p \in Paths : Exists(p) => tree'[p].mode = tree[p].mode]_vars
  BY <1>1
<1> QED
  BY <1>2, FrontendInvariant, PTL DEF Spec, ActsOnWhatItSaw

(* A path under somebody else's token is not among those a client may      *)
(* change.                                                                 *)
LEMMA NotMine ==
  ASSUME Types, NEW t \in Tokens, NEW p \in Paths, NEW c, Live(t), Covers(t, p),
         c # dlock[t].owner,
         NEW q \in Paths, NEW deep \in BOOLEAN, Mine(c, q, deep)
  PROVE  p # q /\ ~(deep /\ Within(p, q))
<1>1. dlock[t] # None
  BY DEF Live, Unreleased
<1> SUFFICES ASSUME p = q \/ (deep /\ Within(p, q)) PROVE FALSE
  OBVIOUS
<1>2. Covers(t, q) \/ (deep /\ Within(dlock[t].path, q))
  BY <1>1, Overlap
<1> QED
  BY <1>2 DEF Mine

(* A removal or a move takes nothing from below a path the client asked     *)
(* about that is governed by somebody else's token.                        *)
LEMMA TakenAway ==
  ASSUME Types, NEW t \in Tokens, NEW p \in Paths, NEW c, Live(t), Covers(t, p),
         c # dlock[t].owner,
         NEW q \in Paths, NEW d \in BOOLEAN, Mine(c, q, d),
         ~d => p = q \/ ~Within(p, q)
  PROVE  ~Within(p, q)
<1>1. p # q /\ ~(d /\ Within(p, q))
  BY NotMine
<1> QED
  BY <1>1

LEMMA ProceedSpares ==
  ASSUME IInv, Proceed, req.who \in Clients,
         NEW t \in Tokens, NEW p \in Paths, Live(t), Covers(t, p), req.who # dlock[t].owner,
         AskedAbout(p)
  PROVE  tree'[p] = tree[p]
<1>1. /\ Types /\ Shaped(tree) /\ Allowed
      /\ tree \in Trees /\ fresh \in Nat /\ req.path \in Paths /\ req.dst \in Paths
      /\ req.deep \in BOOLEAN
  BY DEF IInv, TreeInv, RequestInv, Types, TreeTypes, CallTypes, Requests
<1>2. PICK c, q, d, e : c = req.who /\ q = req.path /\ d = req.dst /\ e = req.deep
  OBVIOUS
<1>3. q \in Paths /\ d \in Paths /\ e \in BOOLEAN /\ c # dlock[t].owner
  BY <1>1, <1>2
<1>4. Mine(c, q, FALSE) => p # q
  BY <1>1, <1>3, NotMine
<1>5. Mine(c, d, FALSE) => p # d
  BY <1>1, <1>3, NotMine
<1>6. Mine(c, q, e) /\ req.op \in {"delete", "move"} => ~Within(p, q)
  <2>1. req.op \in {"delete", "move"} => (~e => p = q \/ ~Within(p, q))
    BY <1>2 DEF AskedAbout
  <2> QED
    BY <1>1, <1>3, <2>1, TakenAway
<1>7. ASSUME OpenRead \/ Read \/ Send \/ Acquire \/ LockEngine PROVE tree'[p] = tree[p]
  BY <1>7 DEF OpenRead, Read, Send, Acquire, LockEngine
<1>8. ASSUME OpenWrite PROVE tree'[p] = tree[p]
  <2>1. p # q
    BY <1>1, <1>2, <1>4, <1>8 DEF Allowed, OpenWrite
  <2>2. tree' = tree \/ (MayCreate(q) /\ tree' = Created(q, FALSE))
    BY <1>2, <1>8 DEF OpenWrite
  <2> QED
    BY <1>1, <1>3, <2>1, <2>2 DEF Created, Trees
<1>9. ASSUME Receive PROVE tree'[p] = tree[p]
  <2>1. p # q
    BY <1>1, <1>2, <1>4, <1>9 DEF Allowed, Receive
  <2> QED
    BY <1>2, <1>9, <2>1 DEF AskedAbout, Receive
<1>10. ASSUME MakeDir PROVE tree'[p] = tree[p]
  <2>1. p # q /\ req.op # "mkdir"
    BY <1>1, <1>2, <1>4, <1>10 DEF Allowed, MakeDir
  <2> QED
    BY <1>1, <1>2, <1>10, <2>1, MakeDirShaped
<1>11. ASSUME Remove PROVE tree'[p] = tree[p]
  <2>1. ~Within(p, q)
    BY <1>1, <1>2, <1>6, <1>11 DEF Allowed, Remove
  <2>2. tree' = tree \/ tree' = Removed(q)
    BY <1>2, <1>11 DEF Remove
  <2> QED
    BY <1>1, <1>3, <2>1, <2>2, RemovedShaped
<1>12. ASSUME At("clear") \/ At("place") PROVE ~Within(p, d)
  <2>1. p # d /\ req.op \in {"copy", "move"}
    BY <1>1, <1>2, <1>5, <1>12 DEF Allowed
  <2> QED
    BY <1>2, <2>1 DEF AskedAbout
<1>13. ASSUME Clear PROVE tree'[p] = tree[p]
  <2>1. tree' = tree \/ tree' = Removed(d)
    BY <1>2, <1>13 DEF Clear
  <2> QED
    BY <1>1, <1>3, <1>12, <1>13, <2>1, RemovedShaped DEF Clear
<1>14. ASSUME Place PROVE tree'[p] = tree[p]
  <2>1. ~Within(p, d)
    BY <1>12, <1>14 DEF Place
  <2>2. \/ req.op = "move" /\ MayPlace(q, d) /\ tree' = Moved(q, d)
        \/ MayPlace(q, d) /\ tree' = Copied(q, d)
        \/ tree' = tree
    BY <1>2, <1>14 DEF Place, MayMove
  <2>3. CASE req.op = "move" /\ MayPlace(q, d) /\ tree' = Moved(q, d)
    <3>1. ~Within(p, q)
      BY <1>1, <1>2, <1>6, <1>14, <2>3 DEF Allowed, Place
    <3> QED
      BY <1>1, <1>3, <2>1, <2>3, <3>1, MovedShaped
  <2>4. CASE MayPlace(q, d) /\ tree' = Copied(q, d)
    BY <1>1, <1>3, <2>1, <2>4, CopiedShaped
  <2> QED
    BY <2>2, <2>3, <2>4
<1>15. ASSUME SetMetadata PROVE tree'[p] = tree[p]
  <2>1. p # q
    BY <1>1, <1>2, <1>4, <1>15 DEF Allowed, SetMetadata
  <2>2. PICK m, k : m = req.seen.mode /\ k = 1 - req.seen.dead
    OBVIOUS
  <2>3. tree' = tree \/ tree' = [tree EXCEPT ![q].mode = m, ![q].dead = k]
    <3>1. req.path = q
      BY <1>2
    <3> QED
      BY <1>15, <2>2, <3>1, Zenon DEF SetMetadata
  <2> QED
    BY <1>1, <1>3, <2>1, <2>3 DEF Trees
<1> QED
  BY <1>7, <1>8, <1>9, <1>10, <1>11, <1>13, <1>14, <1>15 DEF Proceed

(* _require_unlocked: while a client holds a token, no other WebDAV client *)
(* changes what it governs, be it above, on or below the path it names, as *)
(* far as that client's request asked about it.                            *)
THEOREM LockedIsKept == Spec => LockedKept
<1>1. ASSUME IInv, [Next]_vars, tree' # tree, outside' = outside, req.who \in Clients,
             NEW t \in Tokens, NEW p \in Paths,
             Live(t), Covers(t, p), req.who # dlock[t].owner, AskedAbout(p)
      PROVE  tree'[p] = tree[p]
  <2>1. ~Request
    BY <1>1, NoRequestIs, TokenAssumption DEF IInv, RequestInv, Request, At
  <2>2. ~Outside
    BY <1>1 DEF IInv, Types, TreeTypes, Outside, OutsideStep
  <2>3. Time \/ Crash \/ UNCHANGED vars => tree' = tree
    BY DEF Time, Tick, Crash, vars, treeVars
  <2>4. Proceed
    BY <1>1, <2>1, <2>2, <2>3 DEF Next
  <2> QED
    BY <1>1, <2>4, ProceedSpares
<1>2. IInv /\ [Next]_vars =>
        [tree' # tree /\ outside' = outside /\ req.who \in Clients =>
           \A t \in Tokens, p \in Paths :
             Live(t) /\ Covers(t, p) /\ req.who # dlock[t].owner /\ AskedAbout(p)
               => tree'[p] = tree[p]]_vars
  BY <1>1
<1> QED
  BY <1>2, FrontendInvariant, PTL DEF Spec, LockedKept
(***************************************************************************)
(* The walks of the command line (TreeTransfer).                           *)
(*                                                                         *)
(* A node keeps its id and its kind for as long as it is anywhere, and its *)
(* content only gets newer: so what a walk saw of a name whose node stayed *)
(* is comparable with what it sees later.                                  *)
(***************************************************************************)

LEMMA SessionGrows ==
  ASSUME TreeInv, Session
  PROVE  Grows(tree', fresh')
<1>1. PICK p \in Paths :
        \/ SessionWrite(p) \/ SessionRemove(p) \/ SessionChmod(p)
        \/ \E dir \in BOOLEAN : SessionCreate(p, dir)
        \/ \E q \in Paths : SessionMove(p, q)
  BY DEF Session
<1>2. CASE SessionWrite(p)
  BY <1>2, WrittenGrows DEF SessionWrite, IsDoc
<1>3. CASE SessionRemove(p)
  BY <1>3, RemovedGrows DEF SessionRemove
<1>4. CASE SessionChmod(p)
  BY <1>4, ChmodGrows DEF SessionChmod
<1>5. ASSUME NEW dir \in BOOLEAN, SessionCreate(p, dir) PROVE Grows(tree', fresh')
  BY <1>5, CreatedGrows DEF SessionCreate
<1>6. ASSUME NEW q \in Paths, SessionMove(p, q) PROVE Grows(tree', fresh')
  BY <1>6, MovedGrows DEF SessionMove, MayMove
<1> QED
  BY <1>1, <1>2, <1>3, <1>4, <1>5, <1>6

---------------------------------------------------------------------------
(* The command: what it is at, and what was made of the tree meanwhile     *)

Entries == [path: Paths, dir: BOOLEAN]

JobPcs == {"idle", "mount", "root", "list", "child", "type", "open", "copy", "meta",
           "look", "parents", "make", "local", "close", "done"}

Jobs == [op: {None, "export", "get", "put"}, pc: JobPcs, root: Seq(Names), todo: Seq(Paths),
         left: SUBSET (Entries \cup LocalDirs \cup LocalDocs), child: Seq(Names),
         node: Nat \cup Contents, at: Nat, pruned: SUBSET Paths, since: Nat]

JobTypes == job \in Jobs /\ copy \in [Paths -> Made \cup {None}] /\ outside \in Nat

Alive == "job" \in rows

(* A command reads or puts once it is mounted.                             *)
Reads == job.op \in {"export", "get"} /\ job.pc \notin {"idle", "mount"}

Puts == job.op = "put" /\ job.pc \notin {"idle", "mount"}

Begun ==
  /\ job.pc = "idle" => job = Idle
  /\ job.pc \in {"idle", "mount"} <=> ~Alive
  /\ job.pc \in {"mount", "root"} => copy = Nothing
  /\ job.pc \in {"mount", "root"} =>
       /\ job.todo = <<>> /\ job.left = {} /\ job.pruned = {}
       /\ job.op \in {"get", "put"} => job.root \in Targets
       /\ job.op = "export" => job.root = Root
  /\ job.since <= outside

(* The root of a put, with what is to be put below it.                     *)
Room(root) == root \in Paths /\ \A c \in LocalDirs \cup LocalDocs : root \o c \in Paths

Phases ==
  /\ job.pc # "idle" => job.op \in {"export", "get", "put"}
  /\ job.op = "export" => job.pc \in {"idle", "mount", "list", "child", "type", "open", "copy", "meta", "done"}
  /\ job.op = "get" => job.pc \in {"idle", "mount", "root", "list", "child", "copy", "done"}
  /\ job.op = "put" => job.pc \in {"idle", "mount", "root", "look", "parents", "make", "local",
                                  "close", "done"}
  /\ job.op # "put" => job.left \subseteq Entries
  /\ job.op = "put" => job.left \subseteq LocalDirs \cup LocalDocs
  /\ job.op = "put" /\ job.pc \notin {"idle", "mount", "root"} => Room(job.root)
  /\ job.op = "export" /\ job.pc \in {"type", "open"} =>
       job.child \in Paths /\ job.node \in Nat \X Nat
  /\ job.pc = "copy" => job.child \in Paths /\ job.node \in Nat /\ copy[job.child] # None
  /\ job.op = "export" /\ job.pc = "meta" => job.child \in Paths
  /\ job.op = "export" /\ job.pc = "meta" => copy[job.child] # None

(* A tree of the past: its nodes that are left are of the kind they were,  *)
(* and no older.                                                           *)
Past(t) ==
  /\ t \in Trees /\ Shaped(t) /\ Unique(t) /\ Given(t, fresh)
  /\ \A p, q \in Paths : t[p] # None /\ tree[q] # None /\ t[p].id = tree[q].id =>
       t[p].dir = tree[q].dir /\ t[p].ver <= tree[q].ver

WasInv == (Alive => tree \in was) /\ \A t \in was : Past(t)

LEMMA PastNow ==
  ASSUME TreeInv
  PROVE  Past(tree)
<1>1. \A p \in Paths : tree[p] # None => tree[p].ver \in Nat
  BY NodeFields DEF TreeInv
<1>2. \A p, q \in Paths : tree[p] # None /\ tree[q] # None /\ tree[p].id = tree[q].id => p = q
  BY DEF TreeInv, Unique
<1> QED
  BY <1>1, <1>2 DEF Past, TreeInv

LEMMA PastStays ==
  ASSUME TreeInv, NEW t, Past(t), Grows(tree', fresh')
  PROVE  Past(t)'
<1>1. Given(t, fresh')
  <2> SUFFICES ASSUME NEW p \in Paths, t[p] # None PROVE t[p].id < fresh'
    BY DEF Given
  <2>1. t[p].id < fresh /\ fresh <= fresh' /\ t[p].id \in Nat /\ fresh \in Nat /\ fresh' \in Nat
    BY NodeFields DEF Past, Given, Grows, TreeInv
  <2> QED
    BY <2>1
<1>2. ASSUME NEW p \in Paths, NEW q \in Paths, t[p] # None, tree'[q] # None, t[p].id = tree'[q].id
      PROVE  t[p].dir = tree'[q].dir /\ t[p].ver <= tree'[q].ver
  <2>1. t[p].id \in Nat /\ t[p].id < fresh /\ fresh \in Nat /\ t[p].ver \in Nat
    BY <1>2, NodeFields DEF Past, Given, TreeInv
  <2>2. PICK r \in Paths : /\ tree[r] # None /\ tree[r].id = tree'[q].id
                           /\ tree[r].dir = tree'[q].dir /\ tree[r].ver <= tree'[q].ver
    BY <1>2, <2>1 DEF Grows, Follows
  <2>3. t[p].dir = tree[r].dir /\ t[p].ver <= tree[r].ver
    BY <1>2, <2>2 DEF Past
  <2>4. tree[r].ver \in Nat /\ tree'[q].ver \in Nat
    BY <1>2, <2>2, NodeFields DEF TreeInv, Grows
  <2> QED
    BY <2>1, <2>2, <2>3, <2>4
<1> QED
  BY <1>1, <1>2 DEF Past, Unique

LEMMA GrownKept ==
  ASSUME Grows(tree', fresh')
  PROVE  TreeInv'
BY DEF Grows, TreeInv

LEMMA WasKept ==
  ASSUME TreeInv, WasInv, Grows(tree', fresh'), Witness
  PROVE  WasInv'
<1>1. TreeInv'
  BY GrownKept
<1>2. Past(tree)'
  BY <1>1, PastNow, PTL
<1>3. \A t \in was : Past(t)'
  BY PastStays DEF WasInv
<1>4. \A t \in was' : Past(t)'
  <2>1. CASE "job" \in rows'
    <3>1. was' = was \cup {tree'}
      BY <2>1 DEF Witness
    <3>2. \A t : t = tree' => Past(t)'
      BY <1>2
    <3> QED
      BY <1>3, <3>1, <3>2
  <2>2. CASE "job" \notin rows'
    BY <2>2 DEF Witness
  <2> QED
    BY <2>1, <2>2
<1>5. Alive' => tree' \in was'
  BY DEF Witness, Alive
<1> QED
  BY <1>4, <1>5 DEF WasInv

---------------------------------------------------------------------------
(* The steps, by what they do to the command                               *)

TransferInv == TreeInv /\ JobTypes /\ Begun /\ Phases /\ WasInv

(* Others act: the command and what it made are as they were.              *)
Aside ==
  /\ UNCHANGED <<job, copy>> /\ (Alive' <=> Alive) /\ outside <= outside' /\ outside' \in Nat
  /\ outside' = outside => tree' = tree

(* The command is over.                                                    *)
Over == job' = Idle /\ UNCHANGED <<tree, fresh, outside, copy>> /\ ~Alive'

(* The command goes on.                                                    *)
Becomes(pc, todo, left, child, node, pruned) ==
  /\ job' \in Jobs
  /\ job'.op = job.op /\ job'.root = job.root /\ job'.since = job.since
  /\ job'.pc = pc /\ job'.todo = todo /\ job'.left = left
  /\ job'.child = child /\ job'.node = node /\ job'.pruned = pruned

Quiet == UNCHANGED <<tree, fresh, outside, rows>>

LEMMA JobFields ==
  ASSUME job \in Jobs
  PROVE  /\ job.op \in {None, "export", "get", "put"} /\ job.root \in Seq(Names)
         /\ job.todo \in Seq(Paths) /\ job.left \subseteq Entries \cup LocalDirs \cup LocalDocs
         /\ job.child \in Seq(Names) /\ job.node \in Nat \cup Contents /\ job.at \in Nat
         /\ job.pruned \subseteq Paths /\ job.since \in Nat
BY DEF Jobs

LEMMA OthersAside ==
  ASSUME TransferInv, Join \/ Quit \/ Session
  PROVE  Aside /\ Grows(tree', fresh')
<1>1. CASE Join \/ Quit
  <2>1. UNCHANGED <<job, copy, tree, fresh, outside>> /\ (Alive' <=> Alive)
    BY <1>1 DEF Join, Quit, treeVars, Alive
  <2>2. Grows(tree', fresh')
    BY <2>1, TreeStays DEF TransferInv
  <2> QED
    BY <2>1, <2>2 DEF Aside, TransferInv, JobTypes
<1>2. CASE Session
  <2>1. UNCHANGED <<job, copy, rows>> /\ outside' = outside + 1
    BY <1>2 DEF Session, ownVars
  <2>2. Grows(tree', fresh')
    BY <1>2, SessionGrows DEF TransferInv
  <2> QED
    BY <2>1, <2>2 DEF Aside, Alive, TransferInv, JobTypes
<1> QED
  BY <1>1, <1>2

LEMMA LeaveOver ==
  ASSUME Leave
  PROVE  Over
BY DEF Leave, Over, Alive, treeVars

LEMMA DieOver ==
  ASSUME Die
  PROVE  Over
<1>1. rows' = (IF "job" \in rows THEN (rows \ {"job"}) \cup {"left"} ELSE rows)
      /\ job' = Idle /\ UNCHANGED <<tree, fresh, outside, copy>>
  BY DEF Die
<1>2. "job" \notin rows'
  BY <1>1
<1> QED
  BY <1>1, <1>2 DEF Over, Alive

LEMMA IdleIs ==
  /\ Idle \in Jobs
  /\ Idle.pc = "idle" /\ Idle.since = 0 /\ Idle.todo = <<>> /\ Idle.left = {} /\ Idle.pruned = {}
  /\ Idle.op = None
BY RootIsEmpty, PathIsSeq DEF Idle, Jobs, Contents, JobPcs

LEMMA LaunchIs ==
  ASSUME TransferInv, NEW op \in {"export", "get", "put"}, NEW root \in Paths, Launch(op, root)
  PROVE  /\ job' \in Jobs /\ job'.op = op /\ job'.pc = "mount" /\ job'.root = root
         /\ job'.since = outside /\ job'.todo = <<>> /\ job'.left = {} /\ job'.pruned = {}
         /\ copy' = Nothing /\ UNCHANGED <<tree, fresh, outside, rows>> /\ ~Alive
<1>1. /\ job = Idle /\ copy' = Nothing /\ UNCHANGED <<tree, fresh, outside, rows>>
      /\ job' = [Idle EXCEPT !.op = op, !.pc = "mount", !.root = root, !.since = outside]
  BY DEF Launch, treeVars
<1>2. outside \in Nat /\ root \in Seq(Names) /\ Idle \in Jobs
  BY IdleIs, PathIsSeq DEF TransferInv, JobTypes
<1>3. ~Alive
  BY <1>1, IdleIs DEF TransferInv, Begun
<1>4. /\ job' \in Jobs /\ job'.op = op /\ job'.pc = "mount" /\ job'.root = root
      /\ job'.since = outside /\ job'.todo = Idle.todo /\ job'.left = Idle.left
      /\ job'.pruned = Idle.pruned
  BY <1>1, <1>2 DEF Jobs, JobPcs
<1> QED
  BY <1>1, <1>3, <1>4, IdleIs

LEMMA MountIs ==
  ASSUME TransferInv, Mount
  PROVE  /\ Becomes(IF job.op = "export" THEN "list" ELSE "root",
                    IF job.op = "export" THEN <<Root>> ELSE <<>>,
                    {}, job.child, job.node, {})
         /\ job.pc = "mount" /\ copy' = Nothing /\ UNCHANGED <<tree, fresh, outside>> /\ Alive'
<1>1. job \in Jobs /\ Root \in Paths
  BY RootIsEmpty DEF TransferInv, JobTypes
<1> DEFINE pc == IF job.op = "export" THEN "list" ELSE "root"
           todo == IF job.op = "export" THEN <<Root>> ELSE <<>>
<1>2. /\ job.pc = "mount" /\ UNCHANGED <<tree, fresh, outside, copy>> /\ "job" \in rows'
      /\ job' = [job EXCEPT !.pc = pc, !.todo = todo]
  BY DEF Mount, treeVars
<1>3. pc \in JobPcs /\ todo \in Seq(Paths)
  BY <1>1 DEF JobPcs
<1>4. job.left = {} /\ job.pruned = {} /\ copy = Nothing
  BY <1>2 DEF TransferInv, Begun
<1> HIDE DEF pc, todo
<1>5. Becomes(pc, todo, job.left, job.child, job.node, job.pruned)
  BY <1>1, <1>2, <1>3 DEF Jobs, Becomes
<1> QED
  BY <1>2, <1>4, <1>5 DEF Alive, pc, todo

Among(q, s) == \E i \in 1..Len(s) : s[i] = q

LEMMA UpcomingIs ==
  ASSUME job \in Jobs, job.todo # <<>>
  PROVE  /\ Upcoming \in Paths /\ Later \in Seq(Paths)
         /\ \A q : Among(q, job.todo) <=> q = Upcoming \/ Among(q, Later)
<1> DEFINE s == job.todo
<1>1. s \in Seq(Paths) /\ Len(s) \in Nat /\ s # <<>> /\ Len(s) # 0
  BY JobFields, LenProperties, EmptySeq
<1> HIDE DEF s
<1>2. 1 \in 1..Len(s) /\ Len(s) \in 1..Len(s)
  BY <1>1
<1>3. \A i \in 1..Len(s) : s[i] \in Paths
  BY <1>1, ElementOfSeq
<1>4. CASE job.op = "export"
  <2> DEFINE t == SubSeq(s, 1, Len(s) - 1)
  <2>1. Upcoming = s[Len(s)] /\ Later = t
    BY <1>4 DEF Upcoming, Later, s
  <2>2. Len(s) - 1 \in Int /\ 1 \in Int /\ Len(s) - 1 \in 0..Len(s)
    BY <1>1
  <2>3. t \in Seq(Paths) /\ Len(t) = Len(s) - 1 /\ \A i \in 1..Len(s) - 1 : t[i] = s[i]
    <3>1. \A i \in 1..Len(s) - 1 : 1 + i - 1 = i
      BY <1>1
    <3> DEFINE n == Len(s)
    <3>4. n \in Nat /\ n # 0
      BY <1>1
    <3>5. 1..n - 1 \subseteq 1..n /\ (1 <= n - 1 \/ n - 1 = 0) /\ n - 1 - 1 + 1 = n - 1
      <4> HIDE DEF n
      <4> QED
        BY <3>4
    <3>2. /\ \A i \in 1..Len(s) - 1 : s[i] \in Paths
          /\ (1 <= Len(s) - 1 \/ Len(s) - 1 = 0) /\ Len(s) - 1 - 1 + 1 = Len(s) - 1
      BY <1>3, <3>5
    <3>3. /\ t \in Seq(Paths)
          /\ Len(t) = IF 1 <= Len(s) - 1 THEN Len(s) - 1 - 1 + 1 ELSE 0
          /\ \A i \in 1..Len(s) - 1 - 1 + 1 : t[i] = s[1 + i - 1]
      BY <1>1, <2>2, <3>2, SubSeqProperties
    <3> QED
      BY <3>1, <3>2, <3>3
  <2> HIDE DEF t
  <2>4. \A q : Among(q, s) <=> q = s[Len(s)] \/ Among(q, t)
    <3>1. \A i \in 1..Len(s) : i = Len(s) \/ i \in 1..Len(s) - 1
      BY <1>1
    <3>2. 1..Len(s) - 1 \subseteq 1..Len(s)
      BY <1>1
    <3> QED
      BY <1>2, <2>3, <3>1, <3>2 DEF Among
  <2> QED
    BY <1>2, <1>3, <2>1, <2>3, <2>4 DEF s
<1>5. CASE job.op # "export"
  <2> DEFINE t == Tail(s)
  <2>1. Upcoming = Head(s) /\ Later = t
    BY <1>5 DEF Upcoming, Later, s
  <2>2. /\ Head(s) = s[1] /\ t \in Seq(Paths) /\ Len(t) = Len(s) - 1
        /\ \A i \in 1..Len(t) : t[i] = s[i + 1]
    BY <1>1, HeadTailProperties
  <2> HIDE DEF t
  <2>3. \A q : Among(q, s) <=> q = s[1] \/ Among(q, t)
    <3>1. \A i \in 1..Len(s) : i = 1 \/ (i - 1 \in 1..Len(t) /\ i - 1 + 1 = i)
      BY <1>1, <2>2
    <3>2. \A i \in 1..Len(t) : i + 1 \in 1..Len(s)
      BY <1>1, <2>2
    <3> QED
      BY <1>2, <2>2, <3>1, <3>2 DEF Among
  <2> QED
    BY <1>2, <1>3, <2>1, <2>2, <2>3 DEF s
<1> QED
  BY <1>4, <1>5

LEMMA AmongAppended ==
  ASSUME NEW s \in Seq(Paths), NEW p \in Paths
  PROVE  Append(s, p) \in Seq(Paths) /\ \A q : Among(q, Append(s, p)) <=> q = p \/ Among(q, s)
<1>1. /\ Append(s, p) \in Seq(Paths) /\ Len(Append(s, p)) = Len(s) + 1 /\ Len(s) \in Nat
      /\ Append(s, p)[Len(s) + 1] = p /\ \A i \in 1..Len(s) : Append(s, p)[i] = s[i]
  BY AppendProperties, LenProperties
<1>2. \A i : i \in 1..Len(s) + 1 <=> i = Len(s) + 1 \/ i \in 1..Len(s)
  BY <1>1
<1> QED
  BY <1>1, <1>2 DEF Among

LEMMA GetRootIs ==
  ASSUME TransferInv, GetRoot
  PROVE  Over \/ /\ Becomes("list", <<job.root>>, {}, job.child, job.node, {})
                 /\ copy' = copy /\ Quiet /\ job.op = "get" /\ job.pc = "root" /\ IsDir(job.root)
<1>1. job \in Jobs /\ Doing("get", "root") /\ job.op = "get" /\ job.pc = "root"
  BY DEF GetRoot, Doing, TransferInv, JobTypes
<1>2. job.root \in Paths /\ job.left = {} /\ job.pruned = {}
  BY <1>1, TransferAssumption DEF TransferInv, Begun
<1>3. CASE IsDir(job.root)
  <2>1. job' = [job EXCEPT !.pc = "list", !.todo = <<job.root>>] /\ UNCHANGED <<treeVars, copy, rows>>
    BY <1>3 DEF GetRoot
  <2>2. <<job.root>> \in Seq(Paths)
    BY <1>2
  <2>3. Becomes("list", <<job.root>>, job.left, job.child, job.node, job.pruned)
    BY <1>1, <2>1, <2>2 DEF Jobs, JobPcs, Becomes
  <2> QED
    BY <1>1, <1>2, <1>3, <2>1, <2>3 DEF Quiet, treeVars
<1>4. CASE ~IsDir(job.root)
  BY <1>4, LeaveOver DEF GetRoot
<1> QED
  BY <1>3, <1>4

Listing(p) == {[path |-> q, dir |-> IsDir(q)] : q \in Children(p)}

LEMMA ListIs ==
  ASSUME TransferInv, List
  PROVE  Over \/ /\ Becomes("child", Later, Listing(Upcoming), job.child, job.node, job.pruned)
                 /\ copy' = copy /\ Quiet /\ job.pc = "list" /\ job.todo # <<>> /\ IsDir(Upcoming)
<1>1. job \in Jobs /\ job.pc = "list" /\ job.todo # <<>> /\ Later \in Seq(Paths)
  BY UpcomingIs DEF List, TransferInv, JobTypes
<1>2. CASE IsDir(Upcoming)
  <2>1. job' = [job EXCEPT !.pc = "child", !.todo = Later, !.left = Listing(Upcoming)]
        /\ UNCHANGED <<treeVars, copy, rows>>
    BY <1>2 DEF List, Listing
  <2>2. Listing(Upcoming) \subseteq Entries
    <3>1. \A q : IsDir(q) \in BOOLEAN
      BY DEF IsDir
    <3> QED
      BY <3>1 DEF Listing, Children, Entries
  <2> HIDE DEF Listing
  <2>3. Becomes("child", Later, Listing(Upcoming), job.child, job.node, job.pruned)
    BY <1>1, <2>1, <2>2 DEF Jobs, JobPcs, Becomes
  <2> QED
    BY <1>1, <1>2, <2>1, <2>3 DEF Quiet, treeVars
<1>3. CASE ~IsDir(Upcoming)
  BY <1>3, LeaveOver DEF List
<1> QED
  BY <1>2, <1>3

(* Steps that only go on.                                                  *)
LEMMA GoOnIs ==
  ASSUME TransferInv, NEW pc \in JobPcs, GoOn(pc), UNCHANGED <<treeVars, rows>>
  PROVE  Becomes(pc, job.todo, job.left, job.child, job.node, job.pruned) /\ Quiet
<1>1. job \in Jobs
  BY DEF TransferInv, JobTypes
<1>2. Becomes(pc, job.todo, job.left, job.child, job.node, job.pruned)
  BY <1>1 DEF GoOn, Jobs, Becomes
<1> QED
  BY <1>2 DEF Quiet, treeVars

LEMMA ContentIs ==
  ASSUME tree \in Trees, NEW p \in Paths, Exists(p)
  PROVE  Content(p) \in Nat \X Nat /\ Content(p) \in Contents
         /\ Content(p)[1] = tree[p].id /\ Content(p)[2] = tree[p].ver
BY NodeFields DEF Exists, Content, Contents

LEMMA StatIs ==
  ASSUME TransferInv, Stat
  PROVE  Over \/ \E c \in job.left :
                   /\ Becomes("type", job.todo, job.left \ {c}, c.path, Content(c.path), job.pruned)
                   /\ copy' = copy /\ Quiet /\ job.op = "export" /\ job.pc = "child"
                   /\ c \in Entries /\ Exists(c.path)
<1>1. job \in Jobs /\ job.op = "export" /\ job.pc = "child"
  BY DEF Stat, Doing, TransferInv, JobTypes
<1>2. PICK c \in job.left :
        IF Exists(c.path)
        THEN /\ job' = [job EXCEPT !.pc = "type", !.child = c.path, !.left = job.left \ {c},
                                   !.node = Content(c.path)]
             /\ UNCHANGED <<treeVars, copy, rows, taken, begun>>
        ELSE Leave
  <2>1. PICK c \in job.left :
          IF Exists(c.path)
          THEN /\ job' = [job EXCEPT !.pc = "type", !.child = c.path, !.left = @ \ {c},
                                     !.node = Content(c.path)]
               /\ UNCHANGED <<treeVars, copy, rows, taken, begun>>
          ELSE Leave
    BY DEF Stat
  <2>2. [job EXCEPT !.pc = "type", !.child = c.path, !.left = @ \ {c}, !.node = Content(c.path)]
        = [job EXCEPT !.pc = "type", !.child = c.path, !.left = job.left \ {c},
                      !.node = Content(c.path)]
    BY <1>1 DEF Jobs
  <2> QED
    BY <2>1, <2>2
<1>3. c \in Entries /\ c.path \in Paths
  BY <1>1 DEF TransferInv, Phases, Entries
<1>4. CASE Exists(c.path)
  <2>1. Content(c.path) \in Contents /\ c.path \in Seq(Names)
    BY <1>3, <1>4, ContentIs, PathIsSeq DEF TransferInv, TreeInv
  <2> DEFINE left == job.left \ {c}
             child == c.path
             node == Content(c.path)
  <2>2. left \subseteq Entries \cup LocalDirs \cup LocalDocs
    BY <1>1, JobFields
  <2>3. job' = [job EXCEPT !.pc = "type", !.child = child, !.left = left, !.node = node]
        /\ UNCHANGED <<treeVars, copy, rows>>
    BY <1>2, <1>4
  <2>4. child \in Seq(Names) /\ node \in Nat \cup Contents
    BY <2>1
  <2> HIDE DEF left, child, node
  <2>5. Becomes("type", job.todo, left, child, node, job.pruned)
    BY <1>1, <2>2, <2>3, <2>4 DEF Jobs, JobPcs, Becomes
  <2> QED
    BY <1>1, <1>3, <1>4, <2>3, <2>5 DEF Quiet, treeVars, left, child, node
<1>5. CASE ~Exists(c.path)
  BY <1>2, <1>5, LeaveOver
<1> QED
  BY <1>4, <1>5

(* What is made under a name, and what of it stays.                        *)
LEMMA MakeIs ==
  ASSUME JobTypes, NEW p \in Paths, NEW thing \in Made, Make(p, thing)
  PROVE  /\ copy' \in [Paths -> Made \cup {None}]
         /\ copy'[p] = thing /\ copy'[p] # None
         /\ \A q \in Paths \ {p} : copy'[q] = copy[q]
BY MadeAssumption DEF JobTypes, Make

LEMMA FileIs ==
  /\ File \in Made /\ File.data = {} /\ ~File.dir
  /\ \A node \in Contents :
       /\ [File EXCEPT !.seen = node] \in Made
       /\ [File EXCEPT !.seen = node].data = {}
       /\ [File EXCEPT !.seen = node].seen = node
       /\ ~[File EXCEPT !.seen = node].dir
BY DEF File, Made, Contents

LEMMA FolderIs ==
  /\ Folder \in Made /\ Folder.dir = TRUE /\ Folder.data = {}
  /\ \A node \in Contents :
       /\ [Folder EXCEPT !.seen = node] \in Made
       /\ [Folder EXCEPT !.seen = node].seen = node
       /\ [Folder EXCEPT !.seen = node].data = {}
       /\ [Folder EXCEPT !.seen = node].dir = TRUE
BY DEF Folder, File, Made, Contents

LEMMA TypeIs ==
  ASSUME TransferInv, Type
  PROVE  /\ job.op = "export" /\ job.pc = "type" /\ job.child \in Paths /\ job.node \in Nat \X Nat
         /\ Quiet
         /\ \/ /\ IsDir(job.child)
               /\ Becomes("meta", Append(job.todo, job.child), job.left, job.child, job.node, job.pruned)
               /\ Make(job.child, [Folder EXCEPT !.seen = job.node])
            \/ /\ ~IsDir(job.child)
               /\ Becomes("open", job.todo, job.left, job.child, job.node, job.pruned)
               /\ copy' = copy
<1>1. job \in Jobs /\ job.op = "export" /\ job.pc = "type"
  BY DEF Type, Doing, TransferInv, JobTypes
<1>2. job.child \in Paths /\ job.node \in Nat \X Nat
  BY <1>1 DEF TransferInv, Phases
<1>3. UNCHANGED <<treeVars, rows>>
  BY DEF Type
<1>4. CASE IsDir(job.child)
  <2> DEFINE todo == Append(job.todo, job.child)
  <2>1. /\ Make(job.child, [Folder EXCEPT !.seen = job.node])
        /\ job' = [job EXCEPT !.pc = "meta", !.todo = Append(@, job.child)]
    BY <1>4 DEF Type
  <2>2. [job EXCEPT !.pc = "meta", !.todo = Append(@, job.child)]
        = [job EXCEPT !.pc = "meta", !.todo = todo]
    BY <1>1 DEF Jobs
  <2>3. todo \in Seq(Paths)
    BY <1>1, <1>2, JobFields, AppendProperties
  <2> HIDE DEF todo
  <2>4. Becomes("meta", todo, job.left, job.child, job.node, job.pruned)
    BY <1>1, <2>1, <2>2, <2>3 DEF Jobs, JobPcs, Becomes
  <2> QED
    BY <1>1, <1>2, <1>3, <1>4, <2>1, <2>4 DEF todo, Quiet, treeVars
<1>5. CASE ~IsDir(job.child)
  <2>1. GoOn("open") /\ copy' = copy
    BY <1>5 DEF Type
  <2> QED
    BY <1>1, <1>2, <1>3, <1>5, <2>1, GoOnIs DEF JobPcs
<1> QED
  BY <1>4, <1>5

LEMMA OpenIs ==
  ASSUME TransferInv, Open
  PROVE  Over \/ /\ job.op = "export" /\ job.pc = "open" /\ job.child \in Paths
                 /\ job.node \in Nat \X Nat /\ IsDoc(job.child) /\ Quiet
                 /\ Becomes("copy", job.todo, job.left, job.child, tree[job.child].id, job.pruned)
                 /\ Make(job.child, [File EXCEPT !.seen = job.node])
<1>1. job \in Jobs /\ job.op = "export" /\ job.pc = "open"
  BY DEF Open, Doing, TransferInv, JobTypes
<1>2. job.child \in Paths /\ job.node \in Nat \X Nat
  BY <1>1 DEF TransferInv, Phases
<1>3. CASE IsDoc(job.child)
  <2> DEFINE node == tree[job.child].id
  <2>1. /\ Make(job.child, [File EXCEPT !.seen = job.node])
        /\ job' = [job EXCEPT !.pc = "copy", !.node = node] /\ UNCHANGED <<treeVars, rows>>
    BY <1>3 DEF Open
  <2>2. node \in Nat
    BY <1>2, <1>3, NodeFields DEF IsDoc, Exists, TransferInv, TreeInv
  <2> HIDE DEF node
  <2>3. Becomes("copy", job.todo, job.left, job.child, node, job.pruned)
    BY <1>1, <2>1, <2>2 DEF Jobs, JobPcs, Becomes
  <2> QED
    BY <1>1, <1>2, <1>3, <2>1, <2>3 DEF node, Quiet, treeVars
<1>4. CASE ~IsDoc(job.child)
  BY <1>4, LeaveOver DEF Open
<1> QED
  BY <1>3, <1>4

(* A piece read of a file adds what is committed of its node to what the   *)
(* copy has of it.                                                         *)
Pieces == {Content(q) : q \in {r \in Paths : IsDoc(r) /\ tree[r].id = job.node}}

LEMMA PiecesAre ==
  ASSUME TransferInv
  PROVE  \A d : d \in Pieces <=> \E q \in Paths : IsDoc(q) /\ tree[q].id = job.node /\ d = <<tree[q].id, tree[q].ver>>
BY DEF Pieces, Content

LEMMA ReadPieceIs ==
  ASSUME TransferInv, ReadPiece
  PROVE  /\ job.pc = "copy" /\ job.op \in {"export", "get"} /\ job.child \in Paths
         /\ job.node \in Nat /\ Quiet
         /\ \E pc \in {"copy", "meta", "child"} :
              /\ Becomes(pc, job.todo, job.left, job.child, job.node, job.pruned)
              /\ pc = "meta" => job.op = "export"
         /\ copy' \in [Paths -> Made \cup {None}]
         /\ copy[job.child] \in Made /\ copy'[job.child] \in Made
         /\ copy'[job.child].dir = copy[job.child].dir /\ copy'[job.child].seen = copy[job.child].seen
         /\ copy'[job.child].data = copy[job.child].data \cup Pieces
         /\ \A q \in Paths \ {job.child} : copy'[q] = copy[q]
<1>1. /\ job \in Jobs /\ job.pc = "copy" /\ UNCHANGED <<treeVars, rows>>
      /\ job' = job \/ GoOn(IF job.op = "export" THEN "meta" ELSE "child")
      /\ Make(job.child, [copy[job.child] EXCEPT !.data = @ \cup Pieces])
  BY DEF ReadPiece, Pieces, TransferInv, JobTypes
<1>2. /\ job.op \in {"export", "get"} /\ job.child \in Paths /\ job.node \in Nat
      /\ copy[job.child] # None
  BY <1>1 DEF TransferInv, Phases
<1>3. \E pc \in {"copy", "meta", "child"} :
        /\ Becomes(pc, job.todo, job.left, job.child, job.node, job.pruned)
        /\ pc = "meta" => job.op = "export"
  <2>1. CASE job' = job
    <3>1. Becomes("copy", job.todo, job.left, job.child, job.node, job.pruned)
      BY <1>1, <2>1 DEF Becomes
    <3> QED
      BY <3>1
  <2>2. CASE GoOn("meta") /\ job.op = "export"
    <3>1. Becomes("meta", job.todo, job.left, job.child, job.node, job.pruned)
      BY <1>1, <2>2, GoOnIs DEF JobPcs
    <3> QED
      BY <2>2, <3>1
  <2>3. CASE GoOn("child")
    <3>1. Becomes("child", job.todo, job.left, job.child, job.node, job.pruned)
      BY <1>1, <2>3, GoOnIs DEF JobPcs
    <3> QED
      BY <3>1
  <2> QED
    BY <1>1, <2>1, <2>2, <2>3
<1>4. PICK p \in Paths : p = job.child
  BY <1>2
<1>5. copy[p] \in Made /\ copy[p] # None /\ JobTypes
  BY <1>2, <1>4 DEF TransferInv, JobTypes
<1>6. Pieces \subseteq Nat \X Nat
  <2> SUFFICES ASSUME NEW d \in Pieces PROVE d \in Nat \X Nat
    OBVIOUS
  <2>1. PICK q \in Paths : IsDoc(q) /\ tree[q].id = job.node /\ d = <<tree[q].id, tree[q].ver>>
    BY PiecesAre
  <2> QED
    BY <2>1, NodeFields DEF IsDoc, Exists, TransferInv, TreeInv
<1> DEFINE thing == [copy[p] EXCEPT !.data = copy[p].data \cup Pieces]
<1>7. /\ thing \in Made /\ thing.dir = copy[p].dir /\ thing.seen = copy[p].seen
      /\ thing.data = copy[p].data \cup Pieces
  <2> HIDE DEF Pieces
  <2> QED
    BY <1>5, <1>6 DEF Made
<1>8. Make(p, thing)
  <2> HIDE DEF Pieces
  <2>1. [copy[p] EXCEPT !.data = @ \cup Pieces] = thing
    BY <1>5 DEF Made
  <2> QED
    BY <1>1, <1>4, <2>1
<1> HIDE DEF thing
<1>9. /\ copy' \in [Paths -> Made \cup {None}] /\ copy'[p] = thing
      /\ \A q \in Paths \ {p} : copy'[q] = copy[q]
  BY <1>5, <1>7, <1>8, MakeIs
<1> QED
  BY <1>1, <1>2, <1>3, <1>4, <1>5, <1>7, <1>9 DEF Quiet, treeVars

(* What the copy says of a node but its mode stays.                        *)
Retouched(p) ==
  /\ copy' \in [Paths -> Made \cup {None}]
  /\ \A q \in Paths : /\ copy'[q] # None <=> copy[q] # None
                      /\ copy[q] # None => /\ copy'[q].dir = copy[q].dir
                                           /\ copy'[q].data = copy[q].data
                                           /\ copy'[q].seen = copy[q].seen

LEMMA MetaIs ==
  ASSUME TransferInv, Meta
  PROVE  Over \/ /\ job.op = "export" /\ job.pc = "meta" /\ Quiet
                 /\ Becomes("child", job.todo, job.left, job.child, job.node, job.pruned)
                 /\ Retouched(job.child)
<1>1. job.op = "export" /\ job.pc = "meta"
  BY DEF Meta, Doing
<1>2. job.child \in Paths /\ copy[job.child] # None
  BY <1>1 DEF TransferInv, Phases
<1>3. CASE Exists(job.child)
  <2> DEFINE p == job.child
             thing == [copy[p] EXCEPT !.mode = tree[p].mode]
  <2>1. Make(p, thing) /\ GoOn("child") /\ UNCHANGED <<treeVars, rows>>
    BY <1>3 DEF Meta
  <2>2. copy[p] \in Made
    BY <1>2 DEF TransferInv, JobTypes
  <2>3. tree[p].mode \in {0, 1}
    BY <1>2, <1>3, NodeFields DEF Exists, TransferInv, TreeInv
  <2>4. /\ thing \in Made /\ thing.dir = copy[p].dir /\ thing.data = copy[p].data
        /\ thing.seen = copy[p].seen
    BY <2>2, <2>3 DEF Made
  <2> HIDE DEF thing, p
  <2>5. p \in Paths /\ JobTypes
    BY <1>2 DEF p, TransferInv
  <2>6. /\ copy' \in [Paths -> Made \cup {None}] /\ copy'[p] = thing /\ copy'[p] # None
        /\ \A q \in Paths \ {p} : copy'[q] = copy[q]
    BY <2>1, <2>4, <2>5, MakeIs
  <2>7. Retouched(p)
    BY <1>2, <2>4, <2>6 DEF Retouched, p
  <2> QED
    BY <1>1, <2>1, <2>7, GoOnIs DEF p, JobPcs
<1>4. CASE ~Exists(job.child)
  BY <1>4, LeaveOver DEF Meta
<1> QED
  BY <1>3, <1>4

LEMMA StampIs ==
  ASSUME TransferInv, Stamp
  PROVE  /\ job.op = "export" /\ job.pc = "list" /\ job.todo = <<>> /\ Quiet
         /\ Becomes("done", job.todo, job.left, job.child, job.node, job.pruned)
         /\ Retouched(job.child)
         /\ \A q \in Paths : copy[q] # None => copy'[q].mtime = copy'[q].seen
<1>1. /\ job.op = "export" /\ job.pc = "list" /\ job.todo = <<>>
      /\ GoOn("done") /\ UNCHANGED <<treeVars, rows>>
      /\ copy' = [p \in Paths |-> IF copy[p] = None THEN None
                                  ELSE [copy[p] EXCEPT !.mtime = copy[p].seen]]
  BY DEF Stamp, Doing
<1>2. ASSUME NEW q \in Paths
      PROVE  /\ copy[q] = None => copy'[q] = None
             /\ copy[q] # None => /\ copy'[q] \in Made /\ copy'[q].dir = copy[q].dir
                                  /\ copy'[q].data = copy[q].data /\ copy'[q].seen = copy[q].seen
                                  /\ copy'[q].mtime = copy'[q].seen
  <2>1. CASE copy[q] # None
    <3>1. copy[q] \in Made
      BY <2>1 DEF TransferInv, JobTypes
    <3>2. copy'[q] = [copy[q] EXCEPT !.mtime = copy[q].seen]
      BY <1>1, <2>1
    <3> QED
      BY <2>1, <3>1, <3>2 DEF Made
  <2>2. CASE copy[q] = None
    BY <1>1, <2>2
  <2> QED
    BY <2>1, <2>2
<1>3. copy' = [q \in Paths |-> copy'[q]]
  BY <1>1
<1>4. Retouched(job.child)
  BY <1>2, <1>3, MadeAssumption DEF Retouched
<1> QED
  BY <1>1, <1>2, <1>4, GoOnIs DEF JobPcs

(* A container that a get visits is queued, an entry opened.               *)
Visited(c, pc, child, node) ==
  /\ job.op = "get" /\ job.pc = "child" /\ c \in Entries /\ Quiet
  /\ Becomes(pc, IF c.dir THEN Append(job.todo, c.path) ELSE job.todo,
             job.left \ {c}, child, node,
             IF c.dir /\ Skipped(c.path) THEN job.pruned \cup {c.path} ELSE job.pruned)
  /\ \/ Skipped(c.path) /\ copy' = copy /\ pc = "child"
     \/ ~Skipped(c.path) /\ c.dir /\ Make(c.path, Folder) /\ pc = "child"
     \/ /\ ~Skipped(c.path) /\ ~c.dir /\ IsDoc(c.path) /\ Make(c.path, File)
        /\ pc = "copy" /\ child = c.path /\ node = tree[c.path].id

LEMMA VisitIs ==
  ASSUME TransferInv, Visit
  PROVE  Over \/ \E c \in job.left, pc \in {"child", "copy"}, child \in Seq(Names), node \in Nat \cup Contents :
                   Visited(c, pc, child, node)
<1>1. job \in Jobs /\ job.op = "get" /\ job.pc = "child"
  BY DEF Visit, Doing, TransferInv, JobTypes
<1>2. PICK c \in job.left :
        LET p == c.path
            others == [job EXCEPT !.left = @ \ {c}] IN
        IF c.dir
        THEN /\ job' = [others EXCEPT !.todo = Append(@, p),
                          !.pruned = IF Skipped(p) THEN @ \cup {p} ELSE @]
             /\ IF Skipped(p) THEN UNCHANGED copy ELSE Make(p, Folder)
             /\ UNCHANGED <<treeVars, rows, taken, begun>>
        ELSE IF Skipped(p)
        THEN job' = others /\ UNCHANGED <<treeVars, copy, rows, taken, begun>>
        ELSE IF IsDoc(p)
        THEN /\ job' = [others EXCEPT !.pc = "copy", !.child = p, !.node = tree[p].id]
             /\ Make(p, File)
             /\ UNCHANGED <<treeVars, rows, taken, begun>>
        ELSE Leave
  BY DEF Visit
<1> DEFINE p == c.path
           left == job.left \ {c}
<1>3. c \in Entries /\ p \in Paths /\ p \in Seq(Names) /\ c.dir \in BOOLEAN
  BY <1>1, PathIsSeq DEF TransferInv, Phases, Entries
<1>4. left \subseteq Entries \cup LocalDirs \cup LocalDocs /\ job.todo \in Seq(Paths) /\ job.pruned \subseteq Paths
      /\ job.child \in Seq(Names) /\ job.node \in Nat \cup Contents
  BY <1>1, JobFields
<1>5. CASE c.dir
  <2> DEFINE todo == Append(job.todo, p)
             pruned == IF Skipped(p) THEN job.pruned \cup {p} ELSE job.pruned
  <2>1. todo \in Seq(Paths) /\ pruned \subseteq Paths
    BY <1>3, <1>4, AppendProperties
  <2>2. job' = [job EXCEPT !.left = left, !.todo = todo, !.pruned = pruned]
    <3>1. job' = [[job EXCEPT !.left = @ \ {c}] EXCEPT !.todo = Append(@, p),
                          !.pruned = IF Skipped(p) THEN @ \cup {p} ELSE @]
      BY <1>2, <1>5
    <3> QED
      BY <1>1, <3>1 DEF Jobs
  <2>3. /\ UNCHANGED <<treeVars, rows>>
        /\ (Skipped(p) /\ copy' = copy) \/ (~Skipped(p) /\ Make(p, Folder))
    BY <1>2, <1>5
  <2> HIDE DEF todo, pruned, left, p
  <2>4. Becomes("child", todo, left, job.child, job.node, pruned)
    BY <1>1, <1>4, <2>1, <2>2 DEF Jobs, JobPcs, Becomes
  <2>5. Visited(c, "child", job.child, job.node)
    BY <1>1, <1>3, <1>5, <2>3, <2>4 DEF Visited, Quiet, treeVars, todo, pruned, left, p
  <2> QED
    BY <1>4, <2>5
<1>6. CASE ~c.dir /\ Skipped(p)
  <2>1. job' = [job EXCEPT !.left = left] /\ UNCHANGED <<treeVars, copy, rows>>
    <3>1. job' = [job EXCEPT !.left = @ \ {c}] /\ UNCHANGED <<treeVars, copy, rows>>
      BY <1>2, <1>6
    <3> QED
      BY <1>1, <3>1 DEF Jobs
  <2> HIDE DEF left, p
  <2>2. Becomes("child", job.todo, left, job.child, job.node, job.pruned)
    BY <1>1, <1>4, <2>1 DEF Jobs, JobPcs, Becomes
  <2>3. Visited(c, "child", job.child, job.node)
    BY <1>1, <1>3, <1>6, <2>1, <2>2 DEF Visited, Quiet, treeVars, left, p
  <2> QED
    BY <1>4, <2>3
<1>7. CASE ~c.dir /\ ~Skipped(p) /\ IsDoc(p)
  <2> DEFINE node == tree[p].id
  <2>1. /\ job' = [job EXCEPT !.left = left, !.pc = "copy", !.child = p, !.node = node]
        /\ Make(p, File) /\ UNCHANGED <<treeVars, rows>>
    <3>1. /\ job' = [[job EXCEPT !.left = @ \ {c}] EXCEPT !.pc = "copy", !.child = p, !.node = node]
          /\ Make(p, File) /\ UNCHANGED <<treeVars, rows>>
      BY <1>2, <1>7
    <3> QED
      BY <1>1, <3>1 DEF Jobs
  <2>2. node \in Nat
    BY <1>3, <1>7, NodeFields DEF IsDoc, Exists, TransferInv, TreeInv
  <2> HIDE DEF left, p, node
  <2>3. Becomes("copy", job.todo, left, p, node, job.pruned)
    BY <1>1, <1>3, <1>4, <2>1, <2>2 DEF Jobs, JobPcs, Becomes
  <2>4. Visited(c, "copy", p, node)
    BY <1>1, <1>3, <1>7, <2>1, <2>3 DEF Visited, Quiet, treeVars, left, p, node
  <2> QED
    BY <1>3, <2>2, <2>4 DEF p
<1>8. CASE ~c.dir /\ ~Skipped(p) /\ ~IsDoc(p)
  BY <1>2, <1>8, LeaveOver
<1> QED
  BY <1>5, <1>6, <1>7, <1>8

LEMMA PutRootIs ==
  ASSUME TransferInv, PutRoot
  PROVE  Over \/ /\ job.op = "put" /\ job.pc = "root" /\ copy' = copy /\ Quiet
                 /\ job' \in Jobs /\ job'.op = "put" /\ job'.pc = "look"
                 /\ job'.since = job.since /\ job'.left = LocalDirs \cup LocalDocs
                 /\ Room(job'.root)
<1>1. job \in Jobs /\ job.op = "put" /\ job.pc = "root"
  BY DEF PutRoot, Doing, TransferInv, JobTypes
<1> DEFINE p == job.root
           root == IF IsDir(p) THEN Append(p, BaseName) ELSE p
           bad == IsDoc(p) \/ root \notin Paths \/ \E q \in Paths : q # p /\ Within(p, q) /\ IsDoc(q)
<1>2. p \in Targets
  BY <1>1 DEF TransferInv, Begun
<1>3. CASE bad
  BY <1>3, LeaveOver DEF PutRoot
<1>4. CASE ~bad
  <2>1. /\ job' = [job EXCEPT !.pc = "look", !.root = root, !.child = root, !.at = 1,
                              !.left = LocalDirs \cup LocalDocs]
        /\ UNCHANGED <<treeVars, copy, rows>>
    BY <1>4 DEF PutRoot
  <2>2. root \in Paths
    BY <1>4
  <2>3. root \in {p, Append(p, BaseName)}
    OBVIOUS
  <2> HIDE DEF root, p
  <2>4. Room(root)
    BY <1>2, <2>2, <2>3, TransferAssumption DEF Room
  <2>5. root \in Seq(Names)
    BY <2>2, PathIsSeq
  <2>6. /\ job' \in Jobs /\ job'.op = "put" /\ job'.pc = "look" /\ job'.since = job.since
        /\ job'.left = LocalDirs \cup LocalDocs /\ job'.root = root
    BY <1>1, <2>1, <2>5 DEF Jobs, JobPcs
  <2> QED
    BY <1>1, <2>1, <2>4, <2>6 DEF Quiet, treeVars
<1> QED
  BY <1>3, <1>4

(* The steps of a put that look, and those that make directories.          *)
PutOn(pc, left) ==
  /\ job.op = "put" /\ job.pc \notin {"idle", "mount", "root"}
  /\ job' \in Jobs /\ job'.op = "put" /\ job'.pc = pc
  /\ job'.since = job.since /\ job'.left = left /\ job'.root = job.root

LEMMA LookForIs ==
  ASSUME TransferInv, LookFor
  PROVE  Over \/ \E pc \in {"local", "parents"} :
                   PutOn(pc, job.left) /\ job.pc = "look" /\ copy' = copy /\ Quiet
<1>1. job \in Jobs /\ job.op = "put" /\ job.pc = "look"
  BY DEF LookFor, Doing, TransferInv, JobTypes
<1>2. CASE IsDoc(job.child)
  BY <1>2, LeaveOver DEF LookFor
<1>3. CASE ~IsDoc(job.child)
  <2>1. PICK pc \in {"local", "parents"} : GoOn(pc)
    BY <1>3 DEF LookFor
  <2>2. UNCHANGED <<treeVars, copy, rows>>
    BY <1>3 DEF LookFor
  <2>3. Becomes(pc, job.todo, job.left, job.child, job.node, job.pruned) /\ Quiet
    BY <2>1, <2>2, GoOnIs DEF JobPcs
  <2> QED
    BY <1>1, <2>2, <2>3 DEF PutOn, Becomes
<1> QED
  BY <1>2, <1>3

LEMMA ParentsIs ==
  ASSUME TransferInv, Parents
  PROVE  \E pc \in {"parents", "make"} : PutOn(pc, job.left) /\ job.pc = "parents" /\ copy' = copy /\ Quiet
<1>1. job \in Jobs /\ job.op = "put" /\ job.pc = "parents" /\ UNCHANGED <<treeVars, copy, rows>>
  BY DEF Parents, Doing, TransferInv, JobTypes
<1>2. job' = [job EXCEPT !.at = @ + 1] \/ job' = [job EXCEPT !.pc = "make"]
  BY DEF Parents
<1>3. PutOn("parents", job.left) \/ PutOn("make", job.left)
  <2>1. CASE job' = [job EXCEPT !.at = @ + 1]
    <3>1. job.at \in Nat /\ job' = [job EXCEPT !.at = job.at + 1]
      BY <1>1, <2>1 DEF Jobs
    <3>2. job.at + 1 \in Nat
      BY <3>1
    <3> QED
      BY <1>1, <3>1, <3>2 DEF Jobs, JobPcs, PutOn
  <2>2. CASE job' = [job EXCEPT !.pc = "make"]
    BY <1>1, <2>2 DEF Jobs, JobPcs, PutOn
  <2> QED
    BY <1>2, <2>1, <2>2
<1> QED
  BY <1>1, <1>3 DEF Quiet, treeVars
(* What is there stays as it is.                                           *)
Keeps == \A q \in Paths : tree[q] # None => tree'[q] = tree[q]

LEMMA AlsoLater ==
  ASSUME NEW u, NEW k, Grows(u, k), TreeInv
  PROVE  Grows(u, k + 1)
<1>1. k \in Nat /\ k + 1 \in Nat /\ fresh \in Nat /\ fresh <= k + 1 /\ u \in Trees
  BY DEF Grows, TreeInv
<1>2. \A p \in Paths : u[p] # None => u[p].id < k + 1
  <2> SUFFICES ASSUME NEW p \in Paths, u[p] # None PROVE u[p].id < k + 1
    OBVIOUS
  <2>1. u[p].id < k /\ u[p].id \in Nat
    BY <1>1, NodeFields DEF Grows, Given
  <2> QED
    BY <1>1, <2>1
<1> QED
  BY <1>1, <1>2 DEF Grows, Given

LEMMA MakeNextIs ==
  ASSUME TransferInv, MakeNext
  PROVE  Over \/ /\ \E pc \in {"local", "parents"} : PutOn(pc, job.left)
                 /\ job.pc = "make" /\ copy' = copy /\ UNCHANGED <<outside, rows>>
                 /\ Keeps /\ Grows(tree', fresh')
<1>1. job \in Jobs /\ job.op = "put" /\ job.pc = "make" /\ TreeInv
  BY DEF MakeNext, Doing, TransferInv, JobTypes
<1>2. CASE MayCreate(Prefix)
  <2>1. /\ tree' = Created(Prefix, TRUE) /\ fresh' = fresh + 1 /\ UNCHANGED <<outside, rows, copy>>
        /\ job' = IF job.at < Len(job.child) THEN [job EXCEPT !.pc = "parents", !.at = @ + 1]
                  ELSE [job EXCEPT !.pc = "local"]
    BY <1>2 DEF MakeNext
  <2>2. \E pc \in {"local", "parents"} : PutOn(pc, job.left)
    <3>1. CASE job' = [job EXCEPT !.pc = "parents", !.at = @ + 1]
      <4>1. job.at \in Nat /\ job' = [job EXCEPT !.pc = "parents", !.at = job.at + 1]
        BY <1>1, <3>1 DEF Jobs
      <4>2. job.at + 1 \in Nat
        BY <4>1
      <4>3. PutOn("parents", job.left)
        BY <1>1, <4>1, <4>2 DEF Jobs, JobPcs, PutOn
      <4> QED
        BY <4>3
    <3>2. CASE job' = [job EXCEPT !.pc = "local"]
      <4>1. PutOn("local", job.left)
        BY <1>1, <3>2 DEF Jobs, JobPcs, PutOn
      <4> QED
        BY <4>1
    <3> QED
      BY <2>1, <3>1, <3>2
  <2> DEFINE p == Prefix
             n == Node(fresh, TRUE, 0)
  <2>3. tree' = [tree EXCEPT ![p] = n]
    BY <2>1 DEF Created
  <2>4. tree \in Trees /\ ~Exists(p)
    BY <1>1, <1>2 DEF TreeInv, MayCreate
  <2>5. Keeps /\ Grows(tree', fresh')
    <3>1. CASE p \in Paths
      <4>1. Grows(tree', fresh')
        BY <1>1, <1>2, <2>1, <3>1, CreatedGrows
      <4> HIDE DEF p, n
      <4>2. Keeps
        BY <2>3, <2>4, <3>1 DEF Keeps, Exists, Trees
      <4> QED
        BY <4>1, <4>2
    <3>2. CASE p \notin Paths
      <4> HIDE DEF p, n
      <4>1. tree' = tree
        BY <2>3, <2>4, <3>2 DEF Trees
      <4>2. Grows(tree', fresh)
        BY <1>1, <4>1, TreeStays
      <4> QED
        BY <1>1, <2>1, <4>1, <4>2, AlsoLater DEF Keeps
    <3> QED
      BY <3>1, <3>2
  <2> QED
    BY <1>1, <2>1, <2>2, <2>5
<1>3. CASE ~MayCreate(Prefix)
  BY <1>3, LeaveOver DEF MakeNext
<1> QED
  BY <1>2, <1>3

LEMMA LocalDirIs ==
  ASSUME TransferInv, LocalDir
  PROVE  \E c \in LocalDirs : PutOn("look", job.left \ {c}) /\ job.pc = "local" /\ copy' = copy /\ Quiet
<1>1. /\ job \in Jobs /\ job.op = "put" /\ job.pc = "local" /\ UNCHANGED <<treeVars, copy, rows>>
      /\ Room(job.root)
  BY DEF LocalDir, Doing, TransferInv, JobTypes, Phases
<1>2. PICK c \in LocalDirs :
        job' = [job EXCEPT !.pc = "look", !.child = job.root \o c, !.at = 1, !.left = @ \ {c}]
  BY DEF LocalDir
<1> DEFINE left == job.left \ {c}
           child == job.root \o c
<1>3. child \in Seq(Names) /\ left \subseteq Entries \cup LocalDirs \cup LocalDocs
  BY <1>1, JobFields, PathIsSeq DEF Room
<1>4. job' = [job EXCEPT !.pc = "look", !.child = child, !.at = 1, !.left = left]
  BY <1>1, <1>2 DEF Jobs
<1> HIDE DEF left, child
<1>5. PutOn("look", left)
  BY <1>1, <1>3, <1>4 DEF Jobs, JobPcs, PutOn
<1> QED
  BY <1>1, <1>5 DEF Quiet, treeVars, left

LEMMA LocalDocIs ==
  ASSUME TransferInv, LocalDoc
  PROVE  Over \/ \E c \in LocalDocs :
                   /\ PutOn("close", job.left \ {c}) /\ job.pc = "local" /\ c \in job.left
                   /\ copy' = copy /\ UNCHANGED <<outside, rows>>
                   /\ job'.child = job.root \o c /\ job'.child \in Paths
                   /\ job'.node = tree'[job'.child].id
                   /\ tree'[job'.child] # None /\ ~tree'[job'.child].dir
                   /\ Keeps /\ Grows(tree', fresh')
<1>1. /\ job \in Jobs /\ job.op = "put" /\ job.pc = "local" /\ Room(job.root) /\ TreeInv
  BY DEF LocalDoc, Doing, TransferInv, JobTypes, Phases
<1>2. PICK c \in LocalDocs :
        LET p == job.root \o c IN
        /\ Ready(c)
        /\ IF Writable(p) \/ MayCreate(p)
           THEN /\ tree' = IF Exists(p) THEN tree
                           ELSE [tree EXCEPT ![p] = Node(fresh, FALSE, 0)]
                /\ fresh' = IF Exists(p) THEN fresh ELSE fresh + 1
                /\ elock' = [elock EXCEPT !["job"] =
                               [node |-> tree'[p].id, mount |-> "job", until |-> None]]
                /\ job' = [job EXCEPT !.pc = "close", !.child = p, !.node = tree'[p].id,
                                      !.left = @ \ {c}]
                /\ UNCHANGED <<now, outside, copy, rows, taken, begun>>
           ELSE Leave
  BY DEF LocalDoc
<1> DEFINE p == job.root \o c
<1>3. p \in Paths /\ c \in job.left
  BY <1>1, <1>2 DEF Room, Ready
<1>4. CASE Writable(p) \/ MayCreate(p)
  <2>1. /\ tree' = IF Exists(p) THEN tree ELSE [tree EXCEPT ![p] = Node(fresh, FALSE, 0)]
        /\ fresh' = IF Exists(p) THEN fresh ELSE fresh + 1
        /\ job' = [job EXCEPT !.pc = "close", !.child = p, !.node = tree'[p].id, !.left = @ \ {c}]
        /\ UNCHANGED <<outside, copy, rows>>
    BY <1>2, <1>4
  <2> HIDE DEF p
  <2>2. tree \in Trees
    BY <1>1 DEF TreeInv
  <2>3. Keeps /\ Grows(tree', fresh') /\ tree'[p] # None /\ ~tree'[p].dir
    <3>1. CASE Exists(p)
      <4>1. tree' = tree /\ fresh' = fresh /\ ~tree[p].dir
        BY <1>4, <2>1, <3>1 DEF MayCreate, Writable, IsDoc
      <4>2. Grows(tree', fresh')
        BY <1>1, <4>1, TreeStays
      <4> QED
        BY <3>1, <4>1, <4>2 DEF Keeps, Exists
    <3>2. CASE ~Exists(p)
      <4> DEFINE n == Node(fresh, FALSE, 0)
      <4>1. n \in TreeNode /\ n.id = fresh /\ ~n.dir /\ n # None
        BY <1>1, NodeIsNode, NodeAssumption DEF TreeInv, Node
      <4>2. tree' = [tree EXCEPT ![p] = n] /\ fresh' = fresh + 1 /\ MayCreate(p)
        BY <1>4, <2>1, <3>2 DEF Writable, IsDoc
      <4> HIDE DEF n
      <4>3. Grows(tree', fresh')
        BY <1>1, <1>3, <4>1, <4>2, AddedGrows DEF p
      <4>4. tree'[p] = n /\ \A q \in Paths \ {p} : tree'[q] = tree[q]
        BY <1>3, <2>2, <4>2 DEF Trees, p
      <4> QED
        BY <3>2, <4>1, <4>3, <4>4 DEF Keeps, Exists
    <3> QED
      BY <3>1, <3>2
  <2> DEFINE id == tree'[p].id
             left == job.left \ {c}
  <2>4. p \in Paths /\ tree' \in Trees
    BY <1>3, <2>3 DEF p, Grows
  <2>5. id \in Nat /\ p \in Seq(Names)
    BY <2>3, <2>4, NodeFields, PathIsSeq
  <2>6. left \subseteq Entries \cup LocalDirs \cup LocalDocs
    BY <1>1, JobFields
  <2>7. job' = [job EXCEPT !.pc = "close", !.child = p, !.node = id, !.left = left]
    BY <1>1, <2>1 DEF Jobs
  <2> HIDE DEF id, left
  <2>8. PutOn("close", left) /\ job'.child = p /\ job'.node = id
    BY <1>1, <2>5, <2>6, <2>7 DEF Jobs, JobPcs, PutOn
  <2> QED
    BY <1>1, <1>3, <2>1, <2>3, <2>4, <2>8 DEF p, id, left
<1>5. CASE ~(Writable(p) \/ MayCreate(p))
  BY <1>2, <1>5, LeaveOver
<1> QED
  BY <1>4, <1>5

(* What a close says of the node it commits.                               *)
Closed(q) == copy'[q] # None /\ copy'[q].data = {Content(q)'} /\ tree'[q] # None
             /\ tree'[q].id = tree[q].id /\ tree'[q].dir = tree[q].dir

LEMMA CloseDocIs ==
  ASSUME TransferInv, CloseDoc
  PROVE  /\ PutOn("local", job.left) /\ job.pc = "close" /\ UNCHANGED <<outside, rows>>
         /\ Grows(tree', fresh') /\ copy' \in [Paths -> Made \cup {None}]
         /\ \A q \in Paths : IF Exists(q) /\ tree[q].id = job.node THEN Closed(q)
                             ELSE tree'[q] = tree[q] /\ copy'[q] = copy[q]
<1>1. /\ job \in Jobs /\ job.op = "put" /\ job.pc = "close" /\ TreeInv /\ GoOn("local")
      /\ copy \in [Paths -> Made \cup {None}]
      /\ UNCHANGED <<fresh, outside, rows>>
  BY DEF CloseDoc, Doing, TransferInv, JobTypes
<1>2. tree' = WrittenNode(job.node)
  BY DEF CloseDoc
<1>3. PutOn("local", job.left)
  BY <1>1 DEF GoOn, Jobs, JobPcs, PutOn
<1>4. Grows(tree', fresh')
  BY <1>1, <1>2, CommittedIs
<1>5. ASSUME NEW q \in Paths
      PROVE  /\ copy'[q] \in Made \cup {None}
             /\ IF Exists(q) /\ tree[q].id = job.node THEN Closed(q)
                ELSE tree'[q] = tree[q] /\ copy'[q] = copy[q]
  <2>1. copy'[q] = IF tree'[q] # tree[q]
                   THEN [File EXCEPT !.data = {<<job.node, tree'[q].ver>>}] ELSE copy[q]
    BY DEF CloseDoc
  <2>2. CASE Exists(q) /\ tree[q].id = job.node
    <3>1. /\ tree'[q] # None /\ tree'[q].id = job.node /\ tree'[q].dir = tree[q].dir
          /\ tree'[q] # tree[q]
      BY <1>1, <1>2, <2>2, CommittedIs
    <3>2. copy'[q] = [File EXCEPT !.data = {<<job.node, tree'[q].ver>>}]
      BY <2>1, <3>1
    <3>3. job.node \in Nat /\ tree'[q].ver \in Nat
      BY <1>4, <2>2, <3>1, NodeFields DEF Grows
    <3>4. {<<job.node, tree'[q].ver>>} \in SUBSET (Nat \X Nat)
      BY <3>3
    <3>5. copy'[q] \in Made /\ copy'[q].data = {<<job.node, tree'[q].ver>>}
      BY <3>2, <3>4, FileIs DEF Made
    <3>6. Content(q)' = <<job.node, tree'[q].ver>>
      BY <3>1 DEF Content
    <3> QED
      BY <2>2, <3>1, <3>5, <3>6, MadeAssumption DEF Closed
  <2>3. CASE ~(Exists(q) /\ tree[q].id = job.node)
    <3>1. tree'[q] = tree[q]
      BY <1>1, <1>2, <2>3, CommittedIs
    <3>2. copy'[q] = copy[q] /\ copy[q] \in Made \cup {None}
      BY <1>1, <2>1, <3>1
    <3> QED
      BY <2>3, <3>1, <3>2
  <2> QED
    BY <2>2, <2>3
<1>6. copy' = [q \in Paths |-> copy'[q]]
  BY DEF CloseDoc
<1>7. copy' \in [Paths -> Made \cup {None}]
  BY <1>5, <1>6
<1> QED
  BY <1>1, <1>3, <1>4, <1>5, <1>7

LEMMA PutDoneIs ==
  ASSUME TransferInv, PutDone
  PROVE  PutOn("done", job.left) /\ job.pc = "local" /\ job.left = {} /\ copy' = copy /\ Quiet
<1>1. /\ job \in Jobs /\ job.op = "put" /\ job.pc = "local" /\ job.left = {} /\ GoOn("done")
      /\ UNCHANGED <<treeVars, copy, rows>>
  BY DEF PutDone, Doing, TransferInv, JobTypes
<1>2. PutOn("done", job.left)
  BY <1>1 DEF GoOn, Jobs, JobPcs, PutOn
<1> QED
  BY <1>1, <1>2 DEF Quiet, treeVars

(* A command that is mounted stays so while it goes on.                    *)
LEMMA GoingOn ==
  ASSUME TransferInv, job' \in Jobs, job'.pc \notin {"idle", "mount", "root"},
         job.pc \notin {"idle", "mount"}, job'.since = job.since,
         UNCHANGED <<outside, rows>>, copy' \in [Paths -> Made \cup {None}]
  PROVE  JobTypes' /\ Begun'
BY DEF TransferInv, JobTypes, Begun, Alive

Reader == GetRoot \/ List \/ Listed \/ Stat \/ Type \/ Open \/ ReadPiece \/ Meta \/ Stamp \/ Visit \/ GetDone

Putter == PutRoot \/ LookFor \/ Parents \/ MakeNext \/ LocalDir \/ LocalDoc \/ CloseDoc \/ PutDone

Launched ==
  \E op \in {"export", "get", "put"}, root \in Paths :
    Launch(op, root) /\ (op = "export" => root = Root) /\ (op # "export" => root \in Targets)

LEMMA Steps ==
  ASSUME TransferInv, TransferNext
  PROVE  Witness /\ (\/ Aside /\ Grows(tree', fresh')
                     \/ Over \/ Launched \/ Mount \/ Reader \/ Putter)
<1>1. Witness
  BY DEF TransferNext
<1>2. CASE Join \/ Quit \/ Session
  BY <1>1, <1>2, OthersAside
<1>3. CASE Die \/ MountRefused \/ Finish
  BY <1>1, <1>3, DieOver, LeaveOver DEF MountRefused, Finish
<1>4. CASE BeginExport
  <2>1. Launch("export", Root) /\ Root \in Paths
    BY <1>4, RootIsEmpty DEF BeginExport
  <2> QED
    BY <1>1, <2>1 DEF Launched
<1>5. ASSUME NEW p \in Targets, BeginPut(p) \/ BeginGet(p)
      PROVE  Launched
  <2>1. Launch("put", p) \/ Launch("get", p)
    BY <1>5 DEF BeginPut, BeginGet
  <2>2. p \in Paths
    BY TransferAssumption
  <2> QED
    BY <2>1, <2>2 DEF Launched
<1>6. CASE Mount \/ Reader \/ Putter
  BY <1>1, <1>6
<1> QED
  BY <1>1, <1>2, <1>3, <1>4, <1>5, <1>6 DEF TransferNext, Command, Reader, Putter

LEMMA ListedIs ==
  ASSUME TransferInv, Listed
  PROVE  /\ job.pc = "child" /\ job.left = {} /\ job.op \in {"export", "get"} /\ copy' = copy /\ Quiet
         /\ Becomes("list", job.todo, job.left, job.child, job.node, job.pruned)
<1>1. job.pc = "child" /\ job.left = {} /\ GoOn("list") /\ UNCHANGED <<treeVars, rows>> /\ copy' = copy
  BY DEF Listed
<1>2. job.op \in {"export", "get"}
  BY <1>1 DEF TransferInv, Phases
<1> QED
  BY <1>1, <1>2, GoOnIs DEF JobPcs

LEMMA GetDoneIs ==
  ASSUME TransferInv, GetDone
  PROVE  /\ job.pc = "list" /\ job.todo = <<>> /\ job.op = "get" /\ copy' = copy /\ Quiet
         /\ Becomes("done", job.todo, job.left, job.child, job.node, job.pruned)
<1>1. /\ job.pc = "list" /\ job.todo = <<>> /\ job.op = "get" /\ copy' = copy
      /\ GoOn("done") /\ UNCHANGED <<treeVars, rows>>
  BY DEF GetDone, Doing
<1> QED
  BY <1>1, GoOnIs DEF JobPcs

LEMMA ReaderKeeps ==
  ASSUME TransferInv, Reader
  PROVE  Over \/ (JobTypes' /\ Begun' /\ Phases' /\ Quiet /\ job'.op = job.op /\ job'.root = job.root)
<1> USE DEF Becomes, Quiet, TransferInv, Phases, JobTypes
<1>1. CASE GetRoot
  BY <1>1, GetRootIs, GoingOn
<1>2. CASE List
  <2>1. Over \/ /\ Becomes("child", Later, Listing(Upcoming), job.child, job.node, job.pruned)
                /\ copy' = copy /\ Quiet /\ job.pc = "list"
    BY <1>2, ListIs
  <2>2. CASE job.op \in {"export", "get"}
    <3>1. Listing(Upcoming) \subseteq Entries
      <4>1. \A q : IsDir(q) \in BOOLEAN
        BY DEF IsDir
      <4> QED
        BY <4>1 DEF Listing, Children, Entries
    <3> QED
      BY <2>1, <2>2, <3>1, GoingOn
  <2>3. job.pc = "list" => job.op \in {"export", "get"}
    OBVIOUS
  <2> QED
    BY <2>1, <2>2, <2>3
<1>3. CASE Listed
  BY <1>3, ListedIs, GoingOn
<1>4. CASE Stat
  <2>1. Over \/ \E c \in job.left :
                   /\ Becomes("type", job.todo, job.left \ {c}, c.path, Content(c.path), job.pruned)
                   /\ copy' = copy /\ Quiet /\ job.op = "export" /\ job.pc = "child"
                   /\ c \in Entries /\ Exists(c.path)
    BY <1>4, StatIs
  <2>2. ASSUME NEW c \in job.left,
               Becomes("type", job.todo, job.left \ {c}, c.path, Content(c.path), job.pruned),
               copy' = copy, Quiet, job.op = "export", job.pc = "child",
               c \in Entries, Exists(c.path)
        PROVE  JobTypes' /\ Begun' /\ Phases' /\ Quiet /\ job'.op = job.op /\ job'.root = job.root
    <3>1. c.path \in Paths
      BY <2>2 DEF Entries
    <3>2. Content(c.path) \in Nat \X Nat
      BY <2>2, <3>1, ContentIs DEF TreeInv
    <3>3. JobTypes' /\ Begun'
      BY <2>2, GoingOn
    <3> QED
      BY <2>2, <3>1, <3>2, <3>3
  <2> QED
    BY <2>1, <2>2
<1>5. CASE Type
  <2>1. job.node \in Contents
    BY <1>5, TypeIs DEF Contents
  <2>2. CASE copy' = copy /\ job'.pc = "open"
    BY <1>5, <2>2, TypeIs, GoingOn
  <2>3. CASE Make(job.child, [Folder EXCEPT !.seen = job.node])
    <3>1. copy' \in [Paths -> Made \cup {None}] /\ copy'[job.child] # None
      BY <1>5, <2>1, <2>3, TypeIs, FolderIs, MakeIs
    <3> QED
      BY <1>5, <3>1, TypeIs, GoingOn
  <2> QED
    BY <1>5, <2>2, <2>3, TypeIs
<1>6. CASE Open
  <2>1. CASE ~Over
    <3>1. job.node \in Contents /\ job.child \in Paths /\ tree[job.child].id \in Nat
      BY <1>6, <2>1, OpenIs, NodeFields DEF Contents, IsDoc, Exists, TreeInv
    <3>2. copy' \in [Paths -> Made \cup {None}] /\ copy'[job.child] # None
      BY <1>6, <2>1, <3>1, OpenIs, FileIs, MakeIs
    <3> QED
      BY <1>6, <2>1, <3>1, <3>2, OpenIs, GoingOn
  <2> QED
    BY <2>1
<1>7. CASE Meta
  BY <1>7, MetaIs, GoingOn DEF Retouched
<1>8. CASE Stamp
  BY <1>8, StampIs, GoingOn DEF Retouched
<1>9. CASE Visit
  <2>1. CASE ~Over
    <3>1. PICK c \in job.left, pc \in {"child", "copy"}, child \in Seq(Names), node \in Nat \cup Contents :
            Visited(c, pc, child, node)
      BY <1>9, <2>1, VisitIs
    <3>2. c.path \in Paths /\ c \in Entries
      BY <3>1 DEF Entries, Visited
    <3>3. copy' \in [Paths -> Made \cup {None}] /\ (pc = "copy" => copy'[c.path] # None)
      BY <3>1, <3>2, FileIs, FolderIs, MakeIs DEF Visited
    <3>4. JobTypes' /\ Begun'
      BY <3>1, <3>3, GoingOn DEF Visited
    <3>5. pc = "copy" => child \in Paths /\ node \in Nat
      BY <3>1, <3>2, NodeFields DEF Visited, IsDoc, Exists, TreeInv
    <3> QED
      BY <3>1, <3>3, <3>4, <3>5 DEF Visited
  <2> QED
    BY <2>1
<1>10. CASE GetDone
  BY <1>10, GetDoneIs, GoingOn
<1>11. CASE ReadPiece
  <2>1. copy'[job.child] # None
    BY <1>11, ReadPieceIs, MadeAssumption
  <2> QED
    BY <1>11, <2>1, ReadPieceIs, GoingOn
<1> QED
  BY <1>1, <1>2, <1>3, <1>4, <1>5, <1>6, <1>7, <1>8, <1>9, <1>10, <1>11 DEF Reader

LEMMA PutterKeeps ==
  ASSUME TransferInv, Putter
  PROVE  Over \/ (JobTypes' /\ Begun' /\ Phases' /\ Grows(tree', fresh') /\ (Alive' <=> Alive)
                  /\ job.op = "put" /\ job'.op = "put" /\ job.pc \notin {"idle", "mount"})
<1>0. Quiet => Grows(tree', fresh') /\ UNCHANGED <<outside, rows>>
  BY TreeStays DEF Quiet, TransferInv
<1>1. ASSUME NEW pc \in {"look", "local", "parents", "make", "close", "done"}, NEW left, PutOn(pc, left),
             UNCHANGED <<outside, rows>>, copy' \in [Paths -> Made \cup {None}], Grows(tree', fresh'),
             left \subseteq LocalDirs \cup LocalDocs
      PROVE  JobTypes' /\ Begun' /\ Phases' /\ Grows(tree', fresh') /\ (Alive' <=> Alive)
             /\ job.op = "put" /\ job'.op = "put" /\ job.pc \notin {"idle", "mount"}
  <2>1. JobTypes' /\ Begun'
    BY <1>1, GoingOn DEF PutOn
  <2>2. Room(job.root)
    BY <1>1 DEF PutOn, TransferInv, Phases
  <2>3. Phases'
    BY <1>1, <2>2 DEF PutOn, Phases, Room
  <2> QED
    BY <1>1, <2>1, <2>3 DEF PutOn, Alive
<1>2. copy \in [Paths -> Made \cup {None}] /\ (job.op = "put" => job.left \subseteq LocalDirs \cup LocalDocs)
  BY DEF TransferInv, JobTypes, Phases
<1>3. CASE PutRoot
  <2>1. CASE ~Over
    <3>1. /\ job.op = "put" /\ job.pc = "root" /\ copy' = copy /\ Quiet
          /\ job' \in Jobs /\ job'.op = "put" /\ job'.pc = "look"
          /\ job'.since = job.since /\ job'.left = LocalDirs \cup LocalDocs
          /\ Room(job'.root)
      BY <1>3, <2>1, PutRootIs
    <3>2. JobTypes' /\ Begun'
      BY <1>2, <3>1, GoingOn DEF Quiet
    <3>3. Phases'
      BY <3>1 DEF Phases, Room
    <3> QED
      BY <1>0, <3>1, <3>2, <3>3 DEF Alive
  <2> QED
    BY <2>1
<1>4. CASE LookFor
  BY <1>0, <1>1, <1>2, <1>4, LookForIs DEF PutOn
<1>5. CASE Parents
  BY <1>0, <1>1, <1>2, <1>5, ParentsIs DEF PutOn
<1>6. CASE MakeNext
  BY <1>1, <1>2, <1>6, MakeNextIs DEF PutOn
<1>7. CASE LocalDir
  <2>1. PICK c \in LocalDirs : PutOn("look", job.left \ {c}) /\ copy' = copy /\ Quiet
    BY <1>7, LocalDirIs
  <2>2. job.left \ {c} \subseteq LocalDirs \cup LocalDocs
    BY <1>2, <2>1 DEF PutOn
  <2> QED
    BY <1>0, <1>1, <1>2, <2>1, <2>2
<1>8. CASE LocalDoc
  <2>1. CASE ~Over
    <3>1. PICK c \in LocalDocs : PutOn("close", job.left \ {c}) /\ copy' = copy
                                 /\ UNCHANGED <<outside, rows>> /\ Grows(tree', fresh')
      BY <1>8, <2>1, LocalDocIs
    <3>2. job.left \ {c} \subseteq LocalDirs \cup LocalDocs
      BY <1>2, <3>1 DEF PutOn
    <3> QED
      BY <1>1, <1>2, <3>1, <3>2
  <2> QED
    BY <2>1
<1>9. CASE CloseDoc
  BY <1>1, <1>2, <1>9, CloseDocIs DEF PutOn
<1>10. CASE PutDone
  BY <1>0, <1>1, <1>2, <1>10, PutDoneIs DEF PutOn
<1> QED
  BY <1>3, <1>4, <1>5, <1>6, <1>7, <1>8, <1>9, <1>10 DEF Putter

LEMMA OverKeeps ==
  ASSUME TransferInv, Over
  PROVE  JobTypes' /\ Begun' /\ Phases' /\ Grows(tree', fresh')
<1>1. Grows(tree', fresh')
  BY TreeStays DEF Over, TransferInv
<1>2. job'.left = {} /\ job'.op = None /\ job'.pc = "idle" /\ job'.since = 0 /\ job' \in Jobs
  BY IdleIs DEF Over
<1>3. JobTypes' /\ Begun'
  BY <1>2 DEF Over, TransferInv, JobTypes, Begun
<1>4. Phases'
  BY <1>2 DEF Phases
<1> QED
  BY <1>1, <1>3, <1>4

LEMMA AsideKeeps ==
  ASSUME TransferInv, Aside
  PROVE  JobTypes' /\ Begun' /\ Phases'
<1>1. job.since \in Nat /\ outside \in Nat /\ job.since <= outside'
  <2>1. job.since \in Nat /\ outside \in Nat /\ job.since <= outside /\ outside <= outside' /\ outside' \in Nat
    BY JobFields DEF TransferInv, JobTypes, Begun, Aside
  <2> QED
    BY <2>1
<1> QED
  BY <1>1 DEF TransferInv, JobTypes, Begun, Phases, Aside, Room

LEMMA BeginningKeeps ==
  ASSUME TransferInv, Launched \/ Mount
  PROVE  JobTypes' /\ Begun' /\ Phases' /\ Grows(tree', fresh')
<1>1. Nothing \in [Paths -> Made \cup {None}]
  BY DEF Nothing
<1>2. CASE Launched
  <2>1. PICK op \in {"export", "get", "put"}, root \in Paths :
          Launch(op, root) /\ (op = "export" => root = Root) /\ (op # "export" => root \in Targets)
    BY <1>2 DEF Launched
  <2>2. /\ job' \in Jobs /\ job'.op = op /\ job'.pc = "mount" /\ job'.root = root
        /\ job'.since = outside /\ job'.todo = <<>> /\ job'.left = {} /\ job'.pruned = {}
        /\ copy' = Nothing /\ UNCHANGED <<tree, fresh, outside, rows>> /\ ~Alive
    BY <2>1, LaunchIs
  <2>3. outside \in Nat
    BY DEF TransferInv, JobTypes
  <2>4. JobTypes'
    BY <1>1, <2>2, <2>3 DEF JobTypes
  <2>5. Begun'
    BY <2>1, <2>2, <2>3 DEF Begun, Alive
  <2>6. Phases'
    BY <2>1, <2>2 DEF Phases
  <2>7. Grows(tree', fresh')
    BY <2>2, TreeStays DEF TransferInv
  <2> QED
    BY <2>4, <2>5, <2>6, <2>7
<1>3. CASE Mount
  <2>1. /\ job' \in Jobs /\ job'.op = job.op /\ job'.root = job.root /\ job'.since = job.since
        /\ job'.pc = IF job.op = "export" THEN "list" ELSE "root"
        /\ job'.todo = IF job.op = "export" THEN <<Root>> ELSE <<>>
        /\ job'.left = {} /\ job'.pruned = {}
        /\ job.pc = "mount" /\ copy' = Nothing /\ UNCHANGED <<tree, fresh, outside>> /\ Alive'
    BY <1>3, MountIs DEF Becomes
  <2>2. JobTypes'
    BY <1>1, <2>1 DEF JobTypes, TransferInv
  <2>3. Begun'
    BY <2>1 DEF TransferInv, Begun
  <2>4. Phases'
    BY <2>1 DEF TransferInv, Phases
  <2>5. Grows(tree', fresh')
    BY <2>1, TreeStays DEF TransferInv
  <2> QED
    BY <2>2, <2>3, <2>4, <2>5
<1> QED
  BY <1>2, <1>3

LEMMA TransferStep ==
  ASSUME TransferInv, TransferNext
  PROVE  TransferInv' /\ Grows(tree', fresh')
<1>1. JobTypes' /\ Begun' /\ Phases' /\ Grows(tree', fresh')
  <2>1. CASE Aside /\ Grows(tree', fresh')
    BY <2>1, AsideKeeps
  <2>2. CASE Over
    BY <2>2, OverKeeps
  <2>3. CASE Launched \/ Mount
    BY <2>3, BeginningKeeps
  <2>4. CASE Reader
    <3>1. Quiet => Grows(tree', fresh')
      BY TreeStays DEF Quiet, TransferInv
    <3> QED
      BY <2>2, <2>4, <3>1, ReaderKeeps
  <2>5. CASE Putter
    BY <2>2, <2>5, PutterKeeps
  <2> QED
    BY <2>1, <2>2, <2>3, <2>4, <2>5, Steps
<1>2. Witness
  BY Steps
<1>3. TreeInv' /\ WasInv'
  BY <1>1, <1>2, GrownKept, WasKept DEF TransferInv
<1> QED
  BY <1>1, <1>3 DEF TransferInv

LEMMA TransferStutter ==
  ASSUME TransferInv, UNCHANGED transferVars
  PROVE  TransferInv'
<1>1. UNCHANGED <<tree, fresh, outside, job, copy, rows, was>>
  BY DEF transferVars, treeVars, ownVars
<1>2. TreeInv'
  BY <1>1 DEF TransferInv, TreeInv
<1>3. JobTypes' /\ Begun' /\ Phases'
  BY <1>1, AsideKeeps DEF Aside, Alive, TransferInv, JobTypes
<1>4. WasInv'
  BY <1>1 DEF TransferInv, WasInv, Past, Alive
<1> QED
  BY <1>2, <1>3, <1>4 DEF TransferInv

LEMMA TransferStart ==
  ASSUME TransferInit
  PROVE  TransferInv
<1>1. /\ job = Idle /\ copy = Nothing /\ rows = {} /\ was = {} /\ outside = 0 /\ TreeInit
  BY DEF TransferInit, TreeInit
<1>2. TreeInv
  BY <1>1, StartGrown
<1>3. JobTypes
  BY <1>1, IdleIs DEF JobTypes, Nothing
<1>4. Begun /\ Phases
  BY <1>1, IdleIs DEF Begun, Phases, Alive
<1>5. WasInv
  BY <1>1 DEF WasInv, Alive
<1> QED
  BY <1>2, <1>3, <1>4, <1>5 DEF TransferInv

LEMMA TransferSteady == TransferSpec => []TransferInv
<1>1. TransferInit => TransferInv
  BY TransferStart
<1>2. TransferInv /\ [TransferNext]_transferVars => TransferInv'
  BY TransferStep, TransferStutter
<1> QED
  BY <1>1, <1>2, PTL DEF TransferSpec

---------------------------------------------------------------------------
(* What a command that reads goes by was there                             *)

Strictly(p) == Within(p, job.root) /\ p # job.root

Copyable(p) == job.op = "get" => Inside(p)

(* A name the walk may list: in the source, and inside or known not to be. *)
Reached(q) == q \in Paths /\ Within(q, job.root) /\ (job.op = "get" => Inside(q) \/ q \in job.pruned)

WasThere(p, dir) == \E t \in was : t[p] # None /\ t[p].dir = dir

WasCopied(p) ==
  \E t \in was : /\ t[p] # None /\ t[p].dir = copy[p].dir
                 /\ \A d \in copy[p].data : d[1] = t[p].id /\ HadContent(d)

(* A file that is being copied is the node that was opened under its name. *)
Copying ==
  job.pc = "copy" =>
    /\ ~copy[job.child].dir
    /\ \A d \in copy[job.child].data : d[1] = job.node
    /\ \E t \in was : t[job.child] # None /\ ~t[job.child].dir /\ t[job.child].id = job.node

Honest ==
  /\ job.root \in Paths /\ (job.op = "export" => job.root = Root)
  /\ \A q : Among(q, job.todo) => Reached(q)
  /\ \A c \in job.left : Strictly(c.path) /\ Reached(Parent(c.path)) /\ WasThere(c.path, c.dir)
  /\ \A q \in job.pruned : Within(q, job.root) /\ ~Inside(q)
  /\ \A p \in Paths : copy[p] # None => Copyable(p) /\ WasCopied(p)
  /\ Copying

HonestInv == Reads => Honest

(* A path is inside as far as its parent and its last name are.            *)
LEMMA InsideParent ==
  ASSUME job.root \in Paths, NEW p \in Paths, Strictly(p)
  PROVE  /\ p # Root /\ Parent(p) \in Paths /\ Within(Parent(p), job.root)
         /\ Inside(p) <=> Inside(Parent(p)) /\ p[Len(p)] \notin Unsafe
<1>1. p # Root /\ Within(Parent(p), job.root)
  BY AboveParent DEF Strictly
<1>2. /\ Parent(p) \in Paths /\ Len(Parent(p)) = Len(p) - 1
      /\ \A i \in 1..Len(p) - 1 : Parent(p)[i] = p[i]
  <2>1. p \in Seq(Names) /\ Len(p) \in Nat /\ Len(p) # 0
    BY <1>1, PathIsSeq, EmptySeq DEF Root
  <2>2. Len(p) - 1 \in 0..Len(p)
    BY <2>1
  <2> QED
    BY <1>1, <2>1, <2>2, ParentAbove, Beginning DEF Parent
<1>3. Len(job.root) \in Nat /\ Len(p) \in Nat /\ Len(job.root) < Len(p)
  BY PathIsSeq, WithinShorter DEF Strictly
<1>4. \A i : i \in Len(job.root) + 1 .. Len(p) <=> i = Len(p) \/ i \in Len(job.root) + 1 .. Len(Parent(p))
  BY <1>2, <1>3
<1>5. \A i \in Len(job.root) + 1 .. Len(Parent(p)) : Parent(p)[i] = p[i]
  BY <1>2, <1>3
<1> QED
  BY <1>1, <1>2, <1>4, <1>5 DEF Inside

(* What was said of names stays said while the command goes on.            *)
LEMMA Carries ==
  ASSUME job'.op = job.op, job'.root = job.root, was \subseteq was', job.pruned \subseteq job'.pruned
  PROVE  /\ \A q : Inside(q)' <=> Inside(q)
         /\ \A q : Reached(q) => Reached(q)'
         /\ \A q : Strictly(q)' <=> Strictly(q)
         /\ \A q : Copyable(q)' <=> Copyable(q)
         /\ \A q, dir : WasThere(q, dir) => WasThere(q, dir)'
         /\ \A d : HadContent(d) => HadContent(d)'
         /\ \A q : copy'[q] = copy[q] /\ WasCopied(q) => WasCopied(q)'
<1>1. \A q : Inside(q)' <=> Inside(q)
  BY DEF Inside
<1>2. \A d : HadContent(d) => HadContent(d)'
  BY DEF HadContent
<1>3. \A q : copy'[q] = copy[q] /\ WasCopied(q) => WasCopied(q)'
  BY <1>2 DEF WasCopied
<1> QED
  BY <1>1, <1>2, <1>3 DEF Reached, Strictly, Copyable, WasThere

LEMMA WasGrows ==
  ASSUME TransferInv, Witness, Alive, Alive'
  PROVE  was \subseteq was' /\ tree \in was /\ tree' \in was'
BY DEF TransferInv, WasInv, Witness, Alive

(* What is listed is below what is listed, and as the listing says.        *)
LEMMA ListingIs ==
  ASSUME NEW u \in Paths
  PROVE  \A c : c \in Listing(u) <=> \E q \in Paths : /\ q # Root /\ Parent(q) = u /\ Exists(q)
                                                      /\ c = [path |-> q, dir |-> IsDir(q)]
BY DEF Listing, Children

LEMMA RootAbove ==
  ASSUME NEW p \in Paths
  PROVE  Within(p, Root)
BY PathIsSeq, RootIsEmpty DEF Within

LEMMA ChildIsBelow ==
  ASSUME NEW q \in Paths, q # Root, NEW r \in Paths, Within(Parent(q), r)
  PROVE  Within(q, r) /\ q # r
<1>1. Parent(q) \in Paths /\ Within(q, Parent(q)) /\ q # Parent(q)
  BY ParentAbove
<1>2. q \in Seq(Names) /\ Parent(q) \in Seq(Names) /\ r \in Seq(Names)
  BY <1>1, PathIsSeq
<1>3. Within(q, r)
  BY <1>1, <1>2, WithinTransitive
<1>4. q # r
  BY <1>1, <1>2, WithinAntisymmetric
<1> QED
  BY <1>3, <1>4

(* A file that is opened now is of the node that is there.                 *)
LEMMA FileOpened ==
  ASSUME TransferInv, tree' = tree, tree' \in was', NEW p \in Paths, IsDoc(p),
         ~copy'[p].dir, copy'[p] \in Made, copy'[p].data = {},
         job'.child = p, job'.node = tree[p].id
  PROVE  WasCopied(p)' /\ Copying'
<1>1. tree[p] # None /\ ~tree[p].dir /\ tree[p].dir \in BOOLEAN /\ copy'[p].dir \in BOOLEAN
  BY NodeFields DEF IsDoc, Exists, TransferInv, TreeInv, Made
<1>2. WasCopied(p)'
  BY <1>1 DEF WasCopied
<1>3. Copying'
  BY <1>1 DEF Copying
<1> QED
  BY <1>2, <1>3

LEMMA ReaderIs ==
  ASSUME TransferInv, Reader
  PROVE  Reads
<1>1. CASE GetRoot \/ Visit \/ GetDone
  <2>1. job.op = "get" /\ (job.pc = "root" \/ job.pc = "child" \/ job.pc = "list")
    <3>1. CASE GetRoot
      BY <3>1 DEF GetRoot, Doing
    <3>2. CASE Visit
      <4>1. Doing("get", "child")
        BY <3>2, Zenon DEF Visit
      <4> QED
        BY <4>1 DEF Doing
    <3>3. CASE GetDone
      BY <3>3 DEF GetDone, Doing
    <3> QED
      BY <1>1, <3>1, <3>2, <3>3
  <2> QED
    BY <2>1 DEF Reads
<1>2. CASE Stat \/ Type \/ Open
  <2>1. job.op = "export" /\ job.pc \in {"child", "type", "open"}
    BY <1>2 DEF Stat, Type, Open, Doing
  <2> QED
    BY <2>1 DEF Reads
<1>3. CASE Meta \/ Stamp
  <2>1. job.op = "export" /\ job.pc \in {"meta", "list"}
    BY <1>3 DEF Meta, Stamp, Doing
  <2> QED
    BY <2>1 DEF Reads
<1>4. CASE List \/ Listed \/ ReadPiece
  <2>1. job.pc \in {"list", "child", "copy"}
    BY <1>4 DEF List, Listed, ReadPiece
  <2> QED
    BY <2>1 DEF TransferInv, Phases, Reads
<1> QED
  BY <1>1, <1>2, <1>3, <1>4 DEF Reader

(* get -r skips what would lead out, and only that.                        *)
LEMMA SkippedIs ==
  ASSUME TransferInv, Honest, job.op = "get", NEW c \in job.left, c.path \in Paths
  PROVE  Skipped(c.path) <=> ~Inside(c.path)
<1> DEFINE p == c.path
<1>1. job.root \in Paths /\ Strictly(p) /\ Reached(Parent(p))
  BY DEF Honest
<1>2. Skipped(p) <=> p[Len(p)] \in Unsafe \/ Parent(p) \in job.pruned
  BY DEF Skipped
<1> HIDE DEF p
<1>3. Skipped(p) <=> ~Inside(p)
  BY <1>1, <1>2, InsideParent DEF Reached, Honest, p
<1> QED
  BY <1>3 DEF p

LEMMA ReaderHonest ==
  ASSUME TransferInv, Honest, Reads, Witness, Reader, ~Over
  PROVE  Honest'
<1>1. /\ JobTypes' /\ Begun' /\ Phases' /\ Quiet /\ job'.op = job.op /\ job'.root = job.root
      /\ Alive /\ Alive'
  <2>1. JobTypes' /\ Begun' /\ Phases' /\ Quiet /\ job'.op = job.op /\ job'.root = job.root
    BY ReaderKeeps
  <2>2. Alive
    BY DEF Reads, TransferInv, Begun
  <2> QED
    BY <2>1, <2>2 DEF Quiet, Alive
<1>2. was \subseteq was' /\ tree \in was /\ tree' \in was' /\ tree' = tree
  BY <1>1, WasGrows DEF Quiet
<1>3. job.root \in Paths /\ job \in Jobs
  BY DEF Honest, TransferInv, JobTypes
<1>4. job'.root \in Paths /\ (job'.op = "export" => job'.root = Root)
  BY <1>1, <1>3 DEF Honest
(* The steps that make nothing. *)
<1>5. ASSUME job.pruned = job'.pruned, copy' = copy, job'.pc # "copy",
             \A q : Among(q, job'.todo) => Reached(q),
             \A c \in job'.left : Strictly(c.path) /\ Reached(Parent(c.path)) /\ WasThere(c.path, c.dir)
      PROVE  Honest'
  <2>1. \A q \in job'.pruned : Within(q, job'.root) /\ ~Inside(q)'
    BY <1>1, <1>2, <1>5, Carries DEF Honest
  <2>2. \A p \in Paths : copy'[p] # None => Copyable(p)' /\ WasCopied(p)'
    BY <1>1, <1>2, <1>5, Carries DEF Honest
  <2>3. \A q : Among(q, job'.todo) => Reached(q)'
    BY <1>1, <1>2, <1>5, Carries
  <2>4. \A c \in job'.left : Strictly(c.path)' /\ Reached(Parent(c.path))' /\ WasThere(c.path, c.dir)'
    BY <1>1, <1>2, <1>5, Carries
  <2>5. Copying'
    BY <1>5 DEF Copying
  <2> QED
    BY <1>4, <2>1, <2>2, <2>3, <2>4, <2>5 DEF Honest, Among
(* The steps that make one thing. *)
<1>6. ASSUME job.pruned \subseteq job'.pruned, \A q \in job'.pruned : Within(q, job.root) /\ ~Inside(q),
             NEW p \in Paths, Copyable(p), WasCopied(p)', Copying',
             \A q \in Paths \ {p} : copy'[q] = copy[q],
             \A q : Among(q, job'.todo) => Reached(q) \/ Reached(q)',
             job'.left \subseteq job.left
      PROVE  Honest'
  <2>1. \A q \in job'.pruned : Within(q, job'.root) /\ ~Inside(q)'
    BY <1>1, <1>2, <1>6, Carries
  <2>2. \A q \in Paths : copy'[q] # None => Copyable(q)' /\ WasCopied(q)'
    <3>1. Copyable(p)' /\ WasCopied(p)'
      BY <1>1, <1>2, <1>6, Carries
    <3>2. \A q \in Paths \ {p} : copy'[q] # None => Copyable(q)' /\ WasCopied(q)'
      BY <1>1, <1>2, <1>6, Carries DEF Honest
    <3> QED
      BY <3>1, <3>2
  <2>3. \A q : Among(q, job'.todo) => Reached(q)'
    BY <1>1, <1>2, <1>6, Carries
  <2>4. \A c \in job'.left : Strictly(c.path)' /\ Reached(Parent(c.path))' /\ WasThere(c.path, c.dir)'
    BY <1>1, <1>2, <1>6, Carries DEF Honest
  <2> QED
    BY <1>4, <1>6, <2>1, <2>2, <2>3, <2>4 DEF Honest, Among
<1>7. CASE GetRoot
  <2>1. Becomes("list", <<job.root>>, {}, job.child, job.node, {}) /\ copy' = copy /\ job.pc = "root"
    BY <1>7, GetRootIs
  <2>2. job.pruned = {}
    BY <2>1 DEF TransferInv, Begun
  <2>3. \A q : Among(q, <<job.root>>) => q = job.root
    BY DEF Among
  <2>4. Reached(job.root)
    <3>1. job.root \in Seq(Names) /\ Len(job.root) \in Nat
      BY <1>3, PathIsSeq
    <3>2. Within(job.root, job.root)
      BY <3>1, WithinItself
    <3>3. Inside(job.root)
      BY <3>1 DEF Inside
    <3> QED
      BY <1>3, <3>2, <3>3 DEF Reached
  <2> QED
    BY <1>5, <2>1, <2>2, <2>3, <2>4 DEF Becomes
<1>8. CASE List
  <2> DEFINE u == Upcoming
  <2>1. /\ Becomes("child", Later, Listing(u), job.child, job.node, job.pruned)
        /\ copy' = copy /\ job.todo # <<>>
    BY <1>8, ListIs
  <2>2. u \in Paths /\ \A q : Among(q, job.todo) <=> q = u \/ Among(q, Later)
    BY <1>3, <2>1, UpcomingIs
  <2> HIDE DEF u
  <2>3. Reached(u) /\ \A q : Among(q, Later) => Reached(q)
    BY <2>2 DEF Honest
  <2>4. \A c \in Listing(u) : Strictly(c.path) /\ Reached(Parent(c.path)) /\ WasThere(c.path, c.dir)
    <3> SUFFICES ASSUME NEW c \in Listing(u)
                 PROVE  Strictly(c.path) /\ Reached(Parent(c.path)) /\ WasThere(c.path, c.dir)
      OBVIOUS
    <3>1. PICK q \in Paths : /\ q # Root /\ Parent(q) = u /\ Exists(q)
                             /\ c = [path |-> q, dir |-> IsDir(q)]
      BY <2>2, ListingIs
    <3>2. c.path = q /\ c.dir = IsDir(q)
      BY <3>1
    <3>3. Strictly(q)
      BY <1>3, <2>3, <3>1, ChildIsBelow DEF Strictly, Reached
    <3>4. IsDir(q) = tree[q].dir /\ tree[q] # None
      <4>1. tree[q].dir \in BOOLEAN
        BY <3>1, NodeFields DEF TransferInv, TreeInv, Exists
      <4> QED
        BY <3>1, <4>1 DEF IsDir, Exists
    <3>5. WasThere(q, c.dir)
      BY <1>2, <3>2, <3>4 DEF WasThere
    <3> QED
      BY <2>3, <3>1, <3>2, <3>3, <3>5
  <2> QED
    BY <1>5, <2>1, <2>3, <2>4 DEF Becomes
<1>9. CASE Listed
  BY <1>5, <1>9, ListedIs DEF Becomes, Honest
<1>10. CASE GetDone
  BY <1>5, <1>10, GetDoneIs DEF Becomes, Honest
<1>11. CASE Stat
  <2>1. PICK c \in job.left :
          /\ Becomes("type", job.todo, job.left \ {c}, c.path, Content(c.path), job.pruned)
          /\ copy' = copy
    BY <1>11, StatIs
  <2> QED
    BY <1>5, <2>1 DEF Becomes, Honest
<1>12. CASE Type
  <2>1. CASE copy' = copy /\ job'.pc = "open"
    BY <1>5, <1>12, <2>1, TypeIs DEF Becomes, Honest
  <2>2. CASE IsDir(job.child) /\ Make(job.child, [Folder EXCEPT !.seen = job.node])
             /\ Becomes("meta", Append(job.todo, job.child), job.left, job.child, job.node, job.pruned)
    <3>0. job.child \in Paths
      BY <1>12, TypeIs
    <3> PICK p \in Paths : p = job.child
      BY <3>0
    <3> DEFINE thing == [Folder EXCEPT !.seen = job.node]
    <3>1. p \in Paths /\ job.op = "export" /\ job.node \in Contents
      BY <1>12, TypeIs DEF Contents
    <3>2. thing \in Made /\ thing.dir /\ thing.data = {}
      BY <3>1, FolderIs
    <3>3. Make(p, thing)
      BY <2>2
    <3> HIDE DEF thing
    <3>4. copy'[p] = thing /\ \A q \in Paths \ {p} : copy'[q] = copy[q]
      BY <3>1, <3>2, <3>3, MakeIs DEF TransferInv
    <3>5. tree[p] # None /\ tree[p].dir
      BY <2>2 DEF IsDir, Exists
    <3>6. WasCopied(p)'
      <4>1. tree[p].dir \in BOOLEAN /\ thing.dir \in BOOLEAN
        BY <3>1, <3>2, <3>5, NodeFields DEF TransferInv, TreeInv, Made
      <4>2. tree[p].dir = copy'[p].dir /\ copy'[p].data = {}
        BY <3>2, <3>4, <3>5, <4>1
      <4> QED
        BY <1>2, <3>5, <4>2 DEF WasCopied
    <3>7. Reached(p)
      <4>1. job.root = Root
        BY <3>1 DEF Honest
      <4> QED
        BY <3>1, <4>1, RootAbove DEF Reached
    <3>8. \A q : Among(q, Append(job.todo, p)) => q = p \/ Among(q, job.todo)
      BY <1>3, <3>1, JobFields, AmongAppended
    <3>9. \A q : Among(q, job'.todo) => Reached(q)
      BY <2>2, <3>7, <3>8 DEF Becomes, Honest
    <3>10. Copyable(p)
      BY <3>1 DEF Copyable
    <3>11. Copying'
      BY <2>2 DEF Copying, Becomes
    <3> QED
      BY <1>6, <2>2, <3>1, <3>4, <3>6, <3>9, <3>10, <3>11 DEF Becomes, Honest
  <2> QED
    BY <1>12, <2>1, <2>2, TypeIs DEF Becomes
<1>13. CASE Open
  <2>0. job.child \in Paths
    BY <1>13, OpenIs
  <2> PICK p \in Paths : p = job.child
    BY <2>0
  <2> DEFINE thing == [File EXCEPT !.seen = job.node]
  <2>1. /\ p \in Paths /\ job.op = "export" /\ job.node \in Contents /\ IsDoc(p) /\ Make(p, thing)
        /\ Becomes("copy", job.todo, job.left, p, tree[p].id, job.pruned)
    BY <1>13, OpenIs DEF Contents
  <2>2. thing \in Made /\ ~thing.dir /\ thing.data = {}
    BY <2>1, FileIs
  <2> HIDE DEF thing
  <2>3. copy'[p] = thing /\ \A q \in Paths \ {p} : copy'[q] = copy[q]
    BY <2>1, <2>2, MakeIs DEF TransferInv
  <2>4. WasCopied(p)' /\ Copying'
    BY <1>2, <2>1, <2>2, <2>3, FileOpened DEF Becomes
  <2>5. Copyable(p)
    BY <2>1 DEF Copyable
  <2> QED
    BY <1>6, <2>1, <2>3, <2>4, <2>5 DEF Becomes, Honest
<1>14. CASE Meta \/ Stamp
  <2>1. /\ \E pc \in {"child", "done"} : Becomes(pc, job.todo, job.left, job.child, job.node, job.pruned)
        /\ Retouched(job.child)
    BY <1>14, MetaIs, StampIs
  <2>2. \A q \in Paths : copy'[q] # None => Copyable(q)' /\ WasCopied(q)'
    <3> SUFFICES ASSUME NEW q \in Paths, copy'[q] # None PROVE Copyable(q)' /\ WasCopied(q)'
      OBVIOUS
    <3>1. copy[q] # None /\ copy'[q].dir = copy[q].dir /\ copy'[q].data = copy[q].data
      BY <2>1 DEF Retouched
    <3>2. Copyable(q) /\ WasCopied(q)
      BY <3>1 DEF Honest
    <3>3. WasCopied(q)' /\ (Copyable(q)' <=> Copyable(q))
      <4>1. \A d : HadContent(d) => HadContent(d)'
        BY <1>2 DEF HadContent
      <4>2. WasCopied(q)'
        BY <1>2, <3>1, <3>2, <4>1 DEF WasCopied
      <4> QED
        BY <1>1, <1>2, <2>1, <4>2, Carries DEF Becomes
    <3> QED
      BY <3>2, <3>3
  <2>3. \A q \in job'.pruned : Within(q, job'.root) /\ ~Inside(q)'
    BY <1>1, <1>2, <2>1, Carries DEF Honest, Becomes
  <2>4. \A q : Among(q, job'.todo) => Reached(q)'
    BY <1>1, <1>2, <2>1, Carries DEF Honest, Becomes
  <2>5. \A c \in job'.left : Strictly(c.path)' /\ Reached(Parent(c.path))' /\ WasThere(c.path, c.dir)'
    BY <1>1, <1>2, <2>1, Carries DEF Honest, Becomes
  <2>6. Copying'
    BY <2>1 DEF Copying, Becomes
  <2> QED
    BY <1>4, <2>2, <2>3, <2>4, <2>5, <2>6 DEF Honest, Among
<1>15. CASE Visit
  <2>1. PICK c \in job.left, pc \in {"child", "copy"}, child \in Seq(Names), node \in Nat \cup Contents :
          Visited(c, pc, child, node)
    BY <1>15, VisitIs
  <2> DEFINE p == c.path
  <2>2. p \in Paths /\ c.dir \in BOOLEAN
    BY <2>1 DEF Entries, Visited
  <2>3. Strictly(p) /\ Reached(Parent(p)) /\ WasThere(p, c.dir)
    BY DEF Honest
  <2>5. Skipped(p) <=> ~Inside(p)
    BY <2>1, <2>2, SkippedIs DEF Visited
  <2> HIDE DEF p
  <2>6. Within(p, job.root)
    BY <2>3 DEF Strictly
  <2>7. /\ job.pruned \subseteq job'.pruned /\ job'.left \subseteq job.left
        /\ job'.pruned = IF c.dir /\ Skipped(p) THEN job.pruned \cup {p} ELSE job.pruned
        /\ job'.todo = IF c.dir THEN Append(job.todo, p) ELSE job.todo
        /\ job'.pc = pc /\ job'.child = child /\ job'.node = node
    BY <2>1 DEF Visited, Becomes, p
  <2>8. \A q \in job'.pruned : Within(q, job.root) /\ ~Inside(q)
    BY <2>5, <2>6, <2>7 DEF Honest
  <2>9. \A q : Among(q, job'.todo) => Reached(q) \/ Reached(q)'
    <3>1. \A q : Among(q, Append(job.todo, p)) => q = p \/ Among(q, job.todo)
      BY <1>3, <2>2, JobFields, AmongAppended
    <3>2. c.dir => Reached(p)'
      <4>1. Inside(p)' <=> Inside(p)
        BY <1>1, <1>2, <2>7, Carries
      <4> QED
        BY <1>1, <2>2, <2>5, <2>6, <2>7, <4>1 DEF Reached
    <3> QED
      BY <2>7, <3>1, <3>2 DEF Honest
  <2>10. CASE copy' = copy /\ pc = "child"
    <3>1. \A q \in job'.pruned : Within(q, job'.root) /\ ~Inside(q)'
      BY <1>1, <1>2, <2>7, <2>8, Carries
    <3>2. \A q \in Paths : copy'[q] # None => Copyable(q)' /\ WasCopied(q)'
      BY <1>1, <1>2, <2>7, <2>10, Carries DEF Honest
    <3>3. \A q : Among(q, job'.todo) => Reached(q)'
      BY <1>1, <1>2, <2>7, <2>9, Carries
    <3>4. \A d \in job'.left : Strictly(d.path)' /\ Reached(Parent(d.path))' /\ WasThere(d.path, d.dir)'
      BY <1>1, <1>2, <2>7, Carries DEF Honest
    <3>5. Copying'
      BY <2>7, <2>10 DEF Copying
    <3> QED
      BY <1>4, <3>1, <3>2, <3>3, <3>4, <3>5 DEF Honest, Among
  <2>11. CASE ~Skipped(p) /\ c.dir /\ Make(p, Folder) /\ pc = "child"
    <3>1. Folder \in Made /\ Folder.dir = TRUE /\ Folder.data = {}
      BY FolderIs
    <3>2. copy'[p] = Folder /\ \A q \in Paths \ {p} : copy'[q] = copy[q]
      BY <2>2, <2>11, <3>1, MakeIs DEF TransferInv
    <3>3. PICK t \in was : t[p] # None /\ t[p].dir = c.dir
      BY <2>3 DEF WasThere
    <3>4. copy'[p].dir /\ t[p].dir = copy'[p].dir
      <4>1. c.dir = TRUE
        BY <2>2, <2>11
      <4> QED
        BY <3>1, <3>2, <3>3, <4>1
    <3>5. WasCopied(p)' /\ Copying'
      <4>1. copy'[p].data = {}
        BY <3>1, <3>2
      <4> QED
        BY <1>2, <2>7, <2>11, <3>3, <3>4, <4>1 DEF WasCopied, Copying
    <3>6. Copyable(p)
      BY <2>5, <2>11 DEF Copyable
    <3> QED
      BY <1>6, <2>2, <2>7, <2>8, <2>9, <3>2, <3>5, <3>6
  <2>12. CASE ~Skipped(p) /\ ~c.dir /\ IsDoc(p) /\ Make(p, File) /\ child = p /\ node = tree[p].id
    <3>1. File \in Made /\ ~File.dir /\ File.data = {}
      BY FileIs
    <3>2. copy'[p] = File /\ \A q \in Paths \ {p} : copy'[q] = copy[q]
      BY <2>2, <2>12, <3>1, MakeIs DEF TransferInv
    <3>3. WasCopied(p)' /\ Copying'
      BY <1>2, <2>2, <2>7, <2>12, <3>1, <3>2, FileOpened
    <3>4. Copyable(p)
      BY <2>5, <2>12 DEF Copyable
    <3> QED
      BY <1>6, <2>2, <2>7, <2>8, <2>9, <3>2, <3>3, <3>4
  <2> QED
    BY <2>1, <2>10, <2>11, <2>12 DEF p, Visited
<1>16. CASE ReadPiece
  <2>1. /\ job.pc = "copy" /\ job.child \in Paths /\ job.node \in Nat
        /\ \E pc \in {"copy", "meta", "child"} :
             Becomes(pc, job.todo, job.left, job.child, job.node, job.pruned)
        /\ copy[job.child] \in Made /\ copy'[job.child].dir = copy[job.child].dir
        /\ copy'[job.child].data = copy[job.child].data \cup Pieces
        /\ \A q \in Paths \ {job.child} : copy'[q] = copy[q]
    BY <1>16, ReadPieceIs
  <2> PICK p \in Paths : p = job.child
    BY <2>1
  <2>2. copy[p] \in Made /\ copy[p] # None /\ copy[p].dir \in BOOLEAN
    BY <2>1, MadeAssumption DEF Made
  <2>3. ~copy[p].dir /\ (\A d \in copy[p].data : d[1] = job.node)
        /\ \E t \in was : t[p] # None /\ ~t[p].dir /\ t[p].id = job.node
    BY <2>1 DEF Honest, Copying
  <2>4. PICK t \in was : t[p] # None /\ ~t[p].dir /\ t[p].id = job.node
    BY <2>3
  <2>5. t[p].dir = copy[p].dir
    <3>1. t \in Trees
      BY DEF TransferInv, WasInv, Past
    <3>2. t[p].dir \in BOOLEAN
      BY <2>4, <3>1, NodeFields
    <3> QED
      BY <2>2, <2>3, <2>4, <3>2
  <2>6. ASSUME NEW d \in copy[p].data \cup Pieces
        PROVE  d[1] = job.node /\ HadContent(d)'
    <3>1. CASE d \in copy[p].data
      <4>1. HadContent(d)
        BY <2>2, <3>1 DEF Honest, WasCopied
      <4>2. \E u \in was, q \in Paths : u[q] # None /\ d = <<u[q].id, u[q].ver>>
        BY <4>1 DEF HadContent
      <4> QED
        BY <1>2, <2>3, <3>1, <4>2 DEF HadContent
    <3>2. CASE d \in Pieces
      <4>1. PICK q \in Paths : IsDoc(q) /\ tree[q].id = job.node /\ d = <<tree[q].id, tree[q].ver>>
        BY <3>2, PiecesAre
      <4> QED
        BY <1>2, <4>1 DEF HadContent, IsDoc, Exists
    <3> QED
      BY <3>1, <3>2
  <2>7. WasCopied(p)'
    <3>1. t \in was' /\ t[p].dir = copy'[p].dir
      BY <1>2, <2>1, <2>5
    <3>2. \A d \in copy'[p].data : d[1] = t[p].id /\ HadContent(d)'
      <4> HIDE DEF Pieces
      <4> QED
        BY <2>1, <2>4, <2>6
    <3> QED
      BY <2>4, <3>1, <3>2 DEF WasCopied
  <2>8. Copying'
    <3>1. job'.child = p /\ job'.node = job.node
      BY <2>1 DEF Becomes
    <3>2. ~copy'[p].dir /\ \A d \in copy'[p].data : d[1] = job.node
      <4> HIDE DEF Pieces
      <4> QED
        BY <2>1, <2>3, <2>6
    <3> QED
      BY <1>2, <2>4, <3>1, <3>2 DEF Copying
  <2>9. Copyable(p)
    BY <2>2 DEF Honest
  <2> QED
    BY <1>6, <2>1, <2>7, <2>8, <2>9 DEF Becomes, Honest
<1> QED
  BY <1>7, <1>8, <1>9, <1>10, <1>11, <1>12, <1>13, <1>14, <1>15, <1>16 DEF Reader

LEMMA HonestStep ==
  ASSUME TransferInv, HonestInv, TransferNext
  PROVE  HonestInv'
<1>1. Witness /\ TransferInv'
  BY Steps, TransferStep
<1>2. CASE Aside
  <2> SUFFICES ASSUME Reads' PROVE Honest'
    BY DEF HonestInv
  <2>1. Reads /\ UNCHANGED <<job, copy>>
    BY <1>2 DEF Reads, Aside
  <2>2. Alive /\ Alive' /\ Honest
    BY <1>2, <2>1 DEF TransferInv, Begun, Reads, Aside, HonestInv
  <2>3. was \subseteq was'
    BY <1>1, <2>2, WasGrows
  <2>4. Copying'
    BY <2>1, <2>2, <2>3 DEF Honest, Copying
  <2> QED
    BY <2>1, <2>2, <2>3, <2>4, Carries DEF Honest
<1>3. CASE Over
  BY <1>3, IdleIs DEF Over, Reads, HonestInv
<1>4. CASE Launched
  <2>1. job'.pc = "mount"
    BY <1>4, LaunchIs DEF Launched
  <2> QED
    BY <2>1 DEF Reads, HonestInv
<1>5. CASE Mount
  <2> SUFFICES ASSUME Reads' PROVE Honest'
    BY DEF HonestInv
  <2>1. /\ job'.op = job.op /\ job'.root = job.root
        /\ job'.todo = IF job.op = "export" THEN <<Root>> ELSE <<>>
        /\ job'.left = {} /\ job'.pruned = {} /\ job.pc = "mount" /\ copy' = Nothing
        /\ job'.pc # "copy"
    BY <1>5, MountIs DEF Becomes
  <2>2. job.op \in {"export", "get"}
    BY <2>1 DEF Reads
  <2>3. job'.root \in Paths /\ (job'.op = "export" => job'.root = Root)
    BY <2>1, <2>2, RootIsEmpty, TransferAssumption DEF TransferInv, Begun
  <2>4. \A q : Among(q, job'.todo) => job'.op = "export" /\ q = Root
    BY <2>1 DEF Among
  <2>5. Within(Root, Root)
    BY RootIsEmpty, RootAbove
  <2>6. \A q : Among(q, job'.todo) => Reached(q)'
    BY <2>3, <2>4, <2>5, RootIsEmpty DEF Reached
  <2>7. \A q \in Paths : copy'[q] = None
    BY <2>1 DEF Nothing
  <2> QED
    BY <2>1, <2>3, <2>6, <2>7 DEF Honest, Among, Copying
<1>6. CASE Reader /\ ~Over
  <2>1. Reads
    BY <1>6, ReaderIs
  <2> QED
    BY <1>1, <1>6, <2>1, ReaderHonest DEF HonestInv
<1>7. CASE Putter
  <2>1. Over \/ job'.op = "put"
    BY <1>7, PutterKeeps
  <2> QED
    BY <1>3, <2>1 DEF Reads, HonestInv
<1> QED
  BY <1>2, <1>3, <1>4, <1>5, <1>6, <1>7, Steps

LEMMA HonestSteady == TransferSpec => [](TransferInv /\ HonestInv)
<1>1. TransferInit => TransferInv /\ HonestInv
  <2> SUFFICES ASSUME TransferInit PROVE TransferInv /\ HonestInv
    OBVIOUS
  <2>1. job = Idle
    BY DEF TransferInit
  <2> QED
    BY <2>1, IdleIs, TransferStart DEF HonestInv, Reads
<1>2. TransferInv /\ HonestInv /\ [TransferNext]_transferVars => (TransferInv /\ HonestInv)'
  <2> SUFFICES ASSUME TransferInv, HonestInv, [TransferNext]_transferVars
               PROVE  (TransferInv /\ HonestInv)'
    OBVIOUS
  <2>1. CASE TransferNext
    BY <2>1, TransferStep, HonestStep
  <2>2. CASE UNCHANGED transferVars
    <3>1. UNCHANGED <<job, copy, was>>
      BY <2>2 DEF transferVars, ownVars
    <3>2. HonestInv'
      BY <3>1, Carries DEF HonestInv, Reads, Honest, Copying
    <3> QED
      BY <2>2, <3>2, TransferStutter
  <2> QED
    BY <2>1, <2>2
<1> QED
  BY <1>1, <1>2, PTL DEF TransferSpec

LEMMA ReadingReads ==
  ASSUME TransferInv
  PROVE  Reading => Reads
BY DEF TransferInv, Begun, Reading, Reads, Alive

(* CopyHonest: whatever export and get -r have made of a name was in the   *)
(* volume under that name, with that kind, at some time since the command  *)
(* mounted it, though others write, move and remove between any two of its *)
(* statements; every byte of a file was committed of the one node that was *)
(* there at some time of the command, whatever came in its place between   *)
(* two reads.  And get -r makes nothing under a name that would lead out   *)
(* of the destination, at any depth.                                       *)
THEOREM CopiesAreHonest == TransferSpec => []CopyHonest
<1>1. TransferInv /\ HonestInv => CopyHonest
  <2> SUFFICES ASSUME TransferInv, HonestInv, Reading, NEW p \in Paths, copy[p] # None
               PROVE  /\ job.op = "get" => Inside(p)
                      /\ \E t \in was : /\ t[p] # None
                                        /\ t[p].dir = copy[p].dir
                                        /\ \A d \in copy[p].data : d[1] = t[p].id /\ HadContent(d)
    BY DEF CopyHonest
  <2>1. Copyable(p) /\ WasCopied(p)
    BY ReadingReads DEF HonestInv, Honest
  <2> QED
    BY <2>1 DEF Copyable, WasCopied
<1> QED
  BY <1>1, HonestSteady, PTL

---------------------------------------------------------------------------
(* What stays in the source is reached                                     *)

(* A name that has been taken since the command mounted the volume.        *)
Lasting(p) == \A t \in was : t[p] # None

(* What is in the source, or in a directory that is made, is made, or is   *)
(* at hand, or is to be listed.                                            *)
Opened(p) == Parent(p) = job.root \/ copy[Parent(p)] # None

Covered(p) ==
  \/ Among(Parent(p), job.todo)
  \/ \E c \in job.left : c.path = p
  \/ copy[p] # None
  \/ job.pc \in {"type", "open"} /\ job.child = p

Due(p) == p \in Paths /\ Strictly(p) /\ Copyable(p) /\ Lasting(p)

Cover ==
  /\ job.pc \in {"list", "done"} => job.left = {}
  /\ job.pc = "done" => job.todo = <<>>
  /\ job.pc # "root" => \A p \in Paths : Due(p) /\ Opened(p) => Covered(p)

CoverInv == Reads => Cover

LEMMA DueBefore ==
  ASSUME job'.op = job.op, job'.root = job.root, was \subseteq was', job.pruned \subseteq job'.pruned,
         NEW p, Due(p)'
  PROVE  Due(p)
BY Carries DEF Due, Lasting

(* Nothing that lasts is below an entry.                                   *)
LEMMA DocHasNone ==
  ASSUME TransferInv, tree \in was, Honest, NEW p \in Paths, Due(p), IsDoc(Parent(p))
  PROVE  FALSE
<1>1. tree[p] # None /\ p # Root
  BY InsideParent DEF Due, Lasting, Honest
<1>2. Parent(p) \in Paths /\ Within(p, Parent(p)) /\ p # Parent(p)
  BY <1>1, ParentAbove
<1> QED
  BY <1>1, <1>2 DEF TransferInv, TreeInv, Shaped, IsDoc

LEMMA ReaderCovers ==
  ASSUME TransferInv, Honest, Cover, Reads, Witness, Reader, ~Over
  PROVE  Cover'
<1>1. /\ JobTypes' /\ Begun' /\ Phases' /\ Quiet /\ job'.op = job.op /\ job'.root = job.root
      /\ Alive /\ Alive'
  <2>1. JobTypes' /\ Begun' /\ Phases' /\ Quiet /\ job'.op = job.op /\ job'.root = job.root
    BY ReaderKeeps
  <2>2. Alive
    BY DEF Reads, TransferInv, Begun
  <2> QED
    BY <2>1, <2>2 DEF Quiet, Alive
<1>2. was \subseteq was' /\ tree \in was /\ tree' = tree
  BY <1>1, WasGrows DEF Quiet
<1>3. job.root \in Paths /\ job \in Jobs
  BY DEF Honest, TransferInv, JobTypes
<1>4. ASSUME NEW p \in Paths, Due(p)
      PROVE  Parent(p) \in Paths /\ Exists(p) /\ p # Root
  BY <1>2, <1>3, <1>4, InsideParent DEF Due, Lasting, Exists
<1>5. ASSUME job.pruned \subseteq job'.pruned, job.pc # "root",
             job'.pc \in {"list", "done"} => job'.left = {},
             job'.pc = "done" => job'.todo = <<>>,
             \A p \in Paths : Due(p) /\ Opened(p)' /\ ~Opened(p) => Covered(p)',
             \A p \in Paths : Due(p) /\ Covered(p) => Covered(p)'
      PROVE  Cover'
  <2>1. \A p \in Paths : Due(p)' => Due(p)
    BY <1>1, <1>2, <1>5, DueBefore
  <2>2. \A p \in Paths : Due(p)' /\ Opened(p)' => Covered(p)'
    BY <1>5, <2>1 DEF Cover
  <2> QED
    BY <1>5, <2>2 DEF Cover
(* The steps that make nothing, and lose nothing they have to list. *)
<1>6. ASSUME job.pruned \subseteq job'.pruned, job.pc # "root", copy' = copy,
             job'.pc \in {"list", "done"} => job'.left = {},
             job'.pc = "done" => job'.todo = <<>>,
             \A p \in Paths : Due(p) /\ Covered(p) => Covered(p)'
      PROVE  Cover'
  <2>1. \A p \in Paths : Opened(p)' => Opened(p)
    BY <1>1, <1>6 DEF Opened
  <2> QED
    BY <1>5, <1>6, <2>1
<1>7. CASE GetRoot
  <2>1. Becomes("list", <<job.root>>, {}, job.child, job.node, {}) /\ copy' = copy /\ job.pc = "root"
    BY <1>7, GetRootIs
  <2>2. copy = Nothing
    BY <2>1 DEF TransferInv, Begun
  <2>3. job'.todo = <<job.root>> /\ Len(job'.todo) = 1 /\ job'.todo[1] = job.root /\ job'.left = {}
        /\ job'.pc = "list" /\ job.pruned = {}
    BY <2>1 DEF Becomes, TransferInv, Begun
  <2>4. \A p \in Paths : Due(p)' => Due(p)
    BY <1>1, <1>2, <2>3, DueBefore
  <2>5. \A p \in Paths : Due(p)' /\ Opened(p)' => Covered(p)'
    <3> SUFFICES ASSUME NEW p \in Paths, Due(p)', Opened(p)' PROVE Covered(p)'
      OBVIOUS
    <3>1. Parent(p) \in Paths
      BY <1>4, <2>4
    <3>2. Parent(p) = job.root
      BY <1>1, <2>1, <2>2, <3>1 DEF Opened, Nothing
    <3> QED
      BY <2>3, <3>2 DEF Covered, Among
  <2> QED
    BY <2>3, <2>5 DEF Cover
<1>8. CASE List
  <2> DEFINE u == Upcoming
  <2>1. /\ Becomes("child", Later, Listing(u), job.child, job.node, job.pruned)
        /\ copy' = copy /\ job.todo # <<>> /\ job.pc = "list"
    BY <1>8, ListIs
  <2>2. u \in Paths /\ \A q : Among(q, job.todo) <=> q = u \/ Among(q, Later)
    BY <1>3, <2>1, UpcomingIs
  <2> HIDE DEF u
  <2>3. job'.todo = Later /\ job'.left = Listing(u) /\ job'.pc = "child" /\ job'.pruned = job.pruned
    BY <2>1 DEF Becomes
  <2>4. \A p \in Paths : Due(p) /\ Covered(p) => Covered(p)'
    <3> SUFFICES ASSUME NEW p \in Paths, Due(p), Covered(p) PROVE Covered(p)'
      OBVIOUS
    <3>1. Among(Parent(p), job.todo) \/ copy[p] # None
      BY <2>1 DEF Covered, Cover
    <3>2. CASE copy[p] # None
      BY <2>1, <3>2 DEF Covered
    <3>3. CASE Among(Parent(p), Later)
      BY <2>3, <3>3 DEF Covered, Among
    <3>4. CASE Parent(p) = u
      <4>1. [path |-> p, dir |-> IsDir(p)] \in Listing(u)
        BY <1>4, <2>2, <3>4, ListingIs
      <4>2. \E c \in job'.left : c.path = p
        BY <2>3, <4>1
      <4> QED
        BY <4>2 DEF Covered
    <3> QED
      BY <2>2, <3>1, <3>2, <3>3, <3>4
  <2> QED
    BY <1>6, <2>1, <2>3, <2>4
<1>9. CASE Listed \/ GetDone
  <2>1. /\ \E pc \in {"list", "done"} : Becomes(pc, job.todo, job.left, job.child, job.node, job.pruned)
        /\ copy' = copy /\ job.left = {} /\ job.pc \in {"child", "list"}
        /\ job'.pc = "done" => job.todo = <<>>
    BY <1>9, ListedIs, GetDoneIs DEF Becomes, Cover
  <2>2. \A p \in Paths : Covered(p) => Covered(p)'
    BY <2>1 DEF Covered, Among, Becomes
  <2> QED
    BY <1>6, <2>1, <2>2 DEF Becomes
<1>10. CASE Stat
  <2>1. PICK c \in job.left :
          /\ Becomes("type", job.todo, job.left \ {c}, c.path, Content(c.path), job.pruned)
          /\ copy' = copy /\ job.pc = "child"
    BY <1>10, StatIs
  <2>2. \A p \in Paths : Covered(p) => Covered(p)'
    BY <2>1 DEF Covered, Among, Becomes
  <2> QED
    BY <1>6, <2>1, <2>2 DEF Becomes
<1>11. CASE Type
  <2>1. job.pc = "type" /\ job.child \in Paths /\ job.node \in Contents /\ JobTypes
    BY <1>11, TypeIs DEF Contents, TransferInv
  <2>2. CASE copy' = copy /\ Becomes("open", job.todo, job.left, job.child, job.node, job.pruned)
    <3>1. \A p \in Paths : Covered(p) => Covered(p)'
      BY <2>1, <2>2 DEF Covered, Among, Becomes
    <3> QED
      BY <1>6, <2>1, <2>2, <3>1 DEF Becomes
  <2>3. CASE Make(job.child, [Folder EXCEPT !.seen = job.node])
             /\ Becomes("meta", Append(job.todo, job.child), job.left, job.child, job.node, job.pruned)
    <3> PICK q \in Paths : q = job.child
      BY <2>1
    <3> DEFINE thing == [Folder EXCEPT !.seen = job.node]
    <3>1. thing \in Made /\ Make(q, thing)
      BY <2>1, <2>3, FolderIs
    <3> HIDE DEF thing
    <3>2. copy'[q] # None /\ \A p \in Paths \ {q} : copy'[p] = copy[p]
      BY <2>1, <3>1, MakeIs
    <3>3. job'.todo = Append(job.todo, q) /\ job'.left = job.left /\ job'.pc = "meta"
          /\ job'.pruned = job.pruned
      BY <2>3 DEF Becomes
    <3>4. \A p : Among(p, job'.todo) <=> p = q \/ Among(p, job.todo)
      BY <1>3, <3>3, JobFields, AmongAppended
    <3>5. \A p \in Paths : Covered(p) => Covered(p)'
      BY <2>1, <3>2, <3>3, <3>4 DEF Covered, Among
    <3>6. \A p \in Paths : Due(p) /\ Opened(p)' /\ ~Opened(p) => Covered(p)'
      <4> SUFFICES ASSUME NEW p \in Paths, Due(p), Opened(p)', ~Opened(p) PROVE Covered(p)'
        OBVIOUS
      <4>1. Parent(p) = q
        BY <1>1, <1>4, <3>2 DEF Opened
      <4> QED
        BY <3>4, <4>1 DEF Covered, Among
    <3> QED
      BY <1>5, <2>1, <3>3, <3>5, <3>6
  <2> QED
    BY <1>11, <2>2, <2>3, TypeIs
<1>12. CASE Open
  <2>1. /\ job.pc = "open" /\ job.child \in Paths /\ job.node \in Contents /\ IsDoc(job.child)
        /\ Becomes("copy", job.todo, job.left, job.child, tree[job.child].id, job.pruned)
        /\ Make(job.child, [File EXCEPT !.seen = job.node])
    BY <1>12, OpenIs DEF Contents
  <2> PICK q \in Paths : q = job.child
    BY <2>1
  <2> DEFINE thing == [File EXCEPT !.seen = job.node]
  <2>2. thing \in Made /\ Make(q, thing)
    BY <2>1, FileIs
  <2> HIDE DEF thing
  <2>3. copy'[q] # None /\ \A p \in Paths \ {q} : copy'[p] = copy[p]
    BY <2>2, MakeIs DEF TransferInv
  <2>4. job'.todo = job.todo /\ job'.left = job.left /\ job'.pc = "copy" /\ job'.pruned = job.pruned
    BY <2>1 DEF Becomes
  <2>5. \A p \in Paths : Covered(p) => Covered(p)'
    BY <2>1, <2>3, <2>4 DEF Covered, Among
  <2>6. \A p \in Paths : Due(p) /\ Opened(p)' => Opened(p)
    <3> SUFFICES ASSUME NEW p \in Paths, Due(p), Opened(p)', ~Opened(p) PROVE FALSE
      OBVIOUS
    <3>1. Parent(p) = q
      BY <1>1, <1>4, <2>3 DEF Opened
    <3> QED
      BY <1>2, <2>1, <3>1, DocHasNone
  <2> QED
    BY <1>5, <2>1, <2>4, <2>5, <2>6
<1>13. CASE Meta \/ Stamp
  <2>1. /\ \E pc : Becomes(pc, job.todo, job.left, job.child, job.node, job.pruned)
        /\ Retouched(job.child) /\ job.pc \in {"meta", "list"}
        /\ job'.pc = "child" \/ (job'.pc = "done" /\ job.pc = "list" /\ job.todo = <<>>)
    BY <1>13, MetaIs, StampIs DEF Becomes
  <2>2. job'.todo = job.todo /\ job'.left = job.left /\ job'.pruned = job.pruned
    BY <2>1 DEF Becomes
  <2>3. \A p \in Paths : copy'[p] # None <=> copy[p] # None
    BY <2>1 DEF Retouched
  <2>4. \A p \in Paths : Covered(p) => Covered(p)'
    BY <2>1, <2>2, <2>3 DEF Covered, Among
  <2>5. \A p \in Paths : Due(p) /\ Opened(p)' => Opened(p)
    BY <1>1, <1>4, <2>3 DEF Opened
  <2> QED
    BY <1>5, <2>1, <2>2, <2>4, <2>5 DEF Cover
<1>14. CASE Visit
  <2>1. PICK c \in job.left, pc \in {"child", "copy"}, child \in Seq(Names), node \in Nat \cup Contents :
          Visited(c, pc, child, node)
    BY <1>14, VisitIs
  <2> DEFINE q == c.path
  <2>2. q \in Paths /\ job.op = "get" /\ job.pc = "child"
    BY <2>1 DEF Entries, Visited
  <2>3. Skipped(q) <=> ~Inside(q)
    BY <2>2, SkippedIs
  <2> HIDE DEF q
  <2>4. /\ job'.left = job.left \ {c} /\ job'.pc \in {"child", "copy"} /\ job.pruned \subseteq job'.pruned
        /\ job'.todo = IF c.dir THEN Append(job.todo, q) ELSE job.todo
    BY <2>1 DEF Visited, Becomes, q
  <2>5. \A p : Among(p, job.todo) \/ (c.dir /\ p = q) => Among(p, job'.todo)
    <3>1. \A p : Among(p, Append(job.todo, q)) <=> p = q \/ Among(p, job.todo)
      BY <1>3, <2>2, JobFields, AmongAppended
    <3> QED
      BY <2>4, <3>1
  <2>6. /\ \A p \in Paths \ {q} : copy'[p] = copy[p]
        /\ Skipped(q) => copy' = copy
        /\ ~Skipped(q) => copy'[q] # None /\ (c.dir \/ IsDoc(q))
    <3>1. Folder \in Made /\ File \in Made /\ JobTypes
      BY FolderIs, FileIs DEF TransferInv
    <3>2. \/ Skipped(q) /\ copy' = copy
          \/ ~Skipped(q) /\ c.dir /\ Make(q, Folder)
          \/ ~Skipped(q) /\ ~c.dir /\ IsDoc(q) /\ Make(q, File)
      BY <2>1 DEF q, Visited
    <3> QED
      BY <2>2, <3>1, <3>2, MakeIs
  <2>7. \A p \in Paths : Due(p) /\ Covered(p) => Covered(p)'
    <3> SUFFICES ASSUME NEW p \in Paths, Due(p), Covered(p) PROVE Covered(p)'
      OBVIOUS
    <3>1. CASE Among(Parent(p), job.todo)
      BY <2>5, <3>1 DEF Covered, Among
    <3>2. CASE copy[p] # None
      BY <2>6, <3>2 DEF Covered
    <3>3. CASE p = q
      <4>1. Inside(q)
        BY <2>2, <3>3 DEF Due, Copyable
      <4>2. copy'[p] # None
        BY <2>3, <2>6, <3>3, <4>1
      <4> QED
        BY <4>2 DEF Covered
    <3>4. CASE \E d \in job.left : d.path = p /\ p # q
      <4>1. \E d \in job'.left : d.path = p
        BY <2>4, <3>4 DEF q
      <4> QED
        BY <4>1 DEF Covered
    <3> QED
      BY <2>2, <3>1, <3>2, <3>3, <3>4 DEF Covered
  <2>8. \A p \in Paths : Due(p) /\ Opened(p)' /\ ~Opened(p) => Covered(p)'
    <3> SUFFICES ASSUME NEW p \in Paths, Due(p), Opened(p)', ~Opened(p) PROVE Covered(p)'
      OBVIOUS
    <3>1. Parent(p) = q /\ ~Skipped(q)
      BY <1>1, <1>4, <2>6 DEF Opened
    <3>2. c.dir
      BY <1>2, <2>6, <3>1, DocHasNone
    <3> QED
      BY <2>5, <3>1, <3>2 DEF Covered, Among
  <2> QED
    BY <1>5, <2>2, <2>4, <2>7, <2>8
<1>15. CASE ReadPiece
  <2>1. /\ job.pc = "copy"
        /\ \E pc \in {"copy", "meta", "child"} :
             Becomes(pc, job.todo, job.left, job.child, job.node, job.pruned)
        /\ job.child \in Paths /\ copy[job.child] \in Made /\ copy'[job.child] \in Made
        /\ \A q \in Paths \ {job.child} : copy'[q] = copy[q]
    BY <1>15, ReadPieceIs
  <2>2. job'.todo = job.todo /\ job'.left = job.left /\ job'.pruned = job.pruned
        /\ job'.pc \in {"copy", "meta", "child"}
    BY <2>1 DEF Becomes
  <2>3. \A p \in Paths : copy'[p] # None <=> copy[p] # None
    BY <2>1, MadeAssumption
  <2>4. \A p \in Paths : Covered(p) => Covered(p)'
    BY <2>1, <2>2, <2>3 DEF Covered, Among
  <2>5. \A p \in Paths : Due(p) /\ Opened(p)' => Opened(p)
    BY <1>1, <1>4, <2>3 DEF Opened
  <2> QED
    BY <1>5, <2>1, <2>2, <2>4, <2>5
<1> QED
  BY <1>7, <1>8, <1>9, <1>10, <1>11, <1>12, <1>13, <1>14, <1>15 DEF Reader

LEMMA CoverStep ==
  ASSUME TransferInv, HonestInv, CoverInv, TransferNext
  PROVE  CoverInv'
<1>1. Witness /\ TransferInv'
  BY Steps, TransferStep
<1>2. CASE Aside
  <2> SUFFICES ASSUME Reads' PROVE Cover'
    BY DEF CoverInv
  <2>1. Reads /\ UNCHANGED <<job, copy>>
    BY <1>2 DEF Reads, Aside
  <2>2. Alive /\ Alive' /\ Cover
    BY <1>2, <2>1 DEF TransferInv, Begun, Reads, Aside, CoverInv
  <2>3. was \subseteq was'
    BY <1>1, <2>2, WasGrows
  <2>4. \A p \in Paths : Due(p)' => Due(p)
    BY <2>1, <2>3, DueBefore
  <2>5. \A p \in Paths : (Opened(p)' <=> Opened(p)) /\ (Covered(p)' <=> Covered(p))
    BY <2>1 DEF Opened, Covered, Among
  <2> QED
    BY <2>1, <2>2, <2>4, <2>5 DEF Cover
<1>3. CASE Over
  BY <1>3, IdleIs DEF Over, Reads, CoverInv
<1>4. CASE Launched
  <2>1. job'.pc = "mount"
    BY <1>4, LaunchIs DEF Launched
  <2> QED
    BY <2>1 DEF Reads, CoverInv
<1>5. CASE Mount
  <2> SUFFICES ASSUME Reads' PROVE Cover'
    BY DEF CoverInv
  <2>1. /\ job'.op = job.op /\ job'.root = job.root /\ job'.left = {} /\ job.pc = "mount"
        /\ job'.pc = IF job.op = "export" THEN "list" ELSE "root"
        /\ job'.todo = IF job.op = "export" THEN <<Root>> ELSE <<>>
        /\ copy' = Nothing
    BY <1>5, MountIs DEF Becomes
  <2>2. CASE job.op = "export"
    <3>1. job'.pc = "list" /\ job'.root = Root /\ Len(job'.todo) = 1 /\ job'.todo[1] = Root
      BY <2>1, <2>2 DEF TransferInv, Begun
    <3>2. \A p \in Paths : Due(p)' /\ Opened(p)' => Covered(p)'
      <4> SUFFICES ASSUME NEW p \in Paths, Due(p)', Opened(p)' PROVE Covered(p)'
        OBVIOUS
      <4>1. job'.root \in Paths /\ Strictly(p)'
        BY <3>1, RootIsEmpty DEF Due
      <4>2. Parent(p) \in Paths
        BY <3>1, <4>1, RootIsEmpty, ParentAbove DEF Strictly
      <4>3. Parent(p) = Root
        BY <2>1, <3>1, <4>2 DEF Opened, Nothing
      <4> QED
        BY <3>1, <4>3 DEF Covered, Among
    <3> QED
      BY <2>1, <3>1, <3>2 DEF Cover
  <2>3. CASE job.op # "export"
    BY <2>1, <2>3 DEF Cover
  <2> QED
    BY <2>2, <2>3
<1>6. CASE Reader /\ ~Over
  <2>1. Reads
    BY <1>6, ReaderIs
  <2> QED
    BY <1>1, <1>6, <2>1, ReaderCovers DEF HonestInv, CoverInv
<1>7. CASE Putter
  <2>1. Over \/ job'.op = "put"
    BY <1>7, PutterKeeps
  <2> QED
    BY <1>3, <2>1 DEF Reads, CoverInv
<1> QED
  BY <1>2, <1>3, <1>4, <1>5, <1>6, <1>7, Steps

---------------------------------------------------------------------------
(* A file whose node stayed is read, and the content its time is of is no  *)
(* newer than any of what was read                                         *)

Older(p) == copy[p].seen \in Nat \X Nat /\ \A d \in copy[p].data : copy[p].seen[2] <= d[2]

(* Some of it was read, or is about to be.                                 *)
Filled(p) == copy[p].data # {} \/ (job.pc = "copy" /\ job.child = p)

Timely(p) == copy[p] # None /\ ~copy[p].dir /\ Stayed(p) => Filled(p) /\ (job.op = "export" => Older(p))

Dated ==
  /\ job.pc \in {"type", "open"} =>
       \E t \in was : t[job.child] # None /\ job.node = <<t[job.child].id, t[job.child].ver>>
  /\ job.pc = "copy" /\ job.op = "export" =>
       \E t \in was : t[job.child] # None /\ copy[job.child].seen = <<t[job.child].id, t[job.child].ver>>
  /\ \A p \in Paths : Timely(p)
  /\ job.pc = "done" /\ job.op = "export" => \A p \in Paths : copy[p] # None => copy[p].mtime = copy[p].seen

DatedInv == Reads => Dated

LEMMA StayedBefore ==
  ASSUME TransferInv, Witness, Alive, Alive', NEW p, Stayed(p)'
  PROVE  Stayed(p)
<1>1. was \subseteq was' /\ tree \in was'
  BY WasGrows
<1>2. tree[p] # None /\ tree[p].id = tree'[p].id
  BY <1>1 DEF Stayed
<1> QED
  BY <1>1, <1>2 DEF Stayed, Exists

LEMMA ReaderDates ==
  ASSUME TransferInv, Honest, Dated, Reads, Witness, Reader, ~Over
  PROVE  Dated'
<1>1. /\ JobTypes' /\ Begun' /\ Phases' /\ Quiet /\ job'.op = job.op /\ Alive /\ Alive'
  <2>1. JobTypes' /\ Begun' /\ Phases' /\ Quiet /\ job'.op = job.op
    BY ReaderKeeps
  <2>2. Alive
    BY DEF Reads, TransferInv, Begun
  <2> QED
    BY <2>1, <2>2 DEF Quiet, Alive
<1>2. was \subseteq was' /\ tree \in was /\ tree \in was' /\ tree' = tree
  BY <1>1, WasGrows DEF Quiet
<1>3. \A p : Stayed(p)' => Stayed(p)
  BY <1>1, StayedBefore
(* What was made and is not of the file that is copied stays as it is. *)
<1>4. ASSUME NEW p \in Paths, job.pc # "copy" \/ job.child # p,
             \/ copy'[p] = copy[p]
             \/ /\ copy[p] # None /\ copy'[p].dir = copy[p].dir
                /\ copy'[p].data = copy[p].data /\ copy'[p].seen = copy[p].seen
             \/ copy'[p].dir
      PROVE  Timely(p)'
  <2> SUFFICES ASSUME copy'[p] # None, ~copy'[p].dir, Stayed(p)'
               PROVE  Filled(p)' /\ (job'.op = "export" => Older(p)')
    BY DEF Timely
  <2>1. copy[p] # None /\ ~copy[p].dir /\ copy'[p].data = copy[p].data /\ copy'[p].seen = copy[p].seen
    BY <1>4
  <2>2. Filled(p) /\ (job.op = "export" => Older(p))
    BY <1>3, <2>1 DEF Dated, Timely
  <2>3. copy[p].data # {}
    BY <1>4, <2>2 DEF Filled
  <2> QED
    BY <1>1, <2>1, <2>2, <2>3 DEF Filled, Older
<1>5. ASSUME job'.pc \notin {"type", "open", "copy", "done"}, job.pc # "copy",
             \A p \in Paths : \/ copy'[p] = copy[p]
                              \/ /\ copy[p] # None /\ copy'[p].dir = copy[p].dir
                                 /\ copy'[p].data = copy[p].data /\ copy'[p].seen = copy[p].seen
                              \/ copy'[p].dir
      PROVE  Dated'
  <2>1. \A p \in Paths : Timely(p)'
    BY <1>4, <1>5
  <2> QED
    BY <1>5, <2>1 DEF Dated
<1>6. CASE List
  BY <1>5, <1>6, ListIs DEF Becomes
<1>7. CASE Listed
  BY <1>5, <1>7, ListedIs DEF Becomes
<1>8. CASE Stat
  <2>1. PICK c \in job.left :
          /\ Becomes("type", job.todo, job.left \ {c}, c.path, Content(c.path), job.pruned)
          /\ copy' = copy /\ c \in Entries /\ Exists(c.path) /\ job.pc = "child"
    BY <1>8, StatIs
  <2>2. job'.child = c.path /\ job'.node = <<tree[c.path].id, tree[c.path].ver>> /\ job'.pc = "type"
        /\ tree[c.path] # None
    BY <2>1 DEF Becomes, Content, Exists
  <2>3. \E t \in was' : t[job'.child] # None /\ job'.node = <<t[job'.child].id, t[job'.child].ver>>
    BY <1>2, <2>2
  <2>4. \A p \in Paths : Timely(p)'
    BY <1>4, <2>1
  <2> QED
    BY <2>2, <2>3, <2>4 DEF Dated
<1>9. CASE Type
  <2>1. job.pc = "type" /\ job.child \in Paths /\ job.node \in Contents /\ JobTypes
    BY <1>9, TypeIs DEF Contents, TransferInv
  <2>2. CASE copy' = copy /\ Becomes("open", job.todo, job.left, job.child, job.node, job.pruned)
    <3>1. job'.child = job.child /\ job'.node = job.node /\ job'.pc = "open"
      BY <2>2 DEF Becomes
    <3>2. \E t \in was' : t[job'.child] # None /\ job'.node = <<t[job'.child].id, t[job'.child].ver>>
      BY <1>2, <2>1, <3>1 DEF Dated
    <3>3. \A p \in Paths : Timely(p)'
      BY <1>4, <2>1, <2>2
    <3> QED
      BY <3>1, <3>2, <3>3 DEF Dated
  <2>3. CASE Make(job.child, [Folder EXCEPT !.seen = job.node])
             /\ Becomes("meta", Append(job.todo, job.child), job.left, job.child, job.node, job.pruned)
    <3> PICK q \in Paths : q = job.child
      BY <2>1
    <3> DEFINE thing == [Folder EXCEPT !.seen = job.node]
    <3>1. thing \in Made /\ Make(q, thing) /\ thing.dir
      BY <2>1, <2>3, FolderIs
    <3> HIDE DEF thing
    <3>2. copy'[q] = thing /\ \A p \in Paths \ {q} : copy'[p] = copy[p]
      BY <2>1, <3>1, MakeIs
    <3>3. job'.pc = "meta"
      BY <2>3 DEF Becomes
    <3>4. \A p \in Paths : copy'[p] = copy[p] \/ copy'[p].dir
      BY <3>1, <3>2
    <3> QED
      BY <1>5, <2>1, <3>3, <3>4
  <2> QED
    BY <1>9, <2>2, <2>3, TypeIs
<1>10. CASE Open
  <2>1. /\ job.pc = "open" /\ job.child \in Paths /\ job.node \in Nat \X Nat /\ job.node \in Contents
        /\ Becomes("copy", job.todo, job.left, job.child, tree[job.child].id, job.pruned)
        /\ Make(job.child, [File EXCEPT !.seen = job.node])
    BY <1>10, OpenIs DEF Contents
  <2> PICK q \in Paths : q = job.child
    BY <2>1
  <2> DEFINE thing == [File EXCEPT !.seen = job.node]
  <2>2. thing \in Made /\ Make(q, thing) /\ thing.seen = job.node /\ thing.data = {}
    BY <2>1, FileIs
  <2> HIDE DEF thing
  <2>3. copy'[q] = thing /\ \A p \in Paths \ {q} : copy'[p] = copy[p]
    BY <2>2, MakeIs DEF TransferInv
  <2>4. job'.pc = "copy" /\ job'.child = q
    BY <2>1 DEF Becomes
  <2>5. Timely(q)'
    BY <2>1, <2>2, <2>3, <2>4 DEF Timely, Filled, Older
  <2>6. \A p \in Paths : Timely(p)'
    BY <1>4, <2>1, <2>3, <2>5
  <2>7. \E t \in was' : t[q] # None /\ copy'[q].seen = <<t[q].id, t[q].ver>>
    BY <1>2, <2>1, <2>2, <2>3 DEF Dated
  <2> QED
    BY <2>4, <2>6, <2>7 DEF Dated
<1>11. CASE Meta
  BY <1>5, <1>11, MetaIs DEF Becomes, Retouched
<1>12. CASE Stamp
  <2>1. /\ job'.pc = "done" /\ Retouched(job.child) /\ job.pc = "list"
        /\ \A q \in Paths : copy[q] # None => copy'[q].mtime = copy'[q].seen
    BY <1>12, StampIs DEF Becomes
  <2>2. \A p \in Paths : Timely(p)'
    <3> SUFFICES ASSUME NEW p \in Paths PROVE Timely(p)'
      OBVIOUS
    <3>1. CASE copy[p] # None
      BY <1>4, <2>1, <3>1 DEF Retouched
    <3>2. CASE copy[p] = None
      BY <2>1, <3>2 DEF Retouched, Timely
    <3> QED
      BY <3>1, <3>2
  <2>3. \A p \in Paths : copy'[p] # None => copy'[p].mtime = copy'[p].seen
    BY <2>1 DEF Retouched
  <2> QED
    BY <2>1, <2>2, <2>3 DEF Dated
<1>13. CASE GetRoot
  BY <1>5, <1>13, GetRootIs DEF Becomes
<1>14. CASE GetDone
  <2>1. job'.pc = "done" /\ job'.op = "get" /\ copy' = copy /\ job.pc = "list"
    BY <1>1, <1>14, GetDoneIs DEF Becomes
  <2>2. \A p \in Paths : Timely(p)'
    BY <1>4, <2>1
  <2> QED
    BY <2>1, <2>2 DEF Dated
<1>15. CASE Visit
  <2>1. PICK c \in job.left, pc \in {"child", "copy"}, child \in Seq(Names), node \in Nat \cup Contents :
          Visited(c, pc, child, node)
    BY <1>15, VisitIs
  <2>2. /\ job.pc = "child" /\ job'.pc = pc /\ job'.op = "get" /\ c.path \in Paths
        /\ job'.child = child
    BY <1>1, <2>1 DEF Visited, Becomes, Entries
  <2> PICK q \in Paths : q = c.path
    BY <2>2
  <2>3. CASE copy' = copy
    <3>1. \A p \in Paths : Timely(p)'
      BY <1>4, <2>2, <2>3
    <3> QED
      BY <2>2, <3>1 DEF Dated
  <2>4. CASE Make(q, Folder)
    <3>1. copy'[q].dir /\ \A p \in Paths \ {q} : copy'[p] = copy[p]
      <4>1. Folder \in Made /\ Folder.dir
        BY FolderIs
      <4> QED
        BY <2>4, <4>1, MakeIs DEF TransferInv
    <3>2. \A p \in Paths : Timely(p)'
      BY <1>4, <2>2, <3>1
    <3> QED
      BY <2>2, <3>2 DEF Dated
  <2>5. CASE Make(q, File) /\ pc = "copy" /\ child = q
    <3>1. copy'[q] = File /\ \A p \in Paths \ {q} : copy'[p] = copy[p]
      BY <2>5, FileIs, MakeIs DEF TransferInv
    <3>2. Timely(q)'
      BY <2>2, <2>5 DEF Timely, Filled
    <3>3. \A p \in Paths : Timely(p)'
      BY <1>4, <2>2, <3>1, <3>2
    <3> QED
      BY <2>2, <3>3 DEF Dated
  <2> QED
    BY <2>1, <2>3, <2>4, <2>5 DEF Visited
<1>16. CASE ReadPiece
  <2>1. /\ job.pc = "copy" /\ job.child \in Paths /\ job.node \in Nat
        /\ \E pc \in {"copy", "meta", "child"} :
             Becomes(pc, job.todo, job.left, job.child, job.node, job.pruned)
        /\ copy[job.child] \in Made /\ copy'[job.child].seen = copy[job.child].seen
        /\ copy'[job.child].data = copy[job.child].data \cup Pieces
        /\ copy'[job.child].dir = copy[job.child].dir
        /\ \A p \in Paths \ {job.child} : copy'[p] = copy[p]
    BY <1>16, ReadPieceIs
  <2> PICK q \in Paths : q = job.child
    BY <2>1
  <2>2. job'.child = q /\ job'.pc \in {"copy", "meta", "child"} /\ copy[q] # None
    BY <2>1, MadeAssumption DEF Becomes
  <2>3. Timely(q)'
    <3> SUFFICES ASSUME ~copy'[q].dir, Stayed(q)'
                 PROVE  Filled(q)' /\ (job'.op = "export" => Older(q)')
      BY DEF Timely
    <3>1. PICK t \in was : t[q] # None /\ ~t[q].dir /\ t[q].id = job.node
      BY <2>1 DEF Honest, Copying
    <3>2. Stayed(q) /\ tree[q] # None /\ tree[q].id = job.node
      BY <1>3, <3>1 DEF Stayed, Exists
    <3>3. t[q].dir = tree[q].dir
      BY <3>1, <3>2 DEF TransferInv, WasInv, Past
    <3>4. Content(q) \in Pieces
      BY <3>1, <3>2, <3>3 DEF Pieces, IsDoc, Exists
    <3>5. Filled(q)'
      <4> HIDE DEF Pieces
      <4> QED
        BY <2>1, <3>4 DEF Filled
    <3>6. ASSUME job.op = "export" PROVE Older(q)'
      <4>1. Older(q)
        BY <2>1, <2>2, <3>2, <3>6 DEF Dated, Timely
      <4>2. PICK u \in was : u[q] # None /\ copy[q].seen = <<u[q].id, u[q].ver>>
        BY <2>1, <3>6 DEF Dated
      <4>3. u[q].id = job.node
        BY <3>2, <4>2 DEF Stayed
      <4>4. ASSUME NEW d \in Pieces PROVE copy[q].seen[2] <= d[2]
        <5>1. PICK r \in Paths : IsDoc(r) /\ tree[r].id = job.node /\ d = <<tree[r].id, tree[r].ver>>
          BY PiecesAre
        <5>2. u[q].ver <= tree[r].ver
          BY <4>2, <4>3, <5>1 DEF TransferInv, WasInv, Past, IsDoc, Exists
        <5> QED
          BY <4>2, <5>1, <5>2
      <4> HIDE DEF Pieces
      <4> QED
        BY <2>1, <4>1, <4>4 DEF Older
    <3> QED
      BY <1>1, <3>5, <3>6
  <2>4. \A p \in Paths : Timely(p)'
    BY <1>4, <2>1, <2>3
  <2>5. job'.pc = "copy" /\ job'.op = "export" =>
          \E t \in was' : t[q] # None /\ copy'[q].seen = <<t[q].id, t[q].ver>>
    BY <1>1, <1>2, <2>1 DEF Dated
  <2> QED
    BY <2>2, <2>4, <2>5 DEF Dated
<1> QED
  BY <1>6, <1>7, <1>8, <1>9, <1>10, <1>11, <1>12, <1>13, <1>14, <1>15, <1>16 DEF Reader

LEMMA DatedStep ==
  ASSUME TransferInv, HonestInv, DatedInv, TransferNext
  PROVE  DatedInv'
<1>1. Witness /\ TransferInv'
  BY Steps, TransferStep
<1>2. CASE Aside
  <2> SUFFICES ASSUME Reads' PROVE Dated'
    BY DEF DatedInv
  <2>1. Reads /\ UNCHANGED <<job, copy>>
    BY <1>2 DEF Reads, Aside
  <2>2. Alive /\ Alive' /\ Dated
    BY <1>2, <2>1 DEF TransferInv, Begun, Reads, Aside, DatedInv
  <2>3. was \subseteq was'
    BY <1>1, <2>2, WasGrows
  <2>4. \A p : Stayed(p)' => Stayed(p)
    BY <1>1, <2>2, StayedBefore
  <2>5. \A p \in Paths : Timely(p)'
    BY <2>1, <2>2, <2>4 DEF Dated, Timely, Older, Filled
  <2> QED
    BY <2>1, <2>2, <2>3, <2>5 DEF Dated
<1>3. CASE Over
  BY <1>3, IdleIs DEF Over, Reads, DatedInv
<1>4. CASE Launched
  <2>1. job'.pc = "mount"
    BY <1>4, LaunchIs DEF Launched
  <2> QED
    BY <2>1 DEF Reads, DatedInv
<1>5. CASE Mount
  <2>1. job'.pc \in {"list", "root"} /\ copy' = Nothing
    BY <1>5, MountIs DEF Becomes
  <2> QED
    BY <2>1 DEF DatedInv, Dated, Timely, Nothing
<1>6. CASE Reader /\ ~Over
  <2>1. Reads /\ job'.op = job.op
    BY <1>6, ReaderIs, ReaderKeeps
  <2> QED
    BY <1>1, <1>6, <2>1, ReaderDates DEF DatedInv, HonestInv
<1>7. CASE Putter
  <2>1. Over \/ job'.op = "put"
    BY <1>7, PutterKeeps
  <2> QED
    BY <1>3, <2>1 DEF Reads, DatedInv
<1> QED
  BY <1>2, <1>3, <1>4, <1>5, <1>6, <1>7, Steps

LEMMA CopySteady == TransferSpec => [](TransferInv /\ HonestInv /\ CoverInv /\ DatedInv)
<1> DEFINE Inv == TransferInv /\ HonestInv /\ CoverInv /\ DatedInv
<1>1. TransferInit => CoverInv /\ DatedInv
  <2> SUFFICES ASSUME TransferInit PROVE CoverInv /\ DatedInv
    OBVIOUS
  <2>1. job = Idle
    BY DEF TransferInit
  <2> QED
    BY <2>1, IdleIs DEF CoverInv, DatedInv, Reads
<1>2. (TransferInv /\ HonestInv) /\ (CoverInv /\ DatedInv) /\ [TransferNext]_transferVars
      => (CoverInv /\ DatedInv)'
  <2> SUFFICES ASSUME TransferInv, HonestInv, CoverInv, DatedInv, [TransferNext]_transferVars
               PROVE  (CoverInv /\ DatedInv)'
    OBVIOUS
  <2>1. CASE TransferNext
    BY <2>1, CoverStep, DatedStep
  <2>2. CASE UNCHANGED transferVars
    <3>1. UNCHANGED <<job, copy, was, tree>>
      BY <2>2 DEF transferVars, ownVars, treeVars
    <3>2. \A p \in Paths : (Due(p)' => Due(p)) /\ (Opened(p)' <=> Opened(p)) /\ (Covered(p)' <=> Covered(p))
      BY <3>1, DueBefore DEF Opened, Covered, Among
    <3>3. CoverInv'
      BY <3>1, <3>2 DEF CoverInv, Cover, Reads
    <3>4. \A p : Stayed(p)' => Stayed(p)
      BY <3>1 DEF Stayed, Exists
    <3>5. DatedInv'
      BY <3>1, <3>4 DEF DatedInv, Dated, Timely, Filled, Older, Reads
    <3> QED
      BY <3>3, <3>5
  <2> QED
    BY <2>1, <2>2
<1> QED
  BY <1>1, <1>2, HonestSteady, PTL DEF TransferSpec

(* Smallest elements, which stand in for induction on a path.              *)
LEMMA SmallestSet ==
  ASSUME NEW T, T # {}, \A x \in T : IsFiniteSet(x)
  PROVE  \E x \in T : \A y \in T : y \subseteq x => y = x
<1> DEFINE U == UNION T
<1>1. IsWellFoundedOn(StrictSubsetOrdering(U), FiniteSubsetsOf(U))
  BY FS_StrictSubsetOrderingWellFounded
<1>2. T \subseteq FiniteSubsetsOf(U)
  BY DEF FiniteSubsetsOf
<1>3. \E x \in T : \A y \in T : ~(<<y, x>> \in StrictSubsetOrdering(U))
  BY <1>1, <1>2, WFMin
<1> QED
  BY <1>3 DEF StrictSubsetOrdering

LEMMA SmallestOf ==
  ASSUME NEW S \in SUBSET Nat, S # {}
  PROVE  \E m \in S : \A k \in S : m <= k
<1> DEFINE T == {x \in SUBSET Nat : \E m \in S : x = 0..m}
<1>1. T # {}
  <2>1. PICK m \in S : TRUE
    OBVIOUS
  <2>2. 0..m \in T
    OBVIOUS
  <2> QED
    BY <2>2
<1>2. ASSUME NEW x \in T PROVE IsFiniteSet(x)
  <2>1. PICK m \in S : x = 0..m
    OBVIOUS
  <2>2. m \in Int /\ 0 \in Int
    OBVIOUS
  <2> QED
    BY <2>1, <2>2, FS_Interval
<1>3. PICK x \in T : \A y \in T : y \subseteq x => y = x
  <2>1. \A x \in T : IsFiniteSet(x)
    BY <1>2
  <2> HIDE DEF T
  <2> QED
    BY <1>1, <2>1, SmallestSet
<1>4. PICK m \in S : x = 0..m
  OBVIOUS
<1>5. ASSUME NEW k \in S, ~(m <= k) PROVE FALSE
  <2>1. 0..k \in T /\ 0..k \subseteq x
    BY <1>4, <1>5
  <2>2. 0..k = x
    BY <1>3, <2>1
  <2>3. m \in x /\ m \notin 0..k
    BY <1>4, <1>5
  <2> QED
    BY <2>2, <2>3
<1> QED
  BY <1>5

(* Of the names that should be in a finished copy and are not, a shortest  *)
(* would have its parent in it, and so have been reached.                  *)
LEMMA NothingMissing ==
  ASSUME TransferInv, Honest, Cover, job.pc = "done", NEW p \in Paths, Due(p)
  PROVE  copy[p] # None
<1> SUFFICES ASSUME copy[p] = None PROVE FALSE
  OBVIOUS
<1> DEFINE Missing == {q \in Paths : Due(q) /\ copy[q] = None}
           Lengths == {Len(q) : q \in Missing}
<1>1. Lengths \in SUBSET Nat /\ Lengths # {}
  BY PathIsSeq
<1>2. PICK q \in Missing : \A r \in Missing : Len(q) <= Len(r)
  <2>1. PICK m \in Lengths : \A k \in Lengths : m <= k
    <3> HIDE DEF Lengths
    <3> QED
      BY <1>1, SmallestOf
  <2> QED
    BY <2>1
<1>3. q \in Paths /\ Due(q) /\ copy[q] = None
  OBVIOUS
<1> DEFINE r == Parent(q)
<1>4. /\ job.root \in Paths /\ q # Root /\ r \in Paths /\ Within(r, job.root)
      /\ Inside(q) => Inside(r)
  BY <1>3, InsideParent DEF Due, Honest
<1>5. Within(q, r) /\ q # r /\ Len(r) < Len(q) /\ Len(r) \in Nat /\ Len(q) \in Nat
  <2>1. Within(q, r) /\ q # r
    BY <1>3, <1>4, ParentAbove
  <2> QED
    BY <1>3, <1>4, <2>1, PathIsSeq, WithinShorter
<1>6. r \notin Missing
  BY <1>2, <1>5
<1>7. r = job.root \/ Due(r)
  <2>1. Copyable(r)
    BY <1>3, <1>4 DEF Due, Copyable
  <2>2. Lasting(r)
    BY <1>3, <1>4, <1>5 DEF Due, Lasting, TransferInv, WasInv, Past, Shaped
  <2> QED
    BY <1>4, <2>1, <2>2 DEF Due, Strictly
<1>8. Opened(q)
  BY <1>4, <1>6, <1>7 DEF Opened
<1>9. Covered(q) /\ job.left = {} /\ job.todo = <<>>
  BY <1>3, <1>8 DEF Cover
<1> QED
  BY <1>3, <1>9 DEF Covered, Among

(* CopyComplete: when export or get -r reports success, whatever kept its  *)
(* place while it ran is in the copy, with its kind and contents the node  *)
(* had meanwhile; and an exported file is not under a later time than any  *)
(* content that is in it.  Whatever others wrote between two reads, and    *)
(* moved, removed and created meanwhile.                                   *)
THEOREM CopiesAreComplete == TransferSpec => []CopyComplete
<1>1. TransferInv /\ HonestInv /\ CoverInv /\ DatedInv => CopyComplete
  <2> SUFFICES ASSUME TransferInv, HonestInv, CoverInv, DatedInv, Reading, job.pc = "done",
                      NEW p \in Paths, Wanted(p), Stayed(p)
               PROVE  /\ copy[p] # None
                      /\ copy[p].dir = tree[p].dir
                      /\ ~copy[p].dir =>
                           /\ copy[p].data # {} /\ copy[p].data \subseteq {<<t[p].id, t[p].ver>> : t \in was}
                           /\ job.op = "export" => \A d \in copy[p].data : copy[p].mtime[2] <= d[2]
    BY DEF CopyComplete
  <2>1. Reads /\ Honest /\ Cover /\ Dated
    BY ReadingReads DEF HonestInv, CoverInv, DatedInv
  <2>2. Due(p)
    BY DEF Wanted, Stayed, Due, Strictly, Copyable, Lasting
  <2>3. copy[p] # None
    BY <2>1, <2>2, NothingMissing
  <2>4. PICK t \in was : /\ t[p] # None /\ t[p].dir = copy[p].dir
                         /\ \A d \in copy[p].data : d[1] = t[p].id /\ HadContent(d)
    BY <2>1, <2>3 DEF Honest, WasCopied
  <2>5. t[p].dir = tree[p].dir
    BY <2>4 DEF Stayed, Exists, TransferInv, WasInv, Past
  <2>6. ~copy[p].dir => copy[p].data # {} /\ (job.op = "export" => \A d \in copy[p].data : copy[p].mtime[2] <= d[2])
    BY <2>1, <2>3 DEF Dated, Timely, Filled, Older
  <2>7. ASSUME NEW d \in copy[p].data
        PROVE  d \in {<<u[p].id, u[p].ver>> : u \in was}
    <3>1. PICK u \in was, q \in Paths : u[q] # None /\ d = <<u[q].id, u[q].ver>>
      BY <2>4 DEF HadContent
    <3>2. d[1] = u[q].id /\ d[1] = t[p].id
      BY <2>4, <3>1
    <3>3. u[p] # None /\ u[p].id = tree[p].id /\ t[p].id = tree[p].id
      BY DEF Stayed
    <3>4. Unique(u)
      BY DEF TransferInv, WasInv, Past
    <3>5. p = q
      BY <3>1, <3>2, <3>3, <3>4 DEF Unique
    <3> QED
      BY <3>1, <3>5
  <2> QED
    BY <2>3, <2>4, <2>5, <2>6, <2>7
<1> QED
  BY <1>1, CopySteady, PTL

---------------------------------------------------------------------------
(* What put -r has to send, and what it sent                               *)

Sent(p) == copy[p] # None /\ copy[p].data = {Content(p)}

Putting == job.op = "put" /\ job.pc \notin {"idle", "mount", "root"} /\ outside = job.since

PutSoFar ==
  /\ \A c \in LocalDocs \ job.left :
       /\ IsDoc(job.root \o c)
       /\ (job.pc = "close" /\ job.child = job.root \o c) \/ Sent(job.root \o c)
  /\ job.pc = "close" => job.child \in Paths /\ IsDoc(job.child) /\ tree[job.child].id = job.node
  /\ job.pc = "done" => job.left = {}

PutInv == Putting => PutSoFar

(* What is kept with its copy stays sent.                                  *)
LEMMA SentKept ==
  ASSUME copy' = copy, Keeps, NEW p \in Paths, IsDoc(p)
  PROVE  IsDoc(p)' /\ (Sent(p) => Sent(p)')
<1>1. tree'[p] = tree[p]
  BY DEF Keeps, IsDoc, Exists
<1> QED
  BY <1>1 DEF IsDoc, Exists, Sent, Content

LEMMA PutterSends ==
  ASSUME TransferInv, PutInv, Putter, ~Over
  PROVE  PutInv'
<1> SUFFICES ASSUME Putting' PROVE PutSoFar'
  BY DEF PutInv
<1>1. job.op = "put" /\ job.pc \notin {"idle", "mount"} /\ TransferInv
  BY PutterKeeps
<1>2. job.pc # "root" => Room(job.root)
  BY <1>1 DEF TransferInv, Phases
<1>3. Quiet => Keeps
  BY DEF Quiet, Keeps
<1>4. ASSUME NEW pc \in {"look", "local", "parents", "make", "done"}, PutOn(pc, job.left), job.pc # "close",
             copy' = copy, Keeps, UNCHANGED outside, pc = "done" => job.left = {}
      PROVE  PutSoFar'
  <2>1. PutSoFar /\ Room(job.root)
    BY <1>2, <1>4 DEF PutInv, Putting, PutOn
  <2>2. ASSUME NEW c \in LocalDocs \ job.left
        PROVE  IsDoc(job.root \o c)' /\ Sent(job.root \o c)'
    <3>1. job.root \o c \in Paths /\ IsDoc(job.root \o c) /\ Sent(job.root \o c)
      BY <1>4, <2>1, <2>2 DEF PutSoFar, Room
    <3> PICK p \in Paths : p = job.root \o c
      BY <3>1
    <3>2. IsDoc(p)' /\ Sent(p)'
      BY <1>4, <3>1, SentKept
    <3>3. job'.root \o c = p
      BY <1>4 DEF PutOn
    <3> QED
      BY <3>2, <3>3 DEF IsDoc, Exists, Sent, Content
  <2> QED
    BY <1>4, <2>2 DEF PutSoFar, PutOn
<1>5. CASE PutRoot
  BY <1>5, PutRootIs DEF PutSoFar
<1>6. CASE LookFor
  BY <1>3, <1>4, <1>6, LookForIs DEF Quiet
<1>7. CASE Parents
  BY <1>3, <1>4, <1>7, ParentsIs DEF Quiet
<1>8. CASE MakeNext
  BY <1>4, <1>8, MakeNextIs
<1>9. CASE PutDone
  BY <1>3, <1>4, <1>9, PutDoneIs DEF Quiet
<1>10. CASE LocalDir
  <2>1. PICK d \in LocalDirs : PutOn("look", job.left \ {d}) /\ job.pc = "local" /\ copy' = copy /\ Quiet
    BY <1>10, LocalDirIs
  <2>2. LocalDocs \ job'.left = LocalDocs \ job.left
    BY <2>1, TransferAssumption DEF PutOn
  <2>3. PutSoFar /\ Room(job.root)
    BY <1>2, <2>1 DEF PutInv, Putting, PutOn, Quiet
  <2>4. job'.pc = "look" /\ job'.root = job.root /\ tree' = tree
    BY <2>1 DEF PutOn, Quiet
  <2> QED
    BY <2>1, <2>2, <2>3, <2>4 DEF PutSoFar, IsDoc, Exists, Sent, Content
<1>11. CASE LocalDoc
  <2>1. PICK d \in LocalDocs :
          /\ PutOn("close", job.left \ {d}) /\ job.pc = "local" /\ d \in job.left
          /\ copy' = copy /\ UNCHANGED <<outside, rows>>
          /\ job'.child = job.root \o d /\ job'.child \in Paths
          /\ job'.node = tree'[job'.child].id
          /\ tree'[job'.child] # None /\ ~tree'[job'.child].dir
          /\ Keeps /\ Grows(tree', fresh')
    BY <1>11, LocalDocIs
  <2>2. PutSoFar /\ Room(job.root)
    BY <1>2, <2>1 DEF PutInv, Putting, PutOn
  <2>3. job'.pc = "close" /\ job'.root = job.root /\ job'.left = job.left \ {d}
    BY <2>1 DEF PutOn
  <2>4. ASSUME NEW c \in LocalDocs \ job'.left
        PROVE  IsDoc(job.root \o c)' /\ (job.child = job.root \o c \/ Sent(job.root \o c))'
    <3>1. CASE c = d
      BY <2>1, <2>3, <3>1 DEF IsDoc, Exists
    <3>2. CASE c # d
      <4>1. job.root \o c \in Paths /\ IsDoc(job.root \o c) /\ Sent(job.root \o c)
        BY <2>1, <2>2, <2>3, <3>2 DEF PutSoFar, Room
      <4> PICK p \in Paths : p = job.root \o c
        BY <4>1
      <4>2. IsDoc(p)' /\ Sent(p)'
        BY <2>1, <4>1, SentKept
      <4> QED
        BY <2>3, <4>2 DEF IsDoc, Exists, Sent, Content
    <3> QED
      BY <3>1, <3>2
  <2> QED
    BY <2>1, <2>3, <2>4 DEF PutSoFar, IsDoc, Exists
<1>12. CASE CloseDoc
  <2>1. /\ PutOn("local", job.left) /\ job.pc = "close" /\ UNCHANGED <<outside, rows>>
        /\ \A q \in Paths : IF Exists(q) /\ tree[q].id = job.node THEN Closed(q)
                            ELSE tree'[q] = tree[q] /\ copy'[q] = copy[q]
    BY <1>12, CloseDocIs
  <2>2. PutSoFar /\ Room(job.root)
    BY <1>2, <2>1 DEF PutInv, Putting, PutOn
  <2>3. job'.pc = "local" /\ job'.root = job.root /\ job'.left = job.left
    BY <2>1 DEF PutOn
  <2>4. ASSUME NEW c \in LocalDocs \ job'.left
        PROVE  IsDoc(job.root \o c)' /\ Sent(job.root \o c)'
    <3>1. job.root \o c \in Paths /\ IsDoc(job.root \o c)
      BY <2>2, <2>3 DEF PutSoFar, Room
    <3> PICK p \in Paths : p = job.root \o c
      BY <3>1
    <3>2. job.child = p \/ Sent(p)
      BY <2>2, <2>3 DEF PutSoFar
    <3>3. CASE Exists(p) /\ tree[p].id = job.node
      <4>1. Closed(p)
        BY <2>1, <3>3
      <4>2. ~tree[p].dir /\ tree'[p].dir = tree[p].dir /\ tree'[p] # None
        BY <3>1, <4>1 DEF Closed, IsDoc
      <4>3. IsDoc(p)' /\ Sent(p)'
        BY <4>1, <4>2 DEF Closed, IsDoc, Exists, Sent
      <4> QED
        BY <2>3, <4>3 DEF IsDoc, Exists, Sent, Content
    <3>4. CASE ~(Exists(p) /\ tree[p].id = job.node)
      <4>1. tree'[p] = tree[p] /\ copy'[p] = copy[p]
        BY <2>1, <3>4
      <4>2. Sent(p)
        BY <2>1, <2>2, <3>2, <3>4 DEF PutSoFar, IsDoc
      <4>3. IsDoc(p)' /\ Sent(p)'
        BY <3>1, <4>1, <4>2 DEF IsDoc, Exists, Sent, Content
      <4> QED
        BY <2>3, <4>3 DEF IsDoc, Exists, Sent, Content
    <3> QED
      BY <3>3, <3>4
  <2> QED
    BY <2>3, <2>4 DEF PutSoFar
<1> QED
  BY <1>5, <1>6, <1>7, <1>8, <1>9, <1>10, <1>11, <1>12 DEF Putter

LEMMA PutStep ==
  ASSUME TransferInv, PutInv, TransferNext
  PROVE  PutInv'
<1>1. CASE Aside
  <2> SUFFICES ASSUME Putting' PROVE PutSoFar'
    BY DEF PutInv
  <2>1. outside = job.since /\ tree' = tree
    <3>1. /\ outside \in Nat /\ outside' \in Nat /\ job.since \in Nat
          /\ job.since <= outside /\ outside <= outside' /\ outside' = job.since
      BY <1>1, JobFields DEF TransferInv, JobTypes, Begun, Aside, Putting
    <3>2. outside = job.since /\ outside' = outside
      BY <3>1
    <3> QED
      BY <1>1, <3>2 DEF Aside
  <2>2. PutSoFar
    BY <1>1, <2>1 DEF PutInv, Putting, Aside
  <2> QED
    BY <1>1, <2>1, <2>2 DEF Aside, PutSoFar, IsDoc, Exists, Sent, Content
<1>2. CASE Over
  BY <1>2, IdleIs DEF Over, PutInv, Putting
<1>3. CASE Launched
  <2>1. job'.pc = "mount"
    BY <1>3, LaunchIs DEF Launched
  <2> QED
    BY <2>1 DEF PutInv, Putting
<1>4. CASE Mount
  <2>1. job'.op = "put" => job'.pc = "root"
    BY <1>4, MountIs DEF Becomes
  <2> QED
    BY <2>1 DEF PutInv, Putting
<1>5. CASE Reader
  <2>1. job.op # "put"
    BY <1>5, ReaderIs DEF Reads
  <2>2. Over \/ job'.op # "put"
    BY <1>5, <2>1, ReaderKeeps
  <2> QED
    BY <1>2, <2>2 DEF PutInv, Putting
<1>6. CASE Putter
  BY <1>2, <1>6, PutterSends
<1> QED
  BY <1>1, <1>2, <1>3, <1>4, <1>5, <1>6, Steps

(* PutComplete: when put -r reports success and no session was at work     *)
(* since it began, the entry of every local file has what the command      *)
(* committed there as its current content, also where an earlier command   *)
(* that failed had left half of the tree.                                  *)
THEOREM PutsAreComplete == TransferSpec => []PutComplete
<1>1. TransferInit => PutInv
  <2> SUFFICES ASSUME TransferInit PROVE PutInv
    OBVIOUS
  <2>1. job = Idle
    BY DEF TransferInit
  <2> QED
    BY <2>1, IdleIs DEF PutInv, Putting
<1>2. TransferInv /\ PutInv /\ [TransferNext]_transferVars => PutInv'
  <2> SUFFICES ASSUME TransferInv, PutInv, [TransferNext]_transferVars
               PROVE  PutInv'
    OBVIOUS
  <2>1. CASE UNCHANGED transferVars
    <3>1. UNCHANGED <<job, copy, tree, outside>>
      BY <2>1 DEF transferVars, ownVars, treeVars
    <3> QED
      BY <3>1 DEF PutInv, Putting, PutSoFar, IsDoc, Exists, Sent, Content
  <2> QED
    BY <2>1, PutStep
<1>3. TransferInv /\ PutInv => PutComplete
  <2> SUFFICES ASSUME TransferInv, PutInv, Doing("put", "done"), outside = job.since, NEW c \in LocalDocs
               PROVE  LET p == job.root \o c IN
                      IsDoc(p) /\ copy[p] # None /\ copy[p].data = {Content(p)}
    BY DEF PutComplete
  <2>1. job.pc = "done" /\ PutSoFar
    BY DEF Doing, PutInv, Putting
  <2>2. IsDoc(job.root \o c) /\ Sent(job.root \o c)
    BY <2>1 DEF PutSoFar
  <2> QED
    BY <2>2 DEF Sent
<1> QED
  BY <1>1, <1>2, <1>3, TransferSteady, PTL DEF TransferSpec

---------------------------------------------------------------------------
(* Types                                                                   *)

(* Ids start at one; the counters stay in their bounds.                    *)
Positive == fresh # 0 /\ \A p \in Paths : tree[p] # None => tree[p].id # 0

Tallied == rows \subseteq {"job", "session", "left"} /\ taken \in BOOLEAN /\ begun \in 0..MaxCommands

LEMMA PositiveStays ==
  ASSUME TreeInv, Positive, Grows(tree', fresh')
  PROVE  Positive'
<1>1. fresh \in Nat /\ fresh' \in Nat /\ fresh <= fresh' /\ fresh # 0 /\ tree' \in Trees
  BY DEF TreeInv, Positive, Grows
<1>2. ASSUME NEW q \in Paths, tree'[q] # None
      PROVE  tree'[q].id # 0
  <2>1. CASE tree'[q].id >= fresh
    <3>1. tree'[q].id \in Nat
      BY <1>1, <1>2, NodeFields
    <3> QED
      BY <1>1, <2>1, <3>1
  <2>2. CASE \E p \in Paths : tree[p] # None /\ tree[p].id = tree'[q].id
    BY <2>2 DEF Positive
  <2> QED
    BY <1>2, <2>1, <2>2 DEF Grows, Follows
<1> QED
  BY <1>1, <1>2 DEF Positive

LEMMA PositiveStart ==
  ASSUME TreeInit
  PROVE  Positive
<1>1. Cardinality(Dirs \cup Docs) \in Nat /\ fresh = Cardinality(Dirs \cup Docs) + 1
  BY StartAssumption, FS_CardinalityType DEF TreeInit
<1>2. ASSUME NEW p \in Paths, tree[p] # None
      PROVE  tree[p].id # 0
  <2>1. p \in Dirs \cup Docs
    BY <1>2 DEF TreeInit
  <2>2. Ids[p] \in 1..Cardinality(Dirs \cup Docs)
    BY <2>1, IdsExist
  <2>3. tree[p] = Node(Ids[p], TRUE, 0) \/ tree[p] = Node(Ids[p], FALSE, 1)
    BY <2>1 DEF TreeInit
  <2>4. tree[p].id = Ids[p]
    BY <2>3 DEF Node
  <2> QED
    BY <1>1, <2>2, <2>4
<1> QED
  BY <1>1, <1>2 DEF Positive

LEMMA TalliedStays ==
  ASSUME Tallied, TransferNext
  PROVE  Tallied'
<1> USE DEF Tallied
<1>1. UNCHANGED <<rows, taken, begun>> => Tallied'
  OBVIOUS
<1>2. Leave => Tallied'
  BY DEF Leave
<1>3. ASSUME NEW op, NEW root, Launch(op, root), taken' \in BOOLEAN
      PROVE  Tallied'
  <2>1. begun < MaxCommands /\ begun' = begun + 1 /\ rows' = rows
    BY <1>3 DEF Launch
  <2> QED
    BY <1>3, <2>1, TransferAssumption
<1>4. CASE BeginExport
  BY <1>3, <1>4 DEF BeginExport, NewVolume
<1>5. ASSUME NEW p \in Targets, BeginPut(p) \/ BeginGet(p) PROVE Tallied'
  BY <1>3, <1>5 DEF BeginPut, BeginGet
<1>6. CASE Mount
  BY <1>6 DEF Mount
<1>7. CASE MountRefused \/ Finish
  BY <1>2, <1>7 DEF MountRefused, Finish
<1>8. CASE GetRoot \/ List \/ Listed \/ Stat \/ Type \/ Open \/ ReadPiece
  <2>1. CASE GetRoot \/ List \/ Listed
    BY <1>1, <1>2, <2>1 DEF GetRoot, List, Listed
  <2>2. CASE Stat \/ Type
    BY <1>1, <1>2, <2>2 DEF Stat, Type
  <2>3. CASE Open \/ ReadPiece
    BY <1>1, <1>2, <2>3 DEF Open, ReadPiece
  <2> QED
    BY <1>8, <2>1, <2>2, <2>3
<1>9. CASE Meta \/ Stamp \/ Visit \/ GetDone \/ PutRoot \/ LookFor \/ Parents
  <2>1. CASE Visit
    <3>1. UNCHANGED <<rows, taken, begun>> \/ Leave
      BY <2>1 DEF Visit
    <3> QED
      BY <1>1, <1>2, <3>1
  <2>2. CASE Meta \/ Stamp \/ GetDone
    BY <1>1, <1>2, <2>2 DEF Meta, Stamp, GetDone
  <2>3. CASE PutRoot \/ LookFor \/ Parents
    BY <1>1, <1>2, <2>3 DEF PutRoot, LookFor, Parents
  <2> QED
    BY <1>9, <2>1, <2>2, <2>3
<1>10. CASE MakeNext \/ LocalDir \/ LocalDoc \/ CloseDoc \/ PutDone
  BY <1>1, <1>2, <1>10 DEF MakeNext, LocalDir, LocalDoc, CloseDoc, PutDone
<1>11. CASE Join \/ Quit
  BY <1>11 DEF Join, Quit
<1>12. CASE Session
  BY <1>1, <1>12 DEF Session, ownVars
<1>13. CASE Die
  BY <1>13 DEF Die
<1> QED
  BY <1>4, <1>5, <1>6, <1>7, <1>8, <1>9, <1>10, <1>11, <1>12, <1>13 DEF TransferNext, Command

(* The tree a command walks is one: a node's id has been given out, what   *)
(* is above a name is a directory; a command that is over is forgotten.    *)
THEOREM TransfersAreTyped == TransferSpec => []TransferTypes
<1>1. TransferInit => Positive /\ Tallied
  <2> SUFFICES ASSUME TransferInit PROVE Positive /\ Tallied
    OBVIOUS
  <2>1. Positive
    BY PositiveStart DEF TransferInit
  <2>2. rows = {} /\ taken = FALSE /\ begun = 0 /\ 0 \in 0..MaxCommands
    BY TransferAssumption DEF TransferInit
  <2> QED
    BY <2>1, <2>2 DEF Tallied
<1>2. TransferInv /\ (Positive /\ Tallied) /\ [TransferNext]_transferVars => (Positive /\ Tallied)'
  <2> SUFFICES ASSUME TransferInv, Positive, Tallied, [TransferNext]_transferVars
               PROVE  (Positive /\ Tallied)'
    OBVIOUS
  <2>1. CASE TransferNext
    BY <2>1, TransferStep, PositiveStays, TalliedStays DEF TransferInv
  <2>2. CASE UNCHANGED transferVars
    BY <2>2 DEF transferVars, treeVars, ownVars, Positive, Tallied
  <2> QED
    BY <2>1, <2>2
<1>3. TransferInv /\ Positive /\ Tallied => TransferTypes
  <2> SUFFICES ASSUME TransferInv, Positive, Tallied PROVE TransferTypes
    OBVIOUS
  <2>1. ASSUME NEW p \in Paths, tree[p] # None PROVE tree[p].id \in 1..fresh - 1
    <3>1. tree[p].id \in Nat /\ tree[p].id # 0 /\ tree[p].id < fresh /\ fresh \in Nat
      BY <2>1, NodeFields DEF TransferInv, TreeInv, Given, Positive
    <3> QED
      BY <3>1
  <2>2. ASSUME NEW p \in Paths, Exists(p), p # Root PROVE IsDir(Parent(p))
    <3>1. Parent(p) \in Paths /\ Within(p, Parent(p)) /\ p # Parent(p)
      BY <2>2, ParentAbove
    <3> QED
      BY <2>2, <3>1 DEF TransferInv, TreeInv, Shaped, Exists, IsDir
  <2>3. job = Idle <=> job.pc = "idle"
    BY IdleIs DEF TransferInv, Begun
  <2> QED
    BY <2>1, <2>2, <2>3 DEF TransferTypes, Tallied
<1> QED
  BY <1>1, <1>2, <1>3, TransferSteady, PTL DEF TransferSpec
====
