---- MODULE NamespaceProofs ----
(***************************************************************************)
(* Theorems about the naming half of a volume (Namespace.tla), and that it *)
(* implements a tree of paths (NamespaceRefinement.tla, PathTree.tla).     *)
(***************************************************************************)
EXTENDS NamespaceRefinement, TLAPS, FiniteSetTheorems, SequenceTheorems

---------------------------------------------------------------------------
(* Smallest elements, which stand in for induction                         *)

LEMMA SmallestSet ==
  ASSUME NEW T, T # {}, \A x \in T : IsFiniteSet(x)
  PROVE  \E x \in T : \A y \in T : y \subseteq x => y = x
<1> DEFINE U == UNION T
<1>1. IsWellFoundedOn(StrictSubsetOrdering(U), FiniteSubsetsOf(U))
  BY FS_StrictSubsetOrderingWellFounded
<1>2. T \subseteq FiniteSubsetsOf(U)
  BY DEF FiniteSubsetsOf
<1>3. \E x \in T : \A y \in T : ~(<<y, x>> \in StrictSubsetOrdering(U))
  BY <1>1, <1>2, WFMin
<1> QED
  BY <1>3 DEF StrictSubsetOrdering

LEMMA SmallestOf ==
  ASSUME NEW S \in SUBSET Nat, S # {}
  PROVE  \E m \in S : \A k \in S : m <= k
<1> DEFINE T == {x \in SUBSET Nat : \E m \in S : x = 0..m}
<1>1. T # {}
  <2>1. PICK m \in S : TRUE
    OBVIOUS
  <2>2. 0..m \in T
    OBVIOUS
  <2> QED
    BY <2>2
<1>2. ASSUME NEW x \in T PROVE IsFiniteSet(x)
  <2>1. PICK m \in S : x = 0..m
    OBVIOUS
  <2>2. m \in Int /\ 0 \in Int
    OBVIOUS
  <2> QED
    BY <2>1, <2>2, FS_Interval
<1>3. PICK x \in T : \A y \in T : y \subseteq x => y = x
  <2>1. \A x \in T : IsFiniteSet(x)
    BY <1>2
  <2> HIDE DEF T
  <2> QED
    BY <1>1, <2>1, SmallestSet
<1>4. PICK m \in S : x = 0..m
  OBVIOUS
<1>5. ASSUME NEW k \in S, ~(m <= k) PROVE FALSE
  <2>1. 0..k \in T /\ 0..k \subseteq x
    BY <1>4, <1>5
  <2>2. 0..k = x
    BY <1>3, <2>1
  <2>3. m \in x /\ m \notin 0..k
    BY <1>4, <1>5
  <2> QED
    BY <2>2, <2>3
<1> QED
  BY <1>5

LEMMA LargestOf ==
  ASSUME NEW n \in Nat, NEW S \in SUBSET (0..n), S # {}
  PROVE  \E m \in S : \A k \in S : m >= k
<1> DEFINE T == {x \in Nat : x <= n /\ n - x \in S}
<1>1. T \in SUBSET Nat
  OBVIOUS
<1>2. T # {}
  <2>1. PICK k \in S : TRUE
    OBVIOUS
  <2>2. k \in Nat /\ k <= n /\ n - (n - k) = k /\ n - k \in Nat /\ n - k <= n
    OBVIOUS
  <2>3. n - k \in T
    BY <2>2
  <2> QED
    BY <2>3
<1>3. PICK t \in T : \A u \in T : t <= u
  <2> HIDE DEF T
  <2> QED
    BY <1>1, <1>2, SmallestOf
<1>4. ASSUME NEW k \in S PROVE n - t >= k
  <2>1. k \in Nat /\ k <= n /\ n - (n - k) = k /\ n - k \in Nat /\ n - k <= n
    OBVIOUS
  <2>2. n - k \in T
    BY <2>1
  <2>3. t <= n - k
    BY <1>3, <2>2
  <2> QED
    BY <2>1, <2>3
<1> QED
  BY <1>4

---------------------------------------------------------------------------
(* Reachability along active edges                                         *)

(* Subtree, of any sequence of edges: the theorems speak of the edges before *)
(* and after a step.                                                        *)
Active(E) == {e \in DOMAIN E : ~E[e].archived}

Reach(E, r) ==
    LET within[S \in SUBSET Nat] ==
            LET below == {E[e].to : e \in {x \in Active(E) : E[x].from \in S}}
            IN  IF below \subseteq S THEN S ELSE within[S \cup below]
    IN  within[{r}]

Closed(E, S) == \A e \in Active(E) : E[e].from \in S => E[e].to \in S

Children(E, S) == {E[e].to : e \in {x \in Active(E) : E[x].from \in S}}

LEMMA ReachIsSubtree ==
  ASSUME NEW r
  PROVE  Subtree(r) = Reach(edge, r) /\ Subtree(r)' = Reach(edge', r')
BY DEF Subtree, ActiveEdges, Reach, Active

(* The least closed set above S, which the recursion reaches step by step. *)
Closure(E, S) == {x \in Nat : \A C \in SUBSET Nat : S \subseteq C /\ Closed(E, C) => x \in C}

LEMMA EdgeFields ==
  ASSUME NEW E \in Seq(EdgeRow), NEW e \in DOMAIN E
  PROVE  /\ e \in Nat \ {0}
         /\ E[e] \in EdgeRow /\ E[e].from \in Nat /\ E[e].to \in Nat
         /\ E[e].name \in Names /\ E[e].archived \in BOOLEAN
<1>1. e \in Nat \ {0} /\ E[e] \in EdgeRow
  OBVIOUS
<1> QED
  BY <1>1 DEF EdgeRow

LEMMA ActiveIn ==
  ASSUME NEW E
  PROVE  Active(E) \subseteq DOMAIN E
BY DEF Active

LEMMA ActiveFinite ==
  ASSUME NEW E \in Seq(EdgeRow)
  PROVE  IsFiniteSet(DOMAIN E) /\ IsFiniteSet(Active(E))
<1>1. DOMAIN E = 1..Len(E) /\ Len(E) \in Int
  OBVIOUS
<1>2. IsFiniteSet(DOMAIN E)
  BY <1>1, FS_Interval
<1> QED
  BY <1>2, FS_Subset DEF Active

LEMMA ChildrenInNat ==
  ASSUME NEW E \in Seq(EdgeRow), NEW S
  PROVE  Children(E, S) \subseteq Nat
BY EdgeFields, ActiveIn DEF Children

LEMMA ClosedChildren ==
  ASSUME NEW E, NEW S
  PROVE  Closed(E, S) <=> Children(E, S) \subseteq S
BY DEF Children, Closed

LEMMA ClosureSteps ==
  ASSUME NEW E \in Seq(EdgeRow), NEW S \in SUBSET Nat
  PROVE  Closure(E, S) = IF Children(E, S) \subseteq S THEN S
                         ELSE Closure(E, S \cup Children(E, S))
<1>1. CASE Children(E, S) \subseteq S
  BY <1>1, ClosedChildren DEF Closure
<1>2. ASSUME NEW C \in SUBSET Nat, Closed(E, C), S \subseteq C
      PROVE  S \cup Children(E, S) \subseteq C
  BY <1>2 DEF Closed, Children
<1> QED
  BY <1>1, <1>2 DEF Closure

(* The recursion of Subtree has a solution, and its value is the closure.     *)
LEMMA ReachIsClosure ==
  ASSUME NEW E \in Seq(EdgeRow), NEW r \in Nat
  PROVE  Reach(E, r) = Closure(E, {r})
<1> DEFINE Def(w, S) == IF Children(E, S) \subseteq S THEN S ELSE w[S \cup Children(E, S)]
           within == CHOOSE w : w = [S \in SUBSET Nat |-> Def(w, S)]
           w0 == [S \in SUBSET Nat |-> Closure(E, S)]
           Todo(S) == Children(E, Nat) \ S
           wrong == {S \in SUBSET Nat : within[S] # Closure(E, S)}
<1>1. w0 = [S \in SUBSET Nat |-> Def(w0, S)]
  <2>1. ASSUME NEW S \in SUBSET Nat PROVE w0[S] = Def(w0, S)
    <3>1. S \cup Children(E, S) \in SUBSET Nat
      BY ChildrenInNat
    <3> QED
      BY <3>1, ClosureSteps
  <2> QED
    BY <2>1
<1>2. within = [S \in SUBSET Nat |-> Def(within, S)]
  BY <1>1
<1>3. \A S \in SUBSET Nat : within[S] = Def(within, S)
  <2> HIDE DEF within
  <2> QED
    BY <1>2
<1>4. Reach(E, r) = within[{r}]
  BY DEF Reach, Children
<1> HIDE DEF within
<1>5. ASSUME wrong # {} PROVE FALSE
  <2> DEFINE T == {Todo(S) : S \in wrong}
  <2>1. \A x \in T : IsFiniteSet(x)
    <3> DEFINE heads == {E[e].to : e \in Active(E)}
               f == [e \in Active(E) |-> E[e].to]
    <3>1. f \in Surjection(Active(E), heads)
      BY DEF Surjection
    <3>2. IsFiniteSet(heads)
      <4> HIDE DEF f, heads
      <4> QED
        BY <3>1, ActiveFinite, FS_Surjection
    <3>3. \A S : Todo(S) \in SUBSET heads
      BY DEF Children
    <3> HIDE DEF heads
    <3> QED
      BY <3>2, <3>3, FS_Subset
  <2>2. T # {}
    BY <1>5
  <2>3. PICK x \in T : \A y \in T : y \subseteq x => y = x
    <3> HIDE DEF T
    <3> QED
      BY <2>1, <2>2, SmallestSet
  <2>4. PICK S \in wrong : x = Todo(S)
    OBVIOUS
  <2>5. S \in SUBSET Nat /\ within[S] # Closure(E, S)
    OBVIOUS
  <2>6. ~(Children(E, S) \subseteq S)
    BY <1>3, <2>5, ClosureSteps
  <2> DEFINE S2 == S \cup Children(E, S)
  <2>7. S2 \in SUBSET Nat
    BY <2>5, ChildrenInNat
  <2>8. within[S2] # Closure(E, S2)
    BY <1>3, <2>5, <2>6, ClosureSteps
  <2>9. Todo(S2) \in T
    BY <2>7, <2>8
  <2>10. Children(E, S) \subseteq Children(E, Nat)
    BY <2>5 DEF Children
  <2>11. Todo(S2) \subseteq Todo(S) /\ Todo(S2) # Todo(S)
    BY <2>6, <2>10
  <2> QED
    BY <2>3, <2>4, <2>9, <2>11
<1> QED
  BY <1>4, <1>5

(* What the theorems use of a subtree. *)
LEMMA ReachLeast ==
  ASSUME NEW E \in Seq(EdgeRow), NEW r \in Nat
  PROVE  /\ r \in Reach(E, r)
         /\ Reach(E, r) \subseteq Nat
         /\ Closed(E, Reach(E, r))
         /\ \A S \in SUBSET Nat : r \in S /\ Closed(E, S) => Reach(E, r) \subseteq S
<1>1. Closed(E, Nat)
  BY EdgeFields, ActiveIn DEF Closed
<1>2. Closed(E, Closure(E, {r}))
  <2> SUFFICES ASSUME NEW e \in Active(E), E[e].from \in Closure(E, {r})
               PROVE  E[e].to \in Closure(E, {r})
    BY DEF Closed
  <2>1. E[e].to \in Nat
    BY EdgeFields, ActiveIn
  <2> QED
    BY <2>1 DEF Closure, Closed
<1> QED
  BY <1>2, ReachIsClosure DEF Closure

---------------------------------------------------------------------------
(* Paths                                                                   *)

LEMMA RowFields ==
  ASSUME TypeOK, NEW e \in DOMAIN edge
  PROVE  /\ edge \in Seq(EdgeRow) /\ edge[e] \in EdgeRow
         /\ edge[e].from \in DOMAIN node /\ edge[e].to \in DOMAIN node
         /\ edge[e].name \in Names /\ edge[e].archived \in BOOLEAN
         /\ e \in Nat /\ edge[e].from \in Nat \ {0} /\ edge[e].to \in Nat \ {0}
<1>1. edge \in Seq(EdgeRow) /\ {edge[e].from, edge[e].to} \subseteq DOMAIN node
  BY DEF TypeOK
<1>2. DOMAIN node \subseteq Nat \ {0}
  BY DEF TypeOK
<1> QED
  BY <1>1, <1>2, EdgeFields

(* A name that is found is that of an active placement. *)
LEMMA LookupFinds ==
  ASSUME TypeOK, NEW c, NEW name, Lookup(c, name) # 0
  PROVE  \E e \in ActiveEdges : edge[e].from = c /\ edge[e].name = name
                                /\ edge[e].to = Lookup(c, name)
<1> DEFINE hits == {edge[e].to : e \in {x \in EdgesFrom(c) : edge[x].name = name}}
<1>1. hits \in SUBSET (0..Len(node))
  BY RowFields DEF EdgesFrom, ActiveEdges, TypeOK
<1>2. hits # {} /\ Lookup(c, name) = CHOOSE n \in hits : \A k \in hits : n >= k
  BY DEF Lookup
<1>3. \E n \in hits : \A k \in hits : n >= k
  <2>1. Len(node) \in Nat
    BY DEF TypeOK
  <2> HIDE DEF hits
  <2> QED
    BY <1>1, <1>2, <2>1, LargestOf
<1>4. Lookup(c, name) \in hits
  <2> HIDE DEF hits
  <2> QED
    BY <1>2, <1>3
<1> QED
  BY <1>4 DEF EdgesFrom

LEMMA LookupTypes ==
  ASSUME TypeOK, NEW c, NEW name
  PROVE  /\ Lookup(c, name) \in {0} \cup DOMAIN node
         /\ c = 0 => Lookup(c, name) = 0
BY LookupFinds, RowFields DEF ActiveEdges

LEMMA FrontIs ==
  ASSUME NEW path \in Seq(Names), path # <<>>
  PROVE  /\ Front(path) \in Seq(Names) /\ Len(Front(path)) = Len(path) - 1
         /\ \A i \in 1..(Len(path) - 1) : Front(path)[i] = path[i]
         /\ Last(path) \in Names
<1>1. Len(path) \in Nat /\ Len(path) # 0 /\ DOMAIN path = 1..Len(path)
  OBVIOUS
<1> DEFINE k == Len(path) - 1
<1>2. k \in Nat /\ k <= Len(path) /\ Len(path) \in 1..Len(path) /\ 1 \in Nat \ {0}
  BY <1>1
<1>3. /\ Front(path) = [i \in 1..k |-> path[i]]
      /\ \A i \in 1..k : path[i] \in Names
  BY <1>2 DEF Front
<1> QED
  BY <1>2, <1>3 DEF Last

(* f is a walk along the first k segments of a path. *)
Steps(n, path, k, f) ==
    f = [i \in 0..k |-> IF i = 0 THEN n ELSE Lookup(f[i - 1], path[i])]

LEMMA WalkExists ==
  ASSUME NEW n, NEW path \in Seq(Names)
  PROVE  \A k \in 0..Len(path) : \E f : Steps(n, path, k, f)
<1> DEFINE wrong == {k \in 0..Len(path) : ~\E f : Steps(n, path, k, f)}
<1>1. Len(path) \in Nat
  OBVIOUS
<1> SUFFICES ASSUME wrong # {} PROVE FALSE
  OBVIOUS
<1>2. PICK k \in wrong : \A j \in wrong : k <= j
  <2>1. wrong \in SUBSET Nat
    BY <1>1
  <2> HIDE DEF wrong
  <2> QED
    BY <2>1, SmallestOf
<1>3. k # 0
  <2>1. Steps(n, path, 0, [i \in 0..0 |-> n])
    BY DEF Steps
  <2> QED
    BY <2>1
<1>4. k \in Nat /\ k - 1 \in 0..Len(path) /\ ~(k <= k - 1)
  BY <1>1, <1>3
<1>5. PICK g : Steps(n, path, k - 1, g)
  BY <1>2, <1>4
<1> DEFINE f == [i \in 0..k |-> IF i = k THEN Lookup(g[k - 1], path[k]) ELSE g[i]]
<1>6. \A i \in 0..(k - 1) : g[i] = IF i = 0 THEN n ELSE Lookup(g[i - 1], path[i])
  BY <1>5 DEF Steps
<1>7. ASSUME NEW i \in 0..k
      PROVE  f[i] = IF i = 0 THEN n ELSE Lookup(f[i - 1], path[i])
  <2>1. CASE i = k
    <3>1. i # 0 /\ i - 1 = k - 1 /\ k - 1 \in 0..k /\ k - 1 # k
      BY <1>3, <1>4, <2>1
    <3>2. f[i - 1] = g[k - 1] /\ f[i] = Lookup(g[k - 1], path[k])
      BY <2>1, <3>1
    <3> QED
      BY <2>1, <3>1, <3>2
  <2>2. CASE i # k
    <3>1. i \in 0..(k - 1) /\ f[i] = g[i]
      BY <1>4, <2>2
    <3>2. i # 0 => i - 1 \in 0..k /\ i - 1 # k /\ f[i - 1] = g[i - 1]
      BY <1>4, <2>2
    <3> HIDE DEF f
    <3> QED
      BY <1>6, <3>1, <3>2
  <2> QED
    BY <2>1, <2>2
<1>8. Steps(n, path, k, f)
  <2>1. f = [i \in 0..k |-> f[i]]
    OBVIOUS
  <2> HIDE DEF f
  <2> QED
    BY <1>7, <2>1 DEF Steps
<1> QED
  <2> HIDE DEF f
  <2> QED
    BY <1>8

LEMMA StepsAt ==
  ASSUME NEW n, NEW path, NEW k \in Nat, NEW f, Steps(n, path, k, f)
  PROVE  /\ f[0] = n
         /\ \A i \in 1..k : f[i] = Lookup(f[i - 1], path[i])
<1>1. \A i \in 0..k : f[i] = IF i = 0 THEN n ELSE Lookup(f[i - 1], path[i])
  BY DEF Steps
<1> QED
  BY <1>1

LEMMA WalkUnique ==
  ASSUME NEW n, NEW path, NEW k \in Nat, NEW f, NEW g,
         Steps(n, path, k, f), Steps(n, path, k, g)
  PROVE  \A i \in 0..k : f[i] = g[i]
<1> DEFINE wrong == {i \in 0..k : f[i] # g[i]}
<1> SUFFICES ASSUME wrong # {} PROVE FALSE
  OBVIOUS
<1>1. PICK i \in wrong : \A j \in wrong : i <= j
  <2>1. wrong \in SUBSET Nat
    OBVIOUS
  <2> HIDE DEF wrong
  <2> QED
    BY <2>1, SmallestOf
<1>2. f[0] = n /\ g[0] = n
  BY StepsAt
<1>3. i \in 1..k /\ i - 1 \in 0..k /\ ~(i <= i - 1)
  BY <1>2
<1>4. f[i - 1] = g[i - 1]
  BY <1>1, <1>3
<1>5. f[i] = Lookup(f[i - 1], path[i]) /\ g[i] = Lookup(g[i - 1], path[i])
  BY <1>3, StepsAt
<1>6. f[i] # g[i]
  OBVIOUS
<1> HIDE DEF wrong
<1> QED
  BY <1>4, <1>5, <1>6

LEMMA WalkSteps ==
  ASSUME NEW n, NEW path \in Seq(Names)
  PROVE  \E f : Steps(n, path, Len(path), f) /\ Walk(n, path) = f[Len(path)]
<1>1. Len(path) \in 0..Len(path)
  OBVIOUS
<1>2. \E f : Steps(n, path, Len(path), f)
  BY <1>1, WalkExists
<1> DEFINE at == CHOOSE f : Steps(n, path, Len(path), f)
<1>3. Steps(n, path, Len(path), at)
  BY <1>2
<1>4. Walk(n, path) = at[Len(path)]
  BY DEF Walk, Steps
<1> HIDE DEF at
<1> QED
  BY <1>3, <1>4

(* A walk is one to the parent of the last segment, and a search for that. *)
LEMMA WalkByParent ==
  ASSUME NEW n, NEW path \in Seq(Names)
  PROVE  IF path = <<>> THEN Walk(n, path) = n
         ELSE Walk(n, path) = Lookup(Walk(n, Front(path)), Last(path))
<1>1. PICK f : Steps(n, path, Len(path), f) /\ Walk(n, path) = f[Len(path)]
  BY WalkSteps
<1>2. Len(path) \in Nat
  OBVIOUS
<1> DEFINE L == Len(path)
<1>3. f[0] = n
  <2>1. Steps(n, path, L, f) /\ L \in Nat
    BY <1>1, <1>2
  <2> HIDE DEF L
  <2> QED
    BY <2>1, StepsAt
<1>4. CASE path = <<>>
  <2>1. Len(path) = 0 /\ f[0] = n
    BY <1>4, <1>3
  <2>2. Walk(n, path) = n
    BY <1>1, <2>1
  <2> QED
    BY <1>4, <2>2
<1>5. CASE path # <<>>
  <2> DEFINE k == Len(path) - 1
  <2> HIDE DEF k
  <2>1. k \in Nat /\ k + 1 = Len(path) /\ Len(path) \in 1..Len(path) /\ k = Len(path) - 1
    BY SMTT(30), <1>2, <1>5 DEF k
  <2>2. /\ k \in Nat /\ k + 1 = Len(path) /\ Len(path) \in 1..Len(path)
        /\ Front(path) \in Seq(Names) /\ Len(Front(path)) = k
        /\ \A i \in 1..k : Front(path)[i] = path[i]
    BY <1>5, <2>1, FrontIs
  <2>3. PICK g : Steps(n, Front(path), k, g) /\ Walk(n, Front(path)) = g[k]
    BY <2>2, WalkSteps
  <2>4. Steps(n, path, k, g)
    <3>1. ASSUME NEW i \in 0..k PROVE g[i] = IF i = 0 THEN n ELSE Lookup(g[i - 1], path[i])
      <4>1. CASE i = 0
        BY <2>2, <2>3, <4>1, StepsAt
      <4>2. CASE i # 0
        <5>1. i \in 1..k
          BY <2>2, <4>2
        <5>2. g[i] = Lookup(g[i - 1], Front(path)[i])
          BY <2>2, <2>3, <5>1, StepsAt
        <5> QED
          BY <2>2, <4>2, <5>1, <5>2
      <4> QED
        BY <4>1, <4>2
    <3>2. g = [i \in 0..k |-> g[i]]
      BY <2>3 DEF Steps
    <3> QED
      BY <3>1, <3>2 DEF Steps
  <2> DEFINE h == [i \in 0..k |-> f[i]]
  <2>5. Steps(n, path, k, h)
    <3>1. ASSUME NEW i \in 0..k PROVE h[i] = IF i = 0 THEN n ELSE Lookup(h[i - 1], path[i])
      <4>1. h[i] = f[i] /\ (i # 0 => i - 1 \in 0..k /\ i \in 1..Len(path))
        BY <2>2
      <4> QED
        BY <1>1, <1>2, <4>1, StepsAt
    <3> QED
      BY <3>1 DEF Steps
  <2>6. k \in 0..k /\ h[k] = f[k] /\ h[k] = g[k]
    <3>1. k \in 0..k
      BY <2>2
    <3>2. h[k] = f[k]
      BY <3>1
    <3> HIDE DEF h, k
    <3> QED
      BY <2>2, <2>4, <2>5, <3>1, <3>2, WalkUnique
  <2>7. f[Len(path)] = Lookup(f[Len(path) - 1], path[Len(path)])
    BY <1>1, <1>2, <2>2, StepsAt
  <2>8. Walk(n, path) = Lookup(Walk(n, Front(path)), Last(path))
    BY <1>1, <2>1, <2>3, <2>6, <2>7 DEF Last
  <2> QED
    BY <1>5, <2>8
<1> QED
  BY <1>4, <1>5

LEMMA PathsAreSequences == Paths \subseteq Seq(Names)
BY LimitAssumption DEF Paths

(* A path leads nowhere, or to a node of the subtree it starts from. *)
LEMMA WalkTypes ==
  ASSUME TypeOK, NEW n \in {0} \cup DOMAIN node, NEW path \in Seq(Names)
  PROVE  /\ Walk(n, path) \in {0} \cup DOMAIN node
         /\ Walk(n, path) # 0 => n # 0 /\ Walk(n, path) \in Subtree(n)
<1>1. PICK f : Steps(n, path, Len(path), f) /\ Walk(n, path) = f[Len(path)]
  BY WalkSteps
<1> DEFINE good(x) == x \in {0} \cup DOMAIN node /\ (x # 0 => n # 0 /\ x \in Subtree(n))
           wrong == {i \in 0..Len(path) : ~good(f[i])}
<1>2. Len(path) \in Nat /\ Len(path) \in 0..Len(path) /\ n \in Nat /\ edge \in Seq(EdgeRow)
  BY DEF TypeOK
<1>3. Subtree(n) = Reach(edge, n)
  BY ReachIsSubtree
<1> SUFFICES ASSUME wrong # {} PROVE FALSE
  BY <1>1, <1>2
<1>4. PICK i \in wrong : \A j \in wrong : i <= j
  <2>1. wrong \in SUBSET Nat
    BY <1>2
  <2> HIDE DEF wrong
  <2> QED
    BY <2>1, SmallestOf
<1>5. good(n)
  BY <1>2, <1>3, ReachLeast
<1>6. i # 0
  BY <1>1, <1>2, <1>5, StepsAt
<1>7. i \in 1..Len(path) /\ i - 1 \in 0..Len(path) /\ ~(i <= i - 1)
  BY <1>2, <1>6
<1>8. good(f[i - 1])
  BY <1>4, <1>7
<1>9. f[i] = Lookup(f[i - 1], path[i])
  BY <1>1, <1>2, <1>7, StepsAt
<1>10. ~good(f[i])
  OBVIOUS
<1>11. f[i] \in {0} \cup DOMAIN node /\ (f[i - 1] = 0 => f[i] = 0)
  BY <1>9, LookupTypes
<1>12. CASE f[i] # 0
  <2>1. PICK e \in ActiveEdges : edge[e].from = f[i - 1] /\ edge[e].to = f[i]
    BY <1>9, <1>12, LookupFinds
  <2>2. f[i] \in Reach(edge, n)
    BY <1>2, <1>3, <1>8, <1>11, <1>12, <2>1, ReachLeast DEF Closed, Active, ActiveEdges
  <2> QED
    BY <1>3, <1>8, <1>10, <1>11, <1>12, <2>2
<1> QED
  BY <1>10, <1>11, <1>12

---------------------------------------------------------------------------
(* The shape of the tree, of any nodes and edges                           *)

Holder(N, n) == N[n].type = "container"

Ends(N, E) == \A e \in DOMAIN E : E[e].from \in DOMAIN N /\ E[e].to \in DOMAIN N

Tree(N, E) ==
    /\ \A e \in Active(E) : E[e].to # Root /\ Holder(N, E[e].from)
    /\ \A e, f \in Active(E) : Holder(N, E[e].to) /\ E[e].to = E[f].to => e = f
    /\ \A e \in Active(E) : E[e].from \notin Reach(E, E[e].to)

LEMMA AtMostOne ==
  ASSUME NEW S, IsFiniteSet(S)
  PROVE  Cardinality(S) <= 1 <=> \A e, f \in S : e = f
<1>1. Cardinality(S) \in Nat
  BY FS_CardinalityType
<1>2. CASE S = {}
  BY <1>2, FS_EmptySet
<1>3. CASE S # {}
  <2>1. Cardinality(S) # 0
    BY <1>3, FS_EmptySet
  <2>2. Cardinality(S) <= 1 <=> Cardinality(S) = 1
    BY <1>1, <2>1
  <2>3. Cardinality(S) = 1 <=> \E x : S = {x}
    BY FS_Singleton
  <2>4. (\E x : S = {x}) <=> \A e, f \in S : e = f
    <3>1. PICK x \in S : TRUE
      BY <1>3
    <3> QED
      BY <3>1
  <2> QED
    BY <2>2, <2>3, <2>4
<1> QED
  BY <1>2, <1>3

LEMMA TreeShapeIs ==
  ASSUME NEW N, NEW E \in Seq(EdgeRow), Ends(N, E)
  PROVE  Tree(N, E) <=>
         /\ \A e \in Active(E) : E[e].to # Root /\ Holder(N, E[e].from)
         /\ \A n \in DOMAIN N : Holder(N, n) => Cardinality({e \in Active(E) : E[e].to = n}) <= 1
         /\ \A e \in Active(E) : E[e].from \notin Reach(E, E[e].to)
<1>1. \A n : {e \in Active(E) : E[e].to = n} \in SUBSET Active(E)
  OBVIOUS
<1>2. \A n : IsFiniteSet({e \in Active(E) : E[e].to = n})
  BY <1>1, ActiveFinite, FS_Subset
<1>3. \A n : Cardinality({e \in Active(E) : E[e].to = n}) <= 1
               <=> \A e, f \in Active(E) : E[e].to = n /\ E[f].to = n => e = f
  <2> SUFFICES ASSUME NEW n
               PROVE  Cardinality({e \in Active(E) : E[e].to = n}) <= 1
                      <=> \A e, f \in Active(E) : E[e].to = n /\ E[f].to = n => e = f
    OBVIOUS
  <2> DEFINE S == {e \in Active(E) : E[e].to = n}
  <2>1. Cardinality(S) <= 1 <=> \A e, f \in S : e = f
    <3>1. IsFiniteSet(S)
      BY <1>2
    <3> HIDE DEF S
    <3> QED
      BY <3>1, AtMostOne
  <2> QED
    BY <2>1
<1>4. (\A n \in DOMAIN N : Holder(N, n) => Cardinality({e \in Active(E) : E[e].to = n}) <= 1)
      <=> \A e, f \in Active(E) : Holder(N, E[e].to) /\ E[e].to = E[f].to => e = f
  <2>1. \A e \in Active(E) : E[e].to \in DOMAIN N
    BY ActiveIn DEF Ends
  <2> DEFINE few(n) == Cardinality({e \in Active(E) : E[e].to = n}) <= 1
  <2>2. \A n : few(n) <=> \A e, f \in Active(E) : E[e].to = n /\ E[f].to = n => e = f
    BY <1>3
  <2> HIDE DEF few
  <2>3. (\A n \in DOMAIN N : Holder(N, n) => few(n))
        <=> \A e, f \in Active(E) : Holder(N, E[e].to) /\ E[e].to = E[f].to => e = f
    BY <2>1, <2>2
  <2> QED
    BY <2>3 DEF few
<1> QED
  BY <1>4 DEF Tree

LEMMA TreeNow ==
  ASSUME TypeOK
  PROVE  TreeShape <=> Tree(node, edge)
<1>1. Ends(node, edge) /\ edge \in Seq(EdgeRow)
  BY DEF Ends, TypeOK
<1> QED
  BY <1>1, TreeShapeIs, ReachIsSubtree
     DEF TreeShape, ActiveEdges, Active, IsContainer, Holder, PlacementsOf

LEMMA TreeThen ==
  ASSUME TypeOK'
  PROVE  TreeShape' <=> Tree(node', edge')
<1>1. Ends(node', edge') /\ edge' \in Seq(EdgeRow)
  BY DEF Ends, TypeOK
<1>2. \A r : Subtree(r)' = Reach(edge', r)
  BY DEF Subtree, ActiveEdges, Reach, Active
<1> QED
  BY <1>1, <1>2, TreeShapeIs
     DEF TreeShape, ActiveEdges, Active, IsContainer, Holder, PlacementsOf

(* Edges renamed or archived. *)
Prunes(E, F) ==
    /\ F \in Seq(EdgeRow) /\ DOMAIN F = DOMAIN E
    /\ \A e \in DOMAIN E : F[e].from = E[e].from /\ F[e].to = E[e].to
    /\ Active(F) \subseteq Active(E)

LEMMA PruneReach ==
  ASSUME NEW E \in Seq(EdgeRow), NEW F, Prunes(E, F), NEW r \in Nat
  PROVE  Reach(F, r) \subseteq Reach(E, r)
<1>1. Closed(F, Reach(E, r))
  BY ReachLeast, ActiveIn DEF Closed, Prunes
<1> QED
  BY <1>1, ReachLeast DEF Prunes

(* Pruning keeps a tree. *)
LEMMA PruneTree ==
  ASSUME NEW N, NEW M, NEW E \in Seq(EdgeRow), NEW F, Prunes(E, F), Ends(N, E), Tree(N, E),
         DOMAIN M = DOMAIN N, \A n \in DOMAIN N : M[n].type = N[n].type
  PROVE  Tree(M, F) /\ Ends(M, F)
<1>1. \A e \in Active(F) : /\ e \in Active(E) /\ e \in DOMAIN E
                           /\ F[e].from = E[e].from /\ F[e].to = E[e].to
                           /\ E[e].to \in Nat /\ E[e].from \in DOMAIN N /\ E[e].to \in DOMAIN N
  BY ActiveIn, EdgeFields DEF Prunes, Ends
<1>2. \A e \in Active(F) : F[e].from \notin Reach(F, F[e].to)
  BY <1>1, PruneReach DEF Tree
<1>3. Ends(M, F)
  BY DEF Ends, Prunes
<1> QED
  BY <1>1, <1>2, <1>3 DEF Tree, Holder

LEMMA ArchivePrunes ==
  ASSUME TypeOK, NEW S
  PROVE  Prunes(edge, Archive(S))
<1>1. Archive(S) \in Seq(EdgeRow) /\ DOMAIN Archive(S) = DOMAIN edge
  <2>1. ASSUME NEW e \in DOMAIN edge
        PROVE  [edge[e] EXCEPT !.archived = @ \/ e \in S] \in EdgeRow
    <3>1. edge[e] \in EdgeRow
      BY RowFields
    <3> QED
      BY <3>1 DEF EdgeRow
  <2>2. DOMAIN edge = 1..Len(edge) /\ Len(edge) \in Nat
    BY DEF TypeOK
  <2> QED
    BY <2>1, <2>2 DEF Archive
<1>2. ASSUME NEW e \in DOMAIN edge
      PROVE  /\ Archive(S)[e].from = edge[e].from /\ Archive(S)[e].to = edge[e].to
             /\ Archive(S)[e].name = edge[e].name
             /\ Archive(S)[e].archived <=> edge[e].archived \/ e \in S
  BY RowFields DEF Archive, EdgeRow
<1> QED
  BY <1>1, <1>2 DEF Prunes, Active

LEMMA ArchiveIs ==
  ASSUME TypeOK, NEW S
  PROVE  Active(Archive(S)) = ActiveEdges \ S
<1>1. ASSUME NEW e \in DOMAIN edge
      PROVE  Archive(S)[e].archived <=> edge[e].archived \/ e \in S
  BY RowFields DEF Archive, EdgeRow
<1>2. DOMAIN Archive(S) = DOMAIN edge
  BY DEF Archive
<1> QED
  BY <1>1, <1>2 DEF Active, ActiveEdges

(* One more edge, and what it brings under a node. *)
Plus(E, p, n, name) == Append(E, [from |-> p, to |-> n, name |-> name, archived |-> FALSE])

Adds(E, F, k, p, n) ==
    /\ F \in Seq(EdgeRow) /\ Len(F) = k
    /\ DOMAIN F = DOMAIN E \cup {k} /\ k \notin DOMAIN E
    /\ \A e \in DOMAIN E : F[e] = E[e]
    /\ F[k].from = p /\ F[k].to = n
    /\ Active(F) = Active(E) \cup {k}

LEMMA PlusIs ==
  ASSUME NEW E \in Seq(EdgeRow), NEW p \in Nat, NEW n \in Nat, NEW name \in Names
  PROVE  Adds(E, Plus(E, p, n, name), Len(E) + 1, p, n)
<1> DEFINE row == [from |-> p, to |-> n, name |-> name, archived |-> FALSE]
           F == Plus(E, p, n, name)
           k == Len(E) + 1
<1>1. row \in EdgeRow
  BY DEF EdgeRow
<1>2. /\ F \in Seq(EdgeRow) /\ Len(F) = k /\ DOMAIN F = DOMAIN E \cup {k} /\ k \notin DOMAIN E
      /\ \A e \in DOMAIN E : F[e] = E[e]
      /\ F[k] = row
  <2> HIDE DEF row
  <2>1. F = Append(E, row)
    BY DEF Plus, row
  <2> QED
    BY <1>1, <2>1, AppendProperties
<1>3. Active(F) = Active(E) \cup {k}
  <2>1. ~F[k].archived
    BY <1>2
  <2> HIDE DEF F, k
  <2> QED
    BY <1>2, <2>1 DEF Active
<1> QED
  BY <1>2, <1>3 DEF Adds

LEMMA PlusReach ==
  ASSUME NEW E \in Seq(EdgeRow), NEW p \in Nat, NEW n \in Nat, NEW name \in Names, NEW r \in Nat
  PROVE  Reach(Plus(E, p, n, name), r) \subseteq
            Reach(E, r) \cup (IF p \in Reach(E, r) THEN Reach(E, n) ELSE {})
<1> DEFINE F == Plus(E, p, n, name)
           k == Len(E) + 1
           S == Reach(E, r) \cup (IF p \in Reach(E, r) THEN Reach(E, n) ELSE {})
<1>1. /\ F \in Seq(EdgeRow) /\ \A e \in DOMAIN E : F[e] = E[e]
      /\ F[k].from = p /\ F[k].to = n /\ Active(F) = Active(E) \cup {k}
  <2>1. Adds(E, F, k, p, n)
    BY PlusIs
  <2> HIDE DEF F, k
  <2> QED
    BY <2>1 DEF Adds
<1>2. S \in SUBSET Nat /\ r \in S
  BY ReachLeast
<1>3. ASSUME NEW e \in Active(F), F[e].from \in S PROVE F[e].to \in S
  <2>1. CASE e \in Active(E)
    <3>1. F[e] = E[e]
      BY <1>1, <2>1, ActiveIn
    <3> QED
      BY <1>3, <2>1, <3>1, ReachLeast DEF Closed
  <2>2. CASE e = k
    <3>1. p \in S /\ n \in Reach(E, n)
      BY <1>1, <1>3, <2>2, ReachLeast
    <3>2. p \in Reach(E, r) => n \in S
      BY <3>1
    <3>3. p \notin Reach(E, r) => S = Reach(E, r)
      OBVIOUS
    <3> QED
      BY <1>1, <2>2, <3>1, <3>2, <3>3
  <2> QED
    BY <1>1, <2>1, <2>2
<1> HIDE DEF F, S
<1>4. Closed(F, S)
  BY <1>3 DEF Closed
<1>5. Reach(F, r) \subseteq S
  BY <1>1, <1>2, <1>4, ReachLeast
<1> QED
  BY <1>5 DEF F, S

(* A node is placed under a container it does not hold: still a tree. *)
LEMMA PlusTree ==
  ASSUME NEW N, NEW E \in Seq(EdgeRow), NEW p \in DOMAIN N, NEW n \in DOMAIN N, NEW name \in Names,
         DOMAIN N \subseteq Nat, Ends(N, E), Tree(N, E), Holder(N, p), n # Root,
         p \notin Reach(E, n),
         Holder(N, n) => \A e \in Active(E) : E[e].to # n
  PROVE  Tree(N, Plus(E, p, n, name)) /\ Ends(N, Plus(E, p, n, name))
<1> DEFINE F == Plus(E, p, n, name)
           k == Len(E) + 1
<1>1. p \in Nat /\ n \in Nat
  OBVIOUS
<1>2. /\ F \in Seq(EdgeRow) /\ \A e \in DOMAIN E : F[e] = E[e]
      /\ DOMAIN F = DOMAIN E \cup {k} /\ k \notin DOMAIN E
      /\ F[k].from = p /\ F[k].to = n /\ Active(F) = Active(E) \cup {k}
  <2>1. Adds(E, F, k, p, n)
    BY <1>1, PlusIs
  <2> HIDE DEF F, k
  <2> QED
    BY <2>1 DEF Adds
<1>3. \A e \in Active(E) : e \in DOMAIN E /\ F[e] = E[e] /\ E[e].to \in Nat
  BY <1>2, ActiveIn, EdgeFields
<1>4. \A r \in Nat : Reach(F, r) \subseteq
            Reach(E, r) \cup (IF p \in Reach(E, r) THEN Reach(E, n) ELSE {})
  BY <1>1, PlusReach
<1> HIDE DEF F, k
<1>5. \A e \in Active(F) : F[e].to # Root /\ Holder(N, F[e].from)
  BY <1>2, <1>3 DEF Tree
<1>6. ASSUME NEW e \in Active(F), NEW f \in Active(F), Holder(N, F[e].to), F[e].to = F[f].to
      PROVE  e = f
  <2>1. CASE e \in Active(E) /\ f \in Active(E)
    BY <1>3, <1>6, <2>1 DEF Tree
  <2>2. CASE e = k \/ f = k
    BY <1>2, <1>3, <1>6, <2>2
  <2> QED
    BY <1>2, <2>1, <2>2
<1>7. ASSUME NEW e \in Active(F) PROVE F[e].from \notin Reach(F, F[e].to)
  <2>1. CASE e \in Active(E)
    <3>1. E[e].from \notin Reach(E, E[e].to)
      BY <2>1 DEF Tree
    <3>2. E[e].from \in Reach(E, n) => E[e].to \in Reach(E, n)
      BY <1>1, <2>1, ReachLeast DEF Closed
    <3>3. E[e].to \in Reach(E, n) => Reach(E, E[e].to) \subseteq Reach(E, n)
      BY <1>1, <1>3, <2>1, ReachLeast
    <3> QED
      BY <1>3, <1>4, <2>1, <3>1, <3>2, <3>3
  <2>2. CASE e = k
    BY <1>1, <1>2, <1>4, <2>2
  <2> QED
    BY <1>2, <2>1, <2>2
<1>8. Ends(N, F)
  BY <1>2 DEF Ends
<1> QED
  BY <1>5, <1>6, <1>7, <1>8 DEF Tree, F

---------------------------------------------------------------------------
(* Grafting a packed tree                                                  *)

(* What RowsOf returns and a blob holds: each row's parent is a container *)
(* above it, or the node the first row is placed under.                    *)
RowsOk(rows) ==
    /\ rows \in Seq(PackRow) /\ rows # <<>>
    /\ \A i \in DOMAIN rows : /\ rows[i].p < i
                              /\ rows[i].p # 0 => rows[rows[i].p].t = "container"

Grafts(N, E, p, rows, M, F) ==
    LET w == Len(N)  k == Len(E) IN
    /\ M \in Seq(NodeRow) /\ DOMAIN M = 1..(w + Len(rows))
    /\ \A n \in DOMAIN N : M[n] = N[n]
    /\ \A i \in DOMAIN rows : /\ M[w + i].type = rows[i].t /\ M[w + i].name = rows[i].n
                              /\ M[w + i].data = rows[i].d
    /\ F \in Seq(EdgeRow) /\ DOMAIN F = 1..(k + Len(rows))
    /\ \A e \in DOMAIN E : F[e] = E[e]
    /\ \A i \in DOMAIN rows :
        /\ F[k + i].from = (IF rows[i].p = 0 THEN p ELSE w + rows[i].p)
        /\ F[k + i].to = w + i /\ F[k + i].name = rows[i].n /\ ~F[k + i].archived

LEMMA RowTypes ==
  ASSUME NEW rows, RowsOk(rows), NEW i \in DOMAIN rows
  PROVE  /\ i \in Nat \ {0} /\ i <= Len(rows) /\ Len(rows) \in Nat
         /\ rows[i].p \in Nat /\ rows[i].p < i /\ rows[i].t \in Types
         /\ rows[i].n \in Names /\ rows[i].d \in Nat
         /\ rows[i].p # 0 => rows[i].p \in DOMAIN rows /\ rows[rows[i].p].t = "container"
<1>1. rows \in Seq(PackRow) /\ rows[i] \in PackRow
  BY DEF RowsOk
<1>2. /\ rows[i].p \in Nat /\ rows[i].t \in Types /\ rows[i].n \in Names /\ rows[i].d \in Nat
      /\ i \in Nat \ {0} /\ i <= Len(rows) /\ Len(rows) \in Nat /\ DOMAIN rows = 1..Len(rows)
  BY <1>1 DEF PackRow
<1>3. rows[i].p < i /\ (rows[i].p # 0 => rows[rows[i].p].t = "container")
  BY DEF RowsOk
<1>4. rows[i].p # 0 => rows[i].p \in DOMAIN rows
  BY <1>2, <1>3
<1> QED
  BY <1>2, <1>3, <1>4

LEMMA GraftIs ==
  ASSUME TypeOK, NEW p \in Nat, NEW rows, RowsOk(rows), NEW E \in Seq(EdgeRow), Graft(p, rows, E)
  PROVE  Grafts(node, E, p, rows, node', edge')
<1> DEFINE w == Len(node)
           k == Len(E)
           n == Len(rows)
           R == [i \in DOMAIN rows |-> [type |-> rows[i].t, name |-> rows[i].n, data |-> rows[i].d]]
           Q == [i \in DOMAIN rows |->
                    [from |-> IF rows[i].p = 0 THEN p ELSE Len(node) + rows[i].p,
                     to |-> Len(node) + i, name |-> rows[i].n, archived |-> FALSE]]
<1>1. w \in Nat /\ k \in Nat /\ n \in Nat /\ DOMAIN rows = 1..n /\ node \in Seq(NodeRow)
  BY DEF TypeOK, RowsOk
<1>2. node' = node \o R /\ edge' = E \o Q
  BY DEF Graft
<1>3. R \in Seq(NodeRow)
  <2>1. \A i \in DOMAIN rows : [type |-> rows[i].t, name |-> rows[i].n, data |-> rows[i].d] \in NodeRow
    BY RowTypes DEF NodeRow
  <2> QED
    BY <1>1, <2>1
<1>4. Q \in Seq(EdgeRow)
  <2>1. \A i \in DOMAIN rows :
            [from |-> IF rows[i].p = 0 THEN p ELSE Len(node) + rows[i].p,
             to |-> Len(node) + i, name |-> rows[i].n, archived |-> FALSE] \in EdgeRow
    BY <1>1, RowTypes DEF EdgeRow
  <2> QED
    BY <1>1, <2>1
<1>5. Len(R) = n /\ Len(Q) = n
  BY <1>1, <1>3, <1>4
<1>6. \A i \in DOMAIN rows : /\ R[i].type = rows[i].t /\ R[i].name = rows[i].n
                              /\ R[i].data = rows[i].d
  OBVIOUS
<1>7. \A i \in DOMAIN rows : /\ Q[i].from = IF rows[i].p = 0 THEN p ELSE w + rows[i].p
                             /\ Q[i].to = w + i /\ Q[i].name = rows[i].n /\ ~Q[i].archived
  OBVIOUS
<1> HIDE DEF R, Q
<1>8. /\ node' \in Seq(NodeRow) /\ Len(node') = w + n
      /\ \A i \in 1..w : node'[i] = node[i]
      /\ \A i \in 1..n : node'[w + i] = R[i]
  <2>1. Len(node') = w + n /\ node' \in Seq(NodeRow)
    <3>1. Len(node \o R) = Len(node) + Len(R) /\ node \o R \in Seq(NodeRow)
      BY <1>1, <1>3, ConcatProperties
    <3> QED
      BY <1>2, <1>5, <3>1
  <2>2. \A i \in 1..(w + n) : node'[i] = IF i <= w THEN node[i] ELSE R[i - w]
    BY <1>1, <1>2, <1>3, <1>5
  <2>3. \A i \in 1..n : w + i \in 1..(w + n) /\ ~(w + i <= w) /\ (w + i) - w = i
    BY <1>1
  <2>4. \A i \in 1..w : i \in 1..(w + n) /\ i <= w
    BY <1>1
  <2> HIDE DEF w, n
  <2> QED
    BY <2>1, <2>2, <2>3, <2>4
<1>9. /\ edge' \in Seq(EdgeRow) /\ Len(edge') = k + n
      /\ \A i \in 1..k : edge'[i] = E[i]
      /\ \A i \in 1..n : edge'[k + i] = Q[i]
  <2>1. Len(edge') = k + n /\ edge' \in Seq(EdgeRow)
    <3>1. Len(E \o Q) = Len(E) + Len(Q) /\ E \o Q \in Seq(EdgeRow)
      BY <1>1, <1>4, ConcatProperties
    <3> QED
      BY <1>2, <1>5, <3>1
  <2>2. \A i \in 1..(k + n) : edge'[i] = IF i <= k THEN E[i] ELSE Q[i - k]
    BY <1>1, <1>2, <1>4, <1>5
  <2>3. \A i \in 1..n : k + i \in 1..(k + n) /\ ~(k + i <= k) /\ (k + i) - k = i
    BY <1>1
  <2>4. \A i \in 1..k : i \in 1..(k + n) /\ i <= k
    BY <1>1
  <2> HIDE DEF k, n
  <2> QED
    BY <2>1, <2>2, <2>3, <2>4
<1>10. DOMAIN node = 1..w /\ DOMAIN E = 1..k /\ DOMAIN node' = 1..(w + n) /\ DOMAIN edge' = 1..(k + n)
  BY <1>1, <1>8, <1>9
<1>11. \A i \in DOMAIN rows : /\ node'[w + i].type = rows[i].t /\ node'[w + i].name = rows[i].n
                               /\ node'[w + i].data = rows[i].d
  BY <1>1, <1>6, <1>8
<1>12. \A i \in DOMAIN rows :
        /\ edge'[k + i].from = (IF rows[i].p = 0 THEN p ELSE w + rows[i].p)
        /\ edge'[k + i].to = w + i /\ edge'[k + i].name = rows[i].n /\ ~edge'[k + i].archived
  BY <1>1, <1>7, <1>9
<1> QED
  BY <1>1, <1>8, <1>9, <1>10, <1>11, <1>12 DEF Grafts

(* Where a grafted edge leads, and what was there before. *)
LEMMA GraftedEdges ==
  ASSUME NEW N, NEW E \in Seq(EdgeRow), NEW p \in DOMAIN N, NEW rows, RowsOk(rows), NEW M, NEW F,
         N \in Seq(NodeRow), Ends(N, E), Grafts(N, E, p, rows, M, F), NEW e \in Active(F)
  PROVE  \/ e \in Active(E) /\ F[e] = E[e] /\ E[e].to \in DOMAIN N /\ E[e].from \in DOMAIN N
         \/ \E i \in DOMAIN rows :
               /\ e = Len(E) + i /\ F[e].to = Len(N) + i /\ F[e].name = rows[i].n
               /\ F[e].from = IF rows[i].p = 0 THEN p ELSE Len(N) + rows[i].p
<1>1. DOMAIN F = 1..(Len(E) + Len(rows)) /\ e \in DOMAIN F /\ DOMAIN E = 1..Len(E)
      /\ DOMAIN rows = 1..Len(rows) /\ Len(E) \in Nat /\ Len(rows) \in Nat
  <2>1. DOMAIN F = 1..(Len(E) + Len(rows))
    BY DEF Grafts
  <2>2. rows \in Seq(PackRow) /\ E \in Seq(EdgeRow)
    BY DEF RowsOk
  <2>3. DOMAIN E = 1..Len(E) /\ DOMAIN rows = 1..Len(rows) /\ Len(E) \in Nat /\ Len(rows) \in Nat
    BY <2>2
  <2> QED
    BY <2>1, <2>3, ActiveIn
<1>2. CASE e \in DOMAIN E
  BY <1>2 DEF Grafts, Active, Ends
<1>3. CASE e \notin DOMAIN E
  <2>1. e - Len(E) \in DOMAIN rows /\ e = Len(E) + (e - Len(E))
    BY <1>1, <1>3
  <2> QED
    BY <2>1 DEF Grafts
<1> QED
  BY <1>2, <1>3

(* Nothing that was there comes under a node it was not under. *)
LEMMA GraftReach ==
  ASSUME NEW N, NEW E \in Seq(EdgeRow), NEW p \in DOMAIN N, NEW rows, RowsOk(rows), NEW M, NEW F,
         N \in Seq(NodeRow), Ends(N, E), Grafts(N, E, p, rows, M, F), NEW r \in DOMAIN N
  PROVE  Reach(F, r) \cap DOMAIN N \subseteq Reach(E, r)
<1> DEFINE w == Len(N)
           S == Reach(E, r) \cup {x \in Nat : x > w}
<1>1. w \in Nat /\ DOMAIN N = 1..w /\ F \in Seq(EdgeRow)
  BY DEF Grafts
<1>2. S \in SUBSET Nat /\ r \in S
  BY <1>1, ReachLeast
<1>3. ASSUME NEW e \in Active(F), F[e].from \in S PROVE F[e].to \in S
  <2>1. CASE e \in Active(E) /\ F[e] = E[e] /\ E[e].to \in DOMAIN N /\ E[e].from \in DOMAIN N
    <3>1. E[e].from \in Reach(E, r)
      BY <1>1, <1>3, <2>1
    <3> QED
      BY <1>1, <2>1, <3>1, ReachLeast DEF Closed
  <2>2. ASSUME NEW i \in DOMAIN rows, F[e].to = Len(N) + i PROVE F[e].to \in S
    BY <1>1, <2>2, RowTypes
  <2> HIDE DEF S
  <2> QED
    BY <2>1, <2>2, GraftedEdges
<1>4. Reach(F, r) \subseteq S
  <2> HIDE DEF S
  <2>1. Closed(F, S)
    BY <1>3 DEF Closed
  <2> QED
    BY <1>1, <1>2, <2>1, ReachLeast
<1> QED
  BY <1>1, <1>4

(* A tree grafted onto a container is a tree. *)
LEMMA GraftTree ==
  ASSUME NEW N, NEW E \in Seq(EdgeRow), NEW p \in DOMAIN N, NEW rows, RowsOk(rows), NEW M, NEW F,
         N \in Seq(NodeRow), Ends(N, E), Grafts(N, E, p, rows, M, F), Tree(N, E), Holder(N, p)
  PROVE  Tree(M, F) /\ Ends(M, F)
<1> DEFINE w == Len(N)
           k == Len(E)
           old(e) == e \in Active(E) /\ F[e] = E[e] /\ E[e].to \in DOMAIN N /\ E[e].from \in DOMAIN N
           new(e, i) == /\ i \in DOMAIN rows /\ e = k + i /\ F[e].to = w + i
                        /\ F[e].from = IF rows[i].p = 0 THEN p ELSE w + rows[i].p
<1>1. /\ w \in Nat /\ DOMAIN N = 1..w /\ F \in Seq(EdgeRow) /\ k \in Nat /\ DOMAIN E = 1..k
      /\ DOMAIN M = 1..(w + Len(rows)) /\ DOMAIN rows = 1..Len(rows) /\ Len(rows) \in Nat
      /\ \A n \in DOMAIN N : M[n] = N[n]
      /\ \A i \in DOMAIN rows : M[w + i].type = rows[i].t
  BY DEF Grafts, RowsOk
<1>2. \A e \in Active(F) : old(e) \/ \E i : new(e, i)
  BY GraftedEdges
<1>3. ASSUME NEW e, NEW i, new(e, i)
      PROVE  /\ i \in Nat \ {0} /\ F[e].to \in Nat /\ F[e].to > w /\ F[e].to \in DOMAIN M
             /\ F[e].from \in DOMAIN M /\ F[e].from < w + i /\ Holder(M, F[e].from)
  <2>1. i \in DOMAIN rows
    BY <1>3
  <2>2. CASE rows[i].p = 0
    BY <1>1, <1>3, <2>1, <2>2, RowTypes DEF Holder
  <2>3. CASE rows[i].p # 0
    <3> DEFINE j == rows[i].p
    <3>1. /\ i \in Nat \ {0} /\ i <= Len(rows) /\ j \in Nat \ {0} /\ j < i
          /\ j \in DOMAIN rows /\ rows[j].t = "container"
      BY <2>1, <2>3, RowTypes
    <3>2. F[e].to = w + i /\ F[e].from = w + j
      BY <1>3, <2>3
    <3>3. M[w + j].type = "container"
      BY <1>1, <3>1
    <3> HIDE DEF j, new
    <3> QED
      BY <1>1, <3>1, <3>2, <3>3 DEF Holder
  <2> QED
    BY <2>2, <2>3
<1>4. ASSUME NEW e, old(e)
      PROVE  /\ F[e].to # Root /\ Holder(M, F[e].from) /\ F[e].to \in Nat /\ F[e].to <= w
             /\ F[e].from \in DOMAIN M /\ F[e].to \in DOMAIN M
             /\ Holder(M, F[e].to) <=> Holder(N, E[e].to)
  BY SMTT(30), <1>1, <1>4 DEF Tree, Holder
<1>5. Root <= w
  BY <1>1 DEF Root
<1>6. ASSUME NEW e \in Active(F) PROVE F[e].to # Root /\ Holder(M, F[e].from)
  <2>1. ASSUME NEW i, new(e, i) PROVE F[e].to # Root /\ Holder(M, F[e].from)
    <3>1. F[e].to \in Nat /\ F[e].to > w /\ Holder(M, F[e].from)
      BY <1>3, <2>1
    <3> QED
      BY <1>1, <1>5, <3>1 DEF Root
  <2> HIDE DEF old, new
  <2> QED
    BY <1>2, <1>4, <2>1
<1>7. ASSUME NEW e \in Active(F), NEW f \in Active(F), Holder(M, F[e].to), F[e].to = F[f].to
      PROVE  e = f
  <2>1. CASE old(e) /\ old(f)
    BY <1>4, <1>7, <2>1 DEF Tree
  <2>2. ASSUME NEW i, NEW j, new(e, i), new(f, j) PROVE e = f
    BY <1>1, <1>3, <1>7, <2>2
  <2>3. ASSUME NEW a \in Active(F), NEW b \in Active(F), old(a), NEW j, new(b, j)
        PROVE  F[a].to # F[b].to
    <3>1. F[a].to <= w /\ F[b].to > w /\ F[a].to \in Nat /\ F[b].to \in Nat
      BY <1>3, <1>4, <2>3
    <3> QED
      BY <1>1, <3>1
  <2> HIDE DEF old, new
  <2> QED
    BY <1>2, <1>7, <2>1, <2>2, <2>3
<1>8. ASSUME NEW e \in Active(F) PROVE F[e].from \notin Reach(F, F[e].to)
  <2>1. CASE old(e)
    <3>1. E[e].from \notin Reach(E, E[e].to)
      BY <2>1 DEF Tree
    <3>2. Reach(F, E[e].to) \cap DOMAIN N \subseteq Reach(E, E[e].to)
      BY <2>1, GraftReach
    <3> QED
      BY <2>1, <3>1, <3>2
  <2>2. ASSUME NEW i, new(e, i) PROVE F[e].from \notin Reach(F, F[e].to)
    <3> DEFINE S == {x \in Nat : x >= w + i}
    <3>1. i \in Nat \ {0} /\ F[e].from < w + i /\ F[e].to = w + i /\ F[e].from \notin S
      <4>1. i \in Nat \ {0} /\ F[e].from \in DOMAIN M /\ F[e].from < w + i
        BY <1>3, <2>2
      <4>2. F[e].from \in Nat /\ ~(F[e].from >= w + i)
        BY <1>1, <4>1
      <4> QED
        BY <2>2, <4>1, <4>2
    <3>2. w + i \in S /\ S \in SUBSET Nat
      BY <1>1, <3>1
    <3>3. ASSUME NEW f \in Active(F), F[f].from \in S PROVE F[f].to \in S
      <4>1. CASE old(f)
        BY <1>1, <3>1, <3>3, <4>1
      <4>2. ASSUME NEW j, new(f, j) PROVE F[f].to \in S
        <5>1. F[f].from < w + j /\ F[f].from >= w + i /\ j \in Nat /\ F[f].to = w + j
              /\ F[f].from \in Nat
          BY <1>3, <3>3, <4>2
        <5> QED
          BY SMTT(30), <1>1, <3>1, <5>1
      <4> HIDE DEF S, old, new
      <4> QED
        BY <1>2, <4>1, <4>2
    <3> HIDE DEF S, w
    <3>4. Closed(F, S)
      BY <3>3 DEF Closed
    <3>5. w + i \in Nat
      BY <1>1, <3>1
    <3>6. Reach(F, w + i) \subseteq S
      BY <1>1, <3>2, <3>4, <3>5, ReachLeast
    <3> QED
      BY <3>1, <3>6
  <2> HIDE DEF old, new
  <2> QED
    BY <1>2, <2>1, <2>2
<1>9. Ends(M, F)
  <2> SUFFICES ASSUME NEW e \in DOMAIN F PROVE F[e].from \in DOMAIN M /\ F[e].to \in DOMAIN M
    BY DEF Ends
  <2>1. DOMAIN F = 1..(k + Len(rows))
    BY DEF Grafts
  <2>2. CASE e \in DOMAIN E
    <3>1. F[e] = E[e]
      BY <2>2 DEF Grafts
    <3> QED
      BY <1>1, <2>2, <3>1 DEF Ends
  <2>3. CASE e \notin DOMAIN E
    <3>1. e - k \in DOMAIN rows /\ e = k + (e - k)
      BY <1>1, <2>1, <2>3
    <3>2. new(e, e - k)
      BY <3>1 DEF Grafts
    <3> HIDE DEF new
    <3> QED
      BY <1>3, <3>2
  <2> QED
    BY <2>2, <2>3
<1> HIDE DEF old, new
<1> QED
  BY <1>6, <1>7, <1>8, <1>9 DEF Tree

---------------------------------------------------------------------------
(* The rows of a subtree                                                   *)

(* In a finite total order each index is that of one element: the number of *)
(* its predecessors, one less.                                              *)
LEMMA Ranks ==
  ASSUME NEW B, IsFiniteSet(B), NEW before \in [B -> SUBSET B],
         \A e \in B : e \notin before[e],
         \A e \in B : \A f \in before[e] : before[f] \subseteq before[e],
         \A e, f \in B : e # f => e \in before[f] \/ f \in before[e]
  PROVE  /\ Cardinality(B) \in Nat
         /\ \A e \in B : Cardinality(before[e]) \in 0..(Cardinality(B) - 1)
         /\ \A e \in B : \A f \in before[e] : Cardinality(before[f]) < Cardinality(before[e])
         /\ \A i \in 1..Cardinality(B) : \E e \in B : Cardinality(before[e]) = i - 1
<1> DEFINE n == Cardinality(B)
           T == 0..(n - 1)
           rank == [e \in B |-> Cardinality(before[e])]
<1>1. n \in Nat
  BY FS_CardinalityType
<1>2. ASSUME NEW S, NEW U, IsFiniteSet(S), U \subseteq S, U # S
      PROVE  IsFiniteSet(U) /\ Cardinality(U) \in Nat /\ Cardinality(U) < Cardinality(S)
  <2>1. U \in SUBSET S
    BY <1>2
  <2>2. IsFiniteSet(U) /\ Cardinality(U) <= Cardinality(S) /\ Cardinality(U) # Cardinality(S)
    BY <1>2, <2>1, FS_Subset
  <2>3. Cardinality(U) \in Nat /\ Cardinality(S) \in Nat
    BY <1>2, <2>2, FS_CardinalityType
  <2> QED
    BY <2>2, <2>3
<1>3. ASSUME NEW e \in B
      PROVE  IsFiniteSet(before[e]) /\ Cardinality(before[e]) \in T
  <2>1. before[e] \subseteq B /\ before[e] # B
    OBVIOUS
  <2>2. IsFiniteSet(before[e]) /\ Cardinality(before[e]) \in Nat /\ Cardinality(before[e]) < n
    BY <1>2, <2>1
  <2> QED
    BY <1>1, <2>2
<1>4. ASSUME NEW e \in B, NEW f \in before[e]
      PROVE  Cardinality(before[f]) < Cardinality(before[e])
  <2>1. f \in B /\ before[f] \subseteq before[e] /\ before[f] # before[e]
    OBVIOUS
  <2> QED
    BY <1>2, <1>3, <2>1
<1>5. rank \in Injection(B, T)
  <2>1. rank \in [B -> T]
    BY <1>3
  <2>2. ASSUME NEW e \in B, NEW f \in B, rank[e] = rank[f] PROVE e = f
    <3> SUFFICES ASSUME e # f PROVE FALSE
      OBVIOUS
    <3>1. Cardinality(before[e]) = Cardinality(before[f])
      BY <2>2
    <3>2. Cardinality(before[e]) \in Nat /\ Cardinality(before[f]) \in Nat
      BY <1>3
    <3>3. ~(e \in before[f]) /\ ~(f \in before[e])
      BY <1>4, <3>1, <3>2
    <3> QED
      BY <3>3
  <2> QED
    BY <2>1, <2>2 DEF Injection, IsInjective
<1>6. IsFiniteSet(T) /\ Cardinality(T) = n
  BY SMTT(30), <1>1, FS_Interval
<1>7. rank \in Surjection(B, T)
  <2> HIDE DEF rank, T
  <2> QED
    BY <1>5, <1>6, FS_Injection
<1>8. ASSUME NEW i \in 1..n PROVE \E e \in B : Cardinality(before[e]) = i - 1
  <2>1. i - 1 \in T
    BY <1>1
  <2> QED
    BY <1>7, <2>1 DEF Surjection
<1> QED
  BY <1>1, <1>3, <1>4, <1>8

LEMMA SubtreeIn ==
  ASSUME TypeOK, NEW r \in DOMAIN node
  PROVE  /\ r \in Subtree(r) /\ Subtree(r) \subseteq DOMAIN node /\ IsFiniteSet(Subtree(r))
         /\ \A e \in ActiveEdges : edge[e].from \in Subtree(r) => edge[e].to \in Subtree(r)
         /\ \A x \in Subtree(r) : Subtree(x) \subseteq Subtree(r)
         /\ \A S : r \in S /\ (\A e \in ActiveEdges : edge[e].from \in S => edge[e].to \in S)
                     => Subtree(r) \subseteq S
<1>1. edge \in Seq(EdgeRow) /\ DOMAIN node = 1..Len(node) /\ Len(node) \in Nat /\ r \in Nat
      /\ DOMAIN node \subseteq Nat
  BY DEF TypeOK
<1>2. \A x : Subtree(x) = Reach(edge, x)
  BY ReachIsSubtree
<1>3. r \in Subtree(r) /\ Closed(edge, Subtree(r))
  BY <1>1, <1>2, ReachLeast
<1>4. Subtree(r) \subseteq DOMAIN node
  <2>1. Closed(edge, DOMAIN node) /\ DOMAIN node \in SUBSET Nat
    BY <1>1, RowFields DEF Closed, Active
  <2> QED
    BY <1>1, <1>2, <2>1, ReachLeast
<1>5. IsFiniteSet(Subtree(r))
  <2>1. IsFiniteSet(1..Len(node))
    BY <1>1, FS_Interval
  <2> QED
    BY <1>1, <1>4, <2>1, FS_Subset
<1>6. ASSUME NEW x \in Subtree(r) PROVE Subtree(x) \subseteq Subtree(r)
  <2>1. x \in Nat /\ Subtree(r) \in SUBSET Nat
    BY <1>1, <1>4
  <2> QED
    BY <1>1, <1>2, <1>3, <2>1, ReachLeast
<1>7. ASSUME NEW S, r \in S, \A e \in ActiveEdges : edge[e].from \in S => edge[e].to \in S
      PROVE  Subtree(r) \subseteq S
  <2> DEFINE C == S \cap DOMAIN node
  <2>1. r \in C /\ C \in SUBSET Nat
    BY <1>1, <1>7
  <2>2. Closed(edge, C)
    BY <1>7, RowFields DEF Closed, Active, ActiveEdges
  <2>3. Reach(edge, r) \subseteq C
    <3> HIDE DEF C
    <3> QED
      BY <1>1, <2>1, <2>2, ReachLeast
  <2> QED
    BY <1>2, <2>3
<1> QED
  BY <1>3, <1>4, <1>5, <1>6, <1>7 DEF Closed, Active, ActiveEdges

Below(r) == {e \in ActiveEdges : edge[e].from \in Subtree(r)}

LEMMA DepthRises ==
  ASSUME TypeOK, Tree(node, edge), NEW r \in DOMAIN node, NEW e \in Below(r)
  PROVE  /\ Depth(r, edge[e].from) \in Nat
         /\ \A f \in Below(r) : edge[f].to = edge[e].from
                => Depth(r, edge[f].from) < Depth(r, edge[e].from)
<1> DEFINE Over(n) == {x \in Subtree(r) : n \in Subtree(x)}
<1>1. \A n : /\ IsFiniteSet(Over(n)) /\ Depth(r, n) = Cardinality(Over(n))
             /\ Cardinality(Over(n)) \in Nat
  <2>1. IsFiniteSet(Subtree(r))
    BY SubtreeIn
  <2>2. \A n : Over(n) \in SUBSET Subtree(r)
    OBVIOUS
  <2>3. \A n : IsFiniteSet(Over(n))
    BY <2>1, <2>2, FS_Subset
  <2> HIDE DEF Over
  <2>4. \A n : Cardinality(Over(n)) \in Nat
    BY <2>3, FS_CardinalityType
  <2> QED
    BY <2>3, <2>4 DEF Depth, Over
<1>2. ASSUME NEW f \in Below(r), edge[f].to = edge[e].from
      PROVE  Depth(r, edge[f].from) < Depth(r, edge[e].from)
  <2> DEFINE n == edge[e].from
             p == edge[f].from
  <2>1. /\ f \in ActiveEdges /\ f \in DOMAIN edge /\ e \in ActiveEdges
        /\ p \in Subtree(r) /\ n \in Subtree(r) /\ n \in DOMAIN node
    BY RowFields DEF Below, ActiveEdges
  <2>2. ASSUME NEW x \in Subtree(r), p \in Subtree(x) PROVE n \in Subtree(x)
    <3>1. x \in DOMAIN node
      BY SubtreeIn
    <3> QED
      BY <1>2, <2>1, <2>2, <3>1, SubtreeIn
  <2>3. n \in Over(n)
    BY <2>1, SubtreeIn
  <2>4. p \notin Subtree(n)
    BY <1>2, <2>1, ReachIsSubtree DEF Tree, Active, ActiveEdges
  <2>5. Over(p) \in SUBSET Over(n) /\ Over(p) # Over(n)
    BY <2>2, <2>3, <2>4
  <2> HIDE DEF Over, n, p
  <2>6. Cardinality(Over(p)) <= Cardinality(Over(n)) /\ Cardinality(Over(p)) # Cardinality(Over(n))
    <3>1. IsFiniteSet(Over(n))
      BY <1>1
    <3>2. /\ Cardinality(Over(p)) <= Cardinality(Over(n))
          /\ Cardinality(Over(n)) = Cardinality(Over(p)) => Over(n) = Over(p)
      BY <2>5, <3>1, FS_Subset
    <3> QED
      BY <2>5, <3>2
  <2>7. Cardinality(Over(p)) < Cardinality(Over(n))
    BY <1>1, <2>6
  <2> QED
    BY <1>1, <2>7 DEF n, p
<1> QED
  BY <1>1, <1>2

(* A member of a subtree other than its top is placed in it. *)
LEMMA PlacedBelow ==
  ASSUME TypeOK, NEW r \in DOMAIN node, NEW n \in Subtree(r), n # r
  PROVE  \E f \in Below(r) : edge[f].to = n
<1> SUFFICES ASSUME ~\E f \in Below(r) : edge[f].to = n PROVE FALSE
  OBVIOUS
<1> DEFINE S == Subtree(r) \ {n}
<1>1. r \in S
  BY SubtreeIn
<1>2. \A e \in ActiveEdges : edge[e].from \in S => edge[e].to \in S
  BY SubtreeIn DEF Below
<1>3. Subtree(r) \subseteq S
  <2> HIDE DEF S
  <2> QED
    BY <1>1, <1>2, SubtreeIn
<1> QED
  BY <1>3

(* The walk visits each placement below r once, a parent's before its children's. *)
LEMMA WalkOrderIs ==
  ASSUME TypeOK, Tree(node, edge), NEW r \in DOMAIN node
  PROVE  \E pos :
            /\ Cardinality(Below(r)) \in Nat
            /\ DOMAIN WalkOrder(r) = 1..Cardinality(Below(r))
            /\ \A i \in DOMAIN WalkOrder(r) :
                  WalkOrder(r)[i] \in Below(r) /\ pos[WalkOrder(r)[i]] = i
            /\ \A e \in Below(r) : pos[e] \in DOMAIN WalkOrder(r) /\ WalkOrder(r)[pos[e]] = e
            /\ \A e, f \in Below(r) : edge[f].to = edge[e].from => pos[f] < pos[e]
<1> DEFINE B == Below(r)
           depth == [e \in B |-> Depth(r, edge[e].from)]
           Earlier(e) == {f \in B : depth[f] < depth[e] \/ (depth[f] = depth[e] /\ f < e)}
           before == [e \in B |-> Earlier(e)]
           N == Cardinality(B)
           order == [i \in 1..N |-> CHOOSE e \in B : Cardinality(Earlier(e)) = i - 1]
           pos == [e \in B |-> Cardinality(before[e]) + 1]
<1>1. WalkOrder(r) = order
  BY DEF WalkOrder, Below
<1>2. IsFiniteSet(B)
  <2>1. B \in SUBSET Active(edge) /\ edge \in Seq(EdgeRow)
    BY DEF Below, Active, ActiveEdges, TypeOK
  <2> HIDE DEF B
  <2> QED
    BY <2>1, ActiveFinite, FS_Subset
<1>3. \A e \in B : e \in Nat /\ e \in DOMAIN edge /\ depth[e] \in Nat
  BY DepthRises, RowFields DEF Below, ActiveEdges
<1>4. /\ before \in [B -> SUBSET B]
      /\ \A e \in B : before[e] = Earlier(e)
  OBVIOUS
<1>5. \A e, f \in B : f \in before[e] <=> depth[f] < depth[e] \/ (depth[f] = depth[e] /\ f < e)
  OBVIOUS
<1>6. /\ \A e \in B : e \notin before[e]
      /\ \A e \in B : \A f \in before[e] : before[f] \subseteq before[e]
      /\ \A e, f \in B : e # f => e \in before[f] \/ f \in before[e]
  <2> HIDE DEF B, depth, before
  <2>1. \A e \in B : e \notin before[e]
    BY <1>3, <1>5
  <2>2. ASSUME NEW e \in B, NEW f \in before[e], NEW g \in before[f] PROVE g \in before[e]
    <3>1. f \in B /\ g \in B
      BY <1>4
    <3> QED
      BY <1>3, <1>5, <2>2, <3>1
  <2>3. \A e, f \in B : e # f => e \in before[f] \/ f \in before[e]
    BY <1>3, <1>5
  <2> QED
    BY <2>1, <2>2, <2>3
<1>7. /\ N \in Nat
      /\ \A e \in B : Cardinality(before[e]) \in 0..(N - 1)
      /\ \A e \in B : \A f \in before[e] : Cardinality(before[f]) < Cardinality(before[e])
      /\ \A i \in 1..N : \E e \in B : Cardinality(before[e]) = i - 1
  <2> HIDE DEF B, before
  <2> QED
    BY <1>2, <1>4, <1>6, Ranks
<1>8. ASSUME NEW i \in 1..N PROVE order[i] \in B /\ Cardinality(before[order[i]]) = i - 1
  <2>1. \E e \in B : Cardinality(Earlier(e)) = i - 1
    BY <1>4, <1>7
  <2>2. order[i] = CHOOSE e \in B : Cardinality(Earlier(e)) = i - 1
    OBVIOUS
  <2> HIDE DEF order, B, Earlier, before
  <2>3. order[i] \in B /\ Cardinality(Earlier(order[i])) = i - 1
    BY <2>1, <2>2
  <2> QED
    BY <1>4, <2>3
<1>9. DOMAIN order = 1..N /\ \A e \in B : pos[e] = Cardinality(before[e]) + 1
  OBVIOUS
<1>10. \A e, f \in B : edge[f].to = edge[e].from => f \in before[e]
  <2>1. \A e \in B : depth[e] = Depth(r, edge[e].from)
    OBVIOUS
  <2>2. \A e, f \in B : edge[f].to = edge[e].from => depth[f] < depth[e]
    <3> HIDE DEF depth
    <3> QED
      BY <2>1, DepthRises
  <2> HIDE DEF depth, before, B
  <2> QED
    BY <1>5, <2>2
<1> HIDE DEF B, depth, Earlier, before, N, order, pos
<1>11. \A e \in B : Cardinality(before[e]) \in Nat /\ pos[e] \in 1..N /\ pos[e] - 1 = Cardinality(before[e])
  BY <1>7, <1>9
<1>12. \A e, f \in B : Cardinality(before[e]) = Cardinality(before[f]) => e = f
  <2> SUFFICES ASSUME NEW e \in B, NEW f \in B, e # f,
                      Cardinality(before[e]) = Cardinality(before[f])
               PROVE  FALSE
    OBVIOUS
  <2>1. CASE e \in before[f]
    BY <1>7, <1>11, <2>1
  <2>2. CASE f \in before[e]
    BY <1>7, <1>11, <2>2
  <2> QED
    BY <1>6, <2>1, <2>2
<1>13. \A i \in 1..N : order[i] \in B /\ pos[order[i]] = i
  BY <1>8, <1>9, <1>7
<1>14. \A e \in B : pos[e] \in 1..N /\ order[pos[e]] = e
  BY <1>8, <1>11, <1>12
<1>15. \A e, f \in B : edge[f].to = edge[e].from => pos[f] < pos[e]
  BY <1>7, <1>9, <1>10, <1>11
<1> QED
  BY <1>1, <1>7, <1>9, <1>13, <1>14, <1>15 DEF B, N

(* No two siblings have one name, among placements and in a pack. *)
Distinct(E) ==
    \A e, f \in Active(E) : E[e].from = E[f].from /\ E[e].name = E[f].name => e = f

Tidy(rows) ==
    \A i, j \in DOMAIN rows :
        /\ rows[i].p = 0 => i = 1
        /\ rows[i].p = rows[j].p /\ rows[i].n = rows[j].n => i = j

(* Rows read from below r: to gives the node of each row, and each placement   *)
(* below r is that of a row.                                                   *)
ReadFrom(rows, to, i, e) ==
    /\ edge[e].name = rows[i].n /\ edge[e].to = to[i]
    /\ rows[i].p \in DOMAIN rows /\ edge[e].from = to[rows[i].p]

Reads(r, rows, to) ==
    /\ to[1] = r
    /\ \A i \in DOMAIN rows : rows[i].t = node[to[i]].type /\ rows[i].d = node[to[i]].data
    /\ \A i \in DOMAIN rows \ {1} : \E e \in Below(r) : ReadFrom(rows, to, i, e)
    /\ \A e \in Below(r) : \E i \in DOMAIN rows \ {1} : ReadFrom(rows, to, i, e)

(* Copy, pack and unpack are handed rows whose parents precede them, and whose *)
(* siblings have the names of the siblings they were read from.                *)
LEMMA RowsOfOk ==
  ASSUME TypeOK, Tree(node, edge), NEW r \in DOMAIN node, NEW name \in Names
  PROVE  /\ RowsOk(RowsOf(r, name))
         /\ RowsOf(r, name)[1].n = name
         /\ Distinct(edge) => Tidy(RowsOf(r, name))
         /\ \E to : Reads(r, RowsOf(r, name), to)
<1> DEFINE order == WalkOrder(r)
           RowOf(n) == IF n = r THEN 1
                       ELSE 1 + (CHOOSE i \in DOMAIN order : edge[order[i]].to = n)
           Row(e) == [p |-> RowOf(edge[e].from), t |-> node[edge[e].to].type,
                      n |-> edge[e].name, d |-> node[edge[e].to].data]
           top == [p |-> 0, t |-> node[r].type, n |-> name, d |-> node[r].data]
           N == Cardinality(Below(r))
           rest == [i \in DOMAIN order |-> Row(order[i])]
           rows == RowsOf(r, name)
<1>1. PICK pos :
            /\ N \in Nat
            /\ DOMAIN order = 1..N
            /\ \A i \in DOMAIN order : order[i] \in Below(r) /\ pos[order[i]] = i
            /\ \A e \in Below(r) : pos[e] \in DOMAIN order /\ order[pos[e]] = e
            /\ \A e, f \in Below(r) : edge[f].to = edge[e].from => pos[f] < pos[e]
  BY WalkOrderIs
<1>2. rows = <<top>> \o rest
  BY DEF RowsOf
<1>3. ASSUME NEW n \in DOMAIN node PROVE node[n].type \in Types /\ node[n].data \in Nat
  <2>1. node[n] \in NodeRow
    BY DEF TypeOK
  <2> QED
    BY <2>1 DEF NodeRow
<1>4. ASSUME NEW i \in DOMAIN order
      PROVE  /\ RowOf(edge[order[i]].from) \in 1..i
             /\ edge[order[i]].from # r =>
                  \E j \in 1..(i - 1) : /\ RowOf(edge[order[i]].from) = 1 + j
                                        /\ edge[order[j]].to = edge[order[i]].from
             /\ edge[order[i]].from = r => RowOf(edge[order[i]].from) = 1
             /\ Holder(node, edge[order[i]].from)
             /\ order[i] \in DOMAIN edge
  <2> DEFINE e == order[i]
             n == edge[e].from
  <2>1. e \in Below(r) /\ e \in ActiveEdges /\ e \in DOMAIN edge /\ n \in Subtree(r) /\ pos[e] = i
    BY <1>1 DEF Below, ActiveEdges
  <2>2. Holder(node, n)
    BY <2>1 DEF Tree, Active, ActiveEdges
  <2>3. i \in Nat /\ 1 <= i
    BY <1>1
  <2>4. ASSUME n # r
        PROVE  \E j \in 1..(i - 1) : RowOf(n) = 1 + j /\ edge[order[j]].to = n
    <3>1. PICK f \in Below(r) : edge[f].to = n
      BY <2>1, <2>4, PlacedBelow
    <3>2. pos[f] \in DOMAIN order /\ edge[order[pos[f]]].to = n
      BY <1>1, <3>1
    <3> DEFINE j == CHOOSE k \in DOMAIN order : edge[order[k]].to = n
    <3>3. j \in DOMAIN order /\ edge[order[j]].to = n
      BY <3>2
    <3>4. RowOf(n) = 1 + j
      BY <2>4
    <3> HIDE DEF j, RowOf, order, e, n
    <3>5. order[j] \in Below(r) /\ pos[order[j]] = j
      BY <1>1, <3>3
    <3>6. pos[order[j]] < pos[e]
      BY <1>1, <2>1, <3>3, <3>5 DEF n
    <3>7. j \in 1..(i - 1)
      BY <1>1, <2>1, <2>3, <3>3, <3>5, <3>6
    <3> QED
      BY <3>3, <3>4, <3>7
  <2>5. n = r => RowOf(n) = 1
    OBVIOUS
  <2> HIDE DEF RowOf
  <2>6. RowOf(n) \in 1..i
    BY <2>3, <2>4, <2>5
  <2> QED
    BY <2>1, <2>2, <2>4, <2>5, <2>6
<1>5. top \in PackRow
  BY <1>3 DEF PackRow
<1>6. ASSUME NEW i \in DOMAIN order PROVE Row(order[i]) \in PackRow
  <2>1. /\ edge[order[i]].to \in DOMAIN node /\ edge[order[i]].name \in Names
        /\ RowOf(edge[order[i]].from) \in Nat
    <3> HIDE DEF RowOf, order, N
    <3>1. order[i] \in DOMAIN edge /\ RowOf(edge[order[i]].from) \in 1..i /\ i \in 1..N
      BY <1>1, <1>4
    <3>2. RowOf(edge[order[i]].from) \in Nat
      BY <1>1, <3>1
    <3> QED
      BY <3>1, <3>2, RowFields
  <2> HIDE DEF RowOf, order
  <2> QED
    BY <1>3, <2>1 DEF PackRow
<1>7. rest \in Seq(PackRow) /\ Len(rest) = N /\ \A i \in 1..N : rest[i] = Row(order[i])
  <2> HIDE DEF Row, order, N
  <2> QED
    BY <1>1, <1>6
<1>8. /\ rows \in Seq(PackRow) /\ DOMAIN rows = 1..(1 + N)
      /\ rows[1] = top /\ \A i \in 1..N : rows[1 + i] = Row(order[i])
  <2> DEFINE one == <<top>>
  <2>1. one \in Seq(PackRow) /\ Len(one) = 1 /\ one[1] = top
    BY SMTT(30), <1>5
  <2>2. rows = one \o rest
    BY <1>2
  <2> HIDE DEF one, rest, rows, top, Row, order, N
  <2>3. rows \in Seq(PackRow) /\ Len(rows) = 1 + N
    BY SMTT(30), <1>7, <2>1, <2>2, ConcatProperties
  <2>4. \A i \in 1..(1 + N) : rows[i] = IF i <= 1 THEN one[i] ELSE rest[i - 1]
    <3>1. \A i \in 1..(Len(one) + Len(rest)) :
            (one \o rest)[i] = IF i <= Len(one) THEN one[i] ELSE rest[i - Len(one)]
      BY <1>7, <2>1, ConcatProperties
    <3> QED
      BY <1>7, <2>1, <2>2, <3>1
  <2>5. \A i \in 1..N : 1 + i \in 1..(1 + N) /\ ~(1 + i <= 1) /\ (1 + i) - 1 = i
    BY <1>1
  <2>6. 1 \in 1..(1 + N)
    BY <1>1
  <2> QED
    BY <1>7, <2>1, <2>3, <2>4, <2>5, <2>6
<1>9. ASSUME NEW i \in DOMAIN rows
      PROVE  rows[i].p < i /\ (rows[i].p # 0 => rows[rows[i].p].t = "container")
  <2>1. CASE i = 1
    BY <1>8, <2>1
  <2>2. CASE i # 1
    <3> DEFINE k == i - 1
               n == edge[order[k]].from
    <3>1. k \in 1..N /\ i = 1 + k
      BY <1>1, <1>8, <2>2
    <3>2. rows[i].p = RowOf(n)
      <4>1. rows[i] = Row(order[k])
        <5> HIDE DEF rows, Row, order, N, k
        <5> QED
          BY <1>8, <3>1
      <4> HIDE DEF rows, RowOf, order
      <4> QED
        BY <4>1
    <3>3. RowOf(n) \in 1..k /\ Holder(node, n)
      BY <1>1, <1>4, <3>1
    <3>4. CASE n = r
      <4>1. RowOf(n) = 1 /\ rows[1].t = node[r].type
        BY <1>8, <3>4
      <4> HIDE DEF RowOf, rows, n, k, order, N
      <4> QED
        BY <3>1, <3>2, <3>3, <3>4, <4>1 DEF Holder
    <3>5. CASE n # r
      <4>1. PICK j \in 1..(k - 1) : RowOf(n) = 1 + j /\ edge[order[j]].to = n
        BY <1>1, <1>4, <3>1, <3>5
      <4>2. j \in 1..N
        BY <1>1, <3>1, <4>1
      <4>3. rows[1 + j].t = node[n].type
        <5>1. rows[1 + j] = Row(order[j])
          BY <1>8, <4>2
        <5> HIDE DEF rows, order, n, RowOf
        <5> QED
          BY <4>1, <5>1
      <4> HIDE DEF RowOf, rows, n, k, order, N
      <4> QED
        BY <3>1, <3>2, <3>3, <4>1, <4>3 DEF Holder
    <3> QED
      BY <3>4, <3>5
  <2> QED
    BY <2>1, <2>2
<1>10. rows # <<>>
  <2> HIDE DEF rows, N
  <2>1. 1 \in DOMAIN rows
    BY <1>1, <1>8
  <2> QED
    BY <2>1
<1>11. rows[1].n = name /\ rows[1].p = 0
  BY <1>8
<1>12. ASSUME NEW k \in 1..N
       PROVE  /\ rows[1 + k].p = RowOf(edge[order[k]].from) /\ rows[1 + k].p \in Nat \ {0}
              /\ rows[1 + k].n = edge[order[k]].name
              /\ order[k] \in Active(edge)
  <2>1. rows[1 + k] = Row(order[k])
    <3> HIDE DEF rows, Row, order, N
    <3> QED
      BY <1>8
  <2>2. RowOf(edge[order[k]].from) \in 1..k /\ k \in Nat /\ order[k] \in Below(r)
    BY <1>1, <1>4
  <2> HIDE DEF rows, RowOf, order, N
  <2>3. rows[1 + k].p = RowOf(edge[order[k]].from) /\ rows[1 + k].n = edge[order[k]].name
    BY <2>1
  <2> QED
    BY <2>2, <2>3 DEF Below, Active, ActiveEdges
<1>13. ASSUME NEW k \in 1..N, NEW l \in 1..N,
              RowOf(edge[order[k]].from) = RowOf(edge[order[l]].from)
       PROVE  edge[order[k]].from = edge[order[l]].from
  <2> DEFINE a == edge[order[k]].from
             b == edge[order[l]].from
  <2>1. /\ a = r => RowOf(a) = 1
        /\ b = r => RowOf(b) = 1
        /\ a # r => \E j \in 1..(k - 1) : RowOf(a) = 1 + j /\ edge[order[j]].to = a
        /\ b # r => \E j \in 1..(l - 1) : RowOf(b) = 1 + j /\ edge[order[j]].to = b
    BY <1>1, <1>4
  <2>2. RowOf(a) = RowOf(b)
    BY <1>13
  <2> HIDE DEF a, b, RowOf, order, N
  <2>3. (a = r) <=> (b = r)
    BY <2>1, <2>2
  <2>4. a = b
    BY <2>1, <2>2, <2>3
  <2> QED
    BY <2>4 DEF a, b
<1>14. ASSUME Distinct(edge), NEW i \in DOMAIN rows, NEW j \in DOMAIN rows
       PROVE  /\ rows[i].p = 0 => i = 1
              /\ rows[i].p = rows[j].p /\ rows[i].n = rows[j].n => i = j
  <2>1. \A x \in DOMAIN rows : x = 1 \/ (x - 1 \in 1..N /\ x = 1 + (x - 1))
    <3> HIDE DEF rows, N
    <3> QED
      BY <1>1, <1>8
  <2>2. ASSUME NEW k \in 1..N, NEW l \in 1..N, rows[1 + k].p = rows[1 + l].p,
               rows[1 + k].n = rows[1 + l].n
        PROVE  k = l
    <3>1. RowOf(edge[order[k]].from) = RowOf(edge[order[l]].from)
      BY <1>12, <2>2
    <3>2. edge[order[k]].from = edge[order[l]].from
      BY <1>13, <3>1
    <3>3. order[k] = order[l]
      <4> HIDE DEF rows, order, N
      <4> QED
        BY <1>12, <1>14, <2>2, <3>2 DEF Distinct
    <3> HIDE DEF order, N
    <3> QED
      BY <1>1, <3>3
  <2>3. \A k \in 1..N : rows[1 + k].p # 0
    BY <1>12
  <2> HIDE DEF rows, N
  <2> QED
    BY <1>11, <2>1, <2>2, <2>3
<1>15. Distinct(edge) => Tidy(rows)
  <2> HIDE DEF rows
  <2> QED
    BY <1>14 DEF Tidy
<1>16. RowsOk(rows)
  BY <1>8, <1>9, <1>10 DEF RowsOk
<1> DEFINE to == [i \in DOMAIN rows |-> IF i = 1 THEN r ELSE edge[order[i - 1]].to]
<1>17. /\ 1 \in DOMAIN rows /\ to[1] = r
       /\ \A k \in 1..N : /\ 1 + k \in DOMAIN rows \ {1} /\ to[1 + k] = edge[order[k]].to
                          /\ rows[1 + k].t = node[edge[order[k]].to].type
                          /\ rows[1 + k].d = node[edge[order[k]].to].data
  <2>1. DOMAIN rows = 1..(1 + N) /\ N \in Nat
    BY <1>1, <1>8
  <2>2. ASSUME NEW k \in 1..N
        PROVE  /\ 1 + k \in DOMAIN rows \ {1} /\ to[1 + k] = edge[order[k]].to
               /\ rows[1 + k].t = node[edge[order[k]].to].type
               /\ rows[1 + k].d = node[edge[order[k]].to].data
    <3>1. 1 + k \in DOMAIN rows \ {1} /\ (1 + k) - 1 = k
      <4> HIDE DEF rows, N
      <4> QED
        BY <2>1
    <3>2. to[1 + k] = IF 1 + k = 1 THEN r ELSE edge[order[(1 + k) - 1]].to
      <4> HIDE DEF rows, order
      <4> QED
        BY <3>1
    <3>3. to[1 + k] = edge[order[k]].to
      <4> HIDE DEF rows, order, to
      <4> QED
        BY <3>1, <3>2
    <3>4. rows[1 + k] = Row(order[k])
      <4> HIDE DEF rows, Row, order, N
      <4> QED
        BY <1>8
    <3>5. rows[1 + k].t = node[edge[order[k]].to].type /\ rows[1 + k].d = node[edge[order[k]].to].data
      <4> HIDE DEF rows, order, RowOf
      <4> QED
        BY <3>4
    <3> QED
      BY <3>1, <3>3, <3>5
  <2>3. 1 \in DOMAIN rows
    <3> HIDE DEF rows, N
    <3> QED
      BY <2>1
  <2> HIDE DEF rows, order, N
  <2> QED
    BY <2>2, <2>3
<1>18. rows[1].t = node[r].type /\ rows[1].d = node[r].data
  BY <1>8
<1>19. \A i \in DOMAIN rows : i = 1 \/ \E k \in 1..N : i = 1 + k
  <2>1. DOMAIN rows = 1..(1 + N) /\ N \in Nat
    BY <1>1, <1>8
  <2> HIDE DEF rows, N
  <2>2. \A i \in DOMAIN rows : i # 1 => i - 1 \in 1..N /\ i = 1 + (i - 1)
    BY <2>1
  <2> QED
    BY <2>2
<1>20. ASSUME NEW k \in 1..N PROVE ReadFrom(rows, to, 1 + k, order[k]) /\ order[k] \in Below(r)
  <2> DEFINE n == edge[order[k]].from
  <2>1. k \in DOMAIN order /\ order[k] \in Below(r) /\ k \in Nat
    BY <1>1
  <2>2. /\ n = r => RowOf(n) = 1
        /\ n # r => \E j \in 1..(k - 1) : RowOf(n) = 1 + j /\ edge[order[j]].to = n
    BY <1>4, <2>1
  <2>3. rows[1 + k].p = RowOf(n) /\ rows[1 + k].n = edge[order[k]].name
    BY <1>12
  <2>4. \A j \in 1..(k - 1) : j \in 1..N
    BY <1>1
  <2>5. rows[1 + k].p \in DOMAIN rows /\ to[rows[1 + k].p] = n
    <3> HIDE DEF rows, RowOf, order, N, to, n
    <3>1. CASE n = r
      BY <1>17, <2>2, <2>3, <3>1
    <3>2. CASE n # r
      <4>1. PICK j \in 1..(k - 1) : RowOf(n) = 1 + j /\ edge[order[j]].to = n
        BY <2>2, <3>2
      <4> QED
        BY <1>17, <2>3, <2>4, <4>1
    <3> QED
      BY <3>1, <3>2
  <2> HIDE DEF rows, order, to, N
  <2> QED
    BY <1>17, <2>1, <2>3, <2>5 DEF ReadFrom
<1>21. Reads(r, rows, to)
  <2>1. \A e \in Below(r) : \E k \in 1..N : e = order[k]
    BY <1>1
  <2> HIDE DEF rows, order, to, N
  <2>2. \A i \in DOMAIN rows : rows[i].t = node[to[i]].type /\ rows[i].d = node[to[i]].data
    BY <1>17, <1>18, <1>19
  <2>3. \A i \in DOMAIN rows \ {1} : \E e \in Below(r) : ReadFrom(rows, to, i, e)
    BY <1>19, <1>20
  <2>4. \A e \in Below(r) : \E i \in DOMAIN rows \ {1} : ReadFrom(rows, to, i, e)
    BY <1>17, <1>20, <2>1
  <2> QED
    BY <1>17, <2>2, <2>3, <2>4 DEF Reads
<1> QED
  <2> HIDE DEF to
  <2> QED
    BY <1>11, <1>15, <1>16, <1>21

---------------------------------------------------------------------------
(* The inductive invariant                                                 *)

(* Only the root has the root's name, and it stays a container. *)
Named == \A n \in DOMAIN node \ {Root} : node[n].name \in Names

(* A pack holds rows that can be grafted. *)
Packed == \A b \in DOMAIN blob : RowsOk(blob[b])

IInv ==
    /\ TypeOK /\ habit \in Habits
    /\ Named /\ IsContainer(Root) /\ Packed
    /\ Tree(node, edge)
    /\ AnchorsDisjoint

(* What an operation of mount m does to the volume: names and archives, places *)
(* a node of its own under another, or grafts a packed tree.                   *)
Retyped ==
    /\ node' \in Seq(NodeRow) /\ DOMAIN node' = DOMAIN node
    /\ \A n \in DOMAIN node : /\ node'[n].type = node[n].type
                              /\ n # Root => node'[n].name \in Names

Pruning == Retyped /\ Prunes(edge, edge') /\ blob' = blob

Placing(m) ==
    /\ Retyped /\ blob' = blob
    /\ \E E, p, n, name :
        /\ Prunes(edge, E) /\ edge' = Plus(E, p, n, name) /\ name \in Names
        /\ anchor[m] \in DOMAIN node /\ {p, n} \subseteq Subtree(anchor[m])
        /\ Holder(node, p) /\ n # Root /\ p \notin Reach(E, n)
        /\ Holder(node, n) => \A e \in Active(E) : E[e].to # n

Grafting ==
    /\ \E E, p, rows :
        /\ Prunes(edge, E) /\ Graft(p, rows, E) /\ RowsOk(rows)
        /\ p \in DOMAIN node /\ Holder(node, p)
    /\ \/ blob' = blob
       \/ \E rows : RowsOk(rows) /\ blob' = Append(blob, rows)

LEMMA Anchored ==
  ASSUME TypeOK, NEW m \in Mounts
  PROVE  anchor[m] \in {0} \cup DOMAIN node /\ DOMAIN node \subseteq Nat \ {0}
         /\ edge \in Seq(EdgeRow) /\ Root \in DOMAIN node
<1>1. node \in Seq(NodeRow) /\ node # <<>>
  BY DEF TypeOK
<1>2. Len(node) \in Nat /\ Len(node) # 0 /\ DOMAIN node = 1..Len(node)
  BY <1>1
<1> QED
  BY <1>2 DEF TypeOK, Root

LEMMA ResolvedIs ==
  ASSUME IInv, NEW m \in Mounts, NEW path \in Paths, Resolve(m, path) # 0
  PROVE  /\ anchor[m] \in DOMAIN node
         /\ Resolve(m, path) \in DOMAIN node /\ Resolve(m, path) \in Subtree(anchor[m])
<1>1. TypeOK
  BY DEF IInv
<1>2. path \in Seq(Names)
  BY PathsAreSequences
<1> QED
  BY <1>1, <1>2, Anchored, WalkTypes DEF Resolve

LEMMA ParentIs ==
  ASSUME IInv, NEW m \in Mounts, NEW path \in Paths, ResolveParent(m, path) # 0
  PROVE  /\ path # <<>> /\ Last(path) \in Names /\ anchor[m] \in DOMAIN node
         /\ ResolveParent(m, path) \in DOMAIN node
         /\ ResolveParent(m, path) \in Subtree(anchor[m])
         /\ Holder(node, ResolveParent(m, path))
         /\ ResolveParent(m, path) = Walk(anchor[m], Front(path))
         /\ Resolve(m, path) # 0 =>
              \E e \in Walked(ResolveParent(m, path), Resolve(m, path), Last(path)) :
                 e \in DOMAIN edge
<1>1. TypeOK
  BY DEF IInv
<1>2. path \in Seq(Names)
  BY PathsAreSequences
<1> DEFINE c == Walk(anchor[m], Front(path))
<1>3. path # <<>> /\ c # 0 /\ IsContainer(c) /\ ResolveParent(m, path) = c
  BY DEF ResolveParent, Resolve
<1>4. Front(path) \in Seq(Names) /\ Last(path) \in Names
  BY <1>2, <1>3, FrontIs
<1>5. anchor[m] \in DOMAIN node /\ c \in DOMAIN node /\ c \in Subtree(anchor[m])
  BY <1>1, <1>3, <1>4, Anchored, WalkTypes
<1>6. ASSUME Resolve(m, path) # 0
      PROVE  \E e \in Walked(c, Resolve(m, path), Last(path)) : e \in DOMAIN edge
  <2>1. Resolve(m, path) = Lookup(c, Last(path))
    BY <1>2, <1>3, WalkByParent DEF Resolve
  <2>2. PICK e \in ActiveEdges : edge[e].from = c /\ edge[e].name = Last(path)
                                 /\ edge[e].to = Lookup(c, Last(path))
    BY <1>1, <1>6, <2>1, LookupFinds
  <2> HIDE DEF c
  <2> QED
    BY <2>1, <2>2 DEF Walked, PlacementsOf, ActiveEdges
<1> QED
  BY <1>3, <1>4, <1>5, <1>6 DEF IsContainer, Holder

(* The one placement of a container is the one its path walked. *)
LEMMA WalkedIsAll ==
  ASSUME IInv, NEW p, NEW n, NEW name, Walked(p, n, name) # {}
  PROVE  /\ n # Root /\ n \in DOMAIN node
         /\ Holder(node, n) => PlacementsOf(n) = Walked(p, n, name)
<1>1. PICK e \in Walked(p, n, name) : TRUE
  OBVIOUS
<1>2. e \in ActiveEdges /\ edge[e].to = n /\ e \in DOMAIN edge
  BY <1>1 DEF Walked, PlacementsOf, ActiveEdges
<1>3. n # Root /\ n \in DOMAIN node
  BY <1>2, RowFields DEF IInv, Tree, Active, ActiveEdges
<1>4. ASSUME Holder(node, n), NEW f \in PlacementsOf(n) PROVE f = e
  <2>1. f \in Active(edge) /\ e \in Active(edge) /\ edge[f].to = n /\ edge[e].to = n
    BY <1>2 DEF PlacementsOf, ActiveEdges, Active
  <2> QED
    BY <1>4, <2>1 DEF IInv, Tree
<1>5. Walked(p, n, name) \subseteq PlacementsOf(n)
  BY DEF Walked
<1> QED
  BY <1>1, <1>3, <1>4, <1>5

LEMMA RetypedSame ==
  ASSUME IInv, UNCHANGED node
  PROVE  Retyped
BY DEF Retyped, IInv, TypeOK, Named

LEMMA RetypedRenamed ==
  ASSUME IInv, NEW n \in DOMAIN node, NEW name \in Names, NEW sole, node' = Renamed(n, name, sole)
  PROVE  Retyped
<1>1. CASE ~sole
  BY <1>1, RetypedSame DEF Renamed
<1>2. CASE sole
  <2>1. node' = [node EXCEPT ![n].name = name]
    BY <1>2 DEF Renamed
  <2>2. node \in Seq(NodeRow) /\ \A x \in DOMAIN node : x # Root => node[x].name \in Names
    BY DEF IInv, TypeOK, Named
  <2>3. \A x \in DOMAIN node : node[x] \in NodeRow
    BY <2>2
  <2>4. \A x \in DOMAIN node : /\ node'[x] \in NodeRow /\ node'[x].type = node[x].type
                               /\ node'[x].name = IF x = n THEN name ELSE node[x].name
    BY <2>1, <2>3 DEF NodeRow
  <2>5. DOMAIN node' = DOMAIN node /\ node' = [x \in DOMAIN node |-> node'[x]]
    BY <2>1
  <2>6. node' \in Seq(NodeRow)
    <3>1. DOMAIN node = 1..Len(node) /\ Len(node) \in Nat
      BY <2>2
    <3> QED
      BY <2>4, <2>5, <3>1
  <2> QED
    BY <2>2, <2>4, <2>5, <2>6 DEF Retyped
<1> QED
  BY <1>1, <1>2

---------------------------------------------------------------------------
(* The operations                                                          *)

LEMMA OneRow ==
  ASSUME NEW t \in Types, NEW name \in Names, NEW d \in Nat
  PROVE  RowsOk(<<[p |-> 0, t |-> t, n |-> name, d |-> d]>>)
<1> DEFINE row == [p |-> 0, t |-> t, n |-> name, d |-> d]
           rows == <<row>>
<1>1. row \in PackRow /\ row.p = 0
  BY DEF PackRow
<1> HIDE DEF row
<1>2. rows \in Seq(PackRow) /\ rows # <<>> /\ DOMAIN rows = {1} /\ rows[1] = row
  BY <1>1
<1> HIDE DEF rows
<1>3. RowsOk(rows)
  BY <1>1, <1>2 DEF RowsOk
<1> QED
  BY <1>3 DEF rows, row

LEMMA PrunesSelf ==
  ASSUME NEW E \in Seq(EdgeRow)
  PROVE  Prunes(E, E)
BY DEF Prunes

LEMMA CreateGrafts ==
  ASSUME IInv, NEW m \in Mounts, NEW path \in Paths, NEW t \in Types, Create(m, path, t)
  PROVE  Grafting
<1> DEFINE parent == ResolveParent(m, path)
           rows == <<[p |-> 0, t |-> t, n |-> Last(path), d |-> 0]>>
<1>1. parent # 0 /\ Graft(parent, rows, edge) /\ blob' = blob
  BY DEF Create
<1>2. parent \in DOMAIN node /\ Holder(node, parent) /\ Last(path) \in Names
  BY <1>1, ParentIs
<1>3. RowsOk(rows)
  BY <1>2, OneRow
<1>4. Prunes(edge, edge)
  BY PrunesSelf DEF IInv, TypeOK
<1> HIDE DEF rows, parent
<1> QED
  BY <1>1, <1>2, <1>3, <1>4 DEF Grafting

LEMMA CopyGrafts ==
  ASSUME IInv, NEW m \in Mounts, NEW src \in Paths, NEW dst \in Paths, Copy(m, src, dst)
  PROVE  Grafting
<1> DEFINE n == Resolve(m, src)
           parent == ResolveParent(m, dst)
           rows == RowsOf(n, Last(dst))
<1>1. n # 0 /\ parent # 0 /\ Graft(parent, rows, edge) /\ blob' = blob
  BY DEF Copy
<1>2. parent \in DOMAIN node /\ Holder(node, parent) /\ Last(dst) \in Names
  BY <1>1, ParentIs
<1>3. n \in DOMAIN node
  BY <1>1, ResolvedIs
<1>4. RowsOk(rows)
  BY <1>2, <1>3, RowsOfOk DEF IInv
<1>5. Prunes(edge, edge)
  BY PrunesSelf DEF IInv, TypeOK
<1> HIDE DEF rows, parent
<1> QED
  BY <1>1, <1>2, <1>4, <1>5 DEF Grafting

(* The container a placement is in. *)
LEMMA PlacementIs ==
  ASSUME IInv, NEW n, NEW e \in PlacementsOf(n)
  PROVE  /\ e \in ActiveEdges /\ e \in DOMAIN edge /\ n # Root /\ n \in DOMAIN node
         /\ edge[e].from \in DOMAIN node /\ Holder(node, edge[e].from)
<1>1. e \in ActiveEdges /\ e \in DOMAIN edge /\ edge[e].to = n
  BY DEF PlacementsOf, ActiveEdges
<1> QED
  BY <1>1, RowFields DEF IInv, Tree, Active, ActiveEdges

LEMMA PackGrafts ==
  ASSUME IInv, NEW m \in Mounts, NEW path \in Paths, Pack(m, path)
  PROVE  Grafting
<1> DEFINE n == Resolve(m, path)
           name == node[n].name
           rows == <<[p |-> 0, t |-> "leaf", n |-> name, d |-> Len(blob) + 1]>>
           E == Archive(SubtreePlacements(n))
<1>1. n # 0 /\ blob' = Append(blob, RowsOf(n, name))
  BY DEF Pack, Encode
<1>2. PICK e \in PlacementsOf(n) : Graft(edge[e].from, rows, E)
  BY DEF Pack
<1>3. n # Root /\ n \in DOMAIN node /\ edge[e].from \in DOMAIN node /\ Holder(node, edge[e].from)
  BY PlacementIs
<1>4. name \in Names
  BY <1>3 DEF IInv, Named
<1>5. Len(blob) + 1 \in Nat
  BY DEF IInv, TypeOK
<1>6. RowsOk(rows)
  BY <1>4, <1>5, OneRow DEF Types
<1>7. RowsOk(RowsOf(n, name))
  BY <1>3, <1>4, RowsOfOk DEF IInv
<1>8. Prunes(edge, E)
  BY ArchivePrunes DEF IInv
<1> HIDE DEF rows, n, name, E
<1> QED
  BY <1>1, <1>2, <1>3, <1>6, <1>7, <1>8 DEF Grafting

LEMMA UnpackGrafts ==
  ASSUME IInv, NEW m \in Mounts, NEW path \in Paths, Unpack(m, path)
  PROVE  Grafting
<1> DEFINE n == Resolve(m, path)
<1>1. PICK rows \in Decode(node[n].data), e \in PlacementsOf(n) :
         Graft(edge[e].from, rows, Archive({e}))
  BY DEF Unpack
<1>2. edge[e].from \in DOMAIN node /\ Holder(node, edge[e].from)
  BY PlacementIs
<1>3. RowsOk(rows)
  BY DEF Decode, IInv, Packed
<1>4. Prunes(edge, Archive({e}))
  BY ArchivePrunes DEF IInv
<1>5. blob' = blob
  BY DEF Unpack
<1> QED
  BY <1>1, <1>2, <1>3, <1>4, <1>5 DEF Grafting

LEMMA RenamePrunes ==
  ASSUME IInv, NEW m \in Mounts, NEW path \in Paths, NEW name \in Names, Rename(m, path, name)
  PROVE  Pruning
<1> DEFINE parent == ResolveParent(m, path)
           n == Resolve(m, path)
           W == Walked(parent, n, Last(path))
<1>1. /\ n # 0 /\ blob' = blob
      /\ edge' = [e \in DOMAIN edge |-> IF e \in W THEN [edge[e] EXCEPT !.name = name] ELSE edge[e]]
      /\ node' = Renamed(n, name, Cardinality(PlacementsOf(n)) = 1)
  BY DEF Rename
<1>2. n \in DOMAIN node
  BY <1>1, ResolvedIs
<1>3. Retyped
  BY <1>1, <1>2, RetypedRenamed
<1>4. edge \in Seq(EdgeRow) /\ \A e \in DOMAIN edge : edge[e] \in EdgeRow
  BY DEF IInv, TypeOK
<1> HIDE DEF W
<1>5. \A e \in DOMAIN edge : /\ edge'[e] \in EdgeRow
                             /\ edge'[e].from = edge[e].from /\ edge'[e].to = edge[e].to
                             /\ edge'[e].archived = edge[e].archived
  BY <1>1, <1>4 DEF EdgeRow
<1>6. DOMAIN edge' = DOMAIN edge /\ edge' \in Seq(EdgeRow)
  <2>1. DOMAIN edge = 1..Len(edge) /\ Len(edge) \in Nat
    BY <1>4
  <2>2. DOMAIN edge' = DOMAIN edge /\ edge' = [e \in DOMAIN edge |-> edge'[e]]
    BY <1>1
  <2> QED
    BY <1>5, <2>1, <2>2
<1>7. Prunes(edge, edge')
  BY <1>5, <1>6 DEF Prunes, Active
<1> QED
  BY <1>1, <1>3, <1>7 DEF Pruning

LEMMA RemovePrunes ==
  ASSUME IInv, NEW m \in Mounts, NEW path \in Paths,
         RemoveOne(m, path) \/ RemoveRecursive(m, path)
  PROVE  Pruning
<1>1. PICK S : edge' = Archive(S)
  BY DEF RemoveOne, RemoveRecursive
<1>2. UNCHANGED <<node, blob>>
  BY DEF RemoveOne, RemoveRecursive
<1>3. Prunes(edge, edge')
  BY <1>1, ArchivePrunes DEF IInv
<1> QED
  BY <1>2, <1>3, RetypedSame DEF Pruning

(* A leaf holds nothing but itself. *)
LEMMA LeafReach ==
  ASSUME IInv, NEW n \in DOMAIN node, ~Holder(node, n)
  PROVE  Reach(edge, n) = {n}
<1>1. TypeOK /\ Tree(node, edge) /\ edge \in Seq(EdgeRow) /\ n \in Nat
  BY DEF IInv, TypeOK
<1>2. Closed(edge, {n})
  BY <1>1 DEF Closed, Tree
<1> QED
  BY <1>1, <1>2, ReachLeast

LEMMA LinkPlaces ==
  ASSUME IInv, NEW m \in Mounts, NEW src \in Paths, NEW dst \in Paths, Link(m, src, dst)
  PROVE  Placing(m)
<1> DEFINE n == Resolve(m, src)
           p == ResolveParent(m, dst)
<1>1. /\ n # 0 /\ ~Holder(node, n) /\ p # 0 /\ UNCHANGED <<node, blob>>
      /\ edge' = Plus(edge, p, n, Last(dst))
  BY DEF Link, Plus, IsContainer, Holder
<1>2. n \in DOMAIN node /\ n \in Subtree(anchor[m]) /\ anchor[m] \in DOMAIN node
  BY <1>1, ResolvedIs
<1>3. p \in DOMAIN node /\ p \in Subtree(anchor[m]) /\ Holder(node, p) /\ Last(dst) \in Names
  BY <1>1, ParentIs
<1>4. p \notin Reach(edge, n)
  BY <1>1, <1>2, <1>3, LeafReach
<1>5. n # Root
  BY <1>1 DEF IInv, IsContainer, Holder
<1>6. Prunes(edge, edge) /\ Retyped
  BY <1>1, PrunesSelf, RetypedSame DEF IInv, TypeOK
<1> HIDE DEF n, p
<1> QED
  BY <1>1, <1>2, <1>3, <1>4, <1>5, <1>6 DEF Placing

LEMMA MovePlaces ==
  ASSUME IInv, NEW m \in Mounts, NEW src \in Paths, NEW dst \in Paths, Move(m, src, dst)
  PROVE  Placing(m)
<1> DEFINE n == Resolve(m, src)
           from == ResolveParent(m, src)
           p == ResolveParent(m, dst)
           W == Walked(from, n, Last(src))
           E == Archive(W)
<1>1. /\ n # 0 /\ from # 0 /\ p # 0 /\ blob' = blob
      /\ edge' = Plus(E, p, n, Last(dst))
      /\ node' = Renamed(n, Last(dst), PlacementsOf(n) = W)
      /\ Holder(node, n) => p \notin Subtree(n)
  BY DEF Move, Plus, IsContainer, Holder, WouldCycle
<1>2. n \in DOMAIN node /\ n \in Subtree(anchor[m]) /\ anchor[m] \in DOMAIN node
  BY <1>1, ResolvedIs
<1>3. p \in DOMAIN node /\ p \in Subtree(anchor[m]) /\ Holder(node, p) /\ Last(dst) \in Names
  BY <1>1, ParentIs
<1>4. W # {}
  BY <1>1, ParentIs
<1>5. n # Root /\ (Holder(node, n) => PlacementsOf(n) = W)
  BY <1>4, WalkedIsAll
<1>6. Prunes(edge, E) /\ Active(E) = ActiveEdges \ W
  BY ArchivePrunes, ArchiveIs DEF IInv
<1>7. Retyped
  BY <1>1, <1>2, <1>3, RetypedRenamed
<1>8. p \notin Reach(E, n)
  <2>1. p \notin Reach(edge, n)
    BY <1>1, <1>2, <1>3, LeafReach, ReachIsSubtree
  <2>2. edge \in Seq(EdgeRow) /\ n \in Nat
    BY <1>2 DEF IInv, TypeOK
  <2> HIDE DEF E, n
  <2> QED
    BY <1>6, <2>1, <2>2, PruneReach
<1>9. Holder(node, n) => \A e \in Active(E) : E[e].to # n
  <2>1. \A e \in Active(E) : E[e].to = edge[e].to /\ e \in ActiveEdges \ W
    BY <1>6 DEF Prunes, ActiveEdges
  <2> QED
    BY <1>5, <2>1 DEF PlacementsOf
<1> HIDE DEF n, p, E, W
<1> QED
  BY <1>1, <1>2, <1>3, <1>5, <1>6, <1>7, <1>8, <1>9 DEF Placing

LEMMA Edits ==
  ASSUME IInv, NEW m \in Mounts, Edit(m)
  PROVE  /\ Pruning \/ Placing(m) \/ Grafting
         /\ UNCHANGED <<anchor, lock>>
<1>1. PICK path \in Paths :
        \/ \E t \in Types : Create(m, path, t)
        \/ \E name \in Names : Rename(m, path, name)
        \/ RemoveOne(m, path)
        \/ RemoveRecursive(m, path)
        \/ Pack(m, path)
        \/ Unpack(m, path)
        \/ \E dst \in Paths : Link(m, path, dst) \/ Move(m, path, dst) \/ Copy(m, path, dst)
  BY DEF Edit
<1>2. CASE \E t \in Types : Create(m, path, t)
  BY <1>2, CreateGrafts DEF Create
<1>3. CASE \E name \in Names : Rename(m, path, name)
  BY <1>3, RenamePrunes DEF Rename
<1>4. CASE RemoveOne(m, path) \/ RemoveRecursive(m, path)
  BY <1>4, RemovePrunes DEF RemoveOne, RemoveRecursive
<1>5. CASE Pack(m, path)
  BY <1>5, PackGrafts DEF Pack
<1>6. CASE Unpack(m, path)
  BY <1>6, UnpackGrafts DEF Unpack
<1>7. CASE \E dst \in Paths : Link(m, path, dst)
  BY <1>7, LinkPlaces DEF Link
<1>8. CASE \E dst \in Paths : Move(m, path, dst)
  BY <1>8, MovePlaces DEF Move
<1>9. CASE \E dst \in Paths : Copy(m, path, dst)
  BY <1>9, CopyGrafts DEF Copy
<1> QED
  BY <1>1, <1>2, <1>3, <1>4, <1>5, <1>6, <1>7, <1>8, <1>9

---------------------------------------------------------------------------
(* Preservation                                                            *)

(* TypeOK after a step that leaves the mounts and the locks alone. *)
LEMMA TypesKept ==
  ASSUME TypeOK, node' \in Seq(NodeRow), DOMAIN node \subseteq DOMAIN node',
         edge' \in Seq(EdgeRow), Ends(node', edge'), blob' \in Seq(Seq(PackRow)),
         UNCHANGED <<anchor, lock>>
  PROVE  TypeOK'
<1>1. node' # <<>>
  <2>1. node # <<>> /\ node \in Seq(NodeRow)
    BY DEF TypeOK
  <2>2. DOMAIN node = 1..Len(node) /\ Len(node) \in Nat /\ Len(node) # 0
    BY <2>1
  <2>3. 1 \in DOMAIN node'
    BY <2>2
  <2> QED
    BY <2>3
<1>2. anchor' \in [Mounts -> {0} \cup DOMAIN node']
  BY DEF TypeOK
<1>3. lock' \subseteq [node : DOMAIN node', mount : Mounts]
  <2>1. lock \subseteq [node : DOMAIN node, mount : Mounts]
    BY DEF TypeOK
  <2> QED
    BY <2>1
<1>4. \A e \in DOMAIN edge' : {edge'[e].from, edge'[e].to} \subseteq DOMAIN node'
  BY DEF Ends
<1> QED
  BY <1>1, <1>2, <1>3, <1>4 DEF TypeOK

(* A container in two subtrees: one of them holds the other.                 *)
LEMMA CommonContainer ==
  ASSUME TypeOK, Tree(node, edge), NEW a \in DOMAIN node, NEW b \in DOMAIN node,
         NEW c \in Subtree(a), c \in Subtree(b), Holder(node, c)
  PROVE  a \in Subtree(b) \/ b \in Subtree(a)
<1> SUFFICES ASSUME a \notin Subtree(b), b \notin Subtree(a) PROVE FALSE
  OBVIOUS
<1> DEFINE S == {x \in Subtree(b) : Holder(node, x) => x \notin Subtree(a)}
<1>1. b \in S
  BY SubtreeIn
<1>2. ASSUME NEW e \in ActiveEdges, edge[e].from \in S PROVE edge[e].to \in S
  <2>1. Holder(node, edge[e].from) /\ edge[e].from \notin Subtree(a)
    BY <1>2 DEF Tree, Active, ActiveEdges
  <2>2. edge[e].to \in Subtree(b)
    BY <1>2, SubtreeIn
  <2>3. ASSUME Holder(node, edge[e].to), edge[e].to \in Subtree(a) PROVE FALSE
    <3>1. edge[e].to # a
      BY <2>2
    <3>2. PICK f \in Below(a) : edge[f].to = edge[e].to
      BY <2>3, <3>1, PlacedBelow
    <3>3. f = e
      BY <2>3, <3>2 DEF Below, Tree, Active, ActiveEdges
    <3> QED
      BY <2>1, <3>2, <3>3 DEF Below
  <2> QED
    BY <2>2, <2>3
<1>3. Subtree(b) \subseteq S
  <2> HIDE DEF S
  <2> QED
    BY <1>1, <1>2, SubtreeIn
<1> QED
  BY <1>3

(* The mounts stay apart when nothing that was there comes under an anchor it *)
(* was not under.                                                             *)
LEMMA ApartKept ==
  ASSUME IInv, UNCHANGED <<anchor, habit>>,
         \A a, b \in DOMAIN node : b \in Reach(edge', a) => b \in Subtree(a)
                  \/ \E p \in Subtree(a) : /\ Holder(node, p)
                        /\ \E m \in Mounts : /\ anchor[m] \in DOMAIN node
                                             /\ p \in Subtree(anchor[m])
                                             /\ b \in Subtree(anchor[m])
  PROVE  AnchorsDisjoint'
<1> SUFFICES ASSUME ~Overlap, NEW j \in Mounts, NEW k \in Mounts, j # k,
                    anchor[j] # 0, anchor[k] # 0, anchor[j] \in Reach(edge', anchor[k])
             PROVE  FALSE
  <2>1. \A r : Subtree(r)' = Reach(edge', r)
    BY DEF Subtree, ActiveEdges, Reach, Active
  <2>2. Overlap' = Overlap
    BY DEF Overlap
  <2> QED
    BY <2>1, <2>2 DEF AnchorsDisjoint
<1>1. anchor[j] \in DOMAIN node /\ anchor[k] \in DOMAIN node /\ TypeOK /\ Tree(node, edge)
  BY Anchored DEF IInv
<1>2. \A x, y \in Mounts : x # y /\ anchor[x] # 0 /\ anchor[y] # 0 => anchor[x] \notin Subtree(anchor[y])
  BY DEF IInv, AnchorsDisjoint
<1>3. PICK p \in Subtree(anchor[k]), m \in Mounts :
         /\ Holder(node, p) /\ anchor[m] \in DOMAIN node
         /\ p \in Subtree(anchor[m]) /\ anchor[j] \in Subtree(anchor[m])
  BY <1>1, <1>2
<1>4. anchor[m] # 0
  BY <1>1, <1>3, Anchored
<1>5. m = j
  BY <1>2, <1>3, <1>4
<1>6. anchor[k] \in Subtree(anchor[j]) \/ anchor[j] \in Subtree(anchor[k])
  BY <1>1, <1>3, <1>5, CommonContainer
<1> QED
  BY <1>2, <1>6

LEMMA PruningKeeps ==
  ASSUME IInv, Pruning, UNCHANGED <<anchor, lock, habit>>
  PROVE  IInv'
<1>1. TypeOK /\ Tree(node, edge) /\ edge \in Seq(EdgeRow) /\ Ends(node, edge) /\ habit' \in Habits
  BY DEF IInv, TypeOK, Ends
<1>2. Retyped /\ Prunes(edge, edge') /\ blob' = blob
  BY DEF Pruning
<1>3. Tree(node', edge') /\ Ends(node', edge')
  BY <1>1, <1>2, PruneTree DEF Retyped
<1>4. TypeOK'
  BY <1>1, <1>2, <1>3, TypesKept DEF Retyped, Prunes, TypeOK
<1>5. Named' /\ IsContainer(Root)' /\ Packed'
  BY <1>2, Anchored DEF Retyped, IInv, Named, IsContainer, Packed, TypeOK, Root
<1>6. AnchorsDisjoint'
  <2>1. \A a \in DOMAIN node : Reach(edge', a) \subseteq Subtree(a)
    BY <1>1, <1>2, PruneReach, ReachIsSubtree DEF TypeOK
  <2> QED
    BY <2>1, ApartKept
<1> QED
  BY <1>1, <1>3, <1>4, <1>5, <1>6 DEF IInv

LEMMA PlacingKeeps ==
  ASSUME IInv, NEW m \in Mounts, Placing(m), UNCHANGED <<anchor, lock, habit>>
  PROVE  IInv'
<1>1. TypeOK /\ Tree(node, edge) /\ edge \in Seq(EdgeRow) /\ Ends(node, edge) /\ habit' \in Habits
      /\ DOMAIN node \subseteq Nat
  BY Anchored DEF IInv, TypeOK, Ends
<1>2. Retyped /\ blob' = blob
  BY DEF Placing
<1>3. PICK E, p, n, name :
        /\ Prunes(edge, E) /\ edge' = Plus(E, p, n, name) /\ name \in Names
        /\ anchor[m] \in DOMAIN node /\ {p, n} \subseteq Subtree(anchor[m])
        /\ Holder(node, p) /\ n # Root /\ p \notin Reach(E, n)
        /\ Holder(node, n) => \A e \in Active(E) : E[e].to # n
  BY DEF Placing
<1>4. E \in Seq(EdgeRow)
  BY <1>3 DEF Prunes
<1>5. p \in DOMAIN node /\ n \in DOMAIN node
  BY <1>1, <1>3, SubtreeIn
<1>6. Tree(node', E) /\ Ends(node', E)
  BY <1>1, <1>2, <1>3, PruneTree DEF Retyped
<1>7. Holder(node', p) /\ (Holder(node', n) => Holder(node, n)) /\ DOMAIN node' = DOMAIN node
  BY <1>2, <1>3, <1>5 DEF Retyped, Holder
<1>8. Tree(node', edge') /\ Ends(node', edge')
  BY <1>1, <1>3, <1>4, <1>5, <1>6, <1>7, PlusTree
<1>9. edge' \in Seq(EdgeRow)
  BY <1>1, <1>3, <1>4, <1>5, PlusIs DEF Adds
<1>10. TypeOK'
  BY <1>1, <1>2, <1>8, <1>9, TypesKept DEF Retyped, TypeOK
<1>11. Named' /\ IsContainer(Root)' /\ Packed'
  BY <1>2, Anchored DEF Retyped, IInv, Named, IsContainer, Packed, TypeOK, Root
<1>12. ASSUME NEW a \in DOMAIN node, NEW b \in DOMAIN node, b \in Reach(edge', a)
       PROVE  b \in Subtree(a) \/ (p \in Subtree(a) /\ b \in Subtree(anchor[m]))
  <2>1. \A x \in DOMAIN node : Reach(E, x) \subseteq Subtree(x)
    BY <1>1, <1>3, PruneReach, ReachIsSubtree
  <2>2. Reach(edge', a) \subseteq Reach(E, a) \cup (IF p \in Reach(E, a) THEN Reach(E, n) ELSE {})
    BY <1>1, <1>3, <1>4, <1>5, PlusReach
  <2>3. Subtree(n) \subseteq Subtree(anchor[m])
    BY <1>1, <1>3, SubtreeIn
  <2> QED
    BY <1>5, <1>12, <2>1, <2>2, <2>3
<1>13. AnchorsDisjoint'
  BY <1>3, <1>12, ApartKept
<1> QED
  BY <1>1, <1>8, <1>10, <1>11, <1>13 DEF IInv

LEMMA GraftingKeeps ==
  ASSUME IInv, Grafting, UNCHANGED <<anchor, lock, habit>>
  PROVE  IInv'
<1>1. TypeOK /\ Tree(node, edge) /\ edge \in Seq(EdgeRow) /\ Ends(node, edge) /\ habit' \in Habits
      /\ DOMAIN node \subseteq Nat \ {0} /\ node \in Seq(NodeRow) /\ blob \in Seq(Seq(PackRow))
      /\ Root \in DOMAIN node
  <2>1. node # <<>> /\ node \in Seq(NodeRow)
    BY DEF IInv, TypeOK
  <2>2. DOMAIN node \subseteq Nat \ {0} /\ Root \in DOMAIN node
    <3>1. DOMAIN node = 1..Len(node) /\ Len(node) \in Nat /\ Len(node) # 0
      BY <2>1
    <3> QED
      BY <3>1 DEF Root
  <2> QED
    BY <2>2 DEF IInv, TypeOK, Ends
<1>2. PICK E, p, rows :
        /\ Prunes(edge, E) /\ Graft(p, rows, E) /\ RowsOk(rows)
        /\ p \in DOMAIN node /\ Holder(node, p)
  BY DEF Grafting
<1>3. E \in Seq(EdgeRow)
  BY <1>2 DEF Prunes
<1>4. Tree(node, E) /\ Ends(node, E)
  BY <1>1, <1>2, PruneTree
<1>5. Grafts(node, E, p, rows, node', edge')
  BY <1>1, <1>2, <1>3, GraftIs
<1>6. Tree(node', edge') /\ Ends(node', edge')
  BY <1>1, <1>2, <1>3, <1>4, <1>5, GraftTree
<1>7. /\ node' \in Seq(NodeRow) /\ edge' \in Seq(EdgeRow) /\ Len(rows) \in Nat
      /\ \A n \in DOMAIN node : node'[n] = node[n]
      /\ DOMAIN node = 1..Len(node) /\ DOMAIN node' = 1..(Len(node) + Len(rows))
      /\ DOMAIN rows = 1..Len(rows)
      /\ \A i \in DOMAIN rows : node'[Len(node) + i].name = rows[i].n
  BY <1>1, <1>2, <1>5 DEF Grafts, RowsOk
<1>8. DOMAIN node \subseteq DOMAIN node'
  BY <1>1, <1>7
<1>9. blob' \in Seq(Seq(PackRow)) /\ Packed'
  <2>1. CASE blob' = blob
    BY <1>1, <2>1 DEF IInv, Packed
  <2>2. ASSUME NEW r, RowsOk(r), blob' = Append(blob, r)
        PROVE  blob' \in Seq(Seq(PackRow)) /\ Packed'
    <3>1. r \in Seq(PackRow)
      BY <2>2 DEF RowsOk
    <3>2. \A b \in DOMAIN blob' : blob'[b] = r \/ (b \in DOMAIN blob /\ blob'[b] = blob[b])
      <4> DEFINE S == Seq(PackRow)
      <4>1. blob \in Seq(S) /\ r \in S
        BY <1>1, <3>1
      <4> HIDE DEF S
      <4>2. /\ Len(Append(blob, r)) = Len(blob) + 1
            /\ \A i \in 1..Len(blob) : Append(blob, r)[i] = blob[i]
            /\ Append(blob, r)[Len(blob) + 1] = r
            /\ Append(blob, r) \in Seq(S)
        BY <4>1, AppendProperties
      <4>3. DOMAIN blob = 1..Len(blob) /\ Len(blob) \in Nat /\ DOMAIN blob' = 1..(Len(blob) + 1)
        BY <2>2, <4>1, <4>2
      <4> QED
        BY <2>2, <4>2, <4>3
    <3>3. blob' \in Seq(Seq(PackRow))
      BY <1>1, <2>2, <3>1
    <3> QED
      BY <2>2, <3>2, <3>3 DEF IInv, Packed
  <2> QED
    BY <2>1, <2>2 DEF Grafting
<1>10. TypeOK'
  BY <1>1, <1>6, <1>7, <1>8, <1>9, TypesKept
<1>11. Named' /\ IsContainer(Root)'
  <2>1. ASSUME NEW n \in DOMAIN node', n # Root PROVE node'[n].name \in Names
    <3>1. CASE n \in DOMAIN node
      BY <1>7, <2>1, <3>1 DEF IInv, Named
    <3>2. CASE n \notin DOMAIN node
      <4>1. n - Len(node) \in DOMAIN rows /\ n = Len(node) + (n - Len(node))
        BY <1>1, <1>7, <2>1, <3>2
      <4>2. rows[n - Len(node)].n \in Names
        BY <1>2, <4>1, RowTypes
      <4> QED
        BY <1>7, <4>1, <4>2
    <3> QED
      BY <3>1, <3>2
  <2>2. IsContainer(Root)'
    BY <1>1, <1>7 DEF IInv, IsContainer, Root
  <2> QED
    BY <2>1, <2>2 DEF Named, Root
<1>12. AnchorsDisjoint'
  <2>1. ASSUME NEW a \in DOMAIN node, NEW b \in DOMAIN node, b \in Reach(edge', a)
        PROVE  b \in Subtree(a)
    <3>1. b \in Reach(E, a)
      BY <1>1, <1>2, <1>3, <1>4, <1>5, <2>1, GraftReach
    <3> QED
      BY <1>1, <1>2, <3>1, PruneReach, ReachIsSubtree
  <2> QED
    BY <2>1, ApartKept
<1> QED
  BY <1>1, <1>6, <1>9, <1>10, <1>11, <1>12 DEF IInv

LEMMA EditKeeps ==
  ASSUME IInv, NEW m \in Mounts, Edit(m), UNCHANGED habit
  PROVE  IInv'
BY Edits, PruningKeeps, PlacingKeeps, GraftingKeeps

(* A step that leaves the volume alone. *)
LEMMA VolumeKept ==
  ASSUME IInv, UNCHANGED <<node, edge, blob, habit>>,
         anchor' \in [Mounts -> {0} \cup DOMAIN node],
         lock' \subseteq [node : DOMAIN node, mount : Mounts],
         AnchorsDisjoint'
  PROVE  IInv'
BY DEF IInv, TypeOK, Named, IsContainer, Packed, Root

LEMMA ApartSame ==
  ASSUME IInv, UNCHANGED <<edge, habit>>,
         \A m \in Mounts : anchor'[m] = anchor[m] \/ anchor'[m] = 0
  PROVE  AnchorsDisjoint'
<1>1. \A r : Subtree(r)' = Subtree(r)
  BY DEF Subtree, ActiveEdges
<1> QED
  BY <1>1 DEF IInv, AnchorsDisjoint, Overlap

LEMMA MountKeeps ==
  ASSUME IInv, NEW m \in Mounts, NEW path \in Anchors, MountAt(m, path), UNCHANGED habit
  PROVE  IInv'
<1> DEFINE point == Walk(Root, path)
<1>1. /\ anchor[m] = 0 /\ point # 0 /\ (Overlap \/ ~Overlaps(point))
      /\ anchor' = [anchor EXCEPT ![m] = point]
      /\ UNCHANGED <<node, edge, blob, lock>>
  BY DEF MountAt
<1>2. path \in Seq(Names) /\ TypeOK
  BY HabitAssumption DEF Anchors, IInv, Habit
<1>3. point \in DOMAIN node
  BY <1>1, <1>2, Anchored, WalkTypes
<1> HIDE DEF point
<1>4. anchor' \in [Mounts -> {0} \cup DOMAIN node]
  BY <1>1, <1>2, <1>3 DEF TypeOK
<1>5. AnchorsDisjoint'
  <2>1. \A r : Subtree(r)' = Subtree(r)
    BY <1>1 DEF Subtree, ActiveEdges
  <2>2. \A k \in Mounts : anchor'[k] = IF k = m THEN point ELSE anchor[k]
    BY <1>1, <1>2 DEF TypeOK
  <2>3. ASSUME ~Overlap, NEW j \in Mounts, NEW k \in Mounts, j # k, anchor'[j] # 0, anchor'[k] # 0
        PROVE  anchor'[j] \notin Subtree(anchor'[k])
    BY <1>1, <2>2, <2>3 DEF Overlaps, IInv, AnchorsDisjoint
  <2> QED
    BY <2>1, <2>3 DEF AnchorsDisjoint, Overlap
<1> QED
  BY <1>1, <1>2, <1>4, <1>5, VolumeKept DEF TypeOK

LEMMA NextKeeps ==
  ASSUME IInv, [Next]_vars
  PROVE  IInv'
<1>1. CASE UNCHANGED vars
  BY <1>1, VolumeKept, ApartSame DEF vars, IInv, TypeOK
<1>2. ASSUME NEW m \in Mounts, Edit(m), UNCHANGED habit PROVE IInv'
  BY <1>2, EditKeeps
<1>3. ASSUME NEW m \in Mounts, NEW path \in Paths, LockNode(m, path), UNCHANGED habit PROVE IInv'
  <2>1. Resolve(m, path) \in DOMAIN node
    BY <1>3, ResolvedIs DEF LockNode
  <2>2. lock' \subseteq [node : DOMAIN node, mount : Mounts]
    BY <1>3, <2>1 DEF LockNode, IInv, TypeOK
  <2>3. UNCHANGED <<node, edge, blob, anchor>>
    BY <1>3 DEF LockNode
  <2>4. AnchorsDisjoint'
    BY <1>3, <2>3, ApartSame
  <2> QED
    BY <1>3, <2>2, <2>3, <2>4, VolumeKept DEF IInv, TypeOK
<1>4. ASSUME NEW m \in Mounts, UnlockNode(m), UNCHANGED habit PROVE IInv'
  <2>1. lock' \subseteq lock /\ UNCHANGED <<node, edge, blob, anchor>>
    BY <1>4 DEF UnlockNode
  <2>2. AnchorsDisjoint'
    BY <1>4, <2>1, ApartSame
  <2> QED
    BY <1>4, <2>1, <2>2, VolumeKept DEF IInv, TypeOK
<1>5. ASSUME NEW m \in Mounts, NEW path \in Anchors, MountAt(m, path), UNCHANGED habit PROVE IInv'
  BY <1>5, MountKeeps
<1>6. ASSUME NEW m \in Mounts, MountEnds(m), UNCHANGED habit PROVE IInv'
  <2>1. lock' \subseteq lock /\ UNCHANGED <<node, edge, blob>> /\ anchor' = [anchor EXCEPT ![m] = 0]
    BY <1>6 DEF MountEnds
  <2>2. anchor \in [Mounts -> {0} \cup DOMAIN node]
    BY DEF IInv, TypeOK
  <2>3. /\ anchor' \in [Mounts -> {0} \cup DOMAIN node]
        /\ \A k \in Mounts : anchor'[k] = anchor[k] \/ anchor'[k] = 0
    BY <2>1, <2>2
  <2>4. AnchorsDisjoint'
    BY <1>6, <2>1, <2>3, ApartSame
  <2> QED
    BY <1>6, <2>1, <2>3, <2>4, VolumeKept DEF IInv, TypeOK
<1> QED
  BY <1>1, <1>2, <1>3, <1>4, <1>5, <1>6 DEF Next

LEMMA InitHolds == Init => IInv
<1> SUFFICES ASSUME Init PROVE IInv
  OBVIOUS
<1> DEFINE row == [type |-> "container", name |-> RootName, data |-> 0]
<1>1. row \in NodeRow /\ row.type = "container"
  BY DEF NodeRow, Types
<1>2. node = <<row>> /\ edge = <<>> /\ blob = <<>> /\ anchor = [m \in Mounts |-> 0]
      /\ lock = {} /\ habit \in Habits
  BY DEF Init
<1> HIDE DEF row
<1>3. node \in Seq(NodeRow) /\ node # <<>> /\ DOMAIN node = {1} /\ node[1] = row
  BY <1>1, <1>2
<1>4. edge \in Seq(EdgeRow) /\ DOMAIN edge = {} /\ blob \in Seq(Seq(PackRow)) /\ DOMAIN blob = {}
  BY <1>2
<1>5. TypeOK
  BY <1>2, <1>3, <1>4 DEF TypeOK
<1>6. Tree(node, edge)
  BY <1>4 DEF Tree, Active
<1>7. Named /\ IsContainer(Root) /\ Packed
  BY <1>1, <1>3, <1>4 DEF Named, IsContainer, Packed, Root
<1>8. AnchorsDisjoint
  BY <1>2 DEF AnchorsDisjoint
<1> QED
  BY <1>2, <1>5, <1>6, <1>7, <1>8 DEF IInv

(* What holds in every state of a volume: its rows have their types, packs  *)
(* can be unpacked, containers form a tree, and mounts stay apart.          *)
THEOREM NameInvariant == Spec => []IInv
<1>1. Init => IInv
  BY InitHolds
<1>2. IInv /\ [Next]_vars => IInv'
  BY NextKeeps
<1> QED
  BY <1>1, <1>2, PTL DEF Spec

(* Node rows, edges, packs, anchors and locks have their types, and refer to  *)
(* nodes that exist.                                                         *)
THEOREM NamesAreTyped == Spec => []TypeOK
BY NameInvariant, PTL DEF IInv

(* PI-1, PI-4, PI-5 (TreeShape), whatever the callers do: no sequence of       *)
(* moves, hardlinks, copies, packs and unpacks gives a container two parents   *)
(* or makes it its own ancestor, and only containers have children.           *)
THEOREM TreeIsKept == Spec => []TreeShape
<1>1. IInv => TreeShape
  BY TreeNow DEF IInv
<1> QED
  BY <1>1, NameInvariant, PTL

(* AnchorsDisjoint: admission at mount time is enough to keep the subtrees of  *)
(* two mounts that did not ask to overlap apart for as long as both last.      *)
THEOREM MountsStayApart == Spec => []AnchorsDisjoint
BY NameInvariant, PTL DEF IInv

---------------------------------------------------------------------------
(* Locks                                                                   *)

Into(E, n) == {e \in Active(E) : E[e].to = n}

(* The placements of n are the same in E and in F. *)
Same(E, F, n) == Into(F, n) = Into(E, n) /\ \A e \in Into(E, n) : F[e] = E[e]

LEMMA SamePlacements ==
  ASSUME NEW n, Same(edge, edge', n)
  PROVE  [e \in PlacementsOf(n) |-> edge[e]]' = [e \in PlacementsOf(n) |-> edge[e]]
<1>1. PlacementsOf(n) = Into(edge, n) /\ PlacementsOf(n)' = Into(edge', n)
  BY DEF PlacementsOf, ActiveEdges, Into, Active
<1>2. PlacementsOf(n)' = PlacementsOf(n) /\ \A e \in PlacementsOf(n) : edge'[e] = edge[e]
  BY <1>1 DEF Same
<1> QED
  BY <1>2

LEMMA ArchiveSame ==
  ASSUME TypeOK, NEW n, NEW S, \A e \in PlacementsOf(n) : e \notin S
  PROVE  Same(edge, Archive(S), n)
<1>1. Active(Archive(S)) = ActiveEdges \ S
  BY ArchiveIs
<1>2. ASSUME NEW e \in DOMAIN edge
      PROVE  Archive(S)[e].to = edge[e].to /\ (e \notin S => Archive(S)[e] = edge[e])
  <2>1. edge[e] \in EdgeRow
    BY RowFields
  <2>2. Archive(S)[e] = [edge[e] EXCEPT !.archived = @ \/ e \in S]
    BY DEF Archive
  <2>3. Archive(S)[e].to = edge[e].to
    BY <2>1, <2>2 DEF EdgeRow
  <2>4. ASSUME e \notin S PROVE Archive(S)[e] = edge[e]
    BY <2>1, <2>2, <2>4 DEF EdgeRow
  <2> QED
    BY <2>3, <2>4
<1> QED
  BY <1>1, <1>2 DEF Same, Into, Active, ActiveEdges, PlacementsOf

LEMMA PlusSame ==
  ASSUME NEW E \in Seq(EdgeRow), NEW p \in Nat, NEW k \in Nat, NEW name \in Names, NEW n, n # k
  PROVE  Same(E, Plus(E, p, k, name), n)
<1> DEFINE F == Plus(E, p, k, name)
<1>1. Adds(E, F, Len(E) + 1, p, k)
  BY PlusIs
<1> HIDE DEF F
<1> QED
  BY <1>1, ActiveIn DEF Same, Into, Adds, F

LEMMA GraftSame ==
  ASSUME NEW N, NEW E \in Seq(EdgeRow), NEW p \in DOMAIN N, NEW rows, RowsOk(rows), NEW M, NEW F,
         N \in Seq(NodeRow), Ends(N, E), Grafts(N, E, p, rows, M, F), NEW n \in DOMAIN N
  PROVE  Same(E, F, n)
<1>1. ASSUME NEW e \in Active(F), F[e].to = n PROVE e \in Active(E)
  <2>1. ASSUME NEW i \in DOMAIN rows, F[e].to = Len(N) + i PROVE FALSE
    <3>1. i \in Nat \ {0} /\ Len(N) \in Nat /\ n <= Len(N) /\ n \in Nat
      BY RowTypes
    <3> QED
      BY <1>1, <2>1, <3>1
  <2> QED
    BY <1>1, <2>1, GraftedEdges
<1>2. ASSUME NEW e \in Active(E) PROVE e \in Active(F) /\ F[e] = E[e]
  <2>1. e \in DOMAIN E /\ DOMAIN E = 1..Len(E) /\ Len(E) \in Nat /\ Len(rows) \in Nat
    BY ActiveIn DEF RowsOk
  <2>2. e \in 1..(Len(E) + Len(rows))
    BY <2>1
  <2> QED
    BY <2>1, <2>2 DEF Grafts, Active
<1> QED
  BY <1>1, <1>2 DEF Same, Into

LEMMA SameAfter ==
  ASSUME NEW E, NEW F, NEW G, NEW n, Same(E, F, n), Same(F, G, n)
  PROVE  Same(E, G, n)
BY DEF Same

(* A graft touches what it archives first, and nothing else that was there. *)
LEMMA GraftKeeps ==
  ASSUME IInv, NEW n \in DOMAIN node, NEW p \in DOMAIN node, NEW rows, RowsOk(rows), NEW E,
         Prunes(edge, E), Graft(p, rows, E), Same(edge, E, n)
  PROVE  Same(edge, edge', n)
<1>1. E \in Seq(EdgeRow)
  BY DEF Prunes
<1>2. p \in Nat /\ node \in Seq(NodeRow) /\ Ends(node, E) /\ TypeOK
  BY DEF IInv, TypeOK, Ends, Prunes
<1>3. Grafts(node, E, p, rows, node', edge')
  BY <1>1, <1>2, GraftIs
<1>4. Same(E, edge', n)
  BY <1>1, <1>2, <1>3, GraftSame
<1> QED
  BY <1>4, SameAfter

LEMMA EditSpares ==
  ASSUME IInv, NEW m \in Mounts, Edit(m), NEW l \in lock, l.mount # m
  PROVE  Same(edge, edge', l.node)
<1> DEFINE n == l.node
<1>1. TypeOK /\ n \in DOMAIN node /\ edge \in Seq(EdgeRow) /\ Prunes(edge, edge)
  BY PrunesSelf DEF IInv, TypeOK
<1>2. Same(edge, edge, n)
  BY DEF Same
<1>3. \A k : ~LockedByOther(m, k) => k # n
  BY DEF LockedByOther
<1>4. \A r : ~LockedBelow(m, r) => n \notin Subtree(r)
  BY DEF LockedBelow
<1>5. PICK path \in Paths :
        \/ \E t \in Types : Create(m, path, t)
        \/ \E name \in Names : Rename(m, path, name)
        \/ RemoveOne(m, path)
        \/ RemoveRecursive(m, path)
        \/ Pack(m, path)
        \/ Unpack(m, path)
        \/ \E dst \in Paths : Link(m, path, dst) \/ Move(m, path, dst) \/ Copy(m, path, dst)
  BY DEF Edit
<1> DEFINE k == Resolve(m, path)
<1> HIDE DEF n, k
<1>6. ASSUME NEW t \in Types, Create(m, path, t) PROVE Same(edge, edge', n)
  <2> DEFINE parent == ResolveParent(m, path)
             rows == <<[p |-> 0, t |-> t, n |-> Last(path), d |-> 0]>>
  <2>1. parent # 0 /\ Graft(parent, rows, edge)
    BY <1>6 DEF Create
  <2>2. parent \in DOMAIN node /\ Last(path) \in Names
    BY <2>1, ParentIs
  <2>3. RowsOk(rows)
    BY <2>2, OneRow
  <2> HIDE DEF parent, rows
  <2> QED
    BY <1>1, <1>2, <2>1, <2>2, <2>3, GraftKeeps
<1>7. ASSUME NEW name \in Names, Rename(m, path, name) PROVE Same(edge, edge', n)
  <2> DEFINE W == Walked(ResolveParent(m, path), k, Last(path))
  <2>1. /\ k # n
        /\ edge' = [e \in DOMAIN edge |-> IF e \in W THEN [edge[e] EXCEPT !.name = name] ELSE edge[e]]
    BY <1>3, <1>7 DEF Rename, k
  <2>2. \A e \in W : e \in ActiveEdges /\ edge[e].to = k
    BY DEF Walked, PlacementsOf
  <2> HIDE DEF W
  <2>3. ASSUME NEW e \in DOMAIN edge
        PROVE  /\ edge'[e].to = edge[e].to /\ edge'[e].archived = edge[e].archived
               /\ e \notin W => edge'[e] = edge[e]
    <3>1. edge[e] \in EdgeRow
      BY <1>1, RowFields
    <3> QED
      BY <2>1, <3>1 DEF EdgeRow
  <2>4. DOMAIN edge' = DOMAIN edge
    BY <2>1
  <2> QED
    BY <2>1, <2>2, <2>3, <2>4 DEF Same, Into, Active
<1>8. ASSUME RemoveOne(m, path) PROVE Same(edge, edge', n)
  <2> DEFINE W == Walked(ResolveParent(m, path), k, Last(path))
  <2>1. k # n /\ edge' = Archive(W)
    BY <1>3, <1>8 DEF RemoveOne, k
  <2>2. \A e \in PlacementsOf(n) : e \notin W
    BY <2>1 DEF Walked, PlacementsOf
  <2> QED
    BY <1>1, <2>1, <2>2, ArchiveSame
<1>9. ASSUME n \notin Subtree(k) PROVE Same(edge, Archive(SubtreePlacements(k)), n)
  <2>1. \A e \in PlacementsOf(n) : e \notin SubtreePlacements(k)
    BY <1>9 DEF SubtreePlacements, PlacementsOf
  <2> QED
    BY <1>1, <2>1, ArchiveSame
<1>10. ASSUME RemoveRecursive(m, path) PROVE Same(edge, edge', n)
  BY <1>4, <1>9, <1>10 DEF RemoveRecursive, k
<1>11. ASSUME Pack(m, path) PROVE Same(edge, edge', n)
  <2> DEFINE name == node[k].name
             rows == <<[p |-> 0, t |-> "leaf", n |-> name, d |-> Len(blob) + 1]>>
             E == Archive(SubtreePlacements(k))
  <2>1. PICK e \in PlacementsOf(k) : Graft(edge[e].from, rows, E)
    BY <1>11 DEF Pack, k
  <2>2. k # Root /\ k \in DOMAIN node /\ edge[e].from \in DOMAIN node
    BY PlacementIs
  <2>3. name \in Names /\ Len(blob) + 1 \in Nat
    BY <2>2 DEF IInv, Named, TypeOK
  <2>4. RowsOk(rows)
    BY <2>3, OneRow DEF Types
  <2>5. Prunes(edge, E) /\ Same(edge, E, n)
    BY <1>1, <1>4, <1>9, <1>11, ArchivePrunes DEF Pack, k
  <2> HIDE DEF rows, E
  <2> QED
    BY <1>1, <2>1, <2>2, <2>4, <2>5, GraftKeeps
<1>12. ASSUME Unpack(m, path) PROVE Same(edge, edge', n)
  <2>1. PICK rows \in Decode(node[k].data), e \in PlacementsOf(k) :
           Graft(edge[e].from, rows, Archive({e}))
    BY <1>12 DEF Unpack, k
  <2>2. edge[e].from \in DOMAIN node
    BY PlacementIs
  <2>3. RowsOk(rows)
    BY DEF Decode, IInv, Packed
  <2>4. k # n
    BY <1>3, <1>12 DEF Unpack, k
  <2>5. \A f \in PlacementsOf(n) : f \notin {e}
    BY <2>4 DEF PlacementsOf
  <2>6. Prunes(edge, Archive({e})) /\ Same(edge, Archive({e}), n)
    BY <1>1, <2>5, ArchivePrunes, ArchiveSame
  <2> QED
    BY <1>1, <2>1, <2>2, <2>3, <2>6, GraftKeeps
<1>13. ASSUME NEW dst \in Paths, Link(m, path, dst) PROVE Same(edge, edge', n)
  <2> DEFINE p == ResolveParent(m, dst)
  <2>1. k # n /\ k # 0 /\ p # 0 /\ edge' = Plus(edge, p, k, Last(dst))
    BY <1>3, <1>13 DEF Link, Plus, k
  <2>2. k \in Nat /\ p \in Nat /\ Last(dst) \in Names
    BY <1>1, <2>1, ResolvedIs, ParentIs, Anchored DEF k
  <2> HIDE DEF p
  <2> QED
    BY <1>1, <2>1, <2>2, PlusSame
<1>14. ASSUME NEW dst \in Paths, Move(m, path, dst) PROVE Same(edge, edge', n)
  <2> DEFINE p == ResolveParent(m, dst)
             W == Walked(ResolveParent(m, path), k, Last(path))
             E == Archive(W)
  <2>1. k # n /\ k # 0 /\ p # 0 /\ edge' = Plus(E, p, k, Last(dst))
    BY <1>3, <1>14 DEF Move, Plus, k
  <2>2. k \in Nat /\ p \in Nat /\ Last(dst) \in Names
    BY <1>1, <2>1, ResolvedIs, ParentIs, Anchored DEF k
  <2>3. \A e \in PlacementsOf(n) : e \notin W
    BY <2>1 DEF Walked, PlacementsOf
  <2>4. E \in Seq(EdgeRow) /\ Same(edge, E, n)
    BY <1>1, <2>3, ArchivePrunes, ArchiveSame DEF Prunes
  <2> HIDE DEF p, E
  <2>5. Same(E, edge', n)
    BY <2>1, <2>2, <2>4, PlusSame
  <2> QED
    BY <2>4, <2>5, SameAfter
<1>15. ASSUME NEW dst \in Paths, Copy(m, path, dst) PROVE Same(edge, edge', n)
  <2> DEFINE parent == ResolveParent(m, dst)
             rows == RowsOf(k, Last(dst))
  <2>1. k # 0 /\ parent # 0 /\ Graft(parent, rows, edge)
    BY <1>15 DEF Copy, k
  <2>2. parent \in DOMAIN node /\ Last(dst) \in Names /\ k \in DOMAIN node
    BY <2>1, ParentIs, ResolvedIs DEF k
  <2>3. RowsOk(rows)
    BY <2>2, RowsOfOk DEF IInv
  <2> HIDE DEF parent, rows
  <2> QED
    BY <1>1, <1>2, <2>1, <2>2, <2>3, GraftKeeps
<1>16. Same(edge, edge', n)
  BY <1>5, <1>6, <1>7, <1>8, <1>10, <1>11, <1>12, <1>13, <1>14, <1>15
<1> QED
  BY <1>16 DEF n

(* ACC-11 (LockedKept), whatever the callers do: while a mount holds a lock on *)
(* a node, no operation of another mount touches a placement of it, not from   *)
(* above it and not through another of its hardlinks.                          *)
THEOREM LocksAreKept == Spec => LockedKept
<1>1. ASSUME IInv, [Next]_vars, NEW l \in lock, NEW m \in Mounts \ {l.mount}, Edit(m)
      PROVE  [e \in PlacementsOf(l.node) |-> edge[e]]' = [e \in PlacementsOf(l.node) |-> edge[e]]
  <2>1. Same(edge, edge', l.node)
    BY <1>1, EditSpares
  <2> QED
    BY <2>1, SamePlacements
<1>2. IInv /\ [Next]_vars =>
        [\A l \in lock :
            [e \in PlacementsOf(l.node) |-> edge[e]]' # [e \in PlacementsOf(l.node) |-> edge[e]]
                => \A m \in Mounts \ {l.mount} : ~Edit(m)]_vars
  BY <1>1
<1> QED
  BY <1>2, NameInvariant, PTL DEF Spec, LockedKept

---------------------------------------------------------------------------
(* Confinement                                                             *)

(* Callers who either make no hardlinks and leave "/" alone, or do not use the *)
(* operations that go beyond the placement their path walked.                  *)
Unlinked == "link" \notin Ops

Narrow == Ops \cap {"remove_recursive", "pack", "unpack"} = {}

Modest == \A h \in Habits :
    \/ "link" \notin h.ops /\ ~h.anchorOps
    \/ h.ops \cap {"remove_recursive", "pack", "unpack"} = {}

Lone(E) == \A e, f \in Active(E) : E[e].to = E[f].to => e = f

CInv == Unlinked => Lone(edge)

LEMMA LonePlus ==
  ASSUME NEW E \in Seq(EdgeRow), NEW p \in Nat, NEW n \in Nat, NEW name \in Names, Lone(E),
         \A e \in Active(E) : E[e].to # n
  PROVE  Lone(Plus(E, p, n, name))
<1> DEFINE F == Plus(E, p, n, name)
<1>1. Adds(E, F, Len(E) + 1, p, n)
  BY PlusIs
<1> HIDE DEF F
<1>2. \A e \in Active(F) : e = Len(E) + 1 \/ (e \in Active(E) /\ F[e] = E[e])
  BY <1>1, ActiveIn DEF Adds
<1>3. Lone(F)
  BY <1>1, <1>2 DEF Lone, Adds
<1> QED
  BY <1>3 DEF F

LEMMA LonePrune ==
  ASSUME NEW E, NEW F, Prunes(E, F), Lone(E)
  PROVE  Lone(F)
BY ActiveIn DEF Lone, Prunes

LEMMA LoneGraft ==
  ASSUME NEW N, NEW E \in Seq(EdgeRow), NEW p \in DOMAIN N, NEW rows, RowsOk(rows), NEW M, NEW F,
         N \in Seq(NodeRow), Ends(N, E), Grafts(N, E, p, rows, M, F), Lone(E)
  PROVE  Lone(F)
<1> SUFFICES ASSUME NEW e \in Active(F), NEW f \in Active(F), F[e].to = F[f].to PROVE e = f
  BY DEF Lone
<1> DEFINE old(x) == x \in Active(E) /\ F[x] = E[x] /\ E[x].to \in DOMAIN N
           new(x) == \E i \in DOMAIN rows : x = Len(E) + i /\ F[x].to = Len(N) + i
<1>1. \A x \in Active(F) : old(x) \/ new(x)
  BY GraftedEdges
<1>2. \A x : old(x) => F[x].to \in Nat /\ F[x].to <= Len(N)
  OBVIOUS
<1>3. \A i \in DOMAIN rows : i \in Nat \ {0}
  BY RowTypes
<1>4. Len(N) \in Nat /\ Len(E) \in Nat
  OBVIOUS
<1>5. \A x : new(x) => F[x].to \in Nat /\ ~(F[x].to <= Len(N))
  BY <1>3, <1>4
<1>6. CASE old(e) /\ old(f)
  BY <1>6 DEF Lone
<1>7. CASE new(e) /\ new(f)
  BY <1>3, <1>4, <1>7
<1> HIDE DEF old, new
<1> QED
  BY <1>1, <1>2, <1>5, <1>6, <1>7

(* Without hardlinks no operation gives a node a second placement. *)
LEMMA LoneKept ==
  ASSUME IInv, Unlinked, Lone(edge), NEW m \in Mounts, Edit(m)
  PROVE  Lone(edge')
<1>1. TypeOK /\ edge \in Seq(EdgeRow)
  BY DEF IInv, TypeOK
<1>2. CASE Pruning
  BY <1>2, LonePrune DEF Pruning
<1>3. CASE Grafting
  <2>1. PICK E, p, rows :
          /\ Prunes(edge, E) /\ Graft(p, rows, E) /\ RowsOk(rows)
          /\ p \in DOMAIN node /\ Holder(node, p)
    BY <1>3 DEF Grafting
  <2>2. E \in Seq(EdgeRow) /\ Lone(E)
    BY <2>1, LonePrune DEF Prunes
  <2>3. p \in Nat /\ node \in Seq(NodeRow) /\ Ends(node, E)
    BY <1>1, <2>1 DEF TypeOK, Ends, Prunes
  <2>4. Grafts(node, E, p, rows, node', edge')
    BY <1>1, <2>1, <2>2, <2>3, GraftIs
  <2> QED
    BY <2>1, <2>2, <2>3, <2>4, LoneGraft
<1>4. ASSUME NEW src \in Paths, NEW dst \in Paths, Move(m, src, dst) PROVE Lone(edge')
  <2> DEFINE n == Resolve(m, src)
             p == ResolveParent(m, dst)
             W == Walked(ResolveParent(m, src), n, Last(src))
             E == Archive(W)
  <2>1. n # 0 /\ ResolveParent(m, src) # 0 /\ p # 0 /\ edge' = Plus(E, p, n, Last(dst))
    BY <1>4 DEF Move, Plus
  <2>2. n \in Nat /\ p \in Nat /\ Last(dst) \in Names
    BY <1>1, <2>1, ResolvedIs, ParentIs, Anchored
  <2>3. Prunes(edge, E) /\ Active(E) = ActiveEdges \ W
    BY <1>1, ArchivePrunes, ArchiveIs
  <2>4. PICK f \in W : f \in DOMAIN edge
    BY <2>1, ParentIs
  <2>5. f \in ActiveEdges /\ edge[f].to = n
    BY <2>4 DEF Walked, PlacementsOf
  <2>6. \A e \in Active(E) : e \in ActiveEdges /\ e # f /\ E[e].to = edge[e].to
    BY <2>3, <2>4 DEF Prunes, ActiveEdges
  <2>7. \A e \in Active(E) : E[e].to # n
    BY <2>5, <2>6 DEF Lone, Active, ActiveEdges
  <2>8. E \in Seq(EdgeRow) /\ Lone(E)
    BY <2>3, LonePrune DEF Prunes
  <2> HIDE DEF E, n, p
  <2> QED
    BY <2>1, <2>2, <2>7, <2>8, LonePlus
<1>5. PICK path \in Paths :
        \/ \E t \in Types : Create(m, path, t)
        \/ \E name \in Names : Rename(m, path, name)
        \/ RemoveOne(m, path)
        \/ RemoveRecursive(m, path)
        \/ Pack(m, path)
        \/ Unpack(m, path)
        \/ \E dst \in Paths : Move(m, path, dst) \/ Copy(m, path, dst)
  BY DEF Edit, Unlinked
<1>6. ASSUME NEW t \in Types, Create(m, path, t) PROVE Lone(edge')
  BY <1>3, <1>6, CreateGrafts
<1>7. ASSUME NEW name \in Names, Rename(m, path, name) PROVE Lone(edge')
  BY <1>2, <1>7, RenamePrunes
<1>8. CASE RemoveOne(m, path) \/ RemoveRecursive(m, path)
  BY <1>2, <1>8, RemovePrunes
<1>9. CASE Pack(m, path)
  BY <1>3, <1>9, PackGrafts
<1>10. CASE Unpack(m, path)
  BY <1>3, <1>10, UnpackGrafts
<1>11. ASSUME NEW dst \in Paths, Copy(m, path, dst) PROVE Lone(edge')
  BY <1>3, <1>11, CopyGrafts
<1> QED
  BY <1>4, <1>5, <1>6, <1>7, <1>8, <1>9, <1>10, <1>11

(* The rows of a graft all come under the anchor its parent is under. *)
LEMMA GraftedBelow ==
  ASSUME NEW N, NEW E \in Seq(EdgeRow), NEW p \in DOMAIN N, NEW rows, RowsOk(rows), NEW M, NEW F,
         N \in Seq(NodeRow), Ends(N, E), Grafts(N, E, p, rows, M, F), NEW a \in DOMAIN N,
         p \in Reach(E, a), NEW i \in DOMAIN rows
  PROVE  F[Len(E) + i].from \in Reach(F, a)
<1> DEFINE at(j) == IF rows[j].p = 0 THEN p ELSE Len(N) + rows[j].p
           wrong == {j \in DOMAIN rows : Len(N) + j \notin Reach(F, a)}
<1>1. /\ a \in Nat /\ F \in Seq(EdgeRow) /\ Len(E) \in Nat /\ Len(rows) \in Nat
      /\ DOMAIN E = 1..Len(E) /\ DOMAIN rows = 1..Len(rows) /\ DOMAIN F = 1..(Len(E) + Len(rows))
  BY DEF Grafts, RowsOk
<1>2. ASSUME NEW j \in DOMAIN rows
      PROVE  Len(E) + j \in Active(F) /\ F[Len(E) + j].to = Len(N) + j /\ F[Len(E) + j].from = at(j)
  <2>1. Len(E) + j \in DOMAIN F
    BY <1>1
  <2> QED
    BY <2>1 DEF Grafts, Active
<1>3. p \in Reach(F, a)
  <2>1. ASSUME NEW e \in Active(E) PROVE e \in Active(F) /\ F[e] = E[e]
    <3>1. e \in DOMAIN E
      BY ActiveIn
    <3>2. e \in DOMAIN F
      BY <1>1, <3>1
    <3> QED
      BY <3>1, <3>2 DEF Grafts, Active
  <2>2. Closed(E, Reach(F, a)) /\ a \in Reach(F, a) /\ Reach(F, a) \in SUBSET Nat
    BY <1>1, <2>1, ReachLeast DEF Closed
  <2> QED
    BY <1>1, <2>2, ReachLeast
<1>4. \A j \in DOMAIN rows : at(j) \in Reach(F, a) => Len(N) + j \in Reach(F, a)
  <2>1. Closed(F, Reach(F, a))
    BY <1>1, ReachLeast
  <2> HIDE DEF at
  <2> QED
    BY <1>2, <2>1 DEF Closed
<1>5. ASSUME wrong # {} PROVE FALSE
  <2>1. PICK j \in wrong : \A k \in wrong : j <= k
    <3>1. wrong \in SUBSET Nat
      BY <1>1
    <3> HIDE DEF wrong
    <3> QED
      BY <1>5, <3>1, SmallestOf
  <2>2. rows[j].p # 0
    BY <1>3, <1>4
  <2>3. rows[j].p \in DOMAIN rows /\ ~(j <= rows[j].p)
    BY <2>2, RowTypes
  <2>4. Len(N) + rows[j].p \in Reach(F, a)
    BY <2>1, <2>3
  <2> QED
    BY <1>4, <2>2, <2>4
<1>6. at(i) \in Reach(F, a)
  BY <1>3, <1>5, RowTypes
<1> QED
  BY <1>2, <1>6

(* Without hardlinks a node below an anchor is placed below it. *)
LEMMA PlacedInside ==
  ASSUME IInv, Lone(edge), NEW m \in Mounts, NEW path \in Paths, path # <<>>,
         Resolve(m, path) # 0, NEW e \in PlacementsOf(Resolve(m, path))
  PROVE  edge[e].from \in Subtree(anchor[m])
<1> DEFINE c == Walk(anchor[m], Front(path))
           k == Resolve(m, path)
<1>1. TypeOK /\ path \in Seq(Names) /\ Front(path) \in Seq(Names)
  BY PathsAreSequences, FrontIs DEF IInv
<1>2. k = Lookup(c, Last(path))
  BY <1>1, WalkByParent DEF Resolve
<1>3. PICK f \in ActiveEdges : edge[f].from = c /\ edge[f].to = k
  BY <1>1, <1>2, LookupFinds
<1>4. c # 0
  BY <1>1, <1>2, LookupTypes
<1>5. c \in Subtree(anchor[m])
  BY <1>1, <1>4, Anchored, WalkTypes
<1>6. e \in ActiveEdges /\ edge[e].to = k
  BY DEF PlacementsOf
<1>7. e = f
  BY <1>3, <1>6 DEF Lone, Active, ActiveEdges
<1> QED
  BY <1>3, <1>5, <1>7

LEMMA SubtreeInside ==
  ASSUME IInv, Lone(edge), NEW m \in Mounts, NEW path \in Paths, path # <<>>,
         Resolve(m, path) # 0, NEW e \in SubtreePlacements(Resolve(m, path))
  PROVE  edge[e].from \in Subtree(anchor[m])
<1> DEFINE k == Resolve(m, path)
<1>1. TypeOK /\ k \in DOMAIN node /\ k \in Subtree(anchor[m]) /\ anchor[m] \in DOMAIN node
  BY ResolvedIs DEF IInv
<1>2. e \in ActiveEdges /\ edge[e].to \in Subtree(k)
  BY DEF SubtreePlacements
<1>3. CASE edge[e].to = k
  <2>1. e \in PlacementsOf(k)
    BY <1>2, <1>3 DEF PlacementsOf
  <2> QED
    BY <2>1, PlacedInside
<1>4. CASE edge[e].to # k
  <2>1. PICK f \in Below(k) : edge[f].to = edge[e].to
    BY <1>1, <1>2, <1>4, PlacedBelow
  <2>2. f = e
    BY <1>2, <2>1 DEF Below, Lone, Active, ActiveEdges
  <2>3. edge[e].from \in Subtree(k)
    BY <2>1, <2>2 DEF Below
  <2> QED
    BY <1>1, <2>3, SubtreeIn
<1> QED
  BY <1>3, <1>4

LEMMA ArchivedOnly ==
  ASSUME TypeOK, NEW S, NEW e \in DOMAIN edge
  PROVE  Archive(S)[e].from = edge[e].from /\ (e \notin S => Archive(S)[e] = edge[e])
<1>1. edge[e] \in EdgeRow /\ Archive(S)[e] = [edge[e] EXCEPT !.archived = @ \/ e \in S]
  BY RowFields DEF Archive
<1>2. Archive(S)[e].from = edge[e].from
  BY <1>1 DEF EdgeRow
<1>3. ASSUME e \notin S PROVE Archive(S)[e] = edge[e]
  BY <1>1, <1>3 DEF EdgeRow
<1> QED
  BY <1>2, <1>3

(* The edges a graft changes: those archived before it, and its own. *)
LEMMA GraftChanges ==
  ASSUME IInv, NEW p \in DOMAIN node, NEW rows, RowsOk(rows), NEW E, Prunes(edge, E),
         Graft(p, rows, E), NEW a \in DOMAIN node, p \in Reach(E, a),
         NEW e \in DOMAIN edge', e \notin DOMAIN edge
  PROVE  edge'[e].from \in Reach(edge', a)
<1>1. E \in Seq(EdgeRow) /\ p \in Nat /\ node \in Seq(NodeRow) /\ Ends(node, E) /\ TypeOK
  BY DEF Prunes, IInv, TypeOK, Ends
<1>2. Grafts(node, E, p, rows, node', edge')
  BY <1>1, GraftIs
<1>3. DOMAIN edge' = 1..(Len(E) + Len(rows)) /\ DOMAIN edge = 1..Len(E) /\ Len(E) \in Nat
      /\ DOMAIN rows = 1..Len(rows) /\ Len(rows) \in Nat
  BY <1>1, <1>2 DEF Grafts, Prunes, RowsOk
<1>4. e - Len(E) \in DOMAIN rows /\ e = Len(E) + (e - Len(E))
  BY <1>3
<1> QED
  BY <1>1, <1>2, <1>4, GraftedBelow

LEMMA GraftOld ==
  ASSUME IInv, NEW p \in DOMAIN node, NEW rows, RowsOk(rows), NEW E, Prunes(edge, E),
         Graft(p, rows, E), NEW e \in DOMAIN edge
  PROVE  edge'[e] = E[e]
<1>1. E \in Seq(EdgeRow) /\ p \in Nat /\ TypeOK /\ e \in DOMAIN E
  BY DEF Prunes, IInv, TypeOK
<1> QED
  BY <1>1, GraftIs DEF Grafts

LEMMA EditReaches ==
  ASSUME IInv, CInv, Modest, NEW m \in Mounts, Edit(m),
         NEW e \in DOMAIN edge', e \in DOMAIN edge => edge'[e] # edge[e]
  PROVE  edge'[e].from \in Reached(m)
<1> DEFINE a == anchor[m]
<1>1. TypeOK /\ edge \in Seq(EdgeRow) /\ Prunes(edge, edge)
  BY PrunesSelf DEF IInv, TypeOK
<1>2. anchor' = anchor
  BY Edits
<1>3. Reached(m) = Subtree(a) \cup Reach(edge', a) /\ Subtree(a) = Reach(edge, a)
  BY <1>2 DEF Reached, Subtree, ActiveEdges, Reach, Active
<1>4. (Unlinked /\ ~AnchorOps) \/ Narrow
  BY DEF IInv, Modest, Unlinked, Narrow, AnchorOps, Ops
<1>5. PICK path \in Paths :
        \/ \E t \in Types : Create(m, path, t)
        \/ \E name \in Names : Rename(m, path, name)
        \/ RemoveOne(m, path)
        \/ "remove_recursive" \in Ops /\ RemoveRecursive(m, path)
        \/ "pack" \in Ops /\ Pack(m, path)
        \/ "unpack" \in Ops /\ Unpack(m, path)
        \/ \E dst \in Paths : Link(m, path, dst) \/ Move(m, path, dst) \/ Copy(m, path, dst)
  BY DEF Edit
<1> DEFINE k == Resolve(m, path)
           Out == edge'[e].from \in Subtree(a) \/ edge'[e].from \in Reach(edge', a)
<1> SUFFICES Out
  BY <1>3
<1> HIDE DEF a, k
<1>6. ASSUME NEW t \in Types, Create(m, path, t) PROVE Out
  <2> DEFINE parent == ResolveParent(m, path)
             rows == <<[p |-> 0, t |-> t, n |-> Last(path), d |-> 0]>>
  <2>1. parent # 0 /\ Graft(parent, rows, edge)
    BY <1>6 DEF Create
  <2>2. parent \in DOMAIN node /\ Last(path) \in Names /\ parent \in Subtree(a) /\ a \in DOMAIN node
    BY <2>1, ParentIs DEF a
  <2>3. RowsOk(rows)
    BY <2>2, OneRow
  <2> HIDE DEF parent, rows
  <2>4. e \notin DOMAIN edge
    BY <1>1, <2>1, <2>2, <2>3, GraftOld
  <2> QED
    BY <1>1, <1>3, <2>1, <2>2, <2>3, <2>4, GraftChanges
<1>7. ASSUME NEW dst \in Paths, Copy(m, path, dst) PROVE Out
  <2> DEFINE parent == ResolveParent(m, dst)
             rows == RowsOf(k, Last(dst))
  <2>1. k # 0 /\ parent # 0 /\ Graft(parent, rows, edge)
    BY <1>7 DEF Copy, k
  <2>2. parent \in DOMAIN node /\ Last(dst) \in Names /\ parent \in Subtree(a) /\ a \in DOMAIN node
        /\ k \in DOMAIN node
    BY <2>1, ParentIs, ResolvedIs DEF a, k
  <2>3. RowsOk(rows)
    BY <2>2, RowsOfOk DEF IInv
  <2> HIDE DEF parent, rows
  <2>4. e \notin DOMAIN edge
    BY <1>1, <2>1, <2>2, <2>3, GraftOld
  <2> QED
    BY <1>1, <1>3, <2>1, <2>2, <2>3, <2>4, GraftChanges
<1>8. ASSUME NEW name \in Names, Rename(m, path, name) PROVE Out
  <2> DEFINE parent == ResolveParent(m, path)
             W == Walked(parent, k, Last(path))
  <2>1. /\ parent # 0
        /\ edge' = [x \in DOMAIN edge |-> IF x \in W THEN [edge[x] EXCEPT !.name = name] ELSE edge[x]]
    BY <1>8 DEF Rename, k
  <2>2. parent \in Subtree(a)
    BY <2>1, ParentIs DEF a
  <2>3. \A x \in W : edge[x].from = parent
    BY DEF Walked
  <2> HIDE DEF W
  <2>4. e \in DOMAIN edge /\ e \in W /\ edge'[e] = [edge[e] EXCEPT !.name = name]
    BY <2>1
  <2>5. edge'[e].from = edge[e].from
    BY <1>1, <2>4, RowFields DEF EdgeRow
  <2> QED
    BY <2>2, <2>3, <2>4, <2>5
<1>9. ASSUME RemoveOne(m, path) PROVE Out
  <2> DEFINE parent == ResolveParent(m, path)
             W == Walked(parent, k, Last(path))
  <2>1. parent # 0 /\ edge' = Archive(W)
    BY <1>9 DEF RemoveOne, k
  <2>2. parent \in Subtree(a)
    BY <2>1, ParentIs DEF a
  <2>3. e \in DOMAIN edge
    BY <2>1 DEF Archive
  <2>4. e \in W /\ edge'[e].from = edge[e].from
    BY <1>1, <2>1, <2>3, ArchivedOnly
  <2> QED
    BY <2>2, <2>4 DEF Walked
<1>10. ASSUME NEW dst \in Paths, Link(m, path, dst) PROVE Out
  <2> DEFINE p == ResolveParent(m, dst)
  <2>1. k # 0 /\ p # 0 /\ edge' = Plus(edge, p, k, Last(dst))
    BY <1>10 DEF Link, Plus, k
  <2>2. k \in Nat /\ p \in Nat /\ p \in Subtree(a) /\ Last(dst) \in Names
    BY <1>1, <2>1, ResolvedIs, ParentIs, Anchored DEF k, a
  <2> HIDE DEF p
  <2>3. Adds(edge, edge', Len(edge) + 1, p, k)
    BY <1>1, <2>1, <2>2, PlusIs
  <2> QED
    BY <2>2, <2>3 DEF Adds
<1>11. ASSUME NEW dst \in Paths, Move(m, path, dst) PROVE Out
  <2> DEFINE p == ResolveParent(m, dst)
             from == ResolveParent(m, path)
             W == Walked(from, k, Last(path))
             E == Archive(W)
  <2>1. k # 0 /\ from # 0 /\ p # 0 /\ edge' = Plus(E, p, k, Last(dst))
    BY <1>11 DEF Move, Plus, k
  <2>2. k \in Nat /\ p \in Nat /\ p \in Subtree(a) /\ Last(dst) \in Names /\ from \in Subtree(a)
    BY <1>1, <2>1, ResolvedIs, ParentIs, Anchored DEF k, a
  <2>3. Prunes(edge, E)
    BY <1>1, ArchivePrunes
  <2>4. Adds(E, edge', Len(E) + 1, p, k)
    BY <2>1, <2>2, <2>3, PlusIs DEF Prunes
  <2>5. CASE e \in DOMAIN edge
    <3>1. edge'[e] = E[e]
      BY <2>3, <2>4, <2>5 DEF Adds, Prunes
    <3>2. e \in W /\ E[e].from = edge[e].from
      BY <1>1, <2>5, <3>1, ArchivedOnly
    <3>3. edge[e].from = from
      BY <3>2 DEF Walked
    <3> QED
      BY <2>2, <3>1, <3>2, <3>3
  <2>6. CASE e \notin DOMAIN edge
    BY <2>2, <2>3, <2>4, <2>6 DEF Adds, Prunes
  <2> QED
    BY <2>5, <2>6
<1>12. ASSUME "remove_recursive" \in Ops, RemoveRecursive(m, path) PROVE Out
  <2>1. Lone(edge) /\ path # <<>> /\ k # 0 /\ edge' = Archive(SubtreePlacements(k))
    BY <1>4, <1>12 DEF CInv, Narrow, RemoveRecursive, k
  <2>2. e \in DOMAIN edge
    BY <2>1 DEF Archive
  <2>3. e \in SubtreePlacements(k) /\ edge'[e].from = edge[e].from
    BY <1>1, <2>1, <2>2, ArchivedOnly
  <2> QED
    BY <2>1, <2>3, SubtreeInside DEF a, k
<1>13. ASSUME "pack" \in Ops, Pack(m, path) PROVE Out
  <2> DEFINE name == node[k].name
             rows == <<[p |-> 0, t |-> "leaf", n |-> name, d |-> Len(blob) + 1]>>
             E == Archive(SubtreePlacements(k))
  <2>1. Lone(edge) /\ path # <<>> /\ k # 0
    BY <1>4, <1>13 DEF CInv, Narrow, Pack, k
  <2>2. PICK f \in PlacementsOf(k) : Graft(edge[f].from, rows, E)
    BY <1>13 DEF Pack, k
  <2>3. k # Root /\ k \in DOMAIN node /\ edge[f].from \in DOMAIN node /\ f \in ActiveEdges
        /\ edge[f].to = k
    BY <2>2, PlacementIs DEF PlacementsOf
  <2>4. name \in Names /\ Len(blob) + 1 \in Nat
    BY <2>3 DEF IInv, Named, TypeOK
  <2>5. RowsOk(rows)
    BY <2>4, OneRow DEF Types
  <2>6. Prunes(edge, E) /\ Active(E) = ActiveEdges \ SubtreePlacements(k)
    BY <1>1, ArchivePrunes, ArchiveIs
  <2>7. edge[f].from \in Subtree(a) /\ a \in DOMAIN node /\ edge[f].from \notin Subtree(k)
    BY <2>1, <2>2, <2>3, PlacedInside, ResolvedIs, ReachIsSubtree
       DEF a, k, IInv, Tree, Active, ActiveEdges
  <2>8. edge[f].from \in Reach(E, a)
    <3> DEFINE S == Reach(E, a) \cup Subtree(k)
    <3>1. a \in Nat /\ E \in Seq(EdgeRow)
      BY <1>1, <2>6, <2>7, Anchored DEF Prunes
    <3>2. a \in S
      BY <3>1, ReachLeast
    <3>3. ASSUME NEW x \in ActiveEdges, edge[x].from \in S PROVE edge[x].to \in S
      <4>1. CASE x \in SubtreePlacements(k)
        BY <4>1 DEF SubtreePlacements
      <4>2. CASE x \notin SubtreePlacements(k)
        <5>1. x \in Active(E) /\ E[x].from = edge[x].from /\ E[x].to = edge[x].to
          BY <2>6, <3>3, <4>2 DEF Prunes, ActiveEdges
        <5>2. edge[x].from \notin Subtree(k)
          BY <1>1, <2>3, <3>3, <4>2, SubtreeIn DEF SubtreePlacements
        <5> QED
          BY <3>1, <3>3, <5>1, <5>2, ReachLeast DEF Closed
      <4> QED
        BY <4>1, <4>2
    <3> HIDE DEF S
    <3>4. Subtree(a) \subseteq S
      BY <1>1, <2>7, <3>2, <3>3, SubtreeIn
    <3> QED
      BY <2>7, <3>4 DEF S
  <2> HIDE DEF rows, E
  <2>9. CASE e \in DOMAIN edge
    <3>1. edge'[e] = E[e]
      BY <2>2, <2>3, <2>5, <2>6, <2>9, GraftOld
    <3>2. e \in SubtreePlacements(k) /\ E[e].from = edge[e].from
      BY <1>1, <2>9, <3>1, ArchivedOnly DEF E
    <3> QED
      BY <2>1, <3>1, <3>2, SubtreeInside DEF a, k
  <2>10. CASE e \notin DOMAIN edge
    BY <2>2, <2>3, <2>5, <2>6, <2>7, <2>8, <2>10, GraftChanges
  <2> QED
    BY <2>9, <2>10
<1>14. ASSUME "unpack" \in Ops, Unpack(m, path) PROVE Out
  <2>1. Lone(edge) /\ path # <<>> /\ k # 0 /\ ~Holder(node, k)
    BY <1>4, <1>14 DEF CInv, Narrow, Unpack, k, IsContainer, Holder
  <2>2. PICK rows \in Decode(node[k].data), f \in PlacementsOf(k) :
           Graft(edge[f].from, rows, Archive({f}))
    BY <1>14 DEF Unpack, k
  <2> DEFINE E == Archive({f})
  <2>3. k \in DOMAIN node /\ edge[f].from \in DOMAIN node /\ f \in ActiveEdges
        /\ edge[f].to = k /\ Holder(node, edge[f].from)
    BY <2>2, PlacementIs DEF PlacementsOf
  <2>4. RowsOk(rows)
    BY DEF Decode, IInv, Packed
  <2>5. Prunes(edge, E) /\ Active(E) = ActiveEdges \ {f}
    BY <1>1, ArchivePrunes, ArchiveIs
  <2>6. edge[f].from \in Subtree(a) /\ a \in DOMAIN node
    BY <2>1, <2>2, PlacedInside, ResolvedIs DEF a, k
  <2>7. edge[f].from \in Reach(E, a)
    <3> DEFINE S == Reach(E, a) \cup {k}
    <3>1. a \in Nat /\ E \in Seq(EdgeRow)
      BY <1>1, <2>5, <2>6, Anchored DEF Prunes
    <3>2. a \in S
      BY <3>1, ReachLeast
    <3>3. ASSUME NEW x \in ActiveEdges, edge[x].from \in S PROVE edge[x].to \in S
      <4>1. CASE x = f
        BY <2>3, <4>1
      <4>2. CASE x # f
        <5>1. x \in Active(E) /\ E[x].from = edge[x].from /\ E[x].to = edge[x].to
          BY <2>5, <3>3, <4>2 DEF Prunes, ActiveEdges
        <5>2. edge[x].from # k
          BY <2>1, <3>3 DEF IInv, Tree, Active, ActiveEdges
        <5> QED
          BY <3>1, <3>3, <5>1, <5>2, ReachLeast DEF Closed
      <4> QED
        BY <4>1, <4>2
    <3> HIDE DEF S
    <3>4. Subtree(a) \subseteq S
      BY <1>1, <2>6, <3>2, <3>3, SubtreeIn
    <3>5. edge[f].from # k
      BY <2>1, <2>3
    <3> QED
      BY <2>6, <3>4, <3>5 DEF S
  <2> HIDE DEF E
  <2>8. Graft(edge[f].from, rows, E)
    BY <2>2 DEF E
  <2>9. CASE e \in DOMAIN edge
    <3>1. edge'[e] = E[e]
      BY <2>3, <2>4, <2>5, <2>8, <2>9, GraftOld
    <3>2. e = f /\ E[e].from = edge[e].from
      BY <1>1, <2>9, <3>1, ArchivedOnly DEF E
    <3> QED
      BY <2>6, <3>1, <3>2
  <2>10. CASE e \notin DOMAIN edge
    BY <2>3, <2>4, <2>5, <2>6, <2>7, <2>8, <2>10, GraftChanges
  <2> QED
    BY <2>9, <2>10
<1> QED
  BY <1>5, <1>6, <1>7, <1>8, <1>9, <1>10, <1>11, <1>12, <1>13, <1>14

(* Confined, for callers who make no hardlinks and leave "/" alone, or who do  *)
(* not remove subtrees, pack or unpack: an operation touches only placements  *)
(* under the anchor of its mount.                                             *)
THEOREM EditsAreConfined ==
  ASSUME Modest
  PROVE  Spec => Confined
<1>1. Init => CInv
  BY DEF Init, CInv, Lone, Active
<1>2. IInv /\ CInv /\ [Next]_vars => CInv'
  <2> SUFFICES ASSUME IInv, CInv, [Next]_vars, Unlinked' PROVE Lone(edge')
    BY DEF CInv
  <2>1. habit' = habit
    BY DEF Next, vars
  <2>2. Unlinked /\ Lone(edge)
    BY <2>1 DEF CInv, Unlinked, Ops
  <2>3. ASSUME NEW m \in Mounts, Edit(m) PROVE Lone(edge')
    BY <2>2, <2>3, LoneKept
  <2>4. CASE UNCHANGED edge
    BY <2>2, <2>4
  <2> QED
    BY <2>3, <2>4 DEF Next, vars, LockNode, UnlockNode, MountAt, MountEnds
<1>3. IInv /\ CInv /\ [Next]_vars =>
        [\A e \in DOMAIN edge' : e \notin DOMAIN edge \/ edge'[e] # edge[e] =>
            \A m \in Mounts : edge'[e].from \notin Reached(m) => ~Edit(m)]_vars
  BY EditReaches
<1> QED
  BY <1>1, <1>2, <1>3, NameInvariant, PTL DEF Spec, Confined

---------------------------------------------------------------------------
(* The climb from a node by its newest placement                           *)

(* Where the climb ends, and where it goes otherwise. *)
Top(x) == x = Root \/ Newest(x) = 0

Over(x) == edge[Newest(x)].from

(* s climbs from x. *)
Climbs(x, s) ==
    /\ s \in Seq(Nat) /\ s # <<>> /\ s[1] = x
    /\ \A i \in 1..(Len(s) - 1) : ~Top(s[i]) /\ s[i + 1] = Over(s[i])
    /\ Top(s[Len(s)])

LEMMA NewestIs ==
  ASSUME TypeOK, NEW x, Newest(x) # 0
  PROVE  /\ Newest(x) \in PlacementsOf(x) /\ Newest(x) \in ActiveEdges
         /\ edge[Newest(x)].to = x /\ Over(x) \in DOMAIN node /\ x \in DOMAIN node
         /\ x \in Nat /\ Over(x) \in Nat
<1> DEFINE S == PlacementsOf(x)
<1>1. S \in SUBSET (0..Len(edge)) /\ Len(edge) \in Nat
  BY DEF PlacementsOf, ActiveEdges, TypeOK
<1>2. S # {} /\ Newest(x) = CHOOSE e \in S : \A f \in S : e >= f
  BY DEF Newest, Max
<1> HIDE DEF S
<1>3. Newest(x) \in S
  BY <1>1, <1>2, LargestOf
<1>4. Newest(x) \in ActiveEdges /\ edge[Newest(x)].to = x
  BY <1>3 DEF S, PlacementsOf
<1> QED
  BY <1>3, <1>4, RowFields DEF S, Over, ActiveEdges

LEMMA NewestOf ==
  ASSUME TypeOK, NEW x, NEW e \in PlacementsOf(x)
  PROVE  Newest(x) # 0
<1> DEFINE S == PlacementsOf(x)
<1>1. S \in SUBSET (0..Len(edge)) /\ Len(edge) \in Nat /\ 0 \notin S
  BY DEF PlacementsOf, ActiveEdges, TypeOK
<1>2. S # {} /\ Newest(x) = CHOOSE f \in S : \A g \in S : f >= g
  BY DEF Newest, Max
<1> HIDE DEF S
<1>3. Newest(x) \in S
  BY <1>1, <1>2, LargestOf
<1> QED
  BY <1>1, <1>3

(* What holds where a climb ends, and wherever it holds a step further, holds  *)
(* of every node: a climb goes to a node with fewer nodes above it.            *)
LEMMA Climbing ==
  ASSUME TypeOK, Tree(node, edge), NEW S,
         \A x \in DOMAIN node : Top(x) \/ Over(x) \in S => x \in S
  PROVE  DOMAIN node \subseteq S
<1> DEFINE Above(x) == {y \in DOMAIN node : x \in Subtree(y)}
           wrong == DOMAIN node \ S
           T == {Above(x) : x \in wrong}
<1> SUFFICES ASSUME wrong # {} PROVE FALSE
  OBVIOUS
<1>1. \A z \in T : IsFiniteSet(z)
  <2>1. IsFiniteSet(DOMAIN node)
    <3>1. DOMAIN node = 1..Len(node) /\ Len(node) \in Int /\ 1 \in Int
      BY DEF TypeOK
    <3> QED
      BY <3>1, FS_Interval
  <2>2. \A z \in T : z \in SUBSET DOMAIN node
    OBVIOUS
  <2> HIDE DEF T
  <2> QED
    BY <2>1, <2>2, FS_Subset
<1>2. T # {}
  <2>1. PICK x \in wrong : TRUE
    OBVIOUS
  <2>2. Above(x) \in T
    BY <2>1
  <2> QED
    BY <2>2
<1>3. PICK z \in T : \A y \in T : y \subseteq z => y = z
  <2> HIDE DEF T
  <2> QED
    BY <1>1, <1>2, SmallestSet
<1>4. PICK x \in wrong : z = Above(x)
  OBVIOUS
<1> DEFINE p == Over(x)
<1>5. x \in DOMAIN node /\ ~Top(x) /\ p \notin S /\ Newest(x) # 0
  BY DEF Top
<1>6. p \in DOMAIN node /\ Newest(x) \in ActiveEdges /\ edge[Newest(x)].to = x
      /\ edge[Newest(x)].from = p
  BY <1>5, NewestIs DEF Over
<1> HIDE DEF p
<1>7. Above(p) \in T
  BY <1>5, <1>6
<1>8. Above(p) \subseteq Above(x)
  BY <1>6, SubtreeIn
<1>9. x \in Above(x) /\ x \notin Above(p)
  <2>1. x \in Above(x)
    BY <1>5, SubtreeIn
  <2>2. p \notin Subtree(x)
    BY <1>6, ReachIsSubtree DEF Tree, Active, ActiveEdges
  <2> QED
    BY <1>5, <1>6, <1>8, <2>1, <2>2
<1> QED
  BY <1>3, <1>4, <1>7, <1>8, <1>9

LEMMA ClimbsOnce ==
  ASSUME NEW x, NEW s, NEW t, Climbs(x, s), Climbs(x, t)
  PROVE  s = t
<1>1. /\ s \in Seq(Nat) /\ Len(s) \in Nat \ {0} /\ DOMAIN s = 1..Len(s)
      /\ t \in Seq(Nat) /\ Len(t) \in Nat \ {0} /\ DOMAIN t = 1..Len(t)
  <2>1. s \in Seq(Nat) /\ s # <<>> /\ t \in Seq(Nat) /\ t # <<>>
    BY DEF Climbs
  <2> QED
    BY <2>1
<1> DEFINE wrong == {i \in Nat \ {0} : i <= Len(s) /\ i <= Len(t) /\ s[i] # t[i]}
<1>2. ASSUME wrong # {} PROVE FALSE
  <2>1. PICK i \in wrong : \A j \in wrong : i <= j
    <3>1. wrong \in SUBSET Nat
      OBVIOUS
    <3> HIDE DEF wrong
    <3> QED
      BY <1>2, <3>1, SmallestOf
  <2>2. i # 1
    BY DEF Climbs
  <2> DEFINE j == i - 1
  <2>3. j \in Nat \ {0} /\ i = j + 1 /\ j <= Len(s) /\ j <= Len(t) /\ ~(i <= j)
        /\ j \in 1..(Len(s) - 1) /\ j \in 1..(Len(t) - 1)
    BY <1>1, <2>2
  <2>4. s[j] = t[j]
    BY <2>1, <2>3
  <2>5. s[j + 1] = Over(s[j]) /\ t[j + 1] = Over(t[j])
    <3> HIDE DEF j
    <3> QED
      BY <2>3 DEF Climbs
  <2>6. s[j + 1] # t[j + 1]
    BY <2>3
  <2> QED
    BY <2>4, <2>5, <2>6
<1>3. \A i \in Nat \ {0} : i <= Len(s) /\ i <= Len(t) => s[i] = t[i]
  BY <1>2
<1> HIDE DEF wrong
<1>4. ASSUME NEW u, NEW v, Climbs(x, u), Climbs(x, v), Len(u) < Len(v),
             Len(u) \in Nat \ {0}, Len(v) \in Nat, u[Len(u)] = v[Len(u)]
      PROVE  FALSE
  <2>1. Len(u) \in 1..(Len(v) - 1)
    BY <1>4
  <2>2. Top(u[Len(u)]) /\ ~Top(v[Len(u)])
    BY <1>4, <2>1 DEF Climbs
  <2> QED
    BY <1>4, <2>2
<1>5. Len(s) = Len(t)
  <2> DEFINE k == Len(s)
             l == Len(t)
  <2>1. k \in Nat \ {0} /\ l \in Nat \ {0}
    BY <1>1
  <2>2. k < l => s[k] = t[k]
    BY <1>3, <2>1
  <2>3. l < k => s[l] = t[l]
    BY <1>3, <2>1
  <2>4. ~(k < l)
    BY <1>4, <2>1, <2>2
  <2>5. ~(l < k)
    BY <1>4, <2>1, <2>3
  <2>6. k = l
    <3> HIDE DEF k, l
    <3> QED
      BY <2>1, <2>4, <2>5
  <2> QED
    BY <2>6
<1>6. \A i \in 1..Len(s) : s[i] = t[i]
  BY <1>1, <1>3, <1>5
<1> QED
  BY <1>1, <1>5, <1>6, SeqEqual

LEMMA ClimbsFrom ==
  ASSUME NEW x \in Nat, NEW s,
         IF Top(x) THEN s = <<x>> ELSE \E r : Climbs(Over(x), r) /\ s = <<x>> \o r
  PROVE  Climbs(x, s)
<1> DEFINE one == <<x>>
<1>1. one \in Seq(Nat) /\ one # <<>> /\ Len(one) = 1 /\ one[1] = x
  OBVIOUS
<1>2. CASE Top(x)
  <2>1. s = one
    BY <1>2
  <2> HIDE DEF one
  <2>2. Len(s) = 1 /\ s[1] = x /\ s \in Seq(Nat) /\ s # <<>>
    BY <1>1, <2>1
  <2>3. 1..(Len(s) - 1) = {}
    BY <2>2
  <2>4. Top(s[Len(s)])
    BY <1>2, <2>2
  <2> QED
    BY <2>2, <2>3, <2>4 DEF Climbs
<1>3. CASE ~Top(x)
  <2>1. PICK r : Climbs(Over(x), r) /\ s = one \o r
    BY <1>3
  <2>2. r \in Seq(Nat) /\ r # <<>> /\ r[1] = Over(x) /\ Top(r[Len(r)])
        /\ \A i \in 1..(Len(r) - 1) : ~Top(r[i]) /\ r[i + 1] = Over(r[i])
    BY <2>1 DEF Climbs
  <2>3. Len(r) \in Nat \ {0}
    BY <2>2
  <2> HIDE DEF one
  <2>4. /\ s \in Seq(Nat) /\ Len(s) = 1 + Len(r)
        /\ \A i \in 1..(1 + Len(r)) : s[i] = IF i <= 1 THEN one[i] ELSE r[i - 1]
    <3>1. /\ one \o r \in Seq(Nat) /\ Len(one \o r) = Len(one) + Len(r)
          /\ \A i \in 1..(Len(one) + Len(r)) :
                (one \o r)[i] = IF i <= Len(one) THEN one[i] ELSE r[i - Len(one)]
      BY <1>1, <2>2, ConcatProperties
    <3> QED
      BY <1>1, <2>1, <3>1
  <2>5. s[1] = x /\ \A i \in 1..Len(r) : s[i + 1] = r[i]
    <3>1. 1 \in 1..(1 + Len(r)) /\ \A i \in 1..Len(r) : i + 1 \in 1..(1 + Len(r))
            /\ ~(i + 1 <= 1) /\ (i + 1) - 1 = i
      BY <2>3
    <3> QED
      BY <1>1, <2>4, <3>1
  <2>6. s # <<>>
    BY <2>3, <2>4
  <2>7. ASSUME NEW i \in 1..(Len(s) - 1) PROVE ~Top(s[i]) /\ s[i + 1] = Over(s[i])
    <3>1. CASE i = 1
      <4>1. s[2] = r[1]
        BY <2>3, <2>5
      <4> QED
        BY <1>3, <2>2, <2>5, <3>1, <4>1
    <3>2. CASE i # 1
      <4>1. i - 1 \in 1..(Len(r) - 1) /\ i - 1 \in 1..Len(r) /\ i \in 1..Len(r) /\ (i - 1) + 1 = i
        BY <2>3, <2>4, <3>2
      <4>2. s[i] = r[i - 1] /\ s[i + 1] = r[i]
        BY <2>5, <4>1
      <4>3. ~Top(r[i - 1]) /\ r[(i - 1) + 1] = Over(r[i - 1])
        BY <2>2, <4>1
      <4> QED
        BY <4>1, <4>2, <4>3
    <3> QED
      BY <3>1, <3>2
  <2>8. Top(s[Len(s)])
    <3>1. Len(r) \in 1..Len(r) /\ Len(s) = Len(r) + 1
      BY <2>3, <2>4
    <3> QED
      BY <2>2, <2>5, <3>1
  <2> QED
    BY <2>4, <2>5, <2>6, <2>7, <2>8 DEF Climbs
<1> QED
  BY <1>2, <1>3

LEMMA ClimbExists ==
  ASSUME TypeOK, Tree(node, edge), NEW x \in Nat
  PROVE  \E s : Climbs(x, s)
<1> DEFINE S == {y \in Nat : \E s : Climbs(y, s)}
<1>1. ASSUME NEW y \in Nat, Top(y) \/ Over(y) \in S PROVE y \in S
  <2>1. CASE Top(y)
    <3>1. Climbs(y, <<y>>)
      BY <2>1, ClimbsFrom
    <3> QED
      BY <3>1
  <2>2. CASE ~Top(y)
    <3>1. PICK r : Climbs(Over(y), r)
      BY <1>1, <2>2
    <3>2. Climbs(y, <<y>> \o r)
      BY <2>2, <3>1, ClimbsFrom
    <3> QED
      BY <3>2
  <2> QED
    BY <2>1, <2>2
<1>2. DOMAIN node \subseteq S
  <2>1. DOMAIN node \subseteq Nat
    BY DEF TypeOK
  <2> HIDE DEF S
  <2> QED
    BY <1>1, <2>1, Climbing
<1>3. x \notin DOMAIN node => Top(x)
  BY NewestIs DEF Top
<1>4. x \in S
  <2> HIDE DEF S
  <2> QED
    BY <1>1, <1>2, <1>3
<1> QED
  BY <1>4

(* The recursion of Upward has a solution, and its value is the climb.        *)
LEMMA UpwardClimbs ==
  ASSUME TypeOK, Tree(node, edge), NEW n \in DOMAIN node
  PROVE  Climbs(n, Upward(n))
<1> DEFINE Def(w, x) == IF Top(x) THEN <<x>> ELSE <<x>> \o w[Over(x)]
           up == CHOOSE w : w = [x \in Nat |-> Def(w, x)]
           w0 == [x \in Nat |-> CHOOSE s : Climbs(x, s)]
<1>1. \A x \in Nat : Climbs(x, w0[x])
  BY ClimbExists
<1>2. \A x \in Nat : ~Top(x) => Over(x) \in Nat
  BY NewestIs DEF Top
<1>3. w0 = [x \in Nat |-> Def(w0, x)]
  <2>1. ASSUME NEW x \in Nat PROVE w0[x] = Def(w0, x)
    <3>1. Climbs(x, Def(w0, x))
      <4> HIDE DEF w0
      <4> QED
        BY <1>1, <1>2, ClimbsFrom
    <3> HIDE DEF w0, Def
    <3> QED
      BY <1>1, <3>1, ClimbsOnce
  <2>2. w0 = [x \in Nat |-> w0[x]]
    OBVIOUS
  <2> HIDE DEF w0, Def
  <2> QED
    BY <2>1, <2>2
<1>4. up = [x \in Nat |-> Def(up, x)]
  BY <1>3
<1>5. Upward(n) = up[n]
  BY DEF Upward, Top, Over
<1>6. \A x \in Nat : up[x] = Def(up, x)
  <2> HIDE DEF up
  <2> QED
    BY <1>4
<1> HIDE DEF up
<1> DEFINE S == {y \in Nat : Climbs(y, up[y])}
<1>7. ASSUME NEW y \in Nat, Top(y) \/ Over(y) \in S PROVE y \in S
  <2>1. Climbs(y, up[y])
    BY <1>6, <1>7, ClimbsFrom
  <2> QED
    BY <2>1
<1>8. DOMAIN node \subseteq S
  <2>1. DOMAIN node \subseteq Nat
    BY DEF TypeOK
  <2> HIDE DEF S
  <2> QED
    BY <1>7, <2>1, Climbing
<1> QED
  BY <1>5, <1>8

(* A climb from a container below a passes a. *)
LEMMA ClimbMeets ==
  ASSUME TypeOK, Tree(node, edge), NEW a \in DOMAIN node, NEW x, NEW s, Climbs(x, s),
         NEW i \in 1..Len(s), Holder(node, s[i]), s[i] \in Subtree(a)
  PROVE  /\ \E j \in 1..Len(s) : s[j] = a
         /\ a = Root => Last(s) = Root
<1>1. s \in Seq(Nat) /\ s # <<>> /\ Top(s[Len(s)])
      /\ \A j \in 1..(Len(s) - 1) : ~Top(s[j]) /\ s[j + 1] = Over(s[j])
  BY DEF Climbs
<1>2. Len(s) \in Nat
  BY <1>1
<1> DEFINE J == {j \in 1..Len(s) : Holder(node, s[j]) /\ s[j] \in Subtree(a)}
<1>3. PICK j \in J : \A k \in J : j >= k
  <2>1. J \in SUBSET (0..Len(s)) /\ J # {}
    OBVIOUS
  <2> HIDE DEF J
  <2> QED
    BY <1>2, <2>1, LargestOf
<1>4. s[j] = a
  <2> SUFFICES ASSUME s[j] # a PROVE FALSE
    OBVIOUS
  <2> DEFINE y == s[j]
  <2>1. j \in 1..Len(s) /\ Holder(node, y) /\ y \in Subtree(a)
    OBVIOUS
  <2>2. PICK f \in Below(a) : edge[f].to = y
    BY <2>1, PlacedBelow
  <2> HIDE DEF y
  <2>3. f \in ActiveEdges /\ f \in PlacementsOf(y) /\ edge[f].from \in Subtree(a)
        /\ Holder(node, edge[f].from) /\ y # Root
    BY <2>2 DEF Below, PlacementsOf, Tree, Active, ActiveEdges
  <2>4. Newest(y) # 0
    BY <2>3, NewestOf
  <2>5. Newest(y) = f
    BY <2>1, <2>2, <2>3, <2>4, NewestIs DEF Tree, Active, ActiveEdges
  <2>6. ~Top(y)
    BY <2>3, <2>4 DEF Top
  <2>7. j \in 1..(Len(s) - 1) /\ j + 1 \in 1..Len(s) /\ ~(j >= j + 1)
    <3>1. j # Len(s)
      BY <1>1, <2>6 DEF y
    <3> QED
      BY <1>2, <2>1, <3>1
  <2>8. s[j + 1] = edge[f].from
    BY <1>1, <2>5, <2>7 DEF Over, y
  <2>9. j + 1 \in J
    BY <2>3, <2>7, <2>8
  <2> HIDE DEF J
  <2> QED
    BY <1>3, <2>7, <2>9
<1>5. ASSUME a = Root PROVE Last(s) = Root
  <2>1. Top(s[j])
    BY <1>4, <1>5 DEF Top
  <2>2. j = Len(s)
    BY <1>1, <1>2, <2>1
  <2> QED
    BY <1>4, <1>5, <2>2 DEF Last
<1> QED
  BY <1>4, <1>5

(* A placement's name leads to what it places, when no sibling has it. *)
LEMMA LookupSome ==
  ASSUME TypeOK, NEW e \in ActiveEdges
  PROVE  Lookup(edge[e].from, edge[e].name) # 0
<1> DEFINE c == edge[e].from
           name == edge[e].name
           hits == {edge[f].to : f \in {x \in EdgesFrom(c) : edge[x].name = name}}
<1>1. hits \in SUBSET (0..Len(node)) /\ 0 \notin hits
  <2>1. \A f \in ActiveEdges : edge[f].to \in (0..Len(node)) \ {0}
    <3>1. DOMAIN node = 1..Len(node)
      BY DEF TypeOK
    <3>2. \A f \in ActiveEdges : edge[f].to \in DOMAIN node /\ edge[f].to # 0
      BY RowFields DEF ActiveEdges
    <3> QED
      BY <3>1, <3>2
  <2> QED
    BY <2>1 DEF EdgesFrom
<1>2. hits # {} /\ Lookup(c, name) = CHOOSE n \in hits : \A k \in hits : n >= k
  BY DEF Lookup, EdgesFrom
<1>3. \E n \in hits : \A k \in hits : n >= k
  <2>1. Len(node) \in Nat
    BY DEF TypeOK
  <2> HIDE DEF hits
  <2> QED
    BY <1>1, <1>2, <2>1, LargestOf
<1>4. Lookup(c, name) \in hits
  <2> HIDE DEF hits
  <2> QED
    BY <1>2, <1>3
<1> QED
  BY <1>1, <1>4

LEMMA LookupOnly ==
  ASSUME TypeOK, Distinct(edge), NEW e \in ActiveEdges
  PROVE  Lookup(edge[e].from, edge[e].name) = edge[e].to
<1>1. PICK f \in ActiveEdges : /\ edge[f].from = edge[e].from /\ edge[f].name = edge[e].name
                               /\ edge[f].to = Lookup(edge[e].from, edge[e].name)
  BY LookupSome, LookupFinds
<1> QED
  BY <1>1 DEF Distinct, Active, ActiveEdges

(* f is what lies along the first k segments of a path. *)
Onward(S, name) ==
    {edge[e].to : e \in {x \in ActiveEdges : edge[x].from \in S /\ edge[x].name = name}}

Lies(a, path, k, f) == f = [i \in 0..k |-> IF i = 0 THEN {a} ELSE Onward(f[i - 1], path[i])]

LEMMA LiesExists ==
  ASSUME NEW a, NEW path \in Seq(Names)
  PROVE  \A k \in 0..Len(path) : \E f : Lies(a, path, k, f)
<1> DEFINE wrong == {k \in 0..Len(path) : ~\E f : Lies(a, path, k, f)}
<1>1. Len(path) \in Nat
  OBVIOUS
<1> SUFFICES ASSUME wrong # {} PROVE FALSE
  OBVIOUS
<1>2. PICK k \in wrong : \A j \in wrong : k <= j
  <2>1. wrong \in SUBSET Nat
    BY <1>1
  <2> HIDE DEF wrong
  <2> QED
    BY <2>1, SmallestOf
<1>3. k # 0
  <2>1. Lies(a, path, 0, [i \in 0..0 |-> {a}])
    BY DEF Lies
  <2> QED
    BY <2>1
<1>4. k \in Nat /\ k - 1 \in 0..Len(path) /\ ~(k <= k - 1)
  BY <1>1, <1>3
<1>5. PICK g : Lies(a, path, k - 1, g)
  BY <1>2, <1>4
<1> DEFINE f == [i \in 0..k |-> IF i = k THEN Onward(g[k - 1], path[k]) ELSE g[i]]
<1>6. \A i \in 0..(k - 1) : g[i] = IF i = 0 THEN {a} ELSE Onward(g[i - 1], path[i])
  BY <1>5 DEF Lies
<1>7. ASSUME NEW i \in 0..k
      PROVE  f[i] = IF i = 0 THEN {a} ELSE Onward(f[i - 1], path[i])
  <2>1. CASE i = k
    <3>1. i # 0 /\ i - 1 = k - 1 /\ k - 1 \in 0..k /\ k - 1 # k
      BY <1>3, <1>4, <2>1
    <3>2. f[i - 1] = g[k - 1] /\ f[i] = Onward(g[k - 1], path[k])
      BY <2>1, <3>1
    <3> QED
      BY <2>1, <3>1, <3>2
  <2>2. CASE i # k
    <3>1. i \in 0..(k - 1) /\ f[i] = g[i]
      BY <1>4, <2>2
    <3>2. i # 0 => i - 1 \in 0..k /\ i - 1 # k /\ f[i - 1] = g[i - 1]
      BY <1>4, <2>2
    <3> HIDE DEF f
    <3> QED
      BY <1>6, <3>1, <3>2
  <2> QED
    BY <2>1, <2>2
<1>8. Lies(a, path, k, f)
  <2>1. f = [i \in 0..k |-> f[i]]
    OBVIOUS
  <2> HIDE DEF f
  <2> QED
    BY <1>7, <2>1 DEF Lies
<1> QED
  <2> HIDE DEF f
  <2> QED
    BY <1>8

(* v visits the nodes a path names, one placement after the other. *)
Visits(v, path) ==
    \A i \in 1..Len(path) :
        \E e \in ActiveEdges :
            edge[e].from = v[i - 1] /\ edge[e].to = v[i] /\ edge[e].name = path[i]

LEMMA VisitsLie ==
  ASSUME NEW path \in Seq(Names), NEW v, Visits(v, path)
  PROVE  v[Len(path)] \in Along(v[0], path)
<1> DEFINE L == Len(path)
           a == v[0]
           at == CHOOSE f : Lies(a, path, L, f)
<1>1. L \in Nat /\ L \in 0..L
  OBVIOUS
<1>2. Lies(a, path, L, at)
  BY <1>1, LiesExists
<1>3. Along(a, path) = at[L]
  BY DEF Along, Lies, Onward
<1> HIDE DEF at, a, L
<1>4. \A i \in 0..L : at[i] = IF i = 0 THEN {a} ELSE Onward(at[i - 1], path[i])
  BY <1>2 DEF Lies
<1> DEFINE wrong == {i \in 0..L : v[i] \notin at[i]}
<1>5. ASSUME wrong # {} PROVE FALSE
  <2>1. PICK i \in wrong : \A j \in wrong : i <= j
    <3>1. wrong \in SUBSET Nat
      OBVIOUS
    <3> HIDE DEF wrong
    <3> QED
      BY <1>5, <3>1, SmallestOf
  <2>2. i # 0
    BY <1>1, <1>4 DEF a
  <2>3. i \in 1..L /\ i - 1 \in 0..L /\ ~(i <= i - 1)
    BY <1>1, <2>2
  <2>4. v[i - 1] \in at[i - 1]
    BY <2>1, <2>3
  <2>5. PICK e \in ActiveEdges :
            edge[e].from = v[i - 1] /\ edge[e].to = v[i] /\ edge[e].name = path[i]
    BY <2>3 DEF Visits, L
  <2>6. v[i] \in at[i]
    BY <1>4, <2>2, <2>3, <2>4, <2>5 DEF Onward
  <2> QED
    BY <2>6
<1>6. v[L] \in at[L]
  BY <1>1, <1>5
<1> QED
  BY <1>3, <1>6 DEF L, a

LEMMA VisitsWalk ==
  ASSUME TypeOK, Distinct(edge), NEW path \in Seq(Names), NEW v, Visits(v, path)
  PROVE  Walk(v[0], path) = v[Len(path)]
<1>1. PICK f : Steps(v[0], path, Len(path), f) /\ Walk(v[0], path) = f[Len(path)]
  BY WalkSteps
<1> DEFINE L == Len(path)
           wrong == {i \in 0..L : v[i] # f[i]}
<1>2. L \in Nat /\ f[0] = v[0] /\ \A i \in 1..L : f[i] = Lookup(f[i - 1], path[i])
  BY <1>1, StepsAt
<1> HIDE DEF L
<1>3. ASSUME wrong # {} PROVE FALSE
  <2>1. PICK i \in wrong : \A j \in wrong : i <= j
    <3>1. wrong \in SUBSET Nat
      OBVIOUS
    <3> HIDE DEF wrong
    <3> QED
      BY <1>3, <3>1, SmallestOf
  <2>2. i \in 1..L /\ i - 1 \in 0..L /\ ~(i <= i - 1)
    BY <1>2
  <2>3. v[i - 1] = f[i - 1]
    BY <2>1, <2>2
  <2>4. PICK e \in ActiveEdges :
            edge[e].from = v[i - 1] /\ edge[e].to = v[i] /\ edge[e].name = path[i]
    BY <2>2 DEF Visits, L
  <2>5. Lookup(v[i - 1], path[i]) = v[i]
    BY <2>4, LookupOnly
  <2> QED
    BY <1>2, <2>2, <2>3, <2>5
<1>4. v[L] = f[L]
  BY <1>2, <1>3
<1> QED
  BY <1>1, <1>4 DEF L

(* Where a climb first meets a, 0 if it does not. *)
First(s, a) ==
    LET I == {i \in 1..Len(s) : s[i] = a} IN IF I # {} THEN Min(I) ELSE 0

LEMMA FirstIs ==
  ASSUME NEW s, Len(s) \in Nat, NEW a
  PROVE  IF \E i \in 1..Len(s) : s[i] = a
         THEN First(s, a) \in 1..Len(s) /\ s[First(s, a)] = a
         ELSE First(s, a) = 0
<1> DEFINE I == {i \in 1..Len(s) : s[i] = a}
<1>1. CASE I = {}
  BY <1>1 DEF First
<1>2. CASE I # {}
  <2>1. First(s, a) = CHOOSE x \in I : \A y \in I : x =< y
    BY <1>2 DEF First, Min
  <2>2. \E x \in I : \A y \in I : x =< y
    <3>1. I \in SUBSET Nat
      OBVIOUS
    <3> HIDE DEF I
    <3> QED
      BY <1>2, <3>1, SmallestOf
  <2>3. First(s, a) \in I
    <3> HIDE DEF I
    <3> QED
      BY <2>1, <2>2
  <2> QED
    BY <2>3
<1> QED
  BY <1>1, <1>2

LEMMA ReverseIs ==
  ASSUME NEW k \in Nat, NEW f \in [1..k -> Names]
  PROVE  /\ Reverse(f) \in Seq(Names) /\ Len(Reverse(f)) = k
         /\ \A i \in 1..k : Reverse(f)[i] = f[(k - i) + 1]
<1>1. Len(f) = k
  OBVIOUS
<1>2. Reverse(f) = [i \in 1..k |-> f[(k - i) + 1]]
  BY <1>1 DEF Reverse
<1>3. \A i \in 1..k : (k - i) + 1 \in 1..k
  OBVIOUS
<1>4. \A i \in 1..k : f[(k - i) + 1] \in Names
  BY <1>3
<1> QED
  BY <1>2, <1>4

(* A node below a, which is in reach of the root, is told a path that leads to *)
(* it, or none when its newest placement is outside.                           *)
LEMMA PathLeadsBack ==
  ASSUME TypeOK, Tree(node, edge), ~SameNames => Distinct(edge),
         Root \in DOMAIN node, NEW a \in Subtree(Root), NEW n \in Subtree(a)
  PROVE  LeadsBack(a, n, PathOf(a, n))
<1> DEFINE s == Upward(n)
           b == First(s, a)
           path == PathOf(a, n)
           names == [i \in 1..(b - 1) |-> EffectiveName(s[i])]
<1>1. a \in DOMAIN node /\ n \in DOMAIN node
  BY SubtreeIn
<1>2. Climbs(n, s)
  BY <1>1, UpwardClimbs
<1>3. path = IF b - 1 < 0 \/ Last(s) # Root THEN NoPath ELSE Reverse(names)
  BY DEF PathOf, SelectInSeq, First
<1> HIDE DEF s, path, b, names
<1>4. /\ s \in Seq(Nat) /\ s # <<>> /\ s[1] = n /\ Top(s[Len(s)]) /\ Len(s) \in Nat \ {0}
      /\ \A i \in 1..(Len(s) - 1) : ~Top(s[i]) /\ s[i + 1] = Over(s[i])
  <2>1. s \in Seq(Nat) /\ s # <<>>
    BY <1>2 DEF Climbs
  <2>2. Len(s) \in Nat \ {0}
    BY <2>1
  <2> QED
    BY <1>2, <2>1, <2>2 DEF Climbs
<1>5. IF \E i \in 1..Len(s) : s[i] = a THEN b \in 1..Len(s) /\ s[b] = a ELSE b = 0
  BY <1>4, FirstIs DEF b
<1>6. CASE b = 0 \/ Last(s) # Root
  <2>1. path = NoPath
    BY <1>3, <1>5, <1>6
  <2>2. ASSUME Newest(n) # 0, Over(n) \in Subtree(a) PROVE FALSE
    <3>1. Newest(n) \in ActiveEdges /\ edge[Newest(n)].to = n /\ edge[Newest(n)].from = Over(n)
      BY <2>2, NewestIs DEF Over
    <3>2. n # Root /\ Holder(node, Over(n))
      BY <3>1 DEF Tree, Active, ActiveEdges
    <3>3. ~Top(n)
      BY <2>2, <3>2 DEF Top
    <3>4. 1 \in 1..(Len(s) - 1) /\ 1 + 1 \in 1..Len(s)
      <4>1. Len(s) # 1 /\ Len(s) \in Nat \ {0}
        BY <1>4, <3>3
      <4> DEFINE L == Len(s)
      <4> HIDE DEF L
      <4>2. L # 1 /\ L \in Nat \ {0}
        BY <4>1 DEF L
      <4>3. 1 \in 1..(L - 1) /\ 1 + 1 \in 1..L
        BY <4>2
      <4> QED
        BY <4>3 DEF L
    <3>5. s[1 + 1] = Over(n)
      BY <1>4, <3>4
    <3>6. Over(n) \in Subtree(Root)
      BY <2>2, SubtreeIn
    <3>7. \E j \in 1..Len(s) : s[j] = a
      BY <1>1, <1>2, <2>2, <3>2, <3>4, <3>5, ClimbMeets
    <3>8. Last(s) = Root
      BY <1>2, <3>2, <3>4, <3>5, <3>6, ClimbMeets
    <3> QED
      BY <1>5, <1>6, <3>7, <3>8
  <2> QED
    BY <2>1, <2>2 DEF LeadsBack, Over, path
<1>7. CASE ~(b = 0 \/ Last(s) # Root)
  <2> DEFINE k == b - 1
             v == [i \in 0..k |-> s[b - i]]
  <2>1. b \in 1..Len(s) /\ s[b] = a /\ b \in Nat \ {0} /\ b <= Len(s) /\ k \in Nat /\ ~(k < 0)
    BY <1>4, <1>5, <1>7
  <2>2. path = Reverse(names)
    BY <1>3, <1>7, <2>1
  <2>3. ASSUME NEW i \in 1..k
        PROVE  /\ Newest(s[i]) \in ActiveEdges /\ edge[Newest(s[i])].to = s[i]
               /\ edge[Newest(s[i])].from = s[i + 1]
               /\ edge[Newest(s[i])].name = EffectiveName(s[i])
               /\ EffectiveName(s[i]) \in Names
    <3>1. i \in 1..(Len(s) - 1)
      BY <1>4, <2>1
    <3>2. Newest(s[i]) # 0 /\ s[i + 1] = Over(s[i])
      BY <1>4, <3>1 DEF Top
    <3>3. Newest(s[i]) \in ActiveEdges /\ edge[Newest(s[i])].to = s[i]
      BY <3>2, NewestIs
    <3>4. edge[Newest(s[i])].name \in Names
      BY <3>3, RowFields DEF ActiveEdges
    <3> QED
      BY <3>2, <3>3, <3>4 DEF Over, EffectiveName
  <2>4. names \in [1..k -> Names] /\ \A i \in 1..k : names[i] = EffectiveName(s[i])
    BY <2>3 DEF names
  <2>5. path \in Seq(Names) /\ Len(path) = k
        /\ \A i \in 1..k : path[i] = names[(k - i) + 1]
    BY <2>1, <2>2, <2>4, ReverseIs
  <2>6. \A i \in 0..k : v[i] = s[b - i]
    OBVIOUS
  <2>7. v[0] = a /\ v[k] = n
    BY <1>4, <2>1, <2>6
  <2>8. Visits(v, path)
    <3> SUFFICES ASSUME NEW i \in 1..k
                 PROVE  \E e \in ActiveEdges : /\ edge[e].from = v[i - 1] /\ edge[e].to = v[i]
                                               /\ edge[e].name = path[i]
      BY <2>5 DEF Visits
    <3> DEFINE j == (k - i) + 1
    <3>1. j \in 1..k /\ b - i = j /\ b - (i - 1) = j + 1 /\ i \in 0..k /\ i - 1 \in 0..k
      BY SMTT(30), <2>1
    <3>2. v[i] = s[j] /\ v[i - 1] = s[j + 1] /\ path[i] = EffectiveName(s[j])
      BY <2>4, <2>5, <2>6, <3>1
    <3> HIDE DEF j, v, k
    <3> QED
      BY <2>3, <3>1, <3>2
  <2>9. path # NoPath
    <3>1. NoPath = <<RootName>> /\ RootName \notin Names
      BY NameAssumption DEF NoPath
    <3>2. ASSUME path = NoPath PROVE FALSE
      <4>1. path = <<RootName>> /\ path \in Seq(Names)
        <5>1. path = NoPath /\ path \in Seq(Names)
          BY <2>5, <3>2
        <5> QED
          BY <5>1 DEF NoPath
      <4>2. Len(<<RootName>>) = 1 /\ <<RootName>>[1] = RootName
        OBVIOUS
      <4>3. 1 \in 1..Len(path) /\ path[1] = RootName
        BY <4>1, <4>2
      <4>4. \A q \in Seq(Names) : \A i \in 1..Len(q) : q[i] \in Names
        OBVIOUS
      <4> QED
        BY <3>1, <4>1, <4>3, <4>4
    <3> QED
      BY <3>2
  <2> HIDE DEF v, k
  <2>10. n \in Along(a, path)
    BY <2>5, <2>7, <2>8, VisitsLie
  <2>11. ~SameNames => Walk(a, path) = n
    BY <2>5, <2>7, <2>8, VisitsWalk
  <2> QED
    BY <2>9, <2>10, <2>11 DEF LeadsBack, path
<1> QED
  BY <1>6, <1>7

---------------------------------------------------------------------------
(* The names of callers who take no name twice                             *)

(* A container has the name of its placement. *)
Titled(N, E) == \A e \in Active(E) : Holder(N, E[e].to) => N[E[e].to].name = E[e].name

Neat(N, E, B) == Distinct(E) /\ Titled(N, E) /\ \A b \in DOMAIN B : Tidy(B[b])

(* No placement under p has the name. *)
Spare(E, p, name) == \A e \in Active(E) : E[e].from = p => E[e].name # name

LEMMA SpareIs ==
  ASSUME TypeOK, NEW p, NEW name, Lookup(p, name) = 0
  PROVE  Spare(edge, p, name)
BY LookupSome DEF Spare, Active, ActiveEdges

LEMMA ArchivedNames ==
  ASSUME TypeOK, NEW S
  PROVE  /\ \A e \in Active(Archive(S)) :
              /\ e \in Active(edge) \ S /\ Archive(S)[e].from = edge[e].from
              /\ Archive(S)[e].to = edge[e].to /\ Archive(S)[e].name = edge[e].name
         /\ Distinct(edge) => Distinct(Archive(S))
         /\ \A N : Titled(N, edge) => Titled(N, Archive(S))
         /\ \A p, name : Spare(edge, p, name) => Spare(Archive(S), p, name)
<1>1. Active(Archive(S)) = Active(edge) \ S
  BY ArchiveIs DEF Active, ActiveEdges
<1>2. ASSUME NEW e \in DOMAIN edge
      PROVE  /\ Archive(S)[e].from = edge[e].from /\ Archive(S)[e].to = edge[e].to
             /\ Archive(S)[e].name = edge[e].name
  <2>1. edge[e] \in EdgeRow
    BY RowFields
  <2>2. Archive(S)[e] = [edge[e] EXCEPT !.archived = @ \/ e \in S]
    BY DEF Archive
  <2> QED
    BY <2>1, <2>2 DEF EdgeRow
<1>3. \A e \in Active(Archive(S)) :
        /\ e \in Active(edge) \ S /\ Archive(S)[e].from = edge[e].from
        /\ Archive(S)[e].to = edge[e].to /\ Archive(S)[e].name = edge[e].name
  BY <1>1, <1>2, ActiveIn
<1> QED
  BY <1>3 DEF Distinct, Titled, Spare

LEMMA PlusNames ==
  ASSUME NEW E \in Seq(EdgeRow), NEW p \in Nat, NEW n \in Nat, NEW name \in Names, NEW N,
         Distinct(E), Titled(N, E), Spare(E, p, name), Holder(N, n) => N[n].name = name
  PROVE  Distinct(Plus(E, p, n, name)) /\ Titled(N, Plus(E, p, n, name))
<1> DEFINE F == Plus(E, p, n, name)
           k == Len(E) + 1
<1>1. Adds(E, F, k, p, n)
  BY PlusIs
<1>2. F[k].name = name
  <2> DEFINE row == [from |-> p, to |-> n, name |-> name, archived |-> FALSE]
  <2>1. row \in EdgeRow /\ row.name = name
    BY DEF EdgeRow
  <2> HIDE DEF row
  <2>2. F = Append(E, row)
    BY DEF Plus, row
  <2>3. F[Len(E) + 1] = row
    BY <2>1, <2>2, AppendProperties
  <2> QED
    BY <2>1, <2>3
<1> HIDE DEF F, k
<1>3. /\ Active(F) = Active(E) \cup {k} /\ F[k].from = p /\ F[k].to = n
      /\ \A e \in Active(E) : F[e] = E[e]
  BY <1>1, ActiveIn DEF Adds
<1>4. Distinct(F)
  <2> SUFFICES ASSUME NEW e \in Active(F), NEW f \in Active(F), F[e].from = F[f].from,
                      F[e].name = F[f].name
               PROVE  e = f
    BY DEF Distinct
  <2> QED
    BY <1>2, <1>3 DEF Distinct, Spare
<1>5. Titled(N, F)
  BY <1>2, <1>3 DEF Titled
<1> QED
  BY <1>4, <1>5 DEF F

LEMMA GraftNames ==
  ASSUME NEW N, NEW E \in Seq(EdgeRow), NEW p \in DOMAIN N, NEW rows, RowsOk(rows), NEW M, NEW F,
         N \in Seq(NodeRow), Ends(N, E), Grafts(N, E, p, rows, M, F),
         Tidy(rows), Distinct(E), Titled(N, E), Spare(E, p, rows[1].n)
  PROVE  Distinct(F) /\ Titled(M, F)
<1> DEFINE w == Len(N)
           old(e) == e \in Active(E) /\ F[e] = E[e] /\ E[e].to \in DOMAIN N /\ E[e].from \in DOMAIN N
           new(e, i) == /\ i \in DOMAIN rows /\ e = Len(E) + i /\ F[e].to = w + i
                        /\ F[e].name = rows[i].n
                        /\ F[e].from = IF rows[i].p = 0 THEN p ELSE w + rows[i].p
<1>1. p \in Nat /\ w \in Nat /\ DOMAIN N = 1..w
  OBVIOUS
<1>2. \A e \in Active(F) : old(e) \/ \E i : new(e, i)
  BY GraftedEdges
<1>3. /\ \A n \in DOMAIN N : M[n] = N[n]
      /\ \A i \in DOMAIN rows : M[w + i].name = rows[i].n
  BY DEF Grafts
<1>4. ASSUME NEW e, NEW i, new(e, i)
      PROVE  /\ i \in DOMAIN rows /\ rows[i].p \in Nat
             /\ IF rows[i].p = 0 THEN F[e].from = p ELSE F[e].from > w
  <2>1. i \in DOMAIN rows /\ rows[i].p \in Nat
    BY <1>4, RowTypes
  <2> QED
    BY <1>1, <1>4, <2>1
<1>5. ASSUME NEW e, NEW i, NEW f, NEW j, new(e, i), new(f, j), F[e].from = F[f].from,
             F[e].name = F[f].name
      PROVE  e = f
  <2>1. /\ i \in DOMAIN rows /\ rows[i].p \in Nat /\ j \in DOMAIN rows /\ rows[j].p \in Nat
        /\ (rows[i].p = 0) <=> (rows[j].p = 0)
    <3>1. /\ i \in DOMAIN rows /\ rows[i].p \in Nat
          /\ IF rows[i].p = 0 THEN F[e].from = p ELSE F[e].from > w
      BY <1>4, <1>5
    <3>2. /\ j \in DOMAIN rows /\ rows[j].p \in Nat
          /\ IF rows[j].p = 0 THEN F[f].from = p ELSE F[f].from > w
      BY <1>4, <1>5
    <3>3. p <= w /\ F[e].from = F[f].from
      BY <1>1, <1>5
    <3> HIDE DEF w, new
    <3> QED
      BY <1>1, <3>1, <3>2, <3>3
  <2>2. rows[i].p = rows[j].p /\ rows[i].n = rows[j].n
    BY <1>1, <1>5, <2>1
  <2>3. i = j
    BY <2>1, <2>2 DEF Tidy
  <2> QED
    BY <1>5, <2>3
<1>6. ASSUME NEW e, NEW f, NEW j, old(e), new(f, j), F[e].from = F[f].from, F[e].name = F[f].name
      PROVE  FALSE
  <2>1. F[e].from \in Nat /\ F[e].from <= w /\ e \in Active(E) /\ F[e] = E[e]
    BY <1>1, <1>6
  <2>2. j \in DOMAIN rows /\ rows[j].p = 0 /\ F[f].from = p
    BY <1>1, <1>4, <1>6, <2>1
  <2>3. j = 1
    BY <2>2 DEF Tidy
  <2>4. F[e].from = p /\ F[e].name = rows[1].n
    BY <1>6, <2>2, <2>3
  <2> HIDE DEF old, new
  <2> QED
    BY <2>1, <2>4 DEF Spare
<1>7. Distinct(F)
  <2> SUFFICES ASSUME NEW e \in Active(F), NEW f \in Active(F), F[e].from = F[f].from,
                      F[e].name = F[f].name
               PROVE  e = f
    BY DEF Distinct
  <2>1. old(e) /\ old(f) => e = f
    BY DEF Distinct
  <2> HIDE DEF old, new
  <2> QED
    BY <1>2, <1>5, <1>6, <2>1
<1>8. Titled(M, F)
  <2> SUFFICES ASSUME NEW e \in Active(F), Holder(M, F[e].to)
               PROVE  M[F[e].to].name = F[e].name
    BY DEF Titled
  <2>1. CASE old(e)
    BY <1>3, <2>1 DEF Titled, Holder
  <2>2. ASSUME NEW i, new(e, i) PROVE M[F[e].to].name = F[e].name
    BY <1>3, <2>2
  <2> HIDE DEF old, new
  <2> QED
    BY <1>2, <2>1, <2>2
<1> QED
  BY <1>7, <1>8

LEMMA GraftNeat ==
  ASSUME IInv, NEW p \in DOMAIN node, NEW rows, RowsOk(rows), Tidy(rows), NEW E,
         Prunes(edge, E), Graft(p, rows, E), Distinct(E), Titled(node, E),
         Spare(E, p, rows[1].n)
  PROVE  Distinct(edge') /\ Titled(node', edge')
<1>1. /\ E \in Seq(EdgeRow) /\ p \in Nat /\ node \in Seq(NodeRow) /\ Ends(node, E) /\ TypeOK
  BY DEF Prunes, IInv, TypeOK, Ends
<1>2. Grafts(node, E, p, rows, node', edge')
  BY <1>1, GraftIs
<1> QED
  BY <1>1, <1>2, GraftNames

LEMMA OneRowTidy ==
  ASSUME NEW row
  PROVE  Tidy(<<row>>) /\ <<row>>[1] = row
BY DEF Tidy

LEMMA CreateNeat ==
  ASSUME IInv, ~SameNames, Neat(node, edge, blob), NEW m \in Mounts, NEW path \in Paths,
         NEW t \in Types, Create(m, path, t)
  PROVE  Neat(node', edge', blob')
<1> DEFINE parent == ResolveParent(m, path)
           row == [p |-> 0, t |-> t, n |-> Last(path), d |-> 0]
<1>1. parent # 0 /\ Graft(parent, <<row>>, edge) /\ blob' = blob /\ Lookup(parent, row.n) = 0
  BY DEF Create, Free
<1>2. parent \in DOMAIN node /\ Last(path) \in Names
  BY <1>1, ParentIs
<1>3. RowsOk(<<row>>)
  BY <1>2, OneRow
<1>4. Prunes(edge, edge) /\ TypeOK
  BY PrunesSelf DEF IInv, TypeOK
<1> HIDE DEF row, parent
<1>5. Tidy(<<row>>) /\ <<row>>[1] = row
  BY OneRowTidy
<1>6. Spare(edge, parent, <<row>>[1].n)
  BY <1>1, <1>4, <1>5, SpareIs
<1>7. Distinct(edge') /\ Titled(node', edge')
  BY <1>1, <1>2, <1>3, <1>4, <1>5, <1>6, GraftNeat DEF Neat
<1> QED
  BY <1>1, <1>7 DEF Neat

LEMMA CopyNeat ==
  ASSUME IInv, ~SameNames, Neat(node, edge, blob), NEW m \in Mounts, NEW src \in Paths,
         NEW dst \in Paths, Copy(m, src, dst)
  PROVE  Neat(node', edge', blob')
<1> DEFINE n == Resolve(m, src)
           parent == ResolveParent(m, dst)
           rows == RowsOf(n, Last(dst))
<1>1. n # 0 /\ parent # 0 /\ Graft(parent, rows, edge) /\ blob' = blob
      /\ Lookup(parent, Last(dst)) = 0
  BY DEF Copy, Free
<1>2. parent \in DOMAIN node /\ Last(dst) \in Names
  BY <1>1, ParentIs
<1>3. n \in DOMAIN node
  BY <1>1, ResolvedIs
<1>4. RowsOk(rows) /\ Tidy(rows) /\ rows[1].n = Last(dst)
  BY <1>2, <1>3, RowsOfOk DEF IInv, Neat
<1>5. Prunes(edge, edge) /\ TypeOK
  BY PrunesSelf DEF IInv, TypeOK
<1> HIDE DEF rows, parent
<1>6. Spare(edge, parent, rows[1].n)
  BY <1>1, <1>4, <1>5, SpareIs
<1>7. Distinct(edge') /\ Titled(node', edge')
  BY <1>1, <1>2, <1>4, <1>5, <1>6, GraftNeat DEF Neat
<1> QED
  BY <1>1, <1>7 DEF Neat

(* The packed entry takes a name that was its container's.                    *)
LEMMA PackNeat ==
  ASSUME IInv, Neat(node, edge, blob), NEW m \in Mounts, NEW path \in Paths, Pack(m, path)
  PROVE  Neat(node', edge', blob')
<1> DEFINE n == Resolve(m, path)
           name == node[n].name
           row == [p |-> 0, t |-> "leaf", n |-> name, d |-> Len(blob) + 1]
           E == Archive(SubtreePlacements(n))
           more == RowsOf(n, name)
<1>1. n # 0 /\ Holder(node, n) /\ blob' = Append(blob, more)
  BY DEF Pack, Encode, IsContainer, Holder
<1>2. PICK e \in PlacementsOf(n) : Graft(edge[e].from, <<row>>, E)
  BY DEF Pack
<1>3. /\ n # Root /\ n \in DOMAIN node /\ edge[e].from \in DOMAIN node
      /\ e \in Active(edge) /\ edge[e].to = n
  BY PlacementIs DEF PlacementsOf, Active, ActiveEdges
<1>4. name \in Names /\ Len(blob) + 1 \in Nat /\ TypeOK /\ Tree(node, edge)
  BY <1>3 DEF IInv, Named, TypeOK
<1>5. RowsOk(<<row>>)
  BY <1>4, OneRow DEF Types
<1>6. Tidy(more) /\ more \in Seq(PackRow)
  BY <1>3, <1>4, RowsOfOk DEF Neat, RowsOk
<1>7. Prunes(edge, E)
  BY <1>4, ArchivePrunes
<1>8. row.n = name /\ edge[e].name = name
  BY <1>1, <1>3 DEF Neat, Titled
<1>9. Distinct(E) /\ Titled(node, E)
  BY <1>4, ArchivedNames DEF Neat
<1>10. Spare(E, edge[e].from, name)
  <2> SUFFICES ASSUME NEW f \in Active(E), E[f].from = edge[e].from, E[f].name = name PROVE FALSE
    BY DEF Spare
  <2>1. f \in Active(edge) \ SubtreePlacements(n) /\ edge[f].from = edge[e].from /\ edge[f].name = name
    BY <1>4, ArchivedNames
  <2>2. f = e
    BY <1>3, <1>8, <2>1 DEF Neat, Distinct
  <2>3. e \in SubtreePlacements(n)
    BY <1>3, <1>4, SubtreeIn DEF SubtreePlacements, Active, ActiveEdges
  <2> QED
    BY <2>1, <2>2, <2>3
<1> HIDE DEF row, n, name, E, more
<1>11. Tidy(<<row>>) /\ <<row>>[1] = row
  BY OneRowTidy
<1>12. Distinct(edge') /\ Titled(node', edge')
  BY <1>2, <1>3, <1>5, <1>7, <1>8, <1>9, <1>10, <1>11, GraftNeat
<1>13. \A b \in DOMAIN blob' : Tidy(blob'[b])
  <2> DEFINE S == Seq(PackRow)
  <2>1. blob \in Seq(S) /\ more \in S
    BY <1>4, <1>6 DEF TypeOK
  <2> HIDE DEF S
  <2>2. /\ Len(Append(blob, more)) = Len(blob) + 1
        /\ \A i \in 1..Len(blob) : Append(blob, more)[i] = blob[i]
        /\ Append(blob, more)[Len(blob) + 1] = more
        /\ Append(blob, more) \in Seq(S)
    BY <2>1, AppendProperties
  <2>3. DOMAIN blob = 1..Len(blob) /\ Len(blob) \in Nat /\ DOMAIN blob' = 1..(Len(blob) + 1)
    BY <1>1, <2>1, <2>2
  <2>4. \A b \in DOMAIN blob' : blob'[b] = more \/ (b \in DOMAIN blob /\ blob'[b] = blob[b])
    BY <1>1, <2>2, <2>3
  <2> QED
    BY <1>6, <2>4 DEF Neat
<1> QED
  BY <1>12, <1>13 DEF Neat

LEMMA UnpackNeat ==
  ASSUME IInv, ~SameNames, Neat(node, edge, blob), NEW m \in Mounts, NEW path \in Paths,
         Unpack(m, path)
  PROVE  Neat(node', edge', blob')
<1> DEFINE n == Resolve(m, path)
<1>1. PICK rows \in Decode(node[n].data), e \in PlacementsOf(n) :
         /\ \A x \in EdgesFrom(edge[e].from) \ {e} : edge[x].name # rows[1].n
         /\ Graft(edge[e].from, rows, Archive({e}))
  BY DEF Unpack
<1>2. edge[e].from \in DOMAIN node
  BY PlacementIs
<1>3. RowsOk(rows) /\ Tidy(rows)
  BY DEF Decode, IInv, Packed, Neat
<1>4. Prunes(edge, Archive({e})) /\ TypeOK
  BY ArchivePrunes DEF IInv
<1>5. blob' = blob
  BY DEF Unpack
<1>6. Distinct(Archive({e})) /\ Titled(node, Archive({e}))
  BY <1>4, ArchivedNames DEF Neat
<1>7. Spare(Archive({e}), edge[e].from, rows[1].n)
  BY <1>1, <1>4, ArchivedNames DEF Spare, EdgesFrom, Active, ActiveEdges
<1>8. Distinct(edge') /\ Titled(node', edge')
  BY <1>1, <1>2, <1>3, <1>4, <1>6, <1>7, GraftNeat
<1> QED
  BY <1>5, <1>8 DEF Neat

(* What Renamed does to names. *)
LEMMA RenamedIs ==
  ASSUME IInv, NEW n \in DOMAIN node, NEW name \in Names, NEW sole, node' = Renamed(n, name, sole)
  PROVE  /\ \A x : Holder(node', x) /\ x \in DOMAIN node => Holder(node, x)
         /\ \A x \in DOMAIN node : x # n => node'[x] = node[x]
         /\ sole => node'[n].name = name
<1>1. CASE ~sole
  BY <1>1 DEF Renamed
<1>2. CASE sole
  <2>1. node' = [node EXCEPT ![n].name = name]
    BY <1>2 DEF Renamed
  <2>2. node[n] \in NodeRow
    BY DEF IInv, TypeOK
  <2>3. node'[n].name = name /\ node'[n].type = node[n].type
    BY <2>1, <2>2 DEF NodeRow
  <2>4. \A x \in DOMAIN node : x # n => node'[x] = node[x]
    BY <2>1
  <2> QED
    BY <2>3, <2>4 DEF Holder
<1> QED
  BY <1>1, <1>2

(* Renaming: a container has one placement, the one the path walked, and so   *)
(* takes the name too.                                                        *)
LEMMA RenameNeat ==
  ASSUME IInv, ~SameNames, Neat(node, edge, blob), NEW m \in Mounts, NEW path \in Paths,
         NEW name \in Names, Rename(m, path, name)
  PROVE  Neat(node', edge', blob')
<1> DEFINE parent == ResolveParent(m, path)
           n == Resolve(m, path)
           W == Walked(parent, n, Last(path))
           sole == Cardinality(PlacementsOf(n)) = 1
<1>1. /\ parent # 0 /\ n # 0 /\ blob' = blob /\ Lookup(parent, name) = 0
      /\ edge' = [e \in DOMAIN edge |-> IF e \in W THEN [edge[e] EXCEPT !.name = name] ELSE edge[e]]
      /\ node' = Renamed(n, name, sole)
  BY DEF Rename, Free
<1>2. n \in DOMAIN node /\ TypeOK /\ Tree(node, edge)
  BY <1>1, ResolvedIs DEF IInv
<1>3. W # {}
  BY <1>1, ParentIs
<1>4. Holder(node, n) => PlacementsOf(n) = W
  BY <1>3, WalkedIsAll
<1>5. \A e \in W : e \in Active(edge) /\ edge[e].from = parent /\ edge[e].to = n /\ edge[e].name = Last(path)
  BY DEF Walked, PlacementsOf, Active, ActiveEdges
<1>6. Spare(edge, parent, name)
  BY <1>1, <1>2, SpareIs
<1>7. Holder(node, n) => sole
  <2> SUFFICES ASSUME Holder(node, n) PROVE sole
    OBVIOUS
  <2>1. PICK e \in W : TRUE
    BY <1>3
  <2>2. PlacementsOf(n) = {e}
    <3>1. \A f \in W : f = e
      BY <1>2, <1>5, <2>1 DEF Tree
    <3> QED
      BY <1>4, <2>1, <3>1
  <2> QED
    BY <2>2, FS_Singleton
<1>8. /\ \A x : Holder(node', x) /\ x \in DOMAIN node => Holder(node, x)
      /\ \A x \in DOMAIN node : x # n => node'[x] = node[x]
      /\ sole => node'[n].name = name
  BY <1>1, <1>2, RenamedIs
<1> HIDE DEF parent, n, W, sole
<1>9. /\ DOMAIN edge' = DOMAIN edge
      /\ \A e \in DOMAIN edge :
           /\ edge'[e].from = edge[e].from /\ edge'[e].to = edge[e].to
           /\ edge'[e].archived = edge[e].archived
           /\ edge'[e].name = IF e \in W THEN name ELSE edge[e].name
  <2>1. \A e \in DOMAIN edge : edge[e] \in EdgeRow
    BY <1>2, RowFields
  <2> QED
    BY <1>1, <2>1 DEF EdgeRow
<1>10. \A e \in Active(edge') :
         /\ e \in Active(edge) /\ e \in DOMAIN edge /\ edge[e].to \in DOMAIN node
         /\ edge'[e].from = edge[e].from /\ edge'[e].to = edge[e].to
         /\ edge'[e].name = IF e \in W THEN name ELSE edge[e].name
  BY <1>2, <1>9, RowFields DEF Active
<1>11. Distinct(edge')
  <2> SUFFICES ASSUME NEW e \in Active(edge'), NEW f \in Active(edge'),
                      edge'[e].from = edge'[f].from, edge'[e].name = edge'[f].name
               PROVE  e = f
    BY DEF Distinct
  <2>1. CASE e \in W /\ f \in W
    BY <1>5, <2>1 DEF Neat, Distinct
  <2>2. CASE e \notin W /\ f \notin W
    BY <1>10, <2>2 DEF Neat, Distinct
  <2>3. CASE e \in W /\ f \notin W
    BY <1>5, <1>6, <1>10, <2>3 DEF Spare
  <2>4. CASE e \notin W /\ f \in W
    BY <1>5, <1>6, <1>10, <2>4 DEF Spare
  <2> QED
    BY <2>1, <2>2, <2>3, <2>4
<1>12. Titled(node', edge')
  <2> SUFFICES ASSUME NEW e \in Active(edge'), Holder(node', edge'[e].to)
               PROVE  node'[edge'[e].to].name = edge'[e].name
    BY DEF Titled
  <2>1. e \in Active(edge) /\ Holder(node, edge[e].to) /\ edge[e].to \in DOMAIN node
        /\ edge'[e].to = edge[e].to
    BY <1>8, <1>10
  <2>2. CASE edge[e].to = n
    <3>1. e \in W /\ sole
      BY <1>4, <1>7, <2>1, <2>2 DEF PlacementsOf, Active, ActiveEdges
    <3> QED
      BY <1>8, <1>10, <2>1, <2>2, <3>1
  <2>3. CASE edge[e].to # n
    <3>1. e \notin W
      BY <1>5, <2>3
    <3> QED
      BY <1>8, <1>10, <2>1, <2>3, <3>1 DEF Neat, Titled
  <2> QED
    BY <2>2, <2>3
<1> QED
  BY <1>1, <1>11, <1>12 DEF Neat

LEMMA RemoveNeat ==
  ASSUME IInv, Neat(node, edge, blob), NEW m \in Mounts, NEW path \in Paths,
         RemoveOne(m, path) \/ RemoveRecursive(m, path)
  PROVE  Neat(node', edge', blob')
<1>1. PICK S : edge' = Archive(S)
  BY DEF RemoveOne, RemoveRecursive
<1>2. node' = node /\ blob' = blob
  BY DEF RemoveOne, RemoveRecursive
<1> QED
  BY <1>1, <1>2, ArchivedNames DEF IInv, Neat

LEMMA LinkNeat ==
  ASSUME IInv, Neat(node, edge, blob), NEW m \in Mounts, NEW src \in Paths,
         NEW dst \in Paths, Link(m, src, dst)
  PROVE  Neat(node', edge', blob')
<1> DEFINE n == Resolve(m, src)
           p == ResolveParent(m, dst)
<1>1. /\ n # 0 /\ ~Holder(node, n) /\ p # 0 /\ UNCHANGED <<node, blob>>
      /\ Lookup(p, Last(dst)) = 0
      /\ edge' = Plus(edge, p, n, Last(dst))
  BY DEF Link, Plus, IsContainer, Holder
<1>2. TypeOK /\ edge \in Seq(EdgeRow) /\ n \in Nat /\ p \in Nat /\ Last(dst) \in Names
  BY <1>1, ResolvedIs, ParentIs, Anchored DEF IInv
<1> HIDE DEF n, p
<1>3. Spare(edge, p, Last(dst))
  BY <1>1, <1>2, SpareIs
<1>4. Distinct(edge') /\ Titled(node, edge')
  BY <1>1, <1>2, <1>3, PlusNames DEF Neat
<1> QED
  BY <1>1, <1>4 DEF Neat

LEMMA MoveNeat ==
  ASSUME IInv, ~SameNames, Neat(node, edge, blob), NEW m \in Mounts, NEW src \in Paths,
         NEW dst \in Paths, Move(m, src, dst)
  PROVE  Neat(node', edge', blob')
<1> DEFINE n == Resolve(m, src)
           from == ResolveParent(m, src)
           p == ResolveParent(m, dst)
           W == Walked(from, n, Last(src))
           E == Archive(W)
           sole == PlacementsOf(n) = W
<1>1. /\ n # 0 /\ from # 0 /\ p # 0 /\ blob' = blob /\ Lookup(p, Last(dst)) = 0
      /\ edge' = Plus(E, p, n, Last(dst))
      /\ node' = Renamed(n, Last(dst), sole)
  BY DEF Move, Plus, Free
<1>2. TypeOK /\ n \in DOMAIN node /\ n \in Nat /\ p \in Nat /\ Last(dst) \in Names
  BY <1>1, ResolvedIs, ParentIs, Anchored DEF IInv
<1>3. W # {}
  BY <1>1, ParentIs
<1>4. Holder(node, n) => sole
  BY <1>3, WalkedIsAll
<1>5. E \in Seq(EdgeRow)
  BY <1>2, ArchivePrunes DEF Prunes
<1>6. /\ \A x : Holder(node', x) /\ x \in DOMAIN node => Holder(node, x)
      /\ \A x \in DOMAIN node : x # n => node'[x] = node[x]
      /\ sole => node'[n].name = Last(dst)
  BY <1>1, <1>2, RenamedIs
<1>7. Distinct(E) /\ Spare(E, p, Last(dst))
  BY <1>1, <1>2, SpareIs, ArchivedNames DEF Neat
<1>8. Titled(node', E)
  <2> SUFFICES ASSUME NEW e \in Active(E), Holder(node', E[e].to)
               PROVE  node'[E[e].to].name = E[e].name
    BY DEF Titled
  <2>1. e \in Active(edge) \ W /\ E[e].to = edge[e].to /\ E[e].name = edge[e].name
    BY <1>2, ArchivedNames
  <2>2. edge[e].to \in DOMAIN node
    BY <1>2, <2>1, RowFields DEF Active
  <2>3. Holder(node, edge[e].to)
    BY <1>6, <2>1, <2>2
  <2>4. edge[e].to # n
    BY <1>4, <2>1, <2>3 DEF PlacementsOf, Active, ActiveEdges
  <2> QED
    BY <1>6, <2>1, <2>2, <2>3, <2>4 DEF Neat, Titled
<1> HIDE DEF n, p, E, sole
<1>9. Distinct(edge') /\ Titled(node', edge')
  BY <1>1, <1>2, <1>4, <1>5, <1>6, <1>7, <1>8, PlusNames
<1> QED
  BY <1>1, <1>9 DEF Neat

LEMMA EditNeat ==
  ASSUME IInv, ~SameNames, Neat(node, edge, blob), NEW m \in Mounts, Edit(m)
  PROVE  Neat(node', edge', blob')
<1>1. PICK path \in Paths :
        \/ \E t \in Types : Create(m, path, t)
        \/ \E name \in Names : Rename(m, path, name)
        \/ RemoveOne(m, path)
        \/ RemoveRecursive(m, path)
        \/ Pack(m, path)
        \/ Unpack(m, path)
        \/ \E dst \in Paths : Link(m, path, dst) \/ Move(m, path, dst) \/ Copy(m, path, dst)
  BY DEF Edit
<1>2. CASE \E t \in Types : Create(m, path, t)
  BY <1>2, CreateNeat
<1>3. CASE \E name \in Names : Rename(m, path, name)
  BY <1>3, RenameNeat
<1>4. CASE RemoveOne(m, path) \/ RemoveRecursive(m, path)
  BY <1>4, RemoveNeat
<1>5. CASE Pack(m, path)
  BY <1>5, PackNeat
<1>6. CASE Unpack(m, path)
  BY <1>6, UnpackNeat
<1>7. ASSUME NEW dst \in Paths, Link(m, path, dst) PROVE Neat(node', edge', blob')
  BY <1>7, LinkNeat
<1>8. ASSUME NEW dst \in Paths, Move(m, path, dst) PROVE Neat(node', edge', blob')
  BY <1>8, MoveNeat
<1>9. ASSUME NEW dst \in Paths, Copy(m, path, dst) PROVE Neat(node', edge', blob')
  BY <1>9, CopyNeat
<1> QED
  BY <1>1, <1>2, <1>3, <1>4, <1>5, <1>6, <1>7, <1>8, <1>9

---------------------------------------------------------------------------
(* Anchors stay within reach of the root                                   *)

(* Callers who mount the root, or who neither share subtrees nor remove, pack  *)
(* or unpack their own anchor.                                                *)
Steady == \A h \in Habits : h.anchors \subseteq {<<>>} \/ (~h.overlap /\ ~h.anchorOps)

Attached == \A m \in Mounts : anchor[m] # 0 => anchor[m] \in Subtree(Root)

(* Every placement of E is one of F. *)
Survives(E, F) == \A e \in Active(E) : e \in Active(F) /\ F[e].from = E[e].from /\ F[e].to = E[e].to

(* Every placement but those of the nodes in X is one of F. *)
Spares(E, F, X) ==
    \A e \in Active(E) :
        E[e].to \in X \/ (e \in Active(F) /\ F[e].from = E[e].from /\ F[e].to = E[e].to)

LEMMA ReachKept ==
  ASSUME NEW E \in Seq(EdgeRow), NEW F \in Seq(EdgeRow), NEW r \in Nat, NEW X \in SUBSET Nat,
         Closed(E, X), Spares(E, F, X)
  PROVE  Reach(E, r) \subseteq Reach(F, r) \cup X
<1> DEFINE S == Reach(F, r) \cup X
<1>1. S \in SUBSET Nat /\ r \in S
  BY ReachLeast
<1>2. ASSUME NEW e \in Active(E), E[e].from \in S PROVE E[e].to \in S
  <2>1. CASE E[e].from \in X
    BY <2>1 DEF Closed
  <2>2. CASE E[e].to \notin X /\ E[e].from \notin X
    <3>1. e \in Active(F) /\ F[e].from = E[e].from /\ F[e].to = E[e].to
      BY <2>2 DEF Spares
    <3>2. E[e].from \in Reach(F, r)
      BY <1>2, <2>2
    <3> QED
      BY <3>1, <3>2, ReachLeast DEF Closed
  <2> QED
    BY <2>1, <2>2
<1> HIDE DEF S
<1>3. Closed(E, S)
  BY <1>2 DEF Closed
<1>4. Reach(E, r) \subseteq S
  BY <1>1, <1>3, ReachLeast
<1> QED
  BY <1>4 DEF S

LEMMA GraftSurvives ==
  ASSUME IInv, NEW p \in DOMAIN node, NEW rows, RowsOk(rows), NEW E, Prunes(edge, E),
         Graft(p, rows, E)
  PROVE  edge' \in Seq(EdgeRow) /\ Survives(E, edge')
<1>1. E \in Seq(EdgeRow) /\ p \in Nat /\ TypeOK /\ Len(rows) \in Nat
  BY DEF Prunes, IInv, TypeOK, RowsOk
<1>2. Grafts(node, E, p, rows, node', edge')
  BY <1>1, GraftIs
<1>3. /\ edge' \in Seq(EdgeRow) /\ DOMAIN edge' = 1..(Len(E) + Len(rows))
      /\ \A e \in DOMAIN E : edge'[e] = E[e]
  BY <1>2 DEF Grafts
<1>4. DOMAIN E \subseteq DOMAIN edge'
  BY <1>1, <1>3
<1> QED
  BY <1>3, <1>4 DEF Survives, Active

LEMMA PlusSurvives ==
  ASSUME NEW E \in Seq(EdgeRow), NEW p \in Nat, NEW n \in Nat, NEW name \in Names
  PROVE  Plus(E, p, n, name) \in Seq(EdgeRow) /\ Survives(E, Plus(E, p, n, name))
<1> DEFINE F == Plus(E, p, n, name)
<1>1. Adds(E, F, Len(E) + 1, p, n)
  BY PlusIs
<1> HIDE DEF F
<1>2. F \in Seq(EdgeRow) /\ Survives(E, F)
  BY <1>1, ActiveIn DEF Adds, Survives
<1> QED
  BY <1>2 DEF F

LEMMA ArchiveSpares ==
  ASSUME TypeOK, NEW S, NEW X, \A e \in S : edge[e].to \in X, NEW F, Survives(Archive(S), F)
  PROVE  Spares(edge, F, X)
<1>1. Active(Archive(S)) = Active(edge) \ S
  BY ArchiveIs DEF Active, ActiveEdges
<1>2. \A e \in Active(Archive(S)) :
        Archive(S)[e].from = edge[e].from /\ Archive(S)[e].to = edge[e].to
  BY ArchivedNames
<1> QED
  BY <1>1, <1>2 DEF Survives, Spares

(* No anchor is among what a path of an anchor leads to, or below it. *)
LEMMA AnchorsAbove ==
  ASSUME IInv, ~Overlap, NEW m \in Mounts, NEW path \in Paths, path # <<>>, Resolve(m, path) # 0,
         NEW k \in Mounts, anchor[k] # 0
  PROVE  anchor[k] \notin Subtree(Resolve(m, path))
<1> DEFINE c == Walk(anchor[m], Front(path))
           n == Resolve(m, path)
<1>1. TypeOK /\ path \in Seq(Names) /\ Front(path) \in Seq(Names) /\ Tree(node, edge)
  BY PathsAreSequences, FrontIs DEF IInv
<1>2. n = Lookup(c, Last(path))
  BY <1>1, WalkByParent DEF Resolve
<1>3. PICK f \in ActiveEdges : edge[f].from = c /\ edge[f].to = n
  BY <1>1, <1>2, LookupFinds
<1>4. c # 0
  BY <1>1, <1>2, LookupTypes
<1>5. c \in Subtree(anchor[m]) /\ anchor[m] \in DOMAIN node /\ n \in DOMAIN node
      /\ n \in Subtree(anchor[m])
  BY <1>1, <1>4, Anchored, WalkTypes, ResolvedIs
<1>6. c \notin Subtree(n)
  BY <1>1, <1>3, ReachIsSubtree DEF Tree, Active, ActiveEdges
<1> HIDE DEF c, n
<1>7. SUFFICES ASSUME anchor[k] \in Subtree(n) PROVE FALSE
  BY DEF n
<1>8. anchor[k] \in Subtree(anchor[m])
  BY <1>1, <1>5, <1>7, SubtreeIn
<1>9. anchor[m] # 0
  BY <1>1, <1>5, Anchored
<1>10. k = m
  BY <1>8, <1>9 DEF IInv, AnchorsDisjoint
<1>11. c \in Subtree(n)
  BY <1>1, <1>5, <1>7, <1>10, SubtreeIn
<1> QED
  BY <1>6, <1>11

(* What an operation of mount m spares. *)
LEMMA EditSparesOthers ==
  ASSUME IInv, ~Overlap, ~AnchorOps, NEW m \in Mounts, Edit(m)
  PROVE  /\ edge' \in Seq(EdgeRow)
         /\ \E X \in SUBSET DOMAIN node :
              /\ Spares(edge, edge', X) /\ Closed(edge, X)
              /\ \A k \in Mounts : anchor[k] # 0 => anchor[k] \notin X
<1> DEFINE Done == /\ edge' \in Seq(EdgeRow)
                   /\ \E X \in SUBSET DOMAIN node :
                        /\ Spares(edge, edge', X) /\ Closed(edge, X)
                        /\ \A k \in Mounts : anchor[k] # 0 => anchor[k] \notin X
<1>1. TypeOK /\ edge \in Seq(EdgeRow) /\ Prunes(edge, edge) /\ DOMAIN node \subseteq Nat
  BY PrunesSelf, Anchored DEF IInv, TypeOK
<1>2. ASSUME edge' \in Seq(EdgeRow), Survives(edge, edge') PROVE Done
  <2>1. Spares(edge, edge', {}) /\ Closed(edge, {})
    BY <1>2 DEF Survives, Spares, Closed
  <2> QED
    BY <1>2, <2>1
<1>3. ASSUME NEW path \in Paths, path # <<>>, Resolve(m, path) # 0, NEW S,
             \A e \in S : edge[e].to \in Subtree(Resolve(m, path)),
             edge' \in Seq(EdgeRow), Survives(Archive(S), edge')
      PROVE  Done
  <2> DEFINE n == Resolve(m, path)
             X == Subtree(n)
  <2>1. n \in DOMAIN node
    BY <1>3, ResolvedIs
  <2>2. Spares(edge, edge', X)
    BY <1>1, <1>3, ArchiveSpares
  <2>3. Closed(edge, X) /\ X \in SUBSET DOMAIN node
    BY <1>1, <2>1, SubtreeIn DEF Closed, Active, ActiveEdges
  <2>4. \A k \in Mounts : anchor[k] # 0 => anchor[k] \notin X
    BY <1>3, AnchorsAbove
  <2> HIDE DEF X
  <2> QED
    BY <1>3, <2>2, <2>3, <2>4
<1>4. \A S : Archive(S) \in Seq(EdgeRow) /\ Prunes(edge, Archive(S)) /\ Survives(Archive(S), Archive(S))
  BY <1>1, ArchivePrunes DEF Prunes, Survives
<1>5. PICK path \in Paths :
        \/ \E t \in Types : Create(m, path, t)
        \/ \E name \in Names : Rename(m, path, name)
        \/ RemoveOne(m, path)
        \/ RemoveRecursive(m, path)
        \/ Pack(m, path)
        \/ Unpack(m, path)
        \/ \E dst \in Paths : Link(m, path, dst) \/ Move(m, path, dst) \/ Copy(m, path, dst)
  BY DEF Edit
<1> DEFINE n == Resolve(m, path)
<1>6. n # 0 => n \in DOMAIN node /\ n \in Subtree(n)
  BY <1>1, ResolvedIs, SubtreeIn
<1>7. \A e \in PlacementsOf(n) : n # 0 => edge[e].to \in Subtree(n)
  BY <1>6 DEF PlacementsOf
<1> HIDE DEF Done, n
<1>8. ASSUME NEW t \in Types, Create(m, path, t) PROVE Done
  <2> DEFINE parent == ResolveParent(m, path)
             rows == <<[p |-> 0, t |-> t, n |-> Last(path), d |-> 0]>>
  <2>1. parent # 0 /\ Graft(parent, rows, edge)
    BY <1>8 DEF Create
  <2>2. parent \in DOMAIN node /\ Last(path) \in Names
    BY <2>1, ParentIs
  <2>3. RowsOk(rows)
    BY <2>2, OneRow
  <2> HIDE DEF parent, rows
  <2> QED
    BY <1>1, <1>2, <2>1, <2>2, <2>3, GraftSurvives
<1>9. ASSUME NEW dst \in Paths, Copy(m, path, dst) PROVE Done
  <2> DEFINE parent == ResolveParent(m, dst)
             rows == RowsOf(n, Last(dst))
  <2>1. n # 0 /\ parent # 0 /\ Graft(parent, rows, edge)
    BY <1>9 DEF Copy, n
  <2>2. parent \in DOMAIN node /\ Last(dst) \in Names
    BY <2>1, ParentIs
  <2>3. RowsOk(rows)
    BY <1>6, <2>1, <2>2, RowsOfOk DEF IInv
  <2> HIDE DEF parent, rows
  <2> QED
    BY <1>1, <1>2, <2>1, <2>2, <2>3, GraftSurvives
<1>10. ASSUME NEW name \in Names, Rename(m, path, name) PROVE Done
  <2> DEFINE W == Walked(ResolveParent(m, path), n, Last(path))
  <2>1. edge' = [x \in DOMAIN edge |-> IF x \in W THEN [edge[x] EXCEPT !.name = name] ELSE edge[x]]
    BY <1>10 DEF Rename, n
  <2> HIDE DEF W
  <2>2. \A x \in DOMAIN edge : /\ edge'[x].from = edge[x].from /\ edge'[x].to = edge[x].to
                               /\ edge'[x].archived = edge[x].archived
    <3>1. \A x \in DOMAIN edge : edge[x] \in EdgeRow
      BY <1>1, RowFields
    <3> QED
      BY <2>1, <3>1 DEF EdgeRow
  <2>3. edge' \in Seq(EdgeRow)
    BY <1>10, RenamePrunes DEF Pruning, Prunes
  <2>4. DOMAIN edge' = DOMAIN edge
    BY <2>1
  <2> QED
    BY <1>2, <2>2, <2>3, <2>4 DEF Survives, Active
<1>11. ASSUME NEW dst \in Paths, Link(m, path, dst) PROVE Done
  <2> DEFINE p == ResolveParent(m, dst)
  <2>1. n # 0 /\ p # 0 /\ edge' = Plus(edge, p, n, Last(dst))
    BY <1>11 DEF Link, Plus, n
  <2>2. n \in Nat /\ p \in Nat /\ Last(dst) \in Names
    BY <1>1, <1>6, <2>1, ParentIs
  <2> HIDE DEF p
  <2> QED
    BY <1>1, <1>2, <2>1, <2>2, PlusSurvives
<1>12. ASSUME RemoveOne(m, path) PROVE Done
  <2> DEFINE W == Walked(ResolveParent(m, path), n, Last(path))
  <2>1. n # 0 /\ ResolveParent(m, path) # 0 /\ edge' = Archive(W)
    BY <1>12 DEF RemoveOne, n
  <2>2. path # <<>> /\ \A e \in W : edge[e].to \in Subtree(n)
    BY <1>7, <2>1 DEF ResolveParent, Walked
  <2> HIDE DEF W
  <2> QED
    BY <1>3, <1>4, <2>1, <2>2 DEF n
<1>13. ASSUME RemoveRecursive(m, path) PROVE Done
  <2>1. n # 0 /\ path # <<>> /\ edge' = Archive(SubtreePlacements(n))
    BY <1>13 DEF RemoveRecursive, n
  <2>2. \A e \in SubtreePlacements(n) : edge[e].to \in Subtree(n)
    BY DEF SubtreePlacements
  <2> QED
    BY <1>3, <1>4, <2>1, <2>2 DEF n
<1>14. ASSUME Pack(m, path) PROVE Done
  <2> DEFINE name == node[n].name
             rows == <<[p |-> 0, t |-> "leaf", n |-> name, d |-> Len(blob) + 1]>>
             S == SubtreePlacements(n)
  <2>1. n # 0 /\ path # <<>>
    BY <1>14 DEF Pack, n
  <2>2. PICK e \in PlacementsOf(n) : Graft(edge[e].from, rows, Archive(S))
    BY <1>14 DEF Pack, n
  <2>3. n # Root /\ n \in DOMAIN node /\ edge[e].from \in DOMAIN node
    BY PlacementIs
  <2>4. name \in Names /\ Len(blob) + 1 \in Nat
    BY <2>3 DEF IInv, Named, TypeOK
  <2>5. RowsOk(rows)
    BY <2>4, OneRow DEF Types
  <2>6. \A x \in S : edge[x].to \in Subtree(n)
    BY DEF SubtreePlacements
  <2> HIDE DEF rows, S
  <2>7. edge' \in Seq(EdgeRow) /\ Survives(Archive(S), edge')
    BY <1>4, <2>2, <2>3, <2>5, GraftSurvives
  <2> QED
    BY <1>3, <2>1, <2>6, <2>7 DEF n
<1>15. ASSUME Unpack(m, path) PROVE Done
  <2>1. n # 0 /\ path # <<>>
    BY <1>15 DEF Unpack, n
  <2>2. PICK rows \in Decode(node[n].data), e \in PlacementsOf(n) :
           Graft(edge[e].from, rows, Archive({e}))
    BY <1>15 DEF Unpack, n
  <2>3. edge[e].from \in DOMAIN node
    BY PlacementIs
  <2>4. RowsOk(rows)
    BY DEF Decode, IInv, Packed
  <2>5. \A x \in {e} : edge[x].to \in Subtree(n)
    BY <1>7, <2>1
  <2>6. edge' \in Seq(EdgeRow) /\ Survives(Archive({e}), edge')
    BY <1>4, <2>2, <2>3, <2>4, GraftSurvives
  <2> QED
    BY <1>3, <2>1, <2>5, <2>6 DEF n
<1>16. ASSUME NEW dst \in Paths, Move(m, path, dst) PROVE Done
  <2> DEFINE p == ResolveParent(m, dst)
             W == Walked(ResolveParent(m, path), n, Last(path))
  <2>1. n # 0 /\ ResolveParent(m, path) # 0 /\ p # 0 /\ edge' = Plus(Archive(W), p, n, Last(dst))
    BY <1>16 DEF Move, Plus, n
  <2>2. n \in Nat /\ p \in Nat /\ Last(dst) \in Names
    BY <1>1, <1>6, <2>1, ParentIs
  <2>3. path # <<>> /\ \A e \in W : edge[e].to \in Subtree(n)
    BY <1>7, <2>1 DEF ResolveParent, Walked
  <2> HIDE DEF p, W
  <2>4. edge' \in Seq(EdgeRow) /\ Survives(Archive(W), edge')
    BY <1>4, <2>1, <2>2, PlusSurvives
  <2> QED
    BY <1>3, <2>1, <2>3, <2>4 DEF n
<1>17. Done
  BY <1>5, <1>8, <1>9, <1>10, <1>11, <1>12, <1>13, <1>14, <1>15, <1>16
<1> QED
  BY <1>17 DEF Done

LEMMA EditAttached ==
  ASSUME IInv, Attached, ~Overlap, ~AnchorOps, NEW m \in Mounts, Edit(m)
  PROVE  Attached'
<1>1. TypeOK /\ edge \in Seq(EdgeRow) /\ DOMAIN node \subseteq Nat /\ Root \in Nat
  BY Anchored DEF IInv, Root, TypeOK
<1>2. anchor' = anchor
  BY Edits
<1>3. edge' \in Seq(EdgeRow)
  BY EditSparesOthers
<1>4. PICK X \in SUBSET DOMAIN node :
        /\ Spares(edge, edge', X) /\ Closed(edge, X)
        /\ \A k \in Mounts : anchor[k] # 0 => anchor[k] \notin X
  BY EditSparesOthers
<1>5. X \in SUBSET Nat
  BY <1>1
<1>6. Reach(edge, Root) \subseteq Reach(edge', Root) \cup X
  BY <1>1, <1>3, <1>4, <1>5, ReachKept
<1>7. Subtree(Root) = Reach(edge, Root) /\ Subtree(Root)' = Reach(edge', Root)
  BY DEF Subtree, ActiveEdges, Reach, Active, Root
<1> QED
  BY <1>2, <1>4, <1>6, <1>7 DEF Attached

(* The strengthening: rows carry the names of their placements, and every      *)
(* anchor is in reach of the root.                                            *)
PInv ==
    /\ ~SameNames => Neat(node, edge, blob)
    /\ Anchors \subseteq {<<>>} => \A m \in Mounts : anchor[m] \in {0, Root}
    /\ Attached

LEMMA PathInit == Init => PInv
<1> SUFFICES ASSUME Init PROVE PInv
  OBVIOUS
<1>1. edge = <<>> /\ blob = <<>> /\ anchor = [m \in Mounts |-> 0]
  BY DEF Init
<1>2. Active(edge) = {} /\ DOMAIN blob = {}
  BY <1>1 DEF Active
<1>3. Neat(node, edge, blob)
  BY <1>2 DEF Neat, Distinct, Titled
<1> QED
  BY <1>1, <1>3 DEF PInv, Attached

(* A step of a mount that leaves the rows alone. *)
LEMMA MountsAttached ==
  ASSUME IInv, PInv, UNCHANGED <<node, edge, blob, habit>>,
         \A m \in Mounts : \/ anchor'[m] = anchor[m] \/ anchor'[m] = 0
                           \/ \E path \in Anchors : /\ anchor'[m] = Walk(Root, path)
                                                    /\ Walk(Root, path) # 0
  PROVE  PInv'
<1>1. TypeOK /\ Root \in DOMAIN node /\ Anchors \subseteq Seq(Names)
  BY Anchored, HabitAssumption DEF IInv, Anchors, Habit, Root, TypeOK
<1>2. ~SameNames' => Neat(node', edge', blob')
  BY DEF PInv, SameNames
<1>3. Walk(Root, <<>>) = Root
  <2>1. <<>> \in Seq(Names)
    OBVIOUS
  <2>2. \A path \in Seq(Names) : path = <<>> => Walk(Root, path) = Root
    BY WalkByParent
  <2> QED
    BY <2>1, <2>2
<1>4. \A path \in Anchors : Walk(Root, path) # 0 => Walk(Root, path) \in Subtree(Root)
  BY <1>1, WalkTypes
<1>5. Subtree(Root)' = Subtree(Root)
  BY DEF Subtree, ActiveEdges, Root
<1>6. Attached'
  BY <1>4, <1>5 DEF PInv, Attached
<1>7. Anchors' = Anchors
  BY DEF Anchors
<1>8. Anchors' \subseteq {<<>>} => \A m \in Mounts : anchor'[m] \in {0, Root}
  BY <1>3, <1>7 DEF PInv
<1> QED
  BY <1>2, <1>6, <1>8 DEF PInv, Root

LEMMA PathKeeps ==
  ASSUME Steady, IInv, IInv', PInv, [Next]_vars
  PROVE  PInv'
<1>1. habit' = habit /\ habit \in Habits
  BY DEF Next, vars, IInv
<1>2. ASSUME NEW m \in Mounts, Edit(m) PROVE PInv'
  <2>1. anchor' = anchor
    BY <1>2, Edits
  <2>2. ~SameNames' => Neat(node', edge', blob')
    BY <1>1, <1>2, EditNeat DEF PInv, SameNames
  <2>3. Anchors' \subseteq {<<>>} => \A k \in Mounts : anchor'[k] \in {0, Root}
    BY <1>1, <2>1 DEF PInv, Anchors
  <2>4. CASE Anchors \subseteq {<<>>}
    <3>1. \A k \in Mounts : anchor[k] \in {0, Root}
      BY <2>4 DEF PInv
    <3>2. Root \in Nat /\ edge' \in Seq(EdgeRow)
      BY DEF Root, IInv, TypeOK
    <3>3. Root \in Reach(edge', Root)
      BY <3>2, ReachLeast
    <3>4. Subtree(Root)' = Reach(edge', Root)
      BY DEF Subtree, ActiveEdges, Reach, Active, Root
    <3> QED
      BY <2>1, <2>2, <2>3, <3>1, <3>3, <3>4 DEF PInv, Attached, Root
  <2>5. CASE ~Overlap /\ ~AnchorOps
    <3>1. Attached'
      BY <1>2, <2>5, EditAttached DEF PInv
    <3> QED
      BY <2>2, <2>3, <3>1 DEF PInv, Root
  <2> QED
    BY <1>1, <2>4, <2>5 DEF Steady, Anchors, Overlap, AnchorOps
<1>3. ASSUME NEW m \in Mounts, NEW path \in Anchors, MountAt(m, path) PROVE PInv'
  <2>1. \A k \in Mounts : anchor'[k] = IF k = m THEN Walk(Root, path) ELSE anchor[k]
    BY <1>3 DEF MountAt, IInv, TypeOK
  <2>2. UNCHANGED <<node, edge, blob, habit>> /\ Walk(Root, path) # 0
    BY <1>1, <1>3 DEF MountAt
  <2> QED
    BY <2>1, <2>2, MountsAttached
<1>4. ASSUME NEW m \in Mounts, MountEnds(m) PROVE PInv'
  <2>1. \A k \in Mounts : anchor'[k] = IF k = m THEN 0 ELSE anchor[k]
    BY <1>4 DEF MountEnds, IInv, TypeOK
  <2>2. UNCHANGED <<node, edge, blob, habit>>
    BY <1>1, <1>4 DEF MountEnds
  <2> QED
    BY <2>1, <2>2, MountsAttached
<1>5. CASE UNCHANGED <<node, edge, blob, anchor, habit>>
  BY <1>5, MountsAttached
<1>6. ASSUME NEW m \in Mounts, NEW path \in Paths, LockNode(m, path)
      PROVE  UNCHANGED <<node, edge, blob, anchor, habit>>
  BY <1>1, <1>6 DEF LockNode
<1>7. ASSUME NEW m \in Mounts, UnlockNode(m) PROVE UNCHANGED <<node, edge, blob, anchor, habit>>
  BY <1>1, <1>7 DEF UnlockNode
<1>8. CASE UNCHANGED vars
  BY <1>5, <1>8 DEF vars
<1> QED
  BY <1>2, <1>3, <1>4, <1>5, <1>6, <1>7, <1>8 DEF Next

LEMMA PathsResolve ==
  ASSUME IInv, PInv
  PROVE  PathResolves
<1>1. TypeOK /\ Tree(node, edge) /\ Root \in DOMAIN node
  BY Anchored DEF IInv, Root, TypeOK
<1>2. ~SameNames => Distinct(edge)
  BY DEF PInv, Neat
<1>3. SUFFICES ASSUME NEW m \in Mounts, anchor[m] # 0
      PROVE  /\ LeadsBack(Root, anchor[m], MountPath(m))
             /\ \A n \in Subtree(anchor[m]) : LeadsBack(anchor[m], n, PathOf(anchor[m], n))
  BY DEF PathResolves
<1>4. anchor[m] \in Subtree(Root)
  BY <1>3 DEF PInv, Attached
<1>5. \A n \in Subtree(anchor[m]) : LeadsBack(anchor[m], n, PathOf(anchor[m], n))
  BY <1>1, <1>2, <1>4, PathLeadsBack
<1>6. Root \in Subtree(Root)
  BY <1>1, SubtreeIn
<1>7. LeadsBack(Root, anchor[m], MountPath(m))
  BY <1>1, <1>2, <1>4, <1>6, PathLeadsBack DEF MountPath
<1> QED
  BY <1>5, <1>7

(* PathResolves, for callers who mount the root, or who neither share subtrees *)
(* nor remove, pack or unpack their own anchor: the path that path_of answers  *)
(* for a node under a mount's anchor, and the one listed for the mount, lead   *)
(* to that node, whatever moves, renames, hardlinks, packs and unpacks came    *)
(* before.                                                                    *)
THEOREM PathsLeadBack ==
  ASSUME Steady
  PROVE  Spec => []PathResolves
<1>1. IInv /\ IInv' /\ PInv /\ [Next]_vars => PInv'
  BY PathKeeps
<1>2. IInv /\ PInv => PathResolves
  BY PathsResolve
<1> QED
  BY <1>1, <1>2, PathInit, NameInvariant, PTL DEF Spec

---------------------------------------------------------------------------
(* Paths as the tree of paths puts them together                           *)

LEMMA JoinIs ==
  ASSUME NEW p \in Seq(Names), NEW r \in Seq(Names)
  PROVE  /\ p \o r \in Seq(Names) /\ Len(p \o r) = Len(p) + Len(r)
         /\ Len(p) \in Nat /\ Len(r) \in Nat
         /\ \A i \in 1..Len(p) : (p \o r)[i] = p[i]
         /\ \A i \in 1..Len(r) : (p \o r)[Len(p) + i] = r[i]
         /\ p \o <<>> = p
<1>1. /\ p \o r \in Seq(Names) /\ Len(p \o r) = Len(p) + Len(r)
      /\ Len(p) \in Nat /\ Len(r) \in Nat
  OBVIOUS
<1>2. \A i \in 1..(Len(p) + Len(r)) :
        (p \o r)[i] = IF i <= Len(p) THEN p[i] ELSE r[i - Len(p)]
  BY ConcatProperties
<1>3. \A i \in 1..Len(p) : i \in 1..(Len(p) + Len(r)) /\ i <= Len(p)
  BY <1>1
<1>4. \A i \in 1..Len(r) : /\ Len(p) + i \in 1..(Len(p) + Len(r))
                           /\ ~(Len(p) + i <= Len(p)) /\ Len(p) + i - Len(p) = i
  BY <1>1
<1>5. p \o <<>> = p
  BY ConcatEmptySeq
<1> QED
  BY <1>1, <1>2, <1>3, <1>4, <1>5

LEMMA SameSeq ==
  ASSUME NEW p \in Seq(Names), NEW q \in Seq(Names), Len(p) = Len(q),
         \A i \in 1..Len(p) : p[i] = q[i]
  PROVE  p = q
BY SeqEqual

LEMMA JoinCancels ==
  ASSUME NEW p \in Seq(Names), NEW r \in Seq(Names), NEW s \in Seq(Names), p \o r = p \o s
  PROVE  r = s
<1>1. Len(r) = Len(s) /\ Len(r) \in Nat /\ Len(p) \in Nat
  <2>1. Len(p \o r) = Len(p) + Len(r) /\ Len(p \o s) = Len(p) + Len(s)
        /\ Len(p) \in Nat /\ Len(r) \in Nat /\ Len(s) \in Nat
    BY JoinIs
  <2> QED
    BY <2>1
<1>2. \A i \in 1..Len(r) : r[i] = (p \o r)[Len(p) + i] /\ s[i] = (p \o s)[Len(p) + i]
  BY <1>1, JoinIs
<1> QED
  BY <1>1, <1>2, SameSeq

LEMMA PrefixIs ==
  ASSUME NEW p, NEW q
  PROVE  Volume!IsPrefix(p, q) <=> IsPrefix(p, q)
BY DEF IsPrefix, Volume!IsPrefix

LEMMA UnderIs ==
  ASSUME NEW p \in Seq(Names), NEW q \in Seq(Names)
  PROVE  /\ IsPrefix(p, q) => Volume!Under(p, q) \in Seq(Names) /\ q = p \o Volume!Under(p, q)
         /\ \A r \in Seq(Names) : q = p \o r => IsPrefix(p, q) /\ Volume!Under(p, q) = r
<1> DEFINE u == SubSeq(q, Len(p) + 1, Len(q))
<1>1. Len(p) \in Nat /\ Len(q) \in Nat /\ \A i \in 1..Len(q) : q[i] \in Names
  OBVIOUS
<1>2. ASSUME Len(p) <= Len(q)
      PROVE  /\ u \in Seq(Names) /\ Len(u) = Len(q) - Len(p)
             /\ \A i \in 1..Len(u) : u[i] = q[Len(p) + i]
  <2>1. /\ Len(p) + 1 \in Int /\ Len(q) \in Int
        /\ Len(p) + 1 <= Len(q) \/ Len(p) + 1 = Len(q) + 1
        /\ \A i \in (Len(p) + 1)..Len(q) : q[i] \in Names
    BY <1>1, <1>2
  <2>2. u \in Seq(Names) /\ Len(u) = IF Len(p) + 1 <= Len(q) THEN Len(q) - (Len(p) + 1) + 1 ELSE 0
    BY <2>1, SubSeqProperties
  <2>3. Len(u) = Len(q) - Len(p)
    BY <1>1, <1>2, <2>2
  <2>4. u = [i \in 1..(Len(q) - Len(p)) |-> q[Len(p) + i]]
    BY <1>1
  <2> QED
    BY <2>2, <2>3, <2>4
<1>3. ASSUME Len(p) <= Len(q)
      PROVE  SubSeq(p, 1, Len(p)) = SubSeq(q, 1, Len(p)) <=> \A i \in 1..Len(p) : p[i] = q[i]
  <2>1. SubSeq(p, 1, Len(p)) = [i \in 1..Len(p) |-> p[i]]
    BY <1>1
  <2>2. SubSeq(q, 1, Len(p)) = [i \in 1..Len(p) |-> q[i]]
    BY <1>1, <1>3
  <2> QED
    BY <2>1, <2>2
<1>4. ASSUME IsPrefix(p, q) PROVE q = p \o u
  <2>1. Len(p) <= Len(q) /\ \A i \in 1..Len(p) : p[i] = q[i]
    BY <1>3, <1>4 DEF IsPrefix
  <2>2. /\ Len(p \o u) = Len(q) /\ p \o u \in Seq(Names)
        /\ \A i \in 1..Len(p) : (p \o u)[i] = p[i]
        /\ \A i \in 1..Len(u) : (p \o u)[Len(p) + i] = u[i]
    <3> HIDE DEF u
    <3>1. u \in Seq(Names) /\ Len(u) = Len(q) - Len(p)
      BY <1>2, <2>1
    <3> QED
      BY <1>1, <2>1, <3>1, JoinIs
  <2>3. \A i \in 1..Len(q) : i \in 1..Len(p) \/ \E j \in 1..Len(u) : i = Len(p) + j
    <3>1. Len(u) = Len(q) - Len(p)
      BY <1>2, <2>1
    <3> HIDE DEF u
    <3>2. SUFFICES ASSUME NEW i \in 1..Len(q), i \notin 1..Len(p)
                   PROVE  \E j \in 1..Len(u) : i = Len(p) + j
      OBVIOUS
    <3>3. i - Len(p) \in 1..Len(u) /\ i = Len(p) + (i - Len(p))
      BY <1>1, <3>1, <3>2
    <3> QED
      BY <3>3
  <2>4. \A i \in 1..Len(q) : q[i] = (p \o u)[i]
    <3>1. \A i \in 1..Len(u) : u[i] = q[Len(p) + i]
      BY <1>2, <2>1
    <3> HIDE DEF u
    <3> SUFFICES ASSUME NEW i \in 1..Len(q) PROVE q[i] = (p \o u)[i]
      OBVIOUS
    <3>2. CASE i \in 1..Len(p)
      BY <2>1, <2>2, <3>2
    <3>3. CASE i \notin 1..Len(p)
      <4>1. PICK j \in 1..Len(u) : i = Len(p) + j
        BY <2>3, <3>3
      <4>2. (p \o u)[Len(p) + j] = u[j] /\ u[j] = q[Len(p) + j]
        BY <2>2, <3>1, <4>1
      <4> QED
        BY <4>1, <4>2
    <3> QED
      BY <3>2, <3>3
  <2> HIDE DEF u
  <2> QED
    BY <2>2, <2>4, SameSeq
<1>5. ASSUME NEW r \in Seq(Names), q = p \o r PROVE IsPrefix(p, q)
  <2>1. Len(p) <= Len(q) /\ \A i \in 1..Len(p) : p[i] = q[i]
    <3>1. Len(q) = Len(p) + Len(r) /\ Len(r) \in Nat /\ \A i \in 1..Len(p) : q[i] = p[i]
      BY <1>5, JoinIs
    <3> QED
      BY <1>1, <3>1
  <2> QED
    BY <1>3, <2>1 DEF IsPrefix
<1>6. ASSUME IsPrefix(p, q) PROVE u \in Seq(Names)
  BY <1>2, <1>6 DEF IsPrefix
<1>7. Volume!Under(p, q) = u
  BY DEF Volume!Under
<1> HIDE DEF u
<1>8. ASSUME NEW r \in Seq(Names), q = p \o r PROVE u = r
  BY <1>4, <1>5, <1>6, <1>8, JoinCancels
<1> QED
  BY <1>4, <1>5, <1>6, <1>7, <1>8

LEMMA AppendIs ==
  ASSUME NEW p \in Seq(Names), NEW x \in Names
  PROVE  /\ Append(p, x) \in Seq(Names) /\ Append(p, x) # <<>>
         /\ Len(Append(p, x)) = Len(p) + 1 /\ Len(p) \in Nat
         /\ Front(Append(p, x)) = p /\ Last(Append(p, x)) = x /\ Volume!Parent(Append(p, x)) = p
         /\ \A q \in Seq(Names), y \in Names : Append(p, x) = Append(q, y) => p = q /\ x = y
<1>1. ASSUME NEW q \in Seq(Names), NEW y \in Names
      PROVE  /\ Append(q, y) \in Seq(Names) /\ Len(Append(q, y)) = Len(q) + 1 /\ Len(q) \in Nat
             /\ Append(q, y)[Len(q) + 1] = y
             /\ \A i \in 1..Len(q) : Append(q, y)[i] = q[i]
  BY AppendProperties
<1>2. Append(p, x) # <<>>
  BY <1>1
<1>3. ASSUME NEW q \in Seq(Names), NEW y \in Names, Append(p, x) = Append(q, y)
      PROVE  p = q /\ x = y
  <2>1. Len(p) = Len(q)
    BY <1>1, <1>3
  <2>2. \A i \in 1..Len(p) : p[i] = q[i]
    BY <1>1, <1>3, <2>1
  <2> QED
    BY <1>1, <1>3, <2>1, <2>2, SameSeq
<1>4. Front(Append(p, x)) = p
  <2>1. /\ Front(Append(p, x)) \in Seq(Names) /\ Len(Front(Append(p, x))) = Len(Append(p, x)) - 1
        /\ \A i \in 1..(Len(Append(p, x)) - 1) : Front(Append(p, x))[i] = Append(p, x)[i]
    BY <1>1, <1>2, FrontIs
  <2>2. Len(Append(p, x)) - 1 = Len(p)
    BY <1>1
  <2> QED
    BY <1>1, <2>1, <2>2, SameSeq
<1>5. Last(Append(p, x)) = x
  BY <1>1 DEF Last
<1>6. Volume!Parent(Append(p, x)) = p
  <2>1. Len(Append(p, x)) - 1 = Len(p)
    BY <1>1
  <2>2. SubSeq(Append(p, x), 1, Len(p)) = [i \in 1..Len(p) |-> Append(p, x)[i]]
    BY <1>1
  <2>3. p = [i \in 1..Len(p) |-> p[i]]
    OBVIOUS
  <2> QED
    BY <1>1, <2>1, <2>2, <2>3 DEF Volume!Parent
<1> QED
  BY <1>1, <1>2, <1>3, <1>4, <1>5, <1>6

LEMMA LastStep ==
  ASSUME NEW p \in Seq(Names), p # <<>>
  PROVE  /\ Front(p) \in Seq(Names) /\ Last(p) \in Names /\ p = Append(Front(p), Last(p))
         /\ Len(Front(p)) \in Nat /\ Len(p) = Len(Front(p)) + 1
<1>1. /\ Front(p) \in Seq(Names) /\ Len(Front(p)) = Len(p) - 1 /\ Last(p) \in Names
      /\ \A i \in 1..(Len(p) - 1) : Front(p)[i] = p[i]
  BY FrontIs
<1>2. Len(p) \in Nat /\ Len(p) # 0
  OBVIOUS
<1>3. /\ Append(Front(p), Last(p)) \in Seq(Names) /\ Len(Append(Front(p), Last(p))) = Len(p)
      /\ Append(Front(p), Last(p))[Len(p)] = Last(p)
      /\ \A i \in 1..(Len(p) - 1) : Append(Front(p), Last(p))[i] = Front(p)[i]
  BY <1>1, <1>2, AppendProperties
<1>4. Last(p) = p[Len(p)]
  BY DEF Last
<1>5. \A i \in 1..Len(p) : i = Len(p) \/ i \in 1..(Len(p) - 1)
  BY <1>2
<1>6. \A i \in 1..Len(p) : Append(Front(p), Last(p))[i] = p[i]
  BY <1>1, <1>3, <1>4, <1>5
<1> QED
  BY <1>1, <1>2, <1>3, <1>6, SameSeq

LEMMA JoinAppend ==
  ASSUME NEW p \in Seq(Names), NEW r \in Seq(Names), NEW x \in Names
  PROVE  p \o Append(r, x) = Append(p \o r, x)
<1>1. /\ Append(r, x) \in Seq(Names) /\ Len(Append(r, x)) = Len(r) + 1
      /\ Append(r, x)[Len(r) + 1] = x /\ \A i \in 1..Len(r) : Append(r, x)[i] = r[i]
  BY AppendProperties
<1>2. /\ p \o r \in Seq(Names) /\ Len(p \o r) = Len(p) + Len(r) /\ Len(p) \in Nat /\ Len(r) \in Nat
      /\ \A i \in 1..Len(p) : (p \o r)[i] = p[i]
      /\ \A i \in 1..Len(r) : (p \o r)[Len(p) + i] = r[i]
  BY JoinIs
<1>3. /\ p \o Append(r, x) \in Seq(Names) /\ Len(p \o Append(r, x)) = Len(p) + Len(r) + 1
      /\ \A i \in 1..Len(p) : (p \o Append(r, x))[i] = p[i]
      /\ \A i \in 1..(Len(r) + 1) : (p \o Append(r, x))[Len(p) + i] = Append(r, x)[i]
  <2>1. Len(p) + (Len(r) + 1) = Len(p) + Len(r) + 1
    BY <1>2
  <2> QED
    BY <1>1, <2>1, JoinIs
<1>4. /\ Append(p \o r, x) \in Seq(Names) /\ Len(Append(p \o r, x)) = Len(p) + Len(r) + 1
      /\ Append(p \o r, x)[Len(p) + Len(r) + 1] = x
      /\ \A i \in 1..(Len(p) + Len(r)) : Append(p \o r, x)[i] = (p \o r)[i]
  BY <1>2, AppendProperties
<1>5. ASSUME NEW i \in 1..(Len(p) + Len(r) + 1)
      PROVE  (p \o Append(r, x))[i] = Append(p \o r, x)[i]
  <2>1. CASE i \in 1..Len(p)
    <3>1. i \in 1..(Len(p) + Len(r))
      BY <1>2, <2>1
    <3> QED
      BY <1>2, <1>3, <1>4, <2>1, <3>1
  <2>2. CASE i - Len(p) \in 1..Len(r)
    <3> DEFINE j == i - Len(p)
    <3>1. j \in 1..Len(r) /\ j \in 1..(Len(r) + 1) /\ i = Len(p) + j /\ i \in 1..(Len(p) + Len(r))
      BY <1>2, <2>2
    <3> HIDE DEF j
    <3> QED
      BY <1>1, <1>2, <1>3, <1>4, <3>1
  <2>3. CASE i = Len(p) + Len(r) + 1
    <3>1. i = Len(p) + (Len(r) + 1) /\ Len(r) + 1 \in 1..(Len(r) + 1)
      BY <1>2, <2>3
    <3>2. (p \o Append(r, x))[Len(p) + (Len(r) + 1)] = Append(r, x)[Len(r) + 1]
      BY <1>3, <3>1
    <3>3. (p \o Append(r, x))[i] = x
      BY <1>1, <3>1, <3>2
    <3>4. Append(p \o r, x)[i] = x
      BY <1>4, <2>3
    <3> QED
      BY <3>3, <3>4
  <2> QED
    BY <1>2, <2>1, <2>2, <2>3
<1> QED
  BY <1>3, <1>4, <1>5, SameSeq

(* What a step below p leads to: to p itself, or on from a path below p.      *)
LEMMA StepBelow ==
  ASSUME NEW p \in Seq(Names), NEW r \in Seq(Names), NEW a \in Seq(Names), NEW x \in Names,
         Append(a, x) = p \o r
  PROVE  \/ r = <<>> /\ p = Append(a, x)
         \/ r # <<>> /\ a = p \o Front(r) /\ x = Last(r)
<1>1. CASE r = <<>>
  BY <1>1, JoinIs
<1>2. CASE r # <<>>
  <2>1. Front(r) \in Seq(Names) /\ Last(r) \in Names /\ r = Append(Front(r), Last(r))
    BY <1>2, LastStep
  <2>2. p \o r = Append(p \o Front(r), Last(r)) /\ p \o Front(r) \in Seq(Names)
    BY <2>1, JoinAppend, JoinIs
  <2>3. PICK q \in Seq(Names), y \in Names : q = p \o Front(r) /\ y = Last(r)
    BY <2>1, <2>2
  <2>4. Append(a, x) = Append(q, y)
    BY <2>2, <2>3
  <2>5. a = q /\ x = y
    BY <2>4, AppendIs
  <2> QED
    BY <1>2, <2>3, <2>5
<1> QED
  BY <1>1, <1>2

---------------------------------------------------------------------------
(* Charts: where every path leads                                          *)

(* D is the set of paths that lead somewhere along active edges, and f where. *)
Chart(E, D, f) ==
    /\ D \subseteq Seq(Names) /\ <<>> \in D /\ f[<<>>] = Root
    /\ \A p \in Seq(Names), x \in Names : Append(p, x) \in D =>
         /\ p \in D
         /\ \E e \in Active(E) : /\ E[e].from = f[p] /\ E[e].name = x
                                 /\ E[e].to = f[Append(p, x)]
    /\ \A p \in D, e \in Active(E) : E[e].from = f[p] =>
         Append(p, E[e].name) \in D /\ f[Append(p, E[e].name)] = E[e].to

(* A volume whose names are unique, with its chart. *)
World(N, E, D, f) ==
    /\ N \in Seq(NodeRow) /\ E \in Seq(EdgeRow) /\ Ends(N, E) /\ Tree(N, E) /\ Distinct(E)
    /\ Root \in DOMAIN N /\ Chart(E, D, f)

(* A path that fails something is Root's, or a shortest one follows one that does not. *)
LEMMA Shortest ==
  ASSUME NEW S \in SUBSET Seq(Names), S # {}
  PROVE  \/ <<>> \in S
         \/ \E p \in Seq(Names), x \in Names : Append(p, x) \in S /\ p \notin S
<1> DEFINE L == {Len(q) : q \in S}
<1>1. L \in SUBSET Nat /\ L # {}
  <2>1. \A q \in S : Len(q) \in Nat
    OBVIOUS
  <2> QED
    BY <2>1
<1>2. PICK m \in L : \A k \in L : m <= k
  <2> HIDE DEF L
  <2> QED
    BY <1>1, SmallestOf
<1>3. PICK q \in S : m = Len(q)
  OBVIOUS
<1>4. CASE q # <<>>
  <2>1. /\ Front(q) \in Seq(Names) /\ Last(q) \in Names /\ q = Append(Front(q), Last(q))
        /\ Len(Front(q)) \in Nat /\ Len(q) = Len(Front(q)) + 1
    BY <1>4, LastStep
  <2>2. Front(q) \notin S
    <3>1. SUFFICES ASSUME Front(q) \in S PROVE FALSE
      OBVIOUS
    <3>2. Len(Front(q)) \in L
      BY <3>1
    <3>3. Len(q) <= Len(Front(q))
      BY <1>2, <1>3, <3>2
    <3> QED
      BY <2>1, <3>3
  <2>3. Append(Front(q), Last(q)) \in S
    BY <1>3, <2>1
  <2> QED
    BY <2>1, <2>2, <2>3
<1> QED
  BY <1>3, <1>4

LEMMA ChartsAgree ==
  ASSUME NEW E, NEW D, NEW f, NEW C, NEW g, Chart(E, D, f), Chart(E, C, g)
  PROVE  \A p \in D : p \in C /\ f[p] = g[p]
<1> DEFINE wrong == {p \in D : ~(p \in C /\ f[p] = g[p])}
<1> SUFFICES ASSUME wrong # {} PROVE FALSE
  OBVIOUS
<1>1. wrong \in SUBSET Seq(Names) /\ <<>> \notin wrong
  BY DEF Chart
<1>2. PICK p \in Seq(Names), x \in Names : Append(p, x) \in wrong /\ p \notin wrong
  <2> HIDE DEF wrong
  <2> QED
    BY <1>1, Shortest
<1>3. Append(p, x) \in D /\ ~(Append(p, x) \in C /\ f[Append(p, x)] = g[Append(p, x)])
  BY <1>2
<1>4. p \in D
  BY <1>3 DEF Chart
<1>5. p \in C /\ f[p] = g[p]
  BY <1>2, <1>4
<1> HIDE DEF wrong
<1>6. PICK e \in Active(E) : E[e].from = f[p] /\ E[e].name = x /\ E[e].to = f[Append(p, x)]
  BY <1>3 DEF Chart
<1>7. Append(p, E[e].name) \in C /\ g[Append(p, E[e].name)] = E[e].to
  BY <1>5, <1>6 DEF Chart
<1> QED
  BY <1>3, <1>6, <1>7

Resolved == {p \in Seq(Names) : Walk(Root, p) # 0}
Leads == [p \in Resolved |-> Walk(Root, p)]

LEMMA WalkOn ==
  ASSUME NEW p \in Seq(Names), NEW x \in Names
  PROVE  Walk(Root, Append(p, x)) = Lookup(Walk(Root, p), x) /\ Walk(Root, <<>>) = Root
<1>1. <<>> \in Seq(Names)
  OBVIOUS
<1>2. Walk(Root, <<>>) = Root
  BY <1>1, WalkByParent
<1>3. PICK q \in Seq(Names) : q = Append(p, x) /\ q # <<>> /\ Front(q) = p /\ Last(q) = x
  BY AppendIs
<1>4. Walk(Root, q) = Lookup(Walk(Root, Front(q)), Last(q))
  BY <1>3, WalkByParent
<1> QED
  BY <1>2, <1>3, <1>4

LEMMA ChartIs ==
  ASSUME TypeOK, Distinct(edge)
  PROVE  Chart(edge, Resolved, Leads)
<1>1. <<>> \in Resolved /\ Leads[<<>>] = Root
  <2>1. <<>> \in Seq(Names)
    OBVIOUS
  <2>2. Walk(Root, <<>>) = Root
    BY <2>1, WalkByParent
  <2> QED
    BY <2>1, <2>2 DEF Resolved, Leads, Root
<1>2. ASSUME NEW p \in Seq(Names), NEW x \in Names, Append(p, x) \in Resolved
      PROVE  /\ p \in Resolved
             /\ \E e \in Active(edge) : /\ edge[e].from = Leads[p] /\ edge[e].name = x
                                        /\ edge[e].to = Leads[Append(p, x)]
  <2>1. Lookup(Walk(Root, p), x) # 0 /\ Walk(Root, Append(p, x)) = Lookup(Walk(Root, p), x)
    BY <1>2, WalkOn DEF Resolved
  <2>2. p \in Resolved
    BY <2>1, LookupTypes DEF Resolved
  <2>3. PICK e \in ActiveEdges : /\ edge[e].from = Walk(Root, p) /\ edge[e].name = x
                                 /\ edge[e].to = Lookup(Walk(Root, p), x)
    BY <2>1, LookupFinds
  <2> QED
    BY <1>2, <2>1, <2>2, <2>3 DEF Leads, Active, ActiveEdges
<1>3. ASSUME NEW p \in Resolved, NEW e \in Active(edge), edge[e].from = Leads[p]
      PROVE  Append(p, edge[e].name) \in Resolved /\ Leads[Append(p, edge[e].name)] = edge[e].to
  <2>1. e \in ActiveEdges /\ e \in DOMAIN edge
    BY DEF Active, ActiveEdges
  <2>2. edge[e].name \in Names /\ edge[e].to # 0 /\ p \in Seq(Names)
    BY <2>1, RowFields DEF Resolved
  <2>3. edge[e].from = Walk(Root, p)
    BY <1>3 DEF Leads
  <2>4. Lookup(Walk(Root, p), edge[e].name) = edge[e].to
    BY <2>1, <2>3, LookupOnly
  <2>5. Walk(Root, Append(p, edge[e].name)) = edge[e].to /\ Append(p, edge[e].name) \in Seq(Names)
    BY <2>2, <2>4, WalkOn, AppendIs
  <2> QED
    BY <2>2, <2>5 DEF Resolved, Leads
<1> QED
  BY <1>1, <1>2, <1>3 DEF Chart, Resolved

---------------------------------------------------------------------------
(* Paths in a tree                                                         *)

LEMMA ChartBack ==
  ASSUME NEW E, NEW D, NEW f, Chart(E, D, f), NEW q \in D, q # <<>>
  PROVE  \E p \in D, x \in Names : \E e \in Active(E) :
            /\ p \in Seq(Names) /\ q = Append(p, x)
            /\ E[e].from = f[p] /\ E[e].name = x /\ E[e].to = f[q]
<1>1. PICK p \in Seq(Names), x \in Names : q = Append(p, x)
  BY LastStep DEF Chart
<1>2. /\ p \in D
      /\ \E e \in Active(E) : E[e].from = f[p] /\ E[e].name = x /\ E[e].to = f[Append(p, x)]
  BY <1>1 DEF Chart
<1> QED
  BY <1>1, <1>2

LEMMA ChartStep ==
  ASSUME NEW E, NEW D, NEW f, Chart(E, D, f), NEW p \in Seq(Names), NEW x \in Names,
         Append(p, x) \in D
  PROVE  /\ p \in D
         /\ \E e \in Active(E) : /\ E[e].from = f[p] /\ E[e].name = x
                                 /\ E[e].to = f[Append(p, x)]
BY DEF Chart

LEMMA ChartOn ==
  ASSUME NEW E, NEW D, NEW f, Chart(E, D, f), NEW p \in D, NEW e \in Active(E), E[e].from = f[p]
  PROVE  Append(p, E[e].name) \in D /\ f[Append(p, E[e].name)] = E[e].to
BY DEF Chart

LEMMA ChartNodes ==
  ASSUME NEW N, NEW E, NEW D, NEW f, World(N, E, D, f)
  PROVE  \A p \in D : /\ p \in Seq(Names) /\ f[p] \in DOMAIN N /\ f[p] \in Nat \ {0}
                      /\ \A x \in Names : Append(p, x) \in D => Holder(N, f[p])
<1>1. DOMAIN N \subseteq Nat \ {0} /\ D \subseteq Seq(Names)
  BY DEF World, Chart
<1>2. \A e \in Active(E) : E[e].from \in DOMAIN N /\ E[e].to \in DOMAIN N /\ Holder(N, E[e].from)
  BY ActiveIn DEF World, Ends, Tree
<1>3. ASSUME NEW p \in D PROVE f[p] \in DOMAIN N
  <2>1. CASE p = <<>>
    BY <2>1 DEF World, Chart
  <2>2. CASE p # <<>>
    <3>1. PICK q \in Seq(Names), x \in Names : p = Append(q, x)
      BY <1>1, <2>2, LastStep
    <3> QED
      BY <1>2, <3>1 DEF World, Chart
  <2> QED
    BY <2>1, <2>2
<1>4. ASSUME NEW p \in D, NEW x \in Names, Append(p, x) \in D PROVE Holder(N, f[p])
  BY <1>1, <1>2, <1>4 DEF World, Chart
<1> QED
  BY <1>1, <1>3, <1>4

(* Above a path that leads somewhere are such paths, and what is above it.   *)
LEMMA ChartAbove ==
  ASSUME NEW N, NEW E, NEW D, NEW f, World(N, E, D, f), NEW p \in Seq(Names),
         NEW r \in Seq(Names), p \o r \in D
  PROVE  p \in D /\ f[p \o r] \in Reach(E, f[p])
<1> DEFINE wrong == {s \in Seq(Names) : p \o s \in D /\ ~(p \in D /\ f[p \o s] \in Reach(E, f[p]))}
<1> SUFFICES ASSUME wrong # {} PROVE FALSE
  OBVIOUS
<1>1. wrong \in SUBSET Seq(Names)
  OBVIOUS
<1>2. ASSUME p \in D PROVE Closed(E, Reach(E, f[p])) /\ f[p] \in Reach(E, f[p])
  BY <1>2, ChartNodes, ReachLeast DEF World
<1>3. <<>> \notin wrong
  <2>1. p \o <<>> = p
    BY JoinIs
  <2> QED
    BY <1>2, <2>1
<1>4. PICK s \in Seq(Names), x \in Names : Append(s, x) \in wrong /\ s \notin wrong
  <2> HIDE DEF wrong
  <2> QED
    BY <1>1, <1>3, Shortest
<1>5. p \o Append(s, x) = Append(p \o s, x) /\ p \o s \in Seq(Names)
  BY JoinAppend, JoinIs
<1>6. Append(p \o s, x) \in D /\ ~(p \in D /\ f[Append(p \o s, x)] \in Reach(E, f[p]))
  BY <1>4, <1>5
<1>7. /\ p \o s \in D
      /\ \E e \in Active(E) : E[e].from = f[p \o s] /\ E[e].name = x /\ E[e].to = f[Append(p \o s, x)]
  <2>1. PICK t \in Seq(Names) : t = p \o s
    BY <1>5
  <2>2. Append(t, x) \in D
    BY <1>6, <2>1
  <2>3. Chart(E, D, f)
    BY DEF World
  <2>4. /\ t \in D
        /\ \E e \in Active(E) : E[e].from = f[t] /\ E[e].name = x /\ E[e].to = f[Append(t, x)]
    BY <2>2, <2>3, ChartStep
  <2> QED
    BY <2>1, <2>4
<1>8. PICK e \in Active(E) : E[e].from = f[p \o s] /\ E[e].to = f[Append(p \o s, x)]
  BY <1>7
<1>9. p \in D /\ f[p \o s] \in Reach(E, f[p])
  BY <1>4, <1>7
<1> HIDE DEF wrong
<1>10. f[Append(p \o s, x)] \in Reach(E, f[p])
  BY <1>2, <1>8, <1>9 DEF Closed
<1> QED
  BY <1>6, <1>9, <1>10

(* What can be reached from a path lies below it.                            *)
LEMMA ReachIsBelow ==
  ASSUME NEW N, NEW E, NEW D, NEW f, World(N, E, D, f), NEW p \in D,
         NEW n \in Reach(E, f[p])
  PROVE  \E r \in Seq(Names) : p \o r \in D /\ f[p \o r] = n
<1> DEFINE S == {k \in Nat : \E r \in Seq(Names) : p \o r \in D /\ f[p \o r] = k}
<1>1. p \in Seq(Names) /\ f[p] \in Nat /\ E \in Seq(EdgeRow)
  BY ChartNodes DEF World
<1>2. f[p] \in S
  <2>1. p \o <<>> = p /\ <<>> \in Seq(Names)
    BY <1>1, JoinIs
  <2> QED
    BY <1>1, <2>1
<1>3. Closed(E, S)
  <2> SUFFICES ASSUME NEW e \in Active(E), E[e].from \in S PROVE E[e].to \in S
    BY DEF Closed
  <2>1. PICK r \in Seq(Names) : p \o r \in D /\ f[p \o r] = E[e].from
    OBVIOUS
  <2>2. E[e].name \in Names /\ E[e].to \in Nat
    BY <1>1, ActiveIn, EdgeFields
  <2>3. Append(p \o r, E[e].name) \in D /\ f[Append(p \o r, E[e].name)] = E[e].to
    BY <2>1 DEF World, Chart
  <2>4. p \o Append(r, E[e].name) = Append(p \o r, E[e].name) /\ Append(r, E[e].name) \in Seq(Names)
    BY <1>1, <2>2, JoinAppend, AppendIs
  <2> DEFINE s == Append(r, E[e].name)
  <2>5. s \in Seq(Names) /\ p \o s \in D /\ f[p \o s] = E[e].to
    BY <2>3, <2>4
  <2> HIDE DEF s
  <2> QED
    BY <2>2, <2>5
<1>4. Reach(E, f[p]) \subseteq S
  <2> HIDE DEF S
  <2>1. S \in SUBSET Nat
    BY DEF S
  <2> QED
    BY <1>1, <1>2, <1>3, <2>1, ReachLeast
<1> QED
  BY <1>4

(* A container has one path.                                                 *)
LEMMA OnePath ==
  ASSUME NEW N, NEW E, NEW D, NEW f, World(N, E, D, f), NEW p \in D, NEW q \in D,
         f[p] = f[q], Holder(N, f[p])
  PROVE  p = q
<1> DEFINE wrong == {x \in D : \E y \in D : f[x] = f[y] /\ Holder(N, f[x]) /\ x # y}
<1> SUFFICES ASSUME wrong # {} PROVE FALSE
  OBVIOUS
<1>1. wrong \in SUBSET Seq(Names)
  BY ChartNodes
<1>2. \A e \in Active(E) : E[e].to # Root /\ Holder(N, E[e].from)
  BY DEF World, Tree
<1>3. ASSUME NEW x \in D, x # <<>> PROVE f[x] # Root
  <2>1. PICK e \in Active(E) : E[e].to = f[x]
    BY <1>3, ChartBack DEF World
  <2> QED
    BY <1>2, <2>1
<1>4. <<>> \notin wrong
  <2>1. f[<<>>] = Root
    BY DEF World, Chart
  <2> QED
    BY <1>3, <2>1
<1>5. PICK s \in Seq(Names), x \in Names : Append(s, x) \in wrong /\ s \notin wrong
  <2> HIDE DEF wrong
  <2> QED
    BY <1>1, <1>4, Shortest
<1>6. PICK y \in D : f[Append(s, x)] = f[y] /\ Holder(N, f[Append(s, x)]) /\ Append(s, x) # y
  BY <1>5
<1>7. Append(s, x) \in D
  BY <1>5
<1>8. s \in D /\ \A t \in D : f[s] = f[t] /\ Holder(N, f[s]) => s = t
  <2>1. s \in D
    BY <1>7 DEF World, Chart
  <2> QED
    BY <1>5, <2>1
<1> HIDE DEF wrong
<1>9. y # <<>>
  <2>1. f[Append(s, x)] # Root
    BY <1>3, <1>7, AppendIs
  <2> QED
    BY <1>6, <2>1 DEF World, Chart
<1>10. PICK t \in Seq(Names), z \in Names : y = Append(t, z)
  BY <1>9, ChartNodes, LastStep
<1>11. PICK e \in Active(E) : E[e].from = f[s] /\ E[e].name = x /\ E[e].to = f[Append(s, x)]
  BY <1>7 DEF World, Chart
<1>12. t \in D
  BY <1>10 DEF World, Chart
<1>13. PICK g \in Active(E) : E[g].from = f[t] /\ E[g].name = z /\ E[g].to = f[y]
  BY <1>10 DEF World, Chart
<1>14. e = g
  BY <1>6, <1>11, <1>13 DEF World, Tree
<1>15. s = t
  BY <1>2, <1>8, <1>11, <1>12, <1>13, <1>14
<1> QED
  BY <1>6, <1>10, <1>11, <1>13, <1>14, <1>15

LEMMA EdgeIn ==
  ASSUME NEW N, NEW E, NEW D, NEW f, World(N, E, D, f), NEW e \in Active(E)
  PROVE  /\ E[e].name \in Names /\ E[e].from \in Nat /\ E[e].to \in Nat
         /\ E[e].from \in DOMAIN N /\ E[e].to \in DOMAIN N
         /\ E[e].to # Root /\ Holder(N, E[e].from)
<1>1. e \in DOMAIN E
  BY ActiveIn
<1> QED
  BY <1>1, EdgeFields DEF World, Ends, Tree

(* A path leaves no container twice, so it has no more steps than there are.  *)
Left(E) == {E[e].from : e \in Active(E)}

LEMMA PathsAreShort ==
  ASSUME NEW N, NEW E, NEW D, NEW f, World(N, E, D, f), NEW p \in D
  PROVE  Len(p) <= Cardinality(Left(E)) /\ Cardinality(Left(E)) \in Nat
<1> DEFINE Taken(q, X) ==
             /\ X \subseteq Left(E) /\ IsFiniteSet(X) /\ Cardinality(X) = Len(q)
             /\ \A x \in X : \E e \in Active(E) : E[e].from = x /\ f[q] \in Reach(E, E[e].to)
           wrong == {q \in D : ~\E X : Taken(q, X)}
<1>1. E \in Seq(EdgeRow) /\ Chart(E, D, f) /\ Tree(N, E)
  BY DEF World
<1>2. \A q \in D : q \in Seq(Names) /\ f[q] \in Nat
  BY ChartNodes
<1>3. wrong = {}
  <2> SUFFICES ASSUME wrong # {} PROVE FALSE
    OBVIOUS
  <2>1. <<>> \notin wrong
    <3>1. Cardinality({}) = 0 /\ IsFiniteSet({}) /\ Len(<<>>) = 0
      BY FS_EmptySet
    <3>2. Taken(<<>>, {})
      BY <3>1
    <3> QED
      BY <3>2
  <2>2. wrong \in SUBSET Seq(Names)
    BY <1>2
  <2>3. PICK q \in Seq(Names), y \in Names : Append(q, y) \in wrong /\ q \notin wrong
    <3> HIDE DEF wrong
    <3> QED
      BY <2>1, <2>2, Shortest
  <2>4. Append(q, y) \in D /\ ~\E X : Taken(Append(q, y), X)
    BY <2>3
  <2>5. q \in D /\ \E e \in Active(E) : E[e].from = f[q] /\ E[e].to = f[Append(q, y)]
    BY <1>1, <2>4, ChartStep
  <2>6. PICK e \in Active(E) : E[e].from = f[q] /\ E[e].to = f[Append(q, y)]
    BY <2>5
  <2>7. PICK X : Taken(q, X)
    BY <2>3, <2>5
  <2>8. f[q] \notin X /\ f[q] \in Left(E)
    BY <1>1, <2>6, <2>7 DEF Tree, Left
  <2>9. \A d \in Active(E) : f[q] \in Reach(E, E[d].to) => f[Append(q, y)] \in Reach(E, E[d].to)
    <3> SUFFICES ASSUME NEW d \in Active(E), f[q] \in Reach(E, E[d].to)
                 PROVE  f[Append(q, y)] \in Reach(E, E[d].to)
      OBVIOUS
    <3>1. E[d].to \in Nat
      BY EdgeIn
    <3> QED
      BY <1>1, <2>6, <3>1, ReachLeast DEF Closed
  <2>10. f[Append(q, y)] \in Reach(E, E[e].to)
    BY <1>1, <1>2, <2>4, <2>6, ReachLeast
  <2>11. IsFiniteSet(X \cup {f[q]}) /\ Cardinality(X \cup {f[q]}) = Len(q) + 1
    BY <2>7, <2>8, FS_AddElement
  <2>12. Len(Append(q, y)) = Len(q) + 1
    BY AppendIs
  <2>13. \A x \in X \cup {f[q]} :
           \E d \in Active(E) : E[d].from = x /\ f[Append(q, y)] \in Reach(E, E[d].to)
    BY <2>6, <2>7, <2>9, <2>10
  <2>14. Taken(Append(q, y), X \cup {f[q]})
    BY <2>7, <2>8, <2>11, <2>12, <2>13
  <2> QED
    BY <2>4, <2>14
<1>4. PICK X : Taken(p, X)
  BY <1>3
<1>5. IsFiniteSet(Left(E))
  <2>1. IsFiniteSet(Active(E))
    BY <1>1, ActiveFinite
  <2> DEFINE g == [e \in Active(E) |-> E[e].from]
  <2>2. g \in Surjection(Active(E), Left(E))
    BY DEF Surjection, Left
  <2> HIDE DEF g
  <2> QED
    BY <2>1, <2>2, FS_Surjection
<1>6. Cardinality(X) <= Cardinality(Left(E)) /\ Cardinality(Left(E)) \in Nat
  BY <1>4, <1>5, FS_Subset, FS_CardinalityType
<1> QED
  BY <1>4, <1>6

(* The paths the mapping enumerates are all that lead somewhere.             *)
LEMMA ResolvingIs ==
  ASSUME IInv, Distinct(edge)
  PROVE  /\ Resolving = Resolved
         /\ World(node, edge, Resolved, Leads)
<1>1. World(node, edge, Resolved, Leads)
  BY ChartIs DEF IInv, TypeOK, World, Ends, Root
<1>2. Occupied = Left(edge)
  BY DEF Occupied, Left, ActiveEdges, Active
<1>3. ASSUME NEW p \in Resolved PROVE p \in Resolving
  <2>1. p \in Seq(Names) /\ Walk(Root, p) # 0 /\ Len(p) \in Nat
    BY DEF Resolved
  <2>2. Len(p) <= Cardinality(Occupied) /\ Cardinality(Occupied) \in Nat
    BY <1>1, <1>2, PathsAreShort
  <2>3. Len(p) \in 0..Cardinality(Occupied)
    BY <2>1, <2>2
  <2>4. p \in [1..Len(p) -> Names]
    BY <2>1
  <2> QED
    BY <2>1, <2>3, <2>4 DEF Resolving
<1>4. ASSUME NEW p \in Resolving PROVE p \in Resolved
  <2>1. PICK k \in 0..Cardinality(Occupied) : p \in [1..k -> Names] /\ Walk(Root, p) # 0
    BY DEF Resolving
  <2>2. p \in Seq(Names)
    <3>1. <<>> \in Resolved
      BY <1>1 DEF World, Chart
    <3>2. Cardinality(Occupied) \in Nat
      BY <1>1, <1>2, <3>1, PathsAreShort
    <3> QED
      BY <2>1, <3>2
  <2> QED
    BY <2>1, <2>2 DEF Resolved
<1> QED
  BY <1>1, <1>3, <1>4

---------------------------------------------------------------------------
(* The tree of paths                                                       *)

(* What is seen of nodes N along a chart.                                    *)
Seen(N, D, f) == [p \in D |-> [id |-> f[p], type |-> N[f[p]].type, data |-> N[f[p]].data]]

(* The paths below p, from p on, and what lies there.                        *)
Rest(D, p) == {r \in Seq(Names) : p \o r \in D}
Form(N, D, f, p) ==
    [r \in Rest(D, p) |-> [type |-> N[f[p \o r]].type, data |-> N[f[p \o r]].data]]

LEMMA BelowIs ==
  ASSUME NEW D \in SUBSET Seq(Names), NEW t, DOMAIN t = D, NEW p \in Seq(Names)
  PROVE  /\ Volume!Below(t, p) = {p \o r : r \in Rest(D, p)}
         /\ {Volume!Under(p, q) : q \in Volume!Below(t, p)} = Rest(D, p)
<1>1. ASSUME NEW q \in Volume!Below(t, p)
      PROVE  \E r \in Rest(D, p) : q = p \o r /\ Volume!Under(p, q) = r
  <2>1. q \in D /\ IsPrefix(p, q)
    BY PrefixIs DEF Volume!Below
  <2>2. Volume!Under(p, q) \in Seq(Names) /\ q = p \o Volume!Under(p, q)
    BY <2>1, UnderIs
  <2> QED
    BY <2>1, <2>2 DEF Rest
<1>2. ASSUME NEW r \in Rest(D, p)
      PROVE  p \o r \in Volume!Below(t, p) /\ Volume!Under(p, p \o r) = r
  <2>1. r \in Seq(Names) /\ p \o r \in D /\ p \o r \in Seq(Names)
    BY DEF Rest
  <2> QED
    BY <2>1, UnderIs, PrefixIs DEF Volume!Below
<1> QED
  BY <1>1, <1>2

LEMMA ShapeIs ==
  ASSUME NEW N, NEW D \in SUBSET Seq(Names), NEW f, NEW p \in Seq(Names)
  PROVE  Volume!Shape(Seen(N, D, f), p) = Form(N, D, f, p)
<1> DEFINE t == Seen(N, D, f)
<1>1. DOMAIN t = D /\ \A q \in D : t[q].type = N[f[q]].type /\ t[q].data = N[f[q]].data
  BY DEF Seen
<1> HIDE DEF t
<1>2. {Volume!Under(p, q) : q \in Volume!Below(t, p)} = Rest(D, p)
  BY <1>1, BelowIs
<1>3. \A r \in Rest(D, p) : p \o r \in D
  BY DEF Rest
<1>4. Volume!Shape(t, p) = [r \in Rest(D, p) |-> [type |-> t[p \o r].type, data |-> t[p \o r].data]]
  BY <1>2 DEF Volume!Shape
<1>5. Volume!Shape(t, p) = Form(N, D, f, p)
  BY <1>1, <1>3, <1>4 DEF Form
<1> QED
  BY <1>5 DEF t

---------------------------------------------------------------------------
(* What is removed                                                         *)

(* The nodes of before, apart from their names, are there.                   *)
SameNodes(N, M) ==
    DOMAIN N \subseteq DOMAIN M
    /\ \A n \in DOMAIN N : M[n].type = N[n].type /\ M[n].data = N[n].data

(* No placement is new, or another.                                          *)
Fewer(E, F) ==
    /\ Active(F) \subseteq Active(E)
    /\ \A e \in Active(F) : F[e].from = E[e].from /\ F[e].to = E[e].to /\ F[e].name = E[e].name

LEMMA FewerChart ==
  ASSUME NEW N, NEW E, NEW D, NEW f, World(N, E, D, f), NEW F, Fewer(E, F),
         NEW C \in SUBSET D, <<>> \in C,
         \A p \in C, e \in Active(E) :
            E[e].from = f[p] => (Append(p, E[e].name) \in C <=> e \in Active(F)),
         \A p \in Seq(Names), x \in Names : Append(p, x) \in C => p \in C
  PROVE  Chart(F, C, f)
<1>1. C \subseteq Seq(Names) /\ f[<<>>] = Root /\ Chart(E, D, f)
  BY DEF World, Chart
<1>2. ASSUME NEW p \in Seq(Names), NEW x \in Names, Append(p, x) \in C
      PROVE  /\ p \in C
             /\ \E e \in Active(F) : F[e].from = f[p] /\ F[e].name = x /\ F[e].to = f[Append(p, x)]
  <2>1. p \in C /\ Append(p, x) \in D
    BY <1>2
  <2>2. PICK e \in Active(E) : E[e].from = f[p] /\ E[e].name = x /\ E[e].to = f[Append(p, x)]
    BY <1>1, <2>1, ChartStep
  <2>3. e \in Active(F)
    BY <1>2, <2>1, <2>2
  <2> QED
    BY <2>1, <2>2, <2>3 DEF Fewer
<1>3. ASSUME NEW p \in C, NEW e \in Active(F), F[e].from = f[p]
      PROVE  Append(p, F[e].name) \in C /\ f[Append(p, F[e].name)] = F[e].to
  <2>1. e \in Active(E) /\ F[e].from = E[e].from /\ F[e].to = E[e].to /\ F[e].name = E[e].name
    BY DEF Fewer
  <2>2. f[Append(p, E[e].name)] = E[e].to
    <3>1. p \in D /\ E[e].from = f[p]
      BY <1>3, <2>1
    <3> QED
      BY <1>1, <2>1, <3>1, ChartOn
  <2> QED
    BY <1>3, <2>1, <2>2
<1> QED
  BY <1>1, <1>2, <1>3 DEF Chart

LEMMA WithoutIs ==
  ASSUME NEW N, NEW E, NEW D, NEW f, World(N, E, D, f), NEW M, SameNodes(N, M), NEW C \in SUBSET D
  PROVE  Volume!Without(Seen(N, D, f), Seen(M, C, f), D \ C)
BY ChartNodes DEF Volume!Without, Seen, SameNodes

LEMMA NothingBelow ==
  ASSUME NEW N, NEW E, NEW D, NEW f, World(N, E, D, f), NEW p \in D,
         \A e \in Active(E) : E[e].from # f[p]
  PROVE  Rest(D, p) = {<<>>} /\ \A x \in Names : Append(p, x) \notin D
<1>1. p \in Seq(Names) /\ Chart(E, D, f) /\ p \o <<>> = p /\ <<>> \in Seq(Names)
  BY ChartNodes, JoinIs DEF World
<1>2. \A x \in Names : Append(p, x) \notin D
  BY <1>1, ChartStep
<1> DEFINE S == {s \in Seq(Names) : s # <<>> /\ p \o s \in D}
<1>3. S = {}
  <2> SUFFICES ASSUME S # {} PROVE FALSE
    OBVIOUS
  <2>1. S \in SUBSET Seq(Names) /\ <<>> \notin S
    OBVIOUS
  <2>2. PICK s \in Seq(Names), y \in Names : Append(s, y) \in S /\ s \notin S
    <3> HIDE DEF S
    <3> QED
      BY <2>1, Shortest
  <2>3. Append(p \o s, y) \in D /\ p \o s \in Seq(Names)
    <3>1. p \o Append(s, y) \in D
      BY <2>2
    <3>2. p \o Append(s, y) = Append(p \o s, y)
      BY <1>1, JoinAppend
    <3>3. p \o s \in Seq(Names)
      BY <1>1, JoinIs
    <3> QED
      BY <3>1, <3>2, <3>3
  <2>4. PICK q \in Seq(Names) : q = p \o s
    BY <2>3
  <2>5. q \in D
    BY <1>1, <2>3, <2>4, ChartStep
  <2>6. s = <<>>
    BY <2>2, <2>4, <2>5
  <2> QED
    BY <1>1, <1>2, <2>3, <2>6
<1>4. \A s \in Rest(D, p) : s = <<>>
  BY <1>3 DEF Rest
<1>5. <<>> \in Rest(D, p)
  BY <1>1 DEF Rest
<1> QED
  BY <1>2, <1>4, <1>5

(* The placement a is at is gone, with the name x it had.                    *)
LEMMA UnlinkChart ==
  ASSUME NEW N, NEW E, NEW D, NEW f, World(N, E, D, f), NEW F, Fewer(E, F),
         NEW a \in Seq(Names), NEW x \in Names, Append(a, x) \in D,
         NEW e0 \in Active(E), E[e0].from = f[a], E[e0].name = x, Active(F) = Active(E) \ {e0},
         \A e \in Active(E) : E[e].from # f[Append(a, x)]
  PROVE  Chart(F, D \ {Append(a, x)}, f)
<1> DEFINE q == Append(a, x)
           C == D \ {q}
<1>1. Chart(E, D, f) /\ Distinct(E) /\ a \in D /\ q \in Seq(Names) /\ q # <<>>
  BY ChartStep, AppendIs DEF World
<1>2. <<>> \in C /\ C \in SUBSET D
  BY <1>1 DEF Chart
<1>3. ASSUME NEW p \in Seq(Names), NEW y \in Names, Append(p, y) \in C PROVE p \in C
  <2>1. p \in D
    BY <1>1, <1>3, ChartStep
  <2>2. p # q
    <3>1. q \in D /\ \A e \in Active(E) : E[e].from # f[q]
      OBVIOUS
    <3> HIDE DEF q
    <3>2. Append(q, y) \notin D
      BY <3>1, NothingBelow
    <3> QED
      BY <1>3, <3>2
  <2> QED
    BY <2>1, <2>2
<1>4. ASSUME NEW p \in C, NEW e \in Active(E), E[e].from = f[p]
      PROVE  Append(p, E[e].name) \in C <=> e \in Active(F)
  <2>1. Append(p, E[e].name) \in D /\ p \in Seq(Names) /\ E[e].name \in Names
    BY <1>1, <1>4, ChartNodes, EdgeIn DEF Chart
  <2>2. e = e0 => Append(p, E[e].name) = q
    <3>1. e = e0 => f[p] = f[a] /\ Holder(N, f[p])
      BY <1>4, EdgeIn
    <3> QED
      BY <1>1, <3>1, OnePath
  <2>3. Append(p, E[e].name) = q => e = e0
    <3>1. Append(p, E[e].name) = q => p = a /\ E[e].name = x
      BY <2>1, AppendIs
    <3> QED
      BY <1>1, <1>4, <3>1 DEF Distinct
  <2> QED
    BY <2>1, <2>2, <2>3
<1> HIDE DEF q
<1>5. Chart(F, C, f)
  <2> HIDE DEF C
  <2> QED
    BY <1>2, <1>3, <1>4, FewerChart
<1> QED
  BY <1>5 DEF q

(* remove                                                                     *)
LEMMA UnlinkSeen ==
  ASSUME NEW N, NEW E, NEW D, NEW f, World(N, E, D, f), NEW M, SameNodes(N, M),
         NEW p \in D, p # <<>>, \A e \in Active(E) : E[e].from # f[p]
  PROVE  Volume!Unlink(Seen(N, D, f), Seen(M, D \ {p}, f), p)
<1>1. Rest(D, p) = {<<>>} /\ D \subseteq Seq(Names) /\ p \o <<>> = p
  BY NothingBelow, ChartNodes, JoinIs
<1>2. DOMAIN Seen(N, D, f) = D
  BY DEF Seen
<1>3. Volume!Below(Seen(N, D, f), p) = {p}
  <2>1. PICK t : t = Seen(N, D, f)
    OBVIOUS
  <2>2. Volume!Below(t, p) = {p \o r : r \in Rest(D, p)}
    BY <1>1, <1>2, <2>1, BelowIs
  <2> QED
    BY <1>1, <2>1, <2>2
<1>4. Volume!Without(Seen(N, D, f), Seen(M, D \ {p}, f), D \ (D \ {p}))
  BY WithoutIs
<1>5. D \ (D \ {p}) = {p}
  OBVIOUS
<1> QED
  BY <1>3, <1>4, <1>5 DEF Volume!Unlink

(* What is left of the paths when every placement of the nodes X is archived. *)
Spared(D, f, X) == {q \in D : q = <<>> \/ f[q] \notin X}

LEMMA DestroyChart ==
  ASSUME NEW N, NEW E, NEW D, NEW f, World(N, E, D, f), NEW F, Fewer(E, F),
         NEW X, Closed(E, X), \A e \in Active(E) : e \in Active(F) <=> E[e].to \notin X
  PROVE  Chart(F, Spared(D, f, X), f)
<1> DEFINE C == Spared(D, f, X)
<1>1. Chart(E, D, f)
  BY DEF World
<1>2. <<>> \in C /\ C \in SUBSET D
  BY <1>1 DEF Chart, Spared
<1>3. ASSUME NEW p \in Seq(Names), NEW y \in Names, Append(p, y) \in C PROVE p \in C
  <2>1. Append(p, y) \in D /\ f[Append(p, y)] \notin X
    BY <1>3, AppendIs DEF Spared
  <2>2. p \in D /\ \E e \in Active(E) : E[e].from = f[p] /\ E[e].to = f[Append(p, y)]
    BY <1>1, <2>1, ChartStep
  <2> QED
    BY <2>1, <2>2 DEF Closed, Spared
<1>4. ASSUME NEW p \in C, NEW e \in Active(E), E[e].from = f[p]
      PROVE  Append(p, E[e].name) \in C <=> e \in Active(F)
  <2>1. p \in D /\ p \in Seq(Names) /\ E[e].name \in Names
    BY ChartNodes, EdgeIn DEF Spared
  <2>2. /\ Append(p, E[e].name) \in D /\ f[Append(p, E[e].name)] = E[e].to
        /\ Append(p, E[e].name) # <<>>
    BY <1>1, <1>4, <2>1, AppendIs DEF Chart
  <2> QED
    BY <2>2 DEF Spared
<1>5. Chart(F, C, f)
  <2> HIDE DEF C
  <2> QED
    BY <1>2, <1>3, <1>4, FewerChart
<1> QED
  BY <1>5

LEMMA DestroyedIs ==
  ASSUME NEW N, NEW E, NEW D, NEW f, World(N, E, D, f), NEW p \in D
  PROVE  Volume!Destroyed(Seen(N, D, f), p) = D \ Spared(D, f, Reach(E, f[p]))
<1> DEFINE t == Seen(N, D, f)
           X == Reach(E, f[p])
<1>1. DOMAIN t = D /\ \A q \in D : t[q].id = f[q]
  BY DEF Seen
<1>2. p \in Seq(Names) /\ D \subseteq Seq(Names)
  BY ChartNodes
<1> HIDE DEF t
<1>3. Volume!Below(t, p) = {p \o r : r \in Rest(D, p)}
  BY <1>1, <1>2, BelowIs
<1>4. Volume!IdsBelow(t, p) = {f[p \o r] : r \in Rest(D, p)}
  BY <1>1, <1>3 DEF Volume!IdsBelow, Rest
<1>5. {f[p \o r] : r \in Rest(D, p)} = X
  <2>1. \A r \in Rest(D, p) : f[p \o r] \in X
    BY <1>2, ChartAbove DEF Rest
  <2>2. \A n \in X : \E r \in Rest(D, p) : f[p \o r] = n
    BY <1>2, ReachIsBelow DEF Rest
  <2> QED
    BY <2>1, <2>2
<1> HIDE DEF X
<1>6. Volume!Destroyed(t, p) = {q \in D \ {<<>>} : f[q] \in X}
  BY <1>1, <1>4, <1>5 DEF Volume!Destroyed
<1>7. Volume!Destroyed(t, p) = D \ Spared(D, f, X)
  BY <1>6 DEF Spared
<1> QED
  BY <1>7 DEF t, X

(* remove_recursive                                                           *)
LEMMA DestroySeen ==
  ASSUME NEW N, NEW E, NEW D, NEW f, World(N, E, D, f), NEW M, SameNodes(N, M), NEW p \in D
  PROVE  Volume!Destroy(Seen(N, D, f), Seen(M, Spared(D, f, Reach(E, f[p])), f), p)
<1> DEFINE C == Spared(D, f, Reach(E, f[p]))
<1>1. C \in SUBSET D
  BY DEF Spared
<1>2. Volume!Without(Seen(N, D, f), Seen(M, C, f), D \ C)
  <2> HIDE DEF C
  <2> QED
    BY <1>1, WithoutIs
<1>3. p \in DOMAIN Seen(N, D, f)
  BY DEF Seen
<1> QED
  BY <1>2, <1>3, DestroyedIs DEF Volume!Destroy

---------------------------------------------------------------------------
(* What is linked and moved                                                *)

LEMMA VacantIs ==
  ASSUME NEW N, NEW E, NEW D, NEW f, World(N, E, D, f), NEW a \in D, NEW y \in Names,
         Holder(N, f[a]), Append(a, y) \notin D
  PROVE  Volume!Vacant(Seen(N, D, f), Append(a, y))
<1>1. a \in Seq(Names) /\ Append(a, y) # <<>> /\ Volume!Parent(Append(a, y)) = a
  BY ChartNodes, AppendIs
<1>2. DOMAIN Seen(N, D, f) = D /\ Seen(N, D, f)[a].type = "container"
  BY DEF Seen, Holder
<1> QED
  BY <1>1, <1>2 DEF Volume!Vacant, Volume!CanHold

(* A placement like E's others, or that of n under y in what a leads to.      *)
Gains(E, F, e1, from, n, y) ==
    /\ e1 \in Active(F) /\ F[e1].from = from /\ F[e1].to = n /\ F[e1].name = y
    /\ \A e \in Active(F) \ {e1} :
         /\ e \in Active(E)
         /\ F[e].from = E[e].from /\ F[e].to = E[e].to /\ F[e].name = E[e].name

(* Where the paths lead when what is at s is at q too.                        *)
Linked(D, f, s, q) == [p \in D \cup {q} |-> IF p = q THEN f[s] ELSE f[p]]

(* link                                                                       *)
LEMMA AliasChart ==
  ASSUME NEW N, NEW E, NEW D, NEW f, World(N, E, D, f), NEW F,
         NEW a \in D, NEW y \in Names, Holder(N, f[a]), Append(a, y) \notin D,
         NEW s \in D, ~Holder(N, f[s]),
         NEW e1, Gains(E, F, e1, f[a], f[s], y), Active(F) \ {e1} = Active(E)
  PROVE  Chart(F, D \cup {Append(a, y)}, Linked(D, f, s, Append(a, y)))
<1> DEFINE q == Append(a, y)
           C == D \cup {q}
           g == [p \in C |-> IF p = q THEN f[s] ELSE f[p]]
<1>1. Chart(E, D, f) /\ a \in Seq(Names) /\ q \in Seq(Names) /\ q # <<>> /\ a # q
  BY ChartNodes, AppendIs DEF World
<1>2. g[q] = f[s] /\ \A p \in D : p \in C /\ p # q /\ g[p] = f[p]
  OBVIOUS
<1>3. C \subseteq Seq(Names) /\ <<>> \in C /\ g[<<>>] = Root
  BY <1>1, <1>2 DEF Chart
<1> HIDE DEF g
<1>4. ASSUME NEW p \in Seq(Names), NEW x \in Names, Append(p, x) \in C
      PROVE  /\ p \in C
             /\ \E e \in Active(F) : F[e].from = g[p] /\ F[e].name = x /\ F[e].to = g[Append(p, x)]
  <2>1. CASE Append(p, x) = q
    <3>1. p = a /\ x = y
      BY <1>1, <2>1, AppendIs
    <3> QED
      BY <1>2, <3>1 DEF Gains
  <2>2. CASE Append(p, x) \in D
    <3>1. p \in D
      BY <1>1, <2>2, ChartStep
    <3>2. PICK e \in Active(E) : E[e].from = f[p] /\ E[e].name = x /\ E[e].to = f[Append(p, x)]
      BY <1>1, <2>2, ChartStep
    <3>3. e \in Active(F) /\ F[e].from = f[p] /\ F[e].name = x /\ F[e].to = f[Append(p, x)]
      BY <3>2 DEF Gains
    <3> QED
      BY <1>2, <2>2, <3>1, <3>3
  <2> QED
    BY <1>4, <2>1, <2>2
<1>5. ASSUME NEW p \in C, NEW e \in Active(F), F[e].from = g[p]
      PROVE  Append(p, F[e].name) \in C /\ g[Append(p, F[e].name)] = F[e].to
  <2>1. CASE e = e1
    <3>1. g[p] = f[a] /\ p # q
      BY <1>2, <1>5, <2>1 DEF Gains
    <3>2. p \in D /\ f[p] = f[a]
      BY <1>2, <3>1
    <3>3. p = a
      BY <3>2, OnePath
    <3> QED
      BY <1>2, <2>1, <3>3 DEF Gains
  <2>2. CASE e # e1
    <3>1. /\ e \in Active(E) /\ F[e].from = E[e].from /\ F[e].to = E[e].to
          /\ F[e].name = E[e].name /\ Holder(N, E[e].from)
      BY <2>2, EdgeIn DEF Gains
    <3>2. p \in D /\ E[e].from = f[p]
      BY <1>2, <1>5, <3>1
    <3>3. Append(p, E[e].name) \in D /\ f[Append(p, E[e].name)] = E[e].to
      BY <1>1, <3>1, <3>2, ChartOn
    <3> QED
      BY <1>2, <3>1, <3>3
  <2> QED
    BY <2>1, <2>2
<1>6. Chart(F, C, g)
  <2> HIDE DEF C
  <2> QED
    BY <1>3, <1>4, <1>5 DEF Chart
<1> QED
  BY <1>6 DEF g, Linked

LEMMA AliasSeen ==
  ASSUME NEW N, NEW E, NEW D, NEW f, World(N, E, D, f),
         NEW a \in D, NEW y \in Names, Holder(N, f[a]), Append(a, y) \notin D,
         NEW s \in D, ~Holder(N, f[s])
  PROVE  Volume!Alias(Seen(N, D, f),
                      Seen(N, D \cup {Append(a, y)}, Linked(D, f, s, Append(a, y))),
                      s, Append(a, y))
<1> DEFINE q == Append(a, y)
           g == [p \in D \cup {q} |-> IF p = q THEN f[s] ELSE f[p]]
           t == Seen(N, D, f)
           u == Seen(N, D \cup {q}, g)
<1>1. Volume!Vacant(t, q)
  BY VacantIs
<1>2. N[f[s]].type = "leaf"
  <2>1. N[f[s]] \in NodeRow
    BY ChartNodes DEF World
  <2> QED
    BY <2>1 DEF NodeRow, Types, Holder
<1>3. g[q] = f[s] /\ \A p \in D : p # q /\ g[p] = f[p]
  OBVIOUS
<1> HIDE DEF g, q
<1>4. DOMAIN t = D /\ DOMAIN u = D \cup {q}
  BY DEF Seen
<1>5. u[q] = t[s] /\ t[s].type = "leaf" /\ \A p \in D : u[p] = t[p]
  BY <1>2, <1>3 DEF Seen
<1> HIDE DEF t, u
<1>6. Volume!Alias(t, u, s, q)
  BY <1>1, <1>4, <1>5 DEF Volume!Alias
<1> QED
  BY <1>6 DEF t, u, g, q, Linked

(* The paths when what is at p is put at q, and where they lead.              *)
Moved(D, p, q) == (D \ {p \o r : r \in Rest(D, p)}) \cup {q \o r : r \in Rest(D, p)}
MovedTo(D, f, p, q) ==
    [x \in Moved(D, p, q) |-> IF IsPrefix(q, x) THEN f[p \o Volume!Under(q, x)] ELSE f[x]]

(* z is neither p nor below it.                                              *)
Off(p, z) == \A r \in Seq(Names) : z # p \o r

(* Append and \o, closed to the provers.                                      *)
Step(p, x) == Append(p, x)
Join(p, r) == p \o r

LEMMA StepIs ==
  ASSUME NEW p \in Seq(Names), NEW x \in Names
  PROVE  /\ Step(p, x) \in Seq(Names) /\ Step(p, x) # <<>> /\ Volume!Parent(Step(p, x)) = p
         /\ \A q \in Seq(Names), y \in Names : Step(p, x) = Step(q, y) => p = q /\ x = y
BY AppendIs DEF Step

LEMMA SameStep ==
  ASSUME NEW p \in Seq(Names), NEW x \in Names, NEW q \in Seq(Names), NEW y \in Names,
         Step(p, x) = Step(q, y)
  PROVE  p = q /\ x = y
BY StepIs

LEMMA StepBack ==
  ASSUME NEW p \in Seq(Names), p # <<>>
  PROVE  \E q \in Seq(Names), x \in Names : p = Step(q, x)
BY LastStep DEF Step

LEMMA JoinStep ==
  ASSUME NEW p \in Seq(Names), NEW r \in Seq(Names)
  PROVE  /\ Join(p, r) \in Seq(Names) /\ Join(p, <<>>) = p /\ <<>> \in Seq(Names)
         /\ \A x \in Names : Join(p, Step(r, x)) = Step(Join(p, r), x)
         /\ \A s \in Seq(Names) : Join(p, r) = Join(p, s) => r = s
<1>1. Join(p, r) \in Seq(Names) /\ Join(p, <<>>) = p /\ <<>> \in Seq(Names)
  BY JoinIs DEF Join
<1>2. \A x \in Names : Join(p, Step(r, x)) = Step(Join(p, r), x)
  BY JoinAppend DEF Step, Join
<1>3. \A s \in Seq(Names) : Join(p, r) = Join(p, s) => r = s
  BY JoinCancels DEF Join
<1> QED
  BY <1>1, <1>2, <1>3

LEMMA StepJoin ==
  ASSUME NEW p \in Seq(Names), NEW r \in Seq(Names), NEW a \in Seq(Names), NEW x \in Names,
         Step(a, x) = Join(p, r)
  PROVE  \/ r = <<>> /\ p = Step(a, x)
         \/ \E s \in Seq(Names) : r = Step(s, x) /\ a = Join(p, s)
<1>1. Append(a, x) = p \o r
  BY DEF Step, Join
<1>2. \/ r = <<>> /\ p = Append(a, x)
      \/ r # <<>> /\ a = p \o Front(r) /\ x = Last(r)
  BY <1>1, StepBelow
<1>3. CASE r # <<>>
  <2>1. Front(r) \in Seq(Names) /\ r = Append(Front(r), Last(r))
    BY <1>3, LastStep
  <2> QED
    BY <1>2, <1>3, <2>1 DEF Step, Join
<1> QED
  BY <1>2, <1>3 DEF Step

LEMMA JoinLonger ==
  ASSUME NEW p \in Seq(Names), NEW x \in Names, NEW r \in Seq(Names)
  PROVE  p # Join(Step(p, x), r)
<1> SUFFICES ASSUME p = Join(Step(p, x), r) PROVE FALSE
  OBVIOUS
<1>1. PICK q \in Seq(Names) : q = Step(p, x) /\ Len(q) = Len(p) + 1 /\ Len(p) \in Nat
  BY AppendIs DEF Step
<1>2. Len(p) = Len(q) + Len(r) /\ Len(r) \in Nat
  BY <1>1, JoinIs DEF Join
<1> QED
  BY <1>1, <1>2

LEMMA RestIs ==
  ASSUME NEW D, NEW p
  PROVE  \A r : r \in Rest(D, p) <=> r \in Seq(Names) /\ Join(p, r) \in D
BY DEF Rest, Join

LEMMA OffIs ==
  ASSUME NEW p, NEW z
  PROVE  Off(p, z) <=> \A r \in Seq(Names) : z # Join(p, r)
BY DEF Off, Join

(* Chart, ChartStep and ChartOn, for Step.                                    *)
LEMMA ChartSteps ==
  ASSUME NEW E, NEW D, NEW f
  PROVE  Chart(E, D, f) <=>
           /\ D \subseteq Seq(Names) /\ <<>> \in D /\ f[<<>>] = Root
           /\ \A p \in Seq(Names), x \in Names : Step(p, x) \in D =>
                /\ p \in D
                /\ \E e \in Active(E) : /\ E[e].from = f[p] /\ E[e].name = x
                                        /\ E[e].to = f[Step(p, x)]
           /\ \A p \in D, e \in Active(E) : E[e].from = f[p] =>
                Step(p, E[e].name) \in D /\ f[Step(p, E[e].name)] = E[e].to
BY DEF Chart, Step

LEMMA ChartUp ==
  ASSUME NEW E, NEW D, NEW f, Chart(E, D, f), NEW p \in Seq(Names), NEW x \in Names,
         Step(p, x) \in D
  PROVE  /\ p \in D
         /\ \E e \in Active(E) : E[e].from = f[p] /\ E[e].name = x /\ E[e].to = f[Step(p, x)]
BY DEF Chart, Step

LEMMA ChartDown ==
  ASSUME NEW E, NEW D, NEW f, Chart(E, D, f), NEW p \in D, NEW e \in Active(E), E[e].from = f[p]
  PROVE  Step(p, E[e].name) \in D /\ f[Step(p, E[e].name)] = E[e].to
BY DEF Chart, Step

(* C and g are the paths and nodes of D and f after a move of p to q.         *)
Shifts(D, f, p, q, C, g) ==
    /\ C \subseteq Seq(Names)
    /\ \A r \in Rest(D, p) :
         /\ r \in Seq(Names) /\ Join(p, r) \in D /\ Join(q, r) \in Seq(Names)
         /\ Join(q, r) \in C /\ Join(q, r) \notin D
         /\ g[Join(q, r)] = f[Join(p, r)]
    /\ \A x \in D : Off(p, x) => x \in C /\ g[x] = f[x]
    /\ \A x \in C : (\E r \in Rest(D, p) : x = Join(q, r)) \/ (x \in D /\ Off(p, x))

LEMMA MovedIs ==
  ASSUME NEW N, NEW E, NEW D, NEW f, World(N, E, D, f), NEW p \in Seq(Names), NEW q \in Seq(Names),
         q \notin D
  PROVE  Shifts(D, f, p, q, Moved(D, p, q), MovedTo(D, f, p, q))
<1> DEFINE C == Moved(D, p, q)
           g == MovedTo(D, f, p, q)
<1>1. D \subseteq Seq(Names)
  BY ChartNodes
<1>2. ASSUME NEW r \in Rest(D, p)
      PROVE  r \in Seq(Names) /\ p \o r \in D /\ q \o r \in Seq(Names) /\ q \o r \in C
             /\ q \o r \notin D /\ IsPrefix(q, q \o r) /\ Volume!Under(q, q \o r) = r
  <2>1. r \in Seq(Names) /\ p \o r \in D /\ q \o r \in C
    BY DEF Rest, Moved
  <2>2. q \o r \in Seq(Names)
    BY <2>1, JoinIs
  <2>3. q \o r \notin D
    BY <2>1, ChartAbove
  <2>4. IsPrefix(q, q \o r) /\ Volume!Under(q, q \o r) = r
    BY <2>1, <2>2, UnderIs
  <2> QED
    BY <2>1, <2>2, <2>3, <2>4
<1>3. ASSUME NEW x \in D PROVE ~IsPrefix(q, x)
  <2>1. SUFFICES ASSUME IsPrefix(q, x) PROVE FALSE
    OBVIOUS
  <2>2. PICK r \in Seq(Names) : x = q \o r
    BY <1>1, <2>1, UnderIs
  <2> QED
    BY <2>2, ChartAbove
<1>4. \A x \in C : g[x] = IF IsPrefix(q, x) THEN f[p \o Volume!Under(q, x)] ELSE f[x]
  BY DEF MovedTo
<1>5. \A r \in Rest(D, p) : g[q \o r] = f[p \o r]
  <2> HIDE DEF C, g
  <2> QED
    BY <1>2, <1>4
<1>6. \A x \in D : Off(p, x) => x \in C
  BY DEF Moved, Rest, Off
<1>7. \A x \in C : \/ \E r \in Rest(D, p) : x = q \o r
                   \/ x \in D /\ Off(p, x)
  BY DEF Moved, Rest, Off
<1> HIDE DEF C, g
<1>8. \A x \in D : Off(p, x) => g[x] = f[x]
  BY <1>3, <1>4, <1>6
<1>9. C \subseteq Seq(Names)
  BY <1>1, <1>2, <1>7
<1>10. Shifts(D, f, p, q, C, g)
  BY <1>2, <1>5, <1>6, <1>7, <1>8, <1>9 DEF Shifts, Join
<1> QED
  BY <1>10 DEF C, g

(* What follows a path that is not below p is not either, but for p.          *)
LEMMA OffStep ==
  ASSUME NEW p \in Seq(Names), NEW z \in Seq(Names), NEW w \in Names
  PROVE  /\ Off(p, z) /\ Step(z, w) # p => Off(p, Step(z, w))
         /\ Off(p, Step(z, w)) => Off(p, z) /\ Step(z, w) # p
<1>1. ASSUME Off(p, z), Step(z, w) # p, NEW r \in Seq(Names), Step(z, w) = Join(p, r) PROVE FALSE
  <2>1. PICK s \in Seq(Names) : z = Join(p, s)
    BY <1>1, StepJoin
  <2> QED
    BY <1>1, <2>1, OffIs
<1>2. ASSUME Off(p, Step(z, w)), NEW r \in Seq(Names), z = Join(p, r) PROVE FALSE
  <2>1. Join(p, Step(r, w)) = Step(z, w) /\ Step(r, w) \in Seq(Names)
    BY <1>2, JoinStep, StepIs
  <2> QED
    BY <1>2, <2>1, OffIs
<1>3. Off(p, Step(z, w)) => Step(z, w) # p
  BY JoinStep, OffIs
<1> QED
  BY <1>1, <1>2, <1>3, OffIs

(* rename, move: the placement of p, x in a's container, is now that of q.    *)
LEMMA MovedChart ==
  ASSUME NEW N, NEW E, NEW D, NEW f, World(N, E, D, f), NEW F,
         NEW a \in Seq(Names), NEW x \in Names, NEW p, p = Step(a, x), p \in D,
         NEW b \in D, NEW y \in Names, Holder(N, f[b]), NEW q, q = Step(b, y), q \notin D,
         f[b] \notin Reach(E, f[p]),
         NEW e0 \in Active(E), E[e0].from = f[a], E[e0].name = x,
         NEW e1, Gains(E, F, e1, f[b], f[p], y), Active(F) \ {e1} = Active(E) \ {e0}
  PROVE  Chart(F, Moved(D, p, q), MovedTo(D, f, p, q))
<1> DEFINE C == Moved(D, p, q)
           g == MovedTo(D, f, p, q)
<1>1. /\ Chart(E, D, f) /\ b \in Seq(Names) /\ p \in Seq(Names) /\ q \in Seq(Names) /\ p # <<>>
      /\ Join(p, <<>>) = p /\ Join(q, <<>>) = q /\ <<>> \in Seq(Names) /\ Distinct(E)
      /\ <<>> \in D /\ f[<<>>] = Root
  BY ChartNodes, StepIs, JoinStep DEF World, Chart
<1>2. /\ a \in D /\ f[a] \in Nat /\ Holder(N, f[a])
  BY <1>1, ChartSteps, ChartNodes DEF Step
<1>3. /\ C \subseteq Seq(Names)
      /\ \A r \in Rest(D, p) : /\ r \in Seq(Names) /\ Join(p, r) \in D /\ Join(q, r) \in Seq(Names)
                               /\ Join(q, r) \in C /\ Join(q, r) \notin D
                               /\ g[Join(q, r)] = f[Join(p, r)]
      /\ \A z \in D : Off(p, z) => z \in C /\ g[z] = f[z]
      /\ \A z \in C : (\E r \in Rest(D, p) : z = Join(q, r)) \/ (z \in D /\ Off(p, z))
  <2>1. Shifts(D, f, p, q, C, g)
    BY <1>1, MovedIs
  <2> HIDE DEF C, g
  <2> QED
    BY <2>1 DEF Shifts
<1>4. <<>> \in Rest(D, p) /\ \A r : r \in Rest(D, p) <=> r \in Seq(Names) /\ Join(p, r) \in D
  <2>1. \A r : r \in Rest(D, p) <=> r \in Seq(Names) /\ Join(p, r) \in D
    BY RestIs
  <2> QED
    BY <1>1, <2>1
<1> HIDE DEF C, g
<1>5. q \in C /\ g[q] = f[p]
  BY <1>1, <1>3, <1>4
<1>6. Off(p, b)
  <2> SUFFICES ASSUME NEW r \in Seq(Names), b = Join(p, r) PROVE FALSE
    BY OffIs
  <2>1. f[b] \in Reach(E, f[p])
    BY <1>1, ChartAbove DEF Join
  <2> QED
    BY <2>1
<1>7. Off(p, a) /\ Off(p, <<>>)
  <2>1. Off(p, a)
    BY JoinLonger, OffIs
  <2>2. ASSUME NEW r \in Seq(Names), <<>> = Join(p, r) PROVE FALSE
    <3>1. CASE r = <<>>
      BY <1>1, <2>2, <3>1
    <3>2. CASE r # <<>>
      <4>1. PICK s \in Seq(Names), v \in Names : r = Step(s, v)
        BY <3>2, StepBack
      <4>2. Join(p, r) = Step(Join(p, s), v) /\ Join(p, s) \in Seq(Names)
        BY <1>1, <4>1, JoinStep
      <4> QED
        BY <2>2, <4>2, StepIs
    <3> QED
      BY <3>1, <3>2
  <2> QED
    BY <2>1, <2>2, OffIs
<1>8. <<>> \in C /\ g[<<>>] = Root
  BY <1>1, <1>3, <1>7
<1>9. \A e \in Active(E) \ {e0} : /\ e \in Active(F) \ {e1} /\ F[e].from = E[e].from
                                  /\ F[e].to = E[e].to /\ F[e].name = E[e].name
  BY DEF Gains
<1>10. ASSUME NEW z \in Seq(Names), NEW w \in Names, Step(z, w) \in C
       PROVE  /\ z \in C
              /\ \E e \in Active(F) : F[e].from = g[z] /\ F[e].name = w /\ F[e].to = g[Step(z, w)]
  <2>1. CASE Step(z, w) = q
    <3>1. z = b /\ w = y
      BY <1>1, <2>1, StepIs
    <3>2. b \in C /\ g[b] = f[b]
      BY <1>3, <1>6
    <3> QED
      BY <1>5, <2>1, <3>1, <3>2 DEF Gains
  <2>2. ASSUME NEW r \in Rest(D, p), Step(z, w) = Join(q, r), Step(z, w) # q
        PROVE  /\ z \in C
               /\ \E e \in Active(F) : F[e].from = g[z] /\ F[e].name = w /\ F[e].to = g[Step(z, w)]
    <3>1. r \in Seq(Names) /\ Join(p, r) \in D /\ g[Join(q, r)] = f[Join(p, r)]
      BY <1>3
    <3>2. PICK s \in Seq(Names) : r = Step(s, w) /\ z = Join(q, s)
      BY <1>1, <2>2, <3>1, StepJoin
    <3>3. PICK v \in Seq(Names) : v = Join(p, s)
      BY <1>1, JoinStep
    <3>4. Join(p, r) = Step(v, w) /\ Step(v, w) \in D
      BY <1>1, <3>1, <3>2, <3>3, JoinStep
    <3>5. /\ v \in D
          /\ \E e \in Active(E) : E[e].from = f[v] /\ E[e].name = w /\ E[e].to = f[Step(v, w)]
      BY <1>1, <3>4, ChartUp
    <3>6. PICK e \in Active(E) : E[e].from = f[v] /\ E[e].name = w /\ E[e].to = f[Step(v, w)]
      BY <3>5
    <3>7. s \in Rest(D, p)
      BY <1>4, <3>3, <3>5
    <3>8. z \in C /\ g[z] = f[v] /\ g[Step(z, w)] = f[Step(v, w)]
      BY <1>3, <2>2, <3>1, <3>2, <3>3, <3>4, <3>7
    <3>9. e # e0
      <4> SUFFICES ASSUME e = e0 PROVE FALSE
        OBVIOUS
      <4>1. f[v] = f[a]
        BY <3>6
      <4>2. v = a
        BY <1>2, <3>5, <4>1, OnePath
      <4> QED
        BY <1>7, <3>3, <4>2, OffIs
    <3> QED
      BY <1>9, <3>6, <3>8, <3>9
  <2>3. CASE Step(z, w) \in D /\ Off(p, Step(z, w))
    <3>1. /\ z \in D
          /\ \E e \in Active(E) : E[e].from = f[z] /\ E[e].name = w /\ E[e].to = f[Step(z, w)]
      BY <1>1, <2>3, ChartUp
    <3>2. PICK e \in Active(E) : E[e].from = f[z] /\ E[e].name = w /\ E[e].to = f[Step(z, w)]
      BY <3>1
    <3>3. Off(p, z) /\ Step(z, w) # p
      BY <1>1, <2>3, OffStep
    <3>4. e # e0
      <4> SUFFICES ASSUME e = e0 PROVE FALSE
        OBVIOUS
      <4>1. f[z] = f[a]
        BY <3>2
      <4>2. z = a
        BY <1>2, <3>1, <4>1, OnePath
      <4> QED
        BY <3>2, <3>3, <4>2
    <3>5. z \in C /\ g[z] = f[z] /\ g[Step(z, w)] = f[Step(z, w)]
      BY <1>3, <2>3, <3>1, <3>3
    <3> QED
      BY <1>9, <3>2, <3>4, <3>5
  <2> QED
    BY <1>3, <1>10, <2>1, <2>2, <2>3
<1>11. ASSUME NEW z \in C, NEW e \in Active(F), F[e].from = g[z]
       PROVE  Step(z, F[e].name) \in C /\ g[Step(z, F[e].name)] = F[e].to
  <2>1. CASE e = e1
    <3>1. F[e].from = f[b] /\ F[e].name = y /\ F[e].to = f[p] /\ g[z] = f[b]
      BY <1>11, <2>1 DEF Gains
    <3>2. ASSUME NEW r \in Rest(D, p), z = Join(q, r) PROVE FALSE
      <4>1. f[Join(p, r)] = f[b] /\ Join(p, r) \in D /\ r \in Seq(Names)
        BY <1>3, <3>1, <3>2
      <4>2. b = Join(p, r)
        BY <4>1, OnePath
      <4> QED
        BY <1>6, <4>1, <4>2, OffIs
    <3>3. z \in D /\ f[z] = f[b]
      BY <1>3, <3>1, <3>2
    <3>4. z = b
      BY <3>3, OnePath
    <3> QED
      BY <1>5, <3>1, <3>4
  <2>2. CASE e # e1
    <3>1. /\ e \in Active(E) \ {e0}
          /\ F[e].from = E[e].from /\ F[e].to = E[e].to /\ F[e].name = E[e].name
      BY <2>2 DEF Gains
    <3>2. E[e].name \in Names /\ Holder(N, E[e].from)
      BY <3>1, EdgeIn
    <3>3. ASSUME NEW r \in Rest(D, p), z = Join(q, r)
          PROVE  Step(z, F[e].name) \in C /\ g[Step(z, F[e].name)] = F[e].to
      <4>1. r \in Seq(Names) /\ Join(p, r) \in D /\ E[e].from = f[Join(p, r)]
        BY <1>3, <1>11, <3>1, <3>3
      <4>2. Step(Join(p, r), E[e].name) \in D /\ f[Step(Join(p, r), E[e].name)] = E[e].to
        BY <1>1, <3>1, <4>1, ChartSteps
      <4>3. PICK s \in Seq(Names) : s = Step(r, E[e].name)
        BY <3>2, <4>1, StepIs
      <4>4. Join(p, s) = Step(Join(p, r), E[e].name) /\ Join(q, s) = Step(z, E[e].name)
        BY <1>1, <3>2, <3>3, <4>1, <4>3, JoinStep
      <4>5. s \in Rest(D, p)
        BY <1>4, <4>2, <4>4
      <4> QED
        BY <1>3, <3>1, <4>2, <4>4, <4>5
    <3>4. CASE z \in D /\ Off(p, z)
      <4>1. E[e].from = f[z] /\ z \in Seq(Names)
        BY <1>3, <1>11, <3>1, <3>4
      <4>2. Step(z, E[e].name) \in D /\ f[Step(z, E[e].name)] = E[e].to
        BY <1>1, <3>1, <3>4, <4>1, ChartSteps
      <4>3. Step(z, E[e].name) # p
        <5> SUFFICES ASSUME Step(z, E[e].name) = p PROVE FALSE
          OBVIOUS
        <5>1. PICK k \in Names : k = E[e].name
          BY <3>2
        <5>2. Step(z, k) = Step(a, x)
          BY <5>1
        <5>3. z = a /\ k = x
          BY <4>1, <5>2, SameStep
        <5> QED
          BY <1>1, <3>1, <4>1, <5>1, <5>3 DEF Distinct
      <4>4. Off(p, Step(z, E[e].name))
        BY <1>1, <3>2, <3>4, <4>1, <4>3, OffStep
      <4> QED
        BY <1>3, <3>1, <4>2, <4>4
    <3> QED
      BY <1>3, <3>3, <3>4
  <2> QED
    BY <2>1, <2>2
<1>12. Chart(F, C, g)
  BY <1>3, <1>8, <1>10, <1>11, ChartSteps
<1> QED
  BY <1>12 DEF C, g

LEMMA UnderJoin ==
  ASSUME NEW p \in Seq(Names), NEW r \in Seq(Names), NEW x, x = Join(p, r)
  PROVE  Volume!IsPrefix(p, x) /\ Volume!Under(p, x) = r /\ x \in Seq(Names)
<1>1. PICK q \in Seq(Names) : q = x
  BY JoinStep
<1>2. q = p \o r
  BY <1>1 DEF Join
<1>3. IsPrefix(p, q) /\ Volume!Under(p, q) = r
  BY <1>2, UnderIs
<1> QED
  BY <1>1, <1>3, PrefixIs

LEMMA PrefixJoin ==
  ASSUME NEW p \in Seq(Names), NEW q \in Seq(Names), Volume!IsPrefix(p, q)
  PROVE  \E r \in Seq(Names) : q = Join(p, r)
<1>1. IsPrefix(p, q)
  BY PrefixIs
<1> QED
  BY <1>1, UnderIs DEF Join

LEMMA JoinAbove ==
  ASSUME NEW N, NEW E, NEW D, NEW f, World(N, E, D, f), NEW p \in Seq(Names),
         NEW r \in Seq(Names), NEW x \in D, x = Join(p, r)
  PROVE  p \in D /\ f[x] \in Reach(E, f[p])
<1>1. x = p \o r /\ p \o r \in D
  BY DEF Join
<1>2. p \in D /\ f[p \o r] \in Reach(E, f[p])
  BY <1>1, ChartAbove
<1> QED
  BY <1>1, <1>2

(* rename, move: seen from the paths                                          *)
LEMMA RelocateSeen ==
  ASSUME NEW N, NEW E, NEW D, NEW f, World(N, E, D, f), NEW M, SameNodes(N, M),
         NEW p \in D, p # <<>>,
         NEW b \in D, NEW y \in Names, Holder(N, f[b]), NEW q, q = Step(b, y), q \notin D,
         f[b] \notin Reach(E, f[p])
  PROVE  Volume!Relocate(Seen(N, D, f), Seen(M, Moved(D, p, q), MovedTo(D, f, p, q)), p, q)
<1> DEFINE C == Moved(D, p, q)
           g == MovedTo(D, f, p, q)
           t == Seen(N, D, f)
           u == Seen(M, C, g)
<1>1. p \in Seq(Names) /\ b \in Seq(Names) /\ q \in Seq(Names) /\ D \subseteq Seq(Names)
  BY ChartNodes, StepIs
<1>2. Volume!Vacant(t, q)
  BY VacantIs DEF Step
<1>3. ~Volume!IsPrefix(p, q)
  <2>1. Off(p, b)
    <3> SUFFICES ASSUME NEW r \in Seq(Names), b = Join(p, r) PROVE FALSE
      BY OffIs
    <3>1. f[b] \in Reach(E, f[p])
      BY <1>1, ChartAbove DEF Join
    <3> QED
      BY <3>1
  <2>2. Off(p, q)
    BY <1>1, <2>1, OffStep
  <2> QED
    BY <1>1, <2>2, PrefixJoin, OffIs
<1>4. DOMAIN t = D /\ DOMAIN u = C
  BY DEF Seen
<1>5. \A x \in D : t[x] = [id |-> f[x], type |-> N[f[x]].type, data |-> N[f[x]].data]
  BY DEF Seen
<1>6. \A x \in C : u[x] = [id |-> g[x], type |-> M[g[x]].type, data |-> M[g[x]].data]
  BY DEF Seen
<1>7. \A x \in D : f[x] \in DOMAIN N /\ M[f[x]].type = N[f[x]].type /\ M[f[x]].data = N[f[x]].data
  BY ChartNodes DEF SameNodes
<1>8. ASSUME NEW x \in C, NEW z \in D, g[x] = f[z] PROVE u[x] = t[z]
  <2>1. M[f[z]].type = N[f[z]].type /\ M[f[z]].data = N[f[z]].data
    BY <1>7
  <2>2. u[x] = [id |-> g[x], type |-> M[g[x]].type, data |-> M[g[x]].data]
    BY <1>6
  <2>3. t[z] = [id |-> f[z], type |-> N[f[z]].type, data |-> N[f[z]].data]
    BY <1>5
  <2> HIDE DEF t, u, C, g
  <2>4. u[x] = [id |-> f[z], type |-> M[f[z]].type, data |-> M[f[z]].data]
    BY <1>8, <2>2
  <2> QED
    BY <2>1, <2>3, <2>4
<1>9. Shifts(D, f, p, q, C, g)
  BY <1>1, MovedIs
<1>10. C = (D \ {p \o r : r \in Rest(D, p)}) \cup {q \o r : r \in Rest(D, p)}
  BY DEF Moved
<1> HIDE DEF t, u, C, g
<1>11. DOMAIN u = (DOMAIN t \ Volume!Below(t, p)) \cup {q \o Volume!Under(p, x) : x \in Volume!Below(t, p)}
  <2>1. /\ Volume!Below(t, p) = {p \o r : r \in Rest(D, p)}
        /\ {Volume!Under(p, x) : x \in Volume!Below(t, p)} = Rest(D, p)
    BY <1>1, <1>4, BelowIs
  <2>2. {q \o Volume!Under(p, x) : x \in Volume!Below(t, p)} = {q \o r : r \in Rest(D, p)}
    BY <2>1
  <2> QED
    BY <1>4, <1>10, <2>1, <2>2
<1>12. ASSUME NEW x \in C
       PROVE  u[x] = IF Volume!IsPrefix(q, x) THEN t[p \o Volume!Under(q, x)] ELSE t[x]
  <2>1. ASSUME NEW r \in Rest(D, p), x = Join(q, r)
        PROVE  Volume!IsPrefix(q, x) /\ u[x] = t[p \o Volume!Under(q, x)]
    <3>1. r \in Seq(Names) /\ Join(p, r) \in D /\ g[x] = f[Join(p, r)]
      BY <1>9, <2>1 DEF Shifts
    <3>2. PICK z \in D : z = Join(p, r)
      BY <3>1
    <3>3. Volume!IsPrefix(q, x) /\ Volume!Under(q, x) = r
      BY <1>1, <2>1, <3>1, UnderJoin
    <3>4. u[x] = t[z]
      BY <1>8, <3>1, <3>2
    <3>5. p \o Volume!Under(q, x) = z
      BY <3>2, <3>3 DEF Join
    <3> QED
      BY <3>3, <3>4, <3>5
  <2>2. ASSUME x \in D, Off(p, x)
        PROVE  ~Volume!IsPrefix(q, x) /\ u[x] = t[x]
    <3>1. ~Volume!IsPrefix(q, x)
      <4> SUFFICES ASSUME Volume!IsPrefix(q, x) PROVE FALSE
        OBVIOUS
      <4>1. PICK r \in Seq(Names) : x = Join(q, r)
        BY <1>1, <2>2, PrefixJoin
      <4> QED
        BY <1>1, <2>2, <4>1, JoinAbove
    <3>2. g[x] = f[x]
      BY <1>9, <2>2 DEF Shifts
    <3> QED
      BY <1>8, <2>2, <3>1, <3>2
  <2> QED
    BY <1>9, <2>1, <2>2 DEF Shifts
<1>13. Volume!Relocate(t, u, p, q)
  BY <1>2, <1>3, <1>4, <1>11, <1>12 DEF Volume!Relocate
<1> QED
  BY <1>13 DEF t, u, C, g

---------------------------------------------------------------------------
(* What is grafted                                                         *)

Routes(rows, k, f) ==
    f = [i \in 0..k |-> IF i <= 1 THEN <<>> ELSE Append(f[rows[i].p], rows[i].n)]

LEMMA RoutesAt ==
  ASSUME NEW rows, NEW k \in Nat, NEW f, Routes(rows, k, f)
  PROVE  \A i \in 0..k : f[i] = IF i <= 1 THEN <<>> ELSE Append(f[rows[i].p], rows[i].n)
<1> DEFINE h == [i \in 0..k |-> IF i <= 1 THEN <<>> ELSE Append(f[rows[i].p], rows[i].n)]
<1>1. f = h
  BY DEF Routes
<1>2. \A i \in 0..k : h[i] = IF i <= 1 THEN <<>> ELSE Append(f[rows[i].p], rows[i].n)
  OBVIOUS
<1> HIDE DEF h
<1> QED
  BY <1>1, <1>2

LEMMA RoutesExist ==
  ASSUME NEW rows, RowsOk(rows)
  PROVE  \A k \in 0..Len(rows) : \E f : Routes(rows, k, f)
<1> DEFINE wrong == {k \in 0..Len(rows) : ~\E f : Routes(rows, k, f)}
<1>1. Len(rows) \in Nat /\ DOMAIN rows = 1..Len(rows)
  BY DEF RowsOk
<1> SUFFICES ASSUME wrong # {} PROVE FALSE
  OBVIOUS
<1>2. PICK k \in wrong : \A j \in wrong : k <= j
  <2>1. wrong \in SUBSET Nat
    BY <1>1
  <2> HIDE DEF wrong
  <2> QED
    BY <2>1, SmallestOf
<1>3. k # 0
  <2> DEFINE f == [i \in 0..0 |-> <<>>]
  <2>1. f = [i \in 0..0 |-> IF i <= 1 THEN <<>> ELSE Append(f[rows[i].p], rows[i].n)]
    <3>1. \A i \in 0..0 : i <= 1
      OBVIOUS
    <3> QED
      BY <3>1
  <2>2. Routes(rows, 0, f)
    <3> HIDE DEF f
    <3> QED
      BY <2>1 DEF Routes
  <2> QED
    BY <2>2
<1>4. k \in Nat /\ k - 1 \in Nat /\ k - 1 \in 0..Len(rows) /\ ~(k <= k - 1)
  BY <1>1, <1>3
<1>5. PICK g : Routes(rows, k - 1, g)
  BY <1>2, <1>4
<1>6. \A i \in 0..(k - 1) : g[i] = IF i <= 1 THEN <<>> ELSE Append(g[rows[i].p], rows[i].n)
  BY <1>4, <1>5, RoutesAt
<1> DEFINE f == [i \in 0..k |-> IF i = k THEN (IF k <= 1 THEN <<>> ELSE Append(g[rows[k].p], rows[k].n))
                                ELSE g[i]]
<1>7. \A i \in 0..k : f[i] = IF i = k THEN (IF k <= 1 THEN <<>> ELSE Append(g[rows[k].p], rows[k].n))
                             ELSE g[i]
  OBVIOUS
<1>8. f = [i \in 0..k |-> f[i]]
  OBVIOUS
<1> HIDE DEF f
<1>9. ASSUME NEW i \in 0..k
      PROVE  f[i] = IF i <= 1 THEN <<>> ELSE Append(f[rows[i].p], rows[i].n)
  <2>1. i \in 0..Len(rows)
    BY <1>1, <1>4
  <2>2. ASSUME ~(i <= 1) PROVE f[rows[i].p] = g[rows[i].p]
    <3>1. i \in DOMAIN rows
      BY <1>1, <2>1, <2>2
    <3>2. rows[i].p \in Nat /\ rows[i].p < i
      BY <3>1, RowTypes
    <3>3. PICK j \in Nat : j = rows[i].p
      BY <3>2
    <3>4. j \in 0..k /\ j # k
      BY <1>4, <3>2, <3>3
    <3> QED
      BY <1>7, <3>3, <3>4
  <2>3. CASE i = k
    <3>1. f[i] = IF i <= 1 THEN <<>> ELSE Append(g[rows[i].p], rows[i].n)
      BY <1>7, <2>3
    <3> QED
      BY <2>2, <3>1
  <2>4. CASE i # k
    <3>1. i \in 0..(k - 1)
      BY <1>4, <2>4
    <3>2. f[i] = IF i <= 1 THEN <<>> ELSE Append(g[rows[i].p], rows[i].n)
      BY <1>6, <1>7, <2>4, <3>1
    <3> QED
      BY <2>2, <3>2
  <2> QED
    BY <2>3, <2>4
<1>10. Routes(rows, k, f)
  BY <1>8, <1>9 DEF Routes
<1> QED
  BY <1>10

LEMMA PathOfRowIs ==
  ASSUME NEW rows, RowsOk(rows)
  PROVE  /\ PathOfRow(rows)[1] = <<>>
         /\ \A i \in DOMAIN rows : i # 1 =>
              PathOfRow(rows)[i] = Step(PathOfRow(rows)[rows[i].p], rows[i].n)
<1>1. Len(rows) \in Nat /\ DOMAIN rows = 1..Len(rows) /\ 1 \in 1..Len(rows)
  BY DEF RowsOk
<1>2. Len(rows) \in 0..Len(rows)
  BY <1>1
<1>3. PICK f : Routes(rows, Len(rows), f)
  BY <1>2, RoutesExist
<1> DEFINE Good(P) == P = [i \in 0..Len(rows) |-> IF i <= 1 THEN <<>> ELSE Append(P[rows[i].p], rows[i].n)]
<1>4. PathOfRow(rows) = CHOOSE P : Good(P)
  BY DEF PathOfRow
<1>5. Good(f)
  BY <1>3 DEF Routes
<1>6. Good(PathOfRow(rows))
  <2> HIDE DEF Good
  <2> QED
    BY <1>4, <1>5
<1>7. Routes(rows, Len(rows), PathOfRow(rows))
  BY <1>6 DEF Routes
<1>8. \A i \in 0..Len(rows) : PathOfRow(rows)[i] =
        IF i <= 1 THEN <<>> ELSE Append(PathOfRow(rows)[rows[i].p], rows[i].n)
  BY <1>1, <1>7, RoutesAt
<1>9. \A i \in DOMAIN rows : i \in 0..Len(rows) /\ (i # 1 => ~(i <= 1))
  BY <1>1
<1>10. 1 \in 0..Len(rows) /\ 1 <= 1
  BY <1>1
<1>11. PathOfRow(rows)[1] = <<>>
  BY <1>8, <1>10
<1>12. ASSUME NEW i \in DOMAIN rows, i # 1
       PROVE  PathOfRow(rows)[i] = Step(PathOfRow(rows)[rows[i].p], rows[i].n)
  <2>1. PathOfRow(rows)[i] = Append(PathOfRow(rows)[rows[i].p], rows[i].n)
    BY <1>8, <1>9, <1>12
  <2> QED
    BY <2>1 DEF Step
<1> QED
  BY <1>11, <1>12

(* The path of row i, from the path of the first.                            *)
Route(rows, i) == PathOfRow(rows)[i]

LEMMA RouteIs ==
  ASSUME NEW rows, RowsOk(rows), Tidy(rows)
  PROVE  /\ 1 \in DOMAIN rows /\ Route(rows, 1) = <<>> /\ rows[1].p = 0
         /\ \A i \in DOMAIN rows : i # 1 =>
              /\ rows[i].p \in DOMAIN rows /\ rows[i].p < i /\ rows[i].n \in Names
              /\ Route(rows, i) = Step(Route(rows, rows[i].p), rows[i].n)
<1>1. 1 \in DOMAIN rows
  BY DEF RowsOk
<1>2. rows[1].p = 0
  BY <1>1, RowTypes
<1>3. ASSUME NEW i \in DOMAIN rows, i # 1
      PROVE  /\ rows[i].p \in DOMAIN rows /\ rows[i].p < i /\ rows[i].n \in Names
             /\ Route(rows, i) = Step(Route(rows, rows[i].p), rows[i].n)
  <2>1. rows[i].p # 0
    BY <1>3 DEF Tidy
  <2> QED
    BY <1>3, <2>1, RowTypes, PathOfRowIs DEF Route
<1> QED
  BY <1>1, <1>2, <1>3, PathOfRowIs DEF Route

LEMMA RouteTypes ==
  ASSUME NEW rows, RowsOk(rows), Tidy(rows)
  PROVE  \A i \in DOMAIN rows : Route(rows, i) \in Seq(Names)
<1> DEFINE wrong == {i \in DOMAIN rows : Route(rows, i) \notin Seq(Names)}
<1> SUFFICES ASSUME wrong # {} PROVE FALSE
  OBVIOUS
<1>1. PICK i \in wrong : \A j \in wrong : i <= j
  <2>1. wrong \in SUBSET Nat
    BY DEF RowsOk
  <2> HIDE DEF wrong
  <2> QED
    BY <2>1, SmallestOf
<1>2. <<>> \in Seq(Names) /\ i \in DOMAIN rows /\ Route(rows, i) \notin Seq(Names)
  OBVIOUS
<1>3. i # 1
  BY <1>2, RouteIs
<1>4. /\ rows[i].p \in DOMAIN rows /\ rows[i].p < i /\ rows[i].n \in Names
      /\ Route(rows, i) = Step(Route(rows, rows[i].p), rows[i].n)
  BY <1>2, <1>3, RouteIs
<1>5. PICK j \in DOMAIN rows : j = rows[i].p
  BY <1>4
<1>6. i \in Nat /\ j \in Nat
  BY <1>2 DEF RowsOk
<1>7. j \notin wrong
  BY <1>1, <1>4, <1>5, <1>6
<1>8. Route(rows, j) \in Seq(Names)
  BY <1>7
<1> QED
  BY <1>2, <1>4, <1>5, <1>8, StepIs

LEMMA OneRoute ==
  ASSUME NEW rows, RowsOk(rows), Tidy(rows), NEW i \in DOMAIN rows, NEW j \in DOMAIN rows,
         Route(rows, i) = Route(rows, j)
  PROVE  i = j
<1> DEFINE wrong == {k \in DOMAIN rows : \E l \in DOMAIN rows : Route(rows, k) = Route(rows, l) /\ k # l}
<1> SUFFICES ASSUME wrong # {} PROVE FALSE
  OBVIOUS
<1>1. PICK k \in wrong : \A l \in wrong : k <= l
  <2>1. wrong \in SUBSET Nat
    BY DEF RowsOk
  <2> HIDE DEF wrong
  <2> QED
    BY <2>1, SmallestOf
<1>2. PICK l \in DOMAIN rows : Route(rows, k) = Route(rows, l) /\ k # l
  OBVIOUS
<1>3. k \in DOMAIN rows
  OBVIOUS
<1>4. \A x \in DOMAIN rows : x # 1 =>
        /\ rows[x].p \in DOMAIN rows /\ rows[x].p < x /\ rows[x].n \in Names
        /\ Route(rows, x) = Step(Route(rows, rows[x].p), rows[x].n)
        /\ Route(rows, rows[x].p) \in Seq(Names) /\ Route(rows, x) # <<>>
  BY RouteIs, RouteTypes, StepIs
<1>5. k # 1 /\ l # 1
  BY <1>2, <1>3, <1>4, RouteIs
<1>6. PICK a \in DOMAIN rows : a = rows[k].p /\ a < k
  BY <1>3, <1>4, <1>5
<1>7. PICK b \in DOMAIN rows : b = rows[l].p
  BY <1>4, <1>5
<1>8. /\ rows[k].n \in Names /\ rows[l].n \in Names
      /\ Route(rows, a) \in Seq(Names) /\ Route(rows, b) \in Seq(Names)
      /\ Step(Route(rows, a), rows[k].n) = Step(Route(rows, b), rows[l].n)
  BY <1>2, <1>3, <1>4, <1>5, <1>6, <1>7
<1>9. Route(rows, a) = Route(rows, b) /\ rows[k].n = rows[l].n
  BY <1>8, SameStep
<1>10. a \notin wrong
  <2>1. k \in Nat /\ a \in Nat
    BY <1>3 DEF RowsOk
  <2> HIDE DEF wrong
  <2> QED
    BY <1>1, <1>6, <2>1
<1>11. a = b
  BY <1>9, <1>10
<1> QED
  BY <1>2, <1>3, <1>6, <1>7, <1>9, <1>11 DEF Tidy

LEMMA ShapeOfIs ==
  ASSUME NEW rows, RowsOk(rows), Tidy(rows)
  PROVE  ShapeOf(rows) =
           [r \in {Route(rows, i) : i \in DOMAIN rows} |->
               LET i == CHOOSE j \in DOMAIN rows : Route(rows, j) = r
               IN  [type |-> rows[i].t, data |-> rows[i].d]]
BY DEF ShapeOf, Route

LEMMA ShapeOfAt ==
  ASSUME NEW rows, RowsOk(rows), Tidy(rows)
  PROVE  /\ DOMAIN ShapeOf(rows) = {Route(rows, i) : i \in DOMAIN rows}
         /\ ShapeOf(rows) = [r \in DOMAIN ShapeOf(rows) |-> ShapeOf(rows)[r]]
         /\ \A i \in DOMAIN rows :
              ShapeOf(rows)[Route(rows, i)] = [type |-> rows[i].t, data |-> rows[i].d]
<1> DEFINE at(r) == CHOOSE j \in DOMAIN rows : Route(rows, j) = r
           dom == {Route(rows, i) : i \in DOMAIN rows}
           h == [r \in dom |-> [type |-> rows[at(r)].t, data |-> rows[at(r)].d]]
<1>1. ShapeOf(rows) = h
  BY ShapeOfIs
<1>2. DOMAIN h = dom /\ h = [r \in dom |-> h[r]]
  OBVIOUS
<1>3. ASSUME NEW i \in DOMAIN rows
      PROVE  h[Route(rows, i)] = [type |-> rows[i].t, data |-> rows[i].d]
  <2>1. PICK r \in dom : r = Route(rows, i)
    OBVIOUS
  <2>2. at(r) \in DOMAIN rows /\ Route(rows, at(r)) = Route(rows, i)
    BY <2>1
  <2>3. h[r] = [type |-> rows[at(r)].t, data |-> rows[at(r)].d]
    OBVIOUS
  <2> HIDE DEF at, dom, h
  <2>4. at(r) = i
    BY <2>2, OneRoute
  <2> QED
    BY <2>1, <2>3, <2>4
<1> HIDE DEF h
<1> QED
  BY <1>1, <1>2, <1>3

(* C and g are D and f with the nodes of the rows at q and below.             *)
Grown(w, D, f, q, rows, C, g) ==
    /\ C = D \cup {Join(q, Route(rows, i)) : i \in DOMAIN rows}
    /\ \A x \in D : g[x] = f[x]
    /\ \A i \in DOMAIN rows : /\ Join(q, Route(rows, i)) \in Seq(Names) \ D
                              /\ g[Join(q, Route(rows, i))] = w + i

LEMMA GrownExists ==
  ASSUME NEW N, NEW E, NEW D, NEW f, World(N, E, D, f), NEW q \in Seq(Names), q \notin D,
         NEW rows, RowsOk(rows), Tidy(rows), NEW w
  PROVE  \E C, g : Grown(w, D, f, q, rows, C, g)
<1> DEFINE C == D \cup {Join(q, Route(rows, i)) : i \in DOMAIN rows}
           Row(x) == CHOOSE i \in DOMAIN rows : x = Join(q, Route(rows, i))
           g == [x \in C |-> IF x \in D THEN f[x] ELSE w + Row(x)]
<1>1. ASSUME NEW i \in DOMAIN rows
      PROVE  Join(q, Route(rows, i)) \in Seq(Names) \ D /\ g[Join(q, Route(rows, i))] = w + i
  <2>1. Route(rows, i) \in Seq(Names)
    BY RouteTypes
  <2>2. PICK x \in Seq(Names) : x = Join(q, Route(rows, i))
    BY <2>1, JoinStep
  <2>3. x \notin D
    <3>1. x \in D => q \in D
      BY <2>1, <2>2, JoinAbove
    <3> QED
      BY <3>1
  <2>4. x \in C /\ g[x] = w + Row(x)
    BY <2>2, <2>3
  <2>5. Row(x) \in DOMAIN rows /\ Join(q, Route(rows, Row(x))) = Join(q, Route(rows, i))
    BY <2>2
  <2> HIDE DEF Row, C, g
  <2>6. Route(rows, Row(x)) \in Seq(Names)
    BY <2>5, RouteTypes
  <2>7. Route(rows, Row(x)) = Route(rows, i)
    BY <2>1, <2>5, <2>6, JoinStep
  <2>8. Row(x) = i
    BY <2>5, <2>7, OneRoute
  <2> QED
    BY <2>2, <2>3, <2>4, <2>8
<1>2. \A x \in D : g[x] = f[x]
  OBVIOUS
<1>3. C = D \cup {Join(q, Route(rows, i)) : i \in DOMAIN rows}
  OBVIOUS
<1> HIDE DEF C, g
<1>4. Grown(w, D, f, q, rows, C, g)
  BY <1>1, <1>2, <1>3 DEF Grown
<1> QED
  BY <1>4

LEMMA GrownChart ==
  ASSUME NEW N, NEW E, NEW D, NEW f, World(N, E, D, f),
         NEW a \in D, Holder(N, f[a]), NEW rows, RowsOk(rows), Tidy(rows),
         NEW q, q = Step(a, rows[1].n), q \notin D,
         NEW M, NEW F, Grafts(N, E, f[a], rows, M, F),
         NEW C, NEW g, Grown(Len(N), D, f, q, rows, C, g)
  PROVE  Chart(F, C, g)
<1> DEFINE at(i) == Join(q, Route(rows, i))
           w == Len(N)
<1>1. /\ Chart(E, D, f) /\ a \in Seq(Names) /\ rows[1].n \in Names /\ q \in Seq(Names)
      /\ Join(q, <<>>) = q /\ E \in Seq(EdgeRow) /\ N \in Seq(NodeRow) /\ Ends(N, E)
      /\ f[a] \in DOMAIN N /\ D \subseteq Seq(Names)
  <2>1. rows[1].n \in Names
    BY RouteIs, RowTypes
  <2>2. /\ Chart(E, D, f) /\ E \in Seq(EdgeRow) /\ N \in Seq(NodeRow) /\ Ends(N, E)
        /\ D \subseteq Seq(Names)
    BY DEF World, Chart
  <2>3. a \in Seq(Names) /\ f[a] \in DOMAIN N
    BY ChartNodes
  <2>4. q \in Seq(Names)
    BY <2>1, <2>3, StepIs
  <2>5. Join(q, <<>>) = q
    BY <2>4, JoinStep
  <2> QED
    BY <2>1, <2>2, <2>3, <2>4, <2>5
<1>2. /\ C = D \cup {at(i) : i \in DOMAIN rows}
      /\ \A x \in D : g[x] = f[x] /\ f[x] \in DOMAIN N
      /\ \A i \in DOMAIN rows : at(i) \in Seq(Names) \ D /\ g[at(i)] = w + i
  BY ChartNodes DEF Grown
<1>3. /\ 1 \in DOMAIN rows /\ at(1) = q /\ rows[1].p = 0
      /\ \A i \in DOMAIN rows : i # 1 =>
           /\ rows[i].p \in DOMAIN rows /\ rows[i].n \in Names
           /\ at(i) = Step(at(rows[i].p), rows[i].n)
  <2>1. ASSUME NEW i \in DOMAIN rows, i # 1
        PROVE  /\ rows[i].p \in DOMAIN rows /\ rows[i].n \in Names
               /\ at(i) = Step(at(rows[i].p), rows[i].n)
    <3>1. /\ rows[i].p \in DOMAIN rows /\ rows[i].n \in Names
          /\ Route(rows, i) = Step(Route(rows, rows[i].p), rows[i].n)
      BY <2>1, RouteIs
    <3>2. PICK r \in Seq(Names) : r = Route(rows, rows[i].p)
      BY <3>1, RouteTypes
    <3>3. Join(q, Step(r, rows[i].n)) = Step(Join(q, r), rows[i].n)
      BY <1>1, <3>1, JoinStep
    <3> QED
      BY <3>1, <3>2, <3>3
  <2> QED
    BY <1>1, <2>1, RouteIs
<1>4. w \in Nat /\ DOMAIN N = 1..w /\ \A i \in DOMAIN rows : i \in Nat \ {0} /\ w + i \notin DOMAIN N
  <2>1. w \in Nat /\ DOMAIN N = 1..w
    BY <1>1
  <2>2. \A i \in DOMAIN rows : i \in Nat \ {0}
    BY RowTypes
  <2> QED
    BY <2>1, <2>2
<1>5. \A i \in DOMAIN rows :
        /\ Len(E) + i \in Active(F)
        /\ F[Len(E) + i].from = (IF rows[i].p = 0 THEN f[a] ELSE w + rows[i].p)
        /\ F[Len(E) + i].to = w + i /\ F[Len(E) + i].name = rows[i].n
  <2>1. ASSUME NEW i \in DOMAIN rows PROVE Len(E) + i \in DOMAIN F
    <3>1. i \in Nat \ {0} /\ i <= Len(rows) /\ Len(rows) \in Nat /\ Len(E) \in Nat
      BY <1>1, RowTypes
    <3>2. DOMAIN F = 1..(Len(E) + Len(rows))
      BY DEF Grafts
    <3> QED
      BY <3>1, <3>2
  <2> QED
    BY <2>1 DEF Grafts, Active
<1>6. \A e \in Active(E) : e \in Active(F) /\ F[e] = E[e]
  <2>1. DOMAIN E \subseteq DOMAIN F
    <3>1. DOMAIN F = 1..(Len(E) + Len(rows)) /\ DOMAIN E = 1..Len(E) /\ Len(E) \in Nat /\ Len(rows) \in Nat
      BY <1>1 DEF Grafts, RowsOk
    <3> QED
      BY <3>1
  <2> QED
    BY <2>1 DEF Grafts, Active
<1> HIDE DEF at, w
<1>7. ASSUME NEW z \in Seq(Names), NEW y \in Names, Step(z, y) \in C
      PROVE  /\ z \in C
             /\ \E e \in Active(F) : F[e].from = g[z] /\ F[e].name = y /\ F[e].to = g[Step(z, y)]
  <2>1. CASE Step(z, y) \in D
    <3>1. /\ z \in D
          /\ \E e \in Active(E) : E[e].from = f[z] /\ E[e].name = y /\ E[e].to = f[Step(z, y)]
      BY <1>1, <2>1, ChartUp
    <3>2. PICK e \in Active(E) : E[e].from = f[z] /\ E[e].name = y /\ E[e].to = f[Step(z, y)]
      BY <3>1
    <3>3. g[z] = f[z] /\ g[Step(z, y)] = f[Step(z, y)] /\ z \in C
      BY <1>2, <2>1, <3>1
    <3> QED
      BY <1>6, <3>2, <3>3
  <2>2. ASSUME NEW i \in DOMAIN rows, Step(z, y) = at(i)
        PROVE  /\ z \in C
               /\ \E e \in Active(F) : F[e].from = g[z] /\ F[e].name = y /\ F[e].to = g[Step(z, y)]
    <3>1. CASE i = 1
      <4>1. z = a /\ y = rows[1].n
        BY <1>1, <1>3, <2>2, <3>1, SameStep
      <4>2. z \in C /\ g[z] = f[a]
        BY <1>2, <4>1
      <4> QED
        BY <1>2, <1>3, <1>5, <2>2, <3>1, <4>1, <4>2
    <3>2. CASE i # 1
      <4>1. PICK j \in DOMAIN rows : j = rows[i].p /\ at(i) = Step(at(j), rows[i].n) /\ rows[i].n \in Names
        BY <1>3, <3>2
      <4>2. z = at(j) /\ y = rows[i].n
        BY <1>2, <2>2, <4>1, SameStep
      <4>3. z \in C /\ g[z] = w + j /\ rows[i].p # 0
        BY <1>2, <1>4, <4>1, <4>2
      <4> QED
        BY <1>2, <1>5, <2>2, <4>1, <4>2, <4>3
    <3> QED
      BY <3>1, <3>2
  <2> QED
    BY <1>2, <1>7, <2>1, <2>2
<1>8. ASSUME NEW z \in C, NEW e \in Active(F), F[e].from = g[z]
      PROVE  Step(z, F[e].name) \in C /\ g[Step(z, F[e].name)] = F[e].to
  <2>1. CASE e \in Active(E) /\ F[e] = E[e] /\ E[e].to \in DOMAIN N /\ E[e].from \in DOMAIN N
    <3>1. z \in D /\ E[e].from = f[z]
      <4>1. g[z] \in DOMAIN N
        BY <1>8, <2>1
      <4>2. z \in D
        BY <1>2, <1>4, <4>1
      <4> QED
        BY <1>2, <1>8, <2>1, <4>2
    <3>2. Step(z, E[e].name) \in D /\ f[Step(z, E[e].name)] = E[e].to
      BY <1>1, <2>1, <3>1, ChartDown
    <3> QED
      BY <1>2, <2>1, <3>2
  <2>2. ASSUME NEW i \in DOMAIN rows, F[e].to = w + i, F[e].name = rows[i].n,
               F[e].from = IF rows[i].p = 0 THEN f[a] ELSE w + rows[i].p
        PROVE  Step(z, F[e].name) \in C /\ g[Step(z, F[e].name)] = F[e].to
    <3>1. CASE i = 1
      <4>1. g[z] = f[a]
        BY <1>3, <1>8, <2>2, <3>1
      <4>2. z \in D
        BY <1>1, <1>2, <1>4, <4>1
      <4>3. f[z] = f[a]
        BY <1>2, <4>1, <4>2
      <4>4. z = a
        BY <4>2, <4>3, OnePath
      <4> QED
        BY <1>2, <1>3, <2>2, <3>1, <4>4
    <3>2. CASE i # 1
      <4>1. PICK j \in DOMAIN rows : j = rows[i].p /\ at(i) = Step(at(j), rows[i].n)
        BY <1>3, <3>2
      <4>2. g[z] = w + j
        BY <1>4, <1>8, <2>2, <4>1
      <4>3. z \notin D
        BY <1>2, <1>4, <4>2
      <4>4. PICK l \in DOMAIN rows : z = at(l)
        BY <1>2, <4>3
      <4>5. l = j
        BY <1>2, <1>4, <4>2, <4>4
      <4> QED
        BY <1>2, <2>2, <4>1, <4>4, <4>5
    <3> QED
      BY <3>1, <3>2
  <2>3. \/ e \in Active(E) /\ F[e] = E[e] /\ E[e].to \in DOMAIN N /\ E[e].from \in DOMAIN N
        \/ \E i \in DOMAIN rows :
              /\ e = Len(E) + i /\ F[e].to = Len(N) + i /\ F[e].name = rows[i].n
              /\ F[e].from = IF rows[i].p = 0 THEN f[a] ELSE Len(N) + rows[i].p
    BY <1>1, GraftedEdges
  <2> QED
    BY <2>1, <2>2, <2>3 DEF w
<1>9. C \subseteq Seq(Names) /\ <<>> \in C /\ g[<<>>] = Root
  BY <1>1, <1>2 DEF Chart
<1> QED
  BY <1>7, <1>8, <1>9, ChartSteps

LEMMA GrownRest ==
  ASSUME NEW N, NEW E, NEW D, NEW f, World(N, E, D, f), NEW q \in Seq(Names), q \notin D,
         NEW rows, RowsOk(rows), Tidy(rows), NEW w, NEW C, NEW g, Grown(w, D, f, q, rows, C, g)
  PROVE  Rest(C, q) = {Route(rows, i) : i \in DOMAIN rows}
<1>1. ASSUME NEW r \in Rest(C, q) PROVE \E i \in DOMAIN rows : r = Route(rows, i)
  <2>1. r \in Seq(Names) /\ Join(q, r) \in C
    BY RestIs
  <2>2. Join(q, r) \notin D
    <3>1. PICK x : x = Join(q, r)
      OBVIOUS
    <3>2. x \in D => q \in D
      BY <2>1, <3>1, JoinAbove
    <3> QED
      BY <3>1, <3>2
  <2>3. PICK i \in DOMAIN rows : Join(q, r) = Join(q, Route(rows, i))
    BY <2>1, <2>2 DEF Grown
  <2>4. Route(rows, i) \in Seq(Names)
    BY RouteTypes
  <2> QED
    BY <2>1, <2>3, <2>4, JoinStep
<1>2. ASSUME NEW i \in DOMAIN rows PROVE Route(rows, i) \in Rest(C, q)
  <2>1. Route(rows, i) \in Seq(Names)
    BY RouteTypes
  <2>2. Join(q, Route(rows, i)) \in C
    BY DEF Grown
  <2> QED
    BY <2>1, <2>2, RestIs
<1> QED
  BY <1>1, <1>2

(* create, copy, pack, unpack: seen from the paths                            *)
LEMMA GrownSeen ==
  ASSUME NEW N, NEW B, NEW U, NEW f, World(N, B, U, f),
         NEW E, NEW D \in SUBSET U, World(N, E, D, f),
         NEW a \in D, NEW rows, RowsOk(rows), Tidy(rows),
         NEW q \in Seq(Names), q \notin D,
         NEW M, NEW F, Grafts(N, E, f[a], rows, M, F),
         NEW C, NEW g, Grown(Len(N), D, f, q, rows, C, g)
  PROVE  Volume!Replaced(Seen(N, U, f), Seen(M, C, g), U \ D, q, ShapeOf(rows))
<1> DEFINE at(i) == Join(q, Route(rows, i))
           w == Len(N)
           t == Seen(N, U, f)
           u == Seen(M, C, g)
           shape == ShapeOf(rows)
           new == {q \o r : r \in DOMAIN shape}
<1>1. /\ C = D \cup {at(i) : i \in DOMAIN rows}
      /\ \A x \in D : g[x] = f[x]
      /\ \A i \in DOMAIN rows : at(i) \in Seq(Names) \ D /\ g[at(i)] = w + i
  BY DEF Grown
<1>2. \A x \in U : f[x] \in DOMAIN N
  BY ChartNodes
<1>3. w \in Nat /\ DOMAIN N = 1..w /\ \A i \in DOMAIN rows : i \in Nat \ {0} /\ w + i \notin DOMAIN N
  <2>1. w \in Nat /\ DOMAIN N = 1..w
    BY DEF World
  <2>2. \A i \in DOMAIN rows : i \in Nat \ {0}
    BY RowTypes
  <2> QED
    BY <2>1, <2>2
<1>4. DOMAIN t = U /\ DOMAIN u = C
  BY DEF Seen
<1>5. \A x \in U : t[x] = [id |-> f[x], type |-> N[f[x]].type, data |-> N[f[x]].data]
  BY DEF Seen
<1>6. \A x \in C : u[x] = [id |-> g[x], type |-> M[g[x]].type, data |-> M[g[x]].data]
  BY DEF Seen
<1>7. DOMAIN shape = {Route(rows, i) : i \in DOMAIN rows}
  BY ShapeOfAt
<1>8. new = {at(i) : i \in DOMAIN rows}
  BY <1>7 DEF Join
<1>9. \A n \in DOMAIN N : M[n] = N[n]
  BY DEF Grafts
<1>10. \A i \in DOMAIN rows : M[w + i].type = rows[i].t /\ M[w + i].data = rows[i].d
  BY DEF Grafts
<1>11. Volume!Shape(u, q) = Form(M, C, g, q)
  <2>1. D \subseteq Seq(Names)
    BY ChartNodes
  <2>2. C \in SUBSET Seq(Names)
    BY <1>1, <2>1
  <2> QED
    BY <2>2, ShapeIs
<1>12. Form(M, C, g, q) = shape
  <2>1. Rest(C, q) = DOMAIN shape
    BY <1>7, GrownRest
  <2>2. \A i \in DOMAIN rows :
          [type |-> M[g[q \o Route(rows, i)]].type, data |-> M[g[q \o Route(rows, i)]].data]
            = shape[Route(rows, i)]
    <3> SUFFICES ASSUME NEW i \in DOMAIN rows
                 PROVE  [type |-> M[g[at(i)]].type, data |-> M[g[at(i)]].data] = shape[Route(rows, i)]
      BY DEF Join
    <3>1. shape[Route(rows, i)] = [type |-> rows[i].t, data |-> rows[i].d]
      BY ShapeOfAt
    <3>2. g[at(i)] = w + i /\ M[w + i].type = rows[i].t /\ M[w + i].data = rows[i].d
      BY <1>1, <1>10
    <3> HIDE DEF at, w, shape
    <3> QED
      BY <3>1, <3>2
  <2>3. shape = [r \in DOMAIN shape |-> shape[r]]
    BY ShapeOfAt
  <2>4. \A r \in DOMAIN shape : [type |-> M[g[q \o r]].type, data |-> M[g[q \o r]].data] = shape[r]
    BY <1>7, <2>2
  <2>5. Form(M, C, g, q)
          = [r \in DOMAIN shape |-> [type |-> M[g[q \o r]].type, data |-> M[g[q \o r]].data]]
    BY <2>1 DEF Form
  <2> HIDE DEF shape
  <2> QED
    BY <2>3, <2>4, <2>5
<1> HIDE DEF at, w, t, u, shape, new
<1>13. DOMAIN u = (DOMAIN t \ (U \ D)) \cup new
  BY <1>1, <1>4, <1>8
<1>14. ASSUME NEW x \in DOMAIN u \ new PROVE u[x] = t[x]
  <2>1. x \in D /\ x \in C /\ x \in U
    BY <1>1, <1>4, <1>8, <1>14
  <2>2. g[x] = f[x] /\ M[f[x]] = N[f[x]]
    BY <1>1, <1>2, <1>9, <2>1
  <2>3. u[x] = [id |-> g[x], type |-> M[g[x]].type, data |-> M[g[x]].data]
    BY <1>6, <2>1
  <2>4. t[x] = [id |-> f[x], type |-> N[f[x]].type, data |-> N[f[x]].data]
    BY <1>5, <2>1
  <2>5. u[x] = [id |-> f[x], type |-> M[f[x]].type, data |-> M[f[x]].data]
    BY <2>2, <2>3
  <2> QED
    BY <2>2, <2>4, <2>5
<1>15. ASSUME NEW i \in DOMAIN rows PROVE at(i) \in C /\ u[at(i)].id = w + i
  <2>1. PICK x \in C : x = at(i) /\ g[x] = w + i
    BY <1>1
  <2>2. u[x] = [id |-> g[x], type |-> M[g[x]].type, data |-> M[g[x]].data]
    BY <1>6
  <2>3. u[x].id = g[x]
    BY <2>2
  <2> QED
    BY <2>1, <2>3
<1>16. ASSUME NEW x \in U PROVE t[x].id = f[x]
  <2>1. t[x] = [id |-> f[x], type |-> N[f[x]].type, data |-> N[f[x]].data]
    BY <1>5
  <2> QED
    BY <2>1
<1>17. \A x \in new : u[x].id \in Nat \ {t[y].id : y \in DOMAIN t}
  <2> SUFFICES ASSUME NEW i \in DOMAIN rows
               PROVE  u[at(i)].id \in Nat \ {t[y].id : y \in DOMAIN t}
    BY <1>8
  <2>1. u[at(i)].id = w + i /\ w + i \in Nat /\ w + i \notin DOMAIN N
    BY <1>3, <1>15
  <2> QED
    BY <1>2, <1>4, <1>16, <2>1
<1>18. \A x, y \in new : u[x].id = u[y].id => x = y
  <2> SUFFICES ASSUME NEW i \in DOMAIN rows, NEW j \in DOMAIN rows, u[at(i)].id = u[at(j)].id
               PROVE  at(i) = at(j)
    BY <1>8
  <2>1. w + i = w + j
    BY <1>15
  <2>2. i = j
    BY <1>3, <2>1
  <2> QED
    BY <2>2
<1>19. Volume!Shape(u, q) = shape
  BY <1>11, <1>12
<1>20. Volume!Replaced(t, u, U \ D, q, shape)
  BY <1>13, <1>14, <1>17, <1>18, <1>19 DEF Volume!Replaced, new
<1> QED
  BY <1>20 DEF t, u, shape

---------------------------------------------------------------------------
(* What a copy or a pack reads                                             *)

LEMMA RoutesLead ==
  ASSUME NEW D, NEW f, World(node, edge, D, f), NEW p \in D, NEW rows, RowsOk(rows), Tidy(rows),
         NEW to, Reads(f[p], rows, to)
  PROVE  \A i \in DOMAIN rows : Join(p, Route(rows, i)) \in D /\ f[Join(p, Route(rows, i))] = to[i]
<1> DEFINE at(i) == Join(p, Route(rows, i))
           wrong == {i \in DOMAIN rows : ~(at(i) \in D /\ f[at(i)] = to[i])}
<1> SUFFICES ASSUME wrong # {} PROVE FALSE
  OBVIOUS
<1>1. PICK i \in wrong : \A j \in wrong : i <= j
  <2>1. wrong \in SUBSET Nat
    BY DEF RowsOk
  <2> HIDE DEF wrong
  <2> QED
    BY <2>1, SmallestOf
<1>2. i \in DOMAIN rows /\ ~(at(i) \in D /\ f[at(i)] = to[i])
  OBVIOUS
<1>3. p \in Seq(Names) /\ Chart(edge, D, f)
  BY ChartNodes DEF World
<1>4. i # 1
  <2>1. at(1) = p /\ to[1] = f[p]
    BY <1>3, RouteIs, JoinStep DEF Reads
  <2> QED
    BY <1>2, <2>1
<1>5. PICK j \in DOMAIN rows : j = rows[i].p /\ j < i /\ Route(rows, i) = Step(Route(rows, j), rows[i].n)
                               /\ rows[i].n \in Names
  BY <1>2, <1>4, RouteIs
<1>6. at(j) \in D /\ f[at(j)] = to[j]
  <2>1. i \in Nat /\ j \in Nat
    BY <1>2 DEF RowsOk
  <2>2. j \notin wrong
    <3> HIDE DEF wrong
    <3> QED
      BY <1>1, <1>5, <2>1
  <2> QED
    BY <2>2
<1>7. PICK e \in Below(f[p]) : ReadFrom(rows, to, i, e)
  BY <1>2, <1>4 DEF Reads
<1>8. /\ e \in Active(edge) /\ edge[e].name = rows[i].n /\ edge[e].to = to[i]
      /\ edge[e].from = to[j]
  BY <1>5, <1>7 DEF ReadFrom, Below, Active, ActiveEdges
<1>9. at(i) = Step(at(j), rows[i].n)
  <2>1. PICK r \in Seq(Names) : r = Route(rows, j)
    BY RouteTypes
  <2> QED
    BY <1>3, <1>5, <2>1, JoinStep
<1>10. PICK z \in D : z = at(j)
  BY <1>6
<1>11. Step(z, edge[e].name) \in D /\ f[Step(z, edge[e].name)] = edge[e].to
  <2>1. edge[e].from = f[z]
    BY <1>6, <1>8, <1>10
  <2> QED
    BY <1>3, <1>8, <2>1, ChartDown
<1> HIDE DEF at, wrong
<1> QED
  BY <1>2, <1>8, <1>9, <1>10, <1>11

LEMMA RowsBelow ==
  ASSUME TypeOK, NEW D, NEW f, World(node, edge, D, f), NEW p \in D, NEW rows, RowsOk(rows), Tidy(rows),
         NEW to, Reads(f[p], rows, to)
  PROVE  Rest(D, p) = {Route(rows, i) : i \in DOMAIN rows}
<1>1. p \in Seq(Names) /\ Chart(edge, D, f) /\ f[p] \in Nat /\ <<>> \in Seq(Names)
      /\ D \subseteq Seq(Names)
  BY ChartNodes DEF World
<1>2. ASSUME NEW i \in DOMAIN rows PROVE Route(rows, i) \in Rest(D, p)
  <2>1. Route(rows, i) \in Seq(Names)
    BY RouteTypes
  <2> QED
    BY <2>1, RoutesLead, RestIs
<1> DEFINE wrong == {s \in Seq(Names) : Join(p, s) \in D /\ \A i \in DOMAIN rows : s # Route(rows, i)}
<1>3. wrong = {}
  <2> SUFFICES ASSUME wrong # {} PROVE FALSE
    OBVIOUS
  <2>1. <<>> \notin wrong
    BY RouteIs
  <2>2. PICK s \in Seq(Names), x \in Names : Append(s, x) \in wrong /\ s \notin wrong
    <3>1. wrong \in SUBSET Seq(Names)
      OBVIOUS
    <3> HIDE DEF wrong
    <3> QED
      BY <2>1, <3>1, Shortest
  <2>3. Step(s, x) \in wrong
    BY <2>2 DEF Step
  <2>4. Join(p, Step(s, x)) \in D /\ \A i \in DOMAIN rows : Step(s, x) # Route(rows, i)
    BY <2>3
  <2>5. PICK z \in Seq(Names) : z = Join(p, s)
    BY <1>1, JoinStep
  <2>6. Step(z, x) \in D
    BY <1>1, <2>4, <2>5, JoinStep
  <2>7. /\ z \in D
        /\ \E e \in Active(edge) : edge[e].from = f[z] /\ edge[e].name = x /\ edge[e].to = f[Step(z, x)]
    BY <1>1, <2>6, ChartUp
  <2>8. PICK e \in Active(edge) : edge[e].from = f[z] /\ edge[e].name = x /\ edge[e].to = f[Step(z, x)]
    BY <2>7
  <2>9. PICK j \in DOMAIN rows : s = Route(rows, j)
    BY <2>2, <2>5, <2>7
  <2> HIDE DEF wrong
  <2>10. e \in Below(f[p])
    <3>1. f[z] \in Reach(edge, f[p])
      BY <1>1, <2>5, <2>7, JoinAbove
    <3>2. Subtree(f[p]) = Reach(edge, f[p])
      BY ReachIsSubtree
    <3> QED
      BY <2>8, <3>1, <3>2 DEF Below, Active, ActiveEdges
  <2>11. PICK i \in DOMAIN rows \ {1} : ReadFrom(rows, to, i, e)
    BY <2>10 DEF Reads
  <2>12. PICK k \in DOMAIN rows : k = rows[i].p
    BY <2>11 DEF ReadFrom
  <2>13. edge[e].name = rows[i].n /\ edge[e].from = to[k]
    BY <2>11, <2>12 DEF ReadFrom
  <2>14. Join(p, Route(rows, k)) \in D /\ f[Join(p, Route(rows, k))] = to[k]
    BY RoutesLead
  <2>15. PICK v \in D : v = Join(p, Route(rows, k)) /\ f[v] = to[k]
    BY <2>14
  <2>16. v = z
    <3>1. Holder(node, edge[e].from)
      BY EdgeIn
    <3>2. f[v] = f[z] /\ Holder(node, f[v])
      BY <2>8, <2>13, <2>15, <3>1
    <3> QED
      BY <2>7, <3>2, OnePath
  <2>17. Route(rows, k) = s
    <3>1. Route(rows, k) \in Seq(Names)
      BY RouteTypes
    <3>2. Join(p, Route(rows, k)) = Join(p, s)
      BY <2>5, <2>15, <2>16
    <3> QED
      BY <1>1, <3>1, <3>2, JoinStep
  <2>18. Route(rows, i) = Step(Route(rows, k), rows[i].n)
    BY <2>11, <2>12, RouteIs
  <2>19. Route(rows, i) = Step(s, x)
    BY <2>8, <2>13, <2>17, <2>18
  <2> QED
    BY <2>4, <2>19
<1>4. ASSUME NEW s \in Rest(D, p) PROVE \E i \in DOMAIN rows : s = Route(rows, i)
  <2>1. s \in Seq(Names) /\ Join(p, s) \in D
    BY RestIs
  <2> QED
    BY <1>3, <2>1
<1> QED
  BY <1>2, <1>4

(* The shape of the rows read at p is the shape of what is at p.              *)
LEMMA ShapeRead ==
  ASSUME TypeOK, NEW D, NEW f, World(node, edge, D, f), NEW p \in D, NEW rows, RowsOk(rows), Tidy(rows),
         NEW to, Reads(f[p], rows, to)
  PROVE  ShapeOf(rows) = Form(node, D, f, p)
<1>1. Rest(D, p) = {Route(rows, i) : i \in DOMAIN rows}
  BY RowsBelow
<1> DEFINE shape == ShapeOf(rows)
<1>2. DOMAIN shape = Rest(D, p) /\ shape = [r \in DOMAIN shape |-> shape[r]]
  BY <1>1, ShapeOfAt
<1>3. ASSUME NEW i \in DOMAIN rows
      PROVE  shape[Route(rows, i)] = [type |-> node[f[p \o Route(rows, i)]].type,
                                      data |-> node[f[p \o Route(rows, i)]].data]
  <2>1. shape[Route(rows, i)] = [type |-> rows[i].t, data |-> rows[i].d]
    BY ShapeOfAt
  <2>2. f[p \o Route(rows, i)] = to[i]
    BY RoutesLead DEF Join
  <2>3. rows[i].t = node[to[i]].type /\ rows[i].d = node[to[i]].data
    BY DEF Reads
  <2> HIDE DEF shape
  <2> QED
    BY <2>1, <2>2, <2>3
<1> HIDE DEF shape
<1>4. \A r \in Rest(D, p) : shape[r] = [type |-> node[f[p \o r]].type, data |-> node[f[p \o r]].data]
  BY <1>1, <1>3
<1>5. shape = [r \in Rest(D, p) |-> [type |-> node[f[p \o r]].type, data |-> node[f[p \o r]].data]]
  BY <1>2, <1>4
<1> QED
  BY <1>5 DEF shape, Form

(* One row is one object.                                                     *)
LEMMA SingleRow ==
  ASSUME NEW type \in Types, NEW name \in Names, NEW data \in Nat, NEW rows,
         rows = <<[p |-> 0, t |-> type, n |-> name, d |-> data]>>
  PROVE  /\ RowsOk(rows) /\ Tidy(rows) /\ rows[1].n = name
         /\ ShapeOf(rows) = [r \in {<<>>} |-> [type |-> type, data |-> data]]
<1>1. /\ rows \in Seq(PackRow) /\ DOMAIN rows = {1} /\ rows # <<>>
      /\ rows[1].p = 0 /\ rows[1].t = type /\ rows[1].n = name /\ rows[1].d = data
  <2>1. [p |-> 0, t |-> type, n |-> name, d |-> data] \in PackRow
    BY DEF PackRow
  <2> QED
    BY <2>1
<1>2. RowsOk(rows) /\ Tidy(rows)
  BY <1>1 DEF RowsOk, Tidy
<1>3. DOMAIN ShapeOf(rows) = {<<>>}
  <2>1. DOMAIN ShapeOf(rows) = {Route(rows, i) : i \in DOMAIN rows}
    BY <1>2, ShapeOfAt
  <2>2. Route(rows, 1) = <<>>
    BY <1>2, RouteIs
  <2> QED
    BY <1>1, <2>1, <2>2
<1>4. ShapeOf(rows)[<<>>] = [type |-> type, data |-> data]
  <2>1. Route(rows, 1) = <<>> /\ 1 \in DOMAIN rows
    BY <1>2, RouteIs
  <2>2. ShapeOf(rows)[Route(rows, 1)] = [type |-> rows[1].t, data |-> rows[1].d]
    BY <1>2, <2>1, ShapeOfAt
  <2> QED
    BY <1>1, <2>1, <2>2
<1>5. ShapeOf(rows) = [r \in DOMAIN ShapeOf(rows) |-> ShapeOf(rows)[r]]
  BY <1>2, ShapeOfAt
<1>6. PICK h : h = ShapeOf(rows)
  OBVIOUS
<1>7. h = [r \in {<<>>} |-> h[r]] /\ h[<<>>] = [type |-> type, data |-> data]
  BY <1>3, <1>4, <1>5, <1>6
<1>8. h = [r \in {<<>>} |-> [type |-> type, data |-> data]]
  BY <1>7
<1> QED
  BY <1>2, <1>1, <1>6, <1>8

---------------------------------------------------------------------------
(* What the mapping shows                                                  *)

View == [p \in Resolving |-> Object(Walk(Root, p))]
Packs == [i \in DOMAIN blob |-> ShapeOf(blob[i])]

LEMMA ViewIs ==
  IInv /\ Distinct(edge) => \A C, g : Chart(edge, C, g) => View = Seen(node, C, g)
<1> SUFFICES ASSUME IInv, Distinct(edge), NEW C, NEW g, Chart(edge, C, g)
             PROVE  View = Seen(node, C, g)
  OBVIOUS
<1>1. Resolving = Resolved /\ Chart(edge, Resolved, Leads)
  BY ResolvingIs DEF World
<1>2. (\A p \in Resolved : p \in C /\ Leads[p] = g[p]) /\ (\A p \in C : p \in Resolved)
  BY <1>1, ChartsAgree
<1>3. Resolving = C
  BY <1>1, <1>2
<1>4. \A p \in C : Walk(Root, p) = g[p]
  BY <1>2 DEF Leads
<1> QED
  BY <1>3, <1>4 DEF View, Seen, Object

(* Callers who mount the root and take no name twice.                         *)
Plain == IInv /\ PInv /\ Distinct(edge) /\ ~SameNames /\ Anchors \subseteq {<<>>}

LEMMA PlainIs ==
  ASSUME Plain
  PROVE  /\ TypeOK /\ IInv /\ Neat(node, edge, blob) /\ ~SameNames
         /\ World(node, edge, Resolved, Leads)
BY ResolvingIs DEF Plain, PInv, IInv

LEMMA PathIs ==
  ASSUME Plain, NEW m \in Mounts, NEW path \in Paths, Resolve(m, path) # 0
  PROVE  path \in Resolved /\ Leads[path] = Resolve(m, path) /\ anchor[m] = Root
<1>1. anchor[m] = Root
  <2>1. anchor[m] # 0 /\ anchor[m] \in {0, Root}
    BY ResolvedIs, Anchored DEF Plain, PInv, IInv
  <2> QED
    BY <2>1
<1>2. path \in Seq(Names)
  BY PathsAreSequences
<1> QED
  BY <1>1, <1>2 DEF Resolve, Resolved, Leads

(* What a path's parent is, and where nothing has the name.                   *)
ParentAt(parent, path, a) ==
    /\ a \in Resolved /\ a \in Seq(Names) /\ Leads[a] = parent /\ Holder(node, parent)
    /\ Last(path) \in Names /\ path = Step(a, Last(path)) /\ path # <<>>
    /\ \A y \in Names : Lookup(parent, y) = 0 => Step(a, y) \notin Resolved

LEMMA ParentPath ==
  ASSUME Plain, NEW m \in Mounts, NEW path \in Paths, ResolveParent(m, path) # 0
  PROVE  \E a : ParentAt(ResolveParent(m, path), path, a)
<1> DEFINE a == Front(path)
           c == ResolveParent(m, path)
<1>1. path \in Seq(Names)
  BY PathsAreSequences
<1>2. /\ path # <<>> /\ Last(path) \in Names /\ anchor[m] \in DOMAIN node /\ Holder(node, c)
      /\ c = Walk(anchor[m], a) /\ c # 0
  BY ParentIs DEF Plain
<1>3. anchor[m] = Root
  <2>1. anchor[m] # 0 /\ anchor[m] \in {0, Root}
    BY <1>2, Anchored DEF Plain, PInv, IInv
  <2> QED
    BY <2>1
<1>4. a \in Seq(Names) /\ path = Step(a, Last(path))
  BY <1>1, <1>2, LastStep DEF Step
<1>5. a \in Resolved /\ Leads[a] = c
  BY <1>2, <1>3, <1>4 DEF Resolved, Leads
<1>6. ASSUME NEW y \in Names, Lookup(c, y) = 0 PROVE Step(a, y) \notin Resolved
  <2>1. Walk(Root, Append(a, y)) = Lookup(Walk(Root, a), y)
    BY <1>4, WalkOn
  <2> QED
    BY <1>2, <1>3, <1>6, <2>1 DEF Resolved, Step
<1> HIDE DEF a, c
<1> QED
  BY <1>2, <1>4, <1>5, <1>6 DEF ParentAt, c

(* The one placement a path walked.                                           *)
LEMMA WalkedIs ==
  ASSUME Plain, NEW m \in Mounts, NEW path \in Paths, Resolve(m, path) # 0,
         ResolveParent(m, path) # 0
  PROVE  \E e0 \in Active(edge) :
           /\ Walked(ResolveParent(m, path), Resolve(m, path), Last(path)) = {e0}
           /\ edge[e0].from = ResolveParent(m, path) /\ edge[e0].name = Last(path)
           /\ edge[e0].to = Resolve(m, path)
<1> DEFINE W == Walked(ResolveParent(m, path), Resolve(m, path), Last(path))
<1>1. PICK e0 \in W : e0 \in DOMAIN edge
  BY ParentIs DEF Plain
<1>2. \A e \in W : /\ e \in Active(edge) /\ edge[e].from = ResolveParent(m, path)
                   /\ edge[e].name = Last(path) /\ edge[e].to = Resolve(m, path)
  BY DEF Walked, PlacementsOf, Active, ActiveEdges
<1>3. \A e \in W : e = e0
  BY <1>1, <1>2 DEF Plain, Distinct
<1>4. W = {e0}
  BY <1>1, <1>3
<1> QED
  BY <1>1, <1>2, <1>4

(* A step edits the tree that the rows chart, at a path of it.                *)
Turns ==
    \E C, g :
        /\ Chart(edge', C, g)
        /\ \E p \in Resolved \cup C : Volume!Edit(Seen(node, Resolved, Leads), Seen(node', C, g), p)

LEMMA TurnsAre ==
  ASSUME NEW C, NEW g, Chart(edge', C, g), NEW p \in Resolved \cup C,
         Volume!Edit(Seen(node, Resolved, Leads), Seen(node', C, g), p)
  PROVE  Turns
BY DEF Turns

(* Rows are put under a, once E is what is left of the placements.            *)
LEMMA RowsReplaced ==
  ASSUME Plain, NEW E \in Seq(EdgeRow), NEW D \in SUBSET Resolved, World(node, E, D, Leads),
         NEW a \in D, Holder(node, Leads[a]),
         NEW rows, RowsOk(rows), Tidy(rows), NEW q, q = Step(a, rows[1].n), q \notin D,
         Graft(Leads[a], rows, E)
  PROVE  \E C, g :
           /\ Chart(edge', C, g) /\ q \in C
           /\ Volume!Replaced(Seen(node, Resolved, Leads), Seen(node', C, g), Resolved \ D, q,
                              ShapeOf(rows))
<1>1. TypeOK /\ IInv /\ World(node, edge, Resolved, Leads)
  BY PlainIs
<1>2. 1 \in DOMAIN rows /\ Route(rows, 1) = <<>> /\ rows[1].n \in Names
  BY RouteIs, RowTypes
<1>3. q \in Seq(Names) /\ a \in Seq(Names)
  BY <1>2, StepIs DEF Resolved
<1>4. Leads[a] \in Nat
  BY <1>1, ChartNodes
<1>5. Grafts(node, E, Leads[a], rows, node', edge')
  BY <1>1, <1>4, GraftIs
<1>6. PICK C, g : Grown(Len(node), D, Leads, q, rows, C, g)
  BY <1>3, GrownExists
<1>7. Chart(edge', C, g)
  BY <1>5, <1>6, GrownChart
<1>8. Volume!Replaced(Seen(node, Resolved, Leads), Seen(node', C, g), Resolved \ D, q, ShapeOf(rows))
  BY <1>1, <1>3, <1>5, <1>6, GrownSeen
<1>9. q \in C
  <2>1. Join(q, <<>>) = q
    BY <1>3, JoinStep
  <2> QED
    BY <1>2, <1>6, <2>1 DEF Grown
<1> QED
  BY <1>7, <1>8, <1>9

(* create, copy: rows are put where a path had nothing.                       *)
LEMMA RowsPlaced ==
  ASSUME Plain, NEW parent, NEW path, NEW a, ParentAt(parent, path, a),
         Lookup(parent, Last(path)) = 0,
         NEW rows, RowsOk(rows), Tidy(rows), rows[1].n = Last(path), Graft(parent, rows, edge)
  PROVE  \E C, g :
           /\ Chart(edge', C, g) /\ path \in C
           /\ Volume!Vacant(Seen(node, Resolved, Leads), path)
           /\ Volume!Replaced(Seen(node, Resolved, Leads), Seen(node', C, g), {}, path, ShapeOf(rows))
<1> DEFINE y == Last(path)
<1>1. World(node, edge, Resolved, Leads) /\ edge \in Seq(EdgeRow)
  BY PlainIs DEF TypeOK
<1>2. /\ a \in Resolved /\ Leads[a] = parent /\ Holder(node, Leads[a])
      /\ y \in Names /\ path = Step(a, y) /\ Step(a, y) \notin Resolved
  BY DEF ParentAt
<1>3. path = Step(a, rows[1].n) /\ path \notin Resolved /\ Graft(Leads[a], rows, edge)
  BY <1>2
<1>4. Resolved \subseteq Resolved /\ Resolved \ Resolved = {}
  OBVIOUS
<1>5. PICK C, g :
        /\ Chart(edge', C, g) /\ path \in C
        /\ Volume!Replaced(Seen(node, Resolved, Leads), Seen(node', C, g), Resolved \ Resolved,
                           path, ShapeOf(rows))
  BY <1>1, <1>2, <1>3, <1>4, RowsReplaced
<1>6. Volume!Vacant(Seen(node, Resolved, Leads), path)
  BY <1>1, <1>2, VacantIs DEF Step
<1> QED
  BY <1>4, <1>5, <1>6

LEMMA CreateTurns ==
  ASSUME Plain, NEW m \in Mounts, NEW path \in Paths, NEW t \in Types, Create(m, path, t)
  PROVE  Turns
<1> DEFINE parent == ResolveParent(m, path)
           rows == <<[p |-> 0, t |-> t, n |-> Last(path), d |-> 0]>>
           here == Seen(node, Resolved, Leads)
<1>1. parent # 0 /\ Graft(parent, rows, edge) /\ Lookup(parent, Last(path)) = 0
  BY DEF Create, Free, Plain
<1>2. PICK a : ParentAt(parent, path, a)
  BY <1>1, ParentPath
<1>3. Last(path) \in Names
  BY <1>2 DEF ParentAt
<1>4. /\ RowsOk(rows) /\ Tidy(rows) /\ rows[1].n = Last(path)
      /\ ShapeOf(rows) = [r \in {<<>>} |-> [type |-> t, data |-> 0]]
  BY <1>3, SingleRow
<1> HIDE DEF parent, rows
<1>5. PICK C, g :
        /\ Chart(edge', C, g) /\ path \in C
        /\ Volume!Vacant(here, path)
        /\ Volume!Replaced(here, Seen(node', C, g), {}, path, ShapeOf(rows))
  BY <1>1, <1>2, <1>4, RowsPlaced
<1> HIDE DEF here
<1>6. Volume!Make(here, Seen(node', C, g), path)
  BY <1>4, <1>5 DEF Volume!Make, Types
<1>7. Volume!Edit(here, Seen(node', C, g), path)
  BY <1>6 DEF Volume!Edit
<1> QED
  BY <1>5, <1>7, TurnsAre DEF here

LEMMA CopyTurns ==
  ASSUME Plain, NEW m \in Mounts, NEW src \in Paths, NEW dst \in Paths, Copy(m, src, dst)
  PROVE  Turns
<1> DEFINE n == Resolve(m, src)
           parent == ResolveParent(m, dst)
           rows == RowsOf(n, Last(dst))
           here == Seen(node, Resolved, Leads)
<1>1. n # 0 /\ parent # 0 /\ Graft(parent, rows, edge) /\ Lookup(parent, Last(dst)) = 0
  BY DEF Copy, Free, Plain
<1>2. PICK a : ParentAt(parent, dst, a)
  BY <1>1, ParentPath
<1>3. src \in Resolved /\ Leads[src] = n /\ n \in DOMAIN node
  BY <1>1, PathIs, ResolvedIs DEF Plain
<1>4. TypeOK /\ Tree(node, edge) /\ Distinct(edge) /\ World(node, edge, Resolved, Leads)
      /\ src \in Seq(Names) /\ Resolved \subseteq Seq(Names)
  BY <1>3, PlainIs DEF World, Resolved
<1>5. RowsOk(rows) /\ Tidy(rows) /\ rows[1].n = Last(dst) /\ \E to : Reads(n, rows, to)
  <2>1. Last(dst) \in Names
    BY <1>2 DEF ParentAt
  <2> QED
    BY <1>3, <1>4, <2>1, RowsOfOk
<1> HIDE DEF parent, rows, n
<1>6. PICK to : Reads(Leads[src], rows, to)
  BY <1>3, <1>5
<1>7. ShapeOf(rows) = Form(node, Resolved, Leads, src)
  BY <1>3, <1>4, <1>5, <1>6, ShapeRead
<1>8. Volume!Shape(here, src) = ShapeOf(rows)
  BY <1>4, <1>7, ShapeIs
<1>9. PICK C, g :
        /\ Chart(edge', C, g) /\ dst \in C
        /\ Volume!Vacant(here, dst)
        /\ Volume!Replaced(here, Seen(node', C, g), {}, dst, ShapeOf(rows))
  BY <1>1, <1>2, <1>5, RowsPlaced
<1>10. DOMAIN here = Resolved /\ DOMAIN Seen(node', C, g) = C
  BY DEF Seen
<1> HIDE DEF here
<1>11. Volume!Duplicate(here, Seen(node', C, g), src, dst)
  BY <1>3, <1>8, <1>9, <1>10 DEF Volume!Duplicate
<1>12. Volume!Edit(here, Seen(node', C, g), src)
  BY <1>9, <1>10, <1>11 DEF Volume!Edit
<1> QED
  BY <1>3, <1>9, <1>12, TurnsAre DEF here

(* What an archived set of placements leaves.                                 *)
LEMMA FewerArchived ==
  ASSUME TypeOK, NEW S
  PROVE  Fewer(edge, Archive(S)) /\ Active(Archive(S)) = Active(edge) \ S
BY ArchivedNames, ArchiveIs DEF Fewer, Active, ActiveEdges

LEMMA SameSelf == SameNodes(node, node)
BY DEF SameNodes

LEMMA RemoveTurns ==
  ASSUME Plain, NEW m \in Mounts, NEW path \in Paths, RemoveOne(m, path)
  PROVE  Turns
<1> DEFINE n == Resolve(m, path)
           parent == ResolveParent(m, path)
           D == Resolved
           f == Leads
           x == Last(path)
<1>1. /\ n # 0 /\ parent # 0 /\ EdgesFrom(n) = {} /\ node' = node
      /\ edge' = Archive(Walked(parent, n, x))
  BY DEF RemoveOne
<1>2. PICK a : ParentAt(parent, path, a)
  BY <1>1, ParentPath
<1>3. path \in D /\ f[path] = n
  BY <1>1, PathIs
<1>4. PICK e0 \in Active(edge) :
        /\ Walked(parent, n, x) = {e0} /\ edge[e0].from = parent /\ edge[e0].name = x
  BY <1>1, WalkedIs
<1>5. TypeOK /\ World(node, edge, D, f)
  BY PlainIs
<1>6. Fewer(edge, edge') /\ Active(edge') = Active(edge) \ {e0}
  BY <1>1, <1>4, <1>5, FewerArchived
<1>7. a \in Seq(Names) /\ x \in Names /\ path = Append(a, x) /\ path # <<>> /\ f[a] = parent
  BY <1>2 DEF ParentAt, Step
<1>8. \A e \in Active(edge) : edge[e].from # f[Append(a, x)]
  BY <1>1, <1>3, <1>7 DEF EdgesFrom, Active, ActiveEdges
<1> HIDE DEF n, parent, D, f, x
<1>9. Chart(edge', D \ {path}, f)
  BY <1>3, <1>4, <1>5, <1>6, <1>7, <1>8, UnlinkChart
<1>10. Volume!Unlink(Seen(node, D, f), Seen(node, D \ {path}, f), path)
  BY <1>3, <1>5, <1>7, <1>8, SameSelf, UnlinkSeen
<1>11. Volume!Edit(Seen(node, D, f), Seen(node', D \ {path}, f), path)
  BY <1>1, <1>10 DEF Volume!Edit
<1> QED
  BY <1>3, <1>9, <1>11, TurnsAre DEF D, f

LEMMA DestroyTurns ==
  ASSUME Plain, NEW m \in Mounts, NEW path \in Paths, RemoveRecursive(m, path)
  PROVE  Turns
<1> DEFINE n == Resolve(m, path)
           D == Resolved
           f == Leads
           X == Reach(edge, n)
<1>1. n # 0 /\ node' = node /\ edge' = Archive(SubtreePlacements(n))
  BY DEF RemoveRecursive
<1>2. path \in D /\ f[path] = n /\ n \in DOMAIN node
  BY <1>1, PathIs, ResolvedIs DEF Plain
<1>3. TypeOK /\ World(node, edge, D, f) /\ n \in Nat
  BY <1>2, PlainIs DEF TypeOK
<1>4. Closed(edge, X)
  BY <1>3, ReachLeast DEF TypeOK
<1>5. SubtreePlacements(n) = {e \in Active(edge) : edge[e].to \in X}
  BY <1>3, ReachIsSubtree DEF SubtreePlacements, Active, ActiveEdges
<1>6. Fewer(edge, edge') /\ \A e \in Active(edge) : e \in Active(edge') <=> edge[e].to \notin X
  BY <1>1, <1>3, <1>5, FewerArchived
<1> HIDE DEF D, f, n, X
<1>7. Chart(edge', Spared(D, f, X), f)
  BY <1>3, <1>4, <1>6, DestroyChart
<1>8. Volume!Destroy(Seen(node, D, f), Seen(node, Spared(D, f, X), f), path)
  BY <1>2, <1>3, SameSelf, DestroySeen DEF X
<1>9. Volume!Edit(Seen(node, D, f), Seen(node', Spared(D, f, X), f), path)
  BY <1>1, <1>8 DEF Volume!Edit
<1> QED
  BY <1>2, <1>7, <1>9, TurnsAre DEF D, f

(* The placement that Plus adds, to those of edge or of fewer.                *)
LEMMA PlusGains ==
  ASSUME NEW E \in Seq(EdgeRow), NEW G, Fewer(G, E), NEW p \in Nat, NEW n \in Nat, NEW name \in Names
  PROVE  \E k : /\ Gains(G, Plus(E, p, n, name), k, p, n, name)
                /\ Active(Plus(E, p, n, name)) \ {k} = Active(E)
<1> DEFINE F == Plus(E, p, n, name)
           k == Len(E) + 1
<1>1. Adds(E, F, k, p, n)
  BY PlusIs
<1>2. F[k].name = name
  <2> DEFINE row == [from |-> p, to |-> n, name |-> name, archived |-> FALSE]
  <2>1. row \in EdgeRow /\ row.name = name
    BY DEF EdgeRow
  <2> HIDE DEF row
  <2>2. F = Append(E, row)
    BY DEF Plus, row
  <2>3. F[Len(E) + 1] = row
    BY <2>1, <2>2, AppendProperties
  <2> QED
    BY <2>1, <2>3
<1> HIDE DEF F, k
<1>3. /\ k \in Active(F) /\ F[k].from = p /\ F[k].to = n
      /\ Active(F) \ {k} = Active(E) /\ \A e \in Active(E) : F[e] = E[e]
  BY <1>1, ActiveIn DEF Adds, Active
<1>4. Gains(G, F, k, p, n, name)
  BY <1>2, <1>3 DEF Gains, Fewer
<1> QED
  BY <1>3, <1>4 DEF F

LEMMA LinkTurns ==
  ASSUME Plain, NEW m \in Mounts, NEW src \in Paths, NEW dst \in Paths, Link(m, src, dst)
  PROVE  Turns
<1> DEFINE n == Resolve(m, src)
           parent == ResolveParent(m, dst)
           D == Resolved
           f == Leads
           y == Last(dst)
<1>1. /\ n # 0 /\ ~Holder(node, n) /\ parent # 0 /\ node' = node /\ Lookup(parent, y) = 0
      /\ edge' = Plus(edge, parent, n, y)
  BY DEF Link, Plus, IsContainer, Holder
<1>2. PICK a : ParentAt(parent, dst, a)
  BY <1>1, ParentPath
<1>3. src \in D /\ f[src] = n /\ n \in DOMAIN node
  BY <1>1, PathIs, ResolvedIs DEF Plain
<1>4. TypeOK /\ World(node, edge, D, f)
  BY PlainIs
<1>5. /\ a \in D /\ f[a] = parent /\ Holder(node, f[a]) /\ y \in Names /\ dst = Append(a, y)
      /\ Append(a, y) \notin D /\ ~Holder(node, f[src])
  BY <1>1, <1>2, <1>3 DEF ParentAt, Step
<1>6. parent \in Nat /\ n \in Nat /\ edge \in Seq(EdgeRow) /\ Fewer(edge, edge)
  BY <1>3, <1>4, <1>5, ChartNodes DEF TypeOK, Fewer
<1> HIDE DEF n, parent, D, f, y
<1>7. PICK k : Gains(edge, edge', k, parent, n, y) /\ Active(edge') \ {k} = Active(edge)
  BY <1>1, <1>5, <1>6, PlusGains
<1> DEFINE C == D \cup {Append(a, y)}
           g == Linked(D, f, src, Append(a, y))
<1>8. Chart(edge', C, g)
  <2>1. Gains(edge, edge', k, f[a], f[src], y)
    BY <1>3, <1>5, <1>7
  <2> QED
    BY <1>3, <1>4, <1>5, <1>7, <2>1, AliasChart
<1>9. Volume!Alias(Seen(node, D, f), Seen(node, C, g), src, Append(a, y))
  BY <1>3, <1>4, <1>5, AliasSeen
<1>10. DOMAIN Seen(node, C, g) = C /\ Append(a, y) \in C
  BY DEF Seen
<1> HIDE DEF C, g
<1>11. Volume!Edit(Seen(node, D, f), Seen(node', C, g), src)
  BY <1>1, <1>9, <1>10 DEF Volume!Edit
<1> QED
  BY <1>3, <1>8, <1>11, TurnsAre DEF D, f

LEMMA RenamedRows ==
  ASSUME TypeOK, NEW n \in DOMAIN node, NEW name \in Names, NEW sole, node' = Renamed(n, name, sole)
  PROVE  SameNodes(node, node')
<1>1. CASE ~sole
  BY <1>1, SameSelf DEF Renamed
<1>2. CASE sole
  <2>1. node' = [node EXCEPT ![n].name = name] /\ DOMAIN node' = DOMAIN node
    BY <1>2 DEF Renamed
  <2>2. node[n] \in NodeRow
    BY DEF TypeOK
  <2>3. node'[n].type = node[n].type /\ node'[n].data = node[n].data
    BY <2>1, <2>2 DEF NodeRow
  <2>4. \A x \in DOMAIN node : x # n => node'[x] = node[x]
    BY <2>1
  <2> QED
    BY <2>1, <2>3, <2>4 DEF SameNodes
<1> QED
  BY <1>1, <1>2

(* rename, move: the placement e0 of src gives way to e1 of dst.              *)
LEMMA PlacementMoved ==
  ASSUME Plain, NEW src \in Resolved, src # <<>>,
         NEW a \in Seq(Names), NEW x \in Names, src = Step(a, x),
         NEW b \in Resolved, NEW y \in Names, Holder(node, Leads[b]), Step(b, y) \notin Resolved,
         Leads[b] \notin Reach(edge, Leads[src]),
         NEW e0 \in Active(edge), edge[e0].from = Leads[a], edge[e0].name = x,
         NEW e1, Gains(edge, edge', e1, Leads[b], Leads[src], y),
         Active(edge') \ {e1} = Active(edge) \ {e0}, SameNodes(node, node')
  PROVE  Turns
<1> DEFINE q == Step(b, y)
           C == Moved(Resolved, src, q)
           g == MovedTo(Resolved, Leads, src, q)
           t == Seen(node, Resolved, Leads)
           u == Seen(node', C, g)
<1>1. World(node, edge, Resolved, Leads)
  BY PlainIs
<1>2. Chart(edge', C, g)
  BY <1>1, MovedChart
<1>3. Volume!Relocate(t, u, src, q)
  BY <1>1, RelocateSeen
<1>4. q \in C
  <2>1. src \in Seq(Names) /\ b \in Seq(Names) /\ q \in Seq(Names)
    BY StepIs DEF Resolved
  <2>2. Shifts(Resolved, Leads, src, q, C, g)
    BY <1>1, <2>1, MovedIs
  <2> HIDE DEF C, g, q
  <2>3. <<>> \in Rest(Resolved, src) /\ Join(q, <<>>) = q
    <3>1. Join(q, <<>>) = q /\ Join(src, <<>>) = src /\ <<>> \in Seq(Names)
      BY <2>1, JoinStep
    <3>2. src \o <<>> = src
      BY <3>1 DEF Join
    <3> QED
      BY <3>1, <3>2 DEF Rest
  <2>4. \A r \in Rest(Resolved, src) : Join(q, r) \in C
    BY <2>2 DEF Shifts
  <2> QED
    BY <2>3, <2>4
<1>5. DOMAIN u = C
  BY DEF Seen
<1> HIDE DEF C, g, q, u, t
<1>6. Volume!Edit(t, u, src)
  BY <1>3, <1>4, <1>5 DEF Volume!Edit
<1> QED
  BY <1>2, <1>6, TurnsAre DEF t, u

LEMMA RenameTurns ==
  ASSUME Plain, NEW m \in Mounts, NEW path \in Paths, NEW name \in Names, Rename(m, path, name)
  PROVE  Turns
<1> DEFINE n == Resolve(m, path)
           parent == ResolveParent(m, path)
           x == Last(path)
           W == Walked(parent, n, x)
<1>1. /\ n # 0 /\ parent # 0 /\ Lookup(parent, name) = 0
      /\ edge' = [e \in DOMAIN edge |-> IF e \in W THEN [edge[e] EXCEPT !.name = name] ELSE edge[e]]
      /\ node' = Renamed(n, name, Cardinality(PlacementsOf(n)) = 1)
  BY DEF Rename, Free, Plain
<1>2. PICK a : ParentAt(parent, path, a)
  BY <1>1, ParentPath
<1>3. path \in Resolved /\ Leads[path] = n /\ n \in DOMAIN node
  BY <1>1, PathIs, ResolvedIs DEF Plain
<1>4. PICK e0 \in Active(edge) :
        W = {e0} /\ edge[e0].from = parent /\ edge[e0].name = x /\ edge[e0].to = n
  BY <1>1, WalkedIs
<1>5. TypeOK /\ Tree(node, edge)
  BY PlainIs DEF IInv
<1>6. SameNodes(node, node')
  <2> DEFINE sole == Cardinality(PlacementsOf(n)) = 1
  <2> HIDE DEF sole
  <2>1. node' = Renamed(n, name, sole)
    BY <1>1 DEF sole
  <2> QED
    BY <1>3, <1>5, <2>1, RenamedRows
<1> HIDE DEF n, parent, x, W
<1>7. /\ DOMAIN edge' = DOMAIN edge
      /\ \A e \in DOMAIN edge :
           /\ edge'[e].from = edge[e].from /\ edge'[e].to = edge[e].to
           /\ edge'[e].archived = edge[e].archived
           /\ edge'[e].name = IF e = e0 THEN name ELSE edge[e].name
  <2>1. \A e \in DOMAIN edge : edge[e] \in EdgeRow
    BY <1>5, RowFields
  <2> QED
    BY <1>1, <1>4, <2>1 DEF EdgeRow
<1>8. Active(edge') = Active(edge)
  BY <1>7 DEF Active
<1>9. \A e \in Active(edge) : /\ edge'[e].from = edge[e].from /\ edge'[e].to = edge[e].to
                              /\ edge'[e].name = IF e = e0 THEN name ELSE edge[e].name
  BY <1>7, ActiveIn
<1>10. /\ a \in Resolved /\ a \in Seq(Names) /\ Leads[a] = parent /\ Holder(node, Leads[a])
       /\ x \in Names /\ path = Step(a, x) /\ path # <<>> /\ Step(a, name) \notin Resolved
  BY <1>1, <1>2 DEF ParentAt, x
<1>11. Gains(edge, edge', e0, Leads[a], Leads[path], name)
  BY <1>3, <1>4, <1>8, <1>9, <1>10 DEF Gains
<1>12. Leads[a] \notin Reach(edge, Leads[path])
  BY <1>3, <1>4, <1>5, <1>10 DEF Tree
<1>13. edge[e0].from = Leads[a] /\ edge[e0].name = x /\ Active(edge') \ {e0} = Active(edge) \ {e0}
  BY <1>4, <1>8, <1>10
<1> QED
  BY <1>3, <1>6, <1>10, <1>11, <1>12, <1>13, PlacementMoved

LEMMA MoveTurns ==
  ASSUME Plain, NEW m \in Mounts, NEW src \in Paths, NEW dst \in Paths, Move(m, src, dst)
  PROVE  Turns
<1> DEFINE n == Resolve(m, src)
           from == ResolveParent(m, src)
           p == ResolveParent(m, dst)
           x == Last(src)
           y == Last(dst)
           W == Walked(from, n, x)
           sole == PlacementsOf(n) = W
<1>1. /\ n # 0 /\ from # 0 /\ p # 0 /\ Lookup(p, y) = 0
      /\ edge' = Plus(Archive(W), p, n, y)
      /\ node' = Renamed(n, y, sole)
      /\ Holder(node, n) => p \notin Subtree(n)
  BY DEF Move, Plus, Free, Plain, IsContainer, Holder, WouldCycle
<1>2. PICK a : ParentAt(from, src, a)
  BY <1>1, ParentPath
<1>3. PICK b : ParentAt(p, dst, b)
  BY <1>1, ParentPath
<1>4. src \in Resolved /\ Leads[src] = n /\ n \in DOMAIN node
  BY <1>1, PathIs, ResolvedIs DEF Plain
<1>5. PICK e0 \in Active(edge) :
        W = {e0} /\ edge[e0].from = from /\ edge[e0].name = x /\ edge[e0].to = n
  BY <1>1, WalkedIs
<1>6. TypeOK /\ IInv /\ World(node, edge, Resolved, Leads)
  BY PlainIs
<1> HIDE DEF n, from, p, x, y, W, sole
<1>7. /\ a \in Seq(Names) /\ Leads[a] = from /\ x \in Names /\ src = Step(a, x) /\ src # <<>>
  BY <1>2 DEF ParentAt, x
<1>8. /\ b \in Resolved /\ Leads[b] = p /\ Holder(node, Leads[b]) /\ y \in Names
      /\ Step(b, y) \notin Resolved
  BY <1>1, <1>3 DEF ParentAt, y
<1>9. p \in Nat /\ n \in Nat /\ p \in DOMAIN node
  BY <1>4, <1>6, <1>8, ChartNodes DEF TypeOK
<1>10. SameNodes(node, node')
  BY <1>1, <1>4, <1>6, <1>8, RenamedRows
<1>11. Leads[b] \notin Reach(edge, Leads[src])
  <2>1. CASE Holder(node, n)
    BY <1>1, <1>4, <1>8, <2>1, ReachIsSubtree
  <2>2. CASE ~Holder(node, n)
    <3>1. Reach(edge, n) = {n} /\ p # n
      BY <1>4, <1>6, <1>8, <2>2, LeafReach
    <3> QED
      BY <1>4, <1>8, <3>1
  <2> QED
    BY <2>1, <2>2
<1>12. /\ Archive(W) \in Seq(EdgeRow) /\ Fewer(edge, Archive(W))
       /\ Active(Archive(W)) = Active(edge) \ {e0}
  BY <1>5, <1>6, FewerArchived, ArchivePrunes DEF Prunes
<1>13. PICK k : /\ Gains(edge, edge', k, p, n, y)
                /\ Active(edge') \ {k} = Active(Archive(W))
  BY <1>1, <1>8, <1>9, <1>12, PlusGains
<1>14. /\ Gains(edge, edge', k, Leads[b], Leads[src], y) /\ edge[e0].from = Leads[a]
       /\ edge[e0].name = x /\ Active(edge') \ {k} = Active(edge) \ {e0}
  BY <1>4, <1>5, <1>7, <1>8, <1>12, <1>13
<1> QED
  BY <1>4, <1>7, <1>8, <1>10, <1>11, <1>14, PlacementMoved

(* What is left of the volume when placements are archived.                   *)
LEMMA ArchivedWorld ==
  ASSUME Plain, NEW S, NEW D, Chart(Archive(S), D, Leads)
  PROVE  Archive(S) \in Seq(EdgeRow) /\ World(node, Archive(S), D, Leads)
<1> DEFINE E == Archive(S)
<1>1. TypeOK /\ World(node, edge, Resolved, Leads)
  BY PlainIs
<1>2. Prunes(edge, E) /\ Distinct(E)
  BY <1>1, ArchivePrunes, ArchivedNames DEF World
<1> HIDE DEF E
<1>3. Tree(node, E) /\ Ends(node, E) /\ E \in Seq(EdgeRow)
  BY <1>1, <1>2, PruneTree DEF World, Prunes
<1> QED
  BY <1>1, <1>2, <1>3 DEF World, E

LEMMA PacksAppend ==
  ASSUME TypeOK, NEW more \in Seq(PackRow), blob' = Append(blob, more)
  PROVE  Packs' = Append(Packs, ShapeOf(more)) /\ Len(Packs) = Len(blob)
<1> DEFINE S == Seq(PackRow)
           T == {Packs[i] : i \in DOMAIN Packs} \cup {ShapeOf(more)}
           k == Len(blob)
<1>1. blob \in Seq(S)
  BY DEF TypeOK
<1> HIDE DEF S
<1>2. /\ Len(blob') = k + 1 /\ blob' \in Seq(S) /\ k \in Nat /\ DOMAIN blob = 1..k
      /\ \A i \in 1..k : blob'[i] = blob[i]
      /\ blob'[k + 1] = more
  BY <1>1, AppendProperties DEF S
<1>3. DOMAIN blob' = 1..(k + 1)
  BY <1>2
<1>4. Packs = [i \in 1..k |-> ShapeOf(blob[i])] /\ DOMAIN Packs = 1..k
  BY <1>2 DEF Packs
<1>5. Packs' = [i \in 1..(k + 1) |-> ShapeOf(blob'[i])]
  BY <1>3 DEF Packs, ShapeOf, PathOfRow
<1> HIDE DEF k
<1>6. /\ DOMAIN Packs' = 1..(k + 1) /\ Packs' = [i \in 1..(k + 1) |-> Packs'[i]]
      /\ \A i \in 1..k : Packs'[i] = Packs[i]
      /\ Packs'[k + 1] = ShapeOf(more)
  BY <1>2, <1>4, <1>5
<1>7. Packs \in Seq(T) /\ ShapeOf(more) \in T
  <2>1. \A i \in 1..k : Packs[i] \in T
    BY <1>4
  <2>2. Packs = [i \in 1..k |-> Packs[i]]
    BY <1>4
  <2>3. ShapeOf(more) \in T
    OBVIOUS
  <2> HIDE DEF T
  <2>4. Packs \in [1..k -> T]
    BY <2>1, <2>2
  <2> QED
    BY <1>2, <2>3, <2>4
<1>8. Len(Packs) = k
  BY <1>2, <1>4, <1>7
<1> HIDE DEF T
<1>9. /\ Append(Packs, ShapeOf(more)) \in Seq(T) /\ Len(Append(Packs, ShapeOf(more))) = k + 1
      /\ \A i \in 1..k : Append(Packs, ShapeOf(more))[i] = Packs[i]
      /\ Append(Packs, ShapeOf(more))[k + 1] = ShapeOf(more)
  BY <1>7, <1>8, AppendProperties
<1> QED
  <2> DEFINE u == Append(Packs, ShapeOf(more))
             v == Packs'
  <2>1. DOMAIN u = 1..(k + 1) /\ u = [i \in 1..(k + 1) |-> u[i]]
    <3>1. u \in Seq(T) /\ Len(u) = k + 1
      BY <1>9
    <3> HIDE DEF u
    <3> QED
      BY <1>2, <3>1
  <2>2. \A i \in 1..(k + 1) : i \in 1..k \/ i = k + 1
    BY <1>2
  <2>3. \A i \in 1..(k + 1) : u[i] = v[i]
    BY <1>6, <1>9, <2>2
  <2>4. v = [i \in 1..(k + 1) |-> v[i]]
    BY <1>6
  <2> HIDE DEF u, v
  <2>5. u = v
    BY <2>1, <2>3, <2>4
  <2> QED
    BY <1>8, <2>5 DEF u, v, k

(* What a pack does to the tree of paths.                                     *)
Consolidates(path) ==
    \E C, g :
        /\ Chart(edge', C, g) /\ path \in Resolved
        /\ Volume!Consolidate(Seen(node, Resolved, Leads), Seen(node', C, g), path)

LEMMA PackTurns ==
  ASSUME Plain, NEW m \in Mounts, NEW path \in Paths, Pack(m, path)
  PROVE  Consolidates(path)
<1> DEFINE n == Resolve(m, path)
           name == node[n].name
           rows == <<[p |-> 0, t |-> "leaf", n |-> name, d |-> Len(blob) + 1]>>
           more == RowsOf(n, name)
           S == SubtreePlacements(n)
           X == Reach(edge, n)
           D == Spared(Resolved, Leads, X)
           t == Seen(node, Resolved, Leads)
<1>1. n # 0 /\ Holder(node, n) /\ blob' = Append(blob, more)
  BY DEF Pack, Encode, IsContainer, Holder
<1>2. PICK e \in PlacementsOf(n) : Graft(edge[e].from, rows, Archive(S))
  BY DEF Pack
<1>3. /\ TypeOK /\ IInv /\ Tree(node, edge) /\ World(node, edge, Resolved, Leads)
      /\ Titled(node, edge) /\ Distinct(edge)
  BY PlainIs DEF World, Neat
<1>4. path \in Resolved /\ Leads[path] = n /\ path \in Seq(Names)
  BY <1>1, PathIs DEF Resolved
<1>5. /\ n # Root /\ n \in DOMAIN node /\ n \in Nat
      /\ e \in Active(edge) /\ edge[e].to = n
  BY <1>3, PlacementIs DEF PlacementsOf, Active, ActiveEdges, TypeOK
<1>6. path # <<>>
  BY <1>3, <1>4, <1>5 DEF World, Chart
<1>7. PICK a \in Seq(Names), x \in Names : path = Step(a, x)
  BY <1>4, <1>6, StepBack
<1>8. Chart(edge, Resolved, Leads)
  BY <1>3 DEF World
<1>9. /\ a \in Resolved
      /\ \E e0 \in Active(edge) : /\ edge[e0].from = Leads[a] /\ edge[e0].name = x
                                  /\ edge[e0].to = Leads[path]
  BY <1>4, <1>7, <1>8, ChartUp
<1>10. edge[e].from = Leads[a] /\ edge[e].name = x
  BY <1>1, <1>3, <1>4, <1>5, <1>9 DEF Tree
<1>11. name = x
  BY <1>1, <1>3, <1>5, <1>10 DEF Titled
<1>12. /\ RowsOk(rows) /\ Tidy(rows) /\ rows[1].n = name
       /\ ShapeOf(rows) = [r \in {<<>>} |-> [type |-> "leaf", data |-> Len(blob) + 1]]
  <2>1. name \in Names /\ Len(blob) + 1 \in Nat /\ "leaf" \in Types
    BY <1>3, <1>11 DEF Types, TypeOK
  <2> HIDE DEF name
  <2> QED
    BY <2>1, SingleRow
<1>13. RowsOk(more) /\ Tidy(more) /\ \E to : Reads(n, more, to)
  BY <1>3, <1>5, <1>11, RowsOfOk
<1>14. Holder(node, Leads[a]) /\ edge[e].from \notin X /\ n \in X
  BY <1>3, <1>5, <1>10, ReachLeast DEF Tree, TypeOK
<1>15. Closed(edge, X)
  BY <1>3, <1>5, ReachLeast DEF TypeOK
<1>16. S = {f \in Active(edge) : edge[f].to \in X}
  BY <1>5, ReachIsSubtree DEF SubtreePlacements, Active, ActiveEdges
<1>17. Fewer(edge, Archive(S)) /\ \A f \in Active(edge) : f \in Active(Archive(S)) <=> edge[f].to \notin X
  BY <1>3, <1>16, FewerArchived
<1> HIDE DEF n, name, rows, more, S, X
<1>18. Chart(Archive(S), D, Leads)
  BY <1>3, <1>15, <1>17, DestroyChart
<1>19. Archive(S) \in Seq(EdgeRow) /\ World(node, Archive(S), D, Leads)
  BY <1>18, ArchivedWorld
<1>20. D \in SUBSET Resolved /\ a \in D /\ path \notin D
  BY <1>4, <1>6, <1>9, <1>10, <1>14 DEF Spared
<1>21. Resolved \ D = Volume!Destroyed(t, path)
  BY <1>3, <1>4, DestroyedIs DEF X
<1> HIDE DEF D, t
<1>22. path = Step(a, rows[1].n) /\ Graft(Leads[a], rows, Archive(S))
  BY <1>2, <1>7, <1>10, <1>11, <1>12
<1>23. PICK C, g :
         /\ Chart(edge', C, g)
         /\ Volume!Replaced(t, Seen(node', C, g), Resolved \ D, path, ShapeOf(rows))
  BY <1>12, <1>14, <1>19, <1>20, <1>22, RowsReplaced DEF t
<1>24. ShapeOf(more) = Volume!Shape(t, path)
  <2>1. PICK to : Reads(Leads[path], more, to)
    BY <1>4, <1>13
  <2>2. ShapeOf(more) = Form(node, Resolved, Leads, path)
    BY <1>3, <1>4, <1>13, <2>1, ShapeRead
  <2>3. Resolved \in SUBSET Seq(Names)
    BY DEF Resolved
  <2> QED
    BY <1>4, <2>2, <2>3, ShapeIs DEF t
<1>25. Packs' = Append(Packs, Volume!Shape(t, path)) /\ Len(Packs) = Len(blob)
  BY <1>1, <1>3, <1>13, <1>24, PacksAppend DEF RowsOk
<1>26. Volume!CanHold(t, path)
  BY <1>1, <1>4 DEF Volume!CanHold, t, Seen, Holder
<1>27. Volume!Consolidate(t, Seen(node', C, g), path)
  BY <1>6, <1>12, <1>21, <1>23, <1>25, <1>26 DEF Volume!Consolidate, Packs
<1> QED
  BY <1>4, <1>23, <1>27 DEF Consolidates, t

(* What is put where no path leads is not seen.                               *)
Stays ==
    Chart(edge', Resolved, Leads) /\ Seen(node', Resolved, Leads) = Seen(node, Resolved, Leads)

LEMMA UnpackStays ==
  ASSUME Plain, NEW e \in Active(edge), edge[e].from \notin Reach(edge, Root),
         NEW rows, RowsOk(rows), Graft(edge[e].from, rows, Archive({e}))
  PROVE  Stays
<1> DEFINE E == Archive({e})
           p == edge[e].from
           D == Resolved
           f == Leads
           w == Len(node)
<1>1. TypeOK /\ IInv /\ World(node, edge, D, f)
  BY PlainIs
<1>2. p \in Nat /\ p \in DOMAIN node /\ node \in Seq(NodeRow) /\ w \in Nat /\ DOMAIN node = 1..w
  BY <1>1, EdgeIn DEF TypeOK
<1>3. Prunes(edge, E) /\ E \in Seq(EdgeRow) /\ Ends(node, E)
  BY <1>1, ArchivePrunes DEF Prunes, World, Ends
<1>4. Grafts(node, E, p, rows, node', edge')
  BY <1>1, <1>2, <1>3, GraftIs
<1>5. Fewer(edge, E) /\ Active(E) = Active(edge) \ {e}
  BY <1>1, FewerArchived
<1>6. \A q \in D : f[q] \in DOMAIN node /\ f[q] \in Reach(edge, Root) /\ f[q] # p /\ f[q] <= w
  <2> SUFFICES ASSUME NEW q \in D
               PROVE  f[q] \in DOMAIN node /\ f[q] \in Reach(edge, Root) /\ f[q] # p /\ f[q] <= w
    OBVIOUS
  <2>1. q \in Seq(Names) /\ f[q] \in DOMAIN node /\ <<>> \in Seq(Names)
    BY <1>1, ChartNodes
  <2>2. Join(<<>>, q) = q
    BY <2>1 DEF Join
  <2>3. f[q] \in Reach(edge, f[<<>>])
    BY <1>1, <2>1, <2>2, JoinAbove
  <2>4. f[<<>>] = Root
    BY <1>1 DEF World, Chart
  <2> QED
    BY <1>2, <2>1, <2>3, <2>4
<1>7. \A d \in Active(edge') :
        \/ /\ d \in Active(edge) /\ edge'[d].from = edge[d].from
           /\ edge'[d].to = edge[d].to /\ edge'[d].name = edge[d].name
        \/ edge'[d].from = p \/ edge'[d].from > w
  <2> SUFFICES ASSUME NEW d \in Active(edge')
               PROVE  \/ /\ d \in Active(edge) /\ edge'[d].from = edge[d].from
                         /\ edge'[d].to = edge[d].to /\ edge'[d].name = edge[d].name
                      \/ edge'[d].from = p \/ edge'[d].from > w
    OBVIOUS
  <2>3. \/ d \in Active(E) /\ edge'[d] = E[d]
        \/ \E i \in DOMAIN rows : edge'[d].from = IF rows[i].p = 0 THEN p ELSE w + rows[i].p
    <3> HIDE DEF E, p
    <3>1. PICK M, F : M = node' /\ F = edge'
      OBVIOUS
    <3>2. Grafts(node, E, p, rows, M, F) /\ d \in Active(F)
      BY <1>4, <3>1
    <3>3. p \in DOMAIN node /\ node \in Seq(NodeRow) /\ E \in Seq(EdgeRow) /\ Ends(node, E)
      BY <1>2, <1>3
    <3>4. \/ d \in Active(E) /\ F[d] = E[d] /\ E[d].to \in DOMAIN node /\ E[d].from \in DOMAIN node
          \/ \E i \in DOMAIN rows :
               /\ d = Len(E) + i /\ F[d].to = Len(node) + i /\ F[d].name = rows[i].n
               /\ F[d].from = IF rows[i].p = 0 THEN p ELSE Len(node) + rows[i].p
      BY <3>2, <3>3, GraftedEdges
    <3> QED
      BY <3>1, <3>4
  <2> HIDE DEF E, p, w
  <2>1. CASE d \in Active(E) /\ edge'[d] = E[d]
    BY <1>5, <2>1 DEF Fewer
  <2>2. ASSUME NEW i \in DOMAIN rows,
               edge'[d].from = IF rows[i].p = 0 THEN p ELSE w + rows[i].p
        PROVE  edge'[d].from = p \/ edge'[d].from > w
    <3>1. rows[i].p \in Nat
      BY RowTypes
    <3> QED
      BY <1>2, <2>2, <3>1
  <2> QED
    BY <2>1, <2>2, <2>3
<1>8. \A d \in Active(edge) \ {e} : /\ d \in Active(edge') /\ edge'[d].from = edge[d].from
                                   /\ edge'[d].to = edge[d].to /\ edge'[d].name = edge[d].name
  <2> SUFFICES ASSUME NEW d \in Active(edge) \ {e}
               PROVE  /\ d \in Active(edge') /\ edge'[d].from = edge[d].from
                      /\ edge'[d].to = edge[d].to /\ edge'[d].name = edge[d].name
    OBVIOUS
  <2>1. d \in Active(E) /\ d \in DOMAIN E
    BY <1>5, ActiveIn
  <2> HIDE DEF E, p, w
  <2>2. edge'[d] = E[d]
    BY <1>4, <2>1 DEF Grafts
  <2>3. d \in DOMAIN edge'
    <3>1. /\ DOMAIN edge' = 1..(Len(E) + Len(rows)) /\ DOMAIN E = 1..Len(E)
          /\ Len(E) \in Nat /\ Len(rows) \in Nat
      BY <1>3, <1>4 DEF Grafts, RowsOk
    <3> QED
      BY <2>1, <3>1
  <2> QED
    BY <1>5, <2>1, <2>2, <2>3 DEF Active, Fewer
<1>9. Chart(edge, D, f)
  BY <1>1 DEF World
<1> HIDE DEF E, p, D, f, w
<1>10. Chart(edge', D, f)
  <2>1. ASSUME NEW q \in Seq(Names), NEW x \in Names, Step(q, x) \in D
        PROVE  /\ q \in D
               /\ \E d \in Active(edge') : edge'[d].from = f[q] /\ edge'[d].name = x
                                           /\ edge'[d].to = f[Step(q, x)]
    <3>1. q \in D /\ \E d \in Active(edge) : edge[d].from = f[q] /\ edge[d].name = x
                                              /\ edge[d].to = f[Step(q, x)]
      BY <1>9, <2>1, ChartUp
    <3>2. PICK d \in Active(edge) : edge[d].from = f[q] /\ edge[d].name = x
                                    /\ edge[d].to = f[Step(q, x)]
      BY <3>1
    <3>3. d # e
      BY <1>6, <3>1, <3>2 DEF p
    <3> QED
      BY <1>8, <3>1, <3>2, <3>3
  <2>2. ASSUME NEW q \in D, NEW d \in Active(edge'), edge'[d].from = f[q]
        PROVE  Step(q, edge'[d].name) \in D /\ f[Step(q, edge'[d].name)] = edge'[d].to
    <3>1. f[q] \in Nat /\ f[q] # p /\ f[q] <= w
      BY <1>2, <1>6
    <3>2. d \in Active(edge) /\ edge'[d].from = edge[d].from
          /\ edge'[d].to = edge[d].to /\ edge'[d].name = edge[d].name
      BY <1>2, <1>7, <2>2, <3>1
    <3>3. edge[d].from = f[q]
      BY <2>2, <3>2
    <3>4. Step(q, edge[d].name) \in D /\ f[Step(q, edge[d].name)] = edge[d].to
      BY <1>9, <3>2, <3>3, ChartDown
    <3> QED
      BY <3>2, <3>4
  <2>3. D \subseteq Seq(Names) /\ <<>> \in D /\ f[<<>>] = Root
    BY <1>9 DEF Chart
  <2> QED
    BY <2>1, <2>2, <2>3, ChartSteps
<1>11. Seen(node', D, f) = Seen(node, D, f)
  <2>1. \A q \in D : node'[f[q]] = node[f[q]]
    BY <1>4, <1>6 DEF Grafts
  <2> QED
    BY <2>1 DEF Seen
<1> QED
  BY <1>10, <1>11 DEF Stays, D, f

LEMMA UnpackTurns ==
  ASSUME Plain, NEW m \in Mounts, NEW path \in Paths, Unpack(m, path)
  PROVE  Turns \/ Stays
<1> DEFINE n == Resolve(m, path)
           d == node[n].data
           t == Seen(node, Resolved, Leads)
<1>1. n # 0 /\ ~Holder(node, n)
  BY DEF Unpack, IsContainer, Holder
<1>2. PICK rows \in Decode(d), e \in PlacementsOf(n) :
        /\ \A x \in EdgesFrom(edge[e].from) \ {e} : edge[x].name # rows[1].n
        /\ Graft(edge[e].from, rows, Archive({e}))
  BY DEF Unpack, Plain
<1>3. /\ TypeOK /\ IInv /\ Tree(node, edge) /\ World(node, edge, Resolved, Leads)
      /\ Chart(edge, Resolved, Leads)
  BY PlainIs DEF World
<1>4. /\ n \in DOMAIN node /\ e \in Active(edge) /\ edge[e].to = n /\ edge[e].from \in Nat
      /\ Holder(node, edge[e].from) /\ edge[e].name \in Names
  BY <1>3, PlacementIs, EdgeIn DEF PlacementsOf, Active, ActiveEdges
<1>5. d \in DOMAIN blob /\ rows = blob[d] /\ RowsOk(rows) /\ Tidy(rows) /\ d # 0
  <2>1. d \in DOMAIN blob /\ rows = blob[d]
    BY <1>2 DEF Decode
  <2>2. \A b \in DOMAIN blob : RowsOk(blob[b]) /\ Tidy(blob[b]) /\ b # 0
    BY <1>3, PlainIs DEF IInv, Packed, Neat, TypeOK
  <2> QED
    BY <2>1, <2>2
<1>6. CASE edge[e].from \notin Reach(edge, Root)
  BY <1>2, <1>4, <1>5, <1>6, UnpackStays
<1>7. CASE edge[e].from \in Reach(edge, Root)
  <2> DEFINE x == edge[e].name
             y == rows[1].n
             E == Archive({e})
  <2>1. <<>> \in Resolved /\ Leads[<<>>] = Root
    BY <1>3 DEF Chart
  <2>2. PICK a \in Seq(Names) : a \in Resolved /\ Leads[a] = edge[e].from
    <3> DEFINE z == <<>>
    <3>1. z \in Resolved /\ edge[e].from \in Reach(edge, Leads[z])
      BY <1>7, <2>1
    <3> HIDE DEF z
    <3>2. PICK c \in Reach(edge, Leads[z]) : c = edge[e].from
      BY <3>1
    <3>3. World(node, edge, Resolved, Leads) /\ z \in Resolved
      BY <1>3, <3>1
    <3>4. \E r \in Seq(Names) : z \o r \in Resolved /\ Leads[z \o r] = c
      BY <3>3, ReachIsBelow
    <3>5. PICK r \in Seq(Names) : z \o r \in Resolved /\ Leads[z \o r] = c
      BY <3>4
    <3> QED
      BY <3>2, <3>5 DEF Resolved
  <2>3. y \in Names /\ x \in Names
    BY <1>4, <1>5, RouteIs, RowTypes
  <2> DEFINE p == Step(a, x)
             q == Step(a, y)
             D == Resolved \ {p}
  <2>4. p \in Resolved /\ Leads[p] = n
    BY <1>3, <1>4, <2>2, ChartDown
  <2> HIDE DEF y
  <2>5. /\ p \in Seq(Names) /\ p # <<>> /\ Volume!Parent(p) = a /\ q \in Seq(Names)
        /\ Volume!Parent(q) = a /\ a \in D
    <3>1. /\ p \in Seq(Names) /\ p # <<>> /\ Volume!Parent(p) = a /\ q \in Seq(Names)
          /\ Volume!Parent(q) = a
      <4>1. p \in Seq(Names) /\ p # <<>> /\ Volume!Parent(p) = a
        BY <2>2, <2>3, StepIs
      <4>2. q \in Seq(Names) /\ Volume!Parent(q) = a
        BY <2>2, <2>3, StepIs
      <4> QED
        BY <4>1, <4>2
    <3>2. a # p
      <4>1. Join(p, <<>>) = p
        BY <3>1, JoinStep
      <4>2. <<>> \in Seq(Names)
        OBVIOUS
      <4>3. a # Join(p, <<>>)
        BY <2>2, <2>3, <4>2, JoinLonger
      <4> QED
        BY <4>1, <4>3
    <3> QED
      BY <2>2, <3>1, <3>2
  <2>6. \A c \in Active(edge) : edge[c].from # Leads[p]
    BY <1>1, <1>3, <2>4 DEF Tree
  <2>7. Fewer(edge, E) /\ Active(E) = Active(edge) \ {e}
    BY <1>3, FewerArchived
  <2>8. Chart(E, D, Leads)
    <3> HIDE DEF E
    <3> QED
      BY <1>3, <1>4, <2>2, <2>3, <2>4, <2>6, <2>7, UnlinkChart DEF Step
  <2>9. E \in Seq(EdgeRow) /\ World(node, E, D, Leads)
    BY <2>8, ArchivedWorld
  <2>10. q \notin D
    <3> SUFFICES ASSUME q \in D PROVE FALSE
      OBVIOUS
    <3>1. PICK c \in Active(edge) : edge[c].from = Leads[a] /\ edge[c].name = y
      BY <1>3, <2>2, <2>3, ChartUp
    <3>2. c = e
      BY <1>2, <2>2, <3>1 DEF EdgesFrom, Active, ActiveEdges, y
    <3> QED
      BY <3>1, <3>2
  <2>11. Holder(node, Leads[a]) /\ Graft(Leads[a], rows, E) /\ D \in SUBSET Resolved
    BY <1>2, <1>4, <2>2
  <2> HIDE DEF p, q, D, E
  <2>12. PICK C, g :
           /\ Chart(edge', C, g) /\ q \in C
           /\ Volume!Replaced(t, Seen(node', C, g), Resolved \ D, q, ShapeOf(rows))
    BY <1>5, <2>5, <2>9, <2>10, <2>11, RowsReplaced DEF q, t, y
  <2>13. Resolved \ D = {p}
    BY <2>4 DEF D
  <2>14. p \in DOMAIN t /\ t[p].type = "leaf" /\ t[p].data = d
    <3>1. node[n].type = "leaf"
      <4>1. node[n] \in NodeRow
        BY <1>3, <1>4 DEF TypeOK
      <4> HIDE DEF n
      <4> QED
        BY <1>1, <4>1 DEF Holder, NodeRow, Types
    <3> QED
      BY <2>4, <3>1 DEF t, Seen
  <2>15. p = q \/ Volume!Vacant(t, q)
    <3> SUFFICES ASSUME p # q PROVE Volume!Vacant(t, q)
      OBVIOUS
    <3>1. q \notin Resolved
      BY <2>10 DEF D
    <3>2. Append(a, y) \notin Resolved /\ q = Append(a, y)
      BY <3>1 DEF q, Step
    <3>3. Volume!Vacant(t, Append(a, y))
      BY <1>3, <2>2, <2>3, <2>11, <3>2, VacantIs DEF t
    <3> QED
      BY <3>2, <3>3
  <2>16. Packs[t[p].data] = ShapeOf(rows)
    BY <1>5, <2>14 DEF Packs
  <2>17. DOMAIN Seen(node', C, g) = C
    BY DEF Seen
  <2> HIDE DEF t, d
  <2>18. Volume!Restore(t, Seen(node', C, g), p, q)
    BY <1>5, <2>5, <2>12, <2>13, <2>14, <2>15, <2>16 DEF Volume!Restore, Packs
  <2>19. Volume!Edit(t, Seen(node', C, g), p)
    BY <2>12, <2>17, <2>18 DEF Volume!Edit
  <2> QED
    BY <2>4, <2>12, <2>19, TurnsAre DEF t
<1> QED
  BY <1>6, <1>7

---------------------------------------------------------------------------
(* Every step                                                              *)

LEMMA ViewThen ==
  IInv' /\ Distinct(edge)' => \A C, g : Chart(edge', C, g) => View' = Seen(node', C, g)
<1> DEFINE F == IInv /\ Distinct(edge)
           G == \A C, g : Chart(edge, C, g) => View = Seen(node, C, g)
<1>1. F => G
  BY ViewIs
<1>2. F' => G'
  <2> HIDE DEF F, G
  <2> QED
    BY <1>1, PTL
<1>3. G' => \A C, g : Chart(edge', C, g) => View' = Seen(node', C, g)
  BY DEF Chart, Seen, Active
<1> QED
  BY <1>2, <1>3

LEMMA EditShows ==
  ASSUME Plain, NEW m \in Mounts, Edit(m)
  PROVE  \/ (Turns \/ Stays) /\ blob' = blob
         \/ \E path : Consolidates(path)
<1>1. PICK path \in Paths :
        \/ \E t \in Types : Create(m, path, t)
        \/ \E name \in Names : Rename(m, path, name)
        \/ RemoveOne(m, path)
        \/ RemoveRecursive(m, path)
        \/ Pack(m, path)
        \/ Unpack(m, path)
        \/ \E dst \in Paths : Link(m, path, dst) \/ Move(m, path, dst) \/ Copy(m, path, dst)
  BY DEF Edit
<1>2. ASSUME NEW t \in Types, Create(m, path, t) PROVE Turns /\ blob' = blob
  BY <1>2, CreateTurns DEF Create
<1>3. ASSUME NEW name \in Names, Rename(m, path, name) PROVE Turns /\ blob' = blob
  BY <1>3, RenameTurns DEF Rename
<1>4. CASE RemoveOne(m, path)
  BY <1>4, RemoveTurns DEF RemoveOne
<1>5. CASE RemoveRecursive(m, path)
  BY <1>5, DestroyTurns DEF RemoveRecursive
<1>6. CASE Pack(m, path)
  BY <1>6, PackTurns
<1>7. CASE Unpack(m, path)
  BY <1>7, UnpackTurns DEF Unpack
<1>8. ASSUME NEW dst \in Paths, Link(m, path, dst) PROVE Turns /\ blob' = blob
  BY <1>8, LinkTurns DEF Link
<1>9. ASSUME NEW dst \in Paths, Move(m, path, dst) PROVE Turns /\ blob' = blob
  BY <1>9, MoveTurns DEF Move
<1>10. ASSUME NEW dst \in Paths, Copy(m, path, dst) PROVE Turns /\ blob' = blob
  BY <1>10, CopyTurns DEF Copy
<1> QED
  BY <1>1, <1>2, <1>3, <1>4, <1>5, <1>6, <1>7, <1>8, <1>9, <1>10

LEMMA StepShows ==
  ASSUME Plain, IInv', Distinct(edge)', [Next]_vars
  PROVE  [Volume!Next]_(Volume!vars)
<1>1. World(node, edge, Resolved, Leads) /\ Chart(edge, Resolved, Leads)
  BY PlainIs DEF World
<1>2. View = Seen(node, Resolved, Leads)
  BY <1>1, ViewIs DEF Plain
<1>3. ASSUME blob' = blob PROVE Packs' = Packs
  BY <1>3 DEF Packs, ShapeOf, PathOfRow
<1>4. ASSUME View' = View, Packs' = Packs PROVE UNCHANGED Volume!vars
  BY <1>4 DEF Volume!vars, View, Packs
<1>5. Volume!Next <=>
        \E p \in DOMAIN View \cup DOMAIN View' :
          (Volume!Edit(View, View', p) /\ Packs' = Packs) \/ Volume!Consolidate(View, View', p)
  BY DEF Volume!Next, View, Packs
<1>6. CASE Turns /\ blob' = blob
  <2>1. PICK C, g, p :
          /\ Chart(edge', C, g) /\ p \in Resolved \cup C
          /\ Volume!Edit(Seen(node, Resolved, Leads), Seen(node', C, g), p)
    BY <1>6 DEF Turns
  <2>2. View' = Seen(node', C, g)
    BY <2>1, ViewThen
  <2>3. DOMAIN View = Resolved /\ DOMAIN View' = C
    BY <1>2, <2>2 DEF Seen
  <2>4. Volume!Edit(View, View', p)
    BY <1>2, <2>1, <2>2
  <2> QED
    BY <1>3, <1>5, <1>6, <2>1, <2>3, <2>4
<1>7. CASE Stays /\ blob' = blob
  <2>1. View' = View
    BY <1>2, <1>7, ViewThen DEF Stays
  <2> QED
    BY <1>3, <1>4, <1>7, <2>1
<1>8. ASSUME NEW path, Consolidates(path) PROVE Volume!Next
  <2>1. PICK C, g : /\ Chart(edge', C, g) /\ path \in Resolved
                    /\ Volume!Consolidate(Seen(node, Resolved, Leads), Seen(node', C, g), path)
    BY <1>8 DEF Consolidates
  <2>2. View' = Seen(node', C, g)
    BY <2>1, ViewThen
  <2>3. Volume!Consolidate(View, View', path) /\ path \in DOMAIN View
    BY <1>2, <2>1, <2>2 DEF Seen
  <2> QED
    BY <1>5, <2>3
<1>9. CASE UNCHANGED <<node, edge, blob>>
  <2>1. View' = View
    <3>1. Chart(edge', Resolved, Leads)
      BY <1>1, <1>9
    <3>2. Seen(node', Resolved, Leads) = Seen(node, Resolved, Leads)
      BY <1>9
    <3> QED
      BY <1>2, <3>1, <3>2, ViewThen
  <2> QED
    BY <1>3, <1>4, <1>9, <2>1
<1>10. CASE Next
  <2>1. PICK m \in Mounts :
          \/ Edit(m)
          \/ \E path \in Paths : LockNode(m, path)
          \/ UnlockNode(m)
          \/ \E path \in Anchors : MountAt(m, path)
          \/ MountEnds(m)
    BY <1>10 DEF Next
  <2>2. CASE Edit(m)
    BY <1>6, <1>7, <1>8, <2>2, EditShows
  <2>3. CASE ~Edit(m)
    BY <1>9, <2>1, <2>3 DEF LockNode, UnlockNode, MountAt, MountEnds
  <2> QED
    BY <2>2, <2>3
<1> QED
  BY <1>9, <1>10 DEF vars

LEMMA InitShows ==
  ASSUME Init, IInv
  PROVE  Volume!Init
<1>1. node = <<[type |-> "container", name |-> RootName, data |-> 0]>> /\ edge = <<>> /\ blob = <<>>
  BY DEF Init
<1>2. Active(edge) = {} /\ Distinct(edge)
  BY <1>1 DEF Active, Distinct
<1> DEFINE C == {<<>>}
           g == [p \in C |-> Root]
<1>3. Chart(edge, C, g)
  <2>1. \A p \in Seq(Names), x \in Names : Append(p, x) \notin C
    BY AppendIs
  <2>2. C \subseteq Seq(Names) /\ <<>> \in C /\ g[<<>>] = Root
    OBVIOUS
  <2> HIDE DEF C, g
  <2> QED
    BY <1>2, <2>1, <2>2 DEF Chart
<1>4. View = Seen(node, C, g)
  <2> HIDE DEF C, g
  <2> QED
    BY <1>2, <1>3, ViewIs
<1>5. /\ DOMAIN View = {<<>>} /\ View[<<>>].type = "container" /\ View[<<>>].id \in Nat
  <2>1. node[Root].type = "container"
    BY <1>1 DEF Root
  <2>2. View = [p \in {<<>>} |-> [id |-> g[p], type |-> node[g[p]].type, data |-> node[g[p]].data]]
    BY <1>4 DEF Seen
  <2>3. g[<<>>] = Root /\ Root \in Nat
    BY DEF Root
  <2> HIDE DEF g
  <2> QED
    BY <2>1, <2>2, <2>3
<1>6. Packs = <<>>
  BY <1>1 DEF Packs
<1> QED
  BY <1>5, <1>6 DEF Volume!Init, View, Packs

(* Callers who mount the root and take no name twice.                         *)
Whole == \A h \in Habits : h.anchors \subseteq {<<>>} /\ ~h.sameNames

(* ImplementsPathTree, for callers who mount the root and take no name twice:  *)
(* whatever they create, rename, link, move, copy, remove, pack and unpack, a  *)
(* volume behaves as a map from paths to objects, in which an operation        *)
(* changes the paths it names and no others.                                  *)
THEOREM NamesAreATree ==
  ASSUME Whole
  PROVE  Spec => ImplementsPathTree
<1>1. Steady
  BY DEF Whole, Steady
<1>2. IInv /\ PInv => Plain
  BY DEF Whole, Plain, PInv, Neat, IInv, SameNames, Anchors
<1>3. Plain /\ IInv' /\ PInv' /\ [Next]_vars => [Volume!Next]_(Volume!vars)
  <2> SUFFICES ASSUME Plain, IInv', PInv', [Next]_vars PROVE [Volume!Next]_(Volume!vars)
    OBVIOUS
  <2>1. ~SameNames'
    BY DEF Whole, IInv, SameNames
  <2>2. Distinct(edge)'
    BY <2>1 DEF PInv, Neat
  <2> QED
    BY <2>2, StepShows
<1>4. IInv /\ IInv' /\ PInv /\ [Next]_vars => PInv'
  BY <1>1, PathKeeps
<1>5. Init /\ IInv => Volume!Init
  BY InitShows
<1> QED
  BY <1>2, <1>3, <1>4, <1>5, PathInit, NameInvariant, PTL DEF Spec, ImplementsPathTree, Volume!Spec
====
