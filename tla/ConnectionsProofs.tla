---- MODULE ConnectionsProofs ----
(***************************************************************************)
(* Proofs about connections: the stamp of a file is true of it, a          *)
(* connection has its triggers and views, and the ids it mints rise.       *)
(*                                                                         *)
(* Opening is a plan that shrinks.  What the proofs say of a plan is the   *)
(* set of what it still holds, and that it holds it in order: whoever has  *)
(* come to a phase has nothing left of an earlier one.  The invariants say *)
(* of each opener that whatever the file lacks is among what it has left.  *)
(***************************************************************************)
EXTENDS Connections, SequenceTheorems, FiniteSetTheorems, TLAPS

(* The order of what opening does. *)
Phase(op) ==
  IF op = "sniff" THEN 0 ELSE IF op \in {"look", "add"} THEN 1 ELSE IF op = "scale" THEN 2
  ELSE IF op = "unindex" THEN 3 ELSE IF op = "name" THEN 4 ELSE IF op = "list" THEN 5
  ELSE IF op = "drop" THEN 6 ELSE IF op = "table" THEN 7 ELSE IF op = "make" THEN 8 ELSE 9

Sorted(s) == \A i, j \in 1..Len(s) : i <= j => Phase(s[i][1]) <= Phase(s[j][1])

(* A table is looked at just before its column is added. *)
Paired(s) ==
  \A i \in 1..Len(s) : s[i][1] = "look" => i + 1 \in 1..Len(s) /\ s[i + 1] = <<"add", s[i][2]>>

Orderly(s) == s \in Seq(Steps) /\ Sorted(s) /\ Paired(s)

Holds(s) == {s[i] : i \in 1..Len(s)}
Left(p) == Holds(conn[p].plan)

(* Before the sniff an opener has no plan yet. *)
NewPlan == <<<<"sniff", None>>>>
Planned(p) == conn[p] # None /\ conn[p].plan # NewPlan

TypeInv ==
  /\ era \in Nat
  /\ table \in [Tables -> {"none", "old", "new"}]
  /\ unit \in [Stamps -> {"ms", "ns", "over"}]
  /\ unique \in BOOLEAN
  /\ named \in BOOLEAN
  /\ derived \in [Objects -> Nat \cup {None}]
  /\ wm \in Id
  /\ ids \in SUBSET Row
  /\ conn \in [Procs -> ConnectionState \cup {None}]
  /\ writer \in Procs \cup {None}
  /\ opens \in Nat

PlanInv ==
  \A p \in Procs : conn[p] # None =>
    /\ Orderly(conn[p].plan)
    /\ conn[p].plan # NewPlan => \A x \in Left(p) : x[1] # "sniff"

---------------------------------------------------------------------------
(* The stamp                                                               *)

(* What the migrations leave to be mended.                                 *)
Migrated == (\A s \in Stamps : unit[s] # "ms") /\ ~unique

(* A file has its tables, or it is new and nothing in it is old.           *)
Origin ==
  \/ \A t \in Tables : table[t] # "none"
  \/ era = 0 /\ (\A t \in Tables : table[t] # "old") /\ Migrated /\ named

(* What an era vouches for.                                                *)
Vouched(e) ==
  /\ e >= 2 => (\A t \in Tables : table[t] = "new") /\ Migrated
  /\ e = SchemaEra => era = SchemaEra /\ named

(* Only times below the bound are scaled twice.                            *)
OnlyEarly == \A s \in Stamps : unit[s] = "over" => s \in Early

(* Whatever the file lacks, the opener has it left to do.                  *)
Lacks(p) ==
  /\ \A t \in Tables : /\ table[t] = "none" => <<"table", t>> \in Left(p)
                       /\ table[t] = "old" => \/ <<"look", t>> \in Left(p)
                                              \/ <<"add", t>> \in Left(p)
  /\ \A s \in Stamps : unit[s] = "ms" => <<"scale", s>> \in Left(p)
  /\ ~unique \/ <<"unindex", None>> \in Left(p)
  /\ named \/ <<"name", None>> \in Left(p)

StampInv ==
  /\ Origin /\ Vouched(era) /\ OnlyEarly
  /\ \A p \in Procs : conn[p] # None => conn[p].from <= era /\ conn[p].from <= SchemaEra /\ Vouched(conn[p].from)
  /\ \A p \in Procs : Planned(p) => Lacks(p)

---------------------------------------------------------------------------
(* Triggers and views                                                      *)

Outdated(o) == derived[o] \notin {None, SchemaEra}

(* An outdated object is known to the opener, or will be, and is dropped.  *)
Drops(p) ==
  \A o \in Objects :
    /\ Outdated(o) => /\ <<"drop", o>> \in Left(p)
                      /\ <<"list", None>> \in Left(p) \/ o \in conn[p].listed
    /\ <<"drop", o>> \in Left(p) => conn[p].from # SchemaEra

(* With nobody beside it, what is absent or will be it makes.              *)
Makes(p) ==
  \A o \in Objects : derived[o] = None \/ <<"drop", o>> \in Left(p) => <<"make", o>> \in Left(p)

GuardInv ==
  /\ era = SchemaEra => \A o \in Objects : ~Outdated(o)
  /\ \A p \in Procs : Planned(p) => Drops(p)
  /\ \A p, q \in Procs : conn[p] # None /\ ~conn[p].beside /\ p # q => ~Upgrading(q)
  /\ \A p \in Procs : Planned(p) /\ ~conn[p].beside => Makes(p)

---------------------------------------------------------------------------
(* Ids                                                                     *)

NoneAbove(set, mark) == \A r \in set : ~Above(r.id, mark)

(* A connection's ids are under its mint, and so is what it was fenced by. *)
Minted(p) ==
  LET c == conn[p] IN
  /\ c.number \in 1..opens
  /\ c.mint = None => c.floor = {} /\ c.made = <<>> /\ \A r \in ids : r.by # c.number
  /\ c.mint # None => /\ NoneAbove(c.floor, c.mint)
                      /\ NoneAbove({r \in ids : r.by = c.number}, c.mint)
                      /\ \A i \in 1..Len(c.made) : ~Above(c.made[i], c.mint)
  /\ c.snap # None => NoneAbove(c.snap[2], c.snap[1])

(* What a connection made lies above the rest and rises.                   *)
Rises(p) ==
  \A i \in 1..Len(conn[p].made) :
    /\ \A r \in conn[p].floor : Above(conn[p].made[i], r.id)
    /\ \A r \in ids : r.by = conn[p].number => Above(conn[p].made[i], r.id)
    /\ \A j \in 1..(i - 1) : Above(conn[p].made[i], conn[p].made[j])

MintInv ==
  /\ NoneAbove(ids, wm)
  /\ \A r \in ids : r.by <= opens
  /\ \A p, q \in Procs : conn[p] # None /\ conn[q] # None /\ p # q => conn[p].number # conn[q].number
  /\ \A p \in Procs : writer = p => Serving(p) /\ conn[p].mint # None
  /\ \A p \in Procs : conn[p] # None => Minted(p) /\ Rises(p)

---------------------------------------------------------------------------
(* Plans                                                                   *)

(* SetToSeq lists every element of a finite set. *)
LEMMA SetToSeqLists ==
  ASSUME NEW S, IsFiniteSet(S)
  PROVE  SetToSeq(S) \in Seq(S) /\ Holds(SetToSeq(S)) = S
<1> DEFINE n == Cardinality(S)
<1>1. n \in Nat /\ ExistsBijection(1..n, S)
  BY FS_CardinalityType
<1>2. \E f \in [1..n -> S] : IsInjective(f)
  BY <1>1 DEF ExistsBijection, Bijection, Injection
<1>3. SetToSeq(S) \in [1..n -> S] /\ IsInjective(SetToSeq(S))
  BY <1>2 DEF SetToSeq
<1>4. IsFiniteSet(1..n) /\ Cardinality(1..n) = n
  BY <1>1, FS_Interval
<1>5. SetToSeq(S) \in Surjection(1..n, S)
  BY <1>3, <1>4, FS_Injection DEF Injection
<1>6. Len(SetToSeq(S)) = n
  BY <1>1, <1>3
<1>7. \A x \in S : \E i \in 1..n : SetToSeq(S)[i] = x
  BY <1>5 DEF Surjection
<1>8. \A i \in 1..n : SetToSeq(S)[i] \in S
  BY <1>3
<1> QED BY <1>1, <1>3, <1>6, <1>7, <1>8 DEF Holds

(* A plan's first step comes in no later phase than the rest, and the rest *)
(* is a plan again.                                                        *)
LEMMA TailOfPlan ==
  ASSUME NEW s, Orderly(s), s # <<>>
  PROVE  /\ Orderly(Tail(s))
         /\ Head(s) \in Steps
         /\ Holds(s) = {Head(s)} \cup Holds(Tail(s))
         /\ \A x \in Holds(s) : Phase(Head(s)[1]) <= Phase(x[1])
         /\ Head(s)[1] = "look" => /\ Tail(s) # <<>>
                                   /\ Head(Tail(s)) = <<"add", Head(s)[2]>>
<1>1. /\ s \in Seq(Steps) /\ Len(s) \in Nat \ {0} /\ Head(s) = s[1] /\ s[1] \in Steps
      /\ Tail(s) \in Seq(Steps) /\ Len(Tail(s)) = Len(s) - 1
      /\ \A i \in 1..Len(Tail(s)) : Tail(s)[i] = s[i + 1]
  BY HeadTailProperties, EmptySeq DEF Orderly
<1>2. Sorted(Tail(s))
  BY <1>1 DEF Orderly, Sorted
<1>3. Paired(Tail(s))
  <2>1. SUFFICES ASSUME NEW i \in 1..Len(Tail(s)), Tail(s)[i][1] = "look"
                 PROVE  i + 1 \in 1..Len(Tail(s)) /\ Tail(s)[i + 1] = <<"add", Tail(s)[i][2]>>
    BY DEF Paired
  <2>2. i + 1 \in 1..Len(s) /\ s[i + 1][1] = "look"
    BY <1>1, <2>1
  <2>3. i + 2 \in 1..Len(s) /\ s[i + 2] = <<"add", s[i + 1][2]>>
    BY <1>1, <2>2 DEF Orderly, Paired
  <2> QED BY <1>1, <2>2, <2>3
<1>4. Holds(s) = {Head(s)} \cup Holds(Tail(s))
  <2>1. \A i \in 1..Len(s) : i = 1 \/ (i - 1 \in 1..Len(Tail(s)) /\ s[i] = Tail(s)[i - 1])
    BY <1>1
  <2>2. \A i \in 1..Len(Tail(s)) : i + 1 \in 1..Len(s) /\ Tail(s)[i] = s[i + 1]
    BY <1>1
  <2>3. \A x \in Holds(s) : x = Head(s) \/ x \in Holds(Tail(s))
    BY <1>1, <2>1 DEF Holds
  <2>4. Head(s) \in Holds(s)
    BY <1>1 DEF Holds
  <2>5. \A x \in Holds(Tail(s)) : x \in Holds(s)
    BY <2>2 DEF Holds
  <2> QED BY <2>3, <2>4, <2>5
<1>5. \A x \in Holds(s) : Phase(Head(s)[1]) <= Phase(x[1])
  BY <1>1 DEF Orderly, Sorted, Holds
<1>6. Head(s)[1] = "look" => Tail(s) # <<>> /\ Head(Tail(s)) = <<"add", Head(s)[2]>>
  <2>1. SUFFICES ASSUME s[1][1] = "look"
                 PROVE  Tail(s) # <<>> /\ Tail(s)[1] = <<"add", s[1][2]>>
    BY <1>1
  <2>2. 2 \in 1..Len(s) /\ s[2] = <<"add", s[1][2]>>
    BY <1>1, <2>1 DEF Orderly, Paired
  <2>3. Len(Tail(s)) >= 1 /\ Tail(s)[1] = s[2]
    BY <1>1, <2>2
  <2> QED BY <2>2, <2>3
<1> QED BY <1>1, <1>2, <1>3, <1>4, <1>5, <1>6 DEF Orderly

(* Two plans make a plan if the second begins where the first has ended.   *)
LEMMA PlansJoined ==
  ASSUME NEW s, NEW t, Orderly(s), Orderly(t),
         \A x \in Holds(s), y \in Holds(t) : Phase(x[1]) <= Phase(y[1])
  PROVE  Orderly(s \o t) /\ Holds(s \o t) = Holds(s) \cup Holds(t)
<1>1. /\ s \in Seq(Steps) /\ t \in Seq(Steps) /\ s \o t \in Seq(Steps)
      /\ Len(s) \in Nat /\ Len(t) \in Nat /\ Len(s \o t) = Len(s) + Len(t)
  BY ConcatProperties DEF Orderly
<1>2. /\ \A i \in 1..Len(s) : i \in 1..Len(s \o t) /\ (s \o t)[i] = s[i]
      /\ \A i \in 1..Len(t) : Len(s) + i \in 1..Len(s \o t) /\ (s \o t)[Len(s) + i] = t[i]
  BY <1>1
<1>3. \A i \in 1..Len(s \o t) : \/ i \in 1..Len(s) /\ (s \o t)[i] = s[i]
                                \/ i - Len(s) \in 1..Len(t) /\ (s \o t)[i] = t[i - Len(s)]
  BY <1>1
<1>4. Sorted(s \o t)
  <2>1. SUFFICES ASSUME NEW i \in 1..Len(s \o t), NEW j \in 1..Len(s \o t), i <= j
                 PROVE  Phase((s \o t)[i][1]) <= Phase((s \o t)[j][1])
    BY DEF Sorted
  <2>2. CASE i \in 1..Len(s) /\ j \in 1..Len(s)
    BY <1>2, <2>1, <2>2 DEF Orderly, Sorted
  <2>3. CASE i \in 1..Len(s) /\ j \notin 1..Len(s)
    BY <1>2, <1>3, <2>3 DEF Holds
  <2>4. CASE i \notin 1..Len(s)
    <3>1. /\ i - Len(s) \in 1..Len(t) /\ (s \o t)[i] = t[i - Len(s)]
          /\ j - Len(s) \in 1..Len(t) /\ (s \o t)[j] = t[j - Len(s)]
          /\ i - Len(s) <= j - Len(s)
      BY <1>1, <1>3, <2>1, <2>4
    <3> QED BY <3>1 DEF Orderly, Sorted
  <2> QED BY <2>2, <2>3, <2>4
<1>5. Paired(s \o t)
  <2>1. SUFFICES ASSUME NEW i \in 1..Len(s \o t), (s \o t)[i][1] = "look"
                 PROVE  i + 1 \in 1..Len(s \o t) /\ (s \o t)[i + 1] = <<"add", (s \o t)[i][2]>>
    BY DEF Paired
  <2>2. CASE i \in 1..Len(s)
    BY <1>2, <2>1, <2>2 DEF Orderly, Paired
  <2>3. CASE i \notin 1..Len(s)
    <3>1. i - Len(s) \in 1..Len(t) /\ (s \o t)[i] = t[i - Len(s)]
      BY <1>3, <2>3
    <3>2. i - Len(s) + 1 \in 1..Len(t) /\ t[i - Len(s) + 1] = <<"add", (s \o t)[i][2]>>
      BY <2>1, <3>1 DEF Orderly, Paired
    <3>3. Len(s) + (i - Len(s) + 1) = i + 1
      BY <1>1
    <3> QED BY <1>2, <3>2, <3>3
  <2> QED BY <2>2, <2>3
<1>6. Holds(s \o t) = Holds(s) \cup Holds(t)
  <2>1. \A x \in Holds(s \o t) : x \in Holds(s) \/ x \in Holds(t)
    BY <1>3 DEF Holds
  <2>2. \A x \in Holds(s) : x \in Holds(s \o t)
    BY <1>2 DEF Holds
  <2>3. \A x \in Holds(t) : x \in Holds(s \o t)
    BY <1>2 DEF Holds
  <2> QED BY <2>1, <2>2, <2>3
<1> QED BY <1>1, <1>4, <1>5, <1>6 DEF Orderly

(* A plan of one step. *)
LEMMA StepIsPlan ==
  ASSUME NEW op \in {"sniff", "unindex", "name", "list", "stamp"}
  PROVE  Orderly(<<<<op, None>>>>) /\ Holds(<<<<op, None>>>>) = {<<op, None>>}
<1> DEFINE x == <<op, None>>
<1>1. x \in Steps /\ x[1] = op
  BY DEF Steps
<1> HIDE DEF x
<1>2. <<x>> \in Seq(Steps) /\ Len(<<x>>) = 1 /\ <<x>>[1] = x
  BY <1>1
<1>3. Orderly(<<x>>)
  BY <1>1, <1>2 DEF Orderly, Sorted, Paired, Phase
<1>4. Holds(<<x>>) = {x}
  BY <1>2 DEF Holds
<1> QED BY <1>3, <1>4 DEF x

(* One step for each of a finite set. *)
LEMMA EachIsPlan ==
  ASSUME NEW op \in {"scale", "drop", "table", "make"}, NEW S, IsFiniteSet(S), {op} \X S \subseteq Steps
  PROVE  Orderly(Each(op, S)) /\ Holds(Each(op, S)) = {<<op, x>> : x \in S}
<1> DEFINE T == {<<op, x>> : x \in S}
<1>1. T = {op} \X S
  OBVIOUS
<1>2. IsFiniteSet({op})
  BY FS_Singleton
<1>3. IsFiniteSet(T)
  BY <1>1, <1>2, FS_Product
<1>4. \A y \in T : y[1] = op
  OBVIOUS
<1>5. T \subseteq Steps
  BY <1>1
<1> HIDE DEF T
<1>6. SetToSeq(T) \in Seq(T) /\ Holds(SetToSeq(T)) = T
  BY <1>3, SetToSeqLists
<1>7. \A i \in 1..Len(SetToSeq(T)) : SetToSeq(T)[i][1] = op
  BY <1>4, <1>6
<1>8. SetToSeq(T) \in Seq(Steps)
  BY <1>5, <1>6, SeqMonotonic
<1>9. Sorted(SetToSeq(T))
  <2>1. Phase(op) \in Nat
    BY DEF Phase
  <2> QED BY <1>7, <2>1 DEF Sorted
<1>10. Orderly(SetToSeq(T))
  BY <1>7, <1>8, <1>9 DEF Orderly, Paired
<1>11. Each(op, S) = SetToSeq(T)
  BY DEF Each, T
<1> QED BY <1>6, <1>10, <1>11 DEF T

(* Looking at every table and adding its column. *)
LEMMA AddColumnsIsPlan ==
  Orderly(AddColumns) /\ Holds(AddColumns) = {"look", "add"} \X Tables
<1> DEFINE order == SetToSeq(Tables)
           n == Len(order)
           e(i) == IF i % 2 = 1 THEN <<"look", order[(i + 1) \div 2]>> ELSE <<"add", order[i \div 2]>>
<1>1. order \in Seq(Tables) /\ Holds(order) = Tables /\ n \in Nat
  BY SetToSeqLists, SchemaAssumption
<1>2. AddColumns = [i \in 1..(2 * n) |-> e(i)]
  BY DEF AddColumns
<1> HIDE DEF order
<1>3. \A i \in 1..(2 * n) : \/ /\ i % 2 = 1 /\ (i + 1) \div 2 \in 1..n /\ i + 1 \in 1..(2 * n)
                               /\ (i + 1) % 2 = 0
                            \/ i % 2 = 0 /\ i \div 2 \in 1..n
  BY <1>1
<1>4. \A i \in 1..(2 * n) : e(i) \in {"look", "add"} \X Tables
  BY <1>1, <1>3
<1>5. {"look", "add"} \X Tables \subseteq Steps
  BY DEF Steps
<1>6. AddColumns \in [1..(2 * n) -> Steps] /\ 2 * n \in Nat
  BY <1>1, <1>2, <1>4, <1>5
<1>7. AddColumns \in Seq(Steps) /\ Len(AddColumns) = 2 * n
  BY <1>6
<1>8. Sorted(AddColumns)
  <2>1. \A i \in 1..(2 * n) : Phase(AddColumns[i][1]) = 1
    BY <1>2, <1>4 DEF Phase
  <2> QED BY <1>7, <2>1 DEF Sorted
<1>9. Paired(AddColumns)
  <2>1. SUFFICES ASSUME NEW i \in 1..(2 * n), AddColumns[i][1] = "look"
                 PROVE  i + 1 \in 1..(2 * n) /\ AddColumns[i + 1] = <<"add", AddColumns[i][2]>>
    BY <1>7 DEF Paired
  <2>2. i % 2 = 1 /\ i + 1 \in 1..(2 * n) /\ (i + 1) % 2 = 0
    BY <1>2, <1>3, <2>1
  <2>3. AddColumns[i] = <<"look", order[(i + 1) \div 2]>> /\ AddColumns[i + 1] = <<"add", order[(i + 1) \div 2]>>
    BY <1>2, <2>2
  <2> QED BY <2>2, <2>3
<1>10. Holds(AddColumns) = {"look", "add"} \X Tables
  <2>1. \A x \in Holds(AddColumns) : x \in {"look", "add"} \X Tables
    BY <1>2, <1>4, <1>7 DEF Holds
  <2>2. ASSUME NEW op \in {"look", "add"}, NEW t \in Tables
        PROVE  <<op, t>> \in Holds(AddColumns)
    <3>1. PICK k \in 1..n : order[k] = t
      BY <1>1 DEF Holds
    <3>2. /\ 2 * k \in 1..(2 * n) /\ (2 * k) % 2 = 0 /\ (2 * k) \div 2 = k
          /\ 2 * k - 1 \in 1..(2 * n) /\ (2 * k - 1) % 2 = 1 /\ (2 * k - 1 + 1) \div 2 = k
      BY <1>1
    <3>3. AddColumns[2 * k] = <<"add", t>> /\ AddColumns[2 * k - 1] = <<"look", t>>
      BY <1>2, <3>1, <3>2
    <3> QED BY <1>7, <3>2, <3>3 DEF Holds
  <2> QED BY <2>1, <2>2
<1> QED BY <1>7, <1>8, <1>9, <1>10 DEF Orderly

(* Every step is of one of these kinds. *)
LEMMA StepKinds ==
  /\ {"look", "add"} \X Tables \subseteq Steps
  /\ {"scale"} \X Stamps \subseteq Steps /\ {"drop"} \X Objects \subseteq Steps
  /\ {"table"} \X Tables \subseteq Steps /\ {"make"} \X Objects \subseteq Steps
BY DEF Steps

(* What opening always does. *)
LEMMA ScriptIsPlan ==
  /\ Orderly(Script)
  /\ Holds(Script) = {<<"table", t>> : t \in Tables} \cup {<<"make", o>> : o \in Objects}
                     \cup {<<"stamp", None>>}
  /\ \A x \in Holds(Script) : x[1] \in {"table", "make", "stamp"}
<1>1. /\ Orderly(Each("table", Tables)) /\ Holds(Each("table", Tables)) = {<<"table", t>> : t \in Tables}
      /\ Orderly(Each("make", Objects)) /\ Holds(Each("make", Objects)) = {<<"make", o>> : o \in Objects}
  BY EachIsPlan, StepKinds, SchemaAssumption
<1>2. /\ Orderly(<<<<"stamp", None>>>>)
      /\ Holds(<<<<"stamp", None>>>>) = {<<"stamp", None>>}
  BY StepIsPlan
<1> DEFINE a == Each("table", Tables)
           b == Each("make", Objects)
           c == <<<<"stamp", None>>>>
<1>3. /\ \A x \in Holds(a) : x[1] = "table"
      /\ \A x \in Holds(b) : x[1] = "make"
      /\ \A x \in Holds(c) : x[1] = "stamp"
  BY <1>1, <1>2
<1>4. Script = a \o b \o c
  BY DEF Script
<1> HIDE DEF a, b, c
<1>5. \A x \in Holds(a), y \in Holds(b) : Phase(x[1]) <= Phase(y[1])
  BY <1>3 DEF Phase
<1>6. Orderly(a) /\ Orderly(b) /\ Orderly(c)
  BY <1>1, <1>2 DEF a, b, c
<1>7. Orderly(a \o b) /\ Holds(a \o b) = Holds(a) \cup Holds(b)
  BY <1>5, <1>6, PlansJoined
<1>8. \A x \in Holds(a \o b), y \in Holds(c) : Phase(x[1]) <= Phase(y[1])
  BY <1>3, <1>7 DEF Phase
<1>9. Orderly(Script) /\ Holds(Script) = Holds(a) \cup Holds(b) \cup Holds(c)
  BY <1>4, <1>6, <1>7, <1>8, PlansJoined
<1>10. \A x \in Holds(Script) : x[1] \in {"table", "make", "stamp"}
  BY <1>3, <1>9
<1> QED BY <1>1, <1>2, <1>9, <1>10 DEF a, b, c

(* What the migrations do. *)
LEMMA UpgradeIsPlan ==
  ASSUME NEW from \in Nat
  PROVE  /\ Orderly(Upgrade(from))
         /\ Holds(Upgrade(from)) = (IF from < 2 THEN ({"look", "add"} \X Tables) \cup {<<"scale", s>> : s \in Stamps} \cup {<<"unindex", None>>} ELSE {})
                                   \cup (IF from < 3 THEN {<<"name", None>>} ELSE {})
         /\ \A x \in Holds(Upgrade(from)) : x[1] \in {"look", "add", "scale", "unindex", "name"}
<1> DEFINE a == AddColumns
           b == Each("scale", Stamps)
           i == <<<<"unindex", None>>>>
           c == <<<<"name", None>>>>
           e == <<>>
<1>1. Orderly(a) /\ Holds(a) = {"look", "add"} \X Tables
  BY AddColumnsIsPlan
<1>2. Orderly(b) /\ Holds(b) = {<<"scale", s>> : s \in Stamps}
  BY EachIsPlan, StepKinds, SchemaAssumption
<1>3. /\ Orderly(i) /\ Holds(i) = {<<"unindex", None>>}
      /\ Orderly(c) /\ Holds(c) = {<<"name", None>>}
  BY StepIsPlan
<1>4. Orderly(e) /\ Holds(e) = {}
  BY DEF Orderly, Sorted, Paired, Holds
<1>5. /\ \A x \in Holds(a) : x[1] \in {"look", "add"}
      /\ \A x \in Holds(b) : x[1] = "scale"
      /\ \A x \in Holds(i) : x[1] = "unindex"
      /\ \A x \in Holds(c) : x[1] = "name"
  BY <1>1, <1>2, <1>3
<1>6. /\ Upgrade(from) = (IF from < 2 THEN a \o b \o i ELSE e) \o (IF from < 3 THEN c ELSE e)
  BY DEF Upgrade, ToEra2, ToEra3
<1> HIDE DEF a, b, i, c, e
<1>7. \A x \in Holds(a), y \in Holds(b) : Phase(x[1]) <= Phase(y[1])
  BY <1>5 DEF Phase
<1>8. Orderly(a \o b) /\ Holds(a \o b) = Holds(a) \cup Holds(b)
  BY <1>1, <1>2, <1>7, PlansJoined
<1>15. \A x \in Holds(a \o b), y \in Holds(i) : Phase(x[1]) <= Phase(y[1])
  BY <1>5, <1>8 DEF Phase
<1>16. Orderly(a \o b \o i) /\ Holds(a \o b \o i) = Holds(a) \cup Holds(b) \cup Holds(i)
  BY <1>3, <1>8, <1>15, PlansJoined
<1> DEFINE u == IF from < 2 THEN a \o b \o i ELSE e
           w == IF from < 3 THEN c ELSE e
<1>9. /\ Orderly(u) /\ Holds(u) = IF from < 2 THEN Holds(a) \cup Holds(b) \cup Holds(i) ELSE {}
      /\ Orderly(w) /\ Holds(w) = IF from < 3 THEN Holds(c) ELSE {}
  BY <1>3, <1>4, <1>16
<1> HIDE DEF u, w
<1>10. /\ \A x \in Holds(u) : x[1] \in {"look", "add", "scale", "unindex"}
       /\ \A x \in Holds(w) : x[1] = "name"
  BY <1>5, <1>9
<1>11. \A x \in Holds(u), y \in Holds(w) : Phase(x[1]) <= Phase(y[1])
  BY <1>10 DEF Phase
<1>12. Orderly(u \o w) /\ Holds(u \o w) = Holds(u) \cup Holds(w)
  BY <1>9, <1>11, PlansJoined
<1>13. Upgrade(from) = u \o w
  BY <1>6 DEF u, w
<1>14. \A x \in Holds(Upgrade(from)) : x[1] \in {"look", "add", "scale", "unindex", "name"}
  BY <1>10, <1>12, <1>13
<1> QED BY <1>1, <1>2, <1>3, <1>9, <1>12, <1>13, <1>14

(* What opening does to a file of an era, with tables or without.          *)
LEMMA PlanIsPlan ==
  ASSUME NEW from \in Nat, NEW fresh \in BOOLEAN
  PROVE  /\ Orderly(Plan(from, fresh))
         /\ \A x \in Holds(Plan(from, fresh)) : x[1] # "sniff"
         /\ Plan(from, fresh) # <<>>
         /\ \A t \in Tables : <<"table", t>> \in Holds(Plan(from, fresh))
         /\ \A o \in Objects : <<"make", o>> \in Holds(Plan(from, fresh))
         /\ from # SchemaEra => /\ <<"list", None>> \in Holds(Plan(from, fresh))
                                /\ \A o \in Objects : <<"drop", o>> \in Holds(Plan(from, fresh))
         /\ from = SchemaEra => \A x \in Holds(Plan(from, fresh)) : x[1] # "drop"
         /\ ~fresh /\ from < 2 => /\ \A t \in Tables : <<"look", t>> \in Holds(Plan(from, fresh))
                                  /\ \A s \in Stamps : <<"scale", s>> \in Holds(Plan(from, fresh))
                                  /\ <<"unindex", None>> \in Holds(Plan(from, fresh))
         /\ ~fresh /\ from < 3 => <<"name", None>> \in Holds(Plan(from, fresh))
<1> DEFINE e == <<>>
           u == IF fresh THEN e ELSE Upgrade(from)
           l == <<<<"list", None>>>>
           d == Each("drop", Objects)
<1>1. Orderly(e) /\ Holds(e) = {}
  BY DEF Orderly, Sorted, Paired, Holds
<1>2. Orderly(l) /\ Holds(l) = {<<"list", None>>}
  BY StepIsPlan
<1>3. Orderly(d) /\ Holds(d) = {<<"drop", o>> : o \in Objects}
  BY EachIsPlan, StepKinds, SchemaAssumption
<1>4. Plan(from, fresh) = IF from = SchemaEra THEN Script ELSE u \o l \o d \o Script
  BY DEF Plan
<1>5. (\A x \in Holds(l) : x[1] = "list") /\ (\A x \in Holds(d) : x[1] = "drop")
  BY <1>2, <1>3
<1> HIDE DEF e, l, d
<1>6. /\ Orderly(u) /\ Holds(u) = IF fresh THEN {} ELSE Holds(Upgrade(from))
      /\ \A x \in Holds(u) : x[1] \in {"look", "add", "scale", "unindex", "name"}
  BY <1>1, UpgradeIsPlan
<1> HIDE DEF u
<1>7. \A x \in Holds(u), y \in Holds(l) : Phase(x[1]) <= Phase(y[1])
  BY <1>5, <1>6 DEF Phase
<1>8. Orderly(u \o l) /\ Holds(u \o l) = Holds(u) \cup Holds(l)
  BY <1>2, <1>6, <1>7, PlansJoined
<1>9. \A x \in Holds(u \o l) : x[1] \in {"look", "add", "scale", "unindex", "name", "list"}
  BY <1>5, <1>6, <1>8
<1>10. \A x \in Holds(u \o l), y \in Holds(d) : Phase(x[1]) <= Phase(y[1])
  BY <1>5, <1>9 DEF Phase
<1>11. Orderly(u \o l \o d) /\ Holds(u \o l \o d) = Holds(u) \cup Holds(l) \cup Holds(d)
  BY <1>3, <1>8, <1>10, PlansJoined
<1>12. \A x \in Holds(u \o l \o d) : x[1] \in {"look", "add", "scale", "unindex", "name", "list", "drop"}
  BY <1>5, <1>6, <1>11
<1>13. \A x \in Holds(u \o l \o d), y \in Holds(Script) : Phase(x[1]) <= Phase(y[1])
  BY <1>12, ScriptIsPlan DEF Phase
<1>14. /\ Orderly(u \o l \o d \o Script)
       /\ Holds(u \o l \o d \o Script) = Holds(u) \cup Holds(l) \cup Holds(d) \cup Holds(Script)
  BY <1>11, <1>13, ScriptIsPlan, PlansJoined
<1> DEFINE p == Plan(from, fresh)
<1>15. /\ Orderly(p)
       /\ Holds(p) = IF from = SchemaEra THEN Holds(Script)
                     ELSE Holds(u) \cup Holds(l) \cup Holds(d) \cup Holds(Script)
  BY <1>4, <1>14, ScriptIsPlan
<1> HIDE DEF p
<1>16. <<"stamp", None>> \in Holds(p)
  BY <1>15, ScriptIsPlan
<1>17. p # <<>>
  BY <1>16 DEF Holds
<1>18. \A x \in Holds(p) : x[1] # "sniff"
  BY <1>5, <1>6, <1>15, ScriptIsPlan
<1>19. from = SchemaEra => \A x \in Holds(p) : x[1] # "drop"
  BY <1>15, ScriptIsPlan
<1>20. /\ ~fresh /\ from < 2 => /\ \A t \in Tables : <<"look", t>> \in Holds(u)
                                /\ \A s \in Stamps : <<"scale", s>> \in Holds(u)
                                /\ <<"unindex", None>> \in Holds(u)
       /\ ~fresh /\ from < 3 => <<"name", None>> \in Holds(u)
  BY <1>6, UpgradeIsPlan
<1>21. /\ \A t \in Tables : <<"table", t>> \in Holds(p)
       /\ \A o \in Objects : <<"make", o>> \in Holds(p)
  BY <1>15, ScriptIsPlan
<1>22. from # SchemaEra => /\ <<"list", None>> \in Holds(p)
                           /\ \A o \in Objects : <<"drop", o>> \in Holds(p)
  BY <1>2, <1>3, <1>15
<1>23. (~fresh /\ from < 3 => from # SchemaEra) /\ (~fresh /\ from < 2 => from # SchemaEra)
  BY DEF SchemaEra
<1>24. /\ ~fresh /\ from < 2 => /\ \A t \in Tables : <<"look", t>> \in Holds(p)
                                /\ \A s \in Stamps : <<"scale", s>> \in Holds(p)
                                /\ <<"unindex", None>> \in Holds(p)
       /\ ~fresh /\ from < 3 => <<"name", None>> \in Holds(p)
  BY <1>15, <1>20, <1>23
<1> QED BY <1>15, <1>17, <1>18, <1>19, <1>21, <1>22, <1>24 DEF p

---------------------------------------------------------------------------
(* Types and plans                                                         *)

(* A connection that keeps its number, its mint and its transaction.       *)
SameUse(q) ==
  /\ conn[q] # None /\ conn'[q] # None
  /\ conn'[q].number = conn[q].number /\ conn'[q].from = conn[q].from
  /\ conn'[q].mint = conn[q].mint /\ conn'[q].floor = conn[q].floor
  /\ conn'[q].snap = conn[q].snap /\ conn'[q].made = conn[q].made

SamePlan(q) == conn'[q].plan = conn[q].plan /\ conn'[q].listed = conn[q].listed

(* What a step of another connection may do to one.                        *)
Kept(q) ==
  \/ conn[q] = None /\ conn'[q] = None
  \/ SameUse(q) /\ SamePlan(q) /\ conn'[q].beside = conn[q].beside

Opens(p) == Sniff(p) \/ Look(p) \/ Add(p) \/ Scale(p) \/ Unindex(p) \/ NameEdges(p)
            \/ List(p) \/ Drop(p) \/ MakeTable(p) \/ Make(p) \/ Stamp(p)

(* Noting that a snapshot is not the last touches nothing else.            *)
LEMMA StaleFields ==
  ASSUME NEW c \in ConnectionState
  PROVE  LET d == [c EXCEPT !.stale = TRUE] IN
         /\ d \in ConnectionState
         /\ d.number = c.number /\ d.from = c.from /\ d.plan = c.plan /\ d.listed = c.listed
         /\ d.mint = c.mint /\ d.floor = c.floor /\ d.snap = c.snap /\ d.made = c.made
         /\ d.beside = c.beside
BY DEF ConnectionState

(* A commit of p leaves the others as they were, and p as the commit says. *)
LEMMA StaledFields ==
  ASSUME NEW c \in [Procs -> ConnectionState \cup {None}], NEW p \in Procs
  PROVE  /\ Staled(p, c) \in [Procs -> ConnectionState \cup {None}]
         /\ Staled(p, c)[p] = c[p]
         /\ \A q \in Procs : q # p =>
              \/ c[q] = None /\ Staled(p, c)[q] = None
              \/ /\ c[q] # None
                 /\ Staled(p, c)[q] # None
                 /\ Staled(p, c)[q].number = c[q].number /\ Staled(p, c)[q].from = c[q].from
                 /\ Staled(p, c)[q].plan = c[q].plan /\ Staled(p, c)[q].listed = c[q].listed
                 /\ Staled(p, c)[q].mint = c[q].mint /\ Staled(p, c)[q].floor = c[q].floor
                 /\ Staled(p, c)[q].snap = c[q].snap /\ Staled(p, c)[q].made = c[q].made
                 /\ Staled(p, c)[q].beside = c[q].beside
<1> DEFINE d == Staled(p, c)
<1>1. \A q \in Procs : d[q] = IF q # p /\ c[q] # None /\ c[q].snap # None
                              THEN [c[q] EXCEPT !.stale = TRUE] ELSE c[q]
  BY DEF Staled
<1>2. d = [q \in Procs |-> d[q]]
  BY DEF Staled
<1> HIDE DEF d
<1>3. d[p] = c[p]
  BY <1>1
<1>4. ASSUME NEW q \in Procs, q # p
      PROVE  /\ d[q] \in ConnectionState \cup {None}
             /\ \/ c[q] = None /\ d[q] = None
                \/ /\ c[q] # None /\ d[q] # None
                   /\ d[q].number = c[q].number /\ d[q].from = c[q].from
                   /\ d[q].plan = c[q].plan /\ d[q].listed = c[q].listed
                   /\ d[q].mint = c[q].mint /\ d[q].floor = c[q].floor
                   /\ d[q].snap = c[q].snap /\ d[q].made = c[q].made
                   /\ d[q].beside = c[q].beside
  <2>1. CASE c[q] = None
    BY <1>1, <2>1
  <2>2. CASE c[q] # None
    <3>1. c[q] \in ConnectionState
      BY <2>2
    <3>2. d[q] = c[q] \/ d[q] = [c[q] EXCEPT !.stale = TRUE]
      BY <1>1, <2>2
    <3>3. CASE d[q] = c[q]
      BY <2>2, <3>1, <3>3
    <3>4. CASE d[q] = [c[q] EXCEPT !.stale = TRUE]
      BY <2>2, <3>1, <3>4, StaleFields, NoneAssumption
    <3> QED BY <3>2, <3>3, <3>4
  <2> QED BY <2>1, <2>2
<1>5. \A q \in Procs : d[q] \in ConnectionState \cup {None}
  BY <1>3, <1>4
<1>6. d \in [Procs -> ConnectionState \cup {None}]
  BY <1>2, <1>5
<1> QED BY <1>3, <1>4, <1>6 DEF d

(* Going on with the rest of a plan.                                       *)
LEMMA PlanFields ==
  ASSUME NEW c \in ConnectionState, NEW s \in Seq(Steps)
  PROVE  LET d == [c EXCEPT !.plan = s] IN
         /\ d \in ConnectionState
         /\ d.plan = s /\ d.listed = c.listed
         /\ d.number = c.number /\ d.from = c.from
         /\ d.mint = c.mint /\ d.floor = c.floor /\ d.snap = c.snap /\ d.made = c.made
         /\ d.beside = c.beside
BY DEF ConnectionState

(* Listing the objects there are.                                          *)
LEMMA ListFields ==
  ASSUME NEW c \in ConnectionState, NEW l \in SUBSET Objects
  PROVE  LET d == [c EXCEPT !.listed = l] IN
         /\ d \in ConnectionState
         /\ d.plan = c.plan /\ d.listed = l
         /\ d.number = c.number /\ d.from = c.from
         /\ d.mint = c.mint /\ d.floor = c.floor /\ d.snap = c.snap /\ d.made = c.made
         /\ d.beside = c.beside
BY DEF ConnectionState

(* The opener whose plan becomes s, and what it has listed l.              *)
Onward(p, s, l) ==
  /\ SameUse(p) /\ conn'[p].plan = s /\ conn'[p].listed = l /\ conn'[p].beside = conn[p].beside

(* The rest of its plan for p, and nothing for anybody else.               *)
LEMMA NextFields ==
  ASSUME NEW c \in [Procs -> ConnectionState \cup {None}], NEW p \in Procs, c[p] # None,
         Tail(c[p].plan) \in Seq(Steps)
  PROVE  /\ Next1(p, c) \in [Procs -> ConnectionState \cup {None}]
         /\ \A q \in Procs : q # p => Next1(p, c)[q] = c[q]
         /\ Next1(p, c)[p] # None
         /\ Next1(p, c)[p].plan = Tail(c[p].plan) /\ Next1(p, c)[p].listed = c[p].listed
         /\ Next1(p, c)[p].number = c[p].number /\ Next1(p, c)[p].from = c[p].from
         /\ Next1(p, c)[p].mint = c[p].mint /\ Next1(p, c)[p].floor = c[p].floor
         /\ Next1(p, c)[p].snap = c[p].snap /\ Next1(p, c)[p].made = c[p].made
         /\ Next1(p, c)[p].beside = c[p].beside
<1> DEFINE d == [c[p] EXCEPT !.plan = Tail(c[p].plan)]
           n == Next1(p, c)
<1>1. c[p] \in ConnectionState
  OBVIOUS
<1>2. /\ d \in ConnectionState
      /\ d.plan = Tail(c[p].plan) /\ d.listed = c[p].listed
      /\ d.number = c[p].number /\ d.from = c[p].from
      /\ d.mint = c[p].mint /\ d.floor = c[p].floor /\ d.snap = c[p].snap /\ d.made = c[p].made
      /\ d.beside = c[p].beside
  BY <1>1, PlanFields, Zenon
<1>3. n = [c EXCEPT ![p] = d]
  BY DEF Next1
<1> HIDE DEF d, n
<1>4. /\ n \in [Procs -> ConnectionState \cup {None}] /\ n[p] = d
      /\ \A q \in Procs : q # p => n[q] = c[q]
  BY <1>2, <1>3
<1>5. d # None
  BY <1>2, NoneAssumption
<1>6. /\ n \in [Procs -> ConnectionState \cup {None}]
      /\ \A q \in Procs : q # p => n[q] = c[q]
      /\ n[p] # None
      /\ n[p].plan = Tail(c[p].plan) /\ n[p].listed = c[p].listed
      /\ n[p].number = c[p].number /\ n[p].from = c[p].from
      /\ n[p].mint = c[p].mint /\ n[p].floor = c[p].floor
      /\ n[p].snap = c[p].snap /\ n[p].made = c[p].made
      /\ n[p].beside = c[p].beside
  BY <1>2, <1>4, <1>5
<1> QED BY <1>6 DEF n

(* A statement takes the head off the opener's plan and nothing else.      *)
LEMMA StatementFields ==
  ASSUME TypeInv, PlanInv, NEW p \in Procs, Opening(p), Statement(p)
  PROVE  /\ conn' \in [Procs -> ConnectionState \cup {None}]
         /\ \A q \in Procs : q # p => Kept(q)
         /\ Onward(p, Tail(conn[p].plan), conn[p].listed)
<1> DEFINE c == Next1(p, conn)
<1>1. conn \in [Procs -> ConnectionState \cup {None}] /\ conn[p] # None
  BY DEF TypeInv, Opening
<1>2. Tail(conn[p].plan) \in Seq(Steps)
  BY <1>1, TailOfPlan DEF PlanInv, Opening, Orderly
<1>3. conn' = Staled(p, c)
  BY DEF Statement
<1>4. /\ c \in [Procs -> ConnectionState \cup {None}]
      /\ \A q \in Procs : q # p => c[q] = conn[q]
      /\ c[p] # None
      /\ c[p].plan = Tail(conn[p].plan) /\ c[p].listed = conn[p].listed
      /\ c[p].number = conn[p].number /\ c[p].from = conn[p].from
      /\ c[p].mint = conn[p].mint /\ c[p].floor = conn[p].floor
      /\ c[p].snap = conn[p].snap /\ c[p].made = conn[p].made
      /\ c[p].beside = conn[p].beside
  BY <1>1, <1>2, NextFields
<1> HIDE DEF c
<1>5. conn' \in [Procs -> ConnectionState \cup {None}] /\ conn'[p] = c[p]
  BY <1>3, <1>4, StaledFields
<1>6. ASSUME NEW q \in Procs, q # p
      PROVE  Kept(q)
  BY <1>3, <1>4, <1>6, StaledFields DEF Kept, SameUse, SamePlan
<1>7. Onward(p, Tail(conn[p].plan), conn[p].listed)
  BY <1>1, <1>4, <1>5 DEF Onward, SameUse
<1> QED BY <1>5, <1>6, <1>7

(* What the steps of opening do to the connections: the sniff makes the    *)
(* plan, an opener whose ALTER TABLE fails is gone, and every other step   *)
(* takes what it did off the plan.                                         *)
LEMMA OpensFields ==
  ASSUME TypeInv, PlanInv, NEW p \in Procs, Opens(p)
  PROVE  /\ Opening(p)
         /\ conn' \in [Procs -> ConnectionState \cup {None}]
         /\ \A q \in Procs : q # p => Kept(q)
         /\ Sniff(p) => Onward(p, Plan(conn[p].from, \A t \in Tables : table[t] = "none"), conn[p].listed)
         /\ Look(p) => LET s == Tail(conn[p].plan) IN
                       Onward(p, IF table[Operand(p)] = "new" THEN Tail(s) ELSE s, conn[p].listed)
         /\ Add(p) => IF table[Operand(p)] = "old" THEN Onward(p, Tail(conn[p].plan), conn[p].listed)
                      ELSE conn'[p] = None
         /\ List(p) => Onward(p, Tail(conn[p].plan), {o \in Objects : derived[o] # None})
         /\ Scale(p) \/ Unindex(p) \/ NameEdges(p) \/ Drop(p) \/ MakeTable(p) \/ Make(p) \/ Stamp(p)
              => Onward(p, Tail(conn[p].plan), conn[p].listed)
<1>1. Opening(p)
  BY DEF Opens, Sniff, Look, Add, Scale, Unindex, NameEdges, List, Drop, MakeTable, Make, Stamp, Doing
<1>2. conn \in [Procs -> ConnectionState \cup {None}] /\ conn[p] # None /\ conn[p] \in ConnectionState
  BY <1>1 DEF TypeInv, Opening
<1>3. Orderly(conn[p].plan) /\ conn[p].plan # <<>>
  BY <1>1 DEF PlanInv, Opening
<1>4. Tail(conn[p].plan) \in Seq(Steps)
  BY <1>3, TailOfPlan DEF Orderly
<1>5. /\ Next1(p, conn) \in [Procs -> ConnectionState \cup {None}]
      /\ \A q \in Procs : q # p => Next1(p, conn)[q] = conn[q]
      /\ Next1(p, conn)[p] # None
      /\ Next1(p, conn)[p].plan = Tail(conn[p].plan) /\ Next1(p, conn)[p].listed = conn[p].listed
      /\ Next1(p, conn)[p].number = conn[p].number /\ Next1(p, conn)[p].from = conn[p].from
      /\ Next1(p, conn)[p].mint = conn[p].mint /\ Next1(p, conn)[p].floor = conn[p].floor
      /\ Next1(p, conn)[p].snap = conn[p].snap /\ Next1(p, conn)[p].made = conn[p].made
      /\ Next1(p, conn)[p].beside = conn[p].beside
  BY <1>2, <1>4, NextFields
<1>6. ASSUME NEW q \in Procs, q # p, conn'[q] = conn[q]
      PROVE  Kept(q)
  <2>1. conn[q] = None \/ conn[q] # None
    OBVIOUS
  <2> QED BY <1>6, <2>1 DEF Kept, SameUse, SamePlan
<1>7. CASE Scale(p) \/ Unindex(p) \/ NameEdges(p) \/ Drop(p) \/ MakeTable(p) \/ Make(p) \/ Stamp(p)
  <2>1. /\ conn' \in [Procs -> ConnectionState \cup {None}]
        /\ \A q \in Procs : q # p => Kept(q)
        /\ Onward(p, Tail(conn[p].plan), conn[p].listed)
    BY <1>1, <1>7, StatementFields DEF Scale, Unindex, NameEdges, Drop, MakeTable, Make, Stamp
  <2>2. ~Sniff(p) /\ ~Look(p) /\ ~Add(p) /\ ~List(p)
    BY <1>7 DEF Scale, Unindex, NameEdges, Drop, MakeTable, Make, Stamp, Sniff, Look, Add, List, Doing
  <2> QED BY <1>1, <2>1, <2>2
<1>8. CASE Add(p)
  <2>1. ~Sniff(p) /\ ~Look(p) /\ ~List(p)
        /\ ~(Scale(p) \/ Unindex(p) \/ NameEdges(p) \/ Drop(p) \/ MakeTable(p) \/ Make(p) \/ Stamp(p))
    BY <1>8 DEF Scale, Unindex, NameEdges, Drop, MakeTable, Make, Stamp, Sniff, Look, Add, List, Doing
  <2>2. CASE table[Operand(p)] = "old"
    <3>1. Statement(p)
      BY <1>8, <2>2 DEF Add
    <3> QED BY <1>1, <2>1, <2>2, <3>1, StatementFields
  <2>3. CASE table[Operand(p)] # "old"
    <3>1. conn' = [conn EXCEPT ![p] = None]
      BY <1>8, <2>3 DEF Add
    <3>2. /\ conn' \in [Procs -> ConnectionState \cup {None}] /\ conn'[p] = None
          /\ \A q \in Procs : q # p => conn'[q] = conn[q]
      BY <1>2, <3>1
    <3> QED BY <1>1, <1>6, <2>1, <2>3, <3>2
  <2> QED BY <2>2, <2>3
<1>9. CASE List(p)
  <2>1. ~Sniff(p) /\ ~Look(p) /\ ~Add(p)
        /\ ~(Scale(p) \/ Unindex(p) \/ NameEdges(p) \/ Drop(p) \/ MakeTable(p) \/ Make(p) \/ Stamp(p))
    BY <1>9 DEF Scale, Unindex, NameEdges, Drop, MakeTable, Make, Stamp, Sniff, Look, Add, List, Doing
  <2> DEFINE n == Next1(p, conn)
             l == {o \in Objects : derived[o] # None}
             d == [n[p] EXCEPT !.listed = l]
  <2>2. conn' = [n EXCEPT ![p] = d]
    BY <1>9 DEF List
  <2> HIDE DEF n
  <2>3. l \in SUBSET Objects /\ n[p] \in ConnectionState
    BY <1>5 DEF n
  <2>4. /\ d \in ConnectionState
        /\ d.plan = n[p].plan /\ d.listed = l
        /\ d.number = n[p].number /\ d.from = n[p].from
        /\ d.mint = n[p].mint /\ d.floor = n[p].floor /\ d.snap = n[p].snap /\ d.made = n[p].made
        /\ d.beside = n[p].beside
    BY <2>3, ListFields, Zenon
  <2> HIDE DEF d, l
  <2>5. /\ conn' \in [Procs -> ConnectionState \cup {None}] /\ conn'[p] = d
        /\ \A q \in Procs : q # p => conn'[q] = conn[q]
    BY <1>5, <2>2, <2>4 DEF n
  <2>6. Onward(p, Tail(conn[p].plan), l)
    BY <1>2, <1>5, <2>4, <2>5, NoneAssumption DEF Onward, SameUse, n
  <2> QED BY <1>1, <1>6, <2>1, <2>5, <2>6 DEF l
<1>10. CASE Look(p)
  <2>1. ~Sniff(p) /\ ~List(p) /\ ~Add(p)
        /\ ~(Scale(p) \/ Unindex(p) \/ NameEdges(p) \/ Drop(p) \/ MakeTable(p) \/ Make(p) \/ Stamp(p))
    BY <1>10 DEF Scale, Unindex, NameEdges, Drop, MakeTable, Make, Stamp, Sniff, Look, Add, List, Doing
  <2> DEFINE n == Next1(p, conn)
  <2>2. CASE table[Operand(p)] = "new"
    <3>1. conn' = Next1(p, n)
      BY <1>10, <2>2 DEF Look
    <3>2. Head(conn[p].plan)[1] = "look"
      BY <1>10 DEF Look, Doing
    <3>3. Orderly(Tail(conn[p].plan)) /\ Tail(conn[p].plan) # <<>>
      BY <1>3, <3>2, TailOfPlan
    <3>4. Tail(Tail(conn[p].plan)) \in Seq(Steps)
      BY <3>3, TailOfPlan DEF Orderly
    <3> HIDE DEF n
    <3>5. Tail(n[p].plan) \in Seq(Steps)
      BY <1>5, <3>4 DEF n
    <3>6. /\ conn' \in [Procs -> ConnectionState \cup {None}]
          /\ \A q \in Procs : q # p => conn'[q] = n[q]
          /\ conn'[p] # None
          /\ conn'[p].plan = Tail(n[p].plan) /\ conn'[p].listed = n[p].listed
          /\ conn'[p].number = n[p].number /\ conn'[p].from = n[p].from
          /\ conn'[p].mint = n[p].mint /\ conn'[p].floor = n[p].floor
          /\ conn'[p].snap = n[p].snap /\ conn'[p].made = n[p].made
          /\ conn'[p].beside = n[p].beside
      BY <1>5, <3>1, <3>5, NextFields DEF n
    <3>7. Onward(p, Tail(Tail(conn[p].plan)), conn[p].listed)
      BY <1>2, <1>5, <3>6 DEF Onward, SameUse, n
    <3>8. \A q \in Procs : q # p => conn'[q] = conn[q]
      BY <1>5, <3>6 DEF n
    <3> QED BY <1>1, <1>6, <2>1, <2>2, <3>6, <3>7, <3>8
  <2>3. CASE table[Operand(p)] # "new"
    <3>1. conn' = n
      BY <1>10, <2>3 DEF Look
    <3> HIDE DEF n
    <3>2. Onward(p, Tail(conn[p].plan), conn[p].listed)
      BY <1>2, <1>5, <3>1 DEF Onward, SameUse, n
    <3>3. \A q \in Procs : q # p => conn'[q] = conn[q]
      BY <1>5, <3>1 DEF n
    <3>4. conn' \in [Procs -> ConnectionState \cup {None}]
      BY <1>5, <3>1 DEF n
    <3> QED BY <1>1, <1>6, <2>1, <2>3, <3>2, <3>3, <3>4
  <2> QED BY <2>2, <2>3
<1>11. CASE Sniff(p)
  <2>1. ~Look(p) /\ ~List(p) /\ ~Add(p)
        /\ ~(Scale(p) \/ Unindex(p) \/ NameEdges(p) \/ Drop(p) \/ MakeTable(p) \/ Make(p) \/ Stamp(p))
    BY <1>11 DEF Scale, Unindex, NameEdges, Drop, MakeTable, Make, Stamp, Sniff, Look, Add, List, Doing
  <2> DEFINE s == Plan(conn[p].from, \A t \in Tables : table[t] = "none")
             d == [conn[p] EXCEPT !.plan = s]
  <2>2. conn' = [conn EXCEPT ![p] = d]
    BY <1>11 DEF Sniff
  <2>3. conn[p].from \in Nat
    BY <1>2 DEF ConnectionState
  <2>4. s \in Seq(Steps)
    BY <2>3, PlanIsPlan DEF Orderly
  <2> HIDE DEF s
  <2>5. /\ d \in ConnectionState
        /\ d.plan = s /\ d.listed = conn[p].listed
        /\ d.number = conn[p].number /\ d.from = conn[p].from
        /\ d.mint = conn[p].mint /\ d.floor = conn[p].floor /\ d.snap = conn[p].snap /\ d.made = conn[p].made
        /\ d.beside = conn[p].beside
    BY <1>2, <2>4, PlanFields, Zenon
  <2> HIDE DEF d
  <2>6. /\ conn' \in [Procs -> ConnectionState \cup {None}] /\ conn'[p] = d
        /\ \A q \in Procs : q # p => conn'[q] = conn[q]
    BY <1>2, <2>2, <2>5
  <2>7. Onward(p, s, conn[p].listed)
    BY <1>2, <2>5, <2>6, NoneAssumption DEF Onward, SameUse
  <2> QED BY <1>1, <1>6, <2>1, <2>6, <2>7 DEF s
<1> QED BY <1>7, <1>8, <1>9, <1>10, <1>11 DEF Opens

(* A transaction leaves what the opening left.                             *)
SameOpening(p) ==
  /\ conn[p] # None /\ conn'[p] # None
  /\ conn'[p].number = conn[p].number /\ conn'[p].from = conn[p].from
  /\ conn'[p].plan = conn[p].plan /\ conn'[p].listed = conn[p].listed
  /\ conn'[p].beside = conn[p].beside

(* What a transaction changes of a connection, by name.                    *)
Working(p, m, f, n, d) ==
  /\ SameOpening(p)
  /\ conn'[p].mint = m /\ conn'[p].floor = f /\ conn'[p].snap = n /\ conn'[p].made = d

(* BEGIN reads the watermark and the rows.                                 *)
LEMMA BeginFields ==
  ASSUME TypeInv, NEW p \in Procs, Begin(p)
  PROVE  /\ conn' \in [Procs -> ConnectionState \cup {None}]
         /\ \A q \in Procs : q # p => Kept(q)
         /\ Working(p, conn[p].mint, conn[p].floor, <<wm, ids>>, conn[p].made)
<1> DEFINE c == conn[p]
           d == [c EXCEPT !.snap = <<wm, ids>>]
<1>1. conn \in [Procs -> ConnectionState \cup {None}] /\ c \in ConnectionState /\ conn[p] # None
  BY DEF TypeInv, Begin, Serving
<1>2. <<wm, ids>> \in Snapshot
  BY DEF TypeInv, Snapshot
<1>3. conn' = [conn EXCEPT ![p] = d]
  BY DEF Begin
<1>4. /\ d \in ConnectionState
      /\ d.number = c.number /\ d.from = c.from /\ d.plan = c.plan /\ d.listed = c.listed
      /\ d.mint = c.mint /\ d.floor = c.floor /\ d.snap = <<wm, ids>> /\ d.made = c.made
      /\ d.beside = c.beside
  BY <1>1, <1>2 DEF ConnectionState
<1> HIDE DEF d
<1>5. /\ conn' \in [Procs -> ConnectionState \cup {None}] /\ conn'[p] = d
      /\ \A q \in Procs : q # p => conn'[q] = conn[q]
  BY <1>1, <1>3, <1>4
<1>6. Working(p, conn[p].mint, conn[p].floor, <<wm, ids>>, conn[p].made)
  BY <1>1, <1>4, <1>5, NoneAssumption DEF Working, SameOpening
<1>7. \A q \in Procs : q # p => Kept(q)
  BY <1>5 DEF Kept, SameUse, SamePlan
<1> QED BY <1>5, <1>6, <1>7

(* The transaction ends: nothing made, nothing seen.                       *)
LEMMA EndedFields ==
  ASSUME TypeInv, NEW p \in Procs, conn[p] # None
  PROVE  LET e == Ended(p) IN
         /\ e \in [Procs -> ConnectionState \cup {None}]
         /\ \A q \in Procs : q # p => e[q] = conn[q]
         /\ e[p] # None
         /\ e[p].number = conn[p].number /\ e[p].from = conn[p].from
         /\ e[p].plan = conn[p].plan /\ e[p].listed = conn[p].listed
         /\ e[p].beside = conn[p].beside
         /\ e[p].mint = conn[p].mint /\ e[p].floor = conn[p].floor
         /\ e[p].snap = None /\ e[p].made = <<>>
<1> DEFINE c == conn[p]
           o == <<>>
           d == [c EXCEPT !.snap = None, !.stale = FALSE, !.made = o]
           e == Ended(p)
<1>1. conn \in [Procs -> ConnectionState \cup {None}] /\ c \in ConnectionState
  BY DEF TypeInv
<1>2. e = [conn EXCEPT ![p] = d]
  BY DEF Ended
<1>7. o \in Seq(Id)
  OBVIOUS
<1> HIDE DEF o
<1>3. /\ d \in ConnectionState
      /\ d.number = c.number /\ d.from = c.from /\ d.plan = c.plan /\ d.listed = c.listed
      /\ d.mint = c.mint /\ d.floor = c.floor /\ d.snap = None /\ d.made = o
      /\ d.beside = c.beside
  BY <1>1, <1>7 DEF ConnectionState
<1> HIDE DEF d, e
<1>4. /\ e \in [Procs -> ConnectionState \cup {None}] /\ e[p] = d
      /\ \A q \in Procs : q # p => e[q] = conn[q]
  BY <1>1, <1>2, <1>3
<1>5. e[p] # None
  BY <1>3, <1>4, NoneAssumption
<1>6. /\ e \in [Procs -> ConnectionState \cup {None}]
      /\ \A q \in Procs : q # p => e[q] = conn[q]
      /\ e[p] # None
      /\ e[p].number = conn[p].number /\ e[p].from = conn[p].from
      /\ e[p].plan = conn[p].plan /\ e[p].listed = conn[p].listed
      /\ e[p].beside = conn[p].beside
      /\ e[p].mint = conn[p].mint /\ e[p].floor = conn[p].floor
      /\ e[p].snap = None /\ e[p].made = o
  BY <1>3, <1>4, <1>5
<1> QED BY <1>6 DEF e, o

(* A commit or a rollback.                                                 *)
LEMMA FinishFields ==
  ASSUME TypeInv, NEW p \in Procs, Commit(p) \/ Rollback(p)
  PROVE  /\ conn' \in [Procs -> ConnectionState \cup {None}]
         /\ \A q \in Procs : q # p => Kept(q)
         /\ Working(p, conn[p].mint, conn[p].floor, None, <<>>)
<1>1. conn[p] # None
  BY DEF Commit, Rollback, InTxn, Serving
<1> DEFINE e == Ended(p)
<1>2. /\ e \in [Procs -> ConnectionState \cup {None}]
      /\ \A q \in Procs : q # p => e[q] = conn[q]
      /\ e[p] # None
      /\ e[p].number = conn[p].number /\ e[p].from = conn[p].from
      /\ e[p].plan = conn[p].plan /\ e[p].listed = conn[p].listed
      /\ e[p].beside = conn[p].beside
      /\ e[p].mint = conn[p].mint /\ e[p].floor = conn[p].floor
      /\ e[p].snap = None /\ e[p].made = <<>>
  BY <1>1, EndedFields
<1>3. conn' = Staled(p, e) \/ conn' = e
  BY DEF Commit, Rollback
<1> HIDE DEF e
<1>4. conn' \in [Procs -> ConnectionState \cup {None}] /\ conn'[p] = e[p]
  BY <1>2, <1>3, StaledFields
<1>5. ASSUME NEW q \in Procs, q # p
      PROVE  Kept(q)
  <2>1. CASE conn' = e
    BY <1>2, <1>5, <2>1 DEF Kept, SameUse, SamePlan
  <2>2. CASE conn' = Staled(p, e)
    BY <1>2, <1>5, <2>2, StaledFields DEF Kept, SameUse, SamePlan
  <2> QED BY <1>3, <2>1, <2>2
<1>6. Working(p, conn[p].mint, conn[p].floor, None, <<>>)
  BY <1>1, <1>2, <1>4 DEF Working, SameOpening
<1> QED BY <1>4, <1>5, <1>6

(* An id, and what the mint of a connection that has none yet starts from. *)
LEMMA MintTypes ==
  ASSUME TypeInv, NEW p \in Procs, InTxn(p), NEW now \in Nat
  PROVE  /\ MintFor(p) \in Id /\ NextId(MintFor(p), now) \in Id
         /\ Above(NextId(MintFor(p), now), MintFor(p))
         /\ FloorFor(p) \in SUBSET Row
         /\ conn[p].snap \in Snapshot
<1>1. conn[p] \in ConnectionState /\ conn[p].snap # None
  BY DEF TypeInv, InTxn, Serving
<1>2. conn[p].snap \in Snapshot /\ conn[p].mint \in Id \cup {None} /\ conn[p].floor \in SUBSET Row
  BY <1>1 DEF ConnectionState
<1>3. conn[p].snap[1] \in Id /\ conn[p].snap[2] \in SUBSET Row
  BY <1>2 DEF Snapshot
<1>4. MintFor(p) \in Id
  BY <1>2, <1>3 DEF MintFor, Fence, Higher, Bottom, Id
<1> DEFINE m == MintFor(p)
<1>5. m[1] \in Nat /\ m[2] \in Nat
  BY <1>4 DEF Id
<1> HIDE DEF m
<1>6. NextId(m, now) \in Id /\ Above(NextId(m, now), m)
  <2>1. CASE now > m[1]
    BY <1>5, <2>1 DEF NextId, Above, Id
  <2>2. CASE ~(now > m[1]) /\ m[2] + 1 < SeqLimit
    BY <1>5, <2>2 DEF NextId, Above, Id
  <2>3. CASE ~(now > m[1]) /\ ~(m[2] + 1 < SeqLimit)
    BY <1>5, <2>3 DEF NextId, Above, Id
  <2> QED BY <2>1, <2>2, <2>3
<1>7. FloorFor(p) \in SUBSET Row
  BY <1>2, <1>3 DEF FloorFor
<1> QED BY <1>2, <1>4, <1>6, <1>7 DEF m

(* Creating a row: the mint is advanced, and the row is made by the one    *)
(* transaction that writes, or the insert is refused.                      *)
LEMMA CreateFields ==
  ASSUME TypeInv, NEW p \in Procs, Create(p)
  PROVE  /\ conn' \in [Procs -> ConnectionState \cup {None}]
         /\ \A q \in Procs : q # p => Kept(q)
         /\ \E now \in Nat :
              LET id == NextId(MintFor(p), now) IN
              \/ /\ Working(p, id, FloorFor(p), conn[p].snap, Append(conn[p].made, id)) /\ writer' = p
              \/ /\ Working(p, id, FloorFor(p), None, conn[p].made) /\ UNCHANGED writer
<1>1. InTxn(p) /\ conn[p] # None /\ conn \in [Procs -> ConnectionState \cup {None}] /\ conn[p] \in ConnectionState
  BY SMTT(30) DEF TypeInv, Create, InTxn, Serving
<1>2. PICK now \in 1..MaxTime :
       LET id == NextId(MintFor(p), now) IN
       IF ~conn[p].stale /\ writer \in {None, p}
       THEN /\ conn' = [conn EXCEPT ![p] = [@ EXCEPT !.mint = id, !.floor = FloorFor(p),
                                             !.made = Append(conn[p].made, id)]]
            /\ writer' = p
       ELSE /\ conn' = [conn EXCEPT ![p] = [@ EXCEPT !.mint = id, !.floor = FloorFor(p),
                                             !.snap = None, !.stale = FALSE]]
            /\ UNCHANGED writer
  BY DEF Create
<1>3. now \in Nat
  OBVIOUS
<1> DEFINE id == NextId(MintFor(p), now)
           f == FloorFor(p)
           c == conn[p]
           made == Append(c.made, id)
           good == [c EXCEPT !.mint = id, !.floor = f, !.made = made]
           bad == [c EXCEPT !.mint = id, !.floor = f, !.snap = None, !.stale = FALSE]
<1>4. id \in Id /\ f \in SUBSET Row /\ c \in ConnectionState /\ c.made \in Seq(Id)
  BY <1>1, <1>3, MintTypes DEF ConnectionState
<1>5. made \in Seq(Id)
  BY <1>4, AppendProperties
<1>6. \/ conn' = [conn EXCEPT ![p] = good] /\ writer' = p
      \/ conn' = [conn EXCEPT ![p] = bad] /\ UNCHANGED writer
  <2>1. CASE ~conn[p].stale /\ writer \in {None, p}
    <3>1. /\ conn' = [conn EXCEPT ![p] = [@ EXCEPT !.mint = id, !.floor = f, !.made = Append(conn[p].made, id)]]
          /\ writer' = p
      BY <1>2, <2>1, Zenon
    <3> QED BY <3>1
  <2>2. CASE ~(~conn[p].stale /\ writer \in {None, p})
    <3>1. /\ conn' = [conn EXCEPT ![p] = [@ EXCEPT !.mint = id, !.floor = f, !.snap = None, !.stale = FALSE]]
          /\ UNCHANGED writer
      BY <1>2, <2>2, Zenon
    <3> QED BY <3>1
  <2> QED BY <2>1, <2>2
<1> HIDE DEF id, f
<1>7. /\ good \in ConnectionState /\ bad \in ConnectionState
      /\ good.number = c.number /\ good.from = c.from /\ good.plan = c.plan /\ good.listed = c.listed
      /\ good.mint = id /\ good.floor = f /\ good.snap = c.snap /\ good.made = made
      /\ good.beside = c.beside
      /\ bad.number = c.number /\ bad.from = c.from /\ bad.plan = c.plan /\ bad.listed = c.listed
      /\ bad.mint = id /\ bad.floor = f /\ bad.snap = None /\ bad.made = c.made
      /\ bad.beside = c.beside
  BY <1>4, <1>5 DEF ConnectionState
<1> HIDE DEF good, bad, made
<1>8. /\ conn' \in [Procs -> ConnectionState \cup {None}]
      /\ \/ conn'[p] = good /\ writer' = p
         \/ conn'[p] = bad /\ UNCHANGED writer
      /\ \A q \in Procs : q # p => conn'[q] = conn[q]
  BY <1>1, <1>6, <1>7
<1>9. good # None /\ bad # None
  BY <1>7, NoneAssumption
<1>10. \/ Working(p, id, f, conn[p].snap, made) /\ writer' = p
       \/ Working(p, id, f, None, conn[p].made) /\ UNCHANGED writer
  BY <1>1, <1>7, <1>8, <1>9 DEF Working, SameOpening
<1>11. \A q \in Procs : q # p => Kept(q)
  BY <1>8 DEF Kept, SameUse, SamePlan
<1> QED BY <1>3, <1>8, <1>10, <1>11 DEF id, f, made

(* A connection that is closed, or whose process dies.                     *)
LEMMA LeaveFields ==
  ASSUME TypeInv, NEW p \in Procs, Leave(p)
  PROVE  /\ conn' \in [Procs -> ConnectionState \cup {None}]
         /\ \A q \in Procs : q # p => Kept(q)
         /\ conn'[p] = None
<1>1. conn \in [Procs -> ConnectionState \cup {None}] /\ conn' = [conn EXCEPT ![p] = None]
  BY DEF TypeInv, Leave
<1> QED BY <1>1 DEF Kept, SameUse, SamePlan

(* A new connection has the next number and has only to sniff; the others  *)
(* learn that somebody may upgrade beside them.                            *)
LEMMA ConnectFields ==
  ASSUME TypeInv, NEW p \in Procs, Connect(p)
  PROVE  /\ conn[p] = None /\ era \in Nat /\ era <= SchemaEra
         /\ conn' \in [Procs -> ConnectionState \cup {None}]
         /\ conn'[p] # None
         /\ conn'[p].number = opens + 1 /\ conn'[p].from = era /\ conn'[p].plan = NewPlan
         /\ conn'[p].mint = None /\ conn'[p].floor = {} /\ conn'[p].snap = None /\ conn'[p].made = <<>>
         /\ ~conn'[p].beside => \A q \in Procs : ~Upgrading(q)
         /\ \A q \in Procs : q # p =>
              \/ conn[q] = None /\ conn'[q] = None
              \/ /\ SameUse(q) /\ SamePlan(q)
                 /\ IF era < SchemaEra THEN conn'[q].beside ELSE conn'[q].beside = conn[q].beside
<1> DEFINE b == \E r \in Procs : Upgrading(r)
           new == Connection(opens + 1, era, b)
<1>1. /\ conn[p] = None /\ era \in Nat /\ era <= SchemaEra /\ opens + 1 \in Nat
      /\ conn \in [Procs -> ConnectionState \cup {None}]
      /\ conn' = [q \in Procs |->
           IF q = p THEN new
           ELSE IF conn[q] # None /\ era < SchemaEra THEN [conn[q] EXCEPT !.beside = TRUE]
           ELSE conn[q]]
  BY DEF Connect, TypeInv
<1>2. b \in BOOLEAN
  OBVIOUS
<1>3. NewPlan \in Seq(Steps)
  BY StepIsPlan DEF Orderly, NewPlan
<1> HIDE DEF b
<1>4. /\ new = [number |-> opens + 1, from |-> era, plan |-> NewPlan, listed |-> {},
                mint |-> None, floor |-> {}, snap |-> None, stale |-> FALSE, made |-> <<>>,
                beside |-> b]
  BY DEF Connection, NewPlan
<1> HIDE DEF new
<1>5. <<>> \in Seq(Id)
  OBVIOUS
<1>6. new \in ConnectionState
  BY <1>1, <1>2, <1>3, <1>4, <1>5 DEF ConnectionState
<1>7. /\ new.number = opens + 1 /\ new.from = era /\ new.plan = NewPlan
      /\ new.mint = None /\ new.floor = {} /\ new.snap = None /\ new.made = <<>>
      /\ new.beside = b
  BY <1>4
<1>8. ASSUME NEW c \in ConnectionState
      PROVE  LET d == [c EXCEPT !.beside = TRUE] IN
             /\ d \in ConnectionState /\ d.beside
             /\ d.number = c.number /\ d.from = c.from /\ d.plan = c.plan /\ d.listed = c.listed
             /\ d.mint = c.mint /\ d.floor = c.floor /\ d.snap = c.snap /\ d.made = c.made
  BY DEF ConnectionState
<1>9. ASSUME NEW q \in Procs, q # p
      PROVE  /\ conn'[q] \in ConnectionState \cup {None}
             /\ \/ conn[q] = None /\ conn'[q] = None
                \/ /\ SameUse(q) /\ SamePlan(q)
                   /\ IF era < SchemaEra THEN conn'[q].beside ELSE conn'[q].beside = conn[q].beside
  <2>1. CASE conn[q] = None
    BY <1>1, <1>9, <2>1
  <2>2. CASE conn[q] # None /\ era < SchemaEra
    <3> DEFINE c == conn[q]
               d == [c EXCEPT !.beside = TRUE]
    <3>1. c \in ConnectionState
      BY <1>1, <2>2
    <3>2. /\ d \in ConnectionState /\ d.beside
          /\ d.number = c.number /\ d.from = c.from /\ d.plan = c.plan /\ d.listed = c.listed
          /\ d.mint = c.mint /\ d.floor = c.floor /\ d.snap = c.snap /\ d.made = c.made
      BY <1>8, <3>1, Zenon
    <3>3. conn'[q] = d
      BY <1>1, <1>9, <2>2
    <3> HIDE DEF d
    <3> QED BY <2>2, <3>2, <3>3, NoneAssumption DEF SameUse, SamePlan
  <2>3. CASE conn[q] # None /\ ~(era < SchemaEra)
    BY <1>1, <1>9, <2>3 DEF SameUse, SamePlan
  <2> QED BY <2>1, <2>2, <2>3
<1>10. conn'[p] = new
  BY <1>1
<1>11. conn' \in [Procs -> ConnectionState \cup {None}]
  <2>1. conn' = [q \in Procs |-> conn'[q]]
    BY <1>1
  <2>2. \A q \in Procs : conn'[q] \in ConnectionState \cup {None}
    BY <1>6, <1>9, <1>10
  <2> QED BY <2>1, <2>2
<1>12. new # None
  BY <1>6, NoneAssumption
<1> QED BY <1>1, <1>7, <1>9, <1>10, <1>11, <1>12 DEF b

---------------------------------------------------------------------------
(* Every step                                                              *)

(* What p does is opening the file, using it, or going.                    *)
LEMMA StepCases ==
  ASSUME [Next]_vars
  PROVE  \/ UNCHANGED vars
         \/ \E p \in Procs : \/ Connect(p) \/ Opens(p) \/ Begin(p) \/ Create(p) \/ Commit(p)
                             \/ Rollback(p) \/ Leave(p)
BY DEF Next, Open, Use, Opens

(* The file's own state stays in its types.                                *)
LEMMA FileTypes ==
  ASSUME TypeInv, NEW p \in Procs, Connect(p) \/ Opens(p)
  PROVE  /\ era' \in Nat
         /\ table' \in [Tables -> {"none", "old", "new"}]
         /\ unit' \in [Stamps -> {"ms", "ns", "over"}]
         /\ unique' \in BOOLEAN
         /\ named' \in BOOLEAN
         /\ derived' \in [Objects -> Nat \cup {None}]
         /\ wm' = wm /\ ids' = ids /\ writer' = writer /\ opens' \in Nat
<1>1. CASE Connect(p)
  BY <1>1 DEF Connect, TypeInv, schema
<1>2. CASE Sniff(p) \/ Look(p) \/ List(p)
  BY <1>2 DEF Sniff, Look, List, TypeInv, schema
<1>3. CASE Add(p)
  BY <1>3 DEF Add, TypeInv
<1>4. CASE Scale(p)
  BY <1>4 DEF Scale, Scaled, TypeInv
<1>5. CASE NameEdges(p) \/ Unindex(p)
  BY <1>5 DEF NameEdges, Unindex, TypeInv
<1>6. CASE Drop(p)
  BY <1>6 DEF Drop, TypeInv
<1>7. CASE MakeTable(p)
  BY <1>7 DEF MakeTable, TypeInv
<1>8. CASE Make(p)
  BY <1>8 DEF Make, TypeInv, SchemaEra
<1>9. CASE Stamp(p)
  BY <1>9 DEF Stamp, TypeInv, SchemaEra
<1> QED BY <1>1, <1>2, <1>3, <1>4, <1>5, <1>6, <1>7, <1>8, <1>9 DEF Opens

(* A row has the id of its connection's mint.                              *)
LEMMA CommitTypes ==
  ASSUME TypeInv, NEW p \in Procs, Commit(p), conn[p].mint # None
  PROVE  wm' \in Id /\ ids' \in SUBSET Row
<1>1. conn[p] \in ConnectionState
  BY DEF TypeInv, Commit, InTxn, Serving
<1>2. conn[p].mint \in Id /\ conn[p].made \in Seq(Id) /\ conn[p].number \in Nat
  BY <1>1 DEF ConnectionState
<1>3. wm' \in Id
  BY <1>2 DEF Commit, Flush, Higher, TypeInv
<1>4. \A i \in DOMAIN conn[p].made : [id |-> conn[p].made[i], by |-> conn[p].number] \in Row
  BY <1>2 DEF Row
<1>5. ids' \in SUBSET Row
  BY <1>4 DEF Commit, TypeInv
<1> QED BY <1>3, <1>5

(* A step of the plan does its head, or the head and the addition that was *)
(* to follow it, and leaves the rest, which comes in no earlier phase.     *)
LEMMA Progress ==
  ASSUME TypeInv, PlanInv, NEW p \in Procs, Opens(p), ~Sniff(p), conn'[p] # None
  PROVE  /\ Planned(p) /\ Planned(p)' /\ SameUse(p) /\ conn'[p].beside = conn[p].beside
         /\ ~List(p) => conn'[p].listed = conn[p].listed
         /\ Orderly(conn[p].plan)' /\ Orderly(conn[p].plan) /\ conn[p].plan # <<>>
         /\ Left(p)' \subseteq Left(p)
         /\ \A x \in Left(p) : \/ x = Head(conn[p].plan) \/ x \in Left(p)'
                               \/ Look(p) /\ table[Operand(p)] = "new" /\ x = <<"add", Operand(p)>>
         /\ \A x \in Left(p)' : Phase(Head(conn[p].plan)[1]) <= Phase(x[1]) /\ x[1] # "sniff"
         /\ Head(conn[p].plan) \in Left(p) /\ Head(conn[p].plan) \in Steps
<1> DEFINE s == conn[p].plan
           t == Tail(s)
           u == IF Look(p) /\ table[Operand(p)] = "new" THEN Tail(t) ELSE t
<1>1. Opening(p)
  BY OpensFields
<1>2. Orderly(s) /\ s # <<>>
  BY <1>1 DEF PlanInv, Opening
<1>3. /\ Orderly(t)
      /\ Head(s) \in Steps
      /\ Holds(s) = {Head(s)} \cup Holds(t)
      /\ \A x \in Holds(s) : Phase(Head(s)[1]) <= Phase(x[1])
      /\ Head(s)[1] = "look" => t # <<>> /\ Head(t) = <<"add", Head(s)[2]>>
  BY <1>2, TailOfPlan
<1>4. Head(s)[1] # "sniff"
  BY <1>1 DEF Opens, Sniff, Look, Add, Scale, Unindex, NameEdges, List, Drop, MakeTable, Make, Stamp, Doing
<1>5. s # NewPlan
  BY <1>4 DEF NewPlan
<1>6. \A x \in Holds(s) : x[1] # "sniff"
  BY <1>1, <1>5 DEF PlanInv, Opening, Left
<1>7. /\ Onward(p, u, conn'[p].listed) /\ (~List(p) => conn'[p].listed = conn[p].listed)
  <2>1. CASE Look(p)
    <3>1. ~List(p)
      BY <2>1 DEF Look, List, Doing
    <3>2. Onward(p, u, conn[p].listed)
      BY <2>1, OpensFields
    <3> QED BY <3>1, <3>2 DEF Onward
  <2>2. CASE Add(p)
    <3>1. ~Look(p) /\ ~List(p)
      BY <2>2 DEF Look, Add, List, Doing
    <3>2. Onward(p, t, conn[p].listed)
      BY <2>2, OpensFields
    <3> QED BY <3>1, <3>2 DEF Onward
  <2>3. CASE List(p)
    <3>1. ~Look(p)
      BY <2>3 DEF Look, List, Doing
    <3>2. Onward(p, t, {o \in Objects : derived[o] # None})
      BY <2>3, OpensFields
    <3> QED BY <2>3, <3>1, <3>2 DEF Onward
  <2>4. CASE Scale(p) \/ Unindex(p) \/ NameEdges(p) \/ Drop(p) \/ MakeTable(p) \/ Make(p) \/ Stamp(p)
    <3>1. ~Look(p) /\ ~List(p)
      BY <2>4 DEF Look, List, Scale, Unindex, NameEdges, Drop, MakeTable, Make, Stamp, Doing
    <3>2. Onward(p, t, conn[p].listed)
      BY <2>4, OpensFields
    <3> QED BY <3>1, <3>2 DEF Onward
  <2> QED BY <2>1, <2>2, <2>3, <2>4 DEF Opens
<1>8. /\ Orderly(u)
      /\ Holds(u) \subseteq Holds(s)
      /\ \A x \in Holds(s) : \/ x = Head(s) \/ x \in Holds(u)
                             \/ Look(p) /\ table[Operand(p)] = "new" /\ x = <<"add", Operand(p)>>
  <2>1. CASE Look(p) /\ table[Operand(p)] = "new"
    <3>1. Head(s)[1] = "look" /\ Operand(p) = Head(s)[2]
      BY <2>1 DEF Look, Doing, Operand
    <3>2. t # <<>> /\ Head(t) = <<"add", Operand(p)>>
      BY <1>3, <3>1
    <3>3. Orderly(Tail(t)) /\ Holds(t) = {Head(t)} \cup Holds(Tail(t))
      BY <1>3, <3>2, TailOfPlan
    <3> HIDE DEF t
    <3>4. u = Tail(t)
      BY <2>1
    <3> HIDE DEF u
    <3> QED BY <1>3, <2>1, <3>2, <3>3, <3>4
  <2>2. CASE ~(Look(p) /\ table[Operand(p)] = "new")
    <3>1. u = t
      BY <2>2
    <3> HIDE DEF u, t
    <3> QED BY <1>3, <3>1
  <2> QED BY <2>1, <2>2
<1>9. conn'[p].plan = u /\ SameUse(p) /\ conn'[p].beside = conn[p].beside
  BY <1>7 DEF Onward
<1> HIDE DEF u
<1>10. Left(p) = Holds(s) /\ Left(p)' = Holds(u) /\ Orderly(conn[p].plan)'
  BY <1>8, <1>9 DEF Left
<1>11. u # NewPlan
  <2>1. <<"sniff", None>> \in Holds(NewPlan)
    BY StepIsPlan DEF NewPlan
  <2>2. <<"sniff", None>>[1] = "sniff"
    OBVIOUS
  <2> QED BY <1>6, <1>8, <2>1, <2>2
<1>12. Planned(p) /\ Planned(p)'
  BY <1>1, <1>5, <1>9, <1>11 DEF Planned, Opening, NewPlan
<1>13. Head(s) \in Holds(s)
  BY <1>3
<1> HIDE DEF s, t
<1>14. \A x \in Holds(u) : Phase(Head(s)[1]) <= Phase(x[1]) /\ x[1] # "sniff"
  BY <1>3, <1>6, <1>8
<1> QED BY <1>2, <1>3, <1>7, <1>8, <1>9, <1>10, <1>12, <1>13, <1>14 DEF s

(* After the sniff the plan is the one for the era the opener found.       *)
LEMMA Sniffed ==
  ASSUME TypeInv, PlanInv, NEW p \in Procs, Sniff(p)
  PROVE  LET fresh == \A t \in Tables : table[t] = "none"
             plan == Plan(conn[p].from, fresh) IN
         /\ Planned(p)' /\ SameUse(p) /\ conn'[p].beside = conn[p].beside
         /\ fresh \in BOOLEAN /\ conn[p].from \in Nat
         /\ Orderly(plan) /\ conn'[p].plan = plan /\ Left(p)' = Holds(plan) /\ plan # <<>>
         /\ \A x \in Left(p)' : x[1] # "sniff"
         /\ UNCHANGED <<schema, wm, ids, writer, opens>>
<1> DEFINE fresh == \A t \in Tables : table[t] = "none"
           plan == Plan(conn[p].from, fresh)
<1>1. Opening(p) /\ Onward(p, plan, conn[p].listed)
  BY OpensFields DEF Opens
<1>2. fresh \in BOOLEAN /\ conn[p].from \in Nat
  BY <1>1 DEF TypeInv, Opening, ConnectionState
<1> HIDE DEF fresh
<1>3. Orderly(plan) /\ (\A x \in Holds(plan) : x[1] # "sniff") /\ plan # <<>>
  BY <1>2, PlanIsPlan
<1> HIDE DEF plan
<1>4. conn'[p].plan = plan /\ Left(p)' = Holds(plan) /\ SameUse(p) /\ conn'[p].beside = conn[p].beside
  BY <1>1 DEF Onward, Left
<1>5. <<"sniff", None>> \in Holds(NewPlan) /\ <<"sniff", None>>[1] = "sniff"
  BY StepIsPlan DEF NewPlan
<1>6. Planned(p)'
  BY <1>3, <1>4, <1>5 DEF Planned, SameUse, NewPlan
<1>7. UNCHANGED <<schema, wm, ids, writer, opens>>
  BY DEF Sniff
<1> QED BY <1>2, <1>3, <1>4, <1>6, <1>7 DEF fresh, plan

Works(p) == Begin(p) \/ Create(p) \/ Commit(p) \/ Rollback(p)
Acts(p) == Connect(p) \/ Opens(p) \/ Works(p) \/ Leave(p)

Steady(q) ==
  \/ conn[q] = None /\ conn'[q] = None
  \/ SameUse(q) /\ SamePlan(q) /\ (conn[q].beside => conn'[q].beside)

(* Whatever p does, the others keep their plans and their transactions,    *)
(* and nobody comes to have fewer beside it.                               *)
LEMMA OthersSteady ==
  ASSUME TypeInv, PlanInv, NEW p \in Procs, Acts(p)
  PROVE  /\ conn' \in [Procs -> ConnectionState \cup {None}]
         /\ \A q \in Procs : q # p => Steady(q)
<1>1. CASE Connect(p)
  <2>1. ASSUME NEW q \in Procs, q # p, era < SchemaEra \/ ~(era < SchemaEra)
        PROVE  Steady(q)
    BY <1>1, <2>1, ConnectFields DEF Steady
  <2> QED BY <1>1, <2>1, ConnectFields
<1>2. CASE Opens(p)
  BY <1>2, OpensFields DEF Kept, Steady
<1>3. CASE Begin(p)
  BY <1>3, BeginFields DEF Kept, Steady
<1>4. CASE Create(p)
  BY <1>4, CreateFields DEF Kept, Steady
<1>5. CASE Commit(p) \/ Rollback(p)
  BY <1>5, FinishFields DEF Kept, Steady
<1>6. CASE Leave(p)
  BY <1>6, LeaveFields DEF Kept, Steady
<1> QED BY <1>1, <1>2, <1>3, <1>4, <1>5, <1>6 DEF Acts, Works

(* A transaction leaves the file's schema and its opener's plan alone.     *)
LEMMA WorksFields ==
  ASSUME TypeInv, NEW p \in Procs, Works(p)
  PROVE  SameOpening(p) /\ UNCHANGED <<schema, opens>> /\ Serving(p)
<1>1. CASE Begin(p)
  BY <1>1, BeginFields DEF Working, Begin, schema
<1>2. CASE Create(p)
  BY <1>2, CreateFields DEF Working, Create, InTxn, schema
<1>3. CASE Commit(p) \/ Rollback(p)
  BY <1>3, FinishFields DEF Working, Commit, Rollback, InTxn, schema
<1> QED BY <1>1, <1>2, <1>3 DEF Works

(* Types are kept.                                                         *)
LEMMA TypeKept ==
  ASSUME TypeInv, PlanInv, NEW p \in Procs, Acts(p),
         writer = p => conn[p].mint # None
  PROVE  TypeInv'
<1>1. conn' \in [Procs -> ConnectionState \cup {None}]
  BY OthersSteady
<1>2. CASE Connect(p) \/ Opens(p)
  BY <1>1, <1>2, FileTypes DEF TypeInv
<1>3. CASE Begin(p) \/ Rollback(p) \/ Leave(p)
  BY SMTT(30), <1>1, <1>3 DEF Begin, Rollback, Leave, TypeInv, schema
<1>4. CASE Create(p)
  BY <1>1, <1>4, CreateFields DEF Create, TypeInv, schema
<1>5. CASE Commit(p)
  <2>1. wm' \in Id /\ ids' \in SUBSET Row
    BY <1>5, CommitTypes DEF Commit
  <2> QED BY <1>1, <1>5, <2>1 DEF Commit, TypeInv, schema
<1> QED BY <1>2, <1>3, <1>4, <1>5 DEF Acts, Works

(* Plans are plans, and an opener sniffs only at the start.                *)
LEMMA PlanKept ==
  ASSUME TypeInv, PlanInv, NEW p \in Procs, Acts(p)
  PROVE  PlanInv'
<1> DEFINE Good(q) == Orderly(conn[q].plan) /\ (conn[q].plan # NewPlan => \A x \in Left(q) : x[1] # "sniff")
<1>1. ASSUME NEW q \in Procs, q # p, conn'[q] # None
      PROVE  Good(q)'
  <2>1. conn[q] # None /\ conn'[q].plan = conn[q].plan
    BY <1>1, OthersSteady DEF Steady, SameUse, SamePlan
  <2> QED BY <2>1 DEF PlanInv, Left
<1>2. ASSUME conn'[p] # None
      PROVE  Good(p)'
  <2>1. CASE Connect(p)
    <3>1. conn'[p].plan = NewPlan /\ Orderly(NewPlan)
      BY <2>1, ConnectFields, StepIsPlan DEF NewPlan
    <3> QED BY <3>1
  <2>2. CASE Sniff(p)
    BY <2>2, Sniffed
  <2>3. CASE Opens(p) /\ ~Sniff(p)
    BY <1>2, <2>3, Progress
  <2>4. CASE Works(p)
    <3>1. conn[p] # None /\ conn'[p].plan = conn[p].plan
      BY <2>4, WorksFields DEF SameOpening
    <3> QED BY <3>1 DEF PlanInv, Left
  <2>5. CASE Leave(p)
    BY <1>2, <2>5, LeaveFields
  <2> QED BY <2>1, <2>2, <2>3, <2>4, <2>5 DEF Acts
<1> QED BY <1>1, <1>2 DEF PlanInv

---------------------------------------------------------------------------
(* The stamp                                                               *)

(* The head of the plan says which step it is.                             *)
LEMMA HeadDoes ==
  ASSUME NEW p \in Procs, Opens(p), NEW op, NEW y, Head(conn[p].plan) = <<op, y>>
  PROVE  /\ Operand(p) = y
         /\ op = "look" => Look(p)
         /\ op = "add" => Add(p)
         /\ op = "scale" => Scale(p)
         /\ op = "unindex" => Unindex(p)
         /\ op = "name" => NameEdges(p)
         /\ op = "list" => List(p)
         /\ op = "drop" => Drop(p)
         /\ op = "table" => MakeTable(p)
         /\ op = "make" => Make(p)
<1> DEFINE o == Head(conn[p].plan)[1]
<1>1. o = op /\ Operand(p) = y
  BY DEF Operand
<1>2. /\ Sniff(p) => o = "sniff"
      /\ Look(p) => o = "look"
      /\ Add(p) => o = "add"
      /\ Scale(p) => o = "scale"
      /\ Unindex(p) => o = "unindex"
      /\ NameEdges(p) => o = "name"
      /\ List(p) => o = "list"
      /\ Drop(p) => o = "drop"
      /\ MakeTable(p) => o = "table"
      /\ Make(p) => o = "make"
      /\ Stamp(p) => o = "stamp"
  BY DEF Sniff, Look, Add, Scale, Unindex, NameEdges, List, Drop, MakeTable, Make, Stamp, Doing
<1> HIDE DEF o
<1> QED BY <1>1, <1>2 DEF Opens

(* Tables, columns, times and names only get better, but for early times   *)
(* scaled twice, and the era only rises to the current one.                *)
LEMMA FileGrows ==
  ASSUME TypeInv, NEW p \in Procs, Acts(p)
  PROVE  /\ era' = era \/ (Stamp(p) /\ era' = SchemaEra)
         /\ \A t \in Tables : table'[t] = table[t] \/ table'[t] = "new"
         /\ \A s \in Stamps : \/ unit'[s] = unit[s] \/ unit'[s] = "ns"
                              \/ unit'[s] = "over" /\ s \in Early
         /\ unique' => unique
         /\ named => named'
<1>1. CASE Connect(p) \/ Works(p) \/ Leave(p) \/ Sniff(p) \/ Look(p) \/ List(p)
  <2>1. UNCHANGED schema
    <3>1. CASE Works(p)
      BY <3>1, WorksFields
    <3> QED BY <1>1, <3>1 DEF Connect, Leave, Sniff, Look, List
  <2> QED BY <2>1 DEF schema
<1>3. CASE Add(p)
  BY <1>3 DEF Add, TypeInv
<1>4. CASE Scale(p)
  BY <1>4 DEF Scale, Scaled, TypeInv
<1>5. CASE NameEdges(p) \/ Unindex(p)
  BY <1>5 DEF NameEdges, Unindex
<1>6. CASE Drop(p)
  BY <1>6 DEF Drop
<1>7. CASE MakeTable(p)
  BY <1>7 DEF MakeTable, TypeInv
<1>8. CASE Make(p)
  BY <1>8 DEF Make
<1>9. CASE Stamp(p)
  BY <1>9 DEF Stamp
<1> QED BY <1>1, <1>3, <1>4, <1>5, <1>6, <1>7, <1>8, <1>9 DEF Acts, Opens

(* What one opener lacks, another's step does not add to.                  *)
LEMMA LacksStill ==
  ASSUME TypeInv, NEW p \in Procs, Acts(p), NEW q \in Procs, Lacks(q), Left(q)' = Left(q)
  PROVE  Lacks(q)'
BY FileGrows DEF Lacks

(* A new plan has all the file may lack.                                   *)
LEMMA LacksPlanned ==
  ASSUME TypeInv, PlanInv, StampInv, NEW p \in Procs, Sniff(p)
  PROVE  Lacks(p)'
<1> DEFINE fresh == \A t \in Tables : table[t] = "none"
           from == conn[p].from
           plan == Plan(from, fresh)
<1>1. /\ SameUse(p) /\ fresh \in BOOLEAN /\ from \in Nat /\ Left(p)' = Holds(plan)
      /\ UNCHANGED <<schema, wm, ids, writer, opens>>
  BY Sniffed
<1>2. conn[p] # None
  BY <1>1 DEF SameUse
<1>3. UNCHANGED <<era, table, unit, unique, named>>
  BY <1>1 DEF schema
<1>4. /\ from <= era /\ Vouched(from) /\ Origin
  BY <1>2 DEF StampInv
<1>5. /\ table \in [Tables -> {"none", "old", "new"}] /\ unit \in [Stamps -> {"ms", "ns", "over"}]
      /\ named \in BOOLEAN /\ era \in Nat /\ Tables # {}
  BY SchemaAssumption DEF TypeInv
<1>6. fresh => Migrated /\ named
  BY <1>4, <1>5 DEF Origin
<1>7. /\ \A t \in Tables : <<"table", t>> \in Holds(plan)
      /\ ~fresh /\ from < 2 => /\ \A t \in Tables : <<"look", t>> \in Holds(plan)
                               /\ \A s \in Stamps : <<"scale", s>> \in Holds(plan)
                               /\ <<"unindex", None>> \in Holds(plan)
      /\ ~fresh /\ from < 3 => <<"name", None>> \in Holds(plan)
  BY <1>1, PlanIsPlan
<1> HIDE DEF plan
<1>8. CASE fresh
  <2>1. (\A t \in Tables : table[t] = "none") /\ (\A s \in Stamps : unit[s] # "ms") /\ ~unique /\ named
    BY <1>6, <1>8 DEF Migrated
  <2> QED BY <1>1, <1>3, <1>7, <2>1 DEF Lacks
<1>9. CASE ~fresh
  <2>1. \A t \in Tables : table[t] = "old" => <<"look", t>> \in Holds(plan)
    BY <1>1, <1>4, <1>7, <1>9 DEF Vouched
  <2>2. \A s \in Stamps : unit[s] = "ms" => <<"scale", s>> \in Holds(plan)
    BY <1>1, <1>4, <1>7, <1>9 DEF Vouched, Migrated
  <2>4. ~unique \/ <<"unindex", None>> \in Holds(plan)
    BY <1>1, <1>4, <1>7, <1>9 DEF Vouched, Migrated
  <2>3. named \/ <<"name", None>> \in Holds(plan)
    <3>1. from <= SchemaEra
      BY <1>2 DEF StampInv
    <3>2. from < 3 \/ from = SchemaEra
      BY <1>1, <3>1 DEF SchemaEra
    <3> QED BY <1>4, <1>7, <1>9, <3>2 DEF Vouched
  <2> QED BY <1>1, <1>3, <1>7, <2>1, <2>2, <2>3, <2>4 DEF Lacks
<1> QED BY <1>1, <1>8, <1>9

(* A step of the plan that is done, the file does not lack any more.       *)
LEMMA LacksLess ==
  ASSUME TypeInv, PlanInv, NEW p \in Procs, Opens(p), ~Sniff(p), conn'[p] # None, Lacks(p)
  PROVE  Lacks(p)'
<1> DEFINE h == Head(conn[p].plan)
<1>1. /\ Orderly(conn[p].plan) /\ conn[p].plan # <<>> /\ h \in Steps
      /\ \A x \in Left(p) : \/ x = h \/ x \in Left(p)'
                            \/ Look(p) /\ table[Operand(p)] = "new" /\ x = <<"add", Operand(p)>>
  BY Progress
<1>2. /\ \A t \in Tables : table'[t] = table[t] \/ table'[t] = "new"
      /\ \A s \in Stamps : \/ unit'[s] = unit[s] \/ unit'[s] = "ns"
                           \/ unit'[s] = "over" /\ s \in Early
      /\ unique' => unique
      /\ named => named'
  BY FileGrows DEF Acts
<1>3. table \in [Tables -> {"none", "old", "new"}] /\ unit \in [Stamps -> {"ms", "ns", "over"}]
  BY DEF TypeInv
<1>4. ASSUME NEW t \in Tables, table'[t] = "none"
      PROVE  <<"table", t>> \in Left(p)'
  <2>1. table[t] = "none" /\ <<"table", t>> \in Left(p)
    BY <1>2, <1>4 DEF Lacks
  <2>2. CASE h = <<"table", t>>
    <3>1. MakeTable(p) /\ Operand(p) = t
      BY <2>2, HeadDoes
    <3>2. table'[t] = "new"
      BY <1>3, <2>1, <3>1 DEF MakeTable
    <3> QED BY <1>4, <3>2
  <2> QED BY <1>1, <2>1, <2>2
<1>5. ASSUME NEW t \in Tables, table'[t] = "old"
      PROVE  <<"look", t>> \in Left(p)' \/ <<"add", t>> \in Left(p)'
  <2>1. table[t] = "old" /\ (<<"look", t>> \in Left(p) \/ <<"add", t>> \in Left(p))
    BY <1>2, <1>5 DEF Lacks
  <2>2. CASE h = <<"look", t>>
    <3>1. Look(p) /\ Operand(p) = t
      BY <2>2, HeadDoes
    <3>2. conn'[p].plan = Tail(conn[p].plan)
      BY <2>1, <3>1, OpensFields DEF Onward
    <3>3. Tail(conn[p].plan) # <<>> /\ Head(Tail(conn[p].plan)) = <<"add", t>> /\ Orderly(Tail(conn[p].plan))
      BY <1>1, <2>2, TailOfPlan
    <3>4. <<"add", t>> \in Holds(Tail(conn[p].plan))
      BY <3>3, TailOfPlan
    <3> QED BY <3>2, <3>4 DEF Left
  <2>3. CASE h = <<"add", t>>
    <3>1. Add(p) /\ Operand(p) = t
      BY <2>3, HeadDoes
    <3>2. table'[t] = "new"
      BY <1>3, <2>1, <3>1 DEF Add
    <3> QED BY <1>5, <3>2
  <2>4. CASE h # <<"look", t>> /\ h # <<"add", t>>
    <3>1. ASSUME NEW x \in {<<"look", t>>, <<"add", t>>}, x \in Left(p)
          PROVE  x \in Left(p)'
      <4>1. ~(table[Operand(p)] = "new" /\ x = <<"add", Operand(p)>>)
        BY <2>1, <3>1
      <4> QED BY <1>1, <2>4, <3>1, <4>1
    <3> QED BY <2>1, <3>1
  <2> QED BY <2>2, <2>3, <2>4
<1>6. ASSUME NEW s \in Stamps, unit'[s] = "ms"
      PROVE  <<"scale", s>> \in Left(p)'
  <2>1. unit[s] = "ms" /\ <<"scale", s>> \in Left(p)
    BY <1>2, <1>6 DEF Lacks
  <2>2. CASE h = <<"scale", s>>
    <3>1. Scale(p) /\ Operand(p) = s
      BY <2>2, HeadDoes
    <3>2. unit'[s] = "ns"
      BY <1>3, <2>1, <3>1 DEF Scale, Scaled
    <3> QED BY <1>6, <3>2
  <2> QED BY <1>1, <2>1, <2>2
<1>7. named' \/ <<"name", None>> \in Left(p)'
  <2>1. SUFFICES ASSUME ~named, <<"name", None>> \in Left(p)
                 PROVE  named' \/ <<"name", None>> \in Left(p)'
    BY <1>2 DEF Lacks
  <2>2. CASE h = <<"name", None>>
    BY <2>2, HeadDoes DEF NameEdges
  <2> QED BY <1>1, <2>1, <2>2
<1>8. ~unique' \/ <<"unindex", None>> \in Left(p)'
  <2>1. SUFFICES ASSUME unique, <<"unindex", None>> \in Left(p)
                 PROVE  ~unique' \/ <<"unindex", None>> \in Left(p)'
    BY <1>2 DEF Lacks
  <2>2. CASE h = <<"unindex", None>>
    BY <2>2, HeadDoes DEF Unindex
  <2> QED BY <1>1, <2>1, <2>2
<1> HIDE DEF h
<1> QED BY <1>4, <1>5, <1>6, <1>7, <1>8 DEF Lacks

(* When only the stamp is left the file lacks nothing.                     *)
LEMMA StampIsDue ==
  ASSUME TypeInv, PlanInv, NEW p \in Procs, Stamp(p), Lacks(p)
  PROVE  (\A t \in Tables : table[t] = "new") /\ Migrated /\ named
<1>1. Orderly(conn[p].plan) /\ conn[p].plan # <<>> /\ Head(conn[p].plan)[1] = "stamp"
  BY DEF PlanInv, Stamp, Doing, Opening
<1>2. \A x \in Left(p) : 9 <= Phase(x[1])
  BY <1>1, TailOfPlan DEF Left, Phase
<1>3. \A x \in Left(p) : x[1] \notin {"look", "add", "scale", "unindex", "name", "table"}
  BY <1>2 DEF Phase
<1>4. ASSUME NEW y, NEW op \in {"look", "add", "scale", "unindex", "name", "table"}
      PROVE  <<op, y>> \notin Left(p)
  BY <1>3
<1> QED BY <1>4 DEF Lacks, TypeInv, Migrated

(* The file stays true to its stamp, and no opener stamps it too early.    *)
LEMMA StampKept ==
  ASSUME TypeInv, PlanInv, StampInv, NEW p \in Procs, Acts(p)
  PROVE  StampInv'
<1>1. /\ era' = era \/ (Stamp(p) /\ era' = SchemaEra)
      /\ \A t \in Tables : table'[t] = table[t] \/ table'[t] = "new"
      /\ \A s \in Stamps : \/ unit'[s] = unit[s] \/ unit'[s] = "ns"
                           \/ unit'[s] = "over" /\ s \in Early
      /\ unique' => unique
      /\ named => named'
  BY FileGrows
<1>2. /\ table \in [Tables -> {"none", "old", "new"}] /\ unit \in [Stamps -> {"ms", "ns", "over"}]
      /\ era \in Nat
  BY DEF TypeInv
<1>3. ASSUME Stamp(p)
      PROVE  (\A t \in Tables : table[t] = "new") /\ Migrated /\ named
  <2>1. Planned(p)
    BY <1>3 DEF Stamp, Doing, Opening, Planned, NewPlan
  <2> QED BY <1>3, <2>1, StampIsDue DEF StampInv
<1>9. Migrated => Migrated'
  BY <1>1 DEF Migrated
<1>10. OnlyEarly'
  BY <1>1 DEF OnlyEarly, StampInv
<1>4. Origin'
  BY <1>1, <1>2, <1>3, <1>9 DEF Origin, StampInv, SchemaEra
<1>5. ASSUME NEW e \in Nat, e <= SchemaEra, Vouched(e)
      PROVE  Vouched(e)'
  BY <1>1, <1>5, <1>9 DEF Vouched
<1>6. Vouched(era)'
  <2>1. CASE era' = era
    BY <1>1, <1>9, <2>1 DEF Vouched, StampInv
  <2>2. CASE Stamp(p) /\ era' = SchemaEra
    BY <1>1, <1>3, <1>9, <2>2 DEF Vouched
  <2> QED BY <1>1, <2>1, <2>2
<1>7. ASSUME NEW q \in Procs, conn'[q] # None
      PROVE  (conn[q].from <= era /\ conn[q].from <= SchemaEra /\ Vouched(conn[q].from))'
  <2>1. CASE q = p /\ Connect(p)
    <3>1. conn'[p].from = era /\ era <= SchemaEra /\ era' = era
      BY <2>1, ConnectFields DEF Connect, schema
    <3> QED BY <1>2, <1>6, <2>1, <3>1 DEF Vouched
  <2>2. CASE ~(q = p /\ Connect(p))
    <3>1. conn[q] # None /\ conn'[q].from = conn[q].from
      <4>1. CASE q # p
        BY <1>7, <4>1, OthersSteady DEF Steady, SameUse
      <4>2. CASE q = p /\ Opens(p)
        BY <1>7, <4>2, Progress, Sniffed DEF SameUse
      <4>3. CASE q = p /\ Works(p)
        BY <4>3, WorksFields DEF SameOpening
      <4>4. CASE q = p /\ Leave(p)
        BY <1>7, <4>4, LeaveFields
      <4> QED BY <2>2, <4>1, <4>2, <4>3, <4>4 DEF Acts
    <3>2. conn[q].from \in Nat /\ conn[q].from <= era /\ conn[q].from <= SchemaEra /\ Vouched(conn[q].from)
      BY <3>1 DEF StampInv, TypeInv, ConnectionState
    <3>3. PICK e \in Nat : e = conn[q].from
      BY <3>2
    <3>4. e <= era' /\ Vouched(e) /\ e <= SchemaEra
      BY <1>1, <1>2, <3>2, <3>3
    <3>5. Vouched(e)'
      BY <1>5, <3>4
    <3> QED BY <3>1, <3>3, <3>4, <3>5 DEF Vouched
  <2> QED BY <2>1, <2>2
<1>8. ASSUME NEW q \in Procs, Planned(q)'
      PROVE  Lacks(q)'
  <2>1. CASE q # p
    <3>1. Planned(q) /\ Left(q)' = Left(q)
      BY <1>8, <2>1, OthersSteady DEF Steady, SameUse, SamePlan, Planned, Left
    <3> QED BY <3>1, LacksStill DEF StampInv
  <2>2. CASE q = p /\ Connect(p)
    BY <1>8, <2>2, ConnectFields DEF Planned
  <2>3. CASE q = p /\ Sniff(p)
    BY <2>3, LacksPlanned
  <2>4. CASE q = p /\ Opens(p) /\ ~Sniff(p)
    <3>1. conn'[p] # None
      BY <1>8, <2>4 DEF Planned
    <3>2. Planned(p)
      BY <2>4, <3>1, Progress
    <3> QED BY <2>4, <3>1, <3>2, LacksLess DEF StampInv
  <2>5. CASE q = p /\ Works(p)
    <3>1. Planned(p) /\ Left(p)' = Left(p)
      BY <1>8, <2>5, WorksFields DEF SameOpening, Planned, Left
    <3> QED BY <2>5, <3>1, LacksStill DEF StampInv
  <2>6. CASE q = p /\ Leave(p)
    BY <1>8, <2>6, LeaveFields DEF Planned
  <2> QED BY <2>1, <2>2, <2>3, <2>4, <2>5, <2>6 DEF Acts
<1> QED BY <1>4, <1>6, <1>7, <1>8, <1>10 DEF StampInv

---------------------------------------------------------------------------
(* Triggers and views                                                      *)

(* A trigger or view goes when an opener that had listed it drops it, and  *)
(* comes back in the current form.                                         *)
LEMMA DerivedSteps ==
  ASSUME TypeInv, NEW p \in Procs, Acts(p), NEW o \in Objects
  PROVE  \/ derived'[o] = derived[o] /\ ~(Drop(p) /\ o = Operand(p) /\ o \in conn[p].listed)
                                     /\ ~(Make(p) /\ o = Operand(p) /\ derived[o] = None)
         \/ Drop(p) /\ o = Operand(p) /\ o \in conn[p].listed /\ derived'[o] = None
         \/ Make(p) /\ o = Operand(p) /\ derived[o] = None /\ derived'[o] = SchemaEra
<1>1. CASE Drop(p)
  <2>1. ~Make(p)
    BY <1>1 DEF Drop, Make, Doing
  <2> QED BY <1>1, <2>1 DEF Drop, TypeInv
<1>2. CASE Make(p)
  <2>1. ~Drop(p)
    BY <1>2 DEF Drop, Make, Doing
  <2> QED BY <1>2, <2>1 DEF Make, TypeInv
<1>3. CASE ~Drop(p) /\ ~Make(p)
  <2>1. derived' = derived
    <3>1. CASE Works(p)
      BY <3>1, WorksFields DEF schema
    <3>2. CASE Connect(p) \/ Leave(p) \/ Sniff(p) \/ Look(p) \/ List(p)
      BY <3>2 DEF Connect, Leave, Sniff, Look, List, schema
    <3>3. CASE Add(p) \/ Scale(p) \/ Unindex(p) \/ NameEdges(p) \/ MakeTable(p) \/ Stamp(p)
      BY <3>3 DEF Add, Scale, Unindex, NameEdges, MakeTable, Stamp
    <3> QED BY <1>3, <3>1, <3>2, <3>3 DEF Acts, Opens
  <2> QED BY <1>3, <2>1
<1> QED BY <1>1, <1>2, <1>3

(* Nothing becomes outdated.                                               *)
LEMMA OutdatedBefore ==
  ASSUME TypeInv, NEW p \in Procs, Acts(p), NEW o \in Objects, Outdated(o)'
  PROVE  Outdated(o) /\ derived'[o] = derived[o]
BY DerivedSteps DEF Outdated

(* What is outdated an opener drops, once it knows of it.                  *)
LEMMA DropsKept ==
  ASSUME TypeInv, PlanInv, StampInv, GuardInv, NEW p \in Procs, Acts(p), NEW q \in Procs, Planned(q)'
  PROVE  Drops(q)'
<1>1. CASE q # p
  <2>1. Planned(q) /\ Left(q)' = Left(q) /\ conn'[q].listed = conn[q].listed /\ conn'[q].from = conn[q].from
    BY <1>1, OthersSteady DEF Steady, SameUse, SamePlan, Planned, Left
  <2> QED BY <2>1, OutdatedBefore DEF GuardInv, Drops
<1>2. CASE q = p /\ Connect(p)
  BY <1>2, ConnectFields DEF Planned
<1>3. CASE q = p /\ Sniff(p)
  <2> DEFINE fresh == \A t \in Tables : table[t] = "none"
             from == conn[p].from
             plan == Plan(from, fresh)
  <2>1. /\ SameUse(p) /\ fresh \in BOOLEAN /\ from \in Nat /\ Left(p)' = Holds(plan)
    BY <1>3, Sniffed
  <2>2. conn[p] # None /\ conn'[p].from = from
    BY <2>1 DEF SameUse
  <2> HIDE DEF fresh
  <2>3. /\ from # SchemaEra => /\ <<"list", None>> \in Holds(plan)
                               /\ \A o \in Objects : <<"drop", o>> \in Holds(plan)
        /\ from = SchemaEra => \A x \in Holds(plan) : x[1] # "drop"
    BY <2>1, PlanIsPlan
  <2> HIDE DEF plan
  <2>4. from = SchemaEra => era = SchemaEra
    BY <2>2 DEF StampInv, Vouched
  <2>5. ASSUME NEW o \in Objects, Outdated(o)'
        PROVE  <<"drop", o>> \in Left(p)' /\ <<"list", None>> \in Left(p)'
    <3>1. Outdated(o)
      BY <2>5, OutdatedBefore
    <3>2. from # SchemaEra
      BY <2>4, <3>1 DEF GuardInv
    <3> QED BY <2>1, <2>3, <3>2
  <2>6. ASSUME NEW o \in Objects, <<"drop", o>> \in Left(p)'
        PROVE  from # SchemaEra
    BY <2>1, <2>3, <2>6
  <2> QED BY <1>3, <2>2, <2>5, <2>6 DEF Drops
<1>4. CASE q = p /\ Opens(p) /\ ~Sniff(p)
  <2> DEFINE h == Head(conn[p].plan)
  <2>1. conn'[p] # None
    BY <1>4 DEF Planned
  <2>2. /\ Planned(p) /\ SameUse(p) /\ Orderly(conn[p].plan) /\ conn[p].plan # <<>>
        /\ (~List(p) => conn'[p].listed = conn[p].listed)
        /\ Left(p)' \subseteq Left(p)
        /\ \A x \in Left(p) : \/ x = h \/ x \in Left(p)'
                              \/ Look(p) /\ table[Operand(p)] = "new" /\ x = <<"add", Operand(p)>>
    BY <1>4, <2>1, Progress
  <2>3. Drops(p)
    BY <2>2 DEF GuardInv
  <2>4. ASSUME NEW o \in Objects, Outdated(o)'
        PROVE  <<"drop", o>> \in Left(p)' /\ (<<"list", None>> \in Left(p)' \/ o \in conn'[p].listed)
    <3>1. Outdated(o) /\ derived'[o] = derived[o]
      BY <2>4, OutdatedBefore
    <3>2. <<"drop", o>> \in Left(p) /\ (<<"list", None>> \in Left(p) \/ o \in conn[p].listed)
      BY <2>3, <3>1 DEF Drops
    <3>3. h # <<"drop", o>>
      <4>1. SUFFICES ASSUME h = <<"drop", o>>
                     PROVE  FALSE
        OBVIOUS
      <4>2. Drop(p) /\ o = Operand(p)
        BY <1>4, <4>1, HeadDoes
      <4>3. \A x \in Left(p) : 6 <= Phase(x[1])
        BY <2>2, <4>1, TailOfPlan DEF Left, Phase
      <4>4. <<"list", None>> \notin Left(p)
        BY <4>3 DEF Phase
      <4>5. derived'[o] = None
        BY <3>1, <3>2, <4>2, <4>4, DerivedSteps DEF Outdated
      <4> QED BY <2>4, <4>5 DEF Outdated
    <3>4. <<"drop", o>> \in Left(p)'
      BY <2>2, <3>2, <3>3
    <3>5. CASE List(p)
      <4>1. conn'[p].listed = {x \in Objects : derived[x] # None}
        BY <1>4, <3>5, OpensFields DEF Onward
      <4> QED BY <3>1, <3>4, <4>1 DEF Outdated
    <3>6. CASE ~List(p)
      <4>1. h # <<"list", None>>
        BY <1>4, <3>6, HeadDoes
      <4> QED BY <2>2, <3>2, <3>4, <3>6, <4>1
    <3> QED BY <3>5, <3>6
  <2>5. ASSUME NEW o \in Objects, <<"drop", o>> \in Left(p)'
        PROVE  conn'[p].from # SchemaEra
    BY <2>2, <2>3, <2>5 DEF Drops, SameUse
  <2> QED BY <1>4, <2>4, <2>5 DEF Drops
<1>5. CASE q = p /\ Works(p)
  <2>1. Planned(p) /\ Left(p)' = Left(p) /\ conn'[p].listed = conn[p].listed /\ conn'[p].from = conn[p].from
    BY <1>5, WorksFields DEF SameOpening, Planned, Left, NewPlan, Serving
  <2> QED BY <1>5, <2>1, OutdatedBefore DEF GuardInv, Drops
<1>6. CASE q = p /\ Leave(p)
  BY <1>6, LeaveFields DEF Planned
<1> QED BY <1>1, <1>2, <1>3, <1>4, <1>5, <1>6 DEF Acts

(* Whoever has nobody beside it stays so until another begins to upgrade.  *)
LEMMA AloneKept ==
  ASSUME TypeInv, PlanInv, StampInv, GuardInv, NEW p \in Procs, Acts(p),
         NEW a \in Procs, NEW b \in Procs, a # b, conn'[a] # None, ~conn'[a].beside
  PROVE  ~Upgrading(b)'
<1>1. SUFFICES ASSUME Upgrading(b)'
               PROVE  FALSE
  OBVIOUS
<1>2. CASE Connect(p)
  <2>1. CASE b = p
    <3>1. era < SchemaEra
      BY <1>1, <1>2, <2>1, ConnectFields DEF Upgrading
    <3> QED BY <1>2, <2>1, <3>1, ConnectFields
  <2>2. CASE b # p
    <3>1. Upgrading(b)
      BY <1>1, <1>2, <2>2, ConnectFields DEF Upgrading, Opening, SameUse, SamePlan
    <3>2. CASE a = p
      BY <1>2, <3>1, <3>2, ConnectFields
    <3>3. CASE a # p
      <4>1. Steady(a)
        BY <3>3, OthersSteady
      <4> QED BY <3>1, <4>1 DEF GuardInv, Steady, SameUse
    <3> QED BY <3>2, <3>3
  <2> QED BY <2>1, <2>2
<1>3. CASE ~Connect(p)
  <2>1. Upgrading(b)
    <3>1. CASE b # p
      BY <1>1, <3>1, OthersSteady DEF Steady, SameUse, SamePlan, Upgrading, Opening
    <3>2. CASE b = p /\ Opens(p)
      <4>1. Opening(p) /\ SameUse(p)
        BY <1>1, <3>2, OpensFields, Progress, Sniffed DEF Upgrading, Opening
      <4> QED BY <1>1, <3>2, <4>1 DEF Upgrading, SameUse
    <3>3. CASE b = p /\ Works(p)
      BY <1>1, <3>3, WorksFields DEF Upgrading, Opening, SameOpening
    <3>4. CASE b = p /\ Leave(p)
      BY <1>1, <3>4, LeaveFields DEF Upgrading, Opening
    <3> QED BY <1>3, <3>1, <3>2, <3>3, <3>4 DEF Acts
  <2>2. conn[a] # None /\ ~conn[a].beside
    <3>1. CASE a # p
      BY <3>1, OthersSteady DEF Steady, SameUse
    <3>2. CASE a = p /\ Opens(p)
      BY <3>2, Progress, Sniffed DEF SameUse
    <3>3. CASE a = p /\ Works(p)
      BY <3>3, WorksFields DEF SameOpening
    <3>4. CASE a = p /\ Leave(p)
      BY <3>4, LeaveFields
    <3> QED BY <1>3, <3>1, <3>2, <3>3, <3>4 DEF Acts
  <2> QED BY <2>1, <2>2 DEF GuardInv
<1> QED BY <1>2, <1>3

(* With nobody beside it, an opener still has to make what is not there,   *)
(* and what it is still to drop.                                           *)
LEMMA MakesKept ==
  ASSUME TypeInv, PlanInv, StampInv, GuardInv, NEW p \in Procs, Acts(p),
         NEW q \in Procs, Planned(q)', ~conn'[q].beside
  PROVE  Makes(q)'
<1>1. CASE q # p
  <2>1. Planned(q) /\ ~conn[q].beside /\ Left(q)' = Left(q)
    BY <1>1, OthersSteady DEF Steady, SameUse, SamePlan, Planned, Left
  <2>2. ~Upgrading(p)
    BY <1>1, <2>1 DEF GuardInv, Planned
  <2>3. ASSUME NEW o \in Objects, derived'[o] = None
        PROVE  derived[o] = None
    <3>1. SUFFICES ASSUME Drop(p), o = Operand(p)
                   PROVE  FALSE
      BY <2>3, DerivedSteps, NoneAssumption DEF SchemaEra
    <3>2. Opens(p) /\ ~Sniff(p)
      BY <3>1 DEF Opens, Drop, Sniff, Doing
    <3>3. conn'[p] # None
      BY <3>1, <3>2, OpensFields DEF Onward, SameUse
    <3>4. Head(conn[p].plan) \in Left(p) /\ Head(conn[p].plan) \in Steps /\ Planned(p)
      BY <3>2, <3>3, Progress
    <3>5. Head(conn[p].plan) = <<"drop", o>>
      BY <3>1, <3>4 DEF Drop, Doing, Operand, Steps
    <3>6. conn[p].from # SchemaEra /\ conn[p].from <= SchemaEra /\ conn[p] # None
      BY <3>4, <3>5 DEF GuardInv, Drops, StampInv, Planned
    <3>7. conn[p].from \in Nat
      BY <3>6 DEF TypeInv, ConnectionState
    <3> QED BY <2>2, <3>1, <3>6, <3>7 DEF Upgrading, Drop, Doing, SchemaEra
  <2> QED BY <2>1, <2>3 DEF GuardInv, Makes
<1>2. CASE q = p /\ Connect(p)
  BY <1>2, ConnectFields DEF Planned
<1>3. CASE q = p /\ Sniff(p)
  <2> DEFINE fresh == \A t \in Tables : table[t] = "none"
             plan == Plan(conn[p].from, fresh)
  <2>1. fresh \in BOOLEAN /\ conn[p].from \in Nat /\ Left(p)' = Holds(plan)
    BY <1>3, Sniffed
  <2> HIDE DEF fresh
  <2>2. \A o \in Objects : <<"make", o>> \in Holds(plan)
    BY <2>1, PlanIsPlan
  <2> HIDE DEF plan
  <2> QED BY <1>3, <2>1, <2>2 DEF Makes
<1>4. CASE q = p /\ Opens(p) /\ ~Sniff(p)
  <2> DEFINE h == Head(conn[p].plan)
  <2>1. conn'[p] # None
    BY <1>4 DEF Planned
  <2>2. /\ Planned(p) /\ conn'[p].beside = conn[p].beside
        /\ Orderly(conn[p].plan) /\ conn[p].plan # <<>> /\ h \in Left(p) /\ h \in Steps
        /\ Left(p)' \subseteq Left(p)
        /\ \A x \in Left(p) : \/ x = h \/ x \in Left(p)'
                              \/ Look(p) /\ table[Operand(p)] = "new" /\ x = <<"add", Operand(p)>>
    BY <1>4, <2>1, Progress
  <2>3. Makes(p)
    BY <1>4, <2>2 DEF GuardInv
  <2>4. ASSUME NEW o \in Objects, derived'[o] = None \/ <<"drop", o>> \in Left(p)'
        PROVE  <<"make", o>> \in Left(p)'
    <3>1. Drop(p) => h = <<"drop", Operand(p)>>
      BY <2>2 DEF Drop, Doing, Operand, Steps
    <3>2. derived[o] = None \/ <<"drop", o>> \in Left(p)
      BY <2>2, <2>4, <3>1, DerivedSteps, NoneAssumption DEF SchemaEra
    <3>3. <<"make", o>> \in Left(p)
      BY <2>3, <3>2 DEF Makes
    <3>4. h # <<"make", o>>
      <4>1. SUFFICES ASSUME h = <<"make", o>>
                     PROVE  FALSE
        OBVIOUS
      <4>2. Make(p) /\ o = Operand(p)
        BY <1>4, <4>1, HeadDoes
      <4>3. \A x \in Left(p) : 8 <= Phase(x[1])
        <5>1. \A x \in Left(p) : Phase(h[1]) <= Phase(x[1])
          BY <2>2, TailOfPlan DEF Left
        <5>2. Phase(h[1]) = 8
          BY <4>1 DEF Phase
        <5> QED BY <5>1, <5>2
      <4>4. <<"drop", o>> \notin Left(p)
        BY <4>3 DEF Phase
      <4>5. derived'[o] = SchemaEra
        <5>1. derived[o] = None /\ ~Drop(p)
          BY <3>2, <4>2, <4>4 DEF Drop, Make, Doing
        <5> QED BY <4>2, <5>1, DerivedSteps
      <4> QED BY <2>2, <2>4, <4>4, <4>5, NoneAssumption DEF SchemaEra
    <3> QED BY <2>2, <3>3, <3>4
  <2> QED BY <1>4, <2>4 DEF Makes
<1>5. CASE q = p /\ Works(p)
  <2>1. Planned(p) /\ Left(p)' = Left(p) /\ ~conn[p].beside /\ derived' = derived
    BY <1>5, WorksFields DEF SameOpening, Planned, Left, NewPlan, Serving, schema
  <2> QED BY <1>5, <2>1 DEF GuardInv, Makes
<1>6. CASE q = p /\ Leave(p)
  BY <1>6, LeaveFields DEF Planned
<1> QED BY <1>1, <1>2, <1>3, <1>4, <1>5, <1>6 DEF Acts

(* A file is not stamped while something in it is outdated.                *)
LEMMA GuardKept ==
  ASSUME TypeInv, PlanInv, StampInv, GuardInv, NEW p \in Procs, Acts(p)
  PROVE  GuardInv'
<1>1. ASSUME era' = SchemaEra, NEW o \in Objects, Outdated(o)'
      PROVE  FALSE
  <2>1. Outdated(o)
    BY <1>1, OutdatedBefore
  <2>2. CASE era' = era
    BY <1>1, <2>1, <2>2 DEF GuardInv
  <2>3. CASE Stamp(p)
    <3>1. Orderly(conn[p].plan) /\ conn[p].plan # <<>> /\ Head(conn[p].plan)[1] = "stamp" /\ Planned(p)
      BY <2>3 DEF PlanInv, Stamp, Doing, Opening, Planned, NewPlan
    <3>2. \A x \in Left(p) : 9 <= Phase(x[1])
      BY <3>1, TailOfPlan DEF Left, Phase
    <3>3. <<"drop", o>> \notin Left(p)
      BY <3>2 DEF Phase
    <3> QED BY <2>1, <3>1, <3>3 DEF GuardInv, Drops
  <2> QED BY <2>2, <2>3, FileGrows
<1>2. \A q \in Procs : Planned(q)' => Drops(q)'
  BY DropsKept
<1>3. \A a, b \in Procs : conn'[a] # None /\ ~conn'[a].beside /\ a # b => ~Upgrading(b)'
  BY AloneKept
<1>4. \A q \in Procs : Planned(q)' /\ ~conn'[q].beside => Makes(q)'
  BY MakesKept
<1> QED BY <1>1, <1>2, <1>3, <1>4 DEF GuardInv

---------------------------------------------------------------------------
(* Ids                                                                     *)

(* The order of ids is total and transitive.                               *)
LEMMA IdOrder ==
  ASSUME NEW a \in Id, NEW b \in Id, NEW c \in Id
  PROVE  /\ ~Above(a, b) /\ Above(c, b) => Above(c, a)
         /\ ~Above(a, b) /\ ~Above(b, c) => ~Above(a, c)
         /\ Above(a, b) => ~Above(b, a)
         /\ Higher(a, b) \in Id /\ ~Above(a, Higher(a, b)) /\ ~Above(b, Higher(a, b))
BY DEF Id, Above, Higher

(* What is under a mark is under a higher one, and what rises above the    *)
(* mark is above all of it.                                                *)
LEMMA UnderMark ==
  ASSUME NEW set \in SUBSET Row, NEW m \in Id, NEW n \in Id, NoneAbove(set, m)
  PROVE  /\ ~Above(m, n) => NoneAbove(set, n)
         /\ Above(n, m) => /\ NoneAbove(set, n)
                           /\ \A r \in set : Above(n, r.id)
<1>1. \A r \in set : r.id \in Id /\ ~Above(r.id, m)
  BY DEF NoneAbove, Row
<1> QED BY <1>1, IdOrder DEF NoneAbove

(* The fields of a connection that the ids are about.                      *)
LEMMA MintFields ==
  ASSUME TypeInv, NEW p \in Procs, conn[p] # None
  PROVE  /\ conn[p].mint \in Id \cup {None} /\ conn[p].floor \in SUBSET Row
         /\ conn[p].snap \in Snapshot \cup {None} /\ conn[p].made \in Seq(Id)
         /\ conn[p].number \in Nat /\ ids \in SUBSET Row /\ wm \in Id /\ opens \in Nat
         /\ Len(conn[p].made) \in Nat /\ DOMAIN conn[p].made = 1..Len(conn[p].made)
         /\ \A i \in 1..Len(conn[p].made) : conn[p].made[i] \in Id
<1>1. conn[p] \in ConnectionState
  BY DEF TypeInv
<1> QED BY <1>1 DEF TypeInv, ConnectionState

(* The mint of a connection, fenced by now, is above its floor and its ids. *)
LEMMA Fenced ==
  ASSUME TypeInv, MintInv, NEW p \in Procs, InTxn(p)
  PROVE  /\ MintFor(p) \in Id
         /\ NoneAbove(FloorFor(p), MintFor(p))
         /\ NoneAbove({r \in ids : r.by = conn[p].number}, MintFor(p))
         /\ \A i \in 1..Len(conn[p].made) : ~Above(conn[p].made[i], MintFor(p))
<1>1. conn[p] # None /\ conn[p].snap # None
  BY DEF InTxn, Serving
<1>2. Minted(p)
  BY <1>1 DEF MintInv
<1>3. MintFor(p) \in Id
  <2>1. 0 \in Nat
    OBVIOUS
  <2> QED BY <2>1, MintTypes
<1>4. CASE conn[p].mint = None
  <2>1. /\ conn[p].snap \in Snapshot /\ Bottom \in Id /\ conn[p].made = <<>>
        /\ \A r \in ids : r.by # conn[p].number
    BY <1>1, <1>2, <1>4, MintFields DEF Minted, Bottom, Id
  <2>2. conn[p].snap[1] \in Id /\ conn[p].snap[2] \in SUBSET Row /\ NoneAbove(conn[p].snap[2], conn[p].snap[1])
    BY <1>1, <1>2, <2>1 DEF Snapshot, Minted
  <2>3. MintFor(p) = Higher(conn[p].snap[1], Bottom) /\ FloorFor(p) = conn[p].snap[2]
    BY <1>4 DEF MintFor, FloorFor, Fence
  <2>4. ~Above(conn[p].snap[1], MintFor(p))
    BY <2>1, <2>2, <2>3, IdOrder
  <2>5. NoneAbove(FloorFor(p), MintFor(p))
    BY <1>3, <2>2, <2>3, <2>4, UnderMark
  <2> QED BY <1>3, <2>1, <2>5 DEF NoneAbove
<1>5. CASE conn[p].mint # None
  BY <1>2, <1>3, <1>5 DEF Minted, MintFor, FloorFor
<1> QED BY <1>4, <1>5

(* Creating a row.                                                         *)
LEMMA CreateRises ==
  ASSUME TypeInv, MintInv, NEW p \in Procs, Create(p)
  PROVE  Minted(p)' /\ Rises(p)'
<1>1. InTxn(p) /\ conn[p] # None /\ UNCHANGED <<ids, opens>>
  BY DEF Create, InTxn, Serving
<1>2. PICK now \in Nat :
        LET id == NextId(MintFor(p), now) IN
        \/ /\ Working(p, id, FloorFor(p), conn[p].snap, Append(conn[p].made, id)) /\ writer' = p
        \/ /\ Working(p, id, FloorFor(p), None, conn[p].made) /\ UNCHANGED writer
  BY CreateFields
<1> DEFINE m == MintFor(p)
           id == NextId(m, now)
           f == FloorFor(p)
           old == {r \in ids : r.by = conn[p].number}
           made == conn[p].made
<1>3. m \in Id /\ id \in Id /\ Above(id, m) /\ f \in SUBSET Row
  BY <1>1, <1>2, MintTypes
<1>4. NoneAbove(f, m) /\ NoneAbove(old, m) /\ \A i \in 1..Len(made) : ~Above(made[i], m)
  BY <1>1, Fenced
<1>5. /\ made \in Seq(Id) /\ Len(made) \in Nat /\ old \in SUBSET Row
      /\ \A i \in 1..Len(made) : made[i] \in Id
      /\ conn[p].mint \in Id \cup {None}
  BY <1>1, MintFields
<1>6. Minted(p) /\ Rises(p)
  BY <1>1 DEF MintInv
<1>7. \/ Working(p, id, f, conn[p].snap, Append(made, id))
      \/ Working(p, id, f, None, made)
  BY <1>2
<1> HIDE DEF m, id, f
<1>8. /\ NoneAbove(f, id) /\ NoneAbove(old, id)
      /\ \A r \in f : Above(id, r.id)
      /\ \A r \in old : Above(id, r.id)
  BY <1>3, <1>4, <1>5, UnderMark
<1>9. \A i \in 1..Len(made) : ~Above(made[i], id) /\ Above(id, made[i])
  <2>1. ~Above(m, id)
    BY <1>3, IdOrder
  <2> QED BY <1>3, <1>4, <1>5, <2>1, IdOrder
<1>10. /\ conn'[p] # None /\ conn'[p].number = conn[p].number /\ conn'[p].mint = id /\ conn'[p].floor = f
       /\ conn'[p].snap \in {None, conn[p].snap}
       /\ conn'[p].made = made \/ conn'[p].made = Append(made, id)
  BY <1>7 DEF Working, SameOpening
<1>11. id # None
  BY <1>3, NoneAssumption
<1>12. {r \in ids' : r.by = conn'[p].number} = old
  BY <1>1, <1>10
<1>13. \A i \in 1..Len(made) : /\ \A r \in f : Above(made[i], r.id)
                               /\ \A r \in old : Above(made[i], r.id)
                               /\ \A j \in 1..(i - 1) : Above(made[i], made[j])
  <2>1. CASE conn[p].mint = None
    BY <1>6, <2>1 DEF Minted
  <2>2. CASE conn[p].mint # None
    BY <1>6, <2>2 DEF Rises, FloorFor, f
  <2> QED BY <2>1, <2>2
<1> HIDE DEF made, old
<1>14. /\ Len(Append(made, id)) = Len(made) + 1
       /\ \A i \in 1..Len(made) : Append(made, id)[i] = made[i]
       /\ Append(made, id)[Len(made) + 1] = id
  BY <1>3, <1>5, AppendProperties
<1>15. ~Above(id, id)
  BY <1>3, IdOrder
<1>16. \A i \in 1..Len(conn'[p].made) : ~Above(conn'[p].made[i], id)
  <2>1. CASE conn'[p].made = made
    BY <1>9, <2>1
  <2>2. CASE conn'[p].made = Append(made, id)
    BY <1>5, <1>9, <1>14, <1>15, <2>2
  <2> QED BY <1>10, <2>1, <2>2
<1>17. Minted(p)'
  <2>1. conn[p].number \in 1..opens /\ (conn[p].snap # None => NoneAbove(conn[p].snap[2], conn[p].snap[1]))
    BY <1>6 DEF Minted
  <2> QED BY <1>1, <1>8, <1>10, <1>11, <1>12, <1>16, <2>1 DEF Minted
<1>18. \A i \in 1..Len(conn'[p].made) : /\ \A r \in f : Above(conn'[p].made[i], r.id)
                                        /\ \A r \in old : Above(conn'[p].made[i], r.id)
                                        /\ \A j \in 1..(i - 1) : Above(conn'[p].made[i], conn'[p].made[j])
  <2>1. CASE conn'[p].made = made
    BY <1>13, <2>1
  <2>2. CASE conn'[p].made = Append(made, id)
    <3> DEFINE new == Append(made, id)
    <3> HIDE DEF new
    <3>1. ASSUME NEW i \in 1..Len(new)
          PROVE  /\ \A r \in f : Above(new[i], r.id)
                 /\ \A r \in old : Above(new[i], r.id)
                 /\ \A j \in 1..(i - 1) : Above(new[i], new[j])
      <4>1. CASE i \in 1..Len(made)
        <5>1. new[i] = made[i] /\ \A j \in 1..(i - 1) : new[j] = made[j]
          BY <1>5, <1>14, <4>1 DEF new
        <5> QED BY <1>13, <4>1, <5>1
      <4>2. CASE i = Len(made) + 1
        <5>1. new[i] = id /\ \A j \in 1..(i - 1) : j \in 1..Len(made) /\ new[j] = made[j]
          BY <1>5, <1>14, <4>2 DEF new
        <5> QED BY <1>8, <1>9, <5>1
      <4> QED BY <1>5, <1>14, <4>1, <4>2 DEF new
    <3> QED BY <2>2, <3>1 DEF new
  <2> QED BY <1>10, <2>1, <2>2
<1>19. Rises(p)'
  <2>1. \A r \in ids' : r.by = conn'[p].number => r \in old
    BY <1>12
  <2> QED BY <1>10, <1>18, <2>1 DEF Rises
<1> QED BY <1>17, <1>19

(* A connection that keeps its number, its mint and its transaction, and   *)
(* of whose number no row comes, goes on as it was.                        *)
LEMMA StillRises ==
  ASSUME TypeInv, MintInv, NEW q \in Procs, SameUse(q), opens <= opens', opens' \in Nat,
         \A r \in ids' : r.by = conn[q].number => r \in ids
  PROVE  Minted(q)' /\ Rises(q)'
<1>1. Minted(q) /\ Rises(q) /\ conn[q].number \in Nat /\ opens \in Nat
  BY MintFields DEF MintInv, SameUse
<1>2. conn[q].number \in 1..opens'
  BY <1>1 DEF Minted
<1>3. Rises(q)'
  BY <1>1 DEF Rises, SameUse
<1>4. Minted(q)'
  BY <1>1, <1>2 DEF Minted, SameUse, NoneAbove
<1> QED BY <1>3, <1>4

(* A commit publishes the ids of its connection, none above the watermark. *)
LEMMA CommitRises ==
  ASSUME TypeInv, MintInv, NEW p \in Procs, Commit(p)
  PROVE  /\ NoneAbove(ids', wm')
         /\ \A r \in ids' : r \in ids \/ r.by = conn[p].number
         /\ NoneAbove({r \in ids' : r.by = conn[p].number}, conn[p].mint)
         /\ conn[p].mint # None /\ conn[p].number \in 1..opens
<1>1. conn[p] # None /\ conn[p].mint # None
  BY DEF MintInv, Commit, InTxn, Serving
<1>2. /\ Minted(p) /\ conn[p].mint \in Id /\ wm \in Id /\ ids \in SUBSET Row
      /\ DOMAIN conn[p].made = 1..Len(conn[p].made) /\ NoneAbove(ids, wm)
      /\ \A i \in 1..Len(conn[p].made) : conn[p].made[i] \in Id
  BY <1>1, MintFields DEF MintInv
<1> DEFINE m == conn[p].mint
           new == {[id |-> conn[p].made[i], by |-> conn[p].number] : i \in DOMAIN conn[p].made}
<1>3. ids' = ids \cup new /\ wm' = Higher(m, wm)
  BY DEF Commit, Flush
<1>4. \A r \in new : r.by = conn[p].number /\ \E i \in 1..Len(conn[p].made) : r.id = conn[p].made[i]
  BY <1>2
<1>5. \A r \in new : r.id \in Id /\ ~Above(r.id, m)
  BY <1>1, <1>2, <1>4 DEF Minted
<1> HIDE DEF new, m
<1>6. wm' \in Id /\ ~Above(m, wm') /\ ~Above(wm, wm')
  BY <1>2, <1>3, IdOrder DEF m
<1>7. NoneAbove(ids, wm')
  BY <1>2, <1>6, UnderMark
<1>8. \A r \in new : ~Above(r.id, wm')
  BY <1>2, <1>5, <1>6, IdOrder DEF m
<1>9. NoneAbove(ids', wm')
  BY <1>3, <1>7, <1>8 DEF NoneAbove
<1>10. NoneAbove({r \in ids : r.by = conn[p].number}, m)
  BY <1>1, <1>2 DEF Minted, m
<1>11. NoneAbove({r \in ids' : r.by = conn[p].number}, m)
  BY <1>3, <1>5, <1>10 DEF NoneAbove
<1> QED BY <1>1, <1>2, <1>3, <1>4, <1>9, <1>11 DEF m, Minted

(* Ids go on rising whatever anybody does.                                 *)
LEMMA MintKept ==
  ASSUME TypeInv, PlanInv, MintInv, NEW p \in Procs, Acts(p)
  PROVE  MintInv'
<1>1. opens \in Nat /\ opens' \in Nat /\ opens <= opens' /\ (Connect(p) => opens' = opens + 1)
      /\ (~Connect(p) => opens' = opens)
  <2>1. CASE Connect(p)
    BY <2>1 DEF Connect, TypeInv
  <2>2. CASE ~Connect(p)
    <3>1. opens' = opens
      BY <2>2, WorksFields DEF Acts, Opens, Leave, Sniff, Look, Add, Scale, Unindex, NameEdges, List, Drop,
                               MakeTable, Make, Stamp
    <3> QED BY <2>2, <3>1 DEF TypeInv
  <2> QED BY <2>1, <2>2
<1>2. ASSUME NEW q \in Procs, conn'[q] # None
      PROVE  \/ conn[q] # None /\ conn'[q].number = conn[q].number
             \/ q = p /\ Connect(p) /\ conn[q] = None /\ conn'[q].number = opens + 1
  <2>1. CASE q # p
    BY <1>2, <2>1, OthersSteady DEF Steady, SameUse
  <2>2. CASE q = p /\ Connect(p)
    BY <2>2, ConnectFields
  <2>3. CASE q = p /\ Opens(p)
    BY <1>2, <2>3, Progress, Sniffed DEF SameUse
  <2>4. CASE q = p /\ Works(p)
    BY <2>4, WorksFields DEF SameOpening
  <2> QED BY <1>2, <2>1, <2>2, <2>3, <2>4, LeaveFields DEF Acts
<1>3. \A q, r \in Procs : conn'[q] # None /\ conn'[r] # None /\ q # r => conn'[q].number # conn'[r].number
  <2>1. ASSUME NEW q \in Procs, conn[q] # None
        PROVE  conn[q].number \in Nat /\ conn[q].number <= opens
    <3>1. conn[q].number \in 1..opens
      BY <2>1 DEF MintInv, Minted
    <3> QED BY <1>1, <3>1
  <2> QED BY <1>1, <1>2, <2>1 DEF MintInv
<1>4. CASE ~Commit(p)
  <2>1. ids' = ids /\ wm' = wm
    BY <1>4, FileTypes DEF Acts, Works, Begin, Create, Rollback, Leave
  <2>2. \A q \in Procs : q # p => Steady(q)
    BY OthersSteady
  <2>3. ASSUME NEW q \in Procs, q # p, conn'[q] # None
        PROVE  Minted(q)' /\ Rises(q)'
    <3>1. SameUse(q)
      BY <2>2, <2>3 DEF Steady
    <3> QED BY <1>1, <2>1, <3>1, StillRises
  <2>4. ASSUME conn'[p] # None
        PROVE  Minted(p)' /\ Rises(p)'
    <3>1. CASE Connect(p)
      <4>1. /\ conn'[p].number = opens + 1 /\ conn'[p].mint = None /\ conn'[p].floor = {}
            /\ conn'[p].snap = None /\ conn'[p].made = <<>>
        BY <3>1, ConnectFields
      <4>2. \A r \in ids' : r.by # opens + 1
        <5>1. \A r \in ids : r.by \in Nat /\ r.by <= opens
          BY DEF MintInv, TypeInv, Row
        <5> QED BY <1>1, <2>1, <5>1
      <4>3. Minted(p)'
        BY <1>1, <3>1, <4>1, <4>2 DEF Minted
      <4>4. Rises(p)'
        BY <4>1 DEF Rises
      <4> QED BY <4>3, <4>4
    <3>2. CASE Opens(p)
      <4>1. SameUse(p)
        BY <2>4, <3>2, Progress, Sniffed
      <4> QED BY <1>1, <2>1, <4>1, StillRises
    <3>3. CASE Begin(p)
      <4>1. Working(p, conn[p].mint, conn[p].floor, <<wm, ids>>, conn[p].made)
        BY <3>3, BeginFields
      <4>2. conn[p] # None /\ NoneAbove(ids, wm) /\ Minted(p) /\ Rises(p)
        BY <4>1 DEF Working, SameOpening, MintInv
      <4>3. Minted(p)'
        BY <1>1, <2>1, <3>3, <4>1, <4>2 DEF Minted, Working, SameOpening, Begin, NoneAbove
      <4>4. Rises(p)'
        BY <2>1, <4>1, <4>2 DEF Rises, Working, SameOpening
      <4> QED BY <4>3, <4>4
    <3>4. CASE Create(p)
      BY <3>4, CreateRises
    <3>5. CASE Rollback(p)
      <4>1. Working(p, conn[p].mint, conn[p].floor, None, <<>>) /\ opens' = opens
        BY <3>5, FinishFields DEF Rollback
      <4>2. conn[p] # None /\ Minted(p)
        BY <4>1 DEF Working, SameOpening, MintInv
      <4>3. Minted(p)'
        BY <2>1, <4>1, <4>2 DEF Minted, Working, SameOpening, NoneAbove
      <4>4. Rises(p)'
        BY <4>1 DEF Rises, Working
      <4> QED BY <4>3, <4>4
    <3>6. CASE Leave(p)
      BY <2>4, <3>6, LeaveFields
    <3> QED BY <1>4, <3>1, <3>2, <3>3, <3>4, <3>5, <3>6 DEF Acts, Works
  <2>5. ASSUME NEW q \in Procs, writer' = q
        PROVE  Serving(q)' /\ conn'[q].mint # None
    <3>1. CASE q # p
      <4>1. writer = q
        <5>1. CASE Create(p)
          BY <2>5, <3>1, <5>1, CreateFields
        <5>2. CASE ~Create(p)
          BY <1>4, <2>5, <5>2, FileTypes, NoneAssumption DEF Acts, Works, Begin, Rollback, Leave
        <5> QED BY <5>1, <5>2
      <4> QED BY <2>2, <3>1, <4>1 DEF MintInv, Steady, SameUse, SamePlan, Serving
    <3>2. CASE q = p /\ Create(p)
      <4>1. PICK now \in Nat : conn'[p].mint = NextId(MintFor(p), now) /\ SameOpening(p)
        BY <3>2, CreateFields DEF Working
      <4>2. conn'[p].mint # None
        BY <3>2, <4>1, MintTypes, NoneAssumption DEF Create
      <4> QED BY <3>2, <4>1, <4>2, WorksFields DEF Works, Serving, SameOpening
    <3>3. CASE q = p /\ ~Create(p)
      <4>1. writer = p /\ Serving(p) /\ conn[p].mint # None /\ ~Leave(p) /\ ~Rollback(p)
        BY <1>4, <2>5, <3>3, FileTypes, NoneAssumption DEF Acts, Works, Begin, Rollback, Leave, MintInv
      <4>2. Begin(p)
        BY <1>4, <3>3, <4>1, OpensFields, ConnectFields DEF Acts, Works, Serving, Opening
      <4> QED BY <3>3, <4>1, <4>2, BeginFields DEF Working, SameOpening, Serving
    <3> QED BY <3>1, <3>2, <3>3
  <2>6. \A r \in ids' : r.by <= opens'
    <3>1. \A r \in ids : r.by \in Nat /\ r.by <= opens
      BY DEF MintInv, TypeInv, Row
    <3> QED BY <1>1, <2>1, <3>1
  <2>7. NoneAbove(ids', wm')
    BY <2>1 DEF MintInv
  <2> QED BY <1>3, <2>3, <2>4, <2>5, <2>6, <2>7 DEF MintInv
<1>5. CASE Commit(p)
  <2>1. /\ Working(p, conn[p].mint, conn[p].floor, None, <<>>)
        /\ writer' = None /\ opens' = opens /\ conn[p] # None
    BY <1>5, FinishFields DEF Commit, Working, SameOpening
  <2>2. /\ NoneAbove(ids', wm')
        /\ \A r \in ids' : r \in ids \/ r.by = conn[p].number
        /\ NoneAbove({r \in ids' : r.by = conn[p].number}, conn[p].mint)
        /\ conn[p].mint # None /\ conn[p].number \in 1..opens
    BY <1>5, CommitRises
  <2>3. ASSUME NEW q \in Procs, q # p, conn'[q] # None
        PROVE  Minted(q)' /\ Rises(q)'
    <3>1. SameUse(q)
      BY <2>3, OthersSteady DEF Steady
    <3>2. conn[q].number # conn[p].number
      BY <2>1, <2>3, <3>1 DEF MintInv, SameUse
    <3>3. \A r \in ids' : r.by = conn[q].number => r \in ids
      BY <2>2, <3>2
    <3> QED BY <1>1, <3>1, <3>3, StillRises
  <2>4. Minted(p)'
    <3>1. Minted(p)
      BY <2>1 DEF MintInv
    <3> QED BY <2>1, <2>2, <3>1 DEF Minted, Working, SameOpening, NoneAbove
  <2>5. Rises(p)'
    BY <2>1 DEF Rises, Working
  <2>6. \A r \in ids' : r.by <= opens'
    <3>1. \A r \in ids : r.by \in Nat /\ r.by <= opens
      BY DEF MintInv, TypeInv, Row
    <3> QED BY <1>1, <2>1, <2>2, <3>1
  <2> QED BY <1>3, <2>1, <2>2, <2>3, <2>4, <2>5, <2>6, NoneAssumption DEF MintInv
<1> QED BY <1>4, <1>5

---------------------------------------------------------------------------
(* The theorems                                                            *)

OpenInv == TypeInv /\ PlanInv /\ StampInv /\ GuardInv /\ MintInv

LEMMA OpenInit == Init => OpenInv
<1> SUFFICES ASSUME Init PROVE OpenInv
  OBVIOUS
<1> PICK from \in Eras, new \in BOOLEAN :
      /\ new => from = 0
      /\ era = from
      /\ table = [t \in Tables |-> IF new THEN "none" ELSE IF from < 2 THEN "old" ELSE "new"]
      /\ unit = [s \in Stamps |-> IF ~new /\ from < 2 THEN "ms" ELSE "ns"]
      /\ unique = (~new /\ from < 2)
      /\ named = (new \/ from = 3)
      /\ derived = [o \in Objects |-> IF new THEN None ELSE from]
      /\ wm = IF new THEN Bottom ELSE <<2, 0>>
      /\ ids = IF new THEN {} ELSE {[id |-> <<2, 0>>, by |-> 0]}
  BY DEF Init
<1>1. from \in Nat
  BY SchemaAssumption
<1>2. (\A p \in Procs : conn[p] = None) /\ conn \in [Procs -> {None}] /\ writer = None /\ opens = 0
  BY DEF Init
<1>3. wm \in Id /\ ids \in SUBSET Row /\ NoneAbove(ids, wm) /\ \A r \in ids : r.by = 0
  <2>1. <<2, 0>> \in Id /\ <<0, 0>> \in Id
    BY DEF Id
  <2> QED BY <2>1 DEF Row, NoneAbove, Above, Bottom
<1>4. TypeInv
  BY <1>1, <1>2, <1>3 DEF TypeInv
<1>5. PlanInv
  BY <1>2 DEF PlanInv
<1>6. StampInv
  <2>1. Origin
    <3>1. CASE new
      BY <3>1 DEF Origin, Migrated
    <3>2. CASE ~new
      BY <3>2 DEF Origin
    <3> QED BY <3>1, <3>2
  <2>2. Vouched(era)
    <3>1. era >= 2 => ~new /\ ~(from < 2)
      BY <1>1
    <3>2. era = 3 => named
      OBVIOUS
    <3> QED BY <3>1, <3>2 DEF Vouched, Migrated, SchemaEra
  <2>3. OnlyEarly
    BY DEF OnlyEarly
  <2> QED BY <1>2, <2>1, <2>2, <2>3 DEF StampInv, Planned
<1>7. GuardInv
  BY <1>1, <1>2 DEF GuardInv, Outdated, Planned, SchemaEra
<1>8. MintInv
  BY <1>2, <1>3, NoneAssumption DEF MintInv
<1> QED BY <1>4, <1>5, <1>6, <1>7, <1>8 DEF OpenInv

LEMMA OpenNext == OpenInv /\ [Next]_vars => OpenInv'
<1> SUFFICES ASSUME OpenInv, [Next]_vars PROVE OpenInv'
  OBVIOUS
<1>1. CASE UNCHANGED vars
  <2>1. \A p \in Procs : (Planned(p)' <=> Planned(p)) /\ (Left(p)' = Left(p))
    BY <1>1 DEF vars, Planned, Left
  <2> QED BY SMTT(30), <1>1, <2>1 DEF vars, schema, OpenInv, TypeInv, PlanInv, StampInv, Origin, Vouched, Migrated, OnlyEarly, Lacks,
                  GuardInv, Outdated, Drops, Makes, Upgrading, Opening,
                  MintInv, Minted, Rises, NoneAbove, Serving
<1>2. ASSUME NEW p \in Procs, Acts(p)
      PROVE  OpenInv'
  <2>1. writer = p => conn[p].mint # None
    BY DEF OpenInv, MintInv
  <2> QED BY <1>2, <2>1, TypeKept, PlanKept, StampKept, GuardKept, MintKept DEF OpenInv
<1> QED BY <1>1, <1>2, StepCases DEF Acts, Works

LEMMA OpenInvHolds == Spec => []OpenInv
  BY OpenInit, OpenNext, PTL DEF Spec

(* Db.open, _migrate_to_era2, _migrate_to_era3: a file stamped with the    *)
(* current era has every column, every time in nanoseconds (scaled once,   *)
(* but for those before 1970-01-12), no index against links, and every     *)
(* edge its name, whoever migrated it beside whom and died over it.        *)
THEOREM StampIsHonest == Spec => []EraHonest
<1>1. OpenInv => EraHonest
  BY DEF OpenInv, TypeInv, StampInv, Vouched, Migrated, OnlyEarly, EraHonest, SchemaEra
<1> QED BY <1>1, OpenInvHolds, PTL

(* Db.open: a connection that serves has every trigger and view of the     *)
(* current schema, unless another was upgrading the file in its life.      *)
THEOREM GuardsAreUp == Spec => []GuardsUp
<1>1. OpenInv => GuardsUp
  <2> SUFFICES ASSUME OpenInv, NEW p \in Procs, Serving(p), ~conn[p].beside, NEW o \in Objects
               PROVE  derived[o] = SchemaEra
    BY DEF GuardsUp
  <2>1. conn[p].plan = <<>> /\ Left(p) = {}
    BY DEF Serving, Left, Holds
  <2>2. Planned(p)
    BY <2>1 DEF Serving, Planned, NewPlan
  <2>3. Drops(p) /\ Makes(p)
    BY <2>2 DEF OpenInv, GuardInv
  <2> QED BY <2>1, <2>3 DEF Drops, Makes, Outdated
<1> QED BY <1>1, OpenInvHolds, PTL

(* create_monotonic, MonotonicMint and _flush_watermarks: the ids of a     *)
(* connection rise and lie above what it was fenced by, through clocks     *)
(* that go back, refused transactions and any number of other connections. *)
THEOREM IdsDoRise == Spec => []IdsRise
<1>1. OpenInv => IdsRise
  <2> SUFFICES ASSUME OpenInv, NEW p \in Procs, Serving(p), NEW i \in DOMAIN conn[p].made
               PROVE  /\ \A r \in conn[p].floor : Above(conn[p].made[i], r.id)
                      /\ \A r \in ids : r.by = conn[p].number => Above(conn[p].made[i], r.id)
                      /\ \A j \in 1..(i - 1) : Above(conn[p].made[i], conn[p].made[j])
    BY DEF IdsRise
  <2>1. conn[p] # None /\ Rises(p) /\ TypeInv
    BY DEF OpenInv, MintInv, Serving
  <2>2. i \in 1..Len(conn[p].made)
    BY <2>1, MintFields
  <2> QED BY <2>1, <2>2 DEF Rises
<1> QED BY <1>1, OpenInvHolds, PTL
====
