--------------------------- MODULE TeamPlanProofs ---------------------------
(***************************************************************************)
(* Proofs about the judgement of a plan, for every list of task keys: a    *)
(* plan that _create_team accepts is the graph that TeamGraph assumes, and *)
(* its refusals for a cycle or for the limit are justified.                *)
(*                                                                         *)
(* PInv says what holds between the steps.  While _topological_order       *)
(* sorts, the tasks queued or in order are exactly those all of whose      *)
(* dependencies are in order; so when the queue is empty, those left out   *)
(* wait for each other.  While the ancestors are collected, those of each  *)
(* task gone through are the tasks that it waits for, directly or not.     *)
(*                                                                         *)
(* The order has a first and a last of any tasks, by the well-foundedness  *)
(* of the natural numbers: that takes the place of induction.              *)
(***************************************************************************)
EXTENDS TeamPlan, FiniteSetTheorems, TLAPS

-----------------------------------------------------------------------------
(* Sets of numbers and sequences without repetition.                       *)

(* A set of natural numbers that is not empty has a least element.         *)
LEMMA LeastNumber ==
  ASSUME NEW S \in SUBSET Nat, S # {}
  PROVE  \E m \in S : \A k \in S : m <= k
<1>1. IsWellFoundedOn(OpToRel(<, Nat), Nat)
  BY NatLessThanWellFounded
<1>2. PICK m \in S : \A k \in S : <<k, m>> \notin OpToRel(<, Nat)
  BY <1>1, WFMin
<1>3. \A k \in S : ~ (k < m)
  BY <1>2 DEF OpToRel
<1> QED
  BY <1>3

(* A bounded one has a greatest element.                                   *)
LEMMA GreatestNumber ==
  ASSUME NEW S \in SUBSET Nat, S # {}, NEW b \in Nat, \A k \in S : k <= b
  PROVE  \E m \in S : \A k \in S : k <= m
<1> DEFINE D == {b - k : k \in S}
<1>1. D \in SUBSET Nat /\ D # {}
  <2>1. \A k \in S : b - k \in Nat
    OBVIOUS
  <2>2. D # {}
    OBVIOUS
  <2> QED
    BY <2>1, <2>2
<1>2. PICK d \in D : \A k \in D : d <= k
  BY <1>1, LeastNumber
<1>3. PICK m \in S : d = b - m
  BY <1>2
<1>4. ASSUME NEW k \in S PROVE k <= m
  <2>1. d <= b - k
    BY <1>2
  <2> QED
    BY <2>1, <1>3
<1> QED
  BY <1>4

\* The sequences of different elements of S.
Lists(S) == {s \in Seq(S) : \A i, j \in 1..Len(s) : s[i] = s[j] => i = j}

LEMMA Elements ==
  ASSUME NEW S, NEW s \in Seq(S)
  PROVE  /\ ToSet(s) = {s[i] : i \in 1..Len(s)}
         /\ ToSet(s) \subseteq S
         /\ Len(s) \in Nat
         /\ s \in [1..Len(s) -> S]
BY DEF ToSet

(* A list has as many elements as it is long.                              *)
LEMMA ListCardinality ==
  ASSUME NEW S, NEW s \in Lists(S)
  PROVE  IsFiniteSet(ToSet(s)) /\ Cardinality(ToSet(s)) = Len(s)
<1>1. s \in Seq(S) /\ Len(s) \in Nat
  BY DEF Lists
<1>2. ToSet(s) = {s[i] : i \in 1..Len(s)} /\ s \in [1..Len(s) -> S]
  BY <1>1, Elements
<1>3. s \in Bijection(1..Len(s), ToSet(s))
  BY <1>1, <1>2 DEF Lists, Bijection, Injection, Surjection, IsInjective
<1>4. IsFiniteSet(1..Len(s)) /\ Cardinality(1..Len(s)) = Len(s)
  BY <1>1, FS_Interval
<1>5. ExistsBijection(1..Len(s), ToSet(s))
  BY <1>3 DEF ExistsBijection
<1> QED
  BY <1>4, <1>5, FS_Bijection

LEMMA FunctionIsSequence ==
  ASSUME NEW S, NEW n \in Nat, NEW s \in [1..n -> S]
  PROVE  s \in Seq(S)
OBVIOUS

(* Append, Head and Tail, and one list after another.                      *)
LEMMA AppendList ==
  ASSUME NEW S, NEW s \in Lists(S), NEW x \in S, x \notin ToSet(s)
  PROVE  /\ Append(s, x) \in Lists(S)
         /\ ToSet(Append(s, x)) = ToSet(s) \cup {x}
         /\ Len(Append(s, x)) = Len(s) + 1
         /\ \A i \in 1..Len(s) : Append(s, x)[i] = s[i]
         /\ Append(s, x)[Len(s) + 1] = x
<1> DEFINE a == Append(s, x)
<1>1. s \in Seq(S) /\ a \in Seq(S) /\ Len(s) \in Nat /\ Len(a) = Len(s) + 1
  BY DEF Lists
<1>2. (\A i \in 1..Len(s) : a[i] = s[i]) /\ a[Len(s) + 1] = x
  BY <1>1
<1>3. ToSet(s) = {s[i] : i \in 1..Len(s)} /\ ToSet(a) = {a[i] : i \in 1..Len(a)}
  BY <1>1, Elements
<1> HIDE DEF a
<1>4. ToSet(a) = ToSet(s) \cup {x}
  BY <1>1, <1>2, <1>3
<1>5. \A i \in 1..Len(s) : s[i] # x
  BY <1>3
<1>6. a \in Lists(S)
  BY <1>1, <1>2, <1>5 DEF Lists
<1> QED
  BY <1>1, <1>2, <1>4, <1>6 DEF a

LEMMA TailList ==
  ASSUME NEW S, NEW s \in Lists(S), s # <<>>
  PROVE  /\ Head(s) \in ToSet(s)
         /\ Tail(s) \in Lists(S)
         /\ ToSet(Tail(s)) = ToSet(s) \ {Head(s)}
<1> DEFINE q == Tail(s)
<1>1. s \in Seq(S) /\ q \in Seq(S) /\ Len(s) \in Nat /\ Len(s) > 0 /\ Len(q) = Len(s) - 1
  BY DEF Lists
<1>2. (\A i \in 1..Len(q) : q[i] = s[i + 1]) /\ Head(s) = s[1]
  BY <1>1
<1>3. ToSet(s) = {s[i] : i \in 1..Len(s)} /\ ToSet(q) = {q[i] : i \in 1..Len(q)}
  BY <1>1, Elements
<1>4. \A i, j \in 1..Len(s) : s[i] = s[j] => i = j
  BY DEF Lists
<1> HIDE DEF q
<1>5. Head(s) \in ToSet(s)
  BY <1>1, <1>2, <1>3
<1>6. ToSet(q) \subseteq ToSet(s) \ {Head(s)}
  <2> SUFFICES ASSUME NEW i \in 1..Len(q) PROVE q[i] \in ToSet(s) /\ q[i] # Head(s)
    BY <1>3
  <2>1. i + 1 \in 1..Len(s) /\ 1 \in 1..Len(s) /\ i + 1 # 1 /\ q[i] = s[i + 1]
    BY <1>1, <1>2
  <2> QED
    BY <2>1, <1>2, <1>3, <1>4
<1>7. ToSet(s) \ {Head(s)} \subseteq ToSet(q)
  <2> SUFFICES ASSUME NEW i \in 1..Len(s), i # 1 PROVE s[i] \in ToSet(q)
    BY <1>2, <1>3
  <2>1. i - 1 \in 1..Len(q) /\ q[i - 1] = s[i]
    BY <1>1, <1>2
  <2> QED
    BY <2>1, <1>3
<1>8. q \in Lists(S)
  BY <1>1, <1>2, <1>4 DEF Lists
<1> QED
  BY <1>5, <1>6, <1>7, <1>8 DEF q

LEMMA JoinLists ==
  ASSUME NEW S, NEW s \in Lists(S), NEW u \in Lists(S), ToSet(s) \cap ToSet(u) = {}
  PROVE  s \o u \in Lists(S) /\ ToSet(s \o u) = ToSet(s) \cup ToSet(u)
<1> DEFINE q == s \o u
<1>1. /\ s \in Seq(S) /\ u \in Seq(S) /\ q \in Seq(S)
      /\ Len(s) \in Nat /\ Len(u) \in Nat /\ Len(q) = Len(s) + Len(u)
  BY DEF Lists
<1>2. /\ \A i \in 1..Len(s) : q[i] = s[i]
      /\ \A i \in 1..Len(q) : i > Len(s) => q[i] = u[i - Len(s)] /\ i - Len(s) \in 1..Len(u)
  BY <1>1
<1>3. /\ ToSet(s) = {s[i] : i \in 1..Len(s)} /\ ToSet(u) = {u[i] : i \in 1..Len(u)}
      /\ ToSet(q) = {q[i] : i \in 1..Len(q)}
  BY <1>1, Elements
<1>4. /\ \A i, j \in 1..Len(s) : s[i] = s[j] => i = j
      /\ \A i, j \in 1..Len(u) : u[i] = u[j] => i = j
  BY DEF Lists
<1>5. \A i \in 1..Len(u) : i + Len(s) \in 1..Len(q) /\ i + Len(s) > Len(s) /\ q[i + Len(s)] = u[i]
  BY <1>1
<1> HIDE DEF q
<1>6. ToSet(q) \subseteq ToSet(s) \cup ToSet(u)
  <2> SUFFICES ASSUME NEW i \in 1..Len(q) PROVE q[i] \in ToSet(s) \cup ToSet(u)
    BY <1>3
  <2>1. i \in 1..Len(s) \/ i > Len(s)
    BY <1>1
  <2> QED
    BY <2>1, <1>2, <1>3
<1>7. ToSet(s) \cup ToSet(u) \subseteq ToSet(q)
  <2>1. ASSUME NEW i \in 1..Len(s) PROVE s[i] \in ToSet(q)
    <3>1. i \in 1..Len(q)
      BY <1>1
    <3> QED
      BY <3>1, <1>2, <1>3
  <2>2. ASSUME NEW i \in 1..Len(u) PROVE u[i] \in ToSet(q)
    BY <1>3, <1>5
  <2> QED
    BY <2>1, <2>2, <1>3
<1>8. ASSUME NEW i \in 1..Len(q), NEW j \in 1..Len(q), q[i] = q[j] PROVE i = j
  <2>1. CASE i <= Len(s) /\ j <= Len(s)
    BY <2>1, <1>1, <1>2, <1>4, <1>8
  <2>2. CASE i > Len(s) /\ j > Len(s)
    <3>1. i - Len(s) = j - Len(s)
      BY <2>2, <1>2, <1>4, <1>8
    <3> QED
      BY <3>1, <1>1
  <2>3. CASE i <= Len(s) /\ j > Len(s)
    <3>1. q[i] \in ToSet(s) /\ q[j] \in ToSet(u)
      BY <2>3, <1>1, <1>2, <1>3
    <3> QED
      BY <3>1, <1>8
  <2>4. CASE i > Len(s) /\ j <= Len(s)
    <3>1. q[j] \in ToSet(s) /\ q[i] \in ToSet(u)
      BY <2>4, <1>1, <1>2, <1>3
    <3> QED
      BY <3>1, <1>8
  <2> QED
    BY <2>1, <2>2, <2>3, <2>4, <1>1
<1>9. q \in Lists(S)
  BY <1>1, <1>8 DEF Lists
<1> QED
  BY <1>6, <1>7, <1>9 DEF q

-----------------------------------------------------------------------------
(* The order of the rows.                                                  *)

AllKeys == ToSet(Keys) \cup {AutoKey}
RowsOK  == rows \in Lists(AllKeys)

(* The tasks are finitely many, and a place is a number of a row.          *)
LEMMA Places ==
  ASSUME RowsOK
  PROVE  /\ Len(rows) \in Nat /\ IsFiniteSet(Tasks) /\ Cardinality(Tasks) = Len(rows)
         /\ \A t \in Tasks : Place(t) \in 1..Len(rows) /\ rows[Place(t)] = t
<1>1. rows \in Seq(AllKeys) /\ Len(rows) \in Nat
  BY DEF RowsOK, Lists
<1>2. Tasks = {rows[i] : i \in 1..Len(rows)}
  BY <1>1, Elements DEF Tasks
<1>3. IsFiniteSet(Tasks) /\ Cardinality(Tasks) = Len(rows)
  BY ListCardinality DEF RowsOK, Tasks
<1>4. ASSUME NEW t \in Tasks PROVE Place(t) \in 1..Len(rows) /\ rows[Place(t)] = t
  <2>1. \E i \in 1..Len(rows) : rows[i] = t
    BY <1>2
  <2> QED
    BY <2>1 DEF Place
<1> QED
  BY <1>1, <1>3, <1>4

Ordered(q, S) ==
  /\ q \in [1..Cardinality(S) -> S]
  /\ \A i, j \in 1..Cardinality(S) : i < j => Place(q[i]) < Place(q[j])

(* One more element, behind all others.                                    *)
LEMMA OneMore ==
  ASSUME RowsOK, NEW S \in SUBSET Tasks, NEW m \in S, \A t \in S : Place(t) <= Place(m),
         NEW q, Ordered(q, S \ {m})
  PROVE  \E p : Ordered(p, S)
<1> DEFINE n == Cardinality(S)
           p == [i \in 1..n |-> IF i = n THEN m ELSE q[i]]
<1>1. IsFiniteSet(S) /\ n \in Nat
  BY Places, FS_Subset, FS_CardinalityType
<1>2. Cardinality(S \ {m}) = n - 1 /\ n - 1 \in Nat
  <2>1. IsFiniteSet(S \ {m}) /\ Cardinality(S \ {m}) = n - 1
    BY <1>1, FS_RemoveElement
  <2>2. Cardinality(S \ {m}) \in Nat
    BY <2>1, FS_CardinalityType
  <2> QED
    BY <2>1, <2>2
<1>3. /\ q \in [1..(n - 1) -> S \ {m}]
      /\ \A i, j \in 1..(n - 1) : i < j => Place(q[i]) < Place(q[j])
  BY <1>2 DEF Ordered
<1> HIDE DEF n
<1>4. p \in [1..n -> S]
  BY <1>1, <1>2, <1>3
<1>5. ASSUME NEW i \in 1..n, NEW j \in 1..n, i < j PROVE Place(p[i]) < Place(p[j])
  <2>1. i \in 1..(n - 1) /\ p[i] = q[i] /\ q[i] \in S \ {m}
    BY <1>1, <1>2, <1>3, <1>5
  <2>2. CASE j < n
    BY <2>1, <2>2, <1>1, <1>3, <1>5
  <2>3. CASE j = n
    <3>1. Place(q[i]) <= Place(m) /\ rows[Place(q[i])] # rows[Place(m)]
      BY <2>1, Places
    <3>2. Place(q[i]) \in Nat /\ Place(m) \in Nat
      BY <2>1, Places
    <3>3. p[j] = m
      BY <2>3
    <3> QED
      BY <2>1, <3>1, <3>2, <3>3
  <2> QED
    BY <2>2, <2>3, <1>1
<1>6. Ordered(p, S)
  BY <1>4, <1>5 DEF n, Ordered
<1> QED
  BY <1>6

(* Every set of tasks can be put in the order of the rows.  A smallest set *)
(* without such an order would lack it also without its last task.         *)
LEMMA OrderExists ==
  ASSUME RowsOK, NEW S \in SUBSET Tasks
  PROVE  \E q : Ordered(q, S)
<1> DEFINE Bad  == {T \in SUBSET Tasks : ~ \E q : Ordered(q, T)}
           Size == {Cardinality(T) : T \in Bad}
<1> SUFFICES ASSUME Bad # {} PROVE FALSE
  OBVIOUS
<1>1. \A T \in SUBSET Tasks : IsFiniteSet(T) /\ Cardinality(T) \in Nat
  BY Places, FS_Subset, FS_CardinalityType
<1>2. Size \in SUBSET Nat /\ Size # {}
  BY <1>1
<1>3. PICK n \in Size : \A k \in Size : n <= k
  BY <1>2, LeastNumber
<1>4. PICK T \in Bad : Cardinality(T) = n
  BY <1>3
<1>5. T # {}
  <2> SUFFICES ASSUME T = {} PROVE FALSE
    OBVIOUS
  <2>1. Cardinality(T) = 0
    BY FS_EmptySet
  <2>2. Ordered([i \in 1..0 |-> i], T)
    BY <2>1 DEF Ordered
  <2> QED
    BY <2>2, <1>4
<1>6. \E m \in T : \A t \in T : Place(t) <= Place(m)
  <2> DEFINE P == {Place(t) : t \in T}
  <2>1. P \in SUBSET Nat /\ P # {} /\ Len(rows) \in Nat /\ \A k \in P : k <= Len(rows)
    BY <1>5, Places
  <2>2. PICK k \in P : \A l \in P : l <= k
    BY <2>1, GreatestNumber
  <2> QED
    BY <2>2
<1>7. PICK m \in T : \A t \in T : Place(t) <= Place(m)
  BY <1>6
<1>8. T \ {m} \in SUBSET Tasks /\ Cardinality(T \ {m}) = n - 1 /\ n \in Nat
  BY <1>1, <1>4, FS_RemoveElement
<1>9. T \ {m} \notin Bad
  <2> SUFFICES ASSUME T \ {m} \in Bad PROVE FALSE
    OBVIOUS
  <2>1. n - 1 \in Size
    BY <1>8
  <2> QED
    BY <2>1, <1>3, <1>8
<1>10. PICK q : Ordered(q, T \ {m})
  BY <1>8, <1>9
<1>11. \E p : Ordered(p, T)
  BY <1>7, <1>10, OneMore
<1> QED
  BY <1>4, <1>11

(* InOrder lists the tasks of a set, each of them once.                    *)
LEMMA InOrderLists ==
  ASSUME RowsOK, NEW S \in SUBSET Tasks
  PROVE  InOrder(S) \in Lists(S) /\ ToSet(InOrder(S)) = S
<1> DEFINE n == Cardinality(S)
           q == InOrder(S)
<1>1. IsFiniteSet(S) /\ n \in Nat
  BY Places, FS_Subset, FS_CardinalityType
<1>2. Ordered(q, S)
  <2>1. PICK p : Ordered(p, S)
    BY OrderExists
  <2> QED
    BY <2>1 DEF InOrder, Ordered
<1> HIDE DEF q
<1>3. q \in [1..n -> S]
  BY <1>2 DEF Ordered
<1>4. q \in Seq(S) /\ Len(q) = n
  BY <1>1, <1>3
<1>5. ASSUME NEW i \in 1..n, NEW j \in 1..n, q[i] = q[j] PROVE i = j
  <2>1. ~(i < j) /\ ~(j < i)
    <3>1. Place(q[i]) \in Nat
      BY <1>3, Places
    <3> QED
      BY <3>1, <1>2, <1>5 DEF Ordered
  <2> QED
    BY <2>1, <1>1
<1>6. q \in Lists(S)
  BY <1>4, <1>5 DEF Lists
<1>7. ToSet(q) = S
  <2>1. IsFiniteSet(ToSet(q)) /\ Cardinality(ToSet(q)) = n
    BY <1>4, <1>6, ListCardinality
  <2>2. ToSet(q) \in SUBSET S
    BY <1>4, Elements
  <2> QED
    BY <2>1, <2>2, <1>1, FS_Subset
<1> QED
  BY <1>6, <1>7 DEF q

-----------------------------------------------------------------------------
(* What holds between the steps.                                           *)

PlanTypes ==
  /\ RowsOK
  /\ hired \subseteq Roles
  /\ role \in [Tasks -> Roles]
  /\ deps \in [Tasks -> SUBSET AllKeys]
  /\ phase \in {"normalize", "shape", "sort", "trace", "end"}
  /\ phase # "end" => verdict = "open"
  /\ phase = "normalize" => AutoKey \notin Tasks
  /\ phase \in {"normalize", "shape"} => ordered = <<>>
  /\ phase \in {"normalize", "shape", "sort"} => ancestors = <<>>

\* What _topological_order has checked before it sorts.
Shaped == Workers # {} /\ \A t \in Tasks : deps[t] \subseteq Tasks

\* A task comes after all tasks it depends on.
Sorted ==
  \A i \in 1..Len(ordered) : \A d \in deps[ordered[i]] : \E j \in 1..(i - 1) : d = ordered[j]

\* Queued or put in order are the tasks all of whose dependencies are in order.
SortOK ==
  /\ ordered \in Lists(Tasks) /\ queue \in Lists(Tasks)
  /\ ToSet(ordered) \cap ToSet(queue) = {}
  /\ \A t \in Tasks : indegree[t] = Cardinality(deps[t] \ ToSet(ordered))
  /\ \A t \in Tasks : t \in ToSet(ordered) \cup ToSet(queue) <=> deps[t] \subseteq ToSet(ordered)

AllSorted == ordered \in Lists(Tasks) /\ ToSet(ordered) = Tasks /\ Sorted

Traced == Cardinality(DOMAIN ancestors)

\* The tasks gone through are the first of the order; of each of them all tasks
\* that it waits for are known.
TraceOK ==
  /\ Traced \in 0..Len(ordered)
  /\ DOMAIN ancestors = {ordered[j] : j \in 1..Traced}
  /\ \A t \in DOMAIN ancestors : \A u \in Tasks : u \in ancestors[t] <=> t \in Waiting(u)

PInv ==
  /\ PlanTypes
  /\ phase = "sort" => Shaped /\ SortOK /\ Sorted
  /\ phase = "trace" => Shaped /\ AllSorted /\ TraceOK

(* The verdicts are right.                                                 *)
Judged == AcceptedIsGraph /\ CycleIsReal /\ EveryResultReachesVerification /\ LimitIsFair

-----------------------------------------------------------------------------
(* What the order of the tasks gives.                                      *)

(* Who waits for u: those that depend on u, and those that depend on one   *)
(* who waits.                                                              *)
LEMMA WhoWaits ==
  ASSUME NEW u
  PROVE  \A t : t \in Waiting(u) <=>
           /\ t \in Tasks
           /\ u \in deps[t] \/ \E d \in deps[t] : d \in Waiting(u)
<1> DEFINE W == Waiting(u)
           G == Children(u) \cup UNION {Children(s) : s \in W}
           Closed(S) == Children(u) \cup UNION {Children(s) : s \in S} \subseteq S
<1>1. W = {t \in Tasks : \A S \in SUBSET Tasks : Closed(S) => t \in S}
  BY DEF Waiting
<1>2. \A s : Children(s) \subseteq Tasks
  BY DEF Children
<1> HIDE DEF W, Closed
<1>3. G \subseteq W
  <2> SUFFICES ASSUME NEW c \in G, NEW S \in SUBSET Tasks, Closed(S) PROVE c \in S
    BY <1>1, <1>2
  <2>1. W \subseteq S
    BY <1>1
  <2> QED
    BY <2>1 DEF Closed
<1>4. G \in SUBSET Tasks /\ Closed(G)
  BY <1>2, <1>3 DEF Closed
<1>5. W \subseteq G
  BY <1>1, <1>4
<1>6. W = G
  BY <1>3, <1>5
<1>7. \A t : t \in G <=> t \in Tasks /\ (u \in deps[t] \/ \E d \in deps[t] : d \in W)
  BY DEF Children
<1> QED
  BY <1>6, <1>7 DEF W

(* Any set of tasks has a last one in the order.                           *)
LEMMA LastOf ==
  ASSUME AllSorted, NEW S \in SUBSET Tasks, S # {}
  PROVE  \E t \in S : Children(t) \cap S = {}
<1>1. ordered \in Seq(Tasks) /\ Len(ordered) \in Nat /\ Tasks = {ordered[i] : i \in 1..Len(ordered)}
  BY Elements DEF AllSorted, Lists
<1> DEFINE I == {i \in 1..Len(ordered) : ordered[i] \in S}
<1>2. I \in SUBSET Nat /\ I # {} /\ \A k \in I : k <= Len(ordered)
  BY <1>1
<1>3. PICK m \in I : \A k \in I : k <= m
  BY <1>1, <1>2, GreatestNumber
<1>4. ASSUME NEW c \in Children(ordered[m]), c \in S PROVE FALSE
  <2>1. PICK i \in 1..Len(ordered) : c = ordered[i]
    BY <1>1, <1>4
  <2>2. ordered[m] \in deps[ordered[i]]
    BY <1>4, <2>1 DEF Children
  <2>3. PICK j \in 1..(i - 1) : ordered[m] = ordered[j]
    BY <2>1, <2>2 DEF AllSorted, Sorted
  <2>4. j = m
    BY <2>1, <2>3, <1>1, <1>3 DEF AllSorted, Lists
  <2>5. i \in I /\ ~(i <= m)
    BY <2>1, <2>3, <2>4, <1>1, <1>4
  <2> QED
    BY <2>5, <1>3
<1> QED
  BY <1>3, <1>4

(* The places in the order number the tasks as they wait for each other.   *)
LEMMA SortedIsAcyclic ==
  ASSUME AllSorted, Shaped
  PROVE  Acyclic
<1>1. /\ ordered \in Seq(Tasks) /\ Len(ordered) \in Nat
      /\ Tasks = {ordered[i] : i \in 1..Len(ordered)}
      /\ \A i, j \in 1..Len(ordered) : ordered[i] = ordered[j] => i = j
  BY Elements DEF AllSorted, Lists
<1>2. Cardinality(Tasks) = Len(ordered)
  BY ListCardinality DEF AllSorted
<1> DEFINE rank == [t \in Tasks |-> CHOOSE i \in 1..Len(ordered) : ordered[i] = t]
<1>3. \A t \in Tasks : rank[t] \in 1..Len(ordered) /\ ordered[rank[t]] = t
  <2> SUFFICES ASSUME NEW t \in Tasks PROVE rank[t] \in 1..Len(ordered) /\ ordered[rank[t]] = t
    OBVIOUS
  <2>1. \E i \in 1..Len(ordered) : ordered[i] = t
    BY <1>1
  <2> QED
    BY <2>1
<1>4. rank \in [Tasks -> 1..Cardinality(Tasks)]
  BY <1>2, <1>3
<1> HIDE DEF rank
<1>5. ASSUME NEW t \in Tasks, NEW d \in deps[t] PROVE rank[d] < rank[t]
  <2>1. PICK i \in 1..Len(ordered) : i = rank[t] /\ ordered[i] = t
    BY <1>3
  <2>2. PICK j \in 1..(i - 1) : d = ordered[j]
    BY <2>1 DEF AllSorted, Sorted
  <2>3. j \in 1..Len(ordered) /\ j < i
    BY <1>1
  <2>4. d \in Tasks
    BY <2>2, <2>3, <1>1
  <2>5. rank[d] = j
    BY <2>2, <2>3, <2>4, <1>1, <1>3
  <2> QED
    BY <2>1, <2>3, <2>5
<1> QED
  BY <1>4, <1>5 DEF Acyclic

(* A result that someone takes reaches a task that nobody waits for: the   *)
(* last one, in the order, of those that wait for it.                      *)
LEMMA ReachesLeaf ==
  ASSUME AllSorted, NEW w \in Tasks, Children(w) # {}
  PROVE  \E v \in Waiting(w) : v \in Leaves
<1>1. Waiting(w) \in SUBSET Tasks /\ Waiting(w) # {}
  <2>1. PICK c \in Tasks : w \in deps[c]
    BY DEF Children
  <2> QED
    BY <2>1, WhoWaits
<1>2. PICK v \in Waiting(w) : Children(v) \cap Waiting(w) = {}
  BY <1>1, LastOf
<1>3. Children(v) \subseteq Waiting(w)
  BY WhoWaits DEF Children
<1> QED
  BY <1>1, <1>2, <1>3 DEF Leaves

-----------------------------------------------------------------------------
(* The steps that complete and check the plan.                             *)

LEMMA PlanInit == ASSUME Init PROVE PInv /\ Judged
<1>1. PICK n \in 1..Len(Keys) : rows = SubSeq(Keys, 1, n)
  BY DEF Init
<1>2. Keys \in Seq(STRING) /\ Len(Keys) \in Nat
  BY PlanAssumption
<1>3. ToSet(Keys) = {Keys[i] : i \in 1..Len(Keys)}
  BY <1>2, Elements
<1>4. Len(rows) = n /\ (\A i \in 1..n : rows[i] = Keys[i]) /\ rows \in Seq(STRING)
  BY <1>1, <1>2
<1>5. rows \in [1..n -> ToSet(Keys)]
  <2>1. \A i \in 1..n : rows[i] \in ToSet(Keys)
    BY <1>2, <1>3, <1>4
  <2>2. rows \in [1..n -> STRING]
    BY <1>4
  <2> QED
    BY <2>1, <2>2
<1>6. rows \in Lists(ToSet(Keys))
  <2>1. rows \in Seq(ToSet(Keys))
    BY <1>2, <1>5, FunctionIsSequence
  <2>2. \A i, j \in 1..n : Keys[i] = Keys[j] => i = j
    BY <1>2, PlanAssumption DEF IsInjective
  <2> QED
    BY <2>1, <2>2, <1>4 DEF Lists
<1>7. RowsOK /\ Tasks \subseteq ToSet(Keys)
  <2>1. rows \in Seq(ToSet(Keys)) /\ rows \in Seq(AllKeys)
    <3>1. rows \in [1..n -> AllKeys]
      BY <1>5 DEF AllKeys
    <3> QED
      BY <3>1, <1>2, <1>5, FunctionIsSequence
  <2>2. Tasks \subseteq ToSet(Keys)
    BY <2>1, Elements DEF Tasks
  <2> QED
    BY <2>1, <2>2, <1>6 DEF RowsOK, Lists
<1>8. AutoKey \notin Tasks
  BY <1>7, PlanAssumption
<1>9. hired \subseteq Roles /\ role \in [Tasks -> Roles] /\ deps \in [Tasks -> SUBSET AllKeys]
  BY DEF Init, AllKeys
<1>10. PlanTypes
  BY <1>7, <1>8, <1>9 DEF PlanTypes, Init
<1> QED
  BY <1>10 DEF PInv, Judged, Init, AcceptedIsGraph, CycleIsReal,
               EveryResultReachesVerification, LimitIsFair

(* Nothing is said of a plan that is still open.                           *)
LEMMA OpenIsJudged ==
  ASSUME verdict' \notin {"accepted", "cycle", "limit_too_low"}
  PROVE  Judged'
BY DEF Judged, AcceptedIsGraph, CycleIsReal, EveryResultReachesVerification, LimitIsFair

LEMMA AddSummaryStep ==
  ASSUME PInv, AddSummary
  PROVE  PInv' /\ Judged'
<1>1. /\ PlanTypes /\ phase = "normalize" /\ verdict = "open" /\ AutoKey \notin Tasks
      /\ UNCHANGED <<full, limit, queue, indegree, ordered, ancestors>>
      /\ ordered = <<>> /\ ancestors = <<>>
  BY DEF PInv, PlanTypes, AddSummary, sorting
<1>2. CASE verdict' # "open"
  <2>1. UNCHANGED <<rows, role, deps, hired>> /\ verdict' = "too_many_members" /\ phase' = "end"
    BY <1>1, <1>2 DEF AddSummary, Judge, graph
  <2>2. PlanTypes'
    BY <1>1, <2>1 DEF PlanTypes, RowsOK, Tasks
  <2> QED
    BY <2>1, <2>2, OpenIsJudged DEF PInv
<1>3. CASE verdict' = "open"
  <2>1. /\ rows' = Append(rows, AutoKey)
        /\ hired' = IF hired \cap Verification = {} THEN hired \cup {"summarizer"} ELSE hired
        /\ \E r \in hired' \cap Verification : role' = With(role, AutoKey, r)
        /\ deps' = With(deps, AutoKey, Leaves)
        /\ phase' = "shape"
    BY <1>3 DEF AddSummary, Judge
  <2>2. AutoKey \in AllKeys /\ rows \in Lists(AllKeys)
    BY <1>1 DEF AllKeys, PlanTypes, RowsOK
  <2>3. rows' \in Lists(AllKeys) /\ Tasks' = Tasks \cup {AutoKey}
    BY <1>1, <2>1, <2>2, AppendList DEF Tasks
  <2>4. hired' \subseteq Roles
    BY <1>1, <2>1 DEF PlanTypes, Roles
  <2>5. role' \in [Tasks' -> Roles]
    <3>1. PICK r \in Roles : role' = With(role, AutoKey, r)
      BY <2>1, <2>4
    <3>2. role \in [Tasks -> Roles]
      BY <1>1 DEF PlanTypes
    <3> QED
      BY <3>1, <3>2, <2>3 DEF With
  <2>6. deps' \in [Tasks' -> SUBSET AllKeys]
    <3>1. deps \in [Tasks -> SUBSET AllKeys]
      BY <1>1 DEF PlanTypes
    <3>2. Leaves \subseteq AllKeys
      <4>1. Tasks \subseteq AllKeys
        BY <2>2, Elements DEF Tasks, Lists
      <4> QED
        BY <4>1 DEF Leaves
    <3> QED
      BY <3>1, <3>2, <2>1, <2>3 DEF With
  <2>7. PlanTypes'
    BY <1>1, <1>3, <2>1, <2>3, <2>4, <2>5, <2>6 DEF PlanTypes, RowsOK
  <2> QED
    BY <1>3, <2>1, <2>7, OpenIsJudged DEF PInv
<1> QED
  BY <1>2, <1>3

LEMMA CoverLeavesStep ==
  ASSUME PInv, CoverLeaves
  PROVE  PInv' /\ Judged'
<1>1. /\ PlanTypes /\ phase = "normalize" /\ verdict = "open"
      /\ UNCHANGED <<hired, full, limit, rows, role, verdict, queue, indegree, ordered, ancestors>>
      /\ phase' = "shape" /\ ordered = <<>> /\ ancestors = <<>>
  BY DEF PInv, PlanTypes, CoverLeaves, sorting, payload
<1>2. Tasks' = Tasks /\ Tasks \subseteq AllKeys
  BY <1>1, Elements DEF Tasks, PlanTypes, RowsOK, Lists
<1>3. Leaves \cap Workers \subseteq AllKeys
  BY <1>2 DEF Leaves
<1>4. deps' \in [Tasks -> SUBSET AllKeys]
  BY <1>1, <1>3 DEF CoverLeaves, PlanTypes
<1>5. PlanTypes'
  BY <1>1, <1>2, <1>4 DEF PlanTypes, RowsOK
<1> QED
  BY <1>1, <1>5, OpenIsJudged DEF PInv

LEMMA CheckShapeStep ==
  ASSUME PInv, CheckShape
  PROVE  PInv' /\ Judged'
<1>1. /\ PlanTypes /\ phase = "shape" /\ verdict = "open"
      /\ UNCHANGED <<hired, full, limit, rows, role, deps, ordered, ancestors>>
      /\ ordered = <<>> /\ ancestors = <<>>
  BY DEF PInv, PlanTypes, CheckShape, payload, graph
<1>2. Tasks' = Tasks
  BY <1>1 DEF Tasks
<1>3. PlanTypes' /\ phase' # "trace"
  BY <1>1, <1>2 DEF PlanTypes, RowsOK, CheckShape, Judge
<1>4. Judged'
  <2>1. CASE verdict' # "cycle"
    <3>1. verdict' \notin {"accepted", "cycle", "limit_too_low"}
      BY <1>1, <2>1 DEF CheckShape, Judge
    <3> QED
      BY <3>1, OpenIsJudged
  <2>2. CASE verdict' = "cycle"
    <3>1. PICK t \in Tasks : t \in deps[t]
      BY <1>1, <2>2 DEF CheckShape, Judge
    <3>2. {t} \in SUBSET Tasks /\ {t} # {} /\ \A s \in {t} : deps[s] \cap {t} # {}
      BY <3>1
    <3>3. CycleIsReal'
      BY <3>2, <1>1, <1>2 DEF CycleIsReal, Knot
    <3> QED
      BY <3>3, <2>2 DEF Judged, AcceptedIsGraph, EveryResultReachesVerification, LimitIsFair
  <2> QED
    BY <2>1, <2>2
<1>5. ASSUME phase' = "sort" PROVE (Shaped /\ SortOK /\ Sorted)'
  <2>1. Workers # {} /\ UNION {deps[t] : t \in Tasks} \subseteq Tasks
    BY <1>1, <1>5 DEF CheckShape, Judge
  <2>2. Shaped'
    BY <1>1, <1>2, <2>1 DEF Shaped, Workers
  <2>3. \A t \in Tasks : IsFiniteSet(deps[t])
    BY <1>1, <2>1, Places, FS_Subset DEF PlanTypes
  <2>4. \A t \in Tasks : indegree'[t] = Cardinality(deps[t])
    BY DEF CheckShape
  <2> DEFINE R == {t \in Tasks : Cardinality(deps[t]) = 0}
  <2>5. queue' = InOrder(R)
    <3>1. queue' = InOrder({t \in Tasks : [u \in Tasks |-> Cardinality(deps[u])][t] = 0})
      BY DEF CheckShape
    <3>2. {t \in Tasks : [u \in Tasks |-> Cardinality(deps[u])][t] = 0} = R
      OBVIOUS
    <3> QED
      BY <3>1, <3>2
  <2>6. queue' \in Lists(R) /\ ToSet(queue') = R
    BY <1>1, <2>5, InOrderLists DEF PlanTypes
  <2>7. R = {t \in Tasks : deps[t] \subseteq {}}
    BY <2>3, FS_EmptySet
  <2>8. ordered' = <<>> /\ <<>> \in Lists(Tasks) /\ ToSet(<<>>) = {}
    BY <1>1 DEF Lists, ToSet
  <2>9. queue' \in Lists(Tasks)
    BY <2>6 DEF Lists
  <2> HIDE DEF R
  <2>10. SortOK'
    BY <1>1, <1>2, <2>4, <2>6, <2>7, <2>8, <2>9 DEF SortOK
  <2>11. Sorted'
    BY <2>8 DEF Sorted
  <2> QED
    BY <2>2, <2>10, <2>11
<1> QED
  BY <1>3, <1>4, <1>5 DEF PInv

-----------------------------------------------------------------------------
(* The order: one turn of the loop, and its end.                           *)

LEMMA SortNextStep ==
  ASSUME PInv, SortNext
  PROVE  PInv' /\ Judged'
<1> DEFINE t == Head(queue)
           O == ToSet(ordered)
           Q == ToSet(queue)
           Released == {c \in Children(t) : indegree[c] = 1}
<1>1. /\ PlanTypes /\ Shaped /\ SortOK /\ Sorted /\ verdict = "open"
      /\ phase = "sort" /\ queue # <<>>
      /\ UNCHANGED <<hired, full, limit, rows, role, deps, ancestors, verdict, phase>>
  BY DEF PInv, PlanTypes, SortNext, payload, graph
<1>2. Tasks' = Tasks
  BY <1>1 DEF Tasks
<1>3. /\ ordered' = Append(ordered, t)
      /\ indegree' = [c \in Tasks |-> IF c \in Children(t) THEN indegree[c] - 1 ELSE indegree[c]]
      /\ queue' = Tail(queue) \o InOrder(Released)
  BY DEF SortNext
<1>4. /\ ordered \in Lists(Tasks) /\ queue \in Lists(Tasks) /\ O \cap Q = {}
      /\ \A c \in Tasks : indegree[c] = Cardinality(deps[c] \ O)
      /\ \A c \in Tasks : c \in O \cup Q <=> deps[c] \subseteq O
  BY <1>1 DEF SortOK
<1>5. t \in Q /\ Tail(queue) \in Lists(Tasks) /\ ToSet(Tail(queue)) = Q \ {t}
  BY <1>1, <1>4, TailList
<1>6. t \in Tasks /\ t \notin O /\ deps[t] \subseteq O
  <2>1. Q \subseteq Tasks
    BY <1>4, Elements DEF Lists
  <2> QED
    BY <2>1, <1>4, <1>5
<1>7. /\ ordered' \in Lists(Tasks) /\ ToSet(ordered') = O \cup {t}
      /\ Len(ordered') = Len(ordered) + 1
      /\ \A i \in 1..Len(ordered) : ordered'[i] = ordered[i]
      /\ ordered'[Len(ordered) + 1] = t
  BY <1>3, <1>4, <1>6, AppendList
<1>8. \A c \in Tasks : /\ IsFiniteSet(deps[c] \ O) /\ Cardinality(deps[c] \ O) \in Nat
                       /\ IsFiniteSet(deps[c] \ (O \cup {t}))
                       /\ Cardinality(deps[c] \ (O \cup {t})) \in Nat
  <2>1. \A c \in Tasks : deps[c] \ O \in SUBSET Tasks /\ deps[c] \ (O \cup {t}) \in SUBSET Tasks
    BY <1>1 DEF Shaped
  <2> QED
    BY <2>1, <1>1, Places, FS_Subset, FS_CardinalityType DEF PlanTypes
<1> HIDE DEF t, O, Q
<1>9. \A c \in Tasks : indegree'[c] = Cardinality(deps[c] \ (O \cup {t}))
  <2> SUFFICES ASSUME NEW c \in Tasks PROVE indegree'[c] = Cardinality(deps[c] \ (O \cup {t}))
    OBVIOUS
  <2>1. CASE c \in Children(t)
    <3>1. t \in deps[c] \ O /\ deps[c] \ (O \cup {t}) = (deps[c] \ O) \ {t}
      BY <2>1, <1>6 DEF Children
    <3>2. Cardinality((deps[c] \ O) \ {t}) = Cardinality(deps[c] \ O) - 1
      BY <3>1, <1>8, FS_RemoveElement
    <3> QED
      BY <2>1, <3>1, <3>2, <1>3, <1>4
  <2>2. CASE c \notin Children(t)
    <3>1. deps[c] \ (O \cup {t}) = deps[c] \ O
      BY <2>2 DEF Children
    <3> QED
      BY <2>2, <3>1, <1>3, <1>4
  <2> QED
    BY <2>1, <2>2
<1>10. Released \in SUBSET Tasks /\ Released \cap (O \cup Q) = {}
  <2>1. Released \in SUBSET Tasks
    BY DEF Children
  <2>2. ASSUME NEW c \in Released, c \in O \cup Q PROVE FALSE
    <3>1. deps[c] \ O = {}
      BY <2>1, <2>2, <1>4
    <3>2. indegree[c] = 0
      BY <2>1, <3>1, <1>4, FS_EmptySet
    <3> QED
      BY <3>2, <2>2
  <2> QED
    BY <2>1, <2>2
<1>11. InOrder(Released) \in Lists(Tasks) /\ ToSet(InOrder(Released)) = Released
  <2>1. InOrder(Released) \in Lists(Released) /\ ToSet(InOrder(Released)) = Released
    BY <1>1, <1>10, InOrderLists DEF PlanTypes
  <2> QED
    BY <2>1, <1>10 DEF Lists
<1> HIDE DEF Released
<1>12. queue' \in Lists(Tasks) /\ ToSet(queue') = (Q \ {t}) \cup Released
  <2>1. ToSet(Tail(queue)) \cap ToSet(InOrder(Released)) = {}
    BY <1>5, <1>10, <1>11
  <2> QED
    BY <2>1, <1>3, <1>5, <1>11, JoinLists
<1>13. (O \cup {t}) \cap ((Q \ {t}) \cup Released) = {}
  BY <1>4, <1>5, <1>10
<1>14. ASSUME NEW c \in Tasks
       PROVE  c \in (O \cup {t}) \cup ((Q \ {t}) \cup Released) <=> deps[c] \subseteq O \cup {t}
  <2>1. c \in (O \cup {t}) \cup ((Q \ {t}) \cup Released) <=> c \in O \cup Q \/ c \in Released
    BY <1>5
  <2>2. CASE c \in O \cup Q
    BY <2>1, <2>2, <1>4
  <2>3. CASE c \notin O \cup Q
    <3>1. ~(deps[c] \subseteq O)
      BY <2>3, <1>4
    <3>2. deps[c] \subseteq O \cup {t} <=> deps[c] \ (O \cup {t}) = {}
      OBVIOUS
    <3>3. deps[c] \ (O \cup {t}) = {} <=> indegree'[c] = 0
      BY <1>8, <1>9, FS_EmptySet
    <3>4. deps[c] \subseteq O \cup {t} => c \in Children(t)
      BY <3>1 DEF Children
    <3>5. c \in Children(t) => (indegree'[c] = 0 <=> indegree[c] = 1)
      BY <1>3, <1>4, <1>8
    <3>6. c \in Released <=> c \in Children(t) /\ indegree[c] = 1
      BY DEF Released
    <3> QED
      BY <2>1, <2>3, <3>2, <3>3, <3>4, <3>5, <3>6
  <2> QED
    BY <2>2, <2>3
<1>15. SortOK'
  BY <1>1, <1>2, <1>7, <1>9, <1>12, <1>13, <1>14 DEF SortOK
<1>16. Sorted'
  <2>1. Len(ordered) \in Nat /\ O = {ordered[i] : i \in 1..Len(ordered)}
    BY <1>4, Elements DEF Lists, O
  <2> SUFFICES ASSUME NEW i \in 1..Len(ordered'), NEW d \in deps[ordered'[i]]
               PROVE  \E j \in 1..(i - 1) : d = ordered'[j]
    BY <1>1 DEF Sorted
  <2>2. CASE i <= Len(ordered)
    <3>1. i \in 1..Len(ordered) /\ ordered'[i] = ordered[i]
      BY <2>1, <2>2, <1>7
    <3>2. PICK j \in 1..(i - 1) : d = ordered[j]
      BY <3>1, <1>1 DEF Sorted
    <3>3. j \in 1..Len(ordered)
      BY <3>1, <3>2, <2>1
    <3> QED
      BY <3>2, <3>3, <1>7
  <2>3. CASE i = Len(ordered) + 1
    <3>1. d \in O
      BY <2>3, <1>6, <1>7
    <3>2. PICK j \in 1..Len(ordered) : d = ordered[j]
      BY <3>1, <2>1
    <3>3. j \in 1..(i - 1) /\ d = ordered'[j]
      BY <2>1, <2>3, <3>2, <1>7
    <3> QED
      BY <3>3
  <2> QED
    BY <2>1, <2>2, <2>3, <1>7
<1>17. PlanTypes'
  BY <1>1, <1>2 DEF PlanTypes, RowsOK
<1>18. Shaped'
  BY <1>1, <1>2 DEF Shaped, Workers
<1>19. Judged'
  BY <1>1, OpenIsJudged
<1> QED
  BY <1>1, <1>15, <1>16, <1>17, <1>18, <1>19 DEF PInv

(* When the queue is empty, the order has every task, or those left out     *)
(* wait for each other.                                                    *)
LEMMA SortEndStep ==
  ASSUME PInv, SortEnd
  PROVE  PInv' /\ Judged'
<1> DEFINE O == ToSet(ordered)
<1>1. /\ PlanTypes /\ Shaped /\ SortOK /\ Sorted /\ verdict = "open"
      /\ phase = "sort" /\ queue = <<>> /\ ancestors = <<>>
      /\ UNCHANGED <<hired, full, limit, rows, role, deps, queue, indegree, ordered, ancestors>>
  BY DEF PInv, PlanTypes, SortEnd, payload, graph, sorting
<1>2. Tasks' = Tasks
  BY <1>1 DEF Tasks
<1>3. O \subseteq Tasks /\ Cardinality(O) = Len(ordered) /\ Len(ordered) \in Nat
  BY <1>1, ListCardinality, Elements DEF SortOK, Lists
<1>4. IsFiniteSet(Tasks) /\ Cardinality(Tasks) = Len(rows)
  BY <1>1, Places DEF PlanTypes
<1>5. \A t \in Tasks : t \in O <=> deps[t] \subseteq O
  <2>1. ToSet(queue) = {}
    BY <1>1 DEF ToSet
  <2> QED
    BY <2>1, <1>1 DEF SortOK
<1>6. CASE Len(ordered) # Len(rows)
  <2>1. verdict' = "cycle" /\ phase' = "end"
    BY <1>6 DEF SortEnd, Judge
  <2>2. Tasks \ O # {}
    <3>1. O # Tasks
      BY <1>3, <1>4, <1>6
    <3> QED
      BY <3>1, <1>3
  <2>3. \A t \in Tasks \ O : deps[t] \cap (Tasks \ O) # {}
    BY <1>1, <1>5 DEF Shaped
  <2>4. CycleIsReal'
    BY <2>2, <2>3, <1>1, <1>2 DEF CycleIsReal, Knot
  <2>5. Judged'
    BY <2>1, <2>4 DEF Judged, AcceptedIsGraph, EveryResultReachesVerification, LimitIsFair
  <2>6. PlanTypes'
    BY <2>1, <1>1, <1>2 DEF PlanTypes, RowsOK
  <2> QED
    BY <2>1, <2>5, <2>6 DEF PInv
<1>7. CASE Len(ordered) = Len(rows)
  <2>1. verdict' = "open" /\ phase' = "trace"
    BY <1>1, <1>7 DEF SortEnd, Judge
  <2>2. O = Tasks
    BY <1>3, <1>4, <1>7, FS_Subset
  <2>3. AllSorted'
    BY <2>2, <1>1, <1>2 DEF AllSorted, SortOK, Sorted
  <2>4. TraceOK'
    <3>1. DOMAIN ancestors' = {} /\ Traced' = 0
      BY <1>1, FS_EmptySet DEF Traced
    <3> QED
      BY <3>1, <1>1, <1>3 DEF TraceOK
  <2>5. Shaped'
    BY <1>1, <1>2 DEF Shaped, Workers
  <2>6. PlanTypes'
    BY <2>1, <1>1, <1>2 DEF PlanTypes, RowsOK
  <2> QED
    BY <2>1, <2>3, <2>4, <2>5, <2>6, OpenIsJudged DEF PInv
<1> QED
  BY <1>6, <1>7

-----------------------------------------------------------------------------
(* The ancestors, and the decision.                                        *)

(* Nothing that is said of the graph changes as long as its rows, roles    *)
(* and dependencies stay.                                                  *)
LEMMA SameGraph ==
  ASSUME UNCHANGED <<rows, role, deps>>
  PROVE  /\ Tasks' = Tasks /\ Workers' = Workers /\ Verifiers' = Verifiers /\ Leaves' = Leaves
         /\ \A t : Children(t)' = Children(t) /\ Waiting(t)' = Waiting(t)
         /\ \A S : Knot(S)' = Knot(S)
         /\ Acyclic' = Acyclic
<1>1. Tasks' = Tasks
  BY DEF Tasks
<1>2. \A t : Children(t)' = Children(t)
  BY <1>1 DEF Children
<1>3. \A t : Waiting(t)' = Waiting(t)
  BY <1>1, <1>2 DEF Waiting, Children
<1>4. \A S : Knot(S)' = Knot(S)
  BY DEF Knot
<1>5. Workers' = Workers /\ Verifiers' = Verifiers
  BY <1>1 DEF Workers, Verifiers
<1>6. Leaves' = Leaves
  BY <1>1, <1>2 DEF Leaves, Children
<1>7. Acyclic' = Acyclic
  BY <1>1 DEF Acyclic
<1> QED
  BY <1>1, <1>2, <1>3, <1>4, <1>5, <1>6, <1>7

LEMMA TraceStep ==
  ASSUME PInv, Trace
  PROVE  PInv' /\ Judged'
<1> DEFINE n == Traced
           t == ordered[n + 1]
           D == DOMAIN ancestors
           above == deps[t] \cup UNION {ancestors[d] : d \in deps[t]}
<1>1. /\ PlanTypes /\ Shaped /\ AllSorted /\ TraceOK /\ verdict = "open" /\ phase = "trace"
      /\ UNCHANGED <<hired, full, limit, rows, role, deps, queue, indegree, ordered, verdict, phase>>
  BY DEF PInv, PlanTypes, Trace, payload, graph, sorting
<1>2. n < Len(ordered) /\ ancestors' = With(ancestors, t, above)
  BY DEF Trace, Traced
<1>3. Tasks' = Tasks /\ \A u : Waiting(u)' = Waiting(u)
  BY <1>1, SameGraph
<1>4. ordered \in Lists(Tasks) /\ Len(ordered) \in Nat /\ Tasks = {ordered[i] : i \in 1..Len(ordered)}
  BY <1>1, Elements DEF AllSorted, Lists
<1>5. n \in 0..Len(ordered) /\ D = {ordered[j] : j \in 1..n}
  BY <1>1 DEF TraceOK
<1>6. n \in Nat /\ n + 1 \in 1..Len(ordered)
  BY <1>2, <1>4, <1>5
<1>7. t \in Tasks /\ t \notin D
  <2>1. ASSUME NEW j \in 1..n PROVE ordered[j] # t
    <3>1. j \in 1..Len(ordered) /\ j # n + 1
      BY <1>4, <1>6
    <3> QED
      BY <3>1, <1>4, <1>6 DEF Lists
  <2> QED
    BY <2>1, <1>4, <1>5, <1>6
<1>8. deps[t] \subseteq D
  <2> SUFFICES ASSUME NEW d \in deps[t] PROVE d \in D
    OBVIOUS
  <2>1. PICK j \in 1..((n + 1) - 1) : d = ordered[j]
    BY <1>1, <1>6 DEF AllSorted, Sorted
  <2>2. j \in 1..n
    BY <2>1, <1>6
  <2> QED
    BY <2>1, <2>2, <1>5
<1>9. IsFiniteSet(D)
  <2>1. D \in SUBSET Tasks
    BY <1>4, <1>5, <1>6
  <2> QED
    BY <2>1, <1>1, Places, FS_Subset DEF PlanTypes
<1> HIDE DEF above, t
<1>10. /\ DOMAIN ancestors' = D \cup {t} /\ ancestors'[t] = above
       /\ \A z \in D : ancestors'[z] = ancestors[z]
  BY <1>2, <1>7 DEF With
<1>11. Traced' = n + 1
  BY <1>7, <1>9, <1>10, FS_AddElement DEF Traced
<1>12. Traced' \in 0..Len(ordered)
  BY <1>4, <1>6, <1>11
<1>13. DOMAIN ancestors' = {ordered[j] : j \in 1..Traced'}
  <2>1. 1..(n + 1) = 1..n \cup {n + 1}
    BY <1>6
  <2> QED
    BY <2>1, <1>5, <1>10, <1>11 DEF t
<1>14. ASSUME NEW z \in D \cup {t}, NEW u \in Tasks
       PROVE  u \in ancestors'[z] <=> z \in Waiting(u)
  <2>1. CASE z \in D
    BY <2>1, <1>1, <1>10 DEF TraceOK
  <2>2. CASE z = t
    <3>1. u \in above <=> u \in deps[t] \/ \E d \in deps[t] : u \in ancestors[d]
      BY DEF above
    <3>2. \A d \in deps[t] : u \in ancestors[d] <=> d \in Waiting(u)
      BY <1>1, <1>8 DEF TraceOK
    <3>3. t \in Waiting(u) <=> u \in deps[t] \/ \E d \in deps[t] : d \in Waiting(u)
      BY <1>7, WhoWaits
    <3> QED
      BY <2>2, <3>1, <3>2, <3>3, <1>10
  <2> QED
    BY <2>1, <2>2
<1>15. TraceOK'
  <2>1. ordered' = ordered
    BY <1>1
  <2> QED
    BY <2>1, <1>3, <1>10, <1>12, <1>13, <1>14 DEF TraceOK
<1>16. PlanTypes' /\ AllSorted' /\ Shaped'
  BY <1>1, <1>3, SameGraph DEF PlanTypes, RowsOK, AllSorted, Sorted, Shaped
<1> QED
  BY <1>1, <1>15, <1>16, OpenIsJudged DEF PInv

\* Two workers' tasks neither of which waits for the other.
Free == \E t, u \in Workers : t # u /\ u \notin Waiting(t) /\ t \notin Waiting(u)

LEMMA DecideStep ==
  ASSUME PInv, Decide
  PROVE  PInv' /\ Judged'
<1>1. /\ PlanTypes /\ Shaped /\ AllSorted /\ TraceOK /\ verdict = "open"
      /\ phase = "trace" /\ phase' = "end"
      /\ UNCHANGED <<hired, full, limit, rows, role, deps, queue, indegree, ordered, ancestors>>
  BY DEF PInv, PlanTypes, Decide, payload, graph, sorting
<1>2. verdict' = IF Parallel /\ limit < 2 THEN "limit_too_low"
                 ELSE IF Verifiers = {} THEN "no_verification"
                 ELSE IF Leaves \cap Workers # {} THEN "uncovered"
                 ELSE "accepted"
  BY DEF Decide
<1>3. Parallel <=> Free
  <2>1. DOMAIN ancestors = Tasks
    <3>1. Traced = Len(ordered)
      BY DEF Decide, Traced
    <3> QED
      BY <3>1, <1>1, Elements DEF TraceOK, AllSorted, Lists
  <2>2. \A t, u \in Workers : t \notin ancestors[u] <=> u \notin Waiting(t)
    BY <2>1, <1>1 DEF TraceOK, Workers
  <2> QED
    BY <2>2 DEF Parallel, Free
<1>4. ASSUME verdict' = "accepted"
      PROVE  Verifiers # {} /\ \A w \in Workers : Children(w) # {}
  BY <1>2, <1>4 DEF Leaves, Workers
<1>5. AcceptedIsGraph'
  <2> SUFFICES ASSUME verdict' = "accepted" PROVE AcceptedIsGraph'
    BY DEF AcceptedIsGraph
  <2>1. Workers # {} /\ (\E t \in Tasks : role[t] \in Verification) /\ \A t \in Tasks : deps[t] \subseteq Tasks
    BY <1>1, <1>4 DEF Shaped, Verifiers
  <2>2. Acyclic
    BY <1>1, SortedIsAcyclic
  <2>3. \A w \in Workers : Children(w) # {}
    BY <1>4
  <2> QED
    BY <2>1, <2>2, <2>3, <1>1, SameGraph DEF AcceptedIsGraph
<1>6. CycleIsReal'
  BY <1>2 DEF CycleIsReal
<1>7. EveryResultReachesVerification'
  <2> SUFFICES ASSUME verdict' = "accepted" PROVE EveryResultReachesVerification'
    BY DEF EveryResultReachesVerification
  <2>1. ASSUME NEW w \in Workers PROVE \E v \in Waiting(w) : role[v] \in Verification
    <3>1. PICK v \in Waiting(w) : v \in Leaves
      BY <1>1, <1>4, ReachesLeaf DEF Workers
    <3>2. v \in Tasks /\ Children(v) = {}
      BY <3>1 DEF Leaves
    <3>3. role[v] # "worker"
      BY <3>2, <1>4 DEF Workers
    <3>4. role[v] \in Roles
      BY <3>2, <1>1 DEF PlanTypes
    <3> QED
      BY <3>1, <3>3, <3>4 DEF Roles, Verification
  <2> QED
    BY <2>1, <1>1, SameGraph DEF EveryResultReachesVerification
<1>8. LimitIsFair'
  <2>1. (verdict' = "accepted" /\ limit < 2 => ~Free) /\ (verdict' = "limit_too_low" => Free)
    BY <1>2, <1>3
  <2>2. Free' <=> Free
    BY <1>1, SameGraph DEF Free
  <2>3. limit' = limit
    BY <1>1
  <2> QED
    BY <2>1, <2>2, <2>3 DEF LimitIsFair, Free
<1>9. PlanTypes'
  BY <1>1, SameGraph DEF PlanTypes, RowsOK
<1> QED
  BY <1>1, <1>5, <1>6, <1>7, <1>8, <1>9 DEF PInv, Judged

-----------------------------------------------------------------------------
(* The theorems.                                                           *)

LEMMA PlanStep ==
  ASSUME PInv /\ Judged, [Next]_pvars
  PROVE  (PInv /\ Judged)'
<1>1. CASE UNCHANGED pvars
  <2>1. UNCHANGED <<hired, full, limit, rows, role, deps, queue, indegree, ordered, ancestors, verdict, phase>>
    BY <1>1 DEF pvars, payload, graph, sorting
  <2>2. PlanTypes'
    BY <2>1, SameGraph DEF PInv, PlanTypes, RowsOK
  <2>3. phase = "sort" => (Shaped /\ SortOK /\ Sorted)'
    BY <2>1, SameGraph DEF PInv, Shaped, SortOK, Sorted
  <2>4. phase = "trace" => (Shaped /\ AllSorted /\ TraceOK)'
    BY <2>1, SameGraph DEF PInv, Shaped, AllSorted, Sorted, TraceOK, Traced
  <2>5. AcceptedIsGraph' /\ CycleIsReal'
    BY <2>1, SameGraph DEF Judged, AcceptedIsGraph, CycleIsReal
  <2>6. EveryResultReachesVerification' /\ LimitIsFair'
    BY <2>1, SameGraph DEF Judged, EveryResultReachesVerification, LimitIsFair
  <2> QED
    BY <2>1, <2>2, <2>3, <2>4, <2>5, <2>6 DEF PInv, Judged
<1>2. CASE AddSummary
  BY <1>2, AddSummaryStep
<1>3. CASE CoverLeaves
  BY <1>3, CoverLeavesStep
<1>4. CASE CheckShape
  BY <1>4, CheckShapeStep
<1>5. CASE SortNext
  BY <1>5, SortNextStep
<1>6. CASE SortEnd
  BY <1>6, SortEndStep
<1>7. CASE Trace
  BY <1>7, TraceStep
<1>8. CASE Decide
  BY <1>8, DecideStep
<1> QED
  BY <1>1, <1>2, <1>3, <1>4, <1>5, <1>6, <1>7, <1>8 DEF Next

THEOREM PlanInvariant == Spec => [](PInv /\ Judged)
<1>1. Init => PInv /\ Judged
  BY PlanInit
<1>2. PInv /\ Judged /\ [Next]_pvars => (PInv /\ Judged)'
  BY PlanStep
<1> QED
  BY <1>1, <1>2, PTL DEF Spec

(* What _create_team accepts is what TeamGraph assumes of a work graph.    *)
THEOREM AcceptedGraphs == Spec => []AcceptedIsGraph
<1>1. PInv /\ Judged => AcceptedIsGraph
  BY DEF Judged
<1> QED
  BY <1>1, PlanInvariant, PTL

(* A plan that _topological_order refuses as cyclic has a cycle.           *)
THEOREM CyclesAreReal == Spec => []CycleIsReal
<1>1. PInv /\ Judged => CycleIsReal
  BY DEF Judged
<1> QED
  BY <1>1, PlanInvariant, PTL

(* No worker's result gets by the verifiers and summarizers, which is what *)
(* the comment of _validate_verification_coverage argues.                  *)
THEOREM ResultsReachVerification == Spec => []EveryResultReachesVerification
<1>1. PInv /\ Judged => EveryResultReachesVerification
  BY DEF Judged
<1> QED
  BY <1>1, PlanInvariant, PTL

(* The ancestors that _has_parallel_worker_tasks collects along the order  *)
(* decide rightly whether two workers could run at the same time.          *)
THEOREM LimitsAreFair == Spec => []LimitIsFair
<1>1. PInv /\ Judged => LimitIsFair
  BY DEF Judged
<1> QED
  BY <1>1, PlanInvariant, PTL
=============================================================================
