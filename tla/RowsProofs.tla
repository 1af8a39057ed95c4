------------------------------ MODULE RowsProofs ------------------------------
(***************************************************************************)
(* The task panel, for any forest of tasks: the marker is at the task that *)
(* keys act on, no task is lost or shown twice, the line with the cursor   *)
(* is on screen, and a movement goes to the next line.                     *)
(*                                                                         *)
(* Rows are what a total order lists, so the first half is about orders:   *)
(* a finite set has one listing in a total order; the tasks above a task   *)
(* form a chain; TaskTree is total because two chains part at two siblings *)
(* or stand under different roots; groups divide the tasks, and one        *)
(* sequence after another (Flat) keeps places that Lead counts.            *)
(*                                                                         *)
(* The second half is the inductive invariant Follows, one lemma for each  *)
(* key and one for snapshots, and what each theorem adds to it.            *)
(***************************************************************************)
EXTENDS TaskRows, FiniteSetTheorems, SequenceTheorems, WellFoundedInduction, TLAPS

-----------------------------------------------------------------------------
(* The members of a finite set in a strict total order. *)

Orders(R, S) ==
  /\ \A x \in S : <<x, x>> \notin R
  /\ \A x, y \in S : <<x, y>> \in R \/ <<y, x>> \in R \/ x = y
  /\ \A x, y, z \in S : <<x, y>> \in R /\ <<y, z>> \in R => <<x, z>> \in R

InOrder(s, R) == \A i \in DOMAIN s : \A j \in 1..(i - 1) : <<s[j], s[i]>> \in R

Before(x, S, R) == {y \in S : <<y, x>> \in R}

\* The members before an earlier member are fewer.
LEMMA EarlierHasFewer ==
  ASSUME NEW S, IsFiniteSet(S), NEW R, Orders(R, S), NEW x \in S
  PROVE  /\ Cardinality(Before(x, S, R)) \in 0..(Cardinality(S) - 1)
         /\ \A z \in S : <<x, z>> \in R =>
              Cardinality(Before(x, S, R)) < Cardinality(Before(z, S, R))
<1>1. \A z \in S : /\ Before(z, S, R) \in SUBSET S
                   /\ IsFiniteSet(Before(z, S, R))
                   /\ Cardinality(Before(z, S, R)) \in Nat
  <2> TAKE z \in S
  <2>1. Before(z, S, R) \in SUBSET S
    BY DEF Before
  <2>2. IsFiniteSet(Before(z, S, R))
    BY <2>1, FS_Subset
  <2> QED BY <2>1, <2>2, FS_CardinalityType
<1>2. Cardinality(Before(x, S, R)) < Cardinality(S) /\ Cardinality(S) \in Nat
  <2>1. x \notin Before(x, S, R)
    BY DEF Before, Orders
  <2>2. Before(x, S, R) # S
    BY <2>1
  <2>3. Cardinality(S) \in Nat
    BY FS_CardinalityType
  <2>4. /\ Cardinality(Before(x, S, R)) =< Cardinality(S)
        /\ Cardinality(S) # Cardinality(Before(x, S, R))
    BY <1>1, <2>2, FS_Subset
  <2> QED BY <1>1, <2>3, <2>4
<1>3. ASSUME NEW z \in S, <<x, z>> \in R
      PROVE  Cardinality(Before(x, S, R)) < Cardinality(Before(z, S, R))
  <2>1. Before(x, S, R) \in SUBSET Before(z, S, R)
    BY <1>3 DEF Before, Orders
  <2>2. x \in Before(z, S, R) /\ x \notin Before(x, S, R)
    BY <1>3 DEF Before, Orders
  <2>3. /\ Cardinality(Before(x, S, R)) =< Cardinality(Before(z, S, R))
        /\ Cardinality(Before(z, S, R)) # Cardinality(Before(x, S, R))
    BY <1>1, <2>1, <2>2, FS_Subset
  <2> QED BY <1>1, <2>3
<1> QED BY <1>1, <1>2, <1>3

\* Every finite set has a listing: the members by how many are before them.
LEMMA ListingExists ==
  ASSUME NEW S, IsFiniteSet(S), NEW R, Orders(R, S)
  PROVE  \E s \in [1..Cardinality(S) -> S] : InOrder(s, R)
<1> DEFINE n == Cardinality(S)
           rank == [x \in S |-> Cardinality(Before(x, S, R)) + 1]
<1>1. n \in Nat
  BY FS_CardinalityType
<1>2. rank \in [S -> 1..n]
  <2>1. ASSUME NEW x \in S PROVE Cardinality(Before(x, S, R)) + 1 \in 1..n
    <3>1. Cardinality(Before(x, S, R)) \in 0..(n - 1)
      BY EarlierHasFewer
    <3> QED BY <1>1, <3>1
  <2> QED BY <2>1
<1>3. \A x, z \in S : <<x, z>> \in R => rank[x] < rank[z]
  <2> SUFFICES ASSUME NEW x \in S, NEW z \in S, <<x, z>> \in R
               PROVE  rank[x] < rank[z]
    OBVIOUS
  <2>1. /\ Cardinality(Before(x, S, R)) \in 0..(n - 1)
        /\ Cardinality(Before(z, S, R)) \in 0..(n - 1)
        /\ Cardinality(Before(x, S, R)) < Cardinality(Before(z, S, R))
    BY EarlierHasFewer
  <2> QED BY <1>1, <2>1
<1> HIDE DEF rank
<1>4. \A x, z \in S : x # z => rank[x] # rank[z]
  <2> SUFFICES ASSUME NEW x \in S, NEW z \in S, x # z PROVE rank[x] # rank[z]
    OBVIOUS
  <2>1. <<x, z>> \in R \/ <<z, x>> \in R
    BY DEF Orders
  <2>2. rank[x] \in 1..n /\ rank[z] \in 1..n
    BY <1>2
  <2> QED BY <1>1, <1>3, <2>1, <2>2
<1>5. rank \in Surjection(S, 1..n)
  <2>1. rank \in Injection(S, 1..n)
    BY <1>2, <1>4 DEF Injection, IsInjective
  <2>2. IsFiniteSet(1..n) /\ Cardinality(1..n) = n
    BY <1>1, FS_Interval
  <2> QED BY <2>1, <2>2, FS_Injection
<1> DEFINE s == [i \in 1..n |-> CHOOSE x \in S : rank[x] = i]
<1>6. \A i \in 1..n : s[i] \in S /\ rank[s[i]] = i
  <2> TAKE i \in 1..n
  <2>1. \E x \in S : rank[x] = i
    BY <1>5 DEF Surjection
  <2> QED BY <2>1
<1>7. s \in [1..n -> S]
  BY <1>6
<1>8. ASSUME NEW i \in 1..n, NEW j \in 1..(i - 1) PROVE <<s[j], s[i]>> \in R
  <2>1. j \in 1..n /\ j < i
    BY <1>1
  <2>2. s[i] \in S /\ s[j] \in S /\ rank[s[i]] = i /\ rank[s[j]] = j
    BY <1>6, <2>1
  <2>3. s[i] # s[j]
    BY <2>1, <2>2
  <2>4. CASE <<s[i], s[j]>> \in R
    <3>1. i < j
      BY <1>3, <2>2, <2>4
    <3> QED BY <1>1, <2>1, <3>1
  <2> QED BY <2>2, <2>3, <2>4 DEF Orders
<1>9. InOrder(s, R)
  BY <1>7, <1>8 DEF InOrder
<1> QED BY <1>7, <1>9

\* A listing has every member once, after as many as are before it in the order.
LEMMA ListingFacts ==
  ASSUME NEW S, IsFiniteSet(S), NEW R, Orders(R, S),
         NEW s \in [1..Cardinality(S) -> S], InOrder(s, R)
  PROVE  /\ Cardinality(S) \in Nat
         /\ s \in Seq(S) /\ Len(s) = Cardinality(S)
         /\ Range(s) = S
         /\ \A i, j \in DOMAIN s : s[i] = s[j] => i = j
         /\ \A i \in DOMAIN s : Cardinality(Before(s[i], S, R)) = i - 1
<1> DEFINE n == Cardinality(S)
<1>1. n \in Nat
  BY FS_CardinalityType
<1>2. \A i \in 1..n : s[i] \in S
  OBVIOUS
<1>3. \A i, j \in 1..n : j < i => <<s[j], s[i]>> \in R
  BY <1>1 DEF InOrder
<1>4. \A i, j \in 1..n : s[i] = s[j] => i = j
  <2> SUFFICES ASSUME NEW i \in 1..n, NEW j \in 1..n, i # j PROVE s[i] # s[j]
    OBVIOUS
  <2>1. <<s[j], s[i]>> \in R \/ <<s[i], s[j]>> \in R
    BY <1>1, <1>3
  <2> QED BY <1>2, <2>1 DEF Orders
<1>5. \A x \in S : \E i \in 1..n : s[i] = x
  <2>1. s \in Injection(1..n, S)
    BY <1>4 DEF Injection, IsInjective
  <2>2. IsFiniteSet(1..n) /\ Cardinality(1..n) = n
    BY <1>1, FS_Interval
  <2>3. s \in Surjection(1..n, S)
    BY <2>1, <2>2, FS_Injection
  <2> QED BY <2>3 DEF Surjection
<1>6. ASSUME NEW i \in 1..n PROVE Cardinality(Before(s[i], S, R)) = i - 1
  <2> DEFINE f == [j \in 1..(i - 1) |-> s[j]]
             T == Before(s[i], S, R)
  <2>1. \A j \in 1..(i - 1) : j \in 1..n /\ j < i /\ f[j] = s[j]
    BY <1>1
  <2>2. \A j \in 1..(i - 1) : f[j] \in T
    BY <1>2, <1>3, <2>1 DEF Before
  <2>3. \A x \in T : \E j \in 1..(i - 1) : f[j] = x
    <3> TAKE x \in T
    <3>1. x \in S /\ <<x, s[i]>> \in R
      BY DEF Before
    <3>2. PICK j \in 1..n : s[j] = x
      BY <1>5, <3>1
    <3>3. ~(i < j) /\ i # j
      BY <1>2, <1>3, <3>1, <3>2 DEF Orders
    <3>4. j \in 1..(i - 1)
      BY <1>1, <3>3
    <3> QED BY <2>1, <3>2, <3>4
  <2>4. f \in Bijection(1..(i - 1), T)
    <3>1. f \in [1..(i - 1) -> T]
      BY <2>2
    <3>2. \A j, k \in 1..(i - 1) : f[j] = f[k] => j = k
      BY <1>4, <2>1
    <3> QED BY <2>3, <3>1, <3>2 DEF Bijection, Injection, Surjection, IsInjective
  <2>5. ExistsBijection(1..(i - 1), T)
    BY <2>4 DEF ExistsBijection
  <2>6. i - 1 \in Nat
    BY <1>1
  <2>7. Cardinality(T) = i - 1
    BY <2>5, <2>6, FS_CountingElements
  <2> QED BY <2>7
<1>7. s \in Seq(S) /\ Len(s) = n /\ DOMAIN s = 1..n
  BY <1>1
<1>8. Range(s) = S
  BY <1>2, <1>5, <1>7 DEF Range
<1> QED BY <1>1, <1>4, <1>6, <1>7, <1>8
-----------------------------------------------------------------------------
(* Families: a task with the loaded tasks above it. *)

LEMMA ForestFacts ==
  ASSUME NEW d \in Forest
  PROVE  /\ d.tasks \subseteq Task /\ IsFiniteSet(d.tasks) /\ NoTask \notin Task
         /\ d.parent \in [Task -> Task \cup {NoTask}]
         /\ d.value \in [Task -> Value]
         /\ Acyclic(d)
         /\ d.tasks \subseteq Nat
         /\ \A t \in d.tasks : Parent(d, t) \in d.tasks \cup {NoTask}
<1>1. /\ d.tasks \subseteq Task /\ d.parent \in [Task -> Task \cup {NoTask}]
      /\ d.value \in [Task -> Value] /\ Acyclic(d)
  BY DEF Forest, Data
<1>2. IsFiniteSet(d.tasks)
  BY <1>1, FS_Subset, RowsAssumption
<1>3. NoTask \notin Task /\ Task \subseteq Nat
  BY RowsAssumption DEF NoTask
<1> QED BY <1>1, <1>2, <1>3 DEF Parent, Loaded

\* The set above a task is closed, and the least one that is.
LEMMA AboveFacts ==
  ASSUME NEW d \in Forest, NEW t \in Task
  PROVE  /\ Above[d][t] \subseteq Task
         /\ \A b \in {t} \cup (Above[d][t] \cap d.tasks) :
              d.parent[b] \in Above[d][t] \cup {NoTask}
         /\ \A S \in SUBSET Task :
              (\A b \in {t} \cup (S \cap d.tasks) : d.parent[b] \in S \cup {NoTask})
              => Above[d][t] \subseteq S
<1> DEFINE IsClosed(S) ==
             \A b \in {t} \cup (S \cap d.tasks) : d.parent[b] \in S \cup {NoTask}
<1>1. Above[d][t] = {a \in Task : \A S \in SUBSET Task : IsClosed(S) => a \in S}
  BY DEF Above
<1>2. \A S \in SUBSET Task : IsClosed(S) => Above[d][t] \subseteq S
  BY <1>1
<1>3. ASSUME NEW b \in {t} \cup (Above[d][t] \cap d.tasks), d.parent[b] # NoTask
      PROVE  d.parent[b] \in Above[d][t]
  <2>1. b \in Task /\ d.parent[b] \in Task
    BY <1>3, ForestFacts
  <2>2. ASSUME NEW S \in SUBSET Task, IsClosed(S) PROVE d.parent[b] \in S
    <3>1. b \in {t} \cup (S \cap d.tasks)
      BY <1>2, <2>2
    <3> QED BY <1>3, <2>2, <3>1
  <2> HIDE DEF IsClosed
  <2> QED BY <1>1, <2>1, <2>2
<1> QED BY <1>1, <1>2, <1>3

LEMMA LineFacts ==
  ASSUME NEW d \in Forest, NEW t \in d.tasks
  PROVE  /\ t \in Line(d, t) /\ Line(d, t) \subseteq d.tasks
         /\ \A a \in Line(d, t) : Parent(d, a) # NoTask => Parent(d, a) \in Line(d, t)
         /\ \A S \in SUBSET d.tasks :
              t \in S /\ (\A b \in S : Parent(d, b) # NoTask => Parent(d, b) \in S)
              => Line(d, t) \subseteq S
<1>1. t \in Task /\ d.tasks \subseteq Task
  BY ForestFacts
<1>2. t \in Line(d, t) /\ Line(d, t) \subseteq d.tasks
  BY DEF Line
<1>3. ASSUME NEW a \in Line(d, t), Parent(d, a) # NoTask
      PROVE  Parent(d, a) \in Line(d, t)
  <2>1. a \in {t} \cup (Above[d][t] \cap d.tasks)
    BY DEF Line
  <2>2. Parent(d, a) = d.parent[a] /\ d.parent[a] \in d.tasks
    BY <1>3 DEF Parent, Loaded
  <2>3. d.parent[a] \in Above[d][t]
    BY <1>1, <1>3, <2>1, <2>2, AboveFacts
  <2> QED BY <2>2, <2>3 DEF Line
<1>4. ASSUME NEW S \in SUBSET d.tasks, t \in S,
             \A b \in S : Parent(d, b) # NoTask => Parent(d, b) \in S
      PROVE  Line(d, t) \subseteq S
  <2> DEFINE W == S \cup (Task \ d.tasks)
  <2>1. \A b \in {t} \cup (W \cap d.tasks) : d.parent[b] \in W \cup {NoTask}
    <3> TAKE b \in {t} \cup (W \cap d.tasks)
    <3>1. b \in S /\ d.parent[b] \in Task \cup {NoTask}
      BY <1>1, <1>4, ForestFacts
    <3>2. CASE d.parent[b] \in d.tasks
      BY <1>4, <3>1, <3>2, ForestFacts DEF Parent, Loaded
    <3> QED BY <3>1, <3>2
  <2>2. W \in SUBSET Task
    BY <1>1
  <2>3. Above[d][t] \subseteq W
    <3> HIDE DEF W
    <3> QED BY <1>1, <2>1, <2>2, AboveFacts
  <2> QED BY <1>4, <2>3 DEF Line
<1> QED BY <1>2, <1>3, <1>4

LEMMA LineIsClosed ==
  ASSUME NEW d \in Forest, NEW t \in d.tasks, NEW a \in Line(d, t)
  PROVE  Line(d, a) \subseteq Line(d, t)
<1>1. Line(d, t) \in SUBSET d.tasks /\ a \in d.tasks
  BY LineFacts
<1>2. \A b \in Line(d, t) : Parent(d, b) # NoTask => Parent(d, b) \in Line(d, t)
  BY LineFacts
<1> QED BY <1>1, <1>2, LineFacts

\* Who is above a task is above its parent.
LEMMA LineOfParent ==
  ASSUME NEW d \in Forest, NEW t \in d.tasks, NEW a \in Line(d, t), a # t
  PROVE  /\ Parent(d, t) \in d.tasks /\ a \in Line(d, Parent(d, t))
         /\ Parent(d, t) # NoTask /\ Parent(d, t) \in Line(d, t)
<1> DEFINE p == Parent(d, t)
           S == {t} \cup (IF p = NoTask THEN {} ELSE Line(d, p))
<1>1. p # NoTask => p \in d.tasks
  BY ForestFacts
<1>2. p # NoTask => /\ p \in Line(d, p) /\ Line(d, p) \subseteq d.tasks
                    /\ \A b \in Line(d, p) : Parent(d, b) # NoTask => Parent(d, b) \in Line(d, p)
  BY <1>1, LineFacts
<1>3. S \in SUBSET d.tasks /\ t \in S
  BY <1>2
<1>4. \A b \in S : Parent(d, b) # NoTask => Parent(d, b) \in S
  BY <1>2
<1> HIDE DEF S
<1>5. Line(d, t) \subseteq S
  BY <1>3, <1>4, LineFacts
<1>6. a \in S
  BY <1>5
<1>7. p # NoTask /\ a \in Line(d, p)
  BY <1>6 DEF S
<1>8. p \in Line(d, t)
  BY <1>7, LineFacts
<1> QED BY <1>1, <1>7, <1>8

LEMMA NoTaskIsAboveItself ==
  ASSUME NEW d \in Forest, NEW a \in d.tasks, NEW b \in d.tasks,
         a \in Line(d, b), b \in Line(d, a)
  PROVE  a = b
<1> SUFFICES ASSUME a # b PROVE FALSE
  OBVIOUS
<1> DEFINE S == {c \in d.tasks : b \in Line(d, c) /\ c \in Line(d, b)}
<1>1. b \in S
  BY LineFacts
<1>2. ASSUME NEW c \in S PROVE d.parent[c] \in S
  <2>1. c \in d.tasks /\ b \in Line(d, c) /\ c \in Line(d, b)
    OBVIOUS
  <2>2. /\ Parent(d, c) \in d.tasks /\ Parent(d, c) \in Line(d, c)
        /\ b \in Line(d, Parent(d, c))
    <3>1. CASE c = b
      <4>1. Parent(d, b) \in d.tasks /\ a \in Line(d, Parent(d, b)) /\ Parent(d, b) \in Line(d, b)
        BY LineOfParent
      <4>2. Line(d, a) \subseteq Line(d, Parent(d, b))
        BY <4>1, LineIsClosed
      <4> QED BY <3>1, <4>1, <4>2
    <3>2. CASE c # b
      BY <2>1, <3>2, LineOfParent
    <3> QED BY <3>1, <3>2
  <2>3. Parent(d, c) = d.parent[c]
    BY <2>2, ForestFacts DEF Parent, Loaded
  <2>4. Line(d, c) \subseteq Line(d, b)
    BY <2>1, LineIsClosed
  <2> QED BY <2>2, <2>3, <2>4
<1>3. S \in SUBSET Task /\ S # {}
  BY <1>1, ForestFacts
<1> HIDE DEF S
<1>4. PICK c \in S : d.parent[c] \notin S
  BY <1>3, ForestFacts DEF Acyclic
<1> QED BY <1>2, <1>4

LEMMA LineIsAChain ==
  ASSUME NEW d \in Forest, NEW t \in d.tasks, NEW a \in Line(d, t), NEW b \in Line(d, t)
  PROVE  a \in Line(d, b) \/ b \in Line(d, a)
<1> DEFINE S == {x \in Line(d, t) : \A y \in Line(d, t) : x \in Line(d, y) \/ y \in Line(d, x)}
<1>1. Line(d, t) \subseteq d.tasks
  BY LineFacts
<1>2. t \in S
  BY LineFacts
<1>3. ASSUME NEW x \in S, Parent(d, x) # NoTask PROVE Parent(d, x) \in S
  <2>1. x \in d.tasks /\ x \in Line(d, t)
    BY <1>1
  <2>2. Parent(d, x) \in Line(d, t) /\ Parent(d, x) \in Line(d, x)
    BY <1>3, <2>1, LineFacts
  <2>3. ASSUME NEW y \in Line(d, t)
        PROVE  Parent(d, x) \in Line(d, y) \/ y \in Line(d, Parent(d, x))
    <3>1. y \in d.tasks
      BY <1>1
    <3>2. CASE x \in Line(d, y)
      BY <2>2, <3>1, <3>2, LineIsClosed
    <3>3. CASE x \notin Line(d, y)
      <4>1. y \in Line(d, x) /\ y # x
        BY <2>1, <3>3, LineFacts
      <4> QED BY <2>1, <4>1, LineOfParent
    <3> QED BY <3>2, <3>3
  <2> QED BY <2>2, <2>3
<1>4. S \in SUBSET d.tasks
  BY <1>1
<1>5. Line(d, t) \subseteq S
  <2> HIDE DEF S
  <2> QED BY <1>2, <1>3, <1>4, LineFacts
<1> QED BY <1>5

\* Siblings are never above the same task.
LEMMA SiblingsPart ==
  ASSUME NEW d \in Forest, NEW a \in d.tasks, NEW b \in d.tasks, a # b,
         Parent(d, a) = Parent(d, b), NEW t \in d.tasks
  PROVE  ~(a \in Line(d, t) /\ b \in Line(d, t))
<1>1. ASSUME NEW x \in d.tasks, NEW y \in d.tasks, x # y, Parent(d, x) = Parent(d, y)
      PROVE  x \notin Line(d, y)
  <2> SUFFICES ASSUME x \in Line(d, y) PROVE FALSE
    OBVIOUS
  <2> DEFINE p == Parent(d, y)
  <2>1. p \in d.tasks /\ x \in Line(d, p) /\ p # NoTask
    BY <1>1, LineOfParent
  <2>2. p \in Line(d, x)
    BY <1>1, <2>1, LineFacts
  <2>3. x = p
    BY <2>1, <2>2, NoTaskIsAboveItself
  <2>4. d.parent[x] = x
    BY <1>1, <2>1, <2>3 DEF Parent, Loaded
  <2>5. {x} \in SUBSET Task /\ {x} # {}
    BY ForestFacts
  <2>6. PICK c \in {x} : d.parent[c] \notin {x}
    BY <2>5, ForestFacts DEF Acyclic
  <2> QED BY <2>4, <2>6
<1>2. a \notin Line(d, b) /\ b \notin Line(d, a)
  BY <1>1
<1> QED BY <1>2, LineIsAChain

\* Where two families part there are two siblings, or two tasks without a parent.
LEMMA FamiliesPart ==
  ASSUME NEW d \in Forest, NEW x \in d.tasks, NEW y \in d.tasks,
         x \notin Line(d, y), y \notin Line(d, x)
  PROVE  \E a \in Line(d, x), b \in Line(d, y) : a # b /\ Parent(d, a) = Parent(d, b)
<1> DEFINE Off(v, w) == Line(d, v) \ Line(d, w)
<1>1. ASSUME NEW v \in d.tasks, NEW w \in d.tasks, v \notin Line(d, w)
      PROVE  \E a \in Off(v, w) : d.parent[a] \notin Off(v, w)
  <2>1. v \in Off(v, w) /\ Off(v, w) \in SUBSET Task
    BY <1>1, LineFacts, ForestFacts
  <2> HIDE DEF Off
  <2> QED BY <2>1, ForestFacts DEF Acyclic
<1>2. PICK a \in Off(x, y) : d.parent[a] \notin Off(x, y)
  BY <1>1
<1>3. PICK b \in Off(y, x) : d.parent[b] \notin Off(y, x)
  BY <1>1
<1>4. ASSUME NEW v \in d.tasks, NEW w \in d.tasks, NEW e \in Off(v, w), NEW f \in Off(w, v),
             d.parent[e] \notin Off(v, w), Parent(d, e) # NoTask
      PROVE  /\ Parent(d, e) \in d.tasks /\ Parent(d, f) \in d.tasks
             /\ Parent(d, e) \in Line(d, Parent(d, f))
  <2> DEFINE p == Parent(d, e)
  <2>1. e \in d.tasks /\ f \in d.tasks
    BY LineFacts
  <2>2. p = d.parent[e] /\ p \in Line(d, v) /\ p \in d.tasks
    BY <1>4, <2>1, LineFacts DEF Parent, Loaded
  <2>3. p \in Line(d, w)
    BY <1>4, <2>2
  <2>4. f \notin Line(d, p)
    BY <2>2, LineIsClosed
  <2>5. p \in Line(d, f) /\ p # f
    BY <2>2, <2>3, <2>4, LineIsAChain
  <2> QED BY <2>1, <2>2, <2>5, LineOfParent
<1>5. a \in d.tasks /\ b \in d.tasks /\ NoTask \notin d.tasks
  BY LineFacts, ForestFacts
<1>6. Parent(d, a) = Parent(d, b)
  <2>1. CASE Parent(d, a) # NoTask
    <3>1. /\ Parent(d, a) \in d.tasks /\ Parent(d, b) \in d.tasks
          /\ Parent(d, a) \in Line(d, Parent(d, b))
      BY <1>2, <1>4, <2>1
    <3>2. Parent(d, b) \in Line(d, Parent(d, a))
      BY <1>3, <1>4, <1>5, <3>1
    <3> QED BY <3>1, <3>2, NoTaskIsAboveItself
  <2>2. CASE Parent(d, a) = NoTask
    <3>1. Parent(d, b) = NoTask
      BY <1>3, <1>4, <1>5, <2>2
    <3> QED BY <2>2, <3>1
  <2> QED BY <2>1, <2>2
<1> QED BY <1>6

\* The order of the rows is a strict total order.
LEMMA TreeOrders ==
  ASSUME NEW d \in Forest, NEW S \in SUBSET d.tasks
  PROVE  Orders(TaskTree[d], S)
<1> DEFINE T == d.tasks
           L(x) == Line(d, x)
           P(x) == Parent(d, x)
           Apart(x, y) == \E a \in L(x), b \in L(y) : a < b /\ P(a) = P(b)
           R == TaskTree[d]
<1>1. \A x, y \in T : <<x, y>> \in R <=> x # y /\ (x \in L(y) \/ Apart(x, y))
  BY DEF TaskTree
<1>2. T \subseteq Nat /\ \A x \in T : x \in L(x) /\ L(x) \subseteq T
  BY LineFacts, ForestFacts
<1>3. \A x \in T : \A y \in L(x) : L(y) \subseteq L(x)
  BY LineIsClosed
<1>4. \A x, y \in T : x \in L(y) /\ y \in L(x) => x = y
  BY NoTaskIsAboveItself
<1>5. \A x \in T : \A a, b \in L(x) : a \in L(b) \/ b \in L(a)
  BY LineIsAChain
<1>6. \A a, b, x \in T : a # b /\ P(a) = P(b) => ~(a \in L(x) /\ b \in L(x))
  BY SiblingsPart
<1>7. \A a, b \in T : P(a) = P(b) => \A x \in L(a) : x # a => x \in L(b)
  <2> SUFFICES ASSUME NEW a \in T, NEW b \in T, P(a) = P(b), NEW x \in L(a), x # a
               PROVE  x \in L(b)
    OBVIOUS
  <2>1. P(a) \in T /\ P(a) # NoTask /\ x \in L(P(a))
    BY LineOfParent
  <2>2. P(b) \in L(b)
    BY <2>1, LineFacts
  <2> QED BY <1>3, <2>1, <2>2
<1>8. ASSUME NEW x \in T, NEW y \in T, x # y
      PROVE  <<x, y>> \in R \/ <<y, x>> \in R
  <2>1. CASE x \in L(y) \/ y \in L(x)
    BY <1>1, <1>8, <2>1
  <2>2. CASE x \notin L(y) /\ y \notin L(x)
    <3>1. PICK a \in L(x), b \in L(y) : a # b /\ P(a) = P(b)
      BY <2>2, FamiliesPart
    <3>2. a \in Nat /\ b \in Nat
      BY <1>2
    <3>3. Apart(x, y) \/ Apart(y, x)
      BY <3>1, <3>2
    <3> HIDE DEF Apart
    <3> QED BY <1>1, <1>8, <3>3
  <2> QED BY <2>1, <2>2
<1>9. ASSUME NEW x \in T, NEW y \in T, NEW z \in T, <<x, y>> \in R, <<y, z>> \in R
      PROVE  <<x, z>> \in R
  <2> HIDE DEF R, L, P
  <2>1. CASE x \in L(y) /\ y \in L(z)
    <3>1. x \in L(z) /\ x # z
      BY <1>1, <1>3, <1>4, <1>9, <2>1
    <3> QED BY <1>1, <3>1
  <2>2. CASE x \in L(y) /\ Apart(y, z)
    <3>1. PICK a \in L(y), b \in L(z) : a < b /\ P(a) = P(b)
      BY <2>2
    <3>2. a \in T /\ b \in T /\ a # b
      BY <1>2, <3>1
    <3>3. x # z
      BY <1>3, <1>6, <2>2, <3>1, <3>2
    <3>4. CASE a \in L(x)
      BY <1>1, <3>1, <3>3, <3>4
    <3>5. CASE a \notin L(x)
      <4>1. x \in L(a) /\ x # a
        BY <1>2, <1>5, <2>2, <3>5
      <4>2. x \in L(b)
        BY <1>7, <3>1, <3>2, <4>1
      <4>3. x \in L(z)
        BY <1>3, <4>2
      <4> QED BY <1>1, <3>3, <4>3
    <3> QED BY <3>4, <3>5
  <2>3. CASE Apart(x, y) /\ y \in L(z)
    <3>1. PICK a \in L(x), b \in L(y) : a < b /\ P(a) = P(b)
      BY <2>3
    <3>2. a \in T /\ b \in T /\ a # b /\ b \in L(z)
      BY <1>2, <1>3, <2>3, <3>1
    <3>3. x # z
      BY <1>6, <3>1, <3>2
    <3> QED BY <1>1, <3>1, <3>2, <3>3
  <2>4. CASE Apart(x, y) /\ Apart(y, z)
    <3>1. PICK a \in L(x), b \in L(y) : a < b /\ P(a) = P(b)
      BY <2>4
    <3>2. PICK c \in L(y), e \in L(z) : c < e /\ P(c) = P(e)
      BY <2>4
    <3>3. /\ a \in T /\ b \in T /\ c \in T /\ e \in T /\ a # b /\ c # e
          /\ a \in Nat /\ b \in Nat /\ c \in Nat /\ e \in Nat
      BY <1>2, <3>1, <3>2
    <3>4. \/ a \in L(x) /\ b \in L(z)
          \/ c \in L(x) /\ e \in L(z)
          \/ b = c
      <4>1. CASE b # c /\ b \in L(c)
        <5>1. b \in L(e)
          BY <1>7, <3>2, <3>3, <4>1
        <5> QED BY <1>3, <3>1, <3>2, <5>1
      <4>2. CASE b # c /\ c \in L(b)
        <5>1. c \in L(a)
          BY <1>7, <3>1, <3>3, <4>2
        <5> QED BY <1>3, <3>1, <3>2, <5>1
      <4> QED BY <1>5, <4>1, <4>2
    <3>5. CASE b = c
      <4>1. a < e /\ P(a) = P(e) /\ a # e
        BY <3>1, <3>2, <3>3, <3>5
      <4>2. x # z
        BY <1>6, <3>1, <3>2, <3>3, <4>1
      <4> QED BY <1>1, <3>1, <3>2, <4>1, <4>2
    <3>6. CASE b \in L(z)
      <4>1. x # z
        BY <1>6, <3>1, <3>3, <3>6
      <4> QED BY <1>1, <3>1, <3>6, <4>1
    <3>7. CASE c \in L(x)
      <4>1. x # z
        BY <1>6, <3>2, <3>3, <3>7
      <4> QED BY <1>1, <3>2, <3>7, <4>1
    <3> QED BY <3>4, <3>5, <3>6, <3>7
  <2> QED BY <1>1, <1>9, <2>1, <2>2, <2>3, <2>4
<1>10. \A x \in T : <<x, x>> \notin R
  BY <1>1
<1> HIDE DEF R
<1>11. S \subseteq T
  OBVIOUS
<1>12. \A x, y \in S : <<x, y>> \in R \/ <<y, x>> \in R \/ x = y
  BY <1>8, <1>11
<1>13. \A x, y, z \in S : <<x, y>> \in R /\ <<y, z>> \in R => <<x, z>> \in R
  BY <1>9, <1>11
<1>14. \A x \in S : <<x, x>> \notin R
  BY <1>10, <1>11
<1> HIDE DEF T
<1>15. Orders(R, S)
  BY <1>12, <1>13, <1>14 DEF Orders
<1> QED BY <1>15 DEF R
-----------------------------------------------------------------------------
(* One sequence after another. *)

\* A set of numbers that is not empty has a least one.
LEMMA LeastNumber ==
  ASSUME NEW S \in SUBSET Nat, S # {}
  PROVE  \E x \in S : \A y \in S : x =< y
<1>1. PICK x \in S : \A y \in S : <<y, x>> \notin OpToRel(<, Nat)
  BY NatLessThanWellFounded, WFMin
<1>2. ASSUME NEW y \in S, y < x PROVE <<y, x>> \in OpToRel(<, Nat)
  <2> DEFINE pair == <<y, x>>
  <2>1. pair \in Nat \X Nat /\ pair[1] < pair[2]
    BY <1>2
  <2> HIDE DEF pair
  <2>2. pair \in OpToRel(<, Nat)
    BY <2>1 DEF OpToRel
  <2> QED BY <2>2 DEF pair
<1>3. \A y \in S : ~(y < x)
  BY <1>1, <1>2
<1> QED BY <1>3

Places(ss, i) == UNION {{k} \X DOMAIN ss[k] : k \in 1..(i - 1)}

LEMMA PlacesAddUp ==
  ASSUME NEW T, NEW ss \in Seq(Seq(T)), NEW i \in 1..Len(ss)
  PROVE  /\ Places(ss, i + 1) = Places(ss, i) \cup ({i} \X DOMAIN ss[i])
         /\ Places(ss, i) \cap ({i} \X DOMAIN ss[i]) = {}
         /\ IsFiniteSet({i} \X DOMAIN ss[i])
         /\ Cardinality({i} \X DOMAIN ss[i]) = Len(ss[i])
<1>1. 1..((i + 1) - 1) = (1..(i - 1)) \cup {i}
  OBVIOUS
<1>2. Places(ss, i + 1) = Places(ss, i) \cup ({i} \X DOMAIN ss[i])
  BY <1>1 DEF Places
<1>3. Places(ss, i) \cap ({i} \X DOMAIN ss[i]) = {}
  <2>1. i \notin 1..(i - 1)
    OBVIOUS
  <2> QED BY <2>1 DEF Places
<1> DEFINE n == Len(ss[i])
           f == [k \in 1..n |-> <<i, k>>]
<1>4. n \in Nat /\ DOMAIN ss[i] = 1..n
  OBVIOUS
<1>5. f \in Bijection(1..n, {i} \X (1..n))
  <2>1. f \in [1..n -> {i} \X (1..n)]
    OBVIOUS
  <2>2. \A j, k \in 1..n : f[j] = f[k] => j = k
    OBVIOUS
  <2>3. \A x \in {i} \X (1..n) : \E k \in 1..n : f[k] = x
    OBVIOUS
  <2> QED BY <2>1, <2>2, <2>3 DEF Bijection, Injection, Surjection, IsInjective
<1>6. IsFiniteSet(1..n) /\ Cardinality(1..n) = n
  BY <1>4, FS_Interval
<1>7. ExistsBijection(1..n, {i} \X (1..n))
  BY <1>5 DEF ExistsBijection
<1>8. IsFiniteSet({i} \X (1..n)) /\ Cardinality({i} \X (1..n)) = n
  BY <1>6, <1>7, FS_Bijection
<1> QED BY <1>2, <1>3, <1>4, <1>8

LEMMA PlacesFinite ==
  ASSUME NEW T, NEW ss \in Seq(Seq(T)), NEW i \in 1..(Len(ss) + 1)
  PROVE  IsFiniteSet(Places(ss, i))
<1> DEFINE bad == {j \in 1..(Len(ss) + 1) : ~IsFiniteSet(Places(ss, j))}
<1> SUFFICES ASSUME bad # {} PROVE FALSE
  OBVIOUS
<1>1. bad \in SUBSET Nat
  OBVIOUS
<1>2. PICK j \in bad : \A k \in bad : j =< k
  BY <1>1, LeastNumber
<1>3. j # 1
  <2>1. Places(ss, 1) = {}
    BY DEF Places
  <2>2. IsFiniteSet(Places(ss, 1))
    BY <2>1, FS_EmptySet
  <2> QED BY <2>2
<1>4. j - 1 \in 1..Len(ss) /\ (j - 1) + 1 = j
  BY <1>3
<1>5. IsFiniteSet(Places(ss, j - 1))
  BY <1>2, <1>4
<1>6. IsFiniteSet(Places(ss, j - 1) \cup ({j - 1} \X DOMAIN ss[j - 1]))
  BY <1>4, <1>5, PlacesAddUp, FS_Union
<1>7. IsFiniteSet(Places(ss, j))
  BY <1>4, <1>6, PlacesAddUp
<1> QED BY <1>7

LEMMA LeadFacts ==
  ASSUME NEW T, NEW ss \in Seq(Seq(T))
  PROVE  /\ Lead(ss, 1) = 0
         /\ \A i \in 1..(Len(ss) + 1) : Lead(ss, i) \in Nat
         /\ \A i \in 1..Len(ss) : Lead(ss, i + 1) = Lead(ss, i) + Len(ss[i])
         /\ \A i, j \in 1..(Len(ss) + 1) : i =< j => Lead(ss, i) =< Lead(ss, j)
<1>1. \A i \in 1..(Len(ss) + 1) : Lead(ss, i) = Cardinality(Places(ss, i))
  BY DEF Lead, Places
<1>2. Lead(ss, 1) = 0
  <2>1. Places(ss, 1) = {}
    BY DEF Places
  <2>2. 1 \in 1..(Len(ss) + 1)
    OBVIOUS
  <2> QED BY <1>1, <2>1, <2>2, FS_EmptySet
<1>3. \A i \in 1..(Len(ss) + 1) : Lead(ss, i) \in Nat
  BY <1>1, PlacesFinite, FS_CardinalityType
<1>4. ASSUME NEW i \in 1..Len(ss)
      PROVE  Lead(ss, i + 1) = Lead(ss, i) + Len(ss[i])
  <2> DEFINE N == {i} \X DOMAIN ss[i]
  <2>1. i \in 1..(Len(ss) + 1) /\ i + 1 \in 1..(Len(ss) + 1)
    OBVIOUS
  <2>2. /\ Places(ss, i + 1) = Places(ss, i) \cup N /\ Places(ss, i) \cap N = {}
        /\ IsFiniteSet(N) /\ Cardinality(N) = Len(ss[i])
    BY PlacesAddUp
  <2>3. IsFiniteSet(Places(ss, i))
    BY <2>1, PlacesFinite
  <2> HIDE DEF N
  <2>4. Cardinality(Places(ss, i) \cup N)
          = Cardinality(Places(ss, i)) + Cardinality(N) - Cardinality(Places(ss, i) \cap N)
    BY <2>2, <2>3, FS_Union
  <2>5. Cardinality(Places(ss, i) \cap N) = 0
    BY <2>2, FS_EmptySet
  <2>6. Lead(ss, i) \in Nat /\ Len(ss[i]) \in Nat
    <3>1. ss[i] \in Seq(T)
      OBVIOUS
    <3> QED BY <1>3, <2>1, <3>1
  <2>7. /\ Lead(ss, i) = Cardinality(Places(ss, i))
        /\ Lead(ss, i + 1) = Cardinality(Places(ss, i + 1))
    BY <1>1, <2>1
  <2>8. Cardinality(Places(ss, i + 1)) = Cardinality(Places(ss, i)) + Len(ss[i])
    <3>1. Cardinality(Places(ss, i + 1)) = Cardinality(Places(ss, i) \cup N)
      BY <2>2, Zenon
    <3>2. Cardinality(N) = Len(ss[i])
      BY <2>2
    <3> QED BY <2>4, <2>5, <2>6, <2>7, <3>1, <3>2
  <2> QED BY <2>7, <2>8
<1>5. ASSUME NEW i \in 1..(Len(ss) + 1), NEW j \in 1..(Len(ss) + 1), i =< j
      PROVE  Lead(ss, i) =< Lead(ss, j)
  <2>1. 1..(i - 1) \subseteq 1..(j - 1)
    BY <1>5
  <2>2. Places(ss, i) \in SUBSET Places(ss, j)
    BY <2>1 DEF Places
  <2>3. Cardinality(Places(ss, i)) =< Cardinality(Places(ss, j))
    BY <2>2, PlacesFinite, FS_Subset
  <2> QED BY <1>1, <2>3
<1> QED BY <1>2, <1>3, <1>4, <1>5

\* Every element of the whole has its place in one of the sequences, and keeps it.
LEMMA FlatFacts ==
  ASSUME NEW T, NEW ss \in Seq(Seq(T))
  PROVE  /\ Flat(ss) \in Seq(T) /\ Len(Flat(ss)) = Lead(ss, Len(ss) + 1)
         /\ \A i \in DOMAIN ss : \A k \in DOMAIN ss[i] :
              /\ Lead(ss, i) + k \in DOMAIN Flat(ss)
              /\ Flat(ss)[Lead(ss, i) + k] = ss[i][k]
         /\ \A n \in DOMAIN Flat(ss) : \E i \in DOMAIN ss : \E k \in DOMAIN ss[i] :
              n = Lead(ss, i) + k
<1> DEFINE N == Lead(ss, Len(ss) + 1)
           In(i, n) == Lead(ss, i) < n /\ n =< Lead(ss, i + 1)
           at(n) == CHOOSE i \in DOMAIN ss : In(i, n)
<1>1. /\ N \in Nat /\ Len(ss) \in Nat /\ DOMAIN ss = 1..Len(ss)
      /\ \A i \in DOMAIN ss : /\ Lead(ss, i) \in Nat /\ ss[i] \in Seq(T) /\ Len(ss[i]) \in Nat
                              /\ DOMAIN ss[i] = 1..Len(ss[i])
                              /\ Lead(ss, i + 1) = Lead(ss, i) + Len(ss[i])
                              /\ Lead(ss, i + 1) =< N
  <2>1. Len(ss) \in Nat /\ DOMAIN ss = 1..Len(ss) /\ Len(ss) + 1 \in 1..(Len(ss) + 1)
    OBVIOUS
  <2>2. \A i \in DOMAIN ss : /\ ss[i] \in Seq(T) /\ i \in 1..(Len(ss) + 1)
                             /\ i + 1 \in 1..(Len(ss) + 1) /\ i + 1 =< Len(ss) + 1
    BY <2>1
  <2> QED BY <2>1, <2>2, LeadFacts
<1>2. \A n \in 1..N : \E i \in DOMAIN ss : In(i, n)
  <2> TAKE n \in 1..N
  <2> DEFINE S == {j \in 1..(Len(ss) + 1) : n =< Lead(ss, j)}
  <2>1. S \in SUBSET Nat /\ Len(ss) + 1 \in S
    BY <1>1
  <2>2. PICK j \in S : \A k \in S : j =< k
    BY <2>1, LeastNumber
  <2>3. j # 1
    BY <1>1, LeadFacts
  <2>4. j - 1 \in DOMAIN ss /\ (j - 1) + 1 = j /\ j - 1 \in 1..(Len(ss) + 1)
    BY <1>1, <2>3
  <2>5. j - 1 \notin S
    BY <2>2, <2>4
  <2>6. Lead(ss, j - 1) < n
    <3>1. ~(n =< Lead(ss, j - 1)) /\ Lead(ss, j - 1) \in Nat
      BY <1>1, <2>4, <2>5
    <3> QED BY <3>1
  <2> QED BY <2>4, <2>6
<1>3. \A n \in 1..N : \A i, j \in DOMAIN ss : In(i, n) /\ In(j, n) => i = j
  <2> SUFFICES ASSUME NEW n \in 1..N, NEW i \in DOMAIN ss, NEW j \in DOMAIN ss,
                      In(i, n), In(j, n), i < j
               PROVE  FALSE
    BY <1>1
  <2>1. i + 1 \in 1..(Len(ss) + 1) /\ j \in 1..(Len(ss) + 1) /\ i + 1 =< j
    BY <1>1
  <2>2. Lead(ss, i + 1) =< Lead(ss, j) /\ Lead(ss, i + 1) \in Nat
    BY <2>1, LeadFacts
  <2> QED BY <1>1, <2>2
<1>4. Flat(ss) = [n \in 1..N |-> ss[at(n)][n - Lead(ss, at(n))]]
  BY DEF Flat
<1>5. \A n \in 1..N : /\ at(n) \in DOMAIN ss /\ n - Lead(ss, at(n)) \in DOMAIN ss[at(n)]
                      /\ Lead(ss, at(n)) + (n - Lead(ss, at(n))) = n
  <2> TAKE n \in 1..N
  <2>1. at(n) \in DOMAIN ss /\ In(at(n), n)
    BY <1>2
  <2> HIDE DEF at
  <2> QED BY <1>1, <2>1
<1>6. \A i \in DOMAIN ss : \A k \in DOMAIN ss[i] :
        Lead(ss, i) + k \in 1..N /\ at(Lead(ss, i) + k) = i
  <2> TAKE i \in DOMAIN ss
  <2> TAKE k \in DOMAIN ss[i]
  <2> DEFINE n == Lead(ss, i) + k
  <2>1. n \in 1..N /\ In(i, n)
    BY <1>1
  <2>2. at(n) \in DOMAIN ss /\ In(at(n), n)
    BY <1>2, <2>1
  <2> QED BY <1>3, <2>1, <2>2
<1>7. \A n \in 1..N : ss[at(n)][n - Lead(ss, at(n))] \in T
  <2> TAKE n \in 1..N
  <2>1. \A i \in DOMAIN ss : \A k \in DOMAIN ss[i] : ss[i][k] \in T
    BY <1>1
  <2> HIDE DEF at
  <2> QED BY <1>5, <2>1
<1> HIDE DEF at
<1>8. Flat(ss) \in [1..N -> T]
  BY <1>4, <1>7
<1>9. Flat(ss) \in Seq(T) /\ Len(Flat(ss)) = N /\ DOMAIN Flat(ss) = 1..N
  BY <1>1, <1>8
<1>10. ASSUME NEW i \in DOMAIN ss, NEW k \in DOMAIN ss[i]
       PROVE  Flat(ss)[Lead(ss, i) + k] = ss[i][k]
  <2>1. Lead(ss, i) + k \in 1..N /\ at(Lead(ss, i) + k) = i
    BY <1>6
  <2>2. (Lead(ss, i) + k) - Lead(ss, i) = k
    BY <1>1
  <2> QED BY <1>4, <2>1, <2>2
<1>11. \A n \in 1..N : \E i \in DOMAIN ss : \E k \in DOMAIN ss[i] : n = Lead(ss, i) + k
  <2> TAKE n \in 1..N
  <2>1. PICK i \in DOMAIN ss : n - Lead(ss, i) \in DOMAIN ss[i] /\ Lead(ss, i) + (n - Lead(ss, i)) = n
    BY <1>5
  <2> QED BY <2>1
<1> QED BY <1>6, <1>9, <1>10, <1>11
-----------------------------------------------------------------------------
(* Groups and rows. *)

\* Two listings of a set in the same order are the same.
LEMMA ListingUnique ==
  ASSUME NEW S, IsFiniteSet(S), NEW R, Orders(R, S),
         NEW s \in [1..Cardinality(S) -> S], InOrder(s, R),
         NEW z \in [1..Cardinality(S) -> S], InOrder(z, R)
  PROVE  s = z
<1>1. ASSUME NEW i \in 1..Cardinality(S) PROVE s[i] = z[i]
  <2>1. /\ Cardinality(Before(s[i], S, R)) = i - 1
        /\ Cardinality(Before(z[i], S, R)) = i - 1
    BY ListingFacts
  <2>2. s[i] \in S /\ z[i] \in S
    OBVIOUS
  <2>3. i \in Int
    BY FS_CardinalityType
  <2>4. ~(<<s[i], z[i]>> \in R) /\ ~(<<z[i], s[i]>> \in R)
    BY <2>1, <2>2, <2>3, EarlierHasFewer
  <2> QED BY <2>2, <2>4 DEF Orders
<1>2. /\ s = [i \in 1..Cardinality(S) |-> s[i]]
      /\ z = [i \in 1..Cardinality(S) |-> z[i]]
  OBVIOUS
<1>3. [i \in 1..Cardinality(S) |-> s[i]] = [i \in 1..Cardinality(S) |-> z[i]]
  BY <1>1
<1> QED BY <1>2, <1>3, Zenon

GroupKeys(u) == IF u.grouped THEN Value ELSE {NoValue}

\* The rows of a group, as a set.
InGroup(u, d, v) ==
  IF Plain(u) THEN d.tasks ELSE {t \in Members(u, d, v) : VisibleOrphan(u, d, t)}

RowOrder(u, d) ==
  IF Plain(u) THEN {r \in d.tasks \X d.tasks : r[1] < r[2]} ELSE TaskTree[d]

LEMMA GroupRowsFacts ==
  ASSUME NEW u, NEW d \in Forest, NEW v
  PROVE  /\ InGroup(u, d, v) \in SUBSET d.tasks /\ IsFiniteSet(InGroup(u, d, v))
         /\ Orders(RowOrder(u, d), InGroup(u, d, v))
         /\ GroupRows(u, d, v) \in [1..Cardinality(InGroup(u, d, v)) -> InGroup(u, d, v)]
         /\ InOrder(GroupRows(u, d, v), RowOrder(u, d))
         /\ GroupRows(u, d, v) \in Seq(Task)
         /\ Range(GroupRows(u, d, v)) = InGroup(u, d, v)
         /\ DOMAIN GroupRows(u, d, v) = 1..Len(GroupRows(u, d, v))
         /\ Len(GroupRows(u, d, v)) = Cardinality(InGroup(u, d, v))
         /\ GroupRows(u, d, v) = <<>> <=> InGroup(u, d, v) = {}
<1> DEFINE S == InGroup(u, d, v)
           R == RowOrder(u, d)
           s == GroupRows(u, d, v)
<1>1. S \in SUBSET d.tasks /\ IsFiniteSet(S)
  <2>1. S \in SUBSET d.tasks
    BY DEF InGroup, Members
  <2> QED BY <2>1, ForestFacts, FS_Subset
<1>2. Orders(R, S)
  <2>1. CASE Plain(u)
    <3>1. d.tasks \subseteq Nat
      BY ForestFacts
    <3>2. R = {r \in d.tasks \X d.tasks : r[1] < r[2]}
      BY <2>1 DEF RowOrder
    <3>3. \A x, y \in d.tasks : <<x, y>> \in R <=> x < y
      BY <3>2
    <3> HIDE DEF R, S
    <3> QED BY <1>1, <3>1, <3>3 DEF Orders
  <2>2. CASE ~Plain(u)
    <3>1. R = TaskTree[d]
      BY <2>2 DEF RowOrder
    <3> HIDE DEF S
    <3> QED BY <1>1, <3>1, TreeOrders
  <2> QED BY <2>1, <2>2
<1>3. s = CHOOSE z \in [1..Cardinality(S) -> S] : InOrder(z, R)
  <2>1. CASE Plain(u)
    <3>1. R = {r \in d.tasks \X d.tasks : r[1] < r[2]} /\ S = d.tasks
      BY <2>1 DEF RowOrder, InGroup
    <3>2. s = CHOOSE z \in [1..Cardinality(S) -> S] :
                \A i \in DOMAIN z : \A j \in 1..(i - 1) : z[j] < z[i]
      BY <2>1, <3>1 DEF GroupRows, Listed
    <3>3. ASSUME NEW z \in [1..Cardinality(S) -> S]
          PROVE  InOrder(z, R) <=> \A i \in DOMAIN z : \A j \in 1..(i - 1) : z[j] < z[i]
      <4>1. \A i \in DOMAIN z : \A j \in 1..(i - 1) : z[j] \in S /\ z[i] \in S
        BY <1>1, FS_CardinalityType
      <4>2. \A i \in DOMAIN z : \A j \in 1..(i - 1) : <<z[j], z[i]>> \in R <=> z[j] < z[i]
        BY <3>1, <4>1
      <4> HIDE DEF R, S
      <4> QED BY <4>2 DEF InOrder
    <3> HIDE DEF s, R, S
    <3> QED BY <3>2, <3>3
  <2>2. CASE ~Plain(u)
    <3>1. R = TaskTree[d] /\ S = {t \in Members(u, d, v) : VisibleOrphan(u, d, t)}
      BY <2>2 DEF RowOrder, InGroup
    <3>2. s = CHOOSE z \in [1..Cardinality(S) -> S] :
                \A i \in DOMAIN z : \A j \in 1..(i - 1) : <<z[j], z[i]>> \in R
      BY <2>2, <3>1 DEF GroupRows, Arrange, Listed
    <3> QED BY <3>2 DEF InOrder
  <2> QED BY <2>1, <2>2
<1> HIDE DEF s, R, S
<1>4. s \in [1..Cardinality(S) -> S] /\ InOrder(s, R)
  BY <1>1, <1>2, <1>3, ListingExists
<1>5. /\ Cardinality(S) \in Nat /\ s \in Seq(S) /\ Len(s) = Cardinality(S) /\ Range(s) = S
  BY <1>1, <1>2, <1>4, ListingFacts
<1>6. S \subseteq Task
  BY <1>1, ForestFacts
<1>7. s \in [1..Cardinality(S) -> Task]
  BY <1>4, <1>6
<1>8. s \in Seq(Task) /\ DOMAIN s = 1..Len(s)
  BY <1>5, <1>7
<1>9. s = <<>> <=> S = {}
  <2>1. Cardinality(S) = 0 <=> S = {}
    BY <1>1, FS_EmptySet
  <2>2. s = <<>> <=> Len(s) = 0
    BY <1>8
  <2> QED BY <1>5, <2>1, <2>2
<1> QED BY <1>1, <1>2, <1>4, <1>5, <1>8, <1>9 DEF s, R, S

Live(u, d) == {v \in GroupKeys(u) : InGroup(u, d, v) # {}}

Group == [key: Value \cup {NoValue}, rows: Seq(Task)]

\* The groups are those that have rows, in the order of their keys.
LEMMA GroupsFacts ==
  ASSUME NEW u, NEW d \in Forest
  PROVE  /\ Groups(u, d) \in Seq(Group)
         /\ DOMAIN Groups(u, d) = 1..Len(Groups(u, d))
         /\ IsFiniteSet(Live(u, d)) /\ Len(Groups(u, d)) = Cardinality(Live(u, d))
         /\ \A i \in DOMAIN Groups(u, d) :
              LET g == Groups(u, d)[i] IN
              /\ g.key \in Live(u, d) /\ g.rows = GroupRows(u, d, g.key)
              /\ \A j \in 1..(i - 1) : Groups(u, d)[j].key < g.key
         /\ \A v \in Live(u, d) : \E i \in DOMAIN Groups(u, d) : Groups(u, d)[i].key = v
<1> DEFINE Rec(v) == [key |-> v, rows |-> GroupRows(u, d, v)]
           V == Live(u, d)
           G == {g \in {Rec(v) : v \in GroupKeys(u)} : g.rows # <<>>}
           R == {r \in G \X G : r[1].key < r[2].key}
           gs == Groups(u, d)
<1>1. IsFiniteSet(V) /\ V \subseteq GroupKeys(u) /\ GroupKeys(u) \subseteq Nat
      /\ GroupKeys(u) \subseteq Value \cup {NoValue}
  <2>1. /\ IsFiniteSet(GroupKeys(u)) /\ GroupKeys(u) \subseteq Nat
        /\ GroupKeys(u) \subseteq Value \cup {NoValue}
    <3>1. IsFiniteSet(Value) /\ Value \subseteq Nat /\ IsFiniteSet({NoValue}) /\ NoValue \in Nat
      BY RowsAssumption, FS_Singleton DEF NoValue
    <3>2. GroupKeys(u) = Value \/ GroupKeys(u) = {NoValue}
      BY DEF GroupKeys
    <3> QED BY <3>1, <3>2
  <2>2. V \in SUBSET GroupKeys(u)
    BY DEF Live
  <2> QED BY <2>1, <2>2, FS_Subset
<1>2. \A g : g \in G <=> \E v \in V : g = Rec(v)
  <2>1. \A v \in GroupKeys(u) : Rec(v).rows # <<>> <=> v \in V
    BY GroupRowsFacts DEF Live
  <2>2. V \subseteq GroupKeys(u)
    BY <1>1
  <2> HIDE DEF Rec, V
  <2> QED BY <2>1, <2>2
<1>3. \A v \in V : Rec(v) \in Group /\ Rec(v).key = v
  BY <1>1, GroupRowsFacts DEF Group
<1>4. gs = CHOOSE z \in [1..Cardinality(G) -> G] :
             \A i \in DOMAIN z : \A j \in 1..(i - 1) : z[j].key < z[i].key
  BY DEF Groups, Listed, GroupKeys
<1>5. \A g \in G : g.key \in V /\ g = Rec(g.key) /\ g \in Group
  BY <1>2, <1>3
<1> HIDE DEF Rec, V, G, gs
<1>6. IsFiniteSet(G) /\ Cardinality(G) = Cardinality(V)
  <2> DEFINE f == [v \in V |-> Rec(v)]
  <2>1. f \in [V -> G] /\ \A v \in V : f[v] = Rec(v)
    BY <1>2
  <2>2. \A v, w \in V : f[v] = f[w] => v = w
    BY <1>3, <2>1
  <2>3. \A g \in G : \E v \in V : f[v] = g
    BY <1>2, <2>1
  <2>4. f \in Bijection(V, G)
    BY <2>1, <2>2, <2>3 DEF Bijection, Injection, Surjection, IsInjective
  <2>5. ExistsBijection(V, G)
    BY <2>4 DEF ExistsBijection
  <2> QED BY <1>1, <2>5, FS_Bijection
<1>7. \A x, y \in G : <<x, y>> \in R <=> x.key < y.key
  OBVIOUS
<1>8. Orders(R, G)
  <2>1. \A g \in G : g.key \in Nat
    BY <1>1, <1>5
  <2>2. \A x, y \in G : x.key = y.key => x = y
    BY <1>5
  <2> HIDE DEF R
  <2>3. \A x \in G : <<x, x>> \notin R
    BY <1>7, <2>1
  <2>4. \A x, y \in G : <<x, y>> \in R \/ <<y, x>> \in R \/ x = y
    <3> TAKE x, y \in G
    <3>1. x.key < y.key \/ y.key < x.key \/ x.key = y.key
      BY <2>1
    <3> QED BY <1>7, <2>2, <3>1
  <2>5. \A x, y, z \in G : <<x, y>> \in R /\ <<y, z>> \in R => <<x, z>> \in R
    BY <1>7, <2>1
  <2> QED BY <2>3, <2>4, <2>5 DEF Orders
<1>9. \A z \in [1..Cardinality(G) -> G] :
        InOrder(z, R) <=> \A i \in DOMAIN z : \A j \in 1..(i - 1) : z[j].key < z[i].key
  <2> TAKE z \in [1..Cardinality(G) -> G]
  <2>1. \A i \in DOMAIN z : \A j \in 1..(i - 1) : z[j] \in G /\ z[i] \in G
    BY <1>6, FS_CardinalityType
  <2> HIDE DEF R
  <2>2. \A i \in DOMAIN z : \A j \in 1..(i - 1) : <<z[j], z[i]>> \in R <=> z[j].key < z[i].key
    BY <1>7, <2>1
  <2> QED BY <2>2 DEF InOrder
<1> HIDE DEF R
<1>10. gs \in [1..Cardinality(G) -> G] /\ InOrder(gs, R)
  <2>1. \E z \in [1..Cardinality(G) -> G] : InOrder(z, R)
    BY <1>6, <1>8, ListingExists
  <2> QED BY <1>4, <1>9, <2>1
<1>11. /\ Cardinality(G) \in Nat /\ gs \in Seq(G) /\ Len(gs) = Cardinality(G) /\ Range(gs) = G
  BY <1>6, <1>8, <1>10, ListingFacts
<1>12. gs \in Seq(Group) /\ DOMAIN gs = 1..Len(gs)
  <2>1. gs \in [1..Cardinality(G) -> Group]
    BY <1>5, <1>10
  <2> QED BY <1>11, <2>1
<1>13. ASSUME NEW i \in DOMAIN gs
       PROVE  /\ gs[i].key \in V /\ gs[i].rows = GroupRows(u, d, gs[i].key)
              /\ \A j \in 1..(i - 1) : gs[j].key < gs[i].key
  <2>1. gs[i] \in G
    BY <1>10
  <2>2. gs[i] = Rec(gs[i].key) /\ gs[i].key \in V
    BY <1>5, <2>1
  <2>3. gs[i].rows = GroupRows(u, d, gs[i].key)
    BY <2>2 DEF Rec
  <2> QED BY <1>9, <1>10, <2>2, <2>3
<1>14. ASSUME NEW v \in V PROVE \E i \in DOMAIN gs : gs[i].key = v
  <2>1. Rec(v) \in Range(gs) /\ Rec(v).key = v
    BY <1>2, <1>3, <1>11
  <2> QED BY <2>1 DEF Range
<1> QED BY <1>1, <1>6, <1>11, <1>12, <1>13, <1>14 DEF V, gs

-----------------------------------------------------------------------------
(* Where a task has its row. *)

\* A family has one topmost task, so its tasks are in one group.
LEMMA FamilyHasOneGroup ==
  ASSUME NEW d \in Forest, NEW t \in d.tasks, NEW a \in Line(d, t)
  PROVE  GroupValue(d, a) = GroupValue(d, t) /\ GroupValue(d, t) \in Value
<1> DEFINE Top(x) == ~Loaded(d, d.parent[x])
           root(x) == GroupingTask[d][x]
<1>1. \A x \in d.tasks : x \in Task /\ root(x) = CHOOSE r \in Line(d, x) : Top(r)
  BY ForestFacts DEF GroupingTask
<1>2. \A x \in d.tasks : \E r \in Line(d, x) : Top(r)
  <2> TAKE x \in d.tasks
  <2>1. Line(d, x) \in SUBSET Task /\ Line(d, x) # {}
    BY LineFacts, ForestFacts
  <2>2. PICK r \in Line(d, x) : d.parent[r] \notin Line(d, x)
    BY <2>1, ForestFacts DEF Acyclic
  <2>3. Top(r)
    <3> SUFFICES ASSUME Loaded(d, d.parent[r]) PROVE FALSE
      OBVIOUS
    <3>1. Parent(d, r) = d.parent[r] /\ Parent(d, r) # NoTask
      BY ForestFacts DEF Parent, Loaded
    <3> QED BY <2>2, <3>1, LineFacts
  <2> QED BY <2>3
<1>3. \A x \in d.tasks : \A r, s \in Line(d, x) : Top(r) /\ Top(s) => r = s
  <2> SUFFICES ASSUME NEW x \in d.tasks, NEW r \in Line(d, x), NEW s \in Line(d, x),
                      Top(r), Top(s), r # s
               PROVE  FALSE
    OBVIOUS
  <2>1. r \in d.tasks /\ s \in d.tasks
    BY LineFacts
  <2>2. Parent(d, r) = NoTask /\ Parent(d, s) = NoTask
    BY DEF Parent
  <2> QED BY <2>1, <2>2, LineIsAChain, LineOfParent
<1>4. a \in d.tasks /\ Line(d, a) \subseteq Line(d, t)
  BY LineFacts, LineIsClosed
<1> HIDE DEF Top
<1>5. root(a) \in Line(d, a) /\ Top(root(a)) /\ root(t) \in Line(d, t) /\ Top(root(t))
  BY <1>1, <1>2, <1>4
<1>6. root(a) = root(t)
  BY <1>3, <1>4, <1>5
<1>7. root(t) \in Task
  BY <1>5, LineFacts, ForestFacts
<1> QED BY <1>6, <1>7, ForestFacts DEF GroupValue

\* The group of a loaded task.
GroupKey(u, d, t) == IF u.grouped THEN GroupValue(d, t) ELSE NoValue

LEMMA InGroupFacts ==
  ASSUME NEW u, NEW d \in Forest, NEW v \in GroupKeys(u), NEW t \in InGroup(u, d, v)
  PROVE  t \in d.tasks /\ t \in Task /\ v = GroupKey(u, d, t)
<1>1. t \in d.tasks
  BY GroupRowsFacts
<1>2. CASE u.grouped
  <2>1. t \in Members(u, d, v)
    BY <1>2 DEF InGroup, Plain
  <2> QED BY <1>1, <1>2, <2>1, ForestFacts DEF Members, GroupKey
<1>3. CASE ~u.grouped
  BY <1>1, <1>3, ForestFacts DEF GroupKeys, GroupKey
<1> QED BY <1>2, <1>3

LEMMA GroupOfFacts ==
  ASSUME NEW u, NEW d \in Forest, NEW t
  PROVE  LET gs == Groups(u, d) IN
         /\ GroupOf(gs, t) # 0 <=> \E v \in GroupKeys(u) : t \in InGroup(u, d, v)
         /\ GroupOf(gs, t) # 0 => /\ GroupOf(gs, t) \in DOMAIN gs
                                  /\ t \in InGroup(u, d, gs[GroupOf(gs, t)].key)
                                  /\ gs[GroupOf(gs, t)].key = GroupKey(u, d, t)
<1> DEFINE gs == Groups(u, d)
           In(i) == t \in Range(gs[i].rows)
<1>1. \A i \in DOMAIN gs : /\ gs[i].key \in GroupKeys(u) /\ i # 0
                           /\ In(i) <=> t \in InGroup(u, d, gs[i].key)
  <2> TAKE i \in DOMAIN gs
  <2>1. gs[i].key \in Live(u, d) /\ gs[i].rows = GroupRows(u, d, gs[i].key) /\ i \in 1..Len(gs)
    BY GroupsFacts
  <2>2. Range(GroupRows(u, d, gs[i].key)) = InGroup(u, d, gs[i].key)
    BY GroupRowsFacts
  <2>3. gs[i].key \in GroupKeys(u)
    BY <2>1 DEF Live
  <2> QED BY <2>1, <2>2, <2>3
<1>2. \A v \in GroupKeys(u) : t \in InGroup(u, d, v) => \E i \in DOMAIN gs : gs[i].key = v
  <2> TAKE v \in GroupKeys(u)
  <2>1. t \in InGroup(u, d, v) => v \in Live(u, d)
    BY DEF Live
  <2> QED BY <2>1, GroupsFacts
<1> HIDE DEF gs
<1>3. (\E i \in DOMAIN gs : In(i)) <=> \E v \in GroupKeys(u) : t \in InGroup(u, d, v)
  BY <1>1, <1>2
<1>4. GroupOf(gs, t) = IF \E i \in DOMAIN gs : In(i) THEN CHOOSE i \in DOMAIN gs : In(i) ELSE 0
  BY DEF GroupOf
<1>5. GroupOf(gs, t) # 0 <=> \E i \in DOMAIN gs : In(i)
  <2> HIDE DEF In
  <2> QED BY <1>1, <1>4
<1>6. GroupOf(gs, t) # 0 => GroupOf(gs, t) \in DOMAIN gs /\ In(GroupOf(gs, t))
  <2> HIDE DEF In
  <2> QED BY <1>4, <1>5
<1>7. GroupOf(gs, t) # 0 => gs[GroupOf(gs, t)].key = GroupKey(u, d, t)
  BY <1>1, <1>6, InGroupFacts
<1> QED BY <1>1, <1>3, <1>5, <1>6, <1>7 DEF gs

\* The rows of the groups that are not closed.
OpenRows(u, gs) == [i \in DOMAIN gs |-> IF Closed(u, gs[i]) THEN <<>> ELSE gs[i].rows]

LEMMA OpenRowsFacts ==
  ASSUME NEW u, NEW gs \in Seq(Group)
  PROVE  /\ OpenRows(u, gs) \in Seq(Seq(Task)) /\ Shown(u, gs) = Flat(OpenRows(u, gs))
         /\ Shown(u, gs) \in Seq(Task) /\ DOMAIN Shown(u, gs) = 1..Len(Shown(u, gs))
         /\ Len(Shown(u, gs)) \in Nat
<1>1. OpenRows(u, gs) \in [1..Len(gs) -> Seq(Task)]
  <2>1. \A i \in 1..Len(gs) : gs[i] \in Group
    OBVIOUS
  <2>2. \A i \in 1..Len(gs) : gs[i].rows \in Seq(Task)
    BY <2>1 DEF Group
  <2>3. <<>> \in Seq(Task) /\ DOMAIN gs = 1..Len(gs)
    OBVIOUS
  <2> QED BY <2>2, <2>3 DEF OpenRows
<1>2. OpenRows(u, gs) \in Seq(Seq(Task))
  BY <1>1
<1>3. Shown(u, gs) = Flat(OpenRows(u, gs))
  BY DEF Shown, OpenRows
<1>4. Shown(u, gs) \in Seq(Task)
  BY <1>2, <1>3, FlatFacts
<1> QED BY <1>2, <1>3, <1>4

\* The rows shown are those of the groups that are not closed.
LEMMA ShownFacts ==
  ASSUME NEW u, NEW d \in Forest
  PROVE  /\ VisibleTasks(u, d) \in Seq(Task)
         /\ DOMAIN VisibleTasks(u, d) = 1..Len(VisibleTasks(u, d))
         /\ Len(VisibleTasks(u, d)) \in Nat
         /\ \A t : t \in Range(VisibleTasks(u, d)) <=>
              \E v \in GroupKeys(u) : v \notin u.closed /\ t \in InGroup(u, d, v)
<1> DEFINE gs == Groups(u, d)
           ss == OpenRows(u, gs)
<1>1. gs \in Seq(Group) /\ VisibleTasks(u, d) = Shown(u, gs)
  BY GroupsFacts DEF VisibleTasks
<1>2. /\ ss \in Seq(Seq(Task)) /\ Shown(u, gs) = Flat(ss) /\ DOMAIN ss = DOMAIN gs
      /\ Shown(u, gs) \in Seq(Task) /\ DOMAIN Shown(u, gs) = 1..Len(Shown(u, gs))
      /\ Len(Shown(u, gs)) \in Nat
  BY <1>1, OpenRowsFacts DEF OpenRows
<1>3. \A i \in DOMAIN gs :
        /\ gs[i].key \in GroupKeys(u)
        /\ DOMAIN ss[i] = 1..Len(ss[i])
        /\ gs[i].key \in u.closed => ss[i] = <<>>
        /\ gs[i].key \notin u.closed => Range(ss[i]) = InGroup(u, d, gs[i].key)
  <2> TAKE i \in DOMAIN gs
  <2>1. gs[i].key \in Live(u, d) /\ gs[i].rows = GroupRows(u, d, gs[i].key)
    BY GroupsFacts
  <2>2. ss[i] = IF gs[i].key \in u.closed THEN <<>> ELSE GroupRows(u, d, gs[i].key)
    BY <2>1 DEF OpenRows, Closed
  <2>3. ss[i] \in Seq(Task)
    BY <1>2
  <2>4. Range(GroupRows(u, d, gs[i].key)) = InGroup(u, d, gs[i].key)
    BY GroupRowsFacts
  <2>5. gs[i].key \in GroupKeys(u)
    BY <2>1 DEF Live
  <2>6. DOMAIN ss[i] = 1..Len(ss[i])
    BY <2>3
  <2> QED BY <2>2, <2>4, <2>5, <2>6
<1>4. \A v \in GroupKeys(u) : InGroup(u, d, v) # {} => \E i \in DOMAIN gs : gs[i].key = v
  <2> TAKE v \in GroupKeys(u)
  <2>1. InGroup(u, d, v) # {} => v \in Live(u, d)
    BY DEF Live
  <2> QED BY <2>1, GroupsFacts
<1> HIDE DEF gs, ss
<1>5. ASSUME NEW t, NEW v \in GroupKeys(u), v \notin u.closed, t \in InGroup(u, d, v)
      PROVE  t \in Range(Flat(ss))
  <2>1. PICK i \in DOMAIN gs : gs[i].key = v
    BY <1>4, <1>5
  <2>2. t \in Range(ss[i])
    BY <1>3, <1>5, <2>1
  <2>3. PICK k \in DOMAIN ss[i] : ss[i][k] = t
    BY <2>2 DEF Range
  <2>4. Lead(ss, i) + k \in DOMAIN Flat(ss) /\ Flat(ss)[Lead(ss, i) + k] = t
    BY <1>2, <2>1, <2>3, FlatFacts
  <2> QED BY <2>4 DEF Range
<1>6. ASSUME NEW t \in Range(Flat(ss))
      PROVE  \E v \in GroupKeys(u) : v \notin u.closed /\ t \in InGroup(u, d, v)
  <2>1. PICK n \in DOMAIN Flat(ss) : Flat(ss)[n] = t
    BY DEF Range
  <2>2. PICK i \in DOMAIN ss : \E k \in DOMAIN ss[i] : n = Lead(ss, i) + k
    BY <1>2, FlatFacts
  <2>3. PICK k \in DOMAIN ss[i] : n = Lead(ss, i) + k
    BY <2>2
  <2>4. ss[i][k] = t
    BY <1>2, <2>1, <2>2, <2>3, FlatFacts
  <2>5. i \in DOMAIN gs /\ t \in Range(ss[i])
    BY <1>2, <2>4 DEF Range
  <2>6. gs[i].key \notin u.closed
    <3> SUFFICES ASSUME gs[i].key \in u.closed PROVE FALSE
      OBVIOUS
    <3>1. ss[i] = <<>>
      BY <1>3, <2>5
    <3> QED BY <2>3, <3>1
  <2> QED BY <1>3, <2>5, <2>6
<1> QED BY <1>1, <1>2, <1>5, <1>6

-----------------------------------------------------------------------------
(* The cursor. *)

\* What the groups and rows depend on.
SameView(u, w) ==
  /\ w.grouped = u.grouped /\ w.display = u.display
  /\ w.over = u.over /\ w.closed = u.closed

LEMMA SameRows ==
  ASSUME NEW u, NEW w, NEW d, SameView(u, w)
  PROVE  /\ Groups(w, d) = Groups(u, d) /\ VisibleTasks(w, d) = VisibleTasks(u, d)
         /\ Plain(w) <=> Plain(u)
         /\ \A t : GroupKey(w, d, t) = GroupKey(u, d, t)
<1>1. /\ w.grouped = u.grouped /\ w.display = u.display
      /\ w.over = u.over /\ w.closed = u.closed
  BY DEF SameView
<1>2. Plain(w) <=> Plain(u)
  BY <1>1 DEF Plain
<1>3. \A t : VisibleOrphan(w, d, t) <=> VisibleOrphan(u, d, t)
  BY <1>1 DEF VisibleOrphan, SubtaskDisplayFor
<1>4. \A v : Members(w, d, v) = Members(u, d, v)
  BY <1>1 DEF Members
<1>5. \A v : GroupRows(w, d, v) = GroupRows(u, d, v)
  <2> TAKE v
  <2>1. {t \in Members(w, d, v) : VisibleOrphan(w, d, t)}
          = {t \in Members(u, d, v) : VisibleOrphan(u, d, t)}
    BY <1>3, <1>4
  <2>2. Arrange(Members(w, d, v), w, d) = Arrange(Members(u, d, v), u, d)
    BY <2>1 DEF Arrange, Listed
  <2> QED BY <1>2, <2>2 DEF GroupRows
<1> DEFINE K(x) == IF x.grouped THEN Value ELSE {NoValue}
           G(x) == {g \in {[key |-> v, rows |-> GroupRows(x, d, v)] : v \in K(x)} : g.rows # <<>>}
<1>6. K(w) = K(u)
  BY <1>1
<1>7. G(w) = G(u)
  <2>1. {[key |-> v, rows |-> GroupRows(w, d, v)] : v \in K(w)}
          = {[key |-> v, rows |-> GroupRows(u, d, v)] : v \in K(u)}
    <3> HIDE DEF K
    <3> QED BY <1>5, <1>6
  <2> QED BY <2>1
<1>8. Groups(w, d) = Groups(u, d)
  <2>1. \A x : Groups(x, d) = Listed(G(x), LAMBDA g, h : g.key < h.key)
    BY DEF Groups
  <2> HIDE DEF G
  <2> QED BY <1>7, <2>1 DEF Listed
<1>9. Shown(w, Groups(u, d)) = Shown(u, Groups(u, d))
  BY <1>1 DEF Shown, Closed
<1>10. VisibleTasks(w, d) = VisibleTasks(u, d)
  BY <1>8, <1>9 DEF VisibleTasks
<1>11. \A t : GroupKey(w, d, t) = GroupKey(u, d, t)
  BY <1>1 DEF GroupKey
<1> QED BY <1>2, <1>8, <1>10, <1>11

\* The cursor is at the row of the selected task, or at a header and at no row.
\* When no row is shown, the task that stays selected is not in a closed group.
Marked(u, d) ==
  LET rows == VisibleTasks(u, d) IN
  IF u.header THEN rows = <<>> \/ u.cursor = -1
  ELSE IF rows = <<>> THEN u.sel \in d.tasks => GroupKey(u, d, u.sel) \notin u.closed
  ELSE u.cursor + 1 \in DOMAIN rows /\ rows[u.cursor + 1] = u.sel

\* A plain list in which the subtasks of a task were toggled.
Toggled(u) == ~u.grouped /\ u.display = "separate" /\ ~Plain(u)

Follows(u, d) ==
  /\ u \in UIState
  /\ u.header => u.grouped
  /\ Toggled(u) \/ Marked(u, d)

LEMMA StillFollows ==
  ASSUME NEW u, NEW d, Follows(u, d), NEW w \in UIState, SameView(u, w),
         w.header = u.header, w.cursor = u.cursor, w.sel = u.sel
  PROVE  Follows(w, d)
<1>1. VisibleTasks(w, d) = VisibleTasks(u, d) /\ (Plain(w) <=> Plain(u))
      /\ GroupKey(w, d, u.sel) = GroupKey(u, d, u.sel)
  BY SameRows
<1>2. /\ w.grouped = u.grouped /\ w.display = u.display
      /\ w.over = u.over /\ w.closed = u.closed
  BY DEF SameView
<1>3. Toggled(w) <=> Toggled(u)
  BY <1>1, <1>2 DEF Toggled
<1>4. Marked(w, d) <=> Marked(u, d)
  BY <1>1, <1>2 DEF Marked
<1> QED BY <1>2, <1>3, <1>4 DEF Follows

LEMMA AtFacts ==
  ASSUME NEW s, NEW x
  PROVE  /\ At(s, x) \in DOMAIN s \cup {0}
         /\ x \in Range(s) => At(s, x) \in DOMAIN s /\ s[At(s, x)] = x
BY DEF At, Range

\* Every row shown is a task in a group.
LEMMA RowFacts ==
  ASSUME NEW u \in UIState, NEW d \in Forest, NEW n \in DOMAIN VisibleTasks(u, d)
  PROVE  LET t == VisibleTasks(u, d)[n] IN
         /\ t \in Task /\ t \in d.tasks /\ GroupOf(Groups(u, d), t) # 0
         /\ GroupKey(u, d, t) \notin u.closed
<1> DEFINE t == VisibleTasks(u, d)[n]
<1>1. t \in Range(VisibleTasks(u, d))
  BY DEF Range
<1>2. PICK v \in GroupKeys(u) : v \notin u.closed /\ t \in InGroup(u, d, v)
  BY <1>1, ShownFacts
<1>3. t \in d.tasks /\ t \in Task /\ v = GroupKey(u, d, t)
  BY <1>2, InGroupFacts
<1>4. GroupOf(Groups(u, d), t) # 0
  BY <1>2, GroupOfFacts
<1> QED BY <1>2, <1>3, <1>4

\* selectTaskAt ends with the cursor at the row of the selected task.
LEMMA SelectTaskAtFollows ==
  ASSUME NEW u \in UIState, NEW d \in Forest, NEW n \in Int
  PROVE  /\ Follows(SelectTaskAt(u, d, n), d)
         /\ SelectTaskAt(u, d, n).grouped = u.grouped
<1> DEFINE gs == Groups(u, d)
           rows == VisibleTasks(u, d)
           at == Clamp(n, 0, Len(rows) - 1)
           g == GroupOf(gs, rows[at + 1])
           w == SelectTaskAt(u, d, n)
<1>1. /\ rows \in Seq(Task) /\ DOMAIN rows = 1..Len(rows) /\ Len(rows) \in Nat
      /\ rows = Shown(u, gs)
  BY ShownFacts DEF VisibleTasks
<1>2. CASE rows = <<>>
  <2>1. w = [NoHeader(u) EXCEPT !.cursor = 0, !.sel = NoTask]
    BY <1>1, <1>2 DEF SelectTaskAt
  <2> DEFINE x == NoHeader(u)
  <2>a. x \in UIState /\ SameView(u, x) /\ x.header = FALSE
    BY DEF NoHeader, UIState, SameView
  <2> HIDE DEF x, w
  <2>2. w \in UIState /\ SameView(u, w) /\ w.header = FALSE /\ w.sel = NoTask
    <3> DEFINE c == 0
    <3>c. c \in Int
      OBVIOUS
    <3> HIDE DEF c
    <3>1. w = [x EXCEPT !.cursor = c, !.sel = NoTask]
      BY <2>1 DEF x, c
    <3>2. w \in UIState
      BY <2>a, <3>c, <3>1 DEF UIState
    <3>3. w.grouped = x.grouped /\ w.display = x.display /\ w.over = x.over
          /\ w.closed = x.closed /\ w.header = x.header /\ w.sel = NoTask
      BY <2>a, <3>1 DEF UIState
    <3> QED BY <2>a, <3>2, <3>3 DEF SameView
  <2>3. VisibleTasks(w, d) = <<>>
    BY <1>2, <2>2, SameRows
  <2>4. NoTask \notin d.tasks
    BY ForestFacts
  <2> QED BY <2>2, <2>3, <2>4 DEF Follows, Marked, SameView, w
<1>3. CASE rows # <<>>
  <2>1. Len(rows) > 0
    BY <1>1, <1>3
  <2>2. at \in Int /\ at + 1 \in DOMAIN rows
    BY <1>1, <2>1 DEF Clamp
  <2>3. rows[at + 1] \in Task /\ g # 0
    BY <2>2, RowFacts
  <2>4. g \in Nat \ {0}
    BY <2>3, GroupOfFacts, GroupsFacts
  <2>5. w = [NoHeader(u) EXCEPT !.cursor = at, !.sel = rows[at + 1], !.focused = NoValue,
                                !.groupCursor = IF u.grouped THEN g ELSE @]
    BY <1>1, <1>3 DEF SelectTaskAt
  <2> HIDE DEF at, g
  <2>6. /\ w \in UIState /\ SameView(u, w) /\ w.header = FALSE
        /\ w.sel = rows[at + 1] /\ w.cursor = at
    BY <2>2, <2>3, <2>4, <2>5 DEF NoHeader, UIState, SameView
  <2>7. VisibleTasks(w, d) = rows
    BY <2>6, SameRows
  <2> HIDE DEF rows, w
  <2>8. Marked(w, d)
    BY <1>3, <2>2, <2>6, <2>7 DEF Marked
  <2> QED BY <2>6, <2>8 DEF Follows, SameView, w
<1> QED BY <1>2, <1>3

LEMMA SelectTaskRefFollows ==
  ASSUME NEW u \in UIState, NEW d \in Forest, NEW t,
         VisibleTasks(u, d) # <<>>
         \/ /\ u.header => u.grouped
            /\ ~u.header => (u.sel \in d.tasks => GroupKey(u, d, u.sel) \notin u.closed)
  PROVE  Follows(SelectTaskRef(u, d, t), d)
<1> DEFINE rows == VisibleTasks(u, d)
           w == SelectTaskRef(u, d, t)
<1>1. CASE rows = <<>>
  <2>1. w = [u EXCEPT !.cursor = 0]
    BY <1>1 DEF SelectTaskRef
  <2>2. w \in UIState /\ SameView(u, w) /\ w.header = u.header /\ w.sel = u.sel
    BY <2>1 DEF UIState, SameView
  <2> HIDE DEF w
  <2>3. VisibleTasks(w, d) = <<>> /\ GroupKey(w, d, u.sel) = GroupKey(u, d, u.sel)
    <3>1. SameView(u, w)
      BY <2>2
    <3>2. VisibleTasks(w, d) = VisibleTasks(u, d)
      BY <3>1, SameRows
    <3>3. GroupKey(w, d, u.sel) = GroupKey(u, d, u.sel)
      BY <2>2 DEF SameView, GroupKey
    <3> QED BY <1>1, <3>2, <3>3
  <2>4. w.grouped = u.grouped /\ w.closed = u.closed
    BY <2>2 DEF SameView
  <2>5. Marked(w, d)
    BY <1>1, <2>2, <2>3, <2>4 DEF Marked
  <2> QED BY <1>1, <2>2, <2>4, <2>5 DEF Follows, w
<1>2. CASE rows # <<>>
  <2> DEFINE n == IF t \in Range(rows) THEN At(rows, t) - 1 ELSE 0
  <2>1. w = SelectTaskAt(u, d, n)
    BY <1>2 DEF SelectTaskRef
  <2>2. n \in Int
    <3>1. At(rows, t) \in DOMAIN rows \cup {0} /\ DOMAIN rows = 1..Len(rows)
      BY AtFacts, ShownFacts
    <3> QED BY <3>1
  <2> HIDE DEF n
  <2> QED BY <2>1, <2>2, SelectTaskAtFollows
<1> QED BY <1>1, <1>2

LEMMA FocusHeaderFollows ==
  ASSUME NEW u \in UIState, u.grouped, NEW d, NEW gs \in Seq(Group), NEW i \in DOMAIN gs,
         NEW p \in Task \cup {NoTask}
  PROVE  Follows(FocusHeader(u, gs, i, p), d)
<1> DEFINE w == FocusHeader(u, gs, i, p)
<1>1. gs[i].key \in Value \cup {NoValue} /\ i \in Nat \ {0}
  <2>1. i \in 1..Len(gs) /\ Len(gs) \in Nat /\ gs[i] \in Group
    OBVIOUS
  <2> QED BY <2>1 DEF Group
<1> DEFINE k == gs[i].key
           s == IF p = NoTask THEN NoTask ELSE u.sel
           c == -1
<1> HIDE DEF k, s, c
<1>3. w = [u EXCEPT !.groupCursor = i, !.header = TRUE, !.headerTask = p,
                    !.focused = k, !.cursor = c, !.sel = s]
  BY DEF FocusHeader, k, s, c, UIState
<1>4. k \in Value \cup {NoValue} /\ s \in Task \cup {NoTask} /\ c \in Int
  BY <1>1 DEF k, s, c, UIState
<1> HIDE DEF w
<1>2. w \in UIState
  BY <1>1, <1>3, <1>4 DEF UIState
<1>5. w.grouped = u.grouped /\ w.header = TRUE /\ w.cursor = -1
  BY <1>3 DEF UIState, c
<1>6. Marked(w, d)
  BY <1>5 DEF Marked
<1> QED BY <1>2, <1>5, <1>6 DEF Follows, w

\* Closing and opening groups changes neither the groups nor their rows.
LEMMA SameGroups ==
  ASSUME NEW u, NEW w, NEW d,
         w.grouped = u.grouped, w.display = u.display, w.over = u.over
  PROVE  /\ Groups(w, d) = Groups(u, d) /\ (Plain(w) <=> Plain(u))
         /\ GroupKeys(w) = GroupKeys(u)
         /\ \A v : InGroup(w, d, v) = InGroup(u, d, v)
<1>2. Plain(w) <=> Plain(u)
  BY DEF Plain
<1>3. \A t : VisibleOrphan(w, d, t) <=> VisibleOrphan(u, d, t)
  BY DEF VisibleOrphan, SubtaskDisplayFor
<1>4. \A v : Members(w, d, v) = Members(u, d, v)
  BY DEF Members
<1>5. \A v : {t \in Members(w, d, v) : VisibleOrphan(w, d, t)}
               = {t \in Members(u, d, v) : VisibleOrphan(u, d, t)}
  BY <1>3, <1>4
<1>6. \A v : GroupRows(w, d, v) = GroupRows(u, d, v)
  <2> TAKE v
  <2>2. Arrange(Members(w, d, v), w, d) = Arrange(Members(u, d, v), u, d)
    BY <1>5 DEF Arrange, Listed
  <2> QED BY <1>2, <2>2 DEF GroupRows
<1>7. \A v : InGroup(w, d, v) = InGroup(u, d, v)
  BY <1>2, <1>5 DEF InGroup
<1> DEFINE G(y) == {g \in {[key |-> v, rows |-> GroupRows(y, d, v)] : v \in GroupKeys(y)} :
                      g.rows # <<>>}
<1>8. GroupKeys(w) = GroupKeys(u)
  BY DEF GroupKeys
<1>9. G(w) = G(u)
  <2>1. {[key |-> v, rows |-> GroupRows(w, d, v)] : v \in GroupKeys(w)}
          = {[key |-> v, rows |-> GroupRows(u, d, v)] : v \in GroupKeys(u)}
    BY <1>6, <1>8
  <2> QED BY <2>1
<1>10. Groups(w, d) = Groups(u, d)
  <2>1. \A y : Groups(y, d) = Listed(G(y), LAMBDA g, h : g.key < h.key)
    BY DEF Groups, GroupKeys
  <2> HIDE DEF G
  <2> QED BY <1>9, <2>1 DEF Listed
<1> QED BY <1>2, <1>7, <1>8, <1>10

\* When a group that has rows is open, a row is shown.
LEMMA OpenGroupShows ==
  ASSUME NEW u, NEW d \in Forest, NEW v \in Live(u, d), v \notin u.closed
  PROVE  VisibleTasks(u, d) # <<>>
<1>1. PICK t : t \in InGroup(u, d, v)
  BY DEF Live
<1>2. v \in GroupKeys(u)
  BY DEF Live
<1>3. t \in Range(VisibleTasks(u, d))
  BY <1>1, <1>2, ShownFacts
<1> QED BY <1>3 DEF Range

\* While no header has the cursor, the selected task is not in a closed group.
LEMMA SelectionIsOpen ==
  ASSUME NEW u, NEW d \in Forest, Follows(u, d), ~u.header
  PROVE  u.sel \in d.tasks => GroupKey(u, d, u.sel) \notin u.closed
<1>1. CASE ~u.grouped
  <2>1. GroupKey(u, d, u.sel) = NoValue
    BY <1>1 DEF GroupKey
  <2>2. NoValue \notin u.closed
    BY RowsAssumption DEF Follows, UIState
  <2> QED BY <2>1, <2>2
<1>2. CASE u.grouped
  <2>1. u \in UIState /\ Marked(u, d)
    BY <1>2 DEF Follows, Toggled
  <2>2. CASE VisibleTasks(u, d) = <<>>
    BY <2>1, <2>2 DEF Marked
  <2>3. CASE VisibleTasks(u, d) # <<>>
    <3>1. /\ u.cursor + 1 \in DOMAIN VisibleTasks(u, d)
          /\ VisibleTasks(u, d)[u.cursor + 1] = u.sel
      BY <2>1, <2>3 DEF Marked
    <3> QED BY <2>1, <3>1, RowFacts
  <2> QED BY <2>2, <2>3
<1> QED BY <1>1, <1>2

\* The group that has the cursor, and where its rows begin.
LEMMA CurrentGroupFacts ==
  ASSUME NEW u \in UIState, NEW d \in Forest
  PROVE  LET gs == Groups(u, d) IN
         /\ CurrentGroup(u, gs) \in DOMAIN gs \cup {0}
         /\ At([i \in DOMAIN gs |-> gs[i].key], u.focused) \in DOMAIN gs \cup {0}
         /\ \A t : GroupOf(gs, t) \in DOMAIN gs \cup {0}
<1> DEFINE gs == Groups(u, d)
           keys == [i \in DOMAIN gs |-> gs[i].key]
<1>1. DOMAIN gs = 1..Len(gs) /\ Len(gs) \in Nat
  BY GroupsFacts
<1>2. At(keys, u.focused) \in DOMAIN gs \cup {0}
  <2>1. At(keys, u.focused) \in DOMAIN keys \cup {0}
    BY AtFacts
  <2> QED BY <2>1
<1>3. \A t : GroupOf(gs, t) \in DOMAIN gs \cup {0}
  BY GroupOfFacts
<1>4. u.groupCursor =< Len(gs) => u.groupCursor \in DOMAIN gs
  BY <1>1 DEF UIState
<1>5. CurrentGroup(u, gs) = IF ~u.header THEN GroupOf(gs, u.sel)
                            ELSE IF At(keys, u.focused) # 0 THEN At(keys, u.focused)
                            ELSE IF u.groupCursor =< Len(gs) THEN u.groupCursor ELSE 0
  BY DEF CurrentGroup
<1> HIDE DEF gs, keys
<1>6. CurrentGroup(u, gs) \in DOMAIN gs \cup {0}
  BY <1>2, <1>3, <1>4, <1>5
<1> QED BY <1>2, <1>3, <1>6 DEF gs, keys

LEMMA RowStartFacts ==
  ASSUME NEW u, NEW gs \in Seq(Group), NEW i \in DOMAIN gs
  PROVE  RowStart(u, gs, i) \in Nat /\ Len(gs[i].rows) \in Nat
         /\ DOMAIN gs[i].rows = 1..Len(gs[i].rows)
         /\ \A t : At(gs[i].rows, t) \in Int
<1>1. i \in 1..Len(gs) /\ Len(gs) \in Nat /\ gs[i] \in Group
  OBVIOUS
<1>2. SubSeq(gs, 1, i - 1) \in Seq(Group)
  BY <1>1
<1>3. RowStart(u, gs, i) \in Nat
  BY <1>2, OpenRowsFacts DEF RowStart
<1>4. gs[i].rows \in Seq(Task)
  BY <1>1 DEF Group
<1>5. \A t : At(gs[i].rows, t) \in DOMAIN gs[i].rows \cup {0}
  BY AtFacts
<1> QED BY <1>3, <1>4, <1>5

LEMMA LastRowFollows ==
  ASSUME NEW u \in UIState, u.grouped, NEW d \in Forest, NEW i \in DOMAIN Groups(u, d)
  PROVE  Follows(LastRow(u, d, Groups(u, d), i), d)
<1> DEFINE gs == Groups(u, d)
<1>1. gs \in Seq(Group)
  BY GroupsFacts
<1>2. RowStart(u, gs, i) + Len(gs[i].rows) - 1 \in Int
  <2> HIDE DEF gs
  <2>0. i \in DOMAIN gs
    BY DEF gs
  <2>1. RowStart(u, gs, i) \in Nat /\ Len(gs[i].rows) \in Nat
    BY <1>1, <2>0, RowStartFacts
  <2> QED BY <2>1
<1>3. NoTask \in Task \cup {NoTask}
  OBVIOUS
<1>4. Follows(FocusHeader(u, gs, i, NoTask), d)
  BY <1>1, <1>3, FocusHeaderFollows
<1>5. Follows(SelectTaskAt(u, d, RowStart(u, gs, i) + Len(gs[i].rows) - 1), d)
  BY <1>2, SelectTaskAtFollows
<1> QED BY <1>4, <1>5 DEF LastRow

LEMMA MoveGroupedFollows ==
  ASSUME NEW u, NEW d \in Forest, Follows(u, d), u.grouped, NEW down \in BOOLEAN
  PROVE  Follows(MoveGrouped(u, d, down), d)
<1> DEFINE gs == Groups(u, d)
           g == CurrentGroup(u, gs)
           local == At(gs[g].rows, u.sel)
           NextGroup == IF g < Len(gs) THEN FocusHeader(u, gs, g + 1, NoTask) ELSE u
           Ok(w) == Follows(w, d)
<1>1. /\ u \in UIState /\ u.header \in BOOLEAN /\ u.sel \in Task \cup {NoTask}
      /\ NoTask \in Task \cup {NoTask}
  BY DEF Follows, UIState
<1>2. gs \in Seq(Group) /\ DOMAIN gs = 1..Len(gs) /\ Len(gs) \in Nat
  BY GroupsFacts
<1>3. g \in DOMAIN gs \cup {0}
  BY <1>1, CurrentGroupFacts
<1>4. \A i \in DOMAIN gs, p \in Task \cup {NoTask} : Ok(FocusHeader(u, gs, i, p))
  BY <1>1, <1>2, FocusHeaderFollows
<1>5. \A n \in Int : Ok(SelectTaskAt(u, d, n))
  BY <1>1, SelectTaskAtFollows
<1>6. g # 0 => RowStart(u, gs, g) \in Int /\ local \in Int
  <2> HAVE g # 0
  <2>1. g \in DOMAIN gs
    BY <1>3
  <2> HIDE DEF g, gs
  <2>2. RowStart(u, gs, g) \in Nat /\ At(gs[g].rows, u.sel) \in Int
    BY <1>2, <2>1, RowStartFacts
  <2> QED BY <2>2
<1>7. Ok(u)
  OBVIOUS
<1>8. \A i \in DOMAIN gs : Ok(LastRow(u, d, gs, i))
  BY <1>1, LastRowFollows
<1>9. MoveGrouped(u, d, down) =
        CASE gs = <<>> -> u
          [] gs # <<>> /\ g = 0 -> FocusHeader(u, gs, 1, NoTask)
          [] g # 0 /\ u.header /\ down ->
               IF Closed(u, gs[g]) THEN NextGroup
               ELSE SelectTaskAt(u, d, RowStart(u, gs, g))
          [] g # 0 /\ u.header /\ ~down ->
               IF g = 1 THEN u ELSE LastRow(u, d, gs, g - 1)
          [] g # 0 /\ ~u.header /\ Closed(u, gs[g]) -> FocusHeader(u, gs, g, u.sel)
          [] g # 0 /\ ~u.header /\ ~Closed(u, gs[g]) /\ down ->
               IF local < Len(gs[g].rows)
               THEN SelectTaskAt(u, d, RowStart(u, gs, g) + local) ELSE NextGroup
          [] g # 0 /\ ~u.header /\ ~Closed(u, gs[g]) /\ ~down ->
               IF local > 1 THEN SelectTaskAt(u, d, RowStart(u, gs, g) + local - 2)
               ELSE FocusHeader(u, gs, g, NoTask)
  BY DEF MoveGrouped
<1> HIDE DEF gs, g, local, Ok
<1>10. g # 0 => Ok(NextGroup)
  <2>1. g < Len(gs) /\ g # 0 => g + 1 \in DOMAIN gs
    BY <1>2, <1>3
  <2>2. g < Len(gs) /\ g # 0 => Ok(FocusHeader(u, gs, g + 1, NoTask))
    BY <1>1, <1>4, <2>1
  <2>3. CASE g < Len(gs)
    BY <2>2, <2>3
  <2>4. CASE ~(g < Len(gs))
    BY <1>7, <2>4
  <2> QED BY <2>3, <2>4
<1>11. g # 0 /\ g # 1 => Ok(LastRow(u, d, gs, g - 1))
  BY <1>2, <1>3, <1>8
<1>12. gs # <<>> => Ok(FocusHeader(u, gs, 1, NoTask))
  <2>1. gs # <<>> => 1 \in DOMAIN gs
    BY <1>2
  <2> QED BY <1>1, <1>4, <2>1
<1>13. g # 0 => /\ Ok(FocusHeader(u, gs, g, u.sel)) /\ Ok(FocusHeader(u, gs, g, NoTask))
                /\ Ok(SelectTaskAt(u, d, RowStart(u, gs, g)))
                /\ Ok(SelectTaskAt(u, d, RowStart(u, gs, g) + local))
                /\ Ok(SelectTaskAt(u, d, RowStart(u, gs, g) + local - 2))
  BY <1>1, <1>3, <1>4, <1>5, <1>6
<1>14. gs = <<>> => g = 0
  BY <1>2, <1>3
<1> HIDE DEF NextGroup
<1> QED
  <2>1. CASE gs = <<>>
    BY <1>7, <1>9, <1>14, <2>1 DEF Ok
  <2>2. CASE gs # <<>> /\ g = 0
    BY <1>9, <1>12, <2>2 DEF Ok
  <2>3. CASE g # 0 /\ u.header /\ down
    BY <1>9, <1>10, <1>13, <1>14, <2>3 DEF Ok
  <2>4. CASE g # 0 /\ u.header /\ ~down
    BY <1>9, <1>7, <1>11, <1>14, <2>4 DEF Ok
  <2>5. CASE g # 0 /\ ~u.header /\ Closed(u, gs[g])
    BY <1>9, <1>13, <1>14, <2>5 DEF Ok
  <2>6. CASE g # 0 /\ ~u.header /\ ~Closed(u, gs[g]) /\ down
    BY <1>9, <1>10, <1>13, <1>14, <2>6 DEF Ok
  <2>7. CASE g # 0 /\ ~u.header /\ ~Closed(u, gs[g]) /\ ~down
    BY <1>9, <1>13, <1>14, <2>7 DEF Ok
  <2> QED BY <1>1, <2>1, <2>2, <2>3, <2>4, <2>5, <2>6, <2>7

LEMMA MoveCursorFollows ==
  ASSUME NEW u, NEW d \in Forest, Follows(u, d), NEW down \in BOOLEAN
  PROVE  Follows(MoveCursor(u, d, down), d)
<1> DEFINE rows == VisibleTasks(u, d)
           at == Clamp(u.cursor + (IF down THEN 1 ELSE -1), 0, Len(rows) - 1)
           t == rows[at + 1]
           w == [u EXCEPT !.cursor = at, !.sel = t]
<1>1. u \in UIState /\ u.cursor \in Int /\ u.grouped \in BOOLEAN
  BY DEF Follows, UIState
<1>2. CASE u.grouped
  BY <1>2, MoveGroupedFollows DEF MoveCursor
<1>3. CASE ~u.grouped /\ rows = <<>>
  BY <1>3 DEF MoveCursor
<1>4. CASE ~u.grouped /\ rows # <<>>
  <2>1. MoveCursor(u, d, down) = w
    BY <1>4 DEF MoveCursor
  <2>2. DOMAIN rows = 1..Len(rows) /\ Len(rows) \in Nat /\ rows \in Seq(Task)
    BY ShownFacts
  <2>3. Len(rows) > 0
    BY <1>4, <2>2
  <2>4. at \in Int /\ at + 1 \in DOMAIN rows
    BY <1>1, <2>2, <2>3 DEF Clamp
  <2>5. t \in Task
    BY <2>2, <2>4
  <2> HIDE DEF at, t
  <2>6. w \in UIState
    BY <1>1, <2>4, <2>5 DEF UIState
  <2>7. /\ SameView(u, w) /\ w.header = u.header
        /\ w.cursor = at /\ w.sel = t
    BY <1>1 DEF UIState, SameView
  <2> HIDE DEF w
  <2>8. VisibleTasks(w, d) = rows
    BY <2>7, SameRows
  <2>9. ~u.header
    BY <1>4 DEF Follows
  <2>10. Marked(w, d)
    BY <1>4, <2>4, <2>7, <2>8, <2>9 DEF Marked, t
  <2> QED BY <2>1, <2>6, <2>7, <2>9, <2>10 DEF Follows, SameView
<1> QED BY <1>1, <1>2, <1>3, <1>4

LEMMA MoveToEdgeFollows ==
  ASSUME NEW u, NEW d \in Forest, Follows(u, d), NEW last \in BOOLEAN
  PROVE  Follows(MoveToEdge(u, d, last), d)
<1> DEFINE gs == Groups(u, d)
           rows == VisibleTasks(u, d)
           n == IF last THEN Len(rows) - 1 ELSE 0
<1>1. u \in UIState /\ u.grouped \in BOOLEAN
  BY DEF Follows, UIState
<1>2. rows = Shown(u, gs) /\ n \in Int
  BY ShownFacts DEF VisibleTasks
<1>3. gs \in Seq(Group) /\ DOMAIN gs = 1..Len(gs) /\ Len(gs) \in Nat
  BY GroupsFacts
<1>4. Follows(SelectTaskAt(u, d, n), d)
  BY <1>1, <1>2, SelectTaskAtFollows
<1>5. CASE u.grouped /\ gs # <<>>
  <2> HIDE DEF gs
  <2>1. 1 \in DOMAIN gs /\ Len(gs) \in DOMAIN gs /\ NoTask \in Task \cup {NoTask}
    BY <1>3, <1>5
  <2>2. Follows(LastRow(u, d, gs, Len(gs)), d)
    BY <1>1, <1>5, <2>1, LastRowFollows DEF gs
  <2>3. Follows(FocusHeader(u, gs, 1, NoTask), d)
    BY <1>1, <1>3, <1>5, <2>1, FocusHeaderFollows
  <2> QED BY <1>5, <2>2, <2>3 DEF MoveToEdge, gs
<1>6. CASE ~(u.grouped /\ gs # <<>>)
  BY <1>1, <1>2, <1>4, <1>6 DEF MoveToEdge
<1> QED BY <1>5, <1>6

LEMMA SetSubtaskDisplayFollows ==
  ASSUME NEW u, NEW d \in Forest, Follows(u, d), NEW mode \in Display
  PROVE  Follows(SetSubtaskDisplay(u, d, mode), d)
<1> DEFINE o == [t \in Task |-> "separate"]
           z == 0
           w == [u EXCEPT !.display = mode, !.offset = z, !.over = o]
<1>1. u \in UIState
  BY DEF Follows
<1>2. o \in [Task -> Display] /\ z \in Nat
  BY DEF Display
<1>3. SetSubtaskDisplay(u, d, mode) = SelectTaskRef(w, d, u.sel)
  BY DEF SetSubtaskDisplay
<1> HIDE DEF o, z
<1>4. w \in UIState
  BY <1>1, <1>2 DEF UIState
<1>5. /\ w.grouped = u.grouped /\ w.closed = u.closed /\ w.header = u.header
      /\ w.sel = u.sel
  BY <1>1 DEF UIState
<1> HIDE DEF w
<1>6. GroupKey(w, d, u.sel) = GroupKey(u, d, u.sel)
  BY <1>5 DEF GroupKey
<1>7. ~w.header => (w.sel \in d.tasks => GroupKey(w, d, w.sel) \notin w.closed)
  BY <1>5, <1>6, SelectionIsOpen
<1>8. w.header => w.grouped
  BY <1>5 DEF Follows
<1> QED BY <1>3, <1>4, <1>7, <1>8, SelectTaskRefFollows

\* Opening a group that has rows.
LEMMA OpensFollows ==
  ASSUME NEW u \in UIState, NEW d \in Forest, NEW K \in SUBSET Value,
         NEW v \in Live(u, d) \cap K, NEW t
  PROVE  Follows(SelectTaskRef([NoHeader(u) EXCEPT !.closed = @ \ K, !.focused = NoValue],
                               d, t), d)
<1> DEFINE x == NoHeader(u)
           c == u.closed \ K
           w == [x EXCEPT !.closed = c, !.focused = NoValue]
<1>1. /\ x \in UIState /\ x.grouped = u.grouped /\ x.display = u.display
      /\ x.over = u.over /\ x.closed = u.closed
  BY DEF NoHeader, UIState
<1> HIDE DEF x
<1>2. [x EXCEPT !.closed = @ \ K, !.focused = NoValue] = w
  BY <1>1 DEF UIState
<1>3. c \in SUBSET Value /\ NoValue \in Value \cup {NoValue}
  BY DEF UIState
<1> HIDE DEF c
<1>4. w \in UIState
  BY <1>1, <1>3 DEF UIState
<1>5. /\ w.grouped = u.grouped /\ w.display = u.display
      /\ w.over = u.over /\ w.closed = c
  BY <1>1 DEF UIState
<1> HIDE DEF w
<1>6. GroupKeys(w) = GroupKeys(u) /\ InGroup(w, d, v) = InGroup(u, d, v)
  BY <1>5, SameGroups
<1>7. v \in Live(w, d)
  BY <1>6 DEF Live
<1>8. v \notin w.closed
  BY <1>5 DEF c
<1>9. VisibleTasks(w, d) # <<>>
  BY <1>7, <1>8, OpenGroupShows
<1> QED BY <1>2, <1>4, <1>9, SelectTaskRefFollows DEF x

\* In a grouped list the keys of the groups are values.
LEMMA GroupedKeys ==
  ASSUME NEW u \in UIState, u.grouped, NEW d \in Forest, NEW i \in DOMAIN Groups(u, d)
  PROVE  /\ Groups(u, d)[i].key \in Value
         /\ Groups(u, d)[i].key \in Live(u, d)
         /\ i \in Nat \ {0}
<1>1. Groups(u, d)[i].key \in Live(u, d) /\ i \in 1..Len(Groups(u, d))
  BY GroupsFacts
<1>2. Live(u, d) \subseteq Value
  BY DEF Live, GroupKeys
<1> QED BY <1>1, <1>2

LEMMA ExpandFollows ==
  ASSUME NEW u \in UIState, u.grouped, NEW d \in Forest, NEW g \in DOMAIN Groups(u, d), NEW t
  PROVE  Follows(Expand(u, d, Groups(u, d), g, t), d)
<1> DEFINE v == Groups(u, d)[g].key
<1>1. v \in Live(u, d) \cap {v} /\ {v} \in SUBSET Value
  BY GroupedKeys
<1> HIDE DEF v
<1>2. \A s : Follows(SelectTaskRef([NoHeader(u) EXCEPT !.closed = @ \ {v}, !.focused = NoValue],
                                   d, s), d)
  BY <1>1, OpensFollows
<1> QED BY <1>2 DEF Expand, v

LEMMA CollapseFollows ==
  ASSUME NEW u \in UIState, u.grouped, NEW d \in Forest, NEW g \in DOMAIN Groups(u, d),
         NEW t \in Task \cup {NoTask}
  PROVE  Follows(Collapse(u, Groups(u, d), g, t), d)
<1> DEFINE v == Groups(u, d)[g].key
           c == u.closed \cup {v}
           z == 0
           m == -1
           w == [u EXCEPT !.closed = c, !.groupCursor = g, !.header = TRUE,
                          !.headerTask = t, !.focused = v, !.cursor = m, !.offset = z]
<1>1. v \in Value /\ g \in Nat \ {0}
  BY GroupedKeys
<1>2. c \in SUBSET Value /\ v \in Value \cup {NoValue} /\ m \in Int /\ z \in Nat
  BY <1>1 DEF UIState
<1>3. Collapse(u, Groups(u, d), g, t) = w
  BY DEF Collapse, UIState
<1> HIDE DEF v, c, m, z
<1>4. w \in UIState
  BY <1>1, <1>2 DEF UIState
<1>5. w.header = TRUE /\ w.cursor = m /\ w.grouped = u.grouped
  BY DEF UIState
<1> HIDE DEF w
<1>6. Marked(w, d)
  BY <1>5 DEF Marked, m
<1> QED BY <1>3, <1>4, <1>5, <1>6 DEF Follows

LEMMA SetAllExpandedFollows ==
  ASSUME NEW u, NEW d \in Forest, Follows(u, d), NEW expanded \in BOOLEAN
  PROVE  Follows(SetAllExpanded(u, d, expanded), d)
<1> DEFINE gs == Groups(u, d)
           keys == {gs[i].key : i \in DOMAIN gs}
           t == IF u.header /\ u.headerTask # NoTask THEN u.headerTask ELSE u.sel
           g == IF GroupOf(gs, t) # 0 THEN GroupOf(gs, t)
                ELSE Clamp(u.groupCursor, 1, Len(gs))
<1>1. /\ u \in UIState /\ u.grouped \in BOOLEAN /\ u.header \in BOOLEAN
      /\ u.groupCursor \in Nat /\ t \in Task \cup {NoTask} /\ u.closed \in SUBSET Value
  BY DEF Follows, UIState
<1>2. gs \in Seq(Group) /\ DOMAIN gs = 1..Len(gs) /\ Len(gs) \in Nat
  BY GroupsFacts
<1>3. CASE ~u.grouped
  <2>1. /\ Follows(SetSubtaskDisplay(u, d, "expanded"), d)
        /\ Follows(SetSubtaskDisplay(u, d, "collapsed"), d)
    BY SetSubtaskDisplayFollows DEF Display
  <2> QED BY <1>3, <2>1 DEF SetAllExpanded
<1>4. CASE u.grouped /\ gs = <<>>
  BY <1>4 DEF SetAllExpanded
<1>5. CASE u.grouped /\ gs # <<>>
  <2>1. keys \in SUBSET Value
    BY <1>1, <1>5, GroupedKeys
  <2>2. 1 \in DOMAIN gs
    BY <1>2, <1>5
  <2>3. gs[1].key \in Live(u, d) \cap keys
    BY <1>1, <1>5, <2>2, GroupedKeys
  <2> DEFINE v == gs[1].key
  <2> HIDE DEF keys, t, g, v
  <2>4. Follows(SelectTaskRef([NoHeader(u) EXCEPT !.closed = @ \ keys,
                                                  !.focused = NoValue], d, t), d)
    <3>1. v \in Live(u, d) \cap keys
      BY <2>3 DEF v
    <3> QED BY <1>1, <2>1, <3>1, OpensFollows
  <2> DEFINE c == u.closed \cup keys
             x == [u EXCEPT !.closed = c]
  <2>5. c \in SUBSET Value /\ x = [u EXCEPT !.closed = @ \cup keys]
    BY <1>1, <2>1 DEF UIState
  <2>6. x \in UIState /\ x.grouped
    <3> HIDE DEF c
    <3> QED BY <1>1, <1>5, <2>5 DEF UIState
  <2>7. g \in DOMAIN gs
    <3>1. GroupOf(gs, t) \in DOMAIN gs \cup {0}
      BY <1>1, CurrentGroupFacts
    <3>2. Clamp(u.groupCursor, 1, Len(gs)) \in DOMAIN gs
      BY <1>1, <1>2, <2>2 DEF Clamp
    <3> QED BY <3>1, <3>2 DEF g
  <2> HIDE DEF x, gs
  <2>8. Follows(FocusHeader(x, gs, g, t), d)
    BY <1>1, <1>2, <2>6, <2>7, FocusHeaderFollows DEF t
  <2>9. SetAllExpanded(u, d, expanded) =
          IF expanded
          THEN SelectTaskRef([NoHeader(u) EXCEPT !.closed = @ \ keys,
                                                 !.focused = NoValue], d, t)
          ELSE FocusHeader(x, gs, g, t)
    BY <1>5, <2>5 DEF SetAllExpanded, gs, keys, t, g
  <2> QED BY <2>4, <2>8, <2>9
<1> QED BY <1>1, <1>3, <1>4, <1>5

LEMMA ApplyGroupingFollows ==
  ASSUME NEW u \in UIState, NEW d \in Forest, NEW grouped \in BOOLEAN
  PROVE  Follows(ApplyGrouping(u, d, grouped), d)
<1> DEFINE x == NoHeader(u)
           z == 0
           k == 1
           f == IF u.grouped # grouped THEN NoValue ELSE u.focused
           w == [x EXCEPT !.grouped = grouped, !.offset = z, !.cursor = z,
                          !.sel = NoTask, !.groupCursor = k, !.focused = f]
<1>1. x \in UIState /\ x.focused = u.focused
  BY DEF NoHeader, UIState
<1>2. f \in Value \cup {NoValue} /\ z \in Nat /\ z \in Int /\ k \in Nat \ {0}
  BY DEF UIState
<1>3. ApplyGrouping(u, d, grouped) = SelectTaskAt(w, d, 0)
  <2> HIDE DEF x
  <2>1. [x EXCEPT !.grouped = grouped, !.offset = 0, !.cursor = 0,
                  !.sel = NoTask, !.groupCursor = 1,
                  !.focused = IF u.grouped # grouped THEN NoValue ELSE @] = w
    BY <1>1 DEF UIState
  <2> QED BY <2>1 DEF ApplyGrouping, x
<1> HIDE DEF x, z, k, f
<1>4. w \in UIState
  BY <1>1, <1>2 DEF UIState
<1> HIDE DEF w
<1>5. 0 \in Int
  OBVIOUS
<1> QED BY <1>3, <1>4, <1>5, SelectTaskAtFollows

\* A snapshot: no matter what it changed, the cursor is at the selected task again.
LEMMA ReconcileFollows ==
  ASSUME NEW u \in UIState, NEW d \in Forest
  PROVE  Follows(ReconcileSelection(u, d), d)
<1> DEFINE gs == Groups(u, d)
           rows == VisibleTasks(u, d)
           g == GroupOf(gs, u.sel)
<1>1. rows = Shown(u, gs) /\ gs \in Seq(Group)
  BY GroupsFacts DEF VisibleTasks
<1>2. u.sel \in Task \cup {NoTask} /\ u.cursor \in Int /\ u.grouped \in BOOLEAN
      /\ u.closed \in SUBSET Value
  BY DEF UIState
<1>3. CASE u.sel \in Range(rows)
  <2>1. At(rows, u.sel) - 1 \in Int
    <3>1. DOMAIN rows = 1..Len(rows) /\ At(rows, u.sel) \in DOMAIN rows \cup {0}
      BY AtFacts, ShownFacts
    <3> QED BY <3>1
  <2>2. Follows(SelectTaskAt(u, d, At(rows, u.sel) - 1), d)
    BY <2>1, SelectTaskAtFollows
  <2> QED BY <1>1, <1>3, <2>2 DEF ReconcileSelection
<1>4. CASE u.sel \notin Range(rows) /\ g # 0
  <2>1. u.grouped
    <3> SUFFICES ASSUME ~u.grouped PROVE FALSE
      BY <1>2
    <3>1. GroupKeys(u) = {NoValue} /\ NoValue \notin u.closed
      BY <1>2, RowsAssumption DEF GroupKeys
    <3>2. \E v \in GroupKeys(u) : u.sel \in InGroup(u, d, v)
      BY <1>4, GroupOfFacts
    <3>3. u.sel \in Range(rows)
      BY <3>1, <3>2, ShownFacts
    <3> QED BY <1>4, <3>3
  <2>2. g \in DOMAIN gs
    BY <1>4, GroupOfFacts
  <2>3. Follows(FocusHeader(u, gs, g, u.sel), d)
    BY <1>1, <1>2, <2>1, <2>2, FocusHeaderFollows
  <2> QED BY <1>1, <1>4, <2>3 DEF ReconcileSelection
<1>5. CASE u.sel \notin Range(rows) /\ g = 0
  <2>1. Follows(SelectTaskAt(u, d, u.cursor), d)
    BY <1>2, SelectTaskAtFollows
  <2> QED BY <1>1, <1>5, <2>1 DEF ReconcileSelection
<1> QED BY <1>3, <1>4, <1>5

\* Scrolling leaves the selection alone.
LEMMA KeepVisibleFollows ==
  ASSUME NEW u, NEW d \in Forest, Follows(u, d)
  PROVE  Follows(KeepVisible(u, d), d)
<1> DEFINE line == IF u.focus = "tasks" THEN CursorLine(u, d) ELSE u.cursor
           o == IF line = -1 THEN 0 ELSE KeepCursorVisible(line, u.offset, u.height)
           w == [u EXCEPT !.offset = o]
<1>1. u \in UIState /\ u.cursor \in Int /\ u.offset \in Nat /\ u.height \in Nat
  BY RowsAssumption DEF Follows, UIState
<1>2. CursorLine(u, d) \in Int
  <2>1. \A x : At(Lines(u, d), x) \in Int
    <3>1. DOMAIN Lines(u, d) \subseteq Int
      <4>1. \A ss : DOMAIN Flat(ss) \subseteq Int
        BY DEF Flat
      <4> QED BY <4>1 DEF Lines
    <3>2. \A x : At(Lines(u, d), x) \in DOMAIN Lines(u, d) \cup {0}
      BY AtFacts
    <3> QED BY <3>1, <3>2
  <2>2. \A x : At(Lines(u, d), x) - 1 \in Int
    BY <2>1
  <2> QED BY <1>1, <2>2 DEF CursorLine
<1>3. o \in Nat
  <2>1. line \in Int
    BY <1>1, <1>2
  <2> HIDE DEF line
  <2> QED BY <1>1, <2>1 DEF KeepCursorVisible
<1>4. KeepVisible(u, d) = w
  BY <1>1 DEF KeepVisible, UIState
<1> HIDE DEF o
<1>5. w \in UIState
  BY <1>1, <1>3 DEF UIState
<1>6. /\ SameView(u, w) /\ w.header = u.header
      /\ w.cursor = u.cursor /\ w.sel = u.sel
  BY <1>1 DEF UIState, SameView
<1> HIDE DEF w
<1>7. Follows(w, d)
  BY <1>5, <1>6, StillFollows
<1> QED BY <1>4, <1>7

-----------------------------------------------------------------------------
(* Subtasks are toggled: the rows up to the task stay. *)

LEMMA NotAboveItself ==
  ASSUME NEW d \in Forest, NEW t \in d.tasks
  PROVE  t \notin Above[d][t]
<1> DEFINE A == Above[d][t]
           S == A \ {t}
<1>1. t \in Task /\ A \subseteq Task
  BY ForestFacts, AboveFacts
<1>2. \A b \in {t} \cup (A \cap d.tasks) : d.parent[b] \in A \cup {NoTask}
  BY <1>1, AboveFacts
<1>3. ASSUME NEW b \in {t} \cup (S \cap d.tasks) PROVE d.parent[b] # t
  <2> SUFFICES ASSUME d.parent[b] = t PROVE FALSE
    OBVIOUS
  <2>1. CASE b = t
    <3>1. {t} \in SUBSET Task /\ {t} # {}
      BY <1>1
    <3>2. \E x \in {t} : d.parent[x] \notin {t}
      BY <3>1, ForestFacts DEF Acyclic
    <3> QED BY <2>1, <3>2
  <2>2. CASE b \in S \cap d.tasks
    <3>1. b \in d.tasks /\ b \in Line(d, t)
      BY <2>2 DEF Line
    <3>2. Parent(d, b) = t /\ t # NoTask
      BY <1>1, <3>1, ForestFacts DEF Parent, Loaded
    <3>3. t \in Line(d, b)
      BY <3>1, <3>2, LineFacts
    <3> QED BY <2>2, <3>1, <3>3, NoTaskIsAboveItself
  <2> QED BY <2>1, <2>2
<1>4. \A b \in {t} \cup (S \cap d.tasks) : d.parent[b] \in S \cup {NoTask}
  BY <1>2, <1>3
<1>5. S \in SUBSET Task
  BY <1>1
<1> HIDE DEF S
<1>6. A \subseteq S
  BY <1>1, <1>4, <1>5, AboveFacts
<1> QED BY <1>6 DEF S

LEMMA KeysAreNumbers == \A u : GroupKeys(u) \subseteq Nat
<1>1. Value \subseteq Nat /\ {NoValue} \subseteq Nat
  BY RowsAssumption DEF NoValue
<1> QED BY <1>1 DEF GroupKeys

\* The keys of the groups are listed in their order.
LEMMA KeysAreListed ==
  ASSUME NEW u, NEW w, NEW d \in Forest, Live(w, d) = Live(u, d)
  PROVE  /\ DOMAIN Groups(w, d) = DOMAIN Groups(u, d)
         /\ \A i \in DOMAIN Groups(u, d) : Groups(w, d)[i].key = Groups(u, d)[i].key
<1> DEFINE L == Live(u, d)
           R == {r \in L \X L : r[1] < r[2]}
           K(x) == [i \in 1..Cardinality(L) |-> Groups(x, d)[i].key]
<1>1. IsFiniteSet(L) /\ L \subseteq Nat
  <2>1. L \subseteq Nat
    BY KeysAreNumbers DEF Live
  <2> QED BY <2>1, GroupsFacts
<1>2. \A x, y \in L : <<x, y>> \in R <=> x < y
  OBVIOUS
<1> HIDE DEF R
<1>3. Orders(R, L)
  <2> HIDE DEF L
  <2> QED BY <1>1, <1>2 DEF Orders
<1>4. Cardinality(L) \in Nat
  BY <1>1, FS_CardinalityType
<1>5. ASSUME NEW x, Live(x, d) = L
      PROVE  /\ DOMAIN Groups(x, d) = 1..Cardinality(L)
             /\ K(x) \in [1..Cardinality(L) -> L] /\ InOrder(K(x), R)
  <2>1. DOMAIN Groups(x, d) = 1..Cardinality(L)
    BY <1>5, GroupsFacts
  <2>2. \A i \in 1..Cardinality(L) :
          /\ Groups(x, d)[i].key \in L
          /\ \A j \in 1..(i - 1) : Groups(x, d)[j].key < Groups(x, d)[i].key
    BY <1>5, <2>1, GroupsFacts
  <2>3. K(x) \in [1..Cardinality(L) -> L]
    BY <2>2
  <2> HIDE DEF L
  <2>4. ASSUME NEW i \in 1..Cardinality(L), NEW j \in 1..(i - 1)
        PROVE  <<K(x)[j], K(x)[i]>> \in R
    <3>1. j \in 1..Cardinality(L)
      BY <1>4
    <3>2. K(x)[j] = Groups(x, d)[j].key /\ K(x)[i] = Groups(x, d)[i].key
      BY <3>1
    <3> HIDE DEF K
    <3> QED BY <1>2, <2>2, <3>1, <3>2
  <2>5. DOMAIN K(x) = 1..Cardinality(L)
    OBVIOUS
  <2> HIDE DEF K
  <2> QED BY <2>1, <2>3, <2>4, <2>5 DEF InOrder
<1> HIDE DEF K, L
<1>6. K(w) = K(u)
  <2>1. /\ K(w) \in [1..Cardinality(L) -> L] /\ InOrder(K(w), R)
        /\ K(u) \in [1..Cardinality(L) -> L] /\ InOrder(K(u), R)
    BY <1>5 DEF L
  <2> QED BY <1>1, <1>3, <2>1, ListingUnique
<1>7. DOMAIN Groups(w, d) = 1..Cardinality(L) /\ DOMAIN Groups(u, d) = 1..Cardinality(L)
  BY <1>5 DEF L
<1>8. \A i \in 1..Cardinality(L) : K(w)[i] = K(u)[i]
  BY <1>6
<1> QED BY <1>7, <1>8 DEF K

\* Who is toggled changes the rows of no other group, and of its own those below it.
LEMMA ToggleKeepsPlace ==
  ASSUME NEW u, NEW w, NEW d \in Forest, NEW t \in d.tasks,
         ~Plain(u), ~Plain(w), w.grouped = u.grouped, w.display = u.display,
         w.closed = u.closed, \A x \in Task \ {t} : w.over[x] = u.over[x],
         NEW n \in DOMAIN VisibleTasks(u, d), VisibleTasks(u, d)[n] = t
  PROVE  n \in DOMAIN VisibleTasks(w, d) /\ VisibleTasks(w, d)[n] = t
<1> DEFINE R == TaskTree[d]
           gs == Groups(u, d)
           hs == Groups(w, d)
           ss == OpenRows(u, gs)
           zs == OpenRows(w, hs)
<1>1. \A x : t \notin Above[d][x] => (VisibleOrphan(w, d, x) <=> VisibleOrphan(u, d, x))
  <2>1. \A a : a # t => SubtaskDisplayFor(w, a) = SubtaskDisplayFor(u, a)
    BY DEF SubtaskDisplayFor
  <2> QED BY <2>1 DEF VisibleOrphan
<1>2. \A v : /\ Members(w, d, v) = Members(u, d, v)
             /\ InGroup(u, d, v) = {x \in Members(u, d, v) : VisibleOrphan(u, d, x)}
             /\ InGroup(w, d, v) = {x \in Members(u, d, v) : VisibleOrphan(w, d, x)}
  BY DEF Members, InGroup
<1>3. GroupKeys(w) = GroupKeys(u) /\ GroupKey(w, d, t) = GroupKey(u, d, t)
  BY DEF GroupKeys, GroupKey
<1>4. RowOrder(u, d) = R /\ RowOrder(w, d) = R
  BY DEF RowOrder
<1>5. \A v, x : x \in Members(u, d, v) /\ t \notin Above[d][x] =>
                  (x \in InGroup(w, d, v) <=> x \in InGroup(u, d, v))
  BY <1>1, <1>2
\* The task's own row.
<1>a. PICK i \in DOMAIN ss : \E k \in DOMAIN ss[i] : n = Lead(ss, i) + k
  <2>1. VisibleTasks(u, d) = Flat(ss) /\ ss \in Seq(Seq(Task))
    BY GroupsFacts, OpenRowsFacts DEF VisibleTasks
  <2> QED BY <2>1, FlatFacts
<1>6. PICK k \in DOMAIN ss[i] : n = Lead(ss, i) + k
  BY <1>a
<1>7. /\ gs \in Seq(Group) /\ hs \in Seq(Group) /\ ss \in Seq(Seq(Task)) /\ zs \in Seq(Seq(Task))
      /\ VisibleTasks(u, d) = Flat(ss) /\ VisibleTasks(w, d) = Flat(zs)
      /\ DOMAIN ss = DOMAIN gs /\ DOMAIN zs = DOMAIN hs /\ DOMAIN gs = 1..Len(gs)
  <2>1. gs \in Seq(Group) /\ hs \in Seq(Group) /\ DOMAIN gs = 1..Len(gs)
    BY GroupsFacts
  <2>2. DOMAIN ss = DOMAIN gs /\ DOMAIN zs = DOMAIN hs
    BY DEF OpenRows
  <2> HIDE DEF gs, hs
  <2>3. /\ ss \in Seq(Seq(Task)) /\ zs \in Seq(Seq(Task))
        /\ Shown(u, gs) = Flat(ss) /\ Shown(w, hs) = Flat(zs)
    BY <2>1, OpenRowsFacts
  <2>4. VisibleTasks(u, d) = Shown(u, gs) /\ VisibleTasks(w, d) = Shown(w, hs)
    BY DEF VisibleTasks, gs, hs
  <2> QED BY <2>1, <2>2, <2>3, <2>4
<1> DEFINE v == gs[i].key
<1>8. /\ v \in GroupKeys(u) /\ v \notin u.closed /\ ss[i] = GroupRows(u, d, v)
      /\ ss[i][k] = t /\ t \in InGroup(u, d, v) /\ v = GroupKey(u, d, t)
  <2>1. v \in Live(u, d) /\ gs[i].rows = GroupRows(u, d, v)
    BY <1>7, GroupsFacts
  <2>2. ss[i] = IF v \in u.closed THEN <<>> ELSE GroupRows(u, d, v)
    BY <1>7, <2>1 DEF OpenRows, Closed
  <2>3. ss[i][k] = t
    <3> HIDE DEF ss
    <3>1. Flat(ss)[Lead(ss, i) + k] = ss[i][k]
      BY <1>7, FlatFacts
    <3> QED BY <1>6, <1>7, <3>1
  <2>4. v \notin u.closed
    BY <2>2
  <2>5. t \in InGroup(u, d, v)
    <3>1. Range(GroupRows(u, d, v)) = InGroup(u, d, v)
      BY GroupRowsFacts
    <3>2. t \in Range(ss[i])
      BY <2>3 DEF Range
    <3> QED BY <2>2, <2>4, <3>1, <3>2
  <2>6. v \in GroupKeys(u)
    BY <2>1 DEF Live
  <2> QED BY <2>2, <2>3, <2>4, <2>5, <2>6, InGroupFacts
<1> HIDE DEF ss, zs, gs, hs, v
\* Who is below the task is in its group and comes after it.
<1>9. ASSUME NEW x \in d.tasks, t \in Above[d][x]
      PROVE  <<t, x>> \in R /\ GroupKey(u, d, x) = v
  <2>1. t \in Line(d, x)
    BY <1>9 DEF Line
  <2>2. t # x
    BY <1>9, NotAboveItself
  <2>3. GroupValue(d, t) = GroupValue(d, x)
    BY <2>1, FamilyHasOneGroup
  <2>4. <<t, x>> \in R
    BY <2>1, <2>2 DEF TaskTree
  <2> QED BY <1>8, <2>3, <2>4 DEF GroupKey
<1>10. ASSUME NEW y \in GroupKeys(u), y # v PROVE InGroup(w, d, y) = InGroup(u, d, y)
  <2>1. \A x \in Members(u, d, y) : x \in d.tasks /\ GroupKey(u, d, x) = y
    BY <1>10 DEF Members, GroupKey, GroupKeys
  <2>2. ASSUME NEW x \in Members(u, d, y) PROVE t \notin Above[d][x]
    <3>1. t \in Above[d][x] => GroupKey(u, d, x) = v
      BY <1>9, <2>1
    <3> QED BY <1>10, <2>1, <3>1
  <2> QED BY <1>2, <1>5, <2>2
<1>11. t \in InGroup(w, d, v)
  <2>1. t \in Members(u, d, v)
    BY <1>2, <1>8
  <2> QED BY <1>5, <1>8, <2>1, NotAboveItself
<1>12. Live(w, d) = Live(u, d)
  <2>1. \A y \in GroupKeys(u) : InGroup(w, d, y) # {} <=> InGroup(u, d, y) # {}
    BY <1>8, <1>10, <1>11
  <2> QED BY <1>3, <2>1 DEF Live
<1>13. DOMAIN hs = DOMAIN gs /\ \A j \in DOMAIN gs : hs[j].key = gs[j].key
  BY <1>12, KeysAreListed DEF gs, hs
\* Nothing changes above its group.
<1>14. ASSUME NEW j \in 1..(i - 1) PROVE zs[j] = ss[j]
  <2>1. j \in DOMAIN gs /\ i \in DOMAIN gs
    BY <1>7
  <2>2. gs[j].key \in Live(u, d) /\ gs[j].rows = GroupRows(u, d, gs[j].key)
        /\ gs[j].key < v /\ gs[j].key \in GroupKeys(u)
    <3>1. gs[j].key \in Live(u, d) /\ gs[j].rows = GroupRows(u, d, gs[j].key)
          /\ gs[j].key < v
      BY <2>1, GroupsFacts DEF gs, v
    <3> QED BY <3>1 DEF Live
  <2>3. hs[j].key = gs[j].key /\ hs[j].rows = GroupRows(w, d, gs[j].key)
    <3>1. hs[j].key = gs[j].key
      BY <1>13, <2>1
    <3>2. hs[j].rows = GroupRows(w, d, hs[j].key)
      BY <1>13, <2>1, GroupsFacts DEF hs
    <3> QED BY <3>1, <3>2
  <2> DEFINE y == gs[j].key
  <2>4. y # v
    <3>1. y \in Nat
      BY <2>2, KeysAreNumbers DEF y
    <3> QED BY <2>2, <3>1
  <2> HIDE DEF y
  <2>5. InGroup(w, d, y) = InGroup(u, d, y)
    BY <1>10, <2>2, <2>4 DEF y
  <2>6. GroupRows(w, d, y) = GroupRows(u, d, y)
    <3> DEFINE S == InGroup(u, d, y)
               z == GroupRows(w, d, y)
               s == GroupRows(u, d, y)
    <3>1. IsFiniteSet(S) /\ Orders(R, S)
      BY <1>4, GroupRowsFacts
    <3>2. s \in [1..Cardinality(S) -> S] /\ InOrder(s, R)
      BY <1>4, GroupRowsFacts
    <3>3. z \in [1..Cardinality(S) -> S] /\ InOrder(z, R)
      BY <1>4, <2>5, GroupRowsFacts
    <3> HIDE DEF S, z, s
    <3>4. s = z
      BY <3>1, <3>2, <3>3, ListingUnique
    <3> QED BY <3>4 DEF s, z
  <2>7. zs[j] = IF y \in w.closed THEN <<>> ELSE GroupRows(w, d, y)
    BY <1>13, <2>1, <2>3 DEF zs, OpenRows, Closed, y
  <2>8. ss[j] = IF y \in u.closed THEN <<>> ELSE GroupRows(u, d, y)
    BY <2>1, <2>2 DEF ss, OpenRows, Closed, y
  <2> QED BY <2>6, <2>7, <2>8
<1>15. Lead(zs, i) = Lead(ss, i)
  <2>1. \A j \in 1..(i - 1) : {j} \X DOMAIN zs[j] = {j} \X DOMAIN ss[j]
    BY <1>14
  <2>2. {{j} \X DOMAIN zs[j] : j \in 1..(i - 1)} = {{j} \X DOMAIN ss[j] : j \in 1..(i - 1)}
    BY <2>1
  <2> QED BY <2>2 DEF Lead
\* In its own group the rows before it stay.
<1>16. k \in DOMAIN zs[i] /\ zs[i][k] = t
  <2>1. zs[i] = GroupRows(w, d, v)
    <3>1. i \in DOMAIN hs /\ hs[i].key = v
      BY <1>7, <1>13 DEF v
    <3>2. hs[i].rows = GroupRows(w, d, v)
      BY <3>1, GroupsFacts DEF hs
    <3> QED BY <1>8, <3>1, <3>2 DEF zs, OpenRows, Closed
  <2> DEFINE S == InGroup(u, d, v)
             Z == InGroup(w, d, v)
             s == GroupRows(u, d, v)
             z == GroupRows(w, d, v)
  <2>2. /\ IsFiniteSet(S) /\ Orders(R, S) /\ s \in [1..Cardinality(S) -> S]
        /\ InOrder(s, R) /\ S \in SUBSET d.tasks /\ DOMAIN s = 1..Len(s)
    BY <1>4, GroupRowsFacts
  <2>3. /\ IsFiniteSet(Z) /\ Orders(R, Z) /\ z \in [1..Cardinality(Z) -> Z]
        /\ InOrder(z, R) /\ Z \in SUBSET d.tasks /\ Range(z) = Z /\ DOMAIN z = 1..Len(z)
    BY <1>4, GroupRowsFacts
  <2>4. Before(t, Z, R) = Before(t, S, R)
    <3>1. \A y \in d.tasks : <<y, t>> \in R => t \notin Above[d][y]
      <4> TAKE y \in d.tasks
      <4>1. t \in Above[d][y] => <<t, y>> \in R
        BY <1>9
      <4>2. Orders(R, d.tasks)
        BY TreeOrders
      <4> HIDE DEF R
      <4> QED BY <4>1, <4>2 DEF Orders
    <3>2. \A y : y \in Z \/ y \in S => y \in Members(u, d, v)
      BY <1>2
    <3>3. \A y \in d.tasks : <<y, t>> \in R => (y \in Z <=> y \in S)
      BY <1>5, <3>1, <3>2
    <3> HIDE DEF S, Z, R
    <3> QED BY <2>2, <2>3, <3>3 DEF Before
  <2>5. k \in DOMAIN s /\ s[k] = t
    BY <1>8
  <2>6. PICK m \in DOMAIN z : z[m] = t
    BY <1>11, <2>3 DEF Range
  <2> HIDE DEF S, Z, s, z, R
  <2>7. Cardinality(Before(t, S, R)) = k - 1
    BY <2>2, <2>5, ListingFacts
  <2>8. Cardinality(Before(t, Z, R)) = m - 1
    BY <2>3, <2>6, ListingFacts
  <2>9. m = k
    BY <2>2, <2>3, <2>4, <2>5, <2>6, <2>7, <2>8
  <2> QED BY <2>1, <2>6, <2>9 DEF z
<1>17. i \in DOMAIN zs
  BY <1>7, <1>13
<1> QED BY <1>6, <1>7, <1>15, <1>16, <1>17, FlatFacts

-----------------------------------------------------------------------------
(* Space, and what it acts on. *)

\* While rows are shown and no header has the cursor, keys act on the task at
\* the marker; without rows they act on none.
LEMMA TargetFacts ==
  ASSUME NEW u, NEW d \in Forest, Follows(u, d)
  PROVE  LET rows == VisibleTasks(u, d) IN
         /\ SelectedTask(u, d) \in Task \cup {NoTask}
         /\ ~Toggled(u) /\ ~u.header /\ rows = <<>> => SelectedTask(u, d) = NoTask
         /\ ~Toggled(u) /\ ~u.header /\ rows # <<>> =>
              /\ u.cursor + 1 \in DOMAIN rows /\ rows[u.cursor + 1] = u.sel
              /\ SelectedTask(u, d) = u.sel /\ u.sel \in d.tasks
<1> DEFINE gs == Groups(u, d)
           rows == VisibleTasks(u, d)
           focus == At([i \in DOMAIN gs |-> gs[i].key], u.focused)
           current == IF focus # 0 THEN focus
                      ELSE IF u.groupCursor =< Len(gs) THEN u.groupCursor ELSE 0
<1>1. u \in UIState /\ u.sel \in Task \cup {NoTask} /\ u.header \in BOOLEAN
  BY DEF Follows, UIState
<1>2. rows \in Seq(Task) /\ rows = Shown(u, gs)
  BY ShownFacts DEF VisibleTasks
<1>3. SelectedTask(u, d) =
        IF u.header
        THEN IF current # 0 /\ u.sel \in Range(gs[current].rows) THEN u.sel ELSE NoTask
        ELSE IF GroupOf(gs, u.sel) # 0 THEN u.sel
        ELSE IF u.cursor + 1 \in DOMAIN rows THEN rows[u.cursor + 1] ELSE NoTask
  BY <1>2 DEF SelectedTask
<1> HIDE DEF gs, current
<1>4. SelectedTask(u, d) \in Task \cup {NoTask}
  <2>1. u.cursor + 1 \in DOMAIN rows => rows[u.cursor + 1] \in Task
    BY <1>2
  <2> HIDE DEF rows
  <2> QED BY <1>1, <1>3, <2>1
<1>5. ASSUME ~Toggled(u), ~u.header, rows = <<>> PROVE SelectedTask(u, d) = NoTask
  <2>1. GroupOf(gs, u.sel) = 0
    <3> SUFFICES ASSUME GroupOf(gs, u.sel) # 0 PROVE FALSE
      OBVIOUS
    <3>1. PICK v \in GroupKeys(u) : u.sel \in InGroup(u, d, v)
      BY GroupOfFacts DEF gs
    <3>2. u.sel \in d.tasks /\ v = GroupKey(u, d, u.sel)
      BY <3>1, InGroupFacts
    <3>3. v \notin u.closed
      BY <1>5, <3>2, SelectionIsOpen
    <3>4. u.sel \in Range(rows)
      BY <3>1, <3>3, ShownFacts
    <3> QED BY <1>5, <3>4 DEF Range
  <2>2. DOMAIN rows = {}
    BY <1>5
  <2> HIDE DEF rows
  <2> QED BY <1>3, <1>5, <2>1, <2>2
<1>6. ASSUME ~Toggled(u), ~u.header, rows # <<>>
      PROVE  /\ u.cursor + 1 \in DOMAIN rows /\ rows[u.cursor + 1] = u.sel
             /\ SelectedTask(u, d) = u.sel /\ u.sel \in d.tasks
  <2>1. u.cursor + 1 \in DOMAIN rows /\ rows[u.cursor + 1] = u.sel
    BY <1>6 DEF Follows, Marked
  <2>2. u.sel \in d.tasks /\ GroupOf(gs, u.sel) # 0
    BY <1>1, <2>1, RowFacts DEF gs
  <2> HIDE DEF rows
  <2> QED BY <1>3, <1>6, <2>1, <2>2
<1> QED BY <1>4, <1>5, <1>6

LEMMA ToggleSubtasksFollows ==
  ASSUME NEW u, NEW d \in Forest, Follows(u, d), ~u.header,
         NEW t, t = SelectedTask(u, d), t # NoTask
  PROVE  Follows(ToggleSubtasks(u, t), d)
<1> DEFINE m == IF SubtaskDisplayFor(u, t) = "expanded" THEN "collapsed" ELSE "expanded"
           o == [u.over EXCEPT ![t] = m]
           w == [u EXCEPT !.over = o]
<1>1. u \in UIState /\ t \in Task /\ u.over \in [Task -> Display] /\ u.grouped \in BOOLEAN
  BY TargetFacts DEF Follows, UIState
<1>2. ToggleSubtasks(u, t) = w
  BY <1>1 DEF ToggleSubtasks, UIState
<1>3. m \in Display /\ m # "separate"
  BY DEF Display
<1> HIDE DEF m
<1>4. /\ o \in [Task -> Display] /\ o[t] # "separate"
      /\ \A x \in Task \ {t} : o[x] = u.over[x]
  BY <1>1, <1>3
<1> HIDE DEF o
<1>5. w \in UIState
  BY <1>1, <1>4 DEF UIState
<1>6. /\ w.grouped = u.grouped /\ w.display = u.display /\ w.closed = u.closed
      /\ w.header = u.header /\ w.cursor = u.cursor /\ w.sel = u.sel /\ w.over = o
  BY <1>1 DEF UIState
<1> HIDE DEF w
<1>7. ~Plain(w)
  BY <1>1, <1>4, <1>6 DEF Plain
<1>8. CASE ~u.grouped /\ u.display = "separate"
  BY <1>2, <1>5, <1>6, <1>7, <1>8 DEF Follows, Toggled
<1>9. CASE u.grouped \/ u.display # "separate"
  <2>1. ~Plain(u) /\ ~Toggled(u)
    BY <1>9 DEF Plain, Toggled
  <2> DEFINE n == u.cursor + 1
  <2>2. /\ VisibleTasks(u, d) # <<>> /\ n \in DOMAIN VisibleTasks(u, d)
        /\ VisibleTasks(u, d)[n] = t /\ u.sel = t /\ t \in d.tasks
    BY <2>1, TargetFacts
  <2> HIDE DEF n
  <2>3. n \in DOMAIN VisibleTasks(w, d) /\ VisibleTasks(w, d)[n] = t
    BY <1>4, <1>6, <1>7, <2>1, <2>2, ToggleKeepsPlace
  <2>4. VisibleTasks(w, d) # <<>>
    BY <2>3
  <2>5. Marked(w, d)
    BY <1>6, <2>2, <2>3, <2>4 DEF Marked, n
  <2> QED BY <1>2, <1>5, <1>6, <2>5 DEF Follows
<1> QED BY <1>1, <1>8, <1>9

LEMMA ToggleGroupFollows ==
  ASSUME NEW u, NEW d \in Forest, Follows(u, d)
  PROVE  Follows(ToggleGroup(u, d, Groups(u, d), SelectedTask(u, d)), d)
<1> DEFINE gs == Groups(u, d)
           t == SelectedTask(u, d)
           chosen == IF ~u.header THEN t
                     ELSE IF u.headerTask # NoTask THEN u.headerTask ELSE u.sel
           inside == GroupOf(gs, chosen)
           focus == At([i \in DOMAIN gs |-> gs[i].key], u.focused)
           g == IF u.header /\ CurrentGroup(u, gs) # 0 THEN CurrentGroup(u, gs)
                ELSE IF inside # 0 THEN inside ELSE focus
           subtasks == ~u.header /\ \E k \in d.tasks : t # NoTask /\ d.parent[k] = t
<1>1. /\ u \in UIState /\ u.grouped \in BOOLEAN /\ t \in Task \cup {NoTask}
      /\ chosen \in Task \cup {NoTask}
  <2>1. /\ u \in UIState /\ u.grouped \in BOOLEAN /\ u.header \in BOOLEAN
        /\ u.headerTask \in Task \cup {NoTask} /\ u.sel \in Task \cup {NoTask}
    BY DEF Follows, UIState
  <2>2. t \in Task \cup {NoTask}
    BY TargetFacts
  <2> HIDE DEF t
  <2> QED BY <2>1, <2>2
<1>2. g \in DOMAIN gs \cup {0}
  <2>1. /\ CurrentGroup(u, gs) \in DOMAIN gs \cup {0} /\ focus \in DOMAIN gs \cup {0}
        /\ inside \in DOMAIN gs \cup {0}
    BY <1>1, CurrentGroupFacts
  <2> HIDE DEF gs, focus, inside
  <2> QED BY <2>1
<1>3. ToggleGroup(u, d, gs, t) =
        IF subtasks THEN ToggleSubtasks(u, t)
        ELSE IF ~u.grouped \/ g = 0 THEN u
        ELSE IF Closed(u, gs[g]) THEN Expand(u, d, gs, g, chosen)
        ELSE Collapse(u, gs, g, chosen)
  BY DEF ToggleGroup
<1>4. subtasks => Follows(ToggleSubtasks(u, t), d)
  BY ToggleSubtasksFollows
<1>5. u.grouped /\ g # 0 => /\ Follows(Expand(u, d, gs, g, chosen), d)
                            /\ Follows(Collapse(u, gs, g, chosen), d)
  <2> HAVE u.grouped /\ g # 0
  <2>1. g \in DOMAIN Groups(u, d)
    BY <1>2
  <2> HIDE DEF g, chosen
  <2> QED BY <1>1, <2>1, ExpandFollows, CollapseFollows
<1> HIDE DEF gs, t, g, chosen, subtasks
<1>6. Follows(ToggleGroup(u, d, gs, t), d)
  BY <1>1, <1>3, <1>4, <1>5
<1> QED BY <1>6 DEF gs, t

-----------------------------------------------------------------------------
(* The invariant. *)

RowsInv ==
  /\ data \in Forest
  /\ changes \in 0..MaxChanges
  /\ Follows(ui, data)

\* Every step but the one into the panel ends with the panel scrolled.
Scrolled ==
  \/ \E w : Follows(w, data') /\ ui' = KeepVisible(w, data')
  \/ ui'.entered
  \/ UNCHANGED vars

\* A movement that follows is shown: the panel scrolls, and the moment of entering is over.
LEMMA ShowsFollows ==
  ASSUME NEW u, data \in Forest, changes \in 0..MaxChanges, Follows(u, data), Shows(u)
  PROVE  RowsInv' /\ Scrolled
<1> DEFINE w == [u EXCEPT !.entered = FALSE]
<1>1. ui' = KeepVisible(w, data) /\ data' = data /\ changes' = changes
  BY DEF Shows
<1>2. u \in UIState
  BY DEF Follows
<1>3. /\ w \in UIState /\ SameView(u, w) /\ w.header = u.header
      /\ w.cursor = u.cursor /\ w.sel = u.sel
  BY <1>2 DEF UIState, SameView
<1> HIDE DEF w
<1>4. Follows(w, data)
  BY <1>3, StillFollows
<1>5. Follows(KeepVisible(w, data), data)
  BY <1>4, KeepVisibleFollows
<1>6. Follows(w, data') /\ ui' = KeepVisible(w, data')
  BY <1>1, <1>4
<1> QED BY <1>1, <1>5, <1>6 DEF RowsInv, Scrolled

LEMMA InitScrolled ==
  ASSUME Init
  PROVE  data \in Forest /\ \E w : Follows(w, data) /\ ui = KeepVisible(w, data)
<1>1. data \in Forest
  BY DEF Init, Forest
<1> DEFINE o == [t \in Task |-> "separate"]
           z == 0
           k == 1
           U(h, m) == [grouped |-> FALSE, display |-> m,
                       over |-> o, closed |-> {},
                       header |-> FALSE, headerTask |-> NoTask, focused |-> NoValue,
                       groupCursor |-> k, cursor |-> z, sel |-> NoTask, offset |-> z,
                       focus |-> "tasks", height |-> h, entered |-> FALSE]
<1>3. PICK h \in Height, m \in Display : ui = KeepVisible(SelectTaskAt(U(h, m), data, 0), data)
  BY DEF Init
<1>4. o \in [Task -> Display] /\ z \in Nat /\ z \in Int /\ k \in Nat \ {0}
  BY DEF Display
<1> HIDE DEF o, z, k
<1>5. U(h, m) \in UIState
  BY <1>4 DEF UIState
<1> HIDE DEF U
<1>6. 0 \in Int
  OBVIOUS
<1>7. Follows(SelectTaskAt(U(h, m), data, 0), data)
  BY <1>1, <1>5, <1>6, SelectTaskAtFollows
<1> QED BY <1>1, <1>3, <1>7

LEMMA RowsInit == Init => RowsInv
<1> SUFFICES ASSUME Init PROVE RowsInv
  OBVIOUS
<1>1. changes \in 0..MaxChanges
  BY RowsAssumption DEF Init
<1>2. data \in Forest /\ Follows(ui, data)
  BY InitScrolled, KeepVisibleFollows
<1> QED BY <1>1, <1>2 DEF RowsInv

LEMMA RowsStep == RowsInv /\ [Next]_vars => RowsInv' /\ Scrolled
<1> SUFFICES ASSUME RowsInv, [Next]_vars PROVE RowsInv' /\ Scrolled
  OBVIOUS
<1>1. /\ data \in Forest /\ changes \in 0..MaxChanges /\ Follows(ui, data) /\ ui \in UIState
  BY DEF RowsInv, Follows
<1>2. ASSUME NEW b \in BOOLEAN, Move(b) PROVE RowsInv' /\ Scrolled
  <2>1. Follows(MoveCursor(ui, data, b), data)
    BY <1>1, MoveCursorFollows
  <2> QED BY <1>1, <1>2, <2>1, ShowsFollows DEF Move
<1>3. ASSUME NEW b \in BOOLEAN, Edge(b) PROVE RowsInv' /\ Scrolled
  <2>1. Follows(MoveToEdge(ui, data, b), data)
    BY <1>1, MoveToEdgeFollows
  <2> QED BY <1>1, <1>3, <2>1, ShowsFollows DEF Edge
<1>4. ASSUME NEW b \in BOOLEAN, ExpandAll(b) PROVE RowsInv' /\ Scrolled
  <2>1. Follows(SetAllExpanded(ui, data, b), data)
    BY <1>1, SetAllExpandedFollows
  <2> QED BY <1>1, <1>4, <2>1, ShowsFollows DEF ExpandAll
<1>5. ASSUME NEW b \in BOOLEAN, GroupBy(b) PROVE RowsInv' /\ Scrolled
  <2>1. Follows(ApplyGrouping(ui, data, b), data)
    BY <1>1, ApplyGroupingFollows
  <2> QED BY <1>1, <1>5, <2>1, ShowsFollows DEF GroupBy
<1>6. ASSUME Toggle PROVE RowsInv' /\ Scrolled
  <2>1. Follows(ToggleGroup(ui, data, Groups(ui, data), SelectedTask(ui, data)), data)
    BY <1>1, ToggleGroupFollows
  <2> QED BY <1>1, <1>6, <2>1, ShowsFollows DEF Toggle
<1>7. ASSUME NEW m \in Display, ShowSubtasks(m) PROVE RowsInv' /\ Scrolled
  <2>1. Follows(SetSubtaskDisplay(ui, data, m), data)
    BY <1>1, SetSubtaskDisplayFollows
  <2> QED BY <1>1, <1>7, <2>1, ShowsFollows DEF ShowSubtasks
<1>8. ASSUME LeavePanel PROVE RowsInv' /\ Scrolled
  <2> DEFINE w == [ui EXCEPT !.focus = "tree"]
  <2>1. /\ w \in UIState /\ SameView(ui, w) /\ w.header = ui.header
        /\ w.cursor = ui.cursor /\ w.sel = ui.sel
    BY <1>1 DEF UIState, SameView
  <2> HIDE DEF w
  <2>2. Follows(w, data)
    BY <1>1, <2>1, StillFollows
  <2> QED BY <1>1, <1>8, <2>2, ShowsFollows DEF LeavePanel, w
<1>9. ASSUME EnterPanel PROVE RowsInv' /\ Scrolled
  <2> DEFINE w == [ui EXCEPT !.focus = "tasks", !.entered = TRUE]
  <2>1. /\ w \in UIState /\ SameView(ui, w) /\ w.header = ui.header
        /\ w.cursor = ui.cursor /\ w.sel = ui.sel
    BY <1>1 DEF UIState, SameView
  <2>2. ui' = w /\ data' = data /\ changes' = changes
    BY <1>9 DEF EnterPanel
  <2> HIDE DEF w
  <2>3. Follows(w, data)
    BY <1>1, <2>1, StillFollows
  <2>4. ui'.entered
    BY <1>1, <1>9 DEF EnterPanel, UIState
  <2> QED BY <1>1, <2>2, <2>3, <2>4 DEF RowsInv, Scrolled
<1>10. ASSUME NEW h \in Height, Resize(h) PROVE RowsInv' /\ Scrolled
  <2> DEFINE w == [ui EXCEPT !.height = h]
  <2>1. /\ w \in UIState /\ SameView(ui, w) /\ w.header = ui.header
        /\ w.cursor = ui.cursor /\ w.sel = ui.sel
    BY <1>1 DEF UIState, SameView
  <2> HIDE DEF w
  <2>2. Follows(w, data)
    BY <1>1, <2>1, StillFollows
  <2> QED BY <1>1, <1>10, <2>2, ShowsFollows DEF Resize, w
<1>11. ASSUME Snapshot PROVE RowsInv' /\ Scrolled
  <2> DEFINE w == [ui EXCEPT !.entered = FALSE]
  <2>1. PICK d \in Changed(data) : /\ Acyclic(d) /\ data' = d
                                   /\ ui' = KeepVisible(ReconcileSelection(w, d), d)
    BY <1>11 DEF Snapshot
  <2>2. d \in Data
    <3>1. data \in Data
      BY <1>1 DEF Forest
    <3>2. \A t \in Task : /\ [data EXCEPT !.tasks = @ \ {t}] \in Data
                          /\ [data EXCEPT !.tasks = @ \cup {t}] \in Data
                          /\ \A v \in Value : [data EXCEPT !.value[t] = v] \in Data
                          /\ \A p \in Task \cup {NoTask} : [data EXCEPT !.parent[t] = p] \in Data
      BY <3>1 DEF Data
    <3>3. CASE \E t \in Task : d = [data EXCEPT !.tasks = IF t \in @ THEN @ \ {t} ELSE @ \cup {t}]
      <4>1. PICK t \in Task : d = [data EXCEPT !.tasks = IF t \in @ THEN @ \ {t} ELSE @ \cup {t}]
        BY <3>3
      <4>2. \/ d = [data EXCEPT !.tasks = @ \ {t}]
            \/ d = [data EXCEPT !.tasks = @ \cup {t}]
        BY <4>1
      <4> QED BY <3>2, <4>2
    <3>4. CASE \E t \in Task, v \in Value : d = [data EXCEPT !.value[t] = v]
      BY <3>2, <3>4
    <3>5. CASE \E t \in Task, p \in Task \cup {NoTask} : d = [data EXCEPT !.parent[t] = p]
      BY <3>2, <3>5
    <3> QED BY <2>1, <3>3, <3>4, <3>5 DEF Changed
  <2>3. d \in Forest
    BY <2>1, <2>2 DEF Forest
  <2>4. w \in UIState
    BY <1>1 DEF UIState
  <2> HIDE DEF w
  <2>5. Follows(KeepVisible(ReconcileSelection(w, d), d), d)
    BY <2>3, <2>4, ReconcileFollows, KeepVisibleFollows
  <2>6. changes' \in 0..MaxChanges
    BY <1>1, <1>11, RowsAssumption DEF Snapshot
  <2>7. Follows(ReconcileSelection(w, d), d)
    BY <2>3, <2>4, ReconcileFollows
  <2> QED BY <2>1, <2>3, <2>5, <2>6, <2>7 DEF RowsInv, Scrolled
<1>12. CASE UNCHANGED vars
  BY <1>1, <1>12 DEF RowsInv, vars, Scrolled
<1> QED BY <1>2, <1>3, <1>4, <1>5, <1>6, <1>7, <1>8, <1>9, <1>10, <1>11, <1>12 DEF Next

LEMMA RowsInvHolds == Spec => []RowsInv
<1> QED BY RowsInit, RowsStep, PTL DEF Spec

\* The state of the panel keeps its shape: the scroll offset is never
\* negative, the cursor and the selection stay what the code takes them for.
THEOREM RowsAreTyped == Spec => []RowsTypeOK
<1>1. RowsInv => RowsTypeOK
  BY DEF RowsInv, Follows, Forest, RowsTypeOK
<1> QED BY <1>1, RowsInvHolds, PTL

\* The marker is at the task that keys act on, for every snapshot, grouping
\* and display, and after every sequence of keys and snapshots (update.go,
\* reconcileSelection, selectedTask).
THEOREM MarkerIsAtTheTarget == Spec => []MarkIsTarget
<1>1. ASSUME RowsInv PROVE MarkIsTarget
  <2> DEFINE rows == VisibleTasks(ui, data)
  <2>1. data \in Forest /\ Follows(ui, data) /\ ui.header \in BOOLEAN
    BY <1>1 DEF RowsInv, Follows, UIState
  <2> SUFFICES ASSUME ui.grouped \/ ui.display # "separate" \/ Plain(ui)
               PROVE  IF rows = <<>> THEN ui.header \/ SelectedTask(ui, data) = NoTask
                      ELSE IF ui.header THEN ui.cursor = -1
                      ELSE /\ ui.cursor + 1 \in DOMAIN rows
                           /\ rows[ui.cursor + 1] = SelectedTask(ui, data)
    BY DEF MarkIsTarget
  <2>2. ~Toggled(ui)
    BY DEF Toggled
  <2>3. CASE ui.header
    BY <2>1, <2>2, <2>3 DEF Follows, Marked
  <2>4. CASE ~ui.header
    <3>1. rows = <<>> => SelectedTask(ui, data) = NoTask
      BY <2>1, <2>2, <2>4, TargetFacts
    <3>2. rows # <<>> => /\ ui.cursor + 1 \in DOMAIN rows
                         /\ rows[ui.cursor + 1] = SelectedTask(ui, data)
      BY <2>1, <2>2, <2>4, TargetFacts
    <3> HIDE DEF rows
    <3> QED BY <2>4, <3>1, <3>2
  <2> QED BY <2>3, <2>4
<1> QED BY <1>1, RowsInvHolds, PTL

-----------------------------------------------------------------------------
(* No task is lost, and none is shown twice. *)

\* Above a task that is left out stands a row whose subtasks are collapsed.
LEMMA LeftOutIsBelowARow ==
  ASSUME NEW u \in UIState, NEW d \in Forest, NEW t \in d.tasks,
         Above[d][t] \subseteq d.tasks, ~VisibleOrphan(u, d, t)
  PROVE  \E b \in Above[d][t] : /\ SubtaskDisplayFor(u, b) = "collapsed"
                                /\ VisibleOrphan(u, d, b)
<1> DEFINE A == Above[d][t]
           S == {a \in A : SubtaskDisplayFor(u, a) = "collapsed"}
           B == {b \in Line(d, t) : \E s \in S : s \in Line(d, b)}
<1>1. t \in Task /\ A \subseteq Task /\ S \subseteq A /\ A \subseteq Line(d, t)
      /\ Line(d, t) \subseteq d.tasks /\ d.tasks \subseteq Task
  BY ForestFacts, AboveFacts, LineFacts DEF Line
<1>2. PICK s0 \in A : s0 \in S
  BY DEF VisibleOrphan
<1>3. B # {} /\ B \in SUBSET Task
  <2>1. s0 \in Line(d, t) /\ s0 \in Line(d, s0)
    BY <1>1, LineFacts
  <2> HIDE DEF S, A
  <2> QED BY <1>1, <1>2, <2>1
<1>4. PICK b \in B : d.parent[b] \notin B
  BY <1>3, ForestFacts DEF Acyclic
<1>5. b \in Line(d, t) /\ b \in d.tasks
  BY <1>1
<1>6. ASSUME NEW s \in S, s \in Line(d, b) PROVE s = b
  <2> SUFFICES ASSUME s # b PROVE FALSE
    OBVIOUS
  <2>1. /\ Parent(d, b) \in d.tasks /\ s \in Line(d, Parent(d, b))
        /\ Parent(d, b) # NoTask
    BY <1>5, <1>6, LineOfParent
  <2>2. Parent(d, b) = d.parent[b]
    BY <2>1 DEF Parent
  <2>3. Parent(d, b) \in Line(d, t)
    BY <1>5, <2>1, LineFacts
  <2> HIDE DEF S
  <2> QED BY <1>4, <2>1, <2>2, <2>3
<1>7. b \in S
  <2>1. PICK s \in S : s \in Line(d, b)
    OBVIOUS
  <2> QED BY <1>6, <2>1
<1>8. Above[d][b] \subseteq A
  <2>1. \A x \in {t} \cup (A \cap d.tasks) : d.parent[x] \in A \cup {NoTask}
    BY <1>1, AboveFacts
  <2>2. \A x \in {b} \cup (A \cap d.tasks) : d.parent[x] \in A \cup {NoTask}
    BY <1>5, <1>7, <2>1
  <2>3. A \in SUBSET Task /\ b \in Task
    BY <1>1, <1>5
  <2> HIDE DEF A
  <2> QED BY <2>2, <2>3, AboveFacts
<1>9. ASSUME NEW a \in Above[d][b] PROVE SubtaskDisplayFor(u, a) # "collapsed"
  <2> SUFFICES ASSUME SubtaskDisplayFor(u, a) = "collapsed" PROVE FALSE
    OBVIOUS
  <2>1. a \in S /\ a \in d.tasks
    BY <1>8
  <2>2. a \in Line(d, b)
    BY <2>1 DEF Line
  <2>3. a = b
    BY <1>6, <2>1, <2>2
  <2> QED BY <1>5, <2>3, NotAboveItself
<1> QED BY <1>7, <1>9 DEF VisibleOrphan

\* A loaded task whose parents are loaded has a row or stands below one.
LEMMA EveryTaskHasItsPlace ==
  ASSUME NEW u \in UIState, NEW d \in Forest, NEW t \in d.tasks,
         Above[d][t] \subseteq d.tasks
  PROVE  LET gs == Groups(u, d) IN
         \/ GroupOf(gs, t) # 0
         \/ \E a \in Above[d][t], i \in DOMAIN gs :
              /\ a \in Range(gs[i].rows)
              /\ u.grouped => gs[i].key = GroupValue(d, t)
              /\ SubtaskDisplayFor(u, a) = "collapsed"
<1> DEFINE gs == Groups(u, d)
           v == GroupKey(u, d, t)
<1>1. t \in Line(d, t) /\ u.grouped \in BOOLEAN
  BY LineFacts DEF UIState
<1>2. v \in GroupKeys(u)
  BY <1>1, FamilyHasOneGroup DEF GroupKey, GroupKeys
<1>3. ASSUME NEW a \in d.tasks, a \in Line(d, t), VisibleOrphan(u, d, a)
      PROVE  a \in InGroup(u, d, v)
  <2>1. GroupValue(d, a) = GroupValue(d, t)
    BY <1>3, FamilyHasOneGroup
  <2> QED BY <1>3, <2>1 DEF InGroup, Members, GroupKey
<1>4. CASE VisibleOrphan(u, d, t) \/ Plain(u)
  <2>1. t \in InGroup(u, d, v)
    BY <1>1, <1>3, <1>4 DEF InGroup
  <2>2. GroupOf(gs, t) # 0
    BY <1>2, <2>1, GroupOfFacts
  <2> QED BY <2>2
<1>5. CASE ~VisibleOrphan(u, d, t)
  <2>1. PICK b \in Above[d][t] : /\ SubtaskDisplayFor(u, b) = "collapsed"
                                 /\ VisibleOrphan(u, d, b)
    BY <1>5, LeftOutIsBelowARow
  <2>2. b \in d.tasks /\ b \in Line(d, t)
    BY DEF Line
  <2>3. b \in InGroup(u, d, v)
    BY <1>3, <2>1, <2>2
  <2>4. v \in Live(u, d)
    BY <1>2, <2>3 DEF Live
  <2>5. PICK i \in DOMAIN gs : gs[i].key = v
    BY <2>4, GroupsFacts
  <2>6. gs[i].rows = GroupRows(u, d, v)
    BY <2>5, GroupsFacts
  <2>7. b \in Range(gs[i].rows)
    BY <2>3, <2>6, GroupRowsFacts
  <2>8. u.grouped => gs[i].key = GroupValue(d, t)
    BY <2>5 DEF GroupKey
  <2> HIDE DEF gs
  <2>9. \E a \in Above[d][t], j \in DOMAIN gs :
          /\ a \in Range(gs[j].rows)
          /\ u.grouped => gs[j].key = GroupValue(d, t)
          /\ SubtaskDisplayFor(u, a) = "collapsed"
    BY <2>1, <2>7, <2>8
  <2> QED BY <2>9 DEF gs
<1> QED BY <1>4, <1>5

\* Sequences without repetitions that share no element make a whole without repetitions.
LEMMA FlatIsInjective ==
  ASSUME NEW T, NEW ss \in Seq(Seq(T)),
         \A i \in DOMAIN ss : \A k, l \in DOMAIN ss[i] : ss[i][k] = ss[i][l] => k = l,
         \A i, j \in DOMAIN ss : \A k \in DOMAIN ss[i], l \in DOMAIN ss[j] :
           ss[i][k] = ss[j][l] => i = j
  PROVE  IsInjective(Flat(ss))
<1> SUFFICES ASSUME NEW m \in DOMAIN Flat(ss), NEW n \in DOMAIN Flat(ss),
                    Flat(ss)[m] = Flat(ss)[n]
             PROVE  m = n
  BY DEF IsInjective
<1>1. PICK i \in DOMAIN ss : \E k \in DOMAIN ss[i] : m = Lead(ss, i) + k
  BY FlatFacts
<1>2. PICK k \in DOMAIN ss[i] : m = Lead(ss, i) + k
  BY <1>1
<1>3. PICK j \in DOMAIN ss : \E l \in DOMAIN ss[j] : n = Lead(ss, j) + l
  BY FlatFacts
<1>4. PICK l \in DOMAIN ss[j] : n = Lead(ss, j) + l
  BY <1>3
<1>5. ss[i][k] = ss[j][l]
  <2>1. Flat(ss)[m] = ss[i][k]
    BY <1>2, FlatFacts
  <2>2. Flat(ss)[n] = ss[j][l]
    BY <1>4, FlatFacts
  <2> QED BY <2>1, <2>2
<1>6. i = j
  BY <1>5
<1>7. k = l
  BY <1>5, <1>6
<1> QED BY <1>2, <1>4, <1>6, <1>7

\* The lines of a group: its header, then its rows.
Heading(u, g) == IF u.grouped THEN <<-g.key>> ELSE <<>>
Block(u, g) == Heading(u, g) \o (IF Closed(u, g) THEN <<>> ELSE g.rows)

LEMMA TasksArePositive == \A x \in Task : x \in Nat /\ x > 0
<1>1. \A x \in Task : x \in Nat /\ x # 0
  BY RowsAssumption DEF NoTask
<1> QED BY <1>1

LEMMA BlockFacts ==
  ASSUME NEW u \in UIState, NEW d \in Forest, NEW i \in DOMAIN Groups(u, d)
  PROVE  LET g == Groups(u, d)[i] IN
         /\ Block(u, g) \in Seq(Int)
         /\ g.key \in Nat
         /\ \A k \in DOMAIN Block(u, g) :
              \/ Block(u, g)[k] = -g.key /\ k = 1 /\ u.grouped
              \/ Block(u, g)[k] \in InGroup(u, d, g.key)
         /\ \A k, l \in DOMAIN Block(u, g) : Block(u, g)[k] = Block(u, g)[l] => k = l
<1> DEFINE g == Groups(u, d)[i]
           v == g.key
           h == Heading(u, g)
           s == IF Closed(u, g) THEN <<>> ELSE g.rows
           b == Block(u, g)
<1>1. v \in Live(u, d) /\ g.rows = GroupRows(u, d, v)
  BY GroupsFacts
<1>2. v \in GroupKeys(u) /\ v \in Nat
  BY <1>1, KeysAreNumbers DEF Live
<1>3. /\ g.rows \in Seq(Task) /\ DOMAIN g.rows = 1..Len(g.rows)
      /\ \A k \in DOMAIN g.rows : g.rows[k] \in InGroup(u, d, v)
      /\ \A k, l \in DOMAIN g.rows : g.rows[k] = g.rows[l] => k = l
  <2> DEFINE S == InGroup(u, d, v)
             r == GroupRows(u, d, v)
  <2>1. /\ IsFiniteSet(S) /\ Orders(RowOrder(u, d), S) /\ r \in [1..Cardinality(S) -> S]
        /\ InOrder(r, RowOrder(u, d)) /\ r \in Seq(Task) /\ DOMAIN r = 1..Len(r)
    BY GroupRowsFacts
  <2>2. \A k, l \in DOMAIN r : r[k] = r[l] => k = l
    <3> HIDE DEF S, r
    <3> QED BY <2>1, ListingFacts
  <2>3. \A k \in DOMAIN r : r[k] \in S
    BY <2>1
  <2> QED BY <1>1, <2>1, <2>2, <2>3
<1> HIDE DEF g
<1>4. \A x \in Task : x \in Int /\ x > 0
  BY TasksArePositive
<1>5. /\ s \in Seq(Int) /\ DOMAIN s = 1..Len(s) /\ Len(s) \in Nat
      /\ \A k \in DOMAIN s : s[k] \in InGroup(u, d, v) /\ s[k] > 0
      /\ \A k, l \in DOMAIN s : s[k] = s[l] => k = l
  <2>1. \A k \in DOMAIN g.rows : g.rows[k] > 0 /\ g.rows[k] \in Int
    <3>1. \A k \in DOMAIN g.rows : g.rows[k] \in Task
      BY <1>3
    <3> QED BY <1>4, <3>1
  <2>2. g.rows \in Seq(Int)
    BY <1>3, <2>1
  <2>3. CASE Closed(u, g)
    <3>1. s = <<>>
      BY <2>3
    <3> HIDE DEF s
    <3> QED BY <3>1
  <2>4. CASE ~Closed(u, g)
    <3>1. s = g.rows
      BY <2>4
    <3>2. /\ g.rows \in Seq(Int) /\ DOMAIN g.rows = 1..Len(g.rows) /\ Len(g.rows) \in Nat
          /\ \A k \in DOMAIN g.rows : g.rows[k] \in InGroup(u, d, v) /\ g.rows[k] > 0
          /\ \A k, l \in DOMAIN g.rows : g.rows[k] = g.rows[l] => k = l
      BY <1>3, <2>1, <2>2
    <3> HIDE DEF s, v
    <3> QED BY <3>1, <3>2
  <2> QED BY <2>3, <2>4
<1>6. /\ h \in Seq(Int) /\ Len(h) \in {0, 1} /\ DOMAIN h = 1..Len(h)
      /\ Len(h) = 1 => h[1] = -v /\ u.grouped
  <2>1. CASE u.grouped
    <3>1. h = <<-v>> /\ -v \in Int
      BY <1>2, <2>1 DEF Heading
    <3> HIDE DEF h, v
    <3> QED BY <2>1, <3>1
  <2>2. CASE ~u.grouped
    <3>1. h = <<>>
      BY <2>2 DEF Heading
    <3> HIDE DEF h
    <3> QED BY <3>1
  <2> QED BY <2>1, <2>2
<1>7. b = h \o s
  BY DEF Block
<1> HIDE DEF h, s, b, v
<1>8. /\ b \in Seq(Int) /\ DOMAIN b = 1..(Len(h) + Len(s))
      /\ \A k \in DOMAIN b : b[k] = IF k =< Len(h) THEN h[k] ELSE s[k - Len(h)]
  BY <1>5, <1>6, <1>7
<1>9. ASSUME NEW k \in DOMAIN b
      PROVE  \/ k =< Len(h) /\ b[k] = -v /\ k = 1 /\ u.grouped
             \/ /\ k > Len(h) /\ k - Len(h) \in DOMAIN s
                /\ b[k] = s[k - Len(h)]
  <2>1. CASE k =< Len(h)
    BY <1>5, <1>6, <1>8, <2>1
  <2>2. CASE k > Len(h)
    <3> DEFINE m == Len(h)
               n == Len(s)
    <3>0. m \in Nat /\ n \in Nat /\ k \in 1..(m + n)
      BY <1>5, <1>6, <1>8
    <3>1. k - m \in 1..n
      <4> HIDE DEF m, n
      <4> QED BY <2>2, <3>0 DEF m
    <3>2. ~(k =< Len(h))
      BY <1>6, <1>8, <2>2
    <3>3. b[k] = s[k - Len(h)]
      BY <1>8, <3>2
    <3> QED BY <1>5, <2>2, <3>1, <3>3
  <2> QED BY <1>5, <1>6, <1>8, <2>1, <2>2
<1>10. \A k \in DOMAIN b : \/ b[k] = -v /\ k = 1 /\ u.grouped
                           \/ b[k] \in InGroup(u, d, v)
  BY <1>5, <1>9
<1>11. ASSUME NEW k \in DOMAIN b, NEW l \in DOMAIN b, b[k] = b[l] PROVE k = l
  <2>0. k \in Int /\ l \in Int /\ Len(h) \in Int
    BY <1>6, <1>8
  <2>1. CASE k =< Len(h) /\ l =< Len(h)
    BY <1>9, <2>0, <2>1
  <2>2. CASE k =< Len(h) /\ l > Len(h)
    <3>1. b[k] = -v
      BY <1>9, <2>0, <2>2
    <3>2. b[l] > 0
      BY <1>5, <1>9, <2>0, <2>2
    <3>3. v \in Nat
      BY <1>2 DEF v
    <3> QED BY <1>11, <3>1, <3>2, <3>3
  <2>3. CASE k > Len(h) /\ l =< Len(h)
    <3>1. b[l] = -v
      BY <1>9, <2>0, <2>3
    <3>2. b[k] > 0
      BY <1>5, <1>9, <2>0, <2>3
    <3>3. v \in Nat
      BY <1>2 DEF v
    <3> QED BY <1>11, <3>1, <3>2, <3>3
  <2>4. CASE k > Len(h) /\ l > Len(h)
    <3>1. /\ k - Len(h) \in DOMAIN s /\ l - Len(h) \in DOMAIN s
          /\ s[k - Len(h)] = s[l - Len(h)]
      BY <1>9, <1>11, <2>0, <2>4
    <3>2. k - Len(h) = l - Len(h)
      BY <1>5, <3>1
    <3> QED BY <2>0, <3>2
  <2> QED BY <2>0, <2>1, <2>2, <2>3, <2>4
<1> QED BY <1>2, <1>8, <1>10, <1>11 DEF g, v, b

LEMMA LinesAreInjective ==
  ASSUME NEW u \in UIState, NEW d \in Forest
  PROVE  IsInjective(Lines(u, d))
<1> DEFINE gs == Groups(u, d)
           bs == [i \in DOMAIN gs |-> Block(u, gs[i])]
<1>1. Lines(u, d) = Flat(bs)
  BY DEF Lines, Block, Heading
<1>2. DOMAIN gs = 1..Len(gs) /\ Len(gs) \in Nat
  BY GroupsFacts
<1>3. \A i \in DOMAIN gs : /\ bs[i] \in Seq(Int)
                           /\ \A k, l \in DOMAIN bs[i] : bs[i][k] = bs[i][l] => k = l
  BY BlockFacts
<1>4. ASSUME NEW i \in DOMAIN gs, NEW j \in DOMAIN gs, NEW k \in DOMAIN bs[i], NEW l \in DOMAIN bs[j],
             bs[i][k] = bs[j][l], i < j
      PROVE  FALSE
  <2> DEFINE v == gs[i].key
             w == gs[j].key
             x == bs[i][k]
  <2>1. v < w /\ v \in Nat /\ w \in Nat /\ v \in GroupKeys(u) /\ w \in GroupKeys(u)
    <3>1. i \in 1..(j - 1)
      BY <1>2, <1>4
    <3>2. v < w /\ v \in Live(u, d) /\ w \in Live(u, d)
      BY <3>1, GroupsFacts
    <3>3. v \in GroupKeys(u) /\ w \in GroupKeys(u)
      BY <3>2 DEF Live
    <3> QED BY <3>2, <3>3, KeysAreNumbers
  <2>2. x = -v \/ x \in InGroup(u, d, v)
    BY BlockFacts
  <2>3. x = -w \/ x \in InGroup(u, d, w)
    BY <1>4, BlockFacts
  <2> HIDE DEF v, w, x, bs
  <2>4. ~(x \in InGroup(u, d, v) /\ x \in InGroup(u, d, w))
    <3>1. x \in InGroup(u, d, v) => v = GroupKey(u, d, x)
      BY <2>1, InGroupFacts
    <3>2. x \in InGroup(u, d, w) => w = GroupKey(u, d, x)
      BY <2>1, InGroupFacts
    <3>3. v # w
      BY <2>1
    <3> QED BY <3>1, <3>2, <3>3
  <2>5. \A y \in GroupKeys(u) : x \in InGroup(u, d, y) => x \in Nat /\ x > 0
    <3>1. \A y \in GroupKeys(u) : x \in InGroup(u, d, y) => x \in Task
      BY InGroupFacts
    <3> QED BY <3>1, TasksArePositive
  <2>6. x \in InGroup(u, d, v) \/ x \in InGroup(u, d, w) => x > 0
    BY <2>1, <2>5
  <2> QED BY <2>1, <2>2, <2>3, <2>4, <2>6
<1>5. DOMAIN bs = DOMAIN gs
  OBVIOUS
<1>6. \A i, j \in DOMAIN gs : \A k \in DOMAIN bs[i], l \in DOMAIN bs[j] :
        bs[i][k] = bs[j][l] => i = j
  <2> HIDE DEF bs, gs
  <2> TAKE i, j \in DOMAIN gs
  <2> TAKE k \in DOMAIN bs[i], l \in DOMAIN bs[j]
  <2> HAVE bs[i][k] = bs[j][l]
  <2>1. ~(i < j)
    BY <1>4
  <2>2. ~(j < i)
    BY <1>4
  <2> QED BY <1>2, <2>1, <2>2
<1>7. bs \in Seq(Seq(Int))
  BY <1>2, <1>3
<1> HIDE DEF bs, gs
<1>8. IsInjective(Flat(bs))
  BY <1>3, <1>5, <1>6, <1>7, FlatIsInjective
<1> QED BY <1>1, <1>8

\* Every loaded task whose parents are loaded has a line or stands under one
\* that can be opened, and no task or header has two, for every snapshot,
\* grouping and display (projection.go: groupTaskRows, arrangeTaskRows,
\* taskGroupingRow, flattenTaskGroups).
THEOREM NoTaskIsLost == Spec => []NothingIsLost
<1>1. ASSUME RowsInv PROVE NothingIsLost
  <2>1. data \in Forest /\ ui \in UIState
    BY <1>1 DEF RowsInv, Follows
  <2>2. IsInjective(Lines(ui, data))
    BY <2>1, LinesAreInjective
  <2> QED BY <2>1, <2>2, EveryTaskHasItsPlace DEF NothingIsLost
<1> QED BY <1>1, RowsInvHolds, PTL

-----------------------------------------------------------------------------
(* The panel scrolls to the cursor. *)

\* The line of the cursor does not depend on the scroll offset.
LEMMA SameLine ==
  ASSUME NEW u, NEW w, NEW d, SameView(u, w), w.header = u.header, w.cursor = u.cursor,
         w.sel = u.sel, w.focused = u.focused, w.groupCursor = u.groupCursor
  PROVE  CursorLine(w, d) = CursorLine(u, d)
<1>1. w.grouped = u.grouped /\ w.closed = u.closed /\ Groups(w, d) = Groups(u, d)
  BY SameRows DEF SameView
<1>2. Lines(w, d) = Lines(u, d)
  BY <1>1 DEF Lines, Closed
<1>3. CurrentGroup(w, Groups(u, d)) = CurrentGroup(u, Groups(u, d))
  BY DEF CurrentGroup
<1> QED BY <1>1, <1>2, <1>3 DEF CursorLine

LEMMA LineIsNumber ==
  ASSUME NEW u \in UIState, NEW d
  PROVE  CursorLine(u, d) \in Int
<1>1. \A x : At(Lines(u, d), x) \in Int
  <2>1. \A ss : DOMAIN Flat(ss) \subseteq Int
    BY DEF Flat
  <2>2. DOMAIN Lines(u, d) \subseteq Int
    BY <2>1 DEF Lines
  <2>3. \A x : At(Lines(u, d), x) \in DOMAIN Lines(u, d) \cup {0}
    BY AtFacts
  <2> QED BY <2>2, <2>3
<1>2. \A x : At(Lines(u, d), x) - 1 \in Int
  BY <1>1
<1>3. u.cursor \in Int
  BY DEF UIState
<1> QED BY <1>2, <1>3 DEF CursorLine

LEMMA KeepVisibleShows ==
  ASSUME NEW u \in UIState, NEW d, NEW w, w = KeepVisible(u, d),
         w.focus = "tasks", CursorLine(w, d) >= 0
  PROVE  w.offset =< CursorLine(w, d) /\ CursorLine(w, d) < w.offset + w.height
<1> DEFINE line == IF u.focus = "tasks" THEN CursorLine(u, d) ELSE u.cursor
           o == IF line = -1 THEN 0 ELSE KeepCursorVisible(line, u.offset, u.height)
<1>1. w = [u EXCEPT !.offset = o]
  BY DEF KeepVisible, UIState
<1> HIDE DEF o, line
<1>2. /\ SameView(u, w) /\ w.header = u.header /\ w.cursor = u.cursor /\ w.sel = u.sel
      /\ w.focused = u.focused /\ w.groupCursor = u.groupCursor /\ w.focus = u.focus
      /\ w.offset = o /\ w.height = u.height
  BY <1>1 DEF UIState, SameView
<1>3. CursorLine(w, d) = CursorLine(u, d)
  BY <1>2, SameLine
<1>4. line = CursorLine(w, d) /\ line \in Int
  BY <1>2, <1>3, LineIsNumber DEF line
<1>5. u.offset \in Nat /\ u.height \in Nat \ {0}
  BY RowsAssumption DEF UIState
<1>6. o = KeepCursorVisible(line, u.offset, u.height)
  BY <1>4 DEF o
<1>7. o =< line /\ line < o + u.height
  BY <1>4, <1>5, <1>6 DEF KeepCursorVisible
<1> QED BY <1>2, <1>4, <1>7

\* The line with the cursor is on the screen after every key, snapshot, regrouping
\* and change of size, however long the list and however small the panel
\* (update.go, keepVisible).
THEOREM CursorStaysOnScreen == Spec => []CursorIsOnScreen
<1> DEFINE Inv == RowsInv /\ CursorIsOnScreen
<1>1. ASSUME NEW w \in UIState, ui = KeepVisible(w, data) PROVE CursorIsOnScreen
  BY <1>1, KeepVisibleShows DEF CursorIsOnScreen, InPanel
<1>2. Init => Inv
  <2> SUFFICES ASSUME Init PROVE Inv
    OBVIOUS
  <2>1. RowsInv
    BY RowsInit
  <2>2. \E w \in UIState : ui = KeepVisible(w, data)
    BY InitScrolled DEF Follows
  <2> QED BY <1>1, <2>1, <2>2
<1>3. Inv /\ [Next]_vars => Inv'
  <2> SUFFICES ASSUME Inv, [Next]_vars PROVE Inv'
    OBVIOUS
  <2>1. RowsInv' /\ Scrolled
    BY RowsStep
  <2>2. CASE UNCHANGED vars
    BY <2>1, <2>2 DEF vars, CursorIsOnScreen, InPanel
  <2>3. CASE ui'.entered
    BY <2>1, <2>3 DEF CursorIsOnScreen
  <2>4. ASSUME NEW w, Follows(w, data'), ui' = KeepVisible(w, data') PROVE CursorIsOnScreen'
    <3>1. w \in UIState
      BY <2>4 DEF Follows
    <3> QED BY <2>4, <3>1, KeepVisibleShows DEF CursorIsOnScreen, InPanel
  <2> QED BY <2>1, <2>2, <2>3, <2>4 DEF Scrolled
<1>4. Inv => CursorIsOnScreen
  OBVIOUS
<1> QED BY <1>2, <1>3, <1>4, PTL DEF Spec

-----------------------------------------------------------------------------
(* Each line is a stop. *)

\* An element that occurs once is found where it is.
LEMMA AtUnique ==
  ASSUME NEW s, IsInjective(s), NEW m \in DOMAIN s
  PROVE  At(s, s[m]) = m
<1>1. s[m] \in Range(s)
  BY DEF Range
<1>2. At(s, s[m]) \in DOMAIN s /\ s[At(s, s[m])] = s[m]
  BY <1>1, AtFacts
<1> QED BY <1>2 DEF IsInjective

\* The rows of a group, each once.
LEMMA RowsOfGroup ==
  ASSUME NEW u, NEW d \in Forest, NEW i \in DOMAIN Groups(u, d)
  PROVE  LET r == Groups(u, d)[i].rows IN
         /\ r \in Seq(Task) /\ Len(r) \in Nat \ {0} /\ DOMAIN r = 1..Len(r)
         /\ IsInjective(r) /\ Range(r) = InGroup(u, d, Groups(u, d)[i].key)
<1> DEFINE v == Groups(u, d)[i].key
           S == InGroup(u, d, v)
           r == GroupRows(u, d, v)
<1>1. Groups(u, d)[i].rows = r /\ v \in Live(u, d)
  BY GroupsFacts
<1>2. S # {}
  BY <1>1 DEF Live
<1> HIDE DEF v
<1>3. /\ IsFiniteSet(S) /\ Orders(RowOrder(u, d), S) /\ r \in [1..Cardinality(S) -> S]
      /\ InOrder(r, RowOrder(u, d)) /\ r \in Seq(Task) /\ DOMAIN r = 1..Len(r)
      /\ Range(r) = S
      /\ r = <<>> <=> S = {}
  BY GroupRowsFacts
<1> HIDE DEF S, r
<1>4. IsInjective(r)
  <2>1. \A k, l \in DOMAIN r : r[k] = r[l] => k = l
    BY <1>3, ListingFacts
  <2> QED BY <2>1 DEF IsInjective
<1>5. Len(r) \in Nat \ {0}
  <2>1. r # <<>> /\ r \in Seq(Task)
    BY <1>2, <1>3
  <2> QED BY <2>1
<1> QED BY <1>1, <1>3, <1>4, <1>5 DEF S, v

\* One element before a sequence.
LEMMA AfterOne ==
  ASSUME NEW x \in Int, NEW s \in Seq(Int)
  PROVE  LET b == <<x>> \o s IN
         /\ b \in Seq(Int) /\ Len(b) = 1 + Len(s) /\ DOMAIN b = 1..(1 + Len(s))
         /\ b[1] = x
         /\ \A k \in DOMAIN s : k + 1 \in DOMAIN b /\ b[k + 1] = s[k]
<1> DEFINE h == <<x>>
           b == h \o s
<1>1. h \in Seq(Int) /\ Len(h) = 1 /\ h[1] = x
  OBVIOUS
<1>2. /\ s \in Seq(Int) /\ Len(s) \in Nat /\ DOMAIN s = 1..Len(s)
  OBVIOUS
<1> HIDE DEF h
<1>3. /\ b \in Seq(Int) /\ Len(b) = Len(h) + Len(s)
      /\ \A k \in 1..(Len(h) + Len(s)) : b[k] = IF k =< Len(h) THEN h[k] ELSE s[k - Len(h)]
  BY <1>1, <1>2, ConcatProperties
<1> HIDE DEF b
<1>4. b \in Seq(Int) /\ Len(b) = 1 + Len(s) /\ DOMAIN b = 1..(1 + Len(s))
  <2>1. Len(b) \in Nat /\ DOMAIN b = 1..Len(b)
    BY <1>3
  <2> QED BY <1>1, <1>2, <1>3, <2>1
<1>5. b[1] = x
  <2>1. 1 \in 1..(Len(h) + Len(s)) /\ 1 =< Len(h)
    BY <1>1, <1>2
  <2> QED BY <1>1, <1>3, <2>1
<1>6. \A k \in DOMAIN s : k + 1 \in DOMAIN b /\ b[k + 1] = s[k]
  <2> TAKE k \in DOMAIN s
  <2>1. k + 1 \in 1..(Len(h) + Len(s)) /\ ~(k + 1 =< Len(h)) /\ (k + 1) - Len(h) = k
    BY <1>1, <1>2
  <2>2. b[k + 1] = s[(k + 1) - Len(h)]
    BY <1>3, <2>1
  <2> QED BY <1>1, <1>4, <2>1, <2>2
<1> QED BY <1>4, <1>5, <1>6 DEF h, b

\* A group's lines: its header, and its rows if it is open.
LEMMA BlockShape ==
  ASSUME NEW u \in UIState, u.grouped, NEW d \in Forest, NEW i \in DOMAIN Groups(u, d)
  PROVE  LET g == Groups(u, d)[i]
             b == Block(u, g)
             s == OpenRows(u, Groups(u, d))[i]
         IN /\ b \in Seq(Int) /\ Len(b) = 1 + Len(s) /\ DOMAIN b = 1..(1 + Len(s))
            /\ b[1] = -g.key /\ Len(s) \in Nat /\ DOMAIN s = 1..Len(s)
            /\ \A k \in DOMAIN s : k + 1 \in DOMAIN b /\ b[k + 1] = s[k]
<1> DEFINE gs == Groups(u, d)
           s == OpenRows(u, gs)[i]
           x == -gs[i].key
<1>1. gs[i].key \in Nat
  BY BlockFacts
<1>2. gs \in Seq(Group)
  BY GroupsFacts
<1>3. Block(u, gs[i]) = <<x>> \o s
  BY DEF Block, Heading, OpenRows
<1>4. s \in Seq(Task)
  <2>1. OpenRows(u, gs) \in Seq(Seq(Task)) /\ i \in DOMAIN OpenRows(u, gs)
    BY <1>2, OpenRowsFacts DEF OpenRows
  <2> HIDE DEF gs
  <2> QED BY <2>1
<1>5. x \in Int
  BY <1>1
<1> HIDE DEF s, x
<1>6. s \in Seq(Int) /\ Len(s) \in Nat /\ DOMAIN s = 1..Len(s)
  <2>1. Len(s) \in Nat /\ DOMAIN s = 1..Len(s) /\ \A k \in DOMAIN s : s[k] \in Task
    BY <1>4
  <2>2. \A k \in DOMAIN s : s[k] \in Int
    BY <2>1, TasksArePositive
  <2> QED BY <1>4, <2>1, <2>2
<1> QED BY <1>3, <1>5, <1>6, AfterOne DEF s, x

\* How many lines are above the header of the i-th group.
Blocks(u, d) == [i \in DOMAIN Groups(u, d) |-> Block(u, Groups(u, d)[i])]
Start(u, d, i) == Lead(Blocks(u, d), i)

\* Where the lines of a group begin and end, and where each of them is found.
LEMMA LinesFacts ==
  ASSUME NEW u \in UIState, u.grouped, NEW d \in Forest
  PROVE  LET gs == Groups(u, d)
             ss == OpenRows(u, gs)
             lines == Lines(u, d)
         IN /\ Len(lines) = Start(u, d, Len(gs) + 1) /\ Start(u, d, 1) = 0
            /\ \A i \in 1..(Len(gs) + 1) : Start(u, d, i) \in Nat /\ Start(u, d, i) =< Len(lines)
            /\ \A i \in DOMAIN gs :
                 /\ Start(u, d, i + 1) = Start(u, d, i) + 1 + Len(ss[i])
                 /\ At(lines, -gs[i].key) = Start(u, d, i) + 1
                 /\ \A k \in DOMAIN ss[i] : At(lines, ss[i][k]) = Start(u, d, i) + k + 1
            /\ \A m \in DOMAIN lines : \E i \in DOMAIN gs :
                 lines[m] = -gs[i].key \/ \E k \in DOMAIN ss[i] : lines[m] = ss[i][k]
<1> DEFINE gs == Groups(u, d)
           ss == OpenRows(u, gs)
           bs == Blocks(u, d)
           lines == Lines(u, d)
<1>1. lines = Flat(bs)
  BY DEF Lines, Blocks, Block, Heading
<1>2. DOMAIN gs = 1..Len(gs) /\ Len(gs) \in Nat /\ DOMAIN bs = DOMAIN gs
  BY GroupsFacts DEF Blocks
<1>3. ASSUME NEW i \in DOMAIN gs
      PROVE  /\ bs[i] \in Seq(Int) /\ Len(bs[i]) = 1 + Len(ss[i])
             /\ DOMAIN bs[i] = 1..(1 + Len(ss[i]))
             /\ bs[i][1] = -gs[i].key /\ Len(ss[i]) \in Nat /\ DOMAIN ss[i] = 1..Len(ss[i])
             /\ \A k \in DOMAIN ss[i] : k + 1 \in DOMAIN bs[i] /\ bs[i][k + 1] = ss[i][k]
  BY BlockShape DEF Blocks
<1>4. bs = [i \in DOMAIN gs |-> bs[i]]
  BY DEF Blocks
<1>5. IsInjective(lines)
  BY LinesAreInjective
<1> HIDE DEF gs, ss, bs, lines
<1>6. bs \in Seq(Seq(Int)) /\ Len(bs) = Len(gs)
  <2>1. bs \in [1..Len(gs) -> Seq(Int)]
    BY <1>2, <1>3, <1>4
  <2> QED BY <1>2, <2>1
<1>7. /\ Len(lines) = Lead(bs, Len(gs) + 1)
      /\ \A i \in DOMAIN bs : \A k \in DOMAIN bs[i] :
           /\ Lead(bs, i) + k \in DOMAIN lines
           /\ lines[Lead(bs, i) + k] = bs[i][k]
      /\ \A n \in DOMAIN lines : \E i \in DOMAIN bs : \E k \in DOMAIN bs[i] :
           n = Lead(bs, i) + k
  BY <1>1, <1>6, FlatFacts
<1>8. /\ Lead(bs, 1) = 0
      /\ \A i \in 1..(Len(gs) + 1) : Lead(bs, i) \in Nat
      /\ \A i \in 1..Len(gs) : Lead(bs, i + 1) = Lead(bs, i) + Len(bs[i])
      /\ \A i, j \in 1..(Len(gs) + 1) : i =< j => Lead(bs, i) =< Lead(bs, j)
  BY <1>6, LeadFacts
<1>9. \A i \in 1..(Len(gs) + 1) : Lead(bs, i) \in Nat /\ Lead(bs, i) =< Len(lines)
  <2>1. Len(gs) + 1 \in 1..(Len(gs) + 1) /\ \A i \in 1..(Len(gs) + 1) : i =< Len(gs) + 1
    BY <1>2
  <2> QED BY <1>7, <1>8, <2>1
<1>10. \A i \in DOMAIN gs : \A k \in DOMAIN bs[i] : At(lines, bs[i][k]) = Lead(bs, i) + k
  <2> TAKE i \in DOMAIN gs
  <2> TAKE k \in DOMAIN bs[i]
  <2>1. Lead(bs, i) + k \in DOMAIN lines /\ lines[Lead(bs, i) + k] = bs[i][k]
    BY <1>2, <1>7
  <2> QED BY <1>5, <2>1, AtUnique
<1>11. ASSUME NEW i \in DOMAIN gs
       PROVE  /\ Lead(bs, i + 1) = Lead(bs, i) + 1 + Len(ss[i])
              /\ At(lines, -gs[i].key) = Lead(bs, i) + 1
              /\ \A k \in DOMAIN ss[i] : At(lines, ss[i][k]) = Lead(bs, i) + k + 1
  <2>1. i \in 1..Len(gs) /\ Lead(bs, i) \in Nat
    BY <1>2, <1>8
  <2>2. Lead(bs, i + 1) = Lead(bs, i) + Len(bs[i])
    BY <1>8, <2>1
  <2>3. Lead(bs, i + 1) = Lead(bs, i) + 1 + Len(ss[i])
    <3> DEFINE a == Lead(bs, i)
               b == Lead(bs, i + 1)
               m == Len(bs[i])
               n == Len(ss[i])
    <3>1. m = 1 + n /\ n \in Nat /\ a \in Nat /\ b = a + m
      BY <1>3, <2>1, <2>2
    <3> HIDE DEF a, b, m, n
    <3>2. b = a + 1 + n
      BY <3>1
    <3> QED BY <3>2 DEF a, b, n
  <2>4. At(lines, -gs[i].key) = Lead(bs, i) + 1
    <3>1. 1 \in DOMAIN bs[i]
      BY <1>3
    <3>2. At(lines, bs[i][1]) = Lead(bs, i) + 1
      BY <1>10, <3>1
    <3> QED BY <1>3, <3>2
  <2>5. ASSUME NEW k \in DOMAIN ss[i]
        PROVE  At(lines, ss[i][k]) = Lead(bs, i) + k + 1
    <3>1. k + 1 \in DOMAIN bs[i] /\ bs[i][k + 1] = ss[i][k] /\ k \in Int
      BY <1>3
    <3>2. At(lines, bs[i][k + 1]) = Lead(bs, i) + (k + 1)
      BY <1>10, <3>1
    <3> QED BY <2>1, <3>1, <3>2
  <2> QED BY <2>3, <2>4, <2>5
<1>12. ASSUME NEW m \in DOMAIN lines
       PROVE  \E i \in DOMAIN gs :
                lines[m] = -gs[i].key \/ \E k \in DOMAIN ss[i] : lines[m] = ss[i][k]
  <2>1. PICK i \in DOMAIN bs : \E k \in DOMAIN bs[i] : m = Lead(bs, i) + k
    BY <1>7
  <2>2. PICK k \in DOMAIN bs[i] : m = Lead(bs, i) + k
    BY <2>1
  <2>3. lines[m] = bs[i][k] /\ i \in DOMAIN gs
    BY <1>2, <1>7, <2>2
  <2>4. CASE k = 1
    BY <1>3, <2>3, <2>4
  <2>5. CASE k # 1
    <3>1. k - 1 \in DOMAIN ss[i] /\ (k - 1) + 1 = k
      BY <1>3, <2>3, <2>5
    <3>2. bs[i][k] = ss[i][k - 1]
      BY <1>3, <2>3, <3>1
    <3> QED BY <2>3, <3>1, <3>2
  <2> QED BY <2>4, <2>5
<1> QED BY <1>7, <1>8, <1>9, <1>11, <1>12 DEF Start, bs, gs, ss, lines

\* Rows begin where those of the groups above end.
LEMMA RowStartIsLead ==
  ASSUME NEW u, NEW gs \in Seq(Group), NEW i \in DOMAIN gs
  PROVE  RowStart(u, gs, i) = Lead(OpenRows(u, gs), i)
<1> DEFINE hs == SubSeq(gs, 1, i - 1)
           ss == OpenRows(u, gs)
           zs == OpenRows(u, hs)
<1>1. i \in 1..Len(gs) /\ Len(gs) \in Nat /\ DOMAIN gs = 1..Len(gs)
  OBVIOUS
<1>2. /\ hs \in Seq(Group) /\ Len(hs) = i - 1 /\ DOMAIN hs = 1..(i - 1)
      /\ \A k \in 1..(i - 1) : hs[k] = gs[k] /\ k \in DOMAIN gs
  BY <1>1
<1> HIDE DEF hs
<1>3. \A k \in 1..(i - 1) : zs[k] = ss[k]
  BY <1>2 DEF OpenRows
<1>4. /\ zs \in Seq(Seq(Task)) /\ Shown(u, hs) = Flat(zs) /\ DOMAIN zs = 1..(i - 1)
  BY <1>2, OpenRowsFacts DEF OpenRows
<1> HIDE DEF zs, ss
<1>5. Len(zs) = i - 1
  BY <1>1, <1>4
<1>6. Len(Shown(u, hs)) = Lead(zs, Len(zs) + 1)
  BY <1>4, FlatFacts
<1>7. Len(zs) + 1 = i
  BY <1>1, <1>5
<1>8. {{k} \X DOMAIN zs[k] : k \in 1..(i - 1)} = {{k} \X DOMAIN ss[k] : k \in 1..(i - 1)}
  BY <1>3
<1>9. Lead(zs, i) = Lead(ss, i)
  BY <1>8 DEF Lead
<1> QED BY <1>6, <1>7, <1>9 DEF RowStart, hs, ss

\* The line of a header that takes the cursor.
LEMMA HeaderLine ==
  ASSUME NEW u \in UIState, u.grouped, NEW d \in Forest, NEW i \in DOMAIN Groups(u, d),
         NEW p \in Task \cup {NoTask}
  PROVE  CursorLine(FocusHeader(u, Groups(u, d), i, p), d) = Start(u, d, i)
<1> DEFINE gs == Groups(u, d)
           w == FocusHeader(u, gs, i, p)
           keys == [j \in DOMAIN gs |-> gs[j].key]
<1>1. w.grouped = u.grouped /\ w.display = u.display /\ w.over = u.over /\ w.closed = u.closed
      /\ w.header = TRUE /\ w.focused = gs[i].key
  BY DEF FocusHeader, UIState
<1>2. Groups(w, d) = gs
  BY <1>1, SameGroups
<1>3. /\ DOMAIN gs = 1..Len(gs) /\ Len(gs) \in Nat /\ i # 0 /\ 0 \notin DOMAIN gs
      /\ \A j, k \in DOMAIN gs : j < k => gs[j].key < gs[k].key
  <2>1. DOMAIN gs = 1..Len(gs) /\ Len(gs) \in Nat
    BY GroupsFacts
  <2>2. \A k \in DOMAIN gs : \A j \in 1..(k - 1) : gs[j].key < gs[k].key
    BY GroupsFacts
  <2> HIDE DEF gs
  <2>3. \A j, k \in DOMAIN gs : j < k => j \in 1..(k - 1)
    BY <2>1
  <2>4. i # 0
    BY <2>1 DEF gs
  <2> QED BY <2>1, <2>2, <2>3, <2>4
<1>4. \A j \in DOMAIN gs : gs[j].key \in Nat
  BY BlockFacts
<1>5. Lines(w, d) = Lines(u, d)
  BY <1>1, <1>2 DEF Lines, Closed
<1>6. At(Lines(u, d), -gs[i].key) = Start(u, d, i) + 1 /\ Start(u, d, i) \in Nat
  <2>1. i \in 1..(Len(gs) + 1)
    BY <1>3
  <2> QED BY <2>1, LinesFacts
<1>7. CurrentGroup(w, gs) = IF At(keys, w.focused) # 0 THEN At(keys, w.focused)
                            ELSE IF w.groupCursor =< Len(gs) THEN w.groupCursor ELSE 0
  BY <1>1 DEF CurrentGroup
<1>8. CursorLine(w, d) = IF CurrentGroup(w, gs) = 0 THEN -1
                         ELSE At(Lines(u, d), -gs[CurrentGroup(w, gs)].key) - 1
  BY <1>1, <1>2, <1>5 DEF CursorLine
<1>0. i \in DOMAIN gs
  OBVIOUS
<1> HIDE DEF w, gs
<1>9. At(keys, gs[i].key) = i
  <2>1. IsInjective(keys) /\ DOMAIN keys = DOMAIN gs
    <3>1. ASSUME NEW j \in DOMAIN gs, NEW k \in DOMAIN gs, gs[j].key = gs[k].key PROVE j = k
      <4>1. ~(j < k) /\ ~(k < j)
        BY <1>3, <1>4, <3>1
      <4> QED BY <1>3, <4>1
    <3> QED BY <3>1 DEF IsInjective
  <2>2. keys[i] = gs[i].key
    BY <1>0
  <2> HIDE DEF keys
  <2>3. At(keys, keys[i]) = i
    BY <1>0, <2>1, AtUnique
  <2> QED BY <2>2, <2>3
<1> HIDE DEF keys
<1>10. CurrentGroup(w, gs) = i
  BY <1>1, <1>3, <1>7, <1>9
<1> QED BY <1>3, <1>6, <1>8, <1>10 DEF w, gs

\* The line of a row that takes the cursor: the k-th of the i-th group.
LEMMA RowLine ==
  ASSUME NEW u \in UIState, u.grouped, NEW d \in Forest, NEW i \in DOMAIN Groups(u, d),
         NEW k \in DOMAIN OpenRows(u, Groups(u, d))[i]
  PROVE  CursorLine(SelectTaskAt(u, d, RowStart(u, Groups(u, d), i) + k - 1), d)
           = Start(u, d, i) + k
<1> DEFINE gs == Groups(u, d)
           ss == OpenRows(u, gs)
           rows == Shown(u, gs)
           n == RowStart(u, gs, i) + k - 1
           w == SelectTaskAt(u, d, n)
<1>1. gs \in Seq(Group) /\ DOMAIN gs = 1..Len(gs) /\ Len(gs) \in Nat /\ DOMAIN ss = DOMAIN gs
  BY GroupsFacts DEF OpenRows
<1>0. i \in DOMAIN gs /\ k \in DOMAIN ss[i]
  OBVIOUS
<1>2. /\ RowStart(u, gs, i) = Lead(ss, i) /\ RowStart(u, gs, i) \in Nat
      /\ ss \in Seq(Seq(Task)) /\ rows = Flat(ss) /\ rows \in Seq(Task)
      /\ DOMAIN rows = 1..Len(rows) /\ Len(rows) \in Nat
  <2> HIDE DEF gs
  <2> QED BY <1>0, <1>1, RowStartIsLead, RowStartFacts, OpenRowsFacts
<1>3. k \in Nat \ {0}
  <2>1. ss[i] \in Seq(Task)
    BY <1>0, <1>1, <1>2
  <2> HIDE DEF gs, ss
  <2> QED BY <1>0, <2>1
<1>4. At(Lines(u, d), ss[i][k]) = Start(u, d, i) + k + 1 /\ Start(u, d, i) \in Nat
  <2>1. i \in 1..(Len(gs) + 1)
    BY <1>0, <1>1
  <2> QED BY <2>1, LinesFacts
<1>5. SelectTaskAt(u, d, n) =
        LET at == Clamp(n, 0, Len(rows) - 1)
            g == GroupOf(gs, rows[at + 1])
        IN IF rows = <<>> THEN [NoHeader(u) EXCEPT !.cursor = 0, !.sel = NoTask]
           ELSE [NoHeader(u) EXCEPT !.cursor = at, !.sel = rows[at + 1],
                              !.focused = NoValue,
                              !.groupCursor = IF u.grouped THEN g ELSE @]
  BY DEF SelectTaskAt
<1>6. n + 1 \in DOMAIN rows /\ rows[n + 1] = ss[i][k]
  <2>0. n + 1 = RowStart(u, gs, i) + k
    BY <1>2, <1>3
  <2> HIDE DEF gs, ss, rows, n, w
  <2>1. i \in DOMAIN ss
    BY <1>0, <1>1
  <2>2. Lead(ss, i) + k \in DOMAIN Flat(ss) /\ Flat(ss)[Lead(ss, i) + k] = ss[i][k]
    BY <1>0, <1>2, <2>1, FlatFacts
  <2> QED BY <1>2, <2>0, <2>2
<1>7. Clamp(n, 0, Len(rows) - 1) = n /\ rows # <<>>
  <2> HIDE DEF rows
  <2>1. n \in Int
    BY <1>2, <1>3
  <2> HIDE DEF n
  <2>2. 0 =< n /\ n =< Len(rows) - 1
    BY <1>2, <1>6, <2>1
  <2>3. Len(rows) \in Nat /\ rows # <<>>
    BY <1>2, <1>6
  <2> QED BY <2>1, <2>2, <2>3 DEF Clamp
<1> DEFINE g == GroupOf(gs, rows[n + 1])
           t == rows[n + 1]
<1> HIDE DEF rows, gs, ss, n
<1>s. w = [NoHeader(u) EXCEPT !.cursor = n, !.sel = t, !.focused = NoValue,
                              !.groupCursor = IF u.grouped THEN g ELSE @]
  BY <1>5, <1>7
<1> HIDE DEF g, t, w
<1>8. /\ w.grouped = u.grouped /\ w.display = u.display /\ w.over = u.over
      /\ w.closed = u.closed /\ w.header = FALSE /\ w.sel = t
  BY <1>s DEF NoHeader, UIState
<1>9. Groups(w, d) = gs
  BY <1>8, SameGroups DEF gs
<1>10. Lines(w, d) = Lines(u, d)
  BY <1>8, <1>9 DEF Lines, Closed, gs
<1>11. CursorLine(w, d) = At(Lines(u, d), ss[i][k]) - 1
  BY <1>6, <1>8, <1>10 DEF CursorLine, t
<1> QED BY <1>3, <1>4, <1>11 DEF w, n, gs

\* A key belongs to one group.
LEMMA KeysDiffer ==
  ASSUME NEW u \in UIState, NEW d \in Forest,
         NEW i \in DOMAIN Groups(u, d), NEW j \in DOMAIN Groups(u, d),
         Groups(u, d)[i].key = Groups(u, d)[j].key
  PROVE  i = j
<1> DEFINE gs == Groups(u, d)
<1>1. DOMAIN gs = 1..Len(gs) /\ Len(gs) \in Nat
  BY GroupsFacts
<1>2. \A k \in DOMAIN gs : \A l \in 1..(k - 1) : gs[l].key < gs[k].key
  BY GroupsFacts
<1>3. gs[i].key \in Nat /\ gs[j].key \in Nat
  BY BlockFacts
<1>4. gs[i].key = gs[j].key /\ i \in DOMAIN gs /\ j \in DOMAIN gs
  OBVIOUS
<1> HIDE DEF gs
<1>5. ~(i \in 1..(j - 1)) /\ ~(j \in 1..(i - 1))
  BY <1>2, <1>3, <1>4
<1> QED BY <1>1, <1>4, <1>5

\* While no header has the cursor, its line is that of a row of an open group.
LEMMA RowHasCursor ==
  ASSUME NEW u \in UIState, u.grouped, NEW d \in Forest, ~u.header, CursorLine(u, d) >= 0
  PROVE  LET gs == Groups(u, d)
             ss == OpenRows(u, gs)
             g == CurrentGroup(u, gs)
             k == At(gs[g].rows, u.sel)
         IN /\ g \in DOMAIN gs /\ ~Closed(u, gs[g])
            /\ k \in DOMAIN ss[g] /\ CursorLine(u, d) = Start(u, d, g) + k
<1> DEFINE gs == Groups(u, d)
           ss == OpenRows(u, gs)
           g == CurrentGroup(u, gs)
           lines == Lines(u, d)
           m == At(lines, u.sel)
<1>1. CursorLine(u, d) = m - 1 /\ g = GroupOf(gs, u.sel)
  BY DEF CursorLine, CurrentGroup
<1>2. m \in DOMAIN lines /\ lines[m] = u.sel
  <2>1. m \in DOMAIN lines \cup {0} /\ (u.sel \in Range(lines) => lines[m] = u.sel)
    BY AtFacts
  <2>2. m # 0
    BY <1>1
  <2>3. u.sel \in Range(lines)
    BY <2>2 DEF At
  <2> QED BY <2>1, <2>2, <2>3
<1>3. PICK i \in DOMAIN gs :
        lines[m] = -gs[i].key \/ \E k \in DOMAIN ss[i] : lines[m] = ss[i][k]
  BY <1>2, LinesFacts
<1>4. gs[i].key \in Value /\ gs[i].key \in Live(u, d) /\ i \in 1..(Len(gs) + 1)
  <2>1. i \in 1..Len(gs) /\ Len(gs) \in Nat
    BY GroupsFacts
  <2>2. gs[i].key \in Value /\ gs[i].key \in Live(u, d)
    BY GroupedKeys
  <2> HIDE DEF gs
  <2> QED BY <2>1, <2>2
<1>5. lines[m] # -gs[i].key
  <2> DEFINE v == gs[i].key
  <2>1. v \in Nat /\ v # 0
    BY <1>4, RowsAssumption DEF NoValue
  <2>2. u.sel \in Nat
    <3>1. u.sel \in Task \cup {NoTask}
      BY DEF UIState
    <3> QED BY <3>1, TasksArePositive DEF NoTask
  <2> HIDE DEF v
  <2>3. u.sel # -v
    BY <2>1, <2>2
  <2> QED BY <1>2, <2>3 DEF v
<1>6. PICK k \in DOMAIN ss[i] : u.sel = ss[i][k]
  BY <1>2, <1>3, <1>5
<1>7. ss[i] = IF Closed(u, gs[i]) THEN <<>> ELSE gs[i].rows
  BY DEF OpenRows
<1>8. ~Closed(u, gs[i]) /\ ss[i] = gs[i].rows
  <2> SUFFICES ASSUME Closed(u, gs[i]) PROVE FALSE
    BY <1>7
  <2>1. ss[i] = <<>>
    BY <1>7
  <2> QED BY <1>6, <2>1
<1>9. /\ IsInjective(gs[i].rows) /\ u.sel \in InGroup(u, d, gs[i].key)
      /\ At(gs[i].rows, u.sel) = k
  <2>1. IsInjective(gs[i].rows) /\ Range(gs[i].rows) = InGroup(u, d, gs[i].key)
    BY RowsOfGroup
  <2>2. k \in DOMAIN gs[i].rows /\ u.sel = gs[i].rows[k]
    BY <1>6, <1>8
  <2> HIDE DEF gs, ss
  <2>3. u.sel \in Range(gs[i].rows)
    BY <2>2 DEF Range
  <2> QED BY <2>1, <2>2, <2>3, AtUnique
<1>10. gs[i].key \in GroupKeys(u)
  BY <1>4 DEF Live
<1>11. g \in DOMAIN gs /\ gs[g].key = GroupKey(u, d, u.sel)
  BY <1>1, <1>9, <1>10, GroupOfFacts
<1>12. gs[i].key = GroupKey(u, d, u.sel)
  BY <1>9, <1>10, InGroupFacts
<1>13. g = i
  BY <1>11, <1>12, KeysDiffer
<1>14. At(lines, ss[i][k]) = Start(u, d, i) + k + 1 /\ Start(u, d, i) \in Nat
  BY <1>4, LinesFacts
<1>15. k \in Nat
  <2>1. k \in DOMAIN gs[i].rows /\ DOMAIN gs[i].rows = 1..Len(gs[i].rows)
    BY <1>6, <1>8, RowsOfGroup
  <2> HIDE DEF gs
  <2> QED BY <2>1
<1>16. CursorLine(u, d) = Start(u, d, i) + k
  <2>1. m = Start(u, d, i) + k + 1
    BY <1>6, <1>14
  <2> HIDE DEF m
  <2> QED BY <1>1, <1>14, <1>15, <2>1
<1> HIDE DEF g
<1> QED BY <1>6, <1>8, <1>9, <1>11, <1>13, <1>16 DEF g

\* The last line of a group takes the cursor.
LEMMA LastRowLine ==
  ASSUME NEW u \in UIState, u.grouped, NEW d \in Forest, NEW i \in DOMAIN Groups(u, d)
  PROVE  CursorLine(LastRow(u, d, Groups(u, d), i), d) = Start(u, d, i + 1) - 1
<1> DEFINE gs == Groups(u, d)
           ss == OpenRows(u, gs)
           w == LastRow(u, d, gs, i)
<1>1. /\ Start(u, d, i + 1) = Start(u, d, i) + 1 + Len(ss[i]) /\ Start(u, d, i) \in Nat
  <2>1. i \in 1..Len(gs) /\ Len(gs) \in Nat
    BY GroupsFacts
  <2>2. i \in 1..(Len(gs) + 1)
    BY <2>1
  <2> QED BY <2>2, LinesFacts
<1>2. CASE Closed(u, gs[i])
  <2>1. ss[i] = <<>> /\ w = FocusHeader(u, gs, i, NoTask)
    BY <1>2 DEF OpenRows, LastRow
  <2>2. Len(ss[i]) = 0
    BY <2>1
  <2>3. CursorLine(w, d) = Start(u, d, i)
    <3>1. NoTask \in Task \cup {NoTask}
      OBVIOUS
    <3> QED BY <2>1, <3>1, HeaderLine
  <2> HIDE DEF w, ss
  <2> QED BY <1>1, <2>2, <2>3 DEF w
<1>3. CASE ~Closed(u, gs[i])
  <2> DEFINE k == Len(gs[i].rows)
  <2>1. ss[i] = gs[i].rows
    BY <1>3 DEF OpenRows
  <2>2. k \in Nat \ {0} /\ DOMAIN gs[i].rows = 1..k
    BY RowsOfGroup
  <2>3. k \in DOMAIN ss[i] /\ k = Len(ss[i])
    BY <2>1, <2>2
  <2>4. w = SelectTaskAt(u, d, RowStart(u, gs, i) + k - 1)
    BY <1>3 DEF LastRow
  <2> HIDE DEF k, w
  <2>5. CursorLine(w, d) = Start(u, d, i) + k
    BY <2>3, <2>4, RowLine
  <2> DEFINE a == Start(u, d, i)
             b == Start(u, d, i + 1)
             c == CursorLine(w, d)
  <2>6. b = a + 1 + k /\ a \in Nat /\ c = a + k
    BY <1>1, <2>3, <2>5
  <2> HIDE DEF a, b, c
  <2>7. c = b - 1
    BY <2>2, <2>6
  <2> QED BY <2>7 DEF b, c, w
<1> QED BY <1>2, <1>3

\* In a grouped list a movement goes to the next line.
LEMMA MoveGroupedLine ==
  ASSUME NEW u \in UIState, u.grouped, NEW d \in Forest, NEW down \in BOOLEAN,
         CursorLine(u, d) >= 0
  PROVE  CursorLine(MoveGrouped(u, d, down), d)
           = Clamp(CursorLine(u, d) + (IF down THEN 1 ELSE -1), 0, Len(Lines(u, d)) - 1)
<1> DEFINE gs == Groups(u, d)
           ss == OpenRows(u, gs)
           g == CurrentGroup(u, gs)
           local == At(gs[g].rows, u.sel)
           NextGroup == IF g < Len(gs) THEN FocusHeader(u, gs, g + 1, NoTask) ELSE u
           S(i) == Start(u, d, i)
           C(w) == CursorLine(w, d)
           R(k) == SelectTaskAt(u, d, RowStart(u, gs, g) + k - 1)
           N == Len(Lines(u, d))
           at == CursorLine(u, d)
           n == Len(gs)
           r == Len(ss[g])
           w == MoveGrouped(u, d, down)
<1>1. u.header \in BOOLEAN /\ at \in Int /\ NoTask \in Task \cup {NoTask}
  BY LineIsNumber DEF UIState
<1>2. n \in Nat /\ DOMAIN gs = 1..n /\ gs \in Seq(Group)
  BY GroupsFacts
<1>3. /\ N = S(n + 1) /\ S(1) = 0
      /\ \A i \in 1..(n + 1) : S(i) \in Nat /\ S(i) =< N
      /\ \A i \in DOMAIN gs : S(i + 1) = S(i) + 1 + Len(ss[i])
      /\ \A i \in DOMAIN gs : At(Lines(u, d), -gs[i].key) = S(i) + 1
  BY LinesFacts
<1>4. g \in 1..n
  <2>1. g \in DOMAIN gs \cup {0}
    BY CurrentGroupFacts
  <2>2. CASE u.header
    <3>1. g # 0
      BY <1>1, <2>2 DEF CursorLine
    <3> QED BY <1>2, <2>1, <3>1
  <2>3. CASE ~u.header
    BY <1>2, <2>3, RowHasCursor
  <2> QED BY <2>2, <2>3
<1>5. \A i \in 1..n : \A p \in Task \cup {NoTask} : C(FocusHeader(u, gs, i, p)) = S(i)
  BY <1>2, HeaderLine
<1>6. \A k \in DOMAIN ss[g] : C(R(k)) = S(g) + k
  BY <1>2, <1>4, RowLine
<1>7. \A i \in 1..n : C(LastRow(u, d, gs, i)) = S(i + 1) - 1
  BY <1>2, LastRowLine
<1>8. r \in Nat /\ DOMAIN ss[g] = 1..r /\ g \in DOMAIN gs
  BY <1>2, <1>4, BlockShape
<1>9. (Closed(u, gs[g]) => r = 0) /\ (~Closed(u, gs[g]) => ss[g] = gs[g].rows /\ r # 0)
  <2>1. CASE Closed(u, gs[g])
    <3>1. ss[g] = <<>>
      BY <1>8, <2>1 DEF OpenRows
    <3>2. r = 0
      BY <3>1
    <3> QED BY <2>1, <3>2
  <2>2. CASE ~Closed(u, gs[g])
    <3>1. ss[g] = gs[g].rows
      BY <1>8, <2>2 DEF OpenRows
    <3>2. Len(gs[g].rows) # 0
      BY <1>8, RowsOfGroup
    <3> QED BY <2>2, <3>1, <3>2
  <2> QED BY <2>1, <2>2
<1>10. u.header => at = S(g)
  <2> HAVE u.header
  <2>1. at = At(Lines(u, d), -gs[g].key) - 1
    BY <1>4 DEF CursorLine
  <2>2. At(Lines(u, d), -gs[g].key) = S(g) + 1 /\ S(g) \in Nat
    <3>1. g \in 1..(n + 1)
      BY <1>2, <1>4
    <3> QED BY <1>3, <1>8, <3>1
  <2> HIDE DEF at, S, g, gs
  <2> QED BY <2>1, <2>2
<1>11. ~u.header => ~Closed(u, gs[g]) /\ local \in 1..r /\ at = S(g) + local
  <2> HAVE ~u.header
  <2>1. ~Closed(u, gs[g]) /\ local \in DOMAIN ss[g] /\ at = S(g) + local
    BY RowHasCursor
  <2> QED BY <1>8, <2>1
<1>12. /\ S(g) \in Nat /\ S(g + 1) = S(g) + 1 + r /\ S(g + 1) =< N /\ N \in Nat
       /\ g = n => S(g + 1) = N
       /\ g = 1 => S(g) = 0
       /\ g # 1 => S(g) >= 1
       /\ g # n => S(g + 1) + 1 =< N
  <2>1. g \in 1..(n + 1) /\ g + 1 \in 1..(n + 1) /\ n + 1 \in 1..(n + 1)
    BY <1>2, <1>4
  <2>2. S(g) \in Nat /\ S(g + 1) = S(g) + 1 + r /\ S(g + 1) =< N /\ N \in Nat
    BY <1>3, <1>8, <2>1
  <2>3. (g = n => S(g + 1) = N) /\ (g = 1 => S(g) = 0)
    BY <1>3
  <2>4. g # 1 => S(g) >= 1
    <3> HAVE g # 1
    <3> DEFINE h == g - 1
    <3>1. h \in DOMAIN gs /\ h \in 1..(n + 1) /\ h + 1 = g
      BY <1>2, <1>4
    <3>2. S(h + 1) = S(h) + 1 + Len(ss[h]) /\ S(h) \in Nat /\ Len(ss[h]) \in Nat
      BY <1>3, <3>1, BlockShape
    <3> HIDE DEF S, ss, h
    <3> QED BY <3>1, <3>2
  <2>5. g # n => S(g + 1) + 1 =< N
    <3> HAVE g # n
    <3> DEFINE h == g + 1
    <3>1. h \in DOMAIN gs /\ h + 1 \in 1..(n + 1) /\ h \in 1..(n + 1)
      BY <1>2, <1>4
    <3>2. S(h + 1) = S(h) + 1 + Len(ss[h]) /\ S(h) \in Nat /\ Len(ss[h]) \in Nat /\ S(h + 1) =< N
      BY <1>3, <3>1, BlockShape
    <3> HIDE DEF S, ss, N
    <3>3. S(h) + 1 =< N
      BY <2>2, <3>2
    <3> QED BY <3>3 DEF h
  <2> QED BY <2>2, <2>3, <2>4, <2>5
<1>13. w =
        CASE gs = <<>> -> u
          [] gs # <<>> /\ g = 0 -> FocusHeader(u, gs, 1, NoTask)
          [] g # 0 /\ u.header /\ down ->
               IF Closed(u, gs[g]) THEN NextGroup
               ELSE SelectTaskAt(u, d, RowStart(u, gs, g))
          [] g # 0 /\ u.header /\ ~down ->
               IF g = 1 THEN u ELSE LastRow(u, d, gs, g - 1)
          [] g # 0 /\ ~u.header /\ Closed(u, gs[g]) -> FocusHeader(u, gs, g, u.sel)
          [] g # 0 /\ ~u.header /\ ~Closed(u, gs[g]) /\ down ->
               IF local < Len(gs[g].rows)
               THEN SelectTaskAt(u, d, RowStart(u, gs, g) + local) ELSE NextGroup
          [] g # 0 /\ ~u.header /\ ~Closed(u, gs[g]) /\ ~down ->
               IF local > 1 THEN SelectTaskAt(u, d, RowStart(u, gs, g) + local - 2)
               ELSE FocusHeader(u, gs, g, NoTask)
  BY DEF MoveGrouped
<1>14. RowStart(u, gs, g) \in Nat
  <2> HIDE DEF gs, g
  <2> QED BY <1>2, <1>8, RowStartFacts
<1> HIDE DEF gs, ss, g, local, at, S, C, N, n, r, w
<1>15. g # 0 /\ gs # <<>>
  BY <1>2, <1>4, <1>8
<1>16. C(NextGroup) = IF g = n THEN at ELSE S(g + 1)
  <2>1. CASE g = n
    <3>1. NextGroup = u
      BY <1>2, <2>1 DEF n
    <3> QED BY <2>1, <3>1 DEF C, at
  <2>2. CASE g # n
    <3>1. g < n /\ g + 1 \in 1..n
      BY <1>2, <1>4, <2>2
    <3>2. NextGroup = FocusHeader(u, gs, g + 1, NoTask)
      BY <3>1 DEF n
    <3>3. C(FocusHeader(u, gs, g + 1, NoTask)) = S(g + 1)
      BY <1>1, <1>5, <3>1
    <3> QED BY <2>2, <3>2, <3>3
  <2> QED BY <2>1, <2>2
<1> HIDE DEF NextGroup
<1>17. CASE u.header /\ down
  <2>1. CASE Closed(u, gs[g])
    <3>1. w = NextGroup
      BY <1>13, <1>15, <1>17, <2>1
    <3>2. C(w) = IF g = n THEN at ELSE at + 1
      BY <1>9, <1>10, <1>12, <1>16, <1>17, <2>1, <3>1
    <3>3. /\ g = n => at + 1 = N
          /\ g # n => at + 1 =< N - 1
      BY <1>9, <1>10, <1>12, <1>17, <2>1
    <3>4. C(w) = Clamp(at + 1, 0, N - 1)
      BY <1>1, <1>10, <1>12, <1>17, <3>2, <3>3 DEF Clamp
    <3> QED BY <1>17, <3>4 DEF C, w, at, N
  <2>2. CASE ~Closed(u, gs[g])
    <3>1. w = SelectTaskAt(u, d, RowStart(u, gs, g))
      BY <1>13, <1>15, <1>17, <2>2
    <3>2. RowStart(u, gs, g) = RowStart(u, gs, g) + 1 - 1
      BY <1>14
    <3>3. 1 \in DOMAIN ss[g]
      BY <1>8, <1>9, <2>2
    <3>4. C(R(1)) = S(g) + 1
      BY <1>6, <3>3
    <3>5. C(w) = at + 1
      BY <1>10, <1>17, <3>1, <3>2, <3>4
    <3>6. at + 1 =< N - 1
      BY <1>8, <1>9, <1>10, <1>12, <1>17, <2>2
    <3>7. C(w) = Clamp(at + 1, 0, N - 1)
      BY <1>1, <1>10, <1>12, <1>17, <3>5, <3>6 DEF Clamp
    <3> QED BY <1>17, <3>7 DEF C, w, at, N
  <2> QED BY <2>1, <2>2
<1>18. CASE u.header /\ ~down
  <2>1. w = IF g = 1 THEN u ELSE LastRow(u, d, gs, g - 1)
    BY <1>13, <1>15, <1>18
  <2>2. CASE g = 1
    <3>1. C(w) = 0 /\ at = 0
      BY <1>10, <1>12, <1>18, <2>1, <2>2 DEF C, at
    <3>2. C(w) = Clamp(at + -1, 0, N - 1)
      BY <3>1 DEF Clamp
    <3> QED BY <1>18, <3>2 DEF C, w, at, N
  <2>3. CASE g # 1
    <3>1. g - 1 \in 1..n /\ (g - 1) + 1 = g
      BY <1>2, <1>4, <2>3
    <3>2. C(w) = at - 1
      BY <1>7, <1>10, <1>18, <2>1, <2>3, <3>1
    <3>3. at >= 1 /\ at =< N
      BY <1>8, <1>10, <1>12, <1>18, <2>3
    <3>4. C(w) = Clamp(at + -1, 0, N - 1)
      BY <1>1, <1>12, <3>2, <3>3 DEF Clamp
    <3> QED BY <1>18, <3>4 DEF C, w, at, N
  <2> QED BY <2>2, <2>3
<1>19. CASE ~u.header /\ down
  <2>1. ~Closed(u, gs[g]) /\ local \in 1..r /\ at = S(g) + local /\ r = Len(gs[g].rows)
    BY <1>9, <1>11, <1>19 DEF r
  <2>2. w = IF local < r THEN SelectTaskAt(u, d, RowStart(u, gs, g) + local) ELSE NextGroup
    BY <1>13, <1>15, <1>19, <2>1
  <2>3. CASE local < r
    <3>1. local + 1 \in DOMAIN ss[g]
      BY <1>8, <2>1, <2>3
    <3>2. RowStart(u, gs, g) + local = RowStart(u, gs, g) + (local + 1) - 1
      BY <1>14, <2>1
    <3>3. C(R(local + 1)) = S(g) + (local + 1)
      BY <1>6, <3>1
    <3>4. C(w) = S(g) + (local + 1)
      BY <2>2, <2>3, <3>2, <3>3
    <3>5. C(w) = at + 1 /\ at + 1 =< N - 1 /\ at >= 0
      BY <1>8, <1>12, <2>1, <2>3, <3>4
    <3>6. C(w) = Clamp(at + 1, 0, N - 1)
      BY <1>1, <1>12, <3>5 DEF Clamp
    <3> QED BY <1>19, <3>6 DEF C, w, at, N
  <2>4. CASE ~(local < r)
    <3>1. local = r
      BY <1>8, <2>1, <2>4
    <3>2. C(w) = IF g = n THEN at ELSE at + 1
      BY <1>8, <1>12, <1>16, <2>1, <2>2, <2>4, <3>1
    <3>3. /\ g = n => at + 1 = N
          /\ g # n => at + 1 =< N - 1
          /\ at >= 0
      BY <1>8, <1>12, <2>1, <3>1
    <3>4. C(w) = Clamp(at + 1, 0, N - 1)
      BY <1>1, <1>12, <3>2, <3>3 DEF Clamp
    <3> QED BY <1>19, <3>4 DEF C, w, at, N
  <2> QED BY <2>3, <2>4
<1>20. CASE ~u.header /\ ~down
  <2>1. ~Closed(u, gs[g]) /\ local \in 1..r /\ at = S(g) + local
    BY <1>11, <1>20
  <2>2. w = IF local > 1 THEN SelectTaskAt(u, d, RowStart(u, gs, g) + local - 2)
            ELSE FocusHeader(u, gs, g, NoTask)
    BY <1>13, <1>15, <1>20, <2>1
  <2>3. C(w) = at - 1
    <3>1. CASE local > 1
      <4>1. local - 1 \in DOMAIN ss[g]
        BY <1>8, <2>1, <3>1
      <4>2. RowStart(u, gs, g) + local - 2 = RowStart(u, gs, g) + (local - 1) - 1
        BY <1>14, <2>1
      <4>3. C(R(local - 1)) = S(g) + (local - 1)
        BY <1>6, <4>1
      <4>4. C(w) = S(g) + (local - 1)
        BY <2>2, <3>1, <4>2, <4>3
      <4> QED BY <1>8, <1>12, <2>1, <4>4
    <3>2. CASE ~(local > 1)
      <4>1. local = 1
        BY <1>8, <2>1, <3>2
      <4>2. C(w) = S(g)
        BY <1>1, <1>4, <1>5, <2>2, <3>2
      <4> QED BY <1>12, <2>1, <4>1, <4>2
    <3> QED BY <3>1, <3>2
  <2>4. at >= 1 /\ at =< N
    BY <1>8, <1>12, <2>1
  <2>5. C(w) = Clamp(at + -1, 0, N - 1)
    BY <1>1, <1>12, <2>3, <2>4 DEF Clamp
  <2> QED BY <1>20, <2>5 DEF C, w, at, N
<1> QED BY <1>1, <1>17, <1>18, <1>19, <1>20

\* A list without groups has its rows as lines.
LEMMA PlainLines ==
  ASSUME NEW u, ~u.grouped, NEW d \in Forest
  PROVE  Lines(u, d) = VisibleTasks(u, d)
<1> DEFINE gs == Groups(u, d)
           ss == OpenRows(u, gs)
<1>1. gs \in Seq(Group)
  BY GroupsFacts
<1>2. ss \in Seq(Seq(Task)) /\ Shown(u, gs) = Flat(ss) /\ DOMAIN ss = DOMAIN gs
  <2> HIDE DEF gs
  <2> QED BY <1>1, OpenRowsFacts DEF OpenRows
<1>3. \A i \in DOMAIN gs : Block(u, gs[i]) = ss[i]
  <2> TAKE i \in DOMAIN gs
  <2>1. Block(u, gs[i]) = <<>> \o ss[i]
    BY DEF Block, Heading, OpenRows
  <2>2. ss[i] \in Seq(Task)
    BY <1>2
  <2> HIDE DEF ss, gs
  <2> QED BY <2>1, <2>2, ConcatEmptySeq
<1>4. [i \in DOMAIN gs |-> Block(u, gs[i])] = ss
  <2>1. ss = [i \in DOMAIN gs |-> ss[i]]
    BY DEF OpenRows
  <2> HIDE DEF ss, gs
  <2> QED BY <1>3, <2>1
<1>5. Lines(u, d) = Flat([i \in DOMAIN gs |-> Block(u, gs[i])])
  BY DEF Lines, Block, Heading
<1> QED BY <1>2, <1>4, <1>5 DEF VisibleTasks

\* A movement goes to the next line, over headers and rows alike, and stops at
\* the ends, for every snapshot, grouping and display (update.go, moveCursor and
\* moveGroupedCursor against taskVisualPosition).
THEOREM EachLineIsAStop == Spec => []MovesByOne
<1>1. ASSUME RowsInv PROVE MovesByOne
  <2> DEFINE at == CursorLine(ui, data)
             N == Len(Lines(ui, data))
  <2>1. data \in Forest /\ ui \in UIState /\ ui.cursor \in Int
    BY <1>1 DEF RowsInv, Follows, UIState
  <2>2. SUFFICES ASSUME at \in 0..(N - 1), NEW down \in BOOLEAN
                 PROVE  CursorLine(MoveCursor(ui, data, down), data)
                          = Clamp(at + (IF down THEN 1 ELSE -1), 0, N - 1)
    BY DEF MovesByOne
  <2>3. at >= 0
    BY <2>2
  <2>4. CASE ui.grouped
    <3>1. MoveCursor(ui, data, down) = MoveGrouped(ui, data, down)
      BY <2>4 DEF MoveCursor
    <3> QED BY <2>1, <2>3, <2>4, <3>1, MoveGroupedLine
  <2>5. CASE ~ui.grouped
    <3> DEFINE rows == VisibleTasks(ui, data)
               c == Clamp(ui.cursor + (IF down THEN 1 ELSE -1), 0, Len(rows) - 1)
               t == rows[c + 1]
               w == MoveCursor(ui, data, down)
    <3>1. N = Len(rows) /\ at = ui.cursor /\ rows \in Seq(Task)
      BY <2>1, <2>5, PlainLines, ShownFacts DEF CursorLine
    <3>2. rows # <<>>
      <4> SUFFICES ASSUME rows = <<>> PROVE FALSE
        OBVIOUS
      <4>1. Len(rows) = 0
        OBVIOUS
      <4> HIDE DEF rows, at, N
      <4> QED BY <2>2, <3>1, <4>1
    <3>3. w = [ui EXCEPT !.cursor = c, !.sel = t]
      BY <2>5, <3>2 DEF MoveCursor
    <3> HIDE DEF c, t
    <3>4. w.cursor = c /\ w.grouped = ui.grouped
      BY <2>1, <3>3 DEF UIState
    <3> HIDE DEF w
    <3>5. CursorLine(w, data) = c
      BY <2>5, <3>4 DEF CursorLine
    <3> QED BY <3>1, <3>5 DEF c, w
  <2> QED BY <2>4, <2>5
<1> QED BY <1>1, RowsInvHolds, PTL
=============================================================================
