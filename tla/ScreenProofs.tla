----------------------------- MODULE ScreenProofs -----------------------------
(***************************************************************************)
(* The screen under snapshots that arrive in any order (TaskScreen), for   *)
(* all tasks, lists, searches, filters and pages, and the event stream that*)
(* asks for its reloads (EventStream), for every capacity of the channel   *)
(* and every set of emitters.                                              *)
(*                                                                         *)
(* What is selected, prompted for or edited survives a message because     *)
(* every one of them ends in selectTaskAt and in the bookkeeping around    *)
(* Update: the lemmas say what those two leave of a selection, and each key*)
(* is reduced to them.                                                     *)
(*                                                                         *)
(* Of the stream, neither fact is inductive.  That no send waits needs the *)
(* mutex (who is inside Emit) and how much of the channel the emitter      *)
(* inside has taken out of it; that the view is fresh at rest needs to know*)
(* where the reload is on its way: a terminal event in the channel, one in *)
(* the hands of an emitter, or a reader about to reload.                   *)
(***************************************************************************)
EXTENDS TaskScreen, EventStream, FiniteSetTheorems, FunctionTheorems, TLAPS

-----------------------------------------------------------------------------
(* TaskScreen. *)

\* The row under the cursor is the selected task, in the rows of any selection and snapshot.
Highlights(u, d) ==
  LET shown == Rows(u, d)
  IN  IF shown = <<>> THEN u.sel = NoTask
      ELSE u.cursor \in DOMAIN shown /\ u.sel = shown[u.cursor]

\* What a prompt or an edit holds stands until it is answered.
Holds(u, a) ==
  /\ u.mode = "confirm" => u.pending = u.prompt /\ u.prompt # NoTask
  /\ u.mode = "edit_fields" => u.edit = a

\* A title is about the task selected, until that leaves the rows.
Titles(u, a) == u.mode = "edit_title" => a = NoTask \/ u.sel = a

\* The views remembered are the user's choices, and so is the filter of the list shown.
Remembers(u, w) ==
  /\ u.views = w
  /\ u.node # Top => u.filter = w[u.node]

\* A load or a reload is of a list, or of all tasks.
Call == {c \in UICall : c.kind \in {"load", "reload"} => c.arg \in List \cup {NoList}}

ScreenInv ==
  /\ ScreenTypeOK
  /\ calls \in [Slot -> Call]
  /\ Highlights(ui, data)
  /\ Holds(ui, about)
  /\ Titles(ui, about)
  /\ Remembers(ui, wanted)

-----------------------------------------------------------------------------
(* Rows in the order of the ids. *)

\* The ranks of n numbers are 0 to n - 1, so that the list is the set.
LEMMA OrderedSet ==
  ASSUME NEW S \in SUBSET Nat, IsFiniteSet(S)
  PROVE  /\ Cardinality(S) \in Nat
         /\ Ordered(S) \in Seq(S)
         /\ DOMAIN Ordered(S) = 1..Cardinality(S)
         /\ Len(Ordered(S)) = Cardinality(S)
         /\ Range(Ordered(S)) = S
<1> DEFINE n == Cardinality(S)
           below(x) == {y \in S : y < x}
           r == [x \in S |-> Rank(S, x) + 1]
<1>1. n \in Nat
  BY FS_CardinalityType
<1>2. ASSUME NEW x \in S PROVE Rank(S, x) \in Nat /\ Rank(S, x) < n
  <2>1. below(x) \in SUBSET S /\ below(x) # S
    OBVIOUS
  <2>2. IsFiniteSet(below(x)) /\ Cardinality(below(x)) =< n /\ Cardinality(below(x)) # n
    BY <2>1, FS_Subset
  <2>3. Cardinality(below(x)) \in Nat
    BY <2>2, FS_CardinalityType
  <2> QED BY <1>1, <2>2, <2>3 DEF Rank
<1>3. ASSUME NEW x \in S, NEW z \in S, x < z PROVE Rank(S, x) < Rank(S, z)
  <2>1. below(z) \in SUBSET S
    OBVIOUS
  <2>2. IsFiniteSet(below(z))
    BY <2>1, FS_Subset
  <2>3. below(x) \in SUBSET below(z)
    <3>1. \A y \in S : y < x => y < z
      BY <1>3
    <3> QED BY <3>1
  <2>4. x \in below(z) /\ x \notin below(x)
    BY <1>3
  <2>5. Cardinality(below(x)) =< Cardinality(below(z)) /\ Cardinality(below(x)) # Cardinality(below(z))
    BY <2>2, <2>3, <2>4, FS_Subset
  <2> QED BY <1>2, <2>5 DEF Rank
<1>4. r \in [S -> 1..n]
  BY <1>1, <1>2
<1>5. \A x, z \in S : r[x] = r[z] => x = z
  <2> SUFFICES ASSUME NEW x \in S, NEW z \in S, x # z PROVE r[x] # r[z]
    OBVIOUS
  <2>1. x < z \/ z < x
    OBVIOUS
  <2> QED BY <1>2, <1>3, <2>1
<1>6. r \in Injection(S, 1..n)
  BY <1>4, <1>5 DEF Injection, IsInjective
<1>7. IsFiniteSet(1..n) /\ Cardinality(1..n) = n
  BY <1>1, FS_Interval
<1>8. r \in Surjection(S, 1..n)
  BY <1>6, <1>7, FS_Injection
<1>9. ASSUME NEW i \in 1..n PROVE \E x \in S : Rank(S, x) = i - 1
  <2>1. PICK x \in S : r[x] = i
    BY <1>8 DEF Surjection
  <2> QED BY <1>2, <2>1
<1> DEFINE s == Ordered(S)
<1>10. s = [i \in 1..n |-> CHOOSE x \in S : Rank(S, x) = i - 1]
  BY DEF Ordered
<1> HIDE DEF s
<1>11. \A i \in 1..n : s[i] \in S /\ Rank(S, s[i]) = i - 1
  BY <1>9, <1>10
<1>12. s \in [1..n -> S]
  BY <1>10, <1>11
<1>13. s \in Seq(S) /\ DOMAIN s = 1..n /\ Len(s) = n
  BY <1>1, <1>12
<1>14. ASSUME NEW x \in S PROVE x \in Range(s)
  <2>1. r[x] \in 1..n /\ Rank(S, s[r[x]]) = r[x] - 1 /\ s[r[x]] \in S
    BY <1>4, <1>11
  <2>2. r[s[r[x]]] = r[x]
    BY <1>2, <2>1
  <2>3. s[r[x]] = x
    BY <1>5, <2>1, <2>2
  <2> QED BY <1>13, <2>1, <2>3 DEF Range
<1>15. Range(s) \subseteq S
  BY <1>12 DEF Range
<1> QED BY <1>1, <1>13, <1>14, <1>15 DEF s

LEMMA WiderSeq ==
  ASSUME NEW S, NEW T, S \subseteq T, NEW s \in Seq(S)
  PROVE  s \in Seq(T)
<1>1. s \in [1..Len(s) -> S] /\ Len(s) \in Nat
  OBVIOUS
<1>2. s \in [1..Len(s) -> T]
  BY <1>1
<1> QED BY <1>1, <1>2

LEMMA RowsAreTasks ==
  ASSUME NEW u, NEW d
  PROVE  /\ Rows(u, d) \in Seq(Task)
         /\ DOMAIN Rows(u, d) = 1..Len(Rows(u, d))
         /\ Len(Rows(u, d)) \in Nat
         /\ Rows(u, d) # <<>> => Len(Rows(u, d)) > 0
         /\ NoTask \notin Task
<1> DEFINE S == {t \in Task :
                  /\ IF u.node = Top THEN d.place[t] \cap d.lists # {} ELSE u.node \in d.place[t]
                  /\ u.search = "word" => t \in Found
                  /\ u.filter => t \in Kept}
<1>1. S \in SUBSET Task /\ S \in SUBSET Nat /\ NoTask \notin Task /\ IsFiniteSet(Task)
  BY ScreenAssumption
<1>2. IsFiniteSet(S)
  BY <1>1, FS_Subset
<1>3. Rows(u, d) = Ordered(S)
  BY DEF Rows
<1> HIDE DEF S
<1>4. Rows(u, d) \in Seq(S)
  BY <1>1, <1>2, <1>3, OrderedSet
<1>5. Rows(u, d) \in Seq(Task)
  BY <1>1, <1>4, WiderSeq
<1> QED BY <1>1, <1>5

\* The tree always has a row, and its rows are the provider and the lists.
LEMMA TreeHasRows ==
  ASSUME NEW d \in Snapshot
  PROVE  /\ TreeNodes(d) \in Seq(List \cup {Top})
         /\ DOMAIN TreeNodes(d) = 1..Len(TreeNodes(d))
         /\ Len(TreeNodes(d)) \in Nat \ {0}
         /\ d.lists # {} => 2 \in DOMAIN TreeNodes(d)
<1> DEFINE S == {Top} \cup d.lists
<1>0. d.lists \in SUBSET List /\ IsFiniteSet(List) /\ List \subseteq Nat \ {0}
  <2>1. d.lists \in SUBSET List
    BY DEF Snapshot
  <2> QED BY <2>1, ScreenAssumption DEF Top
<1>1. /\ d.lists \in SUBSET List /\ IsFiniteSet(List) /\ Top \notin List
      /\ S \in SUBSET Nat /\ S \in SUBSET (List \cup {Top})
  <2>1. Top \notin List /\ Top \in Nat /\ List \subseteq Nat
    BY <1>0 DEF Top
  <2>2. d.lists \subseteq List
    BY <1>0
  <2>3. S \subseteq List \cup {Top}
    BY <2>2
  <2>4. S \subseteq Nat
    BY <2>1, <2>3
  <2> QED BY <1>0, <2>1, <2>3, <2>4
<1>2. IsFiniteSet(d.lists)
  BY <1>1, FS_Subset
<1>3. S = d.lists \cup {Top} /\ Top \notin d.lists
  BY <1>1
<1>4. IsFiniteSet(S) /\ Cardinality(S) = Cardinality(d.lists) + 1
  BY <1>2, <1>3, FS_AddElement
<1>5. /\ Cardinality(d.lists) \in Nat
      /\ d.lists # {} => Cardinality(d.lists) # 0
  BY <1>2, FS_CardinalityType, FS_EmptySet
<1>6. TreeNodes(d) = Ordered(S)
  BY DEF TreeNodes
<1> HIDE DEF S
<1>7. /\ TreeNodes(d) \in Seq(S)
      /\ DOMAIN TreeNodes(d) = 1..Cardinality(S) /\ Len(TreeNodes(d)) = Cardinality(S)
  BY <1>1, <1>4, <1>6, OrderedSet
<1>8. TreeNodes(d) \in Seq(List \cup {Top})
  BY <1>1, <1>7, WiderSeq
<1> QED BY <1>4, <1>5, <1>7, <1>8

-----------------------------------------------------------------------------
(* The helpers of Update leave a selection that is highlighted. *)

\* What a prompt, an edit or a view is about.
SameInput(u, v) ==
  v.mode = u.mode /\ v.edit = u.edit /\ v.pending = u.pending /\ v.prompt = u.prompt
SameView(u, v) == v.node = u.node /\ v.filter = u.filter /\ v.views = u.views

LEMMA SameRows ==
  ASSUME NEW u, NEW v, NEW d, v.node = u.node, v.filter = u.filter, v.search = u.search
  PROVE  Rows(v, d) = Rows(u, d)
  BY DEF Rows

LEMMA TaskSelected ==
  ASSUME NEW u \in UIState, NEW d, NEW n \in Int
  PROVE  /\ SelectTaskAt(u, d, n) \in UIState
         /\ SameInput(u, SelectTaskAt(u, d, n))
         /\ SameView(u, SelectTaskAt(u, d, n))
         /\ Highlights(SelectTaskAt(u, d, n), d)
         /\ n \in DOMAIN Rows(u, d) => SelectTaskAt(u, d, n).sel = Rows(u, d)[n]
         /\ Rows(SelectTaskAt(u, d, n), d) = Rows(u, d)
<1> DEFINE rows == Rows(u, d)
           pos == Clamp(n, 1, Len(rows))
           v == SelectTaskAt(u, d, n)
<1>1. /\ rows \in Seq(Task) /\ DOMAIN rows = 1..Len(rows) /\ Len(rows) \in Nat
      /\ rows # <<>> => Len(rows) > 0
  BY RowsAreTasks
<1>2. v = IF rows = <<>> THEN [u EXCEPT !.cursor = 1, !.sel = NoTask]
                         ELSE [u EXCEPT !.cursor = pos, !.sel = rows[pos]]
  BY DEF SelectTaskAt
<1> HIDE DEF rows
<1>3. rows # <<>> => pos \in DOMAIN rows /\ pos \in Nat \ {0} /\ rows[pos] \in Task
  BY <1>1 DEF Clamp
<1>4. n \in DOMAIN rows => rows # <<>> /\ pos = n
  <2> SUFFICES ASSUME n \in DOMAIN rows PROVE rows # <<>> /\ pos = n
    OBVIOUS
  <2>1. n >= 1 /\ n =< Len(rows) /\ rows # <<>>
    BY <1>1
  <2>2. ~(n < 1) /\ ~(n > Len(rows))
    BY <1>1, <2>1
  <2> QED BY <2>1, <2>2 DEF Clamp
<1> HIDE DEF pos, v
<1>5. /\ v \in UIState /\ SameInput(u, v) /\ SameView(u, v) /\ v.search = u.search
      /\ rows = <<>> => v.sel = NoTask
      /\ rows # <<>> => v.cursor = pos /\ v.sel = rows[pos]
  <2>1. CASE rows = <<>>
    <3>1. v = [u EXCEPT !.cursor = 1, !.sel = NoTask]
      BY <1>2, <2>1
    <3>2. v \in UIState
      <4>1. \A k \in Nat \ {0}, t \in Task \cup {NoTask} :
              [u EXCEPT !.cursor = k, !.sel = t] \in UIState
        BY DEF UIState
      <4>2. 1 \in Nat \ {0} /\ NoTask \in Task \cup {NoTask}
        OBVIOUS
      <4> QED BY <3>1, <4>1, <4>2
    <3>3. SameInput(u, v) /\ SameView(u, v) /\ v.search = u.search /\ v.sel = NoTask
      BY <3>1 DEF UIState, SameInput, SameView
    <3> QED BY <2>1, <3>2, <3>3
  <2>2. CASE rows # <<>>
    <3>1. v = [u EXCEPT !.cursor = pos, !.sel = rows[pos]]
      BY <1>2, <2>2
    <3>2. v \in UIState
      BY <1>3, <2>2, <3>1 DEF UIState
    <3>3. /\ SameInput(u, v) /\ SameView(u, v) /\ v.search = u.search
          /\ v.cursor = pos /\ v.sel = rows[pos]
      BY <3>1 DEF UIState, SameInput, SameView
    <3> QED BY <2>2, <3>2, <3>3
  <2> QED BY <2>1, <2>2
<1>6. Rows(v, d) = rows
  BY <1>5, SameRows DEF rows, SameView
<1>7. Highlights(v, d)
  BY <1>3, <1>5, <1>6 DEF Highlights
<1> QED BY <1>3, <1>4, <1>5, <1>6, <1>7 DEF rows, v

\* The chosen task is a task, or none.
LEMMA ChosenTask ==
  ASSUME NEW u \in UIState, NEW d
  PROVE  /\ SelectedTask(u, d) \in Task \cup {NoTask}
         /\ Highlights(u, d) => SelectedTask(u, d) = u.sel
<1>1. Rows(u, d) \in Seq(Task)
  BY RowsAreTasks
<1>2. u.sel \in Task \cup {NoTask}
  BY DEF UIState
<1>3. \A i \in DOMAIN Rows(u, d) : Rows(u, d)[i] \in Task
  BY <1>1
<1>4. SelectedTask(u, d) \in Task \cup {NoTask}
  BY <1>2, <1>3 DEF SelectedTask
<1>5. ASSUME Highlights(u, d) PROVE SelectedTask(u, d) = u.sel
  <2> DEFINE rows == Rows(u, d)
  <2>1. CASE rows = <<>>
    <3>1. DOMAIN rows = {} /\ Range(rows) = {} /\ u.sel = NoTask
      BY <1>5, <2>1 DEF Highlights, Range
    <3> QED BY <3>1 DEF SelectedTask
  <2>2. CASE rows # <<>>
    <3>1. u.cursor \in DOMAIN rows /\ u.sel = rows[u.cursor]
      BY <1>5, <2>2 DEF Highlights
    <3>2. u.sel \in Range(rows)
      BY <3>1 DEF Range
    <3> QED BY <3>2 DEF SelectedTask
  <2> QED BY <2>1, <2>2
<1> QED BY <1>4, <1>5

\* Around a message the views follow the user, and nothing of a prompt changes.
Noted(w, old, new) ==
  IF new.node = old.node /\ new.node # Top THEN [w EXCEPT ![new.node] = new.filter] ELSE w

LEMMA Settled ==
  ASSUME NEW old \in UIState, NEW new \in UIState, NEW d, Highlights(new, d),
         NEW w \in [List -> BOOLEAN], Remembers(old, w), new.views = old.views
  PROVE  /\ Settle(old, new, d) \in UIState
         /\ Highlights(Settle(old, new, d), d)
         /\ Remembers(Settle(old, new, d), Noted(w, old, new))
         /\ SameInput(new, Settle(old, new, d))
         /\ Settle(old, new, d).node = new.node
         /\ new.node = old.node => /\ Settle(old, new, d).sel = new.sel
                                   /\ Rows(Settle(old, new, d), d) = Rows(new, d)
<1> DEFINE left == IF old.node # Top THEN [new EXCEPT !.views[old.node] = old.filter] ELSE new
           entered == IF new.node # Top /\ new.node # old.node
                      THEN SelectTaskAt([left EXCEPT !.filter = left.views[new.node]], d, 1)
                      ELSE left
           u == IF new.node # Top THEN [entered EXCEPT !.views[new.node] = entered.filter]
                ELSE entered
<1>1. u = Settle(old, new, d)
  BY DEF Settle
<1>2. old.views = w /\ (old.node # Top => old.filter = w[old.node])
  BY DEF Remembers
<1>3. left = new
  <2>1. CASE old.node # Top
    <3>1. old.node \in List
      BY <2>1 DEF UIState
    <3>2. [new.views EXCEPT ![old.node] = old.filter] = new.views
      BY <1>2, <2>1, <3>1
    <3>3. left = [new EXCEPT !.views = [new.views EXCEPT ![old.node] = old.filter]]
      BY <2>1 DEF UIState
    <3>4. left = [new EXCEPT !.views = new.views]
      BY <3>2, <3>3
    <3> QED BY <3>4 DEF UIState
  <2> QED BY <2>1
<1> HIDE DEF left
<1>4. CASE new.node = Top
  <2>1. u = new
    BY <1>3, <1>4
  <2>2. Noted(w, old, new) = w
    BY <1>4 DEF Noted
  <2> QED BY <1>1, <1>2, <1>4, <2>1, <2>2 DEF Remembers, SameInput
<1>5. CASE new.node # Top /\ new.node = old.node
  <2>1. new.node \in List /\ new.filter \in BOOLEAN /\ new.views \in [List -> BOOLEAN]
    BY <1>5 DEF UIState
  <2> DEFINE f == [new.views EXCEPT ![new.node] = new.filter]
  <2>2. f \in [List -> BOOLEAN] /\ f[new.node] = new.filter /\ f = Noted(w, old, new)
    BY <1>2, <1>5, <2>1 DEF Noted
  <2>3. u = [new EXCEPT !.views = f]
    BY <1>3, <1>5 DEF UIState
  <2> HIDE DEF f, u
  <2>4. /\ u \in UIState /\ u.views = f /\ u.node = new.node /\ u.filter = new.filter
        /\ u.search = new.search /\ SameInput(new, u) /\ u.sel = new.sel /\ u.cursor = new.cursor
    BY <2>2, <2>3 DEF UIState, SameInput
  <2>5. Rows(u, d) = Rows(new, d)
    BY <2>4, SameRows
  <2>6. Highlights(u, d)
    BY <2>4, <2>5 DEF Highlights
  <2>7. Remembers(u, Noted(w, old, new))
    BY <2>2, <2>4 DEF Remembers
  <2> QED BY <1>1, <2>4, <2>5, <2>6, <2>7
<1>6. CASE new.node # Top /\ new.node # old.node
  <2>1. new.node \in List /\ new.views \in [List -> BOOLEAN] /\ w[new.node] \in BOOLEAN
    BY <1>6 DEF UIState
  <2> DEFINE v == [new EXCEPT !.filter = w[new.node]]
  <2>2. v \in UIState /\ v.views = w /\ v.filter = w[new.node] /\ v.node = new.node
        /\ SameInput(new, v)
    BY <1>2, <2>1 DEF UIState, SameInput
  <2>3. entered = SelectTaskAt(v, d, 1)
    BY <1>2, <1>3, <1>6
  <2> HIDE DEF v
  <2>4. entered \in UIState /\ SameInput(v, entered) /\ SameView(v, entered) /\ Highlights(entered, d)
    BY <2>2, <2>3, TaskSelected
  <2> HIDE DEF entered
  <2>5. /\ entered.views = w /\ entered.filter = w[new.node] /\ entered.node = new.node
        /\ SameInput(new, entered)
    BY <2>2, <2>4 DEF SameInput, SameView
  <2>6. [entered.views EXCEPT ![new.node] = entered.filter] = entered.views
    BY <2>1, <2>5
  <2>7. u = [entered EXCEPT !.views = [entered.views EXCEPT ![new.node] = entered.filter]]
    BY <1>6, <2>4 DEF UIState
  <2>8. [entered EXCEPT !.views = entered.views] = entered
    BY <2>4 DEF UIState
  <2>9. u = entered
    BY <2>6, <2>7, <2>8
  <2> HIDE DEF u
  <2>10. Noted(w, old, new) = w
    BY <1>6 DEF Noted
  <2> QED BY <1>1, <1>6, <2>4, <2>5, <2>9, <2>10 DEF Remembers
<1> QED BY <1>4, <1>5, <1>6

\* A snapshot keeps what a prompt or an edit holds, and the detail pane its task or closes it.
LEMMA Reconciled ==
  ASSUME NEW u \in UIState, NEW d \in Snapshot
  PROVE  LET v == ReconcileSelection(u, d)
         IN  /\ v \in UIState
             /\ Highlights(v, d)
             /\ v.views = u.views /\ v.filter = u.filter
             /\ v.edit = u.edit /\ v.pending = u.pending /\ v.prompt = u.prompt
             /\ v.mode = u.mode \/ v.mode = "browse"
             /\ v.mode = "detail" => v.sel = u.sel
             /\ u.sel \in Range(Rows(v, d)) => v.sel = u.sel
<1> DEFINE nodes == TreeNodes(d)
           pos == IF u.node \in Range(nodes) THEN CHOOSE i \in DOMAIN nodes : nodes[i] = u.node
                                            ELSE Clamp(u.tree, 1, Len(nodes))
           v == [u EXCEPT !.tree = pos, !.node = nodes[pos]]
           rows == Rows(v, d)
           m == IF u.mode = "detail" THEN "browse" ELSE u.mode
           i == CHOOSE j \in DOMAIN rows : rows[j] = u.sel
           c == [v EXCEPT !.mode = m]
           r == IF u.sel \in Range(rows) THEN SelectTaskAt(v, d, i)
                                         ELSE SelectTaskAt(c, d, v.cursor)
<1>1. pos \in Nat \ {0} /\ nodes[pos] \in List \cup {Top}
  <2>1. /\ nodes \in Seq(List \cup {Top}) /\ DOMAIN nodes = 1..Len(nodes)
        /\ Len(nodes) \in Nat \ {0}
    BY TreeHasRows
  <2>2. u.tree \in Nat
    BY DEF UIState
  <2> HIDE DEF nodes
  <2>3. CASE u.node \in Range(nodes)
    <3>1. \E j \in DOMAIN nodes : nodes[j] = u.node
      BY <2>3 DEF Range
    <3>2. pos \in DOMAIN nodes
      BY <2>3, <3>1
    <3> HIDE DEF pos
    <3> QED BY <2>1, <3>2
  <2>4. CASE u.node \notin Range(nodes)
    <3>1. pos = Clamp(u.tree, 1, Len(nodes))
      BY <2>4
    <3> HIDE DEF pos
    <3> DEFINE last == Len(nodes)
    <3>2. pos = Clamp(u.tree, 1, last) /\ last \in Nat \ {0}
      BY <2>1, <3>1
    <3> HIDE DEF last
    <3>3. pos \in 1..last
      BY <2>2, <3>2 DEF Clamp
    <3> USE DEF last
    <3> QED BY <2>1, <3>3
  <2> QED BY <2>3, <2>4
<1>3. /\ v \in UIState /\ v.views = u.views /\ v.filter = u.filter /\ SameInput(u, v)
      /\ v.sel = u.sel /\ v.cursor \in Int
  <2> HIDE DEF pos, nodes
  <2>1. v \in UIState
    BY <1>1 DEF UIState
  <2>2. /\ v.views = u.views /\ v.filter = u.filter /\ SameInput(u, v)
        /\ v.sel = u.sel /\ v.cursor = u.cursor
    BY DEF UIState, SameInput
  <2>3. u.cursor \in Int
    BY DEF UIState
  <2> QED BY <2>1, <2>2, <2>3
<1>2. ReconcileSelection(u, d) = r
  BY <1>3 DEF ReconcileSelection, SameInput
<1> HIDE DEF pos, nodes, v
<1>4. CASE u.sel \in Range(rows)
  <2>1. \E j \in DOMAIN rows : rows[j] = u.sel
    BY <1>4 DEF Range
  <2>2. i \in DOMAIN rows /\ rows[i] = u.sel
    BY <2>1
  <2>3. i \in Int
    BY <2>2, RowsAreTasks
  <2> HIDE DEF i
  <2>4. /\ SelectTaskAt(v, d, i) \in UIState /\ Highlights(SelectTaskAt(v, d, i), d)
        /\ SameInput(v, SelectTaskAt(v, d, i)) /\ SameView(v, SelectTaskAt(v, d, i))
        /\ SelectTaskAt(v, d, i).sel = u.sel
    BY <1>3, <2>2, <2>3, TaskSelected
  <2>5. r = SelectTaskAt(v, d, i)
    BY <1>4
  <2> QED BY <1>2, <1>3, <2>4, <2>5 DEF SameInput, SameView
<1>5. CASE u.sel \notin Range(rows)
  <2>1. m \in Mode /\ m # "detail" /\ (m = u.mode \/ m = "browse")
    BY DEF UIState, Mode
  <2> HIDE DEF m
  <2>2. /\ c \in UIState /\ c.views = v.views /\ c.filter = v.filter /\ c.mode = m
        /\ c.edit = v.edit /\ c.pending = v.pending /\ c.prompt = v.prompt
        /\ c.node = v.node /\ c.search = v.search
    BY <1>3, <2>1 DEF UIState
  <2> HIDE DEF c
  <2>3. /\ SelectTaskAt(c, d, v.cursor) \in UIState /\ Highlights(SelectTaskAt(c, d, v.cursor), d)
        /\ SameInput(c, SelectTaskAt(c, d, v.cursor)) /\ SameView(c, SelectTaskAt(c, d, v.cursor))
        /\ Rows(SelectTaskAt(c, d, v.cursor), d) = Rows(c, d)
    BY <1>3, <2>2, TaskSelected
  <2>4. r = SelectTaskAt(c, d, v.cursor)
    BY <1>5
  <2>5. Rows(c, d) = rows
    BY <2>2, SameRows
  <2>6. u.sel \notin Range(Rows(r, d))
    BY <1>5, <2>3, <2>4, <2>5
  <2>7. /\ r \in UIState /\ Highlights(r, d)
        /\ r.views = u.views /\ r.filter = u.filter
        /\ r.edit = u.edit /\ r.pending = u.pending /\ r.prompt = u.prompt
        /\ (r.mode = u.mode \/ r.mode = "browse") /\ r.mode # "detail"
    BY <1>3, <2>1, <2>2, <2>3, <2>4 DEF SameInput, SameView
  <2> HIDE DEF r, rows
  <2> QED BY <1>2, <2>6, <2>7
<1> QED BY <1>4, <1>5

-----------------------------------------------------------------------------
(* Keys. *)

\* Whatever a key makes of the selection, Update settles it.
LEMMA KeySettles ==
  ASSUME ScreenInv, KeyFrame, NEW u \in UIState, Shows(u), Highlights(u, data),
         u.views = ui.views, wanted' = Noted(wanted, ui, u),
         Holds(u, about'), about' \in Task \cup {NoTask}, calls' \in [Slot -> Call],
         u.mode = "edit_title" => u.node = ui.node /\ u.sel = about'
  PROVE  ScreenInv' /\ ui'.mode = u.mode
<1>1. ui \in UIState /\ wanted \in [List -> BOOLEAN] /\ Remembers(ui, wanted)
  BY DEF ScreenInv, ScreenTypeOK
<1>2. ui' = Settle(ui, u, data)
  BY DEF Shows
<1>3. /\ ui' \in UIState /\ Highlights(ui', data) /\ Remembers(ui', wanted')
      /\ SameInput(u, ui')
      /\ u.node = ui.node => ui'.sel = u.sel
  BY <1>1, <1>2, Settled
<1>4. Holds(ui', about') /\ Titles(ui', about')
  BY <1>3 DEF Holds, Titles, SameInput
<1>5. wanted' \in [List -> BOOLEAN]
  <2>1. u.node # Top => u.node \in List
    BY DEF UIState
  <2>2. u.filter \in BOOLEAN
    BY DEF UIState
  <2> QED BY <1>1, <2>1, <2>2 DEF Noted
<1>6. data' = data
  BY DEF KeyFrame
<1>7. /\ Highlights(ui', data') /\ Holds(ui', about') /\ Titles(ui', about')
      /\ Remembers(ui', wanted')
  BY <1>3, <1>4, <1>6
<1>8. ScreenTypeOK'
  <2>1. calls' \in [Slot -> UICall]
    BY DEF Call
  <2> QED BY <1>3, <1>5, <2>1 DEF ScreenInv, ScreenTypeOK, KeyFrame
<1>9. /\ Highlights(ui, data)' /\ Holds(ui, about)' /\ Titles(ui, about)'
      /\ Remembers(ui, wanted)'
  BY <1>7 DEF Highlights, Holds, Titles, Remembers
<1> QED BY <1>3, <1>8, <1>9 DEF ScreenInv, SameInput

\* Where the filter stays, the user's choices stay.
LEMMA NothingNoted ==
  ASSUME ScreenInv, NEW u, u.node # ui.node \/ u.filter = ui.filter
  PROVE  Noted(wanted, ui, u) = wanted
<1>1. /\ wanted \in [List -> BOOLEAN] /\ (ui.node # Top => ui.filter = wanted[ui.node])
      /\ ui.node # Top => ui.node \in List
  BY DEF ScreenInv, ScreenTypeOK, Remembers, UIState
<1>2. CASE u.node = ui.node /\ u.node # Top
  <2>1. u.filter = wanted[u.node] /\ u.node \in DOMAIN wanted
    BY <1>1, <1>2
  <2>2. [wanted EXCEPT ![u.node] = u.filter] = wanted
    BY <1>1, <2>1
  <2> QED BY <1>2, <2>2 DEF Noted
<1> QED BY <1>2 DEF Noted

\* A command takes a free slot.
LEMMA EmitTakesSlot ==
  ASSUME ScreenInv, NEW kind \in Kind, NEW arg \in Task \cup List \cup {0}, Emit(kind, arg),
         kind \in {"load", "reload"} => arg \in List \cup {NoList}
  PROVE  /\ calls' \in [Slot -> Call]
         /\ \A s \in Slot : \A k : Emitted(s, k) => k = kind /\ calls'[s].arg = arg
<1>1. calls \in [Slot -> Call]
  BY DEF ScreenInv
<1> DEFINE c == [Done EXCEPT !.kind = kind, !.arg = arg, !.step = "begin"]
<1>2. PICK s \in Slot : calls[s].step = "done" /\ calls' = [calls EXCEPT ![s] = c]
  BY DEF Emit
<1>3. Done \in UICall
  <2>1. NoSnapshot \in Snapshot
    BY DEF NoSnapshot, Snapshot
  <2> QED BY <2>1 DEF Done, UICall, Kind
<1>4. c \in Call /\ c.kind = kind /\ c.arg = arg
  BY <1>3 DEF UICall, Kind, Call
<1> HIDE DEF c
<1>5. calls' \in [Slot -> Call]
  BY <1>1, <1>2, <1>4
<1>6. ASSUME NEW r \in Slot, NEW k, Emitted(r, k) PROVE k = kind /\ calls'[r].arg = arg
  <2>1. calls'[r] # calls[r] /\ calls'[r].kind = k
    BY <1>6 DEF Emitted
  <2>2. r = s /\ calls'[r] = c
    BY <1>1, <1>2, <2>1
  <2> QED BY <1>4, <2>1, <2>2
<1> QED BY <1>5, <1>6

LEMMA SilentEmitsNothing ==
  ASSUME ScreenInv, Silent
  PROVE  calls' \in [Slot -> Call] /\ \A s \in Slot : \A k : ~Emitted(s, k)
  BY DEF ScreenInv, ScreenTypeOK, Silent, Emitted

LEMMA LoadEmitsLoad ==
  ASSUME ScreenInv, NEW l \in List \cup {Top}, LoadList(l)
  PROVE  calls' \in [Slot -> Call] /\ \A s \in Slot : \A k : Emitted(s, k) => k = "load"
<1>1. CASE l = Top
  BY <1>1, SilentEmitsNothing DEF LoadList
<1>2. CASE l # Top
  <2>1. Emit("load", l)
    BY <1>2 DEF LoadList
  <2>2. "load" \in Kind /\ l \in Task \cup List \cup {0} /\ l \in List \cup {NoList}
    BY <1>2 DEF Kind
  <2>3. /\ calls' \in [Slot -> Call]
        /\ \A s \in Slot : \A k : Emitted(s, k) => k = "load" /\ calls'[s].arg = l
    BY <2>1, <2>2, EmitTakesSlot
  <2> QED BY <2>3
<1> QED BY <1>1, <1>2

EditsRight(s) ==
  ui.mode \in {"edit_title", "edit_fields"} /\ ui'.mode # ui.mode
    => calls'[s].arg = about \/ (ui.mode = "edit_title" /\ about = NoTask)

\* What a key may do: settle a selection, send what it names, and leave the detail pane.
KeyPromise ==
  /\ ScreenInv'
  /\ ui.mode = "detail" => ui'.mode # "detail"
  /\ \A s \in Slot : Emitted(s, "delete") => calls'[s].arg = ui.prompt /\ ui.prompt # NoTask
  /\ \A s \in Slot : Emitted(s, "update") => EditsRight(s)

\* Keys that send nothing and leave the selection, or move it by SelectTaskAt.
LEMMA QuietKey ==
  ASSUME ScreenInv, KeyFrame, NEW u \in UIState, u.views = ui.views,
         wanted' = Noted(wanted, ui, u), Holds(u, about'), about' \in Task \cup {NoTask},
         ui.mode = "detail" => u.mode # "detail",
         u.mode = "edit_title" => u.node = ui.node /\ u.sel = about' /\ Shows(u) /\ Highlights(u, data),
         calls' \in [Slot -> Call], \A s \in Slot : \A k : Emitted(s, k) => k = "load",
         \/ Shows(u) /\ Highlights(u, data)
         \/ \E n \in Int : Shows(SelectTaskAt(u, data, n))
  PROVE  KeyPromise
<1>1. CASE Shows(u) /\ Highlights(u, data)
  BY <1>1, KeySettles DEF KeyPromise
<1>2. CASE u.mode # "edit_title" /\ \E n \in Int : Shows(SelectTaskAt(u, data, n))
  <2>1. PICK n \in Int : Shows(SelectTaskAt(u, data, n))
    BY <1>2
  <2> DEFINE v == SelectTaskAt(u, data, n)
  <2>2. v \in UIState /\ Highlights(v, data) /\ SameInput(u, v) /\ SameView(u, v)
    BY TaskSelected
  <2> HIDE DEF v
  <2>3. Noted(wanted, ui, v) = Noted(wanted, ui, u)
    BY <2>2 DEF Noted, SameView
  <2>4. Holds(v, about') /\ v.views = ui.views /\ v.mode = u.mode
    BY <2>2 DEF Holds, SameInput, SameView
  <2>5. Shows(v)
    BY <2>1 DEF v
  <2>6. ScreenInv' /\ ui'.mode = v.mode
    BY <2>2, <2>3, <2>4, <2>5, KeySettles
  <2> QED BY <2>4, <2>6 DEF KeyPromise
<1> QED BY <1>1, <1>2

LEMMA SameHighlights ==
  ASSUME NEW u, NEW v, NEW d, Highlights(u, d), v.node = u.node, v.filter = u.filter,
         v.search = u.search, v.sel = u.sel, v.cursor = u.cursor
  PROVE  Highlights(v, d)
<1>1. Rows(v, d) = Rows(u, d)
  BY SameRows
<1> QED BY <1>1 DEF Highlights

\* Every key keeps the promise.
LEMMA KeySteps ==
  ASSUME ScreenInv, Key
  PROVE  KeyPromise
<1> DEFINE NoEdit == about' \in Task \cup {NoTask}
           Idle == calls' \in [Slot -> Call] /\ \A s \in Slot : \A k : Emitted(s, k) => k = "load"
<1>1. /\ ui \in UIState /\ Highlights(ui, data) /\ Holds(ui, about)
      /\ about \in Task \cup {NoTask} /\ wanted \in [List -> BOOLEAN] /\ data \in Snapshot
      /\ NoTask \notin Task
  BY RowsAreTasks DEF ScreenInv, ScreenTypeOK
<1>2. Silent => Idle
  BY SilentEmitsNothing
<1>3. Chosen \in Task \cup {NoTask} /\ Chosen = ui.sel
  BY <1>1, ChosenTask DEF Chosen
<1> HIDE DEF Idle
<1>4. ASSUME NEW delta \in {-1, 1}, MoveTree(delta) PROVE KeyPromise
  <2> DEFINE nodes == TreeNodes(data)
             pos == Clamp(ui.tree + delta, 1, Len(nodes))
             u == [ui EXCEPT !.tree = pos, !.node = nodes[pos]]
  <2>1. /\ nodes \in Seq(List \cup {Top}) /\ DOMAIN nodes = 1..Len(nodes)
        /\ Len(nodes) \in Nat \ {0}
    BY <1>1, TreeHasRows
  <2>2. ui.tree + delta \in Int
    BY <1>1, <1>4 DEF UIState
  <2> DEFINE last == Len(nodes)
  <2> HIDE DEF nodes
  <2>3. pos \in 1..last
    <3> HIDE DEF last
    <3> QED BY <2>1, <2>2 DEF Clamp, last
  <2>4. pos \in Nat \ {0} /\ nodes[pos] \in List \cup {Top}
    BY <2>1, <2>3
  <2>5. /\ Browsing("tree") /\ KeyFrame /\ about' = about /\ wanted' = wanted
        /\ Shows(SelectTaskAt(u, data, 1))
        /\ IF u.node # ui.node THEN LoadList(u.node) ELSE Silent
    BY <1>4 DEF MoveTree, nodes
  <2> HIDE DEF pos
  <2>6. u \in UIState /\ u.views = ui.views /\ u.filter = ui.filter /\ SameInput(ui, u)
    BY <1>1, <2>4 DEF UIState, SameInput
  <2> HIDE DEF u
  <2>7. u.mode = "browse" /\ ui.mode = "browse"
    BY <2>5, <2>6 DEF Browsing, SameInput
  <2>8. Idle
    <3>1. u.node \in List \cup {Top}
      BY <2>6 DEF UIState
    <3> QED BY <1>2, <2>5, <3>1, LoadEmitsLoad DEF Idle
  <2>9. wanted' = Noted(wanted, ui, u)
    BY <2>5, <2>6, NothingNoted
  <2>10. Holds(u, about')
    BY <2>7 DEF Holds
  <2>11. \E n \in Int : Shows(SelectTaskAt(u, data, n))
    BY <2>5
  <2>12. /\ KeyFrame /\ about' \in Task \cup {NoTask}
         /\ u.mode # "detail" /\ u.mode # "edit_title"
    BY <1>1, <2>5, <2>7
  <2> QED BY <2>6, <2>8, <2>9, <2>10, <2>11, <2>12, QuietKey DEF Idle
<1>5. ASSUME NEW delta \in {-1, 1}, MoveTask(delta) PROVE KeyPromise
  <2>1. /\ ui.mode = "browse" /\ KeyFrame /\ about' = about /\ wanted' = wanted /\ Silent
        /\ Shows(SelectTaskAt(ui, data, ui.cursor + delta))
        /\ ui.mode # "edit_title" /\ ui.mode # "detail"
    BY <1>5 DEF MoveTask, Browsing
  <2>2. ui.cursor + delta \in Int
    BY <1>1, <1>5 DEF UIState
  <2>3. wanted' = Noted(wanted, ui, ui)
    BY <2>1, NothingNoted
  <2>4. Holds(ui, about')
    BY <1>1, <2>1
  <2> QED BY <1>1, <1>2, <2>1, <2>2, <2>3, <2>4, QuietKey DEF Idle
<1>6. ASSUME NextPanel PROVE KeyPromise
  <2> DEFINE u == [ui EXCEPT !.focus = IF @ = "tree" THEN "tasks" ELSE "tree"]
  <2>1. /\ ui.mode = "browse"
        /\ KeyFrame /\ (IF ui.focus = "tree" THEN LoadList(ui.node) ELSE Silent) /\ about' = about /\ wanted' = wanted
        /\ Shows(u)
    BY <1>6 DEF NextPanel
  <2>2. /\ u \in UIState /\ u.views = ui.views /\ u.mode = "browse"
        /\ u.node = ui.node /\ u.filter = ui.filter /\ u.search = ui.search
        /\ u.sel = ui.sel /\ u.cursor = ui.cursor
    BY <1>1, <2>1 DEF UIState, Mode, Search
  <2> HIDE DEF u
  <2>3. Idle
    <3>1. ui.node \in List \cup {Top}
      BY <1>1 DEF UIState
    <3> QED BY <1>2, <2>1, <3>1, LoadEmitsLoad DEF Idle
  <2>4. wanted' = Noted(wanted, ui, u)
    BY <2>1, <2>2, NothingNoted
  <2>5. Holds(u, about')
    BY <1>1, <2>1, <2>2 DEF Holds
  <2>6. Shows(u) /\ Highlights(u, data)
    BY <1>1, <2>1, <2>2, SameHighlights
  <2>7. /\ KeyFrame /\ about' \in Task \cup {NoTask} /\ (ui.mode = "detail" => u.mode # "detail")
        /\ u.mode # "edit_title"
    BY <1>1, <1>3, <2>1, <2>2
  <2> QED BY <2>2, <2>3, <2>4, <2>5, <2>6, <2>7, QuietKey DEF Idle
<1>7. ASSUME OpenDetail PROVE KeyPromise
  <2> DEFINE u == [ui EXCEPT !.mode = "detail"]
  <2>1. /\ ui.mode = "browse"
        /\ KeyFrame /\ Silent /\ about' = about /\ wanted' = wanted
        /\ Shows(u)
    BY <1>7 DEF OpenDetail, Browsing
  <2>2. /\ u \in UIState /\ u.views = ui.views /\ u.mode = "detail"
        /\ u.node = ui.node /\ u.filter = ui.filter /\ u.search = ui.search
        /\ u.sel = ui.sel /\ u.cursor = ui.cursor
    BY <1>1, <2>1 DEF UIState, Mode, Search
  <2> HIDE DEF u
  <2>3. Idle
    BY <1>2, <2>1
  <2>4. wanted' = Noted(wanted, ui, u)
    BY <2>1, <2>2, NothingNoted
  <2>5. Holds(u, about')
    BY <1>1, <2>1, <2>2 DEF Holds
  <2>6. Shows(u) /\ Highlights(u, data)
    BY <1>1, <2>1, <2>2, SameHighlights
  <2>7. /\ KeyFrame /\ about' \in Task \cup {NoTask} /\ (ui.mode = "detail" => u.mode # "detail")
        /\ u.mode # "edit_title"
    BY <1>1, <1>3, <2>1, <2>2
  <2> QED BY <2>2, <2>3, <2>4, <2>5, <2>6, <2>7, QuietKey DEF Idle
<1>8. ASSUME CloseDetail PROVE KeyPromise
  <2> DEFINE u == [ui EXCEPT !.mode = "browse", !.edit = NoTask]
  <2>1. /\ ui.mode = "detail"
        /\ KeyFrame /\ Silent /\ about' = about /\ wanted' = wanted
        /\ Shows(u)
    BY <1>8 DEF CloseDetail
  <2>2. /\ u \in UIState /\ u.views = ui.views /\ u.mode = "browse"
        /\ u.node = ui.node /\ u.filter = ui.filter /\ u.search = ui.search
        /\ u.sel = ui.sel /\ u.cursor = ui.cursor
    BY <1>1, <2>1 DEF UIState, Mode, Search
  <2> HIDE DEF u
  <2>3. Idle
    BY <1>2, <2>1
  <2>4. wanted' = Noted(wanted, ui, u)
    BY <2>1, <2>2, NothingNoted
  <2>5. Holds(u, about')
    BY <1>1, <2>1, <2>2 DEF Holds
  <2>6. Shows(u) /\ Highlights(u, data)
    BY <1>1, <2>1, <2>2, SameHighlights
  <2>7. /\ KeyFrame /\ about' \in Task \cup {NoTask} /\ (ui.mode = "detail" => u.mode # "detail")
        /\ u.mode # "edit_title"
    BY <1>1, <1>3, <2>1, <2>2
  <2> QED BY <2>2, <2>3, <2>4, <2>5, <2>6, <2>7, QuietKey DEF Idle
<1>9. ASSUME BeginDetailEdit PROVE KeyPromise
  <2> DEFINE u == [ui EXCEPT !.mode = "edit_fields", !.edit = Chosen]
  <2>1. /\ ui.mode = "detail"
        /\ KeyFrame /\ Silent /\ about' = Chosen /\ wanted' = wanted
        /\ Shows(u)
    BY <1>9 DEF BeginDetailEdit
  <2>2. /\ u \in UIState /\ u.views = ui.views /\ u.mode = "edit_fields" /\ u.edit = Chosen
        /\ u.node = ui.node /\ u.filter = ui.filter /\ u.search = ui.search
        /\ u.sel = ui.sel /\ u.cursor = ui.cursor
    BY <1>1, <1>3, <2>1 DEF UIState, Mode, Search
  <2> HIDE DEF u
  <2>3. Idle
    BY <1>2, <2>1
  <2>4. wanted' = Noted(wanted, ui, u)
    BY <2>1, <2>2, NothingNoted
  <2>5. Holds(u, about')
    BY <1>1, <2>1, <2>2 DEF Holds
  <2>6. Shows(u) /\ Highlights(u, data)
    BY <1>1, <2>1, <2>2, SameHighlights
  <2>7. /\ KeyFrame /\ about' \in Task \cup {NoTask} /\ (ui.mode = "detail" => u.mode # "detail")
        /\ u.mode # "edit_title"
    BY <1>1, <1>3, <2>1, <2>2
  <2> QED BY <2>2, <2>3, <2>4, <2>5, <2>6, <2>7, QuietKey DEF Idle
<1>10. ASSUME BeginEdit PROVE KeyPromise
  <2> DEFINE u == [ui EXCEPT !.mode = "edit_title"]
  <2>1. /\ ui.mode = "browse"
        /\ KeyFrame /\ Silent /\ about' = Chosen /\ wanted' = wanted
        /\ Shows(u)
    BY <1>10 DEF BeginEdit
  <2>2. /\ u \in UIState /\ u.views = ui.views /\ u.mode = "edit_title"
        /\ u.node = ui.node /\ u.filter = ui.filter /\ u.search = ui.search
        /\ u.sel = ui.sel /\ u.cursor = ui.cursor
    BY <1>1, <2>1 DEF UIState, Mode, Search
  <2> HIDE DEF u
  <2>3. Idle
    BY <1>2, <2>1
  <2>4. wanted' = Noted(wanted, ui, u)
    BY <2>1, <2>2, NothingNoted
  <2>5. Holds(u, about')
    BY <1>1, <2>1, <2>2 DEF Holds
  <2>6. Shows(u) /\ Highlights(u, data)
    BY <1>1, <2>1, <2>2, SameHighlights
  <2>7. /\ KeyFrame /\ about' \in Task \cup {NoTask} /\ (ui.mode = "detail" => u.mode # "detail")
        /\ u.node = ui.node /\ u.sel = about'
    BY <1>1, <1>3, <2>1, <2>2
  <2> QED BY <2>2, <2>3, <2>4, <2>5, <2>6, <2>7, QuietKey DEF Idle
<1>11. ASSUME BeginCreate PROVE KeyPromise
  <2> DEFINE u == [ui EXCEPT !.mode = "create"]
  <2>1. /\ ui.mode = "browse"
        /\ KeyFrame /\ Silent /\ about' = about /\ wanted' = wanted
        /\ Shows(u)
    BY <1>11 DEF BeginCreate
  <2>2. /\ u \in UIState /\ u.views = ui.views /\ u.mode = "create"
        /\ u.node = ui.node /\ u.filter = ui.filter /\ u.search = ui.search
        /\ u.sel = ui.sel /\ u.cursor = ui.cursor
    BY <1>1, <2>1 DEF UIState, Mode, Search
  <2> HIDE DEF u
  <2>3. Idle
    BY <1>2, <2>1
  <2>4. wanted' = Noted(wanted, ui, u)
    BY <2>1, <2>2, NothingNoted
  <2>5. Holds(u, about')
    BY <1>1, <2>1, <2>2 DEF Holds
  <2>6. Shows(u) /\ Highlights(u, data)
    BY <1>1, <2>1, <2>2, SameHighlights
  <2>7. /\ KeyFrame /\ about' \in Task \cup {NoTask} /\ (ui.mode = "detail" => u.mode # "detail")
        /\ u.mode # "edit_title"
    BY <1>1, <1>3, <2>1, <2>2
  <2> QED BY <2>2, <2>3, <2>4, <2>5, <2>6, <2>7, QuietKey DEF Idle
<1>12. ASSUME BeginDelete PROVE KeyPromise
  <2> DEFINE u == [ui EXCEPT !.mode = "confirm", !.pending = Chosen, !.prompt = Chosen]
  <2>1. /\ ui.mode = "browse" /\ Chosen # NoTask
        /\ KeyFrame /\ Silent /\ about' = about /\ wanted' = wanted
        /\ Shows(u)
    BY <1>12 DEF BeginDelete
  <2>2. /\ u \in UIState /\ u.views = ui.views /\ u.mode = "confirm" /\ u.pending = Chosen /\ u.prompt = Chosen
        /\ u.node = ui.node /\ u.filter = ui.filter /\ u.search = ui.search
        /\ u.sel = ui.sel /\ u.cursor = ui.cursor
    BY <1>1, <1>3, <2>1 DEF UIState, Mode, Search
  <2> HIDE DEF u
  <2>3. Idle
    BY <1>2, <2>1
  <2>4. wanted' = Noted(wanted, ui, u)
    BY <2>1, <2>2, NothingNoted
  <2>5. Holds(u, about')
    BY <1>1, <2>1, <2>2 DEF Holds
  <2>6. Shows(u) /\ Highlights(u, data)
    BY <1>1, <2>1, <2>2, SameHighlights
  <2>7. /\ KeyFrame /\ about' \in Task \cup {NoTask} /\ (ui.mode = "detail" => u.mode # "detail")
        /\ u.mode # "edit_title"
    BY <1>1, <1>3, <2>1, <2>2
  <2> QED BY <2>2, <2>3, <2>4, <2>5, <2>6, <2>7, QuietKey DEF Idle
<1>13. ASSUME BeginSearch PROVE KeyPromise
  <2> DEFINE q == IF ui.search = "off" THEN "empty" ELSE ui.search
             u == [ui EXCEPT !.mode = "search", !.origin = ui.search, !.search = q]
  <2>1. /\ ui.mode = "browse"
        /\ KeyFrame /\ Silent /\ about' = about /\ wanted' = wanted
        /\ Shows(SelectTaskAt(u, data, 1))
    BY <1>13 DEF BeginSearch
  <2>2. /\ u \in UIState /\ u.views = ui.views /\ u.mode = "search"
        /\ u.node = ui.node /\ u.filter = ui.filter
    <3>1. q \in Search /\ "off" \in Search /\ ui.search \in Search
      BY <1>1 DEF UIState, Search
    <3> HIDE DEF q
    <3> QED BY <1>1, <2>1, <3>1 DEF UIState, Mode
  <2> HIDE DEF u
  <2>3. Idle
    BY <1>2, <2>1
  <2>4. wanted' = Noted(wanted, ui, u)
    BY <2>1, <2>2, NothingNoted
  <2>5. Holds(u, about')
    BY <1>1, <2>1, <2>2 DEF Holds
  <2>6. \E n \in Int : Shows(SelectTaskAt(u, data, n))
    BY <2>1
  <2>7. /\ KeyFrame /\ about' \in Task \cup {NoTask} /\ (ui.mode = "detail" => u.mode # "detail")
        /\ u.mode # "edit_title"
    BY <1>1, <1>3, <2>1, <2>2
  <2> QED BY <2>2, <2>3, <2>4, <2>5, <2>6, <2>7, QuietKey DEF Idle
<1>14. ASSUME NEW q \in Search, TypeSearch(q) PROVE KeyPromise
  <2> DEFINE u == [ui EXCEPT !.search = q]
  <2>1. /\ ui.mode = "search"
        /\ KeyFrame /\ Silent /\ about' = about /\ wanted' = wanted
        /\ Shows(SelectTaskAt(u, data, 1))
    BY <1>14 DEF TypeSearch
  <2>2. /\ u \in UIState /\ u.views = ui.views /\ u.mode = "search"
        /\ u.node = ui.node /\ u.filter = ui.filter
    BY <1>1, <2>1 DEF UIState, Mode, Search
  <2> HIDE DEF u
  <2>3. Idle
    BY <1>2, <2>1
  <2>4. wanted' = Noted(wanted, ui, u)
    BY <2>1, <2>2, NothingNoted
  <2>5. Holds(u, about')
    BY <1>1, <2>1, <2>2 DEF Holds
  <2>6. \E n \in Int : Shows(SelectTaskAt(u, data, n))
    BY <2>1
  <2>7. /\ KeyFrame /\ about' \in Task \cup {NoTask} /\ (ui.mode = "detail" => u.mode # "detail")
        /\ u.mode # "edit_title"
    BY <1>1, <1>3, <2>1, <2>2
  <2> QED BY <2>2, <2>3, <2>4, <2>5, <2>6, <2>7, QuietKey DEF Idle
<1>15. ASSUME SubmitSearch PROVE KeyPromise
  <2> DEFINE q == IF ui.search = "empty" THEN "off" ELSE ui.search
             u == [ui EXCEPT !.mode = "browse", !.origin = "off", !.search = q]
  <2>1. /\ ui.mode = "search"
        /\ KeyFrame /\ Silent /\ about' = about /\ wanted' = wanted
        /\ Shows(SelectTaskAt(u, data, 1))
    BY <1>15 DEF SubmitSearch
  <2>2. /\ u \in UIState /\ u.views = ui.views /\ u.mode = "browse"
        /\ u.node = ui.node /\ u.filter = ui.filter
    <3>1. q \in Search /\ "off" \in Search /\ ui.search \in Search
      BY <1>1 DEF UIState, Search
    <3> HIDE DEF q
    <3> QED BY <1>1, <2>1, <3>1 DEF UIState, Mode
  <2> HIDE DEF u
  <2>3. Idle
    BY <1>2, <2>1
  <2>4. wanted' = Noted(wanted, ui, u)
    BY <2>1, <2>2, NothingNoted
  <2>5. Holds(u, about')
    BY <1>1, <2>1, <2>2 DEF Holds
  <2>6. \E n \in Int : Shows(SelectTaskAt(u, data, n))
    BY <2>1
  <2>7. /\ KeyFrame /\ about' \in Task \cup {NoTask} /\ (ui.mode = "detail" => u.mode # "detail")
        /\ u.mode # "edit_title"
    BY <1>1, <1>3, <2>1, <2>2
  <2> QED BY <2>2, <2>3, <2>4, <2>5, <2>6, <2>7, QuietKey DEF Idle
<1>16. ASSUME BeginFilter PROVE KeyPromise
  <2> DEFINE u == [ui EXCEPT !.mode = "filter"]
  <2>1. /\ ui.mode = "browse"
        /\ KeyFrame /\ Silent /\ about' = about /\ wanted' = wanted
        /\ Shows(u)
    BY <1>16 DEF BeginFilter
  <2>2. /\ u \in UIState /\ u.views = ui.views /\ u.mode = "filter"
        /\ u.node = ui.node /\ u.filter = ui.filter /\ u.search = ui.search
        /\ u.sel = ui.sel /\ u.cursor = ui.cursor
    BY <1>1, <2>1 DEF UIState, Mode, Search
  <2> HIDE DEF u
  <2>3. Idle
    BY <1>2, <2>1
  <2>4. wanted' = Noted(wanted, ui, u)
    BY <2>1, <2>2, NothingNoted
  <2>5. Holds(u, about')
    BY <1>1, <2>1, <2>2 DEF Holds
  <2>6. Shows(u) /\ Highlights(u, data)
    BY <1>1, <2>1, <2>2, SameHighlights
  <2>7. /\ KeyFrame /\ about' \in Task \cup {NoTask} /\ (ui.mode = "detail" => u.mode # "detail")
        /\ u.mode # "edit_title"
    BY <1>1, <1>3, <2>1, <2>2
  <2> QED BY <2>2, <2>3, <2>4, <2>5, <2>6, <2>7, QuietKey DEF Idle
<1>17. ASSUME NEW on \in BOOLEAN, SubmitFilter(on) PROVE KeyPromise
  <2> DEFINE u == [ui EXCEPT !.mode = "browse", !.filter = on]
  <2>1. /\ ui.mode = "filter"
        /\ KeyFrame /\ Silent /\ about' = about /\ Choose(on)
        /\ Shows(SelectTaskAt(u, data, 1))
    BY <1>17 DEF SubmitFilter
  <2>2. /\ u \in UIState /\ u.views = ui.views /\ u.mode = "browse"
        /\ u.node = ui.node /\ u.filter = on
    BY <1>1, <2>1 DEF UIState, Mode, Search
  <2> HIDE DEF u
  <2>3. Idle
    BY <1>2, <2>1
  <2>4. wanted' = Noted(wanted, ui, u)
    BY <2>1, <2>2 DEF Choose, Noted
  <2>5. Holds(u, about')
    BY <1>1, <2>1, <2>2 DEF Holds
  <2>6. \E n \in Int : Shows(SelectTaskAt(u, data, n))
    BY <2>1
  <2>7. /\ KeyFrame /\ about' \in Task \cup {NoTask} /\ (ui.mode = "detail" => u.mode # "detail")
        /\ u.mode # "edit_title"
    BY <1>1, <1>3, <2>1, <2>2
  <2> QED BY <2>2, <2>3, <2>4, <2>5, <2>6, <2>7, QuietKey DEF Idle
<1>18. ASSUME CancelView, ui.search # "off" PROVE KeyPromise
  <2> DEFINE u == [ui EXCEPT !.search = "off"]
  <2>1. /\ ui.mode = "browse"
        /\ KeyFrame /\ Silent /\ about' = about /\ wanted' = wanted
        /\ Shows(SelectTaskAt(u, data, 1))
    BY <1>18 DEF CancelView
  <2>2. /\ u \in UIState /\ u.views = ui.views /\ u.mode = "browse"
        /\ u.node = ui.node /\ u.filter = ui.filter
    BY <1>1, <2>1 DEF UIState, Mode, Search
  <2> HIDE DEF u
  <2>3. Idle
    BY <1>2, <2>1
  <2>4. wanted' = Noted(wanted, ui, u)
    BY <2>1, <2>2, NothingNoted
  <2>5. Holds(u, about')
    BY <1>1, <2>1, <2>2 DEF Holds
  <2>6. \E n \in Int : Shows(SelectTaskAt(u, data, n))
    BY <2>1
  <2>7. /\ KeyFrame /\ about' \in Task \cup {NoTask} /\ (ui.mode = "detail" => u.mode # "detail")
        /\ u.mode # "edit_title"
    BY <1>1, <1>3, <2>1, <2>2
  <2> QED BY <2>2, <2>3, <2>4, <2>5, <2>6, <2>7, QuietKey DEF Idle
<1>19. ASSUME CancelView, ui.search = "off" PROVE KeyPromise
  <2> DEFINE u == [ui EXCEPT !.filter = FALSE]
  <2>1. /\ ui.mode = "browse"
        /\ KeyFrame /\ Silent /\ about' = about /\ Choose(FALSE)
        /\ Shows(SelectTaskAt(u, data, 1))
    BY <1>19 DEF CancelView
  <2>2. /\ u \in UIState /\ u.views = ui.views /\ u.mode = "browse"
        /\ u.node = ui.node /\ u.filter = FALSE
    BY <1>1, <2>1 DEF UIState, Mode, Search
  <2> HIDE DEF u
  <2>3. Idle
    BY <1>2, <2>1
  <2>4. wanted' = Noted(wanted, ui, u)
    BY <2>1, <2>2 DEF Choose, Noted
  <2>5. Holds(u, about')
    BY <1>1, <2>1, <2>2 DEF Holds
  <2>6. \E n \in Int : Shows(SelectTaskAt(u, data, n))
    BY <2>1
  <2>7. /\ KeyFrame /\ about' \in Task \cup {NoTask} /\ (ui.mode = "detail" => u.mode # "detail")
        /\ u.mode # "edit_title"
    BY <1>1, <1>3, <2>1, <2>2
  <2> QED BY <2>2, <2>3, <2>4, <2>5, <2>6, <2>7, QuietKey DEF Idle
<1>20. ASSUME CancelInput PROVE KeyPromise
  <2> DEFINE q == IF ui.mode = "search" THEN ui.origin ELSE ui.search
             u == [ui EXCEPT !.mode = "browse", !.edit = NoTask, !.pending = NoTask,
                             !.prompt = NoTask, !.origin = "off", !.search = q]
  <2>1. /\ ui.mode # "detail"
        /\ KeyFrame /\ Silent /\ about' = NoTask /\ wanted' = wanted
        /\ Shows(SelectTaskAt(u, data, 1))
    BY <1>20 DEF CancelInput
  <2>2. /\ u \in UIState /\ u.views = ui.views /\ u.mode = "browse"
        /\ u.node = ui.node /\ u.filter = ui.filter
    <3>1. q \in Search /\ "off" \in Search /\ ui.search \in Search
      BY <1>1 DEF UIState, Search
    <3> HIDE DEF q
    <3> QED BY <1>1, <2>1, <3>1 DEF UIState, Mode
  <2> HIDE DEF u
  <2>3. Idle
    BY <1>2, <2>1
  <2>4. wanted' = Noted(wanted, ui, u)
    BY <2>1, <2>2, NothingNoted
  <2>5. Holds(u, about')
    BY <1>1, <2>1, <2>2 DEF Holds
  <2>6. \E n \in Int : Shows(SelectTaskAt(u, data, n))
    BY <2>1
  <2>7. /\ KeyFrame /\ about' \in Task \cup {NoTask} /\ (ui.mode = "detail" => u.mode # "detail")
        /\ u.mode # "edit_title"
    BY <1>1, <1>3, <2>1, <2>2
  <2> QED BY <2>2, <2>3, <2>4, <2>5, <2>6, <2>7, QuietKey DEF Idle
<1>21. ASSUME SubmitEditTitle PROVE KeyPromise
  <2> DEFINE u == [ui EXCEPT !.mode = "browse"]
  <2>1. /\ ui.mode = "edit_title" /\ KeyFrame /\ about' = NoTask /\ wanted' = wanted
        /\ Shows(u)
        /\ IF Chosen = NoTask THEN Silent ELSE Emit("update", Chosen)
    BY <1>21 DEF SubmitEditTitle
  <2>2. /\ u \in UIState /\ u.views = ui.views /\ u.mode = "browse"
        /\ u.node = ui.node /\ u.filter = ui.filter /\ u.search = ui.search
        /\ u.sel = ui.sel /\ u.cursor = ui.cursor
    BY <1>1 DEF UIState, Mode
  <2> HIDE DEF u
  <2>3. /\ calls' \in [Slot -> Call]
        /\ \A s \in Slot : \A k : Emitted(s, k) => k # "delete" /\ calls'[s].arg = Chosen
    <3>1. CASE Chosen = NoTask
      BY <2>1, <3>1, SilentEmitsNothing
    <3>2. CASE Chosen # NoTask
      <4>1. "update" \in Kind /\ Chosen \in Task \cup List \cup {0}
        BY <1>3 DEF Kind, NoTask
      <4> QED BY <2>1, <3>2, <4>1, EmitTakesSlot
    <3> QED BY <3>1, <3>2
  <2>4. ScreenInv' /\ ui'.mode = u.mode
    <3>1. wanted' = Noted(wanted, ui, u) /\ u.mode # "edit_title"
      BY <2>1, <2>2, NothingNoted
    <3>2. Holds(u, about') /\ Highlights(u, data) /\ about' \in Task \cup {NoTask}
      BY <1>1, <2>1, <2>2, SameHighlights DEF Holds
    <3> QED BY <2>1, <2>2, <2>3, <3>1, <3>2, KeySettles
  <2>5. Chosen = about \/ about = NoTask
    BY <1>3, <2>1 DEF ScreenInv, Titles
  <2>6. \A s \in Slot : Emitted(s, "update") => EditsRight(s)
    BY <2>1, <2>3, <2>5 DEF EditsRight
  <2> QED BY <2>1, <2>3, <2>4, <2>6 DEF KeyPromise
<1>22. ASSUME SubmitDetailEdit PROVE KeyPromise
  <2> DEFINE u == [ui EXCEPT !.mode = "detail", !.edit = NoTask]
  <2>1. /\ ui.mode = "edit_fields" /\ KeyFrame /\ about' = NoTask /\ wanted' = wanted
        /\ Shows(u) /\ Emit("update", ui.edit)
    BY <1>22 DEF SubmitDetailEdit
  <2>2. /\ u \in UIState /\ u.views = ui.views /\ u.mode = "detail"
        /\ u.node = ui.node /\ u.filter = ui.filter /\ u.search = ui.search
        /\ u.sel = ui.sel /\ u.cursor = ui.cursor
    BY <1>1 DEF UIState, Mode
  <2> HIDE DEF u
  <2>3. ui.edit \in Task \cup {NoTask} /\ ui.edit = about
    BY <1>1, <2>1 DEF UIState, Holds
  <2>4. /\ calls' \in [Slot -> Call]
        /\ \A s \in Slot : \A k : Emitted(s, k) => k = "update" /\ calls'[s].arg = ui.edit
    <3>1. "update" \in Kind /\ ui.edit \in Task \cup List \cup {0}
      BY <2>3 DEF Kind, NoTask
    <3> QED BY <2>1, <3>1, EmitTakesSlot
  <2>5. ScreenInv'
    <3>1. wanted' = Noted(wanted, ui, u) /\ u.mode # "edit_title"
      BY <2>1, <2>2, NothingNoted
    <3>2. Holds(u, about') /\ Highlights(u, data) /\ about' \in Task \cup {NoTask}
      BY <1>1, <2>1, <2>2, SameHighlights DEF Holds
    <3> QED BY <2>1, <2>2, <2>4, <3>1, <3>2, KeySettles
  <2> QED BY <2>1, <2>3, <2>4, <2>5 DEF KeyPromise, EditsRight
<1>23. ASSUME SubmitCreate PROVE KeyPromise
  <2> DEFINE u == [ui EXCEPT !.mode = "browse"]
  <2>1. /\ ui.mode = "create" /\ KeyFrame /\ about' = about /\ wanted' = wanted
        /\ Shows(u)
        /\ IF ui.node = Top THEN Silent ELSE Emit("create", ui.node)
    BY <1>23 DEF SubmitCreate
  <2>2. /\ u \in UIState /\ u.views = ui.views /\ u.mode = "browse"
        /\ u.node = ui.node /\ u.filter = ui.filter /\ u.search = ui.search
        /\ u.sel = ui.sel /\ u.cursor = ui.cursor
    BY <1>1 DEF UIState, Mode
  <2> HIDE DEF u
  <2>3. calls' \in [Slot -> Call] /\ \A s \in Slot : \A k : Emitted(s, k) => k = "create"
    <3>1. CASE ui.node = Top
      BY <2>1, <3>1, SilentEmitsNothing
    <3>2. CASE ui.node # Top
      <4>1. "create" \in Kind /\ ui.node \in Task \cup List \cup {0}
        BY <1>1, <3>2 DEF Kind, UIState
      <4> QED BY <2>1, <3>2, <4>1, EmitTakesSlot
    <3> QED BY <3>1, <3>2
  <2>4. ScreenInv' /\ ui'.mode = u.mode
    <3>1. wanted' = Noted(wanted, ui, u) /\ u.mode # "edit_title"
      BY <2>1, <2>2, NothingNoted
    <3>2. Holds(u, about') /\ Highlights(u, data) /\ about' \in Task \cup {NoTask}
      BY <1>1, <2>1, <2>2, SameHighlights DEF Holds
    <3> QED BY <2>1, <2>2, <2>3, <3>1, <3>2, KeySettles
  <2> QED BY <2>1, <2>2, <2>3, <2>4 DEF KeyPromise
<1>24. ASSUME ConfirmDelete PROVE KeyPromise
  <2> DEFINE u == [ui EXCEPT !.mode = "browse", !.pending = NoTask, !.prompt = NoTask]
  <2>1. /\ ui.mode = "confirm" /\ KeyFrame /\ about' = about /\ wanted' = wanted
        /\ Shows(u) /\ Emit("delete", ui.pending)
    BY <1>24 DEF ConfirmDelete
  <2>2. /\ u \in UIState /\ u.views = ui.views /\ u.mode = "browse"
        /\ u.node = ui.node /\ u.filter = ui.filter /\ u.search = ui.search
        /\ u.sel = ui.sel /\ u.cursor = ui.cursor
    BY <1>1 DEF UIState, Mode
  <2> HIDE DEF u
  <2>3. ui.pending \in Task \cup {NoTask} /\ ui.pending = ui.prompt /\ ui.prompt # NoTask
    BY <1>1, <2>1 DEF UIState, Holds
  <2>4. /\ calls' \in [Slot -> Call]
        /\ \A s \in Slot : \A k : Emitted(s, k) => k = "delete" /\ calls'[s].arg = ui.pending
    <3>1. "delete" \in Kind /\ ui.pending \in Task \cup List \cup {0}
      BY <2>3 DEF Kind
    <3> QED BY <2>1, <3>1, EmitTakesSlot
  <2>5. ScreenInv'
    <3>1. wanted' = Noted(wanted, ui, u) /\ u.mode # "edit_title"
      BY <2>1, <2>2, NothingNoted
    <3>2. Holds(u, about') /\ Highlights(u, data) /\ about' \in Task \cup {NoTask}
      BY <1>1, <2>1, <2>2, SameHighlights DEF Holds
    <3> QED BY <2>1, <2>2, <2>4, <3>1, <3>2, KeySettles
  <2> QED BY <2>1, <2>3, <2>4, <2>5 DEF KeyPromise
<1> QED
  BY <1>4, <1>5, <1>6, <1>7, <1>8, <1>9, <1>10, <1>11, <1>12, <1>13, <1>14, <1>15, <1>16, <1>17,
     <1>18, <1>19, <1>20, <1>21, <1>22, <1>23, <1>24 DEF Key

\* The external editor leaves the screen alone, and sends no key's command.
LEMMA EditorSteps ==
  ASSUME ScreenInv, StartTaskEditor \/ FinishTaskEditor
  PROVE  /\ ScreenInv' /\ ui' = ui
         /\ \A s \in Slot : ~Emitted(s, "delete")
<1>1. EditorFrame /\ editing' \in BOOLEAN
  BY DEF StartTaskEditor, FinishTaskEditor
<1>2. calls' \in [Slot -> Call] /\ \A s \in Slot : ~Emitted(s, "delete")
  <2>1. CASE Silent
    BY <2>1, SilentEmitsNothing
  <2>2. CASE Chosen # NoTask /\ Emit("update", Chosen)
    <3>1. "update" \in Kind /\ Chosen \in Task \cup List \cup {0}
      BY <2>2, ChosenTask DEF Kind, Chosen, ScreenInv, ScreenTypeOK
    <3> QED BY <2>2, <3>1, EmitTakesSlot
  <2> QED BY <2>1, <2>2 DEF StartTaskEditor, FinishTaskEditor
<1>3. ScreenTypeOK'
  <2>1. calls' \in [Slot -> UICall]
    BY <1>2 DEF Call
  <2> QED BY <1>1, <2>1 DEF ScreenInv, ScreenTypeOK, EditorFrame
<1>4. /\ Highlights(ui, data)' /\ Holds(ui, about)' /\ Titles(ui, about)'
      /\ Remembers(ui, wanted)'
  BY <1>1 DEF ScreenInv, EditorFrame, Highlights, Rows, Holds, Titles, Remembers
<1> QED BY <1>1, <1>2, <1>3, <1>4 DEF ScreenInv, EditorFrame

-----------------------------------------------------------------------------
(* The goroutines. *)

LEMMA StoreReads ==
  ASSUME store \in Snapshot
  PROVE  FirstPage \in Snapshot /\ \A l \in List : ListScope(l) \in Snapshot
  BY DEF Snapshot, FirstPage, ListScope

\* All but the delivery of a snapshot leave the screen alone.
LEMMA CallFrameKeeps ==
  ASSUME ScreenInv, CallFrame, store' \in Snapshot, activeList' \in List \cup {NoList},
         calls' \in [Slot -> Call], changes' \in 0..MaxChanges, dirty' \in BOOLEAN
  PROVE  ScreenInv'
<1>1. ScreenTypeOK'
  <2>1. calls' \in [Slot -> UICall]
    BY DEF Call
  <2> QED BY <2>1 DEF ScreenInv, ScreenTypeOK, CallFrame
<1>2. /\ Highlights(ui, data)' /\ Holds(ui, about)' /\ Titles(ui, about)'
      /\ Remembers(ui, wanted)'
  BY DEF ScreenInv, CallFrame, Highlights, Rows, Holds, Titles, Remembers
<1> QED BY <1>1, <1>2 DEF ScreenInv

LEMMA GoroutineSteps ==
  ASSUME ScreenInv, Goroutine
  PROVE  /\ ScreenInv'
         /\ ui.mode = "detail" /\ ui'.mode = "detail" /\ ui'.node = ui.node => ui'.sel = ui.sel
         /\ \A s \in Slot : \A k : ~Emitted(s, k)
<1> DEFINE Same == ui' = ui
           Goal == /\ ScreenInv'
                   /\ ui.mode = "detail" /\ ui'.mode = "detail" /\ ui'.node = ui.node
                        => ui'.sel = ui.sel
                   /\ \A s \in Slot : \A k : ~Emitted(s, k)
<1>1. /\ store \in Snapshot /\ activeList \in List \cup {NoList} /\ calls \in [Slot -> Call]
      /\ changes \in 0..MaxChanges /\ dirty \in BOOLEAN /\ MaxChanges \in Nat
      /\ ui \in UIState /\ data \in Snapshot
  BY ScreenAssumption DEF ScreenInv, ScreenTypeOK
<1>2. \A s \in Slot : /\ [calls[s] EXCEPT !.step = "read"] \in Call
                      /\ [calls[s] EXCEPT !.step = "read"].step = "read"
                      /\ \A d \in Snapshot :
                           /\ [calls[s] EXCEPT !.step = "deliver", !.snap = d] \in Call
                           /\ [calls[s] EXCEPT !.step = "deliver", !.snap = d].step = "deliver"
  BY <1>1 DEF UICall, Call
<1>3. Done \in Call /\ Done.step = "done"
  <2>1. NoSnapshot \in Snapshot
    BY DEF NoSnapshot, Snapshot
  <2> QED BY <2>1 DEF Done, UICall, Kind, Call, NoList
<1>4. Reader \in Slot
  BY ScreenAssumption DEF Reader, Slot
<1>5. ASSUME NEW s \in Slot, NEW c \in Call, calls' = [calls EXCEPT ![s] = c], c.step # "begin"
      PROVE  calls' \in [Slot -> Call] /\ \A r \in Slot : \A k : ~Emitted(r, k)
  BY <1>1, <1>5 DEF Emitted
<1>6. SpendChange => changes' \in 0..MaxChanges
  BY <1>1 DEF SpendChange
<1>7. ASSUME NEW s \in Slot, SetActiveList(s) PROVE Goal
  <2>1. /\ CallFrame /\ store' = store /\ changes' = changes /\ dirty' = dirty
        /\ activeList' = calls[s].arg /\ calls[s].kind = "load"
        /\ calls' = [calls EXCEPT ![s] = [calls[s] EXCEPT !.step = "read"]]
    BY <1>1, <1>7 DEF SetActiveList
  <2>2. activeList' \in List \cup {NoList}
    BY <1>1, <2>1 DEF Call
  <2> QED BY <1>1, <1>2, <1>5, <2>1, <2>2, CallFrameKeeps DEF CallFrame
<1>8. ASSUME NEW s \in Slot, ReadList(s) \/ ReadAll(s) PROVE Goal
  <2>1. PICK d \in Snapshot :
          calls' = [calls EXCEPT ![s] = [calls[s] EXCEPT !.step = "deliver", !.snap = d]]
    <3>1. calls[s].kind \in {"load", "reload"} => calls[s].arg \in List \cup {NoList}
      BY <1>1 DEF Call
    <3>2. FirstPage \in Snapshot /\ \A l \in List : ListScope(l) \in Snapshot
      BY <1>1, StoreReads
    <3> QED BY <1>1, <1>8, <3>1, <3>2 DEF ReadList, ReadAll, Reads, NoList
  <2>2. /\ CallFrame /\ store' = store /\ changes' = changes /\ dirty' = dirty
        /\ activeList' = activeList
    BY <1>8 DEF ReadList, ReadAll
  <2>3. calls' \in [Slot -> Call] /\ \A r \in Slot : \A k : ~Emitted(r, k)
    <3> DEFINE c == [calls[s] EXCEPT !.step = "deliver", !.snap = d]
    <3>1. c \in Call /\ c.step # "begin" /\ calls' = [calls EXCEPT ![s] = c]
      BY <1>2, <2>1
    <3> HIDE DEF c
    <3> QED BY <1>5, <3>1
  <2> QED BY <1>1, <2>2, <2>3, CallFrameKeeps DEF CallFrame
<1>9. ASSUME NEW s \in Slot, Handle(s) PROVE Goal
  <2>1. /\ CallFrame /\ dirty' = dirty /\ activeList' = activeList
        /\ calls' = [calls EXCEPT ![s] = [calls[s] EXCEPT !.step = "read"]]
    BY <1>1, <1>9 DEF Handle
  <2>2. changes' \in 0..MaxChanges
    BY <1>1, <1>6, <1>9 DEF Handle
  <2>3. store' \in Snapshot
    BY <1>1, <1>9 DEF Handle, Snapshot
  <2>4. calls' \in [Slot -> Call] /\ \A r \in Slot : \A k : ~Emitted(r, k)
    BY <1>2, <1>5, <2>1
  <2> QED BY <1>1, <2>1, <2>2, <2>3, <2>4, CallFrameKeeps DEF CallFrame
<1>10. ASSUME NEW s \in Slot, CallFails(s) PROVE Goal
  <2>1. /\ CallFrame /\ store' = store /\ changes' = changes /\ dirty' = dirty
        /\ activeList' = activeList /\ calls' = [calls EXCEPT ![s] = Done]
    BY <1>10 DEF CallFails
  <2>2. calls' \in [Slot -> Call] /\ \A r \in Slot : \A k : ~Emitted(r, k)
    BY <1>3, <1>5, <2>1
  <2> QED BY <1>1, <2>1, <2>2, CallFrameKeeps DEF CallFrame
<1>11. ASSUME BeginReload PROVE Goal
  <2> DEFINE c == [Done EXCEPT !.kind = "reload", !.arg = activeList, !.step = "read"]
  <2>1. /\ CallFrame /\ store' = store /\ changes' = changes /\ dirty' \in BOOLEAN
        /\ activeList' = activeList /\ calls' = [calls EXCEPT ![Reader] = c]
    BY <1>11 DEF BeginReload
  <2>2. c \in Call /\ c.step # "begin"
    BY <1>1, <1>3 DEF Call, UICall, Kind, NoList
  <2> HIDE DEF c
  <2>3. calls' \in [Slot -> Call] /\ \A r \in Slot : \A k : ~Emitted(r, k)
    BY <1>4, <1>5, <2>1, <2>2
  <2> QED BY <1>1, <2>1, <2>3, CallFrameKeeps DEF CallFrame
<1>12. ASSUME Pull PROVE Goal
  <2>1. /\ CallFrame /\ calls' = calls /\ dirty' = TRUE /\ activeList' = activeList
    BY <1>12 DEF Pull
  <2>2. changes' \in 0..MaxChanges
    BY <1>6, <1>12 DEF Pull
  <2>3. store' \in Snapshot
    <3>1. CASE \E t \in Task, ls \in Membership : store' = [store EXCEPT !.place[t] = ls]
      BY <1>1, <3>1, ScreenAssumption DEF Snapshot
    <3>2. CASE \E l \in store.lists :
                 store' = [lists |-> store.lists \ {l}, place |-> [t \in Task |-> store.place[t] \ {l}]]
      BY <1>1, <3>2 DEF Snapshot
    <3> QED BY <1>12, <3>1, <3>2 DEF Pull
  <2>4. \A r \in Slot : \A k : ~Emitted(r, k)
    BY <2>1 DEF Emitted
  <2> QED BY <1>1, <2>1, <2>2, <2>3, <2>4, CallFrameKeeps DEF CallFrame
<1>13. ASSUME NEW s \in Slot, ApplySnapshot(s) PROVE Goal
  <2> DEFINE d == calls[s].snap
             u == ReconcileSelection(ui, d)
  <2>1. /\ data' = d /\ ui' = Settle(ui, u, d) /\ calls' = [calls EXCEPT ![s] = Done]
        /\ store' = store /\ changes' = changes /\ dirty' = dirty /\ activeList' = activeList
        /\ about' = (IF ui.mode = "edit_title" /\ ~StillShown(about) THEN NoTask ELSE about)
        /\ wanted' = wanted /\ editing' = editing
    BY <1>13 DEF ApplySnapshot
  <2>2. d \in Snapshot
    BY <1>1 DEF Call, UICall
  <2> HIDE DEF d
  <2>3. /\ u \in UIState /\ Highlights(u, d) /\ u.views = ui.views /\ u.filter = ui.filter
        /\ u.edit = ui.edit /\ u.pending = ui.pending /\ u.prompt = ui.prompt
        /\ u.mode = ui.mode \/ u.mode = "browse"
        /\ u.mode = "detail" => u.sel = ui.sel
        /\ ui.sel \in Range(Rows(u, d)) => u.sel = ui.sel
    BY <1>1, <2>2, Reconciled
  <2> HIDE DEF u
  <2>4. /\ Remembers(ui, wanted) /\ Holds(ui, about) /\ wanted \in [List -> BOOLEAN]
        /\ about \in Task \cup {NoTask} /\ Titles(ui, about) /\ editing \in BOOLEAN
    BY DEF ScreenInv, ScreenTypeOK
  <2>5. /\ ui' \in UIState /\ Highlights(ui', d) /\ Remembers(ui', Noted(wanted, ui, u))
        /\ SameInput(u, ui') /\ ui'.node = u.node
        /\ u.node = ui.node => ui'.sel = u.sel /\ Rows(ui', d) = Rows(u, d)
    BY <1>1, <2>1, <2>3, <2>4, Settled
  <2>6. Noted(wanted, ui, u) = wanted
    BY <2>3, NothingNoted
  <2>7. /\ Holds(ui', about') /\ Titles(ui', about') /\ about' \in Task \cup {NoTask}
    <3>1. about' = about \/ (ui.mode = "edit_title" /\ about' = NoTask)
      BY <2>1
    <3>2. Holds(ui', about')
      BY <2>3, <2>4, <2>5, <3>1 DEF Holds, SameInput
    <3>3. ASSUME ui'.mode = "edit_title", about' # NoTask PROVE ui'.sel = about'
      <4>1. ui.mode = "edit_title" /\ about' = about /\ ui'.node = ui.node /\ u.node = ui.node
            /\ about \in Range(Rows(ui', d)) /\ about = ui.sel
        BY <2>1, <2>3, <2>4, <2>5, <3>3 DEF SameInput, StillShown, Titles
      <4>2. u.sel = ui.sel /\ ui'.sel = u.sel
        BY <2>3, <2>5, <4>1
      <4> QED BY <4>1, <4>2
    <3> QED BY <2>4, <3>1, <3>2, <3>3 DEF Titles
  <2>8. calls' \in [Slot -> Call] /\ \A r \in Slot : \A k : ~Emitted(r, k)
    BY <1>3, <1>5, <2>1
  <2>9. ScreenTypeOK'
    <3>1. calls' \in [Slot -> UICall]
      BY <2>8 DEF Call
    <3> QED BY <1>1, <2>1, <2>2, <2>4, <2>5, <2>7, <3>1 DEF ScreenTypeOK
  <2>10. Highlights(ui', data') /\ Remembers(ui', wanted')
    BY <2>1, <2>5, <2>6
  <2>11. /\ Highlights(ui, data)' /\ Holds(ui, about)' /\ Titles(ui, about)'
         /\ Remembers(ui, wanted)'
    BY <2>7, <2>10 DEF Highlights, Holds, Titles, Remembers
  <2>12. ui.mode = "detail" /\ ui'.mode = "detail" /\ ui'.node = ui.node => ui'.sel = ui.sel
    BY <2>3, <2>5 DEF SameInput
  <2> QED BY <2>8, <2>9, <2>11, <2>12 DEF ScreenInv
<1> HIDE DEF Goal
<1>14. Goal
  BY <1>7, <1>8, <1>9, <1>10, <1>11, <1>12, <1>13 DEF Goroutine
<1> QED BY <1>14 DEF Goal

-----------------------------------------------------------------------------
(* The theorems. *)

LEMMA ScreenInit ==
  ASSUME Init
  PROVE  ScreenInv
<1> DEFINE pos == IF data.lists = {} THEN 1 ELSE 2
           nodes == TreeNodes(data)
           u == [mode |-> "browse", focus |-> "tree", node |-> nodes[pos], tree |-> pos,
                 sel |-> NoTask, cursor |-> 1, search |-> "off", origin |-> "off",
                 filter |-> FALSE, views |-> [l \in List |-> FALSE], edit |-> NoTask,
                 pending |-> NoTask, prompt |-> NoTask]
<1>1. store \in Snapshot
  <2>1. PICK p \in [Task -> Membership] : store = [lists |-> List, place |-> p]
    BY DEF Init
  <2>2. p \in [Task -> SUBSET List]
    BY ScreenAssumption
  <2> QED BY <2>1, <2>2 DEF Snapshot
<1>2. data \in Snapshot
  BY <1>1, StoreReads DEF Init
<1>3. ui = SelectTaskAt(u, data, 1)
  BY DEF Init
<1>4. pos \in Nat \ {0} /\ nodes[pos] \in List \cup {Top}
  <2>1. /\ nodes \in Seq(List \cup {Top}) /\ DOMAIN nodes = 1..Len(nodes)
        /\ Len(nodes) \in Nat \ {0} /\ (data.lists # {} => 2 \in DOMAIN nodes)
    BY <1>2, TreeHasRows
  <2> HIDE DEF nodes
  <2>2. pos \in DOMAIN nodes
    BY <2>1
  <2> QED BY <2>1, <2>2
<1> HIDE DEF pos, nodes
<1>5. u \in UIState /\ u.views = [l \in List |-> FALSE] /\ u.filter = FALSE /\ u.mode = "browse"
  BY <1>4 DEF UIState, Mode, Search
<1>6. u.node # Top => u.node \in List
  BY <1>5 DEF UIState
<1> HIDE DEF u
<1>7. ui \in UIState /\ SameInput(u, ui) /\ SameView(u, ui) /\ Highlights(ui, data)
  BY <1>3, <1>5, TaskSelected
<1>8. calls \in [Slot -> Call]
  <2>1. NoSnapshot \in Snapshot
    BY DEF NoSnapshot, Snapshot
  <2>2. Done \in Call
    BY <2>1 DEF Done, UICall, Kind, Call, NoList
  <2> QED BY <2>2 DEF Init
<1>9. Holds(ui, about) /\ Titles(ui, about) /\ Remembers(ui, wanted)
  BY <1>5, <1>6, <1>7 DEF Init, Holds, Titles, Remembers, SameInput, SameView
<1>10. ScreenTypeOK
  <2>1. calls \in [Slot -> UICall]
    BY <1>8 DEF Call
  <2>2. /\ activeList \in List \cup {NoList} /\ about \in Task \cup {NoTask}
        /\ dirty \in BOOLEAN /\ editing \in BOOLEAN
    BY DEF Init
  <2>3. changes \in 0..MaxChanges /\ wanted \in [List -> BOOLEAN]
    BY ScreenAssumption DEF Init
  <2> QED BY <1>1, <1>2, <1>7, <2>1, <2>2, <2>3 DEF ScreenTypeOK
<1> QED BY <1>7, <1>8, <1>9, <1>10 DEF ScreenInv

LEMMA ScreenStutters ==
  ASSUME ScreenInv, UNCHANGED vars
  PROVE  ScreenInv'
<1>1. /\ Highlights(ui, data)' /\ Holds(ui, about)' /\ Titles(ui, about)'
      /\ Remembers(ui, wanted)'
  BY DEF ScreenInv, vars, Highlights, Rows, Holds, Titles, Remembers
<1> QED BY <1>1 DEF ScreenInv, ScreenTypeOK, vars

\* The screen, whatever keys are pressed and in whatever order the snapshots arrive: the
\* row under the cursor is the selected task, what a prompt or an edit holds stands until it
\* is answered, and every list is shown with the filter the user left it with.
THEOREM ScreenSafety == Spec => []ScreenInv
<1>1. Init => ScreenInv
  BY ScreenInit
<1>2. ScreenInv /\ [Next]_vars => ScreenInv'
  BY KeySteps, EditorSteps, GoroutineSteps, ScreenStutters DEF Next, KeyPromise
<1> QED BY <1>1, <1>2, PTL DEF Spec

\* Type correctness of the screen, its snapshot and its goroutines.
THEOREM ScreenTyped == Spec => []ScreenTypeOK
<1>1. ScreenInv => ScreenTypeOK
  BY DEF ScreenInv
<1> QED BY <1>1, ScreenSafety, PTL

\* What a key acts on is what is highlighted.
THEOREM ScreenHighlights == Spec => []SelectionIsShown
<1>1. ScreenInv => SelectionIsShown
  BY DEF ScreenInv, SelectionIsShown, Highlights
<1> QED BY <1>1, ScreenSafety, PTL

\* Every list is shown with the filter the user last left it with.
THEOREM ScreenFilters == Spec => []FilterIsPerList
<1>1. ScreenInv => FilterIsPerList
  BY DEF ScreenInv, FilterIsPerList, Remembers
<1> QED BY <1>1, ScreenSafety, PTL

\* A confirmed deletion removes the task the prompt named (confirmInput), for any tasks and
\* any number of snapshots that moved the selection in between.
THEOREM DeletionsArePrompted == Spec => DeleteHitsPromptedTask
<1>1. ASSUME ScreenInv, [Next]_vars
      PROVE  \A s \in Slot : Emitted(s, "delete") => calls'[s].arg = ui.prompt /\ ui.prompt # NoTask
  <2>1. CASE Key
    BY <1>1, <2>1, KeySteps DEF KeyPromise
  <2>2. CASE Goroutine
    BY <1>1, <2>2, GoroutineSteps
  <2>3. CASE StartTaskEditor \/ FinishTaskEditor
    BY <1>1, <2>3, EditorSteps
  <2>4. CASE UNCHANGED vars
    BY <2>4 DEF vars, Emitted
  <2> QED BY <1>1, <2>1, <2>2, <2>3, <2>4 DEF Next
<1> QED BY <1>1, ScreenSafety, PTL DEF Spec, DeleteHitsPromptedTask

\* An edit typed on the screen goes to the task selected when it began (submitEdit), for any
\* tasks, lists and filters and any number of snapshots under the prompt; only a title whose
\* task has left the rows goes elsewhere.
THEOREM EditsKeepTask == Spec => EditKeepsTask
<1>1. ASSUME ScreenInv, [Next]_vars
      PROVE  \A s \in Slot : Emitted(s, "update") => EditsRight(s)
  <2>1. CASE Key
    BY <1>1, <2>1, KeySteps DEF KeyPromise
  <2>2. CASE Goroutine
    BY <1>1, <2>2, GoroutineSteps
  <2>3. CASE StartTaskEditor \/ FinishTaskEditor
    BY <1>1, <2>3, EditorSteps DEF EditsRight
  <2>4. CASE UNCHANGED vars
    BY <2>4 DEF vars, Emitted
  <2> QED BY <1>1, <2>1, <2>2, <2>3, <2>4 DEF Next
<1>2. (\A s \in Slot : Emitted(s, "update") => EditsRight(s)) =>
        \A s \in Slot :
          Emitted(s, "update") /\ ui.mode \in {"edit_title", "edit_fields"} /\ ui'.mode # ui.mode
            => \/ calls'[s].arg = about
               \/ ui.mode = "edit_title" /\ about = NoTask
  BY DEF EditsRight
<1> QED BY <1>1, <1>2, ScreenSafety, PTL DEF Spec, EditKeepsTask

\* The detail pane, where a key reaches it, never turns to another task: a snapshot without
\* its task closes it (reconcileSelection).
THEOREM DetailsKeepTask == Spec => DetailShowsSameTask
<1>1. ASSUME ScreenInv, [Next]_vars
      PROVE  ui.mode = "detail" /\ ui'.mode = "detail" /\ ui'.node = ui.node => ui'.sel = ui.sel
  <2>1. CASE Key
    BY <1>1, <2>1, KeySteps DEF KeyPromise
  <2>2. CASE Goroutine
    BY <1>1, <2>2, GoroutineSteps
  <2>3. CASE StartTaskEditor \/ FinishTaskEditor
    BY <1>1, <2>3, EditorSteps
  <2>4. CASE UNCHANGED vars
    BY <2>4 DEF vars
  <2> QED BY <1>1, <2>1, <2>2, <2>3, <2>4 DEF Next
<1> QED BY <1>1, ScreenSafety, PTL DEF Spec, DetailShowsSameTask

-----------------------------------------------------------------------------
(* EventStream. *)

OneInside == \A e \in Emitter : at[e] \in {"drain", "refill"} => holder = e

RoomLeft ==
    \A e \in Emitter :
        /\ at[e] = "drain" => Len(pending[e]) + Len(buffer) =< Cap
        /\ at[e] = "refill" => Len(pending[e]) + Len(buffer) =< Cap - 1

InsideIsTerminal ==
    \A e \in Emitter : at[e] \in {"drain", "refill"} => event[e] = "terminal"

\* An emitter holds events of the channel only while it is inside.
NothingHeld == \A e \in Emitter : at[e] \in {"idle", "emit"} => pending[e] = <<>>

ReloadIsDue ==
    \/ view >= reported
    \/ reader = "reload"
    \/ \E i \in DOMAIN buffer : buffer[i] = "terminal"
    \/ \E e \in Emitter : at[e] # "idle" /\ event[e] = "terminal"

\* Nothing is announced before it is written.
ReportIsWritten == reported =< cache

StreamInv ==
    /\ StreamTypeOK
    /\ OneInside
    /\ RoomLeft
    /\ InsideIsTerminal
    /\ NothingHeld
    /\ ReportIsWritten
    /\ ReloadIsDue

-----------------------------------------------------------------------------
LEMMA TailFacts ==
    ASSUME NEW S, NEW s \in Seq(S), s # <<>>
    PROVE  /\ Head(s) \in S
           /\ Tail(s) \in Seq(S)
           /\ Len(Tail(s)) = Len(s) - 1
           /\ Len(s) \in Nat \ {0}
           /\ Head(s) = s[1]
           /\ \A i \in 1..(Len(s) - 1) : Tail(s)[i] = s[i + 1]
  OBVIOUS

LEMMA AppendFacts ==
    ASSUME NEW S, NEW s \in Seq(S), NEW x \in S
    PROVE  /\ Append(s, x) \in Seq(S)
           /\ Len(Append(s, x)) = Len(s) + 1
           /\ Len(s) \in Nat
           /\ Append(s, x)[Len(s) + 1] = x
           /\ \A i \in 1..Len(s) : Append(s, x)[i] = s[i]
  OBVIOUS

\* Displaced forgets exactly one event, if there is one.
LEMMA DisplacedFacts ==
    ASSUME NEW s \in Seq(EventKind)
    PROVE  /\ Displaced(s) \in Seq(EventKind)
           /\ s # <<>> => Len(Displaced(s)) = Len(s) - 1
           /\ s = <<>> => Len(Displaced(s)) = 0
  <1>1. CASE s = <<>>
    BY <1>1 DEF Displaced
  <1>2. CASE s # <<>>
    <2>. DEFINE f(i) == IF i < Discard(s) THEN s[i] ELSE s[i + 1]
    <2>1. Len(s) - 1 \in Nat
      BY <1>2, TailFacts
    <2>2. \A i \in 1..(Len(s) - 1) : f(i) \in EventKind
      BY <2>1
    <2>3. Displaced(s) = [i \in 1..(Len(s) - 1) |-> f(i)]
      BY <1>2 DEF Displaced
    <2>4. [i \in 1..(Len(s) - 1) |-> f(i)] \in [1..(Len(s) - 1) -> EventKind]
      BY <2>2
    <2>. HIDE DEF f
    <2>. QED  BY <1>2, <2>1, <2>3, <2>4
  <1>. QED  BY <1>1, <1>2

-----------------------------------------------------------------------------
LEMMA InitStreamInv == StreamInit => StreamInv
  BY StreamAssumption
  DEF StreamInit, StreamInv, StreamTypeOK, EventKind, OneInside, RoomLeft, InsideIsTerminal, NothingHeld,
      ReportIsWritten, ReloadIsDue

LEMMA RunInv ==
    ASSUME StreamInv, NEW e \in Emitter, Progress(e) \/ Finish(e) \/ BreakOff(e)
    PROVE  StreamInv'
  <1>. USE StreamAssumption DEF StreamInv, GoTo, runVars
  <1>1. StreamTypeOK'
    <2>1. CASE Progress(e)
      BY <2>1 DEF StreamTypeOK, EventKind, Progress
    <2>2. CASE Finish(e)
      BY <2>2 DEF StreamTypeOK, EventKind, Finish
    <2>3. CASE BreakOff(e)
      BY <2>3 DEF StreamTypeOK, EventKind, BreakOff
    <2>. QED  BY <2>1, <2>2, <2>3
  <1>2. OneInside' /\ RoomLeft' /\ InsideIsTerminal' /\ NothingHeld'
    BY DEF StreamTypeOK, OneInside, RoomLeft, InsideIsTerminal, NothingHeld,
           Progress, Finish, BreakOff
  <1>r. ReportIsWritten'
    BY DEF StreamTypeOK, ReportIsWritten, Progress, Finish, BreakOff
  <1>3. ReloadIsDue'
    <2>1. CASE Progress(e)
      BY <2>1 DEF StreamTypeOK, ReloadIsDue, Progress
    <2>2. CASE Finish(e)
      <3>1. at'[e] = "emit" /\ event'[e] = "terminal"
        BY <2>2 DEF StreamTypeOK, Finish
      <3>. QED  BY <3>1 DEF ReloadIsDue
    <2>3. CASE BreakOff(e)
      BY <2>3 DEF StreamTypeOK, ReloadIsDue, BreakOff
    <2>. QED  BY <2>1, <2>2, <2>3
  <1>. QED  BY <1>1, <1>2, <1>r, <1>3

\* What a send does to the channel.
LEMMA SendFacts ==
    ASSUME StreamTypeOK, NEW x \in EventKind, ~Full, buffer' = Append(buffer, x)
    PROVE  /\ buffer' \in Seq(EventKind)
           /\ Len(buffer') = Len(buffer) + 1
           /\ Len(buffer) \in Nat
           /\ Len(buffer') =< Cap
           /\ \A i \in DOMAIN buffer : i \in DOMAIN buffer' /\ buffer'[i] = buffer[i]
           /\ x = "terminal" => \E i \in DOMAIN buffer' : buffer'[i] = "terminal"
  <1>1. buffer \in Seq(EventKind) /\ Len(buffer) =< Cap
    BY DEF StreamTypeOK
  <1>2. Len(buffer) < Cap
    BY <1>1, StreamAssumption DEF Full
  <1>3. /\ buffer' \in Seq(EventKind) /\ Len(buffer') = Len(buffer) + 1 /\ Len(buffer) \in Nat
        /\ buffer'[Len(buffer) + 1] = x
        /\ \A i \in 1..Len(buffer) : buffer'[i] = buffer[i]
    BY <1>1, AppendFacts
  <1>4. DOMAIN buffer = 1..Len(buffer) /\ DOMAIN buffer' = 1..(Len(buffer) + 1)
    BY <1>1, <1>3
  <1>5. Len(buffer) + 1 \in DOMAIN buffer'
    BY <1>3, <1>4
  <1>. QED  BY <1>2, <1>3, <1>4, <1>5, StreamAssumption

LEMMA EnterInv ==
    ASSUME StreamInv, NEW e \in Emitter, Enter(e)
    PROVE  StreamInv'
  <1>. USE StreamAssumption DEF StreamInv, GoTo, runVars
  <1>a. event[e] \in EventKind /\ at[e] = "emit" /\ holder = NoOne
    BY DEF StreamTypeOK, Enter, Put, Drop, BeginDrain
  <1>b. \A g \in Emitter : at[g] \notin {"drain", "refill"}
    BY <1>a DEF OneInside
  <1>r. ReportIsWritten'
    BY DEF ReportIsWritten, Enter, Put, Drop, BeginDrain
  <1>1. CASE Put(e)
    <2>0. /\ buffer' \in Seq(EventKind) /\ Len(buffer') =< Cap
          /\ \A i \in DOMAIN buffer : i \in DOMAIN buffer' /\ buffer'[i] = buffer[i]
          /\ event[e] = "terminal" => \E i \in DOMAIN buffer' : buffer'[i] = "terminal"
      BY <1>1, <1>a, SendFacts DEF Put
    <2>1. StreamTypeOK'
      BY <1>1, <2>0 DEF StreamTypeOK, Put
    <2>2. OneInside' /\ RoomLeft' /\ InsideIsTerminal' /\ NothingHeld'
      BY <1>1, <1>b DEF StreamTypeOK, OneInside, RoomLeft, InsideIsTerminal, NothingHeld, Put
    <2>3. ReloadIsDue'
      BY <1>1, <2>0 DEF StreamTypeOK, ReloadIsDue, Put
    <2>. QED  BY <1>r, <2>1, <2>2, <2>3
  <1>2. CASE Drop(e)
    <2>1. StreamTypeOK'
      BY <1>2 DEF StreamTypeOK, Drop
    <2>2. OneInside' /\ RoomLeft' /\ InsideIsTerminal' /\ NothingHeld'
      BY <1>2, <1>b DEF StreamTypeOK, OneInside, RoomLeft, InsideIsTerminal, NothingHeld, Drop
    <2>3. ReloadIsDue'
      BY <1>2 DEF StreamTypeOK, ReloadIsDue, Drop
    <2>. QED  BY <1>r, <2>1, <2>2, <2>3
  <1>3. CASE BeginDrain(e)
    <2>1. StreamTypeOK'
      BY <1>3 DEF StreamTypeOK, BeginDrain
    <2>2. OneInside' /\ InsideIsTerminal' /\ NothingHeld'
      BY <1>3, <1>b DEF StreamTypeOK, OneInside, InsideIsTerminal, NothingHeld, BeginDrain
    <2>3. pending[e] = <<>>
      BY <1>a DEF NothingHeld
    <2>4. RoomLeft'
      BY <1>3, <1>b, <2>3 DEF StreamTypeOK, RoomLeft, BeginDrain
    <2>5. ReloadIsDue'
      BY <1>3 DEF StreamTypeOK, ReloadIsDue, BeginDrain
    <2>. QED  BY <1>r, <2>1, <2>2, <2>4, <2>5
  <1>. QED  BY <1>1, <1>2, <1>3 DEF Enter

\* What a receive does to the channel.
LEMMA ReceiveFacts ==
    ASSUME StreamTypeOK, buffer # <<>>, buffer' = Tail(buffer)
    PROVE  /\ Head(buffer) \in EventKind
           /\ buffer' \in Seq(EventKind)
           /\ Len(buffer') = Len(buffer) - 1
           /\ Len(buffer) \in Nat
           /\ Len(buffer') =< Cap
           /\ \A i \in DOMAIN buffer : buffer[i] = "terminal" =>
                Head(buffer) = "terminal" \/ \E j \in DOMAIN buffer' : buffer'[j] = "terminal"
  <1>1. buffer \in Seq(EventKind) /\ Len(buffer) =< Cap
    BY DEF StreamTypeOK
  <1>2. /\ Head(buffer) \in EventKind /\ buffer' \in Seq(EventKind) /\ Len(buffer') = Len(buffer) - 1
        /\ Len(buffer) \in Nat \ {0} /\ Head(buffer) = buffer[1]
        /\ \A i \in 1..(Len(buffer) - 1) : buffer'[i] = buffer[i + 1]
    BY <1>1, TailFacts
  <1>3. DOMAIN buffer = 1..Len(buffer) /\ DOMAIN buffer' = 1..(Len(buffer) - 1)
    BY <1>1, <1>2
  <1>4. ASSUME NEW i \in DOMAIN buffer, buffer[i] = "terminal"
        PROVE  Head(buffer) = "terminal" \/ \E j \in DOMAIN buffer' : buffer'[j] = "terminal"
    <2>1. CASE i = 1
      BY <1>2, <1>4, <2>1
    <2>2. CASE i # 1
      <3>1. i - 1 \in DOMAIN buffer' /\ buffer'[i - 1] = buffer[i]
        BY <1>2, <1>3, <2>2
      <3>. QED  BY <1>4, <3>1
    <2>. QED  BY <2>1, <2>2
  <1>. QED  BY <1>1, <1>2, <1>4, StreamAssumption

LEMMA InsideInv ==
    ASSUME StreamInv, NEW e \in Emitter, Inside(e)
    PROVE  StreamInv'
  <1>. USE StreamAssumption DEF StreamInv, GoTo, runVars
  <1>a. at[e] \in {"drain", "refill"}
    BY DEF Inside, Drain, Drained, Refill, PutLast
  <1>b. /\ event[e] = "terminal" /\ holder = e
        /\ \A g \in Emitter : g # e => at[g] \notin {"drain", "refill"}
    BY <1>a, StreamAssumption DEF OneInside, InsideIsTerminal
  <1>c. pending[e] \in Seq(EventKind) /\ Len(pending[e]) \in Nat /\ event[e] \in EventKind
    BY DEF StreamTypeOK
  <1>r. ReportIsWritten'
    BY DEF ReportIsWritten, Inside, Drain, Drained, Refill, PutLast
  <1>1. CASE Drain(e)
    <2>0. /\ Head(buffer) \in EventKind /\ buffer' \in Seq(EventKind) /\ Len(buffer) \in Nat
          /\ Len(buffer') = Len(buffer) - 1 /\ Len(buffer') =< Cap
      BY <1>1, ReceiveFacts DEF Drain
    <2>1. pending'[e] \in Seq(EventKind) /\ Len(pending'[e]) = Len(pending[e]) + 1
      BY <1>1, <1>c, <2>0, AppendFacts DEF Drain, StreamTypeOK
    <2>2. StreamTypeOK'
      BY <1>1, <2>0, <2>1 DEF StreamTypeOK, Drain
    <2>3. OneInside' /\ InsideIsTerminal' /\ NothingHeld'
      BY <1>1 DEF StreamTypeOK, OneInside, InsideIsTerminal, NothingHeld, Drain
    <2>4. RoomLeft'
      BY <1>1, <1>b, <1>c, <2>0, <2>1 DEF StreamTypeOK, RoomLeft, Drain
    <2>5. ReloadIsDue'
      BY <1>1, <1>b DEF ReloadIsDue, Drain
    <2>. QED  BY <1>r, <2>2, <2>3, <2>4, <2>5
  <1>2. CASE Drained(e)
    <2>0. pending'[e] = Displaced(pending[e])
      BY <1>2 DEF StreamTypeOK, Drained
    <2>1. /\ pending'[e] \in Seq(EventKind)
          /\ Len(pending'[e]) =< Cap - 1
      <3>1. Len(pending[e]) =< Cap
        BY <1>2, <1>c DEF RoomLeft, Drained
      <3>2. /\ Displaced(pending[e]) \in Seq(EventKind)
            /\ pending[e] # <<>> => Len(Displaced(pending[e])) = Len(pending[e]) - 1
            /\ pending[e] = <<>> => Len(Displaced(pending[e])) = 0
        BY <1>c, DisplacedFacts
      <3>. QED  BY <1>c, <2>0, <3>1, <3>2
    <2>2. StreamTypeOK'
      BY <1>2, <2>1 DEF StreamTypeOK, Drained
    <2>3. OneInside' /\ InsideIsTerminal' /\ NothingHeld'
      BY <1>2, <1>b DEF StreamTypeOK, OneInside, InsideIsTerminal, NothingHeld, Drained
    <2>4. RoomLeft'
      BY <1>2, <1>b, <2>1 DEF StreamTypeOK, RoomLeft, Drained
    <2>5. ReloadIsDue'
      BY <1>2, <1>b DEF StreamTypeOK, ReloadIsDue, Drained
    <2>. QED  BY <1>r, <2>2, <2>3, <2>4, <2>5
  <1>3. CASE Refill(e)
    <2>0. /\ Head(pending[e]) \in EventKind /\ Tail(pending[e]) \in Seq(EventKind)
          /\ Len(Tail(pending[e])) = Len(pending[e]) - 1
      BY <1>3, <1>c, TailFacts DEF Refill
    <2>1. /\ buffer' \in Seq(EventKind) /\ Len(buffer') = Len(buffer) + 1
          /\ Len(buffer) \in Nat /\ Len(buffer') =< Cap
      BY <1>3, <2>0, SendFacts DEF Refill
    <2>2. pending'[e] = Tail(pending[e])
      BY <1>3 DEF StreamTypeOK, Refill
    <2>2a. Len(pending'[e]) = Len(pending[e]) - 1
      BY <2>0, <2>2
    <2>3. StreamTypeOK'
      BY <1>3, <2>0, <2>1, <2>2 DEF StreamTypeOK, Refill
    <2>4. OneInside' /\ InsideIsTerminal' /\ NothingHeld'
      BY <1>3 DEF StreamTypeOK, OneInside, InsideIsTerminal, NothingHeld, Refill
    <2>5. RoomLeft'
      <3>1. Len(pending[e]) + Len(buffer) =< Cap - 1 /\ at[e] = "refill" /\ at' = at
        BY <1>3 DEF RoomLeft, Refill
      <3>2. Len(pending'[e]) + Len(buffer') =< Cap - 1
        <4>. DEFINE p == Len(pending[e])
                    b == Len(buffer)
        <4>1. p \in Nat /\ b \in Nat /\ p + b =< Cap - 1
          BY <1>c, <2>1, <3>1
        <4>2. Len(pending'[e]) = p - 1 /\ Len(buffer') = b + 1
          BY <2>1, <2>2a
        <4>. HIDE DEF p, b
        <4>3. (p - 1) + (b + 1) =< Cap - 1
          BY <4>1
        <4>. QED  BY <4>2, <4>3
      <3>3. \A g \in Emitter : at'[g] \in {"drain", "refill"} => g = e
        BY <1>b, <3>1
      <3>. QED  BY <3>1, <3>2, <3>3 DEF RoomLeft
    <2>6. ReloadIsDue'
      BY <1>3, <1>b DEF ReloadIsDue, Refill
    <2>. QED  BY <1>r, <2>3, <2>4, <2>5, <2>6
  <1>4. CASE PutLast(e)
    <2>0. /\ buffer' \in Seq(EventKind) /\ Len(buffer') =< Cap
          /\ \E i \in DOMAIN buffer' : buffer'[i] = "terminal"
      BY <1>4, <1>b, <1>c, SendFacts DEF PutLast
    <2>1. StreamTypeOK'
      BY <1>4, <2>0 DEF StreamTypeOK, PutLast
    <2>2. OneInside' /\ InsideIsTerminal' /\ NothingHeld' /\ RoomLeft'
      BY <1>4, <1>b
      DEF StreamTypeOK, OneInside, InsideIsTerminal, NothingHeld, RoomLeft, PutLast
    <2>3. ReloadIsDue'
      BY <2>0 DEF ReloadIsDue
    <2>. QED  BY <1>r, <2>1, <2>2, <2>3
  <1>. QED  BY <1>1, <1>2, <1>3, <1>4 DEF Inside

LEMMA ReadInv ==
    ASSUME StreamInv, Read
    PROVE  StreamInv'
  <1>. USE StreamAssumption DEF StreamInv, emitterVars, runVars
  <1>r. ReportIsWritten'
    BY DEF ReportIsWritten, Read, Receive, Reload
  <1>1. CASE Receive
    <2>0. /\ buffer' \in Seq(EventKind) /\ Len(buffer) \in Nat
          /\ Len(buffer') = Len(buffer) - 1 /\ Len(buffer') =< Cap
          /\ \A i \in DOMAIN buffer : buffer[i] = "terminal" =>
               Head(buffer) = "terminal" \/ \E j \in DOMAIN buffer' : buffer'[j] = "terminal"
      BY <1>1, ReceiveFacts DEF Receive
    <2>1. StreamTypeOK'
      BY <1>1, <2>0 DEF StreamTypeOK, Receive
    <2>2. OneInside' /\ InsideIsTerminal' /\ NothingHeld'
      BY <1>1 DEF OneInside, InsideIsTerminal, NothingHeld, Receive
    <2>3. RoomLeft'
      BY <1>1, <2>0 DEF StreamTypeOK, RoomLeft, Receive
    <2>4. ReloadIsDue'
      BY <1>1, <2>0 DEF ReloadIsDue, Receive
    <2>. QED  BY <1>r, <2>1, <2>2, <2>3, <2>4
  <1>2. CASE Reload
    <2>1. StreamTypeOK'
      BY <1>2 DEF StreamTypeOK, Reload
    <2>2. OneInside' /\ InsideIsTerminal' /\ NothingHeld' /\ RoomLeft'
      BY <1>2 DEF OneInside, InsideIsTerminal, NothingHeld, RoomLeft, Reload
    <2>3. ReloadIsDue'
      BY <1>2 DEF StreamTypeOK, ReportIsWritten, ReloadIsDue, Reload
    <2>. QED  BY <1>r, <2>1, <2>2, <2>3
  <1>. QED  BY <1>1, <1>2 DEF Read

-----------------------------------------------------------------------------
\* The inductive invariant holds in every reachable state of the stream.
THEOREM StreamSafety == StreamSpec => []StreamInv
  <1>1. StreamInv /\ [StreamNext]_streamVars => StreamInv'
    <2>. SUFFICES ASSUME StreamInv, [StreamNext]_streamVars PROVE StreamInv'
      OBVIOUS
    <2>1. CASE UNCHANGED streamVars
      BY <2>1
      DEF streamVars, emitterVars, StreamInv, StreamTypeOK, OneInside, RoomLeft,
          InsideIsTerminal, NothingHeld, ReportIsWritten, ReloadIsDue, runVars
    <2>2. CASE StreamNext
      BY <2>2, RunInv, EnterInv, InsideInv, ReadInv DEF StreamNext
    <2>. QED  BY <2>1, <2>2
  <1>. QED  BY <1>1, InitStreamInv, PTL DEF StreamSpec

\* The channel keeps to its capacity and every variable to its type.
THEOREM StreamTyped == StreamSpec => []StreamTypeOK
  <1>1. StreamInv => StreamTypeOK
    BY DEF StreamInv
  <1>. QED  BY <1>1, StreamSafety, PTL

\* No send under the mutex ever waits, whatever the capacity and however many
\* goroutines emit (foundation.go:1631-1676).
THEOREM StreamNeverWaits == StreamSpec => []EmitNeverWaits
  <1>1. StreamInv => EmitNeverWaits
    <2>. SUFFICES ASSUME StreamInv, NEW e \in Emitter, at[e] = "refill" PROVE ~Full
      BY DEF EmitNeverWaits
    <2>1. Len(pending[e]) + Len(buffer) =< Cap - 1
      BY DEF StreamInv, RoomLeft
    <2>2. Len(pending[e]) \in Nat /\ Len(buffer) \in Nat
      BY DEF StreamInv, StreamTypeOK
    <2>. QED  BY <2>1, <2>2, StreamAssumption DEF Full
  <1>. QED  BY <1>1, StreamSafety, PTL

\* At rest the view shows what the last announced run has written: no loss and no
\* reordering of events loses the need to reload.
THEOREM StreamFresh == StreamSpec => []ViewIsFreshAtRest
  <1>1. StreamInv => ViewIsFreshAtRest
    BY DEF StreamInv, ReloadIsDue, ViewIsFreshAtRest, Resting
  <1>. QED  BY <1>1, StreamSafety, PTL
===============================================================================
