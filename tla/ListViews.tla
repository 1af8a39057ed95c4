------------------------------ MODULE ListViews ------------------------------
(***************************************************************************)
(* The view of each list - filter, sort, groups, subtask display, columns  *)
(* - from one list to the next (internal/tui/update.go, view.go) and from  *)
(* one run of the program to the next (foundationUIController and Runtime  *)
(* of internal/bootstrap).                                                 *)
(*                                                                         *)
(* filter stands for all of a view but its columns: the code treats the    *)
(* filter, the sort, the groups and the subtask display alike, but for the *)
(* change of provider, which clears the filter alone.  The lists stay.     *)
(***************************************************************************)
EXTENDS Integers, Sequences, SequencesExt

CONSTANTS
  List,      \* list ids, in the order of the tree
  Column,    \* columns 1..n in their default order, 1 the title
  Lost,      \* no view: what the user chose is lost
  MaxViewChanges \* bound: changes the user makes to views

Top == 0
NoList == 0
Title == 1

ASSUME ViewsAssumption == List \subseteq Nat \ {Top} /\ Title \in Column

VARIABLES
  screen,   \* Model.UI: node, view on the screen, remembered views
  active,   \* the list the controller loaded last
  loads,    \* lists whose load has yet to begin
  savedState, \* the stored UI state
  runPhase,  \* of the run
  viewChanges, \* changes made to views
  chosenView,  \* the view the user last gave each list, Lost once the end of a run has lost it
  changedViews \* the lists whose view the user changed in this run

chosenVars == <<chosenView, changedViews>>
viewVars == <<screen, active, loads, savedState, runPhase, viewChanges, chosenVars>>

-----------------------------------------------------------------------------
(* Columns.  A preference of order 0 has no place of its own. *)

Preference == [set : BOOLEAN, visible : BOOLEAN, order : {0} \cup Column, fixed : BOOLEAN]
Unset == [set |-> FALSE, visible |-> TRUE, order |-> 0, fixed |-> FALSE]
NoColumns == [c \in Column |-> Unset]

Largest(S) == CHOOSE n \in S : \A m \in S : m <= n

\* The columns in the order of the table: placed ones first.
OrderTaskColumns(p) ==
  LET maxOrder == Largest({p[c].order : c \in Column})
      Place(c) == IF p[c].order > 0 THEN p[c].order ELSE maxOrder + c
  IN SetToSortSeq(Column, LAMBDA a, b : Place(a) < Place(b) \/ (Place(a) = Place(b) /\ a < b))

\* The columns at the left that do not scroll.
FixedTaskColumnCount(p) ==
  LET order == OrderTaskColumns(p)
  IN Largest({n \in 0..Len(order) : \A i \in 1..n : p[order[i]].fixed})

FixedUpTo(p, order, last) ==
  [c \in Column |-> [p[c] EXCEPT !.set = TRUE, !.fixed = \E i \in 1..last : order[i] = c]]

Numbered(p, order) ==
  [c \in Column |-> [p[c] EXCEPT !.set = TRUE, !.order = CHOOSE i \in DOMAIN order : order[i] = c]]

\* Everything left of a fixed column is fixed with it.
MoveTaskColumn(p, from, to) ==
  LET order == OrderTaskColumns(p)
      moved == InsertAt(RemoveAt(order, from), to, order[from])
      lastFixed == Largest({0} \cup {i \in DOMAIN moved : p[moved[i]].fixed})
  IN FixedUpTo(Numbered(p, moved), moved, lastFixed)

ToggleTaskColumnFixation(p, at) ==
  FixedUpTo(p, OrderTaskColumns(p), IF at <= FixedTaskColumnCount(p) THEN at - 1 ELSE at)

\* space
ToggleTaskColumn(p, c) == [p EXCEPT ![c] = [@ EXCEPT !.set = TRUE, !.visible = ~p[c].visible]]

\* A column that is resized is shown.
ResizeTaskColumn(p, c) == [p EXCEPT ![c] = [@ EXCEPT !.set = TRUE, !.visible = TRUE]]

\* What the keys of the column dialog make of the preferences.
Configured(p) ==
  LET order == OrderTaskColumns(p)
      at == DOMAIN order
  IN {MoveTaskColumn(p, i, i + 1) : i \in at \ {Len(order)}} \cup
     {MoveTaskColumn(p, i, i - 1) : i \in at \ {1}} \cup
     {ToggleTaskColumnFixation(p, i) : i \in at} \cup
     {ToggleTaskColumn(p, c) : c \in Column \ {Title}} \cup
     {ResizeTaskColumn(p, c) : c \in Column}

-----------------------------------------------------------------------------
(* One message of the user interface. *)

View == [filter : BOOLEAN, columns : [Column -> Preference]]
NoView == [filter |-> FALSE, columns |-> NoColumns]
NoScreen == [node |-> Top, view |-> NoView, views |-> [l \in List |-> NoView]]
NoState == [list |-> NoList, view |-> NoView, views |-> NoScreen.views]

IsList(node) == node # Top

Remember(s, l, v) == [s EXCEPT !.views[l] = v]

\* Broken: the columns of the list left stay on the screen.
RestoreListViewFilter(s, l) == [s EXCEPT !.view.filter = s.views[l].filter]

RestoreListView(s, l) == [s EXCEPT !.view = s.views[l]]

\* What Update does around a message that turns the screen into new: the view of
\* the list left is remembered, that of the list entered restored.
Settle(new) ==
  LET left == IF IsList(screen.node) THEN Remember(new, screen.node, screen.view) ELSE new
      entered == IF IsList(new.node) /\ new.node # screen.node
                 THEN RestoreListView(left, new.node)
                 ELSE IF IsList(screen.node) /\ ~IsList(new.node)
                 THEN [left EXCEPT !.view.columns = NoColumns]
                 ELSE left
  IN IF IsList(new.node) THEN Remember(entered, new.node, entered.view) ELSE entered

\* The view of a list, on the screen or remembered.
ViewOf(s, l) == IF s.node = l THEN s.view ELSE s.views[l]

Running == runPhase = "running"

\* The tree cursor moves; entering a list loads it in the background.
Select(node) ==
  /\ Running
  /\ node # screen.node
  /\ screen' = Settle([screen EXCEPT !.node = node])
  /\ loads' = IF IsList(node) THEN loads \cup {node} ELSE loads
  /\ UNCHANGED <<active, savedState, runPhase, viewChanges, chosenVars>>

\* The goroutine of a load begins, in any order.
Load(l) ==
  /\ Running
  /\ l \in loads
  /\ active' = l
  /\ loads' = loads \ {l}
  /\ UNCHANGED <<screen, savedState, runPhase, viewChanges, chosenVars>>

\* The user gives the list l a view.
Chooses(l, view) ==
  /\ chosenView' = [chosenView EXCEPT ![l] = view]
  /\ changedViews' = changedViews \cup {l}

Change(view) ==
  /\ Running
  /\ viewChanges < MaxViewChanges
  /\ viewChanges' = viewChanges + 1
  /\ screen' = Settle([screen EXCEPT !.view = view])
  /\ IF IsList(screen.node) THEN Chooses(screen.node, view) ELSE UNCHANGED chosenVars
  /\ UNCHANGED <<active, loads, savedState, runPhase>>

ApplyFilter == Change([screen.view EXCEPT !.filter = ~@])

UpdateColumnConfig ==
  /\ IsList(screen.node)
  /\ \E p \in Configured(screen.view.columns) \ {screen.view.columns} :
       Change([screen.view EXCEPT !.columns = p])

\* :provider goes to the first list without a filter.  On that list already, its
\* filter is gone with it.
SwitchProvider ==
  LET first == CHOOSE l \in List : \A m \in List : l <= m
  IN /\ Running
     /\ screen' = Settle([screen EXCEPT !.node = first,
                                        !.view = [screen.view EXCEPT !.filter = FALSE]])
     /\ IF screen.node = first /\ chosenView[first] # Lost
        THEN Chooses(first, [chosenView[first] EXCEPT !.filter = FALSE])
        ELSE UNCHANGED chosenVars
     /\ UNCHANGED <<active, loads, savedState, runPhase, viewChanges>>

-----------------------------------------------------------------------------
(* The run. *)

\* The view on the screen is stored as that of the list loaded last, whichever
\* list the cursor is on.
State ==
  LET list == IF active # NoList THEN active ELSE screen.node
  IN [list |-> list, view |-> screen.view,
      views |-> IF IsList(list) THEN [screen.views EXCEPT ![list] = screen.view]
                                ELSE screen.views]

\* Ui.Initialize, on an empty screen.
StartRun ==
  /\ runPhase \in {"quit", "crashed"}
  /\ runPhase' = "initialized"
  /\ UNCHANGED <<screen, active, loads, savedState, viewChanges, chosenVars>>

\* The stored state is shown.  The list of the view loaded last is selected.
SetState ==
  /\ runPhase = "initialized"
  /\ runPhase' = "running"
  /\ active' = savedState.list
  /\ screen' = [node |-> savedState.list, views |-> savedState.views,
                view |-> IF IsList(savedState.list) THEN savedState.views[savedState.list]
                         ELSE [savedState.view EXCEPT !.columns = NoColumns]]
  /\ UNCHANGED <<loads, savedState, viewChanges, chosenVars>>

\* The program's memory is gone, and the views of some lists with it.
Ends(lost) ==
  /\ screen' = NoScreen
  /\ active' = NoList
  /\ loads' = {}
  /\ chosenView' = [l \in List |-> IF l \in lost THEN Lost ELSE chosenView[l]]
  /\ changedViews' = {}
  /\ UNCHANGED viewChanges

\* The user quits.  A list that was loaded last, and left since without the next
\* one having been loaded, takes the view on the screen, which is not its own.
Shutdown ==
  /\ Running
  /\ runPhase' = "quit"
  /\ savedState' = State
  /\ Ends({active} \ {screen.node, NoList})

\* A start that fails after Ui.Initialize shuts down too: it stores an empty state.
InterruptedStart ==
  /\ runPhase = "initialized"
  /\ runPhase' = "quit"
  /\ savedState' = State
  /\ Ends(List)

\* The process dies, or the state cannot be saved: what was changed since the start is gone.
Crash ==
  /\ runPhase \in {"initialized", "running"}
  /\ runPhase' = "crashed"
  /\ UNCHANGED savedState
  /\ Ends(changedViews)

ViewsInit ==
  /\ screen = NoScreen
  /\ active = NoList
  /\ loads = {}
  /\ savedState = NoState
  /\ runPhase = "quit"
  /\ viewChanges = 0
  /\ chosenView = NoScreen.views
  /\ changedViews = {}

ViewsNext ==
  \/ \E node \in List \cup {Top} : Select(node)
  \/ \E l \in List : Load(l)
  \/ ApplyFilter
  \/ UpdateColumnConfig
  \/ SwitchProvider
  \/ StartRun
  \/ SetState
  \/ Shutdown
  \/ InterruptedStart
  \/ Crash

ViewsSpec == ViewsInit /\ [][ViewsNext]_viewVars

-----------------------------------------------------------------------------
(* Properties *)

\* Every state has the shape the declarations give it.
ViewsTypeOK ==
  /\ screen \in [node : List \cup {Top}, view : View, views : [List -> View]]
  /\ savedState \in [list : List \cup {NoList}, view : View, views : [List -> View]]
  /\ active \in List \cup {NoList} /\ loads \subseteq List
  /\ runPhase \in {"quit", "initialized", "running", "crashed"}
  /\ viewChanges \in 0..MaxViewChanges /\ chosenView \in [List -> View \cup {Lost}]
  /\ changedViews \subseteq List

\* Every list has the view the user last gave it, however the cursor, the loads
\* and the runs have gone since (Update, State, SetState).  The end of a run loses
\* the view of a list in three ways only: it was changed in a run that crashed, it
\* was loaded last and not the list on the screen at the quit, or a start was cut
\* short; and then until the user changes it again.
ViewsFollowTheUser ==
  Running => \A l \in List : chosenView[l] \in {ViewOf(screen, l), Lost}

\* The columns that are fixed are the first ones, whatever has been moved, fixed
\* or hidden (moveTaskColumn, toggleTaskColumnFixation).
FixedComesFirst ==
  \A l \in List :
    LET p == ViewOf(screen, l).columns
    IN \A c \in Column :
         p[c].fixed => c \in Range(SubSeq(OrderTaskColumns(p), 1, FixedTaskColumnCount(p)))

\* Quitting keeps the view of every list, which the code does not keep.
QuitKeepsEveryView ==
  [][Shutdown => \A l \in List : savedState'.views[l] = ViewOf(screen, l)]_viewVars

\* A start that is cut short leaves the stored views alone: the code stores an
\* empty state over them.
StartKeepsViews == [][runPhase = "initialized" /\ runPhase' = "quit" => savedState' = savedState]_viewVars

==============================================================================
