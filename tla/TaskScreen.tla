------------------------------ MODULE TaskScreen ------------------------------
(***************************************************************************)
(* The terminal user interface (internal/tui) over the cached snapshots    *)
(* that the UI controller of internal/bootstrap/foundation.go loads.       *)
(*                                                                         *)
(* Model.Update handles one message at a time: a key, or a snapshot.  The  *)
(* commands a key emits run in goroutines of their own (teaCommand), next  *)
(* to the reader that reloads after a synchronization (runSyncEvents), and *)
(* send their snapshots when they are done: in any order, and while the    *)
(* user is in the middle of an edit, a prompt or a search.                 *)
(*                                                                         *)
(* enter and e on a task open the external editor, whose document is the   *)
(* matter of TaskEditor.  Only while a document is pending, before the     *)
(* editor takes the terminal or after it has given it back, do these keys  *)
(* reach the screen's own detail pane and title prompt; e in the tree and  *)
(* an edit command without a title open the title prompt at any time.      *)
(*                                                                         *)
(* One provider with one workspace row (Top) and the lists under it.  Of a *)
(* task the screen needs its lists, and whether a search or the filter     *)
(* matches it; sort, groups and columns leave the rows as they are.        *)
(***************************************************************************)
EXTENDS Integers, Sequences, FiniteSets, Functions

CONSTANTS
    Task,       \* task ids, in the order in which the store returns them
    List,       \* list ids, in the order of the tree
    Found,      \* the tasks a search for a word finds
    Kept,       \* the tasks the filter keeps
    Membership, \* the sets of lists a task may be in
    PageSize,   \* foundationTaskPageSize
    MaxCalls,   \* commands in flight
    MaxChanges  \* changes of the store, the user's and the pulls' together

Top == 0
NoTask == 0
NoList == 0

ASSUME ScreenAssumption ==
    /\ Task \subseteq Nat \ {NoTask} /\ IsFiniteSet(Task)
    /\ List \subseteq Nat \ {Top} /\ IsFiniteSet(List)
    /\ Found \subseteq Task
    /\ Kept \subseteq Task
    /\ Membership \subseteq SUBSET List
    /\ PageSize \in Nat \ {0}
    /\ MaxCalls \in Nat \ {0}
    /\ MaxChanges \in Nat

VARIABLES
    ui,          \* Model.UI: mode, focus, selection, search, filter, prompts
    data,        \* Model.Data: the snapshot on the screen
    activeList,  \* the list the controller reloads, NoList for all tasks
    calls,       \* the goroutines: commands in slots 1.., the event reader in 0
    store,       \* the lists and tasks in the database
    changes,     \* changes still to come
    dirty,       \* a synchronization has ended and the reader has yet to reload
    editing,     \* pendingTaskEdit: the external editor has a document
    about,       \* the task selected when the edit under way began, NoTask once its row has gone
    wanted       \* for each list, whether the user last left it filtered

vars == <<ui, data, activeList, calls, store, changes, dirty, editing, about, wanted>>

Slot == 0..MaxCalls
Reader == 0
Mode == {"browse", "detail", "edit_title", "edit_fields", "create", "search", "filter", "confirm"}
Search == {"off", "empty", "word"}
Snapshot == [lists : SUBSET List, place : [Task -> SUBSET List]]
Kind == {"load", "delete", "update", "create", "reload"}
\* "done" is a call that has ended: its slot is free.
UICall == [kind : Kind, arg : Task \cup List \cup {0}, step : {"done", "begin", "read", "deliver"},
         snap : Snapshot]

UIState == [mode : Mode, focus : {"tree", "tasks"}, node : List \cup {Top}, tree : Nat \ {0},
            sel : Task \cup {NoTask}, cursor : Nat \ {0}, search : Search, origin : Search,
            filter : BOOLEAN, views : [List -> BOOLEAN], edit : Task \cup {NoTask},
            pending : Task \cup {NoTask}, prompt : Task \cup {NoTask}]

ScreenTypeOK ==
    /\ ui \in UIState
    /\ data \in Snapshot
    /\ store \in Snapshot
    /\ activeList \in List \cup {NoList}
    /\ calls \in [Slot -> UICall]
    /\ changes \in 0..MaxChanges
    /\ dirty \in BOOLEAN
    /\ editing \in BOOLEAN
    /\ about \in Task \cup {NoTask}
    /\ wanted \in [List -> BOOLEAN]

-----------------------------------------------------------------------------
(* Projections of the snapshot. *)

Rank(S, x) == Cardinality({y \in S : y < x})
Ordered(S) == [i \in 1..Cardinality(S) |-> CHOOSE x \in S : Rank(S, x) = i - 1]
Clamp(n, low, high) == IF n < low THEN low ELSE IF n > high THEN high ELSE n

TreeNodes(d) == Ordered({Top} \cup d.lists)

Rows(u, d) ==
    Ordered({t \in Task :
        /\ IF u.node = Top THEN d.place[t] \cap d.lists # {} ELSE u.node \in d.place[t]
        /\ u.search = "word" => t \in Found
        /\ u.filter => t \in Kept})

\* Cursors count from 1, where the code counts from 0.
SelectTaskAt(u, d, n) ==
    LET rows == Rows(u, d)
        at == Clamp(n, 1, Len(rows))
    IN  IF rows = <<>> THEN [u EXCEPT !.cursor = 1, !.sel = NoTask]
                       ELSE [u EXCEPT !.cursor = at, !.sel = rows[at]]

SelectedTask(u, d) ==
    LET rows == Rows(u, d)
    IN  IF u.sel \in Range(rows) THEN u.sel
        ELSE IF u.cursor \in DOMAIN rows THEN rows[u.cursor] ELSE NoTask

\* Broken: a task the snapshot no longer has stays selected.
ReconcileSelectionKept(u, d) ==
    LET nodes == TreeNodes(d)
        at == IF u.node \in Range(nodes) THEN CHOOSE i \in DOMAIN nodes : nodes[i] = u.node
                                         ELSE Clamp(u.tree, 1, Len(nodes))
    IN  [u EXCEPT !.tree = at, !.node = nodes[at]]

\* Broken: the cursor stays where it was, on whatever row is there now.
ReconcileSelectionByCursor(u, d) ==
    LET v == ReconcileSelectionKept(u, d)
    IN  SelectTaskAt(v, d, v.cursor)

\* A snapshot keeps the node and the task selected as long as it has them.
ReconcileSelection(u, d) ==
    LET nodes == TreeNodes(d)
        at == IF u.node \in Range(nodes) THEN CHOOSE i \in DOMAIN nodes : nodes[i] = u.node
                                         ELSE Clamp(u.tree, 1, Len(nodes))
        v == [u EXCEPT !.tree = at, !.node = nodes[at]]
        rows == Rows(v, d)
    IN  IF u.sel \in Range(rows)
        THEN SelectTaskAt(v, d, CHOOSE i \in DOMAIN rows : rows[i] = u.sel)
        ELSE SelectTaskAt([v EXCEPT !.mode = IF @ = "detail" THEN "browse" ELSE @], d, v.cursor)

\* What Update does around every message: the view of the list left is remembered,
\* that of the list entered is restored.
Settle(old, new, d) ==
    LET hadList == old.node # Top
        hasList == new.node # Top
        left == IF hadList THEN [new EXCEPT !.views[old.node] = old.filter] ELSE new
        entered == IF hasList /\ new.node # old.node
                   THEN SelectTaskAt([left EXCEPT !.filter = left.views[new.node]], d, 1)
                   ELSE left
    IN  IF hasList THEN [entered EXCEPT !.views[new.node] = entered.filter] ELSE entered

-----------------------------------------------------------------------------
(* What the store returns. *)

Present == {t \in Task : store.place[t] # {}}

\* All tasks of one list.
ListScope(l) ==
    [store EXCEPT !.place = [t \in Task |-> IF l \in store.place[t] THEN store.place[t] ELSE {}]]

\* The first page of the provider's tasks.
FirstPage ==
    [store EXCEPT !.place = [t \in Task |->
        IF Cardinality({o \in Present : o < t}) < PageSize THEN store.place[t] ELSE {}]]

NoSnapshot == [lists |-> {}, place |-> [t \in Task |-> {}]]
Done == [kind |-> "load", arg |-> 0, step |-> "done", snap |-> NoSnapshot]

\* The first list is selected, or the first row of a tree without lists.
Init ==
    /\ store \in {[lists |-> List, place |-> p] : p \in [Task -> Membership]}
    /\ data = FirstPage
    /\ LET at == IF data.lists = {} THEN 1 ELSE 2
       IN  ui = SelectTaskAt(
                [mode |-> "browse", focus |-> "tree", node |-> TreeNodes(data)[at], tree |-> at,
                 sel |-> NoTask, cursor |-> 1, search |-> "off", origin |-> "off",
                 filter |-> FALSE, views |-> [l \in List |-> FALSE], edit |-> NoTask,
                 pending |-> NoTask, prompt |-> NoTask], data, 1)
    /\ activeList = NoList
    /\ calls = [s \in Slot |-> Done]
    /\ changes = MaxChanges
    /\ dirty = FALSE
    /\ editing = FALSE
    /\ about = NoTask
    /\ wanted = [l \in List |-> FALSE]

-----------------------------------------------------------------------------
(* Keys.  A key leaves the snapshot and the store alone. *)

Shows(u) == ui' = Settle(ui, u, data)

Silent == UNCHANGED calls

\* The command a key returns runs in a goroutine of its own.
Emit(kind, arg) ==
    \E s \in Slot \ {Reader} :
        /\ calls[s].step = "done"
        /\ \A r \in 1..(s - 1) : calls[r].step # "done"
        /\ calls' = [calls EXCEPT ![s] = [Done EXCEPT !.kind = kind, !.arg = arg, !.step = "begin"]]

LoadList(l) == IF l = Top THEN Silent ELSE Emit("load", l)

KeyFrame == UNCHANGED <<data, activeList, store, changes, dirty, editing>>

Browsing(panel) == ui.mode = "browse" /\ ui.focus = panel
Chosen == SelectedTask(ui, data)

MoveTree(delta) ==
    /\ Browsing("tree")
    /\ LET nodes == TreeNodes(data)
           at == Clamp(ui.tree + delta, 1, Len(nodes))
           moved == [ui EXCEPT !.tree = at, !.node = nodes[at]]
       IN  /\ Shows(SelectTaskAt(moved, data, 1))
           /\ IF moved.node # ui.node THEN LoadList(moved.node) ELSE Silent
    /\ KeyFrame
    /\ UNCHANGED <<about, wanted>>

MoveTask(delta) ==
    /\ Browsing("tasks")
    /\ Rows(ui, data) # <<>>
    /\ Shows(SelectTaskAt(ui, data, ui.cursor + delta))
    /\ Silent /\ KeyFrame
    /\ UNCHANGED <<about, wanted>>

\* tab: entering the tasks loads the list, going back does not.
NextPanel ==
    /\ ui.mode = "browse"
    /\ Shows([ui EXCEPT !.focus = IF @ = "tree" THEN "tasks" ELSE "tree"])
    /\ IF ui.focus = "tree" THEN LoadList(ui.node) ELSE Silent
    /\ KeyFrame
    /\ UNCHANGED <<about, wanted>>

\* enter on a task while a document is pending.
OpenDetail ==
    /\ Browsing("tasks")
    /\ editing
    /\ Chosen # NoTask
    /\ Shows([ui EXCEPT !.mode = "detail"])
    /\ Silent /\ KeyFrame
    /\ UNCHANGED <<about, wanted>>

CloseDetail ==
    /\ ui.mode = "detail"
    /\ Shows([ui EXCEPT !.mode = "browse", !.edit = NoTask])
    /\ Silent /\ KeyFrame
    /\ UNCHANGED <<about, wanted>>

\* e in the detail pane copies the task to edit.
BeginDetailEdit ==
    /\ ui.mode = "detail"
    /\ Chosen # NoTask
    /\ Shows([ui EXCEPT !.mode = "edit_fields", !.edit = Chosen])
    /\ about' = Chosen
    /\ Silent /\ KeyFrame
    /\ UNCHANGED wanted

\* e in the tree, the edit command without a title, and e on a task while a document is
\* pending: the prompt starts with the title of the task selected.
BeginEdit ==
    /\ ui.mode = "browse"
    /\ Chosen # NoTask
    /\ Shows([ui EXCEPT !.mode = "edit_title"])
    /\ about' = Chosen
    /\ Silent /\ KeyFrame
    /\ UNCHANGED wanted

BeginCreate ==
    /\ ui.mode = "browse"
    /\ ui.node # Top
    /\ Shows([ui EXCEPT !.mode = "create"])
    /\ Silent /\ KeyFrame
    /\ UNCHANGED <<about, wanted>>

\* The prompt names the task, and the command waits for the answer.
BeginDelete ==
    /\ ui.mode = "browse"
    /\ Chosen # NoTask
    /\ Shows([ui EXCEPT !.mode = "confirm", !.pending = Chosen, !.prompt = Chosen])
    /\ Silent /\ KeyFrame
    /\ UNCHANGED <<about, wanted>>

BeginSearch ==
    /\ ui.mode = "browse"
    /\ Shows(SelectTaskAt([ui EXCEPT !.mode = "search", !.origin = ui.search,
                           !.search = IF @ = "off" THEN "empty" ELSE @], data, 1))
    /\ Silent /\ KeyFrame
    /\ UNCHANGED <<about, wanted>>

\* Every key typed searches at once.
TypeSearch(q) ==
    /\ ui.mode = "search"
    /\ q # "off"
    /\ Shows(SelectTaskAt([ui EXCEPT !.search = q], data, 1))
    /\ Silent /\ KeyFrame
    /\ UNCHANGED <<about, wanted>>

SubmitSearch ==
    /\ ui.mode = "search"
    /\ Shows(SelectTaskAt([ui EXCEPT !.mode = "browse", !.origin = "off",
                           !.search = IF @ = "empty" THEN "off" ELSE @], data, 1))
    /\ Silent /\ KeyFrame
    /\ UNCHANGED <<about, wanted>>

BeginFilter ==
    /\ ui.mode = "browse"
    /\ Shows([ui EXCEPT !.mode = "filter"])
    /\ Silent /\ KeyFrame
    /\ UNCHANGED <<about, wanted>>

\* The user's choice is noted for the list on the screen.
Choose(on) == wanted' = IF ui.node = Top THEN wanted ELSE [wanted EXCEPT ![ui.node] = on]

SubmitFilter(on) ==
    /\ ui.mode = "filter"
    /\ Shows(SelectTaskAt([ui EXCEPT !.mode = "browse", !.filter = on], data, 1))
    /\ Choose(on)
    /\ Silent /\ KeyFrame
    /\ UNCHANGED about

\* esc in browse mode: the search goes first, then the filter.
CancelView ==
    /\ ui.mode = "browse"
    /\ \/ /\ ui.search # "off"
          /\ Shows(SelectTaskAt([ui EXCEPT !.search = "off"], data, 1))
          /\ UNCHANGED wanted
       \/ /\ ui.search = "off"
          /\ ui.filter
          /\ Shows(SelectTaskAt([ui EXCEPT !.filter = FALSE], data, 1))
          /\ Choose(FALSE)
    /\ Silent /\ KeyFrame
    /\ UNCHANGED about

\* esc at any prompt: selection, prompt and pending command are reset.
CancelInput ==
    /\ ui.mode \notin {"browse", "detail"}
    /\ Shows(SelectTaskAt([ui EXCEPT !.mode = "browse", !.edit = NoTask, !.pending = NoTask,
                           !.prompt = NoTask, !.origin = "off",
                           !.search = IF ui.mode = "search" THEN ui.origin ELSE @], data, 1))
    /\ about' = NoTask
    /\ Silent /\ KeyFrame
    /\ UNCHANGED wanted

\* The title goes to the task selected now.
SubmitEditTitle ==
    /\ ui.mode = "edit_title"
    /\ Shows([ui EXCEPT !.mode = "browse"])
    /\ IF Chosen = NoTask THEN Silent ELSE Emit("update", Chosen)
    /\ about' = NoTask
    /\ KeyFrame
    /\ UNCHANGED wanted

\* The fields go to the task copied when the edit began.
SubmitDetailEdit ==
    /\ ui.mode = "edit_fields"
    /\ Shows([ui EXCEPT !.mode = "detail", !.edit = NoTask])
    /\ Emit("update", ui.edit)
    /\ about' = NoTask
    /\ KeyFrame
    /\ UNCHANGED wanted

\* The task is created in the list selected now.
SubmitCreate ==
    /\ ui.mode = "create"
    /\ Shows([ui EXCEPT !.mode = "browse"])
    /\ IF ui.node = Top THEN Silent ELSE Emit("create", ui.node)
    /\ KeyFrame
    /\ UNCHANGED <<about, wanted>>

\* Broken: the task selected now is deleted.
ConfirmDeleteSelected ==
    /\ ui.mode = "confirm"
    /\ Shows([ui EXCEPT !.mode = "browse", !.pending = NoTask, !.prompt = NoTask])
    /\ IF Chosen = NoTask THEN Silent ELSE Emit("delete", Chosen)
    /\ KeyFrame
    /\ UNCHANGED <<about, wanted>>

ConfirmDelete ==
    /\ ui.mode = "confirm"
    /\ Shows([ui EXCEPT !.mode = "browse", !.pending = NoTask, !.prompt = NoTask])
    /\ Emit("delete", ui.pending)
    /\ KeyFrame
    /\ UNCHANGED <<about, wanted>>

Key ==
    \/ \E delta \in {-1, 1} : MoveTree(delta) \/ MoveTask(delta)
    \/ NextPanel \/ OpenDetail \/ CloseDetail \/ BeginDetailEdit \/ BeginEdit
    \/ BeginCreate \/ BeginDelete \/ BeginSearch \/ SubmitSearch \/ BeginFilter
    \/ \E q \in Search : TypeSearch(q)
    \/ \E on \in BOOLEAN : SubmitFilter(on)
    \/ CancelView \/ CancelInput \/ SubmitEditTitle \/ SubmitDetailEdit \/ SubmitCreate
    \/ ConfirmDelete

-----------------------------------------------------------------------------
(* The external editor, on whatever the core shows. *)

EditorFrame == UNCHANGED <<ui, data, activeList, store, changes, dirty, about, wanted>>

\* enter or e on a task.
StartTaskEditor ==
    /\ Browsing("tasks")
    /\ ~editing
    /\ Chosen # NoTask
    /\ editing' = TRUE
    /\ Silent /\ EditorFrame

\* The document is discarded, or it updates the task it names, the one selected.
FinishTaskEditor ==
    /\ editing
    /\ editing' = FALSE
    /\ Silent \/ (Chosen # NoTask /\ Emit("update", Chosen))
    /\ EditorFrame

-----------------------------------------------------------------------------
(* The goroutines. *)

At(s, step) == calls[s].step = step
CallFrame == UNCHANGED <<ui, data, editing, about, wanted>>
SpendChange == changes > 0 /\ changes' = changes - 1

Reads(s, snap) == calls' = [calls EXCEPT ![s] = [@ EXCEPT !.step = "deliver", !.snap = snap]]

\* teaCommand of a cached load notes its list as the one to reload, then reads it.
SetActiveList(s) ==
    /\ At(s, "begin")
    /\ calls[s].kind = "load"
    /\ activeList' = calls[s].arg
    /\ calls' = [calls EXCEPT ![s].step = "read"]
    /\ CallFrame
    /\ UNCHANGED <<store, changes, dirty>>

ReadList(s) ==
    /\ At(s, "read")
    /\ calls[s].kind \in {"load", "reload"}
    /\ Reads(s, IF calls[s].arg = NoList THEN FirstPage ELSE ListScope(calls[s].arg))
    /\ CallFrame
    /\ UNCHANGED <<activeList, store, changes, dirty>>

\* The handler changes the store.  Updating or deleting a task that is gone fails.
Handle(s) ==
    /\ At(s, "begin")
    /\ \/ /\ calls[s].kind = "delete"
          /\ calls[s].arg \in Present
          /\ SpendChange
          /\ store' = [store EXCEPT !.place[calls[s].arg] = {}]
       \/ /\ calls[s].kind = "update"
          /\ calls[s].arg \in Present
          /\ UNCHANGED <<store, changes>>
       \/ /\ calls[s].kind = "create"
          /\ calls[s].arg \in store.lists
          /\ SpendChange
          /\ \E t \in Task \ Present : store' = [store EXCEPT !.place[t] = {calls[s].arg}]
    /\ calls' = [calls EXCEPT ![s].step = "read"]
    /\ CallFrame
    /\ UNCHANGED <<activeList, dirty>>

\* The reply to a change is the first page of all tasks, whatever list is open.
ReadAll(s) ==
    /\ At(s, "read")
    /\ calls[s].kind \in {"delete", "update", "create"}
    /\ Reads(s, FirstPage)
    /\ CallFrame
    /\ UNCHANGED <<activeList, store, changes, dirty>>

\* An error of the handler or of the store: only the status line changes.
CallFails(s) ==
    /\ calls[s].step \in {"begin", "read"}
    /\ calls' = [calls EXCEPT ![s] = Done]
    /\ CallFrame
    /\ UNCHANGED <<activeList, store, changes, dirty>>

\* The event reader takes the active list, and reads it later.
BeginReload ==
    /\ dirty
    /\ At(Reader, "done")
    /\ dirty' = FALSE
    /\ calls' = [calls EXCEPT ![Reader] =
                   [Done EXCEPT !.kind = "reload", !.arg = activeList, !.step = "read"]]
    /\ CallFrame
    /\ UNCHANGED <<activeList, store, changes>>

\* The edit of a title is about the task selected as long as the screen shows it.
StillShown(t) == ui'.node = ui.node /\ t \in Range(Rows(ui', data'))

\* Model.Update handles a snapshot.
ApplySnapshot(s) ==
    /\ At(s, "deliver")
    /\ data' = calls[s].snap
    /\ ui' = Settle(ui, ReconcileSelection(ui, data'), data')
    /\ calls' = [calls EXCEPT ![s] = Done]
    /\ about' = IF ui.mode = "edit_title" /\ ~StillShown(about) THEN NoTask ELSE about
    /\ UNCHANGED <<activeList, store, changes, dirty, editing, wanted>>

\* A pull: a task appears, moves or goes, or a list goes with what was in it only.
Pull ==
    /\ SpendChange
    /\ \/ \E t \in Task, ls \in Membership :
            /\ ls \subseteq store.lists
            /\ ls # store.place[t]
            /\ store' = [store EXCEPT !.place[t] = ls]
       \/ \E l \in store.lists :
            store' = [lists |-> store.lists \ {l},
                      place |-> [t \in Task |-> store.place[t] \ {l}]]
    /\ dirty' = TRUE
    /\ CallFrame
    /\ UNCHANGED <<activeList, calls>>

Goroutine ==
    \/ \E s \in Slot : SetActiveList(s) \/ ReadList(s) \/ Handle(s) \/ ReadAll(s)
                       \/ CallFails(s) \/ ApplySnapshot(s)
    \/ BeginReload
    \/ Pull

Next == Key \/ StartTaskEditor \/ FinishTaskEditor \/ Goroutine
Spec == Init /\ [][Next]_vars

-----------------------------------------------------------------------------
(* What the screen promises. *)

\* The row under the cursor is the selected task, and it is one of the rows shown;
\* with no rows nothing is selected.  What a key acts on is what is highlighted,
\* whatever snapshot, search, filter or list change came in between.
SelectionIsShown ==
    LET rows == Rows(ui, data)
    IN  IF rows = <<>> THEN ui.sel = NoTask
        ELSE ui.cursor \in DOMAIN rows /\ ui.sel = rows[ui.cursor]

\* A list is shown with the filter the user last left it with, however the selection
\* came to it: by a key, or because a snapshot no longer had the list selected before.
FilterIsPerList == ui.node # Top => ui.filter = wanted[ui.node]

Emitted(s, kind) == calls[s].step = "done" /\ calls'[s].step = "begin" /\ calls'[s].kind = kind

\* The task a confirmed deletion removes is the task the prompt named, also when
\* snapshots moved the selection to another row while the prompt was up.
DeleteHitsPromptedTask ==
    [][\A s \in Slot : Emitted(s, "delete") => calls'[s].arg = ui.prompt /\ ui.prompt # NoTask]_vars

\* An edit typed on the screen goes to the task that was selected when it began, although
\* snapshots add, remove and reorder rows under the prompt.  The exception is a title
\* whose task leaves the rows meanwhile: it goes to the row that is selected instead.
EditKeepsTask ==
    [][\A s \in Slot :
          Emitted(s, "update") /\ ui.mode \in {"edit_title", "edit_fields"} /\ ui'.mode # ui.mode
            => \/ calls'[s].arg = about
               \/ ui.mode = "edit_title" /\ about = NoTask]_vars

\* The detail pane never turns to another task under the user's eyes: a snapshot without
\* the task closes it.  (Entering another list at the same time is the exception.)
DetailShowsSameTask ==
    [][ui.mode = "detail" /\ ui'.mode = "detail" /\ ui'.node = ui.node
          => ui'.sel = ui.sel]_vars
=============================================================================
