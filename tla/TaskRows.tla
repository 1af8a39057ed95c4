------------------------------- MODULE TaskRows -------------------------------
(***************************************************************************)
(* The task panel (internal/tui): how the tasks of a snapshot become       *)
(* groups and rows (projection.go), and how keys and snapshots move the    *)
(* cursor over group headers and rows (update.go).                         *)
(*                                                                         *)
(* The selection is kept four times over: the task (sel), the index of its *)
(* row (cursor), the group whose header has the cursor (header, focused,   *)
(* groupCursor), and the scroll offset.  Keys act on sel; the marker is    *)
(* drawn at cursor; the panel shows the lines from offset on.              *)
(*                                                                         *)
(* One list, no search, filter or sort: TaskScreen has those.  A task      *)
(* needs its parent and the value it is grouped by; "separate", "expanded" *)
(* and "collapsed" are the subtask display modes.                          *)
(***************************************************************************)
EXTENDS Integers, Sequences, SequencesExt

CONSTANTS
  Task,        \* task ids, in the order of the snapshot
  Value,       \* values of the grouped field, in the order of the groups
  Height,      \* heights of the panel, in lines of tasks and headers
  MaxChanges   \* bound: snapshots that differ

NoTask == 0
NoValue == 0

ASSUME RowsAssumption ==
  /\ Task \subseteq Nat \ {NoTask} /\ IsFiniteSet(Task)
  /\ Value \subseteq Nat \ {NoValue} /\ IsFiniteSet(Value)
  /\ Height \subseteq Nat \ {0}
  /\ MaxChanges \in Nat

VARIABLES ui, data, changes

vars == <<ui, data, changes>>

Display == {"separate", "expanded", "collapsed"}

\* A task's parent may not be in the snapshot.  Parents that form a cycle are
\* left out: when one of its tasks is collapsed, all of them disappear.
Data == [tasks: SUBSET Task, parent: [Task -> Task \cup {NoTask}],
         value: [Task -> Value]]

\* The cursor's four homes, the display and the panel.  over is "separate" for
\* a task without an override.
UIState == [grouped: BOOLEAN, display: Display, over: [Task -> Display],
            closed: SUBSET Value, header: BOOLEAN, headerTask: Task \cup {NoTask},
            focused: Value \cup {NoValue}, groupCursor: Nat \ {0}, cursor: Int,
            sel: Task \cup {NoTask}, offset: Nat, focus: {"tree", "tasks"},
            height: Height, entered: BOOLEAN]

RowsTypeOK == ui \in UIState /\ data \in Data /\ changes \in 0..MaxChanges

-----------------------------------------------------------------------------
(* projection.go *)

\* The members of a set in a given order.
Listed(S, before(_, _)) ==
  CHOOSE s \in [1..Cardinality(S) -> S] :
    \A i \in DOMAIN s : \A j \in 1..(i - 1) : before(s[j], s[i])

\* One sequence after another; Lead is how many elements come before the i-th.
Lead(ss, i) == Cardinality(UNION {{k} \X DOMAIN ss[k] : k \in 1..(i - 1)})
Flat(ss) ==
  [n \in 1..Lead(ss, Len(ss) + 1) |->
     LET i == CHOOSE i \in DOMAIN ss : Lead(ss, i) < n /\ n =< Lead(ss, i + 1)
     IN ss[i][n - Lead(ss, i)]]

Clamp(n, low, high) == IF n < low THEN low ELSE IF n > high THEN high ELSE n
At(s, x) == IF x \in Range(s) THEN CHOOSE i \in DOMAIN s : s[i] = x ELSE 0

Loaded(d, t) == t \in d.tasks
Parent(d, t) == IF Loaded(d, d.parent[t]) THEN d.parent[t] ELSE NoTask

SubtaskDisplayFor(u, t) ==
  IF t \in Task /\ u.over[t] # "separate" THEN u.over[t] ELSE u.display

Acyclic(d) == \A S \in SUBSET Task : S # {} => \E u \in S : d.parent[u] \notin S

Forest == {d \in Data : Acyclic(d)}

\* The tasks above each task, the nearest one that is not loaded included: the
\* least set that has its parent and the parents of its loaded tasks.
Above ==
  [d \in Forest |-> [t \in Task |->
     {a \in Task : \A S \in SUBSET Task :
        (\A b \in {t} \cup (S \cap d.tasks) : d.parent[b] \in S \cup {NoTask}) => a \in S}]]

\* A task and the loaded tasks above it.
Line(d, t) == {t} \cup (Above[d][t] \cap d.tasks)

\* A task is grouped with the topmost loaded task above it.
GroupingTask ==
  [d \in Forest |-> [t \in Task |-> CHOOSE a \in Line(d, t) : ~Loaded(d, d.parent[a])]]

\* Broken: a task is grouped by its own value.
GroupValueOwn(d, t) == d.value[t]

GroupValue(d, t) == d.value[GroupingTask[d][t]]

\* Each row is followed by the rows below it, and rows with the same parent,
\* or without one, follow each other in the order of the snapshot.
TaskTree ==
  [d \in Forest |-> {r \in d.tasks \X d.tasks :
     /\ r[1] # r[2]
     /\ \/ r[1] \in Line(d, r[2])
        \/ \E a \in Line(d, r[1]), b \in Line(d, r[2]) :
             a < b /\ Parent(d, a) = Parent(d, b)}]

\* A row is left out when a task above it is collapsed.
VisibleOrphan(u, d, t) == \A a \in Above[d][t] : SubtaskDisplayFor(u, a) # "collapsed"

\* A group has whole families: the parent of a row is a row or is not loaded.
Arrange(rows, u, d) ==
  LET tree == TaskTree[d]
  IN Listed({t \in rows : VisibleOrphan(u, d, t)}, LAMBDA x, y : <<x, y>> \in tree)

Plain(u) == ~u.grouped /\ u.display = "separate"
            /\ \A t \in Task : u.over[t] = "separate"

Members(u, d, v) == {t \in d.tasks : u.grouped => GroupValue(d, t) = v}

GroupRows(u, d, v) ==
  IF Plain(u) THEN Listed(d.tasks, LAMBDA x, y : x < y)
              ELSE Arrange(Members(u, d, v), u, d)

\* The groups that have rows: [key, rows].
Groups(u, d) ==
  LET keys == IF u.grouped THEN Value ELSE {NoValue}
      groups == {[key |-> v, rows |-> GroupRows(u, d, v)] : v \in keys}
  IN Listed({g \in groups : g.rows # <<>>}, LAMBDA g, h : g.key < h.key)

Closed(u, g) == g.key \in u.closed

Shown(u, gs) == Flat([i \in DOMAIN gs |-> IF Closed(u, gs[i]) THEN <<>> ELSE gs[i].rows])
VisibleTasks(u, d) == Shown(u, Groups(u, d))

GroupOf(gs, t) ==
  IF \E i \in DOMAIN gs : t \in Range(gs[i].rows)
  THEN CHOOSE i \in DOMAIN gs : t \in Range(gs[i].rows) ELSE 0

\* The lines of the panel: headers (negative keys) and rows.
Lines(u, d) ==
  LET gs == Groups(u, d)
      Block(g) == (IF u.grouped THEN <<-g.key>> ELSE <<>>)
                  \o (IF Closed(u, g) THEN <<>> ELSE g.rows)
  IN Flat([i \in DOMAIN gs |-> Block(gs[i])])

-----------------------------------------------------------------------------
(* update.go: the cursor.  Row indices count from 0, -1 is no row. *)

NoHeader(u) == [u EXCEPT !.header = FALSE, !.headerTask = NoTask]

SelectTaskAt(u, d, n) ==
  LET gs == Groups(u, d)
      rows == Shown(u, gs)
      at == Clamp(n, 0, Len(rows) - 1)
      g == GroupOf(gs, rows[at + 1])
  IN IF rows = <<>> THEN [NoHeader(u) EXCEPT !.cursor = 0, !.sel = NoTask]
     ELSE [NoHeader(u) EXCEPT !.cursor = at, !.sel = rows[at + 1],
                              !.focused = NoValue,
                              !.groupCursor = IF u.grouped THEN g ELSE @]

SelectTaskRef(u, d, t) ==
  LET rows == VisibleTasks(u, d)
  IN IF rows = <<>> THEN [u EXCEPT !.cursor = 0]
     ELSE SelectTaskAt(u, d, IF t \in Range(rows) THEN At(rows, t) - 1 ELSE 0)

\* What selectedTask returns: the task that a key acts on.
SelectedTask(u, d) ==
  LET gs == Groups(u, d)
      rows == Shown(u, gs)
      focus == At([i \in DOMAIN gs |-> gs[i].key], u.focused)
      current == IF focus # 0 THEN focus
                 ELSE IF u.groupCursor =< Len(gs) THEN u.groupCursor ELSE 0
  IN IF u.header
     THEN IF current # 0 /\ u.sel \in Range(gs[current].rows) THEN u.sel ELSE NoTask
     ELSE IF GroupOf(gs, u.sel) # 0 THEN u.sel
     ELSE IF u.cursor + 1 \in DOMAIN rows THEN rows[u.cursor + 1] ELSE NoTask

CurrentGroup(u, gs) ==
  LET focus == At([i \in DOMAIN gs |-> gs[i].key], u.focused)
  IN IF ~u.header THEN GroupOf(gs, u.sel)
     ELSE IF focus # 0 THEN focus
     ELSE IF u.groupCursor =< Len(gs) THEN u.groupCursor ELSE 0

FocusHeader(u, gs, i, preserve) ==
  [u EXCEPT !.groupCursor = i, !.header = TRUE, !.headerTask = preserve,
            !.focused = gs[i].key, !.cursor = -1,
            !.sel = IF preserve = NoTask THEN NoTask ELSE @]

\* How many rows are shown above group i.
RowStart(u, gs, i) ==
  Len(Shown(u, SubSeq(gs, 1, i - 1)))

LastRow(u, d, gs, i) ==
  IF Closed(u, gs[i]) THEN FocusHeader(u, gs, i, NoTask)
  ELSE SelectTaskAt(u, d, RowStart(u, gs, i) + Len(gs[i].rows) - 1)

\* moveGroupedCursor: a header and each of its rows are stops of their own.
MoveGrouped(u, d, down) ==
  LET gs == Groups(u, d)
      g == CurrentGroup(u, gs)
      local == At(gs[g].rows, u.sel)
      NextGroup == IF g < Len(gs) THEN FocusHeader(u, gs, g + 1, NoTask) ELSE u
  IN CASE gs = <<>> -> u
       [] gs # <<>> /\ g = 0 -> FocusHeader(u, gs, 1, NoTask)
       [] g # 0 /\ u.header /\ down ->
            IF Closed(u, gs[g]) THEN NextGroup
            ELSE SelectTaskAt(u, d, RowStart(u, gs, g))
       [] g # 0 /\ u.header /\ ~down ->
            IF g = 1 THEN u ELSE LastRow(u, d, gs, g - 1)
       [] g # 0 /\ ~u.header /\ Closed(u, gs[g]) -> FocusHeader(u, gs, g, u.sel)
       [] g # 0 /\ ~u.header /\ ~Closed(u, gs[g]) /\ down ->
            IF local < Len(gs[g].rows)
            THEN SelectTaskAt(u, d, RowStart(u, gs, g) + local) ELSE NextGroup
       [] g # 0 /\ ~u.header /\ ~Closed(u, gs[g]) /\ ~down ->
            IF local > 1 THEN SelectTaskAt(u, d, RowStart(u, gs, g) + local - 2)
            ELSE FocusHeader(u, gs, g, NoTask)

\* moveCursor in the task panel.
MoveCursor(u, d, down) ==
  LET rows == VisibleTasks(u, d)
      at == Clamp(u.cursor + (IF down THEN 1 ELSE -1), 0, Len(rows) - 1)
  IN IF u.grouped THEN MoveGrouped(u, d, down)
     ELSE IF rows = <<>> THEN u
     ELSE [u EXCEPT !.cursor = at, !.sel = rows[at + 1]]

MoveToEdge(u, d, last) ==
  LET gs == Groups(u, d)
      rows == Shown(u, gs)
  IN IF u.grouped
     THEN IF gs = <<>> THEN u
          ELSE IF last THEN LastRow(u, d, gs, Len(gs))
          ELSE FocusHeader(u, gs, 1, NoTask)
     ELSE IF rows = <<>> THEN u
     ELSE SelectTaskAt(u, d, IF last THEN Len(rows) - 1 ELSE 0)

SetSubtaskDisplay(u, d, mode) ==
  SelectTaskRef([u EXCEPT !.display = mode, !.offset = 0,
                          !.over = [t \in Task |-> "separate"]], d, u.sel)

ToggleSubtasks(u, t) ==
  [u EXCEPT !.over[t] = IF SubtaskDisplayFor(u, t) = "expanded" THEN "collapsed"
                                                               ELSE "expanded"]

\* The task stays selected while its group is collapsed.
Collapse(u, gs, g, t) ==
  [u EXCEPT !.closed = @ \cup {gs[g].key}, !.groupCursor = g, !.header = TRUE,
            !.headerTask = t, !.focused = gs[g].key, !.cursor = -1, !.offset = 0]

Expand(u, d, gs, g, t) ==
  SelectTaskRef([NoHeader(u) EXCEPT !.closed = @ \ {gs[g].key}, !.focused = NoValue],
                d, IF t = NoTask THEN Head(gs[g].rows) ELSE t)

\* toggleTaskGroup: the subtasks of the selected task t, or else its group.
ToggleGroup(u, d, gs, t) ==
  LET chosen == IF ~u.header THEN t
                ELSE IF u.headerTask # NoTask THEN u.headerTask ELSE u.sel
      inside == GroupOf(gs, chosen)
      focus == At([i \in DOMAIN gs |-> gs[i].key], u.focused)
      g == IF u.header /\ CurrentGroup(u, gs) # 0 THEN CurrentGroup(u, gs)
           ELSE IF inside # 0 THEN inside ELSE focus
  IN IF ~u.header /\ \E k \in d.tasks : t # NoTask /\ d.parent[k] = t
     THEN ToggleSubtasks(u, t)
     ELSE IF ~u.grouped \/ g = 0 THEN u
     ELSE IF Closed(u, gs[g]) THEN Expand(u, d, gs, g, chosen)
     ELSE Collapse(u, gs, g, chosen)

SetAllExpanded(u, d, expanded) ==
  LET gs == Groups(u, d)
      keys == {gs[i].key : i \in DOMAIN gs}
      t == IF u.header /\ u.headerTask # NoTask THEN u.headerTask ELSE u.sel
      g == IF GroupOf(gs, t) # 0 THEN GroupOf(gs, t)
           ELSE Clamp(u.groupCursor, 1, Len(gs))
  IN IF ~u.grouped
     THEN SetSubtaskDisplay(u, d, IF expanded THEN "expanded" ELSE "collapsed")
     ELSE IF gs = <<>> THEN u
     ELSE IF expanded
     THEN SelectTaskRef([NoHeader(u) EXCEPT !.closed = @ \ keys,
                                            !.focused = NoValue], d, t)
     ELSE FocusHeader([u EXCEPT !.closed = @ \cup keys], gs, g, t)

ApplyGrouping(u, d, grouped) ==
  SelectTaskAt([NoHeader(u) EXCEPT !.grouped = grouped, !.offset = 0, !.cursor = 0,
                  !.sel = NoTask, !.groupCursor = 1,
                  !.focused = IF u.grouped # grouped THEN NoValue ELSE @], d, 0)

\* Broken: a selected task in a collapsed group is not looked for.
ReconcileSelectionShown(u, d) ==
  IF u.sel \in Range(VisibleTasks(u, d))
  THEN SelectTaskAt(u, d, At(VisibleTasks(u, d), u.sel) - 1) ELSE u

\* reconcileSelection: a snapshot keeps the task selected if it has it.
ReconcileSelection(u, d) ==
  LET gs == Groups(u, d)
      rows == Shown(u, gs)
      g == GroupOf(gs, u.sel)
  IN IF u.sel \in Range(rows) THEN SelectTaskAt(u, d, At(rows, u.sel) - 1)
     ELSE IF g # 0 THEN FocusHeader(u, gs, g, u.sel)
     ELSE SelectTaskAt(u, d, u.cursor)

\* The line that has the cursor, counted from 0; -1 when no line has it.
CursorLine(u, d) ==
  LET gs == Groups(u, d) IN
  IF ~u.grouped THEN u.cursor
  ELSE IF u.header
  THEN IF CurrentGroup(u, gs) = 0 THEN -1
       ELSE At(Lines(u, d), -gs[CurrentGroup(u, gs)].key) - 1
  ELSE At(Lines(u, d), u.sel) - 1

KeepCursorVisible(cursor, offset, height) ==
  LET up == IF cursor < offset THEN cursor ELSE offset
      fit == IF cursor >= up + height THEN cursor - height + 1 ELSE up
  IN IF fit < 0 THEN 0 ELSE fit

\* A panel without focus follows the row index, not the line.
KeepVisible(u, d) ==
  LET line == IF u.focus = "tasks" THEN CursorLine(u, d) ELSE u.cursor
  IN [u EXCEPT !.offset = IF line = -1 THEN 0
                          ELSE KeepCursorVisible(line, @, u.height)]

-----------------------------------------------------------------------------
Init ==
  /\ data \in Data /\ Acyclic(data)
  /\ changes = MaxChanges
  /\ \E h \in Height, m \in Display :
       LET u == [grouped |-> FALSE, display |-> m,
                 over |-> [t \in Task |-> "separate"], closed |-> {},
                 header |-> FALSE, headerTask |-> NoTask, focused |-> NoValue,
                 groupCursor |-> 1, cursor |-> 0, sel |-> NoTask, offset |-> 0,
                 focus |-> "tasks", height |-> h, entered |-> FALSE]
       IN ui = KeepVisible(SelectTaskAt(u, data, 0), data)

Shows(u) ==
  /\ \E new \in {[u EXCEPT !.entered = FALSE]} : ui' = KeepVisible(new, data)
  /\ UNCHANGED <<data, changes>>

InPanel == ui.focus = "tasks"

Move(down) == InPanel /\ Shows(MoveCursor(ui, data, down))
Edge(last) == InPanel /\ Shows(MoveToEdge(ui, data, last))
Toggle ==
  /\ InPanel
  /\ \E gs \in {Groups(ui, data)}, t \in {SelectedTask(ui, data)} :
       Shows(ToggleGroup(ui, data, gs, t))
ExpandAll(expanded) == InPanel /\ Shows(SetAllExpanded(ui, data, expanded))
GroupBy(grouped) == Shows(ApplyGrouping(ui, data, grouped))
ShowSubtasks(mode) == Shows(SetSubtaskDisplay(ui, data, mode))
LeavePanel == InPanel /\ Shows([ui EXCEPT !.focus = "tree"])

\* nextPanel returns before updateBrowse scrolls the panel it enters.
EnterPanel ==
  /\ ~InPanel
  /\ ui' = [ui EXCEPT !.focus = "tasks", !.entered = TRUE]
  /\ UNCHANGED <<data, changes>>

Resize(h) == Shows([ui EXCEPT !.height = h])

\* A task appears, goes, moves to another group or under another parent.
Changed(d) ==
  {[d EXCEPT !.tasks = IF t \in @ THEN @ \ {t} ELSE @ \cup {t}] : t \in Task}
  \cup {[d EXCEPT !.value[t] = v] : t \in Task, v \in Value}
  \cup {[d EXCEPT !.parent[t] = p] : t \in Task, p \in Task \cup {NoTask}}

Snapshot ==
  /\ changes > 0
  /\ changes' = changes - 1
  /\ \E d \in Changed(data) \ {data} :
       /\ Acyclic(d)
       /\ data' = d
       /\ \E u \in {ReconcileSelection([ui EXCEPT !.entered = FALSE], d)} :
            ui' = KeepVisible(u, d)

Next ==
  \/ \E b \in BOOLEAN : Move(b) \/ Edge(b) \/ ExpandAll(b) \/ GroupBy(b)
  \/ Toggle
  \/ \E m \in Display : ShowSubtasks(m)
  \/ LeavePanel \/ EnterPanel
  \/ \E h \in Height : Resize(h)
  \/ Snapshot

Spec == Init /\ [][Next]_vars

-----------------------------------------------------------------------------
\* The marker stands at the row of the task that keys act on, and at no row
\* while a header has the cursor: what the user sees marked is what delete,
\* complete or track will hit.  The exception is a plain list in which a
\* task's subtasks were toggled: see TogglesOnlyItsTask.
MarkIsTarget ==
  LET rows == VisibleTasks(ui, data) IN
  ui.grouped \/ ui.display # "separate" \/ Plain(ui) =>
  IF rows = <<>> THEN ui.header \/ SelectedTask(ui, data) = NoTask
  ELSE IF ui.header THEN ui.cursor = -1
  ELSE /\ ui.cursor + 1 \in DOMAIN rows
       /\ rows[ui.cursor + 1] = SelectedTask(ui, data)

\* The line with the cursor is one of those the panel shows, whatever was
\* collapsed, regrouped, resized or loaded; except for the moment between
\* entering the panel and the next key or snapshot.
CursorIsOnScreen ==
  LET line == CursorLine(ui, data) IN
  InPanel /\ ~ui.entered /\ line >= 0 =>
    ui.offset =< line /\ line < ui.offset + ui.height

\* Each line is a stop: a movement goes to the next line, over headers and
\* rows alike, and stops at the ends.
MovesByOne ==
  LET at == CursorLine(ui, data)
      last == Len(Lines(ui, data)) - 1
  IN at \in 0..last => \A down \in BOOLEAN :
       CursorLine(MoveCursor(ui, data, down), data) =
         Clamp(at + (IF down THEN 1 ELSE -1), 0, last)

\* Every loaded task whose parents are loaded has a line, or
\* stands under one that can be opened: the header of its collapsed group or a
\* task of its group whose subtasks are collapsed.  No task has two lines.
NothingIsLost ==
  LET gs == Groups(ui, data) IN
  /\ \A t \in data.tasks : Above[data][t] \subseteq data.tasks =>
       \/ GroupOf(gs, t) # 0
       \/ \E a \in Above[data][t], i \in DOMAIN gs :
            /\ a \in Range(gs[i].rows)
            /\ ui.grouped => gs[i].key = GroupValue(data, t)
            /\ SubtaskDisplayFor(ui, a) = "collapsed"
  /\ IsInjective(Lines(ui, data))

\* README: "press space to expand or collapse just that task's subtasks".
\* The lines above the task stay as they are.
TogglesOnlyItsTask ==
  [][\A t \in Task :
       ui'.over[t] # ui.over[t] /\ ui'.over[t] # "separate" =>
         LET at == At(Lines(ui, data), t) IN
         SubSeq(Lines(ui, data), 1, at) = SubSeq(Lines(ui, data)', 1, at)]_vars
=============================================================================
