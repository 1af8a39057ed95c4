----------------------------- MODULE TaskEditor -----------------------------
(***************************************************************************)
(* A task edited as a document in the user's text editor: `enter` or `e`   *)
(* on a task renders every field into a file, the program waits for the    *)
(* editor to end, and what was saved is parsed over the task that is       *)
(* selected by then and sent as an update of all its fields.  Meanwhile    *)
(* pulls and other commands change the rows of the store, and snapshots of *)
(* them reach the screen in their own time.                                *)
(*                                                                         *)
(* A task has a text (title, description, assignee and priority are        *)
(* handled alike), a status the list may restrict, and a due date, which   *)
(* may be absent.  The fetch that `enter` asks for is one of the pulls.    *)
(***************************************************************************)
EXTENDS Naturals, Sequences, SequencesExt

CONSTANTS
  Item,       \* task ids of the list on the screen
  Text, Status, Due,
  NoDue,      \* no due date
  NoItem,
  Malformed,  \* a file that is no document
  NoEditor,   \* no document is open
  MaxPulls,   \* bound: changes others make to the tasks
  MaxEdits    \* bound: documents opened

ASSUME EditorAssumption == NoItem \notin Item /\ MaxPulls \in Nat /\ MaxEdits \in Nat

VARIABLES
  stored,   \* rows of the store, and the statuses cached for the list
  reading,  \* a snapshot on its way to the screen
  onScreen, \* the snapshot the screen shows
  picked,   \* the selected task
  editor,   \* the document that is open
  sent,     \* update commands not carried out yet
  pulls, edits

editorVars == <<stored, reading, onScreen, picked, editor, sent, pulls, edits>>

\* The fields of a document are its lines: a line the user removes is missing.
Content == [text : Text, status : Status, due : Due \cup {NoDue}]
Field == {"text", "status", "due"}
ItemRows == UNION {[shown -> Content] : shown \in SUBSET Item}
\* The statuses a list is known to have; none known allows any.
EditorOptions == SUBSET Status
ShownSnapshot == [rows : ItemRows, statuses : EditorOptions]

------------------------------------------------------------------------------
(* The document.                                                              *)

RenderTaskDocument(task, row) ==
  [line \in {"id"} \cup Field |-> IF line = "id" THEN task ELSE row[line]]

\* What the user may save: other values, a line less, or no document at all.
\* The id line is removed or left alone.
Saved(document) ==
  {Malformed} \cup
  {[line \in ({"id"} \cup Field) \ {missing} |-> IF line = "id" THEN document.id ELSE body[line]] :
     missing \in {"none", "id", "status", "due"}, body \in Content}

Edited(document, original) ==
  {f \in Field \cap DOMAIN document : document[f] # original[f]}

\* ParseTaskDocumentWithOptions refuses a document that names another task or
\* a status the list is known not to have; a missing line leaves the field of
\* the row as it is.
StatusAllowed(document, statuses) ==
  "status" \in DOMAIN document /\ statuses # {} => document.status \in statuses
\* Mutant: the identity is not compared.
ParsesForAnyTask(document, task, statuses) ==
  document # Malformed /\ StatusAllowed(document, statuses)
Parses(document, task, statuses) ==
  /\ document # Malformed /\ StatusAllowed(document, statuses)
  /\ "id" \in DOMAIN document => document.id = task
ParseTaskDocument(document, row) ==
  [f \in Field |-> IF f \in DOMAIN document THEN document[f] ELSE row[f]]

\* An absent due date is sent as an order to clear it.  "from" is the document it
\* came from, kept for the properties.
UpdateCommand(task, to, from) ==
  [task |-> task, text |-> to.text, status |-> to.status, due |-> to.due,
   clear |-> to.due = NoDue, from |-> from]

\* The patch of such a command: every field, and the due date unless absent.
Patched(row, c) ==
  [text |-> c.text, status |-> c.status,
   due |-> IF c.clear THEN NoDue ELSE IF c.due # NoDue THEN c.due ELSE row.due]

------------------------------------------------------------------------------
(* The screen.                                                                *)

\* startTaskEditor
StartTaskEditor ==
  /\ editor = NoEditor /\ picked # NoItem /\ edits < MaxEdits
  /\ LET document == RenderTaskDocument(picked, onScreen.rows[picked]) IN
     editor' = [original |-> document, buffer |-> document]
  /\ edits' = edits + 1
  /\ UNCHANGED <<stored, reading, onScreen, picked, sent, pulls>>

\* The user saves the file; the editor stays open.
Save ==
  /\ editor # NoEditor /\ editor.buffer = editor.original
  /\ \E document \in Saved(editor.original) : editor' = [editor EXCEPT !.buffer = document]
  /\ UNCHANGED <<stored, reading, onScreen, picked, sent, pulls, edits>>

\* What an ended editor left is taken up when it was changed, a task is still
\* selected, it parses, and it differs from that task's row by now.
TakenUp(e) ==
  /\ e.buffer # e.original
  /\ picked # NoItem /\ Parses(e.buffer, picked, onScreen.statuses)
  /\ ParseTaskDocument(e.buffer, onScreen.rows[picked]) # onScreen.rows[picked]

\* finishTaskEditor
FinishTaskEditor ==
  /\ editor # NoEditor
  /\ \E failed \in BOOLEAN :
       sent' = IF ~failed /\ TakenUp(editor)
                 THEN Append(sent, UpdateCommand(picked,
                        ParseTaskDocument(editor.buffer, onScreen.rows[picked]), editor))
                 ELSE sent
  /\ editor' = NoEditor
  /\ UNCHANGED <<stored, reading, onScreen, picked, pulls, edits>>

\* The editor has the terminal: the cursor moves only while it is closed.
MoveSelection ==
  /\ editor = NoEditor /\ picked # NoItem
  /\ picked' \in DOMAIN onScreen.rows
  /\ UNCHANGED <<stored, reading, onScreen, editor, sent, pulls, edits>>

\* A snapshot keeps the selected task while it is shown, else selects another.
ApplySnapshot ==
  /\ reading # <<>>
  /\ onScreen' = Head(reading) /\ reading' = <<>>
  /\ LET shown == DOMAIN Head(reading).rows IN
     IF picked \in shown THEN UNCHANGED picked
     ELSE picked' \in IF shown = {} THEN {NoItem} ELSE shown
  /\ UNCHANGED <<stored, editor, sent, pulls, edits>>

------------------------------------------------------------------------------
(* The store.                                                                 *)

\* A view of the store, as the screen's snapshot.
ReadSnapshot ==
  /\ reading = <<>> /\ stored # onScreen
  /\ reading' = <<stored>>
  /\ UNCHANGED <<stored, onScreen, picked, editor, sent, pulls, edits>>

\* A pull, a fetch or another command changes a row, removes it or brings it
\* back, or replaces the statuses of the list.
Pull ==
  /\ pulls < MaxPulls /\ pulls' = pulls + 1
  /\ \/ \E task \in Item, row \in Content :
          stored' = [stored EXCEPT !.rows =
            [t \in DOMAIN @ \cup {task} |-> IF t = task THEN row ELSE @[t]]]
     \/ \E task \in DOMAIN stored.rows :
          stored' = [stored EXCEPT !.rows = [t \in DOMAIN @ \ {task} |-> @[t]]]
     \/ \E statuses \in EditorOptions : stored' = [stored EXCEPT !.statuses = statuses]
  /\ UNCHANGED <<reading, onScreen, picked, editor, sent, edits>>

\* The service patches the row of a command that is carried out, or finds none;
\* commands run in goroutines of their own, in any order.
Execute(i) ==
  /\ LET c == sent[i] IN
     stored' = IF c.task \in DOMAIN stored.rows
                 THEN [stored EXCEPT !.rows[c.task] = Patched(@, c)] ELSE stored
  /\ sent' = RemoveAt(sent, i)
  /\ UNCHANGED <<reading, onScreen, picked, editor, pulls, edits>>

EditorInit ==
  /\ stored \in [rows : [Item -> Content], statuses : {{}}]
  /\ reading = <<>> /\ onScreen = stored
  /\ picked \in Item
  /\ editor = NoEditor /\ sent = <<>> /\ pulls = 0 /\ edits = 0

EditorNext ==
  \/ StartTaskEditor \/ Save \/ FinishTaskEditor \/ MoveSelection
  \/ ReadSnapshot \/ ApplySnapshot \/ Pull
  \/ \E i \in DOMAIN sent : Execute(i)

EditorSpec == EditorInit /\ [][EditorNext]_editorVars

------------------------------------------------------------------------------
EditorTypeOK ==
  /\ stored \in ShownSnapshot /\ onScreen \in ShownSnapshot
  /\ Len(reading) <= 1 /\ \A i \in DOMAIN reading : reading[i] \in ShownSnapshot
  /\ picked \in DOMAIN onScreen.rows \cup {NoItem}
  /\ picked = NoItem <=> onScreen.rows = <<>>
  /\ pulls \in 0..MaxPulls /\ edits \in 0..MaxEdits

\* Whatever snapshots do to the selection while the editor has the terminal, an
\* update goes to the task its document names.  (A document whose id line was
\* removed goes to the task selected by then.)
EditReachesItsTask ==
  \A i \in DOMAIN sent :
    "id" \in DOMAIN sent[i].from.buffer => sent[i].task = sent[i].from.original.id

\* A document that was only looked at changes nothing, although the row may no
\* longer be the one it was rendered from: every update has a reason in a
\* field the user edited or a line the user removed.
OnlyEditsAreSent ==
  \A i \in DOMAIN sent :
    LET e == sent[i].from IN
    Edited(e.buffer, e.original) # {} \/ DOMAIN e.buffer # DOMAIN e.original

\* Carrying an update out leaves every field the user edited as the document has
\* it, a due date that was cleared included.
EditsLand ==
  [][\A i \in DOMAIN sent :
       LET c == sent[i] IN
       sent' = RemoveAt(sent, i) /\ c.task \in DOMAIN stored.rows =>
         \E j \in DOMAIN sent : sent' = RemoveAt(sent, j) /\
           \A f \in Edited(sent[j].from.buffer, sent[j].from.original) :
             stored'.rows[sent[j].task][f] = sent[j].from.buffer[f]]_editorVars

\* Refuted by TLC: an update leaves alone what the user left alone.  The
\* document holds every field as it was when the editor opened.
OthersKeepTheirChanges ==
  [][Len(sent') > Len(sent) =>
       LET c == Last(sent') IN
       \A f \in Field \ Edited(c.from.buffer, c.from.original) :
         c[f] = onScreen.rows[c.task][f]]_editorVars
=============================================================================
