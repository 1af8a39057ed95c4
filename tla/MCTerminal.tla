----------------------------- MODULE MCTerminal ------------------------------
(***************************************************************************)
(* What the user does at the terminal.  The parts share no state, so a     *)
(* behaviour follows one of them:                                          *)
(*                                                                         *)
(*   "rows"    the rows of the task panel: three tasks in two groups, a    *)
(*             pair and a single, which a snapshot can make one family;    *)
(*   "query"   the filter prompt;                                          *)
(*   "views"   the views of two lists, over quits and starts;              *)
(*   "editor"  two tasks edited as documents.                              *)
(***************************************************************************)
EXTENDS TaskRows, TaskQuery, ListViews, TaskEditor

CONSTANTS t1, t2

VARIABLE part

MCBegins == [f \in Fragments |-> CASE f = "o" -> {"or", "open"}
                                   [] f = "s" -> {"status"}
                                   [] OTHER -> {f}]

\* The panel starts with every task; for the other parts it is empty.
MCData ==
    IF part = "rows"
    THEN {[tasks |-> Task, parent |-> <<0, 1, 0>>, value |-> <<1, 2, 1>>]}
    ELSE {[tasks |-> {}, parent |-> <<0, 1, 2>>, value |-> <<1, 2, 1>>]}

RowsInit ==
    /\ data \in MCData
    /\ Init
    /\ ui.display = "separate"
    /\ part # "rows" => ui.height = 2

\* The tasks in the editor are alike, with a due date or without.
DocumentsInit ==
    /\ EditorInit
    /\ picked = t1
    /\ \E due \in {1, NoDue} :
         /\ stored.rows = [t \in Item |-> [text |-> 1, status |-> "open", due |-> due]]
         /\ part # "editor" => due = NoDue

TerminalInit ==
    /\ part \in {"rows", "query", "views", "editor"}
    /\ RowsInit /\ QueryInit /\ ViewsInit /\ DocumentsInit

TerminalNext ==
    /\ UNCHANGED part
    /\ \/ part = "rows" /\ Next /\ UNCHANGED <<prompt, viewVars, editorVars>>
       \/ part = "query" /\ QueryNext /\ UNCHANGED <<vars, viewVars, editorVars>>
       \/ part = "views" /\ ViewsNext /\ UNCHANGED <<vars, prompt, editorVars>>
       \/ part = "editor" /\ EditorNext /\ UNCHANGED <<vars, prompt, viewVars>>

TerminalSpec ==
    TerminalInit /\ [][TerminalNext]_<<part, vars, prompt, viewVars, editorVars>>
==============================================================================
