----------------------------- MODULE TaskService -----------------------------
(***************************************************************************)
(* The use cases of the application service: create, edit, complete, move, *)
(* add to a list, remove from one, delete, copy and transfer.  The user    *)
(* interface runs every command in a goroutine of its own.  A command      *)
(* loads the task, decides on what it loaded, and writes later: the whole  *)
(* row, in a transaction that also queues the operation of a remote task.  *)
(*                                                                         *)
(* Only commands write here; what the sync worker writes to a row is in    *)
(* TaskReplica and TaskCreation.                                           *)
(***************************************************************************)
EXTENDS Naturals, FiniteSets, FiniteSetsExt

CONSTANTS
  Caller,       \* goroutines that run commands
  ProviderOf,   \* lists (numbers, in the order of their ids) -> provider
  Local,        \* the provider that is never synchronised
  Item,         \* what the user thinks of as one task, whatever row holds it
  Title,        \* values of the edited fields
  NoRow,        \* the state of an identity no row has
  MaxTasks,     \* bound: identities
  MaxCommands   \* bound: commands

ListId == DOMAIN ProviderOf
Provider == {ProviderOf[l] : l \in ListId}
TaskRow == 1..MaxTasks

ASSUME ServiceAssumption ==
  /\ ListId \subseteq Nat /\ IsFiniteSet(ListId)
  /\ MaxTasks \in Nat /\ MaxCommands \in Nat

VARIABLES
  rows,      \* the tasks table with its memberships
  sent,      \* the snapshot of the last operation queued for a task
  cmd,       \* what each caller is doing
  asked,     \* commands accepted so far
  erased     \* items the user has deleted: the ghost of a finished DeleteTask

serviceVars == <<rows, sent, cmd, asked, erased>>

Idle == [at |-> "idle"]

\* The primary list, all memberships (it included), the tombstone, and the
\* item the row holds, which no code sees.  Completing is an edit here.
Row == [provider: Provider, list: ListId, also: SUBSET ListId, title: Title,
        gone: BOOLEAN, item: Item]

ASSUME RowAssumption == NoRow \notin Row

Changes == {"edit", "move", "add", "remove"}
CommandKind == Changes \cup {"delete", "copy", "transfer"}

IsLocal(r) == r.provider = Local

(***************************************************************************)
(* What a command does to the task it loaded.                              *)
(***************************************************************************)
\* The new primary of a task taken out of its primary list is the first of
\* the memberships left, which are loaded in the order of their ids.
Without(r, l) ==
  LET left == r.also \ {l}
  IN [r EXCEPT !.also = left, !.list = IF r.list = l THEN Min(left) ELSE @]

MovedTo(r, l) == [r EXCEPT !.list = l, !.also = {l}]

Patched(kind, r, l, new) ==
  CASE kind = "edit"   -> [r EXCEPT !.title = new]
    [] kind = "move"   -> MovedTo(r, l)
    [] kind = "add"    -> [r EXCEPT !.also = @ \cup {l}]
    [] kind = "remove" -> Without(r, l)

\* A copy starts with one membership and an identity of the destination.
CopyOf(r, l) ==
  [r EXCEPT !.provider = ProviderOf[l], !.list = l, !.also = {l},
            !.gone = FALSE]

\* The checks on what was loaded.  A tombstone is loaded like any other row.
Accepts(kind, r, l) ==
  /\ kind \in {"move", "add", "remove"} => ProviderOf[l] = r.provider
  /\ kind = "move" => ~(r.list = l /\ Cardinality(r.also) = 1)
  /\ kind = "remove" => l \in r.also /\ Cardinality(r.also) > 1

-----------------------------------------------------------------------------
NextFree(t) == rows[t] = NoRow /\ \A u \in 1..(t - 1) : rows[u] # NoRow

\* What ApplyTaskMutation commits: the row and its operation together.  A
\* snapshot carries no tombstone, so only a delete leaves one.
Store(t, r) ==
  /\ rows' = [rows EXCEPT ![t] = r]
  /\ sent' = [sent EXCEPT ![t] = IF IsLocal(r) THEN @ ELSE r]

ServiceInit ==
  /\ rows = [t \in TaskRow |-> NoRow]
  /\ sent = [t \in TaskRow |-> NoRow]
  /\ cmd = [c \in Caller |-> Idle]
  /\ asked = 0
  /\ erased = {}

\* PatchTask, CompleteTask, MoveTask, DeleteTask, CopyTask and
\* TransferTaskResult up to their first write.
Ask(c, kind, t, l, new) ==
  /\ cmd[c] = Idle /\ asked < MaxCommands
  /\ rows[t] # NoRow /\ Accepts(kind, rows[t], l)
  /\ kind # "edit" => new = rows[t].title
  /\ asked' = asked + 1
  /\ cmd' = [cmd EXCEPT ![c] = [at |-> "save", kind |-> kind, task |-> t,
                                to |-> l, title |-> new, seen |-> rows[t]]]
  /\ UNCHANGED <<rows, sent, erased>>

\* Mutant: the operation's snapshot is taken before the patch is applied.
SaveRemoteStale(c) ==
  LET x == cmd[c] IN
  /\ x.at = "save" /\ x.kind \in Changes /\ ~IsLocal(x.seen)
  /\ rows' = [rows EXCEPT ![x.task] =
       [Patched(x.kind, x.seen, x.to, x.title) EXCEPT !.gone = FALSE]]
  /\ sent' = [sent EXCEPT ![x.task] = [x.seen EXCEPT !.gone = FALSE]]
  /\ cmd' = [cmd EXCEPT ![c] = Idle]
  /\ UNCHANGED <<asked, erased>>

\* The change of a remote task: the whole row as it was loaded, patched.
SaveRemote(c) ==
  LET x == cmd[c] IN
  /\ x.at = "save" /\ x.kind \in Changes /\ ~IsLocal(x.seen)
  /\ Store(x.task,
           [Patched(x.kind, x.seen, x.to, x.title) EXCEPT !.gone = FALSE])
  /\ cmd' = [cmd EXCEPT ![c] = Idle]
  /\ UNCHANGED <<asked, erased>>

\* The change of a local task reads the tombstone again, then writes.
CarryTombstone(c) ==
  LET x == cmd[c] IN
  /\ x.at = "save" /\ x.kind \in Changes /\ IsLocal(x.seen)
  /\ cmd' = [cmd EXCEPT ![c] =
         [x EXCEPT !.at = "write", !.seen = [x.seen EXCEPT !.gone = rows[x.task].gone]]]
  /\ UNCHANGED <<rows, sent, asked, erased>>

SaveLocal(c) ==
  LET x == cmd[c] IN
  /\ x.at = "write"
  /\ Store(x.task, Patched(x.kind, x.seen, x.to, x.title))
  /\ cmd' = [cmd EXCEPT ![c] = Idle]
  /\ UNCHANGED <<asked, erased>>

\* A copy is committed before a transfer's source is touched.
SaveCopy(c) ==
  LET x == cmd[c] IN
  /\ x.at = "save" /\ x.kind \in {"copy", "transfer"}
  /\ \E t \in TaskRow :
       /\ NextFree(t)
       /\ Store(t, CopyOf(x.seen, x.to))
  /\ cmd' = [cmd EXCEPT ![c] = IF x.kind = "copy" THEN Idle
                               ELSE [x EXCEPT !.at = "delete"]]
  /\ UNCHANGED <<asked, erased>>

\* The row of a local task is only flagged; the row of a remote one is
\* written as it was loaded.
SaveDelete(c) ==
  LET x == cmd[c] IN
  /\ \/ x.at = "save" /\ x.kind = "delete"
     \/ x.at = "delete"
  /\ Store(x.task, [(IF IsLocal(x.seen) THEN rows[x.task] ELSE x.seen)
                      EXCEPT !.gone = TRUE])
  /\ erased' = erased \cup (IF x.kind = "delete" THEN {x.seen.item} ELSE {})
  /\ cmd' = [cmd EXCEPT ![c] = Idle]
  /\ UNCHANGED asked

\* CreateTask: nothing it reads can change before it writes.
Create(l, new, i) ==
  /\ asked < MaxCommands
  /\ \A t \in TaskRow : rows[t] # NoRow => rows[t].item # i
  /\ asked' = asked + 1
  /\ \E t \in TaskRow :
       /\ NextFree(t)
       /\ Store(t, [provider |-> ProviderOf[l], list |-> l, also |-> {l},
                    title |-> new, gone |-> FALSE, item |-> i])
  /\ UNCHANGED <<cmd, erased>>

\* Mutant: a transfer goes on to delete the source when the copy failed.
AbandonCopyOnly(c) ==
  /\ cmd[c] # Idle
  /\ cmd' = [cmd EXCEPT ![c] =
       IF @.at = "save" /\ @.kind = "transfer" THEN [@ EXCEPT !.at = "delete"]
                                               ELSE Idle]
  /\ UNCHANGED <<rows, sent, asked, erased>>

\* A cancelled context, a failing statement or the end of the process.
Abandon(c) ==
  /\ cmd[c] # Idle
  /\ cmd' = [cmd EXCEPT ![c] = Idle]
  /\ UNCHANGED <<rows, sent, asked, erased>>

Step(c) ==
  \/ \E kind \in CommandKind, t \in TaskRow, l \in ListId, new \in Title :
       Ask(c, kind, t, l, new)
  \/ SaveRemote(c) \/ CarryTombstone(c) \/ SaveLocal(c)
  \/ SaveCopy(c) \/ SaveDelete(c) \/ Abandon(c)

ServiceNext ==
  \/ \E c \in Caller : Step(c)
  \/ \E l \in ListId, new \in Title, i \in Item : Create(l, new, i)

ServiceSpec == ServiceInit /\ [][ServiceNext]_serviceVars

-----------------------------------------------------------------------------
\* Variable types.
ServiceTypeOK ==
  /\ rows \in [TaskRow -> Row \cup {NoRow}]
  /\ sent \in [TaskRow -> Row \cup {NoRow}]
  /\ cmd \in [Caller -> {Idle} \cup
       [at: {"save", "write", "delete"}, kind: CommandKind, task: TaskRow, to: ListId,
        title: Title, seen: Row]]
  /\ asked \in 0..MaxCommands
  /\ erased \subseteq Item

\* However commands interleave, fail or are cut short, the user loses nothing
\* he did not delete: every item that ever had a row has a live one, until a
\* DeleteTask of it succeeds.  TransferTaskResult is where it could be lost.
ItemsSurvive ==
  \A t \in TaskRow : rows[t] # NoRow =>
    \/ rows[t].item \in erased
    \/ \E u \in TaskRow : rows[u] # NoRow /\ rows[u].item = rows[t].item
                                       /\ ~rows[u].gone

\* The last operation queued for a remote task is a snapshot of the row as it
\* stands, so the provider ends with what the user sees; a local task never
\* queues one.
QueueTellsTheRow ==
  \A t \in TaskRow : rows[t] # NoRow =>
    sent[t] = IF IsLocal(rows[t]) THEN NoRow ELSE rows[t]

\* A row's primary list is one of its memberships and every membership is a
\* list of the row's own provider, whatever was moved, added or removed by
\* two commands that loaded the task before either wrote.
RowsAreSound ==
  \A t \in TaskRow : rows[t] # NoRow =>
    /\ rows[t].list \in rows[t].also
    /\ \A l \in rows[t].also : ProviderOf[l] = rows[t].provider
=============================================================================
