----------------------------- MODULE EntityStore -----------------------------
(***************************************************************************)
(* The hierarchy tables of the store and the two layers that write them:   *)
(* storage/sqlite (adapter and statements) and, for rows of the local      *)
(* provider, provider/local above it.  A call is a sequence of statements, *)
(* and other callers' statements come between them; only a task's row and  *)
(* its memberships are written in one transaction.                         *)
(*                                                                         *)
(* A row's owner and kind never change and no row is removed (deleting     *)
(* sets a tombstone), so the reads of parents made by one check are taken  *)
(* together.  Names, times and task fields are left out.                   *)
(***************************************************************************)
EXTENDS Naturals, FiniteSets

CONSTANTS
  Caller,     \* goroutines that use the store
  ProviderId,   \* registered provider instances
  Local,      \* the local one
  Remote,     \* identities a remote provider gives out
  NoRemote,   \* a NULL remote_id
  MaxRows,    \* bound: row identities the runs hand out
  MaxCalls    \* bound: calls of a behaviour

ASSUME StoreAssumption ==
  /\ Local \in ProviderId
  /\ NoRemote \notin Remote
  /\ MaxRows \in Nat /\ MaxCalls \in Nat

VARIABLES
  rows,    \* row id -> row; spaces, lists and tasks in one table
  next,    \* the next id newID hands out
  call,    \* caller -> the call it makes or has made
  calls    \* number of calls begun

storeVars == <<rows, next, call, calls>>

RowId == 1..MaxRows
EntityRow == [kind : {"space", "list", "task"}, owner : ProviderId,
        remote : Remote \cup {NoRemote}, up : 0..MaxRows, above : 0..MaxRows,
        also : SUBSET RowId, deleted : BOOLEAN]

SpaceRow(p, r) == [kind |-> "space", owner |-> p, remote |-> r, up |-> 0,
                   above |-> 0, also |-> {}, deleted |-> FALSE]
ListRow(p, r, s) == [SpaceRow(p, r) EXCEPT !.kind = "list", !.up = s]
TaskRow(p, r, l, parent, lists) ==
  [SpaceRow(p, r) EXCEPT !.kind = "task", !.up = l, !.above = parent,
                         !.also = lists \ {l}]

\* The call of a caller: what it asks, the layer, where it stands, the answer.
\* History: before are the identities stored when it began, during the rows
\* deleted since then by whatever write, wrote says that it has changed a table,
\* moved are the rows others put elsewhere after that.
Idle == [at |-> "idle"]

Stored(kind) == {i \in DOMAIN rows : rows[i].kind = kind}
Identity(row) == <<row.kind, row.owner, row.remote>>
Identities == {Identity(rows[i]) : i \in {j \in DOMAIN rows : rows[j].remote # NoRemote}}

------------------------------------------------------------------------------
(* Validation: what the adapter reads before it writes.                       *)

ListParentValid(e) ==
  e.up \in Stored("space") /\ rows[e.up].owner = e.owner

TaskParentsValid(e, id) ==
  /\ \A l \in {e.up} \cup e.also : l \in Stored("list") /\ rows[l].owner = e.owner
  /\ e.above # 0 =>
       /\ e.above # id
       /\ e.above \in Stored("task")
       /\ rows[e.above].owner = e.owner

ParentsValid(e, id) ==
  CASE e.kind = "space" -> TRUE
    [] e.kind = "list" -> ListParentValid(e)
    [] e.kind = "task" -> TaskParentsValid(e, id)

(* The local provider owns a row when the row and everything above it are its.*)
OwnedSpace(i) == i \in Stored("space") /\ rows[i].owner = Local
OwnedList(i) ==
  i \in Stored("list") /\ rows[i].owner = Local /\ OwnedSpace(rows[i].up)
OwnedParent(i) ==
  i \in Stored("task") /\ rows[i].owner = Local /\ OwnedList(rows[i].up)
ParentOwned(id, above) == above # 0 => above # id /\ OwnedParent(above)
OwnedTask(i) == OwnedParent(i) /\ ParentOwned(i, rows[i].above)

Owned(i) == OwnedSpace(i) \/ OwnedList(i) \/ OwnedTask(i)
OwnedPlace(e, id) ==
  CASE e.kind = "space" -> TRUE
    [] e.kind = "list" -> OwnedSpace(e.up)
    [] e.kind = "task" -> OwnedList(e.up) /\ ParentOwned(id, e.above)

------------------------------------------------------------------------------
(* The constraints of the schema, and the two statements that store a row.    *)

Refers(e, i, kind) == i \in Stored(kind) /\ rows[i].owner = e.owner

\* Migration 008: the lists of a membership are the task's provider's.
MembershipKeysHold(e) == \A l \in e.also : Refers(e, l, "list")

KeysHold(e, id) ==
  /\ e.kind = "list" => Refers(e, e.up, "space")
  /\ e.kind = "task" => Refers(e, e.up, "list") /\ MembershipKeysHold(e)
  /\ e.above # 0 => e.above # id /\ Refers(e, e.above, "task")
  /\ \A i \in DOMAIN rows \ {id} :
       e.remote # NoRemote => Identity(rows[i]) # Identity(e)

Put(id, e) == rows' = [i \in DOMAIN rows \cup {id} |-> IF i = id THEN e ELSE rows[i]]

\* UPDATE ... WHERE provider_id = ? AND id = ?
Matches(e, id) == id \in DOMAIN rows /\ rows[id].owner = e.owner /\ rows[id].kind = e.kind

Goto(c, step) == call' = [call EXCEPT ![c].at = step]
Answer(c, result) == call' = [call EXCEPT ![c] = [@ EXCEPT !.at = "done", !.answer = result]]
\* The call of d meets rows that another call deletes or moves.
Noted(d, gone, moves) ==
  IF call[d].at = "idle" THEN call[d]
  ELSE [call[d] EXCEPT !.during = @ \cup gone,
                       !.moved = IF call[d].at = "verify" THEN @ \cup moves ELSE @]

\* The local provider looks at what was stored before it answers.
Wrote(c) ==
  LET k == call[c]
      gone == IF Matches(k.row, k.id) /\ k.row.deleted /\ ~rows[k.id].deleted THEN {k.id} ELSE {}
      moves == IF Matches(k.row, k.id) /\ k.row.up # rows[k.id].up THEN {k.id} ELSE {}
  IN call' = [d \in Caller |->
       IF d = c THEN [k EXCEPT !.at = IF k.via = "local" THEN "verify" ELSE "done",
                               !.answer = "ok", !.wrote = TRUE]
       ELSE Noted(d, gone, moves)]

------------------------------------------------------------------------------
(* The calls.  Callers name rows they have read; deleted rows are read too.   *)

Ask(c, via, op, id, e) ==
  /\ call[c].at \in {"idle", "done"}
  /\ calls < MaxCalls
  /\ calls' = calls + 1
  /\ call' = [call EXCEPT ![c] =
       [at |-> IF via = "local" THEN "own"
               ELSE CASE op = "upsert" -> "lookup"
                      [] op = "delete" -> "delete"
                      [] OTHER -> "check",
        via |-> via, op |-> op, id |-> id, row |-> e, answer |-> "none",
        before |-> Identities, during |-> {}, wrote |-> FALSE, moved |-> {}]]
  /\ UNCHANGED <<rows, next>>

\* What an update sends: the row as read, without its tombstone.
Live(i) == [rows[i] EXCEPT !.deleted = FALSE]

SpaceCall(c) ==
  \/ \E p \in ProviderId : Ask(c, "store", "create", 0, SpaceRow(p, NoRemote))
  \/ \E p \in ProviderId \ {Local}, r \in Remote :
       Ask(c, "store", "upsert", 0, SpaceRow(p, r))
  \/ \E i \in Stored("space") : \E op \in {"update", "delete"} :
       Ask(c, "store", op, i, Live(i))

ListCall(c) ==
  \/ \E p \in ProviderId, s \in Stored("space") :
       Ask(c, "store", "create", 0, ListRow(p, NoRemote, s))
  \/ \E p \in ProviderId \ {Local}, r \in Remote, s \in Stored("space") :
       Ask(c, "store", "upsert", 0, ListRow(p, r, s))
  \/ \E i \in Stored("list"), s \in Stored("space") :
       Ask(c, "store", "update", i, [Live(i) EXCEPT !.up = s])
  \/ \E i \in Stored("list") : Ask(c, "store", "delete", i, Live(i))

Memberships == {{}} \cup {{l} : l \in Stored("list")}
Parents == {0} \cup Stored("task")

TaskCall(c) ==
  \E l \in Stored("list"), lists \in Memberships, parent \in Parents :
    \/ \E p \in ProviderId :
         Ask(c, "store", "create", 0, TaskRow(p, NoRemote, l, parent, lists))
    \/ \E p \in ProviderId \ {Local}, r \in Remote :
         Ask(c, "store", "upsert", 0, TaskRow(p, r, l, parent, lists))
    \/ \E i \in Stored("task") :
         Ask(c, "store", "update", i, TaskRow(rows[i].owner, rows[i].remote, l, parent, lists))
    \/ \E i \in Stored("task") : Ask(c, "store", "delete", i, Live(i))

LocalSpaceCall(c) ==
  \/ Ask(c, "local", "create", 0, SpaceRow(Local, NoRemote))
  \/ \E i \in Stored("space") : \E op \in {"update", "delete"} :
       Ask(c, "local", op, i, SpaceRow(Local, NoRemote))

LocalListCall(c) ==
  \/ \E s \in Stored("space") :
       Ask(c, "local", "create", 0, ListRow(Local, NoRemote, s))
  \/ \E i \in Stored("list"), s \in Stored("space") : \E op \in {"update", "delete"} :
       Ask(c, "local", op, i, ListRow(Local, NoRemote, s))

LocalTaskCall(c) ==
  \E l \in Stored("list"), parent \in Parents, lists \in Memberships :
    \/ Ask(c, "local", "create", 0, TaskRow(Local, NoRemote, l, parent, lists))
    \/ \E i \in Stored("task") : \E op \in {"update", "delete"} :
         Ask(c, "local", op, i, TaskRow(Local, NoRemote, l, parent, lists))

------------------------------------------------------------------------------
(* The steps of a call.                                                       *)

\* provider/local, before it calls the store.
Own(c) ==
  LET k == call[c] IN
  /\ k.at = "own"
  /\ IF (k.op = "create" \/ Owned(k.id)) /\ (k.op = "delete" \/ OwnedPlace(k.row, k.id))
       THEN Goto(c, IF k.op = "delete" THEN "delete" ELSE "check")
       ELSE Answer(c, "refused")
  /\ UNCHANGED <<rows, next, calls>>

\* Mutant: deleted rows are passed over.
ResolveLive(c) ==
  LET k == call[c]
      holders == {i \in DOMAIN rows : ~rows[i].deleted /\ Identity(rows[i]) = Identity(k.row)}
  IN
  /\ k.at = "lookup"
  /\ call' = [call EXCEPT ![c] =
         [@ EXCEPT !.at = "check",
                   !.id = IF holders = {} THEN 0 ELSE CHOOSE i \in holders : TRUE]]
  /\ UNCHANGED <<rows, next, calls>>

\* An upsert without an id takes the id of the row that holds its identity.
Resolve(c) ==
  LET k == call[c]
      holders == {i \in DOMAIN rows : Identity(rows[i]) = Identity(k.row)}
  IN
  /\ k.at = "lookup"
  /\ call' = [call EXCEPT ![c] =
         [@ EXCEPT !.at = "check",
                   !.id = IF holders = {} THEN 0 ELSE CHOOSE i \in holders : TRUE]]
  /\ UNCHANGED <<rows, next, calls>>

\* Mutant: the update takes the tombstone of what it was given.
CarryTombstoneNot(e, i) == e

\* An update keeps the tombstone it reads here.
CarryTombstone(e, i) == [e EXCEPT !.deleted = rows[i].deleted]

\* The record gets its id, its parents are read, an update reads its row.
Check(c) ==
  LET k == call[c]
      id == IF k.id = 0 THEN next ELSE k.id
  IN
  /\ k.at = "check"
  /\ id \in RowId
  /\ next' = IF k.id = 0 THEN next + 1 ELSE next
  /\ IF ParentsValid(k.row, id)
       THEN call' = [call EXCEPT ![c] =
              [@ EXCEPT !.at = IF k.op = "update" THEN "update" ELSE "insert", !.id = id,
                        !.row = IF k.op = "update" THEN CarryTombstone(k.row, id) ELSE k.row]]
       ELSE Answer(c, "refused")
  /\ UNCHANGED <<rows, calls>>

\* INSERT of a space or a list, a statement of its own.
Insert(c) ==
  LET k == call[c] IN
  /\ k.at = "insert" /\ k.row.kind # "task"
  /\ IF k.id \notin DOMAIN rows /\ KeysHold(k.row, k.id)
       THEN Put(k.id, k.row) /\ Wrote(c)
       ELSE /\ IF k.op = "upsert" THEN Goto(c, "fallback") ELSE Answer(c, "exists")
            /\ UNCHANGED rows
  /\ UNCHANGED <<next, calls>>

\* The UPDATE an upsert falls back to: no row of that id is no error, but the
\* read that follows does not find it.
Rewrite(c, k) ==
  IF ~Matches(k.row, k.id) THEN Answer(c, "lost") /\ UNCHANGED rows
  ELSE IF KeysHold(k.row, k.id) THEN Put(k.id, k.row) /\ Wrote(c)
  ELSE Answer(c, "exists") /\ UNCHANGED rows

FallBack(c) ==
  /\ call[c].at = "fallback"
  /\ Rewrite(c, call[c])
  /\ UNCHANGED <<next, calls>>

\* A task: insert, fallback and memberships are one transaction.
InsertTask(c) ==
  LET k == call[c] IN
  /\ k.at = "insert" /\ k.row.kind = "task"
  /\ IF k.id \notin DOMAIN rows /\ KeysHold(k.row, k.id)
       THEN Put(k.id, k.row) /\ Wrote(c)
       ELSE IF k.op = "upsert" THEN Rewrite(c, k)
       ELSE Answer(c, "exists") /\ UNCHANGED rows
  /\ UNCHANGED <<next, calls>>

Update(c) ==
  /\ call[c].at = "update"
  /\ Rewrite(c, call[c])
  /\ UNCHANGED <<next, calls>>

Delete(c) ==
  LET k == call[c] IN
  /\ k.at = "delete"
  /\ rows' = [rows EXCEPT ![k.id].deleted = TRUE]
  /\ call' = [d \in Caller |->
       IF d = c THEN [k EXCEPT !.at = "done", !.answer = "ok", !.wrote = TRUE]
       ELSE Noted(d, {k.id}, {})]
  /\ UNCHANGED <<next, calls>>

\* Mutant: the row read back must not be deleted.
VerifyLive(c) ==
  LET k == call[c]
      stored == rows[k.id]
  IN
  /\ k.at = "verify"
  /\ Answer(c, IF stored.up = k.row.up /\ ~stored.deleted THEN "ok" ELSE "refused")
  /\ UNCHANGED <<rows, next, calls>>

\* provider/local compares the row that the store reads back with the one it
\* sent, and reads its parents once more.
Verify(c) ==
  LET k == call[c]
      stored == rows[k.id]
  IN
  /\ k.at = "verify"
  /\ Answer(c, IF stored.up = k.row.up /\ OwnedPlace(stored, k.id) THEN "ok" ELSE "refused")
  /\ UNCHANGED <<rows, next, calls>>

StoreInit ==
  /\ rows = <<SpaceRow(Local, NoRemote), ListRow(Local, NoRemote, 1)>>
  /\ next = 3
  /\ call = [c \in Caller |-> Idle]
  /\ calls = 0

StoreNext == \E c \in Caller :
  \/ SpaceCall(c) \/ ListCall(c) \/ TaskCall(c)
  \/ LocalSpaceCall(c) \/ LocalListCall(c) \/ LocalTaskCall(c)
  \/ Own(c) \/ Resolve(c) \/ Check(c)
  \/ Insert(c) \/ FallBack(c) \/ InsertTask(c) \/ Update(c) \/ Delete(c) \/ Verify(c)

StoreSpec == StoreInit /\ [][StoreNext]_storeVars

------------------------------------------------------------------------------
StoreTypeOK ==
  /\ DOMAIN rows \subseteq RowId
  /\ \A i \in DOMAIN rows : rows[i] \in EntityRow
  /\ next \in 1..(MaxRows + 1)
  /\ calls \in 0..MaxCalls

\* Everything a row hangs under exists and belongs to the row's provider, as the
\* adapter reads before it writes and the foreign keys say again.
OwnershipHolds ==
  \A i \in DOMAIN rows :
    LET row == rows[i]
        Holder == [list |-> "space", task |-> "list"]
        Mine(j, kind) == j \in Stored(kind) /\ rows[j].owner = row.owner
    IN
    /\ row.kind # "space" => Mine(row.up, Holder[row.kind])
    /\ \A l \in row.also : Mine(l, "list")
    /\ row.above # 0 => Mine(row.above, "task")

\* An upsert of a remote entity fails to store it only when another caller
\* stored the same entity since the upsert began.
OnlyRivalsLose ==
  \A c \in Caller :
    call[c].at = "done" /\ call[c].op = "upsert" /\ call[c].answer \in {"lost", "exists"}
      => /\ Identity(call[c].row) \in Identities
         /\ Identity(call[c].row) \notin call[c].before

\* A call that answers with an error has changed nothing, unless another call
\* moved its row between its write and the look at what was stored.
FailedCallsWereCrossed ==
  \A c \in Caller :
    call[c].at = "done" /\ call[c].answer # "ok" /\ call[c].wrote => call[c].id \in call[c].moved

\* A deleted row comes back only by an upsert, or by an update that was under
\* way when the row was deleted and had read it before.
OnlyStaleUpdatesRevive ==
  [][\A i \in DOMAIN rows :
       rows[i].deleted /\ ~rows'[i].deleted =>
         \E c \in Caller :
           /\ call[c].at \in {"insert", "fallback", "update"}
           /\ call[c].id = i /\ call'[c].at # call[c].at
           /\ call[c].op = "upsert" \/ i \in call[c].during]_storeVars
=============================================================================
