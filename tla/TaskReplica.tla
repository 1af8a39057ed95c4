------------------------------ MODULE TaskReplica ------------------------------
(***************************************************************************)
(* One task known to both sides: its row in the local cache, the sync base *)
(* (the version both sides last agreed on), its remote, and the four       *)
(* actors that write them: the user's editor (internal/app/service.go over *)
(* ApplyTaskMutation), the push of the queue's head, the pull or scoped    *)
(* fetch (internal/bootstrap/foundation.go, cachedProvider), and the other *)
(* people who edit the task at the provider.                               *)
(*                                                                         *)
(* Every store call is a transaction of its own, and nothing but pullMu    *)
(* (one pull at a time) orders the actors: each of them reads, leaves the  *)
(* store and writes later.                                                 *)
(*                                                                         *)
(* A field's value is the number of the edit that wrote it, so values of   *)
(* different edits never coincide.  "queue" holds the unsettled operations *)
(* of the task, oldest first (SyncQueue: one of them in flight at a time). *)
(***************************************************************************)
EXTENDS Integers, Sequences

CONSTANTS
    Field,          \* the fields a push sends and a pull merges
    MaxEdits,       \* edits and deletions the user makes
    MaxRemoteEdits, \* edits and deletions other people make
    MaxFaults       \* calls that fail

ASSUME ReplicaAssumption ==
    MaxEdits \in Nat /\ MaxRemoteEdits \in Nat /\ MaxFaults \in Nat

VARIABLES
    row,     \* the local row: fields, sync_state, is_deleted
    base,    \* the payload of its row in sync_bases
    remote,  \* the provider's task
    queue,   \* unsettled operations: kind, patched field, snapshot
    editor,  \* the row an edit started from
    push,    \* the push in flight and the reply it got
    pull,    \* the pull in flight and what it has read
    edits, remoteEdits, faults

replicaVars == <<row, base, remote, queue, editor, push, pull, edits, remoteEdits, faults>>
local == <<row, base, queue>>
bounds == <<edits, remoteEdits, faults>>

Value == 0..(MaxEdits + MaxRemoteEdits)
Fields == [Field -> Value]
State == {"synced", "pending", "syncing", "failed", "conflict"}
Row == [fields : Fields, state : State, gone : BOOLEAN]
Remote == [fields : Fields, gone : BOOLEAN]

Fresh == edits + remoteEdits + 1
Unset == [f \in Field |-> 0]
NoRow == [fields |-> Unset, state |-> "synced", gone |-> FALSE]
NoRemote == [fields |-> Unset, gone |-> FALSE]
NoPush == [at |-> "idle", reply |-> Unset]
NoPull == [at |-> "idle", seen |-> NoRemote, found |-> NoRow, base |-> Unset]
NoEdit == [open |-> FALSE, from |-> NoRow]

ReplicaInit ==
    /\ row = NoRow
    /\ base = Unset
    /\ remote = NoRemote
    /\ queue = <<>>
    /\ editor = NoEdit
    /\ push = NoPush
    /\ pull = NoPull
    /\ edits = 0 /\ remoteEdits = 0 /\ faults = 0

HasLocalChanges(s) == s \in {"pending", "syncing", "failed", "conflict"}

SpendFault == faults < MaxFaults /\ faults' = faults + 1

-----------------------------------------------------------------------------
(* MergeFields: a three-way merge in which the local value wins a conflict. *)

Conflicts(b, l, r) == {f \in Field : l[f] # b[f] /\ r[f] # b[f] /\ l[f] # r[f]}

\* Faulty variant of Merged: a remote change never reaches the row.
MergedLocal(b, l, r) == l

Merged(b, l, r) == [f \in Field |-> IF l[f] = b[f] THEN r[f] ELSE l[f]]

-----------------------------------------------------------------------------
(* The user.  An edit reads the row, and writes all of it back later. *)

BeginEdit ==
    /\ ~editor.open
    /\ ~row.gone
    /\ edits < MaxEdits
    /\ editor' = [open |-> TRUE, from |-> row]
    /\ UNCHANGED <<local, remote, push, pull, bounds>>

SaveEdit(f) ==
    /\ editor.open
    /\ LET snapshot == [editor.from.fields EXCEPT ![f] = Fresh] IN
         /\ row' = [fields |-> snapshot, state |-> "pending", gone |-> FALSE]
         /\ queue' = Append(queue, [kind |-> "update", field |-> f, fields |-> snapshot])
    /\ edits' = edits + 1
    /\ editor' = NoEdit
    /\ UNCHANGED <<base, remote, push, pull, remoteEdits, faults>>

SaveDelete(f) ==
    /\ editor.open
    /\ row' = [fields |-> editor.from.fields, state |-> "pending", gone |-> TRUE]
    /\ queue' = Append(queue, [kind |-> "delete", field |-> f, fields |-> editor.from.fields])
    /\ edits' = edits + 1
    /\ editor' = NoEdit
    /\ UNCHANGED <<base, remote, push, pull, remoteEdits, faults>>

(* Other people. *)

RemoteEdit(f) ==
    /\ ~remote.gone
    /\ remoteEdits < MaxRemoteEdits
    /\ remote' = [remote EXCEPT !.fields[f] = Fresh]
    /\ remoteEdits' = remoteEdits + 1
    /\ UNCHANGED <<local, editor, push, pull, edits, faults>>

RemoteDelete ==
    /\ ~remote.gone
    /\ remoteEdits < MaxRemoteEdits
    /\ remote' = [remote EXCEPT !.gone = TRUE]
    /\ remoteEdits' = remoteEdits + 1
    /\ UNCHANGED <<local, editor, push, pull, edits, faults>>

-----------------------------------------------------------------------------
(* The push: claim, call, store the reply, save the base, complete. *)

ClaimHead ==
    /\ push.at = "idle"
    /\ queue # <<>>
    /\ row' = [row EXCEPT !.state = "syncing"]
    /\ push' = [NoPush EXCEPT !.at = "claimed"]
    /\ UNCHANGED <<base, remote, queue, editor, pull, bounds>>

\* The provider answers with the task as the request left it.
PushUpdate ==
    /\ push.at = "claimed"
    /\ Head(queue).kind = "update"
    /\ ~remote.gone
    /\ remote' = [remote EXCEPT !.fields = Head(queue).fields]
    /\ push' = [at |-> "replied", reply |-> Head(queue).fields]
    /\ UNCHANGED <<local, editor, pull, bounds>>

\* A deletion leaves the cache alone.
PushDelete ==
    /\ push.at = "claimed"
    /\ Head(queue).kind = "delete"
    /\ ~remote.gone
    /\ remote' = [remote EXCEPT !.gone = TRUE]
    /\ push' = [NoPush EXCEPT !.at = "based"]
    /\ UNCHANGED <<local, editor, pull, bounds>>

StoreReply ==
    /\ push.at = "replied"
    /\ row' = [fields |-> push.reply, state |-> "synced", gone |-> FALSE]
    /\ push' = [push EXCEPT !.at = "stored"]
    /\ UNCHANGED <<base, remote, queue, editor, pull, bounds>>

SavePushBase ==
    /\ push.at = "stored"
    /\ base' = push.reply
    /\ push' = [NoPush EXCEPT !.at = "based"]
    /\ UNCHANGED <<row, remote, queue, editor, pull, bounds>>

Complete ==
    /\ push.at = "based"
    /\ queue' = Tail(queue)
    /\ row' = [row EXCEPT !.state = "synced"]
    /\ push' = NoPush
    /\ UNCHANGED <<base, remote, editor, pull, bounds>>

\* The call or a store call fails in a way that may pass: the head stays.
PushRetries ==
    /\ push.at # "idle"
    /\ SpendFault
    /\ row' = [row EXCEPT !.state = "pending"]
    /\ push' = NoPush
    /\ UNCHANGED <<base, remote, queue, editor, pull, edits, remoteEdits>>

Reject ==
    /\ push.at = "claimed"
    /\ queue' = Tail(queue)
    /\ row' = [row EXCEPT !.state = "failed"]
    /\ push' = NoPush
    /\ UNCHANGED <<base, remote, editor, pull, edits, remoteEdits>>

\* The task is gone at the provider: its 404 is terminal.
PushMissing == remote.gone /\ Reject /\ UNCHANGED faults

\* The provider refuses the request.
PushRefused == SpendFault /\ Reject

-----------------------------------------------------------------------------
(* The pull: fetch, look the row up, read its base, save, save the base. *)

\* A list pull fetches the list; a task refresh fetches the task, and ends when
\* it is gone.
FetchList ==
    /\ pull.at = "idle"
    /\ pull' = [NoPull EXCEPT !.at = "listed", !.seen = remote]
    /\ UNCHANGED <<local, remote, editor, push, bounds>>

FetchTask ==
    /\ pull.at = "idle"
    /\ ~remote.gone
    /\ pull' = [NoPull EXCEPT !.at = "fetched", !.seen = remote]
    /\ UNCHANGED <<local, remote, editor, push, bounds>>

\* reconcileTasks leaves a row with local changes alone.
Screen ==
    /\ pull.at = "listed"
    /\ ~pull.seen.gone
    /\ pull' = IF HasLocalChanges(row.state) THEN NoPull ELSE [pull EXCEPT !.at = "fetched"]
    /\ UNCHANGED <<local, remote, editor, push, bounds>>

LookUp ==
    /\ pull.at = "fetched"
    /\ pull' = [pull EXCEPT !.at = "found", !.found = row]
    /\ UNCHANGED <<local, remote, editor, push, bounds>>

GetBase ==
    /\ pull.at = "found"
    /\ pull' = IF pull.found.gone THEN NoPull ELSE [pull EXCEPT !.at = "merging", !.base = base]
    /\ UNCHANGED <<local, remote, editor, push, bounds>>

\* Faulty variant of MergedRow: a row in conflict takes remote changes.
MergedRowUnguarded(b, l, r) ==
    [fields |-> Merged(b, l.fields, r),
     state  |-> IF Conflicts(b, l.fields, r) # {} THEN "conflict" ELSE l.state,
     gone   |-> FALSE]

\* What reconcileEntity makes of the row it has found.
MergedRow(b, l, r) ==
    [fields |-> IF HasLocalChanges(l.state) THEN l.fields ELSE Merged(b, l.fields, r),
     state  |-> IF Conflicts(b, l.fields, r) # {} THEN "conflict" ELSE l.state,
     gone   |-> FALSE]

SavePulled ==
    /\ pull.at = "merging"
    /\ row' = MergedRow(pull.base, pull.found, pull.seen.fields)
    /\ pull' = IF row'.state = "synced"
               THEN [NoPull EXCEPT !.at = "saved", !.found = row'] ELSE NoPull
    /\ UNCHANGED <<base, remote, queue, editor, push, bounds>>

SavePullBase ==
    /\ pull.at = "saved"
    /\ base' = pull.found.fields
    /\ pull' = NoPull
    /\ UNCHANGED <<row, remote, queue, editor, push, bounds>>

\* reconcileMissingTasks: the task is not in the list, is looked up in the cache,
\* fetched (it stays gone) and tombstoned.
CheckMissing ==
    /\ pull.at = "listed"
    /\ pull.seen.gone
    /\ pull' = IF row.gone \/ HasLocalChanges(row.state) THEN NoPull
               ELSE [pull EXCEPT !.at = "missing"]
    /\ UNCHANGED <<local, remote, editor, push, bounds>>

Tombstone ==
    /\ pull.at = "missing"
    /\ row' = [row EXCEPT !.gone = TRUE, !.state = "synced"]
    /\ pull' = NoPull
    /\ UNCHANGED <<base, remote, queue, editor, push, bounds>>

PullFails ==
    /\ pull.at # "idle"
    /\ SpendFault
    /\ pull' = NoPull
    /\ UNCHANGED <<local, remote, editor, push, edits, remoteEdits>>

-----------------------------------------------------------------------------
UserStep == BeginEdit \/ \E f \in Field : SaveEdit(f) \/ SaveDelete(f)
OthersStep == RemoteDelete \/ \E f \in Field : RemoteEdit(f)
PushStep ==
    \/ ClaimHead \/ PushUpdate \/ PushDelete \/ StoreReply \/ SavePushBase
    \/ Complete \/ PushMissing
PullStep ==
    \/ FetchList \/ Screen \/ LookUp \/ GetBase \/ SavePulled \/ SavePullBase
    \/ CheckMissing \/ Tombstone

ReplicaNext ==
    \/ UserStep \/ OthersStep \/ PushStep \/ PullStep
    \/ FetchTask \/ PushRetries \/ PushRefused \/ PullFails

ReplicaSpec == ReplicaInit /\ [][ReplicaNext]_replicaVars

\* A push and a pull that run go on, and both are asked for again and again.
ReplicaFairSpec == ReplicaSpec /\ WF_replicaVars(PushStep) /\ WF_replicaVars(PullStep)

-----------------------------------------------------------------------------
(* Properties *)

ReplicaTypeOK ==
    /\ row \in Row
    /\ base \in Fields
    /\ remote \in Remote
    /\ queue \in Seq([kind : {"update", "delete"}, field : Field, fields : Fields])
    /\ editor \in [open : BOOLEAN, from : Row]
    /\ push \in [at : {"idle", "claimed", "replied", "stored", "based"}, reply : Fields]
    /\ pull \in [at : {"idle", "listed", "fetched", "found", "merging", "saved", "missing"},
                 seen : Remote, found : Row, base : Fields]

\* A pull never changes the fields of a row in conflict, whatever edits and
\* pushes run beside it: "the local value is deliberately retained" until the
\* user edits again (conflict.go:152, foundation.go:1354-1360).
ConflictKeepsLocal ==
    [][PullStep /\ row.state = "conflict" => row'.fields = row.fields]_replicaVars

\* When people stop editing, the cache ends up telling the truth: a task it
\* calls synced, with nothing queued, is the provider's task, or deleted as it is.
Agree ==
    row.state = "synced" /\ queue = <<>> =>
      /\ row.gone = remote.gone
      /\ ~row.gone => row.fields = remote.fields
Converges == <>[]Agree

\* What the comment in reconcileEntity says: "Remote changes are fetched on the
\* next pull after the push resolves the pending state."  Nothing is queued and
\* nothing is under way, so the push has resolved the pending state.
PendingIsResolved ==
    queue = <<>> /\ push.at = "idle" /\ pull.at = "idle" =>
      row.state \notin {"pending", "syncing"}

\* What the comment above reconcileEntity says: "pending local mutations remain
\* authoritative until their queue operation succeeds".  A pull leaves the value
\* of the newest queued edit of a field in the row.
IsNewest(i) == \A j \in DOMAIN queue : j > i => queue[j].field # queue[i].field
PendingIsAuthoritative ==
    [][PullStep =>
        \A i \in DOMAIN queue :
          queue[i].kind = "update" /\ IsNewest(i)
            /\ row.fields[queue[i].field] = queue[i].fields[queue[i].field]
          => row'.fields[queue[i].field] = queue[i].fields[queue[i].field]]_replicaVars
=============================================================================
