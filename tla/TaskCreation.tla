----------------------------- MODULE TaskCreation -----------------------------
(***************************************************************************)
(* How a task the user creates gets its remote identity, and keeps it.     *)
(*                                                                         *)
(* The create of a task and its later edits are operations of the queue,   *)
(* pushed one at a time by any process that has leased them (SyncQueue,    *)
(* SyncWorker).  The remote id of a task is known in three places: in the  *)
(* payload of an edit, if the row had it when it was edited; in the memory *)
(* of a process that made the remote task (remoteIDs of FoundationProvider *)
(* in internal/sync/foundation_adapter.go); and in the task's row, which   *)
(* cachedProvider (internal/bootstrap/foundation.go) writes after the      *)
(* call.  Beside it a pull may find the new remote task first, and imports *)
(* it as a row of its own; a unique index keeps two rows from holding one  *)
(* remote id.                                                              *)
(*                                                                         *)
(* Fields play no part here (TaskReplica has them): a row is its remote id,*)
(* whether it has local changes, and whether it is deleted.  Calls are     *)
(* prompt: no lease runs out under a push (SyncWorker has those).          *)
(***************************************************************************)
EXTENDS Integers, Sequences, FiniteSets

CONSTANTS
    Process,    \* the terminal interface, command line runs
    Puller,     \* those of them that pull beside the pushes
    Task,       \* local tasks the user creates
    Others,     \* the maker of remote tasks that are not ours
    MaxRemote,  \* tasks ever made at the provider
    MaxEdits,   \* edits of the created tasks
    MaxFaults   \* calls and writes that fail, crashes

ASSUME CreationAssumption ==
    /\ Puller \subseteq Process
    /\ MaxRemote \in Nat /\ MaxEdits \in Nat /\ MaxFaults \in Nat
    /\ Others \notin Task

VARIABLES
    queue,    \* unsettled operations of each task: kind and remote id carried
    outcome,  \* what became of each task's create
    row,      \* the row of each created task
    imported, \* the row of each remote task a pull has imported
    maker,    \* for whom each remote task was made, in the order of their ids
    live,     \* remote tasks that exist
    memory,   \* remoteIDs of each process
    push,     \* the push each process is at
    pull,     \* the pull each process is at
    editor,   \* the remote id in the row each edit has read, or Closed
    edits, faults,
    slips     \* what has gone wrong for each task (read by no action)

cache == <<row, imported>>
provider == <<maker, live>>
creationVars == <<queue, outcome, row, imported, maker, live, memory, push, pull,
                  editor, edits, faults, slips>>

Remote == 1..MaxRemote
NoRemote == 0
Closed == -1
Slip == {"lost", "crossed", "erased"}

Absent == [remote |-> NoRemote, dirty |-> FALSE, gone |-> FALSE]
NoPush == [at |-> "idle", task |-> Others, got |-> NoRemote]
NoPull == [at |-> "idle", listed |-> {}, todo |-> {}, id |-> NoRemote, found |-> Others]

Init ==
    /\ queue = [t \in Task |-> <<>>]
    /\ outcome = [t \in Task |-> "none"]
    /\ row = [t \in Task |-> Absent]
    /\ imported = [r \in Remote |-> "no"]
    /\ maker = <<>> /\ live = {}
    /\ memory = [p \in Process |-> [t \in Task |-> NoRemote]]
    /\ push = [p \in Process |-> NoPush]
    /\ pull = [p \in Puller |-> NoPull]
    /\ editor = [t \in Task |-> Closed]
    /\ edits = 0 /\ faults = 0
    /\ slips = [t \in Task |-> {}]

SpendFault == faults < MaxFaults /\ faults' = faults + 1

\* The unique index on the remote id, as seen by a row of task t (Others: none).
TakenFrom(t, r) ==
    \/ imported[r] # "no"
    \/ \E u \in Task \ {t} : row[u].remote = r

-----------------------------------------------------------------------------
(* The user.  An edit reads the row and writes all of it back later, the     *)
(* remote id included, and its operation carries that id.                    *)

HeldElsewhere(t, r) == r # NoRemote /\ TakenFrom(t, r)

CreateTask(t) ==
    /\ outcome[t] = "none"
    /\ outcome' = [outcome EXCEPT ![t] = "queued"]
    /\ row' = [row EXCEPT ![t].dirty = TRUE]
    /\ queue' = [queue EXCEPT ![t] = <<[kind |-> "create", remote |-> NoRemote]>>]
    /\ UNCHANGED <<imported, provider, memory, push, pull, editor, edits, faults, slips>>

BeginEdit(t) ==
    /\ outcome[t] # "none" /\ ~row[t].gone
    /\ editor[t] = Closed
    /\ edits < MaxEdits
    /\ edits' = edits + 1
    /\ editor' = [editor EXCEPT ![t] = row[t].remote]
    /\ UNCHANGED <<queue, outcome, cache, provider, memory, push, pull, faults, slips>>

SaveEdit(t) ==
    /\ editor[t] # Closed
    /\ ~HeldElsewhere(t, editor[t])
    /\ row' = [row EXCEPT ![t] = [@ EXCEPT !.remote = editor[t], !.dirty = TRUE]]
    /\ queue' = [queue EXCEPT ![t] = Append(@, [kind |-> "update", remote |-> editor[t]])]
    /\ slips' = IF editor[t] = row[t].remote THEN slips
                ELSE [slips EXCEPT ![t] = @ \cup {"erased"}]
    /\ editor' = [editor EXCEPT ![t] = Closed]
    /\ UNCHANGED <<outcome, imported, provider, memory, push, pull, edits, faults>>

\* The id the edit has read belongs to another row by now: nothing is written.
SaveEditFails(t) ==
    /\ editor[t] # Closed
    /\ HeldElsewhere(t, editor[t])
    /\ editor' = [editor EXCEPT ![t] = Closed]
    /\ UNCHANGED <<queue, outcome, cache, provider, memory, push, pull, edits, faults, slips>>

-----------------------------------------------------------------------------
(* Other people. *)

OthersCreate ==
    /\ Len(maker) < MaxRemote
    /\ maker' = Append(maker, Others)
    /\ live' = live \cup {Len(maker')}
    /\ UNCHANGED <<queue, outcome, cache, memory, push, pull, editor, edits, faults, slips>>

OthersDelete(r) ==
    /\ r \in live
    /\ SpendFault
    /\ live' = live \ {r}
    /\ UNCHANGED <<queue, outcome, cache, maker, memory, push, pull, editor, edits, slips>>

-----------------------------------------------------------------------------
(* The push of the oldest operation of a task.                               *)

Pushing(p, at) == push[p].at = at
Mine(p) == push[p].task
Creating(p) == Head(queue[Mine(p)]).kind = "create"

\* The queue hands the oldest operation of a task to one process at a time.
Claim(p, t) ==
    /\ Pushing(p, "idle")
    /\ queue[t] # <<>>
    /\ \A q \in Process : Mine(q) # t
    /\ push' = [push EXCEPT ![p] = [NoPush EXCEPT !.at = "claimed", !.task = t]]
    /\ row' = [row EXCEPT ![t].dirty = TRUE]
    /\ UNCHANGED <<queue, outcome, imported, provider, memory, pull, editor, edits, faults, slips>>

\* Faulty variant of Target: the row is not asked for the identity.
TargetInMemory(p, t) ==
    IF Head(queue[t]).remote # NoRemote THEN Head(queue[t]).remote ELSE memory[p][t]

\* The remote id a push of the head addresses: of the payload, of the process, of
\* the row, in this order.  A create never asks the row.
Target(p, t) ==
    IF Head(queue[t]).remote # NoRemote      THEN Head(queue[t]).remote
    ELSE IF memory[p][t] # NoRemote          THEN memory[p][t]
    ELSE IF Head(queue[t]).kind = "create"   THEN NoRemote
    ELSE row[t].remote

\* client.CreateTask answers.  The remote task exists from here on.
RemoteCreate(p) ==
    /\ Pushing(p, "claimed") /\ Creating(p) /\ Target(p, Mine(p)) = NoRemote
    /\ Len(maker) < MaxRemote
    /\ maker' = Append(maker, Mine(p))
    /\ live' = live \cup {Len(maker')}
    /\ push' = [push EXCEPT ![p] = [@ EXCEPT !.at = "created", !.got = Len(maker')]]
    /\ slips' = IF \E q \in Process : memory[q][Mine(p)] # NoRemote
                THEN [slips EXCEPT ![Mine(p)] = @ \cup {"lost"}] ELSE slips
    /\ UNCHANGED <<queue, outcome, cache, memory, pull, editor, edits, faults>>

\* An update, or a create whose remote task this process remembers.
RemoteUpdate(p) ==
    /\ Pushing(p, "claimed") /\ Target(p, Mine(p)) \in live
    /\ push' = [push EXCEPT ![p] = [@ EXCEPT !.at = "updated", !.got = Target(p, Mine(p))]]
    /\ UNCHANGED <<queue, outcome, cache, provider, memory, pull, editor, edits, faults, slips>>

\* UpsertTask of the reply: the row gets its identity.
StoreReply(p) ==
    /\ push[p].at \in {"created", "updated"}
    /\ ~TakenFrom(Mine(p), push[p].got)
    /\ row' = [row EXCEPT ![Mine(p)] = [Absent EXCEPT !.remote = push[p].got]]
    /\ push' = [push EXCEPT ![p].at = "stored"]
    /\ UNCHANGED <<queue, outcome, imported, provider, memory, pull, editor, edits, faults, slips>>

\* Faulty variant of SaveBase: the process does not note what it has made.
SaveBaseForgetful(p) ==
    /\ Pushing(p, "stored")
    /\ push' = [push EXCEPT ![p].at = "based"]
    /\ UNCHANGED <<queue, outcome, cache, provider, memory, pull, editor, edits, faults, slips>>

\* savePushBase; CreateTask returns, and the process remembers the remote id.
SaveBase(p) ==
    /\ Pushing(p, "stored")
    /\ memory' = IF Creating(p) THEN [memory EXCEPT ![p][Mine(p)] = push[p].got] ELSE memory
    /\ push' = [push EXCEPT ![p].at = "based"]
    /\ UNCHANGED <<queue, outcome, cache, provider, pull, editor, edits, faults, slips>>

Settle(p, result, dirty) ==
    /\ queue' = [queue EXCEPT ![Mine(p)] = Tail(@)]
    /\ outcome' = IF Creating(p) THEN [outcome EXCEPT ![Mine(p)] = result] ELSE outcome
    /\ row' = [row EXCEPT ![Mine(p)].dirty = dirty]
    /\ push' = [push EXCEPT ![p] = NoPush]
    /\ UNCHANGED <<imported, provider, memory, pull, editor, edits, slips>>

Complete(p) ==
    /\ Pushing(p, "based")
    /\ Settle(p, "done", FALSE)
    /\ UNCHANGED faults

\* The remote task is gone (404), or another row holds its id (ErrAlreadyExists):
\* both are terminal.
Reject(p) ==
    /\ \/ Pushing(p, "claimed") /\ Target(p, Mine(p)) # NoRemote /\ Target(p, Mine(p)) \notin live
       \/ push[p].at \in {"created", "updated"} /\ TakenFrom(Mine(p), push[p].got)
    /\ Settle(p, "rejected", TRUE)
    /\ UNCHANGED faults

\* The provider refuses the request.
Refuse(p) == Pushing(p, "claimed") /\ SpendFault /\ Settle(p, "rejected", TRUE)

GiveBack(p) ==
    /\ push' = [push EXCEPT ![p] = NoPush]
    /\ UNCHANGED <<queue, outcome, imported, maker, pull, editor, edits>>

\* An error without a mark is retryable, ErrRemoteIDMissing too.
Missing(p) ==
    /\ Pushing(p, "claimed") /\ ~Creating(p) /\ Target(p, Mine(p)) = NoRemote
    /\ GiveBack(p)
    /\ UNCHANGED <<row, live, memory, faults, slips>>

\* What this process knows of the task it makes is dropped with an error or a crash.
Forgets(p, t) == [slips EXCEPT ![t] = @ \cup {"lost"}]

\* A call or a write fails, the completion too, and the operation stays queued.
Retry(p) ==
    /\ ~Pushing(p, "idle")
    /\ SpendFault
    /\ slips' = IF push[p].at \in {"created", "stored"} /\ Creating(p)
                     /\ memory[p][Mine(p)] = NoRemote
                THEN Forgets(p, Mine(p)) ELSE slips
    /\ row' = [row EXCEPT ![Mine(p)].dirty = TRUE]
    /\ GiveBack(p)
    /\ UNCHANGED <<live, memory>>

\* rollbackCreatedTask: a further list membership failed, the new task is deleted.
RollBack(p) ==
    /\ Pushing(p, "created")
    /\ SpendFault
    /\ live' = live \ {push[p].got}
    /\ GiveBack(p)
    /\ UNCHANGED <<row, memory, slips>>

\* The process dies and is started again; its claim is recovered.
Crash(p) ==
    /\ SpendFault
    /\ memory' = [memory EXCEPT ![p] = [t \in Task |-> NoRemote]]
    /\ slips' = [t \in Task |->
           IF \/ outcome[t] = "queued" /\ memory[p][t] # NoRemote
              \/ Mine(p) = t /\ push[p].at \in {"created", "stored", "based"} /\ Creating(p)
           THEN slips[t] \cup {"lost"} ELSE slips[t]]
    /\ push' = [push EXCEPT ![p] = NoPush]
    /\ pull' = [q \in Puller |-> IF q = p THEN NoPull ELSE pull[q]]
    /\ UNCHANGED <<queue, outcome, cache, provider, editor, edits>>

-----------------------------------------------------------------------------
(* The pull: list, reconcile task by task, tombstone what is missing.        *)

Fetch(p) ==
    /\ pull[p].at = "idle"
    /\ pull' = [pull EXCEPT ![p] = [NoPull EXCEPT !.at = "listed", !.listed = live, !.todo = live]]
    /\ slips' = [t \in Task |->
           IF \E q \in Process : Pushing(q, "created") /\ Mine(q) = t
           THEN slips[t] \cup {"crossed"} ELSE slips[t]]
    /\ UNCHANGED <<queue, outcome, cache, provider, memory, push, editor, edits, faults>>

Holder(r) == {t \in Task : row[t].remote = r}

\* An imported row has nothing more to learn here.  A row with local changes, or a
\* deleted one, is left alone.
LeftAlone(r) ==
    imported[r] # "no" \/ \E t \in Holder(r) : row[t].dirty \/ row[t].gone

Listed(p) == [pull[p] EXCEPT !.at = "listed", !.id = NoRemote, !.found = Others]

LookUpIf(p, r, known) ==
    /\ pull[p].at = "listed" /\ r \in pull[p].todo
    /\ \/ known /\ pull' = [pull EXCEPT ![p].todo = @ \ {r}]
       \/ /\ ~known
          /\ \E t \in IF Holder(r) = {} THEN {Others} ELSE Holder(r) :
               pull' = [pull EXCEPT ![p] =
                   [@ EXCEPT !.at = "found", !.todo = pull[p].todo \ {r}, !.id = r, !.found = t]]
    /\ UNCHANGED <<queue, outcome, cache, provider, memory, push, editor, edits, faults, slips>>

\* Faulty variant of LookUp: a task this process made is taken for known.
LookUpTrusting(p, r) ==
    LookUpIf(p, r, LeftAlone(r) \/ \E t \in Task : memory[p][t] = r)

\* GetTaskByRemoteID.
LookUp(p, r) == LookUpIf(p, r, LeftAlone(r))

\* The row found is written back as it was, with the remote id it was found by.
SavePulled(p) ==
    /\ pull[p].at = "found" /\ pull[p].found # Others
    /\ IF TakenFrom(pull[p].found, pull[p].id)
       THEN UNCHANGED row /\ pull' = [pull EXCEPT ![p] = NoPull]
       ELSE /\ row' = [row EXCEPT ![pull[p].found] = [Absent EXCEPT !.remote = pull[p].id]]
            /\ pull' = [pull EXCEPT ![p] = Listed(p)]
    /\ UNCHANGED <<queue, outcome, imported, provider, memory, push, editor, edits, faults, slips>>

\* No row was found: a row with a new local id.  If one has come up meanwhile, the
\* insert and the update by the new id both change nothing and the pull fails.
SaveImport(p) ==
    /\ pull[p].at = "found" /\ pull[p].found = Others
    /\ IF TakenFrom(Others, pull[p].id)
       THEN UNCHANGED imported /\ pull' = [pull EXCEPT ![p] = NoPull]
       ELSE /\ imported' = [imported EXCEPT ![pull[p].id] = "shown"]
            /\ pull' = [pull EXCEPT ![p] = Listed(p)]
    /\ UNCHANGED <<queue, outcome, row, provider, memory, push, editor, edits, faults, slips>>

\* reconcileMissingTasks: a row whose task is not listed, and does not answer, is
\* tombstoned.  (TaskReplica has its three steps one by one.)
DropMissing(p) ==
    /\ pull[p].at = "listed" /\ pull[p].todo = {}
    /\ LET missing(r) == r # NoRemote /\ r \notin pull[p].listed \cup live IN
         /\ imported' = [r \in Remote |->
                IF imported[r] = "shown" /\ missing(r) THEN "gone" ELSE imported[r]]
         /\ row' = [t \in Task |->
                IF missing(row[t].remote) /\ ~row[t].dirty
                THEN [row[t] EXCEPT !.gone = TRUE] ELSE row[t]]
    /\ pull' = [pull EXCEPT ![p] = NoPull]
    /\ UNCHANGED <<queue, outcome, provider, memory, push, editor, edits, faults, slips>>

PullFails(p) ==
    /\ pull[p].at # "idle"
    /\ SpendFault
    /\ pull' = [pull EXCEPT ![p] = NoPull]
    /\ UNCHANGED <<queue, outcome, cache, provider, memory, push, editor, edits, slips>>

-----------------------------------------------------------------------------
PushStep(p) ==
    \/ \E t \in Task : Claim(p, t)
    \/ RemoteCreate(p) \/ RemoteUpdate(p) \/ StoreReply(p) \/ SaveBase(p)
    \/ Complete(p) \/ Reject(p) \/ Missing(p)

PullStep(p) ==
    \/ Fetch(p) \/ SavePulled(p) \/ SaveImport(p) \/ DropMissing(p)
    \/ \E r \in Remote : LookUp(p, r)

Fault(p) == Refuse(p) \/ Retry(p) \/ RollBack(p) \/ Crash(p)

UserStep(t) == CreateTask(t) \/ BeginEdit(t) \/ SaveEdit(t) \/ SaveEditFails(t)

Next ==
    \/ \E t \in Task : UserStep(t)
    \/ OthersCreate \/ \E r \in Remote : OthersDelete(r)
    \/ \E p \in Process : PushStep(p) \/ Fault(p)
    \/ \E p \in Puller : PullStep(p) \/ PullFails(p)

Spec == Init /\ [][Next]_creationVars

\* Pushes and pulls that run go on, and are asked for again and again.
FairSpec ==
    /\ Spec
    /\ \A p \in Process : WF_creationVars(PushStep(p))
    /\ \A p \in Puller : WF_creationVars(PullStep(p))

-----------------------------------------------------------------------------
(* Properties *)

Copies(t) == {r \in live : maker[r] = t}

CreationTypeOK ==
    /\ \A t \in Task : \A i \in DOMAIN queue[t] :
         queue[t][i] \in [kind : {"create", "update"}, remote : Remote \cup {NoRemote}]
    /\ outcome \in [Task -> {"none", "queued", "done", "rejected"}]
    /\ row \in [Task -> [remote : Remote \cup {NoRemote}, dirty : BOOLEAN, gone : BOOLEAN]]
    /\ imported \in [Remote -> {"no", "shown", "gone"}]
    /\ maker \in Seq(Task \cup {Others}) /\ live \subseteq DOMAIN maker
    /\ memory \in [Process -> [Task -> Remote \cup {NoRemote}]]
    /\ \A p \in Process :
         /\ push[p].at \in {"idle", "claimed", "created", "updated", "stored", "based"}
         /\ Pushing(p, "idle") <=> Mine(p) = Others
         /\ Mine(p) # Others => queue[Mine(p)] # <<>>
    /\ \A p \in Puller : pull[p].at \in {"idle", "listed", "found"}
    /\ editor \in [Task -> Remote \cup {NoRemote, Closed}]
    /\ slips \in [Task -> SUBSET Slip]

\* A created task is at the provider once and in the cache once, unless something
\* was lost: the provider's copy is doubled only if the remote id of a first one
\* was lost with an error, a crash or a change of process before the create was
\* completed, and the row only for that reason, or because a pull listed the
\* new task between the call and the write of its id, or an edit erased the id.
\* Retries, failed completions and rollbacks alone double nothing.
OneTaskEach ==
    \A t \in Task :
        /\ Cardinality(Copies(t)) > 1 => "lost" \in slips[t]
        /\ (\E r \in DOMAIN maker : maker[r] = t /\ imported[r] # "no") => slips[t] # {}

\* A push behind a completed create finds the task that was made for it, in
\* whichever process and after however many crashes, unless an edit that began
\* before the create was pushed has erased the id from the row.
UpdatesKnowTheirTask ==
    \A p \in Process :
        Pushing(p, "claimed") /\ outcome[Mine(p)] = "done" /\ "erased" \notin slips[Mine(p)] =>
          /\ Target(p, Mine(p)) # NoRemote
          /\ maker[Target(p, Mine(p))] = Mine(p)

\* Whatever failed on the way, in the end every task the provider has is in the
\* cache, under the row that made it or a row of its own.
EveryTaskIsShown ==
    <>[](\A r \in live : imported[r] # "no" \/ Holder(r) # {})
=============================================================================
