# TLA+ models of task-tui

task-tui keeps tasks in a local SQLite cache, lets the user edit them offline,
and synchronizes the edits with ClickUp. These modules model the program's
control: the durable operation queue and the workers that drain it, the cache
that edits, push replies and pulls all write, the commands and the store under
them, timers, the request pacer, start-up and shutdown, and the state the
terminal user interface keeps between keys and snapshots. Paths below are
relative to `src/internal/`.

## The system

| Component | State it keeps | Operations | Meets others through |
|---|---|---|---|
| Operation queue: `storage/sqlite/queue.go`, `domain_state_adapter.go` | table `sync_operations` (status, retryable, next attempt, lease owner and expiry), `sync_state` of each entity | enqueue with a mutation, claim, complete, retry, release, fail, requeue stale | one SQLite file, several processes |
| Hierarchy tables: `storage/sqlite/space.go`, `list.go`, `task.go`, `domain_adapter.go`; `provider/local` above them | `spaces`, `lists`, `tasks`, memberships | create, update, upsert, delete, each several statements | foreign keys and unique indexes; other callers' statements |
| Sync worker: `sync/worker.go`, `foundation_adapter.go`, `retry.go` | the claim in its hands, status, one-at-a-time channel `once` | `SyncOnce`: recover, then claim, push, settle until the queue is empty, then pull | queue, provider, events |
| Task cache: `bootstrap/foundation.go` (`cachedProvider`), `sync/conflict.go` | rows of `tasks`, `sync_bases`, conflicts | push a create, update or delete and store the reply; pull spaces, lists, pages of tasks; refresh a list or a task; merge; tombstone | store, provider; `pullMu` orders pulls only |
| Use cases: `app/service.go` | none | create, patch, complete, delete, move, add, remove, copy, transfer | reads the row, later `ApplyTaskMutation` writes row and queue in one transaction |
| ClickUp client: `provider/clickup/client.go`, `errors.go` | the pacer's next slot | a request: token, slot, wait, send, answer or deadline | workers, pulls, commands |
| Time tracking: `foundation.go:1996-2590` | stored session, tracked time, the timer at ClickUp | start, stop, switch, poll | store, provider; `trackingGate` |
| Sync controller, runtime, engine: `foundation.go:1596-1840`, `bootstrap/runtime.go`, `sync/engine.go` | phase, `closing`, cancelers, WaitGroup; started, done | start, run, schedule, stop, close the store | UI, workers, signals |
| Setup: `bootstrap/onboarding.go`, `config.go`, `credentials` | configuration file, credential file, provider row | load, ask, save, build | environment, earlier starts |
| Event stream: `foundationSyncEventStream` | bounded channel, mutex | `Emit`; the reader reloads the view on terminal events | workers, fetches, UI goroutine |
| Terminal UI: `tui/` and `foundationUIController` | selection, prompts, rows, views of the lists, external editor, last snapshot | one message at a time: a key or a snapshot | commands and loads in goroutines, which answer in any order |
| Command line, logging | none | print | the components above |

`bootstrap/app.go`, `sync.go`, `repository.go` and `provider.go` are an earlier
graph that `buildFoundationGraph` does not construct.

What is hard here: two processes on one database; a provider call that fails
after it was applied; a lease that runs out during a call; crashes between two
transactions, or between a remote call and the write of its result; read, leave
the store, write later, in the editor, the pull, the commands and the local
provider; listings that change between their pages; a full event channel in
front of a slow reader; timers at the provider and a session in the store; a
shutdown that times out; snapshots that arrive under a prompt or an editor.
`PROJECT.json` lists each hazard at its line with the properties that cover it.

What makes each part correct: operations of an entity go out one at a time and
in order, are not lost, and are settled in the end (queue, worker); rows hang
under rows of their own provider, and a call that failed has written nothing,
but where another call crossed it (store); a task is created once on each side
(creation); what the cache calls synced is what the provider has, and conflicts
and live tasks are not taken away by pulls (cache); no command loses a task, and
the queue tells the provider what the row says (use cases); requests keep their
distance (client); no minute is counted twice, none of a local task is lost but
by an edit that crossed a stop, and the session finds its timer (tracking); no
synchronization runs on a closed store (a command of the interface that nobody
waits for still may), and a stopped engine is empty (lifecycle); who was asked
for a token gets a session (setup); emitters never wait and the view never stays
stale (stream); keys act on the task that is marked, named or opened, and every
list keeps its view, but for three ways the end of a run loses one (terminal).

## Modules

| Module | Models | Extends or refines |
|---|---|---|
| `SyncQueue` | the queue and the entity states it writes; clients unconstrained | |
| `SyncWorker` | `SyncOnce` of several processes, crashes, the wire, the provider | extends `SyncQueue`; implements `Delivery` |
| `Delivery` | the promise: at-least-once delivery, in order per entity | |
| `ClaimOrder` | the claim order with `created_at` as the text it is stored as | |
| `EntityStore` | spaces, lists and tasks, statement by statement, and the local provider | |
| `TaskReplica` | one task both sides know: editor, push, pull, other people | uses of the queue only its order per entity |
| `TaskCreation` | the remote identity of a created task | as `TaskReplica` |
| `HierarchyPull` | the pull of spaces, lists and pages of tasks | |
| `TaskService` | the commands of the application service | |
| `RemoteCalls` | requests in time: pacer, deadline, rate limit, retry delay | |
| `TimeTracking` | the stored session, local and remote time, ClickUp's timer | |
| `Lifecycle` | the runtime from start to shutdown, controller and UI goroutines | |
| `Engine` | `Engine.Start` and `Stop` | |
| `Setup` | starts through configuration, setup, token and provider row | |
| `EventStream` | `Emit`, the reader, the reload | |
| `TaskScreen` | selection, prompts, detail pane, commands and their snapshots | |
| `TaskRows` | groups, subtasks, rows, cursor and scrolling of the task panel | |
| `TaskQuery` | filter parser, sort, completion | |
| `ListViews` | the views of the lists within a run and over runs | |
| `TaskEditor` | a task edited as a document in an external editor | |
| `SyncWorkerProofs`, `HierarchyProofs`, `StoredStateProofs`, `TaskCreationProofs`, `ServiceProofs`, `LifecycleProofs`, `ScreenProofs`, `RowsProofs` | theorems | extend the modules they are about |
| `MC*` | constants and initial states of the runs | |

Small models of parts that share no state are checked in one run: the module of
the run (`MCSyncQueue`, `MCTaskService`, `MCTerminal`, `MCLifecycle`,
`MCTimeTracking`) has a variable `part` (or `half`) chosen in the initial state,
and a behaviour takes the steps of that part only, so the run explores the sum
of the parts and never their product.

### SyncQueue

One record per row of `sync_operations`, numbered in commit order (the stamp
`created_at` is taken inside the write transaction, `queue.go:414-444`). Each
operation is one transaction of the code and one action; the two writes of a
transaction (row and entity) are one step. Time is relative: `wait` is
`next_attempt_at - now`, `lease` is `lease_expires_at - now`, and `Tick` ages
both. They saturate where no guard of the code tells values apart, so the clock
needs no bound. `attempts` saturates at `AttemptCap`. `Settled` is the exception
in the `NOT EXISTS` clause of the claim: completed, or failed and not retryable.
The initial states include a row an older version failed and migration 004 made
claimable again.

### SyncWorker and Delivery

`pc` follows `SyncOnce`: recover, claim, ready, calling, succeeded or failed.
A push puts a request on `wire`; `Apply` is the provider applying it; `Succeed`
is a reply to an applied request; `PushError` may come before or after it was
applied. `Crash`, `Cancel`, `PushError` and `StoreError` spend `MaxFaults`.
`MarkAttempt` does nothing (`foundation_adapter.go:87`); `attempts` grows in the
claim. The variable `prompt`, fixed in the initial state, is the timing the
program counts on: a call ends while its lease lives (15 s against 5 min) and
leaves nothing on the wire. Where it is false, anything may outlive its lease.
The refinement mapping to `Delivery` forgets leases, retries and workers: the
outcome of an operation is read off its row, and what was delivered off the
provider. It speaks of prompt behaviours; the others are shown to it as nothing
happening.

### ClaimOrder

A time is a second and a fraction of `Width` digits; `Text` is what RFC3339Nano
makes of it. Everything above the second has a fixed width and is left out. The
claim of the model is the claim's order condition alone, on the rows of one
entity.

### EntityStore

A row is its kind, owner, remote id, parents, memberships and tombstone. A call
of the adapter or of the local provider is a record that walks through its
statements: validate, resolve by remote id, insert, fall back to an update,
carry the tombstone over, write. Another caller's statements come in between;
only a task's row and its memberships share a transaction. `KeysHold` is what
the schema itself refuses: the unique ids, and the composite foreign keys that
tie the owner of a row to the owners of its home list, its parent and, since
migration 008, the lists it is a member of. `Verify` is the local provider
reading back what it has stored: it compares the place with the one it sent
(`provider.go:819`, `843`), so a call whose row was moved in between answers with
an error although it has written. `before`, `during`, `moved` and `wrote` are
history: what a call found stored when it began, which rows were deleted and
which were moved since, by whatever write, and whether it has written.

### TaskReplica

`row`, `base` and `remote` are the cache row, the payload of `sync_bases` and the
provider's task; a field's value is the number of the edit that wrote it. The
fields are those a push sends (`provider.go:1103-1124`). The editor reads the row
(`loadTask`) and writes all of it later; the push is claim, call, store the
reply, save the base, complete; the pull is fetch, screen, look up, read the
base, save, save the base, or, for a task missing from its list, check and
tombstone. Each is one store call or one provider call, and all interleave:
nothing in the code orders them but `pullMu`, which keeps pulls apart, and the
queue, which keeps one operation of the task in flight. `pull` is therefore one
record.

### TaskCreation

A remote id is known in the payload of an edit, in the memory of the process
that created the task (`remoteIDs`), and in the row. The actions are the push of
a create and of an update behind it (claim, call, store the reply, save the
base, complete; retry, reject, roll back), the pull that may find the new remote
task first and import it as a row of its own, and an edit that reads the row and
writes it later. `slips` records what was lost on the way: an id that died with
a process or an error, an id erased by an edit that had read the row before, a
pull that crossed the create. Delete pushes are in `TaskReplica`.

### HierarchyPull

One record `pull` walks through spaces, the lists of each, and the tasks of each
list in pages; between two reads other people move spaces' lists, move, reparent
and delete tasks. `batch` and `waiting` are the tasks read and those put off for
a parent; `NextRound` is the loop of `reconcileTasks`; `CheckMissing` is
`reconcileMissingTasks` with the provider's `FetchTask`. A page is the tasks with
that many `Before` them in the list as it is when the page is asked for, so a task
may slip from one page to another. `Acyclic` says that no set of tasks is closed
under parents. Unlike in `TaskReplica` a row is read and written in one step.

### TaskService

A caller's command is loaded, decided on what was loaded, and written later as
the whole row, in the transaction that queues the operation. `sent` is the
snapshot queued last for a row, `item` the thing the user thinks of as one task
across copies and transfers. The check for moves, `Accepts`, is made on what was
loaded, so it may be stale. Only commands write; the worker's writes are in the
modules above.

### RemoteCalls

A tick is the pacer's interval. A sender asks for a token, takes a slot
(`Reserve`), waits, sends, and ends by an answer, an expired deadline or a
cancelled context; a slot is never given back. `Pusher` is the worker of the
provider with one operation at a time: its failure is classified, and `Failed`
sets when it is due again. `barred` is the time a rate limit asked for. The
clock is bounded (`MaxClock`).

### TimeTracking

`session` is the stored session, `timer` what runs at ClickUp, `tracked` the
cached time per task, `spent` ClickUp's total. An operation holds the gate and
walks through its remote calls, the reading of a row (a local
task's in `ReadLocalRow`) and the later writing of it, each a step; a fault or a crash may
come between any two. Two others write `tracked` and do not take the gate: a pull
writes what it has read at ClickUp, and an edit (`EditRead`, `EditWrite`) writes
the whole row it has read, `time_tracked_ms` included (`app/service.go:359-481`,
`sqlite/task.go:323-338`), so it may set back what a stop stored in between. One
edit and one pull are under way at a time. Of a row only its time is kept: that
the whole-row write of a stop (`foundation.go:2159`, `2184`) may in turn overwrite
another field an edit stored in between is not a property here. Ghosts: `worked`
is how long the sessions of a local task lasted, from the start to the look at
the clock of the stop or poll that ended them; `undone` is the tasks an edit has
set back; `crossed` says that a pull crossed a stop.

### Lifecycle, Engine, Setup

`step` is where `Runtime.Run` is, from `new` over the start, the interface and
the shutdown to `done`; commands of the interface, the requests they scheduled
and the reader of events run beside it. `StopTimesOut` is the shutdown's context
running out: `Stop` returns, and the runtime stops and waits once more before it
closes the store. `Engine` is one record of runs and workers, driven by anybody.
`Setup` is a start as the steps load, setup or prompt, save, build; starts follow
each other, with the file, the environment and the credential file changed in
between, and any start may be cut off between two steps.

### EventStream

`buffer` is the channel, `holder` the owner of the mutex after its first step,
`pending` what the emitter has drained. The fast path and the drop are one
critical section of one channel operation each, so they are one action; the
drain and the refill are one action per channel operation because the reader is
not kept out by the mutex. `cache`, `reported` and `view` are counts of runs:
written, announced by a terminal event, loaded.

### The terminal: TaskScreen, TaskRows, TaskQuery, ListViews, TaskEditor

`Model.Update` handles one message at a time, so a key or a snapshot is one
action, what `Update` does around every message (`Settle`) included. What is
concurrent is around it: commands and loads run in goroutines and send their
snapshots when they are done.

`TaskScreen` keeps selection, mode, prompt and the calls under way. `enter` and
`e` in the task panel are taken by `CharmModel`, which opens the external editor
(`charm.go:186-188`, `251-257`), so the core's own handlers of these keys are
reached in other ways only, and the guards say which: while a document is
pending in the editor `CharmModel` passes the keys on (`charm.go:252`), and
`enter` opens the detail pane; an edit begins from the tree or by `:edit`
(`update.go:739`, `2059-2064`) as well. `editing` is that pending document.
`about` is history: the task the edit under way began with. `TaskRows`
translates the projection of a snapshot into groups and lines and the keys that
move over them; the selection is kept four times over (task, row, header, scroll
offset). The code arranges rows by walking trees of tasks; the model says which
order the walk leaves (a row before those below it, siblings as in the snapshot)
and takes the one sequence in that order. `TaskQuery` is the recursive descent
of the filter prompt as recursive operators on tokens, against a grammar stated
as a reference definition, and the completion beside it. `ListViews` is the view
of each list as keys, loads, quits, crashes and starts leave it; its history
`chosenView` is what the user gave each list, `Lost` where the end of a run may
have lost it: the run crashed after the view had changed, the list was loaded
last and was not the one on the screen at the quit, or a start was cut short and
stored an empty state. Nothing else writes it but a change by the user.
`TaskEditor` is a document rendered from a row, edited outside, and parsed over
the task selected by then.

## Runs

| Run | Bounds | Distinct states | Shows |
|---|---|---|---|
| `queue` | 2 providers, 3 entities, 2 owners, 3 rows, TTL 2, delay 1; 2 callers, 3 calls, 6 rows, 2 remote ids | 0.5 M | order and exclusivity of claims, shown states; failed calls, upserts and tombstones of the store |
| `worker` | 2 processes, 2 tasks, 2 operations, 2 faults when calls are prompt, 1 when not; fair | 0.3 M | nothing acknowledged unapplied, order at the provider, refinement of `Delivery`, everything settled |
| `replica` | 2 fields, 2 edits, 1 remote edit, 1 fault; fair | 1.5 M | conflicts keep the local side; the cache ends up right |
| `creation` | 1 task, 2 processes, 1 of them pulling, 2 remote tasks, 1 edit, 2 faults; fair | 0.5 M | one task each, updates find it, every task is shown |
| `pull` | 2 spaces, 2 lists, 2 tasks, pages of 1, 2 remote changes, 1 edit, 1 fault; fair | 0.8 M | parents first, no needless tombstone, the cache follows |
| `service` | 3 lists of 2 providers, 2 callers, 3 commands, 3 rows; 3 senders, clock to 6; 2 tasks, 2 lists, pages of 1, 1 call, 1 change | 1.5 M | commands, requests, prompts and edits on the screen |
| `terminal` | 3 tasks, 2 groups, 1 snapshot; 4 tokens; 2 lists, 2 view changes; 2 tasks, 2 edits, 1 pull | 0.6 M | rows, filter prompt, editor; views, unless lost in one of the three ways |
| `lifecycle` | 2 requests, 2 commands, 2 workers, 2 engine runs; 3 starts, 2 servers, 1 workspace; fair | 0.3 M | shutdown and engine; setup |
| `tracking` | 1 local, 1 remote, 1 uncached task, clock to 2, 3 acts, 1 fault; 2 emitters, channel of 3, 4 runs; fair | 0.1 M | time, under edits and pulls, and session; the event channel |
| `pull_moved`, `replica_edit`, `claim_order` | as above or smaller | | findings |

Why the bounds are enough for the questions asked. Three queue rows let an
entity have an earlier row, a later one, and one of another entity or provider
between; two owners are what a lease is about; TTL 2 has a live, an expiring and
a whole-TTL expired lease; two faults allow a crash and a second failure during
recovery. Three store calls of two callers put one caller's statement between
any two of the other's, and leave one more to see the result; the run begins
with a space of each provider, or with two local spaces and a list to move
between them, then with one call less. Two fields let an edit of one carry a
stale value of the other. Two processes in `creation` are what makes an id in
memory differ from one in the row. Pages of one make every listing a torn one,
and two remote changes let a task move and its parent change while it is listed.
Three commands are a create, and a transfer with another command between its two
writes. Three acts of tracking are a start, a stop and an edit that crosses it;
of two tasks on the screen the second is there first, and the first may appear
above it and push it off a page of one. Three senders queue behind each other
for longer than one interval. Three related tasks under two headers are more
lines than a panel of two, and let a subtask stand in another group than its
parent. Four tokens are the shortest filters in which AND, OR, NOT or
parentheses can bind wrongly. A channel of three has room for a progress event
before, between and after terminal ones. What is proved holds for every value,
see Proofs.

`queue` uses symmetry of the two callers: they are interchangeable, occur in no
initial state but as idle, and the run has no liveness property.

Deadlock checking is on in `worker`, `replica`, `pull`, `tracking` and the
findings of `replica` and `pull`. It is off where the model stops by its bounds:
`queue` (the store's calls are used up), `creation` (everything is settled and
shown), `service` and `terminal` (the commands or changes are used up),
`lifecycle` (the program has ended), and `claim_order` (all rows completed).

Each module also states its type invariant and a few properties that the runs
above leave out to stay quick; named as an INVARIANT or PROPERTY of the run's
cfg, each of them holds: `QueueTypeOK`, `SettledIsFinal`, `LeaseNeverStolen`,
`StoreTypeOK`, `OwnershipHolds` (`queue`); `WorkerTypeOK`, `ClaimIsExclusive`
(`worker`); `ReplicaTypeOK`; `CreationTypeOK`; `PullTypeOK`; `ServiceTypeOK`,
`CallsTypeOK`, `ScreenTypeOK`, `RowsAreSound`, `NoCallStarves`,
`SelectionIsShown`, `FilterIsPerList`, `DetailShowsSameTask` (`service`);
`RowsTypeOK`, `ViewsTypeOK`, `EditorTypeOK`, `CursorIsOnScreen`, `MovesByOne`,
`FixedComesFirst`, `OnlyEditsAreSent`, `EditsLand` (`terminal`);
`LifecycleTypeOK`, `EngineTypeOK`, `SetupTypeOK`, `SavedSetupHasToken`,
`ServerIsForEver` (`lifecycle`); `TrackingTypeOK`, `StreamTypeOK`,
`EmitNeverWaits` (`tracking`). `SortIsStable` of `TaskQuery` sorts every short
list of rows by every pair of criteria in one state, and wants a cfg of its own.

## Fairness

`worker` assumes that a cycle that runs goes on, that synchronization is
requested again, that a stopped program is started again, that a request nobody
abandons is answered and that time passes. The first is the Go scheduler; the
second and third are the user's (the program synchronizes on request, and
`Worker.Run` repeats with an interval); the fourth is the HTTP timeout.
`replica` and `creation` assume that a push and a pull that run go on and are
asked for again, `pull` that a whole pull is asked for again and again whatever
scoped refreshes come between (strong fairness of its start: `pullMu` is a mutex
that passes nobody over), and that pushes go on. `tracking` assumes that an
operation under way goes on and that the interface polls, as it does every 30 s
(`tui/charm.go:177-184`); and strong fairness of entering `Emit`, since a
`sync.Mutex` hands the lock to a goroutine that has waited for 1 ms. `lifecycle`
assumes that goroutines go on and that a request whose context was cancelled ends
its call; it does not assume that the provider answers, that the user quits, or
that the shutdown's timeout runs out. Faults, edits, remote changes and scoped
refreshes carry no fairness anywhere: they are bounded, and what must happen
in the end happens after them or without them.

## Proofs

Each is for all constants that satisfy the module's assumption, from nothing
else; `EngineOwns` alone supposes something more (`OneStopper`, see below).
Every safety property the passing runs check is a theorem, but for the two of
`TaskQuery`. `PROJECT.json` lists the theorems with what each
says; here is how each is argued.

**`SyncWorkerProofs`: the queue and its workers.**
- The queue: claims in order and exclusive, shown states, and, beyond the runs,
  that settled rows and live leases are left alone. Neither exclusivity nor the
  order is inductive: an in-flight row keeps its entity only because every
  earlier row was settled when it was claimed. `QueueInv` therefore says of a
  row that was ever attempted that all earlier rows of its entity are settled,
  that rows exist in an unbroken prefix, and what attempts and wait each status
  allows. One lemma per kind of step.
- The workers: nothing is completed that was not applied
  (`CompletedWasApplied`), because a worker knows of a reply only for the
  operation in its hands (`LandedWasApplied`). The steps of a worker are steps of
  the queue or leave it alone (`WorkerUsesQueue`), so what was proved of the
  queue holds of it here. The rest of `WorkerInv` is about prompt behaviours:
  what a worker holds and what is on the wire is under a live lease
  (`UnderLease`). So two processes never hold operations of one entity, what
  reaches the provider is the first unsettled operation of its entity, the
  provider never goes back to an older state, and `SyncWorker` implements
  `Delivery`: `WorkersDeliver` maps the initial states and every step, crashes
  and lost replies included, to an initial state and to a step of `Delivery` or
  to none.

**`TaskCreationProofs`: one identity per created task.** `OneTaskEach` and
`UpdatesKnowTheirTask` follow from `CreationInv`. Whoever names a remote id for a
task (row, editor, payload, memory, reply, pull) names one that was made for it
(`NamedIsMade`), and unless an id was lost all of them are one (`OneIdentity`).
That is kept because the create stays at the head of the queue until it is
settled, and while it waits, whatever it made is remembered by the one process
that pushes (`KnownWhileQueued`); a reply not yet stored is the only trace of its
remote task (`CreatedIsFresh`). That a settled create has left its id in the row
is `StoredHasId`; that a pull which sees the remote task finds the row, and does
not import it, is `RowIsFirst`.

**`StoredStateProofs`: the cached row and the tracked time.**
- `ConflictKeepsLocal`. Only pulls put a row into conflict, pulls do not overlap,
  and everybody else's write ends the conflict; so `ReplicaInv` says that a row in
  conflict is the row the pull has found, if the pull has found one. That the push
  has the head of the queue in its hands is carried along for the types.
- `TimeIsCountedOnce`. The gate gives that the stored session is the one the
  operation under way has read, so no session is ended twice or written over.
  But rows are written later than they are read, and by others, so what holds of
  `tracked` must hold of every copy in somebody's hands. `TrackingInv` says it
  with the `Room` of a task: how long its sessions lasted without the one under
  way, or what ClickUp counts. Room never shrinks, so a time that `Fits` when it
  is read fits when it is written, by a stop, an edit or a pull; and what a stop
  adds fits since it is what the session it ends leaves free. Equality for a
  local task needs that a stop's copy is the row itself, unless an edit has set
  the row back meanwhile (`Exact`).

**`HierarchyProofs`: the tables and the pull that fills them.**
- The tables: `OnlyRivalsLose`, `OnlyStaleUpdatesRevive`,
  `FailedCallsWereCrossed` and `OwnershipHolds`. The last is what the keys of the
  schema keep; the schema alone implies none of the others.
  `StoreInv` says that a call past its checks holds a row that hangs right in
  the table as it is now, which stays true because kinds, owners and remote ids
  never change and no row is removed; that ids handed out are not anybody
  else's; that a row about to be read back is in its place or has been moved; and
  that an upsert which cannot insert has met a row of its identity.
  The proof of `OnlyStaleUpdatesRevive` failed at first: a stale update can write
  back not only a live row but a tombstone it has read, and another caller's
  update crosses that write as it would cross a delete. The history `during`
  counts both now; TLC shows the difference with 4 calls, and the run has 3.
- The pull: `ParentsAreStored`, `TombstonesWhatIsGone` and
  `GivesUpOnlyOnTornListing`. `PullInv` says that what is mapped waits for
  parents that are listed, or names one with a row, and that rows stay. For the
  last it adds `RoundHolds`: until a round has stored something, all it has put
  off waits for listed tasks without a row, and what was listed and has no row
  is still in the batch or put off. A round that gives up has therefore put off
  a set of tasks closed under parents, which is what `Acyclic` excludes.

**`ServiceProofs`: commands and requests.**
- Commands: `ItemsSurvive` and `QueueTellsTheRow`. That an item has a live row is
  not inductive; what is (`LatestLives`) is that from every row of an item on
  there is a live one, since a copy gets a later row. A command under way knows
  of the row it loaded what others' writes leave true (`Stands`): its item and
  provider, and that a row it will delete, or finds deleted, has a successor.
- Requests: `OnePerInterval` from `PacerInv` (slots under way are distinct, not
  past, and below the next one; a request sent in this interval has used up its
  slot), `RateLimitIsKept` from `BackoffInv` (the time barred is contained in the
  time due, and over while the pusher is in a call).

**`LifecycleProofs`: the process and what it keeps for the user.** -
`StoreOutlivesSync` from the order of the shutdown (by the time the store is
closed the controller is closing and no request is registered), and
`EngineOwnsWorkers` from `OneStopper`: with one caller of `Stop`, as in the
program, an engine that is started belongs to its last run. With two callers
it is false. - `PromptIsEnough`, `SetupOpens`, `SavedSetupHasToken`,
`ServerIsForEver`.   `SetupInv` says what a start carries from step to step: who
has asked for a   token has one once the configuration is saved. -
`ViewsFollowTheUser`: what the user chose is lost, or it is remembered during a
run, and stored unless it was changed in this run (`ViewsInv`). One lemma says
what a message   leaves of the views whatever it does to node and view. -
`EditReachesItsTask`, `OnlyEditsAreSent`, `EditsLand`: a document keeps the
identity it was rendered with, and what is sent is a reading of the document
saved (`EditorInv`).

**`ScreenProofs`: the screen and the stream that reloads it.**
- The screen: a deletion hits the task its prompt named, an edit goes to the task
  it began with unless it is a title whose task has left the rows, the marked
  row is the selected task, the filter is the list's.
  Every message ends in `selectTaskAt` and the bookkeeping around `Update`, so
  the lemmas say once what those two leave of a selection, and each key and
  snapshot is reduced to them.
- The stream: no send waits, and the view is fresh at rest. `StreamInv` says who
  is inside `Emit`, how much of the channel the one inside has taken out, and
  where a reload still due is on its way. A reader can only make room, which is
  why the refill is safe beside it.

**`RowsProofs`: the task panel.** `MarkIsTarget`, `NothingIsLost`,
`CursorIsOnScreen` and `MovesByOne`, for any forest of tasks.
- Rows. A finite set in a strict total order has one listing (`ListingExists`,
  `ListingUnique`), so it is enough that the order of the rows is one
  (`TreeOrders`): of two tasks one is above the other, or the lines above them
  part at two siblings, or at two without a parent. Acyclicity is used where a
  least task of a line, and the topmost, are picked. A row and all above it are
  in one group (`FamilyHasOneGroup`), so groups divide the tasks, and of the
  tasks a collapsed one leaves out, the topmost collapsed one above has a row
  (`LeftOutIsBelowARow`).
- The cursor. `Follows` is the invariant: at a header the row index is -1; at a
  row it is the place of the selected task; and where no row is shown, the task
  that stays selected is in no closed group, so that no key acts on it. One lemma
  per key, and one for a snapshot,
  reduces what the code does to `SelectTaskAt`, `SelectTaskRef` and
  `FocusHeader`. The one hard key is `space` on a task: rows below it come or go,
  and in a grouped or uniform list the cursor still stands at the task, because no
  row before it is below it (`ToggleKeepsPlace`).
- Scrolling. Every step but the one into the panel ends in `KeepVisible`
  (`RowsStep`), and the line of the cursor does not depend on the offset.
- Movements. The code counts twice: rows without headers, to select one
  (`taskGroupRowStart`), and lines with them, to scroll (`taskVisualPosition`).
  `LinesFacts` and `RowStartIsLead` say where a group begins in either count, so
  that each stop of `MoveGrouped` has the line next to the one before.

The models are written with the proofs in mind: no RECURSIVE operator outside
`TaskQuery`, sums and orders by set and function instead of by
sequence where the code's order does not matter, record updates one level at a
time. Where an induction is needed (the least of some numbers, the rank of a
row) it is by well-foundedness: a least counterexample has a smaller one.

Only model-checked:
- what is liveness: `EverySettled`, `Converges`, `EveryTaskIsShown`,
  `CacheFollows`, `SessionFollowsTimer`, `EveryRunIsShown`, `ShutdownEnds`.
  Fairness and ENABLED are beyond the prover;
- `ParserFollowsGrammar` and `OffersAreAccepted`: filters are recursive over
  data, and induction over data is beyond the prover too. They are checked on
  filters of up to four tokens;
- `FixedComesFirst`, about an order of columns that is a CHOOSE.

## Findings

1. A task that moved to a list the cache does not know yet is deleted in the
   cache, for good, by a pull of its old list (`pull_moved`).
2. A pull can overwrite an edit saved while it ran and call the row synced while
   the edit is queued (`replica_edit`). `Converges` holds all the same: the
   queued snapshot restores the edit when it is pushed.
3. Claims order operations by timestamps as text of varying length, so a newer
   operation can go out before an older one (`claim_order`).

Claims of the documentation that TLC refutes as well, each with a cfg to see it:

| Command | Claim | What happens |
|---|---|---|
| `tlc -config MCTaskReplicaPending.cfg MCTaskReplica` | `foundation.go:1356-1358`: the push resolves the pending state | a refresh that read the row before writes the pending state back; the row refuses remote changes until it is edited |
| `tlc -config MCSyncWorkerOnce.cfg MCSyncWorker` | `README.md:116`: a failed operation remains queued | with `sync.retry_failed` off, or a terminal error, one failure settles it |
| `tlc -config MCTimeTrackingFailed.cfg MCTimeTracking` | `foundation.go:1647`: failure events reload the view | a cycle that ends in a failed push has changed the cache and reloads nothing |
| `tlc -config MCTerminalToggle.cfg MCTerminal` | `README.md:63-64`: `space` folds just that task's subtasks | in a plain list the cursor stays at its row number, on another task |
| `tlc -config MCTerminalQuit.cfg MCTerminal` | `tui/model.go:254-255`: the view used the last time a list was viewed is kept | a quit stores the view on the screen as that of the list loaded last (`foundation.go:3031`), also when the cursor is on the workspace row; at the next start the list has a view the user never gave it |

Stated in the modules, and not kept by the code either: `EveryOfferIsAccepted`
(completion offers NOT after a condition), `StartKeepsViews` (an interrupted
start stores an empty state), `OthersKeepTheirChanges` (a saved document undoes
what came in while the editor was open).

What the passing properties except, because the code does it: a second remote
task when an id was lost with a crash, a second row when a pull crossed a create
or an edit erased the id (`OneTaskEach`); a deletion undone by an update that
had read the row before (`OnlyStaleUpdatesRevive`); a call that answers with an
error and has written, since its row was moved before it was read back
(`FailedCallsWereCrossed`); minutes of a local task that an edit takes away by
writing the row it had read before a stop, and minutes of a ClickUp task counted
twice when a pull crossed a stop (`TimeIsCountedOnce`); another field's change
lost when two commands on one task cross (`QueueTellsTheRow` asks only that
queue and row agree); lists that moved to another space or came back from the
archive (`CacheFollows`); two concurrent callers of `Engine.Stop`
(`EngineOwnsWorkers`); an environment that contradicts the setup (`SetupOpens`);
subtasks whose parent is not loaded (`NothingIsLost`); a title typed for a task
whose row has gone, which goes to the row selected instead (`EditKeepsTask`);
the view of a list lost at the end of a run in one of three ways
(`ViewsFollowTheUser`); a document without its id line (`EditReachesItsTask`).

## Not modelled, and why

- Pushes of lists and spaces, pushes that move a task between lists, the status
  record and the interval loop of the worker; the first two reuse the task's
  path, the program does not start the last.
- Two processes that both track time: the session of one is not locked against
  the other's reads, and minutes could be lost. `TimeTracking` is one process.
- The second request of one attempt: the rollback DELETE of a create that fails
  half-way (`clickup/provider.go:745-746`) may leave while a rate limit bars the
  provider. In `RemoteCalls` an attempt is one request.
- Rendering, key bindings, the board of editable fields, the completion of
  prompts other than the filter's, search ranking: no state that outlives a key.
- HTTP transport, JSON, SQL text, migrations other than 004, logging, printing of
  the command line: input and output over data no property tells apart.
- `internal/config` beyond `DefaultPath`, the keyring and the encrypted
  credential store, and the earlier bootstrap graph: the program does not use
  them.

What would come next: that the pull's merge of fields refines an abstract
three-way merge; `TaskCreation` and `TaskReplica` over one row, so that
imports meet merges.
