------------------------------ MODULE SyncQueue ------------------------------
(***************************************************************************)
(* The durable operation queue of internal/storage/sqlite/queue.go.        *)
(*                                                                         *)
(* A row is one task mutation waiting to reach its provider.  Rows are     *)
(* numbered in the order in which their transactions commit: the stamp     *)
(* created_at is taken inside the write transaction that inserts the row   *)
(* (task.go mutateTask, queue.go prepareOperation), so the claim order     *)
(* (created_at, id) is the row number.  (What the textual form of the      *)
(* stamp does to that order is the subject of ClaimOrder.)                 *)
(*                                                                         *)
(* Time is relative: "wait" is next_attempt_at - now and "lease" is        *)
(* lease_expires_at - now.  Tick lets one unit pass.  wait saturates at 0  *)
(* (due) and lease at -LeaseTTL (expired for a whole TTL), the smallest    *)
(* values any guard of the code tells apart, so nothing is lost and the    *)
(* clock needs no bound.                                                   *)
(*                                                                         *)
(* The clients are unconstrained here: any owner may call any operation    *)
(* at any time.  SyncWorker restricts them to what the workers do.         *)
(***************************************************************************)
EXTENDS Integers

CONSTANTS
    Entity,      \* the (provider, entity type, entity id) triples rows are about
    Provider,    \* provider ids
    ProviderOf,  \* the provider an entity belongs to
    Owner,       \* lease owners: the workerID each open Store draws at random
    NoOwner,     \* lease_owner IS NULL
    NoEntity,    \* the entity of a row that does not exist yet
    MaxOps,      \* how many rows are ever inserted
    LeaseTTL,    \* defaultLease, in ticks
    MaxDelay,    \* the longest retry delay, in ticks
    AttemptCap   \* attempts saturates here: no decision looks beyond it

ASSUME QueueAssumption ==
    /\ ProviderOf \in [Entity -> Provider]
    /\ NoOwner \notin Owner
    /\ NoEntity \notin Entity
    /\ MaxOps \in Nat
    /\ LeaseTTL \in Nat \ {0}
    /\ MaxDelay \in Nat
    /\ AttemptCap \in Nat \ {0}

VARIABLES
    row,        \* the table sync_operations
    syncState   \* the sync_state column of each entity

queueVars == <<row, syncState>>

-----------------------------------------------------------------------------
Op == 1..MaxOps

Status == {"absent", "pending", "syncing", "failed", "completed"}

Row == [entity    : Entity \cup {NoEntity},
        status    : Status,
        retryable : BOOLEAN,
        wait      : 0..MaxDelay,
        owner     : Owner \cup {NoOwner},
        lease     : (-LeaseTTL)..LeaseTTL,
        attempts  : 0..AttemptCap]

NoRow == [entity |-> NoEntity, status |-> "absent", retryable |-> TRUE, wait |-> 0,
          owner |-> NoOwner, lease |-> 0, attempts |-> 0]

\* The sync states the queue writes; a task that was never mutated is synced.
EntityState == {"synced", "pending", "syncing", "failed"}

QueueTypeOK ==
    /\ row \in [Op -> Row]
    /\ syncState \in [Entity -> EntityState]

-----------------------------------------------------------------------------
Exists(o) == row[o].status # "absent"
SameEntity(o, q) == row[o].entity = row[q].entity

\* A row that can never be claimed again: done, or failed for good.
Settled(o) ==
    \/ row[o].status = "completed"
    \/ row[o].status = "failed" /\ ~row[o].retryable

Due(o) ==
    \/ row[o].status = "pending" /\ row[o].wait = 0
    \/ row[o].status = "failed" /\ row[o].retryable /\ row[o].wait = 0
    \/ row[o].status = "syncing" /\ row[o].lease =< 0

\* Faulty variants of Unblocked: rows waiting for their retry do not block; rows
\* in flight do not block; rows that failed for good block.
UnblockedByBackoff(o) ==
    \A q \in Op : q < o /\ SameEntity(q, o) => Settled(q) \/ row[q].wait > 0
UnblockedByFlight(o) ==
    \A q \in Op : q < o /\ SameEntity(q, o) => Settled(q) \/ row[q].status = "syncing"
UnblockedByCompletion(o) ==
    \A q \in Op : q < o /\ SameEntity(q, o) => row[q].status = "completed"

\* The NOT EXISTS clause of the claim: an unsettled prior row of the entity blocks.
Unblocked(o) == \A q \in Op : q < o /\ Exists(q) /\ SameEntity(q, o) => Settled(q)

Eligible(o, p) ==
    /\ Exists(o)
    /\ ProviderOf[row[o].entity] = p
    /\ Due(o)
    /\ Unblocked(o)

\* The row the ORDER BY created_at, id LIMIT 1 of the claim selects.
NextEligible(o, p) == Eligible(o, p) /\ \A q \in Op : Eligible(q, p) => o =< q

QueueEmpty(p) == \A o \in Op : ~Eligible(o, p)

Holds(o, w) == row[o].status = "syncing" /\ row[o].owner = w /\ row[o].lease > 0

-----------------------------------------------------------------------------
\* A terminal-looking row an older version left behind: migration 004 adds the
\* column retryable with default 1, so such a row is still claimable.
UpgradedRow(e) == [NoRow EXCEPT !.entity = e, !.status = "failed", !.attempts = 1]

QueueInit ==
    \/ /\ row = [o \in Op |-> NoRow]
       /\ syncState = [e \in Entity |-> "synced"]
    \/ \E u \in Entity :
         /\ row = [o \in Op |-> IF o = 1 THEN UpgradedRow(u) ELSE NoRow]
         /\ syncState = [e \in Entity |-> IF e = u THEN "failed" ELSE "synced"]

\* What one call makes of the row it writes.
Bump(n) == IF n < AttemptCap THEN n + 1 ELSE n
NewRow(e) == [NoRow EXCEPT !.entity = e, !.status = "pending"]
Claimed(r, w) ==
    [r EXCEPT !.status = "syncing", !.owner = w, !.lease = LeaseTTL, !.attempts = Bump(@)]
Completed(r) ==
    [r EXCEPT !.status = "completed", !.owner = NoOwner, !.lease = 0, !.wait = 0]
Deferred(r, d) ==
    [r EXCEPT !.status = "pending", !.retryable = TRUE, !.owner = NoOwner, !.lease = 0,
              !.wait = d]
Failed(r) ==
    [r EXCEPT !.status = "failed", !.retryable = FALSE, !.owner = NoOwner, !.lease = 0,
              !.wait = 0]
Requeued(r) == [r EXCEPT !.status = "pending", !.owner = NoOwner, !.lease = 0, !.wait = 0]
Aged(r) ==
    [r EXCEPT !.wait  = IF @ > 0 THEN @ - 1 ELSE 0,
              !.lease = IF r.status = "syncing" /\ @ > -LeaseTTL THEN @ - 1 ELSE @]

\* ApplyTaskMutation: the task row and the queue row commit in one transaction.
Enqueue(o, e) ==
    /\ ~Exists(o)
    /\ \A q \in Op : q < o => Exists(q)
    /\ row' = [row EXCEPT ![o] = NewRow(e)]
    /\ syncState' = [syncState EXCEPT ![e] = "pending"]

\* claimOperationAt: one UPDATE ... RETURNING and the entity state, one transaction.
Claim(o, p, w) ==
    /\ NextEligible(o, p)
    /\ row' = [row EXCEPT ![o] = Claimed(@, w)]
    /\ syncState' = [syncState EXCEPT ![row[o].entity] = "syncing"]

\* Faulty variant of Complete: the entity keeps its state.
CompleteRowOnly(o, w) ==
    /\ Holds(o, w)
    /\ row' = [row EXCEPT ![o] = Completed(@)]
    /\ UNCHANGED syncState

\* completeOperation
Complete(o, w) ==
    /\ Holds(o, w)
    /\ row' = [row EXCEPT ![o] = Completed(@)]
    /\ syncState' = [syncState EXCEPT ![row[o].entity] = "synced"]

\* finishRetry with status pending: the operation waits d ticks for its next attempt.
RetryAt(o, w, d) ==
    /\ Holds(o, w)
    /\ row' = [row EXCEPT ![o] = Deferred(@, d)]
    /\ syncState' = [syncState EXCEPT ![row[o].entity] = "pending"]

\* releaseOperation
Release(o, w) == RetryAt(o, w, 0)

\* finishRetry with status failed: the failure is terminal.
Fail(o, w) ==
    /\ Holds(o, w)
    /\ row' = [row EXCEPT ![o] = Failed(@)]
    /\ syncState' = [syncState EXCEPT ![row[o].entity] = "failed"]

\* The rows requeueStaleOperations selects for a cutoff "age" ticks in the past.
Stale(p, age) ==
    {o \in Op : /\ row[o].status = "syncing"
                /\ ProviderOf[row[o].entity] = p
                /\ row[o].lease + age =< 0}

RequeueStale(p, age) ==
    /\ row' = [o \in Op |-> IF o \in Stale(p, age) THEN Requeued(row[o]) ELSE row[o]]
    /\ syncState' = [e \in Entity |->
                       IF \E o \in Stale(p, age) : row[o].entity = e
                       THEN "pending" ELSE syncState[e]]

\* One unit of time.
Tick ==
    /\ row' = [o \in Op |-> Aged(row[o])]
    /\ UNCHANGED syncState

QueueNext ==
    \/ \E o \in Op, e \in Entity : Enqueue(o, e)
    \/ \E o \in Op, p \in Provider, w \in Owner : Claim(o, p, w)
    \/ \E o \in Op, w \in Owner : Complete(o, w)
    \/ \E o \in Op, w \in Owner, d \in 0..MaxDelay : RetryAt(o, w, d)
    \/ \E o \in Op, w \in Owner : Fail(o, w)
    \/ \E p \in Provider, age \in 0..LeaseTTL : RequeueStale(p, age)
    \/ Tick

QueueSpec == QueueInit /\ [][QueueNext]_queueVars

-----------------------------------------------------------------------------
(* Properties *)

\* A row that was ever handed to a worker had every earlier row of its entity
\* settled, and they stay settled: the operations of one entity reach the
\* provider in the order the user made them (queue.go:119-130).
ClaimedInOrder ==
    \A o, q \in Op :
        /\ Exists(o) /\ row[o].attempts > 0
        /\ q < o /\ SameEntity(q, o)
        => Settled(q)

\* At most one row of an entity is syncing, expired leases included: two
\* workers are never both told to push the same entity (queue.go:108-130).
OneInFlightPerEntity ==
    \A o, q \in Op :
        /\ row[o].status = "syncing" /\ row[q].status = "syncing"
        /\ SameEntity(o, q)
        => o = q

\* What the UI shows for an entity agrees with the queue: it is "syncing" only
\* while a row of it is in flight, "synced" or "failed" never while one is
\* (queue.go:165, 214, 294, 349).  It is about the queue's own transactions:
\* push replies and pulls also write sync_state, which is TaskReplica's subject.
ShownStateMatchesFlight ==
    \A e \in Entity :
        /\ syncState[e] = "syncing" =>
             \E o \in Op : row[o].entity = e /\ row[o].status = "syncing"
        /\ syncState[e] \in {"synced", "failed"} =>
             \A o \in Op : row[o].entity = e => row[o].status # "syncing"

\* A live lease is exclusive: no claim or recovery hands a row to another owner,
\* or prolongs its lease, before the lease has run out (queue.go:116, 333-336).
LeaseNeverStolen ==
    [][\A o \in Op :
         /\ row[o].status = "syncing" /\ row[o].lease > 0
         /\ row'[o].status = "syncing"
         => /\ row'[o].owner = row[o].owner
            /\ row'[o].lease =< row[o].lease]_queueVars

\* A settled row never changes again: no step of any worker revives a completed
\* operation or retries a terminal failure.
SettledIsFinal ==
    [][\A o \in Op : Settled(o) => row'[o] = row[o]]_queueVars
=============================================================================
