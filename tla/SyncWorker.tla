------------------------------ MODULE SyncWorker ------------------------------
(***************************************************************************)
(* The workers of internal/sync/worker.go over the durable queue, and the  *)
(* provider they push to.                                                  *)
(*                                                                         *)
(* Each member of Owner is a process that has the database file open: the  *)
(* user interface and a `sync` command run side by side are two of them.   *)
(* Within a process the channel "once" lets one SyncOnce of a provider run *)
(* at a time, so a member runs one cycle.                                  *)
(*                                                                         *)
(* A cycle is: recover stale leases; then claim, push, settle, until the   *)
(* queue is empty or something fails.  The push is a request on the wire   *)
(* that the provider applies at some moment, if at all; the call may fail  *)
(* after the request was applied.  A process may crash anywhere, a store   *)
(* call may fail, and the request's context may be cancelled anywhere.     *)
(*                                                                         *)
(* A behaviour is prompt when calls end while the lease lives (HTTP calls  *)
(* time out after 15 s, the lease is 5 min) and a failed call leaves       *)
(* nothing on the wire.  In the others a process may be suspended for any  *)
(* time.                                                                   *)
(***************************************************************************)
EXTENDS SyncQueue

CONSTANTS
    Remote,       \* the provider the workers serve
    MaxAttempts,  \* RetryPolicy.MaxAttempts; 0 means no limit
    MaxFaults     \* how many crashes, errors and cancellations happen in all

ASSUME WorkerAssumption ==
    /\ Remote \in Provider
    /\ MaxAttempts \in 0..AttemptCap
    /\ MaxFaults \in Nat
    /\ MaxDelay > 0

VARIABLES
    pc,         \* where each worker is in SyncOnce
    cur,        \* the operation it has claimed, 0 when none
    cancelled,  \* whether the context of its cycle is done
    landed,     \* whether the request of its current call was applied
    wire,       \* requests sent and not applied: <<operation, worker>>
    applied,    \* operations the provider has applied at least once
    remote,     \* the operation each remote entity last took its value from
    faults,     \* faults still to come
    prompt      \* whether calls end while the lease lives

workerVars == <<pc, cur, cancelled, landed>>
providerVars == <<wire, applied, remote>>
vars == <<queueVars, workerVars, providerVars, faults, prompt>>

Step == {"off", "idle", "recover", "claim", "ready", "calling", "succeeded", "failed"}

WorkerTypeOK ==
    /\ QueueTypeOK
    /\ pc \in [Owner -> Step]
    /\ cur \in [Owner -> Op \cup {0}]
    /\ cancelled \in [Owner -> BOOLEAN]
    /\ landed \in [Owner -> BOOLEAN]
    /\ wire \subseteq Op \X Owner
    /\ applied \subseteq Op
    /\ remote \in [Entity -> Op \cup {0}]
    /\ faults \in 0..MaxFaults
    /\ prompt \in BOOLEAN

Init ==
    /\ QueueInit
    /\ pc = [w \in Owner |-> "off"]
    /\ cur = [w \in Owner |-> 0]
    /\ cancelled = [w \in Owner |-> FALSE]
    /\ landed = [w \in Owner |-> FALSE]
    /\ wire = {}
    /\ applied = {}
    /\ remote = [e \in Entity |-> 0]
    /\ faults \in 0..MaxFaults
    /\ prompt \in BOOLEAN

-----------------------------------------------------------------------------
GoTo(w, s) == pc' = [pc EXCEPT ![w] = s]

\* SyncOnce returns: the claim, if any, is forgotten.
Return(w) ==
    /\ GoTo(w, "idle")
    /\ cur' = [cur EXCEPT ![w] = 0]
    /\ cancelled' = [cancelled EXCEPT ![w] = FALSE]
    /\ landed' = [landed EXCEPT ![w] = FALSE]

SpendFault == faults > 0 /\ faults' = faults - 1

MayRetry(o) == MaxAttempts = 0 \/ row[o].attempts < MaxAttempts

-----------------------------------------------------------------------------
(* The user and the process. *)

Submit(o, e) ==
    /\ ProviderOf[e] = Remote
    /\ Enqueue(o, e)
    /\ UNCHANGED <<workerVars, providerVars, faults>>

\* A process starts under a random workerID.  A member whose process died stands
\* for the new one as well, even while rows still carry its name: a worker only
\* settles what it claimed itself (cur), so the name cannot be mistaken.
Open(w) ==
    /\ pc[w] = "off"
    /\ \A o \in Op : <<o, w>> \notin wire
    /\ GoTo(w, "idle")
    /\ UNCHANGED <<queueVars, cur, cancelled, landed, providerVars, faults>>

\* Somebody asks for a synchronization: a key press or the sync command.
Request(w) ==
    /\ pc[w] = "idle"
    /\ GoTo(w, "recover")
    /\ UNCHANGED <<queueVars, cur, cancelled, landed, providerVars, faults>>

\* The context of the cycle is cancelled: shutdown, or an interrupt.
Cancel(w) ==
    /\ pc[w] \notin {"off", "idle"}
    /\ ~cancelled[w]
    /\ SpendFault
    /\ cancelled' = [cancelled EXCEPT ![w] = TRUE]
    /\ UNCHANGED <<queueVars, pc, cur, landed, providerVars>>

\* The process dies.  What it sent stays on the wire, what it claimed stays claimed.
Crash(w) ==
    /\ pc[w] # "off"
    /\ SpendFault
    /\ GoTo(w, "off")
    /\ cur' = [cur EXCEPT ![w] = 0]
    /\ cancelled' = [cancelled EXCEPT ![w] = FALSE]
    /\ landed' = [landed EXCEPT ![w] = FALSE]
    /\ UNCHANGED <<queueVars, providerVars>>

-----------------------------------------------------------------------------
(* The steps of SyncOnce. *)

\* RecoverStale is called with now - LeaseTTL: only leases a whole TTL old.
Recover(w) ==
    /\ pc[w] = "recover"
    /\ ~cancelled[w]
    /\ RequeueStale(Remote, LeaseTTL)
    /\ GoTo(w, "claim")
    /\ UNCHANGED <<cur, cancelled, landed, providerVars, faults>>

ClaimNext(w) ==
    /\ pc[w] = "claim"
    /\ ~cancelled[w]
    /\ \E o \in Op : Claim(o, Remote, w) /\ cur' = [cur EXCEPT ![w] = o]
    /\ GoTo(w, "ready")
    /\ UNCHANGED <<cancelled, landed, providerVars, faults>>

\* The queue is empty, or the context is done before anything was claimed.
Finish(w) ==
    /\ \/ pc[w] = "claim" /\ QueueEmpty(Remote)
       \/ pc[w] \in {"recover", "claim"} /\ cancelled[w]
    /\ Return(w)
    /\ UNCHANGED <<queueVars, providerVars, faults>>

Send(w) ==
    /\ pc[w] = "ready"
    /\ ~cancelled[w]
    /\ wire' = wire \cup {<<cur[w], w>>}
    /\ landed' = [landed EXCEPT ![w] = FALSE]
    /\ GoTo(w, "calling")
    /\ UNCHANGED <<queueVars, cur, cancelled, applied, remote, faults>>

\* Faulty variant of Succeed: a request counts as applied once it is sent.
SucceedWhenSent(w) ==
    /\ pc[w] = "calling"
    /\ GoTo(w, "succeeded")
    /\ UNCHANGED <<queueVars, cur, cancelled, landed, providerVars, faults>>

\* The push returns without an error.
Succeed(w) ==
    /\ pc[w] = "calling"
    /\ landed[w]
    /\ GoTo(w, "succeeded")
    /\ UNCHANGED <<queueVars, cur, cancelled, landed, providerVars, faults>>

\* The push returns an error, applied or not.
PushError(w) ==
    /\ pc[w] = "calling"
    /\ SpendFault
    /\ GoTo(w, "failed")
    /\ wire' = IF prompt THEN wire \ {<<cur[w], w>>} ELSE wire
    /\ UNCHANGED <<queueVars, cur, cancelled, landed, applied, remote>>

\* Faulty variant of Acknowledge: the error of the push is not looked at.
AcknowledgeAnyway(w) ==
    /\ pc[w] \in {"succeeded", "failed"}
    /\ Complete(cur[w], w)
    /\ GoTo(w, "claim")
    /\ cur' = [cur EXCEPT ![w] = 0]
    /\ landed' = [landed EXCEPT ![w] = FALSE]
    /\ UNCHANGED <<cancelled, providerVars, faults>>

\* Complete, and back to the claim.
Acknowledge(w) ==
    /\ pc[w] = "succeeded"
    /\ Complete(cur[w], w)
    /\ GoTo(w, "claim")
    /\ cur' = [cur EXCEPT ![w] = 0]
    /\ landed' = [landed EXCEPT ![w] = FALSE]
    /\ UNCHANGED <<cancelled, providerVars, faults>>

\* A failed push that may be tried again: the cycle ends, the row waits.
ScheduleRetry(w) ==
    /\ pc[w] = "failed"
    /\ ~cancelled[w]
    /\ MayRetry(cur[w])
    /\ \E d \in 1..MaxDelay : RetryAt(cur[w], w, d)
    /\ Return(w)
    /\ UNCHANGED <<providerVars, faults>>

\* A failed push whose error is terminal, or whose attempts are used up.
Reject(w) ==
    /\ pc[w] = "failed"
    /\ ~cancelled[w]
    /\ Fail(cur[w], w)
    /\ Return(w)
    /\ UNCHANGED <<providerVars, faults>>

\* cancelClaim: the context is done, or the provider reports a cancellation.
Withdraw(w) ==
    /\ \/ pc[w] = "failed"
       \/ pc[w] = "ready" /\ cancelled[w]
    /\ Release(cur[w], w)
    /\ Return(w)
    /\ UNCHANGED <<providerVars, faults>>

\* The lease ran out meanwhile: the write matches no row, the cycle ends.
LeaseLost(w) ==
    /\ \/ pc[w] \in {"succeeded", "failed"}
       \/ pc[w] = "ready" /\ cancelled[w]
    /\ ~Holds(cur[w], w)
    /\ Return(w)
    /\ UNCHANGED <<queueVars, providerVars, faults>>

\* A store call fails: the cycle ends and leaves the row as it is.
StoreError(w) ==
    /\ \/ pc[w] \in {"recover", "claim", "succeeded", "failed"}
       \/ pc[w] = "ready" /\ cancelled[w]
    /\ SpendFault
    /\ Return(w)
    /\ UNCHANGED <<queueVars, providerVars>>

-----------------------------------------------------------------------------
(* The provider and the clock. *)

Apply(o, w) ==
    /\ <<o, w>> \in wire
    /\ wire' = wire \ {<<o, w>>}
    /\ applied' = applied \cup {o}
    /\ remote' = [remote EXCEPT ![row[o].entity] = o]
    /\ landed' = [landed EXCEPT ![w] = @ \/ (pc[w] = "calling" /\ cur[w] = o)]
    /\ UNCHANGED <<queueVars, pc, cur, cancelled, faults>>

\* Somebody is between the claim of o and its settlement, or o is on the wire.
Engaged(o) == \E w \in Owner : cur[w] = o \/ <<o, w>> \in wire

TimePasses ==
    /\ prompt => \A o \in Op : Engaged(o) => row[o].lease > 1
    /\ Tick
    /\ UNCHANGED <<workerVars, providerVars, faults>>

-----------------------------------------------------------------------------
CycleStep(w) ==
    \/ Recover(w) \/ ClaimNext(w) \/ Finish(w) \/ Send(w) \/ Succeed(w)
    \/ Acknowledge(w) \/ ScheduleRetry(w) \/ Reject(w) \/ Withdraw(w) \/ LeaseLost(w)

Fault(w) == Cancel(w) \/ Crash(w) \/ PushError(w) \/ StoreError(w)

Next ==
    /\ \/ \E o \in Op, e \in Entity : Submit(o, e)
       \/ \E w \in Owner : Open(w) \/ Request(w) \/ CycleStep(w) \/ Fault(w)
       \/ \E o \in Op, w \in Owner : Apply(o, w)
       \/ TimePasses
    /\ UNCHANGED prompt

Spec == Init /\ [][Next]_vars

\* A running cycle goes on, synchronization is asked for again and again, a
\* stopped program is started again, a request that nobody abandons is applied
\* and time passes.
Fairness ==
    /\ \A w \in Owner :
        /\ WF_vars(CycleStep(w) /\ UNCHANGED prompt)
        /\ WF_vars(Request(w) /\ UNCHANGED prompt)
        /\ WF_vars(Open(w) /\ UNCHANGED prompt)
    /\ \A o \in Op, w \in Owner : WF_vars(Apply(o, w) /\ UNCHANGED prompt)
    /\ WF_vars(TimePasses /\ UNCHANGED prompt)

FairSpec == Spec /\ Fairness

-----------------------------------------------------------------------------
(* Properties *)

\* An operation is acknowledged only when the provider has applied it: no
\* interleaving of crashes, expired leases and second workers loses an edit that
\* the queue calls completed (worker.go:272-293).
CompletedWasApplied ==
    \A o \in Op : row[o].status = "completed" => o \in applied

\* While calls are prompt, what a worker has claimed and not settled is its own:
\* nobody else claims it, settles it or pushes another operation of that entity.
ClaimIsExclusive ==
    prompt =>
      \A w \in Owner : cur[w] # 0 =>
         /\ Holds(cur[w], w)
         /\ \A v \in Owner : v # w /\ cur[v] # 0 => ~SameEntity(cur[v], cur[w])

\* While calls are prompt, a remote entity never goes back to an operation older
\* than the one it shows, however often operations are pushed again.
RemoteNeverGoesBack ==
    [][prompt => \A e \in Entity : remote'[e] >= remote[e]]_vars

\* The promise of the synchronization as a whole: at-least-once delivery in the
\* order of each entity, while calls are prompt.  Retries, releases, recoveries,
\* crashes and the whole life of leases are steps the promise does not see; where
\* calls are not prompt it is given nothing to see.
OutcomeOf(o) ==
    CASE ~Exists(o) -> "none"
      [] row[o].status = "completed" -> "acknowledged"
      [] row[o].status = "failed" /\ ~row[o].retryable -> "rejected"
      [] OTHER -> "open"

Seen(value, nothing) == IF prompt THEN value ELSE nothing

Promise ==
    INSTANCE Delivery WITH
        about     <- Seen([o \in Op |-> row[o].entity], [o \in Op |-> NoEntity]),
        outcome   <- Seen([o \in Op |-> OutcomeOf(o)], [o \in Op |-> "none"]),
        delivered <- Seen(applied, {}),
        remote    <- Seen(remote, [e \in Entity |-> 0])

DeliversInOrder == Promise!Spec

\* What README.md says: "If synchronization fails, the operation remains in the
\* SQLite queue for a later CLI invocation or TUI session."  A push that fails
\* leaves its operation claimable again.
FailedPushStaysQueued ==
    [][\A w \in Owner, o \in Op :
         cur[w] = o /\ pc[w] = "failed" /\ pc'[w] = "idle" => ~Settled(o)']_vars

\* Every operation the user makes is settled in the end: acknowledged, or
\* rejected for good.  Needs synchronization to be asked for again and again, and
\* prompt calls: two processes that both outlive their leases take an operation
\* from each other for ever.
EverySettled ==
    \A o \in Op : prompt /\ Exists(o) ~> Settled(o)
=============================================================================
