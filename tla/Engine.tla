-------------------------------- MODULE Engine --------------------------------
(***************************************************************************)
(* sync.Engine (internal/sync/engine.go): Start launches the workers and a *)
(* goroutine that closes `done` when all of them have returned; Stop       *)
(* cancels them and waits for `done` or for its own context.  The program  *)
(* drives its workers request by request and never calls Start; the engine *)
(* offers both to whoever embeds it.                                       *)
(***************************************************************************)
EXTENDS Integers

CONSTANTS
    Worker,
    Stopper,  \* callers of Stop
    MaxEngineRuns   \* how often the engine is started

ASSUME EngineAssumption == MaxEngineRuns \in Nat

VARIABLES
    started,    \* Engine.started
    current,    \* the run whose done channel and cancel function the engine holds
    alive,      \* for each run, its workers that have not returned
    stopped,    \* runs whose context is cancelled
    closed,     \* runs whose done channel is closed
    stopping    \* for each caller of Stop, the run it waits for

evars == <<started, current, alive, stopped, closed, stopping>>

NoRun == 0
RunId == 1..MaxEngineRuns

EngineTypeOK ==
    /\ started \in BOOLEAN
    /\ current \in RunId \cup {NoRun}
    /\ alive \in [RunId -> SUBSET Worker]
    /\ stopped \subseteq RunId
    /\ closed \subseteq RunId
    /\ stopping \in [Stopper -> RunId \cup {NoRun}]

EngineInit ==
    /\ started = FALSE
    /\ current = NoRun
    /\ alive = [r \in RunId |-> {}]
    /\ stopped = {}
    /\ closed = {}
    /\ stopping = [s \in Stopper |-> NoRun]

\* Runs are numbered in the order in which they are started.
Used == {r \in RunId : r \in closed \/ r = current \/ \E q \in closed : r < q}

EngineStart(r) ==
    /\ ~started
    /\ r \notin Used
    /\ \A q \in RunId : q < r => q \in Used
    /\ started' = TRUE
    /\ current' = r
    /\ alive' = [alive EXCEPT ![r] = Worker]
    /\ UNCHANGED <<stopped, closed, stopping>>

\* The context given to Start ends.
ParentEnds ==
    /\ current # NoRun
    /\ stopped' = stopped \cup {current}
    /\ UNCHANGED <<started, current, alive, closed, stopping>>

WorkerReturns(r, w) ==
    /\ r \in stopped
    /\ w \in alive[r]
    /\ alive' = [alive EXCEPT ![r] = @ \ {w}]
    /\ UNCHANGED <<started, current, stopped, closed, stopping>>

\* The goroutine that waits for the workers closes the channel the engine holds.
CloseDone(r) ==
    /\ r \in stopped \ closed
    /\ alive[r] = {}
    /\ closed' = closed \cup {current}
    /\ UNCHANGED <<started, current, alive, stopped, stopping>>

EngineStop(s) ==
    /\ stopping[s] = NoRun
    /\ started
    /\ stopped' = stopped \cup {current}
    /\ stopping' = [stopping EXCEPT ![s] = current]
    /\ UNCHANGED <<started, current, alive, closed>>

\* The workers have returned: the engine may be started again.
StopCompletes(s) ==
    /\ stopping[s] \in closed
    /\ started' = FALSE
    /\ current' = NoRun
    /\ stopping' = [stopping EXCEPT ![s] = NoRun]
    /\ UNCHANGED <<alive, stopped, closed>>

\* Broken: the engine counts as stopped although its workers are still on their way.
StopExpiresReset(s) ==
    /\ stopping[s] # NoRun
    /\ started' = FALSE
    /\ current' = NoRun
    /\ stopping' = [stopping EXCEPT ![s] = NoRun]
    /\ UNCHANGED <<alive, stopped, closed>>

\* The caller's context ends first: the engine stays started.
StopExpires(s) ==
    /\ stopping[s] # NoRun
    /\ stopping' = [stopping EXCEPT ![s] = NoRun]
    /\ UNCHANGED <<started, current, alive, stopped, closed>>

EngineNext ==
    \/ \E r \in RunId : EngineStart(r) \/ CloseDone(r) \/ \E w \in Worker : WorkerReturns(r, w)
    \/ ParentEnds
    \/ \E s \in Stopper : EngineStop(s) \/ StopCompletes(s) \/ StopExpires(s)

EngineSpec == EngineInit /\ [][EngineNext]_evars

-----------------------------------------------------------------------------
\* While the engine says it is not running none of its workers is, however often a stop
\* ran out of time before: the next Start never adds workers to those of an earlier run.
\* (Holds for one caller of Stop at a time.)
EngineOwnsWorkers == ~started => \A r \in RunId : alive[r] = {}
=============================================================================
