------------------------------- MODULE Lifecycle -------------------------------
(***************************************************************************)
(* The runtime from start to shutdown (internal/bootstrap/runtime.go), the *)
(* goroutines of the user interface, and the controller that runs their    *)
(* synchronization requests (foundationSyncController).                    *)
(*                                                                         *)
(* Run is one thread: it starts the runtime, runs the interface until the  *)
(* user quits or a signal comes, and shuts down in order.  Next to it run  *)
(* the commands of the interface, which nobody waits for, the requests     *)
(* they scheduled, which Stop waits for, and the reader of events, which   *)
(* reloads from the store.                                                 *)
(***************************************************************************)
EXTENDS Integers, FiniteSets

CONSTANTS
    Job,     \* requests that may be scheduled
    Command  \* commands of the user interface in flight

VARIABLES
    step,       \* where Run is
    phase,      \* Runtime.phase
    uiReady,    \* Runtime.uiInitialized
    signalled,  \* the context of Run is cancelled
    open,       \* the store is open
    saved,      \* the state of the interface was saved
    accepting,  \* foundationHandler.accepting
    closing,    \* foundationSyncController.closing
    job,        \* the requests: their goroutine, counted by the wait group
    cancelled,  \* requests whose context Stop cancelled
    command,    \* the commands: their goroutine
    eventReader \* runSyncEvents

lifecycleVars == <<step, phase, uiReady, signalled, open, saved, accepting, closing, job, cancelled,
          command, eventReader>>

StartSteps == {"init", "load", "render"}
ShutdownSteps == {"stop_ui", "stop_handler", "save", "stop", "wait", "stop_again", "wait_again",
                  "close", "restore"}

\* Types, and Runtime.phase says what Run is doing.
LifecycleTypeOK ==
    /\ step \in {"new", "begin", "ui", "drain", "shutdown", "done"} \cup StartSteps \cup ShutdownSteps
    /\ phase \in {"new", "starting", "running", "shutting_down", "stopped"}
    /\ phase = "starting" <=> step \in StartSteps
    /\ phase = "shutting_down" <=> step \in ShutdownSteps
    /\ {uiReady, signalled, open, saved, accepting, closing} \subseteq BOOLEAN
    /\ job \in [Job -> {"none", "running", "storing", "leaving"}]
    /\ cancelled \subseteq Job
    /\ command \in [Command -> {"none", "begin", "admitted"}]
    /\ eventReader \in {"off", "waiting", "reloading"}

LifecycleInit ==
    /\ step = "new"
    /\ phase = "new"
    /\ uiReady = FALSE
    /\ signalled = FALSE
    /\ open = TRUE
    /\ saved = FALSE
    /\ accepting = TRUE
    /\ closing = FALSE
    /\ job = [j \in Job |-> "none"]
    /\ cancelled = {}
    /\ command = [c \in Command |-> "none"]
    /\ eventReader = "off"

Registered == {j \in Job : job[j] # "none"}
HasCanceler == {j \in Job : job[j] \in {"running", "storing"}}

-----------------------------------------------------------------------------
(* Run: start, interface, shutdown. *)

Go(from, to) == step = from /\ step' = to
Thread == UNCHANGED <<signalled, command, job>>

Start ==
    /\ Go("new", "init")
    /\ phase' = "starting"
    /\ Thread
    /\ UNCHANGED <<uiReady, open, saved, accepting, closing, cancelled, eventReader>>

Initialize ==
    /\ Go("init", "load")
    /\ uiReady' = TRUE
    /\ Thread
    /\ UNCHANGED <<phase, open, saved, accepting, closing, cancelled, eventReader>>

LoadCache ==
    /\ Go("load", "render")
    /\ Thread
    /\ UNCHANGED <<phase, uiReady, open, saved, accepting, closing, cancelled, eventReader>>

Render ==
    /\ Go("render", "begin")
    /\ phase' = "running"
    /\ Thread
    /\ UNCHANGED <<uiReady, open, saved, accepting, closing, cancelled, eventReader>>

\* A start that fails goes back to the new phase, and Run shuts down all the same.
FailStart ==
    /\ step \in StartSteps
    /\ step' = "shutdown"
    /\ phase' = "new"
    /\ Thread
    /\ UNCHANGED <<uiReady, open, saved, accepting, closing, cancelled, eventReader>>

RunUI ==
    /\ Go("begin", "ui")
    /\ eventReader' = "waiting"
    /\ Thread
    /\ UNCHANGED <<phase, uiReady, open, saved, accepting, closing, cancelled>>

\* The user quits, or the signal ends the program; the reader's context is cancelled.
LeaveUI ==
    /\ Go("ui", "drain")
    /\ Thread
    /\ UNCHANGED <<phase, uiReady, open, saved, accepting, closing, cancelled, eventReader>>

UIReturns ==
    /\ Go("drain", "shutdown")
    /\ eventReader = "off"
    /\ Thread
    /\ UNCHANGED <<phase, uiReady, open, saved, accepting, closing, cancelled, eventReader>>

BeginShutdown ==
    /\ Go("shutdown", "stop_ui")
    /\ phase' = "shutting_down"
    /\ Thread
    /\ UNCHANGED <<uiReady, open, saved, accepting, closing, cancelled, eventReader>>

\* The interface waits for its reader.
StopUI ==
    /\ Go("stop_ui", "stop_handler")
    /\ eventReader = "off"
    /\ Thread
    /\ UNCHANGED <<phase, uiReady, open, saved, accepting, closing, cancelled, eventReader>>

StopHandler ==
    /\ Go("stop_handler", "save")
    /\ accepting' = FALSE
    /\ Thread
    /\ UNCHANGED <<phase, uiReady, open, saved, closing, cancelled, eventReader>>

SaveUIState ==
    /\ Go("save", "stop")
    /\ saved' \in {FALSE, uiReady}
    /\ Thread
    /\ UNCHANGED <<phase, uiReady, open, accepting, closing, cancelled, eventReader>>

\* Broken: forgets the requests that have been scheduled.
CancelNone == /\ closing' = TRUE
              /\ UNCHANGED cancelled

\* Under the mutex Stop closes the door and copies the cancel functions.
CancelAll == /\ closing' = TRUE
             /\ cancelled' = cancelled \cup HasCanceler

StopSync ==
    /\ Go("stop", "wait") \/ Go("stop_again", "wait_again")
    /\ CancelAll
    /\ Thread
    /\ UNCHANGED <<phase, uiReady, open, saved, accepting, eventReader>>

StopReturns ==
    /\ Go("wait", "close") \/ Go("wait_again", "close")
    /\ Registered = {}
    /\ Thread
    /\ UNCHANGED <<phase, uiReady, open, saved, accepting, closing, cancelled, eventReader>>

\* The shutdown timeout runs out: Shutdown stops again, without a timeout.
StopTimesOut ==
    /\ Go("wait", "stop_again")
    /\ Thread
    /\ UNCHANGED <<phase, uiReady, open, saved, accepting, closing, cancelled, eventReader>>

CloseStore ==
    /\ Go("close", "restore")
    /\ open' = FALSE
    /\ Thread
    /\ UNCHANGED <<phase, uiReady, saved, accepting, closing, cancelled, eventReader>>

FinishShutdown ==
    /\ Go("restore", "done")
    /\ phase' = "stopped"
    /\ Thread
    /\ UNCHANGED <<uiReady, open, saved, accepting, closing, cancelled, eventReader>>

-----------------------------------------------------------------------------
(* What runs beside it. *)

Beside == UNCHANGED <<step, phase, uiReady, open, saved, accepting, closing>>

Signal ==
    /\ ~signalled
    /\ signalled' = TRUE
    /\ Beside
    /\ UNCHANGED <<job, cancelled, command, eventReader>>

\* A key returns a command, and its goroutine outlives the interface.
Dispatch(c) ==
    /\ step = "ui"
    /\ command[c] = "none"
    /\ command' = [command EXCEPT ![c] = "begin"]
    /\ Beside
    /\ UNCHANGED <<signalled, job, cancelled, eventReader>>

\* The handler looks once whether it still accepts commands.
Admit(c) ==
    /\ command[c] = "begin"
    /\ command' = [command EXCEPT ![c] = IF accepting THEN "admitted" ELSE "none"]
    /\ Beside
    /\ UNCHANGED <<signalled, job, cancelled, eventReader>>

\* Broken: the door is not looked at under the mutex.
ScheduleRequestAnyway(c, j) ==
    /\ command[c] = "admitted"
    /\ job[j] = "none"
    /\ ~signalled
    /\ job' = [job EXCEPT ![j] = "running"]
    /\ cancelled' = cancelled \ {j}
    /\ Beside
    /\ UNCHANGED <<signalled, command, eventReader>>

\* One request of those a command asks for: one per provider when it asks for all.
ScheduleRequest(c, j) ==
    /\ command[c] = "admitted"
    /\ job[j] = "none"
    /\ ~signalled
    /\ ~closing
    /\ job' = [job EXCEPT ![j] = "running"]
    /\ cancelled' = cancelled \ {j}
    /\ Beside
    /\ UNCHANGED <<signalled, command, eventReader>>

\* The command has asked for all it wanted, or was refused.
CommandEnds(c) ==
    /\ command[c] = "admitted"
    /\ command' = [command EXCEPT ![c] = "none"]
    /\ Beside
    /\ UNCHANGED <<signalled, job, cancelled, eventReader>>

Moves(j, from, to) == job[j] = from /\ job' = [job EXCEPT ![j] = to]

\* A request calls the provider and uses the store by turns.
UseStore(j) ==
    /\ Moves(j, "running", "storing") \/ Moves(j, "storing", "running")
    /\ Beside
    /\ UNCHANGED <<signalled, cancelled, command, eventReader>>

\* The request returns, done or cancelled, reports without waiting for anybody
\* (EventStream) and gives up its cancel function.
JobReturns(j) ==
    /\ Moves(j, "running", "leaving")
    /\ Beside
    /\ UNCHANGED <<signalled, cancelled, command, eventReader>>

JobLeaves(j) ==
    /\ Moves(j, "leaving", "none")
    /\ cancelled' = cancelled \ {j}
    /\ Beside
    /\ UNCHANGED <<signalled, command, eventReader>>

\* The reader reloads from the store for a terminal event.
ReadEvent ==
    /\ eventReader = "waiting"
    /\ eventReader' = "reloading"
    /\ Beside
    /\ UNCHANGED <<signalled, job, cancelled, command>>

Reloaded ==
    /\ eventReader = "reloading"
    /\ eventReader' = "waiting"
    /\ Beside
    /\ UNCHANGED <<signalled, job, cancelled, command>>

ReaderStops ==
    /\ eventReader = "waiting"
    /\ step = "drain"
    /\ eventReader' = "off"
    /\ Beside
    /\ UNCHANGED <<signalled, job, cancelled, command>>

RunStep ==
    \/ Start \/ Initialize \/ LoadCache \/ Render \/ FailStart \/ RunUI \/ UIReturns
    \/ BeginShutdown \/ StopUI \/ StopHandler \/ SaveUIState \/ StopSync \/ StopReturns
    \/ StopTimesOut \/ CloseStore \/ FinishShutdown

LifecycleNext ==
    \/ RunStep
    \/ LeaveUI
    \/ Signal
    \/ \E c \in Command : Dispatch(c) \/ Admit(c) \/ CommandEnds(c)
    \/ \E c \in Command, j \in Job : ScheduleRequest(c, j)
    \/ \E j \in Job : UseStore(j) \/ JobReturns(j) \/ JobLeaves(j)
    \/ ReadEvent \/ Reloaded \/ ReaderStops

LifecycleSpec == LifecycleInit /\ [][LifecycleNext]_lifecycleVars

\* A request whose context is cancelled ends its call, its transaction and itself.
Cancelled(j) == j \in cancelled \/ signalled
RequestEnds(j) ==
    \/ Cancelled(j) /\ JobReturns(j)
    \/ Cancelled(j) /\ Moves(j, "storing", "running") /\ UseStore(j)
    \/ JobLeaves(j)

\* Goroutines go on.  A request nobody cancels may wait for its provider for ever, the
\* user need not quit, and the timeout of the shutdown need not run out.
Fairness ==
    /\ WF_lifecycleVars(RunStep)
    /\ \A j \in Job : SF_lifecycleVars(Cancelled(j) /\ JobReturns(j))
                      /\ WF_lifecycleVars(RequestEnds(j))
    /\ SF_lifecycleVars(ReaderStops)
    /\ WF_lifecycleVars(Reloaded)

LifecycleFairSpec == LifecycleSpec /\ Fairness

-----------------------------------------------------------------------------
(* What the lifecycle promises. *)

\* Once the store is closed no request is running and no reload is under way, however
\* a late command raced with the shutdown and whether or not the first stop timed out.
StoreOutlivesSync == ~open => Registered = {} /\ eventReader = "off"

\* The shutdown comes to its end once the user quits.
ShutdownEnds == (step = "drain") ~> (step = "done")
=============================================================================
