----------------------------- MODULE TimeTracking -----------------------------
(***************************************************************************)
(* Time tracking (internal/bootstrap/foundation.go): the session stored in *)
(* app_state, the tracked time of the cached tasks, and the timer that     *)
(* runs in ClickUp.                                                        *)
(*                                                                         *)
(* Starting, stopping and polling hold the gate (trackingGate), so one of  *)
(* them runs at a time; a pull of tasks and an edit do not take it, and    *)
(* both write whole rows, time and all.  ClickUp's timer is started and    *)
(* stopped elsewhere as well.  Each call to ClickUp, the reading of a row  *)
(* and its writing are steps of their own, where the operation may fail    *)
(* and the process may die.                                                *)
(*                                                                         *)
(* One process, one ClickUp workspace, one local provider.  ClickUp is     *)
(* external: one timer runs at a time, starting one stops the other, and   *)
(* time_spent counts finished entries.                                     *)
(***************************************************************************)
EXTENDS Integers

CONSTANTS
    LocalTask,   \* tasks of the local provider
    RemoteTask,  \* ClickUp tasks in the cache
    Uncached,    \* ClickUp tasks that are not in the cache
    NoTask,
    MaxClock,    \* how long time runs
    MaxActs,     \* what users do, here or elsewhere
    MaxTrackingFaults  \* failed calls, failed writes and crashes

Cached == LocalTask \cup RemoteTask
Timed == RemoteTask \cup Uncached
Task == Cached \cup Uncached

ASSUME TrackingAssumption ==
    /\ LocalTask \cap Timed = {}
    /\ RemoteTask \cap Uncached = {}
    /\ NoTask \notin Task
    /\ MaxClock \in Nat
    /\ MaxActs \in Nat
    /\ MaxTrackingFaults \in Nat

VARIABLES
    clock,
    timer,    \* the timer running in ClickUp: its task and its start
    spent,    \* ClickUp's time of each of its tasks
    tracked,  \* TimeTracked of each cached task
    session,  \* the stored session: its task, the base and the start
    op,       \* the operation that holds the gate
    pulled,   \* what a pull has read and will write; << >> when none runs
    edit,     \* the edit under way: its task, and the time of the row it has read
    acts,
    trackingFaults,
    worked,   \* for each local task, how long its sessions lasted: from the start to when
              \* the stop that ended it looked at the clock
    undone,   \* the tasks whose time an edit has set back to what it had read before
    crossed   \* a pull wrote between the stop of a timer and the reading of its task

trackingVars == <<clock, timer, spent, tracked, session, op, pulled, edit, acts, trackingFaults,
                  worked, undone, crossed>>

Time == 0..MaxClock
NoTimer == [task |-> NoTask, started |-> 0]
NoSession == [task |-> NoTask, base |-> 0, started |-> 0]
NoRowEdit == [task |-> NoTask, read |-> 0]
Session == [task : Task \cup {NoTask}, base : Nat, started : Time]

\* next: the task to start once the session is stopped; seen: the session read;
\* active: the session to store; of, amount: the entry ClickUp replied with;
\* read: the tracked time read to add to; ended: when a local session ends.
Idle == [step |-> "idle", next |-> NoTask, seen |-> NoSession, active |-> NoSession,
         of |-> NoTask, amount |-> 0, read |-> 0, ended |-> 0]

Step == {"idle", "stop_local", "stop_local_write", "stop_call", "stop_load", "stop_write",
         "start_call", "start_save", "start_undo",
         "poll_ask", "poll_same", "poll_local", "poll_local_write", "poll_refresh", "poll_clear",
         "poll_adopt", "poll_save"}

TrackingTypeOK ==
    /\ clock \in Time
    /\ timer \in [task : Timed \cup {NoTask}, started : Time]
    /\ spent \in [Timed -> Time]
    /\ tracked \in [Cached -> Nat]
    /\ session \in Session
    /\ op \in [step : Step, next : Cached \cup {NoTask}, seen : Session, active : Session,
               of : Timed \cup {NoTask}, amount : Time, read : Nat, ended : Time]
    /\ pulled \in {<< >>} \cup [RemoteTask -> Time]
    /\ edit \in [task : Cached \cup {NoTask}, read : Nat]
    /\ acts \in 0..MaxActs
    /\ trackingFaults \in 0..MaxTrackingFaults
    /\ worked \in [LocalTask -> Time]
    /\ undone \subseteq Cached
    /\ crossed \in BOOLEAN

TrackingInit ==
    /\ clock = 0
    /\ timer = NoTimer
    /\ spent = [t \in Timed |-> 0]
    /\ tracked = [t \in Cached |-> 0]
    /\ session = NoSession
    /\ op = Idle
    /\ pulled = << >>
    /\ edit = NoRowEdit
    /\ acts = MaxActs
    /\ trackingFaults = MaxTrackingFaults
    /\ worked = [t \in LocalTask |-> 0]
    /\ undone = {}
    /\ crossed = FALSE

-----------------------------------------------------------------------------
Larger(a, b) == IF a > b THEN a ELSE b
Since(started) == clock - started
Spend == trackingFaults > 0 /\ trackingFaults' = trackingFaults - 1
Act == acts > 0 /\ acts' = acts - 1

At(step) == op.step = step
Proceed(step) == op' = [op EXCEPT !.step = step]
Return == op' = Idle

\* ClickUp: the running timer ends as an entry, and another one may begin.
SpentByNow ==
    IF timer = NoTimer THEN spent ELSE [spent EXCEPT ![timer.task] = @ + Since(timer.started)]
Switch(to) == spent' = SpentByNow /\ timer' = to

RemoteSide == UNCHANGED <<timer, spent>>
Local == UNCHANGED <<tracked, session>>
Edits == UNCHANGED <<edit, undone>>
Env == UNCHANGED <<clock, pulled, acts, worked, crossed>> /\ Edits

\* Where an operation goes on: a task to start, or the end.
AfterStop ==
    IF op.next = NoTask THEN Return
    ELSE Proceed(IF op.next \in LocalTask THEN "start_save" ELSE "start_call")

-----------------------------------------------------------------------------
(* The user's keys. *)

StopStep == IF session.task \in LocalTask THEN "stop_local" ELSE "stop_call"

\* Starting the task that is tracked already stops it.
StartTask(t) ==
    /\ At("idle")
    /\ Act
    /\ LET begun == [Idle EXCEPT !.next = t, !.seen = session,
                     !.active = [task |-> t, base |-> tracked[t], started |-> clock]]
       IN  op' = IF session.task = t THEN [Idle EXCEPT !.seen = session, !.step = StopStep]
                 ELSE IF session # NoSession THEN [begun EXCEPT !.step = StopStep]
                 ELSE [begun EXCEPT !.step = IF t \in LocalTask THEN "start_save" ELSE "start_call"]
    /\ RemoteSide /\ Local /\ Edits
    /\ UNCHANGED <<clock, pulled, trackingFaults, worked, crossed>>

StopTask ==
    /\ At("idle")
    /\ session # NoSession
    /\ Act
    /\ op' = [Idle EXCEPT !.seen = session, !.step = StopStep]
    /\ RemoteSide /\ Local /\ Edits
    /\ UNCHANGED <<clock, pulled, trackingFaults, worked, crossed>>

-----------------------------------------------------------------------------
(* Stopping. *)

\* The row of the session's task is read and the clock looked at: what the task will have
\* is settled here.  (A stop looks at the clock just before; nothing it could miss by that
\* depends on the clock.)
ReadLocalRow(next) ==
    op' = [op EXCEPT !.step = next, !.read = tracked[op.seen.task], !.ended = clock]

\* Broken: adds the time and leaves the session stored.
EndLocalSessionKept ==
    LET s == op.seen
    IN  /\ tracked' = [tracked EXCEPT ![s.task] = Larger(s.base, op.read) + (op.ended - s.started)]
        /\ worked' = [worked EXCEPT ![s.task] = @ - Since(op.ended)]
        /\ UNCHANGED session

\* The time of a local session goes to its task as the session goes: one transaction,
\* which writes the row as it was read.
EndLocalSession ==
    LET s == op.seen
    IN  /\ tracked' = [tracked EXCEPT ![s.task] = Larger(s.base, op.read) + (op.ended - s.started)]
        /\ worked' = [worked EXCEPT ![s.task] = @ - Since(op.ended)]
        /\ session' = NoSession

StopLocal ==
    /\ At("stop_local")
    /\ ReadLocalRow("stop_local_write")
    /\ RemoteSide /\ Local /\ Env
    /\ UNCHANGED trackingFaults

StopLocalWrite ==
    /\ At("stop_local_write")
    /\ EndLocalSession
    /\ AfterStop
    /\ RemoteSide /\ Edits
    /\ UNCHANGED <<clock, pulled, acts, crossed, trackingFaults>>

\* ClickUp replies with the entry of whatever timer was running.
StopCall ==
    /\ At("stop_call")
    /\ timer # NoTimer
    /\ Switch(NoTimer)
    /\ \/ /\ op' = [op EXCEPT !.step = "stop_load", !.of = timer.task,
                              !.amount = Since(timer.started)]
          /\ UNCHANGED trackingFaults
       \/ Return /\ Spend
    /\ Local /\ Env

\* With no timer running ClickUp's reply is an error.
StopRefused ==
    /\ At("stop_call")
    /\ timer = NoTimer
    /\ Return
    /\ RemoteSide /\ Local /\ Env
    /\ UNCHANGED trackingFaults

StopLoad ==
    /\ At("stop_load")
    /\ op' = [op EXCEPT !.step = "stop_write",
                        !.read = IF op.of \in Cached THEN tracked[op.of] ELSE 0]
    /\ RemoteSide /\ Local /\ Env
    /\ UNCHANGED trackingFaults

\* An entry of the session's task adds to the larger of base and cache, one of another
\* task to the cache; a task that is not cached gets a history entry only.
StopWrite ==
    /\ At("stop_write")
    /\ tracked' = IF op.of \notin Cached THEN tracked
                  ELSE [tracked EXCEPT ![op.of] = op.amount +
                          (IF op.of = op.seen.task THEN Larger(op.seen.base, op.read) ELSE op.read)]
    /\ session' = NoSession
    /\ AfterStop
    /\ RemoteSide /\ Env
    /\ UNCHANGED trackingFaults

\* The write fails: the session of the stopped timer is cleared all the same.
StopWriteFails ==
    /\ At("stop_write")
    /\ Spend
    /\ session' = NoSession
    /\ Return
    /\ RemoteSide /\ Env
    /\ UNCHANGED tracked

-----------------------------------------------------------------------------
(* Starting. *)

StartCall ==
    /\ At("start_call")
    /\ Switch([task |-> op.next, started |-> clock])
    /\ \/ op' = [op EXCEPT !.step = "start_save", !.active.started = clock] /\ UNCHANGED trackingFaults
       \/ Return /\ Spend
    /\ Local /\ Env

StartSave ==
    /\ At("start_save")
    /\ session' = op.active
    /\ worked' = IF op.next \in LocalTask
                 THEN [worked EXCEPT ![op.next] = @ + Since(op.active.started)] ELSE worked
    /\ Return
    /\ RemoteSide /\ Edits
    /\ UNCHANGED <<clock, tracked, pulled, acts, trackingFaults, crossed>>

\* The session cannot be stored: the timer just started is stopped again.
StartSaveFails ==
    /\ At("start_save")
    /\ Spend
    /\ IF op.next \in LocalTask THEN Return ELSE Proceed("start_undo")
    /\ RemoteSide /\ Local /\ Env

StartUndo ==
    /\ At("start_undo")
    /\ Switch(NoTimer)
    /\ Return
    /\ Local /\ Env
    /\ UNCHANGED trackingFaults

-----------------------------------------------------------------------------
(* Polling, every 30 seconds. *)

Poll ==
    /\ At("idle")
    /\ op' = [Idle EXCEPT !.seen = session, !.step = "poll_ask"]
    /\ RemoteSide /\ Local /\ Env
    /\ UNCHANGED trackingFaults

Sees == op.seen # NoSession
SeesLocal == op.seen.task \in LocalTask

\* The session that stands for the running timer (sessionForRemoteTimer).
Running == [task |-> timer.task, started |-> timer.started,
            base |-> IF timer.task \in Cached THEN tracked[timer.task] ELSE 0]
SameTimer(s) == s.task = timer.task /\ s.started = timer.started

\* Broken: with no timer running there is nothing to do.
PollAskKeepsEnded ==
    /\ At("poll_ask")
    /\ IF timer = NoTimer
       THEN Return
       ELSE op' = [op EXCEPT !.active = Running, !.step =
                     IF Sees /\ SameTimer(op.seen) THEN "poll_same"
                     ELSE IF ~Sees THEN "poll_adopt"
                     ELSE IF SeesLocal THEN "poll_local" ELSE "poll_refresh"]
    /\ RemoteSide /\ Local /\ Env
    /\ UNCHANGED trackingFaults

PollAsk ==
    /\ At("poll_ask")
    /\ IF timer = NoTimer
       THEN IF Sees /\ ~SeesLocal THEN Proceed("poll_refresh") ELSE Return
       ELSE op' = [op EXCEPT !.active = Running, !.step =
                     IF Sees /\ SameTimer(op.seen) THEN "poll_same"
                     ELSE IF ~Sees THEN "poll_adopt"
                     ELSE IF SeesLocal THEN "poll_local" ELSE "poll_refresh"]
    /\ RemoteSide /\ Local /\ Env
    /\ UNCHANGED trackingFaults

\* FetchTaskIntoCache takes the time from ClickUp.
Refreshed(t) == IF t \in RemoteTask THEN [tracked EXCEPT ![t] = spent[t]] ELSE tracked

PollSame ==
    /\ At("poll_same")
    /\ tracked' = Refreshed(op.active.task)
    /\ session' = op.active
    /\ Return
    /\ RemoteSide /\ Env
    /\ UNCHANGED trackingFaults

\* The timer of the session read has ended elsewhere.
PollRefresh ==
    /\ At("poll_refresh")
    /\ tracked' = Refreshed(op.seen.task)
    /\ Proceed("poll_clear")
    /\ RemoteSide /\ Env
    /\ UNCHANGED <<session, trackingFaults>>

PollClear ==
    /\ At("poll_clear")
    /\ session' = NoSession
    /\ IF op.active = NoSession THEN Return ELSE Proceed("poll_adopt")
    /\ RemoteSide /\ Env
    /\ UNCHANGED <<tracked, trackingFaults>>

\* A timer started elsewhere ends a local session.
PollLocal ==
    /\ At("poll_local")
    /\ ReadLocalRow("poll_local_write")
    /\ RemoteSide /\ Local /\ Env
    /\ UNCHANGED trackingFaults

PollLocalWrite ==
    /\ At("poll_local_write")
    /\ EndLocalSession
    /\ Proceed("poll_adopt")
    /\ RemoteSide /\ Edits
    /\ UNCHANGED <<clock, pulled, acts, crossed, trackingFaults>>

PollAdopt ==
    /\ At("poll_adopt")
    /\ LET t == op.active.task
       IN  /\ tracked' = Refreshed(t)
           /\ op' = [op EXCEPT !.step = "poll_save",
                               !.active.base = IF t \in Cached THEN tracked'[t] ELSE 0]
    /\ RemoteSide /\ Env
    /\ UNCHANGED <<session, trackingFaults>>

PollSave ==
    /\ At("poll_save")
    /\ session' = op.active
    /\ Return
    /\ RemoteSide /\ Env
    /\ UNCHANGED <<tracked, trackingFaults>>

-----------------------------------------------------------------------------
(* Failures, and what goes on around the gate. *)

\* The operation ends in an error before its next step took effect, or the process dies
\* and starts anew: the same, but that a pull and an edit under way end too.
OpFails ==
    /\ ~At("idle")
    /\ Spend
    /\ Return
    /\ \/ UNCHANGED <<pulled, edit>>
       \/ pulled' = << >> /\ edit' = NoRowEdit
    /\ RemoteSide /\ Local
    /\ UNCHANGED <<clock, acts, worked, undone, crossed>>

Tick ==
    /\ clock < MaxClock
    /\ clock' = clock + 1
    /\ worked' = IF session.task \in LocalTask THEN [worked EXCEPT ![session.task] = @ + 1]
                                               ELSE worked
    /\ RemoteSide /\ Local /\ Edits
    /\ UNCHANGED <<op, pulled, acts, trackingFaults, crossed>>

\* A user of ClickUp itself starts or stops the timer.
Elsewhere ==
    /\ Act
    /\ \/ timer # NoTimer /\ Switch(NoTimer)
       \/ \E t \in Timed : Switch([task |-> t, started |-> clock])
    /\ Local /\ Edits
    /\ UNCHANGED <<clock, op, pulled, trackingFaults, worked, crossed>>

\* A pull reads the tasks from ClickUp and stores them later, as does the reply to a push.
PullRead ==
    /\ pulled = << >>
    /\ pulled' = [t \in RemoteTask |-> spent[t]]
    /\ RemoteSide /\ Local /\ Edits
    /\ UNCHANGED <<clock, op, acts, trackingFaults, worked, crossed>>

PullWrite ==
    /\ pulled # << >>
    /\ tracked' = [t \in Cached |-> IF t \in RemoteTask THEN pulled[t] ELSE tracked[t]]
    /\ pulled' = << >>
    /\ crossed' = (crossed \/ At("stop_load"))
    /\ RemoteSide /\ Edits
    /\ UNCHANGED <<clock, session, op, acts, trackingFaults, worked>>

\* An edit, a completion or a move reads the row of its task and writes all of it later,
\* with the time it had.
EditRead(t) ==
    /\ edit = NoRowEdit
    /\ Act
    /\ edit' = [task |-> t, read |-> tracked[t]]
    /\ RemoteSide /\ Local
    /\ UNCHANGED <<clock, op, pulled, trackingFaults, worked, undone, crossed>>

EditWrite ==
    /\ edit # NoRowEdit
    /\ tracked' = [tracked EXCEPT ![edit.task] = edit.read]
    /\ undone' = undone \cup {t \in {edit.task} : tracked[t] # edit.read}
    /\ edit' = NoRowEdit
    /\ RemoteSide
    /\ UNCHANGED <<clock, session, op, pulled, acts, trackingFaults, worked, crossed>>

OpStep ==
    \/ StopLocal \/ StopLocalWrite \/ StopCall \/ StopRefused \/ StopLoad \/ StopWrite
    \/ StartCall \/ StartSave \/ StartUndo
    \/ PollAsk \/ PollSame \/ PollRefresh \/ PollClear \/ PollLocal \/ PollLocalWrite
    \/ PollAdopt \/ PollSave

TrackingNext ==
    \/ \E t \in Cached : StartTask(t) \/ EditRead(t)
    \/ StopTask \/ Poll \/ OpStep
    \/ StopWriteFails \/ StartSaveFails \/ OpFails
    \/ Tick \/ Elsewhere \/ PullRead \/ PullWrite \/ EditWrite

TrackingSpec == TrackingInit /\ [][TrackingNext]_trackingVars

\* Operations make progress and the poll comes round (trackingPollTick).  Users, faults,
\* the clock, edits and pulls owe nothing.
TrackingFairSpec == TrackingSpec /\ WF_trackingVars(OpStep) /\ WF_trackingVars(Poll)

-----------------------------------------------------------------------------
(* What time tracking promises. *)

RunningTime(t) == IF session.task = t THEN Since(session.started) ELSE 0

\* Tracked time and the session under way of a local task.
TimeOf(t) == tracked[t] + RunningTime(t)

\* The cache never shows more time for a ClickUp task than ClickUp has, unless a pull
\* stored the stopped entry before the stop itself added it.
OnlyCrossedPullsOvercount ==
    crossed \/ \A t \in RemoteTask : tracked[t] <= spent[t]

\* No minute is counted twice, whatever failed, crashed, was switched to another task or
\* was ended by a poll, while edits and pulls write whole rows without the gate: a local
\* task never has more than its sessions lasted, one of ClickUp never more than ClickUp
\* counts.  And no minute of a local task is lost, but where an edit that had read the row
\* before a stop wrote it after.
TimeIsCountedOnce ==
    /\ \A t \in LocalTask : TimeOf(t) <= worked[t] /\ (t \notin undone => TimeOf(t) = worked[t])
    /\ OnlyCrossedPullsOvercount

\* Once users let things be, the stored session is that of the timer running in ClickUp,
\* or with none running that of a local task or nothing: a timer started without its
\* session being stored, and a session whose timer ended elsewhere, are found.
SessionFollowsTimer ==
    <>[](IF timer = NoTimer THEN session.task \in LocalTask \cup {NoTask}
                            ELSE SameTimer(session))
=============================================================================
