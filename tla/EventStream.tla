------------------------------ MODULE EventStream ------------------------------
(***************************************************************************)
(* foundationSyncEventStream (internal/bootstrap/foundation.go): the       *)
(* bounded channel that carries the events of workers and fetches to the   *)
(* user interface, and the reader that reloads the view from the cache     *)
(* whenever it receives a terminal event.                                  *)
(*                                                                         *)
(* Emit never waits.  When the channel is full it drops a progress event;  *)
(* for a terminal one (sync completed or failed) it takes everything out   *)
(* of the channel, forgets one event and puts the rest back, under the     *)
(* stream's mutex but beside a reader that goes on receiving.              *)
(*                                                                         *)
(* "cache" counts the runs that have written the cache, "reported" is that *)
(* count when a run last announced its end by a terminal event, and "view" *)
(* the count the view was last loaded at.  Events are told apart only as   *)
(* progress and terminal ones.                                             *)
(***************************************************************************)
EXTENDS Integers, Sequences

CONSTANTS
    Emitter,  \* goroutines that emit: one per running worker or fetch
    NoOne,    \* the mutex is free
    Cap,      \* cap(events): foundationSyncEventBufferSize
    MaxRuns   \* how many runs finish

ASSUME StreamAssumption ==
    /\ NoOne \notin Emitter
    /\ Cap \in Nat \ {0}
    /\ MaxRuns \in Nat

VARIABLES
    buffer,   \* the channel
    holder,   \* who holds the mutex after its first step
    at,       \* where each emitter is
    event,    \* the event it emits
    pending,  \* what it has taken out of the channel
    reader,   \* whether the reader waits for an event or has to reload
    cache, reported, view

runVars == <<cache, reported>>
emitterVars == <<holder, at, event, pending>>
streamVars == <<buffer, emitterVars, reader, runVars, view>>

EventKind == {"progress", "terminal"}

\* The channel never holds more than its capacity.
StreamTypeOK ==
    /\ buffer \in Seq(EventKind) /\ Len(buffer) =< Cap
    /\ holder \in Emitter \cup {NoOne}
    /\ at \in [Emitter -> {"idle", "emit", "drain", "refill"}]
    /\ event \in [Emitter -> EventKind]
    /\ pending \in [Emitter -> Seq(EventKind)]
    /\ reader \in {"receive", "reload"}
    /\ cache \in 0..MaxRuns
    /\ reported \in 0..MaxRuns
    /\ view \in 0..MaxRuns

StreamInit ==
    /\ buffer = <<>>
    /\ holder = NoOne
    /\ at = [e \in Emitter |-> "idle"]
    /\ event = [e \in Emitter |-> "progress"]
    /\ pending = [e \in Emitter |-> <<>>]
    /\ reader = "receive"
    /\ cache = 0
    /\ reported = 0
    /\ view = 0

-----------------------------------------------------------------------------
GoTo(e, s) == at' = [at EXCEPT ![e] = s]
Full == Len(buffer) = Cap

\* The event a terminal one displaces: the oldest progress event, or else the
\* oldest of all.
Discard(s) ==
    IF \E i \in DOMAIN s : s[i] = "progress"
    THEN CHOOSE i \in DOMAIN s :
           s[i] = "progress" /\ \A j \in DOMAIN s : s[j] = "progress" => i =< j
    ELSE 1

Displaced(s) ==
    IF s = <<>> THEN s
    ELSE [i \in 1..(Len(s) - 1) |-> IF i < Discard(s) THEN s[i] ELSE s[i + 1]]

-----------------------------------------------------------------------------
(* The runs: they report progress, and write the cache before the last event. *)

Progress(e) ==
    /\ at[e] = "idle"
    /\ GoTo(e, "emit")
    /\ event' = [event EXCEPT ![e] = "progress"]
    /\ UNCHANGED <<buffer, holder, pending, reader, runVars, view>>

Finish(e) ==
    /\ at[e] = "idle"
    /\ cache < MaxRuns
    /\ cache' = cache + 1
    /\ reported' = cache'
    /\ GoTo(e, "emit")
    /\ event' = [event EXCEPT ![e] = "terminal"]
    /\ UNCHANGED <<buffer, holder, pending, reader, view>>

\* A cycle that ends in a failed push, or is cancelled, has written the cache as
\* well; its last event (operation failed, worker stopped) is no terminal one.
BreakOff(e) ==
    /\ at[e] = "idle"
    /\ cache < MaxRuns
    /\ cache' = cache + 1
    /\ GoTo(e, "emit")
    /\ event' = [event EXCEPT ![e] = "progress"]
    /\ UNCHANGED <<buffer, holder, pending, reader, reported, view>>

-----------------------------------------------------------------------------
(* Emit. *)

\* There is room: lock, send, unlock.
Put(e) ==
    /\ at[e] = "emit" /\ holder = NoOne
    /\ ~Full
    /\ buffer' = Append(buffer, event[e])
    /\ GoTo(e, "idle")
    /\ UNCHANGED <<holder, event, pending, reader, runVars, view>>

\* Faulty variant of Drop: a terminal event is dropped as well.
DropAny(e) ==
    /\ at[e] = "emit" /\ holder = NoOne
    /\ Full
    /\ GoTo(e, "idle")
    /\ UNCHANGED <<buffer, holder, event, pending, reader, runVars, view>>

\* There is none, and the event is no terminal one.
Drop(e) ==
    /\ at[e] = "emit" /\ holder = NoOne
    /\ Full /\ event[e] = "progress"
    /\ GoTo(e, "idle")
    /\ UNCHANGED <<buffer, holder, event, pending, reader, runVars, view>>

BeginDrain(e) ==
    /\ at[e] = "emit" /\ holder = NoOne
    /\ Full /\ event[e] = "terminal"
    /\ holder' = e
    /\ GoTo(e, "drain")
    /\ UNCHANGED <<buffer, event, pending, reader, runVars, view>>

Drain(e) ==
    /\ at[e] = "drain"
    /\ buffer # <<>>
    /\ pending' = [pending EXCEPT ![e] = Append(@, Head(buffer))]
    /\ buffer' = Tail(buffer)
    /\ UNCHANGED <<holder, at, event, reader, runVars, view>>

Drained(e) ==
    /\ at[e] = "drain"
    /\ buffer = <<>>
    /\ pending' = [pending EXCEPT ![e] = Displaced(@)]
    /\ GoTo(e, "refill")
    /\ UNCHANGED <<buffer, holder, event, reader, runVars, view>>

Refill(e) ==
    /\ at[e] = "refill"
    /\ pending[e] # <<>>
    /\ ~Full
    /\ buffer' = Append(buffer, Head(pending[e]))
    /\ pending' = [pending EXCEPT ![e] = Tail(@)]
    /\ UNCHANGED <<holder, at, event, reader, runVars, view>>

\* The terminal event follows the rest, and the mutex is free again.
PutLast(e) ==
    /\ at[e] = "refill"
    /\ pending[e] = <<>>
    /\ ~Full
    /\ buffer' = Append(buffer, event[e])
    /\ holder' = NoOne
    /\ GoTo(e, "idle")
    /\ UNCHANGED <<event, pending, reader, runVars, view>>

-----------------------------------------------------------------------------
(* runSyncEvents *)

Receive ==
    /\ reader = "receive"
    /\ buffer # <<>>
    /\ buffer' = Tail(buffer)
    /\ reader' = IF Head(buffer) = "terminal" THEN "reload" ELSE "receive"
    /\ UNCHANGED <<emitterVars, runVars, view>>

Reload ==
    /\ reader = "reload"
    /\ view' = cache
    /\ reader' = "receive"
    /\ UNCHANGED <<buffer, emitterVars, runVars>>

-----------------------------------------------------------------------------
Enter(e) == Put(e) \/ Drop(e) \/ BeginDrain(e)
Inside(e) == Drain(e) \/ Drained(e) \/ Refill(e) \/ PutLast(e)
Read == Receive \/ Reload

StreamNext ==
    \/ \E e \in Emitter : Progress(e) \/ Finish(e) \/ BreakOff(e) \/ Enter(e) \/ Inside(e)
    \/ Read

StreamSpec == StreamInit /\ [][StreamNext]_streamVars

\* A goroutine inside Emit and the reader go on, and a sync.Mutex starves nobody
\* who waits for it.
StreamFairness ==
    /\ \A e \in Emitter : SF_streamVars(Enter(e)) /\ WF_streamVars(Inside(e))
    /\ WF_streamVars(Read)

FairSpec == StreamSpec /\ StreamFairness

-----------------------------------------------------------------------------
(* Properties *)

\* No send under the mutex waits for the reader: a worker that reports its result
\* is never held up by a user interface that is slow or gone (foundation.go:1672, 1675).
EmitNeverWaits == \A e \in Emitter : at[e] = "refill" => ~Full

\* At rest the view shows everything written before the last run that announced
\* its end: the channel may lose and reorder events, but never the need to reload
\* (foundation.go:1631-1676).
Resting ==
    /\ \A e \in Emitter : at[e] = "idle"
    /\ buffer = <<>>
    /\ reader = "receive"
ViewIsFreshAtRest == Resting => view >= reported

\* What a run that announces its end has written is shown in the end, however
\* many events crowd the channel.
EveryRunIsShown == \A n \in 1..MaxRuns : reported = n ~> view >= n

\* What the comment in Emit says: "Completion and failure events trigger a cache
\* reload" (foundation.go:1647).  At rest the view shows what every run has
\* written, those that ended in a failure included.
FailuresAreShown == Resting => view = cache
=============================================================================
