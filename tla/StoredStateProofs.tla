--------------------------- MODULE StoredStateProofs ---------------------------
(***************************************************************************)
(* Who reads a stored row, waits and writes it back does not undo what     *)
(* others did meanwhile: the rows of tasks (TaskReplica) and the session   *)
(* of the timer (TimeTracking), for any tasks and fields, and any number   *)
(* of edits, calls that fail and deaths of the process.                    *)
(***************************************************************************)
EXTENDS TaskReplica, TimeTracking, SequenceTheorems, TLAPS

-------------------------------------------------------------------------------
(* A pull never overwrites a row in conflict.                              *)
(*                                                                         *)
(* A pull writes what it made of the row it had found, so the proof says   *)
(* what becomes of the row in between: only a pull puts a row into         *)
(* conflict, pulls do not overlap, and everybody else who writes the row   *)
(* takes it out of conflict.  A row that is in conflict when a pull saves  *)
(* is therefore the row this pull has found.                               *)

BoundsOK ==
    /\ edits \in 0..MaxEdits
    /\ remoteEdits \in 0..MaxRemoteEdits
    /\ editor.open => edits < MaxEdits

\* A conflict is not older than the row the pull has found.
FoundIsCurrent == pull.at \in {"found", "merging"} /\ row.state = "conflict" => pull.found = row

\* What is pushed stays the head of the queue.
PushHasHead == push.at # "idle" => queue # <<>>

ReplicaInv == ReplicaTypeOK /\ BoundsOK /\ FoundIsCurrent /\ PushHasHead

-------------------------------------------------------------------------------
(* Types.                                                                      *)

Edit == [kind : {"update", "delete"}, field : Field, fields : Fields]

\* A new edit has a number of its own within the values.
LEMMA FreshIsValue ==
    ASSUME BoundsOK, editor.open \/ remoteEdits < MaxRemoteEdits
    PROVE  Fresh \in Value
BY ReplicaAssumption DEF BoundsOK, Fresh, Value

LEMMA WithField ==
    ASSUME NEW e \in Fields, NEW f \in Field, NEW v \in Value
    PROVE  [e EXCEPT ![f] = v] \in Fields
BY DEF Fields

LEMMA ZeroIsTyped == Unset \in Fields /\ NoRow \in Row /\ NoRemote \in Remote
<1>1. 0 \in Value
  BY ReplicaAssumption DEF Value
<1>2. Unset \in Fields
  BY <1>1 DEF Unset, Fields
<1> QED  BY <1>2 DEF NoRow, NoRemote, Row, Remote, State

\* What a pull makes of a row is a row.
LEMMA MergedIsTyped ==
    ASSUME NEW b \in Fields, NEW l \in Row, NEW r \in Fields
    PROVE  MergedRow(b, l, r) \in Row
<1>1. Merged(b, l.fields, r) \in Fields
  BY DEF Merged, Fields, Row
<1>2. (IF HasLocalChanges(l.state) THEN l.fields ELSE Merged(b, l.fields, r)) \in Fields
  BY <1>1 DEF Row
<1>3. (IF Conflicts(b, l.fields, r) # {} THEN "conflict" ELSE l.state) \in State
  BY DEF Row, State
<1> QED  BY <1>2, <1>3 DEF MergedRow, Row

-------------------------------------------------------------------------------
(* The steps.                                                                  *)

LEMMA InitKeeps == ReplicaInit => ReplicaInv
<1> SUFFICES ASSUME ReplicaInit PROVE ReplicaInv
  OBVIOUS
<1>1. ReplicaTypeOK
  BY ZeroIsTyped DEF ReplicaInit, ReplicaTypeOK, NoEdit, NoPush, NoPull
<1>2. BoundsOK
  BY ReplicaAssumption DEF ReplicaInit, BoundsOK, NoEdit
<1>3. FoundIsCurrent
  BY DEF ReplicaInit, FoundIsCurrent, NoPull
<1>4. PushHasHead
  BY DEF ReplicaInit, PushHasHead, NoPush
<1> QED  BY <1>1, <1>2, <1>3, <1>4 DEF ReplicaInv

\* The user's writes leave the row pending.
LEMMA UserKeeps == ReplicaInv /\ UserStep => ReplicaInv'
<1> SUFFICES ASSUME ReplicaInv, UserStep PROVE ReplicaInv'
  OBVIOUS
<1> USE DEF ReplicaInv
<1>1. CASE BeginEdit
  BY <1>1 DEF BeginEdit, ReplicaTypeOK, BoundsOK, FoundIsCurrent, PushHasHead, local,
               bounds
<1>2. ASSUME NEW f \in Field, SaveEdit(f) PROVE ReplicaInv'
  <2> DEFINE snapshot == [editor.from.fields EXCEPT ![f] = Fresh]
  <2>1. snapshot \in Fields
    BY <1>2, FreshIsValue, WithField DEF SaveEdit, ReplicaTypeOK, Row
  <2>2. [kind |-> "update", field |-> f, fields |-> snapshot] \in Edit
    BY <2>1 DEF Edit
  <2> HIDE DEF snapshot
  <2>3. row' = [fields |-> snapshot, state |-> "pending", gone |-> FALSE]
        /\ queue' = Append(queue, [kind |-> "update", field |-> f, fields |-> snapshot])
    BY <1>2 DEF SaveEdit, snapshot
  <2>4. row' \in Row
    BY <2>1, <2>3 DEF Row, State
  <2>5. queue' \in Seq(Edit)
    BY <2>2, <2>3 DEF ReplicaTypeOK, Edit
  <2>6. ReplicaTypeOK'
    BY <1>2, <2>4, <2>5, ZeroIsTyped DEF SaveEdit, ReplicaTypeOK, NoEdit, Edit
  <2>7. BoundsOK'
    BY <1>2, ReplicaAssumption DEF SaveEdit, BoundsOK, NoEdit
  <2>8. FoundIsCurrent'
    BY <2>3 DEF FoundIsCurrent
  <2>9. PushHasHead'
    <3>1. queue \in Seq(Edit)
      BY DEF ReplicaTypeOK, Edit
    <3>2. Append(queue, [kind |-> "update", field |-> f, fields |-> snapshot]) # <<>>
      BY <2>2, <3>1, AppendProperties, Zenon
    <3> QED  BY <2>3, <3>2, Zenon DEF PushHasHead
  <2> QED  BY <2>6, <2>7, <2>8, <2>9
<1>3. ASSUME NEW f \in Field, SaveDelete(f) PROVE ReplicaInv'
  <2> DEFINE deletion == [kind |-> "delete", field |-> f, fields |-> editor.from.fields]
  <2>1. editor.from.fields \in Fields
    BY DEF ReplicaTypeOK, Row
  <2>2. deletion \in Edit
    BY <2>1 DEF Edit
  <2>3. row' \in Row
    BY <1>3, <2>1 DEF SaveDelete, Row, State
  <2>4. queue' \in Seq(Edit)
    BY <1>3, <2>2 DEF SaveDelete, ReplicaTypeOK, Edit
  <2>5. ReplicaTypeOK'
    BY <1>3, <2>3, <2>4, ZeroIsTyped DEF SaveDelete, ReplicaTypeOK, NoEdit, Edit
  <2>6. BoundsOK'
    BY <1>3, ReplicaAssumption DEF SaveDelete, BoundsOK, NoEdit
  <2>7. FoundIsCurrent'
    BY <1>3 DEF SaveDelete, FoundIsCurrent
  <2>8. PushHasHead'
    <3>1. queue \in Seq(Edit)
      BY DEF ReplicaTypeOK, Edit
    <3> HIDE DEF deletion
    <3>2. Append(queue, deletion) # <<>>
      BY <2>2, <3>1, AppendProperties, Zenon
    <3>3. queue' # <<>>
      BY <1>3, <3>2 DEF SaveDelete, deletion
    <3> QED  BY <3>3 DEF PushHasHead
  <2> QED  BY <2>5, <2>6, <2>7, <2>8
<1> QED  BY <1>1, <1>2, <1>3 DEF UserStep

\* Other people do not write the row.
LEMMA OthersKeep == ReplicaInv /\ OthersStep => ReplicaInv'
<1> SUFFICES ASSUME ReplicaInv, OthersStep PROVE ReplicaInv'
  OBVIOUS
<1>1. UNCHANGED <<row, base, queue, editor, push, pull, edits>>
  BY DEF OthersStep, RemoteEdit, RemoteDelete, local
<1>2. remote' \in Remote
  <2>1. CASE RemoteDelete
    BY <2>1 DEF RemoteDelete, ReplicaInv, ReplicaTypeOK, Remote
  <2>2. ASSUME NEW f \in Field, RemoteEdit(f) PROVE remote' \in Remote
    <3>1. Fresh \in Value
      BY <2>2, FreshIsValue DEF RemoteEdit, ReplicaInv
    <3>2. [remote.fields EXCEPT ![f] = Fresh] \in Fields
      BY <3>1, WithField DEF ReplicaInv, ReplicaTypeOK, Remote
    <3>3. remote' = [fields |-> [remote.fields EXCEPT ![f] = Fresh], gone |-> remote.gone]
      BY <2>2 DEF RemoteEdit, ReplicaInv, ReplicaTypeOK, Remote
    <3> QED  BY <3>2, <3>3 DEF ReplicaInv, ReplicaTypeOK, Remote
  <2> QED  BY <2>1, <2>2 DEF OthersStep
<1>3. remoteEdits' \in 0..MaxRemoteEdits
  BY ReplicaAssumption DEF OthersStep, RemoteEdit, RemoteDelete, ReplicaInv, BoundsOK
<1> QED  BY <1>1, <1>2, <1>3 DEF ReplicaInv, ReplicaTypeOK, BoundsOK, FoundIsCurrent,
                            PushHasHead

\* The push writes the row as syncing, synced, pending or failed.
LEMMA PushKeeps ==
    ReplicaInv /\ (PushStep \/ PushRetries \/ PushRefused) => ReplicaInv'
<1> SUFFICES ASSUME ReplicaInv, PushStep \/ PushRetries \/ PushRefused PROVE ReplicaInv'
  OBVIOUS
<1> DEFINE Push == [at : {"idle", "claimed", "replied", "stored", "based"}, reply : Fields]
<1>1. row \in Row /\ remote \in Remote /\ base \in Fields /\ push \in Push /\ queue \in Seq(Edit)
  BY DEF ReplicaInv, ReplicaTypeOK, Edit
<1>2. push.at # "idle" => /\ Head(queue).fields \in Fields
                          /\ Tail(queue) \in Seq(Edit)
  <2>1. push.at # "idle" => queue # <<>>
    BY DEF ReplicaInv, PushHasHead
  <2>2. queue # <<>> => Head(queue) \in Edit /\ Tail(queue) \in Seq(Edit)
    BY <1>1
  <2> QED  BY <2>1, <2>2 DEF Edit
<1>3. /\ row' \in Row /\ (row'.state = "conflict" => row' = row)
      /\ remote' \in Remote /\ base' \in Fields /\ push' \in Push /\ queue' \in Seq(Edit)
      /\ push'.at # "idle" => queue' # <<>>
  <2> USE <1>1, ZeroIsTyped DEF local, NoPush
  <2>1. CASE ClaimHead
    BY <2>1 DEF ClaimHead, Row, State
  <2>2. CASE PushUpdate
    BY <2>2, <1>2 DEF PushUpdate, Remote, ReplicaInv, PushHasHead
  <2>3. CASE PushDelete
    <3>1. remote' \in Remote
      BY <2>3 DEF PushDelete, Remote
    <3>2. push' = [at |-> "based", reply |-> Unset]
      BY <2>3 DEF PushDelete
    <3> QED  BY <2>3, <3>1, <3>2 DEF PushDelete, ReplicaInv, PushHasHead
  <2>4. CASE StoreReply
    BY <2>4 DEF StoreReply, Row, State, ReplicaInv, PushHasHead
  <2>5. CASE SavePushBase
    BY <2>5 DEF SavePushBase, ReplicaInv, PushHasHead
  <2>6. CASE Complete
    BY <2>6, <1>2 DEF Complete, Row, State
  <2>7. CASE PushMissing \/ PushRefused
    BY <2>7, <1>2 DEF PushMissing, PushRefused, Reject, Row, State
  <2>8. CASE PushRetries
    BY <2>8 DEF PushRetries, Row, State
  <2> QED  BY <2>1, <2>2, <2>3, <2>4, <2>5, <2>6, <2>7, <2>8 DEF PushStep
<1>4. UNCHANGED <<editor, pull, edits, remoteEdits>>
  BY DEF PushStep, ClaimHead, PushUpdate, PushDelete, StoreReply, SavePushBase, Complete,
         PushMissing, PushRefused, Reject, PushRetries, SpendFault, bounds
<1> QED  BY <1>3, <1>4 DEF ReplicaInv, ReplicaTypeOK, BoundsOK, FoundIsCurrent, PushHasHead, Edit

\* A pull finds the row as it is, and is over once it has written a conflict.
LEMMA PullKeeps ==
    ReplicaInv /\ (PullStep \/ FetchTask \/ PullFails) => ReplicaInv'
<1> SUFFICES ASSUME ReplicaInv, PullStep \/ FetchTask \/ PullFails PROVE ReplicaInv'
  OBVIOUS
<1> USE ZeroIsTyped DEF ReplicaInv, ReplicaTypeOK, BoundsOK, FoundIsCurrent, PushHasHead, NoPull,
                        local, bounds
<1>1. CASE FetchList \/ FetchTask
  BY <1>1 DEF FetchList, FetchTask
<1>2. CASE Screen \/ CheckMissing \/ PullFails
  BY <1>2 DEF Screen, CheckMissing, PullFails
<1>3. CASE LookUp
  BY <1>3 DEF LookUp
<1>4. CASE GetBase
  BY <1>4 DEF GetBase
<1>5. CASE SavePulled
  <2>1. row' \in Row
    BY <1>5, MergedIsTyped DEF SavePulled, Remote
  <2>2. pull' \in [at : {"idle", "saved"}, seen : Remote, found : Row, base : Fields]
    BY <1>5, <2>1 DEF SavePulled
  <2> QED  BY <1>5, <2>1, <2>2 DEF SavePulled
<1>6. CASE SavePullBase
  <2>1. base' \in Fields
    BY <1>6 DEF SavePullBase, Row
  <2> QED  BY <1>6, <2>1 DEF SavePullBase
<1>7. CASE Tombstone
  BY <1>7 DEF Tombstone, Row, State
<1> QED  BY <1>1, <1>2, <1>3, <1>4, <1>5, <1>6, <1>7 DEF PullStep

LEMMA StepKeeps == ReplicaInv /\ [ReplicaNext]_replicaVars => ReplicaInv'
<1> SUFFICES ASSUME ReplicaInv, [ReplicaNext]_replicaVars PROVE ReplicaInv'
  OBVIOUS
<1>1. CASE UNCHANGED replicaVars
  BY <1>1 DEF replicaVars, ReplicaInv, ReplicaTypeOK, BoundsOK, FoundIsCurrent, PushHasHead
<1> QED  BY <1>1, UserKeeps, OthersKeep, PushKeeps, PullKeeps DEF ReplicaNext

-------------------------------------------------------------------------------
(* The theorems.                                                               *)

\* The inductive invariant holds in every reachable state of the cached task.
THEOREM ReplicaSafety == ReplicaSpec => []ReplicaInv
BY InitKeeps, StepKeeps, PTL DEF ReplicaSpec

\* No pull changes the fields of a row in conflict (reconcileEntity).
THEOREM ConflictKept == ReplicaSpec => ConflictKeepsLocal
<1>1. ASSUME ReplicaInv, PullStep, row.state = "conflict"
      PROVE  row'.fields = row.fields
  <2>1. CASE SavePulled
    <3>1. pull.found = row
      BY <1>1, <2>1 DEF SavePulled, ReplicaInv, FoundIsCurrent
    <3>2. HasLocalChanges(pull.found.state)
      BY <1>1, <3>1 DEF HasLocalChanges
    <3> QED  BY <2>1, <3>1, <3>2 DEF SavePulled, MergedRow
  <2>2. CASE Tombstone
    BY <2>2, <1>1 DEF Tombstone, ReplicaInv, ReplicaTypeOK, Row
  <2>3. CASE ~SavePulled /\ ~Tombstone
    BY <1>1, <2>3 DEF PullStep, FetchList, Screen, LookUp, GetBase, SavePullBase, CheckMissing, local
  <2> QED  BY <2>1, <2>2, <2>3
<1>2. ReplicaInv /\ [ReplicaNext]_replicaVars =>
        [PullStep /\ row.state = "conflict" => row'.fields = row.fields]_replicaVars
  BY <1>1
<1> QED  BY <1>2, ReplicaSafety, PTL DEF ReplicaSpec, ConflictKeepsLocal

-------------------------------------------------------------------------------
(* No minute is counted twice, and none of a local task is lost unless an     *)
(* edit set its time back.                                                    *)
(*                                                                            *)
(* The proof gives every task its room: how much of its time may be stored    *)
(* just now.  For a local task that is how long its sessions lasted without   *)
(* the one under way, for one of ClickUp what ClickUp counts.  Room never     *)
(* shrinks, so a time that fits when it is read still fits when it is         *)
(* written, however late; and the minutes a stop adds are minutes by which    *)
(* the room has grown, because the gate keeps the stored session the one the  *)
(* stop has read.                                                             *)

AnySession == [task : Task \cup {NoTask}, base : Nat, started : Nat]
AnyOp == [step : Step, next : Cached \cup {NoTask}, seen : AnySession, active : AnySession,
          of : Timed \cup {NoTask}, amount : Nat, read : Nat, ended : Nat]

\* Of the types what the sums need, without the bounds.
SumsTyped ==
  /\ clock \in Nat
  /\ timer \in [task : Timed \cup {NoTask}, started : Nat] /\ timer.started <= clock
  /\ timer = NoTimer \/ timer.task \in Timed
  /\ spent \in [Timed -> Nat]
  /\ tracked \in [Cached -> Nat]
  /\ session \in AnySession /\ session.started <= clock
  /\ op \in AnyOp /\ op.active.started <= clock
  /\ pulled \in {<< >>} \cup [RemoteTask -> Nat]
  /\ edit \in [task : Cached \cup {NoTask}, read : Nat]
  /\ edit = NoRowEdit \/ edit.task \in Cached
  /\ worked \in [LocalTask -> Nat]
  /\ crossed \in BOOLEAN

Writing == {"stop_local_write", "poll_local_write"}
Reading == {"stop_local", "stop_call", "stop_load", "stop_write",
            "poll_ask", "poll_same", "poll_local", "poll_refresh", "poll_clear"} \cup Writing
Starting == {"start_call", "start_save", "start_undo"}
Adopting == {"poll_adopt", "poll_save"}

\* The session in the store is the one the operation has read, or there is none
\* with time to be added; what is to be stored is what was asked for.
GateHolds ==
  /\ op.step \in Reading => session = op.seen
  /\ op.step \in {"stop_local", "poll_local"} \cup Writing => op.seen.task \in LocalTask
  /\ op.step \in Writing => op.seen.started <= op.ended /\ op.ended <= clock
  /\ op.step \in {"stop_call", "stop_load", "stop_write", "poll_same", "poll_refresh", "poll_clear"} =>
       op.seen.task \notin LocalTask
  /\ op.step \in Starting \cup Adopting => session.task \notin LocalTask
  /\ op.step \in Starting => op.next # NoTask
  /\ op.step = "start_call" => op.next \notin LocalTask
  /\ op.next # NoTask => op.active.task = op.next
  /\ op.step \in {"poll_same", "poll_local", "poll_local_write"} \cup Adopting =>
       op.active.task \in Timed
  /\ op.step = "poll_ask" => op.active = NoSession
  /\ op.step \in {"poll_refresh", "poll_clear"} => op.active = NoSession \/ op.active.task \in Timed
  /\ op.step \in {"poll_ask", "poll_same", "poll_local", "poll_local_write", "poll_refresh",
                  "poll_clear"} \cup Adopting => op.next = NoTask

Room == [t \in Task |-> IF t \in LocalTask THEN worked[t] - RunningTime(t) ELSE spent[t]]
Fits(t, n) == n <= Room[t] \/ (crossed /\ t \notin LocalTask)

\* Whatever may yet be written as the time of a task fits.
TrackedFits == \A t \in Cached : Fits(t, tracked[t])
EditFits == edit.task \in Cached => Fits(edit.task, edit.read)
SessionFits == session.task \in Cached => Fits(session.task, session.base)
ActiveFits == op.active.task \in Cached => Fits(op.active.task, op.active.base)
PulledFits == pulled # << >> => \A t \in RemoteTask : Fits(t, pulled[t])

\* And so does what a stop makes of it, once it knows the minutes to add.
StopFits ==
  /\ op.step \in Writing => Fits(op.seen.task, op.read)
  /\ op.step = "stop_load" /\ op.of \in Cached =>
       /\ Fits(op.of, op.amount + tracked[op.of])
       /\ edit.task = op.of => Fits(op.of, op.amount + edit.read)
  /\ op.step = "stop_write" /\ op.of \in Cached => Fits(op.of, op.amount + op.read)
  /\ op.step \in {"stop_load", "stop_write"} /\ op.of \in Cached /\ op.of = op.seen.task =>
       Fits(op.of, op.amount + op.seen.base)

\* A local task that no edit set back fills its room, and a stop has read its time.
Exact ==
  \A t \in LocalTask : t \notin undone =>
    /\ tracked[t] = Room[t]
    /\ op.step \in Writing /\ op.seen.task = t => op.read = tracked[t]

TimesFit == TrackedFits /\ EditFits /\ SessionFits /\ ActiveFits /\ PulledFits
TrackingInv == SumsTyped /\ GateHolds /\ TimesFit /\ StopFits /\ Exact

------------------------------------------------------------------------------
\* No task of the local provider runs in ClickUp, and none is no task.
LEMMA TaskFacts ==
  /\ \A t \in LocalTask : t \notin Timed /\ t # NoTask /\ t \in Cached /\ t \in Task
  /\ \A t \in Timed : t \notin LocalTask /\ t # NoTask /\ t \in Task
  /\ \A t \in RemoteTask : t \in Timed /\ t \in Cached
  /\ \A t \in Cached : t # NoTask /\ t \in Task /\ (t \notin LocalTask => t \in RemoteTask)
  BY TrackingAssumption DEF Cached, Timed, Task

LEMMA LargerFacts ==
  ASSUME NEW a \in Nat, NEW b \in Nat
  PROVE  Larger(a, b) \in Nat /\ (Larger(a, b) = a \/ Larger(a, b) = b)
         /\ (a <= b => Larger(a, b) = b)
  BY DEF Larger

LEMMA RoomFacts ==
  ASSUME SumsTyped
  PROVE  /\ \A t \in Task : Room[t] \in Int
         /\ \A t \in LocalTask : Room[t] = worked[t] - RunningTime(t) /\ RunningTime(t) \in Int
         /\ \A t \in Timed : Room[t] = spent[t]
<1>1. ASSUME NEW t \in LocalTask  PROVE RunningTime(t) \in Int /\ worked[t] \in Nat
  BY DEF SumsTyped, AnySession, RunningTime, Since
<1>2. ASSUME NEW t \in Task, t \notin LocalTask  PROVE t \in Timed /\ spent[t] \in Nat
  BY <1>2 DEF Task, Timed, Cached, SumsTyped
<1> QED  BY <1>1, <1>2, TaskFacts DEF Room

\* Room never shrinks.
RoomGrows == /\ \A t \in Task : Room[t] <= Room'[t]
             /\ crossed => crossed'
LocalRoomKept == \A t \in LocalTask : Room'[t] = Room[t]

\* Sessions that have no local task do not matter to the room.
LEMMA RoomKept ==
  ASSUME SumsTyped, UNCHANGED <<clock, spent, worked>>, crossed => crossed',
         session' = session \/ (session.task \notin LocalTask /\ session'.task \notin LocalTask)
  PROVE  Room' = Room /\ RoomGrows /\ LocalRoomKept
<1>1. \A t \in LocalTask : RunningTime(t)' = RunningTime(t)
  BY DEF RunningTime, Since
<1>2. Room' = Room
  BY <1>1 DEF Room
<1> QED  BY <1>2, RoomFacts, TaskFacts DEF RoomGrows, LocalRoomKept

\* Starting and stopping timers in ClickUp.
LEMMA SwitchTyped ==
  ASSUME SumsTyped, NEW task \in Timed \cup {NoTask}, NEW started \in Nat, started <= clock,
         task \in Timed \/ [task |-> task, started |-> started] = NoTimer,
         Switch([task |-> task, started |-> started])
  PROVE  /\ spent' \in [Timed -> Nat] /\ \A t \in Timed : spent[t] <= spent'[t]
         /\ timer' \in [task : Timed \cup {NoTask}, started : Nat]
         /\ timer'.started <= clock
         /\ timer' = NoTimer \/ timer'.task \in Timed
<1>1. timer # NoTimer => Since(timer.started) \in Nat
  BY DEF SumsTyped, Since
<1>2. SpentByNow \in [Timed -> Nat] /\ \A t \in Timed : spent[t] <= SpentByNow[t]
  BY <1>1 DEF SumsTyped, SpentByNow
<1> QED  BY <1>2 DEF Switch, NoTimer

LEMMA RoomOfTimers ==
  ASSUME SumsTyped, \A t \in Timed : spent[t] <= spent'[t], spent' \in [Timed -> Nat],
         UNCHANGED <<clock, session, worked, crossed>>
  PROVE  RoomGrows /\ LocalRoomKept /\ \A t \in Timed : Room'[t] = spent'[t]
<1>1. \A t \in LocalTask : Room'[t] = Room[t]
  BY TaskFacts DEF Room, RunningTime, Since
<1>2. \A t \in Timed : Room'[t] = spent'[t]
  BY TaskFacts DEF Room
<1>3. \A t \in Task : t \in LocalTask \/ t \in Timed
  BY DEF Task, Timed, Cached
<1> QED  BY <1>1, <1>2, <1>3, RoomFacts, TaskFacts DEF RoomGrows, LocalRoomKept

\* What fits goes on fitting.
LEMMA FitsGrows ==
  ASSUME SumsTyped, SumsTyped', RoomGrows
  PROVE  \A t \in Task : \A n \in Nat : Fits(t, n) => n <= Room'[t] \/ (crossed' /\ t \notin LocalTask)
<1> SUFFICES ASSUME NEW t \in Task, NEW n \in Nat, Fits(t, n)
             PROVE  n <= Room'[t] \/ (crossed' /\ t \notin LocalTask)
  OBVIOUS
<1>1. Room[t] \in Int
  BY RoomFacts
<1>2. Room'[t] \in Int
  <2>1. /\ t \in LocalTask => worked'[t] \in Nat
        /\ t \notin LocalTask => spent'[t] \in Nat
        /\ clock' \in Nat /\ session'.started \in Nat
    BY DEF SumsTyped, AnySession, Task, Timed, Cached
  <2> QED  BY <2>1 DEF Room, RunningTime, Since
<1> QED  BY <1>1, <1>2 DEF Fits, RoomGrows

\* What may be written stays what may be written while it is left alone.
LEMMA TimesStayFit ==
  ASSUME SumsTyped, SumsTyped', TimesFit, RoomGrows
  PROVE  /\ (\A t \in Cached : tracked'[t] = tracked[t]) => TrackedFits'
         /\ edit' \in {edit, NoRowEdit} => EditFits'
         /\ session' \in {session, NoSession, op.active} => SessionFits'
         /\ op'.active = NoSession \/ (/\ op'.active.task = op.active.task
                                       /\ op'.active.base = op.active.base) => ActiveFits'
         /\ pulled' \in {pulled, << >>} => PulledFits'
<1>1. \A t \in Cached : t \in Task /\ t # NoTask /\ (t \in LocalTask \/ t \in RemoteTask)
  BY TaskFacts
<1>2. /\ tracked \in [Cached -> Nat] /\ edit.read \in Nat /\ session.base \in Nat
      /\ op.active.base \in Nat /\ (pulled # << >> => pulled \in [RemoteTask -> Nat])
  BY DEF SumsTyped, AnySession, AnyOp
<1>3. NoSession.task = NoTask /\ NoRowEdit.task = NoTask
  BY DEF NoSession, NoRowEdit
<1> DEFINE Still(t, n) == n <= Room'[t] \/ (crossed' /\ t \notin LocalTask)
<1>4. \A t \in Task : \A n \in Nat : Fits(t, n) => Still(t, n)
  BY FitsGrows
<1>5. ASSUME \A t \in Cached : tracked'[t] = tracked[t]  PROVE TrackedFits'
  <2>1. \A t \in Cached : Still(t, tracked[t])
    BY <1>1, <1>2, <1>4 DEF TimesFit, TrackedFits
  <2> QED  BY <1>5, <2>1 DEF TrackedFits, Fits
<1>6. ASSUME edit' \in {edit, NoRowEdit}  PROVE EditFits'
  <2>1. edit.task \in Cached => Still(edit.task, edit.read)
    BY <1>1, <1>2, <1>4 DEF TimesFit, EditFits
  <2> QED  BY <1>1, <1>3, <1>6, <2>1 DEF EditFits, Fits
<1>7. session.task \in Cached => Still(session.task, session.base)
  BY <1>1, <1>2, <1>4 DEF TimesFit, SessionFits
<1>8. op.active.task \in Cached => Still(op.active.task, op.active.base)
  BY <1>1, <1>2, <1>4 DEF TimesFit, ActiveFits
<1>9. ASSUME session' \in {session, NoSession, op.active}  PROVE SessionFits'
  BY <1>1, <1>3, <1>7, <1>8, <1>9 DEF SessionFits, Fits
<1>10. ASSUME op'.active = NoSession \/ (/\ op'.active.task = op.active.task
                                         /\ op'.active.base = op.active.base)
       PROVE  ActiveFits'
  BY <1>1, <1>3, <1>8, <1>10 DEF ActiveFits, Fits
<1>11. ASSUME pulled' \in {pulled, << >>}  PROVE PulledFits'
  <2>1. pulled # << >> => \A t \in RemoteTask : Still(t, pulled[t])
    BY <1>2, <1>4, TaskFacts DEF TimesFit, PulledFits
  <2> QED  BY <1>11, <2>1 DEF PulledFits, Fits
<1> QED  BY <1>5, <1>6, <1>9, <1>10, <1>11

\* A step that leaves local tasks and their room alone, and after which no stop is under
\* way that has minutes to add.
Plain == op.step \notin Writing \cup {"stop_load", "stop_write"}
LEMMA PlainStep ==
  ASSUME TrackingInv, SumsTyped', GateHolds', RoomGrows, LocalRoomKept, Plain',
         edit' \in {edit, NoRowEdit}, UNCHANGED undone,
         session' \in {session, NoSession, op.active}, pulled' \in {pulled, << >>},
         \A t \in LocalTask : tracked'[t] = tracked[t],
         TrackedFits', ActiveFits'
  PROVE  TrackingInv'
<1>1. EditFits' /\ SessionFits' /\ PulledFits'
  BY TimesStayFit DEF TrackingInv
<1>2. StopFits'
  BY DEF StopFits, Plain
<1>3. Exact'
  BY DEF TrackingInv, Exact, Plain, LocalRoomKept
<1> QED  BY <1>1, <1>2, <1>3 DEF TrackingInv, TimesFit

\* No operation: the gate is free.
LEMMA IdleFacts ==
  /\ Idle \in AnyOp /\ Idle.step = "idle" /\ Idle.next = NoTask /\ Idle.active = NoSession
  /\ Idle.active.started = 0
  /\ NoSession \in AnySession /\ NoSession.task = NoTask /\ NoSession.started = 0
  BY DEF Idle, NoSession, AnyOp, AnySession, Step

\* Returning gives the gate back, and what it guarded may be anything.
LEMMA ReturnFacts ==
  ASSUME SumsTyped, UNCHANGED clock, Return
  PROVE  /\ op' \in AnyOp /\ op'.active.started <= clock' /\ GateHolds' /\ Plain'
         /\ op'.active = NoSession
<1>1. /\ op' \in AnyOp /\ op'.step = "idle" /\ op'.next = NoTask /\ op'.active.started = 0
      /\ op'.active = NoSession
  BY IdleFacts DEF Return
<1> QED  BY <1>1 DEF SumsTyped, GateHolds, Reading, Starting, Adopting, Writing, Plain

\* An operation goes on with its next step: the rest of it is as it was.
LEMMA ProceedFacts ==
  ASSUME SumsTyped, NEW at \in Step, Proceed(at)
  PROVE  /\ op' \in AnyOp /\ op'.step = at /\ op'.next = op.next /\ op'.seen = op.seen
         /\ op'.active = op.active /\ op'.of = op.of
  BY DEF SumsTyped, Proceed, AnyOp

\* What a step leaves alone keeps its type.
KeptSums == UNCHANGED <<clock, timer, spent, tracked, session, pulled, edit, worked, undone, crossed>>

\* Users begin an operation.
LEMMA UserSteps ==
  ASSUME TrackingInv, (\E t \in Cached : StartTask(t)) \/ StopTask \/ Poll
  PROVE  TrackingInv'
<1>1. KeptSums /\ op.step = "idle"
  BY DEF StartTask, StopTask, Poll, RemoteSide, Local, Env, Edits, KeptSums, At
<1>2. ASSUME op' \in AnyOp, op'.active.started <= clock, GateHolds', Plain',
             ActiveFits' \/ op'.active = NoSession
      PROVE  TrackingInv'
  <2>1. SumsTyped'
    BY <1>1, <1>2 DEF KeptSums, TrackingInv, SumsTyped
  <2>2. RoomGrows /\ LocalRoomKept
    BY <1>1, RoomKept DEF KeptSums, TrackingInv
  <2>3. TrackedFits' /\ ActiveFits'
    BY <1>1, <1>2, <2>1, <2>2, TimesStayFit DEF KeptSums, TrackingInv
  <2> QED  BY <1>1, <1>2, <2>1, <2>2, <2>3, PlainStep DEF KeptSums
<1> DEFINE stopping == [Idle EXCEPT !.seen = session, !.step = StopStep]
<1>3. /\ stopping \in AnyOp /\ stopping.step = StopStep /\ stopping.seen = session
      /\ stopping.next = NoTask /\ stopping.active.started = 0 /\ stopping.active = NoSession
  <2>1. StopStep \in Step /\ session \in AnySession
    BY DEF TrackingInv, SumsTyped, StopStep, Step
  <2> QED  BY <2>1, IdleFacts DEF AnyOp
<1>4. ASSUME op' = stopping  PROVE TrackingInv'
  <2>1. GateHolds'
    BY <1>1, <1>3, <1>4 DEF KeptSums, GateHolds, Reading, Starting, Adopting, Writing, StopStep
  <2>2. Plain'
    BY <1>3, <1>4 DEF Plain, Writing, StopStep
  <2> QED  BY <1>2, <1>3, <1>4, <2>1, <2>2 DEF TrackingInv, SumsTyped
<1>5. ASSUME NEW t \in Cached, StartTask(t)  PROVE TrackingInv'
  <2> DEFINE active == [task |-> t, base |-> tracked[t], started |-> clock]
             begun == [Idle EXCEPT !.next = t, !.seen = session, !.active = active]
             at == IF session # NoSession THEN StopStep
                   ELSE IF t \in LocalTask THEN "start_save" ELSE "start_call"
             m == [begun EXCEPT !.step = at]
  <2>1. op' = stopping \/ op' = m
    BY <1>5 DEF StartTask
  <2>2. active \in AnySession /\ active.task = t /\ active.base = tracked[t] /\ active.started = clock
    BY DEF TrackingInv, SumsTyped, AnySession, Task, Cached
  <2> HIDE DEF active
  <2>3. at \in Step
    BY DEF StopStep, Step
  <2> HIDE DEF at
  <2>4. session \in AnySession
    BY DEF TrackingInv, SumsTyped
  <2>5. /\ m \in AnyOp /\ m.step = at /\ m.seen = session /\ m.next = t /\ m.active = active
    BY <2>2, <2>3, <2>4, IdleFacts DEF AnyOp
  <2>6. CASE op' = m
    <3>1. at \in {"stop_local", "stop_call", "start_save", "start_call"}
          /\ (at = "stop_local" => session.task \in LocalTask)
          /\ (at = "stop_call" => session.task \notin LocalTask)
          /\ (at \in {"start_save", "start_call"} => session = NoSession)
          /\ (at = "start_call" => t \notin LocalTask)
      BY DEF at, StopStep
    <3>2. GateHolds'
      <4>1. t # NoTask /\ NoSession.task \notin LocalTask
        BY IdleFacts, TaskFacts
      <4> QED  BY <1>1, <2>2, <2>5, <2>6, <3>1, <4>1
               DEF KeptSums, GateHolds, Reading, Starting, Adopting, Writing
    <3>3. op' \in AnyOp /\ op'.active.started <= clock
      BY <2>2, <2>5, <2>6 DEF TrackingInv, SumsTyped
    <3>4. Plain'
      BY <2>5, <2>6, <3>1 DEF Plain, Writing
    <3>5. ActiveFits'
      <4>1. TrackedFits' /\ tracked' = tracked
        BY <1>1, RoomKept DEF KeptSums, TrackingInv, TimesFit, TrackedFits, Fits
      <4> QED  BY <2>2, <2>5, <2>6, <4>1 DEF ActiveFits, TrackedFits, Fits
    <3> QED  BY <1>2, <3>2, <3>3, <3>4, <3>5
  <2> QED  BY <1>4, <2>1, <2>6
<1>6. CASE StopTask
  BY <1>4, <1>6 DEF StopTask
<1>7. CASE Poll
  <2> DEFINE m == [Idle EXCEPT !.seen = session, !.step = "poll_ask"]
  <2>1. op' = m /\ session \in AnySession
    BY <1>7 DEF Poll, TrackingInv, SumsTyped
  <2>2. m \in AnyOp /\ m.step = "poll_ask" /\ m.seen = session /\ m.next = NoTask
        /\ m.active.started = 0 /\ m.active = NoSession
    BY <2>1, IdleFacts DEF AnyOp, Step
  <2>3. GateHolds' /\ Plain'
    BY <1>1, <2>1, <2>2 DEF KeptSums, GateHolds, Reading, Starting, Adopting, Writing, Plain
  <2> QED  BY <1>2, <2>1, <2>2, <2>3 DEF TrackingInv, SumsTyped
<1> QED  BY <1>5, <1>6, <1>7

\* The row of a local task whose session ends is read.
LEMMA LocalRowRead ==
  ASSUME TrackingInv, NEW next \in Writing, op.step \in {"stop_local", "poll_local"},
         next = "poll_local_write" => op.step = "poll_local", ReadLocalRow(next), KeptSums
  PROVE  TrackingInv'
<1> DEFINE m == [op EXCEPT !.step = next, !.read = tracked[op.seen.task], !.ended = clock]
<1>1. op' = m /\ session = op.seen /\ op.seen.task \in LocalTask
      /\ tracked[op.seen.task] \in Nat /\ clock \in Nat
  BY TaskFacts DEF ReadLocalRow, TrackingInv, SumsTyped, GateHolds, Reading
<1>2. /\ m \in AnyOp /\ m.step = next /\ m.next = op.next /\ m.seen = op.seen
      /\ m.active = op.active /\ m.read = tracked[op.seen.task] /\ m.ended = clock
  BY <1>1 DEF TrackingInv, SumsTyped, AnyOp, Writing, Step
<1>3. SumsTyped'
  BY <1>1, <1>2 DEF KeptSums, TrackingInv, SumsTyped
<1>4. GateHolds'
  BY <1>1, <1>2 DEF KeptSums, TrackingInv, SumsTyped, GateHolds, Reading, Starting, Adopting, Writing
<1>5. Room' = Room /\ RoomGrows /\ LocalRoomKept
  BY RoomKept DEF KeptSums, TrackingInv
<1>6. TimesFit'
  BY <1>1, <1>2, <1>3, <1>5, TimesStayFit DEF KeptSums, TrackingInv, TimesFit
<1>7. StopFits'
  <2>1. Fits(op.seen.task, tracked[op.seen.task])
    BY <1>1, TaskFacts DEF TrackingInv, TimesFit, TrackedFits
  <2> QED  BY <1>1, <1>2, <1>5, <2>1 DEF StopFits, Fits, KeptSums, Writing
<1>8. Exact'
  BY <1>1, <1>2, <1>5 DEF TrackingInv, Exact, KeptSums
<1> QED  BY <1>3, <1>4, <1>6, <1>7, <1>8 DEF TrackingInv

\* The session of a local task ends: its time is added, and it is gone.
LEMMA LocalSessionEnds ==
  ASSUME TrackingInv, op.step \in Writing, EndLocalSession,
         UNCHANGED <<clock, spent, edit, undone, crossed>>
  PROVE  /\ tracked' \in [Cached -> Nat] /\ worked' \in [LocalTask -> Nat]
         /\ session' = NoSession
         /\ RoomGrows
         /\ \A t \in Cached : tracked'[t] = tracked[t] \/ tracked'[t] <= Room'[t]
         /\ \A t \in LocalTask : t \notin undone => tracked'[t] = Room'[t]
<1> DEFINE s == op.seen
           u == op.seen.task
           sum == Larger(s.base, op.read) + (op.ended - s.started)
<1>1. /\ session = s /\ u \in LocalTask /\ u \in Cached /\ u \in Task
      /\ s.started <= op.ended /\ op.ended <= clock
  BY TaskFacts DEF TrackingInv, GateHolds, Reading
<1>2. /\ s.base \in Nat /\ s.started \in Nat /\ op.read \in Nat /\ op.ended \in Nat /\ clock \in Nat
      /\ worked[u] \in Nat /\ tracked[u] \in Nat
  BY <1>1 DEF TrackingInv, SumsTyped, AnyOp, AnySession
<1>3. Room[u] = worked[u] - (clock - s.started)
  BY <1>1, RoomFacts DEF TrackingInv, RunningTime, Since
<1>4. s.base <= Room[u] /\ op.read <= Room[u]
  BY <1>1, TaskFacts DEF TrackingInv, TimesFit, SessionFits, StopFits, Fits
<1>5. /\ tracked' = [tracked EXCEPT ![u] = sum] /\ session' = NoSession
      /\ worked' = [worked EXCEPT ![u] = worked[u] - (clock - op.ended)]
  BY DEF EndLocalSession, Since
<1>6. sum \in Nat /\ sum <= Room[u] + (op.ended - s.started)
  <2>1. Larger(s.base, op.read) \in Nat /\ Larger(s.base, op.read) <= Room[u]
    BY <1>2, <1>4, LargerFacts
  <2>2. op.ended - s.started \in Nat /\ Room[u] \in Int
    BY <1>1, <1>2, <1>3
  <2> QED  BY <2>1, <2>2
<1>7. worked[u] - (clock - op.ended) \in Nat
  BY <1>1, <1>2, <1>3, <1>4
<1>8. tracked' \in [Cached -> Nat] /\ worked' \in [LocalTask -> Nat]
  BY <1>5, <1>6, <1>7 DEF TrackingInv, SumsTyped
<1>9. \A t \in LocalTask : RunningTime(t)' = 0
  BY <1>5, IdleFacts, TaskFacts DEF RunningTime
<1>10. Room'[u] = Room[u] + (op.ended - s.started)
  BY <1>1, <1>2, <1>3, <1>5, <1>9 DEF Room, TrackingInv, SumsTyped
<1>11. \A t \in Task : t # u => Room'[t] = Room[t]
  <2>1. ASSUME NEW t \in LocalTask, t # u  PROVE RunningTime(t) = 0 /\ worked'[t] = worked[t]
                                                 /\ worked[t] \in Nat
    BY <1>1, <1>5, <2>1 DEF RunningTime, TrackingInv, SumsTyped
  <2> QED  BY <1>9, <2>1 DEF Room
<1> HIDE DEF sum
<1>12. RoomGrows
  BY <1>1, <1>2, <1>10, <1>11, RoomFacts DEF RoomGrows, TrackingInv
<1>13. \A t \in Cached : tracked'[t] = tracked[t] \/ tracked'[t] <= Room'[t]
  BY <1>5, <1>6, <1>10 DEF TrackingInv, SumsTyped
<1>14. ASSUME NEW t \in LocalTask, t \notin undone  PROVE tracked'[t] = Room'[t]
  <2>1. tracked[t] = Room[t] /\ t \in Cached /\ t \in Task
    BY <1>14, TaskFacts DEF TrackingInv, Exact
  <2>2. CASE t = u
    <3>1. op.read = tracked[u] /\ tracked[u] = Room[u]
      BY <1>14, <2>2 DEF TrackingInv, Exact
    <3>2. Larger(s.base, op.read) = Room[u]
      BY <1>2, <1>4, <3>1, LargerFacts
    <3>3. sum = Room[u] + (op.ended - s.started)
      BY <3>2 DEF sum
    <3> QED  BY <1>5, <1>6, <1>10, <2>1, <2>2, <3>3 DEF TrackingInv, SumsTyped
  <2>3. CASE t # u
    BY <1>5, <1>11, <2>1, <2>3 DEF TrackingInv, SumsTyped
  <2> QED  BY <2>2, <2>3
<1> QED  BY <1>5, <1>8, <1>12, <1>13, <1>14

\* And with it the invariant holds, wherever the operation goes on.
LEMMA LocalSessionGone ==
  ASSUME TrackingInv, op.step \in Writing, EndLocalSession,
         UNCHANGED <<clock, timer, spent, pulled, edit, undone, crossed>>,
         op' \in AnyOp, op'.active.started <= clock, GateHolds', Plain',
         op'.active \in {op.active, NoSession}
  PROVE  TrackingInv'
<1>1. /\ tracked' \in [Cached -> Nat] /\ worked' \in [LocalTask -> Nat]
      /\ session' = NoSession
      /\ RoomGrows
      /\ \A t \in Cached : tracked'[t] = tracked[t] \/ tracked'[t] <= Room'[t]
      /\ \A t \in LocalTask : t \notin undone => tracked'[t] = Room'[t]
  BY LocalSessionEnds
<1>2. SumsTyped'
  BY <1>1, IdleFacts DEF TrackingInv, SumsTyped
<1>3. EditFits' /\ SessionFits' /\ PulledFits' /\ ActiveFits'
  BY <1>1, <1>2, TimesStayFit DEF TrackingInv
<1>4. TrackedFits'
  <2>1. \A t \in Cached : t \in Task /\ tracked[t] \in Nat /\ Fits(t, tracked[t])
    BY TaskFacts DEF TrackingInv, TimesFit, TrackedFits, SumsTyped
  <2>2. \A t \in Cached : tracked[t] <= Room'[t] \/ (crossed' /\ t \notin LocalTask)
    BY <1>1, <1>2, <2>1, FitsGrows DEF TrackingInv
  <2> QED  BY <1>1, <2>2 DEF TrackedFits, Fits
<1>5. StopFits' /\ Exact'
  BY <1>1 DEF StopFits, Exact, Plain
<1> QED  BY <1>2, <1>3, <1>4, <1>5 DEF TrackingInv, TimesFit

\* Stopping.
LEMMA StopSteps ==
  ASSUME TrackingInv,
         \/ StopLocal \/ StopLocalWrite \/ StopCall \/ StopRefused \/ StopLoad \/ StopWrite
         \/ StopWriteFails
  PROVE  TrackingInv'
<1> USE DEF At
<1>1. CASE StopLocal
  BY <1>1, LocalRowRead DEF StopLocal, RemoteSide, Local, Env, Edits, KeptSums, Writing
<1>2. ASSUME AfterStop, UNCHANGED clock, session' = NoSession,
             op.step \in {"stop_local_write", "stop_write"}
      PROVE  op' \in AnyOp /\ op'.active.started <= clock' /\ GateHolds' /\ Plain'
             /\ op'.active \in {op.active, NoSession}
  <2>1. CASE op.next = NoTask
    BY <1>2, <2>1, ReturnFacts DEF AfterStop, TrackingInv
  <2>2. CASE op.next # NoTask
    <3> DEFINE at == IF op.next \in LocalTask THEN "start_save" ELSE "start_call"
    <3>1. Proceed(at) /\ at \in Step
      BY <1>2, <2>2 DEF AfterStop, Step
    <3>2. op' \in AnyOp /\ op'.step = at /\ op'.next = op.next /\ op'.active = op.active
      BY <3>1, ProceedFacts DEF TrackingInv
    <3>3. op.active.task = op.next
      BY <2>2 DEF TrackingInv, GateHolds
    <3> QED  BY <1>2, <2>2, <3>2, <3>3, IdleFacts, TaskFacts
             DEF TrackingInv, SumsTyped, GateHolds, Reading, Starting, Adopting, Writing, Plain
  <2> QED  BY <2>1, <2>2
<1>3. CASE StopLocalWrite
  <2>1. UNCHANGED <<clock, timer, spent, pulled, edit, undone, crossed>> /\ EndLocalSession
        /\ AfterStop /\ op.step = "stop_local_write" /\ session' = NoSession
    BY <1>3 DEF StopLocalWrite, RemoteSide, Edits, EndLocalSession
  <2> QED  BY <1>2, <2>1, LocalSessionGone DEF Writing
<1>4. ASSUME UNCHANGED <<clock, tracked, session, pulled, edit, worked, undone, crossed>>,
             /\ spent' \in [Timed -> Nat] /\ \A t \in Timed : spent[t] <= spent'[t]
             /\ timer' \in [task : Timed \cup {NoTask}, started : Nat]
             /\ timer'.started <= clock
             /\ timer' = NoTimer \/ timer'.task \in Timed,
             Return
      PROVE  TrackingInv'
  <2>1. op' \in AnyOp /\ op'.active.started <= clock' /\ GateHolds' /\ Plain'
        /\ op'.active = NoSession
    BY <1>4, ReturnFacts DEF TrackingInv
  <2>2. SumsTyped'
    BY <1>4, <2>1 DEF TrackingInv, SumsTyped
  <2>3. RoomGrows /\ LocalRoomKept
    BY <1>4, RoomOfTimers DEF TrackingInv
  <2>4. TrackedFits' /\ ActiveFits'
    BY <1>4, <2>1, <2>2, <2>3, TimesStayFit DEF TrackingInv
  <2> QED  BY <1>4, <2>1, <2>2, <2>3, <2>4, PlainStep
<1>5. CASE StopCall
  <2>1. UNCHANGED <<clock, tracked, session, pulled, edit, worked, undone, crossed>>
        /\ op.step = "stop_call"
    BY <1>5 DEF StopCall, Local, Env, Edits
  <2>2. /\ spent' \in [Timed -> Nat] /\ \A t \in Timed : spent[t] <= spent'[t]
        /\ timer' \in [task : Timed \cup {NoTask}, started : Nat]
        /\ timer'.started <= clock
        /\ timer' = NoTimer \/ timer'.task \in Timed
    <3>1. Switch([task |-> NoTask, started |-> 0])
      BY <1>5 DEF StopCall, NoTimer
    <3>2. 0 <= clock /\ [task |-> NoTask, started |-> 0] = NoTimer
      BY DEF TrackingInv, SumsTyped, NoTimer
    <3> QED  BY <3>1, <3>2, SwitchTyped DEF TrackingInv
  <2>3. CASE Return
    BY <1>4, <2>1, <2>2, <2>3
  <2> DEFINE u == timer.task
             amount == Since(timer.started)
             m == [op EXCEPT !.step = "stop_load", !.of = u, !.amount = amount]
  <2>4. CASE op' = m
    <3>1. u \in Timed /\ amount \in Nat /\ spent'[u] = spent[u] + amount /\ spent[u] \in Nat
      BY <1>5 DEF StopCall, TrackingInv, SumsTyped, Since, Switch, SpentByNow
    <3> HIDE DEF amount
    <3>2. /\ m \in AnyOp /\ m.step = "stop_load" /\ m.next = op.next /\ m.seen = op.seen
          /\ m.active = op.active /\ m.of = u /\ m.amount = amount
      BY <3>1 DEF TrackingInv, SumsTyped, AnyOp, Step
    <3> HIDE DEF m
    <3>3. GateHolds'
      BY <2>1, <2>4, <3>2 DEF TrackingInv, GateHolds, Reading, Starting, Adopting, Writing
    <3>4. SumsTyped'
      BY <2>1, <2>2, <2>4, <3>2 DEF TrackingInv, SumsTyped
    <3>5. RoomGrows /\ LocalRoomKept /\ Room'[u] = spent[u] + amount /\ Room[u] = spent[u]
      BY <2>1, <2>2, <3>1, RoomOfTimers, RoomFacts DEF TrackingInv
    <3>6. TimesFit'
      BY <2>1, <2>4, <3>2, <3>4, <3>5, TimesStayFit DEF TrackingInv, TimesFit
    <3>7. StopFits'
      <4>1. ASSUME NEW n \in Nat, Fits(u, n)
            PROVE  amount + n <= Room'[u] \/ (crossed' /\ u \notin LocalTask)
        BY <2>1, <3>1, <3>5, <4>1 DEF Fits
      <4>2. u \in Cached => tracked[u] \in Nat /\ Fits(u, tracked[u])
        BY DEF TrackingInv, SumsTyped, TimesFit, TrackedFits
      <4>3. u \in Cached /\ edit.task = u => edit.read \in Nat /\ Fits(u, edit.read)
        BY DEF TrackingInv, SumsTyped, TimesFit, EditFits
      <4>4. u \in Cached /\ u = op.seen.task => op.seen.base \in Nat /\ Fits(u, op.seen.base)
        BY <2>1 DEF TrackingInv, SumsTyped, AnyOp, AnySession, TimesFit, SessionFits, GateHolds, Reading
      <4> QED  BY <2>1, <2>4, <3>2, <4>1, <4>2, <4>3, <4>4 DEF StopFits, Fits, Writing
    <3>8. Exact'
      BY <2>1, <2>4, <3>2, <3>5 DEF TrackingInv, Exact, Writing, LocalRoomKept
    <3> QED  BY <3>3, <3>4, <3>6, <3>7, <3>8 DEF TrackingInv
  <2> QED  BY <1>5, <2>3, <2>4 DEF StopCall
<1>6. CASE StopRefused
  BY <1>4, <1>6 DEF StopRefused, RemoteSide, Local, Env, Edits, TrackingInv, SumsTyped
<1>7. CASE StopLoad
  <2> DEFINE read == IF op.of \in Cached THEN tracked[op.of] ELSE 0
             m == [op EXCEPT !.step = "stop_write", !.read = read]
  <2>1. KeptSums /\ op.step = "stop_load" /\ op' = m
    BY <1>7 DEF StopLoad, RemoteSide, Local, Env, Edits, KeptSums
  <2>2. read \in Nat /\ (op.of \in Cached => read = tracked[op.of])
    BY DEF TrackingInv, SumsTyped
  <2> HIDE DEF read
  <2>3. /\ m \in AnyOp /\ m.step = "stop_write" /\ m.next = op.next /\ m.seen = op.seen
        /\ m.active = op.active /\ m.of = op.of /\ m.amount = op.amount /\ m.read = read
    BY <2>2 DEF TrackingInv, SumsTyped, AnyOp, Step
  <2>4. GateHolds'
    BY <2>1, <2>3 DEF KeptSums, TrackingInv, GateHolds, Reading, Starting, Adopting, Writing
  <2>5. SumsTyped'
    BY <2>1, <2>3 DEF KeptSums, TrackingInv, SumsTyped
  <2>6. Room' = Room /\ RoomGrows
    BY <2>1, RoomKept DEF KeptSums, TrackingInv
  <2>7. TimesFit'
    BY <2>1, <2>3, <2>5, <2>6, TimesStayFit DEF KeptSums, TrackingInv, TimesFit
  <2>8. StopFits'
    BY <2>1, <2>2, <2>3, <2>6 DEF KeptSums, TrackingInv, StopFits, Fits, Writing
  <2>9. Exact'
    BY <2>1, <2>3, <2>6 DEF KeptSums, TrackingInv, Exact, Writing
  <2> QED  BY <2>4, <2>5, <2>7, <2>8, <2>9 DEF TrackingInv
<1>8. ASSUME UNCHANGED <<clock, timer, spent, pulled, edit, worked, undone, crossed>>,
             op.step = "stop_write", session' = NoSession,
             tracked' \in [Cached -> Nat], \A t \in LocalTask : tracked'[t] = tracked[t],
             TrackedFits', op' \in AnyOp, op'.active.started <= clock, GateHolds', Plain',
             op'.active \in {op.active, NoSession}
      PROVE  TrackingInv'
  <2>1. session.task \notin LocalTask /\ session'.task \notin LocalTask
    BY <1>8, IdleFacts, TaskFacts DEF TrackingInv, GateHolds, Reading
  <2>2. SumsTyped'
    BY <1>8, IdleFacts DEF TrackingInv, SumsTyped
  <2>3. RoomGrows /\ LocalRoomKept
    BY <1>8, <2>1, RoomKept DEF TrackingInv
  <2>4. ActiveFits'
    BY <1>8, <2>2, <2>3, TimesStayFit DEF TrackingInv
  <2> QED  BY <1>8, <2>2, <2>3, <2>4, PlainStep
<1>9. ASSUME UNCHANGED <<clock, spent, worked, crossed>>, op.step = "stop_write", session' = NoSession
      PROVE  Room' = Room
  BY <1>9, RoomKept, IdleFacts, TaskFacts DEF TrackingInv, GateHolds, Reading
<1>10. CASE StopWrite
  <2> DEFINE u == op.of
             sum == op.amount + (IF u = op.seen.task THEN Larger(op.seen.base, op.read) ELSE op.read)
  <2>1. UNCHANGED <<clock, timer, spent, pulled, edit, worked, undone, crossed>> /\ AfterStop
        /\ op.step = "stop_write" /\ session' = NoSession
        /\ tracked' = IF u \notin Cached THEN tracked ELSE [tracked EXCEPT ![u] = sum]
    BY <1>10 DEF StopWrite, RemoteSide, Env, Edits
  <2>2. op.amount \in Nat /\ op.read \in Nat /\ op.seen.base \in Nat /\ u \notin LocalTask
    BY TaskFacts DEF TrackingInv, SumsTyped, AnyOp, AnySession
  <2>3. sum \in Nat /\ (sum = op.amount + op.read
                        \/ (u = op.seen.task /\ sum = op.amount + op.seen.base))
    <3>1. /\ Larger(op.seen.base, op.read) \in Nat
          /\ Larger(op.seen.base, op.read) \in {op.seen.base, op.read}
      BY <2>2, LargerFacts
    <3> QED  BY <2>2, <3>1
  <2>4. u \in Cached => Fits(u, sum)
    BY <2>1, <2>3 DEF TrackingInv, StopFits
  <2> HIDE DEF sum
  <2>5. tracked' \in [Cached -> Nat] /\ \A t \in LocalTask : tracked'[t] = tracked[t]
    BY <2>1, <2>2, <2>3, TaskFacts DEF TrackingInv, SumsTyped
  <2>6. TrackedFits'
    <3>1. \A t \in Cached : Fits(t, tracked'[t])
      BY <2>1, <2>4 DEF TrackingInv, SumsTyped, TimesFit, TrackedFits
    <3> QED  BY <1>9, <2>1, <3>1 DEF TrackedFits, Fits
  <2> QED  BY <1>2, <1>8, <2>1, <2>5, <2>6
<1>11. CASE StopWriteFails
  <2>1. UNCHANGED <<clock, timer, spent, tracked, pulled, edit, worked, undone, crossed>> /\ Return
        /\ op.step = "stop_write" /\ session' = NoSession
    BY <1>11 DEF StopWriteFails, RemoteSide, Env, Edits
  <2>2. TrackedFits'
    BY <1>9, <2>1 DEF TrackingInv, TimesFit, TrackedFits, Fits
  <2>3. op' \in AnyOp /\ op'.active.started <= clock' /\ GateHolds' /\ Plain'
        /\ op'.active = NoSession
    BY <2>1, ReturnFacts DEF TrackingInv
  <2> QED  BY <1>8, <2>1, <2>2, <2>3 DEF TrackingInv, SumsTyped
<1> QED  BY <1>1, <1>3, <1>5, <1>6, <1>7, <1>10, <1>11

\* Starting.
LEMMA StartSteps ==
  ASSUME TrackingInv, StartCall \/ StartSave \/ StartSaveFails \/ StartUndo
  PROVE  TrackingInv'
<1> USE DEF At
<1>1. ASSUME UNCHANGED <<clock, tracked, session, pulled, edit, worked, undone, crossed>>,
             /\ spent' \in [Timed -> Nat] /\ \A t \in Timed : spent[t] <= spent'[t]
             /\ timer' \in [task : Timed \cup {NoTask}, started : Nat]
             /\ timer'.started <= clock
             /\ timer' = NoTimer \/ timer'.task \in Timed,
             op' \in AnyOp, op'.active.started <= clock, GateHolds', Plain',
             \/ op'.active = NoSession
             \/ op'.active.task = op.active.task /\ op'.active.base = op.active.base
      PROVE  TrackingInv'
  <2>1. SumsTyped'
    BY <1>1 DEF TrackingInv, SumsTyped
  <2>2. RoomGrows /\ LocalRoomKept
    BY <1>1, RoomOfTimers DEF TrackingInv
  <2>3. TrackedFits' /\ ActiveFits'
    BY <1>1, <2>1, <2>2, TimesStayFit DEF TrackingInv
  <2> QED  BY <1>1, <2>1, <2>2, <2>3, PlainStep
<1>2. ASSUME KeptSums, op' \in AnyOp, op'.active.started <= clock, GateHolds', Plain',
             op'.active \in {op.active, NoSession}
      PROVE  TrackingInv'
  <2>1. /\ spent' \in [Timed -> Nat] /\ \A t \in Timed : spent[t] <= spent'[t]
        /\ timer' \in [task : Timed \cup {NoTask}, started : Nat]
        /\ timer'.started <= clock
        /\ timer' = NoTimer \/ timer'.task \in Timed
    BY <1>2 DEF KeptSums, TrackingInv, SumsTyped
  <2> QED  BY <1>1, <1>2, <2>1 DEF KeptSums
<1>3. op.step \in Starting => /\ session.task \notin LocalTask /\ op.next # NoTask
                              /\ op.active.task = op.next
  BY DEF TrackingInv, GateHolds
<1>4. CASE StartCall
  <2>1. UNCHANGED <<clock, tracked, session, pulled, edit, worked, undone, crossed>>
        /\ op.step = "start_call" /\ Switch([task |-> op.next, started |-> clock])
    BY <1>4 DEF StartCall, Local, Env, Edits
  <2>2. op.next \in Timed /\ clock \in Nat
    BY <1>3, <2>1, TaskFacts DEF TrackingInv, SumsTyped, AnyOp, Starting, GateHolds
  <2>3. /\ spent' \in [Timed -> Nat] /\ \A t \in Timed : spent[t] <= spent'[t]
        /\ timer' \in [task : Timed \cup {NoTask}, started : Nat]
        /\ timer'.started <= clock
        /\ timer' = NoTimer \/ timer'.task \in Timed
    BY <2>1, <2>2, SwitchTyped DEF TrackingInv
  <2>4. CASE Return
    BY <1>1, <2>1, <2>3, <2>4, ReturnFacts DEF TrackingInv
  <2> DEFINE m == [op EXCEPT !.step = "start_save", !.active.started = clock]
  <2>5. CASE op' = m
    <3>1. /\ m \in AnyOp /\ m.step = "start_save" /\ m.next = op.next /\ m.seen = op.seen
          /\ m.active.task = op.active.task /\ m.active.base = op.active.base
          /\ m.active.started = clock
      BY DEF TrackingInv, SumsTyped, AnyOp, AnySession, Step
    <3>2. GateHolds' /\ Plain'
      BY <1>3, <2>1, <2>5, <3>1
         DEF TrackingInv, GateHolds, Reading, Starting, Adopting, Writing, Plain
    <3> QED  BY <1>1, <2>1, <2>2, <2>3, <2>5, <3>1, <3>2
  <2> QED  BY <1>4, <2>4, <2>5 DEF StartCall
<1>5. CASE StartSave
  <2>1. /\ UNCHANGED <<clock, timer, spent, tracked, pulled, edit, undone, crossed>>
        /\ Return /\ op.step = "start_save" /\ session' = op.active
        /\ worked' = IF op.next \in LocalTask
                     THEN [worked EXCEPT ![op.next] = @ + Since(op.active.started)] ELSE worked
    BY <1>5 DEF StartSave, RemoteSide, Edits
  <2>2. /\ session.task \notin LocalTask /\ op.active.task = op.next
        /\ Since(op.active.started) \in Nat
    BY <1>3, <2>1 DEF Starting, TrackingInv, SumsTyped, AnyOp, AnySession, Since
  <2>3. Room' = Room
    <3>1. ASSUME NEW t \in LocalTask
          PROVE  worked'[t] - RunningTime(t)' = worked[t] - RunningTime(t)
      <4>1. RunningTime(t) = 0 /\ worked[t] \in Nat
        BY <2>2 DEF RunningTime, TrackingInv, SumsTyped
      <4>2. RunningTime(t)' = IF op.next = t THEN Since(op.active.started) ELSE 0
        BY <2>1, <2>2 DEF RunningTime, Since
      <4>3. worked'[t] = IF op.next = t THEN worked[t] + Since(op.active.started) ELSE worked[t]
        BY <2>1, <4>1 DEF TrackingInv, SumsTyped
      <4> QED  BY <2>2, <4>1, <4>2, <4>3
    <3> QED  BY <2>1, <3>1 DEF Room
  <2>4. RoomGrows /\ LocalRoomKept
    BY <2>1, <2>3, RoomFacts, TaskFacts DEF RoomGrows, LocalRoomKept, TrackingInv
  <2>5. /\ op' \in AnyOp /\ op'.active.started <= clock' /\ GateHolds' /\ Plain'
        /\ op'.active = NoSession
    BY <2>1, ReturnFacts DEF TrackingInv
  <2>6. SumsTyped'
    <3>1. worked' \in [LocalTask -> Nat] /\ session' \in AnySession /\ session'.started <= clock
      BY <2>1, <2>2 DEF TrackingInv, SumsTyped, AnyOp
    <3> QED  BY <2>1, <2>5, <3>1 DEF TrackingInv, SumsTyped
  <2>7. TrackedFits' /\ ActiveFits'
    BY <2>1, <2>4, <2>5, <2>6, TimesStayFit DEF TrackingInv
  <2> QED  BY <2>1, <2>4, <2>5, <2>6, <2>7, PlainStep
<1>6. CASE StartSaveFails
  <2>1. KeptSums /\ op.step = "start_save" /\ (Return \/ Proceed("start_undo"))
    BY <1>6 DEF StartSaveFails, RemoteSide, Local, Env, Edits, KeptSums
  <2>2. CASE Return
    BY <1>2, <2>1, <2>2, ReturnFacts DEF TrackingInv, KeptSums, SumsTyped
  <2>3. CASE Proceed("start_undo")
    <3>1. /\ op' \in AnyOp /\ op'.step = "start_undo" /\ op'.next = op.next /\ op'.active = op.active
      BY <2>3, ProceedFacts DEF TrackingInv, Step
    <3>2. GateHolds' /\ Plain'
      BY <1>3, <2>1, <3>1 DEF KeptSums, GateHolds, Reading, Starting, Adopting, Writing, Plain
    <3> QED  BY <1>2, <2>1, <3>1, <3>2 DEF TrackingInv, SumsTyped, KeptSums
  <2> QED  BY <2>1, <2>2, <2>3
<1>7. CASE StartUndo
  <2>1. UNCHANGED <<clock, tracked, session, pulled, edit, worked, undone, crossed>> /\ Return
        /\ Switch([task |-> NoTask, started |-> 0])
    BY <1>7 DEF StartUndo, Local, Env, Edits, NoTimer
  <2>2. 0 <= clock /\ [task |-> NoTask, started |-> 0] = NoTimer
    BY DEF TrackingInv, SumsTyped, NoTimer
  <2>3. /\ spent' \in [Timed -> Nat] /\ \A t \in Timed : spent[t] <= spent'[t]
        /\ timer' \in [task : Timed \cup {NoTask}, started : Nat]
        /\ timer'.started <= clock
        /\ timer' = NoTimer \/ timer'.task \in Timed
    BY <2>1, <2>2, SwitchTyped DEF TrackingInv
  <2> QED  BY <1>1, <2>1, <2>3, ReturnFacts DEF TrackingInv
<1> QED  BY <1>4, <1>5, <1>6, <1>7

\* Polling: what it stores is a session of a task of ClickUp.
LEMMA PollSteps ==
  ASSUME TrackingInv,
         \/ PollAsk \/ PollSame \/ PollRefresh \/ PollClear \/ PollLocal \/ PollLocalWrite
         \/ PollAdopt \/ PollSave
  PROVE  TrackingInv'
<1> USE DEF At
<1> DEFINE Around == UNCHANGED <<clock, timer, spent, pulled, edit, worked, undone, crossed>>
<1>1. ASSUME Around,
             tracked' \in [Cached -> Nat], \A t \in LocalTask : tracked'[t] = tracked[t],
             \A t \in Cached : tracked'[t] = tracked[t] \/ tracked'[t] <= Room[t],
             session' \in {session, NoSession, op.active},
             session' = session \/ (session.task \notin LocalTask /\ session'.task \notin LocalTask),
             op' \in AnyOp, op'.active.started <= clock, GateHolds', Plain',
             op'.active \in {op.active, NoSession} \/ ActiveFits'
      PROVE  TrackingInv'
  <2>1. SumsTyped'
    <3>1. /\ session \in AnySession /\ session.started <= clock /\ 0 <= clock
          /\ op.active \in AnySession /\ op.active.started <= clock
      BY DEF TrackingInv, SumsTyped, AnyOp
    <3>2. session' \in AnySession /\ session'.started <= clock
      BY <1>1, <3>1, IdleFacts
    <3> QED  BY <1>1, <3>2 DEF TrackingInv, SumsTyped
  <2>2. Room' = Room /\ RoomGrows /\ LocalRoomKept
    BY <1>1, RoomKept DEF TrackingInv
  <2>3. TrackedFits'
    BY <1>1, <2>2 DEF TrackingInv, TimesFit, TrackedFits, Fits
  <2>4. ActiveFits'
    BY <1>1, <2>1, <2>2, TimesStayFit DEF TrackingInv
  <2> QED  BY <1>1, <2>1, <2>2, <2>3, <2>4, PlainStep
<1>2. ASSUME NEW t
      PROVE  /\ Refreshed(t) \in [Cached -> Nat]
             /\ \A u \in LocalTask : Refreshed(t)[u] = tracked[u]
             /\ \A u \in Cached : Refreshed(t)[u] = tracked[u] \/ Refreshed(t)[u] <= Room[u]
             /\ t \in Timed /\ t \in Cached => Refreshed(t)[t] = Room[t]
  <2>1. CASE t \in RemoteTask
    <3>1. spent[t] \in Nat /\ Room[t] = spent[t]
      BY <2>1, TaskFacts, RoomFacts DEF TrackingInv, SumsTyped
    <3> QED  BY <2>1, <3>1, TaskFacts DEF TrackingInv, SumsTyped, Refreshed
  <2>2. CASE t \notin RemoteTask
    BY <2>2, TaskFacts DEF TrackingInv, SumsTyped, Refreshed
  <2> QED  BY <2>1, <2>2
<1>3. /\ tracked \in [Cached -> Nat] /\ op.active \in AnySession /\ op.active.started <= clock
      /\ NoSession.task \notin LocalTask
  BY IdleFacts, TaskFacts DEF TrackingInv, SumsTyped, AnyOp
<1>4. CASE PollAsk
  <2>1. KeptSums /\ op.step = "poll_ask" /\ session = op.seen /\ op.next = NoTask
        /\ op.active = NoSession
    BY <1>4 DEF PollAsk, RemoteSide, Local, Env, Edits, KeptSums, TrackingInv, GateHolds, Reading
  <2>2. ASSUME op' \in AnyOp, op'.active.started <= clock, GateHolds', Plain',
               op'.active \in {op.active, NoSession} \/ ActiveFits'
        PROVE  TrackingInv'
    BY <1>1, <1>3, <2>1, <2>2 DEF KeptSums
  <2>3. CASE timer = NoTimer /\ ~(Sees /\ ~SeesLocal)
    BY <1>4, <2>1, <2>2, <2>3, ReturnFacts DEF PollAsk, TrackingInv, KeptSums
  <2>4. CASE timer = NoTimer /\ Sees /\ ~SeesLocal
    <3>1. Proceed("poll_refresh")
      BY <1>4, <2>4 DEF PollAsk
    <3>2. /\ op' \in AnyOp /\ op'.step = "poll_refresh" /\ op'.next = NoTask /\ op'.seen = op.seen
          /\ op'.active = op.active
      BY <2>1, <3>1, ProceedFacts DEF TrackingInv, Step
    <3>3. op.seen.task \notin LocalTask
      BY <2>4 DEF SeesLocal
    <3>4. GateHolds' /\ Plain'
      BY <2>1, <3>2, <3>3 DEF KeptSums, GateHolds, Reading, Starting, Adopting, Writing, Plain
    <3> QED  BY <1>3, <2>2, <3>2, <3>4
  <2>5. CASE timer # NoTimer
    <3> DEFINE at == IF Sees /\ SameTimer(op.seen) THEN "poll_same"
                     ELSE IF ~Sees THEN "poll_adopt"
                     ELSE IF SeesLocal THEN "poll_local" ELSE "poll_refresh"
               m == [op EXCEPT !.active = Running, !.step = at]
    <3>1. op' = m
      BY <1>4, <2>5 DEF PollAsk
    <3>2. /\ Running \in AnySession /\ Running.task = timer.task /\ Running.started <= clock
          /\ timer.task \in Timed /\ timer.task \notin LocalTask
          /\ (timer.task \in Cached => Running.base = tracked[timer.task])
      BY <2>5, TaskFacts DEF TrackingInv, SumsTyped, Running, AnySession
    <3>3. /\ at \in {"poll_same", "poll_adopt", "poll_local", "poll_refresh"}
          /\ at = "poll_same" => op.seen.task \notin LocalTask
          /\ at = "poll_adopt" => session.task \notin LocalTask
          /\ at = "poll_local" => op.seen.task \in LocalTask
          /\ at = "poll_refresh" => op.seen.task \notin LocalTask
      BY <1>3, <2>1, <3>2 DEF Sees, SeesLocal, SameTimer
    <3> HIDE DEF at
    <3>4. m \in AnyOp /\ m.step = at /\ m.seen = op.seen /\ m.next = NoTask /\ m.active = Running
      BY <2>1, <3>2, <3>3 DEF TrackingInv, SumsTyped, AnyOp, Step
    <3>5. GateHolds' /\ Plain'
      BY <2>1, <3>1, <3>2, <3>3, <3>4
         DEF KeptSums, GateHolds, Reading, Starting, Adopting, Writing, Plain
    <3>6. ActiveFits'
      <4>1. Room' = Room /\ crossed' = crossed
        BY <2>1, RoomKept DEF KeptSums, TrackingInv
      <4>2. timer.task \in Cached => Fits(timer.task, Running.base)
        BY <3>2 DEF TrackingInv, TimesFit, TrackedFits
      <4> QED  BY <3>1, <3>2, <3>4, <4>1, <4>2 DEF ActiveFits, Fits
    <3> QED  BY <2>2, <3>1, <3>2, <3>4, <3>5, <3>6
  <2> QED  BY <2>3, <2>4, <2>5
<1>5. CASE PollSame
  <2>1. Around /\ op.step = "poll_same" /\ Return
        /\ tracked' = Refreshed(op.active.task) /\ session' = op.active
    BY <1>5 DEF PollSame, RemoteSide, Env, Edits
  <2>2. op.active.task \in Timed /\ session.task \notin LocalTask
    BY <2>1 DEF TrackingInv, GateHolds, Reading
  <2>3. /\ op' \in AnyOp /\ op'.active.started <= clock' /\ GateHolds' /\ Plain'
        /\ op'.active = NoSession
    BY <2>1, ReturnFacts DEF TrackingInv
  <2> QED  BY <1>1, <1>2, <2>1, <2>2, <2>3, TaskFacts
<1>6. CASE PollRefresh
  <2>1. Around /\ UNCHANGED session /\ op.step = "poll_refresh"
        /\ tracked' = Refreshed(op.seen.task) /\ Proceed("poll_clear")
    BY <1>6 DEF PollRefresh, RemoteSide, Env, Edits
  <2>2. /\ op' \in AnyOp /\ op'.step = "poll_clear" /\ op'.next = op.next /\ op'.seen = op.seen
        /\ op'.active = op.active
    BY <2>1, ProceedFacts DEF TrackingInv, Step
  <2>3. GateHolds' /\ Plain'
    BY <2>1, <2>2 DEF TrackingInv, GateHolds, Reading, Starting, Adopting, Writing, Plain
  <2> QED  BY <1>1, <1>2, <1>3, <2>1, <2>2, <2>3
<1>7. CASE PollClear
  <2>1. Around /\ UNCHANGED tracked /\ op.step = "poll_clear" /\ session' = NoSession
        /\ IF op.active = NoSession THEN Return ELSE Proceed("poll_adopt")
    BY <1>7 DEF PollClear, RemoteSide, Env, Edits
  <2>2. session.task \notin LocalTask
    BY <2>1 DEF TrackingInv, GateHolds, Reading
  <2>3. /\ op' \in AnyOp /\ op'.active.started <= clock' /\ GateHolds' /\ Plain'
        /\ op'.active \in {op.active, NoSession}
    <3>1. CASE op.active = NoSession
      BY <2>1, <3>1, ReturnFacts DEF TrackingInv
    <3>2. CASE op.active # NoSession
      <4>1. /\ op' \in AnyOp /\ op'.step = "poll_adopt" /\ op'.next = op.next
            /\ op'.active = op.active
        BY <2>1, <3>2, ProceedFacts DEF TrackingInv, Step
      <4>2. op.active.task \in Timed /\ op.next = NoTask
        BY <2>1, <3>2 DEF TrackingInv, GateHolds
      <4> QED  BY <1>3, <2>1, <4>1, <4>2 DEF GateHolds, Reading, Starting, Adopting, Writing, Plain
    <3> QED  BY <3>1, <3>2
  <2> QED  BY <1>1, <1>3, <2>1, <2>2, <2>3
<1>8. CASE PollLocal
  BY <1>8, LocalRowRead DEF PollLocal, RemoteSide, Local, Env, Edits, KeptSums, Writing
<1>9. CASE PollLocalWrite
  <2>1. UNCHANGED <<clock, timer, spent, pulled, edit, undone, crossed>> /\ EndLocalSession
        /\ op.step = "poll_local_write" /\ session' = NoSession /\ Proceed("poll_adopt")
    BY <1>9 DEF PollLocalWrite, RemoteSide, Edits, EndLocalSession
  <2>2. op.active.task \in Timed /\ op.next = NoTask
    BY <2>1 DEF TrackingInv, GateHolds
  <2>3. /\ op' \in AnyOp /\ op'.step = "poll_adopt" /\ op'.next = op.next
        /\ op'.active = op.active
    BY <2>1, ProceedFacts DEF TrackingInv, Step
  <2>4. GateHolds' /\ Plain'
    BY <1>3, <2>1, <2>2, <2>3 DEF GateHolds, Reading, Starting, Adopting, Writing, Plain
  <2> QED  BY <1>3, <2>1, <2>3, <2>4, LocalSessionGone DEF Writing
<1>10. CASE PollAdopt
  <2> DEFINE u == op.active.task
             counted == IF u \in Cached THEN tracked'[u] ELSE 0
             m == [op EXCEPT !.step = "poll_save", !.active.base = counted]
  <2>1. Around /\ UNCHANGED session /\ op.step = "poll_adopt" /\ tracked' = Refreshed(u) /\ op' = m
    BY <1>10 DEF PollAdopt, RemoteSide, Env, Edits
  <2>2. u \in Timed /\ u \notin LocalTask /\ session.task \notin LocalTask /\ op.next = NoTask
    BY <2>1, TaskFacts DEF TrackingInv, GateHolds, Adopting
  <2>3. counted \in Nat /\ (u \in Cached => counted = Room[u])
    BY <1>2, <2>1, <2>2
  <2> HIDE DEF counted
  <2>4. /\ m \in AnyOp /\ m.step = "poll_save" /\ m.next = op.next
        /\ m.active.task = u /\ m.active.started = op.active.started /\ m.active.base = counted
    BY <2>3 DEF TrackingInv, SumsTyped, AnyOp, AnySession, Step
  <2>5. GateHolds' /\ Plain'
    BY <2>1, <2>2, <2>4 DEF GateHolds, Reading, Starting, Adopting, Writing, Plain
  <2>6. ActiveFits'
    <3>1. Room' = Room
      BY <2>1, RoomKept DEF TrackingInv
    <3>2. u \in Cached => Room[u] \in Int
      BY RoomFacts, TaskFacts DEF TrackingInv
    <3> QED  BY <2>1, <2>3, <2>4, <3>1, <3>2 DEF ActiveFits, Fits
  <2> QED  BY <1>1, <1>2, <1>3, <2>1, <2>4, <2>5, <2>6
<1>11. CASE PollSave
  <2>1. Around /\ UNCHANGED tracked /\ op.step = "poll_save" /\ Return /\ session' = op.active
    BY <1>11 DEF PollSave, RemoteSide, Env, Edits
  <2>2. op.active.task \in Timed /\ session.task \notin LocalTask
    BY <2>1 DEF TrackingInv, GateHolds, Adopting
  <2>3. /\ op' \in AnyOp /\ op'.active.started <= clock' /\ GateHolds' /\ Plain'
        /\ op'.active = NoSession
    BY <2>1, ReturnFacts DEF TrackingInv
  <2> QED  BY <1>1, <1>3, <2>1, <2>2, <2>3, TaskFacts
<1> QED  BY <1>4, <1>5, <1>6, <1>7, <1>8, <1>9, <1>10, <1>11

\* What goes on around the gate and leaves every time alone.
LEMMA AroundTheGate ==
  ASSUME TrackingInv, SumsTyped', RoomGrows, LocalRoomKept,
         UNCHANGED <<op, tracked, session, edit, undone>>, clock <= clock', PulledFits'
  PROVE  TrackingInv'
<1>1. GateHolds'
  <2>1. clock \in Nat /\ clock' \in Nat /\ op.ended \in Nat
    BY DEF TrackingInv, SumsTyped, AnyOp
  <2> QED  BY <2>1 DEF TrackingInv, GateHolds, Reading, Starting, Adopting, Writing
<1>2. TimesFit'
  BY TimesStayFit DEF TrackingInv, TimesFit
<1>3. StopFits'
  <2> DEFINE Still(t, n) == n <= Room'[t] \/ (crossed' /\ t \notin LocalTask)
  <2>1. \A t \in Task : \A n \in Nat : Fits(t, n) => Still(t, n)
    BY FitsGrows DEF TrackingInv
  <2>2. /\ op.amount \in Nat /\ op.read \in Nat /\ edit.read \in Nat /\ op.seen.base \in Nat
        /\ (op.of \in Cached => tracked[op.of] \in Nat /\ op.of \in Task)
        /\ (op.step \in Writing => op.seen.task \in Task)
    BY TaskFacts DEF TrackingInv, SumsTyped, AnyOp, AnySession, GateHolds
  <2>3. op.step \in Writing => Still(op.seen.task, op.read)
    BY <2>1, <2>2 DEF TrackingInv, StopFits
  <2>4. op.step = "stop_load" /\ op.of \in Cached =>
          /\ Still(op.of, op.amount + tracked[op.of])
          /\ edit.task = op.of => Still(op.of, op.amount + edit.read)
    BY <2>1, <2>2 DEF TrackingInv, StopFits
  <2>5. op.step = "stop_write" /\ op.of \in Cached => Still(op.of, op.amount + op.read)
    BY <2>1, <2>2 DEF TrackingInv, StopFits
  <2>6. op.step \in {"stop_load", "stop_write"} /\ op.of \in Cached /\ op.of = op.seen.task =>
          Still(op.of, op.amount + op.seen.base)
    BY <2>1, <2>2 DEF TrackingInv, StopFits
  <2> QED  BY <2>3, <2>4, <2>5, <2>6 DEF StopFits, Fits
<1>4. Exact'
  BY DEF TrackingInv, Exact, LocalRoomKept
<1> QED  BY <1>1, <1>2, <1>3, <1>4 DEF TrackingInv

\* Failures, time, users of ClickUp, pulls and edits.
LEMMA OutsideSteps ==
  ASSUME TrackingInv,
         \/ OpFails \/ Tick \/ Elsewhere \/ PullRead \/ PullWrite
         \/ (\E t \in Cached : EditRead(t)) \/ EditWrite
  PROVE  TrackingInv'
<1>1. CASE OpFails
  <2>1. /\ UNCHANGED <<clock, timer, spent, tracked, session, worked, undone, crossed>> /\ Return
        /\ pulled' \in {pulled, << >>} /\ edit' \in {edit, NoRowEdit}
    BY <1>1 DEF OpFails, RemoteSide, Local
  <2>2. /\ op' \in AnyOp /\ op'.active.started <= clock' /\ GateHolds' /\ Plain'
        /\ op'.active = NoSession
    BY <2>1, ReturnFacts DEF TrackingInv
  <2>3. SumsTyped'
    BY <2>1, <2>2 DEF TrackingInv, SumsTyped, NoRowEdit
  <2>4. RoomGrows /\ LocalRoomKept
    BY <2>1, RoomKept DEF TrackingInv
  <2>5. TrackedFits' /\ ActiveFits'
    BY <2>1, <2>2, <2>3, <2>4, TimesStayFit DEF TrackingInv
  <2> QED  BY <2>1, <2>2, <2>3, <2>4, <2>5, PlainStep
<1>2. CASE Tick
  <2>1. /\ UNCHANGED <<timer, spent, tracked, session, op, pulled, edit, undone, crossed>>
        /\ clock' = clock + 1
        /\ worked' = IF session.task \in LocalTask THEN [worked EXCEPT ![session.task] = @ + 1]
                                                   ELSE worked
    BY <1>2 DEF Tick, RemoteSide, Local, Edits
  <2>2. SumsTyped'
    <3>1. timer.started \in Nat /\ session.started \in Nat /\ op.active.started \in Nat
      BY DEF TrackingInv, SumsTyped, AnySession, AnyOp
    <3>2. clock' \in Nat /\ clock =< clock'
      BY <2>1 DEF TrackingInv, SumsTyped
    <3>3. /\ timer.started <= clock' /\ session.started <= clock'
          /\ op.active.started <= clock'
      BY <2>1, <3>1 DEF TrackingInv, SumsTyped
    <3> QED  BY <2>1, <3>2, <3>3 DEF TrackingInv, SumsTyped
  <2>3. Room' = Room
    <3>1. ASSUME NEW t \in LocalTask
          PROVE  worked'[t] - RunningTime(t)' = worked[t] - RunningTime(t)
      <4>1. session.started \in Nat /\ clock \in Nat /\ worked[t] \in Nat
        BY DEF TrackingInv, SumsTyped, AnySession
      <4>2. RunningTime(t)' = IF session.task = t THEN RunningTime(t) + 1 ELSE RunningTime(t)
        BY <2>1, <4>1 DEF RunningTime, Since
      <4>3. worked'[t] = IF session.task = t THEN worked[t] + 1 ELSE worked[t]
        BY <2>1 DEF TrackingInv, SumsTyped
      <4>4. RunningTime(t) \in Int
        BY <4>1 DEF RunningTime, Since
      <4> QED  BY <4>1, <4>2, <4>3, <4>4
    <3> QED  BY <2>1, <3>1 DEF Room
  <2>4. RoomGrows /\ LocalRoomKept /\ clock <= clock'
    BY <2>1, <2>3, RoomFacts, TaskFacts DEF RoomGrows, LocalRoomKept, TrackingInv, SumsTyped
  <2>5. PulledFits'
    BY <2>1, <2>2, <2>4, TimesStayFit DEF TrackingInv
  <2> QED  BY <2>1, <2>2, <2>4, <2>5, AroundTheGate
<1>3. CASE Elsewhere
  <2>1. UNCHANGED <<clock, tracked, session, op, pulled, edit, worked, undone, crossed>>
    BY <1>3 DEF Elsewhere, Local, Edits
  <2>2. /\ spent' \in [Timed -> Nat] /\ \A t \in Timed : spent[t] <= spent'[t]
        /\ timer' \in [task : Timed \cup {NoTask}, started : Nat]
        /\ timer'.started <= clock
        /\ timer' = NoTimer \/ timer'.task \in Timed
    <3>1. Switch([task |-> NoTask, started |-> 0])
          \/ \E t \in Timed : Switch([task |-> t, started |-> clock])
      BY <1>3 DEF Elsewhere, NoTimer
    <3>2. clock \in Nat /\ [task |-> NoTask, started |-> 0] = NoTimer
      BY DEF TrackingInv, SumsTyped, NoTimer
    <3>3. CASE Switch([task |-> NoTask, started |-> 0])
      BY <3>2, <3>3, SwitchTyped DEF TrackingInv
    <3>4. ASSUME NEW t \in Timed, Switch([task |-> t, started |-> clock])
          PROVE  /\ spent' \in [Timed -> Nat] /\ \A u \in Timed : spent[u] <= spent'[u]
                 /\ timer' \in [task : Timed \cup {NoTask}, started : Nat]
                 /\ timer'.started <= clock
                 /\ timer' = NoTimer \/ timer'.task \in Timed
      BY <3>2, <3>4, SwitchTyped DEF TrackingInv
    <3> QED  BY <3>1, <3>3, <3>4
  <2>3. RoomGrows /\ LocalRoomKept
    BY <2>1, <2>2, RoomOfTimers DEF TrackingInv
  <2>4. SumsTyped'
    BY <2>1, <2>2 DEF TrackingInv, SumsTyped
  <2>5. PulledFits'
    BY <2>1, <2>3, <2>4, TimesStayFit DEF TrackingInv
  <2> QED  BY <2>1, <2>3, <2>4, <2>5, AroundTheGate DEF TrackingInv, SumsTyped
<1>4. CASE PullRead
  <2>1. UNCHANGED <<clock, timer, spent, tracked, session, op, edit, worked, undone, crossed>>
        /\ pulled' = [t \in RemoteTask |-> spent[t]]
    BY <1>4 DEF PullRead, RemoteSide, Local, Edits
  <2>2. Room' = Room /\ RoomGrows /\ LocalRoomKept
    BY <2>1, RoomKept DEF TrackingInv
  <2>3. SumsTyped'
    <3>1. pulled' \in [RemoteTask -> Nat]
      BY <2>1, TaskFacts DEF TrackingInv, SumsTyped
    <3> QED  BY <2>1, <3>1 DEF TrackingInv, SumsTyped
  <2>4. PulledFits'
    <3>1. \A t \in RemoteTask : pulled'[t] = Room[t] /\ Room[t] \in Int
      BY <2>1, RoomFacts, TaskFacts DEF TrackingInv
    <3> QED  BY <2>2, <3>1 DEF PulledFits, Fits
  <2> QED  BY <2>1, <2>2, <2>3, <2>4, AroundTheGate DEF TrackingInv, SumsTyped
\* Writes of whole rows: what is written fits, and a stop that has minutes to add is either
\* past the reading of the row, or they were not yet counted in what is written.
<1>5. ASSUME UNCHANGED <<clock, timer, spent, session, op, worked>>, crossed => crossed',
             SumsTyped', TrackedFits', EditFits', PulledFits',
             op.step = "stop_load" /\ op.of \in Cached =>
               /\ Fits(op.of, op.amount + tracked[op.of])'
               /\ edit'.task = op.of => Fits(op.of, op.amount + edit.read)',
             \A t \in LocalTask : t \notin undone' => t \notin undone /\ tracked'[t] = tracked[t]
      PROVE  TrackingInv'
  <2>1. Room' = Room /\ RoomGrows
    BY <1>5, RoomKept DEF TrackingInv
  <2>2. GateHolds'
    BY <1>5 DEF TrackingInv, GateHolds, Reading, Starting, Adopting, Writing
  <2>3. SessionFits' /\ ActiveFits'
    BY <1>5, <2>1, TimesStayFit DEF TrackingInv
  <2>4. StopFits'
    BY <1>5, <2>1 DEF TrackingInv, StopFits, Fits
  <2>5. Exact'
    BY <1>5, <2>1 DEF TrackingInv, Exact
  <2> QED  BY <1>5, <2>2, <2>3, <2>4, <2>5 DEF TrackingInv, TimesFit
<1>6. ASSUME UNCHANGED <<clock, spent, session, worked>>, crossed => crossed'
      PROVE  Room' = Room /\ RoomGrows
  BY <1>6, RoomKept DEF TrackingInv
<1>7. CASE PullWrite
  <2>1. /\ UNCHANGED <<clock, timer, spent, session, op, edit, worked, undone>> /\ pulled' = << >>
        /\ pulled # << >> /\ crossed' = (crossed \/ op.step = "stop_load")
        /\ tracked' = [t \in Cached |-> IF t \in RemoteTask THEN pulled[t] ELSE tracked[t]]
    BY <1>7 DEF PullWrite, RemoteSide, Edits, At
  <2>2. pulled \in [RemoteTask -> Nat] /\ crossed' \in BOOLEAN /\ (crossed => crossed')
    BY <2>1 DEF TrackingInv, SumsTyped
  <2>3. tracked' \in [Cached -> Nat] /\ \A t \in LocalTask : tracked'[t] = tracked[t]
    BY <2>1, <2>2, TaskFacts DEF TrackingInv, SumsTyped
  <2>4. SumsTyped'
    BY <2>1, <2>2, <2>3 DEF TrackingInv, SumsTyped
  <2>5. Room' = Room /\ RoomGrows
    BY <1>6, <2>1, <2>2
  <2>6. EditFits' /\ PulledFits'
    BY <2>1, <2>4, <2>5, TimesStayFit DEF TrackingInv
  <2>7. TrackedFits'
    <3>1. \A t \in Cached : Fits(t, tracked'[t])
      BY <2>1 DEF TrackingInv, TimesFit, TrackedFits, PulledFits
    <3> QED  BY <2>2, <2>5, <3>1 DEF TrackedFits, Fits
  <2>8. op.step = "stop_load" /\ op.of \in Cached => crossed' /\ op.of \notin LocalTask
    BY <2>1, TaskFacts DEF TrackingInv, SumsTyped, AnyOp
  <2> QED  BY <1>5, <2>1, <2>2, <2>3, <2>4, <2>6, <2>7, <2>8 DEF Fits
<1>8. ASSUME NEW t \in Cached, EditRead(t)  PROVE TrackingInv'
  <2> DEFINE m == [task |-> t, read |-> tracked[t]]
  <2>1. UNCHANGED <<clock, timer, spent, tracked, session, op, pulled, worked, undone, crossed>>
        /\ edit' = m
    BY <1>8 DEF EditRead, RemoteSide, Local
  <2>2. m \in [task : Cached \cup {NoTask}, read : Nat] /\ m.task = t /\ m.read = tracked[t]
    BY DEF TrackingInv, SumsTyped
  <2> HIDE DEF m
  <2>3. SumsTyped'
    BY <2>1, <2>2 DEF TrackingInv, SumsTyped
  <2>4. Room' = Room /\ RoomGrows
    BY <1>6, <2>1
  <2>5. TrackedFits' /\ PulledFits'
    BY <2>1, <2>3, <2>4, TimesStayFit DEF TrackingInv
  <2>6. EditFits'
    BY <2>1, <2>2, <2>5 DEF EditFits, TrackedFits
  <2>7. op.step = "stop_load" /\ op.of \in Cached =>
          /\ Fits(op.of, op.amount + tracked[op.of])'
          /\ edit'.task = op.of => Fits(op.of, op.amount + edit.read)'
    BY <2>1, <2>2, <2>4 DEF TrackingInv, StopFits, Fits
  <2> QED  BY <1>5, <2>1, <2>3, <2>5, <2>6, <2>7
<1>9. CASE EditWrite
  <2> DEFINE u == edit.task
  <2>1. /\ UNCHANGED <<clock, timer, spent, session, op, pulled, worked, crossed>>
        /\ edit # NoRowEdit /\ edit' = NoRowEdit
        /\ tracked' = [tracked EXCEPT ![u] = edit.read]
        /\ undone' = undone \cup {t \in {u} : tracked[t] # edit.read}
    BY <1>9 DEF EditWrite, RemoteSide
  <2>2. u \in Cached /\ edit.read \in Nat /\ NoRowEdit.task = NoTask /\ tracked \in [Cached -> Nat]
    BY <2>1 DEF TrackingInv, SumsTyped, NoRowEdit
  <2>3. SumsTyped'
    BY <2>1, <2>2 DEF TrackingInv, SumsTyped, NoRowEdit
  <2>4. Room' = Room /\ RoomGrows
    BY <1>6, <2>1
  <2>5. EditFits' /\ PulledFits'
    BY <2>1, <2>3, <2>4, TimesStayFit DEF TrackingInv
  <2>6. TrackedFits'
    <3>1. \A t \in Cached : Fits(t, tracked'[t])
      BY <2>1, <2>2 DEF TrackingInv, TimesFit, TrackedFits, EditFits
    <3> QED  BY <2>1, <2>4, <3>1 DEF TrackedFits, Fits
  <2>7. op.step = "stop_load" /\ op.of \in Cached =>
          /\ Fits(op.of, op.amount + tracked[op.of])'
          /\ edit'.task = op.of => Fits(op.of, op.amount + edit.read)'
    <3>1. op.step = "stop_load" /\ op.of \in Cached => Fits(op.of, op.amount + tracked'[op.of])
      BY <2>1, <2>2 DEF TrackingInv, StopFits
    <3> QED  BY <2>1, <2>2, <2>4, <3>1, TaskFacts DEF Fits
  <2>8. \A t \in LocalTask : t \notin undone' => t \notin undone /\ tracked'[t] = tracked[t]
    BY <2>1, <2>2, TaskFacts
  <2> QED  BY <1>5, <2>1, <2>3, <2>5, <2>6, <2>7, <2>8
<1> QED  BY <1>1, <1>2, <1>3, <1>4, <1>7, <1>8, <1>9

LEMMA TimesCounted == TrackingInv => TimeIsCountedOnce
<1> SUFFICES ASSUME TrackingInv PROVE TimeIsCountedOnce
  OBVIOUS
<1>1. ASSUME NEW t \in LocalTask
      PROVE  TimeOf(t) <= worked[t] /\ (t \notin undone => TimeOf(t) = worked[t])
  <2>1. /\ tracked[t] \in Nat /\ worked[t] \in Nat /\ RunningTime(t) \in Int
        /\ Room[t] = worked[t] - RunningTime(t)
    BY TaskFacts, RoomFacts DEF TrackingInv, SumsTyped
  <2>2. tracked[t] <= Room[t] /\ (t \notin undone => tracked[t] = Room[t])
    BY TaskFacts DEF TrackingInv, TimesFit, TrackedFits, Fits, Exact
  <2> QED  BY <2>1, <2>2 DEF TimeOf
<1>2. OnlyCrossedPullsOvercount
  BY TaskFacts, RoomFacts DEF OnlyCrossedPullsOvercount, TrackingInv, TimesFit, TrackedFits, Fits
<1> QED  BY <1>1, <1>2 DEF TimeIsCountedOnce

\* No minute is counted twice, and none of a local task is lost but to an edit that wrote
\* the row as it was before a stop (startTaskTracking, stopTaskTracking, pollTaskTracking).
THEOREM TimeCountedOnce == TrackingSpec => []TimeIsCountedOnce
<1>1. TrackingInit => TrackingInv
  <2> SUFFICES ASSUME TrackingInit PROVE TrackingInv
    OBVIOUS
  <2>1. SumsTyped
    <3>1. NoTimer \in [task : Timed \cup {NoTask}, started : Nat] /\ NoTimer.started = 0
      BY DEF NoTimer
    <3>2. edit \in [task : Cached \cup {NoTask}, read : Nat] /\ edit = NoRowEdit
      BY DEF TrackingInit, NoRowEdit
    <3>3. /\ clock = 0 /\ timer = NoTimer /\ spent \in [Timed -> Nat] /\ tracked \in [Cached -> Nat]
          /\ session = NoSession /\ op = Idle /\ pulled = << >> /\ worked \in [LocalTask -> Nat]
          /\ crossed \in BOOLEAN
      BY DEF TrackingInit
    <3> QED  BY <3>1, <3>2, <3>3, IdleFacts DEF SumsTyped
  <2>2. GateHolds
    BY IdleFacts DEF TrackingInit, GateHolds, Reading, Starting, Adopting, Writing
  <2>3. \A t \in Cached : tracked[t] = 0 /\ Room[t] = 0
    <3>1. \A t \in LocalTask : RunningTime(t) = 0
      BY IdleFacts, TaskFacts DEF TrackingInit, RunningTime
    <3> QED  BY <3>1, TaskFacts DEF TrackingInit, Room
  <2>4. TimesFit
    BY <2>3, IdleFacts, TaskFacts DEF TrackingInit, TimesFit, TrackedFits, EditFits, SessionFits,
       ActiveFits, PulledFits, Fits, NoRowEdit
  <2>5. StopFits /\ Exact
    BY <2>3, IdleFacts, TaskFacts DEF TrackingInit, StopFits, Exact, Writing
  <2> QED  BY <2>1, <2>2, <2>4, <2>5 DEF TrackingInv
<1>2. TrackingInv /\ [TrackingNext]_trackingVars => TrackingInv'
  <2>1. ASSUME TrackingInv, UNCHANGED trackingVars  PROVE TrackingInv'
    <3>1. SumsTyped' /\ RoomGrows /\ LocalRoomKept /\ clock <= clock'
      BY <2>1, RoomKept DEF trackingVars, TrackingInv, SumsTyped
    <3>2. PulledFits'
      BY <2>1, <3>1, TimesStayFit DEF trackingVars, TrackingInv
    <3> QED  BY <2>1, <3>1, <3>2, AroundTheGate DEF trackingVars
  <2> QED  BY <2>1, UserSteps, StopSteps, StartSteps, PollSteps, OutsideSteps
           DEF TrackingNext, OpStep
<1> QED  BY <1>1, <1>2, TimesCounted, PTL DEF TrackingSpec
================================================================================
