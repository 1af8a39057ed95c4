-------------------------- MODULE TaskCreationProofs --------------------------
(***************************************************************************)
(* The identity of a created task (TaskCreation), for any number of tasks, *)
(* processes, pullers, faults and edits.                                   *)
(*                                                                         *)
(* A remote id is in many hands: the reply of a push, the memory of the    *)
(* process that made it, payloads in the queue, the row, an open editor, a *)
(* pull.  The invariant says that whoever names a remote task for a task   *)
(* names one made for it, and that unless an id was lost these are all the *)
(* same one: as long as the create waits in the queue, whatever it made is *)
(* remembered by the one process that pushes, so it is not made again.     *)
(* Where nothing went wrong the row knows the id before a pull can see the *)
(* remote task, and the pull imports nothing.                              *)
(***************************************************************************)
EXTENDS TaskCreation, FiniteSetTheorems, TLAPS

(* The shapes of the variables. *)

Rid == Remote \cup {NoRemote}
Operation == [kind : {"create", "update"}, remote : Rid]
PushState == [at : {"idle", "claimed", "created", "updated", "stored", "based"},
              task : Task \cup {Others}, got : Rid]
CreatedRow == [remote : Rid, dirty : BOOLEAN, gone : BOOLEAN]
PullState == [at : {"idle", "listed", "found"}, listed : SUBSET Remote, todo : SUBSET Remote,
              id : Rid, found : Task \cup {Others}]

CreationTyped ==
  /\ queue \in [Task -> Seq(Operation)]
  /\ outcome \in [Task -> {"none", "queued", "done", "rejected"}]
  /\ row \in [Task -> CreatedRow]
  /\ imported \in [Remote -> {"no", "shown", "gone"}]
  /\ maker \in Seq(Task \cup {Others}) /\ Len(maker) =< MaxRemote /\ live \subseteq DOMAIN maker
  /\ memory \in [Process -> [Task -> Rid]]
  /\ push \in [Process -> PushState]
  /\ pull \in [Puller -> PullState]
  /\ editor \in [Task -> Rid \cup {Closed}]
  /\ slips \in [Task -> SUBSET Slip]

\* One process at a time pushes for a task, and it has the reply from the call on.
Owned ==
  /\ \A p, q \in Process : push[p].task # Others /\ push[p].task = push[q].task => p = q
  /\ \A p \in Process :
       /\ push[p].at = "idle" <=> push[p].task = Others
       /\ push[p].task # Others => queue[push[p].task] # <<>>
       /\ push[p].at \in {"idle", "claimed"} <=> push[p].got = NoRemote

\* The create is the head of the queue until it is settled, and behind it are updates.
QueueShape ==
  \A t \in Task :
    /\ outcome[t] = "none" => queue[t] = <<>> /\ row[t].remote = NoRemote /\ editor[t] = Closed
    /\ \A i \in DOMAIN queue[t] : queue[t][i].kind = "create" <=> i = 1 /\ outcome[t] = "queued"
    /\ outcome[t] = "queued" => queue[t] # <<>> /\ queue[t][1].remote = NoRemote

PullShape ==
  \A p \in Puller :
    /\ pull[p].todo \cup {pull[p].id} \subseteq DOMAIN maker \cup {NoRemote}
    /\ pull[p].at = "found" <=> pull[p].id # NoRemote
    /\ pull[p].at # "found" => pull[p].found = Others
    /\ pull[p].at = "idle" => pull[p].todo = {}

\* Only what has been made is imported.
ImportsExist == \A r \in Remote : imported[r] # "no" => r \in DOMAIN maker

MadeFor(t, r) == r \in DOMAIN maker /\ maker[r] = t

\* Whoever knows a remote id as that of a task.
Names(t, r) ==
  \/ row[t].remote = r
  \/ editor[t] = r
  \/ \E p \in Process : memory[p][t] = r \/ (push[p].task = t /\ push[p].got = r)
  \/ \E i \in DOMAIN queue[t] : queue[t][i].remote = r
  \/ \E p \in Puller : pull[p].found = t /\ pull[p].id = r

NamedIsMade == \A t \in Task, r \in Remote : Names(t, r) => MadeFor(t, r)

\* Nothing is made for a task the user has not created yet.
MadeOnDemand == \A t \in Task, r \in Remote : MadeFor(t, r) => outcome[t] # "none"

Bears(t, r) == Names(t, r) \/ (r \in live /\ MadeFor(t, r))

\* Unless something was lost, all that is known of a task and all that was made for it is one.
OneIdentity ==
  \A t \in Task : "lost" \notin slips[t] =>
    \A r, s \in Remote : Bears(t, r) /\ Bears(t, s) => r = s

Remembered(t) ==
  \/ \E p \in Process : memory[p][t] # NoRemote
  \/ \E p \in Process : push[p].task = t /\ push[p].at \in {"created", "stored"}

\* While the create waits, what it has made is remembered.
KnownWhileQueued ==
  \A t \in Task : "lost" \notin slips[t] /\ outcome[t] = "queued" /\ (\E r \in Remote : Bears(t, r))
                    => Remembered(t)

\* Nobody knows a remote id of the task.
NoTrace(t) ==
  /\ row[t].remote = NoRemote
  /\ editor[t] \in {NoRemote, Closed}
  /\ \A q \in Process : memory[q][t] = NoRemote
  /\ \A i \in DOMAIN queue[t] : queue[t][i].remote = NoRemote
  /\ \A q \in Puller : pull[q].found # t

\* A reply on its way to the row is the only trace of the remote task.
CreatedIsFresh ==
  \A p \in Process, t \in Task : push[p].at = "created" /\ push[p].task = t =>
    /\ outcome[t] = "queued"
    /\ memory[p][t] = NoRemote
    /\ "lost" \notin slips[t] => NoTrace(t)

LaterRemembered ==
  \A p \in Process : push[p].at \in {"updated", "based"} /\ outcome[push[p].task] = "queued"
                       => memory[p][push[p].task] # NoRemote

StoredHasId ==
  \A t \in Task :
    /\ "erased" \notin slips[t]
    /\ \/ outcome[t] = "done"
       \/ \E p \in Process : push[p].task = t /\ push[p].at \in {"stored", "based"}
    => row[t].remote # NoRemote

OnItsWay(t, r) == \E p \in Process : push[p].at = "created" /\ push[p].task = t /\ push[p].got = r

\* Where nothing went wrong the row has the identity before a pull can see the remote task.
RowIsFirst ==
  \A t \in Task : slips[t] = {} =>
    /\ \A r \in live : MadeFor(t, r) => row[t].remote = r \/ OnItsWay(t, r)
    /\ \A p \in Puller : \A r \in pull[p].todo \cup {pull[p].id} : MadeFor(t, r) => row[t].remote = r
    /\ \A r \in Remote : MadeFor(t, r) => imported[r] = "no"

CreationInv ==
  /\ CreationTyped /\ Owned /\ QueueShape /\ PullShape /\ ImportsExist
  /\ NamedIsMade /\ MadeOnDemand /\ OneIdentity /\ KnownWhileQueued
  /\ CreatedIsFresh /\ LaterRemembered /\ StoredHasId /\ RowIsFirst

-----------------------------------------------------------------------------
(* What the steps need.                                                       *)

LEMMA RowWrites ==
  ASSUME CreationTyped, NEW t \in Task, NEW r \in Rid, NEW b \in BOOLEAN
  PROVE  /\ [row EXCEPT ![t].dirty = b] \in [Task -> CreatedRow]
         /\ [row EXCEPT ![t] = [@ EXCEPT !.remote = r, !.dirty = b]] \in [Task -> CreatedRow]
         /\ [row EXCEPT ![t] = [Absent EXCEPT !.remote = r]] \in [Task -> CreatedRow]
<1>1. \A u \in Task : row[u] \in CreatedRow
  BY DEF CreationTyped
<1>2. /\ [row[t] EXCEPT !.dirty = b] \in CreatedRow
      /\ [row[t] EXCEPT !.remote = r, !.dirty = b] \in CreatedRow
  BY <1>1 DEF CreatedRow
<1>3. [Absent EXCEPT !.remote = r] \in CreatedRow
  BY DEF CreatedRow, Absent
<1> QED BY <1>1, <1>2, <1>3 DEF CreationTyped

\* What a process that pushes has at hand.
LEMMA AtHand ==
  ASSUME CreationTyped, Owned, NEW p \in Process, push[p].at # "idle"
  PROVE  /\ Mine(p) \in Task
         /\ queue[Mine(p)] \in Seq(Operation) /\ queue[Mine(p)] # <<>>
         /\ Head(queue[Mine(p)]) = queue[Mine(p)][1] /\ queue[Mine(p)][1] \in Operation
         /\ Tail(queue[Mine(p)]) \in Seq(Operation)
         /\ push[p].got \in Rid /\ Target(p, Mine(p)) \in Rid
<1>1. push[p] \in PushState
  BY DEF CreationTyped
<1>2. Mine(p) \in Task /\ push[p].got \in Rid
  BY <1>1 DEF PushState, Owned, Mine
<1>3. queue[Mine(p)] \in Seq(Operation) /\ queue[Mine(p)] # <<>>
  BY <1>2 DEF CreationTyped, Owned, Mine
<1>4. /\ Head(queue[Mine(p)]) = queue[Mine(p)][1] /\ queue[Mine(p)][1] \in Operation
      /\ Tail(queue[Mine(p)]) \in Seq(Operation)
  BY <1>3
<1>5. memory[p][Mine(p)] \in Rid /\ row[Mine(p)].remote \in Rid /\ NoRemote \in Rid
      /\ queue[Mine(p)][1].remote \in Rid
  BY <1>2, <1>4 DEF CreationTyped, CreatedRow, Operation, Rid
<1>6. Target(p, Mine(p)) \in Rid
  BY <1>4, <1>5 DEF Target
<1> QED BY <1>2, <1>3, <1>4, <1>6

\* What a look-up changes: the task is taken off the list, or found to be reconciled.
LEMMA LookUpChanges ==
  ASSUME CreationTyped, NEW p \in Puller, NEW r \in Remote, LookUp(p, r)
  PROVE  /\ UNCHANGED <<queue, outcome, cache, provider, memory, push, editor, slips>>
         /\ pull[p].at = "listed" /\ r \in pull[p].todo
         /\ \A q \in Puller : q # p => pull'[q] = pull[q]
         /\ pull'[p].todo = pull[p].todo \ {r}
         /\ \/ pull'[p].at = "listed" /\ pull'[p].id = pull[p].id /\ pull'[p].found = pull[p].found
            \/ /\ pull'[p].at = "found" /\ pull'[p].id = r
               /\ \/ pull'[p].found = Others /\ \A t \in Task : row[t].remote # r
                  \/ pull'[p].found \in Task /\ row[pull'[p].found].remote = r
<1>1. pull \in [Puller -> PullState] /\ pull[p] \in PullState
  BY DEF CreationTyped
<1>2. CASE pull' = [pull EXCEPT ![p].todo = @ \ {r}]
  <2>1. pull'[p] = [pull[p] EXCEPT !.todo = pull[p].todo \ {r}]
    BY <1>1, <1>2
  <2> QED BY <1>1, <1>2, <2>1 DEF LookUp, LookUpIf, PullState
<1>3. ASSUME NEW u \in IF Holder(r) = {} THEN {Others} ELSE Holder(r),
             pull' = [pull EXCEPT ![p] = [@ EXCEPT !.at = "found", !.todo = pull[p].todo \ {r},
                                                   !.id = r, !.found = u]]
      PROVE  /\ \A q \in Puller : q # p => pull'[q] = pull[q]
             /\ pull'[p].todo = pull[p].todo \ {r}
             /\ pull'[p].at = "found" /\ pull'[p].id = r
             /\ \/ pull'[p].found = Others /\ \A t \in Task : row[t].remote # r
                \/ pull'[p].found \in Task /\ row[pull'[p].found].remote = r
  <2>1. pull'[p] = [pull[p] EXCEPT !.at = "found", !.todo = pull[p].todo \ {r}, !.id = r,
                                   !.found = u]
    BY <1>1, <1>3
  <2>2. \/ u = Others /\ \A t \in Task : row[t].remote # r
        \/ u \in Task /\ row[u].remote = r
    BY DEF Holder
  <2> QED BY <1>1, <1>3, <2>1, <2>2 DEF PullState
<1> QED BY <1>2, <1>3 DEF LookUp, LookUpIf

\* The reply of a call is noted with the push.
LEMMA ReplyNoted ==
  ASSUME CreationTyped, NEW p \in Process, RemoteCreate(p) \/ RemoteUpdate(p)
  PROVE  /\ push'[p].task = push[p].task /\ \A q \in Process : q # p => push'[q] = push[q]
         /\ RemoteCreate(p) => push'[p].at = "created" /\ push'[p].got = Len(maker')
         /\ RemoteUpdate(p) => push'[p].at = "updated" /\ push'[p].got = Target(p, Mine(p))
<1>1. push \in [Process -> PushState] /\ push[p] \in PushState
  BY DEF CreationTyped
<1>2. CASE RemoteCreate(p)
  <2>1. push' = [push EXCEPT ![p] = [@ EXCEPT !.at = "created", !.got = Len(maker')]]
    BY <1>2 DEF RemoteCreate
  <2>2. push'[p] = [push[p] EXCEPT !.at = "created", !.got = Len(maker')]
    BY <1>1, <2>1
  <2>3. ~RemoteUpdate(p)
    BY <1>1, <2>2 DEF RemoteUpdate, PushState
  <2> QED BY <1>1, <2>1, <2>2, <2>3 DEF PushState
<1>3. CASE RemoteUpdate(p)
  <2>1. push' = [push EXCEPT ![p] = [@ EXCEPT !.at = "updated", !.got = Target(p, Mine(p))]]
    BY <1>3 DEF RemoteUpdate
  <2>2. push'[p] = [push[p] EXCEPT !.at = "updated", !.got = Target(p, Mine(p))]
    BY <1>1, <2>1
  <2>3. ~RemoteCreate(p)
    BY <1>1, <2>2 DEF RemoteCreate, PushState
  <2> QED BY <1>1, <2>1, <2>2, <2>3 DEF PushState
<1> QED BY <1>2, <1>3

-----------------------------------------------------------------------------
(* Types.                                                                     *)

LEMMA TypedKept ==
  ASSUME CreationInv, Next
  PROVE  CreationTyped'
<1>0. /\ CreationTyped /\ PullShape /\ QueueShape /\ Owned /\ Puller \subseteq Process
      /\ MaxRemote \in Nat /\ NoRemote \in Rid /\ Remote \subseteq Rid /\ DOMAIN maker \subseteq Remote
  <2>1. Len(maker) \in Nat /\ DOMAIN maker = 1..Len(maker) /\ Len(maker) =< MaxRemote
    BY DEF CreationInv, CreationTyped
  <2> QED BY <2>1, CreationAssumption DEF CreationInv, Rid, Remote
<1>a. NoPush \in PushState /\ NoPull \in PullState
  BY <1>0 DEF NoPush, NoPull, PushState, PullState, Rid
<1>1. ASSUME NEW t \in Task, CreateTask(t) PROVE CreationTyped'
  <2>1. outcome' \in [Task -> {"none", "queued", "done", "rejected"}]
    BY <1>0, <1>a, <1>1 DEF CreateTask, CreationTyped, cache, provider
  <2>2. row' \in [Task -> CreatedRow]
    BY <1>0, <1>a, <1>1 DEF CreateTask, CreationTyped, cache, provider, CreatedRow, Rid,
       Absent
  <2>3. queue' \in [Task -> Seq(Operation)]
    <3>1. <<[kind |-> "create", remote |-> NoRemote]>> \in Seq(Operation)
      BY <1>0 DEF Operation
    <3> QED BY <1>0, <1>1, <3>1 DEF CreateTask, CreationTyped
  <2> QED
    BY <1>0, <1>1, <2>1, <2>2, <2>3 DEF CreateTask, CreationTyped, cache, provider
<1>2. ASSUME NEW t \in Task, BeginEdit(t) PROVE CreationTyped'
  <2>1. editor' \in [Task -> Rid \cup {Closed}]
    <3>1. row[t].remote \in Rid
      BY <1>0 DEF CreationTyped, CreatedRow
    <3> QED BY <1>0, <1>2, <3>1 DEF BeginEdit, CreationTyped
  <2> QED
    BY <1>0, <1>2, <2>1 DEF BeginEdit, CreationTyped, cache, provider
<1>3. ASSUME NEW t \in Task, SaveEdit(t) PROVE CreationTyped'
  <2>0. editor[t] \in Rid
    BY <1>0, <1>3 DEF SaveEdit, CreationTyped
  <2>1. row' \in [Task -> CreatedRow]
    BY <1>0, <1>3, <2>0, RowWrites DEF SaveEdit
  <2>2. queue' \in [Task -> Seq(Operation)]
    <3>1. [kind |-> "update", remote |-> editor[t]] \in Operation /\ queue[t] \in Seq(Operation)
      BY <2>0, <1>0 DEF Operation, CreationTyped
    <3>2. Append(queue[t], [kind |-> "update", remote |-> editor[t]]) \in Seq(Operation)
      BY <3>1
    <3> QED BY <1>0, <1>3, <3>2 DEF SaveEdit, CreationTyped
  <2>3. slips' \in [Task -> SUBSET Slip]
    BY <1>0, <1>a, <1>3 DEF SaveEdit, CreationTyped, cache, provider, Slip
  <2>4. editor' \in [Task -> Rid \cup {Closed}]
    BY <1>0, <1>a, <1>3 DEF SaveEdit, CreationTyped, cache, provider, Rid
  <2> QED
    BY <1>0, <1>3, <2>1, <2>2, <2>3, <2>4 DEF SaveEdit, CreationTyped, cache, provider
<1>4. ASSUME NEW t \in Task, SaveEditFails(t) PROVE CreationTyped'
  <2>1. editor' \in [Task -> Rid \cup {Closed}]
    BY <1>0, <1>a, <1>4 DEF SaveEditFails, CreationTyped, cache, provider, Rid
  <2> QED
    BY <1>0, <1>4, <2>1 DEF SaveEditFails, CreationTyped, cache, provider
<1>5. ASSUME OthersCreate PROVE CreationTyped'
  <2>1. maker' \in Seq(Task \cup {Others}) /\ Len(maker') =< MaxRemote
    BY <1>0, <1>a, <1>5 DEF OthersCreate, CreationTyped, cache, provider
  <2>2. live' \subseteq DOMAIN maker'
    BY <1>0, <1>a, <1>5, <2>1 DEF OthersCreate, CreationTyped, cache, provider
  <2> QED
    BY <1>0, <1>5, <2>1, <2>2 DEF OthersCreate, CreationTyped, cache, provider
<1>6. ASSUME NEW r \in Remote, OthersDelete(r) PROVE CreationTyped'
  <2>1. live' \subseteq DOMAIN maker'
    BY <1>0, <1>a, <1>6 DEF OthersDelete, CreationTyped, cache, provider
  <2> QED
    BY <1>0, <1>6, <2>1 DEF OthersDelete, CreationTyped, cache, provider
<1>7. ASSUME NEW p \in Process, NEW t \in Task, Claim(p, t) PROVE CreationTyped'
  <2>1. push' \in [Process -> PushState]
    BY <1>0, <1>a, <1>7 DEF Claim, Pushing, Mine, CreationTyped, cache, provider, PushState,
       Rid
  <2>2. row' \in [Task -> CreatedRow]
    BY <1>0, <1>7, RowWrites DEF Claim
  <2> QED
    BY <1>0, <1>7, <2>1, <2>2 DEF Claim, CreationTyped, cache, provider
<1>8. ASSUME NEW p \in Process, RemoteCreate(p) PROVE CreationTyped'
  <2>0. push[p].at # "idle"
    BY <1>8 DEF RemoteCreate, Pushing
  <2>h. Mine(p) \in Task /\ Tail(queue[Mine(p)]) \in Seq(Operation) /\ push[p].got \in Rid
    BY <1>0, <2>0, AtHand
  <2>1. maker' \in Seq(Task \cup {Others}) /\ Len(maker') =< MaxRemote
    <3>1. /\ Append(maker, Mine(p)) \in Seq(Task \cup {Others})
          /\ Len(Append(maker, Mine(p))) = Len(maker) + 1
      BY <2>h, <1>0 DEF CreationTyped
    <3> QED BY <1>0, <1>8, <3>1 DEF RemoteCreate, CreationTyped
  <2>2. live' \subseteq DOMAIN maker'
    BY <1>0, <1>8, <2>h DEF RemoteCreate, CreationTyped
  <2>3. push' \in [Process -> PushState]
    <3>1. Len(maker') \in Rid
      BY <1>0, <1>8, <2>1 DEF RemoteCreate, Rid, Remote, CreationTyped
    <3>2. push[p] \in PushState
      BY <1>0 DEF CreationTyped
    <3>3. [push[p] EXCEPT !.at = "created", !.got = Len(maker')] \in PushState
      BY <3>1, <3>2 DEF PushState
    <3> QED BY <1>0, <1>8, <3>3 DEF RemoteCreate, CreationTyped
  <2>4. slips' \in [Task -> SUBSET Slip]
    BY <1>0, <1>a, <1>8 DEF RemoteCreate, Pushing, Mine, Creating, CreationTyped, cache,
       provider, Slip
  <2> QED
    BY <1>0, <1>8, <2>1, <2>2, <2>3, <2>4 DEF RemoteCreate, CreationTyped, cache, provider
<1>9. ASSUME NEW p \in Process, RemoteUpdate(p) PROVE CreationTyped'
  <2>1. push' \in [Process -> PushState]
    <3>1. Target(p, Mine(p)) \in Rid
      BY <1>0, <1>9, AtHand DEF RemoteUpdate, Pushing
    <3>2. push[p] \in PushState
      BY <1>0 DEF CreationTyped
    <3>3. [push[p] EXCEPT !.at = "updated", !.got = Target(p, Mine(p))] \in PushState
      BY <3>1, <3>2 DEF PushState
    <3> QED BY <1>0, <1>9, <3>3 DEF RemoteUpdate, CreationTyped
  <2> QED
    BY <1>0, <1>9, <2>1 DEF RemoteUpdate, CreationTyped, cache, provider
<1>10. ASSUME NEW p \in Process, StoreReply(p) PROVE CreationTyped'
  <2>0. push[p].at # "idle"
    BY <1>10 DEF StoreReply
  <2>h. Mine(p) \in Task /\ Tail(queue[Mine(p)]) \in Seq(Operation) /\ push[p].got \in Rid
    BY <1>0, <2>0, AtHand
  <2>1. row' \in [Task -> CreatedRow]
    BY <1>0, <1>10, <2>h, RowWrites DEF StoreReply
  <2>2. push' \in [Process -> PushState]
    BY <1>0, <1>a, <1>10 DEF StoreReply, Mine, CreationTyped, cache, provider, PushState, Rid
  <2> QED
    BY <1>0, <1>10, <2>1, <2>2 DEF StoreReply, CreationTyped, cache, provider
<1>11. ASSUME NEW p \in Process, SaveBase(p) PROVE CreationTyped'
  <2>0. push[p].at # "idle"
    BY <1>11 DEF SaveBase, Pushing
  <2>h. Mine(p) \in Task /\ Tail(queue[Mine(p)]) \in Seq(Operation) /\ push[p].got \in Rid
    BY <1>0, <2>0, AtHand
  <2>1. memory' \in [Process -> [Task -> Rid]]
    BY <1>0, <1>11, <2>h DEF SaveBase, CreationTyped
  <2>2. push' \in [Process -> PushState]
    BY <1>0, <1>a, <1>11 DEF SaveBase, Pushing, Mine, Creating, CreationTyped, cache,
       provider, PushState, Rid
  <2> QED
    BY <1>0, <1>11, <2>1, <2>2 DEF SaveBase, CreationTyped, cache, provider
<1>12. ASSUME NEW p \in Process, Complete(p) PROVE CreationTyped'
  <2>0. push[p].at # "idle"
    BY <1>12 DEF Complete, Pushing
  <2>h. Mine(p) \in Task /\ Tail(queue[Mine(p)]) \in Seq(Operation) /\ push[p].got \in Rid
    BY <1>0, <2>0, AtHand
  <2>1. queue' \in [Task -> Seq(Operation)]
    BY <1>0, <1>12, <2>h DEF Complete, Settle, CreationTyped
  <2>2. outcome' \in [Task -> {"none", "queued", "done", "rejected"}]
    BY <1>0, <1>a, <1>12 DEF Complete, Settle, Pushing, Mine, Creating, CreationTyped, cache,
       provider
  <2>3. row' \in [Task -> CreatedRow]
    BY <1>0, <1>12, <2>h, RowWrites DEF Complete, Settle
  <2>4. push' \in [Process -> PushState]
    BY <1>0, <1>a, <1>12 DEF Complete, Settle, Pushing, Mine, Creating, CreationTyped, cache,
       provider, PushState, Rid
  <2> QED
    BY <1>0, <1>12, <2>1, <2>2, <2>3, <2>4 DEF Complete, Settle, CreationTyped, cache,
       provider
<1>13. ASSUME NEW p \in Process, Reject(p) PROVE CreationTyped'
  <2>0. push[p].at # "idle"
    BY <1>13 DEF Reject, Pushing
  <2>h. Mine(p) \in Task /\ Tail(queue[Mine(p)]) \in Seq(Operation) /\ push[p].got \in Rid
    BY <1>0, <2>0, AtHand
  <2>1. queue' \in [Task -> Seq(Operation)]
    BY <1>0, <1>13, <2>h DEF Reject, Settle, CreationTyped
  <2>2. outcome' \in [Task -> {"none", "queued", "done", "rejected"}]
    BY <1>0, <1>a, <1>13 DEF Reject, Settle, Pushing, Mine, Creating, TakenFrom,
       CreationTyped, cache, provider
  <2>3. row' \in [Task -> CreatedRow]
    BY <1>0, <1>13, <2>h, RowWrites DEF Reject, Settle
  <2>4. push' \in [Process -> PushState]
    BY <1>0, <1>a, <1>13 DEF Reject, Settle, Pushing, Mine, Creating, TakenFrom,
       CreationTyped, cache, provider, PushState, Rid
  <2> QED
    BY <1>0, <1>13, <2>1, <2>2, <2>3, <2>4 DEF Reject, Settle, CreationTyped, cache, provider
<1>14. ASSUME NEW p \in Process, Refuse(p) PROVE CreationTyped'
  <2>0. push[p].at # "idle"
    BY <1>14 DEF Refuse, Pushing
  <2>h. Mine(p) \in Task /\ Tail(queue[Mine(p)]) \in Seq(Operation) /\ push[p].got \in Rid
    BY <1>0, <2>0, AtHand
  <2>1. queue' \in [Task -> Seq(Operation)]
    BY <1>0, <1>14, <2>h DEF Refuse, Settle, CreationTyped
  <2>2. outcome' \in [Task -> {"none", "queued", "done", "rejected"}]
    BY <1>0, <1>a, <1>14 DEF Refuse, Settle, Pushing, Mine, Creating, CreationTyped, cache,
       provider
  <2>3. row' \in [Task -> CreatedRow]
    BY <1>0, <1>14, <2>h, RowWrites DEF Refuse, Settle
  <2>4. push' \in [Process -> PushState]
    BY <1>0, <1>a, <1>14 DEF Refuse, Settle, Pushing, Mine, Creating, CreationTyped, cache,
       provider, PushState, Rid
  <2> QED
    BY <1>0, <1>14, <2>1, <2>2, <2>3, <2>4 DEF Refuse, Settle, CreationTyped, cache, provider
<1>15. ASSUME NEW p \in Process, Missing(p) PROVE CreationTyped'
  <2>1. push' \in [Process -> PushState]
    BY <1>0, <1>a, <1>15 DEF Missing, GiveBack, Pushing, CreationTyped, cache, provider,
       PushState, Rid
  <2> QED
    BY <1>0, <1>15, <2>1 DEF Missing, GiveBack, CreationTyped, cache, provider
<1>16. ASSUME NEW p \in Process, Retry(p) PROVE CreationTyped'
  <2>0. push[p].at # "idle"
    BY <1>16 DEF Retry, Pushing
  <2>h. Mine(p) \in Task /\ Tail(queue[Mine(p)]) \in Seq(Operation) /\ push[p].got \in Rid
    BY <1>0, <2>0, AtHand
  <2>1. slips' \in [Task -> SUBSET Slip]
    BY <1>0, <1>a, <1>16 DEF Retry, GiveBack, Pushing, Mine, Creating, Forgets, CreationTyped,
       cache, provider, Slip
  <2>2. row' \in [Task -> CreatedRow]
    BY <1>0, <1>16, <2>h, RowWrites DEF Retry
  <2>3. push' \in [Process -> PushState]
    BY <1>0, <1>a, <1>16 DEF Retry, GiveBack, Pushing, Mine, Creating, Forgets, CreationTyped,
       cache, provider, PushState, Rid
  <2> QED
    BY <1>0, <1>16, <2>1, <2>2, <2>3 DEF Retry, GiveBack, CreationTyped, cache, provider
<1>17. ASSUME NEW p \in Process, RollBack(p) PROVE CreationTyped'
  <2>1. live' \subseteq DOMAIN maker'
    BY <1>0, <1>a, <1>17 DEF RollBack, GiveBack, Pushing, CreationTyped, cache, provider
  <2>2. push' \in [Process -> PushState]
    BY <1>0, <1>a, <1>17 DEF RollBack, GiveBack, Pushing, CreationTyped, cache, provider,
       PushState, Rid
  <2> QED
    BY <1>0, <1>17, <2>1, <2>2 DEF RollBack, GiveBack, CreationTyped, cache, provider
<1>18. ASSUME NEW p \in Process, Crash(p) PROVE CreationTyped'
  <2>1. memory' \in [Process -> [Task -> Rid]]
    BY <1>0, <1>a, <1>18 DEF Crash, Mine, Creating, CreationTyped, cache, provider, Rid
  <2>2. slips' \in [Task -> SUBSET Slip]
    BY <1>0, <1>a, <1>18 DEF Crash, Mine, Creating, CreationTyped, cache, provider, Slip
  <2>3. push' \in [Process -> PushState]
    BY <1>0, <1>a, <1>18 DEF Crash, Mine, Creating, CreationTyped, cache, provider, PushState,
       Rid
  <2>4. pull' \in [Puller -> PullState]
    BY <1>0, <1>a, <1>18 DEF Crash, Mine, Creating, CreationTyped, cache, provider, PullState,
       Rid
  <2> QED
    BY <1>0, <1>18, <2>1, <2>2, <2>3, <2>4 DEF Crash, CreationTyped, cache, provider
<1>19. ASSUME NEW p \in Puller, Fetch(p) PROVE CreationTyped'
  <2>1. pull' \in [Puller -> PullState]
    BY <1>0, <1>a, <1>19 DEF Fetch, Pushing, Mine, CreationTyped, cache, provider, PullState,
       Rid
  <2>2. slips' \in [Task -> SUBSET Slip]
    BY <1>0, <1>a, <1>19 DEF Fetch, Pushing, Mine, CreationTyped, cache, provider, Slip
  <2> QED
    BY <1>0, <1>19, <2>1, <2>2 DEF Fetch, CreationTyped, cache, provider
<1>20. ASSUME NEW p \in Puller, NEW r \in Remote, LookUp(p, r) PROVE CreationTyped'
  <2>1. pull' \in [Puller -> PullState]
    <3>1. pull[p] \in PullState /\ r \in Rid
      BY <1>0 DEF CreationTyped
    <3>2. CASE pull' = [pull EXCEPT ![p].todo = @ \ {r}]
      BY <1>0, <3>1, <3>2 DEF CreationTyped, PullState
    <3>3. ASSUME NEW u \in IF Holder(r) = {} THEN {Others} ELSE Holder(r),
                 pull' = [pull EXCEPT ![p] = [@ EXCEPT !.at = "found",
                            !.todo = pull[p].todo \ {r}, !.id = r, !.found = u]]
          PROVE  pull' \in [Puller -> PullState]
      <4>1. u \in Task \cup {Others}
        BY DEF Holder
      <4>2. [pull[p] EXCEPT !.at = "found", !.todo = pull[p].todo \ {r}, !.id = r,
                            !.found = u] \in PullState
        BY <3>1, <4>1 DEF PullState
      <4> QED BY <1>0, <3>3, <4>2 DEF CreationTyped
    <3> QED BY <1>20, <3>2, <3>3 DEF LookUp, LookUpIf
  <2> QED
    BY <1>0, <1>20, <2>1 DEF LookUp, LookUpIf, CreationTyped, cache, provider
<1>21. ASSUME NEW p \in Puller, SavePulled(p) PROVE CreationTyped'
  <2>0. pull[p] \in PullState
    BY <1>0 DEF CreationTyped
  <2>h. Listed(p) \in PullState
    BY <1>0, <2>0 DEF Listed, PullState
  <2>1. row' \in [Task -> CreatedRow]
    <3>1. pull[p].found \in Task /\ pull[p].id \in Rid
      BY <1>21, <2>0 DEF SavePulled, PullState
    <3>2. [row EXCEPT ![pull[p].found] = [Absent EXCEPT !.remote = pull[p].id]]
             \in [Task -> CreatedRow]
      BY <1>0, <3>1, RowWrites
    <3> QED BY <1>0, <1>21, <3>2 DEF SavePulled, CreationTyped
  <2>2. pull' \in [Puller -> PullState]
    BY <1>0, <1>a, <1>21, <2>h DEF SavePulled, CreationTyped
  <2> QED
    BY <1>0, <1>21, <2>1, <2>2 DEF SavePulled, CreationTyped, cache, provider
<1>22. ASSUME NEW p \in Puller, SaveImport(p) PROVE CreationTyped'
  <2>0. pull[p] \in PullState
    BY <1>0 DEF CreationTyped
  <2>h. Listed(p) \in PullState
    BY <1>0, <2>0 DEF Listed, PullState
  <2>1. imported' \in [Remote -> {"no", "shown", "gone"}]
    BY <1>0, <1>a, <1>22 DEF SaveImport, Listed, CreationTyped, cache, provider
  <2>2. pull' \in [Puller -> PullState]
    BY <1>0, <1>a, <1>22, <2>h DEF SaveImport, CreationTyped
  <2> QED
    BY <1>0, <1>22, <2>1, <2>2 DEF SaveImport, CreationTyped, cache, provider
<1>23. ASSUME NEW p \in Puller, DropMissing(p) PROVE CreationTyped'
  <2>1. imported' \in [Remote -> {"no", "shown", "gone"}]
    BY <1>0, <1>a, <1>23 DEF DropMissing, CreationTyped, cache, provider
  <2>2. row' \in [Task -> CreatedRow]
    <3>1. ASSUME NEW t \in Task PROVE [row[t] EXCEPT !.gone = TRUE] \in CreatedRow
      <4>1. row[t] \in CreatedRow
        BY <1>0 DEF CreationTyped
      <4> QED BY <4>1 DEF CreatedRow
    <3> QED BY <1>0, <1>23, <3>1 DEF DropMissing, CreationTyped
  <2>3. pull' \in [Puller -> PullState]
    BY <1>0, <1>a, <1>23 DEF DropMissing, CreationTyped, cache, provider, PullState, Rid
  <2> QED
    BY <1>0, <1>23, <2>1, <2>2, <2>3 DEF DropMissing, CreationTyped, cache, provider
<1>24. ASSUME NEW p \in Puller, PullFails(p) PROVE CreationTyped'
  <2>1. pull' \in [Puller -> PullState]
    BY <1>0, <1>a, <1>24 DEF PullFails, CreationTyped, cache, provider, PullState, Rid
  <2> QED
    BY <1>0, <1>24, <2>1 DEF PullFails, CreationTyped, cache, provider
<1> QED
  BY <1>1, <1>2, <1>3, <1>4, <1>5, <1>6, <1>7, <1>8, <1>9, <1>10, <1>11, <1>12, <1>13, <1>14,
     <1>15, <1>16, <1>17, <1>18, <1>19, <1>20, <1>21, <1>22, <1>23, <1>24 DEF Next, UserStep,
     PushStep, PullStep, Fault

-----------------------------------------------------------------------------
(* The parts of the invariant that stand on few others.                       *)

LEMMA OwnedKept ==
  ASSUME CreationInv, Next
  PROVE  Owned'
<1>0. CreationTyped /\ Owned /\ QueueShape
  BY CreationAssumption DEF CreationInv
<1>1. ASSUME NEW t \in Task, CreateTask(t) PROVE Owned'
  BY <1>0, <1>1 DEF CreateTask, CreationTyped, Owned, QueueShape, PushState, Operation, cache,
     provider, Rid, Remote, Closed, NoRemote, Slip
<1>2. ASSUME NEW t \in Task, BeginEdit(t) PROVE Owned'
  BY <1>0, <1>2 DEF BeginEdit, CreationTyped, Owned, QueueShape, PushState, Operation, cache,
     provider, Rid, Remote, Closed, NoRemote, Slip
<1>3. ASSUME NEW t \in Task, SaveEdit(t) PROVE Owned'
  <2>1. queue[t] \in Seq(Operation)
    BY <1>0 DEF CreationTyped
  <2> DEFINE e == [kind |-> "update", remote |-> editor[t]]
  <2>2. Append(queue[t], e) # <<>>
    <3>1. /\ Len(Append(queue[t], e)) = Len(queue[t]) + 1 /\ Len(queue[t]) \in Nat
      BY <2>1
    <3>2. Len(<< >>) = 0
      OBVIOUS
    <3> HIDE DEF e
    <3> QED BY <3>1, <3>2, SMTT(30)
  <2>3. \A u \in Task : queue[u] # <<>> => queue'[u] # <<>>
    BY <1>0, <1>3, <2>2 DEF SaveEdit, CreationTyped
  <2> QED BY <1>0, <1>3, <2>3 DEF SaveEdit, Owned, CreationTyped, PushState, provider
<1>4. ASSUME NEW t \in Task, SaveEditFails(t) PROVE Owned'
  BY <1>0, <1>4 DEF SaveEditFails, CreationTyped, Owned, QueueShape, PushState, Operation,
     cache, provider, Rid, Remote, Closed, NoRemote, Slip
<1>5. ASSUME OthersCreate PROVE Owned'
  BY <1>0, <1>5 DEF OthersCreate, CreationTyped, Owned, QueueShape, PushState, Operation,
     cache, provider, Rid, Remote, Closed, NoRemote, Slip
<1>6. ASSUME NEW r \in Remote, OthersDelete(r) PROVE Owned'
  BY <1>0, <1>6 DEF OthersDelete, CreationTyped, Owned, QueueShape, PushState, Operation,
     cache, provider, Rid, Remote, Closed, NoRemote, Slip
<1>7. ASSUME NEW p \in Process, NEW t \in Task, Claim(p, t) PROVE Owned'
  BY <1>0, <1>7 DEF Claim, Pushing, Mine, NoPush, CreationTyped, Owned, QueueShape, PushState,
     Operation, cache, provider, Rid, Remote, Closed, NoRemote, Slip
<1>8. ASSUME NEW p \in Process, RemoteCreate(p) PROVE Owned'
  BY <1>0, <1>8 DEF RemoteCreate, Pushing, Mine, Creating, CreationTyped, Owned, QueueShape,
     PushState, Operation, cache, provider, Rid, Remote, Closed, NoRemote, Slip
<1>9. ASSUME NEW p \in Process, RemoteUpdate(p) PROVE Owned'
  BY <1>0, <1>9 DEF RemoteUpdate, Pushing, Mine, CreationTyped, Owned, QueueShape, PushState,
     Operation, cache, provider, Rid, Remote, Closed, NoRemote, Slip
<1>10. ASSUME NEW p \in Process, StoreReply(p) PROVE Owned'
  BY <1>0, <1>10 DEF StoreReply, Mine, Absent, CreationTyped, Owned, QueueShape, PushState,
     Operation, cache, provider, Rid, Remote, Closed, NoRemote, Slip
<1>11. ASSUME NEW p \in Process, SaveBase(p) PROVE Owned'
  BY <1>0, <1>11 DEF SaveBase, Pushing, Mine, Creating, CreationTyped, Owned, QueueShape,
     PushState, Operation, cache, provider, Rid, Remote, Closed, NoRemote, Slip
<1>12. ASSUME NEW p \in Process, Complete(p) PROVE Owned'
  BY <1>0, <1>12 DEF Complete, Settle, Pushing, Mine, Creating, NoPush, CreationTyped, Owned,
     QueueShape, PushState, Operation, cache, provider, Rid, Remote, Closed, NoRemote, Slip
<1>13. ASSUME NEW p \in Process, Reject(p) PROVE Owned'
  BY <1>0, <1>13 DEF Reject, Settle, Pushing, Mine, Creating, NoPush, TakenFrom,
     CreationTyped, Owned, QueueShape, PushState, Operation, cache, provider, Rid, Remote,
     Closed, NoRemote, Slip
<1>14. ASSUME NEW p \in Process, Refuse(p) PROVE Owned'
  BY <1>0, <1>14 DEF Refuse, Settle, Pushing, Mine, Creating, NoPush, CreationTyped, Owned,
     QueueShape, PushState, Operation, cache, provider, Rid, Remote, Closed, NoRemote, Slip
<1>15. ASSUME NEW p \in Process, Missing(p) PROVE Owned'
  BY <1>0, <1>15 DEF Missing, GiveBack, Pushing, NoPush, CreationTyped, Owned, QueueShape,
     PushState, Operation, cache, provider, Rid, Remote, Closed, NoRemote, Slip
<1>16. ASSUME NEW p \in Process, Retry(p) PROVE Owned'
  BY <1>0, <1>16 DEF Retry, GiveBack, Pushing, NoPush, Mine, Creating, Forgets, CreationTyped,
     Owned, QueueShape, PushState, Operation, cache, provider, Rid, Remote, Closed, NoRemote,
     Slip
<1>17. ASSUME NEW p \in Process, RollBack(p) PROVE Owned'
  BY <1>0, <1>17 DEF RollBack, GiveBack, Pushing, NoPush, CreationTyped, Owned, QueueShape,
     PushState, Operation, cache, provider, Rid, Remote, Closed, NoRemote, Slip
<1>18. ASSUME NEW p \in Process, Crash(p) PROVE Owned'
  BY <1>0, <1>18 DEF Crash, NoPush, NoPull, Mine, Creating, CreationTyped, Owned, QueueShape,
     PushState, Operation, cache, provider, Rid, Remote, Closed, NoRemote, Slip
<1>19. ASSUME NEW p \in Puller, Fetch(p) PROVE Owned'
  BY <1>0, <1>19 DEF Fetch, NoPull, Pushing, Mine, CreationTyped, Owned, QueueShape,
     PushState, Operation, cache, provider, Rid, Remote, Closed, NoRemote, Slip
<1>20. ASSUME NEW p \in Puller, NEW r \in Remote, LookUp(p, r) PROVE Owned'
  BY <1>0, <1>20 DEF LookUp, LookUpIf, Holder, CreationTyped, Owned, QueueShape, PushState,
     Operation, cache, provider, Rid, Remote, Closed, NoRemote, Slip
<1>21. ASSUME NEW p \in Puller, SavePulled(p) PROVE Owned'
  BY <1>0, <1>21 DEF SavePulled, TakenFrom, NoPull, Listed, Absent, CreationTyped, Owned,
     QueueShape, PushState, Operation, cache, provider, Rid, Remote, Closed, NoRemote, Slip
<1>22. ASSUME NEW p \in Puller, SaveImport(p) PROVE Owned'
  BY <1>0, <1>22 DEF SaveImport, NoPull, Listed, CreationTyped, Owned, QueueShape, PushState,
     Operation, cache, provider, Rid, Remote, Closed, NoRemote, Slip
<1>23. ASSUME NEW p \in Puller, DropMissing(p) PROVE Owned'
  BY <1>0, <1>23 DEF DropMissing, NoPull, CreationTyped, Owned, QueueShape, PushState,
     Operation, cache, provider, Rid, Remote, Closed, NoRemote, Slip
<1>24. ASSUME NEW p \in Puller, PullFails(p) PROVE Owned'
  BY <1>0, <1>24 DEF PullFails, NoPull, CreationTyped, Owned, QueueShape, PushState,
     Operation, cache, provider, Rid, Remote, Closed, NoRemote, Slip
<1> QED
  BY <1>1, <1>2, <1>3, <1>4, <1>5, <1>6, <1>7, <1>8, <1>9, <1>10, <1>11, <1>12, <1>13, <1>14,
     <1>15, <1>16, <1>17, <1>18, <1>19, <1>20, <1>21, <1>22, <1>23, <1>24 DEF Next, UserStep,
     PushStep, PullStep, Fault

LEMMA QueueShapeKept ==
  ASSUME CreationInv, Next
  PROVE  QueueShape'
<1>0. CreationTyped /\ Owned /\ QueueShape /\ PullShape /\ NamedIsMade /\ MadeOnDemand
  BY CreationAssumption DEF CreationInv
<1>1. ASSUME NEW t \in Task, CreateTask(t) PROVE QueueShape'
  BY <1>0, <1>1 DEF CreateTask, CreationTyped, Owned, QueueShape, PushState, Operation,
     CreatedRow, cache, provider, Rid, Remote, Closed, NoRemote, Slip
<1>2. ASSUME NEW t \in Task, BeginEdit(t) PROVE QueueShape'
  BY <1>0, <1>2 DEF BeginEdit, CreationTyped, Owned, QueueShape, PushState, Operation,
     CreatedRow, cache, provider, Rid, Remote, Closed, NoRemote, Slip
<1>3. ASSUME NEW t \in Task, SaveEdit(t) PROVE QueueShape'
  <2> DEFINE e == [kind |-> "update", remote |-> editor[t]]
  <2>1. queue[t] \in Seq(Operation)
    BY <1>0 DEF CreationTyped
  <2>2. /\ DOMAIN Append(queue[t], e) = 1..(Len(queue[t]) + 1) /\ Len(queue[t]) \in Nat
        /\ DOMAIN queue[t] = 1..Len(queue[t])
    BY <2>1
  <2>3. /\ \A i \in 1..Len(queue[t]) : Append(queue[t], e)[i] = queue[t][i]
        /\ Append(queue[t], e)[Len(queue[t]) + 1] = e
    BY <2>1
  <2>4. /\ outcome[t] # "none" /\ outcome'=outcome /\ editor'[t] = Closed
        /\ queue'[t] = Append(queue[t], e)
        /\ \A u \in Task : u # t =>
             queue'[u] = queue[u] /\ row'[u] = row[u] /\ editor'[u] = editor[u]
    BY <1>0, <1>3 DEF SaveEdit, QueueShape, CreationTyped
  <2>5. outcome[t] = "queued" => Len(queue[t]) >= 1
    BY <1>0, <2>1 DEF QueueShape
  <2>6. e.kind = "update"
    OBVIOUS
  <2> HIDE DEF e
  <2>7. ASSUME NEW i \in DOMAIN queue'[t]
        PROVE  queue'[t][i].kind = "create" <=> i = 1 /\ outcome[t] = "queued"
    <3>1. CASE i \in 1..Len(queue[t])
      BY <1>0, <2>2, <2>3, <2>4, <3>1 DEF QueueShape
    <3>2. CASE i = Len(queue[t]) + 1
      BY <2>2, <2>3, <2>4, <2>5, <2>6, <3>2
    <3> QED BY <2>2, <2>4, <3>1, <3>2
  <2>8. outcome[t] = "queued" => queue'[t] # <<>> /\ queue'[t][1].remote = NoRemote
    <3>1. SUFFICES ASSUME outcome[t] = "queued"
                   PROVE  queue'[t] # <<>> /\ queue'[t][1].remote = NoRemote
      OBVIOUS
    <3>2. 1 \in 1..Len(queue[t]) /\ Len(queue'[t]) # 0
      BY <2>1, <2>2, <2>4, <2>5, <3>1
    <3> QED BY <1>0, <2>3, <2>4, <3>1, <3>2 DEF QueueShape
  <2> QED BY <1>0, <2>4, <2>7, <2>8 DEF QueueShape
<1>4. ASSUME NEW t \in Task, SaveEditFails(t) PROVE QueueShape'
  BY <1>0, <1>4 DEF SaveEditFails, CreationTyped, Owned, QueueShape, PushState, Operation,
     CreatedRow, cache, provider, Rid, Remote, Closed, NoRemote, Slip
<1>5. ASSUME OthersCreate PROVE QueueShape'
  BY <1>0, <1>5 DEF OthersCreate, CreationTyped, Owned, QueueShape, PushState, Operation,
     CreatedRow, cache, provider, Rid, Remote, Closed, NoRemote, Slip
<1>6. ASSUME NEW r \in Remote, OthersDelete(r) PROVE QueueShape'
  BY <1>0, <1>6 DEF OthersDelete, CreationTyped, Owned, QueueShape, PushState, Operation,
     CreatedRow, cache, provider, Rid, Remote, Closed, NoRemote, Slip
<1>7. ASSUME NEW p \in Process, NEW t \in Task, Claim(p, t) PROVE QueueShape'
  BY <1>0, <1>7 DEF Claim, Pushing, Mine, NoPush, CreationTyped, Owned, QueueShape, PushState,
     Operation, CreatedRow, cache, provider, Rid, Remote, Closed, NoRemote, Slip
<1>8. ASSUME NEW p \in Process, RemoteCreate(p) PROVE QueueShape'
  BY <1>0, <1>8 DEF RemoteCreate, Pushing, Mine, Creating, CreationTyped, Owned, QueueShape,
     PushState, Operation, CreatedRow, cache, provider, Rid, Remote, Closed, NoRemote, Slip
<1>9. ASSUME NEW p \in Process, RemoteUpdate(p) PROVE QueueShape'
  BY <1>0, <1>9 DEF RemoteUpdate, Pushing, Mine, CreationTyped, Owned, QueueShape, PushState,
     Operation, CreatedRow, cache, provider, Rid, Remote, Closed, NoRemote, Slip
<1>10. ASSUME NEW p \in Process, StoreReply(p) PROVE QueueShape'
  BY <1>0, <1>10 DEF StoreReply, Mine, Absent, CreationTyped, Owned, QueueShape, PushState,
     Operation, CreatedRow, cache, provider, Rid, Remote, Closed, NoRemote, Slip
<1>11. ASSUME NEW p \in Process, SaveBase(p) PROVE QueueShape'
  BY <1>0, <1>11 DEF SaveBase, Pushing, Mine, Creating, CreationTyped, Owned, QueueShape,
     PushState, Operation, CreatedRow, cache, provider, Rid, Remote, Closed, NoRemote, Slip
<1>12. ASSUME NEW p \in Process, Complete(p) PROVE QueueShape'
  BY <1>0, <1>12 DEF Complete, Settle, Pushing, Mine, Creating, NoPush, CreationTyped, Owned,
     QueueShape, PushState, Operation, CreatedRow, cache, provider, Rid, Remote, Closed,
     NoRemote, Slip
<1>13. ASSUME NEW p \in Process, Reject(p) PROVE QueueShape'
  BY <1>0, <1>13 DEF Reject, Settle, Pushing, Mine, Creating, NoPush, TakenFrom,
     CreationTyped, Owned, QueueShape, PushState, Operation, CreatedRow, cache, provider, Rid,
     Remote, Closed, NoRemote, Slip
<1>14. ASSUME NEW p \in Process, Refuse(p) PROVE QueueShape'
  BY <1>0, <1>14 DEF Refuse, Settle, Pushing, Mine, Creating, NoPush, CreationTyped, Owned,
     QueueShape, PushState, Operation, CreatedRow, cache, provider, Rid, Remote, Closed,
     NoRemote, Slip
<1>15. ASSUME NEW p \in Process, Missing(p) PROVE QueueShape'
  BY <1>0, <1>15 DEF Missing, GiveBack, Pushing, NoPush, CreationTyped, Owned, QueueShape,
     PushState, Operation, CreatedRow, cache, provider, Rid, Remote, Closed, NoRemote, Slip
<1>16. ASSUME NEW p \in Process, Retry(p) PROVE QueueShape'
  BY <1>0, <1>16 DEF Retry, GiveBack, Pushing, NoPush, Mine, Creating, Forgets, CreationTyped,
     Owned, QueueShape, PushState, Operation, CreatedRow, cache, provider, Rid, Remote,
     Closed, NoRemote, Slip
<1>17. ASSUME NEW p \in Process, RollBack(p) PROVE QueueShape'
  BY <1>0, <1>17 DEF RollBack, GiveBack, Pushing, NoPush, CreationTyped, Owned, QueueShape,
     PushState, Operation, CreatedRow, cache, provider, Rid, Remote, Closed, NoRemote, Slip
<1>18. ASSUME NEW p \in Process, Crash(p) PROVE QueueShape'
  BY <1>0, <1>18 DEF Crash, NoPush, NoPull, Mine, Creating, CreationTyped, Owned, QueueShape,
     PushState, Operation, CreatedRow, cache, provider, Rid, Remote, Closed, NoRemote, Slip
<1>19. ASSUME NEW p \in Puller, Fetch(p) PROVE QueueShape'
  BY <1>0, <1>19 DEF Fetch, NoPull, Pushing, Mine, CreationTyped, Owned, QueueShape,
     PushState, Operation, CreatedRow, cache, provider, Rid, Remote, Closed, NoRemote, Slip
<1>20. ASSUME NEW p \in Puller, NEW r \in Remote, LookUp(p, r) PROVE QueueShape'
  BY <1>0, <1>20, LookUpChanges DEF QueueShape, cache
<1>21. ASSUME NEW p \in Puller, SavePulled(p) PROVE QueueShape'
  <2>1. pull[p] \in PullState
    BY <1>0 DEF CreationTyped
  <2>2. pull[p].found \in Task /\ pull[p].id \in Remote
    BY <1>0, <1>21, <2>1 DEF SavePulled, PullState, PullShape, Rid
  <2>3. outcome[pull[p].found] # "none"
    BY <1>0, <2>2 DEF NamedIsMade, MadeOnDemand, Names
  <2>4. \A t \in Task : t # pull[p].found => row'[t] = row[t]
    BY <1>0, <1>21 DEF SavePulled, CreationTyped
  <2> QED BY <1>0, <1>21, <2>3, <2>4 DEF SavePulled, QueueShape
<1>22. ASSUME NEW p \in Puller, SaveImport(p) PROVE QueueShape'
  BY <1>0, <1>22 DEF SaveImport, NoPull, Listed, CreationTyped, Owned, QueueShape, PushState,
     Operation, CreatedRow, cache, provider, Rid, Remote, Closed, NoRemote, Slip
<1>23. ASSUME NEW p \in Puller, DropMissing(p) PROVE QueueShape'
  BY <1>0, <1>23 DEF DropMissing, NoPull, CreationTyped, Owned, QueueShape, PushState,
     Operation, CreatedRow, cache, provider, Rid, Remote, Closed, NoRemote, Slip
<1>24. ASSUME NEW p \in Puller, PullFails(p) PROVE QueueShape'
  BY <1>0, <1>24 DEF PullFails, NoPull, CreationTyped, Owned, QueueShape, PushState,
     Operation, CreatedRow, cache, provider, Rid, Remote, Closed, NoRemote, Slip
<1> QED
  BY <1>1, <1>2, <1>3, <1>4, <1>5, <1>6, <1>7, <1>8, <1>9, <1>10, <1>11, <1>12, <1>13, <1>14,
     <1>15, <1>16, <1>17, <1>18, <1>19, <1>20, <1>21, <1>22, <1>23, <1>24 DEF Next, UserStep,
     PushStep, PullStep, Fault

LEMMA PullShapeKept ==
  ASSUME CreationInv, Next
  PROVE  PullShape'
<1>0. CreationTyped /\ Owned /\ QueueShape /\ PullShape /\ Puller \subseteq Process
  BY CreationAssumption DEF CreationInv
<1>1. ASSUME NEW t \in Task, CreateTask(t) PROVE PullShape'
  BY <1>0, <1>1 DEF CreateTask, CreationTyped, Owned, PullShape, PushState, PullState, cache,
     provider, Rid, Remote, Closed, NoRemote, Slip
<1>2. ASSUME NEW t \in Task, BeginEdit(t) PROVE PullShape'
  BY <1>0, <1>2 DEF BeginEdit, CreationTyped, Owned, PullShape, PushState, PullState, cache,
     provider, Rid, Remote, Closed, NoRemote, Slip
<1>3. ASSUME NEW t \in Task, SaveEdit(t) PROVE PullShape'
  BY <1>0, <1>3 DEF SaveEdit, CreationTyped, Owned, PullShape, PushState, PullState, cache,
     provider, Rid, Remote, Closed, NoRemote, Slip
<1>4. ASSUME NEW t \in Task, SaveEditFails(t) PROVE PullShape'
  BY <1>0, <1>4 DEF SaveEditFails, CreationTyped, Owned, PullShape, PushState, PullState,
     cache, provider, Rid, Remote, Closed, NoRemote, Slip
<1>5. ASSUME OthersCreate PROVE PullShape'
  BY <1>0, <1>5 DEF OthersCreate, CreationTyped, Owned, PullShape, PushState, PullState,
     cache, provider, Rid, Remote, Closed, NoRemote, Slip
<1>6. ASSUME NEW r \in Remote, OthersDelete(r) PROVE PullShape'
  BY <1>0, <1>6 DEF OthersDelete, CreationTyped, Owned, PullShape, PushState, PullState,
     cache, provider, Rid, Remote, Closed, NoRemote, Slip
<1>7. ASSUME NEW p \in Process, NEW t \in Task, Claim(p, t) PROVE PullShape'
  BY <1>0, <1>7 DEF Claim, Pushing, Mine, NoPush, CreationTyped, Owned, PullShape, PushState,
     PullState, cache, provider, Rid, Remote, Closed, NoRemote, Slip
<1>8. ASSUME NEW p \in Process, RemoteCreate(p) PROVE PullShape'
  BY <1>0, <1>8 DEF RemoteCreate, Pushing, Mine, Creating, CreationTyped, Owned, PullShape,
     PushState, PullState, cache, provider, Rid, Remote, Closed, NoRemote, Slip
<1>9. ASSUME NEW p \in Process, RemoteUpdate(p) PROVE PullShape'
  BY <1>0, <1>9 DEF RemoteUpdate, Pushing, Mine, CreationTyped, Owned, PullShape, PushState,
     PullState, cache, provider, Rid, Remote, Closed, NoRemote, Slip
<1>10. ASSUME NEW p \in Process, StoreReply(p) PROVE PullShape'
  BY <1>0, <1>10 DEF StoreReply, Mine, Absent, CreationTyped, Owned, PullShape, PushState,
     PullState, cache, provider, Rid, Remote, Closed, NoRemote, Slip
<1>11. ASSUME NEW p \in Process, SaveBase(p) PROVE PullShape'
  BY <1>0, <1>11 DEF SaveBase, Pushing, Mine, Creating, CreationTyped, Owned, PullShape,
     PushState, PullState, cache, provider, Rid, Remote, Closed, NoRemote, Slip
<1>12. ASSUME NEW p \in Process, Complete(p) PROVE PullShape'
  BY <1>0, <1>12 DEF Complete, Settle, Pushing, Mine, Creating, NoPush, CreationTyped, Owned,
     PullShape, PushState, PullState, cache, provider, Rid, Remote, Closed, NoRemote, Slip
<1>13. ASSUME NEW p \in Process, Reject(p) PROVE PullShape'
  BY <1>0, <1>13 DEF Reject, Settle, Pushing, Mine, Creating, NoPush, TakenFrom,
     CreationTyped, Owned, PullShape, PushState, PullState, cache, provider, Rid, Remote,
     Closed, NoRemote, Slip
<1>14. ASSUME NEW p \in Process, Refuse(p) PROVE PullShape'
  BY <1>0, <1>14 DEF Refuse, Settle, Pushing, Mine, Creating, NoPush, CreationTyped, Owned,
     PullShape, PushState, PullState, cache, provider, Rid, Remote, Closed, NoRemote, Slip
<1>15. ASSUME NEW p \in Process, Missing(p) PROVE PullShape'
  BY <1>0, <1>15 DEF Missing, GiveBack, Pushing, NoPush, CreationTyped, Owned, PullShape,
     PushState, PullState, cache, provider, Rid, Remote, Closed, NoRemote, Slip
<1>16. ASSUME NEW p \in Process, Retry(p) PROVE PullShape'
  BY <1>0, <1>16 DEF Retry, GiveBack, Pushing, NoPush, Mine, Creating, Forgets, CreationTyped,
     Owned, PullShape, PushState, PullState, cache, provider, Rid, Remote, Closed, NoRemote,
     Slip
<1>17. ASSUME NEW p \in Process, RollBack(p) PROVE PullShape'
  BY <1>0, <1>17 DEF RollBack, GiveBack, Pushing, NoPush, CreationTyped, Owned, PullShape,
     PushState, PullState, cache, provider, Rid, Remote, Closed, NoRemote, Slip
<1>18. ASSUME NEW p \in Process, Crash(p) PROVE PullShape'
  BY <1>0, <1>18 DEF Crash, NoPush, NoPull, Mine, Creating, CreationTyped, Owned, PullShape,
     PushState, PullState, cache, provider, Rid, Remote, Closed, NoRemote, Slip
<1>19. ASSUME NEW p \in Puller, Fetch(p) PROVE PullShape'
  BY <1>0, <1>19 DEF Fetch, NoPull, Pushing, Mine, CreationTyped, Owned, PullShape, PushState,
     PullState, cache, provider, Rid, Remote, Closed, NoRemote, Slip
<1>20. ASSUME NEW p \in Puller, NEW r \in Remote, LookUp(p, r) PROVE PullShape'
  <2>1. r # NoRemote /\ DOMAIN maker' = DOMAIN maker
    BY <1>0, <1>20, LookUpChanges DEF Remote, NoRemote, provider
  <2>2. pull[p].at = "listed" /\ r \in DOMAIN maker \cup {NoRemote}
    BY <1>0, <1>20, LookUpChanges DEF PullShape
  <2> QED BY <1>0, <1>20, <2>1, <2>2, LookUpChanges DEF PullShape
<1>21. ASSUME NEW p \in Puller, SavePulled(p) PROVE PullShape'
  <2>1. pull[p] \in PullState /\ pull \in [Puller -> PullState]
    BY <1>0 DEF CreationTyped
  <2>2. /\ Listed(p).at = "listed" /\ Listed(p).id = NoRemote /\ Listed(p).found = Others
        /\ Listed(p).todo = pull[p].todo
    BY <2>1 DEF Listed, PullState
  <2>3. pull'[p] = NoPull \/ pull'[p] = Listed(p)
    BY <1>21, <2>1 DEF SavePulled
  <2>4. /\ \A q \in Puller : q # p => pull'[q] = pull[q]
        /\ provider' = provider
    BY <1>21, <2>1 DEF SavePulled
  <2> QED BY <1>0, <2>2, <2>3, <2>4 DEF PullShape, NoPull, provider
<1>22. ASSUME NEW p \in Puller, SaveImport(p) PROVE PullShape'
  <2>1. pull[p] \in PullState /\ pull \in [Puller -> PullState]
    BY <1>0 DEF CreationTyped
  <2>2. /\ Listed(p).at = "listed" /\ Listed(p).id = NoRemote /\ Listed(p).found = Others
        /\ Listed(p).todo = pull[p].todo
    BY <2>1 DEF Listed, PullState
  <2>3. pull'[p] = NoPull \/ pull'[p] = Listed(p)
    BY <1>22, <2>1 DEF SaveImport
  <2>4. /\ \A q \in Puller : q # p => pull'[q] = pull[q]
        /\ provider' = provider
    BY <1>22, <2>1 DEF SaveImport
  <2> QED BY <1>0, <2>2, <2>3, <2>4 DEF PullShape, NoPull, provider
<1>23. ASSUME NEW p \in Puller, DropMissing(p) PROVE PullShape'
  BY <1>0, <1>23 DEF DropMissing, NoPull, CreationTyped, Owned, PullShape, PushState,
     PullState, cache, provider, Rid, Remote, Closed, NoRemote, Slip
<1>24. ASSUME NEW p \in Puller, PullFails(p) PROVE PullShape'
  BY <1>0, <1>24 DEF PullFails, NoPull, CreationTyped, Owned, PullShape, PushState, PullState,
     cache, provider, Rid, Remote, Closed, NoRemote, Slip
<1> QED
  BY <1>1, <1>2, <1>3, <1>4, <1>5, <1>6, <1>7, <1>8, <1>9, <1>10, <1>11, <1>12, <1>13, <1>14,
     <1>15, <1>16, <1>17, <1>18, <1>19, <1>20, <1>21, <1>22, <1>23, <1>24 DEF Next, UserStep,
     PushStep, PullStep, Fault

LEMMA ImportsKept ==
  ASSUME CreationInv, Next
  PROVE  ImportsExist'
<1>0. CreationTyped /\ Owned /\ PullShape /\ ImportsExist
  BY CreationAssumption DEF CreationInv
<1>1. ASSUME NEW t \in Task, CreateTask(t) PROVE ImportsExist'
  BY <1>0, <1>1 DEF CreateTask, CreationTyped, Owned, PullShape, ImportsExist, PushState,
     PullState, cache, provider, Rid, Remote, Closed, NoRemote, Slip
<1>2. ASSUME NEW t \in Task, BeginEdit(t) PROVE ImportsExist'
  BY <1>0, <1>2 DEF BeginEdit, CreationTyped, Owned, PullShape, ImportsExist, PushState,
     PullState, cache, provider, Rid, Remote, Closed, NoRemote, Slip
<1>3. ASSUME NEW t \in Task, SaveEdit(t) PROVE ImportsExist'
  BY <1>0, <1>3 DEF SaveEdit, CreationTyped, Owned, PullShape, ImportsExist, PushState,
     PullState, cache, provider, Rid, Remote, Closed, NoRemote, Slip
<1>4. ASSUME NEW t \in Task, SaveEditFails(t) PROVE ImportsExist'
  BY <1>0, <1>4 DEF SaveEditFails, CreationTyped, Owned, PullShape, ImportsExist, PushState,
     PullState, cache, provider, Rid, Remote, Closed, NoRemote, Slip
<1>5. ASSUME OthersCreate PROVE ImportsExist'
  BY <1>0, <1>5 DEF OthersCreate, CreationTyped, Owned, PullShape, ImportsExist, PushState,
     PullState, cache, provider, Rid, Remote, Closed, NoRemote, Slip
<1>6. ASSUME NEW r \in Remote, OthersDelete(r) PROVE ImportsExist'
  BY <1>0, <1>6 DEF OthersDelete, CreationTyped, Owned, PullShape, ImportsExist, PushState,
     PullState, cache, provider, Rid, Remote, Closed, NoRemote, Slip
<1>7. ASSUME NEW p \in Process, NEW t \in Task, Claim(p, t) PROVE ImportsExist'
  BY <1>0, <1>7 DEF Claim, Pushing, Mine, NoPush, CreationTyped, Owned, PullShape,
     ImportsExist, PushState, PullState, cache, provider, Rid, Remote, Closed, NoRemote, Slip
<1>8. ASSUME NEW p \in Process, RemoteCreate(p) PROVE ImportsExist'
  BY <1>0, <1>8 DEF RemoteCreate, Pushing, Mine, Creating, CreationTyped, Owned, PullShape,
     ImportsExist, PushState, PullState, cache, provider, Rid, Remote, Closed, NoRemote, Slip
<1>9. ASSUME NEW p \in Process, RemoteUpdate(p) PROVE ImportsExist'
  BY <1>0, <1>9 DEF RemoteUpdate, Pushing, Mine, CreationTyped, Owned, PullShape,
     ImportsExist, PushState, PullState, cache, provider, Rid, Remote, Closed, NoRemote, Slip
<1>10. ASSUME NEW p \in Process, StoreReply(p) PROVE ImportsExist'
  BY <1>0, <1>10 DEF StoreReply, Mine, Absent, CreationTyped, Owned, PullShape, ImportsExist,
     PushState, PullState, cache, provider, Rid, Remote, Closed, NoRemote, Slip
<1>11. ASSUME NEW p \in Process, SaveBase(p) PROVE ImportsExist'
  BY <1>0, <1>11 DEF SaveBase, Pushing, Mine, Creating, CreationTyped, Owned, PullShape,
     ImportsExist, PushState, PullState, cache, provider, Rid, Remote, Closed, NoRemote, Slip
<1>12. ASSUME NEW p \in Process, Complete(p) PROVE ImportsExist'
  BY <1>0, <1>12 DEF Complete, Settle, Pushing, Mine, Creating, NoPush, CreationTyped, Owned,
     PullShape, ImportsExist, PushState, PullState, cache, provider, Rid, Remote, Closed,
     NoRemote, Slip
<1>13. ASSUME NEW p \in Process, Reject(p) PROVE ImportsExist'
  BY <1>0, <1>13 DEF Reject, Settle, Pushing, Mine, Creating, NoPush, TakenFrom,
     CreationTyped, Owned, PullShape, ImportsExist, PushState, PullState, cache, provider,
     Rid, Remote, Closed, NoRemote, Slip
<1>14. ASSUME NEW p \in Process, Refuse(p) PROVE ImportsExist'
  BY <1>0, <1>14 DEF Refuse, Settle, Pushing, Mine, Creating, NoPush, CreationTyped, Owned,
     PullShape, ImportsExist, PushState, PullState, cache, provider, Rid, Remote, Closed,
     NoRemote, Slip
<1>15. ASSUME NEW p \in Process, Missing(p) PROVE ImportsExist'
  BY <1>0, <1>15 DEF Missing, GiveBack, Pushing, NoPush, CreationTyped, Owned, PullShape,
     ImportsExist, PushState, PullState, cache, provider, Rid, Remote, Closed, NoRemote, Slip
<1>16. ASSUME NEW p \in Process, Retry(p) PROVE ImportsExist'
  BY <1>0, <1>16 DEF Retry, GiveBack, Pushing, NoPush, Mine, Creating, Forgets, CreationTyped,
     Owned, PullShape, ImportsExist, PushState, PullState, cache, provider, Rid, Remote,
     Closed, NoRemote, Slip
<1>17. ASSUME NEW p \in Process, RollBack(p) PROVE ImportsExist'
  BY <1>0, <1>17 DEF RollBack, GiveBack, Pushing, NoPush, CreationTyped, Owned, PullShape,
     ImportsExist, PushState, PullState, cache, provider, Rid, Remote, Closed, NoRemote, Slip
<1>18. ASSUME NEW p \in Process, Crash(p) PROVE ImportsExist'
  BY <1>0, <1>18 DEF Crash, NoPush, NoPull, Mine, Creating, CreationTyped, Owned, PullShape,
     ImportsExist, PushState, PullState, cache, provider, Rid, Remote, Closed, NoRemote, Slip
<1>19. ASSUME NEW p \in Puller, Fetch(p) PROVE ImportsExist'
  BY <1>0, <1>19 DEF Fetch, NoPull, Pushing, Mine, CreationTyped, Owned, PullShape,
     ImportsExist, PushState, PullState, cache, provider, Rid, Remote, Closed, NoRemote, Slip
<1>20. ASSUME NEW p \in Puller, NEW r \in Remote, LookUp(p, r) PROVE ImportsExist'
  BY <1>0, <1>20 DEF LookUp, LookUpIf, Holder, CreationTyped, Owned, PullShape, ImportsExist,
     PushState, PullState, cache, provider, Rid, Remote, Closed, NoRemote, Slip
<1>21. ASSUME NEW p \in Puller, SavePulled(p) PROVE ImportsExist'
  BY <1>0, <1>21 DEF SavePulled, TakenFrom, NoPull, Listed, Absent, CreationTyped, Owned,
     PullShape, ImportsExist, PushState, PullState, cache, provider, Rid, Remote, Closed,
     NoRemote, Slip
<1>22. ASSUME NEW p \in Puller, SaveImport(p) PROVE ImportsExist'
  BY <1>0, <1>22 DEF SaveImport, NoPull, Listed, CreationTyped, Owned, PullShape,
     ImportsExist, PushState, PullState, cache, provider, Rid, Remote, Closed, NoRemote, Slip
<1>23. ASSUME NEW p \in Puller, DropMissing(p) PROVE ImportsExist'
  BY <1>0, <1>23 DEF DropMissing, NoPull, CreationTyped, Owned, PullShape, ImportsExist,
     PushState, PullState, cache, provider, Rid, Remote, Closed, NoRemote, Slip
<1>24. ASSUME NEW p \in Puller, PullFails(p) PROVE ImportsExist'
  BY <1>0, <1>24 DEF PullFails, NoPull, CreationTyped, Owned, PullShape, ImportsExist,
     PushState, PullState, cache, provider, Rid, Remote, Closed, NoRemote, Slip
<1> QED
  BY <1>1, <1>2, <1>3, <1>4, <1>5, <1>6, <1>7, <1>8, <1>9, <1>10, <1>11, <1>12, <1>13, <1>14,
     <1>15, <1>16, <1>17, <1>18, <1>19, <1>20, <1>21, <1>22, <1>23, <1>24 DEF Next, UserStep,
     PushStep, PullStep, Fault

LEMMA LaterKept ==
  ASSUME CreationInv, Next
  PROVE  LaterRemembered'
<1>0. CreationTyped /\ Owned /\ QueueShape /\ LaterRemembered
  BY CreationAssumption DEF CreationInv
<1>1. ASSUME NEW t \in Task, CreateTask(t) PROVE LaterRemembered'
  BY <1>0, <1>1 DEF CreateTask, CreationTyped, Owned, QueueShape, LaterRemembered, PushState,
     cache, provider, Rid, Remote, Closed, NoRemote, Slip
<1>2. ASSUME NEW t \in Task, BeginEdit(t) PROVE LaterRemembered'
  BY <1>0, <1>2 DEF BeginEdit, CreationTyped, Owned, QueueShape, LaterRemembered, PushState,
     cache, provider, Rid, Remote, Closed, NoRemote, Slip
<1>3. ASSUME NEW t \in Task, SaveEdit(t) PROVE LaterRemembered'
  BY <1>0, <1>3 DEF SaveEdit, CreationTyped, Owned, QueueShape, LaterRemembered, PushState,
     cache, provider, Rid, Remote, Closed, NoRemote, Slip
<1>4. ASSUME NEW t \in Task, SaveEditFails(t) PROVE LaterRemembered'
  BY <1>0, <1>4 DEF SaveEditFails, CreationTyped, Owned, QueueShape, LaterRemembered,
     PushState, cache, provider, Rid, Remote, Closed, NoRemote, Slip
<1>5. ASSUME OthersCreate PROVE LaterRemembered'
  BY <1>0, <1>5 DEF OthersCreate, CreationTyped, Owned, QueueShape, LaterRemembered,
     PushState, cache, provider, Rid, Remote, Closed, NoRemote, Slip
<1>6. ASSUME NEW r \in Remote, OthersDelete(r) PROVE LaterRemembered'
  BY <1>0, <1>6 DEF OthersDelete, CreationTyped, Owned, QueueShape, LaterRemembered,
     PushState, cache, provider, Rid, Remote, Closed, NoRemote, Slip
<1>7. ASSUME NEW p \in Process, NEW t \in Task, Claim(p, t) PROVE LaterRemembered'
  BY <1>0, <1>7 DEF Claim, Pushing, Mine, NoPush, CreationTyped, Owned, QueueShape,
     LaterRemembered, PushState, cache, provider, Rid, Remote, Closed, NoRemote, Slip
<1>8. ASSUME NEW p \in Process, RemoteCreate(p) PROVE LaterRemembered'
  BY <1>0, <1>8 DEF RemoteCreate, Pushing, Mine, Creating, CreationTyped, Owned, QueueShape,
     LaterRemembered, PushState, cache, provider, Rid, Remote, Closed, NoRemote, Slip
<1>9. ASSUME NEW p \in Process, RemoteUpdate(p) PROVE LaterRemembered'
  BY <1>0, <1>9 DEF RemoteUpdate, Pushing, Mine, Target, CreationTyped, Owned, QueueShape,
     LaterRemembered, PushState, cache, provider, Rid, Remote, Closed, NoRemote, Slip
<1>10. ASSUME NEW p \in Process, StoreReply(p) PROVE LaterRemembered'
  BY <1>0, <1>10 DEF StoreReply, Mine, Absent, CreationTyped, Owned, QueueShape,
     LaterRemembered, PushState, cache, provider, Rid, Remote, Closed, NoRemote, Slip
<1>11. ASSUME NEW p \in Process, SaveBase(p) PROVE LaterRemembered'
  <2>1. push[p] \in PushState /\ push[p].at = "stored" /\ push[p].task \in Task
    BY <1>0, <1>11 DEF SaveBase, CreationTyped, PushState, Owned, Pushing
  <2>2. Head(queue[push[p].task]) = queue[push[p].task][1] /\ 1 \in DOMAIN queue[push[p].task]
    BY <1>0, <2>1 DEF Owned, CreationTyped
  <2>3. outcome[push[p].task] = "queued" => Creating(p)
    BY <1>0, <2>1, <2>2 DEF QueueShape, Creating, Mine
  <2>4. push[p].got # NoRemote
    BY <1>0, <2>1 DEF Owned
  <2>5. Creating(p) => memory'[p][push[p].task] = push[p].got
    BY <1>0, <1>11, <2>1 DEF SaveBase, CreationTyped, Mine
  <2>6. \A q \in Process : q # p => push'[q] = push[q] /\ memory'[q] = memory[q]
    BY <1>0, <1>11 DEF SaveBase, CreationTyped
  <2>7. push'[p].task = push[p].task /\ outcome' = outcome
    BY <1>0, <1>11, <2>1 DEF SaveBase, CreationTyped, PushState
  <2> QED BY <1>0, <2>1, <2>3, <2>4, <2>5, <2>6, <2>7 DEF LaterRemembered
<1>12. ASSUME NEW p \in Process, Complete(p) PROVE LaterRemembered'
  BY <1>0, <1>12 DEF Complete, Settle, Pushing, Mine, Creating, NoPush, CreationTyped, Owned,
     QueueShape, LaterRemembered, PushState, cache, provider, Rid, Remote, Closed, NoRemote,
     Slip
<1>13. ASSUME NEW p \in Process, Reject(p) PROVE LaterRemembered'
  BY <1>0, <1>13 DEF Reject, Settle, Pushing, Mine, Creating, NoPush, TakenFrom,
     CreationTyped, Owned, QueueShape, LaterRemembered, PushState, cache, provider, Rid,
     Remote, Closed, NoRemote, Slip
<1>14. ASSUME NEW p \in Process, Refuse(p) PROVE LaterRemembered'
  BY <1>0, <1>14 DEF Refuse, Settle, Pushing, Mine, Creating, NoPush, CreationTyped, Owned,
     QueueShape, LaterRemembered, PushState, cache, provider, Rid, Remote, Closed, NoRemote,
     Slip
<1>15. ASSUME NEW p \in Process, Missing(p) PROVE LaterRemembered'
  BY <1>0, <1>15 DEF Missing, GiveBack, Pushing, NoPush, CreationTyped, Owned, QueueShape,
     LaterRemembered, PushState, cache, provider, Rid, Remote, Closed, NoRemote, Slip
<1>16. ASSUME NEW p \in Process, Retry(p) PROVE LaterRemembered'
  BY <1>0, <1>16 DEF Retry, GiveBack, Pushing, NoPush, Mine, Creating, Forgets, CreationTyped,
     Owned, QueueShape, LaterRemembered, PushState, cache, provider, Rid, Remote, Closed,
     NoRemote, Slip
<1>17. ASSUME NEW p \in Process, RollBack(p) PROVE LaterRemembered'
  BY <1>0, <1>17 DEF RollBack, GiveBack, Pushing, NoPush, CreationTyped, Owned, QueueShape,
     LaterRemembered, PushState, cache, provider, Rid, Remote, Closed, NoRemote, Slip
<1>18. ASSUME NEW p \in Process, Crash(p) PROVE LaterRemembered'
  BY <1>0, <1>18 DEF Crash, NoPush, NoPull, Mine, Creating, CreationTyped, Owned, QueueShape,
     LaterRemembered, PushState, cache, provider, Rid, Remote, Closed, NoRemote, Slip
<1>19. ASSUME NEW p \in Puller, Fetch(p) PROVE LaterRemembered'
  BY <1>0, <1>19 DEF Fetch, NoPull, Pushing, Mine, CreationTyped, Owned, QueueShape,
     LaterRemembered, PushState, cache, provider, Rid, Remote, Closed, NoRemote, Slip
<1>20. ASSUME NEW p \in Puller, NEW r \in Remote, LookUp(p, r) PROVE LaterRemembered'
  BY <1>0, <1>20 DEF LookUp, LookUpIf, Holder, CreationTyped, Owned, QueueShape,
     LaterRemembered, PushState, cache, provider, Rid, Remote, Closed, NoRemote, Slip
<1>21. ASSUME NEW p \in Puller, SavePulled(p) PROVE LaterRemembered'
  BY <1>0, <1>21 DEF SavePulled, TakenFrom, NoPull, Listed, Absent, CreationTyped, Owned,
     QueueShape, LaterRemembered, PushState, cache, provider, Rid, Remote, Closed, NoRemote,
     Slip
<1>22. ASSUME NEW p \in Puller, SaveImport(p) PROVE LaterRemembered'
  BY <1>0, <1>22 DEF SaveImport, NoPull, Listed, CreationTyped, Owned, QueueShape,
     LaterRemembered, PushState, cache, provider, Rid, Remote, Closed, NoRemote, Slip
<1>23. ASSUME NEW p \in Puller, DropMissing(p) PROVE LaterRemembered'
  BY <1>0, <1>23 DEF DropMissing, NoPull, CreationTyped, Owned, QueueShape, LaterRemembered,
     PushState, cache, provider, Rid, Remote, Closed, NoRemote, Slip
<1>24. ASSUME NEW p \in Puller, PullFails(p) PROVE LaterRemembered'
  BY <1>0, <1>24 DEF PullFails, NoPull, CreationTyped, Owned, QueueShape, LaterRemembered,
     PushState, cache, provider, Rid, Remote, Closed, NoRemote, Slip
<1> QED
  BY <1>1, <1>2, <1>3, <1>4, <1>5, <1>6, <1>7, <1>8, <1>9, <1>10, <1>11, <1>12, <1>13, <1>14,
     <1>15, <1>16, <1>17, <1>18, <1>19, <1>20, <1>21, <1>22, <1>23, <1>24 DEF Next, UserStep,
     PushStep, PullStep, Fault

LEMMA StoredKept ==
  ASSUME CreationInv, Next
  PROVE  StoredHasId'
<1>0. CreationTyped /\ Owned /\ QueueShape /\ PullShape /\ StoredHasId
  BY CreationAssumption DEF CreationInv
<1>1. ASSUME NEW t \in Task, CreateTask(t) PROVE StoredHasId'
  BY <1>0, <1>1 DEF CreateTask, CreationTyped, Owned, QueueShape, StoredHasId, PushState,
     cache, provider, Rid, Remote, Closed, NoRemote, Slip
<1>2. ASSUME NEW t \in Task, BeginEdit(t) PROVE StoredHasId'
  BY <1>0, <1>2 DEF BeginEdit, CreationTyped, Owned, QueueShape, StoredHasId, PushState,
     cache, provider, Rid, Remote, Closed, NoRemote, Slip
<1>3. ASSUME NEW t \in Task, SaveEdit(t) PROVE StoredHasId'
  BY <1>0, <1>3 DEF SaveEdit, CreationTyped, Owned, QueueShape, StoredHasId, PushState, cache,
     provider, Rid, Remote, Closed, NoRemote, Slip
<1>4. ASSUME NEW t \in Task, SaveEditFails(t) PROVE StoredHasId'
  BY <1>0, <1>4 DEF SaveEditFails, CreationTyped, Owned, QueueShape, StoredHasId, PushState,
     cache, provider, Rid, Remote, Closed, NoRemote, Slip
<1>5. ASSUME OthersCreate PROVE StoredHasId'
  BY <1>0, <1>5 DEF OthersCreate, CreationTyped, Owned, QueueShape, StoredHasId, PushState,
     cache, provider, Rid, Remote, Closed, NoRemote, Slip
<1>6. ASSUME NEW r \in Remote, OthersDelete(r) PROVE StoredHasId'
  BY <1>0, <1>6 DEF OthersDelete, CreationTyped, Owned, QueueShape, StoredHasId, PushState,
     cache, provider, Rid, Remote, Closed, NoRemote, Slip
<1>7. ASSUME NEW p \in Process, NEW t \in Task, Claim(p, t) PROVE StoredHasId'
  BY <1>0, <1>7 DEF Claim, Pushing, Mine, NoPush, CreationTyped, Owned, QueueShape,
     StoredHasId, PushState, cache, provider, Rid, Remote, Closed, NoRemote, Slip
<1>8. ASSUME NEW p \in Process, RemoteCreate(p) PROVE StoredHasId'
  BY <1>0, <1>8 DEF RemoteCreate, Pushing, Mine, Creating, CreationTyped, Owned, QueueShape,
     StoredHasId, PushState, cache, provider, Rid, Remote, Closed, NoRemote, Slip
<1>9. ASSUME NEW p \in Process, RemoteUpdate(p) PROVE StoredHasId'
  BY <1>0, <1>9 DEF RemoteUpdate, Pushing, Mine, CreationTyped, Owned, QueueShape,
     StoredHasId, PushState, cache, provider, Rid, Remote, Closed, NoRemote, Slip
<1>10. ASSUME NEW p \in Process, StoreReply(p) PROVE StoredHasId'
  <2>1. push[p] \in PushState /\ push[p].at \in {"created", "updated"} /\ push[p].task \in Task
    BY <1>0, <1>10 DEF StoreReply, CreationTyped, PushState, Owned
  <2>2. push[p].got # NoRemote /\ row'[push[p].task].remote = push[p].got
    BY <1>0, <1>10, <2>1 DEF Owned, StoreReply, CreationTyped, Mine, Absent
  <2>3. \A u \in Task : u # push[p].task => row'[u] = row[u]
    BY <1>0, <1>10 DEF StoreReply, CreationTyped, Mine
  <2>4. /\ \A q \in Process : q # p => push'[q] = push[q]
        /\ push'[p].task = push[p].task
    BY <1>0, <1>10, <2>1 DEF StoreReply, CreationTyped, PushState
  <2>5. outcome' = outcome /\ slips' = slips
    BY <1>10 DEF StoreReply
  <2> QED BY <1>0, <2>1, <2>2, <2>3, <2>4, <2>5 DEF StoredHasId
<1>11. ASSUME NEW p \in Process, SaveBase(p) PROVE StoredHasId'
  BY <1>0, <1>11 DEF SaveBase, Pushing, Mine, Creating, CreationTyped, Owned, QueueShape,
     StoredHasId, PushState, cache, provider, Rid, Remote, Closed, NoRemote, Slip
<1>12. ASSUME NEW p \in Process, Complete(p) PROVE StoredHasId'
  BY <1>0, <1>12 DEF Complete, Settle, Pushing, Mine, Creating, NoPush, CreationTyped, Owned,
     QueueShape, StoredHasId, PushState, cache, provider, Rid, Remote, Closed, NoRemote, Slip
<1>13. ASSUME NEW p \in Process, Reject(p) PROVE StoredHasId'
  BY <1>0, <1>13 DEF Reject, Settle, Pushing, Mine, Creating, NoPush, TakenFrom,
     CreationTyped, Owned, QueueShape, StoredHasId, PushState, cache, provider, Rid, Remote,
     Closed, NoRemote, Slip
<1>14. ASSUME NEW p \in Process, Refuse(p) PROVE StoredHasId'
  BY <1>0, <1>14 DEF Refuse, Settle, Pushing, Mine, Creating, NoPush, CreationTyped, Owned,
     QueueShape, StoredHasId, PushState, cache, provider, Rid, Remote, Closed, NoRemote, Slip
<1>15. ASSUME NEW p \in Process, Missing(p) PROVE StoredHasId'
  BY <1>0, <1>15 DEF Missing, GiveBack, Pushing, NoPush, CreationTyped, Owned, QueueShape,
     StoredHasId, PushState, cache, provider, Rid, Remote, Closed, NoRemote, Slip
<1>16. ASSUME NEW p \in Process, Retry(p) PROVE StoredHasId'
  BY <1>0, <1>16 DEF Retry, GiveBack, Pushing, NoPush, Mine, Creating, Forgets, CreationTyped,
     Owned, QueueShape, StoredHasId, PushState, cache, provider, Rid, Remote, Closed,
     NoRemote, Slip
<1>17. ASSUME NEW p \in Process, RollBack(p) PROVE StoredHasId'
  BY <1>0, <1>17 DEF RollBack, GiveBack, Pushing, NoPush, CreationTyped, Owned, QueueShape,
     StoredHasId, PushState, cache, provider, Rid, Remote, Closed, NoRemote, Slip
<1>18. ASSUME NEW p \in Process, Crash(p) PROVE StoredHasId'
  BY <1>0, <1>18 DEF Crash, NoPush, NoPull, Mine, Creating, CreationTyped, Owned, QueueShape,
     StoredHasId, PushState, cache, provider, Rid, Remote, Closed, NoRemote, Slip
<1>19. ASSUME NEW p \in Puller, Fetch(p) PROVE StoredHasId'
  BY <1>0, <1>19 DEF Fetch, NoPull, Pushing, Mine, CreationTyped, Owned, QueueShape,
     StoredHasId, PushState, cache, provider, Rid, Remote, Closed, NoRemote, Slip
<1>20. ASSUME NEW p \in Puller, NEW r \in Remote, LookUp(p, r) PROVE StoredHasId'
  BY <1>0, <1>20, LookUpChanges DEF StoredHasId, cache
<1>21. ASSUME NEW p \in Puller, SavePulled(p) PROVE StoredHasId'
  <2>1. pull[p] \in PullState
    BY <1>0 DEF CreationTyped
  <2>2. pull[p].found \in Task /\ pull[p].id # NoRemote
    BY <1>0, <1>21, <2>1 DEF SavePulled, PullState, PullShape
  <2>3. \A t \in Task : row'[t] = row[t] \/ row'[t].remote # NoRemote
    BY <1>0, <1>21, <2>2 DEF SavePulled, CreationTyped, Absent
  <2>4. UNCHANGED <<outcome, push, slips>>
    BY <1>21 DEF SavePulled
  <2> QED BY <1>0, <2>3, <2>4 DEF StoredHasId
<1>22. ASSUME NEW p \in Puller, SaveImport(p) PROVE StoredHasId'
  BY <1>0, <1>22 DEF SaveImport, NoPull, Listed, CreationTyped, Owned, QueueShape,
     StoredHasId, PushState, cache, provider, Rid, Remote, Closed, NoRemote, Slip
<1>23. ASSUME NEW p \in Puller, DropMissing(p) PROVE StoredHasId'
  BY <1>0, <1>23 DEF DropMissing, NoPull, CreationTyped, Owned, QueueShape, StoredHasId,
     PushState, cache, provider, Rid, Remote, Closed, NoRemote, Slip
<1>24. ASSUME NEW p \in Puller, PullFails(p) PROVE StoredHasId'
  BY <1>0, <1>24 DEF PullFails, NoPull, CreationTyped, Owned, QueueShape, StoredHasId,
     PushState, cache, provider, Rid, Remote, Closed, NoRemote, Slip
<1> QED
  BY <1>1, <1>2, <1>3, <1>4, <1>5, <1>6, <1>7, <1>8, <1>9, <1>10, <1>11, <1>12, <1>13, <1>14,
     <1>15, <1>16, <1>17, <1>18, <1>19, <1>20, <1>21, <1>22, <1>23, <1>24 DEF Next, UserStep,
     PushStep, PullStep, Fault

-----------------------------------------------------------------------------
(* What a step may do to the identities: nothing is forgotten of what was made,*)
(* and a task goes by no new id but that of the remote task made for it just   *)
(* now.                                                                       *)

NewFor(t, r) == \E p \in Process : RemoteCreate(p) /\ push[p].task = t /\ r = Len(maker')

SlipsStay == \A t \in Task : slips[t] \subseteq slips'[t]

MakerGrows ==
  /\ \A r \in DOMAIN maker : r \in DOMAIN maker' /\ maker'[r] = maker[r]
  /\ \A t \in Task, r \in Remote : MadeFor(t, r)' => MadeFor(t, r) \/ NewFor(t, r)
  /\ \A r \in live' : r \in live \/ r = Len(maker')
  /\ live' \subseteq live \/ Len(maker') \notin DOMAIN maker

NamesStay ==
  \A t \in Task, r \in Remote : Names(t, r)' => Names(t, r) \/ NewFor(t, r)

BearsStay ==
  \A t \in Task, r \in Remote : Bears(t, r)' => Bears(t, r) \/ NewFor(t, r)

LEMMA SlipsKept ==
  ASSUME CreationInv, Next
  PROVE  SlipsStay
<1>0. CreationTyped
  BY CreationAssumption DEF CreationInv
<1>1. ASSUME NEW t \in Task, CreateTask(t) PROVE SlipsStay
  BY <1>0, <1>1 DEF CreateTask, CreationTyped, SlipsStay, cache, provider, Rid, Remote,
     Closed, NoRemote, Slip
<1>2. ASSUME NEW t \in Task, BeginEdit(t) PROVE SlipsStay
  BY <1>0, <1>2 DEF BeginEdit, CreationTyped, SlipsStay, cache, provider, Rid, Remote, Closed,
     NoRemote, Slip
<1>3. ASSUME NEW t \in Task, SaveEdit(t) PROVE SlipsStay
  BY <1>0, <1>3 DEF SaveEdit, CreationTyped, SlipsStay, cache, provider, Rid, Remote, Closed,
     NoRemote, Slip
<1>4. ASSUME NEW t \in Task, SaveEditFails(t) PROVE SlipsStay
  BY <1>0, <1>4 DEF SaveEditFails, CreationTyped, SlipsStay, cache, provider, Rid, Remote,
     Closed, NoRemote, Slip
<1>5. ASSUME OthersCreate PROVE SlipsStay
  BY <1>0, <1>5 DEF OthersCreate, CreationTyped, SlipsStay, cache, provider, Rid, Remote,
     Closed, NoRemote, Slip
<1>6. ASSUME NEW r \in Remote, OthersDelete(r) PROVE SlipsStay
  BY <1>0, <1>6 DEF OthersDelete, CreationTyped, SlipsStay, cache, provider, Rid, Remote,
     Closed, NoRemote, Slip
<1>7. ASSUME NEW p \in Process, NEW t \in Task, Claim(p, t) PROVE SlipsStay
  BY <1>0, <1>7 DEF Claim, Pushing, Mine, NoPush, CreationTyped, SlipsStay, cache, provider,
     Rid, Remote, Closed, NoRemote, Slip
<1>8. ASSUME NEW p \in Process, RemoteCreate(p) PROVE SlipsStay
  BY <1>0, <1>8 DEF RemoteCreate, Pushing, Mine, Creating, CreationTyped, SlipsStay, cache,
     provider, Rid, Remote, Closed, NoRemote, Slip
<1>9. ASSUME NEW p \in Process, RemoteUpdate(p) PROVE SlipsStay
  BY <1>0, <1>9 DEF RemoteUpdate, Pushing, Mine, CreationTyped, SlipsStay, cache, provider,
     Rid, Remote, Closed, NoRemote, Slip
<1>10. ASSUME NEW p \in Process, StoreReply(p) PROVE SlipsStay
  BY <1>0, <1>10 DEF StoreReply, Mine, Absent, CreationTyped, SlipsStay, cache, provider, Rid,
     Remote, Closed, NoRemote, Slip
<1>11. ASSUME NEW p \in Process, SaveBase(p) PROVE SlipsStay
  BY <1>0, <1>11 DEF SaveBase, Pushing, Mine, Creating, CreationTyped, SlipsStay, cache,
     provider, Rid, Remote, Closed, NoRemote, Slip
<1>12. ASSUME NEW p \in Process, Complete(p) PROVE SlipsStay
  BY <1>0, <1>12 DEF Complete, Settle, Pushing, Mine, Creating, NoPush, CreationTyped,
     SlipsStay, cache, provider, Rid, Remote, Closed, NoRemote, Slip
<1>13. ASSUME NEW p \in Process, Reject(p) PROVE SlipsStay
  BY <1>0, <1>13 DEF Reject, Settle, Pushing, Mine, Creating, NoPush, TakenFrom,
     CreationTyped, SlipsStay, cache, provider, Rid, Remote, Closed, NoRemote, Slip
<1>14. ASSUME NEW p \in Process, Refuse(p) PROVE SlipsStay
  BY <1>0, <1>14 DEF Refuse, Settle, Pushing, Mine, Creating, NoPush, CreationTyped,
     SlipsStay, cache, provider, Rid, Remote, Closed, NoRemote, Slip
<1>15. ASSUME NEW p \in Process, Missing(p) PROVE SlipsStay
  BY <1>0, <1>15 DEF Missing, GiveBack, Pushing, NoPush, CreationTyped, SlipsStay, cache,
     provider, Rid, Remote, Closed, NoRemote, Slip
<1>16. ASSUME NEW p \in Process, Retry(p) PROVE SlipsStay
  BY <1>0, <1>16 DEF Retry, GiveBack, Pushing, NoPush, Mine, Creating, Forgets, CreationTyped,
     SlipsStay, cache, provider, Rid, Remote, Closed, NoRemote, Slip
<1>17. ASSUME NEW p \in Process, RollBack(p) PROVE SlipsStay
  BY <1>0, <1>17 DEF RollBack, GiveBack, Pushing, NoPush, CreationTyped, SlipsStay, cache,
     provider, Rid, Remote, Closed, NoRemote, Slip
<1>18. ASSUME NEW p \in Process, Crash(p) PROVE SlipsStay
  BY <1>0, <1>18 DEF Crash, NoPush, NoPull, Mine, Creating, CreationTyped, SlipsStay, cache,
     provider, Rid, Remote, Closed, NoRemote, Slip
<1>19. ASSUME NEW p \in Puller, Fetch(p) PROVE SlipsStay
  BY <1>0, <1>19 DEF Fetch, NoPull, Pushing, Mine, CreationTyped, SlipsStay, cache, provider,
     Rid, Remote, Closed, NoRemote, Slip
<1>20. ASSUME NEW p \in Puller, NEW r \in Remote, LookUp(p, r) PROVE SlipsStay
  BY <1>0, <1>20 DEF LookUp, LookUpIf, Holder, CreationTyped, SlipsStay, cache, provider, Rid,
     Remote, Closed, NoRemote, Slip
<1>21. ASSUME NEW p \in Puller, SavePulled(p) PROVE SlipsStay
  BY <1>0, <1>21 DEF SavePulled, TakenFrom, NoPull, Listed, Absent, CreationTyped, SlipsStay,
     cache, provider, Rid, Remote, Closed, NoRemote, Slip
<1>22. ASSUME NEW p \in Puller, SaveImport(p) PROVE SlipsStay
  BY <1>0, <1>22 DEF SaveImport, NoPull, Listed, CreationTyped, SlipsStay, cache, provider,
     Rid, Remote, Closed, NoRemote, Slip
<1>23. ASSUME NEW p \in Puller, DropMissing(p) PROVE SlipsStay
  BY <1>0, <1>23 DEF DropMissing, NoPull, CreationTyped, SlipsStay, cache, provider, Rid,
     Remote, Closed, NoRemote, Slip
<1>24. ASSUME NEW p \in Puller, PullFails(p) PROVE SlipsStay
  BY <1>0, <1>24 DEF PullFails, NoPull, CreationTyped, SlipsStay, cache, provider, Rid,
     Remote, Closed, NoRemote, Slip
<1> QED
  BY <1>1, <1>2, <1>3, <1>4, <1>5, <1>6, <1>7, <1>8, <1>9, <1>10, <1>11, <1>12, <1>13, <1>14,
     <1>15, <1>16, <1>17, <1>18, <1>19, <1>20, <1>21, <1>22, <1>23, <1>24 DEF Next, UserStep,
     PushStep, PullStep, Fault

LEMMA MakerKept ==
  ASSUME CreationInv, Next
  PROVE  MakerGrows
<1>0. CreationTyped /\ Owned
  BY CreationAssumption DEF CreationInv
<1>1. ASSUME NEW t \in Task, CreateTask(t) PROVE MakerGrows
  BY <1>0, <1>1 DEF CreateTask, CreationTyped, MakerGrows, MadeFor, cache, provider, Rid,
     Remote, Closed, NoRemote, Slip
<1>2. ASSUME NEW t \in Task, BeginEdit(t) PROVE MakerGrows
  BY <1>0, <1>2 DEF BeginEdit, CreationTyped, MakerGrows, MadeFor, cache, provider, Rid,
     Remote, Closed, NoRemote, Slip
<1>3. ASSUME NEW t \in Task, SaveEdit(t) PROVE MakerGrows
  BY <1>0, <1>3 DEF SaveEdit, CreationTyped, MakerGrows, MadeFor, cache, provider, Rid,
     Remote, Closed, NoRemote, Slip
<1>4. ASSUME NEW t \in Task, SaveEditFails(t) PROVE MakerGrows
  BY <1>0, <1>4 DEF SaveEditFails, CreationTyped, MakerGrows, MadeFor, cache, provider, Rid,
     Remote, Closed, NoRemote, Slip
<1>5. ASSUME OthersCreate PROVE MakerGrows
  <2>1. /\ DOMAIN maker = 1..Len(maker) /\ DOMAIN Append(maker, Others) = 1..(Len(maker) + 1)
        /\ Len(maker) \in Nat /\ Len(Append(maker, Others)) = Len(maker) + 1
        /\ \A r \in 1..Len(maker) : Append(maker, Others)[r] = maker[r]
        /\ Append(maker, Others)[Len(maker) + 1] = Others
    BY <1>0 DEF CreationTyped
  <2> QED BY <1>5, <2>1, CreationAssumption DEF OthersCreate, MakerGrows, MadeFor
<1>6. ASSUME NEW r \in Remote, OthersDelete(r) PROVE MakerGrows
  BY <1>0, <1>6 DEF OthersDelete, CreationTyped, MakerGrows, MadeFor, cache, provider, Rid,
     Remote, Closed, NoRemote, Slip
<1>7. ASSUME NEW p \in Process, NEW t \in Task, Claim(p, t) PROVE MakerGrows
  BY <1>0, <1>7 DEF Claim, Pushing, Mine, NoPush, CreationTyped, MakerGrows, MadeFor, cache,
     provider, Rid, Remote, Closed, NoRemote, Slip
<1>8. ASSUME NEW p \in Process, RemoteCreate(p) PROVE MakerGrows
  <2>1. push[p] \in PushState /\ push[p].task \in Task
    BY <1>0, <1>8 DEF RemoteCreate, Pushing, Owned, CreationTyped, PushState
  <2>2. /\ DOMAIN maker = 1..Len(maker) /\ DOMAIN Append(maker, Mine(p)) = 1..(Len(maker) + 1)
        /\ Len(maker) \in Nat /\ Len(Append(maker, Mine(p))) = Len(maker) + 1
        /\ \A r \in 1..Len(maker) : Append(maker, Mine(p))[r] = maker[r]
        /\ Append(maker, Mine(p))[Len(maker) + 1] = Mine(p)
    BY <1>0, <2>1 DEF CreationTyped, Mine
  <2>3. maker' = Append(maker, Mine(p)) /\ live' = live \cup {Len(maker')}
    BY <1>8 DEF RemoteCreate
  <2>4. \A t \in Task, r \in Remote : MadeFor(t, r)' => MadeFor(t, r) \/ NewFor(t, r)
    BY <1>8, <2>2, <2>3 DEF MadeFor, NewFor, Mine
  <2> QED BY <2>2, <2>3, <2>4 DEF MakerGrows
<1>9. ASSUME NEW p \in Process, RemoteUpdate(p) PROVE MakerGrows
  BY <1>0, <1>9 DEF RemoteUpdate, Pushing, Mine, CreationTyped, MakerGrows, MadeFor, cache,
     provider, Rid, Remote, Closed, NoRemote, Slip
<1>10. ASSUME NEW p \in Process, StoreReply(p) PROVE MakerGrows
  BY <1>0, <1>10 DEF StoreReply, Mine, Absent, CreationTyped, MakerGrows, MadeFor, cache,
     provider, Rid, Remote, Closed, NoRemote, Slip
<1>11. ASSUME NEW p \in Process, SaveBase(p) PROVE MakerGrows
  BY <1>0, <1>11 DEF SaveBase, Pushing, Mine, Creating, CreationTyped, MakerGrows, MadeFor,
     cache, provider, Rid, Remote, Closed, NoRemote, Slip
<1>12. ASSUME NEW p \in Process, Complete(p) PROVE MakerGrows
  BY <1>0, <1>12 DEF Complete, Settle, Pushing, Mine, Creating, NoPush, CreationTyped,
     MakerGrows, MadeFor, cache, provider, Rid, Remote, Closed, NoRemote, Slip
<1>13. ASSUME NEW p \in Process, Reject(p) PROVE MakerGrows
  BY <1>0, <1>13 DEF Reject, Settle, Pushing, Mine, Creating, NoPush, TakenFrom,
     CreationTyped, MakerGrows, MadeFor, cache, provider, Rid, Remote, Closed, NoRemote, Slip
<1>14. ASSUME NEW p \in Process, Refuse(p) PROVE MakerGrows
  BY <1>0, <1>14 DEF Refuse, Settle, Pushing, Mine, Creating, NoPush, CreationTyped,
     MakerGrows, MadeFor, cache, provider, Rid, Remote, Closed, NoRemote, Slip
<1>15. ASSUME NEW p \in Process, Missing(p) PROVE MakerGrows
  BY <1>0, <1>15 DEF Missing, GiveBack, Pushing, NoPush, CreationTyped, MakerGrows, MadeFor,
     cache, provider, Rid, Remote, Closed, NoRemote, Slip
<1>16. ASSUME NEW p \in Process, Retry(p) PROVE MakerGrows
  BY <1>0, <1>16 DEF Retry, GiveBack, Pushing, NoPush, Mine, Creating, Forgets, CreationTyped,
     MakerGrows, MadeFor, cache, provider, Rid, Remote, Closed, NoRemote, Slip
<1>17. ASSUME NEW p \in Process, RollBack(p) PROVE MakerGrows
  BY <1>0, <1>17 DEF RollBack, GiveBack, Pushing, NoPush, CreationTyped, MakerGrows, MadeFor,
     cache, provider, Rid, Remote, Closed, NoRemote, Slip
<1>18. ASSUME NEW p \in Process, Crash(p) PROVE MakerGrows
  BY <1>0, <1>18 DEF Crash, NoPush, NoPull, Mine, Creating, CreationTyped, MakerGrows,
     MadeFor, cache, provider, Rid, Remote, Closed, NoRemote, Slip
<1>19. ASSUME NEW p \in Puller, Fetch(p) PROVE MakerGrows
  BY <1>0, <1>19 DEF Fetch, NoPull, Pushing, Mine, CreationTyped, MakerGrows, MadeFor, cache,
     provider, Rid, Remote, Closed, NoRemote, Slip
<1>20. ASSUME NEW p \in Puller, NEW r \in Remote, LookUp(p, r) PROVE MakerGrows
  BY <1>0, <1>20 DEF LookUp, LookUpIf, Holder, CreationTyped, MakerGrows, MadeFor, cache,
     provider, Rid, Remote, Closed, NoRemote, Slip
<1>21. ASSUME NEW p \in Puller, SavePulled(p) PROVE MakerGrows
  BY <1>0, <1>21 DEF SavePulled, TakenFrom, NoPull, Listed, Absent, CreationTyped, MakerGrows,
     MadeFor, cache, provider, Rid, Remote, Closed, NoRemote, Slip
<1>22. ASSUME NEW p \in Puller, SaveImport(p) PROVE MakerGrows
  BY <1>0, <1>22 DEF SaveImport, NoPull, Listed, CreationTyped, MakerGrows, MadeFor, cache,
     provider, Rid, Remote, Closed, NoRemote, Slip
<1>23. ASSUME NEW p \in Puller, DropMissing(p) PROVE MakerGrows
  BY <1>0, <1>23 DEF DropMissing, NoPull, CreationTyped, MakerGrows, MadeFor, cache, provider,
     Rid, Remote, Closed, NoRemote, Slip
<1>24. ASSUME NEW p \in Puller, PullFails(p) PROVE MakerGrows
  BY <1>0, <1>24 DEF PullFails, NoPull, CreationTyped, MakerGrows, MadeFor, cache, provider,
     Rid, Remote, Closed, NoRemote, Slip
<1> QED
  BY <1>1, <1>2, <1>3, <1>4, <1>5, <1>6, <1>7, <1>8, <1>9, <1>10, <1>11, <1>12, <1>13, <1>14,
     <1>15, <1>16, <1>17, <1>18, <1>19, <1>20, <1>21, <1>22, <1>23, <1>24 DEF Next, UserStep,
     PushStep, PullStep, Fault

LEMMA NamesKept ==
  ASSUME CreationInv, Next
  PROVE  NamesStay
<1>0. CreationTyped /\ Owned /\ QueueShape /\ PullShape /\ Puller \subseteq Process
  BY CreationAssumption DEF CreationInv
<1>1. ASSUME NEW t \in Task, CreateTask(t) PROVE NamesStay
  BY <1>0, <1>1 DEF CreateTask, CreationTyped, Owned, QueueShape, PullShape, NamesStay, Names,
     PushState, CreatedRow, PullState, Operation, cache, provider, Rid, Remote, Closed,
     NoRemote, Slip
<1>2. ASSUME NEW t \in Task, BeginEdit(t) PROVE NamesStay
  BY <1>0, <1>2 DEF BeginEdit, CreationTyped, Owned, QueueShape, PullShape, NamesStay, Names,
     PushState, CreatedRow, PullState, Operation, cache, provider, Rid, Remote, Closed,
     NoRemote, Slip
<1>3. ASSUME NEW t \in Task, SaveEdit(t) PROVE NamesStay
  BY <1>0, <1>3 DEF SaveEdit, CreationTyped, Owned, QueueShape, PullShape, NamesStay, Names,
     PushState, CreatedRow, PullState, Operation, cache, provider, Rid, Remote, Closed,
     NoRemote, Slip
<1>4. ASSUME NEW t \in Task, SaveEditFails(t) PROVE NamesStay
  BY <1>0, <1>4 DEF SaveEditFails, CreationTyped, Owned, QueueShape, PullShape, NamesStay,
     Names, PushState, CreatedRow, PullState, Operation, cache, provider, Rid, Remote, Closed,
     NoRemote, Slip
<1>5. ASSUME OthersCreate PROVE NamesStay
  BY <1>0, <1>5 DEF OthersCreate, CreationTyped, Owned, QueueShape, PullShape, NamesStay,
     Names, PushState, CreatedRow, PullState, Operation, cache, provider, Rid, Remote, Closed,
     NoRemote, Slip
<1>6. ASSUME NEW r \in Remote, OthersDelete(r) PROVE NamesStay
  BY <1>0, <1>6 DEF OthersDelete, CreationTyped, Owned, QueueShape, PullShape, NamesStay,
     Names, PushState, CreatedRow, PullState, Operation, cache, provider, Rid, Remote, Closed,
     NoRemote, Slip
<1>7. ASSUME NEW p \in Process, NEW t \in Task, Claim(p, t) PROVE NamesStay
  BY <1>0, <1>7 DEF Claim, Pushing, Mine, NoPush, CreationTyped, Owned, QueueShape, PullShape,
     NamesStay, Names, PushState, CreatedRow, PullState, Operation, cache, provider, Rid,
     Remote, Closed, NoRemote, Slip
<1>8. ASSUME NEW p \in Process, RemoteCreate(p) PROVE NamesStay
  <2>1. /\ push'[p].task = push[p].task /\ \A q \in Process : q # p => push'[q] = push[q]
        /\ push'[p].got = Len(maker')
    BY <1>0, <1>8, ReplyNoted
  <2>2. UNCHANGED <<row, editor, memory, queue, pull>>
    BY <1>8 DEF RemoteCreate, cache
  <2> QED BY <1>8, <2>1, <2>2 DEF NamesStay, Names, NewFor
<1>9. ASSUME NEW p \in Process, RemoteUpdate(p) PROVE NamesStay
  <2>1. /\ push'[p].task = push[p].task /\ \A q \in Process : q # p => push'[q] = push[q]
        /\ push'[p].got = Target(p, Mine(p))
    BY <1>0, <1>9, ReplyNoted
  <2>2. UNCHANGED <<row, editor, memory, queue, pull>>
    BY <1>9 DEF RemoteUpdate, cache
  <2>3. push[p].task \in Task => Head(queue[push[p].task]) = queue[push[p].task][1] /\ 1 \in DOMAIN queue[push[p].task]
    BY <1>0, <1>9 DEF Owned, CreationTyped, Pushing, RemoteUpdate
  <2>4. \A t \in Task, s \in Remote : push[p].task = t /\ Target(p, Mine(p)) = s => Names(t, s)
    BY <2>3 DEF Target, Mine, Names, Remote, NoRemote
  <2> QED BY <2>1, <2>2, <2>4 DEF NamesStay, Names
<1>10. ASSUME NEW p \in Process, StoreReply(p) PROVE NamesStay
  BY <1>0, <1>10 DEF StoreReply, Mine, Absent, CreationTyped, Owned, QueueShape, PullShape,
     NamesStay, Names, PushState, CreatedRow, PullState, Operation, cache, provider, Rid,
     Remote, Closed, NoRemote, Slip
<1>11. ASSUME NEW p \in Process, SaveBase(p) PROVE NamesStay
  BY <1>0, <1>11 DEF SaveBase, Pushing, Mine, Creating, CreationTyped, Owned, QueueShape,
     PullShape, NamesStay, Names, PushState, CreatedRow, PullState, Operation, cache,
     provider, Rid, Remote, Closed, NoRemote, Slip
<1>12. ASSUME NEW p \in Process, Complete(p) PROVE NamesStay
  BY <1>0, <1>12 DEF Complete, Settle, Pushing, Mine, Creating, NoPush, CreationTyped, Owned,
     QueueShape, PullShape, NamesStay, Names, PushState, CreatedRow, PullState, Operation,
     cache, provider, Rid, Remote, Closed, NoRemote, Slip
<1>13. ASSUME NEW p \in Process, Reject(p) PROVE NamesStay
  BY <1>0, <1>13 DEF Reject, Settle, Pushing, Mine, Creating, NoPush, TakenFrom,
     CreationTyped, Owned, QueueShape, PullShape, NamesStay, Names, PushState, CreatedRow,
     PullState, Operation, cache, provider, Rid, Remote, Closed, NoRemote, Slip
<1>14. ASSUME NEW p \in Process, Refuse(p) PROVE NamesStay
  BY <1>0, <1>14 DEF Refuse, Settle, Pushing, Mine, Creating, NoPush, CreationTyped, Owned,
     QueueShape, PullShape, NamesStay, Names, PushState, CreatedRow, PullState, Operation,
     cache, provider, Rid, Remote, Closed, NoRemote, Slip
<1>15. ASSUME NEW p \in Process, Missing(p) PROVE NamesStay
  BY <1>0, <1>15 DEF Missing, GiveBack, Pushing, NoPush, CreationTyped, Owned, QueueShape,
     PullShape, NamesStay, Names, PushState, CreatedRow, PullState, Operation, cache,
     provider, Rid, Remote, Closed, NoRemote, Slip
<1>16. ASSUME NEW p \in Process, Retry(p) PROVE NamesStay
  BY <1>0, <1>16 DEF Retry, GiveBack, Pushing, NoPush, Mine, Creating, Forgets, CreationTyped,
     Owned, QueueShape, PullShape, NamesStay, Names, PushState, CreatedRow, PullState,
     Operation, cache, provider, Rid, Remote, Closed, NoRemote, Slip
<1>17. ASSUME NEW p \in Process, RollBack(p) PROVE NamesStay
  BY <1>0, <1>17 DEF RollBack, GiveBack, Pushing, NoPush, CreationTyped, Owned, QueueShape,
     PullShape, NamesStay, Names, PushState, CreatedRow, PullState, Operation, cache,
     provider, Rid, Remote, Closed, NoRemote, Slip
<1>18. ASSUME NEW p \in Process, Crash(p) PROVE NamesStay
  BY <1>0, <1>18 DEF Crash, NoPush, NoPull, Mine, Creating, CreationTyped, Owned, QueueShape,
     PullShape, NamesStay, Names, PushState, CreatedRow, PullState, Operation, cache,
     provider, Rid, Remote, Closed, NoRemote, Slip
<1>19. ASSUME NEW p \in Puller, Fetch(p) PROVE NamesStay
  BY <1>0, <1>19 DEF Fetch, NoPull, Pushing, Mine, CreationTyped, Owned, QueueShape,
     PullShape, NamesStay, Names, PushState, CreatedRow, PullState, Operation, cache,
     provider, Rid, Remote, Closed, NoRemote, Slip
<1>20. ASSUME NEW p \in Puller, NEW r \in Remote, LookUp(p, r) PROVE NamesStay
  <2>1. UNCHANGED <<row, editor, memory, queue, push>>
    BY <1>0, <1>20, LookUpChanges DEF cache
  <2>2. \A t \in Task : \A s \in Remote : \A q \in Puller :
           pull'[q].found = t /\ pull'[q].id = s =>
             (pull[q].found = t /\ pull[q].id = s) \/ row[t].remote = s
    BY <1>0, <1>20, LookUpChanges, CreationAssumption
  <2> QED BY <2>1, <2>2 DEF NamesStay, Names
<1>21. ASSUME NEW p \in Puller, SavePulled(p) PROVE NamesStay
  <2>1. pull[p] \in PullState /\ pull \in [Puller -> PullState] /\ row \in [Task -> CreatedRow]
    BY <1>0 DEF CreationTyped
  <2>a. Listed(p).found = Others /\ NoPull.found = Others
    BY <2>1 DEF Listed, PullState, NoPull
  <2>b. pull'[p] = NoPull \/ pull'[p] = Listed(p)
    BY <1>21, <2>1 DEF SavePulled
  <2>c. \A q \in Puller : q # p => pull'[q] = pull[q]
    BY <1>21, <2>1 DEF SavePulled
  <2>2. /\ \A q \in Puller : pull'[q] = pull[q] \/ pull'[q].found = Others
        /\ UNCHANGED <<editor, memory, queue, push>>
    BY <1>21, <2>a, <2>b, <2>c DEF SavePulled
  <2>3. pull[p].found \in Task
    BY <1>21, <2>1 DEF SavePulled, PullState
  <2>4. \A t \in Task :
         row'[t] = row[t] \/ (t = pull[p].found /\ row'[t].remote = pull[p].id)
    <3>1. CASE row' = row
      BY <3>1
    <3>2. CASE row' = [row EXCEPT ![pull[p].found] = [Absent EXCEPT !.remote = pull[p].id]]
      BY <2>1, <2>3, <3>2 DEF Absent
    <3> QED BY <1>21, <3>1, <3>2 DEF SavePulled
  <2> QED BY <2>2, <2>4, CreationAssumption DEF NamesStay, Names
<1>22. ASSUME NEW p \in Puller, SaveImport(p) PROVE NamesStay
  <2>1. pull[p] \in PullState /\ pull \in [Puller -> PullState]
    BY <1>0 DEF CreationTyped
  <2>a. Listed(p).found = Others /\ NoPull.found = Others
    BY <2>1 DEF Listed, PullState, NoPull
  <2>b. pull'[p] = NoPull \/ pull'[p] = Listed(p)
    BY <1>22, <2>1 DEF SaveImport
  <2>c. \A q \in Puller : q # p => pull'[q] = pull[q]
    BY <1>22, <2>1 DEF SaveImport
  <2>2. /\ \A q \in Puller : pull'[q] = pull[q] \/ pull'[q].found = Others
        /\ UNCHANGED <<editor, memory, queue, push, row>>
    BY <1>22, <2>a, <2>b, <2>c DEF SaveImport
  <2> QED BY <2>2, CreationAssumption DEF NamesStay, Names
<1>23. ASSUME NEW p \in Puller, DropMissing(p) PROVE NamesStay
  BY <1>0, <1>23 DEF DropMissing, NoPull, CreationTyped, Owned, QueueShape, PullShape,
     NamesStay, Names, PushState, CreatedRow, PullState, Operation, cache, provider, Rid,
     Remote, Closed, NoRemote, Slip
<1>24. ASSUME NEW p \in Puller, PullFails(p) PROVE NamesStay
  BY <1>0, <1>24 DEF PullFails, NoPull, CreationTyped, Owned, QueueShape, PullShape,
     NamesStay, Names, PushState, CreatedRow, PullState, Operation, cache, provider, Rid,
     Remote, Closed, NoRemote, Slip
<1> QED
  BY <1>1, <1>2, <1>3, <1>4, <1>5, <1>6, <1>7, <1>8, <1>9, <1>10, <1>11, <1>12, <1>13, <1>14,
     <1>15, <1>16, <1>17, <1>18, <1>19, <1>20, <1>21, <1>22, <1>23, <1>24 DEF Next, UserStep,
     PushStep, PullStep, Fault

LEMMA BearsKept ==
  ASSUME CreationInv, Next
  PROVE  BearsStay
<1>1. NamesStay /\ MakerGrows
  BY NamesKept, MakerKept
<1>2. \A r \in Remote : r \in live' => r \in live \/ r = Len(maker')
  BY <1>1 DEF MakerGrows
<1>3. CreationTyped
  BY DEF CreationInv
<1>4. ASSUME NEW t \in Task, NEW r \in Remote, r \in live', MadeFor(t, r)'
      PROVE  Bears(t, r) \/ NewFor(t, r)
  <2>1. MadeFor(t, r) \/ NewFor(t, r)
    BY <1>1, <1>4 DEF MakerGrows
  <2>2. r \in live \/ ~MadeFor(t, r)
    BY <1>1, <1>3, <1>4 DEF MakerGrows, MadeFor
  <2> QED BY <2>1, <2>2 DEF Bears
<1> QED BY <1>1, <1>4 DEF BearsStay, Bears, NamesStay

\* The remote task made for a task is its first one, unless something was lost.
LEMMA FirstOfItsTask ==
  ASSUME CreationInv, NEW p \in Process, RemoteCreate(p)
  PROVE  /\ push[p].task \in Task /\ outcome[push[p].task] = "queued"
         /\ memory[p][push[p].task] = NoRemote
         /\ "lost" \notin slips'[push[p].task] =>
              /\ "lost" \notin slips[push[p].task]
              /\ \A q \in Process : memory[q][push[p].task] = NoRemote
              /\ \A r \in Remote : ~Bears(push[p].task, r)
<1>0. CreationTyped /\ Owned /\ QueueShape /\ KnownWhileQueued
  BY DEF CreationInv
<1>1. push[p] \in PushState /\ push[p].at = "claimed" /\ push[p].task \in Task
  BY <1>0 DEF RemoteCreate, Pushing, Owned, CreationTyped, PushState
<1>2. /\ Head(queue[push[p].task]) = queue[push[p].task][1] /\ 1 \in DOMAIN queue[push[p].task]
  BY <1>0, <1>1 DEF Owned, CreationTyped
<1>3. outcome[push[p].task] = "queued"
  BY <1>0, <1>1, <1>2 DEF RemoteCreate, Creating, Mine, QueueShape
<1>4. memory[p][push[p].task] = NoRemote
  BY <1>2 DEF RemoteCreate, Target, Mine
<1>5. ASSUME "lost" \notin slips'[push[p].task]
      PROVE  /\ "lost" \notin slips[push[p].task]
             /\ \A q \in Process : memory[q][push[p].task] = NoRemote
  BY <1>0, <1>1, <1>5 DEF RemoteCreate, Mine, CreationTyped
<1>6. ASSUME "lost" \notin slips'[push[p].task]
      PROVE  \A r \in Remote : ~Bears(push[p].task, r)
  <2>1. ~Remembered(push[p].task)
    BY <1>0, <1>1, <1>5, <1>6 DEF Remembered, Owned
  <2> QED BY <1>0, <1>1, <1>3, <1>5, <1>6, <2>1 DEF KnownWhileQueued
<1> QED BY <1>1, <1>3, <1>4, <1>5, <1>6

LEMMA NamedKept ==
  ASSUME CreationInv, Next
  PROVE  NamedIsMade'
<1>1. NamesStay /\ MakerGrows /\ NamedIsMade /\ CreationTyped
  BY NamesKept, MakerKept DEF CreationInv
<1>2. ASSUME NEW t \in Task, NEW r \in Remote, Names(t, r)'
      PROVE  MadeFor(t, r)'
  <2>1. CASE Names(t, r)
    <3>1. MadeFor(t, r)
      BY <1>1, <2>1 DEF NamedIsMade
    <3> QED BY <1>1, <3>1 DEF MadeFor, MakerGrows
  <2>2. CASE NewFor(t, r)
    <3>1. PICK p \in Process : RemoteCreate(p) /\ push[p].task = t /\ r = Len(maker')
      BY <2>2 DEF NewFor
    <3>2. maker' = Append(maker, t)
      BY <3>1 DEF RemoteCreate, Mine
    <3> QED BY <1>1, <3>1, <3>2 DEF MadeFor, CreationTyped
  <2> QED BY <1>1, <1>2, <2>1, <2>2 DEF NamesStay
<1> QED BY <1>2 DEF NamedIsMade

LEMMA OutcomesStay ==
  ASSUME CreationInv, Next
  PROVE  \A t \in Task : outcome[t] # "none" => outcome'[t] # "none"
<1>0. CreationTyped /\ Owned
  BY CreationAssumption DEF CreationInv
<1>1. ASSUME NEW t \in Task, CreateTask(t) PROVE \A v \in Task : outcome[v] # "none" => outcome'[v] # "none"
  BY <1>0, <1>1 DEF CreateTask, CreationTyped, cache, provider, Rid, Remote, Closed, NoRemote,
     Slip
<1>2. ASSUME NEW t \in Task, BeginEdit(t) PROVE \A v \in Task : outcome[v] # "none" => outcome'[v] # "none"
  BY <1>0, <1>2 DEF BeginEdit, CreationTyped, cache, provider, Rid, Remote, Closed, NoRemote,
     Slip
<1>3. ASSUME NEW t \in Task, SaveEdit(t) PROVE \A v \in Task : outcome[v] # "none" => outcome'[v] # "none"
  BY <1>0, <1>3 DEF SaveEdit, CreationTyped, cache, provider, Rid, Remote, Closed, NoRemote,
     Slip
<1>4. ASSUME NEW t \in Task, SaveEditFails(t) PROVE \A v \in Task : outcome[v] # "none" => outcome'[v] # "none"
  BY <1>0, <1>4 DEF SaveEditFails, CreationTyped, cache, provider, Rid, Remote, Closed,
     NoRemote, Slip
<1>5. ASSUME OthersCreate PROVE \A t \in Task : outcome[t] # "none" => outcome'[t] # "none"
  BY <1>0, <1>5 DEF OthersCreate, CreationTyped, cache, provider, Rid, Remote, Closed,
     NoRemote, Slip
<1>6. ASSUME NEW r \in Remote, OthersDelete(r) PROVE \A t \in Task : outcome[t] # "none" => outcome'[t] # "none"
  BY <1>0, <1>6 DEF OthersDelete, CreationTyped, cache, provider, Rid, Remote, Closed,
     NoRemote, Slip
<1>7. ASSUME NEW p \in Process, NEW t \in Task, Claim(p, t) PROVE \A v \in Task : outcome[v] # "none" => outcome'[v] # "none"
  BY <1>0, <1>7 DEF Claim, Pushing, Mine, NoPush, CreationTyped, cache, provider, Rid, Remote,
     Closed, NoRemote, Slip
<1>8. ASSUME NEW p \in Process, RemoteCreate(p) PROVE \A t \in Task : outcome[t] # "none" => outcome'[t] # "none"
  BY <1>0, <1>8 DEF RemoteCreate, Pushing, Mine, Creating, CreationTyped, cache, provider,
     Rid, Remote, Closed, NoRemote, Slip
<1>9. ASSUME NEW p \in Process, RemoteUpdate(p) PROVE \A t \in Task : outcome[t] # "none" => outcome'[t] # "none"
  BY <1>0, <1>9 DEF RemoteUpdate, Pushing, Mine, CreationTyped, cache, provider, Rid, Remote,
     Closed, NoRemote, Slip
<1>10. ASSUME NEW p \in Process, StoreReply(p) PROVE \A t \in Task : outcome[t] # "none" => outcome'[t] # "none"
  BY <1>0, <1>10 DEF StoreReply, Mine, Absent, CreationTyped, cache, provider, Rid, Remote,
     Closed, NoRemote, Slip
<1>11. ASSUME NEW p \in Process, SaveBase(p) PROVE \A t \in Task : outcome[t] # "none" => outcome'[t] # "none"
  BY <1>0, <1>11 DEF SaveBase, Pushing, Mine, Creating, CreationTyped, cache, provider, Rid,
     Remote, Closed, NoRemote, Slip
<1>12. ASSUME NEW p \in Process, Complete(p) PROVE \A t \in Task : outcome[t] # "none" => outcome'[t] # "none"
  BY <1>0, <1>12 DEF Complete, Settle, Pushing, Mine, Creating, NoPush, CreationTyped, cache,
     provider, Rid, Remote, Closed, NoRemote, Slip
<1>13. ASSUME NEW p \in Process, Reject(p) PROVE \A t \in Task : outcome[t] # "none" => outcome'[t] # "none"
  BY <1>0, <1>13 DEF Reject, Settle, Pushing, Mine, Creating, NoPush, TakenFrom,
     CreationTyped, cache, provider, Rid, Remote, Closed, NoRemote, Slip
<1>14. ASSUME NEW p \in Process, Refuse(p) PROVE \A t \in Task : outcome[t] # "none" => outcome'[t] # "none"
  BY <1>0, <1>14 DEF Refuse, Settle, Pushing, Mine, Creating, NoPush, CreationTyped, cache,
     provider, Rid, Remote, Closed, NoRemote, Slip
<1>15. ASSUME NEW p \in Process, Missing(p) PROVE \A t \in Task : outcome[t] # "none" => outcome'[t] # "none"
  BY <1>0, <1>15 DEF Missing, GiveBack, Pushing, NoPush, CreationTyped, cache, provider, Rid,
     Remote, Closed, NoRemote, Slip
<1>16. ASSUME NEW p \in Process, Retry(p) PROVE \A t \in Task : outcome[t] # "none" => outcome'[t] # "none"
  BY <1>0, <1>16 DEF Retry, GiveBack, Pushing, NoPush, Mine, Creating, Forgets, CreationTyped,
     cache, provider, Rid, Remote, Closed, NoRemote, Slip
<1>17. ASSUME NEW p \in Process, RollBack(p) PROVE \A t \in Task : outcome[t] # "none" => outcome'[t] # "none"
  BY <1>0, <1>17 DEF RollBack, GiveBack, Pushing, NoPush, CreationTyped, cache, provider, Rid,
     Remote, Closed, NoRemote, Slip
<1>18. ASSUME NEW p \in Process, Crash(p) PROVE \A t \in Task : outcome[t] # "none" => outcome'[t] # "none"
  BY <1>0, <1>18 DEF Crash, NoPush, NoPull, Mine, Creating, CreationTyped, cache, provider,
     Rid, Remote, Closed, NoRemote, Slip
<1>19. ASSUME NEW p \in Puller, Fetch(p) PROVE \A t \in Task : outcome[t] # "none" => outcome'[t] # "none"
  BY <1>0, <1>19 DEF Fetch, NoPull, Pushing, Mine, CreationTyped, cache, provider, Rid,
     Remote, Closed, NoRemote, Slip
<1>20. ASSUME NEW p \in Puller, NEW r \in Remote, LookUp(p, r) PROVE \A t \in Task : outcome[t] # "none" => outcome'[t] # "none"
  BY <1>0, <1>20, LookUpChanges
<1>21. ASSUME NEW p \in Puller, SavePulled(p) PROVE \A t \in Task : outcome[t] # "none" => outcome'[t] # "none"
  BY <1>0, <1>21 DEF SavePulled, TakenFrom, NoPull, Listed, Absent, CreationTyped, cache,
     provider, Rid, Remote, Closed, NoRemote, Slip
<1>22. ASSUME NEW p \in Puller, SaveImport(p) PROVE \A t \in Task : outcome[t] # "none" => outcome'[t] # "none"
  BY <1>0, <1>22 DEF SaveImport, NoPull, Listed, CreationTyped, cache, provider, Rid, Remote,
     Closed, NoRemote, Slip
<1>23. ASSUME NEW p \in Puller, DropMissing(p) PROVE \A t \in Task : outcome[t] # "none" => outcome'[t] # "none"
  BY <1>0, <1>23 DEF DropMissing, NoPull, CreationTyped, cache, provider, Rid, Remote, Closed,
     NoRemote, Slip
<1>24. ASSUME NEW p \in Puller, PullFails(p) PROVE \A t \in Task : outcome[t] # "none" => outcome'[t] # "none"
  BY <1>0, <1>24 DEF PullFails, NoPull, CreationTyped, cache, provider, Rid, Remote, Closed,
     NoRemote, Slip
<1> QED
  BY <1>1, <1>2, <1>3, <1>4, <1>5, <1>6, <1>7, <1>8, <1>9, <1>10, <1>11, <1>12, <1>13, <1>14,
     <1>15, <1>16, <1>17, <1>18, <1>19, <1>20, <1>21, <1>22, <1>23, <1>24 DEF Next, UserStep,
     PushStep, PullStep, Fault

LEMMA OnDemandKept ==
  ASSUME CreationInv, Next
  PROVE  MadeOnDemand'
<1>1. MakerGrows /\ MadeOnDemand /\ CreationTyped
  BY MakerKept DEF CreationInv
<1>2. \A t \in Task : outcome[t] # "none" => outcome'[t] # "none"
  BY OutcomesStay
<1>3. ASSUME NEW t \in Task, NEW r \in Remote, NewFor(t, r)
      PROVE  outcome[t] # "none"
  BY <1>3, FirstOfItsTask DEF NewFor
<1>4. ASSUME NEW t \in Task, NEW r \in Remote, MadeFor(t, r)'
      PROVE  outcome'[t] # "none"
  <2>1. MadeFor(t, r) \/ NewFor(t, r)
    BY <1>1, <1>4 DEF MakerGrows
  <2> QED BY <1>1, <1>2, <1>3, <2>1 DEF MadeOnDemand
<1> QED BY <1>4 DEF MadeOnDemand

LEMMA OneIdentityKept ==
  ASSUME CreationInv, Next
  PROVE  OneIdentity'
<1>1. SlipsStay /\ BearsStay /\ OneIdentity
  BY SlipsKept, BearsKept DEF CreationInv
<1>2. ASSUME NEW t \in Task, "lost" \notin slips'[t],
             NEW r \in Remote, NEW s \in Remote, Bears(t, r)', Bears(t, s)'
      PROVE  r = s
  <2>1. "lost" \notin slips[t]
    BY <1>1, <1>2 DEF SlipsStay
  <2>2. CASE \E p \in Process : RemoteCreate(p) /\ push[p].task = t
    <3>1. \A u \in Remote : ~Bears(t, u)
      BY <1>2, <2>2, FirstOfItsTask
    <3> QED BY <1>1, <1>2, <3>1 DEF BearsStay, NewFor
  <2>3. CASE ~ \E p \in Process : RemoteCreate(p) /\ push[p].task = t
    <3>1. Bears(t, r) /\ Bears(t, s)
      BY <1>1, <1>2, <2>3 DEF BearsStay, NewFor
    <3> QED BY <1>1, <2>1, <3>1 DEF OneIdentity
  <2> QED BY <2>2, <2>3
<1> QED BY <1>2 DEF OneIdentity

-----------------------------------------------------------------------------
(* What is remembered of a create that waits.                                 *)

\* The create is pushed while it is queued, and only then.
LEMMA CreatingIsQueued ==
  ASSUME CreationTyped, Owned, QueueShape, NEW p \in Process, push[p].task # Others
  PROVE  push[p].task \in Task /\ (Creating(p) <=> outcome[push[p].task] = "queued")
<1>1. push[p] \in PushState /\ push[p].task \in Task
  BY DEF CreationTyped, PushState
<1>2. Head(queue[push[p].task]) = queue[push[p].task][1] /\ 1 \in DOMAIN queue[push[p].task]
  BY <1>1 DEF Owned, CreationTyped
<1> QED BY <1>1, <1>2 DEF QueueShape, Creating, Mine

MemoryStays ==
  \A t \in Task :
    /\ outcome[t] = "queued" /\ outcome'[t] = "queued" /\ "lost" \notin slips'[t]
    /\ \E r \in Remote : Bears(t, r)'
    /\ Remembered(t)
    => Remembered(t)'

LEMMA MemoryKept ==
  ASSUME CreationInv, Next
  PROVE  MemoryStays
<1>0. CreationTyped /\ Owned /\ QueueShape /\ CreatedIsFresh /\ OneIdentity /\ NamedIsMade
  BY CreationAssumption DEF CreationInv
<1>1. ASSUME NEW t \in Task, CreateTask(t) PROVE MemoryStays
  BY <1>0, <1>1 DEF CreateTask, CreationTyped, Owned, MemoryStays, Remembered, PushState,
     cache, provider, Rid, Remote, Closed, NoRemote, Slip
<1>2. ASSUME NEW t \in Task, BeginEdit(t) PROVE MemoryStays
  BY <1>0, <1>2 DEF BeginEdit, CreationTyped, Owned, MemoryStays, Remembered, PushState,
     cache, provider, Rid, Remote, Closed, NoRemote, Slip
<1>3. ASSUME NEW t \in Task, SaveEdit(t) PROVE MemoryStays
  BY <1>0, <1>3 DEF SaveEdit, CreationTyped, Owned, MemoryStays, Remembered, PushState, cache,
     provider, Rid, Remote, Closed, NoRemote, Slip
<1>4. ASSUME NEW t \in Task, SaveEditFails(t) PROVE MemoryStays
  BY <1>0, <1>4 DEF SaveEditFails, CreationTyped, Owned, MemoryStays, Remembered, PushState,
     cache, provider, Rid, Remote, Closed, NoRemote, Slip
<1>5. ASSUME OthersCreate PROVE MemoryStays
  BY <1>0, <1>5 DEF OthersCreate, CreationTyped, Owned, MemoryStays, Remembered, PushState,
     cache, provider, Rid, Remote, Closed, NoRemote, Slip
<1>6. ASSUME NEW r \in Remote, OthersDelete(r) PROVE MemoryStays
  BY <1>0, <1>6 DEF OthersDelete, CreationTyped, Owned, MemoryStays, Remembered, PushState,
     cache, provider, Rid, Remote, Closed, NoRemote, Slip
<1>7. ASSUME NEW p \in Process, NEW t \in Task, Claim(p, t) PROVE MemoryStays
  BY <1>0, <1>7 DEF Claim, Pushing, Mine, NoPush, CreationTyped, Owned, MemoryStays,
     Remembered, PushState, cache, provider, Rid, Remote, Closed, NoRemote, Slip
<1>8. ASSUME NEW p \in Process, RemoteCreate(p) PROVE MemoryStays
  BY <1>0, <1>8, ReplyNoted DEF RemoteCreate, Pushing, MemoryStays, Remembered
<1>9. ASSUME NEW p \in Process, RemoteUpdate(p) PROVE MemoryStays
  BY <1>0, <1>9, ReplyNoted DEF RemoteUpdate, Pushing, MemoryStays, Remembered
<1>10. ASSUME NEW p \in Process, StoreReply(p) PROVE MemoryStays
  BY <1>0, <1>10 DEF StoreReply, Mine, Absent, CreationTyped, Owned, MemoryStays, Remembered,
     PushState, cache, provider, Rid, Remote, Closed, NoRemote, Slip
<1>11. ASSUME NEW p \in Process, SaveBase(p) PROVE MemoryStays
  <2>1. push[p].task # Others /\ push[p].task \in Task /\ push[p].got # NoRemote
    BY <1>0, <1>11 DEF SaveBase, Owned, Pushing, CreationTyped, PushState
  <2>2. Creating(p) <=> outcome[push[p].task] = "queued"
    BY <1>0, <2>1, CreatingIsQueued
  <2>3. \A t \in Task : \A q \in Process : memory[q][t] # NoRemote => memory'[q][t] # NoRemote
    BY <1>0, <1>11, <2>1 DEF SaveBase, CreationTyped, Mine
  <2>4. outcome[push[p].task] = "queued" => memory'[p][push[p].task] # NoRemote
    BY <1>0, <1>11, <2>1, <2>2 DEF SaveBase, CreationTyped, Mine
  <2>5. \A q \in Process : q # p => push'[q] = push[q]
    BY <1>0, <1>11 DEF SaveBase, CreationTyped
  <2> QED BY <2>3, <2>4, <2>5 DEF MemoryStays, Remembered
<1>12. ASSUME NEW p \in Process, Complete(p) PROVE MemoryStays
  <2>1. push[p].task # Others /\ push[p].task \in Task
    BY <1>0, <1>12 DEF Complete, Owned, Pushing, CreationTyped, PushState
  <2>2. Creating(p) <=> outcome[push[p].task] = "queued"
    BY <1>0, <2>1, CreatingIsQueued
  <2>3. outcome'[push[p].task] # "queued" \/ outcome[push[p].task] # "queued"
    BY <1>0, <1>12, <2>1, <2>2 DEF Complete, Settle, Mine, CreationTyped
  <2>4. memory' = memory /\ \A q \in Process : q # p => push'[q] = push[q]
    BY <1>0, <1>12 DEF Complete, Settle, CreationTyped
  <2> QED BY <2>3, <2>4 DEF MemoryStays, Remembered
<1>13. ASSUME NEW p \in Process, Reject(p) PROVE MemoryStays
  <2>1. push[p].task # Others /\ push[p].task \in Task
    BY <1>0, <1>13 DEF Reject, Owned, Pushing, CreationTyped, PushState
  <2>2. Creating(p) <=> outcome[push[p].task] = "queued"
    BY <1>0, <2>1, CreatingIsQueued
  <2>3. outcome'[push[p].task] # "queued" \/ outcome[push[p].task] # "queued"
    BY <1>0, <1>13, <2>1, <2>2 DEF Reject, Settle, Mine, CreationTyped
  <2>4. memory' = memory /\ \A q \in Process : q # p => push'[q] = push[q]
    BY <1>0, <1>13 DEF Reject, Settle, CreationTyped
  <2> QED BY <2>3, <2>4 DEF MemoryStays, Remembered
<1>14. ASSUME NEW p \in Process, Refuse(p) PROVE MemoryStays
  <2>1. push[p].task # Others /\ push[p].task \in Task
    BY <1>0, <1>14 DEF Refuse, Owned, Pushing, CreationTyped, PushState
  <2>2. Creating(p) <=> outcome[push[p].task] = "queued"
    BY <1>0, <2>1, CreatingIsQueued
  <2>3. outcome'[push[p].task] # "queued" \/ outcome[push[p].task] # "queued"
    BY <1>0, <1>14, <2>1, <2>2 DEF Refuse, Settle, Mine, CreationTyped
  <2>4. memory' = memory /\ \A q \in Process : q # p => push'[q] = push[q]
    BY <1>0, <1>14 DEF Refuse, Settle, CreationTyped
  <2> QED BY <2>3, <2>4 DEF MemoryStays, Remembered
<1>15. ASSUME NEW p \in Process, Missing(p) PROVE MemoryStays
  BY <1>0, <1>15 DEF Missing, GiveBack, Pushing, NoPush, CreationTyped, Owned, MemoryStays,
     Remembered, PushState, cache, provider, Rid, Remote, Closed, NoRemote, Slip
<1>16. ASSUME NEW p \in Process, Retry(p) PROVE MemoryStays
  <2>1. push[p].task # Others /\ push[p].task \in Task
    BY <1>0, <1>16 DEF Retry, Owned, Pushing, CreationTyped, PushState
  <2>2. Creating(p) <=> outcome[push[p].task] = "queued"
    BY <1>0, <2>1, CreatingIsQueued
  <2>3. memory' = memory /\ \A q \in Process : q # p => push'[q] = push[q]
    BY <1>0, <1>16 DEF Retry, GiveBack, CreationTyped
  <2>4. push[p].at \in {"created", "stored"} /\ Creating(p) /\ memory[p][push[p].task] = NoRemote
          => "lost" \in slips'[push[p].task]
    BY <1>0, <1>16, <2>1 DEF Retry, Forgets, Mine, CreationTyped
  <2> QED BY <2>2, <2>3, <2>4 DEF MemoryStays, Remembered
<1>17. ASSUME NEW p \in Process, RollBack(p) PROVE MemoryStays
  <2>1. push[p].task # Others /\ push[p].task \in Task /\ push[p].got \in Remote
    BY <1>0, <1>17 DEF RollBack, Owned, Pushing, CreationTyped, PushState, Rid
  <2>2. /\ UNCHANGED <<row, memory, slips, queue, outcome, maker, pull, editor>>
        /\ live' = live \ {push[p].got}
        /\ \A q \in Process : q # p => push'[q] = push[q]
        /\ push'[p] = NoPush
    BY <1>0, <1>17 DEF RollBack, GiveBack, CreationTyped
  <2>7. PICK u \in Task : u = push[p].task
    BY <2>1
  <2>3. SUFFICES ASSUME "lost" \notin slips[u], NEW r \in Remote, Bears(u, r)'
                 PROVE  FALSE
    BY <2>1, <2>2, <2>7 DEF MemoryStays, Remembered
  <2>4. \A q \in Process : q # p => push[q].task # push[p].task
    BY <1>0, <2>1 DEF Owned
  <2>5. NoTrace(u)
    BY <1>0, <1>17, <2>3, <2>7 DEF CreatedIsFresh, RollBack, Pushing
  <2>6. r # NoRemote /\ r # Closed
    BY DEF Remote, NoRemote, Closed
  <2>8. ~Names(u, r)'
    BY <2>1, <2>2, <2>4, <2>5, <2>6, <2>7 DEF Names, NoPush, NoTrace
  <2>9. r \in live /\ r # push[p].got /\ MadeFor(u, r)
    BY <2>2, <2>3, <2>7, <2>8 DEF Bears, MadeFor
  <2>10. Bears(u, r) /\ Bears(u, push[p].got)
    BY <2>1, <2>7, <2>9 DEF Bears, Names
  <2> QED BY <1>0, <2>1, <2>3, <2>7, <2>9, <2>10 DEF OneIdentity
<1>18. ASSUME NEW p \in Process, Crash(p) PROVE MemoryStays
  <2>1. ASSUME push[p].task # Others
        PROVE  Creating(p) <=> outcome[push[p].task] = "queued"
    BY <1>0, <2>1, CreatingIsQueued
  <2>2. /\ \A q \in Process : q # p => push'[q] = push[q] /\ memory'[q] = memory[q]
        /\ \A t \in Task :
             /\ outcome[t] = "queued" /\ memory[p][t] # NoRemote => "lost" \in slips'[t]
             /\ Mine(p) = t /\ push[p].at \in {"created", "stored", "based"} /\ Creating(p)
                  => "lost" \in slips'[t]
    BY <1>0, <1>18 DEF Crash, CreationTyped
  <2> QED BY <1>0, <2>1, <2>2, CreationAssumption DEF MemoryStays, Remembered, Mine
<1>19. ASSUME NEW p \in Puller, Fetch(p) PROVE MemoryStays
  BY <1>0, <1>19 DEF Fetch, NoPull, Pushing, Mine, CreationTyped, Owned, MemoryStays,
     Remembered, PushState, cache, provider, Rid, Remote, Closed, NoRemote, Slip
<1>20. ASSUME NEW p \in Puller, NEW r \in Remote, LookUp(p, r) PROVE MemoryStays
  BY <1>0, <1>20, LookUpChanges DEF MemoryStays, Remembered
<1>21. ASSUME NEW p \in Puller, SavePulled(p) PROVE MemoryStays
  BY <1>0, <1>21 DEF SavePulled, TakenFrom, NoPull, Listed, Absent, CreationTyped, Owned,
     MemoryStays, Remembered, PushState, cache, provider, Rid, Remote, Closed, NoRemote, Slip
<1>22. ASSUME NEW p \in Puller, SaveImport(p) PROVE MemoryStays
  BY <1>0, <1>22 DEF SaveImport, NoPull, Listed, CreationTyped, Owned, MemoryStays,
     Remembered, PushState, cache, provider, Rid, Remote, Closed, NoRemote, Slip
<1>23. ASSUME NEW p \in Puller, DropMissing(p) PROVE MemoryStays
  BY <1>0, <1>23 DEF DropMissing, NoPull, CreationTyped, Owned, MemoryStays, Remembered,
     PushState, cache, provider, Rid, Remote, Closed, NoRemote, Slip
<1>24. ASSUME NEW p \in Puller, PullFails(p) PROVE MemoryStays
  BY <1>0, <1>24 DEF PullFails, NoPull, CreationTyped, Owned, MemoryStays, Remembered,
     PushState, cache, provider, Rid, Remote, Closed, NoRemote, Slip
<1> QED
  BY <1>1, <1>2, <1>3, <1>4, <1>5, <1>6, <1>7, <1>8, <1>9, <1>10, <1>11, <1>12, <1>13, <1>14,
     <1>15, <1>16, <1>17, <1>18, <1>19, <1>20, <1>21, <1>22, <1>23, <1>24 DEF Next, UserStep,
     PushStep, PullStep, Fault

LEMMA QueuedFromStart ==
  ASSUME CreationInv, Next
  PROVE  \A t \in Task : outcome'[t] = "queued" => outcome[t] \in {"none", "queued"}
<1>0. CreationTyped /\ Owned
  BY CreationAssumption DEF CreationInv
<1>1. ASSUME NEW t \in Task, CreateTask(t) PROVE \A v \in Task : outcome'[v] = "queued" => outcome[v] \in {"none", "queued"}
  BY <1>0, <1>1 DEF CreateTask, CreationTyped, cache, provider, Rid, Remote, Closed, NoRemote,
     Slip
<1>2. ASSUME NEW t \in Task, BeginEdit(t) PROVE \A v \in Task : outcome'[v] = "queued" => outcome[v] \in {"none", "queued"}
  BY <1>0, <1>2 DEF BeginEdit, CreationTyped, cache, provider, Rid, Remote, Closed, NoRemote,
     Slip
<1>3. ASSUME NEW t \in Task, SaveEdit(t) PROVE \A v \in Task : outcome'[v] = "queued" => outcome[v] \in {"none", "queued"}
  BY <1>0, <1>3 DEF SaveEdit, CreationTyped, cache, provider, Rid, Remote, Closed, NoRemote,
     Slip
<1>4. ASSUME NEW t \in Task, SaveEditFails(t) PROVE \A v \in Task : outcome'[v] = "queued" => outcome[v] \in {"none", "queued"}
  BY <1>0, <1>4 DEF SaveEditFails, CreationTyped, cache, provider, Rid, Remote, Closed,
     NoRemote, Slip
<1>5. ASSUME OthersCreate PROVE \A t \in Task : outcome'[t] = "queued" => outcome[t] \in {"none", "queued"}
  BY <1>0, <1>5 DEF OthersCreate, CreationTyped, cache, provider, Rid, Remote, Closed,
     NoRemote, Slip
<1>6. ASSUME NEW r \in Remote, OthersDelete(r) PROVE \A t \in Task : outcome'[t] = "queued" => outcome[t] \in {"none", "queued"}
  BY <1>0, <1>6 DEF OthersDelete, CreationTyped, cache, provider, Rid, Remote, Closed,
     NoRemote, Slip
<1>7. ASSUME NEW p \in Process, NEW t \in Task, Claim(p, t) PROVE \A v \in Task : outcome'[v] = "queued" => outcome[v] \in {"none", "queued"}
  BY <1>0, <1>7 DEF Claim, Pushing, Mine, NoPush, CreationTyped, cache, provider, Rid, Remote,
     Closed, NoRemote, Slip
<1>8. ASSUME NEW p \in Process, RemoteCreate(p) PROVE \A t \in Task : outcome'[t] = "queued" => outcome[t] \in {"none", "queued"}
  BY <1>0, <1>8 DEF RemoteCreate, Pushing, Mine, Creating, CreationTyped, cache, provider,
     Rid, Remote, Closed, NoRemote, Slip
<1>9. ASSUME NEW p \in Process, RemoteUpdate(p) PROVE \A t \in Task : outcome'[t] = "queued" => outcome[t] \in {"none", "queued"}
  BY <1>0, <1>9 DEF RemoteUpdate, Pushing, Mine, CreationTyped, cache, provider, Rid, Remote,
     Closed, NoRemote, Slip
<1>10. ASSUME NEW p \in Process, StoreReply(p) PROVE \A t \in Task : outcome'[t] = "queued" => outcome[t] \in {"none", "queued"}
  BY <1>0, <1>10 DEF StoreReply, Mine, Absent, CreationTyped, cache, provider, Rid, Remote,
     Closed, NoRemote, Slip
<1>11. ASSUME NEW p \in Process, SaveBase(p) PROVE \A t \in Task : outcome'[t] = "queued" => outcome[t] \in {"none", "queued"}
  BY <1>0, <1>11 DEF SaveBase, Pushing, Mine, Creating, CreationTyped, cache, provider, Rid,
     Remote, Closed, NoRemote, Slip
<1>12. ASSUME NEW p \in Process, Complete(p) PROVE \A t \in Task : outcome'[t] = "queued" => outcome[t] \in {"none", "queued"}
  BY <1>0, <1>12 DEF Complete, Settle, Pushing, Mine, Creating, NoPush, CreationTyped, cache,
     provider, Rid, Remote, Closed, NoRemote, Slip
<1>13. ASSUME NEW p \in Process, Reject(p) PROVE \A t \in Task : outcome'[t] = "queued" => outcome[t] \in {"none", "queued"}
  BY <1>0, <1>13 DEF Reject, Settle, Pushing, Mine, Creating, NoPush, TakenFrom,
     CreationTyped, cache, provider, Rid, Remote, Closed, NoRemote, Slip
<1>14. ASSUME NEW p \in Process, Refuse(p) PROVE \A t \in Task : outcome'[t] = "queued" => outcome[t] \in {"none", "queued"}
  BY <1>0, <1>14 DEF Refuse, Settle, Pushing, Mine, Creating, NoPush, CreationTyped, cache,
     provider, Rid, Remote, Closed, NoRemote, Slip
<1>15. ASSUME NEW p \in Process, Missing(p) PROVE \A t \in Task : outcome'[t] = "queued" => outcome[t] \in {"none", "queued"}
  BY <1>0, <1>15 DEF Missing, GiveBack, Pushing, NoPush, CreationTyped, cache, provider, Rid,
     Remote, Closed, NoRemote, Slip
<1>16. ASSUME NEW p \in Process, Retry(p) PROVE \A t \in Task : outcome'[t] = "queued" => outcome[t] \in {"none", "queued"}
  BY <1>0, <1>16 DEF Retry, GiveBack, Pushing, NoPush, Mine, Creating, Forgets, CreationTyped,
     cache, provider, Rid, Remote, Closed, NoRemote, Slip
<1>17. ASSUME NEW p \in Process, RollBack(p) PROVE \A t \in Task : outcome'[t] = "queued" => outcome[t] \in {"none", "queued"}
  BY <1>0, <1>17 DEF RollBack, GiveBack, Pushing, NoPush, CreationTyped, cache, provider, Rid,
     Remote, Closed, NoRemote, Slip
<1>18. ASSUME NEW p \in Process, Crash(p) PROVE \A t \in Task : outcome'[t] = "queued" => outcome[t] \in {"none", "queued"}
  BY <1>0, <1>18 DEF Crash, NoPush, NoPull, Mine, Creating, CreationTyped, cache, provider,
     Rid, Remote, Closed, NoRemote, Slip
<1>19. ASSUME NEW p \in Puller, Fetch(p) PROVE \A t \in Task : outcome'[t] = "queued" => outcome[t] \in {"none", "queued"}
  BY <1>0, <1>19 DEF Fetch, NoPull, Pushing, Mine, CreationTyped, cache, provider, Rid,
     Remote, Closed, NoRemote, Slip
<1>20. ASSUME NEW p \in Puller, NEW r \in Remote, LookUp(p, r) PROVE \A t \in Task : outcome'[t] = "queued" => outcome[t] \in {"none", "queued"}
  BY <1>0, <1>20, LookUpChanges
<1>21. ASSUME NEW p \in Puller, SavePulled(p) PROVE \A t \in Task : outcome'[t] = "queued" => outcome[t] \in {"none", "queued"}
  BY <1>0, <1>21 DEF SavePulled, TakenFrom, NoPull, Listed, Absent, CreationTyped, cache,
     provider, Rid, Remote, Closed, NoRemote, Slip
<1>22. ASSUME NEW p \in Puller, SaveImport(p) PROVE \A t \in Task : outcome'[t] = "queued" => outcome[t] \in {"none", "queued"}
  BY <1>0, <1>22 DEF SaveImport, NoPull, Listed, CreationTyped, cache, provider, Rid, Remote,
     Closed, NoRemote, Slip
<1>23. ASSUME NEW p \in Puller, DropMissing(p) PROVE \A t \in Task : outcome'[t] = "queued" => outcome[t] \in {"none", "queued"}
  BY <1>0, <1>23 DEF DropMissing, NoPull, CreationTyped, cache, provider, Rid, Remote, Closed,
     NoRemote, Slip
<1>24. ASSUME NEW p \in Puller, PullFails(p) PROVE \A t \in Task : outcome'[t] = "queued" => outcome[t] \in {"none", "queued"}
  BY <1>0, <1>24 DEF PullFails, NoPull, CreationTyped, cache, provider, Rid, Remote, Closed,
     NoRemote, Slip
<1> QED
  BY <1>1, <1>2, <1>3, <1>4, <1>5, <1>6, <1>7, <1>8, <1>9, <1>10, <1>11, <1>12, <1>13, <1>14,
     <1>15, <1>16, <1>17, <1>18, <1>19, <1>20, <1>21, <1>22, <1>23, <1>24 DEF Next, UserStep,
     PushStep, PullStep, Fault

LEMMA KnownKept ==
  ASSUME CreationInv, Next
  PROVE  KnownWhileQueued'
<1>0. /\ CreationTyped /\ NamedIsMade /\ MadeOnDemand /\ KnownWhileQueued
      /\ SlipsStay /\ BearsStay /\ MemoryStays
  BY SlipsKept, BearsKept, MemoryKept DEF CreationInv
<1>1. ASSUME NEW t \in Task, "lost" \notin slips'[t], outcome'[t] = "queued",
             NEW r \in Remote, Bears(t, r)'
      PROVE  Remembered(t)'
  <2>1. "lost" \notin slips[t]
    BY <1>0, <1>1 DEF SlipsStay
  <2>2. CASE NewFor(t, r)
    <3>1. PICK p \in Process : RemoteCreate(p) /\ push[p].task = t
      BY <2>2 DEF NewFor
    <3>2. push'[p].task = t /\ push'[p].at = "created"
      BY <1>0, <3>1, ReplyNoted
    <3> QED BY <3>2 DEF Remembered
  <2>3. CASE Bears(t, r)
    <3>1. MadeFor(t, r)
      BY <1>0, <2>3 DEF Bears, NamedIsMade
    <3>2. outcome[t] = "queued"
      BY <1>0, <1>1, <3>1, QueuedFromStart DEF MadeOnDemand
    <3>3. Remembered(t)
      BY <1>0, <2>1, <2>3, <3>2 DEF KnownWhileQueued
    <3> QED BY <1>0, <1>1, <3>2, <3>3 DEF MemoryStays
  <2> QED BY <1>0, <1>1, <2>2, <2>3 DEF BearsStay
<1> QED BY <1>1 DEF KnownWhileQueued

\* A reply on its way stays so while its process does nothing.
LEMMA CreatedStays ==
  ASSUME CreationInv, Next, NEW q \in Process, NEW u \in Task,
         push'[q].at = "created", push'[q].task = u, ~RemoteCreate(q)
  PROVE  /\ push'[q] = push[q] /\ outcome'[u] = outcome[u] /\ memory'[q][u] = memory[q][u]
<1>0. CreationTyped /\ Owned /\ QueueShape /\ CreatedIsFresh
  BY CreationAssumption DEF CreationInv
<1>1. ASSUME NEW t \in Task, CreateTask(t) PROVE /\ push'[q] = push[q] /\ outcome'[u] = outcome[u] /\ memory'[q][u] = memory[q][u]
  <2>1. push' = push /\ memory' = memory /\ outcome[u] = "queued" /\ outcome[t] = "none"
    BY <1>0, <1>1 DEF CreateTask, CreatedIsFresh
  <2> QED BY <1>0, <1>1, <2>1 DEF CreateTask, CreationTyped
<1>2. ASSUME NEW t \in Task, BeginEdit(t) PROVE /\ push'[q] = push[q] /\ outcome'[u] = outcome[u] /\ memory'[q][u] = memory[q][u]
  BY <1>0, <1>2 DEF BeginEdit, CreationTyped, Owned, PushState, cache, provider, Rid, Remote,
     Closed, NoRemote, Slip
<1>3. ASSUME NEW t \in Task, SaveEdit(t) PROVE /\ push'[q] = push[q] /\ outcome'[u] = outcome[u] /\ memory'[q][u] = memory[q][u]
  BY <1>0, <1>3 DEF SaveEdit, CreationTyped, Owned, PushState, cache, provider, Rid, Remote,
     Closed, NoRemote, Slip
<1>4. ASSUME NEW t \in Task, SaveEditFails(t) PROVE /\ push'[q] = push[q] /\ outcome'[u] = outcome[u] /\ memory'[q][u] = memory[q][u]
  BY <1>0, <1>4 DEF SaveEditFails, CreationTyped, Owned, PushState, cache, provider, Rid,
     Remote, Closed, NoRemote, Slip
<1>5. ASSUME OthersCreate PROVE /\ push'[q] = push[q] /\ outcome'[u] = outcome[u] /\ memory'[q][u] = memory[q][u]
  BY <1>0, <1>5 DEF OthersCreate, CreationTyped, Owned, PushState, cache, provider, Rid,
     Remote, Closed, NoRemote, Slip
<1>6. ASSUME NEW r \in Remote, OthersDelete(r) PROVE /\ push'[q] = push[q] /\ outcome'[u] = outcome[u] /\ memory'[q][u] = memory[q][u]
  BY <1>0, <1>6 DEF OthersDelete, CreationTyped, Owned, PushState, cache, provider, Rid,
     Remote, Closed, NoRemote, Slip
<1>7. ASSUME NEW p \in Process, NEW t \in Task, Claim(p, t) PROVE /\ push'[q] = push[q] /\ outcome'[u] = outcome[u] /\ memory'[q][u] = memory[q][u]
  BY <1>0, <1>7 DEF Claim, Pushing, Mine, NoPush, CreationTyped, Owned, PushState, cache,
     provider, Rid, Remote, Closed, NoRemote, Slip
<1>8. ASSUME NEW p \in Process, RemoteCreate(p) PROVE /\ push'[q] = push[q] /\ outcome'[u] = outcome[u] /\ memory'[q][u] = memory[q][u]
  BY <1>0, <1>8, ReplyNoted DEF RemoteCreate
<1>9. ASSUME NEW p \in Process, RemoteUpdate(p) PROVE /\ push'[q] = push[q] /\ outcome'[u] = outcome[u] /\ memory'[q][u] = memory[q][u]
  BY <1>0, <1>9, ReplyNoted DEF RemoteUpdate
<1>10. ASSUME NEW p \in Process, StoreReply(p) PROVE /\ push'[q] = push[q] /\ outcome'[u] = outcome[u] /\ memory'[q][u] = memory[q][u]
  BY <1>0, <1>10 DEF StoreReply, Mine, Absent, CreationTyped, Owned, PushState, cache,
     provider, Rid, Remote, Closed, NoRemote, Slip
<1>11. ASSUME NEW p \in Process, SaveBase(p) PROVE /\ push'[q] = push[q] /\ outcome'[u] = outcome[u] /\ memory'[q][u] = memory[q][u]
  <2>1. /\ push'[p].at = "based" /\ \A v \in Process : v # p => push'[v] = push[v] /\ memory'[v] = memory[v]
        /\ outcome' = outcome
    BY <1>0, <1>11 DEF SaveBase, CreationTyped, PushState
  <2> QED BY <2>1
<1>12. ASSUME NEW p \in Process, Complete(p) PROVE /\ push'[q] = push[q] /\ outcome'[u] = outcome[u] /\ memory'[q][u] = memory[q][u]
  <2>1. push[p].task # Others /\ push[p].task \in Task
    BY <1>0, <1>12 DEF Complete, Owned, Pushing, CreationTyped, PushState
  <2>2. /\ push'[p] = NoPush
        /\ \A v \in Process : v # p => push'[v] = push[v]
        /\ \A t \in Task : t # push[p].task =>
             row'[t] = row[t] /\ queue'[t] = queue[t] /\ outcome'[t] = outcome[t]
        /\ UNCHANGED <<memory, pull, editor, slips>>
    BY <1>0, <1>12, <2>1 DEF Complete, Settle, CreationTyped, Mine
  <2>3. q # p /\ push'[q] = push[q]
    BY <2>2 DEF NoPush
  <2> QED BY <1>0, <2>1, <2>2, <2>3 DEF Owned
<1>13. ASSUME NEW p \in Process, Reject(p) PROVE /\ push'[q] = push[q] /\ outcome'[u] = outcome[u] /\ memory'[q][u] = memory[q][u]
  <2>1. push[p].task # Others /\ push[p].task \in Task
    BY <1>0, <1>13 DEF Reject, Owned, Pushing, CreationTyped, PushState
  <2>2. /\ push'[p] = NoPush
        /\ \A v \in Process : v # p => push'[v] = push[v]
        /\ \A t \in Task : t # push[p].task =>
             row'[t] = row[t] /\ queue'[t] = queue[t] /\ outcome'[t] = outcome[t]
        /\ UNCHANGED <<memory, pull, editor, slips>>
    BY <1>0, <1>13, <2>1 DEF Reject, Settle, CreationTyped, Mine
  <2>3. q # p /\ push'[q] = push[q]
    BY <2>2 DEF NoPush
  <2> QED BY <1>0, <2>1, <2>2, <2>3 DEF Owned
<1>14. ASSUME NEW p \in Process, Refuse(p) PROVE /\ push'[q] = push[q] /\ outcome'[u] = outcome[u] /\ memory'[q][u] = memory[q][u]
  <2>1. push[p].task # Others /\ push[p].task \in Task
    BY <1>0, <1>14 DEF Refuse, Owned, Pushing, CreationTyped, PushState
  <2>2. /\ push'[p] = NoPush
        /\ \A v \in Process : v # p => push'[v] = push[v]
        /\ \A t \in Task : t # push[p].task =>
             row'[t] = row[t] /\ queue'[t] = queue[t] /\ outcome'[t] = outcome[t]
        /\ UNCHANGED <<memory, pull, editor, slips>>
    BY <1>0, <1>14, <2>1 DEF Refuse, Settle, CreationTyped, Mine
  <2>3. q # p /\ push'[q] = push[q]
    BY <2>2 DEF NoPush
  <2> QED BY <1>0, <2>1, <2>2, <2>3 DEF Owned
<1>15. ASSUME NEW p \in Process, Missing(p) PROVE /\ push'[q] = push[q] /\ outcome'[u] = outcome[u] /\ memory'[q][u] = memory[q][u]
  BY <1>0, <1>15 DEF Missing, GiveBack, Pushing, NoPush, CreationTyped, Owned, PushState,
     cache, provider, Rid, Remote, Closed, NoRemote, Slip
<1>16. ASSUME NEW p \in Process, Retry(p) PROVE /\ push'[q] = push[q] /\ outcome'[u] = outcome[u] /\ memory'[q][u] = memory[q][u]
  BY <1>0, <1>16 DEF Retry, GiveBack, Pushing, NoPush, Mine, Creating, Forgets, CreationTyped,
     Owned, PushState, cache, provider, Rid, Remote, Closed, NoRemote, Slip
<1>17. ASSUME NEW p \in Process, RollBack(p) PROVE /\ push'[q] = push[q] /\ outcome'[u] = outcome[u] /\ memory'[q][u] = memory[q][u]
  BY <1>0, <1>17 DEF RollBack, GiveBack, Pushing, NoPush, CreationTyped, Owned, PushState,
     cache, provider, Rid, Remote, Closed, NoRemote, Slip
<1>18. ASSUME NEW p \in Process, Crash(p) PROVE /\ push'[q] = push[q] /\ outcome'[u] = outcome[u] /\ memory'[q][u] = memory[q][u]
  BY <1>0, <1>18 DEF Crash, NoPush, NoPull, Mine, Creating, CreationTyped, Owned, PushState,
     cache, provider, Rid, Remote, Closed, NoRemote, Slip
<1>19. ASSUME NEW p \in Puller, Fetch(p) PROVE /\ push'[q] = push[q] /\ outcome'[u] = outcome[u] /\ memory'[q][u] = memory[q][u]
  BY <1>0, <1>19 DEF Fetch, NoPull, Pushing, Mine, CreationTyped, Owned, PushState, cache,
     provider, Rid, Remote, Closed, NoRemote, Slip
<1>20. ASSUME NEW p \in Puller, NEW r \in Remote, LookUp(p, r) PROVE /\ push'[q] = push[q] /\ outcome'[u] = outcome[u] /\ memory'[q][u] = memory[q][u]
  BY <1>0, <1>20, LookUpChanges
<1>21. ASSUME NEW p \in Puller, SavePulled(p) PROVE /\ push'[q] = push[q] /\ outcome'[u] = outcome[u] /\ memory'[q][u] = memory[q][u]
  BY <1>0, <1>21 DEF SavePulled, TakenFrom, NoPull, Listed, Absent, CreationTyped, Owned,
     PushState, cache, provider, Rid, Remote, Closed, NoRemote, Slip
<1>22. ASSUME NEW p \in Puller, SaveImport(p) PROVE /\ push'[q] = push[q] /\ outcome'[u] = outcome[u] /\ memory'[q][u] = memory[q][u]
  BY <1>0, <1>22 DEF SaveImport, NoPull, Listed, CreationTyped, Owned, PushState, cache,
     provider, Rid, Remote, Closed, NoRemote, Slip
<1>23. ASSUME NEW p \in Puller, DropMissing(p) PROVE /\ push'[q] = push[q] /\ outcome'[u] = outcome[u] /\ memory'[q][u] = memory[q][u]
  BY <1>0, <1>23 DEF DropMissing, NoPull, CreationTyped, Owned, PushState, cache, provider,
     Rid, Remote, Closed, NoRemote, Slip
<1>24. ASSUME NEW p \in Puller, PullFails(p) PROVE /\ push'[q] = push[q] /\ outcome'[u] = outcome[u] /\ memory'[q][u] = memory[q][u]
  BY <1>0, <1>24 DEF PullFails, NoPull, CreationTyped, Owned, PushState, cache, provider, Rid,
     Remote, Closed, NoRemote, Slip
<1> QED
  BY <1>1, <1>2, <1>3, <1>4, <1>5, <1>6, <1>7, <1>8, <1>9, <1>10, <1>11, <1>12, <1>13, <1>14,
     <1>15, <1>16, <1>17, <1>18, <1>19, <1>20, <1>21, <1>22, <1>23, <1>24 DEF Next, UserStep,
     PushStep, PullStep, Fault

LEMMA NoTraceStays ==
  ASSUME CreationTyped, NEW u \in Task, NoTrace(u), u # Others,
         row'[u].remote = row[u].remote, editor'[u] \in {editor[u], NoRemote, Closed},
         queue'[u] = queue[u], \A v \in Process : memory'[v][u] \in {memory[v][u], NoRemote},
         \A v \in Puller : pull'[v] = pull[v] \/ pull'[v].found = Others
  PROVE  NoTrace(u)'
BY DEF NoTrace

LEMMA NoTraceKept ==
  ASSUME CreationInv, Next, NEW q \in Process, NEW u \in Task,
         push[q].at = "created", push[q].task = u, push'[q] = push[q], NoTrace(u)
  PROVE  NoTrace(u)'
<1>0. CreationTyped /\ Owned /\ QueueShape /\ PullShape /\ CreatedIsFresh /\ Puller \subseteq
      Process /\ u # Others
  BY CreationAssumption DEF CreationInv
<1>1. ASSUME NEW t \in Task, CreateTask(t) PROVE NoTrace(u)'
  <2>a. t # u
    BY <1>0, <1>1 DEF CreateTask, CreatedIsFresh
  <2>1. row'[u].remote = row[u].remote /\ editor'[u] \in {editor[u], NoRemote, Closed}
    BY <1>0, <1>1, <2>a DEF CreateTask, CreationTyped, CreatedRow, PullState, cache, NoTrace
  <2>2. queue'[u] = queue[u]
    BY <1>0, <1>1, <2>a DEF CreateTask, CreationTyped, CreatedRow, PullState, cache, NoTrace
  <2>3. \A v \in Process : memory'[v][u] \in {memory[v][u], NoRemote}
    BY <1>0, <1>1, <2>a DEF CreateTask, CreationTyped, CreatedRow, PullState, cache, NoTrace
  <2>4. \A v \in Puller : pull'[v] = pull[v] \/ pull'[v].found = Others
    BY <1>0, <1>1, <2>a DEF CreateTask, CreationTyped, CreatedRow, PullState, cache, NoTrace
  <2> QED BY <1>0, <2>1, <2>2, <2>3, <2>4, NoTraceStays
<1>2. ASSUME NEW t \in Task, BeginEdit(t) PROVE NoTrace(u)'
  <2>1. row'[u].remote = row[u].remote /\ editor'[u] \in {editor[u], NoRemote, Closed}
    BY <1>0, <1>2 DEF BeginEdit, CreationTyped, CreatedRow, PullState, cache, NoTrace
  <2>2. queue'[u] = queue[u]
    BY <1>0, <1>2 DEF BeginEdit, CreationTyped, CreatedRow, PullState, cache, NoTrace
  <2>3. \A v \in Process : memory'[v][u] \in {memory[v][u], NoRemote}
    BY <1>0, <1>2 DEF BeginEdit, CreationTyped, CreatedRow, PullState, cache, NoTrace
  <2>4. \A v \in Puller : pull'[v] = pull[v] \/ pull'[v].found = Others
    BY <1>0, <1>2 DEF BeginEdit, CreationTyped, CreatedRow, PullState, cache, NoTrace
  <2> QED BY <1>0, <2>1, <2>2, <2>3, <2>4, NoTraceStays
<1>3. ASSUME NEW t \in Task, SaveEdit(t) PROVE NoTrace(u)'
  <2>1. CASE t # u
    BY <1>0, <1>3, <2>1 DEF SaveEdit, CreationTyped, NoTrace
  <2>2. CASE t = u
    <3> DEFINE e == [kind |-> "update", remote |-> editor[u]]
    <3>1. queue[u] \in Seq(Operation)
      BY <1>0 DEF CreationTyped
    <3>2. /\ DOMAIN Append(queue[u], e) = 1..(Len(queue[u]) + 1) /\ Len(queue[u]) \in Nat
          /\ DOMAIN queue[u] = 1..Len(queue[u])
          /\ \A i \in 1..Len(queue[u]) : Append(queue[u], e)[i] = queue[u][i]
          /\ Append(queue[u], e)[Len(queue[u]) + 1] = e
      BY <3>1
    <3>3. e.remote = editor[u]
      OBVIOUS
    <3>4. /\ UNCHANGED <<memory, pull>> /\ editor[u] # Closed
          /\ queue'[u] = Append(queue[u], e) /\ editor'[u] = Closed /\ row'[u].remote = editor[u]
      BY <1>0, <1>3, <2>2 DEF SaveEdit, CreationTyped, CreatedRow
    <3> HIDE DEF e
    <3>5. editor[u] = NoRemote
      BY <3>4 DEF NoTrace
    <3>6. \A i \in DOMAIN queue'[u] : queue'[u][i].remote = NoRemote
      <4>1. \A i \in 1..Len(queue[u]) : queue[u][i].remote = NoRemote
        BY <3>2 DEF NoTrace
      <4> QED BY <3>2, <3>3, <3>4, <3>5, <4>1
    <3> QED BY <3>4, <3>5, <3>6 DEF NoTrace
  <2> QED BY <2>1, <2>2
<1>4. ASSUME NEW t \in Task, SaveEditFails(t) PROVE NoTrace(u)'
  <2>1. row'[u].remote = row[u].remote /\ editor'[u] \in {editor[u], NoRemote, Closed}
    BY <1>0, <1>4 DEF SaveEditFails, CreationTyped, CreatedRow, PullState, cache, NoTrace
  <2>2. queue'[u] = queue[u]
    BY <1>0, <1>4 DEF SaveEditFails, CreationTyped, CreatedRow, PullState, cache, NoTrace
  <2>3. \A v \in Process : memory'[v][u] \in {memory[v][u], NoRemote}
    BY <1>0, <1>4 DEF SaveEditFails, CreationTyped, CreatedRow, PullState, cache, NoTrace
  <2>4. \A v \in Puller : pull'[v] = pull[v] \/ pull'[v].found = Others
    BY <1>0, <1>4 DEF SaveEditFails, CreationTyped, CreatedRow, PullState, cache, NoTrace
  <2> QED BY <1>0, <2>1, <2>2, <2>3, <2>4, NoTraceStays
<1>5. ASSUME OthersCreate PROVE NoTrace(u)'
  <2>1. row'[u].remote = row[u].remote /\ editor'[u] \in {editor[u], NoRemote, Closed}
    BY <1>0, <1>5 DEF OthersCreate, CreationTyped, CreatedRow, PullState, cache, NoTrace
  <2>2. queue'[u] = queue[u]
    BY <1>0, <1>5 DEF OthersCreate, CreationTyped, CreatedRow, PullState, cache, NoTrace
  <2>3. \A v \in Process : memory'[v][u] \in {memory[v][u], NoRemote}
    BY <1>0, <1>5 DEF OthersCreate, CreationTyped, CreatedRow, PullState, cache, NoTrace
  <2>4. \A v \in Puller : pull'[v] = pull[v] \/ pull'[v].found = Others
    BY <1>0, <1>5 DEF OthersCreate, CreationTyped, CreatedRow, PullState, cache, NoTrace
  <2> QED BY <1>0, <2>1, <2>2, <2>3, <2>4, NoTraceStays
<1>6. ASSUME NEW r \in Remote, OthersDelete(r) PROVE NoTrace(u)'
  <2>1. row'[u].remote = row[u].remote /\ editor'[u] \in {editor[u], NoRemote, Closed}
    BY <1>0, <1>6 DEF OthersDelete, CreationTyped, CreatedRow, PullState, cache, NoTrace
  <2>2. queue'[u] = queue[u]
    BY <1>0, <1>6 DEF OthersDelete, CreationTyped, CreatedRow, PullState, cache, NoTrace
  <2>3. \A v \in Process : memory'[v][u] \in {memory[v][u], NoRemote}
    BY <1>0, <1>6 DEF OthersDelete, CreationTyped, CreatedRow, PullState, cache, NoTrace
  <2>4. \A v \in Puller : pull'[v] = pull[v] \/ pull'[v].found = Others
    BY <1>0, <1>6 DEF OthersDelete, CreationTyped, CreatedRow, PullState, cache, NoTrace
  <2> QED BY <1>0, <2>1, <2>2, <2>3, <2>4, NoTraceStays
<1>7. ASSUME NEW p \in Process, NEW t \in Task, Claim(p, t) PROVE NoTrace(u)'
  <2>1. row'[u].remote = row[u].remote /\ editor'[u] \in {editor[u], NoRemote, Closed}
    BY <1>0, <1>7 DEF Claim, Pushing, Mine, NoPush, CreationTyped, CreatedRow, PullState, cache, NoTrace
  <2>2. queue'[u] = queue[u]
    BY <1>0, <1>7 DEF Claim, Pushing, Mine, NoPush, CreationTyped, CreatedRow, PullState, cache, NoTrace
  <2>3. \A v \in Process : memory'[v][u] \in {memory[v][u], NoRemote}
    BY <1>0, <1>7 DEF Claim, Pushing, Mine, NoPush, CreationTyped, CreatedRow, PullState, cache, NoTrace
  <2>4. \A v \in Puller : pull'[v] = pull[v] \/ pull'[v].found = Others
    BY <1>0, <1>7 DEF Claim, Pushing, Mine, NoPush, CreationTyped, CreatedRow, PullState, cache, NoTrace
  <2> QED BY <1>0, <2>1, <2>2, <2>3, <2>4, NoTraceStays
<1>8. ASSUME NEW p \in Process, RemoteCreate(p) PROVE NoTrace(u)'
  <2>1. row'[u].remote = row[u].remote /\ editor'[u] \in {editor[u], NoRemote, Closed}
    BY <1>0, <1>8 DEF RemoteCreate, Pushing, Mine, Creating, CreationTyped, CreatedRow, PullState, cache, NoTrace
  <2>2. queue'[u] = queue[u]
    BY <1>0, <1>8 DEF RemoteCreate, Pushing, Mine, Creating, CreationTyped, CreatedRow, PullState, cache, NoTrace
  <2>3. \A v \in Process : memory'[v][u] \in {memory[v][u], NoRemote}
    BY <1>0, <1>8 DEF RemoteCreate, Pushing, Mine, Creating, CreationTyped, CreatedRow, PullState, cache, NoTrace
  <2>4. \A v \in Puller : pull'[v] = pull[v] \/ pull'[v].found = Others
    BY <1>0, <1>8 DEF RemoteCreate, Pushing, Mine, Creating, CreationTyped, CreatedRow, PullState, cache, NoTrace
  <2> QED BY <1>0, <2>1, <2>2, <2>3, <2>4, NoTraceStays
<1>9. ASSUME NEW p \in Process, RemoteUpdate(p) PROVE NoTrace(u)'
  <2>1. row'[u].remote = row[u].remote /\ editor'[u] \in {editor[u], NoRemote, Closed}
    BY <1>0, <1>9 DEF RemoteUpdate, Pushing, Mine, CreationTyped, CreatedRow, PullState, cache, NoTrace
  <2>2. queue'[u] = queue[u]
    BY <1>0, <1>9 DEF RemoteUpdate, Pushing, Mine, CreationTyped, CreatedRow, PullState, cache, NoTrace
  <2>3. \A v \in Process : memory'[v][u] \in {memory[v][u], NoRemote}
    BY <1>0, <1>9 DEF RemoteUpdate, Pushing, Mine, CreationTyped, CreatedRow, PullState, cache, NoTrace
  <2>4. \A v \in Puller : pull'[v] = pull[v] \/ pull'[v].found = Others
    BY <1>0, <1>9 DEF RemoteUpdate, Pushing, Mine, CreationTyped, CreatedRow, PullState, cache, NoTrace
  <2> QED BY <1>0, <2>1, <2>2, <2>3, <2>4, NoTraceStays
<1>10. ASSUME NEW p \in Process, StoreReply(p) PROVE NoTrace(u)'
  <2>a. push[p].task # u /\ push[p].task \in Task
    BY <1>0, <1>10 DEF StoreReply, Pushing, Owned, CreationTyped, PushState
  <2>1. row'[u].remote = row[u].remote /\ editor'[u] \in {editor[u], NoRemote, Closed}
    BY <1>0, <1>10, <2>a DEF StoreReply, Mine, Absent, CreationTyped, CreatedRow, PullState, cache, NoTrace
  <2>2. queue'[u] = queue[u]
    BY <1>0, <1>10, <2>a DEF StoreReply, Mine, Absent, CreationTyped, CreatedRow, PullState, cache, NoTrace
  <2>3. \A v \in Process : memory'[v][u] \in {memory[v][u], NoRemote}
    BY <1>0, <1>10, <2>a DEF StoreReply, Mine, Absent, CreationTyped, CreatedRow, PullState, cache, NoTrace
  <2>4. \A v \in Puller : pull'[v] = pull[v] \/ pull'[v].found = Others
    BY <1>0, <1>10, <2>a DEF StoreReply, Mine, Absent, CreationTyped, CreatedRow, PullState, cache, NoTrace
  <2> QED BY <1>0, <2>1, <2>2, <2>3, <2>4, NoTraceStays
<1>11. ASSUME NEW p \in Process, SaveBase(p) PROVE NoTrace(u)'
  <2>a. push[p].task # u /\ push[p].task \in Task
    BY <1>0, <1>11 DEF SaveBase, Pushing, Owned, CreationTyped, PushState
  <2>1. row'[u].remote = row[u].remote /\ editor'[u] \in {editor[u], NoRemote, Closed}
    BY <1>0, <1>11, <2>a DEF SaveBase, Pushing, Mine, Creating, CreationTyped, CreatedRow, PullState, cache, NoTrace
  <2>2. queue'[u] = queue[u]
    BY <1>0, <1>11, <2>a DEF SaveBase, Pushing, Mine, Creating, CreationTyped, CreatedRow, PullState, cache, NoTrace
  <2>3. \A v \in Process : memory'[v][u] \in {memory[v][u], NoRemote}
    BY <1>0, <1>11, <2>a DEF SaveBase, Pushing, Mine, Creating, CreationTyped, CreatedRow, PullState, cache, NoTrace
  <2>4. \A v \in Puller : pull'[v] = pull[v] \/ pull'[v].found = Others
    BY <1>0, <1>11, <2>a DEF SaveBase, Pushing, Mine, Creating, CreationTyped, CreatedRow, PullState, cache, NoTrace
  <2> QED BY <1>0, <2>1, <2>2, <2>3, <2>4, NoTraceStays
<1>12. ASSUME NEW p \in Process, Complete(p) PROVE NoTrace(u)'
  <2>a. push[p].task # Others /\ push[p].task \in Task
    BY <1>0, <1>12 DEF Complete, Owned, Pushing, CreationTyped, PushState
  <2>b. /\ push'[p] = NoPush
        /\ \A v \in Process : v # p => push'[v] = push[v]
        /\ \A t \in Task : t # push[p].task =>
             row'[t] = row[t] /\ queue'[t] = queue[t] /\ outcome'[t] = outcome[t]
        /\ UNCHANGED <<memory, pull, editor, slips>>
    BY <1>0, <1>12, <2>a DEF Complete, Settle, CreationTyped, Mine
  <2>c. push[p].task # u
    BY <1>0, <2>a, <2>b DEF Owned, NoPush
  <2>1. row'[u].remote = row[u].remote /\ editor'[u] \in {editor[u], NoRemote, Closed}
    BY <2>a, <2>b, <2>c
  <2>2. queue'[u] = queue[u]
    BY <2>a, <2>b, <2>c
  <2>3. \A v \in Process : memory'[v][u] \in {memory[v][u], NoRemote}
    BY <2>a, <2>b, <2>c
  <2>4. \A v \in Puller : pull'[v] = pull[v] \/ pull'[v].found = Others
    BY <2>a, <2>b, <2>c
  <2> QED BY <1>0, <2>1, <2>2, <2>3, <2>4, NoTraceStays
<1>13. ASSUME NEW p \in Process, Reject(p) PROVE NoTrace(u)'
  <2>a. push[p].task # Others /\ push[p].task \in Task
    BY <1>0, <1>13 DEF Reject, Owned, Pushing, CreationTyped, PushState
  <2>b. /\ push'[p] = NoPush
        /\ \A v \in Process : v # p => push'[v] = push[v]
        /\ \A t \in Task : t # push[p].task =>
             row'[t] = row[t] /\ queue'[t] = queue[t] /\ outcome'[t] = outcome[t]
        /\ UNCHANGED <<memory, pull, editor, slips>>
    BY <1>0, <1>13, <2>a DEF Reject, Settle, CreationTyped, Mine
  <2>c. push[p].task # u
    BY <1>0, <2>a, <2>b DEF Owned, NoPush
  <2>1. row'[u].remote = row[u].remote /\ editor'[u] \in {editor[u], NoRemote, Closed}
    BY <2>a, <2>b, <2>c
  <2>2. queue'[u] = queue[u]
    BY <2>a, <2>b, <2>c
  <2>3. \A v \in Process : memory'[v][u] \in {memory[v][u], NoRemote}
    BY <2>a, <2>b, <2>c
  <2>4. \A v \in Puller : pull'[v] = pull[v] \/ pull'[v].found = Others
    BY <2>a, <2>b, <2>c
  <2> QED BY <1>0, <2>1, <2>2, <2>3, <2>4, NoTraceStays
<1>14. ASSUME NEW p \in Process, Refuse(p) PROVE NoTrace(u)'
  <2>a. push[p].task # Others /\ push[p].task \in Task
    BY <1>0, <1>14 DEF Refuse, Owned, Pushing, CreationTyped, PushState
  <2>b. /\ push'[p] = NoPush
        /\ \A v \in Process : v # p => push'[v] = push[v]
        /\ \A t \in Task : t # push[p].task =>
             row'[t] = row[t] /\ queue'[t] = queue[t] /\ outcome'[t] = outcome[t]
        /\ UNCHANGED <<memory, pull, editor, slips>>
    BY <1>0, <1>14, <2>a DEF Refuse, Settle, CreationTyped, Mine
  <2>c. push[p].task # u
    BY <1>0, <2>a, <2>b DEF Owned, NoPush
  <2>1. row'[u].remote = row[u].remote /\ editor'[u] \in {editor[u], NoRemote, Closed}
    BY <2>a, <2>b, <2>c
  <2>2. queue'[u] = queue[u]
    BY <2>a, <2>b, <2>c
  <2>3. \A v \in Process : memory'[v][u] \in {memory[v][u], NoRemote}
    BY <2>a, <2>b, <2>c
  <2>4. \A v \in Puller : pull'[v] = pull[v] \/ pull'[v].found = Others
    BY <2>a, <2>b, <2>c
  <2> QED BY <1>0, <2>1, <2>2, <2>3, <2>4, NoTraceStays
<1>15. ASSUME NEW p \in Process, Missing(p) PROVE NoTrace(u)'
  <2>1. row'[u].remote = row[u].remote /\ editor'[u] \in {editor[u], NoRemote, Closed}
    BY <1>0, <1>15 DEF Missing, GiveBack, Pushing, NoPush, CreationTyped, CreatedRow, PullState, cache, NoTrace
  <2>2. queue'[u] = queue[u]
    BY <1>0, <1>15 DEF Missing, GiveBack, Pushing, NoPush, CreationTyped, CreatedRow, PullState, cache, NoTrace
  <2>3. \A v \in Process : memory'[v][u] \in {memory[v][u], NoRemote}
    BY <1>0, <1>15 DEF Missing, GiveBack, Pushing, NoPush, CreationTyped, CreatedRow, PullState, cache, NoTrace
  <2>4. \A v \in Puller : pull'[v] = pull[v] \/ pull'[v].found = Others
    BY <1>0, <1>15 DEF Missing, GiveBack, Pushing, NoPush, CreationTyped, CreatedRow, PullState, cache, NoTrace
  <2> QED BY <1>0, <2>1, <2>2, <2>3, <2>4, NoTraceStays
<1>16. ASSUME NEW p \in Process, Retry(p) PROVE NoTrace(u)'
  <2>1. row'[u].remote = row[u].remote /\ editor'[u] \in {editor[u], NoRemote, Closed}
    BY <1>0, <1>16 DEF Retry, GiveBack, Pushing, NoPush, Mine, Creating, Forgets, CreationTyped, CreatedRow, PullState, cache, NoTrace
  <2>2. queue'[u] = queue[u]
    BY <1>0, <1>16 DEF Retry, GiveBack, Pushing, NoPush, Mine, Creating, Forgets, CreationTyped, CreatedRow, PullState, cache, NoTrace
  <2>3. \A v \in Process : memory'[v][u] \in {memory[v][u], NoRemote}
    BY <1>0, <1>16 DEF Retry, GiveBack, Pushing, NoPush, Mine, Creating, Forgets, CreationTyped, CreatedRow, PullState, cache, NoTrace
  <2>4. \A v \in Puller : pull'[v] = pull[v] \/ pull'[v].found = Others
    BY <1>0, <1>16 DEF Retry, GiveBack, Pushing, NoPush, Mine, Creating, Forgets, CreationTyped, CreatedRow, PullState, cache, NoTrace
  <2> QED BY <1>0, <2>1, <2>2, <2>3, <2>4, NoTraceStays
<1>17. ASSUME NEW p \in Process, RollBack(p) PROVE NoTrace(u)'
  <2>1. row'[u].remote = row[u].remote /\ editor'[u] \in {editor[u], NoRemote, Closed}
    BY <1>0, <1>17 DEF RollBack, GiveBack, Pushing, NoPush, CreationTyped, CreatedRow, PullState, cache, NoTrace
  <2>2. queue'[u] = queue[u]
    BY <1>0, <1>17 DEF RollBack, GiveBack, Pushing, NoPush, CreationTyped, CreatedRow, PullState, cache, NoTrace
  <2>3. \A v \in Process : memory'[v][u] \in {memory[v][u], NoRemote}
    BY <1>0, <1>17 DEF RollBack, GiveBack, Pushing, NoPush, CreationTyped, CreatedRow, PullState, cache, NoTrace
  <2>4. \A v \in Puller : pull'[v] = pull[v] \/ pull'[v].found = Others
    BY <1>0, <1>17 DEF RollBack, GiveBack, Pushing, NoPush, CreationTyped, CreatedRow, PullState, cache, NoTrace
  <2> QED BY <1>0, <2>1, <2>2, <2>3, <2>4, NoTraceStays
<1>18. ASSUME NEW p \in Process, Crash(p) PROVE NoTrace(u)'
  <2>1. row'[u].remote = row[u].remote /\ editor'[u] \in {editor[u], NoRemote, Closed}
    BY <1>0, <1>18 DEF Crash, NoPush, NoPull, Mine, Creating, CreationTyped, CreatedRow, PullState, cache, NoTrace
  <2>2. queue'[u] = queue[u]
    BY <1>0, <1>18 DEF Crash, NoPush, NoPull, Mine, Creating, CreationTyped, CreatedRow, PullState, cache, NoTrace
  <2>3. \A v \in Process : memory'[v][u] \in {memory[v][u], NoRemote}
    BY <1>0, <1>18 DEF Crash, NoPush, NoPull, Mine, Creating, CreationTyped, CreatedRow, PullState, cache, NoTrace
  <2>4. \A v \in Puller : pull'[v] = pull[v] \/ pull'[v].found = Others
    BY <1>0, <1>18 DEF Crash, NoPush, NoPull, Mine, Creating, CreationTyped, CreatedRow, PullState, cache, NoTrace
  <2> QED BY <1>0, <2>1, <2>2, <2>3, <2>4, NoTraceStays
<1>19. ASSUME NEW p \in Puller, Fetch(p) PROVE NoTrace(u)'
  <2>1. row'[u].remote = row[u].remote /\ editor'[u] \in {editor[u], NoRemote, Closed}
    BY <1>0, <1>19 DEF Fetch, NoPull, Pushing, Mine, CreationTyped, CreatedRow, PullState, cache, NoTrace
  <2>2. queue'[u] = queue[u]
    BY <1>0, <1>19 DEF Fetch, NoPull, Pushing, Mine, CreationTyped, CreatedRow, PullState, cache, NoTrace
  <2>3. \A v \in Process : memory'[v][u] \in {memory[v][u], NoRemote}
    BY <1>0, <1>19 DEF Fetch, NoPull, Pushing, Mine, CreationTyped, CreatedRow, PullState, cache, NoTrace
  <2>4. \A v \in Puller : pull'[v] = pull[v] \/ pull'[v].found = Others
    BY <1>0, <1>19 DEF Fetch, NoPull, Pushing, Mine, CreationTyped, CreatedRow, PullState, cache, NoTrace
  <2> QED BY <1>0, <2>1, <2>2, <2>3, <2>4, NoTraceStays
<1>20. ASSUME NEW p \in Puller, NEW r \in Remote, LookUp(p, r) PROVE NoTrace(u)'
  <2>1. UNCHANGED <<row, editor, memory, queue, push>> /\ r # NoRemote
    BY <1>0, <1>20, LookUpChanges DEF cache, Remote, NoRemote
  <2>2. \A v \in Puller : pull'[v].found = u => pull[v].found = u \/ row[u].remote = r
    BY <1>0, <1>20, LookUpChanges, CreationAssumption
  <2> QED BY <2>1, <2>2 DEF NoTrace
<1>21. ASSUME NEW p \in Puller, SavePulled(p) PROVE NoTrace(u)'
  <2>a. pull[p] \in PullState /\ pull \in [Puller -> PullState]
    BY <1>0 DEF CreationTyped
  <2>b. Listed(p).found = Others /\ NoPull.found = Others
    BY <2>a DEF Listed, PullState, NoPull
  <2>c. (pull'[p] = NoPull \/ pull'[p] = Listed(p)) /\ \A v \in Puller : v # p => pull'[v] = pull[v]
    BY <1>21, <2>a DEF SavePulled
  <2>d. pull[p].found # u
    BY DEF NoTrace
  <2>e. row'[u] = row[u]
    BY <1>0, <1>21, <2>d DEF SavePulled, CreationTyped
  <2>1. row'[u].remote = row[u].remote /\ editor'[u] \in {editor[u], NoRemote, Closed}
    BY <1>21, <2>e DEF SavePulled
  <2>2. queue'[u] = queue[u]
    BY <1>0, <1>21 DEF SavePulled, CreationTyped, CreatedRow, PullState, cache, NoTrace
  <2>3. \A v \in Process : memory'[v][u] \in {memory[v][u], NoRemote}
    BY <1>0, <1>21 DEF SavePulled, CreationTyped, CreatedRow, PullState, cache, NoTrace
  <2>4. \A v \in Puller : pull'[v] = pull[v] \/ pull'[v].found = Others
    BY <2>b, <2>c
  <2> QED BY <1>0, <2>1, <2>2, <2>3, <2>4, NoTraceStays
<1>22. ASSUME NEW p \in Puller, SaveImport(p) PROVE NoTrace(u)'
  <2>a. pull[p] \in PullState /\ pull \in [Puller -> PullState]
    BY <1>0 DEF CreationTyped
  <2>b. Listed(p).found = Others /\ NoPull.found = Others
    BY <2>a DEF Listed, PullState, NoPull
  <2>c. (pull'[p] = NoPull \/ pull'[p] = Listed(p)) /\ \A v \in Puller : v # p => pull'[v] = pull[v]
    BY <1>22, <2>a DEF SaveImport
  <2>1. row'[u].remote = row[u].remote /\ editor'[u] \in {editor[u], NoRemote, Closed}
    BY <1>0, <1>22 DEF SaveImport, CreationTyped, CreatedRow, PullState, cache, NoTrace
  <2>2. queue'[u] = queue[u]
    BY <1>0, <1>22 DEF SaveImport, CreationTyped, CreatedRow, PullState, cache, NoTrace
  <2>3. \A v \in Process : memory'[v][u] \in {memory[v][u], NoRemote}
    BY <1>0, <1>22 DEF SaveImport, CreationTyped, CreatedRow, PullState, cache, NoTrace
  <2>4. \A v \in Puller : pull'[v] = pull[v] \/ pull'[v].found = Others
    BY <2>b, <2>c
  <2> QED BY <1>0, <2>1, <2>2, <2>3, <2>4, NoTraceStays
<1>23. ASSUME NEW p \in Puller, DropMissing(p) PROVE NoTrace(u)'
  <2>1. row'[u].remote = row[u].remote /\ editor'[u] \in {editor[u], NoRemote, Closed}
    BY <1>0, <1>23 DEF DropMissing, NoPull, CreationTyped, CreatedRow, PullState, cache, NoTrace
  <2>2. queue'[u] = queue[u]
    BY <1>0, <1>23 DEF DropMissing, NoPull, CreationTyped, CreatedRow, PullState, cache, NoTrace
  <2>3. \A v \in Process : memory'[v][u] \in {memory[v][u], NoRemote}
    BY <1>0, <1>23 DEF DropMissing, NoPull, CreationTyped, CreatedRow, PullState, cache, NoTrace
  <2>4. \A v \in Puller : pull'[v] = pull[v] \/ pull'[v].found = Others
    BY <1>0, <1>23 DEF DropMissing, NoPull, CreationTyped, CreatedRow, PullState, cache, NoTrace
  <2> QED BY <1>0, <2>1, <2>2, <2>3, <2>4, NoTraceStays
<1>24. ASSUME NEW p \in Puller, PullFails(p) PROVE NoTrace(u)'
  <2>1. row'[u].remote = row[u].remote /\ editor'[u] \in {editor[u], NoRemote, Closed}
    BY <1>0, <1>24 DEF PullFails, NoPull, CreationTyped, CreatedRow, PullState, cache, NoTrace
  <2>2. queue'[u] = queue[u]
    BY <1>0, <1>24 DEF PullFails, NoPull, CreationTyped, CreatedRow, PullState, cache, NoTrace
  <2>3. \A v \in Process : memory'[v][u] \in {memory[v][u], NoRemote}
    BY <1>0, <1>24 DEF PullFails, NoPull, CreationTyped, CreatedRow, PullState, cache, NoTrace
  <2>4. \A v \in Puller : pull'[v] = pull[v] \/ pull'[v].found = Others
    BY <1>0, <1>24 DEF PullFails, NoPull, CreationTyped, CreatedRow, PullState, cache, NoTrace
  <2> QED BY <1>0, <2>1, <2>2, <2>3, <2>4, NoTraceStays
<1> QED
  BY <1>1, <1>2, <1>3, <1>4, <1>5, <1>6, <1>7, <1>8, <1>9, <1>10, <1>11, <1>12, <1>13, <1>14,
     <1>15, <1>16, <1>17, <1>18, <1>19, <1>20, <1>21, <1>22, <1>23, <1>24 DEF Next, UserStep,
     PushStep, PullStep, Fault

\* What a new remote task leaves behind is its id in the reply.
LEMMA NewIsFresh ==
  ASSUME CreationInv, NEW p \in Process, RemoteCreate(p), NEW t \in Task, push[p].task = t,
         "lost" \notin slips'[t]
  PROVE  NoTrace(t)'
<1>0. CreationTyped /\ Owned /\ PullShape /\ Others \notin Task
  BY CreationAssumption DEF CreationInv
<1>1. /\ \A q \in Process : memory[q][t] = NoRemote
      /\ \A r \in Remote : ~Bears(t, r)
  BY FirstOfItsTask
<1>2. /\ row[t].remote \in Rid /\ editor[t] \in Rid \cup {Closed}
      /\ \A i \in DOMAIN queue[t] : queue[t][i].remote \in Rid
  <2>1. row[t] \in CreatedRow /\ queue[t] \in Seq(Operation) /\ editor[t] \in Rid \cup {Closed}
    BY <1>0 DEF CreationTyped
  <2>2. \A i \in DOMAIN queue[t] : queue[t][i] \in Operation
    BY <2>1
  <2> QED BY <2>1, <2>2 DEF CreatedRow, Operation
<1>3. \A q \in Puller : pull[q].found = t => pull[q].id \in Remote
  BY <1>0 DEF CreationTyped, PullState, PullShape, Rid
<1>4. NoTrace(t)
  BY <1>1, <1>2, <1>3 DEF Bears, Names, Rid, NoTrace
<1> QED BY <1>4 DEF RemoteCreate, cache, NoTrace

LEMMA FreshKept ==
  ASSUME CreationInv, Next
  PROVE  CreatedIsFresh'
<1>0. CreationTyped /\ Owned /\ CreatedIsFresh /\ SlipsStay
  BY SlipsKept DEF CreationInv
<1>1. ASSUME NEW p \in Process, NEW t \in Task, push'[p].at = "created", push'[p].task = t
      PROVE  /\ outcome'[t] = "queued"
             /\ memory'[p][t] = NoRemote
             /\ "lost" \notin slips'[t] => NoTrace(t)'
  <2>1. CASE RemoteCreate(p)
    <3>1. push[p].task = t
      BY <1>0, <1>1, <2>1, ReplyNoted
    <3>2. UNCHANGED <<outcome, memory>>
      BY <2>1 DEF RemoteCreate
    <3> QED BY <2>1, <3>1, <3>2, FirstOfItsTask, NewIsFresh
  <2>2. CASE ~RemoteCreate(p)
    <3>1. /\ push'[p] = push[p] /\ outcome'[t] = outcome[t] /\ memory'[p][t] = memory[p][t]
      BY <1>1, <2>2, CreatedStays
    <3>2. /\ outcome[t] = "queued" /\ memory[p][t] = NoRemote
          /\ "lost" \notin slips'[t] => NoTrace(t)
      BY <1>0, <1>1, <3>1 DEF CreatedIsFresh, SlipsStay
    <3> QED BY <1>1, <3>1, <3>2, NoTraceKept
  <2> QED BY <2>1, <2>2
<1> QED BY <1>1 DEF CreatedIsFresh

-----------------------------------------------------------------------------
(* The row has the identity first.                                            *)

\* The row keeps the identity it has, unless something goes wrong for its task.
LEMMA RowKept ==
  ASSUME CreationInv, Next, NEW u \in Task, NEW s \in Remote, slips'[u] = {}, row[u].remote = s
  PROVE  row'[u].remote = s
<1>0. CreationTyped /\ Owned /\ PullShape /\ OneIdentity
  BY CreationAssumption DEF CreationInv
<1>1. ASSUME NEW t \in Task, CreateTask(t) PROVE row'[u].remote = s
  BY <1>0, <1>1 DEF CreateTask, CreationTyped, CreatedRow, cache, provider, Rid, Remote,
     Closed, NoRemote, Slip
<1>2. ASSUME NEW t \in Task, BeginEdit(t) PROVE row'[u].remote = s
  BY <1>0, <1>2 DEF BeginEdit, CreationTyped, CreatedRow, cache, provider, Rid, Remote,
     Closed, NoRemote, Slip
<1>3. ASSUME NEW t \in Task, SaveEdit(t) PROVE row'[u].remote = s
  <2>1. t = u => editor[t] = row[t].remote
    BY <1>0, <1>3 DEF SaveEdit, CreationTyped
  <2> QED BY <1>0, <1>3, <2>1 DEF SaveEdit, CreationTyped
<1>4. ASSUME NEW t \in Task, SaveEditFails(t) PROVE row'[u].remote = s
  BY <1>0, <1>4 DEF SaveEditFails, CreationTyped, CreatedRow, cache, provider, Rid, Remote,
     Closed, NoRemote, Slip
<1>5. ASSUME OthersCreate PROVE row'[u].remote = s
  BY <1>0, <1>5 DEF OthersCreate, CreationTyped, CreatedRow, cache, provider, Rid, Remote,
     Closed, NoRemote, Slip
<1>6. ASSUME NEW r \in Remote, OthersDelete(r) PROVE row'[u].remote = s
  BY <1>0, <1>6 DEF OthersDelete, CreationTyped, CreatedRow, cache, provider, Rid, Remote,
     Closed, NoRemote, Slip
<1>7. ASSUME NEW p \in Process, NEW t \in Task, Claim(p, t) PROVE row'[u].remote = s
  BY <1>0, <1>7 DEF Claim, Pushing, Mine, NoPush, CreationTyped, CreatedRow, cache, provider,
     Rid, Remote, Closed, NoRemote, Slip
<1>8. ASSUME NEW p \in Process, RemoteCreate(p) PROVE row'[u].remote = s
  BY <1>0, <1>8 DEF RemoteCreate, Pushing, Mine, Creating, CreationTyped, CreatedRow, cache,
     provider, Rid, Remote, Closed, NoRemote, Slip
<1>9. ASSUME NEW p \in Process, RemoteUpdate(p) PROVE row'[u].remote = s
  BY <1>0, <1>9 DEF RemoteUpdate, Pushing, Mine, CreationTyped, CreatedRow, cache, provider,
     Rid, Remote, Closed, NoRemote, Slip
<1>10. ASSUME NEW p \in Process, StoreReply(p) PROVE row'[u].remote = s
  <2>1. push[p].task \in Task /\ push[p].got \in Remote
    BY <1>0, <1>10 DEF StoreReply, CreationTyped, PushState, Owned, Rid
  <2>2. CASE push[p].task = u
    <3>1. "lost" \notin slips[u]
      BY <1>10 DEF StoreReply
    <3>2. Bears(u, s) /\ Bears(u, push[p].got)
      BY <2>2 DEF Bears, Names
    <3>3. s = push[p].got
      BY <1>0, <2>1, <3>1, <3>2 DEF OneIdentity
    <3> QED BY <1>0, <1>10, <2>2, <3>3 DEF StoreReply, Mine, Absent, CreationTyped
  <2>3. CASE push[p].task # u
    BY <1>0, <1>10, <2>3 DEF StoreReply, Mine, CreationTyped
  <2> QED BY <2>2, <2>3
<1>11. ASSUME NEW p \in Process, SaveBase(p) PROVE row'[u].remote = s
  BY <1>0, <1>11 DEF SaveBase, Pushing, Mine, Creating, CreationTyped, CreatedRow, cache,
     provider, Rid, Remote, Closed, NoRemote, Slip
<1>12. ASSUME NEW p \in Process, Complete(p) PROVE row'[u].remote = s
  BY <1>0, <1>12 DEF Complete, Settle, Pushing, Mine, Creating, NoPush, CreationTyped,
     CreatedRow, cache, provider, Rid, Remote, Closed, NoRemote, Slip
<1>13. ASSUME NEW p \in Process, Reject(p) PROVE row'[u].remote = s
  BY <1>0, <1>13 DEF Reject, Settle, Pushing, Mine, Creating, NoPush, TakenFrom,
     CreationTyped, CreatedRow, cache, provider, Rid, Remote, Closed, NoRemote, Slip
<1>14. ASSUME NEW p \in Process, Refuse(p) PROVE row'[u].remote = s
  BY <1>0, <1>14 DEF Refuse, Settle, Pushing, Mine, Creating, NoPush, CreationTyped,
     CreatedRow, cache, provider, Rid, Remote, Closed, NoRemote, Slip
<1>15. ASSUME NEW p \in Process, Missing(p) PROVE row'[u].remote = s
  BY <1>0, <1>15 DEF Missing, GiveBack, Pushing, NoPush, CreationTyped, CreatedRow, cache,
     provider, Rid, Remote, Closed, NoRemote, Slip
<1>16. ASSUME NEW p \in Process, Retry(p) PROVE row'[u].remote = s
  BY <1>0, <1>16 DEF Retry, GiveBack, Pushing, NoPush, Mine, Creating, Forgets, CreationTyped,
     CreatedRow, cache, provider, Rid, Remote, Closed, NoRemote, Slip
<1>17. ASSUME NEW p \in Process, RollBack(p) PROVE row'[u].remote = s
  BY <1>0, <1>17 DEF RollBack, GiveBack, Pushing, NoPush, CreationTyped, CreatedRow, cache,
     provider, Rid, Remote, Closed, NoRemote, Slip
<1>18. ASSUME NEW p \in Process, Crash(p) PROVE row'[u].remote = s
  BY <1>0, <1>18 DEF Crash, NoPush, NoPull, Mine, Creating, CreationTyped, CreatedRow, cache,
     provider, Rid, Remote, Closed, NoRemote, Slip
<1>19. ASSUME NEW p \in Puller, Fetch(p) PROVE row'[u].remote = s
  BY <1>0, <1>19 DEF Fetch, NoPull, Pushing, Mine, CreationTyped, CreatedRow, cache, provider,
     Rid, Remote, Closed, NoRemote, Slip
<1>20. ASSUME NEW p \in Puller, NEW r \in Remote, LookUp(p, r) PROVE row'[u].remote = s
  BY <1>0, <1>20, LookUpChanges DEF cache
<1>21. ASSUME NEW p \in Puller, SavePulled(p) PROVE row'[u].remote = s
  <2>1. pull[p] \in PullState
    BY <1>0 DEF CreationTyped
  <2>2. pull[p].id \in Remote
    BY <1>0, <1>21, <2>1 DEF SavePulled, PullState, PullShape, Rid
  <2>3. CASE pull[p].found = u
    <3>1. "lost" \notin slips[u]
      BY <1>21 DEF SavePulled
    <3>2. Bears(u, s) /\ Bears(u, pull[p].id)
      BY <2>3 DEF Bears, Names
    <3>3. s = pull[p].id
      BY <1>0, <2>2, <3>1, <3>2 DEF OneIdentity
    <3>4. row' = row \/ row' = [row EXCEPT ![u] = [Absent EXCEPT !.remote = s]]
      BY <1>21, <2>3, <3>3 DEF SavePulled
    <3> QED BY <1>0, <3>4 DEF Absent, CreationTyped
  <2>4. CASE pull[p].found # u
    BY <1>0, <1>21, <2>4 DEF SavePulled, CreationTyped
  <2> QED BY <2>3, <2>4
<1>22. ASSUME NEW p \in Puller, SaveImport(p) PROVE row'[u].remote = s
  BY <1>0, <1>22 DEF SaveImport, NoPull, Listed, CreationTyped, CreatedRow, cache, provider,
     Rid, Remote, Closed, NoRemote, Slip
<1>23. ASSUME NEW p \in Puller, DropMissing(p) PROVE row'[u].remote = s
  BY <1>0, <1>23 DEF DropMissing, NoPull, CreationTyped, CreatedRow, cache, provider, Rid,
     Remote, Closed, NoRemote, Slip
<1>24. ASSUME NEW p \in Puller, PullFails(p) PROVE row'[u].remote = s
  BY <1>0, <1>24 DEF PullFails, NoPull, CreationTyped, CreatedRow, cache, provider, Rid,
     Remote, Closed, NoRemote, Slip
<1> QED
  BY <1>1, <1>2, <1>3, <1>4, <1>5, <1>6, <1>7, <1>8, <1>9, <1>10, <1>11, <1>12, <1>13, <1>14,
     <1>15, <1>16, <1>17, <1>18, <1>19, <1>20, <1>21, <1>22, <1>23, <1>24 DEF Next, UserStep,
     PushStep, PullStep, Fault

\* A reply on its way reaches the row, unless something goes wrong for its task.
LEMMA WayKept ==
  ASSUME CreationInv, Next, NEW u \in Task, NEW s \in Remote, slips'[u] = {}, slips[u] = {},
         OnItsWay(u, s), s \in live'
  PROVE  row'[u].remote = s \/ OnItsWay(u, s)'
<1>0. CreationTyped /\ Owned /\ QueueShape /\ NamedIsMade /\ CreatedIsFresh /\ PullShape /\
      OneIdentity /\ RowIsFirst
  BY CreationAssumption DEF CreationInv
<1>1. ASSUME NEW t \in Task, CreateTask(t) PROVE row'[u].remote = s \/ OnItsWay(u, s)'
  BY <1>0, <1>1 DEF CreateTask, CreationTyped, Owned, OnItsWay, cache, provider, Rid, Remote,
     Closed, NoRemote, Slip
<1>2. ASSUME NEW t \in Task, BeginEdit(t) PROVE row'[u].remote = s \/ OnItsWay(u, s)'
  BY <1>0, <1>2 DEF BeginEdit, CreationTyped, Owned, OnItsWay, cache, provider, Rid, Remote,
     Closed, NoRemote, Slip
<1>3. ASSUME NEW t \in Task, SaveEdit(t) PROVE row'[u].remote = s \/ OnItsWay(u, s)'
  BY <1>0, <1>3 DEF SaveEdit, CreationTyped, Owned, OnItsWay, cache, provider, Rid, Remote,
     Closed, NoRemote, Slip
<1>4. ASSUME NEW t \in Task, SaveEditFails(t) PROVE row'[u].remote = s \/ OnItsWay(u, s)'
  BY <1>0, <1>4 DEF SaveEditFails, CreationTyped, Owned, OnItsWay, cache, provider, Rid,
     Remote, Closed, NoRemote, Slip
<1>5. ASSUME OthersCreate PROVE row'[u].remote = s \/ OnItsWay(u, s)'
  BY <1>0, <1>5 DEF OthersCreate, CreationTyped, Owned, OnItsWay, cache, provider, Rid,
     Remote, Closed, NoRemote, Slip
<1>6. ASSUME NEW r \in Remote, OthersDelete(r) PROVE row'[u].remote = s \/ OnItsWay(u, s)'
  BY <1>0, <1>6 DEF OthersDelete, CreationTyped, Owned, OnItsWay, cache, provider, Rid,
     Remote, Closed, NoRemote, Slip
<1>7. ASSUME NEW p \in Process, NEW t \in Task, Claim(p, t) PROVE row'[u].remote = s \/ OnItsWay(u, s)'
  <2>1. PICK q \in Process : push[q].at = "created" /\ push[q].task = u /\ push[q].got = s
    BY DEF OnItsWay
  <2>2. \A v \in Process : v # p => push'[v] = push[v]
    BY <1>0, <1>7 DEF Claim, CreationTyped
  <2>3. CASE q # p
    BY <2>1, <2>2, <2>3 DEF OnItsWay
  <2>4. CASE q = p
    BY <1>7, <2>1, <2>4 DEF Claim, Pushing
  <2> QED BY <2>3, <2>4
<1>8. ASSUME NEW p \in Process, RemoteCreate(p) PROVE row'[u].remote = s \/ OnItsWay(u, s)'
  BY <1>0, <1>8, ReplyNoted DEF RemoteCreate, Pushing, OnItsWay
<1>9. ASSUME NEW p \in Process, RemoteUpdate(p) PROVE row'[u].remote = s \/ OnItsWay(u, s)'
  BY <1>0, <1>9, ReplyNoted DEF RemoteUpdate, Pushing, OnItsWay
<1>10. ASSUME NEW p \in Process, StoreReply(p) PROVE row'[u].remote = s \/ OnItsWay(u, s)'
  <2>1. PICK q \in Process : push[q].at = "created" /\ push[q].task = u /\ push[q].got = s
    BY DEF OnItsWay
  <2>2. \A v \in Process : v # p => push'[v] = push[v]
    BY <1>0, <1>10 DEF StoreReply, CreationTyped
  <2>3. CASE q # p
    BY <2>1, <2>2, <2>3 DEF OnItsWay
  <2>4. CASE q = p
    <3>1. row' = [row EXCEPT ![u] = [Absent EXCEPT !.remote = s]]
      BY <1>10, <2>1, <2>4 DEF StoreReply, Mine
    <3> QED BY <1>0, <3>1 DEF Absent, CreationTyped
  <2> QED BY <2>3, <2>4
<1>11. ASSUME NEW p \in Process, SaveBase(p) PROVE row'[u].remote = s \/ OnItsWay(u, s)'
  <2>1. PICK q \in Process : push[q].at = "created" /\ push[q].task = u /\ push[q].got = s
    BY DEF OnItsWay
  <2>2. \A v \in Process : v # p => push'[v] = push[v]
    BY <1>0, <1>11 DEF SaveBase, CreationTyped
  <2>3. CASE q # p
    BY <2>1, <2>2, <2>3 DEF OnItsWay
  <2>4. CASE q = p
    BY <1>11, <2>1, <2>4 DEF SaveBase, Pushing
  <2> QED BY <2>3, <2>4
<1>12. ASSUME NEW p \in Process, Complete(p) PROVE row'[u].remote = s \/ OnItsWay(u, s)'
  <2>1. PICK q \in Process : push[q].at = "created" /\ push[q].task = u /\ push[q].got = s
    BY DEF OnItsWay
  <2>2. \A v \in Process : v # p => push'[v] = push[v]
    BY <1>0, <1>12 DEF Complete, Settle, CreationTyped
  <2>3. CASE q # p
    BY <2>1, <2>2, <2>3 DEF OnItsWay
  <2>4. CASE q = p
    BY <1>12, <2>1, <2>4 DEF Complete, Pushing
  <2> QED BY <2>3, <2>4
<1>13. ASSUME NEW p \in Process, Reject(p) PROVE row'[u].remote = s \/ OnItsWay(u, s)'
  <2>1. PICK q \in Process : push[q].at = "created" /\ push[q].task = u /\ push[q].got = s
    BY DEF OnItsWay
  <2>2. \A v \in Process : v # p => push'[v] = push[v]
    BY <1>0, <1>13 DEF Reject, Settle, CreationTyped
  <2>3. CASE q # p
    BY <2>1, <2>2, <2>3 DEF OnItsWay
  <2>4. CASE q = p
    <3>1. Names(u, s) /\ MadeFor(u, s)
      BY <1>0, <2>1 DEF Names, NamedIsMade
    <3>2. imported[s] = "no"
      BY <1>0, <3>1 DEF RowIsFirst
    <3>3. \A v \in Task \ {u} : row[v].remote # s
      BY <1>0, <3>1 DEF Names, NamedIsMade, MadeFor
    <3> QED BY <1>13, <2>1, <2>4, <3>2, <3>3 DEF Reject, Pushing, TakenFrom, Mine
  <2> QED BY <2>3, <2>4
<1>14. ASSUME NEW p \in Process, Refuse(p) PROVE row'[u].remote = s \/ OnItsWay(u, s)'
  <2>1. PICK q \in Process : push[q].at = "created" /\ push[q].task = u /\ push[q].got = s
    BY DEF OnItsWay
  <2>2. \A v \in Process : v # p => push'[v] = push[v]
    BY <1>0, <1>14 DEF Refuse, Settle, CreationTyped
  <2>3. CASE q # p
    BY <2>1, <2>2, <2>3 DEF OnItsWay
  <2>4. CASE q = p
    BY <1>14, <2>1, <2>4 DEF Refuse, Pushing
  <2> QED BY <2>3, <2>4
<1>15. ASSUME NEW p \in Process, Missing(p) PROVE row'[u].remote = s \/ OnItsWay(u, s)'
  <2>1. PICK q \in Process : push[q].at = "created" /\ push[q].task = u /\ push[q].got = s
    BY DEF OnItsWay
  <2>2. \A v \in Process : v # p => push'[v] = push[v]
    BY <1>0, <1>15 DEF Missing, GiveBack, CreationTyped
  <2>3. CASE q # p
    BY <2>1, <2>2, <2>3 DEF OnItsWay
  <2>4. CASE q = p
    BY <1>15, <2>1, <2>4 DEF Missing, Pushing
  <2> QED BY <2>3, <2>4
<1>16. ASSUME NEW p \in Process, Retry(p) PROVE row'[u].remote = s \/ OnItsWay(u, s)'
  <2>1. PICK q \in Process : push[q].at = "created" /\ push[q].task = u /\ push[q].got = s
    BY DEF OnItsWay
  <2>2. \A v \in Process : v # p => push'[v] = push[v]
    BY <1>0, <1>16 DEF Retry, GiveBack, CreationTyped
  <2>3. CASE q # p
    BY <2>1, <2>2, <2>3 DEF OnItsWay
  <2>4. CASE q = p
    <3>1. outcome[u] = "queued" /\ memory[p][u] = NoRemote
      BY <1>0, <2>1, <2>4 DEF CreatedIsFresh
    <3>2. Creating(p)
      BY <1>0, <2>1, <2>4, <3>1, CreatingIsQueued, CreationAssumption
    <3>3. slips' = [slips EXCEPT ![u] = @ \cup {"lost"}]
      BY <1>16, <2>1, <2>4, <3>1, <3>2 DEF Retry, Mine, Forgets
    <3> QED BY <1>0, <3>3 DEF CreationTyped
  <2> QED BY <2>3, <2>4
<1>17. ASSUME NEW p \in Process, RollBack(p) PROVE row'[u].remote = s \/ OnItsWay(u, s)'
  <2>1. PICK q \in Process : push[q].at = "created" /\ push[q].task = u /\ push[q].got = s
    BY DEF OnItsWay
  <2>2. \A v \in Process : v # p => push'[v] = push[v]
    BY <1>0, <1>17 DEF RollBack, GiveBack, CreationTyped
  <2>3. CASE q # p
    BY <2>1, <2>2, <2>3 DEF OnItsWay
  <2>4. CASE q = p
    BY <1>17, <2>1, <2>4 DEF RollBack
  <2> QED BY <2>3, <2>4
<1>18. ASSUME NEW p \in Process, Crash(p) PROVE row'[u].remote = s \/ OnItsWay(u, s)'
  <2>1. PICK q \in Process : push[q].at = "created" /\ push[q].task = u /\ push[q].got = s
    BY DEF OnItsWay
  <2>2. \A v \in Process : v # p => push'[v] = push[v]
    BY <1>0, <1>18 DEF Crash, CreationTyped
  <2>3. CASE q # p
    BY <2>1, <2>2, <2>3 DEF OnItsWay
  <2>4. CASE q = p
    <3>1. outcome[u] = "queued"
      BY <1>0, <2>1, <2>4 DEF CreatedIsFresh
    <3>2. Creating(p)
      BY <1>0, <2>1, <2>4, <3>1, CreatingIsQueued, CreationAssumption
    <3>3. slips'[u] = slips[u] \cup {"lost"}
      BY <1>18, <2>1, <2>4, <3>2 DEF Crash, Mine
    <3> QED BY <3>3
  <2> QED BY <2>3, <2>4
<1>19. ASSUME NEW p \in Puller, Fetch(p) PROVE row'[u].remote = s \/ OnItsWay(u, s)'
  BY <1>0, <1>19 DEF Fetch, NoPull, Pushing, Mine, CreationTyped, Owned, OnItsWay, cache,
     provider, Rid, Remote, Closed, NoRemote, Slip
<1>20. ASSUME NEW p \in Puller, NEW r \in Remote, LookUp(p, r) PROVE row'[u].remote = s \/ OnItsWay(u, s)'
  BY <1>0, <1>20, LookUpChanges DEF OnItsWay
<1>21. ASSUME NEW p \in Puller, SavePulled(p) PROVE row'[u].remote = s \/ OnItsWay(u, s)'
  BY <1>21 DEF SavePulled, OnItsWay
<1>22. ASSUME NEW p \in Puller, SaveImport(p) PROVE row'[u].remote = s \/ OnItsWay(u, s)'
  BY <1>22 DEF SaveImport, OnItsWay
<1>23. ASSUME NEW p \in Puller, DropMissing(p) PROVE row'[u].remote = s \/ OnItsWay(u, s)'
  BY <1>0, <1>23 DEF DropMissing, NoPull, CreationTyped, Owned, OnItsWay, cache, provider,
     Rid, Remote, Closed, NoRemote, Slip
<1>24. ASSUME NEW p \in Puller, PullFails(p) PROVE row'[u].remote = s \/ OnItsWay(u, s)'
  BY <1>0, <1>24 DEF PullFails, NoPull, CreationTyped, Owned, OnItsWay, cache, provider, Rid,
     Remote, Closed, NoRemote, Slip
<1> QED
  BY <1>1, <1>2, <1>3, <1>4, <1>5, <1>6, <1>7, <1>8, <1>9, <1>10, <1>11, <1>12, <1>13, <1>14,
     <1>15, <1>16, <1>17, <1>18, <1>19, <1>20, <1>21, <1>22, <1>23, <1>24 DEF Next, UserStep,
     PushStep, PullStep, Fault

\* A pull takes up what is live when it lists, and no more; who lists while a reply is
\* on its way has crossed it.
TakesUp(q, s) ==
  \/ s \in pull[q].todo \cup {pull[q].id}
  \/ s \in live /\ \A t \in Task : OnItsWay(t, s) => "crossed" \in slips'[t]

LEMMA TodoKept ==
  ASSUME CreationInv, Next, NEW q \in Puller, NEW s \in Remote,
         s \in pull'[q].todo \cup {pull'[q].id}
  PROVE  TakesUp(q, s)
<1>0. CreationTyped /\ PullShape
  BY CreationAssumption DEF CreationInv
<1>1. ASSUME NEW t \in Task, CreateTask(t) PROVE TakesUp(q, s)
  BY <1>0, <1>1 DEF CreateTask, cache, provider, CreationTyped, TakesUp, Rid, Remote, Closed,
     NoRemote, Slip
<1>2. ASSUME NEW t \in Task, BeginEdit(t) PROVE TakesUp(q, s)
  BY <1>0, <1>2 DEF BeginEdit, cache, provider, CreationTyped, TakesUp, Rid, Remote, Closed,
     NoRemote, Slip
<1>3. ASSUME NEW t \in Task, SaveEdit(t) PROVE TakesUp(q, s)
  BY <1>0, <1>3 DEF SaveEdit, cache, provider, CreationTyped, TakesUp, Rid, Remote, Closed,
     NoRemote, Slip
<1>4. ASSUME NEW t \in Task, SaveEditFails(t) PROVE TakesUp(q, s)
  BY <1>0, <1>4 DEF SaveEditFails, cache, provider, CreationTyped, TakesUp, Rid, Remote,
     Closed, NoRemote, Slip
<1>5. ASSUME OthersCreate PROVE TakesUp(q, s)
  BY <1>0, <1>5 DEF OthersCreate, cache, provider, CreationTyped, TakesUp, Rid, Remote,
     Closed, NoRemote, Slip
<1>6. ASSUME NEW r \in Remote, OthersDelete(r) PROVE TakesUp(q, s)
  BY <1>0, <1>6 DEF OthersDelete, cache, provider, CreationTyped, TakesUp, Rid, Remote,
     Closed, NoRemote, Slip
<1>7. ASSUME NEW p \in Process, NEW t \in Task, Claim(p, t) PROVE TakesUp(q, s)
  BY <1>0, <1>7 DEF Claim, Pushing, Mine, NoPush, cache, provider, CreationTyped, TakesUp,
     Rid, Remote, Closed, NoRemote, Slip
<1>8. ASSUME NEW p \in Process, RemoteCreate(p) PROVE TakesUp(q, s)
  BY <1>0, <1>8 DEF RemoteCreate, Pushing, Mine, Creating, cache, provider, CreationTyped,
     TakesUp, Rid, Remote, Closed, NoRemote, Slip
<1>9. ASSUME NEW p \in Process, RemoteUpdate(p) PROVE TakesUp(q, s)
  BY <1>0, <1>9 DEF RemoteUpdate, Pushing, Mine, cache, provider, CreationTyped, TakesUp, Rid,
     Remote, Closed, NoRemote, Slip
<1>10. ASSUME NEW p \in Process, StoreReply(p) PROVE TakesUp(q, s)
  BY <1>0, <1>10 DEF StoreReply, Mine, Absent, cache, provider, CreationTyped, TakesUp, Rid,
     Remote, Closed, NoRemote, Slip
<1>11. ASSUME NEW p \in Process, SaveBase(p) PROVE TakesUp(q, s)
  BY <1>0, <1>11 DEF SaveBase, Pushing, Mine, Creating, cache, provider, CreationTyped,
     TakesUp, Rid, Remote, Closed, NoRemote, Slip
<1>12. ASSUME NEW p \in Process, Complete(p) PROVE TakesUp(q, s)
  BY <1>0, <1>12 DEF Complete, Settle, Pushing, Mine, Creating, NoPush, cache, provider,
     CreationTyped, TakesUp, Rid, Remote, Closed, NoRemote, Slip
<1>13. ASSUME NEW p \in Process, Reject(p) PROVE TakesUp(q, s)
  BY <1>0, <1>13 DEF Reject, Settle, Pushing, Mine, Creating, NoPush, TakenFrom, cache,
     provider, CreationTyped, TakesUp, Rid, Remote, Closed, NoRemote, Slip
<1>14. ASSUME NEW p \in Process, Refuse(p) PROVE TakesUp(q, s)
  BY <1>0, <1>14 DEF Refuse, Settle, Pushing, Mine, Creating, NoPush, cache, provider,
     CreationTyped, TakesUp, Rid, Remote, Closed, NoRemote, Slip
<1>15. ASSUME NEW p \in Process, Missing(p) PROVE TakesUp(q, s)
  BY <1>0, <1>15 DEF Missing, GiveBack, Pushing, NoPush, cache, provider, CreationTyped,
     TakesUp, Rid, Remote, Closed, NoRemote, Slip
<1>16. ASSUME NEW p \in Process, Retry(p) PROVE TakesUp(q, s)
  BY <1>0, <1>16 DEF Retry, GiveBack, Pushing, NoPush, Mine, Creating, Forgets, cache,
     provider, CreationTyped, TakesUp, Rid, Remote, Closed, NoRemote, Slip
<1>17. ASSUME NEW p \in Process, RollBack(p) PROVE TakesUp(q, s)
  BY <1>0, <1>17 DEF RollBack, GiveBack, Pushing, NoPush, cache, provider, CreationTyped,
     TakesUp, Rid, Remote, Closed, NoRemote, Slip
<1>18. ASSUME NEW p \in Process, Crash(p) PROVE TakesUp(q, s)
  BY <1>0, <1>18 DEF Crash, NoPull, TakesUp, Remote, NoRemote
<1>19. ASSUME NEW p \in Puller, Fetch(p) PROVE TakesUp(q, s)
  <2>1. pull'[p].todo = live /\ pull'[p].id = NoRemote /\ \A v \in Puller : v # p => pull'[v] = pull[v]
    BY <1>0, <1>19 DEF Fetch, NoPull, CreationTyped
  <2>2. \A t \in Task : OnItsWay(t, s) => "crossed" \in slips'[t]
    BY <1>19 DEF Fetch, OnItsWay, Pushing, Mine
  <2> QED BY <2>1, <2>2 DEF TakesUp, Remote, NoRemote
<1>20. ASSUME NEW p \in Puller, NEW r \in Remote, LookUp(p, r) PROVE TakesUp(q, s)
  <2>1. r \in pull[p].todo /\ \A v \in Puller : v # p => pull'[v] = pull[v]
    BY <1>0, <1>20, LookUpChanges
  <2>2. pull'[p].todo \subseteq pull[p].todo /\ pull'[p].id \in {pull[p].id, r}
    BY <1>0, <1>20, LookUpChanges
  <2> QED BY <2>1, <2>2 DEF TakesUp
<1>21. ASSUME NEW p \in Puller, SavePulled(p) PROVE TakesUp(q, s)
  <2>a. pull[p] \in PullState /\ pull \in [Puller -> PullState]
    BY <1>0 DEF CreationTyped
  <2>b. /\ Listed(p).id = NoRemote /\ NoPull.id = NoRemote
        /\ Listed(p).todo = pull[p].todo /\ NoPull.todo = {}
    BY <2>a DEF Listed, PullState, NoPull
  <2>c. (pull'[p] = NoPull \/ pull'[p] = Listed(p)) /\ \A v \in Puller : v # p => pull'[v] = pull[v]
    BY <1>21, <2>a DEF SavePulled
  <2> QED BY <2>b, <2>c DEF TakesUp, Remote, NoRemote
<1>22. ASSUME NEW p \in Puller, SaveImport(p) PROVE TakesUp(q, s)
  <2>a. pull[p] \in PullState /\ pull \in [Puller -> PullState]
    BY <1>0 DEF CreationTyped
  <2>b. /\ Listed(p).id = NoRemote /\ NoPull.id = NoRemote
        /\ Listed(p).todo = pull[p].todo /\ NoPull.todo = {}
    BY <2>a DEF Listed, PullState, NoPull
  <2>c. (pull'[p] = NoPull \/ pull'[p] = Listed(p)) /\ \A v \in Puller : v # p => pull'[v] = pull[v]
    BY <1>22, <2>a DEF SaveImport
  <2> QED BY <2>b, <2>c DEF TakesUp, Remote, NoRemote
<1>23. ASSUME NEW p \in Puller, DropMissing(p) PROVE TakesUp(q, s)
  BY <1>0, <1>23 DEF DropMissing, NoPull, cache, provider, CreationTyped, TakesUp, Rid,
     Remote, Closed, NoRemote, Slip
<1>24. ASSUME NEW p \in Puller, PullFails(p) PROVE TakesUp(q, s)
  BY <1>0, <1>24 DEF PullFails, NoPull, cache, provider, CreationTyped, TakesUp, Rid, Remote,
     Closed, NoRemote, Slip
<1> QED
  BY <1>1, <1>2, <1>3, <1>4, <1>5, <1>6, <1>7, <1>8, <1>9, <1>10, <1>11, <1>12, <1>13, <1>14,
     <1>15, <1>16, <1>17, <1>18, <1>19, <1>20, <1>21, <1>22, <1>23, <1>24 DEF Next, UserStep,
     PushStep, PullStep, Fault

\* A pull imports what it has found in no row.
HeldByNone(s) == (\E q \in Puller : s = pull[q].id) /\ \A t \in Task : row[t].remote # s

LEMMA ImportsAreNew ==
  ASSUME CreationInv, Next, NEW s \in Remote, imported'[s] # "no"
  PROVE  imported[s] # "no" \/ HeldByNone(s)
<1>0. CreationTyped
  BY CreationAssumption DEF CreationInv
<1>1. ASSUME NEW t \in Task, CreateTask(t) PROVE imported[s] # "no" \/ HeldByNone(s)
  BY <1>0, <1>1 DEF CreateTask, CreationTyped, cache, provider, Rid, Remote, Closed, NoRemote,
     Slip
<1>2. ASSUME NEW t \in Task, BeginEdit(t) PROVE imported[s] # "no" \/ HeldByNone(s)
  BY <1>0, <1>2 DEF BeginEdit, CreationTyped, cache, provider, Rid, Remote, Closed, NoRemote,
     Slip
<1>3. ASSUME NEW t \in Task, SaveEdit(t) PROVE imported[s] # "no" \/ HeldByNone(s)
  BY <1>0, <1>3 DEF SaveEdit, CreationTyped, cache, provider, Rid, Remote, Closed, NoRemote,
     Slip
<1>4. ASSUME NEW t \in Task, SaveEditFails(t) PROVE imported[s] # "no" \/ HeldByNone(s)
  BY <1>0, <1>4 DEF SaveEditFails, CreationTyped, cache, provider, Rid, Remote, Closed,
     NoRemote, Slip
<1>5. ASSUME OthersCreate PROVE imported[s] # "no" \/ HeldByNone(s)
  BY <1>0, <1>5 DEF OthersCreate, CreationTyped, cache, provider, Rid, Remote, Closed,
     NoRemote, Slip
<1>6. ASSUME NEW r \in Remote, OthersDelete(r) PROVE imported[s] # "no" \/ HeldByNone(s)
  BY <1>0, <1>6 DEF OthersDelete, CreationTyped, cache, provider, Rid, Remote, Closed,
     NoRemote, Slip
<1>7. ASSUME NEW p \in Process, NEW t \in Task, Claim(p, t) PROVE imported[s] # "no" \/ HeldByNone(s)
  BY <1>0, <1>7 DEF Claim, Pushing, Mine, NoPush, CreationTyped, cache, provider, Rid, Remote,
     Closed, NoRemote, Slip
<1>8. ASSUME NEW p \in Process, RemoteCreate(p) PROVE imported[s] # "no" \/ HeldByNone(s)
  BY <1>0, <1>8 DEF RemoteCreate, Pushing, Mine, Creating, CreationTyped, cache, provider,
     Rid, Remote, Closed, NoRemote, Slip
<1>9. ASSUME NEW p \in Process, RemoteUpdate(p) PROVE imported[s] # "no" \/ HeldByNone(s)
  BY <1>0, <1>9 DEF RemoteUpdate, Pushing, Mine, CreationTyped, cache, provider, Rid, Remote,
     Closed, NoRemote, Slip
<1>10. ASSUME NEW p \in Process, StoreReply(p) PROVE imported[s] # "no" \/ HeldByNone(s)
  BY <1>0, <1>10 DEF StoreReply, Mine, Absent, CreationTyped, cache, provider, Rid, Remote,
     Closed, NoRemote, Slip
<1>11. ASSUME NEW p \in Process, SaveBase(p) PROVE imported[s] # "no" \/ HeldByNone(s)
  BY <1>0, <1>11 DEF SaveBase, Pushing, Mine, Creating, CreationTyped, cache, provider, Rid,
     Remote, Closed, NoRemote, Slip
<1>12. ASSUME NEW p \in Process, Complete(p) PROVE imported[s] # "no" \/ HeldByNone(s)
  BY <1>0, <1>12 DEF Complete, Settle, Pushing, Mine, Creating, NoPush, CreationTyped, cache,
     provider, Rid, Remote, Closed, NoRemote, Slip
<1>13. ASSUME NEW p \in Process, Reject(p) PROVE imported[s] # "no" \/ HeldByNone(s)
  BY <1>0, <1>13 DEF Reject, Settle, Pushing, Mine, Creating, NoPush, TakenFrom,
     CreationTyped, cache, provider, Rid, Remote, Closed, NoRemote, Slip
<1>14. ASSUME NEW p \in Process, Refuse(p) PROVE imported[s] # "no" \/ HeldByNone(s)
  BY <1>0, <1>14 DEF Refuse, Settle, Pushing, Mine, Creating, NoPush, CreationTyped, cache,
     provider, Rid, Remote, Closed, NoRemote, Slip
<1>15. ASSUME NEW p \in Process, Missing(p) PROVE imported[s] # "no" \/ HeldByNone(s)
  BY <1>0, <1>15 DEF Missing, GiveBack, Pushing, NoPush, CreationTyped, cache, provider, Rid,
     Remote, Closed, NoRemote, Slip
<1>16. ASSUME NEW p \in Process, Retry(p) PROVE imported[s] # "no" \/ HeldByNone(s)
  BY <1>0, <1>16 DEF Retry, GiveBack, Pushing, NoPush, Mine, Creating, Forgets, CreationTyped,
     cache, provider, Rid, Remote, Closed, NoRemote, Slip
<1>17. ASSUME NEW p \in Process, RollBack(p) PROVE imported[s] # "no" \/ HeldByNone(s)
  BY <1>0, <1>17 DEF RollBack, GiveBack, Pushing, NoPush, CreationTyped, cache, provider, Rid,
     Remote, Closed, NoRemote, Slip
<1>18. ASSUME NEW p \in Process, Crash(p) PROVE imported[s] # "no" \/ HeldByNone(s)
  BY <1>0, <1>18 DEF Crash, NoPush, NoPull, Mine, Creating, CreationTyped, cache, provider,
     Rid, Remote, Closed, NoRemote, Slip
<1>19. ASSUME NEW p \in Puller, Fetch(p) PROVE imported[s] # "no" \/ HeldByNone(s)
  BY <1>0, <1>19 DEF Fetch, NoPull, Pushing, Mine, CreationTyped, cache, provider, Rid,
     Remote, Closed, NoRemote, Slip
<1>20. ASSUME NEW p \in Puller, NEW r \in Remote, LookUp(p, r) PROVE imported[s] # "no" \/ HeldByNone(s)
  BY <1>0, <1>20, LookUpChanges DEF cache
<1>21. ASSUME NEW p \in Puller, SavePulled(p) PROVE imported[s] # "no" \/ HeldByNone(s)
  BY <1>0, <1>21 DEF SavePulled, TakenFrom, NoPull, Listed, Absent, CreationTyped, cache,
     provider, Rid, Remote, Closed, NoRemote, Slip
<1>22. ASSUME NEW p \in Puller, SaveImport(p) PROVE imported[s] # "no" \/ HeldByNone(s)
  BY <1>0, <1>22, CreationAssumption DEF SaveImport, TakenFrom, HeldByNone, CreationTyped
<1>23. ASSUME NEW p \in Puller, DropMissing(p) PROVE imported[s] # "no" \/ HeldByNone(s)
  BY <1>0, <1>23 DEF DropMissing, NoPull, CreationTyped, cache, provider, Rid, Remote, Closed,
     NoRemote, Slip
<1>24. ASSUME NEW p \in Puller, PullFails(p) PROVE imported[s] # "no" \/ HeldByNone(s)
  BY <1>0, <1>24 DEF PullFails, NoPull, CreationTyped, cache, provider, Rid, Remote, Closed,
     NoRemote, Slip
<1> QED
  BY <1>1, <1>2, <1>3, <1>4, <1>5, <1>6, <1>7, <1>8, <1>9, <1>10, <1>11, <1>12, <1>13, <1>14,
     <1>15, <1>16, <1>17, <1>18, <1>19, <1>20, <1>21, <1>22, <1>23, <1>24 DEF Next, UserStep,
     PushStep, PullStep, Fault

LEMMA RowFirstKept ==
  ASSUME CreationInv, Next
  PROVE  RowIsFirst'
<1>0. /\ CreationTyped /\ PullShape /\ ImportsExist /\ RowIsFirst
      /\ SlipsStay /\ MakerGrows
  BY SlipsKept, MakerKept DEF CreationInv
<1>a. ASSUME NEW t \in Task, slips'[t] = {} PROVE slips[t] = {}
  BY <1>0, <1>a DEF SlipsStay
<1>b. ASSUME NEW t \in Task, NEW r \in Remote, NewFor(t, r)
      PROVE  /\ OnItsWay(t, r)' /\ r \notin DOMAIN maker
             /\ UNCHANGED <<pull, imported>>
  <2>1. PICK p \in Process : RemoteCreate(p) /\ push[p].task = t /\ r = Len(maker')
    BY <1>b DEF NewFor
  <2>2. push'[p].task = t /\ push'[p].at = "created" /\ push'[p].got = r
    BY <1>0, <2>1, ReplyNoted
  <2>3. Len(maker') = Len(maker) + 1 /\ DOMAIN maker = 1..Len(maker) /\ Len(maker) \in Nat
    BY <1>0, <2>1 DEF RemoteCreate, CreationTyped
  <2> QED BY <2>1, <2>2, <2>3 DEF OnItsWay, RemoteCreate, cache
<1>1. ASSUME NEW t \in Task, slips'[t] = {}, NEW r \in Remote, r \in live', MadeFor(t, r)'
      PROVE  row'[t].remote = r \/ OnItsWay(t, r)'
  <2>1. CASE NewFor(t, r)
    BY <1>b, <2>1
  <2>2. CASE ~NewFor(t, r)
    <3>1. MadeFor(t, r)
      BY <1>0, <1>1, <2>2 DEF MakerGrows
    <3>2. r \in live
      BY <1>0, <1>1, <3>1 DEF MakerGrows, MadeFor
    <3>3. row[t].remote = r \/ OnItsWay(t, r)
      BY <1>0, <1>a, <1>1, <3>1, <3>2 DEF RowIsFirst
    <3> QED BY <1>a, <1>1, <3>3, RowKept, WayKept
  <2> QED BY <2>1, <2>2
<1>2. ASSUME NEW t \in Task, slips'[t] = {}, NEW q \in Puller, NEW r \in Remote,
             r \in pull'[q].todo \cup {pull'[q].id}, MadeFor(t, r)'
      PROVE  row'[t].remote = r
  <2>1. CASE NewFor(t, r)
    <3>1. r \in pull[q].todo \cup {pull[q].id} /\ r \notin DOMAIN maker
      BY <1>b, <1>2, <2>1
    <3> QED BY <1>0, <3>1 DEF PullShape, Remote, NoRemote
  <2>2. CASE ~NewFor(t, r)
    <3>1. MadeFor(t, r)
      BY <1>0, <1>2, <2>2 DEF MakerGrows
    <3>2. CASE r \in pull[q].todo \cup {pull[q].id}
      <4>1. row[t].remote = r
        BY <1>0, <1>a, <1>2, <3>1, <3>2 DEF RowIsFirst
      <4> QED BY <1>2, <4>1, RowKept
    <3>3. CASE r \notin pull[q].todo \cup {pull[q].id}
      <4>1. r \in live /\ ~OnItsWay(t, r)
        BY <1>2, <3>3, TodoKept DEF TakesUp
      <4>2. row[t].remote = r
        BY <1>0, <1>a, <1>2, <3>1, <4>1 DEF RowIsFirst
      <4> QED BY <1>2, <4>2, RowKept
    <3> QED BY <3>2, <3>3
  <2> QED BY <2>1, <2>2
<1>3. ASSUME NEW t \in Task, slips'[t] = {}, NEW r \in Remote, MadeFor(t, r)'
      PROVE  imported'[r] = "no"
  <2>1. CASE NewFor(t, r)
    BY <1>0, <1>b, <2>1 DEF ImportsExist
  <2>2. CASE ~NewFor(t, r)
    <3>1. MadeFor(t, r)
      BY <1>0, <1>3, <2>2 DEF MakerGrows
    <3>2. imported[r] = "no"
      BY <1>0, <1>a, <1>3, <3>1 DEF RowIsFirst
    <3>3. ~ \E q \in Puller : r = pull[q].id /\ row[t].remote # r
      BY <1>0, <1>a, <1>3, <3>1 DEF RowIsFirst
    <3> QED BY <3>2, <3>3, ImportsAreNew DEF HeldByNone
  <2> QED BY <2>1, <2>2
<1>4. live' \subseteq Remote
  <2>1. CreationTyped'
    BY TypedKept
  <2> QED BY <2>1, CreationAssumption DEF CreationTyped, Remote
<1>5. \A q \in Puller : \A r \in pull'[q].todo \cup {pull'[q].id} :
         r \in Remote \/ r = NoRemote
  <2>1. CreationTyped'
    BY TypedKept
  <2> QED BY <2>1 DEF CreationTyped, PullState, Rid
<1>6. \A t \in Task : ~MadeFor(t, NoRemote)'
  <2>1. CreationTyped'
    BY TypedKept
  <2> QED BY <2>1 DEF CreationTyped, MadeFor, NoRemote
<1> QED BY <1>1, <1>2, <1>3, <1>4, <1>5, <1>6 DEF RowIsFirst

-----------------------------------------------------------------------------
LEMMA InitCreationInv == Init => CreationInv
<1> SUFFICES ASSUME Init PROVE CreationInv
  OBVIOUS
<1> USE CreationAssumption
<1>1. /\ \A t \in Task : queue[t] = <<>> /\ outcome[t] = "none" /\ row[t] = Absent
                        /\ editor[t] = Closed /\ slips[t] = {}
      /\ \A p \in Process : push[p] = NoPush /\ \A t \in Task : memory[p][t] = NoRemote
      /\ \A p \in Puller : pull[p] = NoPull
      /\ \A r \in Remote : imported[r] = "no"
      /\ DOMAIN maker = {} /\ live = {} /\ Len(maker) = 0
  BY DEF Init
<1>2. CreationTyped
  <2>1. NoPush \in PushState /\ NoPull \in PullState /\ Absent \in CreatedRow
    BY DEF NoPush, NoPull, Absent, PushState, PullState, CreatedRow, Rid
  <2>2. queue \in [Task -> Seq(Operation)] /\ maker \in Seq(Task \cup {Others})
    BY DEF Init
  <2>3. slips \in [Task -> SUBSET Slip] /\ editor \in [Task -> Rid \cup {Closed}]
    BY DEF Init
  <2>4. memory \in [Process -> [Task -> Rid]]
    BY DEF Init, Rid
  <2> QED BY <1>1, <2>1, <2>2, <2>3, <2>4 DEF Init, CreationTyped
<1>3. Owned /\ QueueShape /\ PullShape /\ ImportsExist
  BY <1>1 DEF Owned, QueueShape, PullShape, ImportsExist, NoPush, NoPull, Absent
<1>4. \A t \in Task, r \in Remote : ~Names(t, r) /\ ~Bears(t, r) /\ ~MadeFor(t, r)
  <2>1. \A t \in Task, r \in Remote : ~MadeFor(t, r)
    BY <1>1 DEF MadeFor
  <2>2. ASSUME NEW t \in Task, NEW r \in Remote PROVE ~Names(t, r)
    <3>1. r # NoRemote /\ r # Closed
      BY DEF Remote, NoRemote, Closed
    <3> QED BY <1>1, <3>1 DEF Names, NoPush, NoPull, Absent
  <2> QED BY <2>1, <2>2 DEF Bears
<1>5. NamedIsMade /\ MadeOnDemand /\ OneIdentity /\ KnownWhileQueued
  BY <1>4 DEF NamedIsMade, MadeOnDemand, OneIdentity, KnownWhileQueued
<1>6. CreatedIsFresh /\ LaterRemembered /\ StoredHasId
  BY <1>1 DEF CreatedIsFresh, LaterRemembered, StoredHasId, NoPush
<1>7. RowIsFirst
  BY <1>1, <1>4 DEF RowIsFirst, MadeFor
<1> QED BY <1>2, <1>3, <1>5, <1>6, <1>7 DEF CreationInv

LEMMA StepCreationInv ==
  ASSUME CreationInv, [Next]_creationVars
  PROVE  CreationInv'
<1>1. CASE Next
  BY <1>1, TypedKept, OwnedKept, QueueShapeKept, PullShapeKept, ImportsKept, NamedKept,
     OnDemandKept, OneIdentityKept, KnownKept, FreshKept, LaterKept, StoredKept, RowFirstKept
     DEF CreationInv
<1>2. CASE UNCHANGED creationVars
  <2>1. UNCHANGED <<queue, outcome, row, imported, maker, live, memory, push, pull, editor, slips>>
    BY <1>2 DEF creationVars
  <2>2. \A t \in Task, r \in Remote :
           (Names(t, r)' <=> Names(t, r)) /\ (Bears(t, r)' <=> Bears(t, r))
           /\ (MadeFor(t, r)' <=> MadeFor(t, r)) /\ (OnItsWay(t, r)' <=> OnItsWay(t, r))
    BY <2>1 DEF Names, Bears, MadeFor, OnItsWay
  <2>3. \A t \in Task : (Remembered(t)' <=> Remembered(t)) /\ (NoTrace(t)' <=> NoTrace(t))
    BY <2>1 DEF Remembered, NoTrace
  <2>4. CreationTyped' /\ Owned' /\ QueueShape' /\ PullShape' /\ ImportsExist'
    BY <2>1 DEF CreationInv, CreationTyped, Owned, QueueShape, PullShape, ImportsExist
  <2>5. NamedIsMade' /\ MadeOnDemand' /\ OneIdentity' /\ KnownWhileQueued'
    BY <2>1, <2>2, <2>3
       DEF CreationInv, NamedIsMade, MadeOnDemand, OneIdentity, KnownWhileQueued
  <2>6. CreatedIsFresh' /\ LaterRemembered' /\ StoredHasId'
    BY <2>1, <2>3 DEF CreationInv, CreatedIsFresh, LaterRemembered, StoredHasId
  <2>7. RowIsFirst'
    BY <2>1 DEF CreationInv, RowIsFirst, OnItsWay, MadeFor
  <2> QED BY <2>4, <2>5, <2>6, <2>7 DEF CreationInv
<1> QED BY <1>1, <1>2

\* The inductive invariant of the identity of created tasks.
THEOREM CreationSafety == Spec => []CreationInv
<1>1. Init => CreationInv
  BY InitCreationInv
<1>2. CreationInv /\ [Next]_creationVars => CreationInv'
  BY StepCreationInv
<1> QED BY <1>1, <1>2, PTL DEF Spec

\* The variables of a creation keep their types.
THEOREM CreationKeepsTypes == Spec => []CreationTypeOK
<1>1. CreationInv => CreationTypeOK
  <2> SUFFICES ASSUME CreationInv PROVE CreationTypeOK
    OBVIOUS
  <2>1. CreationTyped /\ Owned
    BY DEF CreationInv
  <2>2. ASSUME NEW t \in Task, NEW i \in DOMAIN queue[t]
        PROVE  queue[t][i] \in [kind : {"create", "update"}, remote : Remote \cup {NoRemote}]
    <3>1. queue[t] \in Seq(Operation)
      BY <2>1 DEF CreationTyped
    <3>2. queue[t][i] \in Operation
      BY <3>1
    <3> QED BY <3>2 DEF Operation, Rid
  <2>3. \A p \in Process :
         /\ push[p].at \in {"idle", "claimed", "created", "updated", "stored", "based"}
         /\ Pushing(p, "idle") <=> Mine(p) = Others
         /\ Mine(p) # Others => queue[Mine(p)] # <<>>
    BY <2>1 DEF CreationTyped, PushState, Owned, Pushing, Mine
  <2>4. \A p \in Puller : pull[p].at \in {"idle", "listed", "found"}
    BY <2>1 DEF CreationTyped, PullState
  <2> QED BY <2>1, <2>2, <2>3, <2>4 DEF CreationTyped, CreationTypeOK, Rid, CreatedRow
<1> QED BY <1>1, CreationSafety, PTL

\* A created task is at the provider once, and in the cache once, unless what one of its
\* processes knew of it was lost, a pull crossed its push, or an edit erased its id:
\* CreateTask, rollbackCreatedTask and the pull of internal/sync and internal/bootstrap.
THEOREM CreationOnce == Spec => []OneTaskEach
<1>1. CreationInv => OneTaskEach
  <2> SUFFICES ASSUME CreationInv, NEW t \in Task
               PROVE  /\ Cardinality(Copies(t)) > 1 => "lost" \in slips[t]
                      /\ (\E r \in DOMAIN maker : maker[r] = t /\ imported[r] # "no")
                           => slips[t] # {}
    BY DEF OneTaskEach
  <2>0. CreationTyped /\ OneIdentity /\ RowIsFirst /\ DOMAIN maker \subseteq Remote
    BY CreationAssumption DEF CreationInv, CreationTyped, Remote
  <2>1. ASSUME "lost" \notin slips[t]
        PROVE  ~(Cardinality(Copies(t)) > 1)
    <3>1. \A r, s \in Copies(t) : r = s
      <4> SUFFICES ASSUME NEW r \in Copies(t), NEW s \in Copies(t) PROVE r = s
        OBVIOUS
      <4>1. r \in Remote /\ s \in Remote /\ Bears(t, r) /\ Bears(t, s)
        BY <2>0 DEF Copies, Bears, MadeFor, CreationTyped
      <4> QED BY <2>0, <2>1, <4>1 DEF OneIdentity
    <3>2. CASE Copies(t) = {}
      BY <3>2, FS_EmptySet
    <3>3. CASE Copies(t) # {}
      <4>1. PICK r : Copies(t) = {r}
        BY <3>1, <3>3
      <4> QED BY <4>1, FS_Singleton
    <3> QED BY <3>2, <3>3
  <2>2. ASSUME NEW r \in DOMAIN maker, maker[r] = t, imported[r] # "no"
        PROVE  slips[t] # {}
    BY <2>0, <2>2 DEF RowIsFirst, MadeFor
  <2> QED BY <2>1, <2>2
<1> QED BY <1>1, CreationSafety, PTL

\* Behind a completed create the row tells the task made for it, in any process and after
\* any number of crashes, unless an edit has erased it: remoteID of
\* internal/sync/foundation_adapter.go and the row it falls back to.
THEOREM CreationKnown == Spec => []UpdatesKnowTheirTask
<1>1. CreationInv => UpdatesKnowTheirTask
  <2> SUFFICES ASSUME CreationInv, NEW p \in Process,
                      Pushing(p, "claimed"), outcome[Mine(p)] = "done",
                      "erased" \notin slips[Mine(p)]
               PROVE  /\ Target(p, Mine(p)) # NoRemote
                      /\ maker[Target(p, Mine(p))] = Mine(p)
    BY DEF UpdatesKnowTheirTask
  <2>0. CreationTyped /\ Owned /\ QueueShape /\ NamedIsMade /\ StoredHasId
    BY DEF CreationInv
  <2>1. PICK t \in Task : t = Mine(p)
    BY <2>0, AtHand DEF Pushing
  <2>2. /\ Head(queue[t]) = queue[t][1] /\ 1 \in DOMAIN queue[t] /\ Target(p, t) \in Rid
    BY <2>0, <2>1, AtHand DEF Pushing, Owned, Mine
  <2>3. Head(queue[t]).kind # "create" /\ row[t].remote # NoRemote
    BY <2>0, <2>1, <2>2 DEF QueueShape, StoredHasId
  <2>4. Target(p, t) # NoRemote
    BY <2>3 DEF Target
  <2>5. Names(t, Target(p, t))
    BY <2>2, <2>3 DEF Target, Names
  <2>6. Target(p, t) \in Remote
    BY <2>2, <2>4 DEF Rid
  <2> QED BY <2>0, <2>1, <2>4, <2>5, <2>6 DEF NamedIsMade, MadeFor
<1> QED BY <1>1, CreationSafety, PTL
===============================================================================
