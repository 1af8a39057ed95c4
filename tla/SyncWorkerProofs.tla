--------------------------- MODULE SyncWorkerProofs ---------------------------
(***************************************************************************)
(* The durable queue, for every number of rows, entities, providers and    *)
(* owners, every lease length and every retry delay; then the workers over *)
(* it, for any number of processes, operations and faults.                 *)
(*                                                                         *)
(* Nothing completed was never applied, because a worker knows of a reply  *)
(* only for the operation it has in its hands.  The rest is about prompt   *)
(* behaviours: what a worker holds and what is on the wire is under a live *)
(* lease, so nobody else touches the entity, and what reaches the provider *)
(* is the first unsettled operation of its entity.  From that the workers  *)
(* implement Delivery, step by step.                                       *)
(***************************************************************************)
EXTENDS SyncWorker, TLAPS

-----------------------------------------------------------------------------
(* The queue. *)

(* The inductive invariant.  Rows are inserted in order and without gaps; an   *)
(* existing row is about an entity; a row that was claimed counts an attempt;  *)
(* a finished row has no timer left.                                           *)
NoGaps == \A o, q \in Op : q < o /\ Exists(o) => Exists(q)

RowShape ==
    \A o \in Op :
        /\ Exists(o) => row[o].entity \in Entity
        /\ row[o].status \in {"syncing", "failed", "completed"} => row[o].attempts > 0
        /\ row[o].status \in {"failed", "completed"} => row[o].wait = 0

QueueInv ==
    /\ QueueTypeOK
    /\ NoGaps
    /\ RowShape
    /\ ClaimedInOrder
    /\ ShownStateMatchesFlight

-----------------------------------------------------------------------------
(* What the calls make of one row. *)

LEMMA Ranges ==
    /\ 0 \in 0..MaxDelay
    /\ 0 \in (-LeaseTTL)..LeaseTTL /\ LeaseTTL \in (-LeaseTTL)..LeaseTTL
    /\ 0 \in 0..AttemptCap /\ 1 \in 0..AttemptCap
  BY QueueAssumption

LEMMA BlankRows ==
    /\ NoRow \in Row
    /\ \A e \in Entity :
         /\ UpgradedRow(e) \in Row /\ NewRow(e) \in Row
         /\ UpgradedRow(e).entity = e /\ NewRow(e).entity = e
         /\ UpgradedRow(e).status = "failed" /\ NewRow(e).status = "pending"
         /\ UpgradedRow(e).attempts = 1 /\ NewRow(e).attempts = 0
         /\ UpgradedRow(e).wait = 0
  BY Ranges DEF NoRow, UpgradedRow, NewRow, Row, Status

LEMMA BumpType ==
    ASSUME NEW n \in 0..AttemptCap
    PROVE  Bump(n) \in 0..AttemptCap /\ Bump(n) > 0
  BY QueueAssumption DEF Bump

LEMMA ClaimedRow ==
    ASSUME NEW r \in Row, NEW w \in Owner
    PROVE  /\ Claimed(r, w) \in Row
           /\ Claimed(r, w).entity = r.entity
           /\ Claimed(r, w).status = "syncing"
           /\ Claimed(r, w).attempts > 0
<1>1. Bump(r.attempts) \in 0..AttemptCap /\ Bump(r.attempts) > 0
  BY BumpType DEF Row
<1> QED BY <1>1, Ranges DEF Claimed, Row, Status

LEMMA FinishedRow ==
    ASSUME NEW r \in Row, NEW d \in 0..MaxDelay
    PROVE  \A s \in {Completed(r), Deferred(r, d), Failed(r), Requeued(r)} :
             /\ s \in Row
             /\ s.entity = r.entity
             /\ s.attempts = r.attempts
             /\ s.status \in {"completed", "failed", "pending"}
             /\ s.status \in {"failed", "completed"} => s.wait = 0
<1> DEFINE Finished(s) == /\ s \in Row
                          /\ s.entity = r.entity
                          /\ s.attempts = r.attempts
                          /\ s.status \in {"completed", "failed", "pending"}
                          /\ s.status \in {"failed", "completed"} => s.wait = 0
<1>1. Finished(Completed(r))
  BY Ranges DEF Completed, Row, Status
<1>2. Finished(Deferred(r, d))
  BY Ranges DEF Deferred, Row, Status
<1>3. Finished(Failed(r))
  BY Ranges DEF Failed, Row, Status
<1>4. Finished(Requeued(r))
  BY Ranges DEF Requeued, Row, Status
<1> HIDE DEF Finished
<1>5. \A s \in {Completed(r), Deferred(r, d), Failed(r), Requeued(r)} : Finished(s)
  BY <1>1, <1>2, <1>3, <1>4
<1> QED BY <1>5 DEF Finished

LEMMA AgedRow ==
    ASSUME NEW r \in Row
    PROVE  /\ Aged(r) \in Row
           /\ Aged(r).entity = r.entity
           /\ Aged(r).status = r.status
           /\ Aged(r).retryable = r.retryable
           /\ Aged(r).owner = r.owner
           /\ Aged(r).attempts = r.attempts
           /\ Aged(r).lease =< r.lease
           /\ r.wait = 0 => Aged(r).wait = 0
           /\ r.status # "syncing" => Aged(r).lease = r.lease
<1> DEFINE wt == IF r.wait > 0 THEN r.wait - 1 ELSE 0
           ls == IF r.status = "syncing" /\ r.lease > -LeaseTTL THEN r.lease - 1 ELSE r.lease
<1>1. r.wait \in 0..MaxDelay /\ r.lease \in (-LeaseTTL)..LeaseTTL
  BY DEF Row
<1>2. wt \in 0..MaxDelay /\ (r.wait = 0 => wt = 0)
  BY <1>1, QueueAssumption
<1>3. ls \in (-LeaseTTL)..LeaseTTL /\ ls =< r.lease /\ (r.status # "syncing" => ls = r.lease)
  BY <1>1, QueueAssumption
<1>4. Aged(r) = [r EXCEPT !.wait = wt, !.lease = ls]
  BY DEF Aged, Row
<1> HIDE DEF wt, ls
<1> QED BY <1>2, <1>3, <1>4 DEF Row

-----------------------------------------------------------------------------
(* The five kinds of step, each seen as what it does to every row. *)

LEMMA InitQueueInv == QueueInit => QueueInv
<1> SUFFICES ASSUME QueueInit PROVE QueueInv
  OBVIOUS
<1>1. QueueTypeOK
  BY BlankRows DEF QueueInit, QueueTypeOK, EntityState
<1>2. \A o \in Op :
        /\ row[o].status \in {"absent", "failed"} /\ (Exists(o) => o = 1)
        /\ Exists(o) => \E u \in Entity : row[o] = UpgradedRow(u) /\ syncState[u] = "failed"
  <2>1. NoRow.status = "absent"
    BY DEF NoRow
  <2>2. CASE row = [o \in Op |-> NoRow]
    BY <2>1, <2>2 DEF Exists
  <2>3. ASSUME NEW u \in Entity,
               row = [o \in Op |-> IF o = 1 THEN UpgradedRow(u) ELSE NoRow],
               syncState[u] = "failed"
        PROVE  \A o \in Op :
                 /\ row[o].status \in {"absent", "failed"} /\ (Exists(o) => o = 1)
                 /\ Exists(o) => row[o] = UpgradedRow(u)
    BY <2>1, <2>3, BlankRows DEF Exists
  <2>4. \A u \in Entity :
          syncState = [e \in Entity |-> IF e = u THEN "failed" ELSE "synced"]
            => syncState[u] = "failed"
    OBVIOUS
  <2> QED BY <2>2, <2>3, <2>4 DEF QueueInit
<1>3. NoGaps
  BY <1>2, QueueAssumption DEF NoGaps, Op
<1>4. RowShape
  BY <1>2, BlankRows DEF RowShape, Exists
<1>5. ClaimedInOrder
  <2>1. \A o, q \in Op : q < o => ~Exists(o)
    BY <1>2, QueueAssumption DEF Op
  <2> QED BY <2>1 DEF ClaimedInOrder
<1>6. ShownStateMatchesFlight
  BY <1>2 DEF ShownStateMatchesFlight, QueueInit, EntityState
<1> QED BY <1>1, <1>3, <1>4, <1>5, <1>6 DEF QueueInv

(* At most one row of an entity is in flight: the later of two would have been *)
(* claimed over an unsettled earlier one.                                      *)
LEMMA OneInFlight == QueueInv => OneInFlightPerEntity
<1> SUFFICES ASSUME QueueInv, NEW o \in Op, NEW q \in Op, q < o, SameEntity(o, q),
                    row[o].status = "syncing", row[q].status = "syncing"
             PROVE  FALSE
  BY QueueAssumption DEF OneInFlightPerEntity, Op, SameEntity
<1>1. row[o].attempts > 0 /\ Exists(o)
  BY DEF QueueInv, RowShape, Exists
<1>2. Settled(q)
  BY <1>1 DEF QueueInv, ClaimedInOrder, SameEntity
<1> QED BY <1>2 DEF Settled

(* What a step does to one row o leaves every other row alone.  The row o must *)
(* keep its entity, and must be blank or in flight, so that no settled row     *)
(* changes.                                                                    *)
LEMMA EnqueueInv ==
    ASSUME QueueInv, NEW o \in Op, NEW e \in Entity, Enqueue(o, e)
    PROVE  QueueInv'
<1>0. row \in [Op -> Row] /\ row[o].status = "absent"
  BY DEF QueueInv, QueueTypeOK, Enqueue, Exists
<1>1. /\ row'[o] = NewRow(e)
      /\ \A x \in Op : x # o => row'[x] = row[x]
  BY <1>0 DEF Enqueue
<1>2. /\ row'[o].entity = e /\ row'[o].status = "pending" /\ row'[o].attempts = 0
      /\ row'[o] \in Row
  BY <1>1, BlankRows
<1>3. QueueTypeOK'
  BY <1>2, BlankRows DEF QueueInv, QueueTypeOK, Enqueue, EntityState
<1>4. NoGaps'
  BY <1>0, <1>1, <1>2, QueueAssumption DEF QueueInv, NoGaps, Enqueue, Exists, Op
<1>5. RowShape'
  BY <1>1, <1>2 DEF QueueInv, RowShape, Exists
<1>6. ClaimedInOrder'
  <2> SUFFICES ASSUME NEW a \in Op, NEW b \in Op,
                      Exists(a)', (row[a].attempts > 0)', b < a, SameEntity(b, a)'
               PROVE  Settled(b)'
    BY DEF ClaimedInOrder
  <2>1. a # o
    BY <1>2
  <2>2. Exists(a) /\ row[a].attempts > 0
    BY <2>1, <1>1 DEF Exists
  <2>3. b # o
    BY <2>2, <1>0 DEF QueueInv, NoGaps, Exists
  <2> QED BY <2>1, <2>2, <2>3, <1>1 DEF QueueInv, ClaimedInOrder, SameEntity, Settled
<1>7. ShownStateMatchesFlight'
  <2> SUFFICES ASSUME NEW f \in Entity
               PROVE  /\ (syncState[f] = "syncing")' =>
                           \E x \in Op : (row[x].entity = f /\ row[x].status = "syncing")'
                      /\ (syncState[f] \in {"synced", "failed"})' =>
                           \A x \in Op : (row[x].entity = f => row[x].status # "syncing")'
    BY DEF ShownStateMatchesFlight
  <2>1. f # e => syncState'[f] = syncState[f]
    BY DEF QueueInv, QueueTypeOK, Enqueue
  <2>2. syncState'[e] = "pending"
    BY DEF QueueInv, QueueTypeOK, Enqueue
  <2> QED BY <2>1, <2>2, <1>0, <1>1, <1>2 DEF QueueInv, ShownStateMatchesFlight
<1> QED BY <1>3, <1>4, <1>5, <1>6, <1>7 DEF QueueInv

LEMMA ClaimInv ==
    ASSUME QueueInv, NEW o \in Op, NEW p \in Provider, NEW w \in Owner, Claim(o, p, w)
    PROVE  QueueInv'
<1>0. row \in [Op -> Row] /\ row[o] \in Row /\ Exists(o) /\ Due(o) /\ Unblocked(o)
  BY DEF QueueInv, QueueTypeOK, Claim, NextEligible, Eligible
<1>1. /\ row'[o] = Claimed(row[o], w)
      /\ \A x \in Op : x # o => row'[x] = row[x]
  BY <1>0 DEF Claim
<1>2. /\ row'[o].entity = row[o].entity /\ row'[o].status = "syncing"
      /\ row'[o].attempts > 0 /\ row'[o] \in Row /\ row[o].entity \in Entity
  BY <1>0, <1>1, ClaimedRow DEF QueueInv, RowShape
<1>3. QueueTypeOK'
  BY <1>0, <1>1, <1>2 DEF QueueInv, QueueTypeOK, Claim, EntityState
<1>4. NoGaps'
  BY <1>0, <1>1, <1>2 DEF QueueInv, NoGaps, Exists
<1>5. RowShape'
  BY <1>1, <1>2 DEF QueueInv, RowShape, Exists
<1>6. ClaimedInOrder'
  <2> SUFFICES ASSUME NEW a \in Op, NEW b \in Op,
                      Exists(a)', (row[a].attempts > 0)', b < a, SameEntity(b, a)'
               PROVE  Settled(b)'
    BY DEF ClaimedInOrder
  <2>1. SameEntity(b, a)
    BY <1>1, <1>2 DEF SameEntity
  <2>2. CASE a = o
    <3>1. Exists(b) /\ b # o
      BY <1>0, <2>2, QueueAssumption DEF QueueInv, NoGaps, Op
    <3> QED BY <3>1, <2>1, <2>2, <1>0, <1>1 DEF Unblocked, Settled
  <2>3. CASE a # o
    <3>1. Settled(b)
      BY <2>1, <2>3, <1>1 DEF QueueInv, ClaimedInOrder, Exists
    <3>2. b # o
      BY <3>1, <1>0 DEF Due, Settled
    <3> QED BY <3>1, <3>2, <1>1 DEF Settled
  <2> QED BY <2>2, <2>3
<1>7. ShownStateMatchesFlight'
  <2> SUFFICES ASSUME NEW f \in Entity
               PROVE  /\ (syncState[f] = "syncing")' =>
                           \E x \in Op : (row[x].entity = f /\ row[x].status = "syncing")'
                      /\ (syncState[f] \in {"synced", "failed"})' =>
                           \A x \in Op : (row[x].entity = f => row[x].status # "syncing")'
    BY DEF ShownStateMatchesFlight
  <2>1. f # row[o].entity => syncState'[f] = syncState[f]
    BY DEF QueueInv, QueueTypeOK, Claim
  <2>2. syncState'[row[o].entity] = "syncing"
    BY <1>2 DEF QueueInv, QueueTypeOK, Claim
  <2> QED BY <2>1, <2>2, <1>0, <1>1, <1>2 DEF QueueInv, ShownStateMatchesFlight
<1> QED BY <1>3, <1>4, <1>5, <1>6, <1>7 DEF QueueInv

(* Complete, RetryAt and Fail rewrite the one row that is in flight: its state *)
(* is reported, and no other row of its entity is in flight to contradict it.  *)
LEMMA FinishInv ==
    ASSUME QueueInv, NEW o \in Op, NEW w \in Owner,
           \/ Complete(o, w)
           \/ Fail(o, w)
           \/ \E d \in 0..MaxDelay : RetryAt(o, w, d)
    PROVE  QueueInv'
<1>0. /\ row \in [Op -> Row] /\ row[o] \in Row
      /\ row[o].status = "syncing" /\ Exists(o) /\ row[o].entity \in Entity
  BY DEF QueueInv, QueueTypeOK, RowShape, Complete, Fail, RetryAt, Holds, Exists
<1>1. PICK r : /\ row' = [row EXCEPT ![o] = r]
               /\ \E d \in 0..MaxDelay :
                    r \in {Completed(row[o]), Deferred(row[o], d), Failed(row[o]), Requeued(row[o])}
               /\ \E s \in {"synced", "failed", "pending"} :
                    syncState' = [syncState EXCEPT ![row[o].entity] = s]
  BY Ranges DEF Complete, Fail, RetryAt
<1>2. /\ r \in Row /\ r.entity = row[o].entity /\ r.attempts = row[o].attempts
      /\ r.status \in {"completed", "failed", "pending"}
      /\ r.status \in {"failed", "completed"} => r.wait = 0
  BY <1>0, <1>1, FinishedRow
<1>3. /\ row'[o] = r
      /\ \A x \in Op : x # o => row'[x] = row[x]
  BY <1>0, <1>1
<1>4. QueueTypeOK'
  BY <1>0, <1>1, <1>2 DEF QueueInv, QueueTypeOK, EntityState
<1>5. NoGaps'
  BY <1>0, <1>2, <1>3 DEF QueueInv, NoGaps, Exists
<1>6. RowShape'
  BY <1>0, <1>2, <1>3 DEF QueueInv, RowShape, Exists
<1>7. ClaimedInOrder'
  <2> SUFFICES ASSUME NEW a \in Op, NEW b \in Op,
                      Exists(a)', (row[a].attempts > 0)', b < a, SameEntity(b, a)'
               PROVE  Settled(b)'
    BY DEF ClaimedInOrder
  <2>1. Exists(a) /\ row[a].attempts > 0 /\ SameEntity(b, a)
    BY <1>0, <1>2, <1>3 DEF Exists, SameEntity
  <2>2. Settled(b) /\ b # o
    BY <2>1, <1>0 DEF QueueInv, ClaimedInOrder, Settled
  <2> QED BY <2>2, <1>3 DEF Settled
<1>8. ShownStateMatchesFlight'
  <2> SUFFICES ASSUME NEW f \in Entity
               PROVE  /\ (syncState[f] = "syncing")' =>
                           \E x \in Op : (row[x].entity = f /\ row[x].status = "syncing")'
                      /\ (syncState[f] \in {"synced", "failed"})' =>
                           \A x \in Op : (row[x].entity = f => row[x].status # "syncing")'
    BY DEF ShownStateMatchesFlight
  <2>1. CASE f = row[o].entity
    <3>1. syncState'[f] # "syncing"
      BY <2>1, <1>0, <1>1 DEF QueueInv, QueueTypeOK
    <3>2. \A x \in Op : row[x].entity = f /\ row[x].status = "syncing" => x = o
      BY <2>1, <1>0, OneInFlight DEF OneInFlightPerEntity, SameEntity
    <3> QED BY <3>1, <3>2, <1>2, <1>3
  <2>2. CASE f # row[o].entity
    <3>1. syncState'[f] = syncState[f]
      BY <2>2, <1>1 DEF QueueInv, QueueTypeOK
    <3> QED BY <3>1, <2>2, <1>2, <1>3 DEF QueueInv, ShownStateMatchesFlight
  <2> QED BY <2>1, <2>2
<1> QED BY <1>4, <1>5, <1>6, <1>7, <1>8 DEF QueueInv

LEMMA RequeueInv ==
    ASSUME QueueInv, NEW p \in Provider, NEW age \in 0..LeaseTTL, RequeueStale(p, age)
    PROVE  QueueInv'
<1>0. \A x \in Op : row[x] \in Row /\ (x \in Stale(p, age) => row[x].status = "syncing")
  BY DEF QueueInv, QueueTypeOK, Stale
<1>1. \A x \in Op : /\ x \in Stale(p, age) => row'[x] = Requeued(row[x])
                    /\ x \notin Stale(p, age) => row'[x] = row[x]
  BY DEF RequeueStale
<1>2. \A x \in Op :
        /\ row'[x] \in Row
        /\ row'[x].entity = row[x].entity /\ row'[x].attempts = row[x].attempts
        /\ x \in Stale(p, age) => row'[x].status = "pending"
  <2> SUFFICES ASSUME NEW x \in Op
               PROVE  /\ row'[x] \in Row
                      /\ row'[x].entity = row[x].entity /\ row'[x].attempts = row[x].attempts
                      /\ x \in Stale(p, age) => row'[x].status = "pending"
    OBVIOUS
  <2>1. Requeued(row[x]).status = "pending"
    BY <1>0 DEF Requeued, Row
  <2>2. 0 \in 0..MaxDelay
    BY Ranges
  <2>3. /\ Requeued(row[x]) \in Row /\ Requeued(row[x]).entity = row[x].entity
        /\ Requeued(row[x]).attempts = row[x].attempts
    BY <1>0, <2>2, FinishedRow
  <2> QED BY <2>1, <2>3, <1>0, <1>1
<1>3. QueueTypeOK'
  <2>1. row' \in [Op -> Row]
    BY <1>2 DEF RequeueStale
  <2>2. syncState' \in [Entity -> EntityState]
    BY DEF QueueInv, QueueTypeOK, RequeueStale, EntityState
  <2> QED BY <2>1, <2>2 DEF QueueTypeOK
<1>4. NoGaps'
  BY <1>0, <1>1, <1>2 DEF QueueInv, NoGaps, Exists
<1>5. RowShape'
  BY <1>0, <1>1, <1>2 DEF QueueInv, RowShape, Exists
<1>6. ClaimedInOrder'
  <2> SUFFICES ASSUME NEW a \in Op, NEW b \in Op,
                      Exists(a)', (row[a].attempts > 0)', b < a, SameEntity(b, a)'
               PROVE  Settled(b)'
    BY DEF ClaimedInOrder
  <2>1. Exists(a) /\ row[a].attempts > 0 /\ SameEntity(b, a)
    BY <1>0, <1>1, <1>2 DEF Exists, SameEntity
  <2>2. Settled(b) /\ b \notin Stale(p, age)
    BY <2>1, <1>0 DEF QueueInv, ClaimedInOrder, Settled
  <2> QED BY <2>2, <1>1 DEF Settled
<1>7. ShownStateMatchesFlight'
  <2> SUFFICES ASSUME NEW f \in Entity
               PROVE  /\ (syncState[f] = "syncing")' =>
                           \E x \in Op : (row[x].entity = f /\ row[x].status = "syncing")'
                      /\ (syncState[f] \in {"synced", "failed"})' =>
                           \A x \in Op : (row[x].entity = f => row[x].status # "syncing")'
    BY DEF ShownStateMatchesFlight
  <2>1. syncState'[f] = IF \E x \in Stale(p, age) : row[x].entity = f
                        THEN "pending" ELSE syncState[f]
    BY DEF RequeueStale
  <2> QED BY <2>1, <1>0, <1>1, <1>2 DEF QueueInv, ShownStateMatchesFlight, Stale
<1> QED BY <1>3, <1>4, <1>5, <1>6, <1>7 DEF QueueInv

LEMMA TickInv ==
    ASSUME QueueInv, Tick
    PROVE  QueueInv'
<1>0. \A x \in Op : row[x] \in Row
  BY DEF QueueInv, QueueTypeOK
<1>1. \A x \in Op : row'[x] = Aged(row[x])
  BY DEF Tick
<1>2. \A x \in Op :
        /\ row'[x] \in Row /\ row'[x].entity = row[x].entity
        /\ row'[x].status = row[x].status /\ row'[x].retryable = row[x].retryable
        /\ row'[x].attempts = row[x].attempts
        /\ row[x].wait = 0 => row'[x].wait = 0
  BY <1>0, <1>1, AgedRow
<1>3. QueueTypeOK'
  BY <1>2 DEF QueueInv, QueueTypeOK, Tick
<1>4. NoGaps'
  BY <1>2 DEF QueueInv, NoGaps, Exists
<1>5. RowShape'
  BY <1>2 DEF QueueInv, RowShape, Exists
<1>6. ClaimedInOrder'
  BY <1>2 DEF QueueInv, ClaimedInOrder, Exists, SameEntity, Settled
<1>7. ShownStateMatchesFlight'
  BY <1>2 DEF QueueInv, ShownStateMatchesFlight, Tick
<1> QED BY <1>3, <1>4, <1>5, <1>6, <1>7 DEF QueueInv

LEMMA StepQueueInv == QueueInv /\ [QueueNext]_queueVars => QueueInv'
<1> SUFFICES ASSUME QueueInv, [QueueNext]_queueVars PROVE QueueInv'
  OBVIOUS
<1>1. ASSUME NEW o \in Op, NEW e \in Entity, Enqueue(o, e) PROVE QueueInv'
  BY <1>1, EnqueueInv
<1>2. ASSUME NEW o \in Op, NEW p \in Provider, NEW w \in Owner, Claim(o, p, w) PROVE QueueInv'
  BY <1>2, ClaimInv
<1>3. ASSUME NEW o \in Op, NEW w \in Owner,
             \/ Complete(o, w) \/ Fail(o, w) \/ \E d \in 0..MaxDelay : RetryAt(o, w, d)
      PROVE  QueueInv'
  BY <1>3, FinishInv
<1>4. ASSUME NEW p \in Provider, NEW age \in 0..LeaseTTL, RequeueStale(p, age) PROVE QueueInv'
  BY <1>4, RequeueInv
<1>5. CASE Tick
  BY <1>5, TickInv
<1>6. CASE UNCHANGED queueVars
  BY <1>6 DEF queueVars, QueueInv, QueueTypeOK, NoGaps, RowShape, ClaimedInOrder,
              ShownStateMatchesFlight, Exists, SameEntity, Settled
<1> QED BY <1>1, <1>2, <1>3, <1>4, <1>5, <1>6 DEF QueueNext

-----------------------------------------------------------------------------
(* The theorems. *)

\* The inductive invariant holds of every behaviour of the queue.
THEOREM QueueSafety == QueueSpec => []QueueInv
  BY InitQueueInv, StepQueueInv, PTL DEF QueueSpec

\* Type correctness.
THEOREM QueueTyped == QueueSpec => []QueueTypeOK
<1>1. QueueInv => QueueTypeOK
  BY DEF QueueInv
<1> QED BY <1>1, QueueSafety, PTL

\* Operations of one entity are handed to workers in the order they were made.
THEOREM QueueOrdered == QueueSpec => []ClaimedInOrder
<1>1. QueueInv => ClaimedInOrder
  BY DEF QueueInv
<1> QED BY <1>1, QueueSafety, PTL

\* Two operations of one entity are never in flight together.
THEOREM QueueExclusive == QueueSpec => []OneInFlightPerEntity
  BY OneInFlight, QueueSafety, PTL

\* The state shown for an entity agrees with what is in flight for it.
THEOREM QueueShown == QueueSpec => []ShownStateMatchesFlight
<1>1. QueueInv => ShownStateMatchesFlight
  BY DEF QueueInv
<1> QED BY <1>1, QueueSafety, PTL

-----------------------------------------------------------------------------
(* The action properties: what no step may do to one row. *)

LEMMA AgedSettledRow ==
    ASSUME NEW r \in Row, r.wait = 0, r.status # "syncing"
    PROVE  Aged(r) = r
<1>1. Aged(r) = [r EXCEPT !.wait = 0, !.lease = r.lease]
  BY DEF Aged, Row
<1>2. r = [entity |-> r.entity, status |-> r.status, retryable |-> r.retryable,
           wait |-> r.wait, owner |-> r.owner, lease |-> r.lease, attempts |-> r.attempts]
  BY DEF Row
<1> QED BY <1>1, <1>2

(* Every step changes a row only by inserting it, claiming it when it is due,  *)
(* finishing or requeueing it while it is in flight, or letting time pass.     *)
LEMMA RowStep ==
    ASSUME QueueInv, QueueNext, NEW x \in Op
    PROVE  \/ row'[x] = row[x]
           \/ row[x].status = "absent"
           \/ Due(x) /\ row'[x].status = "syncing"
           \/ row[x].status = "syncing" /\ row'[x].status # "syncing"
           \/ row'[x] = Aged(row[x])
<1>0. row \in [Op -> Row] /\ row[x] \in Row
  BY DEF QueueInv, QueueTypeOK
<1> USE <1>0
<1>1. ASSUME NEW o \in Op, NEW e \in Entity, Enqueue(o, e)
      PROVE  row'[x] = row[x] \/ row[x].status = "absent"
  BY <1>1 DEF Enqueue, Exists
<1>2. ASSUME NEW o \in Op, NEW p \in Provider, NEW w \in Owner, Claim(o, p, w)
      PROVE  row'[x] = row[x] \/ (Due(x) /\ row'[x].status = "syncing")
  BY <1>2, ClaimedRow DEF Claim, NextEligible, Eligible
<1>3. ASSUME NEW o \in Op, NEW w \in Owner,
             \/ Complete(o, w) \/ Fail(o, w) \/ \E d \in 0..MaxDelay : RetryAt(o, w, d)
      PROVE  row'[x] = row[x] \/ (row[x].status = "syncing" /\ row'[x].status # "syncing")
  <2> SUFFICES ASSUME x = o
               PROVE  row[x].status = "syncing" /\ row'[x].status # "syncing"
    BY <1>3 DEF Complete, Fail, RetryAt
  <2>1. row[o].status = "syncing"
    BY <1>3 DEF Complete, Fail, RetryAt, Holds
  <2>2. /\ Completed(row[o]).status = "completed" /\ Failed(row[o]).status = "failed"
        /\ \A d \in 0..MaxDelay : Deferred(row[o], d).status = "pending"
    BY DEF Completed, Deferred, Failed, Row
  <2>3. \/ row' = [row EXCEPT ![o] = Completed(@)]
        \/ row' = [row EXCEPT ![o] = Failed(@)]
        \/ \E d \in 0..MaxDelay : row' = [row EXCEPT ![o] = Deferred(@, d)]
    BY <1>3 DEF Complete, Fail, RetryAt
  <2> QED BY <2>1, <2>2, <2>3
<1>4. ASSUME NEW p \in Provider, NEW age \in 0..LeaseTTL, RequeueStale(p, age)
      PROVE  row'[x] = row[x] \/ (row[x].status = "syncing" /\ row'[x].status # "syncing")
  BY <1>4 DEF RequeueStale, Stale, Requeued, Row
<1>5. CASE Tick
  BY <1>5 DEF Tick
<1> QED BY <1>1, <1>2, <1>3, <1>4, <1>5 DEF QueueNext

\* A settled row is final: whatever the workers do, nothing revives it.
THEOREM QueueSettledFinal == QueueSpec => SettledIsFinal
<1>1. ASSUME QueueInv, [QueueNext]_queueVars
      PROVE  [\A o \in Op : Settled(o) => row'[o] = row[o]]_queueVars
  <2>1. ASSUME QueueNext, NEW o \in Op, Settled(o) PROVE row'[o] = row[o]
    <3>1. row[o] \in Row /\ row[o].wait = 0 /\ row[o].status \notin {"syncing", "absent"}
      BY <1>1, <2>1 DEF QueueInv, QueueTypeOK, RowShape, Settled
    <3>2. ~Due(o)
      BY <2>1 DEF Settled, Due
    <3> QED BY <1>1, <2>1, <3>1, <3>2, RowStep, AgedSettledRow
  <2> QED BY <1>1, <2>1
<1> QED BY <1>1, QueueSafety, PTL DEF QueueSpec, SettledIsFinal

\* A live lease is never taken over and never prolonged.
THEOREM QueueLeaseExclusive == QueueSpec => LeaseNeverStolen
<1>1. ASSUME QueueInv, [QueueNext]_queueVars
      PROVE  [\A o \in Op :
                /\ row[o].status = "syncing" /\ row[o].lease > 0
                /\ row'[o].status = "syncing"
                => /\ row'[o].owner = row[o].owner
                   /\ row'[o].lease =< row[o].lease]_queueVars
  <2>1. ASSUME QueueNext, NEW o \in Op, row[o].status = "syncing", row[o].lease > 0,
               row'[o].status = "syncing"
        PROVE  row'[o].owner = row[o].owner /\ row'[o].lease =< row[o].lease
    <3>1. row[o] \in Row /\ row[o].lease \in Int
      BY <1>1, QueueAssumption DEF QueueInv, QueueTypeOK, Row
    <3>2. ~Due(o)
      BY <2>1, <3>1 DEF Due
    <3> QED BY <1>1, <2>1, <3>1, <3>2, RowStep, AgedRow
  <2> QED BY <1>1, <2>1
<1> QED BY <1>1, QueueSafety, PTL DEF QueueSpec, LeaseNeverStolen

-----------------------------------------------------------------------------
(* The workers. *)

\* An operation that was handed to a worker at least once.
Started(o) == Exists(o) /\ row[o].attempts > 0

\* A worker has an operation in its hands from the claim to the end of the call.
HandsFull ==
    \A w \in Owner : cur[w] = 0 <=> pc[w] \in {"off", "idle", "recover", "claim"}

\* A worker that knows its request was applied has that operation in its hands.
LandedWasApplied ==
    \A w \in Owner :
        /\ landed[w] => pc[w] \in {"calling", "succeeded", "failed"} /\ cur[w] \in applied
        /\ pc[w] = "succeeded" => landed[w]

\* Whatever is on its way to the provider, or has been there, was claimed.
OnlyStarted ==
    /\ \A w \in Owner : cur[w] # 0 => Started(cur[w])
    /\ \A o \in Op, w \in Owner : <<o, w>> \in wire => Started(o)
    /\ \A o \in applied : Started(o)
    /\ \A e \in Entity : remote[e] # 0 => remote[e] \in applied /\ row[remote[e]].entity = e

\* Prompt calls: claims and requests are under a live lease, and only a dead
\* process leaves a request behind.
UnderLease ==
    prompt =>
      /\ \A w \in Owner : cur[w] # 0 => Holds(cur[w], w)
      /\ \A o \in Op, w \in Owner :
           <<o, w>> \in wire =>
             /\ Holds(o, w)
             /\ pc[w] = "off" \/ (pc[w] = "calling" /\ cur[w] = o /\ ~landed[w])

WorkerInv ==
    /\ QueueInv
    /\ WorkerTypeOK
    /\ HandsFull
    /\ LandedWasApplied
    /\ OnlyStarted
    /\ UnderLease
    /\ CompletedWasApplied

-----------------------------------------------------------------------------
(* What a step of the queue may do to a row that was claimed once. *)

RowsKept == \A x \in Op : Started(x) => Started(x)' /\ row'[x].entity = row[x].entity

LEMMA QueueKeepsRows ==
    ASSUME QueueInv, [QueueNext]_queueVars
    PROVE  RowsKept
<1> SUFFICES ASSUME NEW x \in Op, Started(x)
             PROVE  Started(x)' /\ row'[x].entity = row[x].entity
  BY DEF RowsKept
<1>0. row \in [Op -> Row] /\ row[x] \in Row /\ row[x].status # "absent" /\ row[x].attempts > 0
  BY DEF QueueInv, QueueTypeOK, Started, Exists
<1>1. ASSUME NEW o \in Op, NEW e \in Entity, Enqueue(o, e) PROVE row'[x] = row[x]
  BY <1>0, <1>1 DEF Enqueue, Exists
<1>2. ASSUME NEW o \in Op, NEW p \in Provider, NEW w \in Owner, Claim(o, p, w)
      PROVE  \/ row'[x] = row[x]
             \/ row'[x] = Claimed(row[x], w)
  BY <1>0, <1>2 DEF Claim
<1>3. ASSUME NEW w \in Owner
      PROVE  /\ Claimed(row[x], w).entity = row[x].entity
             /\ Claimed(row[x], w).status = "syncing"
             /\ Claimed(row[x], w).attempts > 0
  BY <1>0, <1>3, ClaimedRow
<1>4. ASSUME NEW d \in 0..MaxDelay,
             NEW s \in {Completed(row[x]), Deferred(row[x], d), Failed(row[x]), Requeued(row[x])}
      PROVE  s.entity = row[x].entity /\ s.attempts > 0 /\ s.status # "absent"
  BY <1>0, <1>4, FinishedRow
<1>5. ASSUME NEW o \in Op, NEW w \in Owner,
             \/ Complete(o, w) \/ Fail(o, w) \/ \E d \in 0..MaxDelay : RetryAt(o, w, d)
      PROVE  \/ row'[x] = row[x]
             \/ \E d \in 0..MaxDelay :
                  row'[x] \in {Completed(row[x]), Deferred(row[x], d), Failed(row[x])}
  BY <1>0, <1>5, Ranges DEF Complete, Fail, RetryAt
<1>6. ASSUME NEW p \in Provider, NEW age \in 0..LeaseTTL, RequeueStale(p, age)
      PROVE  row'[x] = row[x] \/ row'[x] = Requeued(row[x])
  BY <1>6 DEF RequeueStale
<1>7. CASE Tick
  BY <1>0, <1>7, AgedRow DEF Tick, Started, Exists
<1>8. CASE UNCHANGED queueVars
  BY <1>0, <1>8 DEF queueVars, Started, Exists
<1>9. CASE \E o \in Op, p \in Provider, w \in Owner : Claim(o, p, w)
  BY <1>0, <1>2, <1>3, <1>9 DEF Started, Exists
<1>10. CASE \E o \in Op, w \in Owner :
              \/ Complete(o, w) \/ Fail(o, w) \/ \E d \in 0..MaxDelay : RetryAt(o, w, d)
  BY <1>0, <1>4, <1>5, <1>10 DEF Started, Exists
<1>11. CASE \E p \in Provider, age \in 0..LeaseTTL : RequeueStale(p, age)
  BY <1>0, <1>4, <1>6, <1>11, Ranges DEF Started, Exists
<1>12. CASE \E o \in Op, e \in Entity : Enqueue(o, e)
  BY <1>0, <1>1, <1>12 DEF Started, Exists
<1> QED BY <1>7, <1>8, <1>9, <1>10, <1>11, <1>12 DEF QueueNext

LEMMA LiveLeaseIsNotDue ==
    ASSUME QueueInv, NEW o \in Op, NEW w \in Owner, Holds(o, w)
    PROVE  /\ ~Due(o)
           /\ o \notin Stale(Remote, LeaseTTL)
           /\ \A v \in Owner : Holds(o, v) => v = w
<1>1. row[o].lease \in Int /\ row[o].lease > 0 /\ row[o].status = "syncing" /\ row[o].owner = w
  BY QueueAssumption DEF QueueInv, QueueTypeOK, Row, Holds
<1>2. LeaseTTL \in Nat
  BY QueueAssumption
<1> QED BY <1>1, <1>2 DEF Due, Stale, Holds

\* A claimed row that is held is the first unsettled one of its entity.
LEMMA HeldIsFirst ==
    ASSUME QueueInv, NEW o \in Op, Started(o), NEW q \in Op, q < o, SameEntity(q, o)
    PROVE  Settled(q)
  BY DEF QueueInv, ClaimedInOrder, Started

-----------------------------------------------------------------------------
(* Every step of the workers is a step of the queue, or leaves it alone. *)

LEMMA StepIsQueueStep ==
    ASSUME WorkerInv, [Next]_vars
    PROVE  [QueueNext]_queueVars
<1>0. /\ Remote \in Provider /\ LeaseTTL \in 0..LeaseTTL
      /\ \A d \in 1..MaxDelay : d \in 0..MaxDelay
      /\ 0 \in 0..MaxDelay
  BY WorkerAssumption, QueueAssumption
<1>1. \A w \in Owner : pc[w] \in {"ready", "calling", "succeeded", "failed"} => cur[w] \in Op
  BY DEF WorkerInv, WorkerTypeOK, HandsFull
<1>2. ASSUME NEW o \in Op, NEW e \in Entity, Submit(o, e) PROVE QueueNext
  BY <1>2 DEF Submit, QueueNext
<1>3. ASSUME NEW w \in Owner, Recover(w) PROVE QueueNext
  BY <1>0, <1>3 DEF Recover, QueueNext
<1>4. ASSUME NEW w \in Owner, ClaimNext(w) PROVE QueueNext
  BY <1>0, <1>4 DEF ClaimNext, QueueNext
<1>5. ASSUME NEW w \in Owner, Acknowledge(w) PROVE QueueNext
  BY <1>1, <1>5 DEF Acknowledge, QueueNext
<1>6. ASSUME NEW w \in Owner, ScheduleRetry(w) PROVE QueueNext
  BY <1>0, <1>1, <1>6 DEF ScheduleRetry, QueueNext
<1>7. ASSUME NEW w \in Owner, Reject(w) PROVE QueueNext
  BY <1>1, <1>7 DEF Reject, QueueNext
<1>8. ASSUME NEW w \in Owner, Withdraw(w) PROVE QueueNext
  BY <1>0, <1>1, <1>8 DEF Withdraw, Release, QueueNext
<1>9. CASE TimePasses
  BY <1>9 DEF TimePasses, QueueNext
<1>10. ASSUME NEW w \in Owner,
              \/ Open(w) \/ Request(w) \/ Cancel(w) \/ Crash(w) \/ Finish(w) \/ Send(w)
              \/ Succeed(w) \/ PushError(w) \/ LeaseLost(w) \/ StoreError(w)
       PROVE  UNCHANGED queueVars
  BY <1>10 DEF Open, Request, Cancel, Crash, Finish, Send, Succeed, PushError, LeaseLost,
               StoreError
<1>11. ASSUME NEW o \in Op, NEW w \in Owner, Apply(o, w) PROVE UNCHANGED queueVars
  BY <1>11 DEF Apply
<1>12. CASE UNCHANGED vars
  BY <1>12 DEF vars
<1> QED BY <1>2, <1>3, <1>4, <1>5, <1>6, <1>7, <1>8, <1>9, <1>10, <1>11, <1>12
        DEF Next, CycleStep, Fault

-----------------------------------------------------------------------------
(* The worker invariant, step by step.  A step is proved to preserve the part   *)
(* of it that is not about the queue's own rows, which StepQueueInv preserves.  *)

Parts ==
    /\ WorkerTypeOK
    /\ HandsFull
    /\ LandedWasApplied
    /\ OnlyStarted
    /\ UnderLease
    /\ CompletedWasApplied

LEMMA FaultsCount ==
    ASSUME faults \in 0..MaxFaults, faults > 0
    PROVE  faults - 1 \in 0..MaxFaults
  BY WorkerAssumption

\* The cycle moves on, and nothing that the invariant speaks about moves with it.
LEMMA MoveInv ==
    ASSUME WorkerInv, UNCHANGED prompt, NEW w \in Owner,
           Open(w) \/ Request(w) \/ Cancel(w) \/ Succeed(w)
    PROVE  Parts'
<1>0. UNCHANGED <<queueVars, cur, landed, providerVars, prompt>>
  BY DEF Open, Request, Cancel, Succeed
<1>1. WorkerTypeOK'
  <2>1. pc' \in [Owner -> Step] /\ cancelled' \in [Owner -> BOOLEAN]
    BY DEF WorkerInv, WorkerTypeOK, Step, Open, Request, Cancel, Succeed, GoTo
  <2>2. faults' \in 0..MaxFaults
    BY FaultsCount DEF WorkerInv, WorkerTypeOK, Open, Request, Cancel, Succeed, SpendFault
  <2> QED BY <1>0, <2>1, <2>2 DEF WorkerInv, WorkerTypeOK, QueueTypeOK, queueVars, providerVars
<1>2. HandsFull'
  BY <1>0 DEF WorkerInv, WorkerTypeOK, HandsFull, Open, Request, Cancel, Succeed, GoTo
<1>3. LandedWasApplied'
  BY <1>0 DEF WorkerInv, WorkerTypeOK, LandedWasApplied, Open, Request, Cancel, Succeed, GoTo,
              providerVars
<1>4. OnlyStarted'
  BY <1>0 DEF WorkerInv, OnlyStarted, Started, Exists, queueVars, providerVars
<1>5. UnderLease'
  <2>1. CASE Open(w)
    BY <1>0, <2>1 DEF WorkerInv, WorkerTypeOK, UnderLease, Open, GoTo, Holds, queueVars,
                      providerVars
  <2>2. CASE Request(w)
    BY <1>0, <2>2 DEF WorkerInv, WorkerTypeOK, UnderLease, Request, GoTo, Holds, queueVars,
                      providerVars
  <2>3. CASE Cancel(w)
    BY <1>0, <2>3 DEF WorkerInv, UnderLease, Cancel, Holds, queueVars, providerVars
  <2>4. CASE Succeed(w)
    BY <1>0, <2>4 DEF WorkerInv, WorkerTypeOK, UnderLease, Succeed, GoTo, Holds, queueVars,
                      providerVars
  <2> QED BY <2>1, <2>2, <2>3, <2>4
<1>6. CompletedWasApplied'
  BY <1>0 DEF WorkerInv, CompletedWasApplied, queueVars, providerVars
<1> QED BY <1>1, <1>2, <1>3, <1>4, <1>5, <1>6 DEF Parts

\* The cycle ends and its operation is left as it is.
LEMMA DropInv ==
    ASSUME WorkerInv, UNCHANGED prompt, NEW w \in Owner,
           Crash(w) \/ Finish(w) \/ LeaseLost(w) \/ StoreError(w)
    PROVE  Parts'
<1>0. /\ UNCHANGED <<queueVars, providerVars, prompt>>
      /\ pc' = [pc EXCEPT ![w] = "off"]
         \/ (pc' = [pc EXCEPT ![w] = "idle"] /\ pc[w] \notin {"off", "calling"})
      /\ cur' = [cur EXCEPT ![w] = 0]
      /\ landed' = [landed EXCEPT ![w] = FALSE]
      /\ cancelled' = [cancelled EXCEPT ![w] = FALSE]
      /\ faults' = faults \/ (faults > 0 /\ faults' = faults - 1)
  BY DEF Crash, Finish, LeaseLost, StoreError, Return, GoTo, SpendFault
<1>1. WorkerTypeOK'
  BY <1>0, FaultsCount
     DEF WorkerInv, WorkerTypeOK, QueueTypeOK, Step, queueVars, providerVars
<1>2. HandsFull'
  BY <1>0 DEF WorkerInv, WorkerTypeOK, HandsFull
<1>3. LandedWasApplied'
  BY <1>0 DEF WorkerInv, WorkerTypeOK, LandedWasApplied, providerVars
<1>4. OnlyStarted'
  BY <1>0 DEF WorkerInv, WorkerTypeOK, OnlyStarted, Started, Exists, queueVars, providerVars
<1>5. UnderLease'
  BY <1>0 DEF WorkerInv, WorkerTypeOK, UnderLease, Holds, queueVars, providerVars
<1>6. CompletedWasApplied'
  BY <1>0 DEF WorkerInv, CompletedWasApplied, queueVars, providerVars
<1> QED BY <1>1, <1>2, <1>3, <1>4, <1>5, <1>6 DEF Parts

LEMMA SendInv ==
    ASSUME WorkerInv, UNCHANGED prompt, NEW w \in Owner, Send(w)
    PROVE  Parts'
<1>0. /\ cur[w] \in Op /\ cur[w] # 0 /\ pc[w] = "ready"
      /\ UNCHANGED <<queueVars, cur, cancelled, applied, remote, faults, prompt>>
      /\ wire' = wire \cup {<<cur[w], w>>}
      /\ landed' = [landed EXCEPT ![w] = FALSE]
      /\ pc' = [pc EXCEPT ![w] = "calling"]
  BY DEF Send, GoTo, WorkerInv, WorkerTypeOK, HandsFull
<1>1. \A o \in Op, v \in Owner :
         <<o, v>> \in wire' => <<o, v>> \in wire \/ (o = cur[w] /\ v = w)
  BY <1>0
<1>2. WorkerTypeOK'
  BY <1>0 DEF WorkerInv, WorkerTypeOK, QueueTypeOK, Step, queueVars
<1>3. HandsFull'
  BY <1>0 DEF WorkerInv, WorkerTypeOK, HandsFull
<1>4. LandedWasApplied'
  BY <1>0 DEF WorkerInv, WorkerTypeOK, LandedWasApplied
<1>5. OnlyStarted'
  BY <1>0, <1>1 DEF WorkerInv, WorkerTypeOK, OnlyStarted, Started, Exists, queueVars
<1>6. UnderLease'
  <2> SUFFICES ASSUME prompt PROVE UnderLease'
    BY <1>0 DEF UnderLease
  <2>1. /\ \A v \in Owner : v # w => landed'[v] = landed[v] /\ pc'[v] = pc[v]
        /\ ~landed'[w] /\ pc'[w] = "calling"
    BY <1>0 DEF WorkerInv, WorkerTypeOK
  <2>2. \A v \in Owner : cur'[v] # 0 => Holds(cur[v], v)'
    BY <1>0 DEF WorkerInv, UnderLease, Holds, queueVars
  <2>3. ASSUME NEW o \in Op, NEW v \in Owner, <<o, v>> \in wire'
        PROVE  Holds(o, v)' /\ (pc'[v] = "off" \/ (pc'[v] = "calling" /\ cur'[v] = o /\ ~landed'[v]))
    BY <1>0, <1>1, <2>1, <2>2, <2>3 DEF WorkerInv, UnderLease, Holds, queueVars
  <2> QED BY <2>2, <2>3 DEF UnderLease
<1>7. CompletedWasApplied'
  BY <1>0 DEF WorkerInv, CompletedWasApplied, queueVars
<1> QED BY <1>2, <1>3, <1>4, <1>5, <1>6, <1>7 DEF Parts

LEMMA PushErrorInv ==
    ASSUME WorkerInv, UNCHANGED prompt, NEW w \in Owner, PushError(w)
    PROVE  Parts'
<1>0. /\ cur[w] \in Op /\ cur[w] # 0 /\ pc[w] = "calling"
      /\ UNCHANGED <<queueVars, cur, cancelled, landed, applied, remote, prompt>>
      /\ wire' \subseteq wire
      /\ prompt => wire' = wire \ {<<cur[w], w>>}
      /\ pc' = [pc EXCEPT ![w] = "failed"]
      /\ faults > 0 /\ faults' = faults - 1
  BY DEF PushError, SpendFault, GoTo, WorkerInv, WorkerTypeOK, HandsFull
<1>1. WorkerTypeOK'
  BY <1>0, FaultsCount DEF WorkerInv, WorkerTypeOK, QueueTypeOK, Step, queueVars
<1>2. HandsFull'
  BY <1>0 DEF WorkerInv, WorkerTypeOK, HandsFull
<1>3. LandedWasApplied'
  BY <1>0 DEF WorkerInv, WorkerTypeOK, LandedWasApplied
<1>4. OnlyStarted'
  BY <1>0 DEF WorkerInv, WorkerTypeOK, OnlyStarted, Started, Exists, queueVars
<1>5. UnderLease'
  BY <1>0 DEF WorkerInv, WorkerTypeOK, UnderLease, Holds, queueVars
<1>6. CompletedWasApplied'
  BY <1>0 DEF WorkerInv, CompletedWasApplied, queueVars
<1> QED BY <1>1, <1>2, <1>3, <1>4, <1>5, <1>6 DEF Parts

LEMMA ApplyInv ==
    ASSUME WorkerInv, UNCHANGED prompt, NEW o \in Op, NEW w \in Owner, Apply(o, w)
    PROVE  Parts'
<1>0. /\ UNCHANGED <<queueVars, pc, cur, cancelled, faults, prompt>>
      /\ <<o, w>> \in wire
      /\ wire' = wire \ {<<o, w>>}
      /\ applied' = applied \cup {o}
      /\ remote' = [remote EXCEPT ![row[o].entity] = o]
      /\ landed' = [landed EXCEPT ![w] = @ \/ (pc[w] = "calling" /\ cur[w] = o)]
  BY DEF Apply
<1>1. /\ Started(o) /\ row[o].entity \in Entity
      /\ o # 0
  BY <1>0 DEF WorkerInv, OnlyStarted, QueueInv, RowShape, Started, Op
<1>2. \A v \in Owner : landed'[v] = (landed[v] \/ (v = w /\ pc[w] = "calling" /\ cur[w] = o))
  BY <1>0 DEF WorkerInv, WorkerTypeOK
<1>3. WorkerTypeOK'
  <2>1. landed' \in [Owner -> BOOLEAN]
    BY <1>0 DEF WorkerInv, WorkerTypeOK
  <2>2. remote' \in [Entity -> Op \cup {0}]
    BY <1>0, <1>1 DEF WorkerInv, WorkerTypeOK
  <2> QED BY <1>0, <2>1, <2>2 DEF WorkerInv, WorkerTypeOK, QueueTypeOK, queueVars
<1>4. HandsFull'
  BY <1>0 DEF WorkerInv, HandsFull
<1>5. LandedWasApplied'
  BY <1>0, <1>2 DEF WorkerInv, LandedWasApplied
<1>6. OnlyStarted'
  <2>1. \A e \in Entity : remote'[e] # 0 => remote'[e] \in applied' /\ row[remote'[e]].entity = e
    BY <1>0, <1>1 DEF WorkerInv, WorkerTypeOK, OnlyStarted
  <2> QED BY <1>0, <1>1, <2>1 DEF WorkerInv, OnlyStarted, Started, Exists, queueVars
<1>7. UnderLease'
  BY <1>0, <1>2 DEF WorkerInv, UnderLease, Holds, queueVars
<1>8. CompletedWasApplied'
  BY <1>0 DEF WorkerInv, CompletedWasApplied, queueVars
<1> QED BY <1>3, <1>4, <1>5, <1>6, <1>7, <1>8 DEF Parts

\* A worker writes the outcome of its call into the row it holds.
Settle(w) == Acknowledge(w) \/ ScheduleRetry(w) \/ Reject(w) \/ Withdraw(w)

LEMMA SettleRows ==
    ASSUME WorkerInv, NEW w \in Owner, Settle(w)
    PROVE  /\ cur[w] \in Op /\ Holds(cur[w], w)
           /\ \A x \in Op : x # cur[w] => row'[x] = row[x]
           /\ row'[cur[w]].status = "completed" => cur[w] \in applied
<1>0. /\ cur[w] \in Op /\ row \in [Op -> Row]
      /\ pc[w] = "succeeded" => cur[w] \in applied
  BY DEF Settle, Acknowledge, ScheduleRetry, Reject, Withdraw, WorkerInv, WorkerTypeOK,
         HandsFull, LandedWasApplied, QueueTypeOK
<1>1. row[cur[w]] \in Row
  BY <1>0
<1>2. /\ \A d \in 0..MaxDelay : Deferred(row[cur[w]], d).status # "completed"
      /\ Failed(row[cur[w]]).status # "completed"
  BY <1>1 DEF Deferred, Failed, Row
<1>3. CASE Acknowledge(w)
  BY <1>0, <1>3 DEF Acknowledge, Complete
<1>4. CASE ScheduleRetry(w) \/ Withdraw(w)
  <2> PICK d \in 0..MaxDelay : RetryAt(cur[w], w, d)
    BY <1>4, Ranges DEF ScheduleRetry, Withdraw, Release
  <2> QED BY <1>0, <1>2 DEF RetryAt
<1>5. CASE Reject(w)
  BY <1>0, <1>2, <1>5 DEF Reject, Fail
<1> QED BY <1>3, <1>4, <1>5 DEF Settle

LEMMA SettleInv ==
    ASSUME WorkerInv, QueueInv', RowsKept, UNCHANGED prompt, NEW w \in Owner, Settle(w)
    PROVE  Parts'
<1>0. /\ UNCHANGED <<providerVars, faults, prompt>>
      /\ pc[w] \in {"ready", "succeeded", "failed"}
      /\ pc' = [pc EXCEPT ![w] = "claim"] \/ pc' = [pc EXCEPT ![w] = "idle"]
      /\ cur' = [cur EXCEPT ![w] = 0]
      /\ landed' = [landed EXCEPT ![w] = FALSE]
      /\ cancelled' = cancelled \/ cancelled' = [cancelled EXCEPT ![w] = FALSE]
  BY DEF Settle, Acknowledge, ScheduleRetry, Reject, Withdraw, Return, GoTo
<1>1. /\ cur[w] \in Op /\ Holds(cur[w], w)
      /\ \A x \in Op : x # cur[w] => row'[x] = row[x]
      /\ row'[cur[w]].status = "completed" => cur[w] \in applied
  BY SettleRows
<1>2. WorkerTypeOK'
  BY <1>0 DEF WorkerInv, WorkerTypeOK, QueueInv, Step, providerVars
<1>3. HandsFull'
  BY <1>0 DEF WorkerInv, WorkerTypeOK, HandsFull
<1>4. LandedWasApplied'
  BY <1>0 DEF WorkerInv, WorkerTypeOK, LandedWasApplied, providerVars
<1>5. OnlyStarted'
  BY <1>0 DEF WorkerInv, WorkerTypeOK, OnlyStarted, RowsKept, providerVars
<1>6. UnderLease'
  <2> SUFFICES ASSUME prompt PROVE UnderLease'
    BY <1>0 DEF UnderLease
  <2>1. ASSUME NEW x \in Op, NEW v \in Owner, v # w, Holds(x, v) PROVE Holds(x, v)'
    BY <1>1, <2>1 DEF Holds
  <2>2. \A v \in Owner : v # w => cur'[v] = cur[v] /\ pc'[v] = pc[v] /\ landed'[v] = landed[v]
    BY <1>0 DEF WorkerInv, WorkerTypeOK
  <2>3. ASSUME NEW v \in Owner, cur'[v] # 0 PROVE Holds(cur[v], v)'
    BY <1>0, <2>1, <2>2, <2>3 DEF WorkerInv, WorkerTypeOK, UnderLease
  <2>4. ASSUME NEW x \in Op, NEW v \in Owner, <<x, v>> \in wire' PROVE v # w /\ Holds(x, v)
    BY <1>0, <2>4 DEF WorkerInv, UnderLease, providerVars
  <2>5. ASSUME NEW x \in Op, NEW v \in Owner, <<x, v>> \in wire'
        PROVE  Holds(x, v)' /\ (pc'[v] = "off" \/ (pc'[v] = "calling" /\ cur'[v] = x /\ ~landed'[v]))
    BY <1>0, <2>1, <2>2, <2>4, <2>5 DEF WorkerInv, UnderLease, providerVars
  <2> QED BY <2>3, <2>5 DEF UnderLease
<1>7. CompletedWasApplied'
  BY <1>0, <1>1 DEF WorkerInv, CompletedWasApplied, providerVars
<1> QED BY <1>2, <1>3, <1>4, <1>5, <1>6, <1>7 DEF Parts

\* Steps that touch no row under a live lease and no request: what is held stays held.
LEMMA HeldStays ==
    ASSUME WorkerInv, NEW x \in Op, NEW v \in Owner, Holds(x, v), row'[x] = row[x]
    PROVE  Holds(x, v)'
  BY DEF Holds

LEMMA RecoverInv ==
    ASSUME WorkerInv, QueueInv', RowsKept, UNCHANGED prompt, NEW w \in Owner, Recover(w)
    PROVE  Parts'
<1>0. /\ UNCHANGED <<cur, cancelled, landed, providerVars, faults, prompt>>
      /\ pc[w] = "recover"
      /\ pc' = [pc EXCEPT ![w] = "claim"]
      /\ RequeueStale(Remote, LeaseTTL)
  BY DEF Recover, GoTo
<1>1. WorkerTypeOK'
  BY <1>0 DEF WorkerInv, WorkerTypeOK, QueueInv, Step, providerVars
<1>2. HandsFull'
  BY <1>0 DEF WorkerInv, WorkerTypeOK, HandsFull
<1>3. LandedWasApplied'
  BY <1>0 DEF WorkerInv, WorkerTypeOK, LandedWasApplied, providerVars
<1>4. OnlyStarted'
  BY <1>0 DEF WorkerInv, WorkerTypeOK, OnlyStarted, RowsKept, providerVars
<1>5. UnderLease'
  <2>1. ASSUME NEW x \in Op, NEW v \in Owner, Holds(x, v) PROVE Holds(x, v)'
    <3>1. x \notin Stale(Remote, LeaseTTL)
      BY <2>1, LiveLeaseIsNotDue DEF WorkerInv
    <3>2. row'[x] = row[x]
      BY <1>0, <3>1 DEF RequeueStale
    <3> QED BY <2>1, <3>2, HeldStays
  <2> QED BY <1>0, <2>1 DEF WorkerInv, WorkerTypeOK, UnderLease, providerVars
<1>6. CompletedWasApplied'
  <2>1. \A x \in Op : row[x] \in Row /\ Requeued(row[x]).status = "pending"
    BY DEF WorkerInv, QueueInv, QueueTypeOK, Requeued, Row
  <2> QED BY <1>0, <2>1 DEF WorkerInv, CompletedWasApplied, RequeueStale, providerVars
<1> QED BY <1>1, <1>2, <1>3, <1>4, <1>5, <1>6 DEF Parts

LEMMA ClaimNextInv ==
    ASSUME WorkerInv, QueueInv', RowsKept, UNCHANGED prompt, NEW w \in Owner, ClaimNext(w)
    PROVE  Parts'
<1>0. PICK o \in Op : Claim(o, Remote, w) /\ cur' = [cur EXCEPT ![w] = o]
  BY DEF ClaimNext
<1>1. /\ UNCHANGED <<cancelled, landed, providerVars, faults, prompt>>
      /\ pc[w] = "claim"
      /\ pc' = [pc EXCEPT ![w] = "ready"]
      /\ Due(o)
      /\ row' = [row EXCEPT ![o] = Claimed(@, w)]
      /\ row \in [Op -> Row]
  BY <1>0 DEF ClaimNext, GoTo, Claim, NextEligible, Eligible, WorkerInv, QueueInv, QueueTypeOK
<1>2. /\ Holds(o, w)'
      /\ Started(o)'
      /\ row'[o].status = "syncing"
  <2>1. row[o] \in Row /\ row'[o] = Claimed(row[o], w)
    BY <1>1
  <2>2. Claimed(row[o], w).attempts > 0 /\ Claimed(row[o], w).status = "syncing"
    BY <2>1, ClaimedRow
  <2>3. Claimed(row[o], w).owner = w /\ Claimed(row[o], w).lease = LeaseTTL /\ LeaseTTL > 0
    BY <2>1, QueueAssumption DEF Claimed, Row
  <2> QED BY <2>1, <2>2, <2>3 DEF Holds, Started, Exists
<1>3. WorkerTypeOK'
  <2>1. pc' \in [Owner -> Step] /\ cur' \in [Owner -> Op \cup {0}]
    BY <1>0, <1>1 DEF WorkerInv, WorkerTypeOK, Step
  <2> QED BY <1>1, <2>1 DEF WorkerInv, WorkerTypeOK, QueueInv, providerVars
<1>4. HandsFull'
  <2>1. o # 0
    BY QueueAssumption DEF Op
  <2> QED BY <1>0, <1>1, <2>1 DEF WorkerInv, WorkerTypeOK, HandsFull
<1>5. LandedWasApplied'
  BY <1>0, <1>1 DEF WorkerInv, WorkerTypeOK, LandedWasApplied, providerVars
<1>6. OnlyStarted'
  <2>1. ASSUME NEW v \in Owner, cur'[v] # 0 PROVE Started(cur[v])'
    BY <1>0, <1>2, <2>1 DEF WorkerInv, WorkerTypeOK, OnlyStarted, RowsKept
  <2> QED BY <1>1, <2>1 DEF WorkerInv, WorkerTypeOK, OnlyStarted, RowsKept, providerVars
<1>7. UnderLease'
  <2> SUFFICES ASSUME prompt PROVE UnderLease'
    BY <1>1 DEF UnderLease
  <2>1. ASSUME NEW x \in Op, NEW v \in Owner, Holds(x, v) PROVE Holds(x, v)'
    <3>1. x # o
      BY <1>1, <2>1, LiveLeaseIsNotDue DEF WorkerInv
    <3> QED BY <1>1, <2>1, <3>1, HeldStays
  <2>2. \A v \in Owner : v # w => cur'[v] = cur[v] /\ pc'[v] = pc[v]
    BY <1>0, <1>1 DEF WorkerInv, WorkerTypeOK
  <2>3. ASSUME NEW v \in Owner, cur'[v] # 0 PROVE Holds(cur[v], v)'
    BY <1>0, <1>2, <2>1, <2>2, <2>3 DEF WorkerInv, WorkerTypeOK, UnderLease
  <2>4. ASSUME NEW x \in Op, NEW v \in Owner, <<x, v>> \in wire'
        PROVE  Holds(x, v)' /\ (pc'[v] = "off" \/ (pc'[v] = "calling" /\ cur'[v] = x /\ ~landed'[v]))
    BY <1>1, <2>1, <2>2, <2>4 DEF WorkerInv, UnderLease, providerVars
  <2> QED BY <2>3, <2>4 DEF UnderLease
<1>8. CompletedWasApplied'
  BY <1>1, <1>2 DEF WorkerInv, CompletedWasApplied, providerVars
<1> QED BY <1>3, <1>4, <1>5, <1>6, <1>7, <1>8 DEF Parts

LEMMA TimePassesInv ==
    ASSUME WorkerInv, QueueInv', RowsKept, UNCHANGED prompt, TimePasses
    PROVE  Parts'
<1>0. /\ UNCHANGED <<pc, cur, cancelled, landed, wire, applied, remote, faults, prompt>>
      /\ \A x \in Op : row'[x] = Aged(row[x])
      /\ \A x \in Op : row[x] \in Row
      /\ prompt => \A x \in Op : Engaged(x) => row[x].lease > 1
  BY DEF TimePasses, Tick, workerVars, providerVars, WorkerInv, QueueInv, QueueTypeOK
<1>1. WorkerTypeOK'
  BY <1>0 DEF WorkerInv, WorkerTypeOK, QueueInv
<1>2. HandsFull' /\ LandedWasApplied'
  BY <1>0 DEF WorkerInv, HandsFull, LandedWasApplied
<1>3. OnlyStarted'
  BY <1>0 DEF WorkerInv, WorkerTypeOK, OnlyStarted, RowsKept
<1>4. UnderLease'
  <2> SUFFICES ASSUME prompt PROVE UnderLease'
    BY <1>0 DEF UnderLease
  <2>1. ASSUME NEW x \in Op, NEW v \in Owner, Engaged(x), Holds(x, v) PROVE Holds(x, v)'
    <3>1. row[x].lease \in Int /\ row[x].lease > 1 /\ row[x] \in Row
      BY <1>0, <2>1, QueueAssumption DEF Row
    <3>2. Aged(row[x]).lease = row[x].lease - 1 \/ Aged(row[x]).lease = row[x].lease
      BY <3>1 DEF Aged, Row
    <3>3. Aged(row[x]).status = row[x].status /\ Aged(row[x]).owner = row[x].owner
      BY <3>1, AgedRow
    <3>4. Aged(row[x]).lease > 0
      BY <3>1, <3>2
    <3> QED BY <1>0, <2>1, <3>3, <3>4 DEF Holds
  <2> QED BY <1>0, <2>1 DEF WorkerInv, WorkerTypeOK, UnderLease, Engaged
<1>5. CompletedWasApplied'
  BY <1>0, AgedRow DEF WorkerInv, CompletedWasApplied
<1> QED BY <1>1, <1>2, <1>3, <1>4, <1>5 DEF Parts

LEMMA SubmitInv ==
    ASSUME WorkerInv, QueueInv', RowsKept, UNCHANGED prompt,
           NEW o \in Op, NEW e \in Entity, Submit(o, e)
    PROVE  Parts'
<1>0. /\ UNCHANGED <<pc, cur, cancelled, landed, wire, applied, remote, faults, prompt>>
      /\ row' = [row EXCEPT ![o] = NewRow(e)]
      /\ row \in [Op -> Row]
      /\ row[o].status = "absent"
      /\ NewRow(e).status = "pending"
  BY BlankRows DEF Submit, Enqueue, Exists, workerVars, providerVars, WorkerInv, QueueInv,
                   QueueTypeOK
<1>1. WorkerTypeOK'
  BY <1>0 DEF WorkerInv, WorkerTypeOK, QueueInv
<1>2. HandsFull' /\ LandedWasApplied'
  BY <1>0 DEF WorkerInv, HandsFull, LandedWasApplied
<1>3. OnlyStarted'
  BY <1>0 DEF WorkerInv, WorkerTypeOK, OnlyStarted, RowsKept
<1>4. UnderLease'
  <2>1. ASSUME NEW x \in Op, NEW v \in Owner, Holds(x, v) PROVE Holds(x, v)'
    BY <1>0, <2>1 DEF Holds
  <2> QED BY <1>0, <2>1 DEF WorkerInv, WorkerTypeOK, UnderLease
<1>5. CompletedWasApplied'
  BY <1>0 DEF WorkerInv, CompletedWasApplied
<1> QED BY <1>1, <1>2, <1>3, <1>4, <1>5 DEF Parts

LEMMA InitWorkerInv == Init => WorkerInv
<1> SUFFICES ASSUME Init PROVE WorkerInv
  OBVIOUS
<1>1. QueueInv
  BY InitQueueInv DEF Init
<1>2. WorkerTypeOK
  BY <1>1 DEF Init, WorkerTypeOK, QueueInv, Step
<1>3. \A o \in Op : row[o].status # "completed"
  <2>1. NoRow.status # "completed"
    BY DEF NoRow
  <2> QED BY <2>1, BlankRows DEF Init, QueueInit
<1> QED BY <1>1, <1>2, <1>3 DEF Init, WorkerInv, HandsFull, LandedWasApplied, OnlyStarted,
                                UnderLease, CompletedWasApplied

LEMMA StepWorkerInv == WorkerInv /\ [Next]_vars => WorkerInv'
<1> SUFFICES ASSUME WorkerInv, [Next]_vars PROVE WorkerInv'
  OBVIOUS
<1>0. [QueueNext]_queueVars
  BY StepIsQueueStep
<1>1. QueueInv'
  BY <1>0, StepQueueInv DEF WorkerInv
<1>2. RowsKept
  BY <1>0, QueueKeepsRows DEF WorkerInv
<1>3. Parts' => WorkerInv'
  BY <1>1 DEF Parts, WorkerInv
<1>4. CASE UNCHANGED vars
  BY <1>4 DEF vars, workerVars, providerVars, queueVars, WorkerInv, QueueInv, QueueTypeOK, NoGaps,
              RowShape, ClaimedInOrder, ShownStateMatchesFlight, Exists, SameEntity, Settled,
              WorkerTypeOK, HandsFull, LandedWasApplied, OnlyStarted, Started, UnderLease, Holds,
              CompletedWasApplied
<1>5. CASE Next
  <2> SUFFICES Parts'
    BY <1>3
  <2>0. UNCHANGED prompt
    BY <1>5 DEF Next
  <2>1. ASSUME NEW o \in Op, NEW e \in Entity, Submit(o, e) PROVE Parts'
    BY <1>1, <1>2, <2>0, <2>1, SubmitInv
  <2>2. ASSUME NEW w \in Owner, Open(w) \/ Request(w) \/ Cancel(w) \/ Succeed(w) PROVE Parts'
    BY <2>0, <2>2, MoveInv
  <2>3. ASSUME NEW w \in Owner, Crash(w) \/ Finish(w) \/ LeaseLost(w) \/ StoreError(w)
        PROVE  Parts'
    BY <2>0, <2>3, DropInv
  <2>4. ASSUME NEW w \in Owner, Send(w) PROVE Parts'
    BY <2>0, <2>4, SendInv
  <2>5. ASSUME NEW w \in Owner, PushError(w) PROVE Parts'
    BY <2>0, <2>5, PushErrorInv
  <2>6. ASSUME NEW w \in Owner, Settle(w) PROVE Parts'
    BY <1>1, <1>2, <2>0, <2>6, SettleInv
  <2>7. ASSUME NEW w \in Owner, Recover(w) PROVE Parts'
    BY <1>1, <1>2, <2>0, <2>7, RecoverInv
  <2>8. ASSUME NEW w \in Owner, ClaimNext(w) PROVE Parts'
    BY <1>1, <1>2, <2>0, <2>8, ClaimNextInv
  <2>9. ASSUME NEW o \in Op, NEW w \in Owner, Apply(o, w) PROVE Parts'
    BY <2>0, <2>9, ApplyInv
  <2>10. CASE TimePasses
    BY <1>1, <1>2, <2>0, <2>10, TimePassesInv
  <2>11. ASSUME NEW w \in Owner, CycleStep(w) \/ Fault(w) PROVE Parts'
    BY <2>2, <2>3, <2>4, <2>5, <2>6, <2>7, <2>8, <2>11 DEF CycleStep, Fault, Settle
  <2>12. ASSUME NEW w \in Owner, Open(w) \/ Request(w) PROVE Parts'
    BY <2>2, <2>12
  <2> QED BY <1>5, <2>1, <2>9, <2>10, <2>11, <2>12 DEF Next
<1> QED BY <1>4, <1>5

-----------------------------------------------------------------------------
(* The theorems. *)

\* The inductive invariant holds of every behaviour of the workers, prompt or not.
THEOREM WorkerSafety == Spec => []WorkerInv
  BY InitWorkerInv, StepWorkerInv, PTL DEF Spec

\* Type correctness.
THEOREM WorkerTyped == Spec => []WorkerTypeOK
<1>1. WorkerInv => WorkerTypeOK
  BY DEF WorkerInv
<1> QED BY <1>1, WorkerSafety, PTL

\* No edit is lost: what the queue calls completed, the provider has applied.
THEOREM WorkerLosesNothing == Spec => []CompletedWasApplied
<1>1. WorkerInv => CompletedWasApplied
  BY DEF WorkerInv
<1> QED BY <1>1, WorkerSafety, PTL

\* Every behaviour of the workers is one of the queue: all that SyncQueue promises
\* of unconstrained clients holds of them.
THEOREM WorkerUsesQueue == Spec => QueueSpec
<1>1. Init => QueueInit
  BY DEF Init
<1> QED BY <1>1, StepIsQueueStep, WorkerSafety, PTL DEF Spec, QueueSpec

\* While calls are prompt, two workers never have an operation of one entity in
\* their hands, and each still holds the lease of what it has.
THEOREM WorkersExclude == Spec => []ClaimIsExclusive
<1>1. ASSUME WorkerInv, prompt, NEW w \in Owner, cur[w] # 0
      PROVE  /\ Holds(cur[w], w)
             /\ \A v \in Owner : v # w /\ cur[v] # 0 => ~SameEntity(cur[v], cur[w])
  <2>1. \A v \in Owner : cur[v] # 0 => Holds(cur[v], v) /\ cur[v] \in Op
    BY <1>1 DEF WorkerInv, WorkerTypeOK, UnderLease
  <2>2. OneInFlightPerEntity
    BY <1>1, OneInFlight DEF WorkerInv
  <2>3. ASSUME NEW v \in Owner, v # w, cur[v] # 0, SameEntity(cur[v], cur[w]) PROVE FALSE
    BY <1>1, <2>1, <2>2, <2>3 DEF OneInFlightPerEntity, Holds
  <2> QED BY <1>1, <2>1, <2>3
<1>2. WorkerInv => ClaimIsExclusive
  BY <1>1 DEF ClaimIsExclusive
<1> QED BY <1>2, WorkerSafety, PTL

-----------------------------------------------------------------------------
(* What a prompt step does to the provider: it applies the operation whose      *)
(* worker holds it, the first of its entity that is not settled.               *)

LEMMA AppliesTheFirst ==
    ASSUME WorkerInv, prompt, NEW o \in Op, NEW w \in Owner, <<o, w>> \in wire
    PROVE  /\ row[o].status = "syncing" /\ Started(o)
           /\ \A q \in Op : q < o /\ SameEntity(q, o) => Settled(q)
<1>1. row[o].status = "syncing" /\ Started(o)
  BY DEF WorkerInv, UnderLease, OnlyStarted, Holds
<1> QED BY <1>1, HeldIsFirst DEF WorkerInv

\* While calls are prompt, a remote entity never goes back to an older operation.
THEOREM RemoteMovesOn == Spec => RemoteNeverGoesBack
<1>1. ASSUME WorkerInv, [Next]_vars
      PROVE  [prompt => \A e \in Entity : remote'[e] >= remote[e]]_vars
  <2> SUFFICES ASSUME prompt, NEW e \in Entity PROVE remote'[e] >= remote[e]
    OBVIOUS
  <2>0. remote[e] \in Op \cup {0} /\ \A x \in Op : x \in Int /\ x > 0
    BY <1>1, QueueAssumption DEF WorkerInv, WorkerTypeOK, Op
  <2>1. CASE \E o \in Op, w \in Owner : Apply(o, w)
    <3>1. PICK o \in Op, w \in Owner : Apply(o, w)
      BY <2>1
    <3>2. /\ <<o, w>> \in wire
          /\ remote' = [remote EXCEPT ![row[o].entity] = o]
          /\ remote \in [Entity -> Op \cup {0}]
      BY <1>1, <3>1 DEF Apply, WorkerInv, WorkerTypeOK
    <3>3. CASE e # row[o].entity \/ remote[e] = 0
      BY <2>0, <3>2, <3>3
    <3>4. CASE e = row[o].entity /\ remote[e] # 0
      <4>1. remote[e] \in Op /\ Started(remote[e]) /\ SameEntity(o, remote[e])
        BY <1>1, <2>0, <3>4 DEF WorkerInv, OnlyStarted, SameEntity
      <4>2. ~Settled(o)
        BY <1>1, <3>2, AppliesTheFirst DEF Settled
      <4>3. ~(o < remote[e])
        BY <1>1, <4>1, <4>2, HeldIsFirst DEF WorkerInv
      <4>4. remote'[e] = o
        BY <3>2, <3>4
      <4> QED BY <2>0, <4>1, <4>3, <4>4
    <3> QED BY <3>3, <3>4
  <2>2. CASE ~ \E o \in Op, w \in Owner : Apply(o, w)
    <3>1. UNCHANGED remote
      BY <1>1, <2>2 DEF Next, CycleStep, Fault, Submit, Open, Request, Cancel, Crash, Recover,
                        ClaimNext, Finish, Send, Succeed, PushError, Acknowledge, ScheduleRetry,
                        Reject, Withdraw, LeaseLost, StoreError, TimePasses, providerVars, vars
    <3> QED BY <2>0, <3>1
  <2> QED BY <2>1, <2>2
<1> QED BY <1>1, WorkerSafety, PTL DEF Spec, RemoteNeverGoesBack

-----------------------------------------------------------------------------
(* The workers implement Delivery. *)

\* The outcome of an operation depends on its row alone.
OutcomeIn(r) ==
    CASE r.status = "absent" -> "none"
      [] r.status = "completed" -> "acknowledged"
      [] r.status = "failed" /\ ~r.retryable -> "rejected"
      [] OTHER -> "open"

LEMMA OutcomeOfRow == \A o \in Op : OutcomeOf(o) = OutcomeIn(row[o])
  BY DEF OutcomeOf, OutcomeIn, Exists

LEMMA OutcomeOpen ==
    ASSUME QueueInv, NEW o \in Op
    PROVE  /\ OutcomeOf(o) = "none" <=> ~Exists(o)
           /\ Settled(o) => OutcomeOf(o) \in {"acknowledged", "rejected"}
           /\ Exists(o) /\ ~Settled(o) => OutcomeOf(o) = "open"
  BY DEF OutcomeOf, Exists, Settled

\* Where calls are not prompt, and where no row changes its entity or its outcome,
\* the promise sees nothing.
LEMMA NothingSeen ==
    ASSUME UNCHANGED prompt,
           \/ ~prompt
           \/ /\ UNCHANGED <<applied, remote>>
              /\ \A o \in Op : row'[o].entity = row[o].entity /\ OutcomeOf(o)' = OutcomeOf(o)
    PROVE  UNCHANGED Promise!deliveryVars
  BY DEF Promise!deliveryVars, Seen

\* What is seen of a prompt step that gives one row a new outcome.
LEMMA OutcomeSeen ==
    ASSUME prompt, UNCHANGED <<applied, remote, prompt>>, NEW o \in Op,
           NEW out, OutcomeOf(o)' = out, row'[o].entity = row[o].entity,
           \A x \in Op : x # o => row'[x] = row[x]
    PROVE  /\ UNCHANGED <<Seen([x \in Op |-> row[x].entity], [x \in Op |-> NoEntity]),
                          Seen(applied, {}), Seen(remote, [e \in Entity |-> 0])>>
           /\ Seen([x \in Op |-> OutcomeOf(x)], [x \in Op |-> "none"])' =
                [Seen([x \in Op |-> OutcomeOf(x)], [x \in Op |-> "none"]) EXCEPT ![o] = out]
<1>1. \A x \in Op : x # o => OutcomeOf(x)' = OutcomeOf(x)
  BY OutcomeOfRow DEF OutcomeOf, Exists
<1>2. \A x \in Op : row'[x].entity = row[x].entity
  OBVIOUS
<1> QED BY <1>1, <1>2 DEF Seen

\* A held row is the one every delivery of its entity waits for.
LEMMA HeldIsFrontier ==
    ASSUME WorkerInv, prompt, NEW o \in Op, row[o].status = "syncing"
    PROVE  Promise!Frontier(o)
<1>1. Started(o) /\ ~Settled(o)
  BY DEF WorkerInv, QueueInv, RowShape, Started, Exists, Settled
<1>2. OutcomeOf(o) = "open"
  BY <1>1, OutcomeOpen DEF WorkerInv, Started
<1>3. ASSUME NEW q \in Op, q < o, row[q].entity = row[o].entity
      PROVE  OutcomeOf(q) \in {"acknowledged", "rejected"}
  BY <1>1, <1>3, HeldIsFirst, OutcomeOpen DEF WorkerInv, SameEntity
<1> QED BY <1>2, <1>3 DEF Promise!Frontier, Promise!Closed, Promise!Op, Op, Seen

LEMMA SettleDelivers ==
    ASSUME WorkerInv, QueueInv', RowsKept, prompt, UNCHANGED prompt, NEW w \in Owner, Settle(w)
    PROVE  [Promise!Next]_(Promise!deliveryVars)
<1>0. UNCHANGED <<applied, remote>>
  BY DEF Settle, Acknowledge, ScheduleRetry, Reject, Withdraw, providerVars
<1>1. PICK o \in Op : /\ o = cur[w] /\ Holds(o, w)
                      /\ \A x \in Op : x # o => row'[x] = row[x]
  BY SettleRows
<1>2. /\ row \in [Op -> Row] /\ row[o] \in Row
      /\ row[o].status = "syncing"
      /\ Promise!Op = Op
  BY <1>1 DEF WorkerInv, QueueInv, QueueTypeOK, Holds, Promise!Op, Op
<1>3. Promise!Frontier(o)
  BY <1>1, <1>2, HeldIsFrontier
<1>4. row'[o].entity = row[o].entity
  BY <1>1, <1>2 DEF RowsKept, WorkerInv, QueueInv, RowShape, Started, Exists
<1>5. OutcomeOf(o)' = OutcomeIn(row'[o]) /\ OutcomeOf(o) = OutcomeIn(row[o])
  BY <1>1 DEF OutcomeOf, OutcomeIn, Exists
<1>6. CASE Acknowledge(w)
  <2>1. row'[o] = Completed(row[o])
    BY <1>1, <1>2, <1>6 DEF Acknowledge, Complete
  <2>2. OutcomeIn(Completed(row[o])) = "acknowledged"
    BY <1>2 DEF OutcomeIn, Completed, Row
  <2>3. OutcomeOf(o)' = "acknowledged"
    BY <1>5, <2>1, <2>2
  <2>4. o \in Seen(applied, {})
    BY <1>1, <1>6 DEF Acknowledge, WorkerInv, LandedWasApplied, Seen
  <2>5. Promise!Acknowledge(o)
    BY <1>0, <1>1, <1>3, <1>4, <2>3, <2>4, OutcomeSeen DEF Promise!Acknowledge
  <2> QED BY <1>1, <1>2, <2>5 DEF Promise!Next
<1>7. CASE Reject(w)
  <2>1. row'[o] = Failed(row[o])
    BY <1>1, <1>2, <1>7 DEF Reject, Fail
  <2>2. OutcomeIn(Failed(row[o])) = "rejected"
    BY <1>2 DEF OutcomeIn, Failed, Row
  <2>3. OutcomeOf(o)' = "rejected"
    BY <1>5, <2>1, <2>2
  <2>4. Promise!Reject(o)
    BY <1>0, <1>1, <1>3, <1>4, <2>3, OutcomeSeen DEF Promise!Reject
  <2> QED BY <1>1, <1>2, <2>4 DEF Promise!Next
<1>8. CASE ScheduleRetry(w) \/ Withdraw(w)
  <2>1. PICK d \in 0..MaxDelay : RetryAt(o, w, d)
    BY <1>1, <1>8, Ranges DEF ScheduleRetry, Withdraw, Release
  <2>2. row'[o] = Deferred(row[o], d)
    BY <1>1, <1>2, <2>1 DEF RetryAt
  <2>3. OutcomeIn(Deferred(row[o], d)) = "open" /\ OutcomeIn(row[o]) = "open"
    BY <1>2 DEF OutcomeIn, Deferred, Row
  <2>4. OutcomeOf(o)' = OutcomeOf(o)
    BY <1>5, <2>2, <2>3
  <2>5. \A x \in Op : row'[x].entity = row[x].entity /\ OutcomeOf(x)' = OutcomeOf(x)
    BY <1>1, <1>4, <2>4 DEF OutcomeOf, Exists
  <2> QED BY <1>0, <2>5, NothingSeen
<1> QED BY <1>6, <1>7, <1>8 DEF Settle

LEMMA SubmitDelivers ==
    ASSUME WorkerInv, prompt, UNCHANGED prompt, NEW o \in Op, NEW e \in Entity, Submit(o, e)
    PROVE  [Promise!Next]_(Promise!deliveryVars)
<1>1. /\ UNCHANGED <<applied, remote>>
      /\ row \in [Op -> Row]
      /\ row' = [row EXCEPT ![o] = NewRow(e)]
      /\ ~Exists(o)
      /\ \A q \in Op : q < o => Exists(q)
      /\ Promise!Op = Op
  BY DEF Submit, Enqueue, providerVars, WorkerInv, QueueInv, QueueTypeOK, Promise!Op, Op
<1>2. NewRow(e).entity = e /\ NewRow(e).status = "pending"
  BY BlankRows
<1>3. OutcomeOf(o)' = "open" /\ row'[o].entity = e
  BY <1>1, <1>2 DEF OutcomeOf, Exists
<1>4. \A x \in Op : x # o => OutcomeOf(x)' = OutcomeOf(x) /\ row'[x].entity = row[x].entity
  BY <1>1 DEF OutcomeOf, Exists
<1>5. /\ OutcomeOf(o) = "none"
      /\ \A q \in Op : q < o => OutcomeOf(q) # "none"
  BY <1>1, OutcomeOpen DEF WorkerInv
<1>6. Promise!Submit(o, e)
  <2>1. [x \in Op |-> row[x].entity]' = [[x \in Op |-> row[x].entity] EXCEPT ![o] = e]
    BY <1>3, <1>4
  <2>2. [x \in Op |-> OutcomeOf(x)]' = [[x \in Op |-> OutcomeOf(x)] EXCEPT ![o] = "open"]
    BY <1>3, <1>4
  <2> QED BY <1>1, <1>5, <2>1, <2>2 DEF Promise!Submit, Seen
<1> QED BY <1>1, <1>6 DEF Promise!Next

LEMMA ApplyDelivers ==
    ASSUME WorkerInv, prompt, UNCHANGED prompt, NEW o \in Op, NEW w \in Owner, Apply(o, w)
    PROVE  [Promise!Next]_(Promise!deliveryVars)
<1>1. /\ UNCHANGED queueVars
      /\ applied' = applied \cup {o}
      /\ remote' = [remote EXCEPT ![row[o].entity] = o]
      /\ <<o, w>> \in wire
      /\ Promise!Op = Op
  BY DEF Apply, Promise!Op, Op
<1>2. Promise!Frontier(o)
  BY <1>1, AppliesTheFirst, HeldIsFrontier
<1>3. UNCHANGED [x \in Op |-> row[x].entity] /\ UNCHANGED [x \in Op |-> OutcomeOf(x)]
  BY <1>1 DEF queueVars, OutcomeOf, Exists
<1>4. Promise!Deliver(o)
  BY <1>1, <1>2, <1>3 DEF Promise!Deliver, Seen
<1> QED BY <1>1, <1>4 DEF Promise!Next

\* Claims, recoveries and the passing of time leave every outcome as it is.
LEMMA QueueStepUnseen ==
    ASSUME WorkerInv, prompt, UNCHANGED <<applied, remote, prompt>>,
           \/ \E o \in Op, w \in Owner : Claim(o, Remote, w)
           \/ RequeueStale(Remote, LeaseTTL)
           \/ Tick
    PROVE  UNCHANGED Promise!deliveryVars
<1>0. row \in [Op -> Row]
  BY DEF WorkerInv, QueueInv, QueueTypeOK
<1> SUFFICES ASSUME NEW x \in Op
             PROVE  row'[x].entity = row[x].entity /\ OutcomeIn(row'[x]) = OutcomeIn(row[x])
  BY NothingSeen DEF OutcomeOf, OutcomeIn, Exists
<1>1. row[x] \in Row
  BY <1>0
<1>2. CASE \E o \in Op, w \in Owner : Claim(o, Remote, w)
  <2> PICK o \in Op, w \in Owner : Claim(o, Remote, w)
    BY <1>2
  <2>1. Claimed(row[o], w).entity = row[o].entity /\ Claimed(row[o], w).status = "syncing"
    BY <1>0, ClaimedRow
  <2>2. Exists(o) /\ Due(o) /\ row' = [row EXCEPT ![o] = Claimed(@, w)]
    BY DEF Claim, NextEligible, Eligible
  <2>3. OutcomeIn(row[o]) = "open" /\ OutcomeIn(Claimed(row[o], w)) = "open"
    BY <2>1, <2>2 DEF OutcomeIn, Exists, Due
  <2> QED BY <1>0, <2>1, <2>2, <2>3
<1>3. CASE RequeueStale(Remote, LeaseTTL)
  <2>1. Requeued(row[x]).entity = row[x].entity /\ Requeued(row[x]).status = "pending"
    BY <1>1 DEF Requeued, Row
  <2>2. \/ row'[x] = row[x]
        \/ row'[x] = Requeued(row[x]) /\ row[x].status = "syncing"
    BY <1>3 DEF RequeueStale, Stale
  <2> QED BY <2>1, <2>2 DEF OutcomeIn
<1>4. CASE Tick
  <2>1. row'[x] = Aged(row[x])
    BY <1>4 DEF Tick
  <2> QED BY <1>1, <2>1, AgedRow DEF OutcomeIn
<1> QED BY <1>2, <1>3, <1>4

LEMMA StepDelivers == WorkerInv /\ [Next]_vars => [Promise!Next]_(Promise!deliveryVars)
<1> SUFFICES ASSUME WorkerInv, [Next]_vars PROVE [Promise!Next]_(Promise!deliveryVars)
  OBVIOUS
<1>0. UNCHANGED prompt
  BY DEF Next, vars
<1>1. [QueueNext]_queueVars
  BY StepIsQueueStep
<1>2. QueueInv' /\ RowsKept
  BY <1>1, StepQueueInv, QueueKeepsRows DEF WorkerInv
<1>3. CASE ~prompt
  BY <1>0, <1>3, NothingSeen
<1>4. CASE prompt
  <2>1. ASSUME NEW o \in Op, NEW e \in Entity, Submit(o, e)
        PROVE  [Promise!Next]_(Promise!deliveryVars)
    BY <1>0, <1>4, <2>1, SubmitDelivers
  <2>2. ASSUME NEW w \in Owner, Settle(w) PROVE [Promise!Next]_(Promise!deliveryVars)
    BY <1>0, <1>2, <1>4, <2>2, SettleDelivers
  <2>3. ASSUME NEW o \in Op, NEW w \in Owner, Apply(o, w)
        PROVE  [Promise!Next]_(Promise!deliveryVars)
    BY <1>0, <1>4, <2>3, ApplyDelivers
  <2>4. ASSUME NEW w \in Owner, Recover(w) \/ ClaimNext(w)
        PROVE  UNCHANGED Promise!deliveryVars
    BY <1>0, <1>4, <2>4, QueueStepUnseen DEF Recover, ClaimNext, providerVars
  <2>5. CASE TimePasses
    BY <1>0, <1>4, <2>5, QueueStepUnseen DEF TimePasses, providerVars
  <2>6. ASSUME NEW w \in Owner,
               \/ Open(w) \/ Request(w) \/ Cancel(w) \/ Crash(w) \/ Finish(w) \/ Send(w)
               \/ Succeed(w) \/ PushError(w) \/ LeaseLost(w) \/ StoreError(w)
        PROVE  UNCHANGED Promise!deliveryVars
    <3>1. UNCHANGED <<queueVars, applied, remote>>
      BY <2>6 DEF Open, Request, Cancel, Crash, Finish, Send, Succeed, PushError, LeaseLost,
                  StoreError, providerVars
    <3> QED BY <1>0, <3>1, NothingSeen DEF queueVars, OutcomeOf, Exists
  <2>7. CASE UNCHANGED vars
    BY <1>0, <2>7, NothingSeen DEF vars, queueVars, providerVars, OutcomeOf, Exists
  <2>8. ASSUME NEW w \in Owner, Open(w) \/ Request(w) \/ CycleStep(w) \/ Fault(w)
        PROVE  [Promise!Next]_(Promise!deliveryVars)
    BY <2>2, <2>4, <2>6, <2>8 DEF CycleStep, Fault, Settle
  <2> QED BY <2>1, <2>3, <2>5, <2>7, <2>8 DEF Next
<1> QED BY <1>3, <1>4

LEMMA InitDelivers == Init => Promise!Init
<1> SUFFICES ASSUME Init PROVE Promise!Init
  OBVIOUS
<1>1. /\ applied = {} /\ remote = [e \in Entity |-> 0]
      /\ Promise!Op = Op /\ prompt \in BOOLEAN
      /\ \A o \in Op : OutcomeOf(o) = OutcomeIn(row[o])
  BY OutcomeOfRow DEF Init, Promise!Op, Op
<1>2. /\ OutcomeIn(NoRow) = "none" /\ NoRow.entity = NoEntity
      /\ \A e \in Entity : OutcomeIn(UpgradedRow(e)) = "open" /\ UpgradedRow(e).entity = e
  BY DEF OutcomeIn, NoRow, UpgradedRow
<1>3. CASE ~prompt \/ row = [o \in Op |-> NoRow]
  <2>1. /\ Seen([o \in Op |-> row[o].entity], [o \in Op |-> NoEntity]) = [o \in Op |-> NoEntity]
        /\ Seen([o \in Op |-> OutcomeOf(o)], [o \in Op |-> "none"]) = [o \in Op |-> "none"]
    BY <1>1, <1>2, <1>3 DEF Seen
  <2> QED BY <1>1, <2>1 DEF Promise!Init, Seen
<1>4. ASSUME prompt, NEW u \in Entity, row = [o \in Op |-> IF o = 1 THEN UpgradedRow(u) ELSE NoRow]
      PROVE  Promise!Init
  <2>1. /\ [o \in Op |-> row[o].entity] = [o \in Op |-> IF o = 1 THEN u ELSE NoEntity]
        /\ [o \in Op |-> OutcomeOf(o)] = [o \in Op |-> IF o = 1 THEN "open" ELSE "none"]
    BY <1>1, <1>2, <1>4
  <2> QED BY <1>1, <1>4, <2>1 DEF Promise!Init, Seen
<1> QED BY <1>3, <1>4 DEF Init, QueueInit

\* The workers implement Delivery: at least once, and in the order of each entity,
\* while calls are prompt.
THEOREM WorkersDeliver == Spec => DeliversInOrder
  BY InitDelivers, StepDelivers, WorkerSafety, PTL DEF Spec, DeliversInOrder, Promise!Spec
===============================================================================
