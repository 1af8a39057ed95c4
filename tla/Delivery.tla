------------------------------- MODULE Delivery -------------------------------
(***************************************************************************)
(* What the synchronization of local edits promises, with no lease, no     *)
(* retry and no process in it: every operation is delivered at least once  *)
(* before it is acknowledged, an operation is delivered only while all the *)
(* earlier ones of its entity are closed, and a closed one stays closed.   *)
(* SyncWorker implements it as long as its calls are prompt.               *)
(***************************************************************************)
EXTENDS Integers

CONSTANTS Entity, NoEntity, MaxOps

VARIABLES
    about,      \* the entity of each submitted operation
    outcome,    \* "none" before submission, then open, acknowledged or rejected
    delivered,  \* operations the provider has seen
    remote      \* the operation each remote entity shows

deliveryVars == <<about, outcome, delivered, remote>>

Op == 1..MaxOps

Closed(o) == outcome[o] \in {"acknowledged", "rejected"}

\* The operation every delivery of the entity waits for.
Frontier(o) ==
    /\ outcome[o] = "open"
    /\ \A q \in Op : q < o /\ about[q] = about[o] => Closed(q)

\* An older version may have left its first operation open.
Init ==
    /\ delivered = {}
    /\ remote = [e \in Entity |-> 0]
    /\ \/ /\ about = [o \in Op |-> NoEntity]
          /\ outcome = [o \in Op |-> "none"]
       \/ \E e \in Entity :
            /\ about = [o \in Op |-> IF o = 1 THEN e ELSE NoEntity]
            /\ outcome = [o \in Op |-> IF o = 1 THEN "open" ELSE "none"]

Submit(o, e) ==
    /\ outcome[o] = "none"
    /\ \A q \in Op : q < o => outcome[q] # "none"
    /\ about' = [about EXCEPT ![o] = e]
    /\ outcome' = [outcome EXCEPT ![o] = "open"]
    /\ UNCHANGED <<delivered, remote>>

Deliver(o) ==
    /\ Frontier(o)
    /\ delivered' = delivered \cup {o}
    /\ remote' = [remote EXCEPT ![about[o]] = o]
    /\ UNCHANGED <<about, outcome>>

Acknowledge(o) ==
    /\ Frontier(o)
    /\ o \in delivered
    /\ outcome' = [outcome EXCEPT ![o] = "acknowledged"]
    /\ UNCHANGED <<about, delivered, remote>>

Reject(o) ==
    /\ Frontier(o)
    /\ outcome' = [outcome EXCEPT ![o] = "rejected"]
    /\ UNCHANGED <<about, delivered, remote>>

Next ==
    \/ \E o \in Op, e \in Entity : Submit(o, e)
    \/ \E o \in Op : Deliver(o) \/ Acknowledge(o) \/ Reject(o)

Spec == Init /\ [][Next]_deliveryVars
=============================================================================
