----------------------------- MODULE MCSyncQueue -----------------------------
(***************************************************************************)
(* The two halves of the database, which share no state: a behaviour       *)
(* follows one of them.                                                    *)
(*                                                                         *)
(*   "queue"     two providers and three entities, so that rows of one     *)
(*               entity, of two entities of one provider and of two        *)
(*               providers all meet;                                       *)
(*   "entities"  two callers; to begin with a space of each provider and a *)
(*               list of the remote one, or two spaces and a list of the   *)
(*               local one and one call less: its list can be moved under  *)
(*               the other caller.                                         *)
(***************************************************************************)
EXTENDS SyncQueue, EntityStore, TLC
CONSTANTS clickup, other, t1, t2, u1, w1, w2, c1, c2

VARIABLE half

MCProviderOf == (t1 :> clickup) @@ (t2 :> clickup) @@ (u1 :> other)

MCStoreInit ==
    /\ \/ /\ rows = <<SpaceRow(Local, NoRemote), SpaceRow("clickup", "r1"),
                      ListRow("clickup", "r1", 2)>>
          /\ calls = 0
       \/ /\ rows = <<SpaceRow(Local, NoRemote), SpaceRow(Local, NoRemote),
                      ListRow(Local, NoRemote, 1)>>
          /\ calls = 1
    /\ next = 4
    /\ call = [c \in Caller |-> Idle]

DatabaseInit ==
    /\ half \in {"queue", "entities"} /\ QueueInit /\ MCStoreInit
    /\ half = "entities" => syncState = [e \in Entity |-> "synced"]

DatabaseNext ==
    /\ UNCHANGED half
    /\ \/ half = "queue" /\ QueueNext /\ UNCHANGED storeVars
       \/ half = "entities" /\ StoreNext /\ UNCHANGED queueVars

DatabaseSpec == DatabaseInit /\ [][DatabaseNext]_<<half, queueVars, storeVars>>

\* The callers of the entities are alike.
DatabaseSymmetry == Permutations(Caller)
=============================================================================
