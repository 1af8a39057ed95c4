---------------------------- MODULE MCTaskService ----------------------------
(***************************************************************************)
(* Three parts that share no state: a behaviour follows one of them.       *)
(*                                                                         *)
(*   "tasks"   the commands of two callers, a local list and two remote    *)
(*             ones;                                                       *)
(*   "calls"   the requests of three senders to the provider;              *)
(*   "screen"  two tasks and two lists, numbers because their order        *)
(*             matters: the second task starts in the first list, the first*)
(*             may appear above it, and then the first page, of one task,  *)
(*             no longer has the second; a word finds the first, the filter*)
(*             keeps the second.                                           *)
(***************************************************************************)
EXTENDS TaskService, RemoteCalls, TaskScreen

VARIABLE part

MCProviderOf == [l \in 1..3 |-> IF l = 1 THEN Local ELSE "clickup"]
MCSchedule == <<1, 2>>

ScreenInit ==
    /\ Init
    /\ store.place[1] = {}
    /\ store.place[2] = {1}

MCInit ==
    /\ part \in {"tasks", "calls", "screen"}
    /\ ServiceInit /\ CallsInit /\ ScreenInit

MCNext ==
    /\ UNCHANGED part
    /\ \/ part = "tasks" /\ ServiceNext /\ UNCHANGED <<callVars, vars>>
       \/ part = "calls" /\ CallsNext /\ UNCHANGED <<serviceVars, vars>>
       \/ part = "screen" /\ Next /\ UNCHANGED <<serviceVars, callVars>>

MCSpec == MCInit /\ [][MCNext]_<<part, serviceVars, callVars, vars>>
=============================================================================
