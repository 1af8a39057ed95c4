---------------------------- MODULE MCSyncWorker ----------------------------
(* One remote provider, two tasks, two processes on one database file; two     *)
(* faults while calls are prompt, one while they are not.                       *)
EXTENDS SyncWorker, TLC
CONSTANTS clickup, t1, t2, w1, w2
MCProviderOf == (t1 :> clickup) @@ (t2 :> clickup)
MCInit == Init /\ faults = IF prompt THEN 2 ELSE 1
MCSpec == MCInit /\ [][Next]_vars /\ Fairness
=============================================================================
