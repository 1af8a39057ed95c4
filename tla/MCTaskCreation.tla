---------------------------- MODULE MCTaskCreation ----------------------------
(* One task, two processes: a second task would only contend for the ids.     *)
EXTENDS TaskCreation, TLC
CONSTANTS p1, p2, t1, others
=============================================================================
