---------------------------- MODULE MCTaskReplica ----------------------------
(* Two fields, so that an edit of one can carry a stale value of the other.   *)
EXTENDS TaskReplica, TLC
CONSTANTS title, status
=============================================================================
