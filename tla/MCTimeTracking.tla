---------------------------- MODULE MCTimeTracking ----------------------------
(***************************************************************************)
(* Two parts that share no state: a behaviour follows one of them.         *)
(*                                                                         *)
(*   "tracking"  a local task, a cached one of ClickUp, and one the cache  *)
(*               does not know;                                            *)
(*   "events"    the channel between two goroutines and the interface:     *)
(*               room for a progress event between two terminal ones, so   *)
(*               that every choice of the displaced event occurs.          *)
(***************************************************************************)
EXTENDS TimeTracking, EventStream

CONSTANTS local, remote, unknown, worker, fetch

VARIABLE part

MCInit == part \in {"tracking", "events"} /\ TrackingInit /\ StreamInit

MCNext ==
    /\ UNCHANGED part
    /\ \/ part = "tracking" /\ TrackingNext /\ UNCHANGED streamVars
       \/ part = "events" /\ StreamNext /\ UNCHANGED trackingVars

\* Nothing is owed by the part that does not run: a poll would be possible.
MCSpec ==
    /\ MCInit /\ [][MCNext]_<<part, trackingVars, streamVars>>
    /\ WF_trackingVars(part = "tracking" /\ OpStep)
    /\ WF_trackingVars(part = "tracking" /\ Poll)
    /\ StreamFairness
===============================================================================
