--------------------------- MODULE MCHierarchyPull ---------------------------
(* Two spaces, two lists, two tasks in pages of one.  To begin with, the first *)
(* list has both tasks, the first perhaps below the second; the second list is *)
(* in the other space, or archived.                                            *)
EXTENDS HierarchyPull
CONSTANTS s1, s2, l1, l2
MCTask == {1, 2}
MCInit ==
    /\ Init
    /\ remote.list[l1] = s1 /\ remote.list[l2] # s1
    /\ \A t \in Task : remote.task[t].list = l1
    /\ remote.task[2].parent = NoTask
MCSpec == MCInit /\ [][Next]_vars /\ Fairness
=============================================================================
