---------------------------- MODULE HierarchyPull ----------------------------
(***************************************************************************)
(* The pull of the whole hierarchy into the cache (internal/bootstrap/     *)
(* foundation.go: pull, pullLists, pullTasks, reconcileTasks and the three *)
(* reconcileMissing functions; internal/provider/clickup: FetchTasks,      *)
(* FetchTask and the mapper).  Spaces, then the lists of each, then the    *)
(* tasks of each list page by page, while other people move, delete and    *)
(* reparent what is being listed, and the user edits tasks.                *)
(*                                                                         *)
(* pullMu keeps pulls apart, so one record is enough.  What a pull and an  *)
(* edit of the same row can do to each other between two store calls is    *)
(* the subject of TaskReplica: here a row is read and written in one step. *)
(* A task is in one list at a time.                                        *)
(***************************************************************************)
EXTENDS Integers, Sequences, FiniteSets

CONSTANTS
    Space, List,
    Task,        \* numbers: the order in which a listing returns tasks
    NoTask,      \* the parent of a task that has none
    Nowhere,     \* the place of what is deleted or archived
    PageSize,    \* tasks in a page of a listing
    MaxRemote,   \* changes other people make
    MaxEdits,    \* edits the user makes
    MaxFaults    \* pulls that fail

ASSUME PullAssumption ==
    /\ Space # {} /\ List # {}
    /\ Task \subseteq Nat /\ IsFiniteSet(Task) /\ NoTask \notin Task
    /\ Nowhere \notin Space \cup List
    /\ PageSize \in Nat \ {0}
    /\ {MaxRemote, MaxEdits, MaxFaults} \subseteq Nat

VARIABLES
    remote,  \* the provider's spaces (those it lists), lists and tasks
    cache,   \* the rows of spaces, lists and tasks
    pull,    \* the pull in flight
    changes, edits, faults

vars == <<remote, cache, pull, changes, edits, faults>>

State == {"unknown", "live", "deleted"}
NoSpace == CHOOSE s \in Space : TRUE
NoList == CHOOSE l \in List : TRUE

NoPull ==
    [at |-> "idle", scope |-> "all", spaces |-> {}, space |-> NoSpace, lists |-> {}, list |-> NoList,
     seenSpaces |-> {}, seenLists |-> {}, page |-> 0, batch |-> <<>>, waiting |-> <<>>,
     progress |-> FALSE, listed |-> {}, seen |-> {}, missing |-> {}]

\* An item of a listing: a task, and the parent it is to get.
Item == [task : Task, parent : Task \cup {NoTask}]

PullTypeOK ==
    /\ remote \in [space : SUBSET Space, list : [List -> Space \cup {Nowhere}],
                   task : [Task -> [list : List \cup {Nowhere}, parent : Task \cup {NoTask}]]]
    /\ cache \in [space : [Space -> State], list : [List -> [state : State, space : Space]],
                  task : [Task -> [state : State, list : List, parent : Task \cup {NoTask}, mine : BOOLEAN]]]
    /\ pull \in [at : {"idle", "spaces", "lists", "pages", "rows", "missing", "failed"},
                 scope : {"all", "lists", "tasks"}, spaces : SUBSET Space, space : Space,
                 lists : SUBSET List, list : List, seenSpaces : SUBSET Space, seenLists : SUBSET List,
                 page : Nat, batch : Seq(Item), waiting : Seq(Item), progress : BOOLEAN,
                 listed : SUBSET Task, seen : SUBSET Task, missing : SUBSET Task]
    /\ changes \in 0..MaxRemote /\ edits \in 0..MaxEdits /\ faults \in 0..MaxFaults

-----------------------------------------------------------------------------
(* Parents. *)

\* Nobody is below themselves: every set of tasks has one whose parent is not in it.
Acyclic(parent) == \A S \in SUBSET Task \ {{}} : \E t \in S : parent[t] \notin S

Parent(r) == [t \in Task |-> r.task[t].parent]

\* The initial cache is empty; what the provider has is any tree over its lists.
Init ==
    /\ remote \in [space : {Space}, list : [List -> Space \cup {Nowhere}],
                   task : [Task -> [list : List, parent : Task \cup {NoTask}]]]
    /\ \A t \in Task : remote.list[remote.task[t].list] # Nowhere
    /\ Acyclic(Parent(remote))
    /\ cache = [space |-> [s \in Space |-> "unknown"],
                list |-> [l \in List |-> [state |-> "unknown", space |-> NoSpace]],
                task |-> [t \in Task |-> [state |-> "unknown", list |-> NoList, parent |-> NoTask,
                                          mine |-> FALSE]]]
    /\ pull = NoPull
    /\ changes = 0 /\ edits = 0 /\ faults = 0

-----------------------------------------------------------------------------
(* Other people. *)

Elsewhere(there) ==
    /\ changes < MaxRemote
    /\ changes' = changes + 1
    /\ remote' = there
    /\ remote' # remote
    /\ UNCHANGED <<cache, pull, edits, faults>>

\* A space or list is moved, archived or shown again.
MoveSpace(s) == Elsewhere([remote EXCEPT !.space = IF s \in @ THEN @ \ {s} ELSE @ \cup {s}])
MoveList(l, s) == Elsewhere([remote EXCEPT !.list[l] = s])

MoveTask(t, l) ==
    /\ remote.task[t].list # Nowhere
    /\ Elsewhere([remote EXCEPT !.task[t].list = l])

\* A task is deleted after its subtasks.
DeleteTask(t) ==
    /\ \A c \in Task : remote.task[c].parent # t
    /\ Elsewhere([remote EXCEPT !.task[t] = [list |-> Nowhere, parent |-> NoTask]])

Reparent(t, p) ==
    /\ remote.task[t].list # Nowhere
    /\ p # NoTask => remote.task[p].list # Nowhere
    /\ Acyclic([Parent(remote) EXCEPT ![t] = p])
    /\ Elsewhere([remote EXCEPT !.task[t].parent = p])

-----------------------------------------------------------------------------
(* The user's edits, and their push. *)

\* An edit between the listing of the missing rows and their tombstones is a case
\* of TaskReplica.
EditTask(t) ==
    /\ edits < MaxEdits
    /\ t \notin pull.missing
    /\ cache.task[t].state = "live"
    /\ ~cache.task[t].mine
    /\ cache' = [cache EXCEPT !.task[t].mine = TRUE]
    /\ edits' = edits + 1
    /\ UNCHANGED <<remote, pull, changes, faults>>

KnownParent(p) == IF p # NoTask /\ cache.task[p].state # "unknown" THEN p ELSE NoTask

\* UpdateTask moves the task to the list its row names; a reply without a parent
\* keeps the row's.
PushEdit(t) ==
    /\ cache.task[t].mine
    /\ remote.task[t].list # Nowhere
    /\ remote' = [remote EXCEPT !.task[t].list = cache.task[t].list]
    /\ LET p == KnownParent(remote.task[t].parent) IN
         cache' = [cache EXCEPT !.task[t] =
             [@ EXCEPT !.mine = FALSE, !.state = "live",
                       !.parent = IF p = NoTask THEN cache.task[t].parent ELSE p]]
    /\ UNCHANGED <<pull, changes, edits, faults>>

-----------------------------------------------------------------------------
(* The pull. *)

PullFrame == UNCHANGED <<remote, changes, edits, faults>>
Kept(s) == IF s = "unknown" THEN "live" ELSE s

\* The provider lists a space until it is archived, a list where it is.
ListedSpaces == remote.space
Listed(s) == {l \in List : remote.list[l] = s}

\* Rows for what is listed; a known one stays deleted, and a list in its space.
StoredSpaces == [s \in Space |-> IF s \in ListedSpaces THEN Kept(cache.space[s]) ELSE cache.space[s]]
StoredLists(s) ==
    [l \in List |-> IF l \in Listed(s) /\ cache.list[l].state = "unknown"
                    THEN [state |-> "live", space |-> s] ELSE cache.list[l]]

\* All spaces; the lists of one space; the tasks of one list.
StartAll ==
    /\ pull.at = "idle"
    /\ pull' = [NoPull EXCEPT !.at = "spaces", !.spaces = ListedSpaces, !.seenSpaces = ListedSpaces]
    /\ cache' = [cache EXCEPT !.space = StoredSpaces]
    /\ PullFrame

StartLists(s) ==
    /\ pull.at = "idle"
    /\ cache.space[s] = "live"
    /\ pull' = [NoPull EXCEPT !.at = "spaces", !.scope = "lists", !.spaces = {s}]
    /\ UNCHANGED cache
    /\ PullFrame

StartTasks(l) ==
    /\ pull.at = "idle"
    /\ cache.list[l].state = "live"
    /\ pull' = [NoPull EXCEPT !.at = "pages", !.scope = "tasks", !.list = l]
    /\ UNCHANGED cache
    /\ PullFrame

FetchLists(s) ==
    /\ pull.at = "spaces"
    /\ s \in pull.spaces
    /\ pull' = [pull EXCEPT !.at = "lists", !.spaces = @ \ {s}, !.space = s, !.seenLists = Listed(s),
                            !.lists = IF pull.scope = "all" THEN Listed(s) ELSE {}]
    /\ cache' = [cache EXCEPT !.list = StoredLists(s)]
    /\ PullFrame

NextList(l) ==
    /\ pull.at = "lists"
    /\ l \in pull.lists
    /\ pull' = [pull EXCEPT !.at = "pages", !.lists = @ \ {l}, !.list = l, !.page = 0, !.batch = <<>>]
    /\ UNCHANGED cache
    /\ PullFrame

DropLists ==
    /\ pull.at = "lists"
    /\ pull.lists = {}
    /\ pull' = [pull EXCEPT !.at = "spaces"]
    /\ cache' = [cache EXCEPT !.list = [l \in List |->
            IF l \notin pull.seenLists /\ cache.list[l] = [state |-> "live", space |-> pull.space]
            THEN [state |-> "deleted", space |-> pull.space] ELSE cache.list[l]]]
    /\ PullFrame

DropSpaces ==
    /\ pull.at = "spaces"
    /\ pull.spaces = {}
    /\ pull' = NoPull
    /\ cache' = [cache EXCEPT !.space = [s \in Space |->
            IF pull.scope = "all" /\ s \notin pull.seenSpaces /\ cache.space[s] = "live"
            THEN "deleted" ELSE cache.space[s]]]
    /\ PullFrame

-----------------------------------------------------------------------------
(* The tasks of one list: its pages, its rows, what it no longer has. *)

Before(t) == Cardinality({u \in Task : u < t /\ remote.task[u].list = remote.task[t].list})

Page == {t \in Task : remote.task[t].list = pull.list /\ Before(t) \div PageSize = pull.page}

FetchPage ==
    /\ pull.at = "pages"
    /\ Page # {}
    /\ \E page \in [1..Cardinality(Page) -> Page] :
        /\ \A i, j \in DOMAIN page : i < j => page[i] < page[j]
        /\ pull' = [pull EXCEPT !.page = @ + 1,
                                !.batch = @ \o [i \in DOMAIN page |->
                                    [task |-> page[i], parent |-> remote.task[page[i]].parent]]]
    /\ UNCHANGED cache
    /\ PullFrame

\* A parent in the batch is named by its remote identity, any other by its row, if
\* there is one.
Mapped(item, listed) ==
    IF item.parent \in listed THEN item
    ELSE [task |-> item.task, parent |-> KnownParent(item.parent)]

\* An empty page ends the listing.
MapTasks ==
    LET listed == {pull.batch[i].task : i \in DOMAIN pull.batch} IN
    /\ pull.at = "pages"
    /\ Page = {}
    /\ pull' = [pull EXCEPT !.at = "rows", !.page = 0, !.progress = FALSE, !.waiting = <<>>, !.seen = {},
                            !.listed = listed,
                            !.batch = [i \in DOMAIN @ |-> Mapped(pull.batch[i], listed)]]
    /\ UNCHANGED cache
    /\ PullFrame

\* reconcileTask: a deleted row stays deleted, and so does what the user changed.
Reconciled(t, l, p) ==
    IF cache.task[t].state = "deleted" \/ cache.task[t].mine THEN cache
    ELSE [cache EXCEPT !.task[t] = [state |-> "live", list |-> l, parent |-> p, mine |-> FALSE]]

\* Broken: the parent's row is not waited for.
MustWaitNever(item) == FALSE

\* Broken: a tombstone is no row.
MustWaitForLive(item) ==
    item.parent \in pull.listed /\ cache.task[item.parent].state # "live"

MustWait(item) ==
    item.parent \in pull.listed /\ cache.task[item.parent].state = "unknown"

ReconcileTask ==
    LET item == Head(pull.batch) IN
    /\ pull.at = "rows"
    /\ pull.batch # <<>>
    /\ IF MustWait(item)
       THEN /\ pull' = [pull EXCEPT !.batch = Tail(@), !.waiting = Append(@, item)]
            /\ UNCHANGED cache
       ELSE /\ pull' = [pull EXCEPT !.batch = Tail(@), !.progress = TRUE, !.seen = @ \cup {item.task}]
            /\ cache' = Reconciled(item.task, pull.list, item.parent)
    /\ PullFrame

NextRound ==
    /\ pull.at = "rows"
    /\ pull.batch = <<>>
    /\ pull.waiting # <<>>
    /\ pull.progress
    /\ pull' = [pull EXCEPT !.batch = pull.waiting, !.waiting = <<>>, !.progress = FALSE]
    /\ UNCHANGED cache
    /\ PullFrame

\* "unresolved parent dependency"
Unresolved ==
    /\ pull.at = "rows"
    /\ pull.batch = <<>>
    /\ pull.waiting # <<>>
    /\ ~pull.progress
    /\ pull' = [NoPull EXCEPT !.at = "failed"]
    /\ UNCHANGED cache
    /\ PullFrame

\* Broken: what the listing has lost is not looked for.
AllStoredOnly ==
    /\ pull.at = "rows"
    /\ pull.batch = <<>>
    /\ pull.waiting = <<>>
    /\ pull' = [pull EXCEPT !.at = "missing", !.listed = {}]
    /\ UNCHANGED cache
    /\ PullFrame

AllStored ==
    /\ pull.at = "rows"
    /\ pull.batch = <<>>
    /\ pull.waiting = <<>>
    /\ pull' = [pull EXCEPT !.at = "missing", !.listed = {},
                            !.missing = {t \in Task \ pull.seen :
                                /\ cache.task[t].state = "live"
                                /\ cache.task[t].list = pull.list
                                /\ ~cache.task[t].mine}]
    /\ UNCHANGED cache
    /\ PullFrame

Tombstoned(t) == [cache EXCEPT !.task[t] = [@ EXCEPT !.state = "deleted", !.mine = FALSE]]

\* Broken: the provider is not asked.
CheckMissingUnasked(t) ==
    /\ pull.at = "missing"
    /\ t \in pull.missing
    /\ pull' = [pull EXCEPT !.missing = @ \ {t}]
    /\ cache' = Tombstoned(t)
    /\ PullFrame

\* A task the listing no longer has: FetchTask says not found when the provider
\* has no such task, and when the cache has no such list.
CheckMissing(t) ==
    LET there == remote.task[t].list IN
    /\ pull.at = "missing"
    /\ t \in pull.missing
    /\ pull' = [pull EXCEPT !.missing = @ \ {t}]
    /\ cache' = IF there = Nowhere \/ cache.list[there].state = "unknown" THEN Tombstoned(t)
                ELSE Reconciled(t, there, KnownParent(remote.task[t].parent))
    /\ PullFrame

ListDone ==
    /\ pull.at = "missing"
    /\ pull.missing = {}
    /\ pull' = IF pull.scope = "tasks" THEN NoPull
               ELSE [pull EXCEPT !.at = "lists", !.seen = {}, !.progress = FALSE]
    /\ UNCHANGED cache
    /\ PullFrame

\* A call or a store call fails.
PullFails ==
    /\ pull.at \notin {"idle", "failed"}
    /\ faults < MaxFaults
    /\ faults' = faults + 1
    /\ pull' = [NoPull EXCEPT !.at = "failed"]
    /\ UNCHANGED <<remote, cache, changes, edits>>

EndFailed == pull.at = "failed" /\ pull' = NoPull /\ UNCHANGED cache /\ PullFrame

-----------------------------------------------------------------------------

Others ==
    \/ \E s \in Space : MoveSpace(s)
    \/ \E l \in List, s \in Space \cup {Nowhere} : MoveList(l, s)
    \/ \E t \in Task, l \in List : MoveTask(t, l)
    \/ \E t \in Task : DeleteTask(t)
    \/ \E t \in Task, p \in Task \cup {NoTask} : Reparent(t, p)

StartScoped == (\E s \in Space : StartLists(s)) \/ (\E l \in List : StartTasks(l))

PullStep ==
    \/ \E s \in Space : FetchLists(s)
    \/ \E l \in List : NextList(l)
    \/ DropLists \/ DropSpaces
    \/ FetchPage \/ MapTasks
    \/ ReconcileTask \/ NextRound \/ Unresolved \/ AllStored
    \/ \E t \in Task : CheckMissing(t)
    \/ ListDone
    \/ EndFailed

Push == \E t \in Task : PushEdit(t)

Next ==
    \/ Others
    \/ \E t \in Task : EditTask(t)
    \/ Push
    \/ StartAll \/ StartScoped \/ PullStep \/ PullFails

Spec == Init /\ [][Next]_vars

\* A pull that runs goes on, is asked for again, and so is the push; the user may
\* never refresh a single list.
Fairness == WF_vars(PullStep) /\ SF_vars(StartAll) /\ WF_vars(Push)

FairSpec == Spec /\ Fairness

-----------------------------------------------------------------------------
(* What must hold. *)

\* Whatever order a listing has its tasks in, and whatever is moved while it is
\* read, the parent of a row is a row: the pull never runs into the foreign key
\* of tasks.parent_task_id (reconcileTasks).
ParentsAreStored ==
    \A t \in Task : LET p == cache.task[t].parent IN
        cache.task[t].state # "unknown" /\ p # NoTask => cache.task[p].state # "unknown"

\* The rounds of reconcileTasks give up on a list only when the pages of its
\* listing contradict each other: tasks reparented in between that are each
\* other's ancestors.  Rows left to the user never stop them.
TornListing ==
    LET up(t) == LET items == {i \in DOMAIN pull.waiting : pull.waiting[i].task = t}
                 IN  IF items = {} THEN NoTask ELSE pull.waiting[CHOOSE i \in items : TRUE].parent
    IN  ~Acyclic([t \in Task |-> up(t)])

GivesUpOnlyOnTornListing ==
    [][ pull.at = "rows" /\ pull'.at = "failed" /\ faults' = faults => TornListing ]_vars

\* A pull tombstones a task only when the provider has no such task, or the cache
\* no such list (reconcileMissingTasks, FetchTask): not because it has moved.
TombstonesWhatIsGone ==
    [][ \A t \in Task : cache.task[t].state = "live" /\ cache'.task[t].state = "deleted" =>
            LET there == remote.task[t].list
            IN  there = Nowhere \/ cache.list[there].state = "unknown" ]_vars

\* What TestScopedRefreshKeepsTaskThatMovedOutOfCurrentList says of a moved task.
MovedTaskIsKept ==
    [][ \A t \in Task : cache.task[t].state = "live" /\ cache'.task[t].state = "deleted" =>
            remote.task[t].list = Nowhere ]_vars

\* When the others are done, the pulls bring the cache to what the provider has:
\* every list and task it shows has a row, and every row on the screen that the
\* user has not changed is where the provider has it.  A tombstone is for ever.
OnScreen(l) == cache.list[l].state = "live" /\ cache.space[cache.list[l].space] = "live"
Shown(l) == remote.list[l] \in remote.space

Followed ==
    /\ \A l \in List :
        /\ Shown(l) => cache.list[l].state # "unknown"
        /\ OnScreen(l) => remote.list[l] = cache.list[l].space
    /\ \A t \in Task : LET row == cache.task[t] there == remote.task[t] IN
        /\ there.list # Nowhere /\ Shown(there.list) => row.state # "unknown"
        /\ row.state = "live" /\ ~row.mine /\ OnScreen(row.list) =>
               there.list = row.list /\ row.parent = KnownParent(there.parent)

CacheFollows == <>[]Followed
=============================================================================
