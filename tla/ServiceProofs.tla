---------------------------- MODULE ServiceProofs -----------------------------
(***************************************************************************)
(* What the commands of the task service promise (TaskService), for all    *)
(* callers, lists, providers and tasks, and what the requests to the       *)
(* provider do (RemoteCalls), for every number of senders, every timeout   *)
(* and every schedule of retries.                                          *)
(*                                                                         *)
(* That an item is never lost needs to know that copies get later rows: of *)
(* every item there is a live row from every row of it on, until the user  *)
(* deletes it.  A transfer that is under way while others write needs to   *)
(* know what stays true of the row it has loaded: its item and provider,   *)
(* and that a row it finds deleted has a successor.                        *)
(*                                                                         *)
(* One request per interval needs to know that slots are never handed out  *)
(* twice and never passed by; no attempt before the provider wants to be   *)
(* called, that the wait asked for is contained in the time the operation  *)
(* is due, and over by the time the pusher is in a call.                   *)
(***************************************************************************)
EXTENDS TaskService, RemoteCalls, FiniteSetTheorems, WellFoundedInduction, TLAPS

-----------------------------------------------------------------------------
(* TaskService. *)

Command == [at: {"save", "write", "delete"}, kind: CommandKind, task: TaskRow, to: ListId,
            title: Title, seen: Row]

Taken(t) == rows[t] # NoRow

\* Identities are handed out in order and never taken back.
RowsHaveNoGaps == \A t, u \in TaskRow : u < t /\ Taken(t) => Taken(u)

\* What the code never writes otherwise: the primary list is a membership, and all of
\* them are lists of the row's provider.
Sound(r) == r.list \in r.also /\ \A l \in r.also : ProviderOf[l] = r.provider

\* The item a row holds was deleted by the user, or has a later row.
Superseded(t, i) == i \in erased \/ \E u \in TaskRow : u > t /\ Taken(u) /\ rows[u].item = i

\* The stronger form of ItemsSurvive that is inductive: copies get later identities, so
\* from every row on there is a live one.
LatestLives ==
  \A t \in TaskRow : Taken(t) =>
    \/ rows[t].item \in erased
    \/ \E u \in TaskRow : u >= t /\ Taken(u) /\ rows[u].item = rows[t].item /\ ~rows[u].gone

SentIsStored ==
  \A t \in TaskRow : sent[t] = IF Taken(t) /\ ~IsLocal(rows[t]) THEN rows[t] ELSE NoRow

\* What stays true of a command while others write: its task keeps its item and its
\* provider, and a command about to leave a tombstone finds the item superseded.
Stands(x) ==
  /\ Taken(x.task)
  /\ x.seen.item = rows[x.task].item /\ x.seen.provider = rows[x.task].provider
  /\ Sound(x.seen)
  /\ Accepts(x.kind, x.seen, x.to)
  /\ x.at = "write" => x.kind \in Changes
  /\ x.at = "delete" => x.kind = "transfer"
  /\ x.at = "delete" \/ (x.at = "write" /\ x.seen.gone) => Superseded(x.task, x.seen.item)

RowsInv ==
  /\ rows \in [TaskRow -> Row \cup {NoRow}]
  /\ sent \in [TaskRow -> Row \cup {NoRow}]
  /\ erased \subseteq Item
  /\ RowsHaveNoGaps
  /\ LatestLives
  /\ SentIsStored
  /\ RowsAreSound

ServiceInv ==
  /\ RowsInv
  /\ asked \in 0..MaxCommands
  /\ cmd \in [Caller -> {Idle} \cup Command]
  /\ \A c \in Caller : cmd[c] # Idle => Stands(cmd[c])

-----------------------------------------------------------------------------
(* What a command makes of the row it loaded. *)

\* The least of some numbers is one of them.
LEMMA LeastIsOne ==
  ASSUME NEW S \in SUBSET Nat, S # {}
  PROVE  Min(S) \in S
<1>1. PICK x \in S : \A y \in S : <<y, x>> \notin OpToRel(<, Nat)
  BY NatLessThanWellFounded, WFMin
<1>2. ASSUME NEW y \in S, y < x PROVE <<y, x>> \in OpToRel(<, Nat)
  <2> DEFINE pair == <<y, x>>
  <2>1. pair \in Nat \X Nat /\ pair[1] < pair[2]
    BY <1>2
  <2> HIDE DEF pair
  <2>2. pair \in OpToRel(<, Nat)
    BY <2>1 DEF OpToRel
  <2> QED BY <2>2 DEF pair
<1>3. \A y \in S : ~(y < x)
  BY <1>1, <1>2
<1>4. \A y \in S : x =< y
  BY <1>3
<1> QED BY <1>4 DEF Min

LEMMA PatchedRow ==
  ASSUME NEW kind \in Changes, NEW r \in Row, Sound(r), NEW l \in ListId, NEW new \in Title,
         Accepts(kind, r, l)
  PROVE  /\ Patched(kind, r, l, new) \in Row
         /\ Sound(Patched(kind, r, l, new))
         /\ Patched(kind, r, l, new).item = r.item
         /\ Patched(kind, r, l, new).provider = r.provider
         /\ Patched(kind, r, l, new).gone = r.gone
<1>1. CASE kind = "edit"
  BY <1>1 DEF Patched, Row, Sound
<1>2. CASE kind = "move"
  BY <1>2 DEF Patched, MovedTo, Row, Sound, Accepts
<1>3. CASE kind = "add"
  BY <1>3 DEF Patched, Row, Sound, Accepts
<1>4. CASE kind = "remove"
  <2> DEFINE left == r.also \ {l}
  <2>1. left \in SUBSET ListId /\ left \in SUBSET Nat
    BY ServiceAssumption DEF Row
  <2>2. left # {}
    <3>1. l \in r.also /\ Cardinality(r.also) > 1
      BY <1>4 DEF Accepts
    <3>2. Cardinality({l}) = 1
      BY FS_Singleton
    <3> QED BY <3>1, <3>2
  <2>3. Min(left) \in left
    BY <2>1, <2>2, LeastIsOne
  <2>4. Patched(kind, r, l, new) = [r EXCEPT !.also = left, !.list = IF r.list = l THEN Min(left) ELSE @]
    BY <1>4 DEF Patched, Without
  <2> DEFINE first == IF r.list = l THEN Min(left) ELSE r.list
  <2>5. first \in left
    BY <2>3 DEF Sound
  <2>6. Patched(kind, r, l, new) = [r EXCEPT !.also = left, !.list = first]
    BY <2>4 DEF Row
  <2>7. left \subseteq r.also
    OBVIOUS
  <2> HIDE DEF left, first
  <2> DEFINE s == [r EXCEPT !.also = left, !.list = first]
  <2>8. first \in ListId
    BY <2>1, <2>5
  <2>9. /\ s \in Row /\ s.also = left /\ s.list = first
        /\ s.item = r.item /\ s.provider = r.provider /\ s.gone = r.gone
    BY <2>1, <2>8 DEF Row
  <2>10. Sound(s)
    BY <2>5, <2>7, <2>9 DEF Sound
  <2> QED BY <2>6, <2>9, <2>10
<1> QED BY <1>1, <1>2, <1>3, <1>4 DEF Changes

LEMMA CopiedRow ==
  ASSUME NEW r \in Row, NEW l \in ListId
  PROVE  /\ CopyOf(r, l) \in Row
         /\ Sound(CopyOf(r, l))
         /\ CopyOf(r, l).item = r.item
         /\ CopyOf(r, l).gone = FALSE
  BY DEF CopyOf, Row, Sound, Provider

-----------------------------------------------------------------------------
(* What a write does to the rows, and to the commands under way. *)

\* A command writes the task it has loaded.
LEMMA RowWritten ==
  ASSUME ServiceInv, NEW t \in TaskRow, Taken(t), NEW r \in Row, Sound(r), Store(t, r),
         r.item = rows[t].item, r.provider = rows[t].provider,
         erased \subseteq erased', erased' \subseteq Item,
         r.gone => \/ r.item \in erased'
                   \/ \E u \in TaskRow : u > t /\ Taken(u) /\ rows[u].item = r.item
  PROVE  /\ RowsInv'
         /\ \A x \in Command : Stands(x) => Stands(x)'
<1>0. /\ rows \in [TaskRow -> Row \cup {NoRow}] /\ sent \in [TaskRow -> Row \cup {NoRow}]
      /\ rows' = [rows EXCEPT ![t] = r]
      /\ sent' = [sent EXCEPT ![t] = IF IsLocal(r) THEN sent[t] ELSE r]
      /\ rows[t] \in Row /\ r # NoRow
      /\ TaskRow \subseteq Int
  BY RowAssumption DEF ServiceInv, RowsInv, Store, Taken, TaskRow
<1>1. /\ rows'[t] = r
      /\ \A u \in TaskRow : u # t => rows'[u] = rows[u] /\ sent'[u] = sent[u]
      /\ sent'[t] = IF IsLocal(r) THEN sent[t] ELSE r
  BY <1>0
<1>2. \A u \in TaskRow : /\ Taken(u)' <=> Taken(u)
                         /\ Taken(u) => /\ rows'[u].item = rows[u].item
                                        /\ rows'[u].provider = rows[u].provider
  BY <1>0, <1>1 DEF Taken
<1>3. rows' \in [TaskRow -> Row \cup {NoRow}] /\ sent' \in [TaskRow -> Row \cup {NoRow}]
  BY <1>0
<1>4. RowsHaveNoGaps'
  BY <1>2 DEF ServiceInv, RowsInv, RowsHaveNoGaps
<1>5. LatestLives'
  <2> SUFFICES ASSUME NEW q \in TaskRow, Taken(q), rows[q].item \notin erased'
               PROVE  \E u \in TaskRow : /\ u >= q /\ Taken(u) /\ rows'[u].item = rows[q].item
                                         /\ ~rows'[u].gone
    BY <1>2 DEF LatestLives
  <2>1. PICK u \in TaskRow : u >= q /\ Taken(u) /\ rows[u].item = rows[q].item /\ ~rows[u].gone
    BY DEF ServiceInv, RowsInv, LatestLives
  <2>2. CASE u # t \/ ~r.gone
    BY <1>1, <1>2, <2>1, <2>2
  <2>3. CASE u = t /\ r.gone
    <3>1. PICK v \in TaskRow : v > t /\ Taken(v) /\ rows[v].item = r.item
      BY <2>1, <2>3
    <3>2. rows[v].item = rows[q].item
      BY <2>1, <2>3, <3>1
    <3>3. PICK z \in TaskRow : z >= v /\ Taken(z) /\ rows[z].item = rows[v].item /\ ~rows[z].gone
      BY <3>1, <3>2 DEF ServiceInv, RowsInv, LatestLives
    <3>4. z # t /\ z >= q
      BY <1>0, <2>1, <2>3, <3>1, <3>3
    <3> QED BY <1>1, <3>2, <3>3, <3>4
  <2> QED BY <2>2, <2>3
<1>6. SentIsStored'
  <2>1. IsLocal(r) <=> IsLocal(rows[t])
    BY DEF IsLocal
  <2>2. IsLocal(r) => sent[t] = NoRow
    BY <2>1 DEF ServiceInv, RowsInv, SentIsStored
  <2>3. (sent[t] = IF Taken(t) /\ ~IsLocal(rows[t]) THEN rows[t] ELSE NoRow)'
    BY <1>0, <1>1, <2>2 DEF Taken
  <2>4. ASSUME NEW u \in TaskRow, u # t
        PROVE  (sent[u] = IF Taken(u) /\ ~IsLocal(rows[u]) THEN rows[u] ELSE NoRow)'
    BY <1>1, <2>4 DEF ServiceInv, RowsInv, SentIsStored, Taken
  <2> QED BY <2>3, <2>4 DEF SentIsStored
<1>7. RowsAreSound'
  BY <1>1 DEF ServiceInv, RowsInv, RowsAreSound, Sound
<1>8. ASSUME NEW x \in Command, Stands(x) PROVE Stands(x)'
  <2>1. x.task \in TaskRow
    BY DEF Command
  <2>2. Superseded(x.task, x.seen.item) => Superseded(x.task, x.seen.item)'
    BY <1>2 DEF Superseded
  <2> QED BY <1>2, <1>8, <2>1, <2>2 DEF Stands
<1> QED BY <1>3, <1>4, <1>5, <1>6, <1>7, <1>8 DEF RowsInv

\* A new row takes the next identity.
LEMMA RowAdded ==
  ASSUME ServiceInv, NEW t \in TaskRow, NextFree(t), NEW r \in Row, Sound(r), ~r.gone,
         Store(t, r), UNCHANGED erased
  PROVE  /\ RowsInv'
         /\ \A x \in Command : Stands(x) => Stands(x)'
         /\ \A u \in TaskRow : Taken(u) => u < t /\ rows'[u] = rows[u]
         /\ Taken(t)' /\ rows'[t] = r
<1>0. /\ rows \in [TaskRow -> Row \cup {NoRow}] /\ sent \in [TaskRow -> Row \cup {NoRow}]
      /\ rows' = [rows EXCEPT ![t] = r]
      /\ sent' = [sent EXCEPT ![t] = IF IsLocal(r) THEN sent[t] ELSE r]
      /\ r # NoRow /\ ~Taken(t)
      /\ TaskRow \subseteq Int
      /\ \A u \in TaskRow : u < t => Taken(u)
  BY ServiceAssumption, RowAssumption
     DEF ServiceInv, RowsInv, Store, Taken, TaskRow, NextFree
<1>1. /\ rows'[t] = r
      /\ \A u \in TaskRow : u # t => rows'[u] = rows[u] /\ sent'[u] = sent[u]
      /\ sent'[t] = IF IsLocal(r) THEN sent[t] ELSE r
  BY <1>0
<1>2. \A u \in TaskRow : Taken(u) => u < t
  BY <1>0 DEF ServiceInv, RowsInv, RowsHaveNoGaps
<1>3. \A u \in TaskRow : /\ Taken(u) => Taken(u)' /\ rows'[u] = rows[u]
                         /\ Taken(u)' => Taken(u) \/ u = t
  BY <1>0, <1>1 DEF Taken
<1>4. rows' \in [TaskRow -> Row \cup {NoRow}] /\ sent' \in [TaskRow -> Row \cup {NoRow}]
  BY <1>0
<1>5. RowsHaveNoGaps'
  BY <1>0, <1>2, <1>3 DEF ServiceInv, RowsInv, RowsHaveNoGaps
<1>6. LatestLives'
  BY <1>0, <1>1, <1>3 DEF ServiceInv, RowsInv, LatestLives
<1>7. SentIsStored'
  <2>1. sent[t] = NoRow
    BY <1>0 DEF ServiceInv, RowsInv, SentIsStored
  <2>2. (sent[t] = IF Taken(t) /\ ~IsLocal(rows[t]) THEN rows[t] ELSE NoRow)'
    BY <1>0, <1>1, <2>1 DEF Taken
  <2>3. ASSUME NEW u \in TaskRow, u # t
        PROVE  (sent[u] = IF Taken(u) /\ ~IsLocal(rows[u]) THEN rows[u] ELSE NoRow)'
    BY <1>1, <2>3 DEF ServiceInv, RowsInv, SentIsStored, Taken
  <2> QED BY <2>2, <2>3 DEF SentIsStored
<1>8. RowsAreSound'
  BY <1>1 DEF ServiceInv, RowsInv, RowsAreSound, Sound
<1>9. ASSUME NEW x \in Command, Stands(x) PROVE Stands(x)'
  <2>1. x.task \in TaskRow
    BY DEF Command
  <2>2. Superseded(x.task, x.seen.item) => Superseded(x.task, x.seen.item)'
    BY <1>3 DEF Superseded
  <2> QED BY <1>3, <1>9, <2>1, <2>2 DEF Stands
<1>10. Taken(t)'
  BY <1>0, <1>1 DEF Taken
<1> QED BY <1>1, <1>2, <1>3, <1>4, <1>5, <1>6, <1>7, <1>8, <1>9, <1>10
        DEF RowsInv, ServiceInv

-----------------------------------------------------------------------------
(* The invariant, step by step. *)

\* The rest of a step once the rows are dealt with: one command changes.
LEMMA CommandChanges ==
  ASSUME ServiceInv, RowsInv', \A x \in Command : Stands(x) => Stands(x)',
         NEW c \in Caller, NEW m \in {Idle} \cup Command, m # Idle => Stands(m)',
         cmd' = [cmd EXCEPT ![c] = m], asked' \in 0..MaxCommands
  PROVE  ServiceInv'
<1>1. cmd \in [Caller -> {Idle} \cup Command]
  BY DEF ServiceInv
<1>2. ASSUME NEW d \in Caller, cmd'[d] # Idle PROVE Stands(cmd[d])'
  <2>1. CASE d = c
    <3>1. cmd'[d] = m
      BY <1>1, <2>1
    <3> QED BY <1>2, <3>1 DEF Stands
  <2>2. CASE d # c
    <3>1. cmd'[d] = cmd[d] /\ cmd[d] \in Command /\ Stands(cmd[d])
      BY <1>1, <1>2, <2>2 DEF ServiceInv
    <3> QED BY <3>1 DEF Stands
  <2> QED BY <2>1, <2>2
<1> QED BY <1>1, <1>2 DEF ServiceInv

\* What is known of a command that is not idle.
LEMMA Underway ==
  ASSUME ServiceInv, NEW c \in Caller, cmd[c].at # "idle"
  PROVE  cmd[c] \in Command /\ Stands(cmd[c]) /\ cmd[c].task \in TaskRow
<1>1. cmd[c] # Idle
  BY DEF Idle
<1> QED BY <1>1 DEF ServiceInv, Command

LEMMA StandsUnchanged ==
  ASSUME ServiceInv, UNCHANGED <<rows, sent, erased>>
  PROVE  RowsInv' /\ \A x \in Command : Stands(x) => Stands(x)'
  BY DEF ServiceInv, RowsInv, RowsHaveNoGaps, LatestLives, SentIsStored, RowsAreSound, Taken,
         Stands, Superseded

LEMMA AskInv ==
  ASSUME ServiceInv, NEW c \in Caller, NEW kind \in CommandKind, NEW t \in TaskRow,
         NEW l \in ListId, NEW new \in Title, Ask(c, kind, t, l, new)
  PROVE  ServiceInv'
<1>1. /\ UNCHANGED <<rows, sent, erased>>
      /\ asked < MaxCommands /\ asked' = asked + 1
      /\ Taken(t) /\ rows[t] \in Row /\ Sound(rows[t])
      /\ Accepts(kind, rows[t], l)
  BY DEF Ask, ServiceInv, RowsInv, RowsAreSound, Taken, Sound
<1>2. PICK m \in Command : m = [at |-> "save", kind |-> kind, task |-> t, to |-> l,
                                title |-> new, seen |-> rows[t]]
  BY <1>1 DEF Command
<1>3. cmd' = [cmd EXCEPT ![c] = m]
  BY <1>2 DEF Ask
<1>4. Stands(m)
  BY <1>1, <1>2 DEF Stands
<1>5. asked' \in 0..MaxCommands
  BY <1>1, ServiceAssumption DEF ServiceInv
<1> QED BY <1>1, <1>3, <1>4, <1>5, StandsUnchanged, CommandChanges

LEMMA SaveChangeInv ==
  ASSUME ServiceInv, NEW c \in Caller, SaveRemote(c) \/ SaveLocal(c)
  PROVE  ServiceInv'
<1> DEFINE x == cmd[c]
           p == Patched(x.kind, x.seen, x.to, x.title)
           r == IF x.at = "save" THEN [p EXCEPT !.gone = FALSE] ELSE p
<1>1. /\ Store(x.task, r)
      /\ x.at = "write" \/ (x.at = "save" /\ x.kind \in Changes)
      /\ cmd' = [cmd EXCEPT ![c] = Idle]
      /\ UNCHANGED <<asked, erased>>
  BY DEF SaveRemote, SaveLocal
<1>2. x \in Command /\ Stands(x) /\ x.task \in TaskRow /\ x.kind \in Changes
  <2>1. x \in Command /\ Stands(x) /\ x.task \in TaskRow
    BY <1>1, Underway
  <2> QED BY <1>1, <2>1 DEF Stands
<1>3. /\ p \in Row /\ Sound(p)
      /\ p.item = x.seen.item /\ p.provider = x.seen.provider /\ p.gone = x.seen.gone
  BY <1>2, PatchedRow DEF Command, Stands
<1> HIDE DEF p
<1>4. /\ r \in Row /\ Sound(r)
      /\ r.item = x.seen.item /\ r.provider = x.seen.provider
      /\ r.gone => x.at = "write" /\ x.seen.gone
  BY <1>1, <1>3 DEF Row, Sound
<1> HIDE DEF r
<1>5. /\ Taken(x.task) /\ r.item = rows[x.task].item /\ r.provider = rows[x.task].provider
      /\ r.gone => \/ r.item \in erased
                   \/ \E u \in TaskRow : u > x.task /\ Taken(u) /\ rows[u].item = r.item
  BY <1>2, <1>4 DEF Stands, Superseded
<1>6. RowsInv' /\ \A y \in Command : Stands(y) => Stands(y)'
  BY <1>1, <1>2, <1>4, <1>5, RowWritten DEF ServiceInv, RowsInv
<1> QED BY <1>1, <1>6, CommandChanges DEF ServiceInv

LEMMA CarryTombstoneInv ==
  ASSUME ServiceInv, NEW c \in Caller, CarryTombstone(c)
  PROVE  ServiceInv'
<1> DEFINE x == cmd[c]
           seen == [x.seen EXCEPT !.gone = rows[x.task].gone]
           m == [x EXCEPT !.at = "write", !.seen = seen]
<1>1. /\ UNCHANGED <<rows, sent, asked, erased>>
      /\ x.at = "save" /\ x.kind \in Changes
      /\ cmd' = [cmd EXCEPT ![c] = m]
  BY DEF CarryTombstone
<1>2. x \in Command /\ Stands(x) /\ x.task \in TaskRow
  BY <1>1, Underway
<1>3. Taken(x.task) /\ rows[x.task] \in Row
  BY <1>2 DEF Stands, Taken, ServiceInv, RowsInv
<1>4. /\ seen \in Row
      /\ seen.item = x.seen.item /\ seen.provider = x.seen.provider
      /\ seen.list = x.seen.list /\ seen.also = x.seen.also
      /\ seen.gone = rows[x.task].gone
  BY <1>2, <1>3 DEF Command, Row
<1> HIDE DEF seen
<1>6. m \in Command /\ m.at = "write" /\ m.seen = seen /\ m.task = x.task /\ m.kind = x.kind
      /\ m.to = x.to
  BY <1>2, <1>4 DEF Command
<1> HIDE DEF m
<1>7. seen.gone => Superseded(x.task, seen.item)
  <2> SUFFICES ASSUME rows[x.task].gone PROVE Superseded(x.task, rows[x.task].item)
    BY <1>2, <1>4 DEF Stands
  <2>1. \/ rows[x.task].item \in erased
        \/ \E u \in TaskRow : /\ u >= x.task /\ Taken(u) /\ rows[u].item = rows[x.task].item
                              /\ ~rows[u].gone
    BY <1>2, <1>3 DEF ServiceInv, RowsInv, LatestLives
  <2>2. ASSUME NEW u \in TaskRow, u >= x.task, ~rows[u].gone PROVE u > x.task
    BY <1>2, <2>2, ServiceAssumption DEF TaskRow
  <2> QED BY <2>1, <2>2 DEF Superseded
<1>8. Stands(m)
  <2>1. Sound(seen) /\ Accepts(x.kind, seen, x.to)
    BY <1>2, <1>4 DEF Stands, Sound, Accepts
  <2> QED BY <1>1, <1>2, <1>4, <1>6, <1>7, <2>1 DEF Stands
<1> QED BY <1>1, <1>6, <1>8, StandsUnchanged, CommandChanges DEF ServiceInv

LEMMA SaveCopyInv ==
  ASSUME ServiceInv, NEW c \in Caller, SaveCopy(c)
  PROVE  ServiceInv'
<1>0. PICK x \in Command : x = cmd[c] /\ Stands(x) /\ x.task \in TaskRow
  BY Underway DEF SaveCopy
<1> DEFINE r == CopyOf(x.seen, x.to)
           m == [x EXCEPT !.at = "delete"]
<1>1. PICK t \in TaskRow : NextFree(t) /\ Store(t, r)
  BY <1>0 DEF SaveCopy
<1>2. /\ x.at = "save" /\ x.kind \in {"copy", "transfer"}
      /\ cmd' = [cmd EXCEPT ![c] = IF x.kind = "copy" THEN Idle ELSE m]
      /\ UNCHANGED <<asked, erased>>
  BY <1>0 DEF SaveCopy
<1>4. r \in Row /\ Sound(r) /\ r.item = x.seen.item /\ ~r.gone
  BY <1>0, CopiedRow DEF Command
<1> HIDE DEF r
<1>5. /\ RowsInv' /\ \A y \in Command : Stands(y) => Stands(y)'
      /\ \A u \in TaskRow : Taken(u) => u < t /\ rows'[u] = rows[u]
      /\ Taken(t)' /\ rows'[t] = r
  BY <1>1, <1>2, <1>4, RowAdded
<1>6. /\ m \in Command /\ m.at = "delete" /\ m.kind = x.kind /\ m.task = x.task
      /\ m.seen = x.seen /\ m.to = x.to
  BY <1>0 DEF Command
<1> HIDE DEF m
<1>7. Superseded(x.task, x.seen.item)'
  <2>1. x.task < t /\ t > x.task
    BY <1>0, <1>5, ServiceAssumption DEF Stands, TaskRow
  <2>2. \E u \in TaskRow : u > x.task /\ Taken(u)' /\ rows'[u].item = x.seen.item
    BY <1>4, <1>5, <2>1
  <2> QED BY <2>2 DEF Superseded
<1>8. x.kind = "transfer" => Stands(m)'
  BY <1>0, <1>5, <1>6, <1>7 DEF Stands
<1>9. (IF x.kind = "copy" THEN Idle ELSE m) \in {Idle} \cup Command
  BY <1>6
<1>10. (IF x.kind = "copy" THEN Idle ELSE m) # Idle => Stands(IF x.kind = "copy" THEN Idle ELSE m)'
  BY <1>2, <1>8
<1> QED BY <1>2, <1>5, <1>9, <1>10, CommandChanges DEF ServiceInv

LEMMA SaveDeleteInv ==
  ASSUME ServiceInv, NEW c \in Caller, SaveDelete(c)
  PROVE  ServiceInv'
<1>0. PICK x \in Command : x = cmd[c] /\ Stands(x) /\ x.task \in TaskRow
  BY Underway DEF SaveDelete
<1>1. Taken(x.task) /\ rows[x.task] \in Row /\ x.seen \in Row /\ Sound(rows[x.task])
  BY <1>0 DEF Stands, Taken, Command, ServiceInv, RowsInv, RowsAreSound, Sound
<1>2. PICK base \in {rows[x.task], x.seen} : Store(x.task, [base EXCEPT !.gone = TRUE])
  BY <1>0 DEF SaveDelete
<1>3. /\ \/ x.at = "save" /\ x.kind = "delete"
         \/ x.at = "delete" /\ x.kind = "transfer"
      /\ erased' = erased \cup (IF x.kind = "delete" THEN {x.seen.item} ELSE {})
      /\ cmd' = [cmd EXCEPT ![c] = Idle]
      /\ UNCHANGED asked
  BY <1>0 DEF SaveDelete, Stands
<1>4. PICK r : r = [base EXCEPT !.gone = TRUE]
  OBVIOUS
<1>5. base \in Row /\ Sound(base) /\ base.item = x.seen.item /\ base.item = rows[x.task].item
      /\ base.provider = rows[x.task].provider
  BY <1>0, <1>1 DEF Stands
<1>6. r \in Row /\ Sound(r) /\ r.item = base.item /\ r.provider = base.provider
  BY <1>4, <1>5 DEF Row, Sound
<1>7. erased \subseteq erased' /\ erased' \subseteq Item
  BY <1>1, <1>3 DEF ServiceInv, RowsInv, Row
<1>8. \/ r.item \in erased'
      \/ \E u \in TaskRow : u > x.task /\ Taken(u) /\ rows[u].item = r.item
  <2>1. CASE x.kind = "delete"
    BY <1>3, <1>5, <1>6, <2>1
  <2>2. CASE x.at = "delete"
    BY <1>0, <1>5, <1>6, <1>7, <2>2 DEF Stands, Superseded
  <2> QED BY <1>3, <2>1, <2>2
<1>9. RowsInv' /\ \A y \in Command : Stands(y) => Stands(y)'
  BY <1>0, <1>1, <1>2, <1>4, <1>5, <1>6, <1>7, <1>8, RowWritten
<1> QED BY <1>3, <1>9, CommandChanges DEF ServiceInv

LEMMA CreateInv ==
  ASSUME ServiceInv, NEW l \in ListId, NEW new \in Title, NEW i \in Item, Create(l, new, i)
  PROVE  ServiceInv'
<1>1. PICK r : r = [provider |-> ProviderOf[l], list |-> l, also |-> {l}, title |-> new,
                    gone |-> FALSE, item |-> i]
  OBVIOUS
<1>2. r \in Row /\ Sound(r) /\ ~r.gone
  BY <1>1 DEF Row, Sound, Provider
<1>3. PICK t \in TaskRow : NextFree(t) /\ Store(t, r)
  BY <1>1 DEF Create
<1>4. UNCHANGED <<cmd, erased>> /\ asked < MaxCommands /\ asked' = asked + 1
  BY DEF Create
<1>5. RowsInv' /\ \A y \in Command : Stands(y) => Stands(y)'
  BY <1>2, <1>3, <1>4, RowAdded
<1>6. asked' \in 0..MaxCommands
  BY <1>4, ServiceAssumption DEF ServiceInv
<1>7. ASSUME NEW d \in Caller, cmd'[d] # Idle PROVE Stands(cmd[d])'
  <2>1. PICK y \in Command : y = cmd[d] /\ Stands(y)
    BY <1>4, <1>7 DEF ServiceInv
  <2>2. Stands(y)' /\ y = cmd'[d]
    BY <1>4, <1>5, <2>1
  <2> QED BY <2>2 DEF Stands, Superseded, Taken
<1> QED BY <1>4, <1>5, <1>6, <1>7 DEF ServiceInv

LEMMA AbandonInv ==
  ASSUME ServiceInv, NEW c \in Caller, Abandon(c)
  PROVE  ServiceInv'
<1>1. UNCHANGED <<rows, sent, asked, erased>> /\ cmd' = [cmd EXCEPT ![c] = Idle]
  BY DEF Abandon
<1> QED BY <1>1, StandsUnchanged, CommandChanges DEF ServiceInv

LEMMA InitServiceInv == ServiceInit => ServiceInv
  BY ServiceAssumption
     DEF ServiceInit, ServiceInv, RowsInv, RowsHaveNoGaps, LatestLives, SentIsStored, RowsAreSound,
         Taken

LEMMA StepServiceInv == ServiceInv /\ [ServiceNext]_serviceVars => ServiceInv'
<1> SUFFICES ASSUME ServiceInv, [ServiceNext]_serviceVars PROVE ServiceInv'
  OBVIOUS
<1>1. ASSUME NEW c \in Caller, NEW kind \in CommandKind, NEW t \in TaskRow, NEW l \in ListId,
             NEW new \in Title, Ask(c, kind, t, l, new)
      PROVE  ServiceInv'
  BY <1>1, AskInv
<1>2. ASSUME NEW c \in Caller, SaveRemote(c) \/ SaveLocal(c) PROVE ServiceInv'
  BY <1>2, SaveChangeInv
<1>3. ASSUME NEW c \in Caller, CarryTombstone(c) PROVE ServiceInv'
  BY <1>3, CarryTombstoneInv
<1>4. ASSUME NEW c \in Caller, SaveCopy(c) PROVE ServiceInv'
  BY <1>4, SaveCopyInv
<1>5. ASSUME NEW c \in Caller, SaveDelete(c) PROVE ServiceInv'
  BY <1>5, SaveDeleteInv
<1>6. ASSUME NEW c \in Caller, Abandon(c) PROVE ServiceInv'
  BY <1>6, AbandonInv
<1>7. ASSUME NEW l \in ListId, NEW new \in Title, NEW i \in Item, Create(l, new, i)
      PROVE  ServiceInv'
  BY <1>7, CreateInv
<1>8. CASE UNCHANGED serviceVars
  BY <1>8 DEF serviceVars, ServiceInv, RowsInv, RowsHaveNoGaps, LatestLives, SentIsStored,
              RowsAreSound, Taken, Stands, Superseded
<1> QED BY <1>1, <1>2, <1>3, <1>4, <1>5, <1>6, <1>7, <1>8 DEF ServiceNext, Step

-----------------------------------------------------------------------------
(* The theorems. *)

\* The inductive invariant holds of every behaviour of the commands.
THEOREM ServiceSafety == ServiceSpec => []ServiceInv
  BY InitServiceInv, StepServiceInv, PTL DEF ServiceSpec

\* Type correctness.
THEOREM ServiceTyped == ServiceSpec => []ServiceTypeOK
<1>1. ServiceInv => ServiceTypeOK
  BY DEF ServiceInv, RowsInv, ServiceTypeOK, Command
<1> QED BY <1>1, ServiceSafety, PTL

\* Nothing the user did not delete is lost, however commands interleave and fail.
THEOREM ServiceLosesNothing == ServiceSpec => []ItemsSurvive
<1>1. ServiceInv => ItemsSurvive
  BY DEF ServiceInv, RowsInv, LatestLives, Taken, ItemsSurvive
<1> QED BY <1>1, ServiceSafety, PTL

\* What is queued for a remote task is what its row says.
THEOREM ServiceQueuesTheRow == ServiceSpec => []QueueTellsTheRow
<1>1. ServiceInv => QueueTellsTheRow
  BY DEF ServiceInv, RowsInv, SentIsStored, Taken, QueueTellsTheRow
<1> QED BY <1>1, ServiceSafety, PTL

\* A row's memberships are lists of its provider, its primary list among them.
THEOREM ServiceRowsSound == ServiceSpec => []RowsAreSound
<1>1. ServiceInv => RowsAreSound
  BY DEF ServiceInv, RowsInv
<1> QED BY <1>1, ServiceSafety, PTL

-----------------------------------------------------------------------------
(* RemoteCalls. *)

\* Slots on their way: not yet past, below the next one, each taken once.
SlotsAreOwn ==
  /\ \A c \in Sender : call[c].step = "waiting" => clock <= call[c].slot /\ call[c].slot < next
  /\ \A c, d \in Sender :
       c # d /\ call[c].step = "waiting" /\ call[d].step = "waiting" => call[c].slot # call[d].slot

\* The slot of this interval is used up by the request that was sent in it.
SentOnce ==
  /\ sends <= 1
  /\ sends = 1 => next > clock /\ \A c \in Sender : call[c].step = "waiting" => call[c].slot # clock

PacerInv == CallsTypeOK /\ SlotsAreOwn /\ SentOnce

\* While the pusher is in a call the wait is over; else it ends before the due time.
WaitIsKept ==
  /\ call[Pusher].step = "idle" => barred <= due
  /\ call[Pusher].step # "idle" => barred <= clock

BackoffInv == CallsTypeOK /\ WaitIsKept

------------------------------------------------------------------------------
\* The larger of two numbers is one of them, and no smaller than either.
LEMMA LaterFacts ==
  ASSUME NEW a \in Nat, NEW b \in Nat
  PROVE  Later(a, b) \in Nat /\ Later(a, b) >= a /\ Later(a, b) >= b
  BY DEF Later

\* Every attempt has a delay.
LEMMA DelayFacts ==
  ASSUME NEW n \in Nat
  PROVE  Delay(n) \in Nat
<1>1. Len(Schedule) \in Nat \ {0} /\ Schedule \in [1..Len(Schedule) -> Nat]
  BY CallsAssumption
<1>2. (IF n < 1 THEN 1 ELSE IF n > Len(Schedule) THEN Len(Schedule) ELSE n) \in 1..Len(Schedule)
  BY <1>1
<1> QED  BY <1>1, <1>2 DEF Delay

\* A failed operation is due in a time that contains the wait it was asked for.
LEMMA FailedFacts ==
  ASSUME CallsTypeOK, NEW kind, NEW after \in Nat, NEW n \in Nat, Failed(kind, after, n)
  PROVE  /\ attempts' \in Nat /\ due' \in Nat /\ barred' \in Nat
         /\ clock <= due'
         /\ barred <= clock => barred' <= due'
<1>1. Delay(n) \in Nat
  BY DelayFacts
<1>2. RetryDelay(kind, after, n) \in Nat /\ (kind = "rate_limited" => RetryDelay(kind, after, n) >= after)
  BY <1>1, LaterFacts DEF RetryDelay
<1>3. CASE kind = "terminal"
  BY <1>3 DEF Failed, Settled, CallsTypeOK
<1>4. CASE kind # "terminal"
  BY <1>2, <1>4 DEF Failed, CallsTypeOK
<1> QED  BY <1>3, <1>4

\* Types are kept.
LEMMA CallsTyped ==
  ASSUME CallsTypeOK, [CallsNext]_callVars
  PROVE  CallsTypeOK'
<1> USE DEF CallsTypeOK
<1>1. ASSUME NEW c \in Sender, Begin(c)  PROVE CallsTypeOK'
  <2>1. Later(next, clock) \in Nat /\ clock + Timeout \in Nat
    <3>1. Later(next, clock) \in Nat
      BY LaterFacts
    <3> QED  BY <3>1, CallsAssumption
  <2>2. call' \in [Sender -> Call]
    BY <1>1, <2>1 DEF Begin, Call, CallStep
  <2> QED  BY <1>1, <2>1, <2>2 DEF Begin, Reserve
<1>2. ASSUME NEW c \in Sender, Send(c)  PROVE CallsTypeOK'
  BY <1>2 DEF Send, Call, CallStep
<1>3. NoCall \in Call
  BY DEF NoCall, Call, CallStep
<1>4. ASSUME NEW c \in Sender, Expire(c)  PROVE CallsTypeOK'
  BY <1>3, <1>4, FailedFacts DEF Expire, CallEnds, OthersCall
<1>5. ASSUME NEW c \in Sender, NEW answer \in Answers, NEW after \in RetryAfters, Answer(c, answer, after)
      PROVE CallsTypeOK'
  <2>1. RateLimitAfter(answer, after) \in Nat
    BY CallsAssumption DEF RateLimitAfter
  <2> QED  BY <1>3, <1>5, <2>1, FailedFacts DEF Answer, CallEnds, OthersCall, Settled
<1>6. CASE NoToken
  BY <1>6, FailedFacts DEF NoToken
<1>7. CASE Tick
  BY <1>7 DEF Tick
<1>8. CASE UNCHANGED callVars
  BY <1>8 DEF callVars
<1> QED  BY <1>1, <1>2, <1>4, <1>5, <1>6, <1>7, <1>8 DEF CallsNext

------------------------------------------------------------------------------
\* Every step keeps the slots apart.
LEMMA PacerStep ==
  ASSUME PacerInv, [CallsNext]_callVars
  PROVE  PacerInv'
<1>1. CallsTypeOK'
  BY CallsTyped DEF PacerInv
<1> USE DEF PacerInv, SlotsAreOwn, SentOnce
<1>2. ASSUME NEW c \in Sender, Begin(c)  PROVE SlotsAreOwn' /\ SentOnce'
  <2>1. /\ Later(next, clock) \in Nat /\ Later(next, clock) >= next /\ Later(next, clock) >= clock
        /\ next' = Later(next, clock) + 1 /\ clock' = clock /\ sends' = sends
    BY <1>2, LaterFacts DEF Begin, Reserve, CallsTypeOK
  <2>2. /\ call'[c].step = "waiting" /\ call'[c].slot = Later(next, clock)
        /\ \A d \in Sender : d # c => call'[d] = call[d]
    BY <1>2 DEF Begin, CallsTypeOK
  <2>3. \A d \in Sender : call[d].slot \in Nat
    BY DEF CallsTypeOK, Call
  <2> QED  BY <2>1, <2>2, <2>3 DEF CallsTypeOK
<1>3. ASSUME NEW c \in Sender, Send(c)  PROVE SlotsAreOwn' /\ SentOnce'
  <2>1. /\ call'[c].step = "sent" /\ clock' = clock /\ next' = next /\ sends' = sends + 1
        /\ \A d \in Sender : d # c => call'[d] = call[d]
        /\ call[c].slot <= clock /\ call[c].step = "waiting"
    BY <1>3 DEF Send, MayGo, CallsTypeOK
  <2>2. \A d \in Sender : call[d].slot \in Nat
    BY DEF CallsTypeOK, Call
  <2>3. call[c].slot = clock
    BY <2>1, <2>2 DEF CallsTypeOK
  <2>4. sends = 0
    BY <2>1, <2>3 DEF CallsTypeOK
  <2> QED  BY <2>1, <2>2, <2>3, <2>4 DEF CallsTypeOK
<1>4. ASSUME NEW c \in Sender, CallEnds(c)  PROVE SlotsAreOwn' /\ SentOnce'
  <2>1. /\ call'[c].step = "idle" /\ clock' = clock /\ next' = next /\ sends' = sends
        /\ \A d \in Sender : d # c => call'[d] = call[d]
    BY <1>4 DEF CallEnds, NoCall, CallsTypeOK
  <2> QED  BY <2>1
<1>5. ASSUME NoToken  PROVE SlotsAreOwn' /\ SentOnce'
  BY <1>5 DEF NoToken
<1>6. ASSUME Tick  PROVE SlotsAreOwn' /\ SentOnce'
  <2>1. \A c \in Sender : call[c].slot \in Nat
    BY DEF CallsTypeOK, Call
  <2> QED  BY <1>6, <2>1 DEF Tick, CallsTypeOK
<1>7. ASSUME UNCHANGED callVars  PROVE SlotsAreOwn' /\ SentOnce'
  BY <1>7 DEF callVars
<1>8. SlotsAreOwn' /\ SentOnce'
  BY <1>2, <1>3, <1>4, <1>5, <1>6, <1>7 DEF CallsNext, Expire, Answer
<1> QED  BY <1>1, <1>8

\* The pacer of every client: no two requests leave in one interval.
THEOREM PacerKeepsInterval == CallsSpec => []OnePerInterval
<1>1. CallsInit => PacerInv
  BY DEF CallsInit, PacerInv, CallsTypeOK, SlotsAreOwn, SentOnce, NoCall, Call, CallStep
<1>2. PacerInv /\ [CallsNext]_callVars => PacerInv'
  BY PacerStep
<1>3. PacerInv => OnePerInterval
  BY DEF PacerInv, SentOnce, OnePerInterval
<1> QED  BY <1>1, <1>2, <1>3, PTL DEF CallsSpec

------------------------------------------------------------------------------
\* Every step keeps the wait.
LEMMA BackoffStep ==
  ASSUME BackoffInv, [CallsNext]_callVars
  PROVE  BackoffInv'
<1>1. CallsTypeOK'
  BY CallsTyped DEF BackoffInv
<1> USE DEF BackoffInv, WaitIsKept
<1>2. Pusher \in Sender
  BY CallsAssumption
<1>3. ASSUME NEW c \in Sender, Begin(c)  PROVE WaitIsKept'
  <2>1. /\ clock' = clock /\ due' = due /\ barred' = barred
        /\ c # Pusher => call'[Pusher] = call[Pusher]
        /\ c = Pusher => call[Pusher].step = "idle" /\ call'[Pusher].step = "waiting" /\ clock >= due
    BY <1>2, <1>3 DEF Begin, CallsTypeOK
  <2> QED  BY <2>1 DEF CallsTypeOK
<1>4. ASSUME NEW c \in Sender, Send(c)  PROVE WaitIsKept'
  <2>1. /\ clock' = clock /\ due' = due /\ barred' = barred
        /\ call'[Pusher].step = "idle" <=> call[Pusher].step = "idle"
    BY <1>2, <1>4 DEF Send, CallsTypeOK
  <2> QED  BY <2>1
<1>5. ASSUME NEW c \in Sender, c # Pusher, CallEnds(c), OthersCall  PROVE WaitIsKept'
  BY <1>2, <1>5 DEF CallEnds, OthersCall, CallsTypeOK
<1>6. ASSUME NEW kind, NEW after \in Nat, CallEnds(Pusher), call[Pusher].step # "idle",
             Settled \/ Failed(kind, after, attempts)
      PROVE WaitIsKept'
  <2>1. barred <= clock /\ clock' = clock /\ call'[Pusher].step = "idle"
    BY <1>2, <1>6 DEF CallEnds, NoCall, CallsTypeOK
  <2>2. CASE Settled
    BY <2>1, <2>2 DEF Settled, CallsTypeOK
  <2>3. CASE Failed(kind, after, attempts)
    BY <2>1, <2>3, FailedFacts DEF CallsTypeOK
  <2> QED  BY <1>6, <2>2, <2>3
<1>7. ASSUME NEW c \in Sender, Expire(c)  PROVE WaitIsKept'
  BY <1>5, <1>6, <1>7 DEF Expire
<1>8. ASSUME NEW c \in Sender, NEW answer \in Answers, NEW after \in RetryAfters, Answer(c, answer, after)
      PROVE WaitIsKept'
  <2>1. RateLimitAfter(answer, after) \in Nat
    BY CallsAssumption DEF RateLimitAfter
  <2>2. CASE c # Pusher
    BY <1>5, <1>8, <2>2 DEF Answer
  <2>3. CASE c = Pusher
    BY <1>6, <1>8, <2>1, <2>3 DEF Answer
  <2> QED  BY <2>2, <2>3
<1>9. ASSUME NoToken  PROVE WaitIsKept'
  <2>1. PICK kind \in {"terminal", "retryable"} : Failed(kind, 0, attempts + 1)
    BY <1>9 DEF NoToken
  <2>2. call' = call /\ clock' = clock /\ call[Pusher].step = "idle" /\ barred <= clock
    BY <1>9 DEF NoToken, CallsTypeOK
  <2> QED  BY <2>1, <2>2, FailedFacts DEF CallsTypeOK
<1>10. ASSUME Tick  PROVE WaitIsKept'
  BY <1>10 DEF Tick, CallsTypeOK
<1>11. ASSUME UNCHANGED callVars  PROVE WaitIsKept'
  BY <1>11 DEF callVars
<1>12. WaitIsKept'
  BY <1>3, <1>4, <1>7, <1>8, <1>9, <1>10, <1>11 DEF CallsNext
<1> QED  BY <1>1, <1>12

\* An operation that met a rate limit is not sent again before its wait is over.
THEOREM RateLimitKept == CallsSpec => RateLimitIsKept
<1>1. CallsInit => BackoffInv
  BY CallsAssumption DEF CallsInit, BackoffInv, CallsTypeOK, WaitIsKept, NoCall, Call, CallStep
<1>2. BackoffInv /\ [CallsNext]_callVars => BackoffInv'
  BY BackoffStep
<1>3. BackoffInv => (call[Pusher].step = "waiting" /\ call'[Pusher].step = "sent" => clock >= barred)
  BY DEF BackoffInv, WaitIsKept, CallsTypeOK
<1> QED  BY <1>1, <1>2, <1>3, PTL DEF CallsSpec, RateLimitIsKept
===============================================================================
