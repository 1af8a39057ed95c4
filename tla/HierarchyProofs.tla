--------------------------- MODULE HierarchyProofs ---------------------------
(***************************************************************************)
(* The hierarchy: the tables that store it (EntityStore), and the pull     *)
(* that fills them (HierarchyPull).                                        *)
(*                                                                         *)
(* In the tables, what a row hangs under belongs to its provider, an       *)
(* upsert fails only against a rival, a failed call has written nothing,   *)
(* and only a stale update brings a deleted row back, for any number of    *)
(* callers, providers, rows and calls.  The schema alone does not say so:  *)
(* it knows nothing of the kinds of a row in this table, nor of the owner  *)
(* of a membership.  What the adapter has read before it writes is still   *)
(* true when it writes, since kinds, owners and remote ids never change    *)
(* and no row goes away.  An id that was handed out is nobody else's, so   *)
(* an upsert that cannot insert has met a row of its identity: its own,    *)
(* which it rewrites, or a rival's.                                        *)
(*                                                                         *)
(* A pull stores a row below no parent, or below one that has a row: the   *)
(* parents of what it has mapped are in its listing, where it waits for    *)
(* them, or had a row when they were mapped, and rows stay.                *)
(* A round gives up only when all it has put off waits for listed tasks    *)
(* without a row, and those are among what it has put off: so these tasks  *)
(* are a set closed under parents, which no hierarchy has.  The pages of   *)
(* the listing were read at different times.                               *)
(***************************************************************************)
EXTENDS EntityStore, HierarchyPull, TLAPS, FiniteSetTheorems

\* In the table rs, row i is of this kind and this provider's.
Holds(rs, i, kind, owner) == i \in DOMAIN rs /\ rs[i].kind = kind /\ rs[i].owner = owner

\* The form of a row: only tasks have parents and memberships.
Shaped(e) ==
  /\ e = [f \in {"kind", "owner", "remote", "up", "above", "also", "deleted"} |-> e[f]]
  /\ e.kind \in {"space", "list", "task"}
  /\ e.kind # "task" => e.also = {} /\ e.above = 0

\* Everything the row e hangs under is in the table rs, and its provider's.
HangsRight(e, rs) ==
  /\ Shaped(e)
  /\ e.kind = "list" => Holds(rs, e.up, "space", e.owner)
  /\ e.kind = "task" => Holds(rs, e.up, "list", e.owner)
  /\ \A l \in e.also : Holds(rs, l, "list", e.owner)
  /\ e.above # 0 => Holds(rs, e.above, "task", e.owner)

\* The identities the table rs holds, and whether the call found its own there.
IdentitiesIn(rs) == {Identity(rs[i]) : i \in {j \in DOMAIN rs : rs[j].remote # NoRemote}}
Met(k, rs) == k.id \in DOMAIN rs /\ Identity(rs[k.id]) = Identity(k.row)
New(k) == Identity(k.row) \notin k.before

\* The form of a call, and the ways it may take.
Formed(k) ==
  k = [f \in {"at", "via", "op", "id", "row", "answer", "before", "during", "wrote",
              "moved"} |-> k[f]]

Under == {"own", "lookup", "check", "insert", "fallback", "update", "delete", "verify"}

OnItsWay(k) ==
  /\ k.at \in Under \cup {"done"}
  /\ k.at = "own" => k.op \in {"create", "update", "delete"}
  /\ k.at = "lookup" => k.op = "upsert"
  /\ k.at = "check" => k.op \in {"create", "upsert", "update"}
  /\ k.at = "insert" => k.op \in {"create", "upsert"}
  /\ k.at = "fallback" => k.op = "upsert"
  /\ k.at = "update" => k.op = "update"
  /\ k.at = "verify" => k.via = "local"
  /\ k.wrote => k.at = "verify" \/ (k.at = "done" /\ (k.answer = "ok" \/ k.id \in k.moved))

\* Once validated, the row of a call hangs right; the local provider's is its own.
RowHolds(k, rs) ==
  /\ Shaped(k.row)
  /\ k.via = "local" => k.row.owner = Local
  /\ k.at \in {"insert", "fallback", "update"} =>
       HangsRight(k.row, rs) /\ (k.row.above # 0 => k.row.above # k.id)
  /\ k.at = "verify" => k.id \in DOMAIN rs /\ rs[k.id].owner = Local

CreateHolds(k) ==
  k.op = "create" => k.row.remote = NoRemote /\ (k.at \in {"own", "check"} => k.id = 0)

\* An upsert has met a row of its identity, or its identity was not stored when
\* it began; when it could not insert, the identity is stored by then.
UpsertHolds(k, rs) ==
  k.op = "upsert" =>
    /\ k.row.remote # NoRemote /\ k.row.owner # Local /\ k.via = "store"
    /\ k.before \subseteq IdentitiesIn(rs)
    /\ k.at = "check" => Met(k, rs) \/ (New(k) /\ k.id = 0)
    /\ k.at = "insert" => Met(k, rs) \/ New(k)
    /\ k.at = "fallback" => Met(k, rs) \/ (New(k) /\ Identity(k.row) \in IdentitiesIn(rs))
    /\ k.at = "done" /\ k.answer \in {"lost", "exists"} =>
         New(k) /\ Identity(k.row) \in IdentitiesIn(rs)

\* An update is of a row that exists, and keeps its remote id.
UpdateHolds(k, rs) ==
  k.op = "update" =>
    /\ k.id \in DOMAIN rs
    /\ (k.row.owner = Local /\ k.row.remote = NoRemote) \/ k.row.remote = rs[k.id].remote

CallHolds(k, rs) ==
  \/ k = Idle
  \/ /\ Formed(k)
     /\ OnItsWay(k)
     /\ RowHolds(k, rs)
     /\ CreateHolds(k)
     /\ UpsertHolds(k, rs)
     /\ UpdateHolds(k, rs)

CallsKnown == call = [c \in Caller |-> call[c]]

\* The table: every row hangs right, an identity is stored once, and the local
\* provider's rows have none.
TableHolds(rs) ==
  /\ rs = [i \in DOMAIN rs |-> rs[i]]
  /\ \A i \in DOMAIN rs :
       /\ HangsRight(rs[i], rs)
       /\ rs[i].above # 0 => rs[i].above # i
       /\ rs[i].owner = Local => rs[i].remote = NoRemote
  /\ \A i, j \in DOMAIN rs :
       Identity(rs[i]) = Identity(rs[j]) /\ rs[i].remote # NoRemote => i = j

\* A call about to store a new row has an id that nobody else has.
Takes(k, rs) ==
  k # Idle /\ k.at \in {"insert", "fallback"} /\ ~(k.op = "upsert" /\ Met(k, rs))

FreshIds ==
  /\ next \in Nat /\ 0 < next
  /\ \A i \in DOMAIN rows : i \in Nat /\ 0 < i /\ i < next
  /\ \A c \in Caller : Takes(call[c], rows) =>
       /\ call[c].id \in Nat /\ 0 < call[c].id /\ call[c].id < next
       /\ call[c].id \notin DOMAIN rows
  /\ \A c, d \in Caller :
       Takes(call[c], rows) /\ Takes(call[d], rows) /\ call[c].id = call[d].id => c = d

\* An update that is about to bring a deleted row back has seen it deleted; a
\* call that looks at what it stored finds it in its place, or has seen it moved.
StaleHolds(k, rs) ==
  k # Idle =>
    /\ k.at = "update" /\ ~k.row.deleted /\ rs[k.id].deleted => k.id \in k.during
    /\ k.at = "verify" => rs[k.id].up = k.row.up \/ k.id \in k.moved

StoreInv ==
  /\ CallsKnown
  /\ TableHolds(rows)
  /\ FreshIds
  /\ \A c \in Caller : CallHolds(call[c], rows) /\ StaleHolds(call[c], rows)

\* Rows keep their identity, and are not removed.
Lasts(rs, then) ==
  \A i \in DOMAIN rs : i \in DOMAIN then /\ Identity(then[i]) = Identity(rs[i])

------------------------------------------------------------------------------
\* An identity is a kind, an owner and a remote id.
LEMMA IdentityTells ==
  ASSUME NEW e, NEW f, Identity(e) = Identity(f)
  PROVE  e.kind = f.kind /\ e.owner = f.owner /\ e.remote = f.remote
  BY DEF Identity

\* What hangs right goes on doing so while rows last.
LEMMA HangsOn ==
  ASSUME NEW e, NEW rs, NEW then, HangsRight(e, rs), Lasts(rs, then)
  PROVE  HangsRight(e, then)
<1>1. ASSUME NEW i, NEW kind, NEW owner, Holds(rs, i, kind, owner)  PROVE Holds(then, i, kind, owner)
  BY <1>1, IdentityTells DEF Lasts, Holds
<1> QED  BY <1>1 DEF HangsRight

\* The identities of a table stay while rows last.
LEMMA IdentitiesLast ==
  ASSUME NEW rs, NEW then, Lasts(rs, then)
  PROVE  IdentitiesIn(rs) \subseteq IdentitiesIn(then)
<1> SUFFICES ASSUME NEW i \in DOMAIN rs, rs[i].remote # NoRemote
             PROVE  Identity(rs[i]) \in IdentitiesIn(then)
  BY DEF IdentitiesIn
<1>1. i \in DOMAIN then /\ Identity(then[i]) = Identity(rs[i]) /\ then[i].remote # NoRemote
  BY IdentityTells DEF Lasts
<1> QED  BY <1>1 DEF IdentitiesIn

\* What a call holds stays true while rows last.
LEMMA CallHoldsOn ==
  ASSUME NEW k, NEW rs, NEW then, CallHolds(k, rs), Lasts(rs, then)
  PROVE  CallHolds(k, then)
<1> SUFFICES ASSUME k # Idle PROVE CallHolds(k, then)
  BY DEF CallHolds
<1>1. RowHolds(k, then)
  BY HangsOn, IdentityTells DEF CallHolds, RowHolds, Lasts
<1>2. IdentitiesIn(rs) \subseteq IdentitiesIn(then)
  BY IdentitiesLast
<1>3. Met(k, rs) => Met(k, then)
  BY DEF Met, Lasts
<1>4. UpsertHolds(k, then)
  BY <1>2, <1>3 DEF CallHolds, UpsertHolds
<1>5. UpdateHolds(k, then)
  BY IdentityTells DEF CallHolds, UpdateHolds, Lasts
<1> QED  BY <1>1, <1>4, <1>5 DEF CallHolds

\* A table lasts when it does not change.
LEMMA LastsAsItIs == ASSUME NEW rs PROVE Lasts(rs, rs)
  BY DEF Lasts

\* What the adapter reads before it writes says that the row hangs right.
LEMMA ValidHangsRight ==
  ASSUME NEW e, NEW id, Shaped(e), ParentsValid(e, id)
  PROVE  HangsRight(e, rows) /\ (e.above # 0 => e.above # id)
<1>1. CASE e.kind = "space"
  BY <1>1 DEF HangsRight, Shaped
<1>2. CASE e.kind = "list"
  BY <1>2 DEF HangsRight, Shaped, ParentsValid, ListParentValid, Stored, Holds
<1>3. CASE e.kind = "task"
  BY <1>3 DEF HangsRight, Shaped, ParentsValid, TaskParentsValid, Stored, Holds
<1> QED  BY <1>1, <1>2, <1>3 DEF Shaped

------------------------------------------------------------------------------
\* What the others know of a step that has the rows of gone deleted and those of
\* moves put elsewhere.
OthersNote(c, gone, moves) ==
  \A d \in Caller \ {c} :
    \/ call'[d] = call[d] /\ gone = {} /\ moves = {}
    \/ call'[d] = Noted(d, gone, moves)

\* A note changes nothing but the history of a call.
LEMMA NotedOnly ==
  ASSUME NEW d \in Caller, NEW gone, NEW moves, NEW rs, CallHolds(call[d], rs)
  PROVE  \/ Noted(d, gone, moves) = call[d] /\ call[d] = Idle
         \/ /\ Noted(d, gone, moves) # Idle /\ call[d] # Idle /\ Formed(Noted(d, gone, moves))
            /\ \A f \in {"at", "via", "op", "id", "row", "answer", "before", "wrote"} :
                 Noted(d, gone, moves)[f] = call[d][f]
            /\ Noted(d, gone, moves).during = call[d].during \cup gone
            /\ call[d].moved \subseteq Noted(d, gone, moves).moved
            /\ call[d].at = "verify" => moves \subseteq Noted(d, gone, moves).moved
<1>1. CASE call[d] = Idle
  BY <1>1 DEF Noted, Idle
<1>2. CASE call[d] # Idle
  <2>1. call[d].at # "idle" /\ Formed(call[d])
    BY <1>2 DEF CallHolds, OnItsWay, Under
  <2> DEFINE places == IF call[d].at = "verify" THEN call[d].moved \cup moves ELSE call[d].moved
             m == [call[d] EXCEPT !.during = @ \cup gone, !.moved = places]
  <2>2. Noted(d, gone, moves) = m
    BY <2>1 DEF Noted
  <2> HIDE DEF places
  <2>3. Formed(m) /\ m.during = call[d].during \cup gone /\ m.moved = places
        /\ \A f \in {"at", "via", "op", "id", "row", "answer", "before", "wrote"} : m[f] = call[d][f]
    BY <2>1 DEF Formed
  <2>4. m # Idle
    BY <2>1, <2>3 DEF Idle
  <2> HIDE DEF m
  <2>5. call[d].moved \subseteq places /\ (call[d].at = "verify" => moves \subseteq places)
    BY DEF places
  <2> QED  BY <1>2, <2>2, <2>3, <2>4, <2>5
<1> QED  BY <1>1, <1>2

\* What holds of a call holds of it with a note.
LEMMA NotedHolds ==
  ASSUME NEW d \in Caller, NEW gone, NEW moves, NEW rs, CallHolds(call[d], rs)
  PROVE  /\ CallHolds(Noted(d, gone, moves), rs)
         /\ Takes(Noted(d, gone, moves), rs) <=> Takes(call[d], rs)
<1> DEFINE m == Noted(d, gone, moves)
<1>1. CASE m = call[d] /\ call[d] = Idle
  BY <1>1
<1>2. CASE /\ m # Idle /\ call[d] # Idle /\ Formed(m)
           /\ \A f \in {"at", "via", "op", "id", "row", "answer", "before", "wrote"} : m[f] = call[d][f]
           /\ call[d].moved \subseteq m.moved
  <2> HIDE DEF m
  <2>1. /\ m.at = call[d].at /\ m.via = call[d].via /\ m.op = call[d].op /\ m.id = call[d].id
        /\ m.row = call[d].row /\ m.answer = call[d].answer /\ m.before = call[d].before
        /\ m.wrote = call[d].wrote
    BY <1>2
  <2>2. OnItsWay(m) /\ RowHolds(m, rs) /\ CreateHolds(m) /\ UpdateHolds(m, rs)
    BY <1>2, <2>1 DEF CallHolds, OnItsWay, RowHolds, CreateHolds, UpdateHolds
  <2>3. (Met(m, rs) <=> Met(call[d], rs)) /\ (New(m) <=> New(call[d]))
    BY <2>1 DEF Met, New
  <2>4. UpsertHolds(m, rs)
    BY <1>2, <2>1, <2>3 DEF CallHolds, UpsertHolds
  <2>5. CallHolds(m, rs) /\ (Takes(m, rs) <=> Takes(call[d], rs))
    BY <1>2, <2>1, <2>2, <2>3, <2>4 DEF CallHolds, Takes
  <2> QED  BY <2>5 DEF m
<1>3. \/ m = call[d] /\ call[d] = Idle
      \/ /\ m # Idle /\ call[d] # Idle /\ Formed(m)
         /\ \A f \in {"at", "via", "op", "id", "row", "answer", "before", "wrote"} : m[f] = call[d][f]
         /\ m.during = call[d].during \cup gone
         /\ call[d].moved \subseteq m.moved
         /\ call[d].at = "verify" => moves \subseteq m.moved
  BY NotedOnly, Zenon
<1> QED  BY <1>1, <1>2, <1>3

\* The table a step leaves: rows last, it holds, only gone was deleted and only
\* moves were put elsewhere.
TableGrows(gone, moves) ==
  /\ Lasts(rows, rows')
  /\ TableHolds(rows')
  /\ \A i \in DOMAIN rows : ~rows[i].deleted /\ rows'[i].deleted => i \in gone
  /\ \A i \in DOMAIN rows : rows'[i].up # rows[i].up => i \in moves

\* The ids a step of c takes and uses: it stores at most the id it took, and
\* takes the next one or keeps the one it had.
IdsMove(c) ==
  /\ next' \in Nat /\ next <= next'
  /\ \A i \in DOMAIN rows' \ DOMAIN rows : Takes(call[c], rows) /\ i = call[c].id
  /\ Takes(call'[c], rows') =>
       \/ Takes(call[c], rows) /\ call'[c].id = call[c].id /\ UNCHANGED rows
       \/ call'[c].id = next /\ next < next' /\ UNCHANGED rows

\* A step of one call keeps the invariant when it leaves the call and the table
\* in order.
LEMMA CallMoves ==
  ASSUME StoreInv, NEW c \in Caller, NEW gone, NEW moves,
         CallsKnown', OthersNote(c, gone, moves), TableGrows(gone, moves), IdsMove(c),
         CallHolds(call'[c], rows'), StaleHolds(call'[c], rows')
  PROVE  StoreInv'
<1>1. ASSUME NEW d \in Caller, d # c
      PROVE  /\ CallHolds(call'[d], rows')
             /\ Takes(call'[d], rows') => Takes(call[d], rows) /\ call'[d].id = call[d].id
             /\ StaleHolds(call'[d], rows')
  <2>1. CallHolds(call[d], rows) /\ StaleHolds(call[d], rows)
    BY DEF StoreInv
  <2>2. CallHolds(call[d], rows')
    BY <2>1, CallHoldsOn DEF TableGrows
  <2>3. (call'[d] = call[d] /\ gone = {} /\ moves = {}) \/ call'[d] = Noted(d, gone, moves)
    BY <1>1 DEF OthersNote
  <2>4. CallHolds(call'[d], rows') /\ (Takes(call'[d], rows') <=> Takes(call[d], rows'))
    BY <2>2, <2>3, NotedHolds
  <2>5. /\ call'[d] = Idle <=> call[d] = Idle
        /\ call[d] # Idle => /\ call'[d].id = call[d].id /\ call'[d].at = call[d].at
                             /\ call'[d].row = call[d].row
                             /\ call[d].during \cup gone \subseteq call'[d].during
                             /\ call[d].moved \subseteq call'[d].moved
                             /\ call[d].at = "verify" => moves \subseteq call'[d].moved
    <3>1. CASE call'[d] = call[d] /\ gone = {} /\ moves = {}
      BY <3>1
    <3>2. CASE call'[d] = Noted(d, gone, moves)
      <4> DEFINE m == Noted(d, gone, moves)
      <4>1. \/ m = call[d] /\ call[d] = Idle
            \/ /\ m # Idle /\ call[d] # Idle
               /\ \A f \in {"at", "via", "op", "id", "row", "answer", "before", "wrote"} :
                    m[f] = call[d][f]
               /\ m.during = call[d].during \cup gone /\ call[d].moved \subseteq m.moved
               /\ call[d].at = "verify" => moves \subseteq m.moved
        BY <2>2, NotedOnly
      <4> HIDE DEF m
      <4>2. call'[d] = m
        BY <3>2 DEF m
      <4> QED  BY <4>1, <4>2
    <3> QED  BY <2>3, <3>1, <3>2
  <2>6. Takes(call[d], rows') => Takes(call[d], rows)
    BY DEF Takes, Met, TableGrows, Lasts
  <2>7. StaleHolds(call'[d], rows')
    <3>1. ASSUME call[d] # Idle, call[d].at = "update", ~call[d].row.deleted,
                 rows'[call[d].id].deleted
          PROVE  call[d].id \in call'[d].during
      <4>1. call[d].id \in DOMAIN rows
        BY <2>1, <3>1 DEF CallHolds, OnItsWay, UpdateHolds
      <4> QED  BY <2>1, <2>5, <3>1, <4>1 DEF StaleHolds, TableGrows
    <3>2. ASSUME call[d] # Idle, call[d].at = "verify"
          PROVE  rows'[call[d].id].up = call[d].row.up \/ call[d].id \in call'[d].moved
      <4>1. call[d].id \in DOMAIN rows
        BY <2>1, <3>2 DEF CallHolds, RowHolds
      <4> QED  BY <2>1, <2>5, <3>2, <4>1 DEF StaleHolds, TableGrows
    <3> QED  BY <2>5, <3>1, <3>2 DEF StaleHolds
  <2> QED  BY <2>4, <2>5, <2>6, <2>7 DEF Takes
<1>2. ASSUME NEW d \in Caller  PROVE CallHolds(call'[d], rows') /\ StaleHolds(call'[d], rows')
  BY <1>1
<1>3. FreshIds'
  <2>1. \A i \in DOMAIN rows' : i \in Nat /\ 0 < i /\ i < next'
    BY DEF StoreInv, FreshIds, IdsMove
  <2>2. ASSUME NEW d \in Caller, Takes(call'[d], rows')
        PROVE  /\ call'[d].id \in Nat /\ 0 < call'[d].id /\ call'[d].id < next'
               /\ call'[d].id \notin DOMAIN rows'
    <3>1. CASE d # c
      <4>1. Takes(call[d], rows) /\ call'[d].id = call[d].id
        BY <1>1, <2>2, <3>1
      <4> QED  BY <3>1, <4>1 DEF StoreInv, FreshIds, IdsMove
    <3>2. CASE d = c
      <4>1. next \in Nat /\ 0 < next
        BY DEF StoreInv, FreshIds
      <4> QED  BY <2>2, <3>2, <4>1 DEF StoreInv, FreshIds, IdsMove
    <3> QED  BY <3>1, <3>2
  <2>3. ASSUME NEW d \in Caller, d # c, Takes(call'[c], rows'), Takes(call'[d], rows')
        PROVE  call'[c].id # call'[d].id
    <3>1. Takes(call[d], rows) /\ call'[d].id = call[d].id
      BY <1>1, <2>3
    <3> QED  BY <2>3, <3>1 DEF StoreInv, FreshIds, IdsMove
  <2>4. ASSUME NEW d \in Caller, NEW e \in Caller, d # c, e # c,
               Takes(call'[d], rows'), Takes(call'[e], rows'), call'[d].id = call'[e].id
        PROVE  d = e
    <3>1. Takes(call[d], rows) /\ call'[d].id = call[d].id
      BY <1>1, <2>4
    <3>2. Takes(call[e], rows) /\ call'[e].id = call[e].id
      BY <1>1, <2>4
    <3> QED  BY <2>4, <3>1, <3>2 DEF StoreInv, FreshIds
  <2>5. \A d, e \in Caller :
          Takes(call'[d], rows') /\ Takes(call'[e], rows') /\ call'[d].id = call'[e].id => d = e
    BY <2>3, <2>4
  <2>6. next' \in Nat /\ 0 < next'
    BY DEF StoreInv, FreshIds, IdsMove
  <2> QED  BY <2>1, <2>2, <2>5, <2>6 DEF FreshIds
<1> QED  BY <1>2, <1>3 DEF StoreInv, TableGrows

\* A table nobody writes.
LEMMA TableKept ==
  ASSUME StoreInv, UNCHANGED rows
  PROVE  TableGrows({}, {})
  BY LastsAsItIs DEF StoreInv, TableGrows

\* A step that writes nothing and takes no id.
LEMMA QuietMove ==
  ASSUME StoreInv, NEW c \in Caller, NEW m, UNCHANGED <<rows, next>>,
         call' = [call EXCEPT ![c] = m], CallHolds(m, rows), StaleHolds(m, rows),
         Takes(m, rows) => Takes(call[c], rows) /\ m.id = call[c].id
  PROVE  StoreInv'
<1>1. CallsKnown' /\ call'[c] = m /\ \A d \in Caller \ {c} : call'[d] = call[d]
  BY DEF StoreInv, CallsKnown
<1>2. OthersNote(c, {}, {})
  BY <1>1 DEF OthersNote
<1>3. IdsMove(c)
  BY <1>1 DEF IdsMove, StoreInv, FreshIds
<1> QED  BY <1>1, <1>2, <1>3, TableKept, CallMoves

\* The rows callers ask for have the form of their kind.
LEMMA RowsAskedFor ==
  ASSUME NEW p, NEW r, NEW s, NEW l, NEW parent, NEW lists
  PROVE  /\ Shaped(SpaceRow(p, r)) /\ SpaceRow(p, r).owner = p /\ SpaceRow(p, r).remote = r
         /\ Shaped(ListRow(p, r, s)) /\ ListRow(p, r, s).owner = p /\ ListRow(p, r, s).remote = r
         /\ Shaped(TaskRow(p, r, l, parent, lists))
         /\ TaskRow(p, r, l, parent, lists).owner = p /\ TaskRow(p, r, l, parent, lists).remote = r
  BY DEF Shaped, SpaceRow, ListRow, TaskRow

\* So have those made of rows that were read.
LEMMA RowsReadAndAskedFor ==
  ASSUME StoreInv, NEW i \in DOMAIN rows, NEW s
  PROVE  /\ Shaped(Live(i)) /\ Live(i).remote = rows[i].remote
         /\ rows[i].kind = "list" =>
              Shaped([Live(i) EXCEPT !.up = s]) /\ [Live(i) EXCEPT !.up = s].remote = rows[i].remote
<1> DEFINE e == rows[i]
           live == [e EXCEPT !.deleted = FALSE]
<1>1. Shaped(e)
  BY DEF StoreInv, TableHolds, HangsRight
<1> HIDE DEF e
<1>2. /\ live = [f \in {"kind", "owner", "remote", "up", "above", "also", "deleted"} |-> live[f]]
      /\ live.kind = e.kind /\ live.also = e.also /\ live.above = e.above /\ live.remote = e.remote
  BY <1>1 DEF Shaped
<1> HIDE DEF live
<1>3. Shaped(live)
  BY <1>1, <1>2 DEF Shaped
<1>4. e.kind = "list" => Shaped([live EXCEPT !.up = s]) /\ [live EXCEPT !.up = s].remote = e.remote
  BY <1>2, <1>3 DEF Shaped
<1>5. Live(i) = live
  BY DEF Live, live, e
<1> QED  BY <1>2, <1>3, <1>4, <1>5 DEF e

\* What callers ask for: a new row has no remote id and no id, an upsert has a
\* remote id, an update is of a row that exists and keeps its remote id.
Asked(via, op, id, e) ==
  /\ Shaped(e)
  /\ via = "local" => e.owner = Local /\ op \in {"create", "update", "delete"}
  /\ op \in {"create", "upsert", "update", "delete"}
  /\ op = "create" => e.remote = NoRemote /\ id = 0
  /\ op = "upsert" => e.remote # NoRemote /\ e.owner # Local /\ via = "store"
  /\ op = "update" => id \in DOMAIN rows
       /\ ((e.owner = Local /\ e.remote = NoRemote) \/ e.remote = rows[id].remote)

\* A new call keeps the invariant.
LEMMA AskStep ==
  ASSUME StoreInv, NEW c \in Caller, NEW via, NEW op, NEW id, NEW e,
         Asked(via, op, id, e), Ask(c, via, op, id, e)
  PROVE  StoreInv'
<1> DEFINE at == IF via = "local" THEN "own"
                 ELSE CASE op = "upsert" -> "lookup"
                        [] op = "delete" -> "delete"
                        [] OTHER -> "check"
           k == [at |-> at, via |-> via, op |-> op, id |-> id, row |-> e, answer |-> "none",
                 before |-> Identities, during |-> {}, wrote |-> FALSE, moved |-> {}]
<1>1. call' = [call EXCEPT ![c] = k] /\ UNCHANGED <<rows, next>>
  BY DEF Ask
<1>2. /\ at \in {"own", "lookup", "delete", "check"}
      /\ at = "own" => via = "local"
      /\ at = "lookup" => op = "upsert"
      /\ at = "check" => op \in {"create", "update"}
  BY DEF Asked
<1> HIDE DEF at
<1>3. OnItsWay(k)
  BY <1>2 DEF OnItsWay, Under, Asked
<1>4. RowHolds(k, rows) /\ CreateHolds(k) /\ UpdateHolds(k, rows)
  BY <1>2 DEF RowHolds, CreateHolds, UpdateHolds, Asked
<1>5. UpsertHolds(k, rows)
  BY <1>2 DEF UpsertHolds, Asked, Identities, IdentitiesIn
<1>6. CallHolds(k, rows) /\ StaleHolds(k, rows) /\ ~Takes(k, rows)
  BY <1>2, <1>3, <1>4, <1>5 DEF CallHolds, Formed, StaleHolds, Takes
<1> QED  BY <1>1, <1>6, QuietMove

\* Callers begin their calls.
LEMMA CallersAsk ==
  ASSUME StoreInv, NEW c \in Caller,
         \/ SpaceCall(c) \/ ListCall(c) \/ TaskCall(c)
         \/ LocalSpaceCall(c) \/ LocalListCall(c) \/ LocalTaskCall(c)
  PROVE  StoreInv'
<1> USE StoreAssumption
<1>1. CASE SpaceCall(c)
  <2>1. CASE \E p \in ProviderId : Ask(c, "store", "create", 0, SpaceRow(p, NoRemote))
    BY <2>1, AskStep, RowsAskedFor DEF Asked
  <2>2. CASE \E p \in ProviderId \ {Local}, r \in Remote : Ask(c, "store", "upsert", 0, SpaceRow(p, r))
    BY <2>2, AskStep, RowsAskedFor DEF Asked
  <2>3. ASSUME NEW i \in DOMAIN rows, NEW op \in {"update", "delete"}, Ask(c, "store", op, i, Live(i))
        PROVE  StoreInv'
    <3>1. Asked("store", op, i, Live(i))
      BY RowsReadAndAskedFor DEF Asked
    <3> QED  BY <2>3, <3>1, AskStep
  <2> QED  BY <1>1, <2>1, <2>2, <2>3 DEF SpaceCall, Stored
<1>2. CASE ListCall(c)
  <2>1. ASSUME NEW p \in ProviderId, NEW s, Ask(c, "store", "create", 0, ListRow(p, NoRemote, s))
        PROVE  StoreInv'
    BY <2>1, AskStep, RowsAskedFor DEF Asked
  <2>2. ASSUME NEW p \in ProviderId \ {Local}, NEW r \in Remote, NEW s,
               Ask(c, "store", "upsert", 0, ListRow(p, r, s))
        PROVE  StoreInv'
    BY <2>2, AskStep, RowsAskedFor DEF Asked
  <2>3. ASSUME NEW i \in Stored("list"), NEW s, Ask(c, "store", "update", i, [Live(i) EXCEPT !.up = s])
        PROVE  StoreInv'
    <3>1. Asked("store", "update", i, [Live(i) EXCEPT !.up = s])
      BY RowsReadAndAskedFor DEF Asked, Stored
    <3> QED  BY <2>3, <3>1, AskStep
  <2>4. ASSUME NEW i \in Stored("list"), Ask(c, "store", "delete", i, Live(i))  PROVE StoreInv'
    <3>1. Asked("store", "delete", i, Live(i))
      BY RowsReadAndAskedFor DEF Asked, Stored
    <3> QED  BY <2>4, <3>1, AskStep
  <2> QED  BY <1>2, <2>1, <2>2, <2>3, <2>4 DEF ListCall
<1>3. CASE TaskCall(c)
  <2> SUFFICES ASSUME NEW l, NEW lists, NEW parent,
                 \/ \E p \in ProviderId :
                      Ask(c, "store", "create", 0, TaskRow(p, NoRemote, l, parent, lists))
                 \/ \E p \in ProviderId \ {Local}, r \in Remote :
                      Ask(c, "store", "upsert", 0, TaskRow(p, r, l, parent, lists))
                 \/ \E i \in Stored("task") :
                      Ask(c, "store", "update", i,
                          TaskRow(rows[i].owner, rows[i].remote, l, parent, lists))
                 \/ \E i \in Stored("task") : Ask(c, "store", "delete", i, Live(i))
               PROVE  StoreInv'
    BY <1>3 DEF TaskCall
  <2>1. ASSUME NEW p \in ProviderId, Ask(c, "store", "create", 0, TaskRow(p, NoRemote, l, parent, lists))
        PROVE  StoreInv'
    <3>1. Asked("store", "create", 0, TaskRow(p, NoRemote, l, parent, lists))
      BY RowsAskedFor DEF Asked
    <3> QED  BY <2>1, <3>1, AskStep
  <2>2. ASSUME NEW p \in ProviderId \ {Local}, NEW r \in Remote,
               Ask(c, "store", "upsert", 0, TaskRow(p, r, l, parent, lists))
        PROVE  StoreInv'
    <3>1. Asked("store", "upsert", 0, TaskRow(p, r, l, parent, lists))
      BY RowsAskedFor DEF Asked
    <3> QED  BY <2>2, <3>1, AskStep
  <2>3. ASSUME NEW i \in Stored("task"),
               Ask(c, "store", "update", i, TaskRow(rows[i].owner, rows[i].remote, l, parent, lists))
        PROVE  StoreInv'
    <3>1. Asked("store", "update", i, TaskRow(rows[i].owner, rows[i].remote, l, parent, lists))
      BY RowsAskedFor DEF Asked, Stored
    <3> QED  BY <2>3, <3>1, AskStep
  <2>4. ASSUME NEW i \in Stored("task"), Ask(c, "store", "delete", i, Live(i))  PROVE StoreInv'
    <3>1. Asked("store", "delete", i, Live(i))
      BY RowsReadAndAskedFor DEF Asked, Stored
    <3> QED  BY <2>4, <3>1, AskStep
  <2> QED  BY <2>1, <2>2, <2>3, <2>4
<1>4. CASE LocalSpaceCall(c)
  <2>1. \E via, op, id, e : Asked(via, op, id, e) /\ Ask(c, via, op, id, e)
    BY <1>4, RowsAskedFor DEF LocalSpaceCall, Stored, Asked
  <2> QED  BY <2>1, AskStep
<1>5. CASE LocalListCall(c)
  <2>1. \E via, op, id, e : Asked(via, op, id, e) /\ Ask(c, via, op, id, e)
    BY <1>5, RowsAskedFor DEF LocalListCall, Stored, Asked
  <2> QED  BY <2>1, AskStep
<1>6. CASE LocalTaskCall(c)
  <2>1. \E via, op, id, e : Asked(via, op, id, e) /\ Ask(c, via, op, id, e)
    BY <1>6, RowsAskedFor DEF LocalTaskCall, Stored, Asked
  <2> QED  BY <2>1, AskStep
<1> QED  BY <1>1, <1>2, <1>3, <1>4, <1>5, <1>6

\* A call that is under way, and what it holds.
LEMMA UnderWay ==
  ASSUME StoreInv, NEW c \in Caller, call[c].at \in Under
  PROVE  /\ call[c] # Idle /\ Formed(call[c]) /\ OnItsWay(call[c]) /\ RowHolds(call[c], rows)
         /\ CreateHolds(call[c]) /\ UpsertHolds(call[c], rows) /\ UpdateHolds(call[c], rows)
         /\ StaleHolds(call[c], rows)
  BY DEF StoreInv, CallHolds, Idle, Under

------------------------------------------------------------------------------
\* An upsert that has met its row can rewrite it.
LEMMA MetWrites ==
  ASSUME StoreInv, NEW c \in Caller, call[c].at \in {"insert", "fallback"},
         call[c].op = "upsert", Met(call[c], rows)
  PROVE  Matches(call[c].row, call[c].id) /\ KeysHold(call[c].row, call[c].id)
<1> DEFINE k == call[c]
<1>1. RowHolds(k, rows)
  BY UnderWay DEF Under
<1>2. k.id \in DOMAIN rows /\ Identity(rows[k.id]) = Identity(k.row)
  BY DEF Met
<1>3. Matches(k.row, k.id)
  BY <1>2, IdentityTells DEF Matches
<1>4. HangsRight(k.row, rows) /\ (k.row.above # 0 => k.row.above # k.id)
  BY <1>1 DEF RowHolds
<1>5. ASSUME NEW i \in DOMAIN rows \ {k.id}, k.row.remote # NoRemote
      PROVE  Identity(rows[i]) # Identity(k.row)
  <2>1. rows[k.id].remote # NoRemote
    BY <1>2, <1>5, IdentityTells
  <2> QED  BY <1>2, <1>5, <2>1 DEF StoreInv, TableHolds
<1> HIDE DEF k
<1>6. KeysHold(k.row, k.id)
  BY <1>4, <1>5 DEF KeysHold, MembershipKeysHold, Refers, Stored, HangsRight, Shaped, Holds
<1> QED  BY <1>3, <1>6 DEF k

\* One that cannot insert has met its row, or its identity is stored by a rival.
LEMMA Rivalled ==
  ASSUME StoreInv, NEW c \in Caller, call[c].at = "insert", call[c].op = "upsert",
         ~(call[c].id \notin DOMAIN rows /\ KeysHold(call[c].row, call[c].id)),
         ~Met(call[c], rows)
  PROVE  New(call[c]) /\ Identity(call[c].row) \in IdentitiesIn(rows)
<1> DEFINE k == call[c]
<1>1. k # Idle /\ RowHolds(k, rows) /\ UpsertHolds(k, rows)
  BY UnderWay DEF Under
<1>2. Takes(k, rows)
  BY <1>1 DEF Takes
<1>3. k.id \notin DOMAIN rows /\ ~KeysHold(k.row, k.id)
  BY <1>2 DEF StoreInv, FreshIds
<1>4. HangsRight(k.row, rows) /\ (k.row.above # 0 => k.row.above # k.id)
  BY <1>1 DEF RowHolds
<1>5. New(k)
  BY <1>1 DEF UpsertHolds
<1> HIDE DEF k
<1>6. PICK i \in DOMAIN rows : k.row.remote # NoRemote /\ Identity(rows[i]) = Identity(k.row)
  BY <1>3, <1>4 DEF KeysHold, MembershipKeysHold, Refers, Stored, HangsRight, Shaped, Holds
<1>7. rows[i].remote # NoRemote
  BY <1>6, IdentityTells
<1>8. Identity(k.row) \in IdentitiesIn(rows)
  BY <1>6, <1>7 DEF IdentitiesIn
<1> QED  BY <1>5, <1>8 DEF k

\* An answer to a call that was under way.
LEMMA Answered ==
  ASSUME StoreInv, NEW c \in Caller, NEW result, call[c].at \in Under,
         Answer(c, result), UNCHANGED <<rows, next>>,
         call[c].at = "verify" => result = "ok" \/ call[c].id \in call[c].moved,
         call[c].op = "upsert" /\ result \in {"lost", "exists"} =>
           New(call[c]) /\ Identity(call[c].row) \in IdentitiesIn(rows)
  PROVE  StoreInv'
<1> DEFINE k == call[c]
           m == [k EXCEPT !.at = "done", !.answer = result]
<1>1. call' = [call EXCEPT ![c] = m]
  BY DEF Answer
<1>2. Formed(k) /\ OnItsWay(k) /\ RowHolds(k, rows) /\ CreateHolds(k)
      /\ UpsertHolds(k, rows) /\ UpdateHolds(k, rows)
  BY UnderWay
<1>3. /\ Formed(m) /\ m.at = "done" /\ m.answer = result /\ m.via = k.via /\ m.op = k.op
      /\ m.id = k.id /\ m.row = k.row /\ m.before = k.before /\ m.wrote = k.wrote /\ m.moved = k.moved
  BY <1>2 DEF Formed
<1>4. k.wrote => result = "ok" \/ k.id \in k.moved
  BY <1>2 DEF OnItsWay, Under
<1> HIDE DEF m
<1>5. OnItsWay(m) /\ RowHolds(m, rows) /\ CreateHolds(m) /\ UpdateHolds(m, rows)
  BY <1>2, <1>3, <1>4 DEF OnItsWay, RowHolds, CreateHolds, UpdateHolds, Under
<1>6. UpsertHolds(m, rows)
  BY <1>2, <1>3 DEF UpsertHolds, New
<1>7. CallHolds(m, rows) /\ StaleHolds(m, rows) /\ ~Takes(m, rows)
  BY <1>3, <1>5, <1>6 DEF CallHolds, StaleHolds, Takes
<1> QED  BY <1>1, <1>7, QuietMove

\* The local provider's look before the call.
LEMMA OwnStep ==
  ASSUME StoreInv, NEW c \in Caller, Own(c)
  PROVE  StoreInv'
<1> DEFINE k == call[c]
           step == IF k.op = "delete" THEN "delete" ELSE "check"
           m == [k EXCEPT !.at = step]
<1>1. k.at = "own" /\ UNCHANGED <<rows, next>>
  BY DEF Own
<1>2. CASE Answer(c, "refused")
  BY <1>1, <1>2, Answered DEF Under
<1>3. CASE Goto(c, step)
  <2>1. call' = [call EXCEPT ![c] = m]
    BY <1>3 DEF Goto
  <2>2. Formed(k) /\ OnItsWay(k) /\ RowHolds(k, rows) /\ CreateHolds(k)
        /\ UpsertHolds(k, rows) /\ UpdateHolds(k, rows)
    BY <1>1, UnderWay DEF Under
  <2>3. /\ Formed(m) /\ m.at = step /\ m.answer = k.answer /\ m.via = k.via /\ m.op = k.op
        /\ m.id = k.id /\ m.row = k.row /\ m.before = k.before /\ m.wrote = k.wrote /\ m.moved = k.moved
    BY <2>2 DEF Formed
  <2>4. k.op \in {"create", "update", "delete"} /\ ~k.wrote
    BY <1>1, <2>2 DEF OnItsWay
  <2> HIDE DEF m
  <2>5. OnItsWay(m) /\ RowHolds(m, rows) /\ CreateHolds(m) /\ UpdateHolds(m, rows)
    BY <1>1, <2>2, <2>3, <2>4 DEF OnItsWay, RowHolds, CreateHolds, UpdateHolds, Under
  <2>6. CallHolds(m, rows) /\ StaleHolds(m, rows) /\ ~Takes(m, rows)
    BY <2>3, <2>4, <2>5 DEF CallHolds, UpsertHolds, StaleHolds, Takes
  <2> QED  BY <1>1, <2>1, <2>6, QuietMove
<1> QED  BY <1>2, <1>3 DEF Own

\* The look for the row of an identity finds it, or the identity is not stored.
LEMMA ResolveStep ==
  ASSUME StoreInv, NEW c \in Caller, Resolve(c)
  PROVE  StoreInv'
<1> DEFINE k == call[c]
           holders == {i \in DOMAIN rows : Identity(rows[i]) = Identity(k.row)}
           id == IF holders = {} THEN 0 ELSE CHOOSE i \in holders : TRUE
           m == [k EXCEPT !.at = "check", !.id = id]
<1>1. k.at = "lookup" /\ UNCHANGED <<rows, next>> /\ call' = [call EXCEPT ![c] = m]
  BY DEF Resolve
<1>2. Formed(k) /\ OnItsWay(k) /\ RowHolds(k, rows) /\ CreateHolds(k)
      /\ UpsertHolds(k, rows) /\ UpdateHolds(k, rows)
  BY <1>1, UnderWay DEF Under
<1>3. k.op = "upsert" /\ ~k.wrote
  BY <1>1, <1>2 DEF OnItsWay
<1>4. id \in holders \/ (holders = {} /\ id = 0)
  OBVIOUS
<1>5. holders = {} => Identity(k.row) \notin IdentitiesIn(rows)
  BY DEF IdentitiesIn
<1> HIDE DEF id
<1>6. /\ Formed(m) /\ m.at = "check" /\ m.answer = k.answer /\ m.via = k.via /\ m.op = k.op
      /\ m.id = id /\ m.row = k.row /\ m.before = k.before /\ m.wrote = k.wrote /\ m.moved = k.moved
  BY <1>2 DEF Formed
<1> HIDE DEF m
<1>7. Met(m, rows) \/ (New(m) /\ m.id = 0)
  BY <1>2, <1>3, <1>4, <1>5, <1>6 DEF Met, New, UpsertHolds
<1>8. OnItsWay(m) /\ RowHolds(m, rows) /\ CreateHolds(m) /\ UpdateHolds(m, rows)
  BY <1>2, <1>3, <1>6 DEF OnItsWay, RowHolds, CreateHolds, UpdateHolds, Under
<1>9. UpsertHolds(m, rows)
  BY <1>2, <1>6, <1>7 DEF UpsertHolds
<1>10. CallHolds(m, rows) /\ StaleHolds(m, rows) /\ ~Takes(m, rows)
  BY <1>6, <1>8, <1>9 DEF CallHolds, StaleHolds, Takes
<1> QED  BY <1>1, <1>10, QuietMove

\* The parents are read; a new record takes the next id.
LEMMA CheckStep ==
  ASSUME StoreInv, NEW c \in Caller, Check(c)
  PROVE  StoreInv'
<1> DEFINE k == call[c]
           id == IF k.id = 0 THEN next ELSE k.id
           row == IF k.op = "update" THEN CarryTombstone(k.row, id) ELSE k.row
           at == IF k.op = "update" THEN "update" ELSE "insert"
           m == [k EXCEPT !.at = at, !.id = id, !.row = row]
<1>1. k.at = "check" /\ UNCHANGED rows /\ next' = IF k.id = 0 THEN next + 1 ELSE next
  BY DEF Check
<1>2. k # Idle /\ Formed(k) /\ OnItsWay(k) /\ RowHolds(k, rows) /\ CreateHolds(k)
      /\ UpsertHolds(k, rows) /\ UpdateHolds(k, rows)
  BY <1>1, UnderWay DEF Under
<1>3. k.op \in {"create", "upsert", "update"} /\ ~k.wrote
  BY <1>1, <1>2 DEF OnItsWay
<1>4. next \in Nat /\ 0 < next /\ 0 \notin DOMAIN rows
  BY DEF StoreInv, FreshIds
<1>5. ASSUME NEW n, call' = [call EXCEPT ![c] = n], CallHolds(n, rows), StaleHolds(n, rows),
             Takes(n, rows) => n.id = next /\ k.id = 0
      PROVE  StoreInv'
  <2>1. CallsKnown' /\ call'[c] = n /\ \A d \in Caller \ {c} : call'[d] = call[d]
    BY <1>5 DEF StoreInv, CallsKnown
  <2>2. OthersNote(c, {}, {})
    BY <2>1 DEF OthersNote
  <2>3. IdsMove(c)
    BY <1>1, <1>4, <1>5, <2>1 DEF IdsMove
  <2>4. CallHolds(call'[c], rows') /\ StaleHolds(call'[c], rows')
    BY <1>1, <1>5, <2>1
  <2> QED  BY <1>1, <2>1, <2>2, <2>3, <2>4, TableKept, CallMoves
<1>6. CASE ~ParentsValid(k.row, id)
  <2> DEFINE n == [k EXCEPT !.at = "done", !.answer = "refused"]
  <2>1. call' = [call EXCEPT ![c] = n]
    BY <1>6 DEF Check, Answer
  <2>2. /\ Formed(n) /\ n.at = "done" /\ n.answer = "refused" /\ n.via = k.via /\ n.op = k.op
        /\ n.id = k.id /\ n.row = k.row /\ n.before = k.before /\ n.wrote = k.wrote /\ n.moved = k.moved
    BY <1>2 DEF Formed
  <2> HIDE DEF n
  <2>3. CallHolds(n, rows) /\ StaleHolds(n, rows) /\ ~Takes(n, rows)
    BY <1>2, <1>3, <2>2
    DEF CallHolds, OnItsWay, RowHolds, CreateHolds, UpsertHolds, UpdateHolds, Under, StaleHolds, Takes
  <2> QED  BY <1>5, <2>1, <2>3
<1>7. CASE ParentsValid(k.row, id)
  <2>1. call' = [call EXCEPT ![c] = m]
    BY <1>7 DEF Check
  <2>2. Shaped(k.row)
    BY <1>2 DEF RowHolds
  <2>3. HangsRight(k.row, rows) /\ (k.row.above # 0 => k.row.above # id)
    BY <1>7, <2>2, ValidHangsRight
  <2>4. LET e == CarryTombstone(k.row, id)
        IN  HangsRight(e, rows) /\ e.above = k.row.above /\ e.owner = k.row.owner
            /\ e.remote = k.row.remote /\ e.deleted = rows[id].deleted
    BY <2>2, <2>3 DEF HangsRight, Shaped, CarryTombstone
  <2>5. /\ HangsRight(row, rows) /\ (row.above # 0 => row.above # id)
        /\ row.owner = k.row.owner /\ row.remote = k.row.remote
        /\ k.op # "update" => row = k.row
        /\ k.op = "update" => row.deleted = rows[id].deleted
    BY <2>3, <2>4
  <2>6. k.op = "update" => id = k.id /\ id \in DOMAIN rows
    BY <1>2, <1>4 DEF UpdateHolds
  <2>7. at = (IF k.op = "update" THEN "update" ELSE "insert")
    OBVIOUS
  <2>8. (k.id = 0 /\ id = next) \/ (k.id # 0 /\ id = k.id)
    OBVIOUS
  <2> HIDE DEF row, id, at
  <2>9. /\ Formed(m) /\ m.at = at /\ m.answer = k.answer /\ m.via = k.via /\ m.op = k.op
        /\ m.id = id /\ m.row = row /\ m.before = k.before /\ m.wrote = k.wrote /\ m.moved = k.moved
    BY <1>2 DEF Formed
  <2> HIDE DEF m
  <2>10. OnItsWay(m)
    BY <1>2, <1>3, <2>7, <2>9 DEF OnItsWay, Under
  <2>11. RowHolds(m, rows)
    BY <1>2, <2>5, <2>7, <2>9 DEF RowHolds, HangsRight
  <2>12. CreateHolds(m)
    BY <1>2, <2>5, <2>7, <2>9 DEF CreateHolds
  <2>13. UpdateHolds(m, rows)
    BY <1>2, <2>5, <2>6, <2>9 DEF UpdateHolds
  <2>14. k.op = "upsert" => Met(m, rows) \/ (New(m) /\ k.id = 0)
    BY <1>1, <1>2, <1>4, <2>5, <2>8, <2>9 DEF UpsertHolds, Met, New
  <2>15. UpsertHolds(m, rows)
    BY <1>2, <2>5, <2>7, <2>9, <2>14 DEF UpsertHolds
  <2>16. CallHolds(m, rows)
    BY <2>9, <2>10, <2>11, <2>12, <2>13, <2>15 DEF CallHolds
  <2>17. StaleHolds(m, rows)
    BY <1>3, <2>5, <2>6, <2>7, <2>9 DEF StaleHolds
  <2>18. Takes(m, rows) => m.id = next /\ k.id = 0
    BY <1>1, <1>2, <1>3, <2>7, <2>8, <2>9, <2>14 DEF Takes, CreateHolds
  <2> QED  BY <1>5, <2>1, <2>16, <2>17, <2>18
<1> QED  BY <1>6, <1>7

\* The local provider's second look finds what it stored under its own rows.
LEMMA VerifyAgrees ==
  ASSUME StoreInv, NEW c \in Caller, call[c].at = "verify"
  PROVE  OwnedPlace(rows[call[c].id], call[c].id)
<1> DEFINE i == call[c].id
<1>1. i \in DOMAIN rows /\ rows[i].owner = Local
  BY UnderWay DEF Under, RowHolds
<1> HIDE DEF i
<1>2. HangsRight(rows[i], rows) /\ (rows[i].above # 0 => rows[i].above # i)
  BY <1>1 DEF StoreInv, TableHolds
<1>3. ASSUME NEW j, Holds(rows, j, "list", Local)  PROVE OwnedList(j)
  <2>1. HangsRight(rows[j], rows)
    BY <1>3 DEF StoreInv, TableHolds, Holds
  <2> QED  BY <1>3, <2>1 DEF HangsRight, Holds, OwnedList, OwnedSpace, Stored
<1>4. ASSUME NEW j, Holds(rows, j, "task", Local)  PROVE OwnedParent(j)
  <2>1. HangsRight(rows[j], rows)
    BY <1>4 DEF StoreInv, TableHolds, Holds
  <2> QED  BY <1>3, <1>4, <2>1 DEF HangsRight, Holds, OwnedParent, Stored
<1>5. CASE rows[i].kind = "space"
  BY <1>5 DEF OwnedPlace, i
<1>6. CASE rows[i].kind = "list"
  <2>1. OwnedSpace(rows[i].up)
    BY <1>1, <1>2, <1>6 DEF HangsRight, Holds, OwnedSpace, Stored
  <2> QED  BY <1>6, <2>1 DEF OwnedPlace, i
<1>7. CASE rows[i].kind = "task"
  <2>1. OwnedList(rows[i].up)
    BY <1>1, <1>2, <1>3, <1>7 DEF HangsRight
  <2>2. ParentOwned(i, rows[i].above)
    BY <1>1, <1>2, <1>4 DEF HangsRight, ParentOwned
  <2> QED  BY <1>7, <2>1, <2>2 DEF OwnedPlace, i
<1> QED  BY <1>2, <1>5, <1>6, <1>7 DEF HangsRight, Shaped

\* The steps that write nothing.
LEMMA ReadingStep ==
  ASSUME StoreInv, NEW c \in Caller, Own(c) \/ Resolve(c) \/ Check(c) \/ Verify(c)
  PROVE  StoreInv'
<1>1. CASE Verify(c)
  <2> DEFINE k == call[c]
  <2>1. k.at = "verify" /\ UNCHANGED <<rows, next>> /\ OwnedPlace(rows[k.id], k.id)
    BY <1>1, VerifyAgrees DEF Verify
  <2>2. rows[k.id].up = k.row.up \/ k.id \in k.moved
    BY <2>1, UnderWay DEF Under, StaleHolds
  <2>3. CASE rows[k.id].up = k.row.up
    <3>1. Answer(c, "ok")
      BY <1>1, <2>1, <2>3 DEF Verify
    <3> QED  BY <2>1, <3>1, Answered DEF Under
  <2>4. CASE rows[k.id].up # k.row.up
    <3>1. Answer(c, "refused")
      BY <1>1, <2>4 DEF Verify
    <3> QED  BY <2>1, <2>2, <2>4, <3>1, Answered DEF Under
  <2> QED  BY <2>3, <2>4
<1> QED  BY <1>1, OwnStep, ResolveStep, CheckStep

------------------------------------------------------------------------------
\* What a row replaced by e with a tombstone, or in another place, leaves the
\* others to note.
Gone(id, e) == IF Matches(e, id) /\ e.deleted /\ ~rows[id].deleted THEN {id} ELSE {}
Moves(id, e) == IF Matches(e, id) /\ e.up # rows[id].up THEN {id} ELSE {}

\* A row put where none was, or over a row of its identity, lets the others last.
LEMMA PutGrows ==
  ASSUME StoreInv, NEW id, NEW e, Put(id, e), KeysHold(e, id),
         HangsRight(e, rows), e.above # 0 => e.above # id,
         e.owner = Local => e.remote = NoRemote,
         id \in DOMAIN rows => Identity(rows[id]) = Identity(e)
  PROVE  TableGrows(Gone(id, e), Moves(id, e))
<1>1. /\ DOMAIN rows' = DOMAIN rows \cup {id} /\ rows'[id] = e
      /\ \A i \in DOMAIN rows \ {id} : rows'[i] = rows[i]
      /\ rows' = [i \in DOMAIN rows' |-> rows'[i]]
  BY DEF Put
<1>2. Lasts(rows, rows')
  BY <1>1 DEF Lasts
<1>3. ASSUME NEW i \in DOMAIN rows'
      PROVE  /\ HangsRight(rows'[i], rows')
             /\ rows'[i].above # 0 => rows'[i].above # i
             /\ rows'[i].owner = Local => rows'[i].remote = NoRemote
  <2>1. CASE i = id
    BY <1>1, <1>2, <2>1, HangsOn
  <2>2. CASE i # id
    BY <1>1, <1>2, <2>2, HangsOn DEF StoreInv, TableHolds
  <2> QED  BY <2>1, <2>2
<1>4. ASSUME NEW i \in DOMAIN rows', NEW j \in DOMAIN rows',
             Identity(rows'[i]) = Identity(rows'[j]), rows'[i].remote # NoRemote
      PROVE  i = j
  <2>1. rows'[j].remote # NoRemote
    BY <1>4, IdentityTells
  <2>2. CASE i # id /\ j # id
    BY <1>1, <1>4, <2>2 DEF StoreInv, TableHolds
  <2>3. CASE i = id \/ j = id
    BY <1>1, <1>4, <2>1, <2>3 DEF KeysHold
  <2> QED  BY <2>2, <2>3
<1>5. ASSUME NEW i \in DOMAIN rows, ~rows[i].deleted, rows'[i].deleted  PROVE i \in Gone(id, e)
  <2>1. i = id /\ e.deleted
    BY <1>1, <1>5
  <2>2. Matches(e, id)
    BY <1>5, <2>1, IdentityTells DEF Matches
  <2> QED  BY <1>5, <2>1, <2>2 DEF Gone
<1>6. ASSUME NEW i \in DOMAIN rows, rows'[i].up # rows[i].up  PROVE i \in Moves(id, e)
  <2>1. i = id
    BY <1>1, <1>6
  <2>2. Matches(e, id)
    BY <1>6, <2>1, IdentityTells DEF Matches
  <2> QED  BY <1>1, <1>6, <2>1, <2>2 DEF Moves
<1> QED  BY <1>1, <1>2, <1>3, <1>4, <1>5, <1>6 DEF TableGrows, TableHolds

\* A call about to write puts a new row, or one over a row of its identity.
LEMMA PutsItsOwn ==
  ASSUME StoreInv, NEW c \in Caller, call[c].at \in {"insert", "fallback", "update"},
         call[c].id \notin DOMAIN rows \/ Matches(call[c].row, call[c].id)
  PROVE  /\ call[c].id \in DOMAIN rows => Identity(rows[call[c].id]) = Identity(call[c].row)
         /\ call[c].id \notin DOMAIN rows => Takes(call[c], rows)
         /\ call[c].row.owner = Local => call[c].row.remote = NoRemote
<1> DEFINE k == call[c]
<1>1. k # Idle /\ OnItsWay(k) /\ CreateHolds(k) /\ UpsertHolds(k, rows) /\ UpdateHolds(k, rows)
  BY UnderWay DEF Under
<1>2. Takes(k, rows) => k.id \notin DOMAIN rows
  BY DEF StoreInv, FreshIds
<1>3. \A i \in DOMAIN rows : rows[i].owner = Local => rows[i].remote = NoRemote
  BY DEF StoreInv, TableHolds
<1> HIDE DEF k
<1>4. CASE k.op = "create"
  <2>1. Takes(k, rows)
    BY <1>1, <1>4 DEF Takes, OnItsWay, k
  <2> QED  BY <1>1, <1>2, <1>4, <2>1 DEF CreateHolds, k
<1>5. CASE k.op = "upsert"
  <2>1. k.at \in {"insert", "fallback"}
    BY <1>1, <1>5 DEF OnItsWay, k
  <2>2. Met(k, rows) \/ Takes(k, rows)
    BY <1>1, <2>1 DEF Takes
  <2> QED  BY <1>1, <1>2, <1>5, <2>1, <2>2 DEF UpsertHolds, Met, Takes, k
<1>6. CASE k.op = "update"
  <2>1. k.id \in DOMAIN rows
    BY <1>1, <1>6 DEF UpdateHolds
  <2>2. rows[k.id].owner = k.row.owner /\ rows[k.id].kind = k.row.kind
    BY <2>1 DEF Matches, k
  <2>3. rows[k.id].remote = k.row.remote
    BY <1>1, <1>3, <1>6, <2>1, <2>2 DEF UpdateHolds
  <2> QED  BY <1>3, <2>1, <2>2, <2>3 DEF Identity, k
<1> QED  BY <1>1, <1>4, <1>5, <1>6 DEF OnItsWay, k

\* A call writes its row.
LEMMA PutStep ==
  ASSUME StoreInv, NEW c \in Caller, call[c].at \in {"insert", "fallback", "update"},
         call[c].id \notin DOMAIN rows \/ Matches(call[c].row, call[c].id),
         KeysHold(call[c].row, call[c].id),
         Put(call[c].id, call[c].row), Wrote(c), UNCHANGED next
  PROVE  StoreInv'
<1> DEFINE k == call[c]
           gone == Gone(k.id, k.row)
           moves == Moves(k.id, k.row)
           at == IF k.via = "local" THEN "verify" ELSE "done"
           m == [k EXCEPT !.at = at, !.answer = "ok", !.wrote = TRUE]
<1>1. Formed(k) /\ OnItsWay(k) /\ RowHolds(k, rows) /\ CreateHolds(k)
      /\ UpsertHolds(k, rows) /\ UpdateHolds(k, rows)
  BY UnderWay DEF Under
<1>2. /\ k.id \in DOMAIN rows => Identity(rows[k.id]) = Identity(k.row)
      /\ k.id \notin DOMAIN rows => Takes(k, rows)
      /\ k.row.owner = Local => k.row.remote = NoRemote
  BY PutsItsOwn
<1>3. TableGrows(gone, moves)
  BY <1>1, <1>2, PutGrows DEF RowHolds
<1>4. call' = [d \in Caller |-> IF d = c THEN m ELSE Noted(d, gone, moves)]
  BY DEF Wrote, Gone, Moves
<1>5. CallsKnown' /\ call'[c] = m /\ OthersNote(c, gone, moves)
  <2> HIDE DEF m, gone, moves
  <2> QED  BY <1>4 DEF CallsKnown, OthersNote
<1>6. DOMAIN rows' = DOMAIN rows \cup {k.id} /\ rows'[k.id] = k.row
  BY DEF Put
<1>7. at = (IF k.via = "local" THEN "verify" ELSE "done")
  OBVIOUS
<1> HIDE DEF gone, moves, at
<1>8. /\ Formed(m) /\ m.at = at /\ m.answer = "ok" /\ m.via = k.via /\ m.op = k.op
      /\ m.id = k.id /\ m.row = k.row /\ m.before = k.before
  BY <1>1 DEF Formed
<1> HIDE DEF m
<1>9. IdsMove(c)
  BY <1>2, <1>5, <1>6, <1>7, <1>8 DEF IdsMove, Takes, StoreInv, FreshIds
<1>10. OnItsWay(m)
  BY <1>1, <1>7, <1>8 DEF OnItsWay, Under
<1>11. RowHolds(m, rows')
  BY <1>1, <1>6, <1>7, <1>8 DEF RowHolds
<1>12. CreateHolds(m)
  BY <1>1, <1>7, <1>8 DEF CreateHolds
<1>13. k.before \subseteq IdentitiesIn(rows) => k.before \subseteq IdentitiesIn(rows')
  BY <1>3, IdentitiesLast DEF TableGrows
<1>14. UpsertHolds(m, rows')
  BY <1>1, <1>7, <1>8, <1>13 DEF UpsertHolds
<1>15. UpdateHolds(m, rows')
  BY <1>1, <1>6, <1>8 DEF UpdateHolds
<1>16. CallHolds(m, rows') /\ StaleHolds(m, rows')
  BY <1>6, <1>7, <1>8, <1>10, <1>11, <1>12, <1>14, <1>15 DEF CallHolds, StaleHolds
<1> QED  BY <1>3, <1>5, <1>9, <1>16, CallMoves

\* A rewrite of the row the call names; an upsert fails to only against a rival.
LEMMA RewriteStep ==
  ASSUME StoreInv, NEW c \in Caller, call[c].at \in {"insert", "fallback", "update"},
         Rewrite(c, call[c]), UNCHANGED next,
         call[c].op = "upsert" /\ ~Met(call[c], rows) =>
           New(call[c]) /\ Identity(call[c].row) \in IdentitiesIn(rows)
  PROVE  StoreInv'
<1> DEFINE k == call[c]
<1>1. CASE Matches(k.row, k.id) /\ KeysHold(k.row, k.id)
  BY <1>1, PutStep DEF Rewrite
<1>2. CASE ~(Matches(k.row, k.id) /\ KeysHold(k.row, k.id))
  <2>1. PICK result \in {"lost", "exists"} : Answer(c, result) /\ UNCHANGED <<rows, next>>
    BY <1>2 DEF Rewrite
  <2>2. k.op = "upsert" => k.at \in {"insert", "fallback"}
    BY UnderWay DEF Under, OnItsWay
  <2>3. k.op = "upsert" => New(k) /\ Identity(k.row) \in IdentitiesIn(rows)
    BY <1>2, <2>2, MetWrites
  <2> QED  BY <2>1, <2>3, Answered DEF Under
<1> QED  BY <1>1, <1>2

\* The steps that store a row.
LEMMA WritingStep ==
  ASSUME StoreInv, NEW c \in Caller,
         Insert(c) \/ FallBack(c) \/ InsertTask(c) \/ Update(c)
  PROVE  StoreInv'
<1> DEFINE k == call[c]
           free == k.id \notin DOMAIN rows /\ KeysHold(k.row, k.id)
<1>1. k.at \in {"insert", "fallback", "update"} /\ UNCHANGED next
  BY DEF Insert, FallBack, InsertTask, Update
<1>2. k # Idle /\ Formed(k) /\ OnItsWay(k) /\ RowHolds(k, rows) /\ CreateHolds(k)
      /\ UpsertHolds(k, rows) /\ UpdateHolds(k, rows)
  BY <1>1, UnderWay DEF Under
<1>3. CASE FallBack(c) \/ Update(c)
  <2>1. Rewrite(c, k) /\ (k.at = "fallback" \/ k.at = "update")
    BY <1>3 DEF FallBack, Update
  <2>2. k.op = "upsert" /\ ~Met(k, rows) => New(k) /\ Identity(k.row) \in IdentitiesIn(rows)
    BY <1>2, <2>1 DEF UpsertHolds, OnItsWay
  <2> QED  BY <1>1, <2>1, <2>2, RewriteStep
<1>4. ASSUME k.at = "insert", free, Put(k.id, k.row), Wrote(c)  PROVE StoreInv'
  BY <1>1, <1>4, PutStep
<1>5. ASSUME k.at = "insert", k.op # "upsert", Answer(c, "exists"), UNCHANGED rows  PROVE StoreInv'
  BY <1>1, <1>5, Answered DEF Under
<1>6. k.at = "insert" /\ ~free /\ k.op = "upsert" /\ ~Met(k, rows)
        => New(k) /\ Identity(k.row) \in IdentitiesIn(rows)
  BY Rivalled
<1>7. CASE InsertTask(c)
  BY <1>1, <1>4, <1>5, <1>6, <1>7, RewriteStep DEF InsertTask
<1>8. CASE Insert(c)
  <2>1. CASE ~free /\ k.op = "upsert"
    <3> DEFINE m == [k EXCEPT !.at = "fallback"]
    <3>1. k.at = "insert" /\ call' = [call EXCEPT ![c] = m] /\ UNCHANGED rows
      BY <1>8, <2>1 DEF Insert, Goto
    <3>2. /\ Formed(m) /\ m.at = "fallback" /\ m.answer = k.answer /\ m.via = k.via /\ m.op = k.op
          /\ m.id = k.id /\ m.row = k.row /\ m.before = k.before /\ m.wrote = k.wrote /\ m.moved = k.moved
      BY <1>2 DEF Formed
    <3> HIDE DEF m
    <3>3. OnItsWay(m) /\ RowHolds(m, rows) /\ CreateHolds(m) /\ UpdateHolds(m, rows)
      BY <1>2, <2>1, <3>1, <3>2 DEF OnItsWay, RowHolds, CreateHolds, UpdateHolds, Under
    <3>4. (Met(m, rows) <=> Met(k, rows)) /\ (New(m) <=> New(k))
      BY <3>2 DEF Met, New
    <3>5. UpsertHolds(m, rows)
      BY <1>2, <1>6, <2>1, <3>1, <3>2, <3>4 DEF UpsertHolds
    <3>6. CallHolds(m, rows) /\ StaleHolds(m, rows)
      BY <3>2, <3>3, <3>5 DEF CallHolds, StaleHolds
    <3>7. Takes(m, rows) => Takes(k, rows) /\ m.id = k.id
      BY <1>2, <3>1, <3>2, <3>4 DEF Takes
    <3> QED  BY <1>1, <3>1, <3>6, <3>7, QuietMove
  <2>2. CASE free
    BY <1>4, <1>8, <2>2 DEF Insert
  <2>3. CASE ~free /\ k.op # "upsert"
    BY <1>5, <1>8, <2>3 DEF Insert
  <2> QED  BY <2>1, <2>2, <2>3
<1> QED  BY <1>3, <1>7, <1>8

\* A tombstone is set, and the calls under way remember it.
LEMMA DeleteStep ==
  ASSUME StoreInv, NEW c \in Caller, Delete(c)
  PROVE  StoreInv'
<1> DEFINE k == call[c]
           m == [k EXCEPT !.at = "done", !.answer = "ok", !.wrote = TRUE]
<1>1. rows' = [rows EXCEPT ![k.id].deleted = TRUE] /\ UNCHANGED next /\ k.at = "delete"
  BY DEF Delete
<1>2. DOMAIN rows' = DOMAIN rows /\ rows' = [i \in DOMAIN rows' |-> rows'[i]]
  BY <1>1 DEF StoreInv, TableHolds
<1>3. ASSUME NEW i \in DOMAIN rows
      PROVE  /\ HangsRight(rows'[i], rows) /\ rows'[i].above = rows[i].above
             /\ rows'[i].kind = rows[i].kind /\ rows'[i].owner = rows[i].owner
             /\ rows'[i].remote = rows[i].remote /\ rows'[i].up = rows[i].up
             /\ i # k.id => rows'[i] = rows[i]
  <2>1. HangsRight(rows[i], rows)
    BY DEF StoreInv, TableHolds
  <2>2. rows'[i] = rows[i] \/ rows'[i] = [rows[i] EXCEPT !.deleted = TRUE]
    BY <1>1 DEF StoreInv, TableHolds
  <2>3. i # k.id => rows'[i] = rows[i]
    BY <1>1 DEF StoreInv, TableHolds
  <2> QED  BY <2>1, <2>2, <2>3 DEF HangsRight, Shaped
<1>4. Lasts(rows, rows')
  BY <1>2, <1>3 DEF Lasts, Identity
<1>5. \A i \in DOMAIN rows' : HangsRight(rows'[i], rows')
  BY <1>2, <1>3, <1>4, HangsOn
<1>6. \A i, j \in DOMAIN rows' :
        Identity(rows'[i]) = Identity(rows'[j]) /\ rows'[i].remote # NoRemote => i = j
  BY <1>2, <1>3, <1>4 DEF StoreInv, TableHolds, Lasts
<1>7. TableGrows({k.id}, {})
  <2>1. TableHolds(rows')
    BY <1>2, <1>3, <1>5, <1>6 DEF StoreInv, TableHolds
  <2> QED  BY <1>3, <1>4, <2>1 DEF TableGrows
<1>8. call' = [d \in Caller |-> IF d = c THEN m ELSE Noted(d, {k.id}, {})]
  BY DEF Delete
<1>9. CallsKnown' /\ call'[c] = m /\ OthersNote(c, {k.id}, {})
  <2> HIDE DEF m
  <2> QED  BY <1>8 DEF CallsKnown, OthersNote
<1>10. CallHolds(k, rows') /\ Formed(k)
  BY <1>1, <1>4, CallHoldsOn, UnderWay DEF StoreInv, Under
<1>11. /\ Formed(m) /\ m.at = "done" /\ m.answer = "ok" /\ m.via = k.via /\ m.op = k.op
       /\ m.id = k.id /\ m.row = k.row /\ m.before = k.before
  BY <1>10 DEF Formed
<1>12. k # Idle
  BY <1>1 DEF Idle
<1> HIDE DEF m
<1>13. OnItsWay(m) /\ RowHolds(m, rows') /\ CreateHolds(m) /\ UpdateHolds(m, rows')
  BY <1>1, <1>10, <1>11, <1>12 DEF CallHolds, OnItsWay, RowHolds, CreateHolds, UpdateHolds, Under
<1>14. UpsertHolds(m, rows')
  BY <1>1, <1>10, <1>11, <1>12 DEF CallHolds, UpsertHolds
<1>15. CallHolds(m, rows') /\ StaleHolds(m, rows') /\ ~Takes(m, rows')
  BY <1>11, <1>13, <1>14 DEF CallHolds, StaleHolds, Takes
<1>16. IdsMove(c)
  BY <1>1, <1>2, <1>9, <1>15 DEF IdsMove, StoreInv, FreshIds
<1> QED  BY <1>7, <1>9, <1>15, <1>16, CallMoves

------------------------------------------------------------------------------
\* The invariant holds of the store.
LEMMA StoreKept == StoreSpec => []StoreInv
<1>1. StoreInit => StoreInv
  <2> SUFFICES ASSUME StoreInit PROVE StoreInv
    OBVIOUS
  <2>1. DOMAIN rows = {1, 2} /\ rows[1] = SpaceRow(Local, NoRemote)
        /\ rows[2] = ListRow(Local, NoRemote, 1)
    BY DEF StoreInit
  <2>2. Shaped(rows[1]) /\ rows[1].kind = "space" /\ rows[1].owner = Local
        /\ rows[1].remote = NoRemote /\ rows[1].also = {} /\ rows[1].above = 0
    BY <2>1, RowsAskedFor DEF SpaceRow
  <2>3. /\ Shaped(rows[2]) /\ rows[2].kind = "list" /\ rows[2].owner = Local
        /\ rows[2].remote = NoRemote /\ rows[2].up = 1 /\ rows[2].also = {} /\ rows[2].above = 0
    <3>1. Shaped(rows[2])
      BY <2>1, RowsAskedFor
    <3>2. rows[2].kind = "list" /\ rows[2].owner = Local /\ rows[2].remote = NoRemote /\ rows[2].up = 1
      BY <2>1 DEF ListRow, SpaceRow
    <3> QED  BY <3>1, <3>2 DEF Shaped
  <2>4. HangsRight(rows[1], rows) /\ HangsRight(rows[2], rows)
    BY <2>1, <2>2, <2>3 DEF HangsRight, Holds
  <2>5. rows = [i \in DOMAIN rows |-> rows[i]]
    BY DEF StoreInit
  <2>6. TableHolds(rows)
    BY <2>1, <2>2, <2>3, <2>4, <2>5 DEF TableHolds
  <2>7. CallsKnown /\ \A c \in Caller : call[c] = Idle
    BY DEF StoreInit, CallsKnown
  <2>8. FreshIds
    BY <2>1, <2>7 DEF StoreInit, FreshIds, Takes
  <2> QED  BY <2>6, <2>7, <2>8 DEF StoreInv, CallHolds, StaleHolds
<1>2. StoreInv /\ [StoreNext]_storeVars => StoreInv'
  <2>1. ASSUME StoreInv, UNCHANGED storeVars  PROVE StoreInv'
    BY <2>1 DEF storeVars, StoreInv, CallsKnown, FreshIds
  <2> QED  BY <2>1, CallersAsk, ReadingStep, WritingStep, DeleteStep DEF StoreNext
<1> QED  BY <1>1, <1>2, PTL DEF StoreSpec

\* Every row hangs under rows of its provider (validateListParent,
\* validateTaskParents, the foreign keys).
THEOREM OwnershipKept == StoreSpec => []OwnershipHolds
<1>1. StoreInv => OwnershipHolds
  BY DEF StoreInv, TableHolds, HangsRight, Shaped, Holds, OwnershipHolds, Stored
<1> QED  BY <1>1, StoreKept, PTL

\* An upsert fails only when somebody stored its entity since it began.
THEOREM RivalsOnly == StoreSpec => []OnlyRivalsLose
<1>1. StoreInv => OnlyRivalsLose
  <2> SUFFICES ASSUME StoreInv, NEW c \in Caller, call[c].at = "done", call[c].op = "upsert",
                      call[c].answer \in {"lost", "exists"}
               PROVE  Identity(call[c].row) \in Identities /\ Identity(call[c].row) \notin call[c].before
    BY DEF OnlyRivalsLose
  <2>1. UpsertHolds(call[c], rows)
    BY DEF StoreInv, CallHolds, Idle
  <2> QED  BY <2>1 DEF UpsertHolds, New, Identities, IdentitiesIn
<1> QED  BY <1>1, StoreKept, PTL

\* A call that answers with an error has changed no table, or another call has
\* moved its row since (provider/local compares what the store reads back).
THEOREM FailuresWereCrossed == StoreSpec => []FailedCallsWereCrossed
<1>1. StoreInv => FailedCallsWereCrossed
  <2> SUFFICES ASSUME StoreInv, NEW c \in Caller, call[c].at = "done", call[c].answer # "ok",
                      call[c].wrote
               PROVE  call[c].id \in call[c].moved
    BY DEF FailedCallsWereCrossed
  <2>1. OnItsWay(call[c])
    BY DEF StoreInv, CallHolds, Idle
  <2> QED  BY <2>1 DEF OnItsWay
<1> QED  BY <1>1, StoreKept, PTL

\* A deleted row comes back by an upsert, or by an update that was under way
\* when some write deleted it.
THEOREM RevivedByStale == StoreSpec => OnlyStaleUpdatesRevive
<1> DEFINE Revives ==
      \A i \in DOMAIN rows :
        rows[i].deleted /\ ~rows'[i].deleted =>
          \E c \in Caller :
            /\ call[c].at \in {"insert", "fallback", "update"}
            /\ call[c].id = i /\ call'[c].at # call[c].at
            /\ call[c].op = "upsert" \/ i \in call[c].during
<1>1. StoreInv /\ StoreNext => Revives
  <2> SUFFICES ASSUME StoreInv, NEW c \in Caller, NEW i \in DOMAIN rows,
                      rows[i].deleted, ~rows'[i].deleted,
                      \/ SpaceCall(c) \/ ListCall(c) \/ TaskCall(c)
                      \/ LocalSpaceCall(c) \/ LocalListCall(c) \/ LocalTaskCall(c)
                      \/ Own(c) \/ Resolve(c) \/ Check(c)
                      \/ Insert(c) \/ FallBack(c) \/ InsertTask(c) \/ Update(c) \/ Delete(c) \/ Verify(c)
               PROVE  /\ call[c].at \in {"insert", "fallback", "update"}
                      /\ call[c].id = i /\ call'[c].at # call[c].at
                      /\ call[c].op = "upsert" \/ i \in call[c].during
    BY DEF StoreNext
  <2> DEFINE k == call[c]
  <2>1. ~UNCHANGED rows
    OBVIOUS
  <2>2. ~Delete(c)
    <3> SUFFICES ASSUME Delete(c) PROVE FALSE
      OBVIOUS
    <3>1. rows'[i] = rows[i] \/ rows'[i] = [rows[i] EXCEPT !.deleted = TRUE]
      BY DEF Delete, StoreInv, TableHolds
    <3>2. Shaped(rows[i])
      BY DEF StoreInv, TableHolds, HangsRight
    <3> QED  BY <3>1, <3>2 DEF Shaped
  <2>3. Insert(c) \/ FallBack(c) \/ InsertTask(c) \/ Update(c)
    BY <2>1, <2>2 DEF SpaceCall, ListCall, TaskCall, LocalSpaceCall, LocalListCall, LocalTaskCall,
       Ask, Own, Resolve, Check, Verify
  <2>4. k.at \in {"insert", "fallback", "update"}
    BY <2>3 DEF Insert, FallBack, InsertTask, Update
  <2>5. Put(k.id, k.row) /\ Wrote(c)
    BY <2>1, <2>3 DEF Insert, FallBack, InsertTask, Update, Rewrite
  <2>6. i = k.id /\ ~k.row.deleted
    BY <2>5 DEF Put
  <2>7. call'[c].at # k.at
    <3> DEFINE at == IF k.via = "local" THEN "verify" ELSE "done"
               m == [k EXCEPT !.at = at, !.answer = "ok", !.wrote = TRUE]
    <3>1. call'[c] = m
      BY <2>5 DEF Wrote
    <3>2. Formed(k)
      BY <2>4, UnderWay DEF Under
    <3>3. m.at = at
      BY <3>2 DEF Formed
    <3> QED  BY <2>4, <3>1, <3>3
  <2>8. k # Idle /\ OnItsWay(k) /\ StaleHolds(k, rows)
    BY <2>4, UnderWay DEF Under
  <2>9. k.op = "create" => k.id \notin DOMAIN rows
    <3>1. k.op = "create" => Takes(k, rows)
      BY <2>4, <2>8 DEF Takes, OnItsWay
    <3> QED  BY <3>1 DEF StoreInv, FreshIds
  <2>10. k.op = "upsert" \/ k.at = "update"
    BY <2>4, <2>6, <2>8, <2>9 DEF OnItsWay
  <2>11. k.at = "update" => i \in k.during
    BY <2>6, <2>8 DEF StaleHolds
  <2> QED  BY <2>4, <2>6, <2>7, <2>10, <2>11
<1>2. StoreInv /\ [StoreNext]_storeVars => [Revives]_storeVars
  BY <1>1
<1> QED  BY <1>2, StoreKept, PTL DEF StoreSpec, OnlyStaleUpdatesRevive

------------------------------------------------------------------------------
(* HierarchyPull: the rows a pull stores, and those it tombstones.            *)

\* A row is there, or the user's.
Known(t) == cache.task[t].state # "unknown"

\* A parent that may be stored: none, or one that has a row.
Settled(p) == p = NoTask \/ (p \in Task /\ Known(p))

\* The parent of an item that was mapped has a row, or is in the listing and will
\* be waited for.
Waits(item, listed) == item.parent \in listed \/ Settled(item.parent)
AllWait(items, listed) == \A i \in DOMAIN items : Waits(items[i], listed)

TasksOf(items) == {items[i].task : i \in DOMAIN items}

\* Until a round has stored something, all it has put off waits for rows that are
\* not there; and what was listed and has no row is still to come.
RoundHolds ==
  /\ \A t \in pull.listed : Known(t) \/ t \in TasksOf(pull.batch) \cup TasksOf(pull.waiting)
  /\ ~pull.progress =>
       \A i \in DOMAIN pull.waiting :
         pull.waiting[i].parent \in pull.listed /\ ~Known(pull.waiting[i].parent)

PullInv ==
  /\ PullTypeOK
  /\ ParentsAreStored
  /\ \A t \in Task : cache.task[t].mine => Known(t)
  /\ \A t \in pull.missing : Known(t)
  /\ pull.at = "rows" =>
       AllWait(pull.batch, pull.listed) /\ AllWait(pull.waiting, pull.listed) /\ RoundHolds

\* The types of the three records.
RemoteType == [space : SUBSET Space, list : [List -> Space \cup {Nowhere}],
               task : [Task -> [list : List \cup {Nowhere}, parent : Task \cup {NoTask}]]]
RowType == [state : State, list : List, parent : Task \cup {NoTask}, mine : BOOLEAN]
CacheType == [space : [Space -> State], list : [List -> [state : State, space : Space]],
              task : [Task -> RowType]]
PullType == [at : {"idle", "spaces", "lists", "pages", "rows", "missing", "failed"},
             scope : {"all", "lists", "tasks"}, spaces : SUBSET Space, space : Space,
             lists : SUBSET List, list : List, seenSpaces : SUBSET Space, seenLists : SUBSET List,
             page : Nat, batch : Seq(Item), waiting : Seq(Item), progress : BOOLEAN,
             listed : SUBSET Task, seen : SUBSET Task, missing : SUBSET Task]
CountType == changes \in 0..MaxRemote /\ edits \in 0..MaxEdits /\ faults \in 0..MaxFaults

LEMMA PullTypes ==
  PullTypeOK <=> remote \in RemoteType /\ cache \in CacheType /\ pull \in PullType /\ CountType
  BY DEF PullTypeOK, RemoteType, RowType, CacheType, PullType, CountType

\* The same of the step that follows.
LEMMA PullTypesNext ==
  PullTypeOK' <=> remote' \in RemoteType /\ cache' \in CacheType /\ pull' \in PullType /\ CountType'
  BY DEF PullTypeOK, RemoteType, RowType, CacheType, PullType, CountType

LEMMA NoPullType == NoPull \in PullType /\ NoPull.at = "idle" /\ NoPull.missing = {}
<1>1. NoSpace \in Space /\ NoList \in List
  BY PullAssumption DEF NoSpace, NoList
<1> QED  BY <1>1 DEF NoPull, PullType

\* A pull that has begun with NoPull, or has ended.
LEMMA PullEnds ==
  ASSUME NEW p, p = NoPull \/ p = [NoPull EXCEPT !.at = "failed"]
  PROVE  p \in PullType /\ p.at # "rows" /\ p.missing = {}
  BY NoPullType DEF PullType

------------------------------------------------------------------------------
\* Rows stay, and so do their parents.
RowsStay ==
  /\ cache' \in CacheType
  /\ ParentsAreStored'
  /\ \A t \in Task : (Known(t) => Known(t)') /\ (cache'.task[t].mine => Known(t)')

\* A step in which rows stay keeps the invariant, if all the pull has mapped waits
\* for a listed parent or for none.
LEMMA PullMoves ==
  ASSUME PullInv, RowsStay, remote' \in RemoteType, pull' \in PullType, CountType',
         \A t \in pull'.missing : Known(t),
         pull'.at = "rows" =>
           AllWait(pull'.batch, pull'.listed) /\ AllWait(pull'.waiting, pull'.listed) /\ RoundHolds'
  PROVE  PullInv'
<1>1. PullTypeOK'
  BY PullTypesNext DEF RowsStay
<1>2. \A t \in pull'.missing : cache'.task[t].state # "unknown"
  BY DEF RowsStay, Known, PullType
<1>3. ASSUME pull'.at = "rows"  PROVE AllWait(pull.batch, pull.listed)'
  BY <1>3 DEF RowsStay, AllWait, Waits, Settled, Known
<1>4. ASSUME pull'.at = "rows"  PROVE AllWait(pull.waiting, pull.listed)'
  BY <1>4 DEF RowsStay, AllWait, Waits, Settled, Known
<1> QED  BY <1>1, <1>2, <1>3, <1>4 DEF PullInv, RowsStay, Known

\* What PullInv says of the types.
LEMMA PullParts ==
  ASSUME PullInv
  PROVE  remote \in RemoteType /\ cache \in CacheType /\ pull \in PullType /\ CountType
  BY PullTypes DEF PullInv

\* A cache whose tasks nobody writes.
LEMMA TasksKept ==
  ASSUME PullInv, cache' \in CacheType, cache'.task = cache.task
  PROVE  RowsStay
  BY DEF PullInv, RowsStay, Known, ParentsAreStored

\* A step in which the pull stays, and rows come from nowhere.
LEMMA PullStays ==
  ASSUME PullInv, RowsStay, remote' \in RemoteType, pull' = pull, CountType',
         \A t \in Task : cache'.task[t].state # "unknown" => Known(t)
  PROVE  PullInv'
<1>1. pull \in PullType
  BY PullParts
<1>2. ASSUME pull.at = "rows"  PROVE RoundHolds'
  <2>1. RoundHolds
    BY <1>2 DEF PullInv
  <2>2. \A t \in pull.listed : Known(t) => cache'.task[t].state # "unknown"
    BY <1>1 DEF RowsStay, PullType, Known
  <2>3. \A t \in pull.listed : cache'.task[t].state # "unknown" => Known(t)
    BY <1>1 DEF PullType
  <2> QED  BY <2>1, <2>2, <2>3 DEF RoundHolds, Known
<1> QED  BY <1>1, <1>2, PullMoves DEF PullInv

\* What others do leaves the cache and the pull alone.
LEMMA OthersStep ==
  ASSUME PullInv, Others
  PROVE  PullInv'
<1>1. ASSUME NEW there \in RemoteType, Elsewhere(there)  PROVE PullInv'
  <2>1. CountType'
    BY <1>1, PullParts, PullAssumption DEF Elsewhere, CountType
  <2> QED  BY <1>1, <2>1, PullParts, TasksKept, PullStays DEF Elsewhere, Known
<1>2. remote \in RemoteType
  BY PullParts
<1>3. ASSUME NEW s \in Space, MoveSpace(s)  PROVE PullInv'
  <2> DEFINE there == [remote EXCEPT !.space = IF s \in @ THEN @ \ {s} ELSE @ \cup {s}]
  <2>1. there \in RemoteType
    BY <1>2 DEF RemoteType
  <2> QED  BY <1>1, <1>3, <2>1 DEF MoveSpace
<1>4. ASSUME NEW l \in List, NEW s \in Space \cup {Nowhere}, MoveList(l, s)  PROVE PullInv'
  <2> DEFINE there == [remote EXCEPT !.list[l] = s]
  <2>1. there \in RemoteType
    BY <1>2 DEF RemoteType
  <2> QED  BY <1>1, <1>4, <2>1 DEF MoveList
<1>5. ASSUME NEW t \in Task, NEW l \in List, MoveTask(t, l)  PROVE PullInv'
  <2> DEFINE there == [remote EXCEPT !.task[t].list = l]
  <2>1. there \in RemoteType
    BY <1>2 DEF RemoteType
  <2> QED  BY <1>1, <1>5, <2>1 DEF MoveTask
<1>6. ASSUME NEW t \in Task, DeleteTask(t)  PROVE PullInv'
  <2> DEFINE there == [remote EXCEPT !.task[t] = [list |-> Nowhere, parent |-> NoTask]]
  <2>1. there \in RemoteType
    BY <1>2 DEF RemoteType
  <2> QED  BY <1>1, <1>6, <2>1 DEF DeleteTask
<1>7. ASSUME NEW t \in Task, NEW p \in Task \cup {NoTask}, Reparent(t, p)  PROVE PullInv'
  <2> DEFINE there == [remote EXCEPT !.task[t].parent = p]
  <2>1. there \in RemoteType
    BY <1>2 DEF RemoteType
  <2> QED  BY <1>1, <1>7, <2>1 DEF Reparent
<1> QED  BY <1>3, <1>4, <1>5, <1>6, <1>7 DEF Others

\* A parent resolved in the cache has a row, or is none.
LEMMA KnownParentSettled ==
  ASSUME NEW p \in Task \cup {NoTask}
  PROVE  KnownParent(p) \in Task \cup {NoTask} /\ Settled(KnownParent(p))
  BY DEF KnownParent, Settled, Known

\* One row is written, over a known one or for a settled parent.
LEMMA RowWritten ==
  ASSUME PullInv, NEW t \in Task, NEW row \in RowType, row.state # "unknown",
         cache' = [cache EXCEPT !.task[t] = row],
         row.mine => Known(t), Settled(row.parent) \/ (Known(t) /\ row.parent = cache.task[t].parent)
  PROVE  RowsStay /\ Known(t)'
<1>1. cache \in CacheType
  BY PullParts
<1>2. cache' \in CacheType /\ cache'.task = [cache.task EXCEPT ![t] = row]
  BY <1>1 DEF CacheType
<1>3. \A u \in Task : cache'.task[u] = IF u = t THEN row ELSE cache.task[u]
  BY <1>1, <1>2 DEF CacheType
<1>4. (\A u \in Task : Known(u) => Known(u)') /\ Known(t)'
  BY <1>3 DEF Known
<1>6. \A u \in Task : cache'.task[u].mine => Known(u)'
  BY <1>3, <1>4 DEF PullInv, Known
<1>7. ASSUME NEW u \in Task, Known(u)'  PROVE
          \/ cache'.task[u].parent = NoTask
          \/ cache'.task[cache'.task[u].parent].state # "unknown"
  <2>1. CASE cache'.task[u].parent = row.parent /\ Settled(row.parent)
    <3>1. row.parent \in Task \cup {NoTask}
      BY DEF RowType
    <3> QED  BY <1>4, <2>1, <3>1 DEF Settled, Known
  <2>2. CASE Known(u) /\ cache'.task[u].parent = cache.task[u].parent
    <3>1. cache.task[u].parent \in Task \cup {NoTask}
      BY <1>1 DEF CacheType, RowType
    <3>2. Settled(cache.task[u].parent)
      BY <2>2, <3>1 DEF PullInv, ParentsAreStored, Known, Settled
    <3> QED  BY <1>4, <2>2, <3>1, <3>2 DEF Settled, Known
  <2> QED  BY <1>3, <1>7, <2>1, <2>2 DEF Known
<1>8. ParentsAreStored'
  BY <1>7 DEF ParentsAreStored, Known
<1> QED  BY <1>2, <1>4, <1>6, <1>8 DEF RowsStay

\* The user edits a task, and the edit is pushed.
LEMMA EditStep ==
  ASSUME PullInv, NEW t \in Task, EditTask(t)
  PROVE  PullInv'
<1>1. cache \in CacheType /\ CountType' /\ remote' \in RemoteType /\ pull' = pull /\ pull \in PullType
  BY PullParts, PullAssumption DEF EditTask, CountType
<1> DEFINE row == [cache.task[t] EXCEPT !.mine = TRUE]
<1>2. cache.task[t] \in RowType /\ Known(t)
  BY <1>1 DEF EditTask, CacheType, Known
<1>3. row \in RowType /\ row.state = cache.task[t].state /\ row.parent = cache.task[t].parent
  BY <1>2 DEF RowType
<1>4. cache' = [cache EXCEPT !.task[t] = row]
  BY <1>1 DEF EditTask, CacheType
<1> HIDE DEF row
<1>5. RowsStay
  BY <1>2, <1>3, <1>4, RowWritten DEF Known
<1>6. \A u \in Task : cache'.task[u].state = cache.task[u].state
  BY <1>1, <1>3, <1>4 DEF CacheType
<1> QED  BY <1>1, <1>5, <1>6, PullStays DEF Known

LEMMA PushStep ==
  ASSUME PullInv, NEW t \in Task, PushEdit(t)
  PROVE  PullInv'
<1>1. cache \in CacheType /\ CountType' /\ pull' = pull /\ pull \in PullType /\ remote \in RemoteType
  BY PullParts DEF PushEdit, CountType
<1>2. cache.task[t] \in RowType /\ Known(t) /\ remote.task[t].parent \in Task \cup {NoTask}
  BY <1>1 DEF PullInv, PushEdit, CacheType, RemoteType
<1>3. remote' \in RemoteType
  <2>1. cache.task[t].list \in List
    BY <1>2 DEF RowType
  <2>2. remote' = [remote EXCEPT !.task[t].list = cache.task[t].list]
    BY DEF PushEdit
  <2> DEFINE l == cache.task[t].list
  <2> HIDE DEF l
  <2>3. [remote EXCEPT !.task[t].list = l] \in RemoteType
    BY <1>1, <2>1 DEF RemoteType, l
  <2> QED  BY <2>2, <2>3 DEF l
<1> DEFINE p == KnownParent(remote.task[t].parent)
           parent == IF p = NoTask THEN cache.task[t].parent ELSE p
           row == [cache.task[t] EXCEPT !.mine = FALSE, !.state = "live", !.parent = parent]
<1>4. p \in Task \cup {NoTask} /\ Settled(p)
  BY <1>2, KnownParentSettled
<1>5. parent \in Task \cup {NoTask} /\ (Settled(parent) \/ parent = cache.task[t].parent)
  BY <1>2, <1>4 DEF RowType
<1>6. cache' = [cache EXCEPT !.task[t] = row]
  BY DEF PushEdit
<1> HIDE DEF parent
<1>7. row \in RowType /\ row.state = "live" /\ row.parent = parent /\ row.mine = FALSE
  BY <1>2, <1>5 DEF RowType, State
<1> HIDE DEF row
<1>8. RowsStay
  BY <1>2, <1>5, <1>6, <1>7, RowWritten
<1>9. \A u \in Task : u # t => cache'.task[u] = cache.task[u]
  BY <1>1, <1>6 DEF CacheType
<1> QED  BY <1>1, <1>2, <1>3, <1>8, <1>9, PullStays DEF Known

------------------------------------------------------------------------------
\* The steps of a pull that write no task.
LEMMA SpacesAndLists ==
  ASSUME PullInv,
         \/ StartAll \/ StartScoped \/ (\E s \in Space : FetchLists(s))
         \/ (\E l \in List : NextList(l)) \/ DropLists \/ DropSpaces
  PROVE  PullInv'
<1>1. cache \in CacheType /\ CountType /\ remote \in RemoteType /\ pull \in PullType
  BY PullParts
<1>2. CountType' /\ remote' \in RemoteType
  BY <1>1 DEF StartAll, StartScoped, StartLists, StartTasks, FetchLists, NextList, DropLists,
     DropSpaces, PullFrame, CountType
<1>3. NoPull \in PullType /\ NoPull.at = "idle" /\ NoPull.missing = {}
  BY NoPullType
<1>4. ASSUME cache' \in CacheType, cache'.task = cache.task, pull' \in PullType, pull'.at # "rows",
             pull'.missing \subseteq pull.missing
      PROVE  PullInv'
  BY <1>2, <1>4, TasksKept, PullMoves DEF PullInv
<1>5. CASE StartAll
  <2>1. StoredSpaces \in [Space -> State]
    BY <1>1 DEF StoredSpaces, CacheType, State, Kept
  <2>2. cache' \in CacheType /\ cache'.task = cache.task
    BY <1>1, <1>5, <2>1 DEF StartAll, CacheType
  <2>3. ListedSpaces \subseteq Space
    BY <1>1 DEF ListedSpaces, RemoteType
  <2>4. pull' \in PullType /\ pull'.at # "rows" /\ pull'.missing \subseteq pull.missing
    BY <1>3, <1>5, <2>3 DEF StartAll, PullType
  <2> QED  BY <1>4, <2>2, <2>4
<1>6. CASE StartScoped
  <2>1. UNCHANGED cache
    BY <1>6 DEF StartScoped, StartLists, StartTasks
  <2>2. ASSUME NEW s \in Space, StartLists(s)
        PROVE  pull' \in PullType /\ pull'.at # "rows" /\ pull'.missing \subseteq pull.missing
    BY <1>3, <2>2 DEF StartLists, PullType
  <2>3. ASSUME NEW l \in List, StartTasks(l)
        PROVE  pull' \in PullType /\ pull'.at # "rows" /\ pull'.missing \subseteq pull.missing
    BY <1>3, <2>3 DEF StartTasks, PullType
  <2> QED  BY <1>1, <1>4, <1>6, <2>1, <2>2, <2>3 DEF StartScoped
<1>7. ASSUME NEW s \in Space, FetchLists(s)  PROVE PullInv'
  <2>1. StoredLists(s) \in [List -> [state : State, space : Space]]
    BY <1>1 DEF StoredLists, CacheType, State
  <2>2. cache' \in CacheType /\ cache'.task = cache.task
    BY <1>1, <1>7, <2>1 DEF FetchLists, CacheType
  <2>3. Listed(s) \subseteq List
    BY DEF Listed
  <2>4. pull' \in PullType /\ pull'.at # "rows" /\ pull'.missing \subseteq pull.missing
    BY <1>1, <1>7, <2>3 DEF FetchLists, PullType
  <2> QED  BY <1>4, <2>2, <2>4
<1>8. ASSUME NEW l \in List, NextList(l)  PROVE PullInv'
  <2>1. UNCHANGED cache
        /\ pull' = [pull EXCEPT !.at = "pages", !.lists = @ \ {l}, !.list = l, !.page = 0, !.batch = <<>>]
    BY <1>8 DEF NextList
  <2> DEFINE none == <<>>
  <2>2. none \in Seq(Item)
    OBVIOUS
  <2> HIDE DEF none
  <2>3. pull' = [pull EXCEPT !.at = "pages", !.lists = @ \ {l}, !.list = l, !.page = 0, !.batch = none]
    BY <2>1 DEF none
  <2>4. pull' \in PullType /\ pull'.at # "rows" /\ pull'.missing \subseteq pull.missing
    BY <1>1, <2>2, <2>3 DEF PullType
  <2> QED  BY <1>1, <1>4, <2>1, <2>4
<1>9. CASE DropLists
  <2> DEFINE lists == [l \in List |->
            IF l \notin pull.seenLists /\ cache.list[l] = [state |-> "live", space |-> pull.space]
            THEN [state |-> "deleted", space |-> pull.space] ELSE cache.list[l]]
  <2>1. lists \in [List -> [state : State, space : Space]]
    BY <1>1 DEF CacheType, State, PullType
  <2>2. cache' = [cache EXCEPT !.list = lists]
    BY <1>9 DEF DropLists
  <2> HIDE DEF lists
  <2>3. cache' \in CacheType /\ cache'.task = cache.task
    BY <1>1, <2>1, <2>2 DEF CacheType
  <2>4. pull' \in PullType /\ pull'.at # "rows" /\ pull'.missing \subseteq pull.missing
    BY <1>1, <1>9 DEF DropLists, PullType
  <2> QED  BY <1>4, <2>3, <2>4
<1>10. CASE DropSpaces
  <2> DEFINE spaces == [s \in Space |->
            IF pull.scope = "all" /\ s \notin pull.seenSpaces /\ cache.space[s] = "live"
            THEN "deleted" ELSE cache.space[s]]
  <2>1. spaces \in [Space -> State]
    BY <1>1 DEF CacheType, State
  <2>2. cache' = [cache EXCEPT !.space = spaces]
    BY <1>10 DEF DropSpaces
  <2> HIDE DEF spaces
  <2>3. cache' \in CacheType /\ cache'.task = cache.task
    BY <1>1, <2>1, <2>2 DEF CacheType
  <2>4. pull' \in PullType /\ pull'.at # "rows" /\ pull'.missing \subseteq pull.missing
    BY <1>3, <1>10 DEF DropSpaces
  <2> QED  BY <1>4, <2>3, <2>4
<1> QED  BY <1>5, <1>6, <1>7, <1>8, <1>9, <1>10

\* A page is appended to the listing.
LEMMA FetchPageStep ==
  ASSUME PullInv, FetchPage
  PROVE  PullInv'
<1>1. cache' \in CacheType /\ CountType' /\ remote' \in RemoteType /\ pull \in PullType /\ UNCHANGED cache
  BY PullParts DEF FetchPage, PullFrame, CountType
<1>2. PICK page \in [1..Cardinality(Page) -> Page] :
        pull' = [pull EXCEPT !.page = @ + 1,
                             !.batch = @ \o [i \in DOMAIN page |->
                                 [task |-> page[i], parent |-> remote.task[page[i]].parent]]]
  BY DEF FetchPage
<1> DEFINE items == [i \in DOMAIN page |-> [task |-> page[i], parent |-> remote.task[page[i]].parent]]
<1>3. Cardinality(Page) \in Nat
  <2>1. IsFiniteSet(Page)
    BY PullAssumption, FS_Subset DEF Page
  <2> QED  BY <2>1, FS_CardinalityType
<1>4. items \in Seq(Item)
  <2>1. \A i \in 1..Cardinality(Page) : page[i] \in Task
    BY DEF Page
  <2>2. \A t \in Task : remote.task[t].parent \in Task \cup {NoTask}
    BY PullParts DEF RemoteType
  <2>3. items = [i \in 1..Cardinality(Page) |-> items[i]]
        /\ \A i \in 1..Cardinality(Page) : items[i] \in Item
    BY <2>1, <2>2 DEF Item
  <2> HIDE DEF items
  <2> QED  BY <1>3, <2>3
<1> HIDE DEF items
<1>5. pull.batch \o items \in Seq(Item) /\ pull.page + 1 \in Nat
  BY <1>1, <1>4 DEF PullType
<1>6. pull' = [pull EXCEPT !.page = @ + 1, !.batch = pull.batch \o items]
  BY <1>2 DEF items
<1>7. pull' \in PullType /\ pull'.at = pull.at /\ pull'.missing = pull.missing
  BY <1>1, <1>5, <1>6 DEF PullType
<1> QED  BY <1>1, <1>7, TasksKept, PullMoves DEF FetchPage, PullInv

\* The listing is mapped: every parent is in it, or has a row.
LEMMA MapTasksStep ==
  ASSUME PullInv, MapTasks
  PROVE  PullInv'
<1>1. cache' \in CacheType /\ CountType' /\ remote' \in RemoteType /\ pull \in PullType /\ UNCHANGED cache
  BY PullParts DEF MapTasks, PullFrame, CountType
<1> DEFINE listed == {pull.batch[i].task : i \in DOMAIN pull.batch}
           items == [i \in DOMAIN pull.batch |-> Mapped(pull.batch[i], listed)]
<1>2. pull.batch \in Seq(Item) /\ listed \subseteq Task
  <2>1. pull.batch \in Seq(Item)
    BY <1>1 DEF PullType
  <2>2. \A i \in DOMAIN pull.batch : pull.batch[i] \in Item
    BY <2>1
  <2> QED  BY <2>1, <2>2 DEF Item
<1>3. pull' = [pull EXCEPT !.at = "rows", !.page = 0, !.progress = FALSE, !.waiting = <<>>, !.seen = {},
                           !.listed = listed, !.batch = items]
  BY DEF MapTasks
<1> HIDE DEF listed
<1>4. ASSUME NEW i \in DOMAIN pull.batch
      PROVE  Mapped(pull.batch[i], listed) \in Item /\ Waits(Mapped(pull.batch[i], listed), listed)
  <2>1. pull.batch[i] \in Item
    BY <1>2
  <2>2. CASE pull.batch[i].parent \in listed
    BY <2>1, <2>2 DEF Mapped, Waits
  <2>3. CASE pull.batch[i].parent \notin listed
    <3>1. pull.batch[i].task \in Task /\ pull.batch[i].parent \in Task \cup {NoTask}
      BY <2>1 DEF Item
    <3>2. KnownParent(pull.batch[i].parent) \in Task \cup {NoTask} /\ Settled(KnownParent(pull.batch[i].parent))
      BY <3>1, KnownParentSettled
    <3> QED  BY <2>3, <3>1, <3>2 DEF Mapped, Waits, Item
  <2> QED  BY <2>2, <2>3
<1>5. items \in Seq(Item) /\ AllWait(items, listed)
  <2>1. items \in [1..Len(pull.batch) -> Item]
    BY <1>2, <1>4
  <2>2. Len(pull.batch) \in Nat
    BY <1>2
  <2>3. DOMAIN items = DOMAIN pull.batch /\ \A i \in DOMAIN items : items[i] = Mapped(pull.batch[i], listed)
    OBVIOUS
  <2> HIDE DEF items
  <2> QED  BY <1>4, <2>1, <2>2, <2>3 DEF AllWait
<1> DEFINE none == <<>>
<1>6. none \in Seq(Item) /\ AllWait(none, listed)
  BY DEF AllWait
<1> HIDE DEF items, none
<1>7. pull' = [pull EXCEPT !.at = "rows", !.page = 0, !.progress = FALSE, !.waiting = none, !.seen = {},
                           !.listed = listed, !.batch = items]
  BY <1>3 DEF none
<1>8. /\ pull' \in PullType /\ pull'.batch = items /\ pull'.waiting = none /\ pull'.listed = listed
      /\ pull'.missing = pull.missing
  BY <1>1, <1>2, <1>5, <1>6, <1>7 DEF PullType
<1>9. AllWait(pull'.batch, pull'.listed) /\ AllWait(pull'.waiting, pull'.listed)
  BY <1>5, <1>6, <1>8
<1>10. RoundHolds'
  <2>1. DOMAIN items = DOMAIN pull.batch /\ \A i \in DOMAIN items : items[i].task = pull.batch[i].task
    BY DEF items, Mapped
  <2>2. listed \subseteq TasksOf(items)
    BY <2>1 DEF listed, TasksOf
  <2>3. DOMAIN none = {}
    BY DEF none
  <2> QED  BY <1>8, <2>2, <2>3 DEF RoundHolds, TasksOf
<1> QED  BY <1>1, <1>8, <1>9, <1>10, TasksKept, PullMoves DEF PullInv

\* A row stored for a settled parent stays, with all the others.
LEMMA ReconciledStays ==
  ASSUME PullInv, NEW t \in Task, NEW l \in List, NEW p \in Task \cup {NoTask}, Settled(p),
         cache' = Reconciled(t, l, p)
  PROVE  RowsStay
<1>1. CASE cache' = cache
  BY <1>1, PullParts, TasksKept
<1>2. CASE cache' # cache
  <2> DEFINE row == [state |-> "live", list |-> l, parent |-> p, mine |-> FALSE]
  <2>1. cache' = [cache EXCEPT !.task[t] = row]
    BY <1>2 DEF Reconciled
  <2>2. row \in RowType /\ row.state # "unknown" /\ ~row.mine /\ row.parent = p
    BY DEF RowType, State
  <2> HIDE DEF row
  <2> QED  BY <2>1, <2>2, RowWritten
<1> QED  BY <1>1, <1>2

\* The tasks of a listing without its first item, and with one more at its end.
LEMMA HeadedTasks ==
  ASSUME NEW items \in Seq(Item), items # <<>>
  PROVE  TasksOf(items) = TasksOf(Tail(items)) \cup {Head(items).task}
<1>1. \A i \in DOMAIN items : i = 1 \/ (i - 1 \in DOMAIN Tail(items) /\ Tail(items)[i - 1] = items[i])
  OBVIOUS
<1>2. \A i \in DOMAIN Tail(items) : i + 1 \in DOMAIN items /\ Tail(items)[i] = items[i + 1]
  OBVIOUS
<1>3. 1 \in DOMAIN items /\ Head(items) = items[1]
  OBVIOUS
<1> QED  BY <1>1, <1>2, <1>3 DEF TasksOf

LEMMA AppendedTasks ==
  ASSUME NEW items \in Seq(Item), NEW e
  PROVE  TasksOf(Append(items, e)) = TasksOf(items) \cup {e.task}
<1> DEFINE more == Append(items, e)
<1>1. \A i \in DOMAIN more : (i \in DOMAIN items /\ more[i] = items[i]) \/ more[i] = e
  OBVIOUS
<1>2. \A i \in DOMAIN items : i \in DOMAIN more /\ more[i] = items[i]
  OBVIOUS
<1>3. \E i \in DOMAIN more : more[i] = e
  <2>1. Len(items) + 1 \in DOMAIN more /\ more[Len(items) + 1] = e
    OBVIOUS
  <2> QED  BY <2>1
<1> HIDE DEF more
<1>4. TasksOf(more) = TasksOf(items) \cup {e.task}
  BY <1>1, <1>2, <1>3 DEF TasksOf
<1> QED  BY <1>4 DEF more

\* An item is stored, or waits for its parent.
LEMMA ReconcileStep ==
  ASSUME PullInv, ReconcileTask
  PROVE  PullInv'
<1> DEFINE item == Head(pull.batch)
<1>1. CountType' /\ remote' \in RemoteType /\ cache \in CacheType /\ pull \in PullType
  BY PullParts DEF ReconcileTask, PullFrame, CountType
<1>2. pull.at = "rows" /\ pull.batch \in Seq(Item) /\ pull.batch # <<>> /\ pull.waiting \in Seq(Item)
      /\ AllWait(pull.batch, pull.listed) /\ AllWait(pull.waiting, pull.listed)
  BY <1>1 DEF ReconcileTask, PullInv, PullType
<1>3. item \in Item /\ Waits(item, pull.listed) /\ Tail(pull.batch) \in Seq(Item)
  BY <1>2 DEF AllWait
<1>4. AllWait(Tail(pull.batch), pull.listed)
  BY <1>2 DEF AllWait
<1> HIDE DEF item
<1>5. Append(pull.waiting, item) \in Seq(Item)
  BY <1>2, <1>3
<1>6. AllWait(Append(pull.waiting, item), pull.listed)
  BY <1>2, <1>3 DEF AllWait
<1>9. RoundHolds /\ TasksOf(pull.batch) = TasksOf(Tail(pull.batch)) \cup {item.task}
  BY <1>2, HeadedTasks DEF PullInv, item
<1>7. CASE MustWait(item)
  <2>1. pull' = [pull EXCEPT !.batch = Tail(@), !.waiting = Append(@, item)] /\ UNCHANGED cache
    BY <1>7 DEF ReconcileTask, item
  <2>2. pull' \in PullType /\ pull'.batch = Tail(pull.batch)
        /\ pull'.waiting = Append(pull.waiting, item) /\ pull'.listed = pull.listed
        /\ pull'.missing = pull.missing /\ pull'.progress = pull.progress
    BY <1>1, <1>3, <1>5, <2>1 DEF PullType
  <2>3. item.parent \in pull.listed /\ ~Known(item.parent)
    BY <1>7 DEF MustWait, Known
  <2>4. pull'.waiting = Append(pull.waiting, item) /\ pull.waiting \in Seq(Item)
    BY <1>2, <2>2
  <2>5. TasksOf(pull'.waiting) = TasksOf(pull.waiting) \cup {item.task}
    BY <2>4, AppendedTasks
  <2>6. \A i \in DOMAIN pull'.waiting : pull'.waiting[i] = item \/
          \E j \in DOMAIN pull.waiting : pull'.waiting[i] = pull.waiting[j]
    BY <2>4
  <2>7. RoundHolds'
    BY <1>2, <1>9, <2>1, <2>2, <2>3, <2>5, <2>6 DEF RoundHolds, Known
  <2> QED  BY <1>1, <1>4, <1>6, <2>1, <2>2, <2>7, TasksKept, PullMoves DEF PullInv
<1>8. CASE ~MustWait(item)
  <2>1. /\ pull' = [pull EXCEPT !.batch = Tail(@), !.progress = TRUE, !.seen = @ \cup {item.task}]
        /\ cache' = Reconciled(item.task, pull.list, item.parent)
    BY <1>8 DEF ReconcileTask, item
  <2>2. item.task \in Task /\ item.parent \in Task \cup {NoTask} /\ pull.list \in List
        /\ pull.listed \subseteq Task
    BY <1>1, <1>3 DEF Item, PullType
  <2>3. Settled(item.parent)
    BY <1>3, <1>8, <2>2 DEF MustWait, Waits, Settled, Known
  <2>4. pull' \in PullType /\ pull'.batch = Tail(pull.batch)
        /\ pull'.waiting = pull.waiting /\ pull'.listed = pull.listed
        /\ pull'.missing = pull.missing /\ pull'.progress
    BY <1>1, <1>3, <2>1, <2>2 DEF PullType
  <2>5. RowsStay
    BY <2>1, <2>2, <2>3, ReconciledStays
  <2>6. cache'.task[item.task].state # "unknown"
    BY <1>1, <2>1, <2>2 DEF Reconciled, CacheType, PullInv, Known
  <2>7. RoundHolds'
    BY <1>9, <2>2, <2>4, <2>5, <2>6 DEF RoundHolds, RowsStay, Known
  <2> QED  BY <1>1, <1>2, <1>4, <2>4, <2>5, <2>7, PullMoves DEF PullInv
<1> QED  BY <1>7, <1>8

\* The rounds, and the ends of a listing.
LEMMA RoundStep ==
  ASSUME PullInv, NextRound \/ Unresolved \/ AllStored \/ ListDone \/ EndFailed \/ PullFails
  PROVE  PullInv'
<1>1. CountType' /\ remote' \in RemoteType /\ cache' \in CacheType /\ UNCHANGED cache
      /\ pull \in PullType
  BY PullParts, PullAssumption DEF NextRound, Unresolved, AllStored, ListDone, EndFailed, PullFails,
     PullFrame, CountType
<1>2. ASSUME pull' \in PullType, pull'.at # "rows", \A t \in pull'.missing : Known(t)  PROVE PullInv'
  BY <1>1, <1>2, TasksKept, PullMoves
<1>3. /\ NoPull \in PullType /\ NoPull.at # "rows" /\ NoPull.missing = {}
      /\ [NoPull EXCEPT !.at = "failed"] \in PullType /\ [NoPull EXCEPT !.at = "failed"].at # "rows"
      /\ [NoPull EXCEPT !.at = "failed"].missing = {}
  BY PullEnds
<1>4. CASE NextRound
  <2>1. /\ pull' \in PullType /\ pull'.batch = pull.waiting /\ pull'.waiting = <<>>
        /\ pull'.listed = pull.listed /\ pull'.missing = pull.missing
    BY <1>1, <1>4 DEF NextRound, PullType
  <2>2. AllWait(pull.waiting, pull.listed) /\ RoundHolds /\ pull.batch = <<>>
    BY <1>4 DEF NextRound, PullInv
  <2>3. TasksOf(pull.batch) = {} /\ DOMAIN pull'.waiting = {}
    BY <2>1, <2>2 DEF TasksOf
  <2>4. RoundHolds'
    BY <1>1, <2>1, <2>2, <2>3 DEF RoundHolds, Known
  <2> QED  BY <1>1, <2>1, <2>2, <2>4, TasksKept, PullMoves DEF AllWait, PullInv
<1>5. CASE Unresolved \/ EndFailed \/ PullFails
  BY <1>2, <1>3, <1>5 DEF Unresolved, EndFailed, PullFails
<1>6. CASE AllStored
  <2> DEFINE missing == {t \in Task \ pull.seen :
                /\ cache.task[t].state = "live"
                /\ cache.task[t].list = pull.list
                /\ ~cache.task[t].mine}
  <2>1. missing \subseteq Task /\ \A t \in missing : Known(t)
    BY DEF Known
  <2>2. pull' = [pull EXCEPT !.at = "missing", !.listed = {}, !.missing = missing]
    BY <1>6 DEF AllStored
  <2> HIDE DEF missing
  <2>3. pull' \in PullType /\ pull'.at # "rows" /\ pull'.missing = missing
    BY <1>1, <2>1, <2>2 DEF PullType
  <2> QED  BY <1>2, <2>1, <2>3
<1>7. CASE ListDone
  <2>1. [pull EXCEPT !.at = "lists", !.seen = {}, !.progress = FALSE] \in PullType
        /\ [pull EXCEPT !.at = "lists", !.seen = {}, !.progress = FALSE].at # "rows"
        /\ [pull EXCEPT !.at = "lists", !.seen = {}, !.progress = FALSE].missing = pull.missing
    BY <1>1 DEF PullType
  <2> QED  BY <1>2, <1>3, <1>7, <2>1 DEF ListDone, PullInv
<1> QED  BY <1>4, <1>5, <1>6, <1>7

\* A missing task is asked for: it is tombstoned, or stored where it is.
LEMMA MissingStep ==
  ASSUME PullInv, NEW t \in Task, CheckMissing(t)
  PROVE  PullInv'
<1>1. CountType' /\ remote' \in RemoteType /\ remote \in RemoteType /\ cache \in CacheType
      /\ pull \in PullType /\ pull.at = "missing"
  BY PullParts DEF CheckMissing, PullFrame, CountType
<1>2. pull' \in PullType /\ pull'.at # "rows" /\ pull'.missing \subseteq pull.missing
  BY <1>1 DEF CheckMissing, PullType
<1>3. CASE cache' = Tombstoned(t)
  <2> DEFINE row == [cache.task[t] EXCEPT !.state = "deleted", !.mine = FALSE]
  <2>1. cache' = [cache EXCEPT !.task[t] = row]
    BY <1>3 DEF Tombstoned
  <2>2. cache.task[t] \in RowType
    BY <1>1 DEF CacheType
  <2>3. row \in RowType /\ row.state = "deleted" /\ ~row.mine /\ row.parent = cache.task[t].parent
    BY <2>2 DEF RowType, State
  <2> HIDE DEF row
  <2>4. Known(t)
    BY DEF CheckMissing, PullInv
  <2>5. RowsStay
    BY <2>1, <2>3, <2>4, RowWritten
  <2> QED  BY <1>1, <1>2, <2>5, PullMoves DEF PullInv
<1>4. CASE cache' # Tombstoned(t)
  <2> DEFINE there == remote.task[t].list
             p == KnownParent(remote.task[t].parent)
  <2>1. there # Nowhere /\ cache' = Reconciled(t, there, p)
    BY <1>4 DEF CheckMissing
  <2>2. there \in List /\ p \in Task \cup {NoTask} /\ Settled(p)
    BY <1>1, <2>1, KnownParentSettled DEF RemoteType
  <2>3. RowsStay
    BY <2>1, <2>2, ReconciledStays
  <2> QED  BY <1>1, <1>2, <2>3, PullMoves DEF PullInv
<1> QED  BY <1>3, <1>4

\* The invariant holds of every pull.
LEMMA PullKept == Spec => []PullInv
<1>1. Init => PullInv
  <2> SUFFICES ASSUME Init PROVE PullInv
    OBVIOUS
  <2>1. pull \in PullType /\ pull.at # "rows" /\ pull.missing = {}
    BY NoPullType DEF Init
  <2>2. NoSpace \in Space /\ NoList \in List
    BY PullAssumption DEF NoSpace, NoList
  <2>3. cache \in CacheType /\ \A t \in Task : cache.task[t].state = "unknown" /\ ~cache.task[t].mine
    BY <2>2 DEF Init, CacheType, RowType, State
  <2>4. remote \in RemoteType
    BY DEF Init, RemoteType
  <2>5. CountType
    BY PullAssumption DEF Init, CountType
  <2>6. PullTypeOK
    BY <2>1, <2>3, <2>4, <2>5, PullTypes
  <2> QED  BY <2>1, <2>3, <2>6 DEF PullInv, ParentsAreStored
<1>2. PullInv /\ [Next]_vars => PullInv'
  <2>1. ASSUME PullInv, UNCHANGED vars  PROVE PullInv'
    <3>1. cache' \in CacheType /\ remote' \in RemoteType /\ pull' \in PullType /\ CountType'
      BY <2>1, PullParts DEF vars, CountType
    <3>2. pull' = pull /\ cache' = cache
      BY <2>1 DEF vars
    <3> QED  BY <2>1, <3>1, <3>2, TasksKept, PullStays DEF Known
  <2>2. ASSUME PullInv, PullStep  PROVE PullInv'
    BY <2>2, SpacesAndLists, FetchPageStep, MapTasksStep, ReconcileStep, RoundStep, MissingStep DEF PullStep
  <2> QED  BY <2>1, <2>2, OthersStep, EditStep, PushStep, SpacesAndLists, RoundStep DEF Next, Push
<1> QED  BY <1>1, <1>2, PTL DEF Spec

\* The records of the pull, the provider and the cache keep their types.
THEOREM PullTyped == Spec => []PullTypeOK
<1>1. PullInv => PullTypeOK
  BY DEF PullInv
<1> QED  BY <1>1, PullKept, PTL

\* The parent of a row is a row, whatever is moved while a listing is read
\* (reconcileTasks waits for the parents it lists, the mapper drops the others).
THEOREM ParentsStored == Spec => []ParentsAreStored
<1>1. PullInv => ParentsAreStored
  BY DEF PullInv
<1> QED  BY <1>1, PullKept, PTL

\* A pull tombstones what the provider no longer has, or has in a list the cache
\* does not know; a task that moved is kept (reconcileMissingTasks, FetchTask).
THEOREM MovedTasksLive == Spec => TombstonesWhatIsGone
<1> DEFINE Dead(t) == cache.task[t].state = "live" /\ cache'.task[t].state = "deleted"
           IsGone(t) == LET there == remote.task[t].list
                        IN  there = Nowhere \/ cache.list[there].state = "unknown"
           Tombstones == \A t \in Task : Dead(t) => IsGone(t)
<1>1. PullInv /\ Next => Tombstones
  <2> SUFFICES ASSUME PullInv, Next, NEW t \in Task, Dead(t)  PROVE IsGone(t)
    OBVIOUS
  <2>1. cache \in CacheType
    BY PullParts
  <2>2. cache'.task # cache.task
    OBVIOUS
  <2>3. ASSUME NEW u \in Task, NEW l, NEW p, cache' = Reconciled(u, l, p)  PROVE FALSE
    BY <2>1, <2>3 DEF Reconciled, CacheType
  <2>4. ~Others
    BY <2>2 DEF Others, MoveSpace, MoveList, MoveTask, DeleteTask, Reparent, Elsewhere
  <2>5. ASSUME NEW u \in Task, EditTask(u)  PROVE FALSE
    <3>1. cache.task[t] \in RowType
      BY <2>1 DEF CacheType
    <3>2. cache'.task[t] = cache.task[t] \/ cache'.task[t] = [cache.task[t] EXCEPT !.mine = TRUE]
      BY <2>1, <2>5 DEF EditTask, CacheType
    <3> QED  BY <3>1, <3>2 DEF RowType
  <2>6. ASSUME NEW u \in Task, PushEdit(u)  PROVE FALSE
    <3>1. cache.task[u] \in RowType
      BY <2>1 DEF CacheType
    <3>2. PICK parent : cache' = [cache EXCEPT !.task[u] =
               [@ EXCEPT !.mine = FALSE, !.state = "live", !.parent = parent]]
      BY <2>6 DEF PushEdit
    <3> DEFINE row == [cache.task[u] EXCEPT !.mine = FALSE, !.state = "live", !.parent = parent]
    <3>3. row.state = "live"
      BY <3>1 DEF RowType
    <3>4. cache' = [cache EXCEPT !.task[u] = row]
      BY <3>2
    <3> HIDE DEF row
    <3>5. cache'.task[t] = cache.task[t] \/ cache'.task[t] = row
      BY <2>1, <3>4 DEF CacheType
    <3> QED  BY <3>3, <3>5
  <2>7. ASSUME NEW u \in Task, CheckMissing(u)  PROVE IsGone(t)
    <3>1. CASE cache' = Tombstoned(u)
      <4>1. u = t
        BY <2>1, <3>1 DEF Tombstoned, CacheType
      <4>2. CASE IsGone(u)
        BY <4>1, <4>2
      <4>3. CASE ~IsGone(u)
        BY <2>3, <2>7, <4>3 DEF CheckMissing
      <4> QED  BY <4>2, <4>3
    <3>2. CASE cache' # Tombstoned(u)
      BY <2>3, <2>7, <3>2 DEF CheckMissing
    <3> QED  BY <3>1, <3>2
  <2>8. ~(StartAll \/ StartScoped \/ PullFails)
    BY <2>1, <2>2 DEF StartAll, StartScoped, StartLists, StartTasks, PullFails, CacheType
  <2>9. ASSUME PullStep  PROVE \E u \in Task : CheckMissing(u)
    <3>1. ~ReconcileTask
      <4> SUFFICES ASSUME ReconcileTask PROVE FALSE
        OBVIOUS
      <4>1. pull \in PullType /\ pull.batch # <<>>
        BY PullParts DEF ReconcileTask
      <4>2. Head(pull.batch) \in Item
        BY <4>1 DEF PullType
      <4>3. Head(pull.batch).task \in Task
        BY <4>2 DEF Item
      <4> QED  BY <2>2, <2>3, <4>3 DEF ReconcileTask
    <3>2. ~((\E s \in Space : FetchLists(s)) \/ DropLists \/ DropSpaces)
      BY <2>1, <2>2 DEF FetchLists, DropLists, DropSpaces, CacheType
    <3>3. ~((\E l \in List : NextList(l)) \/ FetchPage \/ MapTasks \/ NextRound
            \/ Unresolved \/ AllStored \/ ListDone \/ EndFailed)
      BY <2>2 DEF NextList, FetchPage, MapTasks, NextRound, Unresolved, AllStored, ListDone, EndFailed
    <3> QED  BY <2>9, <3>1, <3>2, <3>3 DEF PullStep
  <2> QED  BY <2>4, <2>5, <2>6, <2>7, <2>8, <2>9 DEF Next, Push
<1>2. PullInv /\ [Next]_vars => [Tombstones]_vars
  BY <1>1
<1> QED  BY <1>2, PullKept, PTL DEF Spec, TombstonesWhatIsGone

\* The rounds give up on a listing only when tasks reparented between its pages
\* are each other's ancestors: what waits then waits for what waits
\* ("unresolved parent dependency").
THEOREM TornListingsOnly == Spec => GivesUpOnlyOnTornListing
<1> DEFINE GivesUp == pull.at = "rows" /\ pull'.at = "failed" /\ faults' = faults
<1>1. PullInv /\ Next /\ GivesUp => TornListing
  <2> SUFFICES ASSUME PullInv, Next, GivesUp PROVE TornListing
    OBVIOUS
  <2>1. Unresolved
    <3>1. pull \in PullType /\ NoPull.at = "idle" /\ CountType
      BY PullParts, NoPullType
    <3>2. ~Others /\ ~StartAll /\ ~StartScoped /\ ~Push /\ ~(\E t \in Task : EditTask(t))
      BY DEF Others, MoveSpace, MoveList, MoveTask, DeleteTask, Reparent, Elsewhere, StartAll,
         StartScoped, StartLists, StartTasks, Push, PushEdit, EditTask
    <3>3. ~PullFails
      BY <3>1 DEF PullFails, CountType
    <3>4. PullStep
      BY <3>2, <3>3 DEF Next
    <3>5. ~ReconcileTask /\ ~NextRound /\ ~AllStored
      BY <3>1 DEF ReconcileTask, NextRound, AllStored, PullType
    <3> QED  BY <3>4, <3>5 DEF PullStep, FetchLists, NextList, DropLists, DropSpaces, FetchPage,
             MapTasks, CheckMissing, ListDone, EndFailed
  <2> DEFINE S == TasksOf(pull.waiting)
             itemsOf(t) == {i \in DOMAIN pull.waiting : pull.waiting[i].task = t}
             up(t) == IF itemsOf(t) = {} THEN NoTask
                      ELSE pull.waiting[CHOOSE i \in itemsOf(t) : TRUE].parent
             parent == [t \in Task |-> up(t)]
  <2>2. /\ pull.batch = <<>> /\ pull.waiting # <<>> /\ ~pull.progress
        /\ pull.waiting \in Seq(Item) /\ pull.listed \subseteq Task
        /\ RoundHolds
    BY <2>1, PullParts DEF Unresolved, PullInv, PullType
  <2>3. \A i \in DOMAIN pull.waiting : pull.waiting[i].parent \in S
    <3>1. TasksOf(pull.batch) = {}
      BY <2>2 DEF TasksOf
    <3> QED  BY <2>2, <3>1 DEF RoundHolds
  <2>4. S # {} /\ S \subseteq Task
    <3>1. \A i \in DOMAIN pull.waiting : pull.waiting[i] \in Item
      BY <2>2
    <3>2. 1 \in DOMAIN pull.waiting
      BY <2>2
    <3> QED  BY <3>1, <3>2 DEF TasksOf, Item
  <2>5. ASSUME NEW t \in S  PROVE parent[t] \in S
    <3>1. itemsOf(t) # {}
      BY DEF TasksOf
    <3>2. (CHOOSE i \in itemsOf(t) : TRUE) \in itemsOf(t)
      BY <3>1
    <3>3. parent[t] = pull.waiting[CHOOSE i \in itemsOf(t) : TRUE].parent
      BY <2>4, <3>1
    <3> QED  BY <2>3, <3>2, <3>3
  <2>6. ~Acyclic(parent)
    <3> HIDE DEF S, parent
    <3> QED  BY <2>4, <2>5 DEF Acyclic
  <2> QED  BY <2>6 DEF TornListing
<1>2. PullInv /\ [Next]_vars => [GivesUp => TornListing]_vars
  BY <1>1
<1> QED  BY <1>2, PullKept, PTL DEF Spec, GivesUpOnlyOnTornListing
==============================================================================
