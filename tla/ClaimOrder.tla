------------------------------ MODULE ClaimOrder ------------------------------
(***************************************************************************)
(* The order in which the rows of one entity are claimed, with created_at  *)
(* as the database holds it: a text.  formatTime writes a time in the      *)
(* layout RFC3339Nano, which drops the zeros that end the fraction of a    *)
(* second (and the point, when nothing is left), and the claim compares    *)
(* the texts (queue.go, ORDER BY created_at and the NOT EXISTS clause).    *)
(*                                                                         *)
(* A time is its second followed by the digits of its fraction; everything *)
(* above the second has a fixed width and plays no part.                   *)
(***************************************************************************)
EXTENDS Integers, Sequences

CONSTANTS
    Second,  \* seconds on the clock, a finite set of naturals
    Digit,   \* digits of a fraction, a finite set of naturals with 0
    Width,   \* digits in a fraction: nine in the program
    MaxRows  \* rows ever inserted

VARIABLE rows  \* the rows in the order of their insertion

Time == [sec : Second, frac : [1..Width -> Digit]]

\* Lexicographic order, of digits and of texts: a proper prefix comes first.
Before(a, b) ==
    \E i \in 1..Len(b) :
        /\ i =< Len(a) + 1
        /\ \A j \in 1..(i - 1) : a[j] = b[j]
        /\ i =< Len(a) => a[i] < b[i]

Earlier(s, t) == s.sec < t.sec \/ (s.sec = t.sec /\ Before(s.frac, t.frac))

\* The two characters of a text that are not digits, by their place in ASCII.
Point == -1
Zulu == 1 + CHOOSE d \in Digit : \A c \in Digit : c =< d

Trimmed(frac) ==
    LET kept == {i \in 1..Width : \E j \in i..Width : frac[j] # 0}
    IN  SelectSeq([i \in 1..Width |-> IF i \in kept THEN frac[i] ELSE Point],
                  LAMBDA c : c # Point)

\* formatTime
Text(t) ==
    IF Trimmed(t.frac) = <<>> THEN <<t.sec, Zulu>>
    ELSE <<t.sec, Point>> \o Trimmed(t.frac) \o <<Zulu>>

TextBefore(i, j) == Before(Text(rows[i].created), Text(rows[j].created))

Init == rows = <<>>

\* A mutation stamps its row with a clock that has moved on since the last one.
Enqueue(t) ==
    /\ Len(rows) < MaxRows
    /\ \A i \in DOMAIN rows : Earlier(rows[i].created, t)
    /\ rows' = Append(rows, [created |-> t, status |-> "pending"])

\* Every row whose text comes before this one's is settled.
Claim(i) ==
    /\ rows[i].status = "pending"
    /\ \A j \in DOMAIN rows : TextBefore(j, i) => rows[j].status = "completed"
    /\ rows' = [rows EXCEPT ![i].status = "syncing"]

Complete(i) ==
    /\ rows[i].status = "syncing"
    /\ rows' = [rows EXCEPT ![i].status = "completed"]

Next ==
    \/ \E t \in Time : Enqueue(t)
    \/ \E i \in DOMAIN rows : Claim(i) \/ Complete(i)

Spec == Init /\ [][Next]_rows

\* What the contract of the queue says: "Claim must select only the requested
\* provider, preserve created-at/entity ordering" (contracts.go:168-169).  A row
\* is claimed only after every older row of its entity is completed.
CreatedAtOrder ==
    \A i, j \in DOMAIN rows :
        /\ Earlier(rows[i].created, rows[j].created)
        /\ rows[j].status # "pending"
        => rows[i].status = "completed"
=============================================================================
