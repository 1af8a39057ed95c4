----------------------------- MODULE RemoteCalls -----------------------------
(***************************************************************************)
(* Requests to the provider in time: the pacer every request goes through, *)
(* the deadline of a request (internal/provider/clickup/client.go), what   *)
(* becomes of its failure (errors.go, internal/sync/retry.go), and when    *)
(* the worker tries its operation again (internal/sync/worker.go).         *)
(*                                                                         *)
(* One tick of the clock is the pacer's interval.  The worker of the       *)
(* provider is one of the callers, followed through one operation at a     *)
(* time; the others, the pulls, the timer and the commands of the user,    *)
(* make calls as they like, and no rate limit holds them back.             *)
(***************************************************************************)
EXTENDS Integers, Sequences, FiniteSets

CONSTANTS
  Sender,      \* goroutines that call the provider
  Pusher,      \* the one that pushes operations
  Timeout,     \* of a request, in ticks
  Schedule,    \* delays of the retries, in ticks
  RetryAfters, \* waits a rate limit may ask for, 0 if it names none
  MaxClock     \* bound: ticks

ASSUME CallsAssumption ==
  /\ Pusher \in Sender
  /\ IsFiniteSet(Sender)
  /\ Timeout \in Nat \ {0}
  /\ Cardinality(Sender) < Timeout
  /\ Schedule \in Seq(Nat) /\ Schedule # <<>>
  /\ RetryAfters \subseteq Nat
  /\ MaxClock \in Nat

VARIABLES
  clock,    \* now, in ticks
  next,     \* the next slot of the pacer
  call,     \* the call each caller is in
  sends,    \* requests sent in this tick
  attempts, \* attempts of the worker's operation
  due,      \* when the operation may be claimed
  barred    \* until when the provider has asked to be left alone

callVars == <<clock, next, call, sends, attempts, due, barred>>

CallStep == {"idle", "waiting", "sent"}
Call == [step : CallStep, slot : Nat, deadline : Nat]
NoCall == [step |-> "idle", slot |-> 0, deadline |-> 0]

CallsTypeOK ==
  /\ clock \in Nat
  /\ next \in Nat
  /\ call \in [Sender -> Call]
  /\ sends \in Nat
  /\ attempts \in Nat
  /\ due \in Nat
  /\ barred \in Nat

CallsInit ==
  /\ clock = 0
  /\ next = 0
  /\ call = [c \in Sender |-> NoCall]
  /\ sends = 0
  /\ attempts = 0
  /\ due = 0
  /\ barred = 0

Later(a, b) == IF a > b THEN a ELSE b

-----------------------------------------------------------------------------
(* What a failure means for the operation. *)

Answers == {"ok", "denied", "malformed", "limited", "broken"}

\* 400, 401, 403, 404 and an answer that cannot be read are final; a rate limit is
\* waited for; all else, a request that ran out of time too, is tried again.
ClassifyFailure(answer) ==
  CASE answer \in {"denied", "malformed"} -> "terminal"
    [] answer = "limited" -> "rate_limited"
    [] OTHER -> "retryable"

\* A rate limit may name a wait; no other failure does.
RateLimitAfter(answer, after) == IF answer = "limited" THEN after ELSE 0

\* The delay before attempt n + 1: the last of the schedule once it is used up.
Delay(n) == Schedule[IF n < 1 THEN 1 ELSE IF n > Len(Schedule) THEN Len(Schedule) ELSE n]

\* Broken: the wait the provider asks for replaces the delay only when it is the
\* shorter of the two.
RetryDelayShorter(kind, after, n) ==
  IF kind = "rate_limited" /\ after < Delay(n) THEN after ELSE Delay(n)

RetryDelay(kind, after, n) ==
  IF kind = "rate_limited" THEN Later(Delay(n), after) ELSE Delay(n)

\* The operation is done with: the next one is claimed.
Settled == attempts' = 0 /\ due' = clock /\ UNCHANGED barred

\* Decide and persistFailure, after n attempts.
Failed(kind, after, n) ==
  IF kind = "terminal" THEN Settled
  ELSE /\ due' = clock + RetryDelay(kind, after, n)
       /\ barred' = IF kind = "rate_limited" THEN clock + after ELSE barred
       /\ attempts' = n

-----------------------------------------------------------------------------
(* A call. *)

\* The pacer gives slots out in order, an interval apart.  A slot is never given
\* back, not even by a call that ends before it is sent.
Reserve == Later(next, clock) + 1

\* A call without a token takes no slot: final if none is configured, tried again
\* if it cannot be read.
NoToken ==
  /\ call[Pusher].step = "idle"
  /\ clock >= due
  /\ \E kind \in {"terminal", "retryable"} : Failed(kind, 0, attempts + 1)
  /\ UNCHANGED <<clock, next, call, sends>>

\* The deadline runs while the call waits for its slot.  The worker counts the
\* attempt before.
Begin(c) ==
  /\ call[c].step = "idle"
  /\ c = Pusher => clock >= due
  /\ call' = [call EXCEPT ![c] = [step |-> "waiting", slot |-> Later(next, clock),
                                  deadline |-> clock + Timeout]]
  /\ next' = Reserve
  /\ attempts' = IF c = Pusher THEN attempts + 1 ELSE attempts
  /\ UNCHANGED <<clock, sends, due, barred>>

\* Broken: the call is sent as soon as it asks.
MayGoAtOnce(c) == clock < call[c].deadline

MayGo(c) == call[c].slot <= clock /\ clock < call[c].deadline

Send(c) ==
  /\ call[c].step = "waiting"
  /\ MayGo(c)
  /\ call' = [call EXCEPT ![c].step = "sent"]
  /\ sends' = sends + 1
  /\ UNCHANGED <<clock, next, attempts, due, barred>>

CallEnds(c) == call' = [call EXCEPT ![c] = NoCall] /\ UNCHANGED <<clock, next, sends>>

OthersCall == UNCHANGED <<attempts, due, barred>>

\* The call ends at its deadline, whether it waits for its slot or an answer.
Expire(c) ==
  /\ call[c].step # "idle"
  /\ clock >= call[c].deadline
  /\ CallEnds(c)
  /\ IF c = Pusher THEN Failed("retryable", 0, attempts) ELSE OthersCall

Answer(c, answer, after) ==
  /\ call[c].step = "sent"
  /\ CallEnds(c)
  /\ IF c # Pusher THEN OthersCall
     ELSE IF answer = "ok" THEN Settled
     ELSE Failed(ClassifyFailure(answer), RateLimitAfter(answer, after), attempts)

\* Timers are on time: before the clock goes on, a call whose slot has come is sent
\* and one at its deadline ends.
Tick ==
  /\ clock < MaxClock
  /\ \A c \in Sender :
       /\ call[c].step # "idle" => clock < call[c].deadline
       /\ call[c].step = "waiting" => clock < call[c].slot
  /\ clock' = clock + 1
  /\ sends' = 0
  /\ UNCHANGED <<next, call, attempts, due, barred>>

CallsNext ==
  \/ \E c \in Sender : Begin(c) \/ Send(c) \/ Expire(c)
  \/ \E c \in Sender, answer \in Answers, after \in RetryAfters : Answer(c, answer, after)
  \/ NoToken
  \/ Tick

CallsSpec == CallsInit /\ [][CallsNext]_callVars

-----------------------------------------------------------------------------
(* Properties *)

\* No more than one request leaves in an interval, whoever calls, and whatever
\* has become of the calls before (requestPacer.wait).
OnePerInterval == sends <= 1

\* An operation that met a rate limit leaves the provider alone for as long as it
\* asked to be (parseRetryAfter, rateLimitAfter, Decide): no attempt of it leaves
\* earlier, whatever the schedule, the pacer and the failures in between.
RateLimitIsKept ==
  [][call[Pusher].step = "waiting" /\ call'[Pusher].step = "sent" => clock >= barred]_callVars

\* As long as there are fewer callers than slots in a timeout, no call runs out of
\* time in the queue of the pacer: calls that ended before they were sent keep
\* their slots, but those are past by the time their callers call again.
NoCallStarves == \A c \in Sender : call[c].step = "waiting" => call[c].slot < call[c].deadline

==============================================================================
