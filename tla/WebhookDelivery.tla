---------------------------- MODULE WebhookDelivery ----------------------------
(***************************************************************************)
(* The webhook sink (packages/webhook/src/index.ts): calls of send, each   *)
(* with one signed body for all its attempts.  One sink serves the worker: *)
(* the scan cycles of all chains and the timers of their heartbeats send   *)
(* through it, so sends run at the same time, in any number.  A cycle      *)
(* awaits each of its own, so it begins the next when the one before has   *)
(* returned; earlier[s] keeps which had returned when s began.             *)
(*                                                                         *)
(* The other side is a receiver that checks what it gets with              *)
(* verifySignature, by a clock of its own.  Requests can be lost, answers  *)
(* can be lost, and a request whose sender has given up on it may still    *)
(* arrive.  Signatures are not forged: a request carries the timestamp it  *)
(* was signed with, and is valid if that is fresh.                         *)
(***************************************************************************)
EXTENDS Integers, Sequences, FiniteSets

CONSTANTS
    Sends,         \* bound: calls of send, named by their delivery ids
    Timeout,       \* WEBHOOK_TIMEOUT_MS
    MaxRetries,    \* WEBHOOK_MAX_RETRIES
    RetryDelay,    \* WEBHOOK_RETRY_DELAY_MS
    MaxDelay,      \* the cap on a backoff: 30 seconds
    MaxAge,        \* maxTimestampAgeSeconds of the receiver
    Skew,          \* how much the receiver's clock is ahead
    MaxTime        \* bound: until when the clock goes on while nothing is sent

\* What an event can take: every attempt up to its timeout, and the longest
\* pause between two attempts.
Budget == MaxRetries * (Timeout + MaxDelay) + Timeout

\* The last one holds for the defaults (3 retries of 10 seconds, 30 seconds
\* of pause and 300 of age), not for every setting that the schema takes.
ASSUME WebhookAssumption ==
    /\ Timeout \in Nat \ {0} /\ MaxRetries \in Nat /\ RetryDelay \in Nat
    /\ MaxDelay \in Nat /\ MaxAge \in Nat /\ Skew \in Nat
    /\ MaxTime \in Nat
    /\ Budget + Skew <= MaxAge

VARIABLES
    now,       \* the sender's clock
    pc,        \* per send: new, what it awaits (its pause, an answer), or its result
    stamp,     \* per send: timestamp in its body and signature
    attempt,   \* per send: attempts begun before this one
    until,     \* per send: when the pause or the timeout ends
    earlier,   \* history, per send: the sends that had returned when it began
    flight,    \* requests on their way
    accepted   \* delivery ids the receiver has accepted, in that order

sendVars == <<pc, stamp, attempt, until, earlier>>
vars == <<now, sendVars, flight, accepted>>

Requests == [id : Sends, stamp : Nat, attempt : 0 .. MaxRetries]

Init ==
    /\ now = 0
    /\ pc = [s \in Sends |-> "new"]
    /\ stamp = [s \in Sends |-> 0]
    /\ attempt = [s \in Sends |-> 0]
    /\ until = [s \in Sends |-> 0]
    /\ earlier = [s \in Sends |-> {}]
    /\ flight = {}
    /\ accepted = <<>>

-----------------------------------------------------------------------------
(* The receiver. *)

\* verifySignature: not too old, and at most a minute in the future.
IsValid(r) == LET age == now + Skew - r.stamp IN age <= MaxAge /\ age >= -60

Request(s) == [id |-> s, stamp |-> stamp[s], attempt |-> attempt[s]]

\* The request whose answer its send awaits.
IsAwaited(r) == pc[r.id] = "post" /\ r = Request(r.id)

-----------------------------------------------------------------------------
(* send *)

Running(s) == pc[s] \in {"post", "pause"}
Returned == {s \in Sends : pc[s] \in {"ok", "failed"}}

\* Faulty: the jitter comes on top of the cap, and doubles it.
BackoffUncapped(n) == LET exponential == RetryDelay * 2^n
                      IN  {exponential, exponential + MaxDelay}

\* calculateBackoff: doubled with every attempt, with up to a tenth more.
Backoff(n) ==
    LET exponential == RetryDelay * 2^n
        capped(d) == IF d < MaxDelay THEN d ELSE MaxDelay
    IN  {capped(d) : d \in exponential .. exponential + exponential \div 10}

\* One fetch, with its timeout.
Post(s) ==
    /\ pc' = [pc EXCEPT ![s] = "post"]
    /\ until' = [until EXCEPT ![s] = now + Timeout]
    /\ flight' = flight \cup {[id |-> s, stamp |-> stamp'[s], attempt |-> attempt'[s]]}

\* send returns; what only served the way there is dropped.
Return(s, success) ==
    /\ pc' = [pc EXCEPT ![s] = IF success THEN "ok" ELSE "failed"]
    /\ stamp' = [stamp EXCEPT ![s] = 0]
    /\ attempt' = [attempt EXCEPT ![s] = 0]
    /\ until' = [until EXCEPT ![s] = 0]

\* Faulty: what is not known to have failed counts as delivered.
RetryOrReturnTrusting(s) ==
    IF attempt[s] < MaxRetries
    THEN /\ pc' = [pc EXCEPT ![s] = "pause"]
         /\ \E d \in Backoff(attempt[s]) : until' = [until EXCEPT ![s] = now + d]
         /\ UNCHANGED <<stamp, attempt>>
    ELSE Return(s, TRUE)

\* An attempt has failed in a way that is worth another one.
RetryOrReturn(s) ==
    IF attempt[s] < MaxRetries
    THEN /\ pc' = [pc EXCEPT ![s] = "pause"]
         /\ \E d \in Backoff(attempt[s]) : until' = [until EXCEPT ![s] = now + d]
         /\ UNCHANGED <<stamp, attempt>>
    ELSE Return(s, FALSE)

\* Any caller may send at any time; one that awaits another send does not.
Send(s) ==
    /\ pc[s] = "new"
    /\ stamp' = [stamp EXCEPT ![s] = now]
    /\ earlier' = [earlier EXCEPT ![s] = Returned]
    /\ UNCHANGED attempt
    /\ Post(s)
    /\ UNCHANGED <<now, accepted>>

Attempt(s) ==
    /\ pc[s] = "pause"
    /\ now = until[s]
    /\ attempt' = [attempt EXCEPT ![s] = @ + 1]
    /\ UNCHANGED <<stamp, earlier>>
    /\ Post(s)
    /\ UNCHANGED <<now, accepted>>

\* Faulty: the timeout is one for the connection only.
TimesOutConnecting(s) ==
    /\ pc[s] = "post"
    /\ now = until[s]
    /\ Request(s) \in flight
    /\ RetryOrReturn(s)
    /\ UNCHANGED <<now, earlier, flight, accepted>>

\* AbortController: the request stays on its way.
TimesOut(s) ==
    /\ pc[s] = "post"
    /\ now = until[s]
    /\ RetryOrReturn(s)
    /\ UNCHANGED <<now, earlier, flight, accepted>>

\* fetch rejects: no connection, or one that breaks.
ConnectionFails(s) ==
    /\ pc[s] = "post"
    /\ RetryOrReturn(s)
    /\ flight' = flight \ {Request(s)}
    /\ UNCHANGED <<now, earlier, accepted>>

\* A request is accepted; its answer arrives, unless it is late or lost.
Accepted(r) ==
    /\ IsValid(r)
    /\ accepted' = Append(accepted, r.id)
    /\ flight' = flight \ {r}
    /\ \/ IsAwaited(r) /\ Return(r.id, TRUE)
       \/ UNCHANGED <<pc, stamp, attempt, until>>
    /\ UNCHANGED <<now, earlier>>

\* A 4xx other than 429 ends the send: the request is stale, or not wanted.
Rejected(r) ==
    /\ flight' = flight \ {r}
    /\ \/ IsAwaited(r) /\ Return(r.id, FALSE)
       \/ UNCHANGED <<pc, stamp, attempt, until>>
    /\ UNCHANGED <<now, earlier, accepted>>

\* 429 or 5xx, before the receiver has looked at the request.
Busy(r) ==
    /\ flight' = flight \ {r}
    /\ IsAwaited(r) /\ RetryOrReturn(r.id)
    /\ UNCHANGED <<now, earlier, accepted>>

Lost(r) ==
    /\ flight' = flight \ {r}
    /\ UNCHANGED <<now, sendVars, accepted>>

\* Timers are on time to the unit of the clock.
Tick ==
    /\ \A s \in Sends : Running(s) => now < until[s]
    /\ now < MaxTime \/ \E s \in Sends : Running(s)
    /\ now' = now + 1
    /\ UNCHANGED <<sendVars, flight, accepted>>

Next ==
    \/ \E s \in Sends : Send(s) \/ Attempt(s) \/ TimesOut(s) \/ ConnectionFails(s)
    \/ \E r \in flight : Accepted(r) \/ Rejected(r) \/ Busy(r) \/ Lost(r)
    \/ Tick

\* Time passes and timers fire; nothing is asked of the network.
Fairness ==
    /\ WF_vars(Tick)
    /\ \A s \in Sends : WF_vars(Attempt(s)) /\ WF_vars(TimesOut(s))

Spec == Init /\ [][Next]_vars
FairSpec == Spec /\ Fairness

-----------------------------------------------------------------------------
TypeOK ==
    /\ now \in Nat
    /\ pc \in [Sends -> {"new", "post", "pause", "ok", "failed"}]
    /\ stamp \in [Sends -> Nat] /\ \A s \in Sends : stamp[s] <= now
    /\ attempt \in [Sends -> 0 .. MaxRetries]
    /\ until \in [Sends -> Int]
    /\ earlier \in [Sends -> SUBSET Sends]
    /\ flight \subseteq Requests
    /\ accepted \in Seq(Sends)

\* One signature serves all attempts of a send: whatever the pauses and the
\* timeouts have taken, an attempt that has not timed out is still fresh.
StaysFresh == \A s \in Sends : pc[s] = "post" => IsValid(Request(s))

\* A send that reports success has been accepted, and before any that began
\* after it had returned, however late the requests that were given up
\* arrive: what one caller sends, each after the other, is accepted in its
\* order.  Sends that run at the same time may be accepted in any order.
SuccessInOrder ==
    \A s \in Sends : pc[s] = "ok" =>
        \E a \in DOMAIN accepted :
            accepted[a] = s /\ \A b \in 1 .. a - 1 : s \notin earlier[accepted[b]]

\* A send returns, even to a receiver that never answers: the worker's cycle
\* waits for it before it executes the actions.
SendReturns == \A s \in Sends : Running(s) ~> s \in Returned
=============================================================================
