--------------------------- MODULE CircuitBreaker ---------------------------
(***************************************************************************)
(* resilient calls that share one CircuitBreaker, as every method of       *)
(* ResilientIrsbClient does (packages/resilience/src/index.ts,             *)
(* packages/irsb-adapter/src/resilientClient.ts).  A call is admitted by   *)
(* isAllowed, tries the service up to MaxRetries + 1 times with a pause    *)
(* before every retry, and reports its final result to the breaker, which  *)
(* may be in another state by then.                                        *)
(*                                                                         *)
(* The code compares failures with its threshold and the time since the    *)
(* last failure with the reset timeout, and nothing else: both are counted *)
(* here up to that value.                                                  *)
(***************************************************************************)
EXTENDS Integers

CONSTANTS
    Calls,             \* slots for concurrent calls
    CallRetries,       \* RetryConfig.maxRetries
    FailureThreshold, SuccessThreshold, \* CircuitBreakerConfig
    ResetTimeout       \* resetTimeoutMs, in ticks

ASSUME BreakerAssumption ==
    /\ CallRetries \in Nat
    /\ FailureThreshold \in Nat \ {0}
    /\ SuccessThreshold \in Nat \ {0}
    /\ ResetTimeout \in Nat

VARIABLES
    health,    \* of the service: the attempts that end now succeed ("up")
               \* or fail ("down"), for a transient reason or for good
    state,     \* CircuitBreaker.state
    failures,  \* CircuitBreaker.failures, at most FailureThreshold
    successes, \* CircuitBreaker.successes
    quiet,     \* Date.now() - lastFailureTime, at most ResetTimeout
    awaits,    \* per call: what it awaits
    tries      \* per call: attempt of withRetry

breaker == <<state, failures, successes, quiet>>
callVars == <<awaits, tries>>
cbVars == <<health, breaker, callVars>>

States == {"closed", "open", "half-open"}
PCs == {"idle", "service", "backoff"}

\* lastFailureTime starts as 0, long ago.
CBInit ==
    /\ health = "up"
    /\ state = "closed"
    /\ failures = 0
    /\ successes = 0
    /\ quiet = ResetTimeout
    /\ awaits = [c \in Calls |-> "idle"]
    /\ tries = [c \in Calls |-> 0]

-----------------------------------------------------------------------------
(* The circuit breaker. *)

\* transitionTo(to) with the counters f and s of before: nothing for the
\* state it has already.
TransitionTo(to, f, s) ==
    /\ state' = to
    /\ failures' = IF to = "closed" /\ state # to THEN 0 ELSE f
    /\ successes' = IF to \in {"closed", "half-open"} /\ state # to THEN 0 ELSE s

\* Faulty: the half-open circuit forgets the failures that opened it.
IsAllowedForgets ==
    /\ state = "open" => quiet >= ResetTimeout
    /\ state' = IF state = "open" THEN "half-open" ELSE state
    /\ failures' = IF state = "open" THEN 0 ELSE failures
    /\ successes' = IF state = "open" THEN 0 ELSE successes
    /\ UNCHANGED quiet

\* Faulty: a half-open circuit lets a single call through.
IsAllowedOnce ==
    /\ state \in {"open", "half-open"} => state = "open" /\ quiet >= ResetTimeout
    /\ TransitionTo(IF state = "open" THEN "half-open" ELSE state, failures, successes)
    /\ UNCHANGED quiet

\* isAllowed() returns true; an open circuit becomes half-open first.
IsAllowed ==
    /\ state = "open" => quiet >= ResetTimeout
    /\ TransitionTo(IF state = "open" THEN "half-open" ELSE state, failures, successes)
    /\ UNCHANGED quiet

\* A success counts while half-open and clears the failures while closed.
RecordSuccess ==
    /\ IF state = "half-open"
       THEN TransitionTo(IF successes + 1 >= SuccessThreshold THEN "closed" ELSE state,
                         failures, successes + 1)
       ELSE /\ failures' = IF state = "closed" THEN 0 ELSE failures
            /\ UNCHANGED <<state, successes>>
    /\ UNCHANGED quiet

Counted == IF failures < FailureThreshold THEN failures + 1 ELSE failures

\* Faulty: only a closed circuit opens.
RecordFailureWhenClosed ==
    /\ quiet' = 0
    /\ TransitionTo(IF state = "closed" /\ Counted >= FailureThreshold THEN "open" ELSE state,
                    Counted, successes)

\* Every failure counts (isFailure is its default, true for any error) and
\* restarts the timeout, in any state; it opens a half-open circuit at once
\* and a closed one at the threshold.
RecordFailure ==
    /\ quiet' = 0
    /\ TransitionTo(IF \/ state = "half-open"
                       \/ state = "closed" /\ Counted >= FailureThreshold
                    THEN "open" ELSE state,
                    Counted, successes)

\* resetCircuit of the client.
Reset ==
    /\ TransitionTo("closed", failures, successes)
    /\ UNCHANGED <<health, quiet, callVars>>

TimePasses ==
    /\ quiet < ResetTimeout
    /\ quiet' = quiet + 1
    /\ UNCHANGED <<health, state, failures, successes, callVars>>

HealthChanges ==
    /\ health' \in {"up", "down"}
    /\ UNCHANGED <<breaker, callVars>>

-----------------------------------------------------------------------------
(* resilient(fn): the breaker is asked once, told once, and not consulted   *)
(* between the attempts.  A call that is refused leaves everything as it is. *)

Begin(c) ==
    /\ awaits[c] = "idle"
    /\ IsAllowed
    /\ awaits' = [awaits EXCEPT ![c] = "service"]
    /\ tries' = [tries EXCEPT ![c] = 0]
    /\ UNCHANGED health

Finish(c) ==
    /\ awaits' = [awaits EXCEPT ![c] = "idle"]
    /\ tries' = [tries EXCEPT ![c] = 0]
    /\ UNCHANGED health

Succeeds(c) ==
    /\ awaits[c] = "service"
    /\ health = "up"
    /\ RecordSuccess
    /\ Finish(c)

\* A transient error with attempts left: pause.
BacksOff(c) ==
    /\ awaits[c] = "service"
    /\ health = "down"
    /\ tries[c] < CallRetries
    /\ awaits' = [awaits EXCEPT ![c] = "backoff"]
    /\ tries' = [tries EXCEPT ![c] = @ + 1]
    /\ UNCHANGED <<health, breaker>>

TriesAgain(c) ==
    /\ awaits[c] = "backoff"
    /\ awaits' = [awaits EXCEPT ![c] = "service"]
    /\ UNCHANGED <<health, breaker, tries>>

\* The last attempt fails, or an attempt fails with an error that is not
\* retried.
Fails(c) ==
    /\ awaits[c] = "service"
    /\ health = "down"
    /\ RecordFailure
    /\ Finish(c)

CallStep(c) == Begin(c) \/ Succeeds(c) \/ BacksOff(c) \/ TriesAgain(c) \/ Fails(c)

CBNext ==
    \/ \E c \in Calls : CallStep(c)
    \/ TimePasses
    \/ Reset
    \/ HealthChanges

CBSpec == CBInit /\ [][CBNext]_cbVars

\* Somebody keeps calling, every call ends, time passes, and the service is
\* up for good in the end.
CBFairness ==
    /\ \A c \in Calls : WF_cbVars(CallStep(c))
    /\ WF_cbVars(TimePasses)
    /\ <>[](health = "up")

CBFairSpec == CBSpec /\ CBFairness

-----------------------------------------------------------------------------
CBTypeOK ==
    /\ health \in {"up", "down"}
    /\ state \in States
    /\ failures \in 0 .. FailureThreshold
    /\ successes \in 0 .. SuccessThreshold
    /\ quiet \in 0 .. ResetTimeout
    /\ awaits \in [Calls -> PCs]
    /\ tries \in [Calls -> 0 .. CallRetries]

\* The counters agree with the state, whatever calls of an earlier state
\* report when: the circuit is closed exactly while the failures are below
\* the threshold, and half-open only before enough successes were counted.
CountsMatchState ==
    /\ state = "closed" <=> failures < FailureThreshold
    /\ state = "half-open" => successes < SuccessThreshold

\* No failure goes unnoticed by a half-open circuit, not even that of a call
\* admitted long before: while it is half-open the last failure of any call
\* is at least the reset timeout ago.
HalfOpenIsQuiet == state = "half-open" => quiet >= ResetTimeout

\* A circuit does not stay open once the service is well: it probes and
\* closes, although late failures restart its timeout.
Recovers == state # "closed" ~> state = "closed"
=============================================================================
