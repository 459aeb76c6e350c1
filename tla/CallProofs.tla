------------------------------ MODULE CallProofs ------------------------------
(***************************************************************************)
(* Proofs about the two places that guard calls to the outside: the        *)
(* webhook sink with its retries (WebhookDelivery), for any settings, and  *)
(* the circuit breaker that concurrent calls share (CircuitBreaker), for   *)
(* any number of calls, retries, thresholds and any reset timeout.         *)
(*                                                                         *)
(* Elapsed(n) bounds the time between the timestamp of a send and the      *)
(* begin of its attempt n: n timeouts and n pauses.                        *)
(***************************************************************************)
EXTENDS WebhookDelivery, CircuitBreaker, TLAPS

Elapsed(n) == n * (Timeout + MaxDelay)

\* The time that is left to a send, from the attempts that it has begun.
Timing(s) ==
    /\ pc[s] = "post" => now <= until[s] /\ until[s] - stamp[s] <= Elapsed(attempt[s]) + Timeout
    /\ pc[s] = "pause" => attempt[s] < MaxRetries /\ until[s] - stamp[s] <= Elapsed(attempt[s] + 1)

\* Only what has been sent is on its way or accepted, and the sends that had
\* returned when one began do not run again.
Sent ==
    /\ \A r \in flight : pc[r.id] # "new"
    /\ \A a \in DOMAIN accepted : pc[accepted[a]] # "new"
    /\ \A s \in Sends : earlier[s] \subseteq Returned

AllInTime == \A s \in Sends : Timing(s)

IInv == TypeOK /\ AllInTime /\ Sent /\ SuccessInOrder

LEMMA ElapsedGrows ==
    /\ \A n \in Nat : Elapsed(n) \in Nat /\ Elapsed(n + 1) = Elapsed(n) + Timeout + MaxDelay
    /\ \A n \in 0 .. MaxRetries : Elapsed(n) <= Elapsed(MaxRetries)
    /\ Elapsed(0) = 0
<1> DEFINE b == Timeout + MaxDelay
<1>1. b \in Nat /\ MaxRetries \in Nat /\ Timeout \in Nat /\ MaxDelay \in Nat
  BY WebhookAssumption
<1> HIDE DEF b
<1>2. \A n \in Nat : n * b \in Nat /\ (n + 1) * b = n * b + b
  BY <1>1
<1>3. ASSUME NEW n \in 0 .. MaxRetries PROVE n * b <= MaxRetries * b
  <2>1. PICK k \in Nat : MaxRetries = n + k
    <3>1. MaxRetries - n \in Nat /\ MaxRetries = n + (MaxRetries - n)
      BY <1>1
    <3> QED
      BY <3>1
  <2>2. (n + k) * b = n * b + k * b /\ n * b \in Nat /\ k * b \in Nat
    BY <1>1, <2>1
  <2> QED
    BY <2>1, <2>2
<1>4. 0 * b = 0
  BY <1>1
<1>5. \A n \in Nat : n * b + b = n * b + Timeout + MaxDelay
  BY <1>1, <1>2 DEF b
<1> QED
  BY <1>2, <1>3, <1>4, <1>5 DEF Elapsed, b

LEMMA PauseIsCapped ==
    ASSUME NEW n, NEW d \in Backoff(n)
    PROVE  d \in Int /\ d <= MaxDelay
BY WebhookAssumption DEF Backoff

LEMMA InitIInv == Init => IInv
<1> SUFFICES ASSUME Init PROVE IInv
  OBVIOUS
<1>1. TypeOK
  BY WebhookAssumption DEF Init, TypeOK
<1>2. AllInTime /\ Sent /\ SuccessInOrder
  BY DEF Init, AllInTime, Timing, Sent, SuccessInOrder
<1> QED
  BY <1>1, <1>2 DEF IInv

\* What send s does to the sends: the others stay as they are.
OthersRest(s) ==
    /\ pc' = [pc EXCEPT ![s] = pc'[s]]
    /\ stamp' = [stamp EXCEPT ![s] = stamp'[s]]
    /\ attempt' = [attempt EXCEPT ![s] = attempt'[s]]
    /\ until' = [until EXCEPT ![s] = until'[s]]
    /\ now' = now

\* A send begins, or goes on to another attempt.
Posts(s) ==
    /\ OthersRest(s)
    /\ pc'[s] = "post" /\ until'[s] = now + Timeout
    /\ flight' = flight \cup {[id |-> s, stamp |-> stamp'[s], attempt |-> attempt'[s]]}
    /\ accepted' = accepted

\* A send has failed in an attempt, or for good.
Gives(s) ==
    /\ OthersRest(s)
    /\ pc[s] = "post"
    /\ \/ /\ attempt[s] < MaxRetries /\ pc'[s] = "pause"
          /\ \E d \in Backoff(attempt[s]) : until'[s] = now + d
          /\ UNCHANGED <<stamp, attempt>>
       \/ /\ pc'[s] \in {"ok", "failed"}
          /\ stamp'[s] = 0 /\ attempt'[s] = 0 /\ until'[s] = 0
    /\ flight' \subseteq flight
    /\ UNCHANGED earlier

Rests == flight' \subseteq flight /\ UNCHANGED <<now, pc, stamp, attempt, until, earlier>>

LEMMA SendPosts ==
    ASSUME TypeOK, NEW s \in Sends, Send(s) \/ Attempt(s)
    PROVE  Posts(s)
BY DEF TypeOK, Send, Attempt, Post, Posts, OthersRest

LEMMA FailureGives ==
    ASSUME TypeOK, NEW s \in Sends, pc[s] = "post", RetryOrReturn(s),
           flight' \subseteq flight, UNCHANGED <<now, earlier>>
    PROVE  Gives(s) /\ pc'[s] # "ok"
<1>1. CASE attempt[s] < MaxRetries
  BY <1>1 DEF TypeOK, RetryOrReturn, Gives, OthersRest
<1>2. CASE ~(attempt[s] < MaxRetries)
  BY <1>2 DEF TypeOK, RetryOrReturn, Return, Gives, OthersRest
<1> QED
  BY <1>1, <1>2

LEMMA AnswerGives ==
    ASSUME TypeOK, NEW s \in Sends, NEW success \in BOOLEAN, pc[s] = "post", Return(s, success),
           flight' \subseteq flight, UNCHANGED <<now, earlier>>
    PROVE  Gives(s) /\ pc'[s] = IF success THEN "ok" ELSE "failed"
BY DEF TypeOK, Return, Gives, OthersRest

\* Every step posts, gives up, or leaves the sends alone; only an accepted
\* request adds to what is accepted, and only its send may succeed by it.
Adds(s) == accepted' = Append(accepted, s)

LEMMA WhatHappens ==
    ASSUME TypeOK, [Next]_vars
    PROVE  \/ \E s \in Sends : Send(s) \/ Attempt(s)
           \/ \E s \in Sends : Gives(s) /\ pc'[s] # "ok" /\ accepted' = accepted
           \/ \E r \in flight : Gives(r.id) /\ Adds(r.id)
           \/ \E r \in flight : Rests /\ Adds(r.id)
           \/ Rests /\ accepted' = accepted
           \/ Tick
<1>1. ASSUME NEW s \in Sends, TimesOut(s) \/ ConnectionFails(s)
      PROVE  Gives(s) /\ pc'[s] # "ok" /\ accepted' = accepted
  BY <1>1, FailureGives DEF TimesOut, ConnectionFails
<1>2. ASSUME NEW r \in flight, Busy(r)
      PROVE  r.id \in Sends /\ Gives(r.id) /\ pc'[r.id] # "ok" /\ accepted' = accepted
  <2>1. r.id \in Sends
    BY DEF TypeOK, Requests
  <2> QED
    BY <1>2, <2>1, FailureGives DEF Busy, IsAwaited
<1>3. ASSUME NEW r \in flight, Rejected(r)
      PROVE  \/ r.id \in Sends /\ Gives(r.id) /\ pc'[r.id] # "ok" /\ accepted' = accepted
             \/ Rests /\ accepted' = accepted
  <2>1. r.id \in Sends
    BY DEF TypeOK, Requests
  <2>2. CASE IsAwaited(r) /\ Return(r.id, FALSE)
    BY <1>3, <2>1, <2>2, AnswerGives DEF Rejected, IsAwaited
  <2>3. CASE UNCHANGED <<pc, stamp, attempt, until>>
    BY <1>3, <2>3 DEF Rejected, Rests
  <2> QED
    BY <1>3, <2>2, <2>3 DEF Rejected
<1>4. ASSUME NEW r \in flight, Accepted(r)
      PROVE  (Gives(r.id) \/ Rests) /\ Adds(r.id)
  <2>1. r.id \in Sends
    BY DEF TypeOK, Requests
  <2>2. CASE IsAwaited(r) /\ Return(r.id, TRUE)
    BY <1>4, <2>1, <2>2, AnswerGives DEF Accepted, IsAwaited, Adds
  <2>3. CASE UNCHANGED <<pc, stamp, attempt, until>>
    BY <1>4, <2>3 DEF Accepted, Rests, Adds
  <2> QED
    BY <1>4, <2>2, <2>3 DEF Accepted
<1>5. ASSUME NEW r \in flight, Lost(r) PROVE Rests /\ accepted' = accepted
  BY <1>5 DEF Lost, Rests, sendVars
<1>6. CASE UNCHANGED vars
  BY <1>6 DEF Rests, vars, sendVars
<1> QED
  BY <1>1, <1>2, <1>3, <1>4, <1>5, <1>6 DEF Next

LEMMA AppendIs ==
    ASSUME NEW S, NEW t \in Seq(S), NEW x \in S
    PROVE  /\ Append(t, x) \in Seq(S)
           /\ Len(t) \in Nat /\ DOMAIN t = 1 .. Len(t)
           /\ DOMAIN Append(t, x) = 1 .. Len(t) + 1
           /\ Append(t, x)[Len(t) + 1] = x
           /\ \A i \in DOMAIN t : i \in DOMAIN Append(t, x) /\ Append(t, x)[i] = t[i] /\ t[i] \in S
OBVIOUS

\* What is accepted when a request of send s is.
LEMMA AddsAtEnd ==
    ASSUME TypeOK, NEW s \in Sends, Adds(s)
    PROVE  /\ accepted' \in Seq(Sends)
           /\ Len(accepted) \in Nat /\ DOMAIN accepted = 1 .. Len(accepted)
           /\ DOMAIN accepted' = 1 .. Len(accepted) + 1
           /\ accepted'[Len(accepted) + 1] = s
           /\ \A i \in DOMAIN accepted :
                 i \in DOMAIN accepted' /\ accepted'[i] = accepted[i] /\ accepted[i] \in Sends
<1>1. accepted \in Seq(Sends) /\ accepted' = Append(accepted, s)
  BY DEF TypeOK, Adds
<1>2. ASSUME NEW t, t = Append(accepted, s)
      PROVE  /\ t \in Seq(Sends)
             /\ Len(accepted) \in Nat /\ DOMAIN accepted = 1 .. Len(accepted)
             /\ DOMAIN t = 1 .. Len(accepted) + 1
             /\ t[Len(accepted) + 1] = s
             /\ \A i \in DOMAIN accepted :
                   i \in DOMAIN t /\ t[i] = accepted[i] /\ accepted[i] \in Sends
  BY <1>1, <1>2, AppendIs
<1> QED
  BY <1>1, <1>2

LEMMA AppendsType ==
    ASSUME TypeOK, accepted' = accepted \/ \E s \in Sends : Adds(s)
    PROVE  accepted' \in Seq(Sends)
BY AddsAtEnd DEF TypeOK

LEMMA StepTypes == TypeOK /\ AllInTime /\ [Next]_vars => TypeOK'
<1> SUFFICES ASSUME TypeOK, AllInTime, [Next]_vars PROVE TypeOK'
  OBVIOUS
<1> USE WebhookAssumption
<1>1. ASSUME NEW s \in Sends, Send(s) PROVE TypeOK'
  <2>1. Returned \subseteq Sends
    BY DEF Returned
  <2> QED
    BY <1>1, <2>1 DEF Send, Post, TypeOK, Requests
<1>2. ASSUME NEW s \in Sends, Attempt(s) PROVE TypeOK'
  <2>1. attempt[s] + 1 \in 0 .. MaxRetries
    BY <1>2 DEF Attempt, AllInTime, Timing, TypeOK
  <2>2. /\ attempt' = [attempt EXCEPT ![s] = attempt[s] + 1]
        /\ UNCHANGED <<now, stamp, earlier, accepted>>
        /\ pc' = [pc EXCEPT ![s] = "post"] /\ until' = [until EXCEPT ![s] = now + Timeout]
        /\ flight' = flight \cup {[id |-> s, stamp |-> stamp'[s], attempt |-> attempt'[s]]}
    BY <1>2 DEF Attempt, Post
  <2>3. attempt'[s] \in 0 .. MaxRetries /\ stamp'[s] \in Nat /\ attempt' \in [Sends -> 0 .. MaxRetries]
    BY <2>1, <2>2 DEF TypeOK
  <2> QED
    BY <2>2, <2>3 DEF TypeOK, Requests
<1>3. ASSUME NEW s \in Sends, Gives(s), accepted' \in Seq(Sends) PROVE TypeOK'
  <2>1. until'[s] \in Int
    BY <1>3, PauseIsCapped DEF Gives, TypeOK
  <2>2. pc'[s] \in {"ok", "failed", "pause"}
    BY <1>3 DEF Gives
  <2>3. stamp'[s] \in Nat /\ stamp'[s] <= now /\ attempt'[s] \in 0 .. MaxRetries
    BY <1>3 DEF Gives, TypeOK
  <2>4. pc' \in [Sends -> {"new", "post", "pause", "ok", "failed"}] /\ until' \in [Sends -> Int]
    <3>1. /\ pc' = [pc EXCEPT ![s] = pc'[s]]
          /\ pc'[s] \in {"new", "post", "pause", "ok", "failed"}
      BY <1>3, <2>2 DEF Gives, OthersRest
    <3>2. until' = [until EXCEPT ![s] = until'[s]]
      BY <1>3 DEF Gives, OthersRest
    <3>3. pc' \in [Sends -> {"new", "post", "pause", "ok", "failed"}]
      BY <3>1 DEF TypeOK
    <3> QED
      BY <2>1, <3>2, <3>3 DEF TypeOK
  <2>5. stamp' \in [Sends -> Nat] /\ attempt' \in [Sends -> 0 .. MaxRetries]
    BY <1>3, <2>3 DEF Gives, OthersRest, TypeOK
  <2>6. now' = now /\ \A q \in Sends : stamp'[q] <= now
    BY <1>3, <2>3 DEF Gives, OthersRest, TypeOK
  <2> QED
    BY <1>3, <2>4, <2>5, <2>6 DEF Gives, TypeOK
<1>4. ASSUME Rests, accepted' \in Seq(Sends) PROVE TypeOK'
  BY <1>4 DEF Rests, TypeOK
<1>5. CASE Tick
  BY <1>5 DEF Tick, sendVars, TypeOK
<1>6. \A r \in flight : r.id \in Sends
  BY DEF TypeOK, Requests
<1> QED
  BY <1>1, <1>2, <1>3, <1>4, <1>5, <1>6, WhatHappens, AppendsType

\* A send that does not move stays in time while others do.
LEMMA RestInTime ==
    ASSUME NEW s \in Sends, Timing(s), now' = now, pc'[s] = pc[s], stamp'[s] = stamp[s],
           attempt'[s] = attempt[s], until'[s] = until[s]
    PROVE  Timing(s)'
BY DEF Timing, Elapsed

LEMMA StepTiming == TypeOK /\ AllInTime /\ [Next]_vars => AllInTime'
<1> SUFFICES ASSUME TypeOK, AllInTime, [Next]_vars PROVE AllInTime'
  OBVIOUS
<1> USE WebhookAssumption
<1>1. ASSUME NEW s \in Sends, OthersRest(s), Timing(s)' PROVE AllInTime'
  <2>1. ASSUME NEW q \in Sends, q # s PROVE Timing(q)'
    <3>1. /\ pc'[q] = pc[q] /\ stamp'[q] = stamp[q] /\ attempt'[q] = attempt[q]
          /\ until'[q] = until[q] /\ now' = now
      BY <1>1, <2>1 DEF OthersRest, TypeOK
    <3> QED
      BY <3>1, RestInTime DEF AllInTime
  <2> QED
    BY <1>1, <2>1 DEF AllInTime
<1>2. ASSUME NEW s \in Sends, Send(s) PROVE AllInTime'
  <2>1. Posts(s)
    BY <1>2, SendPosts
  <2>2. stamp'[s] = now /\ attempt'[s] = attempt[s] /\ attempt[s] \in Nat
    BY <1>2 DEF Send, TypeOK
  <2>3. Elapsed(attempt[s]) \in Nat /\ Elapsed(attempt[s])' = Elapsed(attempt[s])'
    BY <2>2, ElapsedGrows
  <2>4. Elapsed(attempt'[s]) \in Nat
    BY <2>2, <2>3
  <2>5. now' = now /\ now \in Nat /\ until'[s] = now + Timeout /\ pc'[s] = "post"
    BY <2>1 DEF Posts, OthersRest, TypeOK
  <2>6. now' <= until'[s] /\ until'[s] - stamp'[s] <= Elapsed(attempt'[s]) + Timeout
    BY <2>2, <2>4, <2>5
  <2>7. Timing(s)'
    BY <2>5, <2>6 DEF Timing, Elapsed
  <2> QED
    BY <1>1, <2>1, <2>7 DEF Posts
<1>3. ASSUME NEW s \in Sends, Attempt(s) PROVE AllInTime'
  <2>1. Posts(s)
    BY <1>3, SendPosts
  <2>2. /\ stamp'[s] = stamp[s] /\ attempt'[s] = attempt[s] + 1 /\ attempt[s] \in Nat
        /\ stamp[s] \in Int /\ now \in Int /\ now = until[s]
        /\ until[s] - stamp[s] <= Elapsed(attempt[s] + 1)
    BY <1>3 DEF Attempt, TypeOK, AllInTime, Timing
  <2>3. Elapsed(attempt[s] + 1) \in Nat
    BY <2>2, ElapsedGrows
  <2>4. now' = now /\ until'[s] = now + Timeout /\ pc'[s] = "post"
    BY <2>1 DEF Posts, OthersRest
  <2>5. now' <= until'[s] /\ until'[s] - stamp'[s] <= Elapsed(attempt[s] + 1) + Timeout
    BY <2>2, <2>3, <2>4
  <2>6. Timing(s)'
    BY <2>2, <2>4, <2>5 DEF Timing, Elapsed
  <2> QED
    BY <1>1, <2>1, <2>6 DEF Posts
<1>4. ASSUME NEW s \in Sends, Gives(s) PROVE AllInTime'
  <2>1. CASE pc'[s] \in {"ok", "failed"}
    <3>1. Timing(s)'
      BY <2>1 DEF Timing
    <3> QED
      BY <1>1, <1>4, <3>1 DEF Gives
  <2>2. CASE pc'[s] \notin {"ok", "failed"}
    <3>1. PICK d \in Backoff(attempt[s]) : until'[s] = now + d
      BY <1>4, <2>2 DEF Gives
    <3>2. /\ attempt[s] < MaxRetries /\ pc'[s] = "pause" /\ pc[s] = "post"
          /\ UNCHANGED <<stamp, attempt>>
      BY <1>4, <2>2 DEF Gives
    <3>3. /\ d \in Int /\ d <= MaxDelay
          /\ now <= until[s] /\ until[s] - stamp[s] <= Elapsed(attempt[s]) + Timeout
          /\ attempt[s] \in Nat /\ stamp[s] \in Int /\ now \in Int /\ until[s] \in Int
      BY <3>2, PauseIsCapped DEF TypeOK, AllInTime, Timing
    <3>4. /\ Elapsed(attempt[s] + 1) = Elapsed(attempt[s]) + Timeout + MaxDelay
          /\ Elapsed(attempt[s]) \in Nat
      BY <3>3, ElapsedGrows
    <3>5. until'[s] - stamp[s] <= Elapsed(attempt[s] + 1)
      BY <3>1, <3>3, <3>4
    <3>6. Timing(s)'
      BY <3>2, <3>5 DEF Timing, Elapsed
    <3> QED
      BY <1>1, <1>4, <3>6 DEF Gives
  <2> QED
    BY <2>1, <2>2
<1>5. CASE Rests
  BY <1>5, RestInTime DEF Rests, AllInTime
<1>6. CASE Tick
  <2> SUFFICES ASSUME NEW s \in Sends PROVE Timing(s)'
    BY DEF AllInTime
  <2>1. /\ pc'[s] = pc[s] /\ stamp'[s] = stamp[s] /\ attempt'[s] = attempt[s]
        /\ until'[s] = until[s] /\ now' = now + 1 /\ now \in Int /\ until[s] \in Int
        /\ pc[s] = "post" => now < until[s]
    BY <1>6 DEF Tick, sendVars, Running, TypeOK
  <2> QED
    BY <2>1 DEF AllInTime, Timing, Elapsed
<1>7. \A r \in flight : r.id \in Sends
  BY DEF TypeOK, Requests
<1> QED
  BY <1>2, <1>3, <1>4, <1>5, <1>6, <1>7, WhatHappens

\* No send runs again, and one that begins knows those that have returned.
LEMMA StepSent == TypeOK /\ Sent /\ [Next]_vars => Sent'
<1> SUFFICES ASSUME TypeOK, Sent, [Next]_vars PROVE Sent'
  OBVIOUS
<1>0. \A r \in flight : r.id \in Sends /\ pc[r.id] # "new"
  BY DEF TypeOK, Requests, Sent
<1>1. ASSUME NEW s \in Sends, Send(s) \/ Attempt(s) PROVE Sent'
  <2>1. Posts(s) /\ pc[s] \in {"new", "pause"}
    BY <1>1, SendPosts DEF Send, Attempt
  <2>2. \A q \in Sends : pc[q] # "new" => pc'[q] # "new"
    BY <2>1 DEF Posts, OthersRest, TypeOK
  <2>3. Returned' = Returned
    BY <2>1 DEF Posts, OthersRest, Returned, TypeOK
  <2>4. \A q \in Sends : earlier'[q] = earlier[q] \/ earlier'[q] = Returned
    BY <1>1 DEF Send, Attempt, TypeOK
  <2>5. \A r \in flight' : pc'[r.id] # "new"
    <3>1. pc'[s] = "post"
      BY <2>1 DEF Posts
    <3> QED
      BY <1>0, <2>1, <2>2, <3>1 DEF Posts
  <2>6. \A a \in DOMAIN accepted' : pc'[accepted'[a]] # "new"
    BY <2>1, <2>2 DEF Posts, Sent, TypeOK
  <2> QED
    BY <2>3, <2>4, <2>5, <2>6 DEF Sent
<1>2. ASSUME flight' \subseteq flight, UNCHANGED earlier,
             \A q \in Sends : pc[q] # "new" => pc'[q] # "new",
             Returned \subseteq Returned',
             accepted' = accepted \/ \E r \in flight : Adds(r.id)
      PROVE  Sent'
  <2>1. \A r \in flight' : pc'[r.id] # "new"
    BY <1>0, <1>2
  <2>2. \A a \in DOMAIN accepted' : accepted'[a] \in Sends /\ pc[accepted'[a]] # "new"
    <3>1. CASE accepted' = accepted
      BY <3>1 DEF Sent, TypeOK
    <3>2. ASSUME NEW r \in flight, Adds(r.id)
          PROVE  \A a \in DOMAIN accepted' : accepted'[a] \in Sends /\ pc[accepted'[a]] # "new"
      <4>1. /\ DOMAIN accepted' = 1 .. Len(accepted) + 1 /\ accepted'[Len(accepted) + 1] = r.id
            /\ DOMAIN accepted = 1 .. Len(accepted) /\ Len(accepted) \in Nat
            /\ \A a \in DOMAIN accepted : accepted'[a] = accepted[a] /\ accepted[a] \in Sends
        BY <1>0, <3>2, AddsAtEnd
      <4> QED
        BY <1>0, <4>1 DEF Sent
    <3> QED
      BY <1>2, <3>1, <3>2
  <2> QED
    BY <1>2, <2>1, <2>2 DEF Sent
<1>3. ASSUME NEW s \in Sends, Gives(s), accepted' = accepted \/ \E r \in flight : Adds(r.id)
      PROVE  Sent'
  <2>1. \A q \in Sends : pc[q] # "new" => pc'[q] # "new"
    BY <1>3 DEF Gives, OthersRest, TypeOK
  <2>2. Returned \subseteq Returned'
    BY <1>3 DEF Gives, OthersRest, Returned, TypeOK
  <2> QED
    BY <1>2, <1>3, <2>1, <2>2 DEF Gives
<1>4. CASE Rests /\ (accepted' = accepted \/ \E r \in flight : Adds(r.id))
  BY <1>2, <1>4 DEF Rests, Returned
<1>5. CASE Tick
  BY <1>2, <1>5 DEF Tick, sendVars, Returned
<1> QED
  BY <1>0, <1>1, <1>3, <1>4, <1>5, WhatHappens

\* What stands first in the order stays there: requests are accepted behind
\* it, and a send that begins has not been accepted.
LEMMA OrderKept ==
    ASSUME TypeOK, Sent, NEW s \in Sends,
           \E a \in DOMAIN accepted :
              accepted[a] = s /\ \A b \in 1 .. a - 1 : s \notin earlier[accepted[b]],
           accepted' = accepted \/ \E q \in Sends : Adds(q),
           \A q \in Sends : pc[q] # "new" => earlier'[q] = earlier[q]
    PROVE  \E a \in DOMAIN accepted' :
              accepted'[a] = s /\ \A b \in 1 .. a - 1 : s \notin earlier'[accepted'[b]]
<1>1. PICK a \in DOMAIN accepted :
              accepted[a] = s /\ \A b \in 1 .. a - 1 : s \notin earlier[accepted[b]]
  OBVIOUS
<1>2. /\ DOMAIN accepted = 1 .. Len(accepted) /\ Len(accepted) \in Nat
      /\ \A b \in DOMAIN accepted : b \in DOMAIN accepted' /\ accepted'[b] = accepted[b]
  <2>1. CASE accepted' = accepted
    BY <2>1 DEF TypeOK
  <2>2. ASSUME NEW q \in Sends, Adds(q)
        PROVE  /\ DOMAIN accepted = 1 .. Len(accepted) /\ Len(accepted) \in Nat
               /\ \A b \in DOMAIN accepted : b \in DOMAIN accepted' /\ accepted'[b] = accepted[b]
    BY <2>2, AddsAtEnd
  <2> QED
    BY <2>1, <2>2
<1>3. ASSUME NEW b \in 1 .. a - 1 PROVE s \notin earlier'[accepted'[b]]
  <2>1. b \in DOMAIN accepted
    BY <1>2
  <2>2. accepted[b] \in Sends /\ pc[accepted[b]] # "new"
    BY <2>1 DEF Sent, TypeOK
  <2> QED
    BY <1>1, <1>2, <2>1, <2>2
<1> QED
  BY <1>1, <1>2, <1>3

LEMMA StepOrder == TypeOK /\ Sent /\ SuccessInOrder /\ [Next]_vars => SuccessInOrder'
<1> SUFFICES ASSUME TypeOK, Sent, SuccessInOrder, [Next]_vars, NEW s \in Sends, pc'[s] = "ok"
             PROVE  \E a \in DOMAIN accepted' :
                       accepted'[a] = s /\ \A b \in 1 .. a - 1 : s \notin earlier'[accepted'[b]]
  BY DEF SuccessInOrder
<1>0. \A r \in flight : r.id \in Sends
  BY DEF TypeOK, Requests
<1>1. /\ accepted' = accepted \/ \E q \in Sends : Adds(q)
      /\ \A q \in Sends : pc[q] # "new" => earlier'[q] = earlier[q]
  <2>1. ASSUME NEW q \in Sends, Send(q) \/ Attempt(q)
        PROVE  accepted' = accepted /\ \A p \in Sends : pc[p] # "new" => earlier'[p] = earlier[p]
    BY <2>1 DEF Send, Attempt, TypeOK
  <2> QED
    BY <1>0, <2>1, WhatHappens DEF Gives, Rests, Tick, sendVars
<1>2. CASE pc[s] = "ok"
  BY <1>1, <1>2, OrderKept DEF SuccessInOrder
<1>3. CASE pc[s] # "ok"
  <2>1. PICK r \in flight : Gives(r.id) /\ Adds(r.id)
    <3>1. ASSUME NEW q \in Sends, Send(q) \/ Attempt(q) PROVE FALSE
      <4>1. Posts(q)
        BY <3>1, SendPosts
      <4> QED
        BY <1>3, <4>1 DEF Posts, OthersRest, TypeOK
    <3>2. ASSUME NEW q \in Sends, Gives(q), pc'[q] # "ok" PROVE FALSE
      BY <1>3, <3>2 DEF Gives, OthersRest, TypeOK
    <3>3. ~Rests /\ ~Tick
      BY <1>3 DEF Rests, Tick, sendVars
    <3> QED
      BY <3>1, <3>2, <3>3, WhatHappens
  <2>2. s = r.id /\ pc[s] = "post" /\ earlier' = earlier
    BY <1>0, <1>3, <2>1 DEF Gives, OthersRest, TypeOK
  <2>3. /\ Len(accepted) \in Nat /\ DOMAIN accepted = 1 .. Len(accepted)
        /\ DOMAIN accepted' = 1 .. Len(accepted) + 1 /\ accepted'[Len(accepted) + 1] = s
        /\ \A b \in DOMAIN accepted : accepted'[b] = accepted[b]
    BY <1>0, <2>1, <2>2, AddsAtEnd
  <2>4. \A q \in Sends : s \notin earlier[q]
    BY <2>2 DEF Sent, Returned
  <2>5. ASSUME NEW b \in 1 .. (Len(accepted) + 1) - 1 PROVE s \notin earlier'[accepted'[b]]
    <3>1. b \in DOMAIN accepted
      BY <2>3
    <3>2. accepted'[b] = accepted[b] /\ accepted[b] \in Sends
      BY <1>0, <2>1, <3>1, AddsAtEnd
    <3> QED
      BY <2>2, <2>4, <3>2
  <2> QED
    BY <2>3, <2>5
<1> QED
  BY <1>2, <1>3

LEMMA StepIInv == IInv /\ [Next]_vars => IInv'
BY StepTypes, StepTiming, StepSent, StepOrder DEF IInv

\* For all settings whose attempts and pauses fit into the receiver's limit on
\* age, and any number of sends at a time, an attempt is fresh until it times
\* out.
THEOREM AttemptsStayFresh == Spec => []StaysFresh
<1>1. IInv => StaysFresh
  <2> SUFFICES ASSUME IInv, NEW s \in Sends, pc[s] = "post"
               PROVE  now + Skew - stamp[s] <= MaxAge /\ now + Skew - stamp[s] >= -60
    BY DEF StaysFresh, IsValid, Request
  <2>1. /\ now <= until[s] /\ until[s] - stamp[s] <= Elapsed(attempt[s]) + Timeout
        /\ now \in Int /\ until[s] \in Int /\ stamp[s] \in Int /\ stamp[s] <= now
    BY DEF IInv, TypeOK, AllInTime, Timing
  <2>2. /\ Elapsed(attempt[s]) <= Elapsed(MaxRetries)
        /\ Elapsed(attempt[s]) \in Nat /\ Elapsed(MaxRetries) \in Nat
    <3>1. attempt[s] \in 0 .. MaxRetries /\ attempt[s] \in Nat /\ MaxRetries \in Nat
      BY WebhookAssumption DEF IInv, TypeOK
    <3> QED
      BY <3>1, ElapsedGrows
  <2>3. Elapsed(MaxRetries) + Timeout + Skew <= MaxAge
    BY WebhookAssumption DEF Budget, Elapsed
  <2> QED
    BY <2>1, <2>2, <2>3, WebhookAssumption
<1> QED
  BY <1>1, InitIInv, StepIInv, PTL DEF Spec

\* However many sends run at a time: success is never reported for one that
\* was not accepted, or that the receiver accepts only after one that began
\* when it had returned.
THEOREM SuccessIsInOrder == Spec => []SuccessInOrder
<1>1. IInv => SuccessInOrder
  BY DEF IInv
<1> QED
  BY <1>1, InitIInv, StepIInv, PTL DEF Spec

-----------------------------------------------------------------------------
(* The circuit breaker. *)

BreakerInv == CBTypeOK /\ CountsMatchState /\ HalfOpenIsQuiet

\* What the breaker's own steps do to its variables.
BreakerOK ==
    /\ state \in States
    /\ failures \in 0 .. FailureThreshold
    /\ successes \in 0 .. SuccessThreshold
    /\ quiet \in 0 .. ResetTimeout
    /\ CountsMatchState
    /\ HalfOpenIsQuiet

LEMMA BreakerSteps ==
    ASSUME BreakerOK, IsAllowed \/ RecordSuccess \/ RecordFailure
    PROVE  BreakerOK'
<1> USE BreakerAssumption DEF BreakerOK, CountsMatchState, HalfOpenIsQuiet, States, TransitionTo
<1>1. CASE IsAllowed BY <1>1 DEF IsAllowed
<1>2. CASE RecordSuccess BY <1>2 DEF RecordSuccess
<1>3. CASE RecordFailure BY <1>3 DEF RecordFailure, Counted
<1> QED BY <1>1, <1>2, <1>3

LEMMA CallSteps ==
    ASSUME BreakerInv, NEW c \in Calls, CallStep(c)
    PROVE  BreakerInv'
<1>1. BreakerOK /\ CBTypeOK
    BY DEF BreakerInv, BreakerOK, CBTypeOK
<1>2. BreakerOK'
    <2>1. CASE UNCHANGED breaker
        BY <1>1, <2>1 DEF BreakerOK, CountsMatchState, HalfOpenIsQuiet, breaker
    <2>2. CASE ~UNCHANGED breaker
        BY <1>1, <2>2, BreakerSteps DEF CallStep, Begin, Succeeds, BacksOff, TriesAgain, Fails
    <2> QED BY <2>1, <2>2
<1>3. /\ health' \in {"up", "down"} /\ awaits' \in [Calls -> PCs]
      /\ tries' \in [Calls -> 0 .. CallRetries]
    <2> USE <1>1, BreakerAssumption DEF CBTypeOK, PCs
    <2>1. CASE Begin(c) BY <2>1 DEF Begin
    <2>2. CASE Succeeds(c) BY <2>2 DEF Succeeds, Finish
    <2>3. CASE BacksOff(c) BY <2>3 DEF BacksOff
    <2>4. CASE TriesAgain(c) BY <2>4 DEF TriesAgain
    <2>5. CASE Fails(c) BY <2>5 DEF Fails, Finish
    <2> QED BY <2>1, <2>2, <2>3, <2>4, <2>5 DEF CallStep
<1> QED BY <1>2, <1>3 DEF BreakerInv, BreakerOK, CBTypeOK

LEMMA BreakerInvariant == CBSpec => []BreakerInv
<1>1. CBInit => BreakerInv
    BY BreakerAssumption
       DEF CBInit, BreakerInv, CBTypeOK, CountsMatchState, HalfOpenIsQuiet, States, PCs
<1>2. BreakerInv /\ [CBNext]_cbVars => BreakerInv'
    <2> SUFFICES ASSUME BreakerInv, [CBNext]_cbVars PROVE BreakerInv'
        OBVIOUS
    <2> USE BreakerAssumption
            DEF BreakerInv, CBTypeOK, CountsMatchState, HalfOpenIsQuiet, callVars, breaker
    <2>1. CASE TimePasses BY <2>1 DEF TimePasses
    <2>2. CASE Reset BY <2>2 DEF Reset, TransitionTo, States
    <2>3. CASE HealthChanges BY <2>3 DEF HealthChanges
    <2>4. CASE UNCHANGED cbVars BY <2>4 DEF cbVars
    <2> QED BY <2>1, <2>2, <2>3, <2>4, CallSteps DEF CBNext
<1> QED BY <1>1, <1>2, PTL DEF CBSpec

\* Breaker and calls keep their types: no call tries more than CallRetries
\* times again.
THEOREM BreakerTypesCorrect == CBSpec => []CBTypeOK
<1>1. BreakerInv => CBTypeOK
    BY DEF BreakerInv
<1> QED BY <1>1, BreakerInvariant, PTL

\* Counters and state agree, whatever calls report late.
THEOREM CountersAgree == CBSpec => []CountsMatchState
<1>1. BreakerInv => CountsMatchState
    BY DEF BreakerInv
<1> QED BY <1>1, BreakerInvariant, PTL

\* While the circuit is half-open no call has failed for the reset timeout.
THEOREM HalfOpenMeansQuiet == CBSpec => []HalfOpenIsQuiet
<1>1. BreakerInv => HalfOpenIsQuiet
    BY DEF BreakerInv
<1> QED BY <1>1, BreakerInvariant, PTL
=============================================================================
