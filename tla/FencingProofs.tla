---------------------------- MODULE FencingProofs ----------------------------
(***************************************************************************)
(* What outlived its admission is ignored.  The job queue fences a claim   *)
(* with the token of its lease; the circuit breaker fences a call of the   *)
(* provider with its generation; the team hub fences a write with its      *)
(* reads and with the token of its work item.  First JobQueue, for any     *)
(* number of rows, workers and attempts, any lease, delays and backoff;    *)
(* then ProviderCall, for any callers, threshold and recovery time; then   *)
(* TeamIsolation, for any facts, agents, spaces, work items and programs.  *)
(***************************************************************************)
EXTENDS JobQueue, ProviderCall, TeamIsolation, TLAPS

\* The inductive invariant: OperatorFail keeps keys unique only because a dead
\* row has no attempt left, and backoff is a number only up to AttemptCap.
IInv == TypeOK /\ AttemptsAccounted /\ PendingKeysUnique /\ LiveLeaseIsNewest

\* The empty queue satisfies the invariant.
LEMMA InitIInv == Init => IInv
<1> SUFFICES ASSUME Init PROVE IInv
  BY Zenon
<1> USE JobsAssumption DEF Init
<1>1. TypeOK
  <2>1. clash \in BOOLEAN /\ beat \in [Workers -> BOOLEAN]
    BY Zenon
  <2> QED BY <2>1 DEF TypeOK, NoToken, Status, Pending, Phases, Working
<1>2. AttemptsAccounted
  BY DEF AttemptsAccounted, AttemptCap
<1>3. PendingKeysUnique
  BY Zenon DEF PendingKeysUnique, Pending
<1>4. LiveLeaseIsNewest
  BY Zenon DEF LiveLeaseIsNewest
<1> QED BY <1>1, <1>2, <1>3, <1>4, Zenon DEF IInv

\* The number of attempts stays within the range the backoff is defined for.
LEMMA AttemptsRange == ASSUME IInv, NEW j \in Jobs PROVE attempts[j] \in 0..AttemptCap
<1>1. max_attempts[j] \in 1..20
  BY JobsAssumption, Zenon DEF AttemptCap
<1>2. attempts[j] \in Nat /\ attempts[j] <= max_attempts[j]
  BY Zenon DEF IInv, TypeOK, AttemptsAccounted
<1> QED BY <1>1, <1>2 DEF AttemptCap

\* Every column keeps its domain in every step.
LEMMA TypeStep == ASSUME IInv, [Next]_vars PROVE TypeOK'
<1> USE JobsAssumption, TimeAssumption
    DEF IInv, TypeOK, AttemptCap, NoToken, Status, Pending, Phases, Working, mem
<1>1. ASSUME NEW j \in Jobs, NEW d \in Delays, Enqueue(j, d) PROVE TypeOK'
  BY <1>1 DEF Enqueue
<1>2. ASSUME NEW w \in Workers, ClaimNothing(w) PROVE TypeOK'
  BY <1>2, Zenon DEF ClaimNothing
<1>3. ASSUME NEW w \in Workers, NEW c \in Jobs, NEW t, ClaimRow(w, c, t) PROVE TypeOK'
  <2>1. t \in Nat BY <1>3, Zenon DEF ClaimRow, Fresh
  <2> QED BY <1>3, <2>1 DEF ClaimRow
<1>4. ASSUME NEW w \in Workers,
             HandlerReturns(w) \/ HandlerRaises(w) \/ HeartbeatStops(w) \/ Crash(w) \/ Restart(w)
      PROVE TypeOK'
  <2>1. CASE HandlerReturns(w) BY <2>1, Zenon DEF HandlerReturns, row
  <2>2. CASE HandlerRaises(w) BY <2>2, Zenon DEF HandlerRaises, row
  <2>3. CASE HeartbeatStops(w) BY <2>3, Zenon DEF HeartbeatStops, row
  <2>4. CASE Crash(w) BY <2>4, Zenon DEF Crash, LetGo, row
  <2>5. CASE Restart(w) BY <2>5, Zenon DEF Restart, LetGo, row
  <2> QED BY <1>4, <2>1, <2>2, <2>3, <2>4, <2>5, Zenon
<1>5. ASSUME NEW w \in Workers, Complete(w) PROVE TypeOK'
  BY <1>5 DEF Complete, LetGo
<1>6. ASSUME NEW j \in Jobs, FailRow(j) PROVE
        /\ status' \in [Jobs -> Status] /\ due' \in [Jobs -> Int]
        /\ lease_left' \in [Jobs -> Nat] /\ lease_token' \in [Jobs -> Nat]
  <2>1. attempts[j] \in 0..AttemptCap
    BY AttemptsRange, Zenon
  <2>2. Backoff[attempts[j]] \in Int
    BY <2>1, BackoffAssumption
  <2> QED BY <1>6, <2>2, Zenon DEF FailRow
<1>7. ASSUME NEW w \in Workers, Fail(w) PROVE TypeOK'
  <2>1. CASE Live(held[w], claimed[w])
    BY <1>6, <1>7, <2>1, ZenonT(30) DEF Fail, LetGo
  <2>2. CASE ~Live(held[w], claimed[w])
    BY <1>7, <2>2, Zenon DEF Fail, LetGo
  <2> QED BY <2>1, <2>2, Zenon
<1>8. ASSUME NEW w \in Workers, Heartbeat(w) PROVE TypeOK'
  <2>1. held[w] \in Jobs
    BY <1>8, Zenon DEF Heartbeat
  <2>2. Max(lease_left[held[w]], Lease) \in Nat
    BY <2>1, Zenon DEF Max
  <2> QED BY <1>8, <2>1, <2>2, Zenon DEF Heartbeat
<1>9. ASSUME NEW S \in SUBSET Jobs, Retry(S) PROVE TypeOK'
  <2>1. clash' \in BOOLEAN
    BY <1>9, Zenon DEF Retry
  <2> QED BY <1>9, <2>1 DEF Retry, Requeue, row
<1>10. ASSUME NEW j \in Jobs, OperatorComplete(j) PROVE TypeOK'
  BY <1>10, Zenon DEF OperatorComplete
<1>11. ASSUME NEW j \in Jobs, OperatorFail(j) PROVE TypeOK'
  BY <1>6, <1>11, Zenon DEF OperatorFail
<1>12. ASSUME NEW S \in SUBSET Jobs, Purge(S) PROVE TypeOK'
  BY <1>12, Zenon DEF Purge
<1>13. CASE Tick
  BY <1>13 DEF Tick, Max
<1>14. CASE UNCHANGED vars
  BY <1>14, Zenon DEF vars
<1> QED
  BY <1>1, <1>2, <1>3, <1>4, <1>5, <1>7, <1>8, <1>9, <1>10, <1>11, <1>12, <1>13, <1>14, Zenon
    DEF Next, WorkerStep, Operator, RetryOne, RetryAll

\* No step starts a handler beyond max_attempts or parks a row early.
LEMMA AttemptsStep == ASSUME IInv, [Next]_vars PROVE AttemptsAccounted'
<1> USE JobsAssumption DEF IInv, TypeOK, AttemptsAccounted, AttemptCap, mem
<1>1. ASSUME NEW j \in Jobs, NEW d \in Delays, Enqueue(j, d) PROVE AttemptsAccounted'
  BY <1>1 DEF Enqueue
<1>2. ASSUME NEW w \in Workers, ClaimNothing(w) PROVE AttemptsAccounted'
  BY <1>2 DEF ClaimNothing, Swept, Exhausted
<1>3. ASSUME NEW w \in Workers, NEW c \in Jobs, NEW t, ClaimRow(w, c, t)
      PROVE AttemptsAccounted'
  BY <1>3, SMTT(30) DEF ClaimRow, Best, Ready, Swept, Exhausted, Expired
<1>4. ASSUME UNCHANGED <<status, attempts>> PROVE AttemptsAccounted'
  BY <1>4, Zenon
<1>5. ASSUME NEW w \in Workers, Complete(w) PROVE AttemptsAccounted'
  BY <1>5, ZenonT(30) DEF Complete
<1>6. ASSUME NEW j \in Jobs, FailRow(j), attempts' = attempts PROVE AttemptsAccounted'
  BY <1>6 DEF FailRow, Exhausted
<1>7. ASSUME NEW w \in Workers, Fail(w) PROVE AttemptsAccounted'
  <2>1. held[w] \in Jobs
    BY <1>7, Zenon DEF Fail, Working
  <2> QED BY <1>4, <1>6, <1>7, <2>1, Zenon DEF Fail
<1>8. ASSUME NEW S \in SUBSET Jobs, Retry(S) PROVE AttemptsAccounted'
  BY <1>8 DEF Retry, Requeue, row
<1>9. ASSUME NEW j \in Jobs, OperatorComplete(j) PROVE AttemptsAccounted'
  BY <1>9, Zenon DEF OperatorComplete
<1>10. ASSUME NEW S \in SUBSET Jobs, Purge(S) PROVE AttemptsAccounted'
  BY <1>10, Zenon DEF Purge
<1>11. ASSUME NEW w \in Workers,
              HandlerReturns(w) \/ HandlerRaises(w) \/ HeartbeatStops(w) \/ Crash(w)
              \/ Restart(w) \/ Heartbeat(w)
       PROVE AttemptsAccounted'
  BY <1>4, <1>11, Zenon DEF HandlerReturns, HandlerRaises, HeartbeatStops, Crash, Restart, Heartbeat, row
<1>12. CASE Tick \/ UNCHANGED vars
  BY <1>4, <1>12, Zenon DEF Tick, vars
<1>13. ASSUME NEW j \in Jobs, OperatorFail(j) PROVE AttemptsAccounted'
  BY <1>6, <1>13, Zenon DEF OperatorFail
<1> QED
  BY <1>1, <1>2, <1>3, <1>5, <1>7, <1>8, <1>9, <1>10, <1>11, <1>12, <1>13, Zenon
    DEF Next, WorkerStep, Operator, RetryOne, RetryAll

\* No step makes two rows with the same dedupe_key pending.
LEMMA KeysStep == ASSUME IInv, [Next]_vars PROVE PendingKeysUnique'
<1> USE DEF IInv, TypeOK, PendingKeysUnique, mem
<1>1. ASSUME NEW j \in Jobs, NEW d \in Delays, Enqueue(j, d) PROVE PendingKeysUnique'
  BY <1>1 DEF Enqueue, KeyTaken
\* Most steps only take rows out of the pending set.
<1>2. ASSUME \A j \in Jobs : status'[j] \in Pending => status[j] \in Pending
      PROVE PendingKeysUnique'
  BY <1>2, Zenon
<1>3. ASSUME NEW w \in Workers, ClaimNothing(w) PROVE PendingKeysUnique'
  BY <1>2, <1>3, Zenon DEF ClaimNothing, Pending
<1>4. ASSUME NEW w \in Workers, NEW c \in Jobs, NEW t, ClaimRow(w, c, t)
      PROVE PendingKeysUnique'
  BY <1>2, <1>4, Zenon DEF ClaimRow, Best, Ready, Expired, Pending
<1>5. ASSUME NEW w \in Workers, Complete(w) PROVE PendingKeysUnique'
  BY <1>2, <1>5 DEF Complete, Pending
<1>6. ASSUME NEW w \in Workers, Fail(w) PROVE PendingKeysUnique'
  BY <1>2, <1>6, ZenonT(30) DEF Fail, FailRow, Live, Pending
<1>7. ASSUME NEW S \in SUBSET Jobs, Retry(S) PROVE PendingKeysUnique'
  <2>1. CASE UNCHANGED row
    BY <1>2, <2>1, Zenon DEF row
  <2>2. CASE /\ \A j \in S : ~KeyTaken(j)
             /\ \A i, j \in S : i # j /\ dedupe_key[i] # NoKey => dedupe_key[i] # dedupe_key[j]
             /\ Requeue(S)
    BY <2>2, Zenon DEF Requeue, KeyTaken, Pending
  <2> QED BY <1>7, <2>1, <2>2, Zenon DEF Retry
<1>8. ASSUME NEW j \in Jobs, OperatorComplete(j) PROVE PendingKeysUnique'
  BY <1>2, <1>8, Zenon DEF OperatorComplete, Pending
<1>9. ASSUME NEW S \in SUBSET Jobs, Purge(S) PROVE PendingKeysUnique'
  BY <1>2, <1>9, Zenon DEF Purge, Pending
<1>10. ASSUME NEW w \in Workers,
              HandlerReturns(w) \/ HandlerRaises(w) \/ HeartbeatStops(w) \/ Crash(w)
              \/ Restart(w) \/ Heartbeat(w)
       PROVE PendingKeysUnique'
  BY <1>2, <1>10, Zenon DEF HandlerReturns, HandlerRaises, HeartbeatStops, Crash, Restart, Heartbeat, row
<1>11. CASE Tick \/ UNCHANGED vars
  BY <1>2, <1>11, Zenon DEF Tick, vars
\* A dead row is exhausted, so failing it again leaves it dead.
<1>12. ASSUME NEW j \in Jobs, OperatorFail(j) PROVE PendingKeysUnique'
  <2>1. CASE Exhausted(j)
    BY <1>2, <1>12, <2>1, Zenon DEF OperatorFail, FailRow, Pending
  <2>2. CASE ~Exhausted(j) /\ status[j] = "done"
    BY <1>12, <2>2 DEF OperatorFail, FailRow, KeyTaken
  <2>3. CASE ~Exhausted(j) /\ status[j] \in Pending
    BY <1>2, <1>12, <2>3, Zenon DEF OperatorFail, FailRow
  <2>4. ~Exhausted(j) => status[j] # "dead"
    BY JobsAssumption, Zenon DEF Exhausted, AttemptsAccounted, AttemptCap
  <2> QED BY <1>12, <2>1, <2>2, <2>3, <2>4, Zenon DEF OperatorFail, Status
<1> QED
  BY <1>1, <1>3, <1>4, <1>5, <1>6, <1>7, <1>8, <1>9, <1>10, <1>11, <1>12, Zenon
    DEF Next, WorkerStep, Operator, RetryOne, RetryAll

\* No step leaves a live lease with a worker other than the latest claimant:
\* a claim's token is one that no stalled worker remembers.
LEMMA FenceStep == ASSUME IInv, [Next]_vars PROVE LiveLeaseIsNewest'
<1> USE JobsAssumption DEF IInv, TypeOK, LiveLeaseIsNewest, Live, NoToken, mem
<1>1. ASSUME NEW j \in Jobs, NEW d \in Delays, Enqueue(j, d) PROVE LiveLeaseIsNewest'
  BY <1>1, Zenon DEF Enqueue
\* Steps after which nothing is live that was not live before.
<1>2. ASSUME newest' = newest,
             \A w \in Workers : held'[w] # NoJob /\ Live(held[w], claimed[w])'
                => held'[w] = held[w] /\ Live(held[w], claimed[w])
      PROVE LiveLeaseIsNewest'
  BY <1>2, Zenon
<1>3. ASSUME NEW w \in Workers, ClaimNothing(w) PROVE LiveLeaseIsNewest'
  BY <1>2, <1>3, ZenonT(30) DEF ClaimNothing
<1>4. ASSUME NEW w \in Workers, NEW c \in Jobs, NEW t, ClaimRow(w, c, t)
      PROVE LiveLeaseIsNewest'
  <2> SUFFICES ASSUME NEW v \in Workers, held'[v] # NoJob, Live(held[v], claimed[v])'
               PROVE newest'[held'[v]] = v
    BY Zenon
  <2>1. CASE v = w
    BY <1>4, <2>1, Zenon DEF ClaimRow
  <2>2. CASE v # w
    <3>1. held'[v] = held[v] /\ claimed'[v] = claimed[v] /\ held[v] \in Jobs
      BY <1>4, <2>2, Zenon DEF ClaimRow
    <3>2. claimed[v] # t
      BY <1>4, ZenonT(30) DEF ClaimRow, Fresh, Remembered
    <3>3. held[v] # c
      BY <1>4, <3>1, <3>2, Zenon DEF ClaimRow
    <3> QED BY <1>4, <3>1, <3>3, Zenon DEF ClaimRow
  <2> QED BY <2>1, <2>2, Zenon
<1>5. ASSUME NEW w \in Workers, Complete(w) PROVE LiveLeaseIsNewest'
  BY <1>2, <1>5 DEF Complete, LetGo
<1>6. ASSUME NEW w \in Workers, Fail(w) PROVE LiveLeaseIsNewest'
  BY <1>2, <1>6 DEF Fail, FailRow, LetGo
<1>7. ASSUME NEW S \in SUBSET Jobs, Retry(S) PROVE LiveLeaseIsNewest'
  BY <1>2, <1>7 DEF Retry, Requeue, row
<1>8. ASSUME NEW j \in Jobs, OperatorComplete(j) \/ OperatorFail(j) PROVE LiveLeaseIsNewest'
  BY <1>2, <1>8 DEF OperatorComplete, OperatorFail, FailRow
<1>9. ASSUME NEW S \in SUBSET Jobs, Purge(S) PROVE LiveLeaseIsNewest'
  BY <1>2, <1>9, ZenonT(30) DEF Purge
<1>10. ASSUME NEW w \in Workers,
              HandlerReturns(w) \/ HandlerRaises(w) \/ HeartbeatStops(w)
       PROVE LiveLeaseIsNewest'
  BY <1>2, <1>10, Zenon DEF HandlerReturns, HandlerRaises, HeartbeatStops, row
<1>11. ASSUME NEW w \in Workers, Crash(w) \/ Restart(w) PROVE LiveLeaseIsNewest'
  BY <1>2, <1>11 DEF Crash, Restart, LetGo, row
<1>12. ASSUME NEW w \in Workers, Heartbeat(w) PROVE LiveLeaseIsNewest'
  BY <1>2, <1>12 DEF Heartbeat
<1>13. CASE Tick
  BY <1>2, <1>13 DEF Tick, Max
<1>14. CASE UNCHANGED vars
  BY <1>2, <1>14, Zenon DEF vars
<1> QED
  BY <1>1, <1>3, <1>4, <1>5, <1>6, <1>7, <1>8, <1>9, <1>10, <1>11, <1>12, <1>13, <1>14, Zenon
    DEF Next, WorkerStep, Operator, RetryOne, RetryAll

\* The inductive invariant holds in every reachable state.
THEOREM Invariant == Spec => []IInv
<1>1. IInv /\ [Next]_vars => IInv'
  BY TypeStep, AttemptsStep, KeysStep, FenceStep, Zenon DEF IInv
<1> QED BY InitIInv, <1>1, PTL DEF Spec

\* Every column of the jobs table keeps its domain (schema of unimem/jobs.py).
THEOREM TypeCorrect == Spec => []TypeOK
  BY Invariant, PTL DEF IInv

\* claim, fail, renew and complete never let a worker act on a row whose lease
\* another worker has taken over.
THEOREM Fencing == Spec => []LiveLeaseIsNewest
  BY Invariant, PTL DEF IInv

\* At most max_attempts executions between retries, and dead means exhausted.
THEOREM AttemptAccounting == Spec => []AttemptsAccounted
  BY Invariant, PTL DEF IInv

\* enqueue, retry and fail keep at most one pending row per dedupe_key.
THEOREM DedupeUniqueness == Spec => []PendingKeysUnique
  BY Invariant, PTL DEF IInv

\* A finished row only ever leaves "done" by purge or the operator's fail.
THEOREM Finality == Spec => DoneIsFinal
<1> DEFINE Leaves(j) == status[j] = "done" /\ status'[j] # "done"
           Kept == \A j \in Jobs : Leaves(j) => status'[j] = "absent" \/ OperatorFail(j)
<1>1. ASSUME IInv, [Next]_vars PROVE [Kept]_vars
  <2> SUFFICES ASSUME NEW j \in Jobs, Leaves(j), status'[j] # "absent" PROVE OperatorFail(j)
    BY Zenon
  <2> USE <1>1 DEF IInv, TypeOK
  <2>1. ASSUME NEW i \in Jobs, NEW d \in Delays, Enqueue(i, d) PROVE FALSE
    BY <2>1, Zenon DEF Enqueue
  <2>2. ASSUME NEW w \in Workers, ClaimNothing(w) PROVE FALSE
    BY <2>2, Zenon DEF ClaimNothing, Swept, Expired
  <2>3. ASSUME NEW w \in Workers, NEW c \in Jobs, NEW t, ClaimRow(w, c, t) PROVE FALSE
    BY <2>3, Zenon DEF ClaimRow, Best, Ready, Swept, Expired
  <2>4. ASSUME NEW w \in Workers, Complete(w) PROVE FALSE
    BY <2>4, Zenon DEF Complete
  <2>5. ASSUME NEW w \in Workers, Fail(w) PROVE FALSE
    BY <2>5, ZenonT(30) DEF Fail, FailRow, Live
  <2>6. ASSUME NEW S \in SUBSET Jobs, \A i \in S : status[i] \in {"dead", "failed"}, Retry(S)
        PROVE FALSE
    BY <2>6 DEF Retry, Requeue, row
  <2>7. ASSUME NEW i \in Jobs, OperatorComplete(i) PROVE FALSE
    BY <2>7, Zenon DEF OperatorComplete
  <2>8. ASSUME NEW i \in Jobs, OperatorFail(i) PROVE OperatorFail(j)
    <3>1. i = j
      BY <2>8, Zenon DEF OperatorFail, FailRow
    <3> QED BY <2>8, <3>1, Zenon
  <2>9. ASSUME NEW S \in SUBSET Jobs, Purge(S) PROVE FALSE
    BY <2>9, Zenon DEF Purge
  <2>10. ASSUME UNCHANGED status PROVE FALSE
    BY <2>10, Zenon
  <2>11. ASSUME NEW w \in Workers,
                HandlerReturns(w) \/ HandlerRaises(w) \/ HeartbeatStops(w) \/ Crash(w)
                \/ Restart(w) \/ Heartbeat(w)
         PROVE FALSE
    BY <2>10, <2>11, Zenon DEF HandlerReturns, HandlerRaises, HeartbeatStops, Crash, Restart, Heartbeat, row
  <2>12. CASE Tick \/ UNCHANGED vars
    BY <2>10, <2>12, Zenon DEF Tick, vars
  <2> QED
    BY <2>1, <2>2, <2>3, <2>4, <2>5, <2>6, <2>7, <2>8, <2>9, <2>11, <2>12, Zenon
      DEF Next, WorkerStep, Operator, RetryOne, RetryAll
<1> QED BY Invariant, <1>1, PTL DEF Spec, DoneIsFinal

-----------------------------------------------------------------------------
(* The circuit breaker around calls of the provider.  A call in flight     *)
(* never has a later generation than the breaker; while the circuit is     *)
(* open only its probe has the breaker's; and calls from before it opened  *)
(* have an earlier one.                                                    *)

Generations ==
    /\ \A c \in InFlight : generation[c] <= circuit._generation
    /\ \A c \in InFlight : generation[c] = circuit._generation /\ circuit._opened # None => probe[c]
    /\ \A c \in InFlight : probe[c] => generation[c] = circuit._generation /\ circuit._probe
    /\ circuit._probe => circuit._opened # None
    /\ \A c \in late : generation[c] < circuit._generation
    /\ \A c \in Callers : pc[c] = "settle" => outcome[c] \in Outcomes

ProviderInv == CallTypeOK /\ OneProbe /\ Generations

-----------------------------------------------------------------------------
LEMMA CallStart == ASSUME CallInit PROVE ProviderInv
  BY ProviderAssumption DEF CallInit, ProviderInv, CallTypeOK, Breakers, OneProbe,
         Generations, InFlight

\* The breakers that settle may leave are breakers.
LEMMA BreakerType ==
  ASSUME circuit \in Breakers, NEW g, NEW p \in BOOLEAN, NEW o
  PROVE  Settled(g, p, o) \in Breakers
  <1>1. /\ circuit._failures \in Nat /\ circuit._generation \in Nat /\ circuit._probe \in BOOLEAN
        /\ circuit._opened \in {None} \cup 0..Recovery /\ 0 \in 0..Recovery
    BY ProviderAssumption DEF Breakers
  <1>2. (circuit._probe /\ ~p) \in BOOLEAN
    BY Zenon
  <1>3. FailedBreaker(p) \in Breakers
    BY <1>1, <1>2 DEF FailedBreaker, Breakers
  <1>4. ReachedBreaker(p) \in Breakers
    BY <1>1, <1>2 DEF ReachedBreaker, Breakers
  <1>5. CancelledBreaker(p) \in Breakers
    BY <1>1, <1>2, Zenon DEF CancelledBreaker, Breakers
  <1> QED BY <1>3, <1>4, <1>5, Zenon DEF Settled

LEMMA AdmitStep ==
  ASSUME ProviderInv, NEW c \in Callers, admit(c)
  PROVE ProviderInv'
  <1>1. CallTypeOK'
    BY ProviderAssumption, Zenon DEF ProviderInv, CallTypeOK, admit, Step, InFlight
  <1>2. OneProbe' /\ Generations'
    BY DEF ProviderInv, CallTypeOK, admit, Step, InFlight, OneProbe, Generations
  <1> QED BY <1>1, <1>2, Zenon DEF ProviderInv

LEMMA EnterStep == ASSUME ProviderInv, NEW c \in Callers, enter(c) PROVE ProviderInv'
  <1>1. CASE Refuses
    <2>1. pc' = [pc EXCEPT ![c] = "idle"] /\ pc[c] = "enter" /\ circuit' = circuit /\ probe' = probe
            /\ generation' = generation /\ outcome' = outcome /\ late' = late /\ faults' = faults /\ _until' = _until
      BY <1>1, Zenon DEF enter, Step
    <2>2. InFlight' = InFlight
      BY <2>1, Zenon DEF InFlight, ProviderInv, CallTypeOK
    <2> QED BY <2>1, <2>2, Zenon DEF ProviderInv, CallTypeOK, OneProbe, Generations
  <1>2. CASE ~Refuses
    <2> DEFINE open == circuit._opened # None
    <2>1. /\ pc[c] = "enter" /\ pc' = [pc EXCEPT ![c] = "call"]
          /\ probe' = [probe EXCEPT ![c] = open]
          /\ generation' = [generation EXCEPT ![c] = circuit._generation]
          /\ circuit' = [circuit EXCEPT !._probe = open]
          /\ outcome' = outcome /\ late' = late /\ faults' = faults /\ _until' = _until
      BY <1>2, Zenon DEF enter, Step
    <2>2. InFlight' = InFlight \cup {c} /\ c \notin InFlight
      BY <2>1, Zenon DEF InFlight, ProviderInv, CallTypeOK
    <2>3. circuit \in Breakers /\ probe \in [Callers -> BOOLEAN] /\ generation \in [Callers -> Nat]
      BY Zenon DEF ProviderInv, CallTypeOK
    <2>4. /\ circuit'._generation = circuit._generation /\ circuit'._opened = circuit._opened
          /\ circuit'._failures = circuit._failures /\ circuit'._probe = open /\ circuit' \in Breakers
      BY <2>1, <2>3, Zenon DEF Breakers
    <2>5. open => ~circuit._probe
      BY <1>2, Zenon DEF Refuses
    <2>6. CallTypeOK'
      <3>1. /\ pc' \in [Callers -> {"idle", "enter", "call", "settle"}] /\ generation' \in [Callers -> Nat]
            /\ late' \subseteq InFlight' /\ circuit._generation \in Nat
        BY <2>1, <2>2, <2>3, Zenon DEF ProviderInv, CallTypeOK, Breakers
      <3>2. probe' \in [Callers -> BOOLEAN]
        BY <2>1, <2>3, Zenon
      <3> QED BY <2>1, <2>4, <3>1, <3>2, Zenon DEF ProviderInv, CallTypeOK
    <2>7. open => \A d \in InFlight : ~probe[d]
      BY <2>5, Zenon DEF ProviderInv, Generations
    <2>8. ~open => \A d \in InFlight : ~probe[d]
      BY Zenon DEF ProviderInv, Generations
    <2>9. probe'[c] = open /\ generation'[c] = circuit._generation
            /\ \A d \in InFlight : probe'[d] = probe[d] /\ generation'[d] = generation[d] /\ d \in Callers
      BY <2>1, <2>2, <2>3, Zenon DEF InFlight
    <2>10. OneProbe'
      BY <2>2, <2>4, <2>7, <2>8, <2>9, Zenon DEF OneProbe
    <2>11. Generations'
      <3>1. \A d \in InFlight' : generation'[d] <= circuit'._generation
        BY <2>2, <2>3, <2>4, <2>9 DEF ProviderInv, Generations, Breakers
      <3>2. \A d \in InFlight' : generation'[d] = circuit'._generation /\ circuit'._opened # None => probe'[d]
        BY <2>2, <2>4, <2>9, Zenon DEF ProviderInv, Generations
      <3>3. \A d \in InFlight' : probe'[d] => generation'[d] = circuit'._generation /\ circuit'._probe
        BY <2>2, <2>4, <2>7, <2>8, <2>9, Zenon
      <3>4. \A d \in late' : generation'[d] < circuit'._generation
        BY <2>1, <2>2, <2>4, <2>9, Zenon DEF ProviderInv, CallTypeOK, Generations
      <3>5. \A d \in Callers : pc'[d] = "settle" => outcome'[d] \in Outcomes
        BY <2>1, Zenon DEF ProviderInv, CallTypeOK, Generations
      <3> QED BY <3>1, <3>2, <3>3, <3>4, <3>5, <2>4, Zenon DEF Generations
    <2> QED BY <2>6, <2>10, <2>11, Zenon DEF ProviderInv
  <1> QED BY <1>1, <1>2, Zenon

LEMMA DispatchStep ==
  ASSUME ProviderInv, NEW c \in Callers, dispatch(c)
  PROVE ProviderInv'
  <1>1. PICK o \in Outcomes :
          /\ outcome' = [outcome EXCEPT ![c] = o]
          /\ faults' = IF o = "ok" THEN faults ELSE faults + 1
          /\ \/ _until' = _until
             \/ \E delay \in 1..MaxDelay : _until' = IF _until < delay THEN delay ELSE _until
    BY Zenon DEF dispatch
  <1>2. /\ pc[c] = "call" /\ pc' = [pc EXCEPT ![c] = "settle"]
        /\ circuit' = circuit /\ probe' = probe /\ generation' = generation /\ late' = late
    BY Zenon DEF dispatch, Step
  <1>3. InFlight' = InFlight
    BY <1>2, Zenon DEF InFlight, ProviderInv, CallTypeOK
  <1>4. CallTypeOK'
    <2>1. _until' \in Nat /\ faults' \in Nat
      BY ProviderAssumption, <1>1 DEF ProviderInv, CallTypeOK
    <2>2. outcome' \in [Callers -> {None} \cup Outcomes] /\ pc' \in [Callers -> {"idle", "enter", "call", "settle"}]
      BY <1>1, <1>2, Zenon DEF ProviderInv, CallTypeOK
    <2> QED BY <1>2, <1>3, <2>1, <2>2, Zenon DEF ProviderInv, CallTypeOK
  <1>5. OneProbe' /\ Generations'
    BY <1>1, <1>2, <1>3, Zenon DEF ProviderInv, CallTypeOK, OneProbe, Generations
  <1> QED BY <1>4, <1>5, Zenon DEF ProviderInv

\* What the end of a call does to the breaker, by cases of the call.
LEMMA SettledCases ==
  ASSUME ProviderInv, NEW c \in Callers, pc[c] = "settle",
         NEW new, new = Settled(generation[c], probe[c], outcome[c])
  PROVE  \/ generation[c] # circuit._generation /\ new = circuit
         \/ /\ generation[c] = circuit._generation /\ probe[c]
            /\ new._generation = circuit._generation + 1 \/ new = [circuit EXCEPT !._probe = FALSE]
            /\ new._probe = FALSE
         \/ /\ generation[c] = circuit._generation /\ ~probe[c] /\ circuit._opened = None
            /\ \/ new._generation = circuit._generation + 1 /\ new._opened = 0
               \/ new._generation = circuit._generation /\ new._opened = None
            /\ new._probe = FALSE
  <1>1. circuit \in Breakers /\ probe[c] \in BOOLEAN /\ c \in InFlight
    BY Zenon DEF ProviderInv, CallTypeOK, InFlight
  <1>2. generation[c] = circuit._generation /\ circuit._opened # None => probe[c]
    BY <1>1, Zenon DEF ProviderInv, Generations
  <1>3. circuit._opened = None => circuit._probe = FALSE
    BY <1>1, Zenon DEF ProviderInv, Generations, Breakers
  <1> QED BY <1>1, <1>2, <1>3, Zenon DEF Settled, FailedBreaker, ReachedBreaker,
                                  CancelledBreaker, Breakers

LEMMA SettleStep ==
  ASSUME ProviderInv, NEW c \in Callers, settle(c)
  PROVE ProviderInv'
  <1> DEFINE new == Settled(generation[c], probe[c], outcome[c])
             opens == new._generation # circuit._generation /\ new._opened # None
  <1>1. /\ pc[c] = "settle" /\ pc' = [pc EXCEPT ![c] = "idle"] /\ circuit' = new
        /\ late' = (IF opens THEN InFlight ELSE late) \ {c}
        /\ probe' = [probe EXCEPT ![c] = FALSE] /\ generation' = [generation EXCEPT ![c] = 0]
        /\ outcome' = [outcome EXCEPT ![c] = None] /\ _until' = _until /\ faults' = faults
    BY Zenon DEF settle, Step
  <1>2. InFlight' = InFlight \ {c} /\ c \in InFlight /\ InFlight \subseteq Callers
    BY <1>1, Zenon DEF InFlight, ProviderInv, CallTypeOK
  <1>3. circuit \in Breakers /\ probe \in [Callers -> BOOLEAN] /\ generation \in [Callers -> Nat]
          /\ circuit._generation \in Nat
    BY Zenon DEF ProviderInv, CallTypeOK, Breakers
  <1>4. circuit' \in Breakers
    BY <1>1, <1>3, BreakerType, Zenon
  <1>5. \A d \in InFlight' : probe'[d] = probe[d] /\ generation'[d] = generation[d] /\ d # c /\ d \in InFlight
    BY <1>1, <1>2, <1>3, Zenon
  <1>6. CallTypeOK'
    <2>1. late' \subseteq InFlight'
      BY <1>1, <1>2, Zenon DEF ProviderInv, CallTypeOK
    <2>2. circuit'._opened = None => circuit'._failures < Threshold
      BY ProviderAssumption, <1>1, <1>3
         DEF ProviderInv, CallTypeOK, Settled, FailedBreaker,
             ReachedBreaker, CancelledBreaker, Breakers
    <2> QED BY <1>1, <1>3, <1>4, <2>1, <2>2, Zenon DEF ProviderInv, CallTypeOK
  <1>7. \A d \in Callers : pc'[d] = "settle" => outcome'[d] \in Outcomes
    BY <1>1, Zenon DEF ProviderInv, CallTypeOK, Generations
  <1>8. CASE generation[c] # circuit._generation /\ new = circuit
    <2>1. circuit' = circuit /\ late' = late \ {c} /\ ~probe[c]
      BY <1>1, <1>2, <1>8, Zenon DEF ProviderInv, Generations
    <2>2. OneProbe'
      BY <1>2, <1>5, <2>1, Zenon DEF ProviderInv, OneProbe
    <2>3. Generations'
      <3>1. late' \subseteq InFlight'
        BY <1>6, Zenon DEF CallTypeOK
      <3>2. \A d \in late' : generation'[d] < circuit'._generation
        BY <1>5, <2>1, <3>1, Zenon DEF ProviderInv, Generations
      <3> QED BY <1>5, <1>7, <2>1, <3>2, Zenon DEF ProviderInv, Generations
    <2> QED BY <1>6, <2>2, <2>3, Zenon DEF ProviderInv
  <1>9. CASE /\ generation[c] = circuit._generation /\ probe[c]
             /\ new._generation = circuit._generation + 1 \/ new = [circuit EXCEPT !._probe = FALSE]
             /\ new._probe = FALSE
    <2>1. \A d \in InFlight' : ~probe'[d] /\ generation'[d] <= circuit._generation
      BY <1>2, <1>5, <1>9, Zenon DEF ProviderInv, OneProbe, Generations
    <2>2. OneProbe'
      BY <1>1, <1>9, <2>1, Zenon DEF OneProbe
    <2>3. circuit._opened # None /\ \A d \in InFlight' : generation'[d] # circuit._generation
      BY <1>2, <1>5, <1>9, <2>1, Zenon DEF ProviderInv, Generations
    <2>4. \A d \in InFlight' : generation'[d] < circuit._generation
      BY <1>2, <1>3, <1>5, <2>1, <2>3
    <2>5. circuit'._generation \in Nat /\ circuit._generation <= circuit'._generation
      <3>1. new = [circuit EXCEPT !._probe = FALSE] => new._generation = circuit._generation
        BY <1>3, Zenon DEF Breakers
      <3>2. new._generation = circuit._generation + 1 \/ new._generation = circuit._generation
        BY <1>9, <3>1, Zenon
      <3> HIDE DEF new
      <3> QED BY <1>1, <1>3, <3>2
    <2>6. \A d \in InFlight' : generation'[d] < circuit'._generation
      BY <1>2, <1>3, <1>5, <2>4, <2>5
    <2>7. late' \subseteq InFlight'
      BY <1>6, Zenon DEF CallTypeOK
    <2>8. \A d \in InFlight' : generation'[d] <= circuit'._generation /\ generation'[d] # circuit'._generation
      BY <1>2, <1>3, <1>5, <2>5, <2>6
    <2>9. Generations'
      BY <1>1, <1>7, <1>9, <2>1, <2>6, <2>7, <2>8, Zenon DEF Generations
    <2> QED BY <1>6, <2>2, <2>9, Zenon DEF ProviderInv
  <1>10. CASE /\ generation[c] = circuit._generation /\ ~probe[c] /\ circuit._opened = None
              /\ \/ new._generation = circuit._generation + 1 /\ new._opened = 0
                 \/ new._generation = circuit._generation /\ new._opened = None
              /\ new._probe = FALSE
    <2>1. \A d \in InFlight : ~probe[d]
      BY <1>10, Zenon DEF ProviderInv, Generations
    <2>2. OneProbe'
      BY <1>1, <1>5, <1>10, <2>1, Zenon DEF OneProbe
    <2>3. circuit'._generation \in Nat /\ circuit._generation <= circuit'._generation
      BY <1>1, <1>3, <1>10
    <2>4. \A d \in InFlight' : generation'[d] \in Nat /\ generation'[d] <= circuit._generation
      BY <1>2, <1>3, <1>5, Zenon DEF ProviderInv, Generations
    <2>5. \A d \in InFlight' : generation'[d] <= circuit'._generation
      BY <1>3, <2>3, <2>4
    <2>6. circuit'._opened # None => circuit'._generation = circuit._generation + 1
      BY <1>1, <1>10, Zenon
    <2>7. \A d \in InFlight' : circuit'._opened # None => generation'[d] # circuit'._generation
      BY <1>3, <2>4, <2>6
    <2>8. \A d \in late' : generation'[d] < circuit'._generation
      <3>1. CASE opens
        BY <1>1, <1>2, <1>3, <1>10, <2>3, <2>4, <3>1
      <3>2. CASE ~opens
        <4>1. \A d \in late' : d \in late /\ d \in InFlight' /\ generation[d] < circuit._generation
          BY <1>1, <1>2, <3>2, Zenon DEF ProviderInv, CallTypeOK, Generations
        <4> QED BY <1>3, <1>5, <2>3, <2>4, <4>1
      <3> QED BY <3>1, <3>2, Zenon
    <2>9. Generations'
      BY <1>1, <1>5, <1>7, <1>10, <2>1, <2>5, <2>7, <2>8, Zenon DEF Generations
    <2> QED BY <1>6, <2>2, <2>9, Zenon DEF ProviderInv
  <1>11. \/ generation[c] # circuit._generation /\ new = circuit
         \/ /\ generation[c] = circuit._generation /\ probe[c]
            /\ new._generation = circuit._generation + 1 \/ new = [circuit EXCEPT !._probe = FALSE]
            /\ new._probe = FALSE
         \/ /\ generation[c] = circuit._generation /\ ~probe[c] /\ circuit._opened = None
            /\ \/ new._generation = circuit._generation + 1 /\ new._opened = 0
               \/ new._generation = circuit._generation /\ new._opened = None
            /\ new._probe = FALSE
    BY <1>1, SettledCases, Zenon
  <1> QED BY <1>8, <1>9, <1>10, <1>11, Zenon

LEMMA CooldownStep == ASSUME ProviderInv, CallTick PROVE ProviderInv'
  <1>1. pc' = pc /\ probe' = probe /\ generation' = generation /\ outcome' = outcome /\ late' = late /\ faults' = faults
    BY Zenon DEF CallTick
  <1>2. InFlight' = InFlight
    BY <1>1, Zenon DEF InFlight
  <1>3. /\ circuit' \in Breakers /\ _until' \in Nat
        /\ circuit'._generation = circuit._generation /\ circuit'._probe = circuit._probe
        /\ circuit'._failures = circuit._failures
        /\ circuit'._opened = None <=> circuit._opened = None
    BY ProviderAssumption DEF ProviderInv, CallTypeOK, CallTick, Breakers
  <1>4. CallTypeOK'
    BY <1>1, <1>2, <1>3, Zenon DEF ProviderInv, CallTypeOK
  <1>5. OneProbe' /\ Generations'
    BY <1>1, <1>2, <1>3, Zenon DEF ProviderInv, OneProbe, Generations
  <1> QED BY <1>4, <1>5, Zenon DEF ProviderInv

LEMMA CallStep == ASSUME ProviderInv, [CallNext]_callVars PROVE ProviderInv'
  <1>1. CASE UNCHANGED callVars
    BY <1>1, Zenon DEF callVars, ProviderInv, CallTypeOK, OneProbe, Generations, InFlight
  <1>2. ASSUME NEW c \in Callers, _provider_call(c) PROVE ProviderInv'
    BY <1>2, AdmitStep, EnterStep, DispatchStep, SettleStep, Zenon DEF _provider_call
  <1>3. CASE CallTick
    BY <1>3, CooldownStep, Zenon
  <1> QED BY <1>1, <1>2, <1>3, Zenon DEF CallNext

LEMMA CallInvariant == CallSpec => []ProviderInv
  BY CallStart, CallStep, PTL DEF CallSpec

\* The breaker and its callers keep their types; a closed circuit has seen fewer
\* failures in a row than the threshold.
THEOREM CallTypeCorrect == CallSpec => []CallTypeOK
  <1>1. ProviderInv => CallTypeOK
    BY Zenon DEF ProviderInv
  <1> QED BY <1>1, CallInvariant, PTL

\* CircuitBreaker.call admits one recovery probe at a time and loses none.
THEOREM OneProbeHolds == CallSpec => []OneProbe
  <1>1. ProviderInv => OneProbe
    BY Zenon DEF ProviderInv
  <1> QED BY <1>1, CallInvariant, PTL

\* CircuitBreaker.call ignores the end of a call from before the circuit opened.
THEOREM LateIgnoredHolds == CallSpec => LateIgnored
  <1>1. ASSUME ProviderInv, [CallNext]_callVars PROVE [\A c \in late : c \notin late' => circuit' = circuit]_callVars
    <2> SUFFICES ASSUME CallNext, NEW c \in late, c \notin late' PROVE circuit' = circuit
      BY <1>1, Zenon
    <2>1. c \in InFlight /\ c \in Callers /\ generation[c] < circuit._generation /\ late \subseteq InFlight
            /\ circuit._generation \in Nat /\ generation[c] \in Nat
      BY <1>1, Zenon DEF ProviderInv, CallTypeOK, Generations, InFlight, Breakers
    <2>2. CASE CallTick
      BY <2>2, Zenon DEF CallTick
    <2>3. ASSUME NEW d \in Callers, admit(d) \/ enter(d) \/ dispatch(d) PROVE circuit' = circuit
      BY <2>3, Zenon DEF admit, enter, dispatch
    <2>4. ASSUME NEW d \in Callers, settle(d) PROVE circuit' = circuit
      <3>1. d = c
        BY <2>1, <2>4, Zenon DEF settle
      <3>2. Settled(generation[c], probe[c], outcome[c]) = circuit
        BY <2>1 DEF Settled
      <3> QED BY <2>4, <3>1, <3>2, Zenon DEF settle
    <2> QED BY <2>2, <2>3, <2>4, Zenon DEF CallNext, _provider_call
  <1>2. CallSpec => [][CallNext]_callVars
    BY Zenon DEF CallSpec
  <1> QED BY <1>1, <1>2, CallInvariant, PTL DEF LateIgnored

-----------------------------------------------------------------------------
(* The isolation levels of team writes.  Inside a transaction the reads    *)
(* not found stale are current; a sequenced commit uses the last token of  *)
(* its work item.                                                          *)

\* Inside a transaction the reads not found stale are current, and at a serial
\* level none was found stale: validation stays true until the commit.
Current ==
    locker # Nobody =>
      /\ \A f \in Reads(doing[locker]) \ changed : facts[f] = read_set[locker][f]
      /\ level[space] \in Serial => changed = {}

\* No sequenced commit used a token beyond the last one given out.
Given == \A k \in Spaces \X Work : lastFence[k] <= leases[k].fence

TeamInv == TeamTypeOK /\ Current /\ Given

\* The initial states satisfy the inductive invariant.
LEMMA TeamStart == ASSUME TeamInit PROVE TeamInv
<1> USE TeamAssumption
<1>0. MaxFence \in Nat /\ 0 \in 0..MaxFence
  OBVIOUS
<1>a. [principal: Agents, fence: {0}, live: {FALSE}] \subseteq Row
  BY <1>0, Zenon DEF Row
<1>b. [space: Spaces, work: Work, fence: {0}] \subseteq Token
  BY <1>0, Zenon DEF Token
<1>1. leases \in [Spaces \X Work -> Row] /\ token \in [Agents -> Token]
  BY <1>a, <1>b, Zenon DEF TeamInit
<1>2. TeamTypeOK
  BY <1>1 DEF TeamInit, TeamTypeOK, Contents, NoReads, LEVELS
<1>3. Current
  BY Zenon DEF TeamInit, Current
<1>4. Given
  <2> SUFFICES ASSUME NEW k \in Spaces \X Work PROVE lastFence[k] <= leases[k].fence
    BY Zenon DEF Given
  <2>1. leases[k] \in [principal: Agents, fence: {0}, live: {FALSE}] /\ lastFence[k] = 0
    BY Zenon DEF TeamInit
  <2>2. leases[k].fence = 0
    BY <2>1, Zenon
  <2> QED BY <2>1, <2>2
<1> QED BY <1>2, <1>3, <1>4, Zenon DEF TeamInv

\* Every step preserves the types.
LEMMA TeamTypes == ASSUME TeamTypeOK, [TeamNext]_teamVars PROVE TeamTypeOK'
<1> USE TeamAssumption DEF TeamTypeOK
<1>1. ASSUME NEW s \in Spaces, NEW l \in LEVELS, isolation(s, l) PROVE TeamTypeOK'
  BY <1>1, Zenon DEF isolation, agent, tx
<1>2. ASSUME NEW a \in Agents, NEW s \in Spaces, NEW p \in Programs, fetch(a, s, p) PROVE TeamTypeOK'
  <2>1. [f \in Facts |-> IF f \in Reads(p) THEN facts[f] ELSE Absent] \in Contents
    BY Zenon DEF Contents
  <2>2. read_set' \in [Agents -> Contents]
    BY <1>2, <2>1, Zenon DEF fetch
  <2> QED BY <1>2, <2>2, Zenon DEF fetch, tx
<1>3. ASSUME NEW a \in Agents, NEW s \in Spaces, NEW w \in Work, lease(a, s, w) PROVE TeamTypeOK'
  <2>1. <<s, w>> \in Spaces \X Work /\ leases[<<s, w>>].fence \in 0..MaxFence
    BY Zenon DEF Row
  <2>2. leases[<<s, w>>].fence + 1 \in 0..MaxFence
    BY <1>3, <2>1 DEF lease
  <2>3. [principal |-> a, fence |-> leases[<<s, w>>].fence + 1, live |-> TRUE] \in Row
    BY <2>2, Zenon DEF Row
  <2>4. [space |-> s, work |-> w, fence |-> leases[<<s, w>>].fence + 1] \in Token
    BY <2>2, Zenon DEF Token
  <2>5. leases' \in [Spaces \X Work -> Row] /\ token' \in [Agents -> Token]
    BY <1>3, <2>1, <2>3, <2>4, Zenon DEF lease
  <2> QED BY <1>3, <2>5, Zenon DEF lease, agent, tx
<1>4. ASSUME NEW s \in Spaces, NEW w \in Work,
             leases' = [leases EXCEPT ![<<s, w>>].live = FALSE],
             UNCHANGED <<facts, hidden, level, token, agent, tx, lastFence>>
      PROVE TeamTypeOK'
  <2>1. <<s, w>> \in Spaces \X Work
    BY Zenon
  <2>2. leases \in [Spaces \X Work -> Row] /\ leases[<<s, w>>] \in Row
    BY <2>1, Zenon
  <2>3. [leases[<<s, w>>] EXCEPT !.live = FALSE] \in Row
    BY <2>2, Zenon DEF Row
  <2>4. leases' \in [Spaces \X Work -> Row]
    BY <1>4, <2>2, <2>3, Zenon
  <2> QED BY <1>4, <2>4, Zenon DEF agent, tx
<1>5. ASSUME NEW a \in Agents, NEW s \in Spaces, begin(a, s) PROVE TeamTypeOK'
  <2>1. doing[a] \in Programs /\ stale(a) \subseteq Facts
    BY <1>5, Zenon DEF begin, stale
  <2> QED BY <1>5, <2>1, Zenon DEF begin, agent
<1>6. ASSUME NEW a \in Agents, Finish(a) PROVE
         /\ doing' \in [Agents -> Programs \cup {Idle}] /\ read_set' \in [Agents -> Contents]
         /\ locker' = Nobody /\ changed' = {}
  BY <1>6, Zenon DEF Finish, NoReads, Contents
<1>7. ASSUME NEW a \in Agents, commit(a) PROVE TeamTypeOK'
  <2>1. doing[a] \in Programs /\ read_set[a] \in Contents
    BY <1>7, Zenon DEF commit
  <2>2. \A f \in Facts : Compute(doing[a], f, read_set[a]) \in Body
    BY <2>1, Zenon
  <2>3. facts' \in Contents
    BY <1>7, <2>2, Zenon DEF commit, Contents
  <2>4. token[a].fence \in 0..MaxFence
    BY Zenon DEF Token
  <2>5. lastFence' \in [Spaces \X Work -> 0..MaxFence]
    BY <1>7, <2>4, Zenon DEF commit
  <2>6. Finish(a)
    BY <1>7, Zenon DEF commit
  <2> QED BY <1>7, <2>3, <2>5, <1>6, <2>6, Zenon DEF commit
<1>8. ASSUME NEW a \in Agents, NEW s \in Spaces, refuse(a, s) PROVE TeamTypeOK'
  <2>1. Finish(a)
    BY <1>8, Zenon DEF refuse
  <2> QED BY <1>8, <1>6, <2>1, Zenon DEF refuse
<1>9. ASSUME NEW D \in SUBSET Facts, Admission(D) \/ erasure(D) PROVE TeamTypeOK'
  BY <1>9, Zenon DEF Admission, erasure, Contents, agent, tx
<1>10. ASSUME NEW f \in Facts, NEW b \in Body, Undeclared(f, b) PROVE TeamTypeOK'
  BY <1>10, Zenon DEF Undeclared, Contents, agent, tx
<1>11. CASE UNCHANGED teamVars
  BY <1>11, Zenon DEF teamVars, agent, tx
<1> QED
  BY <1>1, <1>2, <1>3, <1>4, <1>5, <1>7, <1>8, <1>9, <1>10, <1>11, Zenon
    DEF TeamNext, release, Expire

\* What validation found stays true until the transaction ends: the facts, the
\* policy and the reads of the agent inside do not change under the lock.
LEMMA StillCurrent == TeamTypeOK /\ Current /\ [TeamNext]_teamVars => Current'
<1> SUFFICES ASSUME TeamTypeOK, Current, [TeamNext]_teamVars PROVE Current'
  BY Zenon
<1>1. ASSUME NEW a \in Agents, NEW s \in Spaces, begin(a, s) PROVE Current'
  <2>1. \A f \in Reads(doing[a]) \ stale(a) : facts[f] = read_set[a][f]
    BY Zenon DEF stale
  <2>2. level[s] \in Serial => stale(a) = {}
    BY <1>1, Zenon DEF begin, Validated
  <2> QED BY <1>1, <2>1, <2>2, Zenon DEF begin, agent, Current
<1>2. ASSUME UNCHANGED <<facts, level, agent, tx>> PROVE Current'
  BY <1>2, Zenon DEF Current, agent, tx
<1>3. ASSUME locker' = Nobody PROVE Current'
  BY <1>3, Zenon DEF Current
<1> QED
  BY <1>1, <1>2, <1>3, ZenonT(60)
  DEF TeamNext, teamVars, isolation, fetch, lease, release, Expire,
      Admission, refuse, commit, Finish,
      erasure, Undeclared, agent, tx

\* A sequenced commit uses the token of the row of its work item.
LEMMA CommitFence ==
  ASSUME TeamTypeOK, NEW a \in Agents, commit(a), level[space] = "sequenced"
  PROVE  /\ <<token[a].space, token[a].work>> \in Spaces \X Work
         /\ token[a].fence = leases[<<token[a].space, token[a].work>>].fence
<1>1. _fence(a, space)
  BY Zenon DEF commit, Admitted
<1>2. PICK w \in Work : Holds(a, space, w)
  BY <1>1, Zenon DEF _fence
<1> QED BY <1>2 DEF Holds, TeamTypeOK

LEMMA CommitUses ==
  ASSUME NEW a \in Agents, commit(a), NEW k \in Spaces \X Work
  PROVE  /\ leases' = leases
         /\ lastFence'[k] = IF level[space] = "sequenced" /\ k = <<token[a].space, token[a].work>>
                            THEN token[a].fence ELSE lastFence[k]
  BY Zenon DEF commit

LEMMA WithinNext == \A m, n \in Nat : m <= n => m <= n + 1
  OBVIOUS

\* Tokens used stay within tokens given.
LEMMA StillGiven == ASSUME TeamTypeOK, Given, [TeamNext]_teamVars PROVE Given'
<1> SUFFICES ASSUME NEW k \in Spaces \X Work
             PROVE  lastFence'[k] <= leases'[k].fence
  BY Zenon DEF Given
<1>0. lastFence[k] \in Nat /\ leases[k].fence \in Nat /\ lastFence[k] <= leases[k].fence
  BY TeamAssumption DEF TeamTypeOK, Given, Row
<1>1. ASSUME NEW a \in Agents, NEW s \in Spaces, NEW w \in Work, lease(a, s, w)
      PROVE lastFence'[k] <= leases'[k].fence
  <2>1. leases'[k].fence = leases[k].fence \/ leases'[k].fence = leases[k].fence + 1
    BY <1>1, Zenon DEF lease, TeamTypeOK
  <2>2. lastFence' = lastFence
    BY <1>1, Zenon DEF lease
  <2> QED BY <1>0, <2>1, <2>2, WithinNext, Zenon
<1>2. ASSUME NEW s \in Spaces, NEW w \in Work,
             leases' = [leases EXCEPT ![<<s, w>>].live = FALSE], lastFence' = lastFence
      PROVE lastFence'[k] <= leases'[k].fence
  <2>0. leases \in [Spaces \X Work -> Row]
    BY Zenon DEF TeamTypeOK
  <2>1. leases'[k].fence = leases[k].fence
    BY <1>2, <2>0, Zenon DEF Row
  <2> QED BY <1>0, <1>2, <2>1, Zenon
<1>3. ASSUME NEW a \in Agents, commit(a) PROVE lastFence'[k] <= leases'[k].fence
  <2>1. level[space] = "sequenced" => token[a].fence = leases[<<token[a].space, token[a].work>>].fence
    BY <1>3, CommitFence, Zenon
  <2> QED BY <1>0, <1>3, <2>1, CommitUses
<1>4. ASSUME UNCHANGED <<leases, lastFence>> PROVE lastFence'[k] <= leases'[k].fence
  BY <1>0, <1>4, Zenon
<1> QED
  BY <1>1, <1>2, <1>3, <1>4, ZenonT(30)
     DEF TeamNext, teamVars, isolation, fetch, release, Expire, Admission,
      begin, refuse, erasure, Undeclared

\* The transaction's reads are current, so its effect is that of running now.
LEMMA CommitRuns ==
  ASSUME TeamTypeOK, Current, NEW a \in Agents, commit(a),
         Reads(doing[a]) \cap changed = {}
  PROVE  facts' = Run(doing[a], facts)
<1> USE TeamAssumption
<1>1. locker = a /\ doing[a] \in Programs /\ read_set[a] \in Contents /\ facts \in Contents
  BY Zenon DEF commit, TeamTypeOK
<1>2. \A g \in Reads(doing[a]) : read_set[a][g] = facts[g]
  BY <1>1, Zenon DEF Current
<1>3. \A f \in Facts : Compute(doing[a], f, read_set[a]) = Compute(doing[a], f, facts)
  BY <1>1, <1>2
<1> QED BY <1>1, <1>3, Zenon DEF commit, Run

\* Type correctness and the inductive invariant hold in every reachable state.
LEMMA TeamInvariant == TeamSpec => []TeamInv
<1>1. TeamInv /\ [TeamNext]_teamVars => TeamInv'
  BY TeamTypes, StillCurrent, StillGiven, Zenon DEF TeamInv
<1> QED BY TeamStart, <1>1, PTL DEF TeamSpec

\* Levels, leases, facts and reads of team_io.py keep their types.
THEOREM TeamTypeCorrect == TeamSpec => []TeamTypeOK
<1>1. TeamInv => TeamTypeOK
  BY Zenon DEF TeamInv
<1> QED BY TeamInvariant, <1>1, PTL

\* Serializability: commits at the serializable and sequenced levels are atomic
\* runs of the agents' programs, whatever happened since they fetched (_checked).
THEOREM SerializableHolds == TeamSpec => Serializable
<1>1. ASSUME TeamInv, [TeamNext]_teamVars, NEW a \in Agents, commit(a), level[space] \in Serial
      PROVE facts' = Run(doing[a], facts)
  <2>1. changed = {}
    BY TeamAssumption, <1>1, Zenon DEF TeamInv, Current, commit
  <2> QED BY <1>1, <2>1, CommitRuns, Zenon DEF TeamInv
<1>2. TeamInv /\ [TeamNext]_teamVars =>
        [\A a \in Agents :
           commit(a) /\ level[space] \in Serial => facts' = Run(doing[a], facts)]_teamVars
  BY <1>1, Zenon
<1> QED BY TeamInvariant, <1>2, PTL DEF TeamSpec, Serializable

\* No lost update from the snapshot level on (_checked's snapshot_write_conflict).
THEOREM NoLostUpdateHolds == TeamSpec => NoLostUpdate
<1>1. ASSUME TeamInv, [TeamNext]_teamVars, NEW a \in Agents, commit(a),
             level[space] # Unset, level[space] # "none",
             Reads(doing[a]) \subseteq Writes(doing[a])
      PROVE facts' = Run(doing[a], facts)
  <2>1. CASE level[space] \in Serial
    <3>1. changed = {}
      BY TeamAssumption, <1>1, <2>1, Zenon DEF TeamInv, Current, commit
    <3> QED BY <1>1, <3>1, CommitRuns, Zenon DEF TeamInv
  <2>2. CASE level[space] = "snapshot"
    <3>1. \A f \in Reads(doing[a]) : f \notin changed
      BY <1>1, <2>2, Zenon DEF commit, Admitted
    <3> QED BY <1>1, <3>1, CommitRuns, Zenon DEF TeamInv
  <2> QED BY <1>1, <2>1, <2>2, Zenon DEF TeamInv, TeamTypeOK, LEVELS, Serial
<1>2. TeamInv /\ [TeamNext]_teamVars =>
        [\A a \in Agents :
           commit(a) /\ level[space] # Unset /\ level[space] # "none"
             /\ Reads(doing[a]) \subseteq Writes(doing[a])
           => facts' = Run(doing[a], facts)]_teamVars
  BY <1>1, Zenon
<1> QED BY TeamInvariant, <1>2, PTL DEF TeamSpec, NoLostUpdate

\* Fencing: sequenced commits on a work item use ever newer tokens (lease, _fence).
THEOREM FencesAdvanceHolds == TeamSpec => FencesAdvance
<1>1. ASSUME TeamInv, [TeamNext]_teamVars, NEW k \in Spaces \X Work PROVE lastFence'[k] >= lastFence[k]
  <2>0. lastFence[k] \in Nat /\ leases[k].fence \in Nat /\ lastFence[k] <= leases[k].fence
    BY TeamAssumption, <1>1 DEF TeamInv, TeamTypeOK, Given, Row
  <2>1. ASSUME NEW a \in Agents, commit(a) PROVE lastFence'[k] >= lastFence[k]
    <3>1. level[space] = "sequenced" => token[a].fence = leases[<<token[a].space, token[a].work>>].fence
      BY <1>1, <2>1, CommitFence, Zenon DEF TeamInv
    <3> QED BY <2>0, <2>1, <3>1, CommitUses
  <2>2. CASE UNCHANGED lastFence
    BY <2>0, <2>2
  <2> QED
    BY <1>1, <2>1, <2>2, ZenonT(60)
    DEF TeamNext, teamVars, isolation, fetch, lease, release, Expire,
        Admission, begin, refuse, erasure, Undeclared
<1>2. TeamInv /\ [TeamNext]_teamVars => [\A k \in Spaces \X Work : lastFence'[k] >= lastFence[k]]_teamVars
  BY <1>1, Zenon
<1> QED BY TeamInvariant, <1>2, PTL DEF TeamSpec, FencesAdvance
==============================================================================
