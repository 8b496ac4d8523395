---------------------------- MODULE ProviderCall ----------------------------
(***************************************************************************)
(* Calls of a language-model provider (llm._provider_call): admission by   *)
(* the shared cooldown (overload.OverloadPolicy), then the circuit breaker *)
(* of the provider (circuit_breaker.CircuitBreaker) around the dispatch.   *)
(* Callers are threads; a section under a lock is one step, and the        *)
(* dispatch holds no lock.                                                 *)
(*                                                                         *)
(* Time is relative: _opened is the time since the circuit opened, up to   *)
(* Recovery, and _until the time to the end of the cooldown.  The breaker  *)
(* is one object; that _CIRCUITS may replace it is left out.  The          *)
(* cooldown's count of failures only chooses its delay, which is free here.*)
(***************************************************************************)
EXTENDS Integers, FiniteSets

CONSTANTS
    Callers,
    Threshold,         \* consecutive transient failures that open the circuit
    Recovery,          \* recovery_seconds
    MaxDelay,          \* bound on a cooldown
    MaxFaults,         \* bound on calls that the provider does not answer well
    None

ASSUME ProviderAssumption ==
    /\ Threshold \in Nat \ {0} /\ Recovery \in Nat \ {0} /\ MaxDelay \in Nat /\ MaxFaults \in Nat
    /\ None \notin Nat

VARIABLES
    circuit,           \* the breaker
    _until,            \* the cooldown
    pc,
    probe, generation, \* locals of CircuitBreaker.call
    outcome,           \* how the dispatch ended
    late,              \* history: calls in flight when the circuit opened
    faults

callVars == <<circuit, _until, pc, probe, generation, outcome, late, faults>>

\* "cancelled" is an exception that is no Exception, or a classifier that fails.
Outcomes == {"ok", "transient", "permanent", "cancelled"}

CallInit ==
    /\ circuit = [_failures |-> 0, _generation |-> 0, _opened |-> None, _probe |-> FALSE]
    /\ _until = 0 /\ pc = [c \in Callers |-> "idle"]
    /\ probe = [c \in Callers |-> FALSE] /\ generation = [c \in Callers |-> 0]
    /\ outcome = [c \in Callers |-> None] /\ late = {} /\ faults = 0

InFlight == {c \in Callers : pc[c] \in {"call", "settle"}}

Step(c, from, to) == pc[c] = from /\ pc' = [pc EXCEPT ![c] = to]

-----------------------------------------------------------------------------
\* Refused here, a call ends before it reaches the breaker.
admit(c) ==
    /\ _until = 0 /\ Step(c, "idle", "enter")
    /\ UNCHANGED <<circuit, _until, probe, generation, outcome, late, faults>>

\* Mutant: the probe that is under way is not looked at.
RefusesCooling == circuit._opened # None /\ circuit._opened < Recovery

Refuses == circuit._opened # None /\ (circuit._opened < Recovery \/ circuit._probe)

\* The first section of CircuitBreaker.call.
enter(c) ==
    /\ Step(c, "enter", IF Refuses THEN "idle" ELSE "call")
    /\ IF Refuses THEN UNCHANGED <<circuit, probe, generation>>
       ELSE /\ probe' = [probe EXCEPT ![c] = circuit._opened # None]
            /\ generation' = [generation EXCEPT ![c] = circuit._generation]
            /\ circuit' = [circuit EXCEPT !._probe = circuit._opened # None]
    /\ UNCHANGED <<_until, outcome, late, faults>>

\* The provider answers, perhaps with 429, 503 or 529, which starts a cooldown.
dispatch(c) ==
    /\ Step(c, "call", "settle")
    /\ \E o \in Outcomes :
         /\ outcome' = [outcome EXCEPT ![c] = o]
         /\ faults' = IF o = "ok" THEN faults ELSE faults + 1
         /\ faults' <= MaxFaults
         /\ \/ UNCHANGED _until
            \/ /\ o \in {"transient", "permanent"}
               /\ \E delay \in 1..MaxDelay : _until' = IF _until < delay THEN delay ELSE _until
    /\ UNCHANGED <<circuit, probe, generation, late>>

\* Mutant: one failure more is needed.
FailedBreakerLate(p) ==
    LET opens == p \/ circuit._failures >= Threshold IN
    [_failures |-> circuit._failures + 1, _probe |-> circuit._probe /\ ~p,
     _opened |-> IF opens THEN 0 ELSE circuit._opened,
     _generation |-> IF opens THEN circuit._generation + 1 ELSE circuit._generation]

\* A transient failure.
FailedBreaker(p) ==
    LET opens == p \/ circuit._failures + 1 >= Threshold IN
    [_failures |-> circuit._failures + 1, _probe |-> circuit._probe /\ ~p,
     _opened |-> IF opens THEN 0 ELSE circuit._opened,
     _generation |-> IF opens THEN circuit._generation + 1 ELSE circuit._generation]

\* A success; a permanent error, too, shows that the provider is reachable.
ReachedBreaker(p) ==
    [_failures |-> 0, _probe |-> circuit._probe /\ ~p,
     _opened |-> IF p THEN None ELSE circuit._opened,
     _generation |-> IF p THEN circuit._generation + 1 ELSE circuit._generation]

\* Mutant: a cancelled probe is left behind.
CancelledBreakerKept(p) == circuit

CancelledBreaker(p) == [circuit EXCEPT !._probe = circuit._probe /\ ~p]

\* Mutant: answers of an older generation count.
SettledAny(g, p, o) ==
    CASE o = "transient" -> FailedBreaker(p)
      [] o = "cancelled" -> CancelledBreaker(p)
      [] OTHER -> ReachedBreaker(p)

\* The breaker after a call of generation g, perhaps a probe, ended with outcome o.
Settled(g, p, o) ==
    IF circuit._generation # g THEN circuit
    ELSE CASE o = "transient" -> FailedBreaker(p)
           [] o = "cancelled" -> CancelledBreaker(p)
           [] OTHER -> ReachedBreaker(p)

\* The last section of CircuitBreaker.call.
settle(c) ==
    LET new == Settled(generation[c], probe[c], outcome[c])
        opens == new._generation # circuit._generation /\ new._opened # None
    IN /\ Step(c, "settle", "idle")
       /\ circuit' = new
       /\ late' = (IF opens THEN InFlight ELSE late) \ {c}
       /\ probe' = [probe EXCEPT ![c] = FALSE] /\ generation' = [generation EXCEPT ![c] = 0]
       /\ outcome' = [outcome EXCEPT ![c] = None]
       /\ UNCHANGED <<_until, faults>>

CallTick ==
    /\ _until > 0 \/ circuit._opened \in 0..Recovery - 1
    /\ _until' = IF _until = 0 THEN 0 ELSE _until - 1
    /\ circuit' = IF circuit._opened \in 0..Recovery - 1
                  THEN [circuit EXCEPT !._opened = circuit._opened + 1] ELSE circuit
    /\ UNCHANGED <<pc, probe, generation, outcome, late, faults>>

-----------------------------------------------------------------------------
_provider_call(c) == admit(c) \/ enter(c) \/ dispatch(c) \/ settle(c)

CallNext == CallTick \/ \E c \in Callers : _provider_call(c)

\* Time passes; callers go on and call again; a call ends, if only by a timeout.
Fairness == WF_callVars(CallTick) /\ \A c \in Callers : WF_callVars(_provider_call(c))

CallSpec == CallInit /\ [][CallNext]_callVars /\ Fairness

-----------------------------------------------------------------------------
Breakers == [_failures: Nat, _generation: Nat, _opened: {None} \cup 0..Recovery, _probe: BOOLEAN]

\* Every variable has its type, and a closed circuit has counted fewer failures
\* than open it (CircuitBreaker.call).
CallTypeOK ==
    /\ circuit \in Breakers /\ _until \in Nat
    /\ pc \in [Callers -> {"idle", "enter", "call", "settle"}]
    /\ probe \in [Callers -> BOOLEAN] /\ generation \in [Callers -> Nat]
    /\ outcome \in [Callers -> {None} \cup Outcomes]
    /\ late \subseteq InFlight /\ faults \in Nat
    /\ circuit._opened = None => circuit._failures < Threshold

\* At most one call in flight is a recovery probe, and the breaker's flag is set
\* exactly while there is one: cancelled or failed, no probe is left behind.
OneProbe ==
    /\ \A c, d \in InFlight : probe[c] /\ probe[d] => c = d
    /\ circuit._probe <=> \E c \in InFlight : probe[c]

\* "Older in-flight successes cannot close a newly opened circuit": the end of a
\* call that was in flight when the circuit opened leaves the breaker as it is.
LateIgnored == [][\A c \in late : c \notin late' => circuit' = circuit]_callVars

\* When the provider answers well again, the circuit closes for good.
Recovers == <>[](circuit._opened = None)
==============================================================================
