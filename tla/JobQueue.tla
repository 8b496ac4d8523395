------------------------------ MODULE JobQueue ------------------------------
(***************************************************************************)
(* The durable background-job queue of unimem/jobs.py: one SQLite table,   *)
(* worker processes that claim a row under a lease, a heartbeat thread per *)
(* running handler, and the operator's commands.                           *)
(*                                                                         *)
(* Every function of jobs.py that touches the table runs in one write      *)
(* transaction (BEGIN IMMEDIATE), so each is one action.  What a worker    *)
(* does between transactions (run_pending) is split into phases: the lease *)
(* may expire, and any other process may act, between them.                *)
(*                                                                         *)
(* Time is relative: due[j] is run_after - now and lease_left[j] is        *)
(* lease_until - now, and Tick lowers both.  due saturates at -Horizon,    *)
(* which forgets the order of rows overdue by more than Horizon;           *)
(* lease_left saturates at 0, which is "expired" (lease_until <= now).     *)
(***************************************************************************)
EXTENDS Integers, FiniteSets

CONSTANTS
    Jobs,          \* row ids
    Workers,       \* processes calling run_pending
    kind, priority, max_attempts, dedupe_key,
                   \* the columns enqueue fixes, as functions of the row id
    NoKey,         \* dedupe_key is NULL
    Serves,        \* Serves[w]: the kinds argument of worker w
    Delays,        \* the values of enqueue's delay argument
    Lease,         \* the worker's lease
    BackoffBase, BackoffMax,
    Horizon,       \* bound on how overdue a row is remembered to be
    OperatorActs   \* which operator commands are given

AttemptCap == 20     \* enqueue clamps max_attempts to 1..20
NoWorker == "no worker"
NoJob == "no job"
NoToken == 0

Pending == {"queued", "running", "failed"}
Status == Pending \cup {"absent", "done", "dead"}
Working == {"handler", "completing", "failing"}
Phases == Working \cup {"idle", "raised"}
Acts == {"retry", "retry_all", "complete", "fail", "purge"}

ASSUME JobsAssumption ==
    /\ NoJob \notin Jobs /\ NoWorker \notin Workers
    /\ max_attempts \in [Jobs -> 1..AttemptCap]
    /\ priority \in [Jobs -> Int]
ASSUME TimeAssumption ==
    /\ Delays \subseteq Nat /\ Lease \in Nat \ {0} /\ Horizon \in Nat
    /\ BackoffBase \in Nat /\ BackoffMax \in Nat
ASSUME OperatorAssumption == OperatorActs \subseteq Acts

VARIABLES
    status,     \* the row's status; "absent": no row with this id
    attempts,
    due,        \* run_after - now
    lease_left, \* lease_until - now; 0 when NULL or expired
    lease_token, \* NoToken when NULL
    phase,      \* where each worker is in run_pending,
    held,       \* ... the row it claimed (job),
    claimed,    \* ... the token of that claim (job.lease_token),
    beat,       \* ... and whether its heartbeat thread is alive
    newest,     \* history: which worker made the latest claim of the row
    clash       \* history: a retry was refused by the unique index

row == <<status, attempts, due, lease_left, lease_token>>
mem == <<phase, held, claimed, beat>>
vars == <<status, attempts, due, lease_left, lease_token, phase, held, claimed, beat, newest, clash>>

-----------------------------------------------------------------------------
Max(a, b) == IF a > b THEN a ELSE b
Min(a, b) == IF a < b THEN a ELSE b

\* Mutant of KeyTaken: the index and the look-up forget rows waiting for a retry.
KeyTakenUnlessFailed(j) ==
    /\ dedupe_key[j] # NoKey
    /\ \E i \in Jobs \ {j} : status[i] \in {"queued", "running"} /\ dedupe_key[i] = dedupe_key[j]

\* Rows the partial unique index jobs_dedupe covers, other than j, with j's key.
KeyTaken(j) ==
    /\ dedupe_key[j] # NoKey
    /\ \E i \in Jobs \ {j} : status[i] \in Pending /\ dedupe_key[i] = dedupe_key[j]

\* uuid4 tokens are compared only for equality: a fresh one is the least
\* number that no row and no worker remembers.
Remembered == {lease_token[j] : j \in Jobs} \cup {claimed[w] : w \in Workers}
Fresh(t) == /\ t \in Nat \ {NoToken} /\ t \notin Remembered
            /\ \A u \in 1..(t - 1) : u \in Remembered

\* Mutant of LetGo: the heartbeat outlives the claim (no stop event is set).
LetGoBeating(w, p) ==
    /\ phase' = [phase EXCEPT ![w] = p]
    /\ held' = [held EXCEPT ![w] = NoJob]
    /\ claimed' = [claimed EXCEPT ![w] = NoToken]
    /\ UNCHANGED beat

\* The worker forgets its claim and goes to phase p.
LetGo(w, p) ==
    /\ phase' = [phase EXCEPT ![w] = p]
    /\ held' = [held EXCEPT ![w] = NoJob]
    /\ claimed' = [claimed EXCEPT ![w] = NoToken]
    /\ beat' = [beat EXCEPT ![w] = FALSE]

\* Mutants of Live: the token is not compared; nothing but the id is.
LiveWithoutToken(j, t) == status[j] = "running" /\ lease_left[j] > 0
LiveById(j, t) == status[j] # "absent"

\* The fence of complete, fail and renew: status, token and lease all agree.
Live(j, t) == status[j] = "running" /\ lease_token[j] = t /\ lease_left[j] > 0

\* fail: min(BACKOFF_MAX, BACKOFF_BASE * 2 ** max(0, attempts - 1))
Backoff == [n \in 0..AttemptCap |-> Min(BackoffMax, BackoffBase * 2 ^ Max(0, n - 1))]
ASSUME BackoffAssumption == Backoff \in [0..AttemptCap -> Nat]

Init ==
    /\ status = [j \in Jobs |-> "absent"]
    /\ attempts = [j \in Jobs |-> 0]
    /\ due = [j \in Jobs |-> 0]
    /\ lease_left = [j \in Jobs |-> 0]
    /\ lease_token = [j \in Jobs |-> NoToken]
    /\ phase = [w \in Workers |-> "idle"]
    /\ held = [w \in Workers |-> NoJob]
    /\ claimed = [w \in Workers |-> NoToken]
    /\ beat = [w \in Workers |-> FALSE]
    /\ newest = [j \in Jobs |-> NoWorker]
    /\ clash = FALSE

-----------------------------------------------------------------------------
(* Producers *)

\* A dedupe_key that is already pending returns that row and writes nothing,
\* so only the inserting call is a step.  Ids are never reused while a worker
\* still remembers them (uuid4).
Enqueue(j, d) ==
    /\ status[j] = "absent" /\ \A w \in Workers : held[w] # j
    /\ ~KeyTaken(j)
    /\ status' = [status EXCEPT ![j] = "queued"]
    /\ attempts' = [attempts EXCEPT ![j] = 0]
    /\ due' = [due EXCEPT ![j] = d]
    /\ lease_left' = [lease_left EXCEPT ![j] = 0]
    /\ lease_token' = [lease_token EXCEPT ![j] = NoToken]
    /\ newest' = [newest EXCEPT ![j] = NoWorker]
    /\ UNCHANGED <<mem, clash>>

-----------------------------------------------------------------------------
(* Workers: run_pending *)

\* Mutant of Exhausted: one attempt too many.
ExhaustedLate(j) == attempts[j] > max_attempts[j]

Expired(j) == status[j] = "running" /\ lease_left[j] = 0
Exhausted(j) == attempts[j] >= max_attempts[j]

\* Mutant of Swept: claim does not park anything.
SweptNever(j) == FALSE

\* claim first parks every expired row that has no attempt left.
Swept(j) == Expired(j) /\ Exhausted(j)

\* ... then selects among the rows that are ready, whatever their kind,
Ready(w) == {j \in Jobs :
    /\ (status[j] \in {"queued", "failed"} /\ due[j] <= 0) \/ Expired(j)
    /\ ~Exhausted(j)
    /\ kind[j] \in Serves[w]}

\* ... ORDER BY priority DESC, run_after; ties are broken either way.
Before(i, j) == \/ priority[i] > priority[j]
                \/ priority[i] = priority[j] /\ due[i] < due[j]
Best(w) == {j \in Ready(w) : \A i \in Ready(w) : ~Before(i, j)}

ClaimNothing(w) ==
    /\ phase[w] = "idle" /\ Ready(w) = {}
    /\ status' = [j \in Jobs |-> IF Swept(j) THEN "dead" ELSE status[j]]
    /\ lease_left' = [j \in Jobs |-> IF Swept(j) THEN 0 ELSE lease_left[j]]
    /\ lease_token' = [j \in Jobs |-> IF Swept(j) THEN NoToken ELSE lease_token[j]]
    /\ UNCHANGED <<attempts, due, mem, newest, clash>>

ClaimRow(w, c, t) ==
    /\ phase[w] = "idle" /\ c \in Best(w) /\ Fresh(t)
    /\ status' = [j \in Jobs |-> IF Swept(j) THEN "dead"
                                 ELSE IF j = c THEN "running" ELSE status[j]]
    /\ attempts' = [attempts EXCEPT ![c] = @ + 1]
    /\ lease_left' = [j \in Jobs |-> IF Swept(j) THEN 0 ELSE IF j = c THEN Lease ELSE lease_left[j]]
    /\ lease_token' = [j \in Jobs |-> IF Swept(j) THEN NoToken ELSE IF j = c THEN t ELSE lease_token[j]]
    /\ phase' = [phase EXCEPT ![w] = "handler"]
    /\ held' = [held EXCEPT ![w] = c]
    /\ claimed' = [claimed EXCEPT ![w] = t]
    /\ beat' = [beat EXCEPT ![w] = TRUE]
    /\ newest' = [newest EXCEPT ![c] = w]
    /\ UNCHANGED <<due, clash>>

\* The handler's own work: it returns, or it raises (an unknown kind and a
\* result above 64 kB raise too).  Raising leaves the heartbeat's scope.
HandlerReturns(w) ==
    /\ phase[w] = "handler"
    /\ phase' = [phase EXCEPT ![w] = "completing"]
    /\ UNCHANGED <<row, held, claimed, beat, newest, clash>>

HandlerRaises(w) ==
    /\ phase[w] = "handler"
    /\ phase' = [phase EXCEPT ![w] = "failing"]
    /\ beat' = [beat EXCEPT ![w] = FALSE]
    /\ UNCHANGED <<row, held, claimed, newest, clash>>

\* complete(lease_token=...): saved only under a live lease, else LeaseLost,
\* which run_pending swallows.  Either way the worker goes on to its next claim.
Complete(w) ==
    LET j == held[w] IN
    /\ phase[w] = "completing"
    /\ LetGo(w, "idle")
    /\ IF Live(j, claimed[w])
       THEN /\ status' = [status EXCEPT ![j] = "done"]
            /\ lease_left' = [lease_left EXCEPT ![j] = 0]
            /\ lease_token' = [lease_token EXCEPT ![j] = NoToken]
       ELSE UNCHANGED <<status, lease_left, lease_token>>
    /\ UNCHANGED <<attempts, due, newest, clash>>

\* The row update fail makes, with or without a token.
FailRow(j) ==
    /\ status' = [status EXCEPT ![j] = IF Exhausted(j) THEN "dead" ELSE "failed"]
    /\ due' = [due EXCEPT ![j] = Backoff[attempts[j]]]
    /\ lease_left' = [lease_left EXCEPT ![j] = 0]
    /\ lease_token' = [lease_token EXCEPT ![j] = NoToken]

\* fail(lease_token=...): a missing row is a JobError that leaves run_pending;
\* a lost lease is swallowed.
Fail(w) ==
    LET j == held[w] IN
    /\ phase[w] = "failing"
    /\ LetGo(w, IF status[j] = "absent" THEN "raised" ELSE "idle")
    /\ IF Live(j, claimed[w]) THEN FailRow(j) ELSE UNCHANGED <<status, due, lease_left, lease_token>>
    /\ UNCHANGED <<attempts, newest, clash>>

\* _heartbeat: renew while the lease is live; the first failure of any kind
\* (lost lease, SQLite or OS error) ends the thread for good.
Heartbeat(w) ==
    LET j == held[w] IN
    /\ beat[w] /\ Live(j, claimed[w])
    /\ lease_left' = [lease_left EXCEPT ![j] = Max(@, Lease)]
    /\ UNCHANGED <<status, attempts, due, lease_token, mem, newest, clash>>

HeartbeatStops(w) ==
    /\ beat[w]
    /\ beat' = [beat EXCEPT ![w] = FALSE]
    /\ UNCHANGED <<row, phase, held, claimed, newest, clash>>

\* The process dies with what it held, or the exception that left run_pending
\* ends it; it is started again.
Crash(w) ==
    /\ phase[w] \in Working
    /\ LetGo(w, "idle")
    /\ UNCHANGED <<row, newest, clash>>

Restart(w) ==
    /\ phase[w] = "raised"
    /\ LetGo(w, "idle")
    /\ UNCHANGED <<row, newest, clash>>

-----------------------------------------------------------------------------
(* The operator: unimem jobs retry [ID], unimem jobs purge, and the calls of *)
(* complete and fail that pass no token (the "legacy operator override").    *)

Requeue(S) ==
    /\ status' = [j \in Jobs |-> IF j \in S THEN "queued" ELSE status[j]]
    /\ attempts' = [j \in Jobs |-> IF j \in S THEN 0 ELSE attempts[j]]
    /\ due' = [j \in Jobs |-> IF j \in S THEN 0 ELSE due[j]]
    /\ lease_left' = [j \in Jobs |-> IF j \in S THEN 0 ELSE lease_left[j]]
    /\ lease_token' = [j \in Jobs |-> IF j \in S THEN NoToken ELSE lease_token[j]]

\* The one UPDATE statement of retry: the unique index refuses all of it when
\* a row it would requeue has a key that is pending, or that it requeues twice.
Retry(S) ==
    /\ IF \/ \E j \in S : KeyTaken(j)
          \/ \E i, j \in S : i # j /\ dedupe_key[i] # NoKey
                                   /\ dedupe_key[i] = dedupe_key[j]
       THEN clash' = TRUE /\ UNCHANGED row
       ELSE Requeue(S) /\ UNCHANGED clash
    /\ UNCHANGED <<mem, newest>>

RetryOne(j) == "retry" \in OperatorActs /\ status[j] \in {"dead", "failed"} /\ Retry({j})

RetryAll ==
    LET dead == {j \in Jobs : status[j] = "dead"} IN
    "retry_all" \in OperatorActs /\ dead # {} /\ Retry(dead)

OperatorComplete(j) ==
    /\ "complete" \in OperatorActs /\ status[j] # "absent"
    /\ status' = [status EXCEPT ![j] = "done"]
    /\ lease_left' = [lease_left EXCEPT ![j] = 0]
    /\ lease_token' = [lease_token EXCEPT ![j] = NoToken]
    /\ UNCHANGED <<attempts, due, mem, newest, clash>>

\* Failing a finished row makes it pending again, so the index may refuse it.
OperatorFail(j) ==
    /\ "fail" \in OperatorActs /\ status[j] # "absent"
    /\ status[j] = "done" /\ ~Exhausted(j) => ~KeyTaken(j)
    /\ FailRow(j)
    /\ UNCHANGED <<attempts, mem, newest, clash>>

\* purge deletes the finished rows older than a cutoff the operator chooses;
\* ages are not modelled, so any non-empty set of them.
Purge(S) ==
    /\ "purge" \in OperatorActs /\ S # {} /\ \A j \in S : status[j] = "done"
    /\ status' = [j \in Jobs |-> IF j \in S THEN "absent" ELSE status[j]]
    /\ UNCHANGED <<attempts, due, lease_left, lease_token, mem, newest, clash>>

-----------------------------------------------------------------------------
Tick ==
    /\ due' = [j \in Jobs |-> Max(due[j] - 1, -Horizon)]
    /\ lease_left' = [j \in Jobs |-> Max(lease_left[j] - 1, 0)]
    /\ UNCHANGED <<status, attempts, lease_token, mem, newest, clash>>

WorkerStep(w) ==
    \/ ClaimNothing(w)
    \/ \E j \in Jobs, t \in 1..(Cardinality(Jobs) + Cardinality(Workers) + 1) : ClaimRow(w, j, t)
    \/ HandlerReturns(w) \/ HandlerRaises(w)
    \/ Complete(w) \/ Fail(w) \/ Restart(w)

Operator ==
    \/ \E j \in Jobs : RetryOne(j) \/ OperatorComplete(j) \/ OperatorFail(j)
    \/ RetryAll
    \/ \E S \in SUBSET Jobs : Purge(S)

Next ==
    \/ \E j \in Jobs, d \in Delays : Enqueue(j, d)
    \/ \E w \in Workers : WorkerStep(w) \/ Heartbeat(w) \/ HeartbeatStops(w) \/ Crash(w)
    \/ Operator
    \/ Tick

Spec == Init /\ [][Next]_vars

\* Workers keep being scheduled (cron or the daemon calls run_pending), every
\* handler returns or raises, and time passes.  Nothing is assumed of the
\* heartbeat, of crashes or of the operator.
FairSpec == Spec /\ WF_vars(Tick) /\ \A w \in Workers : WF_vars(WorkerStep(w))

-----------------------------------------------------------------------------
(* Properties *)

\* Every column keeps its domain (the schema of the jobs table).
TypeOK ==
    /\ status \in [Jobs -> Status]
    /\ attempts \in [Jobs -> Nat]
    /\ due \in [Jobs -> Int]
    /\ lease_left \in [Jobs -> Nat]
    /\ lease_token \in [Jobs -> Nat]
    /\ phase \in [Workers -> Phases]
    /\ held \in [Workers -> Jobs \cup {NoJob}]
    /\ claimed \in [Workers -> Nat]
    /\ beat \in [Workers -> BOOLEAN]
    /\ \A w \in Workers : /\ phase[w] \in Working <=> held[w] \in Jobs
                          /\ beat[w] => held[w] \in Jobs
    /\ newest \in [Jobs -> Workers \cup {NoWorker}]
    /\ clash \in BOOLEAN

\* The partial unique index and enqueue's look-up together: two rows that can
\* still run never carry the same dedupe_key, through retries, operator
\* failures and lease expiry.
PendingKeysUnique ==
    \A i, j \in Jobs :
        /\ i # j /\ status[i] \in Pending /\ status[j] \in Pending
        /\ dedupe_key[i] # NoKey
        => dedupe_key[i] # dedupe_key[j]

\* A handler is started at most max_attempts times between two retries, and a
\* row is parked as dead only when those attempts are used up: neither lease
\* expiry nor a crash loses or invents an attempt.
AttemptsAccounted ==
    \A j \in Jobs :
        /\ attempts[j] <= max_attempts[j]
        /\ status[j] = "running" => attempts[j] >= 1
        /\ status[j] = "dead" => attempts[j] = max_attempts[j]

\* The fence: a worker that could still complete, fail or renew a row is the
\* one that made the row's latest claim, however long it was stalled and
\* whatever expired, was re-claimed, retried or purged meanwhile.
LiveLeaseIsNewest ==
    \A w \in Workers :
        held[w] # NoJob /\ Live(held[w], claimed[w])
            => newest[held[w]] = w

\* A finished row is never re-run or re-failed by a worker: it stays done
\* until it is purged or the operator fails it by hand.
DoneIsFinal ==
    [][\A j \in Jobs : status[j] = "done" /\ status'[j] # "done"
            => status'[j] = "absent" \/ OperatorFail(j)]_vars

\* Every job that is enqueued is done or dead in the end, whatever crashes,
\* heartbeats that stop and leases that expire, and although a row may be purged
\* under the worker that runs it, whose loop the JobError of fail then leaves: if
\* the operator stops acting some day.
EveryJobSettles ==
    <>[][~Operator]_vars =>
        \A j \in Jobs : status[j] \in Pending ~> status[j] \in {"done", "dead"}

\* retry's docstring: "all dead jobs when no id is given" are put back.
RetryNeverRefused == ~clash

=============================================================================
