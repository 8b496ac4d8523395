\* Liveness: rows of two kinds, one of them served by one worker only; an operator
\* who retries, completes and purges rows.
SPECIFICATION FairSpec
CONSTANTS
    Jobs = {"j1", "j3"}
    Workers = {"w1", "w2"}
    kind <- MCkind
    priority <- MCpriority
    max_attempts <- MCmax_attempts
    dedupe_key <- MCdedupe_key
    Serves <- MCServes
    NoKey = "none"
    Delays = {0, 1}
    Lease = 1
    BackoffBase = 1
    BackoffMax = 1
    Horizon = 1
    OperatorActs = {"retry", "complete", "purge"}
PROPERTY EveryJobSettles
