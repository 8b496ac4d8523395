\* Safety with every operator command; two rows with one key, two workers.
SPECIFICATION Spec
CONSTANTS
    Jobs = {"j1", "j2"}
    Workers = {"w1", "w2"}
    kind <- MCkind
    priority <- MCpriority
    max_attempts <- MCmax_attempts
    dedupe_key <- MCdedupe_key
    Serves <- MCServes
    NoKey = "none"
    Delays = {0, 1}
    Lease = 1
    BackoffBase = 1
    BackoffMax = 1
    Horizon = 0
    OperatorActs = {"retry", "retry_all", "complete", "fail", "purge"}
INVARIANTS TypeOK PendingKeysUnique AttemptsAccounted LiveLeaseIsNewest
PROPERTY DoneIsFinal
