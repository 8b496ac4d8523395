SPECIFICATION Spec
CONSTANTS
    Lessons = {l1}
    Occasions = {o1}
    Retrievers = {r1}
    Operators = {p1, p2}
    Draw <- MCDraw
    ConfiguredRates = {2}
    PlanRates = {1}
    Explore = 5
    DefaultRate = 1
    EffectiveDelay = 2
    MaxStall = 1
    MaxSalts = 1
    MaxSchedules = 2
    MaxRows = 2
    MaxTime = 4
INVARIANTS TypeOK EveryRateAccounted DriftAuditClean
SYMMETRY Symmetry
