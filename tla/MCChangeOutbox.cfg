SPECIFICATION FairSpec
CONSTANTS
    NItems = 2
    Procs = {p1, p2}
    Stamped = TRUE
    MaxVersion = 4
    MaxWrites = 3
    MaxCrashes = 2
    MaxEdits = 1
INVARIANTS TypeOK NothingForgotten
PROPERTIES LogPromise EventuallyPublished
