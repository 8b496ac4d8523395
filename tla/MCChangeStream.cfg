SPECIFICATION FairSpec
CONSTANTS
    Items = {i1, i2}
    Subs = {s1}
    Limit = 2
    MaxRevision = 2
    MaxWrites = 2
    MaxForgets = 1
    MaxLost = 1
INVARIANTS TypeOK 
PROPERTIES ReceiptSound 
