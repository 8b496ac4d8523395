SPECIFICATION Spec
CONSTANTS
  Callers = {a, b}
  None = None
  TTL = 2
  HotTTL = 1
  MaxTexts = 1
  MaxSets = 1
  MaxFaults = 1
SYMMETRY Symmetry
INVARIANTS TypeOK SharedLoad WaiterServed  
