SPECIFICATION CallSpec
CONSTANTS
  Callers = {a, b, c}
  None = None
  Threshold = 2
  Recovery = 2
  MaxDelay = 1
  MaxFaults = 4
INVARIANTS CallTypeOK OneProbe
PROPERTIES LateIgnored Recovers
