SPECIFICATION Spec
CONSTANTS
  Records = {a}
  Texts = {x, y}
  Inactive = Inactive
  Tombstone = Tombstone
  Workers = {w1, w2}
  Searchers = {}
  Batch = 2
  Reuse = FALSE
  None = None
  Deleted = Deleted
  Unstaged = Unstaged
  MaxClock = 3
  MaxFaults = 2
PROPERTY CaughtUp
