SPECIFICATION Spec
CONSTANTS
  Records = {a, b}
  Texts = {x, y}
  Inactive = Inactive
  Tombstone = Tombstone
  Workers = {w1, w2}
  Searchers = {s1}
  Batch = 2
  Reuse = FALSE
  None = None
  Deleted = Deleted
  Unstaged = Unstaged
  MaxClock = 3
  MaxFaults = 1
SYMMETRY Symmetry
INVARIANTS TypeOK HitsCurrent ErasedGone Projected
