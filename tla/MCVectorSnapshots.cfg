SPECIFICATION Spec
CONSTANTS
  Keys = {k1}
  Values = {x, y}
  Labels = {g1, g2}
  Builders = {b1, b2}
  Readers = {p1}
  None = None
  Deleted = Deleted
  Unstaged = Unstaged
  Lease = 1
  Limit = 1
  MaxRevision = 2
SYMMETRY Symmetry
INVARIANTS TypeOK OneVector
PROPERTY Implements

