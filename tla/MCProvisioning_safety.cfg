CONSTANTS
  User = {u1}
  Resource = {x1, x2, x3}
  Request = {r1, r2}
  None = None
  MaxFaults = 2
SPECIFICATION Spec
SYMMETRY Symmetry
INVARIANTS
  TypeOK
  DuplicatesAreRaced
  SettledAgrees
