SPECIFICATION Spec
CONSTANTS
  Sids = {s1, s2}
  Conns = {c1, c2}
  Procs = {p1, p2}
  MaxNotes = 2
  None = none
SYMMETRY NotificationSymmetry
INVARIANTS
  TypeOK
  NothingOverlooked
  NoneWaitsForEnded
  InOrder
PROPERTIES
  ImplementsDelivery
