SPECIFICATION Spec
CONSTANTS
  Sids = {s1, s2}
  Loners = {s1, s2}
  GroupIds = {g}
  Procs = {p1, p2}
  Cleaner = cleaner
  Main = main
  None = none
SYMMETRY SessionSymmetry
INVARIANTS
  TypeOK
  LockedIsAlive
  SoleRemover
  GroupsAndSessionsAgree
PROPERTIES
  ImplementsLife
