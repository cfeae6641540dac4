SPECIFICATION Spec
CONSTANTS
  Sids = {s1, s2}
  Loners = {}
  GroupIds = {g}
  Procs = {p1, p2}
  Cleaner = cleaner
  Main = main
  None = none
INVARIANTS
  NoFreedGroupRead
