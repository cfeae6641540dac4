SPECIFICATION Spec
CONSTANTS
  SFolders = {f}
  Msgs = {m}
  Places = {1, 2}
  Targets = {1}
  Procs = {p1, p2}
  Insts = {i1, i2, i3}
  BatchSize = 1
  MaxChanges = 2
  MaxSets = 3
  MaxMishaps = 1
  MaxTotal = 4
  None = none
SYMMETRY ProcSymmetry
CHECK_DEADLOCK FALSE
INVARIANTS
  TypeOK
  
  
  NothingHangs
