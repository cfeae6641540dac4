SPECIFICATION FairSpec
CONSTANTS
  Sids = {s1, s2}
  Loners = {s1, s2}
  GroupIds = {}
  Procs = {p1, p2}
  Cleaner = cleaner
  Main = main
  None = none
PROPERTIES
  LogoffReturns
  ExpiredIsRemoved
  
