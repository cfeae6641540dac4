SPECIFICATION FairSpec
CONSTANTS
  Sids = {s1, s2}
  Conns = {c1}
  Procs = {p1, p2}
  MaxNotes = 1
  None = none
PROPERTIES
  RequestIsAnswered
