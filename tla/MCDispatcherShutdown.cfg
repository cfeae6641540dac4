SPECIFICATION FairSpec
CONSTANTS
  Conns = {c1}
  PrioConns = {}
  PipeConns = {}
  DeferConns = {c1}
  HangConns = {}
  ClosingConns = {}
  Workers = {w1, w2}
  Prio = prio
  Notifier = notifier
  None = none
  InitThreads = 1
  HupThreads = {2}
  MaxHup = 1
  MaxKeepAlive = 1
  Signals = {"HUP", "TERM", "EARLYHUP"}
INVARIANTS
  ExitLeavesNothing
PROPERTIES
  
  NoThreadsDuringExit
