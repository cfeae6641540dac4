SPECIFICATION FairSpec
CONSTANTS
  Conns = {c1, h1}
  PrioConns = {}
  PipeConns = {c1, h1}
  DeferConns = {c1}
  HangConns = {h1}
  ClosingConns = {}
  Workers = {w1, w2}
  Prio = prio
  Notifier = notifier
  None = none
  InitThreads = 1
  HupThreads = {1, 2}
  MaxHup = 0
  MaxKeepAlive = 1
  Signals = {}
INVARIANTS
  NoLostWakeup

  
