SPECIFICATION Spec
CONSTANTS
  Conns = {c1, p1}
  PrioConns = {p1}
  PipeConns = {p1}
  DeferConns = {c1, p1}
  HangConns = {}
  ClosingConns = {c1}
  Workers = {w1}
  Prio = prio
  Notifier = notifier
  None = none
  InitThreads = 1
  HupThreads = {1}
  MaxHup = 0
  MaxKeepAlive = 1
  Signals = {"TERM"}
INVARIANTS
  TypeOK
  SoleOwner
PROPERTIES
  ImplementsOwnership
