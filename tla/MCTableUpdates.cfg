SPECIFICATION FairSpec
CONSTANTS
    s1 = s1  s2 = s2  p1 = p1  p2 = p2 t1 = t1 
    inbox = inbox  trash = trash  m1 = m1
    Sids = {s1, s2}
    Threads = {p1, p2}
    Tables = {t1}
    Views = {inbox, trash}
    Msgs = {m1}
    MaxChanges = 2
    None = None
INVARIANTS TypeOK TablesInUseExist SubscriptionsAgree 
 
CHECK_DEADLOCK FALSE
