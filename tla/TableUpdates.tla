---------------------------- MODULE TableUpdates ----------------------------
(***************************************************************************)
(* The contents tables that sessions have open (ECTableManager,            *)
(* ECGenericObjectTable) and their updates when messages change            *)
(* (ECSessionManager::UpdateTables).                                       *)
(*                                                                         *)
(* A request that changes a message commits it to the database and then    *)
(* announces the change: it collects the sessions that have subscribed to  *)
(* the folder, and for each one that still exists updates its open tables. *)
(* Tables are opened, filled at their first use, read and closed at the    *)
(* same time, and sessions end.  A view is a folder together with the      *)
(* flags of a table (normal, associated, deleted), so that a soft delete   *)
(* is a move from one view of the folder to another.                       *)
(***************************************************************************)
EXTENDS Integers, Sequences, FiniteSets

CONSTANTS
  Sids,        \* sessions
  Threads,     \* threads that handle requests
  Tables,      \* table ids; they are not used twice (ulNextTableId)
  Views,       \* what a table shows
  Msgs,        \* messages; their ids are not used twice either
  None,
  MaxChanges   \* bound: changes of messages

ASSUME TableAssumption ==
  /\ IsFiniteSet(Sids) /\ IsFiniteSet(Threads) /\ IsFiniteSet(Tables)
  /\ None \notin Sids \cup Tables \cup Threads \cup Views
  /\ {"unborn", "gone"} \cap Views = {}
  /\ MaxChanges \in Nat

VARIABLES
  place,       \* database: the view each message is in, "unborn" or "gone"
  changes,     \* changes made
  contended,   \* messages changed by a request before another had announced
               \* its change of the same message
  state,       \* sessions: "live", "removed" from the session map, "freed"
  tab,         \* ECStoreObjectTable and TABLE_ENTRY of each table id
  subs,        \* m_mapTableSubscriptions, as a number per view and session
  listMutex,   \* hListMutex: who holds it, per session
  rowMutex,    \* m_hLock: who holds it, per table
  pc, sid, tbl,\* per thread: where it is, its session, the table it works on
  seen,        \* per thread: the ids a SELECT returned
  todo,        \* per thread: the updates it has yet to announce
  targets,     \* per thread: setSessions
  upd,         \* per thread: the session it has locked for an update
  left         \* per thread: tables of that session it has yet to update

dbVars == <<place, changes, contended>>
tableVars == <<tab, subs, rowMutex>>
updateVars == <<todo, targets, upd, left>>
vars == <<dbVars, state, tableVars, listMutex, pc, sid, tbl, seen, updateVars>>

Closed == [sid |-> None, view |-> None, listed |-> FALSE, refs |-> 0,
           populated |-> FALSE, rows |-> {}, freed |-> FALSE]

InView(v) == {m \in Msgs : place[m] = v}
UpdateType == {"add", "modify", "delete", "change"}
Updates == [type : UpdateType, view : Views, msg : Msgs]

TypeOK ==
  /\ place \in [Msgs -> Views \cup {"unborn", "gone"}]
  /\ changes \in 0..MaxChanges /\ contended \subseteq Msgs
  /\ state \in [Sids -> {"live", "removed", "freed"}]
  /\ tab \in [Tables -> [sid : Sids \cup {None}, view : Views \cup {None},
                         listed : BOOLEAN, refs : 0..(1 + Cardinality(Threads)),
                         populated : BOOLEAN, rows : SUBSET Msgs, freed : BOOLEAN]]
  /\ subs \in [Views \X Sids -> 0..Cardinality(Tables)]
  /\ listMutex \in [Sids -> Threads \cup {None}]
  /\ rowMutex \in [Tables -> Threads \cup {None}]
  /\ pc \in [Threads -> {"idle", "request", "opened", "got", "fill", "read", "closed",
                         "announce", "target", "lock", "update", "refill"}]
  /\ sid \in [Threads -> Sids \cup {None}] /\ upd \in [Threads -> Sids \cup {None}]
  /\ tbl \in [Threads -> Tables \cup {None}]
  /\ seen \in [Threads -> SUBSET Msgs] /\ todo \in [Threads -> Seq(Updates)]
  /\ targets \in [Threads -> SUBSET Sids] /\ left \in [Threads -> SUBSET Tables]

Init ==
  /\ place = [m \in Msgs |-> "unborn"] /\ changes = 0 /\ contended = {}
  /\ state = [s \in Sids |-> "live"]
  /\ tab = [t \in Tables |-> Closed]
  /\ subs = [k \in Views \X Sids |-> 0]
  /\ listMutex = [s \in Sids |-> None] /\ rowMutex = [t \in Tables |-> None]
  /\ pc = [p \in Threads |-> "idle"] /\ sid = [p \in Threads |-> None]
  /\ tbl = [p \in Threads |-> None] /\ seen = [p \in Threads |-> {}]
  /\ todo = [p \in Threads |-> <<>>] /\ targets = [p \in Threads |-> {}]
  /\ upd = [p \in Threads |-> None] /\ left = [p \in Threads |-> {}]

Goto(p, l) == pc' = [pc EXCEPT ![p] = l]

(* The threads that have session s locked (BTSession::Lock).                 *)
Holders(s) == {p \in Threads : s \in {sid[p], upd[p]}}

(* lpTable->Release: the last reference frees the table.                     *)
Release(r) == IF r.refs = 1 THEN [r EXCEPT !.refs = 0, !.freed = TRUE, !.rows = {}]
                            ELSE [r EXCEPT !.refs = @ - 1]

-----------------------------------------------------------------------------
(* Sessions. *)

(* A request starts on a session, which stays locked until it ends.          *)
Begin(p, s) ==
  /\ pc[p] = "idle" /\ state[s] = "live"
  /\ sid' = [sid EXCEPT ![p] = s] /\ Goto(p, "request")
  /\ UNCHANGED <<dbVars, state, tableVars, listMutex, tbl, seen, updateVars>>

(* The session is logged off or cleaned up: it leaves the session map.       *)
RemoveSession(s) ==
  /\ state[s] = "live" /\ state' = [state EXCEPT ![s] = "removed"]
  /\ UNCHANGED <<dbVars, tableVars, listMutex, pc, sid, tbl, seen, updateVars>>

(* CloseTable, up to the release of hListMutex: the set ts of tables of s.   *)
Unlist(s, ts) ==
  subs' = [k \in Views \X Sids |->
             IF k[2] = s THEN subs[k] - Cardinality({t \in ts : tab[t].view = k[1]})
                         ELSE subs[k]]

(* Mutants: all the session's tables are closed, also those the client has   *)
(* closed; the subscriptions are left behind.                                *)
DestroyAll(s) ==
  /\ state[s] = "removed" /\ Holders(s) = {} /\ listMutex[s] = None
  /\ LET ts == {t \in Tables : tab[t].sid = s}
     IN /\ Unlist(s, ts)
        /\ tab' = [t \in Tables |-> IF t \in ts /\ tab[t].listed
                     THEN [Release(tab[t]) EXCEPT !.listed = FALSE]
                     ELSE tab[t]]
  /\ state' = [state EXCEPT ![s] = "freed"]
  /\ UNCHANGED <<dbVars, rowMutex, listMutex, pc, sid, tbl, seen, updateVars>>

DestroySubscribed(s) ==
  /\ state[s] = "removed" /\ Holders(s) = {} /\ listMutex[s] = None
  /\ tab' = [t \in Tables |-> IF tab[t].sid = s /\ tab[t].listed
                 THEN [Release(tab[t]) EXCEPT !.listed = FALSE] ELSE tab[t]]
  /\ state' = [state EXCEPT ![s] = "freed"]
  /\ UNCHANGED <<dbVars, subs, rowMutex, listMutex, pc, sid, tbl, seen, updateVars>>

(* When nobody uses it any more it is deleted, and closes what the client    *)
(* has not closed (~ECTableManager).                                         *)
DestroySession(s) ==
  /\ state[s] = "removed" /\ Holders(s) = {} /\ listMutex[s] = None
  /\ LET ts == {t \in Tables : tab[t].sid = s /\ tab[t].listed}
     IN /\ Unlist(s, ts)
        /\ tab' = [t \in Tables |-> IF t \in ts
                     THEN [Release(tab[t]) EXCEPT !.listed = FALSE]
                     ELSE tab[t]]
  /\ state' = [state EXCEPT ![s] = "freed"]
  /\ UNCHANGED <<dbVars, rowMutex, listMutex, pc, sid, tbl, seen, updateVars>>

-----------------------------------------------------------------------------
(* Tables of the client's own session. *)

(* OpenGenericTable: the table enters the list and the subscriptions before  *)
(* it has any rows.                                                          *)
OpenTable(p, t, v) ==
  /\ pc[p] = "request" /\ tab[t] = Closed /\ listMutex[sid[p]] = None
  /\ tab' = [tab EXCEPT ![t] = [Closed EXCEPT !.sid = sid[p], !.view = v,
                                              !.listed = TRUE, !.refs = 1]]
  /\ subs' = [subs EXCEPT ![<<v, sid[p]>>] = @ + 1]
  /\ Goto(p, "opened")
  /\ UNCHANGED <<dbVars, state, rowMutex, listMutex, sid, tbl, seen, updateVars>>

(* Mutant: the table is used without AddRef.                                 *)
GetTableUncounted(p, t) ==
  /\ pc[p] = "request" /\ tab[t].sid = sid[p] /\ tab[t].listed
  /\ listMutex[sid[p]] = None
  /\ tbl' = [tbl EXCEPT ![p] = t] /\ Goto(p, "got")
  /\ UNCHANGED <<dbVars, state, tab, subs, rowMutex, listMutex, sid, seen, updateVars>>

(* GetTable *)
GetTable(p, t) ==
  /\ pc[p] = "request" /\ tab[t].sid = sid[p] /\ tab[t].listed
  /\ listMutex[sid[p]] = None
  /\ tab' = [tab EXCEPT ![t].refs = @ + 1] /\ tbl' = [tbl EXCEPT ![p] = t]
  /\ Goto(p, "got")
  /\ UNCHANGED <<dbVars, state, subs, rowMutex, listMutex, sid, seen, updateVars>>

(* Mutant: the SELECT is done without m_hLock.                               *)
SelectUnlocked(p, t) ==
  /\ rowMutex' = rowMutex
  /\ seen' = [seen EXCEPT ![p] = InView(tab[t].view)]

(* Load, first half: SELECT what is in the view.                             *)
Select(p, t) ==
  /\ rowMutex' = [rowMutex EXCEPT ![t] = p]
  /\ seen' = [seen EXCEPT ![p] = InView(tab[t].view)]

(* ... and second half: the rows are replaced by what was selected.          *)
LoadRows(p, t) ==
  /\ tab' = [tab EXCEPT ![t].rows = seen[p], ![t].populated = TRUE]
  /\ rowMutex' = [rowMutex EXCEPT ![t] = None]
  /\ seen' = [seen EXCEPT ![p] = {}]

(* An operation on the table's rows takes m_hLock; the first one starts to   *)
(* Populate the table, with the lock held throughout.                        *)
Populate(p) ==
  /\ pc[p] = "got" /\ rowMutex[tbl[p]] = None
  /\ \/ /\ ~tab[tbl[p]].populated /\ Select(p, tbl[p]) /\ Goto(p, "fill")
     \/ /\ tab[tbl[p]].populated /\ Goto(p, "read")
        /\ UNCHANGED <<rowMutex, seen>>
  /\ UNCHANGED <<dbVars, state, tab, subs, listMutex, sid, tbl, updateVars>>

PopulateRows(p) ==
  /\ pc[p] = "fill" /\ LoadRows(p, tbl[p]) /\ Goto(p, "read")
  /\ UNCHANGED <<dbVars, state, subs, listMutex, sid, tbl, updateVars>>

(* CloseTable, first half: under hListMutex the subscription and the entry   *)
(* go ...                                                                    *)
CloseTable(p, t) ==
  /\ pc[p] = "request" /\ tab[t].sid = sid[p] /\ tab[t].listed
  /\ listMutex[sid[p]] = None
  /\ Unlist(sid[p], {t}) /\ tab' = [tab EXCEPT ![t].listed = FALSE]
  /\ tbl' = [tbl EXCEPT ![p] = t] /\ Goto(p, "closed")
  /\ UNCHANGED <<dbVars, state, rowMutex, listMutex, sid, seen, updateVars>>

(* ... and then, or when the operation is over, a reference is given back.   *)
ReleaseTable(p) ==
  /\ pc[p] \in {"read", "closed"}
  /\ tab' = [tab EXCEPT ![tbl[p]] = Release(@)]
  /\ tbl' = [tbl EXCEPT ![p] = None] /\ Goto(p, "opened")
  /\ UNCHANGED <<dbVars, state, subs, rowMutex, listMutex, sid, seen, updateVars>>

(* The request is over and the session is unlocked.                          *)
EndRequest(p) ==
  /\ pc[p] = "opened" /\ Goto(p, "idle") /\ sid' = [sid EXCEPT ![p] = None]
  /\ UNCHANGED <<dbVars, state, tableVars, listMutex, tbl, seen, updateVars>>

-----------------------------------------------------------------------------
(* Changes of messages. *)

Up(ty, v, m) == [type |-> ty, view |-> v, msg |-> m]

(* Another request has changed m, and has not announced it.                  *)
Pending(p, m) ==
  \E q \in Threads \ {p} : \E i \in 1..Len(todo[q]) : todo[q][i].msg = m

(* The transaction of p that changes m is committed.                         *)
Commit(p, m, v, updates) ==
  /\ pc[p] = "request" /\ changes < MaxChanges /\ changes' = changes + 1
  /\ place' = [place EXCEPT ![m] = v]
  /\ contended' = IF Pending(p, m) THEN contended \cup {m} ELSE contended
  /\ todo' = [todo EXCEPT ![p] = updates] /\ Goto(p, "announce")
  /\ UNCHANGED <<state, tableVars, listMutex, sid, tbl, seen, targets, upd, left>>

(* saveObject, with CreateNotifications: a new message, or a changed one.    *)
Save(p, m, v) ==
  \/ place[m] = "unborn" /\ Commit(p, m, v, <<Up("add", v, m)>>)
  \/ place[m] = v /\ Commit(p, m, v, <<Up("modify", v, m)>>)

(* MoveObjects, and a soft delete; from EC_TABLE_CHANGE_THRESHOLD messages   *)
(* on the tables are told to reload.                                         *)
Move(p, m, v) ==
  /\ place[m] \in Views \ {v}
  /\ \/ Commit(p, m, v, <<Up("delete", place[m], m), Up("add", v, m)>>)
     \/ Commit(p, m, v, <<Up("change", place[m], m), Up("change", v, m)>>)

(* DeleteObjectHard, with DeleteObjectNotifications. *)
Delete(p, m) ==
  /\ place[m] \in Views
  /\ \E ty \in {"delete", "change"} : Commit(p, m, "gone", <<Up(ty, place[m], m)>>)

-----------------------------------------------------------------------------
(* ECSessionManager::UpdateSubscribedTables. *)

(* The sessions that are interested are collected.                           *)
FindSubscribers(p) ==
  /\ pc[p] = "announce" /\ todo[p] # <<>>
  /\ targets' = [targets EXCEPT ![p] =
                   {s \in Sids : subs[<<Head(todo[p]).view, s>>] > 0}]
  /\ Goto(p, "target")
  /\ UNCHANGED <<dbVars, state, tableVars, listMutex, sid, tbl, seen, todo, upd, left>>

(* One is looked up, and locked if it is still there.                        *)
LockTarget(p, s) ==
  /\ pc[p] = "target" /\ s \in targets[p]
  /\ targets' = [targets EXCEPT ![p] = @ \ {s}]
  /\ IF state[s] = "live" THEN upd' = [upd EXCEPT ![p] = s] /\ Goto(p, "lock")
                          ELSE UNCHANGED <<upd, pc>>
  /\ UNCHANGED <<dbVars, state, tableVars, listMutex, sid, tbl, seen, todo, left>>

(* ECTableManager::UpdateTables: the list is locked for the whole of it.     *)
LockList(p) ==
  /\ pc[p] = "lock" /\ listMutex[upd[p]] = None
  /\ listMutex' = [listMutex EXCEPT ![upd[p]] = p]
  /\ left' = [left EXCEPT ![p] = {t \in Tables : /\ tab[t].sid = upd[p] /\ tab[t].listed
                                                 /\ tab[t].view = Head(todo[p]).view}]
  /\ Goto(p, "update")
  /\ UNCHANGED <<dbVars, state, tableVars, sid, tbl, seen, todo, targets, upd>>

(* UpdateRows with a row: a row is added or replaced, or removed.  Whether   *)
(* the message still exists is not looked at.                                *)
UpdateRows(p, t) ==
  /\ pc[p] = "update" /\ t \in left[p] /\ rowMutex[t] = None
  /\ Head(todo[p]).type # "change"
  /\ tab' = [tab EXCEPT ![t].rows =
               IF Head(todo[p]).type = "delete" THEN @ \ {Head(todo[p]).msg}
                                                ELSE @ \cup {Head(todo[p]).msg}]
  /\ left' = [left EXCEPT ![p] = @ \ {t}]
  /\ UNCHANGED <<dbVars, state, subs, rowMutex, listMutex, pc, sid, tbl, seen, todo,
                 targets, upd>>

(* UpdateRows with TABLE_CHANGE: the table is cleared and loaded again.  It  *)
(* counts as populated if it was.                                            *)
Reload(p, t) ==
  /\ pc[p] = "update" /\ t \in left[p] /\ rowMutex[t] = None
  /\ Head(todo[p]).type = "change"
  /\ Select(p, t) /\ left' = [left EXCEPT ![p] = @ \ {t}]
  /\ tbl' = [tbl EXCEPT ![p] = t] /\ Goto(p, "refill")
  /\ UNCHANGED <<dbVars, state, tab, subs, listMutex, sid, todo, targets, upd>>

ReloadRows(p) ==
  /\ pc[p] = "refill"
  /\ tab' = [tab EXCEPT ![tbl[p]].rows = seen[p]]
  /\ rowMutex' = [rowMutex EXCEPT ![tbl[p]] = None]
  /\ seen' = [seen EXCEPT ![p] = {}] /\ tbl' = [tbl EXCEPT ![p] = None]
  /\ Goto(p, "update")
  /\ UNCHANGED <<dbVars, state, subs, listMutex, sid, updateVars>>

(* The list and the session are unlocked. *)
UnlockTarget(p) ==
  /\ pc[p] = "update" /\ left[p] = {}
  /\ listMutex' = [listMutex EXCEPT ![upd[p]] = None]
  /\ upd' = [upd EXCEPT ![p] = None] /\ Goto(p, "target")
  /\ UNCHANGED <<dbVars, state, tableVars, sid, tbl, seen, todo, targets, left>>

(* Mutant: only the first update is sent.                                    *)
NoNextUpdate(p) ==
  /\ pc[p] = "target" /\ targets[p] = {}
  /\ todo' = [todo EXCEPT ![p] = <<>>] /\ Goto(p, "opened")
  /\ UNCHANGED <<dbVars, state, tableVars, listMutex, sid, tbl, seen, targets, upd, left>>

(* Every session has been told; the next update, if there is one.            *)
NextUpdate(p) ==
  /\ pc[p] = "target" /\ targets[p] = {}
  /\ todo' = [todo EXCEPT ![p] = Tail(@)]
  /\ Goto(p, IF Len(todo[p]) = 1 THEN "opened" ELSE "announce")
  /\ UNCHANGED <<dbVars, state, tableVars, listMutex, sid, tbl, seen, targets, upd, left>>

-----------------------------------------------------------------------------
Announce(p) ==
  \/ FindSubscribers(p) \/ LockList(p) \/ ReloadRows(p) \/ UnlockTarget(p) \/ NextUpdate(p)
  \/ \E s \in Sids : LockTarget(p, s)
  \/ \E t \in Tables : UpdateRows(p, t) \/ Reload(p, t)

UseTable(p) == Populate(p) \/ PopulateRows(p) \/ ReleaseTable(p) \/ EndRequest(p)

Request(p) ==
  \/ \E t \in Tables : GetTable(p, t) \/ CloseTable(p, t)
  \/ \E t \in Tables, v \in Views : OpenTable(p, t, v)
  \/ \E m \in Msgs : Delete(p, m)
  \/ \E m \in Msgs, v \in Views : Save(p, m, v) \/ Move(p, m, v)

Next ==
  \/ \E s \in Sids : RemoveSession(s) \/ DestroySession(s)
  \/ \E p \in Threads, s \in Sids : Begin(p, s)
  \/ \E p \in Threads : Request(p) \/ UseTable(p) \/ Announce(p)

Spec == Init /\ [][Next]_vars

(* A thread that is working on a request goes on.  Clients send requests, and *)
(* sessions end, when they like.                                              *)
Fairness == \A p \in Threads : WF_vars(UseTable(p)) /\ WF_vars(Announce(p))

FairSpec == Spec /\ Fairness

-----------------------------------------------------------------------------
(* Properties. *)

Users(t) == {p \in Threads : pc[p] \in {"got", "fill", "read", "closed"} /\ tbl[p] = t}

(* A table is freed when nobody uses it, and not before: its references are  *)
(* its entry in the list (which CloseTable takes over) and the operations at *)
(* work on it.  What UpdateTables works on is in the list all the time.      *)
TablesInUseExist ==
  /\ \A t \in Tables :
       /\ tab[t].refs = Cardinality(Users(t)) + (IF tab[t].listed THEN 1 ELSE 0)
       /\ tab[t].freed => tab[t].refs = 0
  /\ \A p \in Threads : \A t \in left[p] : tab[t].listed /\ tab[t].sid = upd[p]

(* The session manager knows exactly the tables that are open: no update is  *)
(* sent to sessions for tables they have closed, none is missed, and nothing *)
(* stays behind when a session ends without closing its tables.              *)
SubscriptionsAgree ==
  /\ \A v \in Views, s \in Sids :
       subs[<<v, s>>] = Cardinality({t \in Tables : /\ tab[t].sid = s /\ tab[t].listed
                                                   /\ tab[t].view = v})
  /\ \A t \in Tables : tab[t].sid # None /\ state[tab[t].sid] = "freed" => tab[t].freed

Announced(m) == \A p \in Threads : \A i \in 1..Len(todo[p]) : todo[p][i].msg # m

(* A filled table of a live session has a row for exactly the messages in    *)
(* its view, whatever was opened, filled or closed while the changes were    *)
(* made; except for messages whose changes are still being announced, or     *)
(* that two requests changed at a time, whose announcements may overtake     *)
(* each other.                                                               *)
TablesAreExact ==
  \A t \in Tables, m \in Msgs \ contended :
    tab[t].listed /\ tab[t].populated /\ state[tab[t].sid] = "live" /\ Announced(m)
      => (m \in tab[t].rows <=> place[m] = tab[t].view)

(* A thread that works on a request has the mutex it needs next, or can get  *)
(* it, whichever of the tables it has to update comes first.                 *)
Ready(p) ==
  /\ pc[p] # "idle"
  /\ pc[p] = "request" => listMutex[sid[p]] = None
  /\ pc[p] = "got" => rowMutex[tbl[p]] = None
  /\ pc[p] = "lock" => listMutex[upd[p]] = None
  /\ pc[p] = "update" => \A t \in left[p] : rowMutex[t] = None

(* Nobody waits for ever: an announcement keeps the list of one session      *)
(* locked and waits for tables that others fill or reload, one of which may  *)
(* keep another list, but never do all wait; and who is done keeps nothing.  *)
NobodyHangs ==
  \/ \E p \in Threads : Ready(p)
  \/ /\ \A p \in Threads : pc[p] = "idle"
     /\ \A s \in Sids : listMutex[s] = None
     /\ \A t \in Tables : rowMutex[t] = None

(* A new message appears in every filled table of its view without the       *)
(* client asking again, although other requests hold the table's locks.      *)
NewMessageAppears ==
  \A t \in Tables, m \in Msgs :
    tab[t].populated /\ place[m] = tab[t].view
      ~> \/ m \in tab[t].rows \cup contended \/ place[m] # tab[t].view
         \/ ~tab[t].listed \/ state[tab[t].sid] # "live"
=============================================================================
