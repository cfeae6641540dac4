--------------------------- MODULE Notifications ---------------------------
(***************************************************************************)
(* Delivering notifications: ECNotificationManager and the notification    *)
(* queue of one ECSessionGroup (src/provider/libserver).                   *)
(*                                                                         *)
(* A client asks for notifications with ns__notifyGetItems; the request is *)
(* parked in the notification manager, whose thread answers it once the    *)
(* session's group has something to say, the session has ended, or a       *)
(* minute has passed.  Request threads put notifications in the queue,     *)
(* ask for notifications, or end sessions; at exit the main thread deletes *)
(* the manager.                                                            *)
(*                                                                         *)
(* One action is one critical section, or a step within the critical       *)
(* section on m_mutexRequests that uses another lock.                      *)
(***************************************************************************)
EXTENDS Integers, Sequences, FiniteSets

CONSTANTS
  Sids,      \* sessions of the session group, logged on at the start
  Conns,     \* connections on which clients ask for notifications
  Procs,     \* threads that execute requests
  MaxNotes,  \* bound: number of notifications
  None

ASSUME NotificationsAssumption ==
  /\ None \notin Sids \cup Conns /\ MaxNotes \in Nat
  /\ IsFiniteSet(Sids) /\ IsFiniteSet(Procs)

VARIABLES
  mapSessions, \* ECSessionManager::m_mapSessions
  members,     \* ECSessionGroup::m_mapSessions
  queue,       \* ECSessionGroup::m_listNotification, numbered notifications
  sent,        \* number of notifications put in the queue
  taken,       \* notifications that were put in an answer
  mapRequests, \* m_mapRequests: session -> connection
  aged,        \* requests older than m_ulTimeout (60 s)
  setActive,   \* m_setActiveSessions
  nmExit,      \* m_bExit of the notification manager
  npc,         \* program counter of the notification thread
  batch,       \* setActiveSessions, what is left of Work's copy
  cur,         \* the session Work looks at
  lpItem,      \* the connection Work hands back
  pc, conn, sid, todo, \* per request thread: program counter, connection,
               \* session, and the sessions it has still to mark
  owed,        \* answers the client on a connection waits for
  lost,        \* connections whose client is gone
  main         \* program counter of the main thread

groupVars   == <<mapSessions, members, queue, sent, taken>>
managerVars == <<mapRequests, aged, setActive, nmExit>>
workVars    == <<npc, batch, cur, lpItem>>
procVars    == <<pc, conn, sid, todo>>
clientVars  == <<owed, lost>>
vars == <<groupVars, managerVars, workVars, procVars, clientVars, main>>

WorkPc == {"top", "waiting", "batch", "validate", "items", "answer", "notifyDone",
           "sweep", "exited"}
ProcPc == {"idle", "add", "members", "group", "change", "shutdown"}

(* The type of every variable, from ECNotificationManager.h. *)
TypeOK ==
  /\ mapSessions \subseteq Sids /\ members \subseteq Sids
  /\ queue \in Seq(1..MaxNotes) /\ taken \in Seq(1..MaxNotes)
  /\ sent \in 0..MaxNotes
  /\ mapRequests \in [Sids -> Conns \cup {None}] /\ aged \subseteq Conns
  /\ setActive \subseteq Sids /\ nmExit \in BOOLEAN
  /\ npc \in WorkPc /\ batch \subseteq Sids
  /\ cur \in Sids \cup {None} /\ lpItem \in Conns \cup {None}
  /\ pc \in [Procs -> ProcPc] /\ conn \in [Procs -> Conns \cup {None}]
  /\ sid \in [Procs -> Sids \cup {None}] /\ todo \in [Procs -> SUBSET Sids]
  /\ owed \in [Conns -> 0..1] /\ lost \subseteq Conns
  /\ main \in {"run", "removed", "locked", "join", "done"}

Init ==
  /\ mapSessions = Sids /\ members = Sids
  /\ queue = <<>> /\ sent = 0 /\ taken = <<>>
  /\ mapRequests = [s \in Sids |-> None] /\ aged = {}
  /\ setActive = {} /\ nmExit = FALSE
  /\ npc = "top" /\ batch = {} /\ cur = None /\ lpItem = None
  /\ pc = [p \in Procs |-> "idle"] /\ conn = [p \in Procs |-> None]
  /\ sid = [p \in Procs |-> None] /\ todo = [p \in Procs |-> {}]
  /\ owed = [c \in Conns |-> 0] /\ lost = {}
  /\ main = "run"

-----------------------------------------------------------------------------
(* The connections parked in the manager. *)
Parked == {mapRequests[s] : s \in Sids} \ {None}

(* Work holds m_mutexRequests. *)
RequestsLocked == npc \in {"validate", "items", "answer"}

(* AddNotification holds m_hSessionMapLock while it marks the sessions. *)
SessionMapLocked == \E p \in Procs : pc[p] = "group"

(* The main thread holds m_hCacheRWLock for writing. *)
CacheLocked == main \in {"locked", "join"}

(* The connections in use: those of a request thread, the manager, Work. *)
InUse == Parked \cup {lpItem} \cup {conn[p] : p \in Procs}

Goto(p, label) == pc' = [pc EXCEPT ![p] = label]

(* soapresponse: the client on c is answered, or it is gone. *)
Answer(c) ==
  \/ c \notin lost /\ owed' = [owed EXCEPT ![c] = @ - 1] /\ UNCHANGED lost
  \/ owed' = [owed EXCEPT ![c] = 0] /\ lost' = lost \cup {c}

-----------------------------------------------------------------------------
(* Request threads. *)

(* ns__notifyGetItems: a session that has ended is answered at once.         *)
Ask(p, c, s) ==
  /\ main = "run" /\ pc[p] = "idle" /\ c \notin InUse \cup lost
  /\ s \in mapSessions
  /\ conn' = [conn EXCEPT ![p] = c] /\ sid' = [sid EXCEPT ![p] = s]
  /\ owed' = [owed EXCEPT ![c] = @ + 1] /\ Goto(p, "add")
  /\ UNCHANGED <<groupVars, managerVars, workVars, todo, lost, main>>

(* Mutant: a request already parked is overwritten. *)
AddRequestOverwrites(p) ==
  /\ pc[p] = "add" /\ ~RequestsLocked
  /\ mapRequests' = [mapRequests EXCEPT ![sid[p]] = conn[p]]
  /\ conn' = [conn EXCEPT ![p] = None]
  /\ todo' = [todo EXCEPT ![p] = {sid[p]}] /\ Goto(p, "change")
  /\ UNCHANGED <<groupVars, aged, setActive, nmExit, workVars, sid, clientVars,
                 main>>

(* AddRequest: a request already parked for the session is answered with     *)
(* NOT_FOUND and handed back; then the session is marked.                    *)
AddRequest(p) ==
  LET s == sid[p]  old == mapRequests[s] IN
  /\ pc[p] = "add" /\ ~RequestsLocked
  /\ \/ old # None /\ Answer(old)
     \/ old = None /\ UNCHANGED clientVars
  /\ mapRequests' = [mapRequests EXCEPT ![s] = conn[p]]
  /\ aged' = aged \ {old}
  /\ conn' = [conn EXCEPT ![p] = None]
  /\ todo' = [todo EXCEPT ![p] = {s}] /\ Goto(p, "change")
  /\ UNCHANGED <<groupVars, setActive, nmExit, workVars, sid, main>>

(* ECSessionGroup::AddNotification: the queue, under m_hNotificationLock ... *)
AddNotification(p) ==
  /\ main = "run" /\ pc[p] = "idle" /\ sent < MaxNotes /\ members # {}
  /\ sent' = sent + 1 /\ queue' = Append(queue, sent + 1)
  /\ Goto(p, "members")
  /\ UNCHANGED <<mapSessions, members, taken, managerVars, workVars, conn, sid,
                 todo, clientVars, main>>

(* Mutant: one session of the group is told, not all. *)
MarkOne(p) ==
  /\ pc[p] = "members" /\ ~SessionMapLocked
  /\ \E s \in members : todo' = [todo EXCEPT ![p] = {s}]
  /\ Goto(p, "group")
  /\ UNCHANGED <<groupVars, managerVars, workVars, conn, sid, clientVars, main>>

(* ... then every session of the group, under m_hSessionMapLock. *)
MarkGroup(p) ==
  /\ pc[p] = "members" /\ ~SessionMapLocked
  /\ todo' = [todo EXCEPT ![p] = members] /\ Goto(p, "group")
  /\ UNCHANGED <<groupVars, managerVars, workVars, conn, sid, clientVars, main>>

(* NotifyChange, for each session the thread has to mark *)
NotifyChange(p) ==
  /\ pc[p] \in {"group", "change"}
  /\ \/ \E s \in todo[p] :
          /\ setActive' = setActive \cup {s}
          /\ todo' = [todo EXCEPT ![p] = @ \ {s}] /\ UNCHANGED <<pc, sid>>
     \/ todo[p] = {} /\ Goto(p, "idle") /\ sid' = [sid EXCEPT ![p] = None]
        /\ UNCHANGED <<setActive, todo>>
  /\ UNCHANGED <<groupVars, mapRequests, aged, nmExit, workVars, conn, clientVars,
                 main>>

(* RemoveSession: out of the map, so that nobody can lock it any more ... *)
RemoveSession(p, s) ==
  /\ main = "run" /\ pc[p] = "idle" /\ s \in mapSessions
  /\ mapSessions' = mapSessions \ {s}
  /\ sid' = [sid EXCEPT ![p] = s] /\ Goto(p, "shutdown")
  /\ UNCHANGED <<members, queue, sent, taken, managerVars, workVars, conn, todo,
                 clientVars, main>>

(* The session leaves the group, which the last one deletes with its queue.  *)
LeaveGroup(S) ==
  /\ members' = members \ S
  /\ queue' = IF S = {} \/ members \ S # {} THEN queue ELSE <<>>

(* Mutant: nobody is told that the session has ended. *)
DeleteUnmarked(p) ==
  /\ pc[p] = "shutdown" /\ ~(npc = "items" /\ cur = sid[p]) /\ ~SessionMapLocked
  /\ LeaveGroup({sid[p]}) /\ Goto(p, "idle") /\ sid' = [sid EXCEPT ![p] = None]
  /\ UNCHANGED <<mapSessions, sent, taken, managerVars, workVars, conn, todo,
                 clientVars, main>>

(* ... and deleted when nobody has it locked; then it is marked. *)
DeleteSession(p) ==
  LET s == sid[p] IN
  /\ pc[p] = "shutdown" /\ ~(npc = "items" /\ cur = s) /\ ~SessionMapLocked
  /\ LeaveGroup({s})
  /\ todo' = [todo EXCEPT ![p] = {s}] /\ Goto(p, "change")
  /\ UNCHANGED <<mapSessions, sent, taken, managerVars, workVars, conn, sid,
                 clientVars, main>>

(* The session cleaner marks nothing, but the timeout is at least 300 s: a   *)
(* session it removes has no request that is parked or on its way.           *)
ExpireSession(s) ==
  /\ main = "run" /\ s \in mapSessions /\ mapRequests[s] = None
  /\ \A p \in Procs : pc[p] = "idle" \/ sid[p] # s
  /\ ~SessionMapLocked
  /\ mapSessions' = mapSessions \ {s} /\ LeaveGroup({s})
  /\ UNCHANGED <<sent, taken, managerVars, workVars, procVars, clientVars, main>>

-----------------------------------------------------------------------------
(* The notification thread: ECNotificationManager::Work. *)

(* The copy of m_setActiveSessions *)
CopyActive == batch' = setActive /\ setActive' = {} /\ npc' = "batch"

(* Leave when asked to; wait for a second at most when no session is marked. *)
WorkTop ==
  /\ npc = "top"
  /\ \/ nmExit /\ npc' = "exited" /\ UNCHANGED <<setActive, batch>>
     \/ ~nmExit /\ setActive # {} /\ CopyActive
     \/ ~nmExit /\ setActive = {} /\ npc' = "waiting" /\ UNCHANGED <<setActive, batch>>
  /\ UNCHANGED <<groupVars, mapRequests, aged, nmExit, cur, lpItem, procVars,
                 clientVars, main>>

WaitOver ==
  /\ npc = "waiting" /\ CopyActive
  /\ UNCHANGED <<groupVars, mapRequests, aged, nmExit, cur, lpItem, procVars,
                 clientVars, main>>

(* The next marked session; nobody may be listening to it. *)
NextSession ==
  /\ npc = "batch"
  /\ \/ \E s \in batch :
          /\ batch' = batch \ {s}
          /\ \/ mapRequests[s] = None /\ UNCHANGED <<npc, cur>>
             \/ mapRequests[s] # None /\ npc' = "validate" /\ cur' = s
     \/ batch = {} /\ npc' = "sweep" /\ UNCHANGED <<batch, cur>>
  /\ UNCHANGED <<groupVars, managerVars, lpItem, procVars, clientVars, main>>

(* ValidateSession read-locks m_hCacheRWLock. *)
ValidateSession ==
  /\ npc = "validate" /\ ~CacheLocked
  /\ npc' = IF cur \in mapSessions THEN "items" ELSE "answer"
  /\ UNCHANGED <<groupVars, managerVars, batch, cur, lpItem, procVars, clientVars,
                 main>>

(* Mutant: the queue is copied and not emptied. *)
CopyNotifyItems ==
  /\ npc = "items" /\ ~SessionMapLocked
  /\ queue # <<>> /\ taken' = taken \o queue /\ npc' = "answer"
  /\ UNCHANGED <<mapSessions, members, sent, queue, managerVars, batch, cur,
                 lpItem, procVars, clientVars, main>>

(* GetNotifyItems empties the queue into the answer; with nothing to answer  *)
(* a young request goes on waiting, an aged one is answered without items.   *)
GetNotifyItems ==
  /\ npc = "items" /\ ~SessionMapLocked
  /\ taken' = taken \o queue /\ queue' = <<>>
  /\ \/ (queue # <<>> \/ mapRequests[cur] \in aged) /\ npc' = "answer" /\ UNCHANGED cur
     \/ queue = <<>> /\ mapRequests[cur] \notin aged /\ npc' = "batch" /\ cur' = None
  /\ UNCHANGED <<mapSessions, members, sent, managerVars, batch, lpItem, procVars,
                 clientVars, main>>

(* Mutant: an answered request stays parked. *)
AnswerKeepsRequest ==
  /\ npc = "answer" /\ Answer(mapRequests[cur])
  /\ lpItem' = mapRequests[cur] /\ cur' = None /\ npc' = "notifyDone"
  /\ UNCHANGED <<groupVars, managerVars, batch, procVars, main>>

(* The answer is sent, and the request is no longer parked ... *)
SendAnswer ==
  LET c == mapRequests[cur] IN
  /\ npc = "answer" /\ Answer(c)
  /\ mapRequests' = [mapRequests EXCEPT ![cur] = None] /\ aged' = aged \ {c}
  /\ lpItem' = c /\ cur' = None /\ npc' = "notifyDone"
  /\ UNCHANGED <<groupVars, setActive, nmExit, batch, procVars, main>>

(* ... and zarafa_notify_done gives the connection back to the dispatcher. *)
HandBack ==
  /\ npc = "notifyDone" /\ lpItem' = None /\ npc' = "batch"
  /\ UNCHANGED <<groupVars, managerVars, batch, cur, procVars, clientVars, main>>

(* Mutant: the minute is not enforced. *)
SweepNothing ==
  /\ npc = "sweep" /\ npc' = "top"
  /\ UNCHANGED <<groupVars, managerVars, batch, cur, lpItem, procVars, clientVars,
                 main>>

(* Requests older than a minute are marked. *)
Sweep ==
  /\ npc = "sweep" /\ npc' = "top"
  /\ setActive' = setActive \cup {s \in Sids : mapRequests[s] \in aged}
  /\ UNCHANGED <<groupVars, mapRequests, aged, nmExit, batch, cur, lpItem,
                 procVars, clientVars, main>>

(* Time passes: the request on c is a minute old. *)
Age(c) ==
  /\ c \in Parked \ aged /\ aged' = aged \cup {c}
  /\ UNCHANGED <<groupVars, mapRequests, setActive, nmExit, workVars, procVars,
                 clientVars, main>>

-----------------------------------------------------------------------------
(* The main thread at exit, when the request threads have been joined. *)

(* ECSessionManager::RemoveAllSessions *)
RemoveAllSessions ==
  /\ main = "run" /\ \A p \in Procs : pc[p] = "idle"
  /\ npc # "items"
  /\ main' = "removed" /\ mapSessions' = {} /\ LeaveGroup(members)
  /\ UNCHANGED <<sent, taken, managerVars, workVars, procVars, clientVars>>

(* ~ECSessionManager write-locks m_hCacheRWLock ... *)
LockCache ==
  /\ main = "removed" /\ main' = "locked"
  /\ UNCHANGED <<groupVars, managerVars, workVars, procVars, clientVars>>

(* ... and deletes the notification manager, which tells its thread ... *)
SignalExit ==
  /\ main = "locked" /\ main' = "join" /\ nmExit' = TRUE
  /\ UNCHANGED <<groupVars, mapRequests, aged, setActive, workVars, procVars,
                 clientVars>>

(* ... waits for it, and closes what is still parked. *)
JoinThread ==
  /\ main = "join" /\ npc = "exited" /\ main' = "done"
  /\ owed' = [c \in Conns |-> IF c \in Parked THEN 0 ELSE owed[c]]
  /\ lost' = lost \cup Parked
  /\ mapRequests' = [s \in Sids |-> None] /\ aged' = {}
  /\ UNCHANGED <<groupVars, setActive, nmExit, workVars, procVars>>

Work ==
  \/ WorkTop \/ WaitOver \/ NextSession \/ ValidateSession \/ GetNotifyItems
  \/ SendAnswer \/ HandBack \/ Sweep

Exit == LockCache \/ SignalExit \/ JoinThread

(* The server has exited, or hangs: Work wants the lock that Exit holds. *)
Terminated ==
  /\ main = "done" \/ (main = "join" /\ npc = "validate")
  /\ UNCHANGED vars

ProcStep(p) ==
  AddRequest(p) \/ MarkGroup(p) \/ NotifyChange(p) \/ DeleteSession(p)

Next ==
  \/ \E p \in Procs, c \in Conns, s \in Sids : Ask(p, c, s)
  \/ \E p \in Procs, s \in Sids : RemoveSession(p, s)
  \/ \E p \in Procs : AddNotification(p) \/ ProcStep(p)
  \/ \E s \in Sids : ExpireSession(s)
  \/ \E c \in Conns : Age(c)
  \/ Work \/ RemoveAllSessions \/ Exit
  \/ Terminated

Spec == Init /\ [][Next]_vars

(* Threads that are not blocked go on.  That time passes (Age), that clients *)
(* ask, and that the server is stopped is not assumed.                       *)
Fairness ==
  /\ WF_vars(Work) /\ WF_vars(Exit)
  /\ \A p \in Procs : WF_vars(ProcStep(p))

FairSpec == Spec /\ Fairness

-----------------------------------------------------------------------------
(* Properties. *)

(* Work or a request thread is about to look at session s. *)
Marked(s) ==
  \/ s \in setActive \cup batch
  \/ npc \in {"validate", "items"} /\ cur = s
  \/ npc = "answer" /\ cur = s
  \/ \E p \in Procs : s \in todo[p] \/ pc[p] = "members"

(* A thread is removing session s and will mark it. *)
Ending(s) == \E p \in Procs : pc[p] = "shutdown" /\ sid[p] = s

(* No notification is overlooked: while there is one, each parked request of *)
(* the group is marked, without the help of the one-minute timeout.          *)
NothingOverlooked ==
  \A s \in mapSessions : mapRequests[s] # None /\ queue # <<>> => Marked(s)

(* No request waits for a session that has ended without being marked.       *)
NoneWaitsForEnded ==
  \A s \in Sids \ mapSessions :
    mapRequests[s] # None => Marked(s) \/ Ending(s) \/ main # "run"

(* Every notification goes into one answer, in the order of sending, or is   *)
(* still queued; those of a group that was deleted go nowhere.               *)
InOrder ==
  IF members # {} THEN taken \o queue = [i \in 1..sent |-> i]
  ELSE queue = <<>> /\ \A i \in 1..Len(taken) : taken[i] = i

(* A client that has asked gets one answer; until then its connection is in  *)
(* one place, and no answer is sent that nobody asked for.                   *)
OneAnswer ==
  \A c \in Conns :
    /\ owed[c] = (IF c \in Parked \cup {conn[p] : p \in Procs} THEN 1 ELSE 0)
    /\ \A s, u \in Sids : mapRequests[s] = c /\ mapRequests[u] = c => s = u
    /\ c \in Parked => c # lpItem /\ \A p \in Procs : conn[p] # c

(* The notification thread, or a request thread that has something to do,    *)
(* can go on: nobody has what it needs next.                                 *)
WorkReady ==
  \/ npc \in {"top", "waiting", "batch", "answer", "notifyDone", "sweep"}
  \/ npc = "validate" /\ ~CacheLocked
  \/ npc = "items" /\ ~SessionMapLocked

ProcReady(p) ==
  \/ pc[p] \in {"group", "change"}
  \/ pc[p] = "add" /\ ~RequestsLocked
  \/ pc[p] = "members" /\ ~SessionMapLocked
  \/ pc[p] = "shutdown" /\ ~(npc = "items" /\ cur = sid[p]) /\ ~SessionMapLocked

(* Whoever waits for a lock, or for a session that is locked, waits for a    *)
(* thread that can go on.  The one exception is the exit, when the main      *)
(* thread waits for Work with the lock that ValidateSession needs.           *)
OnlyTheExitHangs ==
  /\ \A p \in Procs : pc[p] # "idle" =>
       \/ ProcReady(p) \/ (RequestsLocked /\ WorkReady)
       \/ \E q \in Procs : pc[q] = "group" /\ ProcReady(q)
  /\ npc # "exited" =>
       \/ WorkReady \/ (npc = "validate" /\ CacheLocked)
       \/ \E q \in Procs : pc[q] = "group" /\ ProcReady(q)
  /\ main = "join" /\ npc # "exited" => WorkReady \/ npc = "validate"

(* The session that the client on c waits for, in the one place that has its *)
(* request; "astray" (forgotten, or answered twice) is no session.           *)
Waits(c, s) == mapRequests[s] = c \/ \E p \in Procs : conn[p] = c /\ sid[p] = s
Asked == [c \in Conns |->
  IF owed[c] = 0 THEN None
  ELSE IF owed[c] = 1 /\ \E s \in Sids : Waits(c, s) THEN CHOOSE s \in Sids : Waits(c, s)
  ELSE "astray"]

Delivery == INSTANCE NotificationDelivery
  WITH live <- mapSessions, asked <- Asked, pending <- queue, delivered <- taken,
       preparing <- IF npc = "answer" THEN mapRequests[cur] ELSE None, gone <- lost

(* The manager, its thread and the group implement NotificationDelivery:     *)
(* what was taken from the queue for a request is sent on that connection,   *)
(* although other requests, ends of sessions and the exit come in between.   *)
ImplementsDelivery == Delivery!Spec

(* There is something to tell the client that waits for session s: a         *)
(* notification, that its minute is over, or that the session has ended.     *)
Due(s) ==
  /\ mapRequests[s] # None
  /\ \/ queue # <<>> \/ mapRequests[s] \in aged
     \/ s \notin mapSessions /\ main = "run"

(* A client that waits is answered when there is something to tell it,       *)
(* unless that goes to another session of the group, or the session manager  *)
(* is being deleted.                                                         *)
RequestIsAnswered == \A s \in Sids : Due(s) ~> ~Due(s) \/ CacheLocked
=============================================================================
