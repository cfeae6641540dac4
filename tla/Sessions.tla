------------------------------ MODULE Sessions ------------------------------
(***************************************************************************)
(* The life of sessions and session groups in zarafa-server:               *)
(* ECSessionManager, BTSession, ECSession and ECSessionGroup               *)
(* (src/provider/libserver).                                               *)
(*                                                                         *)
(* Request threads log on, validate and unlock sessions and log off; the   *)
(* SessionCleaner thread removes sessions that timed out; the main thread  *)
(* removes what is left when the server exits.  A session is an object     *)
(* with a reference count: it leaves the session map first, then whoever   *)
(* removed it waits for the count to reach zero, deletes it, and deletes   *)
(* its group if the group has become empty.                                *)
(*                                                                         *)
(* One action is one critical section on m_hCacheRWLock, m_hGroupLock or   *)
(* a session's m_hThreadReleasedMutex.                                     *)
(***************************************************************************)
EXTENDS Integers, FiniteSets

CONSTANTS
  Sids,      \* session ids; each names one ECSession object
  Loners,    \* sessions that may log on with group id 0, as old clients do
  GroupIds,  \* the other session group ids
  Procs,     \* threads that execute requests
  Cleaner,   \* the SessionCleaner thread
  Main,      \* the main thread
  None

Actors == Procs \cup {Cleaner, Main}

ASSUME SessionsAssumption ==
  /\ Cleaner # Main /\ {Cleaner, Main} \cap Procs = {}
  /\ Loners \subseteq Sids /\ None \notin Sids \cup GroupIds
  /\ IsFiniteSet(Procs)

VARIABLES
  mapSessions,      \* m_mapSessions
  state,            \* the session object: allocated, freed, given up
  refCount,         \* m_ulRefCount
  stale,            \* the session time lies further back than the timeout
  mapSessionGroups, \* m_mapSessionGroups: group id -> group object
  groupState,       \* a group object, named by the session that created it
  groupSessions,    \* ECSessionGroup::m_mapSessions
  groupId,          \* m_sessionGroupId that the session logs on with
  sessionGroup,     \* ECSession::m_lpSessionGroup
  pc, cur,          \* program counter of a thread; the session it works on
  todo,             \* sessions a thread has taken out of the map to delete
  bExit,            \* bExit
  readFreed         \* DeleteIfOrphaned was given a group already deleted

objVars   == <<state, refCount, stale>>
groupVars == <<mapSessionGroups, groupState, groupSessions, groupId, sessionGroup>>
vars == <<mapSessions, objVars, groupVars, pc, cur, todo, bExit, readFreed>>

ActorPc == {"idle", "getgroup", "upgrade", "register", "busy", "unlocked",
            "finishing", "remove", "next", "shutdown", "dtor", "release",
            "groupid", "orphan", "scan", "sleep", "waiting", "run", "join",
            "joining", "done"}

(* The type of every variable, from the declarations in ECSession.h,         *)
(* ECSessionGroup.h and ECSessionManager.h.                                  *)
TypeOK ==
  /\ mapSessions \subseteq Sids
  /\ state \in [Sids -> {"none", "live", "freed", "leaked"}]
  /\ refCount \in [Sids -> Nat]
  /\ stale \in [Sids -> BOOLEAN]
  /\ mapSessionGroups \in [GroupIds -> Sids \cup {None}]
  /\ groupState \in [Sids -> {"none", "live", "freed"}]
  /\ groupSessions \in [Sids -> SUBSET Sids]
  /\ groupId \in [Sids -> GroupIds \cup {None}]
  /\ sessionGroup \in [Sids -> Sids \cup {None}]
  /\ pc \in [Actors -> ActorPc] /\ cur \in [Actors -> Sids \cup {None}]
  /\ todo \in [Actors -> SUBSET Sids]
  /\ bExit \in BOOLEAN /\ readFreed \in BOOLEAN

Init ==
  /\ mapSessions = {}
  /\ state = [s \in Sids |-> "none"] /\ refCount = [s \in Sids |-> 0]
  /\ stale = [s \in Sids |-> FALSE]
  /\ mapSessionGroups = [i \in GroupIds |-> None]
  /\ groupState = [s \in Sids |-> "none"]
  /\ groupSessions = [s \in Sids |-> {}]
  /\ groupId = [s \in Sids |-> None] /\ sessionGroup = [s \in Sids |-> None]
  /\ pc = [p \in Actors |-> CASE p = Cleaner -> "scan" [] p = Main -> "run"
                              [] OTHER -> "idle"]
  /\ cur = [p \in Actors |-> None] /\ todo = [p \in Actors |-> {}]
  /\ bExit = FALSE /\ readFreed = FALSE

-----------------------------------------------------------------------------
Goto(p, label) == pc' = [pc EXCEPT ![p] = label]

(* BTSession::Lock and BTSession::Unlock *)
Lock(s) == refCount' = [refCount EXCEPT ![s] = @ + 1]
Unlock(s) == refCount' = [refCount EXCEPT ![s] = @ - 1]

(* Mutant: GetSession(id, false) where the session must be locked. *)
GetSessionUnlocked(s) ==
  /\ s \in mapSessions /\ stale' = [stale EXCEPT ![s] = FALSE]
  /\ UNCHANGED refCount

(* ECSessionManager::GetSession refreshes the session time and locks. *)
GetSessionLocked(s) ==
  /\ s \in mapSessions /\ Lock(s)
  /\ stale' = [stale EXCEPT ![s] = FALSE]

-----------------------------------------------------------------------------
(* Logging on: ECSession::ECSession, GetSessionGroup, RegisterSession. *)

(* A new ECSession; its group id is the client's choice. *)
Logon(p, s) ==
  /\ pc[Main] = "run" /\ pc[p] = "idle" /\ state[s] = "none"
  /\ state' = [state EXCEPT ![s] = "live"]
  /\ \E i \in GroupIds \cup (IF s \in Loners THEN {None} ELSE {}) :
       groupId' = [groupId EXCEPT ![s] = i]
  /\ cur' = [cur EXCEPT ![p] = s] /\ Goto(p, "getgroup")
  /\ UNCHANGED <<mapSessions, refCount, stale, mapSessionGroups, groupState,
                 groupSessions, sessionGroup, todo, bExit, readFreed>>

(* new ECSessionGroup followed by AddSession *)
NewGroup(s) ==
  /\ groupState' = [groupState EXCEPT ![s] = "live"]
  /\ groupSessions' = [groupSessions EXCEPT ![s] = {s}]
  /\ sessionGroup' = [sessionGroup EXCEPT ![s] = s]

(* GetSessionGroup under the read lock: a group of one's own for id 0, the   *)
(* group found, or nothing found, and then the lock is given up.             *)
GetSessionGroup(p) ==
  LET s == cur[p]  i == groupId[s] IN
  /\ pc[p] = "getgroup"
  /\ \/ /\ i = None
        /\ NewGroup(s) /\ Goto(p, "register")
     \/ /\ i # None /\ mapSessionGroups[i] # None
        /\ LET g == mapSessionGroups[i] IN
             /\ groupSessions' = [groupSessions EXCEPT ![g] = @ \cup {s}]
             /\ sessionGroup' = [sessionGroup EXCEPT ![s] = g]
        /\ Goto(p, "register") /\ UNCHANGED groupState
     \/ /\ i # None /\ mapSessionGroups[i] = None
        /\ Goto(p, "upgrade") /\ UNCHANGED <<groupState, groupSessions, sessionGroup>>
  /\ UNCHANGED <<mapSessions, objVars, mapSessionGroups, groupId, cur, todo,
                 bExit, readFreed>>

(* ... and under the write lock, without looking again: a new group, which   *)
(* std::map::insert leaves out of the map when the id is taken by now.       *)
InsertSessionGroup(p) ==
  LET s == cur[p]  i == groupId[s] IN
  /\ pc[p] = "upgrade" /\ NewGroup(s)
  /\ mapSessionGroups' = [mapSessionGroups EXCEPT ![i] = IF @ = None THEN s ELSE @]
  /\ Goto(p, "register")
  /\ UNCHANGED <<mapSessions, objVars, groupId, cur, todo, bExit, readFreed>>

(* RegisterSession locks the session and inserts it in the map; when         *)
(* CreateECSession fails (SetUserContext) it deletes the session instead.    *)
RegisterSession(p) ==
  LET s == cur[p] IN
  /\ pc[p] = "register"
  /\ \/ /\ Lock(s) /\ mapSessions' = mapSessions \cup {s} /\ Goto(p, "busy")
     \/ Goto(p, "dtor") /\ UNCHANGED <<refCount, mapSessions>>
  /\ UNCHANGED <<state, stale, groupVars, cur, todo, bExit, readFreed>>

-----------------------------------------------------------------------------
(* Requests: ValidateSession ... Unlock ... RemoveBusyState. *)

ValidateSession(p, s) ==
  /\ pc[Main] = "run" /\ pc[p] = "idle" /\ GetSessionLocked(s)
  /\ cur' = [cur EXCEPT ![p] = s] /\ Goto(p, "busy")
  /\ UNCHANGED <<mapSessions, state, groupVars, todo, bExit, readFreed>>

(* ECSessionGroup::GetNotifyItems refreshes every session of the group. *)
GetNotifyItems(p) ==
  /\ pc[p] = "busy"
  /\ stale' = [u \in Sids |-> stale[u] /\ u \notin groupSessions[sessionGroup[cur[p]]]]
  /\ UNCHANGED <<mapSessions, state, refCount, groupVars, pc, cur, todo, bExit,
                 readFreed>>

(* The end of a request; ns__logoff goes on to remove the session, by id. *)
UnlockSession(p) ==
  /\ pc[p] = "busy" /\ Unlock(cur[p])
  /\ Goto(p, "unlocked") \/ Goto(p, "remove")
  /\ UNCHANGED <<mapSessions, state, stale, groupVars, cur, todo, bExit, readFreed>>

(* Mutant: the look-up does not lock, but the end of the request unlocks. *)
BusyStateUnlocked(p) ==
  /\ pc[p] = "unlocked" /\ cur[p] \in mapSessions /\ Goto(p, "finishing")
  /\ UNCHANGED <<mapSessions, objVars, groupVars, cur, todo, bExit, readFreed>>

(* RemoveBusyState looks the session up once more, by id. *)
RemoveBusyState(p) ==
  LET s == cur[p] IN
  /\ pc[p] = "unlocked"
  /\ \/ GetSessionLocked(s) /\ Goto(p, "finishing")
     \/ s \notin mapSessions /\ Goto(p, "idle") /\ UNCHANGED <<refCount, stale>>
  /\ UNCHANGED <<mapSessions, state, groupVars, cur, todo, bExit, readFreed>>

FinishRequest(p) ==
  /\ pc[p] = "finishing" /\ Unlock(cur[p]) /\ Goto(p, "idle")
  /\ UNCHANGED <<mapSessions, state, stale, groupVars, cur, todo, bExit, readFreed>>

-----------------------------------------------------------------------------
(* Taking sessions out of the map, under the write lock. *)

(* Mutant: the sessions to delete stay in the map. *)
TakeOutKeepsEntry(p, S) ==
  /\ todo' = [todo EXCEPT ![p] = S] /\ Goto(p, "next")
  /\ UNCHANGED mapSessions

(* p takes the sessions in S out of the map and goes on to delete them. *)
TakeOut(p, S) ==
  /\ mapSessions' = mapSessions \ S
  /\ todo' = [todo EXCEPT ![p] = S] /\ Goto(p, "next")

(* RemoveSession: another logoff or the cleaner may have been first. *)
RemoveSession(p) ==
  /\ pc[p] = "remove" /\ TakeOut(p, {cur[p]} \cap mapSessions)
  /\ UNCHANGED <<objVars, groupVars, cur, bExit, readFreed>>

(* Mutant: the cleaner passes over sessions in use. *)
CleanUnused ==
  /\ pc[Cleaner] = "scan"
  /\ TakeOut(Cleaner, {s \in mapSessions : stale[s] /\ refCount[s] = 0})
  /\ UNCHANGED <<objVars, groupVars, cur, bExit, readFreed>>

(* SessionCleaner: every session that has timed out. *)
CleanSessions ==
  /\ pc[Cleaner] = "scan" /\ TakeOut(Cleaner, {s \in mapSessions : stale[s]})
  /\ UNCHANGED <<objVars, groupVars, cur, bExit, readFreed>>

(* ... then waits for 5 seconds, unless the server exits by now.  Any end of *)
(* pthread_cond_timedwait but a timeout, a spurious wakeup too, ends the     *)
(* thread; after a timeout it looks at the sessions whatever bExit says.     *)
CleanerWait ==
  /\ \/ /\ pc[Cleaner] = "sleep"
        /\ Goto(Cleaner, IF bExit THEN "done" ELSE "waiting")
     \/ /\ pc[Cleaner] = "waiting"
        /\ Goto(Cleaner, "done") \/ Goto(Cleaner, "scan")
  /\ UNCHANGED <<mapSessions, objVars, groupVars, cur, todo, bExit, readFreed>>

(* The main loop has ended, and with it every request thread:                *)
(* zarafa_removeallsessions empties the map.                                 *)
RemoveAllSessions ==
  /\ pc[Main] = "run" /\ \A p \in Procs : pc[p] = "idle"
  /\ TakeOut(Main, mapSessions)
  /\ UNCHANGED <<objVars, groupVars, cur, bExit, readFreed>>

(* Mutant: the signal without the flag. *)
SignalWithoutFlag ==
  /\ pc[Main] = "join" /\ Goto(Main, "joining")
  /\ UNCHANGED <<mapSessions, objVars, groupVars, cur, todo, bExit, readFreed>>

(* ~ECSessionManager: tell the cleaner, join it, delete what is left. *)
SignalExit ==
  /\ pc[Main] = "join" /\ bExit' = TRUE /\ Goto(Main, "joining")
  /\ UNCHANGED <<mapSessions, objVars, groupVars, cur, todo, readFreed>>

DeleteRemaining ==
  /\ pc[Main] = "joining" /\ pc[Cleaner] = "done" /\ TakeOut(Main, mapSessions)
  /\ UNCHANGED <<objVars, groupVars, cur, bExit, readFreed>>

-----------------------------------------------------------------------------
(* Deleting a session that is out of the map. *)

(* The next session to delete.  RemoveSession and the cleaner give running   *)
(* requests five minutes; the main thread calls delete, which waits forever. *)
NextDoomed(p) ==
  /\ pc[p] = "next"
  /\ \/ \E s \in todo[p] :
          /\ cur' = [cur EXCEPT ![p] = s]
          /\ todo' = [todo EXCEPT ![p] = @ \ {s}]
          /\ Goto(p, IF p = Main THEN "dtor" ELSE "shutdown")
     \/ /\ todo[p] = {} /\ UNCHANGED <<cur, todo>>
        /\ Goto(p, CASE p = Cleaner -> "sleep"
                     [] p = Main -> IF bExit THEN "done" ELSE "join"
                     [] OTHER -> "idle")
  /\ UNCHANGED <<mapSessions, objVars, groupVars, bExit, readFreed>>

(* ECSession::Shutdown(5 * 60 * 1000): nobody uses the session any more. *)
Shutdown(p) ==
  /\ pc[p] = "shutdown" /\ refCount[cur[p]] = 0 /\ Goto(p, "dtor")
  /\ UNCHANGED <<mapSessions, objVars, groupVars, cur, todo, bExit, readFreed>>

(* Mutant: only the cleaner gives up. *)
CleanerTimeoutOnly(p) ==
  /\ p = Cleaner /\ pc[p] = "shutdown" /\ refCount[cur[p]] > 0
  /\ state' = [state EXCEPT ![cur[p]] = "leaked"] /\ Goto(p, "next")
  /\ UNCHANGED <<mapSessions, refCount, stale, groupVars, cur, todo, bExit,
                 readFreed>>

(* ... or somebody still does after five minutes: the session is leaked. *)
ShutdownTimeout(p) ==
  /\ pc[p] = "shutdown" /\ refCount[cur[p]] > 0
  /\ state' = [state EXCEPT ![cur[p]] = "leaked"] /\ Goto(p, "next")
  /\ UNCHANGED <<mapSessions, refCount, stale, groupVars, cur, todo, bExit,
                 readFreed>>

(* Mutant: the session is deleted without leaving its group. *)
DestroyKeepsMember(p) ==
  /\ pc[p] = "dtor" /\ refCount[cur[p]] = 0 /\ Goto(p, "groupid")
  /\ UNCHANGED <<mapSessions, objVars, groupVars, cur, todo, bExit, readFreed>>

(* ~ECSession: Shutdown(0) waits without a timeout *)
Destroy(p) ==
  /\ pc[p] = "dtor" /\ refCount[cur[p]] = 0 /\ Goto(p, "release")
  /\ UNCHANGED <<mapSessions, objVars, groupVars, cur, todo, bExit, readFreed>>

(* ECSessionGroup::ReleaseSession *)
ReleaseSession(p) ==
  LET s == cur[p] IN
  /\ pc[p] = "release" /\ Goto(p, "groupid")
  /\ groupSessions' = [groupSessions EXCEPT ![sessionGroup[s]] = @ \ {s}]
  /\ UNCHANGED <<mapSessions, objVars, mapSessionGroups, groupState, groupId,
                 sessionGroup, cur, todo, bExit, readFreed>>

(* DeleteIfOrphaned first reads the id of the group it is given, unlocked. *)
ReadGroupId(p) ==
  /\ pc[p] = "groupid" /\ Goto(p, "orphan")
  /\ readFreed' = (readFreed \/ groupState[sessionGroup[cur[p]]] = "freed")
  /\ UNCHANGED <<mapSessions, objVars, groupVars, cur, todo, bExit>>

(* ... then deletes the group of that id if it has no sessions; a group of   *)
(* id 0 is the session's own.  The session's memory is freed at the end.     *)
DeleteIfOrphaned(p) ==
  LET s == cur[p]
      i == groupId[s]
      found == IF i = None THEN sessionGroup[s] ELSE mapSessionGroups[i]
  IN
  /\ pc[p] = "orphan" /\ Goto(p, "next")
  /\ IF found # None /\ (i = None \/ groupSessions[found] = {})
     THEN /\ groupState' = [groupState EXCEPT ![found] = "freed"]
          /\ mapSessionGroups' =
               [j \in GroupIds |-> IF j = i THEN None ELSE mapSessionGroups[j]]
     ELSE UNCHANGED <<groupState, mapSessionGroups>>
  /\ state' = [state EXCEPT ![s] = "freed"]
  /\ UNCHANGED <<mapSessions, refCount, stale, groupSessions, groupId,
                 sessionGroup, cur, todo, bExit, readFreed>>

-----------------------------------------------------------------------------
(* Time passes: a session has not been used for session_timeout seconds. *)
Expire(s) ==
  /\ s \in mapSessions /\ ~stale[s] /\ stale' = [stale EXCEPT ![s] = TRUE]
  /\ UNCHANGED <<mapSessions, state, refCount, groupVars, pc, cur, todo, bExit,
                 readFreed>>

(* The server has exited. *)
Terminated == pc[Main] = "done" /\ UNCHANGED vars

LogonStep(p) == GetSessionGroup(p) \/ InsertSessionGroup(p) \/ RegisterSession(p)

DeleteStep(p) ==
  \/ NextDoomed(p) \/ Shutdown(p) \/ Destroy(p) \/ ReleaseSession(p)
  \/ ReadGroupId(p) \/ DeleteIfOrphaned(p)

ExitStep == SignalExit \/ DeleteRemaining

Next ==
  \/ \E p \in Procs, s \in Sids : Logon(p, s) \/ ValidateSession(p, s)
  \/ \E p \in Procs :
       \/ LogonStep(p) \/ GetNotifyItems(p) \/ UnlockSession(p)
       \/ RemoveBusyState(p) \/ FinishRequest(p) \/ RemoveSession(p)
  \/ \E p \in Actors : DeleteStep(p) \/ ShutdownTimeout(p)
  \/ CleanSessions \/ CleanerWait \/ RemoveAllSessions \/ ExitStep
  \/ \E s \in Sids : Expire(s)
  \/ Terminated

Spec == Init /\ [][Next]_vars

(* Threads that are not waiting go on, and five minutes pass.  Nothing says  *)
(* that a request ever ends (UnlockSession), that clients come back, or that *)
(* the server is asked to exit.                                              *)
Fairness ==
  /\ \A p \in Actors : WF_vars(DeleteStep(p)) /\ WF_vars(ShutdownTimeout(p))
  /\ \A p \in Procs : WF_vars(LogonStep(p)) /\ WF_vars(RemoveSession(p))
  /\ WF_vars(CleanSessions) /\ WF_vars(CleanerWait) /\ WF_vars(ExitStep)

FairSpec == Spec /\ Fairness

-----------------------------------------------------------------------------
(* Properties. *)

(* The threads that have locked session s. *)
Holders(s) == {p \in Procs : pc[p] \in {"busy", "finishing"} /\ cur[p] = s}

DeletePc == {"shutdown", "dtor", "release", "groupid", "orphan"}

(* The threads that are about to delete session s. *)
Deleters(s) ==
  {p \in Actors : s \in todo[p] \/ (cur[p] = s /\ pc[p] \in DeletePc)}

(* "When a session is returned, it is guaranteed not to be deleted by        *)
(* another thread": the count is exact, and a locked session is not freed.   *)
LockedIsAlive ==
  \A s \in Sids :
    /\ refCount[s] = Cardinality(Holders(s))
    /\ Holders(s) # {} => state[s] \in {"live", "leaked"}
    /\ \A p \in Actors :
         cur[p] = s /\ pc[p] \in {"release", "groupid", "orphan"} => Holders(s) = {}

(* "No other thread is attempting to remove the session": at most one thread *)
(* deletes a session, and it has left the map, so it is deleted only once.   *)
SoleRemover ==
  \A s \in Sids :
    /\ \A p, q \in Deleters(s) : p = q
    /\ s \in mapSessions => Deleters(s) = {} /\ state[s] = "live"
    /\ state[s] \in {"freed", "leaked"} => Deleters(s) = {}

(* No group keeps a pointer to a freed session (UpdateSessionTime and        *)
(* AddNotification follow them), no session outlives its group, and a group  *)
(* in the map without sessions has not been forgotten: a thread that has     *)
(* released it has still to call DeleteIfOrphaned.                           *)
GroupsAndSessionsAgree ==
  /\ \A s \in Sids, g \in Sids : s \in groupSessions[g] =>
       /\ state[s] # "freed"
       /\ groupState[g] = "live" /\ sessionGroup[s] = g
  /\ \A i \in GroupIds :
       mapSessionGroups[i] # None /\ groupSessions[mapSessionGroups[i]] = {} =>
         \E p \in Actors : pc[p] \in {"groupid", "orphan"} /\ groupId[cur[p]] = i

(* "No other threads can start new requests on the session after this        *)
(* point": once out of the map, a session is only unlocked.                  *)
NoNewUsers ==
  [][\A s \in Sids : Deleters(s) # {} => refCount'[s] <= refCount[s]]_vars

(* What SessionLife says of a session, and its users: threads that have       *)
(* locked it.                                                                *)
Stage == [s \in Sids |->
  IF state[s] # "live" THEN state[s]
  ELSE IF s \in mapSessions THEN "open"
  ELSE IF Deleters(s) # {} THEN "ending" ELSE "starting"]
Users == [s \in Sids |-> Holders(s)]

(* Sessions live as SessionLife promises: used only while they are in the    *)
(* map, removed once, freed when the last user is done or never.             *)
Life == INSTANCE SessionLife WITH
          stage <- Stage, users <- Users, accepting <- pc[Main] = "run"
ImplementsLife == Life!Spec

(* ns__logoff returns, though other requests on the session may never end.   *)
LogoffReturns == \A p \in Procs : pc[p] = "remove" ~> pc[p] = "idle"

(* The cleaner removes a session that stays unused, however many sessions    *)
(* that refuse to shut down it meets on the way, unless the thread has ended *)
(* (at a spurious wakeup).                                                   *)
ExpiredIsRemoved ==
  \A s \in Sids :
    s \in mapSessions /\ stale[s]
      ~> s \notin mapSessions \/ ~stale[s] \/ pc[Cleaner] = "done"

(* Once the request threads are gone the session manager is torn down, and   *)
(* then every session has been freed or had been given up before.            *)
ExitCompletes ==
  pc[Main] = "join" ~>
    pc[Main] = "done" /\ \A s \in Sids : state[s] # "live" /\ Deleters(s) = {}

(* ~ECSession (ECSession.cpp:372) waits for users without a timeout, in the  *)
(* thread that deletes a session it failed to register too, and in the main  *)
(* thread at exit: there are none left by then, so that nobody hangs in it.  *)
DestructorDoesNotWait ==
  \A p \in Actors : pc[p] = "dtor" => refCount[cur[p]] = 0

-----------------------------------------------------------------------------
(* What the comment above GetSessionGroup says and the code does not do.     *)

(* "deletion of the session group only occurs within DeleteIfOrphaned()"     *)
(* (ECSessionManager.cpp:315): which is not called with a deleted group.     *)
NoFreedGroupRead == ~readFreed
=============================================================================
