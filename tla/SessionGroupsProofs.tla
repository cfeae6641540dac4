------------------------- MODULE SessionGroupsProofs -------------------------
(***************************************************************************)
(* Proofs about the session groups of Sessions, for any number of          *)
(* sessions, groups and threads: GroupsAndSessionsAgree.  A group has no   *)
(* owner: it is found by its id under one lock, and emptied and deleted    *)
(* under others.  The invariant says what each thread on its way in or out *)
(* of a group can rely on meanwhile.                                       *)
(***************************************************************************)
EXTENDS SessionsProofs

-----------------------------------------------------------------------------
(* The invariant. *)

EnterPc == {"getgroup", "upgrade"}
LeavePc == {"groupid", "orphan"}

(* A group's members are alive, point back to it, and logged on with its id. *)
MembersAgree ==
  \A s, g \in Sids : s \in groupSessions[g] =>
    /\ state[s] \in {"live", "leaked"} /\ groupState[g] = "live"
    /\ sessionGroup[s] = g /\ groupId[s] = groupId[g]

(* A group in the map exists and is found under its own id. *)
MapAgrees ==
  \A i \in GroupIds : mapSessionGroups[i] # None =>
    groupState[mapSessionGroups[i]] = "live" /\ groupId[mapSessionGroups[i]] = i

(* A session that is looking for its group has not created one. *)
NotYetGrouped ==
  \A s \in Sids :
    state[s] = "none" \/ (\E p \in Actors : cur[p] = s /\ pc[p] \in EnterPc) =>
      groupState[s] = "none" /\ sessionGroup[s] = None

(* Sessions without a group id do not share their group. *)
OwnGroup == \A s \in Sids : groupId[s] = None => sessionGroup[s] \in {None, s}

UpgradeHasId == \A p \in Actors : pc[p] = "upgrade" => groupId[cur[p]] # None

(* A session that has left its group is in no group. *)
ReleasedIsOut ==
  \A p \in Actors : pc[p] \in LeavePc =>
    \A g \in Sids : cur[p] \notin groupSessions[g]

(* An empty group in the map will be looked at once more. *)
EmptyIsVisited ==
  \A i \in GroupIds :
    mapSessionGroups[i] # None /\ groupSessions[mapSessionGroups[i]] = {} =>
      \E p \in Actors : pc[p] \in LeavePc /\ groupId[cur[p]] = i

GInv ==
  /\ MembersAgree /\ MapAgrees /\ NotYetGrouped /\ OwnGroup /\ UpgradeHasId
  /\ ReleasedIsOut /\ EmptyIsVisited

(* Initially there are no groups. *)
LEMMA GroupsInit == Init => GInv
<1> SUFFICES ASSUME Init PROVE GInv
  OBVIOUS
<1>1. \A p \in Actors : pc[p] \in {"scan", "run", "idle"}
  BY DEF Init
<1> QED
  BY <1>1 DEF Init, GInv, MembersAgree, MapAgrees, NotYetGrouped, OwnGroup,
     UpgradeHasId, ReleasedIsOut, EmptyIsVisited, EnterPc, LeavePc

(* A step that changes no group, and no thread's way in or out of one, keeps *)
(* the invariant, also when a session is given up.                           *)
LEMMA SameGroupsKeep ==
  ASSUME GInv, UNCHANGED groupVars,
         \A s \in Sids :
           state'[s] = state[s] \/ (state[s] # "none" /\ state'[s] = "leaked"),
         \A p \in Actors : pc'[p] \in EnterPc => pc'[p] = pc[p] /\ cur'[p] = cur[p],
         \A p \in Actors : pc[p] \in LeavePc => pc'[p] \in LeavePc,
         \A p \in Actors : pc'[p] \in LeavePc =>
           pc[p] \in LeavePc /\ cur'[p] = cur[p]
  PROVE  GInv'
<1> USE DEF GInv, groupVars
<1>1. MembersAgree'
  BY DEF MembersAgree
<1>2. MapAgrees' /\ OwnGroup'
  BY DEF MapAgrees, OwnGroup
<1>3. NotYetGrouped'
  BY DEF NotYetGrouped
<1>4. UpgradeHasId'
  BY DEF UpgradeHasId, EnterPc
<1>5. ReleasedIsOut'
  BY DEF ReleasedIsOut
<1>6. EmptyIsVisited'
  BY DEF EmptyIsVisited
<1> QED
  BY <1>1, <1>2, <1>3, <1>4, <1>5, <1>6

(* The thread that works on s, and no other, may put it in a group. *)
EntersAlone(p) ==
  /\ pc[p] \in EnterPc /\ cur[p] \in Sids /\ state[cur[p]] = "live"
  /\ \A q \in Actors : q # p /\ cur[q] = cur[p] =>
       pc[q] \notin EnterPc \cup LeavePc

(* A new group for a session that has none, in the map or not. *)
LEMMA NewGroupKeeps ==
  ASSUME TInv, GInv, NEW p \in Actors, EntersAlone(p), NewGroup(cur[p]),
         Goto(p, "register"), UNCHANGED <<state, groupId, cur>>,
         \/ UNCHANGED mapSessionGroups
         \/ /\ groupId[cur[p]] \in GroupIds
            /\ mapSessionGroups' = [mapSessionGroups EXCEPT
                 ![groupId[cur[p]]] = IF @ = None THEN cur[p] ELSE @]
  PROVE  GInv'
<1> DEFINE s == cur[p]
<1> USE SessionsAssumption DEF TInv, TypeOK, Actors, ActorPc, EnterPc, LeavePc,
       Goto, NewGroup, EntersAlone
<1>1. /\ s \in Sids /\ state[s] = "live" /\ groupState[s] = "none"
      /\ sessionGroup[s] = None
  BY DEF GInv, NotYetGrouped
<1>2. \A u, g \in Sids : u \in groupSessions[g] => u # s /\ g # s
  BY <1>1 DEF GInv, MembersAgree
<1>3. \A i \in GroupIds : mapSessionGroups[i] # s
  BY <1>1 DEF GInv, MapAgrees
<1>4. MembersAgree'
  BY <1>1, <1>2 DEF GInv, MembersAgree
<1>5. MapAgrees'
  BY <1>1, <1>3 DEF GInv, MapAgrees
<1>6. NotYetGrouped'
  BY <1>1 DEF GInv, NotYetGrouped
<1>7. OwnGroup' /\ UpgradeHasId'
  BY <1>1 DEF GInv, OwnGroup, UpgradeHasId
<1>8. ReleasedIsOut'
  BY <1>1, <1>2 DEF GInv, ReleasedIsOut
<1>9. EmptyIsVisited'
  <2> SUFFICES ASSUME NEW i \in GroupIds, mapSessionGroups'[i] # None,
                      groupSessions'[mapSessionGroups'[i]] = {}
               PROVE  \E q \in Actors : pc'[q] \in LeavePc /\ groupId'[cur'[q]] = i
    BY DEF EmptyIsVisited
  <2>1. mapSessionGroups'[i] # s
    BY <1>1
  <2>2. mapSessionGroups'[i] = mapSessionGroups[i]
    BY <2>1
  <2>3. groupSessions[mapSessionGroups[i]] = {}
    BY <1>3, <2>2
  <2> QED
    BY <2>2, <2>3 DEF GInv, EmptyIsVisited
<1> QED
  BY <1>4, <1>5, <1>6, <1>7, <1>8, <1>9 DEF GInv

(* A session without a group joins the one that is found under its id. *)
LEMMA JoinKeeps ==
  ASSUME TInv, GInv, NEW p \in Actors, EntersAlone(p), Goto(p, "register"),
         groupId[cur[p]] # None, NEW g, g = mapSessionGroups[groupId[cur[p]]],
         g # None,
         groupSessions' = [groupSessions EXCEPT ![g] = @ \cup {cur[p]}],
         sessionGroup' = [sessionGroup EXCEPT ![cur[p]] = g],
         UNCHANGED <<state, groupId, cur, groupState, mapSessionGroups>>
  PROVE  GInv'
<1> DEFINE s == cur[p]
<1> USE SessionsAssumption DEF TInv, TypeOK, Actors, ActorPc, EnterPc, LeavePc,
       Goto, EntersAlone
<1>1. /\ s \in Sids /\ state[s] = "live" /\ groupState[s] = "none"
      /\ sessionGroup[s] = None
  BY DEF GInv, NotYetGrouped
<1>2. /\ groupId[s] \in GroupIds /\ g \in Sids
      /\ groupState[g] = "live" /\ groupId[g] = groupId[s]
  BY <1>1 DEF GInv, MapAgrees
<1>3. \A u, h \in Sids : u \in groupSessions[h] => u # s
  BY <1>1 DEF GInv, MembersAgree
<1>4. \A h \in Sids : groupSessions'[h] =
        IF h = g THEN groupSessions[g] \cup {s} ELSE groupSessions[h]
  BY <1>2
<1>5. MembersAgree'
  BY <1>1, <1>2, <1>3, <1>4 DEF GInv, MembersAgree
<1>6. MapAgrees' /\ OwnGroup' /\ UpgradeHasId'
  BY <1>1 DEF GInv, MapAgrees, OwnGroup, UpgradeHasId
<1>7. NotYetGrouped'
  BY <1>1 DEF GInv, NotYetGrouped
<1>8. ReleasedIsOut'
  BY <1>1, <1>4 DEF GInv, ReleasedIsOut
<1>9. EmptyIsVisited'
  BY <1>1, <1>4 DEF GInv, EmptyIsVisited
<1> QED
  BY <1>5, <1>6, <1>7, <1>8, <1>9 DEF GInv

(* The group invariant is inductive, given types and ownership. *)
LEMMA GroupsNext == TInv /\ OInv /\ GInv /\ [Next]_vars => GInv'
<1> SUFFICES ASSUME TInv, OInv, GInv, [Next]_vars PROVE GInv'
  OBVIOUS
<1> USE SessionsAssumption DEF TInv, TypeOK, CurIsSession, Actors, ActorPc,
       WorkingPc, EnterPc, LeavePc, Goto, objVars, groupVars
<1>1. ASSUME NEW p \in Procs, NEW s \in Sids, Logon(p, s) PROVE GInv'
  <2> USE DEF Logon
  <2>1. /\ s \notin mapSessions /\ \A q \in Actors : ~Owns(q, s)
        /\ groupState[s] = "none" /\ sessionGroup[s] = None
    BY <1>1 DEF OInv, GInv, NotYetGrouped
  <2>2. \A u, g \in Sids : u \in groupSessions[g] => u # s /\ g # s
    BY <1>1, <2>1 DEF GInv, MembersAgree
  <2>3. MembersAgree'
    BY <1>1, <2>2 DEF GInv, MembersAgree
  <2>4. MapAgrees'
    BY <1>1, <2>1 DEF GInv, MapAgrees
  <2>5. NotYetGrouped'
    BY <1>1, <2>1 DEF GInv, NotYetGrouped
  <2>6. OwnGroup'
    BY <1>1, <2>1 DEF GInv, OwnGroup
  <2>7. UpgradeHasId'
    BY <1>1, <2>1 DEF GInv, UpgradeHasId, Owns, CreatePc
  <2>8. ReleasedIsOut'
    BY <1>1 DEF GInv, ReleasedIsOut
  <2>9. EmptyIsVisited'
    BY <1>1, <2>1 DEF GInv, EmptyIsVisited, Owns, DeletePc
  <2> QED
    BY <2>3, <2>4, <2>5, <2>6, <2>7, <2>8, <2>9 DEF GInv
<1>2. ASSUME NEW p \in Procs, NEW s \in Sids, ValidateSession(p, s) PROVE GInv'
  BY <1>2, SameGroupsKeep DEF ValidateSession, GetSessionLocked
<1>3. ASSUME NEW p \in Procs, GetSessionGroup(p) PROVE GInv'
  <2> DEFINE s == cur[p]
  <2>1. s \in Sids /\ pc[p] = "getgroup" /\ EntersAlone(p)
    BY <1>3 DEF GetSessionGroup, EntersAlone, OInv, Owns, CreatePc, DeletePc
  <2>2. CASE groupId[s] = None /\ NewGroup(s) /\ Goto(p, "register")
    BY <1>3, <2>1, <2>2, NewGroupKeeps DEF GetSessionGroup
  <2>3. CASE /\ groupId[s] # None /\ mapSessionGroups[groupId[s]] # None
             /\ groupSessions' = [groupSessions EXCEPT
                                    ![mapSessionGroups[groupId[s]]] = @ \cup {s}]
             /\ sessionGroup' = [sessionGroup EXCEPT
                                    ![s] = mapSessionGroups[groupId[s]]]
             /\ Goto(p, "register") /\ UNCHANGED groupState
    BY <1>3, <2>1, <2>3, JoinKeeps DEF GetSessionGroup
  <2>4. CASE /\ groupId[s] # None /\ Goto(p, "upgrade")
             /\ UNCHANGED <<groupState, groupSessions, sessionGroup>>
    <3>1. UpgradeHasId'
      BY <1>3, <2>1, <2>4 DEF GetSessionGroup, GInv, UpgradeHasId
    <3>2. NotYetGrouped'
      BY <1>3, <2>1, <2>4 DEF GetSessionGroup, GInv, NotYetGrouped
    <3>3. ReleasedIsOut' /\ EmptyIsVisited'
      BY <1>3, <2>1, <2>4 DEF GetSessionGroup, GInv, ReleasedIsOut, EmptyIsVisited
    <3> QED
      BY <1>3, <2>4, <3>1, <3>2, <3>3
         DEF GetSessionGroup, GInv, MembersAgree, MapAgrees, OwnGroup
  <2> QED
    BY <1>3, <2>2, <2>3, <2>4 DEF GetSessionGroup
<1>4. ASSUME NEW p \in Procs, InsertSessionGroup(p) PROVE GInv'
  <2>1. cur[p] \in Sids /\ pc[p] = "upgrade" /\ EntersAlone(p)
    BY <1>4 DEF InsertSessionGroup, EntersAlone, OInv, Owns, CreatePc, DeletePc
  <2>2. groupId[cur[p]] \in GroupIds
    BY <2>1 DEF GInv, UpgradeHasId
  <2> QED
    BY <1>4, <2>1, <2>2, NewGroupKeeps DEF InsertSessionGroup
<1>5. ASSUME NEW p \in Procs, RegisterSession(p) PROVE GInv'
  BY <1>5, SameGroupsKeep DEF RegisterSession
<1>6. ASSUME NEW p \in Procs, GetNotifyItems(p) PROVE GInv'
  BY <1>6, SameGroupsKeep DEF GetNotifyItems
<1>7. ASSUME NEW p \in Procs, UnlockSession(p) PROVE GInv'
  BY <1>7, SameGroupsKeep DEF UnlockSession
<1>8. ASSUME NEW p \in Procs, RemoveBusyState(p) PROVE GInv'
  BY <1>8, SameGroupsKeep DEF RemoveBusyState
<1>9. ASSUME NEW p \in Procs, FinishRequest(p) PROVE GInv'
  BY <1>9, SameGroupsKeep DEF FinishRequest
<1>10. ASSUME NEW p \in Procs, RemoveSession(p) PROVE GInv'
  BY <1>10, SameGroupsKeep DEF RemoveSession, TakeOut
<1>11. ASSUME NEW p \in Actors, NextDoomed(p) PROVE GInv'
  BY <1>11, SameGroupsKeep DEF NextDoomed
<1>12. ASSUME NEW p \in Actors, Shutdown(p) PROVE GInv'
  BY <1>12, SameGroupsKeep DEF Shutdown
<1>13. ASSUME NEW p \in Actors, ShutdownTimeout(p) PROVE GInv'
  <2>1. cur[p] \in Sids /\ state[cur[p]] = "live"
    BY <1>13 DEF ShutdownTimeout, OInv, Owns, DeletePc
  <2> QED
    BY <1>13, <2>1, SameGroupsKeep DEF ShutdownTimeout
<1>14. ASSUME NEW p \in Actors, Destroy(p) PROVE GInv'
  BY <1>14, SameGroupsKeep DEF Destroy
<1>15. ASSUME NEW p \in Actors, ReleaseSession(p) PROVE GInv'
  <2> DEFINE s == cur[p]
  <2>1. s \in Sids /\ pc[p] = "release"
    BY <1>15 DEF ReleaseSession
  <2>2. \A g \in Sids : groupSessions'[g] = groupSessions[g] \ {s}
    BY <1>15, <2>1 DEF ReleaseSession, GInv, MembersAgree
  <2>3. MembersAgree'
    BY <1>15, <2>2 DEF ReleaseSession, GInv, MembersAgree
  <2>4. MapAgrees' /\ OwnGroup'
    BY <1>15 DEF ReleaseSession, GInv, MapAgrees, OwnGroup
  <2>5. NotYetGrouped'
    BY <1>15 DEF ReleaseSession, GInv, NotYetGrouped
  <2>6. UpgradeHasId'
    BY <1>15 DEF ReleaseSession, GInv, UpgradeHasId
  <2>7. ReleasedIsOut'
    BY <1>15, <2>2 DEF ReleaseSession, GInv, ReleasedIsOut
  <2>8. EmptyIsVisited'
    <3> SUFFICES ASSUME NEW i \in GroupIds, mapSessionGroups[i] # None,
                        groupSessions'[mapSessionGroups[i]] = {}
                 PROVE  \E q \in Actors : pc'[q] \in LeavePc /\ groupId[cur[q]] = i
      BY <1>15 DEF ReleaseSession, EmptyIsVisited
    <3>1. CASE groupSessions[mapSessionGroups[i]] = {}
      BY <1>15, <3>1 DEF ReleaseSession, GInv, EmptyIsVisited
    <3>2. CASE groupSessions[mapSessionGroups[i]] # {}
      <4>1. s \in groupSessions[mapSessionGroups[i]]
        BY <2>2, <3>2
      <4>2. groupId[s] = i
        BY <2>1, <4>1 DEF GInv, MembersAgree, MapAgrees
      <4> QED
        BY <1>15, <4>2 DEF ReleaseSession
    <3> QED
      BY <3>1, <3>2
  <2> QED
    BY <2>3, <2>4, <2>5, <2>6, <2>7, <2>8 DEF GInv
<1>16. ASSUME NEW p \in Actors, ReadGroupId(p) PROVE GInv'
  BY <1>16, SameGroupsKeep DEF ReadGroupId
<1>17. ASSUME NEW p \in Actors, DeleteIfOrphaned(p) PROVE GInv'
  <2> DEFINE s == cur[p]
             i == groupId[s]
             found == IF i = None THEN sessionGroup[s] ELSE mapSessionGroups[i]
             gone == found # None /\ (i = None \/ groupSessions[found] = {})
  <2>1. s \in Sids /\ pc[p] = "orphan" /\ \A g \in Sids : s \notin groupSessions[g]
    BY <1>17 DEF DeleteIfOrphaned, GInv, ReleasedIsOut
  <2>2. /\ state' = [state EXCEPT ![s] = "freed"]
        /\ pc' = [pc EXCEPT ![p] = "next"]
        /\ UNCHANGED <<groupSessions, groupId, sessionGroup, cur>>
    BY <1>17 DEF DeleteIfOrphaned
  <2>3. CASE gone
    <3>1. /\ groupState' = [groupState EXCEPT ![found] = "freed"]
          /\ mapSessionGroups' =
               [j \in GroupIds |-> IF j = i THEN None ELSE mapSessionGroups[j]]
      BY <1>17, <2>3 DEF DeleteIfOrphaned
    <3>2. found \in Sids /\ groupId[found] = i /\ groupSessions[found] = {}
      <4>1. CASE i = None
        <5>1. found = s
          BY <2>1, <2>3, <4>1 DEF GInv, OwnGroup
        <5>2. \A t \in groupSessions[s] : t = s
          BY <2>1, <4>1 DEF GInv, MembersAgree, OwnGroup
        <5> QED
          BY <2>1, <4>1, <5>1, <5>2
      <4>2. CASE i # None
        BY <2>1, <2>3, <4>2 DEF GInv, MapAgrees
      <4> QED
        BY <4>1, <4>2
    <3>3. \A j \in GroupIds : j # i => mapSessionGroups[j] # found
      BY <3>2 DEF GInv, MapAgrees
    <3>4. MembersAgree'
      BY <2>1, <2>2, <3>1, <3>2 DEF GInv, MembersAgree
    <3>5. MapAgrees' /\ OwnGroup'
      BY <2>2, <3>1, <3>3 DEF GInv, MapAgrees, OwnGroup
    <3>6. NotYetGrouped'
      BY <2>1, <2>2, <2>3, <3>1, <3>2 DEF GInv, NotYetGrouped, OwnGroup, MapAgrees
    <3>7. UpgradeHasId' /\ ReleasedIsOut'
      BY <2>2 DEF GInv, UpgradeHasId, ReleasedIsOut
    <3>8. EmptyIsVisited'
      BY <2>2, <3>1 DEF GInv, EmptyIsVisited
    <3> QED
      BY <3>4, <3>5, <3>6, <3>7, <3>8 DEF GInv
  <2>4. CASE ~gone
    <3>1. UNCHANGED <<groupState, mapSessionGroups>>
      BY <1>17, <2>4 DEF DeleteIfOrphaned
    <3>2. MembersAgree' /\ MapAgrees' /\ OwnGroup'
      BY <2>1, <2>2, <3>1 DEF GInv, MembersAgree, MapAgrees, OwnGroup
    <3>3. NotYetGrouped'
      BY <2>1, <2>2, <3>1 DEF GInv, NotYetGrouped
    <3>4. UpgradeHasId' /\ ReleasedIsOut'
      BY <2>2 DEF GInv, UpgradeHasId, ReleasedIsOut
    <3>5. EmptyIsVisited'
      BY <2>2, <2>4, <3>1 DEF GInv, EmptyIsVisited
    <3> QED
      BY <3>2, <3>3, <3>4, <3>5 DEF GInv
  <2> QED
    BY <2>3, <2>4
<1>18. CASE CleanSessions
  BY <1>18, SameGroupsKeep DEF CleanSessions, TakeOut
<1>19. CASE CleanerWait
  BY <1>19, SameGroupsKeep DEF CleanerWait
<1>20. CASE RemoveAllSessions
  BY <1>20, SameGroupsKeep DEF RemoveAllSessions, TakeOut
<1>21. CASE SignalExit
  BY <1>21, SameGroupsKeep DEF SignalExit
<1>22. CASE DeleteRemaining
  BY <1>22, SameGroupsKeep DEF DeleteRemaining, TakeOut
<1>23. ASSUME NEW s \in Sids, Expire(s) PROVE GInv'
  BY <1>23, SameGroupsKeep DEF Expire
<1>24. CASE UNCHANGED vars
  BY <1>24, SameGroupsKeep DEF vars
<1> QED
  BY <1>1, <1>2, <1>3, <1>4, <1>5, <1>6, <1>7, <1>8, <1>9, <1>10, <1>11, <1>12,
     <1>13, <1>14, <1>15, <1>16, <1>17, <1>18, <1>19, <1>20, <1>21, <1>22,
     <1>23, <1>24
     DEF Next, LogonStep, DeleteStep, ExitStep, Terminated
-----------------------------------------------------------------------------
(* The theorems. *)

(* The group invariant, together with that of SessionsProofs, always holds.  *)
THEOREM GroupInvariance == Spec => [](IInv /\ GInv)
<1>1. Init => GInv
  BY GroupsInit
<1>2. IInv /\ GInv /\ [Next]_vars => GInv'
  BY GroupsNext DEF IInv
<1> QED
  BY <1>1, <1>2, Invariance, PTL DEF Spec

(* UpdateSessionTime and AddNotification follow the pointers of a group, and *)
(* a session uses its group without a lock: neither is freed before the      *)
(* other has let go of it, and an empty group is deleted by somebody.        *)
THEOREM GroupsAgree == Spec => []GroupsAndSessionsAgree
<1>1. IInv /\ GInv => GroupsAndSessionsAgree
  <2> SUFFICES ASSUME IInv, GInv PROVE GroupsAndSessionsAgree
    OBVIOUS
  <2>1. \A s \in Sids, g \in Sids : s \in groupSessions[g] =>
          /\ state[s] # "freed"
          /\ groupState[g] = "live" /\ sessionGroup[s] = g
    BY DEF GInv, MembersAgree
  <2> QED
    BY <2>1 DEF GInv, EmptyIsVisited, LeavePc, GroupsAndSessionsAgree
<1> QED
  BY <1>1, GroupInvariance, PTL
=============================================================================
