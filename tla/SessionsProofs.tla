--------------------------- MODULE SessionsProofs ---------------------------
(***************************************************************************)
(* Proofs about Sessions, for any number of sessions, groups and threads:  *)
(* every variable has its type, at most one thread deletes a session, a    *)
(* session that is being deleted gets no new users, a session that is      *)
(* locked has not been freed, nobody waits in a session's destructor, and  *)
(* SessionLife is implemented.                                             *)
(***************************************************************************)
EXTENDS Sessions, FiniteSetTheorems, TLAPS

-----------------------------------------------------------------------------
(* Types. *)

(* The program counters at which a thread works on a session. *)
WorkingPc == {"getgroup", "upgrade", "register", "busy", "unlocked",
              "finishing", "remove", "shutdown", "dtor", "release", "groupid",
              "orphan"}

CurIsSession == \A p \in Actors : pc[p] \in WorkingPc => cur[p] \in Sids

TInv == TypeOK /\ CurIsSession

(* BTSession's reference count is the number of threads that lock it. *)
CountExact == \A s \in Sids : refCount[s] = Cardinality(Holders(s))

(* The initial state has its types. *)
LEMMA TypeInit == Init => TInv
<1> SUFFICES ASSUME Init PROVE TInv
  OBVIOUS
<1>1. \A p \in Actors : pc[p] \in {"scan", "run", "idle"}
  BY DEF Init
<1>2. pc \in [Actors -> ActorPc]
  BY <1>1 DEF Init, ActorPc
<1>3. CurIsSession
  BY <1>1 DEF CurIsSession, WorkingPc
<1>4. TypeOK
  BY <1>2 DEF Init, TypeOK
<1> QED
  BY <1>3, <1>4 DEF TInv

(* A thread that has locked a session is counted. *)
LEMMA HolderIsCounted ==
  ASSUME TInv, CountExact, NEW p \in Procs, pc[p] \in {"busy", "finishing"}
  PROVE  refCount[cur[p]] \in Nat \ {0}
<1> DEFINE s == cur[p]
<1>1. s \in Sids
  BY DEF TInv, CurIsSession, WorkingPc, Actors
<1>2. p \in Holders(s) /\ Holders(s) \subseteq Procs
  BY DEF Holders
<1>3. IsFiniteSet(Holders(s))
  BY <1>2, FS_Subset, SessionsAssumption
<1>4. Cardinality(Holders(s)) \in Nat /\ Cardinality(Holders(s)) # 0
  BY <1>2, <1>3, FS_CardinalityType, FS_EmptySet
<1> QED
  BY <1>1, <1>4 DEF CountExact

(* Unlocking a counted lock leaves a count. *)
LEMMA UnlockCounts ==
  ASSUME refCount \in [Sids -> Nat], NEW s \in Sids, refCount[s] \in Nat \ {0},
         Unlock(s)
  PROVE  refCount' \in [Sids -> Nat]
<1>1. refCount[s] - 1 \in Nat
  OBVIOUS
<1>2. refCount' = [refCount EXCEPT ![s] = refCount[s] - 1]
  BY DEF Unlock
<1> QED
  BY <1>1, <1>2

(* Every step keeps the types; that Unlock does rests on the exact count. *)
LEMMA TypeNext == TInv /\ CountExact /\ [Next]_vars => TInv'
<1> SUFFICES ASSUME TInv, CountExact, [Next]_vars PROVE TInv'
  OBVIOUS
<1> USE SessionsAssumption DEF TInv, TypeOK, CurIsSession, Actors, ActorPc,
       WorkingPc, Goto, objVars, groupVars
<1>1. ASSUME NEW p \in Procs, NEW s \in Sids, Logon(p, s) PROVE TInv'
  BY <1>1 DEF Logon
<1>2. ASSUME NEW p \in Procs, NEW s \in Sids, ValidateSession(p, s) PROVE TInv'
  BY <1>2 DEF ValidateSession, GetSessionLocked, Lock
<1>3. ASSUME NEW p \in Procs, GetSessionGroup(p) PROVE TInv'
  BY <1>3 DEF GetSessionGroup, NewGroup
<1>4. ASSUME NEW p \in Procs, InsertSessionGroup(p) PROVE TInv'
  <2>1. cur[p] \in Sids
    BY <1>4 DEF InsertSessionGroup
  <2>2. mapSessionGroups' \in [GroupIds -> Sids \cup {None}]
    BY <1>4, <2>1 DEF InsertSessionGroup
  <2> QED
    BY <1>4, <2>1, <2>2 DEF InsertSessionGroup, NewGroup
<1>5. ASSUME NEW p \in Procs, RegisterSession(p) PROVE TInv'
  BY <1>5 DEF RegisterSession, Lock
<1>6. ASSUME NEW p \in Procs, GetNotifyItems(p) PROVE TInv'
  BY <1>6 DEF GetNotifyItems
<1>7. ASSUME NEW p \in Procs, UnlockSession(p) PROVE TInv'
  <2>1. cur[p] \in Sids
    BY <1>7 DEF UnlockSession
  <2>2. refCount[cur[p]] \in Nat \ {0}
    BY <1>7, HolderIsCounted DEF UnlockSession
  <2>3. refCount' \in [Sids -> Nat]
    BY <1>7, <2>1, <2>2, UnlockCounts DEF UnlockSession
  <2> QED
    BY <1>7, <2>1, <2>3 DEF UnlockSession
<1>8. ASSUME NEW p \in Procs, RemoveBusyState(p) PROVE TInv'
  <2>1. cur[p] \in Sids
    BY <1>8 DEF RemoveBusyState
  <2>2. CASE GetSessionLocked(cur[p]) /\ Goto(p, "finishing")
    <3>1. refCount' \in [Sids -> Nat] /\ stale' \in [Sids -> BOOLEAN]
      BY <2>1, <2>2 DEF GetSessionLocked, Lock
    <3> QED
      BY <1>8, <2>1, <2>2, <3>1 DEF RemoveBusyState
  <2>3. CASE Goto(p, "idle") /\ UNCHANGED <<refCount, stale>>
    BY <1>8, <2>3 DEF RemoveBusyState
  <2> QED
    BY <1>8, <2>2, <2>3 DEF RemoveBusyState
<1>9. ASSUME NEW p \in Procs, FinishRequest(p) PROVE TInv'
  <2>1. cur[p] \in Sids
    BY <1>9 DEF FinishRequest
  <2>2. refCount[cur[p]] \in Nat \ {0}
    BY <1>9, HolderIsCounted DEF FinishRequest
  <2>3. refCount' \in [Sids -> Nat]
    BY <1>9, <2>1, <2>2, UnlockCounts DEF FinishRequest
  <2> QED
    BY <1>9, <2>1, <2>3 DEF FinishRequest
<1>10. ASSUME NEW p \in Procs, RemoveSession(p) PROVE TInv'
  BY <1>10 DEF RemoveSession, TakeOut
<1>11. ASSUME NEW p \in Actors, NextDoomed(p) PROVE TInv'
  BY <1>11 DEF NextDoomed
<1>12. ASSUME NEW p \in Actors, Shutdown(p) PROVE TInv'
  BY <1>12 DEF Shutdown
<1>13. ASSUME NEW p \in Actors, ShutdownTimeout(p) PROVE TInv'
  BY <1>13 DEF ShutdownTimeout
<1>14. ASSUME NEW p \in Actors, Destroy(p) PROVE TInv'
  BY <1>14 DEF Destroy
<1>15. ASSUME NEW p \in Actors, ReleaseSession(p) PROVE TInv'
  BY <1>15 DEF ReleaseSession
<1>16. ASSUME NEW p \in Actors, ReadGroupId(p) PROVE TInv'
  BY <1>16 DEF ReadGroupId
<1>17. ASSUME NEW p \in Actors, DeleteIfOrphaned(p) PROVE TInv'
  BY <1>17 DEF DeleteIfOrphaned
<1>18. CASE CleanSessions
  BY <1>18 DEF CleanSessions, TakeOut
<1>19. CASE CleanerWait
  BY <1>19 DEF CleanerWait
<1>20. CASE RemoveAllSessions
  BY <1>20 DEF RemoveAllSessions, TakeOut
<1>21. CASE SignalExit
  BY <1>21 DEF SignalExit
<1>22. CASE DeleteRemaining
  BY <1>22 DEF DeleteRemaining, TakeOut
<1>23. ASSUME NEW s \in Sids, Expire(s) PROVE TInv'
  BY <1>23 DEF Expire
<1>24. CASE UNCHANGED vars
  BY <1>24 DEF vars
<1> QED
  BY <1>1, <1>2, <1>3, <1>4, <1>5, <1>6, <1>7, <1>8, <1>9, <1>10, <1>11, <1>12,
     <1>13, <1>14, <1>15, <1>16, <1>17, <1>18, <1>19, <1>20, <1>21, <1>22,
     <1>23, <1>24
     DEF Next, LogonStep, DeleteStep, ExitStep, Terminated

-----------------------------------------------------------------------------
(* Ownership: who creates or deletes a session.  SoleRemover alone is not    *)
(* inductive: the thread that creates a session deletes it when it cannot be *)
(* registered, so it has to be the only one that knows it; and a session a   *)
(* thread is deleting must not also be among those it has still to delete.   *)

CreatePc == {"getgroup", "upgrade", "register"}

Owns(p, s) ==
  s \in todo[p] \/ (cur[p] = s /\ pc[p] \in CreatePc \cup DeletePc)

OInv ==
  /\ \A p \in Actors : pc[p] \in CreatePc \cup DeletePc => cur[p] \notin todo[p]
  /\ \A s \in Sids : \A p, q \in Actors : Owns(p, s) /\ Owns(q, s) => p = q
  /\ \A s \in Sids : \A p \in Actors :
       Owns(p, s) => s \notin mapSessions /\ state[s] = "live"
  /\ \A s \in mapSessions : state[s] = "live"

(* Initially nobody owns a session. *)
LEMMA OwnersInit == Init => OInv
<1> SUFFICES ASSUME Init PROVE OInv
  OBVIOUS
<1>1. \A p \in Actors : pc[p] \in {"scan", "run", "idle"} /\ todo[p] = {}
  BY DEF Init
<1>2. \A p \in Actors, s \in Sids : ~Owns(p, s)
  BY <1>1 DEF Owns, CreatePc, DeletePc
<1> QED
  BY <1>1, <1>2 DEF OInv, Init, CreatePc, DeletePc

(* The ownership invariant is inductive. *)
LEMMA OwnersNext == TInv /\ OInv /\ [Next]_vars => OInv'
<1> SUFFICES ASSUME TInv, OInv, [Next]_vars PROVE OInv'
  OBVIOUS
<1> USE SessionsAssumption DEF TInv, TypeOK, CurIsSession, OInv, Owns, Actors,
       ActorPc, WorkingPc, CreatePc, DeletePc, Goto, objVars, groupVars
<1>1. ASSUME NEW p \in Procs, NEW s \in Sids, Logon(p, s) PROVE OInv'
  BY <1>1 DEF Logon
<1>2. ASSUME NEW p \in Procs, NEW s \in Sids, ValidateSession(p, s) PROVE OInv'
  BY <1>2 DEF ValidateSession, GetSessionLocked
<1>3. ASSUME NEW p \in Procs, GetSessionGroup(p) PROVE OInv'
  BY <1>3 DEF GetSessionGroup
<1>4. ASSUME NEW p \in Procs, InsertSessionGroup(p) PROVE OInv'
  BY <1>4 DEF InsertSessionGroup
<1>5. ASSUME NEW p \in Procs, RegisterSession(p) PROVE OInv'
  BY <1>5 DEF RegisterSession
<1>6. ASSUME NEW p \in Procs, GetNotifyItems(p) PROVE OInv'
  BY <1>6 DEF GetNotifyItems
<1>7. ASSUME NEW p \in Procs, UnlockSession(p) PROVE OInv'
  BY <1>7 DEF UnlockSession
<1>8. ASSUME NEW p \in Procs, RemoveBusyState(p) PROVE OInv'
  BY <1>8 DEF RemoveBusyState, GetSessionLocked
<1>9. ASSUME NEW p \in Procs, FinishRequest(p) PROVE OInv'
  BY <1>9 DEF FinishRequest
<1>10. ASSUME NEW p \in Procs, RemoveSession(p) PROVE OInv'
  BY <1>10 DEF RemoveSession, TakeOut
<1>11. ASSUME NEW p \in Actors, NextDoomed(p) PROVE OInv'
  BY <1>11 DEF NextDoomed
<1>12. ASSUME NEW p \in Actors, Shutdown(p) PROVE OInv'
  BY <1>12 DEF Shutdown
<1>13. ASSUME NEW p \in Actors, ShutdownTimeout(p) PROVE OInv'
  BY <1>13 DEF ShutdownTimeout
<1>14. ASSUME NEW p \in Actors, Destroy(p) PROVE OInv'
  BY <1>14 DEF Destroy
<1>15. ASSUME NEW p \in Actors, ReleaseSession(p) PROVE OInv'
  BY <1>15 DEF ReleaseSession
<1>16. ASSUME NEW p \in Actors, ReadGroupId(p) PROVE OInv'
  BY <1>16 DEF ReadGroupId
<1>17. ASSUME NEW p \in Actors, DeleteIfOrphaned(p) PROVE OInv'
  BY <1>17 DEF DeleteIfOrphaned
<1>18. CASE CleanSessions
  BY <1>18 DEF CleanSessions, TakeOut
<1>19. CASE CleanerWait
  BY <1>19 DEF CleanerWait
<1>20. CASE RemoveAllSessions
  BY <1>20 DEF RemoveAllSessions, TakeOut
<1>21. CASE SignalExit
  BY <1>21 DEF SignalExit
<1>22. CASE DeleteRemaining
  BY <1>22 DEF DeleteRemaining, TakeOut
<1>23. ASSUME NEW s \in Sids, Expire(s) PROVE OInv'
  BY <1>23 DEF Expire
<1>24. CASE UNCHANGED vars
  BY <1>24 DEF vars
<1> QED
  BY <1>1, <1>2, <1>3, <1>4, <1>5, <1>6, <1>7, <1>8, <1>9, <1>10, <1>11, <1>12,
     <1>13, <1>14, <1>15, <1>16, <1>17, <1>18, <1>19, <1>20, <1>21, <1>22,
     <1>23, <1>24
     DEF Next, LogonStep, DeleteStep, ExitStep, Terminated

-----------------------------------------------------------------------------
(* Locking: the reference count of a session. *)

HoldPc == {"busy", "finishing"}

(* A step that changes neither holders nor counts keeps the count exact. *)
LEMMA SameHolders ==
  ASSUME CountExact, UNCHANGED refCount,
         \A p \in Procs : (pc[p] \in HoldPc) <=> (pc'[p] \in HoldPc),
         \A p \in Procs : pc[p] \in HoldPc => cur'[p] = cur[p]
  PROVE  CountExact' /\ \A s \in Sids : Holders(s)' = Holders(s)
<1>1. \A s \in Sids : Holders(s)' = Holders(s)
  BY DEF Holders, HoldPc
<1> QED
  BY <1>1 DEF CountExact

(* A thread that begins to hold s, and locks it, is counted. *)
LEMMA OneMoreHolder ==
  ASSUME TInv, CountExact, NEW p \in Procs, NEW s \in Sids, Lock(s),
         pc[p] \notin HoldPc, pc'[p] \in HoldPc, cur'[p] = s,
         \A q \in Procs : q # p => pc'[q] = pc[q] /\ cur'[q] = cur[q]
  PROVE  CountExact' /\ \A u \in Sids :
           Holders(u)' = IF u = s THEN Holders(u) \cup {p} ELSE Holders(u)
<1>1. \A u \in Sids :
        Holders(u)' = IF u = s THEN Holders(u) \cup {p} ELSE Holders(u)
  BY DEF Holders, HoldPc
<1>2. p \notin Holders(s) /\ IsFiniteSet(Holders(s))
  BY FS_Subset, SessionsAssumption DEF Holders, HoldPc
<1>3. Cardinality(Holders(s) \cup {p}) = Cardinality(Holders(s)) + 1
  BY <1>2, FS_AddElement
<1>4. \A u \in Sids : refCount'[u] = IF u = s THEN refCount[u] + 1 ELSE refCount[u]
  BY DEF Lock, TInv, TypeOK
<1> QED
  BY <1>1, <1>3, <1>4 DEF CountExact

(* A thread that stops to hold s, and unlocks it, is not counted any more. *)
LEMMA OneHolderLess ==
  ASSUME TInv, CountExact, NEW p \in Procs, Unlock(cur[p]),
         pc[p] \in HoldPc, pc'[p] \notin HoldPc, UNCHANGED cur,
         \A q \in Procs : q # p => pc'[q] = pc[q]
  PROVE  CountExact' /\ \A u \in Sids :
           Holders(u)' = IF u = cur[p] THEN Holders(u) \ {p} ELSE Holders(u)
<1> DEFINE s == cur[p]
<1>1. s \in Sids
  BY DEF TInv, CurIsSession, WorkingPc, HoldPc, Actors
<1>2. \A u \in Sids :
        Holders(u)' = IF u = s THEN Holders(u) \ {p} ELSE Holders(u)
  BY DEF Holders, HoldPc
<1>3. p \in Holders(s) /\ IsFiniteSet(Holders(s))
  BY FS_Subset, SessionsAssumption DEF Holders, HoldPc
<1>4. Cardinality(Holders(s) \ {p}) = Cardinality(Holders(s)) - 1
  BY <1>3, FS_RemoveElement
<1>5. \A u \in Sids : refCount'[u] = IF u = s THEN refCount[u] - 1 ELSE refCount[u]
  BY <1>1 DEF Unlock, TInv, TypeOK
<1> QED
  BY <1>2, <1>4, <1>5 DEF CountExact

(* Nobody holds a session whose count is zero. *)
LEMMA ZeroMeansFree ==
  ASSUME CountExact, NEW s \in Sids, refCount[s] = 0
  PROVE  Holders(s) = {}
<1>1. IsFiniteSet(Holders(s))
  BY FS_Subset, SessionsAssumption DEF Holders
<1> QED
  BY <1>1, FS_EmptySet DEF CountExact

FreeingPc == {"release", "groupid", "orphan"}

(* The locking part of the invariant, split as LockedIsAlive is. *)
HeldIsAlive == \A s \in Sids : Holders(s) # {} => state[s] \in {"live", "leaked"}
FreedIsUnheld ==
  \A s \in Sids : \A p \in Actors :
    cur[p] = s /\ pc[p] \in FreeingPc => Holders(s) = {}

LInv == CountExact /\ HeldIsAlive /\ FreedIsUnheld

(* The locking invariant is LockedIsAlive. *)
LEMMA LInvIsLockedIsAlive == LInv <=> LockedIsAlive
  BY DEF LInv, LockedIsAlive, CountExact, HeldIsAlive, FreedIsUnheld, FreeingPc

(* Initially nobody holds a session. *)
LEMMA LockingInit == Init => LInv
<1> SUFFICES ASSUME Init PROVE LInv
  OBVIOUS
<1>1. \A p \in Actors : pc[p] \in {"scan", "run", "idle"}
  BY DEF Init
<1>2. \A s \in Sids : Holders(s) = {}
  BY <1>1 DEF Holders, Actors
<1> QED
  BY <1>1, <1>2, FS_EmptySet
     DEF LInv, CountExact, HeldIsAlive, FreedIsUnheld, FreeingPc, Init

(* A step that changes no holders keeps the invariant if it neither frees a  *)
(* session that is held nor starts to free one whose count is not zero.      *)
LEMMA SameHoldersKeep ==
  ASSUME LInv, UNCHANGED refCount,
         \A p \in Procs : (pc[p] \in HoldPc) <=> (pc'[p] \in HoldPc),
         \A p \in Procs : pc[p] \in HoldPc => cur'[p] = cur[p],
         \A s \in Sids : state'[s] \in {state[s], "live", "leaked"} \/ Holders(s) = {},
         \A p \in Actors : pc'[p] \in FreeingPc =>
           cur'[p] = cur[p] /\ (pc[p] \in FreeingPc \/ refCount[cur[p]] = 0)
  PROVE  LInv'
<1>1. CountExact' /\ \A s \in Sids : Holders(s)' = Holders(s)
  BY SameHolders DEF LInv
<1>2. HeldIsAlive'
  BY <1>1 DEF LInv, HeldIsAlive
<1>3. FreedIsUnheld'
  BY <1>1, ZeroMeansFree DEF LInv, FreedIsUnheld
<1> QED
  BY <1>1, <1>2, <1>3 DEF LInv

(* A thread that locks a session that is live, and that nobody is freeing.   *)
LEMMA OneMoreKeeps ==
  ASSUME TInv, LInv, NEW p \in Procs, NEW s \in Sids, Lock(s),
         pc[p] \notin HoldPc, pc'[p] \in HoldPc, cur'[p] = s,
         \A q \in Actors : q # p => pc'[q] = pc[q] /\ cur'[q] = cur[q],
         UNCHANGED state, state[s] = "live",
         \A q \in Actors : ~(cur[q] = s /\ pc[q] \in FreeingPc)
  PROVE  LInv'
<1>1. /\ CountExact'
      /\ \A u \in Sids :
           Holders(u)' = IF u = s THEN Holders(u) \cup {p} ELSE Holders(u)
  BY OneMoreHolder DEF LInv, Actors
<1>2. HeldIsAlive'
  BY <1>1 DEF LInv, HeldIsAlive
<1>3. FreedIsUnheld'
  BY <1>1 DEF LInv, FreedIsUnheld, FreeingPc, HoldPc
<1> QED
  BY <1>1, <1>2, <1>3 DEF LInv

(* A thread that unlocks its session. *)
LEMMA OneLessKeeps ==
  ASSUME TInv, LInv, NEW p \in Procs, Unlock(cur[p]), pc[p] \in HoldPc,
         pc'[p] \notin HoldPc \cup FreeingPc, UNCHANGED <<cur, state>>,
         \A q \in Actors : q # p => pc'[q] = pc[q]
  PROVE  LInv'
<1>1. CountExact' /\ \A u \in Sids : Holders(u)' \subseteq Holders(u)
  BY OneHolderLess DEF LInv, Actors
<1>2. HeldIsAlive'
  BY <1>1 DEF LInv, HeldIsAlive
<1>3. FreedIsUnheld'
  BY <1>1 DEF LInv, FreedIsUnheld
<1> QED
  BY <1>1, <1>2, <1>3 DEF LInv

(* Nobody frees a session that is in the map. *)
LEMMA MappedIsNotFreed ==
  ASSUME OInv, NEW s \in Sids, s \in mapSessions
  PROVE  state[s] = "live" /\ \A q \in Actors : ~(cur[q] = s /\ pc[q] \in FreeingPc)
  BY DEF OInv, Owns, DeletePc, FreeingPc

(* The locking invariant is inductive, given types and ownership. *)
LEMMA LockingNext == TInv /\ OInv /\ LInv /\ [Next]_vars => LInv'
<1> SUFFICES ASSUME TInv, OInv, LInv, [Next]_vars PROVE LInv'
  OBVIOUS
<1> USE SessionsAssumption DEF TInv, TypeOK, CurIsSession, Actors, ActorPc,
       WorkingPc, HoldPc, FreeingPc, Goto, objVars, groupVars
<1>1. ASSUME NEW p \in Procs, NEW s \in Sids, Logon(p, s) PROVE LInv'
  BY <1>1, SameHoldersKeep DEF Logon
<1>2. ASSUME NEW p \in Procs, NEW s \in Sids, ValidateSession(p, s) PROVE LInv'
  <2>1. s \in mapSessions /\ Lock(s)
    BY <1>2 DEF ValidateSession, GetSessionLocked
  <2> QED
    BY <1>2, <2>1, MappedIsNotFreed, OneMoreKeeps DEF ValidateSession
<1>3. ASSUME NEW p \in Procs, GetSessionGroup(p) PROVE LInv'
  BY <1>3, SameHoldersKeep DEF GetSessionGroup
<1>4. ASSUME NEW p \in Procs, InsertSessionGroup(p) PROVE LInv'
  BY <1>4, SameHoldersKeep DEF InsertSessionGroup
<1>5. ASSUME NEW p \in Procs, RegisterSession(p) PROVE LInv'
  <2>1. cur[p] \in Sids /\ pc[p] = "register"
    BY <1>5 DEF RegisterSession
  <2>2. CASE Lock(cur[p]) /\ Goto(p, "busy")
    <3>1. state[cur[p]] = "live"
      BY <2>1 DEF OInv, Owns, CreatePc
    <3>2. \A q \in Actors : ~(cur[q] = cur[p] /\ pc[q] \in FreeingPc)
      BY <2>1 DEF OInv, Owns, CreatePc, DeletePc
    <3> QED
      BY <1>5, <2>1, <2>2, <3>1, <3>2, OneMoreKeeps DEF RegisterSession
  <2>3. CASE Goto(p, "dtor") /\ UNCHANGED <<refCount, mapSessions>>
    BY <1>5, <2>3, SameHoldersKeep DEF RegisterSession
  <2> QED
    BY <1>5, <2>2, <2>3 DEF RegisterSession
<1>6. ASSUME NEW p \in Procs, GetNotifyItems(p) PROVE LInv'
  BY <1>6, SameHoldersKeep DEF GetNotifyItems
<1>7. ASSUME NEW p \in Procs, UnlockSession(p) PROVE LInv'
  BY <1>7, OneLessKeeps DEF UnlockSession
<1>8. ASSUME NEW p \in Procs, RemoveBusyState(p) PROVE LInv'
  <2>1. cur[p] \in Sids /\ pc[p] = "unlocked"
    BY <1>8 DEF RemoveBusyState
  <2>2. CASE GetSessionLocked(cur[p]) /\ Goto(p, "finishing")
    <3>1. cur[p] \in mapSessions /\ Lock(cur[p])
      BY <2>2 DEF GetSessionLocked
    <3> QED
      BY <1>8, <2>1, <2>2, <3>1, MappedIsNotFreed, OneMoreKeeps
         DEF RemoveBusyState
  <2>3. CASE Goto(p, "idle") /\ UNCHANGED <<refCount, stale>>
    BY <1>8, <2>3, SameHoldersKeep DEF RemoveBusyState
  <2> QED
    BY <1>8, <2>2, <2>3 DEF RemoveBusyState
<1>9. ASSUME NEW p \in Procs, FinishRequest(p) PROVE LInv'
  BY <1>9, OneLessKeeps DEF FinishRequest
<1>10. ASSUME NEW p \in Procs, RemoveSession(p) PROVE LInv'
  BY <1>10, SameHoldersKeep DEF RemoveSession, TakeOut
<1>11. ASSUME NEW p \in Actors, NextDoomed(p) PROVE LInv'
  BY <1>11, SameHoldersKeep DEF NextDoomed
<1>12. ASSUME NEW p \in Actors, Shutdown(p) PROVE LInv'
  BY <1>12, SameHoldersKeep DEF Shutdown
<1>13. ASSUME NEW p \in Actors, ShutdownTimeout(p) PROVE LInv'
  BY <1>13, SameHoldersKeep DEF ShutdownTimeout
<1>14. ASSUME NEW p \in Actors, Destroy(p) PROVE LInv'
  BY <1>14, SameHoldersKeep DEF Destroy
<1>15. ASSUME NEW p \in Actors, ReleaseSession(p) PROVE LInv'
  BY <1>15, SameHoldersKeep DEF ReleaseSession
<1>16. ASSUME NEW p \in Actors, ReadGroupId(p) PROVE LInv'
  BY <1>16, SameHoldersKeep DEF ReadGroupId
<1>17. ASSUME NEW p \in Actors, DeleteIfOrphaned(p) PROVE LInv'
  <2>1. cur[p] \in Sids /\ pc[p] = "orphan"
    BY <1>17 DEF DeleteIfOrphaned
  <2>2. Holders(cur[p]) = {}
    BY <2>1 DEF LInv, FreedIsUnheld
  <2> QED
    BY <1>17, <2>1, <2>2, SameHoldersKeep DEF DeleteIfOrphaned
<1>18. CASE CleanSessions
  BY <1>18, SameHoldersKeep DEF CleanSessions, TakeOut
<1>19. CASE CleanerWait
  BY <1>19, SameHoldersKeep DEF CleanerWait
<1>20. CASE RemoveAllSessions
  BY <1>20, SameHoldersKeep DEF RemoveAllSessions, TakeOut
<1>21. CASE SignalExit
  BY <1>21, SameHoldersKeep DEF SignalExit
<1>22. CASE DeleteRemaining
  BY <1>22, SameHoldersKeep DEF DeleteRemaining, TakeOut
<1>23. ASSUME NEW s \in Sids, Expire(s) PROVE LInv'
  BY <1>23, SameHoldersKeep DEF Expire
<1>24. CASE UNCHANGED vars
  BY <1>24, SameHoldersKeep DEF vars
<1> QED
  BY <1>1, <1>2, <1>3, <1>4, <1>5, <1>6, <1>7, <1>8, <1>9, <1>10, <1>11, <1>12,
     <1>13, <1>14, <1>15, <1>16, <1>17, <1>18, <1>19, <1>20, <1>21, <1>22,
     <1>23, <1>24
     DEF Next, LogonStep, DeleteStep, ExitStep, Terminated

-----------------------------------------------------------------------------
(* The theorems. *)

IInv == TInv /\ OInv /\ LInv

(* The invariant is inductive, so it always holds. *)
THEOREM Invariance == Spec => []IInv
<1>1. Init => IInv
  BY TypeInit, OwnersInit, LockingInit DEF IInv
<1>2. IInv /\ [Next]_vars => IInv'
  BY TypeNext, OwnersNext, LockingNext DEF IInv, LInv
<1> QED
  BY <1>1, <1>2, PTL DEF Spec

(* Type correctness of ECSessionManager's and the sessions' state; that the  *)
(* reference count never becomes negative is part of it.                     *)
THEOREM TypeCorrect == Spec => []TypeOK
<1>1. IInv => TypeOK
  BY DEF IInv, TInv
<1> QED
  BY <1>1, Invariance, PTL

(* ValidateSession's promise: whoever has locked a session can rely on it    *)
(* not being freed before it is unlocked.                                    *)
THEOREM LockedSessionIsAlive == Spec => []LockedIsAlive
<1>1. IInv => LockedIsAlive
  BY LInvIsLockedIsAlive DEF IInv
<1> QED
  BY <1>1, Invariance, PTL

(* RemoveSession's promise: no other thread is removing the session.         *)
THEOREM OnlyOneRemover == Spec => []SoleRemover
<1>1. IInv => SoleRemover
  BY DEF IInv, OInv, SoleRemover, Deleters, Owns
<1> QED
  BY <1>1, Invariance, PTL

(* "No other threads can start new requests on the session after this        *)
(* point": while a thread is deleting a session its count does not grow.     *)
THEOREM NoNewUsersOnceRemoved == Spec => NoNewUsers
<1> DEFINE Step == \A s \in Sids : Deleters(s) # {} => refCount'[s] <= refCount[s]
<1>1. IInv /\ [Next]_vars => Step
  <2> SUFFICES ASSUME IInv, [Next]_vars, NEW s \in Sids, Deleters(s) # {}
               PROVE  refCount'[s] <= refCount[s]
    OBVIOUS
  <2> USE DEF IInv, TInv, TypeOK, CurIsSession, Actors, WorkingPc
  <2>1. PICK d \in Actors : Owns(d, s)
    BY DEF Deleters, Owns
  <2>2. s \notin mapSessions
    BY <2>1 DEF OInv
  <2>3. ASSUME NEW p \in Procs, NEW u \in Sids, ValidateSession(p, u)
        PROVE  refCount'[s] <= refCount[s]
    BY <2>2, <2>3 DEF ValidateSession, GetSessionLocked, Lock
  <2>4. ASSUME NEW p \in Procs, RegisterSession(p)
        PROVE  refCount'[s] <= refCount[s]
    <3>1. cur[p] # s
      BY <2>4 DEF RegisterSession, OInv, Owns, Deleters, CreatePc, DeletePc
    <3> QED
      BY <2>4, <3>1 DEF RegisterSession, Lock
  <2>5. ASSUME NEW p \in Procs, RemoveBusyState(p)
        PROVE  refCount'[s] <= refCount[s]
    BY <2>2, <2>5 DEF RemoveBusyState, GetSessionLocked, Lock
  <2>6. ASSUME NEW p \in Procs, UnlockSession(p) \/ FinishRequest(p)
        PROVE  refCount'[s] <= refCount[s]
    BY <2>6 DEF UnlockSession, FinishRequest, Unlock
  <2>7. CASE UNCHANGED refCount
    BY <2>7
  <2> QED
    BY <2>3, <2>4, <2>5, <2>6, <2>7
       DEF Next, Logon, LogonStep, GetSessionGroup, InsertSessionGroup,
           GetNotifyItems, RemoveSession, DeleteStep, NextDoomed, Shutdown,
           ShutdownTimeout, Destroy, ReleaseSession, ReadGroupId,
           DeleteIfOrphaned, CleanSessions, CleanerWait, RemoveAllSessions,
           ExitStep, SignalExit, DeleteRemaining, Expire, Terminated, vars,
           objVars
<1> QED
  BY <1>1, Invariance, PTL DEF Spec, NoNewUsers

-----------------------------------------------------------------------------
(* The life of a session: SessionLife is implemented.                        *)

(* p deletes s. *)
Deletes(p, s) == s \in todo[p] \/ (cur[p] = s /\ pc[p] \in DeletePc)

(* What the steps of SessionLife need besides: no session is lost, the list  *)
(* of sessions to delete is used up before the next is made, and when the    *)
(* server has left its main loop no request is under way.                    *)
EInv ==
  /\ \A p \in Actors : todo[p] # {} => pc[p] \in DeletePc \cup {"next"}
  /\ \A p \in Actors : pc[p] \in CreatePc => p \in Procs
  /\ \A s \in Sids : state[s] = "live" =>
       s \in mapSessions \/ \E p \in Actors : Owns(p, s)
  /\ pc[Main] # "run" => \A p \in Procs : pc[p] = "idle"

(* Initially there are no sessions. *)
LEMMA EndsInit == Init => EInv
<1> SUFFICES ASSUME Init PROVE EInv
  OBVIOUS
<1>1. \A p \in Actors : pc[p] \in {"scan", "run", "idle"} /\ todo[p] = {}
  BY DEF Init
<1>2. \A p \in Procs : pc[p] = "idle"
  BY SessionsAssumption DEF Init, Actors
<1> QED
  BY <1>1, <1>2 DEF EInv, Init, CreatePc

(* It is inductive, given types and ownership. *)
LEMMA EndsNext == TInv /\ OInv /\ EInv /\ [Next]_vars => EInv'
<1> SUFFICES ASSUME TInv, OInv, EInv, [Next]_vars PROVE EInv'
  OBVIOUS
<1> USE SessionsAssumption DEF TInv, TypeOK, CurIsSession, EInv, Owns, Actors,
       ActorPc, WorkingPc, CreatePc, DeletePc, Goto, objVars, groupVars
<1>1. ASSUME NEW p \in Procs, NEW s \in Sids, Logon(p, s) PROVE EInv'
  BY <1>1 DEF Logon
<1>2. ASSUME NEW p \in Procs, NEW s \in Sids, ValidateSession(p, s) PROVE EInv'
  BY <1>2 DEF ValidateSession, GetSessionLocked
<1>3. ASSUME NEW p \in Procs, GetSessionGroup(p) PROVE EInv'
  BY <1>3 DEF GetSessionGroup
<1>4. ASSUME NEW p \in Procs, InsertSessionGroup(p) PROVE EInv'
  BY <1>4 DEF InsertSessionGroup
<1>5. ASSUME NEW p \in Procs, RegisterSession(p) PROVE EInv'
  BY <1>5 DEF RegisterSession
<1>6. ASSUME NEW p \in Procs, GetNotifyItems(p) PROVE EInv'
  BY <1>6 DEF GetNotifyItems
<1>7. ASSUME NEW p \in Procs, UnlockSession(p) PROVE EInv'
  BY <1>7 DEF UnlockSession
<1>8. ASSUME NEW p \in Procs, RemoveBusyState(p) PROVE EInv'
  BY <1>8 DEF RemoveBusyState, GetSessionLocked
<1>9. ASSUME NEW p \in Procs, FinishRequest(p) PROVE EInv'
  BY <1>9 DEF FinishRequest
<1>10. ASSUME NEW p \in Procs, RemoveSession(p) PROVE EInv'
  BY <1>10 DEF RemoveSession, TakeOut
<1>11. ASSUME NEW p \in Actors, NextDoomed(p) PROVE EInv'
  BY <1>11 DEF NextDoomed
<1>12. ASSUME NEW p \in Actors, Shutdown(p) PROVE EInv'
  BY <1>12 DEF Shutdown
<1>13. ASSUME NEW p \in Actors, ShutdownTimeout(p) PROVE EInv'
  BY <1>13 DEF ShutdownTimeout
<1>14. ASSUME NEW p \in Actors, Destroy(p) PROVE EInv'
  BY <1>14 DEF Destroy
<1>15. ASSUME NEW p \in Actors, ReleaseSession(p) PROVE EInv'
  BY <1>15 DEF ReleaseSession
<1>16. ASSUME NEW p \in Actors, ReadGroupId(p) PROVE EInv'
  BY <1>16 DEF ReadGroupId
<1>17. ASSUME NEW p \in Actors, DeleteIfOrphaned(p) PROVE EInv'
  BY <1>17 DEF DeleteIfOrphaned
<1>18. CASE CleanSessions
  BY <1>18 DEF CleanSessions, TakeOut
<1>19. CASE CleanerWait
  BY <1>19 DEF CleanerWait
<1>20. CASE RemoveAllSessions
  BY <1>20 DEF RemoveAllSessions, TakeOut
<1>21. CASE SignalExit
  BY <1>21 DEF SignalExit
<1>22. CASE DeleteRemaining
  BY <1>22 DEF DeleteRemaining, TakeOut
<1>23. ASSUME NEW s \in Sids, Expire(s) PROVE EInv'
  BY <1>23 DEF Expire
<1>24. CASE UNCHANGED vars
  BY <1>24 DEF vars
<1> QED
  BY <1>1, <1>2, <1>3, <1>4, <1>5, <1>6, <1>7, <1>8, <1>9, <1>10, <1>11, <1>12,
     <1>13, <1>14, <1>15, <1>16, <1>17, <1>18, <1>19, <1>20, <1>21, <1>22,
     <1>23, <1>24
     DEF Next, LogonStep, DeleteStep, ExitStep, Terminated

-----------------------------------------------------------------------------
(* Destructors.  That nobody uses a session whose destructor runs rests on   *)
(* more than the destructor: a thread that creates a session and may have to *)
(* delete it is alone with it, and the main thread deletes sessions when no  *)
(* request is left to use them.                                              *)

AlonePc == CreatePc \cup {"dtor"}

AloneInv ==
  \A s \in Sids : \A p \in Actors :
    cur[p] = s /\ pc[p] \in AlonePc => Holders(s) = {}

(* Initially no session is worked on. *)
LEMMA AloneInit == Init => AloneInv
<1> SUFFICES ASSUME Init PROVE AloneInv
  OBVIOUS
<1>1. \A p \in Actors : pc[p] \in {"scan", "run", "idle"}
  BY DEF Init
<1> QED
  BY <1>1 DEF AloneInv, AlonePc, CreatePc

(* A step that gives no session a new user keeps the invariant if threads    *)
(* begin to be alone only with sessions nobody uses.                         *)
LEMMA AloneKeeps ==
  ASSUME AloneInv, \A s \in Sids : Holders(s)' \subseteq Holders(s),
         \A p \in Actors : pc'[p] \in AlonePc =>
           \/ pc[p] \in AlonePc /\ cur'[p] = cur[p]
           \/ cur'[p] \in Sids => Holders(cur'[p]) = {}
  PROVE  AloneInv'
  BY DEF AloneInv, AlonePc, CreatePc

(* A step that changes no holders gives no session a new user. *)
LEMMA SameHoldersAlone ==
  ASSUME \A p \in Procs : pc'[p] \in HoldPc => pc[p] \in HoldPc /\ cur'[p] = cur[p]
  PROVE  \A s \in Sids : Holders(s)' \subseteq Holders(s)
  BY DEF Holders, HoldPc

(* A thread may begin to use a session that no thread is alone with. *)
LEMMA UsingKeepsAlone ==
  ASSUME AloneInv, NEW p \in Procs, NEW s \in Sids,
         pc'[p] \in HoldPc, cur'[p] = s,
         \A q \in Actors : q # p => pc'[q] = pc[q] /\ cur'[q] = cur[q],
         \A q \in Actors : q # p => ~(cur[q] = s /\ pc[q] \in AlonePc)
  PROVE  AloneInv'
<1>1. \A u \in Sids : u # s => Holders(u)' \subseteq Holders(u)
  BY DEF Holders, HoldPc, Actors
<1> QED
  BY <1>1 DEF AloneInv, AlonePc, CreatePc, HoldPc, Actors

(* No thread is alone with a session that is in the map. *)
LEMMA MappedIsShared ==
  ASSUME OInv, NEW s \in Sids, s \in mapSessions
  PROVE  \A q \in Actors : ~(cur[q] = s /\ pc[q] \in AlonePc)
  BY DEF OInv, Owns, DeletePc, AlonePc

(* The invariant is inductive, given those above. *)
LEMMA AloneNext == IInv /\ EInv /\ AloneInv /\ [Next]_vars => AloneInv'
<1> SUFFICES ASSUME IInv, EInv, AloneInv, [Next]_vars PROVE AloneInv'
  OBVIOUS
<1> USE SessionsAssumption DEF IInv, TInv, TypeOK, CurIsSession, Actors, ActorPc,
       WorkingPc, HoldPc, AlonePc, CreatePc, Goto, objVars, groupVars
<1>1. ASSUME NEW p \in Procs, NEW s \in Sids, Logon(p, s) PROVE AloneInv'
  <2>1. Holders(s) = {}
    BY <1>1 DEF Logon, LInv, HeldIsAlive
  <2> QED
    BY <1>1, <2>1, SameHoldersAlone, AloneKeeps DEF Logon
<1>2. ASSUME NEW p \in Procs, NEW s \in Sids, ValidateSession(p, s) PROVE AloneInv'
  <2>1. s \in mapSessions
    BY <1>2 DEF ValidateSession, GetSessionLocked
  <2> QED
    BY <1>2, <2>1, MappedIsShared, UsingKeepsAlone DEF ValidateSession
<1>3. ASSUME NEW p \in Procs, GetSessionGroup(p) PROVE AloneInv'
  BY <1>3, SameHoldersAlone, AloneKeeps DEF GetSessionGroup
<1>4. ASSUME NEW p \in Procs, InsertSessionGroup(p) PROVE AloneInv'
  BY <1>4, SameHoldersAlone, AloneKeeps DEF InsertSessionGroup
<1>5. ASSUME NEW p \in Procs, RegisterSession(p) PROVE AloneInv'
  <2>1. cur[p] \in Sids /\ pc[p] = "register"
    BY <1>5 DEF RegisterSession
  <2>2. CASE Goto(p, "busy")
    <3>1. \A q \in Actors : q # p => ~(cur[q] = cur[p] /\ pc[q] \in AlonePc)
      BY <2>1 DEF OInv, Owns, DeletePc
    <3> QED
      BY <1>5, <2>1, <2>2, <3>1, UsingKeepsAlone DEF RegisterSession
  <2>3. CASE Goto(p, "dtor")
    BY <1>5, <2>3, SameHoldersAlone, AloneKeeps DEF RegisterSession
  <2> QED
    BY <1>5, <2>2, <2>3 DEF RegisterSession
<1>6. ASSUME NEW p \in Procs, GetNotifyItems(p) PROVE AloneInv'
  BY <1>6, SameHoldersAlone, AloneKeeps DEF GetNotifyItems
<1>7. ASSUME NEW p \in Procs, UnlockSession(p) PROVE AloneInv'
  BY <1>7, SameHoldersAlone, AloneKeeps DEF UnlockSession
<1>8. ASSUME NEW p \in Procs, RemoveBusyState(p) PROVE AloneInv'
  <2>1. cur[p] \in Sids
    BY <1>8 DEF RemoveBusyState
  <2>2. CASE GetSessionLocked(cur[p]) /\ Goto(p, "finishing")
    <3>1. cur[p] \in mapSessions
      BY <2>2 DEF GetSessionLocked
    <3> QED
      BY <1>8, <2>1, <2>2, <3>1, MappedIsShared, UsingKeepsAlone
         DEF RemoveBusyState
  <2>3. CASE Goto(p, "idle")
    BY <1>8, <2>3, SameHoldersAlone, AloneKeeps DEF RemoveBusyState
  <2> QED
    BY <1>8, <2>2, <2>3 DEF RemoveBusyState
<1>9. ASSUME NEW p \in Procs, FinishRequest(p) PROVE AloneInv'
  BY <1>9, SameHoldersAlone, AloneKeeps DEF FinishRequest
<1>10. ASSUME NEW p \in Procs, RemoveSession(p) PROVE AloneInv'
  BY <1>10, SameHoldersAlone, AloneKeeps DEF RemoveSession, TakeOut
<1>11. ASSUME NEW p \in Actors, NextDoomed(p) PROVE AloneInv'
  <2>1. pc'[p] = "dtor" => p = Main /\ pc[Main] # "run"
    BY <1>11 DEF NextDoomed
  <2>2. pc'[p] = "dtor" => \A s \in Sids : Holders(s) = {}
    BY <2>1 DEF EInv, Holders
  <2> QED
    BY <1>11, <2>2, SameHoldersAlone, AloneKeeps DEF NextDoomed
<1>12. ASSUME NEW p \in Actors, Shutdown(p) PROVE AloneInv'
  <2>1. cur[p] \in Sids /\ refCount[cur[p]] = 0
    BY <1>12 DEF Shutdown
  <2>2. Holders(cur[p]) = {}
    BY <2>1, ZeroMeansFree DEF LInv
  <2> QED
    BY <1>12, <2>1, <2>2, SameHoldersAlone, AloneKeeps DEF Shutdown
<1>13. ASSUME NEW p \in Actors, ShutdownTimeout(p) PROVE AloneInv'
  BY <1>13, SameHoldersAlone, AloneKeeps DEF ShutdownTimeout
<1>14. ASSUME NEW p \in Actors, Destroy(p) PROVE AloneInv'
  BY <1>14, SameHoldersAlone, AloneKeeps DEF Destroy
<1>15. ASSUME NEW p \in Actors, ReleaseSession(p) PROVE AloneInv'
  BY <1>15, SameHoldersAlone, AloneKeeps DEF ReleaseSession
<1>16. ASSUME NEW p \in Actors, ReadGroupId(p) PROVE AloneInv'
  BY <1>16, SameHoldersAlone, AloneKeeps DEF ReadGroupId
<1>17. ASSUME NEW p \in Actors, DeleteIfOrphaned(p) PROVE AloneInv'
  BY <1>17, SameHoldersAlone, AloneKeeps DEF DeleteIfOrphaned
<1>18. CASE CleanSessions
  BY <1>18, SameHoldersAlone, AloneKeeps DEF CleanSessions, TakeOut
<1>19. CASE CleanerWait
  BY <1>19, SameHoldersAlone, AloneKeeps DEF CleanerWait
<1>20. CASE RemoveAllSessions
  BY <1>20, SameHoldersAlone, AloneKeeps DEF RemoveAllSessions, TakeOut
<1>21. CASE SignalExit
  BY <1>21, SameHoldersAlone, AloneKeeps DEF SignalExit
<1>22. CASE DeleteRemaining
  BY <1>22, SameHoldersAlone, AloneKeeps DEF DeleteRemaining, TakeOut
<1>23. ASSUME NEW s \in Sids, Expire(s) PROVE AloneInv'
  BY <1>23, SameHoldersAlone, AloneKeeps DEF Expire
<1>24. CASE UNCHANGED vars
  BY <1>24, SameHoldersAlone, AloneKeeps DEF vars
<1> QED
  BY <1>1, <1>2, <1>3, <1>4, <1>5, <1>6, <1>7, <1>8, <1>9, <1>10, <1>11, <1>12,
     <1>13, <1>14, <1>15, <1>16, <1>17, <1>18, <1>19, <1>20, <1>21, <1>22,
     <1>23, <1>24
     DEF Next, LogonStep, DeleteStep, ExitStep, Terminated

(* Nobody waits in ~ECSession for users of the session, at logon, at logoff, *)
(* in the cleaner or at exit: the wait without a timeout finds no users.     *)
THEOREM NobodyHangsInDestructor == Spec => []DestructorDoesNotWait
<1>1. Init => IInv /\ EInv /\ AloneInv
  BY TypeInit, OwnersInit, LockingInit, EndsInit, AloneInit DEF IInv
<1>2. IInv /\ EInv /\ AloneInv /\ [Next]_vars => (IInv /\ EInv /\ AloneInv)'
  BY TypeNext, OwnersNext, LockingNext, EndsNext, AloneNext DEF IInv, LInv
<1>3. IInv /\ AloneInv => DestructorDoesNotWait
  <2> SUFFICES ASSUME IInv, AloneInv, NEW p \in Actors, pc[p] = "dtor"
               PROVE  refCount[cur[p]] = 0
    BY DEF DestructorDoesNotWait
  <2>1. cur[p] \in Sids
    BY DEF IInv, TInv, CurIsSession, WorkingPc
  <2>2. Holders(cur[p]) = {}
    BY <2>1 DEF AloneInv, AlonePc
  <2> QED
    BY <2>1, <2>2, FS_EmptySet DEF IInv, LInv, CountExact
<1> QED
  BY <1>1, <1>2, <1>3, PTL DEF Spec

-----------------------------------------------------------------------------
(* The mapped state. *)

(* A session keeps its stage when none of what makes it changes. *)
LEMMA SameStage ==
  ASSUME NEW u \in Sids, state'[u] = state[u],
         u \in mapSessions' <=> u \in mapSessions,
         (\E p \in Actors : Deletes(p, u)') <=> (\E p \in Actors : Deletes(p, u))
  PROVE  Stage'[u] = Stage[u]
<1>1. Deleters(u) # {} <=> \E p \in Actors : Deletes(p, u)
  BY DEF Deleters, Deletes
<1>2. Deleters(u)' # {} <=> \E p \in Actors : Deletes(p, u)'
  BY DEF Deleters, Deletes
<1> QED
  BY <1>1, <1>2 DEF Stage

(* The stage of a session, read off the code's state. *)
StageFacts(u) ==
  /\ state[u] # "live" => Stage[u] = state[u]
  /\ state[u] = "live" /\ u \in mapSessions => Stage[u] = "open"
  /\ state[u] = "live" /\ u \notin mapSessions =>
       /\ \A p \in Actors : Deletes(p, u) => Stage[u] = "ending"
       /\ (\A p \in Actors : ~Deletes(p, u)) => Stage[u] = "starting"

(* That is its stage, before and after a step. *)
LEMMA StageIs == ASSUME NEW u \in Sids PROVE StageFacts(u) /\ StageFacts(u)'
  BY DEF StageFacts, Stage, Deleters, Deletes

(* One session moves on, the others keep their stage. *)
LEMMA OneMoves ==
  ASSUME NEW s \in Sids, NEW to, Stage'[s] = to,
         \A u \in Sids : u # s => Stage'[u] = Stage[u]
  PROVE  Stage' = [Stage EXCEPT ![s] = to]
  BY DEF Stage

(* When every session keeps its stage, Stage is unchanged. *)
LEMMA NoneMoves ==
  ASSUME \A u \in Sids : Stage'[u] = Stage[u]
  PROVE  Stage' = Stage
  BY DEF Stage

(* Users of every session are its holders. *)
LEMMA SameUsers ==
  ASSUME \A u \in Sids : Holders(u)' = Holders(u)
  PROVE  Users' = Users
  BY DEF Users

(* A step that SessionLife does not see. *)
LEMMA Unseen ==
  ASSUME CountExact, UNCHANGED <<state, mapSessions, refCount>>,
         \A p \in Procs : (pc[p] \in HoldPc) <=> (pc'[p] \in HoldPc),
         \A p \in Procs : pc[p] \in HoldPc => cur'[p] = cur[p],
         \A u \in Sids, p \in Actors : Deletes(p, u)' <=> Deletes(p, u),
         (pc[Main] = "run") <=> (pc'[Main] = "run")
  PROVE  UNCHANGED Life!vars
<1>1. Users' = Users
  BY SameHolders, SameUsers
<1>2. \A u \in Sids : Stage'[u] = Stage[u]
  BY SameStage
<1> QED
  BY <1>1, <1>2, NoneMoves DEF Life!vars

-----------------------------------------------------------------------------
(* Steps. *)

(* A session that is created by a thread is starting. *)
LEMMA CreatedIsStarting ==
  ASSUME IInv, NEW p \in Actors, pc[p] \in CreatePc
  PROVE  /\ cur[p] \in Sids /\ state[cur[p]] = "live" /\ cur[p] \notin mapSessions
         /\ \A q \in Actors : ~Deletes(q, cur[p])
         /\ Stage[cur[p]] = "starting"
<1>1. cur[p] \in Sids
  BY DEF IInv, TInv, CurIsSession, WorkingPc, CreatePc
<1>2. state[cur[p]] = "live" /\ cur[p] \notin mapSessions
  BY <1>1 DEF IInv, OInv, Owns
<1>3. \A q \in Actors : ~Deletes(q, cur[p])
  BY <1>1 DEF IInv, OInv, Owns, Deletes, CreatePc, DeletePc
<1> QED
  BY <1>1, <1>2, <1>3, StageIs DEF StageFacts

(* A session that is being deleted is ending. *)
LEMMA DeletedIsEnding ==
  ASSUME IInv, NEW p \in Actors, pc[p] \in DeletePc
  PROVE  /\ cur[p] \in Sids /\ state[cur[p]] = "live" /\ cur[p] \notin mapSessions
         /\ Stage[cur[p]] = "ending"
<1>1. cur[p] \in Sids
  BY DEF IInv, TInv, CurIsSession, WorkingPc, DeletePc
<1>2. state[cur[p]] = "live" /\ cur[p] \notin mapSessions
  BY <1>1 DEF IInv, OInv, Owns
<1> QED
  BY <1>1, <1>2, StageIs DEF StageFacts, Deletes

(* A thread that begins to hold a session uses it. *)
LEMMA HoldingEnters ==
  ASSUME IInv, NEW p \in Procs, NEW s \in Sids, Lock(s),
         pc[p] \notin HoldPc, pc'[p] \in HoldPc, cur'[p] = s,
         \A q \in Procs : q # p => pc'[q] = pc[q] /\ cur'[q] = cur[q]
  PROVE  Life!Enter(s, p)
<1>1. \A u \in Sids :
        Holders(u)' = IF u = s THEN Holders(u) \cup {p} ELSE Holders(u)
  BY OneMoreHolder DEF IInv, LInv
<1>2. \A u \in Sids : p \notin Users[u]
  BY DEF Users, Holders, HoldPc
<1>3. Users' = [Users EXCEPT ![s] = Users[s] \cup {p}]
  BY <1>1 DEF Users
<1> QED
  BY <1>2, <1>3 DEF Life!Enter

(* A thread that stops holding a session has left it. *)
LEMMA UnlockingLeaves ==
  ASSUME IInv, NEW p \in Procs, Unlock(cur[p]), UNCHANGED <<state, mapSessions, todo>>,
         pc[p] \in HoldPc, pc'[p] \notin HoldPc \cup DeletePc, UNCHANGED cur,
         \A q \in Actors : q # p => pc'[q] = pc[q]
  PROVE  Life!Leave(cur[p], p)
<1>1. cur[p] \in Sids
  BY DEF IInv, TInv, CurIsSession, WorkingPc, HoldPc, Actors
<1>2. \A u \in Sids :
        Holders(u)' = IF u = cur[p] THEN Holders(u) \ {p} ELSE Holders(u)
  BY OneHolderLess DEF IInv, LInv, Actors
<1>3. p \in Users[cur[p]]
  BY <1>1 DEF Users, Holders, HoldPc
<1>4. Users' = [Users EXCEPT ![cur[p]] = Users[cur[p]] \ {p}]
  BY <1>1, <1>2 DEF Users
<1>5. \A u \in Sids, q \in Actors : Deletes(q, u)' <=> Deletes(q, u)
  BY DEF Deletes, HoldPc, DeletePc
<1>6. Stage' = Stage
  BY <1>5, SameStage, NoneMoves
<1>7. pc'[Main] = pc[Main]
  BY SessionsAssumption DEF Actors
<1> QED
  BY <1>3, <1>4, <1>6, <1>7 DEF Life!Leave

(* Logging on. *)
LEMMA LogonCreates ==
  ASSUME IInv, EInv, NEW p \in Procs, NEW s \in Sids, Logon(p, s)
  PROVE  Life!Create(s)
<1> USE SessionsAssumption DEF IInv, TInv, TypeOK, Actors, Goto, Logon
<1>1. Stage[s] = "none"
  BY StageIs DEF StageFacts
<1>2. s \notin mapSessions /\ \A q \in Actors : ~Deletes(q, s) /\ ~Deletes(q, s)'
  BY DEF OInv, Owns, Deletes, DeletePc, objVars, groupVars
<1>3. Stage'[s] = "starting"
  BY <1>2, StageIs DEF StageFacts
<1>4. \A u \in Sids : u # s => Stage'[u] = Stage[u]
  BY SameStage DEF Deletes, DeletePc
<1>5. Users' = Users
  BY SameHolders, SameUsers DEF LInv, HoldPc
<1>6. Stage' = [Stage EXCEPT ![s] = "starting"]
  BY <1>3, <1>4, OneMoves
<1>7. pc'[Main] = pc[Main]
  OBVIOUS
<1> QED
  BY <1>1, <1>5, <1>6, <1>7 DEF Life!Create, Life!Move

(* Registering, or dropping, a new session. *)
LEMMA RegisteringLives ==
  ASSUME IInv, EInv, NEW p \in Procs, RegisterSession(p)
  PROVE  Life!Register(cur[p], p) \/ Life!Drop(cur[p])
<1> USE SessionsAssumption DEF IInv, TInv, TypeOK, Actors, Goto, objVars, groupVars
<1>1. pc[p] = "register" /\ UNCHANGED <<state, cur, todo>>
  BY DEF RegisterSession
<1>2. /\ cur[p] \in Sids /\ state[cur[p]] = "live" /\ cur[p] \notin mapSessions
      /\ \A q \in Actors : ~Deletes(q, cur[p])
      /\ Stage[cur[p]] = "starting"
  BY <1>1, CreatedIsStarting DEF CreatePc
<1>3. CASE /\ Lock(cur[p]) /\ mapSessions' = mapSessions \cup {cur[p]}
           /\ Goto(p, "busy")
  <2>1. Life!Enter(cur[p], p)
    BY <1>1, <1>2, <1>3, HoldingEnters DEF HoldPc
  <2>2. Stage'[cur[p]] = "open"
    BY <1>1, <1>2, <1>3, StageIs DEF StageFacts
  <2>3. \A u \in Sids, q \in Actors : Deletes(q, u)' <=> Deletes(q, u)
    BY <1>1, <1>3 DEF Deletes, DeletePc
  <2>4. \A u \in Sids : u # cur[p] => Stage'[u] = Stage[u]
    BY <1>1, <1>3, <2>3, SameStage
  <2>5. Stage' = [Stage EXCEPT ![cur[p]] = "open"]
    BY <1>2, <2>2, <2>4, OneMoves
  <2>6. pc'[Main] = pc[Main]
    BY <1>3
  <2> QED
    BY <1>2, <2>1, <2>5, <2>6 DEF Life!Register, Life!Move
<1>4. CASE Goto(p, "dtor") /\ UNCHANGED <<refCount, mapSessions>>
  <2>1. Stage'[cur[p]] = "ending"
    <3>1. Deletes(p, cur[p])'
      BY <1>1, <1>4 DEF Deletes, DeletePc
    <3>2. state'[cur[p]] = "live" /\ cur[p] \notin mapSessions'
      BY <1>1, <1>2, <1>4
    <3> QED
      BY <1>1, <1>2, <3>1, <3>2, StageIs DEF StageFacts
  <2>2. \A u \in Sids, q \in Actors : u # cur[p] => (Deletes(q, u)' <=> Deletes(q, u))
    BY <1>1, <1>4 DEF Deletes, DeletePc
  <2>3. \A u \in Sids : u # cur[p] => Stage'[u] = Stage[u]
    BY <1>1, <1>4, <2>2, SameStage
  <2>4. Stage' = [Stage EXCEPT ![cur[p]] = "ending"]
    BY <1>2, <2>1, <2>3, OneMoves
  <2>5. Users' = Users
    BY <1>1, <1>4, SameHolders, SameUsers DEF LInv, HoldPc
  <2>6. pc'[Main] = pc[Main]
    BY <1>4
  <2> QED
    BY <1>2, <2>4, <2>5, <2>6 DEF Life!Drop, Life!Move
<1> QED
  BY <1>3, <1>4 DEF RegisterSession

(* A session that is looked up is in the map, and is used from then on. *)
LEMMA LookingUpUses ==
  ASSUME IInv, NEW p \in Procs, NEW s \in Sids, GetSessionLocked(s),
         UNCHANGED <<state, mapSessions, todo>>, pc[Main] = "run",
         pc[p] \in {"idle", "unlocked"}, pc'[p] \in HoldPc, cur'[p] = s,
         \A q \in Actors : q # p => pc'[q] = pc[q] /\ cur'[q] = cur[q]
  PROVE  Life!Use(s, p)
<1>1. s \in mapSessions /\ Lock(s)
  BY DEF GetSessionLocked
<1>2. Life!Enter(s, p)
  BY <1>1, HoldingEnters DEF HoldPc, Actors
<1>3. Stage[s] = "open"
  BY <1>1, StageIs DEF StageFacts, IInv, OInv
<1>4. \A u \in Sids, q \in Actors : Deletes(q, u)' <=> Deletes(q, u)
  BY DEF Deletes, HoldPc, DeletePc
<1>5. Stage' = Stage
  BY <1>4, SameStage, NoneMoves
<1>6. pc'[Main] = pc[Main]
  BY SessionsAssumption DEF Actors
<1> QED
  BY <1>2, <1>3, <1>5, <1>6 DEF Life!Use

(* Sessions that are taken out of the map end. *)
LEMMA TakingOutEnds ==
  ASSUME IInv, EInv, NEW p \in Actors, NEW S \in SUBSET mapSessions,
         TakeOut(p, S), UNCHANGED <<state, cur, refCount>>,
         pc[p] \notin HoldPc \cup DeletePc \cup {"next"}
  PROVE  Life!Ended(S) /\ Users' = Users
<1> USE DEF IInv, TInv, TypeOK
<1>1. /\ mapSessions' = mapSessions \ S /\ todo' = [todo EXCEPT ![p] = S]
      /\ pc' = [pc EXCEPT ![p] = "next"]
  BY DEF TakeOut, Goto
<1>2. \A s \in S : s \in Sids /\ state[s] = "live" /\ Stage[s] = "open"
  BY StageIs DEF StageFacts, OInv
<1>3. \A s \in S : Stage'[s] = "ending"
  <2> SUFFICES ASSUME NEW s \in S PROVE Stage'[s] = "ending"
    OBVIOUS
  <2>1. Deletes(p, s)' /\ s \notin mapSessions' /\ state'[s] = "live"
    BY <1>1, <1>2 DEF Deletes
  <2> QED
    BY <1>2, <2>1, StageIs DEF StageFacts
<1>4. todo[p] = {}
  BY DEF EInv
<1>5. \A u \in Sids, q \in Actors : u \notin S => (Deletes(q, u)' <=> Deletes(q, u))
  BY <1>1, <1>4 DEF Deletes, DeletePc
<1>6. \A u \in Sids : u \notin S => Stage'[u] = Stage[u]
  BY <1>1, <1>5, SameStage
<1>7. Stage' = [s \in Sids |-> IF s \in S THEN "ending" ELSE Stage[s]]
  BY <1>3, <1>6 DEF Stage
<1>8. Users' = Users
  BY <1>1, SameHolders, SameUsers DEF LInv, HoldPc, Actors
<1> QED
  BY <1>2, <1>7, <1>8 DEF Life!Ended

(* The end of zarafa-server's main loop. *)
LEMMA RemovingAllExits ==
  ASSUME IInv, EInv, RemoveAllSessions
  PROVE  Life!Exit
<1> USE SessionsAssumption DEF Actors
<1>1. /\ pc[Main] = "run" /\ \A p \in Procs : pc[p] = "idle"
      /\ TakeOut(Main, mapSessions) /\ UNCHANGED <<state, cur, refCount>>
  BY DEF RemoveAllSessions, objVars
<1>2. Life!Ended(mapSessions) /\ Users' = Users
  BY <1>1, TakingOutEnds DEF HoldPc, DeletePc
<1>3. \A s \in Sids : Users[s] = {}
  BY <1>1 DEF Users, Holders
<1>4. \A s \in Sids : Stage[s] # "starting"
  <2> SUFFICES ASSUME NEW s \in Sids PROVE Stage[s] # "starting"
    OBVIOUS
  <2>1. CASE state[s] # "live"
    BY <2>1, StageIs DEF StageFacts, IInv, TInv, TypeOK
  <2>2. CASE state[s] = "live" /\ s \in mapSessions
    BY <2>2, StageIs DEF StageFacts
  <2>3. CASE state[s] = "live" /\ s \notin mapSessions
    <3>1. PICK q \in Actors : Owns(q, s)
      BY <2>3 DEF EInv
    <3>2. pc[q] \notin CreatePc
      BY <1>1 DEF EInv, CreatePc
    <3>3. Deletes(q, s)
      BY <3>1, <3>2 DEF Owns, Deletes
    <3> QED
      BY <2>3, <3>3, StageIs DEF StageFacts
  <2> QED
    BY <2>1, <2>2, <2>3
<1>5. {s \in Sids : Stage[s] = "open"} = mapSessions
  <2>1. mapSessions \subseteq Sids /\ \A s \in mapSessions : state[s] = "live"
    BY DEF IInv, TInv, TypeOK, OInv
  <2>2. \A s \in mapSessions : Stage[s] = "open"
    BY <2>1, StageIs DEF StageFacts
  <2>3. ASSUME NEW s \in Sids, s \notin mapSessions PROVE Stage[s] # "open"
    BY <2>3 DEF Stage, IInv, TInv, TypeOK
  <2> QED
    BY <2>1, <2>2, <2>3
<1>6. ~(pc'[Main] = "run")
  BY <1>1 DEF TakeOut, Goto, IInv, TInv, TypeOK
<1> QED
  BY <1>1, <1>2, <1>3, <1>4, <1>5, <1>6 DEF Life!Exit

(* A session is freed when its last user is done. *)
LEMMA DeletingFrees ==
  ASSUME IInv, EInv, NEW p \in Actors, DeleteIfOrphaned(p)
  PROVE  Life!Free(cur[p])
<1> USE SessionsAssumption DEF IInv, TInv, TypeOK, Actors, Goto
<1>1. /\ pc[p] = "orphan" /\ pc' = [pc EXCEPT ![p] = "next"]
      /\ state' = [state EXCEPT ![cur[p]] = "freed"]
      /\ UNCHANGED <<mapSessions, refCount, cur, todo>>
  BY DEF DeleteIfOrphaned
<1>2. cur[p] \in Sids /\ Stage[cur[p]] = "ending"
  BY <1>1, DeletedIsEnding DEF DeletePc
<1>3. Users[cur[p]] = {}
  BY <1>1, <1>2 DEF LInv, FreedIsUnheld, FreeingPc, Users
<1>4. state'[cur[p]] = "freed"
  BY <1>1, <1>2
<1>5. Stage'[cur[p]] = "freed"
  BY <1>2, <1>4 DEF Stage
<1>6. \A u \in Sids, q \in Actors : u # cur[p] => (Deletes(q, u)' <=> Deletes(q, u))
  BY <1>1 DEF Deletes, DeletePc
<1>7. \A u \in Sids : u # cur[p] => Stage'[u] = Stage[u]
  BY <1>1, <1>6, SameStage
<1>8. Stage' = [Stage EXCEPT ![cur[p]] = "freed"]
  BY <1>2, <1>5, <1>7, OneMoves
<1>9. Users' = Users
  BY <1>1, SameHolders, SameUsers DEF LInv, HoldPc
<1>10. (pc'[Main] = "run") <=> (pc[Main] = "run")
  BY <1>1
<1> QED
  BY <1>2, <1>3, <1>8, <1>9, <1>10 DEF Life!Free, Life!Move

(* A session whose users do not end in time is given up. *)
LEMMA TimingOutGivesUp ==
  ASSUME IInv, EInv, NEW p \in Actors, ShutdownTimeout(p)
  PROVE  Life!GiveUp(cur[p])
<1> USE SessionsAssumption DEF IInv, TInv, TypeOK, Actors, Goto
<1>1. /\ pc[p] = "shutdown" /\ pc' = [pc EXCEPT ![p] = "next"]
      /\ state' = [state EXCEPT ![cur[p]] = "leaked"]
      /\ UNCHANGED <<mapSessions, refCount, cur, todo>>
  BY DEF ShutdownTimeout
<1>2. cur[p] \in Sids /\ Stage[cur[p]] = "ending"
  BY <1>1, DeletedIsEnding DEF DeletePc
<1>3. Users[cur[p]] # {}
  <2>1. refCount[cur[p]] # 0
    BY <1>2 DEF ShutdownTimeout
  <2>2. refCount[cur[p]] = Cardinality(Holders(cur[p]))
    BY <1>2 DEF LInv, CountExact
  <2>3. Holders(cur[p]) # {}
    BY <2>1, <2>2, FS_EmptySet, Zenon
  <2> QED
    BY <1>2, <2>3 DEF Users
<1>4. state'[cur[p]] = "leaked"
  BY <1>1, <1>2
<1>5. Stage'[cur[p]] = "leaked"
  BY <1>2, <1>4 DEF Stage
<1>6. \A u \in Sids, q \in Actors : u # cur[p] => (Deletes(q, u)' <=> Deletes(q, u))
  BY <1>1 DEF Deletes, DeletePc
<1>7. \A u \in Sids : u # cur[p] => Stage'[u] = Stage[u]
  BY <1>1, <1>6, SameStage
<1>8. Stage' = [Stage EXCEPT ![cur[p]] = "leaked"]
  BY <1>2, <1>5, <1>7, OneMoves
<1>9. Users' = Users
  BY <1>1, SameHolders, SameUsers DEF LInv, HoldPc
<1>10. (pc'[Main] = "run") <=> (pc[Main] = "run")
  BY <1>1
<1> QED
  BY <1>2, <1>3, <1>8, <1>9, <1>10 DEF Life!GiveUp, Life!Move

(* Initially no session exists and requests are executed. *)
LEMMA LifeInit == Init => Life!Init
<1> SUFFICES ASSUME Init PROVE Life!Init
  OBVIOUS
<1>1. \A p \in Actors : pc[p] \in {"scan", "run", "idle"} /\ todo[p] = {}
  BY DEF Init
<1>2. \A u \in Sids : Holders(u) = {}
  BY <1>1 DEF Holders, Actors
<1>3. Users = [s \in Sids |-> {}]
  BY <1>2 DEF Users
<1>4. Stage = [s \in Sids |-> "none"]
  BY DEF Init, Stage
<1>5. (pc[Main] = "run") = TRUE
  BY SessionsAssumption DEF Init, Actors
<1> QED
  BY <1>3, <1>4, <1>5 DEF Life!Init

(* Every step is a step of SessionLife, or is not seen by it. *)
LEMMA StepLives == IInv /\ EInv /\ [Next]_vars => [Life!Next]_(Life!vars)
<1> SUFFICES ASSUME IInv, EInv, [Next]_vars PROVE [Life!Next]_(Life!vars)
  OBVIOUS
<1> USE SessionsAssumption DEF IInv, TInv, TypeOK, Actors, Goto, objVars, groupVars
<1>a. CountExact
  BY DEF LInv
<1>1. ASSUME NEW p \in Procs, NEW s \in Sids, Logon(p, s) PROVE Life!Next
  BY <1>1, LogonCreates DEF Life!Next
<1>2. ASSUME NEW p \in Procs, NEW s \in Sids, ValidateSession(p, s) PROVE Life!Next
  <2>1. Life!Use(s, p)
    <3>1. /\ GetSessionLocked(s) /\ UNCHANGED <<state, mapSessions, todo>>
          /\ pc[Main] = "run" /\ pc[p] = "idle"
          /\ pc' = [pc EXCEPT ![p] = "busy"] /\ cur' = [cur EXCEPT ![p] = s]
      BY <1>2 DEF ValidateSession
    <3> QED
      BY <3>1, LookingUpUses DEF HoldPc
  <2> QED
    BY <2>1 DEF Life!Next
<1>3. ASSUME NEW p \in Procs, GetSessionGroup(p) PROVE UNCHANGED Life!vars
  BY <1>3, <1>a, Unseen DEF GetSessionGroup, HoldPc, Deletes, DeletePc
<1>4. ASSUME NEW p \in Procs, InsertSessionGroup(p) PROVE UNCHANGED Life!vars
  BY <1>4, <1>a, Unseen DEF InsertSessionGroup, HoldPc, Deletes, DeletePc
<1>5. ASSUME NEW p \in Procs, RegisterSession(p) PROVE Life!Next
  <2>1. cur[p] \in Sids
    BY <1>5 DEF RegisterSession, CurIsSession, WorkingPc
  <2> QED
    BY <1>5, <2>1, RegisteringLives DEF Life!Next
<1>6. ASSUME NEW p \in Procs, GetNotifyItems(p) PROVE UNCHANGED Life!vars
  BY <1>6, <1>a, Unseen DEF GetNotifyItems, HoldPc, Deletes, DeletePc
<1>7. ASSUME NEW p \in Procs, UnlockSession(p) \/ FinishRequest(p) PROVE Life!Next
  <2>1. /\ pc[p] \in HoldPc /\ Unlock(cur[p])
        /\ UNCHANGED <<state, mapSessions, todo, cur>>
        /\ pc'[p] \notin HoldPc \cup DeletePc
        /\ \A q \in Actors : q # p => pc'[q] = pc[q]
    BY <1>7 DEF UnlockSession, FinishRequest, HoldPc, DeletePc
  <2>2. cur[p] \in Sids
    BY <2>1 DEF CurIsSession, WorkingPc, HoldPc
  <2>3. Life!Leave(cur[p], p)
    BY <2>1, UnlockingLeaves
  <2> QED
    BY <2>2, <2>3 DEF Life!Next
<1>8. ASSUME NEW p \in Procs, RemoveBusyState(p) PROVE [Life!Next]_(Life!vars)
  <2>1. cur[p] \in Sids /\ pc[p] = "unlocked" /\ pc[Main] = "run"
    BY <1>8 DEF RemoveBusyState, CurIsSession, WorkingPc, EInv
  <2>2. CASE GetSessionLocked(cur[p]) /\ Goto(p, "finishing")
    <3>1. UNCHANGED <<state, mapSessions, todo, cur>>
      BY <1>8 DEF RemoveBusyState
    <3>2. PICK s \in Sids : s = cur[p]
      BY <2>1
    <3>3. Life!Use(s, p)
      BY <2>1, <2>2, <3>1, <3>2, LookingUpUses DEF HoldPc
    <3> QED
      BY <3>3 DEF Life!Next
  <2>3. CASE Goto(p, "idle") /\ UNCHANGED <<refCount, stale>>
    BY <1>8, <1>a, <2>3, Unseen DEF RemoveBusyState, HoldPc, Deletes, DeletePc
  <2> QED
    BY <1>8, <2>2, <2>3 DEF RemoveBusyState
<1>9. ASSUME NEW p \in Actors, NEW S \in SUBSET mapSessions, TakeOut(p, S),
             UNCHANGED <<state, cur, refCount>>,
             pc[p] \in {"remove", "scan", "joining"}
      PROVE  Life!Next
  <2>1. Life!Ended(S) /\ Users' = Users
    BY <1>9, TakingOutEnds DEF HoldPc, DeletePc
  <2>2. (pc'[Main] = "run") <=> (pc[Main] = "run")
    BY <1>9 DEF TakeOut
  <2>3. Life!End(S) /\ S \in SUBSET Sids
    BY <2>1, <2>2 DEF Life!End
  <2> QED
    BY <2>3 DEF Life!Next
<1>10. ASSUME NEW p \in Procs, RemoveSession(p) PROVE Life!Next
  BY <1>9, <1>10 DEF RemoveSession
<1>11. ASSUME NEW p \in Actors, NextDoomed(p) PROVE UNCHANGED Life!vars
  BY <1>11, <1>a, Unseen DEF NextDoomed, HoldPc, Deletes, DeletePc
<1>12. ASSUME NEW p \in Actors,
              Shutdown(p) \/ Destroy(p) \/ ReleaseSession(p) \/ ReadGroupId(p)
       PROVE  UNCHANGED Life!vars
  BY <1>12, <1>a, Unseen
     DEF Shutdown, Destroy, ReleaseSession, ReadGroupId, HoldPc, Deletes, DeletePc
<1>13. ASSUME NEW p \in Actors, DeleteIfOrphaned(p) PROVE Life!Next
  <2>1. cur[p] \in Sids
    BY <1>13 DEF DeleteIfOrphaned, CurIsSession, WorkingPc
  <2> QED
    BY <1>13, <2>1, DeletingFrees DEF Life!Next
<1>14. ASSUME NEW p \in Actors, ShutdownTimeout(p) PROVE Life!Next
  <2>1. cur[p] \in Sids
    BY <1>14 DEF ShutdownTimeout, CurIsSession, WorkingPc
  <2> QED
    BY <1>14, <2>1, TimingOutGivesUp DEF Life!Next
<1>15. CASE CleanSessions
  BY <1>9, <1>15 DEF CleanSessions
<1>16. CASE CleanerWait
  BY <1>16, <1>a, Unseen DEF CleanerWait, HoldPc, Deletes, DeletePc
<1>17. CASE RemoveAllSessions
  BY <1>17, RemovingAllExits DEF Life!Next
<1>18. CASE SignalExit
  BY <1>18, <1>a, Unseen DEF SignalExit, HoldPc, Deletes, DeletePc
<1>19. CASE DeleteRemaining
  BY <1>9, <1>19 DEF DeleteRemaining
<1>20. ASSUME NEW s \in Sids, Expire(s) PROVE UNCHANGED Life!vars
  BY <1>20, <1>a, Unseen DEF Expire, HoldPc, Deletes, DeletePc
<1>21. CASE UNCHANGED vars
  BY <1>21, <1>a, Unseen DEF vars, HoldPc, Deletes, DeletePc
<1> QED
  BY <1>1, <1>2, <1>3, <1>4, <1>5, <1>6, <1>7, <1>8, <1>10, <1>11, <1>12,
     <1>13, <1>14, <1>15, <1>16, <1>17, <1>18, <1>19, <1>20, <1>21
     DEF Next, LogonStep, DeleteStep, ExitStep, Terminated

(* ECSessionManager keeps SessionLife's promise: a session is used only       *)
(* while it is registered, removed once, and freed by its last user's end    *)
(* or given up; and no request is under way when the server exits.           *)
THEOREM SessionsLive == Spec => ImplementsLife
<1>1. Init => Life!Init
  BY LifeInit
<1>2. Init => EInv
  BY EndsInit
<1>3. IInv /\ EInv /\ [Next]_vars => EInv'
  BY EndsNext DEF IInv
<1>4. IInv /\ EInv /\ [Next]_vars => [Life!Next]_(Life!vars)
  BY StepLives
<1> QED
  BY <1>1, <1>2, <1>3, <1>4, Invariance, PTL DEF Spec, ImplementsLife, Life!Spec
=============================================================================
